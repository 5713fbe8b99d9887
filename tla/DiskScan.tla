------------------------------ MODULE DiskScan ------------------------------
(***************************************************************************)
(* Which bytes are read from where: the volume list (client/volume.c), the *)
(* block readers (client/block_io.c), the VSS copies they read and the     *)
(* loops of do_migrate and cmd_incsync that walk over them (client/main.c).*)
(*                                                                         *)
(* Positions and sizes are in units of which a block has BlockSize.  What  *)
(* the queue, the pool, the receiver and the tracking database do with a   *)
(* block that was read is the subject of Migration and IncSync; here a     *)
(* block is sent when it has been read.  A step keeps the reads it made.   *)
(***************************************************************************)
EXTENDS Timers, Snapshot, SequencesExt

CONSTANTS
  BlockSize,      \* BLOCK_SIZE
  MaxVolumes,     \* MAX_VOLUMES
  MaxVss,         \* VSS_MAX_VOLUMES
  Machines,       \* source machines: sequences of disks
  Skips,          \* configurations: SkipDisks and SkipPartitions
  Slow,           \* timers whose handler may take long
  SlowTime,       \* how long
  MaxMishaps,     \* bound: steps in which an open or a read fails
  Faults          \* open, read, vss, exception, interrupt, kill

ASSUME DiskScanAssumption ==
  /\ BlockSize \in Nat \ {0} /\ MaxVolumes \in Nat \ {0} /\ MaxVss \in Nat \ {0}
  /\ Slow \subseteq TimerEvents /\ SlowTime \in Nat
  /\ MaxMishaps \in Nat

\* Every disk that can be opened has a length, and a partition on which Windows
\* has mounted a volume under a drive letter lies on its disk.
ASSUME MachinesAssumption ==
  \A m \in Machines : \A n \in DOMAIN m :
    /\ m[n].size \in IF m[n].usable THEN Nat \ {0} ELSE Nat
    /\ \A p \in DOMAIN m[n].parts :
         LET part == m[n].parts[p] IN
         /\ part.base \in Nat /\ part.len \in Nat /\ part.copy \in Nat
         /\ part.letter \in BOOLEAN
         /\ part.letter => part.base + part.len <= m[n].size

VARIABLES
  machine, skip,  \* the source machine and the configuration
  slow,           \* the timer whose handler takes long, in this behaviour
  tail,           \* TailSend
  cmd,            \* the command that runs, none
  pc,
  hasVss,         \* volumes with has_vss
  idx,            \* index into the volume list or the reader list
  readers,        \* readers[], or incsync's one reader
  blk,
  gptDone,        \* gpt_done[]
  running,        \* g_running
  sent,           \* disk and offset of what was read and sent
  reads,          \* what the last step read
  failed,         \* whether something could not be read
  mishaps         \* steps in which an open or a read failed

scanVars == <<tail, hasVss, idx, readers, blk, gptDone, running, sent, reads, failed, mishaps>>
inputVars == <<machine, skip, slow>>
dvars == <<inputVars, cmd, pc, scanVars, age, snapVars>>

DInit ==
  /\ machine \in Machines /\ skip \in Skips /\ slow \in Slow
  /\ tail = FALSE /\ cmd = "none" /\ pc = "off" /\ hasVss = {} /\ idx = 1
  /\ readers = << >> /\ blk = 0 /\ gptDone = {} /\ running = TRUE
  /\ sent = {} /\ reads = {} /\ failed = FALSE /\ mishaps = 0
  /\ SnapInit /\ age = timer_init

(***************************************************************************)
(* volume.c.                                                               *)
(***************************************************************************)

CeilDiv(n) == (n + BlockSize - 1) \div BlockSize

\* The entries of non-zero length in the partition tables: disk and position.  A
\* disk that cannot be opened, is not fixed or has no readable layout has none.
Entries(m) ==
  UNION {{<<n, p>> : p \in {q \in DOMAIN m[n].parts : m[n].usable /\ m[n].parts[q].len > 0}} :
         n \in DOMAIN m}

\* Disk by disk, and in the order of the table.
Before(e, f) == e[1] < f[1] \/ (e[1] = f[1] /\ e[2] < f[2])

Place(m, e) == 1 + Cardinality({f \in Entries(m) : Before(f, e)})

\* The volume an entry describes.  A drive letter is that of the volume whose
\* first extent begins where the partition does.
VolumeOf(m, e) ==
  LET part == m[e[1]].parts[e[2]] IN
  [dev |-> e[1], part |-> e[2], base |-> part.base, len |-> part.len,
   letter |-> part.letter, copy |-> part.copy]

\* volume_enumerate: the first MaxVolumes of them.
volume_enumerate(m) ==
  [k \in {Place(m, e) : e \in Entries(m)} \cap 1 .. MaxVolumes |->
     VolumeOf(m, CHOOSE e \in Entries(m) : Place(m, e) = k)]

Vols == volume_enumerate(machine)

volume_block_count(v) == CeilDiv(v.len)

\* The first MaxVss volumes that have a drive letter.
VssVolumes ==
  {k \in DOMAIN Vols : /\ Vols[k].letter
                       /\ Cardinality({j \in 1 .. k : Vols[j].letter}) <= MaxVss}

(***************************************************************************)
(* block_io.c.                                                             *)
(***************************************************************************)

\* A reader for volume k: of its shadow copy, or of the whole disk.
Reader(k, vss, live) ==
  LET v == Vols[k] IN
  [vol |-> k, dev |-> v.dev, base |-> v.base, count |-> volume_block_count(v), vss |-> vss,
   size |-> IF vss THEN v.copy ELSE machine[v.dev].size, live |-> live]

\* A read through r at ro that is sent under off.  What a copy holds at ro is
\* what the disk held at base + ro.
ReadAt(r, ro, off) ==
  [vol |-> r.vol, dev |-> r.dev, off |-> off, ro |-> ro, size |-> r.size, vss |-> r.vss,
   at |-> IF r.vss THEN r.base + ro ELSE ro]

\* block_reader_read gives MIN(block, size - ro) units; at the end of the disk
\* that is nothing.  Past the end the subtraction wraps, and ReadFile has
\* nothing to give either.
HasData(rd) == rd.ro < rd.size

\* Something fails in this step, or nothing.
Fails(f, bad) ==
  /\ bad => f \in Faults /\ mishaps < MaxMishaps
  /\ mishaps' = IF bad THEN mishaps + 1 ELSE mishaps

\* send_block, for a set of reads; those in bad fail.
send_blocks(rds) ==
  /\ reads' = rds
  /\ \E bad \in SUBSET rds :
       /\ Fails("read", bad # {})
       /\ sent' = sent \cup {<<rd.dev, rd.off>> : rd \in {x \in rds \ bad : HasData(x)}}
       /\ failed' = (failed \/ bad # {})

(***************************************************************************)
(* The beginning and the end of a command.                                 *)
(***************************************************************************)

\* incsync leaves out disks and partitions, do_migrate disks only.
Skipped(v) == v.dev \in skip.disks \/ <<v.dev, v.part>> \in skip.parts

\* A command that uses VSS is given.  incsync gives up before if nothing is left.
Begin(c) ==
  /\ cmd = "none"
  /\ c = "incsync" => \E k \in DOMAIN Vols : ~Skipped(Vols[k])
  /\ cmd' = c
  /\ pc' = "vss_init"
  /\ tail' \in IF c = "migrate" THEN BOOLEAN ELSE {FALSE}
  /\ age' = timer_init
  /\ UNCHANGED <<inputVars, hasVss, idx, readers, blk, gptDone, running, sent, reads,
                 failed, mishaps, snapVars>>

\* The process ends.
Ends ==
  /\ tail' = FALSE /\ cmd' = "none" /\ pc' = "off" /\ hasVss' = {} /\ idx' = 1
  /\ readers' = << >> /\ blk' = 0 /\ gptDone' = {} /\ running' = TRUE
  /\ sent' = {} /\ reads' = {} /\ failed' = FALSE /\ mishaps' = 0
  /\ UNCHANGED <<inputVars, age>>

\* vss_init succeeds.
VssReady ==
  /\ pc = "vss_init"
  /\ vss_init_ex
  /\ pc' = "vss"
  /\ UNCHANGED <<inputVars, cmd, scanVars, age>>

\* It fails: incsync goes on without, every other command gives up.
VssMissing ==
  /\ "vss" \in Faults
  /\ pc = "vss_init"
  /\ InitFails(cmd \notin {"migrate", "incsync"})
  /\ IF cmd = "incsync"
     THEN pc' = "iopen" /\ UNCHANGED <<inputVars, cmd, scanVars, age>>
     ELSE Ends

\* do_migrate and cmd_incsync make copies of the volumes with a drive letter, and
\* set has_vss for those that come back under the volume's name.
TakeSnapshots ==
  /\ pc = "vss" /\ cmd \in {"migrate", "incsync"}
  /\ VssVolumes # {}
  /\ \E valid \in IF "vss" \in Faults THEN SUBSET VssVolumes ELSE {VssVolumes} :
       vss_create_snapshots(VssVolumes, valid) /\ shadow' # {} /\ hasVss' = valid
  /\ pc' = IF cmd = "migrate" THEN "open" ELSE "iopen"
  /\ UNCHANGED <<inputVars, cmd, tail, idx, readers, blk, gptDone, running, sent, reads,
                 failed, mishaps, age>>

\* There is nothing to copy, or no copy is reported: do_migrate gives up after
\* vss_cleanup, cmd_incsync reads the disks themselves.
NoSnapshots ==
  /\ pc = "vss" /\ cmd \in {"migrate", "incsync"}
  /\ VssVolumes = {} \/ "vss" \in Faults
  /\ CreateFails \/ vss_create_snapshots(VssVolumes, {})
  /\ UNCHANGED hasVss
  /\ pc' = IF cmd = "migrate" THEN "cleanup" ELSE "iopen"
  /\ UNCHANGED <<inputVars, cmd, tail, idx, readers, blk, gptDone, running, sent, reads,
                 failed, mishaps, age>>

\* cmd_test_vss, cmd_vss_query, cmd_vss_delete.
VssCommand ==
  /\ pc = "vss"
  /\ \/ cmd = "test_vss" /\ (CreatePersistent \/ CreateFails)
     \/ cmd = "vss_query" /\ UNCHANGED snapVars
     \/ cmd = "vss_delete" /\ \E S \in SUBSET Guids, gone \in SUBSET kept : DeleteSnapshots(S, gone)
  /\ pc' = "cleanup"
  /\ UNCHANGED <<inputVars, cmd, scanVars, age>>

\* The end of every command that has a VSS context, or had hoped for one.
Cleanup ==
  /\ pc = "cleanup"
  /\ IF held = {} THEN UNCHANGED snapVars ELSE vss_cleanup /\ UNCHANGED kept
  /\ Ends

\* The process ends with what it holds, which the system takes back.
EndsHolding ==
  /\ held' = {} /\ shadow' = {} /\ UNCHANGED kept
  /\ Ends

\* The process is killed.
Kill ==
  /\ "kill" \in Faults
  /\ cmd # "none"
  /\ EndsHolding

\* SIGINT clears g_running.
Interrupt ==
  /\ "interrupt" \in Faults
  /\ cmd = "migrate" /\ running
  /\ running' = FALSE
  /\ UNCHANGED <<inputVars, cmd, pc, tail, hasVss, idx, readers, blk, gptDone, sent,
                 reads, failed, mishaps, age, snapVars>>

(***************************************************************************)
(* do_migrate.                                                             *)
(***************************************************************************)

\* Whether the reader of volume k reads its copy.
OpenedVss(k, vssOpens) == k \in hasVss /\ vssOpens

\* A reader for the next volume, of its copy or of the disk, and with TailSend a
\* second one of the disk, for which the first one has to stand in if need be.
\* The clamp to the reader's size reaches the volume list only and is left out.
OpenReader ==
  /\ pc = "open"
  /\ idx \in DOMAIN Vols
  /\ \E vssOpens, diskOpens, liveOpens \in BOOLEAN :
       IF Vols[idx].dev \in skip.disks
       THEN UNCHANGED <<readers, failed, mishaps>>
       ELSE /\ Fails("open", ~vssOpens \/ ~diskOpens \/ ~liveOpens)
            /\ IF OpenedVss(idx, vssOpens) \/ diskOpens
               THEN /\ readers' = Append(readers, Reader(idx, OpenedVss(idx, vssOpens),
                         CASE ~tail -> "none" [] liveOpens -> "disk" [] OTHER -> "primary"))
                    /\ UNCHANGED failed
               ELSE failed' = TRUE /\ UNCHANGED readers
  /\ idx' = idx + 1
  /\ UNCHANGED <<inputVars, cmd, pc, tail, hasVss, blk, gptDone, running, sent, reads,
                 age, snapVars>>

\* Mutant: the copies are released once they are open.
ReadersOpen_releases ==
  /\ pc = "open"
  /\ idx \notin DOMAIN Vols
  /\ pc' = IF readers = << >> THEN "cleanup" ELSE "scan"
  /\ idx' = 1
  /\ vss_cleanup
  /\ UNCHANGED <<inputVars, cmd, tail, hasVss, readers, blk, gptDone, running, sent,
                 reads, failed, mishaps, age, kept>>

\* All volumes have been tried; without a reader the command gives up.
ReadersOpen ==
  /\ pc = "open"
  /\ idx \notin DOMAIN Vols
  /\ pc' = IF readers = << >> THEN "cleanup" ELSE "scan"
  /\ idx' = 1
  /\ UNCHANGED <<inputVars, cmd, tail, hasVss, readers, blk, gptDone, running, sent,
                 reads, failed, mishaps, age, snapVars>>

\* Mutant: the table's count is taken as it is.
ScanBlocks_unclamped(r) == r.count

\* Mutant: the last block of a partition is left out.
ScanBlocks_short(r) ==
  IF r.size > r.base
  THEN IF r.count < (r.size - r.base) \div BlockSize THEN r.count - 1
       ELSE (r.size - r.base) \div BlockSize - 1
  ELSE 0

\* How many blocks of a partition the scan sends: no more than lie between the
\* partition's place on the disk and the end of what the reader reads.
ScanBlocks(r) ==
  IF r.size > r.base
  THEN IF r.count < (r.size - r.base) \div BlockSize THEN r.count
       ELSE (r.size - r.base) \div BlockSize
  ELSE 0

\* Mutant: the offset on the disk for a copy as well.
BlockRead_absolute(r, b) ==
  ReadAt(r, r.base + b * BlockSize, r.base + b * BlockSize)

\* Block b of r's partition: within a copy from its beginning.
BlockRead(r, b) ==
  ReadAt(r, IF r.vss THEN b * BlockSize ELSE r.base + b * BlockSize,
         r.base + b * BlockSize)

\* One block, and the time it takes.
ScanBlock ==
  /\ pc = "scan" /\ running
  /\ idx <= Len(readers) /\ blk < ScanBlocks(readers[idx])
  /\ send_blocks({BlockRead(readers[idx], blk)})
  /\ blk' = blk + 1
  /\ pc' = "timers"
  /\ \E t \in {0, 1} : Elapse(t)
  /\ UNCHANGED <<inputVars, cmd, tail, hasVss, idx, readers, gptDone, running, snapVars>>

\* The __except handler around the blocks of a partition, with their timers:
\* do_migrate returns -1 as it is, without vss_cleanup and with its readers open.
TransferRaises ==
  /\ "exception" \in Faults
  /\ \/ pc = "timers"
     \/ pc = "scan" /\ running /\ idx <= Len(readers) /\ blk < ScanBlocks(readers[idx])
  /\ pc' = "raised"
  /\ UNCHANGED <<inputVars, cmd, scanVars, age, snapVars>>

\* main closes the connections, which is all it knows of, and the process ends.
RaisedEnds ==
  /\ pc = "raised"
  /\ EndsHolding

PartitionDone ==
  /\ pc = "scan" /\ running
  /\ idx <= Len(readers) /\ blk >= ScanBlocks(readers[idx])
  /\ idx' = idx + 1 /\ blk' = 0 /\ reads' = {}
  /\ UNCHANGED <<inputVars, cmd, pc, tail, hasVss, readers, gptDone, running, sent,
                 failed, mishaps, age, snapVars>>

ScanDone ==
  /\ pc = "scan" /\ (idx > Len(readers) \/ ~running)
  /\ pc' = "gpt" /\ idx' = 1 /\ blk' = 0 /\ reads' = {}
  /\ UNCHANGED <<inputVars, cmd, tail, hasVss, readers, gptDone, running, sent, failed, mishaps,
                 age, snapVars>>

(***************************************************************************)
(* The timers, in the scan and in the loop of rounds after it.             *)
(***************************************************************************)

\* Mutant: a partition's first block is not its own.
Covers_strict(r, b) == r.dev = b[1] /\ r.base < b[2] /\ b[2] < r.base + r.size

\* The reader do_retransmit and do_incremental_round choose for a block: the
\* first one of the disk whose partition begins before it and that is long
\* enough, which a reader of the whole disk always is.
Covers(r, b) == r.dev = b[1] /\ r.base <= b[2] /\ b[2] < r.base + r.size

EntryFor(b) == SelectInSeq(readers, LAMBDA r : Covers(r, b))

Reached == {b \in sent : EntryFor(b) # 0}

\* do_retransmit.
RetransmitRead(b) ==
  LET r == readers[EntryFor(b)] IN ReadAt(r, IF r.vss THEN b[2] - r.base ELSE b[2], b[2])

\* do_incremental_round reads the disk, or what stands in for it, at the block's
\* place on the disk.
RoundRead(b) ==
  LET r == readers[EntryFor(b)] IN
  IF r.live = "disk"
  THEN ReadAt([r EXCEPT !.vss = FALSE, !.size = machine[r.dev].size], b[2], b[2])
  ELSE ReadAt(r, b[2], b[2])

\* The reads of a timer's handler.  Which of the blocks are unconfirmed is not
\* modelled: all are read.
HandlerReads(ev) ==
  CASE ev = TIMER_RETRANSMIT           -> {RetransmitRead(b) : b \in Reached}
    [] ev = TIMER_INCREMENTAL /\ tail  -> {RoundRead(b) : b \in Reached}
    [] OTHER                           -> {}

\* One due timer is served and reset.
TimerFires ==
  /\ pc \in {"timers", "rounds"}
  /\ timer_check # TIMER_NONE
  /\ reads' = HandlerReads(timer_check)
  /\ \E t \in {0, IF timer_check = slow THEN SlowTime ELSE 0} : timer_reset(timer_check, t)
  /\ UNCHANGED <<inputVars, cmd, pc, tail, hasVss, idx, readers, blk, gptDone, running,
                 sent, failed, mishaps, snapVars>>

\* No timer is due: on to the next block.
TimersDone ==
  /\ pc = "timers"
  /\ timer_check = TIMER_NONE
  /\ pc' = "scan" /\ reads' = {}
  /\ UNCHANGED <<inputVars, cmd, tail, hasVss, idx, readers, blk, gptDone, running,
                 sent, failed, mishaps, age, snapVars>>

(***************************************************************************)
(* The partition tables, the rounds and the end.                           *)
(***************************************************************************)

\* Mutant: the tail of the disk is counted from its unaligned end.
GptOffsets_unaligned(size) ==
  {0} \cup (IF size >= 2 * BlockSize THEN {size - 2 * BlockSize, size - BlockSize} ELSE {})

\* The first block of a disk and, if it has two, the last two whole ones.
GptOffsets(size) ==
  LET end == (size \div BlockSize) * BlockSize IN
  {0} \cup (IF end >= 2 * BlockSize THEN {end - 2 * BlockSize, end - BlockSize} ELSE {})

\* The disk of reader idx, once per disk.  A reader of a copy needs one of the
\* disk for this.  SIGINT between the blocks leaves out the later ones; here it
\* comes before or after all three.
GptBackup ==
  /\ pc = "gpt" /\ running
  /\ idx <= Len(readers)
  /\ LET r == readers[idx]
         disk == [r EXCEPT !.vss = FALSE, !.size = machine[r.dev].size] IN
     /\ gptDone' = gptDone \cup {r.dev}
     /\ IF r.dev \in gptDone
        THEN reads' = {} /\ UNCHANGED <<sent, failed, mishaps>>
        ELSE \/ send_blocks({ReadAt(disk, o, o) : o \in GptOffsets(disk.size)})
             \/ /\ r.vss /\ Fails("open", TRUE)
                /\ reads' = {} /\ failed' = TRUE /\ UNCHANGED sent
  /\ idx' = idx + 1
  /\ UNCHANGED <<inputVars, cmd, pc, tail, hasVss, readers, blk, running, age, snapVars>>

\* With TailSend the loop of rounds follows.
GptDone ==
  /\ pc = "gpt" /\ (idx > Len(readers) \/ ~running)
  /\ pc' = IF tail THEN "rounds" ELSE "finish"
  /\ reads' = {}
  /\ UNCHANGED <<inputVars, cmd, tail, hasVss, idx, readers, blk, gptDone, running,
                 sent, failed, mishaps, age, snapVars>>

\* Mutant: the loop sleeps though a timer is due.
RoundsWait_at_once ==
  /\ pc = "rounds" /\ running
  /\ Elapse(1) /\ reads' = {}
  /\ UNCHANGED <<inputVars, cmd, pc, tail, hasVss, idx, readers, blk, gptDone, running,
                 sent, failed, mishaps, snapVars>>

\* One pass of the loop takes a second or more.
RoundsWait ==
  /\ pc = "rounds" /\ running
  /\ timer_check = TIMER_NONE
  /\ Elapse(1) /\ reads' = {}
  /\ UNCHANGED <<inputVars, cmd, pc, tail, hasVss, idx, readers, blk, gptDone, running,
                 sent, failed, mishaps, snapVars>>

\* all_done, or g_running is cleared.
RoundsDone ==
  /\ pc = "rounds"
  /\ pc' = "finish" /\ reads' = {}
  /\ UNCHANGED <<inputVars, cmd, tail, hasVss, idx, readers, blk, gptDone, running,
                 sent, failed, mishaps, age, snapVars>>

\* vss_backup_complete and vss_cleanup; then the readers are closed.
MigrateEnds ==
  /\ pc = "finish"
  /\ vss_cleanup /\ UNCHANGED kept
  /\ Ends

(***************************************************************************)
(* cmd_incsync: a reader at a time, and all the blocks of the table.       *)
(***************************************************************************)

\* The reader of the next volume.  A volume that is skipped or cannot be opened
\* is passed over.
IncOpen ==
  /\ pc = "iopen"
  /\ idx \in DOMAIN Vols
  /\ \E vssOpens, diskOpens \in BOOLEAN :
       /\ Fails("open", ~Skipped(Vols[idx]) /\ (~vssOpens \/ ~diskOpens))
       /\ IF Skipped(Vols[idx]) \/ ~(OpenedVss(idx, vssOpens) \/ diskOpens)
          THEN idx' = idx + 1 /\ UNCHANGED <<readers, pc>>
          ELSE /\ readers' = <<Reader(idx, OpenedVss(idx, vssOpens), "none")>>
               /\ pc' = "iscan" /\ UNCHANGED idx
  /\ reads' = {}
  /\ UNCHANGED <<inputVars, cmd, tail, hasVss, blk, gptDone, running, sent, failed, age,
                 snapVars>>

IncBlock ==
  /\ pc = "iscan"
  /\ blk < readers[1].count
  /\ send_blocks({BlockRead(readers[1], blk)})
  /\ blk' = blk + 1
  /\ UNCHANGED <<inputVars, cmd, pc, tail, hasVss, idx, readers, gptDone, running, age,
                 snapVars>>

IncPartitionDone ==
  /\ pc = "iscan"
  /\ blk >= readers[1].count
  /\ pc' = "iopen" /\ idx' = idx + 1 /\ blk' = 0 /\ readers' = << >> /\ reads' = {}
  /\ UNCHANGED <<inputVars, cmd, tail, hasVss, gptDone, running, sent, failed, mishaps, age,
                 snapVars>>

\* The copies are released when everything has been read.
IncDone ==
  /\ pc = "iopen"
  /\ idx \notin DOMAIN Vols
  /\ pc' = "cleanup"
  /\ UNCHANGED <<inputVars, cmd, scanVars, age, snapVars>>

DStep ==
  \/ VssReady \/ VssMissing \/ TakeSnapshots \/ NoSnapshots \/ VssCommand \/ Cleanup
  \/ OpenReader \/ ReadersOpen \/ ScanBlock \/ PartitionDone \/ ScanDone
  \/ TimerFires \/ TimersDone
  \/ GptBackup \/ GptDone \/ RoundsWait \/ RoundsDone \/ MigrateEnds \/ RaisedEnds
  \/ IncOpen \/ IncBlock \/ IncPartitionDone \/ IncDone

VssCommands == {"migrate", "incsync", "test_vss", "vss_query", "vss_delete"}

DNext ==
  \/ \E c \in VssCommands : Begin(c)
  \/ DStep
  \/ TransferRaises \/ Interrupt \/ Kill

DSpec == DInit /\ [][DNext]_dvars

\* The client's thread runs.
DFair == DSpec /\ WF_dvars(DStep)

------------------------------------------------------------------------------
(***************************************************************************)
(* Properties.                                                             *)
(***************************************************************************)

\* A reader of a copy stands in for a reader of the disk.
CopyStandsIn == \E k \in DOMAIN readers : readers[k].vss /\ readers[k].live = "primary"

\* Whatever is read, by the scan, a retransmission, a round or incsync, from a
\* copy or from the disk, is what the disk holds at the offset it is sent under;
\* unless the disk could not be opened for the rounds.
ReadsInPlace == CopyStandsIn \/ \A rd \in reads : rd.at = rd.off

\* do_migrate never begins a read behind the end of its reader, where the length
\* left would wrap round.
ReadsInRange == cmd = "migrate" => CopyStandsIn \/ \A rd \in reads : rd.ro <= rd.size

\* A copy is read while it exists.
CopyExists == \A rd \in reads : rd.vss => "bc" \in held /\ rd.vol \in shadow

\* The transfer has gone through without a failure.
Undisturbed == pc = "finish" /\ running /\ ~failed

\* The units of reader r's partition that lie in whole blocks before the disk's end.
WholeBlocks(r) ==
  {r.base + b * BlockSize : b \in {b \in 0 .. r.count - 1 :
                                     r.base + (b + 1) * BlockSize <= machine[r.dev].size}}

\* A partition that is read from the disk is sent as far as the disk has whole
\* blocks.
DiskPartitionsSent ==
  Undisturbed =>
    \A k \in DOMAIN readers :
      ~readers[k].vss => \A o \in WholeBlocks(readers[k]) : <<readers[k].dev, o>> \in sent

\* The first and the last two whole blocks of every disk with a reader are sent,
\* where the partition tables are.
MetadataSent ==
  Undisturbed =>
    \A k \in DOMAIN readers :
      LET size == machine[readers[k].dev].size IN
      \A o \in 0 .. size :
        /\ o % BlockSize = 0
        /\ \/ o = 0
           \/ /\ size >= 2 * BlockSize
              /\ o + BlockSize <= size /\ o + 3 * BlockSize > size
        => <<readers[k].dev, o>> \in sent

\* What is sent is looked at again by retransmissions and rounds, except a
\* metadata block that lies in front of every partition or behind all of them.
RoundsReach ==
  cmd = "migrate" =>
    \A b \in sent :
      \/ EntryFor(b) # 0
      \/ /\ b[2] \in GptOffsets(machine[b[1]].size)
         /\ \A k \in DOMAIN readers :
              readers[k].dev = b[1] =>
                b[2] < readers[k].base \/ b[2] >= readers[k].base + readers[k].size

\* When a command has ended no library, COM apartment or copy is left: it has given
\* them back itself, whichever of its steps failed, except after an exception in
\* the transfer loop, when the end of the process does it, as after a kill.
NothingHeld == cmd = "none" => held = {} /\ shadow = {}

\* A scan comes to its end though the handler of one timer may take longer than
\* the interval of every other.
ScanEnds == pc \in {"scan", "timers"} ~> pc \notin {"scan", "timers"}

ServesTimers == pc \in {"scan", "timers", "rounds"}

\* A timer that is due is served, though timer_check prefers the earlier ones and
\* the handler of one of them takes longer than its own interval; or the loop it
\* is served in ends.
DueIsServed ==
  \A ev \in TimerEvents :
    (ServesTimers /\ Due(ev)) ~> (~Due(ev) \/ ~ServesTimers)

------------------------------------------------------------------------------

\* architecture.md: the full synchronisation goes through every partition.  With a
\* reader and no failure, all whole blocks of a partition are sent.
ScanCovers ==
  Undisturbed =>
    \A k \in DOMAIN readers : \A o \in WholeBlocks(readers[k]) : <<readers[k].dev, o>> \in sent

------------------------------------------------------------------------------
(***************************************************************************)
(* The inductive invariant behind the properties: what a reader may be,    *)
(* where the command is, what it holds, what has been sent and how far the *)
(* transfer has come.                                                      *)
(***************************************************************************)

\* Readers of machine m.  A reader of a disk reads all of it; one of a copy
\* belongs to a partition that lies on the disk.
GoodReaders(m) ==
  {r \in [vol : DOMAIN volume_enumerate(m), dev : DOMAIN m, base : Nat, count : Nat,
          vss : BOOLEAN, size : Nat, live : {"none", "disk", "primary"}] :
     /\ m[r.dev].size \in Nat \ {0}
     /\ ~r.vss => r.size = m[r.dev].size
     /\ r.vss => \A b \in 0 .. r.count - 1 : r.base + b * BlockSize < m[r.dev].size}

\* The variables of a scan have their types.
ScanTypeOK ==
  /\ machine \in Machines
  /\ tail \in BOOLEAN /\ running \in BOOLEAN /\ failed \in BOOLEAN
  /\ idx \in Nat \ {0} /\ blk \in Nat
  /\ readers \in Seq(GoodReaders(machine))
  /\ sent \subseteq (DOMAIN machine) \X Nat

\* Nothing has been opened, read or sent.
Untouched ==
  hasVss = {} /\ idx = 1 /\ readers = << >> /\ blk = 0 /\ gptDone = {} /\ sent = {} /\ reads = {}

ControlOK ==
  /\ cmd \in VssCommands \cup {"none"}
  /\ (pc = "off") <=> (cmd = "none")
  /\ pc \in {"open", "scan", "timers", "raised", "gpt", "rounds", "finish"} => cmd = "migrate"
  /\ pc \in {"iopen", "iscan"} => cmd = "incsync"
  /\ pc \in {"off", "vss_init", "vss"} => Untouched
  /\ pc = "open" => blk = 0 /\ gptDone = {} /\ sent = {} /\ reads = {}
  /\ pc = "iscan" => readers # << >>
  /\ tail => cmd = "migrate" /\ \A k \in DOMAIN readers : readers[k].live # "none"

\* Copies exist while the backup components do, and what reads one reads one
\* that exists.
HeldOK ==
  /\ held \subseteq {"bc", "com", "lib"}
  /\ pc \in {"off", "vss_init"} => held = {}
  /\ pc = "vss" => "bc" \in held
  /\ shadow # {} => "bc" \in held
  /\ hasVss \subseteq shadow \cap VssVolumes
  /\ \A k \in DOMAIN readers : readers[k].vss => readers[k].vol \in hasVss
  /\ \A rd \in reads : rd.vss => rd.vol \in hasVss

\* What is sent lies on its disk, and in migrate it is covered by a reader or is
\* a metadata block.
SentOK ==
  /\ \A b \in sent : b[2] < machine[b[1]].size
  /\ cmd = "migrate" =>
       \A b \in sent : \/ \E k \in DOMAIN readers : Covers(readers[k], b)
                       \/ b[2] \in GptOffsets(machine[b[1]].size)

\* The first n blocks of a partition that is read from the disk are sent.
PartitionSent(r, n) ==
  ~r.vss => \A b \in 0 .. n - 1 : <<r.dev, r.base + b * BlockSize>> \in sent

MetaSent(d) == \A o \in GptOffsets(machine[d].size) : <<d, o>> \in sent

\* How many blocks of reader k the scan has passed.
Passed(k) == IF k < idx THEN ScanBlocks(readers[k]) ELSE IF k = idx THEN blk ELSE 0

ProgressOK ==
  /\ pc \in {"scan", "timers"} /\ ~failed =>
       \A k \in DOMAIN readers : PartitionSent(readers[k], Passed(k))
  /\ pc \in {"gpt", "rounds", "finish"} /\ running /\ ~failed =>
       \A k \in DOMAIN readers : PartitionSent(readers[k], ScanBlocks(readers[k]))
  /\ ~failed => \A d \in gptDone : MetaSent(d)
  /\ pc = "gpt" => \A k \in DOMAIN readers : k < idx => readers[k].dev \in gptDone
  /\ pc \in {"rounds", "finish"} /\ running =>
       \A k \in DOMAIN readers : readers[k].dev \in gptDone

ScanInv ==
  ScanTypeOK /\ ControlOK /\ HeldOK /\ SentOK /\ ReadsInPlace /\ ReadsInRange /\ ProgressOK
=============================================================================
