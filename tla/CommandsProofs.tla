--------------------------- MODULE CommandsProofs ---------------------------
(***************************************************************************)
(* Proofs about the client's commands: what is read, from where and under  *)
(* which offset (DiskScan), what is held (Snapshot), and what a command    *)
(* that says yes about the drivers means (DriverStore, SystemCheck).       *)
(*                                                                         *)
(* ScanInv, stated at the end of DiskScan, is inductive for the commands   *)
(* that read disks; DriverInv for those about drivers.                     *)
(***************************************************************************)
EXTENDS Commands, WellFoundedInduction, TLAPS

------------------------------------------------------------------------------
(***************************************************************************)
(* Numbers.                                                                *)
(***************************************************************************)

\* A set of natural numbers that is not empty has a smallest element.
LEMMA Least ==
  ASSUME NEW S \in SUBSET Nat, S # {}
  PROVE  \E x \in S : \A y \in S : x <= y
<1> DEFINE R == {ss \in Nat \X Nat : ss[1] < ss[2]}
<1>1. IsWellFoundedOn(R, Nat)
  BY NatLessThanWellFounded DEF OpToRel
<1>2. PICK x \in S : \A y \in S : ~ (<<y, x>> \in R)
  <2> HIDE DEF R
  <2> QED BY <1>1, WFMin
<1>3. ASSUME NEW y \in S PROVE x <= y
  <2>1. <<y, x>> \notin R
    BY <1>2
  <2>2. x \in Nat /\ y \in Nat
    OBVIOUS
  <2> QED BY <2>1, <2>2
<1>4. QED BY <1>3

\* What Min of a set of natural numbers is.
LEMMA MinProperties ==
  ASSUME NEW S \in SUBSET Nat, S # {}
  PROVE  Min(S) \in S /\ \A y \in S : Min(S) <= y
<1>1. PICK n \in S : \A m \in S : n <= m
  BY Least
<1>2. QED BY <1>1 DEF Min

\* Division leaves a rest smaller than the divisor.
LEMMA DivProperties ==
  ASSUME NEW x \in Nat, NEW d \in Nat \ {0}
  PROVE  x \div d \in Nat /\ (x \div d) * d <= x /\ x < (x \div d) * d + d
OBVIOUS

\* Multiplication is monotonic.
LEMMA MulMonotonic ==
  ASSUME NEW a \in Nat, NEW b \in Nat, NEW d \in Nat, a <= b
  PROVE  a * d \in Nat /\ a * d <= b * d /\ (a + 1) * d = a * d + d
OBVIOUS

\* Block numbers below a rounded-down quotient are whole blocks.
LEMMA WholeBlock ==
  ASSUME NEW x \in Nat, NEW b \in Nat, NEW d \in Nat \ {0}
  PROVE  (b < x \div d) <=> (b * d + d <= x)
<1> DEFINE q == x \div d
<1>1. q \in Nat /\ q * d <= x /\ x < q * d + d
  BY DivProperties
<1>2. CASE b < q
  <2>1. (b + 1) * d <= q * d /\ (b + 1) * d = b * d + d
    BY <1>1, <1>2, MulMonotonic
  <2> QED BY <1>1, <1>2, <2>1
<1>3. CASE ~(b < q)
  <2>1. q * d <= b * d
    BY <1>1, <1>3, MulMonotonic
  <2> QED BY <1>1, <1>3, <2>1
<1>4. QED BY <1>2, <1>3

\* A block of a partition begins inside it: volume_block_count rounds up.
LEMMA BlockBeginsInside ==
  ASSUME NEW n \in Nat, NEW b \in Nat, b < CeilDiv(n)
  PROVE  CeilDiv(n) \in Nat /\ b * BlockSize < n
<1>1. BlockSize \in Nat \ {0}
  BY DiskScanAssumption
<1>2. n + BlockSize - 1 \in Nat
  BY <1>1
<1>3. b * BlockSize + BlockSize <= n + BlockSize - 1
  BY <1>1, <1>2, WholeBlock DEF CeilDiv
<1>4. b * BlockSize \in Nat
  BY <1>1
<1>5. CeilDiv(n) \in Nat
  BY <1>1, <1>2, DivProperties DEF CeilDiv
<1>6. QED BY <1>1, <1>3, <1>4, <1>5

------------------------------------------------------------------------------
(***************************************************************************)
(* Volumes and readers.                                                    *)
(***************************************************************************)

\* CeilDiv is a natural number.
LEMMA CeilDivType ==
  ASSUME NEW n \in Nat PROVE CeilDiv(n) \in Nat
<1>1. BlockSize \in Nat \ {0} /\ n + BlockSize - 1 \in Nat
  BY DiskScanAssumption
<1>2. QED BY <1>1, DivProperties DEF CeilDiv

\* What volume_enumerate says of a volume is what the partition table says.
LEMMA VolumeProperties ==
  ASSUME NEW m \in Machines, NEW k \in DOMAIN volume_enumerate(m)
  PROVE  LET v == volume_enumerate(m)[k] IN
         /\ v.dev \in DOMAIN m
         /\ v.base \in Nat /\ v.len \in Nat /\ v.copy \in Nat
         /\ m[v.dev].size \in Nat \ {0}
         /\ v.letter => v.base + v.len <= m[v.dev].size
<1> DEFINE e == CHOOSE x \in Entries(m) : Place(m, x) = k
<1>1. \E x \in Entries(m) : Place(m, x) = k
  BY DEF volume_enumerate
<1>2. e \in Entries(m)
  BY <1>1
<1>3. volume_enumerate(m)[k] = VolumeOf(m, e)
  BY DEF volume_enumerate
<1> HIDE DEF e
<1>4. PICK n \in DOMAIN m : \E p \in DOMAIN m[n].parts : e = <<n, p>> /\ m[n].usable
  BY <1>2 DEF Entries
<1>5. PICK p \in DOMAIN m[n].parts : e = <<n, p>> /\ m[n].usable
  BY <1>4
<1>6. VolumeOf(m, e) = [dev |-> n, part |-> p, base |-> m[n].parts[p].base,
                        len |-> m[n].parts[p].len, letter |-> m[n].parts[p].letter,
                        copy |-> m[n].parts[p].copy]
  BY <1>5 DEF VolumeOf
<1>7. QED
  BY <1>3, <1>5, <1>6, MachinesAssumption

\* The readers that are opened are good ones.
LEMMA ReaderIsGood ==
  ASSUME machine \in Machines, NEW k \in DOMAIN Vols, NEW vss \in BOOLEAN,
         NEW live \in {"none", "disk", "primary"},
         vss => Vols[k].letter
  PROVE  /\ Reader(k, vss, live) \in GoodReaders(machine)
         /\ Reader(k, vss, live).vol = k
         /\ Reader(k, vss, live).vss = vss
         /\ Reader(k, vss, live).live = live
<1> DEFINE v == Vols[k]
           r == Reader(k, vss, live)
<1>1. /\ v.dev \in DOMAIN machine
      /\ v.base \in Nat /\ v.len \in Nat /\ v.copy \in Nat
      /\ machine[v.dev].size \in Nat \ {0}
      /\ v.letter => v.base + v.len <= machine[v.dev].size
  BY VolumeProperties DEF Vols
<1>2. r = [vol |-> k, dev |-> v.dev, base |-> v.base, count |-> CeilDiv(v.len), vss |-> vss,
           size |-> IF vss THEN v.copy ELSE machine[v.dev].size, live |-> live]
  BY DEF Reader, volume_block_count
<1>3. CeilDiv(v.len) \in Nat
  BY <1>1, CeilDivType
<1>4. ASSUME vss, NEW b \in 0 .. CeilDiv(v.len) - 1
      PROVE  v.base + b * BlockSize < machine[v.dev].size
  <2>1. b * BlockSize < v.len /\ b * BlockSize \in Nat
    BY <1>1, <1>3, <1>4, BlockBeginsInside, DiskScanAssumption
  <2> QED BY <1>1, <1>4, <2>1
<1> HIDE DEF v
<1>5. r \in [vol : DOMAIN volume_enumerate(machine), dev : DOMAIN machine, base : Nat,
             count : Nat, vss : BOOLEAN, size : Nat, live : {"none", "disk", "primary"}]
  BY <1>1, <1>2, <1>3 DEF Vols
<1>6. /\ r.dev = v.dev /\ r.base = v.base /\ r.count = CeilDiv(v.len) /\ r.vss = vss
      /\ r.size = (IF vss THEN v.copy ELSE machine[v.dev].size)
      /\ r.vol = k /\ r.live = live
  BY <1>2
<1> HIDE DEF r
<1>7. r \in GoodReaders(machine)
  BY <1>1, <1>4, <1>5, <1>6 DEF GoodReaders
<1>8. QED BY <1>6, <1>7 DEF r

\* What a good reader is.
LEMMA GoodReaderProperties ==
  ASSUME NEW m, NEW r \in GoodReaders(m)
  PROVE  /\ r.dev \in DOMAIN m /\ r.base \in Nat /\ r.count \in Nat /\ r.size \in Nat
         /\ r.vss \in BOOLEAN /\ r.live \in {"none", "disk", "primary"}
         /\ m[r.dev].size \in Nat \ {0}
         /\ ~r.vss => r.size = m[r.dev].size
         /\ r.vss => \A b \in 0 .. r.count - 1 : r.base + b * BlockSize < m[r.dev].size
BY DEF GoodReaders

\* The blocks the scan sends of a partition lie in what the reader reads.
LEMMA ScanBlocksProperties ==
  ASSUME NEW m, NEW r \in GoodReaders(m)
  PROVE  /\ ScanBlocks(r) \in Nat
         /\ \A b \in Nat :
              (b < ScanBlocks(r)) <=> (b < r.count /\ r.base + b * BlockSize + BlockSize <= r.size)
<1>1. r.base \in Nat /\ r.count \in Nat /\ r.size \in Nat
  BY GoodReaderProperties
<1>2. BlockSize \in Nat \ {0}
  BY DiskScanAssumption
<1>3. CASE r.size > r.base
  <2>1. r.size - r.base \in Nat
    BY <1>1, <1>3
  <2>2. (r.size - r.base) \div BlockSize \in Nat
    BY <1>2, <2>1, DivProperties
  <2>3. ASSUME NEW b \in Nat
        PROVE  (b < (r.size - r.base) \div BlockSize) <=> (r.base + b * BlockSize + BlockSize <= r.size)
    <3>1. (b < (r.size - r.base) \div BlockSize) <=> (b * BlockSize + BlockSize <= r.size - r.base)
      BY <1>2, <2>1, WholeBlock
    <3>2. b * BlockSize \in Nat
      BY <1>2
    <3> QED BY <1>1, <1>2, <3>1, <3>2
  <2>4. ScanBlocks(r) = IF r.count < (r.size - r.base) \div BlockSize THEN r.count
                        ELSE (r.size - r.base) \div BlockSize
    BY <1>3 DEF ScanBlocks
  <2> QED BY <1>1, <2>2, <2>3, <2>4
<1>4. CASE ~(r.size > r.base)
  <2>1. ScanBlocks(r) = 0
    BY <1>4 DEF ScanBlocks
  <2>2. ASSUME NEW b \in Nat PROVE ~(r.base + b * BlockSize + BlockSize <= r.size)
    <3>1. b * BlockSize \in Nat
      BY <1>2
    <3> QED BY <1>1, <1>2, <1>4, <3>1
  <2> QED BY <2>1, <2>2
<1>5. QED BY <1>3, <1>4

\* The metadata blocks of a disk begin on it.
LEMMA GptOffsetsOnDisk ==
  ASSUME NEW size \in Nat \ {0}
  PROVE  \A o \in GptOffsets(size) : o \in Nat /\ o < size
<1>1. BlockSize \in Nat \ {0}
  BY DiskScanAssumption
<1> DEFINE end == (size \div BlockSize) * BlockSize
<1>2. end \in Nat /\ end <= size
  BY <1>1, DivProperties
<1>3. GptOffsets(size) =
        {0} \cup (IF end >= 2 * BlockSize THEN {end - 2 * BlockSize, end - BlockSize} ELSE {})
  BY DEF GptOffsets
<1> HIDE DEF end
<1>4. QED BY <1>1, <1>2, <1>3

\* EntryFor finds the first reader that covers a block, if there is one.
LEMMA EntryForProperties ==
  ASSUME NEW b, NEW S, readers \in Seq(S)
  PROVE  /\ EntryFor(b) # 0 => EntryFor(b) \in DOMAIN readers /\ Covers(readers[EntryFor(b)], b)
         /\ EntryFor(b) = 0 => \A k \in DOMAIN readers : ~Covers(readers[k], b)
<1> DEFINE I == {i \in 1 .. Len(readers) : Covers(readers[i], b)}
<1>1. EntryFor(b) = IF I # {} THEN Min(I) ELSE 0
  BY DEF EntryFor, SelectInSeq
<1>2. I \in SUBSET Nat /\ DOMAIN readers = 1 .. Len(readers)
  OBVIOUS
<1>3. CASE I = {}
  BY <1>1, <1>2, <1>3
<1>4. CASE I # {}
  <2>1. Min(I) \in I
    BY <1>2, <1>4, MinProperties
  <2> QED BY <1>1, <1>2, <1>4, <2>1
<1>5. QED BY <1>3, <1>4

------------------------------------------------------------------------------
(***************************************************************************)
(* Reads.                                                                  *)
(***************************************************************************)

\* The fields of a read.
LEMMA ReadAtFields ==
  ASSUME NEW r, NEW ro, NEW off
  PROVE  LET rd == ReadAt(r, ro, off) IN
         /\ rd.vol = r.vol /\ rd.dev = r.dev /\ rd.off = off /\ rd.ro = ro
         /\ rd.size = r.size /\ rd.vss = r.vss
         /\ rd.at = IF r.vss THEN r.base + ro ELSE ro
BY DEF ReadAt

\* A block of a partition is read in its place, and if there is something to read
\* the block is one the reader covers and that lies on the disk.
LEMMA BlockReadProperties ==
  ASSUME NEW m, NEW r \in GoodReaders(m), NEW b \in Nat
  PROVE  LET rd == BlockRead(r, b) IN
         /\ rd.dev = r.dev /\ rd.vol = r.vol /\ rd.vss = r.vss /\ rd.size = r.size
         /\ rd.off = r.base + b * BlockSize /\ rd.off \in Nat
         /\ rd.at = rd.off
         /\ HasData(rd) => Covers(r, <<rd.dev, rd.off>>)
         /\ HasData(rd) /\ b < r.count => rd.off < m[r.dev].size
         /\ b < ScanBlocks(r) => HasData(rd) /\ rd.ro <= rd.size
<1> DEFINE x == b * BlockSize
           rd == BlockRead(r, b)
<1>1. /\ r.base \in Nat /\ r.count \in Nat /\ r.size \in Nat /\ r.vss \in BOOLEAN
      /\ ~r.vss => r.size = m[r.dev].size
      /\ r.vss => \A i \in 0 .. r.count - 1 : r.base + i * BlockSize < m[r.dev].size
  BY GoodReaderProperties
<1>2. x \in Nat
  BY DiskScanAssumption
<1>3. /\ rd.dev = r.dev /\ rd.vol = r.vol /\ rd.vss = r.vss /\ rd.size = r.size
      /\ rd.off = r.base + x
      /\ rd.ro = IF r.vss THEN x ELSE r.base + x
      /\ rd.at = IF r.vss THEN r.base + rd.ro ELSE rd.ro
  BY ReadAtFields DEF BlockRead
<1>4. b < ScanBlocks(r) => b < r.count /\ r.base + x + BlockSize <= r.size
  BY ScanBlocksProperties
<1>5. BlockSize \in Nat \ {0}
  BY DiskScanAssumption
<1>6. r.vss /\ b < r.count => r.base + x < m[r.dev].size
  BY <1>1
<1> HIDE DEF x, rd
<1>7. HasData(rd) => rd.ro < rd.size
  BY DEF HasData
<1>8. rd.ro < rd.size => HasData(rd)
  BY DEF HasData
<1>9. HasData(rd) => Covers(r, <<rd.dev, rd.off>>)
  BY <1>1, <1>2, <1>3, <1>7 DEF Covers
<1>10. HasData(rd) /\ b < r.count => rd.off < m[r.dev].size
  BY <1>1, <1>2, <1>3, <1>6, <1>7
<1>11. b < ScanBlocks(r) => HasData(rd) /\ rd.ro <= rd.size
  BY <1>1, <1>2, <1>3, <1>4, <1>5, <1>8
<1>12. QED BY <1>1, <1>2, <1>3, <1>9, <1>10, <1>11 DEF rd, x

\* What send_blocks does to what is sent.
LEMMA SendBlocksProperties ==
  ASSUME NEW rds, send_blocks(rds), failed \in BOOLEAN
  PROVE  /\ reads' = rds
         /\ sent \subseteq sent'
         /\ \A s \in sent' : s \in sent \/ \E rd \in rds : HasData(rd) /\ s = <<rd.dev, rd.off>>
         /\ failed' \in BOOLEAN
         /\ ~failed' => ~failed /\ \A rd \in rds : HasData(rd) => <<rd.dev, rd.off>> \in sent'
<1>1. reads' = rds
  BY DEF send_blocks
<1>2. PICK bad \in SUBSET rds :
        /\ sent' = sent \cup {<<rd.dev, rd.off>> : rd \in {x \in rds \ bad : HasData(x)}}
        /\ failed' = (failed \/ bad # {})
  BY DEF send_blocks
<1>3. failed' \in BOOLEAN
  BY <1>2
<1>4. ASSUME ~failed' PROVE ~failed /\ \A rd \in rds : HasData(rd) => <<rd.dev, rd.off>> \in sent'
  <2>1. ~failed /\ bad = {}
    BY <1>2, <1>4
  <2> QED BY <1>2, <2>1
<1>5. QED BY <1>1, <1>2, <1>3, <1>4

\* A block that is sent again by do_retransmit is read in its place.
LEMMA RetransmitReadProperties ==
  ASSUME ScanTypeOK, SentOK, HeldOK, NEW b \in Reached
  PROVE  LET rd == RetransmitRead(b) IN
         rd.at = rd.off /\ rd.ro <= rd.size /\ (rd.vss => rd.vol \in hasVss)
<1> DEFINE k == EntryFor(b)
           r == readers[k]
           rd == RetransmitRead(b)
<1>1. b \in sent /\ k # 0
  BY DEF Reached
<1>2. k \in DOMAIN readers /\ Covers(r, b)
  BY <1>1, EntryForProperties DEF ScanTypeOK
<1>3. r \in GoodReaders(machine)
  BY <1>2 DEF ScanTypeOK
<1>4. b[2] \in Nat /\ b[2] < machine[b[1]].size
  BY <1>1 DEF ScanTypeOK, SentOK
<1>5. r.vss => r.vol \in hasVss
  BY <1>2 DEF HeldOK
<1>6. /\ r.base \in Nat /\ r.size \in Nat /\ r.vss \in BOOLEAN
      /\ ~r.vss => r.size = machine[r.dev].size
  BY <1>3, GoodReaderProperties
<1>7. r.dev = b[1] /\ r.base <= b[2] /\ b[2] < r.base + r.size
  BY <1>2 DEF Covers
<1>8. /\ rd.off = b[2] /\ rd.ro = (IF r.vss THEN b[2] - r.base ELSE b[2])
      /\ rd.size = r.size /\ rd.vss = r.vss /\ rd.vol = r.vol
      /\ rd.at = IF r.vss THEN r.base + rd.ro ELSE rd.ro
  BY ReadAtFields DEF RetransmitRead
<1> HIDE DEF r, rd, k
<1>9. QED BY <1>4, <1>5, <1>6, <1>7, <1>8 DEF rd

\* A round reads a block in its place, if it reads the disk.
LEMMA RoundReadProperties ==
  ASSUME ScanTypeOK, SentOK, HeldOK, ControlOK, tail, NEW b \in Reached
  PROVE  LET rd == RoundRead(b) IN
         /\ CopyStandsIn \/ (rd.at = rd.off /\ rd.ro <= rd.size)
         /\ rd.vss => rd.vol \in hasVss
<1> DEFINE k == EntryFor(b)
           r == readers[k]
           rd == RoundRead(b)
<1>1. b \in sent /\ k # 0
  BY DEF Reached
<1>2. k \in DOMAIN readers /\ Covers(r, b)
  BY <1>1, EntryForProperties DEF ScanTypeOK
<1>3. r \in GoodReaders(machine)
  BY <1>2 DEF ScanTypeOK
<1>4. b[2] \in Nat /\ b[2] < machine[b[1]].size
  BY <1>1 DEF ScanTypeOK, SentOK
<1>5. r.vss => r.vol \in hasVss
  BY <1>2 DEF HeldOK
<1>6. /\ r.vss \in BOOLEAN /\ r.live \in {"none", "disk", "primary"}
      /\ machine[r.dev].size \in Nat
      /\ ~r.vss => r.size = machine[r.dev].size
  BY <1>3, GoodReaderProperties
<1>7. r.dev = b[1]
  BY <1>2 DEF Covers
<1>8. r.live # "none"
  BY <1>2 DEF ControlOK
<1>9. CASE r.live = "disk"
  <2> DEFINE d == [r EXCEPT !.vss = FALSE, !.size = machine[r.dev].size]
  <2>1. d.vss = FALSE /\ d.size = machine[r.dev].size
    BY <1>3 DEF GoodReaders
  <2>2. rd = ReadAt(d, b[2], b[2])
    BY <1>9 DEF RoundRead
  <2> HIDE DEF d
  <2>3. rd.off = b[2] /\ rd.ro = b[2] /\ rd.size = d.size /\ rd.vss = FALSE /\ rd.at = b[2]
    BY <2>1, <2>2, ReadAtFields
  <2> HIDE DEF r, rd, k
  <2> QED BY <1>4, <1>6, <1>7, <2>1, <2>3 DEF rd
<1>10. CASE r.live = "primary"
  <2>1. rd = ReadAt(r, b[2], b[2])
    BY <1>10 DEF RoundRead
  <2>2. /\ rd.off = b[2] /\ rd.ro = b[2] /\ rd.size = r.size /\ rd.vss = r.vss /\ rd.vol = r.vol
        /\ rd.at = IF r.vss THEN r.base + rd.ro ELSE rd.ro
    BY <2>1, ReadAtFields
  <2>3. r.vss => CopyStandsIn
    BY <1>2, <1>10 DEF CopyStandsIn
  <2> HIDE DEF r, rd, k
  <2> QED BY <1>4, <1>5, <1>6, <1>7, <2>2, <2>3 DEF rd
<1>11. QED BY <1>6, <1>8, <1>9, <1>10

------------------------------------------------------------------------------
(***************************************************************************)
(* Steps of the commands that read disks.  The first lemmas say which      *)
(* parts of the invariant depend on which variables.                       *)
(***************************************************************************)

\* The volumes follow from the machine.
LEMMA SameVolumes ==
  ASSUME machine' = machine
  PROVE  Vols' = Vols /\ VssVolumes' = VssVolumes
<1>1. Vols' = Vols
  BY DEF Vols
<1>2. QED BY <1>1 DEF VssVolumes

\* What has been sent stays reachable while the readers stay.
LEMMA SentSteady ==
  ASSUME SentOK, UNCHANGED <<machine, readers, sent, cmd>>
  PROVE  SentOK'
BY DEF SentOK, Covers, GptOffsets

\* Copies and readers stay; what is read is read from a copy that exists.
LEMMA HeldSteady ==
  ASSUME HeldOK, UNCHANGED <<machine, hasVss, held, shadow>>,
         pc' = pc \/ pc' \notin {"off", "vss_init", "vss"},
         \A k \in DOMAIN readers' : readers'[k].vss => readers'[k].vol \in hasVss,
         \A rd \in reads' : rd.vss => rd.vol \in hasVss
  PROVE  HeldOK'
BY SameVolumes DEF HeldOK

\* A step that opens and sends nothing.
LEMMA Steady ==
  ASSUME SentOK, HeldOK, ReadsInPlace, ReadsInRange,
         UNCHANGED <<machine, readers, sent, cmd, hasVss, held, shadow>>,
         pc' = pc \/ pc' \notin {"off", "vss_init", "vss"},
         reads' = reads \/ reads' = {}
  PROVE  SentOK' /\ HeldOK' /\ ReadsInPlace' /\ ReadsInRange'
<1>1. SentOK'
  BY SentSteady
<1>2. HeldOK'
  <2>1. \A k \in DOMAIN readers' : readers'[k].vss => readers'[k].vol \in hasVss
    BY DEF HeldOK
  <2>2. \A rd \in reads' : rd.vss => rd.vol \in hasVss
    BY DEF HeldOK
  <2> QED BY <2>1, <2>2, HeldSteady
<1>3. ReadsInPlace' /\ ReadsInRange'
  BY DEF ReadsInPlace, ReadsInRange, CopyStandsIn
<1>4. QED BY <1>1, <1>2, <1>3

\* The process ends and holds nothing.
LEMMA EndsStep ==
  ASSUME ScanInv, Ends, held' = {}, shadow' = {}
  PROVE  ScanInv'
<1>1. machine' = machine /\ machine \in Machines
  BY DEF Ends, inputVars, ScanInv, ScanTypeOK
<1>2. ScanTypeOK'
  <2>1. readers' \in Seq(GoodReaders(machine'))
    BY DEF Ends
  <2>2. tail' \in BOOLEAN /\ running' \in BOOLEAN /\ failed' \in BOOLEAN
    BY DEF Ends
  <2>3. idx' \in Nat \ {0} /\ blk' \in Nat /\ sent' \subseteq (DOMAIN machine') \X Nat
    BY DEF Ends
  <2> QED BY <1>1, <2>1, <2>2, <2>3 DEF ScanTypeOK
<1>3. ControlOK'
  BY DEF Ends, ControlOK, Untouched
<1>4. HeldOK'
  BY DEF Ends, HeldOK
<1>5. SentOK' /\ ReadsInPlace' /\ ReadsInRange' /\ ProgressOK'
  BY DEF Ends, SentOK, ReadsInPlace, ReadsInRange, ProgressOK
<1>6. QED BY <1>2, <1>3, <1>4, <1>5 DEF ScanInv

\* The beginning of a command.
LEMMA BeginStep ==
  ASSUME ScanInv, NEW c \in VssCommands, Begin(c)
  PROVE  ScanInv'
<1> USE DEF ScanInv, Begin, inputVars, snapVars
<1>1. pc = "off" /\ Untouched /\ held = {} /\ shadow = {} /\ pc' = "vss_init" /\ cmd' = c
  BY DEF ControlOK, HeldOK
<1>2. ScanTypeOK'
  <2>1. tail' \in BOOLEAN
    BY Zenon
  <2> QED BY <2>1 DEF ScanTypeOK
<1>3. ControlOK'
  <2>1. tail' => c = "migrate"
    OBVIOUS
  <2> QED BY <1>1, <2>1 DEF ControlOK, Untouched, VssCommands
<1>4. HeldOK'
  BY <1>1, SameVolumes DEF HeldOK
<1>5. SentOK' /\ ReadsInPlace' /\ ReadsInRange' /\ ProgressOK'
  BY <1>1 DEF Untouched, SentOK, ReadsInPlace, ReadsInRange, ProgressOK
<1>6. QED BY <1>2, <1>3, <1>4, <1>5

\* vss_init returns.
LEMMA VssReadyStep ==
  ASSUME ScanInv, VssReady
  PROVE  ScanInv'
<1> USE DEF ScanInv, VssReady, vss_init_ex, inputVars, scanVars
<1>1. Untouched /\ Untouched' /\ pc' = "vss" /\ pc = "vss_init"
  BY DEF ControlOK, Untouched
<1>2. ScanTypeOK'
  BY DEF ScanTypeOK
<1>3. ControlOK'
  BY <1>1 DEF ControlOK, Untouched
<1>4. HeldOK'
  BY <1>1, SameVolumes DEF HeldOK
<1>5. SentOK' /\ ReadsInPlace' /\ ReadsInRange' /\ ProgressOK'
  BY <1>1 DEF Untouched, SentOK, ReadsInPlace, ReadsInRange, ProgressOK
<1>6. QED BY <1>2, <1>3, <1>4, <1>5

\* Whatever call of vss_init_ex fails, what it had acquired is given back.
LEMMA InitFailsFrees ==
  ASSUME NEW persistent, held = {}, InitFails(persistent)
  PROVE  held' = {} /\ shadow' = shadow
<1>1. PICK at \in InitSteps : held' = (held \cup Acquired(at)) \ Freed(at)
  BY DEF InitFails
<1>2. Acquired(at) = Freed(at)
  BY DEF InitSteps, Acquired, Freed
<1>3. QED BY <1>1, <1>2 DEF InitFails

LEMMA VssMissingStep ==
  ASSUME ScanInv, VssMissing
  PROVE  ScanInv'
<1>1. pc = "vss_init" /\ held = {} /\ shadow = {} /\ Untouched
  BY DEF VssMissing, ScanInv, HeldOK, ControlOK
<1>2. held' = {} /\ shadow' = {}
  BY <1>1, InitFailsFrees DEF VssMissing
<1>3. CASE cmd = "incsync"
  <2> USE DEF VssMissing, ScanInv, inputVars, scanVars
  <2>1. pc' = "iopen" /\ UNCHANGED <<machine, cmd, scanVars>>
    BY <1>3
  <2>2. ScanTypeOK'
    BY <2>1 DEF ScanTypeOK
  <2>3. ControlOK'
    BY <1>1, <1>3, <2>1 DEF ControlOK, Untouched
  <2>4. HeldOK'
    BY <1>1, <1>2, <2>1, SameVolumes DEF HeldOK
  <2>5. SentOK' /\ ReadsInPlace' /\ ReadsInRange' /\ ProgressOK'
    BY <1>1, <2>1 DEF Untouched, SentOK, ReadsInPlace, ReadsInRange, ProgressOK
  <2> QED BY <2>2, <2>3, <2>4, <2>5
<1>4. CASE cmd # "incsync"
  <2>1. Ends
    BY <1>4 DEF VssMissing
  <2> QED BY <1>2, <2>1, EndsStep
<1>5. QED BY <1>3, <1>4

\* Copies are made.
LEMMA TakeSnapshotsStep ==
  ASSUME ScanInv, TakeSnapshots
  PROVE  ScanInv'
<1> USE DEF ScanInv, TakeSnapshots, inputVars
<1>1. PICK valid \in SUBSET VssVolumes :
        vss_create_snapshots(VssVolumes, valid) /\ hasVss' = valid
  OBVIOUS
<1>2. /\ hasVss' \subseteq shadow' /\ hasVss' \subseteq VssVolumes
      /\ held' = held
  BY <1>1 DEF vss_create_snapshots
<1>3. /\ Untouched /\ "bc" \in held /\ pc = "vss"
      /\ \/ cmd = "migrate" /\ pc' = "open"
         \/ cmd = "incsync" /\ pc' = "iopen"
  BY DEF ControlOK, HeldOK
<1>4. UNCHANGED <<machine, cmd, tail, idx, readers, blk, gptDone, running, sent, reads, failed>>
  OBVIOUS
<1>5. ScanTypeOK'
  BY <1>4 DEF ScanTypeOK
<1>6. ControlOK'
  BY <1>3, <1>4 DEF ControlOK, Untouched
<1>7. HeldOK'
  BY <1>2, <1>3, <1>4, SameVolumes DEF HeldOK, Untouched
<1>8. SentOK' /\ ReadsInPlace' /\ ReadsInRange' /\ ProgressOK'
  BY <1>3, <1>4 DEF Untouched, SentOK, ReadsInPlace, ReadsInRange, ProgressOK
<1>9. QED BY <1>5, <1>6, <1>7, <1>8

LEMMA NoSnapshotsStep ==
  ASSUME ScanInv, NoSnapshots
  PROVE  ScanInv'
<1> USE DEF ScanInv, NoSnapshots, inputVars
<1>1. held' = held
  BY DEF vss_create_snapshots, CreateFails, snapVars
<1>2. /\ Untouched /\ "bc" \in held /\ pc = "vss"
      /\ \/ cmd = "migrate" /\ pc' = "cleanup"
         \/ cmd = "incsync" /\ pc' = "iopen"
  BY DEF ControlOK, HeldOK
<1>3. UNCHANGED <<machine, cmd, tail, hasVss, idx, readers, blk, gptDone, running, sent, reads, failed>>
  OBVIOUS
<1>4. ScanTypeOK'
  BY <1>3 DEF ScanTypeOK
<1>5. ControlOK'
  BY <1>2, <1>3 DEF ControlOK, Untouched
<1>6. HeldOK'
  BY <1>1, <1>2, <1>3, SameVolumes DEF HeldOK, Untouched
<1>7. SentOK' /\ ReadsInPlace' /\ ReadsInRange' /\ ProgressOK'
  BY <1>2, <1>3 DEF Untouched, SentOK, ReadsInPlace, ReadsInRange, ProgressOK
<1>8. QED BY <1>4, <1>5, <1>6, <1>7

LEMMA VssCommandStep ==
  ASSUME ScanInv, VssCommand
  PROVE  ScanInv'
<1> USE DEF ScanInv, VssCommand, inputVars, scanVars
<1>1. held' = held /\ shadow' = shadow
  BY DEF CreatePersistent, CreateFails, DeleteSnapshots, snapVars
<1>2. Untouched /\ pc' = "cleanup" /\ pc = "vss"
  BY DEF ControlOK
<1>3. UNCHANGED <<machine, cmd, tail, hasVss, idx, readers, blk, gptDone, running, sent, reads, failed>>
  OBVIOUS
<1>4. ScanTypeOK'
  BY <1>3 DEF ScanTypeOK
<1>5. ControlOK'
  BY <1>2, <1>3 DEF ControlOK
<1>6. SentOK' /\ HeldOK' /\ ReadsInPlace' /\ ReadsInRange'
  BY <1>1, <1>2, <1>3, Steady
<1>7. ProgressOK'
  BY <1>2, <1>3 DEF Untouched, ProgressOK
<1>8. QED BY <1>4, <1>5, <1>6, <1>7

LEMMA CleanupStep ==
  ASSUME ScanInv, Cleanup
  PROVE  ScanInv'
<1>1. held' = {} /\ shadow' = {}
  BY DEF Cleanup, ScanInv, HeldOK, vss_cleanup, snapVars
<1>2. QED BY <1>1, EndsStep DEF Cleanup

LEMMA MigrateEndsStep ==
  ASSUME ScanInv, MigrateEnds
  PROVE  ScanInv'
<1>1. held' = {} /\ shadow' = {}
  BY DEF MigrateEnds, ScanInv, HeldOK, vss_cleanup
<1>2. QED BY <1>1, EndsStep DEF MigrateEnds

LEMMA KillStep ==
  ASSUME ScanInv, Kill
  PROVE  ScanInv'
BY EndsStep DEF Kill, EndsHolding

LEMMA RaisedEndsStep ==
  ASSUME ScanInv, RaisedEnds
  PROVE  ScanInv'
BY EndsStep DEF RaisedEnds, EndsHolding

LEMMA TransferRaisesStep ==
  ASSUME ScanInv, TransferRaises
  PROVE  ScanInv'
<1> USE DEF ScanInv, TransferRaises, inputVars, scanVars, snapVars
<1>1. ScanTypeOK'
  BY DEF ScanTypeOK
<1>2. ControlOK'
  BY DEF ControlOK
<1>3. SentOK' /\ HeldOK' /\ ReadsInPlace' /\ ReadsInRange'
  BY Steady
<1>4. ProgressOK'
  BY DEF ProgressOK, MetaSent
<1>5. QED BY <1>1, <1>2, <1>3, <1>4

LEMMA InterruptStep ==
  ASSUME ScanInv, Interrupt
  PROVE  ScanInv'
<1> USE DEF ScanInv, Interrupt, inputVars, snapVars
<1>1. ScanTypeOK'
  BY DEF ScanTypeOK
<1>2. ControlOK'
  BY DEF ControlOK, Untouched
<1>3. SentOK' /\ HeldOK' /\ ReadsInPlace' /\ ReadsInRange'
  BY Steady
<1>4. ProgressOK'
  BY DEF ProgressOK, PartitionSent, MetaSent, Passed
<1>5. QED BY <1>1, <1>2, <1>3, <1>4

\* A volume has got its reader, or not.
LEMMA OpenReaderStep ==
  ASSUME ScanInv, OpenReader
  PROVE  ScanInv'
<1> USE DEF ScanInv
<1>1. /\ pc = "open" /\ pc' = "open" /\ idx \in DOMAIN Vols /\ idx' = idx + 1
      /\ UNCHANGED <<machine, cmd, tail, hasVss, blk, gptDone, running, sent, reads, held, shadow>>
  BY DEF OpenReader, inputVars, snapVars
<1>2. cmd = "migrate" /\ blk = 0 /\ gptDone = {} /\ sent = {} /\ reads = {}
  BY <1>1 DEF ControlOK
<1>3. /\ failed' \in BOOLEAN
      /\ \/ readers' = readers
         \/ \E vss \in BOOLEAN, live \in {"none", "disk", "primary"} :
              /\ vss => idx \in hasVss
              /\ tail => live # "none"
              /\ readers' = Append(readers, Reader(idx, vss, live))
  <2>1. PICK vssOpens \in BOOLEAN, diskOpens \in BOOLEAN, liveOpens \in BOOLEAN :
          IF Vols[idx].dev \in skip.disks
          THEN UNCHANGED <<readers, failed, mishaps>>
          ELSE /\ Fails("open", ~vssOpens \/ ~diskOpens \/ ~liveOpens)
               /\ IF OpenedVss(idx, vssOpens) \/ diskOpens
                  THEN /\ readers' = Append(readers, Reader(idx, OpenedVss(idx, vssOpens),
                            CASE ~tail -> "none" [] liveOpens -> "disk" [] OTHER -> "primary"))
                       /\ UNCHANGED failed
                  ELSE failed' = TRUE /\ UNCHANGED readers
    BY DEF OpenReader
  <2>2. failed' \in BOOLEAN
    BY <2>1 DEF ScanTypeOK
  <2> DEFINE vss == OpenedVss(idx, vssOpens)
             live == CASE ~tail -> "none" [] liveOpens -> "disk" [] OTHER -> "primary"
  <2>3. vss \in BOOLEAN /\ (vss => idx \in hasVss)
    BY DEF OpenedVss
  <2>4. live \in {"none", "disk", "primary"} /\ (tail => live # "none")
    BY DEF ScanTypeOK
  <2>5. readers' = readers \/ readers' = Append(readers, Reader(idx, vss, live))
    BY <2>1
  <2> HIDE DEF vss, live
  <2> QED BY <2>2, <2>3, <2>4, <2>5
<1>4. /\ readers' \in Seq(GoodReaders(machine))
      /\ \A k \in DOMAIN readers' : readers'[k].vss => readers'[k].vol \in hasVss
      /\ tail => \A k \in DOMAIN readers' : readers'[k].live # "none"
  <2>1. /\ readers \in Seq(GoodReaders(machine))
        /\ \A k \in DOMAIN readers : readers[k].vss => readers[k].vol \in hasVss
        /\ tail => \A k \in DOMAIN readers : readers[k].live # "none"
    BY DEF ScanTypeOK, HeldOK, ControlOK
  <2>2. CASE readers' = readers
    BY <2>1, <2>2
  <2>3. CASE readers' # readers
    <3>1. PICK vss \in BOOLEAN, live \in {"none", "disk", "primary"} :
            /\ vss => idx \in hasVss
            /\ tail => live # "none"
            /\ readers' = Append(readers, Reader(idx, vss, live))
      BY <1>3, <2>3
    <3>2. vss => Vols[idx].letter
      BY <3>1 DEF HeldOK, VssVolumes
    <3>3. /\ Reader(idx, vss, live) \in GoodReaders(machine)
          /\ Reader(idx, vss, live).vol = idx
          /\ Reader(idx, vss, live).vss = vss
          /\ Reader(idx, vss, live).live = live
      BY <1>1, <3>2, ReaderIsGood DEF ScanTypeOK
    <3> DEFINE r == Reader(idx, vss, live)
    <3> HIDE DEF r
    <3>4. r \in GoodReaders(machine) /\ (r.vss => r.vol \in hasVss) /\ (tail => r.live # "none")
      BY <3>1, <3>3 DEF r
    <3>5. /\ readers' = Append(readers, r)
          /\ readers' \in Seq(GoodReaders(machine))
          /\ \A k \in DOMAIN readers' : \/ k \in DOMAIN readers /\ readers'[k] = readers[k]
                                        \/ readers'[k] = r
      BY <2>1, <3>1, <3>4 DEF r
    <3> QED BY <2>1, <3>4, <3>5
  <2>4. QED BY <2>2, <2>3
<1>5. ScanTypeOK'
  <2>1. idx' \in Nat \ {0}
    BY <1>1 DEF ScanTypeOK
  <2> QED BY <1>1, <1>3, <1>4, <2>1 DEF ScanTypeOK
<1>6. ControlOK'
  BY <1>1, <1>2, <1>4 DEF ControlOK, VssCommands
<1>7. HeldOK'
  <2>1. \A rd \in reads' : rd.vss => rd.vol \in hasVss
    BY <1>1, <1>2
  <2> QED BY <1>1, <1>4, <2>1, HeldSteady
<1>8. SentOK' /\ ReadsInPlace' /\ ReadsInRange' /\ ProgressOK'
  BY <1>1, <1>2 DEF SentOK, ReadsInPlace, ReadsInRange, ProgressOK
<1>9. QED BY <1>5, <1>6, <1>7, <1>8

LEMMA ReadersOpenStep ==
  ASSUME ScanInv, ReadersOpen
  PROVE  ScanInv'
<1> USE DEF ScanInv, ReadersOpen, inputVars, snapVars
<1>1. ScanTypeOK'
  BY DEF ScanTypeOK
<1>2. ControlOK'
  BY DEF ControlOK
<1>3. SentOK' /\ HeldOK' /\ ReadsInPlace' /\ ReadsInRange'
  BY Steady
<1>4. gptDone' = {} /\ blk' = 0 /\ idx' = 1 /\ pc' \in {"cleanup", "scan"}
  BY DEF ControlOK
<1>5. ProgressOK'
  <2>1. ASSUME NEW k \in DOMAIN readers' PROVE PartitionSent(readers[k], Passed(k))'
    <3>1. k \in Nat \ {0}
      BY DEF ScanTypeOK
    <3>2. Passed(k)' = 0
      BY <1>4, <3>1 DEF Passed
    <3> QED BY <3>2 DEF PartitionSent
  <2> QED BY <1>4, <2>1 DEF ProgressOK
<1>6. QED BY <1>1, <1>2, <1>3, <1>5

\* What is sent on top, of blocks that are reached, changes nothing for the rest.
LEMMA SentGrows ==
  ASSUME SentOK, UNCHANGED <<machine, readers, cmd>>,
         \A s \in sent' :
           \/ s \in sent
           \/ /\ s[2] < machine[s[1]].size
              /\ cmd = "migrate" => \/ \E k \in DOMAIN readers : Covers(readers[k], s)
                                    \/ s[2] \in GptOffsets(machine[s[1]].size)
  PROVE  SentOK'
BY DEF SentOK, Covers

\* Sending more keeps what has been sent.
LEMMA PartitionSentGrows ==
  ASSUME NEW r, NEW n, PartitionSent(r, n), sent \subseteq sent'
  PROVE  ~r.vss => \A b \in 0 .. n - 1 : <<r.dev, r.base + b * BlockSize>> \in sent'
BY DEF PartitionSent

LEMMA MetaSentGrows ==
  ASSUME NEW d, MetaSent(d), sent \subseteq sent', machine' = machine
  PROVE  MetaSent(d)'
BY DEF MetaSent

\* One block of the scan.
LEMMA ScanBlockStep ==
  ASSUME ScanInv, ScanBlock
  PROVE  ScanInv'
<1> USE DEF ScanInv
<1> DEFINE r == readers[idx]
           rd == BlockRead(r, blk)
           s == <<rd.dev, rd.off>>
<1>1. /\ pc = "scan" /\ pc' = "timers" /\ idx <= Len(readers) /\ blk < ScanBlocks(r)
      /\ blk' = blk + 1 /\ send_blocks({rd})
      /\ UNCHANGED <<machine, cmd, tail, hasVss, idx, readers, gptDone, running, held, shadow>>
  BY DEF ScanBlock, inputVars, snapVars
<1>2. /\ idx \in DOMAIN readers /\ r \in GoodReaders(machine) /\ blk \in Nat
      /\ failed \in BOOLEAN /\ cmd = "migrate"
  BY <1>1 DEF ScanTypeOK, ControlOK
<1>3. /\ reads' = {rd}
      /\ sent \subseteq sent'
      /\ \A x \in sent' : x \in sent \/ (HasData(rd) /\ x = s)
      /\ failed' \in BOOLEAN
      /\ ~failed' => ~failed /\ (HasData(rd) => s \in sent')
  BY <1>1, <1>2, SendBlocksProperties
<1>4. blk < r.count
  BY <1>1, <1>2, ScanBlocksProperties
<1>5. /\ rd.dev = r.dev /\ rd.vol = r.vol /\ rd.vss = r.vss
      /\ rd.off = r.base + blk * BlockSize /\ rd.off \in Nat /\ rd.at = rd.off
      /\ HasData(rd) /\ Covers(r, s)
      /\ rd.off < machine[r.dev].size
      /\ rd.ro <= rd.size
  BY <1>1, <1>2, <1>4, BlockReadProperties
<1>6. r.dev \in DOMAIN machine
  BY <1>2, GoodReaderProperties
<1> HIDE DEF rd
<1>7. ScanTypeOK'
  <2>1. sent' \subseteq (DOMAIN machine) \X Nat
    BY <1>3, <1>5, <1>6 DEF ScanTypeOK
  <2> QED BY <1>1, <1>2, <1>3, <2>1 DEF ScanTypeOK
<1>8. ControlOK'
  BY <1>1, <1>2 DEF ControlOK
<1>9. HeldOK'
  <2>1. r.vss => r.vol \in hasVss
    BY <1>2 DEF HeldOK
  <2>2. \A x \in reads' : x.vss => x.vol \in hasVss
    BY <1>3, <1>5, <2>1
  <2>3. \A k \in DOMAIN readers' : readers'[k].vss => readers'[k].vol \in hasVss
    BY <1>1 DEF HeldOK
  <2> QED BY <1>1, <2>2, <2>3, HeldSteady
<1>10. SentOK'
  BY <1>1, <1>2, <1>3, <1>5, SentGrows
<1>11. ReadsInPlace' /\ ReadsInRange'
  BY <1>3, <1>5 DEF ReadsInPlace, ReadsInRange
<1>12. ProgressOK'
  <2>1. ASSUME ~failed', NEW k \in DOMAIN readers
        PROVE  PartitionSent(readers[k], Passed(k))'
    <3>1. ~failed /\ PartitionSent(readers[k], Passed(k))
      BY <1>1, <1>3, <2>1 DEF ProgressOK
    <3>2. CASE k # idx
      <4>1. Passed(k)' = Passed(k)
        BY <1>1, <3>2 DEF Passed
      <4>2. ~readers[k].vss => \A b \in 0 .. Passed(k) - 1 :
               <<readers[k].dev, readers[k].base + b * BlockSize>> \in sent'
        BY <1>3, <3>1, PartitionSentGrows
      <4> QED BY <1>1, <4>1, <4>2 DEF PartitionSent
    <3>3. CASE k = idx
      <4>1. Passed(k) = blk /\ Passed(k)' = blk + 1
        BY <1>1, <1>2, <3>3 DEF Passed, ScanTypeOK
      <4>2. ~r.vss => \A b \in 0 .. blk - 1 : <<r.dev, r.base + b * BlockSize>> \in sent'
        BY <1>3, <3>1, <3>3, <4>1, PartitionSentGrows
      <4>3. <<r.dev, r.base + blk * BlockSize>> \in sent'
        BY <1>3, <1>5, <2>1
      <4>4. \A b \in 0 .. (blk + 1) - 1 : b \in 0 .. blk - 1 \/ b = blk
        BY <1>2
      <4> QED BY <1>1, <3>3, <4>1, <4>2, <4>3, <4>4 DEF PartitionSent
    <3> QED BY <3>2, <3>3
  <2>2. ASSUME ~failed', NEW d \in gptDone
        PROVE  MetaSent(d)'
    <3>1. MetaSent(d)
      BY <1>3, <2>2 DEF ProgressOK
    <3> QED BY <1>1, <1>3, <3>1, MetaSentGrows
  <2> QED BY <1>1, <2>1, <2>2 DEF ProgressOK
<1>13. QED BY <1>7, <1>8, <1>9, <1>10, <1>11, <1>12

LEMMA PartitionDoneStep ==
  ASSUME ScanInv, PartitionDone
  PROVE  ScanInv'
<1> USE DEF ScanInv
<1>1. /\ pc = "scan" /\ pc' = pc /\ idx <= Len(readers) /\ blk >= ScanBlocks(readers[idx])
      /\ idx' = idx + 1 /\ blk' = 0 /\ reads' = {}
      /\ UNCHANGED <<machine, cmd, tail, hasVss, readers, gptDone, running, sent, failed, held, shadow>>
  BY DEF PartitionDone, inputVars, snapVars
<1>2. ScanTypeOK'
  BY <1>1 DEF ScanTypeOK
<1>3. ControlOK'
  BY <1>1 DEF ControlOK
<1>4. SentOK' /\ HeldOK' /\ ReadsInPlace' /\ ReadsInRange'
  BY <1>1, Steady
<1>5. ProgressOK'
  <2>1. ASSUME ~failed, NEW k \in DOMAIN readers
        PROVE  PartitionSent(readers[k], Passed(k))'
    <3>1. PartitionSent(readers[k], Passed(k))
      BY <1>1, <2>1 DEF ProgressOK
    <3>2. /\ k \in Nat /\ idx \in Nat /\ blk \in Nat
          /\ readers[k] \in GoodReaders(machine)
      BY DEF ScanTypeOK
    <3>3. ScanBlocks(readers[k]) \in Nat
      BY <3>2, ScanBlocksProperties
    <3>4. Passed(k)' \in Nat /\ Passed(k) \in Nat /\ Passed(k)' <= Passed(k)
      BY <1>1, <3>2, <3>3 DEF Passed
    <3>5. \A b \in 0 .. Passed(k)' - 1 : b \in 0 .. Passed(k) - 1
      BY <3>4
    <3> QED BY <1>1, <3>1, <3>5 DEF PartitionSent
  <2>2. \A d : MetaSent(d)' <=> MetaSent(d)
    BY <1>1 DEF MetaSent
  <2> QED BY <1>1, <2>1, <2>2 DEF ProgressOK
<1>6. QED BY <1>2, <1>3, <1>4, <1>5

LEMMA ScanDoneStep ==
  ASSUME ScanInv, ScanDone
  PROVE  ScanInv'
<1> USE DEF ScanInv
<1>1. /\ pc = "scan" /\ pc' = "gpt" /\ (idx > Len(readers) \/ ~running)
      /\ idx' = 1 /\ blk' = 0 /\ reads' = {}
      /\ UNCHANGED <<machine, cmd, tail, hasVss, readers, gptDone, running, sent, failed, held, shadow>>
  BY DEF ScanDone, inputVars, snapVars
<1>2. ScanTypeOK'
  BY <1>1 DEF ScanTypeOK
<1>3. ControlOK'
  BY <1>1 DEF ControlOK
<1>4. SentOK' /\ HeldOK' /\ ReadsInPlace' /\ ReadsInRange'
  BY <1>1, Steady
<1>5. ProgressOK'
  <2>1. ASSUME ~failed, running, NEW k \in DOMAIN readers
        PROVE  PartitionSent(readers[k], ScanBlocks(readers[k]))'
    <3>1. PartitionSent(readers[k], Passed(k))
      BY <1>1, <2>1 DEF ProgressOK
    <3>2. Passed(k) = ScanBlocks(readers[k])
      BY <1>1, <2>1 DEF Passed, ScanTypeOK
    <3> QED BY <1>1, <3>1, <3>2 DEF PartitionSent
  <2>2. \A d : MetaSent(d)' <=> MetaSent(d)
    BY <1>1 DEF MetaSent
  <2>3. \A k \in DOMAIN readers : ~(k < idx')
    BY <1>1 DEF ScanTypeOK
  <2> QED BY <1>1, <2>1, <2>2, <2>3 DEF ProgressOK
<1>6. QED BY <1>2, <1>3, <1>4, <1>5

\* A timer's handler.
LEMMA TimerFiresStep ==
  ASSUME ScanInv, TimerFires
  PROVE  ScanInv'
<1> USE DEF ScanInv
<1>1. /\ pc' = pc /\ pc \in {"timers", "rounds"}
      /\ reads' = HandlerReads(timer_check)
      /\ UNCHANGED <<machine, cmd, tail, hasVss, idx, readers, blk, gptDone, running, sent,
                     failed, held, shadow>>
  BY DEF TimerFires, inputVars, snapVars
<1>2. ASSUME NEW rd \in reads'
      PROVE  /\ CopyStandsIn \/ (rd.at = rd.off /\ rd.ro <= rd.size)
             /\ rd.vss => rd.vol \in hasVss
  <2>1. \/ \E b \in Reached : rd = RetransmitRead(b)
        \/ tail /\ \E b \in Reached : rd = RoundRead(b)
    BY <1>1 DEF HandlerReads
  <2> QED BY <2>1, RetransmitReadProperties, RoundReadProperties
<1>3. ScanTypeOK'
  BY <1>1 DEF ScanTypeOK
<1>4. ControlOK'
  BY <1>1 DEF ControlOK
<1>5. HeldOK'
  <2>1. \A k \in DOMAIN readers' : readers'[k].vss => readers'[k].vol \in hasVss
    BY <1>1 DEF HeldOK
  <2> QED BY <1>1, <1>2, <2>1, HeldSteady
<1>6. SentOK'
  BY <1>1, SentSteady
<1>7. ReadsInPlace' /\ ReadsInRange'
  <2>1. CopyStandsIn' <=> CopyStandsIn
    BY <1>1 DEF CopyStandsIn
  <2> QED BY <1>2, <2>1 DEF ReadsInPlace, ReadsInRange
<1>8. ProgressOK'
  BY <1>1 DEF ProgressOK, PartitionSent, MetaSent, Passed
<1>9. QED BY <1>3, <1>4, <1>5, <1>6, <1>7, <1>8

LEMMA TimersDoneStep ==
  ASSUME ScanInv, TimersDone
  PROVE  ScanInv'
<1> USE DEF ScanInv, TimersDone, inputVars, snapVars
<1>1. ScanTypeOK'
  BY DEF ScanTypeOK
<1>2. ControlOK'
  BY DEF ControlOK
<1>3. SentOK' /\ HeldOK' /\ ReadsInPlace' /\ ReadsInRange'
  BY Steady
<1>4. ProgressOK'
  BY DEF ProgressOK, PartitionSent, MetaSent, Passed
<1>5. QED BY <1>1, <1>2, <1>3, <1>4

\* The metadata of one disk.
LEMMA GptBackupStep ==
  ASSUME ScanInv, GptBackup
  PROVE  ScanInv'
<1> USE DEF ScanInv
<1> DEFINE r == readers[idx]
           disk == [r EXCEPT !.vss = FALSE, !.size = machine[r.dev].size]
           rds == {ReadAt(disk, o, o) : o \in GptOffsets(disk.size)}
           size == machine[r.dev].size
<1>1. /\ pc = "gpt" /\ pc' = pc /\ running /\ idx <= Len(readers) /\ idx' = idx + 1
      /\ gptDone' = gptDone \cup {r.dev}
      /\ UNCHANGED <<machine, cmd, tail, hasVss, readers, blk, running, held, shadow>>
      /\ \/ r.dev \in gptDone /\ reads' = {} /\ UNCHANGED <<sent, failed>>
         \/ r.dev \notin gptDone /\ send_blocks(rds)
         \/ r.dev \notin gptDone /\ reads' = {} /\ failed' = TRUE /\ UNCHANGED sent
  BY DEF GptBackup, inputVars, snapVars
<1>2. /\ idx \in DOMAIN readers /\ r \in GoodReaders(machine)
      /\ failed \in BOOLEAN /\ cmd = "migrate"
  BY <1>1 DEF ScanTypeOK, ControlOK
<1>3. r.dev \in DOMAIN machine /\ size \in Nat \ {0}
  BY <1>2, GoodReaderProperties
<1>4. disk.vss = FALSE /\ disk.size = size /\ disk.dev = r.dev
  BY <1>2 DEF GoodReaders
<1>5. ASSUME NEW o \in GptOffsets(size)
      PROVE  LET rd == ReadAt(disk, o, o) IN
             /\ rd.dev = r.dev /\ rd.off = o /\ rd.vss = FALSE /\ rd.at = o /\ rd.ro = o
             /\ rd.size = size /\ o \in Nat /\ o < size /\ HasData(rd)
  <2> DEFINE rd == ReadAt(disk, o, o)
  <2>1. o \in Nat /\ o < size
    BY <1>3, <1>5, GptOffsetsOnDisk
  <2> HIDE DEF disk, size
  <2>2. /\ rd.dev = disk.dev /\ rd.off = o /\ rd.vss = disk.vss /\ rd.ro = o /\ rd.size = disk.size
        /\ rd.at = IF disk.vss THEN disk.base + o ELSE o
    BY ReadAtFields
  <2> HIDE DEF rd
  <2>3. HasData(rd)
    BY <1>4, <2>1, <2>2 DEF HasData
  <2> QED BY <1>4, <2>1, <2>2, <2>3 DEF rd
<1>6. \A rd \in rds : \E o \in GptOffsets(size) : rd = ReadAt(disk, o, o)
  BY <1>4
<1>7. /\ reads' = {} \/ reads' = rds
      /\ sent \subseteq sent'
      /\ \A x \in sent' : x \in sent \/ \E o \in GptOffsets(size) : x = <<r.dev, o>>
      /\ failed' \in BOOLEAN
      /\ ~failed' => ~failed /\ (r.dev \in gptDone \/ \A o \in GptOffsets(size) : <<r.dev, o>> \in sent')
  <2>1. CASE r.dev \in gptDone
    BY <1>1, <1>2, <2>1
  <2>2. CASE r.dev \notin gptDone /\ reads' = {} /\ failed' = TRUE /\ UNCHANGED sent
    BY <2>2
  <2>3. CASE send_blocks(rds)
    <3> HIDE DEF rds
    <3>1. /\ reads' = rds
          /\ sent \subseteq sent'
          /\ \A x \in sent' : x \in sent \/ \E rd \in rds : HasData(rd) /\ x = <<rd.dev, rd.off>>
          /\ failed' \in BOOLEAN
          /\ ~failed' => ~failed /\ \A rd \in rds : HasData(rd) => <<rd.dev, rd.off>> \in sent'
      BY <1>2, <2>3, SendBlocksProperties
    <3>2. \A x \in sent' : x \in sent \/ \E o \in GptOffsets(size) : x = <<r.dev, o>>
      <4>1. ASSUME NEW rd \in rds PROVE \E o \in GptOffsets(size) : <<rd.dev, rd.off>> = <<r.dev, o>>
        <5>1. PICK o \in GptOffsets(size) : rd = ReadAt(disk, o, o)
          BY <1>6, <4>1
        <5> QED BY <1>5, <5>1
      <4> QED BY <3>1, <4>1
    <3>3. ASSUME ~failed', NEW o \in GptOffsets(size) PROVE <<r.dev, o>> \in sent'
      <4>1. ReadAt(disk, o, o) \in rds
        BY <1>4, <3>3 DEF rds
      <4> QED BY <1>5, <3>1, <3>3, <4>1
    <3> QED BY <3>1, <3>2, <3>3
  <2> QED BY <1>1, <2>1, <2>2, <2>3
<1>8. \A rd \in reads' : rd.vss = FALSE /\ rd.at = rd.off /\ rd.ro <= rd.size
  <2>1. ASSUME NEW rd \in rds PROVE rd.vss = FALSE /\ rd.at = rd.off /\ rd.ro <= rd.size
    <3>1. PICK o \in GptOffsets(size) : rd = ReadAt(disk, o, o)
      BY <1>6, <2>1
    <3>2. rd.vss = FALSE /\ rd.at = o /\ rd.off = o /\ rd.ro = o /\ rd.size = size /\ o \in Nat /\ o < size
      BY <1>5, <3>1
    <3> QED BY <1>3, <3>2
  <2> QED BY <1>7, <2>1
<1>a. \A o \in GptOffsets(size) : o \in Nat /\ o < size
  BY <1>3, GptOffsetsOnDisk
<1>b. \A x \in sent' : x \in sent \/ (x = <<r.dev, x[2]>> /\ x[2] \in GptOffsets(size))
  BY <1>7
<1> HIDE DEF rds, disk
<1>9. ScanTypeOK'
  <2>1. sent' \subseteq (DOMAIN machine) \X Nat
    BY <1>3, <1>a, <1>b DEF ScanTypeOK
  <2> QED BY <1>1, <1>7, <2>1 DEF ScanTypeOK
<1>10. ControlOK'
  BY <1>1 DEF ControlOK
<1>11. HeldOK'
  <2>1. \A k \in DOMAIN readers' : readers'[k].vss => readers'[k].vol \in hasVss
    BY <1>1 DEF HeldOK
  <2> QED BY <1>1, <1>8, <2>1, HeldSteady
<1>12. SentOK'
  <2>1. \A x \in sent' : x \in sent \/ (x[2] < machine[x[1]].size /\ x[2] \in GptOffsets(machine[x[1]].size))
    BY <1>a, <1>b
  <2> QED BY <1>1, <2>1, SentGrows
<1>13. ReadsInPlace' /\ ReadsInRange'
  BY <1>8 DEF ReadsInPlace, ReadsInRange
<1>14. ProgressOK'
  <2>1. ASSUME ~failed', NEW k \in DOMAIN readers
        PROVE  PartitionSent(readers[k], ScanBlocks(readers[k]))'
    <3>1. PartitionSent(readers[k], ScanBlocks(readers[k]))
      BY <1>1, <1>7, <2>1 DEF ProgressOK
    <3> QED BY <1>1, <1>7, <3>1, PartitionSentGrows DEF PartitionSent
  <2>2. ASSUME ~failed', NEW d \in gptDone'
        PROVE  MetaSent(d)'
    <3>1. CASE d \in gptDone
      <4>1. MetaSent(d)
        BY <1>7, <2>2, <3>1 DEF ProgressOK
      <4> QED BY <1>1, <1>7, <4>1, MetaSentGrows
    <3>2. CASE d \notin gptDone
      <4>1. d = r.dev /\ \A o \in GptOffsets(size) : <<r.dev, o>> \in sent'
        BY <1>1, <1>7, <2>2, <3>2
      <4> QED BY <1>1, <4>1 DEF MetaSent
    <3> QED BY <3>1, <3>2
  <2>3. ASSUME NEW k \in DOMAIN readers, k < idx'
        PROVE  readers[k].dev \in gptDone'
    <3>1. k < idx \/ k = idx
      BY <1>1, <2>3 DEF ScanTypeOK
    <3> QED BY <1>1, <3>1 DEF ProgressOK
  <2> QED BY <1>1, <2>1, <2>2, <2>3 DEF ProgressOK
<1>15. QED BY <1>9, <1>10, <1>11, <1>12, <1>13, <1>14

LEMMA GptDoneStep ==
  ASSUME ScanInv, GptDone
  PROVE  ScanInv'
<1> USE DEF ScanInv
<1>1. /\ pc = "gpt" /\ pc' \in {"rounds", "finish"} /\ (idx > Len(readers) \/ ~running)
      /\ reads' = {}
      /\ UNCHANGED <<machine, cmd, tail, hasVss, idx, readers, blk, gptDone, running, sent,
                     failed, held, shadow>>
  BY DEF GptDone, inputVars, snapVars
<1>2. ScanTypeOK'
  BY <1>1 DEF ScanTypeOK
<1>3. ControlOK'
  BY <1>1 DEF ControlOK
<1>4. SentOK' /\ HeldOK' /\ ReadsInPlace' /\ ReadsInRange'
  BY <1>1, Steady
<1>5. ProgressOK'
  <2>1. running => \A k \in DOMAIN readers : k < idx
    BY <1>1 DEF ScanTypeOK
  <2> QED BY <1>1, <2>1 DEF ProgressOK, PartitionSent, MetaSent
<1>6. QED BY <1>2, <1>3, <1>4, <1>5

LEMMA RoundsWaitStep ==
  ASSUME ScanInv, RoundsWait
  PROVE  ScanInv'
<1> USE DEF ScanInv, RoundsWait, inputVars, snapVars
<1>1. ScanTypeOK'
  BY DEF ScanTypeOK
<1>2. ControlOK'
  BY DEF ControlOK
<1>3. SentOK' /\ HeldOK' /\ ReadsInPlace' /\ ReadsInRange'
  BY Steady
<1>4. ProgressOK'
  BY DEF ProgressOK, PartitionSent, MetaSent
<1>5. QED BY <1>1, <1>2, <1>3, <1>4

LEMMA RoundsDoneStep ==
  ASSUME ScanInv, RoundsDone
  PROVE  ScanInv'
<1> USE DEF ScanInv, RoundsDone, inputVars, snapVars
<1>1. ScanTypeOK'
  BY DEF ScanTypeOK
<1>2. ControlOK'
  BY DEF ControlOK
<1>3. SentOK' /\ HeldOK' /\ ReadsInPlace' /\ ReadsInRange'
  BY Steady
<1>4. ProgressOK'
  BY DEF ProgressOK, PartitionSent, MetaSent
<1>5. QED BY <1>1, <1>2, <1>3, <1>4

\* incsync's reader of the next volume.
LEMMA IncOpenStep ==
  ASSUME ScanInv, IncOpen
  PROVE  ScanInv'
<1> USE DEF ScanInv
<1>1. /\ pc = "iopen" /\ idx \in DOMAIN Vols /\ reads' = {}
      /\ UNCHANGED <<machine, cmd, tail, hasVss, blk, gptDone, running, sent, failed, held, shadow>>
  BY DEF IncOpen, inputVars, snapVars
<1>2. PICK vssOpens \in BOOLEAN, diskOpens \in BOOLEAN :
        IF Skipped(Vols[idx]) \/ ~(OpenedVss(idx, vssOpens) \/ diskOpens)
        THEN idx' = idx + 1 /\ UNCHANGED <<readers, pc>>
        ELSE /\ readers' = <<Reader(idx, OpenedVss(idx, vssOpens), "none")>>
             /\ pc' = "iscan" /\ UNCHANGED idx
  BY DEF IncOpen
<1> DEFINE vss == OpenedVss(idx, vssOpens)
           r == Reader(idx, vss, "none")
<1>3. vss \in BOOLEAN /\ (vss => idx \in hasVss)
  BY DEF OpenedVss
<1>4. vss => Vols[idx].letter
  BY <1>3 DEF HeldOK, VssVolumes
<1>5. r \in GoodReaders(machine) /\ r.vol = idx /\ r.vss = vss
  <2> HIDE DEF vss
  <2> QED BY <1>1, <1>3, <1>4, ReaderIsGood DEF ScanTypeOK
<1>6. \/ idx' = idx + 1 /\ readers' = readers /\ pc' = "iopen"
      \/ idx' = idx /\ readers' = <<r>> /\ pc' = "iscan"
  BY <1>1, <1>2
<1> HIDE DEF r, vss
<1>7. /\ readers' \in Seq(GoodReaders(machine))
      /\ \A k \in DOMAIN readers' : readers'[k].vss => readers'[k].vol \in hasVss
      /\ pc' = "iscan" => readers' # << >>
  <2>1. CASE readers' = readers /\ pc' = "iopen"
    BY <2>1 DEF ScanTypeOK, HeldOK
  <2>2. CASE readers' = <<r>>
    <3>1. readers' \in Seq(GoodReaders(machine)) /\ DOMAIN readers' = {1} /\ readers'[1] = r
      BY <1>5, <2>2
    <3> QED BY <1>3, <1>5, <2>2, <3>1
  <2> QED BY <1>6, <2>1, <2>2
<1>8. ScanTypeOK'
  <2>1. idx' \in Nat \ {0}
    BY <1>6 DEF ScanTypeOK
  <2> QED BY <1>1, <1>7, <2>1 DEF ScanTypeOK
<1>9. ControlOK'
  <2>1. cmd = "incsync" /\ ~tail
    BY <1>1 DEF ControlOK
  <2> QED BY <1>1, <1>6, <1>7, <2>1 DEF ControlOK
<1>10. HeldOK'
  <2>1. \A rd \in reads' : rd.vss => rd.vol \in hasVss
    BY <1>1
  <2> QED BY <1>1, <1>6, <1>7, <2>1, HeldSteady
<1>11. SentOK' /\ ReadsInPlace' /\ ReadsInRange'
  <2>1. cmd # "migrate"
    BY <1>1 DEF ControlOK
  <2> QED BY <1>1, <2>1 DEF SentOK, ReadsInPlace, ReadsInRange
<1>12. ProgressOK'
  BY <1>1, <1>6 DEF ProgressOK, MetaSent
<1>13. QED BY <1>8, <1>9, <1>10, <1>11, <1>12

\* A block of incsync.
LEMMA IncBlockStep ==
  ASSUME ScanInv, IncBlock
  PROVE  ScanInv'
<1> USE DEF ScanInv
<1> DEFINE r == readers[1]
           rd == BlockRead(r, blk)
           s == <<rd.dev, rd.off>>
<1>1. /\ pc = "iscan" /\ pc' = pc /\ blk < r.count /\ blk' = blk + 1 /\ send_blocks({rd})
      /\ UNCHANGED <<machine, cmd, tail, hasVss, idx, readers, gptDone, running, held, shadow>>
  BY DEF IncBlock, inputVars, snapVars
<1>2. cmd = "incsync" /\ readers # << >>
  BY <1>1 DEF ControlOK
<1>3. 1 \in DOMAIN readers /\ r \in GoodReaders(machine) /\ blk \in Nat /\ failed \in BOOLEAN
  BY <1>2 DEF ScanTypeOK
<1>4. /\ reads' = {rd}
      /\ sent \subseteq sent'
      /\ \A x \in sent' : x \in sent \/ (HasData(rd) /\ x = s)
      /\ failed' \in BOOLEAN
      /\ ~failed' => ~failed
  BY <1>1, <1>3, SendBlocksProperties
<1>5. /\ rd.dev = r.dev /\ rd.vol = r.vol /\ rd.vss = r.vss
      /\ rd.off \in Nat /\ rd.at = rd.off
      /\ HasData(rd) => rd.off < machine[r.dev].size
  BY <1>1, <1>3, BlockReadProperties
<1>6. r.dev \in DOMAIN machine
  BY <1>3, GoodReaderProperties
<1> HIDE DEF rd
<1>7. ScanTypeOK'
  <2>1. sent' \subseteq (DOMAIN machine) \X Nat
    BY <1>4, <1>5, <1>6 DEF ScanTypeOK
  <2> QED BY <1>1, <1>3, <1>4, <2>1 DEF ScanTypeOK
<1>8. ControlOK'
  BY <1>1, <1>2 DEF ControlOK
<1>9. HeldOK'
  <2>1. r.vss => r.vol \in hasVss
    BY <1>3 DEF HeldOK
  <2>2. \A x \in reads' : x.vss => x.vol \in hasVss
    BY <1>4, <1>5, <2>1
  <2>3. \A k \in DOMAIN readers' : readers'[k].vss => readers'[k].vol \in hasVss
    BY <1>1 DEF HeldOK
  <2> QED BY <1>1, <2>2, <2>3, HeldSteady
<1>10. SentOK'
  BY <1>1, <1>2, <1>4, <1>5, SentGrows
<1>11. ReadsInPlace' /\ ReadsInRange'
  BY <1>1, <1>2, <1>4, <1>5 DEF ReadsInPlace, ReadsInRange
<1>12. ProgressOK'
  <2>1. ASSUME ~failed', NEW d \in gptDone
        PROVE  MetaSent(d)'
    <3>1. MetaSent(d)
      BY <1>4, <2>1 DEF ProgressOK
    <3> QED BY <1>1, <1>4, <3>1, MetaSentGrows
  <2> QED BY <1>1, <2>1 DEF ProgressOK
<1>13. QED BY <1>7, <1>8, <1>9, <1>10, <1>11, <1>12

LEMMA IncPartitionDoneStep ==
  ASSUME ScanInv, IncPartitionDone
  PROVE  ScanInv'
<1> USE DEF ScanInv
<1>1. /\ pc = "iscan" /\ pc' = "iopen" /\ idx' = idx + 1 /\ blk' = 0 /\ readers' = << >> /\ reads' = {}
      /\ UNCHANGED <<machine, cmd, tail, hasVss, gptDone, running, sent, failed, held, shadow>>
  BY DEF IncPartitionDone, inputVars, snapVars
<1>2. cmd = "incsync" /\ ~tail
  BY <1>1 DEF ControlOK
<1>3. ScanTypeOK'
  <2>1. readers' \in Seq(GoodReaders(machine'))
    BY <1>1
  <2> QED BY <1>1, <2>1 DEF ScanTypeOK
<1>4. ControlOK'
  BY <1>1, <1>2 DEF ControlOK
<1>5. HeldOK'
  BY <1>1, HeldSteady
<1>6. SentOK' /\ ReadsInPlace' /\ ReadsInRange'
  BY <1>1, <1>2 DEF SentOK, ReadsInPlace, ReadsInRange
<1>7. ProgressOK'
  BY <1>1 DEF ProgressOK, MetaSent
<1>8. QED BY <1>3, <1>4, <1>5, <1>6, <1>7

LEMMA IncDoneStep ==
  ASSUME ScanInv, IncDone
  PROVE  ScanInv'
<1> USE DEF ScanInv, IncDone, inputVars, scanVars, snapVars
<1>1. ScanTypeOK'
  BY DEF ScanTypeOK
<1>2. ControlOK'
  BY DEF ControlOK
<1>3. SentOK' /\ HeldOK' /\ ReadsInPlace' /\ ReadsInRange'
  BY Steady
<1>4. ProgressOK'
  BY DEF ProgressOK, MetaSent
<1>5. QED BY <1>1, <1>2, <1>3, <1>4

LEMMA DStepKeepsScanInv ==
  ASSUME ScanInv, DStep
  PROVE  ScanInv'
<1>1. CASE VssReady \/ VssMissing \/ TakeSnapshots \/ NoSnapshots \/ VssCommand \/ Cleanup
  BY <1>1, VssReadyStep, VssMissingStep, TakeSnapshotsStep, NoSnapshotsStep, VssCommandStep,
     CleanupStep
<1>2. CASE OpenReader \/ ReadersOpen \/ ScanBlock \/ PartitionDone \/ ScanDone
  BY <1>2, OpenReaderStep, ReadersOpenStep, ScanBlockStep, PartitionDoneStep, ScanDoneStep
<1>3. CASE TimerFires \/ TimersDone \/ RoundsWait \/ RoundsDone
  BY <1>3, TimerFiresStep, TimersDoneStep, RoundsWaitStep, RoundsDoneStep
<1>4. CASE GptBackup \/ GptDone \/ MigrateEnds \/ RaisedEnds
  BY <1>4, GptBackupStep, GptDoneStep, MigrateEndsStep, RaisedEndsStep
<1>5. CASE IncOpen \/ IncBlock \/ IncPartitionDone \/ IncDone
  BY <1>5, IncOpenStep, IncBlockStep, IncPartitionDoneStep, IncDoneStep
<1>6. QED BY <1>1, <1>2, <1>3, <1>4, <1>5 DEF DStep

\* A step of another command, or none.
LEMMA ScanInvSteady ==
  ASSUME ScanInv, UNCHANGED dvars
  PROVE  ScanInv'
<1> USE DEF ScanInv, dvars, scanVars, inputVars, snapVars
<1>1. ScanTypeOK'
  BY DEF ScanTypeOK
<1>2. ControlOK'
  BY DEF ControlOK, Untouched
<1>3. SentOK' /\ HeldOK' /\ ReadsInPlace' /\ ReadsInRange'
  BY Steady
<1>4. ProgressOK'
  BY DEF ProgressOK, PartitionSent, MetaSent, Passed
<1>5. QED BY <1>1, <1>2, <1>3, <1>4

LEMMA ScanInvInit ==
  ASSUME DInit
  PROVE  ScanInv
<1> USE DEF DInit, SnapInit
<1>1. ScanTypeOK
  <2>1. readers \in Seq(GoodReaders(machine))
    OBVIOUS
  <2>2. tail \in BOOLEAN /\ running \in BOOLEAN /\ failed \in BOOLEAN /\ machine \in Machines
    BY Zenon
  <2>3. idx \in Nat \ {0} /\ blk \in Nat /\ sent \subseteq (DOMAIN machine) \X Nat
    OBVIOUS
  <2> QED BY <2>1, <2>2, <2>3 DEF ScanTypeOK
<1>2. ControlOK
  BY DEF ControlOK, Untouched
<1>3. HeldOK
  BY DEF HeldOK
<1>4. SentOK /\ ReadsInPlace /\ ReadsInRange
  BY DEF SentOK, ReadsInPlace, ReadsInRange
<1>5. ProgressOK
  BY DEF ProgressOK
<1>6. QED BY <1>1, <1>2, <1>3, <1>4, <1>5 DEF ScanInv

------------------------------------------------------------------------------
(***************************************************************************)
(* What the invariant says about the transfer.                             *)
(***************************************************************************)

\* A copy that is read exists.
LEMMA InvCopyExists ==
  ASSUME ScanInv
  PROVE  CopyExists
<1>1. HeldOK
  BY DEF ScanInv
<1>2. ASSUME NEW rd \in reads, rd.vss PROVE "bc" \in held /\ rd.vol \in shadow
  <2>1. rd.vol \in hasVss
    BY <1>1, <1>2 DEF HeldOK
  <2> QED BY <1>1, <2>1 DEF HeldOK
<1>3. QED BY <1>2 DEF CopyExists

LEMMA InvNothingHeld ==
  ASSUME ScanInv
  PROVE  NothingHeld
<1>1. HeldOK /\ ControlOK
  BY DEF ScanInv
<1>2. ASSUME cmd = "none" PROVE held = {} /\ shadow = {}
  <2>1. pc = "off"
    BY <1>1, <1>2 DEF ControlOK
  <2> QED BY <1>1, <2>1 DEF HeldOK
<1>3. QED BY <1>2 DEF NothingHeld

\* A block that no reader covers is a metadata block, and lies outside what every
\* reader of its disk reads.
LEMMA InvRoundsReach ==
  ASSUME ScanInv
  PROVE  RoundsReach
<1>1. ScanTypeOK /\ SentOK
  BY DEF ScanInv
<1>2. SUFFICES ASSUME cmd = "migrate", NEW b \in sent, EntryFor(b) = 0
               PROVE  /\ b[2] \in GptOffsets(machine[b[1]].size)
                      /\ \A k \in DOMAIN readers :
                           readers[k].dev = b[1] =>
                             b[2] < readers[k].base \/ b[2] >= readers[k].base + readers[k].size
  BY DEF RoundsReach
<1>3. \A k \in DOMAIN readers : ~Covers(readers[k], b)
  BY <1>1, <1>2, EntryForProperties DEF ScanTypeOK
<1>4. b[2] \in GptOffsets(machine[b[1]].size)
  BY <1>1, <1>2, <1>3 DEF SentOK
<1>5. ASSUME NEW k \in DOMAIN readers, readers[k].dev = b[1]
      PROVE  b[2] < readers[k].base \/ b[2] >= readers[k].base + readers[k].size
  <2>1. readers[k] \in GoodReaders(machine) /\ b[2] \in Nat
    BY <1>1 DEF ScanTypeOK
  <2>2. readers[k].base \in Nat /\ readers[k].size \in Nat
    BY <2>1, GoodReaderProperties
  <2> QED BY <1>3, <1>5, <2>1, <2>2 DEF Covers
<1>6. QED BY <1>4, <1>5

LEMMA InvDiskPartitionsSent ==
  ASSUME ScanInv
  PROVE  DiskPartitionsSent
<1>1. ScanTypeOK /\ ProgressOK
  BY DEF ScanInv
<1>2. SUFFICES ASSUME Undisturbed, NEW k \in DOMAIN readers, ~readers[k].vss,
                      NEW o \in WholeBlocks(readers[k])
               PROVE  <<readers[k].dev, o>> \in sent
  BY DEF DiskPartitionsSent
<1> DEFINE r == readers[k]
<1>3. r \in GoodReaders(machine)
  BY <1>1 DEF ScanTypeOK
<1>4. /\ r.base \in Nat /\ r.count \in Nat /\ r.size \in Nat /\ ScanBlocks(r) \in Nat
      /\ r.size = machine[r.dev].size
  BY <1>2, <1>3, GoodReaderProperties, ScanBlocksProperties
<1>5. PICK b \in 0 .. r.count - 1 :
        r.base + (b + 1) * BlockSize <= r.size /\ o = r.base + b * BlockSize
  BY <1>2, <1>4 DEF WholeBlocks
<1> HIDE DEF r
<1>6. b \in Nat /\ b < r.count /\ BlockSize \in Nat
  BY <1>4, <1>5, DiskScanAssumption
<1>7. (b + 1) * BlockSize = b * BlockSize + BlockSize /\ b * BlockSize \in Nat
  BY <1>6, MulMonotonic
<1>8. b < ScanBlocks(r)
  <2>1. r.base + b * BlockSize + BlockSize <= r.size
    BY <1>4, <1>5, <1>6, <1>7
  <2> QED BY <1>3, <1>6, <2>1, ScanBlocksProperties
<1>9. PartitionSent(r, ScanBlocks(r))
  BY <1>1, <1>2 DEF ProgressOK, Undisturbed, r
<1>10. b \in 0 .. ScanBlocks(r) - 1
  BY <1>4, <1>6, <1>8
<1>11. QED BY <1>2, <1>5, <1>9, <1>10 DEF PartitionSent, r

\* A multiple of d among the last two whole blocks of a disk is one of the offsets
\* that are counted from the disk's rounded end.
LEMMA LastTwoBlocks ==
  ASSUME NEW size \in Nat, NEW d \in Nat \ {0}, NEW o \in Nat, o % d = 0,
         size >= 2 * d, o + d <= size, o + 3 * d > size
  PROVE  /\ (size \div d) * d >= 2 * d
         /\ o \in {(size \div d) * d - 2 * d, (size \div d) * d - d}
<1> DEFINE q == o \div d
           n == size \div d
<1>1. q \in Nat /\ n \in Nat /\ n * d <= size /\ size < n * d + d
  BY DivProperties
<1>2. o = q * d
  OBVIOUS
<1> HIDE DEF q, n
<1>3. q * d \in Nat /\ n * d \in Nat
  BY <1>1
<1>4. q < n
  <2>1. SUFFICES ASSUME n <= q PROVE FALSE
    BY <1>1
  <2>2. n * d <= q * d
    BY <1>1, <2>1, MulMonotonic
  <2> QED BY <1>1, <1>2, <1>3, <2>2
<1>5. n < q + 3
  <2>1. SUFFICES ASSUME q + 3 <= n PROVE FALSE
    BY <1>1
  <2>2. (q + 3) * d <= n * d
    BY <1>1, <2>1, MulMonotonic
  <2>3. (q + 3) * d = q * d + 3 * d
    BY <1>1
  <2> QED BY <1>1, <1>2, <1>3, <2>2, <2>3
<1>6. n >= 2
  <2>1. SUFFICES ASSUME n <= 1 PROVE FALSE
    BY <1>1
  <2>2. n * d <= 1 * d
    BY <1>1, <2>1, MulMonotonic
  <2> QED BY <1>1, <1>3, <2>2
<1>7. 2 * d <= n * d
  BY <1>1, <1>6, MulMonotonic
<1>8. n = q + 1 \/ n = q + 2
  BY <1>1, <1>4, <1>5
<1>9. n * d = q * d + d \/ n * d = q * d + 2 * d
  BY <1>1, <1>8
<1>10. o \in {n * d - 2 * d, n * d - d}
  BY <1>2, <1>3, <1>9
<1>11. QED BY <1>7, <1>10 DEF n

LEMMA InvMetadataSent ==
  ASSUME ScanInv
  PROVE  MetadataSent
<1>1. ScanTypeOK /\ ProgressOK
  BY DEF ScanInv
<1>2. SUFFICES ASSUME Undisturbed, NEW k \in DOMAIN readers,
                      NEW o \in 0 .. machine[readers[k].dev].size,
                      o % BlockSize = 0,
                      \/ o = 0
                      \/ /\ machine[readers[k].dev].size >= 2 * BlockSize
                         /\ o + BlockSize <= machine[readers[k].dev].size
                         /\ o + 3 * BlockSize > machine[readers[k].dev].size
               PROVE  <<readers[k].dev, o>> \in sent
  BY DEF MetadataSent
<1> DEFINE size == machine[readers[k].dev].size
<1>3. readers[k] \in GoodReaders(machine)
  BY <1>1 DEF ScanTypeOK
<1>4. size \in Nat /\ BlockSize \in Nat \ {0}
  BY <1>3, GoodReaderProperties, DiskScanAssumption
<1>5. o \in GptOffsets(size)
  <2>1. CASE o = 0
    BY <2>1 DEF GptOffsets
  <2>2. CASE o # 0
    <3>1. size >= 2 * BlockSize /\ o + BlockSize <= size /\ o + 3 * BlockSize > size /\ o \in Nat
      BY <1>2, <1>4, <2>2
    <3>2. /\ (size \div BlockSize) * BlockSize >= 2 * BlockSize
          /\ o \in {(size \div BlockSize) * BlockSize - 2 * BlockSize,
                    (size \div BlockSize) * BlockSize - BlockSize}
      <4> HIDE DEF size
      <4> QED BY <1>2, <1>4, <3>1, LastTwoBlocks
    <3> HIDE DEF size
    <3> QED BY <3>2 DEF GptOffsets
  <2> QED BY <2>1, <2>2
<1>6. readers[k].dev \in gptDone
  BY <1>1, <1>2 DEF ProgressOK, Undisturbed
<1>7. MetaSent(readers[k].dev)
  BY <1>1, <1>2, <1>6 DEF ProgressOK, Undisturbed
<1>8. QED BY <1>5, <1>7 DEF MetaSent

------------------------------------------------------------------------------
(***************************************************************************)
(* Drivers.                                                                *)
(***************************************************************************)

LEMMA DriversAre ==
  /\ Len(Drivers) = 3 /\ DOMAIN Drivers = 1 .. 3
  /\ Drivers[1] = "viostor" /\ Drivers[2] = "netkvm" /\ Drivers[3] = "qxldod"
BY DEF Drivers

LEMMA InjectDriverStep ==
  ASSUME DriverInv, InjectDriver, UNCHANGED ready
  PROVE  DriverInv'
<1> DEFINE n == Drivers[drv]
<1>1. /\ drv \in 1 .. 3 /\ drv' = drv + 1
      /\ \/ allOk' = FALSE /\ UNCHANGED answered
         \/ answered' = answered \cup {n} /\ UNCHANGED allOk
  BY DriversAre DEF InjectDriver
<1>2. answered \subseteq answered'
  BY <1>1
<1>3. drv' \in 0 .. Len(Drivers) + 1
  BY <1>1, DriversAre
<1>4. ASSUME allOk', NEW i \in DOMAIN Drivers, i < drv' PROVE Drivers[i] \in answered'
  <2>1. i < drv \/ i = drv
    BY <1>1, <1>4, DriversAre
  <2>2. CASE i < drv
    BY <1>1, <1>2, <1>4, <2>2 DEF DriverInv
  <2>3. CASE i = drv
    BY <1>1, <1>4, <2>3
  <2> QED BY <2>1, <2>2, <2>3
<1>5. ReadyMeansAnswered'
  BY <1>2 DEF DriverInv, ReadyMeansAnswered, Critical
<1>6. QED BY <1>3, <1>4, <1>5 DEF DriverInv

\* check_drivers and checkenv say yes for what devcon shows.
LEMMA CheckersAreRight ==
  ASSUME NEW shown, NEW open, NEW sys,
         driver_check_virtio(shown) = DriverNames \/ system_check_run(open, shown, sys)
  PROVE  Critical \subseteq driver_check_virtio(shown)
<1>1. Critical \subseteq DriverNames
  BY DriversAre DEF Critical, DriverNames
<1>2. CASE driver_check_virtio(shown) = DriverNames
  BY <1>1, <1>2
<1>3. CASE system_check_run(open, shown, sys)
  <2>1. check_virtio_drivers(shown) # "FAIL"
    BY <1>3 DEF system_check_run
  <2> QED BY <1>1, <2>1 DEF check_virtio_drivers
<1>4. QED BY <1>2, <1>3

LEMMA DriverInvStep ==
  ASSUME DriverInv, [CmdNext]_cmdVars
  PROVE  DriverInv'
<1>1. CASE UNCHANGED <<driverVars, ready>>
  BY <1>1 DEF DriverInv, driverVars, ReadyMeansAnswered
<1>2. CASE cmd_inject_driver
  <2>1. CASE InjectBegin /\ ready' = FALSE
    BY <2>1, DriversAre DEF InjectBegin, DriverInv, ReadyMeansAnswered
  <2>2. CASE InjectDriver /\ UNCHANGED ready
    BY <2>2, InjectDriverStep
  <2>3. CASE InjectDone /\ ready' = allOk
    <3>1. answered' = answered /\ drv' = 0 /\ drv > 3
      BY <2>3, DriversAre DEF InjectDone
    <3>2. allOk => Critical \subseteq answered
      BY <3>1, DriversAre DEF DriverInv, Critical
    <3> QED BY <2>3, <3>1, <3>2, DriversAre DEF DriverInv, ReadyMeansAnswered
  <2> QED BY <1>2, <2>1, <2>2, <2>3 DEF cmd_inject_driver
<1>3. ASSUME UNCHANGED <<drv, allOk>>, drv = 0, ready' => Critical \subseteq answered'
      PROVE  DriverInv'
  BY <1>3, DriversAre DEF DriverInv, ReadyMeansAnswered
<1>4. CASE cmd_check_drivers
  <2>1. PICK shown \in SUBSET DriverNames :
          answered' = driver_check_virtio(shown) /\ ready' = (answered' = DriverNames)
    BY <1>4 DEF cmd_check_drivers
  <2>2. ready' => Critical \subseteq answered'
    BY <2>1, CheckersAreRight
  <2> QED BY <1>3, <1>4, <2>2 DEF cmd_check_drivers
<1>5. CASE cmd_checkenv
  <2>1. PICK open \in SUBSET DOMAIN Vols, shown \in SUBSET DriverNames, sys \in Systems :
          /\ answered' = driver_check_virtio(shown)
          /\ ready' = system_check_run(open, shown, sys)
    BY <1>5 DEF cmd_checkenv
  <2>2. ready' => Critical \subseteq answered'
    BY <2>1, CheckersAreRight
  <2> QED BY <1>3, <1>5, <2>2 DEF cmd_checkenv
<1>7. DevconEnds => UNCHANGED <<answered, drv, allOk, ready>>
  BY DEF DevconEnds, LateInstall
<1>8. CASE DevconEnds
  BY <1>7, <1>8 DEF DriverInv, ReadyMeansAnswered
<1>6. CASE DiskCommand \/ UNCHANGED cmdVars
  BY <1>1, <1>6 DEF DiskCommand, cmdVars
<1>9. QED BY <1>2, <1>4, <1>5, <1>6, <1>8 DEF CmdNext

------------------------------------------------------------------------------
(***************************************************************************)
(* The theorems.                                                           *)
(***************************************************************************)

\* ScanInv is an invariant of every sequence of commands.
THEOREM ScanInvariant == CmdSpec => []ScanInv
<1>1. CmdInit => ScanInv
  BY ScanInvInit DEF CmdInit
<1>2. ScanInv /\ [CmdNext]_cmdVars => ScanInv'
  <2> SUFFICES ASSUME ScanInv, [CmdNext]_cmdVars PROVE ScanInv'
    OBVIOUS
  <2>1. CASE UNCHANGED dvars
    BY <2>1, ScanInvSteady
  <2>2. CASE DiskCommand
    <3>1. \/ \E c \in VssCommands : Begin(c)
          \/ DStep \/ TransferRaises \/ Interrupt \/ Kill
      BY <2>2 DEF DiskCommand
    <3> QED BY <3>1, BeginStep, DStepKeepsScanInv, TransferRaisesStep, InterruptStep,
                KillStep
  <2>3. CASE cmd_inject_driver \/ cmd_check_drivers \/ cmd_checkenv \/ DevconEnds \/ UNCHANGED cmdVars
    <3>1. UNCHANGED dvars
      BY <2>3 DEF cmd_inject_driver, cmd_check_drivers, cmd_checkenv, DevconEnds, cmdVars
    <3> QED BY <2>1, <3>1
  <2> QED BY <2>2, <2>3 DEF CmdNext
<1>3. QED BY <1>1, <1>2, PTL DEF CmdSpec

\* Whatever is read is what the disk holds at the offset it is sent under, on every
\* machine and with every failure; unless a copy stands in for the disk in the
\* rounds.
THEOREM ReadsAreInPlace == CmdSpec => []ReadsInPlace
<1>1. ScanInv => ReadsInPlace
  BY DEF ScanInv
<1>2. QED BY <1>1, ScanInvariant, PTL

\* do_migrate begins no read behind the end of its reader.
THEOREM ReadsAreInRange == CmdSpec => []ReadsInRange
<1>1. ScanInv => ReadsInRange
  BY DEF ScanInv
<1>2. QED BY <1>1, ScanInvariant, PTL

\* A copy is read while it exists: it is released after the last read, also by
\* retransmissions and rounds, and when something fails.
THEOREM CopiesExistWhileRead == CmdSpec => []CopyExists
BY ScanInvariant, InvCopyExists, PTL

\* Every way out of a command gives back what it holds.
THEOREM CommandsHoldNothing == CmdSpec => []NothingHeld
BY ScanInvariant, InvNothingHeld, PTL

\* A transfer without a failure has sent every partition that it reads from the
\* disk, as far as the disk has whole blocks.
THEOREM PartitionsAreSent == CmdSpec => []DiskPartitionsSent
BY ScanInvariant, InvDiskPartitionsSent, PTL

\* It has also sent the first block and the last two whole blocks of each disk.
THEOREM MetadataIsSent == CmdSpec => []MetadataSent
BY ScanInvariant, InvMetadataSent, PTL

\* Retransmissions and rounds find a reader for what was sent, except for metadata
\* blocks outside every partition.
THEOREM RoundsReachWhatWasSent == CmdSpec => []RoundsReach
BY ScanInvariant, InvRoundsReach, PTL

\* A yes about the drivers is one that devcon gave, to each driver the target
\* machine needs, in the command that passed it on.
THEOREM ReadyIsAnswered == CmdSpec => []ReadyMeansAnswered
<1>1. CmdInit => DriverInv
  BY DriversAre DEF CmdInit, DriverInit, DriverInv, ReadyMeansAnswered
<1>2. DriverInv /\ [CmdNext]_cmdVars => DriverInv'
  BY DriverInvStep
<1>3. DriverInv => ReadyMeansAnswered
  BY DEF DriverInv
<1>4. QED BY <1>1, <1>2, <1>3, PTL DEF CmdSpec
=============================================================================
