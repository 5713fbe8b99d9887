----------------------------- MODULE DriverStore -----------------------------
(***************************************************************************)
(* The VirtIO drivers (client/driver_inject.c) and the commands            *)
(* inject_driver and check_drivers.  devcon.exe is another program, of     *)
(* which the code sees an exit code and some output: it may answer         *)
(* anything, whatever it has done.                                         *)
(***************************************************************************)
EXTENDS Integers, Sequences, FiniteSetsExt

CONSTANTS
  DriverDirs      \* driver directories: per driver, its version folders

Drivers == <<"viostor", "netkvm", "qxldod">>
DriverNames == {Drivers[n] : n \in DOMAIN Drivers}
Critical == {"viostor", "netkvm"}

VARIABLES
  dir,            \* the driver directory inject_driver was given
  store,          \* drivers in the driver store
  late,           \* installations that go on after devcon_run has given up
  answered,       \* drivers this command, or the last one, took a yes for
  drv,            \* the driver inject_driver is at, 0 when it does not run
  allOk           \* all_ok of driver_inject_virtio

driverVars == <<dir, store, late, answered, drv, allOk>>

NoDir == [n \in DriverNames |-> << >>]

DriverInit ==
  /\ dir = NoDir
  /\ store = {} /\ late = {} /\ answered = {} /\ drv = 0 /\ allOk = TRUE

\* The folder with the highest score, the first one of several.  A folder for no
\* known version has score 0 and is taken when there is no other.
BestFolder(folders) ==
  folders[Min({f \in DOMAIN folders :
                 \A g \in DOMAIN folders : folders[f].score >= folders[g].score})]

\* driver_find_inf: the driver's own INF in that folder, else any other one;
\* vioscsi.inf, which is tried before the rest for viostor, is another one.
driver_find_inf(folders) ==
  IF folders = << >> THEN "none"
  ELSE LET infs == BestFolder(folders).infs IN
       CASE "own" \in infs   -> "own"
         [] "other" \in infs -> "other"
         [] OTHER            -> "none"

\* driver_inject_probe; shown is any set of drivers, those for which devcon find
\* ends with 0 and prints something.
driver_inject_probe(n, shown) == n \in shown

\* What devcon_run returns for devcon install: an exit code, or another number
\* when devcon.exe is not found, does not start or does not end in 30 s.
ExitCodes == {"0", "1", "2", "other"}

\* devcon install: the driver may be in the store afterwards if it is the driver's
\* own INF, and be put there later if devcon was given up.
devcon_install(n, inf, code) ==
  \/ UNCHANGED <<store, late>>
  \/ inf = "own" /\ store' = store \cup {n} /\ UNCHANGED late
  \/ inf = "own" /\ code = "other" /\ late' = late \cup {n} /\ UNCHANGED store

\* driver_inject_install: 0, 1 (the device shows after a reboot) and 2 (it is
\* there already) are a success, for whatever INF was found.
driver_inject_install(code) == code \in {"0", "1", "2"}

InjectBegin ==
  /\ drv = 0
  /\ drv' = 1 /\ allOk' = TRUE /\ answered' = {}
  /\ dir' \in DriverDirs
  /\ UNCHANGED <<store, late>>

\* driver_inject_virtio, one driver: nothing to do when it is found; otherwise it
\* is installed, and whether it is found then does not matter.
InjectDriver ==
  /\ drv \in DOMAIN Drivers
  /\ LET n == Drivers[drv]
         inf == driver_find_inf(dir[n]) IN
     IF inf = "none"
     THEN allOk' = FALSE /\ UNCHANGED <<store, late, answered>>
     ELSE \E shown \in SUBSET {n} :
            IF driver_inject_probe(n, shown)
            THEN answered' = answered \cup {n} /\ UNCHANGED <<store, late, allOk>>
            ELSE \E code \in ExitCodes :
                   /\ devcon_install(n, inf, code)
                   /\ IF driver_inject_install(code)
                      THEN answered' = answered \cup {n} /\ UNCHANGED allOk
                      ELSE allOk' = FALSE /\ UNCHANGED answered
  /\ drv' = drv + 1
  /\ UNCHANGED dir

\* inject_driver ends and reports.
InjectDone ==
  /\ drv > Len(Drivers)
  /\ drv' = 0 /\ allOk' = TRUE /\ dir' = NoDir
  /\ UNCHANGED <<store, late, answered>>

\* devcon.exe comes to its end after all.
LateInstall(n) ==
  /\ n \in late
  /\ late' = late \ {n}
  /\ store' = store \cup {n}
  /\ UNCHANGED <<dir, answered, drv, allOk>>

\* driver_check_virtio: the drivers that are found.
driver_check_virtio(shown) == {n \in DriverNames : driver_inject_probe(n, shown)}
=============================================================================
