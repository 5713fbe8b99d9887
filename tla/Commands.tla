------------------------------ MODULE Commands ------------------------------
(***************************************************************************)
(* The client's command line (main in client/main.c): one command after    *)
(* the other, each a process of its own.  The commands that read disks are *)
(* steps of DiskScan, those about drivers steps of DriverStore and         *)
(* SystemCheck.                                                            *)
(***************************************************************************)
EXTENDS SystemCheck

CONSTANTS
  CommandSets     \* bound: the commands an operator uses in one behaviour

VARIABLES
  allowed,        \* the operator's commands
  ready           \* the last inject_driver or checkenv returned 0

cmdVars == <<dvars, driverVars, allowed, ready>>

CmdInit ==
  /\ DInit /\ DriverInit
  /\ allowed \in CommandSets
  /\ ready = FALSE

\* The commands that read disks or ask the VSS service.
DiskCommand ==
  /\ \/ drv = 0 /\ \E c \in VssCommands \cap allowed : Begin(c)
     \/ DStep
     \/ TransferRaises \/ Interrupt \/ Kill
  /\ UNCHANGED <<driverVars, allowed, ready>>

cmd_inject_driver ==
  /\ "inject_driver" \in allowed /\ cmd = "none"
  /\ \/ InjectBegin /\ ready' = FALSE
     \/ InjectDriver /\ UNCHANGED ready
     \/ InjectDone /\ ready' = allOk
  /\ UNCHANGED <<dvars, allowed>>

\* cmd_check_drivers only looks.
cmd_check_drivers ==
  /\ "check_drivers" \in allowed /\ cmd = "none" /\ drv = 0
  /\ \E shown \in SUBSET DriverNames :
       /\ answered' = driver_check_virtio(shown)
       /\ ready' = (answered' = DriverNames)
  /\ UNCHANGED <<dvars, dir, store, late, drv, allOk, allowed>>

cmd_checkenv ==
  /\ "checkenv" \in allowed /\ cmd = "none" /\ drv = 0
  /\ \E open \in SUBSET DOMAIN Vols, shown \in SUBSET DriverNames, sys \in Systems :
       /\ answered' = driver_check_virtio(shown)
       /\ ready' = system_check_run(open, shown, sys)
  /\ UNCHANGED <<dvars, dir, store, late, drv, allOk, allowed>>

\* An installation that had been given up.
DevconEnds ==
  /\ \E n \in DriverNames : LateInstall(n)
  /\ UNCHANGED <<dvars, allowed, ready>>

CmdNext ==
  \/ DiskCommand
  \/ cmd_inject_driver \/ cmd_check_drivers \/ cmd_checkenv
  \/ DevconEnds

CmdSpec == CmdInit /\ [][CmdNext]_cmdVars

\* The client's thread runs.
CmdFair == CmdSpec /\ WF_cmdVars(DStep /\ UNCHANGED <<driverVars, allowed, ready>>)

------------------------------------------------------------------------------
(***************************************************************************)
(* Properties.                                                             *)
(***************************************************************************)

\* When inject_driver, check_drivers or checkenv has said yes, devcon said yes in
\* that very command to each of the drivers the target machine cannot start
\* without: a driver that failed is not forgotten over one that did not, nor made
\* up for by an earlier command, by checks that passed or by the display driver.
ReadyMeansAnswered == ready => Critical \subseteq answered

------------------------------------------------------------------------------

\* The inductive invariant behind it: as long as nothing has failed, devcon
\* said yes to every driver that inject_driver has passed.
DriverInv ==
  /\ drv \in 0 .. Len(Drivers) + 1
  /\ allOk => \A n \in DOMAIN Drivers : n < drv => Drivers[n] \in answered
  /\ ReadyMeansAnswered
=============================================================================
