------------------------------ MODULE Snapshot ------------------------------
(***************************************************************************)
(* Volume shadow copies (client/vss.c): what a VSS context holds, and the  *)
(* copies it makes.                                                        *)
(*                                                                         *)
(* A copy made in the context VSS_CTX_BACKUP disappears with the backup    *)
(* components object; one made in VSS_CTX_CLIENT_ACCESSIBLE stays until it *)
(* is deleted.  The program has at most one context at a time.             *)
(***************************************************************************)
EXTENDS Integers, FiniteSets

CONSTANTS
  Guids           \* bound: persistent copies that can be told apart

VARIABLES
  held,           \* what this process holds: lib, com, bc
  shadow,         \* volumes with a copy that lives as long as bc
  kept            \* persistent copies on the machine

snapVars == <<held, shadow, kept>>

SnapInit == held = {} /\ shadow = {} /\ kept = {}

\* The calls of vss_init_ex that can fail.
InitSteps == {"LoadLibrary", "GetProcAddress", "CoInitializeEx",
              "CreateVssBackupComponents", "InitializeForBackup", "SetContext"}

\* What has been acquired when a call fails.
Acquired(at) ==
  CASE at = "LoadLibrary"                            -> {}
    [] at \in {"GetProcAddress", "CoInitializeEx"}   -> {"lib"}
    [] at = "CreateVssBackupComponents"              -> {"lib", "com"}
    [] at \in {"InitializeForBackup", "SetContext"}  -> {"lib", "com", "bc"}

\* Mutant: the error path of SetContext keeps the backup components.
Freed_SetContext_keeps(at) ==
  CASE at = "LoadLibrary"                            -> {}
    [] at \in {"GetProcAddress", "CoInitializeEx"}   -> {"lib"}
    [] at = "CreateVssBackupComponents"              -> {"com", "lib"}
    [] at = "InitializeForBackup"                    -> {"bc", "com", "lib"}
    [] at = "SetContext"                             -> {"com", "lib"}

\* What the error path of that call gives back.
Freed(at) ==
  CASE at = "LoadLibrary"                            -> {}
    [] at \in {"GetProcAddress", "CoInitializeEx"}   -> {"lib"}
    [] at = "CreateVssBackupComponents"              -> {"com", "lib"}
    [] at \in {"InitializeForBackup", "SetContext"}  -> {"bc", "com", "lib"}

\* vss_init_ex returns a context.
vss_init_ex ==
  /\ held' = held \cup {"lib", "com", "bc"}
  /\ UNCHANGED <<shadow, kept>>

\* It fails.  SetContext is only called for persistent copies.
InitFails(persistent) ==
  /\ \E at \in InitSteps :
       /\ at = "SetContext" => persistent
       /\ held' = (held \cup Acquired(at)) \ Freed(at)
  /\ UNCHANGED <<shadow, kept>>

\* vss_cleanup; releasing the backup components ends their copies.
vss_cleanup ==
  /\ held' = held \ {"bc", "com", "lib"}
  /\ shadow' = {}

\* vss_create_snapshots for volumes V in VSS_CTX_BACKUP: AddToSnapshotSet may
\* fail for some of them, and GetSnapshotProperties for some of those copied.
\* The volumes in valid are the ones the caller hears of.
vss_create_snapshots(V, valid) ==
  /\ \E added \in SUBSET V :
       /\ valid \subseteq added
       /\ shadow' = added
  /\ UNCHANGED <<held, kept>>

\* It returns -1 at a call before the set is made, or DoSnapshotSet fails.
CreateFails == UNCHANGED snapVars

\* The same in VSS_CTX_CLIENT_ACCESSIBLE, for one volume.  When its properties
\* cannot be read the copy is there although the caller is told of none.
CreatePersistent ==
  /\ \E g \in Guids \ kept : kept' = kept \cup {g}
  /\ UNCHANGED <<held, shadow>>

\* vss_delete_snapshot and vss_delete_all_snapshots.  DeleteSnapshots may fail
\* when it has deleted some of them.
DeleteSnapshots(S, gone) ==
  /\ gone \subseteq S \cap kept
  /\ kept' = kept \ gone
  /\ UNCHANGED <<held, shadow>>
=============================================================================
