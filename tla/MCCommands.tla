----------------------------- MODULE MCCommands -----------------------------
EXTENDS Commands
Part(b, l, letter, c) == [base |-> b, len |-> l, letter |-> letter, copy |-> c]
Disk(s, ps) == [usable |-> TRUE, size |-> s, parts |-> ps]
NoDisk == [usable |-> FALSE, size |-> 0, parts |-> << >>]

\* A system partition, and C: behind it.
TwoParts == <<Disk(11, <<Part(2, 2, FALSE, 2), Part(4, 0, FALSE, 0), Part(4, 5, TRUE, 5)>>)>>
\* C: at the front, and a partition that ends behind the disk.
Beyond == <<NoDisk, Disk(9, <<Part(1, 4, TRUE, 4), Part(5, 9, FALSE, 9)>>)>>
\* A small disk, and a volume that goes on elsewhere.
Small == <<Disk(3, <<Part(0, 3, FALSE, 3)>>), Disk(8, <<Part(2, 4, TRUE, 9), Part(6, 2, TRUE, 1)>>)>>

SomeMachines == {TwoParts, Beyond, Small}
SomeSkips == {[disks |-> {}, parts |-> {}], [disks |-> {1}, parts |-> {<<2, 1>>}]}
TimerIntervals == <<2, 2, 1, 2>>

Folder(s, infs) == [score |-> s, infs |-> infs]
Whole == <<Folder(0, {}), Folder(100, {"own", "other"})>>

\* All drivers; the storage driver's INF in the wrong folder, no display driver.
SomeDirs ==
  {[n \in DriverNames |-> Whole],
   [n \in DriverNames |->
      CASE n = "viostor" -> <<Folder(20, {"own"}), Folder(50, {"other"})>>
        [] n = "netkvm"  -> Whole
        [] n = "qxldod"  -> << >>],
   [n \in DriverNames |-> <<Folder(0, {"own"})>>]}

\* A good system, and one thing wrong with it at a time.
Good == [admin |-> TRUE, version |-> "supported", service |-> "stopped",
         free |-> "enough", firmware |-> "uefi"]
SomeSystems ==
  {Good} \cup {[Good EXCEPT !.admin = FALSE]}
         \cup {[Good EXCEPT !.version = "old"], [Good EXCEPT !.service = "missing"]}
         \cup {[Good EXCEPT !.free = v] : v \in {"none", "low"}}
         \cup {[Good EXCEPT !.firmware = "unknown"]}

JustMigrate == {{"migrate"}}
JustDrivers == {{"inject_driver", "check_drivers", "checkenv"}}

\* The commands that read disks, and those about drivers.
SomeCommands == {VssCommands} \cup JustDrivers
=============================================================================
