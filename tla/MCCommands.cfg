SPECIFICATION CmdFair
CONSTANTS
  Interval <- TimerIntervals
  FirstAction = 1
  Guids = {1}
  BlockSize = 2
  MaxVolumes = 2
  MaxVss = 2
  Machines <- SomeMachines
  Skips <- SomeSkips
  Slow = {2, 4}
  SlowTime = 2
  MaxMishaps = 1
  Systems <- SomeSystems
  DriverDirs <- SomeDirs
  CommandSets <- SomeCommands
  Faults = {"open", "read", "vss", "exception", "interrupt", "kill"}
INVARIANTS ReadsInPlace ReadsInRange CopyExists DiskPartitionsSent MetadataSent RoundsReach NothingHeld ReadyMeansAnswered
PROPERTIES ScanEnds DueIsServed
