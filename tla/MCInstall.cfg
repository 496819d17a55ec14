SPECIFICATION MCSpec
CONSTANTS
  Apks <- MCApks
  Damaged <- MCDamaged
  Room = 8
  MaxFaults = 2
  CarefulPlayer = TRUE
  Libs <- MCLibs
  Image <- MCImage
  Imported = {"malloc"}
  Wanted = {"init", "step"}
  Asked = {"step", "malloc", "nothing"}
  Threads = {"t1", "t2"}
  GameAt = 3
  NativeAt = 12
  ReserveEnd = 17
  Grain = 2
  MaxNative = 2
  Window = 3
  UserLines <- MCUserLines
  Files <- MCFiles
  MaxCuts = 2
INVARIANTS
  PlaysOneGame
  SaveIsSomewhere
  
  LoadedRight
  
PROPERTIES
  MixtureIsRepaired
CHECK_DEADLOCK FALSE
