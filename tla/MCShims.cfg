SPECIFICATION MCSpec
CONSTANTS
  Threads = {"t", "u"}
  MaxThreads = 3
  MaxDetachable = 1
  MaxGame = 1
  Recursive = {"r"}
  PlainMutexes = {"m"}
  Conds = {"c", "d"}
  Order <- MCOrder
  Chunk = 1
  Chunks = 3
  MaxDepth = 2
  Readers = {"t"}
  Fds = {3, 4}
  Archives = {"a", "b"}
  ArchiveSize = 3
  Page = 2
  RaMin = 1
  RaMax = 2
  MaxTracked = 1
  GameDirs <- MCDirs
  GameFiles <- MCFiles
  Regions = {"eu"}
  MaxLength = 2
  MaxCached = 2
  MaxBytes = 2
  Blocks = {1, 2, 3}
  MaxLocals = 2
  MaxFrames = 2
  Packs = {"pack"}
  PlainFiles = {"plain"}
  Size <- MCSize
  MaxFiles = 2
  PoolSize = 1
  MaxAssets = 2
  MaxDirs = 2
  Folders = {"top", "sub"}
  Entries <- MCEntries
  Main = "main"
  Others = {"e"}
  RingLines = 2
  ChunkLines = 2
  Keep = 1
  MaxLines = 4
  DialogSlots = 3
  Kinds = {"plain", "file"}
  Callbacks = {"file"}
  Length = 1
  MaxAsked = 3
  MaxTime = 3
INVARIANTS
  
  Exclusive
  
  
  GivenUpRightly
  EveryLineOnce
  
  HandlesReadTheirFile
  
CHECK_DEADLOCK FALSE
