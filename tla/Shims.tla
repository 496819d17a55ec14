------------------------------- MODULE Shims -------------------------------
(***************************************************************************)
(* Those of the shims that the running engine calls whose tables and       *)
(* threads can be any number: its threads, the C11 objects of the driver,  *)
(* descriptors and file names, a connection, JNI references and files, the *)
(* log, and what is done later.  They share no state; a component whose    *)
(* variable has a name that another one uses is given another here.        *)
(***************************************************************************)
EXTENDS Integers, Sequences, FiniteSets

CONSTANTS
  Threads,                                   \* that call the shims
  MaxThreads, MaxDetachable, MaxGame,        \* ThreadTable
  Recursive, PlainMutexes, Conds, Order,
  Chunk, Chunks, MaxDepth,                   \* C11Pool
  Readers, Fds, Archives, ArchiveSize, Page,
  RaMin, RaMax, MaxTracked,                  \* Descriptors
  GameDirs, GameFiles, Regions,
  MaxLength, MaxCached,                      \* FileNames
  MaxBytes,                                  \* Sockets
  Blocks, MaxLocals, MaxFrames,              \* LocalRefs
  Packs, PlainFiles, Size, MaxFiles,
  PoolSize, MaxAssets, MaxDirs, Folders,
  Entries,                                   \* OpenFiles
  Main, Others, RingLines, ChunkLines, Keep, MaxLines,   \* LogRing
  DialogSlots, Kinds, Callbacks, Length, MaxAsked, MaxTime   \* Deferred

\* The bounds are numbers, and what stands for none is none of the others.
ASSUME TableAssumption ==
  MaxThreads \in Nat /\ MaxDetachable \in Nat /\ MaxGame \in Nat
ASSUME PoolAssumption ==
  /\ Chunk \in Nat \ {0} /\ Chunks \in Nat \ {0} /\ MaxDepth \in Nat \ {0}
  /\ Recursive \cap PlainMutexes = {}
  /\ "" \notin Recursive \cup PlainMutexes /\ "nobody" \notin Threads
\* The libc's numbers are naturals; an archive is neither a socket nor loose.
ASSUME DescriptorAssumption ==
  /\ Readers \subseteq Threads /\ Fds \subseteq Nat
  /\ {"closed", "socket", "loose"} \cap Archives = {}
  /\ ArchiveSize \in Nat /\ MaxTracked \in Nat
  /\ Page \in Nat \ {0} /\ RaMin \in Nat \ {0} /\ RaMax \in Nat \ {0}
ASSUME NetAssumption == MaxBytes \in Nat
\* The game has one pack: the pool does not tell two apart.
ASSUME FileAssumption ==
  /\ \A p, r \in Packs : p = r
  /\ Size \in [Packs \cup PlainFiles -> Nat]
  /\ Entries \in [Folders -> Seq(Packs \cup PlainFiles \cup Folders)]
  /\ "none" \notin Packs \cup PlainFiles \cup Folders
ASSUME LogAssumption ==
  /\ Main \notin Others
  /\ RingLines \in Nat /\ ChunkLines \in Nat /\ Keep \in Nat /\ MaxLines \in Nat
ASSUME LaterAssumption ==
  DialogSlots \in Nat \ {0} /\ Length \in Nat /\ MaxAsked \in Nat /\ MaxTime \in Nat

VARIABLES
  stage, id, fate, freed, dt, game, tableAt, then, victim,      \* ThreadTable
  handle, chunks, next, high, used, type, owner, depth, locked,
  waiters, c11Pc, holds,                                        \* C11Pool
  is, pos, slots, marks, fdPc, fdMine, fdView,                  \* Descriptors
  dirs, data, cwd, cache, sdirs, sdata, scwd,                   \* FileNames
  addresses, counts, host, nonblocking, inbox, fin, sent, room,
  phase, why, got, put,                                         \* Sockets
  locals, stale, frames, alive, twice, scopes, globals,         \* LocalRefs
  files, pool, poolPath, poolSize, resident, declined, assets,
  filePc, fileMine, fileView, folders, listed,                  \* OpenFiles
  ring, dropped, seen, suppressed, reported, eager, file, told,
  logAt, flush, hands, said, printed, lost, skipped, earlier,
  statsOpen, statsQ, statsAt, statsHands, statsFile, statsAsked,
  statsTaken,                                                   \* LogRing
  dialogQ, dialogHead, dialogTail, vibReady, motor, stopTick,
  tick, gameThread, mainThread, focused, asked, answered,
  turnedAway, crossed                                           \* Deferred

tableVars == <<stage, id, fate, freed, dt, game, tableAt, then, victim>>
c11Vars == <<handle, chunks, next, high, used, type, owner, depth, locked,
             waiters, c11Pc, holds>>
fdVars == <<is, pos, slots, marks, fdPc, fdMine, fdView>>
nameVars == <<dirs, data, cwd, cache, sdirs, sdata, scwd>>
socketVars == <<addresses, counts, host, nonblocking, inbox, fin, sent, room,
                phase, why, got, put>>
refVars == <<locals, stale, frames, alive, twice, scopes, globals>>
fileVars == <<files, pool, poolPath, poolSize, resident, declined, assets,
              filePc, fileMine, fileView, folders, listed>>
logVars == <<ring, dropped, seen, suppressed, reported, eager, file, told,
             logAt, flush, hands, said, printed, lost, skipped, earlier,
             statsOpen, statsQ, statsAt, statsHands, statsFile, statsAsked,
             statsTaken>>
deferredVars == <<dialogQ, dialogHead, dialogTail, vibReady, motor, stopTick,
                  tick, gameThread, mainThread, focused, asked, answered,
                  turnedAway, crossed>>

\* The platform of ThreadTable gives no id out twice.
Table == INSTANCE ThreadTable WITH
  Callers <- Threads, IdsReused <- FALSE, at <- tableAt

C11 == INSTANCE C11Pool WITH Plain <- PlainMutexes, pc <- c11Pc

Fd == INSTANCE Descriptors WITH
  Size <- ArchiveSize, MaxSlots <- MaxTracked, pc <- fdPc, mine <- fdMine,
  view <- fdView

\* The engine of FileNames renames files that are there.
Name == INSTANCE FileNames WITH
  Dirs <- GameDirs, Files <- GameFiles, SourceThere <- TRUE

Net == INSTANCE Sockets

\* The engine of LocalRefs keeps to its innermost frame.
Refs == INSTANCE LocalRefs WITH Refs <- Blocks, OwnFrameOnly <- TRUE

File == INSTANCE OpenFiles WITH
  Plain <- PlainFiles, pc <- filePc, mine <- fileMine, view <- fileView,
  dirs <- folders

Log == INSTANCE LogRing WITH
  Ring <- RingLines, Chunk <- ChunkLines, at <- logAt

Later == INSTANCE Deferred WITH
  Slots <- DialogSlots, Called <- Callbacks, q <- dialogQ, head <- dialogHead,
  tail <- dialogTail, ready <- vibReady, now <- tick, game <- gameThread,
  main <- mainThread, given <- answered, refused <- turnedAway

----------------------------------------------------------------------------
\* The properties of the components, which say what they are about.
ReapedRight == Table!ReapedRight
NeverBlocks == Table!NeverBlocks
Exclusive == C11!Exclusive
ReadsLikeAFile == Fd!ReadsLikeAFile
AsOnAndroid == Name!AsOnAndroid
GivenUpRightly == Net!GivenUpRightly
AliveWhileUsed == Refs!AliveWhileUsed
HandlesReadTheirFile == File!HandlesReadTheirFile
EveryLineOnce == Log!EveryLineOnce
DoneLater == Later!DoneLater
=============================================================================
