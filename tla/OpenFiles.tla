----------------------------- MODULE OpenFiles -----------------------------
(***************************************************************************)
(* The files the engine opens through Java (source/jni_fake.c, the Godot   *)
(* FileAccessHandler; source/godot_shim.c, the asset manager).  A handle   *)
(* is the number of a slot; a file of a pack is parked when it is closed   *)
(* and handed out again at the next open, because the engine opens the     *)
(* pack for every resource in it.  An asset is a file of its own, or for   *)
(* the first pack that fits a view onto a copy of it in memory.            *)
(*                                                                         *)
(* A file at a position is [path, pos]; what reading it yields follows     *)
(* from those two.                                                         *)
(***************************************************************************)
EXTENDS Integers, Sequences, FiniteSets

CONSTANTS Threads,
          Folders,          \* paths of directories
          Entries,          \* of each, in the order they are listed
          MaxDirs,          \* MAX_GD_DIRS
          Packs, Plain,     \* paths: ".pck" files, and others
          Size,             \* of each
          MaxFiles,         \* MAX_GD_FILES
          PoolSize,         \* PCK_POOL_N
          MaxAssets         \* bound: assets open at once

Paths == Packs \cup Plain
Ids == 1..MaxFiles
Pooled == 1..PoolSize
AssetIds == 1..MaxAssets
NoPath == "none"
NoFile == [path |-> NoPath, pos |-> 0]

VARIABLES
  files, dirs,             \* gd_files, gd_dirs
  pool, poolPath, poolSize,
  resident, declined,      \* s_pack_path, s_pack_declined
  assets,
  pc,                      \* each thread: the file in its hands, its size
  mine, view,              \* the handles of each; where it left each of them
  listed                   \* of each directory: what its owner was given

jni == <<files, pool, poolPath, poolSize>>
asset == <<resident, declined, assets>>
dir == <<dirs, listed>>
vars == <<jni, asset, pc, mine, view, dir>>

Idle == [path |-> NoPath, file |-> NoFile, known |-> -1]
FreeSlot == [file |-> NoFile, size |-> 0, eof |-> FALSE, poolable |-> FALSE]
FreeDir == [path |-> NoPath, left |-> <<>>, current |-> NoPath, isDir |-> FALSE]
Handles == {<<"jni", i>> : i \in Ids} \cup {<<"asset", i>> : i \in AssetIds}

Init ==
  /\ files = [i \in Ids |-> FreeSlot]
  /\ pool = [k \in Pooled |-> NoFile] /\ poolPath = NoPath /\ poolSize = -1
  /\ resident = NoPath /\ declined = FALSE
  /\ assets = [i \in AssetIds |-> [file |-> NoFile, mem |-> FALSE]]
  /\ pc = [t \in Threads |-> Idle]
  /\ dirs = [i \in 1..MaxDirs |-> FreeDir] /\ listed = [i \in 1..MaxDirs |-> <<>>]
  /\ mine = [t \in Threads |-> {}] /\ view = [h \in Handles |-> NoFile]

First(S) == {i \in S : \A j \in S : i <= j}
Least(a, b) == IF a < b THEN a ELSE b

----------------------------------------------------------------------------
(* gd_file_open                                                            *)

\* As it was parked.
TakeAsIs(t, p) ==
  LET k == First({j \in Pooled : pool[j] # NoFile})
      parked == p \in Packs /\ poolPath = p /\ k # {}
  IN /\ pc[t] = Idle
     /\ pool' = [j \in Pooled |-> IF parked /\ j \in k THEN NoFile ELSE pool[j]]
     /\ pc' = [pc EXCEPT ![t] =
                 [path |-> p, file |-> IF parked THEN pool[CHOOSE j \in k : TRUE]
                                       ELSE [path |-> p, pos |-> 0],
                  known |-> IF parked THEN poolSize ELSE -1]]
     /\ UNCHANGED <<files, poolPath, poolSize, asset, mine, view, dir>>

\* From the pool, if it is of this path: rewound, and of the size that is known.
Take(t, p) ==
  LET k == First({j \in Pooled : pool[j] # NoFile})
      parked == p \in Packs /\ poolPath = p /\ k # {}
  IN /\ pc[t] = Idle
     /\ pool' = [j \in Pooled |-> IF parked /\ j \in k THEN NoFile ELSE pool[j]]
     /\ pc' = [pc EXCEPT ![t] =
                 [path |-> p, file |-> [path |-> IF parked THEN pool[CHOOSE j \in k : TRUE].path
                                                 ELSE p, pos |-> 0],
                  known |-> IF parked THEN poolSize ELSE -1]]
     /\ UNCHANGED <<files, poolPath, poolSize, asset, mine, view, dir>>

\* A slot of the table; without one the file is closed.
Enter(t) ==
  LET i == First({j \in Ids : files[j].file = NoFile})
      new == [file |-> pc[t].file, eof |-> FALSE, poolable |-> pc[t].path \in Packs,
              size |-> IF pc[t].known >= 0 THEN pc[t].known ELSE Size[pc[t].file.path]]
  IN /\ pc[t] # Idle
     /\ files' = [j \in Ids |-> IF j \in i THEN new ELSE files[j]]
     /\ IF i # {} /\ pc[t].known < 0 /\ new.poolable
        THEN poolSize' = new.size /\ poolPath' = pc[t].path
        ELSE UNCHANGED <<poolSize, poolPath>>
     /\ mine' = [mine EXCEPT ![t] = @ \cup {<<"jni", j>> : j \in i}]
     /\ view' = [h \in Handles |-> IF \E j \in i : h = <<"jni", j>>
                                   THEN [path |-> pc[t].path, pos |-> 0] ELSE view[h]]
     /\ pc' = [pc EXCEPT ![t] = Idle]
     /\ UNCHANGED <<pool, asset, dir>>

\* gd_file_close: a pack's file is parked where there is room.
Close(t, i) ==
  LET k == First({j \in Pooled : pool[j] = NoFile})
  IN /\ pc[t] = Idle /\ <<"jni", i>> \in mine[t]
     /\ pool' = [j \in Pooled |-> IF files[i].poolable /\ j \in k THEN files[i].file ELSE pool[j]]
     /\ files' = [files EXCEPT ![i] = FreeSlot]
     /\ mine' = [mine EXCEPT ![t] = @ \ {<<"jni", i>>}]
     /\ UNCHANGED <<poolPath, poolSize, asset, pc, view, dir>>

----------------------------------------------------------------------------
(* AAssetManager_open                                                      *)

\* load_pack: once; a refusal, for want of memory or by setting, is for good.
Load(p) ==
  \/ resident # NoPath /\ UNCHANGED <<resident, declined>>
  \/ resident = NoPath /\ declined /\ UNCHANGED <<resident, declined>>
  \/ resident = NoPath /\ ~declined /\ resident' = p /\ UNCHANGED declined
  \/ resident = NoPath /\ ~declined /\ declined' = TRUE /\ UNCHANGED resident

OpenAsset(t, p) ==
  LET i == First({j \in AssetIds : assets[j].file = NoFile})
  IN /\ pc[t] = Idle /\ i # {}
     /\ IF p \in Packs THEN Load(p) ELSE UNCHANGED <<resident, declined>>
     /\ assets' = [j \in AssetIds |-> IF j \in i
                     THEN [file |-> [path |-> p, pos |-> 0], mem |-> p = resident'] ELSE assets[j]]
     /\ mine' = [mine EXCEPT ![t] = @ \cup {<<"asset", j>> : j \in i}]
     /\ view' = [h \in Handles |-> IF \E j \in i : h = <<"asset", j>>
                                   THEN [path |-> p, pos |-> 0] ELSE view[h]]
     /\ UNCHANGED <<jni, pc, dir>>

\* AAsset_close; the copy in memory stays.
CloseAsset(t, i) ==
  /\ pc[t] = Idle /\ <<"asset", i>> \in mine[t]
  /\ assets' = [assets EXCEPT ![i] = [file |-> NoFile, mem |-> FALSE]]
  /\ mine' = [mine EXCEPT ![t] = @ \ {<<"asset", i>>}]
  /\ UNCHANGED <<jni, resident, declined, pc, view, dir>>

----------------------------------------------------------------------------
(* Reading and seeking                                                     *)

\* fread, and AAsset_read of the copy, which ends where the file does.
After(f, n) == IF f.pos >= Size[f.path] THEN f ELSE [f EXCEPT !.pos = Least(@ + n, Size[f.path])]

\* fileRead: what was not there to read is remembered.
Read(t, i, n) ==
  LET f == files[i].file
  IN /\ pc[t] = Idle /\ <<"jni", i>> \in mine[t]
     /\ files' = [files EXCEPT ![i].file = After(f, n),
                               ![i].eof = @ \/ After(f, n).pos < f.pos + n]
     /\ view' = [view EXCEPT ![<<"jni", i>>] = After(@, n)]
     /\ UNCHANGED <<pool, poolPath, poolSize, asset, pc, mine, dir>>

ReadAsset(t, i, n) ==
  /\ pc[t] = Idle /\ <<"asset", i>> \in mine[t]
  /\ assets' = [assets EXCEPT ![i].file = After(@, n)]
  /\ view' = [view EXCEPT ![<<"asset", i>>] = After(@, n)]
  /\ UNCHANGED <<jni, resident, declined, pc, mine, dir>>

\* fileSeek, fileSeekFromEnd
Seek(t, i, fromEnd, n) ==
  LET to(f) == [f EXCEPT !.pos = IF fromEnd THEN Size[f.path] - n ELSE n]
  IN /\ pc[t] = Idle /\ <<"jni", i>> \in mine[t] /\ n \in 0..Size[view[<<"jni", i>>].path]
     /\ files' = [files EXCEPT ![i].file = to(@), ![i].eof = FALSE]
     /\ view' = [view EXCEPT ![<<"jni", i>>] = to(@)]
     /\ UNCHANGED <<pool, poolPath, poolSize, asset, pc, mine, dir>>

\* AAsset_seek, from the start: the copy refuses what is past its end.
SeekAsset(t, i, n) ==
  LET f == assets[i].file
      refused == assets[i].mem /\ n > Size[f.path]
  IN /\ pc[t] = Idle /\ <<"asset", i>> \in mine[t]
     /\ assets' = [assets EXCEPT ![i].file.pos = IF refused THEN @ ELSE n]
     /\ view' = [view EXCEPT ![<<"asset", i>>].pos = IF refused THEN @ ELSE n]
     /\ UNCHANGED <<jni, resident, declined, pc, mine, dir>>

----------------------------------------------------------------------------
(* Directories                                                             *)

\* gd_dir_open: a slot, or the directory is closed again.  What the slot's last
\* entry was stays until the first one is read.
OpenDir(t, p) ==
  LET i == First({j \in 1..MaxDirs : dirs[j].path = NoPath})
  IN /\ dirs' = [j \in 1..MaxDirs |-> IF j \in i
                    THEN [dirs[j] EXCEPT !.path = p, !.left = Entries[p], !.current = NoPath]
                    ELSE dirs[j]]
     /\ listed' = [j \in 1..MaxDirs |-> IF j \in i THEN <<>> ELSE listed[j]]
     /\ mine' = [mine EXCEPT ![t] = @ \cup {<<"dir", j>> : j \in i}]
     /\ UNCHANGED <<jni, asset, pc, view>>

\* gd_dir_next: at the end, nothing is changed.
NextEntry(t, i) ==
  LET d == dirs[i]
  IN /\ <<"dir", i>> \in mine[t]
     /\ IF d.left = <<>> THEN UNCHANGED dir
        ELSE /\ dirs' = [dirs EXCEPT ![i].left = Tail(@), ![i].current = Head(d.left),
                                     ![i].isDir = Head(d.left) \in Folders]
             /\ listed' = [listed EXCEPT ![i] = Append(@, Head(d.left))]
     /\ UNCHANGED <<jni, asset, pc, mine, view>>

\* gd_dir_close
CloseDir(t, i) ==
  /\ <<"dir", i>> \in mine[t]
  /\ dirs' = [dirs EXCEPT ![i].path = NoPath, ![i].left = <<>>]
  /\ mine' = [mine EXCEPT ![t] = @ \ {<<"dir", i>>}]
  /\ UNCHANGED <<jni, asset, pc, view, listed>>

----------------------------------------------------------------------------

Listing(t) ==
  \/ \E p \in Folders : OpenDir(t, p)
  \/ \E i \in 1..MaxDirs : NextEntry(t, i) \/ CloseDir(t, i)

Jni(t) ==
  \/ \E p \in Paths : Take(t, p)
  \/ Enter(t)
  \/ \E i \in Ids : Close(t, i) \/ Read(t, i, 2) \/ Seek(t, i, FALSE, 1) \/ Seek(t, i, TRUE, 0)

Asset(t) ==
  \/ \E p \in Paths : OpenAsset(t, p)
  \/ \E i \in AssetIds : CloseAsset(t, i) \/ ReadAsset(t, i, 2) \/ SeekAsset(t, i, 3)

Next == \E t \in Threads : Jni(t) \/ Asset(t) \/ Listing(t)
Spec == Init /\ [][Next]_vars

----------------------------------------------------------------------------
(* Properties                                                              *)

\* What the owner of a directory was given, and the entry it asks about.
ListedSoFar(i) ==
  /\ listed[i] \o dirs[i].left = Entries[dirs[i].path]
  /\ listed[i] # <<>> =>
       LET last == listed[i][Len(listed[i])]
       IN dirs[i].current = last /\ dirs[i].isDir = (last \in Folders)

\* Whatever was parked and handed out before, by whichever thread: a handle is
\* of the file it was opened for, at the position its owner left it, with that
\* file's size; no file is in two hands.
HandlesReadTheirFile ==
  /\ \A t \in Threads : \A h \in mine[t] :
       /\ h[1] = "jni" => /\ files[h[2]].file = view[h]
                          /\ files[h[2]].size = Size[view[h].path]
       /\ h[1] = "asset" => assets[h[2]].file = view[h]
       /\ h[1] = "dir" => ListedSoFar(h[2])
  /\ \A t, u \in Threads : t # u => mine[t] \cap mine[u] = {}
  /\ poolPath # NoPath => \A k \in Pooled : pool[k] # NoFile => pool[k].path = poolPath
=============================================================================
