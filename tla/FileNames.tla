----------------------------- MODULE FileNames -----------------------------
(***************************************************************************)
(* The file calls of the engine (source/libc_shim.c, godot_shim.c and the  *)
(* file methods of jni_fake.c): what they make of a name and of the flags  *)
(* of open(), and how a FAT file system is made to replace on rename.      *)
(*                                                                         *)
(* On Android the program has a tree of its own under "/".  Here that tree *)
(* is the save folder, the program's directory is there too, and "there"   *)
(* is not "/".  A path is a sequence of names below the save folder, which *)
(* is <<>>.  A name the engine uses has a form and a path: relative;       *)
(* absolute, with one slash or two; full, from the card's root; of user:// *)
(* (jni_fake.c only).  What Android would have made of the same calls is   *)
(* kept beside the card.                                                   *)
(***************************************************************************)
EXTENDS Naturals, Sequences

CONSTANTS Dirs, Files,     \* paths, a directory before what is in it
          Regions,         \* "eu", "us", "jp", "en"
          MaxLength,       \* bound: writes to one file
          MaxCached,       \* DIRCACHE_N
          SourceThere      \* a rename names a file that is there

VARIABLES
  dirs, data,      \* on the card: directories, and each file's content
  cwd,             \* the directory the process is in
  cache,           \* s_dircache: directory names and whether they were there
  sdirs, sdata,    \* on Android: the same
  scwd

card == <<dirs, data>>
android == <<sdirs, sdata, scwd>>
vars == <<card, cwd, cache, android>>

Absent == <<"absent">>
Missing == <<"/">>        \* a directory outside the save folder
Forms == {"relative", "absolute", "slashes", "full", "user"}
Names(P) == [form : Forms, at : P]
DirOf(p) == SubSeq(p, 1, Len(p) - 1)
IsIn(S, p) == p = <<>> \/ DirOf(p) \in S

Init ==
  /\ dirs = {<<>>} /\ data = [f \in Files |-> Absent] /\ cwd = <<>> /\ cache = <<>>
  /\ sdirs = dirs /\ sdata = data /\ scwd = cwd

----------------------------------------------------------------------------
(* Names                                                                   *)

\* sandbox_path, resolve_gd_path: leading slashes are one; a name outside
\* /switch, /dev and /proc is put below the save folder; user:// is the folder.
Real(n) == IF n.form = "relative" THEN cwd \o n.at ELSE n.at

\* The same name on Android, where a full name does not occur.
Meant(n) == IF n.form = "relative" THEN scwd \o n.at ELSE n.at

\* Newlib's chdir, on the name as it is.
RealUnlessAbsolute(n) == IF n.form \in {"absolute", "slashes"} THEN Missing ELSE Real(n)

\* Bits of open()'s flags that the engine was compiled with, and newlib's.
Bionic == [creat |-> 64, excl |-> 128, trunc |-> 512, append |-> 1024]
Newlib == [creat |-> 512, excl |-> 2048, trunc |-> 1024, append |-> 8]
PassedOn(word) == word

\* oflags_bionic_to_newlib
Translated(word) == {Newlib[k] : k \in {b \in DOMAIN Bionic : Bionic[b] \in word}}

----------------------------------------------------------------------------
(* The calls.  Each is made on the card and, as a whole, on Android.       *)

\* mkdir_fake, makeDir
MakeDir(n) ==
  /\ Real(n) \in Dirs /\ Meant(n) \in Dirs
  /\ dirs' = IF IsIn(dirs, Real(n)) THEN dirs \cup {Real(n)} ELSE dirs
  /\ sdirs' = IF IsIn(sdirs, Meant(n)) THEN sdirs \cup {Meant(n)} ELSE sdirs
  /\ UNCHANGED <<data, sdata, cwd, scwd, cache>>

ChangeDirUnsandboxed(n) ==
  /\ n.form # "user" /\ n.at \in Dirs /\ Meant(n) \in Dirs
  /\ cwd' = IF RealUnlessAbsolute(n) \in dirs THEN RealUnlessAbsolute(n) ELSE cwd
  /\ scwd' = IF Meant(n) \in sdirs THEN Meant(n) ELSE scwd
  /\ UNCHANGED <<card, sdirs, sdata, cache>>

\* chdir_fake; the engine's directory is seldom the one getcwd_fake reports.
ChangeDir(n) ==
  /\ n.form # "user" /\ n.at \in Dirs /\ Meant(n) \in Dirs
  /\ cwd' = IF Real(n) \in dirs THEN Real(n) ELSE cwd
  /\ scwd' = IF Meant(n) \in sdirs THEN Meant(n) ELSE scwd
  /\ UNCHANGED <<card, sdirs, sdata, cache>>

\* rmdir_fake, and the JNI remove of a directory: one that is empty.
RemoveDir(n) ==
  LET Empty(S, D, p) == \A q \in S \cup {f \in Files : D[f] # Absent} :
                          q # <<>> => DirOf(q) # p
  IN /\ Real(n) \in Dirs \ {<<>>, cwd} /\ Meant(n) \in Dirs \ {<<>>, scwd}
     /\ dirs' = IF Empty(dirs, data, Real(n)) THEN dirs \ {Real(n)} ELSE dirs
     /\ sdirs' = IF Empty(sdirs, sdata, Meant(n)) THEN sdirs \ {Meant(n)} ELSE sdirs
     /\ UNCHANGED <<data, sdata, cwd, scwd, cache>>

\* unlink_fake, remove_fake, the JNI remove of a file
Remove(n) ==
  /\ Real(n) \in Files /\ Meant(n) \in Files
  /\ data' = [data EXCEPT ![Real(n)] = Absent]
  /\ sdata' = [sdata EXCEPT ![Meant(n)] = Absent]
  /\ UNCHANGED <<dirs, sdirs, cwd, scwd, cache>>

\* open() with flags of one libc's, a write, close(): a file's content after.
Written(S, p, old, word, bit) ==
  LET kept == IF bit["trunc"] \in word \/ old = Absent THEN <<>> ELSE old
  IN IF \/ ~IsIn(S, p)
        \/ old = Absent /\ bit["creat"] \notin word
        \/ old # Absent /\ {bit["excl"], bit["creat"]} \subseteq word
     THEN old
     ELSE IF bit["append"] \in word \/ kept = <<>> THEN Append(kept, "w") ELSE kept

\* open_fake, openat_fake.  fopen's and fileOpen's modes are words both libcs
\* know: they come to the same.
Write(n, word) ==
  /\ Real(n) \in Files /\ Meant(n) \in Files
  /\ data[Real(n)] # Absent => Len(data[Real(n)]) < MaxLength
  /\ data' = [data EXCEPT ![Real(n)] = Written(dirs, Real(n), @, Translated(word), Newlib)]
  /\ sdata' = [sdata EXCEPT ![Meant(n)] = Written(sdirs, Meant(n), @, word, Bionic)]
  /\ UNCHANGED <<dirs, sdirs, cwd, scwd, cache>>

\* The card's rename does not replace.
Renamed(D, S, p, q) ==
  IF D[p] = Absent \/ ~IsIn(S, q) \/ D[q] # Absent THEN D
  ELSE [D EXCEPT ![q] = D[p], ![p] = Absent]

\* Android's does.
Replaced(D, S, p, q) ==
  IF D[p] = Absent \/ ~IsIn(S, q) THEN D ELSE [D EXCEPT ![q] = D[p], ![p] = Absent]

\* rename_fake and the JNI rename: after a failure a destination that is there
\* is removed and the rename made again, whatever the failure was.
Rename(n, m) ==
  LET p == Real(n)
      q == Real(m)
      once == Renamed(data, dirs, p, q)
  IN /\ p # q /\ p \in Files /\ q \in Files /\ Meant(n) \in Files /\ Meant(m) \in Files
     /\ SourceThere => data[p] # Absent
     /\ data' = IF once # data \/ data[q] = Absent THEN once
                ELSE Renamed([data EXCEPT ![q] = Absent], dirs, p, q)
     /\ sdata' = Replaced(sdata, sdirs, Meant(n), Meant(m))
     /\ UNCHANGED <<dirs, sdirs, cwd, scwd, cache>>

----------------------------------------------------------------------------
(* fopen_fake for reading                                                  *)

\* The directory part of a name once it is rebased, none without a slash.  The
\* cache compares these texts: one of a relative name is the same text in
\* every directory.
Text(n) ==
  IF n.form = "relative" THEN <<"here", DirOf(n.at)>> ELSE <<"save", DirOf(n.at)>>
NoSlash(n) == n.form = "relative" /\ Len(n.at) = 1

Known(n) == {i \in DOMAIN cache : cache[i].text = Text(n)}
DirThere(n) == IsIn(dirs, Real(n))

\* dir_exists_cached
SaidToBeThere(n) ==
  NoSlash(n) \/ IF Known(n) = {} THEN DirThere(n) ELSE \A i \in Known(n) : cache[i].there

\* fopen_region_fallback: the file in a folder of one of the regions.
Regional(p) == {DirOf(p) \o <<r, p[Len(p)]>> : r \in Regions} \cap Files

\* What it opens: a path, or none.
Opens(n) ==
  IF ~SaidToBeThere(n) THEN {}
  ELSE IF data[Real(n)] # Absent THEN {Real(n)}
  ELSE {q \in Regional(Real(n)) : data[q] # Absent}

\* The call; the directory is looked up once.
Read(n) ==
  /\ n.form # "user" /\ Real(n) \in Files /\ Meant(n) \in Files
  /\ cache' = IF NoSlash(n) \/ Known(n) # {} \/ Len(cache) = MaxCached THEN cache
              ELSE Append(cache, [text |-> Text(n), there |-> DirThere(n)])
  /\ UNCHANGED <<card, android, cwd>>

----------------------------------------------------------------------------

Words == {{64, 512}, {64, 1024}, {64, 128}, {1024}, {512}, {}}

Next ==
  \/ \E n \in Names(Dirs) : MakeDir(n) \/ ChangeDir(n) \/ RemoveDir(n)
  \/ \E n \in Names(Files) :
       \/ Remove(n) \/ Read(n)
       \/ \E word \in Words : Write(n, word)
       \/ \E m \in Names(Files) : Rename(n, m)

Spec == Init /\ [][Next]_vars

----------------------------------------------------------------------------
(* Properties                                                              *)

\* The save folder and the process's directory are what the calls would have
\* made of them on Android: a directory that was made can be entered, under
\* whatever form of its name, nothing is truncated that was to be appended to,
\* and a file moved over another takes its place.
AsOnAndroid == <<dirs, data, cwd>> = <<sdirs, sdata, scwd>>

\* "read probes into a non-existent directory can't succeed -> skip the SD hit"
\* (libc_shim.c): a file that is there is found under each of its names.
FoundWhenThere ==
  \A n \in Names(Files) :
    n.form # "user" /\ Real(n) \in Files /\ data[Real(n)] # Absent => Opens(n) = {Real(n)}
=============================================================================
