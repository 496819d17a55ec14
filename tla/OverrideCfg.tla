---------------------------- MODULE OverrideCfg ----------------------------
(***************************************************************************)
(* assets/override.cfg, which the program edits at every boot (source      *)
(* main.c, ensure_override_cfg and sync_override_cfg): it keeps the line   *)
(* that registers the port's helper and one block of physics settings that *)
(* follows config.txt, and leaves the player's own lines alone.  The file  *)
(* is rewritten in place, so a power cut leaves any beginning of it.       *)
(*                                                                         *)
(* A file is a sequence of lines; a file that is absent reads as an empty  *)
(* one.  Files of more than the 16 KB the code reads are left out.         *)
(***************************************************************************)
EXTENDS Naturals, Sequences, FiniteSets, SequencesExt

CONSTANTS UserLines,    \* lines the program has nothing to do with
          Files,        \* what the player may have made of the file
          MaxCuts       \* bound: power cuts

\* The lines the program knows.  OldHelper is any other line with SwitchPort=.
Helper    == "helper"
OldHelper == "old helper"
Blank     == "blank"
Header    == <<"[autoload]", Blank>>
Begin     == "begin"
End       == "end"
OldBegin  == "old begin"
OldEnd    == "old end"
Physics   == [thread |-> "thread_model", interpolation |-> "interpolation"]

PhysicsLines == {Physics[s] : s \in DOMAIN Physics}
Known == {Helper, OldHelper, Blank, "[autoload]", "[physics]", Begin, End, OldBegin, OldEnd}
           \cup PhysicsLines
Lines == UserLines \cup Known

VARIABLES
  lines,    \* the file
  want,     \* config.txt: which of the physics settings are on
  pc,       \* where the boot is
  new,      \* what fopen("wb") is being filled with
  mine,     \* history: the player's lines when the boot began
  cuts

vars == <<lines, want, pc, new, mine, cuts>>

\* The lines of f that are in S, in their order.
Among(f, S) ==
  LET among[n \in 0..Len(f)] ==
        IF n = 0 THEN <<>>
        ELSE IF f[n] \in S THEN Append(among[n - 1], f[n]) ELSE among[n - 1]
  IN  among[Len(f)]

PlayersOwn(f) == Among(f, UserLines)

Init ==
  /\ lines \in Files
  /\ want \in SUBSET DOMAIN Physics
  /\ pc = "off"
  /\ new = <<>>
  /\ mine = PlayersOwn(lines)
  /\ cuts = 0

----------------------------------------------------------------------------
(* What an earlier build, a power cut or the player may have made of the   *)
(* file: blocks hold nothing but what the program wrote into them, nothing *)
(* else sets physics, and one line at most registers a helper.             *)

\* Line i lies between a begin and the end that follows it, these included.
Inside(f, i, begin, end) ==
  \E b \in 1..i : f[b] = begin /\ \A j \in b..(i - 1) : f[j] # end

BlocksHold(f, begin, end) ==
  \A i \in DOMAIN f :
    Inside(f, i, begin, end) => f[i] \in {begin, end, Blank, "[physics]"} \cup PhysicsLines

Orderly(f) ==
  /\ f \in Seq(Lines)
  /\ BlocksHold(f, Begin, End) /\ BlocksHold(f, OldBegin, OldEnd)
  /\ \A i \in DOMAIN f : f[i] \in PhysicsLines =>
       Inside(f, i, Begin, End) \/ Inside(f, i, OldBegin, OldEnd)
  /\ \A i, j \in DOMAIN f : {f[i], f[j]} \subseteq {Helper, OldHelper} => i = j

----------------------------------------------------------------------------
Position(f, line) == CHOOSE i \in DOMAIN f : f[i] = line /\ \A j \in 1..(i - 1) : f[j] # line
From(f, i) == SubSeq(f, i, Len(f))
UpTo(f, i) == SubSeq(f, 1, i)

StripOne(f, begin, end) ==
  IF ~Contains(f, begin) THEN f
  ELSE LET b == Position(f, begin)
           rest == From(f, b)
       IN  UpTo(f, b - 1) \o (IF Contains(rest, end)
                              THEN From(rest, Position(rest, end) + 1) ELSE <<>>)

\* strip_block: every begin..end, and from a begin without an end everything.
StripBlock(f, begin, end) ==
  LET strip[n \in 0..Len(f)] == IF n = 0 THEN f ELSE StripOne(strip[n - 1], begin, end)
  IN  strip[Len(f)]

\* ensure_override_cfg: what is written, if anything is.
Ensured(f) ==
  IF Contains(f, OldHelper)
  THEN [f EXCEPT ![Position(f, OldHelper)] = Helper]
  ELSE Header \o <<Helper>> \o (IF f = <<>> THEN <<>> ELSE <<Blank>>) \o f

\* The managed block for config.txt: nothing when no setting is on.
Block ==
  IF want = {} THEN <<>>
  ELSE <<Begin, Blank, "[physics]", Blank>>
       \o (IF "thread" \in want THEN <<Physics.thread>> ELSE <<>>)
       \o (IF "interpolation" \in want THEN <<Physics.interpolation>> ELSE <<>>)
       \o <<End>>

\* sync_override_cfg's test for a file that is right already.
Matches(f) ==
  /\ ~Contains(f, OldBegin)
  /\ IF want = {} THEN ~Contains(f, Begin)
     ELSE /\ Contains(f, Begin)
          /\ LET b == From(f, Position(f, Begin))
             IN  IsPrefix(Block, b) /\ ~Contains(Tail(b), Begin)

\* The block of the first build that wrote one had its blank line outside.
WithoutLegacy(f) ==
  IF ~Contains(f, OldBegin) THEN f
  ELSE LET b == Position(f, OldBegin)
           g == IF b > 2 /\ f[b - 1] = Blank THEN RemoveAt(f, b - 1) ELSE f
       IN  StripBlock(g, OldBegin, OldEnd)

\* sync_override_cfg that appends its block to whatever is there.
SyncedByAppending(f) == WithoutLegacy(f) \o Block

Synced(f) == WithoutLegacy(StripBlock(f, Begin, End)) \o Block

----------------------------------------------------------------------------
Boot ==
  /\ pc = "off"
  /\ pc' = "ensure"
  /\ mine' = PlayersOwn(lines)
  /\ UNCHANGED <<lines, want, new, cuts>>

\* fopen("wb") empties the file, fputs and fclose fill it.
Rewrite(f, next) ==
  /\ lines' = <<>>
  /\ new' = f
  /\ pc' = next

Ensure ==
  /\ pc = "ensure"
  /\ IF Contains(lines, Helper)
     THEN pc' = "sync" /\ UNCHANGED <<lines, new>>
     ELSE Rewrite(Ensured(lines), "ensuring")
  /\ UNCHANGED <<want, mine, cuts>>

Sync ==
  /\ pc = "sync"
  /\ IF Matches(lines)
     THEN pc' = "done" /\ UNCHANGED <<lines, new>>
     ELSE Rewrite(Synced(lines), "syncing")
  /\ UNCHANGED <<want, mine, cuts>>

Written ==
  /\ pc \in {"ensuring", "syncing"}
  /\ lines' = new
  /\ pc' = IF pc = "ensuring" THEN "sync" ELSE "done"
  /\ UNCHANGED <<want, new, mine, cuts>>

\* The card keeps what had been written of the file.
PowerCut ==
  /\ pc \notin {"off", "done"}
  /\ cuts < MaxCuts
  /\ cuts' = cuts + 1
  /\ IF pc \in {"ensuring", "syncing"}
     THEN \E n \in 0..Len(new) : lines' = UpTo(new, n)
     ELSE UNCHANGED lines
  /\ pc' = "off"
  /\ UNCHANGED <<want, new, mine>>

\* The session ends, and the player sets config.txt as he likes.
Configure ==
  /\ pc = "done"
  /\ pc' = "off"
  /\ want' \in SUBSET DOMAIN Physics
  /\ new' = <<>>
  /\ UNCHANGED <<lines, mine, cuts>>

Next == Boot \/ Ensure \/ Sync \/ Written \/ PowerCut \/ Configure

Spec == Init /\ [][Next]_vars

----------------------------------------------------------------------------
(* Properties                                                              *)

Count(f, line) == Cardinality({i \in DOMAIN f : f[i] = line})

\* When the engine comes to read the file it registers the helper once and sets
\* exactly the physics that config.txt asks for, whatever an earlier build or a
\* power cut left there, and no line of the player's has gone since the boot
\* began.
ReadAsConfigured ==
  pc = "done" => /\ Count(lines, Helper) = 1
                 /\ \A s \in DOMAIN Physics :
                      Count(lines, Physics[s]) = IF s \in want THEN 1 ELSE 0
                 /\ Count(lines, OldBegin) = 0
                 /\ PlayersOwn(lines) = mine
=============================================================================
