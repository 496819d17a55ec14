----------------------------- MODULE MCInstall -----------------------------
(* Before the engine runs: the installer and the save files, the edits of   *)
(* override.cfg, the loader.  They share no state; a behaviour of this      *)
(* module is a behaviour of one of them, which `component' names.           *)
EXTENDS ApkInstall, Booting

VARIABLE component

----------------------------------------------------------------------------
MCApks == 1..3
MCDamaged == {2}

MCUserLines == {"u", "v"}
Chunks ==
  { <<"u">>, <<"v">>, <<"helper">>, <<"old helper">>, <<"blank">>,
    <<"begin", "blank", "[physics]", "blank", "thread_model", "end">>,
    <<"blank", "old begin", "thread_model", "old end">> }
TwoHelpers(f) ==
  \E i, j \in DOMAIN f : i # j /\ {f[i], f[j]} \subseteq {"helper", "old helper"}
MCFiles ==
  { f \in { <<>> } \cup Chunks \cup { a \o b : a, b \in Chunks }
            \cup { a \o b \o <<"v">> : a, b \in Chunks } : ~TwoHelpers(f) }

\* Two threads, three native modules for two slots, of which the last does not
\* fit into what the first leaves; a RELR table with both kinds of entry.
MCLibs == {"a", "b", "c"}
At0(n) == [even |-> TRUE, at |-> n, bits |-> {}]
Bits(S) == [even |-> FALSE, at |-> 0, bits |-> S]
MCImage ==
  [m \in {"libc++_shared.so", "libgodot_android.so"} \cup MCLibs |->
    CASE m = "libc++_shared.so" ->
           [size |-> 2, good |-> TRUE, code |-> {1}, exports |-> {"throw"},
            strong |-> {"malloc", "terminate"}, weak |-> {"hook"},
            rela |-> {1}, relr |-> <<>>, pointers |-> {1}]
      [] m = "libgodot_android.so" ->
           [size |-> 9, good |-> TRUE, code |-> {1, 2},
            exports |-> {"step", "terminate"},
            strong |-> {"throw", "malloc"}, weak |-> {"hook", "trace"},
            rela |-> {8}, relr |-> <<At0(0), Bits({1, 3}), Bits({2}), At0(7)>>,
            pointers |-> {0, 1, 3, 5, 7, 8}]
      [] m = "a" ->
           [size |-> 3, good |-> TRUE, code |-> {0}, exports |-> {"init", "throw"},
            strong |-> {"step", "throw", "lost"}, weak |-> {"trace"},
            rela |-> {}, relr |-> <<At0(1), Bits({1})>>, pointers |-> {1, 2}]
      [] m = "b" ->
           [size |-> 2, good |-> TRUE, code |-> {0}, exports |-> {"init", "trace"},
            strong |-> {"malloc"}, weak |-> {"hook"},
            rela |-> {0}, relr |-> <<>>, pointers |-> {0}]
      [] m = "c" ->
           [size |-> 2, good |-> TRUE, code |-> {0}, exports |-> {"init"},
            strong |-> {"init"}, weak |-> {},
            rela |-> {0}, relr |-> <<>>, pointers |-> {0}]]

----------------------------------------------------------------------------
InstallRests ==
  /\ apks = {} /\ file = [i \in Outputs |-> Absent] /\ part = file
  /\ marker = Absent /\ loose = FALSE /\ keep = FALSE
  /\ save = "absent" /\ saveTmp = "absent" /\ pc = "off"
  /\ out = 1 /\ apk = Absent /\ made = {} /\ known = FALSE /\ faults = 0
CfgRests ==
  /\ lines = <<>> /\ want = {} /\ cfgPc = "off" /\ new = <<>>
  /\ mine = <<>> /\ cuts = 0

MCInit ==
  \/ component = "install" /\ Init /\ CfgRests /\ Loading!Init
  \/ component = "config" /\ InstallRests /\ Cfg!Init /\ Loading!Init
  \/ component = "loader" /\ InstallRests /\ CfgRests /\ Loading!Init

MCNext ==
  /\ UNCHANGED component
  /\ \/ component = "install" /\ Next /\ UNCHANGED <<cfgVars, loaderVars>>
     \/ component = "config" /\ Cfg!Next /\ UNCHANGED <<vars, loaderVars>>
     \/ component = "loader" /\ Loading!Next /\ UNCHANGED <<vars, cfgVars>>

MCSpec ==
  /\ MCInit
  /\ [][MCNext]_<<component, vars, cfgVars, loaderVars>>
  /\ WF_vars(component = "install" /\ Install /\ UNCHANGED <<component, cfgVars, loaderVars>>)

TypesOK == TypeOK /\ Loading!TypeOK
=============================================================================
