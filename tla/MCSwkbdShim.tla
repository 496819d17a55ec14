---------------------------- MODULE MCSwkbdShim ----------------------------
(***************************************************************************)
(* SwkbdShim on two text fields: enough for one keyboard to be up for a    *)
(* field while the focus, the hint and a second request belong to another. *)
(***************************************************************************)
EXTENDS SwkbdShim
=============================================================================
