---------------------------- MODULE MCFrameLoop ----------------------------
(***************************************************************************)
(* FrameLoop with one text field: the keyboard's own interleavings are     *)
(* those of MCSwkbdShim, here it only has to be asked for, up and answered *)
(* across every point of the two loops.                                    *)
(***************************************************************************)
EXTENDS FrameLoop
=============================================================================
