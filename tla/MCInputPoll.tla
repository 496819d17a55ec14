---------------------------- MODULE MCInputPoll ----------------------------
(***************************************************************************)
(* InputPoll with one button (they are masked bit by bit, so one stands    *)
(* for all), three fingers in two places with room for two of them, and    *)
(* two applets, the second of which may open before the first one's end    *)
(* has been noticed.                                                       *)
(***************************************************************************)
EXTENDS InputPoll
=============================================================================
