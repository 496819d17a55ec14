------------------------------ MODULE MCClocks ------------------------------
(***************************************************************************)
(* Clocks with the default configuration (boot 1785 MHz, automatic in      *)
(* play) but for a GPU rate, which the dock caps; a ladder of three of the *)
(* five rates; and the governor's thresholds scaled down so that a second  *)
(* can be slow, clean, bad or in between with at most two frames in it.    *)
(***************************************************************************)
EXTENDS Clocks

Auto == -1
ThreeRates == <<1020, 1428, 1785>>
=============================================================================
