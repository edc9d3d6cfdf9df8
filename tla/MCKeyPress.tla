----------------------------- MODULE MCKeyPress -----------------------------
(* Two keys, in units of 250 ms: clicks count up to 500 ms, long presses   *)
(* are shorter than that and longer.                                       *)
EXTENDS KeyPress
=============================================================================
