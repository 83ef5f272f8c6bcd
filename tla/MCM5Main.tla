------------------------------ MODULE MCM5Main ------------------------------
(* Two slots for three clients; a round of loop takes one unit of time, or   *)
(* three when a module holds it up.                                         *)
EXTENDS M5Main
MCRounds == {1, 3}
=============================================================================
