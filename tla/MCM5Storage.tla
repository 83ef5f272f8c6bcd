---------------------------- MODULE MCM5Storage ----------------------------
(* A ring of three files of three bytes, a flush after two bytes, writes   *)
(* of one or two: a write makes a file too long, flushes it or not; the    *)
(* ring is filled and its first file taken again.  One read or one removal *)
(* fails: after it only the loss of an ejection is still to be bounded.    *)
EXTENDS M5Storage
=============================================================================
