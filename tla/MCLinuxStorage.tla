--------------------------- MODULE MCLinuxStorage ---------------------------
(* Three files of four bytes; data of one or two bytes, so that a file may *)
(* be overfilled by one; a flush every three bytes, so that bytes are lost *)
(* in a crash; enough bytes to go round the files and into the first again,*)
(* with three faults on the way.                                           *)
EXTENDS LinuxStorage
=============================================================================
