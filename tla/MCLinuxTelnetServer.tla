------------------------ MODULE MCLinuxTelnetServer ------------------------
(* Two clients, which are interchangeable; four descriptors, just enough   *)
(* for both clients, the listening socket and the log.                     *)
EXTENDS LinuxTelnetServer, TLC

AnyClient == Permutations(Clients)
=============================================================================
