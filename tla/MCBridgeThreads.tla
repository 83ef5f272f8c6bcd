-------------------------- MODULE MCBridgeThreads --------------------------
(* Two rules and two commands, or a single command and no rule, in which   *)
(* case re-arming goes straight back to the commands.  The first command   *)
(* expects a prompt.                                                       *)
EXTENDS BridgeThreads

MCSizes == {[rules |-> 2, posts |-> 2], [rules |-> 0, posts |-> 1]}
OneEach == {[rules |-> 1, posts |-> 1]}
FirstAwaits == {0}
=============================================================================
