----------------------- MODULE MCAutoResponderHistory -----------------------
(* A buffer of three characters, streams of up to MaxReceived of them in   *)
(* chunks of one or two, so that data is trimmed, matched across chunks    *)
(* and left over for the next rule.                                        *)
EXTENDS AutoResponderHistory, ResponderConfigs
=============================================================================
