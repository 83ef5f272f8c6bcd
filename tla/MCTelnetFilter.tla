--------------------------- MODULE MCTelnetFilter ---------------------------
(* A typed byte and an option that look like commands, reads of one to     *)
(* three bytes, one offer.                                                 *)
EXTENDS TelnetFilter

MCData == {"a", "DO"}
MCOptions == {"ECHO", IAC}
MCOffers == <<"ECHO">>
MCDevice == {"WILL"}
=============================================================================
