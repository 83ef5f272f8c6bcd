------------------------- MODULE MCBridgeController -------------------------
(* One character that prompts are made of and one that is noise; a file    *)
(* that configures a login, and two configurations that a client may POST. *)
EXTENDS BridgeController

CONSTANTS a, b

MCByte == {a, b}
MCText == STRING
MCChunks == {<<a>>, <<b, a>>}

rule(t, r) == [trigger |-> t, response |-> r]
cmd(c, p, d) == [command |-> c, expectedPrompt |-> p, delayMs |-> d]
conf(rs, cs, timeout) ==
    [rules |-> rs, postCommands |-> cs, lineEnding |-> "LF",
     promptTimeoutMs |-> timeout]

File == conf(<<rule(<<a>>, "user")>>, <<cmd("exit", <<b>>, 500)>>, 1000)
Posted == conf(<<rule(<<b>>, "yes")>>, <<>>, 0)
Nothing == conf(<<>>, <<>>, 0)

MCConfigs == {File, Posted, Nothing}
FilePosted == {File, Posted}
=============================================================================
