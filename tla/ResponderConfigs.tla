-------------------------- MODULE ResponderConfigs --------------------------
(* Two characters, chunks of one or two of them, and configurations that   *)
(* differ in what the responder's branches look at: rules or not, commands *)
(* or not, prompts or not, a timeout or none, texts that are empty.        *)
EXTENDS AutoResponder

CONSTANTS a, b

MCByte == {a, b}
MCText == STRING
MCChunks == {<<x>> : x \in MCByte} \cup {<<x, y>> : x, y \in MCByte}

rule(t, r) == [trigger |-> t, response |-> r]
cmd(c, p, d) == [command |-> c, expectedPrompt |-> p, delayMs |-> d]
conf(rs, cs, le, timeout) ==
    [rules |-> rs, postCommands |-> cs, lineEnding |-> le,
     promptTimeoutMs |-> timeout]

\* Login, the answer to which is a bare line ending, password, two commands;
\* limits on every wait.
Login == conf(<<rule(<<a>>, ""), rule(<<a, b>>, "pass")>>,
              <<cmd("show", <<b>>, 2), cmd("exit", <<>>, 0)>>, "LF", 3)
\* No limit, and a trigger that takes the whole buffer: the responder waits
\* for ever for its trigger and its prompt.
Patient == conf(<<rule(<<a, b, a>>, "user")>>,
                <<cmd("show", <<a, b>>, 3)>>, "LF", 0)
\* Commands only, one of which writes nothing.
Silent == conf(<<>>, <<cmd("", <<>>, 1), cmd("", <<a>>, 0),
                       cmd("go", <<>>, 2)>>, "", 2)
\* Rules only; an empty trigger matches at any data; an empty response.
Greedy == conf(<<rule(<<>>, "hi"), rule(<<b, b>>, "")>>, <<>>, "", 2)
\* Rules on the same trigger; commands that are nothing but a line ending.
Chatty == conf(<<rule(<<a>>, "x"), rule(<<a>>, ""), rule(<<b>>, "z")>>,
               <<cmd("go", <<a>>, 1), cmd("", <<b>>, 1)>>, "LF", 2)
\* The longest delay that ticks of up to two cannot make the timer wrap past.
Edge == conf(<<>>, <<cmd("go", <<>>, UINT32 - 2)>>, "LF", 0)

MCConfigs == {Login, Patient, Silent, Greedy, Chatty, Edge, EmptyConfig}
=============================================================================
