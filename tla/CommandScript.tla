--------------------------- MODULE CommandScript ---------------------------
(***************************************************************************)
(* What the automatic responder promises, without buffers, bytes or        *)
(* timers: a loaded script is a sequence of items, rules first and         *)
(* commands after them; the items are dealt with one at a time and in      *)
(* order; a rule is answered or skipped; a command is always issued, and   *)
(* when it expects a prompt it stays the current item until that prompt    *)
(* is confirmed or given up.  It is checked through AutoResponder, which   *)
(* implements it.                                                          *)
(***************************************************************************)
EXTENDS Integers, Sequences

CONSTANT Scripts   \* the scripts that may be loaded, sequences of Item

\* kind: "rule" or "command"; awaits: a prompt must follow the command;
\* says: answering or issuing the item writes something to the UART.
Item == [kind : {"rule", "command"}, awaits : BOOLEAN, says : BOOLEAN]

VARIABLES
    script,    \* the script in force
    next,      \* how many of its items are done
    issued,    \* the current item is a command that awaits its prompt
    output     \* the items written to the UART since the script was loaded

svars == <<script, next, issued, output>>

Current == script[next + 1]
Pending == next < Len(script)

Say == output' = IF Current.says THEN Append(output, next + 1) ELSE output

Load(s) ==
    /\ script' = s
    /\ next' = 0
    /\ issued' = FALSE
    /\ output' = <<>>

\* A rule whose trigger was seen is answered.
Answer ==
    /\ Pending /\ Current.kind = "rule"
    /\ Say
    /\ next' = next + 1
    /\ UNCHANGED <<script, issued>>

\* A rule whose trigger was not seen in time is passed over in silence.
Skip ==
    /\ Pending /\ Current.kind = "rule"
    /\ next' = next + 1
    /\ UNCHANGED <<script, issued, output>>

\* A command is written; it is done unless it awaits a prompt.
Issue ==
    /\ Pending /\ Current.kind = "command" /\ ~issued
    /\ Say
    /\ issued' = Current.awaits
    /\ next' = IF Current.awaits THEN next ELSE next + 1
    /\ UNCHANGED script

\* The awaited prompt arrived, or the wait for it was given up.
Conclude ==
    /\ issued
    /\ issued' = FALSE
    /\ next' = next + 1
    /\ UNCHANGED <<script, output>>

Init == script = <<>> /\ next = 0 /\ issued = FALSE /\ output = <<>>

Next ==
    \/ \E s \in Scripts : Load(s)
    \/ Answer
    \/ Skip
    \/ Issue
    \/ Conclude

Spec == Init /\ [][Next]_svars

-----------------------------------------------------------------------------

TypeOK ==
    /\ script \in Seq(Item)
    /\ next \in 0..Len(script)
    /\ issued \in BOOLEAN
    /\ output \in Seq(1..Len(script))

\* Every item is written at most once and in the order of the script, and
\* nothing is written that has not been reached.
WrittenInOrder ==
    /\ \A i \in 1..Len(output) : output[i] <= next + (IF issued THEN 1 ELSE 0)
    /\ \A i, j \in 1..Len(output) : i < j => output[i] < output[j]

\* A command is never passed over: once the script is beyond a command that
\* has something to write, the command has been written.
CommandsNeverSkipped ==
    \A n \in 1..next :
        script[n].kind = "command" /\ script[n].says
            => \E i \in 1..Len(output) : output[i] = n
=============================================================================
