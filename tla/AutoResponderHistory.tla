------------------------ MODULE AutoResponderHistory ------------------------
(***************************************************************************)
(* The responder together with what an observer on the UART line and a     *)
(* clock would have written down: every byte received since setConfig,     *)
(* which of them each match used up, and how long every wait took.  The    *)
(* history never constrains the responder, except that the observer stops  *)
(* listening after MaxReceived bytes.                                      *)
(***************************************************************************)
EXTENDS AutoResponder

CONSTANT MaxReceived   \* bound on the bytes received after a setConfig

VARIABLES
    received,   \* the bytes received since setConfig
    matches,    \* the matches since setConfig: bytes from+1..to of received
                \* are item's trigger or prompt; since is the length of
                \* received when the responder began to wait for it
    began,      \* the length of received when the wait in force began
    waited,     \* how long the wait in force has lasted (at most UINT32 ms)
    lastWait    \* the wait that ended last

hvars == <<vars, received, matches, began, waited, lastWait>>

Min(m, n) == IF m <= n THEN m ELSE n
Max(m, n) == IF m <= n THEN n ELSE m

Progress == currentRuleIndex_ + currentPostCmdIndex_

Used == IF matches = <<>> THEN 0 ELSE matches[Len(matches)].to

\* The string the responder is looking for in the item after Progress.
Awaited ==
    IF currentRuleIndex_ < Len(Rules) THEN Rule.trigger ELSE PostCmd.expectedPrompt

NoWait == [item |-> 0, how |-> "none", ms |-> 0]

HInit ==
    /\ Init
    /\ received = <<>> /\ matches = <<>>
    /\ began = 0 /\ waited = 0 /\ lastWait = NoWait

EndWait(how, ms) ==
    /\ lastWait' = [item |-> Progress + 1, how |-> how, ms |-> ms]
    /\ waited' = 0
    /\ began' = Len(received')

HProcess(chunk) ==
    /\ Len(received) + Len(chunk) <= MaxReceived
    /\ Process(chunk)
    /\ received' = received \o chunk
    /\ LET to == Len(received') - Len(buffer_')
       IN  \/ /\ Progress' # Progress
              /\ matches' = Append(matches,
                    [item |-> Progress + 1, from |-> to - Len(Awaited),
                     to |-> to, since |-> began])
              /\ EndWait("matched", waited)
           \/ /\ Progress' = Progress
              /\ UNCHANGED <<matches, began, waited, lastWait>>

HTick(ms) ==
    /\ Tick(ms)
    /\ UNCHANGED <<received, matches>>
    /\ \/ /\ <<Progress, postCmdSent_>>' # <<Progress, postCmdSent_>>
          /\ EndWait(IF state_ = "MATCHING_RULES" \/ postCmdSent_
                     THEN "timed out" ELSE "sent", waited + ms)
       \/ /\ <<Progress, postCmdSent_>>' = <<Progress, postCmdSent_>>
          /\ waited' = Min(waited + ms, UINT32)
          /\ UNCHANGED <<began, lastWait>>

HSetConfig(seq) ==
    /\ SetConfig(seq)
    /\ received' = <<>> /\ matches' = <<>>
    /\ began' = 0 /\ waited' = 0 /\ lastWait' = NoWait

HNext ==
    \/ \E chunk \in Chunks : HProcess(chunk)
    \/ \E ms \in TickSteps : HTick(ms)
    \/ \E seq \in Configs : HSetConfig(seq)

HSpec == HInit /\ [][HNext]_hvars

\* The main loop calls tick for as long as the program runs.
HFairSpec == HSpec /\ WF_hvars(\E ms \in TickSteps : HTick(ms))

-----------------------------------------------------------------------------

\* No byte is lost, repeated or left over: the rolling buffer is the end of
\* what was received since setConfig, as much of it as no match has used up
\* and as the capacity allows.
BufferIsUnusedTail ==
    buffer_ = Erase(received,
                    Max(Used, Len(received) - kBufferSize))

\* What a match used up is its item's trigger or prompt, and no byte is used
\* by two matches.
MatchesAreGenuine ==
    \A i \in 1..Len(matches) :
        LET m == matches[i]
            n == m.item - Len(Rules)
        IN  /\ 0 <= m.from /\ m.to <= Len(received)
            /\ SubSeq(received, m.from + 1, m.to) =
                 IF n <= 0 THEN Rules[m.item].trigger
                 ELSE PostCommands[n].expectedPrompt
            /\ i > 1 => /\ matches[i - 1].to <= m.from
                        /\ matches[i - 1].item < m.item

\* A response is written when, and only when, its trigger was received, as
\* bytes that no other match used: a rule that timed out is never answered,
\* and a matched one always is, also when the answer is a bare line ending.
AnsweredIffMatched ==
    /\ MatchesAreGenuine
    /\ \A r \in 1..Min(Len(Rules), currentRuleIndex_) :
        (\E i \in 1..Len(sent) : sent[i] = r) <=>
            /\ \E i \in 1..Len(matches) : matches[i].item = r
            /\ Rules[r].response # "" \/ config_.lineEnding # ""

\* The trigger or prompt that is waited for is overlooked, while it is in the
\* buffer, only if it was there before the wait began: process matches once
\* in a call and looks again when data comes, and then it finds it anywhere in
\* the buffer, also across calls and when old bytes had to be dropped.
NothingOverlooked ==
    (MatchingRule \/ (SendingPostCmd /\ waitingForPostPrompt_))
    /\ Occurrences(Awaited, buffer_) # {}
        => Len(received) = began

MaxStep == CHOOSE n \in TickSteps : \A m \in TickSteps : m <= n

\* Delays and timeouts are kept to within one tick, and are counted from the
\* end of the previous wait: a command is sent neither before its delay nor
\* later than the tick that completes it; a wait is given up neither before
\* promptTimeoutMs nor a tick too late; what arrives later than that does
\* not count as a match.
WaitsKeepTheirLimits ==
    LET ms == lastWait.ms
        limit == config_.promptTimeoutMs
        delay == PostCommands[lastWait.item - Len(Rules)].delayMs
    IN  /\ lastWait.how = "timed out" =>
              limit > 0 /\ limit <= ms /\ ms < limit + MaxStep
        /\ lastWait.how = "matched" => limit = 0 \/ ms < limit
        /\ lastWait.how = "sent" =>
              delay <= ms /\ ms < Max(delay, 1) + MaxStep

\* Whatever the device sends or fails to send, when every wait has a limit
\* the responder gets to the end of the configuration it was given last.
AllLimited(c) ==
    /\ c.rules # <<>> => c.promptTimeoutMs > 0
    /\ (\E i \in 1..Len(c.postCommands) : c.postCommands[i].expectedPrompt # <<>>)
          => c.promptTimeoutMs > 0
    /\ \A i \in 1..Len(c.postCommands) :
          c.postCommands[i].delayMs <= UINT32 - MaxStep
Completes ==
    <>[][~\E seq \in Configs : HSetConfig(seq)]_hvars
        => <>[](AllLimited(config_) => state_ = "IDLE")

-----------------------------------------------------------------------------
(* What the documents say and the code does not do.                        *)

\* Requirement 4.10 and Property 8 of the design: after a post command with
\* an expected prompt the responder waits for that prompt, that is, for one
\* that the device sent after it got the command.
PromptFollowsCommand ==
    \A i \in 1..Len(matches) :
        matches[i].item > Len(Rules) => matches[i].from >= matches[i].since
=============================================================================
