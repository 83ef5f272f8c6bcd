--------------------------- MODULE AutoResponder ---------------------------
(***************************************************************************)
(* The prompt responder, src/src/core/AutoResponder.cpp.  Each public      *)
(* call (process, tick, setConfig) is one atomic step here.  A string that *)
(* is searched for is a sequence of Byte; a string that is only written is *)
(* an abstract text, "" being the empty string.                            *)
(*                                                                         *)
(* A definition whose name ends in _<Word> is a faulty variant of the one  *)
(* that follows it; no specification uses it.  It shows that a property    *)
(* tells the code from a plausible mistake in it.                          *)
(***************************************************************************)
EXTENDS Integers, Sequences

CONSTANTS
    Byte,         \* the characters told apart
    Text,         \* the strings that are written
    kBufferSize,  \* capacity of the rolling buffer (4096 in the code)
    UINT32,       \* modulus of the uint32_t timers (2^32 in the code)
    Configs,      \* the CommandSequences that setConfig may be given
    Chunks,       \* the byte strings one UART callback may deliver
    TickSteps     \* the values of elapsedMs

PromptRule == [trigger : Seq(Byte), response : Text]

PostCommand ==
    [command : Text, expectedPrompt : Seq(Byte), delayMs : 0..(UINT32 - 1)]

CommandSequence ==
    [rules : Seq(PromptRule), postCommands : Seq(PostCommand),
     lineEnding : Text, promptTimeoutMs : 0..(UINT32 - 1)]

ASSUME ConstantsAssumption ==
    /\ kBufferSize \in Nat \ {0}
    /\ UINT32 \in Nat \ {0}
    /\ {"", "LF"} \subseteq Text
    /\ TickSteps \subseteq 0..(UINT32 - 1)
    /\ Chunks \subseteq Seq(Byte)
    /\ Configs \subseteq CommandSequence

VARIABLES
    config_,
    state_,
    currentRuleIndex_,       \* counts from 0, as in the code
    currentPostCmdIndex_,
    buffer_,
    elapsedSinceRuleStart_,
    postCmdDelayAccum_,
    waitingForPostPrompt_,
    postCmdSent_,
    sent                     \* the items written to the UART since setConfig

ruleVars == <<currentRuleIndex_, elapsedSinceRuleStart_>>
postVars == <<currentPostCmdIndex_, postCmdDelayAccum_,
              waitingForPostPrompt_, postCmdSent_>>
vars == <<config_, state_, ruleVars, postVars, buffer_, sent>>

-----------------------------------------------------------------------------
(* Strings.                                                                *)

\* The offsets, from 0, at which p occurs in s.
Occurrences(p, s) ==
    {n \in 0..(Len(s) - Len(p)) : SubSeq(s, n + 1, n + Len(p)) = p}

\* One that looks at the end only, where data has just come.
Find_AtEnd(p, s) == {n \in Occurrences(p, s) : n + Len(p) = Len(s)}
\* std::string::find: the least offset, or the empty set for npos.
Find(p, s) ==
    {n \in Occurrences(p, s) : \A m \in Occurrences(p, s) : n <= m}

\* buffer_.erase(0, n)
Erase(s, n) == SubSeq(s, n + 1, Len(s))

\* The rolling buffer keeps the last kBufferSize bytes.
Trim(s) == IF Len(s) > kBufferSize THEN Erase(s, Len(s) - kBufferSize) ELSE s

-----------------------------------------------------------------------------
(* Where the responder stands in its configuration.                        *)

Rules == config_.rules
PostCommands == config_.postCommands
Rule == Rules[currentRuleIndex_ + 1]
PostCmd == PostCommands[currentPostCmdIndex_ + 1]

MatchingRule ==
    state_ = "MATCHING_RULES" /\ currentRuleIndex_ < Len(Rules)
SendingPostCmd ==
    state_ = "SENDING_POST_COMMANDS" /\ currentPostCmdIndex_ < Len(PostCommands)

\* sendToUart(text + lineEnding), which writes nothing when that is empty.
\* What is written is remembered by its place in the configuration, rules
\* and commands counted together from 1.
SendToUart_TextOnly(item, text) ==
    sent' = IF text = "" THEN sent ELSE Append(sent, item)
SendToUart(item, text) ==
    sent' = IF text = "" /\ config_.lineEnding = ""
            THEN sent ELSE Append(sent, item)

\* Advance past the current rule, into the post commands or to rest after
\* the last one.
NextRule_KeepTimer ==
    /\ currentRuleIndex_' = currentRuleIndex_ + 1
    /\ UNCHANGED <<elapsedSinceRuleStart_, postVars>>
    /\ state_' = IF currentRuleIndex_ + 1 < Len(Rules) THEN state_
                 ELSE IF PostCommands # <<>> THEN "SENDING_POST_COMMANDS"
                 ELSE "IDLE"
NextRule ==
    /\ currentRuleIndex_' = currentRuleIndex_ + 1
    /\ elapsedSinceRuleStart_' = 0
    /\ \/ /\ currentRuleIndex_ + 1 < Len(Rules)
          /\ UNCHANGED <<state_, postVars>>
       \/ /\ currentRuleIndex_ + 1 >= Len(Rules)
          /\ PostCommands # <<>>
          /\ state_' = "SENDING_POST_COMMANDS"
          /\ currentPostCmdIndex_' = 0
          /\ postCmdDelayAccum_' = 0
          /\ postCmdSent_' = FALSE
          /\ waitingForPostPrompt_' = FALSE
       \/ /\ currentRuleIndex_ + 1 >= Len(Rules)
          /\ PostCommands = <<>>
          /\ state_' = "IDLE"
          /\ UNCHANGED postVars

\* Advance past the current post command, to rest after the last one.
NextPostCmd_KeepSent ==
    /\ currentPostCmdIndex_' = currentPostCmdIndex_ + 1
    /\ postCmdDelayAccum_' = 0
    /\ waitingForPostPrompt_' = FALSE
    /\ state_' = IF currentPostCmdIndex_ + 1 >= Len(PostCommands)
                 THEN "IDLE" ELSE state_
    /\ UNCHANGED <<ruleVars, postCmdSent_>>
NextPostCmd ==
    /\ currentPostCmdIndex_' = currentPostCmdIndex_ + 1
    /\ postCmdDelayAccum_' = 0
    /\ postCmdSent_' = FALSE
    /\ waitingForPostPrompt_' = FALSE
    /\ state_' = IF currentPostCmdIndex_ + 1 >= Len(PostCommands)
                 THEN "IDLE" ELSE state_
    /\ UNCHANGED ruleVars

-----------------------------------------------------------------------------
(* process(data, length): the callback of the UART.  At most one rule or   *)
(* prompt is matched per call.                                             *)

MatchTrigger(buf) ==
    /\ MatchingRule
    /\ \E pos \in Find(Rule.trigger, buf) :
          buffer_' = Erase(buf, pos + Len(Rule.trigger))
    /\ SendToUart(currentRuleIndex_ + 1, Rule.response)
    /\ NextRule

MatchPrompt(buf) ==
    /\ SendingPostCmd /\ waitingForPostPrompt_
    /\ PostCmd.expectedPrompt # <<>>
    /\ \E pos \in Find(PostCmd.expectedPrompt, buf) :
          buffer_' = Erase(buf, pos + Len(PostCmd.expectedPrompt))
    /\ NextPostCmd
    /\ UNCHANGED sent

NoMatch(buf) ==
    /\ MatchingRule => Find(Rule.trigger, buf) = {}
    /\ SendingPostCmd /\ waitingForPostPrompt_ /\ PostCmd.expectedPrompt # <<>>
          => Find(PostCmd.expectedPrompt, buf) = {}
    /\ buffer_' = buf
    /\ UNCHANGED <<state_, ruleVars, postVars, sent>>

Process(chunk) ==
    LET buf == Trim(buffer_ \o chunk)
    IN  /\ chunk # <<>>
        /\ MatchTrigger(buf) \/ MatchPrompt(buf) \/ NoMatch(buf)
        /\ UNCHANGED config_

-----------------------------------------------------------------------------
(* tick(elapsedMs)                                                         *)

\* sendCurrentPostCommand
SendCurrentPostCommand_NoWait ==
    /\ SendToUart(Len(Rules) + currentPostCmdIndex_ + 1, PostCmd.command)
    /\ NextPostCmd
SendCurrentPostCommand ==
    /\ SendToUart(Len(Rules) + currentPostCmdIndex_ + 1, PostCmd.command)
    /\ \/ /\ PostCmd.expectedPrompt # <<>>
          /\ postCmdSent_' = TRUE
          /\ waitingForPostPrompt_' = TRUE
          /\ postCmdDelayAccum_' = 0
          /\ UNCHANGED <<state_, ruleVars, currentPostCmdIndex_>>
       \/ /\ PostCmd.expectedPrompt = <<>>
          /\ NextPostCmd

\* uint32_t addition
Plus(a, b) == (a + b) % UINT32

RuleTimer(ms) ==
    /\ MatchingRule /\ config_.promptTimeoutMs > 0
    /\ Plus(elapsedSinceRuleStart_, ms) < config_.promptTimeoutMs
    /\ elapsedSinceRuleStart_' = Plus(elapsedSinceRuleStart_, ms)
    /\ UNCHANGED <<state_, currentRuleIndex_, postVars, sent>>

RuleTimeout(ms) ==
    /\ MatchingRule /\ config_.promptTimeoutMs > 0
    /\ Plus(elapsedSinceRuleStart_, ms) >= config_.promptTimeoutMs
    /\ NextRule
    /\ UNCHANGED sent

PostDelay(ms) ==
    /\ SendingPostCmd /\ ~postCmdSent_
    /\ Plus(postCmdDelayAccum_, ms) < PostCmd.delayMs
    /\ postCmdDelayAccum_' = Plus(postCmdDelayAccum_, ms)
    /\ UNCHANGED <<state_, ruleVars, currentPostCmdIndex_,
                   waitingForPostPrompt_, postCmdSent_, sent>>

PostDelayOver_Early(ms) ==
    /\ SendingPostCmd /\ ~postCmdSent_
    /\ Plus(postCmdDelayAccum_, ms) + 1 >= PostCmd.delayMs
    /\ SendCurrentPostCommand
PostDelayOver(ms) ==
    /\ SendingPostCmd /\ ~postCmdSent_
    /\ Plus(postCmdDelayAccum_, ms) >= PostCmd.delayMs
    /\ SendCurrentPostCommand

PromptTimer(ms) ==
    /\ SendingPostCmd /\ postCmdSent_ /\ waitingForPostPrompt_
    /\ config_.promptTimeoutMs > 0
    /\ Plus(postCmdDelayAccum_, ms) < config_.promptTimeoutMs
    /\ postCmdDelayAccum_' = Plus(postCmdDelayAccum_, ms)
    /\ UNCHANGED <<state_, ruleVars, currentPostCmdIndex_,
                   waitingForPostPrompt_, postCmdSent_, sent>>

PromptTimeout(ms) ==
    /\ SendingPostCmd /\ postCmdSent_ /\ waitingForPostPrompt_
    /\ config_.promptTimeoutMs > 0
    /\ Plus(postCmdDelayAccum_, ms) >= config_.promptTimeoutMs
    /\ NextPostCmd
    /\ UNCHANGED sent

\* At rest, or waiting for a trigger or a prompt with no limit.  (The check
\* currentPostCmdIndex_ >= size at the head of the SENDING_POST_COMMANDS
\* branch never holds between calls: see IndexInRange.)
TickNothing(ms) ==
    /\ \/ state_ = "IDLE"
       \/ MatchingRule /\ config_.promptTimeoutMs = 0
       \/ SendingPostCmd /\ waitingForPostPrompt_ /\ config_.promptTimeoutMs = 0
    /\ UNCHANGED <<state_, ruleVars, postVars, sent>>

Tick(ms) ==
    /\ \/ RuleTimer(ms)
       \/ RuleTimeout(ms)
       \/ PostDelay(ms)
       \/ PostDelayOver(ms)
       \/ PromptTimer(ms)
       \/ PromptTimeout(ms)
       \/ TickNothing(ms)
    /\ UNCHANGED <<config_, buffer_>>

-----------------------------------------------------------------------------
(* setConfig(seq), with resetState.                                        *)

ResetState_KeepBuffer ==
    /\ currentRuleIndex_' = 0
    /\ currentPostCmdIndex_' = 0
    /\ elapsedSinceRuleStart_' = 0
    /\ postCmdDelayAccum_' = 0
    /\ postCmdSent_' = FALSE
    /\ waitingForPostPrompt_' = FALSE
    /\ buffer_' = buffer_
ResetState ==
    /\ currentRuleIndex_' = 0
    /\ currentPostCmdIndex_' = 0
    /\ elapsedSinceRuleStart_' = 0
    /\ postCmdDelayAccum_' = 0
    /\ postCmdSent_' = FALSE
    /\ waitingForPostPrompt_' = FALSE
    /\ buffer_' = <<>>

SetConfig(seq) ==
    /\ config_' = seq
    /\ ResetState
    /\ state_' = IF seq.rules # <<>> THEN "MATCHING_RULES"
                 ELSE IF seq.postCommands # <<>> THEN "SENDING_POST_COMMANDS"
                 ELSE "IDLE"
    /\ sent' = <<>>

-----------------------------------------------------------------------------

\* A default-constructed CommandSequence; its line ending is a line feed.
EmptyConfig ==
    [rules |-> <<>>, postCommands |-> <<>>, lineEnding |-> "LF",
     promptTimeoutMs |-> 0]

Init ==
    /\ config_ = EmptyConfig
    /\ state_ = "IDLE"
    /\ currentRuleIndex_ = 0
    /\ currentPostCmdIndex_ = 0
    /\ buffer_ = <<>>
    /\ elapsedSinceRuleStart_ = 0
    /\ postCmdDelayAccum_ = 0
    /\ waitingForPostPrompt_ = FALSE
    /\ postCmdSent_ = FALSE
    /\ sent = <<>>

Next ==
    \/ \E chunk \in Chunks : Process(chunk)
    \/ \E ms \in TickSteps : Tick(ms)
    \/ \E seq \in Configs : SetConfig(seq)

Spec == Init /\ [][Next]_vars

-----------------------------------------------------------------------------
(* Properties.                                                             *)

\* Every variable holds a value of its C++ type, an index is at most one past
\* the end of its vector, and the rolling buffer keeps to its capacity.
TypeOK ==
    /\ config_ \in CommandSequence
    /\ state_ \in {"IDLE", "MATCHING_RULES", "SENDING_POST_COMMANDS"}
    /\ currentRuleIndex_ \in 0..Len(Rules)
    /\ currentPostCmdIndex_ \in 0..Len(PostCommands)
    /\ buffer_ \in Seq(Byte) /\ Len(buffer_) <= kBufferSize
    /\ elapsedSinceRuleStart_ \in 0..(UINT32 - 1)
    /\ postCmdDelayAccum_ \in 0..(UINT32 - 1)
    /\ waitingForPostPrompt_ \in BOOLEAN
    /\ postCmdSent_ \in BOOLEAN
    /\ sent \in Seq(Nat)

\* config_.rules[currentRuleIndex_] and postCommands[currentPostCmdIndex_]
\* are only used in range: the index of the phase in force is in range, that
\* of a finished phase is at its end, that of a coming phase at its start.
IndexInRange ==
    \/ /\ state_ = "MATCHING_RULES"
       /\ currentRuleIndex_ < Len(Rules)
       /\ currentPostCmdIndex_ = 0
    \/ /\ state_ = "SENDING_POST_COMMANDS"
       /\ currentRuleIndex_ = Len(Rules)
       /\ currentPostCmdIndex_ < Len(PostCommands)
    \/ /\ state_ = "IDLE"
       /\ currentRuleIndex_ = Len(Rules)
       /\ currentPostCmdIndex_ = Len(PostCommands)

\* The two flags agree: the responder waits for a prompt exactly when the
\* command in force has been sent, and then there is a prompt to wait for
\* (otherwise tick would neither send nor time out, for ever).
FlagsAgree ==
    /\ waitingForPostPrompt_ = postCmdSent_
    /\ postCmdSent_ => /\ state_ = "SENDING_POST_COMMANDS"
                       /\ PostCmd.expectedPrompt # <<>>

\* No timer carries time over from one rule, command or configuration to the
\* next, and none runs past the limit it is compared with.
TimersInBounds ==
    /\ elapsedSinceRuleStart_ > 0
          => /\ state_ = "MATCHING_RULES"
             /\ elapsedSinceRuleStart_ < config_.promptTimeoutMs
    /\ postCmdDelayAccum_ > 0
          => /\ state_ = "SENDING_POST_COMMANDS"
             /\ postCmdDelayAccum_ < IF postCmdSent_
                                     THEN config_.promptTimeoutMs
                                     ELSE PostCmd.delayMs

\* The responder is never in a state that its next call was not written for,
\* after any sequence of data, ticks and configurations.
Consistent == TypeOK /\ IndexInRange /\ FlagsAgree /\ TimersInBounds

\* The responder's configuration as a script: its rules, then its commands.
Says(c, text) == ~(text = "" /\ c.lineEnding = "")
RuleItem(c, rule) ==
    [kind |-> "rule", awaits |-> FALSE, says |-> Says(c, rule.response)]
CommandItem(c, cmd) ==
    [kind |-> "command", awaits |-> cmd.expectedPrompt # <<>>,
     says |-> Says(c, cmd.command)]
ScriptOf(c) ==
    [i \in 1..(Len(c.rules) + Len(c.postCommands)) |->
       IF i <= Len(c.rules) THEN RuleItem(c, c.rules[i])
       ELSE CommandItem(c, c.postCommands[i - Len(c.rules)])]

CS == INSTANCE CommandScript WITH
          Scripts <- {ScriptOf(c) : c \in Configs},
          script  <- ScriptOf(config_),
          next    <- currentRuleIndex_ + currentPostCmdIndex_,
          issued  <- postCmdSent_,
          output  <- sent

\* The responder is a CommandScript: rules then commands, each dealt with
\* once and in order, no command passed over, a command that expects a
\* prompt in force until the prompt is seen or given up.
ImplementsScript == CS!Spec

\* So a response or command is written at most once and in its turn, and the
\* responder never gets past a command without having written it.
WrittenInOrder == CS!WrittenInOrder
CommandsNeverSkipped == CS!CommandsNeverSkipped
=============================================================================
