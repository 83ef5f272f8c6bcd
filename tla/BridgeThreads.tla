---------------------------- MODULE BridgeThreads ----------------------------
(***************************************************************************)
(* The responder and the byte counter as two threads use them, with no     *)
(* lock: the UART thread runs the callback of BridgeController.cpp (count, *)
(* process), the main thread its tick (tick, re-arm, report).  Where       *)
(* AutoResponder and BridgeController make a call one step, a step here is *)
(* a statement of the code, and a thread is the sequence of statements it  *)
(* has still to execute.  Data and time are abstracted: whether a prompt   *)
(* is found and whether a limit is reached is left open.  A data race is   *)
(* an interleaving of whole loads and stores, which every build can        *)
(* produce.  The configuration is that of the file and does not change; it *)
(* matters how many rules and commands it has.                             *)
(* Names that end in _<Word> are faulty variants, as in AutoResponder.     *)
(***************************************************************************)
EXTENDS Integers, Sequences

CONSTANTS
    Sizes,            \* the sizes [rules, posts] the configuration may have
    Awaits,           \* the post commands (from 0) that expect a prompt
    MaxReceived       \* bound on the bytes the device sends

ASSUME ThreadsAssumption ==
    /\ Sizes \subseteq [rules : Nat, posts : Nat]
    /\ \A s \in Sizes : s.rules + s.posts > 0
    /\ Awaits \subseteq Nat
    /\ MaxReceived \in Nat

VARIABLES
    threaded, \* the platform: TRUE on Linux; FALSE on the M5 Stack, where
              \* loop() makes one call after the other
    size,     \* config_.rules.size() and config_.postCommands.size()
    todo,     \* per thread: the statements it has still to execute
    state_, currentRuleIndex_, currentPostCmdIndex_,
    postCmdSent_, waitingForPostPrompt_,
    cmd,      \* per thread: the command its reference postCmd stands for
    rxByteCount_,
    loaded,   \* what the UART thread has loaded from rxByteCount_
    received, reported   \* history: bytes received, bytes that were reported

respVars == <<state_, currentRuleIndex_, currentPostCmdIndex_, postCmdSent_,
              waitingForPostPrompt_>>
countVars == <<rxByteCount_, loaded, received, reported>>
setting == <<threaded, size>>
bvars == <<setting, todo, respVars, cmd, countVars>>

Thread == {"uart", "main"}
Other(t) == IF t = "uart" THEN "main" ELSE "uart"
AtRest(t) == todo[t] = <<>>

-----------------------------------------------------------------------------
(* Blocks of statements.                                                   *)

\* The callback of the UART, and BridgeController::tick.
Callback == <<"rx.load", "rx.store", "process">>
BridgeTick == <<"tick", "rearm", "report", "rx.zero">>

AdvanceRule == <<"rule.next", "rule.last">>
EnterPosts == <<"state.sending", "post.zero", "sent.false", "waiting.false">>
AdvancePost == <<"post.next", "sent.false", "waiting.false", "post.last">>
ResetState == <<"rule.zero", "post.zero", "sent.false", "waiting.false">>
SetConfig == Append(ResetState, "state.first")

\* Statement s is the next of thread t, and more comes in its place.
Do(t, s, more) ==
    /\ ~AtRest(t) /\ Head(todo[t]) = s
    /\ todo' = [todo EXCEPT ![t] = more \o Tail(@)]
    /\ UNCHANGED setting

\* Statement s is one assignment.
Assign(t, s) == Do(t, s, <<>>) /\ UNCHANGED <<cmd, countVars>>

\* Statement s changes nothing but what t does next.
Branch(t, s, more) == Do(t, s, more) /\ UNCHANGED <<respVars, cmd, countVars>>

-----------------------------------------------------------------------------
(* The statements that both threads execute.                               *)

IncrementRule(t) ==
    /\ Assign(t, "rule.next")
    /\ currentRuleIndex_' = currentRuleIndex_ + 1
    /\ UNCHANGED <<state_, currentPostCmdIndex_, postCmdSent_,
                   waitingForPostPrompt_>>

LastRule_OffByOne(t) ==
    Branch(t, "rule.last",
           IF currentRuleIndex_ <= size.rules THEN <<>>
           ELSE IF size.posts > 0 THEN EnterPosts
           ELSE <<"state.idle">>)
LastRule(t) ==
    Branch(t, "rule.last",
           IF currentRuleIndex_ < size.rules THEN <<>>
           ELSE IF size.posts > 0 THEN EnterPosts
           ELSE <<"state.idle">>)

IncrementPost(t) ==
    /\ Assign(t, "post.next")
    /\ currentPostCmdIndex_' = currentPostCmdIndex_ + 1
    /\ UNCHANGED <<state_, currentRuleIndex_, postCmdSent_,
                   waitingForPostPrompt_>>

LastPost(t) ==
    Branch(t, "post.last",
           IF currentPostCmdIndex_ < size.posts THEN <<>> ELSE <<"state.idle">>)

SetState(t) ==
    /\ \/ Assign(t, "state.idle") /\ state_' = "IDLE"
       \/ Assign(t, "state.sending") /\ state_' = "SENDING_POST_COMMANDS"
       \/ /\ Assign(t, "state.first")
          /\ state_' = IF size.rules > 0 THEN "MATCHING_RULES"
                       ELSE "SENDING_POST_COMMANDS"
    /\ UNCHANGED <<currentRuleIndex_, currentPostCmdIndex_, postCmdSent_,
                   waitingForPostPrompt_>>

ZeroIndex(t) ==
    /\ \/ /\ Assign(t, "rule.zero")
          /\ currentRuleIndex_' = 0 /\ UNCHANGED currentPostCmdIndex_
       \/ /\ Assign(t, "post.zero")
          /\ currentPostCmdIndex_' = 0 /\ UNCHANGED currentRuleIndex_
    /\ UNCHANGED <<state_, postCmdSent_, waitingForPostPrompt_>>

SetFlag(t) ==
    /\ \/ /\ Assign(t, "sent.false")
          /\ postCmdSent_' = FALSE /\ UNCHANGED waitingForPostPrompt_
       \/ /\ Assign(t, "waiting.false")
          /\ waitingForPostPrompt_' = FALSE /\ UNCHANGED postCmdSent_
       \/ /\ Assign(t, "sent.true")
          /\ postCmdSent_' = TRUE /\ UNCHANGED waitingForPostPrompt_
       \/ /\ Assign(t, "waiting.true")
          /\ waitingForPostPrompt_' = TRUE /\ UNCHANGED postCmdSent_
    /\ UNCHANGED <<state_, currentRuleIndex_, currentPostCmdIndex_>>

\* config_.rules[currentRuleIndex_]: the UART thread looks for its trigger,
\* and writes the response when it finds it; the main thread logs it.
UseRule(t) ==
    \/ Branch(t, "rule.use", AdvanceRule)
    \/ t = "uart" /\ Branch(t, "rule.use", <<>>)

\* const auto& postCmd = config_.postCommands[currentPostCmdIndex_]
TakePost(t) ==
    /\ Do(t, "post.take", <<>>)
    /\ cmd' = [cmd EXCEPT ![t] = currentPostCmdIndex_]
    /\ UNCHANGED <<respVars, countVars>>

-----------------------------------------------------------------------------
(* The UART thread.                                                        *)

Data ==
    /\ AtRest("uart") /\ (threaded \/ AtRest("main"))
    /\ received < MaxReceived
    /\ received' = received + 1
    /\ todo' = [todo EXCEPT !["uart"] = Callback]
    /\ UNCHANGED <<setting, respVars, cmd, rxByteCount_, loaded, reported>>

LoadRx ==
    /\ Do("uart", "rx.load", <<>>)
    /\ loaded' = rxByteCount_
    /\ UNCHANGED <<respVars, cmd, rxByteCount_, received, reported>>

StoreRx ==
    /\ Do("uart", "rx.store", <<>>)
    /\ rxByteCount_' = loaded + 1
    /\ UNCHANGED <<respVars, cmd, loaded, received, reported>>

Process ==
    Branch("uart", "process",
        IF state_ = "MATCHING_RULES" /\ currentRuleIndex_ < size.rules
        THEN <<"rule.use">>
        ELSE IF /\ state_ = "SENDING_POST_COMMANDS"
                /\ waitingForPostPrompt_ /\ currentPostCmdIndex_ < size.posts
        THEN <<"post.take", "prompt.match">>
        ELSE <<>>)

MatchPrompt ==
    \/ cmd["uart"] \in Awaits /\ Branch("uart", "prompt.match", AdvancePost)
    \/ Branch("uart", "prompt.match", <<>>)

UartThread == LoadRx \/ StoreRx \/ Process \/ MatchPrompt

-----------------------------------------------------------------------------
(* The main thread.                                                        *)

StartTick ==
    /\ AtRest("main") /\ (threaded \/ AtRest("uart"))
    /\ todo' = [todo EXCEPT !["main"] = BridgeTick]
    /\ UNCHANGED <<setting, respVars, cmd, countVars>>

Tick_NotHealing ==
    \/ /\ state_ = "MATCHING_RULES" /\ currentRuleIndex_ < size.rules
       /\ Branch("main", "tick", <<"rule.use">>)
    \/ /\ state_ = "SENDING_POST_COMMANDS" /\ currentPostCmdIndex_ < size.posts
       /\ Branch("main", "tick", <<"post.take", "post.timer">>)
    \/ Branch("main", "tick", <<>>)
Tick ==
    \/ /\ state_ = "MATCHING_RULES" /\ currentRuleIndex_ < size.rules
       /\ Branch("main", "tick", <<"rule.use">>)
    \/ /\ state_ = "SENDING_POST_COMMANDS" /\ currentPostCmdIndex_ < size.posts
       /\ Branch("main", "tick", <<"post.take", "post.timer">>)
    \/ /\ state_ = "SENDING_POST_COMMANDS" /\ currentPostCmdIndex_ >= size.posts
       /\ Branch("main", "tick", <<"state.idle">>)
    \/ \* not configured, at rest, or the limit is not reached
       /\ state_ # "SENDING_POST_COMMANDS"
       /\ Branch("main", "tick", <<>>)

\* The delay of the command, or the limit on the wait for its prompt, is over
\* or not; the flags are set as if there were no third case.
PostTimer ==
    \/ ~postCmdSent_ /\ Branch("main", "post.timer", <<"post.send">>)
    \/ /\ postCmdSent_ /\ waitingForPostPrompt_
       /\ Branch("main", "post.timer", AdvancePost)
    \/ Branch("main", "post.timer", <<>>)

SendCurrentPostCommand ==
    Branch("main", "post.send",
        IF currentPostCmdIndex_ < size.posts
        THEN <<"post.take", "sent.true", "prompt.expected">> ELSE <<>>)

ExpectsPrompt ==
    Branch("main", "prompt.expected",
        IF cmd["main"] \in Awaits THEN <<"waiting.true">> ELSE AdvancePost)

Rearm ==
    Branch("main", "rearm", IF state_ = "IDLE" THEN SetConfig ELSE <<>>)

\* The interval may be over, and then the count is reported and reset.
Report ==
    \/ /\ Do("main", "report", <<>>)
       /\ reported' = reported + rxByteCount_
       /\ UNCHANGED <<respVars, cmd, rxByteCount_, loaded, received>>
    \/ /\ ~AtRest("main") /\ Head(todo["main"]) = "report"
       /\ todo' = [todo EXCEPT !["main"] = <<>>]
       /\ UNCHANGED <<setting, respVars, cmd, countVars>>

ZeroRx_Missing ==
    /\ Do("main", "rx.zero", <<>>)
    /\ UNCHANGED <<respVars, cmd, countVars>>
ZeroRx ==
    /\ Do("main", "rx.zero", <<>>)
    /\ rxByteCount_' = 0
    /\ UNCHANGED <<respVars, cmd, loaded, received, reported>>

MainThread ==
    Tick \/ PostTimer \/ SendCurrentPostCommand \/ ExpectsPrompt \/ Rearm
        \/ Report \/ ZeroRx

-----------------------------------------------------------------------------

Statement(t) ==
    \/ IncrementRule(t) \/ LastRule(t) \/ UseRule(t)
    \/ IncrementPost(t) \/ LastPost(t) \/ TakePost(t)
    \/ SetState(t) \/ ZeroIndex(t) \/ SetFlag(t)

\* After startup: the responder has its configuration, the threads run.
Init ==
    /\ threaded \in BOOLEAN /\ size \in Sizes
    /\ todo = [t \in Thread |-> <<>>]
    /\ state_ = IF size.rules > 0 THEN "MATCHING_RULES" ELSE "SENDING_POST_COMMANDS"
    /\ currentRuleIndex_ = 0 /\ currentPostCmdIndex_ = 0
    /\ postCmdSent_ = FALSE /\ waitingForPostPrompt_ = FALSE
    /\ cmd = [t \in Thread |-> 0]
    /\ rxByteCount_ = 0 /\ loaded = 0 /\ received = 0 /\ reported = 0

Next ==
    \/ Data \/ StartTick \/ UartThread \/ MainThread
    \/ \E t \in Thread : Statement(t)

Spec == Init /\ [][Next]_bvars

\* Both threads go on: the main loop ticks for ever, and the UART thread
\* executes what a callback is made of.
FairSpec ==
    /\ Spec
    /\ WF_bvars(StartTick \/ MainThread \/ Statement("main"))
    /\ WF_bvars(UartThread \/ Statement("uart"))

-----------------------------------------------------------------------------
(* Properties.                                                             *)

\* A responder whose command index ran past the end gets out of that state:
\* the check at the head of the branch of tick, which a single thread never
\* needs, sees to it.
PostOverrunHeals ==
    LET overrun == /\ state_ = "SENDING_POST_COMMANDS"
                   /\ currentPostCmdIndex_ >= size.posts
    IN  overrun ~> ~overrun

\* Between calls: neither process nor tick leaves the state, which matches
\* rules with no rule left, or has sent a command and does not wait for its
\* prompt.
Wedged ==
    /\ AtRest("uart") /\ AtRest("main")
    /\ \/ state_ = "MATCHING_RULES" /\ currentRuleIndex_ >= size.rules
       \/ /\ state_ = "SENDING_POST_COMMANDS"
          /\ postCmdSent_ /\ ~waitingForPostPrompt_

\* On one thread, the responder never gets into such a state.
NotWedged == ~threaded => ~Wedged

\* On one thread, between calls, every byte received is in the count or was
\* reported.
CountIsExact ==
    ~threaded /\ AtRest("uart") /\ AtRest("main")
        => reported + rxByteCount_ = received

-----------------------------------------------------------------------------
(* What the documents say and the code does not do.                        *)

\* Requirement 4.10: a wait for a prompt ends, by the prompt or by a timeout;
\* so no state is one that nothing leaves, with two threads either.
NeverWedged == ~Wedged
=============================================================================
