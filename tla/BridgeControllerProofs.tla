----------------------- MODULE BridgeControllerProofs ------------------------
(***************************************************************************)
(* The responder, alone, observed, and inside the bridge; for every        *)
(* alphabet, buffer capacity, timer width, set of configurations and       *)
(* length of observation.                                                  *)
(*   Alone: its inductive invariant, and that it implements CommandScript. *)
(*   Observed, by somebody at the UART line with a clock: no byte is lost  *)
(* or used twice, a rule is answered if and only if its trigger came,      *)
(* nothing that came is overlooked, and no wait is cut short or drawn out. *)
(*   Inside the bridge: whatever callbacks and handlers come between the   *)
(* parts of a tick, what happens to the responder is a behaviour of        *)
(* AutoResponder, and on one thread nothing is given up by re-arming.      *)
(***************************************************************************)
EXTENDS BridgeController, AutoResponderHistory, SequenceTheorems,
        NaturalsInduction, WellFoundedInduction, TLAPS

-----------------------------------------------------------------------------
(* Strings.                                                                *)

\* erase(0, n) leaves a string, shorter by n.
LEMMA EraseProperties ==
    ASSUME NEW S, NEW s \in Seq(S), NEW n \in 0..Len(s)
    PROVE  Erase(s, n) \in Seq(S) /\ Len(Erase(s, n)) = Len(s) - n
<1>1. Len(s) \in Nat /\ n \in Nat /\ n <= Len(s)
  BY LenProperties
<1>2. \A i \in (n + 1)..Len(s) : s[i] \in S
  BY <1>1, ElementOfSeq
<1>3. /\ SubSeq(s, n + 1, Len(s)) \in Seq(S)
      /\ Len(SubSeq(s, n + 1, Len(s))) = IF n + 1 <= Len(s)
                                         THEN Len(s) - (n + 1) + 1 ELSE 0
  <2> n + 1 \in Int /\ Len(s) \in Int  BY <1>1
  <2> QED  BY <1>2, SubSeqProperties
<1> QED  BY <1>1, <1>3 DEF Erase

\* Trimming keeps the buffer to its capacity.
LEMMA TrimProperties ==
    ASSUME NEW s \in Seq(Byte)
    PROVE  Trim(s) \in Seq(Byte) /\ Len(Trim(s)) <= kBufferSize
<1>1. Len(s) \in Nat /\ kBufferSize \in Nat
  BY LenProperties, ConstantsAssumption
<1>2. CASE Len(s) > kBufferSize
  <2>1. Len(s) - kBufferSize \in 0..Len(s)
    BY <1>1, <1>2
  <2>2. /\ Erase(s, Len(s) - kBufferSize) \in Seq(Byte)
        /\ Len(Erase(s, Len(s) - kBufferSize)) = Len(s) - (Len(s) - kBufferSize)
    BY <2>1, EraseProperties
  <2> QED  BY <1>1, <1>2, <2>2 DEF Trim
<1>3. CASE ~(Len(s) > kBufferSize)
  BY <1>1, <1>3 DEF Trim
<1> QED  BY <1>2, <1>3

\* What is found lies within the string it is found in.
LEMMA FindInRange ==
    ASSUME NEW p \in Seq(Byte), NEW s \in Seq(Byte), NEW pos \in Find(p, s)
    PROVE  pos + Len(p) \in 0..Len(s)
<1>1. Len(p) \in Nat /\ Len(s) \in Nat
  BY LenProperties
<1>2. pos \in 0..(Len(s) - Len(p))
  BY DEF Find, Occurrences
<1> QED  BY <1>1, <1>2

\* So cutting off a match and what precedes it leaves a buffer within its
\* capacity.
LEMMA CutProperties ==
    ASSUME NEW p \in Seq(Byte), NEW s \in Seq(Byte), Len(s) <= kBufferSize,
           NEW pos \in Find(p, s)
    PROVE  /\ Erase(s, pos + Len(p)) \in Seq(Byte)
           /\ Len(Erase(s, pos + Len(p))) <= kBufferSize
<1>1. pos + Len(p) \in 0..Len(s)
  BY FindInRange
<1>2. /\ Erase(s, pos + Len(p)) \in Seq(Byte)
      /\ Len(Erase(s, pos + Len(p))) = Len(s) - (pos + Len(p))
  BY <1>1, EraseProperties
<1>3. Len(s) \in Nat /\ kBufferSize \in Nat
  BY LenProperties, ConstantsAssumption
<1> QED  BY <1>1, <1>2, <1>3

\* A timer that is reset is in the range of uint32_t.
LEMMA Widths == UINT32 \in Nat \ {0} /\ kBufferSize \in Nat /\ 0 \in 0..(UINT32 - 1)
<1>1. UINT32 \in Nat \ {0} /\ kBufferSize \in Nat
  BY ConstantsAssumption
<1> QED  BY <1>1

\* So is one that is advanced.
LEMMA PlusType ==
    ASSUME NEW x \in 0..(UINT32 - 1), NEW ms \in TickSteps
    PROVE  Plus(x, ms) \in 0..(UINT32 - 1)
<1>1. UINT32 \in Nat \ {0} /\ ms \in 0..(UINT32 - 1)
  BY ConstantsAssumption
<1> QED  BY <1>1 DEF Plus

-----------------------------------------------------------------------------
(* The inductive invariant.                                                *)

\* Where the responder stands: what NextRule and NextPostCmd change.
ProgressOK ==
    /\ state_ \in {"IDLE", "MATCHING_RULES", "SENDING_POST_COMMANDS"}
    /\ currentRuleIndex_ \in 0..Len(Rules)
    /\ currentPostCmdIndex_ \in 0..Len(PostCommands)
    /\ elapsedSinceRuleStart_ \in 0..(UINT32 - 1)
    /\ postCmdDelayAccum_ \in 0..(UINT32 - 1)
    /\ waitingForPostPrompt_ \in BOOLEAN
    /\ postCmdSent_ \in BOOLEAN
    /\ IndexInRange
    /\ FlagsAgree
    /\ TimersInBounds

BufferOK == buffer_ \in Seq(Byte) /\ Len(buffer_) <= kBufferSize

\* The four invariants together are inductive; none but TypeOK is so alone:
\* the flags agree because a command is sent only in its own phase, the
\* phase fixes the indices, and the timers start at zero with each phase.
IInv ==
    /\ config_ \in CommandSequence
    /\ sent \in Seq(Nat)
    /\ BufferOK
    /\ ProgressOK

LEMMA IInvImplies == IInv => TypeOK /\ IndexInRange /\ FlagsAgree /\ TimersInBounds
BY DEF IInv, BufferOK, ProgressOK, TypeOK

\* The types of a configuration's parts.
LEMMA ConfigTypes ==
    ASSUME config_ \in CommandSequence
    PROVE  /\ Rules \in Seq(PromptRule) /\ Len(Rules) \in Nat
           /\ PostCommands \in Seq(PostCommand) /\ Len(PostCommands) \in Nat
           /\ PostCommands # <<>> <=> Len(PostCommands) > 0
           /\ Rules # <<>> <=> Len(Rules) > 0
           /\ config_.promptTimeoutMs \in 0..(UINT32 - 1)
<1>1. /\ Rules \in Seq(PromptRule)
      /\ PostCommands \in Seq(PostCommand)
      /\ config_.promptTimeoutMs \in 0..(UINT32 - 1)
  BY DEF CommandSequence, Rules, PostCommands
<1>2. Len(Rules) \in Nat /\ Len(PostCommands) \in Nat
  BY <1>1, LenProperties
<1>3. PostCommands # <<>> <=> Len(PostCommands) > 0
  BY <1>1, <1>2, EmptySeq
<1>4. Rules # <<>> <=> Len(Rules) > 0
  BY <1>1, <1>2, EmptySeq
<1> QED  BY <1>1, <1>2, <1>3, <1>4

\* Passing on to the next rule, or out of the rules, keeps the invariant.
LEMMA NextRuleProgress ==
    ASSUME config_ \in CommandSequence, ProgressOK, MatchingRule, NextRule,
           UNCHANGED config_
    PROVE  ProgressOK'
<1>1. /\ Len(Rules) \in Nat /\ Len(PostCommands) \in Nat /\ UINT32 \in Nat \ {0}
      /\ PostCommands # <<>> <=> Len(PostCommands) > 0
  BY ConfigTypes, ConstantsAssumption
<1>2. Rules' = Rules /\ PostCommands' = PostCommands
  BY DEF Rules, PostCommands
<1>3. /\ currentPostCmdIndex_ = 0 /\ postCmdDelayAccum_ = 0
      /\ ~postCmdSent_ /\ ~waitingForPostPrompt_
      /\ currentRuleIndex_ \in Nat /\ currentRuleIndex_ < Len(Rules)
  BY <1>1 DEF ProgressOK, IndexInRange, FlagsAgree, TimersInBounds, MatchingRule
<1>4. /\ currentRuleIndex_' = currentRuleIndex_ + 1
      /\ elapsedSinceRuleStart_' = 0 /\ currentPostCmdIndex_' = 0
      /\ postCmdDelayAccum_' = 0
      /\ postCmdSent_' = FALSE /\ waitingForPostPrompt_' = FALSE
      /\ \/ currentRuleIndex_ + 1 < Len(Rules) /\ state_' = "MATCHING_RULES"
         \/ /\ currentRuleIndex_ + 1 >= Len(Rules) /\ PostCommands # <<>>
            /\ state_' = "SENDING_POST_COMMANDS"
         \/ /\ currentRuleIndex_ + 1 >= Len(Rules) /\ PostCommands = <<>>
            /\ state_' = "IDLE"
  BY <1>3 DEF NextRule, postVars, MatchingRule, ProgressOK
<1>5. IndexInRange'
  BY <1>1, <1>2, <1>3, <1>4 DEF IndexInRange
<1>6. FlagsAgree'
  BY <1>4 DEF FlagsAgree
<1>7. TimersInBounds'
  BY <1>4 DEF TimersInBounds
<1>8. /\ 0 \in 0..(UINT32 - 1) /\ 0 \in 0..Len(PostCommands)
      /\ currentRuleIndex_ + 1 \in 0..Len(Rules)
  BY <1>1, <1>3
<1> QED  BY <1>2, <1>4, <1>5, <1>6, <1>7, <1>8 DEF ProgressOK

\* Passing on to the next command, or to rest, does too.
LEMMA NextPostCmdProgress ==
    ASSUME config_ \in CommandSequence, ProgressOK, SendingPostCmd, NextPostCmd,
           UNCHANGED config_
    PROVE  ProgressOK'
<1>1. Len(Rules) \in Nat /\ Len(PostCommands) \in Nat /\ UINT32 \in Nat \ {0}
  BY ConfigTypes, ConstantsAssumption
<1>2. Rules' = Rules /\ PostCommands' = PostCommands
  BY DEF Rules, PostCommands
<1>3. /\ currentRuleIndex_ = Len(Rules) /\ elapsedSinceRuleStart_ = 0
      /\ currentPostCmdIndex_ \in Nat
      /\ currentPostCmdIndex_ < Len(PostCommands)
  BY <1>1 DEF ProgressOK, IndexInRange, TimersInBounds, SendingPostCmd
<1>4. /\ currentPostCmdIndex_' = currentPostCmdIndex_ + 1
      /\ postCmdDelayAccum_' = 0
      /\ postCmdSent_' = FALSE /\ waitingForPostPrompt_' = FALSE
      /\ currentRuleIndex_' = Len(Rules) /\ elapsedSinceRuleStart_' = 0
      /\ \/ currentPostCmdIndex_ + 1 >= Len(PostCommands) /\ state_' = "IDLE"
         \/ /\ ~(currentPostCmdIndex_ + 1 >= Len(PostCommands))
            /\ state_' = "SENDING_POST_COMMANDS"
  BY <1>3 DEF NextPostCmd, ruleVars, SendingPostCmd
<1>5. IndexInRange'
  BY <1>1, <1>2, <1>3, <1>4 DEF IndexInRange
<1>6. FlagsAgree'
  BY <1>4 DEF FlagsAgree
<1>7. TimersInBounds'
  BY <1>4 DEF TimersInBounds
<1>8. /\ Len(Rules) \in 0..Len(Rules) /\ 0 \in 0..(UINT32 - 1)
      /\ currentPostCmdIndex_ + 1 \in 0..Len(PostCommands)
  BY <1>1, <1>3
<1> QED  BY <1>2, <1>4, <1>5, <1>6, <1>7, <1>8 DEF ProgressOK

\* What is written is remembered by its place.
LEMMA SendToUartType ==
    ASSUME NEW item \in Nat, NEW text, sent \in Seq(Nat),
           SendToUart(item, text)
    PROVE  sent' \in Seq(Nat)
BY AppendProperties DEF SendToUart

\* process keeps the invariant.
LEMMA ProcessKeeps ==
    ASSUME IInv, NEW chunk \in Chunks, Process(chunk)
    PROVE  IInv'
<1> DEFINE buf == Trim(buffer_ \o chunk)
<1>1. buf \in Seq(Byte) /\ Len(buf) <= kBufferSize
  <2>1. chunk \in Seq(Byte)
    BY ConstantsAssumption
  <2>2. buffer_ \o chunk \in Seq(Byte)
    BY <2>1, ConcatProperties DEF IInv, BufferOK
  <2> QED  BY <2>2, TrimProperties
<1>2. config_' = config_ /\ (MatchTrigger(buf) \/ MatchPrompt(buf) \/ NoMatch(buf))
  BY DEF Process
<1> HIDE DEF buf
<1>3. /\ Rules \in Seq(PromptRule) /\ PostCommands \in Seq(PostCommand)
      /\ config_ \in CommandSequence /\ ProgressOK
  BY ConfigTypes DEF IInv
<1>4. CASE MatchTrigger(buf)
  <2>1. currentRuleIndex_ + 1 \in 1..Len(Rules)
    BY <1>4 DEF MatchTrigger, MatchingRule, IInv, ProgressOK
  <2>2. Rule.trigger \in Seq(Byte)
    <3>1. Rule \in PromptRule
      BY <1>3, <2>1, ElementOfSeq DEF Rule
    <3> QED  BY <3>1 DEF PromptRule
  <2>3. BufferOK'
    BY <1>1, <1>4, <2>2, CutProperties DEF MatchTrigger, BufferOK
  <2>4. sent' \in Seq(Nat)
    BY <1>4, <2>1, SendToUartType DEF MatchTrigger, IInv
  <2>5. ProgressOK'
    BY <1>2, <1>3, <1>4, NextRuleProgress DEF MatchTrigger
  <2> QED  BY <1>2, <1>3, <2>3, <2>4, <2>5 DEF IInv
<1>5. CASE MatchPrompt(buf)
  <2>1. currentPostCmdIndex_ + 1 \in 1..Len(PostCommands)
    BY <1>5 DEF MatchPrompt, SendingPostCmd, IInv, ProgressOK
  <2>2. PostCmd.expectedPrompt \in Seq(Byte)
    <3>1. PostCmd \in PostCommand
      BY <1>3, <2>1, ElementOfSeq DEF PostCmd
    <3> QED  BY <3>1 DEF PostCommand
  <2>3. BufferOK'
    BY <1>1, <1>5, <2>2, CutProperties DEF MatchPrompt, BufferOK
  <2>4. ProgressOK'
    BY <1>2, <1>3, <1>5, NextPostCmdProgress DEF MatchPrompt
  <2> QED  BY <1>2, <1>3, <1>5, <2>3, <2>4 DEF IInv, MatchPrompt
<1>6. CASE NoMatch(buf)
  <2>1. BufferOK'
    BY <1>1, <1>6 DEF NoMatch, BufferOK
  <2>2. ProgressOK'
    BY <1>2, <1>3, <1>6 DEF NoMatch, ruleVars, postVars, ProgressOK, IndexInRange,
       FlagsAgree, TimersInBounds, Rules, PostCommands, PostCmd
  <2> QED  BY <1>2, <1>3, <1>6, <2>1, <2>2 DEF IInv, NoMatch
<1> QED  BY <1>2, <1>4, <1>5, <1>6

\* setConfig establishes it, whatever was before.
LEMMA SetConfigEstablishes ==
    ASSUME NEW seq \in Configs, SetConfig(seq)
    PROVE  IInv'
<1>1. config_' \in CommandSequence /\ config_' = seq
  BY ConstantsAssumption DEF SetConfig
<1>2. /\ Len(Rules') \in Nat /\ Len(PostCommands') \in Nat
      /\ PostCommands' # <<>> <=> Len(PostCommands') > 0
      /\ Rules' # <<>> <=> Len(Rules') > 0
  <2>1. seq \in CommandSequence
    BY ConstantsAssumption
  <2>2. seq.rules \in Seq(PromptRule) /\ seq.postCommands \in Seq(PostCommand)
    BY <2>1 DEF CommandSequence
  <2> QED  BY <1>1, <2>2, EmptySeq, LenProperties DEF Rules, PostCommands
<1>3. /\ currentRuleIndex_' = 0 /\ currentPostCmdIndex_' = 0
      /\ elapsedSinceRuleStart_' = 0 /\ postCmdDelayAccum_' = 0
      /\ postCmdSent_' = FALSE /\ waitingForPostPrompt_' = FALSE
      /\ buffer_' = <<>> /\ sent' = <<>>
      /\ state_' = IF Rules' # <<>> THEN "MATCHING_RULES"
                   ELSE IF PostCommands' # <<>> THEN "SENDING_POST_COMMANDS"
                   ELSE "IDLE"
  BY <1>1 DEF SetConfig, ResetState, Rules, PostCommands
<1>4. IndexInRange'
  BY <1>2, <1>3 DEF IndexInRange
<1>5. FlagsAgree'
  BY <1>3 DEF FlagsAgree
<1>6. TimersInBounds'
  BY <1>3 DEF TimersInBounds
<1>7. /\ 0 \in 0..(UINT32 - 1) /\ kBufferSize \in Nat
      /\ 0 \in 0..Len(Rules') /\ 0 \in 0..Len(PostCommands')
  BY <1>2, Widths
<1>8. ProgressOK'
  <2>1. state_' \in {"IDLE", "MATCHING_RULES", "SENDING_POST_COMMANDS"}
    BY <1>3
  <2> QED  BY <1>3, <1>4, <1>5, <1>6, <1>7, <2>1 DEF ProgressOK
<1>9. BufferOK'
  BY <1>3, <1>7, EmptySeq DEF BufferOK
<1> QED  BY <1>1, <1>3, <1>8, <1>9, EmptySeq DEF IInv

\* tick keeps it.
LEMMA TickKeeps ==
    ASSUME IInv, NEW ms \in TickSteps, Tick(ms)
    PROVE  IInv'
<1>1. config_' = config_ /\ buffer_' = buffer_
  BY DEF Tick
<1>2. /\ config_ \in CommandSequence /\ sent \in Seq(Nat) /\ BufferOK' /\ ProgressOK
      /\ Len(Rules) \in Nat /\ Len(PostCommands) \in Nat
      /\ Rules' = Rules /\ PostCommands' = PostCommands
  BY <1>1, ConfigTypes DEF IInv, BufferOK, Rules, PostCommands
<1>3. SUFFICES sent' \in Seq(Nat) /\ ProgressOK'
  BY <1>1, <1>2 DEF IInv
<1>4. /\ Plus(elapsedSinceRuleStart_, ms) \in 0..(UINT32 - 1)
      /\ Plus(postCmdDelayAccum_, ms) \in 0..(UINT32 - 1)
  BY <1>2, PlusType DEF ProgressOK
<1>5. CASE RuleTimer(ms)
  <2>1. /\ IndexInRange' /\ FlagsAgree'
    BY <1>1, <1>2, <1>5 DEF RuleTimer, postVars, ProgressOK, IndexInRange,
       FlagsAgree, MatchingRule, PostCmd
  <2>2. TimersInBounds'
    BY <1>1, <1>2, <1>5 DEF RuleTimer, postVars, ProgressOK, TimersInBounds,
       MatchingRule, PostCmd
  <2> QED  BY <1>2, <1>4, <1>5, <2>1, <2>2 DEF RuleTimer, postVars, ProgressOK
<1>6. CASE RuleTimeout(ms)
  BY <1>1, <1>2, <1>6, NextRuleProgress DEF RuleTimeout
<1>7. CASE PostDelay(ms)
  <2>1. IndexInRange' /\ FlagsAgree'
    BY <1>1, <1>2, <1>7 DEF PostDelay, ruleVars, ProgressOK, IndexInRange,
       FlagsAgree, PostCmd
  <2>2. TimersInBounds'
    BY <1>1, <1>2, <1>7 DEF PostDelay, ruleVars, ProgressOK, TimersInBounds,
       SendingPostCmd, PostCmd
  <2> QED  BY <1>2, <1>4, <1>7, <2>1, <2>2 DEF PostDelay, ruleVars, ProgressOK
<1>8. CASE PostDelayOver(ms)
  <2>1. sent' \in Seq(Nat)
    <3>1. Len(Rules) + currentPostCmdIndex_ + 1 \in Nat
      BY <1>2 DEF ProgressOK
    <3> QED  BY <1>2, <1>8, <3>1, SendToUartType DEF PostDelayOver, SendCurrentPostCommand
  <2>2. CASE PostCmd.expectedPrompt = <<>>
    BY <1>1, <1>2, <1>8, <2>1, <2>2, NextPostCmdProgress
       DEF PostDelayOver, SendCurrentPostCommand
  <2>3. CASE PostCmd.expectedPrompt # <<>>
    <3>1. /\ postCmdSent_' = TRUE /\ waitingForPostPrompt_' = TRUE
          /\ postCmdDelayAccum_' = 0 /\ state_' = "SENDING_POST_COMMANDS"
          /\ state_ = "SENDING_POST_COMMANDS"
          /\ UNCHANGED <<state_, ruleVars, currentPostCmdIndex_>>
          /\ PostCmd' = PostCmd
      BY <1>2, <1>8, <2>3 DEF PostDelayOver, SendCurrentPostCommand,
         SendingPostCmd, PostCmd
    <3>2. IndexInRange' /\ FlagsAgree'
      BY <1>2, <2>3, <3>1 DEF ruleVars, ProgressOK, IndexInRange, FlagsAgree
    <3>3. TimersInBounds'
      BY <1>2, <3>1 DEF ruleVars, ProgressOK, TimersInBounds
    <3>4. 0 \in 0..(UINT32 - 1)
      BY Widths
    <3> QED  BY <1>2, <2>1, <3>1, <3>2, <3>3, <3>4 DEF ruleVars, ProgressOK
  <2> QED  BY <2>2, <2>3
<1>9. CASE PromptTimer(ms)
  <2>1. IndexInRange' /\ FlagsAgree'
    BY <1>1, <1>2, <1>9 DEF PromptTimer, ruleVars, ProgressOK, IndexInRange,
       FlagsAgree, PostCmd
  <2>2. TimersInBounds'
    BY <1>1, <1>2, <1>9 DEF PromptTimer, ruleVars, ProgressOK, TimersInBounds,
       SendingPostCmd, PostCmd
  <2> QED  BY <1>2, <1>4, <1>9, <2>1, <2>2 DEF PromptTimer, ruleVars, ProgressOK
<1>10. CASE PromptTimeout(ms)
  BY <1>1, <1>2, <1>10, NextPostCmdProgress DEF PromptTimeout
<1>11. CASE TickNothing(ms)
  <2>1. UNCHANGED <<config_, state_, ruleVars, postVars, sent>>
    BY <1>1, <1>11 DEF TickNothing
  <2> QED  BY <1>2, <2>1 DEF ruleVars, postVars, ProgressOK, IndexInRange,
           FlagsAgree, TimersInBounds, PostCmd
<1> QED  BY <1>5, <1>6, <1>7, <1>8, <1>9, <1>10, <1>11 DEF Tick

\* The responder starts with the empty configuration, at its end.
LEMMA InitEstablishes == Init => IInv
<1> SUFFICES ASSUME Init PROVE IInv
  OBVIOUS
<1>1. UINT32 \in Nat \ {0} /\ kBufferSize \in Nat
  BY ConstantsAssumption
<1>2. /\ config_ = EmptyConfig /\ state_ = "IDLE"
      /\ currentRuleIndex_ = 0 /\ currentPostCmdIndex_ = 0
      /\ elapsedSinceRuleStart_ = 0 /\ postCmdDelayAccum_ = 0
      /\ waitingForPostPrompt_ = FALSE /\ postCmdSent_ = FALSE
      /\ buffer_ = <<>> /\ sent = <<>>
  BY DEF Init
<1>3. EmptyConfig \in CommandSequence
  <2>1. <<>> \in Seq(PromptRule) /\ <<>> \in Seq(PostCommand)
    BY EmptySeq
  <2>3. "LF" \in Text
    BY ConstantsAssumption
  <2>2. 0 \in 0..(UINT32 - 1)
    BY <1>1
  <2> QED  BY <2>1, <2>2, <2>3 DEF EmptyConfig, CommandSequence
<1>4. Len(Rules) = 0 /\ Len(PostCommands) = 0
  BY <1>2, EmptySeq DEF EmptyConfig, Rules, PostCommands
<1>5. IndexInRange
  BY <1>2, <1>4 DEF IndexInRange
<1>6. FlagsAgree
  BY <1>2 DEF FlagsAgree
<1>7. TimersInBounds
  BY <1>2 DEF TimersInBounds
<1>8. ProgressOK
  <2>1. 0 \in 0..(UINT32 - 1) /\ 0 \in 0..Len(Rules) /\ 0 \in 0..Len(PostCommands)
    BY <1>1, <1>4
  <2> QED  BY <1>2, <1>5, <1>6, <1>7, <2>1 DEF ProgressOK
<1>9. BufferOK
  BY <1>1, <1>2, EmptySeq DEF BufferOK
<1> QED
  BY <1>2, <1>3, <1>8, <1>9, EmptySeq DEF IInv

LEMMA NextKeeps == IInv /\ [Next]_vars => IInv'
<1> SUFFICES ASSUME IInv, [Next]_vars PROVE IInv'
  OBVIOUS
<1>1. CASE \E chunk \in Chunks : Process(chunk)
  BY <1>1, ProcessKeeps
<1>2. CASE \E ms \in TickSteps : Tick(ms)
  BY <1>2, TickKeeps
<1>3. CASE \E seq \in Configs : SetConfig(seq)
  BY <1>3, SetConfigEstablishes
<1>4. CASE UNCHANGED vars
  BY <1>4 DEF vars, ruleVars, postVars, IInv, BufferOK, ProgressOK, IndexInRange,
     FlagsAgree, TimersInBounds, Rules, PostCommands, PostCmd
<1> QED  BY <1>1, <1>2, <1>3, <1>4 DEF Next

\* In every behaviour of the responder, IInv holds throughout.
THEOREM Invariance == Spec => []IInv
BY InitEstablishes, NextKeeps, PTL DEF Spec

\* Every variable holds a value of its type, no index runs past the end of
\* its vector by more than one, and the rolling buffer keeps to kBufferSize.
THEOREM TypeCorrect == Spec => []TypeOK
BY Invariance, IInvImplies, PTL

\* rules[currentRuleIndex_] and postCommands[currentPostCmdIndex_] are only
\* used in range; the check at the head of tick's branch for the commands
\* never holds.
THEOREM IndicesInRange == Spec => []IndexInRange
BY Invariance, IInvImplies, PTL

\* postCmdSent_ and waitingForPostPrompt_ never disagree, in which case tick
\* would do nothing for ever.
THEOREM FlagsAlwaysAgree == Spec => []FlagsAgree
BY Invariance, IInvImplies, PTL

\* No timer is carried over to the next rule, command or configuration, and
\* none runs past the limit it is compared with.
THEOREM TimersAlwaysInBounds == Spec => []TimersInBounds
BY Invariance, IInvImplies, PTL

\* All four at once: no sequence of data, ticks and configurations leaves the
\* responder in a state that process and tick were not written for.
THEOREM AlwaysConsistent == Spec => []Consistent
<1>1. TypeOK /\ IndexInRange /\ FlagsAgree /\ TimersInBounds => Consistent
  BY DEF Consistent
<1> QED  BY <1>1, TypeCorrect, IndicesInRange, FlagsAlwaysAgree,
            TimersAlwaysInBounds, PTL

-----------------------------------------------------------------------------
(* The responder implements CommandScript.                                 *)

\* The items of the script of a configuration.
LEMMA ScriptProperties ==
    ASSUME NEW c \in CommandSequence
    PROVE  /\ ScriptOf(c) \in Seq(CS!Item)
           /\ Len(ScriptOf(c)) = Len(c.rules) + Len(c.postCommands)
           /\ \A i \in 1..Len(c.rules) :
                 ScriptOf(c)[i] = RuleItem(c, c.rules[i])
           /\ \A j \in 1..Len(c.postCommands) :
                 ScriptOf(c)[Len(c.rules) + j] = CommandItem(c, c.postCommands[j])
<1> DEFINE r == Len(c.rules)
           p == Len(c.postCommands)
           item(i) == IF i <= r THEN RuleItem(c, c.rules[i])
                      ELSE CommandItem(c, c.postCommands[i - r])
<1>1. r \in Nat /\ p \in Nat
  <2>1. c.rules \in Seq(PromptRule) /\ c.postCommands \in Seq(PostCommand)
    BY DEF CommandSequence
  <2> QED  BY <2>1, LenProperties
<1>2. ScriptOf(c) = [i \in 1..(r + p) |-> item(i)]
  BY DEF ScriptOf
<1>3. \A i : RuleItem(c, c.rules[i]) \in CS!Item
  BY DEF RuleItem, Says, CS!Item
<1>4. \A j : CommandItem(c, c.postCommands[j]) \in CS!Item
  BY DEF CommandItem, Says, CS!Item
<1>5. \A i : item(i) \in CS!Item
  BY <1>3, <1>4
<1>6. \A i \in 1..r : item(i) = RuleItem(c, c.rules[i])
  BY <1>1
<1>7. \A j \in 1..p : item(r + j) = CommandItem(c, c.postCommands[j])
  <2> SUFFICES ASSUME NEW j \in 1..p
               PROVE  item(r + j) = CommandItem(c, c.postCommands[j])
    OBVIOUS
  <2> HIDE DEF r, p
  <2>1. ~(r + j <= r) /\ (r + j) - r = j
    BY <1>1
  <2> QED  BY <2>1
<1> HIDE DEF r, p, item
<1>8. ScriptOf(c) \in [1..(r + p) -> CS!Item] /\ r + p \in Nat
  BY <1>1, <1>2, <1>5
<1>9. ScriptOf(c) \in Seq(CS!Item) /\ Len(ScriptOf(c)) = r + p
  BY <1>8, LenProperties
<1>10. \A i \in 1..r : i \in 1..(r + p)
  BY <1>1
<1>11. \A j \in 1..p : r + j \in 1..(r + p)
  BY <1>1
<1>12. \A i \in 1..r : ScriptOf(c)[i] = RuleItem(c, c.rules[i])
  BY <1>2, <1>6, <1>10
<1>13. \A j \in 1..p : ScriptOf(c)[r + j] = CommandItem(c, c.postCommands[j])
  BY <1>2, <1>7, <1>11
<1> QED  BY <1>9, <1>12, <1>13 DEF r, p

\* While a rule is in force, it is the current item of the script.
LEMMA RuleIsCurrent ==
    ASSUME IInv, MatchingRule
    PROVE  /\ CS!Pending
           /\ CS!Current = RuleItem(config_, Rule)
           /\ currentRuleIndex_ \in Nat /\ currentPostCmdIndex_ = 0
           /\ ~postCmdSent_
<1> DEFINE r == Len(config_.rules)
           p == Len(config_.postCommands)
<1>1. /\ currentRuleIndex_ \in Nat /\ currentRuleIndex_ < r
      /\ currentPostCmdIndex_ = 0 /\ ~postCmdSent_
  BY DEF IInv, ProgressOK, IndexInRange, FlagsAgree, MatchingRule, Rules
<1>2. r \in Nat /\ p \in Nat /\ config_ \in CommandSequence
  BY ConfigTypes DEF IInv, Rules, PostCommands
<1>3. /\ Len(ScriptOf(config_)) = r + p
      /\ \A i \in 1..r : ScriptOf(config_)[i] = RuleItem(config_, Rules[i])
  BY <1>2, ScriptProperties DEF Rules
<1> HIDE DEF r, p
<1>4. /\ currentRuleIndex_ + currentPostCmdIndex_ + 1 = currentRuleIndex_ + 1
      /\ currentRuleIndex_ + 1 \in 1..r
      /\ currentRuleIndex_ + currentPostCmdIndex_ < r + p
  BY <1>1, <1>2
<1> QED
  BY <1>1, <1>3, <1>4 DEF CS!Pending, CS!Current, Rule

\* While a command is in force, it is.
LEMMA PostCmdIsCurrent ==
    ASSUME IInv, SendingPostCmd
    PROVE  /\ CS!Pending
           /\ CS!Current = CommandItem(config_, PostCmd)
           /\ currentRuleIndex_ = Len(Rules) /\ Len(Rules) \in Nat
           /\ currentPostCmdIndex_ \in Nat
<1> DEFINE r == Len(config_.rules)
           p == Len(config_.postCommands)
<1>1. /\ currentRuleIndex_ = r /\ currentPostCmdIndex_ \in Nat
      /\ currentPostCmdIndex_ < p
  BY DEF IInv, ProgressOK, IndexInRange, SendingPostCmd, Rules, PostCommands
<1>2. r \in Nat /\ p \in Nat /\ config_ \in CommandSequence /\ Len(Rules) = r
  BY ConfigTypes DEF IInv, Rules, PostCommands
<1>3. /\ Len(ScriptOf(config_)) = r + p
      /\ \A j \in 1..p :
            ScriptOf(config_)[r + j] = CommandItem(config_, PostCommands[j])
  BY <1>2, ScriptProperties DEF PostCommands
<1> HIDE DEF r, p
<1>4. /\ currentRuleIndex_ + currentPostCmdIndex_ + 1
             = r + (currentPostCmdIndex_ + 1)
      /\ currentPostCmdIndex_ + 1 \in 1..p
      /\ currentRuleIndex_ + currentPostCmdIndex_ < r + p
  BY <1>1, <1>2
<1> QED
  BY <1>1, <1>2, <1>3, <1>4 DEF CS!Pending, CS!Current, PostCmd

\* sendToUart writes what the item in force says.
LEMMA SendsItem ==
    ASSUME NEW item, NEW text, SendToUart(item, text),
           CS!Current.says = Says(config_, text),
           item = currentRuleIndex_ + currentPostCmdIndex_ + 1
    PROVE  CS!Say
BY DEF SendToUart, Says, CS!Say

\* To leave a rule behind is a step of the script.
LEMMA RuleStep ==
    ASSUME IInv, MatchingRule, NextRule, UNCHANGED config_
    PROVE  /\ CS!Pending /\ CS!Current.kind = "rule"
           /\ currentRuleIndex_' + currentPostCmdIndex_'
                 = currentRuleIndex_ + currentPostCmdIndex_ + 1
           /\ postCmdSent_' = postCmdSent_
           /\ ScriptOf(config_)' = ScriptOf(config_)
<1>1. CS!Pending /\ CS!Current.kind = "rule"
  BY RuleIsCurrent DEF RuleItem
<1>2. /\ currentRuleIndex_' = currentRuleIndex_ + 1
      /\ currentPostCmdIndex_' = 0 /\ postCmdSent_' = FALSE
  BY RuleIsCurrent DEF NextRule, postVars
<1>3. postCmdSent_ = FALSE
  BY RuleIsCurrent DEF IInv, ProgressOK
<1>4. currentRuleIndex_' + currentPostCmdIndex_'
         = currentRuleIndex_ + currentPostCmdIndex_ + 1
  BY <1>2, RuleIsCurrent
<1>5. ScriptOf(config_)' = ScriptOf(config_)
  OBVIOUS
<1> QED  BY <1>1, <1>2, <1>3, <1>4, <1>5

\* So is to leave a command behind.
LEMMA PostCmdStep ==
    ASSUME IInv, SendingPostCmd, NextPostCmd, UNCHANGED config_
    PROVE  /\ currentRuleIndex_' + currentPostCmdIndex_'
                 = currentRuleIndex_ + currentPostCmdIndex_ + 1
           /\ postCmdSent_' = FALSE
           /\ ScriptOf(config_)' = ScriptOf(config_)
BY PostCmdIsCurrent DEF NextPostCmd, ruleVars

\* process answers a rule, sees a prompt, or only fills the buffer.
LEMMA ProcessRefines ==
    ASSUME IInv, NEW chunk \in Chunks, Process(chunk)
    PROVE  CS!Next \/ UNCHANGED CS!svars
<1> DEFINE buf == Trim(buffer_ \o chunk)
<1>1. config_' = config_ /\ (MatchTrigger(buf) \/ MatchPrompt(buf) \/ NoMatch(buf))
  BY DEF Process
<1> HIDE DEF buf
<1>2. CASE MatchTrigger(buf)
  <2>1. /\ MatchingRule /\ NextRule
        /\ SendToUart(currentRuleIndex_ + 1, Rule.response)
    BY <1>2 DEF MatchTrigger
  <2>2. CS!Current.says = Says(config_, Rule.response)
    BY <2>1, RuleIsCurrent DEF RuleItem
  <2>3. currentRuleIndex_ + 1 = currentRuleIndex_ + currentPostCmdIndex_ + 1
    BY <2>1, RuleIsCurrent
  <2>4. CS!Say
    BY <2>1, <2>2, <2>3, SendsItem
  <2>5. CS!Answer
    BY <1>1, <2>1, <2>4, RuleStep DEF CS!Answer
  <2> QED  BY <2>5 DEF CS!Next
<1>3. CASE MatchPrompt(buf)
  <2>1. /\ SendingPostCmd /\ NextPostCmd /\ waitingForPostPrompt_
        /\ UNCHANGED sent
    BY <1>3 DEF MatchPrompt
  <2>2. postCmdSent_
    BY <2>1 DEF IInv, ProgressOK, FlagsAgree
  <2>3. CS!Conclude
    BY <1>1, <2>1, <2>2, PostCmdStep DEF CS!Conclude
  <2> QED  BY <2>3 DEF CS!Next
<1>4. CASE NoMatch(buf)
  BY <1>1, <1>4 DEF NoMatch, ruleVars, postVars, CS!svars
<1> QED  BY <1>1, <1>2, <1>3, <1>4

\* tick skips a rule, issues a command, gives up on a prompt, or only
\* advances a timer.
LEMMA TickRefines ==
    ASSUME IInv, NEW ms \in TickSteps, Tick(ms)
    PROVE  CS!Next \/ UNCHANGED CS!svars
<1>1. config_' = config_
  BY DEF Tick
<1>2. CASE RuleTimer(ms) \/ PostDelay(ms) \/ PromptTimer(ms) \/ TickNothing(ms)
  BY <1>1, <1>2 DEF RuleTimer, PostDelay, PromptTimer, TickNothing, ruleVars,
     postVars, CS!svars
<1>3. CASE RuleTimeout(ms)
  <2>1. MatchingRule /\ NextRule /\ UNCHANGED sent
    BY <1>3 DEF RuleTimeout
  <2>2. CS!Skip
    BY <1>1, <2>1, RuleStep DEF CS!Skip
  <2> QED  BY <2>2 DEF CS!Next
<1>4. CASE PromptTimeout(ms)
  <2>1. SendingPostCmd /\ postCmdSent_ /\ NextPostCmd /\ UNCHANGED sent
    BY <1>4 DEF PromptTimeout
  <2>2. CS!Conclude
    BY <1>1, <2>1, PostCmdStep DEF CS!Conclude
  <2> QED  BY <2>2 DEF CS!Next
<1>5. CASE PostDelayOver(ms)
  <2>1. /\ SendingPostCmd /\ ~postCmdSent_ /\ SendCurrentPostCommand
        /\ SendToUart(Len(Rules) + currentPostCmdIndex_ + 1, PostCmd.command)
    BY <1>5 DEF PostDelayOver, SendCurrentPostCommand
  <2>2. /\ CS!Pending /\ CS!Current.kind = "command"
        /\ CS!Current.says = Says(config_, PostCmd.command)
        /\ CS!Current.awaits = (PostCmd.expectedPrompt # <<>>)
    BY <2>1, PostCmdIsCurrent DEF CommandItem
  <2>3. CS!Say
    BY <2>1, <2>2, PostCmdIsCurrent, SendsItem
  <2>4. CASE PostCmd.expectedPrompt # <<>>
    <3>1. /\ postCmdSent_' = TRUE
          /\ UNCHANGED <<currentRuleIndex_, currentPostCmdIndex_>>
      BY <2>1, <2>4 DEF SendCurrentPostCommand, ruleVars
    <3>2. CS!Issue
      BY <1>1, <2>1, <2>2, <2>3, <2>4, <3>1 DEF CS!Issue
    <3> QED  BY <3>2 DEF CS!Next
  <2>5. CASE PostCmd.expectedPrompt = <<>>
    <3>1. NextPostCmd
      BY <2>1, <2>5 DEF SendCurrentPostCommand
    <3>2. CS!Issue
      BY <1>1, <2>1, <2>2, <2>3, <2>5, <3>1, PostCmdStep DEF CS!Issue
    <3> QED  BY <3>2 DEF CS!Next
  <2> QED  BY <2>4, <2>5
<1> QED  BY <1>2, <1>3, <1>4, <1>5 DEF Tick

\* setConfig loads the script of the configuration.
LEMMA SetConfigRefines ==
    ASSUME NEW seq \in Configs, SetConfig(seq)
    PROVE  CS!Next
<1>1. CS!Load(ScriptOf(seq))
  BY DEF SetConfig, ResetState, CS!Load
<1> QED  BY <1>1 DEF CS!Next

LEMMA NextRefines == IInv /\ [Next]_vars => [CS!Next]_(CS!svars)
<1> SUFFICES ASSUME IInv, [Next]_vars PROVE CS!Next \/ UNCHANGED CS!svars
  OBVIOUS
<1>1. CASE \E chunk \in Chunks : Process(chunk)
  BY <1>1, ProcessRefines
<1>2. CASE \E ms \in TickSteps : Tick(ms)
  BY <1>2, TickRefines
<1>3. CASE \E seq \in Configs : SetConfig(seq)
  BY <1>3, SetConfigRefines
<1>4. CASE UNCHANGED vars
  BY <1>4 DEF vars, ruleVars, postVars, CS!svars
<1> QED  BY <1>1, <1>2, <1>3, <1>4 DEF Next

\* The responder starts with the empty script.
LEMMA InitRefines == Init => CS!Init
<1> SUFFICES ASSUME Init PROVE CS!Init
  OBVIOUS
<1>1. config_.rules = <<>> /\ config_.postCommands = <<>>
  BY DEF Init, EmptyConfig
<1>2. config_ \in CommandSequence
  BY InitEstablishes DEF IInv
<1>3. ScriptOf(config_) \in Seq(CS!Item) /\ Len(ScriptOf(config_)) = 0
  <2>1. Len(config_.rules) = 0 /\ Len(config_.postCommands) = 0
    BY <1>1, EmptySeq
  <2>2. /\ ScriptOf(config_) \in Seq(CS!Item)
        /\ Len(ScriptOf(config_)) = Len(config_.rules) + Len(config_.postCommands)
    BY <1>2, ScriptProperties
  <2> QED  BY <2>1, <2>2
<1>4. ScriptOf(config_) = <<>>
  BY <1>3, EmptySeq
<1> QED  BY <1>4 DEF Init, CS!Init

\* The responder, whatever arrives when, deals with its rules and then its
\* commands one at a time and in order, as CommandScript says.
THEOREM Refinement == Spec => ImplementsScript
<1>1. Init => CS!Init
  BY InitRefines
<1>2. IInv /\ [Next]_vars => [CS!Next]_(CS!svars)
  BY NextRefines
<1> QED  BY <1>1, <1>2, Invariance, PTL DEF Spec, ImplementsScript, CS!Spec

-----------------------------------------------------------------------------
(* What CommandScript guarantees holds of the responder.                   *)

CSP == INSTANCE CommandScriptProofs WITH
          Scripts <- {ScriptOf(c) : c \in Configs},
          script  <- ScriptOf(config_),
          next    <- currentRuleIndex_ + currentPostCmdIndex_,
          issued  <- postCmdSent_,
          output  <- sent

LEMMA ScriptInvariance == Spec => []CSP!IInv
<1>1. {ScriptOf(c) : c \in Configs} \subseteq Seq(CSP!Item)
  BY ScriptProperties, ConstantsAssumption DEF CS!Item, CSP!Item
<1>2. CS!Init => CSP!IInv
  BY CSP!InitEstablishes DEF CS!Init, CSP!Init
<1>3. [CS!Next]_(CS!svars) => [CSP!Next]_(CSP!svars)
  BY DEF CS!Next, CSP!Next, CS!svars, CSP!svars, CS!Load, CSP!Load,
         CS!Answer, CSP!Answer, CS!Skip, CSP!Skip, CS!Issue, CSP!Issue,
         CS!Conclude, CSP!Conclude, CS!Say, CSP!Say, CS!Current, CSP!Current,
         CS!Pending, CSP!Pending
<1>4. CSP!IInv /\ [CSP!Next]_(CSP!svars) => CSP!IInv'
  BY <1>1, CSP!NextKeeps
<1>5. Spec => CS!Init /\ [][CS!Next]_(CS!svars)
  BY Refinement DEF ImplementsScript, CS!Spec
<1> QED  BY <1>2, <1>3, <1>4, <1>5, PTL

\* The responder writes responses and commands at most once, in their order.
THEOREM ResponderWritesInOrder == Spec => []WrittenInOrder
<1>1. CSP!IInv => WrittenInOrder
  BY DEF CSP!IInv, CSP!WrittenInOrder, WrittenInOrder, CS!WrittenInOrder
<1> QED  BY <1>1, ScriptInvariance, PTL

\* The responder never gets past a command that it has not written.
THEOREM ResponderSkipsNoCommand == Spec => []CommandsNeverSkipped
<1>1. CSP!IInv => CommandsNeverSkipped
  BY DEF CSP!IInv, CSP!CommandsNeverSkipped, CommandsNeverSkipped,
         CS!CommandsNeverSkipped
<1> QED  BY <1>1, ScriptInvariance, PTL

-----------------------------------------------------------------------------
(* Numbers and strings.                                                    *)

\* A set of naturals that is not empty has a least element.
LEMMA LeastNumber ==
    ASSUME NEW T, T \subseteq Nat, T # {}
    PROVE  \E n \in T : \A m \in T : n <= m
<1>1. \E n \in T : \A m \in T : <<m, n>> \notin OpToRel(<, Nat)
  BY NatLessThanWellFounded, WFMin
<1>2. \A m, n \in Nat : m < n => <<m, n>> \in OpToRel(<, Nat)
  BY DEF OpToRel
<1>3. PICK n \in T : \A m \in T : <<m, n>> \notin OpToRel(<, Nat)
  BY <1>1
<1>4. ASSUME NEW m \in T PROVE n <= m
  <2>1. m \in Nat /\ n \in Nat /\ ~(m < n)
    BY <1>2, <1>3
  <2> QED  BY <2>1
<1> QED  BY <1>4

\* Where a string occurs, it is found.
LEMMA FoundWhereItOccurs ==
    ASSUME NEW p \in Seq(Byte), NEW s \in Seq(Byte), Find(p, s) = {}
    PROVE  Occurrences(p, s) = {}
<1> SUFFICES ASSUME Occurrences(p, s) # {} PROVE FALSE
  OBVIOUS
<1>1. Len(p) \in Nat /\ Len(s) \in Nat
  BY LenProperties
<1>2. Occurrences(p, s) \subseteq Nat
  BY <1>1 DEF Occurrences
<1> QED  BY <1>2, LeastNumber DEF Find

\* The part of a string after its first a elements and up to its b-th.
LEMMA PartProperties ==
    ASSUME NEW S, NEW s \in Seq(S), NEW a \in Nat, NEW b \in Nat,
           a <= b, b <= Len(s)
    PROVE  /\ SubSeq(s, a + 1, b) \in Seq(S)
           /\ Len(SubSeq(s, a + 1, b)) = b - a
           /\ \A i \in 1..(b - a) : SubSeq(s, a + 1, b)[i] = s[a + i]
<1>1. Len(s) \in Nat /\ a + 1 \in Int /\ b \in Int
  BY LenProperties
<1>2. \A i \in (a + 1)..b : s[i] \in S
  BY <1>1, ElementOfSeq
<1>3. /\ SubSeq(s, a + 1, b) \in Seq(S)
      /\ Len(SubSeq(s, a + 1, b)) = IF a + 1 <= b THEN b - (a + 1) + 1 ELSE 0
      /\ \A i \in 1..(b - (a + 1) + 1) :
            SubSeq(s, a + 1, b)[i] = s[(a + 1) + i - 1]
  BY <1>1, <1>2, SubSeqProperties
<1>4. b - (a + 1) + 1 = b - a /\ \A i \in 1..(b - a) : (a + 1) + i - 1 = a + i
  OBVIOUS
<1> QED  BY <1>3, <1>4

\* A part of what is left of a string is a part of the string.
LEMMA PartOfErased ==
    ASSUME NEW S, NEW s \in Seq(S), NEW n \in Nat, NEW a \in Nat, NEW b \in Nat,
           a <= b, n + b <= Len(s)
    PROVE  SubSeq(Erase(s, n), a + 1, b) = SubSeq(s, n + a + 1, n + b)
<1> DEFINE t == Erase(s, n)
           u == SubSeq(t, a + 1, b)
           v == SubSeq(s, (n + a) + 1, n + b)
<1>1. Len(s) \in Nat /\ n <= Len(s)
  BY LenProperties
<1>2. /\ t \in Seq(S) /\ Len(t) = Len(s) - n
      /\ \A i \in 1..(Len(s) - n) : t[i] = s[n + i]
  BY <1>1, PartProperties DEF Erase
<1> HIDE DEF t
<1>3. u \in Seq(S) /\ Len(u) = b - a /\ \A i \in 1..(b - a) : u[i] = t[a + i]
  <2>1. b <= Len(t)
    BY <1>1, <1>2
  <2> QED  BY <1>2, <2>1, PartProperties
<1>4. v \in Seq(S) /\ Len(v) = b - a /\ \A i \in 1..(b - a) : v[i] = s[(n + a) + i]
  <2>1. n + a \in Nat /\ n + b \in Nat /\ (n + b) - (n + a) = b - a /\ n + a <= n + b
    OBVIOUS
  <2>2. PICK x \in Nat : x = n + a
    BY <2>1
  <2>3. PICK y \in Nat : y = n + b
    BY <2>1
  <2>4. x <= y /\ y <= Len(s) /\ y - x = b - a
    BY <2>1, <2>2, <2>3
  <2>5. /\ SubSeq(s, x + 1, y) \in Seq(S) /\ Len(SubSeq(s, x + 1, y)) = y - x
        /\ \A i \in 1..(y - x) : SubSeq(s, x + 1, y)[i] = s[x + i]
    BY <2>4, PartProperties
  <2> QED  BY <2>2, <2>3, <2>4, <2>5
<1> HIDE DEF u, v
<1>5. ASSUME NEW i \in 1..(b - a) PROVE u[i] = v[i]
  <2>1. a + i \in 1..(Len(s) - n) /\ n + (a + i) = (n + a) + i
    BY <1>1
  <2> QED  BY <1>2, <1>3, <1>4, <2>1
<1>6. u = v
  BY <1>3, <1>4, <1>5, SeqEqual
<1> QED  BY <1>6 DEF u, v, t

\* The same for bytes.
LEMMA PartOfErasedBytes ==
    \A s \in Seq(Byte) : \A n, a, b \in Nat :
        a <= b /\ n + b <= Len(s)
            => SubSeq(Erase(s, n), a + 1, b) = SubSeq(s, n + a + 1, n + b)
BY PartOfErased

\* To cut off twice is to cut off the sum.
LEMMA EraseTwice ==
    ASSUME NEW S, NEW s \in Seq(S), NEW n \in Nat, NEW m \in Nat,
           n + m <= Len(s)
    PROVE  Erase(Erase(s, n), m) = Erase(s, n + m)
<1>1. Len(s) \in Nat /\ n \in 0..Len(s)
  BY LenProperties
<1>2. Len(Erase(s, n)) = Len(s) - n
  BY <1>1, EraseProperties
<1>3. Len(s) - n \in Nat /\ m <= Len(s) - n /\ n + (Len(s) - n) = Len(s)
  BY <1>1
<1>4. PICK b \in Nat : b = Len(s) - n
  BY <1>3
<1>5. SubSeq(Erase(s, n), m + 1, b) = SubSeq(s, n + m + 1, n + b)
  <2>1. n + b <= Len(s) /\ m <= b
    BY <1>1, <1>3, <1>4
  <2> QED  BY <2>1, PartOfErased
<1> QED  BY <1>2, <1>3, <1>4, <1>5 DEF Erase

\* What comes later does not change a part of what was there.
LEMMA PartOfConcat ==
    ASSUME NEW S, NEW s \in Seq(S), NEW t \in Seq(S), NEW a \in Nat, NEW b \in Nat,
           a <= b, b <= Len(s)
    PROVE  SubSeq(s \o t, a + 1, b) = SubSeq(s, a + 1, b)
<1>1. Len(s) \in Nat /\ Len(t) \in Nat
  BY LenProperties
<1>2. /\ s \o t \in Seq(S) /\ Len(s \o t) = Len(s) + Len(t)
      /\ \A i \in 1..(Len(s) + Len(t)) :
            (s \o t)[i] = IF i <= Len(s) THEN s[i] ELSE t[i - Len(s)]
  BY ConcatProperties
<1>3. \A i \in 1..Len(s) : (s \o t)[i] = s[i]
  BY <1>1, <1>2
<1>4. /\ SubSeq(s \o t, a + 1, b) \in Seq(S)
      /\ Len(SubSeq(s \o t, a + 1, b)) = b - a
      /\ \A i \in 1..(b - a) : SubSeq(s \o t, a + 1, b)[i] = (s \o t)[a + i]
  <2>1. b <= Len(s \o t)
    BY <1>1, <1>2
  <2> QED  BY <1>2, <2>1, PartProperties
<1>5. /\ SubSeq(s, a + 1, b) \in Seq(S)
      /\ Len(SubSeq(s, a + 1, b)) = b - a
      /\ \A i \in 1..(b - a) : SubSeq(s, a + 1, b)[i] = s[a + i]
  BY PartProperties
<1>6. ASSUME NEW i \in 1..(b - a)
      PROVE  SubSeq(s \o t, a + 1, b)[i] = SubSeq(s, a + 1, b)[i]
  <2>1. a + i \in 1..Len(s)
    BY <1>1
  <2> QED  BY <1>3, <1>4, <1>5, <2>1
<1> QED  BY <1>4, <1>5, <1>6, SeqEqual

\* To cut off before more comes is to cut off after.
LEMMA EraseOfConcat ==
    ASSUME NEW S, NEW s \in Seq(S), NEW t \in Seq(S), NEW n \in Nat, n <= Len(s)
    PROVE  Erase(s \o t, n) = Erase(s, n) \o t
<1>1. Len(s) \in Nat /\ Len(t) \in Nat
  BY LenProperties
<1>2. /\ s \o t \in Seq(S) /\ Len(s \o t) = Len(s) + Len(t)
      /\ \A i \in 1..(Len(s) + Len(t)) :
            (s \o t)[i] = IF i <= Len(s) THEN s[i] ELSE t[i - Len(s)]
  BY ConcatProperties
<1> DEFINE u == Erase(s \o t, n)
           e == Erase(s, n)
<1>3. /\ e \in Seq(S) /\ Len(e) = Len(s) - n
      /\ \A i \in 1..(Len(s) - n) : e[i] = s[n + i]
  BY <1>1, PartProperties DEF Erase
<1>4. /\ u \in Seq(S) /\ Len(u) = Len(s) + Len(t) - n
      /\ \A i \in 1..(Len(s) + Len(t) - n) : u[i] = (s \o t)[n + i]
  <2>1. Len(s \o t) \in Nat /\ n <= Len(s \o t)
    BY <1>1, <1>2
  <2> QED  BY <1>2, <2>1, PartProperties DEF Erase
<1> HIDE DEF u, e
<1>5. /\ e \o t \in Seq(S) /\ Len(e \o t) = Len(s) - n + Len(t)
      /\ \A i \in 1..(Len(s) - n + Len(t)) :
            (e \o t)[i] = IF i <= Len(s) - n THEN e[i] ELSE t[i - (Len(s) - n)]
  <2>1. /\ e \o t \in Seq(S) /\ Len(e \o t) = Len(e) + Len(t)
        /\ \A i \in 1..(Len(e) + Len(t)) :
              (e \o t)[i] = IF i <= Len(e) THEN e[i] ELSE t[i - Len(e)]
    <3>1. e \in Seq(S)
      BY <1>3
    <3> QED  BY <3>1, ConcatProperties
  <2>2. Len(e) = Len(s) - n
    BY <1>3
  <2> QED  BY <2>1, <2>2
<1>6. ASSUME NEW i \in 1..(Len(s) + Len(t) - n) PROVE u[i] = (e \o t)[i]
  <2>1. /\ n + i \in 1..(Len(s) + Len(t)) /\ i \in 1..(Len(s) - n + Len(t))
        /\ (n + i) - Len(s) = i - (Len(s) - n)
        /\ n + i <= Len(s) <=> i \in 1..(Len(s) - n)
        /\ i <= Len(s) - n <=> i \in 1..(Len(s) - n)
    BY <1>1
  <2> QED  BY <1>2, <1>3, <1>4, <1>5, <2>1
<1>7. Len(s) + Len(t) - n = Len(s) - n + Len(t)
  BY <1>1
<1>8. u = e \o t
  BY <1>4, <1>5, <1>6, <1>7, SeqEqual
<1> QED  BY <1>8 DEF u, e

\* The history starts and goes on as the responder does.
LEMMA HistoryFollows ==
    /\ HInit => Init
    /\ [HNext]_hvars => [Next]_vars
<1>1. HInit => Init
  BY DEF HInit
<1>2. HNext => Next
  BY DEF HNext, Next, HProcess, HTick, HSetConfig
<1> QED  BY <1>1, <1>2 DEF hvars

\* So the responder's invariant holds under observation.
LEMMA ObservedInvariance == HSpec => []IInv
BY HistoryFollows, Invariance, PTL DEF HSpec, Spec

-----------------------------------------------------------------------------
(* What a step is to an observer.                                          *)

\* A trigger or a prompt is waited for.
Waiting == MatchingRule \/ (SendingPostCmd /\ waitingForPostPrompt_)

\* The timer that runs, and what it is compared with.
Timer == IF state_ = "MATCHING_RULES"
         THEN elapsedSinceRuleStart_ ELSE postCmdDelayAccum_
Limit == IF SendingPostCmd /\ ~postCmdSent_
         THEN PostCmd.delayMs ELSE config_.promptTimeoutMs
Counted ==
    \/ Waiting /\ config_.promptTimeoutMs > 0
    \/ SendingPostCmd /\ ~postCmdSent_

Passed ==
    /\ Progress' = Progress + 1
    /\ postCmdSent_' = FALSE
    /\ elapsedSinceRuleStart_' = 0 /\ postCmdDelayAccum_' = 0

Matched(buf) ==
    /\ Waiting /\ Passed
    /\ \E pos \in Find(Awaited, buf) :
          buffer_' = Erase(buf, pos + Len(Awaited))
    /\ LET to == Len(received') - Len(buffer_')
       IN  matches' = Append(matches,
              [item |-> Progress + 1, from |-> to - Len(Awaited),
               to |-> to, since |-> began])
    /\ EndWait("matched", waited)
    /\ \/ /\ MatchingRule /\ currentRuleIndex_' = currentRuleIndex_ + 1
          /\ SendToUart(Progress + 1, Rule.response)
       \/ /\ SendingPostCmd /\ currentRuleIndex_' = currentRuleIndex_
          /\ UNCHANGED sent

Unmatched(buf) ==
    /\ Waiting => Occurrences(Awaited, buf) = {}
    /\ buffer_' = buf
    /\ UNCHANGED <<state_, ruleVars, postVars, sent, matches, began, waited,
                   lastWait>>

GaveUp(ms) ==
    /\ Waiting /\ Counted /\ Plus(Timer, ms) >= Limit
    /\ Limit = config_.promptTimeoutMs
    /\ Passed
    /\ EndWait("timed out", waited + ms)
    /\ UNCHANGED sent
    /\ \/ MatchingRule /\ currentRuleIndex_' = currentRuleIndex_ + 1
       \/ SendingPostCmd /\ currentRuleIndex_' = currentRuleIndex_

Issued(ms) ==
    /\ SendingPostCmd /\ ~postCmdSent_
    /\ Plus(Timer, ms) >= Limit
    /\ \/ Passed
       \/ /\ Progress' = Progress /\ postCmdSent_' = TRUE
          /\ elapsedSinceRuleStart_' = 0 /\ postCmdDelayAccum_' = 0
    /\ EndWait("sent", waited + ms)
    /\ currentRuleIndex_' = currentRuleIndex_
    /\ sent' = sent \/ sent' = Append(sent, Progress + 1)

Idled(ms) ==
    /\ UNCHANGED <<state_, currentRuleIndex_, currentPostCmdIndex_,
                   waitingForPostPrompt_, postCmdSent_, sent, began, lastWait>>
    /\ waited' = Min(waited + ms, UINT32)
    /\ Counted => Timer' = Plus(Timer, ms)

\* Where the responder stands while it waits, or is about to send.
LEMMA Standing ==
    ASSUME IInv
    PROVE  /\ Progress \in Nat /\ Len(Rules) \in Nat /\ Len(PostCommands) \in Nat
           /\ currentRuleIndex_ \in Nat /\ currentPostCmdIndex_ \in Nat
           /\ MatchingRule => /\ Progress = currentRuleIndex_
                              /\ currentPostCmdIndex_ = 0
                              /\ currentRuleIndex_ + 1 \in 1..Len(Rules)
                              /\ Rule \in PromptRule
                              /\ postCmdDelayAccum_ = 0
           /\ SendingPostCmd => /\ Progress = Len(Rules) + currentPostCmdIndex_
                                /\ currentRuleIndex_ = Len(Rules)
                                /\ currentPostCmdIndex_ + 1 \in 1..Len(PostCommands)
                                /\ PostCmd \in PostCommand
                                /\ elapsedSinceRuleStart_ = 0
           /\ waitingForPostPrompt_ => PostCmd.expectedPrompt # <<>>
           /\ waitingForPostPrompt_ = postCmdSent_
           /\ postCmdSent_ => SendingPostCmd
<1>1. /\ Rules \in Seq(PromptRule) /\ Len(Rules) \in Nat
      /\ PostCommands \in Seq(PostCommand) /\ Len(PostCommands) \in Nat
  BY ConfigTypes DEF IInv
<1>2. ProgressOK
  BY DEF IInv
<1>3. /\ currentRuleIndex_ \in Nat /\ currentPostCmdIndex_ \in Nat
      /\ Progress \in Nat
  BY <1>1, <1>2 DEF ProgressOK, Progress
<1>4. MatchingRule => /\ Progress = currentRuleIndex_
                      /\ currentPostCmdIndex_ = 0
                      /\ currentRuleIndex_ + 1 \in 1..Len(Rules)
                      /\ postCmdDelayAccum_ = 0
  BY <1>1, <1>2, <1>3 DEF ProgressOK, IndexInRange, TimersInBounds, MatchingRule,
     Progress
<1>5. SendingPostCmd => /\ Progress = Len(Rules) + currentPostCmdIndex_
                        /\ currentRuleIndex_ = Len(Rules)
                        /\ currentPostCmdIndex_ + 1 \in 1..Len(PostCommands)
                        /\ elapsedSinceRuleStart_ = 0
  BY <1>1, <1>2, <1>3 DEF ProgressOK, IndexInRange, TimersInBounds,
     SendingPostCmd, Progress
<1>6. MatchingRule => Rule \in PromptRule
  BY <1>1, <1>4, ElementOfSeq DEF Rule
<1>7. SendingPostCmd => PostCmd \in PostCommand
  BY <1>1, <1>5, ElementOfSeq DEF PostCmd
<1>8. /\ waitingForPostPrompt_ = postCmdSent_
      /\ postCmdSent_ => SendingPostCmd /\ PostCmd.expectedPrompt # <<>>
  BY <1>1, <1>2 DEF ProgressOK, IndexInRange, FlagsAgree, SendingPostCmd
<1> QED  BY <1>1, <1>3, <1>4, <1>5, <1>6, <1>7, <1>8

\* What is waited for is the trigger of the rule or the prompt of the command.
LEMMA AwaitedIs ==
    ASSUME IInv
    PROVE  /\ MatchingRule => Awaited = Rule.trigger
           /\ SendingPostCmd => Awaited = PostCmd.expectedPrompt
           /\ Waiting => Awaited \in Seq(Byte)
<1>1. MatchingRule => Awaited = Rule.trigger /\ Rule.trigger \in Seq(Byte)
  BY Standing DEF Awaited, MatchingRule, PromptRule
<1>2. SendingPostCmd => Awaited = PostCmd.expectedPrompt
  BY Standing DEF Awaited
<1>3. SendingPostCmd => PostCmd.expectedPrompt \in Seq(Byte)
  BY Standing DEF PostCommand
<1> QED  BY <1>1, <1>2, <1>3 DEF Waiting

\* Passing on resets the timers and takes the responder one item further.
LEMMA NextRulePasses ==
    ASSUME IInv, MatchingRule, NextRule
    PROVE  Passed
<1>1. /\ currentRuleIndex_' = currentRuleIndex_ + 1
      /\ elapsedSinceRuleStart_' = 0 /\ currentPostCmdIndex_' = 0
      /\ postCmdDelayAccum_' = 0 /\ postCmdSent_' = FALSE
  BY Standing DEF NextRule, postVars, IInv, ProgressOK, MatchingRule,
     SendingPostCmd
<1> QED  BY <1>1, Standing DEF Passed, Progress

\* The same for a command.
LEMMA NextPostCmdPasses ==
    ASSUME IInv, SendingPostCmd, NextPostCmd
    PROVE  Passed
BY Standing DEF NextPostCmd, ruleVars, Passed, Progress

\* A chunk is matched with what is waited for, or only fills the buffer.
LEMMA ProcessCases ==
    ASSUME IInv, NEW chunk \in Chunks, HProcess(chunk),
           NEW buf \in Seq(Byte), buf = Trim(buffer_ \o chunk)
    PROVE  /\ received' = received \o chunk /\ config_' = config_
           /\ Matched(buf) \/ Unmatched(buf)
<1>1. /\ received' = received \o chunk /\ config_' = config_
      /\ MatchTrigger(buf) \/ MatchPrompt(buf) \/ NoMatch(buf)
  BY DEF HProcess, Process
<1>2. /\ Progress' # Progress
            => /\ LET to == Len(received') - Len(buffer_')
                  IN  matches' = Append(matches,
                        [item |-> Progress + 1, from |-> to - Len(Awaited),
                         to |-> to, since |-> began])
               /\ EndWait("matched", waited)
      /\ Progress' = Progress => UNCHANGED <<matches, began, waited, lastWait>>
  BY DEF HProcess
<1>3. Passed => Progress' # Progress
  BY Standing DEF Passed
<1>4. CASE MatchTrigger(buf)
  <2>1. /\ MatchingRule /\ NextRule
        /\ \E pos \in Find(Rule.trigger, buf) :
              buffer_' = Erase(buf, pos + Len(Rule.trigger))
        /\ SendToUart(currentRuleIndex_ + 1, Rule.response)
    BY <1>4 DEF MatchTrigger
  <2>2. Passed /\ Waiting
    BY <2>1, NextRulePasses DEF Waiting
  <2>3. \E pos \in Find(Awaited, buf) : buffer_' = Erase(buf, pos + Len(Awaited))
    BY <2>1, AwaitedIs
  <2>4. /\ SendToUart(Progress + 1, Rule.response)
        /\ currentRuleIndex_' = currentRuleIndex_ + 1
    BY <2>1, Standing DEF NextRule
  <2> QED  BY <1>1, <1>2, <1>3, <2>1, <2>2, <2>3, <2>4 DEF Matched
<1>5. CASE MatchPrompt(buf)
  <2>1. /\ SendingPostCmd /\ waitingForPostPrompt_ /\ NextPostCmd
        /\ \E pos \in Find(PostCmd.expectedPrompt, buf) :
              buffer_' = Erase(buf, pos + Len(PostCmd.expectedPrompt))
        /\ UNCHANGED sent
    BY <1>5 DEF MatchPrompt
  <2>2. Passed /\ Waiting
    BY <2>1, NextPostCmdPasses DEF Waiting
  <2>3. \E pos \in Find(Awaited, buf) : buffer_' = Erase(buf, pos + Len(Awaited))
    BY <2>1, AwaitedIs
  <2> QED  BY <1>1, <1>2, <1>3, <2>1, <2>2, <2>3 DEF Matched, NextPostCmd,
           ruleVars
<1>6. CASE NoMatch(buf)
  <2>1. /\ buffer_' = buf
        /\ UNCHANGED <<state_, ruleVars, postVars, sent>>
        /\ MatchingRule => Find(Rule.trigger, buf) = {}
        /\ SendingPostCmd /\ waitingForPostPrompt_ /\ PostCmd.expectedPrompt # <<>>
              => Find(PostCmd.expectedPrompt, buf) = {}
    BY <1>6 DEF NoMatch
  <2>2. Progress' = Progress
    BY <2>1 DEF Progress, ruleVars, postVars
  <2>3. Waiting => Find(Awaited, buf) = {} /\ Awaited \in Seq(Byte)
    BY <2>1, AwaitedIs, Standing DEF Waiting
  <2>4. Waiting => Occurrences(Awaited, buf) = {}
    BY <2>3, FoundWhereItOccurs
  <2> QED  BY <1>1, <1>2, <2>1, <2>2, <2>4 DEF Unmatched
<1> QED  BY <1>1, <1>4, <1>5, <1>6

\* A tick ends a wait for a trigger, a prompt or a delay, or lets time pass.
LEMMA TickCases ==
    ASSUME IInv, NEW ms \in TickSteps, HTick(ms)
    PROVE  /\ UNCHANGED <<config_, buffer_, received, matches>>
           /\ GaveUp(ms) \/ Issued(ms) \/ Idled(ms)
<1>1. /\ UNCHANGED <<config_, buffer_, received, matches>>
      /\ \/ RuleTimer(ms) \/ RuleTimeout(ms) \/ PostDelay(ms)
         \/ PostDelayOver(ms) \/ PromptTimer(ms) \/ PromptTimeout(ms)
         \/ TickNothing(ms)
  BY DEF HTick, Tick
<1>2. /\ <<Progress, postCmdSent_>>' # <<Progress, postCmdSent_>>
            => EndWait(IF state_ = "MATCHING_RULES" \/ postCmdSent_
                       THEN "timed out" ELSE "sent", waited + ms)
      /\ <<Progress, postCmdSent_>>' = <<Progress, postCmdSent_>>
            => waited' = Min(waited + ms, UINT32) /\ UNCHANGED <<began, lastWait>>
  BY DEF HTick
<1>3. Passed => Progress' # Progress
  BY Standing DEF Passed
<1>4. ASSUME UNCHANGED <<state_, currentRuleIndex_, currentPostCmdIndex_,
                         waitingForPostPrompt_, postCmdSent_, sent>>,
             Counted => Timer' = Plus(Timer, ms)
      PROVE  Idled(ms)
  BY <1>2, <1>4 DEF Idled, Progress
<1>5. CASE RuleTimer(ms)
  <2>1. Timer' = Plus(Timer, ms)
    BY <1>5 DEF RuleTimer, Timer, MatchingRule
  <2> QED  BY <1>1, <1>4, <1>5, <2>1 DEF RuleTimer, postVars
<1>6. CASE RuleTimeout(ms)
  <2>1. /\ MatchingRule /\ NextRule /\ UNCHANGED sent
        /\ config_.promptTimeoutMs > 0
        /\ Plus(elapsedSinceRuleStart_, ms) >= config_.promptTimeoutMs
    BY <1>6 DEF RuleTimeout
  <2>2. Passed
    BY <2>1, NextRulePasses
  <2>3. EndWait("timed out", waited + ms)
    BY <1>2, <1>3, <2>1, <2>2 DEF MatchingRule
  <2>4. /\ Timer = elapsedSinceRuleStart_ /\ Limit = config_.promptTimeoutMs
        /\ Waiting /\ Counted
    BY <2>1 DEF Timer, Limit, MatchingRule, SendingPostCmd, Waiting, Counted
  <2> QED  BY <1>1, <2>1, <2>2, <2>3, <2>4 DEF GaveUp, NextRule
<1>7. CASE PostDelay(ms)
  <2>1. Timer' = Plus(Timer, ms)
    BY <1>7 DEF PostDelay, Timer, SendingPostCmd
  <2> QED  BY <1>1, <1>4, <1>7, <2>1 DEF PostDelay, ruleVars
<1>8. CASE PostDelayOver(ms)
  <2>1. /\ SendingPostCmd /\ ~postCmdSent_ /\ SendCurrentPostCommand
        /\ Plus(postCmdDelayAccum_, ms) >= PostCmd.delayMs
    BY <1>8 DEF PostDelayOver
  <2>2. /\ Timer = postCmdDelayAccum_ /\ Limit = PostCmd.delayMs
        /\ state_ # "MATCHING_RULES"
    BY <2>1 DEF Timer, Limit, SendingPostCmd
  <2>3. sent' = sent \/ sent' = Append(sent, Progress + 1)
    BY <2>1, Standing DEF SendCurrentPostCommand, SendToUart
  <2>4. \/ Passed
        \/ /\ Progress' = Progress /\ postCmdSent_' = TRUE
           /\ elapsedSinceRuleStart_' = 0 /\ postCmdDelayAccum_' = 0
    BY <2>1, Standing, NextPostCmdPasses DEF SendCurrentPostCommand, ruleVars,
       Progress
  <2>5. EndWait("sent", waited + ms)
    <3>1. <<Progress, postCmdSent_>>' # <<Progress, postCmdSent_>>
      BY <1>3, <2>1, <2>4
    <3> QED  BY <1>2, <2>1, <2>2, <3>1
  <2>6. currentRuleIndex_' = currentRuleIndex_
    BY <2>1 DEF SendCurrentPostCommand, NextPostCmd, ruleVars
  <2> QED  BY <1>1, <2>1, <2>2, <2>3, <2>4, <2>5, <2>6 DEF Issued
<1>9. CASE PromptTimer(ms)
  <2>1. Timer' = Plus(Timer, ms)
    BY <1>9 DEF PromptTimer, Timer, SendingPostCmd
  <2> QED  BY <1>1, <1>4, <1>9, <2>1 DEF PromptTimer, ruleVars
<1>10. CASE PromptTimeout(ms)
  <2>1. /\ SendingPostCmd /\ NextPostCmd /\ postCmdSent_ /\ UNCHANGED sent
        /\ waitingForPostPrompt_
        /\ config_.promptTimeoutMs > 0
        /\ Plus(postCmdDelayAccum_, ms) >= config_.promptTimeoutMs
    BY <1>10 DEF PromptTimeout
  <2>2. Passed
    BY <2>1, NextPostCmdPasses
  <2>3. EndWait("timed out", waited + ms)
    BY <1>2, <1>3, <2>1, <2>2
  <2>4. /\ Timer = postCmdDelayAccum_ /\ Limit = config_.promptTimeoutMs
        /\ Waiting /\ Counted
    BY <2>1 DEF Timer, Limit, SendingPostCmd, Waiting, Counted
  <2> QED  BY <1>1, <2>1, <2>2, <2>3, <2>4 DEF GaveUp, NextPostCmd, ruleVars
<1>11. CASE TickNothing(ms)
  <2>1. ~Counted
    BY <1>11, Standing, ConfigTypes DEF TickNothing, Counted, Waiting, IInv,
       MatchingRule, SendingPostCmd
  <2> QED  BY <1>1, <1>4, <1>11, <2>1 DEF TickNothing, ruleVars, postVars
<1> QED  BY <1>1, <1>5, <1>6, <1>7, <1>8, <1>9, <1>10, <1>11

-----------------------------------------------------------------------------
(* Waits.                                                                  *)

\* No timer can be made to wrap around: a limit and the longest tick fit in
\* uint32_t together.  With ticks of a second, that is every limit that is
\* not within a second of 49 days.
TimersSuffice ==
    \A c \in Configs :
        /\ c.promptTimeoutMs + MaxStep <= UINT32
        /\ \A i \in 1..Len(c.postCommands) :
              c.postCommands[i].delayMs + MaxStep <= UINT32

\* What has been waited is what the timer shows, while the timer counts: the
\* timers start at 0 with each wait and do not wrap.
WaitInv ==
    /\ config_ \in Configs \cup {EmptyConfig}
    /\ Counted => waited = Timer
    /\ WaitsKeepTheirLimits

\* The longest tick.
LEMMA MaxStepProperties ==
    ASSUME NEW ms \in TickSteps
    PROVE  /\ ms \in Nat /\ MaxStep \in Nat
           /\ ms <= MaxStep /\ MaxStep < UINT32
<1> DEFINE T == {UINT32 - n : n \in TickSteps}
<1>1. UINT32 \in Nat /\ TickSteps \subseteq 0..(UINT32 - 1)
  BY ConstantsAssumption
<1>2. T \subseteq Nat /\ T # {}
  BY <1>1
<1>3. PICK t \in T : \A u \in T : t <= u
  BY <1>2, LeastNumber
<1>4. PICK n \in TickSteps : t = UINT32 - n
  BY <1>3
<1>5. \A m \in TickSteps : m <= n
  <2> SUFFICES ASSUME NEW m \in TickSteps PROVE m <= n
    OBVIOUS
  <2>1. UINT32 - n <= UINT32 - m
    BY <1>3, <1>4
  <2> QED  BY <1>1, <2>1
<1>6. MaxStep \in TickSteps /\ \A m \in TickSteps : m <= MaxStep
  BY <1>5 DEF MaxStep
<1> QED  BY <1>1, <1>6

\* A timer that counts is short of its limit, and the next tick does not make
\* it wrap.
LEMMA TimerProperties ==
    ASSUME TimersSuffice, IInv, config_ \in Configs \cup {EmptyConfig},
           NEW ms \in TickSteps, Counted
    PROVE  /\ Limit \in Nat /\ Timer \in Nat
           /\ Timer = 0 \/ Timer < Limit
           /\ Plus(Timer, ms) = Timer + ms
           /\ Timer + ms < UINT32
           /\ Timer + ms < Max(Limit, 1) + MaxStep
<1>1. /\ ms \in Nat /\ MaxStep \in Nat /\ UINT32 \in Nat
      /\ ms <= MaxStep /\ MaxStep < UINT32
  BY MaxStepProperties, ConstantsAssumption
<1>2. config_ \in CommandSequence /\ ProgressOK /\ config_.promptTimeoutMs \in Nat
  BY ConfigTypes DEF IInv
<1>3. Limit \in Nat /\ Limit + MaxStep <= UINT32
  <2>1. CASE SendingPostCmd /\ ~postCmdSent_
    <3>1. /\ Limit = PostCmd.delayMs /\ PostCmd.delayMs \in Nat
          /\ currentPostCmdIndex_ + 1 \in 1..Len(PostCommands)
      BY <2>1, Standing DEF Limit, PostCommand
    <3>2. PostCommands # <<>>
      BY <3>1, <1>2, ConfigTypes
    <3>3. config_ \in Configs
      BY <3>2 DEF EmptyConfig, PostCommands
    <3> QED  BY <3>1, <3>3 DEF TimersSuffice, PostCmd, PostCommands
  <2>2. CASE ~(SendingPostCmd /\ ~postCmdSent_)
    <3>1. Limit = config_.promptTimeoutMs
      BY <2>2 DEF Limit
    <3>2. config_.promptTimeoutMs > 0
      BY <2>2 DEF Counted
    <3>3. config_ \in Configs
      BY <3>2 DEF EmptyConfig
    <3> QED  BY <1>2, <3>1, <3>3 DEF TimersSuffice
  <2> QED  BY <2>1, <2>2
<1>4. Timer \in Nat /\ (Timer = 0 \/ Timer < Limit)
  <2>1. CASE MatchingRule
    <3>1. Timer = elapsedSinceRuleStart_ /\ Limit = config_.promptTimeoutMs
      BY <2>1 DEF Timer, Limit, MatchingRule, SendingPostCmd
    <3> QED  BY <1>2, <3>1 DEF ProgressOK, TimersInBounds
  <2>2. CASE SendingPostCmd
    <3>1. /\ Timer = postCmdDelayAccum_
          /\ Limit = IF postCmdSent_ THEN config_.promptTimeoutMs
                     ELSE PostCmd.delayMs
      BY <1>2, <2>2 DEF Timer, Limit, SendingPostCmd, ProgressOK
    <3> QED  BY <1>2, <3>1 DEF ProgressOK, TimersInBounds
  <2> QED  BY <2>1, <2>2 DEF Counted, Waiting
<1>5. Timer + ms < UINT32
  BY <1>1, <1>3, <1>4
<1>6. Plus(Timer, ms) = Timer + ms
  BY <1>1, <1>4, <1>5 DEF Plus
<1>7. Timer + ms < Max(Limit, 1) + MaxStep
  BY <1>1, <1>3, <1>4 DEF Max
<1> QED  BY <1>3, <1>4, <1>5, <1>6, <1>7

\* While a wait goes on, so do the limits that the last one kept to.
LEMMA LastWaitKeeps ==
    ASSUME WaitsKeepTheirLimits, UNCHANGED <<config_, lastWait>>
    PROVE  WaitsKeepTheirLimits'
BY DEF WaitsKeepTheirLimits, PostCommands, Rules, Max

\* A wait begins with its timer at 0.
LEMMA FreshTimer ==
    ASSUME elapsedSinceRuleStart_' = 0, postCmdDelayAccum_' = 0, waited' = 0
    PROVE  (Counted => waited = Timer)'
BY DEF Timer

\* process() keeps the account of the waits,
LEMMA ProcessKeepsWaits ==
    ASSUME IInv, WaitInv, NEW chunk \in Chunks, HProcess(chunk)
    PROVE  WaitInv'
<1>1. PICK buf \in Seq(Byte) : buf = Trim(buffer_ \o chunk)
  BY ConstantsAssumption, ConcatProperties, TrimProperties DEF IInv, BufferOK
<1>2. config_' = config_ /\ (Matched(buf) \/ Unmatched(buf))
  BY <1>1, ProcessCases
<1>3. CASE Matched(buf)
  <2>1. /\ Waiting /\ EndWait("matched", waited)
        /\ elapsedSinceRuleStart_' = 0 /\ postCmdDelayAccum_' = 0
    BY <1>3 DEF Matched, Passed
  <2>2. /\ lastWait' = [item |-> Progress + 1, how |-> "matched", ms |-> waited]
        /\ waited' = 0
    BY <2>1 DEF EndWait
  <2>3. config_.promptTimeoutMs = 0 \/ waited < config_.promptTimeoutMs
    <3>1. config_.promptTimeoutMs \in Nat
      BY ConfigTypes DEF IInv
    <3>2. ASSUME config_.promptTimeoutMs > 0
          PROVE  waited = Timer /\ (Timer = 0 \/ Timer < config_.promptTimeoutMs)
      <4>1. waited = Timer
        BY <2>1, <3>2 DEF WaitInv, Counted
      <4>2. CASE MatchingRule
        BY <4>1, <4>2 DEF Timer, MatchingRule, IInv, ProgressOK, TimersInBounds
      <4>3. CASE SendingPostCmd /\ waitingForPostPrompt_
        <5>1. postCmdSent_ /\ Timer = postCmdDelayAccum_
          BY <4>3, Standing DEF Timer, SendingPostCmd
        <5> QED  BY <4>1, <5>1 DEF IInv, ProgressOK, TimersInBounds
      <4> QED  BY <2>1, <4>2, <4>3 DEF Waiting
    <3> QED  BY <3>1, <3>2
  <2>4. WaitsKeepTheirLimits'
    BY <1>2, <2>2, <2>3 DEF WaitsKeepTheirLimits
  <2> QED  BY <1>2, <2>1, <2>2, <2>4, FreshTimer DEF WaitInv
<1>4. CASE Unmatched(buf)
  <2>1. UNCHANGED <<state_, ruleVars, postVars, waited, lastWait, config_>>
    BY <1>2, <1>4 DEF Unmatched
  <2>2. (Counted => waited = Timer)'
    BY <2>1 DEF WaitInv, Counted, Timer, Waiting, MatchingRule, SendingPostCmd,
       Rules, PostCommands, ruleVars, postVars
  <2>3. WaitsKeepTheirLimits'
    BY <2>1, LastWaitKeeps DEF WaitInv
  <2> QED  BY <1>2, <2>2, <2>3 DEF WaitInv
<1> QED  BY <1>2, <1>3, <1>4

\* tick() does, whose timers they are,
LEMMA TickKeepsWaits ==
    ASSUME TimersSuffice, IInv, WaitInv, NEW ms \in TickSteps, HTick(ms)
    PROVE  WaitInv'
<1>1. config_' = config_ /\ (GaveUp(ms) \/ Issued(ms) \/ Idled(ms))
  BY TickCases
<1>2. /\ ms \in Nat /\ MaxStep \in Nat /\ UINT32 \in Nat
  BY MaxStepProperties, ConstantsAssumption
<1>3. Counted => /\ waited = Timer
                 /\ Limit \in Nat /\ Timer \in Nat
                 /\ Timer = 0 \/ Timer < Limit
                 /\ Plus(Timer, ms) = Timer + ms
                 /\ Timer + ms < UINT32
                 /\ Timer + ms < Max(Limit, 1) + MaxStep
  BY TimerProperties DEF WaitInv
<1>4. CASE GaveUp(ms)
  <2>1. /\ lastWait' = [item |-> Progress + 1, how |-> "timed out",
                        ms |-> waited + ms]
        /\ waited' = 0 /\ elapsedSinceRuleStart_' = 0 /\ postCmdDelayAccum_' = 0
    BY <1>4 DEF GaveUp, EndWait, Passed
  <2>2. /\ waited + ms >= Limit /\ Limit = config_.promptTimeoutMs /\ Limit > 0
        /\ waited + ms < Limit + MaxStep
    <3>1. /\ Counted /\ Waiting /\ Plus(Timer, ms) >= Limit
          /\ Limit = config_.promptTimeoutMs
      BY <1>4 DEF GaveUp
    <3>2. Limit > 0
      BY <3>1, Standing DEF Counted, Waiting, MatchingRule, SendingPostCmd
    <3> QED  BY <1>2, <1>3, <3>1, <3>2 DEF Max
  <2>3. WaitsKeepTheirLimits'
    BY <1>1, <2>1, <2>2 DEF WaitsKeepTheirLimits
  <2> QED  BY <1>1, <2>1, <2>3, FreshTimer DEF WaitInv
<1>5. CASE Issued(ms)
  <2>1. /\ lastWait' = [item |-> Progress + 1, how |-> "sent", ms |-> waited + ms]
        /\ waited' = 0 /\ elapsedSinceRuleStart_' = 0 /\ postCmdDelayAccum_' = 0
    BY <1>5 DEF Issued, EndWait, Passed
  <2>2. /\ waited + ms >= Limit
        /\ waited + ms < Max(Limit, 1) + MaxStep
    BY <1>2, <1>3, <1>5 DEF Issued, Counted
  <2>3. Limit = PostCommands[(Progress + 1) - Len(Rules)].delayMs
    <3>1. SendingPostCmd /\ ~postCmdSent_
      BY <1>5 DEF Issued
    <3>2. (Progress + 1) - Len(Rules) = currentPostCmdIndex_ + 1
      BY <3>1, Standing
    <3> QED  BY <3>1, <3>2 DEF Limit, PostCmd
  <2>4. WaitsKeepTheirLimits'
    BY <1>1, <2>1, <2>2, <2>3 DEF WaitsKeepTheirLimits, PostCommands, Rules, Max
  <2> QED  BY <1>1, <2>1, <2>4, FreshTimer DEF WaitInv
<1>6. CASE Idled(ms)
  <2>1. /\ UNCHANGED <<state_, currentRuleIndex_, currentPostCmdIndex_,
                       waitingForPostPrompt_, postCmdSent_, config_, lastWait>>
        /\ waited' = Min(waited + ms, UINT32)
        /\ Counted => Timer' = Plus(Timer, ms)
    BY <1>1, <1>6 DEF Idled
  <2>2. Counted' = Counted
    BY <2>1 DEF Counted, Waiting, MatchingRule, SendingPostCmd, Rules,
       PostCommands
  <2>3. ASSUME Counted PROVE waited' = Timer'
    BY <1>2, <1>3, <2>1, <2>3 DEF Min
  <2>4. WaitsKeepTheirLimits'
    BY <2>1, LastWaitKeeps DEF WaitInv
  <2> QED  BY <1>1, <2>2, <2>3, <2>4 DEF WaitInv
<1> QED  BY <1>1, <1>4, <1>5, <1>6

\* Nothing has been waited for yet.
LEMMA NoWaitYet ==
    ASSUME lastWait = NoWait
    PROVE  WaitsKeepTheirLimits
BY DEF NoWait, WaitsKeepTheirLimits

\* Nor after a step that forgets the last wait.
LEMMA NoWaitYetNext == lastWait' = NoWait => WaitsKeepTheirLimits'
BY DEF NoWait, WaitsKeepTheirLimits

\* and so does setConfig(), which starts afresh.
LEMMA SetConfigKeepsWaits ==
    ASSUME NEW seq \in Configs, HSetConfig(seq)
    PROVE  WaitInv'
<1>1. /\ config_' = seq /\ lastWait' = NoWait /\ waited' = 0
      /\ elapsedSinceRuleStart_' = 0 /\ postCmdDelayAccum_' = 0
  BY DEF HSetConfig, SetConfig, ResetState
<1>2. WaitsKeepTheirLimits'
  BY <1>1, NoWaitYetNext
<1> QED  BY <1>1, <1>2, FreshTimer DEF WaitInv

\* Delays and timeouts are kept to within one tick: a command is written
\* neither before its delay nor later than the tick that completes it, a
\* trigger or a prompt is given up neither before promptTimeoutMs nor a tick
\* too late, and never accepted after that.  The timers of tick() wrap, so
\* this needs limits that a tick cannot carry past 2^32.
THEOREM WaitsAlwaysKeepTheirLimits ==
    ASSUME TimersSuffice
    PROVE  HSpec => []WaitsKeepTheirLimits
<1>1. HInit => WaitInv
  <2> SUFFICES ASSUME HInit PROVE WaitInv
    OBVIOUS
  <2>1. /\ config_ = EmptyConfig /\ elapsedSinceRuleStart_ = 0
        /\ postCmdDelayAccum_ = 0 /\ waited = 0 /\ lastWait = NoWait
    BY DEF HInit, Init
  <2> QED  BY <2>1, NoWaitYet DEF WaitInv, Timer
<1>2. IInv /\ WaitInv /\ [HNext]_hvars => WaitInv'
  <2> SUFFICES ASSUME IInv, WaitInv, [HNext]_hvars PROVE WaitInv'
    OBVIOUS
  <2>1. CASE \E chunk \in Chunks : HProcess(chunk)
    BY <2>1, ProcessKeepsWaits
  <2>2. CASE \E ms \in TickSteps : HTick(ms)
    BY <2>2, TickKeepsWaits
  <2>3. CASE \E seq \in Configs : HSetConfig(seq)
    BY <2>3, SetConfigKeepsWaits
  <2>4. CASE UNCHANGED hvars
    <3>1. UNCHANGED <<config_, state_, currentRuleIndex_, currentPostCmdIndex_,
                      elapsedSinceRuleStart_, postCmdDelayAccum_,
                      waitingForPostPrompt_, postCmdSent_, waited, lastWait>>
      BY <2>4 DEF hvars, vars, ruleVars, postVars
    <3>2. (Counted => waited = Timer)'
      BY <3>1 DEF WaitInv, Counted, Timer, Waiting, MatchingRule,
         SendingPostCmd, Rules, PostCommands
    <3>3. WaitsKeepTheirLimits'
      BY <3>1, LastWaitKeeps DEF WaitInv
    <3> QED  BY <3>1, <3>2, <3>3 DEF WaitInv
  <2> QED  BY <2>1, <2>2, <2>3, <2>4 DEF HNext
<1>3. WaitInv => WaitsKeepTheirLimits
  BY DEF WaitInv
<1> QED  BY <1>1, <1>2, <1>3, ObservedInvariance, PTL DEF HSpec

-----------------------------------------------------------------------------
(* Nothing is overlooked.                                                  *)

\* What is waited for depends on the configuration and the indices only.
LEMMA AwaitedStays ==
    ASSUME UNCHANGED <<config_, state_, currentRuleIndex_, currentPostCmdIndex_,
                       waitingForPostPrompt_>>
    PROVE  Awaited' = Awaited /\ Waiting' = Waiting
BY DEF Awaited, Waiting, MatchingRule, SendingPostCmd, Rule, PostCmd, Rules,
   PostCommands

\* A trigger or a prompt that the responder waits for is not in the buffer
\* unless it was there before the wait began: process() looks for it in the
\* whole buffer whenever data comes, also when it came in pieces or when old
\* bytes had to be dropped.
THEOREM NothingIsEverOverlooked == HSpec => []NothingOverlooked
<1>1. HInit => NothingOverlooked
  BY DEF HInit, Init, NothingOverlooked, MatchingRule, SendingPostCmd
<1>2. IInv /\ NothingOverlooked /\ [HNext]_hvars => NothingOverlooked'
  <2> SUFFICES ASSUME IInv, NothingOverlooked, [HNext]_hvars
               PROVE  NothingOverlooked'
    OBVIOUS
  <2>1. ASSUME began' = Len(received') PROVE NothingOverlooked'
    BY <2>1 DEF NothingOverlooked
  <2>2. ASSUME NEW chunk \in Chunks, HProcess(chunk) PROVE NothingOverlooked'
    <3>1. PICK buf \in Seq(Byte) : buf = Trim(buffer_ \o chunk)
      BY ConstantsAssumption, ConcatProperties, TrimProperties DEF IInv, BufferOK
    <3>2. config_' = config_ /\ (Matched(buf) \/ Unmatched(buf))
      BY <2>2, <3>1, ProcessCases
    <3>3. CASE Matched(buf)
      BY <2>1, <3>3 DEF Matched, EndWait
    <3>4. CASE Unmatched(buf)
      <4>1. /\ Waiting => Occurrences(Awaited, buf) = {}
            /\ buffer_' = buf
            /\ Awaited' = Awaited /\ Waiting' = Waiting
        BY <3>2, <3>4, AwaitedStays DEF Unmatched, ruleVars, postVars
      <4>2. Waiting' => Occurrences(Awaited', buffer_') = {}
        BY <4>1
      <4> QED  BY <4>2 DEF NothingOverlooked, Waiting, Occurrences
    <3> QED  BY <3>2, <3>3, <3>4
  <2>3. ASSUME NEW ms \in TickSteps, HTick(ms) PROVE NothingOverlooked'
    <3>1. /\ UNCHANGED <<config_, buffer_, received>>
          /\ GaveUp(ms) \/ Issued(ms) \/ Idled(ms)
      BY <2>3, TickCases
    <3>2. CASE GaveUp(ms) \/ Issued(ms)
      BY <2>1, <3>2 DEF GaveUp, Issued, EndWait
    <3>3. CASE Idled(ms)
      <4>1. /\ Awaited' = Awaited /\ Waiting' = Waiting
            /\ UNCHANGED <<buffer_, received, began>>
        BY <3>1, <3>3, AwaitedStays DEF Idled
      <4> QED  BY <4>1 DEF NothingOverlooked, Waiting, Occurrences
    <3> QED  BY <3>1, <3>2, <3>3
  <2>4. ASSUME NEW seq \in Configs, HSetConfig(seq) PROVE NothingOverlooked'
    <3>1. received' = <<>> /\ began' = 0
      BY <2>4 DEF HSetConfig
    <3> QED  BY <2>1, <3>1, EmptySeq
  <2>5. CASE UNCHANGED hvars
    <3>1. /\ Awaited' = Awaited /\ Waiting' = Waiting
          /\ UNCHANGED <<buffer_, received, began>>
      BY <2>5, AwaitedStays DEF hvars, vars, ruleVars, postVars
    <3> QED  BY <3>1 DEF NothingOverlooked, Waiting, Occurrences
  <2> QED  BY <2>2, <2>3, <2>4, <2>5 DEF HNext
<1> QED  BY <1>1, <1>2, ObservedInvariance, PTL DEF HSpec

-----------------------------------------------------------------------------
(* Every byte is used at most once, and for what it is.                    *)

Match == [item : Nat, from : Int, to : Int, since : Nat]

\* Items are counted in order: a match or a response never has the number of
\* an item that is still to come.
InTurn ==
    /\ matches \in Seq(Match) /\ received \in Seq(Byte) /\ began \in Nat
    /\ \A i \in 1..Len(matches) :
          /\ matches[i].item \in 1..Progress
          /\ matches[i].from <= matches[i].to
    /\ \A i \in 1..Len(sent) :
          sent[i] <= IF postCmdSent_ THEN Progress + 1 ELSE Progress

\* The answers are those of the rules that were matched.
WasSent(r) == \E i \in 1..Len(sent) : sent[i] = r
WasMatched(r) == \E i \in 1..Len(matches) : matches[i].item = r
HasAnswer(r) == Rules[r].response # "" \/ config_.lineEnding # ""
Answers ==
    \A r \in 1..Min(Len(Rules), currentRuleIndex_) :
        WasSent(r) <=> WasMatched(r) /\ HasAnswer(r)

\* MatchesAreGenuine, match by match.
Genuine(m, all, c) ==
    /\ 0 <= m.from /\ m.to <= Len(all)
    /\ SubSeq(all, m.from + 1, m.to) =
         IF m.item - Len(c.rules) <= 0 THEN c.rules[m.item].trigger
         ELSE c.postCommands[m.item - Len(c.rules)].expectedPrompt
Apart(m, n) == m.to <= n.from /\ m.item < n.item

\* BufferIsUnusedTail is what makes the others inductive: it says where in
\* the stream the buffer begins, behind everything that was used.
UseInv == InTurn /\ BufferIsUnusedTail /\ MatchesAreGenuine /\ Answers

\* Where in the stream the buffer begins.
Begin == Max(Used, Len(received) - kBufferSize)

\* The greater of two numbers is the one that is not below the other.
LEMMA MaxIs ==
    ASSUME NEW m \in Int, NEW n \in Int, NEW k \in Int,
           m <= k, n <= k, k = m \/ k = n
    PROVE  k = Max(m, n)
BY DEF Max

\* The buffer begins within the stream, behind what was used and not more than
\* its capacity before the end.
LEMMA UsedProperties ==
    ASSUME InTurn, MatchesAreGenuine
    PROVE  /\ Len(received) \in Nat /\ Len(matches) \in Nat
           /\ Used \in Nat /\ Used <= Len(received)
           /\ Begin \in Nat /\ Begin <= Len(received) /\ Used <= Begin
           /\ Len(received) - kBufferSize <= Begin
<1>1. Len(received) \in Nat /\ Len(matches) \in Nat /\ kBufferSize \in Nat \ {0}
  BY LenProperties, ConstantsAssumption DEF InTurn
<1>2. Used \in Nat /\ Used <= Len(received)
  <2>1. CASE matches = <<>>
    BY <1>1, <2>1 DEF Used
  <2>2. CASE matches # <<>>
    <3>1. Len(matches) \in 1..Len(matches)
      BY <1>1, <2>2, EmptySeq DEF InTurn
    <3>2. matches[Len(matches)] \in Match
      BY <3>1, ElementOfSeq DEF InTurn
    <3> QED  BY <2>2, <3>1, <3>2 DEF Used, InTurn, MatchesAreGenuine, Match
  <2> QED  BY <2>1, <2>2
<1> QED  BY <1>1, <1>2 DEF Begin, Max

\* With a chunk appended and trimmed, the buffer is again the end of the
\* stream, behind what was used.
LEMMA BufferWithChunk ==
    ASSUME IInv, InTurn, BufferIsUnusedTail, MatchesAreGenuine,
           NEW chunk \in Seq(Byte), NEW all, all = received \o chunk
    PROVE  \E k \in Nat :
              /\ all \in Seq(Byte) /\ Len(all) \in Nat
              /\ Len(received) <= Len(all)
              /\ k = Max(Used, Len(all) - kBufferSize)
              /\ Used <= k /\ k <= Len(all)
              /\ Trim(buffer_ \o chunk) = Erase(all, k)
<1>1. /\ Len(received) \in Nat /\ Used \in Nat /\ Used <= Len(received)
      /\ Begin \in Nat /\ Begin <= Len(received) /\ Used <= Begin
      /\ received \in Seq(Byte)
      /\ kBufferSize \in Nat \ {0} /\ Len(chunk) \in Nat
  BY UsedProperties, LenProperties, ConstantsAssumption DEF InTurn
<1>2. all \in Seq(Byte) /\ Len(all) = Len(received) + Len(chunk)
  BY <1>1, ConcatProperties
<1>3. buffer_ \o chunk = Erase(all, Begin)
  BY <1>1, EraseOfConcat DEF BufferIsUnusedTail, Begin
<1>4. Erase(all, Begin) \in Seq(Byte) /\ Len(Erase(all, Begin)) = Len(all) - Begin
  <2>1. Begin \in 0..Len(all)
    BY <1>1, <1>2
  <2> QED  BY <1>2, <2>1, EraseProperties
<1>5. CASE Len(all) - Begin > kBufferSize
  <2>1. Len(all) - Begin - kBufferSize \in Nat
    BY <1>1, <1>2, <1>5
  <2>2. PICK m \in Nat : m = Len(all) - Begin - kBufferSize
    BY <2>1
  <2>3. Begin + m \in Nat
    BY <1>1
  <2>4. PICK k \in Nat : k = Begin + m
    BY <2>3
  <2>5. k = Max(Used, Len(all) - kBufferSize) /\ Used <= k /\ k <= Len(all)
    BY <1>1, <1>2, <2>2, <2>4 DEF Max
  <2>6. Trim(buffer_ \o chunk) = Erase(Erase(all, Begin), m)
    <3>1. Len(all) - Begin - kBufferSize = (Len(all) - Begin) - kBufferSize
      BY <1>1, <1>2
    <3> QED  BY <1>3, <1>4, <1>5, <2>2, <3>1 DEF Trim
  <2>7. Erase(Erase(all, Begin), m) = Erase(all, k)
    <3>1. Begin + m <= Len(all)
      BY <2>4, <2>5
    <3>2. Erase(Erase(all, Begin), m) = Erase(all, Begin + m)
      <4>1. Begin \in Nat
        BY <1>1
      <4> HIDE DEF IInv, InTurn, BufferIsUnusedTail, MatchesAreGenuine
      <4> QED  BY <1>2, <3>1, <4>1, EraseTwice
    <3> QED  BY <2>4, <3>2
  <2> QED  BY <1>1, <1>2, <2>5, <2>6, <2>7
<1>6. CASE ~(Len(all) - Begin > kBufferSize)
  <2>1. Begin = Max(Used, Len(all) - kBufferSize)
    <3>1. \/ Begin = Used
          \/ Begin = Len(received) - kBufferSize
      BY DEF Begin, Max
    <3>2. Len(all) \in Nat /\ Len(all) <= kBufferSize + Begin
      BY <1>1, <1>2, <1>6
    <3>3. ASSUME Begin = Len(received) - kBufferSize
          PROVE  Begin = Len(all) - kBufferSize
      <4>1. Len(received) <= Len(all)
        BY <1>1, <1>2
      <4>2. Len(received) = kBufferSize + Begin
        BY <1>1, <3>3
      <4>3. Len(all) = Len(received)
        <5>1. Len(received) \in Nat
          BY <1>1
        <5> QED  BY <3>2, <4>1, <4>2, <5>1
      <4> QED  BY <3>3, <4>3
    <3>4. Used \in Int /\ Len(all) - kBufferSize \in Int /\ Begin \in Int
      BY <1>1, <3>2
    <3>5. Used <= Begin /\ Len(all) - kBufferSize <= Begin
      BY <1>1, <3>2
    <3> QED  BY <3>1, <3>3, <3>4, <3>5, MaxIs
  <2>2. Trim(buffer_ \o chunk) = Erase(all, Begin)
    BY <1>3, <1>4, <1>6 DEF Trim
  <2> QED  BY <1>1, <1>2, <2>1, <2>2
<1> QED  BY <1>5, <1>6

\* The two properties that the runs check, in these terms.
LEMMA GenuineMatches ==
    /\ MatchesAreGenuine <=>
         \A i \in 1..Len(matches) :
            /\ Genuine(matches[i], received, config_)
            /\ i > 1 => Apart(matches[i - 1], matches[i])
    /\ AnsweredIffMatched <=> MatchesAreGenuine /\ Answers
BY DEF MatchesAreGenuine, Genuine, Apart, AnsweredIffMatched, Answers, WasSent,
   WasMatched, HasAnswer, Rules, PostCommands

\* The first of them after a step.
LEMMA GenuineMatchesNext ==
    MatchesAreGenuine' <=>
         \A i \in 1..Len(matches') :
            /\ Genuine(matches'[i], received', config_')
            /\ i > 1 => Apart(matches'[i - 1], matches'[i])
BY DEF MatchesAreGenuine, Genuine, Apart, Rules, PostCommands

\* What has been matched stays what it was, while more is received.
LEMMA GenuineStays ==
    ASSUME NEW all \in Seq(Byte), NEW chunk \in Seq(Byte), NEW c,
           NEW m \in Match, m.from <= m.to, Genuine(m, all, c)
    PROVE  Genuine(m, all \o chunk, c)
<1>1. Len(all) \in Nat /\ Len(chunk) \in Nat
      /\ Len(all \o chunk) = Len(all) + Len(chunk)
  BY LenProperties, ConcatProperties
<1>2. m.from \in Nat /\ m.to \in Nat /\ m.to <= Len(all)
  BY <1>1 DEF Genuine, Match
<1>3. SubSeq(all \o chunk, m.from + 1, m.to) = SubSeq(all, m.from + 1, m.to)
  BY <1>2, PartOfConcat
<1>4. m.to <= Len(all \o chunk)
  BY <1>1, <1>2
<1> QED  BY <1>3, <1>4 DEF Genuine

\* What is matched now is the item's trigger or prompt, and begins where the
\* buffer begins or later.
LEMMA NewMatchIsGenuine ==
    ASSUME IInv, Waiting, NEW all \in Seq(Byte), NEW k \in Nat, k <= Len(all),
           NEW pos \in Find(Awaited, Erase(all, k)),
           NEW m \in Match, m.item = Progress + 1,
           m.from = k + pos, m.to = k + pos + Len(Awaited)
    PROVE  /\ Genuine(m, all, config_)
           /\ Erase(Erase(all, k), pos + Len(Awaited)) = Erase(all, m.to)
           /\ m.to \in Nat /\ m.to <= Len(all) /\ k <= m.from /\ m.from <= m.to
<1>1. Awaited \in Seq(Byte)
  BY AwaitedIs
<1>2. PICK n \in Nat : n = Len(Awaited)
  BY <1>1, LenProperties
<1>3. Len(all) \in Nat /\ k \in 0..Len(all)
  BY LenProperties
<1>4. Erase(all, k) \in Seq(Byte) /\ Len(Erase(all, k)) = Len(all) - k
  BY <1>3, EraseProperties
<1>5. /\ pos \in 0..(Len(all) - k - n)
      /\ SubSeq(Erase(all, k), pos + 1, pos + n) = Awaited
  BY <1>2, <1>4 DEF Find, Occurrences
<1>6. pos \in Nat /\ pos + n \in Nat /\ pos <= pos + n /\ k + (pos + n) <= Len(all)
  BY <1>2, <1>3, <1>5
<1>7. SubSeq(Erase(all, k), pos + 1, pos + n) = SubSeq(all, k + pos + 1, k + (pos + n))
  <2>1. PICK b \in Nat : b = pos + n
    BY <1>6
  <2>2. pos \in Nat /\ pos <= b /\ k + b <= Len(all)
    BY <1>6, <2>1
  <2>3. SubSeq(Erase(all, k), pos + 1, b) = SubSeq(all, k + pos + 1, k + b)
    BY <2>2, PartOfErasedBytes
  <2> QED  BY <2>1, <2>3
<1>8. /\ k + (pos + n) = m.to /\ m.to \in Nat /\ m.from \in Nat
      /\ m.to <= Len(all) /\ k <= m.from /\ m.from <= m.to
  BY <1>2, <1>6
<1>9. Erase(Erase(all, k), pos + n) = Erase(all, k + (pos + n))
  BY <1>6, EraseTwice
<1>10. SubSeq(all, m.from + 1, m.to) = Awaited
  BY <1>5, <1>7, <1>8
<1>11. Awaited = IF m.item - Len(config_.rules) <= 0
                 THEN config_.rules[m.item].trigger
                 ELSE config_.postCommands[m.item - Len(config_.rules)].expectedPrompt
  <2>1. CASE MatchingRule
    <3>1. Awaited = Rules[m.item].trigger /\ m.item - Len(Rules) <= 0
      BY <2>1, Standing, AwaitedIs DEF Rule
    <3> QED  BY <3>1 DEF Rules
  <2>2. CASE SendingPostCmd
    <3>1. /\ m.item - Len(Rules) = currentPostCmdIndex_ + 1
          /\ ~(m.item - Len(Rules) <= 0)
      BY <2>2, Standing
    <3>2. Awaited = PostCommands[m.item - Len(Rules)].expectedPrompt
      BY <2>2, <3>1, AwaitedIs DEF PostCmd
    <3> QED  BY <3>1, <3>2 DEF Rules, PostCommands
  <2> QED  BY <2>1, <2>2 DEF Waiting
<1>12. Genuine(m, all, config_)
  <2>1. 0 <= m.from
    BY <1>8
  <2> QED  BY <1>8, <1>10, <1>11, <2>1 DEF Genuine
<1> QED  BY <1>2, <1>8, <1>9, <1>12

\* What is in a list that one more is appended to.
LEMMA AppendMembers ==
    ASSUME NEW S, NEW s \in Seq(S), NEW e \in S, NEW t, t = Append(s, e)
    PROVE  /\ t \in Seq(S) /\ Len(s) \in Nat /\ Len(t) = Len(s) + 1
           /\ 1..Len(t) = 1..Len(s) \cup {Len(s) + 1}
           /\ \A i \in 1..Len(s) : t[i] = s[i]
           /\ t[Len(s) + 1] = e
BY LenProperties, AppendProperties

\* An answer to an item, and a match of it, are of no concern to the others.
LEMMA AnswersStay ==
    ASSUME Answers, Len(Rules) \in Nat, currentRuleIndex_ \in Nat,
           UNCHANGED <<config_, currentRuleIndex_>>,
           sent \in Seq(Nat), matches \in Seq(Match), NEW x \in Nat,
           ~(x \in 1..Min(Len(Rules), currentRuleIndex_)),
           sent' = sent \/ sent' = Append(sent, x),
           \/ matches' = matches
           \/ \E m \in Match : m.item = x /\ matches' = Append(matches, m)
    PROVE  Answers'
<1> DEFINE R == 1..Min(Len(Rules), currentRuleIndex_)
<1>1. ASSUME NEW r \in R PROVE WasSent(r)' <=> WasSent(r)
  <2>1. CASE sent' = Append(sent, x)
    <3>1. /\ 1..Len(sent') = 1..Len(sent) \cup {Len(sent) + 1}
          /\ \A i \in 1..Len(sent) : sent'[i] = sent[i]
          /\ sent'[Len(sent) + 1] = x
      BY <2>1, AppendMembers
    <3>2. x # r
      BY <1>1
    <3> QED  BY <3>1, <3>2 DEF WasSent
  <2> QED  BY <2>1 DEF WasSent
<1>2. ASSUME NEW r \in R PROVE WasMatched(r)' <=> WasMatched(r)
  <2>1. ASSUME NEW m \in Match, m.item = x, matches' = Append(matches, m)
        PROVE  WasMatched(r)' <=> WasMatched(r)
    BY <1>2, <2>1, AppendMembers DEF WasMatched
  <2> QED  BY <2>1 DEF WasMatched
<1>3. ASSUME NEW r \in R PROVE HasAnswer(r)' <=> HasAnswer(r)
  BY DEF HasAnswer, Rules
<1>4. R' = R
  BY DEF Rules, Min
<1> HIDE DEF R
<1>5. \A r \in R : WasSent(r)' <=> WasMatched(r)' /\ HasAnswer(r)'
  BY <1>1, <1>2, <1>3 DEF Answers, R
<1> QED  BY <1>4, <1>5 DEF Answers, R

\* The items that are sent are in turn after a step that sends at most the
\* next one and goes on to it.
LEMMA SentInTurn ==
    ASSUME sent \in Seq(Nat), Progress \in Nat, postCmdSent_ \in BOOLEAN,
           \A i \in 1..Len(sent) :
              sent[i] <= IF postCmdSent_ THEN Progress + 1 ELSE Progress,
           sent' = sent \/ sent' = Append(sent, Progress + 1),
           Progress' = Progress + 1 \/ postCmdSent_'
    PROVE  Progress' \in {Progress, Progress + 1} =>
           \A i \in 1..Len(sent') :
              sent'[i] <= IF postCmdSent_' THEN Progress' + 1 ELSE Progress'
<1>1. \A i \in 1..Len(sent) : sent[i] \in Nat /\ sent[i] <= Progress + 1
  BY ElementOfSeq
<1>2. \A i \in 1..Len(sent') : sent'[i] \in Nat /\ sent'[i] <= Progress + 1
  <2>1. CASE sent' = Append(sent, Progress + 1)
    <3>1. /\ 1..Len(sent') = 1..Len(sent) \cup {Len(sent) + 1}
          /\ \A i \in 1..Len(sent) : sent'[i] = sent[i]
          /\ sent'[Len(sent) + 1] = Progress + 1
      BY <2>1, AppendMembers
    <3> QED  BY <1>1, <3>1
  <2> QED  BY <1>1, <2>1
<1> QED  BY <1>2

\* A match uses bytes of the buffer that no match before it used.
LEMMA MatchKeepsUse ==
    ASSUME IInv, UseInv, UNCHANGED config_,
           NEW chunk \in Seq(Byte), received' = received \o chunk,
           NEW k \in Nat, received' \in Seq(Byte), k <= Len(received'),
           Len(received') \in Nat, Used <= k,
           Len(received') - kBufferSize <= k,
           Matched(Erase(received', k))
    PROVE  UseInv'
<1>1. /\ Progress \in Nat /\ Len(matches) \in Nat /\ Used \in Nat
      /\ Len(Rules) \in Nat /\ currentRuleIndex_ \in Nat
      /\ sent \in Seq(Nat) /\ began \in Nat /\ kBufferSize \in Nat
      /\ postCmdSent_ \in BOOLEAN
  BY Standing, UsedProperties, Widths DEF UseInv, IInv, InTurn, ProgressOK
<1>2. /\ Waiting /\ Passed /\ EndWait("matched", waited)
      /\ \E pos \in Find(Awaited, Erase(received', k)) :
            buffer_' = Erase(Erase(received', k), pos + Len(Awaited))
      /\ matches' = Append(matches,
            [item |-> Progress + 1,
             from |-> Len(received') - Len(buffer_') - Len(Awaited),
             to |-> Len(received') - Len(buffer_'), since |-> began])
      /\ \/ /\ MatchingRule /\ currentRuleIndex_' = currentRuleIndex_ + 1
            /\ SendToUart(Progress + 1, Rule.response)
         \/ /\ SendingPostCmd /\ currentRuleIndex_' = currentRuleIndex_
            /\ UNCHANGED sent
  BY DEF Matched
<1>3. PICK pos \in Find(Awaited, Erase(received', k)) :
         buffer_' = Erase(Erase(received', k), pos + Len(Awaited))
  BY <1>2
<1>4. PICK p \in Nat : p = Len(Awaited)
  BY <1>2, AwaitedIs, LenProperties
<1>5. pos \in Nat
  BY DEF Find, Occurrences
<1>6. PICK m \in Match : m = [item |-> Progress + 1, from |-> k + pos,
                              to |-> k + pos + p, since |-> began]
  <2>1. /\ Progress + 1 \in Nat /\ k + pos \in Int /\ k + pos + p \in Int
        /\ began \in Nat
    BY <1>1, <1>4, <1>5
  <2>2. [item |-> Progress + 1, from |-> k + pos, to |-> k + pos + p,
         since |-> began] \in Match
    BY <2>1 DEF Match
  <2> QED  BY <2>2
<1>7. /\ Genuine(m, received', config_)
      /\ buffer_' = Erase(received', m.to)
      /\ m.to \in Nat /\ m.to <= Len(received') /\ k <= m.from /\ m.from <= m.to
  <2>1. /\ m.item = Progress + 1 /\ m.from = k + pos
        /\ m.to = k + pos + Len(Awaited)
    BY <1>4, <1>6
  <2> QED  BY <1>2, <1>3, <2>1, NewMatchIsGenuine
<1>8. matches' = Append(matches, m)
  <2>1. Len(buffer_') = Len(received') - m.to
    <3>1. m.to \in 0..Len(received')
      BY <1>7
    <3> QED  BY <1>7, <3>1, EraseProperties
  <2>2. /\ Len(received') - Len(buffer_') = m.to
        /\ Len(received') - Len(buffer_') - Len(Awaited) = m.from
    BY <1>4, <1>5, <1>6, <1>7, <2>1
  <2>3. m = [item |-> Progress + 1, from |-> m.from, to |-> m.to, since |-> began]
    BY <1>6
  <2> QED  BY <1>2, <2>2, <2>3
<1>9. /\ matches' \in Seq(Match) /\ Len(matches') = Len(matches) + 1
      /\ 1..Len(matches') = 1..Len(matches) \cup {Len(matches) + 1}
      /\ \A i \in 1..Len(matches) : matches'[i] = matches[i]
      /\ matches'[Len(matches) + 1] = m
  BY <1>8, AppendMembers DEF UseInv, InTurn
<1>10. BufferIsUnusedTail'
  <2>1. Used' = m.to
    <3>1. matches' # <<>>
      BY <1>1, <1>9, EmptySeq
    <3> QED  BY <1>9, <3>1 DEF Used
  <2>2. m.to = Max(m.to, Len(received') - kBufferSize)
    <3>1. /\ m.to \in Int /\ Len(received') - kBufferSize \in Int
          /\ Len(received') - kBufferSize <= m.to
      BY <1>1, <1>5, <1>6, <1>7
    <3> QED  BY <3>1, MaxIs
  <2> QED  BY <1>7, <2>1, <2>2 DEF BufferIsUnusedTail
<1>11. Progress' = Progress + 1 /\ postCmdSent_' = FALSE
  BY <1>2 DEF Passed
<1>12. sent' = sent \/ sent' = Append(sent, Progress + 1)
  BY <1>2 DEF SendToUart
<1>13. InTurn'
  <2>1. \A i \in 1..Len(matches') :
           matches'[i].item \in 1..Progress' /\ matches'[i].from <= matches'[i].to
    <3>1. \A i \in 1..Len(matches) :
             matches[i].item \in 1..Progress /\ matches[i].from <= matches[i].to
      BY DEF UseInv, InTurn
    <3>2. m.item \in 1..(Progress + 1) /\ m.from <= m.to
      BY <1>1, <1>6, <1>7
    <3>3. \A i \in 1..Len(matches) : matches[i].item \in 1..(Progress + 1)
      BY <1>1, <3>1
    <3>4. \A i \in 1..Len(matches') : i \in 1..Len(matches) \/ i = Len(matches) + 1
      BY <1>9
    <3> QED  BY <1>9, <1>11, <3>1, <3>2, <3>3, <3>4
  <2>2. \A i \in 1..Len(sent') :
           sent'[i] <= IF postCmdSent_' THEN Progress' + 1 ELSE Progress'
    BY <1>1, <1>11, <1>12, SentInTurn DEF UseInv, InTurn
  <2>3. began' \in Nat
    BY <1>2 DEF EndWait
  <2> QED  BY <1>9, <2>1, <2>2, <2>3 DEF InTurn
<1>14. MatchesAreGenuine'
  <2>1. \A i \in 1..Len(matches) :
           /\ Genuine(matches[i], received', config_')
           /\ i > 1 => Apart(matches[i - 1], matches[i])
    <3>1. \A i \in 1..Len(matches) :
             /\ Genuine(matches[i], received, config_)
             /\ i > 1 => Apart(matches[i - 1], matches[i])
             /\ matches[i].from <= matches[i].to /\ matches[i] \in Match
      BY GenuineMatches, ElementOfSeq DEF UseInv, InTurn
    <3>2. received \in Seq(Byte)
      BY DEF UseInv, InTurn
    <3> QED  BY <3>1, <3>2, GenuineStays
  <2>2. Len(matches) + 1 > 1 => Apart(matches[Len(matches)], m)
    <3> SUFFICES ASSUME Len(matches) + 1 > 1 PROVE Apart(matches[Len(matches)], m)
      OBVIOUS
    <3>1. Len(matches) \in 1..Len(matches) /\ matches # <<>>
      BY <1>1, EmptySeq
    <3>2. Used = matches[Len(matches)].to
      BY <3>1 DEF Used
    <3>3. matches[Len(matches)].item \in 1..Progress
      BY <3>1 DEF UseInv, InTurn
    <3>4. Used <= m.from /\ m.item = Progress + 1
      BY <1>1, <1>5, <1>6, <1>7
    <3>5. matches[Len(matches)].item < m.item
      <4>1. Progress \in Nat
        BY <1>1
      <4> QED  BY <3>3, <3>4, <4>1
    <3> QED  BY <3>2, <3>4, <3>5 DEF Apart
  <2>3. ASSUME NEW i \in 1..Len(matches')
        PROVE  /\ Genuine(matches'[i], received', config_')
               /\ i > 1 => Apart(matches'[i - 1], matches'[i])
    <3>1. CASE i \in 1..Len(matches)
      <4>1. i > 1 => i - 1 \in 1..Len(matches)
        BY <1>1, <3>1
      <4> QED  BY <1>9, <2>1, <3>1, <4>1
    <3>2. CASE i = Len(matches) + 1
      <4>1. /\ i - 1 = Len(matches)
            /\ i > 1 => Len(matches) \in 1..Len(matches)
        BY <1>1, <3>2
      <4> QED  BY <1>7, <1>9, <2>2, <3>2, <4>1
    <3> QED  BY <1>9, <3>1, <3>2
  <2> QED  BY <2>3, GenuineMatchesNext
<1>15. Answers'
  <2>1. CASE SendingPostCmd /\ currentRuleIndex_' = currentRuleIndex_
    <3>1. /\ Progress + 1 \in Nat
          /\ ~(Progress + 1 \in 1..Min(Len(Rules), currentRuleIndex_))
      <4>1. /\ Progress \in Nat /\ Len(Rules) \in Nat
            /\ Progress >= Len(Rules) /\ currentRuleIndex_ \in Nat
        <5>1. /\ Progress = Len(Rules) + currentPostCmdIndex_
              /\ currentPostCmdIndex_ \in Nat /\ Len(Rules) \in Nat
              /\ currentRuleIndex_ = Len(Rules)
          <6> HIDE DEF Progress, Rules, SendingPostCmd, UseInv
          <6> QED  BY <2>1, Standing
        <5> HIDE DEF Progress, Rules
        <5> QED  BY <5>1
      <4>2. Min(Len(Rules), currentRuleIndex_) <= Len(Rules)
        BY <4>1 DEF Min
      <4>3. Min(Len(Rules), currentRuleIndex_) \in Int
        BY <4>1 DEF Min
      <4> QED  BY <4>1, <4>2, <4>3
    <3>2. m.item = Progress + 1
      BY <1>6
    <3> QED  BY <1>1, <1>8, <1>12, <2>1, <3>1, <3>2, AnswersStay DEF UseInv, InTurn
  <2>2. CASE /\ MatchingRule /\ currentRuleIndex_' = currentRuleIndex_ + 1
             /\ SendToUart(Progress + 1, Rule.response)
    <3>1. /\ Progress = currentRuleIndex_ /\ ~postCmdSent_
          /\ Progress + 1 \in 1..Len(Rules)
          /\ Rule.response = Rules[Progress + 1].response
      BY <2>2, Standing DEF Rule, MatchingRule, SendingPostCmd
    <3>2. /\ 1..Min(Len(Rules), currentRuleIndex_) = 1..Progress
          /\ 1..Min(Len(Rules)', currentRuleIndex_') = 1..(Progress + 1)
      BY <1>1, <2>2, <3>1 DEF Min, Rules
    <3>3. ASSUME NEW r \in 1..Progress
          PROVE  WasSent(r)' <=> WasMatched(r)' /\ HasAnswer(r)'
      <4>1. WasSent(r) <=> WasMatched(r) /\ HasAnswer(r)
        BY <3>2 DEF UseInv, Answers
      <4>2. r # Progress + 1
        BY <1>1
      <4>3. WasSent(r)' <=> WasSent(r)
        <5>1. CASE sent' = Append(sent, Progress + 1)
          <6>1. /\ 1..Len(sent') = 1..Len(sent) \cup {Len(sent) + 1}
                /\ \A i \in 1..Len(sent) : sent'[i] = sent[i]
                /\ sent'[Len(sent) + 1] = Progress + 1
            BY <1>1, <5>1, AppendMembers
          <6> QED  BY <4>2, <6>1 DEF WasSent
        <5> QED  BY <1>12, <5>1 DEF WasSent
      <4>4. WasMatched(r)' <=> WasMatched(r)
        <5>1. m.item # r
          BY <1>6, <4>2
        <5> QED  BY <1>9, <5>1 DEF WasMatched
      <4>5. HasAnswer(r)' <=> HasAnswer(r)
        BY DEF HasAnswer, Rules
      <4> QED  BY <4>1, <4>3, <4>4, <4>5
    <3>4. PICK q \in Nat : q = Progress + 1
      BY <1>1
    <3>5. WasMatched(q)'
      <4>1. matches'[Len(matches) + 1].item = q
        BY <1>6, <1>9, <3>4
      <4>2. Len(matches) + 1 \in 1..Len(matches')
        BY <1>9
      <4> QED  BY <4>1, <4>2 DEF WasMatched
    <3>6. HasAnswer(q)' <=> ~(Rule.response = "" /\ config_.lineEnding = "")
      BY <3>1, <3>4 DEF HasAnswer, Rules
    <3>7. WasSent(q)' <=> HasAnswer(q)'
      <4>1. CASE Rule.response = "" /\ config_.lineEnding = ""
        <5>1. sent' = sent
          BY <2>2, <4>1 DEF SendToUart
        <5>2. ASSUME NEW i \in 1..Len(sent) PROVE sent[i] # q
          <6>1. sent[i] \in Nat /\ sent[i] <= Progress
            BY <1>1, <3>1, ElementOfSeq DEF UseInv, InTurn
          <6> QED  BY <1>1, <3>4, <6>1
        <5> QED  BY <3>6, <4>1, <5>1, <5>2 DEF WasSent
      <4>2. CASE ~(Rule.response = "" /\ config_.lineEnding = "")
        <5>1. sent' = Append(sent, q)
          BY <2>2, <3>4, <4>2 DEF SendToUart
        <5>2. Len(sent) + 1 \in 1..Len(sent') /\ sent'[Len(sent) + 1] = q
          BY <1>1, <5>1, AppendMembers
        <5> QED  BY <3>6, <4>2, <5>2 DEF WasSent
      <4> QED  BY <4>1, <4>2
    <3>8. \A r \in 1..(Progress + 1) : r \in 1..Progress \/ r = q
      BY <1>1, <3>4
    <3>9. \A r \in 1..Min(Len(Rules)', currentRuleIndex_') :
             WasSent(r)' <=> WasMatched(r)' /\ HasAnswer(r)'
      BY <3>2, <3>3, <3>5, <3>7, <3>8
    <3> QED  BY <3>9 DEF Answers
  <2> QED  BY <1>2, <2>1, <2>2
<1> QED  BY <1>10, <1>13, <1>14, <1>15 DEF UseInv

\* process() keeps the use of the bytes in order.
LEMMA ProcessKeepsUse ==
    ASSUME IInv, UseInv, NEW chunk \in Chunks, HProcess(chunk)
    PROVE  UseInv'
<1>1. chunk \in Seq(Byte) /\ InTurn /\ MatchesAreGenuine /\ BufferIsUnusedTail
  BY ConstantsAssumption DEF UseInv
<1>2. PICK buf \in Seq(Byte) : buf = Trim(buffer_ \o chunk)
  BY <1>1, ConcatProperties, TrimProperties DEF IInv, BufferOK
<1>3. received' = received \o chunk /\ config_' = config_
  BY <1>2, ProcessCases
<1>4. PICK k \in Nat : /\ received' \in Seq(Byte) /\ Len(received') \in Nat
                       /\ k = Max(Used, Len(received') - kBufferSize)
                       /\ Used <= k /\ k <= Len(received')
                       /\ buf = Erase(received', k)
  BY <1>1, <1>2, <1>3, BufferWithChunk
<1>5. Len(received') - kBufferSize <= k
  <2>1. Used \in Nat /\ kBufferSize \in Nat
    BY <1>1, UsedProperties, Widths
  <2> QED  BY <1>4, <2>1 DEF Max
<1>6. CASE Matched(buf)
  BY <1>1, <1>3, <1>4, <1>5, <1>6, MatchKeepsUse
<1>7. CASE Unmatched(buf)
  <2>1. /\ buffer_' = buf
        /\ UNCHANGED <<currentRuleIndex_, currentPostCmdIndex_, postCmdSent_, sent,
                       matches, began>>
    BY <1>7 DEF Unmatched, ruleVars, postVars
  <2>2. InTurn'
    BY <1>1, <1>4, <2>1 DEF InTurn, Progress
  <2>3. BufferIsUnusedTail'
    BY <1>4, <2>1 DEF BufferIsUnusedTail, Used
  <2>4. MatchesAreGenuine'
    <3>1. \A i \in 1..Len(matches) :
             /\ Genuine(matches[i], received, config_)
             /\ i > 1 => Apart(matches[i - 1], matches[i])
             /\ matches[i].from <= matches[i].to /\ matches[i] \in Match
      BY <1>1, GenuineMatches, ElementOfSeq DEF InTurn
    <3>2. received \in Seq(Byte)
      BY <1>1 DEF InTurn
    <3>3. \A i \in 1..Len(matches) : Genuine(matches[i], received', config_')
      BY <1>1, <1>3, <3>1, <3>2, GenuineStays
    <3> QED  BY <2>1, <3>1, <3>3, GenuineMatchesNext
  <2>5. Answers'
    BY <1>3, <2>1 DEF UseInv, Answers, WasSent, WasMatched, HasAnswer, Rules
  <2> QED  BY <2>2, <2>3, <2>4, <2>5 DEF UseInv
<1> QED  BY <1>2, <1>6, <1>7, ProcessCases

\* tick() uses no bytes; what it gives up it does not answer.
LEMMA TickKeepsUse ==
    ASSUME IInv, UseInv, NEW ms \in TickSteps, HTick(ms)
    PROVE  UseInv'
<1>1. /\ UNCHANGED <<config_, buffer_, received, matches>>
      /\ GaveUp(ms) \/ Issued(ms) \/ Idled(ms)
  BY TickCases
<1>2. /\ Progress \in Nat /\ Len(Rules) \in Nat /\ currentRuleIndex_ \in Nat
      /\ sent \in Seq(Nat) /\ Len(sent) \in Nat /\ Len(received) \in Nat
      /\ matches \in Seq(Match) /\ postCmdSent_ \in BOOLEAN
  BY Standing, LenProperties DEF UseInv, IInv, InTurn, ProgressOK
<1>3. BufferIsUnusedTail' /\ MatchesAreGenuine'
  BY <1>1 DEF UseInv, BufferIsUnusedTail, Used, MatchesAreGenuine, Rules,
     PostCommands
<1>4. \/ /\ Progress' = Progress + 1 /\ postCmdSent_' = FALSE
         /\ sent' = sent \/ sent' = Append(sent, Progress + 1)
         /\ began' = Len(received)
      \/ /\ Progress' = Progress /\ postCmdSent_' = TRUE
         /\ sent' = sent \/ sent' = Append(sent, Progress + 1)
         /\ began' = Len(received)
      \/ UNCHANGED <<Progress, postCmdSent_, sent, began>>
  BY <1>1 DEF GaveUp, Issued, Idled, Passed, EndWait, Progress
<1>5. InTurn'
  <2>1. /\ matches' \in Seq(Match) /\ received' \in Seq(Byte) /\ began' \in Nat
    BY <1>1, <1>2, <1>4 DEF UseInv, InTurn
  <2>2. \A i \in 1..Len(matches') :
           matches'[i].item \in 1..Progress' /\ matches'[i].from <= matches'[i].to
    <3>1. Progress' \in {Progress, Progress + 1}
      BY <1>4
    <3> QED  BY <1>1, <1>2, <3>1 DEF UseInv, InTurn
  <2>3. \A i \in 1..Len(sent') :
           sent'[i] <= IF postCmdSent_' THEN Progress' + 1 ELSE Progress'
    <3>1. CASE UNCHANGED <<Progress, postCmdSent_, sent, began>>
      BY <3>1 DEF UseInv, InTurn
    <3>2. CASE ~UNCHANGED <<Progress, postCmdSent_, sent, began>>
      BY <1>2, <1>4, <3>2, SentInTurn DEF UseInv, InTurn
    <3> QED  BY <3>1, <3>2
  <2> QED  BY <2>1, <2>2, <2>3 DEF InTurn
<1>6. Answers'
  <2>1. CASE /\ currentRuleIndex_' = currentRuleIndex_
             /\ ~(SendingPostCmd /\ sent' = Append(sent, Progress + 1))
    <3>1. sent' = sent
      BY <1>1, <2>1 DEF GaveUp, Issued, Idled
    <3> QED  BY <1>1, <2>1, <3>1 DEF UseInv, Answers, WasSent, WasMatched,
             HasAnswer, Rules
  <2>2. CASE /\ currentRuleIndex_' = currentRuleIndex_
             /\ SendingPostCmd /\ sent' = Append(sent, Progress + 1)
    <3>1. /\ Progress + 1 \in Nat
          /\ ~(Progress + 1 \in 1..Min(Len(Rules), currentRuleIndex_))
      BY <1>2, <2>2, Standing DEF Min
    <3> QED  BY <1>1, <1>2, <2>2, <3>1, AnswersStay DEF UseInv
  <2>3. CASE MatchingRule /\ currentRuleIndex_' = currentRuleIndex_ + 1 /\ sent' = sent
    <3>1. /\ Progress = currentRuleIndex_ /\ ~postCmdSent_
          /\ Progress + 1 \in 1..Len(Rules)
      BY <2>3, Standing DEF MatchingRule, SendingPostCmd
    <3>2. /\ 1..Min(Len(Rules), currentRuleIndex_) = 1..Progress
          /\ 1..Min(Len(Rules)', currentRuleIndex_') = 1..(Progress + 1)
      BY <1>1, <1>2, <2>3, <3>1 DEF Min, Rules
    <3>3. ASSUME NEW r \in 1..Progress
          PROVE  WasSent(r)' <=> WasMatched(r)' /\ HasAnswer(r)'
      BY <1>1, <2>3, <3>2 DEF UseInv, Answers, WasSent, WasMatched, HasAnswer, Rules
    <3>4. PICK q \in Nat : q = Progress + 1
      BY <1>2
    <3>5. ~WasSent(q)'
      <4>1. ASSUME NEW i \in 1..Len(sent) PROVE sent[i] # q
        <5>1. sent[i] \in Nat /\ sent[i] <= Progress
          BY <1>2, <3>1, ElementOfSeq DEF UseInv, InTurn
        <5> QED  BY <1>2, <3>4, <5>1
      <4> QED  BY <2>3, <4>1 DEF WasSent
    <3>6. ~WasMatched(q)'
      <4>1. ASSUME NEW i \in 1..Len(matches) PROVE matches[i].item # q
        <5>1. matches[i].item \in 1..Progress
          BY DEF UseInv, InTurn
        <5> QED  BY <1>2, <3>4, <5>1
      <4> QED  BY <1>1, <4>1 DEF WasMatched
    <3>7. \A r \in 1..(Progress + 1) : r \in 1..Progress \/ r = q
      BY <1>2, <3>4
    <3>8. \A r \in 1..Min(Len(Rules)', currentRuleIndex_') :
             WasSent(r)' <=> WasMatched(r)' /\ HasAnswer(r)'
      BY <3>2, <3>3, <3>5, <3>6, <3>7
    <3> QED  BY <3>8 DEF Answers
  <2> QED  BY <1>1, <2>1, <2>2, <2>3 DEF GaveUp, Issued, Idled
<1> QED  BY <1>3, <1>5, <1>6 DEF UseInv

\* Nothing received, nothing used and nothing sent.
Empty ==
    /\ received = <<>> /\ matches = <<>> /\ sent = <<>> /\ buffer_ = <<>>
    /\ began = 0

\* That is in order.
LEMMA NothingUsed == Empty => UseInv
<1> SUFFICES ASSUME Empty PROVE UseInv
  OBVIOUS
<1>0. /\ received = <<>> /\ matches = <<>> /\ sent = <<>> /\ buffer_ = <<>>
      /\ began = 0
  BY DEF Empty
<1>1. /\ <<>> \in Seq(Match) /\ <<>> \in Seq(Byte) /\ Len(<<>>) = 0
  BY EmptySeq
<1>2. InTurn
  BY <1>0, <1>1 DEF InTurn
<1>3. BufferIsUnusedTail
  <2>1. Used = 0 /\ Len(received) - kBufferSize <= 0 /\ kBufferSize \in Nat
    BY <1>0, <1>1, Widths DEF Used
  <2>2. Max(Used, Len(received) - kBufferSize) = 0
    <3>1. Len(received) - kBufferSize \in Int
      BY <1>0, <1>1, <2>1
    <3> QED  BY <2>1, <3>1, MaxIs
  <2>3. Erase(<<>>, 0) = <<>>
    BY <1>1, SubSeqEmpty DEF Erase
  <2> QED  BY <1>0, <2>2, <2>3 DEF BufferIsUnusedTail
<1>4. MatchesAreGenuine
  BY <1>0, <1>1 DEF MatchesAreGenuine
<1>5. Answers
  BY <1>0, <1>1 DEF Answers, WasSent, WasMatched
<1> QED  BY <1>2, <1>3, <1>4, <1>5 DEF UseInv

\* Nor is anything out of order after a step that leaves nothing.
LEMMA NothingUsedNext == Empty' => UseInv'
BY NothingUsed, PTL

\* So the invariant holds throughout.
LEMMA UseInvariance == HSpec => []UseInv
<1>1. HInit => UseInv
  BY NothingUsed DEF HInit, Init, Empty
<1>2. IInv /\ UseInv /\ [HNext]_hvars => UseInv'
  <2> SUFFICES ASSUME IInv, UseInv, [HNext]_hvars PROVE UseInv'
    OBVIOUS
  <2>1. CASE \E chunk \in Chunks : HProcess(chunk)
    BY <2>1, ProcessKeepsUse
  <2>2. CASE \E ms \in TickSteps : HTick(ms)
    BY <2>2, TickKeepsUse
  <2>3. CASE \E seq \in Configs : HSetConfig(seq)
    <3>1. Empty'
      BY <2>3 DEF HSetConfig, SetConfig, ResetState, Empty
    <3> QED  BY <3>1, NothingUsedNext
  <2>4. CASE UNCHANGED hvars
    <3> USE <2>4 DEF hvars, vars, ruleVars, postVars, UseInv
    <3>1. InTurn'
      BY DEF InTurn, Progress
    <3>2. BufferIsUnusedTail' /\ MatchesAreGenuine'
      BY DEF BufferIsUnusedTail, Used, MatchesAreGenuine, Rules, PostCommands
    <3>3. Answers'
      BY DEF Answers, WasSent, WasMatched, HasAnswer, Rules
    <3> QED  BY <3>1, <3>2, <3>3
  <2> QED  BY <2>1, <2>2, <2>3, <2>4 DEF HNext
<1> QED  BY <1>1, <1>2, ObservedInvariance, PTL DEF HSpec

\* No byte is lost, repeated or left over: buffer_ is the end of what came
\* since setConfig(), all of it that no match used and kBufferSize can hold.
THEOREM BufferIsAlwaysUnusedTail == HSpec => []BufferIsUnusedTail
<1>1. UseInv => BufferIsUnusedTail
  BY DEF UseInv
<1> QED  BY <1>1, UseInvariance, PTL

\* A response is written if and only if its trigger came, as bytes that are
\* its trigger and that no other match used: a rule that tick() gave up is
\* never answered, and a matched one always is, unless there is nothing to
\* write.
THEOREM AlwaysAnsweredIffMatched == HSpec => []AnsweredIffMatched
<1>1. UseInv => AnsweredIffMatched
  BY GenuineMatches DEF UseInv
<1> QED  BY <1>1, UseInvariance, PTL

-----------------------------------------------------------------------------
(* Inside the bridge.                                                      *)

LEMMA InitIsInit == CInit => Init
BY DEF CInit

\* Every handler makes one call on the responder or none.
LEMMA NextIsNext == [CNext]_cvars => [Next]_vars
<1> SUFFICES ASSUME [CNext]_cvars PROVE Next \/ UNCHANGED vars
  OBVIOUS
<1>1. ASSUME NEW chunk \in Chunks, OnUartData(chunk) PROVE Next
  BY <1>1 DEF OnUartData, Next
<1>2. ASSUME NEW n \in ClientData, OnClientData(n) PROVE UNCHANGED vars
  BY <1>2 DEF OnClientData
<1>3. ASSUME NEW seq \in Configs, PostConfig(seq) PROVE Next
  BY <1>3 DEF PostConfig, Next
<1>4. ASSUME NEW status, BadRequest(status) PROVE UNCHANGED vars
  BY <1>4 DEF BadRequest
<1>5. CASE GetConfig
  BY <1>5 DEF GetConfig
<1>6. CASE Startup
  BY <1>6, ControllerAssumption DEF Startup, Next
<1>7. ASSUME NEW ms \in TickSteps, TickResponder(ms) PROVE Next
  BY <1>7 DEF TickResponder, Next
<1>8. CASE Rearm
  BY <1>8 DEF Rearm
<1>9. CASE Reload
  BY <1>9, ControllerAssumption DEF Reload, Next
<1>10. CASE Throughput
  BY <1>10 DEF Throughput
<1>11. CASE UNCHANGED cvars
  BY <1>11 DEF cvars
<1> QED
  BY <1>1, <1>2, <1>3, <1>4, <1>5, <1>6, <1>7, <1>8, <1>9, <1>10, <1>11
     DEF CNext, MainThread

\* The responder inside the bridge is the responder.
THEOREM ResponderInBridge == CSpec => Spec
BY InitIsInit, NextIsNext, PTL DEF CSpec, Spec

\* So it deals with its rules and commands one at a time and in order, and
\* starts over only by loading a configuration.
THEOREM BridgeImplementsScript == CSpec => ImplementsScript
BY ResponderInBridge, Refinement

\* And it is always in a state that its calls were written for, as long as they
\* do not overlap.
THEOREM ResponderConsistentInBridge == CSpec => []Consistent
BY ResponderInBridge, AlwaysConsistent

-----------------------------------------------------------------------------
(* A sequence in progress is replaced by a POST and by nothing else, where  *)
(* the callbacks cannot come between the parts of a tick.                  *)

\* process and tick only add to what has been written.
LEMMA CallsOnlyWrite ==
    ASSUME IInv,
           \/ \E chunk \in Chunks : Process(chunk)
           \/ \E ms \in TickSteps : Tick(ms)
    PROVE  config_' = config_ /\ ~(Len(sent') < Len(sent))
<1>1. config_' = config_
  BY DEF Process, Tick
<1>2. sent \in Seq(Nat) /\ Len(sent) \in Nat
  BY LenProperties DEF IInv
<1>3. ASSUME NEW item, NEW text, SendToUart(item, text)
      PROVE  ~(Len(sent') < Len(sent))
  <2>1. sent' = sent \/ sent' = Append(sent, item)
    BY <1>3 DEF SendToUart
  <2>2. Len(Append(sent, item)) = Len(sent) + 1
    BY <1>2
  <2> QED  BY <1>2, <2>1, <2>2
<1>4. ASSUME UNCHANGED sent PROVE ~(Len(sent') < Len(sent))
  BY <1>2, <1>4
<1>5. ASSUME NEW chunk \in Chunks, Process(chunk)
      PROVE  ~(Len(sent') < Len(sent))
  <2> DEFINE buf == Trim(buffer_ \o chunk)
  <2>1. MatchTrigger(buf) \/ MatchPrompt(buf) \/ NoMatch(buf)
    BY <1>5 DEF Process
  <2> QED  BY <1>3, <1>4, <2>1 DEF MatchTrigger, MatchPrompt, NoMatch
<1>6. ASSUME NEW ms \in TickSteps, Tick(ms)
      PROVE  ~(Len(sent') < Len(sent))
  BY <1>3, <1>4, <1>6 DEF Tick, RuleTimer, RuleTimeout, PostDelay, PostDelayOver,
     PromptTimer, PromptTimeout, TickNothing, SendCurrentPostCommand
<1> QED  BY <1>1, <1>5, <1>6

\* What the test of the state has found stays true until the setConfig.
IdleUntilReload ==
    /\ mainPc \in {"startup", "loop", "rearm", "reload", "throughput"}
    /\ mainPc = "reload" => state_ = "IDLE"

LEMMA IdleUntilReloadInvariance == ~Threaded => (CSpec => []IdleUntilReload)
<1> SUFFICES ASSUME ~Threaded PROVE CSpec => []IdleUntilReload
  OBVIOUS
<1>1. CInit => IdleUntilReload
  BY DEF CInit, IdleUntilReload
<1>2. IdleUntilReload /\ [CNext]_cvars => IdleUntilReload'
  <2> SUFFICES ASSUME IdleUntilReload, [CNext]_cvars PROVE IdleUntilReload'
    OBVIOUS
  <2> USE DEF IdleUntilReload, CallbacksMayRun
  <2>1. ASSUME NEW chunk \in Chunks, OnUartData(chunk) PROVE IdleUntilReload'
    BY <2>1 DEF OnUartData
  <2>2. ASSUME NEW n \in ClientData, OnClientData(n) PROVE IdleUntilReload'
    BY <2>2 DEF OnClientData
  <2>3. ASSUME NEW seq \in Configs, PostConfig(seq) PROVE IdleUntilReload'
    BY <2>3 DEF PostConfig
  <2>4. ASSUME NEW status, BadRequest(status) PROVE IdleUntilReload'
    BY <2>4 DEF BadRequest
  <2>5. CASE GetConfig
    BY <2>5 DEF GetConfig
  <2>6. CASE Startup
    BY <2>6 DEF Startup
  <2>7. ASSUME NEW ms \in TickSteps, TickResponder(ms) PROVE IdleUntilReload'
    BY <2>7 DEF TickResponder
  <2>8. CASE Rearm
    BY <2>8 DEF Rearm, vars
  <2>9. CASE Reload
    BY <2>9 DEF Reload
  <2>10. CASE Throughput
    BY <2>10 DEF Throughput
  <2>11. CASE UNCHANGED cvars
    BY <2>11 DEF cvars, vars
  <2> QED
    BY <2>1, <2>2, <2>3, <2>4, <2>5, <2>6, <2>7, <2>8, <2>9, <2>10, <2>11
       DEF CNext, MainThread
<1> QED  BY <1>1, <1>2, PTL DEF CSpec

\* On one thread re-arming never takes the place of a sequence that is not
\* finished: the state is still IDLE when the setConfig of tick comes.  With
\* threads it need not be, and a command that was POSTed or a trigger that was
\* matched in between is lost.
THEOREM FinishedIsReplacedOnM5 == ~Threaded => (CSpec => OnlyFinishedIsReplaced)
<1> SUFFICES ASSUME ~Threaded PROVE CSpec => OnlyFinishedIsReplaced
  OBVIOUS
<1> DEFINE Replaced == Len(sent') < Len(sent) \/ config_' # config_
           Allowed == \/ mainPc = "startup" \/ state_ = "IDLE"
                      \/ calls' = <<<<"http.reply", 200>>>>
<1>1. ASSUME IInv, IdleUntilReload, [CNext]_cvars
      PROVE  [Replaced => Allowed]_cvars
  <2> SUFFICES ASSUME CNext PROVE Replaced => Allowed
    BY <1>1
  <2>1. ASSUME UNCHANGED vars PROVE ~Replaced
    <3>1. sent' = sent /\ config_' = config_ /\ Len(sent) \in Nat
      BY <1>1, <2>1, LenProperties DEF vars, IInv
    <3> QED  BY <3>1
  <2>2. ASSUME NEW chunk \in Chunks, OnUartData(chunk) PROVE ~Replaced
    BY <1>1, <2>2, CallsOnlyWrite DEF OnUartData
  <2>3. ASSUME NEW n \in ClientData, OnClientData(n) PROVE ~Replaced
    BY <2>1, <2>3 DEF OnClientData
  <2>4. ASSUME NEW seq \in Configs, PostConfig(seq) PROVE Allowed
    BY <2>4 DEF PostConfig
  <2>5. ASSUME NEW status, BadRequest(status) PROVE ~Replaced
    BY <2>1, <2>5 DEF BadRequest
  <2>6. CASE GetConfig
    BY <2>1, <2>6 DEF GetConfig
  <2>7. CASE Startup
    BY <2>7 DEF Startup
  <2>8. ASSUME NEW ms \in TickSteps, TickResponder(ms) PROVE ~Replaced
    BY <1>1, <2>8, CallsOnlyWrite DEF TickResponder
  <2>9. CASE Rearm
    BY <2>1, <2>9 DEF Rearm
  <2>10. CASE Reload
    BY <1>1, <2>10 DEF Reload, IdleUntilReload
  <2>11. CASE Throughput
    BY <2>1, <2>11 DEF Throughput
  <2> QED
    BY <2>2, <2>3, <2>4, <2>5, <2>6, <2>7, <2>8, <2>9, <2>10, <2>11
       DEF CNext, MainThread
<1>2. CSpec => []IInv
  BY ResponderInBridge, Invariance
<1>3. CSpec => []IdleUntilReload
  BY IdleUntilReloadInvariance
<1>4. CSpec => [][CNext]_cvars
  BY PTL DEF CSpec
<1> QED  BY <1>1, <1>2, <1>3, <1>4, PTL DEF OnlyFinishedIsReplaced

=============================================================================
