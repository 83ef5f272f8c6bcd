------------------------ MODULE BridgeThreadsProofs ------------------------
(***************************************************************************)
(* On the platform that has one thread, where a callback and a tick come   *)
(* one after the other, for every configuration and any number of bytes:   *)
(* the responder never gets stuck, and the count of bytes is exact.        *)
(***************************************************************************)
EXTENDS BridgeThreads, SequenceTheorems, TLAPS

-----------------------------------------------------------------------------
(* Lists of statements, as one statement before the others.                *)

Stmt ==
    {"rx.load", "rx.store", "process", "tick", "rearm", "report", "rx.zero",
     "rule.next", "rule.last", "rule.use", "rule.zero", "post.next", "post.last",
     "post.take", "post.zero", "post.timer", "post.send", "prompt.match",
     "prompt.expected", "sent.true", "sent.false", "waiting.true",
     "waiting.false", "state.idle", "state.sending", "state.first"}

Cons(s, r) == <<s>> \o r

LEMMA AreStmts ==
    /\ "rx.load" \in Stmt /\ "rx.store" \in Stmt /\ "process" \in Stmt
    /\ "tick" \in Stmt /\ "rearm" \in Stmt /\ "report" \in Stmt /\ "rx.zero" \in Stmt
    /\ "rule.next" \in Stmt /\ "rule.last" \in Stmt /\ "rule.use" \in Stmt
    /\ "rule.zero" \in Stmt /\ "post.next" \in Stmt /\ "post.last" \in Stmt
    /\ "post.take" \in Stmt /\ "post.zero" \in Stmt /\ "post.timer" \in Stmt
    /\ "post.send" \in Stmt /\ "prompt.match" \in Stmt /\ "prompt.expected" \in Stmt
    /\ "sent.true" \in Stmt /\ "sent.false" \in Stmt /\ "waiting.true" \in Stmt
    /\ "waiting.false" \in Stmt /\ "state.idle" \in Stmt
    /\ "state.sending" \in Stmt /\ "state.first" \in Stmt
BY DEF Stmt

LEMMA ConsIs ==
    \A s \in Stmt : \A r \in Seq(Stmt) :
        /\ Cons(s, r) \in Seq(Stmt) /\ Cons(s, r) # <<>>
        /\ Head(Cons(s, r)) = s /\ Tail(Cons(s, r)) = r
<1> SUFFICES ASSUME NEW s \in Stmt, NEW r \in Seq(Stmt)
             PROVE  /\ Cons(s, r) \in Seq(Stmt) /\ Cons(s, r) # <<>>
                    /\ Head(Cons(s, r)) = s /\ Tail(Cons(s, r)) = r
  OBVIOUS
<1>1. <<s>> \in Seq(Stmt) /\ Len(<<s>>) = 1 /\ <<s>>[1] = s
  OBVIOUS
<1>2. PICK u : u = <<s>>
  OBVIOUS
<1>3. /\ Cons(s, r) \in Seq(Stmt) /\ Len(Cons(s, r)) = 1 + Len(r)
      /\ Len(r) \in Nat /\ Cons(s, r)[1] = s
      /\ \A i \in 1..Len(r) : Cons(s, r)[i + 1] = r[i]
  BY <1>1, <1>2, ConcatProperties, LenProperties DEF Cons
<1>4. Cons(s, r) # <<>> /\ Head(Cons(s, r)) = s
  BY <1>3, EmptySeq, HeadTailProperties
<1>5. /\ Tail(Cons(s, r)) \in Seq(Stmt) /\ Len(Tail(Cons(s, r))) = Len(r)
      /\ \A i \in 1..Len(r) : Tail(Cons(s, r))[i] = r[i]
  BY <1>3, <1>4, HeadTailProperties
<1>6. Tail(Cons(s, r)) = r
  BY <1>5, SeqEqual
<1> QED  BY <1>3, <1>4, <1>6

\* A list put before another.
LEMMA List0 == \A r \in Seq(Stmt) : <<>> \o r = r
BY ConcatEmptySeq

LEMMA List1 == \A a : \A r \in Seq(Stmt) : <<a>> \o r = Cons(a, r)
BY DEF Cons

\* A list is a statement before a shorter list.
Begins(s, a, t) ==
    /\ s \in Seq(Stmt) /\ t \in Seq(Stmt) /\ a \in Stmt
    /\ Len(s) = 1 + Len(t) /\ s[1] = a
    /\ \A i \in 1..Len(t) : s[i + 1] = t[i]

LEMMA Split ==
    \A s, t, a : Begins(s, a, t) => \A r \in Seq(Stmt) : s \o r = Cons(a, t \o r)
<1> SUFFICES ASSUME NEW s, NEW t, NEW a, Begins(s, a, t), NEW r \in Seq(Stmt)
             PROVE  s \o r = Cons(a, t \o r)
  OBVIOUS
<1>1. /\ s \in Seq(Stmt) /\ t \in Seq(Stmt) /\ a \in Stmt
      /\ Len(s) = 1 + Len(t) /\ s[1] = a
      /\ \A i \in 1..Len(t) : s[i + 1] = t[i]
  BY DEF Begins
<1>2. PICK u : u = <<a>>
  OBVIOUS
<1>3. u \in Seq(Stmt) /\ Len(u) = 1 /\ u[1] = a
  BY <1>1, <1>2
<1>4. PICK v : v = u \o t
  OBVIOUS
<1>5. /\ v \in Seq(Stmt) /\ Len(v) = 1 + Len(t)
      /\ \A i \in 1..(1 + Len(t)) : v[i] = IF i <= 1 THEN u[i] ELSE t[i - 1]
  <2>1. /\ u \o t \in Seq(Stmt) /\ Len(u \o t) = Len(u) + Len(t)
        /\ \A i \in 1..(Len(u) + Len(t)) :
              (u \o t)[i] = IF i <= Len(u) THEN u[i] ELSE t[i - Len(u)]
    BY <1>1, <1>3, ConcatProperties
  <2> QED  BY <1>3, <1>4, <2>1
<1>6. \A i \in 1..Len(s) : s[i] = v[i]
  <2> SUFFICES ASSUME NEW i \in 1..Len(s) PROVE s[i] = v[i]
    OBVIOUS
  <2>1. CASE i = 1
    BY <1>1, <1>3, <1>5, <2>1
  <2>2. CASE i # 1
    <3>1. /\ i - 1 \in 1..Len(t) /\ (i - 1) + 1 = i /\ i \in 1..(1 + Len(t))
          /\ ~(i <= 1)
      BY <1>1, <2>2, LenProperties
    <3> QED  BY <1>1, <1>5, <3>1
  <2> QED  BY <2>1, <2>2
<1>7. s = v
  BY <1>1, <1>5, <1>6, SeqEqual
<1>8. (u \o t) \o r = u \o (t \o r)
  <2>1. u \in Seq(Stmt) /\ t \in Seq(Stmt) /\ r \in Seq(Stmt)
    BY <1>1, <1>3
  <2> QED  BY <2>1, ConcatAssociative
<1> QED  BY <1>2, <1>4, <1>7, <1>8 DEF Cons

LEMMA List2 ==
    \A a, b \in Stmt : \A r \in Seq(Stmt) : <<a, b>> \o r = Cons(a, Cons(b, r))
<1> SUFFICES ASSUME NEW a \in Stmt, NEW b \in Stmt
             PROVE  \A r \in Seq(Stmt) : <<a, b>> \o r = Cons(a, Cons(b, r))
  OBVIOUS
<1> DEFINE s == <<a, b>>  t == <<b>>
<1>1. s \in Seq(Stmt) /\ t \in Seq(Stmt) /\ Len(s) = 2 /\ Len(t) = 1
      /\ s[1] = a /\ s[2] = b /\ t[1] = b
  OBVIOUS
<1>2. \A r \in Seq(Stmt) : t \o r = Cons(b, r)
  BY DEF Cons
<1> HIDE DEF s, t
<1>4. Begins(s, a, t)
  BY <1>1 DEF Begins
<1>5. \A r \in Seq(Stmt) : s \o r = Cons(a, t \o r)
  BY <1>4, Split
<1>6. \A r \in Seq(Stmt) : s \o r = Cons(a, Cons(b, r))
  BY <1>2, <1>5
<1> QED  BY <1>6 DEF s

LEMMA List3 ==
    \A a, b, c \in Stmt : \A r \in Seq(Stmt) :
        <<a, b, c>> \o r = Cons(a, Cons(b, Cons(c, r)))
<1> SUFFICES ASSUME NEW a \in Stmt, NEW b \in Stmt, NEW c \in Stmt
             PROVE  \A r \in Seq(Stmt) : <<a, b, c>> \o r = Cons(a, Cons(b, Cons(c, r)))
  OBVIOUS
<1> DEFINE s == <<a, b, c>>  t == <<b, c>>
<1>1. s \in Seq(Stmt) /\ t \in Seq(Stmt) /\ Len(s) = 3 /\ Len(t) = 2
      /\ s[1] = a /\ s[2] = b /\ s[3] = c /\ t[1] = b /\ t[2] = c
  OBVIOUS
<1>2. \A r \in Seq(Stmt) : t \o r = Cons(b, Cons(c, r))
  BY List2
<1> HIDE DEF s, t
<1>4. Begins(s, a, t)
  BY <1>1 DEF Begins
<1>5. \A r \in Seq(Stmt) : s \o r = Cons(a, t \o r)
  BY <1>4, Split
<1>6. \A r \in Seq(Stmt) : s \o r = Cons(a, Cons(b, Cons(c, r)))
  BY <1>2, <1>5
<1> QED  BY <1>6 DEF s

LEMMA List4 ==
    \A a, b, c, d \in Stmt : \A r \in Seq(Stmt) :
        <<a, b, c, d>> \o r = Cons(a, Cons(b, Cons(c, Cons(d, r))))
<1> SUFFICES ASSUME NEW a \in Stmt, NEW b \in Stmt, NEW c \in Stmt, NEW d \in Stmt
             PROVE  \A r \in Seq(Stmt) :
                        <<a, b, c, d>> \o r = Cons(a, Cons(b, Cons(c, Cons(d, r))))
  OBVIOUS
<1> DEFINE s == <<a, b, c, d>>  t == <<b, c, d>>
<1>1. s \in Seq(Stmt) /\ t \in Seq(Stmt) /\ Len(s) = 4 /\ Len(t) = 3
      /\ s[1] = a /\ s[2] = b /\ s[3] = c /\ s[4] = d
      /\ t[1] = b /\ t[2] = c /\ t[3] = d
  OBVIOUS
<1>2. \A r \in Seq(Stmt) : t \o r = Cons(b, Cons(c, Cons(d, r)))
  BY List3
<1> HIDE DEF s, t
<1>4. Begins(s, a, t)
  BY <1>1 DEF Begins
<1>5. \A r \in Seq(Stmt) : s \o r = Cons(a, t \o r)
  BY <1>4, Split
<1>6. \A r \in Seq(Stmt) : s \o r = Cons(a, Cons(b, Cons(c, Cons(d, r))))
  BY <1>2, <1>5
<1> QED  BY <1>6 DEF s

-----------------------------------------------------------------------------
(* The inductive invariant: what is true before which statement.           *)

Matching == state_ = "MATCHING_RULES"
Sending == state_ = "SENDING_POST_COMMANDS"

\* What process and tick rely on, and leave behind.
Sound ==
    /\ Matching => currentRuleIndex_ < size.rules
    /\ Sending /\ postCmdSent_ => waitingForPostPrompt_

\* The first statement of u is s, and the others are v.
Opens(u, s, v) == u # <<>> /\ Head(u) = s /\ Tail(u) = v

\* A thread that has u to execute is within process, or the responder's tick,
\* and continues with r.
WithinCall(u, r) ==
    \/ Sound /\ u = r
    \/ Sound /\ Matching /\ Opens(u, "rule.use", r)
    \/ Matching /\ Opens(u, "rule.next", Cons("rule.last", r))
    \/ Matching /\ Opens(u, "rule.last", r)
    \/ Opens(u, "state.sending",
             Cons("post.zero", Cons("sent.false", Cons("waiting.false", r))))
    \/ Sending /\ Opens(u, "post.zero", Cons("sent.false", Cons("waiting.false", r)))
    \/ Sending /\ Opens(u, "sent.false", Cons("waiting.false", r))
    \/ Sending /\ ~postCmdSent_ /\ Opens(u, "waiting.false", r)
    \/ Opens(u, "state.idle", r)
    \/ Sending /\ Opens(u, "post.next",
                        Cons("sent.false", Cons("waiting.false", Cons("post.last", r))))
    \/ Sending /\ Opens(u, "sent.false", Cons("waiting.false", Cons("post.last", r)))
    \/ Sending /\ ~postCmdSent_ /\ Opens(u, "waiting.false", Cons("post.last", r))
    \/ Sending /\ ~postCmdSent_ /\ Opens(u, "post.last", r)
    \/ Sound /\ Sending /\ Opens(u, "post.take", Cons("post.timer", r))
    \/ Sound /\ Sending /\ Opens(u, "post.timer", r)
    \/ Sound /\ Sending /\ Opens(u, "post.take", Cons("prompt.match", r))
    \/ Sound /\ Sending /\ Opens(u, "prompt.match", r)
    \/ Sending /\ ~postCmdSent_ /\ Opens(u, "post.send", r)
    \/ Sending /\ ~postCmdSent_
       /\ Opens(u, "post.take", Cons("sent.true", Cons("prompt.expected", r)))
    \/ Sending /\ ~postCmdSent_ /\ Opens(u, "sent.true", Cons("prompt.expected", r))
    \/ Sending /\ Opens(u, "prompt.expected", r)
    \/ Sending /\ Opens(u, "waiting.true", r)

\* Within setConfig, which is called to re-arm.
WithinSetConfig(u, r) ==
    \/ Opens(u, "rule.zero", Cons("post.zero", Cons("sent.false",
                                  Cons("waiting.false", Cons("state.first", r)))))
    \/ /\ currentRuleIndex_ = 0
       /\ \/ Opens(u, "post.zero",
                   Cons("sent.false", Cons("waiting.false", Cons("state.first", r))))
          \/ Opens(u, "sent.false", Cons("waiting.false", Cons("state.first", r)))
          \/ ~postCmdSent_ /\ Opens(u, "waiting.false", Cons("state.first", r))
          \/ ~postCmdSent_ /\ Opens(u, "state.first", r)

Zeroing == Cons("rx.zero", <<>>)
Reporting == Cons("report", Zeroing)
Rearming == Cons("rearm", Reporting)
Ticking == Cons("tick", Rearming)

Processing == Cons("process", <<>>)
Storing == Cons("rx.store", Processing)
Loading == Cons("rx.load", Storing)

Exact == reported + rxByteCount_ = received

MainAt(u) ==
    \/ Exact /\ Sound /\ u \in {<<>>, Ticking, Reporting}
    \/ Exact /\ WithinCall(u, Rearming)
    \/ Exact /\ WithinSetConfig(u, Reporting)
    \/ reported = received /\ Sound /\ u = Zeroing

UartAt(u) ==
    \/ reported + rxByteCount_ + 1 = received /\ Sound /\ u = Loading
    \/ /\ reported + rxByteCount_ + 1 = received /\ loaded = rxByteCount_
       /\ Sound /\ u = Storing
    \/ Exact /\ Sound /\ u = Processing
    \/ Exact /\ WithinCall(u, <<>>)

\* One of the two threads is at rest, and the other somewhere in its work.
OneAtATime ==
    \/ todo["uart"] = <<>> /\ MainAt(todo["main"])
    \/ todo["main"] = <<>> /\ UartAt(todo["uart"])

Types ==
    /\ todo \in [Thread -> Seq(Stmt)] /\ size \in Sizes
    /\ {rxByteCount_, loaded, received, reported} \subseteq Nat

IInv == currentRuleIndex_ \in Nat /\ (~threaded => Types /\ OneAtATime)

-----------------------------------------------------------------------------
(* Statements.                                                             *)

LEMMA ListsAre ==
    /\ <<>> \in Seq(Stmt)
    /\ Zeroing \in Seq(Stmt) /\ Reporting \in Seq(Stmt) /\ Rearming \in Seq(Stmt)
    /\ Ticking \in Seq(Stmt) /\ Processing \in Seq(Stmt)
    /\ Storing \in Seq(Stmt) /\ Loading \in Seq(Stmt)
<1>1. <<>> \in Seq(Stmt)
  BY EmptySeq
<1> QED
  BY <1>1, AreStmts, ConsIs DEF Zeroing, Reporting, Rearming, Ticking, Processing, Storing,
     Loading

LEMMA DoIs ==
    ASSUME NEW t \in Thread, NEW s, NEW more, Types, Do(t, s, more)
    PROVE  /\ todo[t] \in Seq(Stmt) /\ todo[t] # <<>> /\ Head(todo[t]) = s
           /\ todo' = [todo EXCEPT ![t] = more \o Tail(todo[t])]
           /\ todo'[t] = more \o Tail(todo[t])
           /\ \A o \in Thread : o # t => todo'[o] = todo[o]
           /\ UNCHANGED setting
BY DEF Types, Do, AtRest

\* The blocks.
LEMMA BlocksAre ==
    \A r \in Seq(Stmt) :
        /\ Callback \o r = Cons("rx.load", Cons("rx.store", Cons("process", r)))
        /\ BridgeTick \o r = Cons("tick", Cons("rearm", Cons("report", Cons("rx.zero", r))))
        /\ AdvanceRule \o r = Cons("rule.next", Cons("rule.last", r))
        /\ EnterPosts \o r = Cons("state.sending", Cons("post.zero",
                                 Cons("sent.false", Cons("waiting.false", r))))
        /\ AdvancePost \o r = Cons("post.next", Cons("sent.false",
                                  Cons("waiting.false", Cons("post.last", r))))
        /\ SetConfig \o r = Cons("rule.zero", Cons("post.zero", Cons("sent.false",
                                Cons("waiting.false", Cons("state.first", r)))))
<1> SUFFICES ASSUME NEW r \in Seq(Stmt)
             PROVE
        /\ Callback \o r = Cons("rx.load", Cons("rx.store", Cons("process", r)))
        /\ BridgeTick \o r = Cons("tick", Cons("rearm", Cons("report", Cons("rx.zero", r))))
        /\ AdvanceRule \o r = Cons("rule.next", Cons("rule.last", r))
        /\ EnterPosts \o r = Cons("state.sending", Cons("post.zero",
                                 Cons("sent.false", Cons("waiting.false", r))))
        /\ AdvancePost \o r = Cons("post.next", Cons("sent.false",
                                  Cons("waiting.false", Cons("post.last", r))))
        /\ SetConfig \o r = Cons("rule.zero", Cons("post.zero", Cons("sent.false",
                                Cons("waiting.false", Cons("state.first", r)))))
  OBVIOUS
<1>1. Callback \o r = Cons("rx.load", Cons("rx.store", Cons("process", r)))
  BY List3, AreStmts DEF Callback
<1>2. BridgeTick \o r = Cons("tick", Cons("rearm", Cons("report", Cons("rx.zero", r))))
  <2>1. /\ "tick" \in Stmt /\ "rearm" \in Stmt
        /\ "report" \in Stmt /\ "rx.zero" \in Stmt
    BY AreStmts
  <2> QED  BY <2>1, List4 DEF BridgeTick
<1>3. AdvanceRule \o r = Cons("rule.next", Cons("rule.last", r))
  BY List2, AreStmts DEF AdvanceRule
<1>4. EnterPosts \o r = Cons("state.sending", Cons("post.zero",
                            Cons("sent.false", Cons("waiting.false", r))))
  <2>1. /\ "state.sending" \in Stmt /\ "post.zero" \in Stmt
        /\ "sent.false" \in Stmt /\ "waiting.false" \in Stmt
    BY AreStmts
  <2> QED  BY <2>1, List4 DEF EnterPosts
<1>5. AdvancePost \o r = Cons("post.next", Cons("sent.false",
                             Cons("waiting.false", Cons("post.last", r))))
  <2>1. /\ "post.next" \in Stmt /\ "sent.false" \in Stmt
        /\ "waiting.false" \in Stmt /\ "post.last" \in Stmt
    BY AreStmts
  <2> QED  BY <2>1, List4 DEF AdvancePost
<1>6. SetConfig \o r = Cons("rule.zero", Cons("post.zero", Cons("sent.false",
                           Cons("waiting.false", Cons("state.first", r)))))
  <2>1. /\ ResetState \in Seq(Stmt) /\ "state.first" \in Stmt
        /\ <<"state.first">> \in Seq(Stmt)
    BY AreStmts DEF ResetState
  <2>2. SetConfig = ResetState \o <<"state.first">>
    BY <2>1, AppendIsConcat DEF SetConfig
  <2>3. SetConfig \o r = ResetState \o Cons("state.first", r)
    BY <2>1, <2>2, ConcatAssociative DEF Cons
  <2>4. Cons("state.first", r) \in Seq(Stmt)
    BY <2>1, ConsIs
  <2>5. /\ "rule.zero" \in Stmt /\ "post.zero" \in Stmt
        /\ "sent.false" \in Stmt /\ "waiting.false" \in Stmt
    BY AreStmts
  <2> QED  BY <2>3, <2>4, <2>5, List4 DEF ResetState
<1> QED  BY <1>1, <1>2, <1>3, <1>4, <1>5, <1>6

\* What a list begins with.
LEMMA ConsOpens ==
    \A s \in Stmt : \A r \in Seq(Stmt) :
        Cons(s, r) \in Seq(Stmt) /\ Opens(Cons(s, r), s, r)
BY ConsIs DEF Opens

-----------------------------------------------------------------------------
(* The statements of a call, when the other thread is at rest.             *)

\* What the blocks begin with.
EnterOpens(u, r) ==
    Opens(u, "state.sending", Cons("post.zero", Cons("sent.false", Cons("waiting.false", r))))
AdvanceOpens(u, r) ==
    Opens(u, "post.next", Cons("sent.false", Cons("waiting.false", Cons("post.last", r))))

\* After a statement that is replaced by nothing.
LEMMA GoesOn ==
    \A s \in Stmt : \A v \in Seq(Stmt) : \A u : u = <<>> \o Cons(s, v) => Opens(u, s, v)
BY ConsOpens, List0

LEMMA BlocksOpen ==
    \A r \in Seq(Stmt) :
        EnterOpens(EnterPosts \o r, r) /\ AdvanceOpens(AdvancePost \o r, r)
<1> SUFFICES ASSUME NEW r \in Seq(Stmt)
             PROVE  EnterOpens(EnterPosts \o r, r) /\ AdvanceOpens(AdvancePost \o r, r)
  OBVIOUS
<1>1. EnterOpens(EnterPosts \o r, r)
  <2> DEFINE v == Cons("post.zero", Cons("sent.false", Cons("waiting.false", r)))
  <2>1. EnterPosts \o r = Cons("state.sending", v)
    BY BlocksAre
  <2>2. v \in Seq(Stmt)
    BY AreStmts, ConsOpens
  <2> HIDE DEF v
  <2>3. Opens(EnterPosts \o r, "state.sending", v)
    BY <2>1, <2>2, AreStmts, ConsOpens
  <2> QED  BY <2>3 DEF EnterOpens, v
<1>2. AdvanceOpens(AdvancePost \o r, r)
  <2> DEFINE v == Cons("sent.false", Cons("waiting.false", Cons("post.last", r)))
  <2>1. AdvancePost \o r = Cons("post.next", v)
    BY BlocksAre
  <2>2. v \in Seq(Stmt)
    BY AreStmts, ConsOpens
  <2> HIDE DEF v
  <2>3. Opens(AdvancePost \o r, "post.next", v)
    BY <2>1, <2>2, AreStmts, ConsOpens
  <2> QED  BY <2>3 DEF AdvanceOpens, v
<1> QED  BY <1>1, <1>2

LEMMA StatementKeeps ==
    ASSUME NEW t \in Thread, NEW r \in Seq(Stmt), Types,
           WithinCall(todo[t], r), todo[t] # r, Statement(t)
    PROVE  WithinCall(todo[t], r)'<1>1. CASE IncrementRule(t)
  <2>1. /\ Head(todo[t]) = "rule.next" /\ todo'[t] = <<>> \o Tail(todo[t])
        /\ state_' = state_
    BY <1>1, DoIs DEF IncrementRule, Assign
  <2>2. Matching /\ Tail(todo[t]) = Cons("rule.last", r)
    BY <2>1 DEF WithinCall, Opens
  <2>3. Cons("rule.last", r) \in Seq(Stmt) /\ Opens(Cons("rule.last", r), "rule.last", r)
    BY AreStmts, ConsOpens
  <2>4. todo'[t] = Cons("rule.last", r)
    BY <2>1, <2>2, <2>3, List0
  <2> QED  BY <2>1, <2>2, <2>3, <2>4 DEF WithinCall, Matching
<1>2. CASE LastRule(t)
  <2>1. /\ Head(todo[t]) = "rule.last" /\ UNCHANGED <<respVars, setting>>
        /\ todo'[t] = (IF currentRuleIndex_ < size.rules THEN <<>>
                       ELSE IF size.posts > 0 THEN EnterPosts
                       ELSE <<"state.idle">>) \o Tail(todo[t])
    BY <1>2, DoIs DEF LastRule, Branch
  <2>2. Matching /\ Tail(todo[t]) = r
    BY <2>1 DEF WithinCall, Opens
  <2>3. CASE currentRuleIndex_ < size.rules
    <3>1. todo'[t] = r
      BY <2>1, <2>2, <2>3, List0
    <3> QED
      BY <2>1, <2>2, <2>3, <3>1 DEF WithinCall, Sound, Matching, Sending, respVars, setting
  <2>4. CASE ~(currentRuleIndex_ < size.rules) /\ size.posts > 0
    <3>1. todo'[t] = EnterPosts \o r
      BY <2>1, <2>2, <2>4
    <3> QED  BY <3>1, BlocksOpen DEF WithinCall, EnterOpens
  <2>5. CASE ~(currentRuleIndex_ < size.rules) /\ ~(size.posts > 0)
    <3>1. todo'[t] = Cons("state.idle", r)
      BY <2>1, <2>2, <2>5, List1
    <3> QED  BY <3>1, AreStmts, ConsOpens DEF WithinCall
  <2> QED  BY <2>3, <2>4, <2>5
<1>3. CASE UseRule(t)
  <2>1. /\ Head(todo[t]) = "rule.use" /\ UNCHANGED <<respVars, setting>>
        /\ \/ todo'[t] = AdvanceRule \o Tail(todo[t])
           \/ todo'[t] = <<>> \o Tail(todo[t])
    BY <1>3, DoIs DEF UseRule, Branch
  <2>2. Sound /\ Matching /\ Tail(todo[t]) = r
    BY <2>1 DEF WithinCall, Opens
  <2>3. Sound' /\ Matching'
    BY <2>1, <2>2 DEF Sound, Matching, Sending, respVars, setting
  <2>4. CASE todo'[t] = AdvanceRule \o Tail(todo[t])
    <3>1. todo'[t] = Cons("rule.next", Cons("rule.last", r))
      BY <2>2, <2>4, BlocksAre
    <3>2. Cons("rule.last", r) \in Seq(Stmt)
      BY AreStmts, ConsOpens
    <3>3. Opens(todo'[t], "rule.next", Cons("rule.last", r))
      BY <3>1, <3>2, AreStmts, ConsOpens
    <3> QED  BY <2>3, <3>3 DEF WithinCall
  <2>5. CASE todo'[t] = <<>> \o Tail(todo[t])
    <3>1. todo'[t] = r
      BY <2>2, <2>5, List0
    <3> QED  BY <2>3, <3>1 DEF WithinCall
  <2> QED  BY <2>1, <2>4, <2>5
<1>4. CASE IncrementPost(t)
  <2> DEFINE v == Cons("waiting.false", Cons("post.last", r))
  <2>1. /\ Head(todo[t]) = "post.next" /\ todo'[t] = <<>> \o Tail(todo[t])
        /\ state_' = state_
    BY <1>4, DoIs DEF IncrementPost, Assign
  <2>2. Sending /\ Tail(todo[t]) = Cons("sent.false", v)
    BY <2>1 DEF WithinCall, Opens
  <2>3. v \in Seq(Stmt)
    BY AreStmts, ConsOpens
  <2> HIDE DEF v
  <2>4. Cons("sent.false", v) \in Seq(Stmt) /\ Opens(Cons("sent.false", v), "sent.false", v)
    BY <2>3, AreStmts, ConsOpens
  <2>5. Opens(todo'[t], "sent.false", v) /\ Sending'
    BY <2>1, <2>2, <2>4, List0 DEF Sending
  <2> QED  BY <2>5 DEF WithinCall, v
<1>5. CASE LastPost(t)
  <2>1. /\ Head(todo[t]) = "post.last" /\ UNCHANGED respVars
        /\ \/ todo'[t] = <<>> \o Tail(todo[t])
           \/ todo'[t] = <<"state.idle">> \o Tail(todo[t])
    BY <1>5, DoIs DEF LastPost, Branch
  <2>2. Sending /\ ~postCmdSent_ /\ Tail(todo[t]) = r
    BY <2>1 DEF WithinCall, Opens
  <2>3. CASE todo'[t] = <<>> \o Tail(todo[t])
    <3>1. todo'[t] = r /\ Sound'
      BY <2>1, <2>2, <2>3, List0 DEF Sound, Matching, Sending, respVars
    <3> QED  BY <3>1 DEF WithinCall
  <2>4. CASE todo'[t] = <<"state.idle">> \o Tail(todo[t])
    <3>1. todo'[t] = Cons("state.idle", r)
      BY <2>2, <2>4, List1
    <3> QED  BY <3>1, AreStmts, ConsOpens DEF WithinCall
  <2> QED  BY <2>1, <2>3, <2>4
<1>6. CASE TakePost(t)
  <2>1. /\ Head(todo[t]) = "post.take" /\ todo'[t] = <<>> \o Tail(todo[t])
        /\ UNCHANGED <<respVars, setting>>
    BY <1>6, DoIs DEF TakePost
  <2>2. /\ (Sound => Sound') /\ (Sending => Sending')
        /\ postCmdSent_' = postCmdSent_
    BY <2>1 DEF Sound, Matching, Sending, respVars, setting
  <2>3. CASE Sound /\ Sending /\ Tail(todo[t]) = Cons("post.timer", r)
    <3>1. Opens(todo'[t], "post.timer", r)
      BY <2>1, <2>3, AreStmts, GoesOn
    <3> QED  BY <2>2, <2>3, <3>1 DEF WithinCall
  <2>4. CASE Sound /\ Sending /\ Tail(todo[t]) = Cons("prompt.match", r)
    <3>1. Opens(todo'[t], "prompt.match", r)
      BY <2>1, <2>4, AreStmts, GoesOn
    <3> QED  BY <2>2, <2>4, <3>1 DEF WithinCall
  <2>5. CASE /\ Sending /\ ~postCmdSent_
             /\ Tail(todo[t]) = Cons("sent.true", Cons("prompt.expected", r))
    <3>1. Cons("prompt.expected", r) \in Seq(Stmt)
      BY AreStmts, ConsOpens
    <3>2. Opens(todo'[t], "sent.true", Cons("prompt.expected", r))
      BY <2>1, <2>5, <3>1, AreStmts, GoesOn
    <3>3. Sending' /\ ~postCmdSent_'
      BY <2>2, <2>5
    <3> QED  BY <3>2, <3>3 DEF WithinCall
  <2> QED
    <3>1. \/ Sound /\ Sending /\ Tail(todo[t]) = Cons("post.timer", r)
          \/ Sound /\ Sending /\ Tail(todo[t]) = Cons("prompt.match", r)
          \/ /\ Sending /\ ~postCmdSent_
             /\ Tail(todo[t]) = Cons("sent.true", Cons("prompt.expected", r))
      BY <2>1 DEF WithinCall, Opens
    <3> QED  BY <2>3, <2>4, <2>5, <3>1
<1>7. CASE SetState(t)
  <2>1. \/ Head(todo[t]) = "state.idle" /\ state_' = "IDLE"
        \/ Head(todo[t]) = "state.sending" /\ state_' = "SENDING_POST_COMMANDS"
        \/ Head(todo[t]) = "state.first"
    BY <1>7, DoIs DEF SetState, Assign
  <2>2. todo'[t] = <<>> \o Tail(todo[t])
    BY <1>7, DoIs DEF SetState, Assign
  <2>3. CASE Head(todo[t]) = "state.idle" /\ state_' = "IDLE"
    <3>1. Tail(todo[t]) = r
      BY <2>3 DEF WithinCall, Opens
    <3>2. todo'[t] = r /\ Sound'
      BY <2>2, <2>3, <3>1, List0 DEF Sound, Matching, Sending
    <3> QED  BY <3>2 DEF WithinCall
  <2>4. CASE Head(todo[t]) = "state.sending" /\ state_' = "SENDING_POST_COMMANDS"
    <3> DEFINE v == Cons("sent.false", Cons("waiting.false", r))
    <3>1. Tail(todo[t]) = Cons("post.zero", v)
      BY <2>4 DEF WithinCall, Opens
    <3>2. v \in Seq(Stmt)
      BY AreStmts, ConsOpens
    <3> HIDE DEF v
    <3>3. Opens(todo'[t], "post.zero", v) /\ Sending'
      BY <2>2, <2>4, <3>1, <3>2, AreStmts, GoesOn DEF Sending
    <3> QED  BY <3>3 DEF WithinCall, v
  <2>5. Head(todo[t]) # "state.first"
    BY DEF WithinCall, Opens
  <2> QED  BY <2>1, <2>3, <2>4, <2>5
<1>8. CASE ZeroIndex(t)
  <2>1. /\ Head(todo[t]) \in {"rule.zero", "post.zero"}
        /\ todo'[t] = <<>> \o Tail(todo[t]) /\ state_' = state_
    BY <1>8, DoIs DEF ZeroIndex, Assign
  <2>2. Sending /\ Tail(todo[t]) = Cons("sent.false", Cons("waiting.false", r))
    BY <2>1 DEF WithinCall, Opens
  <2>3. Cons("waiting.false", r) \in Seq(Stmt)
    BY AreStmts, ConsOpens
  <2>4. Opens(todo'[t], "sent.false", Cons("waiting.false", r)) /\ Sending'
    BY <2>1, <2>2, <2>3, AreStmts, GoesOn DEF Sending
  <2> QED  BY <2>4 DEF WithinCall
<1>9. CASE SetFlag(t)
  <2>1. todo'[t] = <<>> \o Tail(todo[t]) /\ state_' = state_
    BY <1>9, DoIs DEF SetFlag, Assign
  <2>2. \/ Head(todo[t]) = "sent.false" /\ postCmdSent_' = FALSE
        \/ Head(todo[t]) = "waiting.false" /\ postCmdSent_' = postCmdSent_
        \/ Head(todo[t]) = "sent.true"
        \/ Head(todo[t]) = "waiting.true" /\ waitingForPostPrompt_' = TRUE
    BY <1>9, DoIs DEF SetFlag, Assign
  <2>3. Sending => Sending' /\ ~Matching'
    BY <2>1 DEF Sending, Matching
  <2>4. CASE Head(todo[t]) = "sent.false" /\ postCmdSent_' = FALSE
    <3>1. /\ Sending
          /\ \/ Tail(todo[t]) = Cons("waiting.false", r)
             \/ Tail(todo[t]) = Cons("waiting.false", Cons("post.last", r))
      BY <2>4 DEF WithinCall, Opens
    <3>2. Cons("post.last", r) \in Seq(Stmt)
      BY AreStmts, ConsOpens
    <3>3. \/ Opens(todo'[t], "waiting.false", r)
          \/ Opens(todo'[t], "waiting.false", Cons("post.last", r))
      BY <2>1, <3>1, <3>2, AreStmts, GoesOn
    <3> QED  BY <2>3, <2>4, <3>1, <3>3 DEF WithinCall
  <2>5. CASE Head(todo[t]) = "waiting.false" /\ postCmdSent_' = postCmdSent_
    <3>1. /\ Sending /\ ~postCmdSent_
          /\ Tail(todo[t]) = r \/ Tail(todo[t]) = Cons("post.last", r)
      BY <2>5 DEF WithinCall, Opens
    <3>2. todo'[t] = r \/ Opens(todo'[t], "post.last", r)
      BY <2>1, <3>1, List0, AreStmts, GoesOn
    <3> QED  BY <2>3, <2>5, <3>1, <3>2 DEF WithinCall, Sound
  <2>6. CASE Head(todo[t]) = "sent.true"
    <3>1. Sending /\ Tail(todo[t]) = Cons("prompt.expected", r)
      BY <2>6 DEF WithinCall, Opens
    <3>2. Opens(todo'[t], "prompt.expected", r)
      BY <2>1, <3>1, AreStmts, GoesOn
    <3> QED  BY <2>3, <3>1, <3>2 DEF WithinCall
  <2>7. CASE Head(todo[t]) = "waiting.true" /\ waitingForPostPrompt_' = TRUE
    <3>1. Sending /\ Tail(todo[t]) = r
      BY <2>7 DEF WithinCall, Opens
    <3>2. todo'[t] = r
      BY <2>1, <3>1, List0
    <3> QED  BY <2>3, <2>7, <3>1, <3>2 DEF WithinCall, Sound
  <2> QED  BY <2>2, <2>4, <2>5, <2>6, <2>7
<1> QED
  BY <1>1, <1>2, <1>3, <1>4, <1>5, <1>6, <1>7, <1>8, <1>9 DEF Statement


LEMMA CallKeeps ==
    ASSUME NEW t \in Thread, NEW r \in Seq(Stmt), Types,
           WithinCall(todo[t], r), todo[t] # r,
           \/ t = "uart" /\ MatchPrompt
           \/ t = "main" /\ (PostTimer \/ SendCurrentPostCommand \/ ExpectsPrompt)
    PROVE  WithinCall(todo[t], r)'
<1>1. ASSUME Sending', todo'[t] = AdvancePost \o r PROVE WithinCall(todo[t], r)'
  <2>1. AdvanceOpens(todo'[t], r)
    BY <1>1, BlocksOpen
  <2> QED  BY <1>1, <2>1 DEF WithinCall, AdvanceOpens
<1>2. ASSUME Sound', todo'[t] = <<>> \o r PROVE WithinCall(todo[t], r)'
  <2>1. todo'[t] = r
    BY <1>2, List0
  <2> QED  BY <1>2, <2>1 DEF WithinCall
<1>3. ASSUME UNCHANGED <<respVars, setting>>
      PROVE  /\ (Sound => Sound') /\ (Sending => Sending')
             /\ postCmdSent_' = postCmdSent_
  BY <1>3 DEF Sound, Matching, Sending, respVars, setting
<1>4. CASE t = "uart" /\ MatchPrompt
  <2>1. /\ Head(todo[t]) = "prompt.match" /\ UNCHANGED <<respVars, setting>>
        /\ \/ todo'[t] = AdvancePost \o Tail(todo[t])
           \/ todo'[t] = <<>> \o Tail(todo[t])
    BY <1>4, DoIs DEF MatchPrompt, Branch
  <2>2. Sound /\ Sending /\ Tail(todo[t]) = r
    BY <2>1 DEF WithinCall, Opens
  <2> QED  BY <1>1, <1>2, <1>3, <2>1, <2>2
<1>5. CASE t = "main" /\ PostTimer
  <2>1. /\ Head(todo[t]) = "post.timer" /\ UNCHANGED <<respVars, setting>>
        /\ \/ ~postCmdSent_ /\ todo'[t] = <<"post.send">> \o Tail(todo[t])
           \/ todo'[t] = AdvancePost \o Tail(todo[t])
           \/ todo'[t] = <<>> \o Tail(todo[t])
    BY <1>5, DoIs DEF PostTimer, Branch
  <2>2. Sound /\ Sending /\ Tail(todo[t]) = r
    BY <2>1 DEF WithinCall, Opens
  <2>3. ASSUME ~postCmdSent_, todo'[t] = <<"post.send">> \o r
        PROVE  WithinCall(todo[t], r)'
    <3>1. Opens(todo'[t], "post.send", r)
      BY <2>3, List1, AreStmts, ConsOpens
    <3> QED  BY <1>3, <2>1, <2>2, <2>3, <3>1 DEF WithinCall
  <2> QED  BY <1>1, <1>2, <1>3, <2>1, <2>2, <2>3
<1>6. CASE t = "main" /\ SendCurrentPostCommand
  <2>1. /\ Head(todo[t]) = "post.send" /\ UNCHANGED <<respVars, setting>>
        /\ \/ todo'[t] = <<"post.take", "sent.true", "prompt.expected">> \o Tail(todo[t])
           \/ todo'[t] = <<>> \o Tail(todo[t])
    BY <1>6, DoIs DEF SendCurrentPostCommand, Branch
  <2>2. Sending /\ ~postCmdSent_ /\ Tail(todo[t]) = r
    BY <2>1 DEF WithinCall, Opens
  <2>3. Sound /\ Sending' /\ ~postCmdSent_'
    BY <1>3, <2>1, <2>2 DEF Sound, Sending, Matching
  <2>4. CASE todo'[t] = <<"post.take", "sent.true", "prompt.expected">> \o r
    <3> DEFINE v == Cons("sent.true", Cons("prompt.expected", r))
    <3>1. todo'[t] = Cons("post.take", v)
      BY <2>4, List3, AreStmts
    <3>2. v \in Seq(Stmt)
      BY AreStmts, ConsOpens
    <3> HIDE DEF v
    <3>3. Opens(todo'[t], "post.take", v)
      BY <3>1, <3>2, AreStmts, ConsOpens
    <3> QED  BY <2>3, <3>3 DEF WithinCall, v
  <2> QED  BY <1>2, <1>3, <2>1, <2>2, <2>3, <2>4
<1>7. CASE t = "main" /\ ExpectsPrompt
  <2>1. /\ Head(todo[t]) = "prompt.expected" /\ UNCHANGED <<respVars, setting>>
        /\ \/ todo'[t] = <<"waiting.true">> \o Tail(todo[t])
           \/ todo'[t] = AdvancePost \o Tail(todo[t])
    BY <1>7, DoIs DEF ExpectsPrompt, Branch
  <2>2. Sending /\ Tail(todo[t]) = r
    BY <2>1 DEF WithinCall, Opens
  <2>3. Sending'
    BY <2>1, <2>2 DEF Sending, respVars
  <2>4. ASSUME todo'[t] = <<"waiting.true">> \o r
        PROVE  WithinCall(todo[t], r)'
    <3>1. Opens(todo'[t], "waiting.true", r)
      BY <2>4, List1, AreStmts, ConsOpens
    <3> QED  BY <2>3, <3>1 DEF WithinCall
  <2> QED  BY <1>1, <2>1, <2>2, <2>3, <2>4
<1> QED  BY <1>4, <1>5, <1>6, <1>7


LEMMA SetConfigKeeps ==
    ASSUME Types, NEW r \in Seq(Stmt), WithinSetConfig(todo["main"], r), Statement("main")
    PROVE  \/ WithinSetConfig(todo["main"], r)'
           \/ todo'["main"] = r /\ Sound'
<1> DEFINE t == "main"
<1>0. t \in Thread
  BY DEF Thread
<1> HIDE DEF t
<1>1. WithinSetConfig(todo[t], r) /\ Statement(t)
  BY DEF t
<1>2. \/ WithinSetConfig(todo[t], r)'
      \/ todo'[t] = r /\ Sound'
  <2>1. CASE ZeroIndex(t)
    <3>1. todo'[t] = <<>> \o Tail(todo[t])
      BY <1>0, <2>1, DoIs DEF ZeroIndex, Assign
    <3>2. \/ Head(todo[t]) = "rule.zero" /\ currentRuleIndex_' = 0
          \/ Head(todo[t]) = "post.zero" /\ UNCHANGED currentRuleIndex_
      BY <1>0, <2>1, DoIs DEF ZeroIndex, Assign
    <3>3. CASE Head(todo[t]) = "rule.zero" /\ currentRuleIndex_' = 0
      <4> DEFINE v == Cons("sent.false", Cons("waiting.false", Cons("state.first", r)))
      <4>1. Tail(todo[t]) = Cons("post.zero", v)
        BY <1>1, <3>3 DEF WithinSetConfig, Opens
      <4>2. v \in Seq(Stmt)
        BY AreStmts, ConsOpens
      <4> HIDE DEF v
      <4>3. Opens(todo'[t], "post.zero", v)
        BY <3>1, <4>1, <4>2, AreStmts, GoesOn
      <4> QED  BY <3>3, <4>3 DEF WithinSetConfig, v
    <3>4. CASE Head(todo[t]) = "post.zero" /\ UNCHANGED currentRuleIndex_
      <4> DEFINE v == Cons("waiting.false", Cons("state.first", r))
      <4>1. Tail(todo[t]) = Cons("sent.false", v) /\ currentRuleIndex_ = 0
        BY <1>1, <3>4 DEF WithinSetConfig, Opens
      <4>2. v \in Seq(Stmt)
        BY AreStmts, ConsOpens
      <4> HIDE DEF v
      <4>3. Opens(todo'[t], "sent.false", v)
        BY <3>1, <4>1, <4>2, AreStmts, GoesOn
      <4> QED  BY <3>4, <4>1, <4>3 DEF WithinSetConfig, v
    <3> QED  BY <3>2, <3>3, <3>4
  <2>2. CASE SetFlag(t)
    <3>1. todo'[t] = <<>> \o Tail(todo[t]) /\ UNCHANGED currentRuleIndex_
      BY <1>0, <2>2, DoIs DEF SetFlag, Assign
    <3>2. \/ Head(todo[t]) = "sent.false" /\ postCmdSent_' = FALSE
          \/ Head(todo[t]) = "waiting.false" /\ postCmdSent_' = postCmdSent_
          \/ Head(todo[t]) \in {"sent.true", "waiting.true"}
      BY <1>0, <2>2, DoIs DEF SetFlag, Assign
    <3>3. CASE Head(todo[t]) = "sent.false" /\ postCmdSent_' = FALSE
      <4>1. Tail(todo[t]) = Cons("waiting.false", Cons("state.first", r))
            /\ currentRuleIndex_ = 0
        BY <1>1, <3>3 DEF WithinSetConfig, Opens
      <4>2. Cons("state.first", r) \in Seq(Stmt)
        BY AreStmts, ConsOpens
      <4>3. Opens(todo'[t], "waiting.false", Cons("state.first", r))
        BY <3>1, <4>1, <4>2, AreStmts, GoesOn
      <4> QED  BY <3>1, <3>3, <4>1, <4>3 DEF WithinSetConfig
    <3>4. CASE Head(todo[t]) = "waiting.false" /\ postCmdSent_' = postCmdSent_
      <4>1. /\ Tail(todo[t]) = Cons("state.first", r)
            /\ currentRuleIndex_ = 0 /\ ~postCmdSent_
        BY <1>1, <3>4 DEF WithinSetConfig, Opens
      <4>2. Opens(todo'[t], "state.first", r)
        BY <3>1, <4>1, AreStmts, GoesOn
      <4> QED  BY <3>1, <3>4, <4>1, <4>2 DEF WithinSetConfig
    <3>5. ~(Head(todo[t]) \in {"sent.true", "waiting.true"})
      BY <1>1 DEF WithinSetConfig, Opens
    <3> QED  BY <3>2, <3>3, <3>4, <3>5
  <2>3. CASE SetState(t)
    <3>1. /\ todo'[t] = <<>> \o Tail(todo[t]) /\ UNCHANGED <<postCmdSent_, setting>>
          /\ UNCHANGED currentRuleIndex_
      BY <1>0, <2>3, DoIs DEF SetState, Assign
    <3>2. \/ Head(todo[t]) \in {"state.idle", "state.sending"}
          \/ /\ Head(todo[t]) = "state.first"
             /\ state_' = IF size.rules > 0 THEN "MATCHING_RULES"
                          ELSE "SENDING_POST_COMMANDS"
      BY <1>0, <2>3, DoIs DEF SetState, Assign
    <3>3. ~(Head(todo[t]) \in {"state.idle", "state.sending"})
      BY <1>1 DEF WithinSetConfig, Opens
    <3>4. Tail(todo[t]) = r /\ currentRuleIndex_ = 0 /\ ~postCmdSent_
      BY <1>1, <3>2, <3>3 DEF WithinSetConfig, Opens
    <3>5. todo'[t] = r
      BY <3>1, <3>4, List0
    <3>6. size.rules \in Nat
      BY ThreadsAssumption DEF Types
    <3>7. Sound'
      BY <3>1, <3>2, <3>3, <3>4, <3>6 DEF Sound, Matching, Sending, setting
    <3> QED  BY <3>5, <3>7
  <2>4. ~(IncrementRule(t) \/ LastRule(t) \/ UseRule(t) \/ IncrementPost(t)
            \/ LastPost(t) \/ TakePost(t))
    <3>1. Head(todo[t]) \notin {"rule.next", "rule.last", "rule.use", "post.next",
                                "post.last", "post.take"}
      BY <1>1 DEF WithinSetConfig, Opens
    <3> QED
      BY <3>1 DEF IncrementRule, LastRule, UseRule, IncrementPost, LastPost, TakePost,
         Assign, Branch, Do
  <2> QED  BY <1>1, <2>1, <2>2, <2>3, <2>4 DEF Statement
<1> QED  BY <1>2 DEF t

-----------------------------------------------------------------------------
(* Types.                                                                  *)

LEMMA MoreAre ==
    /\ <<>> \in Seq(Stmt) /\ Callback \in Seq(Stmt) /\ BridgeTick \in Seq(Stmt)
    /\ AdvanceRule \in Seq(Stmt) /\ EnterPosts \in Seq(Stmt)
    /\ AdvancePost \in Seq(Stmt) /\ SetConfig \in Seq(Stmt)
    /\ <<"state.idle">> \in Seq(Stmt) /\ <<"rule.use">> \in Seq(Stmt)
    /\ <<"post.take", "prompt.match">> \in Seq(Stmt)
    /\ <<"post.take", "post.timer">> \in Seq(Stmt)
    /\ <<"post.send">> \in Seq(Stmt) /\ <<"waiting.true">> \in Seq(Stmt)
    /\ <<"post.take", "sent.true", "prompt.expected">> \in Seq(Stmt)
<1>1. <<>> \in Seq(Stmt)
  BY EmptySeq
<1>2. SetConfig \in Seq(Stmt)
  <2>1. ResetState \in Seq(Stmt) /\ "state.first" \in Stmt
    BY AreStmts DEF ResetState
  <2> QED  BY <2>1, AppendProperties DEF SetConfig
<1>3. Callback \in Seq(Stmt) /\ BridgeTick \in Seq(Stmt)
  BY AreStmts DEF Callback, BridgeTick
<1>4. /\ AdvanceRule \in Seq(Stmt) /\ EnterPosts \in Seq(Stmt)
      /\ AdvancePost \in Seq(Stmt)
  BY AreStmts DEF AdvanceRule, EnterPosts, AdvancePost
<1>5. /\ <<"state.idle">> \in Seq(Stmt) /\ <<"rule.use">> \in Seq(Stmt)
      /\ <<"post.take", "prompt.match">> \in Seq(Stmt)
      /\ <<"post.take", "post.timer">> \in Seq(Stmt)
      /\ <<"post.send">> \in Seq(Stmt) /\ <<"waiting.true">> \in Seq(Stmt)
      /\ <<"post.take", "sent.true", "prompt.expected">> \in Seq(Stmt)
  BY AreStmts
<1> QED  BY <1>1, <1>2, <1>3, <1>4, <1>5

\* t executes a statement, which is replaced by others, or leaves the tick.
Executes(t) ==
    \/ \E s : \E more \in Seq(Stmt) : Do(t, s, more)
    \/ ~AtRest(t) /\ todo' = [todo EXCEPT ![t] = <<>>] /\ UNCHANGED setting

LEMMA StatementsExecute ==
    ASSUME NEW t \in Thread, Statement(t)
    PROVE  Executes(t) /\ UNCHANGED countVars
<1>1. CASE LastRule(t)
  <2>1. (IF currentRuleIndex_ < size.rules THEN <<>>
         ELSE IF size.posts > 0 THEN EnterPosts ELSE <<"state.idle">>) \in Seq(Stmt)
    BY MoreAre
  <2> QED  BY <1>1, <2>1 DEF LastRule, Branch, Executes
<1>2. CASE LastPost(t)
  <2>1. (IF currentPostCmdIndex_ < size.posts THEN <<>> ELSE <<"state.idle">>)
          \in Seq(Stmt)
    BY MoreAre
  <2> QED  BY <1>2, <2>1 DEF LastPost, Branch, Executes
<1>3. CASE UseRule(t)
  BY <1>3, MoreAre DEF UseRule, Branch, Executes
<1>4. CASE IncrementRule(t) \/ IncrementPost(t) \/ SetState(t) \/ ZeroIndex(t) \/ SetFlag(t)
  <2>1. (\E s : Do(t, s, <<>>)) /\ UNCHANGED countVars
    BY <1>4 DEF IncrementRule, IncrementPost, SetState, ZeroIndex, SetFlag, Assign
  <2> QED  BY <2>1, MoreAre DEF Executes
<1>5. CASE TakePost(t)
  BY <1>5, MoreAre DEF TakePost, Executes
<1> QED  BY <1>1, <1>2, <1>3, <1>4, <1>5 DEF Statement

LEMMA UartExecutes ==
    ASSUME UartThread
    PROVE  Executes("uart")
<1>1. CASE LoadRx \/ StoreRx
  BY <1>1, MoreAre DEF LoadRx, StoreRx, Executes
<1>2. CASE Process
  <2>1. (IF state_ = "MATCHING_RULES" /\ currentRuleIndex_ < size.rules
         THEN <<"rule.use">>
         ELSE IF /\ state_ = "SENDING_POST_COMMANDS"
                 /\ waitingForPostPrompt_ /\ currentPostCmdIndex_ < size.posts
         THEN <<"post.take", "prompt.match">>
         ELSE <<>>) \in Seq(Stmt)
    BY MoreAre
  <2> QED  BY <1>2, <2>1 DEF Process, Branch, Executes
<1>3. CASE MatchPrompt
  BY <1>3, MoreAre DEF MatchPrompt, Branch, Executes
<1> QED  BY <1>1, <1>2, <1>3 DEF UartThread

LEMMA MainExecutes ==
    ASSUME MainThread
    PROVE  Executes("main")
<1>1. CASE Tick
  BY <1>1, MoreAre DEF Tick, Branch, Executes
<1>2. CASE PostTimer
  BY <1>2, MoreAre DEF PostTimer, Branch, Executes
<1>3. CASE SendCurrentPostCommand
  <2>1. (IF currentPostCmdIndex_ < size.posts
         THEN <<"post.take", "sent.true", "prompt.expected">> ELSE <<>>) \in Seq(Stmt)
    BY MoreAre
  <2> QED  BY <1>3, <2>1 DEF SendCurrentPostCommand, Branch, Executes
<1>4. CASE ExpectsPrompt
  <2>1. (IF cmd["main"] \in Awaits THEN <<"waiting.true">> ELSE AdvancePost) \in Seq(Stmt)
    BY MoreAre
  <2> QED  BY <1>4, <2>1 DEF ExpectsPrompt, Branch, Executes
<1>5. CASE Rearm
  <2>1. (IF state_ = "IDLE" THEN SetConfig ELSE <<>>) \in Seq(Stmt)
    BY MoreAre
  <2> QED  BY <1>5, <2>1 DEF Rearm, Branch, Executes
<1>6. CASE ZeroRx
  BY <1>6, MoreAre DEF ZeroRx, Executes
<1>7. CASE Report
  BY <1>7, MoreAre DEF Report, Executes
<1> QED  BY <1>1, <1>2, <1>3, <1>4, <1>5, <1>6, <1>7 DEF MainThread

LEMMA ExecutedTypes ==
    ASSUME Types, NEW t \in Thread, Executes(t)
    PROVE  /\ todo' \in [Thread -> Seq(Stmt)] /\ size' \in Sizes
           /\ threaded' = threaded /\ ~AtRest(t)
           /\ \A o \in Thread : o # t => todo'[o] = todo[o]
<1>1. CASE \E s : \E more \in Seq(Stmt) : Do(t, s, more)
  <2>1. PICK s : \E more \in Seq(Stmt) : Do(t, s, more)
    BY <1>1
  <2>2. PICK more \in Seq(Stmt) : Do(t, s, more)
    BY <2>1
  <2>3. /\ todo[t] \in Seq(Stmt) /\ todo[t] # <<>>
        /\ todo' = [todo EXCEPT ![t] = more \o Tail(todo[t])]
        /\ \A o \in Thread : o # t => todo'[o] = todo[o]
        /\ UNCHANGED setting
    BY <2>2, DoIs
  <2>4. Tail(todo[t]) \in Seq(Stmt)
    BY <2>3, HeadTailProperties
  <2>5. more \o Tail(todo[t]) \in Seq(Stmt)
    BY <2>4, ConcatProperties
  <2> QED  BY <2>3, <2>5 DEF Types, setting, AtRest
<1>2. CASE ~AtRest(t) /\ todo' = [todo EXCEPT ![t] = <<>>] /\ UNCHANGED setting
  BY <1>2, MoreAre DEF Types, setting
<1> QED  BY <1>1, <1>2 DEF Executes

-----------------------------------------------------------------------------
(* The threads.                                                            *)

\* Which statements belong to a call of the responder.
LEMMA CallHeads ==
    \A u, r : WithinCall(u, r) /\ u # r =>
        /\ u # <<>>
        /\ Head(u) \notin {"tick", "rearm", "report", "rx.zero", "rx.load", "rx.store",
                           "process"}
<1> SUFFICES ASSUME NEW u, NEW r, WithinCall(u, r), u # r
             PROVE  /\ u # <<>>
                    /\ Head(u) \notin {"tick", "rearm", "report", "rx.zero", "rx.load",
                                       "rx.store", "process"}
  OBVIOUS
<1> QED  BY DEF WithinCall, Opens

LEMMA SetConfigHeads ==
    \A u, r : WithinSetConfig(u, r) =>
        /\ u # <<>>
        /\ Head(u) \in {"rule.zero", "post.zero", "sent.false", "waiting.false",
                        "state.first"}
<1> SUFFICES ASSUME NEW u, NEW r, WithinSetConfig(u, r)
             PROVE  /\ u # <<>>
                    /\ Head(u) \in {"rule.zero", "post.zero", "sent.false",
                                    "waiting.false", "state.first"}
  OBVIOUS
<1> QED  BY DEF WithinSetConfig, Opens

LEMMA ListsOpen ==
    /\ Opens(Zeroing, "rx.zero", <<>>) /\ Opens(Reporting, "report", Zeroing)
    /\ Opens(Rearming, "rearm", Reporting) /\ Opens(Ticking, "tick", Rearming)
    /\ Opens(Processing, "process", <<>>) /\ Opens(Storing, "rx.store", Processing)
    /\ Opens(Loading, "rx.load", Storing)
BY AreStmts, ListsAre, ConsOpens
   DEF Zeroing, Reporting, Rearming, Ticking, Processing, Storing, Loading

\* The thread at rest is sound, and all bytes are accounted for.
LEMMA RestIsSound ==
    ASSUME Types, OneAtATime, todo["uart"] = <<>>, todo["main"] = <<>>
    PROVE  Sound /\ Exact
<1>1. /\ <<>> # Zeroing /\ <<>> # Rearming /\ <<>> # Reporting
      /\ <<>> # Loading /\ <<>> # Storing /\ <<>> # Processing
  BY ListsOpen DEF Opens
<1>2. ASSUME MainAt(<<>>) PROVE Sound /\ Exact
  <2>1. ~WithinCall(<<>>, Rearming) /\ ~WithinSetConfig(<<>>, Reporting)
    BY <1>1, CallHeads, SetConfigHeads
  <2> QED  BY <1>1, <1>2, <2>1 DEF MainAt
<1>3. ASSUME UartAt(<<>>) PROVE Sound /\ Exact
  <2>1. WithinCall(<<>>, <<>>) => Sound
    BY DEF WithinCall, Opens
  <2> QED  BY <1>1, <1>3, <2>1 DEF UartAt
<1> QED  BY <1>2, <1>3 DEF OneAtATime

\* What each action executes.
LEMMA MainHeads ==
    /\ Tick => Head(todo["main"]) = "tick"
    /\ PostTimer => Head(todo["main"]) = "post.timer"
    /\ SendCurrentPostCommand => Head(todo["main"]) = "post.send"
    /\ ExpectsPrompt => Head(todo["main"]) = "prompt.expected"
    /\ Rearm => Head(todo["main"]) = "rearm"
    /\ Report => Head(todo["main"]) = "report"
    /\ ZeroRx => Head(todo["main"]) = "rx.zero"
BY DEF Tick, PostTimer, SendCurrentPostCommand, ExpectsPrompt, Rearm, Report, ZeroRx,
   Branch, Do

LEMMA UartHeads ==
    /\ LoadRx => Head(todo["uart"]) = "rx.load"
    /\ StoreRx => Head(todo["uart"]) = "rx.store"
    /\ Process => Head(todo["uart"]) = "process"
    /\ MatchPrompt => Head(todo["uart"]) = "prompt.match"
BY DEF LoadRx, StoreRx, Process, MatchPrompt, Branch, Do

LEMMA StatementHeads ==
    ASSUME NEW t \in Thread, Statement(t)
    PROVE  Head(todo[t]) \in
             {"rule.next", "rule.last", "rule.use", "post.next", "post.last", "post.take",
              "state.idle", "state.sending", "state.first", "rule.zero", "post.zero",
              "sent.false", "waiting.false", "sent.true", "waiting.true"}
BY DEF Statement, IncrementRule, LastRule, UseRule, IncrementPost, LastPost, TakePost,
   SetState, ZeroIndex, SetFlag, Assign, Branch, Do

\* Counts are kept by what does not count.
LEMMA CountKept ==
    ASSUME Types, UNCHANGED countVars
    PROVE  /\ Exact => Exact'
           /\ {rxByteCount_, loaded, received, reported}' \subseteq Nat
BY DEF Types, countVars, Exact

LEMMA SoundKept ==
    ASSUME Sound, UNCHANGED <<respVars, setting>>
    PROVE  Sound' /\ (Matching <=> Matching') /\ (Sending <=> Sending')
BY DEF Sound, Matching, Sending, respVars, setting

\* The main thread goes on.
LEMMA MainKeeps ==
    ASSUME Types, MainAt(todo["main"]), MainThread \/ Statement("main")
    PROVE  MainAt(todo["main"])' /\ {rxByteCount_, loaded, received, reported}' \subseteq Nat
<1> DEFINE t == "main"
           Counts == {rxByteCount_, loaded, received, reported}
<1>0. t \in Thread /\ todo[t] # <<>>
  BY StatementsExecute, MainExecutes, ExecutedTypes DEF Thread, AtRest
<1> USE DEF Thread
<1>1. ASSUME Exact, Sound, todo[t] = Ticking PROVE MainAt(todo[t])' /\ Counts' \subseteq Nat
  <2>1. Head(todo[t]) = "tick" /\ Tail(todo[t]) = Rearming
    BY <1>1, ListsOpen DEF Opens
  <2>2. Tick
    BY <2>1, <1>0, MainHeads, StatementHeads DEF MainThread
  <2>3. /\ UNCHANGED <<respVars, setting, countVars>>
        /\ \/ Matching /\ todo'[t] = <<"rule.use">> \o Rearming
           \/ Sending /\ todo'[t] = <<"post.take", "post.timer">> \o Rearming
           \/ todo'[t] = <<"state.idle">> \o Rearming
           \/ todo'[t] = <<>> \o Rearming
    BY <1>0, <2>1, <2>2, DoIs DEF Tick, Branch, Matching, Sending
  <2>4. Sound' /\ Exact' /\ Counts' \subseteq Nat
    BY <1>1, <2>3, SoundKept, CountKept
  <2>5. (Matching => Matching') /\ (Sending => Sending')
    BY <1>1, <2>3, SoundKept
  <2>6. CASE Matching /\ todo'[t] = <<"rule.use">> \o Rearming
    <3>0. todo'[t] = Cons("rule.use", Rearming)
      BY <2>6, List1, ListsAre
    <3>1. Opens(todo'[t], "rule.use", Rearming)
      BY <3>0, ListsAre, AreStmts, ConsOpens
    <3> QED  BY <2>4, <2>5, <2>6, <3>1 DEF MainAt, WithinCall
  <2>7. CASE Sending /\ todo'[t] = <<"post.take", "post.timer">> \o Rearming
    <3>0. "post.take" \in Stmt /\ "post.timer" \in Stmt
      BY AreStmts
    <3>1. todo'[t] = Cons("post.take", Cons("post.timer", Rearming))
      BY <2>7, <3>0, List2, ListsAre
    <3>2. Cons("post.timer", Rearming) \in Seq(Stmt)
      BY ListsAre, AreStmts, ConsOpens
    <3>3. Opens(todo'[t], "post.take", Cons("post.timer", Rearming))
      BY <3>1, <3>2, AreStmts, ConsOpens
    <3> QED  BY <2>4, <2>5, <2>7, <3>3 DEF MainAt, WithinCall
  <2>8. CASE todo'[t] = <<"state.idle">> \o Rearming
    <3>1. Opens(todo'[t], "state.idle", Rearming)
      BY <2>8, List1, ListsAre, AreStmts, ConsOpens
    <3> QED  BY <2>4, <3>1 DEF MainAt, WithinCall
  <2>9. CASE todo'[t] = <<>> \o Rearming
    <3>1. todo'[t] = Rearming
      BY <2>9, List0, ListsAre
    <3> QED  BY <2>4, <3>1 DEF MainAt, WithinCall
  <2> QED  BY <2>3, <2>6, <2>7, <2>8, <2>9
<1>2. ASSUME Exact, Sound, todo[t] = Rearming PROVE MainAt(todo[t])' /\ Counts' \subseteq Nat
  <2>1. Head(todo[t]) = "rearm" /\ Tail(todo[t]) = Reporting
    BY <1>2, ListsOpen DEF Opens
  <2>2. Rearm
    BY <2>1, <1>0, MainHeads, StatementHeads DEF MainThread
  <2>3. /\ UNCHANGED <<respVars, setting, countVars>>
        /\ \/ todo'[t] = SetConfig \o Reporting
           \/ todo'[t] = <<>> \o Reporting
    BY <1>0, <2>1, <2>2, DoIs DEF Rearm, Branch
  <2>4. Sound' /\ Exact' /\ Counts' \subseteq Nat
    BY <1>2, <2>3, SoundKept, CountKept
  <2>5. CASE todo'[t] = SetConfig \o Reporting
    <3> DEFINE v == Cons("post.zero", Cons("sent.false",
                         Cons("waiting.false", Cons("state.first", Reporting))))
    <3>1. todo'[t] = Cons("rule.zero", v)
      BY <2>5, BlocksAre, ListsAre
    <3>2. v \in Seq(Stmt)
      BY ListsAre, AreStmts, ConsOpens
    <3> HIDE DEF v
    <3>3. Opens(todo'[t], "rule.zero", v)
      BY <3>1, <3>2, AreStmts, ConsOpens
    <3> QED  BY <2>4, <3>3 DEF MainAt, WithinSetConfig, v
  <2>6. CASE todo'[t] = <<>> \o Reporting
    <3>1. todo'[t] = Reporting
      BY <2>6, List0, ListsAre
    <3> QED  BY <2>4, <3>1 DEF MainAt
  <2> QED  BY <2>3, <2>5, <2>6
<1>3. ASSUME Exact, Sound, todo[t] = Reporting PROVE MainAt(todo[t])' /\ Counts' \subseteq Nat
  <2>1. Head(todo[t]) = "report" /\ Tail(todo[t]) = Zeroing
    BY <1>3, ListsOpen DEF Opens
  <2>2. Report
    BY <2>1, <1>0, MainHeads, StatementHeads DEF MainThread
  <2>3. UNCHANGED <<respVars, setting>>
    BY <1>0, <2>2, DoIs DEF Report
  <2>4. Sound'
    BY <1>3, <2>3, SoundKept
  <2>5. \/ /\ todo'[t] = <<>> \o Zeroing /\ reported' = reported + rxByteCount_
           /\ UNCHANGED <<rxByteCount_, loaded, received>>
        \/ todo'[t] = <<>> /\ UNCHANGED countVars
    <3>1. CASE Do("main", "report", <<>>) /\ reported' = reported + rxByteCount_
               /\ UNCHANGED <<rxByteCount_, loaded, received>>
      BY <1>0, <2>1, <3>1, DoIs
    <3>2. CASE todo' = [todo EXCEPT !["main"] = <<>>] /\ UNCHANGED countVars
      BY <1>0, <3>2 DEF Types
    <3> QED  BY <2>2, <3>1, <3>2 DEF Report
  <2>6. CASE /\ todo'[t] = <<>> \o Zeroing /\ reported' = reported + rxByteCount_
             /\ UNCHANGED <<rxByteCount_, loaded, received>>
    <3>1. todo'[t] = Zeroing
      BY <2>6, List0, ListsAre
    <3>2. reported' = received' /\ Counts' \subseteq Nat
      BY <1>3, <2>6 DEF Exact, Types
    <3> QED  BY <2>4, <3>1, <3>2 DEF MainAt
  <2>7. CASE todo'[t] = <<>> /\ UNCHANGED countVars
    BY <1>3, <2>4, <2>7, CountKept DEF MainAt
  <2> QED  BY <2>5, <2>6, <2>7
<1>4. ASSUME reported = received, Sound, todo[t] = Zeroing
      PROVE  MainAt(todo[t])' /\ Counts' \subseteq Nat
  <2>1. Head(todo[t]) = "rx.zero" /\ Tail(todo[t]) = <<>>
    BY <1>4, ListsOpen DEF Opens
  <2>2. ZeroRx
    BY <2>1, <1>0, MainHeads, StatementHeads DEF MainThread
  <2>3. /\ todo'[t] = <<>> \o <<>> /\ UNCHANGED <<respVars, setting>>
        /\ rxByteCount_' = 0 /\ UNCHANGED <<loaded, received, reported>>
    BY <1>0, <2>1, <2>2, DoIs DEF ZeroRx
  <2>4. todo'[t] = <<>> /\ Sound'
    BY <1>4, <2>3, List0, ListsAre, SoundKept
  <2>5. Exact' /\ Counts' \subseteq Nat
    BY <1>4, <2>3 DEF Exact, Types
  <2> QED  BY <2>4, <2>5 DEF MainAt
<1>5. ASSUME Exact, WithinCall(todo[t], Rearming), todo[t] # Rearming
      PROVE  MainAt(todo[t])' /\ Counts' \subseteq Nat
  <2>1. Head(todo[t]) \notin {"tick", "rearm", "report", "rx.zero"}
    BY <1>5, CallHeads
  <2>2. Statement("main") \/ PostTimer \/ SendCurrentPostCommand \/ ExpectsPrompt
    BY <2>1, MainHeads DEF MainThread
  <2>3. WithinCall(todo[t], Rearming)'
    <3>1. CASE Statement("main")
      BY <1>0, <1>5, <3>1, StatementKeeps, ListsAre
    <3>2. CASE PostTimer \/ SendCurrentPostCommand \/ ExpectsPrompt
      BY <1>0, <1>5, <3>2, CallKeeps, ListsAre
    <3> QED  BY <2>2, <3>1, <3>2
  <2>4. UNCHANGED countVars
    BY <2>2, <1>0, StatementsExecute
       DEF PostTimer, SendCurrentPostCommand, ExpectsPrompt, Branch
  <2> QED  BY <1>5, <2>3, <2>4, CountKept DEF MainAt
<1>6. ASSUME Exact, WithinSetConfig(todo[t], Reporting)
      PROVE  MainAt(todo[t])' /\ Counts' \subseteq Nat
  <2>1. Statement("main")
    BY <1>6, SetConfigHeads, MainHeads DEF MainThread
  <2>2. \/ WithinSetConfig(todo[t], Reporting)'
        \/ todo'[t] = Reporting /\ Sound'
    BY <1>6, <2>1, SetConfigKeeps, ListsAre
  <2>3. UNCHANGED countVars
    BY <2>1, <1>0, StatementsExecute
  <2> QED  BY <1>6, <2>2, <2>3, CountKept DEF MainAt
<1>7. \/ Exact /\ Sound /\ todo[t] \in {Ticking, Rearming, Reporting}
      \/ reported = received /\ Sound /\ todo[t] = Zeroing
      \/ Exact /\ WithinCall(todo[t], Rearming) /\ todo[t] # Rearming
      \/ Exact /\ WithinSetConfig(todo[t], Reporting)
  <2>1. WithinCall(todo[t], Rearming) /\ todo[t] = Rearming => Sound
    BY ListsOpen DEF WithinCall, Opens
  <2> QED  BY <1>0, <2>1 DEF MainAt
<1> QED  BY <1>1, <1>2, <1>3, <1>4, <1>5, <1>6, <1>7

\* The UART thread goes on.
LEMMA UartKeeps ==
    ASSUME Types, UartAt(todo["uart"]), UartThread \/ Statement("uart")
    PROVE  UartAt(todo["uart"])' /\ {rxByteCount_, loaded, received, reported}' \subseteq Nat
<1> DEFINE t == "uart"
           Counts == {rxByteCount_, loaded, received, reported}
<1>0. t \in Thread /\ todo[t] # <<>>
  BY StatementsExecute, UartExecutes, ExecutedTypes DEF Thread, AtRest
<1> USE DEF Thread
<1>1. ASSUME reported + rxByteCount_ + 1 = received, Sound, todo[t] = Loading
      PROVE  UartAt(todo[t])' /\ Counts' \subseteq Nat
  <2>1. Head(todo[t]) = "rx.load" /\ Tail(todo[t]) = Storing
    BY <1>1, ListsOpen DEF Opens
  <2>2. LoadRx
    BY <2>1, <1>0, UartHeads, StatementHeads DEF UartThread
  <2>3. /\ todo'[t] = <<>> \o Storing /\ UNCHANGED <<respVars, setting>>
        /\ loaded' = rxByteCount_ /\ UNCHANGED <<rxByteCount_, received, reported>>
    BY <1>0, <2>1, <2>2, DoIs DEF LoadRx
  <2>4. todo'[t] = Storing /\ Sound'
    BY <1>1, <2>3, List0, ListsAre, SoundKept
  <2>5. reported' + rxByteCount_' + 1 = received' /\ Counts' \subseteq Nat
    BY <1>1, <2>3 DEF Types
  <2> QED  BY <2>3, <2>4, <2>5 DEF UartAt
<1>2. ASSUME reported + rxByteCount_ + 1 = received, loaded = rxByteCount_, Sound,
             todo[t] = Storing
      PROVE  UartAt(todo[t])' /\ Counts' \subseteq Nat
  <2>1. Head(todo[t]) = "rx.store" /\ Tail(todo[t]) = Processing
    BY <1>2, ListsOpen DEF Opens
  <2>2. StoreRx
    BY <2>1, <1>0, UartHeads, StatementHeads DEF UartThread
  <2>3. /\ todo'[t] = <<>> \o Processing /\ UNCHANGED <<respVars, setting>>
        /\ rxByteCount_' = loaded + 1 /\ UNCHANGED <<loaded, received, reported>>
    BY <1>0, <2>1, <2>2, DoIs DEF StoreRx
  <2>4. todo'[t] = Processing /\ Sound'
    BY <1>2, <2>3, List0, ListsAre, SoundKept
  <2>5. Exact' /\ Counts' \subseteq Nat
    BY <1>2, <2>3 DEF Exact, Types
  <2> QED  BY <2>4, <2>5 DEF UartAt
<1>3. ASSUME Exact, Sound, todo[t] = Processing
      PROVE  UartAt(todo[t])' /\ Counts' \subseteq Nat
  <2>1. Head(todo[t]) = "process" /\ Tail(todo[t]) = <<>>
    BY <1>3, ListsOpen DEF Opens
  <2>2. Process
    BY <2>1, <1>0, UartHeads, StatementHeads DEF UartThread
  <2>3. /\ UNCHANGED <<respVars, setting, countVars>>
        /\ \/ Matching /\ todo'[t] = <<"rule.use">> \o <<>>
           \/ Sending /\ todo'[t] = <<"post.take", "prompt.match">> \o <<>>
           \/ todo'[t] = <<>> \o <<>>
    BY <1>0, <2>1, <2>2, DoIs DEF Process, Branch, Matching, Sending
  <2>4. Sound' /\ Exact' /\ Counts' \subseteq Nat
    BY <1>3, <2>3, SoundKept, CountKept
  <2>5. (Matching => Matching') /\ (Sending => Sending')
    BY <1>3, <2>3, SoundKept
  <2>6. CASE Matching /\ todo'[t] = <<"rule.use">> \o <<>>
    <3>1. todo'[t] = Cons("rule.use", <<>>)
      BY <2>6, List1, ListsAre
    <3>2. Opens(todo'[t], "rule.use", <<>>)
      BY <3>1, ListsAre, AreStmts, ConsOpens
    <3> QED  BY <2>4, <2>5, <2>6, <3>2 DEF UartAt, WithinCall
  <2>7. CASE Sending /\ todo'[t] = <<"post.take", "prompt.match">> \o <<>>
    <3>1. "post.take" \in Stmt /\ "prompt.match" \in Stmt
      BY AreStmts
    <3>2. todo'[t] = Cons("post.take", Cons("prompt.match", <<>>))
      BY <2>7, <3>1, List2, ListsAre
    <3>3. Cons("prompt.match", <<>>) \in Seq(Stmt)
      BY ListsAre, AreStmts, ConsOpens
    <3>4. Opens(todo'[t], "post.take", Cons("prompt.match", <<>>))
      BY <3>2, <3>3, AreStmts, ConsOpens
    <3> QED  BY <2>4, <2>5, <2>7, <3>4 DEF UartAt, WithinCall
  <2>8. CASE todo'[t] = <<>> \o <<>>
    <3>1. todo'[t] = <<>>
      BY <2>8, List0, ListsAre
    <3> QED  BY <2>4, <3>1 DEF UartAt, WithinCall
  <2> QED  BY <2>3, <2>6, <2>7, <2>8
<1>4. ASSUME Exact, WithinCall(todo[t], <<>>)
      PROVE  UartAt(todo[t])' /\ Counts' \subseteq Nat
  <2>1. Head(todo[t]) \notin {"rx.load", "rx.store", "process"}
    BY <1>0, <1>4, CallHeads
  <2>2. Statement("uart") \/ MatchPrompt
    BY <2>1, UartHeads DEF UartThread
  <2>3. WithinCall(todo[t], <<>>)'
    <3>1. CASE Statement("uart")
      BY <1>0, <1>4, <3>1, StatementKeeps, ListsAre
    <3>2. CASE MatchPrompt
      BY <1>0, <1>4, <3>2, CallKeeps, ListsAre
    <3> QED  BY <2>2, <3>1, <3>2
  <2>4. UNCHANGED countVars
    BY <2>2, <1>0, StatementsExecute DEF MatchPrompt, Branch
  <2> QED  BY <1>4, <2>3, <2>4, CountKept DEF UartAt
<1> QED  BY <1>1, <1>2, <1>3, <1>4 DEF UartAt

\* The first statement of a callback, and of a tick.
LEMMA CallsBegin == Callback = Loading /\ BridgeTick = Ticking
<1>1. Callback \o <<>> = Callback /\ BridgeTick \o <<>> = BridgeTick
  BY MoreAre, ConcatEmptySeq
<1> QED
  BY <1>1, BlocksAre, ListsAre
     DEF Loading, Storing, Processing, Ticking, Rearming, Reporting, Zeroing

LEMMA Inductive == IInv /\ [Next]_bvars => IInv'
<1> SUFFICES ASSUME IInv, Next PROVE IInv'
  <2>1. ASSUME IInv, UNCHANGED bvars PROVE IInv'
    <3> USE DEF bvars, setting, respVars, countVars
    <3>1. (Sound <=> Sound') /\ (Exact <=> Exact')
      BY <2>1 DEF Sound, Exact, Matching, Sending
    <3>2. \A u, r : /\ WithinCall(u, r) => WithinCall(u, r)'
                    /\ WithinSetConfig(u, r) => WithinSetConfig(u, r)'
      BY <2>1, <3>1 DEF WithinCall, WithinSetConfig, Matching, Sending
    <3>3. \A u : (MainAt(u) => MainAt(u)') /\ (UartAt(u) => UartAt(u)')
      BY <2>1, <3>1, <3>2 DEF MainAt, UartAt
    <3> QED  BY <2>1, <3>3 DEF IInv, Types, OneAtATime
  <2> QED  BY <2>1
<1> USE DEF Thread
<1>1. threaded' = threaded
  <2>1. CASE Data \/ StartTick
    BY <2>1 DEF Data, StartTick, setting
  <2>2. ASSUME NEW t \in Thread, Statement(t) PROVE threaded' = threaded
    BY <2>2 DEF Statement, IncrementRule, LastRule, UseRule, IncrementPost, LastPost,
       TakePost, SetState, ZeroIndex, SetFlag, Assign, Branch, Do, setting
  <2>3. CASE UartThread \/ MainThread
    BY <2>3 DEF UartThread, LoadRx, StoreRx, Process, MatchPrompt, MainThread, Tick,
       PostTimer, SendCurrentPostCommand, ExpectsPrompt, Rearm, Report, ZeroRx, Branch, Do,
       setting
  <2> QED  BY <2>1, <2>2, <2>3 DEF Next
<1>6. currentRuleIndex_' \in Nat
  <2>1. currentRuleIndex_' \in {currentRuleIndex_, currentRuleIndex_ + 1, 0}
    <3>1. CASE Data \/ StartTick
      BY <3>1 DEF Data, StartTick, respVars
    <3>2. ASSUME NEW t \in Thread, Statement(t)
          PROVE  currentRuleIndex_' \in {currentRuleIndex_, currentRuleIndex_ + 1, 0}
      BY <3>2 DEF Statement, IncrementRule, LastRule, UseRule, IncrementPost, LastPost,
         TakePost, SetState, ZeroIndex, SetFlag, Assign, Branch, respVars
    <3>3. CASE UartThread \/ MainThread
      BY <3>3 DEF UartThread, LoadRx, StoreRx, Process, MatchPrompt, MainThread, Tick,
         PostTimer, SendCurrentPostCommand, ExpectsPrompt, Rearm, Report, ZeroRx, Branch,
         respVars
    <3> QED  BY <3>1, <3>2, <3>3 DEF Next
  <2> QED  BY <2>1 DEF IInv
<1> SUFFICES ASSUME ~threaded, Types, OneAtATime PROVE Types' /\ OneAtATime'
  BY <1>1, <1>6 DEF IInv
<1>2. CASE Data
  <2>1. todo["uart"] = <<>> /\ todo["main"] = <<>>
    BY <1>2 DEF Data, AtRest
  <2>2. Sound /\ Exact
    BY <2>1, RestIsSound
  <2>3. /\ todo' = [todo EXCEPT !["uart"] = Loading] /\ received' = received + 1
        /\ UNCHANGED <<setting, respVars, rxByteCount_, loaded, reported>>
    BY <1>2, CallsBegin DEF Data
  <2>4. Types' /\ todo'["uart"] = Loading /\ todo'["main"] = <<>>
    BY <2>1, <2>3, ListsAre DEF Types, setting
  <2>5. Sound' /\ reported' + rxByteCount_' + 1 = received'
    BY <2>2, <2>3, SoundKept DEF Exact, Types
  <2> QED  BY <2>4, <2>5 DEF OneAtATime, UartAt
<1>3. CASE StartTick
  <2>1. todo["uart"] = <<>> /\ todo["main"] = <<>>
    BY <1>3 DEF StartTick, AtRest
  <2>2. Sound /\ Exact
    BY <2>1, RestIsSound
  <2>3. /\ todo' = [todo EXCEPT !["main"] = Ticking]
        /\ UNCHANGED <<setting, respVars, countVars>>
    BY <1>3, CallsBegin DEF StartTick
  <2>4. Types' /\ todo'["main"] = Ticking /\ todo'["uart"] = <<>>
    BY <2>1, <2>3, ListsAre DEF Types, setting, countVars
  <2>5. Sound' /\ Exact'
    BY <2>2, <2>3, SoundKept, CountKept
  <2> QED  BY <2>4, <2>5 DEF OneAtATime, MainAt
<1>4. CASE MainThread \/ Statement("main")
  <2>1. Executes("main")
    BY <1>4, MainExecutes, StatementsExecute
  <2>2. /\ todo' \in [Thread -> Seq(Stmt)] /\ size' \in Sizes
        /\ todo["main"] # <<>> /\ todo'["uart"] = todo["uart"]
    BY <2>1, ExecutedTypes DEF AtRest
  <2>3. todo["uart"] = <<>> /\ MainAt(todo["main"])
    BY <2>2 DEF OneAtATime
  <2>4. MainAt(todo["main"])' /\ {rxByteCount_, loaded, received, reported}' \subseteq Nat
    BY <1>4, <2>3, MainKeeps
  <2> QED  BY <2>2, <2>3, <2>4 DEF OneAtATime, Types
<1>5. CASE UartThread \/ Statement("uart")
  <2>1. Executes("uart")
    BY <1>5, UartExecutes, StatementsExecute
  <2>2. /\ todo' \in [Thread -> Seq(Stmt)] /\ size' \in Sizes
        /\ todo["uart"] # <<>> /\ todo'["main"] = todo["main"]
    BY <2>1, ExecutedTypes DEF AtRest
  <2>3. todo["main"] = <<>> /\ UartAt(todo["uart"])
    BY <2>2 DEF OneAtATime
  <2>4. UartAt(todo["uart"])' /\ {rxByteCount_, loaded, received, reported}' \subseteq Nat
    BY <1>5, <2>3, UartKeeps
  <2> QED  BY <2>2, <2>3, <2>4 DEF OneAtATime, Types
<1> QED  BY <1>2, <1>3, <1>4, <1>5 DEF Next

LEMMA Initially == Init => IInv
<1> SUFFICES ASSUME Init PROVE IInv
  OBVIOUS
<1>1. todo["uart"] = <<>> /\ todo["main"] = <<>> /\ todo \in [Thread -> Seq(Stmt)]
  BY EmptySeq DEF Init, Thread
<1>2. size.rules \in Nat
  BY ThreadsAssumption DEF Init
<1>3. Sound /\ Exact
  BY <1>2 DEF Init, Sound, Exact, Matching, Sending
<1>4. Types /\ OneAtATime
  BY <1>1, <1>3 DEF Init, Types, OneAtATime, MainAt
<1>5. currentRuleIndex_ \in Nat
  BY DEF Init
<1> QED  BY <1>4, <1>5 DEF IInv

LEMMA Implied == IInv => NotWedged /\ CountIsExact
<1> SUFFICES ASSUME IInv, ~threaded, todo["uart"] = <<>>, todo["main"] = <<>>
             PROVE  ~Wedged /\ Exact
  BY DEF NotWedged, CountIsExact, Wedged, AtRest, Exact
<1>1. Sound /\ Exact /\ size \in Sizes
  BY RestIsSound DEF IInv, Types
<1>2. size.rules \in Nat /\ currentRuleIndex_ \in Nat
  BY <1>1, ThreadsAssumption DEF IInv
<1> QED  BY <1>1, <1>2 DEF Sound, Matching, Sending, Wedged

-----------------------------------------------------------------------------

\* On one thread the responder is never, between calls, in a state that
\* nothing leaves, for any configuration (process and tick of AutoResponder.cpp).
THEOREM NeverStuckOnOneThread == Spec => []NotWedged
BY Initially, Inductive, Implied, PTL DEF Spec

\* On one thread every byte received is, between calls, in the count or was
\* reported (the callback and the report of BridgeController.cpp).
THEOREM CountIsAlwaysExact == Spec => []CountIsExact
BY Initially, Inductive, Implied, PTL DEF Spec
=============================================================================
