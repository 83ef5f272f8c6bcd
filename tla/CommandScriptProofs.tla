------------------------ MODULE CommandScriptProofs ------------------------
(***************************************************************************)
(* What the abstract script guarantees for every set of scripts: nothing   *)
(* is written out of order or twice, and no command is passed over.        *)
(***************************************************************************)
EXTENDS CommandScript, SequenceTheorems, TLAPS

\* A command that has been issued and awaits its prompt is the current item,
\* and what it says is written already.
IssuedOK ==
    issued => /\ Pending
              /\ Current.kind = "command"
              /\ Current.says => \E i \in 1..Len(output) : output[i] = next + 1

\* CommandsNeverSkipped is not inductive by itself: when a prompt concludes a
\* command, IssuedOK is what says that the command was written.
IInv == TypeOK /\ WrittenInOrder /\ CommandsNeverSkipped /\ IssuedOK

LEMMA CurrentType ==
    ASSUME TypeOK, Pending
    PROVE  /\ Current \in Item
           /\ next \in Nat /\ Len(script) \in Nat
           /\ next + 1 \in 1..Len(script)
<1>1. next \in Nat /\ Len(script) \in Nat /\ next + 1 \in 1..Len(script)
  BY LenProperties DEF TypeOK, Pending
<1> QED  BY <1>1, ElementOfSeq DEF TypeOK, Current

\* What Say does to the output.
LEMMA SayProperties ==
    ASSUME TypeOK, Pending, Say, UNCHANGED script
    PROVE  /\ output' \in Seq(1..Len(script))
           /\ Len(output) \in Nat /\ Len(output') \in Nat
           /\ Len(output) <= Len(output')
           /\ \A i \in 1..Len(output) : output'[i] = output[i]
           /\ \A i \in 1..Len(output') : i \in 1..Len(output) \/
                 (i = Len(output) + 1 /\ output'[i] = next + 1)
           /\ Current.says => \E i \in 1..Len(output') : output'[i] = next + 1
<1>1. /\ next + 1 \in 1..Len(script) /\ output \in Seq(1..Len(script))
      /\ Len(output) \in Nat
  BY CurrentType, LenProperties DEF TypeOK
<1>2. CASE Current.says
  <2>1. output' = Append(output, next + 1)
    BY <1>2 DEF Say
  <2>2. /\ output' \in Seq(1..Len(script)) /\ Len(output') = Len(output) + 1
        /\ \A i \in 1..Len(output) : output'[i] = output[i]
        /\ output'[Len(output) + 1] = next + 1
    BY <1>1, <2>1, AppendProperties
  <2>3. Len(output) + 1 \in 1..Len(output')
    BY <1>1, <2>2
  <2> QED  BY <1>1, <2>2, <2>3
<1>3. CASE ~Current.says
  BY <1>1, <1>3 DEF Say
<1> QED  BY <1>2, <1>3

\* Writing the current item when nothing from it on is written yet keeps
\* the order.
LEMMA SayKeepsOrder ==
    ASSUME TypeOK, WrittenInOrder, ~issued, Pending, Say, UNCHANGED script
    PROVE  /\ \A i \in 1..Len(output') : output'[i] <= next + 1
           /\ \A i, j \in 1..Len(output') : i < j => output'[i] < output'[j]
<1>1. \A i \in 1..Len(output) : output[i] \in Nat /\ output[i] <= next
  BY ElementOfSeq, LenProperties DEF TypeOK, WrittenInOrder
<1>2. next \in Nat
  BY CurrentType
<1>3. \A i, j \in 1..Len(output) : i < j => output[i] < output[j]
  BY DEF WrittenInOrder
<1>4. ASSUME NEW i \in 1..Len(output') PROVE output'[i] <= next + 1
  <2>1. \/ i \in 1..Len(output) /\ output'[i] = output[i]
        \/ output'[i] = next + 1
    BY SayProperties
  <2> QED  BY <1>1, <1>2, <2>1
<1>5. ASSUME NEW i \in 1..Len(output'), NEW j \in 1..Len(output'), i < j
      PROVE  output'[i] < output'[j]
  <2>1. i \in 1..Len(output)
    BY <1>5, SayProperties
  <2>2. CASE j \in 1..Len(output)
    BY <1>3, <1>5, <2>1, <2>2, SayProperties
  <2>3. CASE j = Len(output) + 1 /\ output'[j] = next + 1
    <3>1. output'[i] = output[i] /\ output[i] \in Nat /\ output[i] <= next
      BY <1>1, <2>1, SayProperties
    <3> QED  BY <1>2, <2>3, <3>1
  <2> QED  BY <2>2, <2>3, SayProperties
<1> QED  BY <1>4, <1>5

\* What was written stays written.
LEMMA SayKeepsWritten ==
    ASSUME TypeOK, Pending, Say, UNCHANGED script, CommandsNeverSkipped
    PROVE  \A n \in 1..next :
             script[n].kind = "command" /\ script[n].says
               => \E i \in 1..Len(output') : output'[i] = n
<1> SUFFICES ASSUME NEW n \in 1..next,
                    script[n].kind = "command" /\ script[n].says
             PROVE  \E i \in 1..Len(output') : output'[i] = n
  OBVIOUS
<1>1. PICK i \in 1..Len(output) : output[i] = n
  BY DEF CommandsNeverSkipped
<1>2. i \in 1..Len(output') /\ output'[i] = n
  BY <1>1, SayProperties
<1> QED  BY <1>2

LEMMA InitEstablishes == Init => IInv
<1> SUFFICES ASSUME Init PROVE IInv
  OBVIOUS
<1>1. TypeOK
  <2>1. script = <<>> /\ next = 0 /\ issued = FALSE /\ output = <<>>
    BY DEF Init
  <2>2. script \in Seq(Item) /\ Len(script) = 0 /\ output \in Seq(1..Len(script))
    BY <2>1, EmptySeq
  <2>3. next \in 0..Len(script)
    BY <2>1, <2>2
  <2> QED  BY <2>1, <2>2, <2>3 DEF TypeOK
<1>2. WrittenInOrder /\ CommandsNeverSkipped /\ IssuedOK
  BY EmptySeq DEF Init, WrittenInOrder, CommandsNeverSkipped, IssuedOK
<1> QED  BY <1>1, <1>2 DEF IInv

LEMMA LoadEstablishes ==
    ASSUME Scripts \subseteq Seq(Item), NEW s \in Scripts, Load(s)
    PROVE  IInv'
<1>1. TypeOK'
  <2>1. script' = s /\ next' = 0 /\ issued' = FALSE /\ output' = <<>>
    BY DEF Load
  <2>2. script' \in Seq(Item) /\ Len(script') \in Nat
    BY <2>1, LenProperties
  <2>3. output' \in Seq(1..Len(script'))
    BY <2>1, EmptySeq
  <2>4. next' \in 0..Len(script')
    BY <2>1, <2>2
  <2> QED  BY <2>1, <2>2, <2>3, <2>4 DEF TypeOK
<1>2. (WrittenInOrder /\ CommandsNeverSkipped /\ IssuedOK)'
  BY EmptySeq DEF Load, WrittenInOrder, CommandsNeverSkipped, IssuedOK
<1> QED  BY <1>1, <1>2 DEF IInv

LEMMA AnswerKeeps ==
    ASSUME IInv, Answer
    PROVE  IInv'
<1>1. /\ TypeOK /\ Pending /\ Say /\ ~issued /\ script' = script
      /\ next' = next + 1 /\ issued' = issued /\ Current.kind = "rule"
  BY DEF IInv, IssuedOK, Answer
<1>2. next + 1 \in 1..Len(script) /\ next \in Nat /\ Len(script) \in Nat
  BY <1>1, CurrentType
<1>3. TypeOK'
  <2>1. output' \in Seq(1..Len(script))
    BY <1>1, SayProperties
  <2> QED  BY <1>1, <1>2, <2>1 DEF TypeOK
<1>4. WrittenInOrder'
  BY <1>1, SayKeepsOrder DEF IInv, WrittenInOrder
<1>5. CommandsNeverSkipped'
  <2>1. \A n \in 1..next : script[n].kind = "command" /\ script[n].says
               => \E i \in 1..Len(output') : output'[i] = n
    BY <1>1, SayKeepsWritten DEF IInv
  <2>2. \A n \in 1..(next + 1) : n \in 1..next \/ n = next + 1
    BY <1>2
  <2>3. script[next + 1].kind # "command"
    BY <1>1 DEF Current
  <2> QED  BY <1>1, <2>1, <2>2, <2>3 DEF CommandsNeverSkipped
<1>6. IssuedOK'
  BY <1>1 DEF IssuedOK
<1> QED  BY <1>3, <1>4, <1>5, <1>6 DEF IInv

LEMMA SkipKeeps ==
    ASSUME IInv, Skip
    PROVE  IInv'
<1>1. /\ TypeOK /\ Pending /\ ~issued /\ script' = script /\ output' = output
      /\ next' = next + 1 /\ issued' = issued /\ Current.kind = "rule"
  BY DEF IInv, IssuedOK, Skip
<1>2. next + 1 \in 1..Len(script) /\ next \in Nat /\ Len(script) \in Nat
  BY <1>1, CurrentType
<1>3. TypeOK'
  BY <1>1, <1>2 DEF TypeOK
<1>4. WrittenInOrder'
  <2>1. \A i \in 1..Len(output) : output[i] \in Nat
    BY ElementOfSeq, <1>1 DEF TypeOK
  <2> QED  BY <1>1, <1>2, <2>1 DEF IInv, WrittenInOrder
<1>5. CommandsNeverSkipped'
  <2>1. \A n \in 1..(next + 1) : n \in 1..next \/ n = next + 1
    BY <1>2
  <2>2. script[next + 1].kind # "command"
    BY <1>1 DEF Current
  <2> QED  BY <1>1, <2>1, <2>2 DEF IInv, CommandsNeverSkipped
<1>6. IssuedOK'
  BY <1>1 DEF IssuedOK
<1> QED  BY <1>3, <1>4, <1>5, <1>6 DEF IInv

LEMMA IssueKeeps ==
    ASSUME IInv, Issue
    PROVE  IInv'
<1>1. /\ TypeOK /\ Pending /\ Say /\ ~issued /\ script' = script
      /\ issued' = Current.awaits /\ Current.kind = "command"
      /\ next' = IF Current.awaits THEN next ELSE next + 1
  BY DEF IInv, Issue
<1>2. next + 1 \in 1..Len(script) /\ next \in Nat /\ Len(script) \in Nat
      /\ Current.awaits \in BOOLEAN
  BY <1>1, CurrentType DEF Item
<1>3. TypeOK'
  <2>1. output' \in Seq(1..Len(script))
    BY <1>1, SayProperties
  <2>2. issued' \in BOOLEAN
    BY <1>1, <1>2
  <2> QED  BY <1>1, <1>2, <2>1, <2>2 DEF TypeOK
<1>4. WrittenInOrder'
  <2>1. next' + (IF issued' THEN 1 ELSE 0) = next + 1
    BY <1>1, <1>2
  <2> QED  BY <1>1, <2>1, SayKeepsOrder DEF IInv, WrittenInOrder
<1>5. CommandsNeverSkipped'
  <2>1. \A n \in 1..next : script[n].kind = "command" /\ script[n].says
               => \E i \in 1..Len(output') : output'[i] = n
    BY <1>1, SayKeepsWritten DEF IInv
  <2>2. script[next + 1].says => \E i \in 1..Len(output') : output'[i] = next + 1
    BY <1>1, SayProperties DEF Current
  <2>3. \A n \in 1..next' : n \in 1..next \/ n = next + 1
    BY <1>1, <1>2
  <2> QED  BY <1>1, <2>1, <2>2, <2>3 DEF CommandsNeverSkipped
<1>6. IssuedOK'
  <2> SUFFICES ASSUME issued' PROVE
        /\ Pending' /\ Current'.kind = "command"
        /\ Current'.says => \E i \in 1..Len(output') : output'[i] = next' + 1
    BY DEF IssuedOK
  <2>1. next' = next /\ Pending' /\ Current' = Current
    BY <1>1 DEF Pending, Current
  <2> QED  BY <1>1, <2>1, SayProperties
<1> QED  BY <1>3, <1>4, <1>5, <1>6 DEF IInv

LEMMA ConcludeKeeps ==
    ASSUME IInv, Conclude
    PROVE  IInv'
<1>1. /\ TypeOK /\ Pending /\ issued /\ issued' = FALSE /\ next' = next + 1
      /\ script' = script /\ output' = output
      /\ Current.says => \E i \in 1..Len(output) : output[i] = next + 1
  BY DEF IInv, IssuedOK, Conclude
<1>2. next + 1 \in 1..Len(script) /\ next \in Nat /\ Len(script) \in Nat
  BY <1>1, CurrentType
<1>3. TypeOK'
  <2>1. next' \in 0..Len(script)
    BY <1>1, <1>2
  <2>2. issued' \in BOOLEAN
    BY <1>1
  <2> QED  BY <1>1, <2>1, <2>2 DEF TypeOK
<1>4. WrittenInOrder'
  BY <1>1, <1>2 DEF IInv, WrittenInOrder
<1>5. CommandsNeverSkipped'
  <2>1. \A n \in 1..(next + 1) : n \in 1..next \/ n = next + 1
    BY <1>2
  <2> QED  BY <1>1, <2>1 DEF IInv, CommandsNeverSkipped, Current
<1>6. IssuedOK'
  BY <1>1 DEF IssuedOK
<1> QED  BY <1>3, <1>4, <1>5, <1>6 DEF IInv

LEMMA NextKeeps ==
    ASSUME Scripts \subseteq Seq(Item), IInv, [Next]_svars
    PROVE  IInv'
<1>1. CASE UNCHANGED svars
  BY <1>1 DEF svars, IInv, TypeOK, WrittenInOrder, CommandsNeverSkipped, IssuedOK,
     Pending, Current
<1> QED  BY <1>1, LoadEstablishes, AnswerKeeps, SkipKeeps, IssueKeeps, ConcludeKeeps
         DEF Next

LEMMA Invariance == ASSUME Scripts \subseteq Seq(Item) PROVE Spec => []IInv
<1>1. IInv /\ [Next]_svars => IInv'
  BY NextKeeps
<1> QED  BY <1>1, InitEstablishes, PTL DEF Spec

\* Items are written at most once, in the order of the script, and none
\* before its turn.
THEOREM OutputInOrder ==
    ASSUME Scripts \subseteq Seq(Item) PROVE Spec => []WrittenInOrder
<1>1. IInv => WrittenInOrder
  BY DEF IInv
<1> QED  BY <1>1, Invariance, PTL

\* Every command the script has left behind was written, if it had anything
\* to write: a rule may be given up, a command never.
THEOREM NoCommandSkipped ==
    ASSUME Scripts \subseteq Seq(Item) PROVE Spec => []CommandsNeverSkipped
<1>1. IInv => CommandsNeverSkipped
  BY DEF IInv
<1> QED  BY <1>1, Invariance, PTL
=============================================================================
