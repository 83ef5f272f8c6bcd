------------------------- MODULE TelnetFilterProofs -------------------------
(***************************************************************************)
(* What holds of the telnet filter for every set of data, options and      *)
(* offers and every size of the receive buffer: it is always at the place  *)
(* of a command where the client was, and passes on exactly what was meant *)
(* as text.  Of a device that sends no IAC, the client in turn is shown    *)
(* everything.                                                             *)
(***************************************************************************)
EXTENDS TelnetFilter, SequenceTheorems, TLAPS

-----------------------------------------------------------------------------
(* The inductive invariant.                                                *)

\* What a byte may be, and what a client may mean by some, be the option one
\* that it read out of the device's data.
Bytes == Data \cup Options \cup DeviceBytes \cup Verbs \cup {IAC, "NOP"}
Meant == Typed \cup {Negotiate(v, o) : v \in Verbs, o \in Bytes}

OnWire == {x \in [byte : Bytes, at : 1..3, of : Meant] :
              x.at <= Len(x.of.bytes) /\ x.byte = x.of.bytes[x.at]}

\* s goes on with the n-th byte of something that was meant, which s holds to
\* its end, and all that follows is whole.
Framed(s, n) ==
    /\ IF s = <<>> THEN n = 1 ELSE s[1].at = n /\ IsLast(s[Len(s)])
    /\ \A k \in 1..(Len(s) - 1) :
          IF IsLast(s[k]) THEN s[k + 1].at = 1
          ELSE s[k + 1].of = s[k].of /\ s[k + 1].at = s[k].at + 1

ServerOK ==
    /\ iacState \in 0..2 /\ clean \in Seq(Data \cup {IAC})
    /\ avail \in Nat /\ Len(clean) + avail <= BufSize
    /\ line \in Seq(OnWire) /\ avail <= Len(line)
    /\ Framed(line, iacState + 1)
    /\ iacState = 2 => iacCmd = line[1].of.bytes[2]

ClientOK ==
    /\ down \in Seq([byte : Bytes, device : BOOLEAN])
    /\ clientState \in 0..2
    /\ clientState = 2 => verb \in Verbs

IInv == ServerOK /\ ClientOK

\* A client in state p gets through s, the device's bytes in state 0 and the
\* server's commands whole, and ends in state 0.
Step(p, x, q) ==
    \/ p = 0 /\ x.device /\ x.byte \in DeviceBytes /\ q = 0
    \/ p = 0 /\ ~x.device /\ x.byte = IAC /\ q = 1
    \/ p = 1 /\ ~x.device /\ x.byte \in Verbs /\ q = 2
    \/ p = 2 /\ ~x.device /\ x.byte \in Options /\ q = 0
Parsed(s, p) ==
    \E states \in [1..(Len(s) + 1) -> 0..2] :
        /\ states[1] = p /\ states[Len(s) + 1] = 0
        /\ \A k \in 1..Len(s) : Step(states[k], s[k], states[k + 1])

ShownOK ==
    /\ Parsed(down, clientState)
    /\ \A k \in 1..Len(line) : line[k].of \in Tokens

-----------------------------------------------------------------------------
(* What is meant, and how it looks on the wire.                            *)

\* The bytes that a parser tests for are told apart from the others.
LEMMA Marks == IAC \notin Data /\ IAC \notin Verbs /\ "NOP" \notin Verbs /\ "NOP" # IAC
<1>1. IAC \notin Data
  BY FilterAssumption
<1>2. IAC \notin Verbs /\ "NOP" \notin Verbs /\ "NOP" # IAC
  BY DEF IAC, Verbs
<1> QED  BY <1>1, <1>2

\* The four kinds of things a client sends: a byte of data, IAC as data, a
\* command alone, and a negotiation.
IsData(tok, b) ==
    /\ Len(tok.bytes) = 1 /\ tok.bytes[1] = b
    /\ tok.text = <<b>> /\ tok.answer = <<>>
IsEscape(tok) ==
    /\ Len(tok.bytes) = 2 /\ tok.bytes[1] = IAC /\ tok.bytes[2] = IAC
    /\ tok.text = <<IAC>> /\ tok.answer = <<>>
IsCommand(tok) ==
    /\ Len(tok.bytes) = 2 /\ tok.bytes[1] = IAC /\ tok.bytes[2] = "NOP"
    /\ tok.text = <<>> /\ tok.answer = <<>>
IsNegotiation(tok, v, o) ==
    /\ Len(tok.bytes) = 3
    /\ tok.bytes[1] = IAC /\ tok.bytes[2] = v /\ tok.bytes[3] = o
    /\ tok.text = <<>> /\ tok.answer = Reply(v, o)

\* Nothing else is sent.
LEMMA Kinds ==
    ASSUME NEW tok \in Meant
    PROVE  \/ \E b \in Data : IsData(tok, b)
           \/ IsEscape(tok)
           \/ IsCommand(tok)
           \/ \E v \in Verbs, o \in Bytes : IsNegotiation(tok, v, o)
<1>1. CASE \E b \in Data : tok = Text(b)
  BY <1>1, Marks DEF Text, IsData
<1>2. CASE tok = Text(IAC)
  BY <1>2 DEF Text, IsEscape
<1>3. CASE tok = Command
  BY <1>3 DEF Command, IsCommand
<1>4. CASE \E v \in Verbs, o \in Bytes : tok = Negotiate(v, o)
  BY <1>4 DEF Negotiate, Reply, IsNegotiation
<1> QED  BY <1>1, <1>2, <1>3, <1>4 DEF Meant, Typed

\* No telnet command here is longer than three bytes.
LEMMA Lengths ==
    ASSUME NEW tok \in Meant
    PROVE  /\ Len(tok.bytes) \in 1..3
           /\ \A k \in 1..Len(tok.bytes) : tok.bytes[k] \in Bytes
<1>1. CASE \E b \in Data : IsData(tok, b)
  BY <1>1 DEF Bytes, IsData
<1>2. CASE IsEscape(tok)
  BY <1>2 DEF Bytes, IsEscape
<1>3. CASE IsCommand(tok)
  BY <1>3 DEF Bytes, IsCommand
<1>4. CASE \E v \in Verbs, o \in Bytes : IsNegotiation(tok, v, o)
  BY <1>4 DEF Bytes, IsNegotiation
<1> QED  BY <1>1, <1>2, <1>3, <1>4, Kinds

\* On the wire are the bytes of what is sent, first to last.
LEMMA WireProperties ==
    ASSUME NEW tok \in Meant
    PROVE  /\ Wire(tok) \in Seq(OnWire) /\ Len(Wire(tok)) = Len(tok.bytes)
           /\ Len(tok.bytes) \in 1..3
           /\ \A k \in 1..Len(tok.bytes) :
                 Wire(tok)[k].at = k /\ Wire(tok)[k].of = tok
<1>1. Len(tok.bytes) \in 1..3 /\ \A k \in 1..Len(tok.bytes) : tok.bytes[k] \in Bytes
  BY Lengths
<1>2. \A k \in 1..Len(tok.bytes) :
         [byte |-> tok.bytes[k], at |-> k, of |-> tok] \in OnWire
  BY <1>1 DEF OnWire
<1> QED  BY <1>1, <1>2 DEF Wire

\* To send something whole keeps the stream framed.
LEMMA SendFramed ==
    ASSUME NEW s \in Seq(OnWire), NEW n, Framed(s, n), NEW tok \in Meant
    PROVE  /\ s \o Wire(tok) \in Seq(OnWire)
           /\ Len(s \o Wire(tok)) >= Len(s) /\ s \o Wire(tok) # <<>>
           /\ Framed(s \o Wire(tok), n)
           /\ s # <<>> => (s \o Wire(tok))[1] = s[1]
           /\ \A k \in 1..Len(s \o Wire(tok)) :
                 \/ k \in 1..Len(s) /\ (s \o Wire(tok))[k] = s[k]
                 \/ (s \o Wire(tok))[k].of = tok
<1> DEFINE w == Wire(tok)
           t == s \o w
           m == Len(s)
           l == Len(tok.bytes)
<1>1. /\ w \in Seq(OnWire) /\ Len(w) = l /\ l \in 1..3
      /\ \A k \in 1..l : w[k].at = k /\ w[k].of = tok
  BY WireProperties
<1> HIDE DEF w
<1>2. /\ t \in Seq(OnWire) /\ m \in Nat /\ Len(t) = m + l
      /\ \A k \in 1..m : t[k] = s[k]
      /\ \A k \in 1..l : t[m + k] = w[k]
  <2>1. Len(w) \in Nat /\ m \in Nat
    BY <1>1, LenProperties
  <2>2. /\ t \in Seq(OnWire) /\ Len(t) = m + Len(w)
        /\ \A k \in 1..(m + Len(w)) : t[k] = IF k <= m THEN s[k] ELSE w[k - m]
    <3>1. \A u, v \in Seq(OnWire) :
             /\ u \o v \in Seq(OnWire) /\ Len(u \o v) = Len(u) + Len(v)
             /\ \A k \in 1..(Len(u) + Len(v)) :
                   (u \o v)[k] = IF k <= Len(u) THEN u[k] ELSE v[k - Len(u)]
      BY ConcatProperties
    <3> QED  BY <1>1, <3>1
  <2>3. /\ \A k \in 1..m : t[k] = s[k]
        /\ \A k \in 1..Len(w) : t[m + k] = w[k]
    <3> HIDE DEF t, m
    <3> QED  BY <2>1, <2>2
  <2> QED  BY <1>1, <2>1, <2>2, <2>3
<1>3. s = <<>> <=> m = 0
  BY EmptySeq
<1> HIDE DEF t, m, l
<1>4. t # <<>> /\ Len(t) >= m
  BY <1>1, <1>2, EmptySeq
<1>5. t[Len(t)].at = l /\ t[Len(t)].of = tok
  <2>1. l \in 1..l /\ Len(t) = m + l
    BY <1>1, <1>2
  <2> QED  BY <1>1, <1>2, <2>1
<1>6. \A k \in 1..Len(t) : \/ k \in 1..m /\ t[k] = s[k]
                           \/ k - m \in 1..l /\ t[k] = w[k - m]
  <2> SUFFICES ASSUME NEW k \in 1..Len(t), k \notin 1..m
               PROVE  k - m \in 1..l /\ t[k] = w[k - m]
    BY <1>2
  <2>1. k - m \in 1..l /\ m + (k - m) = k
    BY <1>1, <1>2
  <2> QED  BY <1>2, <2>1
<1>7. t[1].at = n /\ (s # <<>> => t[1] = s[1])
  <2>1. CASE m = 0
    <3>1. t[0 + 1] = w[1] /\ w[1].at = 1
      BY <1>1, <1>2, <2>1
    <3> QED  BY <1>3, <2>1, <3>1 DEF Framed
  <2>2. CASE m # 0
    <3>1. 1 \in 1..m
      BY <1>2, <2>2
    <3> QED  BY <1>2, <1>3, <2>2, <3>1 DEF Framed
  <2> QED  BY <2>1, <2>2
<1>8. ASSUME NEW k \in 1..(Len(t) - 1)
      PROVE  IF IsLast(t[k]) THEN t[k + 1].at = 1
             ELSE t[k + 1].of = t[k].of /\ t[k + 1].at = t[k].at + 1
  <2>1. CASE k \in 1..(m - 1)
    <3>1. t[k] = s[k] /\ t[k + 1] = s[k + 1]
      BY <1>2, <2>1
    <3> QED  BY <2>1, <3>1 DEF Framed, m
  <2>2. CASE k = m
    <3>1. m \in 1..m /\ 1 \in 1..l /\ m # 0
      BY <1>1, <1>2, <2>2
    <3>2. t[k] = s[m] /\ t[k + 1].at = 1
      BY <1>1, <1>2, <2>2, <3>1
    <3>3. IsLast(s[m])
      BY <1>3, <3>1 DEF Framed, m
    <3> QED  BY <3>2, <3>3
  <2>3. CASE k - m \in 1..(l - 1)
    <3>1. k - m \in 1..l /\ (k - m) + 1 \in 1..l /\ m + (k - m) = k
          /\ m + ((k - m) + 1) = k + 1
      BY <1>1, <1>2, <2>3
    <3>2. t[k] = w[k - m] /\ t[k + 1] = w[(k - m) + 1]
      BY <1>2, <3>1
    <3>3. /\ t[k].at = k - m /\ t[k].of = tok
          /\ t[k + 1].at = (k - m) + 1 /\ t[k + 1].of = tok
      BY <1>1, <3>1, <3>2
    <3>4. k - m # l
      BY <1>1, <2>3
    <3> QED  BY <3>3, <3>4 DEF IsLast, l
  <2>4. k \in 1..(m - 1) \/ k = m \/ k - m \in 1..(l - 1)
    BY <1>1, <1>2
  <2> QED  BY <2>1, <2>2, <2>3, <2>4
<1>9. Framed(t, n)
  <2>1. IsLast(t[Len(t)])
    BY <1>5 DEF IsLast, l
  <2> QED  BY <1>4, <1>7, <1>8, <2>1 DEF Framed
<1>10. \A k \in 1..Len(t) : (k \in 1..m /\ t[k] = s[k]) \/ t[k].of = tok
  BY <1>1, <1>6
<1> QED  BY <1>2, <1>4, <1>7, <1>9, <1>10 DEF t, w, m

\* To take a byte off leaves the rest framed.
LEMMA TakeFramed ==
    ASSUME NEW s \in Seq(OnWire), NEW n, Framed(s, n), s # <<>>
    PROVE  /\ Head(s) = s[1] /\ s[1] \in OnWire /\ s[1].at = n
           /\ Tail(s) \in Seq(OnWire) /\ Len(Tail(s)) = Len(s) - 1
           /\ \A k \in 1..Len(Tail(s)) :
                 k + 1 \in 1..Len(s) /\ Tail(s)[k] = s[k + 1]
           /\ Framed(Tail(s), IF IsLast(s[1]) THEN 1 ELSE n + 1)
           /\ ~IsLast(s[1]) => Tail(s) # <<>> /\ Tail(s)[1].of = s[1].of
<1> DEFINE t == Tail(s)
<1>1. /\ Len(s) \in Nat /\ Len(s) # 0 /\ Head(s) = s[1] /\ s[1] \in OnWire
      /\ t \in Seq(OnWire) /\ Len(t) = Len(s) - 1
      /\ \A k \in 1..Len(t) : t[k] = s[k + 1]
      /\ (t = <<>>) <=> (Len(t) = 0)
  <2>1. Len(s) \in Nat /\ Len(s) # 0
    BY LenProperties, EmptySeq
  <2>2. /\ Head(s) = s[1] /\ Head(s) \in OnWire
        /\ t \in Seq(OnWire) /\ Len(t) = Len(s) - 1
        /\ \A k \in 1..Len(t) : t[k] = s[k + 1]
    BY HeadTailProperties
  <2> HIDE DEF t
  <2> QED  BY <2>1, <2>2, EmptySeq
<1> HIDE DEF t
<1>2. /\ s[1].at = n /\ IsLast(s[Len(s)])
      /\ \A k \in 1..(Len(s) - 1) :
            IF IsLast(s[k]) THEN s[k + 1].at = 1
            ELSE s[k + 1].of = s[k].of /\ s[k + 1].at = s[k].at + 1
  BY DEF Framed
<1>3. CASE t = <<>>
  <2>1. Len(s) = 1
    BY <1>1, <1>3
  <2>2. IsLast(s[1])
    BY <1>2, <2>1
  <2>3. Framed(t, 1)
    BY <1>1, <1>3 DEF Framed
  <2> QED  BY <1>1, <1>2, <2>2, <2>3 DEF t
<1>4. CASE t # <<>>
  <2>1. 1 \in 1..(Len(s) - 1) /\ 1 \in 1..Len(t) /\ Len(t) \in 1..Len(t)
        /\ Len(t) + 1 = Len(s)
    BY <1>1, <1>4
  <2>2. /\ t[1] = s[2] /\ t[Len(t)] = s[Len(s)]
    BY <1>1, <2>1
  <2>3. IF IsLast(s[1]) THEN t[1].at = 1
        ELSE t[1].of = s[1].of /\ t[1].at = n + 1
    BY <1>2, <2>1, <2>2
  <2>4. ASSUME NEW k \in 1..(Len(t) - 1)
        PROVE  IF IsLast(t[k]) THEN t[k + 1].at = 1
               ELSE t[k + 1].of = t[k].of /\ t[k + 1].at = t[k].at + 1
    <3>1. k \in 1..Len(t) /\ k + 1 \in 1..Len(t) /\ k + 1 \in 1..(Len(s) - 1)
      BY <1>1
    <3>2. t[k] = s[k + 1] /\ t[k + 1] = s[(k + 1) + 1]
      BY <1>1, <3>1
    <3> QED  BY <1>2, <3>1, <3>2
  <2>5. Framed(t, IF IsLast(s[1]) THEN 1 ELSE n + 1)
    BY <1>2, <1>4, <2>2, <2>3, <2>4 DEF Framed
  <2>6. \A k \in 1..Len(t) : k + 1 \in 1..Len(s) /\ t[k] = s[k + 1]
    BY <1>1
  <2> QED  BY <1>1, <1>2, <1>4, <2>3, <2>5, <2>6 DEF t
<1> QED  BY <1>3, <1>4

-----------------------------------------------------------------------------
(* The filter.                                                             *)

\* One byte, wherever a read ends: the state machine is at its place, and does
\* with it what it was meant for.
LEMMA ByteIsHeeded ==
    ASSUME IInv, Byte, NEW x \in OnWire, x = Head(line)
    PROVE  \/ /\ IsLast(x) /\ iacState' = 0
              /\ clean' = clean \o x.of.text
              /\ down' = down \o FromServer(x.of.answer)
           \/ /\ ~IsLast(x) /\ iacState' = iacState + 1
              /\ iacState' = 2 => iacCmd' = x.of.bytes[2]
              /\ clean' = clean /\ down' = down
<1> DEFINE b == x.byte
<1>1. /\ line # <<>> /\ line \in Seq(OnWire) /\ Framed(line, iacState + 1)
      /\ iacState \in 0..2
  <2>1. avail \in Nat /\ avail > 0 /\ avail <= Len(line)
    BY DEF Byte, NextByte, IInv, ServerOK
  <2>2. line # <<>>
    BY <2>1, EmptySeq
  <2> QED  BY <2>2 DEF IInv, ServerOK
<1>2. x = line[1] /\ x.at = iacState + 1
  BY <1>1, TakeFramed
<1>3. x.of \in Meant /\ x.at <= Len(x.of.bytes) /\ b = x.of.bytes[x.at]
  BY DEF OnWire
<1>4. Normal(b) \/ CommandByte(b) \/ OptionByte(b)
  BY DEF Byte
<1>5. /\ clean \o <<>> = clean /\ down \o FromServer(<<>>) = down
      /\ \A c \in Data \cup {IAC} : clean \o <<c>> = Append(clean, c)
  <2>1. clean \in Seq(Data \cup {IAC}) /\ down \in Seq([byte : Bytes, device : BOOLEAN])
    BY DEF IInv, ServerOK, ClientOK
  <2>2. FromServer(<<>>) = <<>>
    BY DEF FromServer
  <2>3. \A c \in Data \cup {IAC} : clean \o <<c>> = Append(clean, c)
    BY <2>1
  <2> QED  BY <2>1, <2>2, <2>3, ConcatEmptySeq
<1>6. \/ \E c \in Data : IsData(x.of, c)
      \/ IsEscape(x.of)
      \/ IsCommand(x.of)
      \/ \E v \in Verbs, o \in Bytes : IsNegotiation(x.of, v, o)
  BY <1>3, Kinds
<1> HIDE DEF b
<1>7. CASE iacState = 0
  <2>1. Normal(b) /\ x.at = 1
    BY <1>2, <1>4, <1>7 DEF CommandByte, OptionByte
  <2>2. ASSUME NEW c \in Data, IsData(x.of, c)
        PROVE  IsLast(x) /\ b = c /\ b # IAC /\ x.of.text = <<c>> /\ x.of.answer = <<>>
    BY <1>3, <2>1, <2>2, Marks DEF IsLast, IsData
  <2>3. CASE IsEscape(x.of) \/ IsCommand(x.of)
             \/ \E v \in Verbs, o \in Bytes : IsNegotiation(x.of, v, o)
    <3>1. ~IsLast(x) /\ b = IAC
      BY <1>3, <2>1, <2>3 DEF IsLast, IsEscape, IsCommand, IsNegotiation
    <3> QED  BY <1>5, <1>7, <2>1, <3>1 DEF Normal
  <2>4. ASSUME NEW c \in Data, IsData(x.of, c)
        PROVE  /\ clean' = clean \o <<c>> /\ down' = down /\ iacState' = 0
    BY <1>5, <2>1, <2>2, <2>4 DEF Normal
  <2> QED  BY <1>5, <1>6, <2>2, <2>3, <2>4
<1>8. CASE iacState = 1
  <2>1. CommandByte(b) /\ x.at = 2
    BY <1>2, <1>4, <1>8 DEF Normal, OptionByte
  <2>2. CASE IsEscape(x.of)
    <3>1. /\ IsLast(x) /\ b = IAC
          /\ x.of.text = <<IAC>> /\ x.of.answer = <<>>
      BY <1>3, <2>1, <2>2 DEF IsLast, IsEscape
    <3>2. /\ clean' = clean \o <<IAC>> /\ down' = down /\ iacState' = 0
      BY <1>5, <2>1, <3>1, Marks DEF CommandByte
    <3> QED  BY <1>5, <3>1, <3>2
  <2>3. CASE IsCommand(x.of)
    <3>1. /\ IsLast(x) /\ b = "NOP"
          /\ x.of.text = <<>> /\ x.of.answer = <<>>
      BY <1>3, <2>1, <2>3 DEF IsLast, IsCommand
    <3>2. clean' = clean /\ down' = down /\ iacState' = 0
      BY <2>1, <3>1, Marks DEF CommandByte
    <3> QED  BY <1>5, <3>1, <3>2
  <2>4. CASE \E v \in Verbs, o \in Bytes : IsNegotiation(x.of, v, o)
    <3>1. ~IsLast(x) /\ b \in Verbs /\ b = x.of.bytes[2]
      BY <1>3, <2>1, <2>4 DEF IsLast, IsNegotiation
    <3>2. clean' = clean /\ down' = down /\ iacState' = 2 /\ iacCmd' = b
      BY <2>1, <3>1, Marks DEF CommandByte
    <3> QED  BY <1>5, <1>8, <3>1, <3>2
  <2>5. ~ \E c \in Data : IsData(x.of, c)
    BY <1>3, <2>1 DEF IsData
  <2> QED  BY <1>6, <2>2, <2>3, <2>4, <2>5
<1>9. CASE iacState = 2
  <2>1. OptionByte(b) /\ x.at = 3 /\ iacCmd = x.of.bytes[2]
    BY <1>2, <1>4, <1>9 DEF Normal, CommandByte, IInv, ServerOK
  <2>2. PICK v \in Verbs, o \in Bytes : IsNegotiation(x.of, v, o)
    BY <1>3, <1>6, <2>1 DEF IsData, IsEscape, IsCommand
  <2>3. /\ IsLast(x) /\ b = o /\ iacCmd = v
        /\ x.of.text = <<>> /\ x.of.answer = Reply(v, o)
    BY <1>3, <2>1, <2>2 DEF IsLast, IsNegotiation
  <2>4. clean' = clean /\ down' = down \o FromServer(Reply(v, o)) /\ iacState' = 0
    BY <2>1, <2>3 DEF OptionByte
  <2> QED  BY <1>5, <2>3, <2>4
<1> QED  BY <1>1, <1>7, <1>8, <1>9

-----------------------------------------------------------------------------
(* The invariant holds.                                                    *)

\* The server's own bytes are marked as no byte of the device.
LEMMA FromServerProperties ==
    ASSUME NEW S, NEW s \in Seq(S)
    PROVE  /\ FromServer(s) \in Seq([byte : S, device : BOOLEAN])
           /\ Len(FromServer(s)) = Len(s)
           /\ \A k \in 1..Len(s) :
                 FromServer(s)[k].byte = s[k] /\ ~FromServer(s)[k].device
<1>1. Len(s) \in Nat /\ \A k \in 1..Len(s) : s[k] \in S
  BY LenProperties, ElementOfSeq
<1> QED  BY <1>1 DEF FromServer

\* Whatever is replied is made of bytes.
LEMMA ReplyProperties ==
    ASSUME NEW v \in Verbs, NEW o \in Bytes
    PROVE  Reply(v, o) \in Seq(Bytes)
<1>1. IAC \in Bytes /\ "WONT" \in Bytes /\ "DONT" \in Bytes
  BY DEF Bytes, Verbs
<1>2. CASE v = "WILL"
  BY <1>1, <1>2 DEF Reply
<1>3. CASE v = "DO"
  BY <1>1, <1>3 DEF Reply
<1>4. CASE v # "WILL" /\ v # "DO"
  BY <1>4, EmptySeq DEF Reply
<1> QED  BY <1>2, <1>3, <1>4

\* The offers are commands of three bytes, one after the other.
LEMMA OffersProperties ==
    /\ InitOpts \in Seq(Bytes) /\ Len(Offers) \in Nat
    /\ Len(InitOpts) = 3 * Len(Offers)
    /\ \A k \in 1..Len(InitOpts) :
          \/ k % 3 = 1 /\ InitOpts[k] = IAC
          \/ k % 3 = 2 /\ InitOpts[k] \in Verbs
          \/ k % 3 = 0 /\ InitOpts[k] \in Options
<1>1. Offers \in Seq(Options) /\ Len(Offers) \in Nat
  BY FilterAssumption, LenProperties
<1>2. ASSUME NEW k \in 1..(3 * Len(Offers)), k % 3 # 1, k % 3 # 2
      PROVE  k % 3 = 0 /\ Offers[k \div 3] \in Options
  <2>1. k % 3 = 0 /\ k \div 3 \in 1..Len(Offers)
    BY <1>1, <1>2
  <2> QED  BY <1>1, <2>1, ElementOfSeq
<1>3. /\ "WILL" \in Verbs /\ Verbs \subseteq Bytes
      /\ Options \subseteq Bytes /\ IAC \in Bytes
  BY DEF Verbs, Bytes
<1>4. \A k \in 1..(3 * Len(Offers)) :
         /\ InitOpts[k] \in Bytes
         /\ \/ k % 3 = 1 /\ InitOpts[k] = IAC
            \/ k % 3 = 2 /\ InitOpts[k] \in Verbs
            \/ k % 3 = 0 /\ InitOpts[k] \in Options
  BY <1>2, <1>3 DEF InitOpts
<1>5. InitOpts = [k \in 1..(3 * Len(Offers)) |-> InitOpts[k]]
  BY DEF InitOpts
<1>6. 3 * Len(Offers) \in Nat
  BY <1>1
<1> HIDE DEF InitOpts
<1>7. InitOpts \in Seq(Bytes) /\ Len(InitOpts) = 3 * Len(Offers)
  BY <1>4, <1>5, <1>6
<1> QED  BY <1>1, <1>4, <1>7

\* At the start nothing is on its way to the server.
LEMMA InitEstablishes == Init => IInv
<1> SUFFICES ASSUME Init PROVE IInv
  OBVIOUS
<1>1. ServerOK
  BY FilterAssumption, EmptySeq DEF Init, ServerOK, Framed
<1>2. ClientOK
  BY OffersProperties, FromServerProperties DEF Init, ClientOK
<1> QED  BY <1>1, <1>2 DEF IInv

\* The server does not notice what is added to the line.
LEMMA LineGrows ==
    ASSUME ServerOK, NEW tok \in Meant,
           line' = line \o Wire(tok), UNCHANGED <<server, avail>>
    PROVE  ServerOK'
<1>1. /\ line' \in Seq(OnWire) /\ Len(line') >= Len(line)
      /\ Framed(line', iacState + 1)
      /\ line # <<>> => line'[1] = line[1]
  BY SendFramed DEF ServerOK
<1>2. iacState = 2 => line # <<>>
  BY DEF ServerOK, Framed
<1>3. Len(line) \in Nat /\ Len(line') \in Nat
  BY <1>1, LenProperties DEF ServerOK
<1> QED  BY <1>1, <1>2, <1>3 DEF ServerOK, server

\* A read of any length moves no byte and forgets no state.
LEMMA RecvKeeps == IInv /\ Recv => IInv'
<1> SUFFICES ASSUME IInv, Recv PROVE IInv'
  OBVIOUS
<1>1. ServerOK'
  BY FilterAssumption, EmptySeq DEF IInv, Recv, ServerOK
<1>2. ClientOK'
  BY DEF IInv, Recv, ClientOK, client
<1> QED  BY <1>1, <1>2 DEF IInv

\* Each byte taken leaves the filter at the next one's place.
LEMMA ByteKeeps == IInv /\ Byte => IInv'
<1> SUFFICES ASSUME IInv, Byte PROVE IInv'
  OBVIOUS
<1>1. /\ avail \in Nat \ {0} /\ avail' = avail - 1 /\ line' = Tail(line)
      /\ line # <<>> /\ UNCHANGED client
  <2>1. /\ avail \in Nat \ {0} /\ avail' = avail - 1 /\ avail <= Len(line)
        /\ line' = Tail(line) /\ UNCHANGED client
    BY DEF IInv, ServerOK, Byte, NextByte
  <2>2. line # <<>>
    BY <2>1, EmptySeq
  <2> QED  BY <2>1, <2>2
<1>2. PICK x \in OnWire : x = Head(line) /\ x = line[1]
  BY <1>1, TakeFramed DEF IInv, ServerOK
<1>3. /\ Tail(line) \in Seq(OnWire) /\ Len(Tail(line)) = Len(line) - 1
      /\ Framed(Tail(line), IF IsLast(x) THEN 1 ELSE (iacState + 1) + 1)
      /\ ~IsLast(x) => Tail(line)[1].of = x.of
      /\ x.at = iacState + 1
  BY <1>1, <1>2, TakeFramed DEF IInv, ServerOK
<1>4. /\ x.of \in Meant /\ x.at \in 1..3 /\ x.at <= Len(x.of.bytes)
      /\ x.of.text \in Seq(Data \cup {IAC}) /\ Len(x.of.text) <= 1
      /\ FromServer(x.of.answer) \in Seq([byte : Bytes, device : BOOLEAN])
  <2>1. x.of \in Meant /\ x.at \in 1..3 /\ x.at <= Len(x.of.bytes)
    BY DEF OnWire
  <2>2. \/ \E b \in Data \cup {IAC} : x.of.text = <<b>>
        \/ x.of.text = <<>>
    BY <2>1, Kinds DEF IsData, IsEscape, IsCommand, IsNegotiation
  <2>3. x.of.answer \in Seq(Bytes)
    <3>1. \/ x.of.answer = <<>>
          \/ \E v \in Verbs, o \in Bytes : x.of.answer = Reply(v, o)
      BY <2>1, Kinds DEF IsData, IsEscape, IsCommand, IsNegotiation
    <3> QED  BY <3>1, ReplyProperties, EmptySeq
  <2>4. x.of.text \in Seq(Data \cup {IAC}) /\ Len(x.of.text) <= 1
    <3>1. ASSUME NEW b \in Data \cup {IAC}, x.of.text = <<b>>
          PROVE  x.of.text \in Seq(Data \cup {IAC}) /\ Len(x.of.text) <= 1
      <4>1. <<b>> \in Seq(Data \cup {IAC}) /\ Len(<<b>>) = 1
        OBVIOUS
      <4> QED  BY <3>1, <4>1
    <3>2. CASE x.of.text = <<>>
      BY <3>2, EmptySeq
    <3> QED  BY <2>2, <3>1, <3>2
  <2> QED  BY <2>1, <2>3, <2>4, FromServerProperties
<1>5. clean \in Seq(Data \cup {IAC}) /\ down \in Seq([byte : Bytes, device : BOOLEAN])
  BY DEF IInv, ServerOK, ClientOK
<1>6. /\ clean' \in Seq(Data \cup {IAC}) /\ Len(clean') <= Len(clean) + 1
      /\ down' \in Seq([byte : Bytes, device : BOOLEAN])
  <2>1. CASE clean' = clean \o x.of.text /\ down' = down \o FromServer(x.of.answer)
    <3>1. /\ clean \o x.of.text \in Seq(Data \cup {IAC})
          /\ Len(clean \o x.of.text) = Len(clean) + Len(x.of.text)
          /\ down \o FromServer(x.of.answer) \in Seq([byte : Bytes, device : BOOLEAN])
      BY <1>4, <1>5, ConcatProperties
    <3>2. Len(clean) \in Nat /\ Len(x.of.text) \in Nat
      BY <1>4, <1>5, LenProperties
    <3> QED  BY <1>4, <2>1, <3>1, <3>2
  <2>2. CASE clean' = clean /\ down' = down
    <3>1. Len(clean) \in Nat
      BY <1>5, LenProperties
    <3> QED  BY <1>5, <2>2, <3>1
  <2> QED  BY <1>2, <2>1, <2>2, ByteIsHeeded
<1>7. /\ iacState' \in 0..2
      /\ Framed(line', iacState' + 1)
      /\ iacState' = 2 => iacCmd' = line'[1].of.bytes[2]
  <2>1. CASE IsLast(x) /\ iacState' = 0
    BY <1>1, <1>3, <2>1
  <2>2. CASE /\ ~IsLast(x) /\ iacState' = iacState + 1
             /\ iacState' = 2 => iacCmd' = x.of.bytes[2]
    <3>1. x.at \in 1..2
      <4>1. PICK n \in 1..3 : n = Len(x.of.bytes)
        BY <1>4, Lengths
      <4>2. x.at \in 1..3 /\ x.at <= n /\ x.at # n
        BY <1>4, <2>2, <4>1 DEF IsLast
      <4> QED  BY <4>2
    <3>2. iacState \in 0..2 /\ x.at = iacState + 1
      BY <1>3 DEF IInv, ServerOK
    <3>3. iacState + 1 \in 1..2
      BY <3>1, <3>2
    <3>4. iacState' \in 0..2 /\ Framed(line', iacState' + 1)
      BY <1>1, <1>3, <2>2, <3>3
    <3> QED  BY <1>1, <1>3, <2>2, <3>4
  <2> QED  BY <1>2, <2>1, <2>2, ByteIsHeeded
<1>8. ServerOK'
  <2>1. /\ avail' \in Nat /\ avail' = avail - 1 /\ avail <= Len(line)
        /\ Len(clean) + avail <= BufSize /\ avail \in Nat /\ Len(clean) \in Nat
        /\ Len(clean') \in Nat /\ Len(line) \in Nat
    BY <1>1, <1>5, <1>6, LenProperties DEF IInv, ServerOK
  <2>2. BufSize \in Nat
    BY FilterAssumption
  <2>3. Len(clean') + avail' <= BufSize /\ avail' <= Len(line')
    BY <1>1, <1>3, <1>6, <2>1, <2>2
  <2>4. line' \in Seq(OnWire)
    BY <1>1, <1>3
  <2> QED  BY <1>6, <1>7, <2>1, <2>3, <2>4 DEF ServerOK
<1>9. ClientOK'
  BY <1>1, <1>6 DEF IInv, ClientOK, client
<1> QED  BY <1>8, <1>9 DEF IInv

\* The device's bytes go the other way.
LEMMA BroadcastKeeps == IInv /\ Broadcast => IInv'
<1> SUFFICES ASSUME IInv, Broadcast PROVE IInv'
  OBVIOUS
<1>1. ServerOK'
  BY DEF IInv, Broadcast, ServerOK, server
<1>2. PICK b \in DeviceBytes : down' = Append(down, [byte |-> b, device |-> TRUE])
  BY DEF Broadcast
<1>3. [byte |-> b, device |-> TRUE] \in [byte : Bytes, device : BOOLEAN]
  BY DEF Bytes
<1>4. down' \in Seq([byte : Bytes, device : BOOLEAN])
  BY <1>2, <1>3, AppendProperties DEF IInv, ClientOK
<1>5. ClientOK'
  BY <1>4 DEF IInv, Broadcast, ClientOK, client
<1> QED  BY <1>1, <1>5 DEF IInv

\* What the user types, or asks for, comes whole and last.
LEMMA UserKeeps == IInv /\ (Type \/ Ask) => IInv'
<1> SUFFICES ASSUME IInv, Type \/ Ask PROVE IInv'
  OBVIOUS
<1>1. PICK tok \in Meant : line' = line \o Wire(tok)
  BY DEF Type, Ask, Meant, Bytes
<1>2. ServerOK'
  BY <1>1, LineGrows DEF IInv, Type, Ask
<1>3. ClientOK'
  BY DEF IInv, Type, Ask, ClientOK, client
<1> QED  BY <1>2, <1>3 DEF IInv

\* What a client says to an offer or a refusal is meant.
LEMMA HeedProperties ==
    ASSUME NEW o \in Bytes, verb \in Verbs, Heed(o)
    PROVE  /\ clientState' = 0
           /\ \/ line' = line
              \/ \E v \in Verbs : line' = line \o Wire(Negotiate(v, o))
<1>1. PICK a \in Answers(verb, o) :
         /\ line' = IF a = <<>> THEN line ELSE line \o Wire(Negotiate(a[1], o))
         /\ clientState' = 0
  BY DEF Heed
<1>2. a = <<>> \/ \E v \in Verbs : a = <<v>>
  BY DEF Answers, Verbs
<1>3. CASE a = <<>>
  BY <1>1, <1>3
<1>4. ASSUME NEW v \in Verbs, a = <<v>>
      PROVE  line' = line \o Wire(Negotiate(v, o))
  <2>1. a # <<>> /\ a[1] = v
    BY <1>4
  <2> QED  BY <1>1, <2>1
<1> QED  BY <1>1, <1>2, <1>3, <1>4

\* So does what the client answers.
LEMMA ClientReadsKeeps == IInv /\ ClientReads => IInv'
<1> SUFFICES ASSUME IInv, ClientReads PROVE IInv'
  OBVIOUS
<1>1. /\ Head(down).byte \in Bytes
      /\ down' \in Seq([byte : Bytes, device : BOOLEAN])
  <2>1. down \in Seq([byte : Bytes, device : BOOLEAN]) /\ down # <<>>
        /\ down' = Tail(down)
    BY DEF ClientReads, IInv, ClientOK
  <2>2. /\ Head(down) \in [byte : Bytes, device : BOOLEAN]
        /\ Tail(down) \in Seq([byte : Bytes, device : BOOLEAN])
    BY <2>1, HeadTailProperties
  <2> QED  BY <2>1, <2>2
<1>2. CASE clientState \in 0..1
  <2>1. /\ clientState' \in 0..2 /\ UNCHANGED line
        /\ clientState' = 2 => verb' \in Verbs
    BY <1>2 DEF ClientReads
  <2>2. ServerOK'
    BY <2>1 DEF ClientReads, IInv, ServerOK, server
  <2> QED  BY <1>1, <2>1, <2>2 DEF IInv, ClientOK
<1>3. CASE clientState = 2
  <2>1. Heed(Head(down).byte) /\ UNCHANGED <<verb, server, avail>> /\ verb \in Verbs
    BY <1>3 DEF ClientReads, IInv, ClientOK
  <2>2. clientState' = 0 /\ \/ line' = line
                            \/ \E v \in Verbs :
                                  line' = line \o Wire(Negotiate(v, Head(down).byte))
    BY <1>1, <2>1, HeedProperties
  <2>3. \A v \in Verbs : Negotiate(v, Head(down).byte) \in Meant
    BY <1>1 DEF Meant
  <2>4. ServerOK'
    <3>1. CASE line' = line
      BY <2>1, <3>1 DEF IInv, ServerOK, server
    <3>2. CASE \E v \in Verbs : line' = line \o Wire(Negotiate(v, Head(down).byte))
      BY <2>1, <2>3, <3>2, LineGrows DEF IInv
    <3> QED  BY <2>2, <3>1, <3>2
  <2> QED  BY <1>1, <2>2, <2>4 DEF IInv, ClientOK
<1> QED  BY <1>2, <1>3 DEF IInv, ClientOK

\* The invariant is inductive.
LEMMA NextKeeps == IInv /\ [Next]_fvars => IInv'
<1> SUFFICES ASSUME IInv, [Next]_fvars PROVE IInv'
  OBVIOUS
<1>1. CASE UNCHANGED fvars
  <2>1. ServerOK'
    BY <1>1 DEF IInv, ServerOK, fvars, server
  <2>2. ClientOK'
    BY <1>1 DEF IInv, ClientOK, fvars, client
  <2> QED  BY <2>1, <2>2 DEF IInv
<1> QED  BY <1>1, RecvKeeps, ByteKeeps, BroadcastKeeps, UserKeeps,
            ClientReadsKeeps DEF Next

\* It holds in every state.
LEMMA Invariance == Spec => []IInv
BY InitEstablishes, NextKeeps, PTL DEF Spec

-----------------------------------------------------------------------------
(* What the client gets, when no byte of the device is an IAC.             *)

\* Down is a sequence of these.
Sent == [byte : Bytes, device : BOOLEAN]

\* To read a byte goes one step, and the rest is still what gets the client
\* back to state 0.
LEMMA ParsedTail ==
    ASSUME NEW s \in Seq(Sent), s # <<>>, NEW p, Parsed(s, p)
    PROVE  \E q \in 0..2 : Step(p, s[1], q) /\ Parsed(Tail(s), q)
<1>1. /\ Len(s) \in Nat \ {0}
      /\ Tail(s) \in Seq(Sent) /\ Len(Tail(s)) = Len(s) - 1
      /\ \A k \in 1..Len(Tail(s)) : Tail(s)[k] = s[k + 1]
  BY LenProperties, EmptySeq, HeadTailProperties
<1>2. PICK states \in [1..(Len(s) + 1) -> 0..2] :
         /\ states[1] = p /\ states[Len(s) + 1] = 0
         /\ \A k \in 1..Len(s) : Step(states[k], s[k], states[k + 1])
  BY DEF Parsed
<1> DEFINE t == Tail(s)
           rest == [k \in 1..(Len(t) + 1) |-> states[k + 1]]
<1> HIDE DEF t
<1>3. /\ rest \in [1..(Len(t) + 1) -> 0..2]
      /\ rest[1] = states[2] /\ rest[Len(t) + 1] = 0
  BY <1>1, <1>2 DEF t
<1>4. ASSUME NEW k \in 1..Len(t)
      PROVE  Step(rest[k], t[k], rest[k + 1])
  <2>1. k + 1 \in 1..Len(s) /\ k \in 1..(Len(t) + 1) /\ k + 1 \in 1..(Len(t) + 1)
    BY <1>1 DEF t
  <2>2. /\ rest[k] = states[k + 1] /\ rest[k + 1] = states[(k + 1) + 1]
        /\ t[k] = s[k + 1]
    BY <1>1, <2>1 DEF t
  <2> QED  BY <1>2, <2>1, <2>2
<1> HIDE DEF rest
<1>5. Parsed(t, states[2])
  BY <1>3, <1>4 DEF Parsed
<1>6. states[2] \in 0..2 /\ Step(p, s[1], states[2])
  BY <1>1, <1>2
<1> QED  BY <1>5, <1>6 DEF t

\* What begins and ends in state 0 may follow.
LEMMA ParsedConcat ==
    ASSUME NEW s \in Seq(Sent), NEW t \in Seq(Sent), NEW p,
           Parsed(s, p), Parsed(t, 0)
    PROVE  Parsed(s \o t, p)
<1>1. /\ Len(s) \in Nat /\ Len(t) \in Nat
      /\ Len(s \o t) = Len(s) + Len(t)
      /\ \A k \in 1..Len(s) : (s \o t)[k] = s[k]
      /\ \A k \in 1..Len(t) : (s \o t)[Len(s) + k] = t[k]
  BY LenProperties, ConcatProperties
<1>2. PICK before \in [1..(Len(s) + 1) -> 0..2] :
         /\ before[1] = p /\ before[Len(s) + 1] = 0
         /\ \A k \in 1..Len(s) : Step(before[k], s[k], before[k + 1])
  BY DEF Parsed
<1>3. PICK after \in [1..(Len(t) + 1) -> 0..2] :
         /\ after[1] = 0 /\ after[Len(t) + 1] = 0
         /\ \A k \in 1..Len(t) : Step(after[k], t[k], after[k + 1])
  BY DEF Parsed
<1> DEFINE u == s \o t
           m == Len(s)
           states == [k \in 1..(Len(u) + 1) |->
                        IF k <= m + 1 THEN before[k] ELSE after[k - m]]
<1> HIDE DEF u, m
<1>4. m \in Nat /\ Len(t) \in Nat /\ Len(u) = m + Len(t)
  BY <1>1 DEF u, m
<1>5. /\ before \in [1..(m + 1) -> 0..2] /\ before[1] = p /\ before[m + 1] = 0
      /\ \A k \in 1..m : u[k] = s[k] /\ Step(before[k], u[k], before[k + 1])
  BY <1>1, <1>2 DEF u, m
<1>6. ASSUME NEW k \in 1..(Len(u) + 1), k >= m + 1
      PROVE  states[k] = after[k - m] /\ k - m \in 1..(Len(t) + 1)
  <2>1. k - m \in 1..(Len(t) + 1)
    BY <1>4, <1>6
  <2>2. CASE k = m + 1
    <3>1. k - m = 1
      BY <1>4, <2>2
    <3> QED  BY <1>3, <1>5, <2>1, <2>2, <3>1
  <2>3. CASE k # m + 1
    BY <1>4, <1>6, <2>1, <2>3
  <2> QED  BY <2>2, <2>3
<1>7. ASSUME NEW k \in 1..(Len(u) + 1), k <= m + 1
      PROVE  states[k] = before[k] /\ k \in 1..(m + 1)
  BY <1>4, <1>7
<1>8. states \in [1..(Len(u) + 1) -> 0..2]
  <2>1. ASSUME NEW k \in 1..(Len(u) + 1)
        PROVE  (IF k <= m + 1 THEN before[k] ELSE after[k - m]) \in 0..2
    <3>1. CASE k <= m + 1
      BY <1>4, <1>5, <3>1
    <3>2. CASE ~(k <= m + 1)
      <4>1. k - m \in 1..(Len(t) + 1)
        BY <1>4, <3>2
      <4> QED  BY <1>3, <3>2, <4>1
    <3> QED  BY <3>1, <3>2
  <2> QED  BY <2>1
<1> HIDE DEF states
<1>9. states[1] = p /\ states[Len(u) + 1] = 0
  <2>1. /\ 1 \in 1..(Len(u) + 1) /\ 1 <= m + 1
        /\ Len(u) + 1 \in 1..(Len(u) + 1) /\ Len(u) + 1 >= m + 1
        /\ (Len(u) + 1) - m = Len(t) + 1
    BY <1>4
  <2>2. states[1] = before[1] /\ states[Len(u) + 1] = after[(Len(u) + 1) - m]
    BY <1>6, <1>7, <2>1
  <2> QED  BY <1>3, <1>5, <2>1, <2>2
<1>10. ASSUME NEW k \in 1..Len(u)
       PROVE  Step(states[k], u[k], states[k + 1])
  <2>1. CASE k <= m
    <3>1. /\ k \in 1..m /\ k \in 1..(Len(u) + 1) /\ k <= m + 1
          /\ k + 1 \in 1..(Len(u) + 1) /\ k + 1 <= m + 1
      BY <1>4, <2>1
    <3>2. states[k] = before[k] /\ states[k + 1] = before[k + 1]
      BY <1>7, <3>1
    <3> QED  BY <1>5, <3>1, <3>2
  <2>2. CASE k > m
    <3>1. /\ k - m \in 1..Len(t) /\ k \in 1..(Len(u) + 1) /\ k >= m + 1
          /\ k + 1 \in 1..(Len(u) + 1) /\ k + 1 >= m + 1
          /\ (k + 1) - m = (k - m) + 1 /\ m + (k - m) = k
      BY <1>4, <2>2
    <3>2. states[k] = after[k - m] /\ states[k + 1] = after[(k - m) + 1]
      BY <1>6, <3>1
    <3>3. u[k] = t[k - m]
      BY <1>1, <3>1 DEF u, m
    <3> QED  BY <1>3, <3>1, <3>2, <3>3
  <2> QED  BY <1>4, <2>1, <2>2
<1> QED  BY <1>8, <1>9, <1>10 DEF Parsed, u

\* The offers, a refusal and a byte of the device each begin and end in
\* state 0.
LEMMA ParsedOffers == Parsed(FromServer(InitOpts), 0)
<1> DEFINE s == FromServer(InitOpts)
           states == [k \in 1..(Len(s) + 1) |-> (k - 1) % 3]
<1>1. /\ Len(Offers) \in Nat /\ Len(s) = 3 * Len(Offers)
      /\ \A k \in 1..Len(s) :
            /\ ~s[k].device
            /\ \/ k % 3 = 1 /\ s[k].byte = IAC
               \/ k % 3 = 2 /\ s[k].byte \in Verbs
               \/ k % 3 = 0 /\ s[k].byte \in Options
  BY OffersProperties, FromServerProperties
<1> HIDE DEF s
<1>2. /\ states \in [1..(Len(s) + 1) -> 0..2]
      /\ states[1] = 0 /\ states[Len(s) + 1] = 0
  <2>1. (3 * Len(Offers)) % 3 = 0
    BY <1>1
  <2>2. Len(s) \in Nat /\ (Len(s) + 1) - 1 = Len(s) /\ Len(s) % 3 = 0
    BY <1>1, <2>1
  <2>3. \A k \in 1..(Len(s) + 1) : (k - 1) % 3 \in 0..2
    BY <2>2
  <2> QED  BY <2>2, <2>3
<1>3. ASSUME NEW k \in 1..Len(s)
      PROVE  Step(states[k], s[k], states[k + 1])
  <2>1. states[k] = (k - 1) % 3 /\ states[k + 1] = k % 3
    BY <1>1
  <2>2. CASE k % 3 = 1 /\ s[k].byte = IAC
    <3>1. (k - 1) % 3 = 0
      BY <2>2
    <3> QED  BY <1>1, <2>1, <2>2, <3>1 DEF Step
  <2>3. CASE k % 3 = 2 /\ s[k].byte \in Verbs
    <3>1. (k - 1) % 3 = 1
      BY <2>3
    <3> QED  BY <1>1, <2>1, <2>3, <3>1 DEF Step
  <2>4. CASE k % 3 = 0 /\ s[k].byte \in Options
    <3>1. (k - 1) % 3 = 2
      BY <2>4
    <3> QED  BY <1>1, <2>1, <2>4, <3>1 DEF Step
  <2> QED  BY <1>1, <2>2, <2>3, <2>4
<1> HIDE DEF states
<1> QED  BY <1>2, <1>3 DEF Parsed, s

\* So is an answer,
LEMMA ParsedReply ==
    ASSUME NEW v \in Verbs, NEW o \in Options
    PROVE  Parsed(FromServer(Reply(v, o)), 0)
<1>1. "WONT" \in Verbs /\ "DONT" \in Verbs
  BY DEF Verbs
<1>2. ASSUME NEW w \in Verbs
      PROVE  Parsed(FromServer(<<IAC, w, o>>), 0)
  <2> DEFINE s == FromServer(<<IAC, w, o>>)
             states == [k \in 1..4 |-> (k - 1) % 3]
  <2>1. /\ Len(s) = 3
        /\ \A k \in 1..3 : ~s[k].device
        /\ s[1].byte = IAC /\ s[2].byte = w /\ s[3].byte = o
    BY DEF FromServer
  <2>2. /\ states \in [1..4 -> 0..2]
        /\ states[1] = 0 /\ states[2] = 1 /\ states[3] = 2 /\ states[4] = 0
    OBVIOUS
  <2> HIDE DEF states, s
  <2>3. ASSUME NEW k \in 1..3 PROVE Step(states[k], s[k], states[k + 1])
    <3>1. CASE k = 1
      BY <2>1, <2>2, <3>1 DEF Step
    <3>2. CASE k = 2
      BY <2>1, <2>2, <3>2 DEF Step
    <3>3. CASE k = 3
      BY <2>1, <2>2, <3>3 DEF Step
    <3> QED  BY <3>1, <3>2, <3>3
  <2>4. Len(s) + 1 = 4
    BY <2>1
  <2>5. Parsed(s, 0)
    BY <2>1, <2>2, <2>3, <2>4 DEF Parsed
  <2> QED  BY <2>5 DEF s
<1>3. Parsed(FromServer(<<>>), 0)
  <2> DEFINE s == FromServer(<<>>)
  <2>1. Len(s) = 0 /\ Len(s) + 1 = 1
    BY DEF FromServer
  <2> DEFINE states == [k \in 1..1 |-> 0]
  <2>2. states \in [1..1 -> 0..2] /\ states[1] = 0
    OBVIOUS
  <2> HIDE DEF states, s
  <2>3. Parsed(s, 0)
    BY <2>1, <2>2 DEF Parsed
  <2> QED  BY <2>3 DEF s
<1>4. \/ Reply(v, o) = <<IAC, "DONT", o>>
      \/ Reply(v, o) = <<IAC, "WONT", o>>
      \/ Reply(v, o) = <<>>
  BY DEF Reply
<1> QED  BY <1>1, <1>2, <1>3, <1>4

\* and so is a byte of the device that is not taken for the start of one.
LEMMA ParsedByte ==
    ASSUME NEW b \in DeviceBytes
    PROVE  Parsed(<<[byte |-> b, device |-> TRUE]>>, 0)
<1> DEFINE s == <<[byte |-> b, device |-> TRUE]>>
           states == [k \in 1..2 |-> 0]
<1>1. Len(s) = 1 /\ s[1].byte = b /\ s[1].device = TRUE
  OBVIOUS
<1>2. states \in [1..2 -> 0..2] /\ states[1] = 0 /\ states[2] = 0
  OBVIOUS
<1> HIDE DEF states, s
<1> QED  BY <1>1, <1>2 DEF Parsed, Step, s

\* The offers are all there is at the start.
LEMMA InitShows == Init => ShownOK
BY ParsedOffers, EmptySeq DEF Init, ShownOK

\* What is added to the line comes after what it holds.
LEMMA LineStaysToken ==
    ASSUME IInv, NEW tok \in Tokens,
           \A k \in 1..Len(line) : line[k].of \in Tokens,
           line' = line \o Wire(tok)
    PROVE  \A k \in 1..Len(line') : line'[k].of \in Tokens
<1>1. tok \in Meant
  BY DEF Tokens, Meant, Bytes
<1> QED  BY <1>1, SendFramed DEF IInv, ServerOK

\* Only a negotiation is owed an answer.
LEMMA TokenAnswers ==
    ASSUME NEW tok \in Tokens
    PROVE  \/ tok.answer = <<>>
           \/ \E v \in Verbs, o \in Options : tok.answer = Reply(v, o)
<1>1. CASE tok \in Typed
  BY <1>1 DEF Typed, Text, Command
<1>2. ASSUME NEW v \in Verbs, NEW o \in Options, tok = Negotiate(v, o)
      PROVE  tok.answer = Reply(v, o)
  BY <1>2 DEF Negotiate, Reply
<1> QED  BY <1>1, <1>2 DEF Tokens

\* The server adds whole refusals to what the client gets.
LEMMA ServerShows ==
    ASSUME IInv, ShownOK, Recv \/ Byte
    PROVE  ShownOK'
<1>1. CASE Recv
  BY <1>1 DEF Recv, ShownOK, client
<1>2. CASE Byte
  <2>1. /\ line # <<>> /\ line' = Tail(line) /\ UNCHANGED client
        /\ line \in Seq(OnWire) /\ Framed(line, iacState + 1)
        /\ down \in Seq(Sent)
    <3>1. avail \in Nat \ {0} /\ avail <= Len(line)
      BY <1>2 DEF Byte, NextByte, IInv, ServerOK
    <3>2. line # <<>>
      BY <3>1, EmptySeq
    <3> QED  BY <1>2, <3>2 DEF Byte, NextByte, IInv, ServerOK, ClientOK, Sent
  <2>2. PICK x \in OnWire : x = Head(line) /\ x = line[1]
    BY <2>1, TakeFramed
  <2>3. /\ 1 \in 1..Len(line)
        /\ \A k \in 1..Len(line') : k + 1 \in 1..Len(line) /\ line'[k] = line[k + 1]
    <3>1. Len(line) \in Nat \ {0}
      BY <2>1, EmptySeq, LenProperties
    <3> QED  BY <2>1, <3>1, TakeFramed
  <2>4. /\ x.of \in Tokens
        /\ \A k \in 1..Len(line') : line'[k].of \in Tokens
    BY <2>2, <2>3 DEF ShownOK
  <2>5. CASE down' = down
    BY <2>1, <2>4, <2>5 DEF ShownOK, client
  <2>6. CASE down' = down \o FromServer(x.of.answer)
    <3>1. CASE x.of.answer = <<>>
      <4>1. down \o FromServer(<<>>) = down
        BY <2>1, ConcatEmptySeq DEF FromServer
      <4> QED  BY <2>5, <2>6, <3>1, <4>1
    <3>2. ASSUME NEW v \in Verbs, NEW o \in Options, x.of.answer = Reply(v, o)
          PROVE  ShownOK'
      <4>1. Parsed(FromServer(Reply(v, o)), 0)
        BY ParsedReply
      <4>2. FromServer(Reply(v, o)) \in Seq(Sent)
        BY ReplyProperties, FromServerProperties DEF Sent, Bytes
      <4>3. Parsed(down', clientState)
        BY <2>1, <2>6, <3>2, <4>1, <4>2, ParsedConcat DEF ShownOK
      <4> QED  BY <2>1, <2>4, <4>3 DEF ShownOK, client
    <3> QED  BY <2>4, <3>1, <3>2, TokenAnswers
  <2> QED  BY <1>2, <2>2, <2>5, <2>6, ByteIsHeeded
<1> QED  BY <1>1, <1>2

\* The device's byte comes after all the server's commands.
LEMMA DeviceShows ==
    ASSUME IInv, ShownOK, Broadcast
    PROVE  ShownOK'
<1>1. PICK b \in DeviceBytes : down' = Append(down, [byte |-> b, device |-> TRUE])
  BY DEF Broadcast
<1>2. [byte |-> b, device |-> TRUE] \in Sent /\ down \in Seq(Sent)
  BY DEF Sent, Bytes, IInv, ClientOK
<1>3. /\ <<[byte |-> b, device |-> TRUE]>> \in Seq(Sent)
      /\ down' = down \o <<[byte |-> b, device |-> TRUE]>>
  <2>1. ASSUME NEW x \in Sent
        PROVE  <<x>> \in Seq(Sent) /\ Append(down, x) = down \o <<x>>
    BY <1>2
  <2> QED  BY <1>1, <1>2, <2>1
<1>4. Parsed(down', clientState)
  BY <1>2, <1>3, ParsedByte, ParsedConcat DEF ShownOK
<1> QED  BY <1>4 DEF Broadcast, ShownOK, client

\* The client reads what gets it back to state 0, and asks for options only.
LEMMA ClientShows ==
    ASSUME IAC \notin DeviceBytes, IInv, ShownOK, Type \/ Ask \/ ClientReads
    PROVE  ShownOK'
<1>1. CASE Type \/ Ask
  <2>1. PICK tok \in Tokens : line' = line \o Wire(tok)
    BY <1>1 DEF Type, Ask, Tokens
  <2>2. \A k \in 1..Len(line') : line'[k].of \in Tokens
    BY <2>1, LineStaysToken DEF ShownOK
  <2> QED  BY <1>1, <2>2 DEF Type, Ask, ShownOK, client
<1>2. CASE ClientReads
  <2>1. /\ down \in Seq(Sent) /\ down # <<>> /\ down' = Tail(down)
        /\ Head(down) = down[1]
    <3>1. down \in Seq(Sent) /\ down # <<>> /\ down' = Tail(down)
      BY <1>2 DEF ClientReads, IInv, ClientOK, Sent
    <3> QED  BY <3>1, HeadTailProperties
  <2>2. PICK q \in 0..2 : Step(clientState, down[1], q) /\ Parsed(down', q)
    BY <2>1, ParsedTail DEF ShownOK
  <2> DEFINE b == Head(down).byte
  <2>3. clientState \in 0..2
    BY DEF IInv, ClientOK
  <2>4. CASE clientState \in 0..1
    <3>1. clientState' = q /\ UNCHANGED line
      BY <1>2, <2>1, <2>2, <2>4, Marks DEF ClientReads, Step
    <3> QED  BY <2>2, <3>1 DEF ShownOK
  <2>5. CASE clientState = 2
    <3>1. q = 0 /\ b \in Options /\ b \in Bytes
      BY <2>1, <2>2, <2>5 DEF Step, Bytes
    <3>2. Heed(b) /\ verb \in Verbs
      BY <1>2, <2>5 DEF ClientReads, IInv, ClientOK
    <3> HIDE DEF b
    <3>3. clientState' = 0 /\ \/ line' = line
                              \/ \E v \in Verbs : line' = line \o Wire(Negotiate(v, b))
      BY <3>1, <3>2, HeedProperties
    <3>4. \A v \in Verbs : Negotiate(v, b) \in Tokens
      BY <3>1 DEF Tokens
    <3>5. \A k \in 1..Len(line') : line'[k].of \in Tokens
      BY <3>3, <3>4, LineStaysToken DEF ShownOK
    <3> QED  BY <2>2, <3>1, <3>3, <3>5 DEF ShownOK
  <2> QED  BY <2>3, <2>4, <2>5
<1> QED  BY <1>1, <1>2

\* So of such a device the client is always shown everything.
LEMMA AlwaysShows == IAC \notin DeviceBytes => (Spec => [](IInv /\ ShownOK))
<1> SUFFICES ASSUME IAC \notin DeviceBytes
             PROVE  Spec => [](IInv /\ ShownOK)
  OBVIOUS
<1>1. Init => IInv /\ ShownOK
  BY InitEstablishes, InitShows
<1>2. IInv /\ ShownOK /\ [Next]_fvars => (IInv /\ ShownOK)'
  <2> SUFFICES ASSUME IInv, ShownOK, [Next]_fvars PROVE IInv' /\ ShownOK'
    OBVIOUS
  <2>1. ASSUME UNCHANGED fvars PROVE ShownOK'
    BY <2>1 DEF ShownOK, fvars, client
  <2>2. ShownOK'
    BY <2>1, ServerShows, DeviceShows, ClientShows DEF Next
  <2> QED  BY <2>2, NextKeeps
<1> QED  BY <1>1, <1>2, PTL DEF Spec

-----------------------------------------------------------------------------
(* What follows for the connection.                                        *)

\* Between two reads the filter keeps what it needs to go on at the byte where
\* the client was, wherever recv cut the stream.
THEOREM FilterIsAlwaysInStep == Spec => []ServerInStep
<1>1. IInv => ServerInStep
  BY EmptySeq DEF IInv, ServerOK, ServerInStep, Framed
<1> QED  BY <1>1, Invariance, PTL

\* Whatever the client sends and however it is read, each byte adds to what is
\* passed on just the text that was meant, and to what is sent back just the
\* refusal that is owed.
THEOREM FilterIsAlwaysExact == Spec => FilterIsExact
<1> DEFINE x == Head(line)
           Exact ==
             /\ clean' = clean \o (IF IsLast(x) THEN x.of.text ELSE <<>>)
             /\ down' = down \o FromServer(IF IsLast(x) THEN x.of.answer ELSE <<>>)
<1>1. IInv /\ [Next]_fvars => (avail' < avail => Exact)
  <2> SUFFICES ASSUME IInv, [Next]_fvars, avail' < avail PROVE Exact
    OBVIOUS
  <2>1. avail \in Nat
    BY DEF IInv, ServerOK
  <2>2. ~Recv
    BY <2>1 DEF Recv
  <2>3. avail' # avail
    BY <2>1
  <2>4. Byte
    BY <2>2, <2>3 DEF Next, Broadcast, Type, Ask, ClientReads, fvars
  <2>5. x \in OnWire
    <3>1. line \in Seq(OnWire) /\ avail > 0 /\ avail <= Len(line)
      BY <2>4 DEF IInv, ServerOK, Byte, NextByte
    <3>2. line # <<>>
      BY <2>1, <3>1, EmptySeq
    <3> QED  BY <3>1, <3>2, HeadTailProperties
  <2>6. clean \o <<>> = clean /\ down \o FromServer(<<>>) = down
    <3>1. clean \in Seq(Data \cup {IAC}) /\ down \in Seq(Sent)
      BY DEF IInv, ServerOK, ClientOK, Sent
    <3> QED  BY <3>1, ConcatEmptySeq DEF FromServer
  <2> HIDE DEF x
  <2>7. \/ /\ IsLast(x)
           /\ clean' = clean \o x.of.text
           /\ down' = down \o FromServer(x.of.answer)
        \/ ~IsLast(x) /\ clean' = clean /\ down' = down
    BY <2>4, <2>5, ByteIsHeeded DEF x
  <2> QED  BY <2>6, <2>7
<1> QED  BY <1>1, Invariance, PTL DEF Spec, FilterIsExact

\* When no byte of the device is an IAC, neither end ever takes a byte for part
\* of a command that the other end did not mean as one.
THEOREM EndsAreAlwaysInStep == IAC \notin DeviceBytes => (Spec => []InStep)
<1>1. IInv /\ ShownOK => InStep
  <2> SUFFICES ASSUME IInv, ShownOK PROVE InStep
    OBVIOUS
  <2>1. TypeOK
    <3>1. Len(clean) \in Nat /\ avail \in Nat /\ BufSize \in Nat
      BY FilterAssumption, LenProperties DEF IInv, ServerOK
    <3> QED  BY <3>1 DEF IInv, ServerOK, ClientOK, ShownOK, TypeOK
  <2>2. ServerInStep
    BY EmptySeq DEF IInv, ServerOK, ServerInStep, Framed
  <2>3. DeviceIsShown
    <3> SUFFICES ASSUME down # <<>>, Head(down).device PROVE clientState = 0
      BY DEF DeviceIsShown
    <3>1. down \in Seq(Sent) /\ Head(down) = down[1]
      BY HeadTailProperties DEF IInv, ClientOK, Sent
    <3> QED  BY <3>1, ParsedTail DEF ShownOK, Step
  <2> QED  BY <2>1, <2>2, <2>3 DEF InStep
<1> QED  BY <1>1, AlwaysShows, PTL
=============================================================================
