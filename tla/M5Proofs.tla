------------------------------ MODULE M5Proofs ------------------------------
(***************************************************************************)
(* The M5 Stack program, for any number of clients, of slots and of log    *)
(* files, and any sizes.                                                   *)
(*   Its telnet server: every open connection waits or has one slot.       *)
(*   Its storage, on a card that comes and goes: the files are bounded,    *)
(* the log is in order around the ring that init finds its place in again, *)
(* and what is removed is older than what stays, until a file that was to  *)
(* be read or removed was not; and an ejection always loses little.        *)
(***************************************************************************)
EXTENDS M5Main, M5Storage, SequenceTheorems, FiniteSetTheorems,
        WellFoundedInduction, TLAPS

\* Min finds the least of some numbers.
LEMMA MinProperties ==
    ASSUME NEW S, S \subseteq Nat, S # {}
    PROVE  Min(S) \in S /\ \A y \in S : Min(S) <= y
<1>1. PICK x \in S : \A y \in S : <<y, x>> \notin OpToRel(<, Nat)
  BY NatLessThanWellFounded, WFMin
<1>2. ASSUME NEW y \in S PROVE x <= y
  <2>1. x \in Nat /\ y \in Nat /\ ~(y < x)
    BY <1>1 DEF OpToRel
  <2> QED  BY <2>1
<1> QED  BY <1>2 DEF Min

-----------------------------------------------------------------------------
(* The connections.                                                        *)

\* A connection waits once, and is not in a slot while it waits; the place in
\* the queue and the slots of one that has left or was stopped count too, for
\* it is only used again when all have forgotten it.
WaitsOnce ==
    /\ \A j, k \in 1..Len(backlog) : backlog[j] = backlog[k] => j = k
    /\ \A k \in 1..Len(backlog), i \in Slots : clients_[i] # backlog[k]

\* No two slots hold the same connection.
SlotsDiffer ==
    \A i, j \in Slots :
        clients_[i] = clients_[j] /\ clients_[i] # Nobody => i = j

\* None that is open is forgotten.
NoneIsForgotten ==
    \A c \in Clients : conn[c] = "open" =>
        \/ \E k \in 1..Len(backlog) : backlog[k] = c
        \/ \E i \in Slots : clients_[i] = c

IInv == TypeOK /\ WaitsOnce /\ SlotsDiffer /\ NoneIsForgotten

-----------------------------------------------------------------------------

\* One slot or none holds a connection.
LEMMA SlotsOf ==
    ASSUME SlotsDiffer, NEW c \in Clients
    PROVE  LET slots == {i \in Slots : clients_[i] = c}
           IN  Cardinality(slots) = IF \E i \in Slots : clients_[i] = c THEN 1 ELSE 0
<1> DEFINE slots == {i \in Slots : clients_[i] = c}
<1>1. CASE \E i \in Slots : clients_[i] = c
  <2>1. PICK i \in Slots : clients_[i] = c
    BY <1>1
  <2>2. slots = {i}
    BY <2>1, MainAssumption DEF SlotsDiffer, Nobody
  <2> QED  BY <1>1, <2>2, FS_Singleton
<1>2. CASE ~\E i \in Slots : clients_[i] = c
  <2>1. slots = {}
    BY <1>2
  <2> QED  BY <1>2, <2>1, FS_EmptySet
<1> QED  BY <1>1, <1>2

LEMMA Implied == IInv => OpenHaveTheirSlot
<1> SUFFICES ASSUME IInv, NEW c \in Clients, conn[c] = "open"
             PROVE  Cardinality({i \in Slots : clients_[i] = c})
                        = IF c \in Waiting THEN 0 ELSE 1
  BY DEF OpenHaveTheirSlot, IInv
<1>1. c \in Waiting <=> ~\E i \in Slots : clients_[i] = c
  BY DEF IInv, WaitsOnce, NoneIsForgotten, Waiting
<1> QED  BY <1>1, SlotsOf DEF IInv

-----------------------------------------------------------------------------
(* What each step does to the connections.                                 *)

\* The first of the queue is no more in it.
LEMMA Dequeued ==
    ASSUME IInv, backlog # <<>>
    PROVE  /\ Head(backlog) \in Clients /\ Tail(backlog) \in Seq(Clients)
           /\ \A k \in 1..Len(Tail(backlog)) :
                 /\ k + 1 \in 1..Len(backlog)
                 /\ Tail(backlog)[k] = backlog[k + 1]
                 /\ Tail(backlog)[k] # Head(backlog)
           /\ \A k \in 1..Len(backlog) :
                 \/ backlog[k] = Head(backlog)
                 \/ \E l \in 1..Len(Tail(backlog)) : Tail(backlog)[l] = backlog[k]
           /\ \A i \in Slots : clients_[i] # Head(backlog)
<1>1. /\ backlog \in Seq(Clients) /\ Len(backlog) \in Nat \ {0}
      /\ Head(backlog) = backlog[1]
  BY EmptySeq DEF IInv, TypeOK
<1>2. /\ Tail(backlog) \in Seq(Clients) /\ Len(Tail(backlog)) = Len(backlog) - 1
      /\ \A k \in 1..Len(Tail(backlog)) : Tail(backlog)[k] = backlog[k + 1]
  BY <1>1, HeadTailProperties
<1>3. Head(backlog) \in Clients
  BY <1>1, HeadTailProperties
<1>4. ASSUME NEW k \in 1..Len(Tail(backlog))
      PROVE  /\ k + 1 \in 1..Len(backlog)
             /\ Tail(backlog)[k] = backlog[k + 1]
             /\ Tail(backlog)[k] # Head(backlog)
  BY <1>1, <1>2 DEF IInv, WaitsOnce
<1>5. ASSUME NEW k \in 1..Len(backlog), backlog[k] # Head(backlog)
      PROVE  \E l \in 1..Len(Tail(backlog)) : Tail(backlog)[l] = backlog[k]
  <2>1. k - 1 \in 1..Len(Tail(backlog)) /\ (k - 1) + 1 = k
    BY <1>1, <1>2, <1>5
  <2> QED  BY <1>2, <2>1
<1> QED  BY <1>1, <1>2, <1>3, <1>4, <1>5 DEF IInv, WaitsOnce

LEMMA AcceptKeeps ==
    ASSUME IInv, backlog # <<>>, Accept(Head(backlog)), backlog' = Tail(backlog)
    PROVE  /\ conn' \in [Clients -> {"away", "open", "left", "stopped"}]
           /\ backlog' \in Seq(Clients) /\ clients_' \in [Slots -> Clients \cup {Nobody}]
           /\ WaitsOnce' /\ SlotsDiffer' /\ NoneIsForgotten'
<1> DEFINE c == Head(backlog)
<1> USE DEF IInv
<1>1. c \in Clients /\ backlog' \in Seq(Clients)
  BY Dequeued
<1>2. \A j, k \in 1..Len(backlog') : backlog'[j] = backlog'[k] => j = k
  BY Dequeued DEF WaitsOnce
<1>3. CASE conn[c] # "open" /\ UNCHANGED <<conn, clients_>>
  <2>1. WaitsOnce'
    BY <1>2, <1>3, Dequeued DEF WaitsOnce
  <2>2. NoneIsForgotten'
    BY <1>3, Dequeued DEF NoneIsForgotten
  <2> QED  BY <1>1, <1>3, <2>1, <2>2 DEF SlotsDiffer, TypeOK
<1>4. CASE /\ conn[c] = "open" /\ FreeSlots # {}
           /\ clients_' = [clients_ EXCEPT ![Min(FreeSlots)] = c]
           /\ UNCHANGED conn
  <2>1. PICK s \in FreeSlots : s = Min(FreeSlots)
    <3>1. FreeSlots \subseteq Nat
      BY MainAssumption DEF FreeSlots, Slots
    <3> QED  BY <1>4, <3>1, MinProperties
  <2>2. s \in Slots /\ ~Connected(s)
    BY <2>1 DEF FreeSlots
  <2>3. clients_' \in [Slots -> Clients \cup {Nobody}]
    BY <1>1, <1>4, <2>1, <2>2 DEF TypeOK
  <2>4. \A i \in Slots : clients_'[i] = IF i = s THEN c ELSE clients_[i]
    BY <1>4, <2>1, <2>2 DEF TypeOK
  <2>5. WaitsOnce'
    BY <1>2, <2>4, Dequeued DEF WaitsOnce
  <2>6. SlotsDiffer'
    BY <2>4, Dequeued DEF SlotsDiffer
  <2>7. NoneIsForgotten'
    <3> SUFFICES ASSUME NEW d \in Clients, conn[d] = "open"
                 PROVE  \/ \E k \in 1..Len(backlog') : backlog'[k] = d
                        \/ \E i \in Slots : clients_'[i] = d
      BY <1>4 DEF NoneIsForgotten
    <3>1. CASE d = c
      BY <2>2, <2>4, <3>1
    <3>2. CASE d # c /\ \E k \in 1..Len(backlog) : backlog[k] = d
      BY <3>2, Dequeued
    <3>3. ASSUME d # c, NEW i \in Slots, clients_[i] = d
          PROVE  \E j \in Slots : clients_'[j] = d
      <4>1. i # s
        BY <2>2, <3>3, MainAssumption DEF Connected, Nobody
      <4> QED  BY <2>4, <3>3, <4>1
    <3> QED  BY <3>1, <3>2, <3>3 DEF NoneIsForgotten
  <2> QED  BY <1>1, <1>4, <2>3, <2>5, <2>6, <2>7 DEF TypeOK
<1>5. CASE /\ conn[c] = "open" /\ FreeSlots = {}
           /\ conn' = [conn EXCEPT ![c] = "stopped"]
           /\ UNCHANGED clients_
  <2>1. WaitsOnce'
    BY <1>2, <1>5, Dequeued DEF WaitsOnce
  <2>2. \A d \in Clients : conn'[d] = "open" => d # c /\ conn[d] = "open"
    BY <1>1, <1>5 DEF TypeOK
  <2>3. NoneIsForgotten'
    <3> SUFFICES ASSUME NEW d \in Clients, d # c, conn[d] = "open"
                 PROVE  \/ \E k \in 1..Len(backlog') : backlog'[k] = d
                        \/ \E i \in Slots : clients_'[i] = d
      BY <2>2 DEF NoneIsForgotten
    <3>1. CASE \E k \in 1..Len(backlog) : backlog[k] = d
      BY <3>1, Dequeued
    <3>2. CASE \E i \in Slots : clients_[i] = d
      BY <1>5, <3>2
    <3> QED  BY <3>1, <3>2 DEF NoneIsForgotten
  <2> QED  BY <1>1, <1>5, <2>1, <2>3 DEF SlotsDiffer, TypeOK
<1> QED  BY <1>3, <1>4, <1>5 DEF Accept

LEMMA ConnectsKeeps ==
    ASSUME IInv, NEW c \in Clients, Connects(c)
    PROVE  IInv'
<1> USE DEF IInv
<1>1. /\ backlog' \in Seq(Clients) /\ Len(backlog') = Len(backlog) + 1
      /\ Len(backlog) \in Nat
      /\ \A k \in 1..Len(backlog) : backlog'[k] = backlog[k]
      /\ backlog'[Len(backlog) + 1] = c
  BY AppendProperties, LenProperties DEF TypeOK, Connects
<1>2. /\ \A i \in Slots : clients_[i] # c
      /\ \A k \in 1..Len(backlog) : backlog[k] # c
      /\ UNCHANGED clients_
      /\ \A d \in Clients : conn'[d] = IF d = c THEN "open" ELSE conn[d]
  BY DEF Connects, Forgotten, TypeOK
<1>3. TypeOK'
  BY <1>1 DEF Connects, TypeOK, setupVars, displayVars
<1>4. WaitsOnce'
  <2>1. \A j, k \in 1..Len(backlog') : backlog'[j] = backlog'[k] => j = k
    BY <1>1, <1>2 DEF WaitsOnce
  <2>2. \A k \in 1..Len(backlog'), i \in Slots : clients_[i] # backlog'[k]
    BY <1>1, <1>2 DEF WaitsOnce
  <2> QED  BY <1>2, <2>1, <2>2 DEF WaitsOnce
<1>5. NoneIsForgotten'
  <2> SUFFICES ASSUME NEW d \in Clients, conn'[d] = "open"
               PROVE  \/ \E k \in 1..Len(backlog') : backlog'[k] = d
                      \/ \E i \in Slots : clients_'[i] = d
    BY DEF NoneIsForgotten
  <2>1. CASE d = c
    BY <1>1, <2>1
  <2>2. ASSUME NEW k \in 1..Len(backlog), backlog[k] = d
        PROVE  \E l \in 1..Len(backlog') : backlog'[l] = d
    BY <1>1, <2>2
  <2> QED  BY <1>2, <2>1, <2>2 DEF NoneIsForgotten
<1> QED  BY <1>2, <1>3, <1>4, <1>5 DEF SlotsDiffer

\* A client that leaves, and the rest, which is not about connections.
LEMMA OthersKeep ==
    ASSUME IInv, TypeOK',
           UNCHANGED <<backlog, clients_>>,
           \A c \in Clients : conn'[c] = "open" => conn[c] = "open"
    PROVE  IInv'
BY DEF IInv, WaitsOnce, SlotsDiffer, NoneIsForgotten

LEMMA Inductive == IInv /\ [Next]_vars => IInv'
<1> SUFFICES ASSUME IInv, [Next]_vars PROVE IInv'
  OBVIOUS
<1> USE DEF setupVars, telnetVars, displayVars
<1>1. CASE TelnetAccept
  <2>1. CASE running_ /\ backlog # <<>>
    <3>1. Accept(Head(backlog)) /\ backlog' = Tail(backlog)
      BY <1>1, <2>1 DEF TelnetAccept
    <3> QED
      BY <1>1, <2>1, <3>1, AcceptKeeps DEF IInv, TypeOK, TelnetAccept
  <2>2. CASE ~(running_ /\ backlog # <<>>)
    BY <1>1, <2>2, OthersKeep DEF IInv, TypeOK, TelnetAccept
  <2> QED  BY <2>1, <2>2
<1>2. CASE TelnetRead
  <2>1. TypeOK'
    BY <1>2 DEF IInv, TypeOK, TelnetRead
  <2>2. \A i \in Slots : clients_'[i] = IF Connected(i) THEN clients_[i] ELSE Nobody
    BY <1>2 DEF TelnetRead
  <2>3. SlotsDiffer'
    BY <2>2 DEF IInv, SlotsDiffer
  <2>4. WaitsOnce'
    <3>1. \A k \in 1..Len(backlog) : backlog[k] # Nobody
      BY ElementOfSeq, MainAssumption DEF IInv, TypeOK, Nobody
    <3> QED  BY <1>2, <2>2, <3>1 DEF IInv, WaitsOnce, TelnetRead
  <2>5. NoneIsForgotten'
    BY <1>2, <2>2, MainAssumption DEF IInv, NoneIsForgotten, TelnetRead, Connected, Nobody
  <2> QED  BY <2>1, <2>3, <2>4, <2>5 DEF IInv
<1>3. ASSUME NEW c \in Clients, Connects(c) PROVE IInv'
  BY <1>3, ConnectsKeeps
<1>4. ASSUME NEW c \in Clients, Leaves(c) PROVE IInv'
  <2>1. TypeOK' /\ \A d \in Clients : conn'[d] = "open" => conn[d] = "open"
    BY <1>4 DEF IInv, TypeOK, Leaves
  <2> QED  BY <1>4, <2>1, OthersKeep DEF Leaves
<1>5. CASE Setup \/ Round \/ PollButtons \/ Tick \/ Delay \/ Network \/ Press
  <2>1. UNCHANGED <<backlog, clients_, conn>>
    BY <1>5 DEF Setup, Round, PollButtons, Tick, Delay, Network, Press
  <2>2. TypeOK'
    <3> USE DEF IInv, TypeOK
    <3>1. CASE Setup
      <4>1. /\ UNCHANGED <<network, button, backlightOn_, throughputElapsedMs_>>
            /\ activity' \in {0, activity}
        BY <3>1 DEF Setup, DisplayInit, WifiRetry, WifiCheck, TelnetStart
      <4>2. retries' \in 0..maxRetries
        BY <3>1, MainAssumption DEF Setup, DisplayInit, WifiRetry, WifiCheck, TelnetStart
      <4>3. halted' \in BOOLEAN /\ running_' \in BOOLEAN
        BY <3>1 DEF Setup, DisplayInit, WifiRetry, WifiCheck, TelnetStart
      <4>4. activity' \in 0..BACKLIGHT_TIMEOUT + 1
        BY <4>1, MainAssumption
      <4> QED  BY <2>1, <4>1, <4>2, <4>3, <4>4
    <3>2. CASE Round \/ Network \/ Press
      BY <3>2 DEF Round, Network, Press
    <3>3. CASE PollButtons
      <4>1. backlightOn_' \in BOOLEAN
        BY <3>3 DEF PollButtons
      <4>2. activity' = 0 \/ activity' = activity
        BY <3>3 DEF PollButtons
      <4>3. activity' \in 0..BACKLIGHT_TIMEOUT + 1
        BY <4>2, MainAssumption
      <4> QED  BY <3>3, <4>1, <4>3 DEF PollButtons
    <3>4. CASE Tick
      <4>1. backlightOn_' \in BOOLEAN
        BY <3>4 DEF Tick, Lit
      <4>2. throughputElapsedMs_' \in 0..kThroughputInterval
        BY <3>4, MainAssumption DEF Tick
      <4> QED  BY <3>4, <4>1, <4>2 DEF Tick
    <3>5. CASE Delay
      BY <3>5, MainAssumption DEF Delay, Capped
    <3> QED  BY <1>5, <3>1, <3>2, <3>3, <3>4, <3>5
  <2> QED  BY <2>1, <2>2, OthersKeep
<1>6. CASE UNCHANGED vars
  BY <1>6, OthersKeep DEF IInv, TypeOK, vars
<1> QED
  BY <1>1, <1>2, <1>3, <1>4, <1>5, <1>6 DEF Next, Program, World

LEMMA Initially == Init => IInv
<1> SUFFICES ASSUME Init PROVE IInv
  OBVIOUS
<1>1. backlog = <<>> /\ backlog \in Seq(Clients) /\ Len(backlog) = 0
  BY EmptySeq DEF Init
<1>2. /\ 0 \in 0..maxRetries /\ 0 \in 0..BACKLIGHT_TIMEOUT + 1
      /\ 0 \in 0..kThroughputInterval
  BY MainAssumption
<1>3. TypeOK
  BY <1>1, <1>2 DEF Init, TypeOK
<1>4. WaitsOnce /\ SlotsDiffer /\ NoneIsForgotten
  BY <1>1 DEF Init, WaitsOnce, SlotsDiffer, NoneIsForgotten
<1> QED  BY <1>3, <1>4 DEF IInv

-----------------------------------------------------------------------------

\* An open connection waits to be accepted or has exactly one slot, for any
\* number of clients and slots and in whatever order they come and go (poll).
THEOREM OpenAlwaysHaveTheirSlot == Spec => []OpenHaveTheirSlot
BY Initially, Inductive, Implied, PTL DEF Spec

-----------------------------------------------------------------------------
(* The card.  A log is a ring of files, of which the one after the newest  *)
(* is the oldest.                                                          *)

\* The log files of a card, and where in it two files come one before the other
\* when p is the newest.
FileNumbers == 0..(maxFiles_ - 1)
Logs == UNION {[D -> Seq(Nat)] : D \in SUBSET FileNumbers}
Before(p, f, g) ==
    \/ f > p /\ g > p /\ f < g
    \/ f > p /\ g <= p
    \/ f <= p /\ g <= p /\ f < g

\* File p is the newest of a ring that was filled with some of the bytes up to
\* r: those in front of it are full, and the log is in order around the ring.
Ring(files, p, r) ==
    /\ files \in Logs /\ p \in FileNumbers
    /\ \A f \in FileNumbers : f < p => f \in DOMAIN files /\ Len(files[f]) >= maxFileSize_
    /\ \A f \in DOMAIN files : \A i \in 1..Len(files[f]) : files[f][i] <= r
    /\ \A f \in DOMAIN files : \A i, j \in 1..Len(files[f]) :
          i < j => files[f][i] < files[f][j]
    /\ \A f, g \in DOMAIN files : Before(p, f, g) =>
          \A i \in 1..Len(files[f]), j \in 1..Len(files[g]) : files[f][i] < files[g][j]

\* So p is the first file that is not full, or missing: init can find it.
RingWithRoom(files, p, r) ==
    /\ Ring(files, p, r)
    /\ p \in DOMAIN files => Len(files[p]) < maxFileSize_

\* What goes is older than all that stays.
Sheds(files, kept) ==
    \A x \in Bytes(files) \ Bytes(kept) : \A y \in Bytes(kept) : x < y

Without(files, d) == Restrict(files, DOMAIN files \ {d})
With(files, p) ==
    [i \in DOMAIN files \cup {p} |-> IF i \in DOMAIN files THEN files[i] ELSE <<>>]

-----------------------------------------------------------------------------

LEMMA CardLimits ==
    /\ maxFileSize_ \in Nat \ {0} /\ maxFiles_ \in Nat \ {0}
    /\ FLUSH_THRESHOLD \in Nat \ {0}
    /\ Max(Lengths) \in Nat \ {0} /\ \A n \in Lengths : n \in Nat \ {0} /\ n <= Max(Lengths)
<1>1. PICK m1 \in Lengths : \A k \in Lengths : m1 >= k
  BY M5Assumption
<1>2. Max(Lengths) \in Lengths /\ \A k \in Lengths : Max(Lengths) >= k
  BY <1>1 DEF Max
<1> QED  BY <1>2, M5Assumption

LEMMA LogsProperties ==
    ASSUME NEW files \in Logs
    PROVE  /\ files \in [DOMAIN files -> Seq(Nat)] /\ DOMAIN files \subseteq FileNumbers
           /\ \A f \in DOMAIN files : files[f] \in Seq(Nat) /\ Len(files[f]) \in Nat
           /\ \A f \in DOMAIN files : \A i \in 1..Len(files[f]) : files[f][i] \in Nat
<1>1. PICK D \in SUBSET FileNumbers : files \in [D -> Seq(Nat)]
  BY DEF Logs
<1>2. DOMAIN files = D
  BY <1>1
<1>3. \A f \in DOMAIN files : files[f] \in Seq(Nat)
  BY <1>1, <1>2
<1> QED  BY <1>1, <1>2, <1>3, LenProperties, ElementOfSeq

LEMMA IsLogs ==
    ASSUME NEW D \in SUBSET FileNumbers, NEW files \in [D -> Seq(Nat)]
    PROVE  files \in Logs /\ DOMAIN files = D
BY DEF Logs

LEMMA BytesProperties ==
    ASSUME NEW files \in Logs
    PROVE  \A x : x \in Bytes(files) <=>
                    \E f \in DOMAIN files : \E i \in 1..Len(files[f]) : x = files[f][i]
<1>1. ASSUME NEW f \in DOMAIN files
      PROVE  Range(files[f]) = {files[f][i] : i \in 1..Len(files[f])}
  <2>1. DOMAIN files[f] = 1..Len(files[f])
    BY LogsProperties, LenProperties
  <2> QED  BY <2>1 DEF Range
<1> QED  BY <1>1 DEF Bytes

\* A file that is there, or a new empty one, can become the current.
LEMMA WithProperties ==
    ASSUME NEW files \in Logs, NEW p \in FileNumbers
    PROVE  /\ With(files, p) \in Logs /\ DOMAIN With(files, p) = DOMAIN files \cup {p}
           /\ \A f \in DOMAIN files : With(files, p)[f] = files[f]
           /\ p \notin DOMAIN files => Len(With(files, p)[p]) = 0
<1>1. \A i \in DOMAIN files \cup {p} :
        (IF i \in DOMAIN files THEN files[i] ELSE <<>>) \in Seq(Nat)
  BY LogsProperties, EmptySeq
<1>2. With(files, p) \in [DOMAIN files \cup {p} -> Seq(Nat)]
  BY <1>1 DEF With
<1>3. With(files, p) \in Logs /\ DOMAIN With(files, p) = DOMAIN files \cup {p}
  BY <1>2, IsLogs, LogsProperties
<1>4. Len(<<>>) = 0
  BY EmptySeq
<1> QED  BY <1>3, <1>4 DEF With

LEMMA WithoutProperties ==
    ASSUME NEW files \in Logs, NEW d
    PROVE  /\ Without(files, d) \in Logs /\ DOMAIN Without(files, d) = DOMAIN files \ {d}
           /\ \A f \in DOMAIN files \ {d} : Without(files, d)[f] = files[f]
           /\ d \notin DOMAIN files => Without(files, d) = files
<1>1. Without(files, d) \in [DOMAIN files \ {d} -> Seq(Nat)]
  BY LogsProperties DEF Without, Restrict
<1>2. Without(files, d) \in Logs /\ DOMAIN Without(files, d) = DOMAIN files \ {d}
  BY <1>1, IsLogs, LogsProperties
<1>3. \A f \in DOMAIN files \ {d} : Without(files, d)[f] = files[f]
  BY DEF Without, Restrict
<1>4. ASSUME d \notin DOMAIN files PROVE Without(files, d) = files
  <2>1. DOMAIN files \ {d} = DOMAIN files /\ files = [x \in DOMAIN files |-> files[x]]
    BY <1>4, LogsProperties
  <2> QED  BY <2>1 DEF Without, Restrict
<1> QED  BY <1>2, <1>3, <1>4

LEMMA RingOpens ==
    ASSUME NEW files, NEW p, NEW r, RingWithRoom(files, p, r)
    PROVE  RingWithRoom(With(files, p), p, r) /\ Bytes(With(files, p)) = Bytes(files)
<1> DEFINE new == With(files, p)
<1>1. /\ files \in Logs /\ p \in FileNumbers /\ Ring(files, p, r)
      /\ p \in DOMAIN files => Len(files[p]) < maxFileSize_
  BY DEF RingWithRoom, Ring
<1>2. /\ new \in Logs /\ DOMAIN new = DOMAIN files \cup {p}
      /\ \A f \in DOMAIN files : new[f] = files[f]
      /\ p \notin DOMAIN files => Len(new[p]) = 0
  BY <1>1, WithProperties
<1> HIDE DEF new
<1>3. \A x : x \in Bytes(new) <=> x \in Bytes(files)
  <2>1. \A f \in DOMAIN new : \A i \in 1..Len(new[f]) : f \in DOMAIN files
    BY <1>2
  <2> QED  BY <1>1, <1>2, <2>1, BytesProperties
<1>4. \A f \in DOMAIN new \ DOMAIN files : Len(new[f]) = 0 /\ 1..Len(new[f]) = {}
  BY <1>2
<1>5. /\ \A f \in FileNumbers : f < p => f \in DOMAIN new /\ Len(new[f]) >= maxFileSize_
      /\ \A f \in DOMAIN new : \A i \in 1..Len(new[f]) : new[f][i] <= r
  BY <1>1, <1>2, <1>4 DEF Ring
<1>6. \A f \in DOMAIN new : \A i, j \in 1..Len(new[f]) : i < j => new[f][i] < new[f][j]
  BY <1>1, <1>2, <1>4 DEF Ring
<1>7. \A f, g \in DOMAIN new : Before(p, f, g) =>
        \A i \in 1..Len(new[f]), j \in 1..Len(new[g]) : new[f][i] < new[g][j]
  <2> SUFFICES ASSUME NEW f \in DOMAIN new, NEW g \in DOMAIN new, Before(p, f, g),
                      NEW i \in 1..Len(new[f]), NEW j \in 1..Len(new[g])
               PROVE  new[f][i] < new[g][j]
    OBVIOUS
  <2>1. f \in DOMAIN files /\ g \in DOMAIN files
    BY <1>4
  <2> QED  BY <1>1, <1>2, <2>1 DEF Ring
<1>8. Ring(new, p, r)
  BY <1>1, <1>2, <1>5, <1>6, <1>7 DEF Ring
<1>9. Len(new[p]) < maxFileSize_
  BY <1>1, <1>2, CardLimits
<1> QED  BY <1>3, <1>8, <1>9 DEF RingWithRoom, new

\* More bytes may have come since.
LEMMA RingLater ==
    ASSUME NEW files, NEW p, NEW r \in Nat, RingWithRoom(files, p, r), NEW q \in Nat, r <= q
    PROVE  RingWithRoom(files, p, q)
<1>1. \A f \in DOMAIN files : \A i \in 1..Len(files[f]) : files[f][i] <= q
  BY LogsProperties DEF RingWithRoom, Ring
<1> QED  BY <1>1 DEF RingWithRoom, Ring

\* What is removed in front of all others was the oldest.
LEMMA OldestGoes ==
    ASSUME NEW files, NEW p, NEW r, Ring(files, p, r), NEW d \in FileNumbers,
           \A g \in DOMAIN files \ {d} : Before(p, d, g)
    PROVE  Sheds(files, Without(files, d))
<1> DEFINE new == Without(files, d)
<1>1. files \in Logs
  BY DEF Ring
<1>2. /\ new \in Logs /\ DOMAIN new = DOMAIN files \ {d}
      /\ \A f \in DOMAIN files \ {d} : new[f] = files[f]
  BY <1>1, WithoutProperties
<1> HIDE DEF new
<1> SUFFICES ASSUME NEW x \in Bytes(files) \ Bytes(new), NEW y \in Bytes(new)
             PROVE  x < y
  BY DEF Sheds, new
<1>3. PICK f \in DOMAIN files : \E i \in 1..Len(files[f]) : x = files[f][i]
  BY <1>1, BytesProperties
<1>4. PICK g \in DOMAIN new : \E j \in 1..Len(new[g]) : y = new[g][j]
  BY <1>2, BytesProperties
<1>5. f = d
  <2> SUFFICES ASSUME f # d PROVE FALSE
    OBVIOUS
  <2>1. f \in DOMAIN new /\ new[f] = files[f]
    BY <1>2
  <2>2. x \in Bytes(new)
    BY <1>2, <1>3, <2>1, BytesProperties
  <2> QED  BY <2>2
<1>6. g \in DOMAIN files \ {d} /\ new[g] = files[g] /\ Before(p, f, g)
  BY <1>2, <1>5
<1> QED  BY <1>3, <1>4, <1>6 DEF Ring

\* The other files stay in order if the ring is entered at d, unless d is in
\* the middle of it.
LEMMA RingWithout ==
    ASSUME NEW files, NEW p, NEW r, Ring(files, p, r), NEW d \in FileNumbers,
           \A f \in FileNumbers : f < d => f \in DOMAIN files /\ Len(files[f]) >= maxFileSize_,
           \A f, g \in DOMAIN files \ {d} : Before(d, f, g) => Before(p, f, g)
    PROVE  RingWithRoom(Without(files, d), d, r)
<1> DEFINE new == Without(files, d)
<1>1. files \in Logs
  BY DEF Ring
<1>2. /\ new \in Logs /\ DOMAIN new = DOMAIN files \ {d}
      /\ \A f \in DOMAIN files \ {d} : new[f] = files[f]
  BY <1>1, WithoutProperties
<1> HIDE DEF new
<1>3. /\ \A f \in FileNumbers : f < d => f \in DOMAIN new /\ Len(new[f]) >= maxFileSize_
      /\ \A f \in DOMAIN new : \A i \in 1..Len(new[f]) : new[f][i] <= r
  <2>1. \A f \in FileNumbers : f < d => f # d
    BY DEF FileNumbers
  <2> QED  BY <1>2, <2>1 DEF Ring
<1>4. \A f \in DOMAIN new : \A i, j \in 1..Len(new[f]) : i < j => new[f][i] < new[f][j]
  BY <1>2 DEF Ring
<1>5. \A f, g \in DOMAIN new : Before(d, f, g) =>
        \A i \in 1..Len(new[f]), j \in 1..Len(new[g]) : new[f][i] < new[g][j]
  <2> SUFFICES ASSUME NEW f \in DOMAIN new, NEW g \in DOMAIN new, Before(d, f, g),
                      NEW i \in 1..Len(new[f]), NEW j \in 1..Len(new[g])
               PROVE  new[f][i] < new[g][j]
    OBVIOUS
  <2>1. /\ f \in DOMAIN files \ {d} /\ g \in DOMAIN files \ {d}
        /\ new[f] = files[f] /\ new[g] = files[g]
    BY <1>2
  <2>2. Before(p, f, g)
    BY <2>1
  <2> QED  BY <2>1, <2>2 DEF Ring
<1>6. Ring(new, d, r)
  BY <1>2, <1>3, <1>4, <1>5 DEF Ring
<1> QED  BY <1>2, <1>6 DEF RingWithRoom, new

\* The file after p is the next in number, or the first.
LEMMA FileAfter ==
    ASSUME NEW p \in FileNumbers
    PROVE  /\ (p + 1) % maxFiles_ \in FileNumbers
           /\ (p + 1) % maxFiles_ = IF p = maxFiles_ - 1 THEN 0 ELSE p + 1
BY CardLimits DEF FileNumbers

\* NextFile: when the newest file is full, the one after it goes.
LEMMA RingTurnsOn ==
    ASSUME NEW files, NEW p, NEW r, Ring(files, p, r), p \in DOMAIN files,
           Len(files[p]) >= maxFileSize_, NEW d, d = (p + 1) % maxFiles_
    PROVE  RingWithRoom(Without(files, d), d, r) /\ Sheds(files, Without(files, d))
<1>1. /\ files \in Logs /\ p \in FileNumbers /\ d \in FileNumbers
      /\ d = IF p = maxFiles_ - 1 THEN 0 ELSE p + 1
      /\ DOMAIN files \subseteq FileNumbers
  BY FileAfter, LogsProperties DEF Ring
<1>2. \A f \in FileNumbers : f < d => f \in DOMAIN files /\ Len(files[f]) >= maxFileSize_
  <2>1. \A f \in FileNumbers : f < d => f < p \/ f = p
    BY <1>1, CardLimits DEF FileNumbers
  <2> QED  BY <2>1 DEF Ring
<1>3. \/ d = 0 /\ p \in Nat /\ \A f \in FileNumbers : f \in Nat /\ f <= p
      \/ d = p + 1 /\ p \in Nat /\ \A f \in FileNumbers : f \in Nat
  <2>1. p \in Nat /\ maxFiles_ \in Nat
    BY <1>1, CardLimits DEF FileNumbers
  <2>2. CASE p = maxFiles_ - 1
    BY <1>1, <2>1, <2>2 DEF FileNumbers
  <2>3. CASE p # maxFiles_ - 1
    BY <1>1, <2>1, <2>3 DEF FileNumbers
  <2> QED  BY <2>2, <2>3
<1>4. ASSUME NEW f \in FileNumbers \ {d}, NEW g \in FileNumbers \ {d}, Before(d, f, g)
      PROVE  Before(p, f, g)
  <2>1. CASE d = 0 /\ p \in Nat /\ f \in Nat /\ f <= p /\ g \in Nat /\ g <= p
    BY <1>4, <2>1 DEF Before
  <2>2. CASE d = p + 1 /\ p \in Nat /\ f \in Nat /\ g \in Nat
    BY <1>4, <2>2 DEF Before
  <2> QED  BY <1>3, <2>1, <2>2
<1>5. ASSUME NEW g \in FileNumbers \ {d}
      PROVE  Before(p, d, g)
  <2>1. CASE d = 0 /\ p \in Nat /\ g \in Nat /\ g <= p
    BY <2>1 DEF Before
  <2>2. CASE d = p + 1 /\ p \in Nat /\ g \in Nat
    BY <2>2 DEF Before
  <2> QED  BY <1>3, <2>1, <2>2
<1> QED  BY <1>1, <1>2, <1>4, <1>5, RingWithout, OldestGoes

\* init: when even the last file is there, whether full or not, the first goes.
LEMMA RingStartsOver ==
    ASSUME NEW files, NEW p, NEW r, Ring(files, p, r), p = maxFiles_ - 1, p # 0
    PROVE  RingWithRoom(Without(files, 0), 0, r) /\ Sheds(files, Without(files, 0))
<1>1. /\ files \in Logs /\ p \in FileNumbers /\ 0 \in FileNumbers
      /\ DOMAIN files \subseteq FileNumbers
  BY LogsProperties, CardLimits DEF Ring, FileNumbers
<1>2. \A f \in FileNumbers : f < 0 => f \in DOMAIN files /\ Len(files[f]) >= maxFileSize_
  BY DEF FileNumbers
<1>3. \A f, g \in FileNumbers \ {0} : Before(0, f, g) => Before(p, f, g)
  BY <1>1, CardLimits DEF FileNumbers, Before
<1>4. \A g \in FileNumbers \ {0} : Before(p, 0, g)
  BY <1>1, CardLimits DEF FileNumbers, Before
<1> QED  BY <1>1, <1>2, <1>3, <1>4, RingWithout, OldestGoes

\* The newest file may be longer by bytes that are newer than all others, or
\* shorter: it stays the newest.
LEMMA NewestChanges ==
    ASSUME NEW files, NEW p, NEW r, NEW q \in Nat, Ring(files, p, r),
           p \in DOMAIN files, NEW t \in Seq(Nat),
           \A f \in DOMAIN files \ {p} : \A i \in 1..Len(files[f]) : files[f][i] <= q,
           \A i \in 1..Len(t) : t[i] <= q,
           \A i, j \in 1..Len(t) : i < j => t[i] < t[j],
           \A f \in DOMAIN files \ {p} : \A i \in 1..Len(files[f]), j \in 1..Len(t) :
              files[f][i] < t[j]
    PROVE  Ring([files EXCEPT ![p] = t], p, q)
<1> DEFINE new == [files EXCEPT ![p] = t]
<1>1. files \in Logs /\ p \in FileNumbers /\ DOMAIN files \subseteq FileNumbers
      /\ files \in [DOMAIN files -> Seq(Nat)]
  BY LogsProperties DEF Ring
<1>2. /\ new \in [DOMAIN files -> Seq(Nat)] /\ new[p] = t
      /\ \A f \in DOMAIN files \ {p} : new[f] = files[f]
  BY <1>1
<1>3. new \in Logs /\ DOMAIN new = DOMAIN files
  BY <1>1, <1>2, IsLogs
<1> HIDE DEF new
<1>4. /\ \A f \in FileNumbers : f < p => f \in DOMAIN new /\ Len(new[f]) >= maxFileSize_
      /\ \A f \in DOMAIN new : \A i \in 1..Len(new[f]) : new[f][i] <= q
  <2>1. \A f \in FileNumbers : f < p => f # p
    BY <1>1 DEF FileNumbers
  <2> QED  BY <1>2, <1>3, <2>1 DEF Ring
<1>5. \A f \in DOMAIN new : \A i, j \in 1..Len(new[f]) : i < j => new[f][i] < new[f][j]
  BY <1>2, <1>3 DEF Ring
<1>6. \A f, g \in DOMAIN new : Before(p, f, g) =>
        \A i \in 1..Len(new[f]), j \in 1..Len(new[g]) : new[f][i] < new[g][j]
  <2> SUFFICES ASSUME NEW f \in DOMAIN new, NEW g \in DOMAIN new, Before(p, f, g),
                      NEW i \in 1..Len(new[f]), NEW j \in 1..Len(new[g])
               PROVE  new[f][i] < new[g][j]
    OBVIOUS
  <2>1. f # p
    BY <1>1, <1>3 DEF Before, FileNumbers
  <2>2. CASE g = p
    BY <1>2, <1>3, <2>1, <2>2
  <2>3. CASE g # p
    BY <1>2, <1>3, <2>1, <2>3 DEF Ring
  <2> QED  BY <2>2, <2>3
<1> QED  BY <1>1, <1>3, <1>4, <1>5, <1>6 DEF Ring, new

-----------------------------------------------------------------------------
(* What the calls do to the record.                                        *)

Modules ==
    [files : Logs, begun : BOOLEAN, file : {"none", "good", "stale"}, cache : Seq(Nat),
     available : BOOLEAN, index : FileNumbers, size : Nat, since : Nat,
     count : 0..maxFiles_, hurt : Nat]

\* A good file is one on the card.
Sound(s) == s \in Modules /\ (s.file = "good" => s.index \in DOMAIN s.files)

\* The files with what is cached.
LogOf(s) ==
    IF s.file = "good" THEN [s.files EXCEPT ![s.index] = @ \o s.cache] ELSE s.files

LEMMA LogOfProperties ==
    ASSUME NEW s, Sound(s)
    PROVE  /\ LogOf(s) \in Logs /\ DOMAIN LogOf(s) = DOMAIN s.files
           /\ s.file # "good" => LogOf(s) = s.files
           /\ \A f \in DOMAIN s.files : f # s.index => LogOf(s)[f] = s.files[f]
           /\ s.file = "good" =>
                /\ LogOf(s)[s.index] = s.files[s.index] \o s.cache
                /\ Len(LogOf(s)[s.index]) = Len(s.files[s.index]) + Len(s.cache)
<1>1. /\ s.files \in Logs /\ s.cache \in Seq(Nat)
      /\ s.files \in [DOMAIN s.files -> Seq(Nat)] /\ DOMAIN s.files \subseteq FileNumbers
  BY LogsProperties DEF Sound, Modules
<1>2. CASE s.file = "good"
  <2>1. s.index \in DOMAIN s.files /\ s.files[s.index] \in Seq(Nat)
    BY <1>1, <1>2 DEF Sound
  <2>2. /\ s.files[s.index] \o s.cache \in Seq(Nat)
        /\ Len(s.files[s.index] \o s.cache) = Len(s.files[s.index]) + Len(s.cache)
    BY <1>1, <2>1, ConcatProperties
  <2>3. LogOf(s) = [s.files EXCEPT ![s.index] = s.files[s.index] \o s.cache]
    BY <1>2 DEF LogOf
  <2>4. LogOf(s) \in [DOMAIN s.files -> Seq(Nat)]
    BY <1>1, <2>1, <2>2, <2>3
  <2>5. LogOf(s) \in Logs /\ DOMAIN LogOf(s) = DOMAIN s.files
    BY <1>1, <2>4, IsLogs
  <2>6. /\ \A f \in DOMAIN s.files : f # s.index => LogOf(s)[f] = s.files[f]
        /\ LogOf(s)[s.index] = s.files[s.index] \o s.cache
    BY <1>1, <2>1, <2>3
  <2> QED  BY <1>2, <2>2, <2>5, <2>6
<1>3. CASE s.file # "good"
  BY <1>1, <1>3 DEF LogOf
<1> QED  BY <1>2, <1>3

LEMMA SyncedProperties ==
    ASSUME NEW s, Sound(s)
    PROVE  /\ Sound(Synced(s)) /\ Synced(s).files = LogOf(s) /\ Synced(s).cache = <<>>
           /\ Synced(s).begun = s.begun /\ Synced(s).file = s.file
           /\ Synced(s).available = s.available /\ Synced(s).index = s.index
           /\ Synced(s).size = s.size /\ Synced(s).since = s.since
           /\ Synced(s).count = s.count /\ Synced(s).hurt = s.hurt
           /\ LogOf(Synced(s)) = LogOf(s)
<1>1. LogOf(s) \in Logs /\ DOMAIN LogOf(s) = DOMAIN s.files /\ <<>> \in Seq(Nat)
  BY LogOfProperties, EmptySeq
<1>2. Synced(s) = [s EXCEPT !.files = LogOf(s), !.cache = <<>>]
  <2>1. s.files = LogOf(s) \/ s.file = "good"
    BY DEF LogOf
  <2> QED  BY <2>1 DEF Synced, LogOf, Sound, Modules
<1>3. /\ Synced(s) \in Modules /\ Synced(s).files = LogOf(s) /\ Synced(s).cache = <<>>
      /\ Synced(s).begun = s.begun /\ Synced(s).file = s.file
      /\ Synced(s).available = s.available /\ Synced(s).index = s.index
      /\ Synced(s).size = s.size /\ Synced(s).since = s.since
      /\ Synced(s).count = s.count /\ Synced(s).hurt = s.hurt
  BY <1>1, <1>2 DEF Sound, Modules
<1>4. Sound(Synced(s))
  BY <1>1, <1>3 DEF Sound
<1>5. LogOf(Synced(s)) = LogOf(s)
  <2>1. CASE s.file = "good"
    <3>1. /\ s.index \in DOMAIN LogOf(s) /\ LogOf(s)[s.index] \in Seq(Nat)
          /\ LogOf(s) \in [DOMAIN LogOf(s) -> Seq(Nat)]
      BY <1>1, <2>1, LogsProperties DEF Sound
    <3>2. LogOf(s)[s.index] \o <<>> = LogOf(s)[s.index]
      BY <3>1, ConcatEmptySeq
    <3>3. [LogOf(s) EXCEPT ![s.index] = LogOf(s)[s.index]] = LogOf(s)
      BY <3>1
    <3>4. LogOf(Synced(s)) = [LogOf(s) EXCEPT ![s.index] = LogOf(s)[s.index] \o <<>>]
      BY <1>3, <2>1 DEF LogOf
    <3> QED  BY <3>2, <3>3, <3>4
  <2>2. CASE s.file # "good"
    BY <1>3, <2>2 DEF LogOf
  <2> QED  BY <2>1, <2>2
<1> QED  BY <1>3, <1>4, <1>5

LEMMA CloseProperties ==
    ASSUME NEW s, Sound(s)
    PROVE  /\ Sound(Close(s)) /\ Close(s).files = LogOf(s) /\ Close(s).cache = <<>>
           /\ Close(s).begun = s.begun /\ Close(s).file = "none"
           /\ Close(s).available = s.available /\ Close(s).index = s.index
           /\ Close(s).size = s.size /\ Close(s).since = s.since
           /\ Close(s).count = s.count /\ Close(s).hurt = s.hurt
<1> DEFINE t == Synced(s)
<1>1. /\ t \in Modules /\ t.files = LogOf(s) /\ t.cache = <<>>
      /\ t.begun = s.begun /\ t.available = s.available /\ t.index = s.index
      /\ t.size = s.size /\ t.since = s.since /\ t.count = s.count /\ t.hurt = s.hurt
  BY SyncedProperties DEF Sound
<1>2. Close(s) = [t EXCEPT !.file = "none"]
  BY DEF Close
<1> HIDE DEF t
<1> QED  BY <1>1, <1>2 DEF Sound, Modules

\* A file is opened on the card, or there is none.
LEMMA OpenProperties ==
    ASSUME NEW s \in Modules, NEW o \in OpenForAppend(s)
    PROVE  /\ Sound(o) /\ o.cache = s.cache /\ o.begun = s.begun
           /\ o.available = s.available /\ o.index = s.index /\ o.size = s.size
           /\ o.since = s.since /\ o.count = s.count /\ o.hurt = s.hurt
           /\ \/ o.file = "none" /\ o.files = s.files
              \/ o.file = "good" /\ o.files = With(s.files, s.index) /\ Usable(s)
<1>1. s.files \in Logs /\ s.index \in FileNumbers
  BY DEF Modules
<1>2. /\ With(s.files, s.index) \in Logs
      /\ s.index \in DOMAIN With(s.files, s.index)
  BY <1>1, WithProperties
<1>3. \/ o = [s EXCEPT !.file = "none"]
      \/ o = [s EXCEPT !.file = "good", !.files = With(s.files, s.index)] /\ Usable(s)
  BY DEF OpenForAppend, With
<1>4. CASE o = [s EXCEPT !.file = "none"]
  BY <1>4 DEF Modules, Sound
<1>5. CASE o = [s EXCEPT !.file = "good", !.files = With(s.files, s.index)] /\ Usable(s)
  BY <1>2, <1>5 DEF Modules, Sound
<1> QED  BY <1>3, <1>4, <1>5

\* An access fails: nothing else changes.
LEMMA HurtProperties ==
    ASSUME NEW s \in Modules, NEW h \in Hurt(s)
    PROVE  /\ h \in Modules /\ h.files = s.files /\ h.file = s.file /\ h.cache = s.cache
           /\ h.begun = s.begun /\ h.available = s.available /\ h.index = s.index
           /\ h.size = s.size /\ h.since = s.since /\ h.count = s.count /\ h.hurt # 0
<1>1. h = [s EXCEPT !.hurt = s.hurt + 1]
  BY DEF Hurt
<1>2. s.hurt \in Nat /\ s.hurt + 1 \in Nat /\ s.hurt + 1 # 0
  BY DEF Modules
<1> QED  BY <1>1, <1>2 DEF Modules

LEMMA NextFileProperties ==
    ASSUME NEW s, Sound(s), NEW d, d = (s.index + 1) % maxFiles_, NEW n \in NextFile(s)
    PROVE  /\ Sound(n) /\ n.index = d /\ n.file = "none" /\ n.cache = <<>>
           /\ n.size = 0 /\ n.begun = s.begun /\ n.available = s.available
           /\ n.since = s.since
           /\ n.hurt = 0 =>
                /\ s.hurt = 0
                /\ n.files = IF Usable(s) THEN Without(LogOf(s), d) ELSE LogOf(s)
<1> DEFINE t == Close(s)
           u == [t EXCEPT !.index = d, !.count = Min({t.count + 1, maxFiles_}), !.size = 0]
<1>1. /\ t \in Modules /\ t.files = LogOf(s) /\ t.cache = <<>> /\ t.file = "none"
      /\ t.begun = s.begun /\ t.available = s.available /\ t.index = s.index
      /\ t.since = s.since /\ t.count = s.count /\ t.hurt = s.hurt
  BY CloseProperties DEF Sound
<1>2. d \in FileNumbers /\ s.count \in 0..maxFiles_ /\ LogOf(s) \in Logs
  BY FileAfter, LogOfProperties DEF Sound, Modules
<1>3. Min({t.count + 1, maxFiles_}) \in 0..maxFiles_
  <2>1. {t.count + 1, maxFiles_} \subseteq Nat
    BY <1>1, <1>2, CardLimits
  <2>2. Min({t.count + 1, maxFiles_}) \in {t.count + 1, maxFiles_}
    BY <2>1, MinProperties
  <2>3. Min({t.count + 1, maxFiles_}) <= maxFiles_
    BY <2>1, MinProperties
  <2> QED  BY <1>1, <1>2, <2>1, <2>2, <2>3, CardLimits
<1>4. n \in IF Exists(u, u.index) THEN {Removed(u, u.index)} \cup Hurt(u) ELSE {u}
  <2>1. u = [Close(s) EXCEPT !.index = (@ + 1) % maxFiles_,
                             !.count = Min({@ + 1, maxFiles_}), !.size = 0]
    BY <1>1
  <2> HIDE DEF u
  <2> QED  BY <2>1 DEF NextFile
<1> HIDE DEF t
<1>5. /\ u \in Modules /\ u.files = LogOf(s) /\ u.cache = <<>> /\ u.file = "none"
      /\ u.begun = s.begun /\ u.available = s.available /\ u.index = d
      /\ u.since = s.since /\ u.size = 0 /\ u.hurt = s.hurt
  BY <1>1, <1>2, <1>3 DEF Modules
<1> HIDE DEF u
<1>6. /\ Without(LogOf(s), d) \in Logs
      /\ d \notin DOMAIN LogOf(s) => Without(LogOf(s), d) = LogOf(s)
  BY <1>2, WithoutProperties
<1>7. CASE Exists(u, u.index) /\ n = Removed(u, u.index)
  <2>1. n = [u EXCEPT !.files = Without(LogOf(s), d)] /\ Usable(s)
    BY <1>5, <1>7 DEF Exists, Removed, Without, Usable
  <2> QED  BY <1>5, <1>6, <2>1 DEF Sound, Modules
<1>8. CASE ~Exists(u, u.index)
  <2>1. n = u /\ (Usable(s) => d \notin DOMAIN LogOf(s))
    BY <1>4, <1>5, <1>8 DEF Exists, Usable
  <2> QED  BY <1>5, <1>6, <2>1 DEF Sound
<1>9. CASE n \in Hurt(u)
  <2>1. /\ n \in Modules /\ n.files = u.files /\ n.file = u.file /\ n.cache = u.cache
        /\ n.begun = u.begun /\ n.available = u.available /\ n.index = u.index
        /\ n.size = u.size /\ n.since = u.since /\ n.hurt # 0
    BY <1>5, <1>9, HurtProperties
  <2> QED  BY <1>5, <2>1 DEF Sound
<1> QED  BY <1>4, <1>7, <1>8, <1>9

LEMMA RotateProperties ==
    ASSUME NEW s, Sound(s), NEW o \in RotateIfNeeded(s), s.size >= maxFileSize_,
           NEW d, d = (s.index + 1) % maxFiles_
    PROVE  /\ Sound(o) /\ o.index = d /\ o.cache = <<>> /\ o.size = 0
           /\ o.begun = s.begun /\ o.available = s.available /\ o.since = s.since
           /\ o.file = "none" \/ (o.file = "good" /\ Usable(s))
           /\ o.hurt = 0 =>
                /\ s.hurt = 0
                /\ \/ /\ o.file = "none"
                      /\ o.files = IF Usable(s) THEN Without(LogOf(s), d) ELSE LogOf(s)
                   \/ /\ o.file = "good" /\ Usable(s)
                      /\ o.files = With(Without(LogOf(s), d), d)
<1>1. PICK n \in NextFile(s) : o \in OpenForAppend(n)
  <2>1. s.size \in Nat /\ ~(s.size < maxFileSize_)
    BY CardLimits DEF Sound, Modules
  <2> QED  BY <2>1 DEF RotateIfNeeded, Then
<1>2. /\ n \in Modules /\ n.index = d /\ n.file = "none" /\ n.cache = <<>>
      /\ n.size = 0 /\ n.begun = s.begun /\ n.available = s.available
      /\ n.since = s.since
      /\ n.hurt = 0 =>
            /\ s.hurt = 0
            /\ n.files = IF Usable(s) THEN Without(LogOf(s), d) ELSE LogOf(s)
  BY NextFileProperties DEF Sound
<1>3. Usable(n) <=> Usable(s)
  BY <1>2 DEF Usable
<1>4. /\ Sound(o) /\ o.cache = n.cache /\ o.begun = n.begun
      /\ o.available = n.available /\ o.index = n.index /\ o.size = n.size
      /\ o.since = n.since /\ o.hurt = n.hurt
      /\ \/ o.file = "none" /\ o.files = n.files
         \/ o.file = "good" /\ o.files = With(n.files, n.index) /\ Usable(n)
  BY <1>1, <1>2, OpenProperties
<1> QED  BY <1>2, <1>3, <1>4

\* Where the scan ends; it only looks.
LEMMA FirstOfProperties ==
    ASSUME NEW s \in Modules, s.file = "none", NEW Stops \in SUBSET FileNumbers
    PROVE  LET o == FirstOf(s, Stops)
           IN  /\ Sound(o) /\ o.files = s.files /\ o.file = "none" /\ o.cache = s.cache
               /\ o.begun = s.begun /\ o.available = s.available /\ o.since = s.since
               /\ o.size = s.size /\ o.hurt = s.hurt
               /\ o.index = IF Stops = {} THEN 0 ELSE Min(Stops)
<1> DEFINE first == Min(Stops)
<1>1. CASE Stops = {}
  <2>1. FirstOf(s, Stops) = [s EXCEPT !.index = 0, !.count = maxFiles_]
    BY <1>1 DEF FirstOf
  <2>2. 0 \in FileNumbers /\ maxFiles_ \in 0..maxFiles_
    BY CardLimits DEF FileNumbers
  <2> QED  BY <1>1, <2>1, <2>2 DEF Sound, Modules
<1>2. CASE Stops # {}
  <2>1. first \in FileNumbers
    <3>1. Stops \subseteq Nat
      BY DEF FileNumbers
    <3> QED  BY <1>2, <3>1, MinProperties
  <2>2. (IF Exists(s, first) THEN first + 1 ELSE first) \in 0..maxFiles_
    BY <2>1, CardLimits DEF FileNumbers
  <2>3. FirstOf(s, Stops)
          = [s EXCEPT !.index = first,
                      !.count = IF Exists(s, first) THEN first + 1 ELSE first]
    BY <1>2 DEF FirstOf
  <2> HIDE DEF first
  <2>4. /\ FirstOf(s, Stops) \in Modules /\ FirstOf(s, Stops).index = first
        /\ FirstOf(s, Stops).files = s.files /\ FirstOf(s, Stops).file = "none"
        /\ FirstOf(s, Stops).cache = s.cache /\ FirstOf(s, Stops).begun = s.begun
        /\ FirstOf(s, Stops).available = s.available
        /\ FirstOf(s, Stops).since = s.since /\ FirstOf(s, Stops).size = s.size
        /\ FirstOf(s, Stops).hurt = s.hurt
    BY <2>1, <2>2, <2>3 DEF Modules
  <2> QED  BY <1>2, <2>4 DEF Sound, first
<1> QED  BY <1>1, <1>2

\* The scan of init, which may pass over files that cannot be read.
LEMMA ScannedProperties ==
    ASSUME NEW s \in Modules, s.file = "none", NEW o \in Scanned(s)
    PROVE  /\ Sound(o) /\ o.files = s.files /\ o.file = "none" /\ o.cache = s.cache
           /\ o.begun = s.begun /\ o.available = s.available /\ o.since = s.since
           /\ o.size = s.size
           /\ o.hurt = 0 =>
                /\ s.hurt = 0
                /\ LET Stops == {i \in FileNumbers : StopsAt(s, i)}
                   IN  o.index = IF Stops = {} THEN 0 ELSE Min(Stops)
<1> DEFINE Stops == {i \in FileNumbers : StopsAt(s, i)}
<1>1. \/ o = FirstOf(s, Stops)
      \/ \E h \in Hurt(s), u \in SUBSET Stops : o = FirstOf(h, Stops \ u)
  BY DEF Scanned, FileNumbers
<1>2. CASE o = FirstOf(s, Stops)
  BY <1>2, FirstOfProperties
<1>3. ASSUME NEW h \in Hurt(s), NEW u \in SUBSET Stops, o = FirstOf(h, Stops \ u)
      PROVE  /\ Sound(o) /\ o.files = s.files /\ o.file = "none" /\ o.cache = s.cache
             /\ o.begun = s.begun /\ o.available = s.available /\ o.since = s.since
             /\ o.size = s.size /\ o.hurt # 0
  <2>1. /\ h \in Modules /\ h.files = s.files /\ h.file = s.file /\ h.cache = s.cache
        /\ h.begun = s.begun /\ h.available = s.available
        /\ h.size = s.size /\ h.since = s.since /\ h.hurt # 0
    BY HurtProperties
  <2>2. Stops \ u \in SUBSET FileNumbers
    OBVIOUS
  <2> HIDE DEF Stops
  <2> QED  BY <1>3, <2>1, <2>2, FirstOfProperties
<1> QED  BY <1>1, <1>2, <1>3

\* It finds the newest file, or starts over.
LEMMA ScanFinds ==
    ASSUME NEW s \in Modules, s.file = "none", Usable(s),
           NEW p, NEW r, RingWithRoom(s.files, p, r), NEW o \in Scanned(s), o.hurt = 0
    PROVE  \/ o.index = p
           \/ o.index = 0 /\ p = maxFiles_ - 1 /\ p \in DOMAIN s.files
<1> DEFINE Stops == {i \in FileNumbers : StopsAt(s, i)}
<1>1. /\ p \in FileNumbers
      /\ \A f \in FileNumbers : f < p => f \in DOMAIN s.files /\ Len(s.files[f]) >= maxFileSize_
      /\ p \in DOMAIN s.files => Len(s.files[p]) < maxFileSize_
  BY DEF RingWithRoom, Ring
<1>2. ASSUME NEW f \in FileNumbers, f < p PROVE f \notin Stops
  <2>1. f \in DOMAIN s.files /\ Len(s.files[f]) >= maxFileSize_ /\ Len(s.files[f]) \in Nat
    BY <1>1, <1>2, LogsProperties DEF Modules
  <2> QED  BY <2>1, CardLimits DEF StopsAt, Exists
<1>3. CASE p \in Stops
  <2>1. Min(Stops) \in Stops /\ Min(Stops) <= p
    BY <1>3, MinProperties DEF FileNumbers
  <2>2. Min(Stops) = p
    BY <1>1, <1>2, <2>1 DEF FileNumbers
  <2> QED  BY <1>3, <2>2, ScannedProperties
<1>4. CASE p \notin Stops
  <2>1. p = maxFiles_ - 1 /\ p \in DOMAIN s.files
    BY <1>1, <1>4, CardLimits DEF StopsAt, Exists, FileNumbers
  <2>2. \A i \in FileNumbers : i < p \/ i = p
    BY <2>1, CardLimits DEF FileNumbers
  <2>3. Stops = {}
    BY <1>2, <1>4, <2>2
  <2> QED  BY <2>1, <2>3, ScannedProperties
<1> QED  BY <1>3, <1>4

\* The file of that index is opened, afresh if it is full.
Refreshed(s) ==
    IF Exists(s, s.index) /\ Len(s.files[s.index]) >= maxFileSize_
    THEN Without(s.files, s.index) ELSE s.files
LEMMA OpenNextFileProperties ==
    ASSUME NEW s \in Modules, s.file = "none", s.cache = <<>>,
           NEW o \in OpenNextFile(s)
    PROVE  /\ Sound(o) /\ o.cache = <<>> /\ o.begun = s.begun
           /\ o.available = s.available /\ o.index = s.index /\ o.since = s.since
           /\ o.file = "none" \/ (o.file = "good" /\ Usable(s))
           /\ o.hurt = 0 =>
                /\ s.hurt = 0
                /\ \/ o.file = "none" /\ o.files = Refreshed(s)
                   \/ /\ o.file = "good" /\ o.files = With(Refreshed(s), s.index)
                      /\ Usable(s)
                      /\ o.size = Len(o.files[s.index]) /\ o.size < maxFileSize_
<1> DEFINE t == Close(s)
           size == IF Exists(s, s.index) THEN Len(s.files[s.index]) ELSE 0
           full == size >= maxFileSize_
           u == IF full THEN [s EXCEPT !.files = Without(s.files, s.index), !.size = 0]
                ELSE [s EXCEPT !.size = size]
           e == [s EXCEPT !.size = 0]
<1>1. s.files \in Logs /\ s.index \in FileNumbers /\ Sound(s) /\ LogOf(s) = s.files
  BY DEF Modules, Sound, LogOf
<1>2. t = s
  <2>1. Synced(s) = s
    BY DEF Synced, Modules
  <2> QED  BY <2>1 DEF Close, Modules
<1>3. PICK v \in {u} \cup Hurt(s) \cup Hurt(e) : o \in OpenForAppend(v)
  <2>1. o \in Then({IF full THEN [Removed(s, s.index) EXCEPT !.size = 0]
                    ELSE [s EXCEPT !.size = size]}
                   \cup (IF Exists(s, s.index) THEN Hurt(s) ELSE {})
                   \cup (IF full THEN Hurt(e) ELSE {}), OpenForAppend)
    BY <1>2 DEF OpenNextFile
  <2>2. [Removed(s, s.index) EXCEPT !.size = 0]
          = [s EXCEPT !.files = Without(s.files, s.index), !.size = 0]
    BY DEF Removed, Without, Modules
  <2> HIDE DEF e, full, size
  <2> QED  BY <2>1, <2>2 DEF Then
<1>4. /\ Without(s.files, s.index) \in Logs
      /\ DOMAIN Without(s.files, s.index) = DOMAIN s.files \ {s.index}
  BY <1>1, WithoutProperties
<1>5. size \in Nat
  BY <1>1, LogsProperties DEF Exists
<1>6. /\ u \in Modules /\ u.files = Refreshed(s) /\ u.file = "none" /\ u.cache = <<>>
      /\ u.begun = s.begun /\ u.available = s.available /\ u.index = s.index
      /\ u.since = s.since /\ u.hurt = s.hurt
      /\ u.size = IF full THEN 0 ELSE size
  <2>1. full <=> Exists(s, s.index) /\ Len(s.files[s.index]) >= maxFileSize_
    BY CardLimits
  <2>2. CASE full
    BY <1>4, <2>1, <2>2 DEF Modules, Refreshed
  <2>3. CASE ~full
    BY <1>5, <2>1, <2>3 DEF Modules, Refreshed
  <2> QED  BY <2>2, <2>3
<1>7. Usable(u) <=> Usable(s)
  BY <1>6 DEF Usable
<1>8. Usable(s) => /\ Len(With(Refreshed(s), s.index)[s.index]) = u.size
                   /\ u.size < maxFileSize_
  <2> SUFFICES ASSUME Usable(s)
               PROVE  Len(With(Refreshed(s), s.index)[s.index]) = u.size
                      /\ u.size < maxFileSize_
    OBVIOUS
  <2>1. CASE full
    <3>1. Refreshed(s) = Without(s.files, s.index)
      BY <2>1, CardLimits DEF Refreshed
    <3>2. Len(With(Refreshed(s), s.index)[s.index]) = 0
      BY <1>1, <1>4, <3>1, WithProperties
    <3> QED  BY <1>6, <2>1, <3>2, CardLimits
  <2>2. CASE ~full
    <3>1. Refreshed(s) = s.files
      BY <1>6, <2>2
    <3>2. Len(With(s.files, s.index)[s.index]) = size
      BY <1>1, WithProperties DEF Exists
    <3> QED  BY <1>5, <1>6, <2>2, <3>1, <3>2, CardLimits
  <2> QED  BY <2>1, <2>2
<1>9. /\ e \in Modules /\ e.file = "none" /\ e.cache = <<>> /\ e.begun = s.begun
      /\ e.available = s.available /\ e.index = s.index /\ e.since = s.since
  BY DEF Modules
<1> HIDE DEF u, e
<1>10. CASE v = u
  <2>1. /\ Sound(o) /\ o.cache = u.cache /\ o.begun = u.begun
        /\ o.available = u.available /\ o.index = u.index /\ o.size = u.size
        /\ o.since = u.since /\ o.hurt = u.hurt
        /\ \/ o.file = "none" /\ o.files = u.files
           \/ o.file = "good" /\ o.files = With(u.files, u.index) /\ Usable(u)
    BY <1>3, <1>6, <1>10, OpenProperties
  <2> QED  BY <1>6, <1>7, <1>8, <2>1
<1>11. ASSUME NEW b \in {s, e}, v \in Hurt(b)
       PROVE  /\ Sound(o) /\ o.cache = <<>> /\ o.begun = s.begun
              /\ o.available = s.available /\ o.index = s.index /\ o.since = s.since
              /\ o.file = "none" \/ (o.file = "good" /\ Usable(s))
              /\ o.hurt # 0
  <2>1. /\ v \in Modules /\ v.cache = <<>> /\ v.begun = s.begun
        /\ v.available = s.available /\ v.index = s.index /\ v.since = s.since
        /\ v.hurt # 0
    <3>1. /\ b \in Modules /\ b.cache = <<>> /\ b.begun = s.begun
          /\ b.available = s.available /\ b.index = s.index /\ b.since = s.since
      BY <1>9
    <3> QED  BY <1>11, <3>1, HurtProperties
  <2>2. /\ Sound(o) /\ o.cache = v.cache /\ o.begun = v.begun
        /\ o.available = v.available /\ o.index = v.index
        /\ o.since = v.since /\ o.hurt = v.hurt
        /\ o.file = "none" \/ (o.file = "good" /\ Usable(v))
    BY <1>3, <2>1, OpenProperties
  <2> QED  BY <2>1, <2>2 DEF Usable
<1> QED  BY <1>3, <1>10, <1>11

-----------------------------------------------------------------------------
(* The inductive invariants, which each call restores: of the card's       *)
(* bounds, and, if the module looks between a removal and an insertion,    *)
(* of the order: the files' own bounds and the order until a file that was *)
(* to be read or removed was not.                                          *)

\* The size kept is that of the file, and no file is too long by more than one
\* write.
Fits(s) ==
    /\ s.file = "good" => s.size = Len(LogOf(s)[s.index])
    /\ \A i \in DOMAIN LogOf(s) : Len(LogOf(s)[i]) < maxFileSize_ + Max(Lengths)

\* Within a call: the file may have become too long, and a flush may be due.
CardSound(s) ==
    /\ Sound(s)
    /\ s.file = "good" => s.begun /\ s.available /\ card = "in"
    /\ s.file # "good" => s.cache = <<>>
    /\ s.file # "none" => s.available
    /\ Len(s.cache) <= s.since
    /\ s.hurt = 0 => Fits(s)

\* Between calls neither is so.
CardOK(s) ==
    /\ CardSound(s)
    /\ s.hurt = 0 /\ s.file = "good" => s.size < maxFileSize_
    /\ s.since < FLUSH_THRESHOLD

InOrder(s, r) ==
    /\ s.file = "stale" => card = "out"
    /\ IF s.file = "good" THEN Ring(LogOf(s), s.index, r)
       ELSE \E p \in FileNumbers : RingWithRoom(s.files, p, r)
Ordered(s, r) == s.hurt = 0 => InOrder(s, r)

LEMMA NothingCached ==
    ASSUME NEW s, Sound(s), s.cache = <<>>
    PROVE  LogOf(s) = s.files
<1>1. CASE s.file = "good"
  <2>1. /\ s.index \in DOMAIN s.files /\ s.files[s.index] \in Seq(Nat)
        /\ s.files \in [DOMAIN s.files -> Seq(Nat)]
    BY <1>1, LogsProperties DEF Sound, Modules
  <2>2. s.files[s.index] \o <<>> = s.files[s.index]
    BY <2>1, ConcatEmptySeq
  <2>3. LogOf(s) = [s.files EXCEPT ![s.index] = s.files[s.index] \o <<>>]
    BY <1>1 DEF LogOf
  <2> QED  BY <2>1, <2>2, <2>3
<1> QED  BY <1>1 DEF LogOf

LEMMA PrefixOfConcat ==
    ASSUME NEW a \in Seq(Nat), NEW b \in Seq(Nat)
    PROVE  /\ Len(a) <= Len(a \o b)
           /\ \A i \in 1..Len(a) : (a \o b)[i] = a[i]
<1>1. Len(a) \in Nat /\ Len(b) \in Nat
  BY LenProperties
<1>2. Len(a \o b) = Len(a) + Len(b)
  BY ConcatProperties
<1>3. ASSUME NEW i \in 1..Len(a) PROVE (a \o b)[i] = a[i]
  <2>1. i \in 1..Len(a) + Len(b) /\ i <= Len(a)
    BY <1>1
  <2> QED  BY <2>1, ConcatProperties
<1> QED  BY <1>1, <1>2, <1>3

\* What is on the card is in the log.
LEMMA CardInLog ==
    ASSUME NEW s, Sound(s)
    PROVE  /\ Bytes(s.files) \subseteq Bytes(LogOf(s))
           /\ \A i \in DOMAIN s.files : Len(s.files[i]) <= Len(LogOf(s)[i])
<1>1. s.files \in Logs /\ LogOf(s) \in Logs /\ DOMAIN LogOf(s) = DOMAIN s.files
  BY LogOfProperties DEF Sound, Modules
<1>2. ASSUME NEW f \in DOMAIN s.files
      PROVE  /\ Len(s.files[f]) <= Len(LogOf(s)[f])
             /\ \A i \in 1..Len(s.files[f]) : LogOf(s)[f][i] = s.files[f][i]
  <2>0. s.files[f] \in Seq(Nat) /\ Len(s.files[f]) \in Nat
    BY <1>1, LogsProperties
  <2>1. CASE f # s.index \/ s.file # "good"
    <3>1. LogOf(s)[f] = s.files[f]
      BY <2>1, LogOfProperties
    <3> QED  BY <2>0, <3>1
  <2>2. CASE f = s.index /\ s.file = "good"
    <3>1. s.cache \in Seq(Nat) /\ LogOf(s)[f] = s.files[f] \o s.cache
      BY <2>2, LogOfProperties DEF Sound, Modules
    <3>2. /\ Len(s.files[f]) <= Len(s.files[f] \o s.cache)
          /\ \A i \in 1..Len(s.files[f]) :
                (s.files[f] \o s.cache)[i] = s.files[f][i]
      BY <2>0, <3>1, PrefixOfConcat
    <3> QED  BY <3>1, <3>2
  <2> QED  BY <2>1, <2>2
<1>3. ASSUME NEW x \in Bytes(s.files) PROVE x \in Bytes(LogOf(s))
  <2>1. PICK f \in DOMAIN s.files : \E i \in 1..Len(s.files[f]) : x = s.files[f][i]
    BY <1>1, BytesProperties
  <2>2. PICK i \in 1..Len(s.files[f]) : x = s.files[f][i]
    BY <2>1
  <2>3. i \in 1..Len(LogOf(s)[f]) /\ x = LogOf(s)[f][i]
    BY <1>1, <1>2, <2>2, LogsProperties
  <2> QED  BY <1>1, <2>3, BytesProperties
<1> QED  BY <1>2, <1>3

LEMMA RotateKeeps ==
    ASSUME NEW s, CardSound(s), s.since < FLUSH_THRESHOLD, s.file # "none",
           NEW o \in RotateIfNeeded(s)
    PROVE  CardOK(o)
<1>1. Sound(s) /\ s.size \in Nat /\ LogOf(s) \in Logs
  BY LogOfProperties DEF CardSound, Sound, Modules
<1>2. CASE s.size < maxFileSize_
  BY <1>2 DEF RotateIfNeeded, CardOK
<1>3. CASE s.size >= maxFileSize_
  <2> DEFINE d == (s.index + 1) % maxFiles_
  <2>1. /\ Sound(o) /\ o.index = d /\ o.cache = <<>> /\ o.size = 0
        /\ o.begun = s.begun /\ o.available = s.available /\ o.since = s.since
        /\ o.file = "none" \/ (o.file = "good" /\ Usable(s))
        /\ o.hurt = 0 =>
             /\ s.hurt = 0
             /\ \/ /\ o.file = "none"
                   /\ o.files = IF Usable(s) THEN Without(LogOf(s), d) ELSE LogOf(s)
                \/ /\ o.file = "good" /\ Usable(s)
                   /\ o.files = With(Without(LogOf(s), d), d)
    BY <1>1, <1>3, RotateProperties
  <2>2. d \in FileNumbers
    BY <1>1, FileAfter DEF Sound, Modules
  <2> HIDE DEF d
  <2>3. LogOf(o) = o.files
    BY <2>1, NothingCached
  <2>4. /\ Without(LogOf(s), d) \in Logs
        /\ DOMAIN Without(LogOf(s), d) = DOMAIN LogOf(s) \ {d}
        /\ \A f \in DOMAIN LogOf(s) \ {d} : Without(LogOf(s), d)[f] = LogOf(s)[f]
    BY <1>1, WithoutProperties
  <2>5. /\ DOMAIN With(Without(LogOf(s), d), d) = DOMAIN LogOf(s) \cup {d}
        /\ \A f \in DOMAIN LogOf(s) \ {d} :
              With(Without(LogOf(s), d), d)[f] = LogOf(s)[f]
        /\ Len(With(Without(LogOf(s), d), d)[d]) = 0
    <3> DEFINE w == Without(LogOf(s), d)
    <3>1. w \in Logs /\ d \notin DOMAIN w /\ DOMAIN w \cup {d} = DOMAIN LogOf(s) \cup {d}
      BY <2>4
    <3>2. /\ DOMAIN With(w, d) = DOMAIN w \cup {d} /\ Len(With(w, d)[d]) = 0
          /\ \A f \in DOMAIN w : With(w, d)[f] = w[f]
      BY <2>2, <3>1, WithProperties
    <3> QED  BY <2>4, <3>1, <3>2
  <2>6. ASSUME o.hurt = 0 PROVE Fits(o) /\ o.size < maxFileSize_
    <3>1. \A i \in DOMAIN LogOf(s) : Len(LogOf(s)[i]) < maxFileSize_ + Max(Lengths)
      BY <2>1, <2>6 DEF CardSound, Fits
    <3>2. \A i \in DOMAIN o.files : Len(o.files[i]) < maxFileSize_ + Max(Lengths)
      BY <2>1, <2>4, <2>5, <2>6, <3>1, CardLimits
    <3>3. o.file = "good" => o.size = Len(o.files[d])
      BY <2>1, <2>5, <2>6
    <3> QED  BY <2>1, <2>3, <3>2, <3>3, CardLimits DEF Fits
  <2>7. Len(o.cache) = 0 /\ o.since \in Nat
    BY <2>1, EmptySeq DEF Sound, Modules
  <2>8. o.file = "good" => o.begun /\ o.available /\ card = "in"
    BY <2>1 DEF CardSound, Usable
  <2> QED
    BY <2>1, <2>6, <2>7, <2>8 DEF CardOK, CardSound
<1> QED  BY <1>1, <1>2, <1>3, CardLimits

LEMMA RotateOrders ==
    ASSUME NEW s, CardSound(s), s.file # "none", NEW r, Ordered(s, r),
           NEW o \in RotateIfNeeded(s)
    PROVE  /\ Ordered(o, r) /\ (o.hurt = 0 => s.hurt = 0)
           /\ o.hurt = 0 => o = s \/ Sheds(LogOf(s), o.files)
<1>1. Sound(s) /\ s.size \in Nat /\ LogOf(s) \in Logs
  BY LogOfProperties DEF CardSound, Sound, Modules
<1>2. CASE s.size < maxFileSize_
  BY <1>2 DEF RotateIfNeeded
<1>3. ASSUME s.size >= maxFileSize_, o.hurt = 0
      PROVE  s.hurt = 0 /\ InOrder(o, r) /\ Sheds(LogOf(s), o.files)
  <2> DEFINE d == (s.index + 1) % maxFiles_
  <2>1. /\ Sound(o) /\ o.index = d /\ o.cache = <<>> /\ s.hurt = 0
        /\ \/ /\ o.file = "none"
              /\ o.files = IF Usable(s) THEN Without(LogOf(s), d) ELSE LogOf(s)
           \/ /\ o.file = "good" /\ Usable(s)
              /\ o.files = With(Without(LogOf(s), d), d)
    BY <1>1, <1>3, RotateProperties
  <2>2. d \in FileNumbers
    BY <1>1, FileAfter DEF Sound, Modules
  <2>3. LogOf(o) = o.files
    BY <2>1, NothingCached
  <2>0. InOrder(s, r) /\ Fits(s)
    BY <2>1 DEF Ordered, CardSound
  <2>4. CASE s.file = "good"
    <3>1. /\ Ring(LogOf(s), s.index, r) /\ s.index \in DOMAIN LogOf(s) /\ Usable(s)
          /\ Len(LogOf(s)[s.index]) >= maxFileSize_
      BY <1>1, <1>3, <2>0, <2>4, LogOfProperties
         DEF CardSound, Sound, Fits, InOrder, Usable
    <3>2. RingWithRoom(Without(LogOf(s), d), d, r) /\ Sheds(LogOf(s), Without(LogOf(s), d))
      BY <3>1, RingTurnsOn
    <3> HIDE DEF d
    <3>3. /\ RingWithRoom(With(Without(LogOf(s), d), d), d, r)
          /\ Bytes(With(Without(LogOf(s), d), d)) = Bytes(Without(LogOf(s), d))
      BY <3>2, RingOpens
    <3>4. Sheds(LogOf(s), With(Without(LogOf(s), d), d))
      BY <3>2, <3>3 DEF Sheds
    <3> QED  BY <2>1, <2>2, <2>3, <3>1, <3>2, <3>3, <3>4 DEF InOrder, RingWithRoom
  <2>5. CASE s.file # "good"
    <3>1. s.file = "stale" /\ card = "out" /\ LogOf(s) = s.files /\ ~Usable(s)
      BY <1>1, <2>0, <2>5 DEF Sound, Modules, InOrder, LogOf, Usable
    <3>2. o.file = "none" /\ o.files = s.files /\ Sheds(LogOf(s), o.files)
      BY <2>1, <3>1 DEF Sheds
    <3> QED  BY <2>0, <2>1, <2>5, <3>2 DEF InOrder
  <2> QED  BY <2>1, <2>4, <2>5
<1> QED  BY <1>1, <1>2, <1>3, CardLimits DEF Ordered

-----------------------------------------------------------------------------
(* write.                                                                  *)

Numbered(r, n) == [i \in 1..n |-> r + i]

LEMMA NumberedProperties ==
    ASSUME NEW r \in Nat, NEW n \in Nat
    PROVE  /\ Numbered(r, n) \in Seq(Nat) /\ Len(Numbered(r, n)) = n
           /\ \A i \in 1..n : Numbered(r, n)[i] = r + i
BY DEF Numbered

\* The bytes are accepted by the file.
LEMMA Concatenations ==
    ASSUME NEW a \in Seq(Nat), NEW b \in Seq(Nat), NEW c \in Seq(Nat)
    PROVE  (a \o b) \o c = a \o (b \o c)
BY ConcatAssociative

LEMMA ConcatNumbered ==
    ASSUME NEW a \in Seq(Nat), NEW r \in Nat, NEW k \in Nat
    PROVE  LET t == a \o Numbered(r, k)
           IN  /\ t \in Seq(Nat) /\ Len(t) = Len(a) + k
               /\ \A i \in 1..Len(a) + k :
                     t[i] = IF i <= Len(a) THEN a[i] ELSE r + (i - Len(a))
<1> DEFINE b == Numbered(r, k)
<1>1. b \in Seq(Nat) /\ Len(b) = k /\ \A i \in 1..k : b[i] = r + i
  BY NumberedProperties
<1> HIDE DEF b
<1>2. /\ a \o b \in Seq(Nat) /\ Len(a \o b) = Len(a) + Len(b)
      /\ \A i \in 1..Len(a) + Len(b) :
            (a \o b)[i] = IF i <= Len(a) THEN a[i] ELSE b[i - Len(a)]
  BY <1>1, ConcatProperties
<1>3. Len(a) \in Nat
  BY LenProperties
<1>4. ASSUME NEW i \in 1..Len(a) + k, ~(i <= Len(a))
      PROVE  b[i - Len(a)] = r + (i - Len(a))
  <2>1. i - Len(a) \in 1..k
    BY <1>3, <1>4
  <2> QED  BY <1>1, <2>1
<1> QED  BY <1>1, <1>2, <1>4 DEF b

\* Bytes in order, and those that came next, are in order.
LEMMA NewestFollow ==
    ASSUME NEW n \in Nat, NEW r \in Nat, NEW k \in Nat, NEW a, NEW t,
           \A i \in 1..n : a[i] \in Nat /\ a[i] <= r,
           \A i, j \in 1..n : i < j => a[i] < a[j],
           \A i \in 1..n + k : t[i] = IF i <= n THEN a[i] ELSE r + (i - n)
    PROVE  /\ \A i \in 1..n + k : t[i] <= r + k
           /\ \A i, j \in 1..n + k : i < j => t[i] < t[j]
           /\ \A j \in 1..n + k : (j \in 1..n /\ t[j] = a[j]) \/ r < t[j]
<1>1. ASSUME NEW i \in 1..n + k
      PROVE  /\ t[i] \in Nat /\ t[i] <= r + k
             /\ \/ i \in 1..n /\ t[i] = a[i] /\ t[i] <= r
                \/ n < i /\ t[i] = r + (i - n) /\ r < t[i]
  <2>1. CASE i <= n
    <3>1. i \in 1..n /\ t[i] = a[i]
      BY <2>1
    <3> QED  BY <3>1
  <2>2. CASE n < i
    <3>1. t[i] = r + (i - n)
      BY <2>2
    <3> QED  BY <2>2, <3>1
  <2> QED  BY <2>1, <2>2
<1>2. ASSUME NEW i \in 1..n + k, NEW j \in 1..n + k, i < j PROVE t[i] < t[j]
  <2>1. CASE j \in 1..n /\ t[j] = a[j]
    <3>1. i \in 1..n /\ ~(n < i)
      BY <1>2, <2>1
    <3>2. t[i] = a[i]
      BY <1>1, <3>1
    <3> QED  BY <1>2, <2>1, <3>1, <3>2
  <2>2. CASE n < j /\ t[j] = r + (j - n) /\ r < t[j]
    <3>1. CASE t[i] <= r
      BY <1>1, <2>2, <3>1
    <3>2. CASE n < i /\ t[i] = r + (i - n)
      BY <1>2, <2>2, <3>2
    <3> QED  BY <1>1, <3>1, <3>2
  <2> QED  BY <1>1, <2>1, <2>2
<1> QED  BY <1>1, <1>2

LEMMA WrittenLog ==
    ASSUME NEW s, Sound(s), NEW b \in Seq(Nat), NEW n \in Nat
    PROVE  LET u == Written(s, b, n)
           IN  /\ Sound(u) /\ u.files = s.files /\ u.index = s.index /\ u.file = s.file
               /\ u.begun = s.begun /\ u.available = s.available
               /\ u.size = s.size + n /\ u.since = s.since + n /\ u.hurt = s.hurt
               /\ u.cache = IF s.file = "good" THEN s.cache \o b ELSE <<>>
               /\ s.file # "good" => LogOf(u) = s.files
               /\ s.file = "good" =>
                     LogOf(u) = [LogOf(s) EXCEPT ![s.index] = LogOf(s)[s.index] \o b]
<1> DEFINE u == Written(s, b, n)
           cache == IF s.file = "good" THEN s.cache \o b ELSE <<>>
<1>1. cache \in Seq(Nat)
  BY EmptySeq, ConcatProperties DEF Sound, Modules
<1>2. u = [s EXCEPT !.cache = cache, !.size = s.size + n, !.since = s.since + n]
  BY DEF Written, Sound, Modules
<1> HIDE DEF u, cache
<1>3. /\ u \in Modules /\ u.files = s.files /\ u.index = s.index /\ u.file = s.file
      /\ u.begun = s.begun /\ u.available = s.available
      /\ u.size = s.size + n /\ u.since = s.since + n /\ u.cache = cache
      /\ u.hurt = s.hurt
  <2>1. s \in Modules /\ s.size + n \in Nat /\ s.since + n \in Nat
    BY DEF Sound, Modules
  <2> QED  BY <1>1, <1>2, <2>1 DEF Modules
<1>4. Sound(u)
  BY <1>3 DEF Sound
<1>5. ASSUME s.file = "good"
      PROVE  LogOf(u) = [LogOf(s) EXCEPT ![s.index] = LogOf(s)[s.index] \o b]
  <2>1. /\ s.index \in DOMAIN s.files /\ s.files[s.index] \in Seq(Nat)
        /\ s.cache \in Seq(Nat) /\ s.files \in [DOMAIN s.files -> Seq(Nat)]
    BY <1>5, LogsProperties DEF Sound, Modules
  <2>2. s.files[s.index] \o (s.cache \o b) = (s.files[s.index] \o s.cache) \o b
    BY <2>1, Concatenations
  <2>3. LogOf(u) = [s.files EXCEPT ![s.index] = s.files[s.index] \o (s.cache \o b)]
    BY <1>3, <1>5 DEF LogOf, cache
  <2>4. LogOf(s) = [s.files EXCEPT ![s.index] = s.files[s.index] \o s.cache]
    BY <1>5 DEF LogOf
  <2>5. LogOf(s)[s.index] = s.files[s.index] \o s.cache
    BY <2>1, <2>4
  <2> QED  BY <2>1, <2>2, <2>3, <2>4, <2>5
<1>6. s.file # "good" => LogOf(u) = s.files
  BY <1>3 DEF LogOf
<1> QED  BY <1>3, <1>4, <1>5, <1>6 DEF cache, u

LEMMA WrittenKeeps ==
    ASSUME NEW s, CardOK(s), s.file # "none", NEW b \in Seq(Nat), NEW n \in Nat,
           Len(b) <= Max(Lengths), s.file = "good" => n = Len(b)
    PROVE  CardSound(Written(s, b, n)) /\ Written(s, b, n).file # "none"
<1> DEFINE u == Written(s, b, n)
<1>1. Sound(s) /\ s.size \in Nat /\ s.since \in Nat /\ s.cache \in Seq(Nat)
  BY DEF CardOK, CardSound, Sound, Modules
<1>2. /\ Sound(u) /\ u.files = s.files /\ u.index = s.index /\ u.file = s.file
      /\ u.begun = s.begun /\ u.available = s.available
      /\ u.size = s.size + n /\ u.since = s.since + n /\ u.hurt = s.hurt
      /\ u.cache = IF s.file = "good" THEN s.cache \o b ELSE <<>>
      /\ s.file # "good" => LogOf(u) = s.files
      /\ s.file = "good" =>
            LogOf(u) = [LogOf(s) EXCEPT ![s.index] = LogOf(s)[s.index] \o b]
  BY <1>1, WrittenLog
<1> SUFFICES CardSound(u) /\ u.file # "none"
  OBVIOUS
<1> HIDE DEF u
<1>3. CASE s.file = "good"
  <2>1. /\ LogOf(s) \in Logs /\ s.index \in DOMAIN LogOf(s)
        /\ LogOf(s) \in [DOMAIN LogOf(s) -> Seq(Nat)] /\ LogOf(s)[s.index] \in Seq(Nat)
    BY <1>1, <1>3, LogOfProperties, LogsProperties DEF Sound
  <2>2. /\ DOMAIN LogOf(u) = DOMAIN LogOf(s)
        /\ \A f \in DOMAIN LogOf(s) : f # s.index => LogOf(u)[f] = LogOf(s)[f]
        /\ LogOf(u)[s.index] = LogOf(s)[s.index] \o b
    BY <1>2, <1>3, <2>1
  <2>3. /\ Len(LogOf(u)[s.index]) = Len(LogOf(s)[s.index]) + Len(b)
        /\ Len(u.cache) = Len(s.cache) + Len(b)
    BY <1>1, <1>2, <1>3, <2>1, <2>2, ConcatProperties
  <2>4. s.begun /\ s.available /\ card = "in" /\ Len(s.cache) <= s.since
    BY <1>3 DEF CardOK, CardSound
  <2>5. Len(s.cache) \in Nat /\ Len(b) \in Nat /\ n = Len(b)
    BY <1>1, <1>3, LenProperties
  <2>6. ASSUME s.hurt = 0 PROVE Fits(u)
    <3>1. /\ s.size = Len(LogOf(s)[s.index]) /\ s.size < maxFileSize_
          /\ \A i \in DOMAIN LogOf(s) : Len(LogOf(s)[i]) < maxFileSize_ + Max(Lengths)
      BY <1>3, <2>6 DEF CardOK, CardSound, Fits
    <3>2. Len(LogOf(u)[s.index]) < maxFileSize_ + Max(Lengths)
      BY <1>1, <2>3, <2>5, <3>1, CardLimits
    <3>3. \A i \in DOMAIN LogOf(u) : Len(LogOf(u)[i]) < maxFileSize_ + Max(Lengths)
      BY <2>2, <3>1, <3>2
    <3>4. u.size = Len(LogOf(u)[u.index])
      BY <1>1, <1>2, <2>3, <2>5, <3>1
    <3> QED  BY <3>3, <3>4 DEF Fits
  <2>7. Len(u.cache) <= u.since
    BY <1>1, <1>2, <2>3, <2>4, <2>5
  <2> QED  BY <1>2, <1>3, <2>4, <2>6, <2>7 DEF CardSound
<1>4. CASE s.file # "good"
  <2>1. Len(u.cache) = 0
    BY <1>2, <1>4, EmptySeq
  <2>2. LogOf(u) = LogOf(s)
    BY <1>1, <1>2, <1>4, LogOfProperties
  <2> QED  BY <1>1, <1>2, <1>4, <2>1, <2>2 DEF CardSound, CardOK, Fits
<1> QED  BY <1>2, <1>3, <1>4

LEMMA WrittenOrders ==
    ASSUME NEW s, Sound(s), NEW r \in Nat, Ordered(s, r), NEW k \in Nat, NEW n \in Nat
    PROVE  Ordered(Written(s, Numbered(r, k), n), r + k)
<1> DEFINE b == Numbered(r, k)
           u == Written(s, b, n)
           p == s.index
<1>1. /\ u.files = s.files /\ u.index = p /\ u.file = s.file /\ u.hurt = s.hurt
      /\ s.file = "good" =>
            LogOf(u) = [LogOf(s) EXCEPT ![p] = LogOf(s)[p] \o b]
  <2>1. b \in Seq(Nat)
    BY NumberedProperties
  <2> HIDE DEF b
  <2> QED  BY <2>1, WrittenLog
<1> HIDE DEF u
<1> SUFFICES ASSUME InOrder(s, r), u.hurt = 0 PROVE InOrder(u, r + k)
  BY <1>1 DEF Ordered, u
<1>2. CASE s.file = "good"
  <2> DEFINE L == LogOf(s)
             t == L[p] \o b
  <2>1. L \in Logs /\ p \in DOMAIN L /\ Ring(L, p, r) /\ DOMAIN L \subseteq FileNumbers
    BY <1>2, LogOfProperties, LogsProperties DEF Sound, InOrder
  <2>2. LogOf(u) = [L EXCEPT ![p] = t]
    BY <1>1, <1>2
  <2> HIDE DEF L, p
  <2>3. /\ L[p] \in Seq(Nat)
        /\ \A f \in DOMAIN L : \A i \in 1..Len(L[f]) : L[f][i] \in Nat /\ L[f][i] <= r
        /\ \A i, j \in 1..Len(L[p]) : i < j => L[p][i] < L[p][j]
    BY <2>1, LogsProperties DEF Ring
  <2>4. /\ t \in Seq(Nat)
        /\ \A i \in 1..Len(t) : t[i] <= r + k
        /\ \A i, j \in 1..Len(t) : i < j => t[i] < t[j]
        /\ \A j \in 1..Len(t) : (j \in 1..Len(L[p]) /\ t[j] = L[p][j]) \/ r < t[j]
    <3> DEFINE len == Len(L[p])
    <3>1. len \in Nat /\ \A i \in 1..len : L[p][i] \in Nat /\ L[p][i] <= r
      BY <2>1, <2>3, LenProperties
    <3>2. /\ t \in Seq(Nat) /\ Len(t) = len + k
          /\ \A i \in 1..len + k : t[i] = IF i <= len THEN L[p][i] ELSE r + (i - len)
      BY <2>3, ConcatNumbered
    <3> HIDE DEF t
    <3>3. \A i, j \in 1..len : i < j => L[p][i] < L[p][j]
      BY <2>3
    <3> HIDE DEF len
    <3>4. /\ \A i \in 1..len + k : t[i] <= r + k
          /\ \A i, j \in 1..len + k : i < j => t[i] < t[j]
          /\ \A j \in 1..len + k : (j \in 1..len /\ t[j] = L[p][j]) \/ r < t[j]
      BY <3>1, <3>2, <3>3, NewestFollow
    <3> QED  BY <3>2, <3>4 DEF len
  <2> HIDE DEF t
  <2>5. \A f \in DOMAIN L \ {p} : \A i \in 1..Len(L[f]) : L[f][i] <= r + k
    BY <2>3
  <2>6. ASSUME NEW f \in DOMAIN L \ {p}, NEW i \in 1..Len(L[f]), NEW j \in 1..Len(t)
        PROVE  L[f][i] < t[j]
    <3>1. Before(p, f, p)
      BY <2>1, CardLimits DEF Before, FileNumbers
    <3>2. CASE j \in 1..Len(L[p]) /\ t[j] = L[p][j]
      BY <2>1, <3>1, <3>2 DEF Ring
    <3>3. CASE r < t[j]
      <4>1. L[f][i] \in Nat /\ L[f][i] <= r /\ t[j] \in Nat
        BY <2>3, <2>4, ElementOfSeq
      <4> QED  BY <3>3, <4>1
    <3> QED  BY <2>4, <3>2, <3>3
  <2>7. Ring([L EXCEPT ![p] = t], p, r + k)
    <3>1. r + k \in Nat
      OBVIOUS
    <3> QED  BY <2>1, <2>4, <2>5, <2>6, <3>1, NewestChanges
  <2> QED  BY <1>1, <1>2, <2>2, <2>7 DEF InOrder
<1>3. CASE s.file # "good"
  <2>1. PICK q \in FileNumbers : RingWithRoom(s.files, q, r)
    BY <1>3 DEF InOrder
  <2>2. RingWithRoom(s.files, q, r + k)
    BY <2>1, RingLater
  <2> QED  BY <1>1, <1>3, <2>2 DEF InOrder
<1> QED  BY <1>2, <1>3

\* The flush that may be due.
LEMMA FlushKeeps ==
    ASSUME NEW s, CardSound(s), NEW v \in FlushIfDue(s)
    PROVE  /\ CardSound(v) /\ v.since < FLUSH_THRESHOLD
           /\ LogOf(v) = LogOf(s) /\ v.index = s.index /\ v.hurt = s.hurt
           /\ v.file = s.file \/ (s.file = "stale" /\ v.file = "none")
           /\ v.files = s.files \/ v.files = LogOf(s)
<1>1. Sound(s) /\ s.since \in Nat /\ s \in Modules
  BY DEF CardSound, Sound, Modules
<1>2. CASE s.since < FLUSH_THRESHOLD
  <2>1. v = s
    BY <1>2 DEF FlushIfDue
  <2> QED  BY <1>2, <2>1
<1>3. CASE ~(s.since < FLUSH_THRESHOLD)
  <2> DEFINE t == [s EXCEPT !.since = 0]
             w == Synced(t)
  <2>1. /\ t \in Modules /\ t.files = s.files /\ t.index = s.index /\ t.file = s.file
        /\ t.begun = s.begun /\ t.available = s.available /\ t.size = s.size
        /\ t.cache = s.cache /\ t.since = 0 /\ t.hurt = s.hurt
    BY <1>1 DEF Modules
  <2>2. v = w \/ (t.file = "stale" /\ v = [t EXCEPT !.file = "none"])
    <3>1. v \in Flush(t)
      BY <1>3 DEF FlushIfDue
    <3> HIDE DEF t
    <3> QED  BY <3>1 DEF Flush
  <2> HIDE DEF t
  <2>3. Sound(t) /\ LogOf(t) = LogOf(s)
    BY <1>1, <2>1 DEF Sound, LogOf
  <2>4. /\ Sound(w) /\ w.files = LogOf(s) /\ w.cache = <<>> /\ w.begun = s.begun
        /\ w.file = s.file /\ w.available = s.available /\ w.index = s.index
        /\ w.size = s.size /\ w.since = 0 /\ LogOf(w) = LogOf(s) /\ w.hurt = s.hurt
    BY <2>1, <2>3, SyncedProperties
  <2> HIDE DEF w
  <2>5. Len(<<>>) = 0 /\ 0 < FLUSH_THRESHOLD
    BY EmptySeq, CardLimits
  <2>6. CASE v = w
    <3>1. Len(w.cache) <= w.since
      BY <2>4, <2>5
    <3>2. /\ s.file = "good" => s.begun /\ s.available /\ card = "in"
          /\ s.file # "none" => s.available
          /\ s.hurt = 0 => Fits(s)
      BY DEF CardSound
    <3>3. CardSound(w)
      BY <2>4, <3>1, <3>2 DEF CardSound, Fits
    <3> QED  BY <2>4, <2>5, <2>6, <3>3
  <2>7. CASE t.file = "stale" /\ v = [t EXCEPT !.file = "none"]
    <3>1. /\ v \in Modules /\ v.files = s.files /\ v.index = s.index /\ v.file = "none"
          /\ v.cache = s.cache /\ v.since = 0 /\ s.file = "stale" /\ v.hurt = s.hurt
      BY <2>1, <2>7 DEF Modules
    <3>2. Sound(v) /\ LogOf(v) = s.files /\ LogOf(s) = s.files /\ s.cache = <<>>
      BY <3>1 DEF Sound, LogOf, CardSound
    <3> QED  BY <2>5, <3>1, <3>2 DEF CardSound, Fits
  <2> QED  BY <2>2, <2>6, <2>7
<1> QED  BY <1>2, <1>3

\* Ejected by the module's own judgement.
LEMMA EjectedKeeps ==
    ASSUME NEW s, CardSound(s), s.since < FLUSH_THRESHOLD, s.file = "none"
    PROVE  /\ CardOK(Ejected(s)) /\ Ejected(s).files = s.files
           /\ Ejected(s).file = "none" /\ Ejected(s).hurt = s.hurt
<1> DEFINE o == Ejected(s)
<1>1. s \in Modules /\ 0 \in 0..maxFiles_
  BY CardLimits DEF CardSound, Sound
<1>2. /\ o \in Modules /\ o.files = s.files /\ o.file = "none" /\ o.cache = s.cache
      /\ o.since = s.since /\ o.hurt = s.hurt
  BY <1>1 DEF Ejected, Modules
<1>3. Sound(o) /\ LogOf(o) = LogOf(s)
  BY <1>2 DEF Sound, LogOf
<1> HIDE DEF o
<1>4. CardOK(o)
  BY <1>2, <1>3 DEF CardOK, CardSound, Fits
<1> QED  BY <1>2, <1>4 DEF o

\* How a write gets along.
LEMMA WriteGoes ==
    ASSUME NEW s, CardOK(s), NEW b \in Seq(Nat), Len(b) <= Max(Lengths),
           NEW o \in Write(s, b)
    PROVE  \/ o = s /\ s.file = "none"
           \/ \E n \in Nat : \E v \in FlushIfDue(Written(s, b, n)) :
                /\ s.file # "none" /\ (s.file = "good" => n = Len(b))
                /\ o \in AfterFlush(v)
<1>1. s.file # "none" => s.available
  BY DEF CardOK, CardSound
<1>2. CASE s.file = "none"
  BY <1>2 DEF Write
<1>3. CASE s.file # "none"
  <2> DEFINE accepted == {Len(b)} \cup IF s.file = "stale" THEN {0} ELSE {}
  <2>1. o \in Then(Then({Written(s, b, n) : n \in accepted}, FlushIfDue), AfterFlush)
    BY <1>1, <1>3 DEF Write
  <2>2. PICK v \in Then({Written(s, b, n) : n \in accepted}, FlushIfDue) :
          o \in AfterFlush(v)
    BY <2>1 DEF Then
  <2>3. PICK n \in accepted : v \in FlushIfDue(Written(s, b, n))
    BY <2>2 DEF Then
  <2>4. n \in Nat /\ (s.file = "good" => n = Len(b))
    BY LenProperties
  <2> QED  BY <1>3, <2>2, <2>3, <2>4
<1> QED  BY <1>2, <1>3

LEMMA WriteKeeps ==
    ASSUME NEW s, CardOK(s), NEW b \in Seq(Nat), Len(b) <= Max(Lengths),
           NEW o \in Write(s, b)
    PROVE  CardOK(o)
<1>1. CASE o = s
  BY <1>1
<1>2. ASSUME NEW n \in Nat, NEW v \in FlushIfDue(Written(s, b, n)),
             s.file # "none", s.file = "good" => n = Len(b), o \in AfterFlush(v)
      PROVE  CardOK(o)
  <2>1. CardSound(Written(s, b, n))
    BY <1>2, WrittenKeeps
  <2>2. CardSound(v) /\ v.since < FLUSH_THRESHOLD
    BY <1>2, <2>1, FlushKeeps
  <2>3. CASE v.file = "none"
    BY <1>2, <2>2, <2>3, EjectedKeeps DEF AfterFlush
  <2>4. CASE v.file # "none"
    BY <1>2, <2>2, <2>4, RotateKeeps DEF AfterFlush
  <2> QED  BY <2>3, <2>4
<1> QED  BY <1>1, <1>2, WriteGoes

LEMMA WriteOrders ==
    ASSUME NEW s, CardOK(s), NEW r \in Nat, Ordered(s, r), NEW k \in Lengths,
           NEW o \in Write(s, Numbered(r, k))
    PROVE  Ordered(o, r + k) /\ (o.hurt = 0 => Sheds(s.files, o.files))
<1> DEFINE b == Numbered(r, k)
<1>1. k \in Nat /\ b \in Seq(Nat) /\ Len(b) = k /\ Len(b) <= Max(Lengths)
  BY CardLimits, NumberedProperties
<1>2. Sound(s)
  BY DEF CardOK, CardSound
<1>3. ASSUME o = s, s.file = "none", o.hurt = 0
      PROVE  InOrder(o, r + k) /\ Sheds(s.files, o.files)
  <2>1. PICK q \in FileNumbers : RingWithRoom(s.files, q, r)
    BY <1>3 DEF Ordered, InOrder
  <2>2. RingWithRoom(s.files, q, r + k)
    BY <1>1, <2>1, RingLater
  <2> QED  BY <1>3, <2>2 DEF InOrder, Sheds
<1>4. ASSUME NEW n \in Nat, NEW v \in FlushIfDue(Written(s, b, n)),
             s.file # "none", s.file = "good" => n = Len(b), o \in AfterFlush(v),
             o.hurt = 0
      PROVE  Ordered(o, r + k) /\ Sheds(s.files, o.files)
  <2> DEFINE u == Written(s, b, n)
  <2>1. CardSound(u) /\ Ordered(u, r + k) /\ u.files = s.files /\ u.file = s.file
    <3>1. CardSound(u)
      BY <1>1, <1>4, WrittenKeeps
    <3>2. Ordered(u, r + k)
      BY <1>1, <1>2, WrittenOrders
    <3>3. u.files = s.files /\ u.file = s.file
      BY <1>1, <1>2, WrittenLog
    <3> QED  BY <3>1, <3>2, <3>3
  <2>2. /\ CardSound(v) /\ v.since < FLUSH_THRESHOLD
        /\ LogOf(v) = LogOf(u) /\ v.index = u.index /\ v.hurt = u.hurt
        /\ v.file = u.file \/ (u.file = "stale" /\ v.file = "none")
        /\ v.files = s.files \/ v.files = LogOf(u)
    BY <1>4, <2>1, FlushKeeps
  <2>3. Sound(u) /\ Sound(v) /\ Bytes(s.files) \subseteq Bytes(LogOf(u))
    <3>1. Sound(u) /\ Sound(v)
      BY <2>1, <2>2 DEF CardSound
    <3> QED  BY <2>1, <3>1, CardInLog
  <2> HIDE DEF u
  <2>4. Ordered(v, r + k)
    <3>1. CASE u.file = "good"
      BY <2>1, <2>2, <3>1 DEF Ordered, InOrder
    <3>2. CASE u.file # "good"
      <4>1. v.file # "good" /\ LogOf(u) = u.files /\ LogOf(v) = v.files
        BY <2>2, <3>2 DEF LogOf
      <4> QED  BY <2>1, <2>2, <3>2, <4>1 DEF Ordered, InOrder
    <3> QED  BY <3>1, <3>2
  <2>5. Bytes(s.files) \subseteq Bytes(v.files)
    BY <2>2, <2>3
  <2>6. CASE v.file = "none"
    <3>1. o = Ejected(v)
      BY <1>4, <2>6 DEF AfterFlush
    <3>2. o.files = v.files /\ o.file = "none" /\ o.hurt = v.hurt
      BY <2>2, <2>6, <3>1, EjectedKeeps
    <3> QED  BY <2>4, <2>5, <2>6, <3>2 DEF Ordered, InOrder, Sheds
  <2>7. CASE v.file # "none"
    <3>1. o \in RotateIfNeeded(v)
      BY <1>4, <2>7 DEF AfterFlush
    <3>2. Ordered(o, r + k) /\ (o = v \/ Sheds(LogOf(v), o.files))
      BY <1>4, <2>2, <2>4, <2>7, <3>1, RotateOrders
    <3> QED  BY <2>2, <2>3, <2>5, <3>2 DEF Sheds
  <2> QED  BY <2>6, <2>7
<1> QED  BY <1>1, <1>3, <1>4, WriteGoes DEF Ordered

-----------------------------------------------------------------------------
(* init and poll.                                                          *)

\* How init goes, with a card or one that was there before.
LEMMA InitGoes ==
    ASSUME NEW s \in Modules, s.file = "none", s.cache = <<>>, NEW o \in InitCard(s)
    PROVE  \/ o = [s EXCEPT !.available = FALSE]
           \/ \E c \in Modules :
                  /\ c.files = s.files /\ c.file = "none"
                  /\ c.cache = <<>> /\ c.begun /\ c.since = s.since
                  /\ c.hurt = 0 =>
                       /\ s.hurt = 0
                       /\ \A p, r : RingWithRoom(s.files, p, r) /\ Usable(c) =>
                             \/ c.index = p
                             \/ c.index = 0 /\ p = maxFiles_ - 1 /\ p \in DOMAIN s.files
                  /\ \E q \in OpenNextFile(c) : o = [q EXCEPT !.available = (q.file # "none")]
<1> DEFINE t == [s EXCEPT !.begun = TRUE]
<1>1. CASE ~s.begun /\ card = "out"
  BY <1>1 DEF InitCard
<1>2. CASE ~(~s.begun /\ card = "out")
  <2>1. PICK q \in Then(Scanned(t), OpenNextFile) : o = [q EXCEPT !.available = (q.file # "none")]
    BY <1>2 DEF InitCard
  <2>2. PICK c \in Scanned(t) : q \in OpenNextFile(c)
    BY <2>1 DEF Then
  <2>3. /\ t \in Modules /\ t.files = s.files /\ t.file = "none" /\ t.cache = <<>>
        /\ t.begun /\ t.since = s.since /\ t.hurt = s.hurt
    BY DEF Modules
  <2> HIDE DEF t
  <2>4. /\ c \in Modules /\ c.files = s.files /\ c.file = "none" /\ c.cache = <<>>
        /\ c.begun /\ c.since = s.since /\ (c.hurt = 0 => s.hurt = 0)
    BY <2>3, ScannedProperties DEF Sound
  <2>5. ASSUME NEW p, NEW r, RingWithRoom(s.files, p, r), Usable(c), c.hurt = 0
        PROVE  c.index = p \/ (c.index = 0 /\ p = maxFiles_ - 1 /\ p \in DOMAIN s.files)
    <3>1. Usable(t)
      BY <2>3, <2>5 DEF Usable
    <3> QED  BY <2>3, <2>5, <3>1, ScanFinds
  <2> QED  BY <2>1, <2>2, <2>4, <2>5
<1> QED  BY <1>1, <1>2

\* With the newest file found, and made room in.
LEMMA RefreshedProperties ==
    ASSUME NEW c \in Modules, NEW p, NEW r, RingWithRoom(c.files, p, r), Usable(c),
           c.index = p \/ (c.index = 0 /\ p = maxFiles_ - 1)
    PROVE  RingWithRoom(Refreshed(c), c.index, r) /\ Sheds(c.files, Refreshed(c))
<1>1. /\ c.files \in Logs /\ p \in FileNumbers /\ Ring(c.files, p, r)
      /\ p \in DOMAIN c.files => /\ Len(c.files[p]) < maxFileSize_
                                 /\ Len(c.files[p]) \in Nat
      /\ \A f \in FileNumbers : f < p => f \in DOMAIN c.files /\ Len(c.files[f]) >= maxFileSize_
  BY LogsProperties DEF RingWithRoom, Ring
<1>2. CASE c.index = p
  <2>1. Refreshed(c) = c.files
    BY <1>1, <1>2, CardLimits DEF Refreshed, Exists
  <2> QED  BY <1>2, <2>1 DEF Sheds
<1>3. CASE c.index # p
  <2>1. c.index = 0 /\ p = maxFiles_ - 1 /\ p # 0 /\ 0 \in FileNumbers /\ 0 < p
    BY <1>1, <1>3, CardLimits DEF FileNumbers
  <2>2. 0 \in DOMAIN c.files /\ Len(c.files[0]) >= maxFileSize_
    BY <1>1, <2>1
  <2>3. Refreshed(c) = Without(c.files, 0)
    BY <2>1, <2>2 DEF Refreshed, Exists
  <2> QED  BY <1>1, <2>1, <2>3, RingStartsOver
<1> QED  BY <1>2, <1>3

LEMMA InitKeeps ==
    ASSUME NEW s, CardOK(s), ~s.available, NEW o \in InitCard(s)
    PROVE  CardOK(o)
<1>1. /\ s \in Modules /\ s.file = "none" /\ s.cache = <<>> /\ s.since < FLUSH_THRESHOLD
      /\ LogOf(s) = s.files /\ Len(<<>>) = 0
      /\ s.hurt = 0 =>
           \A i \in DOMAIN s.files : Len(s.files[i]) < maxFileSize_ + Max(Lengths)
  BY EmptySeq DEF CardOK, CardSound, Fits, Sound, LogOf
<1>2. CASE o = [s EXCEPT !.available = FALSE]
  <2>1. /\ o \in Modules /\ o.files = s.files /\ o.file = "none" /\ o.cache = <<>>
        /\ o.since = s.since /\ o.hurt = s.hurt
    BY <1>1, <1>2 DEF Modules
  <2>2. Sound(o) /\ LogOf(o) = s.files /\ s.since \in Nat
    BY <1>1, <2>1 DEF Sound, LogOf, Modules
  <2> QED  BY <1>1, <2>1, <2>2 DEF CardOK, CardSound, Fits
<1>3. ASSUME NEW c \in Modules, c.files = s.files, c.file = "none", c.cache = <<>>,
             c.begun, c.since = s.since, c.hurt = 0 => s.hurt = 0, NEW q \in OpenNextFile(c),
             o = [q EXCEPT !.available = (q.file # "none")]
      PROVE  CardOK(o)
  <2>1. /\ Sound(q) /\ q.cache = <<>> /\ q.begun /\ q.index = c.index /\ q.since = s.since
        /\ q.file = "none" \/ (q.file = "good" /\ Usable(c))
        /\ q.hurt = 0 =>
             /\ c.hurt = 0
             /\ \/ q.file = "none" /\ q.files = Refreshed(c)
                \/ /\ q.file = "good" /\ q.files = With(Refreshed(c), c.index)
                   /\ q.size = Len(q.files[c.index]) /\ q.size < maxFileSize_
    BY <1>3, OpenNextFileProperties
  <2>2. /\ o \in Modules /\ o.files = q.files /\ o.file = q.file /\ o.cache = <<>>
        /\ o.begun /\ o.index = c.index /\ o.since = s.since /\ o.size = q.size
        /\ o.hurt = q.hurt
        /\ o.available = (o.file # "none")
    BY <1>3, <2>1 DEF Sound, Modules
  <2>3. Sound(o)
    BY <2>1, <2>2 DEF Sound
  <2>4. LogOf(o) = o.files
    BY <2>2, <2>3, NothingCached
  <2>5. /\ Refreshed(c) \in Logs /\ DOMAIN Refreshed(c) \subseteq DOMAIN s.files
        /\ \A f \in DOMAIN Refreshed(c) : Refreshed(c)[f] = s.files[f]
    <3>1. c.files \in Logs
      BY DEF Modules
    <3>2. /\ Without(c.files, c.index) \in Logs
          /\ DOMAIN Without(c.files, c.index) = DOMAIN c.files \ {c.index}
          /\ \A f \in DOMAIN c.files \ {c.index} : Without(c.files, c.index)[f] = c.files[f]
      BY <3>1, WithoutProperties
    <3> QED  BY <1>3, <3>1, <3>2 DEF Refreshed
  <2>6. /\ c.index \in FileNumbers
        /\ DOMAIN With(Refreshed(c), c.index) = DOMAIN Refreshed(c) \cup {c.index}
        /\ \A f \in DOMAIN Refreshed(c) : With(Refreshed(c), c.index)[f] = Refreshed(c)[f]
        /\ c.index \notin DOMAIN Refreshed(c) => Len(With(Refreshed(c), c.index)[c.index]) = 0
    <3>1. c.index \in FileNumbers
      BY DEF Modules
    <3> HIDE DEF Refreshed
    <3> QED  BY <2>5, <3>1, WithProperties
  <2>7. ASSUME o.hurt = 0
        PROVE  Fits(o) /\ (o.file = "good" => o.size < maxFileSize_)
    <3>1. \A i \in DOMAIN Refreshed(c) : Len(Refreshed(c)[i]) < maxFileSize_ + Max(Lengths)
      BY <1>1, <1>3, <2>1, <2>2, <2>5, <2>7
    <3>2. CASE q.file = "none" /\ q.files = Refreshed(c)
      BY <2>2, <2>4, <3>1, <3>2 DEF Fits
    <3>3. CASE /\ q.file = "good" /\ q.files = With(Refreshed(c), c.index)
               /\ q.size = Len(q.files[c.index]) /\ q.size < maxFileSize_
      <4>1. \A i \in DOMAIN o.files : Len(o.files[i]) < maxFileSize_ + Max(Lengths)
        BY <2>2, <2>6, <3>1, <3>3, CardLimits
      <4> QED  BY <2>2, <2>4, <3>3, <4>1 DEF Fits
    <3> QED  BY <2>1, <2>2, <2>7, <3>2, <3>3
  <2>8. o.file = "good" => card = "in"
    BY <2>1, <2>2 DEF Usable
  <2>9. o.since \in Nat
    BY <2>2 DEF Modules
  <2> QED  BY <1>1, <2>1, <2>2, <2>3, <2>7, <2>8, <2>9 DEF CardOK, CardSound
<1> QED  BY <1>1, <1>2, <1>3, InitGoes

LEMMA InitOrders ==
    ASSUME NEW s, CardOK(s), ~s.available, NEW r, Ordered(s, r), NEW o \in InitCard(s)
    PROVE  Ordered(o, r) /\ (o.hurt = 0 => Sheds(s.files, o.files))
<1>1. s \in Modules /\ s.file = "none" /\ s.cache = <<>>
  BY DEF CardOK, CardSound, Sound
<1>0. s.hurt = 0 => \E p \in FileNumbers : RingWithRoom(s.files, p, r)
  BY <1>1 DEF Ordered, InOrder
<1>2. CASE o = [s EXCEPT !.available = FALSE]
  <2>1. o.files = s.files /\ o.file = "none" /\ o.hurt = s.hurt
    BY <1>1, <1>2 DEF Modules
  <2> QED  BY <1>0, <2>1 DEF Ordered, InOrder, Sheds
<1>3. ASSUME NEW c \in Modules, c.files = s.files, c.file = "none", c.cache = <<>>,
             c.hurt = 0 =>
               /\ s.hurt = 0
               /\ \A p, x : RingWithRoom(s.files, p, x) /\ Usable(c) =>
                     \/ c.index = p
                     \/ c.index = 0 /\ p = maxFiles_ - 1 /\ p \in DOMAIN s.files,
             NEW q \in OpenNextFile(c),
             o = [q EXCEPT !.available = (q.file # "none")], o.hurt = 0
      PROVE  InOrder(o, r) /\ Sheds(s.files, o.files)
  <2>0. Sound(q) /\ q.cache = <<>> /\ q.index = c.index
    BY <1>3, OpenNextFileProperties
  <2>2. /\ o \in Modules /\ o.files = q.files /\ o.file = q.file /\ o.cache = <<>>
        /\ o.index = c.index /\ o.hurt = q.hurt
    BY <1>3, <2>0 DEF Sound, Modules
  <2>1. /\ s.hurt = 0
        /\ \A p, x : RingWithRoom(s.files, p, x) /\ Usable(c) =>
              c.index = p \/ (c.index = 0 /\ p = maxFiles_ - 1)
        /\ \/ q.file = "none" /\ q.files = Refreshed(c)
           \/ q.file = "good" /\ q.files = With(Refreshed(c), c.index) /\ Usable(c)
    BY <1>3, <2>2, OpenNextFileProperties
  <2>3. LogOf(o) = o.files
    <3>1. Sound(o)
      BY <2>0, <2>2 DEF Sound
    <3> QED  BY <2>2, <3>1, NothingCached
  <2>4. CASE ~Usable(c)
    <3>1. o.file = "none" /\ o.files = s.files
      BY <1>3, <2>1, <2>2, <2>4 DEF Refreshed, Exists
    <3> QED  BY <1>0, <2>1, <3>1 DEF InOrder, Sheds
  <2>5. CASE Usable(c)
    <3>0. PICK p \in FileNumbers : RingWithRoom(s.files, p, r)
      BY <1>0, <2>1
    <3>1. RingWithRoom(Refreshed(c), c.index, r) /\ Sheds(s.files, Refreshed(c))
      <4>1. c.index = p \/ (c.index = 0 /\ p = maxFiles_ - 1)
        BY <2>1, <2>5, <3>0
      <4>2. RingWithRoom(c.files, p, r)
        BY <1>3, <3>0
      <4> QED  BY <1>3, <2>5, <4>1, <4>2, RefreshedProperties
    <3>2. /\ RingWithRoom(With(Refreshed(c), c.index), c.index, r)
          /\ Bytes(With(Refreshed(c), c.index)) = Bytes(Refreshed(c))
      BY <3>1, RingOpens
    <3>3. Sheds(s.files, With(Refreshed(c), c.index))
      BY <3>1, <3>2 DEF Sheds
    <3>4. c.index \in FileNumbers
      BY DEF Modules
    <3>5. CASE q.file = "none" /\ q.files = Refreshed(c)
      BY <2>2, <3>1, <3>4, <3>5 DEF InOrder
    <3>6. CASE q.file = "good" /\ q.files = With(Refreshed(c), c.index)
      BY <2>2, <2>3, <3>2, <3>3, <3>6 DEF InOrder, RingWithRoom
    <3> QED  BY <2>1, <3>5, <3>6
  <2> QED  BY <2>4, <2>5
<1> QED  BY <1>1, <1>2, <1>3, InitGoes DEF Ordered

\* poll: what a file has cached is put on the card, if it is there, and the
\* file closed.
LEMMA ClosedKeeps ==
    ASSUME NEW s, CardOK(s)
    PROVE  LET o == Ejected(Close(s))
           IN  /\ CardOK(o) /\ o.files = LogOf(s) /\ o.file = "none"
               /\ o.hurt = s.hurt
<1> DEFINE c == Close(s)
<1>1. Sound(s) /\ s.since < FLUSH_THRESHOLD /\ (s.hurt = 0 => Fits(s))
  BY DEF CardOK, CardSound
<1>2. /\ Sound(c) /\ c.files = LogOf(s) /\ c.cache = <<>> /\ c.file = "none"
      /\ c.since = s.since /\ c.hurt = s.hurt
  BY <1>1, CloseProperties
<1> HIDE DEF c
<1>3. LogOf(c) = LogOf(s) /\ Len(c.cache) = 0 /\ c.since \in Nat
  BY <1>2, EmptySeq, NothingCached DEF Sound, Modules
<1>4. CardSound(c) /\ c.since < FLUSH_THRESHOLD
  BY <1>1, <1>2, <1>3 DEF CardSound, Fits
<1> QED  BY <1>2, <1>4, EjectedKeeps DEF c

LEMMA PollProperties ==
    ASSUME NEW s, CardOK(s), NEW o \in Poll(s)
    PROVE  /\ CardOK(o)
           /\ \A r : Ordered(s, r) =>
                 Ordered(o, r) /\ (o.hurt = 0 => Sheds(s.files, o.files))
<1>1. CASE ~s.available
  <2>1. o \in InitCard(s)
    BY <1>1 DEF Poll
  <2> QED  BY <1>1, <2>1, InitKeeps, InitOrders
<1>2. CASE o = s
  BY <1>2 DEF Sheds
<1>3. CASE o = Ejected(Close(s))
  <2>1. CardOK(o) /\ o.files = LogOf(s) /\ o.file = "none" /\ o.hurt = s.hurt
    BY <1>3, ClosedKeeps
  <2>2. ASSUME NEW r, Ordered(s, r), o.hurt = 0
        PROVE  InOrder(o, r) /\ Sheds(s.files, o.files)
    <3>1. Sound(s) /\ InOrder(s, r) /\ Bytes(s.files) \subseteq Bytes(o.files)
      BY <2>1, <2>2, CardInLog DEF CardOK, CardSound, Ordered
    <3>2. CASE s.file = "good"
      <4>1. /\ Ring(LogOf(s), s.index, r) /\ s.size = Len(LogOf(s)[s.index])
            /\ s.size < maxFileSize_ /\ s.index \in FileNumbers
        BY <2>1, <2>2, <3>1, <3>2
           DEF CardOK, CardSound, Fits, InOrder, Sound, Modules
      <4> QED  BY <2>1, <3>1, <4>1 DEF InOrder, RingWithRoom, Sheds
    <3>3. CASE s.file # "good"
      <4>1. LogOf(s) = s.files
        BY <3>3 DEF LogOf
      <4> QED  BY <2>1, <3>1, <3>3, <4>1 DEF InOrder, Sheds
    <3> QED  BY <3>2, <3>3
  <2> QED  BY <2>1, <2>2 DEF Ordered
<1> QED  BY <1>1, <1>2, <1>3 DEF Poll

-----------------------------------------------------------------------------
(* The card is taken out, or the power fails.                              *)

\* A file with the beginning of what follows it.
LEMMA Shortened ==
    ASSUME NEW a \in Seq(Nat), NEW c \in Seq(Nat), NEW k \in 0..Len(c)
    PROVE  LET t == a \o SubSeq(c, 1, k)
           IN  /\ t \in Seq(Nat) /\ Len(a) <= Len(t) /\ Len(t) <= Len(a \o c)
               /\ \A i \in 1..Len(t) : i \in 1..Len(a \o c) /\ t[i] = (a \o c)[i]
               /\ \A i \in 1..Len(a) : i \in 1..Len(t) /\ t[i] = a[i]
<1> DEFINE b == SubSeq(c, 1, k)
           t == a \o b
           u == a \o c
<1>1. Len(a) \in Nat /\ Len(c) \in Nat /\ k \in Nat /\ k <= Len(c)
  BY LenProperties
<1>2. b \in Seq(Nat) /\ Len(b) = k /\ \A i \in 1..k : b[i] = c[i]
  <2>1. \A i \in 1..k : c[i] \in Nat
    BY <1>1, ElementOfSeq
  <2>2. /\ SubSeq(c, 1, k) \in Seq(Nat)
        /\ Len(SubSeq(c, 1, k)) = IF 1 <= k THEN k - 1 + 1 ELSE 0
        /\ \A i \in 1..(k - 1 + 1) : SubSeq(c, 1, k)[i] = c[1 + i - 1]
    BY <1>1, <2>1, SubSeqProperties
  <2> QED  BY <1>1, <2>2
<1> HIDE DEF b
<1>3. /\ t \in Seq(Nat) /\ Len(t) = Len(a) + k
      /\ \A i \in 1..Len(a) + k : t[i] = IF i <= Len(a) THEN a[i] ELSE b[i - Len(a)]
  BY <1>2, ConcatProperties
<1>4. /\ Len(u) = Len(a) + Len(c)
      /\ \A i \in 1..Len(a) + Len(c) : u[i] = IF i <= Len(a) THEN a[i] ELSE c[i - Len(a)]
  BY ConcatProperties
<1> HIDE DEF t, u
<1>5. ASSUME NEW i \in 1..Len(a) + k
      PROVE  i \in 1..Len(a) + Len(c) /\ t[i] = u[i]
  <2>1. i \in 1..Len(a) + Len(c)
    BY <1>1
  <2>2. CASE i <= Len(a)
    BY <1>3, <1>4, <2>1, <2>2
  <2>3. CASE ~(i <= Len(a))
    <3>1. i - Len(a) \in 1..k
      BY <1>1, <2>3
    <3> QED  BY <1>2, <1>3, <1>4, <2>1, <2>3, <3>1
  <2> QED  BY <2>1, <2>2, <2>3
<1>6. ASSUME NEW i \in 1..Len(a) PROVE i \in 1..Len(a) + k /\ t[i] = a[i]
  BY <1>1, <1>3
<1> QED  BY <1>1, <1>3, <1>4, <1>5, <1>6 DEF t, u, b

LEMMA RingShortened ==
    ASSUME NEW files, NEW p, NEW r \in Nat, RingWithRoom(files, p, r), p \in DOMAIN files,
           NEW t \in Seq(Nat), Len(t) <= Len(files[p]),
           \A i \in 1..Len(t) : i \in 1..Len(files[p]) /\ t[i] = files[p][i]
    PROVE  RingWithRoom([files EXCEPT ![p] = t], p, r)
<1>1. /\ Ring(files, p, r) /\ files \in Logs /\ p \in FileNumbers
      /\ DOMAIN files \subseteq FileNumbers /\ files \in [DOMAIN files -> Seq(Nat)]
      /\ Len(files[p]) < maxFileSize_ /\ Len(files[p]) \in Nat /\ Len(t) \in Nat
  BY LogsProperties, LenProperties DEF RingWithRoom, Ring
<1>2. /\ \A f \in DOMAIN files : \A i \in 1..Len(files[f]) : files[f][i] <= r
      /\ \A i, j \in 1..Len(files[p]) : i < j => files[p][i] < files[p][j]
  BY <1>1 DEF Ring
<1>3. /\ \A i \in 1..Len(t) : t[i] <= r
      /\ \A i, j \in 1..Len(t) : i < j => t[i] < t[j]
      /\ \A f \in DOMAIN files \ {p} : \A i \in 1..Len(files[f]) : files[f][i] <= r
  BY <1>2
<1>4. ASSUME NEW f \in DOMAIN files \ {p}, NEW i \in 1..Len(files[f]), NEW j \in 1..Len(t)
      PROVE  files[f][i] < t[j]
  <2>1. Before(p, f, p)
    <3>1. f \in Int /\ p \in Int /\ f # p
      BY <1>1 DEF FileNumbers
    <3> QED  BY <3>1 DEF Before
  <2>2. j \in 1..Len(files[p]) /\ t[j] = files[p][j]
    OBVIOUS
  <2> QED  BY <1>1, <2>1, <2>2 DEF Ring
<1>5. Ring([files EXCEPT ![p] = t], p, r)
  BY <1>1, <1>3, <1>4, NewestChanges
<1>6. Len([files EXCEPT ![p] = t][p]) < maxFileSize_
  BY <1>1, CardLimits
<1> QED  BY <1>5, <1>6 DEF RingWithRoom

\* What of a good file's cache has come to the card is a beginning of it.
LEMMA OnCardProperties ==
    ASSUME CardOK(m), NEW k \in 0..Len(m.cache)
    PROVE  /\ OnCard(k) \in Logs /\ DOMAIN OnCard(k) = DOMAIN m.files
           /\ Bytes(m.files) \subseteq Bytes(OnCard(k))
           /\ m.hurt = 0 => \A i \in DOMAIN OnCard(k) :
                               Len(OnCard(k)[i]) < maxFileSize_ + Max(Lengths)
           /\ \A r \in Nat : m.hurt = 0 /\ Ordered(m, r) =>
                 \E p \in FileNumbers : RingWithRoom(OnCard(k), p, r)
<1> DEFINE L == LogOf(m)
           p == m.index
           a == m.files[p]
           t == a \o SubSeq(m.cache, 1, k)
           C == OnCard(k)
<1>1. /\ Sound(m) /\ m.files \in Logs /\ m.cache \in Seq(Nat) /\ p \in FileNumbers
      /\ L \in Logs /\ DOMAIN L = DOMAIN m.files
      /\ m.hurt = 0 => \A i \in DOMAIN L : Len(L[i]) < maxFileSize_ + Max(Lengths)
  BY LogOfProperties DEF CardOK, CardSound, Fits, Sound, Modules
<1>2. CASE m.file # "good"
  <2>1. OnCard(k) = m.files /\ L = m.files
    BY <1>2 DEF OnCard, LogOf
  <2> QED  BY <1>1, <1>2, <2>1 DEF Ordered, InOrder
<1>3. CASE m.file = "good"
  <2>1. /\ p \in DOMAIN m.files /\ a \in Seq(Nat)
        /\ m.files \in [DOMAIN m.files -> Seq(Nat)]
        /\ L[p] = a \o m.cache
        /\ m.hurt = 0 => m.size = Len(L[p]) /\ m.size < maxFileSize_
        /\ \A f \in DOMAIN m.files : f # p => L[f] = m.files[f]
    BY <1>1, <1>3, LogsProperties, LogOfProperties
       DEF Sound, CardOK, CardSound, Fits
  <2>2. /\ t \in Seq(Nat) /\ Len(a) <= Len(t) /\ Len(t) <= Len(L[p])
        /\ \A i \in 1..Len(t) : i \in 1..Len(L[p]) /\ t[i] = L[p][i]
        /\ \A i \in 1..Len(a) : i \in 1..Len(t) /\ t[i] = a[i]
    <3> DEFINE c == m.cache
               all == L[p]
    <3>1. /\ a \in Seq(Nat) /\ c \in Seq(Nat) /\ k \in 0..Len(c)
          /\ all = a \o c /\ t = a \o SubSeq(c, 1, k)
      BY <1>1, <2>1
    <3> HIDE DEF a, L, c, t, all
    <3>2. /\ t \in Seq(Nat) /\ Len(a) <= Len(t) /\ Len(t) <= Len(all)
          /\ \A i \in 1..Len(t) : i \in 1..Len(all) /\ t[i] = all[i]
          /\ \A i \in 1..Len(a) : i \in 1..Len(t) /\ t[i] = a[i]
      BY <3>1, Shortened
    <3> QED  BY <3>2 DEF all
  <2>3. C = [m.files EXCEPT ![p] = t]
    BY <1>3 DEF OnCard
  <2> HIDE DEF t, L, C
  <2>4. C \in Logs /\ DOMAIN C = DOMAIN m.files
    <3>1. C \in [DOMAIN m.files -> Seq(Nat)]
      BY <2>1, <2>2, <2>3
    <3> QED  BY <1>1, <3>1, IsLogs, LogsProperties
  <2>5. C[p] = t /\ \A f \in DOMAIN m.files : f # p => C[f] = m.files[f]
    BY <2>1, <2>3
  <2>6. ASSUME m.hurt = 0
        PROVE  \A i \in DOMAIN C : Len(C[i]) < maxFileSize_ + Max(Lengths)
    <3>1. Len(t) \in Nat /\ Len(L[p]) \in Nat
      BY <1>1, <2>1, <2>2, LogsProperties, LenProperties
    <3>2. Len(t) <= Len(L[p]) /\ Len(L[p]) < maxFileSize_
      BY <2>1, <2>2, <2>6
    <3>3. Len(t) < maxFileSize_ + Max(Lengths)
      BY <3>1, <3>2, CardLimits
    <3> QED  BY <1>1, <2>1, <2>4, <2>5, <2>6, <3>3
  <2>7. Bytes(m.files) \subseteq Bytes(C)
    <3>1. ASSUME NEW f \in DOMAIN m.files, NEW i \in 1..Len(m.files[f])
          PROVE  i \in 1..Len(C[f]) /\ C[f][i] = m.files[f][i]
      <4>1. CASE f = p
        BY <2>2, <2>5, <4>1
      <4>2. CASE f # p
        BY <2>5, <4>2
      <4> QED  BY <4>1, <4>2
    <3>2. ASSUME NEW x \in Bytes(m.files) PROVE x \in Bytes(C)
      <4>1. PICK f \in DOMAIN m.files : \E i \in 1..Len(m.files[f]) : x = m.files[f][i]
        BY <1>1, BytesProperties
      <4>2. PICK i \in 1..Len(m.files[f]) : x = m.files[f][i]
        BY <4>1
      <4> QED  BY <2>4, <3>1, <4>2, BytesProperties
    <3> QED  BY <3>2
  <2>8. ASSUME NEW r \in Nat, Ordered(m, r), m.hurt = 0
        PROVE  RingWithRoom(C, p, r)
    <3>1. RingWithRoom(L, p, r)
      BY <1>3, <2>1, <2>8 DEF Ordered, InOrder, RingWithRoom, L
    <3>2. L \in [DOMAIN L -> Seq(Nat)]
      BY <1>1, LogsProperties
    <3>3. ASSUME NEW f \in DOMAIN L PROVE C[f] = [L EXCEPT ![p] = t][f]
      BY <1>1, <2>1, <2>5, <3>2
    <3>4. [L EXCEPT ![p] = t] \in [DOMAIN L -> Seq(Nat)] /\ C \in [DOMAIN L -> Seq(Nat)]
      BY <1>1, <2>2, <2>4, <3>2, LogsProperties
    <3>5. C = [L EXCEPT ![p] = t]
      BY <3>3, <3>4
    <3> QED  BY <1>1, <2>1, <2>2, <3>1, <3>5, RingShortened
  <2> QED  BY <1>1, <2>4, <2>6, <2>7, <2>8 DEF C
<1> QED  BY <1>2, <1>3

\* The device as it is switched on.
LEMMA FreshProperties ==
    ASSUME NEW files \in Logs, NEW h \in Nat,
           h = 0 =>
             \A i \in DOMAIN files : Len(files[i]) < maxFileSize_ + Max(Lengths)
    PROVE  /\ CardOK(Fresh(files, h)) /\ Fresh(files, h).files = files
           /\ Fresh(files, h).file = "none" /\ ~Fresh(files, h).available
           /\ Fresh(files, h).hurt = h
<1> DEFINE o == Fresh(files, h)
<1>1. /\ <<>> \in Seq(Nat) /\ Len(<<>>) = 0 /\ 0 < FLUSH_THRESHOLD
      /\ 0 \in FileNumbers /\ 0 \in 0..maxFiles_
  BY EmptySeq, CardLimits DEF FileNumbers
<1>2. /\ o \in Modules /\ o.files = files /\ o.file = "none" /\ o.cache = <<>>
      /\ o.since = 0 /\ ~o.available /\ o.hurt = h
  BY <1>1 DEF Fresh, Modules
<1> HIDE DEF o
<1>3. Sound(o) /\ LogOf(o) = files
  BY <1>2 DEF Sound, LogOf
<1> QED  BY <1>1, <1>2, <1>3 DEF CardOK, CardSound, Fits, o

-----------------------------------------------------------------------------
(* Every step keeps the card within its bounds and the log in order, and   *)
(* removes but the oldest.                                                 *)

CardInv ==
    /\ power \in {"off", "on"} /\ card \in {"in", "out"} /\ received \in Nat
    /\ power = "off" => ~m.available
    /\ CardOK(m)
OrderInv == Ordered(m, received)

\* What holds of the record after the call holds of the module after the step.
LEMMA SameCard ==
    ASSUME card' = card
    PROVE  /\ CardOK(m') => CardOK(m)'
           /\ Ordered(m', received') => OrderInv'
BY DEF CardOK, CardSound, Fits, OrderInv, Ordered, InOrder

LEMMA ReceiveWrites ==
    ASSUME CardInv, NEW n \in Lengths, Receive(n)
    PROVE  /\ received' = received + n /\ received' \in Nat /\ n \in Nat
           /\ power' = "on" /\ power = "on" /\ card' = card
           /\ \/ m' = m
              \/ /\ m' \in Write(m, Numbered(received, n))
                 /\ Numbered(received, n) \in Seq(Nat)
                 /\ Len(Numbered(received, n)) <= Max(Lengths)
<1>1. received \in Nat /\ n \in Nat /\ n <= Max(Lengths)
  BY CardLimits DEF CardInv
<1>2. Numbered(received, n) \in Seq(Nat) /\ Len(Numbered(received, n)) = n
  BY <1>1, NumberedProperties
<1>3. /\ received' = received + n /\ power = "on" /\ power' = "on" /\ card' = card
      /\ m' = m \/ m' \in Write(m, Numbered(received, n))
  BY DEF Receive, Numbered
<1> QED  BY <1>1, <1>2, <1>3

\* The power fails within a rotation, with the old file removed or not.
LEMMA RotationFails ==
    ASSUME CardInv, NEW n \in Lengths, PowerFailsRotating(n)
    PROVE  /\ received' = received + n /\ received' \in Nat
           /\ power' = "off" /\ card' = card
           /\ \E files \in Logs, h \in Nat :
                 /\ m' = Fresh(files, h)
                 /\ h = 0 => \A i \in DOMAIN files :
                               Len(files[i]) < maxFileSize_ + Max(Lengths)
                 /\ h = 0 /\ OrderInv =>
                       /\ \E p \in FileNumbers : RingWithRoom(files, p, received')
                       /\ Sheds(m.files, files)
<1> DEFINE b == Numbered(received, n)
           s == Written(m, b, n)
           d == (s.index + 1) % maxFiles_
<1>1. received \in Nat /\ n \in Nat /\ n <= Max(Lengths) /\ CardOK(m) /\ Sound(m)
  BY CardLimits DEF CardInv, CardOK, CardSound
<1>2. b \in Seq(Nat) /\ Len(b) = n /\ Len(b) <= Max(Lengths)
  BY <1>1, NumberedProperties
<1>3. /\ received' = received + n /\ power' = "off" /\ card' = card /\ m.file = "good"
      /\ s.size >= maxFileSize_
      /\ \E next \in NextFile(s) : m' = Fresh(next.files, next.hurt)
  BY DEF PowerFailsRotating, Numbered
<1>4. CardSound(s) /\ s.file # "none"
  BY <1>1, <1>2, <1>3, WrittenKeeps
<1>5. s.files = m.files /\ s.file = "good"
  BY <1>1, <1>2, <1>3, WrittenLog
<1>6. OrderInv => Ordered(s, received + n)
  BY <1>1, WrittenOrders DEF OrderInv
<1> HIDE DEF s
<1>7. /\ Sound(s) /\ LogOf(s) \in Logs /\ s.index \in DOMAIN LogOf(s) /\ Usable(s)
      /\ s.hurt = 0 =>
           /\ s.size = Len(LogOf(s)[s.index])
           /\ \A i \in DOMAIN LogOf(s) : Len(LogOf(s)[i]) < maxFileSize_ + Max(Lengths)
  BY <1>4, <1>5, LogOfProperties DEF CardSound, Fits, Sound, Usable
<1>8. PICK next \in NextFile(s) : m' = Fresh(next.files, next.hurt)
  BY <1>3
<1> DEFINE files == next.files
           h == next.hurt
<1>9. /\ files \in Logs /\ h \in Nat
      /\ h = 0 => s.hurt = 0 /\ files = Without(LogOf(s), d)
  BY <1>7, NextFileProperties DEF Sound, Modules
<1> HIDE DEF files, h
<1>10. /\ DOMAIN Without(LogOf(s), d) = DOMAIN LogOf(s) \ {d}
       /\ \A f \in DOMAIN LogOf(s) \ {d} : Without(LogOf(s), d)[f] = LogOf(s)[f]
  BY <1>7, WithoutProperties
<1>11. h = 0 => \A i \in DOMAIN files : Len(files[i]) < maxFileSize_ + Max(Lengths)
  BY <1>7, <1>9, <1>10
<1>12. ASSUME h = 0, OrderInv
       PROVE  /\ \E p \in FileNumbers : RingWithRoom(files, p, received')
              /\ Sheds(m.files, files)
  <2>1. Ring(LogOf(s), s.index, received + n)
    BY <1>5, <1>6, <1>9, <1>12 DEF Ordered, InOrder
  <2>2. RingWithRoom(files, d, received + n) /\ Sheds(LogOf(s), files)
    <3>1. Len(LogOf(s)[s.index]) >= maxFileSize_
      BY <1>3, <1>7, <1>9, <1>12
    <3> QED  BY <1>7, <1>9, <1>12, <2>1, <3>1, RingTurnsOn
  <2>3. d \in FileNumbers
    BY <2>2 DEF RingWithRoom, Ring
  <2>4. Bytes(m.files) \subseteq Bytes(LogOf(s))
    BY <1>5, <1>7, CardInLog
  <2> QED  BY <1>3, <2>2, <2>3, <2>4 DEF Sheds
<1>13. m' = Fresh(files, h)
  BY <1>8 DEF files, h
<1> QED  BY <1>1, <1>3, <1>9, <1>11, <1>12, <1>13

LEMMA EjectCardMakes ==
    ASSUME CardInv, EjectCard
    PROVE  /\ card = "in" /\ card' = "out" /\ UNCHANGED <<power, received>>
           /\ \E k \in 0..Len(m.cache) :
                /\ m' \in Modules /\ m'.files = OnCard(k) /\ m'.cache = <<>>
                /\ m'.file = (IF m.file = "good" THEN "stale" ELSE m.file)
                /\ m'.available = m.available /\ m'.since = m.since
                /\ m'.hurt = m.hurt
<1>1. PICK k \in 0..Len(m.cache) :
         m' = [m EXCEPT !.files = OnCard(k), !.cache = <<>>,
                        !.file = IF @ = "good" THEN "stale" ELSE @]
  BY DEF EjectCard
<1>2. OnCard(k) \in Logs /\ m \in Modules /\ <<>> \in Seq(Nat)
  BY OnCardProperties, EmptySeq DEF CardInv, CardOK, CardSound, Sound
<1>3. /\ m' \in Modules /\ m'.files = OnCard(k) /\ m'.cache = <<>>
      /\ m'.file = (IF m.file = "good" THEN "stale" ELSE m.file)
      /\ m'.available = m.available /\ m'.since = m.since /\ m'.hurt = m.hurt
  BY <1>1, <1>2 DEF Modules
<1> QED  BY <1>3 DEF EjectCard

LEMMA CardInvKept == CardInv /\ [StorageNext]_storageVars => CardInv'
<1> SUFFICES ASSUME CardInv, [StorageNext]_storageVars PROVE CardInv'
  OBVIOUS
<1> USE DEF CardInv
<1>1. CASE StorageSetup
  <2>1. m' \in InitCard(m) /\ UNCHANGED <<card, received>> /\ power' = "on" /\ ~m.available
    BY <1>1 DEF StorageSetup
  <2>2. CardOK(m')
    BY <2>1, InitKeeps
  <2> QED  BY <2>1, <2>2, SameCard
<1>2. CASE LoopPolls
  <2>1. m' \in Poll(m) /\ UNCHANGED <<power, card, received>> /\ power = "on"
    BY <1>2 DEF LoopPolls
  <2>2. CardOK(m')
    BY <2>1, PollProperties
  <2> QED  BY <2>1, <2>2, SameCard
<1>3. ASSUME NEW n \in Lengths, Receive(n) PROVE CardInv'
  <2>1. CardOK(m')
    BY <1>3, ReceiveWrites, WriteKeeps
  <2> QED  BY <1>3, <2>1, ReceiveWrites, SameCard
<1>4. ASSUME NEW n \in Lengths, PowerFailsRotating(n) PROVE CardInv'
  <2>1. PICK files \in Logs, h \in Nat :
           /\ m' = Fresh(files, h)
           /\ h = 0 =>
                \A i \in DOMAIN files : Len(files[i]) < maxFileSize_ + Max(Lengths)
    BY <1>4, RotationFails
  <2>2. CardOK(m') /\ ~m'.available
    BY <2>1, FreshProperties
  <2>3. power' = "off" /\ card' = card /\ received' \in Nat
    BY <1>4, RotationFails
  <2> QED  BY <2>2, <2>3, SameCard
<1>5. CASE EjectCard
  <2>1. PICK k \in 0..Len(m.cache) :
           /\ m' \in Modules /\ m'.files = OnCard(k) /\ m'.cache = <<>>
           /\ m'.file = (IF m.file = "good" THEN "stale" ELSE m.file)
           /\ m'.available = m.available /\ m'.since = m.since /\ m'.hurt = m.hurt
    BY <1>5, EjectCardMakes
  <2>2. /\ m.file \in {"none", "good", "stale"} /\ (m.file # "none" => m.available)
        /\ m.since < FLUSH_THRESHOLD
    BY DEF CardOK, CardSound, Sound, Modules
  <2>3. m'.file # "good" /\ Sound(m') /\ LogOf(m') = OnCard(k)
    BY <2>1, <2>2 DEF Sound, LogOf
  <2>4. Len(m'.cache) <= m'.since
    BY <2>1, EmptySeq DEF Modules
  <2>5. m'.hurt = 0 =>
          \A i \in DOMAIN LogOf(m') : Len(LogOf(m')[i]) < maxFileSize_ + Max(Lengths)
    BY <2>1, <2>3, OnCardProperties
  <2>6. CardOK(m)'
    BY <2>1, <2>2, <2>3, <2>4, <2>5 DEF CardOK, CardSound, Fits
  <2> QED  BY <1>5, <2>1, <2>6, EjectCardMakes
<1>6. CASE InsertCard
  <2>1. card = "out" /\ card' = "in" /\ UNCHANGED <<power, received, m>>
    BY <1>6 DEF InsertCard
  <2>2. m.file # "good"
    BY <2>1 DEF CardOK, CardSound
  <2>3. CardOK(m)'
    BY <2>1, <2>2 DEF CardOK, CardSound, Fits
  <2> QED  BY <2>1, <2>3
<1>7. CASE PowerFails
  <2>1. PICK k \in 0..Len(m.cache) : m' = Fresh(OnCard(k), m.hurt)
    BY <1>7 DEF PowerFails
  <2>3. m.hurt \in Nat
    BY DEF CardOK, CardSound, Sound, Modules
  <2>2. CardOK(m') /\ ~m'.available
    BY <2>1, <2>3, OnCardProperties, FreshProperties
  <2> QED  BY <1>7, <2>2, SameCard DEF PowerFails
<1>8. CASE UNCHANGED storageVars
  <2>1. CardOK(m)'
    BY <1>8 DEF storageVars, CardOK, CardSound, Fits
  <2> QED  BY <1>8, <2>1 DEF storageVars
<1> QED
  BY <1>1, <1>2, <1>3, <1>4, <1>5, <1>6, <1>7, <1>8 DEF StorageNext

LEMMA OrderInvKept ==
    ASSUME ~QuickSwap
    PROVE  CardInv /\ OrderInv /\ [StorageNext]_storageVars
             => OrderInv' /\ (m'.hurt = 0 => Sheds(m.files, m'.files))
<1> SUFFICES ASSUME CardInv, OrderInv, [StorageNext]_storageVars
             PROVE  OrderInv' /\ (m'.hurt = 0 => Sheds(m.files, m'.files))
  OBVIOUS
<1>0. CardOK(m) /\ Ordered(m, received) /\ received \in Nat
  BY DEF CardInv, OrderInv
<1>1. CASE StorageSetup
  <2>1. m' \in InitCard(m) /\ UNCHANGED <<card, received>> /\ ~m.available
    BY <1>1 DEF StorageSetup, CardInv
  <2>2. Ordered(m', received) /\ (m'.hurt = 0 => Sheds(m.files, m'.files))
    BY <1>0, <2>1, InitOrders
  <2> QED  BY <2>1, <2>2, SameCard
<1>2. CASE LoopPolls
  <2>1. m' \in Poll(m) /\ UNCHANGED <<card, received>>
    BY <1>2 DEF LoopPolls
  <2>2. Ordered(m', received) /\ (m'.hurt = 0 => Sheds(m.files, m'.files))
    BY <1>0, <2>1, PollProperties
  <2> QED  BY <2>1, <2>2, SameCard
<1>3. ASSUME NEW n \in Lengths, Receive(n)
      PROVE  OrderInv' /\ (m'.hurt = 0 => Sheds(m.files, m'.files))
  <2>1. /\ received' = received + n /\ n \in Nat /\ card' = card
        /\ m' = m \/ m' \in Write(m, Numbered(received, n))
    BY <1>3, ReceiveWrites
  <2>2. CASE m' = m
    <3>1. ASSUME m.hurt = 0 PROVE InOrder(m, received + n)
      <4>1. InOrder(m, received)
        BY <1>0, <3>1 DEF Ordered
      <4>2. CASE m.file = "good"
        <5>1. RingWithRoom(LogOf(m), m.index, received)
          BY <1>0, <3>1, <4>1, <4>2 DEF InOrder, RingWithRoom, CardOK, CardSound, Fits
        <5>2. RingWithRoom(LogOf(m), m.index, received + n)
          BY <1>0, <2>1, <5>1, RingLater
        <5> QED  BY <4>2, <5>2 DEF InOrder, RingWithRoom
      <4>3. CASE m.file # "good"
        <5>1. PICK p \in FileNumbers : RingWithRoom(m.files, p, received)
          BY <4>1, <4>3 DEF InOrder
        <5>2. RingWithRoom(m.files, p, received + n)
          BY <1>0, <2>1, <5>1, RingLater
        <5> QED  BY <4>1, <4>3, <5>2 DEF InOrder
      <4> QED  BY <4>2, <4>3
    <3>2. Ordered(m', received')
      BY <2>1, <2>2, <3>1 DEF Ordered
    <3> QED  BY <2>1, <2>2, <3>2, SameCard DEF Sheds
  <2>3. CASE m' \in Write(m, Numbered(received, n))
    <3>1. Ordered(m', received + n) /\ (m'.hurt = 0 => Sheds(m.files, m'.files))
      BY <1>0, <2>3, WriteOrders
    <3> QED  BY <2>1, <3>1, SameCard
  <2> QED  BY <2>1, <2>2, <2>3
<1>4. ASSUME NEW n \in Lengths, PowerFailsRotating(n)
      PROVE  OrderInv' /\ (m'.hurt = 0 => Sheds(m.files, m'.files))
  <2>1. PICK files \in Logs, h \in Nat :
           /\ m' = Fresh(files, h)
           /\ h = 0 =>
                /\ \A i \in DOMAIN files : Len(files[i]) < maxFileSize_ + Max(Lengths)
                /\ \E p \in FileNumbers : RingWithRoom(files, p, received')
                /\ Sheds(m.files, files)
    BY <1>4, RotationFails
  <2>2. m'.files = files /\ m'.file = "none" /\ m'.hurt = h
    BY <2>1, FreshProperties
  <2>3. OrderInv'
    BY <2>1, <2>2 DEF OrderInv, Ordered, InOrder
  <2> QED  BY <2>1, <2>2, <2>3
<1>5. CASE EjectCard
  <2>1. PICK k \in 0..Len(m.cache) :
           /\ m'.files = OnCard(k)
           /\ m'.file = (IF m.file = "good" THEN "stale" ELSE m.file)
           /\ m'.hurt = m.hurt
    BY <1>5, EjectCardMakes
  <2>2. card' = "out" /\ received' = received
    BY <1>5, EjectCardMakes
  <2>3. /\ Bytes(m.files) \subseteq Bytes(OnCard(k))
        /\ m.hurt = 0 => \E p \in FileNumbers : RingWithRoom(OnCard(k), p, received)
    BY <1>0, OnCardProperties
  <2>4. OrderInv'
    BY <2>1, <2>2, <2>3 DEF OrderInv, Ordered, InOrder
  <2> QED  BY <2>1, <2>3, <2>4 DEF Sheds
<1>6. CASE InsertCard
  <2>1. UNCHANGED <<received, m>> /\ ~m.available
    BY <1>6 DEF InsertCard
  <2>2. m.file = "none"
    BY <1>0, <2>1 DEF CardOK, CardSound
  <2>3. OrderInv'
    BY <1>0, <2>1, <2>2 DEF OrderInv, Ordered, InOrder
  <2> QED  BY <2>1, <2>3 DEF Sheds
<1>7. CASE PowerFails
  <2>1. PICK k \in 0..Len(m.cache) : m' = Fresh(OnCard(k), m.hurt)
    BY <1>7 DEF PowerFails
  <2>2. /\ OnCard(k) \in Logs /\ m.hurt \in Nat
        /\ Bytes(m.files) \subseteq Bytes(OnCard(k))
        /\ m.hurt = 0 =>
             /\ \A i \in DOMAIN OnCard(k) : Len(OnCard(k)[i]) < maxFileSize_ + Max(Lengths)
             /\ \E p \in FileNumbers : RingWithRoom(OnCard(k), p, received)
    BY <1>0, OnCardProperties DEF CardOK, CardSound, Sound, Modules
  <2>3. /\ m'.files = OnCard(k) /\ m'.file = "none" /\ received' = received
        /\ m'.hurt = m.hurt
    BY <1>7, <2>1, <2>2, FreshProperties DEF PowerFails
  <2>4. OrderInv'
    BY <2>2, <2>3 DEF OrderInv, Ordered, InOrder
  <2> QED  BY <2>2, <2>3, <2>4 DEF Sheds
<1>8. CASE UNCHANGED storageVars
  BY <1>8 DEF storageVars, OrderInv, Ordered, InOrder, Sheds
<1> QED
  BY <1>1, <1>2, <1>3, <1>4, <1>5, <1>6, <1>7, <1>8 DEF StorageNext

LEMMA StorageInitially == StorageInit => CardInv /\ OrderInv
<1> SUFFICES ASSUME StorageInit PROVE CardInv /\ OrderInv
  OBVIOUS
<1> DEFINE none == <<>>
<1>1. /\ power = "off" /\ card \in {"in", "out"} /\ received = 0 /\ m = Fresh(none, 0)
  BY DEF StorageInit
<1>2. none \in Logs /\ DOMAIN none = {}
  <2>1. none \in Seq(Nat) /\ Len(none) = 0
    BY EmptySeq
  <2>2. DOMAIN none = {}
    BY <2>1, LenProperties
  <2>3. none \in [{} -> Seq(Nat)]
    BY <2>2
  <2> QED  BY <2>2, <2>3, IsLogs
<1> HIDE DEF none
<1>3. CardOK(m) /\ ~m.available /\ m.files = none /\ m.file = "none"
  BY <1>1, <1>2, FreshProperties
<1>4. 0 \in FileNumbers /\ RingWithRoom(none, 0, 0)
  <2>1. 0 \in FileNumbers /\ \A f \in FileNumbers : ~(f < 0)
    BY CardLimits DEF FileNumbers
  <2> QED  BY <1>2, <2>1 DEF RingWithRoom, Ring
<1> QED  BY <1>1, <1>3, <1>4 DEF CardInv, OrderInv, Ordered, InOrder

\* Places in the ring are as the numbers say, from the one after the newest.
LEMMA PlacesInOrder ==
    ASSUME NEW p \in FileNumbers, NEW f \in FileNumbers, NEW g \in FileNumbers,
           (f - p - 1) % maxFiles_ < (g - p - 1) % maxFiles_
    PROVE  Before(p, f, g)
<1>1. \A h \in FileNumbers :
         (h - p - 1) % maxFiles_ = IF p < h THEN h - p - 1 ELSE h - p - 1 + maxFiles_
  BY CardLimits DEF FileNumbers
<1> QED  BY <1>1, CardLimits DEF Before, FileNumbers

LEMMA CardImplied == CardInv => CardKeepsUp
<1> SUFFICES ASSUME CardInv PROVE CardKeepsUp
  OBVIOUS
<1>1. CardOK(m) /\ Sound(m) /\ m \in Modules
  BY DEF CardInv, CardOK, CardSound, Sound
<1>2. StorageTypeOK
  <2>1. DOMAIN m.files \subseteq FileNumbers
    BY <1>1, LogsProperties DEF Modules
  <2> QED  BY <1>1, <2>1 DEF StorageTypeOK, CardOK, CardSound, Modules, FileNumbers
<1>3. CardIsBounded
  <2> SUFFICES ASSUME NEW i \in DOMAIN m.files, m.hurt = 0
               PROVE  Len(m.files[i]) + (IF i = m.index THEN Len(m.cache) ELSE 0)
                        < maxFileSize_ + Max(Lengths)
    BY DEF CardIsBounded
  <2>1. /\ i \in DOMAIN LogOf(m) /\ Len(LogOf(m)[i]) < maxFileSize_ + Max(Lengths)
        /\ Len(m.files[i]) \in Nat
    BY <1>1, LogOfProperties, LogsProperties DEF CardOK, CardSound, Fits, Modules
  <2>2. CASE m.file = "good" /\ i = m.index
    BY <1>1, <2>1, <2>2, LogOfProperties
  <2>3. CASE m.file = "good" /\ i # m.index
    <3>1. LogOf(m)[i] = m.files[i]
      BY <1>1, <2>3, LogOfProperties
    <3> QED  BY <2>1, <2>3, <3>1
  <2>4. CASE m.file # "good"
    <3>1. Len(m.cache) = 0 /\ LogOf(m)[i] = m.files[i]
      BY <1>1, <2>4, LogOfProperties, EmptySeq DEF CardOK, CardSound
    <3> QED  BY <2>1, <3>1
  <2> QED  BY <2>2, <2>3, <2>4
<1>4. EjectionLosesLittle
  <2>1. /\ Len(m.cache) \in Nat /\ m.since \in Nat /\ Len(m.cache) <= m.since
        /\ m.since < FLUSH_THRESHOLD
    BY <1>1, LenProperties DEF CardOK, CardSound, Modules
  <2> QED  BY <2>1, CardLimits DEF EjectionLosesLittle
<1> QED  BY <1>2, <1>3, <1>4 DEF CardKeepsUp

LEMMA OrderImplied == CardInv /\ OrderInv => LogIsInOrder
<1> SUFFICES ASSUME CardInv, OrderInv, m.file = "good", m.hurt = 0,
                    NEW f \in DOMAIN m.files, NEW g \in DOMAIN m.files,
                    NEW i \in DOMAIN BytesOf(f), NEW j \in DOMAIN BytesOf(g),
                    Place(f) < Place(g) \/ (f = g /\ i < j)
             PROVE  BytesOf(f)[i] < BytesOf(g)[j]
  BY DEF LogIsInOrder
<1>1. /\ Sound(m) /\ m.files \in Logs /\ m.index \in FileNumbers
      /\ DOMAIN m.files \subseteq FileNumbers /\ m.cache \in Seq(Nat)
  BY LogsProperties DEF CardInv, CardOK, CardSound, Sound, Modules
<1> DEFINE L == LogOf(m)
<1>2. Ring(L, m.index, received) /\ L \in Logs /\ DOMAIN L = DOMAIN m.files
  BY <1>1, LogOfProperties DEF OrderInv, Ordered, InOrder
<1>3. ASSUME NEW h \in DOMAIN m.files
      PROVE  BytesOf(h) = L[h] /\ DOMAIN BytesOf(h) = 1..Len(L[h])
  <2>1. m.files[h] \in Seq(Nat) /\ L[h] \in Seq(Nat)
    BY <1>1, <1>2, LogsProperties
  <2>2. CASE h = m.index
    <3>1. BytesOf(h) = L[h]
      BY <1>1, <2>2, LogOfProperties DEF BytesOf
    <3> QED  BY <2>1, <3>1, LenProperties
  <2>3. CASE h # m.index
    <3>1. BytesOf(h) = m.files[h] \o <<>>
      BY <2>3 DEF BytesOf
    <3>2. BytesOf(h) = L[h]
      BY <1>1, <2>1, <2>3, <3>1, LogOfProperties, ConcatEmptySeq
    <3> QED  BY <2>1, <3>2, LenProperties
  <2> QED  BY <2>2, <2>3
<1> HIDE DEF L
<1>4. i \in 1..Len(L[f]) /\ j \in 1..Len(L[g])
  BY <1>3
<1>5. CASE Place(f) < Place(g)
  <2>1. Before(m.index, f, g)
    BY <1>1, <1>5, PlacesInOrder DEF Place
  <2> QED  BY <1>2, <1>3, <1>4, <2>1 DEF Ring
<1>6. CASE f = g /\ i < j
  BY <1>2, <1>3, <1>4, <1>6 DEF Ring
<1> QED  BY <1>5, <1>6

-----------------------------------------------------------------------------

\* An ejection or a power failure loses less than the flush threshold, for any
\* sizes, whenever the card comes and goes and whatever cannot be opened, read
\* or removed; and the files on the card are no longer than they may be, as
\* long as those that were to be read or removed were (M5StorageModule's write,
\* rotateIfNeeded, init and poll).
THEOREM CardAlwaysKeepsUp == StorageSpec => []CardKeepsUp
BY StorageInitially, CardInvKept, CardImplied, PTL DEF StorageSpec

LEMMA OrderInvariance ==
    ASSUME ~QuickSwap
    PROVE  StorageSpec => [](CardInv /\ OrderInv)
<1>1. CardInv /\ OrderInv /\ [StorageNext]_storageVars => CardInv' /\ OrderInv'
  BY CardInvKept, OrderInvKept
<1> QED  BY <1>1, StorageInitially, PTL DEF StorageSpec

\* The log is in order around the ring that init finds its place in again, if
\* poll sees every removal before the card is back, until a file that was to be
\* read or removed was not (init's scan, openNextFile, rotateIfNeeded).
THEOREM LogAlwaysInOrder ==
    ASSUME ~QuickSwap PROVE StorageSpec => []LogIsInOrder
BY OrderInvariance, OrderImplied, PTL

\* What leaves the card is older than all that stays on it, with each rotation
\* and each start on a card that has all its files, on the same two conditions
\* (openNextFile's and rotateIfNeeded's SD.remove).
THEOREM OnlyOldestEverRemoved ==
    ASSUME ~QuickSwap PROVE StorageSpec => OnlyOldestIsRemoved
<1>1. CardInv /\ OrderInv /\ [StorageNext]_storageVars =>
        [ m'.hurt = 0 =>
          LET kept == Bytes(m.files')
          IN  \A x \in Bytes(m.files) \ kept : \A y \in kept : x < y ]_storageVars
  <2> SUFFICES ASSUME CardInv, OrderInv, [StorageNext]_storageVars
               PROVE  m'.hurt = 0 => Sheds(m.files, m'.files)
    BY DEF Sheds
  <2> QED  BY OrderInvKept
<1> QED  BY <1>1, OrderInvariance, PTL DEF StorageSpec, OnlyOldestIsRemoved
=============================================================================
