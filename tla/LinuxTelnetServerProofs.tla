---------------------- MODULE LinuxTelnetServerProofs ----------------------
(***************************************************************************)
(* What holds of the telnet server's threads for any number of clients,    *)
(* descriptors and rotations of the log: clientFds_ lists open client      *)
(* sockets only, nothing leaks, and no thread outlives stop.               *)
(***************************************************************************)
EXTENDS LinuxTelnetServer, SequenceTheorems, WellFoundedInduction, TLAPS

-----------------------------------------------------------------------------
(* Recursion and minima.                                                   *)

\* A set of numbers that is not empty has a least one.
LEMMA LeastNumber ==
    ASSUME NEW T, T \subseteq Nat, T # {}
    PROVE  \E n \in T : \A m \in T : n <= m
<1>1. \E n \in T : \A m \in T : <<m, n>> \notin OpToRel(<, Nat)
  BY NatLessThanWellFounded, WFMin
<1>2. \A m, n \in Nat : m < n => <<m, n>> \in OpToRel(<, Nat)
  BY DEF OpToRel
<1>3. PICK n \in T : \A m \in T : <<m, n>> \notin OpToRel(<, Nat)
  BY <1>1
<1>4. ASSUME NEW m \in T PROVE n <= m
  <2>1. m \in Nat /\ n \in Nat /\ ~(m < n)
    BY <1>2, <1>3
  <2> QED  BY <2>1
<1> QED  BY <1>4

\* Induction up to N, on a set.
LEMMA InductionUpTo ==
    ASSUME NEW N \in Nat, NEW T, 0 \in T,
           \A n \in 1..N : n - 1 \in T => n \in T
    PROVE  0..N \subseteq T
<1> DEFINE Bad == (0..N) \ T
<1> SUFFICES ASSUME Bad # {} PROVE FALSE
  OBVIOUS
<1>1. PICK m \in Bad : \A k \in Bad : m <= k
  <2> Bad \subseteq Nat  OBVIOUS
  <2> HIDE DEF Bad
  <2> QED  BY LeastNumber
<1>2. m \in 1..N /\ m - 1 \in 0..N /\ m - 1 \notin Bad
  BY <1>1
<1> QED  BY <1>1, <1>2

\* The values of g are in V; the first is start, and each follows from the one
\* before it by step.
StaysIn(step, N, V) == \A n \in 1..N : \A v \in V : step[n][v] \in V
Iterates(g, step, start, N, V) ==
    /\ g \in [0..N -> V]
    /\ g[0] = start
    /\ \A n \in 1..N : g[n] = step[n][g[n - 1]]

\* A function may be defined by what it is at 0 and by how each value follows
\* from the one before it.
LEMMA Iteration ==
    ASSUME NEW N \in Nat, NEW V, NEW start \in V,
           NEW step, StaysIn(step, N, V)
    PROVE  \E g : Iterates(g, step, start, N, V)
<1> DEFINE Upto(g, m) == /\ g[0] = start
                         /\ \A n \in 1..m : g[n] = step[n][g[n - 1]]
           T == {m \in 0..N : \E g \in [0..N -> V] : Upto(g, m)}
<1>1. 0 \in T
  <2> DEFINE g == [n \in 0..N |-> start]
  <2>1. g \in [0..N -> V] /\ Upto(g, 0)
    OBVIOUS
  <2> HIDE DEF g
  <2> QED  BY <2>1
<1>2. ASSUME NEW m \in 1..N, m - 1 \in T PROVE m \in T
  <2>1. PICK g \in [0..N -> V] : Upto(g, m - 1)
    BY <1>2
  <2> DEFINE h == [g EXCEPT ![m] = step[m][g[m - 1]]]
  <2>2. /\ h \in [0..N -> V]
        /\ h[m] = step[m][g[m - 1]]
        /\ \A n \in 0..N : n # m => h[n] = g[n]
    BY DEF StaysIn
  <2> HIDE DEF h
  <2>3. h[0] = start /\ h[m] = step[m][h[m - 1]]
    BY <2>1, <2>2 DEF StaysIn
  <2>4. \A n \in 1..(m - 1) : h[n] = step[n][h[n - 1]]
    BY <2>1, <2>2
  <2>5. Upto(h, m)
    BY <2>3, <2>4
  <2> QED  BY <2>2, <2>5
<1> HIDE DEF T
<1>3. 0..N \subseteq T
  BY <1>1, <1>2, InductionUpTo
<1>4. N \in T
  BY <1>3
<1> QED  BY <1>4 DEF T, Iterates

\* What a sequence consists of after Append and after Tail.
LEMMA AppendIndices ==
    ASSUME NEW S, NEW s \in Seq(S), NEW x \in S
    PROVE  /\ Append(s, x) \in Seq(S)
           /\ \A i \in 1..Len(Append(s, x)) :
                 \/ i \in 1..Len(s) /\ Append(s, x)[i] = s[i]
                 \/ i \notin 1..Len(s) /\ i = Len(s) + 1 /\ Append(s, x)[i] = x
<1>1. /\ Append(s, x) \in Seq(S) /\ Len(s) \in Nat
      /\ Len(Append(s, x)) = Len(s) + 1
      /\ \A i \in 1..Len(s) : Append(s, x)[i] = s[i]
      /\ Append(s, x)[Len(s) + 1] = x
  BY AppendProperties, LenProperties
<1> QED  BY <1>1

\* The places in a sequence that lost its first element.
LEMMA TailIndices ==
    ASSUME NEW S, NEW s \in Seq(S), s # <<>>
    PROVE  /\ Head(s) \in S /\ Head(s) = s[1] /\ 1 \in 1..Len(s)
           /\ Tail(s) \in Seq(S)
           /\ \A i \in 1..Len(Tail(s)) :
                 i + 1 \in 1..Len(s) /\ i + 1 # 1 /\ Tail(s)[i] = s[i + 1]
<1>1. /\ Len(s) \in Nat /\ Len(s) # 0 /\ Head(s) = s[1] /\ Head(s) \in S
      /\ Tail(s) \in Seq(S) /\ Len(Tail(s)) = Len(s) - 1
      /\ \A i \in 1..Len(Tail(s)) : Tail(s)[i] = s[i + 1]
  BY HeadTailProperties, LenProperties, EmptySeq
<1> QED  BY <1>1

\* To erase a descriptor from a list without repetitions leaves the others, each
\* once.
LEMMA WithoutProperties ==
    ASSUME NEW S, NEW s \in Seq(S), NEW f,
           \A i, j \in 1..Len(s) : i # j => s[i] # s[j]
    PROVE  /\ Without(s, f) \in Seq(S)
           /\ \A i \in 1..Len(Without(s, f)) :
                 Without(s, f)[i] # f
                 /\ \E j \in 1..Len(s) : Without(s, f)[i] = s[j]
           /\ \A i, j \in 1..Len(Without(s, f)) :
                 i # j => Without(s, f)[i] # Without(s, f)[j]
<1> DEFINE N == Len(s)
           Longer(t, n) == IF s[n] = f THEN t ELSE Append(t, s[n])
           Recursive(g) == g = [n \in 0..N |-> IF n = 0 THEN <<>>
                                              ELSE Longer(g[n - 1], n)]
           kept == CHOOSE g : Recursive(g)
           Good(t, n) ==
              /\ t \in Seq(S)
              /\ \A i \in 1..Len(t) :
                    t[i] # f /\ \E j \in 1..n : t[i] = s[j]
              /\ \A i, j \in 1..Len(t) : i # j => t[i] # t[j]
           T == {n \in 0..N : Good(kept[n], n)}
<1>1. N \in Nat /\ \A n \in 1..N : s[n] \in S
  BY LenProperties, ElementOfSeq
<1>2. Without(s, f) = kept[N]
  BY DEF Without
<1>3. Recursive(kept)
  <2> DEFINE step == [n \in 1..N |-> [t \in Seq(S) |-> Longer(t, n)]]
  <2>1. <<>> \in Seq(S) /\ StaysIn(step, N, Seq(S))
    BY <1>1 DEF StaysIn
  <2>2. \A n \in 1..N : \A t \in Seq(S) : step[n][t] = Longer(t, n)
    OBVIOUS
  <2> HIDE DEF step, N, Longer
  <2>3. PICK g : Iterates(g, step, <<>>, N, Seq(S))
    BY <1>1, <2>1, Iteration
  <2>4. \A n \in 1..N : g[n] = Longer(g[n - 1], n)
    <3> SUFFICES ASSUME NEW n \in 1..N PROVE g[n] = Longer(g[n - 1], n)
      OBVIOUS
    <3>1. g[n - 1] \in Seq(S) /\ g[n] = step[n][g[n - 1]]
      BY <1>1, <2>3 DEF Iterates
    <3> QED  BY <2>2, <3>1
  <2>5. Recursive(g)
    <3> DEFINE h == [n \in 0..N |-> IF n = 0 THEN <<>> ELSE Longer(g[n - 1], n)]
    <3>1. \A n \in 0..N : g[n] = h[n]
      BY <1>1, <2>3, <2>4 DEF Iterates
    <3>2. g = [n \in 0..N |-> g[n]] /\ h = [n \in 0..N |-> h[n]]
      BY <2>3 DEF Iterates
    <3>3. g = h
      BY <3>1, <3>2
    <3> QED  BY <3>3
  <2> QED  BY <2>5
<1>4. kept[0] = <<>> /\ \A n \in 1..N : kept[n] = Longer(kept[n - 1], n)
  <2> HIDE DEF kept, Longer, N
  <2> QED  BY <1>1, <1>3
<1>5. ASSUME NEW t, NEW n \in 1..N, Good(t, n - 1)
      PROVE  Good(Longer(t, n), n)
  <2>1. CASE s[n] = f
    BY <1>1, <1>5, <2>1
  <2>2. CASE s[n] # f
    <3> DEFINE u == Append(t, s[n])
    <3>1. /\ u \in Seq(S) /\ Len(u) = Len(t) + 1 /\ Len(t) \in Nat
          /\ u[Len(t) + 1] = s[n]
          /\ \A i \in 1..Len(t) : u[i] = t[i]
      BY <1>1, <1>5, AppendProperties, LenProperties
    <3>2. \A i \in 1..Len(t) : u[i] # f /\ u[i] # s[n] /\ \E j \in 1..n : u[i] = s[j]
      BY <1>1, <1>5, <3>1
    <3> HIDE DEF u
    <3>3. \A i \in 1..Len(u) : i \in 1..Len(t) \/ i = Len(t) + 1
      BY <3>1
    <3>4. \A i \in 1..Len(u) : u[i] # f /\ \E j \in 1..n : u[i] = s[j]
      BY <1>1, <2>2, <3>1, <3>2, <3>3
    <3>5. \A i, j \in 1..Len(u) : i # j => u[i] # u[j]
      BY <1>5, <3>1, <3>2, <3>3
    <3> QED  BY <2>2, <3>1, <3>4, <3>5 DEF u
  <2> QED  BY <2>1, <2>2
<1>6. Good(<<>>, 0)
  BY EmptySeq
<1> HIDE DEF Good, kept, Longer
<1>7. 0..N \subseteq T
  <2>1. 0 \in T /\ \A n \in 1..N : n - 1 \in T => n \in T
    BY <1>1, <1>4, <1>5, <1>6
  <2> HIDE DEF T
  <2> QED  BY <1>1, <2>1, InductionUpTo
<1>8. Good(kept[N], N)
  BY <1>1, <1>7
<1> QED  BY <1>2, <1>8 DEF Good

-----------------------------------------------------------------------------
(* The inductive invariant.                                                *)

Stopping == mainPc \in {"close clients", "join clients", "stopped"}

\* A client has its descriptor from accept to the end of its thread, and its
\* place in clientFds_ from the push to the erase.
Live(c) == accepted = c \/ threadPc[c] \notin {"none", "done"}
Registered(c) ==
    \/ accepted = c /\ acceptPc = "spawn"
    \/ threadPc[c] \in {"check", "recv", "blocked", "deliver", "erase"}

Threads ==
    /\ mainPc \in {"started", "loop", "close server", "join accept", "lock",
                   "close clients", "join clients", "stopped"}
    /\ uartPc \in {"read", "send", "close log", "open log"}
    /\ threadPc \in [Clients -> {"none", "check", "recv", "blocked", "deliver",
                                 "erase", "close", "done"}]
    /\ peer \in [Clients -> {"away", "waiting", "connected", "gone"}]

\* The accept thread has one client at a time, and hands each over once.
Handover ==
    /\ accepted \in Clients <=> acceptPc \in {"push", "spawn"}
    /\ accepted \in Clients => threadPc[accepted] = "none"
    /\ \A c \in Clients : peer[c] \in {"away", "waiting"} =>
          threadPc[c] = "none" /\ accepted # c

\* stop waits for the accept thread before it looks at the clients, and for
\* every client's thread before it returns.
Joining ==
    /\ mainPc = "lock" \/ Stopping => acceptPc = "done"
    /\ serverFd_ # NoFd <=> mainPc \in {"started", "loop", "close server"}
    /\ mainPc = "stopped" => \A c \in Clients : threadPc[c] \in {"none", "done"}
    /\ \A c \in Clients : threadPc[c] \in {"none", "done"} \/ c \in clientThreads_

\* Who holds a descriptor.  Only stop takes one from a client that is there,
\* and then nobody accepts any more, so that the second close, by the client's
\* thread, hits no other client.
Descriptors ==
    /\ serverFd_ # NoFd => table[serverFd_] = "server"
    /\ logFd # NoFd => \/ table[logFd] = "log"
                       \/ acceptPc = "done" /\ table[logFd] = "none"
    /\ uartPc = "close log" => logFd # NoFd
    /\ \A f \in Fds : table[f] \in Clients =>
          fdOf[table[f]] = f /\ Live(table[f])
    /\ \A c \in Clients : Live(c) =>
          /\ fdOf[c] \in Fds
          /\ \/ table[fdOf[c]] = c
             \/ Stopping /\ table[fdOf[c]] \in {"none", "log"}

\* What is listed is registered, once.
Listing ==
    /\ \A i \in 1..Len(clientFds_) :
          table[clientFds_[i]] \in Clients /\ Registered(table[clientFds_[i]])
    /\ \A i, j \in 1..Len(clientFds_) : i # j => clientFds_[i] # clientFds_[j]

\* broadcast goes through the list while it holds the mutex.
Sending ==
    /\ \A i \in 1..Len(toSend) :
          \E j \in 1..Len(clientFds_) : toSend[i] = clientFds_[j]
    /\ uartPc # "send" => toSend = <<>>

IInv == TypeOK /\ Threads /\ Handover /\ Joining /\ Descriptors /\ Listing
        /\ Sending

-----------------------------------------------------------------------------
(* Initially.                                                              *)

\* What is none is told from what is one.
LEMMA Sentinels ==
    /\ NoFd \notin Fds /\ NoClient \notin Clients
    /\ "none" \notin Clients /\ "log" \notin Clients /\ "server" \notin Clients
<1>1. NoFd \notin Fds
  BY DEF NoFd, Fds
<1>2. /\ NoClient \notin Clients
      /\ "none" \notin Clients /\ "log" \notin Clients /\ "server" \notin Clients
  BY TelnetAssumption DEF NoClient
<1> QED  BY <1>1, <1>2

\* A server that was not started is in order.
LEMMA InitEstablishes == Init => IInv
<1> SUFFICES ASSUME Init PROVE IInv
  OBVIOUS
<1> 1 \in Fds /\ 2 \in Fds
  <2>1. MaxFd \in Nat /\ MaxFd >= 2
    BY TelnetAssumption
  <2> QED  BY <2>1 DEF Fds
<1> USE Sentinels DEF Init, Stopping
<1>1. TypeOK
  BY EmptySeq DEF TypeOK
<1>2. Threads
  BY DEF Threads
<1>3. Handover
  BY DEF Handover
<1>4. Joining
  BY DEF Joining
<1>5. Descriptors
  BY DEF Descriptors, Live
<1>6. Listing /\ Sending
  BY EmptySeq DEF Listing, Sending
<1> QED  BY <1>1, <1>2, <1>3, <1>4, <1>5, <1>6 DEF IInv

-----------------------------------------------------------------------------
(* The accept thread.                                                      *)

\* The lowest free descriptor is a free one.
LEMMA LowestIsFree ==
    ASSUME Free # {}
    PROVE  LowestFree \in Fds /\ table[LowestFree] = "none"
<1>1. Free \subseteq Nat
  <2>1. MaxFd \in Nat
    BY TelnetAssumption
  <2> QED  BY <2>1 DEF Free, Fds
<1>2. \E f \in Free : \A g \in Free : f <= g
  BY <1>1, LeastNumber
<1>3. LowestFree \in Free
  BY <1>2 DEF LowestFree
<1> QED  BY <1>3 DEF Free

\* The accept thread keeps it so,
LEMMA AcceptThreadKeeps == IInv /\ AcceptThread => IInv'
<1> SUFFICES ASSUME IInv, AcceptThread PROVE IInv'
  OBVIOUS
<1> USE Sentinels DEF IInv, Stopping
<1>1. CASE AcceptCheck \/ AcceptFails
  <2> USE <1>1 DEF AcceptCheck, AcceptFails, serverVars, kernelVars
  <2>1. TypeOK'
    BY DEF TypeOK
  <2>2. Threads' /\ Handover' /\ Joining'
    BY DEF Threads, Handover, Joining
  <2>3. Descriptors'
    BY DEF Descriptors, Live
  <2>4. Listing'
    BY DEF Listing, Registered
  <2>5. Sending'
    BY DEF Sending
  <2> QED  BY <2>1, <2>2, <2>3, <2>4, <2>5
<1>2. ASSUME NEW c \in Clients, Accept(c) PROVE IInv'
  <2> DEFINE fd == LowestFree
  <2>1. fd \in Fds /\ table[fd] = "none"
    BY <1>2, LowestIsFree DEF Accept
  <2>2. /\ acceptPc = "accept" /\ acceptPc' = "push" /\ peer[c] = "waiting"
        /\ table' = [table EXCEPT ![fd] = c]
        /\ fdOf' = [fdOf EXCEPT ![c] = fd]
        /\ peer' = [peer EXCEPT ![c] = "connected"]
        /\ accepted' = c
        /\ UNCHANGED <<serverVars, clientsMutex_, mainPc, uartPc, toSend,
                       threadPc, logFd, rotations, unread, shut, full>>
    BY <1>2 DEF Accept
  <2> HIDE DEF fd
  <2> USE <2>1, <2>2 DEF serverVars
  <2>3. threadPc[c] = "none" /\ accepted \notin Clients
    BY DEF Handover
  <2>4. TypeOK'
    <3>1. table' \in [Fds -> Clients \cup {"none", "log", "server"}]
      BY DEF TypeOK
    <3>2. fdOf' \in [Clients -> Fds \cup {NoFd}]
      BY DEF TypeOK
    <3> QED  BY <3>1, <3>2 DEF TypeOK
  <2>5. Threads'
    BY DEF Threads
  <2>6. Handover'
    BY <2>3 DEF Handover, Threads
  <2>7. Joining'
    BY DEF Joining
  <2>8. \A f \in Fds : f # fd => table'[f] = table[f]
    BY DEF TypeOK
  <2>9. \A d \in Clients : d # c => fdOf'[d] = fdOf[d] /\ Live(d)' = Live(d)
    BY <2>3 DEF TypeOK, Live
  <2>10. table'[fd] = c /\ fdOf'[c] = fd /\ Live(c)' /\ ~Live(c)
    BY <2>3 DEF TypeOK, Live
  <2>11. Descriptors'
    <3>1. /\ serverFd_ # NoFd => table'[serverFd_] = "server"
          /\ logFd # NoFd => table'[logFd] = "log"
      BY <2>8 DEF Descriptors, TypeOK
    <3>2. ASSUME NEW f \in Fds, table'[f] \in Clients
          PROVE  fdOf'[table'[f]] = f /\ Live(table[f])'
      <4>1. CASE f = fd
        BY <2>10, <4>1
      <4>2. CASE f # fd
        <5>1. table'[f] = table[f] /\ fdOf[table[f]] = f /\ Live(table[f])
          BY <2>8, <3>2, <4>2 DEF Descriptors
        <5>2. table[f] # c
          BY <2>10, <5>1
        <5> QED  BY <2>9, <3>2, <5>1, <5>2
      <4> QED  BY <4>1, <4>2
    <3>3. ASSUME NEW d \in Clients, Live(d)'
          PROVE  /\ fdOf'[d] \in Fds
                 /\ \/ table'[fdOf'[d]] = d
                    \/ Stopping /\ table'[fdOf'[d]] \in {"none", "log"}
      <4>1. CASE d = c
        BY <2>10, <4>1
      <4>2. CASE d # c
        <5>1. Live(d) /\ fdOf'[d] = fdOf[d]
          BY <2>9, <3>3, <4>2
        <5>2. ~Stopping
          BY DEF Joining
        <5>3. fdOf[d] \in Fds /\ table[fdOf[d]] = d
          BY <5>1, <5>2 DEF Descriptors
        <5>4. fdOf[d] # fd
          BY <5>3
        <5> QED  BY <2>8, <5>1, <5>3, <5>4
      <4> QED  BY <4>1, <4>2
    <3> QED  BY <3>1, <3>2, <3>3 DEF Descriptors
  <2>12. Listing'
    <3>1. \A i \in 1..Len(clientFds_) : clientFds_[i] # fd /\ clientFds_[i] \in Fds
      <4>1. \A i \in 1..Len(clientFds_) : clientFds_[i] \in Fds
        BY ElementOfSeq DEF TypeOK
      <4> QED  BY <4>1 DEF Listing
    <3>2. ASSUME NEW i \in 1..Len(clientFds_)
          PROVE  table'[clientFds_[i]] \in Clients /\ Registered(table[clientFds_[i]])'
      BY <2>3, <2>8, <3>1 DEF Listing, Registered
    <3> QED  BY <3>2 DEF Listing
  <2>13. Sending'
    BY DEF Sending
  <2> QED  BY <2>4, <2>5, <2>6, <2>7, <2>11, <2>12, <2>13
<1>3. CASE AcceptPush
  <2>0. PICK c \in Clients, fd \in Fds :
           c = accepted /\ fd = fdOf[c] /\ table[fd] = c /\ ~Stopping
    <3>1. acceptPc = "push"
      BY <1>3 DEF AcceptPush
    <3>2. accepted \in Clients /\ Live(accepted) /\ ~Stopping
      BY <3>1 DEF Handover, Joining, Live
    <3> QED  BY <3>2 DEF Descriptors
  <2>1. /\ acceptPc = "push" /\ acceptPc' = "spawn" /\ clientsMutex_ = "free"
        /\ clientFds_' = Append(clientFds_, fd)
        /\ UNCHANGED <<running_, serverFd_, clientThreads_, onClientData_,
                       clientsMutex_, mainPc, accepted, uartPc, toSend,
                       threadPc, fdOf, kernelVars>>
    BY <1>3, <2>0 DEF AcceptPush
  <2>2. threadPc[c] = "none"
    BY <2>0 DEF Handover
  <2>3. /\ clientFds_' \in Seq(Fds)
        /\ \A i \in 1..Len(clientFds_') :
              \/ i \in 1..Len(clientFds_) /\ clientFds_'[i] = clientFds_[i]
              \/ /\ i \notin 1..Len(clientFds_)
                 /\ i = Len(clientFds_) + 1 /\ clientFds_'[i] = fd
    <3>1. clientFds_ \in Seq(Fds)
      BY DEF TypeOK
    <3>2. /\ Append(clientFds_, fd) \in Seq(Fds)
          /\ \A i \in 1..Len(Append(clientFds_, fd)) :
                \/ /\ i \in 1..Len(clientFds_)
                   /\ Append(clientFds_, fd)[i] = clientFds_[i]
                \/ /\ i \notin 1..Len(clientFds_) /\ i = Len(clientFds_) + 1
                   /\ Append(clientFds_, fd)[i] = fd
      BY <3>1, AppendIndices
    <3>3. clientFds_' = Append(clientFds_, fd)
      BY <2>1
    <3> QED  BY <3>2, <3>3
  <2>4. TypeOK'
    BY <2>1, <2>3 DEF TypeOK, kernelVars
  <2>5. Threads' /\ Handover' /\ Joining'
    BY <2>0, <2>1, <2>2 DEF Threads, Handover, Joining, kernelVars
  <2>6. Descriptors'
    BY <2>1 DEF Descriptors, Live, kernelVars
  <2>7. Listing'
    <3>1. table' = table /\ threadPc' = threadPc
      BY <2>1 DEF kernelVars
    <3>2. Registered(c)' /\ ~Registered(c)
      BY <2>0, <2>1, <2>2 DEF Registered
    <3>3. \A d \in Clients : Registered(d) => Registered(d)'
      BY <2>1 DEF Registered
    <3>4. \A i \in 1..Len(clientFds_) : clientFds_[i] # fd
      BY <2>0, <3>2 DEF Listing
    <3>5. ASSUME NEW i \in 1..Len(clientFds_')
          PROVE  (table[clientFds_[i]] \in Clients /\ Registered(table[clientFds_[i]]))'
      <4>1. CASE i \in 1..Len(clientFds_) /\ clientFds_'[i] = clientFds_[i]
        BY <3>1, <3>3, <4>1 DEF Listing
      <4>2. CASE clientFds_'[i] = fd
        BY <2>0, <3>1, <3>2, <4>2
      <4> QED  BY <2>3, <4>1, <4>2
    <3>6. \A i, j \in 1..Len(clientFds_') : i # j => clientFds_'[i] # clientFds_'[j]
      BY <2>3, <3>4 DEF Listing
    <3> QED  BY <3>1, <3>5, <3>6 DEF Listing
  <2>8. Sending'
    <3>1. uartPc # "send" /\ toSend = <<>>
      BY <2>1 DEF Sending, TypeOK
    <3> QED  BY <2>1, <3>1, EmptySeq DEF Sending
  <2> QED  BY <2>4, <2>5, <2>6, <2>7, <2>8
<1>4. CASE AcceptSpawn
  <2> USE <1>4 DEF AcceptSpawn, kernelVars
  <2>1. accepted \in Clients
    BY DEF Handover
  <2>2. TypeOK'
    BY <2>1 DEF TypeOK
  <2>3. Threads' /\ Handover' /\ Joining'
    BY <2>1 DEF Threads, Handover, Joining
  <2>4. Descriptors'
    <3>1. \A c \in Clients : Live(c)' <=> Live(c)
      BY <2>1 DEF Live, Threads, Handover
    <3>2. acceptPc # "done" /\ acceptPc' # "done"
      BY <2>1
    <3> QED  BY <3>1, <3>2 DEF Descriptors
  <2>5. \A c \in Clients : Registered(c) => Registered(c)'
    BY <2>1 DEF Registered, Threads
  <2>6. Listing'
    BY <2>5 DEF Listing
  <2>7. Sending'
    BY DEF Sending
  <2> QED  BY <2>2, <2>3, <2>4, <2>6, <2>7
<1> QED  BY <1>1, <1>2, <1>3, <1>4 DEF AcceptThread

-----------------------------------------------------------------------------
(* A client's thread.                                                      *)

\* Whatever it does before it leaves the list, it stays registered.
LEMMA ClientLoopKeeps ==
    ASSUME IInv, NEW c \in Clients,
           ClientCheck(c) \/ ClientRecv(c) \/ ClientData(c) \/ ClientEof(c)
              \/ ClientDeliver(c)
    PROVE  IInv'
<1> DEFINE running == {"check", "recv", "blocked", "deliver", "erase"}
<1>1. PICK there \in running :
         /\ threadPc[c] \in running
         /\ threadPc' = [threadPc EXCEPT ![c] = there]
         /\ UNCHANGED <<serverVars, clientsMutex_, mainPc, acceptPc, accepted,
                        uartPc, toSend, fdOf, table, logFd, rotations, peer>>
  BY DEF ClientCheck, ClientRecv, ClientData, ClientEof, ClientDeliver, Goto,
         kernelVars
<1> USE Sentinels DEF IInv, Stopping, serverVars
<1>2. TypeOK' /\ Threads'
  <2>1. TypeOK'
    BY <1>1 DEF TypeOK
  <2>2. Threads'
    BY <1>1 DEF Threads
  <2> QED  BY <2>1, <2>2
<1>3. Handover'
  BY <1>1 DEF Handover, Threads
<1>4. Joining'
  BY <1>1 DEF Joining, Threads
<1>5. \A d \in Clients : (Live(d) <=> Live(d)') /\ (Registered(d) => Registered(d)')
  BY <1>1 DEF Live, Registered, Threads
<1>6. Descriptors'
  BY <1>1, <1>5 DEF Descriptors
<1>7. Listing'
  BY <1>1, <1>5 DEF Listing
<1>8. Sending'
  BY <1>1 DEF Sending
<1> QED  BY <1>2, <1>3, <1>4, <1>6, <1>7, <1>8

\* Then it leaves the list before it gives up its descriptor.
LEMMA ClientEraseKeeps ==
    ASSUME IInv, NEW c \in Clients, ClientErase(c)
    PROVE  IInv'
<1>1. /\ threadPc[c] = "erase" /\ clientsMutex_ = "free"
      /\ clientFds_' = Without(clientFds_, fdOf[c])
      /\ threadPc' = [threadPc EXCEPT ![c] = "close"]
      /\ UNCHANGED <<running_, serverFd_, clientThreads_, onClientData_,
                     clientsMutex_, mainPc, acceptPc, accepted, uartPc, toSend,
                     fdOf, table, logFd, rotations, peer>>
  BY DEF ClientErase, Goto, kernelVars
<1> USE Sentinels DEF IInv, Stopping
<1>2. /\ clientFds_' \in Seq(Fds)
      /\ \A i \in 1..Len(clientFds_') :
            clientFds_'[i] # fdOf[c]
            /\ \E j \in 1..Len(clientFds_) : clientFds_'[i] = clientFds_[j]
      /\ \A i, j \in 1..Len(clientFds_') : i # j => clientFds_'[i] # clientFds_'[j]
  <2>1. /\ clientFds_ \in Seq(Fds)
        /\ \A i, j \in 1..Len(clientFds_) : i # j => clientFds_[i] # clientFds_[j]
    BY DEF TypeOK, Listing
  <2> DEFINE kept == Without(clientFds_, fdOf[c])
  <2>2. /\ kept \in Seq(Fds)
        /\ \A i \in 1..Len(kept) :
              kept[i] # fdOf[c] /\ \E j \in 1..Len(clientFds_) : kept[i] = clientFds_[j]
        /\ \A i, j \in 1..Len(kept) : i # j => kept[i] # kept[j]
    <3> HIDE DEF IInv
    <3> QED  BY <2>1, WithoutProperties
  <2>3. clientFds_' = kept
    BY <1>1
  <2> HIDE DEF kept
  <2> QED  BY <2>2, <2>3
<1>3. TypeOK' /\ Threads'
  <2>1. TypeOK'
    BY <1>1, <1>2 DEF TypeOK
  <2>2. Threads'
    BY <1>1 DEF Threads
  <2> QED  BY <2>1, <2>2
<1>4. Handover'
  BY <1>1 DEF Handover, Threads
<1>5. Joining'
  BY <1>1 DEF Joining, Threads
<1>6. \A d \in Clients : /\ Live(d) <=> Live(d)'
                         /\ d # c /\ Registered(d) => Registered(d)'
  BY <1>1 DEF Live, Registered, Threads
<1>7. Descriptors'
  BY <1>1, <1>6 DEF Descriptors
<1>8. Listing'
  <2>1. ASSUME NEW i \in 1..Len(clientFds_')
        PROVE  (table[clientFds_[i]] \in Clients /\ Registered(table[clientFds_[i]]))'
    <3>1. PICK j \in 1..Len(clientFds_) :
             clientFds_'[i] = clientFds_[j] /\ clientFds_[j] # fdOf[c]
      BY <1>2
    <3>2. clientFds_[j] \in Fds
      BY ElementOfSeq DEF TypeOK
    <3>3. table[clientFds_[j]] \in Clients /\ Registered(table[clientFds_[j]])
      BY DEF Listing
    <3>4. table[clientFds_[j]] # c
      BY <3>1, <3>2, <3>3 DEF Descriptors
    <3> QED  BY <1>1, <1>6, <3>1, <3>3, <3>4
  <2> QED  BY <1>2, <2>1 DEF Listing
<1>9. Sending'
  <2>1. uartPc # "send" /\ toSend = <<>>
    BY <1>1 DEF Sending, TypeOK
  <2> QED  BY <1>1, <2>1, EmptySeq DEF Sending
<1> QED  BY <1>3, <1>4, <1>5, <1>7, <1>8, <1>9

\* What it closes is its own socket, or after stop closed that, nobody's or
\* the log's, but no other client's.
LEMMA ClientCloseKeeps ==
    ASSUME IInv, NEW c \in Clients, ClientClose(c)
    PROVE  IInv'
<1> USE Sentinels DEF IInv, Stopping
<1>1. PICK fd \in Fds :
         /\ fd = fdOf[c]
         /\ \/ table[fd] = c
            \/ Stopping /\ table[fd] \in {"none", "log"}
  <2>1. Live(c)
    BY DEF ClientClose, Live
  <2>2. /\ fdOf[c] \in Fds
        /\ \/ table[fdOf[c]] = c
           \/ Stopping /\ table[fdOf[c]] \in {"none", "log"}
    BY <2>1 DEF Descriptors
  <2> QED  BY <2>2
<1>2. /\ threadPc[c] = "close"
      /\ table' = [table EXCEPT ![fd] = "none"]
      /\ threadPc' = [threadPc EXCEPT ![c] = "done"]
      /\ UNCHANGED <<serverVars, clientsMutex_, mainPc, acceptPc, accepted,
                     uartPc, toSend, fdOf, logFd, rotations, peer>>
  BY <1>1 DEF ClientClose, CloseFd, Goto
<1> USE DEF serverVars
<1>3. TypeOK' /\ Threads'
  <2>1. table' \in [Fds -> Clients \cup {"none", "log", "server"}]
    BY <1>2 DEF TypeOK
  <2>2. TypeOK'
    BY <1>2, <2>1 DEF TypeOK
  <2>3. Threads'
    BY <1>2 DEF Threads
  <2> QED  BY <2>2, <2>3
<1>4. Handover'
  BY <1>2 DEF Handover, Threads
<1>5. Joining'
  BY <1>2 DEF Joining, Threads
<1>6. \A d \in Clients : d # c =>
         (Live(d) <=> Live(d)') /\ (Registered(d) <=> Registered(d)')
  BY <1>2 DEF Live, Registered, Threads
<1>7. ~Live(c)' /\ ~Registered(c)
  BY <1>2 DEF Live, Registered, Threads, Handover
<1>8. table'[fd] = "none" /\ \A f \in Fds : f # fd => table'[f] = table[f]
  BY <1>2 DEF TypeOK
<1>9. Descriptors'
  <2>1. serverFd_ # NoFd => table'[serverFd_] = "server"
    <3>1. serverFd_ # NoFd => serverFd_ \in Fds /\ table[serverFd_] = "server"
      BY DEF Descriptors, TypeOK
    <3>2. serverFd_ # NoFd => table[fd] # "server"
      BY <1>1 DEF Descriptors, Joining
    <3> QED  BY <1>8, <3>1, <3>2
  <2>2. logFd # NoFd => \/ table'[logFd] = "log"
                        \/ acceptPc = "done" /\ table'[logFd] = "none"
    BY <1>1, <1>8 DEF Descriptors, Joining, TypeOK
  <2>3. ASSUME NEW f \in Fds, table'[f] \in Clients
        PROVE  (fdOf[table[f]] = f /\ Live(table[f]))'
    <3>1. f # fd /\ table'[f] = table[f]
      BY <1>8, <2>3
    <3>2. fdOf[table[f]] = f /\ Live(table[f])
      BY <2>3, <3>1 DEF Descriptors
    <3>3. table[f] # c
      BY <1>1, <3>1, <3>2
    <3> QED  BY <1>2, <1>6, <2>3, <3>1, <3>2, <3>3
  <2>4. ASSUME NEW d \in Clients, Live(d)'
        PROVE  (/\ fdOf[d] \in Fds
                /\ \/ table[fdOf[d]] = d
                   \/ Stopping /\ table[fdOf[d]] \in {"none", "log"})'
    <3>1. d # c /\ Live(d)
      BY <1>6, <1>7, <2>4
    <3>2. /\ fdOf[d] \in Fds
          /\ \/ table[fdOf[d]] = d
             \/ Stopping /\ table[fdOf[d]] \in {"none", "log"}
      BY <3>1 DEF Descriptors
    <3>3. CASE fdOf[d] = fd
      <4>1. Stopping
        BY <1>1, <3>1, <3>2, <3>3
      <4> QED  BY <1>2, <1>8, <3>3, <4>1
    <3>4. CASE fdOf[d] # fd
      BY <1>2, <1>8, <3>2, <3>4
    <3> QED  BY <3>3, <3>4
  <2>5. uartPc' = "close log" => logFd' # NoFd
    BY <1>2 DEF Descriptors
  <2> QED  BY <1>2, <2>1, <2>2, <2>3, <2>4, <2>5 DEF Descriptors
<1>10. Listing'
  <2>1. ASSUME NEW i \in 1..Len(clientFds_')
        PROVE  (table[clientFds_[i]] \in Clients /\ Registered(table[clientFds_[i]]))'
    <3>1. clientFds_' = clientFds_ /\ clientFds_[i] \in Fds
      BY <1>2, ElementOfSeq DEF TypeOK
    <3>2. table[clientFds_[i]] \in Clients /\ Registered(table[clientFds_[i]])
      BY <3>1 DEF Listing
    <3>3. table[clientFds_[i]] # c
      BY <1>7, <3>2
    <3>4. clientFds_[i] # fd
      BY <1>1, <3>2, <3>3
    <3> QED  BY <1>6, <1>8, <3>1, <3>2, <3>3, <3>4
  <2> QED  BY <1>2, <2>1 DEF Listing
<1>11. Sending'
  BY <1>2 DEF Sending
<1> QED  BY <1>3, <1>4, <1>5, <1>9, <1>10, <1>11

\* and so does a client's thread.
LEMMA ClientThreadKeeps ==
    ASSUME IInv, NEW c \in Clients, ClientThread(c)
    PROVE  IInv'
BY ClientLoopKeeps, ClientEraseKeeps, ClientCloseKeeps DEF ClientThread

-----------------------------------------------------------------------------
(* The UART thread.                                                        *)

\* Broadcasting touches nothing but the mutex and its own place in the list.
LEMMA BroadcastKeeps ==
    ASSUME IInv, BroadcastLock \/ BroadcastSend \/ BroadcastDone
    PROVE  IInv'
<1> USE Sentinels DEF IInv, Stopping
<1>1. UNCHANGED <<serverVars, mainPc, acceptPc, accepted, threadPc, fdOf,
                  kernelVars>>
  BY DEF BroadcastLock, BroadcastSend, BroadcastDone
<1> USE DEF serverVars, kernelVars
<1>2. Handover' /\ Joining'
  BY <1>1 DEF Handover, Joining
<1>3. Listing'
  BY <1>1 DEF Listing, Registered
<1>4. CASE BroadcastLock
  <2>1. TypeOK' /\ Threads'
    BY <1>1, <1>4 DEF BroadcastLock, TypeOK, Threads
  <2>2. Descriptors'
    BY <1>1, <1>4 DEF BroadcastLock, Descriptors, Live
  <2>3. Sending'
    BY <1>1, <1>4 DEF BroadcastLock, Sending
  <2> QED  BY <1>2, <1>3, <2>1, <2>2, <2>3
<1>5. CASE BroadcastSend
  <2>1. /\ uartPc = "send" /\ toSend # <<>> /\ toSend' = Tail(toSend)
        /\ UNCHANGED <<clientsMutex_, uartPc>>
    BY <1>5 DEF BroadcastSend
  <2>2. toSend \in Seq(Fds)
    BY DEF TypeOK
  <2>3. /\ Tail(toSend) \in Seq(Fds)
        /\ \A i \in 1..Len(Tail(toSend)) :
              i + 1 \in 1..Len(toSend) /\ Tail(toSend)[i] = toSend[i + 1]
    BY <2>1, <2>2, TailIndices
  <2>4. TypeOK' /\ Threads'
    <3>1. TypeOK'
      BY <1>1, <2>1, <2>3 DEF TypeOK
    <3>2. Threads'
      BY <1>1, <2>1 DEF Threads
    <3> QED  BY <3>1, <3>2
  <2>5. Descriptors'
    BY <1>1, <2>1 DEF Descriptors, Live
  <2>6. Sending'
    BY <1>1, <2>1, <2>3 DEF Sending
  <2> QED  BY <1>2, <1>3, <2>4, <2>5, <2>6
<1>6. CASE BroadcastDone
  <2>1. TypeOK' /\ Threads'
    <3>1. TypeOK'
      BY <1>1, <1>6 DEF BroadcastDone, TypeOK
    <3>2. Threads'
      BY <1>1, <1>6 DEF BroadcastDone, Threads
    <3> QED  BY <3>1, <3>2
  <2>2. Descriptors'
    BY <1>1, <1>6 DEF BroadcastDone, Descriptors, Live
  <2>3. Sending'
    <3>1. toSend' = <<>> /\ Len(<<>>) = 0
      BY <1>6, EmptySeq DEF BroadcastDone
    <3> QED  BY <3>1 DEF Sending
  <2> QED  BY <1>2, <1>3, <2>1, <2>2, <2>3
<1> QED  BY <1>4, <1>5, <1>6

\* The rotation of the log closes no client's descriptor and takes none.
LEMMA RotationKeeps ==
    ASSUME IInv, CloseLog \/ OpenLog
    PROVE  IInv'
<1> USE Sentinels DEF IInv, Stopping
<1>1. /\ UNCHANGED <<serverVars, clientsMutex_, mainPc, acceptPc, accepted,
                     toSend, threadPc, fdOf, peer>>
      /\ uartPc \in {"close log", "open log"} /\ uartPc' \in {"open log", "read"}
  BY DEF CloseLog, OpenLog
<1> USE DEF serverVars
<1>2. Threads' /\ Handover' /\ Joining'
  BY <1>1 DEF Threads, Handover, Joining
<1>3. Sending'
  BY <1>1 DEF Sending
<1>4. \A d \in Clients : (Live(d) <=> Live(d)') /\ (Registered(d) <=> Registered(d)')
  BY <1>1 DEF Live, Registered
<1>5. \/ table' = table /\ logFd' = logFd
      \/ \E f \in Fds : /\ table[f] \in {"none", "log"}
                        /\ \/ table' = [table EXCEPT ![f] = "none"] /\ logFd' = NoFd
                           \/ table' = [table EXCEPT ![f] = "log"] /\ logFd' = f
  <2>1. CASE CloseLog
    BY <2>1 DEF CloseLog, CloseFd, Descriptors, TypeOK
  <2>2. CASE OpenLog
    BY <2>2, LowestIsFree DEF OpenLog
  <2> QED  BY <2>1, <2>2
<1>6. TypeOK'
  <2>1. table' \in [Fds -> Clients \cup {"none", "log", "server"}]
        /\ logFd' \in Fds \cup {NoFd}
    BY <1>5 DEF TypeOK
  <2> QED  BY <1>1, <2>1 DEF TypeOK
<1>7. CASE table' = table /\ logFd' = logFd
  <2>1. Descriptors'
    BY <1>1, <1>4, <1>7 DEF Descriptors
  <2>2. Listing'
    BY <1>1, <1>4, <1>7 DEF Listing
  <2> QED  BY <1>2, <1>3, <1>6, <2>1, <2>2
<1>8. ASSUME NEW f \in Fds, table[f] \in {"none", "log"},
             \/ table' = [table EXCEPT ![f] = "none"] /\ logFd' = NoFd
             \/ table' = [table EXCEPT ![f] = "log"] /\ logFd' = f
      PROVE  IInv'
  <2>1. /\ table'[f] \in {"none", "log"} /\ \A g \in Fds : g # f => table'[g] = table[g]
        /\ logFd' # NoFd => table'[logFd'] = "log"
    BY <1>8 DEF TypeOK
  <2>2. Descriptors'
    <3>1. serverFd_ # NoFd => table'[serverFd_] = "server"
      BY <1>8, <2>1 DEF Descriptors, TypeOK
    <3>2. ASSUME NEW g \in Fds, table'[g] \in Clients
          PROVE  (fdOf[table[g]] = g /\ Live(table[g]))'
      <4>1. table'[g] = table[g]
        BY <2>1, <3>2
      <4>2. fdOf[table[g]] = g /\ Live(table[g])
        BY <3>2, <4>1 DEF Descriptors
      <4> QED  BY <1>1, <1>4, <3>2, <4>1, <4>2
    <3>3. ASSUME NEW d \in Clients, Live(d)'
          PROVE  (/\ fdOf[d] \in Fds
                  /\ \/ table[fdOf[d]] = d
                     \/ Stopping /\ table[fdOf[d]] \in {"none", "log"})'
      <4>1. /\ fdOf[d] \in Fds
            /\ \/ table[fdOf[d]] = d
               \/ Stopping /\ table[fdOf[d]] \in {"none", "log"}
        BY <1>4, <3>3 DEF Descriptors
      <4> QED  BY <1>1, <1>8, <2>1, <4>1
    <3> QED  BY <1>1, <2>1, <3>1, <3>2, <3>3 DEF Descriptors
  <2>3. Listing'
    <3>1. ASSUME NEW i \in 1..Len(clientFds_')
          PROVE  (table[clientFds_[i]] \in Clients /\ Registered(table[clientFds_[i]]))'
      <4>1. clientFds_' = clientFds_ /\ clientFds_[i] \in Fds
        BY <1>1, ElementOfSeq DEF TypeOK
      <4>2. table[clientFds_[i]] \in Clients /\ Registered(table[clientFds_[i]])
        BY <4>1 DEF Listing
      <4> QED  BY <1>4, <1>8, <2>1, <4>1, <4>2
    <3> QED  BY <1>1, <3>1 DEF Listing
  <2> QED  BY <1>2, <1>3, <1>6, <2>2, <2>3
<1> QED  BY <1>5, <1>7, <1>8

-----------------------------------------------------------------------------
(* The main thread.                                                        *)

\* All of stop except what closes descriptors.
LEMMA StopFlowKeeps ==
    ASSUME IInv,
           WireCallback \/ Stop \/ StopJoinAccept \/ StopLock \/ StopUnlock
              \/ StopJoinClients
    PROVE  IInv'
<1> USE Sentinels DEF IInv, Stopping
<1>1. UNCHANGED <<serverFd_, clientFds_, acceptPc, accepted, uartPc, toSend,
                  threadPc, fdOf, kernelVars>>
  BY DEF WireCallback, Stop, StopJoinAccept, StopLock, StopUnlock,
         StopJoinClients, serverVars
<1> USE DEF kernelVars
<1>2. Handover' /\ Sending'
  BY <1>1 DEF Handover, Sending
<1>3. Listing'
  BY <1>1 DEF Listing, Registered
<1>4. Stopping => mainPc' \in {"close clients", "join clients", "stopped"}
  BY DEF WireCallback, Stop, StopJoinAccept, StopLock, StopUnlock,
         StopJoinClients
<1>5. Descriptors'
  BY <1>1, <1>4 DEF Descriptors, Live
<1>6. CASE WireCallback \/ Stop
  <2>1. TypeOK' /\ Threads'
    <3>1. TypeOK'
      BY <1>1, <1>6 DEF WireCallback, Stop, TypeOK
    <3>2. Threads'
      BY <1>1, <1>6 DEF WireCallback, Stop, Threads
    <3> QED  BY <3>1, <3>2
  <2>2. Joining'
    BY <1>1, <1>6 DEF WireCallback, Stop, Joining
  <2> QED  BY <1>2, <1>3, <1>5, <2>1, <2>2
<1>7. CASE StopJoinAccept \/ StopLock \/ StopUnlock
  <2>1. TypeOK'
    BY <1>1, <1>7 DEF StopJoinAccept, StopLock, StopUnlock, TypeOK, serverVars
  <2>2. Threads'
    BY <1>1, <1>7 DEF StopJoinAccept, StopLock, StopUnlock, Threads
  <2>3. Joining'
    BY <1>1, <1>7 DEF StopJoinAccept, StopLock, StopUnlock, Joining, serverVars
  <2> QED  BY <1>2, <1>3, <1>5, <2>1, <2>2, <2>3
<1>8. CASE StopJoinClients
  <2>1. TypeOK' /\ Threads'
    BY <1>1, <1>8 DEF StopJoinClients, TypeOK, Threads
  <2>2. \A c \in Clients : threadPc[c] \in {"none", "done"}
    BY <1>8 DEF StopJoinClients, Joining
  <2>3. Joining'
    BY <1>1, <1>8, <2>2 DEF StopJoinClients, Joining
  <2> QED  BY <1>2, <1>3, <1>5, <2>1, <2>3
<1> QED  BY <1>6, <1>7, <1>8

\* The listening socket is closed once.
LEMMA StopServerKeeps ==
    ASSUME IInv, StopServer
    PROVE  IInv'
<1> USE Sentinels DEF IInv, Stopping
<1>1. PICK fd \in Fds : fd = serverFd_ /\ table[fd] = "server"
  BY DEF StopServer, Joining, Descriptors, TypeOK
<1>2. /\ mainPc = "close server" /\ mainPc' = "join accept"
      /\ table' = [table EXCEPT ![fd] = "none"] /\ serverFd_' = NoFd
      /\ UNCHANGED <<running_, clientFds_, clientThreads_, onClientData_,
                     clientsMutex_, acceptPc, accepted, uartPc, toSend,
                     threadPc, fdOf, logFd, peer>>
  BY <1>1 DEF StopServer, CloseFd
<1>3. table'[fd] = "none" /\ \A f \in Fds : f # fd => table'[f] = table[f]
  BY <1>2 DEF TypeOK
<1>4. TypeOK'
  <2>1. table' \in [Fds -> Clients \cup {"none", "log", "server"}]
    BY <1>2 DEF TypeOK
  <2> QED  BY <1>2, <2>1 DEF TypeOK
<1>5. Threads' /\ Handover' /\ Joining'
  BY <1>2 DEF Threads, Handover, Joining
<1>6. \A d \in Clients : (Live(d) <=> Live(d)') /\ (Registered(d) <=> Registered(d)')
  BY <1>2 DEF Live, Registered
<1>7. Descriptors'
  <2>1. logFd # NoFd => \/ table'[logFd] = "log"
                        \/ acceptPc = "done" /\ table'[logFd] = "none"
    BY <1>1, <1>3 DEF Descriptors, TypeOK
  <2>2. ASSUME NEW g \in Fds, table'[g] \in Clients
        PROVE  (fdOf[table[g]] = g /\ Live(table[g]))'
    <3>1. table'[g] = table[g]
      BY <1>3, <2>2
    <3>2. fdOf[table[g]] = g /\ Live(table[g])
      BY <2>2, <3>1 DEF Descriptors
    <3> QED  BY <1>2, <1>6, <2>2, <3>1, <3>2
  <2>3. ASSUME NEW d \in Clients, Live(d)'
        PROVE  (/\ fdOf[d] \in Fds
                /\ \/ table[fdOf[d]] = d
                   \/ Stopping /\ table[fdOf[d]] \in {"none", "log"})'
    <3>1. fdOf[d] \in Fds /\ table[fdOf[d]] = d
      BY <1>2, <1>6, <2>3 DEF Descriptors
    <3> QED  BY <1>1, <1>2, <1>3, <3>1
  <2> QED  BY <1>2, <2>1, <2>2, <2>3 DEF Descriptors
<1>8. Listing'
  <2>1. ASSUME NEW i \in 1..Len(clientFds_')
        PROVE  (table[clientFds_[i]] \in Clients /\ Registered(table[clientFds_[i]]))'
    <3>1. clientFds_' = clientFds_ /\ clientFds_[i] \in Fds
      BY <1>2, ElementOfSeq DEF TypeOK
    <3>2. table[clientFds_[i]] \in Clients /\ Registered(table[clientFds_[i]])
      BY <3>1 DEF Listing
    <3> QED  BY <1>1, <1>3, <1>6, <3>1, <3>2
  <2> QED  BY <1>2, <2>1 DEF Listing
<1>9. Sending'
  BY <1>2 DEF Sending
<1> QED  BY <1>4, <1>5, <1>7, <1>8, <1>9

\* stop closes the first of the list, which is on it only once, and nobody
\* accepts any more.
LEMMA StopCloseClientKeeps ==
    ASSUME IInv, StopCloseClient
    PROVE  IInv'
<1> USE Sentinels DEF IInv, Stopping
<1>1. /\ clientFds_ \in Seq(Fds) /\ clientFds_ # <<>>
      /\ mainPc = "close clients" /\ acceptPc = "done"
  BY DEF StopCloseClient, TypeOK, Joining
<1>2. PICK fd \in Fds : fd = Head(clientFds_) /\ fd = clientFds_[1]
  BY <1>1, TailIndices, Zenon
<1>3. /\ table' = [table EXCEPT ![fd] = "none"]
      /\ clientFds_' = Tail(clientFds_)
      /\ UNCHANGED <<running_, serverFd_, clientThreads_, onClientData_,
                     clientsMutex_, mainPc, acceptPc, accepted, uartPc, toSend,
                     threadPc, fdOf, logFd, peer>>
  BY <1>2 DEF StopCloseClient, CloseFd
<1>4. /\ 1 \in 1..Len(clientFds_)
      /\ clientFds_' \in Seq(Fds)
      /\ \A i \in 1..Len(clientFds_') :
            /\ i + 1 \in 1..Len(clientFds_) /\ i + 1 # 1
            /\ clientFds_'[i] = clientFds_[i + 1]
  BY <1>1, <1>3, TailIndices
<1>5. table'[fd] = "none" /\ \A f \in Fds : f # fd => table'[f] = table[f]
  BY <1>3 DEF TypeOK
<1>6. table[fd] \in Clients
  BY <1>2, <1>4 DEF Listing
<1>7. \A i \in 1..Len(clientFds_') : clientFds_'[i] # fd /\ clientFds_'[i] \in Fds
  <2>1. \A j \in 1..Len(clientFds_) : clientFds_[j] \in Fds
    BY <1>1, ElementOfSeq
  <2>2. \A j \in 1..Len(clientFds_) : j # 1 => clientFds_[j] # fd
    BY <1>2, <1>4 DEF Listing
  <2> QED  BY <1>4, <2>1, <2>2
<1>8. TypeOK'
  <2>1. table' \in [Fds -> Clients \cup {"none", "log", "server"}]
    BY <1>3 DEF TypeOK
  <2> QED  BY <1>3, <1>4, <2>1 DEF TypeOK
<1>9. Threads' /\ Handover' /\ Joining'
  BY <1>3 DEF Threads, Handover, Joining
<1>10. \A d \in Clients : (Live(d) <=> Live(d)') /\ (Registered(d) <=> Registered(d)')
  BY <1>3 DEF Live, Registered
<1>11. Descriptors'
  <2>1. /\ serverFd_ # NoFd => table'[serverFd_] = "server"
        /\ logFd # NoFd => \/ table'[logFd] = "log"
                           \/ acceptPc = "done" /\ table'[logFd] = "none"
    <3>1. serverFd_ = NoFd
      BY <1>1 DEF Joining
    <3>2. CASE logFd = fd
      BY <1>6, <3>1, <3>2 DEF Descriptors
    <3>3. CASE logFd # fd
      BY <1>5, <3>1, <3>3 DEF Descriptors, TypeOK
    <3> QED  BY <3>1, <3>2, <3>3
  <2>2. ASSUME NEW g \in Fds, table'[g] \in Clients
        PROVE  (fdOf[table[g]] = g /\ Live(table[g]))'
    <3>1. table'[g] = table[g]
      BY <1>5, <2>2
    <3>2. fdOf[table[g]] = g /\ Live(table[g])
      BY <2>2, <3>1 DEF Descriptors
    <3> QED  BY <1>3, <1>10, <2>2, <3>1, <3>2
  <2>3. ASSUME NEW d \in Clients, Live(d)'
        PROVE  (/\ fdOf[d] \in Fds
                /\ \/ table[fdOf[d]] = d
                   \/ Stopping /\ table[fdOf[d]] \in {"none", "log"})'
    <3>1. /\ fdOf[d] \in Fds
          /\ \/ table[fdOf[d]] = d
             \/ Stopping /\ table[fdOf[d]] \in {"none", "log"}
      BY <1>10, <2>3 DEF Descriptors
    <3> QED  BY <1>1, <1>3, <1>5, <3>1
  <2> QED  BY <1>3, <2>1, <2>2, <2>3 DEF Descriptors
<1>12. Listing'
  <2>1. ASSUME NEW i \in 1..Len(clientFds_')
        PROVE  (table[clientFds_[i]] \in Clients /\ Registered(table[clientFds_[i]]))'
    <3>1. table[clientFds_[i + 1]] \in Clients /\ Registered(table[clientFds_[i + 1]])
      BY <1>4 DEF Listing
    <3> QED  BY <1>4, <1>5, <1>7, <1>10, <3>1
  <2>2. \A i, j \in 1..Len(clientFds_') : i # j => clientFds_'[i] # clientFds_'[j]
    <3>1. \A i, j \in 1..Len(clientFds_') : i # j => i + 1 # j + 1
      OBVIOUS
    <3> QED  BY <1>4, <3>1 DEF Listing
  <2> QED  BY <2>1, <2>2 DEF Listing
<1>13. Sending'
  <2>1. uartPc # "send" /\ toSend = <<>>
    BY <1>1 DEF Sending, TypeOK
  <2> QED  BY <1>3, <2>1, EmptySeq DEF Sending
<1> QED  BY <1>8, <1>9, <1>11, <1>12, <1>13

-----------------------------------------------------------------------------
(* The peers.                                                              *)

\* A peer comes only while there is no thread for it.
LEMMA PeersKeep ==
    ASSUME IInv, NEW c \in Clients, Peers(c) \/ PeerReads(c) \/ PeerLeaves(c)
    PROVE  IInv'
<1> USE Sentinels DEF IInv, Stopping
<1>1. /\ UNCHANGED <<serverVars, clientsMutex_, mainPc, acceptPc, accepted,
                     uartPc, toSend, threadPc, fdOf, table, logFd>>
      /\ \/ peer' = peer
         \/ peer[c] = "away" /\ peer' = [peer EXCEPT ![c] = "waiting"]
         \/ peer[c] = "connected" /\ peer' = [peer EXCEPT ![c] = "gone"]
  BY DEF Peers, PeerReads, PeerLeaves
<1> USE DEF serverVars
<1>2. TypeOK' /\ Threads'
  <2>1. TypeOK'
    BY <1>1 DEF TypeOK
  <2>2. Threads'
    BY <1>1 DEF Threads
  <2> QED  BY <2>1, <2>2
<1>3. Handover' /\ Joining'
  BY <1>1 DEF Handover, Joining, Threads
<1>4. Descriptors'
  BY <1>1 DEF Descriptors, Live
<1>5. Listing' /\ Sending'
  BY <1>1 DEF Listing, Sending, Registered
<1> QED  BY <1>2, <1>3, <1>4, <1>5

-----------------------------------------------------------------------------
(* Together.                                                               *)

\* The invariant looks at the state only.
LEMMA StutterKeeps == IInv /\ UNCHANGED tvars => IInv'
<1> SUFFICES ASSUME IInv, UNCHANGED tvars PROVE IInv'
  OBVIOUS
<1> USE DEF IInv, Stopping, tvars, serverVars, kernelVars
<1>1. TypeOK'
  BY DEF TypeOK
<1>2. Threads' /\ Handover' /\ Joining'
  BY DEF Threads, Handover, Joining
<1>3. Descriptors'
  BY DEF Descriptors, Live
<1>4. Listing' /\ Sending'
  BY DEF Listing, Sending, Registered
<1> QED  BY <1>1, <1>2, <1>3, <1>4

\* Every step of every thread keeps it.
LEMMA NextKeeps == IInv /\ [Next]_tvars => IInv'
<1> SUFFICES ASSUME IInv, [Next]_tvars PROVE IInv'
  OBVIOUS
<1>1. CASE AcceptThread
  BY <1>1, AcceptThreadKeeps
<1>2. CASE \E c \in Clients : ClientThread(c)
  BY <1>2, ClientThreadKeeps
<1>3. CASE UartThread
  BY <1>3, BroadcastKeeps, RotationKeeps DEF UartThread
<1>4. CASE WireCallback \/ Stop \/ StopGoesOn
  BY <1>4, StopFlowKeeps, StopServerKeeps, StopCloseClientKeeps DEF StopGoesOn
<1>5. CASE \E c \in Clients : Peers(c) \/ PeerReads(c) \/ PeerLeaves(c)
  BY <1>5, PeersKeep
<1>6. CASE UNCHANGED tvars
  BY <1>6, StutterKeeps
<1> QED  BY <1>1, <1>2, <1>3, <1>4, <1>5, <1>6 DEF Next

\* So it holds throughout.
LEMMA Invariance == Spec => []IInv
BY InitEstablishes, NextKeeps, PTL DEF Spec

\* Broadcast writes to, and stop closes, only the open sockets of clients, each
\* client's once.
THEOREM ListedAreAlwaysOpen == Spec => []ListedAreOpen
<1>1. IInv => ListedAreOpen
  <2> SUFFICES ASSUME IInv PROVE ListedAreOpen
    OBVIOUS
  <2>1. \A i \in 1..Len(toSend) : table[toSend[i]] \in Clients
    BY DEF IInv, Listing, Sending
  <2> QED  BY <2>1 DEF IInv, Listing, ListedAreOpen
<1> QED  BY <1>1, Invariance, PTL

\* No client keeps a descriptor beyond its thread, or beyond stop.
THEOREM NothingEverLeaks == Spec => []NothingLeaks
<1>1. IInv => NothingLeaks
  <2> SUFFICES ASSUME IInv, NEW f \in Fds, table[f] \in Clients
               PROVE  mainPc # "stopped" /\ threadPc[table[f]] # "done"
    BY DEF NothingLeaks
  <2>1. Live(table[f])
    BY DEF IInv, Descriptors
  <2>2. threadPc[table[f]] # "done"
    BY <2>1 DEF IInv, Live, Handover
  <2>3. CASE mainPc = "stopped"
    <3>1. acceptPc = "done" /\ threadPc[table[f]] \in {"none", "done"}
      BY <2>3 DEF IInv, Joining, Stopping
    <3>2. accepted \notin Clients
      BY <3>1 DEF IInv, Handover
    <3> QED  BY <2>1, <3>1, <3>2 DEF Live
  <2> QED  BY <2>2, <2>3
<1> QED  BY <1>1, Invariance, PTL

\* When stop has returned, neither the accept thread nor any client's runs.
THEOREM NoThreadEverOutlivesStop == Spec => []NoThreadOutlivesStop
<1>1. IInv => NoThreadOutlivesStop
  BY DEF IInv, Joining, Stopping, NoThreadOutlivesStop
<1> QED  BY <1>1, Invariance, PTL
=============================================================================
