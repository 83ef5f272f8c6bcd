------------------------- MODULE LinuxStorageProofs -------------------------
(***************************************************************************)
(* What holds of the log on disk for every limit of the files and every    *)
(* length of what is written, through any number of crashes, failures and  *)
(* restarts.                                                               *)
(***************************************************************************)
EXTENDS LinuxStorage, SequenceTheorems, WellFoundedInduction, TLAPS

-----------------------------------------------------------------------------
(* The inductive invariant.                                                *)

Bytes == 1..MaxWritten

\* What a write may add at most, what a file may hold if what was in its
\* stream got to the disk twice, and what one may hold to which that happened
\* so many times because it could not be removed.
Longest == Max(Lengths)
Wide == maxFileSize_ + 2 * FLUSH_THRESHOLD + 3 * Longest
Allowed(k) == k * Wide

\* The stream: open outside a rotation, unless it could not be opened or has
\* failed; what it holds is less than a flush, and one write more if that
\* failed; and a file is closed as soon as it is full.
Stream ==
    /\ pc = "close" => isOpen
    /\ pc \in {"down", "remove", "open"} => ~isOpen
    /\ isOpen => files[currentFileIndex_] # Missing
    /\ ~isOpen => buffered = <<>> /\ ~bad
    /\ ~bad => Len(buffered) <= writesSinceFlush_
    /\ bad => torn /\ Len(buffered) < FLUSH_THRESHOLD + Longest
    /\ kept # 0 => torn
    /\ isOpen => currentFileSize_ < maxFileSize_ + Longest
    /\ isOpen /\ pc = "ready" => currentFileSize_ < maxFileSize_
    /\ isOpen /\ pc = "close" => currentFileSize_ >= maxFileSize_

\* No file is larger than the limit and what one write may add; one that could
\* not be removed, or of which something was written twice, is so by a known
\* amount, which the size that decides when to rotate does not count.
Counted == IF bad THEN 0 ELSE Len(buffered)
Bounded ==
    /\ isOpen => SizeOf(files[currentFileIndex_]) + Counted
                   <= currentFileSize_ + Allowed(kept)
    /\ \A i \in Slots : SizeOf(files[i]) < Allowed(kept + 1)
    /\ ~torn => \A i \in Slots : SizeOf(files[i]) < maxFileSize_ + Longest

\* What the log has of each slot: nothing of one that is about to be removed,
\* be it that it is still there.
Rotating == pc \in {"remove", "open"}
Contents ==
    [i \in Slots |-> IF Rotating /\ i = currentFileIndex_ THEN <<>>
                     ELSE Part(i)]

\* How many times the ring has moved on since slot i was in use, if c is now,
\* and what so many full files hold.
Since(c, i) == IF i < c THEN c - i ELSE c + maxFiles_ - i
Room(k) == k * maxFileSize_
\* Older, with c the slot in use.
Before(c, i, j) == IF j <= c THEN i > c \/ i < j ELSE c < i /\ i < j

\* A log whose newest slot is c: the slots that the scan has to pass over are
\* full; the bytes are in order; each is followed by the full files of the
\* slots that were used after its own; and one that is gone by those of all.
Ring(log, c, count, gone) ==
    /\ log \in [Slots -> Seq(Bytes)]
    /\ \A i \in Slots : \A b \in ToSet(log[i]) : b <= count
    /\ \A i \in Slots : i < c => Len(log[i]) >= maxFileSize_
    /\ \A i \in Slots : Increasing(log[i])
    /\ \A i, j \in Slots : Before(c, i, j) => Below(log[i], log[j])
    /\ \A i \in Slots \ {c} : \A b \in ToSet(log[i]) :
          b + Room(Since(c, i) - 1) + Len(log[c]) <= count
    /\ \A n \in 1..count :
          \/ n \in gone
          \/ \E i \in Slots : n \in ToSet(log[i])
          \/ n + Room(maxFiles_ - 1) <= count

\* No torn log is in order.  After the process has ended, the slot that was in
\* use is not known but from the files.
Order ==
    /\ pc # "down" => Ring(Contents, currentFileIndex_, written, lost)
    /\ pc \in {"ready", "open"} => Len(Contents[currentFileIndex_]) < maxFileSize_
    /\ pc = "down" => \E c \in Slots : /\ Ring(Contents, c, written, lost)
                                       /\ Len(Contents[c]) < maxFileSize_

IInv == TypeOK /\ SizeIsExact /\ Stream /\ Bounded /\ (torn \/ Order)

-----------------------------------------------------------------------------
(* Sequences of bytes.                                                     *)

\* The limits are numbers.
LEMMA Limits ==
    /\ maxFileSize_ \in Nat \ {0} /\ maxFiles_ \in Nat \ {0}
    /\ FLUSH_THRESHOLD \in Nat \ {0} /\ MaxWritten \in Nat /\ MaxFaults \in Nat
    /\ Lengths \subseteq Nat \ {0}
    /\ Slots = 0..(maxFiles_ - 1)
BY StorageAssumption DEF Slots

\* There is a longest write.
LEMMA LongestIs ==
    /\ Longest \in Nat \ {0} /\ \A n \in Lengths : n <= Longest
    /\ Wide \in Nat \ {0} /\ maxFileSize_ + Longest < Wide
<1>1. PICK longest \in Lengths : \A n \in Lengths : n <= longest
  BY StorageAssumption
<1>2. \E x \in Lengths : \A y \in Lengths : x >= y
  BY <1>1, Limits
<1>3. Max(Lengths) \in Lengths /\ \A y \in Lengths : Max(Lengths) >= y
  BY <1>2 DEF Max
<1>4. Longest \in Nat \ {0} /\ \A n \in Lengths : n <= Longest
  BY <1>3, Limits DEF Longest
<1> QED  BY <1>4, Limits DEF Wide

\* Each start that cannot remove a file allows it as much again.
LEMMA AllowedGrows ==
    ASSUME NEW k \in Nat
    PROVE  /\ Allowed(k) \in Nat /\ Allowed(k + 1) \in Nat
           /\ Allowed(k + 1) = Allowed(k) + Wide
           /\ Allowed(0) = 0 /\ maxFileSize_ + Longest < Allowed(k + 1)
           /\ 0 < Allowed(k + 1) /\ 0 < maxFileSize_ + Longest
<1>1. Wide \in Nat \ {0} /\ maxFileSize_ + Longest < Wide /\ maxFileSize_ + Longest \in Nat
  BY LongestIs, Limits
<1>2. k * Wide \in Nat /\ (k + 1) * Wide = k * Wide + Wide /\ 0 * Wide = 0
  BY <1>1
<1>3. 0 < maxFileSize_ + Longest
  BY LongestIs, Limits
<1> QED  BY <1>1, <1>2, <1>3 DEF Allowed

\* One more file is as many bytes more.
LEMMA RoomGrows ==
    ASSUME NEW k \in Int
    PROVE  Room(k) \in Int /\ Room(k + 1) = Room(k) + maxFileSize_ /\ Room(0) = 0
BY Limits DEF Room

\* A set of numbers that is not empty has a least one.
LEMMA LeastNumber ==
    ASSUME NEW T, T \subseteq Nat, T # {}
    PROVE  \E n \in T : \A m \in T : n <= m
<1>1. \E n \in T : \A m \in T : <<m, n>> \notin OpToRel(<, Nat)
  BY NatLessThanWellFounded, WFMin
<1>2. \A m, n \in Nat : m < n => <<m, n>> \in OpToRel(<, Nat)
  BY DEF OpToRel
<1>3. PICK n \in T : \A m \in T : <<m, n>> \notin OpToRel(<, Nat)
  BY <1>1
<1>4. ASSUME NEW m \in T PROVE n <= m
  <2>1. m \in Nat /\ n \in Nat /\ ~(m < n)
    BY <1>2, <1>3
  <2> QED  BY <2>1
<1> QED  BY <1>4

\* What is in a sequence.
LEMMA ToSetProperties ==
    ASSUME NEW S, NEW s \in Seq(S)
    PROVE  /\ Len(s) \in Nat /\ ToSet(s) \subseteq S
           /\ \A x : x \in ToSet(s) <=> \E i \in 1..Len(s) : x = s[i]
<1>1. Len(s) \in Nat /\ DOMAIN s = 1..Len(s) /\ \A i \in 1..Len(s) : s[i] \in S
  BY LenProperties, ElementOfSeq
<1> QED  BY <1>1 DEF ToSet

\* Two sequences joined.
LEMMA JoinProperties ==
    ASSUME NEW S, NEW s \in Seq(S), NEW t \in Seq(S)
    PROVE  /\ s \o t \in Seq(S) /\ Len(s \o t) = Len(s) + Len(t)
           /\ Len(s) \in Nat /\ Len(t) \in Nat
           /\ \A i \in 1..Len(s) : (s \o t)[i] = s[i]
           /\ \A i \in 1..Len(t) : (s \o t)[Len(s) + i] = t[i]
           /\ ToSet(s \o t) = ToSet(s) \cup ToSet(t)
<1> DEFINE u == s \o t
           l == Len(s)
           m == Len(t)
<1>1. /\ u \in Seq(S) /\ Len(u) = l + m /\ l \in Nat /\ m \in Nat
      /\ \A i \in 1..l : u[i] = s[i]
      /\ \A i \in 1..m : u[l + i] = t[i]
  BY LenProperties, ConcatProperties
<1>2. /\ \A x : x \in ToSet(s) <=> \E i \in 1..l : x = s[i]
      /\ \A x : x \in ToSet(t) <=> \E i \in 1..m : x = t[i]
      /\ \A x : x \in ToSet(u) <=> \E i \in 1..Len(u) : x = u[i]
  BY <1>1, ToSetProperties
<1> HIDE DEF u, l, m
<1>3. ASSUME NEW x \in ToSet(u) PROVE x \in ToSet(s) \cup ToSet(t)
  <2>1. PICK i \in 1..Len(u) : x = u[i]
    BY <1>2, <1>3
  <2>2. CASE i \in 1..l
    BY <1>1, <1>2, <2>1, <2>2
  <2>3. CASE i \notin 1..l
    <3>1. i - l \in 1..m /\ l + (i - l) = i
      BY <1>1, <2>3
    <3> QED  BY <1>1, <1>2, <2>1, <3>1
  <2> QED  BY <2>2, <2>3
<1>4. ASSUME NEW x \in ToSet(s) \cup ToSet(t) PROVE x \in ToSet(u)
  <2>1. CASE x \in ToSet(s)
    <3>1. PICK i \in 1..l : x = s[i]
      BY <1>2, <2>1
    <3>2. i \in 1..Len(u) /\ u[i] = x
      BY <1>1, <3>1
    <3> QED  BY <1>2, <3>2
  <2>2. CASE x \in ToSet(t)
    <3>1. PICK i \in 1..m : x = t[i]
      BY <1>2, <2>2
    <3>2. l + i \in 1..Len(u) /\ u[l + i] = x
      BY <1>1, <3>1
    <3> QED  BY <1>2, <3>2
  <2> QED  BY <1>4, <2>1, <2>2
<1>5. ToSet(u) = ToSet(s) \cup ToSet(t)
  BY <1>3, <1>4
<1> QED  BY <1>1, <1>5 DEF u, l, m

\* The same for bytes, and two more facts about joining them.
LEMMA JoinedBytes ==
    \A s, t \in Seq(Bytes) :
        /\ s \o t \in Seq(Bytes) /\ Len(s \o t) = Len(s) + Len(t)
        /\ Len(s) \in Nat /\ Len(t) \in Nat
        /\ \A i \in 1..Len(s) : (s \o t)[i] = s[i]
        /\ \A i \in 1..Len(t) : (s \o t)[Len(s) + i] = t[i]
        /\ ToSet(s \o t) = ToSet(s) \cup ToSet(t)
BY JoinProperties

LEMMA JoinIsAssociative ==
    \A s, t, u \in Seq(Bytes) : (s \o t) \o u = s \o (t \o u)
BY ConcatAssociative

LEMMA JoinEmpty == \A s \in Seq(Bytes) : s \o <<>> = s /\ <<>> \o s = s
BY ConcatEmptySeq

\* What is in order stays so when larger bytes in order follow.
LEMMA JoinIncreases ==
    ASSUME NEW s \in Seq(Bytes), NEW t \in Seq(Bytes),
           Increasing(s), Increasing(t), Below(s, t)
    PROVE  Increasing(s \o t)
<1> DEFINE u == s \o t
           l == Len(s)
           m == Len(t)
<1>1. /\ Len(u) = l + m /\ l \in Nat /\ m \in Nat
      /\ \A i \in 1..l : u[i] = s[i]
      /\ \A i \in 1..m : u[l + i] = t[i]
  BY JoinProperties
<1>2. \A i \in 1..l, j \in 1..m : s[i] < t[j]
  BY ToSetProperties DEF Below
<1>3. /\ \A i \in 1..(l - 1) : s[i] < s[i + 1]
      /\ \A i \in 1..(m - 1) : t[i] < t[i + 1]
  BY DEF Increasing
<1> HIDE DEF u, l, m
<1>4. ASSUME NEW i \in 1..(Len(u) - 1) PROVE u[i] < u[i + 1]
  <2>1. CASE i \in 1..(l - 1)
    <3>1. i \in 1..l /\ i + 1 \in 1..l
      BY <1>1, <2>1
    <3> QED  BY <1>1, <1>3, <2>1, <3>1
  <2>2. CASE i = l
    <3>1. l \in 1..l /\ 1 \in 1..m
      BY <1>1, <2>2
    <3> QED  BY <1>1, <1>2, <2>2, <3>1
  <2>3. CASE i > l
    <3>1. /\ i - l \in 1..(m - 1) /\ i - l \in 1..m /\ (i - l) + 1 \in 1..m
          /\ l + (i - l) = i /\ l + ((i - l) + 1) = i + 1
      BY <1>1, <2>3
    <3>2. u[i] = t[i - l] /\ u[i + 1] = t[(i - l) + 1]
      BY <1>1, <3>1
    <3> QED  BY <1>3, <3>1, <3>2
  <2> QED  BY <1>1, <2>1, <2>2, <2>3
<1> QED  BY <1>4 DEF Increasing, u

\* What is cut in two has all its bytes in the one part or the other.
LEMMA CutProperties ==
    ASSUME NEW S, NEW s \in Seq(S), NEW k \in 0..Len(s)
    PROVE  /\ SubSeq(s, 1, k) \in Seq(S) /\ Len(SubSeq(s, 1, k)) = k
           /\ \A i \in 1..k : SubSeq(s, 1, k)[i] = s[i]
           /\ SubSeq(s, k + 1, Len(s)) \in Seq(S)
           /\ ToSet(s) = ToSet(SubSeq(s, 1, k)) \cup ToSet(SubSeq(s, k + 1, Len(s)))
<1> DEFINE l == Len(s)
           p == SubSeq(s, 1, k)
           q == SubSeq(s, k + 1, l)
<1>1. l \in Nat /\ k \in Nat /\ k <= l /\ \A i \in 1..l : s[i] \in S
  BY LenProperties, ElementOfSeq
<1>2. /\ p \in Seq(S) /\ Len(p) = k
      /\ \A i \in 1..k : p[i] = s[i]
  BY <1>1
<1>3. /\ q \in Seq(S) /\ Len(q) = l - k
      /\ \A i \in 1..(l - k) : q[i] = s[k + i]
  BY <1>1
<1> HIDE DEF l, p, q
<1>4. /\ \A x : x \in ToSet(s) <=> \E i \in 1..l : x = s[i]
      /\ \A x : x \in ToSet(p) <=> \E i \in 1..k : x = p[i]
      /\ \A x : x \in ToSet(q) <=> \E i \in 1..(l - k) : x = q[i]
  <2>1. \A x : x \in ToSet(s) <=> \E i \in 1..l : x = s[i]
    BY ToSetProperties DEF l
  <2>2. \A x : x \in ToSet(p) <=> \E i \in 1..Len(p) : x = p[i]
    BY <1>2, ToSetProperties
  <2>3. \A x : x \in ToSet(q) <=> \E i \in 1..Len(q) : x = q[i]
    BY <1>3, ToSetProperties
  <2> QED  BY <1>2, <1>3, <2>1, <2>2, <2>3
<1>5. ASSUME NEW x \in ToSet(s) PROVE x \in ToSet(p) \cup ToSet(q)
  <2>1. PICK i \in 1..l : x = s[i]
    BY <1>4, <1>5
  <2>2. CASE i <= k
    BY <1>1, <1>2, <1>4, <2>1, <2>2
  <2>3. CASE i > k
    <3>1. i - k \in 1..(l - k) /\ k + (i - k) = i
      BY <1>1, <2>3
    <3> QED  BY <1>3, <1>4, <2>1, <3>1
  <2> QED  BY <1>1, <2>2, <2>3
<1>6. ASSUME NEW x \in ToSet(p) \cup ToSet(q) PROVE x \in ToSet(s)
  <2>1. CASE x \in ToSet(p)
    BY <1>1, <1>2, <1>4, <2>1
  <2>2. CASE x \in ToSet(q)
    <3>1. PICK i \in 1..(l - k) : x = s[k + i]
      BY <1>3, <1>4, <2>2
    <3>2. k + i \in 1..l
      BY <1>1
    <3> QED  BY <1>4, <3>1, <3>2
  <2> QED  BY <1>6, <2>1, <2>2
<1>7. ToSet(s) = ToSet(p) \cup ToSet(q)
  BY <1>5, <1>6
<1> QED  BY <1>2, <1>3, <1>7 DEF p, q, l

-----------------------------------------------------------------------------
(* A log in order.                                                         *)

\* A slot behind the newest is at least one turn of the ring behind it, and
\* less than a full one.
LEMMA SinceProperties ==
    ASSUME NEW c \in Slots, NEW i \in Slots, i # c
    PROVE  /\ Since(c, i) \in 1..(maxFiles_ - 1)
           /\ Room(Since(c, i) - 1) \in Int /\ Room(maxFiles_ - 1) \in Int
           /\ Room((Since(c, i) - 1) + 1) = Room(Since(c, i) - 1) + maxFileSize_
<1>1. Since(c, i) \in 1..(maxFiles_ - 1) /\ Since(c, i) - 1 \in Int
  BY Limits DEF Since
<1>2. maxFiles_ - 1 \in Int
  BY Limits
<1> QED  BY <1>1, <1>2, RoomGrows

\* Bytes that are written come last, and count for those that are gone.
LEMMA RingGrows ==
    ASSUME NEW log, NEW c \in Slots, NEW w \in Nat, NEW gone, Ring(log, c, w, gone),
           NEW n \in Nat, w + n <= MaxWritten,
           NEW s \in Seq(Bytes), Len(s) = n, \A i \in 1..n : s[i] = w + i
    PROVE  Ring([log EXCEPT ![c] = @ \o s], c, w + n, gone)
<1> DEFINE new == [log EXCEPT ![c] = @ \o s]
<1>1. /\ Increasing(s)
      /\ \A b : b \in ToSet(s) <=> b \in (w + 1)..(w + n)
  <2>1. Increasing(s)
    BY DEF Increasing
  <2>2. \A x : x \in ToSet(s) <=> \E i \in 1..n : x = s[i]
    BY ToSetProperties
  <2>3. \A b \in (w + 1)..(w + n) : b - w \in 1..n /\ w + (b - w) = b
    OBVIOUS
  <2>4. \A i \in 1..n : s[i] \in (w + 1)..(w + n)
    OBVIOUS
  <2>5. \A b \in (w + 1)..(w + n) : \E i \in 1..n : b = s[i]
    BY <2>3
  <2> QED  BY <2>1, <2>2, <2>4, <2>5
<1>2. /\ log \in [Slots -> Seq(Bytes)]
      /\ \A i \in Slots : \A b \in ToSet(log[i]) : b <= w /\ b \in Bytes
  BY ToSetProperties DEF Ring
<1>3. /\ log[c] \o s \in Seq(Bytes) /\ Len(log[c] \o s) = Len(log[c]) + n
      /\ Len(log[c]) \in Nat
      /\ ToSet(log[c] \o s) = ToSet(log[c]) \cup ToSet(s)
      /\ Increasing(log[c] \o s)
  <2>1. Below(log[c], s)
    BY <1>1, <1>2 DEF Below, Bytes
  <2>2. log[c] \in Seq(Bytes) /\ Increasing(log[c])
    BY <1>2 DEF Ring
  <2>3. Increasing(log[c] \o s)
    BY <1>1, <2>1, <2>2, JoinIncreases
  <2>4. /\ log[c] \o s \in Seq(Bytes) /\ Len(log[c] \o s) = Len(log[c]) + Len(s)
        /\ Len(log[c]) \in Nat
        /\ ToSet(log[c] \o s) = ToSet(log[c]) \cup ToSet(s)
    BY <2>2, JoinedBytes
  <2> QED  BY <2>3, <2>4
<1>4. /\ new \in [Slots -> Seq(Bytes)] /\ new[c] = log[c] \o s
      /\ \A i \in Slots \ {c} : new[i] = log[i]
  BY <1>2, <1>3
<1> HIDE DEF new
<1>5. \A i \in Slots : \A b \in ToSet(new[i]) : b <= w + n
  <2>1. \A b \in ToSet(new[c]) : b <= w + n
    BY <1>1, <1>2, <1>3, <1>4 DEF Bytes
  <2>2. \A i \in Slots \ {c} : \A b \in ToSet(new[i]) : b <= w + n
    BY <1>2, <1>4 DEF Bytes
  <2> QED  BY <2>1, <2>2
<1>6. /\ \A i \in Slots : i < c => Len(new[i]) >= maxFileSize_
      /\ \A i \in Slots : Increasing(new[i])
  <2>1. \A i \in Slots : i < c => i # c
    BY Limits
  <2>2. \A i \in Slots : i < c => Len(new[i]) >= maxFileSize_
    BY <1>4, <2>1 DEF Ring
  <2>3. \A i \in Slots : Increasing(new[i])
    <3>1. Increasing(new[c])
      BY <1>3, <1>4
    <3> QED  BY <1>4, <3>1 DEF Ring
  <2> QED  BY <2>2, <2>3
<1>7. ASSUME NEW i \in Slots, NEW j \in Slots, Before(c, i, j)
      PROVE  Below(new[i], new[j])
  <2>1. i # c
    BY <1>7, Limits DEF Before
  <2>2. Below(log[i], log[j])
    BY <1>7 DEF Ring
  <2>3. CASE j # c
    BY <1>4, <2>1, <2>2, <2>3
  <2>4. CASE j = c
    <3>1. ASSUME NEW a \in ToSet(log[i]), NEW b \in ToSet(s) PROVE a < b
      BY <1>1, <1>2 DEF Bytes
    <3> QED  BY <1>3, <1>4, <2>1, <2>2, <2>4, <3>1 DEF Below
  <2> QED  BY <2>3, <2>4
<1>8. ASSUME NEW i \in Slots \ {c}, NEW b \in ToSet(new[i])
      PROVE  b + Room(Since(c, i) - 1) + Len(new[c]) <= w + n
  <2>1. b + Room(Since(c, i) - 1) + Len(log[c]) <= w
    BY <1>4 DEF Ring
  <2>2. Room(Since(c, i) - 1) \in Int
    BY SinceProperties
  <2>3. b \in Int
    BY <1>2, <1>4 DEF Bytes
  <2>4. Len(new[c]) = Len(log[c]) + n /\ Len(log[c]) \in Nat
    BY <1>3, <1>4
  <2> QED  BY <2>1, <2>2, <2>3, <2>4
<1>9. ASSUME NEW m \in 1..(w + n)
      PROVE  \/ m \in gone
             \/ \E i \in Slots : m \in ToSet(new[i])
             \/ m + Room(maxFiles_ - 1) <= w + n
  <2>1. CASE m \in 1..w
    <3>1. CASE \E i \in Slots : m \in ToSet(log[i])
      BY <1>3, <1>4, <3>1
    <3>2. CASE m + Room(maxFiles_ - 1) <= w
      <4>1. Room(maxFiles_ - 1) \in Int
        BY Limits, RoomGrows
      <4> QED  BY <3>2, <4>1
    <3> QED  BY <2>1, <3>1, <3>2 DEF Ring
  <2>2. CASE m \in (w + 1)..(w + n)
    BY <1>1, <1>3, <1>4, <2>2
  <2> QED  BY <2>1, <2>2
<1> QED  BY <1>4, <1>5, <1>6, <1>7, <1>8, <1>9 DEF Ring, new

\* What a fault takes from the end of the newest file is known to be lost.
LEMMA RingLoses ==
    ASSUME NEW log, NEW c \in Slots, NEW w \in Nat, NEW gone, Ring(log, c, w, gone),
           NEW s \in Seq(Bytes), NEW t \in Seq(Bytes), log[c] = s \o t,
           NEW k \in 0..Len(t)
    PROVE  Ring([log EXCEPT ![c] = s \o SubSeq(t, 1, k)], c, w,
                gone \cup ToSet(SubSeq(t, k + 1, Len(t))))
<1> DEFINE p == SubSeq(t, 1, k)
           lostNow == ToSet(SubSeq(t, k + 1, Len(t)))
           new == [log EXCEPT ![c] = s \o p]
<1>1. /\ p \in Seq(Bytes) /\ Len(p) = k /\ \A i \in 1..k : p[i] = t[i]
      /\ ToSet(t) = ToSet(p) \cup lostNow
      /\ Len(t) \in Nat
  BY CutProperties, LenProperties
<1> HIDE DEF p, lostNow
<1>2. /\ Len(log[c]) = Len(s) + Len(t) /\ Len(s) \in Nat
      /\ \A i \in 1..Len(s) : log[c][i] = s[i]
      /\ \A i \in 1..Len(t) : log[c][Len(s) + i] = t[i]
      /\ ToSet(log[c]) = ToSet(s) \cup ToSet(t)
      /\ log[c] \in Seq(Bytes)
  BY JoinProperties
<1>3. /\ s \o p \in Seq(Bytes) /\ Len(s \o p) = Len(s) + k
      /\ \A i \in 1..Len(s) : (s \o p)[i] = s[i]
      /\ \A i \in 1..k : (s \o p)[Len(s) + i] = p[i]
      /\ ToSet(s \o p) = ToSet(s) \cup ToSet(p)
  <2>1. p \in Seq(Bytes) /\ Len(p) = k
    BY <1>1
  <2>2. /\ s \o p \in Seq(Bytes) /\ Len(s \o p) = Len(s) + Len(p)
        /\ \A i \in 1..Len(s) : (s \o p)[i] = s[i]
        /\ \A i \in 1..Len(p) : (s \o p)[Len(s) + i] = p[i]
        /\ ToSet(s \o p) = ToSet(s) \cup ToSet(p)
    BY <2>1, JoinedBytes
  <2> QED  BY <2>1, <2>2
<1>4. /\ log \in [Slots -> Seq(Bytes)]
      /\ new \in [Slots -> Seq(Bytes)] /\ new[c] = s \o p
      /\ \A i \in Slots \ {c} : new[i] = log[i]
  BY <1>3 DEF Ring
<1>5. /\ Len(new[c]) \in Nat /\ Len(new[c]) <= Len(log[c]) /\ Len(log[c]) \in Nat
      /\ \A i \in 1..Len(new[c]) : new[c][i] = log[c][i]
      /\ ToSet(new[c]) \subseteq ToSet(log[c])
      /\ ToSet(log[c]) \subseteq ToSet(new[c]) \cup lostNow
  <2>1. ASSUME NEW i \in 1..(Len(s) + k) PROVE (s \o p)[i] = log[c][i]
    <3>1. CASE i \in 1..Len(s)
      BY <1>2, <1>3, <3>1
    <3>2. CASE i \notin 1..Len(s)
      <4>1. i - Len(s) \in 1..k /\ i - Len(s) \in 1..Len(t) /\ Len(s) + (i - Len(s)) = i
        BY <1>1, <1>2, <3>2
      <4> QED  BY <1>1, <1>2, <1>3, <4>1
    <3> QED  BY <3>1, <3>2
  <2> QED  BY <1>1, <1>2, <1>3, <1>4, <2>1
<1> HIDE DEF new
<1>6. \A i \in Slots : ToSet(new[i]) \subseteq ToSet(log[i])
  BY <1>4, <1>5
<1>7. \A i \in Slots : \A b \in ToSet(new[i]) : b <= w
  BY <1>6 DEF Ring
<1>8. \A i \in Slots : i < c => Len(new[i]) >= maxFileSize_
  BY <1>4, Limits DEF Ring
<1>9. \A i \in Slots : Increasing(new[i])
  <2>1. Increasing(new[c])
    <3>1. \A i \in 1..(Len(log[c]) - 1) : log[c][i] < log[c][i + 1]
      BY DEF Ring, Increasing
    <3>2. ASSUME NEW i \in 1..(Len(new[c]) - 1) PROVE new[c][i] < new[c][i + 1]
      <4>1. /\ i \in 1..Len(new[c]) /\ i + 1 \in 1..Len(new[c])
            /\ i \in 1..(Len(log[c]) - 1)
        BY <1>5
      <4> QED  BY <1>5, <3>1, <4>1
    <3> QED  BY <3>2 DEF Increasing
  <2> QED  BY <1>4, <2>1 DEF Ring
<1>10. \A i, j \in Slots : Before(c, i, j) => Below(new[i], new[j])
  BY <1>6 DEF Ring, Below
<1>11. ASSUME NEW i \in Slots \ {c}, NEW b \in ToSet(new[i])
       PROVE  b + Room(Since(c, i) - 1) + Len(new[c]) <= w
  <2>1. b + Room(Since(c, i) - 1) + Len(log[c]) <= w
    BY <1>4 DEF Ring
  <2>2. Room(Since(c, i) - 1) \in Int
    BY SinceProperties
  <2>3. b \in Int
    <3>1. ToSet(new[i]) \subseteq Bytes
      BY <1>4, ToSetProperties
    <3> QED  BY <3>1 DEF Bytes
  <2> QED  BY <1>5, <2>1, <2>2, <2>3
<1>12. ASSUME NEW m \in 1..w
       PROVE  \/ m \in gone \cup lostNow
              \/ \E i \in Slots : m \in ToSet(new[i])
              \/ m + Room(maxFiles_ - 1) <= w
  <2>1. CASE \E i \in Slots : m \in ToSet(log[i])
    BY <1>4, <1>5, <2>1
  <2> QED  BY <2>1 DEF Ring
<1> QED  BY <1>4, <1>7, <1>8, <1>9, <1>10, <1>11, <1>12 DEF Ring, new, p, lostNow

\* The slot after the current one is one of them, the first after the last.
LEMMA NextSlot ==
    ASSUME NEW c \in Slots
    PROVE  /\ (c + 1) % maxFiles_ \in Slots
           /\ (c + 1) % maxFiles_ = IF c = maxFiles_ - 1 THEN 0 ELSE c + 1
BY Limits

\* When the newest file is full and the oldest goes, the next slot is the newest.
LEMMA RingTurns ==
    ASSUME NEW log, NEW c \in Slots, NEW w \in Nat, NEW gone, Ring(log, c, w, gone),
           Len(log[c]) >= maxFileSize_, NEW d, d = (c + 1) % maxFiles_
    PROVE  Ring([log EXCEPT ![d] = <<>>], d, w, gone)
<1> DEFINE new == [log EXCEPT ![d] = <<>>]
           N == maxFiles_
<1>1. /\ d \in Slots /\ d = IF c = N - 1 THEN 0 ELSE c + 1
      /\ N \in Nat \ {0} /\ Slots = 0..(N - 1) /\ maxFileSize_ \in Nat \ {0}
  BY NextSlot, Limits
<1>2. /\ log \in [Slots -> Seq(Bytes)] /\ new \in [Slots -> Seq(Bytes)]
      /\ new[d] = <<>> /\ \A i \in Slots \ {d} : new[i] = log[i]
      /\ Len(new[d]) = 0 /\ ToSet(new[d]) = {}
  <2>1. log \in [Slots -> Seq(Bytes)]
    BY DEF Ring
  <2>2. <<>> \in Seq(Bytes) /\ Len(<<>>) = 0 /\ ToSet(<<>>) = {}
    BY DEF ToSet
  <2> QED  BY <1>1, <2>1, <2>2
<1> HIDE DEF new
<1>3. \A i \in Slots : \A b \in ToSet(new[i]) : b <= w
  BY <1>2 DEF Ring
<1>4. ASSUME NEW i \in Slots, i < d PROVE Len(new[i]) >= maxFileSize_
  <2>1. i # d /\ (i < c \/ i = c)
    BY <1>1, <1>4
  <2> QED  BY <1>2, <2>1 DEF Ring
<1>5. \A i \in Slots : Increasing(new[i])
  <2>1. Increasing(<<>>)
    BY DEF Increasing
  <2> QED  BY <1>2, <2>1 DEF Ring
<1>6. ASSUME NEW i \in Slots, NEW j \in Slots, Before(d, i, j)
      PROVE  Below(new[i], new[j])
  <2>1. CASE i = d \/ j = d
    BY <1>2, <2>1 DEF Below
  <2>2. CASE i # d /\ j # d
    <3>1. Before(c, i, j)
      BY <1>1, <1>6, <2>2 DEF Before
    <3> QED  BY <1>2, <2>2, <3>1 DEF Ring
  <2> QED  BY <2>1, <2>2
<1>7. ASSUME NEW i \in Slots, NEW b \in ToSet(log[i])
      PROVE  /\ b \in Int
             /\ i # d => b + Room(Since(d, i) - 1) <= w
             /\ i = d => b + Room(N - 1) <= w
  <2>1. b \in Int /\ b <= w
    <3>1. ToSet(log[i]) \subseteq Bytes
      BY <1>2, ToSetProperties
    <3> QED  BY <3>1 DEF Bytes, Ring
  <2>2. CASE i = c
    <3>1. i # d => Since(d, i) - 1 = 0
      BY <1>1, <2>2 DEF Since
    <3>2. i = d => N - 1 = 0
      BY <1>1, <2>2
    <3>3. Room(0) = 0
      BY RoomGrows
    <3> QED  BY <2>1, <3>1, <3>2, <3>3
  <2>3. CASE i # c
    <3>1. b + Room(Since(c, i) - 1) + Len(log[c]) <= w
      BY <2>3 DEF Ring
    <3>2. /\ Since(c, i) \in Int /\ Room(Since(c, i) - 1) \in Int
          /\ Room((Since(c, i) - 1) + 1) = Room(Since(c, i) - 1) + maxFileSize_
      BY <1>1, <2>3, SinceProperties
    <3>3. Len(log[c]) \in Nat
      BY <1>2, LenProperties
    <3>4. b + Room((Since(c, i) - 1) + 1) <= w
      <4>1. Len(log[c]) >= maxFileSize_ /\ maxFileSize_ \in Nat /\ w \in Nat
        BY <1>1, Limits
      <4> QED  BY <2>1, <3>1, <3>2, <3>3, <4>1
    <3>5. /\ i # d => Since(d, i) - 1 = (Since(c, i) - 1) + 1
          /\ i = d => N - 1 = (Since(c, i) - 1) + 1
      BY <1>1, <2>3 DEF Since
    <3> QED  BY <2>1, <3>4, <3>5
  <2> QED  BY <2>2, <2>3
<1>8. ASSUME NEW i \in Slots \ {d}, NEW b \in ToSet(new[i])
      PROVE  b + Room(Since(d, i) - 1) + Len(new[d]) <= w
  <2>1. b \in Int /\ b + Room(Since(d, i) - 1) <= w
    BY <1>2, <1>7
  <2>2. Room(Since(d, i) - 1) \in Int
    BY <1>1, SinceProperties
  <2> QED  BY <1>2, <2>1, <2>2
<1>9. ASSUME NEW m \in 1..w
      PROVE  \/ m \in gone
             \/ \E i \in Slots : m \in ToSet(new[i])
             \/ m + Room(N - 1) <= w
  <2>1. ASSUME NEW i \in Slots, m \in ToSet(log[i])
        PROVE  \/ \E j \in Slots : m \in ToSet(new[j])
               \/ m + Room(N - 1) <= w
    BY <1>2, <1>7, <2>1
  <2> QED  BY <2>1 DEF Ring
<1> QED  BY <1>1, <1>2, <1>3, <1>4, <1>5, <1>6, <1>8, <1>9 DEF Ring, new

-----------------------------------------------------------------------------
(* The log and the files.                                                  *)

\* No file that is there looks like one that is not.
LEMMA MissingProperties ==
    /\ Missing \notin Seq(Bytes) /\ Missing \o <<>> = Missing
    /\ <<>> \in Seq(Bytes) /\ Len(<<>>) = 0 /\ ToSet(<<>>) = {}
<1>1. ASSUME Missing \in Seq(Bytes) PROVE FALSE
  <2>1. Len(Missing) = 1 /\ Missing[1] = -1
    BY DEF Missing
  <2>2. Missing[1] \in Bytes
    BY <1>1, <2>1, ElementOfSeq
  <2> QED  BY <2>1, <2>2 DEF Bytes
<1>2. Missing \in Seq(Int)
  BY DEF Missing
<1>3. Missing \o <<>> = Missing
  BY <1>2, ConcatEmptySeq
<1>4. <<>> \in Seq(Bytes) /\ Len(<<>>) = 0 /\ ToSet(<<>>) = {}
  BY DEF ToSet
<1> QED  BY <1>1, <1>3, <1>4

\* Slot by slot, what the log holds, in terms of the files and the stream.
ContentsFacts ==
    /\ Contents \in [Slots -> Seq(Bytes)]
    /\ \A i \in Slots :
          /\ HeldIn(i) \in Seq(Bytes) /\ Len(HeldIn(i)) = SizeOf(files[i])
          /\ files[i] # Missing => files[i] \in Seq(Bytes) /\ HeldIn(i) = files[i]
          /\ i # currentFileIndex_ => Contents[i] = HeldIn(i)
          /\ ~Rotating => Contents[i] = Part(i)
          /\ buffered = <<>> => Part(i) = HeldIn(i)
    /\ ~Rotating =>
          /\ Contents[currentFileIndex_] = HeldIn(currentFileIndex_) \o buffered
          /\ Len(Contents[currentFileIndex_])
               = SizeOf(files[currentFileIndex_]) + Len(buffered)
    /\ Rotating => Contents[currentFileIndex_] = <<>>

\* What a slot holds, in which files that are not the current one have
\* nothing in the stream's buffer.
LEMMA ContentsAre == TypeOK => ContentsFacts
<1> SUFFICES ASSUME TypeOK PROVE ContentsFacts
  OBVIOUS
<1> DEFINE c == currentFileIndex_
<1>1. /\ c \in Slots /\ buffered \in Seq(Bytes)
      /\ \A i \in Slots : files[i] = Missing \/ files[i] \in Seq(Bytes)
  BY DEF TypeOK, Bytes
<1>2. ASSUME NEW i \in Slots
      PROVE  /\ HeldIn(i) \in Seq(Bytes) /\ Len(HeldIn(i)) = SizeOf(files[i])
             /\ files[i] # Missing => files[i] \in Seq(Bytes) /\ HeldIn(i) = files[i]
  BY <1>1, MissingProperties DEF HeldIn, SizeOf
<1>3. ASSUME NEW i \in Slots
      PROVE  /\ i # c => Part(i) = HeldIn(i)
             /\ buffered = <<>> => Part(i) = HeldIn(i)
             /\ i = c => Part(i) = HeldIn(i) \o buffered
             /\ Part(i) \in Seq(Bytes)
  <2>1. HeldIn(i) \o <<>> = HeldIn(i)
    BY <1>2, ConcatEmptySeq
  <2>2. HeldIn(i) \o buffered \in Seq(Bytes)
    BY <1>1, <1>2, JoinedBytes
  <2>3. CASE i = c
    BY <2>1, <2>2, <2>3 DEF Part
  <2>4. CASE i # c
    BY <1>2, <2>1, <2>4 DEF Part
  <2> QED  BY <2>3, <2>4
<1>4. /\ Contents \in [Slots -> Seq(Bytes)]
      /\ \A i \in Slots : Contents[i] = IF Rotating /\ i = c THEN <<>> ELSE Part(i)
  <2>1. ASSUME NEW i \in Slots
        PROVE  (IF Rotating /\ i = c THEN <<>> ELSE Part(i)) \in Seq(Bytes)
    BY <1>3, MissingProperties
  <2> QED  BY <2>1 DEF Contents
<1> HIDE DEF c
<1>5. Len(HeldIn(c) \o buffered) = SizeOf(files[c]) + Len(buffered)
  <2>1. HeldIn(c) \in Seq(Bytes) /\ Len(HeldIn(c)) = SizeOf(files[c])
    BY <1>1, <1>2
  <2>2. Len(HeldIn(c) \o buffered) = Len(HeldIn(c)) + Len(buffered)
    BY <1>1, <2>1, JoinedBytes
  <2> QED  BY <2>1, <2>2
<1>6. /\ ~Rotating => Contents[c] = HeldIn(c) \o buffered
      /\ Rotating => Contents[c] = <<>>
  BY <1>1, <1>3, <1>4
<1>7. \A i \in Slots : /\ i # c => Contents[i] = HeldIn(i)
                       /\ ~Rotating => Contents[i] = Part(i)
  BY <1>3, <1>4
<1> QED  BY <1>2, <1>3, <1>4, <1>5, <1>6, <1>7 DEF ContentsFacts, c

\* And after a step.
LEMMA ContentsAreNext == TypeOK' => ContentsFacts'
BY ContentsAre, PTL

\* What is appended to the current file is at its end, if there is one.
LEMMA FileGrows ==
    ASSUME TypeOK, NEW x \in Seq(Bytes), files[currentFileIndex_] # Missing \/ x = <<>>,
           NEW new, new = [files EXCEPT ![currentFileIndex_] = @ \o x]
    PROVE  /\ new \in [Slots -> Seq(Bytes) \cup {Missing}]
           /\ \A i \in Slots : i # currentFileIndex_ => new[i] = files[i]
           /\ new[currentFileIndex_] = Missing <=> files[currentFileIndex_] = Missing
           /\ SizeOf(new[currentFileIndex_])
                = SizeOf(files[currentFileIndex_]) + Len(x)
           /\ SizeOf(files[currentFileIndex_]) \in Nat /\ Len(x) \in Nat
           /\ new[currentFileIndex_] = Missing => HeldIn(currentFileIndex_) \o x = <<>>
           /\ new[currentFileIndex_] # Missing
                => new[currentFileIndex_] = HeldIn(currentFileIndex_) \o x
<1> DEFINE c == currentFileIndex_
           old == files[c]
<1>1. /\ c \in Slots /\ files \in [Slots -> Seq(Bytes) \cup {Missing}]
      /\ old \in Seq(Bytes) \cup {Missing}
  BY DEF TypeOK, Bytes
<1>2. /\ new = [files EXCEPT ![c] = old \o x]
      /\ old # Missing \/ x = <<>>
      /\ old = Missing => HeldIn(c) = <<>>
      /\ old # Missing => HeldIn(c) = old
  <2>1. old = Missing => HeldIn(c) = <<>>
    BY DEF HeldIn
  <2>2. old # Missing => HeldIn(c) = old
    BY DEF HeldIn
  <2>3. new = [files EXCEPT ![c] = old \o x]
    OBVIOUS
  <2> QED  BY <2>1, <2>2, <2>3
<1> HIDE DEF old, c
<1>3. CASE old = Missing
  <2>1. x = <<>> /\ old \o x = Missing /\ Len(x) = 0 /\ <<>> \o x = <<>>
    <3>1. <<>> \o <<>> = <<>>
      BY MissingProperties, ConcatEmptySeq
    <3> QED  BY <1>2, <1>3, <3>1, MissingProperties
  <2>2. /\ new \in [Slots -> Seq(Bytes) \cup {Missing}] /\ new[c] = Missing
        /\ \A i \in Slots : i # c => new[i] = files[i]
    BY <1>1, <1>2, <2>1
  <2>3. SizeOf(new[c]) = 0 /\ SizeOf(old) = 0
    BY <1>3, <2>2 DEF SizeOf
  <2> QED  BY <1>2, <1>3, <2>1, <2>2, <2>3 DEF old, c
<1>4. CASE old # Missing
  <2>1. /\ old \in Seq(Bytes) /\ old \o x \in Seq(Bytes)
        /\ Len(old \o x) = Len(old) + Len(x) /\ Len(old) \in Nat /\ Len(x) \in Nat
    BY <1>1, <1>4, JoinedBytes
  <2>2. /\ new \in [Slots -> Seq(Bytes) \cup {Missing}] /\ new[c] = old \o x
        /\ \A i \in Slots : i # c => new[i] = files[i]
    BY <1>1, <1>2, <2>1
  <2>3. new[c] # Missing
    BY <2>1, <2>2, MissingProperties
  <2>4. SizeOf(new[c]) = Len(old \o x) /\ SizeOf(old) = Len(old)
    BY <1>4, <2>2, <2>3 DEF SizeOf
  <2>5. HeldIn(c) = old
    BY <1>2, <1>4
  <2> QED  BY <1>4, <2>1, <2>2, <2>3, <2>4, <2>5 DEF old, c
<1> QED  BY <1>3, <1>4

\* The scan finds a slot, and the only one that may be in use if one is.
LEMMA ScanProperties ==
    ASSUME TypeOK
    PROVE  /\ ScanIndex \in Slots /\ ScanCount \in 0..maxFiles_
           /\ \A c \in Slots :
                 ~Full(c) /\ (\A j \in Slots : j < c => Full(j)) => ScanIndex = c
<1>1. ASSUME NEW c \in Slots, ~Full(c)
      PROVE  \E i \in Slots : ~Full(i) /\ \A j \in Slots : j < i => Full(j)
  <2> DEFINE S == {i \in Slots : ~Full(i)}
  <2>1. S \subseteq Nat /\ c \in S
    BY <1>1, Limits
  <2>2. PICK i \in S : \A j \in S : i <= j
    BY <2>1, LeastNumber
  <2>3. \A j \in Slots : j < i => Full(j)
    BY <2>1, <2>2, Limits
  <2> QED  BY <2>2, <2>3
<1>2. CASE \A i \in Slots : Full(i)
  BY <1>2, Limits DEF ScanIndex, ScanCount
<1>3. CASE ~ \A i \in Slots : Full(i)
  <2>1. /\ ScanIndex \in Slots /\ ~Full(ScanIndex)
        /\ \A j \in Slots : j < ScanIndex => Full(j)
    BY <1>1, <1>3 DEF ScanIndex
  <2>2. ScanCount \in 0..maxFiles_
    BY <1>3, <2>1, Limits DEF ScanCount
  <2>3. ASSUME NEW c \in Slots, ~Full(c), \A j \in Slots : j < c => Full(j)
        PROVE  ScanIndex = c
    BY <2>1, <2>3, Limits
  <2> QED  BY <2>1, <2>2, <2>3
<1> QED  BY <1>2, <1>3

-----------------------------------------------------------------------------
(* The invariant holds.                                                    *)

\* An empty disk is in order.
LEMMA InitEstablishes == Init => IInv
<1> SUFFICES ASSUME Init PROVE IInv
  OBVIOUS
<1>1. TypeOK
  <2>1. files \in [Slots -> Seq(Bytes) \cup {Missing}]
    BY DEF Init
  <2>2. <<>> \in Seq(Bytes)
    BY MissingProperties
  <2> QED  BY <2>1, <2>2, Limits DEF Init, TypeOK, Bytes
<1>2. SizeIsExact /\ Stream
  BY MissingProperties, Limits DEF Init, SizeIsExact, Stream
<1>3. Bounded
  <2>1. \A i \in Slots : SizeOf(files[i]) = 0
    BY DEF Init, SizeOf
  <2>2. kept = 0 /\ ~isOpen
    BY DEF Init
  <2>3. 0 < Allowed(0 + 1) /\ 0 < maxFileSize_ + Longest
    BY AllowedGrows, LongestIs, Limits
  <2> QED  BY <2>1, <2>2, <2>3 DEF Bounded
<1>4. ContentsFacts
  BY <1>1, ContentsAre
<1>5. \A i \in Slots : Contents[i] = <<>>
  BY <1>4 DEF Init, ContentsFacts, HeldIn, Rotating
<1>6. 0 \in Slots
  BY Limits
<1>7. Ring(Contents, 0, written, lost)
  <2>1. \A i \in Slots : ~(i < 0)
    BY Limits
  <2>2. written = 0 /\ ToSet(<<>>) = {}
    BY MissingProperties DEF Init
  <2>3. Increasing(<<>>) /\ Below(<<>>, <<>>)
    BY <2>2, MissingProperties DEF Increasing, Below
  <2> QED  BY <1>4, <1>5, <2>1, <2>2, <2>3 DEF Ring, ContentsFacts
<1>8. Order
  <2>1. Len(Contents[0]) < maxFileSize_
    BY <1>5, <1>6, MissingProperties, Limits
  <2> QED  BY <1>6, <1>7, <2>1 DEF Init, Order
<1> QED  BY <1>1, <1>2, <1>3, <1>8 DEF IInv

\* While the process is not running, the scan finds the slot that was in use,
\* if the log is in order; so a file that it finds full is one of a torn log.
LEMMA ScanFindsNewest ==
    ASSUME IInv, pc = "down", ~torn
    PROVE  /\ Ring(Contents, ScanIndex, written, lost) /\ ~Full(ScanIndex)
           /\ Len(Contents[ScanIndex]) < maxFileSize_
           /\ \A i \in Slots : Contents[i] = HeldIn(i)
<1>1. TypeOK /\ Stream /\ Order /\ ContentsFacts /\ buffered = <<>> /\ ~Rotating
  BY ContentsAre DEF IInv, Stream, Rotating
<1>2. PICK d \in Slots :
         Ring(Contents, d, written, lost) /\ Len(Contents[d]) < maxFileSize_
  BY <1>1 DEF Order
<1>3. \A i \in Slots : Contents[i] = HeldIn(i) /\ Len(HeldIn(i)) = SizeOf(files[i])
  BY <1>1 DEF ContentsFacts
<1>4. ~Full(d) /\ \A i \in Slots : i < d => Full(i)
  BY <1>2, <1>3, Limits DEF Ring, Full, SizeOf
<1>5. ScanIndex = d
  BY <1>1, <1>4, ScanProperties
<1> QED  BY <1>2, <1>3, <1>4, <1>5

\* An init that fails leaves the disk alone.
LEMMA InitFailsKeeps == IInv /\ InitFails => IInv'
<1> SUFFICES ASSUME IInv, InitFails PROVE IInv'
  OBVIOUS
<1>1. /\ TypeOK /\ Stream /\ SizeIsExact /\ Bounded
      /\ pc = "down" /\ ~isOpen /\ UNCHANGED <<pc, memVars, histVars>>
      /\ faults < MaxFaults /\ faults' = faults + 1
  BY DEF IInv, InitFails, Stream, Fault
<1>2. ScanIndex \in Slots
  BY <1>1, ScanProperties
<1>3. /\ files' \in [Slots -> Seq(Bytes) \cup {Missing}]
      /\ \A i \in Slots : files'[i] = files[i] \/ files'[i] = Missing
  BY <1>1, <1>2 DEF InitFails, TypeOK, Bytes
<1>4. TypeOK'
  BY <1>1, <1>3, Limits DEF TypeOK, memVars, histVars, Bytes
<1>5. SizeIsExact' /\ Stream'
  BY <1>1 DEF SizeIsExact, Stream, memVars, histVars
<1>6. Bounded'
  <2>1. 0 < Allowed(kept + 1) /\ 0 < maxFileSize_ + Longest
    <3>1. kept \in Nat
      BY <1>1, Limits DEF TypeOK
    <3> QED  BY <3>1, AllowedGrows
  <2>2. SizeOf(Missing) = 0
    BY DEF SizeOf
  <2>3. ~isOpen' /\ kept' = kept /\ torn' = torn
    BY <1>1 DEF memVars, histVars
  <2> QED  BY <1>1, <1>3, <2>1, <2>2, <2>3 DEF Bounded
<1>7. ASSUME ~torn' PROVE Order'
  <2>1. Order /\ ~Full(ScanIndex)
    BY <1>1, <1>7, ScanFindsNewest DEF IInv, histVars
  <2>2. files' = files
    BY <2>1 DEF InitFails
  <2> QED  BY <1>1, <2>1, <2>2
           DEF Order, Contents, Part, HeldIn, Rotating, memVars, histVars
<1> QED  BY <1>1, <1>4, <1>5, <1>6, <1>7 DEF IInv, histVars

\* A start continues the file that was in use.
LEMMA InitStorageKeeps == IInv /\ InitStorage => IInv'
<1> SUFFICES ASSUME IInv, InitStorage PROVE IInv'
  OBVIOUS
<1> DEFINE c == ScanIndex
<1>1. /\ TypeOK /\ Stream /\ SizeIsExact /\ Bounded
      /\ pc = "down" /\ ~isOpen /\ ~bad /\ buffered = <<>> /\ Len(buffered) = 0
      /\ kept \in Nat /\ torn \in BOOLEAN
  BY MissingProperties, Limits DEF IInv, InitStorage, Stream, TypeOK
<1>2. c \in Slots /\ ScanCount \in 0..maxFiles_ /\ (~torn => ~Full(c))
  BY <1>1, ScanProperties, ScanFindsNewest
<1>3. /\ currentFileIndex_' = c /\ cachedFileCount_' = ScanCount
      /\ isOpen' = TRUE /\ available_' = TRUE /\ pc' = "ready"
      /\ UNCHANGED <<buffered, bad, writesSinceFlush_, written, lost, torn>>
      /\ OpenNextFile(c)
  BY DEF InitStorage
<1> HIDE DEF c
<1>4. files[c] # Missing => files[c] \in Seq(Bytes) /\ Len(files[c]) \in Nat
  BY <1>1, <1>2, LenProperties DEF TypeOK, Bytes
<1>5. /\ files' \in [Slots -> Seq(Bytes) \cup {Missing}] /\ currentFileSize_' \in Nat
      /\ files'[c] # Missing /\ currentFileSize_' < maxFileSize_
      /\ \A i \in Slots : i # c => files'[i] = files[i]
      /\ faults' \in 0..MaxFaults /\ kept' \in Nat
      /\ \/ /\ kept' = kept /\ currentFileSize_' = Len(files'[c])
            /\ files'[c] # files[c] => files'[c] = <<>> /\ (Full(c) \/ files[c] = Missing)
         \/ /\ torn /\ kept' = kept + 1 /\ files' = files /\ currentFileSize_' = 0
  <2>1. /\ files \in [Slots -> Seq(Bytes) \cup {Missing}] /\ faults \in 0..MaxFaults
        /\ <<>> \in Seq(Bytes) /\ <<>> # Missing /\ Len(<<>>) = 0
    BY <1>1, MissingProperties DEF TypeOK, Bytes
  <2>2. CASE /\ Full(c) \/ files[c] = Missing
             /\ files' = [files EXCEPT ![c] = <<>>] /\ currentFileSize_' = 0
             /\ UNCHANGED <<kept, faults>>
    <3>1. files'[c] = <<>> /\ \A i \in Slots : i # c => files'[i] = files[i]
      BY <1>2, <2>1, <2>2
    <3>2. files' \in [Slots -> Seq(Bytes) \cup {Missing}]
      BY <2>1, <2>2
    <3> QED  BY <1>1, <2>1, <2>2, <3>1, <3>2, Limits
  <2>3. CASE /\ Full(c) /\ Fault("remove") /\ currentFileSize_' = 0
             /\ kept' = kept + 1 /\ UNCHANGED files
    <3>1. torn /\ files[c] # Missing
      BY <1>2, <2>3 DEF Full
    <3>2. faults' \in 0..MaxFaults
      BY <2>1, <2>3, Limits DEF Fault
    <3> QED  BY <1>1, <2>1, <2>3, <3>1, <3>2, Limits
  <2>4. CASE /\ ~Full(c) /\ files[c] # Missing /\ currentFileSize_' = Len(files[c])
             /\ UNCHANGED <<files, kept, faults>>
    BY <1>1, <1>4, <2>1, <2>4, Limits DEF Full
  <2> QED  BY <1>3, <2>2, <2>3, <2>4 DEF OpenNextFile
<1>6. TypeOK'
  BY <1>1, <1>2, <1>3, <1>5 DEF TypeOK, Bytes
<1>7. SizeIsExact' /\ Stream'
  <2>1. currentFileSize_' < maxFileSize_ + Longest
    BY <1>5, LongestIs, Limits
  <2>2. kept' = 0 => currentFileSize_' = Len(files'[c])
    BY <1>1, <1>5
  <2>3. SizeIsExact'
    BY <1>1, <1>3, <1>5, <2>2 DEF SizeIsExact
  <2>4. kept' # 0 => torn'
    BY <1>1, <1>3, <1>5 DEF Stream
  <2> QED  BY <1>1, <1>3, <1>5, <2>1, <2>3, <2>4, Limits DEF Stream, TypeOK
<1>8. Bounded'
  <2>1. /\ Allowed(kept) \in Nat /\ Allowed(kept + 1) \in Nat
        /\ Allowed((kept + 1) + 1) = Allowed(kept + 1) + Wide
        /\ maxFileSize_ + Longest < Allowed(kept + 1) /\ Wide \in Nat /\ Longest \in Nat
    <3>1. kept \in Nat /\ kept + 1 \in Nat
      BY <1>1
    <3> QED  BY <3>1, AllowedGrows, LongestIs
  <2>2. SizeOf(files'[c]) = Len(files'[c]) /\ Len(files'[c]) \in Nat
    BY <1>2, <1>5, LenProperties DEF SizeOf
  <2>3. Counted' = 0
    BY <1>1, <1>3 DEF Counted
  <2>4. CASE /\ kept' = kept /\ currentFileSize_' = Len(files'[c])
    <3>1. SizeOf(files'[c]) < maxFileSize_ + Longest
      BY <1>5, <2>1, <2>2, <2>4, Limits
    <3>2. SizeOf(files'[c]) < Allowed(kept' + 1)
      BY <2>1, <2>2, <2>4, <3>1, Limits
    <3>3. \A i \in Slots : i # c => SizeOf(files'[i]) = SizeOf(files[i])
      BY <1>5
    <3>4. SizeOf(files'[c]) + Counted' <= currentFileSize_' + Allowed(kept')
      BY <2>1, <2>2, <2>3, <2>4
    <3> QED  BY <1>1, <1>3, <2>4, <3>1, <3>2, <3>3, <3>4 DEF Bounded
  <2>5. CASE torn /\ kept' = kept + 1 /\ files' = files /\ currentFileSize_' = 0
    <3>1. \A i \in Slots : SizeOf(files[i]) < Allowed(kept + 1) /\ SizeOf(files[i]) \in Nat
      BY <1>1, LenProperties DEF Bounded, TypeOK, SizeOf
    <3>2. \A i \in Slots : SizeOf(files'[i]) < Allowed(kept' + 1)
      BY <2>1, <2>5, <3>1
    <3>3. SizeOf(files'[c]) + Counted' <= currentFileSize_' + Allowed(kept')
      BY <1>2, <2>1, <2>3, <2>5, <3>1
    <3> QED  BY <1>3, <2>5, <3>2, <3>3 DEF Bounded
  <2> QED  BY <1>5, <2>4, <2>5
<1>9. ASSUME ~torn' PROVE Order'
  <2>1. /\ Ring(Contents, c, written, lost) /\ Len(Contents[c]) < maxFileSize_
        /\ ~Full(c) /\ \A i \in Slots : Contents[i] = HeldIn(i)
    BY <1>1, <1>3, <1>9, ScanFindsNewest DEF c
  <2>2. ContentsFacts' /\ Contents \in [Slots -> Seq(Bytes)] /\ ~Rotating'
    BY <1>1, <1>3, <1>6, ContentsAre, ContentsAreNext DEF ContentsFacts, Rotating
  <2>3. \A i \in Slots : HeldIn(i)' = HeldIn(i)
    <3>1. files'[c] # files[c] => files'[c] = <<>> /\ files[c] = Missing
      BY <1>3, <1>5, <1>9, <2>1
    <3> QED  BY <1>5, <3>1, MissingProperties DEF HeldIn
  <2>4. \A i \in Slots : Contents'[i] = Contents[i]
    BY <1>1, <1>3, <2>1, <2>2, <2>3 DEF ContentsFacts
  <2>5. Contents' = Contents
    BY <2>2, <2>4 DEF ContentsFacts
  <2> QED  BY <1>2, <1>3, <2>1, <2>5 DEF Order
<1> QED  BY <1>3, <1>6, <1>7, <1>8, <1>9 DEF IInv

\* What goes to the current file leaves it within its limits, if it is not
\* much more than what the stream holds.
LEMMA SizesGrow ==
    ASSUME TypeOK, Stream, Bounded, isOpen, NEW x \in Seq(Bytes), GoesToFile(x),
           kept' = kept, torn => torn',
           Len(x) <= Counted + 2 * FLUSH_THRESHOLD + 2 * Longest,
           ~torn' => SizeOf(files[currentFileIndex_]) + Len(x) < maxFileSize_ + Longest
    PROVE  /\ files' \in [Slots -> Seq(Bytes) \cup {Missing}]
           /\ \A i \in Slots : i # currentFileIndex_ => files'[i] = files[i]
           /\ files'[currentFileIndex_] # Missing
           /\ files'[currentFileIndex_] = HeldIn(currentFileIndex_) \o x
           /\ SizeOf(files'[currentFileIndex_])
                = SizeOf(files[currentFileIndex_]) + Len(x)
           /\ SizeOf(files[currentFileIndex_]) \in Nat /\ Len(x) \in Nat
           /\ \A i \in Slots : SizeOf(files'[i]) < Allowed(kept' + 1)
           /\ ~torn' => \A i \in Slots : SizeOf(files'[i]) < maxFileSize_ + Longest
<1> DEFINE c == currentFileIndex_
<1>1. /\ c \in Slots /\ files[c] # Missing /\ kept \in Nat /\ currentFileSize_ \in Nat
      /\ currentFileSize_ < maxFileSize_ + Longest
      /\ Counted \in Nat
      /\ SizeOf(files[c]) + Counted <= currentFileSize_ + Allowed(kept)
  BY LenProperties DEF TypeOK, Stream, Bounded, Counted
<1>2. files' = [files EXCEPT ![c] = @ \o x]
  BY DEF GoesToFile
<1>3. /\ files' \in [Slots -> Seq(Bytes) \cup {Missing}]
      /\ \A i \in Slots : i # c => files'[i] = files[i]
      /\ files'[c] # Missing /\ files'[c] = HeldIn(c) \o x
      /\ SizeOf(files'[c]) = SizeOf(files[c]) + Len(x)
      /\ SizeOf(files[c]) \in Nat /\ Len(x) \in Nat
  BY <1>1, <1>2, FileGrows
<1> HIDE DEF c
<1>4. SizeOf(files'[c]) < Allowed(kept' + 1)
  <2>1. /\ Allowed(kept) \in Nat /\ Allowed(kept' + 1) = Allowed(kept) + Wide
        /\ Longest \in Nat
    BY <1>1, AllowedGrows, LongestIs
  <2>2. Wide = maxFileSize_ + 2 * FLUSH_THRESHOLD + 3 * Longest
    BY DEF Wide
  <2>3. /\ Len(x) <= Counted + 2 * FLUSH_THRESHOLD + 2 * Longest
        /\ FLUSH_THRESHOLD \in Nat /\ maxFileSize_ \in Nat
    BY Limits
  <2>4. SizeOf(files'[c])
           <= currentFileSize_ + Allowed(kept) + 2 * FLUSH_THRESHOLD + 2 * Longest
    BY <1>1, <1>3, <2>1, <2>3
  <2> QED  BY <1>1, <1>3, <2>1, <2>2, <2>3, <2>4
<1>5. \A i \in Slots : i # c => SizeOf(files'[i]) < Allowed(kept' + 1)
  BY <1>3 DEF Bounded
<1>6. ~torn' => \A i \in Slots : SizeOf(files'[i]) < maxFileSize_ + Longest
  BY <1>3 DEF Bounded, c
<1> QED  BY <1>3, <1>4, <1>5, <1>6 DEF c

\* Bytes are numbered on from those that were written before.
LEMMA NumberedProperties ==
    ASSUME NEW n \in Nat, written \in Nat, written + n <= MaxWritten
    PROVE  /\ Numbered(n) \in Seq(Bytes) /\ Len(Numbered(n)) = n
           /\ \A i \in 1..n : Numbered(n)[i] = written + i
<1>1. \A i \in 1..n : written + i \in Bytes
  BY Limits DEF Bytes
<1> QED  BY <1>1 DEF Numbered

\* The smaller of two numbers.
LEMMA MinProperties ==
    ASSUME NEW a \in Int, NEW b \in Int
    PROVE  (Min({a, b}) = a \/ Min({a, b}) = b) /\ Min({a, b}) <= a /\ Min({a, b}) <= b
<1>1. \E x \in {a, b} : \A y \in {a, b} : x <= y
  BY DEF Min
<1> QED  BY <1>1 DEF Min

\* What is written goes to the end of the log, be it flushed or not; if a flush
\* fails, a part of it does, and the stream takes no more.
LEMMA WriteKeeps ==
    ASSUME IInv, NEW n \in Lengths, Write(n)
    PROVE  IInv'
<1> DEFINE c == currentFileIndex_
           s == Numbered(n)
           pending == buffered \o s
<1>1. /\ TypeOK /\ Stream /\ SizeIsExact /\ Bounded /\ ContentsFacts
      /\ pc = "ready" /\ isOpen /\ available_ /\ ~bad /\ n \in Nat \ {0} /\ n <= Longest
      /\ written' = written + n /\ written + n <= MaxWritten
      /\ currentFileSize_' = currentFileSize_ + n
      /\ pc' = IF currentFileSize_ + n >= maxFileSize_ THEN "close" ELSE "ready"
      /\ UNCHANGED <<isOpen, currentFileIndex_, available_, cachedFileCount_, lost, kept>>
  BY ContentsAre, Limits, LongestIs DEF IInv, Write, Writable
<1>2. /\ c \in Slots /\ files[c] # Missing /\ written \in Nat /\ kept \in Nat
      /\ currentFileSize_ \in Nat /\ currentFileSize_ < maxFileSize_
      /\ buffered \in Seq(Bytes) /\ Len(buffered) <= writesSinceFlush_
      /\ Len(buffered) \in Nat /\ Counted = Len(buffered) /\ Longest \in Nat
      /\ writesSinceFlush_ \in Nat /\ writesSinceFlush_ \in 0..(FLUSH_THRESHOLD - 1)
      /\ files \in [Slots -> Seq(Bytes) \cup {Missing}]
      /\ SizeOf(files[c]) \in Nat
      /\ kept = 0 => currentFileSize_ = SizeOf(files[c]) + Len(buffered)
      /\ SizeOf(files[c]) + Len(buffered) <= currentFileSize_ + Allowed(kept)
      /\ Allowed(kept) \in Nat
  <2>1. /\ c \in Slots /\ files[c] # Missing /\ written \in Nat /\ kept \in Nat
        /\ currentFileSize_ \in Nat /\ currentFileSize_ < maxFileSize_
        /\ buffered \in Seq(Bytes) /\ Len(buffered) <= writesSinceFlush_
        /\ writesSinceFlush_ \in Nat /\ writesSinceFlush_ \in 0..(FLUSH_THRESHOLD - 1)
        /\ files \in [Slots -> Seq(Bytes) \cup {Missing}]
    BY <1>1, Limits DEF TypeOK, Stream, Bytes
  <2>2. Counted = Len(buffered)
    BY <1>1 DEF Counted
  <2>3. files[c] \in Seq(Bytes) /\ SizeOf(files[c]) = Len(files[c])
    BY <2>1 DEF SizeOf
  <2>4. SizeOf(files[c]) \in Nat /\ Len(buffered) \in Nat
    BY <2>1, <2>3, LenProperties
  <2>5. kept = 0 => currentFileSize_ = SizeOf(files[c]) + Len(buffered)
    BY <1>1, <2>3 DEF SizeIsExact
  <2>6. SizeOf(files[c]) + Len(buffered) <= currentFileSize_ + Allowed(kept)
    BY <1>1, <2>2 DEF Bounded
  <2>7. Allowed(kept) \in Nat /\ Longest \in Nat
    BY <2>1, AllowedGrows, LongestIs
  <2> QED  BY <2>1, <2>2, <2>4, <2>5, <2>6, <2>7
<1>3. /\ s \in Seq(Bytes) /\ Len(s) = n /\ \A i \in 1..n : s[i] = written + i
  BY <1>1, <1>2, NumberedProperties
<1> HIDE DEF s
<1>4. /\ pending \in Seq(Bytes) /\ Len(pending) = Len(buffered) + n
      /\ Len(buffered) \in Nat
      /\ HeldIn(c) \in Seq(Bytes)
      /\ (HeldIn(c) \o buffered) \o s = HeldIn(c) \o pending
      /\ ~torn => kept = 0
  <2>1. HeldIn(c) \in Seq(Bytes)
    BY <1>1, <1>2 DEF ContentsFacts
  <2>2. /\ pending \in Seq(Bytes) /\ Len(pending) = Len(buffered) + n
        /\ Len(buffered) \in Nat
    BY <1>2, <1>3, JoinedBytes
  <2>3. (HeldIn(c) \o buffered) \o s = HeldIn(c) \o (buffered \o s)
    BY <1>2, <1>3, <2>1, JoinIsAssociative
  <2> QED  BY <1>1, <2>1, <2>2, <2>3 DEF Stream
<1> DEFINE due == writesSinceFlush_ + n
           Stays == /\ due < FLUSH_THRESHOLD
                    /\ buffered' = pending /\ writesSinceFlush_' = due
                    /\ UNCHANGED <<files, bad, torn, faults>>
           Goes == /\ GoesToFile(pending)
                   /\ buffered' = <<>> /\ writesSinceFlush_' = 0
                   /\ UNCHANGED <<bad, torn, faults>>
           Breaks == /\ Fault("flush")
                     /\ \E k \in 0..Len(pending) : GoesToFile(SubSeq(pending, 1, k))
                     /\ buffered' = pending /\ writesSinceFlush_' = 0
                     /\ bad' = TRUE /\ torn' = TRUE
<1>5. Stays \/ Goes \/ Breaks
  BY DEF Write, FlushIfDue, s
<1> HIDE DEF pending, due
<1>6. /\ files' \in [Slots -> Seq(Bytes) \cup {Missing}]
      /\ buffered' \in Seq(Bytes) /\ bad' \in BOOLEAN /\ torn' \in BOOLEAN
      /\ faults' \in 0..MaxFaults /\ (~torn' => ~torn)
      /\ bad' => torn' /\ Len(buffered') < FLUSH_THRESHOLD + Longest
      /\ ~bad' => Len(buffered') <= writesSinceFlush_'
      /\ writesSinceFlush_' \in 0..(FLUSH_THRESHOLD - 1)
      /\ files'[c] # Missing /\ \A i \in Slots : i # c => files'[i] = files[i]
      /\ SizeOf(files'[c]) \in Nat
      /\ ~bad' => SizeOf(files'[c]) + Len(buffered') = SizeOf(files[c]) + Len(buffered) + n
      /\ SizeOf(files'[c]) + Counted' <= currentFileSize_ + n + Allowed(kept)
      /\ ~bad' => HeldIn(c)' \o buffered' = HeldIn(c) \o pending
      /\ \A i \in Slots : SizeOf(files'[i]) < Allowed(kept' + 1)
      /\ ~torn' => \A i \in Slots : SizeOf(files'[i]) < maxFileSize_ + Longest
  <2>1. /\ torn \in BOOLEAN /\ faults \in 0..MaxFaults /\ bad = FALSE
    BY <1>1 DEF TypeOK
  <2>2. CASE Stays
    <3>1. /\ files' = files /\ buffered' = pending /\ writesSinceFlush_' = due
          /\ bad' = FALSE
          /\ torn' = torn /\ faults' = faults /\ due < FLUSH_THRESHOLD
          /\ Counted' = Len(pending)
      BY <1>1, <2>2 DEF Counted
    <3>2. HeldIn(c)' = HeldIn(c)
      BY <1>1, <3>1 DEF HeldIn
    <3>3. /\ Len(buffered') <= writesSinceFlush_'
          /\ writesSinceFlush_' \in 0..(FLUSH_THRESHOLD - 1)
      BY <1>1, <1>2, <1>4, <3>1, Limits DEF due
    <3>4. SizeOf(files'[c]) + Len(buffered') = SizeOf(files[c]) + Len(buffered) + n
      <4>1. SizeOf(files'[c]) = SizeOf(files[c]) /\ Len(buffered') = Len(buffered) + n
        BY <1>4, <3>1
      <4> QED  BY <1>1, <1>2, <4>1
    <3>5. SizeOf(files'[c]) + Counted' <= currentFileSize_ + n + Allowed(kept)
      <4>1. SizeOf(files'[c]) = SizeOf(files[c]) /\ Counted' = Len(buffered) + n
        BY <1>4, <3>1
      <4> QED  BY <1>1, <1>2, <4>1
    <3>6. /\ \A i \in Slots : SizeOf(files'[i]) < Allowed(kept' + 1)
          /\ ~torn' => \A i \in Slots : SizeOf(files'[i]) < maxFileSize_ + Longest
      BY <1>1, <3>1 DEF Bounded
    <3>7. /\ files' \in [Slots -> Seq(Bytes) \cup {Missing}]
          /\ files'[c] # Missing /\ \A i \in Slots : i # c => files'[i] = files[i]
          /\ SizeOf(files'[c]) \in Nat /\ buffered' \in Seq(Bytes)
          /\ HeldIn(c)' \o buffered' = HeldIn(c) \o pending
      BY <1>2, <1>4, <3>1, <3>2
    <3> QED  BY <2>1, <3>1, <3>3, <3>4, <3>5, <3>6, <3>7
  <2>3. CASE Goes
    <3>1. /\ GoesToFile(pending) /\ buffered' = <<>> /\ writesSinceFlush_' = 0
          /\ bad' = bad /\ torn' = torn /\ faults' = faults
      BY <2>3
    <3>2. /\ Len(pending) <= Counted + 2 * FLUSH_THRESHOLD + 2 * Longest
          /\ ~torn' => SizeOf(files[c]) + Len(pending) < maxFileSize_ + Longest
      <4>1. Counted = Len(buffered) /\ Len(pending) = Len(buffered) + n /\ n <= Longest
            /\ FLUSH_THRESHOLD \in Nat /\ maxFileSize_ \in Nat /\ n \in Nat
        BY <1>1, <1>2, <1>4, Limits
      <4>2. Len(pending) <= Counted + 2 * FLUSH_THRESHOLD + 2 * Longest
        BY <1>2, <4>1
      <4>3. ~torn' => currentFileSize_ = SizeOf(files[c]) + Len(buffered)
        BY <1>2, <1>4, <3>1
      <4> QED  BY <1>2, <4>1, <4>2, <4>3
    <3>3. /\ files' \in [Slots -> Seq(Bytes) \cup {Missing}]
          /\ \A i \in Slots : i # c => files'[i] = files[i]
          /\ files'[c] # Missing /\ files'[c] = HeldIn(c) \o pending
          /\ SizeOf(files'[c]) = SizeOf(files[c]) + Len(pending)
          /\ \A i \in Slots : SizeOf(files'[i]) < Allowed(kept' + 1)
          /\ ~torn' => \A i \in Slots : SizeOf(files'[i]) < maxFileSize_ + Longest
      BY <1>1, <1>4, <3>1, <3>2, SizesGrow
    <3>4. HeldIn(c)' \o buffered' = HeldIn(c) \o pending
      <4>1. HeldIn(c)' = HeldIn(c) \o pending
        BY <1>1, <3>3 DEF HeldIn
      <4>2. HeldIn(c) \o pending \in Seq(Bytes)
        BY <1>4, JoinedBytes
      <4>3. (HeldIn(c) \o pending) \o <<>> = HeldIn(c) \o pending
        BY <4>2, ConcatEmptySeq
      <4> QED  BY <3>1, <4>1, <4>3
    <3>5. buffered' \in Seq(Bytes) /\ Len(buffered') = 0 /\ Counted' = 0 /\ ~bad'
      BY <1>1, <3>1, MissingProperties DEF Counted
    <3>6. SizeOf(files'[c]) + Len(buffered') = SizeOf(files[c]) + Len(buffered) + n
      BY <1>1, <1>2, <1>4, <3>3, <3>5
    <3>7. /\ SizeOf(files'[c]) + Counted' <= currentFileSize_ + n + Allowed(kept)
          /\ SizeOf(files'[c]) \in Nat
      <4>1. SizeOf(files'[c]) = SizeOf(files[c]) + (Len(buffered) + n) /\ Counted' = 0
        BY <1>4, <3>3, <3>5
      <4> QED  BY <1>1, <1>2, <4>1
    <3>8. /\ Len(buffered') <= writesSinceFlush_'
          /\ writesSinceFlush_' \in 0..(FLUSH_THRESHOLD - 1)
      BY <3>1, <3>5, Limits
    <3> QED  BY <1>1, <2>1, <3>1, <3>3, <3>4, <3>5, <3>6, <3>7, <3>8
  <2>4. CASE Breaks
    <3>1. PICK k \in 0..Len(pending) : GoesToFile(SubSeq(pending, 1, k))
      BY <2>4
    <3>2. /\ buffered' = pending /\ writesSinceFlush_' = 0 /\ bad' = TRUE /\ torn' = TRUE
          /\ faults' \in 0..MaxFaults
      BY <2>1, <2>4, Limits DEF Fault
    <3> DEFINE x == SubSeq(pending, 1, k)
    <3>3. x \in Seq(Bytes) /\ Len(x) = k /\ k \in Nat /\ k <= Len(pending)
      BY <1>4, CutProperties
    <3>4. GoesToFile(x)
      BY <3>1
    <3> HIDE DEF x
    <3>5. /\ Len(x) <= Counted + 2 * FLUSH_THRESHOLD + 2 * Longest
      BY <1>1, <1>2, <1>4, <3>3, Limits
    <3>6. /\ files' \in [Slots -> Seq(Bytes) \cup {Missing}]
          /\ \A i \in Slots : i # c => files'[i] = files[i]
          /\ files'[c] # Missing
          /\ SizeOf(files'[c]) = SizeOf(files[c]) + Len(x)
          /\ \A i \in Slots : SizeOf(files'[i]) < Allowed(kept' + 1)
      BY <1>1, <3>2, <3>3, <3>4, <3>5, SizesGrow
    <3>7. Counted' = 0 /\ Len(buffered') < FLUSH_THRESHOLD + Longest
      BY <1>1, <1>2, <1>4, <3>2, Limits DEF Counted
    <3>8. /\ SizeOf(files'[c]) + Counted' <= currentFileSize_ + n + Allowed(kept)
          /\ SizeOf(files'[c]) \in Nat
      <4>1. /\ SizeOf(files'[c]) = SizeOf(files[c]) + k /\ k <= Len(buffered) + n
            /\ k \in Nat /\ Counted' = 0
        BY <1>4, <3>3, <3>6, <3>7
      <4> QED  BY <1>1, <1>2, <4>1
    <3>9. writesSinceFlush_' \in 0..(FLUSH_THRESHOLD - 1)
      BY <3>2, Limits
    <3> QED  BY <1>4, <3>2, <3>6, <3>7, <3>8, <3>9
  <2> HIDE DEF Stays, Goes, Breaks
  <2> QED  BY <1>5, <2>2, <2>3, <2>4
<1> HIDE DEF Stays, Goes, Breaks
<1>7. TypeOK'
  <2>1. written' \in 0..MaxWritten /\ currentFileSize_' \in Nat
    BY <1>1, <1>2, Limits
  <2>2. pc' \in {"down", "ready", "close", "remove", "open"}
    BY <1>1
  <2> QED  BY <1>1, <1>6, <2>1, <2>2 DEF TypeOK, Bytes
<1>8. SizeIsExact' /\ Stream'
  <2>1. SizeOf(files'[c]) = Len(files'[c])
    BY <1>6 DEF SizeOf
  <2>2. currentFileSize_' \in Nat /\ currentFileSize_' < maxFileSize_ + Longest
    BY <1>1, <1>2, Limits
  <2>3. SizeIsExact'
    BY <1>1, <1>2, <1>6, <2>1 DEF SizeIsExact
  <2>4. /\ pc' = "close" => currentFileSize_' >= maxFileSize_
        /\ pc' = "ready" => currentFileSize_' < maxFileSize_
        /\ pc' \in {"close", "ready"}
    BY <1>1, <1>2, Limits
  <2>5. kept' # 0 => torn'
    BY <1>1, <1>4, <1>6
  <2>6. Stream'
    BY <1>1, <1>6, <2>2, <2>4, <2>5 DEF Stream
  <2> QED  BY <2>3, <2>6
<1>9. Bounded'
  BY <1>1, <1>6 DEF Bounded
<1>10. ASSUME ~torn' PROVE Order'
  <2>1. /\ Ring(Contents, c, written, lost) /\ Contents \in [Slots -> Seq(Bytes)]
        /\ ~bad' /\ ~Rotating /\ ~Rotating'
        /\ SizeOf(files'[c]) + Len(buffered') = currentFileSize_'
    BY <1>1, <1>2, <1>4, <1>6, <1>10 DEF IInv, Order, ContentsFacts, Rotating
  <2>2. ContentsFacts'
    BY <1>7, ContentsAreNext
  <2>3. /\ Contents' \in [Slots -> Seq(Bytes)]
        /\ \A i \in Slots : i # c => Contents'[i] = Contents[i]
    BY <1>1, <1>6, <2>2 DEF ContentsFacts, HeldIn
  <2>4. /\ Contents'[c] = Contents[c] \o s
        /\ Len(Contents'[c]) = currentFileSize_'
    <3>1. Contents[c] = HeldIn(c) \o buffered
      BY <1>1, <2>1 DEF ContentsFacts
    <3>2. /\ Contents'[c] = HeldIn(c)' \o buffered'
          /\ Len(Contents'[c]) = SizeOf(files'[c]) + Len(buffered')
      BY <1>1, <2>1, <2>2 DEF ContentsFacts
    <3> QED  BY <1>4, <1>6, <2>1, <3>1, <3>2
  <2>5. Contents' = [Contents EXCEPT ![c] = @ \o s]
    BY <1>2, <2>1, <2>3, <2>4
  <2>6. Ring(Contents', c, written', lost)
    BY <1>1, <1>2, <1>3, <2>1, <2>5, RingGrows
  <2> QED  BY <1>1, <1>2, <2>4, <2>6, Limits DEF Order
<1> QED  BY <1>7, <1>8, <1>9, <1>10 DEF IInv

\* A write that fails twice leaves at most twice what it was to write.
LEMMA FailingTwice ==
    ASSUME TypeOK, NEW bytes \in Seq(Bytes), FailsTwice(bytes)
    PROVE  \E x \in Seq(Bytes) : /\ GoesToFile(x) /\ Len(x) <= 2 * Len(bytes)
                                 /\ bytes = <<>> => x = <<>>
                                 /\ lost' \subseteq Bytes /\ torn' = TRUE
<1>1. PICK k, l \in 0..Len(bytes) :
         GoesToFile(SubSeq(bytes, 1, k) \o SubSeq(bytes, 1, l))
  BY DEF FailsTwice
<1> DEFINE p == SubSeq(bytes, 1, k)
           q == SubSeq(bytes, 1, l)
           x == p \o q
<1>2. /\ p \in Seq(Bytes) /\ Len(p) = k /\ q \in Seq(Bytes) /\ Len(q) = l
      /\ Len(bytes) \in Nat /\ k <= Len(bytes) /\ l <= Len(bytes) /\ k \in Nat /\ l \in Nat
  BY CutProperties, LenProperties
<1> HIDE DEF p, q
<1>3. x \in Seq(Bytes) /\ Len(x) = k + l
  BY <1>2, JoinedBytes
<1>4. lost' \subseteq Bytes /\ torn' = TRUE
  <2>1. ToSet(bytes) \subseteq Bytes /\ lost \subseteq Bytes
    BY ToSetProperties DEF TypeOK, Bytes
  <2> QED  BY <2>1 DEF FailsTwice
<1>5. GoesToFile(x)
  BY <1>1 DEF p, q
<1> HIDE DEF x
<1>6. bytes = <<>> => x = <<>>
  <2>1. bytes = <<>> => Len(x) = 0
    BY <1>2, <1>3, MissingProperties
  <2> QED  BY <1>3, <2>1, EmptySeq
<1>7. Len(x) <= 2 * Len(bytes)
  BY <1>2, <1>3
<1> QED  BY <1>3, <1>4, <1>5, <1>6, <1>7

\* What the stream cannot write out is lost.
LEMMA Losing ==
    ASSUME TypeOK, NEW k \in 0..Len(buffered), LoseAllBut(k)
    PROVE  LET x == SubSeq(buffered, 1, k)
               y == SubSeq(buffered, k + 1, Len(buffered))
           IN  /\ x \in Seq(Bytes) /\ Len(x) = k /\ y \in Seq(Bytes) /\ GoesToFile(x)
               /\ lost' = lost \cup ToSet(y) /\ lost' \subseteq Bytes
               /\ buffered = <<>> => x = <<>>
               /\ k = Len(buffered) => x = buffered /\ lost' = lost
<1> DEFINE x == SubSeq(buffered, 1, k)
           y == SubSeq(buffered, k + 1, Len(buffered))
<1>1. buffered \in Seq(Bytes) /\ Len(buffered) \in Nat /\ lost \subseteq Bytes
  BY LenProperties DEF TypeOK, Bytes
<1>2. x \in Seq(Bytes) /\ Len(x) = k /\ y \in Seq(Bytes)
  BY <1>1, CutProperties
<1>3. ToSet(y) \subseteq Bytes
  BY <1>2, ToSetProperties
<1>4. buffered = <<>> => x = <<>>
  <2>1. buffered = <<>> => Len(x) = 0
    BY <1>2, MissingProperties
  <2> QED  BY <1>2, <2>1, EmptySeq
<1>5. k = Len(buffered) => x = buffered /\ ToSet(y) = {}
  <2> SUFFICES ASSUME k = Len(buffered) PROVE x = buffered /\ ToSet(y) = {}
    OBVIOUS
  <2>1. x = buffered
    BY <1>1, SubSeqFull
  <2>2. y = <<>>
    BY <1>1, SubSeqEmpty
  <2> QED  BY <2>1, <2>2, MissingProperties
<1> QED  BY <1>1, <1>2, <1>3, <1>4, <1>5 DEF LoseAllBut, GoesToFile

\* A write that fails, or the first one after a flush that failed, leaves a
\* part of what the stream was to write, and no claim to an order.
LEMMA WriteFailsKeeps ==
    ASSUME IInv, NEW n \in Lengths, WriteFails(n)
    PROVE  IInv'
<1> DEFINE c == currentFileIndex_
           s == Numbered(n)
<1>1. /\ TypeOK /\ Stream /\ SizeIsExact /\ Bounded
      /\ pc = "ready" /\ isOpen /\ available_ /\ n \in Nat \ {0} /\ n <= Longest
      /\ written' = written + n /\ written + n <= MaxWritten
      /\ buffered' = <<>> /\ bad' = FALSE /\ available_' = FALSE /\ isOpen' = FALSE
      /\ UNCHANGED <<pc, currentFileIndex_, currentFileSize_, cachedFileCount_,
                     writesSinceFlush_, kept>>
  BY Limits, LongestIs DEF IInv, WriteFails, Writable
<1>2. /\ c \in Slots /\ files[c] # Missing /\ written \in Nat
      /\ buffered \in Seq(Bytes) /\ Len(buffered) \in Nat /\ Longest \in Nat
      /\ ~bad => Counted = Len(buffered) /\ Len(buffered) < FLUSH_THRESHOLD
      /\ bad => Counted = 0 /\ Len(buffered) < FLUSH_THRESHOLD + Longest
  <2>1. /\ Len(buffered) \in Nat /\ writesSinceFlush_ \in 0..(FLUSH_THRESHOLD - 1)
        /\ ~bad => Len(buffered) <= writesSinceFlush_
    BY <1>1, LenProperties DEF TypeOK, Stream
  <2>2. ~bad => Len(buffered) < FLUSH_THRESHOLD
    BY <2>1, Limits
  <2> QED  BY <1>1, <2>1, <2>2, LongestIs DEF TypeOK, Stream, Counted, Bytes
<1>3. s \in Seq(Bytes) /\ Len(s) = n
  BY <1>1, <1>2, NumberedProperties
<1> HIDE DEF s
<1>4. \E x \in Seq(Bytes) :
         /\ GoesToFile(x) /\ torn' = TRUE /\ lost' \subseteq Bytes
         /\ Len(x) <= Counted + 2 * FLUSH_THRESHOLD + 2 * Longest
         /\ faults' \in 0..MaxFaults
  <2>1. CASE ~bad /\ Fault("write") /\ FailsTwice(buffered \o s)
    <3>1. buffered \o s \in Seq(Bytes) /\ Len(buffered \o s) = Len(buffered) + n
      BY <1>2, <1>3, JoinedBytes
    <3>2. PICK x \in Seq(Bytes) : /\ GoesToFile(x) /\ Len(x) <= 2 * Len(buffered \o s)
                                  /\ lost' \subseteq Bytes /\ torn' = TRUE
      BY <1>1, <2>1, <3>1, FailingTwice
    <3>3. Len(x) \in Nat
      BY LenProperties
    <3>4. Len(x) <= Counted + 2 * FLUSH_THRESHOLD + 2 * Longest
      <4>1. /\ Len(x) <= 2 * (Len(buffered) + n) /\ Counted = Len(buffered)
            /\ Len(buffered) < FLUSH_THRESHOLD /\ FLUSH_THRESHOLD \in Nat
        BY <1>2, <2>1, <3>1, <3>2, Limits
      <4> QED  BY <1>1, <1>2, <3>3, <4>1
    <3>5. faults' \in 0..MaxFaults
      BY <1>1, <2>1, Limits DEF Fault, TypeOK
    <3> QED  BY <3>2, <3>4, <3>5
  <2>2. CASE /\ bad /\ torn' = TRUE /\ UNCHANGED faults
             /\ \E k \in 0..Len(buffered) : LoseAllBut(k)
    <3>1. PICK k \in 0..Len(buffered) : LoseAllBut(k)
      BY <2>2
    <3>2. PICK x \in Seq(Bytes) : GoesToFile(x) /\ Len(x) = k /\ lost' \subseteq Bytes
      BY <1>1, <3>1, Losing
    <3>3. Len(x) <= Counted + 2 * FLUSH_THRESHOLD + 2 * Longest
      <4>1. /\ Len(x) = k /\ k <= Len(buffered) /\ k \in Nat /\ Counted = 0
            /\ Len(buffered) < FLUSH_THRESHOLD + Longest /\ FLUSH_THRESHOLD \in Nat
        BY <1>2, <2>2, <3>2, Limits
      <4> QED  BY <1>2, <4>1
    <3>4. faults' \in 0..MaxFaults
      BY <1>1, <2>2 DEF TypeOK
    <3> QED  BY <2>2, <3>2, <3>3, <3>4
  <2>3. \/ ~bad /\ Fault("write") /\ FailsTwice(buffered \o s)
        \/ /\ bad /\ torn' = TRUE /\ UNCHANGED faults
           /\ \E k \in 0..Len(buffered) : LoseAllBut(k)
    BY DEF WriteFails, s
  <2> QED  BY <2>1, <2>2, <2>3
<1>5. /\ files' \in [Slots -> Seq(Bytes) \cup {Missing}] /\ torn' = TRUE
      /\ \A i \in Slots : SizeOf(files'[i]) < Allowed(kept' + 1)
      /\ lost' \subseteq Bytes /\ faults' \in 0..MaxFaults
  BY <1>1, <1>4, SizesGrow
<1>6. TypeOK'
  <2>1. buffered' \in Seq(Bytes)
    BY <1>1, MissingProperties
  <2>2. written' \in 0..MaxWritten
    BY <1>1, <1>2, Limits
  <2> QED  BY <1>1, <1>5, <2>1, <2>2 DEF TypeOK, Bytes
<1>7. SizeIsExact' /\ Stream'
  BY <1>1, <1>5, MissingProperties DEF SizeIsExact, Stream, TypeOK
<1>8. Bounded'
  BY <1>1, <1>5 DEF Bounded
<1> QED  BY <1>5, <1>6, <1>7, <1>8 DEF IInv

\* A rotation closes a full file, be it that not all of it gets there, ...
LEMMA RotateCloseKeeps == IInv /\ RotateClose => IInv'
<1> SUFFICES ASSUME IInv, RotateClose PROVE IInv'
  OBVIOUS
<1> PICK c \in Slots : c = currentFileIndex_
  BY DEF IInv, TypeOK
<1> DEFINE d == (c + 1) % maxFiles_
<1>1. /\ TypeOK /\ Stream /\ SizeIsExact /\ Bounded /\ ContentsFacts
      /\ pc = "close" /\ isOpen /\ pc' = "remove"
      /\ buffered' = <<>> /\ bad' = FALSE /\ isOpen' = FALSE /\ currentFileIndex_' = d
      /\ cachedFileCount_' = NextCount(cachedFileCount_)
      /\ UNCHANGED <<currentFileSize_, available_, writesSinceFlush_, written, kept>>
  BY ContentsAre DEF IInv, RotateClose, Stream
<1>2. /\ c \in Slots /\ files[c] # Missing /\ buffered \in Seq(Bytes)
      /\ Len(buffered) \in Nat /\ written \in Nat /\ torn \in BOOLEAN
      /\ currentFileSize_ \in Nat /\ currentFileSize_ >= maxFileSize_
      /\ currentFileSize_ < maxFileSize_ + Longest
      /\ SizeOf(files[c]) = Len(files[c])
      /\ faults \in 0..MaxFaults /\ Longest \in Nat
  BY <1>1, LenProperties, LongestIs DEF TypeOK, Stream, SizeOf, Bytes
<1>3. PICK k \in 0..Len(buffered) :
         /\ LoseAllBut(k) /\ torn' = (torn \/ k < Len(buffered))
         /\ IF k = Len(buffered) \/ bad THEN UNCHANGED faults ELSE Fault("close")
  BY DEF RotateClose
<1>4. PICK x \in Seq(Bytes) :
         /\ GoesToFile(x) /\ Len(x) = k /\ lost' \subseteq Bytes
         /\ k = Len(buffered) => x = buffered /\ lost' = lost
  BY <1>1, <1>3, Losing
<1>5. /\ torn' \in BOOLEAN /\ (torn => torn') /\ faults' \in 0..MaxFaults
      /\ ~torn' => /\ ~torn /\ x = buffered /\ lost' = lost
                   /\ SizeOf(files[c]) + Len(x) = currentFileSize_
  <2>1. faults' \in 0..MaxFaults
    BY <1>2, <1>3, Limits DEF Fault
  <2>2. ASSUME ~torn' PROVE ~torn /\ k = Len(buffered)
    <3>1. ~torn /\ ~(k < Len(buffered))
      BY <1>3, <2>2
    <3> QED  BY <1>2, <3>1
  <2>3. ASSUME ~torn PROVE currentFileSize_ = SizeOf(files[c]) + Len(buffered)
    BY <1>1, <1>2, <2>3 DEF SizeIsExact, Stream
  <2> QED  BY <1>2, <1>3, <1>4, <2>1, <2>2, <2>3
<1>6. Len(x) <= Counted + 2 * FLUSH_THRESHOLD + 2 * Longest
  <2>1. /\ ~bad => Counted = Len(buffered)
        /\ bad => Counted = 0 /\ Len(buffered) < FLUSH_THRESHOLD + Longest
    BY <1>1 DEF Counted, Stream
  <2>2. Len(x) \in Nat /\ Len(x) <= Len(buffered) /\ FLUSH_THRESHOLD \in Nat
    BY <1>2, <1>4, Limits
  <2> QED  BY <1>2, <2>1, <2>2
<1>7. /\ files' \in [Slots -> Seq(Bytes) \cup {Missing}]
      /\ \A i \in Slots : i # c => files'[i] = files[i]
      /\ files'[c] # Missing /\ files'[c] = HeldIn(c) \o x
      /\ \A i \in Slots : SizeOf(files'[i]) < Allowed(kept' + 1)
      /\ ~torn' => \A i \in Slots : SizeOf(files'[i]) < maxFileSize_ + Longest
  <2>1. ~torn' => SizeOf(files[c]) + Len(x) < maxFileSize_ + Longest
    BY <1>2, <1>5
  <2> QED  BY <1>1, <1>4, <1>5, <1>6, <2>1, SizesGrow
<1>8. d \in Slots
  BY <1>2, NextSlot
<1> HIDE DEF d
<1>9. TypeOK'
  <2>1. NextCount(cachedFileCount_) \in 0..maxFiles_
    <3>1. cachedFileCount_ \in 0..maxFiles_ /\ cachedFileCount_ + 1 \in 0..(maxFiles_ + 1)
      BY <1>1, Limits DEF TypeOK
    <3>2. PICK a \in 0..(maxFiles_ + 1) : a = cachedFileCount_ + 1
      BY <3>1
    <3>3. /\ Min({a, maxFiles_}) = a \/ Min({a, maxFiles_}) = maxFiles_
          /\ Min({a, maxFiles_}) <= maxFiles_
      <4>1. a \in Int /\ maxFiles_ \in Int
        BY Limits
      <4> QED  BY <4>1, MinProperties
    <3>4. NextCount(cachedFileCount_) = Min({a, maxFiles_})
      BY <3>2 DEF NextCount
    <3> QED  BY <3>3, <3>4, Limits
  <2>2. buffered' \in Seq(Bytes)
    BY <1>1, MissingProperties
  <2> QED  BY <1>1, <1>4, <1>5, <1>7, <1>8, <2>1, <2>2 DEF TypeOK, Bytes
<1>10. SizeIsExact' /\ Stream'
  <2>1. kept' # 0 => torn'
    BY <1>1, <1>5 DEF Stream
  <2> QED  BY <1>1, <2>1, MissingProperties DEF SizeIsExact, Stream, TypeOK
<1>11. Bounded'
  BY <1>1, <1>7 DEF Bounded
<1>12. ASSUME ~torn' PROVE Order'
  <2>1. /\ Ring(Contents, c, written, lost) /\ Contents \in [Slots -> Seq(Bytes)]
        /\ Contents[c] = HeldIn(c) \o buffered
        /\ Len(Contents[c]) = currentFileSize_ /\ x = buffered /\ lost' = lost
    BY <1>1, <1>5, <1>12 DEF IInv, Order, ContentsFacts, Rotating
  <2>2. ContentsFacts' /\ Rotating'
    BY <1>1, <1>9, ContentsAreNext DEF Rotating
  <2>3. /\ Contents' \in [Slots -> Seq(Bytes)] /\ Contents'[d] = <<>>
        /\ \A i \in Slots : i # d => Contents'[i] = HeldIn(i)'
    BY <1>1, <2>2 DEF ContentsFacts
  <2>4. \A i \in Slots : HeldIn(i)' = Contents[i]
    <3>1. HeldIn(c)' = Contents[c]
      BY <1>7, <2>1 DEF HeldIn
    <3>2. \A i \in Slots : i # c => HeldIn(i)' = Contents[i]
      BY <1>1, <1>7 DEF HeldIn, ContentsFacts
    <3> QED  BY <3>1, <3>2
  <2>5. Contents' = [Contents EXCEPT ![d] = <<>>]
    BY <1>8, <2>1, <2>3, <2>4
  <2>6. Ring(Contents', d, written, lost)
    BY <1>2, <2>1, <2>5, RingTurns DEF d
  <2> QED  BY <1>1, <2>1, <2>6 DEF Order
<1> QED  BY <1>9, <1>10, <1>11, <1>12 DEF IInv

\* ... removes what the next slot held, which the log had given up, or leaves
\* it there, ...
LEMMA RotateRemoveKeeps == IInv /\ RotateRemove => IInv'
<1> SUFFICES ASSUME IInv, RotateRemove PROVE IInv'
  OBVIOUS
<1> PICK c \in Slots : c = currentFileIndex_
  BY DEF IInv, TypeOK
<1>1. /\ TypeOK /\ Stream /\ SizeIsExact /\ Bounded /\ ContentsFacts
      /\ pc = "remove" /\ ~isOpen /\ buffered = <<>> /\ pc' = "open"
      /\ Rotating /\ Rotating' /\ kept \in Nat
      /\ UNCHANGED <<memVars, histVars>>
  BY ContentsAre DEF IInv, RotateRemove, Stream, Rotating, TypeOK
<1>2. /\ files' \in [Slots -> Seq(Bytes) \cup {Missing}]
      /\ files'[c] = Missing \/ files'[c] = files[c]
      /\ \A i \in Slots : i # c => files'[i] = files[i]
      /\ faults' \in 0..MaxFaults
  <2>1. files \in [Slots -> Seq(Bytes) \cup {Missing}] /\ faults \in 0..MaxFaults
    BY <1>1 DEF TypeOK, Bytes
  <2>2. CASE files' = [files EXCEPT ![c] = Missing] /\ UNCHANGED faults
    BY <2>1, <2>2
  <2>3. CASE Fault("remove") /\ UNCHANGED files
    BY <2>1, <2>3, Limits DEF Fault
  <2> QED  BY <2>2, <2>3 DEF RotateRemove
<1>3. TypeOK'
  BY <1>1, <1>2 DEF TypeOK, Bytes, memVars, histVars
<1>4. SizeIsExact' /\ Stream'
  BY <1>1, <1>2 DEF SizeIsExact, Stream, memVars, histVars
<1>5. Bounded'
  <2>1. 0 < Allowed(kept + 1) /\ 0 < maxFileSize_ + Longest
    BY <1>1, AllowedGrows
  <2>2. SizeOf(Missing) = 0
    BY DEF SizeOf
  <2>3. ~isOpen' /\ kept' = kept /\ torn' = torn
    BY <1>1 DEF memVars, histVars
  <2> QED  BY <1>1, <1>2, <2>1, <2>2, <2>3 DEF Bounded
<1>6. ASSUME Order PROVE Order'
  <2>1. Ring(Contents, c, written, lost) /\ Contents \in [Slots -> Seq(Bytes)]
        /\ Contents[c] = <<>>
    BY <1>1, <1>6 DEF Order, ContentsFacts
  <2>2. ContentsFacts' /\ currentFileIndex_' = c /\ buffered' = <<>>
    BY <1>1, <1>3, ContentsAreNext DEF memVars
  <2>3. \A i \in Slots : i # c => HeldIn(i)' = HeldIn(i)
    BY <1>2 DEF HeldIn
  <2>4. /\ Contents' \in [Slots -> Seq(Bytes)] /\ Contents'[c] = <<>>
        /\ \A i \in Slots : i # c => Contents'[i] = HeldIn(i)'
    BY <1>1, <2>2 DEF ContentsFacts
  <2>5. \A i \in Slots : Contents'[i] = Contents[i]
    BY <1>1, <2>1, <2>3, <2>4 DEF ContentsFacts
  <2>6. Contents' = Contents
    BY <2>1, <2>4, <2>5
  <2>7. Len(Contents'[c]) < maxFileSize_
    BY <2>4, MissingProperties, Limits
  <2> QED  BY <1>1, <2>1, <2>2, <2>6, <2>7 DEF Order, histVars
<1> QED  BY <1>1, <1>3, <1>4, <1>5, <1>6 DEF IInv, histVars

\* ... and opens it, or does not.
LEMMA RotateOpenKeeps == IInv /\ (RotateOpen \/ RotateOpenFails) => IInv'
<1> SUFFICES ASSUME IInv, RotateOpen \/ RotateOpenFails PROVE IInv'
  OBVIOUS
<1> PICK c \in Slots : c = currentFileIndex_
  BY DEF IInv, TypeOK
<1>1. /\ TypeOK /\ Stream /\ SizeIsExact /\ Bounded /\ ContentsFacts
      /\ pc = "open" /\ ~isOpen /\ ~bad /\ buffered = <<>> /\ pc' = "ready"
      /\ currentFileSize_' = 0 /\ Rotating /\ ~Rotating'
      /\ kept \in Nat /\ torn \in BOOLEAN
      /\ UNCHANGED <<buffered, bad, currentFileIndex_, available_, cachedFileCount_,
                     writesSinceFlush_, written, lost, kept>>
  BY ContentsAre DEF IInv, RotateOpen, RotateOpenFails, Stream, histVars, Rotating, TypeOK
<1>2. /\ \/ files' = [files EXCEPT ![c] = <<>>] /\ isOpen' = TRUE
         \/ files' = files /\ isOpen' = FALSE /\ (~torn' => files[c] = Missing)
      /\ faults' \in 0..MaxFaults /\ torn' \in BOOLEAN /\ (torn => torn')
  <2>1. CASE RotateOpen
    BY <1>1, <2>1 DEF RotateOpen, TypeOK, histVars
  <2>2. CASE RotateOpenFails
    <3>1. isOpen = FALSE
      BY <1>1 DEF TypeOK
    <3>2. torn' = (torn \/ StillThere)
      BY <2>2 DEF RotateOpenFails
    <3>3. torn' \in BOOLEAN /\ (torn => torn') /\ (~torn' => files[c] = Missing)
      BY <1>1, <3>2 DEF StillThere
    <3> QED  BY <1>1, <2>2, <3>1, <3>3, Limits DEF RotateOpenFails, Fault, TypeOK
  <2> QED  BY <2>1, <2>2
<1>3. /\ files' \in [Slots -> Seq(Bytes) \cup {Missing}]
      /\ \A i \in Slots : i # c => files'[i] = files[i]
      /\ files'[c] = <<>> \/ files'[c] = files[c]
      /\ ~torn' => files'[c] = <<>> \/ files'[c] = Missing
      /\ isOpen' => files'[c] = <<>>
      /\ isOpen' \in BOOLEAN
  <2>1. files \in [Slots -> Seq(Bytes) \cup {Missing}] /\ <<>> \in Seq(Bytes)
    BY <1>1, MissingProperties DEF TypeOK, Bytes
  <2>2. CASE files' = [files EXCEPT ![c] = <<>>] /\ isOpen' = TRUE
    BY <2>1, <2>2
  <2>3. CASE files' = files /\ isOpen' = FALSE /\ (~torn' => files[c] = Missing)
    BY <1>1, <2>1, <2>3
  <2> QED  BY <1>2, <2>2, <2>3
<1>4. SizeOf(<<>>) = 0 /\ SizeOf(Missing) = 0
  BY MissingProperties DEF SizeOf
<1>5. TypeOK'
  BY <1>1, <1>2, <1>3 DEF TypeOK, Bytes
<1>6. SizeIsExact' /\ Stream'
  <2>1. <<>> # Missing /\ Len(<<>>) = 0 /\ 0 < maxFileSize_ + Longest
    <3>1. 0 < maxFileSize_ + Longest
      BY <1>1, AllowedGrows
    <3> QED  BY <3>1, MissingProperties
  <2>2. kept' # 0 => torn'
    BY <1>1, <1>2 DEF Stream
  <2> QED  BY <1>1, <1>3, <2>1, <2>2, Limits DEF SizeIsExact, Stream, TypeOK
<1>7. Bounded'
  <2>1. /\ 0 < Allowed(kept + 1) /\ 0 < maxFileSize_ + Longest
        /\ Allowed(kept) \in Nat
    BY <1>1, AllowedGrows
  <2>2. Counted' = 0
    BY <1>1, MissingProperties DEF Counted
  <2>3. \A i \in Slots : SizeOf(files'[i]) < Allowed(kept + 1)
    BY <1>1, <1>3, <1>4, <2>1 DEF Bounded
  <2>4. ~torn' => \A i \in Slots : SizeOf(files'[i]) < maxFileSize_ + Longest
    BY <1>1, <1>2, <1>3, <1>4, <2>1 DEF Bounded
  <2>5. isOpen' => SizeOf(files'[c]) + Counted' <= currentFileSize_' + Allowed(kept)
    BY <1>1, <1>3, <1>4, <2>1, <2>2
  <2> QED  BY <1>1, <2>3, <2>4, <2>5 DEF Bounded
<1>8. ASSUME ~torn' PROVE Order'
  <2>1. Ring(Contents, c, written, lost) /\ Contents \in [Slots -> Seq(Bytes)]
        /\ Contents[c] = <<>>
    BY <1>1, <1>2, <1>8 DEF IInv, Order, ContentsFacts
  <2>2. ContentsFacts'
    BY <1>5, ContentsAreNext
  <2>3. \A i \in Slots : i # c => HeldIn(i)' = Contents[i]
    BY <1>1, <1>3 DEF HeldIn, ContentsFacts
  <2>4. HeldIn(c)' = Contents[c]
    BY <1>3, <1>8, <2>1 DEF HeldIn
  <2>5. /\ Contents' \in [Slots -> Seq(Bytes)]
        /\ \A i \in Slots : Contents'[i] = HeldIn(i)'
    BY <1>1, <2>2 DEF ContentsFacts
  <2>6. Contents' = Contents
    BY <2>1, <2>3, <2>4, <2>5
  <2>7. Len(Contents'[c]) < maxFileSize_
    BY <2>1, <2>6, MissingProperties, Limits
  <2> QED  BY <1>1, <2>1, <2>6, <2>7 DEF Order
<1> QED  BY <1>2, <1>5, <1>6, <1>7, <1>8 DEF IInv

\* The end of the process, in order or not, leaves a part of what was in the
\* stream, or up to twice as much of it.
LEMMA EndKeeps ==
    ASSUME IInv, NEW x \in Seq(Bytes), GoesToFile(x), Len(x) <= 2 * Len(buffered),
           buffered = <<>> => x = <<>>, lost' \subseteq Bytes, FreshMemory, pc' = "down",
           UNCHANGED <<written, kept>>, torn' \in BOOLEAN, faults' \in 0..MaxFaults,
           torn => torn',
           ~torn' => /\ pc = "ready" \/ (pc = "open" /\ ~StillThere)
                     /\ \E n \in 0..Len(buffered) :
                           /\ x = SubSeq(buffered, 1, n) /\ LoseAllBut(n)
    PROVE  IInv'
<1> PICK c \in Slots : c = currentFileIndex_
  BY DEF IInv, TypeOK
<1>1. /\ TypeOK /\ Stream /\ SizeIsExact /\ Bounded /\ ContentsFacts
      /\ buffered \in Seq(Bytes) /\ Len(buffered) \in Nat /\ Len(x) \in Nat
      /\ (~isOpen => x = <<>>) /\ written \in Nat
      /\ isOpen => files[c] # Missing
      /\ kept \in Nat /\ torn \in BOOLEAN
  BY ContentsAre, LenProperties DEF IInv, Stream, TypeOK, Bytes
<1>2. /\ isOpen' = FALSE /\ buffered' = <<>> /\ currentFileIndex_' = 0 /\ bad' = FALSE
      /\ currentFileSize_' = 0 /\ available_' = FALSE /\ cachedFileCount_' = 0
      /\ writesSinceFlush_' = 0 /\ written' = written /\ kept' = kept
  BY DEF FreshMemory
<1>3. ASSUME ~torn'
      PROVE  /\ ~torn /\ pc \in {"ready", "open"} /\ (pc = "open" => files[c] = Missing)
             /\ Len(x) <= Len(buffered)
             /\ \E n \in 0..Len(buffered) :
                   /\ x = SubSeq(buffered, 1, n)
                   /\ lost' = lost \cup ToSet(SubSeq(buffered, n + 1, Len(buffered)))
  <2>1. PICK n \in 0..Len(buffered) : x = SubSeq(buffered, 1, n) /\ LoseAllBut(n)
    BY <1>3
  <2>2. Len(x) = n
    BY <1>1, <2>1, CutProperties
  <2>3. pc \in {"ready", "open"} /\ (pc = "open" => files[c] = Missing)
    BY <1>3 DEF StillThere
  <2> QED  BY <1>1, <1>3, <2>1, <2>2, <2>3 DEF LoseAllBut
<1>4. /\ files' \in [Slots -> Seq(Bytes) \cup {Missing}]
      /\ \A i \in Slots : i # c => files'[i] = files[i]
      /\ files'[c] = Missing => HeldIn(c) \o x = <<>>
      /\ files'[c] # Missing => files'[c] = HeldIn(c) \o x
      /\ SizeOf(files'[c]) = SizeOf(files[c]) + Len(x)
  <2>1. files' = [files EXCEPT ![c] = @ \o x]
    BY DEF GoesToFile
  <2> QED  BY <1>1, <2>1, FileGrows
<1>5. /\ \A i \in Slots : SizeOf(files'[i]) < Allowed(kept + 1)
      /\ ~torn' => \A i \in Slots : SizeOf(files'[i]) < maxFileSize_ + Longest
  <2>1. CASE isOpen
    <3>1. Len(x) <= Counted + 2 * FLUSH_THRESHOLD + 2 * Longest
      <4>1. /\ ~bad => Len(buffered) <= writesSinceFlush_
            /\ bad => Len(buffered) < FLUSH_THRESHOLD + Longest
            /\ Counted = IF bad THEN 0 ELSE Len(buffered)
            /\ writesSinceFlush_ \in 0..(FLUSH_THRESHOLD - 1)
        BY <1>1 DEF Stream, Counted, TypeOK
      <4>2. Longest \in Nat /\ FLUSH_THRESHOLD \in Nat
        BY LongestIs, Limits
      <4>3. CASE bad
        BY <1>1, <4>1, <4>2, <4>3
      <4>4. CASE ~bad
        BY <1>1, <4>1, <4>2, <4>4
      <4> QED  BY <4>3, <4>4
    <3>2. ~torn' => SizeOf(files[c]) + Len(x) < maxFileSize_ + Longest
      <4>1. ASSUME ~torn'
            PROVE  /\ currentFileSize_ = SizeOf(files[c]) + Len(buffered)
                   /\ currentFileSize_ < maxFileSize_ + Longest
                   /\ Len(x) <= Len(buffered)
        BY <1>1, <1>3, <2>1, <4>1 DEF SizeIsExact, Stream, SizeOf
      <4>2. SizeOf(files[c]) \in Nat /\ maxFileSize_ + Longest \in Nat
        BY <1>1, <2>1, LenProperties, LongestIs, Limits DEF SizeOf, ContentsFacts
      <4> QED  BY <1>1, <4>1, <4>2
    <3> QED  BY <1>1, <1>2, <2>1, <3>1, <3>2, SizesGrow
  <2>2. CASE ~isOpen
    <3>1. Len(x) = 0
      BY <1>1, <2>2, MissingProperties
    <3>2. SizeOf(files[c]) \in Nat
      BY <1>1, LenProperties DEF ContentsFacts
    <3>3. \A i \in Slots : SizeOf(files'[i]) = SizeOf(files[i])
      BY <1>4, <3>1, <3>2
    <3>4. ~torn' => ~torn
      OBVIOUS
    <3> QED  BY <1>1, <3>3, <3>4 DEF Bounded
  <2> QED  BY <2>1, <2>2
<1>6. TypeOK'
  <2>1. /\ written' \in 0..MaxWritten /\ writesSinceFlush_' \in 0..(FLUSH_THRESHOLD - 1)
        /\ currentFileIndex_' \in Slots /\ cachedFileCount_' \in 0..maxFiles_
        /\ buffered' \in Seq(Bytes)
    BY <1>1, <1>2, MissingProperties, Limits DEF TypeOK
  <2> QED  BY <1>1, <1>2, <1>4, <2>1 DEF TypeOK, Bytes
<1>7. SizeIsExact' /\ Stream'
  <2>1. kept' # 0 => torn'
    BY <1>1, <1>2 DEF Stream
  <2> QED  BY <1>2, <2>1, MissingProperties DEF SizeIsExact, Stream
<1>8. Bounded'
  BY <1>2, <1>5 DEF Bounded
<1>9. ASSUME ~torn' PROVE Order'
  <2>1. PICK n \in 0..Len(buffered) :
           /\ x = SubSeq(buffered, 1, n)
           /\ lost' = lost \cup ToSet(SubSeq(buffered, n + 1, Len(buffered)))
    BY <1>3, <1>9
  <2>2. /\ Order /\ Ring(Contents, c, written, lost) /\ Contents \in [Slots -> Seq(Bytes)]
        /\ HeldIn(c) \in Seq(Bytes) /\ Len(Contents[c]) < maxFileSize_
    BY <1>1, <1>3, <1>9 DEF IInv, Order, ContentsFacts
  <2>3. Contents[c] = HeldIn(c) \o buffered
    <3>1. CASE pc = "ready"
      BY <1>1, <3>1 DEF ContentsFacts, Rotating
    <3>2. CASE pc = "open"
      <4>1. Contents[c] = <<>> /\ HeldIn(c) = <<>> /\ buffered = <<>>
        BY <1>1, <1>3, <1>9, <3>2 DEF ContentsFacts, Rotating, HeldIn, Stream
      <4> QED  BY <2>2, <4>1, JoinEmpty
    <3> QED  BY <1>3, <1>9, <3>1, <3>2
  <2>4. ContentsFacts' /\ ~Rotating'
    BY <1>6, ContentsAreNext DEF Rotating
  <2>5. /\ Contents' \in [Slots -> Seq(Bytes)]
        /\ \A i \in Slots : Contents'[i] = HeldIn(i)'
    BY <1>2, <2>4 DEF ContentsFacts
  <2>6. /\ HeldIn(c)' = HeldIn(c) \o x
        /\ \A i \in Slots : i # c => HeldIn(i)' = Contents[i]
    BY <1>1, <1>4 DEF HeldIn, ContentsFacts
  <2>7. Contents' = [Contents EXCEPT ![c] = HeldIn(c) \o x]
    BY <2>2, <2>5, <2>6
  <2>8. Ring(Contents', c, written, lost')
    <3>1. Ring([Contents EXCEPT ![c] = HeldIn(c) \o SubSeq(buffered, 1, n)], c, written,
               lost \cup ToSet(SubSeq(buffered, n + 1, Len(buffered))))
      <4>1. /\ Ring(Contents, c, written, lost) /\ written \in Nat
            /\ HeldIn(c) \in Seq(Bytes) /\ buffered \in Seq(Bytes)
            /\ Contents[c] = HeldIn(c) \o buffered
        BY <1>1, <2>2, <2>3
      <4> HIDE DEF Bytes
      <4> QED  BY <4>1, RingLoses
    <3> QED  BY <2>1, <2>7, <3>1
  <2>9. Len(Contents'[c]) < maxFileSize_
    <3>1. /\ Len(HeldIn(c) \o x) = Len(HeldIn(c)) + Len(x)
          /\ Len(HeldIn(c) \o buffered) = Len(HeldIn(c)) + Len(buffered)
          /\ Len(HeldIn(c)) \in Nat
      BY <1>1, <2>2, JoinedBytes
    <3>2. Len(x) <= Len(buffered)
      BY <1>3, <1>9
    <3> QED  BY <1>1, <2>2, <2>3, <2>5, <2>6, <3>1, <3>2, Limits
  <2> QED  BY <1>2, <2>8, <2>9 DEF Order
<1> QED  BY <1>6, <1>7, <1>8, <1>9 DEF IInv

\* A stop, or a kill, loses at most what the stream had buffered.
LEMMA StopAndCrashKeep == IInv /\ (Stop \/ Crash) => IInv'
<1> SUFFICES ASSUME IInv, Stop \/ Crash PROVE IInv'
  OBVIOUS
<1>1. /\ TypeOK /\ torn \in BOOLEAN /\ faults \in 0..MaxFaults
      /\ pc \in {"down", "ready", "close", "remove", "open"}
      /\ buffered \in Seq(Bytes) /\ Len(buffered) \in Nat
      /\ Len(buffered) \in 0..Len(buffered)
  BY LenProperties DEF IInv, TypeOK, Bytes
<1>2. FreshMemory /\ pc' = "down" /\ UNCHANGED <<written, kept>> /\ faults' \in 0..MaxFaults
  <2>1. CASE Stop
    BY <1>1, <2>1, Limits DEF Stop
  <2>2. CASE Crash
    BY <1>1, <2>2, Limits DEF Crash, Fault
  <2> QED  BY <2>1, <2>2
<1>3. CASE /\ \E n \in 0..Len(buffered) : LoseAllBut(n)
           /\ torn' \in BOOLEAN /\ (torn => torn')
           /\ ~torn' => pc = "ready" \/ (pc = "open" /\ ~StillThere)
  <2> PICK n \in 0..Len(buffered) : LoseAllBut(n)
    BY <1>3
  <2> DEFINE x == SubSeq(buffered, 1, n)
  <2>1. /\ x \in Seq(Bytes) /\ Len(x) = n /\ GoesToFile(x) /\ lost' \subseteq Bytes
        /\ buffered = <<>> => x = <<>>
    BY <1>1, Losing
  <2>2. Len(x) <= 2 * Len(buffered)
    BY <1>1, <2>1
  <2>3. ~torn' => /\ pc = "ready" \/ (pc = "open" /\ ~StillThere)
                  /\ \E k \in 0..Len(buffered) :
                        /\ x = SubSeq(buffered, 1, k) /\ LoseAllBut(k)
    <3>1. \E k \in 0..Len(buffered) : x = SubSeq(buffered, 1, k) /\ LoseAllBut(k)
      OBVIOUS
    <3> HIDE DEF x
    <3>2. ASSUME ~torn' PROVE pc = "ready" \/ (pc = "open" /\ ~StillThere)
      BY <1>3, <3>2
    <3> HIDE DEF StillThere
    <3> QED  BY <3>1, <3>2, Zenon
  <2> HIDE DEF x
  <2>4. torn' \in BOOLEAN /\ (torn => torn')
    BY <1>3
  <2> QED  BY <1>2, <2>1, <2>2, <2>3, <2>4, EndKeeps
<1>4. CASE Stop /\ LoseAllBut(Len(buffered)) /\ UNCHANGED torn
  <2>1. pc = "ready" /\ torn' = torn
    BY <1>4 DEF Stop
  <2>2. torn' \in BOOLEAN /\ (torn => torn')
    BY <1>1, <2>1
  <2>3. \E k \in 0..Len(buffered) : LoseAllBut(k)
    BY <1>1, <1>4
  <2> QED  BY <1>3, <2>1, <2>2, <2>3
<1>5. CASE Stop /\ FailsTwice(buffered)
  <2>1. PICK x \in Seq(Bytes) : /\ GoesToFile(x) /\ Len(x) <= 2 * Len(buffered)
                                /\ buffered = <<>> => x = <<>>
                                /\ lost' \subseteq Bytes /\ torn' = TRUE
    BY <1>1, <1>5, FailingTwice
  <2> QED  BY <1>2, <2>1, EndKeeps
<1>6. CASE Crash
  <2>1. \E n \in 0..Len(buffered) : LoseAllBut(n)
    BY <1>6 DEF Crash
  <2>2. /\ torn' = (torn \/ pc \in {"close", "remove"} \/ (pc = "open" /\ StillThere))
        /\ pc # "down"
    BY <1>6 DEF Crash
  <2>3. torn' \in BOOLEAN /\ (torn => torn')
    BY <2>2
  <2>4. ASSUME ~torn' PROVE pc = "ready" \/ (pc = "open" /\ ~StillThere)
    <3>1. ~(pc \in {"close", "remove"}) /\ ~(pc = "open" /\ StillThere)
      BY <2>2, <2>4
    <3> QED  BY <1>1, <2>2, <3>1
  <2> QED  BY <1>3, <2>1, <2>3, <2>4
<1> QED  BY <1>4, <1>5, <1>6 DEF Stop

\* The invariant is inductive ...
LEMMA NextKeeps == IInv /\ [Next]_stVars => IInv'
<1> SUFFICES ASSUME IInv, [Next]_stVars PROVE IInv'
  OBVIOUS
<1>1. CASE UNCHANGED stVars
  BY <1>1 DEF IInv, TypeOK, SizeIsExact, Stream, Bounded, Counted, Order, Contents, Part,
              HeldIn, Rotating, stVars, memVars, histVars
<1> QED  BY <1>1, InitStorageKeeps, InitFailsKeeps, WriteKeeps, WriteFailsKeeps,
            RotateCloseKeeps, RotateRemoveKeeps, RotateOpenKeeps, StopAndCrashKeep
         DEF Next

\* ... and holds in every state.
LEMMA Invariance == Spec => []IInv
BY InitEstablishes, NextKeeps, PTL DEF Spec

-----------------------------------------------------------------------------
(* What follows for the log.                                               *)

\* However long the writes are, however often the program is killed or
\* restarted, and whichever writes, flushes, closes, opens and removals fail,
\* no file exceeds its limit, but for one limit more with each start that could
\* not remove a full file.
THEOREM DiskIsAlwaysBounded == Spec => []DiskIsBounded
<1>1. IInv => DiskIsBounded
  <2> SUFFICES ASSUME IInv PROVE DiskIsBounded
    OBVIOUS
  <2>1. /\ TypeOK /\ SizeIsExact /\ Bounded /\ kept \in Nat /\ (~torn => kept = 0)
    BY DEF IInv, TypeOK, Stream
  <2>2. \A i \in Slots : SizeOf(files[i]) < (kept + 1) * Limit
    <3>1. CASE torn
      <4>1. Limit = Wide
        BY <3>1 DEF Limit, Wide, Longest
      <4> QED  BY <2>1, <4>1 DEF Bounded, Allowed
    <3>2. CASE ~torn
      <4>1. Limit = maxFileSize_ + Longest /\ maxFileSize_ + Longest \in Nat
        BY <3>2, LongestIs, Limits DEF Limit, Longest
      <4>2. (kept + 1) * Limit = maxFileSize_ + Longest
        BY <2>1, <3>2, <4>1
      <4> QED  BY <2>1, <3>2, <4>2 DEF Bounded
    <3> QED  BY <3>1, <3>2
  <2> QED  BY <2>1, <2>2 DEF DiskIsBounded
<1> QED  BY <1>1, Invariance, PTL

\* What a crash can take is always less than the flush threshold, and one write
\* more after a flush that failed.
THEOREM CrashesLoseLittle == Spec => []CrashLosesLittle
<1>1. IInv => CrashLosesLittle
  <2> SUFFICES ASSUME IInv
               PROVE  Len(buffered)
                        < FLUSH_THRESHOLD + (IF bad THEN Max(Lengths) ELSE 0)
    BY DEF CrashLosesLittle
  <2>1. /\ Len(buffered) \in Nat /\ writesSinceFlush_ \in 0..(FLUSH_THRESHOLD - 1)
        /\ bad => Len(buffered) < FLUSH_THRESHOLD + Longest
        /\ ~bad => Len(buffered) <= writesSinceFlush_
    BY LenProperties DEF IInv, TypeOK, Stream
  <2> QED  BY <2>1, Limits DEF Longest
<1> QED  BY <1>1, Invariance, PTL

\* While the module is in use and no fault has torn the log, Contents is what
\* the two properties about order speak of.
LEMMA ReadyIsRing ==
    ASSUME IInv, pc = "ready", ~torn
    PROVE  /\ Ring(Contents, currentFileIndex_, written, lost)
           /\ \A i \in Slots : Contents[i] = Part(i)
           /\ currentFileIndex_ \in Slots /\ written \in Nat
BY ContentsAre DEF IInv, Order, ContentsFacts, TypeOK, Rotating

\* The log is in order after any number of crashes between two writes, restarts
\* and rounds of the files: the scan of init always finds the file that was in
\* use.
THEOREM LogIsAlwaysInOrder == Spec => []LogIsInOrder
<1>1. IInv => LogIsInOrder
  <2> SUFFICES ASSUME IInv, pc = "ready", ~torn
               PROVE  /\ \A i \in Slots : Increasing(Part(i))
                      /\ \A i, j \in Slots : Older(i, j) => Below(Part(i), Part(j))
    BY DEF LogIsInOrder
  <2>1. \A i, j \in Slots : Older(i, j) <=> Before(currentFileIndex_, i, j)
    BY DEF Older, Before
  <2> QED  BY <2>1, ReadyIsRing DEF Ring
<1> QED  BY <1>1, Invariance, PTL

\* Nothing is overwritten before maxFiles_ - 1 full files of younger bytes.
THEOREM OnlyOldBytesEverGo == Spec => []OnlyOldBytesGo
<1>1. IInv => OnlyOldBytesGo
  <2> SUFFICES ASSUME IInv, pc = "ready", ~torn, NEW n \in 1..written
               PROVE  \/ n \in lost \/ \E i \in Slots : n \in ToSet(Part(i))
                      \/ written - n >= (maxFiles_ - 1) * maxFileSize_
    BY DEF OnlyOldBytesGo
  <2>1. \/ n \in lost
        \/ \E i \in Slots : n \in ToSet(Part(i))
        \/ n + Room(maxFiles_ - 1) <= written
    BY ReadyIsRing DEF Ring
  <2>2. Room(maxFiles_ - 1) \in Int /\ written \in Nat
    <3>1. maxFiles_ - 1 \in Int
      BY Limits
    <3> QED  BY <3>1, RoomGrows, ReadyIsRing
  <2>3. n + Room(maxFiles_ - 1) <= written => written - n >= Room(maxFiles_ - 1)
    BY <2>2
  <2> QED  BY <2>1, <2>3 DEF Room
<1> QED  BY <1>1, Invariance, PTL
=============================================================================
