----------------------------- MODULE M5Storage -----------------------------
(***************************************************************************)
(* src/src/platform/m5stack/M5StorageModule.cpp, with the card it writes   *)
(* to, as setup and loop of platformio/src/main.cpp use it: the card is    *)
(* taken out and put back, and the device is switched off and on, at any   *)
(* moment.  The SD library is modelled from this use: a path can be used   *)
(* while SD was begun and the card is in; an open file survives the card's *)
(* removal as a stale one, which takes bytes or refuses them; and while    *)
(* the card is in, a file may not open to append (OpenMayFail), and a file *)
(* or the directory not open to read, or a file not be removed             *)
(* (MaxFailures).  exists, begin, and the size of an open file are true.   *)
(***************************************************************************)
EXTENDS Integers, Sequences, FiniteSetsExt, SequencesExt, Functions

CONSTANTS
    maxFileSize_, maxFiles_, FLUSH_THRESHOLD,
    Lengths,       \* the lengths of the data written
    MaxBytes,      \* bound on the bytes received
    OpenMayFail,   \* the card can be so full that a file cannot be opened
    MaxFailures,   \* bound on the calls in which one cannot be read or removed
    QuickSwap      \* the card can be out and in again between two polls
ASSUME M5Assumption ==
    /\ maxFileSize_ \in Nat \ {0} /\ maxFiles_ \in Nat \ {0}
    /\ FLUSH_THRESHOLD \in Nat \ {0} /\ MaxBytes \in Nat
    /\ Lengths \subseteq Nat \ {0} /\ \E n \in Lengths : \A k \in Lengths : n >= k
    /\ OpenMayFail \in BOOLEAN /\ QuickSwap \in BOOLEAN /\ MaxFailures \in Nat

VARIABLES
    power,      \* "off", or "on" from setup
    card,       \* "in" or "out"
    received,   \* the bytes that came from the UART so far, which number them
    storage_,   \* the controller was given the module
    m           \* the module's members and the SD library's state, one record,
                \* so that the calls within a call compose:
                \*   files    the card's log files: index -> bytes
                \*   begun    SD.begin was called
                \*   file     currentFile_: "none", "good" or "stale"
                \*   cache    bytes written to it that are not on the card
                \*   available, index, size, since, count
                \*            available_, currentFileIndex_, currentFileSize_,
                \*            writesSinceFlush_, cachedFileCount_
                \*   hurt     history: in how many calls a file that was to be
                \*            read or removed was not

storageVars == <<power, card, received, storage_, m>>

\* The module of a device that is switched on, with that card.
Fresh(files, hurt) ==
    [files |-> files, begun |-> FALSE, file |-> "none", cache |-> <<>>,
     available |-> FALSE, index |-> 0, size |-> 0, since |-> 0, count |-> 0,
     hurt |-> hurt]

-----------------------------------------------------------------------------
(* The library.                                                            *)

Usable(s) == s.begun /\ card = "in"
Exists(s, i) == Usable(s) /\ i \in DOMAIN s.files
Removed(s, i) == [s EXCEPT !.files = Restrict(@, DOMAIN @ \ {i})]

\* What else there may be if an access fails.
Hurt(s) == IF s.hurt < MaxFailures THEN {[s EXCEPT !.hurt = @ + 1]} ELSE {}

\* flush and close put what a good file has cached onto the card.
Synced(s) ==
    IF s.file # "good" THEN [s EXCEPT !.cache = <<>>]
    ELSE [s EXCEPT !.files[s.index] = @ \o s.cache, !.cache = <<>>]
Close(s) == [Synced(s) EXCEPT !.file = "none"]

\* Whether a stale file is still one after a flush cannot be relied on.
Flush(s) ==
    {Synced(s)} \cup (IF s.file = "stale" THEN {[s EXCEPT !.file = "none"]} ELSE {})

\* FILE_APPEND: the file is created if there is none.
OpenForAppend(s) ==
    LET files == [i \in DOMAIN s.files \cup {s.index} |->
                    IF i \in DOMAIN s.files THEN s.files[i] ELSE <<>>]
        failed == [s EXCEPT !.file = "none"]
    IN  (IF Usable(s) THEN {[s EXCEPT !.file = "good", !.files = files]}
         ELSE {failed})
        \cup (IF OpenMayFail THEN {failed} ELSE {})

-----------------------------------------------------------------------------
(* The calls, as what they may make of the record.                         *)

\* A call after what may have come before.
Then(before, Call(_)) == UNION {Call(s) : s \in before}

\* A full file of that index is removed, which leaves nothing of it.  One that
\* cannot be read leaves the size as it was; one that cannot be removed is
\* taken for an empty one.
OpenNextFile_Truncates(s0) ==
    LET s == Close(s0) IN Then({[Removed(s, s.index) EXCEPT !.size = 0]}, OpenForAppend)
OpenNextFile(s0) ==
    LET s == Close(s0)
        size == IF Exists(s, s.index) THEN Len(s.files[s.index]) ELSE 0
        full == size >= maxFileSize_
    IN  Then({IF full THEN [Removed(s, s.index) EXCEPT !.size = 0]
              ELSE [s EXCEPT !.size = size]}
             \cup (IF Exists(s, s.index) THEN Hurt(s) ELSE {})
             \cup (IF full THEN Hurt([s EXCEPT !.size = 0]) ELSE {}),
             OpenForAppend)

\* The first index with no file or one that is not full; the last index is
\* never looked into, the first is taken instead.
StopsAt_MissingOnly(s, i) == ~Exists(s, i)
StopsAt(s, i) ==
    \/ ~Exists(s, i)
    \/ i < maxFiles_ - 1 /\ Len(s.files[i]) < maxFileSize_
FirstOf(s, Stops) ==
    IF Stops = {} THEN [s EXCEPT !.index = 0, !.count = maxFiles_]
    ELSE [s EXCEPT !.index = Min(Stops),
                   !.count = IF Exists(s, Min(Stops)) THEN Min(Stops) + 1 ELSE Min(Stops)]

\* Files that cannot be read are passed over, as full ones are.
Scanned(s) ==
    LET Stops == {i \in 0..(maxFiles_ - 1) : StopsAt(s, i)}
        Unread == SUBSET {i \in Stops : Exists(s, i)} \ {{}}
    IN  {FirstOf(s, Stops)} \cup {FirstOf(h, Stops \ u) : h \in Hurt(s), u \in Unread}

InitCard(s) ==
    IF ~s.begun /\ card = "out" THEN {[s EXCEPT !.available = FALSE]}
    ELSE { [o EXCEPT !.available = (o.file # "none")] :
             o \in Then(Scanned([s EXCEPT !.begun = TRUE]), OpenNextFile) }

\* The next index, whose file goes, if it can be removed.
NextFile(s) ==
    LET n == [Close(s) EXCEPT !.index = (@ + 1) % maxFiles_,
                              !.count = Min({@ + 1, maxFiles_}), !.size = 0]
    IN  IF Exists(n, n.index) THEN {Removed(n, n.index)} \cup Hurt(n)
        ELSE {n}
RotateIfNeeded(s) ==
    IF s.size < maxFileSize_ THEN {s} ELSE Then(NextFile(s), OpenForAppend)

Ejected(s) == [s EXCEPT !.available = FALSE, !.count = 0, !.begun = FALSE]

\* With the bytes accepted: the flush that may be due, the check after it, and
\* the rotation.
FlushIfDue_Late(s) ==
    IF s.since <= FLUSH_THRESHOLD THEN {s} ELSE Flush([s EXCEPT !.since = 0])
FlushIfDue(s) ==
    IF s.since < FLUSH_THRESHOLD THEN {s} ELSE Flush([s EXCEPT !.since = 0])
AfterFlush(s) == IF s.file = "none" THEN {Ejected(s)} ELSE RotateIfNeeded(s)

Written(s, bytes, n) ==
    [s EXCEPT !.cache = IF s.file = "good" THEN @ \o bytes ELSE <<>>,
              !.size = @ + n, !.since = @ + n]
Write(s, bytes) ==
    IF ~s.available \/ s.file = "none" THEN {s}
    ELSE LET accepted == {Len(bytes)} \cup IF s.file = "stale" THEN {0} ELSE {}
         IN  Then(Then({Written(s, bytes, n) : n \in accepted}, FlushIfDue), AfterFlush)

\* Every five seconds.  A directory that cannot be read is a card that is gone.
Poll_NoRetry(s) == IF s.available /\ ~Usable(s) THEN {Ejected(Close(s))} ELSE {s}
Poll(s) ==
    IF ~s.available THEN InitCard(s)
    ELSE IF ~Usable(s) THEN {Ejected(Close(s))}
    ELSE {s} \cup (IF MaxFailures > 0 THEN {Ejected(Close(s))} ELSE {})

-----------------------------------------------------------------------------

StorageInit ==
    /\ power = "off" /\ card \in {"in", "out"} /\ received = 0
    /\ storage_ = FALSE /\ m = Fresh(<<>>, 0)

\* setup: the controller is given the module if it is available.
StorageSetup ==
    /\ power = "off" /\ power' = "on"
    /\ m' \in InitCard(m)
    /\ storage_' = m'.available
    /\ UNCHANGED <<card, received>>

\* The UART callback writes what came to the log.
Receive(n) ==
    /\ power = "on" /\ received + n <= MaxBytes
    /\ received' = received + n
    /\ m' \in IF storage_ THEN Write(m, [i \in 1..n |-> received + i]) ELSE {m}
    /\ UNCHANGED <<power, card, storage_>>

LoopPolls ==
    /\ power = "on" /\ m' \in Poll(m)
    /\ UNCHANGED <<power, card, received, storage_>>
LoopTakesUp ==
    /\ power = "on" /\ ~m.available /\ m' \in {s \in Poll(m) : s.available}
    /\ UNCHANGED <<power, card, received, storage_>>

\* Of what is cached, the card may have got a part.
OnCard(k) ==
    IF m.file # "good" THEN m.files
    ELSE [m.files EXCEPT ![m.index] = @ \o SubSeq(m.cache, 1, k)]

EjectCard ==
    /\ card = "in" /\ card' = "out"
    /\ \E k \in 0..Len(m.cache) :
          m' = [m EXCEPT !.files = OnCard(k), !.cache = <<>>,
                         !.file = IF @ = "good" THEN "stale" ELSE @]
    /\ UNCHANGED <<power, received, storage_>>

InsertCard ==
    /\ card = "out" /\ card' = "in"
    /\ QuickSwap \/ ~m.available
    /\ UNCHANGED <<power, received, storage_, m>>

PowerFails ==
    /\ power = "on" /\ power' = "off" /\ storage_' = FALSE
    /\ \E k \in 0..Len(m.cache) : m' = Fresh(OnCard(k), m.hurt)
    /\ UNCHANGED <<card, received>>

\* Within a rotation, before the new file is there.  That the old one is still
\* there is as if it could not be removed.
PowerFailsRotating(n) ==
    /\ power = "on" /\ storage_ /\ m.file = "good" /\ received + n <= MaxBytes
    /\ LET s == Written(m, [i \in 1..n |-> received + i], n)
       IN  /\ s.size >= maxFileSize_
           /\ \E next \in NextFile(s) : m' = Fresh(next.files, next.hurt)
    /\ power' = "off" /\ storage_' = FALSE /\ received' = received + n
    /\ UNCHANGED card

StorageNext ==
    \/ StorageSetup \/ LoopPolls
    \/ \E n \in Lengths : Receive(n) \/ PowerFailsRotating(n)
    \/ EjectCard \/ InsertCard \/ PowerFails

StorageSpec == StorageInit /\ [][StorageNext]_storageVars

\* A device that is off is switched on; the loop runs, and a card that is in
\* again and again when it looks, and can be written to, is so at last.
FairStorageSpec ==
    StorageSpec /\ WF_storageVars(StorageSetup) /\ SF_storageVars(LoopTakesUp)

-----------------------------------------------------------------------------
(* Properties.                                                             *)

StorageTypeOK ==
    /\ m.index \in 0..(maxFiles_ - 1) /\ m.count \in 0..maxFiles_
    /\ DOMAIN m.files \subseteq 0..(maxFiles_ - 1)
    /\ m.file \in {"none", "good", "stale"}
    /\ m.file = "good" => m.begun /\ m.available /\ card = "in"

\* The place of a file in the ring, whose last one is the current.
Place(f) == (f - m.index - 1) % maxFiles_
BytesOf(f) == m.files[f] \o (IF f = m.index THEN m.cache ELSE <<>>)

\* Read in the order of the ring, ending with the file being written, the log
\* is in the order in which the bytes came, none twice, after any number of
\* ejections, insertions and power failures: if poll sees each removal before
\* the card is back (~QuickSwap), and until a file that was to be read or
\* removed was not (hurt).
LogIsInOrder ==
    m.file = "good" /\ m.hurt = 0 =>
        \A f, g \in DOMAIN m.files :
            \A i \in DOMAIN BytesOf(f), j \in DOMAIN BytesOf(g) :
                Place(f) < Place(g) \/ (f = g /\ i < j)
                    => BytesOf(f)[i] < BytesOf(g)[j]

\* The card holds no more than maxFiles_ files of maxFileSize_ each, but for
\* what the last write to each of them was longer, until a file that was to be
\* read or removed was not.
CardIsBounded ==
    m.hurt = 0 =>
        \A i \in DOMAIN m.files :
            Len(m.files[i]) + (IF i = m.index THEN Len(m.cache) ELSE 0)
                < maxFileSize_ + Max(Lengths)

\* An ejection or a power failure loses fewer bytes of those accepted by a
\* good file than the flush threshold, for as long as it is between calls, and
\* whatever failed before.
EjectionLosesLittle == Len(m.cache) < FLUSH_THRESHOLD

\* So what is accepted is on the card but for a few bytes, and fits it.
CardKeepsUp == StorageTypeOK /\ CardIsBounded /\ EjectionLosesLittle

\* Bytes that were on the card leave it only if all bytes that stay are newer:
\* under the same two conditions as LogIsInOrder.
Bytes(files) == UNION {Range(files[i]) : i \in DOMAIN files}
OnlyOldestIsRemoved ==
    [][ m'.hurt = 0 =>
          LET kept == Bytes(m.files')
          IN  \A x \in Bytes(m.files) \ kept : \A y \in kept : x < y ]_storageVars

\* A card that is put in is taken up, if files can be opened on it again and
\* again and it is left in: also one whose ejection was only noticed late, or
\* that was taken for ejected.  A rotation that cannot open the next file is
\* not among these: the module stays available without a file, and poll leaves
\* it so.
CardIsTakenUp ==
    ~m.available ~> (m.file = "good" \/ card = "out")

-----------------------------------------------------------------------------
(* What the documents say and the code does not do.                        *)

\* M5StorageModule.cpp: log storage with hot insert.  So while the module says
\* it is available, what the device sends is logged.
InsertedCardIsUsed == power = "on" /\ m.available => storage_
=============================================================================
