---------------------------- MODULE LinuxStorage ----------------------------
(***************************************************************************)
(* The rotating log of src/src/platform/linux/LinuxStorageModule.cpp on    *)
(* its disk.  Logged bytes are numbered 1, 2, ... in the order in which    *)
(* write got them, so that a file's contents say which bytes it holds.     *)
(* What an ofstream has not flushed yet is lost, in part or in whole, when *)
(* the process is killed; the end of a rotation is several system calls,   *)
(* and the process may be killed between any two of them.                  *)
(* Names that end in _<Word> are faulty variants, as in AutoResponder.     *)
(***************************************************************************)
EXTENDS Integers, Sequences, SequencesExt

CONSTANTS
    maxFileSize_, maxFiles_, FLUSH_THRESHOLD,
    Lengths,      \* the lengths of the data that write may be given
    Faults,       \* what may go wrong: a subset of AllFaults
    MaxWritten,   \* bound on the bytes written
    MaxFaults     \* bound on the faults and restarts

AllFaults == {"crash", "init", "write", "flush", "close", "remove", "open"}

ASSUME StorageAssumption ==
    /\ maxFileSize_ \in Nat \ {0} /\ maxFiles_ \in Nat \ {0}
    /\ FLUSH_THRESHOLD \in Nat \ {0}
    /\ Lengths \subseteq Nat \ {0}
    /\ \E longest \in Lengths : \A n \in Lengths : n <= longest
    /\ MaxWritten \in Nat /\ MaxFaults \in Nat
    /\ Faults \subseteq AllFaults

VARIABLES
    files,              \* per slot, the bytes on disk, or Missing
    pc,                 \* "down", "ready", or the point reached in a rotation
    isOpen, buffered,   \* currentFile_: open or not, bytes not yet flushed
    bad,                \* it is open and a flush of it failed: it takes no more
    currentFileIndex_, currentFileSize_, available_, cachedFileCount_,
    writesSinceFlush_,
    written,            \* history: how many bytes write has accepted
    lost,               \* history: bytes that never reached the disk
    torn,               \* history: a write, flush or close failed, or a rotation
                        \* ended with the next file still there
    kept,               \* history: how many full files were written on because
                        \* they could not be removed
    faults              \* how many faults and restarts there have been

memVars == <<isOpen, buffered, bad, currentFileIndex_, currentFileSize_,
             available_, cachedFileCount_, writesSinceFlush_>>
histVars == <<written, lost, torn, kept>>
stVars == <<files, pc, memVars, histVars, faults>>

Missing == <<-1>>
Slots == 0..(maxFiles_ - 1)
SizeOf(f) == IF f = Missing THEN 0 ELSE Len(f)

\* Memory of a process that has just started.
FreshMemory ==
    /\ isOpen' = FALSE /\ buffered' = <<>> /\ bad' = FALSE
    /\ currentFileIndex_' = 0 /\ currentFileSize_' = 0
    /\ available_' = FALSE /\ cachedFileCount_' = 0 /\ writesSinceFlush_' = 0

Init ==
    /\ files = [i \in Slots |-> Missing]
    /\ pc = "down"
    /\ isOpen = FALSE /\ buffered = <<>> /\ bad = FALSE
    /\ currentFileIndex_ = 0 /\ currentFileSize_ = 0
    /\ available_ = FALSE /\ cachedFileCount_ = 0 /\ writesSinceFlush_ = 0
    /\ written = 0 /\ lost = {} /\ torn = FALSE /\ kept = 0 /\ faults = 0

Fault(f) == f \in Faults /\ faults < MaxFaults /\ faults' = faults + 1

GoesToFile(bytes) == files' = [files EXCEPT ![currentFileIndex_] = @ \o bytes]

\* n of the unflushed bytes reach the disk after all, the rest are lost.
LoseAllBut(n) ==
    /\ GoesToFile(SubSeq(buffered, 1, n))
    /\ lost' = lost \cup ToSet(SubSeq(buffered, n + 1, Len(buffered)))

\* Writing out these bytes fails.  The stream does not know what got to the
\* disk and keeps them all; closing it tries again with as many as it can.
FailsTwice(bytes) ==
    /\ \E k, l \in 0..Len(bytes) :
          GoesToFile(SubSeq(bytes, 1, k) \o SubSeq(bytes, 1, l))
    /\ lost' = lost \cup ToSet(bytes)
    /\ torn' = TRUE

-----------------------------------------------------------------------------
(* init, with openNextFile.                                                *)

\* The slots that the scan passes over: existing and full.
Full(i) == files[i] # Missing /\ Len(files[i]) >= maxFileSize_

\* The scan stops at the first slot that is missing or not full, or falls
\* back to slot 0.
ScanIndex_MissingOnly ==
    IF \A i \in Slots : files[i] # Missing THEN 0
    ELSE CHOOSE i \in Slots :
            files[i] = Missing /\ \A j \in Slots : j < i => files[j] # Missing
ScanIndex ==
    IF \A i \in Slots : Full(i) THEN 0
    ELSE CHOOSE i \in Slots : ~Full(i) /\ \A j \in Slots : j < i => Full(j)

ScanCount ==
    IF \A i \in Slots : Full(i) THEN maxFiles_
    ELSE IF files[ScanIndex] = Missing THEN ScanIndex ELSE ScanIndex + 1

\* Opened to append, after a full file has been removed; one that cannot be
\* removed is taken for an empty one.
OpenNextFile_Truncate(i) ==
    /\ files' = [files EXCEPT ![i] = <<>>]
    /\ currentFileSize_' = 0 /\ UNCHANGED <<kept, faults>>
OpenNextFile_ForgetSize(i) ==
    /\ files' = [files EXCEPT ![i] = IF @ = Missing \/ Full(i) THEN <<>> ELSE @]
    /\ currentFileSize_' = 0 /\ UNCHANGED <<kept, faults>>
OpenNextFile(i) ==
    \/ /\ Full(i) \/ files[i] = Missing
       /\ files' = [files EXCEPT ![i] = <<>>]
       /\ currentFileSize_' = 0 /\ UNCHANGED <<kept, faults>>
    \/ /\ Full(i) /\ Fault("remove")
       /\ currentFileSize_' = 0 /\ kept' = kept + 1 /\ UNCHANGED files
    \/ /\ ~Full(i) /\ files[i] # Missing
       /\ currentFileSize_' = Len(files[i]) /\ UNCHANGED <<files, kept, faults>>

InitStorage ==
    /\ pc = "down"
    /\ pc' = "ready"
    /\ currentFileIndex_' = ScanIndex
    /\ cachedFileCount_' = ScanCount
    /\ OpenNextFile(ScanIndex)
    /\ isOpen' = TRUE /\ available_' = TRUE
    /\ UNCHANGED <<buffered, bad, writesSinceFlush_, written, lost, torn>>

\* The directory cannot be created or the file not opened: the program goes
\* on without storage, which is as good as not running.
InitFails ==
    /\ pc = "down" /\ Fault("init")
    /\ \/ UNCHANGED files
       \/ Full(ScanIndex) /\ files' = [files EXCEPT ![ScanIndex] = Missing]
    /\ UNCHANGED <<pc, memVars, histVars>>

-----------------------------------------------------------------------------
(* write, with rotateIfNeeded.                                             *)

Numbered(n) == [i \in 1..n |-> written + i]

FlushIfDue_Never(pending, due) ==
    /\ buffered' = pending /\ writesSinceFlush_' = due
    /\ UNCHANGED <<files, bad, torn, faults>>
FlushIfDue(pending, due) ==
    \/ /\ due < FLUSH_THRESHOLD
       /\ buffered' = pending /\ writesSinceFlush_' = due
       /\ UNCHANGED <<files, bad, torn, faults>>
    \/ /\ due >= FLUSH_THRESHOLD
       /\ GoesToFile(pending)
       /\ buffered' = <<>> /\ writesSinceFlush_' = 0
       /\ UNCHANGED <<bad, torn, faults>>
    \/ /\ due >= FLUSH_THRESHOLD /\ Fault("flush")
       /\ \E k \in 0..Len(pending) : GoesToFile(SubSeq(pending, 1, k))
       /\ buffered' = pending /\ writesSinceFlush_' = 0
       /\ bad' = TRUE /\ torn' = TRUE

Writable(n) ==
    /\ pc = "ready" /\ available_ /\ isOpen
    /\ written + n <= MaxWritten

\* A flush that fails goes unnoticed, until the next write.
Write(n) ==
    /\ Writable(n) /\ ~bad
    /\ written' = written + n
    /\ currentFileSize_' = currentFileSize_ + n
    /\ FlushIfDue(buffered \o Numbered(n), writesSinceFlush_ + n)
    /\ pc' = IF currentFileSize_ + n >= maxFileSize_ THEN "close" ELSE "ready"
    /\ UNCHANGED <<isOpen, currentFileIndex_, available_, cachedFileCount_,
                   lost, kept>>

\* The stream reports a failure, of this write or of the last flush, and is
\* closed.
WriteFails(n) ==
    /\ Writable(n)
    /\ \/ ~bad /\ Fault("write") /\ FailsTwice(buffered \o Numbered(n))
       \/ /\ bad /\ torn' = TRUE /\ UNCHANGED faults
          /\ \E k \in 0..Len(buffered) : LoseAllBut(k)
    /\ written' = written + n
    /\ buffered' = <<>> /\ bad' = FALSE
    /\ available_' = FALSE /\ isOpen' = FALSE
    /\ UNCHANGED <<pc, currentFileIndex_, currentFileSize_, cachedFileCount_,
                   writesSinceFlush_, kept>>

NextCount(n) == Min({n + 1, maxFiles_})

\* rotateIfNeeded: close the full file, which may fail unnoticed, and move to
\* the next slot ...
RotateClose ==
    /\ pc = "close"
    /\ \E k \in 0..Len(buffered) :
          /\ LoseAllBut(k)
          /\ torn' = (torn \/ k < Len(buffered))
          /\ IF k = Len(buffered) \/ bad THEN UNCHANGED faults ELSE Fault("close")
    /\ buffered' = <<>> /\ bad' = FALSE /\ isOpen' = FALSE
    /\ currentFileIndex_' = (currentFileIndex_ + 1) % maxFiles_
    /\ cachedFileCount_' = NextCount(cachedFileCount_)
    /\ pc' = "remove"
    /\ UNCHANGED <<currentFileSize_, available_, writesSinceFlush_, written, kept>>

\* ... remove what that slot held, or try to ...
RotateRemove ==
    /\ pc = "remove"
    /\ \/ files' = [files EXCEPT ![currentFileIndex_] = Missing] /\ UNCHANGED faults
       \/ Fault("remove") /\ UNCHANGED files
    /\ pc' = "open"
    /\ UNCHANGED <<memVars, histVars>>

\* ... and open it afresh, which leaves nothing of it.
RotateOpen ==
    /\ pc = "open"
    /\ files' = [files EXCEPT ![currentFileIndex_] = <<>>]
    /\ currentFileSize_' = 0
    /\ isOpen' = TRUE
    /\ pc' = "ready"
    /\ UNCHANGED <<buffered, bad, currentFileIndex_, available_,
                   cachedFileCount_, writesSinceFlush_, histVars, faults>>

StillThere == files[currentFileIndex_] # Missing
RotateOpenFails ==
    /\ pc = "open" /\ Fault("open")
    /\ torn' = (torn \/ StillThere)
    /\ currentFileSize_' = 0
    /\ pc' = "ready"
    /\ UNCHANGED <<files, isOpen, buffered, bad, currentFileIndex_, available_,
                   cachedFileCount_, writesSinceFlush_, written, lost, kept>>

-----------------------------------------------------------------------------
(* The process ends.                                                       *)

\* The destructor flushes and closes, whether or not the disk takes it.
Stop ==
    /\ pc = "ready" /\ faults < MaxFaults /\ faults' = faults + 1
    /\ \/ LoseAllBut(Len(buffered)) /\ UNCHANGED torn
       \/ (bad \/ "flush" \in Faults) /\ FailsTwice(buffered)
    /\ FreshMemory
    /\ pc' = "down"
    /\ UNCHANGED <<written, kept>>

Crash ==
    /\ Fault("crash")
    /\ pc # "down"
    /\ torn' = (torn \/ pc \in {"close", "remove"} \/ (pc = "open" /\ StillThere))
    /\ \E n \in 0..Len(buffered) : LoseAllBut(n)
    /\ FreshMemory
    /\ pc' = "down"
    /\ UNCHANGED <<written, kept>>

Next ==
    \/ InitStorage \/ InitFails
    \/ \E n \in Lengths : Write(n) \/ WriteFails(n)
    \/ RotateClose \/ RotateRemove \/ RotateOpen \/ RotateOpenFails
    \/ Stop \/ Crash

Spec == Init /\ [][Next]_stVars

-----------------------------------------------------------------------------
(* Properties.                                                             *)
(* What a failed write, flush or close or a cut-off rotation leaves behind *)
(* has no order to keep (torn): the two properties about order leave it    *)
(* out.                                                                    *)

TypeOK ==
    /\ files \in [Slots -> Seq(1..MaxWritten) \cup {Missing}]
    /\ pc \in {"down", "ready", "close", "remove", "open"}
    /\ isOpen \in BOOLEAN /\ available_ \in BOOLEAN
    /\ buffered \in Seq(1..MaxWritten) /\ bad \in BOOLEAN
    /\ currentFileIndex_ \in Slots
    /\ currentFileSize_ \in Nat
    /\ cachedFileCount_ \in 0..maxFiles_
    /\ writesSinceFlush_ \in 0..(FLUSH_THRESHOLD - 1)
    /\ written \in 0..MaxWritten
    /\ lost \subseteq 1..MaxWritten
    /\ torn \in BOOLEAN /\ kept \in Nat
    /\ faults \in 0..MaxFaults

\* Unless a flush failed or a full file could not be removed, the size that
\* decides when to rotate is the size that the current file has on disk and in
\* the stream together, also after a restart that resumed a partly filled file.
SizeIsExact ==
    isOpen /\ ~bad /\ kept = 0 =>
        /\ files[currentFileIndex_] # Missing
        /\ currentFileSize_ = Len(files[currentFileIndex_]) + Len(buffered)

\* By how much a file may exceed the limit: by less than one write, unless
\* what was in the stream got to the disk more than once.
Limit ==
    IF torn THEN maxFileSize_ + 2 * FLUSH_THRESHOLD + 3 * Max(Lengths)
    ELSE maxFileSize_ + Max(Lengths)

\* The log takes a bounded part of the disk: no more files than there may be,
\* none of which exceeds its limit, whatever else fails, but for one limit more
\* with each start that could not remove a full file and wrote on in it.
DiskIsBounded ==
    /\ TypeOK /\ SizeIsExact
    /\ \A i \in Slots : SizeOf(files[i]) < (kept + 1) * Limit

\* A crash between two writes loses fewer bytes than the flush threshold, or,
\* after a flush that failed, than the threshold and one write.
CrashLosesLittle ==
    pc = "ready" =>
        Len(buffered) < FLUSH_THRESHOLD + (IF bad THEN Max(Lengths) ELSE 0)

\* Slot j was opened after slot i: the slots are used in a ring, of which the
\* current one is the last.
Older(i, j) ==
    IF j <= currentFileIndex_ THEN i > currentFileIndex_ \/ i < j
    ELSE currentFileIndex_ < i /\ i < j
HeldIn(i) == IF files[i] = Missing THEN <<>> ELSE files[i]

\* What the log has of a slot: also what has not reached the disk.
Part(i) == HeldIn(i) \o (IF i = currentFileIndex_ THEN buffered ELSE <<>>)

Increasing(s) == \A i \in 1..(Len(s) - 1) : s[i] < s[i + 1]
Below(s, t) == \A a \in ToSet(s), b \in ToSet(t) : a < b

\* Read from the slot after the current one round to the current one, the log
\* holds its bytes in the order in which they were written, none twice.
LogIsInOrder ==
    pc = "ready" /\ ~torn =>
        /\ \A i \in Slots : Increasing(Part(i))
        /\ \A i, j \in Slots : Older(i, j) => Below(Part(i), Part(j))

\* Only old bytes are overwritten: a byte that was written and is no longer
\* there, other than by a fault, is followed by at least maxFiles_ - 1 full
\* files of younger bytes.
OnlyOldBytesGo ==
    pc = "ready" /\ ~torn =>
        \A n \in 1..written :
            \/ n \in lost \/ \E i \in Slots : n \in ToSet(Part(i))
            \/ written - n >= (maxFiles_ - 1) * maxFileSize_

-----------------------------------------------------------------------------
(* What the documents say and the code does not do.                        *)

\* StorageModule.h: isAvailable returns true if storage is ready for writing.
AvailableIsWritable == pc = "ready" /\ available_ => isOpen
=============================================================================
