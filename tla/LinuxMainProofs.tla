-------------------------- MODULE LinuxMainProofs --------------------------
(***************************************************************************)
(* What holds of the Linux program for any number of descriptors, whatever *)
(* fails, whenever a signal or a client comes and whatever becomes of the  *)
(* device: callbacks find their objects, the threads use no descriptor but *)
(* their own, an open port is read, nothing is left when the program ends, *)
(* and whatever file it finds is understood as it was meant.               *)
(***************************************************************************)
EXTENDS LinuxMain, SequenceTheorems, WellFoundedInduction, TLAPS

-----------------------------------------------------------------------------
(* The inductive invariant.                                                *)

\* What startup does when it fails: each failure enters it where there is
\* something to undo.
UnwindScript == TelnetStop \o CloseUart \o <<"wifi.disconnect", "failed">>

\* Of a script, the statements from the k-th on are still to be executed.
Left(script, k) == todo = SubSeq(script, k, Len(script))

Idle == readerPc \in {"none", "done"}
Calling == clientPc \in {"callback", "write"}

\* Who holds a descriptor.
Table ==
    /\ fd_ \in Fds \cup {NoFd}
    /\ table \in [Fds -> {"free", "uart", "server", "client"}]
    /\ \A f \in Fds :
          /\ table[f] = "uart" => f = fd_
          /\ table[f] \in {"server", "client"} => telnet
          /\ table[f] = "client" => clientPc # "away" /\ f = clientFd
    /\ telnet /\ clientPc # "away" =>
          clientFd \in Fds /\ table[clientFd] = "client"

\* The read loop runs on a thread that will be joined; a descriptor that it
\* loaded is the port's, or was, and then nobody else is given descriptors.
Reading ==
    /\ readerPc \in
          {"none", "check", "load", "call", "read", "callback", "broadcast",
           "done"}
    /\ ~Idle => joinable /\ responder = "configured"
    /\ running_ \in BOOLEAN /\ (running_ => joinable)
    /\ ~terminated
    /\ readerPc = "call" =>
          /\ currentFd \in Fds
          /\ \/ table[currentFd] = "uart"
             \/ table[currentFd] = "free" /\ ~telnet

\* The client is in its callback only when that is wired.
Client ==
    /\ clientPc \in {"away", "reading", "callback", "write"}
    /\ responder \in {"none", "alive", "configured", "destroyed"}
    /\ onClientData_ /\ telnet => responder = "configured"
    /\ Calling => onClientData_ /\ responder = "configured"
    /\ clientPc = "write" /\ ~supervised => fd_ # NoFd /\ table[fd_] = "uart"

\* The port: open; open no more, but fd_ still says so; not open.
Opened == fd_ # NoFd /\ table[fd_] = "uart"
Stale == \A f \in Fds : table[f] # "uart"
MaybeOpened == fd_ = NoFd \/ Opened

\* Before the read loop is started.
Unread == ~callback_ /\ ~running_ /\ ~joinable /\ readerPc = "none"

\* An open port is read: every test of the read loop goes well.
Attended ==
    fd_ # NoFd /\ attached =>
        /\ running_ /\ ~Idle
        /\ readerPc = "call" => currentFd = fd_

Started ==
    wifi /\ telnet /\ onClientData_ /\ callback_ /\ responder = "configured"

Nothing ==
    /\ fd_ = NoFd /\ ~joinable /\ Idle
    /\ ~wifi /\ ~telnet /\ clientPc = "away"

\* How far the main thread is, and what it has done by then.
Beginning ==
    /\ phase = "begin"
    /\ todo \in {<<"parse">>, <<"create">>, <<"storage.init">>, <<"exit">>}
    /\ Nothing /\ Unread /\ ~onClientData_

Starting(k) ==
    /\ phase = "startup" /\ Left(StartupScript, k)
    /\ wifi <=> k > 2
    /\ IF k > 3 THEN Opened ELSE fd_ = NoFd
    /\ telnet <=> k > 6
    /\ ~telnet => clientPc = "away"
    /\ responder = IF k > 8 THEN "configured" ELSE "alive"
    /\ IF k > 9 THEN callback_ /\ Attended ELSE Unread
    /\ onClientData_ <=> k > 10

Unwinding(k) ==
    /\ phase = "startup" /\ Left(UnwindScript, k)
    /\ telnet => k = 1
    /\ clientPc # "away" => k <= 2
    /\ ~onClientData_ /\ Unread
    /\ IF k > 5 THEN fd_ = NoFd ELSE IF k = 5 THEN Stale ELSE MaybeOpened
    /\ wifi => k <= 7

Looping ==
    /\ phase = "loop" /\ todo \in {<<>>, <<"update">>}
    /\ Started /\ MaybeOpened /\ Attended

\* Only when the read loop has ended is the port reopened.
Reopening(k) ==
    /\ phase = "loop" /\ Left(Reopen, k) /\ supervised
    /\ Started /\ Idle
    /\ k > 1 => ~running_
    /\ k > 4 => ~joinable
    /\ IF k = 3 THEN Stale
       ELSE IF k \in 4..5 THEN fd_ = NoFd
       ELSE IF k > 5 THEN Opened ELSE MaybeOpened

ShuttingDown(k) ==
    /\ phase = "shutdown" /\ Left(ShutdownScript, k)
    /\ telnet => k <= 2
    /\ clientPc # "away" => k <= 3
    /\ k > 4 => ~running_
    /\ IF k > 6 THEN fd_ = NoFd ELSE IF k = 6 THEN Stale ELSE MaybeOpened
    /\ k > 7 => ~joinable
    /\ wifi => k <= 8

Destroying(k) ==
    phase \in {"failed", "stopped"} /\ Left(DestroyScript, k) /\ Nothing

Exited == phase = "exited" /\ todo = <<>> /\ Nothing

Where ==
    \/ Beginning
    \/ \E k \in 1..11 : Starting(k)
    \/ \E k \in 1..8 : Unwinding(k)
    \/ Looping
    \/ \E k \in 1..7 : Reopening(k)
    \/ \E k \in 1..9 : ShuttingDown(k)
    \/ \E k \in 1..10 : Destroying(k)
    \/ Exited

IInv == Table /\ Reading /\ Client /\ Where

-----------------------------------------------------------------------------
(* The scripts, statement by statement.                                    *)

Statement ==
    {"display.init", "wifi.connect", "open", "configure", "start.reader",
     "telnet.start", "http.start", "setConfig", "wire.uart", "wire.telnet",
     "started", "telnet.close", "telnet.join", "running=false", "close.fd",
     "fd=-1", "join", "wifi.disconnect", "failed", "http.stop", "leave",
     "~responder", "~storage", "~display", "exit"}

\* Two lists of statements, one after the other.
Joins(u, s, t) ==
    /\ u \in Seq(Statement) /\ Len(u) = Len(s) + Len(t)
    /\ \A i \in 1..(Len(s) + Len(t)) :
          u[i] = IF i <= Len(s) THEN s[i] ELSE t[i - Len(s)]

LEMMA Joined == \A s, t \in Seq(Statement) : Joins(s \o t, s, t)
BY ConcatProperties DEF Joins

\* The calls.
LEMMA CallsAre ==
    /\ OpenUart \in Seq(Statement) /\ Len(OpenUart) = 3
    /\ OpenUart[1] = "open" /\ OpenUart[2] = "configure"
    /\ OpenUart[3] = "start.reader"
    /\ CloseUart \in Seq(Statement) /\ Len(CloseUart) = 4
    /\ CloseUart[1] = "running=false" /\ CloseUart[2] = "close.fd"
    /\ CloseUart[3] = "fd=-1" /\ CloseUart[4] = "join"
    /\ TelnetStop \in Seq(Statement) /\ Len(TelnetStop) = 2
    /\ TelnetStop[1] = "telnet.close" /\ TelnetStop[2] = "telnet.join"
BY DEF OpenUart, CloseUart, TelnetStop, Statement

LEMMA StartupScriptIs ==
    /\ StartupScript \in Seq(Statement) /\ Len(StartupScript) = 11
    /\ StartupScript[1] = "display.init" /\ StartupScript[2] = "wifi.connect"
    /\ StartupScript[3] = "open" /\ StartupScript[4] = "configure"
    /\ StartupScript[5] = "start.reader" /\ StartupScript[6] = "telnet.start"
    /\ StartupScript[7] = "http.start" /\ StartupScript[8] = "setConfig"
    /\ StartupScript[9] = "wire.uart" /\ StartupScript[10] = "wire.telnet"
    /\ StartupScript[11] = "started"
<1> DEFINE a == <<"display.init", "wifi.connect">>
           b == <<"telnet.start", "http.start", "setConfig", "wire.uart",
                  "wire.telnet", "started">>
<1>1. /\ a \in Seq(Statement) /\ Len(a) = 2
      /\ a[1] = "display.init" /\ a[2] = "wifi.connect"
  BY DEF Statement
<1>2. /\ b \in Seq(Statement) /\ Len(b) = 6
      /\ b[1] = "telnet.start" /\ b[2] = "http.start"
      /\ b[3] = "setConfig" /\ b[4] = "wire.uart"
      /\ b[5] = "wire.telnet" /\ b[6] = "started"
  BY DEF Statement
<1>3. StartupScript = (a \o OpenUart) \o b
  BY DEF StartupScript
<1> HIDE DEF a, b
<1>4. PICK u : u = a \o OpenUart
  OBVIOUS
<1>5. /\ u \in Seq(Statement) /\ Len(u) = 5
      /\ \A i \in 1..5 :
            u[i] = IF i <= 2 THEN a[i] ELSE OpenUart[i - 2]
  <2>1. Joins(u, a, OpenUart)
    BY <1>1, <1>2, <1>4, CallsAre, Joined
  <2> QED  BY <1>1, <1>2, CallsAre, <2>1 DEF Joins
<1>6. StartupScript = u \o b
  BY <1>3, <1>4
<1>7. /\ StartupScript \in Seq(Statement) /\ Len(StartupScript) = 11
      /\ \A i \in 1..11 :
            StartupScript[i] = IF i <= 5 THEN u[i] ELSE b[i - 5]
  <2>1. Joins(StartupScript, u, b)
    BY <1>1, <1>2, <1>5, <1>6, CallsAre, Joined
  <2> QED  BY <1>1, <1>2, <1>5, CallsAre, <2>1 DEF Joins
<1> QED  BY <1>1, <1>2, <1>5, <1>7, CallsAre

LEMMA UnwindScriptIs ==
    /\ UnwindScript \in Seq(Statement) /\ Len(UnwindScript) = 8
    /\ UnwindScript[1] = "telnet.close" /\ UnwindScript[2] = "telnet.join"
    /\ UnwindScript[3] = "running=false" /\ UnwindScript[4] = "close.fd"
    /\ UnwindScript[5] = "fd=-1" /\ UnwindScript[6] = "join"
    /\ UnwindScript[7] = "wifi.disconnect" /\ UnwindScript[8] = "failed"
<1> DEFINE a == <<"wifi.disconnect", "failed">>
<1>1. /\ a \in Seq(Statement) /\ Len(a) = 2
      /\ a[1] = "wifi.disconnect" /\ a[2] = "failed"
  BY DEF Statement
<1>2. UnwindScript = (TelnetStop \o CloseUart) \o a
  BY DEF UnwindScript
<1> HIDE DEF a
<1>3. PICK u : u = TelnetStop \o CloseUart
  OBVIOUS
<1>4. /\ u \in Seq(Statement) /\ Len(u) = 6
      /\ \A i \in 1..6 :
            u[i] = IF i <= 2 THEN TelnetStop[i] ELSE CloseUart[i - 2]
  <2>1. Joins(u, TelnetStop, CloseUart)
    BY <1>1, <1>3, CallsAre, Joined
  <2> QED  BY <1>1, CallsAre, <2>1 DEF Joins
<1>5. UnwindScript = u \o a
  BY <1>2, <1>3
<1>6. /\ UnwindScript \in Seq(Statement) /\ Len(UnwindScript) = 8
      /\ \A i \in 1..8 :
            UnwindScript[i] = IF i <= 6 THEN u[i] ELSE a[i - 6]
  <2>1. Joins(UnwindScript, u, a)
    BY <1>1, <1>4, <1>5, CallsAre, Joined
  <2> QED  BY <1>1, <1>4, CallsAre, <2>1 DEF Joins
<1> QED  BY <1>1, <1>4, <1>6, CallsAre

LEMMA ReopenIs ==
    /\ Reopen \in Seq(Statement) /\ Len(Reopen) = 7
    /\ Reopen[1] = "running=false" /\ Reopen[2] = "close.fd"
    /\ Reopen[3] = "fd=-1" /\ Reopen[4] = "join"
    /\ Reopen[5] = "open" /\ Reopen[6] = "configure"
    /\ Reopen[7] = "start.reader"
<1>1. Reopen = CloseUart \o OpenUart
  BY DEF Reopen
<1>2. /\ Reopen \in Seq(Statement) /\ Len(Reopen) = 7
      /\ \A i \in 1..7 :
            Reopen[i] = IF i <= 4 THEN CloseUart[i] ELSE OpenUart[i - 4]
  <2>1. Joins(Reopen, CloseUart, OpenUart)
    BY <1>1, CallsAre, Joined
  <2> QED  BY CallsAre, <2>1 DEF Joins
<1> QED  BY <1>2, CallsAre

LEMMA ShutdownScriptIs ==
    /\ ShutdownScript \in Seq(Statement) /\ Len(ShutdownScript) = 9
    /\ ShutdownScript[1] = "http.stop" /\ ShutdownScript[2] = "telnet.close"
    /\ ShutdownScript[3] = "telnet.join" /\ ShutdownScript[4] = "running=false"
    /\ ShutdownScript[5] = "close.fd" /\ ShutdownScript[6] = "fd=-1"
    /\ ShutdownScript[7] = "join" /\ ShutdownScript[8] = "wifi.disconnect"
    /\ ShutdownScript[9] = "leave"
<1> DEFINE a == <<"http.stop">>
           b == <<"wifi.disconnect", "leave">>
<1>1. /\ a \in Seq(Statement) /\ Len(a) = 1
      /\ a[1] = "http.stop"
  BY DEF Statement
<1>2. /\ b \in Seq(Statement) /\ Len(b) = 2
      /\ b[1] = "wifi.disconnect" /\ b[2] = "leave"
  BY DEF Statement
<1>3. ShutdownScript = ((a \o TelnetStop) \o CloseUart) \o b
  BY DEF ShutdownScript
<1> HIDE DEF a, b
<1>4. PICK u : u = a \o TelnetStop
  OBVIOUS
<1>5. /\ u \in Seq(Statement) /\ Len(u) = 3
      /\ \A i \in 1..3 :
            u[i] = IF i <= 1 THEN a[i] ELSE TelnetStop[i - 1]
  <2>1. Joins(u, a, TelnetStop)
    BY <1>1, <1>2, <1>4, CallsAre, Joined
  <2> QED  BY <1>1, <1>2, CallsAre, <2>1 DEF Joins
<1>6. PICK v : v = u \o CloseUart
  OBVIOUS
<1>7. /\ v \in Seq(Statement) /\ Len(v) = 7
      /\ \A i \in 1..7 :
            v[i] = IF i <= 3 THEN u[i] ELSE CloseUart[i - 3]
  <2>1. Joins(v, u, CloseUart)
    BY <1>1, <1>2, <1>5, <1>6, CallsAre, Joined
  <2> QED  BY <1>1, <1>2, <1>5, CallsAre, <2>1 DEF Joins
<1>8. ShutdownScript = v \o b
  BY <1>3, <1>4, <1>6
<1>9. /\ ShutdownScript \in Seq(Statement) /\ Len(ShutdownScript) = 9
      /\ \A i \in 1..9 :
            ShutdownScript[i] = IF i <= 7 THEN v[i] ELSE b[i - 7]
  <2>1. Joins(ShutdownScript, v, b)
    BY <1>1, <1>2, <1>7, <1>8, CallsAre, Joined
  <2> QED  BY <1>1, <1>2, <1>7, CallsAre, <2>1 DEF Joins
<1> QED  BY <1>1, <1>2, <1>5, <1>7, <1>9, CallsAre

LEMMA DestroyScriptIs ==
    /\ DestroyScript \in Seq(Statement) /\ Len(DestroyScript) = 10
    /\ DestroyScript[1] = "~responder" /\ DestroyScript[2] = "~storage"
    /\ DestroyScript[3] = "~display" /\ DestroyScript[4] = "telnet.close"
    /\ DestroyScript[5] = "telnet.join" /\ DestroyScript[6] = "running=false"
    /\ DestroyScript[7] = "close.fd" /\ DestroyScript[8] = "fd=-1"
    /\ DestroyScript[9] = "join" /\ DestroyScript[10] = "exit"
<1> DEFINE a == <<"~responder", "~storage", "~display">>
           b == <<"exit">>
<1>1. /\ a \in Seq(Statement) /\ Len(a) = 3
      /\ a[1] = "~responder" /\ a[2] = "~storage"
      /\ a[3] = "~display"
  BY DEF Statement
<1>2. /\ b \in Seq(Statement) /\ Len(b) = 1
      /\ b[1] = "exit"
  BY DEF Statement
<1>3. DestroyScript = ((a \o TelnetStop) \o CloseUart) \o b
  BY DEF DestroyScript
<1> HIDE DEF a, b
<1>4. PICK u : u = a \o TelnetStop
  OBVIOUS
<1>5. /\ u \in Seq(Statement) /\ Len(u) = 5
      /\ \A i \in 1..5 :
            u[i] = IF i <= 3 THEN a[i] ELSE TelnetStop[i - 3]
  <2>1. Joins(u, a, TelnetStop)
    BY <1>1, <1>2, <1>4, CallsAre, Joined
  <2> QED  BY <1>1, <1>2, CallsAre, <2>1 DEF Joins
<1>6. PICK v : v = u \o CloseUart
  OBVIOUS
<1>7. /\ v \in Seq(Statement) /\ Len(v) = 9
      /\ \A i \in 1..9 :
            v[i] = IF i <= 5 THEN u[i] ELSE CloseUart[i - 5]
  <2>1. Joins(v, u, CloseUart)
    BY <1>1, <1>2, <1>5, <1>6, CallsAre, Joined
  <2> QED  BY <1>1, <1>2, <1>5, CallsAre, <2>1 DEF Joins
<1>8. DestroyScript = v \o b
  BY <1>3, <1>4, <1>6
<1>9. /\ DestroyScript \in Seq(Statement) /\ Len(DestroyScript) = 10
      /\ \A i \in 1..10 :
            DestroyScript[i] = IF i <= 9 THEN v[i] ELSE b[i - 9]
  <2>1. Joins(DestroyScript, v, b)
    BY <1>1, <1>2, <1>7, <1>8, CallsAre, Joined
  <2> QED  BY <1>1, <1>2, <1>7, CallsAre, <2>1 DEF Joins
<1> QED  BY <1>1, <1>2, <1>5, <1>7, <1>9, CallsAre

-----------------------------------------------------------------------------
(* Going through a script.                                                 *)

\* The next statement, and what is left after it.
LEMMA Proceeds ==
    ASSUME NEW s \in Seq(Statement), NEW k \in 1..Len(s), Left(s, k)
    PROVE  /\ todo # <<>> /\ Head(todo) = s[k]
           /\ Tail(todo) = SubSeq(s, k + 1, Len(s))
<1>1. Len(s) \in Nat /\ k \in Int /\ Len(s) \in k..Len(s)
  BY LenProperties
<1>2. \A i \in k..Len(s) : s[i] \in Statement
  BY <1>1, ElementOfSeq
<1>3. Len(todo) = Len(s) - k + 1
  BY <1>1, <1>2, SubSeqProperties DEF Left
<1>4. Head(todo) = s[k] /\ Tail(todo) = SubSeq(s, k + 1, Len(s))
  BY <1>1, HeadTailOfSubSeq DEF Left
<1>5. todo # <<>>
  BY <1>1, <1>3
<1> QED  BY <1>4, <1>5

\* The first statement, and none.
LEMMA AllIsLeft ==
    ASSUME NEW s \in Seq(Statement)
    PROVE  s = SubSeq(s, 1, Len(s)) /\ SubSeq(s, Len(s) + 1, Len(s)) = <<>>
BY SubSeqFull, SubSeqEmpty, LenProperties

\* A failure enters the list of what is undone where there is something to
\* undo.
LEMMA Entered ==
    ASSUME NEW k \in 1..8, NEW w \in Seq(Statement), Len(w) = 9 - k,
           \A i \in 1..9 - k : w[i] = UnwindScript[k + i - 1]
    PROVE  w = SubSeq(UnwindScript, k, Len(UnwindScript))
<1>1. \A i \in k..8 : UnwindScript[i] \in Statement
  <2>1. \A i \in k..8 : i \in 1..Len(UnwindScript)
    BY UnwindScriptIs
  <2> QED  BY <2>1, UnwindScriptIs, ElementOfSeq
<1>2. PICK t : t = SubSeq(UnwindScript, k, 8)
  OBVIOUS
<1>3. /\ t \in Seq(Statement) /\ Len(t) = 9 - k
      /\ \A i \in 1..8 - k + 1 : t[i] = UnwindScript[k + i - 1]
  BY <1>1, <1>2, SubSeqProperties
<1>4. Len(w) = Len(t) /\ \A i \in 1..Len(w) : w[i] = t[i]
  BY <1>3
<1>5. w = t
  BY <1>3, <1>4, SeqEqual
<1> QED  BY <1>2, <1>5, UnwindScriptIs

LEMMA UnwindIs ==
    /\ Unwind("http.start") = SubSeq(UnwindScript, 1, Len(UnwindScript))
    /\ Unwind("telnet.start") = SubSeq(UnwindScript, 3, Len(UnwindScript))
    /\ Unwind("open") = SubSeq(UnwindScript, 7, Len(UnwindScript))
    /\ Unwind("wifi.connect") = SubSeq(UnwindScript, 8, Len(UnwindScript))
<1> DEFINE a == <<"wifi.disconnect">>
           b == <<"failed">>
           none == <<>>
<1>1. /\ a \in Seq(Statement) /\ Len(a) = 1 /\ a[1] = "wifi.disconnect"
      /\ b \in Seq(Statement) /\ Len(b) = 1 /\ b[1] = "failed"
      /\ none \in Seq(Statement) /\ Len(none) = 0
  BY DEF Statement
<1>2. /\ Unwind("http.start") = ((TelnetStop \o CloseUart) \o a) \o b
      /\ Unwind("telnet.start") = ((none \o CloseUart) \o a) \o b
      /\ Unwind("open") = ((none \o none) \o a) \o b
      /\ Unwind("wifi.connect") = ((none \o none) \o none) \o b
  BY DEF Unwind
<1> HIDE DEF a, b, none
<1>3. \A s \in Seq(Statement) : none \o s = s
  BY ConcatEmptySeq DEF none
<1>4. /\ Unwind("telnet.start") = (CloseUart \o a) \o b
      /\ Unwind("open") = a \o b
      /\ Unwind("wifi.connect") = b
  BY <1>1, <1>2, <1>3, CallsAre
<1>5. PICK u : u = a \o b
  OBVIOUS
<1>6. /\ u \in Seq(Statement) /\ Len(u) = 2
      /\ \A i \in 1..2 : u[i] = IF i <= 1 THEN a[i] ELSE b[i - 1]
  <2>1. Joins(u, a, b)
    BY <1>1, <1>5, Joined
  <2> QED  BY <1>1, <2>1 DEF Joins
<1>7. PICK x : x = CloseUart \o a
  OBVIOUS
<1>8. /\ x \in Seq(Statement) /\ Len(x) = 5
      /\ \A i \in 1..5 : x[i] = IF i <= 4 THEN CloseUart[i] ELSE a[i - 4]
  <2>1. Joins(x, CloseUart, a)
    BY <1>1, <1>7, CallsAre, Joined
  <2> QED  BY <1>1, CallsAre, <2>1 DEF Joins
<1>9. PICK v : v = x \o b
  OBVIOUS
<1>10. /\ v \in Seq(Statement) /\ Len(v) = 6
      /\ \A i \in 1..6 : v[i] = IF i <= 5 THEN x[i] ELSE b[i - 5]
  <2>1. Joins(v, x, b)
    BY <1>1, <1>8, <1>9, Joined
  <2> QED  BY <1>1, <1>8, <2>1 DEF Joins
<1>11. PICK y : y = TelnetStop \o CloseUart
  OBVIOUS
<1>12. /\ y \in Seq(Statement) /\ Len(y) = 6
      /\ \A i \in 1..6 :
            y[i] = IF i <= 2 THEN TelnetStop[i] ELSE CloseUart[i - 2]
  <2>1. Joins(y, TelnetStop, CloseUart)
    BY <1>1, <1>11, CallsAre, Joined
  <2> QED  BY <1>1, CallsAre, <2>1 DEF Joins
<1>13. PICK z : z = y \o a
  OBVIOUS
<1>14. /\ z \in Seq(Statement) /\ Len(z) = 7
      /\ \A i \in 1..7 : z[i] = IF i <= 6 THEN y[i] ELSE a[i - 6]
  <2>1. Joins(z, y, a)
    BY <1>1, <1>12, <1>13, Joined
  <2> QED  BY <1>1, <1>12, <2>1 DEF Joins
<1>15. PICK w : w = z \o b
  OBVIOUS
<1>16. /\ w \in Seq(Statement) /\ Len(w) = 8
      /\ \A i \in 1..8 : w[i] = IF i <= 7 THEN z[i] ELSE b[i - 7]
  <2>1. Joins(w, z, b)
    BY <1>1, <1>14, <1>15, Joined
  <2> QED  BY <1>1, <1>14, <2>1 DEF Joins
<1>17. /\ b[1] = UnwindScript[8]
       /\ u[1] = UnwindScript[7] /\ u[2] = UnwindScript[8]
       /\ \A i \in 1..6 : v[i] = UnwindScript[i + 2]
       /\ \A i \in 1..8 : w[i] = UnwindScript[i]
  <2>1. \A i \in 1..6 : v[i] = UnwindScript[i + 2]
    BY <1>1, <1>8, <1>10, CallsAre, UnwindScriptIs
  <2>2. \A i \in 1..8 : w[i] = UnwindScript[i]
    BY <1>1, <1>12, <1>14, <1>16, CallsAre, UnwindScriptIs
  <2> QED  BY <1>1, <1>6, <2>1, <2>2, UnwindScriptIs
<1>18. b = SubSeq(UnwindScript, 8, Len(UnwindScript))
  <2>1. PICK k \in 1..8 : k = 8
    OBVIOUS
  <2>2. /\ b \in Seq(Statement) /\ Len(b) = 9 - k
        /\ \A i \in 1..9 - k : b[i] = UnwindScript[k + i - 1]
    BY <1>1, <1>17, <2>1
  <2>3. b = SubSeq(UnwindScript, k, Len(UnwindScript))
    BY <2>2, Entered, Zenon
  <2> QED  BY <2>1, <2>3
<1>19. u = SubSeq(UnwindScript, 7, Len(UnwindScript))
  <2>1. PICK k \in 1..8 : k = 7
    OBVIOUS
  <2>2. /\ u \in Seq(Statement) /\ Len(u) = 9 - k
        /\ \A i \in 1..9 - k : u[i] = UnwindScript[k + i - 1]
    BY <1>6, <1>17, <2>1
  <2>3. u = SubSeq(UnwindScript, k, Len(UnwindScript))
    BY <2>2, Entered, Zenon
  <2> QED  BY <2>1, <2>3
<1>20. v = SubSeq(UnwindScript, 3, Len(UnwindScript))
  <2>1. PICK k \in 1..8 : k = 3
    OBVIOUS
  <2>2. /\ v \in Seq(Statement) /\ Len(v) = 9 - k
        /\ \A i \in 1..9 - k : v[i] = UnwindScript[k + i - 1]
    BY <1>10, <1>17, <2>1
  <2>3. v = SubSeq(UnwindScript, k, Len(UnwindScript))
    BY <2>2, Entered, Zenon
  <2> QED  BY <2>1, <2>3
<1>21. w = SubSeq(UnwindScript, 1, Len(UnwindScript))
  <2>1. PICK k \in 1..8 : k = 1
    OBVIOUS
  <2>2. /\ w \in Seq(Statement) /\ Len(w) = 9 - k
        /\ \A i \in 1..9 - k : w[i] = UnwindScript[k + i - 1]
    BY <1>16, <1>17, <2>1
  <2>3. w = SubSeq(UnwindScript, k, Len(UnwindScript))
    BY <2>2, Entered, Zenon
  <2> QED  BY <2>1, <2>3
<1> QED
  BY <1>2, <1>4, <1>5, <1>7, <1>9, <1>11, <1>13, <1>15, <1>18, <1>19, <1>20,
     <1>21

\* Where the main thread is when it executes a statement.
LEMMA Position ==
    ASSUME Where, todo # <<>>, NEW s, s = Head(todo)
    PROVE  /\ s \in {"parse", "create", "storage.init"} => Beginning
           /\ s = "exit" => Beginning \/ Destroying(10)
           /\ s = "display.init" => Starting(1)
           /\ s = "wifi.connect" => Starting(2)
           /\ s = "open" => Starting(3) \/ Reopening(5)
           /\ s = "configure" => Starting(4) \/ Reopening(6)
           /\ s = "start.reader" => Starting(5) \/ Reopening(7)
           /\ s = "telnet.start" => Starting(6)
           /\ s = "http.start" => Starting(7)
           /\ s = "setConfig" => Starting(8)
           /\ s = "wire.uart" => Starting(9)
           /\ s = "wire.telnet" => Starting(10)
           /\ s = "started" => Starting(11)
           /\ s = "update" => Looping
           /\ s = "telnet.close" =>
                 Unwinding(1) \/ ShuttingDown(2) \/ Destroying(4)
           /\ s = "telnet.join" =>
                 Unwinding(2) \/ ShuttingDown(3) \/ Destroying(5)
           /\ s = "running=false" =>
                 \/ Unwinding(3) \/ Reopening(1)
                 \/ ShuttingDown(4) \/ Destroying(6)
           /\ s = "close.fd" =>
                 \/ Unwinding(4) \/ Reopening(2)
                 \/ ShuttingDown(5) \/ Destroying(7)
           /\ s = "fd=-1" =>
                 \/ Unwinding(5) \/ Reopening(3)
                 \/ ShuttingDown(6) \/ Destroying(8)
           /\ s = "join" =>
                 \/ Unwinding(6) \/ Reopening(4)
                 \/ ShuttingDown(7) \/ Destroying(9)
           /\ s = "wifi.disconnect" => Unwinding(7) \/ ShuttingDown(8)
           /\ s = "failed" => Unwinding(8)
           /\ s = "http.stop" => ShuttingDown(1)
           /\ s = "leave" => ShuttingDown(9)
           /\ s = "~responder" => Destroying(1)
           /\ s = "~storage" => Destroying(2)
           /\ s = "~display" => Destroying(3)
<1>1. CASE Beginning
  BY <1>1 DEF Beginning
<1>2. CASE Looping
  BY <1>2 DEF Looping
<1>3. CASE Exited
  BY <1>3 DEF Exited
<1>4. ASSUME NEW k \in 1..11, Starting(k)
      PROVE  Starting(k) /\ s = StartupScript[k]
  <2>1. Left(StartupScript, k) /\ k \in 1..Len(StartupScript)
    BY <1>4, StartupScriptIs DEF Starting
  <2> QED  BY <1>4, <2>1, StartupScriptIs, Proceeds
<1>5. ASSUME NEW k \in 1..8, Unwinding(k)
      PROVE  Unwinding(k) /\ s = UnwindScript[k]
  <2>1. Left(UnwindScript, k) /\ k \in 1..Len(UnwindScript)
    BY <1>5, UnwindScriptIs DEF Unwinding
  <2> QED  BY <1>5, <2>1, UnwindScriptIs, Proceeds
<1>6. ASSUME NEW k \in 1..7, Reopening(k)
      PROVE  Reopening(k) /\ s = Reopen[k]
  <2>1. Left(Reopen, k) /\ k \in 1..Len(Reopen)
    BY <1>6, ReopenIs DEF Reopening
  <2> QED  BY <1>6, <2>1, ReopenIs, Proceeds
<1>7. ASSUME NEW k \in 1..9, ShuttingDown(k)
      PROVE  ShuttingDown(k) /\ s = ShutdownScript[k]
  <2>1. Left(ShutdownScript, k) /\ k \in 1..Len(ShutdownScript)
    BY <1>7, ShutdownScriptIs DEF ShuttingDown
  <2> QED  BY <1>7, <2>1, ShutdownScriptIs, Proceeds
<1>8. ASSUME NEW k \in 1..10, Destroying(k)
      PROVE  Destroying(k) /\ s = DestroyScript[k]
  <2>1. Left(DestroyScript, k) /\ k \in 1..Len(DestroyScript)
    BY <1>8, DestroyScriptIs DEF Destroying
  <2> QED  BY <1>8, <2>1, DestroyScriptIs, Proceeds
<1>9. CASE \E k \in 1..11 : Starting(k)
  BY <1>4, <1>9, StartupScriptIs
<1>10. CASE \E k \in 1..8 : Unwinding(k)
  BY <1>5, <1>10, UnwindScriptIs
<1>11. CASE \E k \in 1..7 : Reopening(k)
  BY <1>6, <1>11, ReopenIs
<1>12. CASE \E k \in 1..9 : ShuttingDown(k)
  BY <1>7, <1>12, ShutdownScriptIs
<1>13. CASE \E k \in 1..10 : Destroying(k)
  BY <1>8, <1>13, DestroyScriptIs
<1> QED  BY <1>1, <1>2, <1>3, <1>9, <1>10, <1>11, <1>12, <1>13 DEF Where

\* A statement that is done leaves the next one.
LEMMA Advance ==
    ASSUME Done
    PROVE  /\ \A k \in 1..11 :
                 Left(StartupScript, k) => Left(StartupScript, k + 1)'
           /\ \A k \in 1..8 :
                 Left(UnwindScript, k) => Left(UnwindScript, k + 1)'
           /\ \A k \in 1..7 :
                 Left(Reopen, k) => Left(Reopen, k + 1)'
           /\ \A k \in 1..9 :
                 Left(ShutdownScript, k) => Left(ShutdownScript, k + 1)'
           /\ \A k \in 1..10 :
                 Left(DestroyScript, k) => Left(DestroyScript, k + 1)'
<1>1. ASSUME NEW s \in Seq(Statement), NEW k \in 1..Len(s), Left(s, k)
      PROVE  Left(s, k + 1)'
  <2>1. Tail(todo) = SubSeq(s, k + 1, Len(s))
    BY <1>1, Proceeds
  <2> QED  BY <2>1 DEF Left, Done
<1> QED
  BY <1>1, StartupScriptIs, UnwindScriptIs, ReopenIs, ShutdownScriptIs,
     DestroyScriptIs

-----------------------------------------------------------------------------
(* The threads beside the main thread.                                     *)

LEMMA LowestIsFree ==
    ASSUME Free # {}
    PROVE  /\ LowestFree \in Fds /\ LowestFree # NoFd
           /\ table[LowestFree] = "free"
<1>1. Free \subseteq Nat
  BY UartAssumption DEF Free, Fds
<1>2. PICK f \in Free : \A g \in Free : <<g, f>> \notin OpToRel(<, Nat)
  BY <1>1, NatLessThanWellFounded, WFMin
<1>3. ASSUME NEW g \in Free PROVE f <= g
  <2>1. f \in Nat /\ g \in Nat /\ ~(g < f)
    BY <1>1, <1>2 DEF OpToRel
  <2> QED  BY <2>1
<1>4. LowestFree \in Free
  BY <1>3 DEF LowestFree
<1> QED  BY <1>4, UartAssumption DEF Free, Fds, NoFd

\* The read loop.
LEMMA ReaderKeeps ==
    ASSUME IInv, Reader, UNCHANGED <<programVars, clientVars>>
    PROVE  IInv'
<1> USE DEF IInv, programVars, clientVars
<1>1. UNCHANGED <<members, kernel>> /\ ~Idle
  BY DEF Reader, ReaderRuns, ReaderChecks, ReaderLoads, ReaderCalls,
     ReaderGetsData, ReaderGetsNothing, ReadReturns, ReaderCallsBack,
     ReaderReturns, ReaderGoes, Idle
<1>2. Table' /\ Client'
  BY <1>1 DEF Table, Client, Calling, members, kernel
<1>3. fd_ = NoFd \/ Opened \/ (Stale /\ ~telnet)
  BY <1>1 DEF Where, Beginning, Starting, Unwinding, Looping, Reopening,
     ShuttingDown, Destroying, Exited, Nothing, Unread, MaybeOpened, Idle
<1>4. Reading'
  <2>1. CASE ReaderLoads
    BY <1>1, <1>3, <2>1 DEF Reading, Idle, ReaderLoads, ReaderGoes, members,
       kernel, Table, Opened, Stale
  <2>2. CASE ~ReaderLoads
    BY <1>1, <2>2 DEF Reading, Idle, Reader, ReaderRuns, ReaderChecks,
       ReaderCalls, ReaderGetsData, ReaderGetsNothing, ReadReturns,
       ReaderCallsBack, ReaderReturns, ReaderGoes, members, kernel
  <2> QED  BY <2>1, <2>2
<1>5. ASSUME Attended, fd_ = NoFd \/ Opened PROVE Attended'
  BY <1>1, <1>5 DEF Attended, Opened, Idle, Reading, Reader, ReaderRuns,
     ReaderChecks, ReaderLoads, ReaderCalls, ReaderGetsData, ReaderGetsNothing,
     ReadReturns, ReaderCallsBack, ReaderReturns, ReaderGoes, members, kernel,
     reader
<1>6. Where'
  <2>1. CASE Looping
    BY <1>1, <1>5, <2>1 DEF Where, Looping, Started, MaybeOpened, Opened,
       members, kernel
  <2>2. ASSUME NEW k \in 1..11, Starting(k) PROVE Starting(k)'
    BY <1>1, <1>5, <2>2 DEF Starting, Unread, Idle, Left, Opened, members,
       kernel
  <2>3. ASSUME NEW k \in 1..9, ShuttingDown(k) PROVE ShuttingDown(k)'
    BY <1>1, <2>3 DEF ShuttingDown, Left, MaybeOpened, Opened, Stale, members,
       kernel
  <2> QED
    BY <1>1, <2>1, <2>2, <2>3 DEF Where, Beginning, Unwinding, Reopening,
       Destroying, Exited, Nothing, Unread, Idle
<1> QED  BY <1>2, <1>4, <1>6

\* The device comes and goes, signals come, and the client stops reading and
\* reads on.
LEMMA OutsideKeeps ==
    ASSUME IInv,
           \/ (Unplug \/ Plug) /\ UNCHANGED <<programVars, clientVars>>
           \/ Signal \/ ClientStalls \/ ClientReads
    PROVE  IInv'
<1> USE DEF IInv
<1>1. /\ UNCHANGED <<members, reader, table, clientPc, clientFd>>
      /\ UNCHANGED <<phase, todo, supervised, responder, wifi, telnet,
                     onClientData_>>
      /\ attached' => attached
  BY DEF Unplug, Plug, Signal, ClientStalls, ClientReads, uartVars, kernel,
     programVars, clientVars
<1>2. Table' /\ Reading' /\ Client'
  BY <1>1 DEF Table, Reading, Client, Calling, Idle, members, reader
<1>3. Attended => Attended'
  BY <1>1 DEF Attended, Idle, members, reader
<1> USE <1>1, <1>3 DEF members, reader, Left, Idle, Nothing, Unread, Opened,
                       Stale, MaybeOpened, Started
<1>4. Beginning => Beginning'
  BY DEF Beginning
<1>5. ASSUME NEW k \in 1..11, Starting(k) PROVE Starting(k)'
  BY <1>5 DEF Starting
<1>6. ASSUME NEW k \in 1..8, Unwinding(k) PROVE Unwinding(k)'
  BY <1>6 DEF Unwinding
<1>7. Looping => Looping'
  BY DEF Looping
<1>8. ASSUME NEW k \in 1..7, Reopening(k) PROVE Reopening(k)'
  BY <1>8 DEF Reopening
<1>9. ASSUME NEW k \in 1..9, ShuttingDown(k) PROVE ShuttingDown(k)'
  BY <1>9 DEF ShuttingDown
<1>10. ASSUME NEW k \in 1..10, Destroying(k) PROVE Destroying(k)'
  BY <1>10 DEF Destroying
<1>11. Exited => Exited'
  BY DEF Exited
<1>12. Where'
  BY <1>4, <1>5, <1>6, <1>7, <1>8, <1>9, <1>10, <1>11 DEF Where
<1> QED  BY <1>2, <1>12

\* The client.
LEMMA ClientKeeps ==
    ASSUME IInv, ClientConnects \/ ClientLeaves \/ ClientSends
    PROVE  IInv'
<1> USE DEF IInv
<1>1. /\ UNCHANGED <<programVars, members, reader, device, attached>>
      /\ clientPc # "away" \/ telnet
  BY DEF ClientConnects, ClientLeaves, ClientSends, uartVars, kernel
<1>2. \A f \in Fds : (table[f] = "uart") <=> (table[f] = "uart")'
  BY LowestIsFree DEF ClientConnects, ClientLeaves, ClientSends, uartVars,
     kernel, Table
<1>3. Table'
  <2>1. CASE ClientConnects
    BY <1>1, <2>1, LowestIsFree DEF ClientConnects, Table, programVars, members
  <2>2. CASE ClientLeaves
    BY <1>1, <2>2 DEF ClientLeaves, Table, programVars, members
  <2>3. CASE ClientSends
    BY <1>1, <2>3 DEF ClientSends, Table, programVars, uartVars, kernel,
       members
  <2> QED  BY <2>1, <2>2, <2>3
<1>4. Reading'
  <2>1. readerPc = "call" =>
          \/ table'[currentFd] = "uart"
          \/ table'[currentFd] = "free" /\ ~telnet
    BY <1>2, <1>1 DEF Reading, ClientConnects, ClientLeaves, ClientSends,
       uartVars, kernel, Table
  <2> QED  BY <1>1, <2>1 DEF Reading, Idle, programVars, members, reader
<1>5. ~supervised /\ clientPc # "away" => MaybeOpened
  BY DEF Where, Beginning, Starting, Unwinding, Looping, Reopening,
     ShuttingDown, Destroying, Exited, Nothing, MaybeOpened, Table
<1>6. Client'
  <2>1. CASE ClientConnects \/ ClientLeaves
    BY <1>1, <2>1 DEF Client, Calling, ClientConnects, ClientLeaves,
       programVars, members
  <2>2. CASE ClientSends
    BY <1>1, <1>5, <2>2 DEF Client, Calling, ClientSends, programVars, members,
       uartVars, kernel, MaybeOpened, Opened
  <2> QED  BY <2>1, <2>2
<1>7. /\ clientPc' # "away" => clientPc # "away" \/ telnet
      /\ Opened => Opened'
      /\ Stale => Stale'
      /\ Attended => Attended'
  BY <1>1, <1>2 DEF Opened, Stale, Attended, Idle, members, reader, Table
<1> USE <1>1, <1>7 DEF programVars, members, reader, Left, Idle, Nothing,
                       Unread,
        MaybeOpened, Started
<1>8. ~Beginning /\ ~Exited
  BY DEF Beginning, Exited
<1>9. ASSUME NEW k \in 1..11, Starting(k) PROVE Starting(k)'
  BY <1>9 DEF Starting
<1>10. ASSUME NEW k \in 1..8, Unwinding(k) PROVE Unwinding(k)'
  BY <1>10 DEF Unwinding
<1>11. Looping => Looping'
  BY DEF Looping
<1>12. ASSUME NEW k \in 1..7, Reopening(k) PROVE Reopening(k)'
  BY <1>12 DEF Reopening
<1>13. ASSUME NEW k \in 1..9, ShuttingDown(k) PROVE ShuttingDown(k)'
  BY <1>13 DEF ShuttingDown
<1>14. \A k \in 1..10 : ~Destroying(k)
  BY DEF Destroying
<1>15. Where'
  BY <1>8, <1>9, <1>10, <1>11, <1>12, <1>13, <1>14 DEF Where
<1> QED  BY <1>3, <1>4, <1>6, <1>15

-----------------------------------------------------------------------------
(* The main thread: before startup, and the statements that only count     *)
(* themselves off or set a flag.                                           *)

\* The scripts from the beginning, and at their end.
LEMMA Whole ==
    /\ todo' = StartupScript => Left(StartupScript, 1)'
    /\ todo' = Reopen => Left(Reopen, 1)'
    /\ todo' = ShutdownScript => Left(ShutdownScript, 1)'
    /\ todo' = DestroyScript => Left(DestroyScript, 1)'
    /\ Left(StartupScript, 12)' => todo' = <<>>
    /\ Left(Reopen, 8)' => todo' = <<>>
<1>1. \A s \in Seq(Statement) :
        /\ SubSeq(s, 1, Len(s)) = s
        /\ SubSeq(s, Len(s) + 1, Len(s)) = <<>>
  BY AllIsLeft
<1>2. /\ todo' = StartupScript => Left(StartupScript, 1)'
      /\ Left(StartupScript, 12)' => todo' = <<>>
  <2>1. /\ SubSeq(StartupScript, 1, 11) = StartupScript
        /\ SubSeq(StartupScript, 12, 11) = <<>>
    BY <1>1, StartupScriptIs
  <2> QED  BY <2>1, StartupScriptIs DEF Left
<1>3. /\ todo' = Reopen => Left(Reopen, 1)'
      /\ Left(Reopen, 8)' => todo' = <<>>
  <2>1. /\ SubSeq(Reopen, 1, 7) = Reopen
        /\ SubSeq(Reopen, 8, 7) = <<>>
    BY <1>1, ReopenIs
  <2> QED  BY <2>1, ReopenIs DEF Left
<1>4. todo' = ShutdownScript => Left(ShutdownScript, 1)'
  <2>1. SubSeq(ShutdownScript, 1, 9) = ShutdownScript
    BY <1>1, ShutdownScriptIs
  <2> QED  BY <2>1, ShutdownScriptIs DEF Left
<1>5. todo' = DestroyScript => Left(DestroyScript, 1)'
  <2>1. SubSeq(DestroyScript, 1, 10) = DestroyScript
    BY <1>1, DestroyScriptIs
  <2> QED  BY <2>1, DestroyScriptIs DEF Left
<1> QED  BY <1>2, <1>3, <1>4, <1>5

\* A step of startup that fails leaves what is undone then.
LEMMA Failed ==
    ASSUME phase = "startup"
    PROVE  /\ Fails("wifi.connect") => Left(UnwindScript, 8)'
           /\ Fails("open") => Left(UnwindScript, 7)'
           /\ Fails("telnet.start") => Left(UnwindScript, 3)'
           /\ Fails("http.start") => Left(UnwindScript, 1)'
BY UnwindIs DEF Fails, Left

LEMMA BeginningKeeps ==
    ASSUME IInv, Parse \/ Create \/ InitStorage
    PROVE  IInv'
<1> USE DEF IInv
<1>1. Beginning
  BY Position DEF Parse, Create, InitStorage, At
<1>2. /\ UNCHANGED <<telnet, wifi, onClientData_, clientVars, uartVars>>
      /\ \/ /\ todo' \in {<<"exit">>, <<"create">>, <<"storage.init">>}
            /\ phase' = phase /\ responder' = responder
         \/ phase' = "startup" /\ todo' = StartupScript /\ responder' = "alive"
  BY DEF Parse, Create, InitStorage
<1>3. Table' /\ Reading' /\ Client'
  BY <1>1, <1>2 DEF Beginning, Nothing, Table, Reading, Client, Calling, Idle,
     uartVars, members, reader, kernel, clientVars
<1>4. Beginning' \/ Starting(1)'
  BY <1>1, <1>2, Whole DEF Beginning, Nothing, Starting, Unread, Idle,
     uartVars, members, reader, kernel, clientVars
<1> QED  BY <1>3, <1>4 DEF Where

LEMMA SimpleKeeps ==
    ASSUME IInv, Simple
    PROVE  IInv'
<1> USE DEF IInv
<1>1. UNCHANGED <<supervised, telnet, clientVars, uartVars>> /\ Done /\ todo #
                  <<>>
  BY DEF Simple
<1>2. UNCHANGED <<clientPc, clientFd, fd_, running_, callback_, joinable,
                  terminated, readerPc, currentFd, table, device, attached>>
  BY <1>1 DEF clientVars, uartVars, members, reader, kernel
<1> USE <1>1, <1>2
<1>3. /\ (Opened => Opened') /\ (MaybeOpened => MaybeOpened')
      /\ (Unread => Unread') /\ (Attended => Attended') /\ (Idle => Idle')
  BY DEF Opened, MaybeOpened, Unread, Attended, Idle
<1>4. CASE /\ Head(todo) \in
                 {"display.init", "~display", "http.stop", "update"}
           /\ UNCHANGED <<responder, wifi, onClientData_, phase>>
  <2>1. Starting(1) \/ Destroying(3) \/ ShuttingDown(1) \/ Looping
    BY <1>4, Position
  <2>2. Table' /\ Reading' /\ Client'
    BY <1>4 DEF Table, Reading, Client, Calling, Idle
  <2>3. Looping => Looping'
    <3>1. Looping => todo = <<"update">>
      BY DEF Looping
    <3>2. todo = <<"update">> => todo' = <<>>
      BY DEF Done
    <3> QED  BY <1>3, <1>4, <3>1, <3>2 DEF Looping, Started
  <2>4. Starting(1) => Starting(2)'
    BY <1>3, <1>4, Advance DEF Starting
  <2>5. Destroying(3) => Destroying(4)'
    BY <1>3, <1>4, Advance DEF Destroying, Nothing
  <2>6. ShuttingDown(1) => ShuttingDown(2)'
    BY <1>3, <1>4, Advance DEF ShuttingDown
  <2> QED  BY <2>1, <2>2, <2>3, <2>4, <2>5, <2>6 DEF Where
<1>5. CASE /\ At("setConfig") /\ responder' = "configured"
           /\ UNCHANGED <<wifi, onClientData_, phase>>
  <2>1. Starting(8)
    BY <1>5, Position DEF At
  <2>2. Table' /\ Reading' /\ Client'
    BY <1>5 DEF Table, Reading, Client, Calling, Idle
  <2>3. Starting(9)'
    BY <1>3, <1>5, <2>1, Advance DEF Starting
  <2> QED  BY <2>2, <2>3 DEF Where
<1>6. CASE /\ At("wire.telnet") /\ onClientData_' = TRUE
           /\ UNCHANGED <<responder, wifi, phase>>
  <2>1. Starting(10)
    BY <1>6, Position DEF At
  <2>2. Table' /\ Reading' /\ Client'
    BY <1>6, <2>1 DEF Starting, Table, Reading, Client, Calling, Idle
  <2>3. Starting(11)'
    BY <1>3, <1>6, <2>1, Advance DEF Starting
  <2> QED  BY <2>2, <2>3 DEF Where
<1>7. CASE /\ At("wifi.disconnect") /\ wifi' = FALSE
           /\ UNCHANGED <<responder, onClientData_, phase>>
  <2>1. Unwinding(7) \/ ShuttingDown(8)
    BY <1>7, Position DEF At
  <2>2. Table' /\ Reading' /\ Client'
    BY <1>7 DEF Table, Reading, Client, Calling, Idle
  <2>3. Unwinding(7) => Unwinding(8)'
    BY <1>3, <1>7, Advance DEF Unwinding
  <2>4. ShuttingDown(8) => ShuttingDown(9)'
    BY <1>3, <1>7, Advance DEF ShuttingDown
  <2> QED  BY <2>1, <2>2, <2>3, <2>4 DEF Where
<1>8. CASE /\ \/ At("~responder") /\ responder' = "destroyed"
              \/ At("~storage") /\ responder' = responder
           /\ UNCHANGED <<wifi, onClientData_, phase>>
  <2>1. Destroying(1) \/ Destroying(2)
    BY <1>8, Position DEF At
  <2>2. Nothing
    BY <2>1 DEF Destroying
  <2>3. Table' /\ Reading' /\ Client'
    BY <1>8, <2>2 DEF Nothing, Table, Reading, Client, Calling, Idle
  <2>4. Destroying(2)' \/ Destroying(3)'
    BY <1>3, <1>8, <2>1, Advance DEF Destroying, Nothing
  <2> QED  BY <2>3, <2>4 DEF Where
<1>9. CASE /\ At("started") /\ phase' = "loop"
           /\ UNCHANGED <<responder, wifi, onClientData_>>
  <2>1. Starting(11)
    BY <1>9, Position DEF At
  <2>2. Table' /\ Reading' /\ Client'
    BY <1>9 DEF Table, Reading, Client, Calling, Idle
  <2>3. todo' = <<>>
    BY <2>1, Advance, Whole DEF Starting
  <2>4. Looping'
    BY <1>3, <1>9, <2>1, <2>3 DEF Starting, Looping, Started, MaybeOpened
  <2> QED  BY <2>2, <2>4 DEF Where
<1> QED  BY <1>4, <1>5, <1>6, <1>7, <1>8, <1>9 DEF Simple

LEMMA WifiHttpKeep ==
    ASSUME IInv, Wifi \/ Http
    PROVE  IInv'
<1> USE DEF IInv
<1>1. UNCHANGED <<phase, supervised, responder, telnet, onClientData_,
                  clientPc, clientFd, fd_, running_, callback_, joinable,
                  terminated, readerPc, currentFd, table, device, attached>>
  BY DEF Wifi, Http, clientVars, uartVars, members, reader, kernel
<1> USE <1>1
<1>2. Table' /\ Reading' /\ Client'
  BY DEF Table, Reading, Client, Calling, Idle
<1>3. CASE Wifi
  <2>1. Starting(2)
    BY <1>3, Position DEF Wifi, At
  <2>2. CASE wifi' = TRUE /\ Done
    <3>1. Starting(3)'
      BY <2>1, <2>2, Advance DEF Starting, Unread
    <3> QED  BY <1>2, <3>1 DEF Where
  <2>3. CASE Fails("wifi.connect") /\ UNCHANGED wifi
    <3>1. Unwinding(8)'
      BY <2>1, <2>3, Failed DEF Starting, Unwinding, Unread
    <3> QED  BY <1>2, <3>1 DEF Where
  <2> QED  BY <1>3, <2>2, <2>3 DEF Wifi
<1>4. CASE Http
  <2>1. Starting(7) /\ UNCHANGED wifi
    BY <1>4, Position DEF Http, At
  <2>2. CASE Done
    <3>1. Starting(8)'
      BY <2>1, <2>2, Advance DEF Starting, Unread, Opened
    <3> QED  BY <1>2, <3>1 DEF Where
  <2>3. CASE Fails("http.start")
    <3>1. Unwinding(1)'
      BY <2>1, <2>3, Failed DEF Starting, Unwinding, Unread, Opened,
         MaybeOpened
    <3> QED  BY <1>2, <3>1 DEF Where
  <2> QED  BY <1>4, <2>2, <2>3 DEF Http
<1> QED  BY <1>3, <1>4

-----------------------------------------------------------------------------
(* The main thread: the port.                                              *)

LEMMA OpenKeeps ==
    ASSUME IInv, Uart, At("open")
    PROVE  IInv'
<1> USE DEF IInv
<1>1. Starting(3) \/ Reopening(5)
  BY Position DEF At
<1>2. /\ UNCHANGED <<phase, supervised, responder, wifi, telnet, onClientData_,
                     clientPc, clientFd, running_, callback_, joinable,
                     terminated, readerPc, currentFd>>
      /\ \/ /\ Free # {} /\ fd_' = LowestFree /\ Done
            /\ table' = [table EXCEPT ![LowestFree] = "uart"]
         \/ UNCHANGED <<fd_, table, attached>> /\ Fails("open")
  BY DEF Uart, At, UartStep, PortOpens, uartVars, members, reader, kernel,
     clientVars
<1> USE <1>2
<1>3. fd_ = NoFd /\ Idle
  BY <1>1 DEF Starting, Reopening, Unread, Idle
<1>4. CASE /\ Free # {} /\ fd_' = LowestFree /\ Done
           /\ table' = [table EXCEPT ![LowestFree] = "uart"]
  <2>1. \A f \in Fds : table[f] # "uart"
    BY <1>3, UartAssumption DEF Table, Fds, NoFd
  <2>2. Table'
    BY <1>4, <2>1, LowestIsFree DEF Table
  <2>3. Reading' /\ Client'
    BY <1>3, <1>4, LowestIsFree DEF Reading, Client, Calling, Idle, Table
  <2>4. Opened'
    BY <1>4, LowestIsFree DEF Opened, Table
  <2>5. Starting(3) => Starting(4)'
    BY <1>4, <2>4, Advance DEF Starting, Unread
  <2>6. Reopening(5) => Reopening(6)'
    BY <1>4, <2>4, Advance DEF Reopening, Started, Idle
  <2> QED  BY <1>1, <2>2, <2>3, <2>5, <2>6 DEF Where
<1>5. CASE UNCHANGED <<fd_, table, attached>> /\ Fails("open")
  <2>1. Table' /\ Reading' /\ Client'
    BY <1>5 DEF Table, Reading, Client, Calling, Idle
  <2>2. Starting(3) => Unwinding(7)'
    BY <1>5, Failed DEF Starting, Unwinding, Unread
  <2>3. Reopening(5) => Looping'
    BY <1>3, <1>5 DEF Reopening, Looping, Started, MaybeOpened, Attended, Fails
  <2> QED  BY <1>1, <2>1, <2>2, <2>3 DEF Where
<1> QED  BY <1>4, <1>5

LEMMA ConfigureKeeps ==
    ASSUME IInv, Uart, At("configure")
    PROVE  IInv'
<1> USE DEF IInv
<1>1. Starting(4) \/ Reopening(6)
  BY Position DEF At
<1>2. /\ UNCHANGED <<phase, supervised, responder, wifi, telnet, onClientData_,
                     clientPc, clientFd, running_, callback_, joinable,
                     terminated, readerPc, currentFd>>
      /\ \/ fd_' = fd_ /\ table' = table /\ attached' = attached /\ Done
         \/ /\ fd_' = NoFd /\ Fails("open")
            /\ table' = [table EXCEPT ![fd_] = "free"]
  BY DEF Uart, At, UartStep, ConfigureFails, uartVars, members, reader, kernel,
     clientVars
<1> USE <1>2
<1>3. Opened /\ Idle /\ fd_ \in Fds
  BY <1>1 DEF Starting, Reopening, Unread, Idle, Opened, Table
<1>4. CASE fd_' = fd_ /\ table' = table /\ attached' = attached /\ Done
  <2>1. Table' /\ Reading' /\ Client'
    BY <1>4 DEF Table, Reading, Client, Calling, Idle
  <2>2. Starting(4) => Starting(5)'
    BY <1>4, Advance DEF Starting, Unread, Opened
  <2>3. Reopening(6) => Reopening(7)'
    BY <1>4, Advance DEF Reopening, Started, Idle, Opened
  <2> QED  BY <1>1, <2>1, <2>2, <2>3 DEF Where
<1>5. CASE /\ fd_' = NoFd /\ Fails("open")
           /\ table' = [table EXCEPT ![fd_] = "free"]
  <2>1. Table' /\ Reading'
    BY <1>3, <1>5 DEF Table, Reading, Idle, Opened
  <2>2. clientPc = "write" => supervised
    BY <1>1, <1>3 DEF Starting, Reopening, Client, Calling
  <2>3. Client'
    BY <1>5, <2>2 DEF Client, Calling
  <2>4. Starting(4) => Unwinding(7)'
    BY <1>5, Failed DEF Starting, Unwinding, Unread
  <2>5. Reopening(6) => Looping'
    BY <1>5 DEF Reopening, Looping, Started, MaybeOpened, Attended, Fails
  <2> QED  BY <1>1, <2>1, <2>3, <2>4, <2>5 DEF Where
<1> QED  BY <1>4, <1>5

\* What of the port's statements touches nothing but the port.
PortOnly ==
    UNCHANGED <<phase, supervised, responder, wifi, telnet, onClientData_,
                clientPc, clientFd>>

LEMMA StartReaderKeeps ==
    ASSUME IInv, Uart, At("start.reader") \/ At("wire.uart")
    PROVE  IInv'
<1> USE DEF IInv
<1>1. CASE At("start.reader")
  <2>1. Starting(5) \/ Reopening(7)
    BY <1>1, Position DEF At
  <2>2. PortOnly /\ StartReader /\ Done
    BY <1>1 DEF PortOnly, Uart, At, UartStep, clientVars
  <2>3. CASE Starting(5)
    <3>1. UNCHANGED <<fd_, running_, callback_, joinable, terminated, readerPc,
                      currentFd, table, device, attached>>
      BY <2>2, <2>3 DEF StartReader, StartThread, Starting, Unread, uartVars,
         members, reader, kernel
    <3>2. Table' /\ Reading' /\ Client'
      BY <2>2, <3>1 DEF PortOnly, Table, Reading, Client, Calling, Idle
    <3>3. Starting(6)'
      BY <2>2, <2>3, <3>1, Advance DEF PortOnly, Starting, Unread, Opened
    <3> QED  BY <3>2, <3>3 DEF Where
  <2>4. CASE Reopening(7)
    <3>1. /\ UNCHANGED <<fd_, callback_, currentFd, table, device, attached>>
          /\ running_' /\ readerPc' = "check" /\ joinable' /\ ~terminated'
          /\ running_' = TRUE
      BY <2>2, <2>4 DEF StartReader, StartThread, Reopening, Started, Reading,
         kernel
    <3>2. Table' /\ Reading' /\ Client'
      BY <2>2, <2>4, <3>1 DEF PortOnly, Table, Reading, Client, Calling, Idle,
         Reopening, Started
    <3>3. todo' = <<>>
      BY <2>2, <2>4, Advance, Whole DEF Reopening
    <3>4. Looping'
      BY <2>2, <2>4, <3>1, <3>3 DEF PortOnly, Reopening, Looping, Started,
         MaybeOpened, Opened, Attended, Idle
    <3> QED  BY <3>2, <3>4 DEF Where
  <2> QED  BY <2>1, <2>3, <2>4
<1>2. CASE At("wire.uart")
  <2>1. Starting(9)
    BY <1>2, Position DEF At
  <2>2. PortOnly /\ SetOnDataCallback /\ Done
    BY <1>2 DEF PortOnly, Uart, At, UartStep, clientVars
  <2>3. /\ UNCHANGED <<fd_, currentFd, table, device, attached>> /\ callback_'
        /\ running_' = TRUE /\ readerPc' = "check" /\ joinable' /\ ~terminated'
    BY <2>1, <2>2 DEF SetOnDataCallback, StartThread, Starting, Unread, Opened,
       Reading, kernel
  <2>4. Table' /\ Reading' /\ Client'
    BY <2>1, <2>2, <2>3 DEF PortOnly, Table, Reading, Client, Calling, Idle,
       Starting
  <2>5. Starting(10)'
    BY <2>1, <2>2, <2>3, Advance DEF PortOnly, Starting, Attended, Opened, Idle
  <2> QED  BY <2>4, <2>5 DEF Where
<1> QED  BY <1>1, <1>2

LEMMA RunningKeeps ==
    ASSUME IInv, Uart, At("running=false")
    PROVE  IInv'
<1> USE DEF IInv
<1>1. Unwinding(3) \/ Reopening(1) \/ ShuttingDown(4) \/ Destroying(6)
  BY Position DEF At
<1>2. /\ PortOnly /\ Done
      /\ UNCHANGED <<fd_, callback_, joinable, terminated, readerPc, currentFd,
                     table, device, attached>>
      /\ running_' = FALSE
  BY DEF PortOnly, Uart, At, UartStep, clientVars, reader, kernel
<1> USE <1>2 DEF PortOnly
<1>3. Table' /\ Reading' /\ Client'
  BY DEF Table, Reading, Client, Calling, Idle
<1>4. Unwinding(3) => Unwinding(4)'
  BY Advance DEF Unwinding, Unread, MaybeOpened, Opened
<1>5. Reopening(1) => Reopening(2)'
  BY Advance DEF Reopening, Started, Idle, MaybeOpened, Opened
<1>6. ShuttingDown(4) => ShuttingDown(5)'
  BY Advance DEF ShuttingDown, MaybeOpened, Opened
<1>7. Destroying(6) => Destroying(7)'
  BY Advance DEF Destroying, Nothing, Idle
<1> QED  BY <1>1, <1>3, <1>4, <1>5, <1>6, <1>7 DEF Where

LEMMA CloseFdKeeps ==
    ASSUME IInv, Uart, At("close.fd")
    PROVE  IInv'
<1> USE DEF IInv
<1>1. Unwinding(4) \/ Reopening(2) \/ ShuttingDown(5) \/ Destroying(7)
  BY Position DEF At
<1>2. /\ PortOnly /\ Done
      /\ UNCHANGED <<fd_, running_, callback_, joinable, terminated, readerPc,
                     currentFd, device, attached>>
      /\ table' = [f \in Fds |-> IF f = fd_ THEN "free" ELSE table[f]]
  BY DEF PortOnly, Uart, At, UartStep, clientVars, members, reader, kernel
<1> USE <1>2 DEF PortOnly
<1>3. /\ fd_ = NoFd \/ Opened
      /\ clientPc = "away" \/ Reopening(2)
      /\ telnet => Idle
  BY <1>1 DEF Unwinding, Reopening, ShuttingDown, Destroying, MaybeOpened,
     Nothing
<1>4. Table'
  BY <1>3, UartAssumption DEF Table, Opened, Fds, NoFd
<1>5. Reading'
  BY <1>3 DEF Table, Reading, Idle
<1>6. Client'
  BY <1>3 DEF Client, Calling, Reopening
<1>7. Stale'
  BY <1>3 DEF Stale, Table, Opened, NoFd, Fds
<1>8. Unwinding(4) => Unwinding(5)'
  BY <1>7, Advance DEF Unwinding, Unread
<1>9. Reopening(2) => Reopening(3)'
  BY <1>7, Advance DEF Reopening, Started, Idle
<1>10. ShuttingDown(5) => ShuttingDown(6)'
  BY <1>7, Advance DEF ShuttingDown
<1>11. Destroying(7) => Destroying(8)'
  BY Advance DEF Destroying, Nothing, Idle
<1> QED  BY <1>1, <1>4, <1>5, <1>6, <1>8, <1>9, <1>10, <1>11 DEF Where

LEMMA NoFdKeeps ==
    ASSUME IInv, Uart, At("fd=-1")
    PROVE  IInv'
<1> USE DEF IInv
<1>1. Unwinding(5) \/ Reopening(3) \/ ShuttingDown(6) \/ Destroying(8)
  BY Position DEF At
<1>2. /\ PortOnly /\ Done
      /\ UNCHANGED <<running_, callback_, joinable, terminated, readerPc,
                     currentFd, table, device, attached>>
      /\ fd_' = NoFd
  BY DEF PortOnly, Uart, At, UartStep, clientVars, reader, kernel
<1> USE <1>2 DEF PortOnly
<1>3. Stale /\ (clientPc = "away" \/ Reopening(3))
  BY <1>1, UartAssumption DEF Unwinding, Reopening, ShuttingDown, Destroying,
     Nothing, Stale, Table, Fds, NoFd
<1>4. Table' /\ Reading' /\ Client'
  BY <1>3 DEF Stale, Table, Reading, Client, Calling, Idle, Reopening
<1>5. Unwinding(5) => Unwinding(6)'
  BY Advance DEF Unwinding, Unread
<1>6. Reopening(3) => Reopening(4)'
  BY Advance DEF Reopening, Started, Idle
<1>7. ShuttingDown(6) => ShuttingDown(7)'
  BY Advance DEF ShuttingDown
<1>8. Destroying(8) => Destroying(9)'
  BY Advance DEF Destroying, Nothing, Idle
<1> QED  BY <1>1, <1>4, <1>5, <1>6, <1>7, <1>8 DEF Where

LEMMA JoinKeeps ==
    ASSUME IInv, Uart, At("join")
    PROVE  IInv'
<1> USE DEF IInv
<1>1. Unwinding(6) \/ Reopening(4) \/ ShuttingDown(7) \/ Destroying(9)
  BY Position DEF At
<1>2. /\ PortOnly /\ Done
      /\ UNCHANGED <<fd_, running_, callback_, terminated, readerPc, currentFd,
                     table, device, attached>>
      /\ (joinable => readerPc = "done") /\ joinable' = FALSE
  BY DEF PortOnly, Uart, At, UartStep, clientVars, reader, kernel
<1> USE <1>2 DEF PortOnly
<1>3. Idle /\ ~running_
  BY <1>1 DEF Reading, Idle, Unwinding, Unread, Reopening, ShuttingDown,
     Destroying, Nothing
<1>4. Table' /\ Reading' /\ Client'
  BY <1>3 DEF Table, Reading, Client, Calling, Idle
<1>5. Unwinding(6) => Unwinding(7)'
  BY Advance DEF Unwinding, Unread
<1>6. Reopening(4) => Reopening(5)'
  BY <1>3, Advance DEF Reopening, Started, Idle
<1>7. ShuttingDown(7) => ShuttingDown(8)'
  BY Advance DEF ShuttingDown
<1>8. Destroying(9) => Destroying(10)'
  BY Advance DEF Destroying, Nothing, Idle
<1> QED  BY <1>1, <1>4, <1>5, <1>6, <1>7, <1>8 DEF Where

LEMMA UartKeeps == IInv /\ Uart => IInv'
BY OpenKeeps, ConfigureKeeps, StartReaderKeeps, RunningKeeps, CloseFdKeeps,
   NoFdKeeps, JoinKeeps DEF Uart, UartStep, At

-----------------------------------------------------------------------------
(* The main thread: the telnet server, the loop and the end.               *)

LEMMA TelnetStartKeeps ==
    ASSUME IInv, TelnetStart
    PROVE  IInv'
<1> USE DEF IInv
<1>1. Starting(6)
  BY Position DEF TelnetStart, At
<1>2. UNCHANGED <<phase, supervised, responder, wifi, onClientData_, clientPc,
                  clientFd, fd_, running_, callback_, joinable, terminated,
                  readerPc, currentFd, device, attached>>
  BY DEF TelnetStart, clientVars, members, reader
<1> USE <1>2
<1>3. CASE /\ Free # {} /\ table' = [table EXCEPT ![LowestFree] = "server"]
           /\ telnet' = TRUE /\ Done
  <2>1. Table' /\ Reading' /\ Client'
    BY <1>1, <1>3, LowestIsFree DEF Starting, Unread, Table, Reading, Client,
       Calling, Idle
  <2>2. Opened'
    BY <1>1, <1>3, LowestIsFree DEF Starting, Opened, Table
  <2>3. Starting(7)'
    BY <1>1, <1>3, <2>2, Advance DEF Starting, Unread
  <2> QED  BY <2>1, <2>3 DEF Where
<1>4. CASE Fails("telnet.start") /\ UNCHANGED <<table, telnet>>
  <2>1. Table' /\ Reading' /\ Client'
    BY <1>4 DEF Table, Reading, Client, Calling, Idle
  <2>2. Unwinding(3)'
    BY <1>1, <1>4, Failed DEF Starting, Unwinding, Unread, Opened, MaybeOpened
  <2> QED  BY <2>1, <2>2 DEF Where
<1> QED  BY <1>3, <1>4 DEF TelnetStart

LEMMA TelnetCloseKeeps ==
    ASSUME IInv, TelnetClose
    PROVE  IInv'
<1> USE DEF IInv
<1>1. Unwinding(1) \/ ShuttingDown(2) \/ Destroying(4)
  BY Position DEF TelnetClose, At
<1>2. /\ UNCHANGED <<phase, supervised, responder, wifi, onClientData_,
                     clientPc, clientFd, fd_, running_, callback_, joinable,
                     terminated, readerPc, currentFd, device, attached>>
      /\ Done /\ telnet' = FALSE
      /\ table' = [f \in Fds |-> IF table[f] \in {"server", "client"}
                                 THEN "free" ELSE table[f]]
  BY DEF TelnetClose, clientVars, members, reader
<1> USE <1>2
<1>3. Table' /\ Reading' /\ Client'
  BY DEF Table, Reading, Client, Calling, Idle, NoFd
<1>4. MaybeOpened => MaybeOpened'
  BY DEF MaybeOpened, Opened, Table
<1>5. Unwinding(1) => Unwinding(2)'
  BY <1>4, Advance DEF Unwinding, Unread
<1>6. ShuttingDown(2) => ShuttingDown(3)'
  BY <1>4, Advance DEF ShuttingDown
<1>7. Destroying(4) => Destroying(5)'
  BY Advance DEF Destroying, Nothing, Idle
<1> QED  BY <1>1, <1>3, <1>5, <1>6, <1>7 DEF Where

LEMMA TelnetJoinKeeps ==
    ASSUME IInv, TelnetJoin
    PROVE  IInv'
<1> USE DEF IInv
<1>1. Unwinding(2) \/ ShuttingDown(3) \/ Destroying(5)
  BY Position DEF TelnetJoin, At
<1>2. /\ UNCHANGED <<phase, supervised, responder, wifi, telnet, onClientData_,
                     fd_, running_, callback_, joinable, terminated, readerPc,
                     currentFd, table, device, attached>>
      /\ Done /\ clientPc' = "away"
  BY DEF TelnetJoin, uartVars, members, reader, kernel
<1> USE <1>2
<1>3. ~telnet
  BY <1>1 DEF Unwinding, ShuttingDown, Destroying, Nothing
<1>4. Table' /\ Reading' /\ Client'
  BY <1>3 DEF Table, Reading, Client, Calling, Idle
<1>5. Unwinding(2) => Unwinding(3)'
  BY Advance DEF Unwinding, Unread, MaybeOpened, Opened
<1>6. ShuttingDown(3) => ShuttingDown(4)'
  BY Advance DEF ShuttingDown, MaybeOpened, Opened
<1>7. Destroying(5) => Destroying(6)'
  BY Advance DEF Destroying, Nothing, Idle
<1> QED  BY <1>1, <1>4, <1>5, <1>6, <1>7 DEF Where

\* The last statements of a phase, and the loop.
LEMMA PhaseKeeps ==
    ASSUME IInv, Leave \/ Exit \/ Loop \/ ConnectionLost
    PROVE  IInv'
<1> USE DEF IInv
<1>1. UNCHANGED <<supervised, responder, wifi, telnet, onClientData_, clientPc,
                  clientFd, fd_, running_, callback_, joinable, terminated,
                  readerPc, currentFd, table, device, attached>>
  BY DEF Leave, Exit, Loop, ConnectionLost, clientVars, uartVars, members,
     reader, kernel
<1> USE <1>1
<1>2. Table' /\ Reading' /\ Client'
  BY DEF Table, Reading, Client, Calling, Idle
<1>3. CASE Leave
  <2>1. Unwinding(8) \/ ShuttingDown(9)
    BY <1>3, Position DEF Leave, At
  <2>2. Nothing
    BY <2>1 DEF Unwinding, ShuttingDown, Unread, Nothing, Idle, Reading
  <2>3. Destroying(1)'
    BY <1>3, <2>2, Whole DEF Leave, Destroying, Nothing, Idle
  <2> QED  BY <1>2, <2>3 DEF Where
<1>4. CASE Exit
  <2>1. Nothing
    BY <1>4, Position DEF Exit, At, Beginning, Destroying
  <2>2. Exited'
    BY <1>4, <2>1 DEF Exit, Exited, Nothing, Idle
  <2> QED  BY <1>2, <2>2 DEF Where
<1>5. CASE Loop \/ ConnectionLost
  <2>1. phase = "loop" /\ todo = <<>>
    BY <1>5 DEF Loop, ConnectionLost
  <2>2. Looping
    <3>1. ASSUME NEW k \in 1..7, Reopening(k) PROVE FALSE
      <4>1. Left(Reopen, k) /\ k \in 1..Len(Reopen)
        BY <3>1, ReopenIs DEF Reopening
      <4> QED  BY <2>1, <4>1, ReopenIs, Proceeds
    <3> QED
      BY <2>1, <3>1 DEF Where, Beginning, Starting, Unwinding, ShuttingDown,
         Destroying, Exited
  <2>3. CASE stop /\ phase' = "shutdown" /\ todo' = ShutdownScript
    <3>1. ShuttingDown(1)'
      BY <2>2, <2>3, Whole DEF Looping, ShuttingDown, MaybeOpened, Opened
    <3> QED  BY <1>2, <3>1 DEF Where
  <2>4. CASE todo' = <<"update">> /\ UNCHANGED phase
    <3>1. Looping'
      BY <2>2, <2>4 DEF Looping, Started, MaybeOpened, Opened, Attended, Idle
    <3> QED  BY <1>2, <3>1 DEF Where
  <2>5. CASE /\ supervised /\ readerPc = "done"
             /\ todo' = Reopen /\ UNCHANGED phase
    <3>1. Reopening(1)'
      BY <2>2, <2>5, Whole DEF Looping, Reopening, Started, MaybeOpened,
         Opened, Idle
    <3> QED  BY <1>2, <3>1 DEF Where
  <2> QED  BY <1>5, <2>3, <2>4, <2>5 DEF Loop, ConnectionLost
<1> QED  BY <1>3, <1>4, <1>5

-----------------------------------------------------------------------------
(* The theorems.                                                           *)

LEMMA Initially == Init => IInv
<1> SUFFICES ASSUME Init PROVE IInv
  OBVIOUS
<1>1. Table /\ Reading /\ Client
  BY DEF Init, UartInit, Table, Reading, Client, Calling, Idle
<1>2. Beginning
  BY DEF Init, UartInit, Beginning, Nothing, Unread, Idle
<1> QED  BY <1>1, <1>2 DEF IInv, Where

LEMMA Stuttering == IInv /\ UNCHANGED mvars => IInv'
<1> SUFFICES ASSUME IInv, UNCHANGED mvars PROVE IInv'
  OBVIOUS
<1> USE DEF mvars, programVars, clientVars, uartVars, members, reader, kernel
<1>1. /\ (Opened <=> Opened') /\ (Stale <=> Stale')
      /\ (Attended <=> Attended') /\ (Nothing <=> Nothing')
      /\ (Unread <=> Unread') /\ (Started <=> Started')
      /\ (MaybeOpened <=> MaybeOpened') /\ (Idle <=> Idle')
  BY DEF Opened, Stale, Attended, Nothing, Unread, Started, MaybeOpened, Idle
<1>2. Table' /\ Reading' /\ Client'
  BY <1>1 DEF IInv, Table, Reading, Client, Calling
<1>3. Beginning \/ Looping \/ Exited => (Beginning \/ Looping \/ Exited)'
  BY <1>1 DEF Beginning, Looping, Exited
<1>4. /\ \A k \in 1..11 : Starting(k) => Starting(k)'
      /\ \A k \in 1..8 : Unwinding(k) => Unwinding(k)'
      /\ \A k \in 1..7 : Reopening(k) => Reopening(k)'
      /\ \A k \in 1..9 : ShuttingDown(k) => ShuttingDown(k)'
      /\ \A k \in 1..10 : Destroying(k) => Destroying(k)'
  BY <1>1 DEF Starting, Unwinding, Reopening, ShuttingDown, Destroying, Left
<1>5. Where'
  BY <1>3, <1>4 DEF IInv, Where
<1> QED  BY <1>2, <1>5 DEF IInv

LEMMA Inductive == Spec => []IInv
<1>1. IInv /\ [Next]_mvars => IInv'
  <2> SUFFICES ASSUME IInv, [Next]_mvars PROVE IInv'
    OBVIOUS
  <2>1. CASE MainThread
    BY <2>1, BeginningKeeps, SimpleKeeps, WifiHttpKeep, UartKeeps,
       TelnetStartKeeps, TelnetCloseKeeps, TelnetJoinKeeps, PhaseKeeps DEF
       MainThread
  <2>2. CASE ConnectionLost
    BY <2>2, PhaseKeeps
  <2>3. CASE \/ Signal \/ ClientStalls \/ ClientReads
             \/ (Unplug \/ Plug) /\ UNCHANGED <<programVars, clientVars>>
    BY <2>3, OutsideKeeps
  <2>4. CASE ReadLoop
    BY <2>4, ReaderKeeps DEF ReadLoop
  <2>5. CASE ClientConnects \/ ClientLeaves \/ ClientSends
    BY <2>5, ClientKeeps
  <2>6. CASE UNCHANGED mvars
    BY <2>6, Stuttering
  <2> QED  BY <2>1, <2>2, <2>3, <2>4, <2>5, <2>6 DEF Next
<1> QED  BY Initially, <1>1, PTL DEF Spec

\* Only a client that is connected and was not shut down can hold up a send.
StallInv == stalled \in BOOLEAN /\ (stalled => telnet /\ clientPc # "away")

LEMMA Stalling == Spec => []StallInv
<1>1. Init => StallInv
  BY DEF Init, StallInv
<1>2. IInv /\ StallInv /\ [Next]_mvars => StallInv'
  <2> SUFFICES ASSUME IInv, StallInv, [Next]_mvars PROVE StallInv'
    OBVIOUS
  <2> USE DEF StallInv
  <2>1. ASSUME UNCHANGED <<telnet, clientVars>> PROVE StallInv'
    BY <2>1 DEF clientVars
  <2>2. CASE Parse \/ Create \/ InitStorage \/ Simple \/ Wifi \/ Http \/ Uart
    BY <2>1, <2>2 DEF Parse, Create, InitStorage, Simple, Wifi, Http, Uart
  <2>3. CASE Leave \/ Exit \/ Loop \/ ConnectionLost \/ Signal
    BY <2>1, <2>3 DEF Leave, Exit, Loop, ConnectionLost, Signal
  <2>4. CASE TelnetStart
    BY <2>4 DEF TelnetStart, clientVars
  <2>5. CASE TelnetClose
    BY <2>5 DEF TelnetClose
  <2>6. CASE TelnetJoin
    <3>1. ~telnet
      BY <2>6, Position DEF IInv, TelnetJoin, At, Unwinding, ShuttingDown,
         Destroying, Nothing
    <3> QED  BY <2>6, <3>1 DEF TelnetJoin
  <2>7. CASE ReadLoop \/ ((Unplug \/ Plug) /\ UNCHANGED <<programVars, clientVars>>)
    BY <2>1, <2>7 DEF ReadLoop, programVars
  <2>8. CASE ClientConnects \/ ClientLeaves
    <3>1. telnet' = telnet
      BY <2>8 DEF ClientConnects, ClientLeaves, programVars
    <3>2. ASSUME ClientConnects PROVE StallInv'
      <4>1. clientPc = "away" /\ clientPc' = "reading" /\ stalled' = stalled
        BY <3>2 DEF ClientConnects
      <4>2. clientPc' # "away"
        BY <4>1
      <4> QED  BY <3>1, <4>1, <4>2, Zenon
    <3>3. ASSUME ClientLeaves PROVE StallInv'
      <4>1. stalled' = FALSE
        BY <3>3 DEF ClientLeaves
      <4> QED  BY <4>1
    <3> QED  BY <2>8, <3>2, <3>3
  <2>9. CASE ClientSends
    BY <2>9 DEF ClientSends, programVars
  <2>10. CASE ClientStalls \/ ClientReads
    <3>1. ASSUME ClientStalls PROVE StallInv'
      <4>1. /\ stalled' = TRUE /\ telnet /\ clientPc # "away"
            /\ telnet' = telnet /\ clientPc' = clientPc
        BY <3>1 DEF ClientStalls, programVars
      <4> QED  BY <4>1, Zenon
    <3>2. ASSUME ClientReads PROVE StallInv'
      <4>1. stalled' = FALSE
        BY <3>2 DEF ClientReads
      <4> QED  BY <4>1
    <3> QED  BY <2>10, <3>1, <3>2
  <2>11. CASE UNCHANGED mvars
    BY <2>1, <2>11 DEF mvars, programVars
  <2> QED
    BY <2>2, <2>3, <2>4, <2>5, <2>6, <2>7, <2>8, <2>9, <2>10, <2>11
       DEF Next, MainThread
<1> QED  BY <1>1, <1>2, Inductive, PTL DEF Spec

\* A startup that fails and a shutdown leave no descriptor open, no thread
\* running or unjoined and no network up, whichever step failed and whatever
\* the read loop and the client did meanwhile (BridgeController::startup,
\* shutdown and the destructors at the end of main).
THEOREM NothingIsLeftAlways == Spec => []NothingIsLeft
<1>1. IInv => NothingIsLeft
  <2> SUFFICES ASSUME IInv, phase \in {"failed", "stopped", "exited"}
               PROVE  Nothing /\ \A f \in Fds : table[f] = "free"
    BY DEF NothingIsLeft, Nothing, Idle
  <2>1. Nothing
    BY DEF IInv, Where, Beginning, Starting, Unwinding, Looping, Reopening,
       ShuttingDown, Destroying, Exited
  <2>2. ASSUME NEW f \in Fds PROVE table[f] = "free"
    BY <2>1, UartAssumption DEF IInv, Table, Nothing, Fds, NoFd
  <2> QED  BY <2>1, <2>2
<1> QED  BY <1>1, Inductive, PTL

\* The device's data reaches the responder, and the client's the UART, only
\* while the responder exists and has its configuration: the callbacks are
\* wired after setConfig, and destroyed is what they use only after the threads
\* that call them.
THEOREM CallbacksFindThem == Spec => []CallbacksFindTheirObjects
<1>1. IInv /\ StallInv => CallbacksFindTheirObjects
  <2> SUFFICES ASSUME IInv, StallInv PROVE CallbacksFindTheirObjects
    OBVIOUS
  <2>1. phase = "loop" => telnet /\ wifi /\ onClientData_ /\ callback_
    BY DEF IInv, Where, Beginning, Starting, Unwinding, Looping, Reopening,
       ShuttingDown, Destroying, Exited, Started
  <2>2. TypeOK
    BY <2>1 DEF TypeOK, IInv, Table, Reading, Client, StallInv
  <2>3. ~Idle => responder = "configured"
    BY DEF IInv, Reading
  <2>4. Calling => responder = "configured"
    BY DEF IInv, Client
  <2> QED  BY <2>2, <2>3, <2>4 DEF CallbacksFindTheirObjects, Idle, Calling
<1> QED  BY <1>1, Inductive, Stalling, PTL

\* Unless somebody reopens the port, the descriptors that the read loop and
\* the client's thread took from fd_ are the port's when they use them, or
\* nobody's, although the main thread closes them and the kernel hands them
\* out again: nobody else is given a descriptor between the two.
THEOREM OnlyThePortAlways == Spec => []OnlyThePortIsUsed
<1>1. IInv => OnlyThePortIsUsed
  BY DEF IInv, Reading, Client, OnlyThePortIsUsed
<1> QED  BY <1>1, Inductive, PTL

\* After startup and after any number of reopenings, an open port whose device
\* stays has its read loop, and no thread is started in place of one that was
\* not joined (open, close and setOnDataCallback).
THEOREM OpenPortIsReadAlways == Spec => []OpenPortIsRead
<1>1. IInv => OpenPortIsRead
  <2> SUFFICES ASSUME IInv PROVE OpenPortIsRead
    OBVIOUS
  <2>1. ~terminated
    BY DEF IInv, Reading
  <2>2. phase = "loop" /\ todo = <<>> => Looping
    <3> SUFFICES ASSUME phase = "loop", todo = <<>> PROVE Looping
      OBVIOUS
    <3>1. ASSUME NEW k \in 1..7, Reopening(k) PROVE FALSE
      <4>1. Left(Reopen, k) /\ k \in 1..Len(Reopen)
        BY <3>1, ReopenIs DEF Reopening
      <4> QED  BY <4>1, ReopenIs, Proceeds
    <3> QED
      BY <3>1 DEF IInv, Where, Beginning, Starting, Unwinding, ShuttingDown,
         Destroying, Exited
  <2>3. Looping /\ fd_ # NoFd /\ attached => ~Idle
    BY DEF Looping, Attended
  <2> QED  BY <2>1, <2>2, <2>3 DEF OpenPortIsRead, Idle
<1> QED  BY <1>1, Inductive, PTL

-----------------------------------------------------------------------------
(* The configuration: what a document is refused for.                      *)

\* What a list of checks finds wrong in a document.
Wrongs(checks, d) ==
    {checks[i][1] : i \in {k \in 1..Len(checks) : ~Is(d, checks[k][1], checks[k][2])}}

LEMMA FirstFailureIs ==
    ASSUME NEW checks, Len(checks) \in Nat, NEW d
    PROVE  IF Wrongs(checks, d) = {} THEN FirstFailure(checks, d) = ""
           ELSE FirstFailure(checks, d) \in Wrongs(checks, d)
<1> DEFINE Bad == {k \in 1..Len(checks) : ~Is(d, checks[k][1], checks[k][2])}
<1>1. Wrongs(checks, d) = {} <=> Bad = {}
  BY DEF Wrongs
<1>2. CASE Bad = {}
  BY <1>1, <1>2 DEF FirstFailure
<1>3. CASE Bad # {}
  <2>1. Bad \subseteq Nat
    OBVIOUS
  <2>2. PICK i \in Bad : \A j \in Bad : <<j, i>> \notin OpToRel(<, Nat)
    BY <1>3, <2>1, NatLessThanWellFounded, WFMin
  <2>3. \A j \in Bad : i <= j
    <3> SUFFICES ASSUME NEW j \in Bad PROVE i <= j
      OBVIOUS
    <3>1. i \in Nat /\ j \in Nat /\ ~(j < i)
      BY <2>1, <2>2 DEF OpToRel
    <3> QED  BY <3>1
  <2> DEFINE first == CHOOSE k \in Bad : \A j \in Bad : k <= j
  <2>4. first \in Bad
    BY <2>2, <2>3
  <2>5. FirstFailure(checks, d) = checks[first][1]
    BY <1>3 DEF FirstFailure
  <2>6. checks[first][1] \in Wrongs(checks, d)
    BY <2>4 DEF Wrongs
  <2> QED  BY <1>1, <1>3, <2>5, <2>6
<1> QED  BY <1>2, <1>3

Check == {"uart", "uart.portName", "uart.baudRate", "uart.dataBits", "uart.parity",
          "uart.stopBits", "telnetPort", "commandSequence", Rules, Posts,
          "rule", "rule.trigger", "rule.response", "post", "post.command",
          "commandSequence.lineEnding", "commandSequence.promptTimeoutMs"}
         \X {"object", "array", "string", "uint"}

LEMMA WrongsOfBoth ==
    ASSUME NEW a \in Seq(Check), NEW b \in Seq(Check), NEW d
    PROVE  Wrongs(a \o b, d) = Wrongs(a, d) \cup Wrongs(b, d)
<1> DEFINE Bad(c) == {k \in 1..Len(c) : ~Is(d, c[k][1], c[k][2])}
<1>1. /\ Len(a) \in Nat /\ Len(b) \in Nat /\ Len(a \o b) = Len(a) + Len(b)
      /\ \A i \in 1..Len(a) + Len(b) :
            (a \o b)[i] = IF i <= Len(a) THEN a[i] ELSE b[i - Len(a)]
  BY ConcatProperties, LenProperties
<1> DEFINE c == a \o b
<1> HIDE DEF c
<1>2. /\ Len(c) = Len(a) + Len(b)
      /\ \A i \in 1..Len(a) + Len(b) : c[i] = IF i <= Len(a) THEN a[i] ELSE b[i - Len(a)]
  BY <1>1 DEF c
<1>3. ASSUME NEW i \in Bad(c) PROVE c[i][1] \in Wrongs(a, d) \cup Wrongs(b, d)
  <2>1. CASE i <= Len(a)
    <3>1. i \in Bad(a) /\ c[i] = a[i]
      BY <1>1, <1>2, <2>1
    <3> QED  BY <3>1 DEF Wrongs
  <2>2. CASE ~(i <= Len(a))
    <3>1. i - Len(a) \in Bad(b) /\ c[i] = b[i - Len(a)]
      BY <1>1, <1>2, <2>2
    <3> QED  BY <3>1 DEF Wrongs
  <2> QED  BY <2>1, <2>2
<1>4. ASSUME NEW i \in Bad(a) PROVE a[i][1] \in Wrongs(c, d)
  <2>1. i \in Bad(c) /\ c[i] = a[i]
    BY <1>1, <1>2
  <2> QED  BY <2>1 DEF Wrongs
<1>5. ASSUME NEW i \in Bad(b) PROVE b[i][1] \in Wrongs(c, d)
  <2>1. i + Len(a) \in 1..Len(a) + Len(b) /\ ~(i + Len(a) <= Len(a)) /\ (i + Len(a)) - Len(a) = i
    BY <1>1
  <2>2. i + Len(a) \in Bad(c) /\ c[i + Len(a)] = b[i]
    BY <1>1, <1>2, <2>1
  <2> QED  BY <2>2 DEF Wrongs
<1>6. Wrongs(c, d) = Wrongs(a, d) \cup Wrongs(b, d)
  <2>1. Wrongs(c, d) \subseteq Wrongs(a, d) \cup Wrongs(b, d)
    BY <1>3 DEF Wrongs
  <2>2. Wrongs(a, d) \subseteq Wrongs(c, d)
    BY <1>4 DEF Wrongs
  <2>3. Wrongs(b, d) \subseteq Wrongs(c, d)
    BY <1>5 DEF Wrongs
  <2> QED  BY <2>1, <2>2, <2>3
<1> QED  BY <1>6 DEF c

\* The checks, list by list.
Faults(d, paths) == {path \in paths : d[path].kind # Kind(path)}

LEMMA ChecksAre ==
    /\ BridgeChecks \in Seq(Check) /\ RuleChecks \in Seq(Check)
    /\ PostChecks \in Seq(Check) /\ EndChecks \in Seq(Check)
    /\ <<>> \in Seq(Check)
    /\ << <<"commandSequence", "object">>, <<Rules, "array">> >> \in Seq(Check)
    /\ << <<Posts, "array">> >> \in Seq(Check)
<1>1. BridgeChecks \in Seq(Check)
  <2>1. /\ <<"uart", "object">> \in Check /\ <<"uart.portName", "string">> \in Check
        /\ <<"uart.baudRate", "uint">> \in Check /\ <<"uart.dataBits", "uint">> \in Check
        /\ <<"uart.parity", "string">> \in Check /\ <<"uart.stopBits", "uint">> \in Check
        /\ <<"telnetPort", "uint">> \in Check
    BY DEF Check
  <2> HIDE DEF Check
  <2> QED  BY <2>1 DEF BridgeChecks
<1>2. RuleChecks \in Seq(Check)
  <2>1. /\ <<"rule", "object">> \in Check /\ <<"rule.trigger", "string">> \in Check
        /\ <<"rule.response", "string">> \in Check
    BY DEF Check
  <2> QED  BY <2>1 DEF RuleChecks
<1>3. PostChecks \in Seq(Check)
  <2>1. <<"post", "object">> \in Check /\ <<"post.command", "string">> \in Check
    BY DEF Check
  <2> QED  BY <2>1 DEF PostChecks
<1>4. EndChecks \in Seq(Check)
  <2>1. /\ <<"commandSequence.lineEnding", "string">> \in Check
        /\ <<"commandSequence.promptTimeoutMs", "uint">> \in Check
    BY DEF Check
  <2> QED  BY <2>1 DEF EndChecks
<1>5. << <<"commandSequence", "object">>, <<Rules, "array">> >> \in Seq(Check)
  <2>1. <<"commandSequence", "object">> \in Check /\ <<Rules, "array">> \in Check
    BY DEF Check, Rules
  <2> QED  BY <2>1
<1>6. << <<Posts, "array">> >> \in Seq(Check)
  <2>1. <<Posts, "array">> \in Check
    BY DEF Check, Posts
  <2> QED  BY <2>1
<1> QED  BY <1>1, <1>2, <1>3, <1>4, <1>5, <1>6

LEMMA WrongsOfEach ==
    ASSUME NEW d
    PROVE  /\ Wrongs(BridgeChecks, d) = Faults(d, {"uart"} \cup RequiredOfBridge)
           /\ Wrongs(RuleChecks, d) = Faults(d, {"rule"} \cup OfRule)
           /\ Wrongs(PostChecks, d) = Faults(d, {"post", "post.command"})
           /\ Wrongs(EndChecks, d) = Faults(d,
                {"commandSequence.lineEnding", "commandSequence.promptTimeoutMs"})
           /\ Wrongs(<<>>, d) = {}
           /\ Wrongs(<< <<"commandSequence", "object">>, <<Rules, "array">> >>, d)
                = Faults(d, {"commandSequence", Rules})
           /\ Wrongs(<< <<Posts, "array">> >>, d) = Faults(d, {Posts})
<1>1. Wrongs(BridgeChecks, d) = Faults(d, {"uart"} \cup RequiredOfBridge)
  BY DEF Wrongs, Is, BridgeChecks, Faults, RequiredOfBridge, Kind, Rules, Posts
<1>2. Wrongs(RuleChecks, d) = Faults(d, {"rule"} \cup OfRule)
  BY DEF Wrongs, Is, RuleChecks, Faults, OfRule, Kind, Rules, Posts
<1>3. Wrongs(PostChecks, d) = Faults(d, {"post", "post.command"})
  BY DEF Wrongs, Is, PostChecks, Faults, Kind, Rules, Posts
<1>4. Wrongs(EndChecks, d) = Faults(d,
                {"commandSequence.lineEnding", "commandSequence.promptTimeoutMs"})
  BY DEF Wrongs, Is, EndChecks, Faults, Kind, Rules, Posts
<1>5. Wrongs(<<>>, d) = {}
  BY DEF Wrongs
<1>6. Wrongs(<< <<"commandSequence", "object">>, <<Rules, "array">> >>, d)
        = Faults(d, {"commandSequence", Rules})
  BY DEF Wrongs, Is, Faults, Kind, Rules, Posts
<1>7. Wrongs(<< <<Posts, "array">> >>, d) = Faults(d, {Posts})
  BY DEF Wrongs, Is, Faults, Kind, Rules, Posts
<1> QED  BY <1>1, <1>2, <1>3, <1>4, <1>5, <1>6, <1>7

\* What a posted sequence, and a file, must have.
SequenceMust(d) ==
    {"commandSequence", Rules, Posts, "commandSequence.lineEnding",
     "commandSequence.promptTimeoutMs"}
    \cup (IF HasElement(d, Rules) THEN {"rule"} \cup OfRule ELSE {})
    \cup (IF HasElement(d, Posts) THEN {"post", "post.command"} ELSE {})

LEMMA WrongsAreFaults ==
    ASSUME NEW d
    PROVE  /\ SequenceChecks(d) \in Seq(Check)
           /\ Wrongs(SequenceChecks(d), d) = Faults(d, SequenceMust(d))
           /\ Wrongs(BridgeChecks \o SequenceChecks(d), d) = Faults(d, MustHave(d))
<1> DEFINE first == << <<"commandSequence", "object">>, <<Rules, "array">> >>
           rule == IF HasElement(d, Rules) THEN RuleChecks ELSE <<>>
           array == << <<Posts, "array">> >>
           post == IF HasElement(d, Posts) THEN PostChecks ELSE <<>>
           R == IF HasElement(d, Rules) THEN {"rule"} \cup OfRule ELSE {}
           P == IF HasElement(d, Posts) THEN {"post", "post.command"} ELSE {}
<1>1. /\ first \in Seq(Check) /\ rule \in Seq(Check) /\ array \in Seq(Check)
      /\ post \in Seq(Check) /\ EndChecks \in Seq(Check) /\ BridgeChecks \in Seq(Check)
  BY ChecksAre
<1>2. /\ Wrongs(first, d) = Faults(d, {"commandSequence", Rules})
      /\ Wrongs(rule, d) = Faults(d, R)
      /\ Wrongs(array, d) = Faults(d, {Posts})
      /\ Wrongs(post, d) = Faults(d, P)
      /\ Wrongs(EndChecks, d) = Faults(d,
            {"commandSequence.lineEnding", "commandSequence.promptTimeoutMs"})
      /\ Wrongs(BridgeChecks, d) = Faults(d, {"uart"} \cup RequiredOfBridge)
  BY WrongsOfEach DEF Faults
<1>3. SequenceChecks(d) = (((first \o rule) \o array) \o post) \o EndChecks
  BY DEF SequenceChecks
<1> HIDE DEF first, rule, array, post, R, P
<1> DEFINE s2 == first \o rule
           s3 == s2 \o array
           s4 == s3 \o post
<1>4. /\ s2 \in Seq(Check) /\ s3 \in Seq(Check) /\ s4 \in Seq(Check)
      /\ SequenceChecks(d) \in Seq(Check)
  BY <1>1, <1>3, ConcatProperties
<1>5. Wrongs(SequenceChecks(d), d) =
        (((Wrongs(first, d) \cup Wrongs(rule, d)) \cup Wrongs(array, d))
          \cup Wrongs(post, d)) \cup Wrongs(EndChecks, d)
  <2>1. Wrongs(s2, d) = Wrongs(first, d) \cup Wrongs(rule, d)
    BY <1>1, WrongsOfBoth
  <2> HIDE DEF s2
  <2>2. Wrongs(s3, d) = Wrongs(s2, d) \cup Wrongs(array, d)
    BY <1>1, <1>4, WrongsOfBoth
  <2> HIDE DEF s3
  <2>3. Wrongs(s4, d) = Wrongs(s3, d) \cup Wrongs(post, d)
    BY <1>1, <1>4, WrongsOfBoth
  <2>4. SequenceChecks(d) = s4 \o EndChecks
    BY <1>3 DEF s2, s3
  <2> HIDE DEF s4
  <2>5. Wrongs(SequenceChecks(d), d) = Wrongs(s4, d) \cup Wrongs(EndChecks, d)
    BY <1>1, <1>4, <2>4, WrongsOfBoth
  <2> QED  BY <2>1, <2>2, <2>3, <2>5
<1>6. Wrongs(SequenceChecks(d), d) = Faults(d, SequenceMust(d))
  BY <1>2, <1>5 DEF Faults, SequenceMust, R, P
<1>7. Wrongs(BridgeChecks \o SequenceChecks(d), d) = Faults(d, MustHave(d))
  <2>1. Wrongs(BridgeChecks \o SequenceChecks(d), d)
          = Wrongs(BridgeChecks, d) \cup Wrongs(SequenceChecks(d), d)
    BY <1>1, <1>4, WrongsOfBoth
  <2>2. MustHave(d) = ({"uart"} \cup RequiredOfBridge) \cup SequenceMust(d)
    BY DEF MustHave, SequenceMust
  <2> QED  BY <1>2, <1>6, <2>1, <2>2 DEF Faults
<1> QED  BY <1>4, <1>6, <1>7

\* What a document is refused for.
LEMMA Refusals ==
    ASSUME NEW d
    PROVE  /\ FaultIsNamed(d)
           /\ ParseError(d) = "" => Faults(d, MustHave(d)) = {}
           /\ Faults(d, MustHave(d)) = {} => ParseError(d) = ""
           /\ SequenceError(d) = "" <=> Faults(d, SequenceMust(d)) = {}
<1> DEFINE all == BridgeChecks \o SequenceChecks(d)
<1>1. SequenceChecks(d) \in Seq(Check) /\ all \in Seq(Check)
  BY WrongsAreFaults, ChecksAre, ConcatProperties
<1>2. Len(SequenceChecks(d)) \in Nat /\ Len(all) \in Nat
  BY <1>1, LenProperties
<1> HIDE DEF all
<1>3. IF Faults(d, MustHave(d)) = {} THEN ParseError(d) = ""
      ELSE ParseError(d) \in Faults(d, MustHave(d))
  BY <1>2, FirstFailureIs, WrongsAreFaults DEF ParseError, all
<1>4. IF Faults(d, SequenceMust(d)) = {} THEN SequenceError(d) = ""
      ELSE SequenceError(d) \in Faults(d, SequenceMust(d))
  BY <1>2, FirstFailureIs, WrongsAreFaults DEF SequenceError
<1>5. "" \notin MustHave(d) /\ "" \notin SequenceMust(d)
  BY DEF MustHave, SequenceMust, RequiredOfBridge, OfRule, Rules, Posts
<1> QED  BY <1>3, <1>4, <1>5 DEF Faults, FaultIsNamed

LEMMA DefaultPaths ==
    DOMAIN Defaults =
        {"httpPort", "displayTimeoutMs", "wifi.ssid", "wifi.password", "logDir",
         "networkInterface", "post.expectedPrompt", "post.delayMs"}
BY DEF Defaults

LEMMA DefaultsAre ==
    /\ Defaults["httpPort"] = Num(80)
    /\ Defaults["displayTimeoutMs"] = Num(60000)
    /\ Defaults["post.delayMs"] = Num(500)
    /\ Defaults["wifi.ssid"] = Text("") /\ Defaults["wifi.password"] = Text("")
    /\ Defaults["logDir"] = Text("") /\ Defaults["networkInterface"] = Text("")
    /\ Defaults["post.expectedPrompt"] = Text("")
BY DEF Defaults

\* The paths of a configuration, by what is made of them.
LEMMA PathsAre ==
    /\ OfRule = {"rule.trigger", "rule.response"}
    /\ OfPost = {"post.command", "post.expectedPrompt", "post.delayMs"}
    /\ OfSequence = {"rule.trigger", "rule.response", "post.command",
          "post.expectedPrompt", "post.delayMs", Rules, Posts,
          "commandSequence.lineEnding", "commandSequence.promptTimeoutMs"}
    /\ OfBridge = {"uart.portName", "uart.baudRate", "uart.dataBits", "uart.parity",
          "uart.stopBits", "telnetPort", "httpPort", "displayTimeoutMs", "wifi.ssid",
          "wifi.password", "logDir", "networkInterface"}
    /\ Paths = OfSequence \cup OfBridge \cup
          {"uart", "wifi", "wifi.maxRetries", "commandSequence", "rule", "post"}
<1>1. OfBridge = {"uart.portName", "uart.baudRate", "uart.dataBits", "uart.parity",
          "uart.stopBits", "telnetPort", "httpPort", "displayTimeoutMs", "wifi.ssid",
          "wifi.password", "logDir", "networkInterface"}
  <2>1. (DOMAIN Defaults) \ OfPost = {"httpPort", "displayTimeoutMs", "wifi.ssid",
          "wifi.password", "logDir", "networkInterface"}
    BY DefaultPaths DEF OfPost
  <2> QED  BY <2>1 DEF OfBridge, RequiredOfBridge
<1>2. OfSequence = {"rule.trigger", "rule.response", "post.command",
          "post.expectedPrompt", "post.delayMs", Rules, Posts,
          "commandSequence.lineEnding", "commandSequence.promptTimeoutMs"}
  BY DEF OfSequence, OfRule, OfPost
<1>3. Paths = OfSequence \cup OfBridge \cup
          {"uart", "wifi", "wifi.maxRetries", "commandSequence", "rule", "post"}
  BY DEF Paths
<1> QED  BY <1>1, <1>2, <1>3 DEF OfRule, OfPost

\* What a value of each kind is.
LEMMA ValuesAre ==
    ASSUME NEW x \in Values
    PROVE  /\ x.kind = "uint" => x.v.n \in Nat /\ x.v = Num(x.v.n)
           /\ x.kind = "array" => x.v = Num(0) \/ x.v = Num(1)
           /\ x.kind = "int" => x.v.n \in Int /\ x.v = Num(x.v.n)
BY DEF Values, Num

LEMMA Unlike == Num(0) # Num(1)
<1>1. Num(0).n = 0 /\ Num(1).n = 1
  BY DEF Num
<1> QED  BY <1>1

\* What is posted means the same to both platforms.
LEMMA BothAgree ==
    ASSUME NEW d \in [Paths -> Values] PROVE ParsersAgree(d)
<1>1. M5Accepts(d) <=> Faults(d, SequenceMust(d)) = {}
  BY DEF M5Accepts, Faults, SequenceMust, Kind, Is, OfRule, Rules, Posts
<1>2. ASSUME M5Accepts(d) PROVE M5Sequence(d) = SequenceOf(d)
  <2>1. /\ d[Rules].v = Num(0) \/ d[Rules].v = Num(1)
        /\ d[Posts].v = Num(0) \/ d[Posts].v = Num(1)
    BY <1>2, PathsAre, ValuesAre DEF M5Accepts, Is
  <2>2. /\ HasElement(d, Rules) <=> d[Rules].v # Num(0)
        /\ HasElement(d, Posts) <=> d[Posts].v # Num(0)
    BY <1>2, <2>1, Unlike DEF M5Accepts, HasElement
  <2>3. ASSUME NEW path \in OfSequence PROVE M5Value(d, path) = Taken(d, path)
    <3>1. CASE path \in OfRule
      <4>1. path \notin OfPost /\ path \notin DOMAIN Defaults /\ Narrow(path, d[path].v) = d[path].v
            /\ path # "post.expectedPrompt" /\ path # "post.delayMs"
        BY <3>1, DefaultPaths DEF OfRule, OfPost, Narrow
      <4> QED  BY <2>2, <3>1, <4>1 DEF M5Value, Taken, Absent
    <3>2. CASE path \in OfPost
      <4>1. path \notin OfRule
        BY <3>2 DEF OfRule, OfPost
      <4>2. CASE ~HasElement(d, Posts)
        <5>1. d[Posts].v = Num(0)
          BY <2>2, <4>2
        <5>2. M5Value(d, path) = NoElement
          BY <3>2, <4>1, <5>1 DEF M5Value
        <5>3. Taken(d, path) = NoElement
          BY <3>2, <4>1, <4>2 DEF Taken, Absent
        <5> QED  BY <5>2, <5>3
      <4>3. CASE HasElement(d, Posts) /\ path = "post.command"
        <5>1. path \notin DOMAIN Defaults /\ Narrow(path, d[path].v) = d[path].v
          BY <4>3, DefaultPaths DEF Narrow
        <5> QED  BY <2>2, <3>2, <4>1, <4>3, <5>1 DEF M5Value, Taken, Absent
      <4>4. CASE HasElement(d, Posts) /\ path = "post.expectedPrompt"
        <5>1. /\ path \in DOMAIN Defaults /\ Narrow(path, d[path].v) = d[path].v
              /\ Defaults[path] = Text("") /\ OptionalKind(path) = "string"
              /\ path \notin InWifi
          <6>1. path \in DOMAIN Defaults
            BY <4>4, DefaultPaths
          <6>2. Defaults[path] = Text("")
            BY <4>4 DEF Defaults
          <6>3. /\ OptionalKind(path) = "string" /\ path \notin InWifi
                /\ Narrow(path, d[path].v) = d[path].v
            BY <4>4 DEF OptionalKind, InWifi, Narrow
          <6> QED  BY <6>1, <6>2, <6>3
        <5>2. Taken(d, path) = OptionalValue(d, path)
          BY <4>1, <4>4, <5>1 DEF Taken, Absent
        <5>3. M5Value(d, path) = IF Is(d, path, "string") THEN d[path].v ELSE Text("")
          BY <2>2, <4>1, <4>4 DEF M5Value
        <5> QED  BY <5>1, <5>2, <5>3 DEF OptionalValue, Given
      <4>5. CASE HasElement(d, Posts) /\ path = "post.delayMs"
        <5>1. /\ path \in DOMAIN Defaults /\ Narrow(path, d[path].v) = d[path].v
              /\ Defaults[path] = Num(500) /\ OptionalKind(path) = "uint"
              /\ path \notin InWifi
          <6>1. path \in DOMAIN Defaults
            BY <4>5, DefaultPaths
          <6>2. Defaults[path] = Num(500)
            BY <4>5 DEF Defaults
          <6>3. /\ OptionalKind(path) = "uint" /\ path \notin InWifi
                /\ Narrow(path, d[path].v) = d[path].v
            BY <4>5 DEF OptionalKind, InWifi, Narrow
          <6> QED  BY <6>1, <6>2, <6>3
        <5>2. Taken(d, path) = OptionalValue(d, path)
          BY <4>1, <4>5, <5>1 DEF Taken, Absent
        <5>3. M5Value(d, path) = IF Is(d, path, "uint") THEN d[path].v ELSE Num(500)
          BY <2>2, <4>1, <4>5 DEF M5Value
        <5> QED  BY <5>1, <5>2, <5>3 DEF OptionalValue, Given
      <4> QED  BY <3>2, <4>2, <4>3, <4>4, <4>5 DEF OfPost
    <3>3. CASE path \notin OfRule \cup OfPost
      <4>1. /\ path \notin DOMAIN Defaults /\ Narrow(path, d[path].v) = d[path].v
            /\ path # "post.expectedPrompt" /\ path # "post.delayMs"
        BY <3>3, PathsAre, DefaultPaths DEF Narrow, Rules, Posts
      <4> QED  BY <3>3, <4>1 DEF M5Value, Taken, Absent
    <3> QED  BY <3>1, <3>2, <3>3
  <2> QED  BY <2>3 DEF M5Sequence, SequenceOf
<1> QED  BY <1>1, <1>2, Refusals DEF ParsersAgree

\* A configuration that was read.
ConfigPaths == OfSequence \cup OfBridge \cup {"wifi.maxRetries"}
WasRead(d, config) == Faults(d, MustHave(d)) = {} /\ config \in ParseJson(d)

LEMMA KindsAgree ==
    ASSUME NEW path \in DOMAIN Defaults PROVE OptionalKind(path) = Kind(path)
BY DefaultPaths DEF OptionalKind, Kind, Rules, Posts

LEMMA ReadOf ==
    ASSUME NEW d, NEW config, WasRead(d, config)
    PROVE  /\ DOMAIN config = ConfigPaths
           /\ config = [path \in ConfigPaths |-> config[path]]
           /\ config["wifi.maxRetries"] \in MaxRetries(d)
           /\ \A path \in OfSequence \cup OfBridge : config[path] = Taken(d, path)
<1>1. PICK retries \in MaxRetries(d) :
        config = [path \in ConfigPaths |->
                    IF path = "wifi.maxRetries" THEN retries ELSE Taken(d, path)]
  BY DEF WasRead, ParseJson, ConfigPaths
<1>2. "wifi.maxRetries" \notin OfSequence \cup OfBridge
  BY PathsAre DEF Rules, Posts
<1> QED  BY <1>1, <1>2 DEF ConfigPaths

\* What a member that is not optional has.
LEMMA Required ==
    ASSUME NEW d, Faults(d, MustHave(d)) = {},
           NEW path \in OfSequence \cup OfBridge,
           ~Absent(d, path), path \notin DOMAIN Defaults
    PROVE  d[path].kind = Kind(path)
<1>1. path \in MustHave(d)
  <2>1. CASE path \in OfRule
    BY <2>1 DEF Absent, MustHave
  <2>2. CASE path \in OfPost
    <3>1. path = "post.command"
      BY <2>2, DefaultPaths DEF OfPost
    <3>2. HasElement(d, Posts)
      BY <2>2 DEF Absent
    <3> QED  BY <3>1, <3>2 DEF MustHave
  <2>3. CASE path \in RequiredOfBridge
    BY <2>3 DEF MustHave
  <2>4. CASE path \in {Rules, Posts, "commandSequence.lineEnding",
                        "commandSequence.promptTimeoutMs"}
    BY <2>4 DEF MustHave
  <2> QED  BY <2>1, <2>2, <2>3, <2>4 DEF OfSequence, OfBridge
<1> QED  BY <1>1 DEF Faults

LEMMA AlwaysMeant ==
    ASSUME NEW d, NEW config, WasRead(d, config)
    PROVE  IsMeant(d, config)
<1> SUFFICES ASSUME NEW path \in OfSequence \cup OfBridge, ~Absent(d, path)
             PROVE  \/ /\ d[path].kind = Kind(path)
                       /\ config[path] = Narrow(path, d[path].v)
                    \/ /\ d[path].kind # Kind(path) /\ path \in DOMAIN Defaults
                       /\ config[path] = Defaults[path]
                    \/ path \in InWifi /\ ~Is(d, "wifi", "object")
  <2>1. \A path \in OfSequence \cup OfBridge :
            Absent(d, path) => config[path] = NoElement
    BY ReadOf DEF Taken
  <2> QED  BY <2>1, ReadOf DEF IsMeant, ConfigPaths
<1>1. config[path] = Taken(d, path)
  BY ReadOf
<1>2. CASE path \in DOMAIN Defaults
  BY <1>1, <1>2, KindsAgree DEF Taken, OptionalValue, Given, Is
<1>3. CASE path \notin DOMAIN Defaults
  <2>1. config[path] = Narrow(path, d[path].v)
    BY <1>1, <1>3 DEF Taken
  <2> QED  BY <1>3, <2>1, Required DEF WasRead
<1> QED  BY <1>2, <1>3

\* Taking away what does not fit once is enough.
LEMMA NarrowOnce ==
    ASSUME NEW path, NEW n \in Nat
    PROVE  Narrow(path, Narrow(path, Num(n))) = Narrow(path, Num(n))
<1>1. \A k \in Nat : Num(k).n = k
  BY DEF Num
<1>2. /\ n % 256 \in Nat /\ (n % 256) % 256 = n % 256
      /\ n % 65536 \in Nat /\ (n % 65536) % 65536 = n % 65536
  OBVIOUS
<1>3. CASE path \in {"uart.dataBits", "uart.stopBits"}
  <2>1. \A v : Narrow(path, v) = Num(v.n % 256)
    BY <1>3 DEF Narrow
  <2> QED  BY <1>1, <1>2, <2>1
<1>4. CASE path \in {"telnetPort", "httpPort"}
  <2>1. \A v : Narrow(path, v) = Num(v.n % 65536)
    BY <1>4 DEF Narrow
  <2> QED  BY <1>1, <1>2, <2>1
<1>5. CASE path \notin {"uart.dataBits", "uart.stopBits", "telnetPort", "httpPort"}
  <2>1. \A v : Narrow(path, v) = v
    BY <1>5 DEF Narrow
  <2> QED  BY <2>1
<1> QED  BY <1>3, <1>4, <1>5

\* What is known of the members that were read.
LEMMA ReadIsSound ==
    ASSUME NEW d \in [Paths -> Values], NEW config, WasRead(d, config)
    PROVE  /\ config[Rules] = Num(0) \/ config[Rules] = Num(1)
           /\ config[Posts] = Num(0) \/ config[Posts] = Num(1)
           /\ config["wifi.maxRetries"].n \in Int
           /\ config["wifi.maxRetries"].n <= MaxInt
           /\ \A path \in OfSequence \cup OfBridge :
                 /\ Narrow(path, config[path]) = config[path]
                 /\ path \in OfRule /\ config[Rules] # Num(1) => config[path] = NoElement
                 /\ path \in OfPost /\ config[Posts] # Num(1) => config[path] = NoElement
<1>1. ASSUME NEW list \in {Rules, Posts}
      PROVE  /\ config[list] = d[list].v
             /\ config[list] = Num(0) \/ config[list] = Num(1)
             /\ config[list] = Num(1) => HasElement(d, list)
  <2>1. /\ list \in OfSequence /\ list \in Paths /\ list \notin OfRule
        /\ list \notin OfPost /\ list \notin DOMAIN Defaults
        /\ Narrow(list, d[list].v) = d[list].v /\ Kind(list) = "array"
    <3>1. list \in OfSequence /\ list \in Paths /\ list \notin OfRule /\ list \notin OfPost
      BY PathsAre DEF Rules, Posts
    <3>2. list \notin DOMAIN Defaults
      BY DefaultPaths DEF Rules, Posts
    <3>3. Narrow(list, d[list].v) = d[list].v /\ Kind(list) = "array"
      BY DEF Narrow, Kind, Rules, Posts
    <3> QED  BY <3>1, <3>2, <3>3
  <2>2. ~Absent(d, list)
    BY <2>1 DEF Absent
  <2>3. config[list] = d[list].v
    BY <2>1, <2>2, ReadOf DEF Taken
  <2>4. d[list].kind = "array"
    BY <2>1, <2>2, Required DEF WasRead
  <2>5. d[list].v = Num(0) \/ d[list].v = Num(1)
    BY <2>1, <2>4, ValuesAre
  <2> QED  BY <2>3, <2>4, <2>5 DEF HasElement, Is
<1>2. /\ config["wifi.maxRetries"].n \in Int
      /\ config["wifi.maxRetries"].n <= MaxInt
  <2>1. "wifi.maxRetries" \in Paths
    BY PathsAre
  <2>2. \A k \in Int : Num(k).n = k
    BY DEF Num
  <2>3. config["wifi.maxRetries"] \in MaxRetries(d)
    BY ReadOf
  <2>4. CASE config["wifi.maxRetries"] = d["wifi.maxRetries"].v
             /\ d["wifi.maxRetries"].kind \in {"uint", "int"}
             /\ d["wifi.maxRetries"].v.n <= MaxInt
    BY <2>1, <2>4, ValuesAre
  <2>5. CASE config["wifi.maxRetries"] \in {Num(k) : k \in Indeterminate}
    BY <2>2, <2>5, ConfigAssumption
  <2> QED  BY <2>3, <2>4, <2>5 DEF MaxRetries
<1>3. ASSUME NEW path \in OfSequence \cup OfBridge
      PROVE  /\ path \in OfRule /\ config[Rules] # Num(1) => config[path] = NoElement
             /\ path \in OfPost /\ config[Posts] # Num(1) => config[path] = NoElement
  <2>1. \A list \in {Rules, Posts} : HasElement(d, list) => config[list] = Num(1)
    BY <1>1 DEF HasElement
  <2>2. Absent(d, path) => config[path] = NoElement
    BY ReadOf DEF Taken
  <2> QED  BY <2>1, <2>2 DEF Absent
<1>4. ASSUME NEW path \in OfSequence \cup OfBridge
      PROVE  Narrow(path, config[path]) = config[path]
  <2>1. CASE path \notin {"uart.dataBits", "uart.stopBits", "telnetPort", "httpPort"}
    BY <2>1 DEF Narrow
  <2>2. CASE path \in {"uart.dataBits", "uart.stopBits", "telnetPort", "httpPort"}
    <3>1. path \notin OfRule /\ path \notin OfPost /\ path \in Paths
      BY <2>2, PathsAre
    <3>2. config[path] = Taken(d, path) /\ ~Absent(d, path)
      BY <3>1, ReadOf DEF Absent
    <3>3. Kind(path) = "uint" /\ OptionalKind("httpPort") = "uint"
      BY <2>2 DEF Kind, OptionalKind, Rules, Posts
    <3>4. CASE d[path].kind = "uint" /\ config[path] = Narrow(path, d[path].v)
      BY <3>1, <3>4, ValuesAre, NarrowOnce
    <3>5. CASE path = "httpPort" /\ config[path] = Num(80)
      <4>1. Narrow(path, Num(80)) = Num(Num(80).n % 65536)
        BY <3>5 DEF Narrow
      <4>2. Num(80).n = 80
        BY DEF Num
      <4> QED  BY <3>5, <4>1, <4>2
    <3>6. CASE path \in DOMAIN Defaults
      <4>1. path = "httpPort"
        BY <2>2, <3>6, DefaultPaths
      <4>2. Defaults[path] = Num(80)
        BY <4>1 DEF Defaults
      <4>3. config[path] = OptionalValue(d, path)
        BY <3>2, <3>6 DEF Taken
      <4>4. CASE Given(d, path)
        BY <3>3, <3>4, <4>1, <4>3, <4>4 DEF Given, OptionalValue, Is
      <4>5. CASE ~Given(d, path)
        BY <3>5, <4>1, <4>2, <4>3, <4>5 DEF OptionalValue
      <4> QED  BY <4>4, <4>5
    <3>7. CASE path \notin DOMAIN Defaults
      <4>1. d[path].kind = "uint"
        BY <3>2, <3>3, <3>7, Required DEF WasRead
      <4> QED  BY <3>2, <3>4, <3>7, <4>1 DEF Taken
    <3> QED  BY <3>6, <3>7
  <2> QED  BY <2>1, <2>2
<1> QED  BY <1>1, <1>2, <1>3, <1>4

\* What is printed of a member, and read again.
LEMMA PrintedIs ==
    ASSUME NEW config, NEW path \in Paths, path # "wifi.maxRetries"
    PROVE  LET printed == SerializeBridgeConfig(config)
           IN  /\ Printed(config, path) => printed[path].kind = Kind(path)
               /\ Printed(config, path) /\ Kind(path) # "object" =>
                     printed[path].v = config[path]
               /\ ~Printed(config, path) => printed[path].kind = "missing"
<1> DEFINE printed == SerializeBridgeConfig(config)
<1>1. printed[path] = PrintedValue(config, path)
  BY DEF SerializeBridgeConfig
<1> HIDE DEF printed
<1>2. CASE ~Printed(config, path)
  <2>1. printed[path] = Missing
    BY <1>1, <1>2 DEF PrintedValue
  <2> QED  BY <1>2, <2>1 DEF Missing, Value, printed
<1>3. CASE Printed(config, path) /\ Kind(path) = "object"
  <2>1. printed[path] = Value("object", Num(0))
    BY <1>1, <1>3 DEF PrintedValue
  <2> QED  BY <1>3, <2>1 DEF Value, printed
<1>4. CASE Printed(config, path) /\ Kind(path) # "object"
  <2>1. printed[path] = Value(Kind(path), config[path])
    BY <1>1, <1>4 DEF PrintedValue
  <2> QED  BY <1>4, <2>1 DEF Value, printed
<1> QED  BY <1>2, <1>3, <1>4 DEF printed

LEMMA AlwaysSurvives ==
    ASSUME NEW d \in [Paths -> Values], NEW config, WasRead(d, config)
    PROVE  SurvivesPrinting(config)
<1> DEFINE printed == SerializeBridgeConfig(config)
<1>1. ASSUME NEW path \in Paths, path # "wifi.maxRetries"
      PROVE  /\ Printed(config, path) => printed[path].kind = Kind(path)
             /\ Printed(config, path) /\ Kind(path) # "object" =>
                   printed[path].v = config[path]
             /\ ~Printed(config, path) => printed[path].kind = "missing"
  BY <1>1, PrintedIs
<1>2. printed["wifi.maxRetries"] =
        Value(IF config["wifi.maxRetries"].n < 0 THEN "int" ELSE "uint",
              config["wifi.maxRetries"])
  <2>1. "wifi.maxRetries" \in Paths
    BY PathsAre
  <2>2. Printed(config, "wifi.maxRetries")
    BY DEF Printed, OfRule, OfPost
  <2>3. Kind("wifi.maxRetries") # "object"
    BY DEF Kind, Rules, Posts
  <2>4. printed["wifi.maxRetries"] = PrintedValue(config, "wifi.maxRetries")
    BY <2>1 DEF SerializeBridgeConfig
  <2> HIDE DEF printed
  <2> QED  BY <2>2, <2>3, <2>4 DEF PrintedValue
<1> HIDE DEF printed
<1>3. ASSUME NEW path \in {"uart", "wifi", "commandSequence", Rules, Posts}
      PROVE  path \in Paths /\ path # "wifi.maxRetries" /\ Printed(config, path)
  <2>1. path \in Paths /\ path # "wifi.maxRetries"
    BY PathsAre DEF Rules, Posts
  <2>2. Printed(config, path)
    BY DEF Printed, OfRule, OfPost, Rules, Posts
  <2> QED  BY <2>1, <2>2
<1>4. /\ HasElement(printed, Rules) <=> config[Rules] = Num(1)
      /\ HasElement(printed, Posts) <=> config[Posts] = Num(1)
  <2>1. Kind(Rules) = "array" /\ Kind(Posts) = "array"
    BY DEF Kind, Rules, Posts
  <2> QED  BY <1>1, <1>3, <2>1 DEF HasElement, Is
<1>5. ParseError(printed) = ""
  <2>1. ASSUME NEW path \in MustHave(printed) PROVE printed[path].kind = Kind(path)
    <3>1. CASE path \in {"uart", "commandSequence", Rules, Posts}
      BY <1>1, <1>3, <3>1
    <3>2. CASE path \in OfRule \cup {"rule"} /\ HasElement(printed, Rules)
      <4>1. path \in Paths /\ path # "wifi.maxRetries"
        BY <3>2, PathsAre
      <4>2. path \notin OfPost \cup {"post"} /\ path \notin {"logDir", "networkInterface"}
        BY <3>2 DEF OfRule, OfPost
      <4>3. Printed(config, path)
        BY <1>4, <3>2, <4>2 DEF Printed
      <4> QED  BY <1>1, <4>1, <4>3
    <3>3. CASE path \in {"post", "post.command"} /\ HasElement(printed, Posts)
      <4>1. path \in Paths /\ path # "wifi.maxRetries"
        BY <3>3, PathsAre
      <4>2. /\ path \in OfPost \cup {"post"} /\ path \notin OfRule \cup {"rule"}
            /\ path \notin {"logDir", "networkInterface"}
        BY <3>3 DEF OfRule, OfPost
      <4>3. Printed(config, path)
        BY <1>4, <3>3, <4>2 DEF Printed
      <4> QED  BY <1>1, <4>1, <4>3
    <3>4. CASE path \in RequiredOfBridge \cup {"commandSequence.lineEnding",
                                               "commandSequence.promptTimeoutMs"}
      <4>1. path \in Paths /\ path # "wifi.maxRetries"
        BY <3>4, PathsAre DEF RequiredOfBridge
      <4>2. Printed(config, path)
        BY <3>4 DEF Printed, OfRule, OfPost, RequiredOfBridge
      <4> QED  BY <1>1, <4>1, <4>2
    <3> QED  BY <3>1, <3>2, <3>3, <3>4 DEF MustHave
  <2> QED  BY <2>1, Refusals DEF Faults
<1>6. MaxRetries(printed) = {config["wifi.maxRetries"]}
  <2>1. Is(printed, "wifi", "object")
    <3>1. Kind("wifi") = "object"
      BY DEF Kind, Rules, Posts
    <3> QED  BY <1>1, <1>3, <3>1 DEF Is
  <2>2. /\ printed["wifi.maxRetries"].kind \in {"uint", "int"}
        /\ printed["wifi.maxRetries"].v = config["wifi.maxRetries"]
        /\ printed["wifi.maxRetries"].v.n <= MaxInt
    BY <1>2, ReadIsSound DEF Value
  <2> QED  BY <2>1, <2>2 DEF MaxRetries
<1>7. ASSUME NEW path \in OfSequence \cup OfBridge
      PROVE  Taken(printed, path) = config[path]
  <2>1. /\ path \in Paths /\ path # "wifi.maxRetries" /\ Kind(path) # "object"
        /\ Kind(path) # "missing"
    <3>1. path \in Paths /\ path # "wifi.maxRetries"
      BY PathsAre DEF Rules, Posts
    <3>2. path \notin {"uart", "wifi", "commandSequence", "rule", "post"}
      BY PathsAre DEF Rules, Posts
    <3> QED  BY <3>1, <3>2 DEF Kind
  <2>2. CASE Absent(printed, path)
    BY <1>4, <2>2, ReadIsSound DEF Absent, Taken
  <2>3. CASE ~Absent(printed, path) /\ Printed(config, path)
    <3>1. printed[path].kind = Kind(path) /\ printed[path].v = config[path]
      BY <1>1, <2>1, <2>3
    <3>2. Narrow(path, printed[path].v) = config[path]
      BY <3>1, ReadIsSound
    <3>3. CASE path \in DOMAIN Defaults
      <4>1. Is(printed, "wifi", "object")
        <5>1. Kind("wifi") = "object"
          BY DEF Kind, Rules, Posts
        <5> QED  BY <1>1, <1>3, <5>1 DEF Is
      <4>2. Given(printed, path)
        BY <3>1, <3>3, <4>1, KindsAgree DEF Given, Is
      <4> QED  BY <2>3, <3>2, <3>3, <4>2 DEF Taken, OptionalValue
    <3>4. CASE path \notin DOMAIN Defaults
      BY <2>3, <3>2, <3>4 DEF Taken
    <3> QED  BY <3>3, <3>4
  <2>4. CASE ~Absent(printed, path) /\ ~Printed(config, path)
    <3>1. path \in {"logDir", "networkInterface"} /\ config[path] = Text("")
      <4>1. path # "rule" /\ path # "post"
        BY PathsAre DEF Rules, Posts
      <4>2. path \in OfRule => Printed(config, path)
        BY <1>4, <2>4 DEF Absent, Printed, OfRule, OfPost
      <4>3. path \in OfPost => Printed(config, path)
        BY <1>4, <2>4 DEF Absent, Printed, OfRule, OfPost
      <4> QED  BY <2>4, <4>1, <4>2, <4>3 DEF Printed
    <3>2. path \in DOMAIN Defaults /\ OptionalKind(path) # "missing"
      BY <3>1, DefaultPaths DEF OptionalKind
    <3>3. Defaults[path] = Text("")
      <4>1. CASE path = "logDir"
        BY <4>1 DEF Defaults
      <4>2. CASE path = "networkInterface"
        BY <4>2 DEF Defaults
      <4> QED  BY <3>1, <4>1, <4>2
    <3>4. ~Given(printed, path)
      BY <1>1, <2>1, <2>4, <3>2 DEF Given, Is
    <3> QED  BY <2>4, <3>1, <3>2, <3>3, <3>4 DEF Taken, OptionalValue
  <2> QED  BY <2>2, <2>3, <2>4
<1>8. ParseJson(printed) = {config}
  <2>1. config = [path \in ConfigPaths |-> config[path]]
    BY ReadOf
  <2>2. [path \in ConfigPaths |-> IF path = "wifi.maxRetries" THEN config["wifi.maxRetries"]
                                  ELSE Taken(printed, path)]
          = [path \in ConfigPaths |-> config[path]]
    BY <1>7 DEF ConfigPaths
  <2> QED  BY <1>6, <2>1, <2>2 DEF ParseJson, ConfigPaths
<1> QED  BY <1>5, <1>8 DEF SurvivesPrinting, printed

-----------------------------------------------------------------------------
(* The file that the program starts with.                                  *)

FileInv ==
    /\ doc \in Documents \cup {NoDoc}
    /\ phase = "begin" /\ todo = <<"create">> =>
          doc \in Documents /\ WasRead(doc, parsed)

LEMMA FileInvKept == IInv /\ FileInv /\ [Next]_mvars => FileInv'
<1> SUFFICES ASSUME IInv, FileInv, [Next]_mvars PROVE FileInv'
  OBVIOUS
<1>1. CASE Parse
  <2>1. UNCHANGED doc /\ doc \in Documents \cup {NoDoc}
    BY <1>1 DEF Parse, FileInv
  <2>2. ASSUME todo' = <<"create">>
        PROVE  doc # NoDoc /\ ParseError(doc) = "" /\ parsed' \in ParseJson(doc)
    BY <1>1, <2>2 DEF Parse
  <2> QED  BY <2>1, <2>2, Refusals DEF FileInv, WasRead
<1>2. CASE Create
  BY <1>2 DEF Create, FileInv
<1>3. ASSUME UNCHANGED <<doc, parsed>>,
             phase' = "begin" /\ todo' = <<"create">> =>
                phase = "begin" /\ todo = <<"create">>
      PROVE  FileInv'
  BY <1>3 DEF FileInv
<1>4. phase = "begin" => Len(todo) = 1 /\ Tail(todo) = <<>>
  <2>1. phase = "begin" => Beginning
    BY DEF IInv, Where, Starting, Unwinding, Looping, Reopening, ShuttingDown,
       Destroying, Exited
  <2>2. \A s : Len(<<s>>) = 1 /\ Tail(<<s>>) = <<>>
    OBVIOUS
  <2> QED  BY <2>1, <2>2 DEF Beginning
<1>5. CASE InitStorage \/ Leave \/ Exit \/ Loop \/ ConnectionLost
  BY <1>3, <1>5 DEF InitStorage, Leave, Exit, Loop, ConnectionLost
<1>6. ASSUME phase' = phase \/ phase' = "loop", UNCHANGED <<doc, parsed>>,
             Done \/ \E step : Fails(step)
      PROVE  FileInv'
  BY <1>3, <1>4, <1>6 DEF Done, Fails
<1>7. CASE Simple
  BY <1>6, <1>7 DEF Simple
<1>8. CASE Wifi \/ Http \/ TelnetStart \/ TelnetClose \/ TelnetJoin
  BY <1>6, <1>8 DEF Wifi, Http, TelnetStart, TelnetClose, TelnetJoin
<1>9. CASE Uart
  BY <1>6, <1>9 DEF Uart
<1>10. CASE \/ Signal \/ UNCHANGED programVars
  BY <1>3, <1>10 DEF Signal, programVars
<1>11. CASE \/ ClientConnects \/ ClientLeaves \/ ClientSends
            \/ ClientStalls \/ ClientReads \/ ReadLoop \/ UNCHANGED mvars
  BY <1>10, <1>11 DEF ClientConnects, ClientLeaves, ClientSends, ClientStalls,
     ClientReads, ReadLoop, mvars
<1> QED
  BY <1>1, <1>2, <1>5, <1>7, <1>8, <1>9, <1>10, <1>11 DEF Next, MainThread

\* Whatever the file, it is refused for what is wrong with it, and then only,
\* the same on both platforms; what is accepted means what the document says,
\* and survives being printed and read again (parseJson, parseCommandSequence,
\* serializeBridgeConfig).
THEOREM ConfigIsAlwaysSound == Spec => []ConfigIsSound
<1>1. Init => FileInv
  BY DEF Init, FileInv
<1>2. IInv /\ FileInv => ConfigIsSound
  <2> SUFFICES ASSUME IInv, FileInv PROVE ConfigIsSound
    OBVIOUS
  <2>1. ASSUME doc # NoDoc PROVE FaultIsNamed(doc) /\ ParsersAgree(doc)
    BY <2>1, DocumentsAssumption, Refusals, BothAgree DEF FileInv
  <2>2. ASSUME At("create") PROVE SurvivesPrinting(parsed) /\ IsMeant(doc, parsed)
    <3>1. Beginning
      BY <2>2, Position DEF IInv, At
    <3>2. phase = "begin" /\ todo = <<"create">>
      BY <2>2, <3>1 DEF Beginning, At
    <3>3. doc \in [Paths -> Values] /\ WasRead(doc, parsed)
      BY <3>2, DocumentsAssumption DEF FileInv
    <3> QED  BY <3>3, AlwaysSurvives, AlwaysMeant
  <2> QED  BY <2>1, <2>2 DEF ConfigIsSound
<1> QED  BY <1>1, <1>2, FileInvKept, Inductive, PTL DEF Spec

=============================================================================
