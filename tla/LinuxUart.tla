----------------------------- MODULE LinuxUart -----------------------------
(***************************************************************************)
(* src/src/platform/linux/LinuxUartModule.cpp, statement by statement, on  *)
(* the threads that use it: the caller of open, close and                  *)
(* setOnDataCallback, whose calls are lists of statements (a call that is  *)
(* cut short by an error drops the rest of its list), and the read loop.   *)
(* The kernel hands out the lowest free descriptor.                        *)
(***************************************************************************)
EXTENDS Integers, Sequences

CONSTANT MaxFd   \* bound: the descriptors of the process
ASSUME UartAssumption == MaxFd \in Nat \ {0}

VARIABLES
    fd_, running_, callback_,   \* the module's members
    joinable,                   \* readThread_ has a thread that is not joined
    terminated,                 \* a joinable thread was overwritten
    readerPc, currentFd,        \* the read loop
    table,                      \* descriptor -> "free", "uart", "server", "client"
    device,                     \* the serial device is plugged in
    attached                    \* the open port still is that of the device

members == <<fd_, running_, callback_, joinable, terminated>>
reader == <<readerPc, currentFd>>
kernel == <<table, device, attached>>
uartVars == <<members, reader, kernel>>

Fds == 1..MaxFd
NoFd == 0
Free == {f \in Fds : table[f] = "free"}
LowestFree == CHOOSE f \in Free : \A g \in Free : f <= g

UartInit ==
    /\ fd_ = NoFd /\ running_ = FALSE /\ callback_ = FALSE
    /\ joinable = FALSE /\ terminated = FALSE
    /\ readerPc = "none" /\ currentFd = NoFd
    /\ table = [f \in Fds |-> "free"] /\ device = TRUE /\ attached = FALSE

-----------------------------------------------------------------------------
(* The statements of the calls.                                            *)

OpenUart == <<"open", "configure", "start.reader">>
CloseUart == <<"running=false", "close.fd", "fd=-1", "join">>
Reopen == CloseUart \o OpenUart

StartThread ==
    /\ running_' = TRUE
    /\ readerPc' = "check" /\ joinable' = TRUE
    /\ terminated' = (terminated \/ joinable)

PortOpens ==
    /\ device /\ Free # {}
    /\ fd_' = LowestFree
    /\ table' = [table EXCEPT ![LowestFree] = "uart"]
    /\ attached' = TRUE
    /\ UNCHANGED <<running_, callback_, joinable, terminated, reader, device>>

\* tcgetattr, tcsetattr or fcntl fails: the port is closed again.
ConfigureFails ==
    /\ table' = [table EXCEPT ![fd_] = "free"]
    /\ fd_' = NoFd
    /\ UNCHANGED <<running_, callback_, joinable, terminated, reader, device,
                   attached>>

StartReader ==
    \/ callback_ /\ StartThread /\ UNCHANGED <<fd_, callback_, currentFd, kernel>>
    \/ ~callback_ /\ UNCHANGED uartVars

\* The statements that neither fail nor wait, and join, which waits.
UartStep(s) ==
    \/ s = "start.reader" /\ StartReader
    \/ s = "running=false"
       /\ running_' = FALSE
       /\ UNCHANGED <<fd_, callback_, joinable, terminated, reader, kernel>>
    \/ s = "close.fd"
       /\ table' = [f \in Fds |-> IF f = fd_ THEN "free" ELSE table[f]]
       /\ UNCHANGED <<members, reader, device, attached>>
    \/ s = "fd=-1"
       /\ fd_' = NoFd
       /\ UNCHANGED <<running_, callback_, joinable, terminated, reader, kernel>>
    \/ s = "join"
       /\ (joinable => readerPc = "done")
       /\ joinable' = FALSE
       /\ UNCHANGED <<fd_, running_, callback_, terminated, reader, kernel>>

SetOnDataCallback_NoFlag ==
    /\ callback_' = TRUE
    /\ IF fd_ # NoFd /\ ~running_
       THEN /\ readerPc' = "check" /\ joinable' = TRUE
            /\ UNCHANGED <<running_, terminated>>
       ELSE UNCHANGED <<running_, readerPc, joinable, terminated>>
    /\ UNCHANGED <<fd_, currentFd, kernel>>
SetOnDataCallback ==
    /\ callback_' = TRUE
    /\ IF fd_ # NoFd /\ ~running_ THEN StartThread
       ELSE UNCHANGED <<running_, readerPc, joinable, terminated>>
    /\ UNCHANGED <<fd_, currentFd, kernel>>

-----------------------------------------------------------------------------
(* readLoop.                                                               *)

ReaderGoes(where) == readerPc' = where /\ UNCHANGED <<members, kernel>>

ReaderChecks ==
    /\ readerPc = "check"
    /\ ReaderGoes(IF running_ THEN "load" ELSE "done")
    /\ UNCHANGED currentFd

ReaderLoads ==
    /\ readerPc = "load"
    /\ currentFd' = fd_
    /\ ReaderGoes(IF fd_ = NoFd THEN "done" ELSE "call")

\* read is called: on a closed descriptor it fails at once (EBADF).
ReaderCalls ==
    /\ readerPc = "call"
    /\ ReaderGoes(IF table[currentFd] = "free" THEN "done" ELSE "read")
    /\ UNCHANGED currentFd

\* Within 100 ms (VTIME) read returns: with data, with none, or, when the
\* device is gone, with an error or none.  Closing the port does not wake it.
ReaderGetsData ==
    /\ readerPc = "read" /\ attached
    /\ ReaderGoes("callback")
    /\ UNCHANGED currentFd
ReadReturns_Blocking ==
    \/ ~attached /\ ReaderGoes("done")
    \/ FALSE /\ ReaderGoes("check")
ReadReturns ==
    \/ ~attached /\ ReaderGoes("done")
    \/ ReaderGoes("check")
ReaderGetsNothing == readerPc = "read" /\ ReadReturns /\ UNCHANGED currentFd

\* The callback begins with a broadcast to the telnet clients, for which it
\* takes their lock, and which returns when it has sent to all of them.
ReaderCallsBack ==
    /\ readerPc = "callback"
    /\ ReaderGoes("broadcast")
    /\ UNCHANGED currentFd

ReaderReturns ==
    /\ readerPc = "broadcast"
    /\ ReaderGoes("check")
    /\ UNCHANGED currentFd

ReaderRuns ==
    \/ ReaderChecks \/ ReaderLoads \/ ReaderCalls
    \/ ReaderGetsNothing \/ ReaderCallsBack
Reader == ReaderRuns \/ ReaderGetsData \/ ReaderReturns

-----------------------------------------------------------------------------
(* The device.                                                             *)

Unplug ==
    /\ device /\ device' = FALSE /\ attached' = FALSE
    /\ UNCHANGED <<members, reader, table>>

Plug ==
    /\ ~device /\ device' = TRUE
    /\ UNCHANGED <<members, reader, table, attached>>
=============================================================================
