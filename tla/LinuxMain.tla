----------------------------- MODULE LinuxMain -----------------------------
(***************************************************************************)
(* The Linux program from the first line of main to the last: reading the  *)
(* configuration, creating the modules, BridgeController::startup with its *)
(* unwinding, the loop, shutdown and destruction, on the main thread,      *)
(* beside the UART's read loop (module LinuxUart) and a client of the      *)
(* telnet server (whose threads are the subject of LinuxTelnetServer).     *)
(* The main thread's remaining statements are the list todo.               *)
(***************************************************************************)
EXTENDS LinuxUart, ConfigParser

CONSTANTS
    Documents,   \* the configuration files it may find
    MayFail      \* those of "wifi", "telnet", "http" whose start may fail
ASSUME DocumentsAssumption == Documents \subseteq [Paths -> Values]

VARIABLES
    phase, todo,
    doc, parsed,        \* the file, and what parseFile made of it
    supervised,         \* somebody calls onUartConnectionLost: nobody does yet
    stop,               \* the negation of main's flag running
    responder,          \* "none", "alive", "configured" or "destroyed"
    storage,            \* modules.storage: "none", "alive" or "destroyed"
    displayStorage,     \* display keeps a pointer to it
    wifi, telnet, onClientData_,
    clientPc, clientFd,
    stalled             \* the client reads nothing: a send to it blocks

programVars == <<phase, todo, doc, parsed, supervised, stop, responder, storage,
                 displayStorage, wifi, telnet, onClientData_>>
clientVars == <<clientPc, clientFd, stalled>>
mvars == <<programVars, clientVars, uartVars>>

\* The file cannot be read, or is not JSON; or is not needed any more.
NoDoc == [path \in {"no document"} |-> Missing]

-----------------------------------------------------------------------------
(* The statements of each phase.                                           *)

StartupScript_WireFirst ==
    <<"display.init", "wifi.connect">> \o OpenUart \o
    <<"telnet.start", "http.start", "wire.uart", "wire.telnet", "setConfig",
      "started">>
StartupScript ==
    <<"display.init", "wifi.connect">> \o OpenUart \o
    <<"telnet.start", "http.start", "setConfig", "wire.uart", "wire.telnet",
      "started">>

TelnetStop == <<"telnet.close", "telnet.join">>

\* What startup does when a step fails, before it returns false.
Unwind_KeepUart(step) ==
    (IF step = "http.start" THEN TelnetStop ELSE <<>>)
    \o (IF step = "wifi.connect" THEN <<>> ELSE <<"wifi.disconnect">>)
    \o <<"failed">>
Unwind(step) ==
    (IF step = "http.start" THEN TelnetStop ELSE <<>>)
    \o (IF step \in {"telnet.start", "http.start"} THEN CloseUart ELSE <<>>)
    \o (IF step = "wifi.connect" THEN <<>> ELSE <<"wifi.disconnect">>)
    \o <<"failed">>

ShutdownScript_UartFirst ==
    <<"http.stop">> \o CloseUart \o TelnetStop \o <<"wifi.disconnect", "leave">>
ShutdownScript ==
    <<"http.stop">> \o TelnetStop \o CloseUart \o <<"wifi.disconnect", "leave">>

\* main returns: what it declared last is destroyed first.
DestroyScript ==
    <<"~responder", "~storage", "~display">> \o TelnetStop \o CloseUart
    \o <<"exit">>

Init ==
    /\ UartInit
    /\ phase = "begin" /\ todo = <<"parse">>
    /\ doc \in Documents \cup {NoDoc} /\ parsed = NoDoc
    /\ supervised \in BOOLEAN /\ stop = FALSE
    /\ responder = "none" /\ storage = "none" /\ displayStorage = FALSE
    /\ wifi = FALSE /\ telnet = FALSE /\ onClientData_ = FALSE
    /\ clientPc = "away" /\ clientFd = NoFd /\ stalled = FALSE

At(s) == todo # <<>> /\ Head(todo) = s
Done == todo' = Tail(todo)
Fails(step) == todo' = IF phase = "startup" THEN Unwind(step) ELSE <<>>

-----------------------------------------------------------------------------
(* Before startup.                                                         *)

Parse ==
    /\ At("parse")
    /\ LET error == IF doc = NoDoc THEN "unreadable" ELSE ParseError(doc)
       IN  \/ error # "" /\ parsed' = NoDoc /\ todo' = <<"exit">>
           \/ error = "" /\ parsed' \in ParseJson(doc) /\ todo' = <<"create">>
    /\ UNCHANGED <<phase, doc, supervised, stop, responder, storage,
                   displayStorage, wifi, telnet, onClientData_, clientVars,
                   uartVars>>

\* PlatformFactory::create; the file is not needed any more.
Create ==
    /\ At("create")
    /\ storage' = IF parsed["logDir"] = Text("") THEN "none" ELSE "alive"
    /\ displayStorage' = (parsed["logDir"] # Text(""))
    /\ doc' = NoDoc /\ parsed' = NoDoc
    /\ todo' = <<"storage.init">>
    /\ UNCHANGED <<phase, supervised, stop, responder, wifi, telnet,
                   onClientData_, clientVars, uartVars>>

\* Storage that does not initialise is destroyed.  The responder and the
\* controller are constructed and the signal handlers installed.
InitStorage ==
    /\ At("storage.init")
    /\ \/ UNCHANGED storage
       \/ storage = "alive" /\ storage' = "destroyed"
    /\ responder' = "alive"
    /\ phase' = "startup" /\ todo' = StartupScript
    /\ UNCHANGED <<doc, parsed, supervised, stop, displayStorage, wifi, telnet,
                   onClientData_, clientVars, uartVars>>

-----------------------------------------------------------------------------
(* The statements that the main thread runs one after the other.           *)

Simple ==
    /\ todo # <<>> /\ Done
    /\ \/ /\ Head(todo) \in {"display.init", "~display", "http.stop", "update"}
          /\ UNCHANGED <<responder, storage, wifi, onClientData_, phase>>
       \/ /\ At("setConfig") /\ responder' = "configured"
          /\ UNCHANGED <<storage, wifi, onClientData_, phase>>
       \/ /\ At("wire.telnet") /\ onClientData_' = TRUE
          /\ UNCHANGED <<responder, storage, wifi, phase>>
       \/ /\ At("wifi.disconnect") /\ wifi' = FALSE
          /\ UNCHANGED <<responder, storage, onClientData_, phase>>
       \/ /\ At("~responder") /\ responder' = "destroyed"
          /\ UNCHANGED <<storage, wifi, onClientData_, phase>>
       \/ /\ At("~storage")
          /\ storage' = IF storage = "none" THEN storage ELSE "destroyed"
          /\ UNCHANGED <<responder, wifi, onClientData_, phase>>
       \/ /\ At("started") /\ phase' = "loop"
          /\ UNCHANGED <<responder, storage, wifi, onClientData_>>
    /\ UNCHANGED <<doc, parsed, supervised, stop, displayStorage, telnet,
                   clientVars, uartVars>>

Wifi ==
    /\ At("wifi.connect")
    /\ \/ wifi' = TRUE /\ Done
       \/ "wifi" \in MayFail /\ Fails("wifi.connect") /\ UNCHANGED wifi
    /\ UNCHANGED <<phase, doc, parsed, supervised, stop, responder, storage,
                   displayStorage, telnet, onClientData_, clientVars, uartVars>>

Http ==
    /\ At("http.start")
    /\ Done \/ ("http" \in MayFail /\ Fails("http.start"))
    /\ UNCHANGED <<phase, doc, parsed, supervised, stop, responder, storage,
                   displayStorage, wifi, telnet, onClientData_, clientVars,
                   uartVars>>

Uart ==
    /\ \/ At("open") /\ PortOpens /\ Done
       \/ At("open") /\ (~device \/ Free = {}) /\ Fails("open")
          /\ UNCHANGED uartVars
       \/ At("configure") /\ Done /\ UNCHANGED uartVars
       \/ At("configure") /\ ConfigureFails /\ Fails("open")
       \/ todo # <<>> /\ UartStep(Head(todo)) /\ Done
       \/ At("wire.uart") /\ SetOnDataCallback /\ Done
    /\ UNCHANGED <<phase, doc, parsed, supervised, stop, responder, storage,
                   displayStorage, wifi, telnet, onClientData_, clientVars>>

\* start: socket, bind and listen.
TelnetStart ==
    /\ At("telnet.start")
    /\ \/ /\ Free # {}
          /\ table' = [table EXCEPT ![LowestFree] = "server"]
          /\ telnet' = TRUE /\ Done
       \/ /\ "telnet" \in MayFail
          /\ Fails("telnet.start") /\ UNCHANGED <<table, telnet>>
    /\ UNCHANGED <<phase, doc, parsed, supervised, stop, responder, storage,
                   displayStorage, wifi, onClientData_, clientVars, members,
                   reader, device, attached>>

\* clientsMutex_: only the broadcast holds it for more than a step.
MutexIsFree == readerPc # "broadcast"

\* stop closes what it has, as soon as it gets the mutex for the clients (the
\* server's socket goes earlier, which nobody here can tell); a send to a
\* client that was shut down does not block.  Then it waits for the client's
\* thread to end, which takes the mutex to remove itself.
TelnetClose ==
    /\ At("telnet.close") /\ MutexIsFree /\ Done
    /\ telnet' = FALSE /\ stalled' = FALSE
    /\ table' = [f \in Fds |-> IF table[f] \in {"server", "client"} THEN "free"
                               ELSE table[f]]
    /\ UNCHANGED <<phase, doc, parsed, supervised, stop, responder, storage,
                   displayStorage, wifi, onClientData_, clientPc, clientFd,
                   members, reader, device, attached>>

TelnetJoin ==
    /\ At("telnet.join") /\ clientPc \in {"away", "reading"} /\ Done
    /\ clientPc = "reading" => MutexIsFree
    /\ clientPc' = "away" /\ clientFd' = NoFd /\ UNCHANGED stalled
    /\ UNCHANGED <<phase, doc, parsed, supervised, stop, responder, storage,
                   displayStorage, wifi, telnet, onClientData_, uartVars>>

\* main returns, after a startup that failed or after shutdown.
Leave ==
    /\ At("failed") \/ At("leave")
    /\ phase' = IF At("failed") THEN "failed" ELSE "stopped"
    /\ todo' = DestroyScript
    /\ UNCHANGED <<doc, parsed, supervised, stop, responder, storage,
                   displayStorage, wifi, telnet, onClientData_, clientVars,
                   uartVars>>

Exit ==
    /\ At("exit")
    /\ phase' = "exited" /\ todo' = <<>>
    /\ UNCHANGED <<doc, parsed, supervised, stop, responder, storage,
                   displayStorage, wifi, telnet, onClientData_, clientVars,
                   uartVars>>

-----------------------------------------------------------------------------
(* The loop.                                                               *)

Loop ==
    /\ phase = "loop" /\ todo = <<>>
    /\ \/ stop /\ phase' = "shutdown" /\ todo' = ShutdownScript
       \/ ~stop /\ todo' = <<"update">> /\ UNCHANGED phase
    /\ UNCHANGED <<doc, parsed, supervised, stop, responder, storage,
                   displayStorage, wifi, telnet, onClientData_, clientVars,
                   uartVars>>

\* onUartConnectionLost, from the loop.
ConnectionLost ==
    /\ supervised /\ phase = "loop" /\ todo = <<>> /\ ~stop
    /\ readerPc = "done"
    /\ todo' = Reopen
    /\ UNCHANGED <<phase, doc, parsed, supervised, stop, responder, storage,
                   displayStorage, wifi, telnet, onClientData_, clientVars,
                   uartVars>>

MainThread ==
    \/ Parse \/ Create \/ InitStorage \/ Simple \/ Wifi \/ Http \/ Uart
    \/ TelnetStart \/ TelnetClose \/ TelnetJoin \/ Leave \/ Exit \/ Loop

-----------------------------------------------------------------------------
(* Signals and the client.                                                 *)

Signal ==
    /\ phase \in {"startup", "loop"} /\ ~stop
    /\ stop' = TRUE
    /\ UNCHANGED <<phase, todo, doc, parsed, supervised, responder, storage,
                   displayStorage, wifi, telnet, onClientData_, clientVars,
                   uartVars>>

\* A client is added to the list, and its thread removes it, under the mutex.
ClientConnects ==
    /\ clientPc = "away" /\ telnet /\ Free # {} /\ MutexIsFree
    /\ table' = [table EXCEPT ![LowestFree] = "client"]
    /\ clientFd' = LowestFree /\ clientPc' = "reading"
    /\ UNCHANGED <<stalled, programVars, members, reader, device, attached>>

ClientLeaves ==
    /\ clientPc = "reading" /\ telnet /\ MutexIsFree
    /\ table' = [table EXCEPT ![clientFd] = "free"]
    /\ clientFd' = NoFd /\ clientPc' = "away" /\ stalled' = FALSE
    /\ UNCHANGED <<programVars, members, reader, device, attached>>

\* It reads no more; it reads on, or is gone for good.
ClientStalls ==
    /\ clientPc # "away" /\ telnet /\ ~stalled /\ stalled' = TRUE
    /\ UNCHANGED <<programVars, clientPc, clientFd, uartVars>>

ClientReads ==
    /\ stalled /\ stalled' = FALSE
    /\ UNCHANGED <<programVars, clientPc, clientFd, uartVars>>

\* The callback, if it is wired, calls uart.write, which looks at fd_ and then
\* writes to it; before that, what the client sends is dropped.  Wiring is one
\* store here; in the code a client's thread may find it half done.
ClientSends ==
    \/ /\ clientPc = "reading" /\ telnet
       /\ clientPc' = IF onClientData_ THEN "callback" ELSE "reading"
       /\ UNCHANGED <<programVars, clientFd, stalled, uartVars>>
    \/ /\ clientPc = "callback"
       /\ clientPc' = IF fd_ = NoFd THEN "reading" ELSE "write"
       /\ UNCHANGED <<programVars, clientFd, stalled, uartVars>>
    \/ /\ clientPc = "write"
       /\ clientPc' = "reading"
       /\ UNCHANGED <<programVars, clientFd, stalled, uartVars>>

\* The read loop, which a client that does not read holds up in send.
ReadLoop ==
    /\ Reader /\ (readerPc = "broadcast" => ~stalled)
    /\ UNCHANGED <<programVars, clientVars>>

Next ==
    \/ MainThread \/ ConnectionLost \/ Signal
    \/ ReadLoop
    \/ (Unplug \/ Plug) /\ UNCHANGED <<programVars, clientVars>>
    \/ ClientConnects \/ ClientLeaves \/ ClientSends
    \/ ClientStalls \/ ClientReads

Spec == Init /\ [][Next]_mvars

\* The threads run, read returns within its timeout, send when there is room,
\* and who waits for the mutex gets it in the end, since the read loop gives
\* it up for as long as it waits for data.  That data comes, that the client
\* reads, or anything else from outside, is not promised.
FairSpec ==
    /\ Spec /\ WF_mvars(MainThread) /\ SF_mvars(TelnetClose \/ TelnetJoin)
    /\ WF_mvars(ReaderRuns /\ UNCHANGED <<programVars, clientVars>>)
    /\ SF_mvars(ReaderReturns /\ ReadLoop)
    /\ WF_mvars(clientPc # "reading" /\ ClientSends)

-----------------------------------------------------------------------------
(* Properties.                                                             *)

TypeOK ==
    /\ fd_ \in Fds \cup {NoFd} /\ running_ \in BOOLEAN
    /\ table \in [Fds -> {"free", "uart", "server", "client"}]
    /\ readerPc \in {"none", "check", "load", "call", "read", "callback",
                    "broadcast", "done"}
    /\ responder \in {"none", "alive", "configured", "destroyed"}
    /\ clientPc \in {"away", "reading", "callback", "write"}
    /\ stalled \in BOOLEAN /\ (stalled => telnet /\ clientPc # "away")
    /\ phase = "loop" => telnet /\ wifi /\ onClientData_ /\ callback_

\* A startup that returns false, and a shutdown, leave nothing open, connected
\* or running, whichever step failed and whatever the threads did meanwhile.
NothingIsLeft ==
    phase \in {"failed", "stopped", "exited"} =>
        /\ fd_ = NoFd /\ \A f \in Fds : table[f] = "free"
        /\ readerPc \in {"none", "done"} /\ ~joinable
        /\ ~wifi /\ ~telnet /\ clientPc = "away"

\* Device data reaches the responder only while it exists and has its
\* configuration, so that no prompt is missed; and nothing calls into the
\* modules once main destroys them.
CallbacksFindTheirObjects ==
    /\ TypeOK
    /\ readerPc \in {"check", "load", "call", "read", "callback", "broadcast"}
        => responder = "configured"
    /\ clientPc \in {"callback", "write"} => responder = "configured"

\* While nobody reopens the port, the read loop reads from nothing but the
\* port, and what a client types is written to nothing else: although their
\* descriptors are shared with the main thread, which closes them, and reused.
OnlyThePortIsUsed ==
    ~supervised =>
        /\ readerPc = "call" => table[currentFd] \in {"uart", "free"}
        /\ clientPc = "write" => fd_ # NoFd /\ table[fd_] = "uart"

\* An open port is being read for as long as its device stays, after startup
\* as well as after any number of reopenings; and no thread is started in the
\* place of one that was not joined, which would end the program.
OpenPortIsRead ==
    /\ ~terminated
    /\ phase = "loop" /\ todo = <<>> /\ fd_ # NoFd /\ attached
           => readerPc \notin {"none", "done"}

\* A file or a posted sequence is refused for what is wrong with it, the same
\* on both platforms; what was accepted means what the document says, and is
\* not changed by printing and reading it again (the properties of
\* ConfigParser, where they are not void).
ConfigIsSound ==
    /\ At("parse") /\ doc # NoDoc => FaultIsNamed(doc) /\ ParsersAgree(doc)
    /\ At("create") => SurvivesPrinting(parsed) /\ IsMeant(doc, parsed)

\* After SIGINT or SIGTERM the program ends, provided that the client does not
\* stay connected without ever reading again: then the read loop may keep the
\* mutex in send for ever, and stop waits for it.  Nothing else holds it up.
SignalEnds == []<>~stalled => (stop ~> (phase = "exited"))

-----------------------------------------------------------------------------
(* What the documents say and the code does not do.                        *)

\* main.cpp, when storage does not initialise: continuing without file
\* logging.  So the display does not look at storage that is gone.
DisplayFindsStorage ==
    At("update") /\ displayStorage => storage = "alive"
=============================================================================
