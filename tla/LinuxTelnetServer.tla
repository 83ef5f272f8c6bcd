------------------------- MODULE LinuxTelnetServer -------------------------
(***************************************************************************)
(* The threads of src/src/platform/linux/LinuxTelnetServer.cpp: the accept *)
(* thread, one thread per client, the main thread in start and stop, and   *)
(* the UART thread, which calls broadcast and rotates the log file.  They  *)
(* share clientFds_ under clientsMutex_ and, through the kernel, the table *)
(* of file descriptors: a descriptor that is closed is free, and the next  *)
(* accept or open takes the lowest free one.                               *)
(* Names that end in _<Word> are faulty variants, as in AutoResponder.     *)
(***************************************************************************)
EXTENDS Integers, Sequences

CONSTANTS
    Clients,       \* the connections that are made, each once
    Talkers,       \* those whose peer sends data
    Laggards,      \* those whose peer may stop reading for a while
    MaxFd,         \* bound: the process's limit on descriptors
    MaxRotations   \* bound on the log rotations

ASSUME TelnetAssumption ==
    /\ Talkers \subseteq Clients /\ Laggards \subseteq Clients
    /\ Clients \cap {"none", "log", "server", "no client"} = {}
    /\ MaxFd \in Nat /\ MaxFd >= 2 /\ MaxRotations \in Nat

VARIABLES
    \* the server's members
    running_, serverFd_, clientFds_, clientThreads_, onClientData_,
    clientsMutex_,   \* "free" or the name of the thread that holds it
    \* the threads
    mainPc, acceptPc, accepted, uartPc, toSend, threadPc, fdOf,
    \* the kernel and the peers
    table,           \* per descriptor: "none", "log", "server" or a client
    logFd, rotations,
    peer,            \* "away", "waiting", "connected" or "gone"
    unread,          \* the peer has sent data that is not yet received
    shut,            \* the connection was shut down by the server
    full             \* the peer does not read: send blocks

serverVars == <<running_, serverFd_, clientFds_, clientThreads_, onClientData_>>
kernelVars == <<table, logFd, rotations, peer, unread, shut, full>>
tvars == <<serverVars, clientsMutex_, mainPc, acceptPc, accepted, uartPc,
           toSend, threadPc, fdOf, kernelVars>>

Fds == 1..MaxFd
NoFd == 0
NoClient == "no client"

Free == {f \in Fds : table[f] = "none"}
LowestFree == CHOOSE f \in Free : \A g \in Free : f <= g

Init ==
    /\ running_ = TRUE /\ serverFd_ = 2
    /\ clientFds_ = <<>> /\ clientThreads_ = {} /\ onClientData_ = FALSE
    /\ clientsMutex_ = "free"
    /\ mainPc = "started" /\ acceptPc = "check" /\ accepted = NoClient
    /\ uartPc = "read" /\ toSend = <<>>
    /\ threadPc = [c \in Clients |-> "none"]
    /\ fdOf = [c \in Clients |-> NoFd]
    /\ table = [f \in Fds |-> CASE f = 1 -> "log" [] f = 2 -> "server"
                                [] OTHER -> "none"]
    /\ logFd = 1 /\ rotations = 0
    /\ peer = [c \in Clients |-> "away"]
    /\ unread = [c \in Clients |-> FALSE]
    /\ shut = [c \in Clients |-> FALSE]
    /\ full = [c \in Clients |-> FALSE]

CloseFd(f) == table' = [table EXCEPT ![f] = "none"]

-----------------------------------------------------------------------------
(* acceptLoop                                                              *)

AcceptCheck ==
    /\ acceptPc = "check"
    /\ acceptPc' = IF running_ THEN "accept" ELSE "done"
    /\ UNCHANGED <<serverVars, clientsMutex_, mainPc, accepted, uartPc, toSend,
                   threadPc, fdOf, kernelVars>>

\* A connection is taken off the queue of the listening socket.
Accept(c) ==
    /\ acceptPc = "accept" /\ serverFd_ # NoFd
    /\ peer[c] = "waiting" /\ Free # {}
    /\ table' = [table EXCEPT ![LowestFree] = c]
    /\ fdOf' = [fdOf EXCEPT ![c] = LowestFree]
    /\ peer' = [peer EXCEPT ![c] = "connected"]
    /\ accepted' = c
    /\ acceptPc' = "push"
    /\ UNCHANGED <<serverVars, clientsMutex_, mainPc, uartPc, toSend, threadPc,
                   logFd, rotations, unread, shut, full>>

\* The listening socket is closed, or there is no descriptor left.
AcceptFails ==
    /\ acceptPc = "accept"
    /\ serverFd_ = NoFd \/ (Free = {} /\ \E c \in Clients : peer[c] = "waiting")
    /\ acceptPc' = "check"
    /\ UNCHANGED <<serverVars, clientsMutex_, mainPc, accepted, uartPc, toSend,
                   threadPc, fdOf, kernelVars>>

AcceptPush ==
    /\ acceptPc = "push" /\ clientsMutex_ = "free"
    /\ clientFds_' = Append(clientFds_, fdOf[accepted])
    /\ acceptPc' = "spawn"
    /\ UNCHANGED <<running_, serverFd_, clientThreads_, onClientData_,
                   clientsMutex_, mainPc, accepted, uartPc, toSend, threadPc,
                   fdOf, kernelVars>>

AcceptSpawn ==
    /\ acceptPc = "spawn"
    /\ clientThreads_' = clientThreads_ \cup {accepted}
    /\ threadPc' = [threadPc EXCEPT ![accepted] = "check"]
    /\ acceptPc' = "check" /\ accepted' = NoClient
    /\ UNCHANGED <<running_, serverFd_, clientFds_, onClientData_,
                   clientsMutex_, mainPc, uartPc, toSend, fdOf, kernelVars>>

AcceptThread ==
    \/ AcceptCheck \/ AcceptFails \/ AcceptPush \/ AcceptSpawn
    \/ \E c \in Clients : Accept(c)

-----------------------------------------------------------------------------
(* clientLoop.  (What it strips from the data is the subject of another    *)
(* module.)                                                                *)

Goto(c, where) == threadPc' = [threadPc EXCEPT ![c] = where]

ClientCheck(c) ==
    /\ threadPc[c] = "check"
    /\ Goto(c, IF running_ THEN "recv" ELSE "erase")
    /\ UNCHANGED <<serverVars, clientsMutex_, mainPc, acceptPc, accepted,
                   uartPc, toSend, fdOf, kernelVars>>

\* recv is called on the descriptor; it fails at once if that is not, or no
\* longer, the client's socket.
ClientRecv(c) ==
    /\ threadPc[c] = "recv"
    /\ Goto(c, IF table[fdOf[c]] = c THEN "blocked" ELSE "erase")
    /\ UNCHANGED <<serverVars, clientsMutex_, mainPc, acceptPc, accepted,
                   uartPc, toSend, fdOf, kernelVars>>

ClientData(c) ==
    /\ threadPc[c] = "blocked" /\ unread[c]
    /\ unread' = [unread EXCEPT ![c] = FALSE]
    /\ Goto(c, "deliver")
    /\ UNCHANGED <<serverVars, clientsMutex_, mainPc, acceptPc, accepted,
                   uartPc, toSend, fdOf, table, logFd, rotations, peer, shut,
                   full>>

\* End of file or error: the peer is gone, or the socket was shut down.
ClientEof(c) ==
    /\ threadPc[c] = "blocked" /\ ~unread[c]
    /\ shut[c] \/ peer[c] = "gone"
    /\ Goto(c, "erase")
    /\ UNCHANGED <<serverVars, clientsMutex_, mainPc, acceptPc, accepted,
                   uartPc, toSend, fdOf, kernelVars>>

\* The data goes to the callback, if there is one.
ClientDeliver(c) ==
    /\ threadPc[c] = "deliver"
    /\ Goto(c, "check")
    /\ UNCHANGED <<serverVars, clientsMutex_, mainPc, acceptPc, accepted,
                   uartPc, toSend, fdOf, kernelVars>>

\* std::remove and erase: what is left of s without f.
Without(s, f) ==
    LET kept[n \in 0..Len(s)] ==
            IF n = 0 THEN <<>>
            ELSE IF s[n] = f THEN kept[n - 1] ELSE Append(kept[n - 1], s[n])
    IN  kept[Len(s)]

ClientErase_Forgotten(c) ==
    /\ threadPc[c] = "erase"
    /\ Goto(c, "close")
    /\ UNCHANGED <<serverVars, clientsMutex_, mainPc, acceptPc, accepted,
                   uartPc, toSend, fdOf, kernelVars>>
ClientErase(c) ==
    /\ threadPc[c] = "erase" /\ clientsMutex_ = "free"
    /\ clientFds_' = Without(clientFds_, fdOf[c])
    /\ Goto(c, "close")
    /\ UNCHANGED <<running_, serverFd_, clientThreads_, onClientData_,
                   clientsMutex_, mainPc, acceptPc, accepted, uartPc, toSend,
                   fdOf, kernelVars>>

ClientClose_Forgotten(c) ==
    /\ threadPc[c] = "close"
    /\ Goto(c, "done")
    /\ UNCHANGED <<serverVars, clientsMutex_, mainPc, acceptPc, accepted,
                   uartPc, toSend, fdOf, kernelVars>>
ClientClose(c) ==
    /\ threadPc[c] = "close"
    /\ CloseFd(fdOf[c])
    /\ Goto(c, "done")
    /\ UNCHANGED <<serverVars, clientsMutex_, mainPc, acceptPc, accepted,
                   uartPc, toSend, fdOf, logFd, rotations, peer, unread, shut,
                   full>>

ClientThread(c) ==
    \/ ClientCheck(c) \/ ClientRecv(c) \/ ClientData(c) \/ ClientEof(c)
    \/ ClientDeliver(c) \/ ClientErase(c) \/ ClientClose(c)

-----------------------------------------------------------------------------
(* The UART thread: broadcast, then the log.                               *)

BroadcastLock ==
    /\ uartPc = "read" /\ clientsMutex_ = "free"
    /\ clientsMutex_' = "uart"
    /\ toSend' = clientFds_
    /\ uartPc' = "send"
    /\ UNCHANGED <<serverVars, mainPc, acceptPc, accepted, threadPc, fdOf,
                   kernelVars>>

\* send blocks while the peer is there and takes nothing.
HoldsUp(c) == full[c] /\ peer[c] = "connected" /\ ~shut[c]
Stuck(f) == table[f] \in Clients /\ HoldsUp(table[f])

BroadcastSend_Again ==
    /\ uartPc = "send" /\ toSend # <<>>
    /\ ~Stuck(Head(toSend))
    /\ UNCHANGED tvars
BroadcastSend ==
    /\ uartPc = "send" /\ toSend # <<>>
    /\ ~Stuck(Head(toSend))
    /\ toSend' = Tail(toSend)
    /\ UNCHANGED <<serverVars, clientsMutex_, mainPc, acceptPc, accepted,
                   uartPc, threadPc, fdOf, kernelVars>>

\* The data may fill the log file, which is then replaced by another.
BroadcastDone_NoUnlock ==
    /\ uartPc = "send" /\ toSend = <<>>
    /\ uartPc' = "read"
    /\ UNCHANGED <<serverVars, clientsMutex_, mainPc, acceptPc, accepted,
                   toSend, threadPc, fdOf, kernelVars>>
BroadcastDone ==
    /\ uartPc = "send" /\ toSend = <<>>
    /\ clientsMutex_' = "free"
    /\ \/ uartPc' = "read"
       \/ logFd # NoFd /\ rotations < MaxRotations /\ uartPc' = "close log"
    /\ UNCHANGED <<serverVars, mainPc, acceptPc, accepted, toSend, threadPc,
                   fdOf, kernelVars>>

CloseLog ==
    /\ uartPc = "close log"
    /\ CloseFd(logFd)
    /\ logFd' = NoFd
    /\ rotations' = rotations + 1
    /\ uartPc' = "open log"
    /\ UNCHANGED <<serverVars, clientsMutex_, mainPc, acceptPc, accepted,
                   toSend, threadPc, fdOf, peer, unread, shut, full>>

OpenLog ==
    /\ uartPc = "open log"
    /\ \/ /\ Free # {}
          /\ table' = [table EXCEPT ![LowestFree] = "log"]
          /\ logFd' = LowestFree
       \/ /\ Free = {}
          /\ UNCHANGED <<table, logFd>>
    /\ uartPc' = "read"
    /\ UNCHANGED <<serverVars, clientsMutex_, mainPc, acceptPc, accepted,
                   toSend, threadPc, fdOf, rotations, peer, unread, shut, full>>

UartThread ==
    BroadcastLock \/ BroadcastSend \/ BroadcastDone \/ CloseLog \/ OpenLog

-----------------------------------------------------------------------------
(* The main thread: the end of startup, and stop.                          *)

WireCallback ==
    /\ mainPc = "started"
    /\ onClientData_' = TRUE
    /\ mainPc' = "loop"
    /\ UNCHANGED <<running_, serverFd_, clientFds_, clientThreads_,
                   clientsMutex_, acceptPc, accepted, uartPc, toSend, threadPc,
                   fdOf, kernelVars>>

Stop ==
    /\ mainPc = "loop"
    /\ running_' = FALSE
    /\ mainPc' = "close server"
    /\ UNCHANGED <<serverFd_, clientFds_, clientThreads_, onClientData_,
                   clientsMutex_, acceptPc, accepted, uartPc, toSend, threadPc,
                   fdOf, kernelVars>>

StopServer ==
    /\ mainPc = "close server"
    /\ CloseFd(serverFd_)
    /\ serverFd_' = NoFd
    /\ mainPc' = "join accept"
    /\ UNCHANGED <<running_, clientFds_, clientThreads_, onClientData_,
                   clientsMutex_, acceptPc, accepted, uartPc, toSend, threadPc,
                   fdOf, logFd, rotations, peer, unread, shut, full>>

StopJoinAccept_Skipped ==
    /\ mainPc = "join accept"
    /\ mainPc' = "lock"
    /\ UNCHANGED <<serverVars, clientsMutex_, acceptPc, accepted, uartPc,
                   toSend, threadPc, fdOf, kernelVars>>
StopJoinAccept ==
    /\ mainPc = "join accept" /\ acceptPc = "done"
    /\ mainPc' = "lock"
    /\ UNCHANGED <<serverVars, clientsMutex_, acceptPc, accepted, uartPc,
                   toSend, threadPc, fdOf, kernelVars>>

StopLock ==
    /\ mainPc = "lock" /\ clientsMutex_ = "free"
    /\ clientsMutex_' = "main"
    /\ mainPc' = "close clients"
    /\ UNCHANGED <<serverVars, acceptPc, accepted, uartPc, toSend, threadPc,
                   fdOf, kernelVars>>

\* One round of the loop over clientFds_: shutdown and close.  The list is
\* cleared on the way rather than after the loop; nobody can tell, as the
\* mutex is held throughout.
StopCloseClient_NoShutdown ==
    /\ mainPc = "close clients" /\ clientFds_ # <<>>
    /\ CloseFd(Head(clientFds_))
    /\ clientFds_' = Tail(clientFds_)
    /\ UNCHANGED <<running_, serverFd_, clientThreads_, onClientData_,
                   clientsMutex_, mainPc, acceptPc, accepted, uartPc, toSend,
                   threadPc, fdOf, logFd, rotations, peer, unread, shut, full>>
StopCloseClient ==
    /\ mainPc = "close clients" /\ clientFds_ # <<>>
    /\ shut' = [c \in Clients |-> shut[c] \/ table[Head(clientFds_)] = c]
    /\ CloseFd(Head(clientFds_))
    /\ clientFds_' = Tail(clientFds_)
    /\ UNCHANGED <<running_, serverFd_, clientThreads_, onClientData_,
                   clientsMutex_, mainPc, acceptPc, accepted, uartPc, toSend,
                   threadPc, fdOf, logFd, rotations, peer, unread, full>>

StopUnlock ==
    /\ mainPc = "close clients" /\ clientFds_ = <<>>
    /\ clientsMutex_' = "free"
    /\ mainPc' = "join clients"
    /\ UNCHANGED <<serverVars, acceptPc, accepted, uartPc, toSend, threadPc,
                   fdOf, kernelVars>>

StopJoinClients ==
    /\ mainPc = "join clients"
    /\ \A c \in clientThreads_ : threadPc[c] = "done"
    /\ clientThreads_' = {}
    /\ mainPc' = "stopped"
    /\ UNCHANGED <<running_, serverFd_, clientFds_, onClientData_,
                   clientsMutex_, acceptPc, accepted, uartPc, toSend, threadPc,
                   fdOf, kernelVars>>

StopGoesOn ==
    \/ StopServer \/ StopJoinAccept \/ StopLock \/ StopCloseClient
    \/ StopUnlock \/ StopJoinClients

-----------------------------------------------------------------------------
(* The peers.                                                              *)

Peers(c) ==
    /\ \/ /\ peer[c] = "away" /\ serverFd_ # NoFd
          /\ peer' = [peer EXCEPT ![c] = "waiting"]
          /\ UNCHANGED <<unread, full>>
       \/ /\ c \in Talkers /\ peer[c] = "connected" /\ ~unread[c]
          /\ unread' = [unread EXCEPT ![c] = TRUE]
          /\ UNCHANGED <<peer, full>>
       \/ /\ c \in Laggards /\ peer[c] = "connected" /\ ~full[c]
          /\ full' = [full EXCEPT ![c] = TRUE]
          /\ UNCHANGED <<peer, unread>>
    /\ UNCHANGED <<serverVars, clientsMutex_, mainPc, acceptPc, accepted,
                   uartPc, toSend, threadPc, fdOf, table, logFd, rotations, shut>>

\* The peer reads on.
PeerReads(c) ==
    /\ full[c]
    /\ full' = [full EXCEPT ![c] = FALSE]
    /\ UNCHANGED <<serverVars, clientsMutex_, mainPc, acceptPc, accepted,
                   uartPc, toSend, threadPc, fdOf, table, logFd, rotations,
                   peer, unread, shut>>

PeerLeaves(c) ==
    /\ peer[c] = "connected"
    /\ peer' = [peer EXCEPT ![c] = "gone"]
    /\ UNCHANGED <<serverVars, clientsMutex_, mainPc, acceptPc, accepted,
                   uartPc, toSend, threadPc, fdOf, table, logFd, rotations,
                   unread, shut, full>>

Next ==
    \/ AcceptThread
    \/ \E c \in Clients : ClientThread(c)
    \/ UartThread
    \/ WireCallback \/ Stop \/ StopGoesOn
    \/ \E c \in Clients : Peers(c) \/ PeerReads(c) \/ PeerLeaves(c)

Spec == Init /\ [][Next]_tvars

\* Every thread that can run does, and gets the mutex in the end, since the
\* UART thread gives it up for as long as it waits for data; the device need
\* not send, the peers need not read, the user need not stop the program.
FairThreads ==
    /\ WF_tvars(AcceptThread) /\ SF_tvars(AcceptPush)
    /\ WF_tvars(StopGoesOn) /\ SF_tvars(StopLock)
    /\ \A c \in Clients : WF_tvars(ClientThread(c)) /\ SF_tvars(ClientErase(c))
    /\ SF_tvars(BroadcastSend)
    /\ WF_tvars(BroadcastDone) /\ WF_tvars(CloseLog) /\ WF_tvars(OpenLog)

FairSpec == Spec /\ FairThreads

-----------------------------------------------------------------------------
(* Properties.                                                             *)

TypeOK ==
    /\ running_ \in BOOLEAN /\ onClientData_ \in BOOLEAN
    /\ serverFd_ \in Fds \cup {NoFd} /\ logFd \in Fds \cup {NoFd}
    /\ clientFds_ \in Seq(Fds) /\ toSend \in Seq(Fds)
    /\ clientThreads_ \subseteq Clients
    /\ clientsMutex_ \in {"free", "main", "uart"}
    /\ clientsMutex_ = "uart" <=> uartPc = "send"
    /\ clientsMutex_ = "main" <=> mainPc = "close clients"
    /\ acceptPc \in {"check", "accept", "push", "spawn", "done"}
    /\ accepted \in Clients \cup {NoClient}
    /\ fdOf \in [Clients -> Fds \cup {NoFd}]
    /\ table \in [Fds -> Clients \cup {"none", "log", "server"}]

\* What broadcast sends to, and what stop shuts down and closes, is always
\* the open socket of a client, each client's once: a descriptor leaves
\* clientFds_ before anybody closes it.
ListedAreOpen ==
    /\ TypeOK
    /\ \A i \in 1..Len(clientFds_) : table[clientFds_[i]] \in Clients
    /\ \A i, j \in 1..Len(clientFds_) : i # j => clientFds_[i] # clientFds_[j]
    /\ \A i \in 1..Len(toSend) : table[toSend[i]] \in Clients

\* A client whose thread has ended holds no descriptor, and once stop has
\* returned no client does and no thread of the server is left.
NothingLeaks ==
    \A f \in Fds :
        table[f] \in Clients =>
            mainPc # "stopped" /\ threadPc[table[f]] # "done"

NoThreadOutlivesStop ==
    mainPc = "stopped" =>
        acceptPc = "done" /\ \A c \in Clients : threadPc[c] \in {"none", "done"}

\* Nothing in the program makes a peer read on, or leave: where it is assumed,
\* the property says so.
PeersReadOn == \A c \in Clients : []<>~HoldsUp(c)

\* stop returns, provided the peers read on.
StopReturns == PeersReadOn => ((mainPc = "close server") ~> (mainPc = "stopped"))

\* A client that leaves is removed and its descriptor released, provided that
\* the others read on.
LeaversAreReleased ==
    PeersReadOn =>
        \A c \in Clients :
            (peer[c] = "gone" /\ threadPc[c] # "none") ~> (threadPc[c] = "done")

\* If UART data is forwarded no more, then one listed client is to blame, that
\* stays connected and never reads: it is not the mutex, nor a client that
\* left, was shut down or whose descriptor was given to somebody else.
OnlyOnePeerHoldsUpBroadcast ==
    <>[](uartPc # "read") => \E c \in Clients :
        <>[](/\ toSend # <<>> /\ table[Head(toSend)] = c /\ HoldsUp(c)
             /\ \E i \in 1..Len(clientFds_) : clientFds_[i] = Head(toSend))

-----------------------------------------------------------------------------
(* What the documents say and the code does not do.                        *)

\* TelnetServer.h: stop disconnects the clients.  It, and the client threads
\* it waits for, close nothing else.
ClosesOnlyClients ==
    [][ \A c \in Clients :
          threadPc[c] = "close" /\ threadPc'[c] = "done"
              => table[fdOf[c]] # "log" ]_tvars
=============================================================================
