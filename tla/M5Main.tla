------------------------------- MODULE M5Main -------------------------------
(***************************************************************************)
(* The M5 Stack program: setup and loop of platformio/src/main.cpp with    *)
(* the modules they poll, M5WiFiModule, M5TelnetServer, M5UartModule and   *)
(* M5DisplayModule, on their only thread.  The remaining statements of     *)
(* setup, or of a round of loop, are the list todo.  M5Storage has the     *)
(* storage module, BridgeController and AutoResponder the rest of tick.    *)
(***************************************************************************)
EXTENDS Integers, Sequences, FiniteSets, FiniteSetsExt

CONSTANTS
    Clients,               \* connections; one is used again when all forgot it
    MAX_TELNET_CLIENTS, maxRetries,
    kThroughputInterval, BACKLIGHT_TIMEOUT,   \* in units of time
    Rounds                 \* how many units a round of loop may take
ASSUME MainAssumption ==
    /\ {MAX_TELNET_CLIENTS, kThroughputInterval, BACKLIGHT_TIMEOUT} \subseteq Nat \ {0}
    /\ maxRetries \in Nat /\ Rounds \subseteq Nat \ {0}
    /\ "nobody" \notin Clients

VARIABLES
    todo, halted,          \* halted: setup's while (true)
    network, retries,      \* WiFi.status() is WL_CONNECTED; retries of connect
    running_,              \* the server's
    conn,                  \* a connection: "away", "open", "left" by its client,
                           \* "stopped" by the server
    backlog,               \* connections that are not accepted
    clients_,              \* slot -> the connection in it, or Nobody (~active)
    button,                \* button A was pressed since M5.update
    backlightOn_, activity,   \* the time since lastActivityMs_
    throughputElapsedMs_

setupVars == <<halted, network, retries>>
telnetVars == <<running_, conn, backlog, clients_>>
displayVars == <<button, backlightOn_, activity>>
vars == <<todo, setupVars, telnetVars, displayVars, throughputElapsedMs_>>

Slots == 1..MAX_TELNET_CLIENTS
Nobody == "nobody"

SetupScript == <<"display.init", "wifi.retry", "wifi.check", "telnet.start">>
LoopScript == <<"telnet.accept", "telnet.read", "buttons", "tick", "delay">>

Init ==
    /\ todo = SetupScript /\ halted = FALSE
    /\ network \in BOOLEAN /\ retries = 0
    /\ running_ = FALSE
    /\ conn = [c \in Clients |-> "away"] /\ backlog = <<>>
    /\ clients_ = [i \in Slots |-> Nobody]
    /\ button = FALSE /\ backlightOn_ = TRUE /\ activity = 0
    /\ throughputElapsedMs_ = 0

At(s) == todo # <<>> /\ Head(todo) = s
Done == todo' = Tail(todo)
InService == running_ /\ todo = <<>>

-----------------------------------------------------------------------------
(* setup: BridgeController::startup, of which only WiFi can fail here.     *)

DisplayInit ==
    /\ At("display.init") /\ Done
    /\ activity' = 0 /\ UNCHANGED <<halted, retries, running_>>

\* connect looks at the status every five seconds, maxRetries times, and once
\* more after that; setup does not get past a connect that fails.
WifiRetry ==
    /\ At("wifi.retry") /\ UNCHANGED <<halted, running_, activity>>
    /\ \/ ~network /\ retries < maxRetries /\ retries' = retries + 1 /\ UNCHANGED todo
       \/ (network \/ retries = maxRetries) /\ Done /\ UNCHANGED retries
WifiCheck ==
    /\ At("wifi.check") /\ ~halted /\ UNCHANGED <<retries, running_, activity>>
    /\ \/ network /\ Done /\ UNCHANGED halted
       \/ ~network /\ halted' = TRUE /\ UNCHANGED todo

TelnetStart ==
    /\ At("telnet.start") /\ Done
    /\ running_' = TRUE /\ UNCHANGED <<halted, retries, activity>>

Setup ==
    /\ DisplayInit \/ WifiRetry \/ WifiCheck \/ TelnetStart
    /\ UNCHANGED <<network, conn, backlog, clients_, button, backlightOn_,
                   throughputElapsedMs_>>

-----------------------------------------------------------------------------
(* loop.                                                                   *)

Round ==
    /\ InService /\ todo' = LoopScript
    /\ UNCHANGED <<setupVars, telnetVars, displayVars,
                   throughputElapsedMs_>>

Connected(i) == clients_[i] # Nobody /\ conn[clients_[i]] = "open"

\* The first slot that is free, or whose client has gone: its place is taken.
FreeSlots_Any == Slots
FreeSlots == {i \in Slots : ~Connected(i)}

\* One new connection at a time; one that left before is forgotten, one without
\* a slot is closed.
Accept(c) ==
    \/ conn[c] # "open" /\ UNCHANGED <<conn, clients_>>
    \/ /\ conn[c] = "open" /\ FreeSlots # {}
       /\ clients_' = [clients_ EXCEPT ![Min(FreeSlots)] = c]
       /\ UNCHANGED conn
    \/ /\ conn[c] = "open" /\ FreeSlots = {}
       /\ conn' = [conn EXCEPT ![c] = "stopped"]
       /\ UNCHANGED clients_

TelnetAccept ==
    /\ At("telnet.accept") /\ Done
    /\ IF running_ /\ backlog # <<>>
       THEN Accept(Head(backlog)) /\ backlog' = Tail(backlog)
       ELSE UNCHANGED <<conn, clients_, backlog>>
    /\ UNCHANGED <<setupVars, running_, displayVars,
                   throughputElapsedMs_>>

\* A slot whose client has gone becomes free; what the others typed goes to
\* the UART (module BridgeController).
TelnetRead ==
    /\ At("telnet.read") /\ Done
    /\ clients_' = [i \in Slots |-> IF Connected(i) THEN clients_[i] ELSE Nobody]
    /\ UNCHANGED <<setupVars, running_, conn, backlog, displayVars, throughputElapsedMs_>>

PollButtons ==
    /\ At("buttons") /\ Done
    /\ button' = FALSE
    /\ IF button THEN backlightOn_' = TRUE /\ activity' = 0
       ELSE UNCHANGED <<backlightOn_, activity>>
    /\ UNCHANGED <<setupVars, telnetVars, throughputElapsedMs_>>

\* The part of tick that calls display.update, once in an interval.
Lit == backlightOn_ /\ activity <= BACKLIGHT_TIMEOUT
Tick_IsActivity ==
    /\ At("tick") /\ Done
    /\ IF throughputElapsedMs_ >= kThroughputInterval
       THEN throughputElapsedMs_' = 0 /\ backlightOn_' = Lit /\ activity' = 0
       ELSE UNCHANGED <<throughputElapsedMs_, backlightOn_, activity>>
    /\ UNCHANGED <<setupVars, telnetVars, button>>
Tick ==
    /\ At("tick") /\ Done
    /\ IF throughputElapsedMs_ >= kThroughputInterval
       THEN throughputElapsedMs_' = 0 /\ backlightOn_' = Lit
       ELSE UNCHANGED <<throughputElapsedMs_, backlightOn_>>
    /\ UNCHANGED <<setupVars, telnetVars, button, activity>>

\* Time passes.
Capped(n, bound) == IF n < bound THEN n ELSE bound
Delay ==
    /\ At("delay") /\ Done
    /\ \E n \in Rounds :
          /\ activity' = Capped(activity + n, BACKLIGHT_TIMEOUT + 1)
          /\ throughputElapsedMs_' = Capped(throughputElapsedMs_ + n, kThroughputInterval)
    /\ UNCHANGED <<setupVars, telnetVars, button, backlightOn_>>

Program ==
    \/ Setup \/ Round \/ TelnetAccept \/ TelnetRead
    \/ PollButtons \/ Tick \/ Delay

-----------------------------------------------------------------------------
(* The network, the clients, the device and the button.                    *)

\* The library connects again by itself.
Network ==
    /\ network' = ~network
    /\ UNCHANGED <<todo, halted, retries, telnetVars, displayVars, throughputElapsedMs_>>

Forgotten(c) ==
    /\ conn[c] # "open" /\ \A i \in Slots : clients_[i] # c
    /\ \A k \in 1..Len(backlog) : backlog[k] # c
Connects(c) ==
    /\ running_ /\ Forgotten(c)
    /\ conn' = [conn EXCEPT ![c] = "open"] /\ backlog' = Append(backlog, c)
    /\ UNCHANGED <<todo, setupVars, running_, clients_, displayVars, throughputElapsedMs_>>
Leaves(c) ==
    /\ conn[c] = "open" /\ conn' = [conn EXCEPT ![c] = "left"]
    /\ UNCHANGED <<todo, setupVars, running_, backlog, clients_, displayVars, throughputElapsedMs_>>

Press ==
    /\ ~button /\ button' = TRUE
    /\ UNCHANGED <<todo, setupVars, telnetVars, backlightOn_,
                   activity, throughputElapsedMs_>>

World ==
    \/ Network \/ Press
    \/ \E c \in Clients : Connects(c) \/ Leaves(c)

Next == Program \/ World
Spec == Init /\ [][Next]_vars
\* The program runs.
FairSpec == Spec /\ WF_vars(Program)

-----------------------------------------------------------------------------
TypeOK ==
    /\ halted \in BOOLEAN /\ network \in BOOLEAN /\ retries \in 0..maxRetries
    /\ running_ \in BOOLEAN /\ button \in BOOLEAN /\ backlightOn_ \in BOOLEAN
    /\ conn \in [Clients -> {"away", "open", "left", "stopped"}]
    /\ backlog \in Seq(Clients) /\ clients_ \in [Slots -> Clients \cup {Nobody}]
    /\ activity \in 0..BACKLIGHT_TIMEOUT + 1
    /\ throughputElapsedMs_ \in 0..kThroughputInterval

Waiting == {backlog[k] : k \in 1..Len(backlog)}

\* A connection that is open waits to be accepted or has one slot: no other is
\* put in its place, in whatever order clients come and go between the rounds
\* (poll's search for a free slot).
OpenHaveTheirSlot ==
    TypeOK /\
    \A c \in Clients : conn[c] = "open" =>
        Cardinality({i \in Slots : clients_[i] = c}) = IF c \in Waiting THEN 0 ELSE 1

\* Once the button is let alone the backlight goes off and stays off, unless
\* setup has failed (pollButtons, and the check that update makes before it
\* draws, which tick reaches only once in an interval).
BacklightGoesOff == <>[](~button) => <>[](halted \/ ~backlightOn_)
=============================================================================
