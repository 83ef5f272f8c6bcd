---------------------------- MODULE TelnetFilter ----------------------------
(***************************************************************************)
(* What LinuxTelnetServer::clientLoop does to the bytes of one connection: *)
(* it strips the telnet commands out of what the client sends and refuses  *)
(* the options it is asked for.  The telnet client at the other end is     *)
(* modelled from what the protocol lets it send; its bytes come in reads   *)
(* of any size, so a command may be cut anywhere.                          *)
(* A client sends no subnegotiation (IAC SB ... IAC SE): it may do so only *)
(* for an option both sides agreed on, and this server agrees to none.     *)
(***************************************************************************)
EXTENDS Integers, Sequences

CONSTANTS
    Data,          \* bytes other than IAC that a user types
    Options,       \* option bytes
    Offers,        \* the options the server offers on connection, in order
    DeviceBytes,   \* bytes the device sends
    BufSize,       \* the size of the receive buffer
    MaxTyped,      \* bound: the user types while fewer bytes are on their way
    MaxAsks        \* bound on the options the client asks for by itself

Verbs == {"WILL", "WONT", "DO", "DONT"}
IAC == "IAC"

ASSUME FilterAssumption ==
    /\ IAC \notin Data /\ Offers \in Seq(Options)
    /\ BufSize \in Nat \ {0} /\ MaxTyped \in Nat /\ MaxAsks \in Nat

VARIABLES
    iacState, iacCmd,      \* the locals of clientLoop
    clean,                 \* the bytes to pass on after this read
    line,                  \* client to server, not yet looked at
    avail,                 \* how many of those have been read into buf
    down,                  \* server to client
    clientState, verb,     \* the client's own parser
    serverDoes,            \* options the client believes the server performs
    asks

server == <<iacState, iacCmd, clean>>
client == <<clientState, verb, serverDoes, asks>>
fvars == <<server, line, avail, down, client>>

\* What a client may send, whole: the bytes, the text they stand for, and the
\* answer that the protocol asks for: an option nobody has is refused.
Text(b) == [bytes |-> IF b = IAC THEN <<IAC, IAC>> ELSE <<b>>,
            text |-> <<b>>, answer |-> <<>>]
Command == [bytes |-> <<IAC, "NOP">>, text |-> <<>>, answer |-> <<>>]
Negotiate(v, o) ==
    [bytes |-> <<IAC, v, o>>, text |-> <<>>,
     answer |-> CASE v = "WILL" -> <<IAC, "DONT", o>>
                  [] v = "DO" -> <<IAC, "WONT", o>>
                  [] OTHER -> <<>>]
Typed == {Text(b) : b \in Data \cup {IAC}} \cup {Command}
Tokens == Typed \cup {Negotiate(v, o) : v \in Verbs, o \in Options}

\* On the wire a byte is only a byte; at and of say which byte of what it is.
Wire(tok) == [k \in 1..Len(tok.bytes) |->
                [byte |-> tok.bytes[k], at |-> k, of |-> tok]]
IsLast(x) == x.at = Len(x.of.bytes)
FromServer(s) == [k \in 1..Len(s) |-> [byte |-> s[k], device |-> FALSE]]

\* IAC WILL o for each of the offers.
InitOpts == [k \in 1..3 * Len(Offers) |->
               CASE k % 3 = 1 -> IAC [] k % 3 = 2 -> "WILL"
                 [] OTHER -> Offers[k \div 3]]

Init ==
    /\ iacState = 0 /\ iacCmd = "zero" /\ clean = <<>>
    /\ line = <<>> /\ avail = 0
    /\ down = FromServer(InitOpts)
    /\ clientState = 0 /\ verb = "zero" /\ serverDoes = {} /\ asks = 0

-----------------------------------------------------------------------------
(* The server.                                                             *)

\* A read takes some of what has come.  The callback has been given clean.
Recv_Fresh ==
    /\ avail = 0
    /\ \E n \in 1..BufSize : n <= Len(line) /\ avail' = n
    /\ clean' = <<>>
    /\ iacState' = 0
    /\ UNCHANGED <<iacCmd, line, down, client>>
Recv ==
    /\ avail = 0
    /\ \E n \in 1..BufSize : n <= Len(line) /\ avail' = n
    /\ clean' = <<>>
    /\ UNCHANGED <<iacState, iacCmd, line, down, client>>

\* The reply to the option byte b.
Reply_Swapped(cmd, b) ==
    CASE cmd = "WILL" -> <<IAC, "WONT", b>>
      [] cmd = "DO" -> <<IAC, "DONT", b>>
      [] OTHER -> <<>>
Reply_Always(cmd, b) ==
    CASE cmd \in {"WILL", "WONT"} -> <<IAC, "DONT", b>>
      [] OTHER -> <<IAC, "WONT", b>>
Reply(cmd, b) ==
    CASE cmd = "WILL" -> <<IAC, "DONT", b>>
      [] cmd = "DO" -> <<IAC, "WONT", b>>
      [] OTHER -> <<>>

NextByte ==
    /\ avail > 0
    /\ avail' = avail - 1
    /\ line' = Tail(line)
    /\ UNCHANGED client

Normal(b) ==
    /\ iacState = 0
    /\ iacState' = IF b = IAC THEN 1 ELSE 0
    /\ clean' = IF b = IAC THEN clean ELSE Append(clean, b)
    /\ UNCHANGED <<iacCmd, down>>

CommandByte(b) ==
    /\ iacState = 1
    /\ iacCmd' = b
    /\ iacState' = IF b \in Verbs THEN 2 ELSE 0
    /\ clean' = IF b = IAC THEN Append(clean, IAC) ELSE clean
    /\ UNCHANGED down

OptionByte(b) ==
    /\ iacState = 2
    /\ down' = down \o FromServer(Reply(iacCmd, b))
    /\ iacState' = 0
    /\ UNCHANGED <<iacCmd, clean>>

Byte ==
    /\ NextByte
    /\ LET b == Head(line).byte
       IN  Normal(b) \/ CommandByte(b) \/ OptionByte(b)

\* broadcast, by the UART thread: one byte stands for any number.
Broadcast ==
    /\ \A k \in 1..Len(down) : ~down[k].device
    /\ \E b \in DeviceBytes : down' = Append(down, [byte |-> b, device |-> TRUE])
    /\ UNCHANGED <<server, line, avail, client>>

-----------------------------------------------------------------------------
(* The client.                                                             *)

Type ==
    /\ Len(line) < MaxTyped
    /\ \E tok \in Typed : line' = line \o Wire(tok)
    /\ UNCHANGED <<server, avail, down, client>>

Ask ==
    /\ asks < MaxAsks
    /\ asks' = asks + 1
    /\ \E v \in Verbs, o \in Options : line' = line \o Wire(Negotiate(v, o))
    /\ UNCHANGED <<server, avail, down, clientState, verb, serverDoes>>

\* What the client says to v o: it must answer what changes its view of the
\* server, and may confirm what does not.
Answers(v, o) ==
    CASE v = "WILL" -> IF o \in serverDoes THEN {<<>>, <<"DO">>}
                       ELSE {<<"DO">>, <<"DONT">>}
      [] v = "WONT" -> IF o \in serverDoes THEN {<<"DONT">>}
                       ELSE {<<>>, <<"DONT">>}
      [] v = "DONT" -> {<<>>, <<"WONT">>}
      [] v = "DO" -> {<<"WONT">>}

Heed(o) ==
    \E a \in Answers(verb, o) :
        /\ serverDoes' = CASE verb = "WILL" /\ a = <<"DO">> -> serverDoes \cup {o}
                           [] verb = "WONT" -> serverDoes \ {o}
                           [] OTHER -> serverDoes
        /\ line' = IF a = <<>> THEN line ELSE line \o Wire(Negotiate(a[1], o))
        /\ clientState' = 0

\* The client's parser; what it shows in state 0 is the device's.
ClientReads ==
    /\ down # <<>>
    /\ down' = Tail(down)
    /\ LET b == Head(down).byte
       IN  \/ /\ clientState = 0
              /\ clientState' = IF b = IAC THEN 1 ELSE 0
              /\ UNCHANGED <<verb, serverDoes, line>>
           \/ /\ clientState = 1
              /\ clientState' = IF b \in Verbs THEN 2 ELSE 0
              /\ verb' = b
              /\ UNCHANGED <<serverDoes, line>>
           \/ /\ clientState = 2
              /\ Heed(b)
              /\ UNCHANGED verb
    /\ UNCHANGED <<server, avail, asks>>

Next == Recv \/ Byte \/ Broadcast \/ Type \/ Ask \/ ClientReads

Spec == Init /\ [][Next]_fvars

\* The client's thread runs, and a client reads on; neither the device nor
\* the user need send anything.
FairSpec == Spec /\ WF_fvars(Recv) /\ WF_fvars(Byte) /\ WF_fvars(ClientReads)

-----------------------------------------------------------------------------
(* Properties.                                                             *)

TypeOK ==
    /\ iacState \in 0..2 /\ clientState \in 0..2
    /\ avail \in 0..BufSize /\ avail <= Len(line)
    /\ Len(clean) <= BufSize
    /\ \A k \in 1..Len(line) : line[k].of \in Tokens

\* However the stream is cut into reads, the filter is always at the same
\* place of a command as the client was: what it keeps between two reads
\* (iacState, iacCmd) fits the next byte.
ServerInStep ==
    /\ line = <<>> => iacState = 0
    /\ line # <<>> =>
        /\ line[1].at = iacState + 1
        /\ iacState = 2 => iacCmd = line[1].of.bytes[2]

\* Each byte adds to clean the text the client meant with it, and to the
\* answers the one that it owes, no more and no less: what is typed reaches
\* the UART unchanged, 0xFF included, and no part of a command does.
FilterIsExact ==
    [][ avail' < avail =>
          LET x == Head(line)
          IN  /\ clean' = clean \o (IF IsLast(x) THEN x.of.text ELSE <<>>)
              /\ down' = down \o FromServer(IF IsLast(x) THEN x.of.answer
                                            ELSE <<>>) ]_fvars

\* A byte of the device reaches the client between two commands, never within
\* one, so that a device that sends no 0xFF is shown exactly.
DeviceIsShown ==
    down # <<>> /\ Head(down).device => clientState = 0

\* Neither end takes a byte for part of a command that the other end did not
\* mean as one.
InStep == TypeOK /\ ServerInStep /\ DeviceIsShown

\* Nothing of a negotiation is on its way.
Settled ==
    /\ clientState = 0
    /\ \A k \in 1..Len(down) : down[k].device
    /\ \A k \in 1..Len(line) : line[k].of \in Typed

\* Refusing every option, and answering nothing to a refusal, ends each
\* negotiation, also with a client that confirms every refusal.
NegotiationSettles == []<>Settled

-----------------------------------------------------------------------------
(* What the documents say and the code does not do.                        *)

\* clientLoop, on its offers: sent to satisfy basic telnet clients.  So what
\* a client accepts stays accepted.
OfferStands ==
    [][ \A o \in Options : o \in serverDoes => o \in serverDoes' ]_fvars
=============================================================================
