-------------------------- MODULE BridgeController --------------------------
(***************************************************************************)
(* The running bridge, src/src/core/BridgeController.cpp, around the       *)
(* responder: the main loop's tick, the UART and telnet callbacks and the  *)
(* HTTP handlers.  tick makes several calls in a row, each of which is a   *)
(* step of its own here, because on Linux the callbacks run in threads of  *)
(* their own and may come between them, also between the test of the       *)
(* responder's state and the setConfig that it decides on; on the M5 Stack *)
(* they cannot.  Each call on the responder is one step: what happens      *)
(* inside the calls when they overlap is the subject of BridgeThreads.     *)
(* Names that end in _<Word> are faulty variants, as in AutoResponder.     *)
(***************************************************************************)
EXTENDS AutoResponder

CONSTANTS
    StartupConfig,          \* config_.commandSequence of the controller
    Threaded,               \* TRUE on Linux, FALSE on the M5 Stack
    HasStorage,             \* storage_ is not null
    ClientData,             \* lengths of what a telnet client may send
    kThroughputIntervalMs,  \* 1000 in the code
    Digits,                 \* binary digits of a float: 24 in the code
    Intervals,              \* the elapsed times for which PerSec is checked
    MaxWindow               \* bound: bytes counted in one interval

ASSUME ControllerAssumption ==
    /\ StartupConfig \in Configs
    /\ Threaded \in BOOLEAN /\ HasStorage \in BOOLEAN
    /\ kThroughputIntervalMs \in Nat \ {0}
    /\ Digits \in Nat /\ 1000 < 2^Digits
    /\ Intervals \subseteq Nat \ {0}
    /\ ClientData \subseteq Nat /\ MaxWindow \in Nat

VARIABLES
    mainPc,        \* the main thread: "startup", "loop", or inside tick
    tickMs,        \* the elapsedMs of the tick in progress
    rxByteCount_, txByteCount_, throughputElapsedMs_,
    rxBytesPerSec_, txBytesPerSec_,
    calls,         \* what the last handler asked of the other modules
    posted         \* history: the configuration given last, in the
                   \* configuration file or by POST

thVars == <<rxByteCount_, txByteCount_, throughputElapsedMs_,
            rxBytesPerSec_, txBytesPerSec_>>
cvars == <<vars, mainPc, tickMs, thVars, calls, posted>>

CallbacksMayRun ==
    IF Threaded THEN mainPc # "startup" ELSE mainPc = "loop"

-----------------------------------------------------------------------------
(* Callbacks.                                                              *)

OnUartData(chunk) ==
    /\ CallbacksMayRun
    /\ rxByteCount_ + Len(chunk) <= MaxWindow
    /\ rxByteCount_' = Plus(rxByteCount_, Len(chunk))
    /\ Process(chunk)
    /\ calls' = IF HasStorage
                THEN <<<<"telnet.broadcast", chunk>>, <<"storage.write", chunk>>>>
                ELSE <<<<"telnet.broadcast", chunk>>>>
    /\ UNCHANGED <<mainPc, tickMs, txByteCount_, throughputElapsedMs_,
                   rxBytesPerSec_, txBytesPerSec_, posted>>

OnClientData(n) ==
    /\ CallbacksMayRun
    /\ txByteCount_ + n <= MaxWindow
    /\ txByteCount_' = Plus(txByteCount_, n)
    /\ calls' = <<<<"uart.write", n>>>>
    /\ UNCHANGED <<vars, mainPc, tickMs, rxByteCount_, throughputElapsedMs_,
                   rxBytesPerSec_, txBytesPerSec_, posted>>

\* POST /config with a body that parses.
PostConfig(seq) ==
    /\ CallbacksMayRun
    /\ SetConfig(seq)
    /\ posted' = seq
    /\ calls' = <<<<"http.reply", 200>>>>
    /\ UNCHANGED <<mainPc, tickMs, thVars>>

\* POST /config with a body that does not parse; any other endpoint.
BadRequest(status) ==
    /\ CallbacksMayRun
    /\ calls' = <<<<"http.reply", status>>>>
    /\ UNCHANGED <<vars, mainPc, tickMs, thVars, posted>>

GetConfig ==
    /\ CallbacksMayRun
    /\ calls' = <<<<"http.reply", 200, config_>>>>
    /\ UNCHANGED <<vars, mainPc, tickMs, thVars, posted>>

-----------------------------------------------------------------------------
(* tick(elapsedMs), from the main loop.                                    *)

TickResponder(ms) ==
    /\ mainPc = "loop"
    /\ Tick(ms)
    /\ tickMs' = ms
    /\ mainPc' = "rearm"
    /\ calls' = <<>>
    /\ UNCHANGED <<thVars, posted>>

StartupNotEmpty ==
    StartupConfig.rules # <<>> \/ StartupConfig.postCommands # <<>>

\* The test, and the setConfig that it decides on.
Rearm_Never ==
    /\ mainPc = "rearm"
    /\ mainPc' = "throughput"
    /\ calls' = <<>>
    /\ UNCHANGED <<vars, tickMs, thVars, posted>>
Rearm ==
    /\ mainPc = "rearm"
    /\ mainPc' = IF state_ = "IDLE" /\ StartupNotEmpty THEN "reload" ELSE "throughput"
    /\ calls' = <<>>
    /\ UNCHANGED <<vars, tickMs, thVars, posted>>

Reload ==
    /\ mainPc = "reload"
    /\ mainPc' = "throughput"
    /\ calls' = <<>>
    /\ SetConfig(StartupConfig)
    /\ UNCHANGED <<tickMs, thVars, posted>>

\* Fractions <<n, d>>, and the float that is nearest to one: of Digits binary
\* digits, of two as near the even one.
Fraction == Nat \X (Nat \ {0})
Scaled[x \in Fraction, e \in Int] ==
    IF e >= 0 THEN <<x[1] * 2^e, x[2]>> ELSE <<x[1], x[2] * 2^(-e)>>
Whole[x \in Fraction] == x[1] \div x[2]
Nearest[x \in Fraction] ==
    LET twice == 2 * (x[1] % x[2])
    IN  IF twice > x[2] \/ (twice = x[2] /\ Whole[x] % 2 = 1)
        THEN Whole[x] + 1 ELSE Whole[x]
Exponent[x \in Fraction] ==
    CHOOSE e \in (-Digits)..(2 * Digits) :
        Whole[Scaled[x, e]] \in 2^(Digits - 1)..(2^Digits - 1)
Float[x \in Fraction] ==
    IF x[1] = 0 THEN <<0, 1>>
    ELSE Scaled[<<Nearest[Scaled[x, Exponent[x]]], 1>>, -Exponent[x]]

Quotient[x \in Fraction, y \in Fraction] == Float[<<x[1] * y[2], x[2] * y[1]>>]
PlusHalf[x \in Fraction] == Float[<<2 * x[1] + x[2], 2 * x[2]>>]

\* count bytes in ms milliseconds, as bytes per second: float by float.
PerSec_WholeSeconds(count, ms) == count \div (ms \div 1000)
PerSec(count, ms) ==
    LET elapsedSec == Quotient[Float[<<ms, 1>>], <<1000, 1>>]
    IN  Whole[PlusHalf[Quotient[Float[<<count, 1>>], elapsedSec]]]

Throughput ==
    LET elapsed == Plus(throughputElapsedMs_, tickMs)
    IN  /\ mainPc = "throughput"
        /\ mainPc' = "loop"
        /\ \/ /\ elapsed < kThroughputIntervalMs
              /\ throughputElapsedMs_' = elapsed
              /\ calls' = <<>>
              /\ UNCHANGED <<rxByteCount_, txByteCount_,
                             rxBytesPerSec_, txBytesPerSec_>>
           \/ /\ elapsed >= kThroughputIntervalMs
              /\ rxBytesPerSec_' = PerSec(rxByteCount_, elapsed)
              /\ txBytesPerSec_' = PerSec(txByteCount_, elapsed)
              /\ rxByteCount_' = 0 /\ txByteCount_' = 0
              /\ throughputElapsedMs_' = 0
              /\ calls' = <<<<"display.update">>>>
        /\ UNCHANGED <<vars, tickMs, posted>>

-----------------------------------------------------------------------------

CInit ==
    /\ Init
    /\ mainPc = "startup" /\ tickMs = 0
    /\ rxByteCount_ = 0 /\ txByteCount_ = 0 /\ throughputElapsedMs_ = 0
    /\ rxBytesPerSec_ = 0 /\ txBytesPerSec_ = 0
    /\ calls = <<>>
    /\ posted = StartupConfig

\* The end of startup, once every module is up: the responder gets the
\* configuration of the file, and then the callbacks are wired.
Startup ==
    /\ mainPc = "startup"
    /\ mainPc' = "loop"
    /\ SetConfig(StartupConfig)
    /\ UNCHANGED <<tickMs, thVars, calls, posted>>

MainThread ==
    \/ Startup
    \/ \E ms \in TickSteps : TickResponder(ms)
    \/ Rearm
    \/ Reload
    \/ Throughput

CNext ==
    \/ \E chunk \in Chunks : OnUartData(chunk)
    \/ \E n \in ClientData : OnClientData(n)
    \/ \E seq \in Configs : PostConfig(seq)
    \/ \E status \in {400, 404} : BadRequest(status)
    \/ GetConfig
    \/ MainThread

CSpec == CInit /\ [][CNext]_cvars

\* The main thread goes on for as long as the program runs.
CLiveSpec == CSpec /\ WF_cvars(MainThread)

-----------------------------------------------------------------------------
(* Properties.                                                             *)

\* Property 13 of the design: a reported rate is within one byte per second
\* of the bytes received and sent over the time since the last report.  Floats
\* resolve that up to a quarter of 2^Digits, which is 4 MB/s in the code; that
\* they do is checked for every count up to there, and of each report that it
\* is of the right counts over the right time.
Resolved(count, ms) == 1000 * count <= 2^(Digits - 2) * ms
RateIsClose(rate, count, ms) ==
    Resolved(count, ms) => /\ rate * ms <= 1000 * count + ms
                           /\ 1000 * count <= rate * ms + ms
RatesAreAccurate ==
    /\ [](mainPc = "startup" =>
             \A ms \in Intervals, count \in 0..2^(Digits - 1) :
                RateIsClose(PerSec(count, ms), count, ms))
    /\ [][ \A i \in 1..Len(calls') : calls'[i][1] = "display.update" =>
             LET ms == throughputElapsedMs_ + tickMs
             IN  /\ RateIsClose(rxBytesPerSec_', rxByteCount_, ms)
                 /\ RateIsClose(txBytesPerSec_', txByteCount_, ms) ]_cvars

\* A responder that is through with its sequence starts over: it does not
\* rest for ever once the file configures a sequence, whatever was POSTed.
IdleIsRearmed == (StartupNotEmpty /\ state_ = "IDLE") ~> (state_ # "IDLE")

-----------------------------------------------------------------------------
(* What the documents say and the code does not do.                        *)

\* The comment in tick: the responder is re-armed when it goes IDLE.  A sequence
\* in progress would then be replaced by a POST and by nothing else; but what a
\* POST brings between the test and the setConfig is replaced unread.
OnlyFinishedIsReplaced ==
    [][ (Len(sent') < Len(sent) \/ config_' # config_) =>
          mainPc = "startup" \/ state_ = "IDLE" \/ calls' = <<<<"http.reply", 200>>>> ]_cvars

\* Property 9 of the design: GET /config returns what was POSTed last.
GetReturnsPosted ==
    \A i \in 1..Len(calls) :
        Len(calls[i]) = 3 /\ calls[i][1] = "http.reply" => calls[i][3] = posted
=============================================================================
