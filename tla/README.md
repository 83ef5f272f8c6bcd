# The UART-Telnet bridge in TLA+

The program connects a serial device to telnet clients, logs what the device
says, and answers the device's prompts from a configured sequence (log in, then
run some commands). It runs on Linux, with threads, and on an M5 Stack, with a
single loop. This directory holds models of it, the model-checking
configurations, and proofs of what matters most about its core.

## 1. Inventory

| part | state | operations | talks to |
|---|---|---|---|
| `AutoResponder` | configuration, phase, two indices, rolling buffer, two timers, two flags | `process` (data), `tick` (time), `setConfig` | writes to the UART through a callback |
| `BridgeController` | byte counters, rates, its copy of the configuration | `startup`, `shutdown`, `tick`, UART and telnet callbacks, HTTP handlers | every module, by reference |
| `LinuxUartModule` | descriptor, `running_`, read thread | `open`, `close`, `reopen`, `write`, read loop | calls the UART callback from its thread |
| `LinuxTelnetServer` | client list under a mutex, threads, listening socket; per client, where in a telnet command it is | `start`, `stop`, `broadcast`, accept loop, client loops | calls the telnet callback from its client threads |
| `LinuxStorageModule` | current file, index and size, file count, availability | `init`, `write` with rotation, `flush` | the disk |
| `ConfigParser` | none | JSON to `BridgeConfig` and back | `main`, HTTP handlers |
| `main`, `PlatformFactory` | `running`, ownership of the modules | set-up, main loop, shutdown | all of the above |
| Linux HTTP, display, WiFi | next to nothing | stubs and printing | |
| `platformio/src/main.cpp` | the M5 Stack's modules, the time of the last round | `setup`, `loop` | polls its modules in turn |
| `M5StorageModule` | as on Linux, and whether the card is in use | `init`, `write`, `poll` | the SD card |
| `M5TelnetServer` | four slots | `start`, `poll`, `broadcast` | WiFi library |
| M5 WiFi, display, UART | retries; backlight and time of last activity; none | `connect`; `update`, `pollButtons`; `poll` | vendor libraries |
| `esp32/` | | skeletons without bodies | |

What is hard:

- **Protocol sequences.** `process`, `tick` and `setConfig` each advance the
  responder, in duplicated code; the order of calls is up to the device and
  the clock. Correct means: indices in range, flags in agreement, no time
  carried over, every item dealt with once, in order, none passed over. The
  telnet filter keeps its place in a command from read to read; correct means
  that what is typed, and nothing else, reaches the UART.
- **Threads without locks.** On Linux the UART callback (responder, counter)
  runs on the read thread and `tick` on the main thread. Nothing guards the
  responder or the counters.
- **Descriptors, threads and lifetimes.** Accept, client, UART and main threads
  share the client list under a mutex, and the descriptor table and the port
  without one. Startup may fail at any step, a signal may come at any time, and
  what one thread destroys another may be about to use.
- **Failure.** Writes, opens and rotations fail; the process is killed, the
  power fails or the card is taken out at any point, and the program resumes
  from whatever files it finds.
- **Polling.** The M5 Stack notices everything late: clients that have gone, a
  card that was taken out, a backlight that is due.

`PROJECT.json` lists every component with its status, and every hazard with
the line it bites at and the properties that watch it.

## 2. Modules

```
CommandScript                  what the responder promises
  ^ refined by
AutoResponder                  the responder, one action per call
  |-- AutoResponderHistory     with a record of the line and of time
  |-- BridgeController         inside the running bridge
BridgeThreads                  responder and counter, statement by statement
LinuxStorage                   the rotating log and its disk
LinuxTelnetServer              threads, mutex, descriptors
TelnetFilter                   telnet commands in a client's bytes
ConfigParser                   JSON documents and configurations (operators)
LinuxUart                      the serial port and its read loop
  |
LinuxMain                      the program from main to its return;
                               uses LinuxUart and ConfigParser
M5Storage                      the log on a card that comes and goes
M5Main                         setup and loop: network, slots, backlight
```

An `MCX` gives the module `X` small constants (`CommandScript` and
`AutoResponder` are checked through `AutoResponderHistory`, `LinuxUart` and
`ConfigParser` through `LinuxMain`); `ResponderConfigs` holds the configurations
that the responder's runs share. The proofs about a module `X` are in `XProofs`,
and those about `AutoResponder` and `AutoResponderHistory` in
`BridgeControllerProofs`.

A definition named `D_Word` that stands before a definition `D` is `D` with a
plausible mistake in it (a dropped reset, a missing guard, an off-by-one). No
specification uses one. For every property a run checks, `PROJECT.json` names
a faulty variant under which the property fails, so that none of them holds
merely by the way the model is put together.

**CommandScript.** A script is a sequence of items, rules before commands. An
item is answered, skipped, issued or concluded; a command is never skipped,
and one that awaits a prompt stays current until the prompt is confirmed or
given up.

**AutoResponder.** Variables are the members of the class, under their names,
plus `sent`: the items written since `setConfig`. A public call is one step.
`process` is `MatchTrigger`, `MatchPrompt` or `NoMatch`; `tick` is one of seven
disjuncts, one per path through it; `NextRule` and `NextPostCmd` stand for the
copies of the code that advance an index. Triggers, prompts and the buffer are
sequences over a small alphabet, because searching and trimming them is what
goes wrong; texts that are only written are names, of which only emptiness
counts. `Find` is `std::string::find`. Timers are `uint32_t` and wrap.

**AutoResponderHistory.** Adds what an observer would have noted: all bytes
received, which of them each match used, how long each wait lasted. It does not
constrain the responder, except for a bound on the bytes.

**BridgeController.** `tick` is four steps (responder, the test of its state,
the `setConfig` that the test decides on, throughput), since on Linux callbacks
come between; with `Threaded = FALSE` they do not. The UART callback, the telnet
callback, POST, GET and the error replies are actions. Calls into other modules
are the variable `calls`. The rates are computed as the code does it, float by
float: `Float` is the nearest number of `Digits` binary digits, and `PerSec` the
two divisions, the half that is added and the truncation.

**BridgeThreads.** Where the modules above make a call on the responder one
step, here a step is a statement, and each of the two threads has a list of
statements still to execute (`todo`). Data and time are left open: a prompt may
or may not be found, a limit may or may not be reached. A race on a plain
variable is modelled as an interleaving of whole loads and stores, which every
build can produce; a compiler may do worse. Whether the two threads overlap
(Linux) or make one call after the other (M5 Stack) is the variable `threaded`,
chosen at the start.

**LinuxStorage.** Bytes are numbered as `write` accepts them, so that files say
what they hold. `write` with its flush is one step; a rotation is three more
(close, remove, open) because the process may be killed between them. The
stream's unflushed bytes are lost, in part or in whole, in a crash. What the
code does not look at may fail too: a flush (the stream is then `bad`, keeps
what it had and may write it twice), the close before a rotation, the removal of
a full file or of the next one.

**LinuxTelnetServer.** Program counters for the accept thread, each client's
thread, the UART thread and the main thread; `clientsMutex_`; and the kernel's
table of descriptors, where a closed number is the next to be handed out. The
UART thread's log rotation is there because it takes descriptors too.

**TelnetFilter.** One connection: the locals of `clientLoop` that survive a
read, the bytes on their way in both directions, and a client. A byte on the
wire carries, for the properties only, which byte of what it was meant as. A
read takes any part of what has come. The client is what the telnet protocol
lets one be: it types, sends commands, asks for options, must answer what
changes its view and may confirm what does not. It sends no subnegotiation,
which is allowed only for options both sides agreed on, and the server agrees
to none. Names stand for bytes; 0xFF is `IAC` also where it is text.

**ConfigParser.** A document maps paths to typed values, `Missing` included; a
configuration maps paths to the members' values; an array has no or one element.
`ParseError` finds the first failing check in the code's order, `Taken` the
value a member gets (given, narrowed to 8 or 16 bits, default, or indeterminate:
`maxRetries` is not initialised). The M5 parser is there as `M5Sequence`. The
syntax of JSON is RapidJSON's and left out, and so is a text with a NUL in it,
which `GetString` cuts there on Linux and the M5 parser does not
(`ConfigParser.cpp:82`).

**LinuxUart.** `open`, `close`, `reopen` and `setOnDataCallback` as lists of
statements on their caller's thread, beside the read loop with the steps that
matter for it: test `running_`, load `fd_`, call `read`, wait in it, call back
(which begins with a broadcast), return. The kernel hands out the lowest free
descriptor. A device can be unplugged and plugged in.

**LinuxMain.** The main thread has the list of statements it still executes;
`StartupScript`, `Unwind`, `ShutdownScript` and `DestroyScript` are the
program's sequences of calls. Beside it run the read loop and one client, whose
data goes to the UART once the callback is wired. `MayFail` names the starts
that may fail besides the port's; WiFi's and HTTP's never do with the Linux
stubs, but `startup` handles it. Nothing in the repository calls
`onUartConnectionLost`; `supervised` says, for a whole behaviour, whether
somebody does, so that `reopen` is checked as well. The read loop has the mutex
for its broadcast, which waits for a client that is `stalled`; `telnet.close`,
the end of the client's thread and a new client need the mutex. Wiring a
callback is one store, so a thread that finds the `std::function` half assigned
(`LinuxTelnetServer.cpp:91`) is not seen.

**M5Storage.** The module's members and the SD library's state are one record,
and a call is an operator from a record to the set of records it may leave, so
that `write` composes its flush, check and rotation as the code does. The
library is modelled from its use: an open file goes stale when the card is taken
out; a stale file takes bytes or refuses them, and may or may not show that it
is stale at a flush. What is cached is lost, but for a part. With the card in, a
file may not open to append, to read (the scan passes over it, `openNextFile`
keeps the size it had), or not be removed; `hurt` counts the last two.

**M5Main.** `setup` and a round of `loop` are lists of statements on the only
thread, with the network, the clients and the button changing in between.
`TelnetRead` frees the slots of those who have left; `Accept` takes over a slot
whose client has gone. What the slots carry is the telnet callback of
`BridgeController`; storage is `M5Storage`; the rest of `tick` is in
`BridgeController` and `AutoResponder`. `loop`'s own re-arming
(`platformio/src/main.cpp:152`) never finds anything to do, for `tick` has
re-armed a responder at rest just before.

Each of these has one type invariant, `TypeOK`, which is a conjunct of the
invariant that its run names first or that needs it (`InStep`,
`CallbacksFindTheirObjects`, `CardKeepsUp`, `OpenHaveTheirSlot`,
`DiskIsBounded`, `ListedAreOpen`); the responder's is a conjunct of
`Consistent`.

## 3. Runs

| run | shows | distinct states |
|---|---|---|
| `AutoResponder` | indices, flags and timers consistent; refines `CommandScript`; buffer, answers and waits agree with the observer's record, and nothing awaited is overlooked; with limits on every wait it gets to the end | 233 k |
| `BridgeController` | rates are accurate as far as floats resolve them; a responder at rest is re-armed | 267 k |
| `BridgeThreads` | on one thread: not stuck, count exact; on two: an overrun of the command index heals | 569 k |
| `LinuxStorage` | under all faults, ignored ones too: disk bounded, little lost; log in order and only old bytes overwritten, unless torn | 3.8 M |
| `LinuxTelnetServer` | what is listed is open; what ended is released | 923 k |
| `LinuxTelnetServerLive` | if peers read on, stop returns and leavers are released; only a client that never reads again holds up a broadcast | 62 k |
| `TelnetFilter` | what is typed, and nothing else, reaches the UART however it is cut into reads; both ends in step; negotiation ends | 492 k |
| `LinuxMain` | nothing left behind after any failure or signal; callbacks only while their objects live; no other file read or written; an open port is read; configurations accepted, refused and taken as they should be; a signal ends the program if the client reads on | 36 k |
| `M5Storage` | little lost; a card put back is used; until a file cannot be read or removed, log in order, card bounded, only the oldest file removed | 468 k |
| `M5Main` | one slot for each connection; the backlight goes off | 457 k |
| `NeverWedged`, `DisplayFindsStorage` | violated: section 4 | |

**Bounds.** The responder runs have a buffer of 3 and chunks of 1 or 2 over two
characters: enough for a trigger to be split over chunks, fill the buffer, be
trimmed away, and be followed by the next one. Timers wrap at 8; ticks are 0, 1
or 2 and limits 2 or 3, so that a limit is met exactly and stepped over. The
configurations cover each branch of the code (rules or none, prompts or none,
timeout or none, empty triggers and texts, a delay at the longest the ticks
cannot step over). Five bytes of history let a buffer be overrun twice.
`BridgeThreads` has three bytes, each a callback that may overlap with a tick,
and two sizes of the configuration: two rules and two commands, and a single
command, with which an overrun of the index lasts until a tick heals it. Rates
are checked with floats of 10 digits instead of 24, for all counts up to half of
what such a float counts exactly and for intervals on both sides of a whole
second, and again for each report of the run. `LinuxStorage` has three files of
four bytes and 14 bytes of data: more than one round of the files, so that slots
are reused, with up to three faults or restarts. A file may exceed its size by
one byte, as it may in the code by one read. Two telnet clients and four
descriptors let descriptors be exhausted and reused; a third client would add
another thread of the same kind. In the telnet run the two clients are
interchangeable, so symmetry is sound; the liveness run uses none.

`TelnetFilter`: reads of one to three bytes cut a three-byte command in every
way and join it to its neighbours; typed bytes and option bytes include values
that look like commands. One offer of the server and one question of the client
are enough for each to answer the other. `LinuxMain`: three descriptors are the
port, the listening socket and one client, so that each number is reused and
`open` can find none; documents are a complete one with one value replaced by
every wrong kind and too wide a number, and with a container or another member
replaced as well. `M5Storage`: three files of three bytes and nine bytes of data
fill the ring and remove its first file; a flush after two bytes falls into a
write, before a rotation, and in one; ejections, insertions and power failures
are not bounded. One file (`MaxFailures`) cannot be read or removed, after which
the properties promise only what does not depend on it; a second would add
nothing to that. `M5Main`: two slots for three clients, so that all can be taken
with one left over; a round takes one unit or three, which is more than an
interval and as long as the backlight's time-out.

**Which faults the order of the log allows.** On Linux, a failed write leaves
the module closed with part of the data; a flush or close that fails unnoticed
leaves bytes missing or there twice; and a kill in the middle of a rotation
(between filling a file and removing the next), or a rotation that can neither
remove nor open the next file, may make a restart resume in another slot. `torn`
remembers that one of these happened; `LogIsInOrder` and `OnlyOldBytesGo` are
about histories without them. The other two invariants are about all. What they
promise is then less: `DiskIsBounded` allows a file one more limit for each
start that could not remove it when it was full (`openNextFile` takes its size
for 0 and appends), and `CrashLosesLittle` one write more after a failed flush.

On the M5 Stack the order holds through ejections, insertions, power failures
and failed opens, but not through two other faults. With `QuickSwap = TRUE`,
when the card is out and in again between two polls, bytes that only a stale
file took count towards the size and the order is lost. And `openNextFile` and
`rotateIfNeeded` ignore a file that cannot be read or removed
(`M5StorageModule.cpp:133`, `:138`, `:162`): from then on (`hurt`) the order and
the size of the files are anybody's guess, and only `EjectionLosesLittle` and
`CardIsTakenUp` are still promised.

**When the backlight goes off.** The model counts the time since the last
activity only up to one unit beyond the time-out, which is all that `update`
looks at. The property says that the light goes off, not when.

**Fairness.** The responder and controller runs assume that the main loop goes
on calling `tick` (`main.cpp`, the `while` loop), nothing about the device. With
a tick of 0, TLC would find a loop in which time stands still; weak fairness of
a tick that changes something excludes it, as the code's ticks are always 10 ms
on Linux. `BridgeThreads` assumes that both threads go on executing statements.
The telnet run assumes that runnable threads run, and that a thread waiting for
the mutex gets it eventually when it is free again and again (strong fairness);
the UART thread waits for data in between, for as long as the line is idle. A
peer need not send, read or leave. That no peer stays connected without ever
reading again is nowhere a fairness condition, since nothing in the program
makes it so: `StopReturns` and `LeaversAreReleased` have it as their premise
(`PeersReadOn`), and so has `SignalEnds` (`[]<>~stalled`).
`OnlyOnePeerHoldsUpBroadcast` does without. `TelnetFilter` assumes the client's
thread and that the client reads; not that anybody types. `LinuxMain` assumes
that its threads run and that `read` returns within its 100 ms (`VTIME`,
`LinuxUartModule.cpp:89`), not that data comes, and not that the client goes on
sending or reading; a client that is inside the callback comes out of it, and
`stop` gets the mutex that is free again and again. `M5Main` assumes that the
program runs. `M5Storage` assumes that a device is switched on, and, by strong
fairness, that a card which can be taken up again and again when the loop polls
is so at last: the file could then be opened, which `OpenMayFail` leaves open
each single time. A `CHECK_DEADLOCK FALSE` is there where the system ends: the
log when its bounds are used up, the server and the program when they are
stopped, a client that may type no more.

## 4. Where code and documents disagree

Two are runs that TLC must find violated, with the line quoted in
`PROJECT.json`.

| run | what the code does |
|---|---|
| `NeverWedged` | two threads on the responder leave it in a state nothing leaves |
| `DisplayFindsStorage` | storage that does not initialise is destroyed, and the display goes on asking it |

Others have a property that states the document's words and a configuration
that shows the counterexample (`tlc -config X.cfg` on the module named):

| configuration, module | what the code does |
|---|---|
| `PromptFollowsCommand`, `MCAutoResponderHistory` | a prompt from before a command counts as that command's prompt (`AutoResponder.cpp:65`, requirements.md:72) |
| `OnlyFinishedIsReplaced`, `MCBridgeController` | a sequence that is POSTed between the test of the responder's state and the `setConfig` is replaced unread, though the comment has re-arming wait until the responder is idle (`BridgeController.cpp:99`, `:103`) |
| `GetReturnsPosted`, `MCBridgeController` | a POSTed sequence is replaced by the file's once it has completed (`BridgeController.cpp:103`, design.md:660) |
| `AvailableIsWritable`, `MCLinuxStorage` | after a failed rotation storage stays available and drops everything (`LinuxStorageModule.cpp:170`, `StorageModule.h:46`) |
| `ClosesOnlyClients`, `MCLinuxTelnetServer` | a client thread closes its descriptor after `stop` did, and may close the log (`LinuxTelnetServer.cpp:69`) |
| `InsertedCardIsUsed`, `MCM5Storage` | the controller is given the storage only if it is available in `setup`, so a card inserted later is found but never written to (`platformio/src/main.cpp:113`; the module's header speaks of hot insertion) |

The models show more of them, seen while they were written:

- Two triggers in one read: the second is not looked for until more data comes,
  and may time out although it is in the buffer (`AutoResponder.cpp:87`; the
  design's Property 5 has a rule skipped only when its trigger is absent).
- `delayMs` passes before its own command (`AutoResponder.cpp:116`), not before
  the next one (`DataModels.h:69`).
- `postCmdDelayAccum_` wraps: a delay of 2^32 - 1 is stepped over by ticks of
  10 ms for ever (`AutoResponder.cpp:118`).
- A re-armed sequence goes on by timeout, without any trigger, although the
  comment says "on next trigger" (`BridgeController.cpp:100`); and re-arming
  clears a buffer that may hold that trigger.
- On two threads, increments and resets of the byte counter overwrite one
  another (`BridgeController.cpp:130`, `:204`), and the rule index moves between
  its test and its use (`AutoResponder.cpp:90`).
- The file count is not the number of files after a restart
  (`LinuxStorageModule.cpp:48`, `M5StorageModule.cpp:31`), and a restart on
  Linux with all slots full overwrites slot 0, whatever its age (`:59`).
- A finished client thread is kept until `stop` (`LinuxTelnetServer.cpp:125`);
  a client may send before the callback is wired, and the data is dropped; a
  peer that stops reading blocks `broadcast`, which holds the mutex that `stop`
  and every client thread need (`:83`): while it stays connected no signal ends
  the program. `OnlyOnePeerHoldsUpBroadcast` shows that nothing else does this.
- On the M5 Stack, a rotation that cannot open its file leaves the module
  available without a file (`M5StorageModule.cpp:166`): `poll` does not try
  again, and what comes is dropped until the card is taken out.
- Rates above 2^22 bytes per second are not resolved to one byte per second by a
  float (`BridgeController.cpp:196`); a UART is far from them.
- The server offers options and then refuses the client's consent to them, for
  it answers every DO with WONT (`LinuxTelnetServer.cpp:187`; `OfferStands` in
  `TelnetFilter`). A byte 0xFF from the device is broadcast as it is, which a
  client takes for a command. On the M5 Stack there is no filter: commands
  reach the device.
- Nothing calls `onUartConnectionLost`, so an unplugged device ends the read
  loop for good (requirement 1.5). If something did, `OnlyThePortIsUsed` would
  fail: `close` gives the descriptor back while a client's `write` may be about
  to write to it.
- Numbers too wide for their member are narrowed without complaint, and
  `maxRetries` has no value when the file has none (`ConfigParser.cpp:222`).
- On the M5 Stack, a `connect` that fails halts the program in `setup`
  (`platformio/src/main.cpp:122`; requirements.md:96 has the cycle restarted),
  and the configured `displayTimeoutMs` is not used for the backlight.

`BridgeThreads` also shows a hazard that heals: an overrun of the command index
is caught by the check at the head of `tick`'s branch, which looks redundant in
a single thread (`IndexInRange`).

## 5. Proofs

For every value of the constants that satisfies the assumptions the modules name
(`ConstantsAssumption`, `ControllerAssumption`, `ThreadsAssumption`,
`StorageAssumption`, `TelnetAssumption`, `FilterAssumption`, `UartAssumption`,
`ConfigAssumption`, `DocumentsAssumption`, `MainAssumption`, `M5Assumption`).
These ask that sizes are numbers, and that marks such as "no client" are not
also the name of one. A few theorems need more; it is said there. Constants such
as `MaxWritten`, `MaxFailures` or `MaxRotations`, which bound what TLC looks at,
are any number here.

**The responder.**

- `BridgeControllerProofs`, the responder alone. The invariant `IInv` is
  `TypeOK`, `IndexInRange`, `FlagsAgree` and `TimersInBounds` together;
  `Consistent`, which the run checks, is the same four. None is inductive alone:
  an index stays in range only because a phase ends when its index reaches the
  end (`IndexInRange`), a prompt is awaited only in the phase of commands
  (`FlagsAgree`), and a command's limit makes sense only for an index in range
  (`TimersInBounds`). `NextRuleProgress` and `NextPostCmdProgress` state what
  the advancing code establishes; `ProcessKeeps`, `TickKeeps` and
  `SetConfigEstablishes` are the three calls. From it: `AlwaysConsistent`, and
  its parts `TypeCorrect`, `IndicesInRange`, `FlagsAlwaysAgree`,
  `TimersAlwaysInBounds`.
- `Refinement`: `Spec => ImplementsScript`. The mapping takes the configuration
  to a script, the sum of the two indices to the number of items done,
  `postCmdSent_` to `issued`. Under `IInv` the current rule or command is the
  script's current item; a match is `Answer` or `Conclude`, a timeout `Skip` or
  `Conclude`, the end of a delay `Issue`, everything else a stutter.
- `CommandScriptProofs`: `OutputInOrder` and `NoCommandSkipped`, from an
  invariant that adds to them that an issued command has been written. By
  `Refinement` they hold of the responder: `ResponderWritesInOrder` and
  `ResponderSkipsNoCommand` (`ScriptInvariance` carries the invariant over).
  No run checks these two beside `ImplementsScript`, from which they follow.
- The responder observed: what the observer of the line and the clock may
  rely on. `ProcessCases` and `TickCases` say once what a call amounts to for
  the observer (`Matched`, `Unmatched`, `GaveUp`, `Issued`, `Idled`); the rest
  uses these five and not the twelve paths through the code.
  - `BufferIsAlwaysUnusedTail` and `AlwaysAnsweredIffMatched`, from `UseInv`.
    The place where the buffer begins in the stream (`Begin`) is what makes it
    inductive: it is behind every byte that was used, so the next match is apart
    from all earlier ones and its bytes are in the stream where the record says;
    `InTurn` says that items still to come have neither matches nor responses,
    so that a new one decides its own item and no other.
  - `NothingIsEverOverlooked`. While the wait goes on, data that leaves the
    buffer without an occurrence is the only change to the buffer; whatever ends
    the wait begins a new one at the present end of the stream.
  - `WaitsAlwaysKeepTheirLimits`, from `WaitInv`: the observer's clock and the
    responder's timer agree while something is waited for. This one assumes
    `TimersSuffice`: a limit and one tick fit in a `uint32_t`. Without it the
    timers step over the limit and it is false, as section 4 says.
- The responder inside the bridge: every step of the bridge is a step of the
  responder or leaves it alone (`ResponderInBridge`), so the first three hold
  inside the bridge (`BridgeImplementsScript`, `ResponderConsistentInBridge`).
  Where callbacks do not come within a tick, what the test of the state has
  found is still so when `setConfig` is called (`IdleUntilReload`), and no
  sequence in progress is replaced by re-arming (`FinishedIsReplacedOnM5`).

**The log.** `LinuxStorageProofs`: `DiskIsAlwaysBounded`, `CrashesLoseLittle`,
`LogIsAlwaysInOrder`, `OnlyOldBytesEverGo`, for any number of files, any limits,
and any number of crashes, faults and restarts, those included that the code
does not notice.

- `SizeIsExact` and `Stream` (which of open, closed, removed the stream is at
  each point of a rotation, and what it may hold after a flush that failed) give
  the first two, with the bound of each file (`Bounded`): by how much it may be
  longer than the size that is counted, for what was written twice and for each
  start that could not remove it.
- `Ring` is the order of the log with the slot in use as its parameter. The two
  properties are not inductive by themselves, for a step of the ring must know
  that the slot it removes is the oldest: so `Ring` adds that every slot before
  the current one is full (what the scan of `init` relies on), and that each
  byte is followed by a full file for each time the ring has moved since its
  slot was in use (`Since`, `Room`). After a crash the index is gone; the
  invariant then says that *some* slot makes the files a ring, and
  `InitStorageKeeps` that the scan finds it.
- `torn` excuses the two order properties only, as in the run.

**The telnet server.** `LinuxTelnetServerProofs`: `ListedAreAlwaysOpen`,
`NothingEverLeaks`, `NoThreadEverOutlivesStop`, for any number of clients and
descriptors. Each needs the others. A listed descriptor is open only because its
client's thread has not come to its `erase` (`Listing`, `Registered`); the table
agrees with the threads only because nobody but `stop` closes a descriptor that
is not its own, and because `stop` does so when nobody accepts any more
(`Joining`), so that the number is not handed to a client in between
(`Descriptors`). In that gap the number may become the log's: the invariant says
so, and `ClosesOnlyClients` (section 4) shows it. `Without`, the loop that
erases from the list, is a recursive function; `WithoutProperties` says what it
leaves, by `Iteration`, which proves that such functions exist.

**The telnet filter.** `TelnetFilterProofs`: `FilterIsAlwaysInStep`,
`FilterIsAlwaysExact`, `EndsAreAlwaysInStep`, for every set of data and option
bytes and every size of the receive buffer.

- `Framed` says of the bytes on the line that each continues what the one before
  it began; with `iacState` for the place of the first, wherever `recv` has cut
  (`ServerOK`). `ByteIsHeeded` then goes through the branches of `clientLoop`.
  `ServerInStep` follows, and `FilterIsExact`, for every byte that is looked at.
- The client's end is read by a parser too (`Parsed`), which is in step only if
  no byte of the device is 0xFF: `EndsAreAlwaysInStep` assumes
  `IAC \notin DeviceBytes`, as the run does. The server does not escape it
  (section 4), and the client is then out of step.

**The Linux program.** `LinuxMainProofs`: `NothingIsLeftAlways`,
`CallbacksFindThem`, `OnlyThePortAlways`, `OpenPortIsReadAlways`, for any number
of descriptors, any set of documents and whatever may fail.

- The invariant has three parts that every thread keeps, who holds a descriptor
  (`Table`), what the read loop may rely on (`Reading`), what the client may
  (`Client`), and one that says where the main thread is: `Where` names, for
  each phase, the statement it has come to and what it has done by then
  (`Starting(k)`, `Unwinding(k)`, `Reopening(k)`, `ShuttingDown(k)`,
  `Destroying(k)`: the script from its `k`-th statement on is left). None of the
  four is inductive without it: what is left behind depends on which statements
  have run, and on the way by which a failure entered the unwinding.
- `StartupScriptIs` and its like say what the statements of each script are,
  `UnwindIs` that each failure enters one list of things to undo
  (`UnwindScript`) at the right place. From them `Position` finds, for a
  statement that is executed, the places where the program can be, and `Advance`
  where it is then; each action has one lemma over those places.
- A descriptor that a thread took from `fd_` stays the port's or becomes
  nobody's, for it is closed only after the telnet server has stopped: from then
  on nobody asks for descriptors. When somebody reopens the port the read loop
  has ended, but the client may be about to write: `OnlyThePortIsUsed` leaves
  that case out, as in the run.

**The configuration.** `LinuxMainProofs` too: `ConfigIsAlwaysSound`, for every
document (`DocumentsAssumption` says what rapidjson may find at each path: the
members of an object need not be absent when the object is).

- `WrongsAreFaults`: the list of checks fails at just the members that must be
  there and are not of their kind; so `FirstFailureIs` names one (`Refusals`).
- `BothAgree` goes through the members of a posted sequence; `ReadIsSound` says
  what is known of a configuration that was read: a narrowed number does not
  change when it is narrowed again, a missing element has no members.
  `AlwaysSurvives` prints and reads each member by it.
- `FileInv`: at `create`, what was parsed was read from a document of
  `Documents`.

**One thread.** `BridgeThreadsProofs`: `NeverStuckOnOneThread` and
`CountIsAlwaysExact`, for every size of the configuration and any number of
bytes. Neither is inductive, since both are about the moments between calls. The
invariant (`OneAtATime`) says that one of the threads is at rest, and for each
list of statements that the other may still have to execute what holds before
its first (`WithinCall`, `WithinSetConfig`, `MainAt`, `UartAt`): a command
counts as sent while nobody waits for its prompt only where the statement that
puts it right is still to come. `ConsIs` and `BlocksAre` take lists apart;
`StatementKeeps`, `CallKeeps` and `SetConfigKeeps` are one case per statement.
Two threads are left to TLC, where both properties fail (section 4).

**The M5 Stack's connections.** `M5Proofs`: `OpenAlwaysHaveTheirSlot`, for any
number of clients and slots. The name of a connection is used again when all
have forgotten it, and only then, so the invariant says of every connection,
open or not, that it waits once and not while it has a slot (`WaitsOnce`), that
no two slots hold the same (`SlotsDiffer`), and that none that is open is
forgotten (`NoneIsForgotten`). `Dequeued` says what is left of the queue,
`MinProperties` that the slot that is taken is a free one.

**The M5 Stack's card.** `M5Proofs` too: `CardAlwaysKeepsUp`,
`LogAlwaysInOrder`, `OnlyOldestEverRemoved`, for any number and size of files,
any threshold above 0 and any set of lengths that has a largest (`M5Assumption`;
the UART's buffer gives one).

- `CardInv` adds to the limits what a call may rely on between calls (`CardOK`)
  and within one (`CardSound`): an open file that is still good is the one of
  `index`, and `size` is its length with what is cached. `LogOf` is the files
  with the cache in its place, so that a flush changes nothing that is said.
- `OrderInv` is the ring of the log again, but by its newest file `p` and
  without counting rounds: the files before `p` are full, those after it older,
  so that `init` finds `p`, or starts the ring over when all are full.
  `OnCard(k)`, what a removal or a power failure leaves, is such a ring for
  every `k`. The lemmas follow the calls: `Write`, its flush and check, its
  rotation, `init`, `poll`.
- `HurtProperties` and `FirstOfProperties` say what a file that could not be
  read or removed changes: once `hurt` is above 0 the ring is given up, and what
  is left of `CardInv` is what bounds the cache.
- The last two assume `~QuickSwap`: `poll` sees each removal before the card is
  back. The runs set it so, and with `QuickSwap` TLC finds `LogIsInOrder`
  violated: what went into the stale file still counts towards its size, so the
  ring moves on from a file that is not full, where a restart then resumes.
- Not inductive by themselves: `LogIsInOrder` speaks of what is on the card now,
  not of where the scan will resume, and `OnlyOldestIsRemoved` of the file after
  the newest, which only the ring knows to be the oldest.

Induction is done on sets: a set of naturals that is not empty has a least
element (`LeastNumber`, from the library's `NatLessThanWellFounded`), so a set
that holds 0 and is closed under adding 1 holds all (`InductionUpTo`).

Only model-checked: liveness and the negotiation that ends (fairness is beyond
the prover), two threads on the responder, and `RatesAreAccurate`, whose floats
are beyond it. `Completes`, `IdleIsRearmed`, `PostOverrunHeals`, `StopReturns`,
`LeaversAreReleased`, `OnlyOnePeerHoldsUpBroadcast`, `NegotiationSettles`,
`SignalEnds`, `CardIsTakenUp` and `BacklightGoesOff` are the liveness
properties.

## 6. Not modelled

- JSON's syntax, the UART's line settings, what displays draw, address look-up:
  input and output without a state to go wrong.
- The transport of HTTP: on Linux `start` binds nothing and starts no thread,
  so `acceptLoop` and `handleClient` are never reached; on the M5 Stack the
  server does nothing. The handlers are actions of `BridgeController`.
- The `esp32/` skeletons: no bodies.
- Operations without a caller: `M5TelnetServer::stop`, the client event
  callbacks, `M5WiFiModule::disconnect` after a startup that succeeded.
- Memory ordering beyond whole loads and stores (`BridgeThreads`).

## 7. Plan

Every invariant and action property that a passing run checks is a theorem, but
for `RatesAreAccurate`, with the hypotheses that section 5 names; what is left
to TLC is said at its end.
