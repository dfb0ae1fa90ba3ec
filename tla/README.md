# DuetWiFiSocketServer: verification project

DuetWiFiSocketServer is the firmware of the ESP8266 WiFi module on a Duet 3D
printer controller. The main processor of the Duet (a SAM microcontroller,
"the SAM" below) has no network stack; it talks to this firmware over SPI, in
fixed transactions, and sees up to eight TCP connections as numbered sockets.

This directory holds TLA+ models of the firmware, TLC configurations for small
instances of them, and proofs of every safety property for instances of every
size. Paths below are relative to the repository; the firmware is in `src/`
(`Connection.cpp` means `src/Connection.cpp`).

Check a run with `tlc -config <file>.cfg <module>` and a proof module with
`tlapm <module>.tla`. `PROJECT.json` lists the runs and the theorems, maps each
definition to the lines it stands for, and lists the hazards each property is
aimed at.

## 1. The system

| Part | State | Operations | Model |
|---|---|---|---|
| Connection table, `Connection.cpp` | eight `Connection` objects: state, pcb pointer, received pbuf chain with read position, unacknowledged byte count, close timer; `nextConnectionToPoll` | `Accept`, `Close`, `Terminate`, `TerminateAll`, `Read`, `Write`, `Poll`/`PollOne`, the callbacks `ConnRecv`, `ConnSent`, `ConnError` | `Connection` |
| Listeners, `Listener.cpp` | active and free list of `Listener` objects, each with a listening pcb | `Listen`, `Stop`, `StopListening`, `Accept`, `Allocate`, `Unlink`, `Release` | `Listener` |
| WiFi state machine, `SocketServer.cpp` | `currentState`, `ssidData`, `connectStartTime`, `lastError`; the SDK's station status and radio mode | `ConnectPoll`, `StartClient`, `StartAccessPoint`, `ConnectToAccessPoint`, the deferred command `networkStop` | `WiFi` |
| Remembered networks, `SocketServer.cpp` | table of entries in flash and its RAM copy, entry 0 for our own access point | `RetrieveSsidData`, `FindEmptySsidEntry`, add, delete, configure, `FactoryReset`, loading at start | `WiFi` |
| SPI request handler, `SocketServer.cpp` | header of the message, `transferBuffer`, `deferCommand` | `ProcessRequest` | its commands, in the module of the part they act on |
| Main loop and pins, `SocketServer.cpp` | `transferReadyChanged`, `prevLastError`, `prevCurrentState`, timers | `loop`, `TransferReadyIsr` | `MainLoop` |
| mDNS advertising, `SocketServer.cpp` | the service last advertised; the responder's services | `RebuildServices`, `AdvertiseService`, `MDNS.deleteServices` in `networkStop` | `Mdns` |
| Connections and listeners together | lwIP's handshakes between the two | `conn_accept` and all of both parts | `SocketServer` |
| SPI driver, `HSPI.cpp` | none between calls | blocking transfers | no |
| Helpers, `Misc.cpp`, `PooledStrings.h`, configuration, captive portal DNS, diagnostics, LED, linker scripts | none that matters to the other parts | | no |

**How the parts interact.** There is one thread. `loop()` (SocketServer.cpp:1174)
feeds the watchdog, handles at most one SPI request, calls `ConnectPoll`, then
`Connection::PollOne`, which looks after *one* slot; after eight passes every
slot has had its turn. `ProcessRequest` calls the methods of the connections
and of the listeners. lwIP calls back into the same objects: `conn_accept` into
a `Listener`, which allocates a `Connection` and counts the connections on its
port; `conn_recv`, `conn_sent` and `conn_err` into the `Connection` that the pcb
carries as its argument. lwIP runs between passes through `loop()`, or while the
code itself waits in `delay()` (SocketServer.cpp:1074). It does not interrupt a
handler. The WiFi SDK runs by itself: the code only samples its status.
`TransferReadyIsr` is the one true interrupt.

**What is hard about it.**

* Callbacks, commands and polls come in any order. lwIP may report an error, the
  end of the stream, data or an acknowledgement between any two of them, and in
  particular while a close is waiting for acknowledgements.
* Two owners keep pointers to each other: the slot points to its pcb, the pcb
  carries the slot as callback argument. Slots, pcbs and listeners are reused.
  Whatever ends a connection has to undo both pointers, and free the data.
* A byte received lives in one of three places, the receive window of lwIP, the
  pbuf chain of the slot, or a count of bytes read but not yet acknowledged to
  lwIP (`alreadyRead`). The acknowledgement is delayed on purpose.
* Several waits have a timer (`MaxAckTime`, `MaxConnectTime`, `MaxWriteTime`) on
  a 32-bit millisecond clock that wraps around, tested only when polled.
* `ConnectPoll` dereferences a pointer into the table of networks that a command
  set any time before, while other commands edit the table.
* The SAM learns of a change only by asking: a slot that went away must not look
  free before the SAM has seen that it was aborted.

**What makes each part correct.** Connections: pairing of slots and pcbs, no
data from one connection in the next, exact accounting of the window and of
acknowledgements, close only when the data is out, and every close ends.
Listeners: every object in exactly one list, the active ones are those that
listen, no two compete, a port keeps to its limit and a stopped network stays
quiet. WiFi: the reported state agrees with the radio, a retry always has a
target and the right one, a timer neither fires early nor never, and the stored
networks survive a restart. mDNS: what is advertised is listened for. Main loop:
every request is served, once, and no error goes without a signal.

## 2. The modules

A handler of the code is one action, with everything it calls. Clocks and byte
counts are numbers; names, addresses and pcbs are model values. Time passes in
the polls: `PollOne(d)` and `ConnectPoll(d)` happen `d` ms after the previous
one, where `d` is at most `MaxLoopTime`. That bound exists because `loop()`
feeds a software watchdog, which resets the processor if it is late.

Some operators carry the comment "Mutant of ..." and are used by no action.
Each is a plausible slip in the definition named (a forgotten reset, a signed
difference, an off-by-one). Substituted for that definition it makes a property
fail, which shows the property depends on that part of the code. The list is
in `PROJECT.json`.

### `Connection` - Connection.cpp

`conn[i]` is the object `connectionList[i]`. `pcb[p]` is what the server can know
of an lwIP control block: whether it is unused, open, or left to lwIP to finish
closing (`st`), the slot its callbacks go to (`arg`), the bytes taken by
`tcp_write` and not acknowledged (`inFlight`), the bytes lwIP may still deliver
(`rcvWnd`), and whether the other end has closed (`fin`).

The pbuf chain of a slot is its total length `pbTot` (0 for a null `pb`) and the
length `pbLen` of its first pbuf. The lengths of the later ones are chosen when
they become the first, so the model covers every split of the data into pbufs
without carrying a list.

| Action or operator | Code |
|---|---|
| `AcceptNew`, `Accept`, `Allocate` | `Listener::Accept` from the point where the connection is taken, `Connection::Accept`, `Allocate` |
| `Close`, `Closed`, `ClosePcb`, `Unregistered` | `Connection::Close`, with its fall-through from `connected` and the removal of the callbacks |
| `Terminate`, `TerminateAll` | the same; `external` decides between `free` and `aborted` |
| `Write`, `CanWrite` | `ok` says whether `tcp_write` found memory; if not the connection is terminated |
| `Read`, `AfterRead`, `Credited`, `Credit` | `Connection::Read`: the walk over the chain, and the `tcp_recved` it may hold back |
| `Poll`, `PollOne`, `TimedOut`, `Elapsed` | the same; unsigned subtraction modulo `ClockMod` |
| `ConnRecv`, `ConnRecvFin`, `ConnSent`, `ConnError` | the callbacks; `ConnRecvFin` is `ConnRecv` with a null pbuf |
| `connAbort` ... `connWrite`, `networkStop` | the cases of `ProcessRequest` |
| `LwipFinish`, `TcpAbort`, `TcpClose` | lwIP, modelled from its use |

`TcpClose` is lwIP's part of a close only: it leaves the callbacks as they are
registered, and goes on delivering to them. That they no longer lead to the slot is
the code's doing (`Unregistered`, Connection.cpp:85-87), and `PcbOwnership` asks that
a pcb whose callbacks lead to a slot, in whatever state, is that slot's own.
`Terminate` removes the callbacks too, which changes nothing: `tcp_abort` frees the
pcb at once, and the one callback it would make, `conn_err`, does to the slot a part
of what `Terminate` does next.

Details the model keeps because they matter: `ConnError` does not reset
`unAcked`, `Accept` does not reset `pb`, `writeTimer` is never made positive,
and the result of `tcp_close` is ignored. `CountConnectionsOnPort` (which leaves
out `closeReady`) is defined here for the composition with `Listener`.

**The write timeout does not exist.** Connection.cpp:13 gives the time a write
may take "before it is cancelled", but `writeTimer` is only ever set to 0
(Connection.cpp:51, :193, :293). A connection with unacknowledged data stays
connected until the peer, lwIP or the SAM ends it; only a close has a timer.

### `SlotContract`, `ConnectionRefinement` - what the SAM may rely on

`SlotContract` is written from the side of the SAM: per socket a state, the bytes
available and the room for writing, as `connGetStatus` reports them, and the
changes the SAM has to expect. Available data disappears only by reading it,
data does not arrive after the other end closed, an aborted socket stays aborted
until it is released, a socket being closed never looks open again, and closing
comes to an end. `ConnectionRefinement` maps `conn` and `pcb` to this view with
`GetStatus` and states that `Connection` implements it. The SAM's commands all
map to `Release`, `Take`, `Put` or `BeginClose`; most callbacks to one action
or to a stutter. The part without fairness, `ImplementsContract`, is proved too.

### `CloseAge` - how long a close takes

`Connection` with a history variable that measures pending closes in real time,
which the code cannot do: its clock wraps around. `FairAgeSpec` adds the fairness of
`Connection`. `MCCloseAge` puts it beside `ConnectionRefinement`, so that one
run checks how long a close takes, that it ends, and the contract with fairness.

### `Listener` - Listener.cpp

The two lists are sequences of object numbers. `Stopped(S)` is the state after
`Stop` was called for the list positions `S`, in order. `Network` declares the set
of ports, which the listeners share with the connections. The actions of the
module are gathered in `ListenerNext`, its specification is `ListenerSpec`.
`Unlink` compares only with the head of the list (Listener.cpp:211), so `Stop` of
any other listener does not return: `hung` is then TRUE, and the only step left is
the watchdog reset. `Listen` covers its four failures after the specific
listeners have been stopped already: no memory for an object (`CannotAllocate`), and
no pcb, a failed bind and a failed `tcp_listen` (`SetUp` with `ok` FALSE). `Accept` takes the number of connections on
the port and whether a slot is free as inputs; `SocketServer` supplies them.

### `Mdns` - SocketServer.cpp:567-607

`Mdns` extends `Listener` with what the responder answers for (`services`, pairs of
a name and a port) and the static variable of `AdvertiseService` (`currentService`).
`serviceNames` is the table of the code (SocketServer.cpp:571), indexed with the
protocol. `networkListen` is the command, with `RebuildServices` after a success for
an advertised protocol; `networkStop` calls it too, and may empty the responder
besides, depending on the state. Between commands the server connects and
disconnects, and lwIP accepts.

Two limits of the code are visible here. `AdvertiseService` does nothing if the
service is the one it last advertised, so with one protocol on two ports, of which
one is stopped, it may go on naming the stopped port; and `networkStop` while
connecting empties the responder but leaves the static variable, so a listener for
the same protocol started later is not advertised. `RebuildServices` also does nothing
unless the server is connected. The history variable `behind` is TRUE from any such
moment until `RebuildServices` finds another service to advertise, or none.
`AdvertisesListener` says that apart from them the responder has the first protocol
there is a listener for, by its name in `serviceNames`, with a port where it is
served. It does not say that the name is right: the table has "tcp" for FTP and "ftp"
for Telnet, and `AdvertisedByProtocol`, which compares it with the protocol codes, is
violated (section 4).

### `SocketServer`, `MCSocketServer` - Connection.cpp and Listener.cpp together

`SocketServer` extends both modules and puts lwIP's handshakes between them
(`ServerInit`, `ServerNext`, `ServerSpec`).
A client's first packet (`Syn`) copies the `Listener` object from the listening
pcb; `conn_accept` gets that object when the handshake is `Completed`, which may
be after the object was stopped, released, and taken from the free list for
another port. `Stop` closes the listening pcb only. Accept then uses the real
count of `CountConnectionsOnPort` and the real `Allocate`. `networkStop` ends
connections and listeners in one step.

Objects that changed port during a handshake are what the history variable
`foreign` is for: such a connection is accepted under the new port's limit while
its own local port is the old one, so it is counted where nobody tests it. This
is a limit of the code that `PortLimit` states rather than hides, as it does
the slots in `closeReady`.

Arriving data and `Read` are left out here: they change neither the state of a
slot nor a listener, and `Connection` has them.

### `WiFi`, `WiFiHistory` - SocketServer.cpp:87-510 and its commands

`status` and `mode` are the SDK: in station mode `SdkEvent` may report any status
at any time, since auto-reconnect is on. `table` is the list of SSIDs in the RAM
copy of the EEPROM that `ssidData` points into, with our own access point in entry
0; `flash` is the sector it is kept in. `Store` is `EEPROM.put` with
`EEPROM.commit`, which erases the sector and writes it. `Restart` is a reset
between two handlers, `RestartInCommit` one inside `commit`, after which the flash
holds the first entries of the new table, perhaps a torn one, and nothing after
them. `lastError` keeps only whether it
is null, which `ConnectPoll` tests (SocketServer.cpp:313); so every command that
sets or clears it is an action. A status the code does not know is treated like a
wrong password, in the code as in the model. `Expired` is the test of the connect
timer. `NeverStuckConnecting` covers the three states in which the server waits for
the SDK: connecting and reconnecting, where the timer must end a status that stays
"connecting", and auto-reconnecting, where the server must not stay with any status
but a connection. `WiFiHistory` adds the real time an
attempt has lasted, and whether its network was deleted since it was chosen.

### `MainLoop` - loop(), TransferReadyIsr

One pass is split at every point where a pin or the interrupt can make a
difference: the comparison that decides about a pulse, `digitalRead`, the test of
`transferReadyChanged`, clearing it, `ProcessRequest`, and the rest. Between any
two of them the SAM may raise or lower its pin, and the interrupt reports the edge
or is missed, as the comment at SocketServer.cpp:1195 expects. `lastError` is kept
as the pointer it is: null, one of the literals, or the buffer
`lastConnectError`, whose address does not change with its text. What commands and
`ConnectPoll` do to the status is kept, without the conditions `WiFi` models.
`Remember` stores what a pulse has told the SAM.

`StatusFetchedOrCleared` says that news does not stand for ever because the SAM has
missed a pulse. It does not say that the SAM learns of every error: a deferred command
clears `lastError`, fetched or not (SocketServer.cpp:1041), and a state may return to
the one last reported.

The SAM is external: it raises the pin when it has set up a transaction, lowers it
within `TransferReadyTimeout` of the end, and may miss a pulse. The flag is not
declared volatile, but `digitalRead` and `ProcessRequest` are opaque calls
around its uses, so the build loads and stores it where the source does.

## 3. The runs

| Run | Instance | What it shows |
|---|---|---|
| `slots` | 2 slots, 2 pcbs, windows and buffers of 1 byte, ack time 2, passes of 0 or 1 ms, clock modulo 5 | `TypeOK`, `PcbOwnership`, `NoBufferLeak`, `GracefulClose`, `ReleasedOnlyBySam`, `CloseBounded`, `NotAbortedEarly`; `CloseCompletes`, and `Connection` implements `SlotContract!FairSpec` (`ImplementsFairContract`) |
| `window` | 1 slot, 2 pcbs, segments of 3 bytes, window of 6, exchanges of 4 | `ChainShape`, `WindowConserved`, `NoWindowStall`, `AckAccounting`, `WriteFits`; `Connection` implements `SlotContract!Spec` (`ImplementsContract`) |
| `listeners` | 2 ports, the wildcard and 2 addresses, FTP data and two advertised protocols | `ListenerTypeOK`, `ListsPartition`, `ActiveMeansListening`, `NoOverlap`, `HeapBounded`, `AdvertisesListener` |
| `sockets` | 2 slots, 2 pcbs, 2 ports, FTP data and another protocol, at most 1 connection on a port | `ServerTypeOK`, `Ownership`, `QuietAfterStop`, `FtpDataOnce`, `PortLimit` |
| `wifi` | 2 networks, 2 entries and our own, connect time 2, passes of 0 or 1 ms, clock modulo 3 | `TypeOK`, `RetryHasTarget`, `RadioFollowsState`, `SsidsUnique`, `ConnectEnds`, `ConnectGetsItsTime`, `ReconnectsToSame`, `RestartKeepsNetworks`, `NeverStuckConnecting` |
| `main_loop` | 1 literal, both timeouts 1, passes of 0 or 1 ms, clock modulo 3 | `TypeOK`, `SignalledBeforeCleared`, `ServedOnceUnlessRaced`, `RequestServed`, `StatusFetchedOrCleared` |
| `mdns_name` | 1 port, 2 listeners, HTTP, FTP and FTP data | violation of `AdvertisedByProtocol` |
| `listener_stop` | as `listeners`, without mDNS | violation of `StopsWhenAsked` |
| `wifi_idle`, `wifi_stop`, `wifi_reconnect_time` | 1 network, 1 entry | violations of `IdleMeansDisconnected`, `StopDisconnects`, `ReconnectGetsItsTime` |
| `served_once` | as `main_loop` | violation of `ServedOnce` |

**Why the bounds are enough.** Two slots are the least where one slot's steps can
harm another and where round-robin polling delays somebody. Two pcbs let an old one
still be closing while its slot is in use again with the other, and both slots be in
use at once. One byte suffices for ownership. For
the accounting, a window of two segments of three bytes lets a read end inside, at
the end of, and beyond the first pbuf, with the delayed acknowledgement below, at
and above `TCP_MSS`. In `slots`, `wifi` and `main_loop` the clock wraps around
after a few passes, at every offset to a timer, and in `slots` the round of two
polls lets a close overshoot its deadline; the assumption that the timer plus the time until the next
test fits into the clock (`TimesAssumption`, `WiFiAssumption`) is met by a wide
margin in the code: seconds against 2^32 ms. The bound `MaxListeners` of
`Listener` is above what `HeapBounded` allows, so it cuts off nothing unless that
invariant is broken: at most four listeners coexist, one for each of the two ports
and the two specific addresses. In `sockets` two pcbs are enough for a handshake
beside a connection or a second handshake on the same port, two ports for an
object that moves from one to the other, and a limit of one for a limit that can
be exceeded. In `main_loop` one literal suffices, since it can be set twice in a
row, and so does a timeout of one pass.

**Views and symmetry.** `MCListener` and `MCSocketServer` give views that identify
states differing only in values nothing reads again: the members of an object on
the free list except `listeningPcb`, the members of a dead slot except its pcb,
timers not in use, and in `sockets` the time itself, of which only the distance to
a timer counts. All the properties of those runs are invariants over what the
views keep. pcbs are interchangeable, and a symmetry set in `window` and `sockets`, which check
no liveness.

**Deadlock** is checked everywhere: the polls never stop, and a hung processor is
reset.

**Fairness.** `CloseAge!FairAgeSpec` and `WiFiHistory!FairSpec` assume that `loop()`
keeps running and that time passes in it: weak fairness of a poll with a positive
`d`. The watchdog, fed only by `loop()`, enforces it. Nothing is assumed of
the SAM, of lwIP, of the other end or of the SDK: a peer may stay silent for ever
and the SDK may connect for ever. This is why `CloseCompletes` and
`NeverStuckConnecting` depend on the timers.

`MainLoop!FairSpec` is about two parties and needs something of the other one: the
SAM lowers its pin after a transaction (weak fairness), does not miss every pulse
of infinitely many, and, having seen one, does not let other commands take every
turn (strong fairness of `Pulse(TRUE)` and `Answer`). Of the interrupt nothing is
assumed: `RequestServed` holds though every edge may be missed.

## 4. Where code and documentation disagree

1. **Stopping a listener that is not the newest hangs** (Listener.cpp:208-220).
   `Unlink` never advances its pointer through the list. `Listen` with
   `maxConnections = 0`, "or stop listening of maxConnections = 0"
   (Listener.cpp:89), loops until the watchdog resets the processor when another
   listener was started since. So does an FTP data listener that stops itself in
   lwIP's accept callback. Run `listener_stop`.
2. **A transaction nobody set up** (SocketServer.cpp:1196). `loop` reads the pin,
   then the flag. If the SAM lowers the pin of the last transaction in between, the
   pin was HIGH and the falling edge has set the flag: `ProcessRequest` runs with
   the pin low. "we need to see TransferReady go low and then high again"
   (SocketServer.cpp:1195) asks for more. Reading the flag before the pin would
   close the gap. Run `served_once`; `ServedOnceUnlessRaced` shows that this race
   is behind every such transaction.
3. **Idle with the radio on** (SocketServer.cpp:275-279, :291-295). A connection
   that is lost with "wrong password" or an unknown status makes the state idle
   but leaves the station running, with auto-reconnect; "neither connected nor
   running as an access point" (MessageFormats.h:130) then stops being true.
   Run `wifi_idle`.
4. **`networkStop` while auto-reconnecting** leaves the radio on: the switch at
   SocketServer.cpp:1063 has no case for that state. Run `wifi_stop`.
5. **A manual reconnection without time** (SocketServer.cpp:319-323). When
   auto-reconnecting times out, the manual attempt starts with the timer already
   expired and is given up at the next poll. Run `wifi_reconnect_time`.
6. **FTP and Telnet are advertised under other names** (SocketServer.cpp:571).
   `serviceNames` is {"http", "tcp", "ftp"}, indexed with the protocol: "0 = HTTP, 1 =
   FTP, 2 = TELNET" (MessageFormats.h:95). So a listener for FTP is advertised as
   "tcp" and one for Telnet as "ftp", where a client that looks for FTP finds
   Telnet. The build for lwIP 2 has "_http", "_ftp", "_telnet"
   (SocketServer.cpp:46-47). Run `mdns_name`.

## 5. The proofs

They are about all the models, for any number of slots, pcbs, ports, addresses,
table entries and networks and any window, segment, buffer, exchange and timer
sizes. They assume what the modules state about their constants and nothing else:
sizes and times are positive, the special values are none of the ordinary ones,
the sets of ports and of addresses are finite, and a timer plus the time until
it is looked at next fits into the clock (`SizesAssumption`, `TimesAssumption`,
`ListenerAssumption`, `WiFiAssumption`, `LoopAssumption`).

**`ConnectionProofs`.** None of the invariants is inductive alone.
That a callback finds a slot with the right pcb needs `PcbOwnership`; that
`Accept` starts with the whole window needs `NoBufferLeak` (it does not clear
`pb`); that `Read` takes the right number of bytes needs `ChainShape`; that an
acknowledgement never exceeds `unAcked` needs `AckAccounting`; that a write fits
needs both `AckAccounting` and `WriteFits`. Their conjunction

    IInv == TypeOK /\ PcbOwnership /\ NoBufferLeak /\ ChainShape
            /\ WindowConserved /\ AckAccounting /\ WriteFits

is inductive. The proof first rewrites it as `EachHolds`: a condition `SlotOK(i)`
for each slot (a live slot and its pcb satisfy `Linked`, any other is `Dead`) and
`PcbOK(p)` for each pcb. Lemmas then say what each method does to one
slot and pcb (`AcceptedIsLinked`, `CreditedIsLinked`, ...), and two frame
lemmas that a step on one pair leaves all others as they were, because pcbs are
not shared (`PcbsNotShared`). One lemma per handler applies them.
`NoWindowStall` follows from `WindowConserved` and `ChainShape`.

**`ConnectionStepProofs`.** The action properties `GracefulClose` and
`ReleasedOnlyBySam`. `GracefulClose` needs a fact about the two states in which
a slot may be closed: in `otherEndClosed` the pcb has seen the end of the
stream, and in `closeReady` that or nothing is unacknowledged (`Ends`). It is
preserved beside `EachHolds`.

The same module proves that `Connection` implements `SlotContract`
(`ImplementsSlotContract`). `Allowed(s, t)` lists how one answer to
`connGetStatus` may change, and `AllowedIsStep` shows that a step which changes
one answer so, and no other, is one of the contract. `StatusOf` is the answer for
an object and its pcb; since a pcb belongs to one slot (`PcbsNotShared`), a handler
that works on a slot and its pcb changes no other answer (`AnswerStep`). One lemma per
handler then shows an allowed change: `InUseStep` for a connection that goes on,
`ClosingStep` for one that is being closed, `CallbackStep` for the callbacks, which
have to find their slot first. Two of the contract's promises need the invariant:
that no data arrives after the other end closed rests on `Ends`, and that an
answer stays within window and buffer on `WindowConserved` and `AckAccounting`.
`networkStop` alone changes several answers, and is a `Release` of all slots.

**How long a close takes.** `ClockProofs` has the arithmetic of timers:
the difference of two readings of a clock that wraps around grows with the time
until it reaches the modulus (`DifferenceGrows`). `ConnectionStepProofs` uses it for
the real age of a pending close. `CloseBounded` says `MaxAckTime` plus one round of
passes; the invariant has to know how much of that round a slot may have used.
`Turns(i)` is the number of passes since slot `i` was polled last, and

    AgeOK(i) == age[i] \in Nat /\ age[i] < MaxAckTime + Turns(i) * MaxLoopTime
                /\ conn[i].closeTimer \in 0 .. ClockMod - 1
                /\ Elapsed(now, conn[i].closeTimer) = age[i]

for every pending close is inductive beside `EachHolds`: a pass adds one turn and
at most `MaxLoopTime`, a poll that finds the deadline passed ends the waiting, and
by `TimesAssumption` the age never reaches the modulus. One lemma per handler
(`Waits`, `Starts`) shows that only a command makes a slot wait, with its timer
started at that moment.

**`ListenerProofs`.** The two lists are sequences, which `Stop` and `Accept` cut and
reverse, so the first part of the module is about sequences: a sequence that
`Enumerates` 1 to n has each of these numbers once, and what `Unlink` and
`Release` make of two lists enumerates the same numbers (`StopEnumerates`,
`HeadEnumerates`, `NewEnumerates`). The invariant

    ListenerInv == Good(activeList, freeList, created, obj, hung)

says of the state, whether it is between handlers or inside `Listen`: the active
and the free list together enumerate the objects; an object listens exactly when
it is on the active list (`Shown`), unless the processor hangs halfway through a
stop; no two active listeners compete (`AllApart`); and there are at most
`HeapBound` objects. The last is a pigeonhole argument: listeners that do not
compete have different ports or different specific addresses (`ApartBounded`), and
`Allocate` creates an object only when the free list is empty, when all others are
active (`OneMore`). That `Stop` does not spoil the lists although `Unlink` finds
only the head needs the shape of what it can do: `Unlinkable(S)` is a front part
of the list (`UnlinkableIsFront`), which moves to the free list, and then the
processor hangs or `Stop` is done (`StopKeeps`). `Listen` is stopping, allocating
and setting up in turn, each from a `Good` state to a `Good` state (`SetUpKeeps`,
`ListenKeeps`), so its failures are covered with its success.

**`MdnsProofs`.** Commands of `Mdns` are commands of `Listener` (`MdnsListens`),
so `ListenerInv` holds. Beside it, `Told`: unless `behind`, or the processor
hangs, `currentService` is the protocol that `RebuildServices` would choose now,
no advertised protocol is on two ports, and the responder has the name from
`serviceNames` for it and a port where it is served. That a step of `RebuildServices`
which finds another service makes up for everything missed follows, since the
responder is then told anew. The theorem is about this table, not about whether it has
the right names: `mdns_name` shows that it has not. `currentService` is `noService`
only with an empty responder, `behind` or not, and is needed for the case that there is
none left. The choice of service depends only on which protocol is served on which port
(`Serves`), which lets the lemmas of `ListenerProofs` say what `Listen` and `Stop`
do to it.

**`SocketServerProofs`.** The invariant is

    ServerInv == EachHolds /\ ListenerInv /\ HandshakeOK
                 /\ TakenOK /\ StoppedOK /\ LimitOK

The first two are kept because the composition makes only steps of its parts:
`ServerConnects` says so of the connection table, which beside the steps of
`Connection` is put back to its first state by a reset, and `ServerListens` of the
listeners, which implement `ListenerSpec` although here a connection arrives
through a handshake that may have begun under another listener. The others relate
the parts. `HandshakeOK`: a pending handshake has a pcb of its own, so that
accepting it cannot take a slot's. `TakenOK`: an FTP data listener that has handed
over a connection no longer listens. `StoppedOK`: after `networkStop` no listener
is active and every slot is free. `LimitOK` counts the slots of a port (`Users`);
that it survives everything but an accept rests on `SlotsKept`: a step of
`Connection` never gives a slot another port, and never makes it count again. An
accept tests the same count before it adds one (`AcceptLimit`).

**`WiFiProofs`.** The invariant `WInv` has the types, `RetryHasTarget`,
`RadioFollowsState`, and of the table: it is one (`TableOK`: names, no name
twice), RAM and flash agree, and `ssidData` points to a name or to an erased entry,
never a torn one (`TargetOK`). Each way of writing the table keeps `TableOK`,
and so does a reset that cuts the writing off anywhere (`CutOK`); that is why
`SsidsUnique` and the types survive `RestartInCommit`. `RestartKeepsNetworks` is
the agreement of RAM and flash. That `FirstEntry` returns an entry that holds
the name rests on the well-foundedness of the naturals (`LeastEntry`). With
history, `AgeOK` ties the timer of a first attempt to its age and `SameOK` says
that a station's entry holds its network unless that was deleted; from them follow
`ConnectEnds`, `ConnectGetsItsTime` and `ReconnectsToSame`.

**`MainLoopProofs`.** `LoopInv` says for each point of a pass what the variables
mean there. `PinOK`: nothing is set up while the pin is low, and it is not
high for longer than the timeout after a transaction. `FlagOK`: unless raced, the
flag is not left over, and a pass that goes on to serve a request has one.
`SignalOK`: until a command changes it the state is the one last compared, and an
error not yet signalled is one that the next comparison finds, by its pointer, by
`connectErrorChanged`, or by a state that `ConnectPoll` always changes with it.

**History variables.** The runs check some properties under specifications with
history variables. `AgeIsConnection` (`AgeSpec => Spec`) and `HistoryIsWiFi`
(`HistorySpec => Spec`) show that these take only steps of the specification they
extend, so what is proved of the one holds of the other.

| Theorem | States |
|---|---|
| `IInvHolds`, `ListenerInvHolds`, `ServerInvHolds`, `WInvHolds`, `LoopInvHolds` | the inductive invariants |
| `TypeCorrect`, `ListenerTypeCorrect`, `ServerTypeCorrect`, `WiFiTypes`, `LoopTypes` | the type invariants |
| `OwnershipHolds`, `BuffersHold`, `ChainsHold` | `PcbOwnership`, `NoBufferLeak`, `ChainShape` |
| `WindowHolds`, `NoStall`, `AcksHold`, `WritesFit` | `WindowConserved`, `NoWindowStall`, `AckAccounting`, `WriteFits` |
| `ClosesGracefully`, `ReleasedByCommands` | `GracefulClose`, `ReleasedOnlyBySam` |
| `ImplementsSlotContract` | `ImplementsContract`: every step of `Connection` is one of `SlotContract` or a stutter |
| `ClosesInTime`, `AbortsNotEarly` | `CloseBounded`, `NotAbortedEarly` |
| `ListsHold`, `ActiveHolds`, `OverlapHolds`, `HeapHolds` | `ListsPartition`, `ActiveMeansListening`, `NoOverlap`, `HeapBounded` |
| `AdvertisingHolds` | `AdvertisesListener` |
| `ServerOwnershipHolds`, `QuietHolds`, `FtpDataOnceHolds`, `PortLimitHolds` | `Ownership`, `QuietAfterStop`, `FtpDataOnce`, `PortLimit` |
| `ServerListens`, `ServerConnects` | the composition takes only steps of its parts, or a reset |
| `RetryTargets`, `RadioState`, `OneEntryEach`, `RestartKeeps` | `RetryHasTarget`, `RadioFollowsState`, `SsidsUnique`, `RestartKeepsNetworks` |
| `ConnectsInTime`, `ConnectsWithTime`, `ReconnectsSame` | `ConnectEnds`, `ConnectGetsItsTime`, `ReconnectsToSame` |
| `Signals`, `ServesOnce` | `SignalledBeforeCleared`, `ServedOnceUnlessRaced` |

**Only model-checked.** `CloseCompletes`, the fairness half of the refinement
(`ImplementsFairContract`), `NeverStuckConnecting`, `RequestServed` and
`StatusFetchedOrCleared` are liveness properties, which the prover's backends do not handle;
they stay with TLC. Every other property of a passing run is a theorem.

## 6. Not modelled

* Contents: the data sent, addresses, ports of the other end, error texts.
* lwIP's own failures in closing: a pcb whose `tcp_close` failed is left to lwIP.
  `tcp_sent` and its like being called on a pcb that lwIP has freed
  (Connection.cpp:301) have no effect in the model.
* The words of an SPI transaction: headers, response words, data phases,
  `transferBuffer`. The two sides run in lockstep on the clock of the ESP8266, and
  what the SAM does with a short or long answer is in its firmware, not here. Two
  branches are worth knowing: `networkListen` with a wrong length sends no response
  (SocketServer.cpp:889), and `networkStartClient` with a long one runs on what is
  left in the buffer (:663, :1045).
* Commands that only read (`networkGetStatus`, listing the networks), the host name,
  the transmit power and the SPI clock.
* Access point configuration beyond valid or not; DNS; scanning as a list.
* The responder for lwIP 2, and mDNS itself.
* `HSPI.cpp`, `Misc.cpp`, `PooledStrings.h`, diagnostics, LED, linker scripts.

lwIP is version 1.4 as in the build the repository's README describes. The
branches for version 2 in the sources differ in the mDNS calls and in how a
listening pcb passes on its argument.

## 7. Plan

Done, in this order: `Connection` and its runs; `SlotContract` and the
refinement; `CloseAge`; `ConnectionProofs`; `Listener`; `WiFi` and `WiFiHistory`;
`ConnectionStepProofs`; `Mdns`; `SocketServer`; the flash sector and our own
access point in `WiFi`; `MainLoop`; the proofs about `CloseAge`, `WiFi` and
`MainLoop`; the refinement of `SlotContract`; `ListenerProofs`, `MdnsProofs` and
`SocketServerProofs`.

To come: the action properties of `Connection` and its contract carried over to the
composition, where only the reset may break them; and what a listener promises
the SAM, as an abstract specification like `SlotContract`.
