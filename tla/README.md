# A TLA+ verification project for piv-gate-bridge

piv-gate-bridge (package `piv_gate_bridge`) watches a smart-card reader, runs a
gate ceremony with the seated card and an authentication server, and on a pass
creates a virtual FIDO2 device whose CTAP2 frames it relays to the server until
the session ends. This directory models the part of it that is hard to test:
what happens when the card, the user, the server, the signal handler, two
monitor threads and a loop of awaits all move at once, what becomes of HID packets
that interleave, and when a session's clocks end it. The models are written
from the code; the README and the docstrings of the program are used only as a
source of claims about it.

## 1. Inventory

| Part | State it keeps | Operations | Talks to |
|---|---|---|---|
| **Bridge.run** (bridge.py 153-435) | `session`, `_gate_link`, `_signal_exit`, `_ask_cache`; local `backoff`, and the await it is suspended at | gate, sleep, park, show a TOTP code, create the device, live phase, exit | the gate run (in an executor thread), LiveSession, the device, the signal handler |
| **LiveSession** (bridge.py 42-150) | `cause`, the stop event, `created`; in the threads `tick`, `probe_failures`, a one-worker pool | `teardown`, `finish_async`, `_watch_presence`, `_watch_time` | CardLink (status queries and probes), `dev.last_activity` |
| **Gate** (gate.py 611-791) | `_want_totp`; locals of `_gating` | `run`, `_arbiter`, `_gate_once`, `_gating`, `_verify_once` | CardLink, CardSession, GateHTTP, the picker, the PIN prompt |
| **CardSession** (gate.py 363-441) | the connection, `_in_txn`, `_ended` | connect exclusively, `transmit`, `end` | the card |
| **CardLink** (gate.py 194-360) | a PC/SC context | `wait_for_insertion`, `still_present`, `wait_for_generation_change`, `probe_alive`, `probe_applets` | pcscd |
| **GateHTTP** (gate.py 446-550) | `retries`, a TLS context | `challenge` (retried), `verify` (once), `totp` | the server |
| **CTAPHIDDevice** (ctap_hid_device.py) | `channels_to_state`, `last_activity`, `reference_count` | reassembly, channels, relay, destroy | UHID, HttpCtapTransport |
| **HttpCtapTransport** (transport.py) | none | `call` | the server |
| **Config** (config.py) | its values | `parse_duration`, key checks | - |
| **ui**, **Audit**, APDU/TLV helpers | none, a file, none | I/O and formatting | - |

The loop is a coroutine. It hands the gate run, the SSH handoff, the park and
the joins to executor threads and awaits them; the two monitor threads and the
probe worker of a live session run beside it; `loop.add_signal_handler` runs
the signal handler on the loop's thread, that is, at an await. The threads share
`LiveSession.cause`, the stop event and the PC/SC service, and nothing is locked:
what protects the program is that a cause is read only after the joins, the insertion
generation that every later check repeats, and the order of the statements.

What is hard here, and what makes each part right:

* **The device must be gated.** It exists only for the insertion that passed,
  once per pass, and it ends when that insertion ends, although the presence
  monitor only polls and a relay keeps reporting a lifted card as present.
* **The loop must neither storm nor hang.** A fast loop of gate runs took pcscd
  down twice according to the comments; so every pause has a floor, failures
  escalate, a wrong card is parked on, and a park must still end.
* **A signal must stop the program** from any await, without one more gate run, and
  without a device left when it is the handler that ends the loop.
* **A pass must mean something.** The card may be swapped at every step of the
  ceremony, a relay may serve a stale signature, an answer may be lost; two
  recoveries and a retry loop may combine.
* **Overlap.** The joins are bounded, so threads of an ended session may still
  run when the next one is live.

* **Frames must stay whole.** Packets of several channels interleave, repeat and go
  missing, buffers are dropped by age on a wall clock and by the last close, and
  what is relayed must still be the message that one client sent; the reply must
  be readable by the host.
* **A session must end in time.** The deadlines are on the wall clock, the waits on
  the monotonic one, and both monitors only ask: the device ends when the event
  loop gets to it, which a request to the server blocks.

The hazards are listed one by one, with their lines and the properties that
watch them, in `PROJECT.json`.

## 2. Modules

| Module | Models | Composition |
|---|---|---|
| `CardSlot` | the reader, its insertion counter and what a status query answers (environment) | extended by all |
| `GateResults` | `GateResult` and the ways one is built | extended |
| `GateRun` | **abstract**: a gate run as `Bridge.run` sees it | extends the two above |
| `LiveMonitors` | LiveSession's two threads and `teardown`, per session object | extends `CardSlot` |
| `BridgeLoop` | `Bridge.run` with its handler, parks, device and exit | extends `GateRun` and `LiveMonitors` |
| `SeatSession` | **abstract**: what the bridge promises about its device | implemented by `BridgeLoop` |
| `GateCeremony` | `Gate.run`, `CardSession`, `GateHTTP`, `_cached_ask` | extends `CardSlot`, `GateResults`; implements `GateRun` |
| `HidMessages` | **abstract**: which frames are relayed and how each packet is answered, read off the log of packets, without buffers | implemented by `CtapHid` |
| `HidWire` | `encode_response_packets`, and a host that reads its packets | extended by `CtapHid` |
| `CtapHid` | `CTAPHIDDevice`: packets, opens, closes, all commands, relaying | extends `HidWire` |
| `Durations` | `parse_duration` | extended by `LiveTimers` |
| `LiveTimers` | one seat session on its clocks: `_watch_time`, `finish_async`, the signal handler, packets that block the loop | extends `Durations` |
| `MCBridgeLoop`, `MCGateCeremony`, `MCCtapHid`, `MCLiveTimers` | instances for TLC | |
| `SlotAndResults_proof` | lemmas on the two shared modules | extended by the proofs below |
| `BridgeLoop_proof` | theorems about the loop | extends `BridgeLoop` |
| `GateCeremony_proof` | theorems about the ceremony's order and budgets | extends `GateCeremony` |
| `CtapHid_proof`, `LiveTimers_proof` | theorems about the device and the clocks | extend their modules |
| `CtapHidMessages_proof` | the refinement of `HidMessages` | extends `CtapHid_proof` |
| `GateCeremonyRun_proof`, `GateCeremonyCard_proof` | the refinement of `GateRun`; what a pass and the picker's answer are worth | extend `GateCeremony_proof` |

So the two detailed models meet at `GateRun`: `BridgeLoop` uses it in place of the
ceremony, and `GateCeremony` is shown to be one of its implementations. `LiveTimers`
is the live phase of `BridgeLoop` again, seen by the clock: it keeps one session and
reduces the presence monitor to the moment it tears down and the time it may take
to be joined, and a packet of `CtapHid` to the time its request takes.

### How states and steps correspond

*CardSlot.* `gen` is `dwEventState >> 16`; it has `GenMod` values (65536 in the
program) and wraps. `ins` numbers the insertions; the program does not have it,
it is what the generation stands for, and most properties are about it.
`Lift` is vpcd's behaviour described at `probe_alive`. Two operators are the
program's own tests: `StillPresent` and `Superseded`, with the `>` of gate.py 283.

*BridgeLoop.* `pc` names the await the loop is suspended at, and an action is what
the loop does from one await to the next: with no preemption between awaits that
is the grain at which the handler can interleave. `delay` is the argument of the
running `asyncio.sleep`. `dev` is the session object of the UHID device that
exists, chosen already at the constructor so that `starting` (the await of
`dev.start()`) is a place of its own. `handled` is a history variable: the insertion
the loop last parked on, or last served a device for. A failed listing and an
absent reader look the same to the park (`_readers` returns `[]` for both,
`PollMisses`); they are two actions, because only the absent reader is there to be
found at every poll. A restart of pcscd appears as queries that fail: `PresenceLost`,
`ParkListFails`, `ParkWaitFails`, `CardGone`, `OpenFails`. The handler runs on the
loop's thread, so the loop does nothing while it is inside `teardown` (`handling`);
the monitor threads do.

*LiveMonitors.* One record per session object: the cause, whether `Bridge.session`
holds it, where each thread is, the parity of `tick`, `probe_failures`, and the probe
worker (`idle`, `busy` with a probe somebody waits for, `stuck` in one nobody waits
for). `teardown` holds no lock and is two steps: its test (`Teardown`), after which a
caller that found no cause stands at its own, and its assignment (`PresenceSets`,
`TimerSets`, `OnSignalSets`). Both monitors and the handler can be past the test
together, and then the last one's cause stays: pyproject.toml asks for Python 3.12
to 3.15, which includes builds without a global lock, and where the others switch
threads is theirs to choose. The assignment and the stop event, set in the next
statement, are one field. `Joined` takes the bounded joins for what they
are: the time thread ends well within 5 s of the stop event, and so does a presence
thread that waits or is inside `teardown`; one inside a query or a probe may not.

*GateCeremony.* `step` is the call the gate thread makes next; the call and what the
code does with the answer are one action, and the card may move between any two.
`conn` is the insertion that the CardSession held by `_gating` is connected to.
Every handle operation needs `Connected`, the same insertion; otherwise only the
failing actions are possible. A connection whose transaction was refused is never
`conn`: `_gating` has not got it, nothing ends or releases it, and it keeps the card
(`leftover`) until the interpreter collects it (`Collect`, at any time or never) or
the card leaves. `end(reset=True)` may fail to reset a card that is there
(`ResetSession`), as nothing looks at its result; `unreset` remembers that. The check
before the reset, the reset and the check after it are three steps (`Recheck`,
`Reset`, `Confirm`): the card can be moved before each. A pass is about the moment of
the last check; between it and the `return` the code only writes the audit entry.
`sig` records which card signed and over which
nonce, so that a stale answer of the relay can be told from a good one;
the server (external) passes only a signature over the nonce at hand. `approved`,
`submitted`, `authed`, `contacted`, `unreset`, `seenIns` and `memo.ins` are history.

*CtapHid.* A callback is one action and runs to its end, the request to the server
included. `channels` is `channels_to_state`, with the fields of its tuples. `now` is
`time.time()`, read once for the age test and the new entry (the two reads of the
code are one instant). `reply` and `sent` are what the last callback said: the
message meant, and its packets. `log`, `relayed` and `answers` are history: packets
received and closings of the last handle, the frames given to `transport.call`, and
the answers. A byte is a pair that names the packet it came in and its place
there, so bytes of different packets are never confused, and a frame tells where it
came from. The device's fixed bytes after the channel in an INIT response are one
byte. The answer of the server is any of `ResponseLengths`, or 0x7F for a
`TransportError`; an exception of the encoder is answered with error 0x7F
(`Respond`). Ten random identifiers that are all taken are the last disjunct of
`HandleInit`.

*HidMessages* has no buffers. A message is a set of entries of the log: the latest
initial packet on a channel and the continuation packets since, in order, with no
forgetting between them; it is relayed and answered when the last one arrives. The limit on channels becomes a
statement about the log: an INIT on the broadcast channel is refused when more than
`MAX_SIMULTANEOUS_CONNECTIONS` messages are under way.

*LiveTimers.* `time` counts ticks since the gate pass; `Wall` is `time.time()`. `watch`
and `wait` are what is left of the time thread's `wait(1.0)` and of the loop's
sleep or join, `busy` of the request that blocks the loop. A tick waits for what is due
and can be done: a thread whose wait is over, and the loop unless it is blocked.
asyncio takes the ready callbacks in the order they became ready, so at most
one packet comes before a timer or a signal that is due already (`overtaken`).
`reason` and `heard` are history: when the first reason for a teardown came up (a
cause, or a signal sent), and when the last packet was handled. The device takes
packets until it is destroyed, during the joins too.

*Durations.* A text is the number in front and the letters after it; `Unordered` is
what `float` makes of `inf` and `nan`, which the test for a positive duration lets
through and which no clock ever reaches: `Never` is that value, so a zero that got past
the test would not pass for it.

## 3. Runs

| Run | States | Instance | What it shows |
|---|---|---|---|
| `bridge_safety` | 360 k | 2 insertions, 1 session object, `MAX_BACKOFF` 3, hints -5, 31, 900 | types, `DeviceOnlyAfterPass`, `NoGateAfterSignal`, `ParkedCardNotGated`, `PauseInBounds`, `OnlyAPassResetsBackoff`, refinement of `SeatSession` |
| `bridge_overlap` | 1.53 M | 2 session objects (symmetric), unpluggable relay reader, 1 insertion | `SessionOwnsDevice`, `NoOrphanMonitor`, `ReportedCauseStands` while old threads outlive their session |
| `bridge_liveness` | 141 k | 2 insertions, a relay | `RemovalEndsDevice`, `LiftEndsDevice`, `SwapEndsPark` |
| `bridge_signal` | 224 k | 2 session objects, 1 insertion, 1 signal | `SignalEndsLoop`, with the hung probe of an ended session beside the next device |
| `ceremony_safety` | 259 k | 3 insertions, 2 PIN tries, 2 challenge attempts | what a pass means, budgets, hygiene, the picker's memo, refinement of `GateRun`, `RunEnds` |
| `hid_reassembly` | 380 k | two channels and the broadcast channel, five callbacks or clock steps | `BytesOfOneChannel`, `HostReadsReply`, refinement of `HidMessages` |
| `live_timers` | 3.33 M | one session, four pairs of durations, the clock set by one tick each way | `TeardownPrompt`, `LifetimeCeiling`, `IdleEndsSession`, `IdleMeansIdle` |

Five more runs are expected to end with a counterexample. Each states one sentence
of the repository and shows where the code departs from it; the quotations are in
`PROJECT.json` under "findings".

| Run | The sentence | What happens |
|---|---|---|
| `bridge_live_card_io` | "No card I/O happens during this live phase" (README.md:26) | every second tick of the presence monitor probes the card with SELECT PIV |
| `bridge_second_session` | "One seat session = one card insertion" (gate.py:3) | after an idle teardown the seated card is gated again and gets a second device |
| `bridge_exit_device` | "the kernel reaps the (nonexistent) device" (bridge.py:284) | a signal during `dev.start()` finds a device and no session |
| `bridge_signal_stops` | "SIGINT/SIGTERM must stop the process" (bridge.py:183) | the worker of a hung probe is joined at interpreter exit |
| `bridge_park_wrap` | "Returns True when a different card generation is present" (gate.py:259) | the counter wraps, and the new generation is smaller |

Three more departures are in the models without a run of their own. "The first cause
wins" (bridge.py:80) holds only of callers of `teardown` that do not overlap. A
connection whose transaction is refused stays exclusive until it is collected, although
gate.py:380-384 explains why a failed connect must be released at once. "So no verified
PIV session leaks into the relay phase" (gate.py:424) is not so after a reset that
failed. What does hold in their place is `ReportedCauseStands`, `RunEnds` and
`OnlyFailedResetLeavesPin`.

### Bounds

* `MaxIns` bounds the insertions of a behaviour. Two are enough for every
  property of the loop: one card and another that takes its place. The ceremony
  needs three for the memo: a card, a second one, and the first choice met again.
* `GenMod` is 8 instead of 65536, `FirstGen` 0, or 6 where the wrap is the point.
  With `FirstGen + MaxIns < GenMod` and no replug (`GensUnique`) a generation names
  an insertion. The properties `ParkedCardNotGated`, `PassIsBacked`,
  `PassForSeatedCard`, `OnlyFailedResetLeavesPin`, `ChoiceIsForThisCard`, `AskedOncePerCard`
  and the refinement of `SeatSession` rest on it, and the theorems that state them
  assume it. In the program it means fewer than 65536 insertions in the life of
  the reader; `bridge_park_wrap` shows what happens otherwise. `bridge_overlap`
  has no such assumption.
* `Sessions` bounds the LiveSession objects alive at once. Two let an old session
  overlap a new one. A further one would need two joins that both ran out within
  one hung probe. `SignalEndsLoop` needs two: when the loop ends because `dev.start()`
  raised while a signal was on its way, the process waits for the hung probe of the
  session before, and the device that failed to start is still there. With no session
  to tear down the handler has not run, so the property asks for no device only where
  it has (`signalExit`).
* `OneCauseEach` (constraint of `bridge_signal`) leaves each monitor one of its two
  causes, and sends one signal. It removes no fair behaviour that matters: no action
  looks at which cause it is, each constrained action keeps the other cause as a
  successor, and after the handler has run a second signal finds nothing left to do
  but what the first one did.
* `MAX_BACKOFF` 3 lets the escalation 1, 2, 3 double, hit the cap and stay there.
* `RetryHints` holds a negative number, one within the bounds and one beyond the
  cap; 0, also "no hint", is always there.
* `MaxTries` 2 and `Retries` 2 let a wrong PIN and a failed attempt be followed by
  another; more add length only.

* `hid_reassembly` scales the packets down: 2 payload bytes in a received packet
  (57 and 59), 2 and 3 in a sent one, sequence numbers below 4 (0x80), so that
  a message of 5 bytes takes three packets with a padded last one and a response of
  14 bytes is the longest that a host can read (7609 in the program). One of 15 takes
  a sequence number that reads as an initial packet, one of 27 a number beyond a byte;
  `HostReadsReply` asks that the host takes neither for a message. `INACTIVITY` 2 makes a buffer stale after two clock
  steps, `MAX_CONNECTIONS` 1 lets two unfinished messages close the broadcast
  channel. `MaxSteps` 5 is the length of a behaviour: three packets of a
  message with a packet of another channel, a close or clock steps between them.
  At most one of the packets is a message that is answered at once (the constraint
  `OneShort` of the MC module), since such messages leave no state behind.
* `live_timers` counts in ticks: waits of 2 and 1, joins of 2, starts and requests of
  at most 1, durations of 4 and 6 ticks, clock steps of 1 each way, and durations
  that are refused or never end. `MaxTime` 30 is beyond every bound the properties
  give a session that ends at all (the largest is 20), so none of them holds for
  want of time.

Every action of the next-state relations fires in some run.

### Fairness

`BridgeLoop!Fairness` is weak fairness of the loop's steps, of the signal handler
(its two steps apart) and of each monitor thread. Every wait of theirs is bounded in the code: sleeps
and polls by their argument, joins by 5 s, a probe by `PROBE_TIMEOUT_S`, the SSH
handoff by 15 s, HTTP by `http_timeout`; for `dev.start()` it relies on the kernel
answering UHID_CREATE. Nothing is assumed of the gate run (a user may never answer
the PIN prompt), of the card, of failures (`LoopFails`, a failed listing of the
readers among them), of the collector, or of a probe that hangs
(`WorkerReturns`): that is why `bridge_signal_stops` is violated and
`SignalEndsLoop`, which asks for the loop's end and not the process's, holds.

`GateCeremony!FairSpec` is weak fairness of `GateStep`: once a card was seen, every
call returns. For the server this is the timeout, for the card the reader's own;
for the user it is an assumption. Nothing forces a card to be inserted or a run to
be started. `CtapHid` and `LiveTimers` state no fairness: bounded response is a safety
property of `LiveTimers`, in which time cannot pass a step that is due. `RunEnds`
then says that the nested loops (PIN, retries, nonce
recovery, re-run) cannot go round for ever.

## 4. Proofs

TLAPS proves the theorems listed in `PROJECT.json` for every value of the constants
allowed by the named assumptions (`SlotAssumption`, `HintAssumption`,
`GateAssumption`, `SessionAssumption`, `BackoffAssumption`, `CeremonyAssumption`,
`WireAssumption`, `HidAssumption`, `DurationsAssumption`, `TimersAssumption`).
Those marked * also assume `GensUnique`.

**The loop** (`BridgeLoop_proof`). The inductive invariant is
`TypeOK /\ Control /\ Watched`. `TypeOK` alone is inductive except for
`probe_failures`, whose bound needs that a second failure ends the thread.
`Control` ties `pc` to the rest: where the loop is decides whether a session and a
device exist, whether the gate run is over and what it said, and how long a pause
may be; `DeviceOnlyAfterPass`, `SessionOwnsDevice`, `NoGateAfterSignal` and
`PauseInBounds` are conjuncts or consequences of it. `Watched` says that a session
object in use is either the current one or torn down; `NoOrphanMonitor` follows. It
needs that the loop leaves the live phase only after it has seen a cause, and that
a cause, once there, may be replaced but not taken back (`CauseKept`).

`ReportedCauseKept` says that it is not even replaced once `finish_async` has returned it.
That rests on the joins and on where the threads stand: `Joined` lets a session go only
when neither thread is inside `teardown` (`Quiet`), and the handler, which runs on the
loop's thread, is never inside it when the loop takes a step (`HandlerHolds`: it holds
the current session, which is live). A thread that outlasts its join is in a query or a
probe, and finds a cause when it comes to the test, so `Quiet` stays true of every session
that was left (`LeftQuiet`). Without the joins it fails: a thread past its test would
replace a cause that is in the audit log.

`TeardownIsBounded` is the bound behind `RemovalEndsDevice`. A device is `Doomed` when its
session has a cause or the status query no longer finds its card; the loop has then
at most eleven steps left of its own and of its session's two threads (`StepsLeft`).
Each of those lowers the number, and no step of the card, of a probe, of the signal
handler or of an older session's threads raises it. It needs that the session held
by the loop watches the generation that passed, and that its presence thread does not
end without a cause (`Monitored`). `RemovalNoticed`* adds the premise: a card that was
removed dooms its device, and what is doomed stays so, whatever is inserted next.
Without `GensUnique` a card whose generation the counter has come round to would undo it.

For the
properties about insertions a second invariant, `Tracking`*, relates the counter
and the history: the distance between the current generation and the remembered
one is the distance between their insertions, so equal generations mean equal
insertions; and what the loop parked on is what it waits for, or older.
`ParkedNotGated`* and `SeatSessionImplemented`* rest on it; the refinement maps
each step of the loop to a step of `SeatSession` or to none.

**The ceremony** (`GateCeremony_proof`). `TypeOK /\ Nonces /\ Authed /\ Ended`. `Nonces` bounds the
nonces received by the number of sessions and the recovery used in each: that is
what makes the type of `nonce` (at most four) inductive, and its second half, that a
nonce not yet signed is not yet submitted, is `NonceNotReused`. `Authed` says which
steps lie behind a verified PIN. `SessionGivenBack` is about sessions that were opened, transaction included: for a
connection without one the code has nothing that ends it. `Budget` adds that a re-run has skipped a nonce (the
one whose signature was stale), from which at most three of four are posted.

`RunIsBounded` is why `RunEnds` holds. `CallsLeft` counts what is left of the nested
loops, from the innermost: attempts of the challenge, the nonce recovery, PIN
tries, the re-run. A run that saw a card starts with at most
`2 * SessionCalls + 1`, where `SessionCalls == 11 + 2 * Attempts + MaxTries`; every
`GateStep` lowers the number, and no move of the card raises it. Two facts have to be
known of the states (`Bounds`): a challenge call has an attempt left, and a session is
connected to a card that was inserted; with the second, a card that is pulled
out and pushed in again is another insertion and brings no PIN tries back.

`GateRunImplemented` (`GateCeremonyRun_proof`) maps each step of the ceremony to one of
`GateSees`, `GatePasses`, `GateFails`, `GateRaises` and the card's moves, or to none. The
weight is in the results: each failure must carry a reason, a location and a
retry hint of the kind that the loop's cases expect. It needs only `TypeOK`.

What a pass is worth (`GateCeremonyCard_proof`) rests on three more conjuncts, all under
`GensUnique`. `Tracking`* is the ceremony's form of the invariant above: the generation
the run saw and the one in the memo are as far from the counter as their insertions
are from the last one. `Verdict`* says where the signature and the verdict at hand
come from: the card the session is connected to, and the nonce in use; and that
at the second `still_present` the card of this run holds no verified PIN, or its reset
failed. Between the first check and the reset the card may have gone or another one
come: then the session's handle is dead, the reset does nothing, and the second check
cannot find the run's insertion any more.
The link is `SameCard`: when `StillPresent` finds the generation of the run, the
seated card is the one of the run *and* the one the session is connected to, because a session is
never older than the run and never newer than the last insertion. Without the first of the
two checks the reset could clear another card, without the second the pass could
be for a card that left during the reset. `Chosen`* follows the picker's answer.
`PassBacked`*, `PassForThisCard`*, `PassLeavesPinOnlyUnreset`*, `ChoiceApplied`* and `AskedOnce`*
follow.

**The device** (`CtapHid_proof`). The inductive invariant `Inv` is about buffers and
relayed frames together: a buffer holds exactly the bytes that its sequence number
says, fewer than the message has, all from packets of its channel in the order
of the log; and so is every frame relayed. It needs the exact number of bytes:
only then are the bytes cut off the last packet what makes the message complete
(`lc == len(data)` is an equality, and would never become true after a byte too
many). The log only grows, so what is said of its entries stays true
(`FromLonger`); `StoreGood`, `InitialGood` and `NextGood` follow a packet through the
buffers. `HostReadsExactly` has an arithmetic part, `ReadsEncoded`: byte m of the
message is in the packet and at the place where a host looks for it, and there are
enough continuation packets and no more than the sequence numbers (`Count`, by
division with remainder); and `Said`, that every callback sends nothing or one
encoded message. For a reply that is too long it shows that one of the packets is read
as the beginning of another message, so that the host puts together none.

`ImplementsMessages` (`CtapHidMessages_proof`) is the refinement of `HidMessages`. The
buffers say what was received by a command, a length, a number and bytes; the abstract
side says it by the log alone. `MessagesInv` links the two: a channel has a buffer
exactly when its message is `Waiting` in the log, and then the `Parts` of that message
are `Collected` in it: they begin with the packet whose command and length the buffer
has, each byte is the one of the part that holds its place, the last part has the
buffer's number and time, and nothing since has made the device forget it. Two facts
carry the steps. An entry on one channel leaves the parts of every other channel
as they were; and what the device forgets on a packet (`Fresh`, with the age compared
on a clock that may go back) is exactly what is not `Remembered` after that entry. When
a message is complete, its frame is the `Payload` of its parts, and the answer is the one
of its command. `BuffersTrackLog` states the invariant on its own.

`HidAssumption` has two inequalities beside the types: the nonce and what `handle_init`
puts around it, and the longest message that the device can take, can be encoded,
that is, with sequence numbers below twice `SeqLimit`. Otherwise `Respond` would answer an echo
with an error and the two sides differ. In the program both packet forms hold 57 and
59 bytes, and 57 + 128 * 59 is far below 57 + 256 * 59.

**The clocks** (`LiveTimers_proof`). Each bound is a sum, and the invariants say how
much of it can be used up at each point. `Within(limit)` is the common part: the
loop's next step is due by `limit`, and after that only the request in progress and
the one packet that may come first hold it up. `Chain(x)` says, of a cause that came
up by `x`, by when the loop is due in each stage of the teardown; `Prompt` is `Chain`
counted from the reason, with `SignalSoon` for a signal that is not handled yet,
and gives `TeardownIsPrompt`. For `LifetimeIsBounded`, `StartSoon` bounds the start of
the device, `NotAhead` how far `created` and `last_activity` can be ahead of the
clock once it was set back, `WatchSoon` when the time thread looks at each deadline
next, and `CauseSoon` is `Chain` counted from the last look that can still come
before `t_max`. `QuietSessionEnds` follows from `WatchSoon` alone. `Coherent` ties
what is marked as overtaken to what is due, and the reason to the cause. `IdleIsIdle`
rests on `Recorded`, the same as `NotAhead` in the other direction. `SuffixGivesUnit` is
about `parse_duration` alone: the order in which it tries the suffixes matters, as `s` and
`m` are letters of `ms`, and for every number each suffix gets its own unit.

**What stays with TLC.** The five liveness properties: `RemovalEndsDevice`,
`LiftEndsDevice`, `SignalEndsLoop`, `SwapEndsPark` and `RunEnds`. Liveness under fairness
needs ENABLED and an induction over the number of steps left, both outside this
prover. What is proved of `RunEnds` and `RemovalEndsDevice` is the safe half: the number
of steps left is bounded and only falls (`RunIsBounded`, `TeardownIsBounded`,
`RemovalNoticed`); of `SignalEndsLoop` the part in which a device exists. That the
next step is enabled, and is taken, is TLC's. Of `LiftEndsDevice` and `SwapEndsPark` nothing
is proved. Every safety and action property and every refinement of the passing runs
is proved. RECURSIVE operators are not used at all.

## 5. Not modelled

* `stub_gate`, a test hook (no card, no presence thread); `live_phase` and `finish`,
  the blocking variants that only tests call; the audit log, whose failures are
  swallowed and which nothing reads; logging and notification texts; `ui.py`, which
  is I/O (what the gate sees of it, a choice or none, is an input of `AskUser`).
* Several readers and `reader_filter`: one reader is enough for the code's tests,
  which name it each time.
* A signal after `run` has returned: the loop's handlers are gone by then.
* HID reports shorter than a packet, for which the callback raises IndexError;
  and an exception of `send_input`.
* The limit of a whole request: `http_timeout` bounds each socket operation only.
  `MaxRelay` stands for whatever bound the server keeps.
* The key checks and the file of the configuration, APDU templates, TLV parsing:
  sequential code on data, without state afterwards, whose outcomes are inputs of
  the models.
* Tests, the end-to-end client and packaging.

## 6. Plan

1. *Done.* `CardSlot`, `GateRun`, `LiveMonitors`, `BridgeLoop`, `SeatSession`, their
   runs and proofs; `GateCeremony`, its runs and proofs.
2. *Done.* `LiveTimers` and `Durations`, with all safety properties proved.
3. *Done.* `CtapHid`, `HidWire` and the abstract `HidMessages`, with all safety
   properties and the refinement proved.
4. *Done.* The bounds behind `RunEnds` and `RemovalEndsDevice`.
5. Open: the same for `LiftEndsDevice` (at most two failed probes) and `SwapEndsPark`;
   that the promises of `SeatSession` hold of the loop as corollaries of the refinement;
   `LiveMonitors` and `LiveTimers` composed, so that the length of a join
   comes from the probe; `unwrap_tlv` against a reference definition.
