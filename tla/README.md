# Verification of sofar-HYD-diag

sofar-HYD-diag reads the registers of a Sofar hybrid inverter over Modbus and shows them in the
browser. A Go server owns the one connection the inverter tolerates; browsers talk to it over
WebSockets. The modules here model the server in TLA+, from the bytes of a Modbus answer to the clients'
send buffers. TLC checks them on small instances, and TLAPS proves the main safety properties for every
value of the constants.

`PROJECT.json` names, for every definition, the source lines it stands for.

## 1. The system

| Component | State | Operations | Talks to |
|---|---|---|---|
| **Broker** `internal/broker` | the connection, the command queue (32), the state event channel (16), `aborting`, `dormant`, the backoff | ReadRegisters, WriteRegister, ReadBatch, Disconnect, Reconfigure, SetDelayRuntime, Close; the Run loop with retries and redials | the hub's goroutines call it; it calls `modbus` |
| **Hub** `internal/hub/hub.go` | clients, sections, `connected`, the selected pack | register, unregister, the client commands, state events, results, functions queued by readers, shutdown | everything; one goroutine |
| **Section readers** `hub_streaming.go`, `section.go` | per section: subscribers, cancel function, the `reading` flag, the read-once cache; the bounded results channel (32) | one goroutine per read: standard, battery, BMS, pack | broker (blocking calls), hub (results, functions) |
| **SpanTracker** `batch.go` | per span: level and two counters; a cycle counter | success, failure, individual failure, probe, tick, reset | the readers and the hub |
| **Clients** `client.go`, `web/handler.go` | a send buffer (256), a closed flag | read pump, write pump, removal of slow clients | hub, WebSocket |
| **Register layer** `internal/register` | none (tables and pure functions) | batch planning, pack query words, decoding | hub |
| **Modbus framing** `internal/modbus` | the transaction counter | one request and its answer, TCP and RTU | broker |
| **Browser** `web/static/app.js` | connection state, current section, refresh timer | navigation, refresh loop | hub |
| Start-up and tools `cmd`, `tools` | none of interest | wiring, one-off scripts | |

How they interact. A browser's message becomes a command on the hub's channel. The hub goroutine
subscribes the client and starts a goroutine that reads the section; it cancels the read before, and
never waits for it. The reader goes through the spans of the section's batch plan and calls the broker
for each; the broker serializes the calls of all readers in its queue. Values go back on the results
channel and the hub broadcasts them. The broker reports every change of the connection on a channel
that drops events when full; the hub cancels all reads when the connection is lost.

What is hard about it:

* the caller's goroutine of `Disconnect` meddles with the transfer the Run loop is executing;
* retries, redials and the backoff run inside the execution of one command, with the queue waiting;
* the broker changes its connection, then its state, then sends an event, and other goroutines look in between;
* a cancelled reader lives on next to its successor: both use the section's flag, the results channel and the span
  tracker, whose operations are several accesses of maps without a lock;
* every channel is bounded: senders wait (commands, results) or drop (state events, clients' buffers);
* contexts are cancelled at any moment, and a goroutine notices when it next looks;
* a register write (0x9020) decides what later reads of other registers mean, and a write that was given up
  is still in the broker's queue;
* a reader may ask the hub to replace the plan it is about to read, by a closure that runs later;
* a value on the page is cut out of the answer to a longer request, by offsets computed elsewhere;
* an answer that comes late is in the stream of the next request.

What makes each component correct: section 3, and `hazards` in `PROJECT.json`, which lists what can go
wrong at the line where it would, with the properties that would show it.

## 2. The modules

| Module | Stands for |
|---|---|
| `RegisterService` | what the broker promises: abstract, no queue, no retries |
| `Broker` | `broker.go`, `backoff.go`, `state.go` |
| `BrokerProofs` | types, link, commands executed once, abort flag, `RegisterService` implemented, what is heard and transmitted |
| `SpanTracker`, `SpanTrackerProofs` | `hub/batch.go` and its use in `readBatchSpans` |
| `SectionReads`, `SectionReadsProofs` | subscriptions, the life of section reads, caches, state events in `hub.go`, `section.go`, `hub_streaming.go` |
| `BatteryReads`, `BatteryReadsProofs` | `streamBatteryBatchRead` and its closure over the hub's handlers |
| `PackReads`, `PackReadsProofs` | `select_pack`, `streamPackBatchRead`, the broker's queue under it, the pages that show the pack |
| `HubClients`, `HubClientsProofs` | `client.go`, the `/ws` handler, and what `hub.go` does to clients |
| `BatchPlan` | `register/batch.go` for any table of probes |
| `RegisterTables` | the tables and the decoders of `internal/register`, as operators |
| `SectionValues`, `SectionValuesProofs` | `BatchPlan` on the tables of `RegisterTables`, and what becomes of the answers: values, faults, topology |
| `ModbusFrames`, `ModbusFramesProofs` | `internal/modbus` and what the broker does with its outcomes |
| `MC...` | the instances for TLC |

How they compose. `Broker` implements `RegisterService`. `SectionValues` extends `BatchPlan` and
`RegisterTables`. The others meet at interfaces that are simple enough to restate: to `Broker` a transfer is an
answer, an illegal address or an error, which is how a request of `ModbusFrames` ends; to `SectionReads`,
`BatteryReads` and `PackReads` a span is read or not, which is `SpanTracker`'s matter; `PackReads` has the part of
`Broker` that a given-up call is left in, its queue. The hub's handlers occur in three modules, each with the part of
the hub's state that its readers use.

Operators whose name ends in a suffix after an underscore (`StartDial_Dormant`) are mutants: the code
with a plausible bug, which breaks the property the comment or `PROJECT.json` names. No specification
uses them.

### Broker

Each member of `Call` is one call of the API: it starts, (for Disconnect) aborts, waits for room in the
queue, waits for its answer, returns; a cancelled context lets it give up at every wait (`GiveUp`). The
Run loop is a program counter `at`: `select`, `execute` (a command was taken), `dial` and `backoff`
(`ensureConnected`), `ready`, `io`, `failed` (`executeRead` and `executeWrite`), `redial`
(`executeReconfigure`), `stopped`. `attempt` and `left` are the loop counters of a transfer and of a batch.

| Code | Actions |
|---|---|
| `ReadRegisters`, `WriteRegister`, `ReadBatch`, `Reconfigure`, `SetDelayRuntime` | `Start`, `Enqueue`, `Receive`, `RefusedClosed`, `GiveUp` |
| `Disconnect`, `abortRead` | `Start` (the flag), `AbortDeadline` (the deadline), then as above |
| `Run` | `Take`, `Cleanup` |
| `ensureConnected` | `AlreadyConnected`, `RefuseDormant`, `StartDial`, `DialOk`, `DialFail`, `BackoffOver`, `BackoffCancelled` |
| `executeRead`, `executeWrite`, `executeBatch`, `handleError` | `Transmit`, `TransferOk`, `IllegalAddress`, `TransferFails`, `NoMoreAttempts`, `Retry`, `ReportFailure`, `CancelBatch` |
| `executeReconfigure`, `executeDisconnect`, `SetDelay` | `ExecuteReconfigure`, `RedialOk`, `RedialFail`; `ExecuteDisconnect`; `ExecuteSetDelay` |
| `setState` | `news` (the call), `Store` (the state), `Offer` (the event: append, or drop when the channel is full) |

A change of the connection, the store of the state and the offer of its event are three steps: an action that calls
`setState` leaves the new state in `news`, and the Run loop goes on (`At`) when `Store` and `Offer` are done. So
other goroutines see a connection that is gone while `CurrentState` still says connected, and the other way round;
`StateMirrorsConn` says when, and that it is over whenever Run is between two commands.

Abstractions: payloads are left out; delays are untimed (a delay is a place where other goroutines step);
the unlocked access to `conn` in `ensureConnected` (a data race with `abortRead`) is one atomic store, as an abort that
misses the new connection behaves like one that came before it. The transfer itself (TCP or RTU, stale answers) is the
choice between an answer, an illegal address and an error.

### SpanTracker

A reader is a program counter in `readBatchSpans`, and within the tracker's operations, each access of a map being a
step: the tracker has no lock, and its users are a cancelled reader, its successor and the hub.

| Code | Actions |
|---|---|
| the loop | `Tick`, `Leave`, `Fallback` (individual reads after a failed batch read), `Individual` |
| `GetState`, `ShouldProbe` | `Look`; `ProbeLevel`, `ProbeCycle` |
| `RecordSuccess` | `BatchOk` or `Individual` (its first access), `SuccessLevel`, `ClearLevel`, `ClearFails`, `ClearIndiv` |
| `RecordFailure` | `BatchErr` (counts), `FailureLevel`, `FailureCount`, `Degrade` |
| `RecordIndividualFailure` | `Individual` (counts), `TestIndividual`, `Skip` |
| `Reset` | `ResetLevels`, `ResetFails`, `ResetIndiv`, `ResetCycle` (`hub` is where it is) |
| the hub | `Trigger` (cancels the others, starts one), `CancelRead` |

Counters are kept as far as the code tells their values apart: `fails` up to the threshold, `indiv` up to the number
that skips a span, `cycle` modulo the probe interval. An access is taken as whole: that two unlocked accesses may
lose an increment, or that Go stops a program whose maps are written concurrently, is left out. `calm` is the point
after which the inverter answers batch reads and nobody cancels or resets. `unread`, `interrupted` and `mixed` (two
operations on the span overlapped) are history, for the properties.

### SectionReads

The hub goroutine's handlers are one action each (`Subscribe`, `Unsubscribe`, `Refresh`, `ReadCycle`,
`Configure`, `Disconnect`, `HandleConnected`, `HandleDisconnected`, `HandleResult`), built from
`CancelReads` and `Trigger`, which stand for `cancelRead` and `triggerSectionRead`. The reader's actions
are `Check`, `Read`, `Publish`, `Complete`, `Exit`. `Reader` is a set of slots: a read starts only when a
slot is free, the one bound on the number of cancelled readers still alive. A cancel function that
outlives its read is dropped when the read ends, as calling it has no effect.

The reader is `streamStandardRead`. The battery, BMS and pack readers wrap the same loop; what they add
is in `BatteryReads` and `PackReads`. The resets of the trackers on `HandleConnected` are in
`SpanTracker`; the bytes of the results are in `SectionValues`, the hub's shutdown in `HubClients`.

### BatteryReads

| Code | Actions |
|---|---|
| the read of 0x066A | `Detect`: any word of the inverter, or an error |
| the rebuild asked for | `SendRebuild`, then `leave`: the deferred store is skipped (`triggerPending`); a cancelled one clears the flag |
| the closure | `Rebuild`, run by the hub: the plan and, by `Trigger`, a new read |
| `readBatchSpans` and the end | `Start` (takes the plan as it finds it), `Read`, `Publish`, `Complete`, `Exit` |
| the hub's handlers | `Subscribe`, `Unsubscribe`, `Refresh`, `ReadCycle`, `Disconnect`, `HandleConnected`, `HandleDisconnected`, `HandleResult` |

A plan is its number of channels and is replaced in one step. The code replaces three fields of the section
without a lock while a reader may go through them; the torn slice such a reader may see is left out.
`reset` is history: a connection, which puts the plan back to two channels, came while the reader was alive.

### PackReads

A reader is a program counter in `streamPackBatchRead`: `write`, `writing` (waits for the answer), `pause`,
`rewrite`, `rewriting`, `settle`, `schema`, `read`, `reading`, `publish`, `complete`, `fail` (`sendPackError`),
`exit`. `Ask`, `GiveUp` and `Return` are a call of the broker from the caller's side; `Execute` is the broker, which
takes the oldest command, also one whose caller has gone. `query` is register 0x9020; a write that failed may
have changed it. `view` is the pack whose name a page shows, by the last schema it got (`app.js`).

One assumption on time is needed, `Settled`. The settle time (500 ms at least, one second by default) is longer than
a cancelled reader needs to notice, and than the hub needs to empty the results channel. So when a reader leaves
`settle`, the cancelled readers before it have ended and their results are out. It says nothing of the broker's queue.

What the assumption does not exclude is in the model: a reader that was cancelled while it waited for room in the
queue may, as `select` takes either ready case, still queue its write after the write of the next selection
(broker.go:175-185). The next pack's reads then show the older pack's registers. `overtaken` records it and
`ShownIsPack` excludes it; no document of the repository speaks of this case.

### BatchPlan, RegisterTables, SectionValues

`BatchPlan` walks over the probes in the order of their addresses, one step each (`Begin`, `Overlap`,
`Extend`, `Restart`, `Finish`); as `sort.Slice` is not stable it takes any of the probes with the smallest address. A span
keeps its parts: the probe, the offset and the length in bytes.

`RegisterTables` has each section's probes as address, count and form, the bits of the fault tables that have a
name, and the decoders as what they compute: `FormatValue` gives the numbers of the value shown, `FormatRawValue`
those of the raw value beside it. Of scaling it has what changes a value: the cells of a battery pack, in
millivolts, and the power factors are cut to two digits (`Rounded`); which way Go rounds a half depends on the
float64 nearest to it, and so `TiesUp` is any set of them. The other scales divide by what the digits shown can hold.
The year of a clock is a sum of 16 bits and wraps (`Year`). Names, units and labels are left out.

`SectionValues` plans any table of `Layout` and then reads: one span with one request (`ReadSpan`) or probe by
probe (`ReadSingly`), the fault registers (`ReadFaults`), the topology (`ShowTopology`). In memory each
register holds its own number, except those of one probe, which hold any of `Words`: a value made from
another register's words shows. An answer may be too short by any of `ShortBy` registers.

### ModbusFrames

The connection is a sequence of bytes, each with the answer it belongs to and its position in it; the reader takes
bytes by number. `Answer` puts the first bytes of an answer into the stream, `Arrive` the rest, so that an answer comes
whole or in two pieces; it is to the last request or to one of the `LateBy` last, good, damaged or an
exception. `HeaderTCP`, `BodyTCP`, `HeaderRTU`, `BodyRTU`, `ExceptionRTU` and `WriteRTU` are the reads of
`tcp.go` and `rtu.go`, `Timeout` their deadline, `Fail` what the broker makes of an error: it closes the connection.
`clean` records that no late answer came on this connection: RTU frames have no number, and so nothing is promised of
them otherwise.

A damaged answer keeps its length and may be wrong in any byte. Modbus TCP has no checksum: the code takes it for good,
for an exception, for another's answer or for an error, and a write accepts any answer without the exception bit. RTU
frames are checked, but not all of one: the exception bit is tested before the checksum, and neither an exception nor
the end of a write is checked. So a damaged RTU answer to a read may pass for the exception 0x02 (`Misread`): of
its seven bytes the code reads six and keeps the connection, and the last one stays for the next request.
`OwnAnswer` and `CleanBetween` name these cases and no others. That a wrong length, number or checksum fits by
chance is left out, as is an inverter that cuts an answer short and goes on.

### HubClients

A member of `Client` is one connection. Its goroutines are `readPump` (in the `/ws` handler, waiting to
register; reading; waiting to send a command or the unregistration; done) and `writePump` (running or
not); `conn` says that the WebSocket is open, `buffered` and `closed` are the send channel and its flag.
The hub's `select` is the choice between `HandleRegister`, `HandleUnregister`, `HandleCommand`,
`HandleFunc`, `Broadcast` and `Shutdown`; all its sends are `Send`, which removes a client whose buffer
is full (`RemoveClients` is `removeClient`) and ends in a panic when a channel is closed.
`LookAtClosed` and `SendPackError` are the two steps of `sendPackError` on a reader's goroutine.

Abstractions: messages are counted; there is one section (which of several a client has is the matter of `SectionReads`)
and no reads; commands that do not touch the clients (connect, refresh, configure) are left out;
deadlines and pings are the choice of `Break` and `WriteEnds`. A pack read starts for the client that
selected the pack; the read_cycle that repeats it for the same client is left out.

## 3. The runs

| Run | Instance | Shows |
|---|---|---|
| `broker_link` | connect; a read or write; a disconnect or second connect; queue 2, events 1, attempts 3 and 2 | `TypeOK`; after a Disconnect nothing touches the inverter (`DormantIsQuiet`); `CurrentState` is behind the connection only within a `setState` (`StateMirrorsConn`); no command is lost, repeated or answered twice (`ExactlyOnce`); the abort flag is up for a reason (`AbortExplained`); the broker implements `RegisterService` |
| `broker_answers` | connect, and a read, write, batch, disconnect or delay change | transmissions stay within the attempts (`TransmissionsInBudget`); the backoff is reset by success; the listener's last event is the state unless one was dropped or is being offered (`HeardIsCurrent`); every accepted command is answered (`CommandsAnswered`) |
| `span_tracker` | two readers, two spans of which one fails, threshold 2, skipped after 2, probe interval 2 | no mix of accesses leaves a span normal with a counter at its limit, and levels agree with counters where operations do not overlap (`LevelsAgree`); a success or a reset leaves nothing of a failure (`FullRecovery`); none is left unread beyond the interval (`NoSpanForgotten`); all recover when the inverter does (`SpansRecover`) |
| `reads_safety` | two clients, two sections, two reader slots, results channel of 1 | the two records of a subscription agree (`OneSubscription`); a live read can be stopped (`NoOrphanRead`) and has a subscriber and a connection (`LiveReadIsWanted`) |
| `battery` | two reader slots, words 2, 3 and 9, channels of 1, one connection | a read that goes on reads the plan of the channels the inverter named (`PlanIsDetected`); the flag that a retriggered read leaves up comes down (`ReadingClears`) |
| `packs` | two clients, two packs, two reader slots, queue 2, results channel of 1, four requests | what a page shows under a pack's name was read while the window stood on that pack (`ShownIsPack`); the read that goes on is the selection's (`ReadIsSelected`) |
| `clients` | one client, send buffer 3, channels of 2 | a removed client is in no map (`ClosedIsForgotten`); the hub takes every command whatever the browser does (`CommandsTaken`); the goroutines of a removed client end (`RemovedPumpsEnd`) |
| `section_values` | every section of the program at its largest, and five layouts no section has; four words, answers short by one or none | each register is in one span (`PlacedOnce`), its slice inside the answer (`SlicesInside`), requests within the limit (`WithinLimit`); what is shown is made of the register's own words (`ShownIsOwn`) and says what its raw value says, to the digits shown (`ValueMatchesRaw`); faults that are on are reported (`FaultsReported`); a pack is online by the bit of the group that selects it (`OnlineMatchesQuery`) |
| `frames` | both framings, numbers modulo 3, late by at most 2, four requests | a request ends by its own answer, or a damaged one that is not checked (`OwnAnswer`); a kept connection is between two frames, but for the byte behind a misread one (`CleanBetween`); every request ends (`RequestsEnd`) |

Runs that show a disagreement between the code and what it says of itself (`findings` has the quotes):

| Run | The code does |
|---|---|
| `broker_stuck_disconnect` | a Disconnect behind a read of an unreachable inverter is never executed: the redial loop does not look at the queue |
| `clients_closed` | the hub removes a client whose subscribe is still queued, then sends on its closed channel: a panic |
| `frames_illegal` | in RTU mode the exception 0x02, 5 bytes long, is read as 6: the read waits for its deadline, ends with an error that counts as transient, and is repeated |

### Disagreements met while reading, without a run

* `Close` "signals [...] all pending callers to return" (broker.go:248), but a caller whose command is queued waits
  for its own context.
* A Disconnect forces the deadline of the read in progress (broker.go:261); a read that starts after it sets its own
  over it (tcp.go:35) and runs to its end.
* `SpanTracker` "is designed to be used from a single goroutine" (hub/batch.go:53); a cancelled reader and its successor
  use it together, and the hub resets it meanwhile. A reset between the test of the count and the store of the level
  in `RecordFailure` leaves a degraded span without a failure (`LevelsAgree` excepts it, TLC shows it).
* A damaged RTU answer may end a read as "illegal address" (rtu.go:37), which the broker does not retry, and leave a byte
  that the next request takes for the beginning of its answer.
* The year of the clock is a sum of 16 bits that wraps: a word of 65535 is shown as 1999 (register/format.go:175).
* A cancelled batch read is recorded as a failure of the inverter (hub_streaming.go:145 against the "consecutive
  failures" of batch.go:35); good individual reads after a failed probe do not take failures back (batch.go:128).
* A cancelled read clears the section's flag when it ends, also its successor's (hub_streaming.go:212); a `read_cycle`
  then cancels that one instead of being skipped (docs/API.md:158).
* After a refresh of `configuration`, the section_complete of the older read marks it as cached again (hub.go:200
  against docs/API.md:147).
* The closure of a battery read starts a read also after a disconnect (hub_streaming.go:297 against docs/API.md:113).
* A selection cancelled at its second write reports "timeout writing pack selection after retry" to a client that
  selected something else (hub_streaming.go:494-498).
* An unsubscribe from `bms` of a client that never subscribed ends the selection of the others (hub.go:366).
* The probe of the inverter's serial number (0x0445, 10 registers) reaches into the one of the hardware version
  (0x044D), and is shown with it; the repository's own list of the protocol has "Device SN (1-16)" in 8 registers and its
  end at 0x0470 (tools/xlsx-discover/v138_registers.go:81,:82,:92).
* The page waits for a section_complete before it asks again (docs/ARCHITECTURE.md:49); none follows a reconnection in
  the middle of a read, a pack_error or a skipped cycle, and its refresh stops (app.js:543,583).
* The topology with an unread tower bitmap shows every pack as offline.

### The bounds

Three calls give each pair of the broker's interesting operations and a connection to fight over; more calls only
queue. A queue and channels of one or two entries are full after one or two steps, the case the properties are
about. Two attempts leave a retry to be the last or not. Two readers are a cancelled one and its successor; a third
would be another cancelled one, and it does nothing the second does not. Two sections are the one left and the one
entered. Spans share the cycle counter, so that two show what one alone does not: a probe that comes due while a
reader is past the span. Only one of the two has failing reads (`Failing`), as two spans share nothing else of the
tracker; the proofs put no limit on it. Clients, packs and readers are interchangeable where `SYMMETRY` says so; runs with
a liveness property use no symmetry.

`battery`: of the words 0x066A may hold the code tells apart the section's own count, another one it believes and one
it does not; each connection puts the plan back once. `packs`: four requests are a first selection, another in its
place, and two more that cancel, subscribe or repeat; `select_pack` works with and without a subscription, and
the second client's page sees the first one's packs. A queue of 2 makes a cancelled writer wait for room.

`section_values` has the real tables, so its bounds are in what the registers hold: each word, sign bit and zero byte
case of `MCWords`, at the even and odd registers of a probe; two words just below and at the middle between two
hundredths of a volt, and a word that wraps as a year. `MCShortBy`: an answer short by one register is short for
its last probe and complete for the others. The layouts no section has are those of the tests of batch.go: probes
without registers, the register limit, an overlap beyond the span, gaps. Sections with fewer channels read a part
of what the ones checked read; `SectionsAssumption` says that these are sections of the program, and
`NestedAssumption` that in each of its sections probes overlap by nesting only, as `WithinLimit` asks.

`frames`: three transaction numbers and answers late by at most two keep the numbers from meeting, as 65536 and a late
answer do; the fourth request is the first whose number was used before. A frame has the length of the answer for one
register, so that an exception is shorter than it in both framings.

`clients` has one client: the handlers treat clients one by one, a second one only adds competition for
the bounded channels, which the client's own earlier commands already give, and
`NoClosedClientIsKept` is proved for any number. A buffer of 3 takes the two messages of a subscription
and overflows at the second broadcast.

Deadlock is not checked where the system may really stop: in the broker's runs (all calls have returned and Run has
stopped), in `clients` (the clients have left and the hub has shut down), in `section_values` (a table without
registers has nothing to read) and in the runs of `ModbusFrames` (the last request of the bound has ended). It is in the
others,
where a browser can always ask for something or a goroutine is always on its way.

Fairness. The Go runtime keeps runnable goroutines running: weak fairness of `RunStep`, of a caller that
has started, and of each reader. A sender blocked on a channel gets its turn, as Go serves blocked
senders in order: strong fairness of `Enqueue`, `Publish` and `Complete`. The hub's `select` chooses
at random among ready channels, so results are served: weak fairness of `HandleResult`. In `clients` the pumps are
goroutines
that run on (strong fairness of `ReadPump`, which may wait on a channel; weak fairness of `WritePump`, as
every write ends within `writeWait`) and `select` takes unregistrations and commands (weak fairness).
In `battery` the closures are taken too (strong fairness of `Rebuild`, which waits for a free reader slot). In
`frames` bytes that are there are read, and a deadline that is set passes (weak fairness of `Read` and `Timeout`).
Nobody has to call, cancel, disconnect, broadcast or listen. `CommandsAnswered` further assumes a reachable inverter
(`SF(DialOk)`); without it the answer may never come, which `broker_stuck_disconnect` shows for a
Disconnect. `SpansRecover` assumes that the browser goes on refreshing (`WF(Trigger)`).

## 4. The proofs

All theorems hold for every set of clients, calls, packs, sections, readers, words and probes and all limits that
satisfy the `ASSUME`s of the module. Every invariant of a passing run is proved, and so are `FullRecovery` and
`ImplementsService`. The assumptions: limits are positive; the null values are not members; no probe reaches beyond the
address space; a register holds 16 bits; there are at most 16 towers of 16 packs (they are bits of a word; the
code has the constants 2 and 10); an answer is late by less than the transaction numbers there are (65536); and
`Settled`, the assumption on time of `PackReads`, which is a guard of the model.

### Broker (`BrokerProofs`)

* `TypeOK` is inductive. `LinkInv` is the inductive invariant for dormancy, state, connection and backoff: it adds to
  the properties where the program counter implies a connection (`ready`, `io`) and where it excludes one
  (`dial`, `backoff`, `failed`, `redial`), what the state is behind by (`news`), and that a redial begins at the base
  delay; without these, the step that succeeds in dialling could find a broker that was disconnected. `OnceInv` adds
  that `current` is nobody exactly
  between two commands.
* `Refinement`: under `LinkInv`, `OnceInv` and `JobInv` (which operation each part of the Run loop executes) each step
  of `Broker` is a step of `RegisterService` under the mapping in `Broker` (asked, pending, answer, armed, link) or
  changes none of its variables.
* `HeardIsCurrent` is inductive with the types: an event that fits is the last in the channel, a receive leaves the
  last one last, and `offering` covers the gap after `Store`.
* `TransmissionsInBudget` needs `WireInv`: what a transfer has sent is counted by the batch's parts that are over, the
  attempt it is at and whether that attempt has been sent (`Progress`), nothing is sent for a call that is not being
  executed, and a call that has ended stays within its budget. The product of parts and attempts is not linear: the
  proof takes it apart into one part more and the rest.

### SpanTracker (`SpanTrackerProofs`)

`TypeCorrect` needs that a reader between `check` and the end of a span is at a span of the plan (`AtSpan`).
`LevelsAgree` follows from `LevelInv`. Under any mix of accesses, a span that is normal with a counter at its limit has
somebody on the way to mend it: a reader that will test the counter or clear it, or a reset
(`FailsMended`, `IndivMended`). Where operations do not overlap, `Undisturbed` says what the one in progress has done so
far (`Midway`) and what a reset has cleared (`Cleared`). `FullRecovery` is an action property from it.
`NothingForgotten` rests on `GapInv`, which relates the cycles a span has waited to the cycle counter and to
what the reader has still ahead of it in this cycle.

### SectionReads (`SectionReadsProofs`)

`TypeInv` adds that a running reader reads a section and has spans left when it publishes; `ReadInv` is
`OneSubscription`, `NoOrphanRead` and `LiveReadIsWanted` together: each handler cancels by the cancel function, so that
a read is stopped only because no live one escapes it.

### BatteryReads (`BatteryReadsProofs`)

`TypeInv` adds that a rebuild is asked for only to a count the reader believes. `PlanInv` adds to `PlanIsDetected` that
there is one live read (`OneLive`) and that between detection and start its plan is the one it compared with
(`CheckedPlan`): a closure replaces the plan and cancels that read in one step.

### PackReads (`PackReadsProofs`)

* That no selection is refused more than twice, the bound in `TypeOK`, needs the calls: a reader has one command in
  the queue (`OneCommand`), waits for it without an answer (`Waiting`), and has taken the answer before it asks again
  (`AnswerTaken`). `SelectionIsRead` rests on `OneLive`: each handler that changes the selection cancels or replaces
  the one live read in the same step.
* `ShownIsPack` relates register 0x9020 to three channels and the page, in two layers. `WriteInv` follows the window: as
  long as a selection is `Sure` (the read that goes on, not overtaken), no write of another pack stands behind
  its own in the queue (`LastWrite`), and once its write is answered the window is on its pack and nothing queued moves
  it (`OnPack`); so what it reads is its pack (`AnswerIsPack`). `ShowInv` follows the results: a reader past its settle
  time is alone (`PastAlone`, from `Settled`), so the channel holds results of one pack (`ResultsOfOne`), and none of its
  values comes to a page that shows another pack before the schema of its own (`ValueFollows`, `ReaderFollows`).

### HubClients (`HubClientsProofs`)

`TypeOK` is inductive (no buffer beyond its capacity), and so is `ClosedIsForgotten` with it: a registration or
subscription of a closed client would break it, but both send, and such a send does not return.

### BatchPlan and SectionValues (`SectionValuesProofs`)

* The plan, for any table: `IInv` says of every span, closed or being built, that its parts are probes of the table at
  their offsets, that it ends where its farthest part does, and that the walk is past it; the order of the
  addresses then keeps spans apart, and each probe in one of them. `WithinLimit` is about tables whose overlaps nest; the
  code extends a span by an overlapping probe without looking at the limit.
* `ShownIsOwn`, for any memory and any shortfall: `Sound` says of every message that it is an error with a reason or
  the value of the first words of the register's own. `SpanSound` shows it for a span, as the words between a part's
  offset and its end are those of its probe, by `IInv`; `SinglySound` for probes read one by one.
* `ValueMatchesRaw`, for any words of 16 bits: `EncodesAlways`, by the form of the probe. `ClockBits` puts a clock
  together again from its six fields, by division with remainder; `SignKept` is two's complement; `TextIs` says that the
  text before the first zero, without the blanks at its end, exists and is a beginning of the characters. `RoundedNear`
  bounds what two digits leave out, and `YearKept` takes the wrapped year back.
* `FaultsReported` and `OnlineMatchesQuery`: the bits of a power of two, of its complement and of the words below it
  (`OneBit`, `OtherBits`, `NoAndAllBits`, `LowBits`), and where the registers of the two fault tables lie
  (`DescribedRegisters`). The rows of the fault tables are not needed: what is proved holds for any.

### ModbusFrames (`ModbusFramesProofs`)

`FrameInv` places the reader. The line (the bytes that arrived and those coming) is frames one after another, of the
first of which a part may have been read (`Chain`); a reader of Modbus TCP stands before a frame or behind a header
(`TcpPlace`), and no byte on the line is so old that its number has come round again (`Fresh`): that is where
the assumption on late answers is used, and with it the number that matches is the request's own. In RTU mode
there are no numbers: `CleanPlace` says that as long as no late answer came the line holds the answer to the last
request, once, or nothing, or the last byte of a damaged one that was taken for an exception.

### What is not proved

Theorems that state no property of a run: `LinkCorrect` and `WireCorrect` of the broker, `FramesCorrect`, and of the
plan `TypeCorrect`, `ApartAlways` (spans share no register) and `ListedAlways` (they read none that the section does not
list); `OneReadGoesOn` of the battery.

Only model-checked: the liveness properties `CommandsAnswered`, `SpansRecover`, `ReadingClears`, `RequestsEnd`,
`CommandsTaken` and `RemovedPumpsEnd`, which rest on fairness and are beyond the prover; that the tables of
`RegisterTables` are nested and within the assumptions, which TLC evaluates on the real tables; and the counterexamples
`DisconnectTakesEffect`, `NeverSendsOnClosed` and `IllegalIsFinal`.

## 5. Plan

Done: the broker with its abstract service, the span tracker, the section, battery and pack reads, the clients, the
batch plan with the register tables, the Modbus framing; the proofs of all invariants the runs check. Next, in this
order:

1. `RefreshLoop`: the browser's loop composed with `SectionReads`; whether the refresh goes on.
2. `HubBroker`: the hub's `connected` flag against `RegisterService`, and the order of connects and disconnects.
3. Proofs: the steps of the liveness arguments that are safety (what each helpful step keeps and what it decreases).

## 6. Not modelled

* The browser (`web/static/app.js`), but for which pack its page shows; its refresh loop is item 1 of the plan, rendering
  and layout stay out.
* The hub's view of the connection: connects and disconnects that overtake one another on their goroutines (hub.go:221),
  and a `connected` flag that lags behind the broker (hub.go:266). Item 2 of the plan.
* Torn reads: a reader that goes through a section's probes and plan while the hub replaces them, without a lock, may see
  one of the old and one of the new. The models replace them in one step.
* Time, but for the order it forces: delays, the inter-read delay, pings, the settle time beyond `Settled`.
* Wording: names, units, scales, labels, messages (`message.go`), and the decoders that no section uses.
* Start-up, flags and static files; the command line tools, sequential scripts of the developers.
