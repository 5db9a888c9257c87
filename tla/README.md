# TLA+ models of gorti

gorti is a run-time infrastructure for IEEE 1516-2010 simulations: one server process
(`rti/cmd/rtid`) keeps federations of simulators together, delivers their messages and
decides when each may advance its logical time.  This directory holds TLA+ models of the
parts whose correctness depends on interleavings, on bounded queues, on what survives a
crash and on arithmetic at boundaries, the TLC configurations that check them and TLAPS
proofs about them.

## The system and what is modelled

| Part | Code (`rti/internal/...`) | Modules |
|---|---|---|
| Time bounds and grant arithmetic | `hla/time`: arithmetic, scalar, lbts, galt, zero_lookahead, typed_grant | `TimeBounds` |
| Time manager: services, evaluator, queues, delivery, retraction, stall checker | `hla/time`, the send path of `hla/object`, `application/server/delivery_retry.go` | `TimeQueues`, `TimeManager`, `TimeProperties`, `MCTimeManager` |
| Callback outbox | `adapters/delivery/outbox.go` | `Outbox`, `MCOutbox`, `OutboxProofs` |
| Synchronization points | `hla/synchronization`, `application/server/sync_lifecycle.go` | `SyncPoints`, `SyncBarrier`, `SyncPointsProofs` |
| Save and restore, admission of calls, bundles and decisions on disk, losses, the roster | `hla/save_restore`, `hla/federation`, `adapters/savebundle/storage`, `application/server/scheduled_save.go` | `SaveRestore`, `MCSaveRestore`, `SaveRestoreProofs` |

How they interact.  A federate's call is admitted (`admission.go`), enters a manager,
changes its tables and leaves callbacks in the outbox, a bounded queue per federate.  The
time manager works under the federation's *evaluator lease*, a mutex; after a change it
runs `tryGrantPending` until nothing is left to grant.  What the outbox refuses goes back to the
manager that sent it, and a worker retries.  A save or a restore takes the admission
exclusively, so no service runs beside it; a scheduled save also holds logical time back.
The models meet at these interfaces: `TimeManager` sees the outbox as a number of
free slots the stream gives back at any time, `SyncPoints` as a reservation that may be
refused, and `SaveRestore` sees the managers as one counter of completed services per
federate handle.

Every action is a whole handler.  A call that the code refuses without a change is left out
of `TimeManager` and `SaveRestore`; in `SyncPoints` a refused registration is an action,
as it has a callback of its own.

## TimeBounds, TimeQueues and TimeManager

`TimeBounds` is pure: what a federate may still send (`outgoingTSOBound`,
`availableSendHorizon`), what a receiver may rely on (`LBTS`, `availableHorizon`), whether a
request is granted (`decideScalarGrant`), and from when a federate may regulate
(`regulationEnableTime`).  It is the Integer64 binding.  Times are `0..MaxTime`;
`MaxTime` stands for `MaxInt64`, so the boundary cases of `addHorizon` and `successor`
happen in every run.  The code's "unbounded" flag is the number `MaxTime + 1`.

`TimeQueues` is pure too: the two records the manager keeps for a federate, and what
taking, handing over and giving back messages, a grant and an activation do to them.
The code's loops over a queue, a partition and a stable sort, are `Arranged`: each
message goes where as many chosen messages come before it as precede it.

In `TimeManager`, `fs` is `stateStore`, `ns` is `nerStore`, and the field names follow the
code (`current` is `currentTime`, `pending` is `pendingNER`, and so on).  `eval` is the lease
with the evaluator's position, `owed` the callers between their change and their
evaluation, `retry` the retry mark, `room` the free callback slots.  `sent` and `got` are
history: what was sent to whom, and what was put in each callback queue.

A service is one step, as it holds the lease throughout.  The evaluator's loop is one step
per callback admission, since the stall checker, subscription changes and the streams do
not take the lease.  Four services look at the halted mark before they wait for the
lease; there, check and effect are two steps whenever the instance contains the stall
checker.  `Outcomes` (`Endings` in `TimeQueues`) lists how handing a sequence to the outbox can end: one reservation, a
prefix event by event after a refusal, or a failure of journal or commit with everything
restored.

Two places where the code holds more, or less, than the lease.  A resignation holds the
federation's operations lock exclusively from the roster to the evaluation at its end
(`federation/manager.go`, `commitResign`), and every call of a member and every pass of the retry
worker holds it shared.  So `onFederateResign` is one step over all the tables, needs that no call is past its
check or owes its evaluation, and goes on as the evaluator itself.  A sender reads who is subscribed before it takes
the lease (`interactionSubscriptionCandidates`); where subscriptions change, `Fanout` is
given any set of recipients that an earlier moment could have shown, and the filter decides
again when a held message leaves.

| Run | States | Question |
|---|---|---|
| `advance_two` | 346k | two engaged federates, five advance services, initial lookahead 0 or 2 for the first and 0 for the second, changed between advances |
| `advance_three` | 218k | three zero-lookahead federates, flush propagation, retraction, two callers in between |
| `engagement` | 590k | enabling with lookahead 0 or 1, disabling and resigning between a peer's advances, two callers in between |
| `delivery` | 613k | a one-slot callback queue, one failure, asynchronous delivery on and off |
| `drain` | 424k | giving up the constraint with a full queue, retraction, changing subscriptions, a halt |
| `progress` | 56k | liveness of two receivers through full queues and a failure |

The properties are safety of time (`NoPastTSO`, `HorizonCoversFrontier`,
`TimeNeverRegresses`), absence of lost wake-ups and of gridlock (`NoLostWakeup`,
`NoGridlock`), message accounting (`Conserved`, `OrderedDelivery`, `GrantCarriesMessages`,
`RetractionReachesAll`), the halt (`HaltWindsDown`), termination of the loop
(`LoopTerminates`) and progress (`RequestsResolved`, `HeldMessagesLeave`).

`HaltWindsDown` is about the calls that looked at the halted mark before they waited for the lease and
about the turn of the loop that was under way when the mark was set.  These still take effect; the
property says that they are all, and that each later change of a federate's time state uses one
of them up.  That the stall checker marks the federation from a snapshot is in the model too
(`SnapshotStalls`, `HaltFederation`): a grant in between does not keep the mark from being set,
and no text says it should.

`LoopTerminates` measures every turn that returns to the loop's head.  A turn that changed nothing
would be a stuttering step, which no action property sees; in the model a turn at the head answers a
request, moves a message or leaves the loop.

Two more runs expect a violation, each a disagreement between code and text:

* `retract_undelivered`: a message that the subscription filter discards in a bulk drain is
  recorded as delivered (`asyncdelivery.go:561`), so its retraction asks a federate that
  never had it, against `retraction_messages.go:42`.
* `late_regulation`: enabling regulation with zero lookahead forgets that a TAR grant has
  closed the current time; the federate may send at it, and a peer's answer at the same time
  arrives in its past, against `docs/time-management.md:49`.

Bounds.  Two federates show every pairwise race; three are needed for flush propagation
and for a retraction that lowers a middle regulator's bound.  Two or three instants
suffice for equal, earlier and later timestamps and for a lookahead that is reduced over two
grants.  One or two messages exercise order and prefixes.  `MaxOwed` bounds the callers
between change and evaluation, `MaxFaults` the failures, `Capacity` the callback slots.
`NoPastTSO` is about messages of regulating senders: the code does not validate the others.
`Unregulated` are the federates that send timestamped messages without regulating: federate 2 in
`engagement`, nobody in the other runs.

Fairness (`progress`).  The holder of the lease goes on with its turns, and that they end is not
assumed; callers waiting for the lease get it (strong fairness: Go mutexes switch to FIFO hand-off when
a waiter starves); the retry worker polls for ever; streams keep reading.  Nothing is assumed of
the services themselves.  The first receiver is the one the resume loop meets first, and both have
one-slot queues, so the second waits behind the first.

## Outbox

Recipient states are numbered; `subs` is the subscriber table, `closing` marks a state
that was unmapped and not yet closed (the table's lock is already free for all but
`Unbind`), `call` is what each goroutine in `Send` or a reservation is doing and which
table it has loaded.  Locking takes one step per recipient, the simulation and the commit
one step per delivery; the stream reads at any time, as it takes no lock.  `flushGen` is
represented by what it decides: `fired` callbacks have yet to read it, `snap` of them hold
the current value, and every arming or disarming empties `snap`.

| Run | States | Question |
|---|---|---|
| `outbox_batch` | 44k | one recipient, batches of three, grants that close them early, late timers, a full channel |
| `outbox_locks` | 38k | opposite reservations of two recipients while the federation is unbound |

A batch of three and a channel of two are the smallest in which a reservation counted in
events could overcommit the channel; two callers and two recipients the smallest in which
locks could be taken in a circle.  Fairness: timers fire, callbacks and callers waiting for a
mutex get it (strong fairness, as above), a caller that holds its reservation commits or
releases it, the stream reads.

## SyncPoints and SyncBarrier

`SyncPoints` is the synchronization manager in the production profile (invocation
receipts, a membership resolver, a reservable outbox).  `st` is its `federationState`:
`points` by label, `pending` the callbacks the outbox has not taken, `obligations` those a
federate has still to report, and the counters `nextSequence` and `nextEpoch`.  Each
operation runs under `opMu` and the federation's operations lock and is one step; it hands
over what is pending and what it adds in one reservation, or is undone when the
reservation is refused (`transition`).  A join or a resignation is not undone, and its
callbacks wait for the worker (`RetryPending`).

`SyncBarrier` says what this is for: a label is a barrier that opens for some members, lets
them arrive, releases them together, and is free again when all have been heard from.
`ImplementsBarrier` is the refinement, with `phase`, `need`, `done` and `heard` computed from
the points.

The run `sync_points` (42k states) has three federates of whom one joins late, points for
all or for two members, unsuccessful achievements, refusals at every step and the reuse of a
label with old reports outstanding.  Besides the refinement it checks that a point waits for
exactly whom it needs (`BarrierWaits`), that callbacks keep their order (`NoOvertaking`), that
the image taken in any reachable state validates and restores to the same state
(`RestoreReproduces`, which also takes the place of a type invariant), and that every point retires (`PointsRetire`) if the worker runs and
every federate goes on achieving and reporting.  `MaxChanges` bounds registrations and joins;
two are a point and a late join in it, or a label used twice.

## SaveRestore

A federate is a name; `roster` gives it the handle under which the managers know it now.
A handle is an execution (`generation`) and a number in it.  `work` is what the managers hold
for each handle and `app` what the federate itself holds: one counter each, raised together
when a service call ends.  `save` and `restore` are the two active records, `barrier` is the hold on
logical time, `told` the last control callback of each federate, `completed` what a query of a
label answers; `bundles` and `history` are on disk and survive `Crash`.

A control call holds the admission exclusively, so it is one step and needs `leases = {}`.  A
service call holds it shared and is two steps, `BeginService` and `EndService`.  The end of a save writes
files with a crash possible between: `writeBundle`, `commitSaveHistory`,
`publishSaveDecision`, each with its failing outcome.  The logical time of a scheduled save
is not modelled; the set of federates that have reached it is chosen in
`progressParticipants`.  A restore of a bundle of an earlier execution gives every saved name
a fresh handle (`rebind`), and one of this execution gives back the saved handles.  Execution numbers
grow across restarts because the code takes them from an epoch kept on disk.

The run `save_restore` (119k states) chooses one of two sets of bounds in the initial state: saves
that replace each other, with losses, in one execution; and restores across two
executions, with four handles.  The properties:

* `ConsistentCut`: in every bundle the managers' state is that of the federates' reports;
* `InStep`: managers and federates agree, after any restore, rejoin or rebinding;
* `SavedIsStored`: nothing is reported saved that could not be restored, wherever a write
  fails or the server dies;
* `TimeHeldBySave`, `NobodyLeftWaiting`, `MembersFixed`: pauses, instructions and the
  participants belong to the save or restore in progress, to nothing else;
* `SaveEnds`, `RestoreEnds`, `Resumes`: saves and restores end and the held advance requests are
  taken up.  A loss during a restore is put off until it is over, which nobody then reports,
  so the last two except that case; it can be aborted.

Two federates and two handles more than federates let a name come back under another handle and
take a handle another federate had; two requests let one save replace another; two executions
let a bundle outlive its own.

Fairness: federates that are connected do what they were told and end their calls; writes
end; losses and the progress of scheduled saves get the exclusive admission although services
keep taking it shared (strong fairness: a waiting writer of a Go `RWMutex` stops new readers, and
`afterRelease` runs the progress after every call).  The last includes an assumption on the
federates, that all of them reach the time of a scheduled save: the code has no timeout for one
that never advances, and leaves such a save pending.

Two sentences of `hla/save_restore/doc.go` no longer describe the code: line 21 says a second
request "is rejected while a reservation exists, rather than replacing it", but
`replaceableSave` and `installSave` replace a save that waits; and identities are rebound by name
(`restoreRouting`, `prepareCrossGeneration`).  The model follows the code.

## Proofs

The theorems hold for every value of the constants: any number of federates, labels, states,
callers, executions and calls.  Besides the bounds' types the assumptions are few:
`Outbox` assumes positive sizes and that a free mutex is held by nobody, `SyncPoints`
finitely many labels, `SaveRestore` finitely many names.

**Outbox** (`OutboxProofs`): `TypesHold`, `NothingIsStranded`, `ReservationsHold`,
`LocksAreOrdered`, `EventsStayInOrder`.  `ReservationHolds` speaks of the next delivery
only and is not inductive.  `IInv` adds that a reservation past its locking holds the mutex of
each recipient (`HoldsLocks`), that the simulated lengths follow the rule of the commits
(`PlanSteps`), that the real scratch is as simulated and the real channel no longer (`PlanHolds`),
and that an armed flush has a timer or a valid callback to come and an open scratch is armed
(`TimerLive`, `ScratchArmed`).  For the lock order, `LockInv` says that every table, also one
loaded before an unbind, maps a federate to a state made for it, that nobody closes a
state whose mutex a reservation holds, and that a recipient a reservation has yet to lock comes
after those it holds.  For the order of events, `OrderInv` says
that what was read, the batches in the channel and the scratch are consecutive runs of one
numbering.

**Synchronization points** (`SyncPointsProofs`): the first part says what the operators on points return
and reduces each operation to an effect on the points; every effect keeps `PointInv`, which
gives `Waits` (`BarrierWaits`), and maps to a step of `SyncBarrier` or a stutter, which gives
`Refines` (`ImplementsBarrier`).  The invariant needed for it is that a point is open exactly while
somebody required is missing, that only joined federates are required, and that an open point for all
members requires all of them.

**Save and restore** (`SaveRestoreProofs`): the save and restore calls keep `IInv`, and so do
the roster, services, losses, destruction and crashes, which gives
`ConsistentCutHolds`, `InStepHolds`, `SavedIsStoredHolds`, `TimeHeldBySaveHolds`,
`NobodyLeftWaitingHolds` and `MembersFixedHolds`.  None of the six is inductive.  A cut is consistent
because a federate that has reported does no more services (`ReportsHold`, from the clause of
`SaveOK` about leases) until everybody has (`WriterOK`).  A restore leaves all in step because the image
is well formed (`WellFormed`: distinct handles, states that agree), is for exactly the joined
names (`RestoreOK`), and its handles will not be given out again (`GivenOut`; `FreshHandles` shows
that rebound handles are distinct and new).  Decisions keep their bundles because a bundle is
written before its decision and a failed save removes only an undecided bundle (`DecisionsOK`).

Only model-checked: liveness (`RequestsResolved`, `HeldMessagesLeave`, `EventsArrive`, `CallsEnd`,
`PointsRetire`, `SaveEnds`, `RestoreEnds`, `Resumes`), as fairness and `ENABLED` are out of the
prover's reach; everything about the time manager;
`NoOvertaking` and `RestoreReproduces` of the synchronization points, which are about sequences
built by sorting and a fixed point of validation; and `TypeOK` of `SaveRestore`, which speaks of
the bounds.

## Not modelled

* Ownership, object and region management: large tables with protocols of their own;
  only their admission and delivery are here.  Of declaration management the subscription to one interaction
  class is modelled.  The management object model only reports.
* The grants a scheduled save cuts at its time, and the rekeying of the outbox's recipient
  states at a restore beside concurrent senders: `SaveRestore` and the other models are not composed, as
  the product is out of TLC's reach at bounds where anything happens.  For the same reason the
  evaluator lease that `OnFederationDestroyed` of the time manager drops is not checked against the
  re-creation of a federation.
* Of the delivery retry worker its start and close, its order over several federations and the leases it
  takes; of federation destruction in the time manager everything.
* Identifier allocation of retractions, deferred object deletions in the time queues, the Float64
  binding, a flush interval of zero.
* The retry of terminal save callbacks, validation of client state and object models in a bundle,
  file formats and checksums.
* gRPC, protobuf, the federate libraries in Go, Java, C++ and Python, FOM parsing and
  encodings: marshalling and I/O, which are most of the repository's lines.
