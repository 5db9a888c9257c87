------------------------------- MODULE Outbox -------------------------------
(***************************************************************************)
(* The callback outbox of one federation (rti/internal/adapters/delivery). *)
(*                                                                         *)
(* A recipient state owns a bounded channel of batches, a scratch batch    *)
(* that collects events below BatchSize, a deferred-flush timer and a      *)
(* mutex.  subs maps each federate to its current state; a state that was  *)
(* unmapped lives on until it is closed, and callers that loaded the map   *)
(* earlier still hold it.                                                  *)
(*                                                                         *)
(* A reservation locks its recipients in handle order, simulates the       *)
(* batching of its deliveries, and keeps the locks until Commit or         *)
(* Release.  The stream that reads a channel takes no lock, so it runs     *)
(* between any two of these steps.                                         *)
(*                                                                         *)
(* flushGen only tells a callback whether its snapshot is still the        *)
(* current generation: snap counts the callbacks whose snapshot is, and    *)
(* one that is not does nothing when it gets the lock.                     *)
(***************************************************************************)
EXTENDS Integers, Sequences, FiniteSets

CONSTANTS
  N,            \* federates; their handles are 1..N
  NStates,      \* bound on recipient states ever created
  Callers,      \* goroutines that send or reserve
  Free,         \* holder of an unlocked mutex
  BatchSize,    \* events in a full batch
  BufferSize,   \* batches a channel holds
  Sends,        \* deliveries sent on their own in this instance
  Requests,     \* sequences of deliveries reserved together
  Closers,      \* ways a state is taken out of service
  MaxEvents     \* no new call once a state accepted this many events

ASSUME NAssumption == N \in Nat \ {0}
ASSUME NStatesAssumption == NStates \in Nat \ {0}
ASSUME CallersAssumption == Free \notin Callers
ASSUME SizeAssumption == BatchSize \in Nat \ {0} /\ BufferSize \in Nat \ {0}

Handles == 1..N
States == 1..NStates
None == 0
Delivery == [to : Handles, grant : BOOLEAN]

ASSUME CallAssumption == /\ Sends \subseteq Delivery
                         /\ Requests \subseteq Seq(Delivery) \ {<< >>}
                         /\ Closers \subseteq {"unbind", "federation", "cancel"}
                         /\ MaxEvents \in Nat

VARIABLES
  subs,      \* the subscriber table: federate to state
  made,      \* states created so far
  key,       \* the federate a state was created for
  closed,    \* closed: no event is accepted any more
  closing,   \* unmapped by whom and not yet closed
  reader,    \* the state's stream runs
  ch,        \* the channel: queued batches of event numbers
  scratch,   \* the batch being filled
  armed,     \* flushArmed
  due,       \* the timer runs
  fired,     \* callbacks that have not read flushGen yet
  snap,      \* callbacks waiting for the mutex with the current flushGen
  lock,      \* holder of the state's mutex, between steps
  accepted,  \* events accepted, numbered from 1
  got,       \* event numbers the stream has read
  drops,     \* dropsTotal
  call       \* what each caller does

recipient == <<subs, made, key, closed, closing, reader>>
queue == <<ch, scratch, accepted>>
timer == <<armed, due, fired, snap>>
vars == <<recipient, queue, timer, lock, got, drops, call>>

NoCall == [pc |-> "idle", items |-> << >>, seen |-> [h \in Handles |-> None],
           plan |-> << >>, next |-> 1]

Init ==
  /\ subs = [h \in Handles |-> None]
  /\ made = 0
  /\ key = [s \in States |-> 1]
  /\ closed = [s \in States |-> FALSE]
  /\ closing = [s \in States |-> "no"]
  /\ reader = [s \in States |-> FALSE]
  /\ ch = [s \in States |-> << >>]
  /\ scratch = [s \in States |-> << >>]
  /\ armed = [s \in States |-> FALSE]
  /\ due = [s \in States |-> FALSE]
  /\ fired = [s \in States |-> 0]
  /\ snap = [s \in States |-> 0]
  /\ lock = [s \in States |-> Free]
  /\ accepted = [s \in States |-> 0]
  /\ got = [s \in States |-> << >>]
  /\ drops = [s \in States |-> 0]
  /\ call = [c \in Callers |-> NoCall]

-----------------------------------------------------------------------------
(* Subscriptions.  writeMu serialises them; Unbind keeps it until the state *)
(* is closed, UnbindFederation and a stream's cancel do not.               *)

WriteMuFree == \A s \in States : closing[s] # "unbind"

Create(h, reading) ==
  /\ made < NStates
  /\ made' = made + 1
  /\ key' = [key EXCEPT ![made + 1] = h]
  /\ reader' = [reader EXCEPT ![made + 1] = reading]
  /\ subs' = [subs EXCEPT ![h] = made + 1]
  /\ UNCHANGED <<closed, closing, queue, timer, lock, got, drops, call>>

Bind(h) ==
  /\ WriteMuFree
  /\ subs[h] = None
  /\ Create(h, FALSE)

Subscribe(h) ==
  /\ WriteMuFree
  /\ \/ subs[h] = None /\ Create(h, TRUE)
     \/ /\ subs[h] # None /\ lock[subs[h]] = Free
        /\ ~reader[subs[h]]
        /\ reader' = [reader EXCEPT ![subs[h]] = TRUE]
        /\ UNCHANGED <<subs, made, key, closed, closing, queue, timer, lock, got, drops, call>>

Unbind(h) ==
  /\ "unbind" \in Closers /\ WriteMuFree
  /\ subs[h] # None
  /\ subs' = [subs EXCEPT ![h] = None]
  /\ closing' = [closing EXCEPT ![subs[h]] = "unbind"]
  /\ UNCHANGED <<made, key, closed, reader, queue, timer, lock, got, drops, call>>

UnbindFederation ==
  /\ "federation" \in Closers /\ WriteMuFree
  /\ \E h \in Handles : subs[h] # None
  /\ subs' = [h \in Handles |-> None]
  /\ closing' = [s \in States |-> IF \E h \in Handles : subs[h] = s
                                    THEN "federation" ELSE closing[s]]
  /\ UNCHANGED <<made, key, closed, reader, queue, timer, lock, got, drops, call>>

\* The stream has ended; a state unbound meanwhile is left to its closer.
Cancel(s) ==
  /\ "cancel" \in Closers /\ WriteMuFree
  /\ reader[s]
  /\ reader' = [reader EXCEPT ![s] = FALSE]
  /\ IF subs[key[s]] = s
       THEN /\ subs' = [subs EXCEPT ![key[s]] = None]
            /\ closing' = [closing EXCEPT ![s] = "cancel"]
       ELSE UNCHANGED <<subs, closing>>
  /\ UNCHANGED <<made, key, closed, queue, timer, lock, got, drops, call>>

-----------------------------------------------------------------------------
(* The deferred-flush timer.                                               *)

\* Mutant: a retained scratch is left to the next event.
armFlush_Never(s, batch) == UNCHANGED timer

\* batch is the scratch the state has afterwards.
armFlush(s, batch) ==
  IF closed[s] \/ batch = << >> \/ armed[s]
    THEN UNCHANGED timer
    ELSE /\ armed' = [armed EXCEPT ![s] = TRUE]
         /\ due' = [due EXCEPT ![s] = TRUE]
         /\ snap' = [snap EXCEPT ![s] = 0]
         /\ UNCHANGED fired

disarmFlush(s) ==
  IF ~armed[s] THEN UNCHANGED timer
  ELSE /\ armed' = [armed EXCEPT ![s] = FALSE]
       /\ due' = [due EXCEPT ![s] = FALSE]
       /\ snap' = [snap EXCEPT ![s] = 0]
       /\ UNCHANGED fired

\* The timer runs off and starts its callback.
Fire(s) ==
  /\ due[s]
  /\ due' = [due EXCEPT ![s] = FALSE]
  /\ fired' = [fired EXCEPT ![s] = @ + 1]
  /\ UNCHANGED <<recipient, queue, armed, snap, lock, got, drops, call>>

\* The callback reads flushGen, then waits for the mutex.
SnapshotGeneration(s) ==
  /\ fired[s] > 0
  /\ fired' = [fired EXCEPT ![s] = @ - 1]
  /\ snap' = [snap EXCEPT ![s] = @ + 1]
  /\ UNCHANGED <<recipient, queue, armed, due, lock, got, drops, call>>

\* Mutants: a full channel ends the deferred flush; or loses the batch.
flushScratch_Forgets(s) ==
  /\ snap[s] > 0 /\ lock[s] = Free
  /\ snap' = [snap EXCEPT ![s] = 0]
  /\ armed' = [armed EXCEPT ![s] = FALSE]
  /\ IF scratch[s] # << >> /\ Len(ch[s]) < BufferSize
       THEN /\ ch' = [ch EXCEPT ![s] = Append(@, scratch[s])]
            /\ scratch' = [scratch EXCEPT ![s] = << >>]
       ELSE UNCHANGED <<ch, scratch>>
  /\ UNCHANGED <<recipient, accepted, due, fired, lock, got, drops, call>>

flushScratch_Drops(s) ==
  /\ snap[s] > 0 /\ lock[s] = Free
  /\ snap' = [snap EXCEPT ![s] = 0]
  /\ armed' = [armed EXCEPT ![s] = FALSE]
  /\ ch' = [ch EXCEPT ![s] = IF scratch[s] # << >> /\ Len(@) < BufferSize
                               THEN Append(@, scratch[s]) ELSE @]
  /\ scratch' = [scratch EXCEPT ![s] = << >>]
  /\ UNCHANGED <<recipient, accepted, due, fired, lock, got, drops, call>>

flushScratch(s) ==
  /\ snap[s] > 0 /\ lock[s] = Free
  /\ IF closed[s] \/ ~armed[s]
       THEN /\ snap' = [snap EXCEPT ![s] = @ - 1]
            /\ UNCHANGED <<queue, armed, due>>
       ELSE /\ snap' = [snap EXCEPT ![s] = 0]
            /\ IF scratch[s] # << >> /\ Len(ch[s]) = BufferSize
                 THEN /\ due' = [due EXCEPT ![s] = TRUE]        \* armed again
                      /\ UNCHANGED <<queue, armed>>
                 ELSE /\ armed' = [armed EXCEPT ![s] = FALSE]
                      /\ ch' = [ch EXCEPT ![s] =
                                  IF scratch[s] = << >> THEN @ ELSE Append(@, scratch[s])]
                      /\ scratch' = [scratch EXCEPT ![s] = << >>]
                      /\ UNCHANGED <<due, accepted>>
  /\ UNCHANGED <<recipient, fired, lock, got, drops, call>>

\* Mutant: closing does not wait for the mutex.
closeRecipientState_NoLock(s) ==
  /\ closing[s] # "no"
  /\ closing' = [closing EXCEPT ![s] = "no"]
  /\ closed' = [closed EXCEPT ![s] = TRUE]
  /\ scratch' = [scratch EXCEPT ![s] = << >>]
  /\ disarmFlush(s)
  /\ UNCHANGED <<subs, made, key, reader, ch, accepted, lock, got, drops, call>>

closeRecipientState(s) ==
  /\ closing[s] # "no" /\ lock[s] = Free
  /\ closing' = [closing EXCEPT ![s] = "no"]
  /\ closed' = [closed EXCEPT ![s] = TRUE]
  /\ LET last == closing[s] = "cancel" /\ scratch[s] # << >>
     IN /\ ch' = [ch EXCEPT ![s] = IF last /\ Len(@) < BufferSize
                                     THEN Append(@, scratch[s]) ELSE @]
        /\ drops' = [drops EXCEPT ![s] = IF last /\ Len(ch[s]) = BufferSize
                                           THEN @ + Len(scratch[s]) ELSE @]
  /\ scratch' = [scratch EXCEPT ![s] = << >>]
  /\ disarmFlush(s)
  /\ UNCHANGED <<subs, made, key, reader, accepted, lock, got, call>>

-----------------------------------------------------------------------------
(* Sending one event.                                                      *)

\* Mutant: a batch is closed one event late.
flushes_Late(s, grant) == grant \/ Len(scratch[s]) >= BatchSize

flushes(s, grant) == grant \/ Len(scratch[s]) + 1 >= BatchSize

availableLocked(s) ==
  (BufferSize - Len(ch[s])) * BatchSize + (BatchSize - 1) - Len(scratch[s])

\* The event joins the scratch, which goes to the channel when it is full or
\* the event is a grant.
Accept(s, grant) ==
  LET batch == Append(scratch[s], accepted[s] + 1)
  IN  /\ accepted' = [accepted EXCEPT ![s] = @ + 1]
      /\ IF flushes(s, grant) /\ Len(ch[s]) < BufferSize
           THEN /\ ch' = [ch EXCEPT ![s] = Append(@, batch)]
                /\ scratch' = [scratch EXCEPT ![s] = << >>]
                /\ disarmFlush(s)
           ELSE /\ scratch' = [scratch EXCEPT ![s] = batch]
                /\ UNCHANGED ch
                /\ IF flushes(s, grant) \/ scratch[s] # << >>
                     THEN UNCHANGED timer ELSE armFlush(s, batch)

\* Bound on new calls.
MoreEvents == \A s \in States : accepted[s] < MaxEvents

StartSend(c, item) ==
  /\ MoreEvents
  /\ call[c].pc = "idle" /\ subs[item.to] # None
  /\ call' = [call EXCEPT ![c] = [NoCall EXCEPT !.pc = "send", !.seen = subs,
                                                !.items = <<item>>]]
  /\ UNCHANGED <<recipient, queue, timer, lock, got, drops>>

Send(c) ==
  LET item == Head(call[c].items)
      s == call[c].seen[item.to]
      refused == closed[s] \/ availableLocked(s) < 1
  IN  /\ call[c].pc = "send" /\ lock[s] = Free
      /\ call' = [call EXCEPT ![c] = NoCall]
      /\ IF refused THEN UNCHANGED <<queue, timer>>
         ELSE IF flushes(s, item.grant) /\ Len(ch[s]) = BufferSize
           THEN UNCHANGED queue /\ armFlush(s, scratch[s])       \* taken back
           ELSE Accept(s, item.grant)
      /\ UNCHANGED <<recipient, lock, got, drops>>

-----------------------------------------------------------------------------
(* Reservations.                                                           *)

Wanted(c) == {call[c].items[i].to : i \in 1..Len(call[c].items)}
Mine(c) == {s \in States : lock[s] = c}
Locked(c) == {h \in Wanted(c) : call[c].seen[h] \in Mine(c)}
Unlocked(c) == [s \in States |-> IF lock[s] = c THEN Free ELSE lock[s]]
Least(S) == CHOOSE h \in S : \A k \in S : h <= k

StartReserve(c, items) ==
  /\ MoreEvents
  /\ call[c].pc = "idle"
  /\ call' = [call EXCEPT ![c] = [NoCall EXCEPT !.pc = "lock", !.seen = subs, !.items = items]]
  /\ UNCHANGED <<recipient, queue, timer, lock, got, drops>>

\* Reserve leaves with all its locks released.
Unwind(c) ==
  /\ lock' = Unlocked(c)
  /\ call' = [call EXCEPT ![c] = NoCall]

\* Mutant: recipients are locked in the order of the deliveries.
nextRecipient_ListOrder(c) ==
  LET open == {i \in 1..Len(call[c].items) : call[c].items[i].to \notin Locked(c)}
  IN  call[c].items[Least(open)].to

nextRecipient(c) == Least(Wanted(c) \ Locked(c))

lockRecipients(c) ==
  LET h == nextRecipient(c)
      s == call[c].seen[h]
  IN  /\ call[c].pc = "lock" /\ Wanted(c) # Locked(c)
      /\ s # None => lock[s] = Free
      /\ IF s = None \/ closed[s]
           THEN Unwind(c)
           ELSE lock' = [lock EXCEPT ![s] = c] /\ UNCHANGED call
      /\ UNCHANGED <<recipient, queue, timer, got, drops>>

\* All locks held: the simulation starts from the actual queues.  (For a single
\* delivery reserveSingle does the same without a copy of the queues.)
Reserve(c) ==
  /\ call[c].pc = "lock" /\ Wanted(c) = Locked(c)
  /\ call' = [call EXCEPT ![c].pc = "admit",
                          ![c].plan = <<[queued |-> [s \in States |-> Len(ch[s])],
                                         scratch |-> [s \in States |-> Len(scratch[s])]]>>]
  /\ UNCHANGED <<recipient, queue, timer, lock, got, drops>>

\* Mutant: a grant is not seen to close its batch.
fills_IgnoresGrant(p, s, grant) == p.scratch[s] + 1 >= BatchSize

\* Does a delivery complete a batch in the simulation?
fills(p, s, grant) == grant \/ p.scratch[s] + 1 >= BatchSize

\* One delivery of the simulation; the last one completes the reservation.
Admit(c) ==
  LET i == Len(call[c].plan)
      item == call[c].items[i]
      s == call[c].seen[item.to]
      p == call[c].plan[i]
      fill == fills(p, s, item.grant)
      after == [queued |-> [p.queued EXCEPT ![s] = IF fill THEN @ + 1 ELSE @],
                scratch |-> [p.scratch EXCEPT ![s] = IF fill THEN 0 ELSE @ + 1]]
  IN  /\ call[c].pc = "admit"
      /\ IF fill /\ p.queued[s] >= BufferSize
           THEN Unwind(c)
           ELSE /\ call' = [call EXCEPT ![c].plan = Append(@, after),
                                        ![c].pc = IF i = Len(call[c].items)
                                                    THEN "held" ELSE "admit"]
                /\ UNCHANGED lock
      /\ UNCHANGED <<recipient, queue, timer, got, drops>>

\* commitOutboxDeliveryLocked for the next delivery; the last one unlocks, and
\* so does one that overflows.
Commit(c) ==
  LET i == call[c].next
      item == call[c].items[i]
      s == call[c].seen[item.to]
  IN  /\ call[c].pc = "held"
      /\ Accept(s, item.grant)
      /\ IF i = Len(call[c].items) \/ (flushes(s, item.grant) /\ Len(ch[s]) = BufferSize)
           THEN Unwind(c)
           ELSE call' = [call EXCEPT ![c].next = i + 1] /\ UNCHANGED lock
      /\ UNCHANGED <<recipient, got, drops>>

Release(c) ==
  /\ call[c].pc = "held" /\ call[c].next = 1
  /\ Unwind(c)
  /\ UNCHANGED <<recipient, queue, timer, got, drops>>

-----------------------------------------------------------------------------
\* The stream takes a batch, also the remaining ones of a closed channel.
Read(s) ==
  /\ reader[s] /\ ch[s] # << >>
  /\ got' = [got EXCEPT ![s] = @ \o Head(ch[s])]
  /\ ch' = [ch EXCEPT ![s] = Tail(@)]
  /\ UNCHANGED <<recipient, scratch, accepted, timer, lock, drops, call>>

Subscription ==
  \/ \E h \in Handles : Bind(h) \/ Subscribe(h) \/ Unbind(h)
  \/ UnbindFederation
  \/ \E s \in States : Cancel(s) \/ closeRecipientState(s)

Deferred == \E s \in States : Fire(s) \/ SnapshotGeneration(s) \/ flushScratch(s)

Calls ==
  \E c \in Callers :
    \/ \E item \in Sends : StartSend(c, item)
    \/ Send(c)
    \/ \E items \in Requests : StartReserve(c, items)
    \/ lockRecipients(c)
    \/ Reserve(c)
    \/ Admit(c)
    \/ Commit(c)
    \/ Release(c)

Next == Subscription \/ Deferred \/ Calls \/ \E s \in States : Read(s)

Spec == Init /\ [][Next]_vars

-----------------------------------------------------------------------------
(* Properties.                                                             *)

Plan == [queued : [States -> Nat], scratch : [States -> Nat]]
Call == [pc : {"idle", "send", "lock", "admit", "held"}, items : Seq(Delivery),
         seen : [Handles -> States \cup {None}], plan : Seq(Plan), next : Nat \ {0}]

\* The tables hold what the code's types allow, a channel never holds more than
\* its buffer, and a scratch kept between steps is shorter than a batch.
TypeOK ==
  /\ subs \in [Handles -> States \cup {None}]
  /\ made \in 0..NStates
  /\ key \in [States -> Handles]
  /\ closed \in [States -> BOOLEAN]
  /\ closing \in [States -> {"no", "unbind", "federation", "cancel"}]
  /\ reader \in [States -> BOOLEAN]
  /\ ch \in [States -> Seq(Seq(Nat))]
  /\ scratch \in [States -> Seq(Nat)]
  /\ armed \in [States -> BOOLEAN]
  /\ due \in [States -> BOOLEAN]
  /\ fired \in [States -> Nat]
  /\ snap \in [States -> Nat]
  /\ lock \in [States -> Callers \cup {Free}]
  /\ accepted \in [States -> Nat]
  /\ got \in [States -> Seq(Nat)]
  /\ drops \in [States -> Nat]
  /\ call \in [Callers -> Call]
  /\ \A s \in States : Len(ch[s]) <= BufferSize /\ Len(scratch[s]) < BatchSize

\* No accepted event is stranded in a scratch batch: while its state is open
\* the deferred flush is armed, and the timer or one of its callbacks that the
\* generation check will let through is still to come, whatever arms, disarms
\* and stale fires went before.
NothingStranded ==
  \A s \in States :
    ~closed[s] /\ scratch[s] # << >> => armed[s] /\ (due[s] \/ fired[s] > 0 \/ snap[s] > 0)

\* What Reserve admitted, Commit can deliver: a commit that completes a batch
\* finds a free channel slot, although grants close batches early and the
\* simulation ran on lengths read before the append.
ReservationHolds ==
  \A c \in Callers : call[c].pc = "held" =>
    LET item == call[c].items[call[c].next]
        s == call[c].seen[item.to]
    IN  flushes(s, item.grant) => Len(ch[s]) < BufferSize

\* The number of the last event in what was read and in the first k batches.
End(s, k) == IF k = 0 THEN Len(got[s]) ELSE ch[s][k][Len(ch[s][k])]
Follows(batch, n) == \A i \in 1..Len(batch) : batch[i] = n + i

\* The events of a state are read once each in the order they were accepted,
\* and while the state is open none is missing between the stream, the channel
\* and the scratch.
InOrder ==
  \A s \in States :
    /\ Follows(got[s], 0)
    /\ \A k \in 1..Len(ch[s]) : ch[s][k] # << >> /\ Follows(ch[s][k], End(s, k - 1))
    /\ Follows(scratch[s], End(s, Len(ch[s])))
    /\ ~closed[s] => End(s, Len(ch[s])) + Len(scratch[s]) = accepted[s]

\* A reservation in progress keeps the mutex of every recipient it has passed
\* and waits only for a later one, so reservations cannot wait in a circle.
OrderedLocks ==
  \A c \in Callers : \A s \in Mine(c) :
    /\ ~closed[s]
    /\ \E h \in Wanted(c) : call[c].seen[h] = s
    /\ call[c].pc = "lock" =>
         \A h \in Wanted(c) \ Locked(c) : key[s] < h

Fairness ==
  /\ \A s \in States : /\ WF_vars(Fire(s))
                       /\ WF_vars(SnapshotGeneration(s))
                       /\ SF_vars(flushScratch(s))
                       /\ SF_vars(closeRecipientState(s))
                       /\ WF_vars(Read(s))
  /\ \A c \in Callers : /\ SF_vars(Send(c))
                        /\ SF_vars(lockRecipients(c))
                        /\ WF_vars(Reserve(c))
                        /\ WF_vars(Admit(c))
                        /\ WF_vars(Commit(c) \/ Release(c))

FairSpec == Spec /\ Fairness

\* Every call of Send or Reserve ends: no circle of waiting reservations, and no
\* reservation keeps its recipients for ever.
CallsEnd == \A c \in Callers : call[c].pc # "idle" ~> call[c].pc = "idle"

\* An accepted event is read, unless its state is closed or its stream ends.
EventsArrive ==
  \A s \in States :
    (reader[s] /\ scratch[s] # << >>) ~> (~reader[s] \/ closed[s] \/ Len(got[s]) = accepted[s])

=============================================================================
