----------------------------- MODULE OutboxProofs -----------------------------
(***************************************************************************)
(* Proofs about Outbox for every number of federates, states and callers,  *)
(* every batch and buffer size: no batch is stranded, reservations wait for*)
(* each other in handle order only, and no event is lost, repeated or      *)
(* overtaken between acceptance and the stream.                            *)
(***************************************************************************)
EXTENDS Outbox, TLAPS, NaturalsInduction, WellFoundedInduction

\* The armed flush of an open state has a timer or a callback to come.
TimerLive ==
  \A s \in States : ~closed[s] /\ armed[s] => due[s] \/ fired[s] > 0 \/ snap[s] > 0

\* An open state with a scratch is armed.
ScratchArmed ==
  \A s \in States : ~closed[s] /\ scratch[s] # << >> => armed[s]

\* A reservation past its locking holds the mutex of each of its recipients.
HoldsLocks(c) ==
  call[c].pc \in {"admit", "held"} =>
    \A i \in 1..Len(call[c].items) :
      /\ call[c].seen[call[c].items[i].to] \in States
      /\ lock[call[c].seen[call[c].items[i].to]] = c

\* How far simulation and commit have come.
PlanProgress(c) ==
  /\ call[c].pc # "idle" => Len(call[c].items) > 0
  /\ call[c].pc = "send" => call[c].seen[call[c].items[1].to] \in States
  /\ call[c].pc # "held" => call[c].next = 1
  /\ call[c].pc = "admit" => Len(call[c].plan) \in 1..Len(call[c].items)
  /\ call[c].pc = "held" => /\ Len(call[c].plan) = Len(call[c].items) + 1
                            /\ call[c].next <= Len(call[c].items)

\* The simulated lengths before and after one delivery.
PlanStep(p, q, s, grant) ==
  /\ fills(p, s, grant) => p.queued[s] < BufferSize
  /\ q.queued = [p.queued EXCEPT ![s] = IF fills(p, s, grant) THEN @ + 1 ELSE @]
  /\ q.scratch = [p.scratch EXCEPT ![s] = IF fills(p, s, grant) THEN 0 ELSE @ + 1]

PlanSteps(c) ==
  call[c].pc \in {"admit", "held"} =>
    \A i \in 1..(Len(call[c].plan) - 1) :
      PlanStep(call[c].plan[i], call[c].plan[i + 1],
               call[c].seen[call[c].items[i].to], call[c].items[i].grant)

\* The queues a reservation holds are as simulated, or shorter by what was read.
PlanHolds(c) ==
  call[c].pc \in {"admit", "held"} =>
    \A s \in States : lock[s] = c =>
      /\ Len(ch[s]) <= call[c].plan[call[c].next].queued[s]
      /\ Len(scratch[s]) = call[c].plan[call[c].next].scratch[s]

CallerOK(c) == HoldsLocks(c) /\ PlanProgress(c) /\ PlanSteps(c) /\ PlanHolds(c)

IInv ==
  /\ TypeOK /\ TimerLive /\ ScratchArmed
  /\ \A c \in Callers : CallerOK(c)

\* Nothing is stranded: an armed flush is live and an open scratch is armed.
LEMMA StrandedFromInv == IInv => NothingStranded
  BY DEF IInv, NothingStranded, TimerLive, ScratchArmed

\* The next commit of a reservation fits: its queue is no longer than simulated.
LEMMA FitsFromInv == IInv => ReservationHolds
<1> SUFFICES ASSUME IInv, NEW c \in Callers, call[c].pc = "held"
             PROVE  LET item == call[c].items[call[c].next]
                        s == call[c].seen[item.to]
                    IN  flushes(s, item.grant) => Len(ch[s]) < BufferSize
  BY Zenon DEF ReservationHolds
<1> DEFINE i == call[c].next
           item == call[c].items[i]
           s == call[c].seen[item.to]
<1>1. call[c] \in Call
  BY DEF IInv, TypeOK
<1>2. /\ i \in 1..Len(call[c].items)
      /\ i \in 1..(Len(call[c].plan) - 1)
      /\ i \in 1..Len(call[c].plan)
  BY <1>1, SMTT(30) DEF IInv, CallerOK, PlanProgress, Call
<1>3. s \in States /\ lock[s] = c
  BY <1>2, Zenon DEF IInv, CallerOK, HoldsLocks
<1>4. /\ Len(ch[s]) <= call[c].plan[i].queued[s]
      /\ Len(scratch[s]) = call[c].plan[i].scratch[s]
  BY <1>3, Zenon DEF IInv, CallerOK, PlanHolds
<1>5. fills(call[c].plan[i], s, item.grant) => call[c].plan[i].queued[s] < BufferSize
  BY <1>2, Zenon DEF IInv, CallerOK, PlanSteps, PlanStep
<1>6. call[c].plan[i] \in Plan
  BY <1>1, <1>2 DEF Call
<1>7. call[c].plan[i].queued[s] \in Nat
  BY <1>3, <1>6, Zenon DEF Plan
<1>8. flushes(s, item.grant) => call[c].plan[i].queued[s] < BufferSize
  BY <1>4, <1>5, Zenon DEF flushes, fills
<1> HIDE DEF s
<1>9. ch[s] \in Seq(Seq(Nat))
  BY <1>3 DEF IInv, TypeOK
<1>10. Len(ch[s]) \in Nat
  BY <1>9
<1>11. ASSUME NEW a \in Nat, NEW b \in Nat, a <= b, b < BufferSize
       PROVE  a < BufferSize
  BY <1>11, SizeAssumption
<1> QED
  BY <1>4, <1>7, <1>8, <1>10, <1>11, Zenon DEF s

\* The initial state satisfies the invariant.
LEMMA InitInv == Init => IInv
<1> SUFFICES ASSUME Init PROVE IInv
  OBVIOUS
<1>1. NoCall \in Call
  BY DEF NoCall, Call, Delivery
<1>2. TypeOK
  BY <1>1, SizeAssumption, NAssumption, NStatesAssumption
     DEF Init, TypeOK, Handles, States, None
<1>3. TimerLive /\ ScratchArmed
  BY DEF Init, TimerLive, ScratchArmed
<1>4. \A c \in Callers : CallerOK(c)
  BY DEF Init, NoCall, CallerOK, HoldsLocks, PlanProgress, PlanSteps, PlanHolds
<1> QED
  BY <1>2, <1>3, <1>4 DEF IInv

-----------------------------------------------------------------------------
(* Facts about the steps' parts.                                           *)

TimerTypes ==
  /\ armed \in [States -> BOOLEAN] /\ due \in [States -> BOOLEAN]
  /\ fired \in [States -> Nat] /\ snap \in [States -> Nat]

\* armFlush leaves the state armed if it is open and keeps a scratch.
LEMMA ArmStep ==
  ASSUME TimerTypes, TimerLive, NEW s \in States, NEW batch, armFlush(s, batch),
         closed' = closed
  PROVE  /\ TimerTypes' /\ TimerLive'
         /\ closed[s] \/ batch = << >> \/ armed'[s]
         /\ \A t \in States : armed[t] => armed'[t]
<1>1. CASE closed[s] \/ batch = << >> \/ armed[s]
  BY <1>1 DEF TimerTypes, TimerLive, armFlush, timer
<1>2. CASE ~(closed[s] \/ batch = << >> \/ armed[s])
  <2>1. /\ armed' = [armed EXCEPT ![s] = TRUE] /\ due' = [due EXCEPT ![s] = TRUE]
        /\ snap' = [snap EXCEPT ![s] = 0] /\ fired' = fired
    BY <1>2 DEF armFlush
  <2>2. TimerTypes' /\ armed'[s] /\ due'[s]
    BY <2>1 DEF TimerTypes
  <2>3. \A t \in States \ {s} : /\ armed'[t] = armed[t] /\ due'[t] = due[t]
                                /\ fired'[t] = fired[t] /\ snap'[t] = snap[t]
    BY <2>1 DEF TimerTypes
  <2> QED
    BY <2>2, <2>3 DEF TimerLive
<1> QED
  BY <1>1, <1>2

\* disarmFlush concerns one state.
LEMMA DisarmStep ==
  ASSUME TimerTypes, TimerLive, NEW s \in States, disarmFlush(s),
         \A t \in States : closed[t] => closed'[t]
  PROVE  /\ TimerTypes' /\ TimerLive'
         /\ \A t \in States \ {s} : armed'[t] = armed[t]
<1>1. CASE ~armed[s]
  BY <1>1 DEF TimerTypes, TimerLive, disarmFlush, timer
<1>2. CASE armed[s]
  <2>1. /\ armed' = [armed EXCEPT ![s] = FALSE] /\ due' = [due EXCEPT ![s] = FALSE]
        /\ snap' = [snap EXCEPT ![s] = 0] /\ fired' = fired
    BY <1>2 DEF disarmFlush
  <2>2. TimerTypes' /\ ~armed'[s]
    BY <2>1 DEF TimerTypes
  <2>3. \A t \in States \ {s} : /\ armed'[t] = armed[t] /\ due'[t] = due[t]
                                /\ fired'[t] = fired[t] /\ snap'[t] = snap[t]
    BY <2>1 DEF TimerTypes
  <2> QED
    BY <2>2, <2>3 DEF TimerLive
<1> QED
  BY <1>1, <1>2

\* An accepted event that finds room leaves lengths, timer and bounds in order.
LEMMA AcceptStep ==
  ASSUME TypeOK, TimerLive, ScratchArmed, NEW s \in States, NEW grant \in BOOLEAN,
         flushes(s, grant) => Len(ch[s]) < BufferSize,
         Accept(s, grant), closed' = closed
  PROVE  /\ ch' \in [States -> Seq(Seq(Nat))] /\ scratch' \in [States -> Seq(Nat)]
         /\ accepted' \in [States -> Nat]
         /\ TimerTypes' /\ TimerLive' /\ ScratchArmed'
         /\ \A t \in States : Len(ch'[t]) <= BufferSize /\ Len(scratch'[t]) < BatchSize
         /\ \A t \in States \ {s} : ch'[t] = ch[t] /\ scratch'[t] = scratch[t]
         /\ Len(ch'[s]) = Len(ch[s]) + (IF flushes(s, grant) THEN 1 ELSE 0)
         /\ Len(scratch'[s]) = IF flushes(s, grant) THEN 0 ELSE Len(scratch[s]) + 1
<1> DEFINE batch == Append(scratch[s], accepted[s] + 1)
<1>1. /\ ch \in [States -> Seq(Seq(Nat))] /\ scratch \in [States -> Seq(Nat)]
      /\ accepted \in [States -> Nat] /\ TimerTypes
      /\ \A t \in States : Len(ch[t]) <= BufferSize /\ Len(scratch[t]) < BatchSize
  BY Zenon DEF TypeOK, TimerTypes
<1>2. batch \in Seq(Nat) /\ batch # << >> /\ Len(batch) = Len(scratch[s]) + 1
  <2>1. scratch[s] \in Seq(Nat) /\ accepted[s] + 1 \in Nat
    BY <1>1
  <2> QED
    BY <2>1
<1>3. accepted' = [accepted EXCEPT ![s] = @ + 1]
  BY DEF Accept
<1> HIDE DEF batch
<1>4. CASE flushes(s, grant)
  <2>1. /\ ch' = [ch EXCEPT ![s] = Append(@, batch)]
        /\ scratch' = [scratch EXCEPT ![s] = << >>]
        /\ disarmFlush(s)
    BY <1>4 DEF Accept, batch
  <2>2. TimerTypes' /\ TimerLive' /\ \A t \in States \ {s} : armed'[t] = armed[t]
    BY <1>1, <2>1, DisarmStep
  <2>3. ScratchArmed'
    BY <1>1, <2>1, <2>2, Zenon DEF ScratchArmed
  <2> QED
    BY <1>1, <1>2, <1>3, <1>4, <2>1, <2>2, <2>3, SizeAssumption, SMTT(30)
<1>5. CASE ~flushes(s, grant)
  <2>1. scratch' = [scratch EXCEPT ![s] = batch] /\ ch' = ch
    BY <1>5 DEF Accept, batch
  <2>2. IF scratch[s] # << >> THEN UNCHANGED timer ELSE armFlush(s, batch)
    BY <1>5 DEF Accept, batch
  <2>3. /\ TimerTypes' /\ TimerLive'
        /\ \A t \in States : armed[t] => armed'[t]
        /\ closed[s] \/ armed'[s]
    <3>1. CASE scratch[s] # << >>
      BY <1>1, <2>2, <3>1 DEF timer, TimerTypes, TimerLive, ScratchArmed
    <3>2. CASE scratch[s] = << >>
      BY <1>1, <1>2, <2>2, <3>2, ArmStep
    <3> QED
      BY <3>1, <3>2
  <2>4. ScratchArmed'
    BY <1>1, <2>1, <2>3 DEF ScratchArmed
  <2>5. Len(scratch[s]) + 1 < BatchSize
    BY <1>1, <1>5, SizeAssumption DEF flushes
  <2> QED
    BY <1>1, <1>2, <1>3, <1>5, <2>1, <2>3, <2>4, <2>5, SizeAssumption
<1> QED
  BY <1>4, <1>5, Zenon

\* A caller that does not move, and whose locks stay, keeps its invariant when
\* its queues get no longer.
LEMMA CallerFrame ==
  ASSUME TypeOK, NEW d \in Callers, CallerOK(d),
         call'[d] = call[d],
         \A s \in States : lock'[s] = d <=> lock[s] = d,
         \A s \in States : lock[s] = d => /\ Len(ch'[s]) <= Len(ch[s])
                                          /\ Len(scratch'[s]) = Len(scratch[s]),
         ch' \in [States -> Seq(Seq(Nat))]
  PROVE  CallerOK(d)'
<1>1. HoldsLocks(d)' /\ PlanProgress(d)' /\ PlanSteps(d)'
  BY Zenon DEF CallerOK, HoldsLocks, PlanProgress, PlanSteps, PlanStep, fills
<1>2. ASSUME call[d].pc \in {"admit", "held"}, NEW s \in States, lock[s] = d
      PROVE  /\ Len(ch'[s]) <= call[d].plan[call[d].next].queued[s]
             /\ Len(scratch'[s]) = call[d].plan[call[d].next].scratch[s]
  <2>1. call[d].next \in 1..Len(call[d].plan)
    BY <1>2, SMTT(30) DEF CallerOK, PlanProgress, TypeOK, Call
  <2>2. call[d].plan[call[d].next].queued[s] \in Nat
    <3>1. call[d].plan \in Seq(Plan)
      BY DEF TypeOK, Call
    <3>2. call[d].plan[call[d].next] \in Plan
      BY <2>1, <3>1
    <3> QED
      BY <3>2, Zenon DEF Plan
  <2>3. Len(ch[s]) <= call[d].plan[call[d].next].queued[s]
    BY <1>2 DEF CallerOK, PlanHolds
  <2>4. Len(ch[s]) \in Nat /\ Len(ch'[s]) \in Nat
    BY SMTT(30) DEF TypeOK
  <2>5. ASSUME NEW x \in Nat, NEW y \in Nat, NEW z \in Nat, x <= y, y <= z
        PROVE  x <= z
    BY <2>5
  <2>6. Len(ch'[s]) <= call[d].plan[call[d].next].queued[s]
    BY <1>2, <2>2, <2>3, <2>4, <2>5
  <2> QED
    BY <1>2, <2>6 DEF CallerOK, PlanHolds
<1>3. PlanHolds(d)'
  BY <1>2 DEF PlanHolds
<1> QED
  BY <1>1, <1>3 DEF CallerOK

\* A subscription step that closes nothing keeps the invariant.
LEMMA RecipientStep ==
  ASSUME IInv, UNCHANGED <<closed, queue, timer, lock, got, drops, call>>,
         subs' \in [Handles -> States \cup {None}], made' \in 0..NStates,
         key' \in [States -> Handles], reader' \in [States -> BOOLEAN],
         closing' \in [States -> {"no", "unbind", "federation", "cancel"}]
  PROVE  IInv'
<1>1. TypeOK'
  BY DEF IInv, TypeOK, queue, timer
<1>2. TimerLive' /\ ScratchArmed'
  BY DEF IInv, TimerLive, ScratchArmed, queue, timer
<1>3. ASSUME NEW d \in Callers PROVE CallerOK(d)'
  <2>1. \A s \in States : Len(ch[s]) \in Nat /\ Len(scratch[s]) \in Nat
    BY DEF IInv, TypeOK
  <2>2. ch' \in [States -> Seq(Seq(Nat))]
    BY DEF IInv, TypeOK, queue
  <2> QED
    BY <2>1, <2>2, CallerFrame DEF IInv, queue
<1> QED
  BY <1>1, <1>2, <1>3 DEF IInv

\* A step of one caller that touches no queue keeps the invariant if it keeps
\* that caller's part.
LEMMA CallerStep ==
  ASSUME IInv, UNCHANGED <<recipient, queue, timer, got, drops>>,
         NEW c \in Callers,
         call' \in [Callers -> Call], lock' \in [States -> Callers \cup {Free}],
         \A d \in Callers \ {c} : /\ call'[d] = call[d]
                                  /\ \A s \in States : lock'[s] = d <=> lock[s] = d,
         CallerOK(c)'
  PROVE  IInv'
<1>1. TypeOK'
  BY Zenon DEF IInv, TypeOK, queue, timer, recipient
<1>2. TimerLive' /\ ScratchArmed'
  BY DEF IInv, TimerLive, ScratchArmed, queue, timer, recipient
<1>3. ASSUME NEW d \in Callers \ {c} PROVE CallerOK(d)'
  <2>1. \A s \in States : Len(ch[s]) \in Nat /\ Len(scratch[s]) \in Nat
    BY DEF IInv, TypeOK
  <2>2. ch' \in [States -> Seq(Seq(Nat))]
    BY DEF IInv, TypeOK, queue
  <2> QED
    BY <2>1, <2>2, CallerFrame DEF IInv, queue
<1> QED
  BY <1>1, <1>2, <1>3 DEF IInv

\* Leaving a call: its locks are free and it is idle.
LEMMA UnwindStep ==
  ASSUME TypeOK, NEW c \in Callers, Unwind(c)
  PROVE  /\ call' \in [Callers -> Call] /\ lock' \in [States -> Callers \cup {Free}]
         /\ \A d \in Callers \ {c} : /\ call'[d] = call[d]
                                     /\ \A s \in States : lock'[s] = d <=> lock[s] = d
         /\ CallerOK(c)'
<1>1. NoCall \in Call
  BY DEF NoCall, Call, Delivery
<1>2. call' = [call EXCEPT ![c] = NoCall] /\ lock' = Unlocked(c)
  BY DEF Unwind
<1>3. call' \in [Callers -> Call] /\ lock' \in [States -> Callers \cup {Free}]
  BY <1>1, <1>2 DEF TypeOK, Unlocked
<1>4. \A d \in Callers \ {c} : call'[d] = call[d]
  BY <1>2 DEF TypeOK
<1>5. \A d \in Callers \ {c} : \A s \in States : lock'[s] = d <=> lock[s] = d
  BY <1>2, CallersAssumption DEF TypeOK, Unlocked
<1>6. call'[c] = NoCall
  BY <1>2 DEF TypeOK
<1>7. CallerOK(c)'
  BY <1>6 DEF NoCall, CallerOK, HoldsLocks, PlanProgress, PlanSteps, PlanHolds
<1> QED
  BY <1>3, <1>4, <1>5, <1>7

-----------------------------------------------------------------------------
(* One lemma per group of actions.                                         *)

\* Subscriptions map, unmap and mark states; none of them touches a queue.
LEMMA SubscriptionStep ==
  ASSUME IInv, NEW h \in Handles, NEW s \in States,
         Bind(h) \/ Subscribe(h) \/ Unbind(h) \/ UnbindFederation \/ Cancel(s)
  PROVE  IInv'
<1>1. /\ subs \in [Handles -> States \cup {None}] /\ made \in 0..NStates
      /\ key \in [States -> Handles] /\ reader \in [States -> BOOLEAN]
      /\ closing \in [States -> {"no", "unbind", "federation", "cancel"}]
  BY DEF IInv, TypeOK
<1>2. ASSUME NEW b \in BOOLEAN, Create(h, b) PROVE IInv'
  <2>1. made + 1 \in States /\ made + 1 \in 0..NStates
    BY <1>1, <1>2, NStatesAssumption DEF Create, States
  <2>2. /\ subs' \in [Handles -> States \cup {None}] /\ made' \in 0..NStates
        /\ key' \in [States -> Handles] /\ reader' \in [States -> BOOLEAN]
        /\ closing' \in [States -> {"no", "unbind", "federation", "cancel"}]
    BY <1>1, <1>2, <2>1 DEF Create
  <2> QED
    BY <1>2, <2>2, RecipientStep DEF Create
<1>3. CASE Bind(h)
  BY <1>2, <1>3, Zenon DEF Bind
<1>4. CASE Subscribe(h)
  <2>1. CASE Create(h, TRUE)
    BY <1>2, <2>1, Zenon
  <2>2. CASE ~Create(h, TRUE)
    <3>1. /\ subs[h] \in States
          /\ reader' = [reader EXCEPT ![subs[h]] = TRUE]
          /\ UNCHANGED <<subs, made, key, closed, closing, queue, timer, lock, got, drops, call>>
      BY <1>1, <1>4, <2>2, Zenon DEF Subscribe
    <3>2. reader' \in [States -> BOOLEAN]
      BY <1>1, <3>1
    <3> QED
      BY <1>1, <3>1, <3>2, RecipientStep
  <2> QED
    BY <2>1, <2>2, Zenon
<1>5. CASE Unbind(h)
  <2>1. /\ subs' = [subs EXCEPT ![h] = None]
        /\ closing' = [closing EXCEPT ![subs[h]] = "unbind"]
        /\ UNCHANGED <<made, key, closed, reader, queue, timer, lock, got, drops, call>>
    BY <1>5 DEF Unbind
  <2>2. /\ subs' \in [Handles -> States \cup {None}]
        /\ closing' \in [States -> {"no", "unbind", "federation", "cancel"}]
    BY <1>1, <2>1, Zenon
  <2> QED
    BY <1>1, <2>1, <2>2, RecipientStep
<1>6. CASE UnbindFederation
  <2>1. /\ subs' \in [Handles -> States \cup {None}]
        /\ closing' \in [States -> {"no", "unbind", "federation", "cancel"}]
    BY <1>1, <1>6 DEF UnbindFederation
  <2> QED
    BY <1>1, <1>6, <2>1, RecipientStep DEF UnbindFederation
<1>7. CASE Cancel(s)
  <2>1. reader' \in [States -> BOOLEAN]
    BY <1>1, <1>7 DEF Cancel
  <2>2. /\ subs' \in [Handles -> States \cup {None}]
        /\ closing' \in [States -> {"no", "unbind", "federation", "cancel"}]
    BY <1>1, <1>7 DEF Cancel
  <2> QED
    BY <1>1, <1>7, <2>1, <2>2, RecipientStep DEF Cancel
<1> QED
  BY <1>3, <1>4, <1>5, <1>6, <1>7

\* A step that changes at most the queues of one unlocked state keeps every
\* caller's part.
LEMMA CallersKeep ==
  ASSUME IInv, UNCHANGED <<call, lock>>,
         NEW s \in States,
         lock[s] = Free \/ (scratch'[s] = scratch[s] /\ Len(ch'[s]) <= Len(ch[s])),
         ch' \in [States -> Seq(Seq(Nat))],
         \A t \in States \ {s} : ch'[t] = ch[t] /\ scratch'[t] = scratch[t]
  PROVE  \A d \in Callers : CallerOK(d)'
<1> SUFFICES ASSUME NEW d \in Callers PROVE CallerOK(d)'
  OBVIOUS
<1>1. \A t \in States : Len(ch[t]) \in Nat
  BY DEF IInv, TypeOK
<1>2. \A t \in States : lock[t] = d => /\ Len(ch'[t]) <= Len(ch[t])
                                       /\ Len(scratch'[t]) = Len(scratch[t])
  <2> SUFFICES ASSUME NEW t \in States, lock[t] = d
               PROVE  Len(ch'[t]) <= Len(ch[t]) /\ Len(scratch'[t]) = Len(scratch[t])
    OBVIOUS
  <2>1. CASE t = s
    BY <2>1, CallersAssumption
  <2>2. CASE t # s
    BY <1>1, <2>2
  <2> QED
    BY <2>1, <2>2
<1> QED
  BY <1>2, CallerFrame DEF IInv

\* The timer runs off, a callback takes its snapshot.
LEMMA TimerStep ==
  ASSUME IInv, NEW s \in States, Fire(s) \/ SnapshotGeneration(s)
  PROVE  IInv'
<1>1. TimerTypes
  BY DEF IInv, TypeOK, TimerTypes
<1>2. UNCHANGED <<recipient, queue, armed, lock, got, drops, call>>
  BY DEF Fire, SnapshotGeneration
<1>3. TimerTypes' /\ TimerLive'
  <2>1. CASE Fire(s)
    <3>1. /\ due' = [due EXCEPT ![s] = FALSE] /\ fired' = [fired EXCEPT ![s] = @ + 1]
          /\ snap' = snap /\ armed' = armed
      BY <2>1 DEF Fire
    <3>2. TimerTypes'
      BY <1>1, <3>1 DEF TimerTypes
    <3>3. fired'[s] > 0
      BY <1>1, <3>1 DEF TimerTypes
    <3>4. \A t \in States \ {s} : due'[t] = due[t] /\ fired'[t] = fired[t]
      BY <1>1, <3>1 DEF TimerTypes
    <3> QED
      BY <1>2, <3>1, <3>2, <3>3, <3>4 DEF IInv, TimerLive, recipient
  <2>2. CASE SnapshotGeneration(s)
    <3>1. /\ fired' = [fired EXCEPT ![s] = @ - 1] /\ snap' = [snap EXCEPT ![s] = @ + 1]
          /\ due' = due /\ armed' = armed /\ fired[s] > 0
      BY <2>2 DEF SnapshotGeneration
    <3>2. TimerTypes' /\ snap'[s] > 0
      BY <1>1, <3>1 DEF TimerTypes
    <3>3. \A t \in States \ {s} : snap'[t] = snap[t] /\ fired'[t] = fired[t]
      BY <1>1, <3>1 DEF TimerTypes
    <3> QED
      BY <1>2, <3>1, <3>2, <3>3 DEF IInv, TimerLive, recipient
  <2> QED
    BY <2>1, <2>2
<1>4. TypeOK'
  BY <1>2, <1>3, Zenon DEF IInv, TypeOK, TimerTypes, recipient, queue
<1>5. ScratchArmed'
  BY <1>2 DEF IInv, ScratchArmed, recipient, queue
<1>6. ch' \in [States -> Seq(Seq(Nat))] /\ Len(ch[s]) \in Nat
  BY <1>2, SMTT(30) DEF IInv, TypeOK, queue
<1>7. \A d \in Callers : CallerOK(d)'
  BY <1>2, <1>6, CallersKeep DEF queue
<1> QED
  BY <1>3, <1>4, <1>5, <1>7 DEF IInv

\* A step on the queue of one unlocked state, which may end a call.
LEMMA QueueStep ==
  ASSUME IInv, NEW s \in States, lock[s] = Free,
         UNCHANGED <<subs, made, key, reader, lock>>,
         closed' \in [States -> BOOLEAN],
         closing' \in [States -> {"no", "unbind", "federation", "cancel"}],
         accepted' \in [States -> Nat], got' \in [States -> Seq(Nat)],
         drops' \in [States -> Nat], call' \in [Callers -> Call],
         TimerTypes', TimerLive', ScratchArmed',
         ch' \in [States -> Seq(Seq(Nat))], scratch' \in [States -> Seq(Nat)],
         Len(ch'[s]) <= BufferSize, Len(scratch'[s]) < BatchSize,
         \A t \in States \ {s} : ch'[t] = ch[t] /\ scratch'[t] = scratch[t],
         \A d \in Callers : call'[d] = call[d] \/ call'[d] = NoCall
  PROVE  IInv'
<1>1. \A t \in States : Len(ch'[t]) <= BufferSize /\ Len(scratch'[t]) < BatchSize
  BY Zenon DEF IInv, TypeOK
<1>2. TypeOK'
  BY <1>1, Zenon DEF IInv, TypeOK, TimerTypes
<1>3. ASSUME NEW d \in Callers PROVE CallerOK(d)'
  <2>1. CASE call'[d] = NoCall
    BY <2>1 DEF NoCall, CallerOK, HoldsLocks, PlanProgress, PlanSteps, PlanHolds
  <2>2. CASE call'[d] = call[d]
    <3>1. \A t \in States : ch[t] \in Seq(Seq(Nat))
      BY Zenon DEF IInv, TypeOK
    <3>2. \A t \in States : Len(ch[t]) \in Nat
      BY <3>1
    <3>3. \A t \in States : lock[t] = d => /\ Len(ch'[t]) <= Len(ch[t])
                                           /\ Len(scratch'[t]) = Len(scratch[t])
      <4> SUFFICES ASSUME NEW t \in States, lock[t] = d
                   PROVE  Len(ch'[t]) <= Len(ch[t]) /\ Len(scratch'[t]) = Len(scratch[t])
        OBVIOUS
      <4>1. t # s
        BY CallersAssumption
      <4>2. ch'[t] = ch[t] /\ scratch'[t] = scratch[t]
        BY <4>1
      <4> QED
        BY <3>2, <4>2
    <3> QED
      BY <2>2, <3>3, CallerFrame, Zenon DEF IInv
  <2> QED
    BY <2>1, <2>2, Zenon
<1> QED
  BY <1>2, <1>3 DEF IInv

\* The deferred flush hands over the scratch, or arms itself again.
LEMMA FlushStep ==
  ASSUME IInv, NEW s \in States, flushScratch(s)
  PROVE  IInv'
<1>1. /\ TimerTypes /\ ch \in [States -> Seq(Seq(Nat))] /\ scratch \in [States -> Seq(Nat)]
      /\ \A t \in States : Len(ch[t]) <= BufferSize /\ Len(scratch[t]) < BatchSize
  BY Zenon DEF IInv, TypeOK, TimerTypes
<1>2. /\ lock[s] = Free /\ snap[s] > 0
      /\ UNCHANGED <<subs, made, key, reader, closed, closing, accepted, fired, lock, got, drops, call>>
  BY DEF flushScratch, queue, recipient
<1>3. /\ closed' \in [States -> BOOLEAN]
      /\ closing' \in [States -> {"no", "unbind", "federation", "cancel"}]
      /\ accepted' \in [States -> Nat] /\ got' \in [States -> Seq(Nat)]
      /\ drops' \in [States -> Nat] /\ call' \in [Callers -> Call]
  BY <1>2 DEF IInv, TypeOK
<1>4. CASE closed[s] \/ ~armed[s]
  <2>1. snap' = [snap EXCEPT ![s] = @ - 1] /\ UNCHANGED <<ch, scratch, armed, due>>
    BY <1>4 DEF flushScratch, queue
  <2>2. TimerTypes' /\ \A t \in States \ {s} : snap'[t] = snap[t]
    BY <1>1, <1>2, <2>1, SMTT(30) DEF TimerTypes
  <2>3. TimerLive' /\ ScratchArmed'
    BY <1>2, <1>4, <2>1, <2>2 DEF IInv, TimerLive, ScratchArmed
  <2> QED
    BY <1>1, <1>2, <1>3, <2>1, <2>2, <2>3, QueueStep, Zenon
<1>5. CASE ~closed[s] /\ armed[s] /\ scratch[s] # << >> /\ Len(ch[s]) = BufferSize
  <2>1. /\ snap' = [snap EXCEPT ![s] = 0] /\ due' = [due EXCEPT ![s] = TRUE]
        /\ UNCHANGED <<ch, scratch, armed>>
    BY <1>5 DEF flushScratch, queue
  <2>2. /\ TimerTypes' /\ due'[s]
        /\ \A t \in States \ {s} : snap'[t] = snap[t] /\ due'[t] = due[t]
    BY <1>1, <1>2, <2>1, Zenon DEF TimerTypes
  <2>3. TimerLive' /\ ScratchArmed'
    BY <1>2, <2>1, <2>2 DEF IInv, TimerLive, ScratchArmed
  <2> QED
    BY <1>1, <1>2, <1>3, <2>1, <2>2, <2>3, QueueStep, Zenon
<1>6. CASE ~closed[s] /\ armed[s] /\ ~(scratch[s] # << >> /\ Len(ch[s]) = BufferSize)
  <2>1. /\ snap' = [snap EXCEPT ![s] = 0] /\ armed' = [armed EXCEPT ![s] = FALSE]
        /\ due' = due
        /\ ch' = [ch EXCEPT ![s] = IF scratch[s] = << >> THEN @ ELSE Append(@, scratch[s])]
        /\ scratch' = [scratch EXCEPT ![s] = << >>]
    BY <1>6 DEF flushScratch
  <2>2. /\ TimerTypes' /\ ~armed'[s]
        /\ \A t \in States \ {s} : snap'[t] = snap[t] /\ armed'[t] = armed[t]
    BY <1>1, <1>2, <2>1 DEF TimerTypes
  <2>3. /\ scratch' \in [States -> Seq(Nat)] /\ scratch'[s] = << >>
        /\ \A t \in States \ {s} : scratch'[t] = scratch[t]
    BY <1>1, <2>1
  <2>4. TimerLive' /\ ScratchArmed'
    BY <1>2, <2>1, <2>2, <2>3 DEF IInv, TimerLive, ScratchArmed
  <2>5. ch[s] \in Seq(Seq(Nat)) /\ scratch[s] \in Seq(Nat) /\ Len(ch[s]) <= BufferSize
    BY <1>1
  <2>6. /\ ch' \in [States -> Seq(Seq(Nat))]
        /\ \A t \in States \ {s} : ch'[t] = ch[t]
    BY <1>1, <2>1, <2>5
  <2>7. Len(ch'[s]) <= BufferSize
    <3>1. CASE scratch[s] = << >>
      BY <1>1, <2>1, <3>1, Zenon
    <3>2. CASE scratch[s] # << >>
      <4>1. ch'[s] = Append(ch[s], scratch[s])
        BY <1>1, <2>1, <3>2
      <4>2. Len(ch'[s]) = Len(ch[s]) + 1
        BY <2>5, <4>1
      <4>3. Len(ch[s]) \in Nat
        BY <2>5
      <4>4. ASSUME NEW a \in Nat, a <= BufferSize, a # BufferSize PROVE a + 1 <= BufferSize
        BY <4>4, SizeAssumption
      <4> QED
        BY <1>6, <2>5, <3>2, <4>2, <4>3, <4>4
    <3> QED
      BY <3>1, <3>2
  <2>8. Len(scratch'[s]) < BatchSize
    BY <2>3, SizeAssumption
  <2> QED
    BY <1>2, <1>3, <2>2, <2>3, <2>4, <2>6, <2>7, <2>8, QueueStep, Zenon
<1> QED
  BY <1>1, <1>4, <1>5, <1>6 DEF TimerTypes

\* A state is closed under its mutex and keeps no scratch.
LEMMA CloseStep ==
  ASSUME IInv, NEW s \in States, closeRecipientState(s)
  PROVE  IInv'
<1>1. /\ TimerTypes /\ ch \in [States -> Seq(Seq(Nat))] /\ scratch \in [States -> Seq(Nat)]
      /\ closed \in [States -> BOOLEAN] /\ drops \in [States -> Nat]
      /\ closing \in [States -> {"no", "unbind", "federation", "cancel"}]
      /\ \A t \in States : Len(ch[t]) <= BufferSize /\ Len(scratch[t]) < BatchSize
  BY Zenon DEF IInv, TypeOK, TimerTypes
<1>2. /\ lock[s] = Free /\ disarmFlush(s)
      /\ closing' = [closing EXCEPT ![s] = "no"] /\ closed' = [closed EXCEPT ![s] = TRUE]
      /\ scratch' = [scratch EXCEPT ![s] = << >>]
      /\ UNCHANGED <<subs, made, key, reader, accepted, lock, got, call>>
  BY DEF closeRecipientState
<1>3. /\ closed' \in [States -> BOOLEAN] /\ closed'[s]
      /\ closing' \in [States -> {"no", "unbind", "federation", "cancel"}]
      /\ accepted' \in [States -> Nat] /\ got' \in [States -> Seq(Nat)]
      /\ call' \in [Callers -> Call]
      /\ \A t \in States \ {s} : closed'[t] = closed[t]
  BY <1>1, <1>2 DEF IInv, TypeOK
<1>4. /\ scratch' \in [States -> Seq(Nat)] /\ scratch'[s] = << >>
      /\ \A t \in States \ {s} : scratch'[t] = scratch[t]
  BY <1>1, <1>2
<1>5. \A t \in States : closed[t] => closed'[t]
  BY <1>3, ZenonT(40)
<1>6. TimerTypes' /\ TimerLive' /\ \A t \in States \ {s} : armed'[t] = armed[t]
  BY <1>1, <1>2, <1>5, DisarmStep, Zenon DEF IInv
<1>7. ScratchArmed'
  BY <1>3, <1>4, <1>6, Zenon DEF IInv, ScratchArmed
<1>8. ch[s] \in Seq(Seq(Nat)) /\ scratch[s] \in Seq(Nat) /\ Len(ch[s]) <= BufferSize
  BY <1>1
<1>9. Len(ch[s]) \in Nat /\ Len(scratch[s]) \in Nat
  BY <1>8
<1>10. drops' \in [States -> Nat]
  BY <1>1, <1>9 DEF closeRecipientState
<1>11. PICK last \in BOOLEAN :
         ch' = [ch EXCEPT ![s] = IF last /\ Len(@) < BufferSize
                                   THEN Append(@, scratch[s]) ELSE @]
  BY Zenon DEF closeRecipientState
<1>12. /\ ch' \in [States -> Seq(Seq(Nat))]
       /\ \A t \in States \ {s} : ch'[t] = ch[t]
  BY <1>1, <1>8, <1>11
<1>13. Len(ch'[s]) <= BufferSize
  <2>1. CASE last /\ Len(ch[s]) < BufferSize
    <3>1. ch'[s] = Append(ch[s], scratch[s])
      BY <1>1, <1>11, <2>1
    <3>2. Len(ch'[s]) = Len(ch[s]) + 1
      BY <1>8, <3>1
    <3>3. ASSUME NEW a \in Nat, a < BufferSize PROVE a + 1 <= BufferSize
      BY <3>3, SizeAssumption
    <3> QED
      BY <1>9, <2>1, <3>2, <3>3
  <2>2. CASE ~(last /\ Len(ch[s]) < BufferSize)
    BY <1>1, <1>11, <2>2
  <2> QED
    BY <2>1, <2>2
<1>14. Len(scratch'[s]) < BatchSize
  BY <1>4, SizeAssumption
<1> QED
  BY <1>2, <1>3, <1>4, <1>6, <1>7, <1>10, <1>12, <1>13, <1>14, QueueStep, Zenon

\* The stream takes a batch without the mutex: queues only get shorter.
LEMMA ReadStep ==
  ASSUME IInv, NEW s \in States, Read(s)
  PROVE  IInv'
<1>1. /\ ch[s] # << >> /\ got' = [got EXCEPT ![s] = @ \o Head(ch[s])]
      /\ ch' = [ch EXCEPT ![s] = Tail(@)]
      /\ UNCHANGED <<recipient, scratch, accepted, timer, lock, drops, call>>
  BY DEF Read
<1>2. /\ ch \in [States -> Seq(Seq(Nat))] /\ got \in [States -> Seq(Nat)]
      /\ \A t \in States : Len(ch[t]) <= BufferSize /\ Len(scratch[t]) < BatchSize
  BY DEF IInv, TypeOK
<1>3. ch[s] \in Seq(Seq(Nat)) /\ got[s] \in Seq(Nat)
  BY <1>2
<1>4. /\ Tail(ch[s]) \in Seq(Seq(Nat)) /\ Head(ch[s]) \in Seq(Nat)
      /\ Len(ch[s]) \in Nat /\ Len(Tail(ch[s])) = Len(ch[s]) - 1
  BY <1>1, <1>3
<1>5. got[s] \o Head(ch[s]) \in Seq(Nat)
  BY <1>3, <1>4
<1>6. got' \in [States -> Seq(Nat)] /\ ch' \in [States -> Seq(Seq(Nat))]
  BY <1>1, <1>2, <1>4, <1>5, Zenon
<1>7. ch'[s] = Tail(ch[s]) /\ \A t \in States \ {s} : ch'[t] = ch[t]
  BY <1>1, <1>2
<1>8. Len(ch'[s]) <= Len(ch[s]) /\ Len(ch'[s]) <= BufferSize
  <2>1. ASSUME NEW a \in Nat, a <= BufferSize PROVE a - 1 <= a /\ a - 1 <= BufferSize
    BY <2>1, SizeAssumption
  <2> QED
    BY <1>2, <1>4, <1>7, <2>1
<1>9. \A t \in States : Len(ch'[t]) <= BufferSize
  BY <1>2, <1>7, <1>8, Zenon
<1>10. TypeOK'
  BY <1>1, <1>6, <1>9, Zenon DEF IInv, TypeOK, recipient, timer
<1>11. TimerLive' /\ ScratchArmed'
  BY <1>1 DEF IInv, TimerLive, ScratchArmed, recipient, timer
<1>12. \A d \in Callers : CallerOK(d)'
  BY <1>1, <1>6, <1>7, <1>8, CallersKeep, Zenon
<1> QED
  BY <1>10, <1>11, <1>12 DEF IInv

\* A call starts with the table it loads.
LEMMA StartStep ==
  ASSUME IInv, NEW c \in Callers,
         (\E item \in Sends : StartSend(c, item)) \/ (\E items \in Requests : StartReserve(c, items))
  PROVE  IInv'
<1>1. /\ call \in [Callers -> Call] /\ subs \in [Handles -> States \cup {None}]
      /\ lock \in [States -> Callers \cup {Free}]
  BY DEF IInv, TypeOK
<1>2. PICK pc \in {"send", "lock"}, items \in Seq(Delivery) :
        /\ items # << >>
        /\ pc = "send" => subs[items[1].to] # None
        /\ call' = [call EXCEPT ![c] = [NoCall EXCEPT !.pc = pc, !.seen = subs, !.items = items]]
        /\ UNCHANGED <<recipient, queue, timer, lock, got, drops>>
  <2>1. CASE \E item \in Sends : StartSend(c, item)
    <3>1. PICK item \in Sends : StartSend(c, item)
      BY <2>1
    <3>2. item \in Delivery /\ <<item>> \in Seq(Delivery) /\ <<item>> # << >> /\ <<item>>[1] = item
      BY CallAssumption
    <3>3. /\ subs[item.to] # None
          /\ call' = [call EXCEPT ![c] = [NoCall EXCEPT !.pc = "send", !.seen = subs, !.items = <<item>>]]
          /\ UNCHANGED <<recipient, queue, timer, lock, got, drops>>
      BY <3>1, Zenon DEF StartSend
    <3> QED
      BY <3>2, <3>3, Zenon
  <2>2. CASE \E items \in Requests : StartReserve(c, items)
    <3>1. PICK items \in Requests : StartReserve(c, items)
      BY <2>2
    <3>2. items \in Seq(Delivery) /\ items # << >>
      BY CallAssumption
    <3>3. /\ call' = [call EXCEPT ![c] = [NoCall EXCEPT !.pc = "lock", !.seen = subs, !.items = items]]
          /\ UNCHANGED <<recipient, queue, timer, lock, got, drops>>
      BY <3>1, Zenon DEF StartReserve
    <3> QED
      BY <3>2, <3>3, Zenon
  <2> QED
    BY <2>1, <2>2, Zenon
<1>3. Len(items) > 0 /\ Len(items) \in Nat /\ items[1] \in Delivery
  BY <1>2
<1>4. call'[c] = [pc |-> pc, items |-> items, seen |-> subs, plan |-> << >>, next |-> 1]
  BY <1>1, <1>2, Zenon DEF NoCall
<1>5. call'[c] \in Call
  BY <1>1, <1>4 DEF Call
<1>6. call' \in [Callers -> Call] /\ \A d \in Callers \ {c} : call'[d] = call[d]
  BY <1>1, <1>2, <1>4, <1>5
<1>7. pc = "send" => subs[items[1].to] \in States
  BY <1>1, <1>2, <1>3 DEF Delivery
<1>8. CallerOK(c)'
  <2>1. /\ call'[c].pc \in {"send", "lock"} /\ call'[c].pc = pc
        /\ call'[c].items = items /\ call'[c].seen = subs /\ call'[c].next = 1
    BY <1>4
  <2>2. HoldsLocks(c)'
    BY <1>2, <2>1 DEF HoldsLocks
  <2>3. PlanProgress(c)'
    BY <1>2, <1>3, <1>7, <2>1, Zenon DEF PlanProgress
  <2>4. PlanSteps(c)' /\ PlanHolds(c)'
    BY <2>1 DEF PlanSteps, PlanHolds
  <2> QED
    BY <2>2, <2>3, <2>4, Zenon DEF CallerOK
<1> QED
  BY <1>1, <1>2, <1>6, <1>8, CallerStep, Zenon

\* One more mutex is taken, or the reservation leaves.
LEMMA LockStep ==
  ASSUME IInv, NEW c \in Callers, lockRecipients(c)
  PROVE  IInv'
<1>1. TypeOK /\ call[c].pc = "lock" /\ UNCHANGED <<recipient, queue, timer, got, drops>>
  BY Zenon DEF IInv, lockRecipients
<1>2. CASE Unwind(c)
  BY <1>1, <1>2, UnwindStep, CallerStep
<1>3. CASE ~Unwind(c)
  <2> DEFINE s == call[c].seen[nextRecipient(c)]
  <2>1. s # None /\ lock[s] = Free /\ lock' = [lock EXCEPT ![s] = c] /\ call' = call
    BY <1>3 DEF lockRecipients
  <2> HIDE DEF s
  <2>2. /\ lock \in [States -> Callers \cup {Free}] /\ call \in [Callers -> Call]
    BY <1>1 DEF TypeOK
  <2>3. /\ lock' \in [States -> Callers \cup {Free}] /\ call' \in [Callers -> Call]
    BY <2>1, <2>2, Zenon
  <2>4. \A d \in Callers \ {c} : \A t \in States : lock'[t] = d <=> lock[t] = d
    BY <2>1, <2>2, CallersAssumption
  <2>5. CallerOK(c)'
    BY <1>1, <2>1, Zenon DEF IInv, CallerOK, HoldsLocks, PlanProgress, PlanSteps, PlanHolds
  <2> QED
    BY <1>1, <2>1, <2>3, <2>4, <2>5, CallerStep, Zenon
<1> QED
  BY <1>2, <1>3

\* All recipients are locked; the simulation starts from their lengths.
LEMMA ReserveStep ==
  ASSUME IInv, NEW c \in Callers, Reserve(c)
  PROVE  IInv'
<1> DEFINE first == [queued |-> [s \in States |-> Len(ch[s])],
                     scratch |-> [s \in States |-> Len(scratch[s])]]
<1>1. /\ call \in [Callers -> Call] /\ lock \in [States -> Callers \cup {Free}]
      /\ ch \in [States -> Seq(Seq(Nat))] /\ scratch \in [States -> Seq(Nat)]
  BY DEF IInv, TypeOK
<1>2. /\ call[c].pc = "lock" /\ Wanted(c) = Locked(c)
      /\ call' = [call EXCEPT ![c].pc = "admit", ![c].plan = <<first>>]
      /\ UNCHANGED <<recipient, queue, timer, lock, got, drops>>
  BY DEF Reserve
<1>3. first \in Plan
  <2>1. \A s \in States : ch[s] \in Seq(Seq(Nat)) /\ scratch[s] \in Seq(Nat)
    BY <1>1
  <2>2. \A s \in States : Len(ch[s]) \in Nat /\ Len(scratch[s]) \in Nat
    BY <2>1
  <2> QED
    BY <2>2 DEF Plan
<1>4. \A s \in States : first.queued[s] = Len(ch[s]) /\ first.scratch[s] = Len(scratch[s])
  OBVIOUS
<1> HIDE DEF first
<1>5. <<first>> \in Seq(Plan) /\ Len(<<first>>) = 1 /\ <<first>>[1] = first
  BY <1>3
<1>6. call[c] \in Call /\ call[c].next = 1 /\ Len(call[c].items) > 0 /\ Len(call[c].items) \in Nat
  BY <1>1, <1>2 DEF IInv, CallerOK, PlanProgress, Call
<1>7. /\ call'[c] = [call[c] EXCEPT !.pc = "admit", !.plan = <<first>>]
      /\ \A d \in Callers \ {c} : call'[d] = call[d]
  BY <1>1, <1>2
<1>8. /\ call'[c].pc = "admit" /\ call'[c].plan = <<first>> /\ call'[c].next = 1
      /\ call'[c].items = call[c].items /\ call'[c].seen = call[c].seen
  BY <1>6, <1>7 DEF Call
<1>9. call'[c] \in Call
  BY <1>5, <1>6, <1>7, Zenon DEF Call
<1>10. call' \in [Callers -> Call]
  BY <1>1, <1>2, <1>7, <1>9, ZenonT(40)
<1>11. HoldsLocks(c)'
  <2>1. \A i \in 1..Len(call[c].items) : call[c].items[i].to \in Wanted(c)
    BY Zenon DEF Wanted
  <2>2. \A i \in 1..Len(call[c].items) :
          call[c].seen[call[c].items[i].to] \in States /\ lock[call[c].seen[call[c].items[i].to]] = c
    BY <1>2, <2>1, Zenon DEF Locked, Mine
  <2> QED
    BY <1>2, <1>8, <2>2 DEF HoldsLocks
<1>12. PlanProgress(c)'
  BY <1>5, <1>6, <1>8, SMTT(30) DEF PlanProgress
<1>13. PlanSteps(c)'
  BY <1>5, <1>8 DEF PlanSteps
<1>14. PlanHolds(c)'
  <2>1. \A s \in States : Len(ch[s]) \in Nat
    BY <1>3, <1>4 DEF Plan
  <2>2. call'[c].plan[call'[c].next] = first
    BY <1>5, <1>8
  <2> QED
    BY <1>2, <1>4, <2>1, <2>2 DEF PlanHolds, queue
<1> QED
  BY <1>1, <1>2, <1>7, <1>10, <1>11, <1>12, <1>13, <1>14, CallerStep, Zenon DEF CallerOK

\* One delivery of the simulation.
LEMMA AdmitStep ==
  ASSUME IInv, NEW c \in Callers, Admit(c)
  PROVE  IInv'
<1> DEFINE i == Len(call[c].plan)
           item == call[c].items[i]
           s == call[c].seen[item.to]
           p == call[c].plan[i]
           fill == fills(p, s, item.grant)
           after == [queued |-> [p.queued EXCEPT ![s] = IF fill THEN @ + 1 ELSE @],
                     scratch |-> [p.scratch EXCEPT ![s] = IF fill THEN 0 ELSE @ + 1]]
           pc == IF i = Len(call[c].items) THEN "held" ELSE "admit"
<1>1. /\ TypeOK /\ call \in [Callers -> Call] /\ lock \in [States -> Callers \cup {Free}]
      /\ call[c].pc = "admit" /\ UNCHANGED <<recipient, queue, timer, got, drops>>
  BY Zenon DEF IInv, TypeOK, Admit
<1>2. CASE Unwind(c)
  BY <1>1, <1>2, UnwindStep, CallerStep
<1>3. CASE ~Unwind(c)
  <2>1. /\ fill => ~(p.queued[s] >= BufferSize)
        /\ call' = [call EXCEPT ![c].plan = Append(@, after), ![c].pc = pc]
        /\ lock' = lock
    BY <1>3, Zenon DEF Admit
  <2>2. /\ call[c] \in Call /\ call[c].plan \in Seq(Plan) /\ call[c].next = 1
        /\ i \in 1..Len(call[c].items) /\ Len(call[c].items) \in Nat /\ i \in Nat
        /\ Len(call[c].items) > 0
    BY <1>1 DEF IInv, CallerOK, PlanProgress, Call
  <2>3. s \in States /\ lock[s] = c
    BY <1>1, <2>2, Zenon DEF IInv, CallerOK, HoldsLocks
  <2>4. p \in Plan
    BY <2>2
  <2> HIDE DEF s, p
  <2>5. after \in Plan
    <3>1. p.queued \in [States -> Nat] /\ p.scratch \in [States -> Nat]
      BY <2>4 DEF Plan
    <3>2. p.queued[s] \in Nat /\ p.scratch[s] \in Nat
      BY <2>3, <3>1, Zenon
    <3>3. /\ (IF fill THEN p.queued[s] + 1 ELSE p.queued[s]) \in Nat
          /\ (IF fill THEN 0 ELSE p.scratch[s] + 1) \in Nat
      BY <3>2, SMTT(30)
    <3> HIDE DEF fill
    <3>4. /\ [p.queued EXCEPT ![s] = IF fill THEN @ + 1 ELSE @] \in [States -> Nat]
          /\ [p.scratch EXCEPT ![s] = IF fill THEN 0 ELSE @ + 1] \in [States -> Nat]
      BY <3>1, <3>3, Zenon
    <3> QED
      BY <3>4 DEF Plan
  <2>6. PlanStep(p, after, s, item.grant)
    <3>1. p.queued \in [States -> Nat]
      BY <2>4 DEF Plan
    <3>2. p.queued[s] \in Nat
      BY <2>3, <3>1
    <3>3. fill => p.queued[s] < BufferSize
      BY <2>1, <3>2, SizeAssumption
    <3> QED
      BY <3>3 DEF PlanStep
  <2> HIDE DEF after, pc
  <2>7. /\ Append(call[c].plan, after) \in Seq(Plan) /\ Len(Append(call[c].plan, after)) = i + 1
        /\ Append(call[c].plan, after)[i + 1] = after
        /\ \A k \in 1..i : Append(call[c].plan, after)[k] = call[c].plan[k]
    BY <2>2, <2>5
  <2>8. pc \in {"admit", "held"}
    BY DEF pc
  <2>9. /\ call'[c] = [call[c] EXCEPT !.plan = Append(@, after), !.pc = pc]
        /\ \A d \in Callers \ {c} : call'[d] = call[d]
    BY <1>1, <2>1
  <2>10. /\ call'[c].pc = pc /\ call'[c].plan = Append(call[c].plan, after) /\ call'[c].next = 1
         /\ call'[c].items = call[c].items /\ call'[c].seen = call[c].seen
    BY <2>2, <2>9 DEF Call
  <2>11. call'[c] \in Call
    BY <2>2, <2>7, <2>8, <2>9, Zenon DEF Call
  <2>12. call' \in [Callers -> Call] /\ lock' \in [States -> Callers \cup {Free}]
    BY <1>1, <2>1, <2>9, <2>11, ZenonT(40)
  <2>13. HoldsLocks(c)'
    BY <1>1, <2>1, <2>10, SMTT(30) DEF IInv, CallerOK, HoldsLocks
  <2>14. PlanProgress(c)'
    <3>1. pc = "held" => i = Len(call[c].items)
      BY DEF pc
    <3>2. pc = "admit" => i # Len(call[c].items)
      BY DEF pc
    <3>3. pc = "admit" => i + 1 \in 1..Len(call[c].items)
      BY <2>2, <3>2, SMTT(30)
    <3> QED
      BY <2>2, <2>7, <2>8, <2>10, <3>1, <3>3 DEF PlanProgress
  <2>15. PlanSteps(c)'
    <3> SUFFICES ASSUME NEW k \in 1..i
                 PROVE  PlanStep(call'[c].plan[k], call'[c].plan[k + 1],
                                 call[c].seen[call[c].items[k].to], call[c].items[k].grant)
      <4>1. i \in Nat /\ Len(call'[c].plan) = i + 1
        BY <2>2, <2>7, <2>10, Zenon
      <4> HIDE DEF i
      <4>2. Len(call'[c].plan) - 1 = i
        BY <4>1
      <4> QED
        BY <2>10, <4>2, ZenonT(40) DEF PlanSteps, PlanStep, fills
    <3>1. CASE k = i
      BY <2>2, <2>6, <2>7, <2>10, <3>1, Zenon DEF p, s
    <3>2. CASE k # i
      <4>1. k \in 1..(i - 1) /\ k + 1 \in 1..i
        BY <2>2, <3>2
      <4>2. call'[c].plan[k] = call[c].plan[k] /\ call'[c].plan[k + 1] = call[c].plan[k + 1]
        BY <2>7, <2>10, <4>1, Zenon
      <4> QED
        BY <1>1, <4>1, <4>2, Zenon DEF IInv, CallerOK, PlanSteps
    <3> QED
      BY <3>1, <3>2
  <2>16. PlanHolds(c)'
    <3>1. 1 \in 1..i
      BY <2>2
    <3>2. call'[c].plan[1] = call[c].plan[1]
      BY <2>7, <2>10, <3>1, SMTT(30)
    <3> QED
      BY <1>1, <2>1, <2>2, <2>10, <3>2 DEF IInv, CallerOK, PlanHolds, queue
  <2> QED
    BY <1>1, <2>1, <2>9, <2>12, <2>13, <2>14, <2>15, <2>16, CallerStep DEF CallerOK
<1> QED
  BY <1>2, <1>3

\* A reservation is given up before its first delivery.
LEMMA ReleaseStep ==
  ASSUME IInv, NEW c \in Callers, Release(c)
  PROVE  IInv'
  BY UnwindStep, CallerStep DEF IInv, Release

\* A single event is refused, taken back or accepted.
LEMMA SendStep ==
  ASSUME IInv, NEW c \in Callers, Send(c)
  PROVE  IInv'
<1> DEFINE item == Head(call[c].items)
           s == call[c].seen[item.to]
<1>1. /\ TypeOK /\ TimerLive /\ ScratchArmed /\ TimerTypes /\ call \in [Callers -> Call]
      /\ ch \in [States -> Seq(Seq(Nat))] /\ scratch \in [States -> Seq(Nat)]
      /\ \A t \in States : Len(ch[t]) <= BufferSize /\ Len(scratch[t]) < BatchSize
  BY Zenon DEF IInv, TypeOK, TimerTypes
<1>2. /\ call[c].pc = "send" /\ lock[s] = Free /\ call' = [call EXCEPT ![c] = NoCall]
      /\ UNCHANGED <<recipient, lock, got, drops>>
  BY Zenon DEF Send
<1>3. call[c] \in Call /\ call[c].items \in Seq(Delivery) /\ Len(call[c].items) > 0
  BY <1>1, <1>2, Zenon DEF IInv, CallerOK, PlanProgress, Call
<1>4. item = call[c].items[1] /\ item \in Delivery
  BY <1>3
<1>5. s \in States /\ item.grant \in BOOLEAN
  BY <1>2, <1>4, Zenon DEF IInv, CallerOK, PlanProgress, Delivery
<1>6. NoCall \in Call
  BY DEF NoCall, Call, Delivery
<1>7. /\ call' \in [Callers -> Call]
      /\ \A d \in Callers : call'[d] = call[d] \/ call'[d] = NoCall
  BY <1>1, <1>2, <1>6, Zenon
<1>8. \/ UNCHANGED <<queue, timer>>
      \/ UNCHANGED queue /\ armFlush(s, scratch[s])
      \/ Accept(s, item.grant) /\ (flushes(s, item.grant) => Len(ch[s]) # BufferSize)
  BY Zenon DEF Send
<1> HIDE DEF s, item
<1>9. /\ UNCHANGED <<subs, made, key, reader, closed, closing, lock>>
      /\ closed' \in [States -> BOOLEAN]
      /\ closing' \in [States -> {"no", "unbind", "federation", "cancel"}]
      /\ got' \in [States -> Seq(Nat)] /\ drops' \in [States -> Nat]
  BY <1>1, <1>2, Zenon DEF TypeOK, recipient
<1>10. ch[s] \in Seq(Seq(Nat)) /\ Len(ch[s]) <= BufferSize /\ Len(scratch[s]) < BatchSize
  BY <1>1, <1>5
<1>11. CASE UNCHANGED queue /\ (UNCHANGED timer \/ armFlush(s, scratch[s]))
  <2>1. UNCHANGED <<ch, scratch, accepted>> /\ accepted' \in [States -> Nat]
    BY <1>1, <1>11 DEF queue, TypeOK
  <2>2. TimerTypes' /\ TimerLive' /\ \A t \in States : armed[t] => armed'[t]
    <3>1. CASE UNCHANGED timer
      BY <1>1, <1>9, <3>1 DEF timer, TimerTypes, TimerLive
    <3>2. CASE armFlush(s, scratch[s])
      BY <1>1, <1>5, <1>9, <3>2, ArmStep, Zenon
    <3> QED
      BY <1>11, <3>1, <3>2, Zenon
  <2>3. ScratchArmed'
    BY <1>1, <1>9, <2>1, <2>2 DEF ScratchArmed
  <2> QED
    BY <1>1, <1>2, <1>5, <1>7, <1>9, <1>10, <2>1, <2>2, <2>3, QueueStep, Zenon DEF s, item
<1>12. CASE Accept(s, item.grant) /\ (flushes(s, item.grant) => Len(ch[s]) # BufferSize)
  <2>1. flushes(s, item.grant) => Len(ch[s]) < BufferSize
    <3>1. Len(ch[s]) \in Nat
      BY <1>10
    <3>2. ASSUME NEW a \in Nat, a <= BufferSize, a # BufferSize PROVE a < BufferSize
      BY <3>2, SizeAssumption
    <3> QED
      BY <1>10, <1>12, <3>1, <3>2
  <2>2. /\ ch' \in [States -> Seq(Seq(Nat))] /\ scratch' \in [States -> Seq(Nat)]
        /\ accepted' \in [States -> Nat]
        /\ TimerTypes' /\ TimerLive' /\ ScratchArmed'
        /\ \A t \in States : Len(ch'[t]) <= BufferSize /\ Len(scratch'[t]) < BatchSize
        /\ \A t \in States \ {s} : ch'[t] = ch[t] /\ scratch'[t] = scratch[t]
    BY <1>1, <1>5, <1>9, <1>12, <2>1, AcceptStep, Zenon
  <2> QED
    BY <1>2, <1>5, <1>7, <1>9, <2>2, QueueStep, Zenon DEF s, item
<1> QED
  BY <1>8, <1>11, <1>12

\* One delivery of a reservation is committed; it fits because the simulation
\* took the same steps on queues at least as long.
LEMMA CommitStep ==
  ASSUME IInv, NEW c \in Callers, Commit(c)
  PROVE  IInv'
<1> DEFINE i == call[c].next
           item == call[c].items[i]
           s == call[c].seen[item.to]
           g == item.grant
           p == call[c].plan[i]
           q == call[c].plan[i + 1]
<1>1. /\ TypeOK /\ TimerLive /\ ScratchArmed /\ CallerOK(c) /\ call \in [Callers -> Call]
      /\ ch \in [States -> Seq(Seq(Nat))] /\ scratch \in [States -> Seq(Nat)]
      /\ lock \in [States -> Callers \cup {Free}]
  BY Zenon DEF IInv, TypeOK
<1>2. /\ call[c].pc = "held" /\ Accept(s, g) /\ UNCHANGED <<recipient, got, drops>>
      /\ \/ Unwind(c)
         \/ /\ i # Len(call[c].items)
            /\ call' = [call EXCEPT ![c].next = i + 1] /\ lock' = lock
  BY Zenon DEF Commit
<1>3. /\ call[c] \in Call /\ i \in Nat \ {0} /\ i <= Len(call[c].items)
      /\ call[c].plan \in Seq(Plan) /\ call[c].items \in Seq(Delivery)
      /\ Len(call[c].items) \in Nat /\ Len(call[c].plan) = Len(call[c].items) + 1
  BY <1>1, <1>2 DEF CallerOK, PlanProgress, Call
<1>4. /\ i \in 1..Len(call[c].items) /\ i \in 1..(Len(call[c].plan) - 1)
      /\ i \in 1..Len(call[c].plan) /\ i + 1 \in 1..Len(call[c].plan)
  <2>1. ASSUME NEW a \in Nat \ {0}, NEW n \in Nat, a <= n
        PROVE  /\ a \in 1..n /\ a \in 1..((n + 1) - 1)
               /\ a \in 1..(n + 1) /\ a + 1 \in 1..(n + 1)
    BY <2>1, SMTT(30)
  <2> HIDE DEF i
  <2> QED
    BY <1>3, <2>1, Zenon
<1>5. p \in Plan /\ q \in Plan /\ item \in Delivery
  BY <1>3, <1>4, SMTT(30)
<1>6. s \in States /\ lock[s] = c /\ g \in BOOLEAN
  BY <1>1, <1>2, <1>4, <1>5, Zenon DEF CallerOK, HoldsLocks, Delivery
<1>7. flushes(s, g) => Len(ch[s]) < BufferSize
  BY <1>2, FitsFromInv, Zenon DEF ReservationHolds
<1>8. PlanStep(p, q, s, g)
  BY <1>1, <1>2, <1>4, Zenon DEF CallerOK, PlanSteps
<1>9. \A t \in States : lock[t] = c => Len(ch[t]) <= p.queued[t] /\ Len(scratch[t]) = p.scratch[t]
  BY <1>1, <1>2, Zenon DEF CallerOK, PlanHolds
<1>10. closed' = closed
  BY <1>2 DEF recipient
<1> HIDE DEF s, g, item, p, q
<1>11. /\ ch' \in [States -> Seq(Seq(Nat))] /\ scratch' \in [States -> Seq(Nat)]
       /\ accepted' \in [States -> Nat]
       /\ TimerTypes' /\ TimerLive' /\ ScratchArmed'
       /\ \A t \in States : Len(ch'[t]) <= BufferSize /\ Len(scratch'[t]) < BatchSize
       /\ \A t \in States \ {s} : ch'[t] = ch[t] /\ scratch'[t] = scratch[t]
       /\ Len(ch'[s]) = Len(ch[s]) + (IF flushes(s, g) THEN 1 ELSE 0)
       /\ Len(scratch'[s]) = IF flushes(s, g) THEN 0 ELSE Len(scratch[s]) + 1
  BY <1>1, <1>2, <1>6, <1>7, <1>10, AcceptStep
<1>12. /\ call' \in [Callers -> Call] /\ lock' \in [States -> Callers \cup {Free}]
       /\ \A d \in Callers \ {c} : /\ call'[d] = call[d]
                                   /\ \A t \in States : lock'[t] = d <=> lock[t] = d
       /\ CallerOK(c)'
  <2>1. CASE Unwind(c)
    BY <1>1, <2>1, UnwindStep
  <2>2. CASE /\ i # Len(call[c].items)
             /\ call' = [call EXCEPT ![c].next = i + 1] /\ lock' = lock
    <3>1. /\ call'[c] = [call[c] EXCEPT !.next = i + 1]
          /\ \A d \in Callers \ {c} : call'[d] = call[d]
      BY <1>1, <2>2
    <3>2. /\ call'[c].pc = "held" /\ call'[c].plan = call[c].plan /\ call'[c].next = i + 1
          /\ call'[c].items = call[c].items /\ call'[c].seen = call[c].seen
      BY <1>2, <1>3, <3>1 DEF Call
    <3>3. call'[c] \in Call
      BY <1>3, <3>1, SMTT(30) DEF Call
    <3>4. call' \in [Callers -> Call] /\ lock' \in [States -> Callers \cup {Free}]
      BY <1>1, <2>2, <3>1, <3>3
    <3>5. HoldsLocks(c)' /\ PlanSteps(c)'
      <4>1. HoldsLocks(c)'
        BY <1>1, <1>2, <2>2, <3>2 DEF CallerOK, HoldsLocks
      <4>2. PlanSteps(c)'
        BY <1>1, <1>2, <3>2, ZenonT(40) DEF CallerOK, PlanSteps, PlanStep, fills
      <4> QED
        BY <4>1, <4>2
    <3>6. PlanProgress(c)'
      <4>1. i + 1 <= Len(call[c].items) /\ Len(call[c].items) > 0
        BY <1>3, <2>2
      <4> QED
        BY <1>3, <3>2, <4>1 DEF PlanProgress
    <3>7. ASSUME NEW t \in States, lock[t] = c
          PROVE  Len(ch'[t]) <= q.queued[t] /\ Len(scratch'[t]) = q.scratch[t]
      <4>1. CASE t # s
        <5>1. q.queued[t] = p.queued[t] /\ q.scratch[t] = p.scratch[t]
          BY <1>5, <1>8, <4>1 DEF PlanStep, Plan
        <5> QED
          BY <1>9, <1>11, <3>7, <4>1, <5>1, Zenon
      <4>2. CASE t = s
        <5>1. /\ p.queued \in [States -> Nat] /\ p.scratch \in [States -> Nat]
          BY <1>5 DEF Plan
        <5>2. p.queued[s] \in Nat /\ p.scratch[s] \in Nat
          BY <1>6, <5>1
        <5>3. ch[s] \in Seq(Seq(Nat))
          BY <1>1, <1>6, Zenon
        <5>4. Len(ch[s]) \in Nat /\ Len(ch[s]) <= p.queued[s] /\ Len(scratch[s]) = p.scratch[s]
          BY <1>6, <1>9, <5>3, SMTT(30)
        <5>5. flushes(s, g) <=> fills(p, s, g)
          BY <5>4, Zenon DEF flushes, fills
        <5>6. /\ q.queued[s] = IF fills(p, s, g) THEN p.queued[s] + 1 ELSE p.queued[s]
              /\ q.scratch[s] = IF fills(p, s, g) THEN 0 ELSE p.scratch[s] + 1
          BY <1>6, <1>8, <5>1 DEF PlanStep
        <5>7. ASSUME NEW a \in Nat, NEW b \in Nat, a <= b PROVE a + 1 <= b + 1 /\ a + 0 <= b
          BY <5>7, SMTT(30)
        <5>8. CASE flushes(s, g)
          BY <1>11, <4>2, <5>2, <5>4, <5>5, <5>6, <5>7, <5>8, Zenon
        <5>9. CASE ~flushes(s, g)
          BY <1>11, <4>2, <5>2, <5>4, <5>5, <5>6, <5>7, <5>9, Zenon
        <5> QED
          BY <5>8, <5>9
      <4> QED
        BY <4>1, <4>2
    <3>8. PlanHolds(c)'
      BY <2>2, <3>2, <3>7 DEF PlanHolds, q
    <3> QED
      BY <2>2, <3>1, <3>4, <3>5, <3>6, <3>8 DEF CallerOK
  <2> QED
    BY <1>2, <2>1, <2>2
<1>13. TypeOK'
  BY <1>1, <1>2, <1>11, <1>12, Zenon DEF TypeOK, TimerTypes, recipient
<1>14. ASSUME NEW d \in Callers \ {c} PROVE CallerOK(d)'
  <2>1. \A t \in States : ch[t] \in Seq(Seq(Nat))
    BY <1>1
  <2>2. ASSUME NEW t \in States, lock[t] = d
        PROVE  Len(ch'[t]) <= Len(ch[t]) /\ Len(scratch'[t]) = Len(scratch[t])
    <3>1. ch'[t] = ch[t] /\ scratch'[t] = scratch[t]
      BY <1>6, <1>11, <2>2
    <3>2. Len(ch[t]) \in Nat
      BY <2>1
    <3> QED
      BY <3>1, <3>2, SMTT(30)
  <2> QED
    BY <1>1, <1>11, <1>12, <2>2, CallerFrame, Zenon DEF IInv
<1> QED
  BY <1>11, <1>12, <1>13, <1>14, Zenon DEF IInv

-----------------------------------------------------------------------------
(* The theorems.                                                           *)

\* Every step of the outbox keeps the invariant.
LEMMA NextInv == IInv /\ [Next]_vars => IInv'
<1> SUFFICES ASSUME IInv, [Next]_vars PROVE IInv'
  OBVIOUS
<1>1. CASE Subscription
  <2>1. 1 \in States /\ 1 \in Handles
    BY NAssumption, NStatesAssumption DEF States, Handles
  <2> QED
    BY <1>1, <2>1, SubscriptionStep, CloseStep DEF Subscription
<1>2. CASE Deferred
  BY <1>2, TimerStep, FlushStep DEF Deferred
<1>3. CASE Calls
  BY <1>3, StartStep, SendStep, LockStep, ReserveStep, AdmitStep, CommitStep, ReleaseStep DEF Calls
<1>4. CASE \E s \in States : Read(s)
  BY <1>4, ReadStep
<1>5. CASE UNCHANGED vars
  <2>1. /\ UNCHANGED <<closed, queue, timer, lock, got, drops, call>>
        /\ UNCHANGED <<subs, made, key, closing, reader>>
    BY <1>5 DEF vars, recipient
  <2>2. /\ subs \in [Handles -> States \cup {None}] /\ made \in 0..NStates
        /\ key \in [States -> Handles] /\ reader \in [States -> BOOLEAN]
        /\ closing \in [States -> {"no", "unbind", "federation", "cancel"}]
    BY DEF IInv, TypeOK
  <2> QED
    BY <2>1, <2>2, RecipientStep
<1> QED
  BY <1>1, <1>2, <1>3, <1>4, <1>5 DEF Next

\* The invariant holds in every reachable state.
THEOREM InvHolds == Spec => []IInv
  BY InitInv, NextInv, PTL DEF Spec

\* The channel of a recipient never exceeds its buffer and a scratch kept
\* between steps never reaches a batch (outbox.go), whatever the interleaving.
THEOREM TypesHold == Spec => []TypeOK
<1>1. IInv => TypeOK
  BY DEF IInv
<1> QED
  BY <1>1, InvHolds, PTL

\* The generation check of flushScratch never discards the last callback that
\* could flush an open state's scratch.
THEOREM NothingIsStranded == Spec => []NothingStranded
  BY StrandedFromInv, InvHolds, PTL

\* Every delivery that Reserve admitted finds room when Commit delivers it.
THEOREM ReservationsHold == Spec => []ReservationHolds
  BY FitsFromInv, InvHolds, PTL


-----------------------------------------------------------------------------

\* A non-empty set of numbers has a least element.
LEMMA LeastNat ==
  ASSUME NEW S \in SUBSET Nat, S # {}
  PROVE  \E x \in S : \A y \in S : x <= y
<1> DEFINE R == OpToRel(<, Nat)
<1>1. \A y, x \in Nat : y < x => <<y, x>> \in R
  <2> SUFFICES ASSUME NEW y \in Nat, NEW x \in Nat, y < x
               PROVE  <<y, x>> \in {ss \in Nat \X Nat : ss[1] < ss[2]}
    BY DEF OpToRel
  <2> QED
    OBVIOUS
<1>2. IsWellFoundedOn(R, Nat)
  BY NatLessThanWellFounded, Zenon
<1> HIDE DEF R
<1>3. PICK x \in S : \A y \in S : ~(<<y, x>> \in R)
  BY <1>2, WFMin, Zenon
<1>4. \A y \in S : ~(y < x)
  BY <1>1, <1>3, Zenon
<1> QED
  BY <1>4

-----------------------------------------------------------------------------
(* Lock order.                                                             *)

\* A table maps a federate only to a state that was created for it.
Known(table) ==
  \A h \in Handles : table[h] # None => table[h] <= made /\ key[table[h]] = h

KeyInv == Known(subs) /\ \A c \in Callers : Known(call[c].seen)

\* What the holder of a mutex knows of its state.
OwnOK(c) ==
  \A s \in States : lock[s] = c =>
    /\ call[c].pc \in {"lock", "admit", "held"}
    /\ ~closed[s]
    /\ \E i \in 1..Len(call[c].items) : call[c].seen[call[c].items[i].to] = s
    /\ call[c].pc = "lock" =>
         \A i \in 1..Len(call[c].items) :
           LET h == call[c].items[i].to
           IN  (call[c].seen[h] \in States /\ lock[call[c].seen[h]] = c) \/ key[s] < h

LockInv == KeyInv /\ \A c \in Callers : OwnOK(c)

\* What the holder of a mutex knows makes its acquisitions ascend.
LEMMA OrderedFromInv == TypeOK /\ LockInv => OrderedLocks
<1> SUFFICES ASSUME TypeOK, LockInv, NEW c \in Callers, NEW s \in Mine(c)
             PROVE  /\ ~closed[s]
                    /\ \E h \in Wanted(c) : call[c].seen[h] = s
                    /\ call[c].pc = "lock" =>
                         \A h \in Wanted(c) \ Locked(c) : key[s] < h
  BY DEF OrderedLocks
<1>1. s \in States /\ lock[s] = c
  BY DEF Mine
<1>2. OwnOK(c)
  BY Zenon DEF LockInv
<1>3. ~closed[s]
  BY <1>1, <1>2, Zenon DEF OwnOK
<1>4. \E h \in Wanted(c) : call[c].seen[h] = s
  BY <1>1, <1>2, SMTT(30) DEF OwnOK, Wanted
<1>5. ASSUME call[c].pc = "lock", NEW h \in Wanted(c) \ Locked(c)
      PROVE  key[s] < h
  <2>1. PICK i \in 1..Len(call[c].items) : h = call[c].items[i].to
    BY DEF Wanted
  <2>2. ~(call[c].seen[h] \in States /\ lock[call[c].seen[h]] = c)
    BY DEF Locked, Mine
  <2> QED
    BY <1>1, <1>2, <1>5, <2>1, <2>2, Zenon DEF OwnOK
<1> QED
  BY <1>3, <1>4, <1>5

\* A new state gets a number no table or lock refers to yet.
LEMMA KeyFrame ==
  ASSUME TypeOK, LockInv,
         NEW c \in Callers, call'[c] = call[c],
         \A s \in States : lock'[s] = c <=> lock[s] = c,
         \A s \in States : lock[s] = c => closed'[s] = closed[s],
         made' \in Nat, made <= made', \A s \in States : s <= made => key'[s] = key[s]
  PROVE  Known(call[c].seen)' /\ OwnOK(c)'
<1>1. call[c] \in Call /\ made \in Nat
  BY SMTT(30) DEF TypeOK
<1>2. call[c].seen \in [Handles -> States \cup {None}] /\ call[c].items \in Seq(Delivery)
  BY <1>1 DEF Call
<1>3. Known(call[c].seen) /\ OwnOK(c)
  BY Zenon DEF LockInv, KeyInv
<1>4. Known(call[c].seen)'
  <2> SUFFICES ASSUME NEW h \in Handles, call[c].seen[h] # None
               PROVE  call[c].seen[h] <= made' /\ key'[call[c].seen[h]] = h
    BY DEF Known
  <2>1. call[c].seen[h] \in States /\ call[c].seen[h] <= made /\ key[call[c].seen[h]] = h
    BY <1>2, <1>3, Zenon DEF Known
  <2> QED
    BY <2>1, <1>1, SMTT(30) DEF States
<1>5. OwnOK(c)'
  <2> SUFFICES ASSUME NEW s \in States, lock'[s] = c
               PROVE  /\ call[c].pc \in {"lock", "admit", "held"}
                      /\ ~closed'[s]
                      /\ \E i \in 1..Len(call[c].items) : call[c].seen[call[c].items[i].to] = s
                      /\ call[c].pc = "lock" =>
                           \A i \in 1..Len(call[c].items) :
                             LET h == call[c].items[i].to
                             IN  (call[c].seen[h] \in States /\ lock'[call[c].seen[h]] = c)
                                   \/ key'[s] < h
    BY DEF OwnOK
  <2>1. lock[s] = c
    BY ZenonT(40)
  <2>2. PICK i \in 1..Len(call[c].items) : call[c].seen[call[c].items[i].to] = s
    BY <1>3, <2>1, Zenon DEF OwnOK
  <2>3. call[c].items[i] \in Delivery /\ s # None
    BY <1>2, SMTT(30) DEF States, None
  <2>4. s <= made
    BY <1>3, <2>2, <2>3 DEF Known, Delivery
  <2>5. key'[s] = key[s]
    BY <2>4, Zenon
  <2> QED
    BY <1>3, <2>1, <2>5, ZenonT(40) DEF OwnOK
<1> QED
  BY <1>4, <1>5, Zenon

\* Only caller c moves.
LEMMA OthersKeep ==
  ASSUME TypeOK, LockInv, NEW c \in Callers, UNCHANGED <<subs, made, key, closed>>,
         \A d \in Callers \ {c} : /\ call'[d] = call[d]
                                  /\ \A s \in States : lock'[s] = d <=> lock[s] = d,
         Known(call[c].seen)', OwnOK(c)'
  PROVE  LockInv'
<1>1. made \in Nat /\ made' = made /\ made <= made
  BY SMTT(30) DEF TypeOK
<1>2. \A d \in Callers \ {c} : Known(call[d].seen)' /\ OwnOK(d)'
  <2> TAKE d \in Callers \ {c}
  <2> QED
    BY <1>1, KeyFrame
<1>3. Known(subs)'
  BY DEF LockInv, KeyInv, Known
<1> QED
  BY <1>2, <1>3, Zenon DEF LockInv, KeyInv

\* No caller moves, and only a state nobody holds may be closed.
LEMMA CallersStay ==
  ASSUME TypeOK, LockInv, UNCHANGED <<call, lock>>, Known(subs)',
         made' \in Nat, made <= made', \A s \in States : s <= made => key'[s] = key[s],
         \A s \in States : lock[s] # Free => closed'[s] = closed[s]
  PROVE  LockInv'
<1>1. \A d \in Callers : Known(call[d].seen)' /\ OwnOK(d)'
  <2> TAKE d \in Callers
  <2>1. \A s \in States : lock[s] = d => closed'[s] = closed[s]
    BY CallersAssumption
  <2> QED
    BY <2>1, KeyFrame
<1> QED
  BY <1>1, Zenon DEF LockInv, KeyInv

\* Subscriptions change the table; a created state is new to everyone.
LEMMA LockSubscription ==
  ASSUME TypeOK, LockInv, NEW h \in Handles, NEW s \in States,
         Bind(h) \/ Subscribe(h) \/ Unbind(h) \/ UnbindFederation \/ Cancel(s)
  PROVE  LockInv'
<1>1. /\ subs \in [Handles -> States \cup {None}] /\ made \in 0..NStates
      /\ key \in [States -> Handles] /\ Known(subs)
  BY Zenon DEF TypeOK, LockInv, KeyInv
<1>2. UNCHANGED <<call, lock, closed>>
  BY Zenon DEF Bind, Subscribe, Unbind, UnbindFederation, Cancel, Create
<1>3. CASE Create(h, TRUE) \/ Create(h, FALSE)
  <2>1. /\ made < NStates /\ made' = made + 1 /\ key' = [key EXCEPT ![made + 1] = h]
        /\ subs' = [subs EXCEPT ![h] = made + 1]
    BY <1>3, Zenon DEF Create
  <2>2. \A k \in Handles : subs'[k] # None => subs'[k] <= made' /\ key'[subs'[k]] = k
    <3> TAKE k \in Handles
    <3>1. CASE k = h
      <4>1. made + 1 \in States
        BY <1>1, <2>1, NStatesAssumption DEF States
      <4>2. subs'[k] = made + 1 /\ key'[made + 1] = k
        BY <1>1, <2>1, <3>1, <4>1, Zenon
      <4> QED
        BY <1>1, <2>1, <4>2
    <3>2. CASE k # h
      <4>1. subs'[k] = subs[k]
        BY <1>1, <2>1, <3>2
      <4>2. subs[k] # None => subs[k] \in States /\ subs[k] <= made /\ key[subs[k]] = k
        BY <1>1 DEF Known
      <4> QED
        BY <1>1, <2>1, <4>1, <4>2 DEF States
    <3> QED
      BY <3>1, <3>2, Zenon
  <2>3. Known(subs)'
    BY <2>2 DEF Known
  <2>4. made' \in Nat /\ made <= made' /\ \A t \in States : t <= made => key'[t] = key[t]
    BY <1>1, <2>1 DEF States
  <2> QED
    BY <1>2, <2>3, <2>4, CallersStay, Zenon
<1>4. CASE ~(Create(h, TRUE) \/ Create(h, FALSE))
  <2>1. made' = made /\ key' = key
    BY <1>4, Zenon DEF Bind, Subscribe, Unbind, UnbindFederation, Cancel
  <2>2. \A k \in Handles : subs'[k] = subs[k] \/ subs'[k] = None
    BY <1>1, <1>4, Zenon DEF Bind, Subscribe, Unbind, UnbindFederation, Cancel
  <2>3. Known(subs)'
    BY <1>1, <2>1, <2>2, Zenon DEF Known
  <2> QED
    BY <1>1, <1>2, <2>1, <2>3, CallersStay
<1> QED
  BY <1>3, <1>4, ZenonT(40)

\* Timers, flushes, closes and the stream move no caller; a close needs the mutex.
LEMMA LockQueue ==
  ASSUME TypeOK, LockInv, NEW s \in States,
         Fire(s) \/ SnapshotGeneration(s) \/ flushScratch(s) \/ closeRecipientState(s) \/ Read(s)
  PROVE  LockInv'
<1>1. UNCHANGED <<call, lock, subs, made, key>>
  BY Zenon DEF Fire, SnapshotGeneration, flushScratch, closeRecipientState, Read, recipient
<1>2. \A t \in States : lock[t] # Free => closed'[t] = closed[t]
  BY Zenon DEF Fire, SnapshotGeneration, flushScratch, closeRecipientState, Read, recipient, TypeOK
<1>3. Known(subs)'
  BY <1>1 DEF Known, LockInv, KeyInv
<1>4. made \in Nat
  BY SMTT(30) DEF TypeOK
<1> QED
  BY <1>1, <1>2, <1>3, <1>4, CallersStay

\* A call that leaves holds nothing and refers to nothing.
LEMMA LockUnwind ==
  ASSUME TypeOK, LockInv, NEW c \in Callers, Unwind(c), UNCHANGED <<subs, made, key, closed>>
  PROVE  LockInv'
<1>1. lock \in [States -> Callers \cup {Free}] /\ call \in [Callers -> Call]
  BY DEF TypeOK
<1>2. call'[c] = NoCall /\ \A d \in Callers \ {c} : call'[d] = call[d]
  BY <1>1 DEF Unwind
<1>3. \A s \in States : lock'[s] = IF lock[s] = c THEN Free ELSE lock[s]
  BY Zenon DEF Unwind, Unlocked
<1>4. \A d \in Callers \ {c} : \A s \in States : lock'[s] = d <=> lock[s] = d
  BY <1>3, CallersAssumption
<1>5. \A s \in States : lock'[s] # c
  BY <1>3, CallersAssumption, ZenonT(40)
<1>6. OwnOK(c)'
  BY <1>5, Zenon DEF OwnOK
<1>7. Known(call[c].seen)'
  BY <1>2, SMTT(30) DEF Known, NoCall
<1> QED
  BY <1>2, <1>4, <1>6, <1>7, OthersKeep, Zenon

\* A call starts from the current table and without a mutex.
LEMMA LockStart ==
  ASSUME TypeOK, LockInv, NEW c \in Callers,
         (\E item \in Sends : StartSend(c, item)) \/ (\E items \in Requests : StartReserve(c, items))
  PROVE  LockInv'
<1>1. call \in [Callers -> Call]
  BY Zenon DEF TypeOK
<1>2. call[c].pc = "idle" /\ UNCHANGED <<subs, made, key, closed, lock>>
  BY ZenonT(40) DEF StartSend, StartReserve, recipient
<1>3. \A d \in Callers \ {c} : call'[d] = call[d]
  BY <1>1, ZenonT(40) DEF StartSend, StartReserve
<1>4. call'[c].seen = subs
  BY <1>1, ZenonT(40) DEF StartSend, StartReserve, NoCall
<1>5. Known(call[c].seen)'
  BY <1>2, <1>4 DEF Known, LockInv, KeyInv
<1>6. \A s \in States : lock[s] # c
  BY <1>2 DEF LockInv, OwnOK
<1>7. OwnOK(c)'
  BY <1>2, <1>6, Zenon DEF OwnOK
<1> QED
  BY <1>2, <1>3, <1>5, <1>7, OthersKeep

\* The loop of lockRecipients takes the least federate it has not locked, so all
\* it keeps waiting for come later.
LEMMA LockRecipient ==
  ASSUME TypeOK, LockInv, NEW c \in Callers, lockRecipients(c), ~Unwind(c)
  PROVE  LockInv'
<1> DEFINE h == nextRecipient(c)
           s == call[c].seen[h]
<1>1. /\ call \in [Callers -> Call] /\ lock \in [States -> Callers \cup {Free}]
      /\ Known(call[c].seen) /\ OwnOK(c)
  BY Zenon DEF TypeOK, LockInv, KeyInv
<1>2. /\ call[c].seen \in [Handles -> States \cup {None}]
      /\ \A i \in 1..Len(call[c].items) : call[c].items[i].to \in Handles
  <2>1. /\ call[c].seen \in [Handles -> States \cup {None}] /\ call[c].items \in Seq(Delivery)
    BY <1>1 DEF Call
  <2>2. \A i \in 1..Len(call[c].items) : call[c].items[i] \in Delivery
    BY <2>1, SMTT(30)
  <2> QED
    BY <2>1, <2>2 DEF Delivery
<1>3. /\ call[c].pc = "lock" /\ Wanted(c) # Locked(c) /\ s # None /\ lock[s] = Free
      /\ ~closed[s] /\ lock' = [lock EXCEPT ![s] = c]
      /\ UNCHANGED <<subs, made, key, closed, call>>
  BY Zenon DEF lockRecipients, recipient
<1>4. Wanted(c) \ Locked(c) \in SUBSET Nat /\ Wanted(c) \ Locked(c) # {}
  <2>1. Wanted(c) \subseteq Handles
    BY <1>2 DEF Wanted
  <2>2. Handles \subseteq Nat
    BY DEF Handles
  <2>3. Locked(c) \subseteq Wanted(c)
    BY Zenon DEF Locked
  <2> HIDE DEF h, s
  <2> QED
    BY <1>3, <2>1, <2>2, <2>3, Zenon
<1>5. h \in Wanted(c) \ Locked(c) /\ \A k \in Wanted(c) \ Locked(c) : h <= k
  <2>1. \E x \in Wanted(c) \ Locked(c) : \A y \in Wanted(c) \ Locked(c) : x <= y
    BY <1>4, LeastNat, Zenon
  <2> QED
    BY <2>1 DEF nextRecipient, Least
<1> HIDE DEF h
<1>6. PICK j \in 1..Len(call[c].items) : h = call[c].items[j].to
  BY <1>5, Zenon DEF Wanted
<1>7. h \in Handles /\ h \in Int
  BY <1>2, <1>6, SMTT(30) DEF Handles
<1>8. s \in States /\ key[s] = h
  BY <1>1, <1>2, <1>3, <1>7, ZenonT(40) DEF Known
<1>9. \A t \in States : lock'[t] = IF t = s THEN c ELSE lock[t]
  BY <1>1, <1>3, <1>8, ZenonT(40)
<1>10. \A d \in Callers \ {c} : \A t \in States : lock'[t] = d <=> lock[t] = d
  BY <1>3, <1>9, CallersAssumption, Zenon
<1>11. ASSUME NEW i \in 1..Len(call[c].items), NEW k, k = call[c].items[i].to
       PROVE  \/ call[c].seen[k] \in States /\ lock'[call[c].seen[k]] = c
              \/ h < k /\ k \in Wanted(c) \ Locked(c)
  <2>1. k \in Handles /\ k \in Int /\ k \in Wanted(c)
    BY <1>2, <1>11, SMTT(30) DEF Wanted, Handles
  <2>2. CASE k \in Locked(c)
    BY <1>9, <2>2, Zenon DEF Locked, Mine
  <2>3. CASE k \notin Locked(c)
    BY <1>5, <1>7, <1>8, <1>9, <2>1, <2>3
  <2> QED
    BY <2>2, <2>3, Zenon
<1>12. ASSUME NEW t \in States, lock'[t] = c
       PROVE  /\ ~closed[t]
              /\ \E i \in 1..Len(call[c].items) : call[c].seen[call[c].items[i].to] = t
              /\ \A i \in 1..Len(call[c].items) :
                   \/ /\ call[c].seen[call[c].items[i].to] \in States
                      /\ lock'[call[c].seen[call[c].items[i].to]] = c
                   \/ key[t] < call[c].items[i].to
  <2>1. CASE t = s
    BY <1>3, <1>6, <1>8, <1>11, <2>1, ZenonT(40)
  <2>2. CASE t # s
    <3>1. lock[t] = c
      BY <1>9, <1>12, <2>2, Zenon
    <3>2. /\ ~closed[t]
          /\ \E i \in 1..Len(call[c].items) : call[c].seen[call[c].items[i].to] = t
      BY <1>1, <3>1, Zenon DEF OwnOK
    <3>3. ASSUME NEW i \in 1..Len(call[c].items),
                 ~(/\ call[c].seen[call[c].items[i].to] \in States
                   /\ lock'[call[c].seen[call[c].items[i].to]] = c)
          PROVE  key[t] < call[c].items[i].to
      <4>1. call[c].items[i].to \notin Locked(c)
        BY <1>11, <3>3, Zenon
      <4>2. call[c].items[i].to \in Wanted(c)
        BY Zenon DEF Wanted
      <4>3. ~(/\ call[c].seen[call[c].items[i].to] \in States
              /\ lock[call[c].seen[call[c].items[i].to]] = c)
        BY <4>1, <4>2, Zenon DEF Locked, Mine
      <4> QED
        BY <1>1, <1>3, <3>1, <4>3, ZenonT(40) DEF OwnOK
    <3> QED
      BY <3>2, <3>3
  <2> QED
    BY <2>1, <2>2, Zenon
<1>13. OwnOK(c)'
  BY <1>3, <1>12, ZenonT(40) DEF OwnOK
<1>14. Known(call[c].seen)'
  BY <1>1, <1>3, Zenon DEF Known
<1> QED
  BY <1>3, <1>10, <1>13, <1>14, OthersKeep, ZenonT(40)

\* Simulation and commit go on with the locks as they are.
LEMMA LockProgress ==
  ASSUME TypeOK, LockInv, NEW c \in Callers,
         UNCHANGED <<subs, made, key, closed, lock>>,
         \A d \in Callers \ {c} : call'[d] = call[d],
         call'[c].seen = call[c].seen, call'[c].items = call[c].items,
         call'[c].pc \in {"admit", "held"}
  PROVE  LockInv'
<1>1. Known(call[c].seen) /\ OwnOK(c)
  BY Zenon DEF LockInv, KeyInv
<1>2. OwnOK(c)'
  BY <1>1, ZenonT(40) DEF OwnOK
<1>3. Known(call[c].seen)'
  BY <1>1 DEF Known
<1> QED
  BY <1>2, <1>3, OthersKeep, Zenon

\* The steps of a call after its start.
LEMMA LockCall ==
  ASSUME TypeOK, LockInv, NEW c \in Callers,
         Send(c) \/ lockRecipients(c) \/ Reserve(c) \/ Admit(c) \/ Commit(c) \/ Release(c)
  PROVE  LockInv'
<1>1. call \in [Callers -> Call] /\ UNCHANGED <<subs, made, key, closed>>
  BY Zenon DEF TypeOK, Send, lockRecipients, Reserve, Admit, Commit, Release, recipient
<1>2. CASE Unwind(c)
  BY <1>1, <1>2, LockUnwind
<1>3. CASE lockRecipients(c) /\ ~Unwind(c)
  BY <1>3, LockRecipient
<1>4. CASE Send(c)
  <2>1. call[c].pc = "send" /\ call' = [call EXCEPT ![c] = NoCall] /\ lock' = lock
    BY <1>4, ZenonT(40) DEF Send
  <2>2. \A s \in States : lock[s] # c
    BY <2>1, ZenonT(40) DEF LockInv, OwnOK
  <2>3. OwnOK(c)'
    BY <2>1, <2>2 DEF OwnOK
  <2>4. call'[c] = NoCall /\ \A d \in Callers \ {c} : call'[d] = call[d]
    BY <1>1, <2>1, ZenonT(40)
  <2>5. Known(call[c].seen)'
    <3>1. \A h \in Handles : NoCall.seen[h] = None
      BY DEF NoCall
    <3> QED
      BY <2>4, <3>1, Zenon DEF Known
  <2> QED
    BY <1>1, <2>1, <2>3, <2>4, <2>5, OthersKeep, Zenon
<1>5. CASE Reserve(c)
  BY <1>1, <1>5, LockProgress, Zenon DEF Reserve, Call
<1>6. CASE Admit(c) /\ ~Unwind(c)
  <2>1. /\ \E plan, pc : /\ call' = [call EXCEPT ![c].plan = plan, ![c].pc = pc]
                         /\ pc = "held" \/ pc = "admit"
        /\ lock' = lock
    BY <1>6, Zenon DEF Admit
  <2>2. PICK plan, pc : /\ call' = [call EXCEPT ![c].plan = plan, ![c].pc = pc]
                        /\ pc \in {"held", "admit"}
    BY <2>1, Zenon
  <2>3. \A d \in Callers \ {c} : call'[d] = call[d]
    BY <1>1, <2>2
  <2>4. /\ call'[c].seen = call[c].seen /\ call'[c].items = call[c].items
        /\ call'[c].pc = pc
    BY <1>1, <2>2 DEF Call
  <2> QED
    BY <1>1, <2>1, <2>3, <2>4, LockProgress
<1>7. CASE Commit(c) /\ ~Unwind(c)
  BY <1>1, <1>7, LockProgress, ZenonT(40) DEF Commit, Call
<1>8. CASE Release(c)
  BY <1>2, <1>8, ZenonT(40) DEF Release
<1> QED
  BY <1>2, <1>3, <1>4, <1>5, <1>6, <1>7, <1>8, Zenon

\* Nobody holds a mutex at the start.
LEMMA LockInit == Init => LockInv
  BY CallersAssumption DEF Init, LockInv, KeyInv, Known, OwnOK, NoCall

\* Every step of Outbox keeps what the holders of mutexes know.
LEMMA LockNext == TypeOK /\ LockInv /\ [Next]_vars => LockInv'
<1> SUFFICES ASSUME TypeOK, LockInv, [Next]_vars PROVE LockInv'
  OBVIOUS
<1>1. 1 \in States /\ 1 \in Handles
  BY NAssumption, NStatesAssumption DEF States, Handles
<1>2. CASE Subscription
  BY <1>1, <1>2, LockSubscription, LockQueue DEF Subscription
<1>3. CASE Deferred
  BY <1>3, LockQueue DEF Deferred
<1>4. CASE Calls
  BY <1>4, LockStart, LockCall DEF Calls
<1>5. CASE \E s \in States : Read(s)
  BY <1>5, LockQueue, ZenonT(40)
<1>6. CASE UNCHANGED vars
  BY <1>6, ZenonT(40) DEF vars, recipient, LockInv, KeyInv, Known, OwnOK
<1> QED
  BY <1>2, <1>3, <1>4, <1>5, <1>6 DEF Next

\* Every behaviour keeps it.
THEOREM LocksHold == Spec => []LockInv
  BY LockInit, LockNext, TypesHold, PTL DEF Spec

\* Reservations wait for each other in handle order only, whatever callers,
\* closes and subscription changes run between their steps.
THEOREM LocksAreOrdered == Spec => []OrderedLocks
  BY OrderedFromInv, LocksHold, TypesHold, PTL

-----------------------------------------------------------------------------
(* Order of events.                                                        *)

\* The number of the last event in what was read, g, and in the first k batches
\* of the channel q.
Last(g, q, k) == IF k = 0 THEN Len(g) ELSE q[k][Len(q[k])]

\* What was read, the channel and the scratch b carry consecutive numbers.
Chain(g, q, b) ==
  /\ Follows(g, 0)
  /\ \A k \in 1..Len(q) : q[k] # << >> /\ Follows(q[k], Last(g, q, k - 1))
  /\ Follows(b, Last(g, q, Len(q)))

StateInOrder(s) ==
  /\ Chain(got[s], ch[s], scratch[s])
  /\ ~closed[s] => Last(got[s], ch[s], Len(ch[s])) + Len(scratch[s]) = accepted[s]

OrderInv == \A s \in States : StateInOrder(s)

\* Consecutive numbers are what InOrder asks for.
LEMMA InOrderFromInv == OrderInv => InOrder
  BY DEF OrderInv, StateInOrder, Chain, InOrder, Last, End

\* The last number of a chain is a number.
LEMMA LastNat ==
  ASSUME NEW g \in Seq(Nat), NEW q \in Seq(Seq(Nat)), NEW k \in 0..Len(q),
         \A j \in 1..Len(q) : q[j] # << >>
  PROVE  Last(g, q, k) \in Nat
<1>1. CASE k = 0
  BY <1>1 DEF Last
<1>2. CASE k # 0
  <2>1. q[k] \in Seq(Nat) /\ q[k] # << >>
    BY <1>2
  <2>2. q[k][Len(q[k])] \in Nat
    BY <2>1, SMTT(30)
  <2> QED
    BY <1>2, <2>2 DEF Last
<1> QED
  BY <1>1, <1>2

\* The next event joins the scratch.
LEMMA ChainAdd ==
  ASSUME NEW g \in Seq(Nat), NEW q \in Seq(Seq(Nat)), NEW b \in Seq(Nat), Chain(g, q, b)
  PROVE  Chain(g, q, Append(b, Last(g, q, Len(q)) + Len(b) + 1))
<1>1. Last(g, q, Len(q)) \in Nat
  <2>1. Len(q) \in 0..Len(q) /\ \A j \in 1..Len(q) : q[j] # << >>
    BY DEF Chain
  <2> QED
    BY <2>1, LastNat, Zenon
<1> DEFINE n == Last(g, q, Len(q))
           e == n + Len(b) + 1
<1>2. Follows(b, n)
  BY DEF Chain
<1> HIDE DEF n
<1>3. Follows(Append(b, e), n)
  <2>1. n \in Nat /\ Len(b) \in Nat /\ Len(Append(b, e)) = Len(b) + 1
    BY <1>1 DEF n
  <2>2. \A i \in 1..Len(b) : Append(b, e)[i] = b[i]
    OBVIOUS
  <2>3. Append(b, e)[Len(b) + 1] = n + (Len(b) + 1)
    BY <2>1
  <2>4. \A i \in 1..Len(b) : b[i] = n + i
    BY <1>2 DEF Follows
  <2>5. \A i \in 1..(Len(b) + 1) : i \in 1..Len(b) \/ i = Len(b) + 1
    BY <2>1, SMTT(30)
  <2> QED
    BY <2>1, <2>2, <2>3, <2>4, <2>5, Zenon DEF Follows
<1> QED
  BY <1>3 DEF Chain, n

\* The scratch becomes the last batch of the channel.
LEMMA ChainPush ==
  ASSUME NEW g \in Seq(Nat), NEW q \in Seq(Seq(Nat)), NEW b \in Seq(Nat), b # << >>,
         Chain(g, q, b)
  PROVE  /\ Chain(g, Append(q, b), << >>)
         /\ Last(g, Append(q, b), Len(Append(q, b))) = Last(g, q, Len(q)) + Len(b)
<1> DEFINE r == Append(q, b)
<1>1. r \in Seq(Seq(Nat)) /\ Len(r) = Len(q) + 1 /\ r[Len(q) + 1] = b
      /\ \A k \in 1..Len(q) : r[k] = q[k]
  OBVIOUS
<1> HIDE DEF r
<1>2. Len(q) \in Nat /\ Len(b) \in Nat \ {0}
  OBVIOUS
<1>3. \A k \in 0..Len(q) : Last(g, r, k) = Last(g, q, k)
  BY <1>1, <1>2, SMTT(30) DEF Last
<1>4. Last(g, q, Len(q)) \in Nat /\ Follows(b, Last(g, q, Len(q)))
  <2>1. Len(q) \in 0..Len(q) /\ \A j \in 1..Len(q) : q[j] # << >>
    BY DEF Chain
  <2> QED
    BY <2>1, LastNat, Zenon DEF Chain
<1>5. Last(g, r, Len(r)) = Last(g, q, Len(q)) + Len(b)
  BY <1>1, <1>2, <1>4, SMTT(30) DEF Last, Follows
<1>6. \A k \in 1..Len(r) : r[k] # << >> /\ Follows(r[k], Last(g, r, k - 1))
  <2> TAKE k \in 1..Len(r)
  <2>1. CASE k = Len(q) + 1
    <3>1. r[k] = b /\ k - 1 = Len(q) /\ Len(q) \in 0..Len(q)
      BY <1>1, <1>2, <2>1
    <3> QED
      BY <1>3, <1>4, <3>1, Zenon
  <2>2. CASE k # Len(q) + 1
    <3>1. k \in 1..Len(q) /\ k - 1 \in 0..Len(q)
      BY <1>1, <1>2, <2>2
    <3> QED
      BY <1>1, <1>3, <3>1, Zenon DEF Chain
  <2> QED
    BY <2>1, <2>2, Zenon
<1>7. Follows(<< >>, Last(g, r, Len(r)))
  BY SMTT(30) DEF Follows
<1> QED
  BY <1>5, <1>6, <1>7 DEF Chain, r

\* The stream takes the first batch.
LEMMA ChainRead ==
  ASSUME NEW g \in Seq(Nat), NEW q \in Seq(Seq(Nat)), NEW b \in Seq(Nat), q # << >>,
         Chain(g, q, b)
  PROVE  /\ Chain(g \o Head(q), Tail(q), b)
         /\ Last(g \o Head(q), Tail(q), Len(Tail(q))) = Last(g, q, Len(q))
<1> DEFINE r == Tail(q)
           f == g \o Head(q)
<1>1. /\ r \in Seq(Seq(Nat)) /\ Len(r) = Len(q) - 1 /\ Len(q) \in Nat \ {0}
      /\ \A k \in 1..Len(r) : r[k] = q[k + 1]
  OBVIOUS
<1>2. Head(q) = q[1] /\ q[1] \in Seq(Nat) /\ q[1] # << >>
  BY <1>1 DEF Chain
<1>3. /\ f \in Seq(Nat) /\ Len(f) = Len(g) + Len(q[1])
      /\ \A i \in 1..Len(g) : f[i] = g[i]
      /\ \A i \in 1..Len(q[1]) : f[Len(g) + i] = q[1][i]
  BY <1>2
<1> HIDE DEF r, f
<1>4. Len(g) \in Nat /\ Len(q[1]) \in Nat \ {0}
  BY <1>2
<1>5. /\ \A i \in 1..Len(g) : g[i] = 0 + i
      /\ \A i \in 1..Len(q[1]) : q[1][i] = Len(g) + i
  <2>1. 1 \in 1..Len(q) /\ Last(g, q, 1 - 1) = Len(g)
    BY <1>1 DEF Last
  <2> QED
    BY <2>1, Zenon DEF Chain, Follows
<1>6. q[1][Len(q[1])] = Len(f)
  <2>1. Len(q[1]) \in 1..Len(q[1])
    BY <1>4
  <2> QED
    BY <1>3, <1>5, <2>1, Zenon
<1>7. \A k \in 0..Len(r) : Last(f, r, k) = Last(g, q, k + 1)
  <2> TAKE k \in 0..Len(r)
  <2>1. CASE k = 0
    BY <1>6, <2>1 DEF Last
  <2>2. CASE k # 0
    BY <1>1, <2>2, SMTT(30) DEF Last
  <2> QED
    BY <2>1, <2>2
<1>8. Follows(f, 0)
  <2> SUFFICES ASSUME NEW i \in 1..Len(f) PROVE f[i] = 0 + i
    BY DEF Follows
  <2>1. CASE i <= Len(g)
    <3>1. i \in 1..Len(g)
      BY <1>3, <1>4, <2>1, SMTT(30)
    <3> QED
      BY <1>3, <1>5, <3>1, Zenon
  <2>2. CASE i > Len(g)
    <3>1. i - Len(g) \in 1..Len(q[1]) /\ i = Len(g) + (i - Len(g))
      BY <1>3, <1>4, <2>2, SMTT(30)
    <3>2. f[Len(g) + (i - Len(g))] = q[1][i - Len(g)]
      BY <1>3, <3>1
    <3>3. q[1][i - Len(g)] = Len(g) + (i - Len(g))
      BY <1>5, <3>1, Zenon
    <3> QED
      BY <1>3, <1>4, <3>1, <3>2, <3>3, SMTT(30)
  <2> QED
    BY <1>3, <1>4, <2>1, <2>2
<1>9. \A k \in 1..Len(r) : r[k] # << >> /\ Follows(r[k], Last(f, r, k - 1))
  <2> TAKE k \in 1..Len(r)
  <2>1. k + 1 \in 1..Len(q) /\ k - 1 \in 0..Len(r) /\ (k - 1) + 1 = (k + 1) - 1
    BY <1>1
  <2>2. q[k + 1] # << >> /\ Follows(q[k + 1], Last(g, q, (k + 1) - 1))
    BY <2>1 DEF Chain
  <2>3. Last(f, r, k - 1) = Last(g, q, (k + 1) - 1)
    BY <1>7, <2>1
  <2> QED
    BY <1>1, <2>2, <2>3, Zenon
<1>10. Last(f, r, Len(r)) = Last(g, q, Len(q))
  BY <1>1, <1>7, SMTT(30)
<1> QED
  BY <1>8, <1>9, <1>10 DEF Chain, r, f

\* The tables an order proof looks at.
QueueTypes ==
  /\ ch \in [States -> Seq(Seq(Nat))] /\ scratch \in [States -> Seq(Nat)]
  /\ accepted \in [States -> Nat] /\ got \in [States -> Seq(Nat)]
  /\ closed \in [States -> BOOLEAN]

\* A step at one state leaves the order at the others alone.
LEMMA OrderFrame ==
  ASSUME OrderInv, NEW s \in States, StateInOrder(s)',
         \A t \in States \ {s} :
           /\ ch'[t] = ch[t] /\ scratch'[t] = scratch[t] /\ accepted'[t] = accepted[t]
           /\ got'[t] = got[t] /\ closed'[t] = closed[t]
  PROVE  OrderInv'
<1> SUFFICES ASSUME NEW t \in States, t # s PROVE StateInOrder(t)'
  BY DEF OrderInv
<1>1. StateInOrder(t)
  BY Zenon DEF OrderInv
<1> QED
  BY <1>1 DEF StateInOrder

\* An open state takes the next number.
LEMMA OrderAccept ==
  ASSUME QueueTypes, OrderInv, NEW s \in States, NEW grant, ~closed[s],
         Accept(s, grant), UNCHANGED <<got, closed>>
  PROVE  OrderInv'
<1> DEFINE n == Last(got[s], ch[s], Len(ch[s]))
           batch == Append(scratch[s], accepted[s] + 1)
<1>1. /\ ch[s] \in Seq(Seq(Nat)) /\ scratch[s] \in Seq(Nat) /\ got[s] \in Seq(Nat)
      /\ accepted[s] \in Nat
  BY Zenon DEF QueueTypes
<1>2. Chain(got[s], ch[s], scratch[s]) /\ n + Len(scratch[s]) = accepted[s]
  BY Zenon DEF OrderInv, StateInOrder
<1>3. Chain(got[s], ch[s], batch) /\ batch \in Seq(Nat) /\ batch # << >>
      /\ Len(batch) = Len(scratch[s]) + 1
  <2>1. Chain(got[s], ch[s], Append(scratch[s], n + Len(scratch[s]) + 1))
    BY <1>1, <1>2, ChainAdd, Zenon
  <2>2. Chain(got[s], ch[s], batch)
    BY <1>2, <2>1, Zenon
  <2>3. accepted[s] + 1 \in Nat
    BY <1>1
  <2>4. batch \in Seq(Nat) /\ Len(batch) = Len(scratch[s]) + 1
    BY <1>1, <2>3
  <2> HIDE DEF batch
  <2>5. batch # << >>
    BY <1>1, <2>4
  <2> QED
    BY <2>2, <2>4, <2>5, Zenon
<1>4. n \in Nat
  <2>1. Len(ch[s]) \in 0..Len(ch[s]) /\ \A j \in 1..Len(ch[s]) : ch[s][j] # << >>
    BY <1>1, <1>2, SMTT(30) DEF Chain
  <2> QED
    BY <1>1, <2>1, LastNat, Zenon
<1> HIDE DEF n, batch
<1>5. /\ accepted' = [accepted EXCEPT ![s] = @ + 1]
      /\ \/ /\ ch' = [ch EXCEPT ![s] = Append(@, batch)]
            /\ scratch' = [scratch EXCEPT ![s] = << >>]
         \/ scratch' = [scratch EXCEPT ![s] = batch] /\ ch' = ch
  BY DEF Accept, batch
<1>6. accepted'[s] = n + Len(batch)
  BY <1>1, <1>2, <1>3, <1>4, <1>5, SMTT(30) DEF QueueTypes
<1>7. StateInOrder(s)'
  <2>1. CASE /\ ch' = [ch EXCEPT ![s] = Append(@, batch)]
             /\ scratch' = [scratch EXCEPT ![s] = << >>]
    <3>1. ch'[s] = Append(ch[s], batch) /\ scratch'[s] = << >> /\ got'[s] = got[s]
      BY <2>1 DEF QueueTypes
    <3>2. /\ Chain(got[s], Append(ch[s], batch), << >>)
          /\ Last(got[s], Append(ch[s], batch), Len(Append(ch[s], batch))) = n + Len(batch)
      BY <1>1, <1>3, ChainPush, Zenon DEF n
    <3>3. Len(<< >>) = 0 /\ n + Len(batch) \in Nat
      BY <1>3, <1>4, SMTT(30)
    <3> QED
      BY <1>6, <3>1, <3>2, <3>3, SMTT(30) DEF StateInOrder
  <2>2. CASE scratch' = [scratch EXCEPT ![s] = batch] /\ ch' = ch
    <3>1. ch'[s] = ch[s] /\ scratch'[s] = batch /\ got'[s] = got[s]
      BY <2>2 DEF QueueTypes
    <3> QED
      BY <1>3, <1>6, <3>1 DEF StateInOrder, n
  <2> QED
    BY <1>5, <2>1, <2>2, Zenon
<1>8. \A t \in States \ {s} :
        ch'[t] = ch[t] /\ scratch'[t] = scratch[t] /\ accepted'[t] = accepted[t]
  BY <1>5 DEF QueueTypes
<1> QED
  BY <1>7, <1>8, OrderFrame

\* The deferred flush moves the scratch to the channel.
LEMMA OrderFlush ==
  ASSUME QueueTypes, OrderInv, NEW s \in States, flushScratch(s)
  PROVE  OrderInv'
<1>1. /\ ch[s] \in Seq(Seq(Nat)) /\ scratch[s] \in Seq(Nat) /\ got[s] \in Seq(Nat)
      /\ Chain(got[s], ch[s], scratch[s])
      /\ ~closed[s] => Last(got[s], ch[s], Len(ch[s])) + Len(scratch[s]) = accepted[s]
  BY DEF QueueTypes, OrderInv, StateInOrder
<1>2. UNCHANGED <<got, closed, accepted>>
  BY Zenon DEF flushScratch, recipient, queue
<1>3. CASE UNCHANGED <<ch, scratch>>
  BY <1>2, <1>3, ZenonT(40) DEF OrderInv, StateInOrder
<1>4. CASE ~(UNCHANGED <<ch, scratch>>)
  <2>1. /\ ch' = [ch EXCEPT ![s] = IF scratch[s] = << >> THEN @ ELSE Append(@, scratch[s])]
        /\ scratch' = [scratch EXCEPT ![s] = << >>] /\ ~closed[s]
    BY <1>4 DEF flushScratch, queue
  <2>2. \A t \in States \ {s} : ch'[t] = ch[t] /\ scratch'[t] = scratch[t]
    BY <2>1 DEF QueueTypes
  <2>3. StateInOrder(s)'
    <3>1. CASE scratch[s] = << >>
      <4>1. ch'[s] = ch[s] /\ scratch'[s] = scratch[s]
        BY <2>1, <3>1, Zenon DEF QueueTypes
      <4> QED
        BY <1>1, <1>2, <4>1, Zenon DEF StateInOrder
    <3>2. CASE scratch[s] # << >>
      <4>1. ch'[s] = Append(ch[s], scratch[s]) /\ scratch'[s] = << >>
        BY <2>1, <3>2, ZenonT(40) DEF QueueTypes
      <4>2. /\ Chain(got[s], Append(ch[s], scratch[s]), << >>)
            /\ Last(got[s], Append(ch[s], scratch[s]), Len(Append(ch[s], scratch[s])))
                 = Last(got[s], ch[s], Len(ch[s])) + Len(scratch[s])
        BY <1>1, <3>2, ChainPush
      <4>3. accepted[s] \in Nat /\ Len(<< >>) = 0
        BY DEF QueueTypes
      <4> QED
        BY <1>1, <1>2, <2>1, <4>1, <4>2, <4>3 DEF StateInOrder
    <3> QED
      BY <3>1, <3>2, ZenonT(40)
  <2> QED
    BY <1>2, <2>2, <2>3, OrderFrame, Zenon
<1> QED
  BY <1>3, <1>4, Zenon

\* A close appends the rest or drops it; what is left still is in order.
LEMMA OrderClose ==
  ASSUME QueueTypes, OrderInv, NEW s \in States, closeRecipientState(s)
  PROVE  OrderInv'
<1>1. /\ ch[s] \in Seq(Seq(Nat)) /\ scratch[s] \in Seq(Nat) /\ got[s] \in Seq(Nat)
      /\ Chain(got[s], ch[s], scratch[s])
  BY DEF QueueTypes, OrderInv, StateInOrder
<1>2. /\ UNCHANGED <<got, accepted>> /\ closed' = [closed EXCEPT ![s] = TRUE]
      /\ scratch' = [scratch EXCEPT ![s] = << >>]
      /\ \/ ch' = [ch EXCEPT ![s] = @]
         \/ scratch[s] # << >> /\ ch' = [ch EXCEPT ![s] = Append(@, scratch[s])]
  BY Zenon DEF closeRecipientState
<1>3. closed'[s] /\ scratch'[s] = << >> /\ got'[s] = got[s]
  BY <1>2, Zenon DEF QueueTypes
<1>4. Chain(got[s], ch[s], << >>)
  BY <1>1 DEF Chain, Follows
<1>5. Chain(got[s], ch'[s], << >>)
  <2>1. CASE ch'[s] = ch[s]
    BY <1>4, <2>1, Zenon
  <2>2. CASE scratch[s] # << >> /\ ch'[s] = Append(ch[s], scratch[s])
    BY <1>1, <2>2, ChainPush, Zenon
  <2> QED
    BY <1>2, <2>1, <2>2, Zenon DEF QueueTypes
<1>6. StateInOrder(s)'
  BY <1>3, <1>5 DEF StateInOrder
<1>7. \A t \in States \ {s} :
        ch'[t] = ch[t] /\ scratch'[t] = scratch[t] /\ closed'[t] = closed[t]
  BY <1>2, Zenon DEF QueueTypes
<1> QED
  BY <1>2, <1>6, <1>7, OrderFrame, Zenon

\* The stream takes the first batch.
LEMMA OrderRead ==
  ASSUME QueueTypes, OrderInv, NEW s \in States, Read(s)
  PROVE  OrderInv'
<1>1. /\ ch[s] \in Seq(Seq(Nat)) /\ scratch[s] \in Seq(Nat) /\ got[s] \in Seq(Nat)
      /\ Chain(got[s], ch[s], scratch[s])
      /\ ~closed[s] => Last(got[s], ch[s], Len(ch[s])) + Len(scratch[s]) = accepted[s]
  BY DEF QueueTypes, OrderInv, StateInOrder
<1>2. /\ ch[s] # << >> /\ got' = [got EXCEPT ![s] = @ \o Head(ch[s])]
      /\ ch' = [ch EXCEPT ![s] = Tail(@)] /\ UNCHANGED <<scratch, accepted, closed>>
  BY DEF Read, recipient
<1>3. got'[s] = got[s] \o Head(ch[s]) /\ ch'[s] = Tail(ch[s])
  BY <1>2, Zenon DEF QueueTypes
<1>4. StateInOrder(s)'
  BY <1>1, <1>2, <1>3, ChainRead, Zenon DEF StateInOrder
<1>5. \A t \in States \ {s} : got'[t] = got[t] /\ ch'[t] = ch[t]
  BY <1>2, Zenon DEF QueueTypes
<1> QED
  BY <1>2, <1>4, <1>5, OrderFrame, Zenon

\* Empty queues are in order.
LEMMA OrderInit == Init => OrderInv
<1> SUFFICES ASSUME Init, NEW s \in States PROVE StateInOrder(s)
  BY DEF OrderInv
<1>1. got[s] = << >> /\ ch[s] = << >> /\ scratch[s] = << >> /\ accepted[s] = 0
  BY DEF Init
<1> QED
  BY <1>1 DEF StateInOrder, Chain, Last, Follows

\* Every step of Outbox keeps the numbers consecutive.
LEMMA OrderNext == IInv /\ LockInv /\ OrderInv /\ [Next]_vars => OrderInv'
<1> SUFFICES ASSUME IInv, LockInv, OrderInv, [Next]_vars PROVE OrderInv'
  OBVIOUS
<1>1. TypeOK /\ QueueTypes
  BY Zenon DEF IInv, TypeOK, QueueTypes
<1>2. ASSUME UNCHANGED <<ch, scratch, accepted, got, closed>> PROVE OrderInv'
  BY <1>2 DEF OrderInv, StateInOrder
<1>3. CASE Subscription
  <2>1. CASE \E s \in States : closeRecipientState(s)
    BY <1>1, <2>1, OrderClose, Zenon
  <2>2. CASE ~\E s \in States : closeRecipientState(s)
    BY <1>2, <1>3, <2>2
       DEF Subscription, Bind, Subscribe, Create, Unbind, UnbindFederation, Cancel, queue
  <2> QED
    BY <2>1, <2>2
<1>4. CASE Deferred
  <2>1. CASE \E s \in States : flushScratch(s)
    BY <1>1, <2>1, OrderFlush, Zenon
  <2>2. CASE \E s \in States : Fire(s) \/ SnapshotGeneration(s)
    BY <1>2, <2>2 DEF Fire, SnapshotGeneration, queue, recipient
  <2> QED
    BY <1>4, <2>1, <2>2 DEF Deferred
<1>5. CASE Calls
  <2>1. PICK c \in Callers :
          \/ \E item \in Sends : StartSend(c, item)
          \/ Send(c)
          \/ \E items \in Requests : StartReserve(c, items)
          \/ lockRecipients(c) \/ Reserve(c) \/ Admit(c) \/ Commit(c) \/ Release(c)
    BY <1>5 DEF Calls
  <2>2. CASE Send(c)
    <3> DEFINE item == Head(call[c].items)
               s == call[c].seen[item.to]
    <3>1. UNCHANGED queue \/ (~closed[s] /\ Accept(s, item.grant))
      BY <2>2, ZenonT(40) DEF Send
    <3>2. UNCHANGED <<got, closed>>
      BY <2>2, ZenonT(40) DEF Send, recipient
    <3>3. call[c] \in Call /\ call[c].pc = "send"
      BY <1>1, <2>2, ZenonT(40) DEF TypeOK, Send
    <3>4. Len(call[c].items) > 0 /\ call[c].seen[call[c].items[1].to] \in States
      BY <3>3, Zenon DEF IInv, CallerOK, PlanProgress
    <3>5. s \in States
      BY <3>3, <3>4 DEF Call
    <3> HIDE DEF s, item
    <3> QED
      BY <1>1, <1>2, <3>1, <3>2, <3>5, OrderAccept, ZenonT(40) DEF queue
  <2>3. CASE Commit(c)
    <3> DEFINE item == call[c].items[call[c].next]
               s == call[c].seen[item.to]
    <3>1. call[c].pc = "held" /\ Accept(s, item.grant) /\ UNCHANGED <<got, closed>>
      BY <2>3, ZenonT(40) DEF Commit, recipient
    <3>2. call[c] \in Call /\ call[c].next <= Len(call[c].items)
      BY <1>1, <3>1, Zenon DEF TypeOK, IInv, CallerOK, PlanProgress
    <3>3. call[c].next \in 1..Len(call[c].items)
      BY <3>2, SMTT(30) DEF Call
    <3>4. s \in States /\ lock[s] = c
      BY <3>1, <3>3, ZenonT(40) DEF IInv, CallerOK, HoldsLocks
    <3>5. ~closed[s]
      BY <3>4, ZenonT(40) DEF LockInv, OwnOK
    <3> HIDE DEF s, item
    <3> QED
      BY <1>1, <3>1, <3>4, <3>5, OrderAccept, Zenon
  <2>4. CASE ~Send(c) /\ ~Commit(c)
    BY <1>2, <2>1, <2>4, Zenon
       DEF StartSend, StartReserve, lockRecipients, Reserve, Admit, Release, queue, recipient
  <2> QED
    BY <2>2, <2>3, <2>4
<1>6. CASE \E s \in States : Read(s)
  BY <1>1, <1>6, OrderRead
<1>7. CASE UNCHANGED vars
  BY <1>2, <1>7 DEF vars, queue, recipient
<1> QED
  BY <1>3, <1>4, <1>5, <1>6, <1>7 DEF Next

\* Every behaviour keeps them.
THEOREM OrderHolds == Spec => []OrderInv
  BY OrderInit, OrderNext, LocksHold, InvHolds, PTL DEF Spec

\* No event is lost, repeated or overtaken between acceptance and the stream:
\* not by a deferred flush, a close, a refused send or a reservation's commits.
THEOREM EventsStayInOrder == Spec => []InOrder
  BY InOrderFromInv, OrderHolds, PTL
=============================================================================
