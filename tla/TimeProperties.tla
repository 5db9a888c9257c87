--------------------------- MODULE TimeProperties ---------------------------
(***************************************************************************)
(* What TimeManager is checked for.                                        *)
(***************************************************************************)
EXTENDS TimeManager, Functions

\* The tables hold what the code's types and guards allow: pending requests
\* carry a mode and a target not behind the federate, projections start from a
\* lookahead above their target, queues hold messages that were sent.
TypeOK ==
  /\ fs \in [Handles -> FederateState]
  /\ ns \in [Handles -> NERState]
  /\ \A h \in Handles :
       /\ ns[h].mode \in (IF ns[h].pending THEN Modes ELSE {"none"})
       /\ ns[h].requested \in (IF ns[h].pending THEN ns[h].current..MaxTime ELSE {0})
       /\ fs[h].reducing => /\ fs[h].lookaheadTarget < fs[h].originValue
                            /\ fs[h].originTime <= ns[h].current
  /\ room \in [Handles -> 0..Capacity]
  /\ passed \in [Handles -> SUBSET Checked]
  /\ joined \subseteq Handles /\ subscribed \subseteq joined /\ stall \subseteq Handles
  /\ halted \in BOOLEAN /\ retry \in BOOLEAN /\ faults \in 0..MaxFaults
  /\ eval \in [phase : Phases, at : 1..(2 * N + 1)]
  /\ owed \in 0..MaxOwed
  /\ Len(sent) <= MaxMsgs

\* A message from a regulating sender that waits for a constrained federate is
\* never in that federate's past: its timestamp is at or after the federate's
\* time, and after it once a TAR or NER grant has closed that time.
NoPastTSO ==
  \A h \in Handles : fs[h].constrained =>
    \A i \in 1..Len(ns[h].tso) : sent[ns[h].tso[i].id].regulated =>
      ns[h].tso[i].ts >= Greater(ns[h].current, receiveFrontier(fs[h], ns[h]))

\* What a constrained federate has been granted or handed stays behind every
\* bound its peers still promise: no regulator, even after an early grant for a
\* queued message, may send below the federate's receive frontier.
HorizonCoversFrontier ==
  \A h \in Handles : fs[h].constrained =>
    availableHorizon(fs, ns, h) >= receiveFrontier(fs[h], ns[h])

\* When the evaluator has nothing left to do, nothing it could do is left:
\* no caller owes an evaluation, no retry is marked, the federation runs, and
\* yet no pending advance may be granted, no activation is ready and no flush
\* request waits.
Idle == eval = Free /\ owed = 0 /\ ~retry /\ ~halted

NoLostWakeup ==
  Idle => \A h \in Handles :
            /\ ns[h].pending => decideCandidateGrant(fs, ns, h) = NoTime
            /\ enableTarget(fs, ns, h, TRUE) = NoTime
            /\ enableTarget(fs, ns, h, FALSE) = NoTime

\* Federates that only send with their promise do not block each other for
\* ever: whenever the evaluator is idle, some joined federate is free to act.
NoGridlock ==
  Idle /\ joined # {} => \E h \in joined : ~ns[h].pending

\* Each message sent to a federate that has not resigned is in exactly one
\* place - waiting in one of its queues, handed over once, or discarded by its
\* subscription filter - unless it was retracted while it waited.
Conserved ==
  \A i \in 1..Len(sent) : \A h \in sent[i].to \cap joined :
    LET places == Cardinality({k \in 1..Len(ns[h].tso) : ns[h].tso[k].id = i})
                + Cardinality({k \in 1..Len(ns[h].ro) : ns[h].ro[k].id = i})
                + Cardinality({k \in 1..Len(got[h]) : got[h][k].id = i})
                + (IF h \in sent[i].discarded THEN 1 ELSE 0)
    IN  IF sent[i].retracted THEN places <= 1 ELSE places = 1

\* Outside flush requests, a constrained federate is handed timestamp-order
\* messages in timestamp order, whatever prefixes and retries they came in.
OrderedDelivery ==
  \A h \in Handles : \A i, j \in 1..Len(got[h]) :
    i < j /\ got[h][i].order = "TSO" /\ got[h][j].order = "TSO"
      => got[h][i].ts <= got[h][j].ts

\* A retracted message waits in no queue, and everyone who was handed it was
\* asked to retract it.
RetractionReachesAll ==
  \A i \in 1..Len(sent) : sent[i].retracted =>
    \A h \in Handles \ {sent[i].sender} :
      /\ i \notin Ids(ns[h].tso)
      /\ h \in joined /\ i \in Ids(got[h]) => h \in sent[i].asked


\* Nobody is asked to retract a message that was never put in their callback
\* queue: a delivery is recorded for retraction after the queue accepted it.
AskedWasHanded ==
  \A i \in 1..Len(sent) : \A h \in sent[i].asked : i \in Ids(got[h])

\* A grant leaves nothing behind: when a constrained federate's request is
\* answered, its time moved within the request and every message up to the
\* granted time (for a flush, every message) has left its queue, also when the
\* grant follows refused or failed attempts.
GrantCarriesMessages ==
  [][\A h \in joined' : ns[h].pending /\ ~ns'[h].pending =>
       /\ ns'[h].current \in ns[h].current..ns[h].requested
       /\ fs[h].constrained =>
            \A t \in Stamps(ns'[h].tso) : t > ns'[h].current /\ ns[h].mode # "FQR"]_vars

\* Logical time never runs backwards while a federate is joined, whatever
\* grants, activations, retries and rollbacks it goes through.
TimeNeverRegresses ==
  [][\A h \in joined' : ns'[h].current >= ns[h].current]_vars

\* What is left of a turn of the loop that was under way when the federation was
\* halted: the loop looks at the mark only at its head.
TurnLeft(e) ==
  CASE e.phase = "enable" /\ e # Loop -> 6 * N + 6 - e.at
    [] e.phase = "flush"              -> 4 * N + 4 - e.at
    [] e.phase = "grant"              -> 2 * N + 2 - e.at
    [] OTHER                          -> 0

\* A federate's time, request, engagement, lookahead and delivery mode.
TimeState(f, n) == <<f, n.current, n.pending, n.requested, n.mode, n.strictZero, n.async>>

\* A step after which no more can come than could before it.
WindsDown ==
  /\ halted'
  /\ TurnLeft(eval') <= TurnLeft(eval)
  /\ \A h \in Handles : passed'[h] \subseteq passed[h]
  /\ \A h \in joined' : TimeState(fs'[h], ns'[h]) # TimeState(fs[h], ns[h]) =>
       passed'[h] # passed[h] \/ TurnLeft(eval') < TurnLeft(eval)

\* A halted federation winds down: nothing is admitted any more, and each later
\* change of a federate's time state uses up one of its calls that had passed the
\* halted check before the mark, or a part of the turn of the loop that was under
\* way at the mark.  So the changes after a halt are finitely many, whichever
\* services were waiting for the lease.
HaltWindsDown == [][halted => WindsDown]_vars

Work(n) == SumFunction([h \in Handles |->
             Len(n[h].tso) + Len(n[h].ro) + (IF n[h].pending THEN 1 ELSE 0)])

\* The evaluator's loop ends: each turn that goes back to its head has answered
\* a request or handed over or discarded a held message.
LoopTerminates ==
  [][tryGrantPending /\ eval' = Loop => Work(ns') < Work(ns)]_vars

\* Whoever holds the lease goes on with its turns (weak fairness, a held lease
\* always having a next turn); that they come to an end is not assumed.  The lease
\* is a Go mutex, which does not starve a waiting caller; the retry worker polls
\* for ever; federates keep reading their streams.
Fairness ==
  /\ []<>(eval = Free) \/ []<><<tryGrantPending \/ Resume>>_vars
  /\ SF_vars(StartEvaluation)
  /\ SF_vars(StartResume)
  /\ \A h \in Handles : WF_vars(ReadCallback(h))

FairSpec == Spec /\ Fairness

\* A request the grant rule admits is granted, however often the callback queue
\* refuses it, unless the rule stops admitting it or the federation halts.
RequestsResolved ==
  \A h \in Handles :
    (ns[h].pending /\ decideCandidateGrant(fs, ns, h) # NoTime)
      ~> (\/ ~ns[h].pending
          \/ decideCandidateGrant(fs, ns, h) = NoTime
          \/ halted)

\* Messages still held for a federate that gave up its time constraint reach it
\* without any further call; only its own new requests, whose grants compete for
\* the same queue, or a new constraint can keep them back.
HeldMessagesLeave ==
  \A h \in Handles :
    (~fs[h].constrained /\ ns[h].tso # << >>)
      ~> (fs[h].constrained \/ ns[h].pending \/ ns[h].tso = << >>)

=============================================================================
