---------------------------- MODULE TimeManager ----------------------------
(***************************************************************************)
(* The time manager of one federation execution (rti/internal/hla/time)    *)
(* together with the send path that feeds its queues.                      *)
(*                                                                         *)
(* Every service that changes time state takes the federation's evaluator  *)
(* lease, records its change and releases the lease; then it calls         *)
(* tryGrantPending, which takes the lease again and runs a fixed-point     *)
(* loop: complete ready activations, flush FQR requesters, grant the first *)
(* ready advance, start over.  A service here is one step; owed counts the *)
(* callers that have released the lease and not yet come back, so other    *)
(* services run between the two.  The loop is one step per callback        *)
(* admission (eval says how far it is), so what does not take the lease -  *)
(* the stall checker, the callback reader, a subscription change - runs    *)
(* between its iterations.                                                 *)
(*                                                                         *)
(* Each federate's callback queue is bounded; a sequence that does not fit *)
(* leaves in a prefix, the rest goes back to its queue and retry tells the *)
(* delivery worker to resume.                                              *)
(***************************************************************************)
EXTENDS TimeQueues

CONSTANTS
  Profiles,      \* engagements [Handles -> [reg, con : BOOLEAN, la : Time]] at time zero
  Lookaheads,    \* lookaheads that federates ask for
  AdvanceModes,  \* [Handles -> SUBSET Modes]: the advance services each federate calls
  Services,      \* the other services called in this instance
  Unregulated,   \* federates that send TSO messages without regulating
  Slow,          \* federates whose callback queue can fill up
  Capacity,      \* slots of a callback queue
  MaxFaults,     \* bound on journal and commit failures
  MaxOwed        \* bound on the services between their change and its evaluation

ASSUME EngagementAssumption ==
  /\ Profiles \subseteq [Handles -> [reg : BOOLEAN, con : BOOLEAN, la : Time]]
  /\ Lookaheads \subseteq Time
ASSUME BoundsAssumption ==
  /\ Capacity \in Nat /\ MaxFaults \in Nat /\ MaxOwed \in Nat

VARIABLES
  fs,          \* stateStore: engagement, lookahead, receive history
  ns,          \* nerStore: logical time, pending request, held messages
  joined,      \* the roster
  subscribed,  \* federates whose subscriptions match the messages
  room,        \* free slots of each callback queue
  halted,      \* the stall checker's mark
  stall,       \* pending federates in the stall checker's snapshot
  passed,      \* calls that passed the halted check and await the lease
  eval,        \* evaluator lease: free, or the loop's phase and position
  owed,        \* how many callers are about to run tryGrantPending
  retry,       \* deliveryRetries: the worker has something to resume
  sent,        \* every message sent, with its retraction record
  got,         \* per federate, the messages handed to its callback queue
  faults       \* failures so far

vars == <<fs, ns, joined, subscribed, room, halted, stall, passed, eval, owed,
          retry, sent, got, faults>>

Checked == {"modifyLookahead", "disableConstrained", "enableAsync", "disableAsync"}
Phases == {"free", "resume", "enable", "flush", "grant"}
Free == [phase |-> "free", at |-> 1]
Loop == [phase |-> "enable", at |-> 1]

Init ==
  /\ \E p \in Profiles :
       fs = [h \in Handles |-> [NoFederateState EXCEPT
               !.regulating = p[h].reg, !.lookahead = p[h].la, !.constrained = p[h].con]]
  /\ ns = [h \in Handles |-> NoNERState]
  /\ joined = Handles
  /\ subscribed = Handles
  /\ room = [h \in Handles |-> Capacity]
  /\ halted = FALSE
  /\ stall = {}
  /\ passed = [h \in Handles |-> {}]
  /\ eval = Free
  /\ owed = 0
  /\ retry = FALSE
  /\ sent = << >>
  /\ got = [h \in Handles |-> << >>]
  /\ faults = 0

-----------------------------------------------------------------------------
(* Handing held messages to the callback queue.                            *)

\* What h is still interested in when the messages leave for it.
FilterQueuedMessage(h, release) == IF h \in subscribed THEN release ELSE << >>

\* How a release to h followed by cb callbacks can end.
Outcomes(h, release, cb) ==
  Endings(release, FilterQueuedMessage(h, release), cb, room[h],
          h \in Slow, faults < MaxFaults)

\* The callback queue, the receive log and the retraction ledger after o.
\* ledger is the messages recorded as delivered for retraction.
\* ordered says whether h was constrained when the messages were taken.
Hand(h, ordered, release, o, cb, ledger) ==
  LET order(m) == IF m.ro \/ ~ordered THEN "RO"
                  ELSE IF ns[h].pending /\ ns[h].mode = "FQR" THEN "flush" ELSE "TSO"
      gone == Ids(release) \ (Ids(o.left) \cup Ids(o.given))
  IN  /\ room' = [room EXCEPT ![h] = IF h \in Slow
                    THEN @ - Len(o.given) - (IF o.done THEN cb ELSE 0) ELSE @]
      /\ got' = [got EXCEPT ![h] = @ \o
                    [k \in 1..Len(o.given) |-> [id |-> o.given[k].id, ts |-> o.given[k].ts,
                                                order |-> order(o.given[k])]]]
      /\ sent' = [i \in 1..Len(sent) |->
                    [sent[i] EXCEPT
                       !.delivered = RecordRetractionDeliveries(@, i, h, ledger),
                       !.discarded = IF i \in gone THEN @ \cup {h} ELSE @]]
      /\ faults' = IF o.fault THEN faults + 1 ELSE faults

-----------------------------------------------------------------------------
(* Services.  Calls the code rejects change nothing and are left out.      *)

Tables == <<joined, subscribed, room, halted, stall, sent, got, faults>>

\* The lease is released and tryGrantPending is next.
Owe ==
  /\ owed < MaxOwed
  /\ owed' = owed + 1

\* Mutant: a request behind the federate's time is accepted.
recordAdvance_Behind(h, t, mode) ==
  /\ mode \in AdvanceModes[h]
  /\ eval = Free /\ ~halted /\ h \in joined
  /\ ~fs[h].regulationPending /\ ~fs[h].constrainedPending
  /\ ~ns[h].pending
  /\ ns' = [ns EXCEPT ![h] = [@ EXCEPT !.pending = TRUE, !.requested = t,
                                       !.mode = mode, !.flushMinimum = NoTime]]
  /\ Owe
  /\ UNCHANGED <<fs, passed, eval, retry, Tables>>

recordAdvance(h, t, mode) ==
  /\ mode \in AdvanceModes[h]
  /\ eval = Free /\ ~halted /\ h \in joined
  /\ ~fs[h].regulationPending /\ ~fs[h].constrainedPending
  /\ t >= ns[h].current
  /\ ~ns[h].pending
  /\ ns' = [ns EXCEPT ![h] = [@ EXCEPT !.pending = TRUE, !.requested = t,
                                       !.mode = mode, !.flushMinimum = NoTime]]
  /\ Owe
  /\ UNCHANGED <<fs, passed, eval, retry, Tables>>

requestRegulation(h, la) ==
  /\ "enable" \in Services
  /\ eval = Free /\ ~halted /\ h \in joined
  /\ ~ns[h].pending /\ ~fs[h].regulationPending /\ ~fs[h].regulating
  /\ fs' = [fs EXCEPT ![h] = [@ EXCEPT !.regulationPending = TRUE,
                                       !.regulationLookahead = la]]
  /\ Owe
  /\ UNCHANGED <<ns, passed, eval, retry, Tables>>

requestConstrained(h) ==
  /\ "enable" \in Services
  /\ eval = Free /\ ~halted /\ h \in joined
  /\ ~ns[h].pending /\ ~fs[h].constrainedPending /\ ~fs[h].constrained
  /\ fs' = [fs EXCEPT ![h].constrainedPending = TRUE]
  /\ Owe
  /\ UNCHANGED <<ns, passed, eval, retry, Tables>>

\* Mutant: nobody evaluates after a regulator leaves.
disableRegulation_Silent(h) ==
  /\ "disable" \in Services
  /\ eval = Free /\ ~halted /\ h \in joined
  /\ fs[h].regulating
  /\ fs' = [fs EXCEPT ![h] = [@ EXCEPT !.regulating = FALSE, !.lookahead = 0,
               !.lookaheadTarget = 0, !.reducing = FALSE, !.originTime = 0, !.originValue = 0]]
  /\ UNCHANGED <<ns, passed, eval, owed, retry, Tables>>

disableRegulation(h) ==
  /\ "disable" \in Services
  /\ eval = Free /\ ~halted /\ h \in joined
  /\ fs[h].regulating
  /\ fs' = [fs EXCEPT ![h] = [@ EXCEPT !.regulating = FALSE, !.lookahead = 0,
               !.lookaheadTarget = 0, !.reducing = FALSE, !.originTime = 0, !.originValue = 0]]
  /\ Owe
  /\ UNCHANGED <<ns, passed, eval, retry, Tables>>

\* Mutant: a call gets past its check after the federation was halted.
PassHaltedCheck_Late(h, call) ==
  /\ {call, "stall"} \subseteq Services /\ h \in joined
  /\ call \notin passed[h]
  /\ passed' = [passed EXCEPT ![h] = @ \cup {call}]
  /\ UNCHANGED <<fs, ns, eval, owed, retry, Tables>>

\* Four services check halted before they wait for the lease; where nothing
\* halts the federation the two steps are one.
PassHaltedCheck(h, call) ==
  /\ {call, "stall"} \subseteq Services /\ h \in joined
  /\ ~halted
  /\ call \notin passed[h]
  /\ passed' = [passed EXCEPT ![h] = @ \cup {call}]
  /\ UNCHANGED <<fs, ns, eval, owed, retry, Tables>>

Leased(h, call) ==
  /\ eval = Free
  /\ IF "stall" \in Services
       THEN call \in passed[h]
       ELSE call \in Services /\ h \in joined
  /\ passed' = [passed EXCEPT ![h] = @ \ {call}]

\* Mutant: a reduction takes effect at once.
modifyLookahead_AtOnce(h, la) ==
  /\ Leased(h, "modifyLookahead")
  /\ fs[h].regulating /\ ~ns[h].pending
  /\ fs' = [fs EXCEPT ![h].lookahead = la]
  /\ Owe
  /\ UNCHANGED <<ns, eval, retry, Tables>>

modifyLookahead(h, la) ==
  /\ Leased(h, "modifyLookahead")
  /\ UNCHANGED <<ns, eval, retry, Tables>>
  /\ \/ /\ fs[h].regulating /\ ~ns[h].pending
        /\ fs' = [fs EXCEPT ![h] =
             IF la >= @.lookahead
               THEN [@ EXCEPT !.lookahead = la, !.lookaheadTarget = 0,
                              !.reducing = FALSE, !.originTime = 0, !.originValue = 0]
               ELSE [@ EXCEPT
                       !.originValue = IF fs[h].reducing THEN fs[h].originValue ELSE fs[h].lookahead,
                       !.originTime = IF fs[h].reducing THEN fs[h].originTime ELSE ns[h].current,
                       !.lookaheadTarget = la, !.reducing = TRUE]]
        /\ Owe
     \/ /\ ~(fs[h].regulating /\ ~ns[h].pending)      \* rejected under the lease
        /\ UNCHANGED <<fs, owed>>

disableConstrained(h) ==
  /\ Leased(h, "disableConstrained")
  /\ UNCHANGED <<joined, subscribed, halted, stall, eval>>
  /\ \/ /\ fs[h].constrained
        /\ LET f == [fs[h] EXCEPT !.constrained = FALSE, !.preservedReceiveTime = NoTime,
                                  !.receivedTSOTime = NoTime]
               release == ns[h].ro \o takeBufferedTSO(f, ns[h], MaxTime)
           IN \E o \in Outcomes(h, release, 0) :
                /\ fs' = [fs EXCEPT ![h] = IF o.fault THEN @ ELSE f]
                /\ ns' = [ns EXCEPT ![h] =
                     restoreBufferedMessages(Untaken(recordFlushDelivery(@,
                       IF o.each THEN o.given ELSE << >>), release), o.left)]
                /\ Hand(h, FALSE, release, o, 0,
                        IF o.each THEN o.given ELSE IF o.done THEN release ELSE << >>)
                /\ retry' = (retry \/ (~o.done /\ ~o.fault))
                /\ IF o.fault THEN owed' = owed ELSE Owe
     \/ /\ ~fs[h].constrained
        /\ UNCHANGED <<fs, ns, room, got, sent, faults, retry, owed>>

enableAsync(h) ==
  /\ Leased(h, "enableAsync")
  /\ UNCHANGED <<fs, joined, subscribed, halted, stall, eval, owed>>
  /\ \/ /\ ~ns[h].async
        /\ LET n == [ns[h] EXCEPT !.async = TRUE]
           IN \E o \in Outcomes(h, n.ro, 0) :
                /\ ns' = [ns EXCEPT ![h] =
                     [restoreBufferedMessages(Untaken(n, n.ro), o.left) EXCEPT
                        !.async = ~o.fault]]
                /\ Hand(h, FALSE, n.ro, o, 0, << >>)
                /\ retry' = (retry \/ (~o.done /\ ~o.fault))
     \/ /\ ns[h].async
        /\ UNCHANGED <<ns, room, got, sent, faults, retry>>

disableAsync(h) ==
  /\ Leased(h, "disableAsync")
  /\ ns' = [ns EXCEPT ![h].async = FALSE]
  /\ UNCHANGED <<fs, eval, owed, retry, Tables>>

\* A resignation has the federation's operations lock exclusively, from the
\* roster to the evaluation at its end: no call of anybody is under way, none
\* past its check and none between its change and its evaluation.
onFederateResign(h) ==
  /\ "resign" \in Services
  /\ eval = Free /\ owed = 0 /\ \A g \in Handles : passed[g] = {}
  /\ h \in joined
  /\ joined' = joined \ {h}
  /\ subscribed' = subscribed \ {h}
  /\ fs' = [fs EXCEPT ![h] = NoFederateState]
  /\ ns' = [ns EXCEPT ![h] = NoNERState]
  /\ sent' = [i \in 1..Len(sent) |-> [sent[i] EXCEPT !.delivered = @ \ {h}]]
  /\ eval' = Loop
  /\ UNCHANGED <<room, halted, stall, passed, owed, retry, got, faults>>

-----------------------------------------------------------------------------
(* The object send path, under the lease from validation to commit.        *)

ValidateOutgoingTSO(s, ts) ==
  fs[s].regulating =>
    LET b == outgoingTSOBound(fs[s], ns[s])
        floor == addHorizon(b.base, b.lookahead)
    IN  IF b.exclusive THEN ts > floor ELSE ts >= floor

\* Mutant: no send is followed by an evaluation.
Pokes_None(h) == FALSE

\* A buffered message may let a next-message request through earlier.
Pokes(h) == ns[h].pending /\ usesNextMessageTarget(ns[h].mode)

\* The subscribers are read before the lease is taken: where subscriptions change,
\* they may be those of any earlier moment of the call.
interactionSubscriptionCandidates(s) ==
  IF "subscribe" \in Services THEN SUBSET (joined \ {s})
                              ELSE {(subscribed \cap joined) \ {s}}

\* Every immediate recipient must have room, or the send is refused whole.
FanoutTo(s, ts, ro, to) ==
  LET now   == {h \in to : \/ ~fs[h].constrained
                           \/ ro /\ (ns[h].pending \/ ns[h].async)}
      id    == Len(sent) + 1
      m     == [id |-> id, ts |-> ts, sender |-> s, ro |-> ro]
      poked == {h \in to \ now : Pokes(h)}
  IN  /\ eval = Free /\ s \in joined
      /\ Len(sent) < MaxMsgs
      /\ to # {}                     \* otherwise only the id is used up
      /\ \A h \in now : room[h] >= 1
      /\ ns' = [h \in Handles |->
                  IF h \notin to \ now THEN ns[h]
                  ELSE IF ro THEN [ns[h] EXCEPT !.ro = Append(@, m)]
                             ELSE [ns[h] EXCEPT !.tso = Append(@, m)]]
      /\ room' = [h \in Handles |-> IF h \in now \cap Slow
                                      THEN room[h] - 1 ELSE room[h]]
      /\ got' = [h \in Handles |->
                   IF h \in now THEN Append(got[h], [id |-> id, ts |-> ts, order |-> "RO"])
                                ELSE got[h]]
      /\ sent' = Append(sent, [sender |-> s, ts |-> ts, ro |-> ro, to |-> to,
                               regulated |-> fs[s].regulating,
                               delivered |-> IF ro THEN {} ELSE now,
                               discarded |-> {}, retracted |-> FALSE, asked |-> {}])
      /\ IF poked = {} THEN owed' = owed ELSE Owe
      /\ UNCHANGED <<fs, joined, subscribed, halted, stall, passed, eval, retry, faults>>

Fanout(s, ts, ro) ==
  \E to \in interactionSubscriptionCandidates(s) : FanoutTo(s, ts, ro, to)

sendTSO(s, ts) ==
  /\ fs[s].regulating \/ s \in Unregulated
  /\ ValidateOutgoingTSO(s, ts)
  /\ Fanout(s, ts, FALSE)

sendRO(s) ==
  /\ "ro" \in Services
  /\ Fanout(s, NoTime, TRUE)

\* Actual current lookahead, unlike send admission.
retractionFloor(s) ==
  addHorizon(IF ns[s].pending THEN ns[s].requested ELSE ns[s].current, fs[s].lookahead)

RetractWithCleanup(s, id) ==
  /\ "retract" \in Services
  /\ eval = Free
  /\ sent[id].sender = s /\ ~sent[id].ro /\ ~sent[id].retracted
  /\ fs[s].regulating
  /\ sent[id].ts > retractionFloor(s)
  /\ \A h \in sent[id].delivered : room[h] >= 1
  /\ room' = [h \in Handles |->
                IF h \in sent[id].delivered \cap Slow
                  THEN room[h] - 1 ELSE room[h]]
  /\ ns' = [h \in Handles |-> Untaken(ns[h], <<[id |-> id]>>)]
  /\ sent' = [sent EXCEPT ![id].retracted = TRUE, ![id].asked = sent[id].delivered]
  /\ UNCHANGED <<fs, joined, subscribed, halted, stall, passed, eval, owed, retry, got, faults>>

-----------------------------------------------------------------------------
(* What runs without the lease.                                            *)

\* A subscription comes or goes; FilterQueuedMessage sees it at the next delivery.
ChangeSubscription(h) ==
  /\ "subscribe" \in Services /\ h \in joined
  /\ subscribed' = IF h \in subscribed THEN subscribed \ {h} ELSE subscribed \cup {h}
  /\ UNCHANGED <<fs, ns, joined, room, halted, stall, passed, eval, owed, retry,
                 sent, got, faults>>

\* The federate's stream takes one callback.
ReadCallback(h) ==
  /\ room[h] < Capacity
  /\ room' = [room EXCEPT ![h] = @ + 1]
  /\ UNCHANGED <<fs, ns, joined, subscribed, halted, stall, passed, eval, owed, retry,
                 sent, got, faults>>

\* checkStalls, first half: the pending requests, some of them over age.
SnapshotStalls(S) ==
  /\ "stall" \in Services
  /\ stall = {} /\ ~halted
  /\ S # {} /\ \A h \in S : ns[h].pending
  /\ stall' = S
  /\ UNCHANGED <<fs, ns, joined, subscribed, room, halted, passed, eval, owed, retry,
                 sent, got, faults>>

\* checkStalls, second half: mark and notify from the snapshot, whatever has been
\* granted since; a full queue loses the notification.
HaltFederation ==
  /\ stall # {}
  /\ halted' = TRUE
  /\ stall' = {}
  /\ room' = [h \in Handles |-> IF h \in joined \cap Slow /\ room[h] > 0
                                  THEN room[h] - 1 ELSE room[h]]
  /\ UNCHANGED <<fs, ns, joined, subscribed, passed, eval, owed, retry, sent, got, faults>>

-----------------------------------------------------------------------------
(* The evaluator: tryGrantPending and the retry worker's resume loop.      *)

Outside == <<joined, subscribed, halted, stall, passed>>

StartEvaluation ==
  /\ eval = Free /\ owed > 0
  /\ owed' = owed - 1
  /\ eval' = Loop
  /\ UNCHANGED <<fs, ns, room, retry, sent, got, faults, Outside>>

StartResume ==
  /\ eval = Free /\ retry /\ owed < MaxOwed
  /\ retry' = FALSE
  /\ eval' = [phase |-> "resume", at |-> 1]
  /\ UNCHANGED <<fs, ns, room, owed, sent, got, faults, Outside>>

\* Mutants: one grant per evaluation; a refused delivery is not marked.
Continue_Once(o, next) ==
  /\ eval' = IF o.done /\ next # Loop THEN next ELSE Free
  /\ retry' = (retry \/ ~o.done)
  /\ UNCHANGED <<owed, Outside>>

Continue_Unmarked(o, next) ==
  /\ eval' = IF o.done THEN next ELSE Free
  /\ UNCHANGED <<owed, retry, Outside>>

\* Where the loop goes: next on success, out with a retry mark on failure.  The
\* mark is set after the lease is free; only the worker looks at it.
Continue(o, next) ==
  /\ eval' = IF o.done THEN next ELSE Free
  /\ retry' = (retry \/ ~o.done)
  /\ UNCHANGED <<owed, Outside>>

Pass(next) ==
  /\ eval' = next
  /\ UNCHANGED <<fs, ns, room, owed, retry, sent, got, faults, Outside>>

\* Mutant: the worker resumes RO messages only.
resumeRelease_ROOnly(h) == takeBufferedRO(fs[h], ns[h])

\* ResumeScheduledSave, one federate: its deliverable RO, then everything else
\* if it is no longer constrained.
resumeRelease(h) ==
  IF takeBufferedRO(fs[h], ns[h]) # << >> THEN takeBufferedRO(fs[h], ns[h])
  ELSE IF fs[h].constrained THEN << >>
  ELSE takeBufferedTSO(fs[h], ns[h], MaxTime)

Resumable == {h \in Handles : h >= eval.at /\ resumeRelease(h) # << >>}

ResumeFederate ==
  /\ eval.phase = "resume" /\ Resumable # {}
  /\ LET h == Min(Resumable)
         release == resumeRelease(h)
     IN \E o \in Outcomes(h, release, 0) :
          /\ Hand(h, fs[h].constrained, release, o, 0,
                  IF o.each THEN o.given ELSE IF o.done THEN release ELSE << >>)
          /\ ns' = [ns EXCEPT ![h] =
               restoreBufferedMessages(Untaken(recordFlushDelivery(@,
                 IF o.each THEN o.given ELSE << >>), release), o.left)]
          /\ Continue(o, [phase |-> "resume", at |-> h])
  /\ UNCHANGED fs

ResumeDone ==
  /\ eval.phase = "resume" /\ Resumable = {}
  /\ eval' = Free
  /\ Owe
  /\ UNCHANGED <<fs, ns, room, retry, sent, got, faults, Outside>>

\* The loop's position among enable requests: h's regulation, then its
\* constraint, for h in handle order.
Asker(c) == (c + 1) \div 2
IsRegulation(c) == c % 2 = 1

ReadyEnables == {c \in 1..(2 * N) : /\ eval.phase = "enable" /\ c >= eval.at
                                   /\ enableTarget(fs, ns, Asker(c), IsRegulation(c)) # NoTime}

emitEnable(c) ==
  LET h == Asker(c)
      reg == IsRegulation(c)
      at == enableTarget(fs, ns, h, reg)
      release == takeEnableMessages(fs[h], ns[h], reg, at)
  IN \E o \in Outcomes(h, release, 1) :
       LET f == recordOrderedDelivery(fs[h], ns[h], IF o.each THEN o.given ELSE << >>)
           n == restoreBufferedMessages(Untaken(ns[h], release), o.left)
       IN /\ Hand(h, fs[h].constrained, release, o, 1,
                  IF o.each THEN o.given ELSE IF o.done THEN release ELSE << >>)
          /\ fs' = [fs EXCEPT ![h] = IF o.done THEN Enabled(f, reg, at) ELSE f]
          /\ ns' = [ns EXCEPT ![h] =
               IF o.done THEN [n EXCEPT !.current = at,
                                        !.strictZero = IF reg THEN FALSE ELSE @]
                         ELSE n]
          /\ Continue(o, [phase |-> "enable", at |-> c + 1])

flushRelease(h) == takeBufferedRO(fs[h], ns[h]) \o takeBufferedTSO(fs[h], ns[h], MaxTime)

Flushable == {h \in Handles : /\ eval.phase = "flush" => h >= eval.at
                              /\ eval.phase # "grant"
                              /\ ns[h].pending /\ ns[h].mode = "FQR"
                              /\ flushRelease(h) # << >>}

flushFederateMessages(h) ==
  LET release == flushRelease(h)
  IN \E o \in Outcomes(h, release, 0) :
       /\ Hand(h, fs[h].constrained, release, o, 0, o.given)
       /\ ns' = [ns EXCEPT ![h] =
            restoreBufferedMessages(Untaken(recordFlushDelivery(@, o.given), release),
                                    o.left)]
       /\ Continue(o, [phase |-> "flush", at |-> h + 1])
       /\ UNCHANGED fs

\* Candidates from the position on: a decision to fire, or held RO to drain.
Actionable == {h \in Handles : /\ eval.phase = "grant" => h >= eval.at
                               /\ ns[h].pending
                               /\ \/ ns[h].ro # << >>
                                  \/ decideCandidateGrant(fs, ns, h) # NoTime}

holdCandidate(h) ==
  \E o \in Outcomes(h, ns[h].ro, 0) :
    /\ Hand(h, FALSE, ns[h].ro, o, 0, << >>)
    /\ ns' = [ns EXCEPT ![h] = restoreBufferedMessages(Untaken(@, @.ro), o.left)]
    /\ Continue(o, [phase |-> "grant", at |-> h + 1])
    /\ UNCHANGED fs

hasGroup(h, at) ==
  /\ fs[h].constrained /\ usesNextMessageTarget(ns[h].mode)
  /\ \E t \in Stamps(ns[h].tso) : t <= at

\* Messages of the next-message group leave one by one; their discard by the
\* subscription filter may leave nothing to grant early for.
deliverNextMessageGroup(h, at) ==
  LET release == takeBufferedRO(fs[h], ns[h]) \o takeBufferedTSO(fs[h], ns[h], at)
  IN \E o \in Outcomes(h, release, 0) :
       /\ Hand(h, fs[h].constrained, release, o, 0, o.given)
       /\ fs' = [fs EXCEPT ![h] = recordOrderedDelivery(@, ns[h], o.given)]
       /\ ns' = [ns EXCEPT ![h] =
            restoreBufferedMessages(Untaken(recordFlushDelivery(@, o.given), release),
                                    o.left)]
       /\ Continue(o, Loop)

emitGrant(h, at) ==
  LET release == takeBufferedRO(fs[h], ns[h])
                   \o takeBufferedTSO(fs[h], ns[h], IF ns[h].mode = "FQR" THEN MaxTime ELSE at)
  IN \E o \in Outcomes(h, release, 1) :
       LET noted == IF o.each THEN o.given ELSE << >>
           f == recordOrderedDelivery(fs[h], ns[h], noted)
           n == restoreBufferedMessages(Untaken(recordFlushDelivery(ns[h], noted), release),
                                        o.left)
       IN /\ Hand(h, fs[h].constrained, release, o, 1,
                  IF o.each THEN o.given ELSE IF o.done THEN release ELSE << >>)
          /\ fs' = [fs EXCEPT ![h] =
               IF o.done THEN advanceLookahead(recordReceivedGrant(f, n.mode, at), at) ELSE f]
          /\ ns' = [ns EXCEPT ![h] =
               IF o.done THEN [n EXCEPT !.strictZero = recordGrantBound(n, at),
                                        !.current = at, !.pending = FALSE,
                                        !.requested = 0, !.mode = "none",
                                        !.flushMinimum = NoTime]
                         ELSE n]
          /\ Continue(o, Loop)

tryCandidateGrant(h) ==
  LET at == decideCandidateGrant(fs, ns, h)
  IN  IF at = NoTime THEN holdCandidate(h)
      ELSE IF hasGroup(h, at) THEN deliverNextMessageGroup(h, at)
      ELSE emitGrant(h, at)

\* One turn of the loop: the first thing it finds to do from its position on.
tryGrantPending ==
  /\ eval.phase \in {"enable", "flush", "grant"}
  /\ IF eval = Loop /\ halted THEN Pass(Free)
     ELSE IF ReadyEnables # {} THEN emitEnable(Min(ReadyEnables))
     ELSE IF Flushable # {} THEN flushFederateMessages(Min(Flushable))
     ELSE LET ready == Actionable
          IN  IF ready = {} THEN Pass(Free) ELSE tryCandidateGrant(Min(ready))

-----------------------------------------------------------------------------
Service ==
  \/ \E h \in Handles, t \in Time, mode \in Modes : recordAdvance(h, t, mode)
  \/ \E h \in Handles, la \in Lookaheads : requestRegulation(h, la)
  \/ \E h \in Handles : requestConstrained(h)
  \/ \E h \in Handles : disableRegulation(h)
  \/ \E h \in Handles, call \in Checked : PassHaltedCheck(h, call)
  \/ \E h \in Handles, la \in Lookaheads : modifyLookahead(h, la)
  \/ \E h \in Handles : disableConstrained(h)
  \/ \E h \in Handles : enableAsync(h)
  \/ \E h \in Handles : disableAsync(h)
  \/ \E h \in Handles : onFederateResign(h)
  \/ \E s \in Handles, ts \in Time : sendTSO(s, ts)
  \/ \E s \in Handles : sendRO(s)
  \/ \E s \in Handles, id \in 1..Len(sent) : RetractWithCleanup(s, id)

Environment ==
  \/ \E h \in Handles : ChangeSubscription(h)
  \/ \E h \in Handles : ReadCallback(h)
  \/ \E S \in SUBSET Handles : SnapshotStalls(S)
  \/ HaltFederation

Resume ==
  \/ ResumeFederate
  \/ ResumeDone

Next ==
  \/ Service
  \/ Environment
  \/ StartEvaluation
  \/ StartResume
  \/ tryGrantPending
  \/ Resume

Spec == Init /\ [][Next]_vars

=============================================================================
