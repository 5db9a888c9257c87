---------------------------- MODULE SyncPoints ----------------------------
(***************************************************************************)
(* The synchronization-point manager of one federation, in the production  *)
(* profile (RequireInvocations, a membership resolver and a reservable     *)
(* outbox): registration, announcement, achievement, the synchronized      *)
(* callbacks, the reports by which federates acknowledge callbacks, joins  *)
(* and resignations in the middle of a point, and the retry worker.        *)
(*                                                                         *)
(* Every operation runs under opMu and under the federation's operations   *)
(* lock, so one operation is one step.  What can go wrong lies between the *)
(* steps: the outbox may refuse a reservation, reports arrive late and in  *)
(* any order, labels are used again, and the roster changes.               *)
(*                                                                         *)
(* Tags, failure reasons and the event log are left out; nothing the       *)
(* manager decides depends on them.                                        *)
(***************************************************************************)
EXTENDS Integers, Sequences, FiniteSets, SequencesExt

CONSTANTS N,             \* handles 1..N are handed out, in order, never reused
          Labels,        \* the labels federates register (naturals, for their order)
          Requests,      \* the member sets they ask for; {} asks for all members
          Initial,       \* handles 1..Initial have joined at the start
          Failing,       \* federates whose achievements are unsuccessful
          MaxChanges,    \* bound: registrations and joins together
          MaxRejected    \* bound: registrations that are rejected are tried only while
                         \* callbacks are pending and fewer than this many exist

ASSUME BoundsAssumption ==
    /\ N \in Nat /\ Initial \in 0..N /\ MaxChanges \in Nat /\ MaxRejected \in Nat
    /\ Labels \subseteq Nat /\ IsFiniteSet(Labels)
    /\ Requests \subseteq SUBSET (1..N)

Federates == 1..N

VARIABLES joined,        \* the roster the membership resolver returns
          nextHandle,    \* the handle the next join is given
          st             \* the manager's federationState

vars == <<joined, nextHandle, st>>

----------------------------------------------------------------------------
(* The state of the federation and of a point.                             *)

NoInvocation ==
    [announce |-> 0, announceEntered |-> FALSE, announceInvoked |-> FALSE,
     synchronized |-> 0, synchronizedInvoked |-> FALSE]

emptyFederationState ==
    [points |-> << >>, nextSequence |-> 0, nextEpoch |-> 0,
     pending |-> << >>, obligations |-> << >>]

newPoint(members, all, epoch) ==
    [state |-> "announced", required |-> members, achieved |-> {}, failed |-> {},
     allMembers |-> all, epoch |-> epoch,
     callbacks |-> [h \in Federates |-> NoInvocation]]

\* A set of numbers in increasing order.
sorted(S) == [i \in 1..Cardinality(S) |->
                 CHOOSE x \in S : Cardinality({y \in S : y < x}) = i - 1]

Without(f, S) == [x \in DOMAIN f \ S |-> f[x]]

----------------------------------------------------------------------------
(* Callbacks.  A callback is numbered when it is enqueued; the point it    *)
(* belongs to remembers the number of its announcement and of its          *)
(* synchronized callback to every recipient.                               *)

callbacksTo(kind, label, recipients) ==
    [i \in 1..Cardinality(recipients) |->
        [kind |-> kind, label |-> label, recipient |-> sorted(recipients)[i]]]

\* What point p (under label) records of the callbacks cbs, numbered from n + 1;
\* no two callbacks of one operation have the same kind, label and recipient.
Identified(p, label, cbs, n) ==
    LET is(i, kind, h) == cbs[i] = [kind |-> kind, label |-> label, recipient |-> h]
        number(old, kind, h) ==
            IF \E i \in DOMAIN cbs : is(i, kind, h)
            THEN n + (CHOOSE i \in DOMAIN cbs : is(i, kind, h)) ELSE old
    IN  [p EXCEPT !.callbacks = [h \in Federates |->
            [p.callbacks[h] EXCEPT !.announce = number(@, "announce", h),
                                   !.synchronized = number(@, "synchronized", h)]]]

enqueue(s, cbs) ==
    LET n == s.nextSequence
        stamped == [i \in DOMAIN cbs |->
            [kind |-> cbs[i].kind, label |-> cbs[i].label, recipient |-> cbs[i].recipient,
             sequence |-> n + i, entered |-> FALSE,
             epoch |-> IF cbs[i].label \in DOMAIN s.points
                       THEN s.points[cbs[i].label].epoch ELSE 0]]
    IN  [points |-> [l \in DOMAIN s.points |-> Identified(s.points[l], l, cbs, n)],
         nextSequence |-> n + Len(cbs),
         nextEpoch |-> s.nextEpoch,
         pending |-> s.pending \o stamped,
         obligations |-> [k \in DOMAIN s.obligations \cup (n + 1)..(n + Len(cbs)) |->
                             IF k > n THEN stamped[k - n] ELSE s.obligations[k]]]

callbackPending(s, k) == \E i \in DOMAIN s.pending : s.pending[i].sequence = k

----------------------------------------------------------------------------
(* Completion and retirement, for one label or, when a federate resigns,   *)
(* for every label in label order.                                         *)

\* Mutant: one achievement is enough.
Complete_Any(p) == p.state = "announced" /\ (p.achieved # {} \/ p.required = {})

Complete(p) == p.state = "announced" /\ p.required \subseteq p.achieved

complete(s, labels) ==
    LET done == {l \in labels : Complete(s.points[l])}
        order == sorted(done)
    IN  enqueue([s EXCEPT !.points = [l \in DOMAIN @ |->
                    IF l \in done THEN [@[l] EXCEPT !.state = "achieved"] ELSE @[l]]],
                FlattenSeq([i \in DOMAIN order |->
                    callbacksTo("synchronized", order[i], s.points[order[i]].required)]))

\* Mutant: a point retires once it is achieved, without waiting for reports.
Retirable_Unreported(p) == p.state = "achieved"

Retirable(p) ==
    /\ p.state = "achieved"
    /\ \A h \in p.required : p.callbacks[h].synchronizedInvoked

retire(s, labels) ==
    [s EXCEPT !.points = Without(@, {l \in labels : Retirable(@[l])})]

----------------------------------------------------------------------------
(* transition: the new state is published with its callbacks handed to     *)
(* the outbox, all or none.  When the reservation is refused (a full       *)
(* queue, no credits, a cancelled call) a service call is undone, while a  *)
(* membership change, which has already happened, keeps the callbacks      *)
(* pending.                                                                *)

\* Mutant: a call hands over its own callbacks and leaves the earlier ones to the worker.
transition_OwnOnly(next, lifecycle) ==
    \/ st' = [next EXCEPT !.pending = SelectSeq(@, LAMBDA c : c \in Range(st.pending))]
    \/ next.pending # << >> /\ st' = IF lifecycle THEN next ELSE st

transition(next, lifecycle) ==
    \/ st' = [next EXCEPT !.pending = << >>]
    \/ next.pending # << >> /\ st' = IF lifecycle THEN next ELSE st

\* The bound on registrations and joins.
Bounded == st.nextEpoch + (nextHandle - Initial - 1) < MaxChanges

RegisterBy(h, label, requested) ==
    /\ h \in joined
    /\ LET valid == requested = {} \/ requested \subseteq joined
           members == IF requested = {} THEN joined ELSE requested
           epoch == st.nextEpoch + 1
           created == [st EXCEPT
               !.nextEpoch = epoch,
               !.points = [l \in DOMAIN @ \cup {label} |->
                   IF l = label THEN newPoint(members, requested = {}, epoch) ELSE @[l]]]
       IN  IF label \in DOMAIN st.points \/ ~valid
           THEN /\ st.pending # << >> /\ st.nextSequence < MaxRejected
                /\ transition(enqueue(st, callbacksTo("registrationFailed", label, {h})), FALSE)
           ELSE /\ Bounded
                /\ transition(enqueue(created,
                                  callbacksTo("registrationSucceeded", label, {h})
                                      \o callbacksTo("announce", label, members)), FALSE)
    /\ UNCHANGED <<joined, nextHandle>>

announcementPending(s, p, label, h) ==
    /\ \E i \in DOMAIN s.pending :
          /\ s.pending[i].label = label
          /\ s.pending[i].recipient = h
          /\ s.pending[i].kind = "announce"
    /\ ~p.callbacks[h].announceEntered

AchieveWith(h, label, successfully) ==
    /\ label \in DOMAIN st.points
    /\ LET p == st.points[label]
       IN  /\ h \in p.required
           /\ p.callbacks[h].announceEntered
           /\ ~announcementPending(st, p, label, h)
           /\ h \notin p.achieved
           /\ transition(complete([st EXCEPT !.points[label] =
                  [p EXCEPT !.achieved = @ \cup {h},
                            !.failed = IF successfully THEN @ ELSE @ \cup {h}]], {label}), FALSE)
    /\ UNCHANGED <<joined, nextHandle>>

\* A point with a federate more to wait for, and one that a federate has left.
Needing(p, h) == [p EXCEPT !.required = p.required \cup {h}]

Stripped(p, h) ==
    [p EXCEPT !.required = p.required \ {h}, !.achieved = p.achieved \ {h},
              !.failed = p.failed \ {h},
              !.callbacks = [p.callbacks EXCEPT ![h] = NoInvocation]]

\* Mutant: a late joiner is not added to the points for all members.
FederateJoined_Ignored(h) == transition(st, TRUE)

FederateJoined(h) ==
    LET late == {l \in DOMAIN st.points :
                    /\ st.points[l].allMembers
                    /\ st.points[l].state = "announced"
                    /\ h \notin st.points[l].required}
        order == sorted(late)
        extended == [l \in DOMAIN st.points |->
                        IF l \in late THEN Needing(st.points[l], h) ELSE st.points[l]]
    IN  transition(enqueue([st EXCEPT !.points = extended],
                       FlattenSeq([i \in DOMAIN order |->
                           callbacksTo("announce", order[i], {h})])), TRUE)

Join ==
    /\ nextHandle <= N /\ Bounded
    /\ joined' = joined \cup {nextHandle}
    /\ nextHandle' = nextHandle + 1
    /\ FederateJoined(nextHandle)

\* Mutant: a point that only waited for the resigning federate is not completed.
FederateResigned_NotCompleted(h) ==
    transition(retire([st EXCEPT
        !.points = [l \in DOMAIN st.points |-> Stripped(st.points[l], h)],
        !.pending = SelectSeq(@, LAMBDA c : c.recipient # h),
        !.obligations = Without(@, {k \in DOMAIN @ : @[k].recipient = h})], DOMAIN st.points), TRUE)

FederateResigned(h) ==
    LET kept == [st EXCEPT
            !.points = [l \in DOMAIN st.points |-> Stripped(st.points[l], h)],
            !.pending = SelectSeq(@, LAMBDA c : c.recipient # h),
            !.obligations = Without(@, {k \in DOMAIN @ : @[k].recipient = h})]
    IN  transition(retire(complete(kept, DOMAIN st.points), DOMAIN st.points), TRUE)

Resign(h) ==
    /\ h \in joined
    /\ joined' = joined \ {h}
    /\ UNCHANGED nextHandle
    /\ FederateResigned(h)

\* A federation is destroyed once nobody is joined to it.
OnFederationDestroyed ==
    /\ joined = {}
    /\ st' = emptyFederationState
    /\ UNCHANGED <<joined, nextHandle>>

\* The worker hands over pending callbacks one by one until one is refused.
RetryPending ==
    /\ \E n \in DOMAIN st.pending :
          st' = [st EXCEPT !.pending = SubSeq(@, n + 1, Len(@))]
    /\ UNCHANGED <<joined, nextHandle>>

----------------------------------------------------------------------------
(* Reports.  The federate reports that it enters the callback's handler    *)
(* and, later, that the handler is done.                                   *)

Marked(p, h, i) == [p EXCEPT !.callbacks = [p.callbacks EXCEPT ![h] = i]]

observePointCallback(s, c, entry) ==
    LET p == s.points[c.label]
        inv == p.callbacks[c.recipient]
        marked(i) == [s EXCEPT !.points[c.label] = Marked(p, c.recipient, i)]
    IN  CASE c.kind = "announce" /\ inv.announce = c.sequence ->
               retire(marked(IF entry THEN [inv EXCEPT !.announceEntered = TRUE]
                                      ELSE [inv EXCEPT !.announceInvoked = TRUE]), {c.label})
          [] c.kind = "synchronized" /\ inv.synchronized = c.sequence
                 /\ p.state = "achieved" ->
               retire(marked(IF entry THEN inv
                                      ELSE [inv EXCEPT !.synchronizedInvoked = TRUE]), {c.label})
          [] c.kind \in {"registrationSucceeded", "registrationFailed"} -> s
          [] OTHER -> st

\* A report for a callback that is no longer owed changes nothing, and one for
\* a callback still pending is refused.
ObserveCallback(k, entry) ==
    /\ k \in DOMAIN st.obligations
    /\ ~callbackPending(st, k)
    /\ entry \/ st.obligations[k].entered
    /\ LET c == st.obligations[k]
           next == IF entry THEN [st EXCEPT !.obligations = [@ EXCEPT ![k].entered = TRUE]]
                            ELSE [st EXCEPT !.obligations = Without(@, {k})]
       IN  st' = IF c.label \in DOMAIN st.points /\ st.points[c.label].epoch = c.epoch
                 THEN observePointCallback(next, c, entry) ELSE next
    /\ UNCHANGED <<joined, nextHandle>>

----------------------------------------------------------------------------
(* Saving and restoring.  ExportState writes the image, ValidateState      *)
(* accepts or rejects it, PrepareImport rebuilds the state with every      *)
(* unfinished callback pending again, and ReconcileRestoredCallbacks takes *)
(* those the transport replays by itself (all it had admitted) off pending.*)

ExportState(s) ==
    [s EXCEPT !.points = [l \in DOMAIN @ |->
        [@[l] EXCEPT !.callbacks = [h \in Federates |->
            IF h \in s.points[l].required THEN @[h] ELSE NoInvocation]]]]

validatePoint(image, p) ==
    /\ p.failed \subseteq p.achieved /\ p.achieved \subseteq p.required
    /\ p.state = "achieved" => p.achieved = p.required
    /\ p.epoch \in 1..image.nextEpoch
    /\ \A h \in p.required : LET inv == p.callbacks[h] IN
          /\ inv.announce \in 1..image.nextSequence
          /\ inv.synchronized \in 0..image.nextSequence
          /\ (inv.synchronized # 0) <=> (p.state = "achieved")
          /\ inv.synchronizedInvoked => inv.synchronized # 0
          /\ inv.announceInvoked => inv.announceEntered
          /\ h \in p.achieved => inv.announceEntered

\* The numbers the points record, each with where it is recorded.
Identities(image) ==
    {<<image.points[l].callbacks[h].announce, l, h, "announce">> :
        l \in DOMAIN image.points, h \in Federates}
    \cup {<<image.points[l].callbacks[h].synchronized, l, h, "synchronized">> :
        l \in DOMAIN image.points, h \in Federates}

matchesCallbackInvocation(p, c) ==
    LET inv == p.callbacks[c.recipient] IN
    /\ c.recipient \in p.required
    /\ \/ /\ c.kind = "announce" /\ inv.announce = c.sequence
          /\ ~inv.announceInvoked /\ c.entered = inv.announceEntered
       \/ /\ c.kind = "synchronized" /\ inv.synchronized = c.sequence
          /\ ~inv.synchronizedInvoked

validateObligation(image, c) ==
    /\ c.sequence \in 1..image.nextSequence
    /\ c.epoch \in 0..image.nextEpoch
    /\ c.kind # "registrationFailed" => c.epoch # 0
    /\ IF c.kind \notin {"announce", "synchronized"}
       THEN \A id \in Identities(image) : id[1] # c.sequence
       ELSE IF c.label \in DOMAIN image.points /\ image.points[c.label].epoch = c.epoch
       THEN matchesCallbackInvocation(image.points[c.label], c)
       ELSE c.kind = "announce" /\ c.entered

validateDurableInvocations(image) ==
    \A l \in DOMAIN image.points : \A h \in image.points[l].required :
        LET p == image.points[l]
            inv == p.callbacks[h]
            owed(kind, k) == /\ k \in DOMAIN image.obligations
                             /\ image.obligations[k].kind = kind
                             /\ image.obligations[k].epoch = p.epoch
                             /\ image.obligations[k].label = l
                             /\ image.obligations[k].recipient = h
        IN  /\ inv.announce = 0 \/ inv.announceInvoked \/ owed("announce", inv.announce)
            /\ inv.synchronized = 0 \/ inv.synchronizedInvoked
                   \/ owed("synchronized", inv.synchronized)

validatePendingCallbacks(image) ==
    /\ IsInjective([i \in DOMAIN image.pending |-> image.pending[i].sequence])
    /\ \A i \in DOMAIN image.pending :
          LET c == image.pending[i]
          IN  c.sequence \in DOMAIN image.obligations /\ image.obligations[c.sequence] = c

ValidateState(image) ==
    /\ \A l \in DOMAIN image.points : validatePoint(image, image.points[l])
    /\ \A a, b \in Identities(image) : a[1] = b[1] => a = b \/ a[1] = 0
    /\ \A k \in DOMAIN image.obligations : validateObligation(image, image.obligations[k])
    /\ validateDurableInvocations(image)
    /\ validatePendingCallbacks(image)

PrepareImport(image) ==
    LET order == sorted(DOMAIN image.obligations)
    IN  [image EXCEPT !.pending = [i \in DOMAIN order |-> image.obligations[order[i]]]]

ReconcileRestoredCallbacks(s, captured) ==
    [s EXCEPT !.pending = SelectSeq(@, LAMBDA c : c.sequence \notin captured)]

----------------------------------------------------------------------------
Init ==
    /\ joined = 1..Initial
    /\ nextHandle = Initial + 1
    /\ st = emptyFederationState

Register == \E h \in Federates, label \in Labels, requested \in Requests :
                RegisterBy(h, label, requested)

Achieve(h) == \E label \in Labels : AchieveWith(h, label, h \notin Failing)

\* A report by federate h, of an entry or of an outcome, in any order.
Report(h) == \E k \in DOMAIN st.obligations, entry \in BOOLEAN :
                 st.obligations[k].recipient = h /\ ObserveCallback(k, entry)

Next ==
    \/ Register
    \/ \E h \in Federates : Achieve(h) \/ Report(h) \/ Resign(h)
    \/ Join
    \/ OnFederationDestroyed
    \/ RetryPending

Spec == Init /\ [][Next]_vars

\* The worker retries every 100 ms and a queue that is read has room again;
\* a federate's handlers return and report; a federate that was told of a point
\* achieves it, repeating a call that was refused.  Nobody has to resign, join
\* or register.
Fairness ==
    /\ WF_vars(RetryPending)
    /\ \A h \in Federates : WF_vars(Report(h) \/ Achieve(h))

FairSpec == Spec /\ Fairness

----------------------------------------------------------------------------
(* Properties.                                                             *)

\* A point waits exactly for the federates it still needs: an announced point
\* always lacks an achievement of somebody who is joined (so no join, resignation
\* or achievement leaves it complete but unnoticed), it needs nobody who has
\* resigned, and a point for all members needs every joined federate, those who
\* joined after the registration included (FederateJoined, FederateResigned,
\* achieve, complete).
BarrierWaits ==
    \A l \in DOMAIN st.points : LET p == st.points[l] IN
        /\ p.required \subseteq joined
        /\ p.achieved \subseteq p.required
        /\ p.state = "announced" <=> ~(p.required \subseteq p.achieved)
        /\ p.state = "announced" /\ p.allMembers => p.required = joined

\* Whatever reports are late, however often a label was reused and whoever has
\* resigned, an image saved now passes ValidateState, and restoring it with the
\* callbacks the transport had admitted gives back exactly this state: no
\* callback is lost, repeated or reordered by a restore.
RestoreReproduces ==
    LET image == ExportState(st)
        admitted == {k \in DOMAIN st.obligations : ~callbackPending(st, k)}
    IN  /\ ValidateState(image)
        /\ ReconcileRestoredCallbacks(PrepareImport(image), admitted) = st

\* A callback that waits for room in a queue is never overtaken by a later one
\* to the same federate: of two unfinished callbacks of a federate, the one
\* handed to the outbox has the smaller number.
NoOvertaking ==
    \A i \in DOMAIN st.pending : \A k \in DOMAIN st.obligations :
        (/\ ~callbackPending(st, k)
         /\ st.obligations[k].recipient = st.pending[i].recipient)
            => k < st.pending[i].sequence

\* The barrier the points implement: the phases of a point and who has arrived
\* and been heard from, without callbacks, queues, numbers and epochs.
phase == [l \in Labels |->
    IF l \notin DOMAIN st.points THEN "idle"
    ELSE IF st.points[l].state = "announced" THEN "open" ELSE "released"]
need == [l \in Labels |-> IF l \in DOMAIN st.points THEN st.points[l].required ELSE {}]
done == [l \in Labels |-> IF l \in DOMAIN st.points THEN st.points[l].achieved ELSE {}]
heard == [l \in Labels |->
    IF l \in DOMAIN st.points
    THEN {h \in st.points[l].required : st.points[l].callbacks[h].synchronizedInvoked} ELSE {}]

Barrier == INSTANCE SyncBarrier WITH roster <- joined

\* Whatever the outbox refuses and however late reports are, the points behave as
\* barriers: nobody is released before everybody needed has arrived, a released
\* point takes nobody in, and its label is free only after the last report
\* (register, complete, FederateJoined, FederateResigned, retire).
ImplementsBarrier == Barrier!Spec

\* A registered label is free again some day: the announcement reaches
\* everybody, everybody's synchronized handler reports, and the point retires.
PointsRetire == \A l \in Labels : l \in DOMAIN st.points ~> l \notin DOMAIN st.points

=============================================================================
