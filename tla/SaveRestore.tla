---------------------------- MODULE SaveRestore ----------------------------
(***************************************************************************)
(* Saving and restoring one federation, as the server runs it: the save    *)
(* and restore manager, the admission of calls beside it, the storage of   *)
(* bundles and decisions, detected losses of federates and crashes of the  *)
(* server.  A federate is known by its name; it gets a new handle whenever *)
(* it joins, and a restore gives it back the handle of the saved image.    *)
(*                                                                         *)
(* A control call (request, report, abort, progress, loss) holds the       *)
(* checkpoint admission exclusively, so it is one step; only the end of a  *)
(* save, which writes files, is several, with a crash possible between.  A *)
(* service call holds the admission shared and is two steps.               *)
(*                                                                         *)
(* Abstracted: what a service changes is one counter per handle, and the   *)
(* state the federate itself saves is its own count; the logical time of a *)
(* scheduled save is whatever set of federates has reached it; a call that *)
(* is refused changes nothing and is left out.                             *)
(***************************************************************************)
EXTENDS Naturals, FiniteSets

CONSTANTS Names,    \* the federates
          Labels,   \* the labels of saves
          MaxWork,  \* bound: service calls of a federate
          Limits    \* bounds, of which one is chosen for a behaviour:
                    \*   kinds of saves (scheduled or not), save requests, handles
                    \*   in an execution, executions, and whether federates are lost

ASSUME NamesAssumption == IsFiniteSet(Names)

VARIABLES roster,      \* the handle of each federate, if it is joined
          nextHandle,  \* the next local handle to give out
          generation,  \* the execution of the federation
          work,        \* the service state of every joined handle
          app,         \* the federate's own state
          leases,      \* the federates inside a service call
          save,        \* the save in progress
          restore,     \* the restore in progress
          writer,      \* where the call that ends a save stands
          requests,    \* save requests so far
          completed,   \* what a query of a label answers
          barrier,     \* the save that holds logical time, and whom it pauses
          resume,      \* the pending advance requests are to be reevaluated
          told,        \* the last control callback of each federate
          lost,        \* the federates disconnected beyond the grace period
          bundles,     \* on disk: the bundles
          history,     \* on disk: the decisions, pairs of execution and label
          limits       \* the bounds of this behaviour

members == <<roster, nextHandle, generation, lost>>
services == <<work, app, leases>>
disk == <<bundles, history>>
vars == <<members, services, save, restore, writer, requests, completed,
          barrier, resume, told, disk, limits>>

\* A handle names its execution.
Handle(local) == <<generation, local>>
InvalidHandle == <<0, 0>>

Joined == {n \in Names : roster[n] # InvalidHandle}
Live == {roster[n] : n \in Joined}

NoSave == [id |-> 0, label |-> 0, timed |-> FALSE, waiting |-> FALSE, federates |-> {},
           initiated |-> {}, begun |-> {}, complete |-> {}, notComp |-> {}, clients |-> << >>]
NoRestore == [active |-> FALSE, current |-> << >>, image |-> << >>, complete |-> {}, notComp |-> {}]
NoBarrier == [owner |-> 0, paused |-> {}]

saving == save.id # 0
restoring == restore.active

\* A control call is admitted: no service call and no other control call runs.
AcquireCheckpoint == leases = {} /\ writer = "idle"

\* Mutant: only federates that have begun to save are kept out.
acquireFederateService_Begun(n) == writer = "idle" /\ ~restoring /\ roster[n] \notin save.begun

\* A service call of a federate, and one that names no federate, are admitted.
acquireFederateService(n) == writer = "idle" /\ ~restoring /\ roster[n] \notin save.initiated
acquireService == writer = "idle" /\ ~restoring /\ (saving => save.waiting /\ save.initiated = {})

\* The federates that can still call.
Callers == Joined \ lost

\* A callback to the handles hs.  The end of a failed save and of a restore is
\* "over"; it is sent once to each, and one that refuses it is not told again,
\* so it is over for it too.
Notify(hs, callback) == told' = [n \in Names |-> IF roster[n] \in hs THEN callback ELSE told[n]]

----------------------------------------------------------------------------
(* Saving.                                                                 *)

newActiveSave(label, timed) ==
    [id |-> requests + 1, label |-> label, timed |-> timed, waiting |-> timed, federates |-> Live,
     initiated |-> IF timed THEN {} ELSE Live, begun |-> {}, complete |-> {}, notComp |-> {},
     clients |-> << >>]

\* Mutant: the save that is replaced releases whatever barrier there is.
installSave_ReleaseLast(next) ==
    /\ save' = next
    /\ barrier' = IF saving THEN NoBarrier ELSE [owner |-> next.id, paused |-> next.initiated]
    /\ completed' = [l \in Labels |-> IF l = next.label THEN "initiated"
                                      ELSE IF saving /\ l = save.label THEN "idle"
                                      ELSE completed[l]]
    /\ UNCHANGED resume

\* The new save takes the barrier over before the one it replaces lets go.
installSave(next) ==
    /\ save' = next
    /\ barrier' = [owner |-> next.id, paused |-> next.initiated]
    /\ completed' = [l \in Labels |-> IF l = next.label THEN "initiated"
                                      ELSE IF saving /\ l = save.label THEN "idle"
                                      ELSE completed[l]]
    /\ UNCHANGED resume

finalizeSave(label, outcome) ==
    /\ save' = NoSave
    /\ barrier' = NoBarrier
    /\ completed' = [completed EXCEPT ![label] = outcome]

RequestFederationSave(n, label, timed) ==
    /\ AcquireCheckpoint /\ n \in Callers
    /\ ~restoring
    /\ ~saving \/ (save.waiting /\ save.initiated = {})
    /\ requests < limits.requests /\ requests' = requests + 1
    /\ \/ timed /\ installSave(newActiveSave(label, TRUE)) /\ UNCHANGED told
       \/ ~timed /\ installSave(newActiveSave(label, FALSE)) /\ Notify(Live, "save")
       \/ ~timed /\ ~saving \* one of the instructions is refused
          /\ finalizeSave(label, "notSaved") /\ resume' = TRUE
          /\ Notify(Live, "over")
    /\ UNCHANGED <<members, services, restore, writer, disk>>

FederateSaveBegun(n) ==
    /\ AcquireCheckpoint /\ n \in Callers
    /\ ~restoring
    /\ roster[n] \in save.initiated \ (save.begun \cup save.complete \cup save.notComp)
    /\ save' = [save EXCEPT !.begun = @ \cup {roster[n]}]
    /\ UNCHANGED <<members, services, restore, writer, requests, completed, barrier, resume,
                   told, disk>>

\* The end of a save that failed, told to those of hs that still have a session.
failSave(hs) ==
    /\ finalizeSave(save.label, "notSaved")
    /\ Notify(hs, "over")

markFederateAndAggregate(h, ok, state) ==
    [save EXCEPT !.begun = @ \ {h},
                 !.complete = IF ok THEN @ \cup {h} ELSE @,
                 !.notComp = IF ok THEN @ ELSE @ \cup {h},
                 !.clients = IF ok THEN [c \in save.complete \cup {h} |->
                                            IF c = h THEN state ELSE save.clients[c]]
                             ELSE @]

\* A report.  The last one ends the save or goes on to write it; a scheduled
\* save whose federates have changed fails at any report.
recordFederateSave(n, ok) ==
    LET h == roster[n]
        marked == markFederateAndAggregate(h, ok, app[n])
        responded == marked.complete \cup marked.notComp = save.federates
        changed == save.timed /\ h \in save.initiated /\ Live # save.federates
    IN  /\ AcquireCheckpoint /\ n \in Callers
        /\ \/ changed /\ failSave(save.federates) /\ resume' = TRUE /\ UNCHANGED writer
           \/ /\ ~changed /\ ~restoring /\ h \in save.begun
              /\ \/ ~responded /\ save' = marked
                    /\ UNCHANGED <<completed, barrier, resume, told, writer>>
                 \/ responded \* a report of failure, or no reservation of the outcome
                    /\ failSave(save.federates) /\ resume' = TRUE /\ UNCHANGED writer
                 \/ responded /\ marked.notComp = {}
                    /\ save' = marked /\ writer' = "writing"
                    /\ UNCHANGED <<completed, barrier, resume, told>>
        /\ UNCHANGED <<members, services, restore, requests, disk>>

\* The image of the managers and of the federates, by handle.
manifest ==
    [generation |-> generation, label |-> save.label, work |-> work, clients |-> save.clients,
     handles |-> [n \in Joined |-> roster[n]]]

Stored(g, label) == {b \in bundles : b.generation = g /\ b.label = label}

\* Mutant: a bundle is written over one of the same name.
writeBundle_Over ==
    /\ writer = "writing"
    /\ bundles' = bundles \cup {manifest} /\ writer' = "written"
    /\ UNCHANGED <<save, completed, barrier, resume, told>>
    /\ UNCHANGED <<members, services, restore, requests, history>>

\* The bundle appears under its name at once, or the save fails; a name that
\* is taken is never written again.
writeBundle ==
    /\ writer = "writing"
    /\ \/ /\ Stored(generation, save.label) = {}
          /\ bundles' = bundles \cup {manifest} /\ writer' = "written"
          /\ UNCHANGED <<save, completed, barrier, resume, told>>
       \/ /\ failSave(save.federates) /\ resume' = TRUE
          /\ writer' = "idle" /\ UNCHANGED bundles
    /\ UNCHANGED <<members, services, restore, requests, history>>

\* Mutant: the decision stands although it could not be recorded.
commitSaveHistory_Unrecorded ==
    /\ writer = "written" /\ writer' = "decided"
    /\ history' \in {history, history \cup {<<generation, save.label>>}}
    /\ UNCHANGED <<save, completed, barrier, resume, told, bundles>>
    /\ UNCHANGED <<members, services, restore, requests>>

\* The decision is recorded, or the save fails and its bundle is discarded,
\* unless that fails too.
commitSaveHistory ==
    /\ writer = "written"
    /\ \/ /\ history' = history \cup {<<generation, save.label>>} /\ writer' = "decided"
          /\ UNCHANGED <<save, completed, barrier, resume, told, bundles>>
       \/ /\ \/ bundles' = bundles \ Stored(generation, save.label)
             \/ UNCHANGED bundles
          /\ failSave(save.federates) /\ resume' = TRUE
          /\ writer' = "idle" /\ UNCHANGED history
    /\ UNCHANGED <<members, services, restore, requests>>

publishSaveDecision ==
    /\ writer = "decided" /\ writer' = "idle"
    /\ finalizeSave(save.label, "saved") /\ resume' = TRUE
    /\ Notify(save.federates, "saved")
    /\ UNCHANGED <<members, services, restore, requests, disk>>

AbortSave(n) ==
    /\ AcquireCheckpoint /\ n \in Callers
    /\ saving
    /\ failSave(save.federates) /\ resume' = TRUE
    /\ UNCHANGED <<members, services, restore, writer, requests, disk>>

\* Some federates have reached the time of a scheduled save: they are paused
\* and told to save, all of them or the save fails.
progressParticipants(ready) ==
    LET recipients == ready \ save.initiated
        initiated == save.initiated \cup recipients
    IN  /\ recipients # {}
        /\ \/ /\ save' = [save EXCEPT !.initiated = initiated,
                                      !.waiting = initiated # save.federates]
              /\ barrier' = [barrier EXCEPT !.paused = @ \cup recipients]
              /\ Notify(recipients, "save")
              /\ UNCHANGED <<completed, resume>>
           \/ failSave(save.federates) /\ resume' \in BOOLEAN

\* Mutant: the federates are not compared with those of the request.
ProgressScheduledSave_Unchecked ==
    /\ AcquireCheckpoint
    /\ \/ save.waiting
          /\ \/ failSave(save.federates) /\ resume' \in BOOLEAN
             \/ \E ready \in SUBSET save.federates : progressParticipants(ready)
       \/ resume /\ ~saving /\ ~restoring /\ resume' = FALSE
          /\ UNCHANGED <<save, completed, barrier, told>>
    /\ UNCHANGED <<members, services, restore, writer, requests, disk>>

\* Mutant: nothing is resumed when no save is scheduled.
ProgressScheduledSave_NoResume ==
    /\ AcquireCheckpoint
    /\ \/ save.waiting /\ Live # save.federates /\ failSave(save.federates) /\ resume' \in BOOLEAN
       \/ save.waiting /\ Live = save.federates
          /\ \/ failSave(save.federates) /\ resume' \in BOOLEAN
             \/ \E ready \in SUBSET save.federates : progressParticipants(ready)
    /\ UNCHANGED <<members, services, restore, writer, requests, disk>>

\* Runs after a call has released its admission while something is pending.
\* A call that ends a save here also resumes the advance requests, which may fail.
ProgressScheduledSave ==
    /\ AcquireCheckpoint
    /\ \/ save.waiting /\ Live # save.federates /\ failSave(save.federates) /\ resume' \in BOOLEAN
       \/ save.waiting /\ Live = save.federates
          /\ \/ failSave(save.federates) /\ resume' \in BOOLEAN \* halted, or the times changed
             \/ \E ready \in SUBSET save.federates : progressParticipants(ready)
       \/ resume /\ ~saving /\ ~restoring /\ resume' = FALSE
          /\ UNCHANGED <<save, completed, barrier, told>>
    /\ UNCHANGED <<members, services, restore, writer, requests, disk>>
----------------------------------------------------------------------------
(* Restoring.                                                              *)

\* The execution a label stands for, if any: this one when it has decided the
\* label, else the only one that has.
selectCheckpointGeneration(label) ==
    LET candidates == {g \in 1..limits.generations : <<g, label>> \in history}
    IN  IF generation \in candidates THEN {generation}
        ELSE IF Cardinality(candidates) = 1 THEN candidates ELSE {}

\* The fresh handle of a participant of another execution, in the order saved.
freshHandle(b, n) ==
    Handle(nextHandle + Cardinality({m \in DOMAIN b.handles : b.handles[m][2] < b.handles[n][2]}))

\* The image with every handle replaced by a fresh one.
rebind(b) ==
    LET source(h) == CHOOSE n \in DOMAIN b.handles : freshHandle(b, n) = h
        fresh == {freshHandle(b, n) : n \in DOMAIN b.handles}
    IN  [generation |-> generation, label |-> b.label,
         work |-> [h \in fresh |-> b.work[b.handles[source(h)]]],
         clients |-> [h \in fresh |-> b.clients[b.handles[source(h)]]],
         handles |-> [n \in DOMAIN b.handles |-> freshHandle(b, n)]]

newActiveRestore(image) ==
    [active |-> TRUE, current |-> roster, image |-> image, complete |-> {}, notComp |-> {}]

\* A restore starts: from the execution named in the request, decided or not,
\* or from the one the label stands for.  The saved names must be the joined
\* ones.  Handles taken for another execution's image are not given back.
RequestFederationRestore(n, b) ==
    LET cross == b.generation # generation
        image == IF cross THEN rebind(b) ELSE b
        size == Cardinality(DOMAIN b.handles)
    IN  /\ AcquireCheckpoint /\ n \in Callers
        /\ ~saving /\ ~restoring
        /\ DOMAIN b.handles = Joined
        /\ nextHandle' = IF cross THEN nextHandle + size ELSE nextHandle
        /\ nextHandle' <= limits.handles + 1
        /\ \/ /\ restore' = newActiveRestore(image)
              /\ Notify(Live, "restore")
           \/ Notify(Live, "over") /\ UNCHANGED restore \* a notice is refused
           \/ cross /\ UNCHANGED <<restore, told>> \* the image cannot be prepared
        /\ UNCHANGED <<roster, generation, lost, services, save, writer, requests, completed,
                       barrier, resume, disk>>

RequestFederationRestoreBy(n) ==
    \E label \in Labels : \E g \in selectCheckpointGeneration(label) :
        \E b \in Stored(g, label) : RequestFederationRestore(n, b)

RequestFederationRestoreFrom(n) == \E b \in bundles : RequestFederationRestore(n, b)

failRestore == restore' = NoRestore /\ Notify(Live, "over")

\* Mutant: saved federate states are handed out in the order of the handles the
\* federates have now.
commitPreparedRestore_ByPosition ==
    LET rank(f, n) == Cardinality({m \in Joined : f[m][2] < f[n][2]})
        at(n) == CHOOSE m \in Joined : rank(restore.image.handles, m) = rank(roster, n)
    IN  /\ app' = [n \in Names |-> IF n \in Joined
                                   THEN restore.image.clients[restore.image.handles[at(n)]]
                                   ELSE app[n]]
        /\ roster' = [n \in Names |-> IF n \in Joined THEN restore.image.handles[n] ELSE InvalidHandle]
        /\ work' = restore.image.work
        /\ restore' = NoRestore
        /\ Notify(Live, "over")
        /\ resume' = TRUE

\* The state of every manager, the identities and the notice change together;
\* a federate takes its own saved state over when it gets the notice.
commitPreparedRestore ==
    /\ app' = [n \in Names |-> IF n \in Joined THEN restore.image.clients[restore.image.handles[n]]
                               ELSE app[n]]
    /\ roster' = [n \in Names |-> IF n \in Joined THEN restore.image.handles[n] ELSE InvalidHandle]
    /\ work' = restore.image.work
    /\ restore' = NoRestore
    /\ Notify(Live, "over")
    /\ resume' = TRUE

\* Mutant: the restore waits until every federate reports success.
recordFederateRestore_Success(n, ok) ==
    LET h == roster[n]
        complete == IF ok THEN restore.complete \cup {h} ELSE restore.complete
        notComp == IF ok THEN restore.notComp ELSE restore.notComp \cup {h}
        allDone == complete = Live
    IN  /\ AcquireCheckpoint /\ n \in Callers
        /\ ~saving /\ restoring
        /\ h \notin restore.complete \cup restore.notComp
        /\ \/ ~allDone /\ restore' = [restore EXCEPT !.complete = complete, !.notComp = notComp]
              /\ UNCHANGED <<roster, work, app, told, resume>>
           \/ allDone /\ failRestore /\ UNCHANGED <<roster, work, app, resume>>
           \/ allDone /\ notComp = {} /\ roster = restore.current /\ commitPreparedRestore
        /\ UNCHANGED <<nextHandle, generation, lost, leases, save, writer, requests, completed,
                       barrier, disk>>

recordFederateRestore(n, ok) ==
    LET h == roster[n]
        complete == IF ok THEN restore.complete \cup {h} ELSE restore.complete
        notComp == IF ok THEN restore.notComp ELSE restore.notComp \cup {h}
        allDone == complete \cup notComp = Live
    IN  /\ AcquireCheckpoint /\ n \in Callers
        /\ ~saving /\ restoring
        /\ h \notin restore.complete \cup restore.notComp
        /\ \/ ~allDone /\ restore' = [restore EXCEPT !.complete = complete, !.notComp = notComp]
              /\ UNCHANGED <<roster, work, app, told, resume>>
           \/ allDone \* a report of failure, changed participants, or no reservation
              /\ failRestore /\ UNCHANGED <<roster, work, app, resume>>
           \/ allDone /\ notComp = {} /\ roster = restore.current /\ commitPreparedRestore
        /\ UNCHANGED <<nextHandle, generation, lost, leases, save, writer, requests, completed,
                       barrier, disk>>

AbortRestore(n) ==
    /\ AcquireCheckpoint /\ n \in Callers
    /\ restoring /\ failRestore
    /\ UNCHANGED <<members, services, save, writer, requests, completed, barrier, resume, disk>>

----------------------------------------------------------------------------
(* The federates and the server around it.                                 *)

Leave(n) ==
    /\ roster' = [roster EXCEPT ![n] = InvalidHandle]
    /\ work' = [h \in Live \ {roster[n]} |-> work[h]]
    /\ app' = [app EXCEPT ![n] = 0]
    /\ lost' = lost \ {n}

\* A join whose journal record is refused is undone, but its handle is spent.
JoinFederation(n) ==
    /\ acquireService
    /\ n \notin Joined /\ nextHandle <= limits.handles
    /\ nextHandle' = nextHandle + 1
    /\ \/ /\ roster' = [roster EXCEPT ![n] = Handle(nextHandle)]
          /\ work' = [h \in Live \cup {Handle(nextHandle)} |-> IF h \in Live THEN work[h] ELSE 0]
       \/ UNCHANGED <<roster, work>>
    /\ UNCHANGED <<generation, lost, app, leases, save, restore, writer, requests, completed,
                   barrier, resume, told, disk>>

ResignFederation(n) ==
    /\ n \in Callers \ leases
    /\ acquireFederateService(n)
    /\ Leave(n)
    /\ told' = [told EXCEPT ![n] = "over"]
    /\ UNCHANGED <<nextHandle, generation, leases, save, restore, writer, requests, completed,
                   barrier, resume, disk>>

\* A service call: admitted, then applied.
BeginService(n) ==
    /\ n \in Callers \ leases /\ app[n] < MaxWork
    /\ acquireFederateService(n)
    /\ leases' = leases \cup {n}
    /\ UNCHANGED <<members, work, app, save, restore, writer, requests, completed, barrier,
                   resume, told, disk>>

EndService(n) ==
    /\ n \in leases
    /\ leases' = leases \ {n}
    /\ work' = [work EXCEPT ![roster[n]] = @ + 1]
    /\ app' = [app EXCEPT ![n] = @ + 1]
    /\ UNCHANGED <<members, save, restore, writer, requests, completed, barrier, resume, told,
                   disk>>

\* A federate is disconnected for longer than the grace period.
Disconnect(n) ==
    /\ limits.losses /\ n \in Callers
    /\ lost' = lost \cup {n}
    /\ UNCHANGED <<roster, nextHandle, generation, services, save, restore, writer, requests,
                   completed, barrier, resume, told, disk>>

\* Mutant: only federates that have begun to save are told of the end.
FederateLost_Begun(n) ==
    LET h == roster[n]
    IN  /\ AcquireCheckpoint /\ n \in Joined \cap lost
        /\ ~restoring
        /\ IF h \in save.federates
           THEN /\ finalizeSave(save.label, "notSaved") /\ resume' = TRUE
                /\ told' = [m \in Names |-> IF m = n \/ roster[m] \in save.begun THEN "over" ELSE told[m]]
           ELSE /\ told' = [told EXCEPT ![n] = "over"]
                /\ UNCHANGED <<save, barrier, completed, resume>>
        /\ Leave(n)
        /\ UNCHANGED <<nextHandle, generation, leases, restore, writer, requests, disk>>

\* Mutant: a loss waits for the end of a save as it does for that of a restore.
FederateLost_Deferred(n) ==
    /\ AcquireCheckpoint /\ n \in Joined \cap lost
    /\ ~restoring /\ ~saving
    /\ told' = [told EXCEPT ![n] = "over"]
    /\ Leave(n)
    /\ UNCHANGED <<nextHandle, generation, leases, save, restore, writer, requests, completed,
                   barrier, resume, disk>>

\* Its loss is handled, not during a restore: a save it takes part in fails,
\* which is told to the others that have been told to save, and it resigns.
FederateLost(n) ==
    LET h == roster[n]
    IN  /\ AcquireCheckpoint /\ n \in Joined \cap lost
        /\ ~restoring
        /\ IF h \in save.federates
           THEN /\ finalizeSave(save.label, "notSaved") /\ resume' = TRUE
                /\ told' = [m \in Names |-> IF m = n THEN "over"
                                            ELSE IF roster[m] \in save.initiated \cap Live
                                                 THEN "over" ELSE told[m]]
           ELSE /\ told' = [told EXCEPT ![n] = "over"]
                /\ UNCHANGED <<save, barrier, completed, resume>>
        /\ Leave(n)
        /\ UNCHANGED <<nextHandle, generation, leases, restore, writer, requests, disk>>

\* A new execution, with nothing of the old one in memory.
Forget ==
    /\ generation < limits.generations /\ generation' = generation + 1 /\ nextHandle' = 1
    /\ save' = NoSave /\ restore' = NoRestore /\ barrier' = NoBarrier
    /\ completed' = [l \in Labels |-> "idle"] /\ resume' = FALSE

\* The federation is destroyed and created again.
OnFederationDestroyed ==
    /\ acquireService /\ Joined = {}
    /\ Forget
    /\ UNCHANGED <<roster, lost, services, writer, requests, told, disk>>

\* The server dies and is started again; the federates start again too.
Crash ==
    /\ Forget
    /\ roster' = [n \in Names |-> InvalidHandle] /\ lost' = {} /\ leases' = {}
    /\ work' = << >> /\ app' = [n \in Names |-> 0] /\ told' = [n \in Names |-> "over"]
    /\ writer' = "idle"
    /\ UNCHANGED <<requests, disk>>

----------------------------------------------------------------------------
Init ==
    /\ roster = [n \in Names |-> InvalidHandle] /\ nextHandle = 1 /\ generation = 1 /\ lost = {}
    /\ work = << >> /\ app = [n \in Names |-> 0] /\ leases = {}
    /\ save = NoSave /\ restore = NoRestore /\ writer = "idle" /\ requests = 0
    /\ completed = [l \in Labels |-> "idle"] /\ barrier = NoBarrier /\ resume = FALSE
    /\ told = [n \in Names |-> "over"] /\ bundles = {} /\ history = {}
    /\ limits \in Limits

Request(n) ==
    \E label \in Labels, timed \in BOOLEAN :
        timed \in limits.kinds /\ RequestFederationSave(n, label, timed)
ReportSave(n) == \E ok \in BOOLEAN : recordFederateSave(n, ok)
ReportRestore(n) == \E ok \in BOOLEAN : recordFederateRestore(n, ok)

Step ==
    \/ \E n \in Names :
          \/ Request(n) \/ FederateSaveBegun(n) \/ ReportSave(n) \/ AbortSave(n)
          \/ RequestFederationRestoreBy(n) \/ RequestFederationRestoreFrom(n)
          \/ ReportRestore(n) \/ AbortRestore(n)
          \/ JoinFederation(n) \/ ResignFederation(n) \/ BeginService(n) \/ EndService(n)
          \/ Disconnect(n) \/ FederateLost(n)
    \/ writeBundle \/ commitSaveHistory \/ publishSaveDecision
    \/ ProgressScheduledSave \/ OnFederationDestroyed \/ Crash

Kept(A) == A /\ UNCHANGED limits
Next == Kept(Step)

Spec == Init /\ [][Next]_vars

\* Every federate that is connected goes on with what it was told to do, calls
\* end, losses are handled and each call that leaves something pending runs the
\* progress of scheduled saves after it.  Fairness of that progress includes that
\* every participant reaches the time of a scheduled save.
FairSpec ==
    /\ Spec
    /\ \A n \in Names :
          WF_vars(Kept(FederateSaveBegun(n))) /\ WF_vars(Kept(ReportSave(n))) /\ WF_vars(Kept(ReportRestore(n)))
          /\ WF_vars(Kept(EndService(n))) /\ SF_vars(Kept(FederateLost(n)))
    /\ WF_vars(Kept(writeBundle)) /\ WF_vars(Kept(commitSaveHistory)) /\ WF_vars(Kept(publishSaveDecision))
    /\ SF_vars(Kept(ProgressScheduledSave))

----------------------------------------------------------------------------
(* Properties.                                                             *)

\* Every variable has its type, a joined federate has a handle of its own and
\* the service state is that of the joined handles.
TypeOK ==
    /\ roster \in [Names -> {InvalidHandle} \cup {Handle(l) : l \in 1..limits.handles}] /\ nextHandle \in 1..(limits.handles + 1)
    /\ \A n, m \in Joined : n # m => roster[n] # roster[m]
    /\ generation \in 1..limits.generations /\ lost \subseteq Names
    /\ work \in [Live -> 0..MaxWork] /\ app \in [Names -> 0..MaxWork] /\ leases \subseteq Joined
    /\ save.id \in 0..requests /\ requests <= limits.requests
    /\ save.begun \cup save.complete \cup save.notComp \subseteq save.initiated
    /\ save.initiated \subseteq save.federates
    /\ writer \in {"idle", "writing", "written", "decided"}
    /\ completed \in [Labels -> {"idle", "initiated", "saved", "notSaved"}]
    /\ resume \in BOOLEAN /\ told \in [Names -> {"over", "save", "saved", "restore"}]
    /\ history \subseteq (1..limits.generations) \X Labels
    /\ \A b, c \in bundles : b.generation = c.generation /\ b.label = c.label => b = c

\* A bundle is one cut of the federation: what the managers hold of a federate
\* when the last report is in is what the federate saved when it reported,
\* though services of federates not yet told to save go on in between
\* (acquireService, saveParticipantStarted).
ConsistentCut ==
    \A b \in bundles :
        /\ DOMAIN b.clients = {b.handles[n] : n \in DOMAIN b.handles}
        /\ b.clients = b.work

\* A federate and the managers agree on its state, under the handle the
\* managers know it by, after any restore too: of this execution or another,
\* after the federate has joined again or not (restoreRouting, rebinding).
InStep == \A n \in Joined : app[n] = work[roster[n]]

\* What is reported as saved can be restored: a decision has its bundle and a
\* label that answers saved has its decision, wherever the server died and
\* whichever write failed (persistCompletedSave, commitSaveHistory).
SavedIsStored ==
    /\ \A d \in history : Stored(d[1], d[2]) # {}
    /\ \A l \in Labels : completed[l] = "saved" => <<generation, l>> \in history
    /\ \A n \in Joined : told[n] = "saved" => \E l \in Labels : <<generation, l>> \in history

\* Logical time is held for the save in progress and nobody else, and pauses
\* exactly the federates told to save: replacing a scheduled save, or ending
\* one in any way, leaves no pause behind (installSave, releaseSaveTime).
TimeHeldBySave == barrier.owner = save.id /\ barrier.paused = save.initiated

\* A federate told to save or to restore is in that save or restore until it is
\* told how it ended, or is refused that notice; and a save counts no federate
\* that was not told (FederateLost, failScheduledSave, emitSaveOutcome).
NobodyLeftWaiting ==
    /\ \A n \in Joined : told[n] = "save" <=> roster[n] \in save.initiated
    /\ \A n \in Joined : told[n] = "restore" <=> restoring

\* From the last instruction to save, and throughout a restore, the federates
\* are the ones it is about and no service call runs (admission.go).
MembersFixed ==
    /\ saving /\ ~save.waiting => Live = save.federates /\ leases = {}
    /\ restoring => roster = restore.current /\ leases = {}
    /\ \A n \in leases : roster[n] \notin save.initiated

\* A save ends, also when a participant is lost in it (AcquireLoss), if the
\* participants reach its time; the code has no timeout for one that never does.
SaveEnds == saving ~> ~saving

\* A restore ends, unless a participant is lost in it: losses wait for the
\* restore (AcquireLoss), which can then only be aborted.
RestoreEnds == restoring ~> (~restoring \/ lost # {})

\* Advance requests held back by a save or a restore are taken up again, with
\* the same exception (resumeSaveTime).
Resumes == resume ~> (~resume \/ lost # {})

=============================================================================
