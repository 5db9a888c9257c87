-------------------------- MODULE SaveRestoreProofs ---------------------------
(***************************************************************************)
(* Proofs about SaveRestore, for every number of federates, labels,        *)
(* requests, handles and executions: what the steps of a save and of a     *)
(* restore keep, what the federates and the server around them keep, and   *)
(* what follows.                                                           *)
(***************************************************************************)
EXTENDS SaveRestore, FiniteSetTheorems, TLAPS

SaveRecord ==
    [id : Nat, label : Labels \cup {0}, timed : BOOLEAN, waiting : BOOLEAN,
     federates : SUBSET (Nat \X Nat), initiated : SUBSET (Nat \X Nat), begun : SUBSET (Nat \X Nat),
     complete : SUBSET (Nat \X Nat), notComp : SUBSET (Nat \X Nat),
     clients : UNION {[S -> Nat] : S \in SUBSET (Nat \X Nat)}]

\* Every joined federate has a handle of this execution that no other has and
\* that was given out before, and the managers hold the state of these handles.
MembersOK ==
    /\ roster \in [Names -> Nat \X Nat]
    /\ generation \in Nat \ {0} /\ nextHandle \in Nat \ {0}
    /\ \A n \in Joined : roster[n][1] = generation /\ roster[n][2] \in 1..(nextHandle - 1)
    /\ \A m, n \in Joined : roster[m] = roster[n] => m = n
    /\ app \in [Names -> Nat] /\ \A n \in Names \ Joined : app[n] = 0
    /\ work \in [Live -> Nat]
    /\ leases \subseteq Joined

\* A save counts only federates that were told to save; it waits unless all
\* were, and then they are the joined ones.
SaveOK ==
    /\ save \in SaveRecord /\ requests \in Nat
    /\ save.begun \cup save.complete \subseteq save.initiated
    /\ save.initiated \subseteq save.federates
    /\ save.waiting => save.initiated # save.federates
    /\ DOMAIN save.clients = save.complete
    /\ ~saving => save = NoSave
    /\ saving => save.label \in Labels
    /\ saving /\ ~save.waiting => save.initiated = save.federates /\ Live = save.federates
    /\ \A n \in leases : roster[n] \notin save.initiated

\* What a federate saved is what it still holds.
ReportsHold == \A n \in Joined : roster[n] \in save.complete => save.clients[roster[n]] = app[n]

\* While a save is written nothing else runs and every federate has reported.
WriterOK ==
    /\ writer \in {"idle", "writing", "written", "decided"}
    /\ writer # "idle" =>
          /\ saving /\ ~save.waiting /\ ~restoring /\ leases = {}
          /\ save.complete = save.federates

Handles(i) == {i.handles[n] : n \in DOMAIN i.handles}

\* An image has a handle of its execution for each name, a different one for
\* each, and the managers' and the federates' state of these handles agree.
WellFormed(i) ==
    /\ DOMAIN i.handles \subseteq Names
    /\ \A n \in DOMAIN i.handles : i.handles[n] \in {i.generation} \X (Nat \ {0})
    /\ \A m, n \in DOMAIN i.handles : i.handles[m] = i.handles[n] => m = n
    /\ i.work \in [Handles(i) -> Nat] /\ i.clients = i.work

\* The handles of an image of this execution have been given out.
GivenOut(i) ==
    /\ i.generation \in 1..generation
    /\ i.generation = generation => \A n \in DOMAIN i.handles : i.handles[n][2] < nextHandle

BundlesOK == \A b \in bundles : WellFormed(b) /\ GivenOut(b)

RestoreFieldNames == {"active", "current", "image", "complete", "notComp"}

\* During a restore nothing else runs and the image is for the joined federates.
RestoreOK ==
    /\ restoring \in BOOLEAN /\ DOMAIN restore = RestoreFieldNames
    /\ restoring =>
          /\ ~saving /\ leases = {} /\ roster = restore.current
          /\ WellFormed(restore.image) /\ GivenOut(restore.image)
          /\ restore.image.generation = generation
          /\ DOMAIN restore.image.handles = Joined

\* The decisions and what is said of them.
DecisionsOK ==
    /\ completed \in [Labels -> {"idle", "initiated", "saved", "notSaved"}]
    /\ history \subseteq Nat \X Labels /\ SavedIsStored
    /\ writer \in {"written", "decided"} => Stored(generation, save.label) # {}
    /\ writer = "written" => <<generation, save.label>> \notin history
    /\ writer = "decided" => <<generation, save.label>> \in history

NoticesOK ==
    /\ told \in [Names -> {"over", "save", "saved", "restore"}]
    /\ \A n \in Names \ Joined : told[n] = "over"
    /\ NobodyLeftWaiting

BarrierOK == barrier = [owner |-> save.id, paused |-> save.initiated]

IInv ==
    /\ MembersOK /\ SaveOK /\ ReportsHold /\ WriterOK /\ BundlesOK /\ RestoreOK
    /\ InStep /\ DecisionsOK /\ NoticesOK /\ BarrierOK

----------------------------------------------------------------------------
(* The records.                                                            *)

\* The fields of the absent save.
LEMMA NoSaveFields ==
    /\ NoSave \in SaveRecord
    /\ NoSave.id = 0 /\ NoSave.federates = {} /\ NoSave.initiated = {} /\ NoSave.begun = {}
    /\ NoSave.complete = {} /\ NoSave.notComp = {} /\ DOMAIN NoSave.clients = {}
    /\ ~NoSave.waiting
<1>1. /\ NoSave.id = 0 /\ NoSave.federates = {} /\ NoSave.initiated = {} /\ NoSave.begun = {}
      /\ NoSave.complete = {} /\ NoSave.notComp = {} /\ NoSave.clients = << >>
      /\ NoSave.waiting = FALSE
  BY Zenon DEF NoSave
<1>2. << >> \in [{} -> Nat] /\ DOMAIN << >> = {}
  OBVIOUS
<1>3. NoSave \in SaveRecord
  BY <1>2, Zenon DEF NoSave, SaveRecord
<1> QED BY <1>1, <1>2, <1>3

\* The fields of the absent restore and the absent barrier.
LEMMA NoRestoreFields == NoRestore.active = FALSE /\ DOMAIN NoRestore = RestoreFieldNames
<1>1. NoRestore.active = FALSE
  BY Zenon DEF NoRestore
<1>2. DOMAIN NoRestore = RestoreFieldNames
  BY DEF NoRestore, RestoreFieldNames
<1> QED BY <1>1, <1>2

\* No barrier is the barrier of no save.
LEMMA NoBarrierFields == NoBarrier = [owner |-> NoSave.id, paused |-> NoSave.initiated]
  BY NoSaveFields DEF NoBarrier

----------------------------------------------------------------------------
(* What a step leaves as it is.                                            *)

\* While nobody joins, leaves or works, the members stay as they are.
LEMMA KeepMembers ==
    ASSUME MembersOK, InStep, UNCHANGED <<members, services>>
    PROVE  MembersOK' /\ InStep' /\ Joined' = Joined /\ Live' = Live /\ roster' = roster
<1>1. /\ roster' = roster /\ nextHandle' = nextHandle /\ generation' = generation
      /\ work' = work /\ app' = app /\ leases' = leases
  BY DEF members, services
<1>2. Joined' = Joined
  BY <1>1 DEF Joined
<1>3. Live' = Live
  BY <1>1, <1>2 DEF Live
<1> QED BY <1>1, <1>2, <1>3 DEF MembersOK, InStep

\* Bundles stay well formed while the execution goes on.
LEMMA KeepBundles ==
    ASSUME MembersOK, BundlesOK, bundles' \subseteq bundles, generation' = generation,
           nextHandle' \in Nat, nextHandle' >= nextHandle
    PROVE  BundlesOK'
<1> SUFFICES ASSUME NEW b \in bundles' PROVE WellFormed(b)' /\ GivenOut(b)'
  BY DEF BundlesOK
<1>1. WellFormed(b) /\ GivenOut(b)
  BY DEF BundlesOK
<1>2. WellFormed(b)'
  BY <1>1 DEF WellFormed, Handles
<1>3. ASSUME NEW n \in DOMAIN b.handles, b.generation = generation
      PROVE  b.handles[n][2] < nextHandle'
  <2>1. b.handles[n][2] < nextHandle /\ b.handles[n][2] \in Nat
    BY <1>1, <1>3 DEF WellFormed, GivenOut
  <2> QED BY <2>1 DEF MembersOK
<1>4. GivenOut(b)'
  BY <1>1, <1>3 DEF GivenOut
<1> QED BY <1>2, <1>4

\* A restore goes on while the members stay and no save starts.
LEMMA KeepRestore ==
    ASSUME MembersOK, RestoreOK, UNCHANGED <<members, services, restore>>,
           restoring => ~saving'
    PROVE  RestoreOK'
<1>1. /\ roster' = roster /\ nextHandle' = nextHandle /\ generation' = generation
      /\ leases' = leases /\ restore' = restore /\ Joined' = Joined
  BY DEF members, services, Joined
<1>2. restoring' = restoring
  BY <1>1 DEF restoring
<1>3. ASSUME restoring
      PROVE  /\ WellFormed(restore.image)' /\ GivenOut(restore.image)'
             /\ restore.image.generation = generation
             /\ DOMAIN restore.image.handles = Joined
  BY <1>1, <1>3 DEF RestoreOK, WellFormed, Handles, GivenOut
<1> QED BY <1>1, <1>2, <1>3 DEF RestoreOK

----------------------------------------------------------------------------
(* The invariant holds at the start and under every action.                *)

\* The invariant holds when the server starts.
LEMMA InitInv == Init => IInv
<1> SUFFICES ASSUME Init PROVE IInv
  OBVIOUS
<1>1. Joined = {} /\ Live = {}
  BY DEF Init, Joined, Live
<1>2. ~saving /\ ~restoring
  BY NoSaveFields, NoRestoreFields DEF Init, saving, restoring
<1>3. MembersOK
  <2>1. InvalidHandle \in Nat \X Nat
    BY DEF InvalidHandle
  <2>2. << >> \in [{} -> Nat]
    OBVIOUS
  <2> QED BY <1>1, <2>1, <2>2 DEF Init, MembersOK
<1>4. SaveOK
  BY <1>1, <1>2, NoSaveFields DEF Init, SaveOK
<1>5. ReportsHold /\ InStep
  BY <1>1 DEF ReportsHold, InStep
<1>6. WriterOK
  BY DEF Init, WriterOK
<1>7. BundlesOK /\ RestoreOK
  BY <1>2, NoRestoreFields, Zenon DEF Init, BundlesOK, RestoreOK, restoring
<1>8. DecisionsOK
  BY <1>1 DEF Init, DecisionsOK, SavedIsStored
<1>9. NoticesOK
  BY <1>1 DEF Init, NoticesOK, NobodyLeftWaiting
<1>10. BarrierOK
  BY NoBarrierFields DEF Init, BarrierOK
<1> QED BY <1>3, <1>4, <1>5, <1>6, <1>7, <1>8, <1>9, <1>10 DEF IInv

\* A save that ends, in whatever way, while the members stay: everybody who was
\* told to save is told that it is over, no decision loses its bundle, and
\* what is said to be saved is decided.
LEMMA SaveOver ==
    ASSUME IInv, NEW label \in Labels, NEW hs, NEW outcome, NEW callback,
           \/ outcome = "notSaved" /\ callback = "over"
           \/ /\ outcome = "saved" /\ callback = "saved"
              /\ <<generation, label>> \in history /\ hs \subseteq Live,
           finalizeSave(label, outcome), Notify(hs, callback), save.initiated \subseteq hs,
           writer' = "idle", UNCHANGED <<members, services, restore, history>>, requests' \in Nat,
           bundles' \subseteq bundles,
           \A d \in history : Stored(d[1], d[2])' # {},
           ~restoring
    PROVE  IInv'
<1>1. /\ save' = NoSave /\ barrier' = NoBarrier
      /\ completed' = [completed EXCEPT ![label] = outcome]
  BY DEF finalizeSave
<1>2. MembersOK' /\ InStep' /\ Joined' = Joined /\ Live' = Live /\ roster' = roster
  BY KeepMembers DEF IInv
<1>3. ~saving'
  BY <1>1, NoSaveFields DEF saving
<1>4. SaveOK'
  BY <1>1, <1>2, <1>3, NoSaveFields DEF IInv, SaveOK
<1>5. ReportsHold'
  BY <1>1, NoSaveFields DEF ReportsHold
<1>6. WriterOK'
  BY DEF WriterOK
<1>7. generation' = generation /\ nextHandle' = nextHandle /\ leases' = leases
  BY DEF members, services
<1>8. BundlesOK'
  <2>1. nextHandle' \in Nat /\ nextHandle' >= nextHandle
    BY <1>7 DEF IInv, MembersOK
  <2> QED BY <1>7, <2>1, KeepBundles DEF IInv
<1>9. RestoreOK'
  BY <1>3, KeepRestore DEF IInv
<1>10. DecisionsOK'
  <2>1. completed' \in [Labels -> {"idle", "initiated", "saved", "notSaved"}]
    BY <1>1 DEF IInv, DecisionsOK
  <2>2. \A l \in Labels : completed'[l] = "saved" =>
            completed[l] = "saved" \/ <<generation, l>> \in history
    BY <1>1 DEF IInv, DecisionsOK
  <2>3. \A n \in Names : told'[n] = "saved" =>
            told[n] = "saved" \/ <<generation, label>> \in history
    BY DEF Notify
  <2>4. SavedIsStored'
    <3>1. history' = history
      OBVIOUS
    <3>2. \A d \in history' : Stored(d[1], d[2])' # {}
      BY <3>1
    <3>3. \A l \in Labels : completed'[l] = "saved" => <<generation', l>> \in history'
      BY <2>2, <3>1, <1>7 DEF IInv, DecisionsOK, SavedIsStored
    <3>4. \A n \in Joined' : told'[n] = "saved" => \E l \in Labels : <<generation', l>> \in history'
      BY <2>3, <3>1, <1>2, <1>7, Zenon DEF IInv, DecisionsOK, SavedIsStored, Joined
    <3> QED BY <3>2, <3>3, <3>4 DEF SavedIsStored
  <2> QED BY <2>1, <2>4 DEF IInv, DecisionsOK
<1>11. NoticesOK'
  <2>1. told' = [n \in Names |-> IF roster[n] \in hs THEN callback ELSE told[n]]
    BY DEF Notify
  <2>2. restoring' = restoring
    BY DEF restoring
  <2>3. ASSUME NEW n \in Joined PROVE told'[n] # "save" /\ (told'[n] = "restore" <=> restoring)
    <3>1. n \in Names
      BY DEF Joined
    <3>2. told[n] = "save" <=> roster[n] \in save.initiated
      BY DEF IInv, NoticesOK, NobodyLeftWaiting
    <3>3. told[n] = "restore" <=> restoring
      BY DEF IInv, NoticesOK, NobodyLeftWaiting
    <3> QED BY <2>1, <3>1, <3>2, <3>3
  <2>4. NobodyLeftWaiting'
    BY <1>1, <1>2, <2>2, <2>3, NoSaveFields DEF NobodyLeftWaiting
  <2>5. told' \in [Names -> {"over", "save", "saved", "restore"}]
    BY <2>1 DEF IInv, NoticesOK
  <2>6. ASSUME NEW n \in Names \ Joined PROVE told'[n] = "over"
    <3>1. told[n] = "over" /\ roster[n] \notin Live
      BY DEF IInv, NoticesOK, Joined, Live
    <3> QED BY <2>1, <3>1
  <2> QED BY <1>2, <2>4, <2>5, <2>6 DEF NoticesOK
<1>12. BarrierOK'
  BY <1>1, NoBarrierFields DEF BarrierOK
<1> QED BY <1>2, <1>4, <1>5, <1>6, <1>8, <1>9, <1>10, <1>11, <1>12 DEF IInv

\* The handles of the members.
LEMMA LiveType ==
    ASSUME MembersOK
    PROVE  Live \subseteq Nat \X Nat /\ \A n \in Joined : n \in Names /\ roster[n] \in Live
  BY DEF MembersOK, Live, Joined

\* The fields of a new save.
LEMMA NewSaveFields ==
    ASSUME MembersOK, requests \in Nat, NEW label \in Labels, NEW timed \in BOOLEAN,
           NEW s, s = newActiveSave(label, timed)
    PROVE  /\ s \in SaveRecord
           /\ s.id = requests + 1 /\ s.label = label /\ s.waiting = timed /\ s.federates = Live
           /\ s.initiated = IF timed THEN {} ELSE Live
           /\ s.begun = {} /\ s.complete = {} /\ DOMAIN s.clients = {}
<1>1. << >> \in [{} -> Nat] /\ DOMAIN << >> = {}
  OBVIOUS
<1>2. /\ s.id = requests + 1 /\ s.label = label /\ s.waiting = timed /\ s.federates = Live
      /\ s.initiated = IF timed THEN {} ELSE Live
      /\ s.begun = {} /\ s.complete = {} /\ s.clients = << >>
  BY Zenon DEF newActiveSave
<1>3. requests + 1 \in Nat
  OBVIOUS
<1>4. Live \in SUBSET (Nat \X Nat) /\ (IF timed THEN {} ELSE Live) \in SUBSET (Nat \X Nat)
  BY LiveType
<1>5. s \in SaveRecord
  BY <1>1, <1>3, <1>4, Zenon DEF newActiveSave, SaveRecord
<1> QED BY <1>1, <1>2, <1>5

\* A request to save, installed, scheduled or refused by a federate, keeps the
\* invariant (RequestFederationSave, installSave).
LEMMA RequestSaveInv ==
    ASSUME IInv, NEW n \in Names, NEW label \in Labels, NEW timed \in BOOLEAN,
           RequestFederationSave(n, label, timed)
    PROVE  IInv'
<1>1. /\ leases = {} /\ writer = "idle" /\ ~restoring /\ requests' = requests + 1
      /\ UNCHANGED <<members, services, restore, writer, disk>>
  BY DEF RequestFederationSave, AcquireCheckpoint
<1>2. save.initiated = {}
  BY NoSaveFields DEF RequestFederationSave, IInv, SaveOK
<1>3. MembersOK' /\ InStep' /\ Joined' = Joined /\ Live' = Live /\ roster' = roster
  BY <1>1, KeepMembers DEF IInv
<1>4. /\ generation' = generation /\ nextHandle' = nextHandle /\ leases' = leases
      /\ bundles' = bundles /\ history' = history
  BY <1>1 DEF members, services, disk
<1>5. BundlesOK'
  <2>1. nextHandle' \in Nat /\ nextHandle' >= nextHandle
    BY <1>4 DEF IInv, MembersOK
  <2> QED BY <1>4, <2>1, KeepBundles DEF IInv
<1>6. RestoreOK'
  BY <1>1, KeepRestore DEF IInv
<1>7. requests \in Nat /\ MembersOK
  BY DEF IInv, SaveOK
<1>8. ASSUME NEW t \in BOOLEAN, t = timed, installSave(newActiveSave(label, t)),
             \/ t /\ UNCHANGED told
             \/ ~t /\ Notify(Live, "save")
      PROVE  IInv'
  <2> DEFINE s == newActiveSave(label, t)
  <2> HIDE DEF s
  <2>1. /\ save' = s /\ barrier' = [owner |-> s.id, paused |-> s.initiated]
        /\ completed' = [l \in Labels |-> IF l = s.label THEN "initiated"
                                          ELSE IF saving /\ l = save.label THEN "idle"
                                          ELSE completed[l]]
    BY <1>8 DEF installSave, s
  <2>2. /\ s \in SaveRecord
        /\ s.id = requests + 1 /\ s.label = label /\ s.waiting = t /\ s.federates = Live
        /\ s.initiated = (IF t THEN {} ELSE Live)
        /\ s.begun = {} /\ s.complete = {} /\ DOMAIN s.clients = {}
    BY <1>7, NewSaveFields DEF s
  <2>3. saving'
    BY <1>7, <2>1, <2>2 DEF saving
  <2>4. SaveOK'
    <3>1. Live # {}
      BY DEF RequestFederationSave, Callers, Live
    <3> QED BY <1>1, <1>3, <1>4, <1>7, <2>1, <2>2, <2>3, <3>1, SMTT(30) DEF SaveOK
  <2>5. ReportsHold' /\ WriterOK'
    BY <1>1, <2>1, <2>2 DEF ReportsHold, WriterOK
  <2>6. \A m \in Names : told'[m] = "saved" => told[m] = "saved"
    BY <1>8 DEF Notify
  <2>7. DecisionsOK'
    <3>1. completed' \in [Labels -> {"idle", "initiated", "saved", "notSaved"}]
      BY <2>1 DEF IInv, DecisionsOK
    <3>2. \A l \in Labels : completed'[l] = "saved" => completed[l] = "saved"
      BY <2>1 DEF IInv, DecisionsOK
    <3>3. SavedIsStored'
      BY <1>3, <1>4, <2>6, <3>2, Zenon DEF IInv, DecisionsOK, SavedIsStored, Stored, Joined
    <3> QED BY <1>1, <1>4, <3>1, <3>3 DEF IInv, DecisionsOK
  <2>8. NoticesOK'
    <3>1. restoring' = restoring
      BY <1>1 DEF restoring
    <3>2. ASSUME NEW m \in Joined
          PROVE  told'[m] # "restore" /\ (told'[m] = "save" <=> roster[m] \in s.initiated)
      <4>1. told[m] # "save" /\ told[m] # "restore"
        BY <1>1, <1>2 DEF IInv, NoticesOK, NobodyLeftWaiting
      <4>2. m \in Names /\ roster[m] \in Live
        BY <1>7, LiveType, Zenon
      <4> QED BY <1>8, <2>2, <4>1, <4>2 DEF Notify
    <3>3. NobodyLeftWaiting'
      BY <1>1, <1>3, <2>1, <3>1, <3>2 DEF NobodyLeftWaiting
    <3>4. told' \in [Names -> {"over", "save", "saved", "restore"}]
      BY <1>8 DEF Notify, IInv, NoticesOK
    <3>5. ASSUME NEW m \in Names \ Joined PROVE told'[m] = "over"
      <4>1. told[m] = "over"
        BY DEF IInv, NoticesOK
      <4>2. roster[m] \notin Live
        BY DEF Joined, Live
      <4> QED BY <1>8, <4>1, <4>2 DEF Notify
    <3> QED BY <1>3, <3>3, <3>4, <3>5 DEF NoticesOK
  <2>9. BarrierOK'
    BY <2>1 DEF BarrierOK
  <2> QED BY <1>3, <1>5, <1>6, <2>4, <2>5, <2>7, <2>8, <2>9, Zenon DEF IInv
<1>9. CASE timed /\ installSave(newActiveSave(label, TRUE)) /\ UNCHANGED told
  BY <1>8, <1>9, Zenon
<1>10. CASE ~timed /\ installSave(newActiveSave(label, FALSE)) /\ Notify(Live, "save")
  BY <1>8, <1>10, Zenon
<1>11. CASE ~saving /\ finalizeSave(label, "notSaved") /\ Notify(Live, "over")
  <2>1. \A d \in history : Stored(d[1], d[2])' # {}
    BY <1>4 DEF IInv, DecisionsOK, SavedIsStored, Stored
  <2>2. save.initiated \subseteq Live /\ requests' \in Nat /\ bundles' \subseteq bundles
    BY <1>1, <1>2, <1>4, <1>7
  <2>3. writer' = "idle" /\ UNCHANGED <<members, services, restore, history>> /\ ~restoring
    BY <1>1, <1>4
  <2> QED BY <1>11, <2>1, <2>2, <2>3, SaveOver, Zenon
<1> QED BY <1>9, <1>10, <1>11, Zenon DEF RequestFederationSave

\* A step within a save: it keeps its identity, the members and the disk.
LEMMA SaveMoves ==
    ASSUME IInv, saving, UNCHANGED <<members, services, restore, requests, completed, disk>>,
           save'.id = save.id, save'.label = save.label,
           writer' \in {"idle", "writing"},
           \A n \in Names : told'[n] = "saved" => told[n] = "saved"
    PROVE  /\ MembersOK' /\ InStep' /\ BundlesOK' /\ RestoreOK' /\ DecisionsOK'
           /\ saving' /\ Joined' = Joined /\ Live' = Live /\ roster' = roster
           /\ restoring' = restoring /\ leases' = leases /\ ~restoring
<1>1. MembersOK' /\ InStep' /\ Joined' = Joined /\ Live' = Live /\ roster' = roster
  BY KeepMembers DEF IInv
<1>2. /\ generation' = generation /\ nextHandle' = nextHandle /\ leases' = leases
      /\ bundles' = bundles /\ history' = history /\ completed' = completed /\ restore' = restore
  BY DEF members, services, disk
<1>3. saving' /\ restoring' = restoring /\ ~restoring
  BY <1>2 DEF saving, restoring, IInv, RestoreOK
<1>4. BundlesOK'
  <2>1. nextHandle' \in Nat /\ nextHandle' >= nextHandle
    BY <1>2 DEF IInv, MembersOK
  <2> QED BY <1>2, <2>1, KeepBundles DEF IInv
<1>5. RestoreOK'
  BY <1>2, <1>3, KeepRestore DEF IInv
<1>6. SavedIsStored'
  BY <1>1, <1>2, Zenon DEF IInv, DecisionsOK, SavedIsStored, Stored, Joined
<1>7. DecisionsOK'
  BY <1>2, <1>6 DEF IInv, DecisionsOK
<1> QED BY <1>1, <1>2, <1>3, <1>4, <1>5, <1>7

\* A federate that begins to save keeps the invariant (FederateSaveBegun).
LEMMA SaveBegunInv ==
    ASSUME IInv, NEW n \in Names, FederateSaveBegun(n)
    PROVE  IInv'
<1>1. /\ leases = {} /\ writer = "idle" /\ roster[n] \in save.initiated
      /\ save' = [save EXCEPT !.begun = @ \cup {roster[n]}]
      /\ UNCHANGED <<members, services, restore, writer, requests, completed, barrier, told, disk>>
  BY DEF FederateSaveBegun, AcquireCheckpoint
<1>2. saving
  BY <1>1, NoSaveFields DEF IInv, SaveOK
<1>3. /\ save' \in SaveRecord
      /\ save'.id = save.id /\ save'.label = save.label /\ save'.waiting = save.waiting
      /\ save'.federates = save.federates /\ save'.initiated = save.initiated
      /\ save'.begun = save.begun \cup {roster[n]}
      /\ save'.complete = save.complete /\ save'.clients = save.clients
  <2>1. save \in SaveRecord /\ save.begun \cup {roster[n]} \in SUBSET (Nat \X Nat)
    BY DEF IInv, SaveOK, MembersOK, SaveRecord
  <2> QED BY <1>1, <2>1 DEF SaveRecord
<1>4. /\ MembersOK' /\ InStep' /\ BundlesOK' /\ RestoreOK' /\ DecisionsOK'
      /\ saving' /\ Joined' = Joined /\ Live' = Live /\ roster' = roster
      /\ restoring' = restoring /\ leases' = leases /\ ~restoring
  BY <1>1, <1>2, <1>3, SaveMoves
<1>5. SaveOK'
  BY <1>1, <1>2, <1>3, <1>4 DEF IInv, SaveOK
<1>6. ReportsHold' /\ WriterOK'
  BY <1>1, <1>3, <1>4 DEF IInv, ReportsHold, WriterOK, services
<1>7. NoticesOK'
  BY <1>1, <1>3, <1>4 DEF IInv, NoticesOK, NobodyLeftWaiting
<1>8. BarrierOK'
  BY <1>1, <1>3, Zenon DEF IInv, BarrierOK
<1> QED BY <1>4, <1>5, <1>6, <1>7, <1>8 DEF IInv

\* A save after a report.
Marked(m, h, ok, state) ==
    /\ m \in SaveRecord
    /\ m.id = save.id /\ m.label = save.label /\ m.waiting = save.waiting
    /\ m.federates = save.federates /\ m.initiated = save.initiated
    /\ m.begun = save.begun \ {h}
    /\ m.complete = IF ok THEN save.complete \cup {h} ELSE save.complete
    /\ m.notComp = IF ok THEN save.notComp ELSE save.notComp \cup {h}
    /\ m.clients = IF ok THEN [c \in save.complete \cup {h} |->
                                  IF c = h THEN state ELSE save.clients[c]]
                   ELSE save.clients

\* The fields of a save after a report.
LEMMA MarkedFields ==
    ASSUME save \in SaveRecord, DOMAIN save.clients = save.complete, NEW h \in Nat \X Nat,
           NEW ok \in BOOLEAN, NEW state \in Nat,
           NEW m, m = markFederateAndAggregate(h, ok, state)
    PROVE  Marked(m, h, ok, state)
<1> DEFINE begun == save.begun \ {h}
           complete == IF ok THEN save.complete \cup {h} ELSE save.complete
           notComp == IF ok THEN save.notComp ELSE save.notComp \cup {h}
           clients == IF ok THEN [c \in save.complete \cup {h} |->
                                     IF c = h THEN state ELSE save.clients[c]]
                      ELSE save.clients
<1>1. /\ begun \in SUBSET (Nat \X Nat) /\ complete \in SUBSET (Nat \X Nat)
      /\ notComp \in SUBSET (Nat \X Nat)
  BY DEF SaveRecord
<1>2. clients \in UNION {[S -> Nat] : S \in SUBSET (Nat \X Nat)}
  <2>1. PICK S \in SUBSET (Nat \X Nat) : save.clients \in [S -> Nat]
    BY DEF SaveRecord
  <2>2. S = save.complete
    BY <2>1
  <2>3. ok => clients \in [save.complete \cup {h} -> Nat]
    BY <2>1, <2>2
  <2>4. save.complete \cup {h} \in SUBSET (Nat \X Nat)
    BY DEF SaveRecord
  <2> QED BY <2>1, <2>3, <2>4, Zenon
<1> DEFINE c1 == [save EXCEPT !.begun = begun]
           c2 == [c1 EXCEPT !.complete = complete]
           c3 == [c2 EXCEPT !.notComp = notComp]
           c4 == [c3 EXCEPT !.clients = clients]
<1>3. m = c4
  BY DEF markFederateAndAggregate
<1> HIDE DEF begun, complete, notComp, clients
<1>4. c1 \in SaveRecord /\ c1.complete = save.complete /\ c1.notComp = save.notComp
      /\ c1.id = save.id /\ c1.label = save.label /\ c1.waiting = save.waiting
      /\ c1.federates = save.federates /\ c1.initiated = save.initiated /\ c1.begun = begun
  BY <1>1 DEF SaveRecord
<1> HIDE DEF c1
<1>5. c2 \in SaveRecord /\ c2.complete = complete /\ c2.notComp = c1.notComp
      /\ c2.id = c1.id /\ c2.label = c1.label /\ c2.waiting = c1.waiting
      /\ c2.federates = c1.federates /\ c2.initiated = c1.initiated /\ c2.begun = c1.begun
  BY <1>1, <1>4, Zenon DEF SaveRecord
<1> HIDE DEF c2
<1>6. c3 \in SaveRecord /\ c3.complete = c2.complete /\ c3.notComp = notComp
      /\ c3.id = c2.id /\ c3.label = c2.label /\ c3.waiting = c2.waiting
      /\ c3.federates = c2.federates /\ c3.initiated = c2.initiated /\ c3.begun = c2.begun
  BY <1>1, <1>5 DEF SaveRecord
<1> HIDE DEF c3
<1>7. c4 \in SaveRecord /\ c4.complete = c3.complete /\ c4.notComp = c3.notComp
      /\ c4.id = c3.id /\ c4.label = c3.label /\ c4.waiting = c3.waiting
      /\ c4.federates = c3.federates /\ c4.initiated = c3.initiated /\ c4.begun = c3.begun /\ c4.clients = clients
  BY <1>2, <1>6, Zenon DEF SaveRecord
<1> HIDE DEF c4
<1> QED BY <1>3, <1>4, <1>5, <1>6, <1>7 DEF Marked, begun, complete, notComp, clients

\* A report on a save keeps the invariant, the one that ends the save too
\* (recordFederateSave).
LEMMA ReportSaveInv ==
    ASSUME IInv, NEW n \in Names, NEW ok \in BOOLEAN, recordFederateSave(n, ok)
    PROVE  IInv'
<1> DEFINE h == roster[n]
           m == markFederateAndAggregate(h, ok, app[n])
           changed == save.timed /\ h \in save.initiated /\ Live # save.federates
           responded == m.complete \cup m.notComp = save.federates
<1>1. /\ leases = {} /\ writer = "idle" /\ n \in Joined
      /\ UNCHANGED <<members, services, restore, requests, disk>>
  BY DEF recordFederateSave, AcquireCheckpoint, Callers
<1>2. \/ changed /\ failSave(save.federates) /\ UNCHANGED writer
      \/ /\ ~changed /\ ~restoring /\ h \in save.begun
         /\ \/ ~responded /\ save' = m /\ UNCHANGED <<completed, barrier, resume, told, writer>>
            \/ responded /\ failSave(save.federates) /\ UNCHANGED writer
            \/ responded /\ m.notComp = {} /\ save' = m /\ writer' = "writing"
               /\ UNCHANGED <<completed, barrier, resume, told>>
  BY Zenon DEF recordFederateSave
<1>3. h \in save.initiated /\ saving /\ save.label \in Labels /\ ~restoring
  <2>1. h \in save.initiated
    BY <1>2, Zenon DEF IInv, SaveOK
  <2>2. saving
    BY <2>1, NoSaveFields, Zenon DEF IInv, SaveOK
  <2> QED BY <2>1, <2>2, Zenon DEF IInv, SaveOK, RestoreOK
<1>4. CASE failSave(save.federates) /\ UNCHANGED writer
  <2>1. /\ finalizeSave(save.label, "notSaved") /\ Notify(save.federates, "over")
        /\ bundles' = bundles /\ history' = history /\ requests' = requests
    BY <1>1, <1>4 DEF failSave, disk
  <2>2. \A d \in history : Stored(d[1], d[2])' # {}
    BY <2>1, Zenon DEF IInv, DecisionsOK, SavedIsStored, Stored
  <2>3. save.initiated \subseteq save.federates /\ requests' \in Nat
    BY <2>1 DEF IInv, SaveOK
  <2> QED BY <1>1, <1>3, <1>4, <2>1, <2>2, <2>3, SaveOver, Zenon
<1>5. ASSUME h \in save.begun, save' = m, UNCHANGED <<completed, barrier, told>>,
             \/ UNCHANGED writer
             \/ responded /\ m.notComp = {} /\ writer' = "writing"
      PROVE  IInv'
  <2>1. Marked(m, h, ok, app[n])
    <3>1. h \in Nat \X Nat /\ app[n] \in Nat
      BY DEF IInv, MembersOK
    <3>2. save \in SaveRecord /\ DOMAIN save.clients = save.complete
      BY DEF IInv, SaveOK
    <3>3. m = markFederateAndAggregate(h, ok, app[n])
      OBVIOUS
    <3> HIDE DEF h, m
    <3> QED BY <3>1, <3>2, <3>3, MarkedFields, Zenon
  <2> HIDE DEF m
  <2>2. writer' \in {"idle", "writing"}
    BY <1>1, <1>5, Zenon
  <2>3. /\ MembersOK' /\ InStep' /\ BundlesOK' /\ RestoreOK' /\ DecisionsOK'
        /\ saving' /\ Joined' = Joined /\ Live' = Live /\ roster' = roster
        /\ restoring' = restoring /\ leases' = leases /\ ~restoring
    BY <1>1, <1>3, <1>5, <2>1, <2>2, SaveMoves, Zenon DEF Marked
  <2>4. m.begun \cup m.complete \subseteq save.initiated
    BY <1>3, <2>1 DEF IInv, SaveOK, Marked
  <2>5. DOMAIN m.clients = m.complete
    BY <2>1, Zenon DEF IInv, SaveOK, Marked
  <2>6. SaveOK'
    BY <1>1, <1>3, <1>5, <2>1, <2>3, <2>4, <2>5, ZenonT(40) DEF IInv, SaveOK, Marked
  <2>7. ReportsHold'
    <3> SUFFICES ASSUME NEW k \in Joined, roster[k] \in m.complete
                 PROVE  m.clients[roster[k]] = app[k]
      BY <1>1, <1>5, <2>3, Zenon DEF ReportsHold, services
    <3>1. CASE roster[k] = h
      <4>1. k = n
        BY <1>1, <3>1, Zenon DEF IInv, MembersOK
      <4> QED BY <2>1, <3>1, <4>1 DEF IInv, ReportsHold, Marked
    <3>2. CASE roster[k] # h
      BY <2>1, <3>2 DEF IInv, ReportsHold, Marked
    <3> QED BY <3>1, <3>2, Zenon
  <2>8. WriterOK'
    <3>1. CASE writer' = "idle"
      BY <3>1, Zenon DEF WriterOK
    <3>2. CASE responded /\ m.notComp = {} /\ writer' = "writing"
      <4>1. m.complete = save.federates
        BY <3>2
      <4>2. save.initiated = save.federates /\ ~save.waiting
        BY <2>4, <4>1, Zenon DEF IInv, SaveOK
      <4> QED BY <1>1, <1>5, <2>1, <2>3, <3>2, <4>1, <4>2, Zenon DEF WriterOK, Marked
    <3> QED BY <1>1, <1>5, <3>1, <3>2
  <2>9. NoticesOK'
    BY <1>5, <2>1, <2>3, Zenon DEF IInv, NoticesOK, NobodyLeftWaiting, Marked
  <2>10. BarrierOK'
    BY <1>5, <2>1 DEF IInv, BarrierOK, Marked
  <2> QED BY <2>3, <2>6, <2>7, <2>8, <2>9, <2>10 DEF IInv
<1> HIDE DEF m, changed, responded
<1> QED BY <1>2, <1>4, <1>5, Zenon

\* The image of a save every federate has reported is one cut.
LEMMA ManifestOK ==
    ASSUME IInv, writer = "writing", NEW i, i = manifest
    PROVE  /\ WellFormed(i) /\ GivenOut(i)
           /\ i.generation = generation /\ i.label = save.label
<1> DEFINE handles == [n \in Joined |-> roster[n]]
<1>1. /\ i.generation = generation /\ i.label = save.label /\ i.work = work
      /\ i.clients = save.clients /\ i.handles = handles
  BY Zenon DEF manifest
<1>2. DOMAIN i.handles = Joined /\ \A n \in Joined : i.handles[n] = roster[n]
  BY <1>1, Zenon
<1> HIDE DEF handles
<1>3. Handles(i) = Live
  BY <1>2 DEF Handles, Live
<1>4. work \in [Live -> Nat] /\ generation \in Nat \ {0} /\ nextHandle \in Nat \ {0}
  BY DEF IInv, MembersOK
<1>5. DOMAIN save.clients = Live
  BY DEF IInv, SaveOK, WriterOK
<1>6. ASSUME NEW h \in Live PROVE save.clients[h] = work[h]
  <2>1. PICK n \in Joined : h = roster[n]
    BY DEF Live
  <2>2. save.clients[roster[n]] = app[n]
    BY <2>1, <1>5 DEF IInv, SaveOK, ReportsHold
  <2>3. app[n] = work[roster[n]]
    BY DEF IInv, InStep
  <2> QED BY <2>1, <2>2, <2>3
<1>7. save.clients = work
  <2>1. PICK S : save.clients \in [S -> Nat]
    BY DEF IInv, SaveOK, SaveRecord
  <2> QED BY <1>4, <1>5, <1>6, <2>1
<1>8. ASSUME NEW n \in Joined
      PROVE  roster[n] \in {generation} \X (Nat \ {0}) /\ roster[n][2] < nextHandle
  <2>1. roster[n] \in Nat \X Nat /\ roster[n][1] = generation /\ roster[n][2] \in 1..(nextHandle - 1)
    BY DEF IInv, MembersOK, Joined
  <2> QED BY <1>4, <2>1
<1>9. WellFormed(i)
  <2>1. DOMAIN i.handles \subseteq Names
    BY <1>2 DEF Joined
  <2>2. \A m, n \in Joined : roster[m] = roster[n] => m = n
    BY DEF IInv, MembersOK
  <2> QED BY <1>1, <1>2, <1>3, <1>4, <1>7, <1>8, <2>1, <2>2 DEF WellFormed
<1>10. GivenOut(i)
  BY <1>1, <1>2, <1>4, <1>8 DEF GivenOut
<1> QED BY <1>1, <1>9, <1>10

\* What the steps that write a save leave as it is.
LEMMA WriterMoves ==
    ASSUME IInv, writer # "idle", writer' \in {"written", "decided"}, save' = save,
           UNCHANGED <<members, services, restore, requests, completed, barrier, told>>
    PROVE  /\ MembersOK' /\ InStep' /\ SaveOK' /\ ReportsHold' /\ WriterOK' /\ RestoreOK'
           /\ NoticesOK' /\ BarrierOK'
           /\ Joined' = Joined /\ generation' = generation /\ nextHandle' = nextHandle
<1>1. MembersOK' /\ InStep' /\ Joined' = Joined /\ Live' = Live /\ roster' = roster
  BY KeepMembers DEF IInv
<1>2. /\ generation' = generation /\ nextHandle' = nextHandle /\ leases' = leases
      /\ app' = app /\ restore' = restore
  BY DEF members, services
<1>3. saving' = saving /\ restoring' = restoring
  BY <1>2, Zenon DEF saving, restoring
<1>4. SaveOK' /\ ReportsHold'
  BY <1>1, <1>2, <1>3 DEF IInv, SaveOK, ReportsHold
<1>5. WriterOK'
  BY <1>2, <1>3 DEF IInv, WriterOK
<1>6. RestoreOK'
  BY <1>3, KeepRestore DEF IInv, WriterOK
<1>7. NoticesOK'
  BY <1>1, <1>3 DEF IInv, NoticesOK, NobodyLeftWaiting
<1>8. BarrierOK'
  BY DEF IInv, BarrierOK
<1> QED BY <1>1, <1>2, <1>4, <1>5, <1>6, <1>7, <1>8

\* Writing the bundle, or failing to, keeps the invariant (writeBundle).
LEMMA WriteBundleInv == IInv /\ writeBundle => IInv'
<1> SUFFICES ASSUME IInv, writeBundle PROVE IInv'
  OBVIOUS
<1>1. /\ writer = "writing" /\ history' = history /\ requests' = requests
      /\ UNCHANGED <<members, services, restore>>
  BY DEF writeBundle
<1>2. /\ saving /\ ~restoring /\ save.label \in Labels
      /\ save.initiated \subseteq save.federates /\ requests \in Nat
  BY <1>1 DEF IInv, WriterOK, SaveOK
<1>3. CASE /\ Stored(generation, save.label) = {}
           /\ bundles' = bundles \cup {manifest} /\ writer' = "written"
           /\ UNCHANGED <<save, completed, barrier, told>>
  <2> DEFINE i == manifest
  <2>1. WellFormed(i) /\ GivenOut(i) /\ i.generation = generation /\ i.label = save.label
    BY <1>1, ManifestOK
  <2>2. bundles' = bundles \cup {i}
    BY <1>3
  <2> HIDE DEF i
  <2>3. /\ MembersOK' /\ InStep' /\ SaveOK' /\ ReportsHold' /\ WriterOK' /\ RestoreOK'
        /\ NoticesOK' /\ BarrierOK'
        /\ Joined' = Joined /\ generation' = generation /\ nextHandle' = nextHandle
    BY <1>1, <1>3, WriterMoves, Zenon
  <2>4. BundlesOK'
    <3> SUFFICES ASSUME NEW b \in bundles' PROVE WellFormed(b)' /\ GivenOut(b)'
      BY DEF BundlesOK
    <3>1. WellFormed(b) /\ GivenOut(b)
      BY <2>1, <2>2 DEF IInv, BundlesOK
    <3> QED BY <2>3, <3>1, Zenon DEF WellFormed, GivenOut, Handles
  <2>5. <<generation, save.label>> \notin history
    BY <1>3 DEF IInv, DecisionsOK, SavedIsStored
  <2>6. SavedIsStored'
    <3>1. ASSUME NEW d \in history PROVE Stored(d[1], d[2])' # {}
      BY <2>2 DEF IInv, DecisionsOK, SavedIsStored, Stored
    <3> QED BY <1>1, <1>3, <2>3, <3>1 DEF IInv, DecisionsOK, SavedIsStored
  <2>7. Stored(generation, save.label)' # {}
    BY <1>3, <2>1, <2>2, <2>3 DEF Stored
  <2>8. DecisionsOK'
    BY <1>1, <1>3, <2>3, <2>5, <2>6, <2>7, ZenonT(40) DEF IInv, DecisionsOK
  <2> QED BY <2>3, <2>4, <2>8 DEF IInv
<1>4. CASE failSave(save.federates) /\ writer' = "idle" /\ UNCHANGED bundles
  <2>1. finalizeSave(save.label, "notSaved") /\ Notify(save.federates, "over")
    BY <1>4 DEF failSave
  <2>2. \A d \in history : Stored(d[1], d[2])' # {}
    BY <1>4 DEF IInv, DecisionsOK, SavedIsStored, Stored
  <2> QED BY <1>1, <1>2, <1>4, <2>1, <2>2, SaveOver, Zenon
<1> QED BY <1>3, <1>4 DEF writeBundle

\* Writing the decision, or failing to, keeps the invariant (commitSaveHistory).
LEMMA CommitHistoryInv == IInv /\ commitSaveHistory => IInv'
<1> SUFFICES ASSUME IInv, commitSaveHistory PROVE IInv'
  OBVIOUS
<1> DEFINE d0 == <<generation, save.label>>
<1>1. /\ writer = "written" /\ requests' = requests
      /\ UNCHANGED <<members, services, restore>>
  BY DEF commitSaveHistory
<1>2. /\ saving /\ ~restoring /\ save.label \in Labels
      /\ save.initiated \subseteq save.federates /\ requests \in Nat
  BY <1>1 DEF IInv, WriterOK, SaveOK
<1>3. CASE /\ history' = history \cup {d0} /\ writer' = "decided"
           /\ UNCHANGED <<save, completed, barrier, told, bundles>>
  <2>1. /\ MembersOK' /\ InStep' /\ SaveOK' /\ ReportsHold' /\ WriterOK' /\ RestoreOK'
        /\ NoticesOK' /\ BarrierOK'
        /\ Joined' = Joined /\ generation' = generation /\ nextHandle' = nextHandle
    BY <1>1, <1>3, WriterMoves
  <2>2. BundlesOK'
    <3>1. nextHandle' \in Nat /\ nextHandle' >= nextHandle
      BY <2>1 DEF IInv, MembersOK
    <3> QED BY <1>3, <2>1, <3>1, KeepBundles, Zenon DEF IInv
  <2>3. ASSUME NEW d \in history' PROVE Stored(d[1], d[2])' # {}
    <3>1. CASE d \in history
      BY <1>3, <3>1 DEF IInv, DecisionsOK, SavedIsStored, Stored
    <3>2. CASE d = d0
      BY <1>1, <1>3, <3>2, Zenon DEF IInv, DecisionsOK, Stored
    <3> QED BY <1>3, <3>1, <3>2
  <2>4. SavedIsStored'
    BY <1>3, <2>1, <2>3, Zenon DEF IInv, DecisionsOK, SavedIsStored
  <2>5. d0 \in Nat \X Labels
    BY <1>2, Zenon DEF IInv, MembersOK
  <2>6. DecisionsOK'
    BY <1>1, <1>3, <2>1, <2>4, <2>5 DEF IInv, DecisionsOK, Stored
  <2> QED BY <2>1, <2>2, <2>6 DEF IInv
<1>4. CASE /\ bundles' = bundles \ Stored(generation, save.label) \/ UNCHANGED bundles
           /\ failSave(save.federates) /\ writer' = "idle" /\ UNCHANGED history
  <2>1. finalizeSave(save.label, "notSaved") /\ Notify(save.federates, "over")
    BY <1>4 DEF failSave
  <2>2. ASSUME NEW d \in history PROVE Stored(d[1], d[2])' # {}
    <3>1. PICK b \in bundles : b.generation = d[1] /\ b.label = d[2]
      BY DEF IInv, DecisionsOK, SavedIsStored, Stored
    <3>2. d # d0
      BY <1>1 DEF IInv, DecisionsOK
    <3>3. ~(d[1] = generation /\ d[2] = save.label)
      BY <3>2 DEF IInv, DecisionsOK
    <3>4. b \in bundles'
      BY <1>4, <3>1, <3>3 DEF Stored
    <3> QED BY <3>1, <3>4 DEF Stored
  <2>3. bundles' \subseteq bundles
    BY <1>4, Zenon
  <2> QED BY <1>1, <1>2, <1>4, <2>1, <2>2, <2>3, SaveOver, Zenon
<1> QED BY <1>3, <1>4 DEF commitSaveHistory

\* Telling everybody that the save is done keeps the invariant
\* (publishSaveDecision).
LEMMA PublishInv == IInv /\ publishSaveDecision => IInv'
<1> SUFFICES ASSUME IInv, publishSaveDecision PROVE IInv'
  OBVIOUS
<1>1. /\ writer = "decided" /\ writer' = "idle" /\ requests' = requests
      /\ finalizeSave(save.label, "saved") /\ Notify(save.federates, "saved")
      /\ UNCHANGED <<members, services, restore>> /\ history' = history /\ bundles' = bundles
  BY Zenon DEF publishSaveDecision, disk
<1>2. /\ ~restoring /\ save.label \in Labels /\ save.federates = Live
      /\ save.initiated \subseteq save.federates /\ requests \in Nat
      /\ <<generation, save.label>> \in history
  BY <1>1 DEF IInv, WriterOK, SaveOK, DecisionsOK
<1>3. \A d \in history : Stored(d[1], d[2])' # {}
  BY <1>1 DEF IInv, DecisionsOK, SavedIsStored, Stored
<1>4. save.federates \subseteq Live /\ requests' \in Nat /\ bundles' \subseteq bundles
  BY <1>1, <1>2, Zenon
<1> QED BY <1>1, <1>2, <1>3, <1>4, SaveOver

\* A control call that fails the save in progress.
LEMMA FailSaveInv ==
    ASSUME IInv, saving, failSave(save.federates), writer' = "idle",
           UNCHANGED <<members, services, restore, requests, disk>>
    PROVE  IInv'
<1>1. /\ finalizeSave(save.label, "notSaved") /\ Notify(save.federates, "over")
      /\ bundles' = bundles /\ history' = history /\ requests' = requests
  BY DEF failSave, disk
<1>2. \A d \in history : Stored(d[1], d[2])' # {}
  BY <1>1, Zenon DEF IInv, DecisionsOK, SavedIsStored, Stored
<1>3. /\ save.label \in Labels /\ save.initiated \subseteq save.federates /\ requests' \in Nat
      /\ ~restoring
  BY <1>1 DEF IInv, SaveOK, RestoreOK
<1> QED BY <1>1, <1>2, <1>3, SaveOver, Zenon

\* Aborting a save keeps the invariant (AbortSave).
LEMMA AbortSaveInv ==
    ASSUME IInv, NEW n \in Names, AbortSave(n)
    PROVE  IInv'
  BY FailSaveInv, Zenon DEF AbortSave, AcquireCheckpoint

\* The progress of a scheduled save keeps the invariant: the instruction of
\* those that reached the time, the save that fails, and the resumption of time.
LEMMA ProgressInv == IInv /\ ProgressScheduledSave => IInv'
<1> SUFFICES ASSUME IInv, ProgressScheduledSave PROVE IInv'
  OBVIOUS
<1>1. /\ leases = {} /\ writer = "idle" /\ writer' = writer
      /\ UNCHANGED <<members, services, restore, requests, disk>>
  BY DEF ProgressScheduledSave, AcquireCheckpoint
<1>2. save.waiting => saving
  BY NoSaveFields DEF IInv, SaveOK
<1>3. CASE save.waiting /\ failSave(save.federates)
  BY <1>1, <1>2, <1>3, FailSaveInv
<1>4. ASSUME save.waiting, Live = save.federates,
             NEW ready \in SUBSET save.federates, progressParticipants(ready)
      PROVE  IInv'
  <2> DEFINE recipients == ready \ save.initiated
             initiated == save.initiated \cup recipients
  <2>1. CASE failSave(save.federates)
    BY <1>3, <1>4, <2>1
  <2>2. CASE /\ save' = [save EXCEPT !.initiated = initiated, !.waiting = initiated # save.federates]
             /\ barrier' = [barrier EXCEPT !.paused = @ \cup recipients]
             /\ Notify(recipients, "save")
             /\ UNCHANGED completed
    <3>1. initiated \subseteq save.federates /\ initiated \in SUBSET (Nat \X Nat)
      BY DEF IInv, SaveOK, SaveRecord
    <3> HIDE DEF initiated, recipients
    <3> DEFINE w == initiated # save.federates
               c == [save EXCEPT !.initiated = initiated]
    <3>2. w \in BOOLEAN /\ save' = [c EXCEPT !.waiting = w]
      BY <2>2
    <3> HIDE DEF w
    <3>3. /\ c \in SaveRecord /\ c.id = save.id /\ c.label = save.label
          /\ c.federates = save.federates /\ c.initiated = initiated /\ c.begun = save.begun
          /\ c.complete = save.complete /\ c.clients = save.clients
      BY <3>1 DEF IInv, SaveOK, SaveRecord
    <3> HIDE DEF c
    <3>4. /\ save' \in SaveRecord /\ save'.id = c.id /\ save'.label = c.label
          /\ save'.federates = c.federates /\ save'.initiated = c.initiated
          /\ save'.begun = c.begun /\ save'.complete = c.complete /\ save'.clients = c.clients
          /\ save'.waiting = w
      BY <3>2, <3>3 DEF SaveRecord
    <3>5. \A n \in Names : told'[n] = "saved" => told[n] = "saved"
      BY <2>2 DEF Notify
    <3>6. /\ MembersOK' /\ InStep' /\ BundlesOK' /\ RestoreOK' /\ DecisionsOK'
          /\ saving' /\ Joined' = Joined /\ Live' = Live /\ roster' = roster
          /\ restoring' = restoring /\ leases' = leases /\ ~restoring
      BY <1>1, <1>2, <1>4, <2>2, <3>3, <3>4, <3>5, SaveMoves, Zenon
    <3>7. SaveOK'
      <4>1. save.initiated \subseteq initiated
        BY DEF initiated
      <4> QED BY <1>1, <1>2, <1>4, <3>1, <3>3, <3>4, <3>6, <4>1, ZenonT(40) DEF IInv, SaveOK, w
    <3>8. ReportsHold' /\ WriterOK'
      BY <1>1, <3>3, <3>4, <3>6, ZenonT(40) DEF IInv, ReportsHold, WriterOK, services
    <3>9. NoticesOK'
      <4>1. told' = [n \in Names |-> IF roster[n] \in recipients THEN "save" ELSE told[n]]
        BY <2>2 DEF Notify
      <4>2. \A n \in Names : roster[n] \in recipients => n \in Joined
        <5>1. recipients \subseteq Live /\ InvalidHandle \notin Live
          <6>1. recipients \subseteq Live
            BY <1>4 DEF recipients
          <6>2. InvalidHandle \notin Live
            BY DEF Live, Joined
          <6> QED BY <6>1, <6>2
        <5> QED BY <5>1 DEF Joined
      <4>3. told' \in [Names -> {"over", "save", "saved", "restore"}]
        BY <4>1 DEF IInv, NoticesOK
      <4>4. \A n \in Names \ Joined : told'[n] = "over"
        BY <4>1, <4>2 DEF IInv, NoticesOK
      <4>5. ASSUME NEW n \in Joined
            PROVE  (told'[n] = "save" <=> roster[n] \in initiated) /\ told'[n] # "restore"
        <5>1. n \in Names
          BY DEF Joined
        <5>2. (told[n] = "save" <=> roster[n] \in save.initiated) /\ told[n] # "restore"
          BY <3>6, Zenon DEF IInv, NoticesOK, NobodyLeftWaiting
        <5> QED BY <4>1, <5>1, <5>2 DEF initiated
      <4>6. NobodyLeftWaiting'
        BY <3>3, <3>4, <3>6, <4>5 DEF NobodyLeftWaiting
      <4> QED BY <3>6, <4>3, <4>4, <4>6 DEF NoticesOK
    <3>10. BarrierOK'
      BY <2>2, <3>3, <3>4, Zenon DEF IInv, BarrierOK, initiated
    <3> QED BY <3>6, <3>7, <3>8, <3>9, <3>10, Zenon DEF IInv
  <2> QED BY <1>4, <2>1, <2>2 DEF progressParticipants
<1>5. CASE UNCHANGED <<save, completed, barrier, told>>
  <2>1. MembersOK' /\ InStep' /\ Joined' = Joined /\ Live' = Live /\ roster' = roster
    BY <1>1, KeepMembers DEF IInv
  <2>2. /\ generation' = generation /\ nextHandle' = nextHandle /\ leases' = leases
        /\ app' = app /\ restore' = restore /\ bundles' = bundles /\ history' = history
    BY <1>1 DEF members, services, disk
  <2>3. saving' = saving /\ restoring' = restoring
    BY <1>5, <2>2, Zenon DEF saving, restoring
  <2>4. SaveOK' /\ ReportsHold' /\ WriterOK'
    BY <1>1, <1>5, <2>1, <2>2, <2>3, Zenon DEF IInv, SaveOK, ReportsHold, WriterOK
  <2>5. RestoreOK'
    BY <1>1, <2>3, KeepRestore DEF IInv, RestoreOK
  <2>6. BundlesOK'
    <3>1. nextHandle' \in Nat /\ nextHandle' >= nextHandle
      BY <2>2, SMTT(30) DEF IInv, MembersOK
    <3> QED BY <2>2, <3>1, KeepBundles DEF IInv
  <2>7. DecisionsOK'
    BY <1>1, <1>5, <2>1, <2>2, Zenon DEF IInv, DecisionsOK, SavedIsStored, Stored
  <2>8. NoticesOK' /\ BarrierOK'
    BY <1>5, <2>1, <2>3 DEF IInv, NoticesOK, NobodyLeftWaiting, BarrierOK
  <2> QED BY <2>1, <2>4, <2>5, <2>6, <2>7, <2>8, Zenon DEF IInv
<1> QED BY <1>3, <1>4, <1>5, Zenon DEF ProgressScheduledSave

----------------------------------------------------------------------------
(* Restoring.                                                              *)

\* The saved participants with a smaller handle.
Before(b, n) == {m \in DOMAIN b.handles : b.handles[m][2] < b.handles[n][2]}

\* Fresh handles are different for different participants and within the block
\* that is set aside for them.
LEMMA FreshHandles ==
    ASSUME MembersOK, NEW b, WellFormed(b)
    PROVE  /\ Cardinality(DOMAIN b.handles) \in Nat
           /\ \A n \in DOMAIN b.handles :
                 /\ freshHandle(b, n) \in {generation} \X (Nat \ {0})
                 /\ freshHandle(b, n)[2] < nextHandle + Cardinality(DOMAIN b.handles)
           /\ \A m, n \in DOMAIN b.handles : freshHandle(b, m) = freshHandle(b, n) => m = n
<1> DEFINE D == DOMAIN b.handles
           rank(n) == Cardinality(Before(b, n))
<1>1. IsFiniteSet(D)
  BY NamesAssumption, FS_Subset DEF WellFormed
<1>2. Cardinality(D) \in Nat
  BY <1>1, FS_CardinalityType, Zenon
<1>3. ASSUME NEW n \in D PROVE b.handles[n][2] \in Nat /\ b.handles[n] = <<b.generation, b.handles[n][2]>>
  BY DEF WellFormed
<1>4. ASSUME NEW n \in D PROVE rank(n) \in Nat /\ rank(n) < Cardinality(D) /\ IsFiniteSet(Before(b, n))
  <2>1. Before(b, n) \in SUBSET D
    BY DEF Before
  <2>2. IsFiniteSet(Before(b, n)) /\ rank(n) <= Cardinality(D) /\ (Cardinality(D) = rank(n) => D = Before(b, n))
    BY <1>1, <2>1, FS_Subset, Zenon
  <2>3. n \notin Before(b, n)
    BY <1>3 DEF Before
  <2>4. rank(n) \in Nat
    BY <2>2, FS_CardinalityType
  <2> QED BY <1>2, <2>2, <2>3, <2>4
<1>5. ASSUME NEW m \in D, NEW n \in D, b.handles[m][2] < b.handles[n][2] PROVE rank(m) # rank(n)
  <2>1. Before(b, m) \in SUBSET Before(b, n)
    <3> SUFFICES ASSUME NEW k \in D, b.handles[k][2] < b.handles[m][2]
                 PROVE  b.handles[k][2] < b.handles[n][2]
      BY DEF Before
    <3> QED BY <1>3, <1>5
  <2>2. m \in Before(b, n) /\ m \notin Before(b, m)
    BY <1>3, <1>5 DEF Before
  <2>3. Cardinality(Before(b, n)) = Cardinality(Before(b, m)) => Before(b, n) = Before(b, m)
    BY <1>4, <2>1, FS_Subset, Zenon
  <2> QED BY <2>2, <2>3
<1>6. \A m, n \in D : rank(m) = rank(n) => m = n
  <2> SUFFICES ASSUME NEW m \in D, NEW n \in D, rank(m) = rank(n) PROVE m = n
    BY Zenon
  <2> HIDE DEF rank
  <2>1. b.handles[m][2] = b.handles[n][2]
    BY <1>3, <1>5, SMTT(30)
  <2>2. b.handles[m] = b.handles[n]
    BY <1>3, <2>1
  <2> QED BY <2>2 DEF WellFormed
<1>7. \A n \in D : freshHandle(b, n) = <<generation, nextHandle + rank(n)>>
  BY DEF freshHandle, Handle, Before
<1> HIDE DEF rank
<1>8. nextHandle \in Nat \ {0}
  BY DEF MembersOK
<1>9. ASSUME NEW n \in D
      PROVE  /\ freshHandle(b, n) \in {generation} \X (Nat \ {0})
             /\ freshHandle(b, n)[2] < nextHandle + Cardinality(D)
  BY <1>2, <1>4, <1>7, <1>8, SMTT(30)
<1>10. ASSUME NEW m \in D, NEW n \in D, freshHandle(b, m) = freshHandle(b, n) PROVE m = n
  <2>1. nextHandle + rank(m) = nextHandle + rank(n)
    BY <1>7, <1>10, SMTT(30)
  <2> QED BY <1>4, <1>6, <1>8, <2>1
<1> QED BY <1>2, <1>9, <1>10, Zenon

\* An image under fresh handles is again well formed, for the same names.
LEMMA RebindOK ==
    ASSUME MembersOK, NEW b, WellFormed(b), NEW i, i = rebind(b)
    PROVE  /\ WellFormed(i) /\ i.generation = generation /\ DOMAIN i.handles = DOMAIN b.handles
           /\ \A n \in DOMAIN i.handles :
                 i.handles[n][2] < nextHandle + Cardinality(DOMAIN b.handles)
<1> DEFINE D == DOMAIN b.handles
           fresh == {freshHandle(b, n) : n \in D}
           source(h) == CHOOSE n \in D : freshHandle(b, n) = h
           handles == [n \in D |-> freshHandle(b, n)]
           work0 == [h \in fresh |-> b.work[b.handles[source(h)]]]
           clients == [h \in fresh |-> b.clients[b.handles[source(h)]]]
<1>1. i = [generation |-> generation, label |-> b.label, work |-> work0, clients |-> clients,
           handles |-> handles]
  BY Zenon DEF rebind
<1>2. i.generation = generation /\ i.work = work0 /\ i.clients = clients /\ i.handles = handles
  <2> HIDE DEF work0, clients, handles
  <2> QED BY <1>1, SMTT(30)
<1>3. clients = work0
  BY DEF WellFormed
<1>4. DOMAIN handles = D /\ \A n \in D : handles[n] = freshHandle(b, n)
  BY Zenon
<1>5. work0 \in [fresh -> Nat]
  <2> SUFFICES ASSUME NEW h \in fresh PROVE b.work[b.handles[source(h)]] \in Nat
    BY Zenon
  <2>1. source(h) \in D
    OBVIOUS
  <2> HIDE DEF source
  <2>2. b.handles[source(h)] \in Handles(b)
    BY <2>1, Zenon DEF Handles
  <2> QED BY <2>2, Zenon DEF WellFormed
<1> HIDE DEF work0, clients, handles
<1>6. Handles(i) = fresh
  BY <1>2, <1>4 DEF Handles
<1>7. /\ \A n \in D : /\ freshHandle(b, n) \in {generation} \X (Nat \ {0})
                      /\ freshHandle(b, n)[2] < nextHandle + Cardinality(D)
      /\ \A m, n \in D : freshHandle(b, m) = freshHandle(b, n) => m = n
  BY FreshHandles
<1>8. D \subseteq Names
  BY Zenon DEF WellFormed
<1>9. WellFormed(i)
  BY <1>2, <1>3, <1>4, <1>5, <1>6, <1>7, <1>8, SMTT(30) DEF WellFormed
<1> QED BY <1>2, <1>4, <1>7, <1>9, Zenon

\* What a control call of a restore leaves as it is, before the restore ends well.
LEMMA RestoreFrame ==
    ASSUME IInv, writer = "idle", ~saving,
           UNCHANGED <<roster, generation, services, save, writer, requests, completed, barrier, disk>>,
           nextHandle' \in Nat, nextHandle' >= nextHandle,
           \A n \in Names : told'[n] = "saved" => told[n] = "saved"
    PROVE  /\ MembersOK' /\ InStep' /\ SaveOK' /\ ReportsHold' /\ WriterOK' /\ BundlesOK'
           /\ DecisionsOK' /\ BarrierOK' /\ Joined' = Joined /\ Live' = Live /\ ~saving'
<1>1. /\ work' = work /\ app' = app /\ leases' = leases /\ bundles' = bundles /\ history' = history
  BY DEF services, disk
<1>2. Joined' = Joined
  BY DEF Joined
<1>3. Live' = Live
  BY <1>2, Zenon DEF Live
<1>4. MembersOK'
  <2>1. nextHandle \in Nat \ {0}
    BY DEF IInv, MembersOK
  <2>2. ASSUME NEW n \in Joined PROVE roster[n][2] \in 1..(nextHandle' - 1)
    <3>1. roster[n][2] \in 1..(nextHandle - 1)
      BY DEF IInv, MembersOK
    <3> QED BY <2>1, <3>1, SMTT(30)
  <2>3. nextHandle' \in Nat \ {0}
    BY <2>1, SMTT(30)
  <2> QED BY <1>1, <1>2, <1>3, <2>2, <2>3, ZenonT(40) DEF IInv, MembersOK
<1>5. InStep'
  BY <1>1, <1>2 DEF IInv, InStep
<1>6. ~saving'
  BY Zenon DEF saving
<1>7. SaveOK' /\ ReportsHold'
  BY <1>1, <1>2, <1>3, <1>6, Zenon DEF IInv, SaveOK, ReportsHold
<1>8. WriterOK'
  BY DEF IInv, WriterOK
<1>9. BundlesOK'
  BY <1>1, KeepBundles, Zenon DEF IInv
<1>10. DecisionsOK'
  BY <1>1, <1>2, Zenon DEF IInv, DecisionsOK, SavedIsStored, Stored, Joined
<1>11. BarrierOK'
  BY DEF IInv, BarrierOK
<1> QED BY <1>2, <1>3, <1>4, <1>5, <1>6, <1>7, <1>8, <1>9, <1>10, <1>11, Zenon

\* Everybody is told the same: that a restore starts, or that it is over.
LEMMA AllTold ==
    ASSUME IInv, ~saving, NEW callback \in {"over", "restore"}, Notify(Live, callback)
    PROVE  /\ told' \in [Names -> {"over", "save", "saved", "restore"}]
           /\ \A n \in Joined : told'[n] = callback
           /\ \A n \in Names \ Joined : told'[n] = "over"
           /\ \A n \in Names : told'[n] = "saved" => told[n] = "saved"
<1>1. told' = [n \in Names |-> IF roster[n] \in Live THEN callback ELSE told[n]]
  BY DEF Notify
<1>2. \A n \in Joined : n \in Names /\ roster[n] \in Live
  BY LiveType DEF IInv
<1>3. \A n \in Names \ Joined : roster[n] \notin Live
  BY DEF Joined, Live
<1> QED BY <1>1, <1>2, <1>3 DEF IInv, NoticesOK

\* The restore that starts.
LEMMA RestoreFields ==
    ASSUME NEW image, NEW r, r = newActiveRestore(image)
    PROVE  /\ r.active = TRUE /\ r.current = roster /\ r.image = image
           /\ DOMAIN r = RestoreFieldNames
<1>1. r.active = TRUE /\ r.current = roster /\ r.image = image
  BY Zenon DEF newActiveRestore
<1>2. DOMAIN r = RestoreFieldNames
  BY DEF newActiveRestore, RestoreFieldNames
<1> QED BY <1>1, <1>2

\* A request to restore keeps the invariant, for a bundle of this execution
\* or of an earlier one (RequestFederationRestore, rebind).
LEMMA RequestRestoreInv ==
    ASSUME IInv, NEW n \in Names, NEW b \in bundles, RequestFederationRestore(n, b)
    PROVE  IInv'
<1> DEFINE cross == b.generation # generation
           image == IF cross THEN rebind(b) ELSE b
           size == Cardinality(DOMAIN b.handles)
<1>1. /\ leases = {} /\ writer = "idle" /\ ~saving /\ ~restoring
      /\ DOMAIN b.handles = Joined
      /\ nextHandle' = IF cross THEN nextHandle + size ELSE nextHandle
      /\ \/ /\ restore' = newActiveRestore(image)
            /\ Notify(Live, "restore")
         \/ Notify(Live, "over") /\ UNCHANGED restore
         \/ UNCHANGED <<restore, told>>
      /\ UNCHANGED <<roster, generation, services, save, writer, requests, completed, barrier, disk>>
  BY Zenon DEF RequestFederationRestore, AcquireCheckpoint
<1>2. WellFormed(b) /\ GivenOut(b) /\ MembersOK
  BY Zenon DEF IInv, BundlesOK
<1>3. nextHandle \in Nat \ {0} /\ generation \in Nat \ {0} /\ size \in Nat
  BY <1>2, FreshHandles DEF MembersOK
<1>4. nextHandle' \in Nat /\ nextHandle' >= nextHandle
  <2> HIDE DEF size, cross
  <2> QED BY <1>1, <1>3, SMTT(30)
<1>5. ASSUME NEW callback \in {"over", "restore"}, Notify(Live, callback)
      PROVE  /\ told' \in [Names -> {"over", "save", "saved", "restore"}]
             /\ \A m \in Joined : told'[m] = callback
             /\ \A m \in Names \ Joined : told'[m] = "over"
             /\ \A m \in Names : told'[m] = "saved" => told[m] = "saved"
  BY <1>1, <1>5, AllTold, Zenon
<1>6. \A m \in Names : told'[m] = "saved" => told[m] = "saved"
  BY <1>1, <1>5, Zenon
<1>7. /\ MembersOK' /\ InStep' /\ SaveOK' /\ ReportsHold' /\ WriterOK' /\ BundlesOK'
      /\ DecisionsOK' /\ BarrierOK' /\ Joined' = Joined /\ Live' = Live /\ ~saving'
  BY <1>1, <1>4, <1>6, RestoreFrame, ZenonT(40)
<1>8. save.initiated = {} /\ save' = save /\ leases' = leases
  BY <1>1, NoSaveFields, Zenon DEF IInv, SaveOK, services
<1>9. CASE /\ restore' = newActiveRestore(image)
           /\ Notify(Live, "restore")
  <2>1. /\ WellFormed(image) /\ image.generation = generation
        /\ DOMAIN image.handles = Joined
        /\ \A m \in DOMAIN image.handles : image.handles[m][2] < nextHandle'
    <3>1. CASE cross
      <4> DEFINE i == rebind(b)
      <4>1. /\ WellFormed(i) /\ i.generation = generation /\ DOMAIN i.handles = DOMAIN b.handles
            /\ \A m \in DOMAIN i.handles : i.handles[m][2] < nextHandle + size
        BY <1>2, RebindOK, Zenon
      <4>2. image = i /\ nextHandle' = nextHandle + size
        BY <1>1, <3>1, Zenon
      <4> HIDE DEF i, image, size
      <4> QED BY <1>1, <4>1, <4>2, ZenonT(40)
    <3>2. CASE ~cross
      <4>1. image = b /\ nextHandle' = nextHandle
        BY <1>1, <3>2
      <4> HIDE DEF image
      <4> QED BY <1>1, <1>2, <3>2, <4>1, Zenon DEF GivenOut
    <3> QED BY <3>1, <3>2, Zenon
  <2> HIDE DEF image
  <2>2. /\ restore'.active = TRUE /\ restore'.current = roster /\ restore'.image = image
        /\ DOMAIN restore' = RestoreFieldNames
    BY <1>9, RestoreFields, Zenon
  <2>3. restoring'
    BY <2>2 DEF restoring
  <2>4. generation' = generation /\ roster' = roster
    BY <1>1, Zenon
  <2>5. WellFormed(restore.image)'
    <3>1. WellFormed(image)
      BY <2>1
    <3>2. restore'.image = image
      BY <2>2, Zenon
    <3> QED BY <3>1, <3>2, SMTT(30) DEF WellFormed, Handles
  <2>6. GivenOut(restore.image)'
    BY <1>3, <2>1, <2>2, <2>4 DEF GivenOut
  <2>7. restoring' \in BOOLEAN
    BY <2>2, ZenonT(40) DEF restoring
  <2>8. RestoreOK'
    BY <1>1, <1>7, <1>8, <2>1, <2>2, <2>3, <2>4, <2>5, <2>6, <2>7, Zenon DEF RestoreOK
  <2>9. NoticesOK'
    <3>1. NobodyLeftWaiting'
      BY <1>5, <1>7, <1>8, <1>9, <2>3 DEF NobodyLeftWaiting
    <3> QED BY <1>5, <1>7, <1>9, <3>1, Zenon DEF NoticesOK
  <2> QED BY <1>7, <2>8, <2>9, Zenon DEF IInv
<1>10. CASE UNCHANGED restore /\ (Notify(Live, "over") \/ UNCHANGED told)
  <2>1. restoring' = restoring
    BY <1>10, Zenon DEF restoring
  <2>2. RestoreOK'
    BY <1>1, <1>10, <2>1, Zenon DEF IInv, RestoreOK
  <2>3. CASE Notify(Live, "over")
    <3>1. NobodyLeftWaiting'
      BY <1>1, <1>5, <1>7, <1>8, <2>1, <2>3, ZenonT(40) DEF NobodyLeftWaiting
    <3> QED BY <1>5, <1>7, <2>2, <2>3, <3>1, Zenon DEF NoticesOK, IInv
  <2>4. CASE UNCHANGED told
    <3>1. NoticesOK'
      BY <1>1, <1>7, <1>8, <2>1, <2>4, Zenon DEF IInv, NoticesOK, NobodyLeftWaiting
    <3> QED BY <1>7, <2>2, <3>1 DEF IInv
  <2> QED BY <1>10, <2>3, <2>4
<1> QED BY <1>1, <1>9, <1>10

\* A restore that ends without success.
LEMMA FailRestoreInv ==
    ASSUME IInv, writer = "idle", ~saving, failRestore,
           UNCHANGED <<roster, nextHandle, generation, services, save, writer, requests, completed,
                       barrier, disk>>
    PROVE  IInv'
<1>1. restore' = NoRestore /\ Notify(Live, "over")
  BY DEF failRestore
<1>2. ~restoring' /\ restoring' \in BOOLEAN /\ DOMAIN restore' = RestoreFieldNames
  BY <1>1, NoRestoreFields, Zenon DEF restoring
<1>3. /\ told' \in [Names -> {"over", "save", "saved", "restore"}]
      /\ \A n \in Joined : told'[n] = "over"
      /\ \A n \in Names \ Joined : told'[n] = "over"
      /\ \A n \in Names : told'[n] = "saved" => told[n] = "saved"
  BY <1>1, AllTold
<1>4. nextHandle' \in Nat /\ nextHandle' >= nextHandle
  BY DEF IInv, MembersOK
<1>5. /\ MembersOK' /\ InStep' /\ SaveOK' /\ ReportsHold' /\ WriterOK' /\ BundlesOK'
      /\ DecisionsOK' /\ BarrierOK' /\ Joined' = Joined /\ Live' = Live /\ ~saving'
  BY <1>3, <1>4, RestoreFrame
<1>6. RestoreOK'
  BY <1>2, Zenon DEF RestoreOK
<1>7. save'.initiated = {}
  BY NoSaveFields, Zenon DEF IInv, SaveOK
<1>8. NobodyLeftWaiting'
  BY <1>2, <1>3, <1>5, <1>7, Zenon DEF NobodyLeftWaiting
<1>9. NoticesOK'
  BY <1>3, <1>5, <1>8 DEF NoticesOK
<1> QED BY <1>5, <1>6, <1>9 DEF IInv

\* Aborting a restore keeps the invariant (AbortRestore).
LEMMA AbortRestoreInv ==
    ASSUME IInv, NEW n \in Names, AbortRestore(n)
    PROVE  IInv'
<1>1. ~saving
  BY DEF AbortRestore, IInv, RestoreOK
<1> QED BY <1>1, FailRestoreInv DEF AbortRestore, AcquireCheckpoint, members

\* The restore that ends well: managers, identities and federates change together.
LEMMA CommitRestoreInv ==
    ASSUME IInv, writer = "idle", ~saving, restoring, commitPreparedRestore,
           UNCHANGED <<nextHandle, generation, leases, save, writer, requests, completed, barrier, disk>>
    PROVE  IInv'
<1> DEFINE i == restore.image
<1>1. /\ app' = [n \in Names |-> IF n \in Joined THEN i.clients[i.handles[n]] ELSE app[n]]
      /\ roster' = [n \in Names |-> IF n \in Joined THEN i.handles[n] ELSE InvalidHandle]
      /\ work' = i.work /\ restore' = NoRestore /\ Notify(Live, "over")
  BY DEF commitPreparedRestore
<1>2. /\ leases = {} /\ WellFormed(i) /\ GivenOut(i) /\ i.generation = generation
      /\ DOMAIN i.handles = Joined
  BY DEF IInv, RestoreOK
<1> HIDE DEF i
<1>3. generation \in Nat \ {0} /\ nextHandle \in Nat \ {0}
  BY Zenon DEF IInv, MembersOK
<1>4. ASSUME NEW n \in Joined
      PROVE  /\ n \in Names /\ i.handles[n] \in {generation} \X (Nat \ {0})
             /\ i.handles[n][2] < nextHandle
             /\ i.handles[n] # InvalidHandle /\ i.handles[n] \in Handles(i)
  BY <1>2, <1>3, SMTT(30) DEF WellFormed, GivenOut, Handles, Joined, InvalidHandle
<1>5. Joined' = Joined
  BY <1>1, <1>4, Zenon DEF Joined
<1>6. \A n \in Joined : roster'[n] = i.handles[n]
  BY <1>1, <1>4, Zenon
<1>7. Live' = Handles(i)
  BY <1>2, <1>5, <1>6, Zenon DEF Live, Handles
<1>8. i.work \in [Handles(i) -> Nat] /\ i.clients = i.work
  BY <1>2, Zenon DEF WellFormed
<1>9. MembersOK'
  <2>1. roster' \in [Names -> Nat \X Nat]
    <3>1. InvalidHandle \in Nat \X Nat
      BY Zenon DEF InvalidHandle
    <3>2. \A n \in Joined : i.handles[n] \in Nat \X Nat
      BY <1>3, <1>4, Zenon
    <3> QED BY <1>1, <3>1, <3>2
  <2>2. ASSUME NEW n \in Joined
        PROVE  roster'[n][1] = generation /\ roster'[n][2] \in 1..(nextHandle - 1)
    BY <1>3, <1>4, <1>6, SMTT(30)
  <2>3. \A m, n \in Joined : roster'[m] = roster'[n] => m = n
    BY <1>2, <1>6, Zenon DEF WellFormed
  <2>4. app' \in [Names -> Nat] /\ \A n \in Names \ Joined : app'[n] = 0
    BY <1>1, <1>4, <1>8, ZenonT(40) DEF IInv, MembersOK
  <2> QED BY <1>1, <1>2, <1>3, <1>5, <1>7, <1>8, <2>1, <2>2, <2>3, <2>4, ZenonT(40) DEF MembersOK
<1>10. InStep'
  BY <1>1, <1>4, <1>5, <1>6, <1>8, ZenonT(40) DEF InStep
<1>11. save = NoSave /\ ~saving'
  BY ZenonT(40) DEF IInv, SaveOK, saving
<1>12. SaveOK'
  BY <1>2, <1>11, NoSaveFields, ZenonT(40) DEF IInv, SaveOK
<1>13. ReportsHold' /\ WriterOK'
  BY <1>11, NoSaveFields DEF ReportsHold, WriterOK
<1>14. bundles' = bundles /\ history' = history
  BY DEF disk
<1>15. BundlesOK'
  <2>1. nextHandle' \in Nat /\ nextHandle' >= nextHandle
    BY <1>3, SMTT(30)
  <2> QED BY <1>14, <2>1, KeepBundles DEF IInv
<1>16. RestoreOK'
  BY <1>1, NoRestoreFields, ZenonT(40) DEF RestoreOK, restoring
<1>17. /\ told' \in [Names -> {"over", "save", "saved", "restore"}]
       /\ \A n \in Joined : told'[n] = "over"
       /\ \A n \in Names \ Joined : told'[n] = "over"
  BY <1>1, AllTold, Zenon
<1>18. DecisionsOK'
  BY <1>5, <1>14, <1>17 DEF IInv, DecisionsOK, SavedIsStored, Stored
<1>19. NoticesOK'
  <2>1. ~restoring'
    BY <1>1, NoRestoreFields DEF restoring
  <2> QED BY <1>5, <1>11, <1>17, <2>1, NoSaveFields, Zenon DEF NoticesOK, NobodyLeftWaiting
<1>20. BarrierOK'
  BY Zenon DEF IInv, BarrierOK
<1> QED BY <1>9, <1>10, <1>12, <1>13, <1>15, <1>16, <1>18, <1>19, <1>20, Zenon DEF IInv

\* A report on a restore keeps the invariant, the one that ends it too
\* (recordFederateRestore).
LEMMA ReportRestoreInv ==
    ASSUME IInv, NEW n \in Names, NEW ok \in BOOLEAN, recordFederateRestore(n, ok)
    PROVE  IInv'
<1>1. /\ leases = {} /\ writer = "idle" /\ ~saving /\ restoring
      /\ UNCHANGED <<nextHandle, generation, leases, save, writer, requests, completed, barrier, disk>>
      /\ \/ /\ \E complete, notComp :
                  restore' = [restore EXCEPT !.complete = complete, !.notComp = notComp]
            /\ UNCHANGED <<roster, work, app, told>>
         \/ failRestore /\ UNCHANGED <<roster, work, app>>
         \/ commitPreparedRestore
  BY Zenon DEF recordFederateRestore, AcquireCheckpoint
<1>2. CASE failRestore /\ UNCHANGED <<roster, work, app>>
  BY <1>1, <1>2, FailRestoreInv DEF services
<1>3. CASE commitPreparedRestore
  BY <1>1, <1>3, CommitRestoreInv
<1>4. CASE /\ \E complete, notComp :
                 restore' = [restore EXCEPT !.complete = complete, !.notComp = notComp]
           /\ UNCHANGED <<roster, work, app, told>>
  <2>1. PICK complete, notComp :
            restore' = [restore EXCEPT !.complete = complete, !.notComp = notComp]
    BY <1>4, Zenon
  <2>2. DOMAIN restore = RestoreFieldNames
    BY DEF IInv, RestoreOK
  <2>3. /\ restore'.active = restore.active /\ restore'.current = restore.current
        /\ restore'.image = restore.image /\ DOMAIN restore' = RestoreFieldNames
    BY <2>1, <2>2 DEF RestoreFieldNames
  <2>4. nextHandle' \in Nat /\ nextHandle' >= nextHandle
    <3>1. nextHandle' = nextHandle
      BY <1>1, ZenonT(40)
    <3> QED BY <3>1, SMTT(30) DEF IInv, MembersOK
  <2>5. /\ MembersOK' /\ InStep' /\ SaveOK' /\ ReportsHold' /\ WriterOK' /\ BundlesOK'
        /\ DecisionsOK' /\ BarrierOK' /\ Joined' = Joined /\ Live' = Live /\ ~saving'
    BY <1>1, <1>4, <2>4, RestoreFrame, Zenon DEF services
  <2>6. restoring' = restoring
    BY <2>3, Zenon DEF restoring
  <2>7. /\ generation' = generation /\ nextHandle' = nextHandle /\ roster' = roster
        /\ leases' = leases /\ save' = save
    BY <1>1, <1>4, ZenonT(40)
  <2>8. WellFormed(restore.image)' /\ GivenOut(restore.image)'
    <3> DEFINE i == restore.image
    <3>1. WellFormed(i) /\ GivenOut(i) /\ restore'.image = i
      BY <1>1, <2>3, ZenonT(40) DEF IInv, RestoreOK
    <3> HIDE DEF i
    <3> QED BY <2>7, <3>1, SMTT(30) DEF WellFormed, GivenOut, Handles
  <2>9. RestoreOK'
    BY <1>1, <2>3, <2>5, <2>6, <2>7, <2>8, Zenon DEF IInv, RestoreOK
  <2>10. NoticesOK'
    BY <1>4, <2>5, <2>6, <2>7, Zenon DEF IInv, NoticesOK, NobodyLeftWaiting
  <2> QED BY <2>5, <2>9, <2>10, Zenon DEF IInv
<1> QED BY <1>1, <1>2, <1>3, <1>4, ZenonT(40)

-----------------------------------------------------------------------------

\* A federate that leaves takes its handle and its state with it.
LEMMA LeaveMembers ==
    ASSUME IInv, NEW n \in Joined, n \notin leases, Leave(n),
           UNCHANGED <<nextHandle, generation, leases>>
    PROVE  /\ MembersOK' /\ InStep' /\ Joined' = Joined \ {n} /\ Live' = Live \ {roster[n]}
           /\ roster' = [roster EXCEPT ![n] = InvalidHandle] /\ app' = [app EXCEPT ![n] = 0]
           /\ \A m \in Joined' : roster'[m] = roster[m] /\ app'[m] = app[m]
<1>1. /\ roster' = [roster EXCEPT ![n] = InvalidHandle]
      /\ work' = [h \in Live \ {roster[n]} |-> work[h]]
      /\ app' = [app EXCEPT ![n] = 0]
  BY Zenon DEF Leave
<1>2. /\ roster \in [Names -> Nat \X Nat] /\ n \in Names /\ app \in [Names -> Nat]
      /\ work \in [Live -> Nat] /\ leases \subseteq Joined
      /\ \A m, k \in Joined : roster[m] = roster[k] => m = k
      /\ \A m \in Joined : m \in Names
  BY DEF IInv, MembersOK, Joined
<1>3. Joined' = Joined \ {n}
  BY <1>1, <1>2 DEF Joined
<1>4. \A m \in Joined' : roster'[m] = roster[m] /\ app'[m] = app[m]
  BY <1>1, <1>2, <1>3, Zenon
<1>5. Live' = Live \ {roster[n]}
  BY <1>2, <1>3, <1>4, SMTT(30) DEF Live
<1>6. MembersOK'
  <2>1. roster' \in [Names -> Nat \X Nat]
    <3>1. InvalidHandle \in Nat \X Nat
      BY Zenon DEF InvalidHandle
    <3> QED BY <1>1, <1>2, <3>1
  <2>2. app' \in [Names -> Nat] /\ \A m \in Names \ Joined' : app'[m] = 0
    BY <1>1, <1>2, <1>3, Zenon DEF IInv, MembersOK
  <2>3. work' \in [Live' -> Nat]
    BY <1>1, <1>2, <1>5
  <2>4. leases' \subseteq Joined'
    BY <1>2, <1>3, Zenon
  <2>5. \A m \in Joined' : roster'[m][1] = generation /\ roster'[m][2] \in 1..(nextHandle - 1)
    BY <1>3, <1>4, Zenon DEF IInv, MembersOK
  <2>6. \A m, k \in Joined' : roster'[m] = roster'[k] => m = k
    BY <1>2, <1>3, <1>4, SMTT(30)
  <2> QED BY <2>1, <2>2, <2>3, <2>4, <2>5, <2>6, Zenon DEF IInv, MembersOK
<1>7. InStep'
  <2> SUFFICES ASSUME NEW m \in Joined' PROVE app'[m] = work'[roster'[m]]
    BY Zenon DEF InStep
  <2>1. roster[m] \in Live /\ roster[m] # roster[n]
    BY <1>2, <1>3 DEF Live
  <2> QED BY <1>1, <1>3, <1>4, <2>1, ZenonT(40) DEF IInv, InStep
<1> QED BY <1>1, <1>3, <1>4, <1>5, <1>6, <1>7, Zenon

\* A federate that resigns keeps the invariant (ResignFederation).
LEMMA ResignInv ==
    ASSUME IInv, NEW n \in Names, ResignFederation(n)
    PROVE  IInv'
<1>1. /\ n \in Joined /\ n \notin leases /\ writer = "idle" /\ ~restoring
      /\ roster[n] \notin save.initiated /\ Leave(n) /\ told' = [told EXCEPT ![n] = "over"]
      /\ UNCHANGED <<nextHandle, generation, leases, save, restore, writer, requests, completed,
                     barrier, disk>>
  BY Zenon DEF ResignFederation, Callers, acquireFederateService
<1>2. /\ MembersOK' /\ InStep' /\ Joined' = Joined \ {n} /\ Live' = Live \ {roster[n]}
      /\ roster' = [roster EXCEPT ![n] = InvalidHandle] /\ app' = [app EXCEPT ![n] = 0]
      /\ \A m \in Joined' : roster'[m] = roster[m] /\ app'[m] = app[m]
  BY <1>1, LeaveMembers, Zenon
<1>3. /\ saving' = saving /\ restoring' = restoring /\ bundles' = bundles /\ history' = history
      /\ \A m \in leases : m \in Joined'
  BY <1>1, <1>2, Zenon DEF saving, restoring, disk, IInv, MembersOK
<1>4. saving => save.waiting
  <2>1. roster[n] \in Live
    BY <1>1, Zenon DEF Live
  <2> QED BY <1>1, <2>1, Zenon DEF IInv, SaveOK
<1>5. SaveOK'
  BY <1>1, <1>2, <1>3, <1>4, Zenon DEF IInv, SaveOK
<1>6. ReportsHold' /\ WriterOK'
  BY <1>1, <1>2, ZenonT(40) DEF IInv, ReportsHold, WriterOK
<1>7. BundlesOK'
  <2>1. nextHandle' \in Nat /\ nextHandle' >= nextHandle
    BY <1>1, SMTT(30) DEF IInv, MembersOK
  <2> QED BY <1>1, <1>3, <2>1, KeepBundles, Zenon DEF IInv
<1>8. RestoreOK'
  BY <1>1, <1>3 DEF IInv, RestoreOK
<1>9. DecisionsOK'
  BY <1>1, <1>2, <1>3, Zenon DEF IInv, DecisionsOK, SavedIsStored, Stored, NoticesOK, Joined
<1>10. NoticesOK'
  <2>1. told' \in [Names -> {"over", "save", "saved", "restore"}]
    BY <1>1, Zenon DEF IInv, NoticesOK
  <2>2. \A m \in Names \ Joined' : told'[m] = "over"
    BY <1>1, <1>2, Zenon DEF IInv, NoticesOK
  <2>3. \A m \in Joined' : told'[m] = told[m]
    BY <1>1, <1>2, Zenon DEF IInv, NoticesOK, Joined
  <2>4. NobodyLeftWaiting'
    BY <1>1, <1>2, <1>3, <2>3, ZenonT(40) DEF IInv, NoticesOK, NobodyLeftWaiting
  <2> QED BY <2>1, <2>2, <2>4 DEF NoticesOK
<1>11. BarrierOK'
  BY <1>1 DEF IInv, BarrierOK
<1> QED BY <1>2, <1>5, <1>6, <1>7, <1>8, <1>9, <1>10, <1>11, Zenon DEF IInv

\* The loss of a federate keeps the invariant, in a save too (FederateLost).
LEMMA LostInv ==
    ASSUME IInv, NEW n \in Names, FederateLost(n)
    PROVE  IInv'
<1>1. /\ n \in Joined /\ leases = {} /\ writer = "idle" /\ ~restoring /\ Leave(n)
      /\ UNCHANGED <<nextHandle, generation, leases, restore, writer, requests, disk>>
  BY DEF FederateLost, AcquireCheckpoint
<1>2. /\ MembersOK' /\ InStep' /\ Joined' = Joined \ {n} /\ Live' = Live \ {roster[n]}
      /\ \A m \in Joined' : roster'[m] = roster[m] /\ app'[m] = app[m]
  BY <1>1, LeaveMembers
<1>3. restoring' = restoring /\ bundles' = bundles /\ history' = history /\ leases' = {}
  BY <1>1, Zenon DEF restoring, disk
<1>4. roster[n] \in Live /\ \A m \in Joined : m \in Names /\ roster[m] \in Live
  BY <1>1, LiveType DEF IInv
<1>5. BundlesOK'
  <2>1. nextHandle' \in Nat /\ nextHandle' >= nextHandle
    BY <1>1 DEF IInv, MembersOK
  <2> QED BY <1>1, <1>3, <2>1, KeepBundles DEF IInv
<1>6. RestoreOK'
  BY <1>1, <1>3, Zenon DEF IInv, RestoreOK
<1>7. ASSUME \A l \in Labels : completed'[l] = "saved" => completed[l] = "saved",
             \A m \in Joined' : told'[m] = "saved" => told[m] = "saved",
             completed' \in [Labels -> {"idle", "initiated", "saved", "notSaved"}]
      PROVE  DecisionsOK'
  <2>1. SavedIsStored'
    BY <1>1, <1>2, <1>3, <1>7, Zenon DEF IInv, DecisionsOK, SavedIsStored, Stored
  <2> QED BY <1>1, <1>3, <1>7, <2>1 DEF IInv, DecisionsOK
<1>8. CASE roster[n] \in save.federates
  <2>1. /\ save' = NoSave /\ barrier' = NoBarrier
        /\ completed' = [completed EXCEPT ![save.label] = "notSaved"]
        /\ told' = [m \in Names |-> IF m = n THEN "over"
                                    ELSE IF roster[m] \in save.initiated \cap Live
                                         THEN "over" ELSE told[m]]
    BY <1>8, Zenon DEF FederateLost, finalizeSave
  <2>2. saving /\ save.label \in Labels /\ ~saving'
    BY <1>8, <2>1, NoSaveFields, Zenon DEF IInv, SaveOK, saving
  <2>3. SaveOK' /\ ReportsHold' /\ WriterOK'
    BY <1>1, <1>3, <2>1, <2>2, NoSaveFields, Zenon DEF IInv, SaveOK, ReportsHold, WriterOK
  <2>4. DecisionsOK'
    <3>1. /\ completed' \in [Labels -> {"idle", "initiated", "saved", "notSaved"}]
          /\ \A l \in Labels : completed'[l] = "saved" => completed[l] = "saved"
      BY <2>1, <2>2, Zenon DEF IInv, DecisionsOK
    <3>2. \A m \in Joined' : told'[m] = "saved" => told[m] = "saved"
      BY <1>2, <1>4, <2>1, Zenon
    <3> QED BY <1>7, <3>1, <3>2, Zenon
  <2>5. NoticesOK'
    <3>1. told' \in [Names -> {"over", "save", "saved", "restore"}]
      BY <2>1, Zenon DEF IInv, NoticesOK
    <3>2. \A m \in Names \ Joined' : told'[m] = "over"
      BY <1>2, <2>1 DEF IInv, NoticesOK
    <3>3. ASSUME NEW m \in Joined' PROVE told'[m] # "save" /\ told'[m] # "restore"
      <4>1. m \in Joined /\ m \in Names /\ roster[m] \in Live
        BY <1>2, <1>4, Zenon
      <4>2. (told[m] = "save" => roster[m] \in save.initiated) /\ told[m] # "restore"
        BY <1>1, <4>1, Zenon DEF IInv, NoticesOK, NobodyLeftWaiting
      <4> QED BY <2>1, <4>1, <4>2, Zenon
    <3>4. NobodyLeftWaiting'
      BY <1>1, <1>3, <2>1, <3>3, NoSaveFields, Zenon DEF NobodyLeftWaiting
    <3> QED BY <3>1, <3>2, <3>4 DEF NoticesOK
  <2>6. BarrierOK'
    BY <2>1, NoBarrierFields, ZenonT(40) DEF BarrierOK
  <2> QED BY <1>2, <1>5, <1>6, <2>3, <2>4, <2>5, <2>6, Zenon DEF IInv
<1>9. CASE roster[n] \notin save.federates
  <2>1. told' = [told EXCEPT ![n] = "over"] /\ UNCHANGED <<save, barrier, completed>>
    BY <1>9, Zenon DEF FederateLost
  <2>2. (saving => save.waiting) /\ saving' = saving
    BY <1>4, <1>9, <2>1, ZenonT(40) DEF IInv, SaveOK, saving
  <2>3. SaveOK' /\ ReportsHold' /\ WriterOK'
    BY <1>1, <1>2, <1>3, <2>1, <2>2 DEF IInv, SaveOK, ReportsHold, WriterOK
  <2>4. told' \in [Names -> {"over", "save", "saved", "restore"}]
    BY <2>1, Zenon DEF IInv, NoticesOK
  <2>5. \A m \in Joined' : told'[m] = told[m]
    BY <1>2, <1>4, <2>1, Zenon DEF IInv, NoticesOK
  <2>6. DecisionsOK'
    BY <1>7, <2>1, <2>5, Zenon DEF IInv, DecisionsOK
  <2>7. NoticesOK'
    <3>1. \A m \in Names \ Joined' : told'[m] = "over"
      BY <1>2, <2>1, Zenon DEF IInv, NoticesOK
    <3>2. NobodyLeftWaiting'
      BY <1>1, <1>2, <1>3, <2>1, <2>5, Zenon DEF IInv, NoticesOK, NobodyLeftWaiting
    <3> QED BY <2>4, <3>1, <3>2 DEF NoticesOK
  <2>8. BarrierOK'
    BY <2>1 DEF IInv, BarrierOK
  <2> QED BY <1>2, <1>5, <1>6, <2>3, <2>6, <2>7, <2>8 DEF IInv
<1> QED BY <1>8, <1>9, Zenon

\* A new federate gets a handle nobody has had in this execution.
LEMMA JoinMembers ==
    ASSUME IInv, NEW n \in Names, n \notin Joined, nextHandle' = nextHandle + 1,
           roster' = [roster EXCEPT ![n] = Handle(nextHandle)],
           work' = [h \in Live \cup {Handle(nextHandle)} |-> IF h \in Live THEN work[h] ELSE 0],
           UNCHANGED <<generation, app, leases>>
    PROVE  /\ MembersOK' /\ InStep' /\ Joined' = Joined \cup {n}
           /\ \A m \in Joined : m # n /\ roster'[m] = roster[m]
<1>1. /\ roster \in [Names -> Nat \X Nat] /\ generation \in Nat \ {0} /\ nextHandle \in Nat \ {0}
      /\ \A m \in Joined : roster[m][1] = generation /\ roster[m][2] \in 1..(nextHandle - 1)
      /\ \A m, k \in Joined : roster[m] = roster[k] => m = k
      /\ app \in [Names -> Nat] /\ work \in [Live -> Nat] /\ leases \subseteq Joined
      /\ \A m \in Names \ Joined : app[m] = 0
  BY DEF IInv, MembersOK
<1> DEFINE fresh == Handle(nextHandle)
<1>2. fresh = <<generation, nextHandle>> /\ fresh # InvalidHandle /\ fresh \in Nat \X Nat
  BY <1>1 DEF Handle, InvalidHandle
<1> HIDE DEF fresh
<1>3. roster' = [roster EXCEPT ![n] = fresh]
      /\ work' = [h \in Live \cup {fresh} |-> IF h \in Live THEN work[h] ELSE 0]
  BY Zenon DEF fresh
<1>4. Joined' = Joined \cup {n}
  BY <1>1, <1>2, <1>3, SMTT(30) DEF Joined
<1>5. \A m \in Joined : m # n /\ m \in Names /\ roster'[m] = roster[m]
  BY <1>1, <1>3, SMTT(30) DEF Joined
<1>6. ASSUME NEW m \in Joined PROVE roster[m] # fresh
  <2>1. roster[m][2] # nextHandle
    BY <1>1
  <2> QED BY <1>2, <2>1, SMTT(30)
<1>7. fresh \notin Live
  BY <1>6, Zenon DEF Live
<1>8. roster'[n] = fresh
  BY <1>1, <1>3, Zenon
<1>9. Live' = Live \cup {fresh}
  BY <1>4, <1>5, <1>8, Zenon DEF Live
<1>10. ASSUME NEW m \in Joined'
       PROVE  roster'[m][1] = generation /\ roster'[m][2] \in 1..(nextHandle' - 1)
  <2>1. CASE m = n
    BY <1>1, <1>2, <1>8, <2>1, SMTT(30)
  <2>2. CASE m \in Joined
    BY <1>1, <1>5, <2>2, SMTT(30)
  <2> QED BY <1>4, <2>1, <2>2, Zenon
<1>11. \A m, k \in Joined' : roster'[m] = roster'[k] => m = k
  BY <1>1, <1>4, <1>5, <1>6, <1>8
<1>12. MembersOK'
  <2>1. roster' \in [Names -> Nat \X Nat]
    BY <1>1, <1>2, <1>3, ZenonT(40)
  <2>2. work' \in [Live' -> Nat]
    BY <1>1, <1>3, <1>9, SMTT(30)
  <2>3. nextHandle' \in Nat \ {0}
    BY <1>1, SMTT(30)
  <2> QED BY <1>1, <1>4, <1>10, <1>11, <2>1, <2>2, <2>3, Zenon DEF MembersOK
<1>13. InStep'
  <2> SUFFICES ASSUME NEW m \in Joined' PROVE app[m] = work'[roster'[m]]
    BY Zenon DEF InStep
  <2>1. CASE m = n
    BY <1>1, <1>3, <1>7, <1>8, <2>1, Zenon
  <2>2. CASE m \in Joined
    <3>1. roster[m] \in Live /\ app[m] = work[roster[m]]
      BY <2>2 DEF Live, IInv, InStep
    <3> QED BY <1>3, <1>5, <2>2, <3>1, Zenon
  <2> QED BY <1>4, <2>1, <2>2, Zenon
<1> QED BY <1>4, <1>5, <1>12, <1>13, Zenon

\* A federate that joins, or is refused by the journal, keeps the invariant
\* (JoinFederation).
LEMMA JoinInv ==
    ASSUME IInv, NEW n \in Names, JoinFederation(n)
    PROVE  IInv'
<1>1. /\ writer = "idle" /\ ~restoring /\ (saving => save.waiting /\ save.initiated = {})
      /\ n \notin Joined /\ nextHandle' = nextHandle + 1
      /\ \/ /\ roster' = [roster EXCEPT ![n] = Handle(nextHandle)]
            /\ work' = [h \in Live \cup {Handle(nextHandle)} |-> IF h \in Live THEN work[h] ELSE 0]
         \/ UNCHANGED <<roster, work>>
      /\ UNCHANGED <<generation, app, leases, save, restore, writer, requests, completed,
                     barrier, told, disk>>
  BY Zenon DEF JoinFederation, acquireService
<1>2. save.initiated = {} /\ save.complete = {}
  BY <1>1, NoSaveFields, Zenon DEF IInv, SaveOK
<1>3. /\ MembersOK' /\ InStep' /\ Joined' \in {Joined, Joined \cup {n}}
      /\ \A m \in Joined : roster'[m] = roster[m]
  <2>1. CASE UNCHANGED <<roster, work>>
    <3>1. Joined' = Joined
      BY <2>1 DEF Joined
    <3>2. Live' = Live
      BY <2>1, <3>1 DEF Live
    <3>3. nextHandle \in Nat \ {0}
      BY Zenon DEF IInv, MembersOK
    <3>4. \A m \in Joined : roster[m][2] \in 1..(nextHandle' - 1)
      BY <1>1, <3>3, SMTT(30) DEF IInv, MembersOK
    <3>5. nextHandle' \in Nat \ {0}
      BY <1>1, <3>3, SMTT(30)
    <3>6. MembersOK'
      BY <1>1, <2>1, <3>1, <3>2, <3>4, <3>5, Zenon DEF IInv, MembersOK
    <3>7. InStep'
      BY <1>1, <2>1, <3>1 DEF IInv, InStep
    <3> QED BY <1>1, <2>1, <3>1, <3>6, <3>7
  <2>2. CASE /\ roster' = [roster EXCEPT ![n] = Handle(nextHandle)]
             /\ work' = [h \in Live \cup {Handle(nextHandle)} |-> IF h \in Live THEN work[h] ELSE 0]
    BY <1>1, <2>2, JoinMembers, Zenon
  <2> QED BY <1>1, <2>1, <2>2, Zenon
<1>4. /\ saving' = saving /\ restoring' = restoring /\ bundles' = bundles /\ history' = history
      /\ leases \subseteq Joined
  BY <1>1, Zenon DEF saving, restoring, disk, IInv, MembersOK
<1>5. SaveOK'
  BY <1>1, <1>2, <1>3, <1>4, Zenon DEF IInv, SaveOK
<1>6. ReportsHold' /\ WriterOK'
  BY <1>1, <1>2 DEF ReportsHold, WriterOK
<1>7. BundlesOK'
  <2>1. nextHandle' \in Nat /\ nextHandle' >= nextHandle
    BY <1>1, SMTT(30) DEF IInv, MembersOK
  <2> QED BY <1>1, <1>4, <2>1, KeepBundles, ZenonT(40) DEF IInv
<1>8. RestoreOK'
  BY <1>1, <1>4, Zenon DEF IInv, RestoreOK
<1>9. told[n] = "over"
  BY <1>1 DEF IInv, NoticesOK
<1>10. DecisionsOK'
  BY <1>1, <1>3, <1>4, <1>9, Zenon DEF IInv, DecisionsOK, SavedIsStored, Stored
<1>11. NoticesOK'
  <2>1. ASSUME NEW m \in Joined' PROVE told[m] # "save" /\ told[m] # "restore"
    BY <1>1, <1>2, <1>3, <1>9, Zenon DEF IInv, NoticesOK, NobodyLeftWaiting
  <2>2. NobodyLeftWaiting'
    BY <1>1, <1>2, <1>4, <2>1, Zenon DEF NobodyLeftWaiting
  <2> QED BY <1>1, <1>3, <2>2, Zenon DEF IInv, NoticesOK
<1>12. BarrierOK'
  BY <1>1 DEF IInv, BarrierOK
<1> QED BY <1>3, <1>5, <1>6, <1>7, <1>8, <1>10, <1>11, <1>12, Zenon DEF IInv

\* What a service call, before and after it is applied, and a disconnection
\* leave as it is.
LEMMA ServiceFrame ==
    ASSUME IInv, UNCHANGED <<roster, nextHandle, generation, save, restore, writer, requests,
                             completed, barrier, told, disk>>
    PROVE  /\ BundlesOK' /\ DecisionsOK' /\ NoticesOK' /\ BarrierOK'
           /\ Joined' = Joined /\ Live' = Live /\ saving' = saving /\ restoring' = restoring
<1>1. /\ saving' = saving /\ restoring' = restoring /\ bundles' = bundles /\ history' = history
      /\ Joined' = Joined
  BY DEF saving, restoring, disk, Joined
<1>2. Live' = Live
  BY <1>1, Zenon DEF Live
<1>3. BundlesOK'
  <2>1. nextHandle' \in Nat /\ nextHandle' >= nextHandle
    BY DEF IInv, MembersOK
  <2> QED BY <1>1, <2>1, KeepBundles, Zenon DEF IInv
<1>4. DecisionsOK'
  BY <1>1, Zenon DEF IInv, DecisionsOK, SavedIsStored, Stored
<1>5. NoticesOK' /\ BarrierOK'
  BY <1>1 DEF IInv, NoticesOK, NobodyLeftWaiting, BarrierOK
<1> QED BY <1>1, <1>2, <1>3, <1>4, <1>5, Zenon

\* A service call that is admitted keeps the invariant (acquireFederateService).
LEMMA BeginServiceInv ==
    ASSUME IInv, NEW n \in Names, BeginService(n)
    PROVE  IInv'
<1>1. /\ n \in Joined /\ writer = "idle" /\ ~restoring /\ roster[n] \notin save.initiated
      /\ leases' = leases \cup {n}
      /\ UNCHANGED <<members, work, app, save, restore, writer, requests, completed, barrier,
                     told, disk>>
  BY DEF BeginService, Callers, acquireFederateService
<1>2. roster' = roster /\ nextHandle' = nextHandle /\ generation' = generation
  BY <1>1 DEF members
<1>3. /\ BundlesOK' /\ DecisionsOK' /\ NoticesOK' /\ BarrierOK'
      /\ Joined' = Joined /\ Live' = Live /\ saving' = saving /\ restoring' = restoring
  BY <1>1, <1>2, ServiceFrame, Zenon
<1>4. MembersOK' /\ InStep'
  BY <1>1, <1>2, <1>3, Zenon DEF IInv, MembersOK, InStep
<1>5. SaveOK'
  BY <1>1, <1>2, <1>3, ZenonT(40) DEF IInv, SaveOK
<1>6. ReportsHold' /\ WriterOK' /\ RestoreOK'
  BY <1>1, <1>2, <1>3, Zenon DEF IInv, ReportsHold, WriterOK, RestoreOK
<1> QED BY <1>3, <1>4, <1>5, <1>6, Zenon DEF IInv

\* The effect of a service call keeps the invariant.
LEMMA EndServiceInv ==
    ASSUME IInv, NEW n \in Names, EndService(n)
    PROVE  IInv'
<1>1. /\ n \in leases /\ leases' = leases \ {n}
      /\ work' = [work EXCEPT ![roster[n]] = @ + 1]
      /\ app' = [app EXCEPT ![n] = @ + 1]
      /\ UNCHANGED <<members, save, restore, writer, requests, completed, barrier, told, disk>>
  BY ZenonT(40) DEF EndService
<1>2. roster' = roster /\ nextHandle' = nextHandle /\ generation' = generation
  BY <1>1, Zenon DEF members
<1>3. /\ BundlesOK' /\ DecisionsOK' /\ NoticesOK' /\ BarrierOK'
      /\ Joined' = Joined /\ Live' = Live /\ saving' = saving /\ restoring' = restoring
  BY <1>1, <1>2, ServiceFrame, Zenon
<1>4. /\ n \in Joined /\ roster[n] \in Live /\ writer = "idle" /\ ~restoring
      /\ roster[n] \notin save.initiated
  <2>1. n \in Joined
    BY <1>1 DEF IInv, MembersOK
  <2>2. roster[n] \in Live
    BY <2>1, ZenonT(40) DEF Live
  <2>3. writer = "idle" /\ ~restoring /\ roster[n] \notin save.initiated
    BY <1>1 DEF IInv, WriterOK, RestoreOK, SaveOK
  <2> QED BY <2>1, <2>2, <2>3, Zenon
<1>5. /\ work \in [Live -> Nat] /\ app \in [Names -> Nat]
      /\ \A m, k \in Joined : roster[m] = roster[k] => m = k
      /\ \A m \in Joined : m \in Names /\ roster[m] \in Live
  BY LiveType, Zenon DEF IInv, MembersOK
<1>6. MembersOK'
  <2>1. work' \in [Live -> Nat] /\ app' \in [Names -> Nat]
    BY <1>1, <1>4, <1>5, SMTT(30)
  <2>2. \A m \in Names \ Joined : app'[m] = 0
    BY <1>1, <1>4, <1>5, Zenon DEF IInv, MembersOK
  <2> QED BY <1>1, <1>2, <1>3, <2>1, <2>2, Zenon DEF IInv, MembersOK
<1>7. InStep'
  <2> SUFFICES ASSUME NEW m \in Joined PROVE app'[m] = work'[roster[m]]
    BY <1>2, <1>3 DEF InStep
  <2>1. app[m] = work[roster[m]]
    BY Zenon DEF IInv, InStep
  <2>2. CASE m = n
    BY <1>1, <1>4, <1>5, <2>1, <2>2, Zenon
  <2>3. CASE m # n
    BY <1>1, <1>4, <1>5, <2>1, <2>3, ZenonT(40)
  <2> QED BY <2>2, <2>3, Zenon
<1>8. SaveOK'
  BY <1>1, <1>2, <1>3 DEF IInv, SaveOK
<1>9. ReportsHold'
  <2> SUFFICES ASSUME NEW m \in Joined, roster[m] \in save.complete
               PROVE  save.clients[roster[m]] = app'[m]
    BY <1>1, <1>2, <1>3, Zenon DEF ReportsHold
  <2>1. m # n
    BY <1>4, ZenonT(40) DEF IInv, SaveOK
  <2> QED BY <1>1, <1>5, <2>1, Zenon DEF IInv, ReportsHold
<1>10. WriterOK' /\ RestoreOK'
  BY <1>1, <1>2, <1>3, <1>4, Zenon DEF IInv, WriterOK, RestoreOK
<1> QED BY <1>3, <1>6, <1>7, <1>8, <1>9, <1>10, Zenon DEF IInv

\* A disconnection keeps the invariant.
LEMMA DisconnectInv ==
    ASSUME IInv, NEW n \in Names, Disconnect(n)
    PROVE  IInv'
<1>1. UNCHANGED <<roster, nextHandle, generation, services, save, restore, writer, requests,
                  completed, barrier, told, disk>>
  BY DEF Disconnect
<1>2. leases' = leases /\ work' = work /\ app' = app
  BY <1>1 DEF services
<1>3. /\ BundlesOK' /\ DecisionsOK' /\ NoticesOK' /\ BarrierOK'
      /\ Joined' = Joined /\ Live' = Live /\ saving' = saving /\ restoring' = restoring
  BY <1>1, ServiceFrame, Zenon
<1>4. MembersOK' /\ InStep' /\ SaveOK' /\ ReportsHold' /\ WriterOK'
  BY <1>1, <1>2, <1>3, Zenon DEF IInv, MembersOK, InStep, SaveOK, ReportsHold, WriterOK
<1>5. RestoreOK'
  <2>1. ASSUME restoring PROVE WellFormed(restore.image)' /\ GivenOut(restore.image)'
    <3>1. WellFormed(restore.image) /\ GivenOut(restore.image)
      BY <2>1, ZenonT(40) DEF IInv, RestoreOK
    <3>2. WellFormed(restore.image)'
      BY <1>1, <3>1, SMTT(30) DEF WellFormed, Handles
    <3>3. GivenOut(restore.image)'
      BY <1>1, <3>1 DEF GivenOut
    <3> QED BY <3>2, <3>3
  <2> QED BY <1>1, <1>2, <1>3, <2>1 DEF IInv, RestoreOK
<1> QED BY <1>3, <1>4, <1>5, Zenon DEF IInv

\* A new execution of the federation starts with no federate, no save and no
\* restore, and with what is on disk.
LEMMA ForgetInv ==
    ASSUME IInv, Forget, Joined' = {}, roster' \in [Names -> Nat \X Nat], work' \in [{} -> Nat],
           app' = [n \in Names |-> 0], leases' = {}, told' = [n \in Names |-> "over"],
           writer' = "idle", UNCHANGED <<requests, disk>>
    PROVE  IInv'
<1>1. /\ generation' = generation + 1 /\ nextHandle' = 1 /\ generation \in Nat \ {0}
      /\ save' = NoSave /\ restore' = NoRestore /\ barrier' = NoBarrier
      /\ completed' = [l \in Labels |-> "idle"]
      /\ bundles' = bundles /\ history' = history
  BY ZenonT(40) DEF Forget, disk, IInv, MembersOK
<1>2. Live' = {} /\ ~saving' /\ ~restoring' /\ restoring' = FALSE
  BY <1>1, NoSaveFields, NoRestoreFields, Zenon DEF Live, saving, restoring
<1>3. MembersOK'
  <2>1. generation' \in Nat \ {0} /\ nextHandle' \in Nat \ {0}
    BY <1>1, SMTT(30)
  <2> QED BY <1>2, <2>1 DEF MembersOK
<1>4. SaveOK'
  BY <1>1, <1>2, NoSaveFields, Zenon DEF IInv, SaveOK
<1>5. ReportsHold' /\ InStep' /\ WriterOK'
  BY Zenon DEF ReportsHold, InStep, WriterOK
<1>6. BundlesOK'
  <2> SUFFICES ASSUME NEW b \in bundles PROVE WellFormed(b)' /\ GivenOut(b)'
    BY <1>1 DEF BundlesOK
  <2>1. WellFormed(b) /\ GivenOut(b)
    BY DEF IInv, BundlesOK
  <2>2. WellFormed(b)'
    BY <2>1, Zenon DEF WellFormed, Handles
  <2>3. b.generation \in 1..generation' /\ b.generation # generation'
    BY <1>1, <2>1 DEF GivenOut
  <2> QED BY <2>2, <2>3, Zenon DEF GivenOut
<1>7. RestoreOK'
  BY <1>1, <1>2, NoRestoreFields, Zenon DEF RestoreOK
<1>8. DecisionsOK'
  <2>1. \A d \in history : Stored(d[1], d[2])' = Stored(d[1], d[2])
    BY <1>1, Zenon DEF Stored
  <2>2. SavedIsStored'
    BY <1>1, <2>1, Zenon DEF IInv, DecisionsOK, SavedIsStored
  <2> QED BY <1>1, <2>2 DEF IInv, DecisionsOK
<1>9. NoticesOK'
  BY DEF NoticesOK, NobodyLeftWaiting
<1>10. BarrierOK'
  BY <1>1, NoBarrierFields, Zenon DEF BarrierOK
<1> QED BY <1>3, <1>4, <1>5, <1>6, <1>7, <1>8, <1>9, <1>10, Zenon DEF IInv

\* The federation is destroyed, when nobody is in it, and created again.
LEMMA DestroyedInv == IInv /\ OnFederationDestroyed => IInv'
<1> SUFFICES ASSUME IInv, OnFederationDestroyed PROVE IInv'
  OBVIOUS
<1>1. /\ writer = "idle" /\ Joined = {} /\ Forget
      /\ UNCHANGED <<roster, services, writer, requests, told, disk>>
  BY DEF OnFederationDestroyed, acquireService
<1>2. work' = work /\ app' = app /\ leases' = leases /\ roster' = roster /\ told' = told
  BY <1>1 DEF services
<1>3. Joined' = {} /\ Live = {}
  BY <1>1, <1>2, Zenon DEF Joined, Live
<1>4. leases' = {} /\ work' \in [{} -> Nat] /\ roster' \in [Names -> Nat \X Nat]
  BY <1>1, <1>2, <1>3 DEF IInv, MembersOK
<1>5. app' = [n \in Names |-> 0] /\ told' = [n \in Names |-> "over"]
  <2>1. app \in [Names -> Nat] /\ \A n \in Names : app[n] = 0
    BY <1>1 DEF IInv, MembersOK
  <2>2. told \in [Names -> {"over", "save", "saved", "restore"}] /\ \A n \in Names : told[n] = "over"
    BY <1>1 DEF IInv, NoticesOK
  <2> QED BY <1>2, <2>1, <2>2, Zenon
<1> QED BY <1>1, <1>3, <1>4, <1>5, ForgetInv, Zenon

\* The server dies, wherever it is in ending a save, and is started again.
LEMMA CrashInv == IInv /\ Crash => IInv'
<1> SUFFICES ASSUME IInv, Crash PROVE IInv'
  OBVIOUS
<1>1. /\ Forget /\ roster' = [n \in Names |-> InvalidHandle] /\ leases' = {} /\ work' = << >>
      /\ app' = [n \in Names |-> 0] /\ told' = [n \in Names |-> "over"] /\ writer' = "idle"
      /\ UNCHANGED <<requests, disk>>
  BY DEF Crash
<1>2. Joined' = {} /\ roster' \in [Names -> Nat \X Nat]
  BY <1>1 DEF Joined, InvalidHandle
<1>3. work' \in [{} -> Nat]
  BY <1>1, SMTT(30)
<1> QED BY <1>1, <1>2, <1>3, ForgetInv, Zenon

\* A step that changes nothing.
LEMMA StutterInv == IInv /\ UNCHANGED vars => IInv'
<1> SUFFICES ASSUME IInv, UNCHANGED vars PROVE IInv'
  OBVIOUS
<1>1. UNCHANGED <<roster, nextHandle, generation, work, app, leases, save, restore, writer,
                  requests, completed, barrier, told, disk>>
  BY DEF vars, members, services
<1>2. /\ BundlesOK' /\ DecisionsOK' /\ NoticesOK' /\ BarrierOK'
      /\ Joined' = Joined /\ Live' = Live /\ saving' = saving /\ restoring' = restoring
  BY <1>1, ServiceFrame, ZenonT(40)
<1>3. MembersOK' /\ InStep' /\ SaveOK' /\ ReportsHold' /\ WriterOK'
  BY <1>1, <1>2, ZenonT(40) DEF IInv, MembersOK, InStep, SaveOK, ReportsHold, WriterOK
<1>4. RestoreOK'
  <2>1. ASSUME restoring PROVE WellFormed(restore.image)' /\ GivenOut(restore.image)'
    <3>1. WellFormed(restore.image) /\ GivenOut(restore.image)
      BY <2>1, Zenon DEF IInv, RestoreOK
    <3>2. restore.image' = restore.image
      BY <1>1
    <3>3. WellFormed(restore.image)'
      BY <3>1, <3>2, SMTT(30) DEF WellFormed, Handles
    <3>4. GivenOut(restore.image)'
      BY <1>1, <3>1, <3>2, Zenon DEF GivenOut, Handles
    <3> QED BY <3>3, <3>4
  <2> QED BY <1>1, <1>2, <2>1, ZenonT(40) DEF IInv, RestoreOK
<1> QED BY <1>2, <1>3, <1>4 DEF IInv

\* Every step keeps the invariant.
LEMMA NextInv == IInv /\ [Next]_vars => IInv'
<1> SUFFICES ASSUME IInv, Step PROVE IInv'
  BY StutterInv DEF Next, Kept
<1>1. ASSUME NEW n \in Names,
             Request(n) \/ FederateSaveBegun(n) \/ ReportSave(n) \/ AbortSave(n)
      PROVE  IInv'
  BY <1>1, RequestSaveInv, SaveBegunInv, ReportSaveInv, AbortSaveInv DEF Request, ReportSave
<1>2. ASSUME NEW n \in Names,
             RequestFederationRestoreBy(n) \/ RequestFederationRestoreFrom(n)
      PROVE  IInv'
  BY <1>2, RequestRestoreInv DEF RequestFederationRestoreBy, RequestFederationRestoreFrom, Stored
<1>3. ASSUME NEW n \in Names, ReportRestore(n) \/ AbortRestore(n)
      PROVE  IInv'
  BY <1>3, ReportRestoreInv, AbortRestoreInv DEF ReportRestore
<1>4. ASSUME NEW n \in Names,
             \/ JoinFederation(n) \/ ResignFederation(n) \/ BeginService(n) \/ EndService(n)
             \/ Disconnect(n) \/ FederateLost(n)
      PROVE  IInv'
  BY <1>4, JoinInv, ResignInv, BeginServiceInv, EndServiceInv, DisconnectInv, LostInv, Zenon
<1>5. ASSUME writeBundle \/ commitSaveHistory \/ publishSaveDecision PROVE IInv'
  BY <1>5, WriteBundleInv, CommitHistoryInv, PublishInv, Zenon
<1>6. ASSUME ProgressScheduledSave \/ OnFederationDestroyed \/ Crash PROVE IInv'
  BY <1>6, ProgressInv, DestroyedInv, CrashInv
<1> QED BY <1>1, <1>2, <1>3, <1>4, <1>5, <1>6 DEF Step

----------------------------------------------------------------------------
(* The theorems.                                                           *)

\* The invariant holds in every reachable state.
LEMMA InvHolds == Spec => []IInv
  BY InitInv, NextInv, PTL DEF Spec

\* Every bundle is one cut of the federation (acquireService,
\* saveParticipantStarted, writeCompletedBundle).
THEOREM ConsistentCutHolds == Spec => []ConsistentCut
<1>1. IInv => ConsistentCut
  BY Zenon DEF IInv, BundlesOK, WellFormed, Handles, ConsistentCut
<1> QED BY <1>1, InvHolds, PTL

\* A federate and the managers agree on its state, after any restore too.
THEOREM InStepHolds == Spec => []InStep
<1>1. IInv => InStep
  BY DEF IInv
<1> QED BY <1>1, InvHolds, PTL

\* What is reported as saved can be restored, wherever the server died.
THEOREM SavedIsStoredHolds == Spec => []SavedIsStored
<1>1. IInv => SavedIsStored
  BY DEF IInv, DecisionsOK
<1> QED BY <1>1, InvHolds, PTL

\* Logical time is held for the save in progress and pauses whom it told.
THEOREM TimeHeldBySaveHolds == Spec => []TimeHeldBySave
<1>1. IInv => TimeHeldBySave
  BY DEF IInv, BarrierOK, TimeHeldBySave
<1> QED BY <1>1, InvHolds, PTL

\* A federate told to save or to restore is in that save or restore.
THEOREM NobodyLeftWaitingHolds == Spec => []NobodyLeftWaiting
<1>1. IInv => NobodyLeftWaiting
  BY Zenon DEF IInv, NoticesOK
<1> QED BY <1>1, InvHolds, PTL

\* The federates and their calls are kept out of a save that was told to all
\* and of a restore (admission.go).
THEOREM MembersFixedHolds == Spec => []MembersFixed
<1>1. IInv => MembersFixed
  <2> SUFFICES ASSUME IInv PROVE MembersFixed
    BY Zenon
  <2>1. leases \subseteq Joined /\ \A n \in leases : roster[n] \notin save.initiated
    BY Zenon DEF IInv, MembersOK, SaveOK
  <2>2. ASSUME saving, ~save.waiting PROVE Live = save.federates /\ leases = {}
    <3>1. Live = save.initiated /\ Live = save.federates
      BY <2>2, Zenon DEF IInv, SaveOK
    <3>2. \A n \in leases : roster[n] \in Live
      BY <2>1, Zenon DEF Live
    <3> QED BY <2>1, <3>1, <3>2
  <2>3. restoring => roster = restore.current /\ leases = {}
    BY DEF IInv, RestoreOK
  <2> QED BY <2>1, <2>2, <2>3 DEF MembersFixed
<1> QED BY <1>1, InvHolds, PTL
=============================================================================
