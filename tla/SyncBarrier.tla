---------------------------- MODULE SyncBarrier ----------------------------
(***************************************************************************)
(* What the synchronization points of a federation promise, without saying *)
(* how: every label is a barrier that some federates open, that everybody  *)
(* needed arrives at, that releases them together, and that can be opened  *)
(* again once all of them have been heard from.  Federates come and go.    *)
(***************************************************************************)
CONSTANTS Federates, Labels

VARIABLES roster,   \* the federates that have joined
          phase,    \* of each label: "idle", "open" or "released"
          need,     \* whom the barrier needs
          done,     \* who has arrived
          heard     \* who has reported its release

bvars == <<roster, phase, need, done, heard>>

Init ==
    /\ roster \subseteq Federates
    /\ phase = [l \in Labels |-> "idle"]
    /\ need = [l \in Labels |-> {}]
    /\ done = [l \in Labels |-> {}]
    /\ heard = [l \in Labels |-> {}]

Open(l, members) ==
    /\ phase[l] = "idle" /\ members # {} /\ members \subseteq roster
    /\ phase' = [phase EXCEPT ![l] = "open"]
    /\ need' = [need EXCEPT ![l] = members]
    /\ UNCHANGED <<roster, done, heard>>

\* The last arrival releases everybody.
Arrive(l, h) ==
    /\ phase[l] = "open" /\ h \in need[l] \ done[l]
    /\ done' = [done EXCEPT ![l] = @ \cup {h}]
    /\ phase' = [phase EXCEPT ![l] = IF need[l] \subseteq done'[l] THEN "released" ELSE @]
    /\ UNCHANGED <<roster, need, heard>>

Hear(l, h) ==
    /\ phase[l] = "released" /\ h \in need[l] \ heard[l]
    /\ need[l] # heard[l] \cup {h}
    /\ heard' = [heard EXCEPT ![l] = @ \cup {h}]
    /\ UNCHANGED <<roster, phase, need, done>>

\* The last report makes the label free.
HearLast(l, h) ==
    /\ phase[l] = "released" /\ h \in need[l] \ heard[l]
    /\ need[l] = heard[l] \cup {h}
    /\ phase' = [phase EXCEPT ![l] = "idle"]
    /\ need' = [need EXCEPT ![l] = {}]
    /\ done' = [done EXCEPT ![l] = {}]
    /\ heard' = [heard EXCEPT ![l] = {}]
    /\ UNCHANGED roster

\* A newcomer is added to open barriers only.
Enter(h, labels) ==
    /\ h \notin roster /\ \A l \in labels : phase[l] = "open"
    /\ roster' = roster \cup {h}
    /\ need' = [l \in Labels |-> IF l \in labels THEN need[l] \cup {h} ELSE need[l]]
    /\ UNCHANGED <<phase, done, heard>>

\* What becomes of a barrier that no longer needs h.
PhaseWithout(l, h) ==
    IF \/ need[l] \subseteq {h}
       \/ phase[l] = "released" /\ need[l] \ {h} \subseteq heard[l] THEN "idle"
    ELSE IF phase[l] = "open" /\ need[l] \ {h} \subseteq done[l] THEN "released"
    ELSE phase[l]

Leave(h) ==
    /\ h \in roster
    /\ roster' = roster \ {h}
    /\ phase' = [l \in Labels |-> PhaseWithout(l, h)]
    /\ need' = [l \in Labels |-> IF PhaseWithout(l, h) = "idle" THEN {} ELSE need[l] \ {h}]
    /\ done' = [l \in Labels |-> IF PhaseWithout(l, h) = "idle" THEN {} ELSE done[l] \ {h}]
    /\ heard' = [l \in Labels |-> IF PhaseWithout(l, h) = "idle" THEN {} ELSE heard[l] \ {h}]

Next ==
    \/ \E l \in Labels, members \in SUBSET Federates : Open(l, members)
    \/ \E l \in Labels, h \in Federates : Arrive(l, h) \/ Hear(l, h) \/ HearLast(l, h)
    \/ \E h \in Federates, labels \in SUBSET Labels : Enter(h, labels)
    \/ \E h \in Federates : Leave(h)

Spec == Init /\ [][Next]_bvars
=============================================================================
