----------------------------- MODULE TimeBounds -----------------------------
(***************************************************************************)
(* Pure arithmetic of the time manager (rti/internal/hla/time): send       *)
(* floors, LBTS, available horizons (GALT), grant decisions and safe       *)
(* activation times.                                                       *)
(*                                                                         *)
(* The model is the Integer64 instantiation of the generic manager.        *)
(* Logical times are 0..MaxTime; MaxTime stands for MaxInt64.  A bound     *)
(* that the code flags Unbounded is the number MaxTime + 1, which compares *)
(* with every time the way horizonBeyond and minimumHorizon do.  A nil     *)
(* pointer field of the code is NoTime.                                    *)
(*                                                                         *)
(* f and n are one federate's federateStateOf and nerStateOf records; fs   *)
(* and ns the tables of them, indexed by handle.                           *)
(***************************************************************************)
EXTENDS Integers, Sequences, FiniteSetsExt

CONSTANTS N,        \* number of federates; their handles are 1..N
          MaxTime   \* the last representable logical time

ASSUME NAssumption == N \in Nat \ {0}
ASSUME MaxTimeAssumption == MaxTime \in Nat \ {0}

Handles == 1..N
Time == 0..MaxTime
Unbounded == MaxTime + 1
Horizon == 0..Unbounded
NoTime == -1

Modes == {"NER", "NMRA", "TAR", "TARA", "FQR"}

Lesser(a, b) == IF a <= b THEN a ELSE b
Greater(a, b) == IF a >= b THEN a ELSE b

-----------------------------------------------------------------------------
(* Advance modes (advance.go, zero_lookahead.go).                          *)

usesNextMessageTarget(mode) == mode \in {"NER", "NMRA"}
\* Mutant: no advance is granted at its bound.
inclusiveLBTS_Never(mode) == FALSE
inclusiveLBTS(mode) == mode \in {"NMRA", "TARA", "FQR"}
strictAdvance(mode) == mode \in {"TAR", "NER"}

(* Horizon arithmetic (arithmetic.go, scalar.go).                          *)

addHorizon(at, interval) ==
  IF at + interval > MaxTime THEN Unbounded ELSE at + interval

minimumHorizon(a, b) == Lesser(a, b)

successor(at) == at + 1     \* Unbounded when at is the last time

-----------------------------------------------------------------------------
(* Send floors (regulation.go, zero_lookahead.go).                         *)

projectedLookahead(f, at) ==
  IF f.reducing /\ at > f.originTime
    THEN Greater(f.lookaheadTarget, f.originValue - (at - f.originTime))
    ELSE f.lookahead

outgoingTSOBound(f, n) ==
  LET base == IF n.pending THEN n.requested ELSE n.current
      la   == IF n.pending THEN projectedLookahead(f, base) ELSE f.lookahead
  IN  [base |-> base,
       lookahead |-> la,
       exclusive |-> /\ la = 0
                     /\ IF n.pending
                          THEN \/ strictAdvance(n.mode)
                               \/ (n.strictZero /\ base = n.current)
                          ELSE n.strictZero]

\* The least timestamp the federate may put on a TSO message now.
availableSendHorizon(f, n) ==
  LET b == outgoingTSOBound(f, n)
  IN  addHorizon(IF b.exclusive THEN successor(b.base) ELSE b.base, b.lookahead)

recordGrantBound(n, t) ==
  \/ strictAdvance(n.mode)
  \/ (n.strictZero /\ t <= n.current)

\* The send floor the federate would have after a grant at time at.
availableHorizonAfterGrant(f, n, at) ==
  LET t == Greater(n.current, Lesser(at, n.requested))
  IN  availableSendHorizon(
        [f EXCEPT !.lookahead = projectedLookahead(f, t)],
        [n EXCEPT !.strictZero = recordGrantBound(n, t),
                  !.current = t,
                  !.pending = FALSE])

-----------------------------------------------------------------------------
(* LBTS and the available horizon (lbts.go, ner.go, galt.go).              *)

LBTS(fs, ns) ==
  Min({availableSendHorizon(fs[r], ns[r]) : r \in {r \in Handles : fs[r].regulating}}
        \cup {Unbounded})

\* Mutant: messages that may bring an early grant are overlooked.
availableRegulatorSnapshot_NoEarly(f, n) == availableSendHorizon(f, n)

\* An early grant is possible at the time of a queued or already delivered
\* message, so each of them lowers a pending next-message regulator's bound.
availableRegulatorSnapshot(f, n) ==
  LET early == IF /\ f.constrained /\ n.pending
                  /\ usesNextMessageTarget(n.mode) \/ n.mode = "FQR"
                 THEN {t \in {n.tso[i].ts : i \in 1..Len(n.tso)} : t < n.requested}
                        \cup ({n.flushMinimum} \ {NoTime})
                 ELSE {}
  IN  Min({availableSendHorizon(f, n)}
            \cup {availableHorizonAfterGrant(f, n, t) : t \in early})

\* One peer's turn in a propagation pass: a pending constrained FQR can be
\* granted at the least bound of the others.
lowerFlushHorizon(fs, ns, bound, i) ==
  LET incoming == Min({bound[j] : j \in Handles \ {i}} \cup {Unbounded})
  IN  IF /\ fs[i].regulating /\ fs[i].constrained
         /\ ns[i].pending /\ ns[i].mode = "FQR"
         /\ incoming < ns[i].requested
        THEN minimumHorizon(bound[i], availableHorizonAfterGrant(fs[i], ns[i], incoming))
        ELSE bound[i]

\* N passes over the peers, each lowered in turn, as steps 1..N*N.
propagateFlushHorizons(fs, ns, start) ==
  LET step[k \in 0..(N * N)] ==
        IF k = 0 THEN start
        ELSE LET i == 1 + ((k - 1) % N)
                 last == step[k - 1]
             IN  [last EXCEPT ![i] = lowerFlushHorizon(fs, ns, last, i)]
  IN  step[N * N]

availableBounds(fs, ns) ==
  LET start == [r \in Handles |->
                  IF fs[r].regulating THEN availableRegulatorSnapshot(fs[r], ns[r])
                                      ELSE Unbounded]
  IN  IF \E r \in Handles : ns[r].pending /\ ns[r].mode = "FQR"
        THEN propagateFlushHorizons(fs, ns, start)
        ELSE start

\* GALT of self; Unbounded when no other federate regulates.
availableHorizon(fs, ns, self) ==
  LET bound == availableBounds(fs, ns)
  IN  Min({bound[r] : r \in Handles \ {self}} \cup {Unbounded})

-----------------------------------------------------------------------------
(* Grant decision (typed_grant.go, ner.go): the granted time, or NoTime to *)
(* hold the request.                                                       *)

nextGrantMessage(n) ==
  LET queued == {n.tso[i].ts : i \in 1..Len(n.tso)}
      seen   == IF n.mode = "FQR" \/ usesNextMessageTarget(n.mode)
                  THEN {n.flushMinimum} \ {NoTime} ELSE {}
  IN  IF queued \cup seen = {} THEN NoTime ELSE Min(queued \cup seen)

decideScalarGrant(mode, current, requested, bound, next) ==
  IF mode = "FQR"
    THEN Greater(current,
                 Min({requested, bound} \cup ({next} \ {NoTime})))
    ELSE LET target == IF /\ usesNextMessageTarget(mode)
                          /\ next # NoTime /\ next >= current /\ next < requested
                         THEN next ELSE requested
         IN  IF bound > target \/ (inclusiveLBTS(mode) /\ bound = target)
               THEN target ELSE NoTime

decideCandidateGrant(fs, ns, h) ==
  LET n == ns[h]
  IN  IF fs[h].constrained
        THEN decideScalarGrant(n.mode, n.current, n.requested,
               minimumHorizon(LBTS(fs, ns), availableHorizon(fs, ns, h)),
               nextGrantMessage(n))
        ELSE decideScalarGrant(n.mode, n.current, n.requested, Unbounded, NoTime)

-----------------------------------------------------------------------------
(* Safe activation times (enable.go); NoTime when there is none.           *)

\* The time below which (at which, when exclusive) a constrained peer must
\* receive nothing more.
receiveFrontier(f, n) ==
  LET frontier == Greater(n.current, f.receivedTSOTime)
  IN  IF f.preservedReceiveTime = frontier THEN successor(frontier) ELSE frontier

\* Mutants: peers' frontiers, or the requester's own time, are overlooked.
regulationEnableTime_NoPeers(fs, ns, h, target, lookahead) == target
regulationEnableTime_NoSelf(fs, ns, h, target, lookahead) ==
  Max({receiveFrontier(fs[p], ns[p]) - lookahead :
         p \in {p \in Handles \ {h} : fs[p].constrained}} \cup {0})

regulationEnableTime(fs, ns, h, target, lookahead) ==
  LET floors == {receiveFrontier(fs[p], ns[p]) - lookahead :
                   p \in {p \in Handles \ {h} : fs[p].constrained}}
      least  == Max(floors \cup {target})
  IN  IF least > MaxTime THEN NoTime ELSE least

enableTarget(fs, ns, h, regulation) ==
  LET f == fs[h]
      base == IF regulation /\ f.constrained
                THEN Greater(ns[h].current, f.receivedTSOTime) ELSE ns[h].current
      target == IF regulation
                  THEN regulationEnableTime(fs, ns, h, base, f.regulationLookahead)
                  ELSE base
  IN  IF \/ (regulation /\ ~f.regulationPending)
         \/ (~regulation /\ ~f.constrainedPending)
         \/ (f.constrained \/ ~regulation) /\ availableHorizon(fs, ns, h) < target
        THEN NoTime ELSE target

=============================================================================
