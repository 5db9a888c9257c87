----------------------------- MODULE TimeQueues -----------------------------
(***************************************************************************)
(* What the time manager keeps for one federate and the operations on it   *)
(* (rti/internal/hla/time): the engagement and request records, the queues *)
(* of held messages, and how deliveries, grants and activations change them.*)
(***************************************************************************)
EXTENDS TimeBounds

CONSTANT MaxMsgs  \* bound on the messages sent

ASSUME MessagesAssumption == MaxMsgs \in Nat

Message == [id : 1..MaxMsgs, ts : Time \cup {NoTime}, sender : Handles, ro : BOOLEAN]

FederateState ==
  [regulating : BOOLEAN, lookahead : Time, constrained : BOOLEAN,
   regulationPending : BOOLEAN, regulationLookahead : Time,
   constrainedPending : BOOLEAN, preservedReceiveTime : Time \cup {NoTime},
   receivedTSOTime : Time \cup {NoTime}, lookaheadTarget : Time,
   reducing : BOOLEAN, originTime : Time, originValue : Time]

NERState ==
  [current : Time, pending : BOOLEAN, requested : Time, mode : Modes \cup {"none"},
   strictZero : BOOLEAN, flushMinimum : Time \cup {NoTime}, async : BOOLEAN,
   tso : Seq(Message), ro : Seq(Message)]

NoFederateState ==
  [regulating |-> FALSE, lookahead |-> 0, constrained |-> FALSE,
   regulationPending |-> FALSE, regulationLookahead |-> 0, constrainedPending |-> FALSE,
   preservedReceiveTime |-> NoTime, receivedTSOTime |-> NoTime,
   lookaheadTarget |-> 0, reducing |-> FALSE, originTime |-> 0, originValue |-> 0]

NoNERState ==
  [current |-> 0, pending |-> FALSE, requested |-> 0, mode |-> "none",
   strictZero |-> FALSE, flushMinimum |-> NoTime, async |-> FALSE,
   tso |-> << >>, ro |-> << >>]

-----------------------------------------------------------------------------
(* Held messages.                                                          *)

\* The elements of s at the positions in I by their keys, those of equal keys as
\* they stand: each goes where as many come before it as precede it in I.
Rank(I, key, i) ==
  Cardinality({j \in I : key[j] < key[i] \/ (key[j] = key[i] /\ j < i)})
Arranged(s, I, key) ==
  [k \in 1..Cardinality(I) |-> s[CHOOSE i \in I : Rank(I, key, i) = k - 1]]

\* The elements at the positions in I as they stand.
Only(s, I) == Arranged(s, I, [i \in I |-> 0])

TSOIn(s) == Only(s, {i \in 1..Len(s) : ~s[i].ro})
ROIn(s) == Only(s, {i \in 1..Len(s) : s[i].ro})
Stamps(s) == {s[i].ts : i \in 1..Len(s)}
Ids(s) == {s[i].id : i \in 1..Len(s)}

takeBufferedRO(f, n) ==
  IF f.constrained /\ ~n.pending /\ ~n.async THEN << >> ELSE n.ro

\* Mutants: messages at the bound stay behind; messages leave in arrival order.
takeBufferedTSO_Below(f, n, bound) ==
  LET eligible == {i \in 1..Len(n.tso) : n.tso[i].ts < bound}
  IN  Arranged(n.tso, eligible,
               [i \in eligible |-> IF f.constrained THEN n.tso[i].ts ELSE 0])

takeBufferedTSO_Arrival(f, n, bound) ==
  Only(n.tso, {i \in 1..Len(n.tso) : n.tso[i].ts <= bound})

\* Eligible messages, stably sorted by timestamp for a constrained federate.
takeBufferedTSO(f, n, bound) ==
  LET eligible == {i \in 1..Len(n.tso) : n.tso[i].ts <= bound}
  IN  Arranged(n.tso, eligible,
               [i \in eligible |-> IF f.constrained THEN n.tso[i].ts ELSE 0])

\* Mutant: taken messages are not removed from their queue.
Untaken_Kept(n, release) == n

Besides(q, release) == Only(q, {i \in 1..Len(q) : q[i].id \notin Ids(release)})

Untaken(n, release) ==
  [n EXCEPT !.tso = Besides(@, release), !.ro = Besides(@, release)]

\* Mutant: RO messages that could not be delivered are lost.
restoreBufferedMessages_TSOOnly(n, left) == [n EXCEPT !.tso = TSOIn(left) \o @]

restoreBufferedMessages(n, left) ==
  [n EXCEPT !.tso = TSOIn(left) \o @, !.ro = ROIn(left) \o @]

recordOrderedDelivery(f, n, given) ==
  IF f.constrained /\ ~(n.pending /\ n.mode = "FQR")
    THEN [f EXCEPT !.receivedTSOTime = Max({@} \cup Stamps(TSOIn(given)))]
    ELSE f

recordFlushDelivery(n, given) ==
  IF /\ n.pending
     /\ n.mode = "FQR" \/ usesNextMessageTarget(n.mode)
     /\ TSOIn(given) # << >>
    THEN [n EXCEPT !.flushMinimum = Min(({@} \ {NoTime}) \cup Stamps(TSOIn(given)))]
    ELSE n

\* Mutant: the delivery is not recorded.
RecordRetractionDeliveries_None(delivered, id, h, ledger) == delivered

RecordRetractionDeliveries(delivered, id, h, ledger) ==
  IF id \in Ids(TSOIn(ledger)) THEN delivered \cup {h} ELSE delivered

-----------------------------------------------------------------------------
(* Activations and grants.                                                 *)

takeEnableMessages(f, n, regulation, at) ==
  IF regulation /\ ~f.constrained THEN << >>
  ELSE n.ro \o takeBufferedTSO(f, n, IF regulation THEN at ELSE at - 1)

recordReceivedGrant(f, mode, at) ==
  IF ~f.constrained THEN f
  ELSE IF strictAdvance(mode) THEN [f EXCEPT !.preservedReceiveTime = at]
  ELSE IF at > f.preservedReceiveTime THEN [f EXCEPT !.preservedReceiveTime = NoTime]
  ELSE f

Enabled(f, regulation, at) ==
  IF regulation
    THEN [recordReceivedGrant(f, "TARA", at) EXCEPT
            !.regulating = TRUE, !.lookahead = f.regulationLookahead,
            !.regulationPending = FALSE, !.regulationLookahead = 0,
            !.reducing = FALSE, !.lookaheadTarget = 0,
            !.originTime = 0, !.originValue = 0]
    ELSE [f EXCEPT !.constrained = TRUE, !.constrainedPending = FALSE,
                   !.preservedReceiveTime = NoTime, !.receivedTSOTime = NoTime]

advanceLookahead(f, at) ==
  LET la == projectedLookahead(f, at)
  IN  IF ~f.regulating \/ ~f.reducing THEN f
      ELSE IF la = f.lookaheadTarget
        THEN [f EXCEPT !.lookahead = la, !.lookaheadTarget = 0, !.reducing = FALSE,
                       !.originTime = 0, !.originValue = 0]
        ELSE [f EXCEPT !.lookahead = la]

-----------------------------------------------------------------------------
(* Handing held messages to the callback queue.                            *)

\* How a release followed by cb callbacks can end, when the subscriptions let
\* kept pass and the queue has room for space entries: admitted in one
\* reservation; refused for capacity and then delivered one by one as far as
\* the queue has room (a slow reader may have made room in between); or failed
\* at the journal or at a commit, with the undelivered messages restored.
Endings(release, kept, cb, space, slow, faulty) ==
  LET k    == Lesser(space, Len(kept))
      bulk == [given |-> kept, left |-> << >>, done |-> TRUE, each |-> FALSE, fault |-> FALSE]
      each(j) == [given |-> SubSeq(kept, 1, j), left |-> SubSeq(kept, j + 1, Len(kept)),
                  done |-> space >= Len(kept) + cb, each |-> TRUE, fault |-> FALSE]
      plain == (IF space >= Len(kept) + cb THEN {bulk} ELSE {})
                 \cup (IF slow THEN {each(k)} ELSE {})
      failed == {[bulk EXCEPT !.given = << >>, !.left = release, !.done = FALSE, !.fault = TRUE]}
                  \cup {[each(j) EXCEPT !.done = FALSE, !.fault = TRUE] : j \in 0..k}
  IN  IF cb = 0 /\ kept = << >> THEN {bulk}
      ELSE IF faulty THEN plain \cup failed ELSE plain

=============================================================================
