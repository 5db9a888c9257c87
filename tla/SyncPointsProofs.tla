--------------------------- MODULE SyncPointsProofs ---------------------------
(***************************************************************************)
(* Proofs about SyncPoints for every number of federates and labels: what  *)
(* the operators do to the points, what every operation does as a relation *)
(* between the points before and after it, that every effect keeps the     *)
(* invariant of the points, and that the effects are steps of SyncBarrier. *)
(***************************************************************************)
EXTENDS SyncPoints, TLAPS

Shaped(p) ==
    /\ p = [state |-> p.state, required |-> p.required, achieved |-> p.achieved,
            failed |-> p.failed, allMembers |-> p.allMembers, epoch |-> p.epoch,
            callbacks |-> p.callbacks]
    /\ p.callbacks = [h \in Federates |-> p.callbacks[h]]
    /\ \A h \in Federates :
          /\ p.callbacks[h] = [announce |-> p.callbacks[h].announce,
                announceEntered |-> p.callbacks[h].announceEntered,
                announceInvoked |-> p.callbacks[h].announceInvoked,
                synchronized |-> p.callbacks[h].synchronized,
                synchronizedInvoked |-> p.callbacks[h].synchronizedInvoked]
          /\ p.callbacks[h].synchronizedInvoked \in BOOLEAN

\* The invariant of one point, for the roster J.
PointInv(p, J) ==
    /\ Shaped(p)
    /\ p.state \in {"announced", "achieved"}
    /\ p.allMembers \in BOOLEAN
    /\ p.required \subseteq J
    /\ p.achieved \subseteq p.required
    /\ (p.state = "announced") <=> ~(p.required \subseteq p.achieved)
    /\ p.state = "announced" /\ p.allMembers => p.required = J
    /\ p.state = "announced" => \A h \in Federates : ~p.callbacks[h].synchronizedInvoked
    /\ p.state = "achieved" => \E h \in p.required : ~p.callbacks[h].synchronizedInvoked

IsState(s) == s = [points |-> s.points, nextSequence |-> s.nextSequence,
                   nextEpoch |-> s.nextEpoch, pending |-> s.pending,
                   obligations |-> s.obligations]

IsPoints(P) == P = [l \in DOMAIN P |-> P[l]] /\ DOMAIN P \subseteq Labels

IInv ==
    /\ joined \subseteq Federates
    /\ nextHandle \in Nat \ {0}
    /\ \A h \in joined : h < nextHandle
    /\ IsState(st) /\ IsPoints(st.points)
    /\ \A l \in DOMAIN st.points : PointInv(st.points[l], joined)

\* q is p but for numbers and reports other than the synchronized one.
Like(p, q) ==
    /\ Shaped(q)
    /\ q.state = p.state /\ q.required = p.required /\ q.achieved = p.achieved
    /\ q.allMembers = p.allMembers
    /\ \A h \in Federates :
          q.callbacks[h].synchronizedInvoked = p.callbacks[h].synchronizedInvoked

AllShaped(P) == IsPoints(P) /\ \A l \in DOMAIN P : Shaped(P[l])

IsInvocation(r) ==
    r = [announce |-> r.announce, announceEntered |-> r.announceEntered,
         announceInvoked |-> r.announceInvoked, synchronized |-> r.synchronized,
         synchronizedInvoked |-> r.synchronizedInvoked]

WithNumbers(r, a, b) == [r EXCEPT !.announce = a, !.synchronized = b]

\* Giving an invocation record its two numbers.
LEMMA Numbered ==
    ASSUME NEW r, NEW a, NEW b, IsInvocation(r)
    PROVE  /\ IsInvocation(WithNumbers(r, a, b))
           /\ WithNumbers(r, a, b).synchronizedInvoked = r.synchronizedInvoked
<1> DEFINE u == [announce |-> a, announceEntered |-> r.announceEntered,
                 announceInvoked |-> r.announceInvoked, synchronized |-> r.synchronized,
                 synchronizedInvoked |-> r.synchronizedInvoked]
           v == [announce |-> a, announceEntered |-> r.announceEntered,
                 announceInvoked |-> r.announceInvoked, synchronized |-> b,
                 synchronizedInvoked |-> r.synchronizedInvoked]
<1>1. [r EXCEPT !.announce = a] = u
  BY DEF IsInvocation
<1>2. [u EXCEPT !.synchronized = b] = v
  OBVIOUS
<1>3. WithNumbers(r, a, b) = v
  BY <1>1, <1>2, Zenon DEF WithNumbers
<1>4. IsInvocation(v) /\ v.synchronizedInvoked = r.synchronizedInvoked
  BY DEF IsInvocation
<1> QED BY <1>3, <1>4

\* Replacing the callbacks of a point.
LEMMA WithCallbacks ==
    ASSUME NEW p, NEW F, Shaped(p), F = [h \in Federates |-> F[h]],
           \A h \in Federates : /\ IsInvocation(F[h])
                                /\ F[h].synchronizedInvoked = p.callbacks[h].synchronizedInvoked
    PROVE  Like(p, [p EXCEPT !.callbacks = F])
<1>1. [p EXCEPT !.callbacks = F] =
          [state |-> p.state, required |-> p.required, achieved |-> p.achieved,
           failed |-> p.failed, allMembers |-> p.allMembers, epoch |-> p.epoch,
           callbacks |-> F]
  BY DEF Shaped
<1> QED BY <1>1, Zenon DEF Like, Shaped, IsInvocation

\* Numbering the callbacks of an operation touches nothing else in a point
\* (the inv updates of enqueue).
LEMMA IdentifiedLike ==
    ASSUME NEW p, NEW label, NEW cbs, NEW n, Shaped(p)
    PROVE  Like(p, Identified(p, label, cbs, n))
<1> DEFINE is(i, kind, h) == cbs[i] = [kind |-> kind, label |-> label, recipient |-> h]
           number(old, kind, h) ==
             IF \E i \in DOMAIN cbs : is(i, kind, h)
             THEN n + (CHOOSE i \in DOMAIN cbs : is(i, kind, h)) ELSE old
           G(h) == [p.callbacks[h] EXCEPT !.announce = number(@, "announce", h),
                                          !.synchronized = number(@, "synchronized", h)]
           F == [h \in Federates |-> G(h)]
<1> HIDE DEF number
<1>1. \A h \in Federates : IsInvocation(p.callbacks[h])
  BY DEF Shaped, IsInvocation
<1>2. ASSUME NEW h \in Federates
      PROVE  /\ IsInvocation(F[h])
             /\ F[h].synchronizedInvoked = p.callbacks[h].synchronizedInvoked
  <2>1. F[h] = WithNumbers(p.callbacks[h], number(p.callbacks[h].announce, "announce", h),
                                number(p.callbacks[h].synchronized, "synchronized", h))
    BY DEF WithNumbers
  <2> HIDE DEF F
  <2>2. IsInvocation(p.callbacks[h])
    BY <1>1
  <2> QED BY <2>1, <2>2, Numbered
<1>3. Identified(p, label, cbs, n) = [p EXCEPT !.callbacks = F]
  BY Zenon DEF Identified, number
<1>4. F = [h \in Federates |-> F[h]]
  BY Zenon
<1> HIDE DEF F
<1> QED BY <1>2, <1>3, <1>4, WithCallbacks, SMTT(30)

\* enqueue keeps the points but for the numbers of the callbacks.
LEMMA EnqueueLike ==
    ASSUME NEW s, NEW cbs, AllShaped(s.points)
    PROVE  /\ IsState(enqueue(s, cbs))
           /\ AllShaped(enqueue(s, cbs).points)
           /\ DOMAIN enqueue(s, cbs).points = DOMAIN s.points
           /\ \A l \in DOMAIN s.points : Like(s.points[l], enqueue(s, cbs).points[l])
<1> DEFINE Q == [l \in DOMAIN s.points |-> Identified(s.points[l], l, cbs, s.nextSequence)]
<1>1. IsState(enqueue(s, cbs)) /\ enqueue(s, cbs).points = Q
  BY DEF enqueue, IsState
<1>2. \A l \in DOMAIN s.points : Like(s.points[l], Q[l])
  BY IdentifiedLike DEF AllShaped
<1> QED BY <1>1, <1>2, SMTT(30) DEF AllShaped, IsPoints, Like

Completed(p) == IF Complete(p) THEN [p EXCEPT !.state = "achieved"] ELSE p

\* A completed point differs from the point in its state only.
LEMMA CompletedShaped ==
    ASSUME NEW p, Shaped(p)
    PROVE  /\ Shaped(Completed(p))
           /\ Completed(p).state = IF Complete(p) THEN "achieved" ELSE p.state
           /\ Completed(p).required = p.required /\ Completed(p).achieved = p.achieved
           /\ Completed(p).allMembers = p.allMembers
           /\ Completed(p).callbacks = p.callbacks
<1>1. CASE ~Complete(p)
  BY <1>1 DEF Completed
<1>2. CASE Complete(p)
  <2>1. Completed(p) =
          [state |-> "achieved", required |-> p.required, achieved |-> p.achieved,
           failed |-> p.failed, allMembers |-> p.allMembers, epoch |-> p.epoch,
           callbacks |-> p.callbacks]
    BY <1>2 DEF Shaped, Completed
  <2> QED BY <1>2, <2>1 DEF Shaped
<1> QED BY <1>1, <1>2

\* complete marks the points that lack nobody and leaves the others alone.
LEMMA CompleteLike ==
    ASSUME NEW s, NEW labels, IsState(s), AllShaped(s.points)
    PROVE  /\ IsState(complete(s, labels))
           /\ AllShaped(complete(s, labels).points)
           /\ DOMAIN complete(s, labels).points = DOMAIN s.points
           /\ \A l \in DOMAIN s.points :
                 Like(IF l \in labels THEN Completed(s.points[l]) ELSE s.points[l],
                      complete(s, labels).points[l])
<1> DEFINE ready == {l \in labels : Complete(s.points[l])}
           order == sorted(ready)
           cbs == FlattenSeq([i \in DOMAIN order |->
                     callbacksTo("synchronized", order[i], s.points[order[i]].required)])
           C == [l \in DOMAIN s.points |->
                    IF l \in ready THEN [s.points[l] EXCEPT !.state = "achieved"] ELSE s.points[l]]
           t == [s EXCEPT !.points = C]
<1>1. complete(s, labels) = enqueue(t, cbs)
  BY DEF complete
<1>2. t.points = C
  BY DEF IsState
<1>3. \A l \in DOMAIN s.points :
         C[l] = IF l \in labels THEN Completed(s.points[l]) ELSE s.points[l]
  BY DEF Completed
<1>4. AllShaped(C)
  <2>1. ASSUME NEW l \in DOMAIN s.points PROVE Shaped(C[l])
    <3>1. Shaped(s.points[l]) /\ Shaped(Completed(s.points[l]))
      BY CompletedShaped DEF AllShaped
    <3>2. C[l] = Completed(s.points[l]) \/ C[l] = s.points[l]
      BY <1>3
    <3> HIDE DEF C
    <3> QED BY <3>1, <3>2
  <2>2. DOMAIN C = DOMAIN s.points /\ IsPoints(C)
    BY DEF AllShaped, IsPoints
  <2> HIDE DEF C
  <2> QED BY <2>1, <2>2 DEF AllShaped
<1> HIDE DEF cbs
<1>5. /\ IsState(enqueue(t, cbs))
      /\ AllShaped(enqueue(t, cbs).points)
      /\ DOMAIN enqueue(t, cbs).points = DOMAIN C
      /\ \A l \in DOMAIN C : Like(C[l], enqueue(t, cbs).points[l])
  <2> HIDE DEF t, C
  <2> QED BY <1>2, <1>4, EnqueueLike
<1> QED BY <1>1, <1>3, <1>5, Zenon

\* retire drops points and leaves the others alone.
LEMMA RetireKeeps ==
    ASSUME NEW s, NEW labels, IsState(s), AllShaped(s.points)
    PROVE  /\ IsState(retire(s, labels))
           /\ AllShaped(retire(s, labels).points)
           /\ DOMAIN retire(s, labels).points =
                 {l \in DOMAIN s.points : ~(l \in labels /\ Retirable(s.points[l]))}
           /\ \A l \in DOMAIN retire(s, labels).points :
                 retire(s, labels).points[l] = s.points[l]
<1>1. retire(s, labels) =
        [points |-> Without(s.points, {l \in labels : Retirable(s.points[l])}),
         nextSequence |-> s.nextSequence, nextEpoch |-> s.nextEpoch,
         pending |-> s.pending, obligations |-> s.obligations]
  BY DEF retire, IsState
<1> QED BY <1>1 DEF IsState, AllShaped, IsPoints, Without

\* transition publishes the new points or, for a refused service call, none.
LEMMA TransitionPoints ==
    ASSUME NEW next, NEW lifecycle \in BOOLEAN, IsState(next), IsState(st),
           transition(next, lifecycle)
    PROVE  /\ IsState(st')
           /\ (st'.points = next.points) \/ (~lifecycle /\ st'.points = st.points)
BY DEF transition, IsState

\* The invariant of a point does not depend on numbers.
LEMMA LikeKeeps ==
    ASSUME NEW p, NEW q, NEW J \in SUBSET Federates, PointInv(p, J), Like(p, q)
    PROVE  PointInv(q, J)
BY DEF PointInv, Like

\* Nothing a barrier shows.
Quiet(P, Q) == DOMAIN Q = DOMAIN P /\ \A l \in DOMAIN P : Like(P[l], Q[l])

\* Changing nothing is quiet.
LEMMA QuietRefl == ASSUME NEW P, AllShaped(P) PROVE Quiet(P, P)
BY DEF Quiet, Like, AllShaped

\* The fields of a new point.
LEMMA NewShaped ==
    ASSUME NEW members, NEW all, NEW epoch
    PROVE  LET p == newPoint(members, all, epoch) IN
           /\ Shaped(p) /\ p.state = "announced" /\ p.required = members
           /\ p.achieved = {} /\ p.allMembers = all
           /\ \A h \in Federates : ~p.callbacks[h].synchronizedInvoked
BY Zenon DEF newPoint, Shaped, NoInvocation

\* Whatever is like a new point.
LEMMA NewLike ==
    ASSUME NEW members, NEW all, NEW epoch, NEW q, Like(newPoint(members, all, epoch), q)
    PROVE  /\ Shaped(q) /\ q.state = "announced" /\ q.required = members
           /\ q.achieved = {} /\ q.allMembers = all
           /\ \A h \in Federates : ~q.callbacks[h].synchronizedInvoked
<1> DEFINE p == newPoint(members, all, epoch)
<1>1. /\ p.state = "announced" /\ p.required = members
      /\ p.achieved = {} /\ p.allMembers = all
      /\ \A h \in Federates : ~p.callbacks[h].synchronizedInvoked
  BY Zenon DEF newPoint, NoInvocation
<1>2. Like(p, q)
  OBVIOUS
<1> HIDE DEF p
<1> QED BY <1>1, <1>2 DEF Like

\* Replacing one point.
LEMMA SetPoint ==
    ASSUME NEW s, NEW label, NEW q, IsState(s), AllShaped(s.points),
           label \in DOMAIN s.points, Shaped(q)
    PROVE  LET t == [s EXCEPT !.points[label] = q] IN
           /\ IsState(t) /\ AllShaped(t.points) /\ DOMAIN t.points = DOMAIN s.points
           /\ t.points[label] = q
           /\ \A l \in DOMAIN s.points \ {label} : t.points[l] = s.points[l]
<1> DEFINE P == [s.points EXCEPT ![label] = q]
           t == [s EXCEPT !.points[label] = q]
<1>1. t = [points |-> P, nextSequence |-> s.nextSequence, nextEpoch |-> s.nextEpoch,
           pending |-> s.pending, obligations |-> s.obligations]
  BY DEF IsState
<1>2. /\ DOMAIN P = DOMAIN s.points /\ P[label] = q /\ IsPoints(P)
      /\ \A l \in DOMAIN s.points \ {label} : P[l] = s.points[l]
  BY DEF AllShaped, IsPoints
<1>3. t.points = P /\ IsState(t)
  BY <1>1 DEF IsState
<1> HIDE DEF t, P
<1>4. AllShaped(P)
  BY <1>2 DEF AllShaped
<1>5. /\ IsState(t) /\ AllShaped(t.points) /\ DOMAIN t.points = DOMAIN s.points
      /\ t.points[label] = q
      /\ \A l \in DOMAIN s.points \ {label} : t.points[l] = s.points[l]
  BY <1>2, <1>3, <1>4, Zenon
<1> QED BY <1>5 DEF t

Arrived(p, h, f) == [p EXCEPT !.achieved = p.achieved \cup {h}, !.failed = f]

\* The fields of a point that a federate has achieved.
LEMMA ArrivedShaped ==
    ASSUME NEW p, NEW h, NEW f, Shaped(p)
    PROVE  LET q == Arrived(p, h, f) IN
           /\ Shaped(q) /\ q.state = p.state /\ q.required = p.required
           /\ q.achieved = p.achieved \cup {h} /\ q.allMembers = p.allMembers
           /\ q.callbacks = p.callbacks
<1> DEFINE u == [state |-> p.state, required |-> p.required, achieved |-> p.achieved \cup {h},
                 failed |-> p.failed, allMembers |-> p.allMembers, epoch |-> p.epoch,
                 callbacks |-> p.callbacks]
           v == [state |-> p.state, required |-> p.required, achieved |-> p.achieved \cup {h},
                 failed |-> f, allMembers |-> p.allMembers, epoch |-> p.epoch,
                 callbacks |-> p.callbacks]
<1>1. [p EXCEPT !.achieved = p.achieved \cup {h}] = u
  BY SMTT(30) DEF Shaped
<1>2. [u EXCEPT !.failed = f] = v
  OBVIOUS
<1>3. Arrived(p, h, f) = v
  BY <1>1, <1>2, Zenon DEF Arrived
<1> QED BY <1>3 DEF Shaped

\* The fields of a point that waits for one federate more.
LEMMA NeedingShaped ==
    ASSUME NEW p, NEW h, Shaped(p)
    PROVE  LET q == Needing(p, h) IN
           /\ Shaped(q) /\ q.state = p.state /\ q.required = p.required \cup {h}
           /\ q.achieved = p.achieved /\ q.allMembers = p.allMembers
           /\ q.callbacks = p.callbacks
<1>1. Needing(p, h) =
         [state |-> p.state, required |-> p.required \cup {h}, achieved |-> p.achieved,
          failed |-> p.failed, allMembers |-> p.allMembers, epoch |-> p.epoch,
          callbacks |-> p.callbacks]
  BY SMTT(30) DEF Shaped, Needing
<1> QED BY <1>1 DEF Shaped

\* The fields of a point that a federate has left.
LEMMA StrippedShaped ==
    ASSUME NEW p, NEW h \in Federates, Shaped(p)
    PROVE  LET q == Stripped(p, h) IN
           /\ Shaped(q) /\ q.state = p.state /\ q.required = p.required \ {h}
           /\ q.achieved = p.achieved \ {h} /\ q.allMembers = p.allMembers
           /\ ~q.callbacks[h].synchronizedInvoked
           /\ \A f \in Federates \ {h} : q.callbacks[f] = p.callbacks[f]
<1> DEFINE F == [p.callbacks EXCEPT ![h] = NoInvocation]
           rec(r, a, f, c) == [state |-> p.state, required |-> r, achieved |-> a, failed |-> f,
                               allMembers |-> p.allMembers, epoch |-> p.epoch, callbacks |-> c]
           R == p.required \ {h}
           A == p.achieved \ {h}
           B == p.failed \ {h}
           v == rec(R, A, B, F)
<1>1. Stripped(p, h) = v
  <2> HIDE DEF R, A, B, F
  <2>1. [p EXCEPT !.required = R] = rec(R, p.achieved, p.failed, p.callbacks)
    BY DEF Shaped
  <2>2. [rec(R, p.achieved, p.failed, p.callbacks) EXCEPT !.achieved = A]
            = rec(R, A, p.failed, p.callbacks)
    OBVIOUS
  <2>3. [rec(R, A, p.failed, p.callbacks) EXCEPT !.failed = B] = rec(R, A, B, p.callbacks)
    OBVIOUS
  <2>4. [rec(R, A, B, p.callbacks) EXCEPT !.callbacks = F] = rec(R, A, B, F)
    OBVIOUS
  <2> HIDE DEF rec
  <2>5. [p EXCEPT !.required = R, !.achieved = A, !.failed = B, !.callbacks = F] = rec(R, A, B, F)
    BY <2>1, <2>2, <2>3, <2>4, Zenon
  <2> QED BY <2>5 DEF Stripped, R, A, B, F
<1>2. /\ F = [f \in Federates |-> F[f]] /\ F[h] = NoInvocation
      /\ \A f \in Federates \ {h} : F[f] = p.callbacks[f]
  BY DEF Shaped
<1> HIDE DEF F
<1>3. /\ v = [state |-> v.state, required |-> v.required, achieved |-> v.achieved,
              failed |-> v.failed, allMembers |-> v.allMembers, epoch |-> v.epoch,
              callbacks |-> v.callbacks]
      /\ v.callbacks = F /\ v.state = p.state /\ v.allMembers = p.allMembers
      /\ v.required = p.required \ {h} /\ v.achieved = p.achieved \ {h}
  OBVIOUS
<1> HIDE DEF v
<1>4. \A f \in Federates : /\ IsInvocation(F[f]) /\ F[f].synchronizedInvoked \in BOOLEAN
  <2>1. IsInvocation(NoInvocation) /\ NoInvocation.synchronizedInvoked = FALSE
    BY DEF IsInvocation, NoInvocation
  <2>2. \A f \in Federates : /\ IsInvocation(p.callbacks[f])
                             /\ p.callbacks[f].synchronizedInvoked \in BOOLEAN
    BY DEF Shaped, IsInvocation
  <2> QED BY <1>2, <2>1, <2>2, Zenon
<1>5. Shaped(v)
  BY <1>2, <1>3, <1>4, Zenon DEF Shaped, IsInvocation
<1> QED BY <1>1, <1>2, <1>3, <1>5, SMTT(30) DEF NoInvocation

\* What is left of a point after a resignation retires exactly if it is like one that does.
LEMMA LikeRetires ==
    ASSUME NEW p, NEW q, p.required \subseteq Federates, Like(p, q)
    PROVE  Retirable(p) <=> Retirable(q)
BY DEF Retirable, Like

\* Replacing one invocation of a point.
LEMMA MarkedShaped ==
    ASSUME NEW p, NEW h \in Federates, NEW i, Shaped(p), IsInvocation(i),
           i.synchronizedInvoked \in BOOLEAN
    PROVE  LET q == Marked(p, h, i) IN
           /\ Shaped(q) /\ q.state = p.state /\ q.required = p.required
           /\ q.achieved = p.achieved /\ q.allMembers = p.allMembers
           /\ q.callbacks[h] = i /\ \A f \in Federates \ {h} : q.callbacks[f] = p.callbacks[f]
<1> DEFINE F == [p.callbacks EXCEPT ![h] = i]
           v == [state |-> p.state, required |-> p.required, achieved |-> p.achieved,
                 failed |-> p.failed, allMembers |-> p.allMembers, epoch |-> p.epoch,
                 callbacks |-> F]
<1>1. Marked(p, h, i) = v
  <2> HIDE DEF F
  <2>1. [p EXCEPT !.callbacks = F] = v
    BY DEF Shaped
  <2> QED BY <2>1 DEF Marked, F
<1>2. /\ F = [f \in Federates |-> F[f]] /\ F[h] = i
      /\ \A f \in Federates \ {h} : F[f] = p.callbacks[f]
  BY DEF Shaped
<1> HIDE DEF F
<1>3. /\ v = [state |-> v.state, required |-> v.required, achieved |-> v.achieved,
              failed |-> v.failed, allMembers |-> v.allMembers, epoch |-> v.epoch,
              callbacks |-> v.callbacks]
      /\ v.callbacks = F /\ v.state = p.state /\ v.allMembers = p.allMembers
      /\ v.required = p.required /\ v.achieved = p.achieved
  OBVIOUS
<1> HIDE DEF v
<1>4. \A f \in Federates : /\ IsInvocation(F[f]) /\ F[f].synchronizedInvoked \in BOOLEAN
  <2>1. \A f \in Federates : /\ IsInvocation(p.callbacks[f])
                             /\ p.callbacks[f].synchronizedInvoked \in BOOLEAN
    BY DEF Shaped, IsInvocation
  <2> QED BY <1>2, <2>1, Zenon
<1>5. Shaped(v)
  BY <1>2, <1>3, <1>4, Zenon DEF Shaped, IsInvocation
<1> QED BY <1>1, <1>2, <1>3, <1>5, Zenon

Invoked(p, f) == p.callbacks[f].synchronizedInvoked

\* A point that is like one that waits does not retire.
LEMMA WaitsOn ==
    ASSUME NEW p, NEW q, NEW J \in SUBSET Federates, PointInv(p, J), Like(p, q)
    PROVE  ~Retirable(q)
BY DEF PointInv, Like, Retirable

\* The three marks a report can leave in an invocation record.
LEMMA Marks ==
    ASSUME NEW r, NEW t, IsInvocation(r)
    PROVE  LET entered == [r EXCEPT !.announceEntered = t]
               ended == [r EXCEPT !.announceInvoked = t]
               synced == [r EXCEPT !.synchronizedInvoked = t]
           IN  /\ IsInvocation(entered) /\ entered.synchronizedInvoked = r.synchronizedInvoked
               /\ IsInvocation(ended) /\ ended.synchronizedInvoked = r.synchronizedInvoked
               /\ IsInvocation(synced) /\ synced.synchronizedInvoked = t
<1> DEFINE rec(e, i, s) == [announce |-> r.announce, announceEntered |-> e, announceInvoked |-> i,
                            synchronized |-> r.synchronized, synchronizedInvoked |-> s]
<1>1. [r EXCEPT !.announceEntered = t] = rec(t, r.announceInvoked, r.synchronizedInvoked)
  BY DEF IsInvocation
<1>2. [r EXCEPT !.announceInvoked = t] = rec(r.announceEntered, t, r.synchronizedInvoked)
  BY DEF IsInvocation
<1>3. [r EXCEPT !.synchronizedInvoked = t] = rec(r.announceEntered, r.announceInvoked, t)
  BY DEF IsInvocation
<1>4. ASSUME NEW e, NEW i, NEW s
      PROVE  IsInvocation(rec(e, i, s)) /\ rec(e, i, s).synchronizedInvoked = s
  BY DEF IsInvocation
<1> HIDE DEF rec
<1> QED BY <1>1, <1>2, <1>3, <1>4, SMTT(30)


-----------------------------------------------------------------------------

Registers(P, Q, label, members, all) ==
    /\ label \in Labels \ DOMAIN P
    /\ DOMAIN Q = DOMAIN P \cup {label}
    /\ \A l \in DOMAIN P : Like(P[l], Q[l])
    /\ Shaped(Q[label])
    /\ Q[label].state = "announced" /\ Q[label].required = members
    /\ Q[label].achieved = {} /\ Q[label].allMembers = all
    /\ \A h \in Federates : ~Q[label].callbacks[h].synchronizedInvoked

\* RegisterBy creates a point for joined federates or changes no point.
LEMMA RegisterEffect ==
    ASSUME IInv, NEW h \in Federates, NEW label \in Labels, NEW requested \in SUBSET Federates,
           RegisterBy(h, label, requested)
    PROVE  /\ IsState(st') /\ AllShaped(st'.points) /\ UNCHANGED <<joined, nextHandle>>
           /\ \/ Quiet(st.points, st'.points)
              \/ \E members \in SUBSET joined :
                    /\ members # {} /\ (requested = {} => members = joined)
                    /\ Registers(st.points, st'.points, label, members, requested = {})
<1> DEFINE valid == requested = {} \/ requested \subseteq joined
           members == IF requested = {} THEN joined ELSE requested
           epoch == st.nextEpoch + 1
           P == [l \in DOMAIN st.points \cup {label} |->
                   IF l = label THEN newPoint(members, requested = {}, epoch) ELSE st.points[l]]
           created == [st EXCEPT !.nextEpoch = epoch, !.points = P]
           cbs == callbacksTo("registrationSucceeded", label, {h})
                      \o callbacksTo("announce", label, members)
           rej == callbacksTo("registrationFailed", label, {h})
<1>1. IsState(st) /\ AllShaped(st.points)
  BY DEF IInv, AllShaped, PointInv
<1>2. CASE label \in DOMAIN st.points \/ ~valid
  <2> HIDE DEF rej
  <2>1. transition(enqueue(st, rej), FALSE) /\ UNCHANGED <<joined, nextHandle>>
    BY <1>2, Zenon DEF RegisterBy, rej
  <2>2. /\ IsState(enqueue(st, rej)) /\ AllShaped(enqueue(st, rej).points)
        /\ Quiet(st.points, enqueue(st, rej).points)
    BY <1>1, EnqueueLike DEF Quiet
  <2>3. /\ IsState(st')
        /\ (st'.points = enqueue(st, rej).points) \/ (st'.points = st.points)
    BY <2>1, <2>2, <1>1, TransitionPoints, Zenon
  <2> QED BY <2>1, <2>2, <2>3, <1>1, QuietRefl, Zenon
<1>3. CASE ~(label \in DOMAIN st.points \/ ~valid)
  <2>1. transition(enqueue(created, cbs), FALSE) /\ UNCHANGED <<joined, nextHandle>>
        /\ h \in joined
    BY <1>3, Zenon DEF RegisterBy
  <2>2. members \in SUBSET joined /\ members # {} /\ (requested = {} => members = joined)
    BY <1>3, <2>1
  <2>3. created.points = P
    BY <1>1 DEF IsState
  <2> HIDE DEF members, epoch, valid
  <2>4. DOMAIN P = DOMAIN st.points \cup {label}
        /\ (\A l \in DOMAIN st.points : P[l] = st.points[l])
        /\ P[label] = newPoint(members, requested = {}, epoch)
    BY <1>3
  <2>5. AllShaped(P)
    <3>1. \A l \in DOMAIN P : Shaped(P[l])
      <4> HIDE DEF P
      <4> QED BY <2>4, <1>1, NewShaped, SMTT(30) DEF AllShaped
    <3>2. IsPoints(P)
      BY <1>1 DEF AllShaped, IsPoints
    <3> QED BY <3>1, <3>2 DEF AllShaped
  <2> HIDE DEF cbs, created, P
  <2>6. /\ IsState(enqueue(created, cbs)) /\ AllShaped(enqueue(created, cbs).points)
        /\ DOMAIN enqueue(created, cbs).points = DOMAIN P
        /\ \A l \in DOMAIN P : Like(P[l], enqueue(created, cbs).points[l])
    BY <2>3, <2>5, EnqueueLike, Zenon
  <2>7. Registers(st.points, enqueue(created, cbs).points, label, members, requested = {})
    <3>1. Like(newPoint(members, requested = {}, epoch), enqueue(created, cbs).points[label])
      BY <2>4, <2>6
    <3> DEFINE q == enqueue(created, cbs).points[label]
    <3>2. /\ Shaped(q) /\ q.state = "announced" /\ q.required = members
          /\ q.achieved = {} /\ q.allMembers = (requested = {})
          /\ \A f \in Federates : ~q.callbacks[f].synchronizedInvoked
      BY <3>1, NewLike
    <3>3. \A l \in DOMAIN st.points : Like(st.points[l], enqueue(created, cbs).points[l])
      BY <2>4, <2>6, Zenon
    <3> QED BY <1>3, <2>4, <2>6, <3>2, <3>3, Zenon DEF Registers
  <2>8. /\ IsState(st')
        /\ (st'.points = enqueue(created, cbs).points) \/ (st'.points = st.points)
    BY <2>1, <2>6, <1>1, TransitionPoints, Zenon
  <2> QED BY <2>1, <2>2, <2>6, <2>7, <2>8, <1>1, QuietRefl, Zenon
<1> QED BY <1>2, <1>3

Achieves(P, Q, label, h) ==
    /\ label \in DOMAIN P /\ DOMAIN Q = DOMAIN P
    /\ \A l \in DOMAIN P \ {label} : Like(P[l], Q[l])
    /\ h \in P[label].required \ P[label].achieved
    /\ Shaped(Q[label])
    /\ Q[label].required = P[label].required /\ Q[label].allMembers = P[label].allMembers
    /\ Q[label].achieved = P[label].achieved \cup {h}
    /\ Q[label].state = IF P[label].required \subseteq P[label].achieved \cup {h}
                        THEN "achieved" ELSE "announced"
    /\ \A f \in Federates : Q[label].callbacks[f].synchronizedInvoked
                                = P[label].callbacks[f].synchronizedInvoked

\* AchieveWith adds one federate to one point, and completes it if it was the last.
LEMMA AchieveEffect ==
    ASSUME IInv, NEW h \in Federates, NEW label \in Labels, NEW successfully \in BOOLEAN,
           AchieveWith(h, label, successfully)
    PROVE  /\ IsState(st') /\ AllShaped(st'.points) /\ UNCHANGED <<joined, nextHandle>>
           /\ Quiet(st.points, st'.points) \/ Achieves(st.points, st'.points, label, h)
<1> DEFINE p == st.points[label]
           f == IF successfully THEN p.failed ELSE p.failed \cup {h}
           q == Arrived(p, h, f)
           s == [st EXCEPT !.points[label] = q]
           c == complete(s, {label})
<1>1. IsState(st) /\ AllShaped(st.points)
  BY DEF IInv, AllShaped, PointInv
<1>2. /\ label \in DOMAIN st.points /\ h \in p.required \ p.achieved
      /\ transition(c, FALSE) /\ UNCHANGED <<joined, nextHandle>>
  BY Zenon DEF AchieveWith, Arrived
<1>3. PointInv(p, joined) /\ Shaped(p)
  BY <1>2 DEF IInv, PointInv
<1>4. p.state = "announced"
  BY <1>2, <1>3 DEF PointInv
<1> HIDE DEF f, p
<1>5. /\ Shaped(q) /\ q.state = "announced" /\ q.required = p.required
      /\ q.achieved = p.achieved \cup {h} /\ q.allMembers = p.allMembers
      /\ q.callbacks = p.callbacks
  BY <1>3, <1>4, ArrivedShaped, SMTT(30)
<1> HIDE DEF q
<1>6. /\ IsState(s) /\ AllShaped(s.points) /\ DOMAIN s.points = DOMAIN st.points
      /\ s.points[label] = q
      /\ \A l \in DOMAIN st.points \ {label} : s.points[l] = st.points[l]
  BY <1>1, <1>2, <1>5, SetPoint, SMTT(30)
<1> HIDE DEF s
<1>7. /\ IsState(c) /\ AllShaped(c.points) /\ DOMAIN c.points = DOMAIN s.points
      /\ \A l \in DOMAIN s.points :
            Like(IF l \in {label} THEN Completed(s.points[l]) ELSE s.points[l], c.points[l])
  BY <1>6, CompleteLike, Zenon
<1> HIDE DEF c
<1>8. Achieves(st.points, c.points, label, h)
  <2>1. Like(Completed(q), c.points[label])
    BY <1>2, <1>6, <1>7, Zenon
  <2>2. \A l \in DOMAIN st.points \ {label} : Like(st.points[l], c.points[l])
    BY <1>6, <1>7
  <2>3. /\ Completed(q).state = IF p.required \subseteq p.achieved \cup {h}
                                THEN "achieved" ELSE "announced"
        /\ Completed(q).required = p.required /\ Completed(q).achieved = p.achieved \cup {h}
        /\ Completed(q).allMembers = p.allMembers /\ Completed(q).callbacks = p.callbacks
    BY <1>5, CompletedShaped DEF Complete
  <2>4. LET t == c.points[label]
        IN  /\ Shaped(t) /\ t.state = Completed(q).state /\ t.required = p.required
            /\ t.achieved = p.achieved \cup {h} /\ t.allMembers = p.allMembers
            /\ \A g \in Federates : t.callbacks[g].synchronizedInvoked
                                       = p.callbacks[g].synchronizedInvoked
    BY <2>1, <2>3, Zenon DEF Like
  <2>5. DOMAIN c.points = DOMAIN st.points
    BY <1>6, <1>7
  <2> QED BY <1>2, <2>2, <2>3, <2>4, <2>5, Zenon DEF Achieves, p
<1>9. IsState(st') /\ ((st'.points = c.points) \/ (st'.points = st.points))
  BY <1>1, <1>2, <1>7, TransitionPoints, Zenon
<1> QED BY <1>1, <1>2, <1>7, <1>8, <1>9, QuietRefl, Zenon

Late(P, h) == {l \in DOMAIN P : P[l].allMembers /\ P[l].state = "announced" /\ h \notin P[l].required}

Joins(P, Q, h) ==
    /\ DOMAIN Q = DOMAIN P
    /\ \A l \in DOMAIN P \ Late(P, h) : Like(P[l], Q[l])
    /\ \A l \in Late(P, h) :
          /\ Shaped(Q[l]) /\ Q[l].state = "announced" /\ Q[l].allMembers = P[l].allMembers
          /\ Q[l].required = P[l].required \cup {h} /\ Q[l].achieved = P[l].achieved
          /\ \A f \in Federates : Q[l].callbacks[f].synchronizedInvoked
                                      = P[l].callbacks[f].synchronizedInvoked

\* FederateJoined adds the newcomer to the open points for all members.
LEMMA JoinEffect ==
    ASSUME IInv, NEW h \in Federates, FederateJoined(h)
    PROVE  IsState(st') /\ AllShaped(st'.points) /\ Joins(st.points, st'.points, h)
<1> DEFINE late == Late(st.points, h)
           order == sorted(late)
           P == [l \in DOMAIN st.points |->
                    IF l \in late THEN Needing(st.points[l], h) ELSE st.points[l]]
           s == [st EXCEPT !.points = P]
           cbs == FlattenSeq([i \in DOMAIN order |-> callbacksTo("announce", order[i], {h})])
           n == enqueue(s, cbs)
<1>1. IsState(st) /\ AllShaped(st.points)
  BY DEF IInv, AllShaped, PointInv
<1>2. transition(n, TRUE)
  BY Zenon DEF FederateJoined, Late
<1>3. IsState(s) /\ s.points = P
  BY <1>1, SMTT(30) DEF IsState
<1>4. /\ DOMAIN P = DOMAIN st.points /\ IsPoints(P)
      /\ \A l \in late : P[l] = Needing(st.points[l], h)
      /\ \A l \in DOMAIN st.points \ late : P[l] = st.points[l]
  BY <1>1 DEF AllShaped, IsPoints, Late
<1>5. late \subseteq DOMAIN st.points
  BY DEF Late
<1> HIDE DEF P, s, cbs, n
<1>6. AllShaped(P)
  <2>1. ASSUME NEW l \in DOMAIN st.points PROVE Shaped(P[l])
    BY <1>1, <1>4, NeedingShaped, SMTT(30) DEF AllShaped
  <2> QED BY <2>1, <1>4, Zenon DEF AllShaped
<1>7. /\ IsState(n) /\ AllShaped(n.points) /\ DOMAIN n.points = DOMAIN P
      /\ \A l \in DOMAIN P : Like(P[l], n.points[l])
  BY <1>3, <1>6, EnqueueLike, Zenon DEF n
<1>8. Joins(st.points, n.points, h)
  <2>1. \A l \in DOMAIN st.points \ late : Like(st.points[l], n.points[l])
    BY <1>4, <1>7, Zenon
  <2>2. ASSUME NEW l \in late
        PROVE  /\ Shaped(n.points[l]) /\ n.points[l].state = "announced"
               /\ n.points[l].allMembers = st.points[l].allMembers
               /\ n.points[l].required = st.points[l].required \cup {h}
               /\ n.points[l].achieved = st.points[l].achieved
               /\ \A f \in Federates : n.points[l].callbacks[f].synchronizedInvoked
                                           = st.points[l].callbacks[f].synchronizedInvoked
    <3>1. Like(Needing(st.points[l], h), n.points[l])
      BY <1>4, <1>5, <1>7, Zenon
    <3>2. Shaped(st.points[l]) /\ st.points[l].state = "announced" /\ st.points[l].allMembers
      BY <1>1, <1>5 DEF AllShaped, Late
    <3>3. LET q == Needing(st.points[l], h) IN
          /\ q.state = "announced" /\ q.required = st.points[l].required \cup {h}
          /\ q.achieved = st.points[l].achieved /\ q.allMembers = st.points[l].allMembers
          /\ q.callbacks = st.points[l].callbacks
      BY <3>2, NeedingShaped, ZenonT(40)
    <3> QED BY <3>1, <3>3, SMTT(30) DEF Like
  <2> QED BY <1>4, <1>7, <2>1, <2>2, Zenon DEF Joins
<1>9. IsState(st') /\ st'.points = n.points
  BY <1>1, <1>2, <1>7, TransitionPoints, Zenon
<1> QED BY <1>7, <1>8, <1>9, Zenon

Resigns(P, Q, h) ==
    LET after(l) == Completed(Stripped(P[l], h))
    IN  /\ DOMAIN Q = {l \in DOMAIN P : ~Retirable(after(l))}
        /\ \A l \in DOMAIN Q : Like(after(l), Q[l])

\* FederateResigned takes the federate out of every point, completes the points
\* that waited only for it and drops the ones that nobody has to report any more.
LEMMA ResignEffect ==
    ASSUME IInv, NEW h \in Federates, FederateResigned(h)
    PROVE  IsState(st') /\ AllShaped(st'.points) /\ Resigns(st.points, st'.points, h)
<1> DEFINE P == [l \in DOMAIN st.points |-> Stripped(st.points[l], h)]
           pend == SelectSeq(st.pending, LAMBDA c : c.recipient # h)
           obl == Without(st.obligations, {k \in DOMAIN st.obligations : st.obligations[k].recipient = h})
           kept == [st EXCEPT !.points = P, !.pending = pend, !.obligations = obl]
           s == [points |-> P, nextSequence |-> st.nextSequence, nextEpoch |-> st.nextEpoch,
                 pending |-> pend, obligations |-> obl]
           c == complete(s, DOMAIN st.points)
           n == retire(c, DOMAIN st.points)
<1>1. IsState(st) /\ AllShaped(st.points)
  BY DEF IInv, AllShaped, PointInv
<1>2. kept = s
  <2> DEFINE rec(a, b, d) == [points |-> a, nextSequence |-> st.nextSequence,
                              nextEpoch |-> st.nextEpoch, pending |-> b, obligations |-> d]
  <2> HIDE DEF P, pend, obl
  <2>1. [st EXCEPT !.points = P] = rec(P, st.pending, st.obligations)
    BY <1>1 DEF IsState
  <2>2. [rec(P, st.pending, st.obligations) EXCEPT !.pending = pend] = rec(P, pend, st.obligations)
    OBVIOUS
  <2>3. [rec(P, pend, st.obligations) EXCEPT !.obligations = obl] = rec(P, pend, obl)
    OBVIOUS
  <2>4. rec(P, pend, obl) = s
    OBVIOUS
  <2> HIDE DEF rec, s
  <2> QED BY <2>1, <2>2, <2>3, <2>4, Zenon
<1>3. transition(n, TRUE)
  <2>1. transition(retire(complete(kept, DOMAIN st.points), DOMAIN st.points), TRUE)
    BY Zenon DEF FederateResigned
  <2> HIDE DEF kept, s
  <2> QED BY <1>2, <2>1, Zenon
<1>4. IsState(s) /\ s.points = P
  BY DEF IsState
<1>5. /\ DOMAIN P = DOMAIN st.points /\ IsPoints(P)
      /\ \A l \in DOMAIN st.points : P[l] = Stripped(st.points[l], h)
  BY <1>1 DEF AllShaped, IsPoints
<1> HIDE DEF P, pend, obl, kept, s
<1>6. AllShaped(P)
  <2>1. ASSUME NEW l \in DOMAIN st.points PROVE Shaped(P[l])
    BY <1>1, <1>5, StrippedShaped, SMTT(30) DEF AllShaped
  <2> QED BY <2>1, <1>5, Zenon DEF AllShaped
<1>7. /\ IsState(c) /\ AllShaped(c.points) /\ DOMAIN c.points = DOMAIN P
      /\ \A l \in DOMAIN st.points : Like(Completed(P[l]), c.points[l])
  BY <1>4, <1>5, <1>6, CompleteLike, Zenon
<1> HIDE DEF c
<1>8. /\ IsState(n) /\ AllShaped(n.points)
      /\ DOMAIN n.points = {l \in DOMAIN st.points : ~Retirable(c.points[l])}
      /\ \A l \in DOMAIN n.points : n.points[l] = c.points[l]
  BY <1>5, <1>7, RetireKeeps, SMTT(30)
<1> HIDE DEF n
<1>9. ASSUME NEW l \in DOMAIN st.points
      PROVE  /\ Like(Completed(Stripped(st.points[l], h)), c.points[l])
             /\ Retirable(Completed(Stripped(st.points[l], h))) <=> Retirable(c.points[l])
  <2>1. Like(Completed(Stripped(st.points[l], h)), c.points[l])
    BY <1>5, <1>7, Zenon
  <2>2. Completed(Stripped(st.points[l], h)).required \subseteq Federates
    <3>1. Shaped(st.points[l]) /\ st.points[l].required \subseteq Federates
      BY DEF IInv, PointInv
    <3>2. Shaped(Stripped(st.points[l], h))
          /\ Stripped(st.points[l], h).required \subseteq Federates
      BY <3>1, StrippedShaped, SMTT(30)
    <3> QED BY <3>2, CompletedShaped, Zenon
  <2> QED BY <2>1, <2>2, LikeRetires, Zenon
<1>10. Resigns(st.points, n.points, h)
  BY <1>8, <1>9 DEF Resigns
<1>11. IsState(st') /\ st'.points = n.points
  BY <1>1, <1>3, <1>8, TransitionPoints, Zenon
<1> QED BY <1>8, <1>10, <1>11, Zenon

Hears(P, Q, label, h) ==
    LET p == P[label]
        last == \A f \in p.required : f = h \/ Invoked(p, f)
    IN  /\ label \in DOMAIN P /\ p.state = "achieved"
        /\ DOMAIN Q = IF last THEN DOMAIN P \ {label} ELSE DOMAIN P
        /\ \A l \in DOMAIN P \ {label} : Like(P[l], Q[l])
        /\ ~last => /\ Shaped(Q[label]) /\ Q[label].state = p.state
                    /\ Q[label].required = p.required /\ Q[label].achieved = p.achieved
                    /\ Q[label].allMembers = p.allMembers
                    /\ \A f \in Federates : Invoked(Q[label], f) = (f = h \/ Invoked(p, f))

\* Marking an invocation without its synchronized report shows nothing.
LEMMA MarkQuiet ==
    ASSUME IInv, NEW s, IsState(s), s.points = st.points, NEW label \in DOMAIN st.points,
           NEW h \in Federates, NEW i, IsInvocation(i),
           i.synchronizedInvoked = st.points[label].callbacks[h].synchronizedInvoked
    PROVE  LET n == retire([s EXCEPT !.points[label] = Marked(st.points[label], h, i)], {label})
           IN  IsState(n) /\ AllShaped(n.points) /\ Quiet(st.points, n.points)
<1> DEFINE p == st.points[label]
           q == Marked(p, h, i)
           t == [s EXCEPT !.points[label] = q]
           n == retire(t, {label})
<1>1. AllShaped(st.points) /\ PointInv(p, joined) /\ Shaped(p) /\ joined \in SUBSET Federates
  BY DEF IInv, AllShaped, PointInv
<1>2. i.synchronizedInvoked \in BOOLEAN
  BY <1>1, Zenon DEF Shaped
<1>3. Like(p, q) /\ Shaped(q)
  <2>1. /\ Shaped(q) /\ q.state = p.state /\ q.required = p.required
        /\ q.achieved = p.achieved /\ q.allMembers = p.allMembers
        /\ q.callbacks[h] = i /\ \A f \in Federates \ {h} : q.callbacks[f] = p.callbacks[f]
    <3> HIDE DEF p, q
    <3>1. Shaped(p) /\ i.synchronizedInvoked \in BOOLEAN
      BY <1>1, <1>2, Zenon
    <3> QED BY <3>1, MarkedShaped, SMTT(30) DEF q
  <2> HIDE DEF q
  <2> QED BY <2>1, Zenon DEF Like
<1> HIDE DEF q
<1>4. /\ IsState(t) /\ AllShaped(t.points) /\ DOMAIN t.points = DOMAIN st.points
      /\ t.points[label] = q
      /\ \A l \in DOMAIN st.points \ {label} : t.points[l] = st.points[l]
  BY <1>1, <1>3, SetPoint, SMTT(30)
<1> HIDE DEF t
<1>5. /\ IsState(n) /\ AllShaped(n.points)
      /\ DOMAIN n.points = {l \in DOMAIN t.points : ~(l \in {label} /\ Retirable(t.points[l]))}
      /\ \A l \in DOMAIN n.points : n.points[l] = t.points[l]
  BY <1>4, RetireKeeps, ZenonT(40)
<1>6. ~Retirable(q)
  BY <1>1, <1>3, WaitsOn, Zenon
<1> HIDE DEF n
<1>7. DOMAIN n.points = DOMAIN st.points
  BY <1>4, <1>5, <1>6, Zenon
<1>8. \A l \in DOMAIN st.points : Like(st.points[l], n.points[l])
  <2>1. \A l \in DOMAIN st.points : Like(st.points[l], st.points[l])
    BY <1>1, Zenon DEF AllShaped, Like
  <2> QED BY <1>3, <1>4, <1>5, <1>7, <2>1, Zenon
<1> QED BY <1>5, <1>7, <1>8, ZenonT(40) DEF Quiet, n, t, q

\* The synchronized report of one federate, the last one retiring the point.
LEMMA MarkHears ==
    ASSUME IInv, NEW s, IsState(s), s.points = st.points, NEW label \in DOMAIN st.points,
           NEW h \in Federates, NEW i, IsInvocation(i), i.synchronizedInvoked = TRUE,
           st.points[label].state = "achieved"
    PROVE  LET n == retire([s EXCEPT !.points[label] = Marked(st.points[label], h, i)], {label})
           IN  IsState(n) /\ AllShaped(n.points) /\ Hears(st.points, n.points, label, h)
<1> DEFINE p == st.points[label]
           q == Marked(p, h, i)
           t == [s EXCEPT !.points[label] = q]
           n == retire(t, {label})
           last == \A f \in p.required : f = h \/ Invoked(p, f)
<1>1. /\ AllShaped(st.points) /\ PointInv(p, joined) /\ Shaped(p)
      /\ joined \in SUBSET Federates /\ p.required \subseteq Federates
  BY DEF IInv, AllShaped, PointInv
<1>2. /\ Shaped(q) /\ q.state = p.state /\ q.required = p.required
      /\ q.achieved = p.achieved /\ q.allMembers = p.allMembers
      /\ q.callbacks[h] = i /\ \A f \in Federates \ {h} : q.callbacks[f] = p.callbacks[f]
  <2> HIDE DEF p, q
  <2>1. Shaped(p) /\ i.synchronizedInvoked \in BOOLEAN
    BY <1>1, Zenon
  <2> QED BY <2>1, MarkedShaped DEF q
<1> HIDE DEF q, p
<1>3. \A f \in Federates : Invoked(q, f) = (f = h \/ Invoked(p, f))
  BY <1>1, <1>2, Zenon DEF Invoked, Shaped
<1>4. Retirable(q) <=> last
  BY <1>1, <1>2, <1>3, Zenon DEF Retirable, Invoked, p
<1>5. /\ IsState(t) /\ AllShaped(t.points) /\ DOMAIN t.points = DOMAIN st.points
      /\ t.points[label] = q
      /\ \A l \in DOMAIN st.points \ {label} : t.points[l] = st.points[l]
  BY <1>1, <1>2, SetPoint, SMTT(30)
<1> HIDE DEF t
<1>6. /\ IsState(n) /\ AllShaped(n.points)
      /\ DOMAIN n.points = {l \in DOMAIN t.points : ~(l \in {label} /\ Retirable(t.points[l]))}
      /\ \A l \in DOMAIN n.points : n.points[l] = t.points[l]
  BY <1>5, RetireKeeps, SMTT(30)
<1> HIDE DEF n
<1>7. DOMAIN n.points = IF last THEN DOMAIN st.points \ {label} ELSE DOMAIN st.points
  <2> HIDE DEF last
  <2> QED BY <1>4, <1>5, <1>6, Zenon
<1>8. \A l \in DOMAIN st.points \ {label} : Like(st.points[l], n.points[l])
  <2>1. \A l \in DOMAIN st.points : Like(st.points[l], st.points[l])
    BY <1>1, Zenon DEF AllShaped, Like
  <2> HIDE DEF last
  <2> QED BY <1>5, <1>6, <1>7, <2>1, Zenon
<1>9. ~last => n.points[label] = q
  <2> HIDE DEF last
  <2> QED BY <1>5, <1>6, <1>7, Zenon
<1>10. Hears(st.points, n.points, label, h)
  BY <1>2, <1>3, <1>7, <1>8, <1>9, SMTT(30) DEF Hears, p
<1> QED BY <1>6, <1>10, Zenon DEF n, t, q, p

\* A report shows nothing, or it is the synchronized report of its sender.
LEMMA ReportEffect ==
    ASSUME IInv, NEW h \in Federates, Report(h)
    PROVE  /\ IsState(st') /\ AllShaped(st'.points) /\ UNCHANGED <<joined, nextHandle>>
           /\ \/ Quiet(st.points, st'.points)
              \/ \E label \in Labels : Hears(st.points, st'.points, label, h)
<1>1. PICK k \in DOMAIN st.obligations, entry \in BOOLEAN :
         st.obligations[k].recipient = h /\ ObserveCallback(k, entry)
  BY Zenon DEF Report
<1> DEFINE c == st.obligations[k]
           next == IF entry THEN [st EXCEPT !.obligations = [@ EXCEPT ![k].entered = TRUE]]
                            ELSE [st EXCEPT !.obligations = Without(@, {k})]
           p == st.points[c.label]
           inv == p.callbacks[h]
           marked(i) == retire([next EXCEPT !.points[c.label] = Marked(p, h, i)], {c.label})
<1>2. IsState(st) /\ AllShaped(st.points) /\ Quiet(st.points, st.points)
  BY QuietRefl DEF IInv, AllShaped, PointInv
<1>3. IsState(next) /\ next.points = st.points
  <2> DEFINE A == [st.obligations EXCEPT ![k].entered = TRUE]
             B == Without(st.obligations, {k})
  <2>1. next = IF entry THEN [st EXCEPT !.obligations = A] ELSE [st EXCEPT !.obligations = B]
    OBVIOUS
  <2> HIDE DEF A, B, next
  <2> QED BY <1>2, <2>1, Zenon DEF IsState
<1>4. /\ UNCHANGED <<joined, nextHandle>>
      /\ st' = IF c.label \in DOMAIN st.points /\ st.points[c.label].epoch = c.epoch
               THEN observePointCallback(next, c, entry) ELSE next
  BY <1>1, ZenonT(40) DEF ObserveCallback
<1> HIDE DEF next
<1>5. CASE ~(c.label \in DOMAIN st.points /\ st.points[c.label].epoch = c.epoch)
  BY <1>2, <1>3, <1>4, <1>5, Zenon
<1>6. CASE c.label \in DOMAIN st.points /\ st.points[c.label].epoch = c.epoch
  <2>1. Shaped(p) /\ IsInvocation(inv) /\ inv.synchronizedInvoked \in BOOLEAN /\ c.label \in Labels
    BY <1>2, <1>6, Zenon DEF AllShaped, Shaped, IsInvocation, IsPoints
  <2> DEFINE Outcome(o) == /\ IsState(o) /\ AllShaped(o.points)
                           /\ \/ Quiet(st.points, o.points)
                              \/ \E label \in Labels : Hears(st.points, o.points, label, h)
             entered == [inv EXCEPT !.announceEntered = TRUE]
             ended == [inv EXCEPT !.announceInvoked = TRUE]
             synced == [inv EXCEPT !.synchronizedInvoked = TRUE]
  <2>2. /\ IsInvocation(entered) /\ entered.synchronizedInvoked = inv.synchronizedInvoked
        /\ IsInvocation(ended) /\ ended.synchronizedInvoked = inv.synchronizedInvoked
        /\ IsInvocation(synced) /\ synced.synchronizedInvoked = TRUE
    <3> HIDE DEF inv
    <3> QED BY <2>1, Marks, Zenon DEF entered, ended, synced
  <2> HIDE DEF entered, ended, synced
  <2>3. Outcome(marked(entered)) /\ Outcome(marked(ended)) /\ Outcome(marked(inv))
    BY <1>3, <1>6, <2>1, <2>2, MarkQuiet, ZenonT(40)
  <2>4. p.state = "achieved" => Outcome(marked(synced))
    BY <1>3, <1>6, <2>1, <2>2, MarkHears, Zenon
  <2>5. Outcome(next) /\ Outcome(st)
    BY <1>2, <1>3, Zenon
  <2>6. st' = observePointCallback(next, c, entry)
    BY <1>4, <1>6, Zenon
  <2>7. \/ st' \in {marked(entered), marked(ended), marked(inv), next, st}
        \/ p.state = "achieved" /\ st' = marked(synced)
    <3> HIDE DEF Outcome
    <3> QED BY <1>1, <1>3, <2>6, Zenon DEF observePointCallback, entered, ended, synced
  <2>8. Outcome(st')
    <3> HIDE DEF Outcome, marked, p
    <3> QED BY <2>3, <2>4, <2>5, <2>7, Zenon
  <2> QED BY <1>4, <2>8, Zenon
<1> QED BY <1>5, <1>6, Zenon


-----------------------------------------------------------------------------

\* A quiet effect keeps the invariant of every point.
LEMMA QuietKeeps ==
    ASSUME NEW P, NEW Q, NEW J \in SUBSET Federates, Quiet(P, Q),
           \A l \in DOMAIN P : PointInv(P[l], J)
    PROVE  \A l \in DOMAIN Q : PointInv(Q[l], J)
BY LikeKeeps, Zenon DEF Quiet

AllInv(P, J) == \A l \in DOMAIN P : PointInv(P[l], J)

\* A new point waits for its members.
LEMMA RegistersKeeps ==
    ASSUME NEW P, NEW Q, NEW J \in SUBSET Federates, NEW label, NEW members \in SUBSET J,
           NEW all \in BOOLEAN, AllInv(P, J), members # {}, all => members = J,
           Registers(P, Q, label, members, all)
    PROVE  AllInv(Q, J)
<1>1. ASSUME NEW l \in DOMAIN P PROVE PointInv(Q[l], J)
  BY <1>1, LikeKeeps DEF AllInv, Registers
<1>2. PointInv(Q[label], J)
  BY DEF Registers, PointInv
<1> QED BY <1>1, <1>2 DEF AllInv, Registers

\* An achievement completes the point exactly when it was the last one.
LEMMA AchievesKeeps ==
    ASSUME NEW P, NEW Q, NEW J \in SUBSET Federates, NEW label, NEW h, AllInv(P, J),
           Achieves(P, Q, label, h)
    PROVE  AllInv(Q, J)
<1>1. ASSUME NEW l \in DOMAIN P \ {label} PROVE PointInv(Q[l], J)
  BY <1>1, LikeKeeps, Zenon DEF AllInv, Achieves
<1>2. PointInv(Q[label], J)
  BY DEF Achieves, PointInv, AllInv
<1> QED BY <1>1, <1>2 DEF AllInv, Achieves

\* A newcomer is missing from the open points for all members, and only there.
LEMMA JoinsKeeps ==
    ASSUME NEW P, NEW Q, NEW J \in SUBSET Federates, NEW h \in Federates \ J, AllInv(P, J),
           Joins(P, Q, h)
    PROVE  AllInv(Q, J \cup {h})
<1>1. ASSUME NEW l \in Late(P, h) PROVE PointInv(Q[l], J \cup {h})
  <2>1. PointInv(P[l], J)
    BY DEF AllInv, Late
  <2>2. /\ P[l].state = "announced" /\ P[l].allMembers
        /\ Shaped(Q[l]) /\ Q[l].state = "announced" /\ Q[l].allMembers = TRUE
        /\ Q[l].required = P[l].required \cup {h} /\ Q[l].achieved = P[l].achieved
        /\ \A f \in Federates : Q[l].callbacks[f].synchronizedInvoked
                                    = P[l].callbacks[f].synchronizedInvoked
    BY <2>1 DEF Joins, Late, PointInv
  <2>3. /\ P[l].required = J /\ P[l].achieved \subseteq J
        /\ \A f \in Federates : ~P[l].callbacks[f].synchronizedInvoked
    BY <2>1, <2>2, Zenon DEF PointInv
  <2>4. h \in Q[l].required /\ h \notin Q[l].achieved
    BY <2>2, <2>3, Zenon
  <2> QED BY <2>2, <2>3, <2>4, Zenon DEF PointInv
<1>2. ASSUME NEW l \in DOMAIN P \ Late(P, h) PROVE PointInv(Q[l], J \cup {h})
  <2>1. PointInv(P[l], J) /\ Like(P[l], Q[l])
    BY DEF AllInv, Joins
  <2>2. PointInv(Q[l], J)
    BY <2>1, LikeKeeps, Zenon
  <2>3. ~(Q[l].state = "announced" /\ Q[l].allMembers)
    BY <2>1 DEF Late, Like, PointInv
  <2> QED BY <2>2, <2>3, Zenon DEF PointInv
<1>3. DOMAIN Q = DOMAIN P
  BY DEF Joins
<1> QED BY <1>1, <1>2, <1>3, Zenon DEF AllInv

\* A point left by a federate completes if it waited only for that one, and goes
\* on waiting otherwise; it stays only if it waits for somebody.
LEMMA ResignsKeeps ==
    ASSUME NEW P, NEW Q, NEW J \in SUBSET Federates, NEW h \in Federates, AllInv(P, J),
           Resigns(P, Q, h)
    PROVE  AllInv(Q, J \ {h})
<1> SUFFICES ASSUME NEW l \in DOMAIN Q PROVE PointInv(Q[l], J \ {h})
  BY DEF AllInv
<1> DEFINE p == P[l]
           s == Stripped(p, h)
           c == Completed(s)
<1>1. PointInv(p, J) /\ ~Retirable(c) /\ Like(c, Q[l])
  BY DEF Resigns, AllInv
<1> HIDE DEF p
<1>2. /\ Shaped(s) /\ s.state = p.state /\ s.required = p.required \ {h}
      /\ s.achieved = p.achieved \ {h} /\ s.allMembers = p.allMembers
      /\ ~s.callbacks[h].synchronizedInvoked
      /\ \A f \in Federates \ {h} : s.callbacks[f] = p.callbacks[f]
  BY <1>1, StrippedShaped, Zenon DEF PointInv
<1> HIDE DEF s
<1>3. /\ Shaped(c) /\ c.state = IF Complete(s) THEN "achieved" ELSE s.state
      /\ c.required = s.required /\ c.achieved = s.achieved
      /\ c.allMembers = s.allMembers /\ c.callbacks = s.callbacks
  BY <1>2, CompletedShaped, Zenon
<1> HIDE DEF c
<1>4. Complete(s) <=> p.state = "announced" /\ p.required \ {h} \subseteq p.achieved \ {h}
  BY <1>2 DEF Complete
<1>5. /\ c.state \in {"announced", "achieved"} /\ c.allMembers \in BOOLEAN
      /\ c.required \subseteq J \ {h} /\ c.achieved \subseteq c.required
  BY <1>1, <1>2, <1>3, Zenon DEF PointInv
<1>6. (c.state = "announced") <=> ~(c.required \subseteq c.achieved)
  BY <1>1, <1>2, <1>3, <1>4, Zenon DEF PointInv
<1>7. c.state = "announced" /\ c.allMembers => c.required = J \ {h}
  BY <1>1, <1>2, <1>3, <1>4, Zenon DEF PointInv
<1>8. c.state = "announced" => \A f \in Federates : ~c.callbacks[f].synchronizedInvoked
  BY <1>1, <1>2, <1>3, <1>4, Zenon DEF PointInv
<1>9. c.state = "achieved" => \E f \in c.required : ~c.callbacks[f].synchronizedInvoked
  BY <1>1, Zenon DEF Retirable
<1>10. PointInv(c, J \ {h})
  BY <1>3, <1>5, <1>6, <1>7, <1>8, <1>9, Zenon DEF PointInv
<1> QED BY <1>1, <1>10, LikeKeeps, Zenon

\* A point stays until the last synchronized report.
LEMMA HearsKeeps ==
    ASSUME NEW P, NEW Q, NEW J \in SUBSET Federates, NEW label, NEW h \in Federates,
           AllInv(P, J), Hears(P, Q, label, h)
    PROVE  AllInv(Q, J)
<1>1. ASSUME NEW l \in DOMAIN P \ {label} PROVE PointInv(Q[l], J)
  BY <1>1, LikeKeeps, Zenon DEF AllInv, Hears
<1>2. ASSUME label \in DOMAIN Q PROVE PointInv(Q[label], J)
  <2>1. PointInv(P[label], J)
    BY DEF AllInv, Hears
  <2> QED BY <1>2, <2>1, Zenon DEF Hears, PointInv, Invoked
<1>3. DOMAIN Q \subseteq DOMAIN P
  BY DEF Hears
<1> QED BY <1>1, <1>2, <1>3, ZenonT(40) DEF AllInv

\* IInv in terms of the points, and back.
LEMMA Opened ==
    ASSUME IInv
    PROVE  /\ IsState(st) /\ AllShaped(st.points) /\ AllInv(st.points, joined)
           /\ joined \in SUBSET Federates /\ nextHandle \in Nat \ {0}
           /\ \A h \in joined : h < nextHandle
BY DEF IInv, AllShaped, AllInv, PointInv

\* The primed form of the invariant from its parts.
LEMMA Closed ==
    ASSUME IsState(st'), AllShaped(st'.points), AllInv(st'.points, joined'),
           joined' \in SUBSET Federates, nextHandle' \in Nat \ {0},
           \A h \in joined' : h < nextHandle'
    PROVE  IInv'
BY DEF IInv, AllShaped, AllInv, PointInv

\* The invariant holds at the start: there are no points.
LEMMA InitInv == Init => IInv
<1> SUFFICES ASSUME Init PROVE IInv
  OBVIOUS
<1>1. IsState(st) /\ st.points = << >>
  BY DEF Init, emptyFederationState, IsState
<1>2. IsPoints(st.points) /\ DOMAIN st.points = {}
  BY <1>1 DEF IsPoints
<1>3. joined \subseteq Federates /\ nextHandle \in Nat \ {0} /\ \A h \in joined : h < nextHandle
  BY BoundsAssumption DEF Init, Federates
<1> QED BY <1>1, <1>2, <1>3, Zenon DEF IInv

\* A step that leaves the roster alone and shows nothing keeps the invariant.
LEMMA QuietStep ==
    ASSUME IInv, IsState(st'), AllShaped(st'.points), UNCHANGED <<joined, nextHandle>>,
           AllInv(st'.points, joined)
    PROVE  IInv'
BY Opened, Closed

\* Handing over pending callbacks changes no point.
LEMMA RetryEffect ==
    ASSUME IInv, RetryPending
    PROVE  IsState(st') /\ st'.points = st.points /\ UNCHANGED <<joined, nextHandle>>
BY Opened, Zenon DEF RetryPending, IsState

\* Destroying an empty federation finds no points: nobody is left whom one could need.
LEMMA DestroyEffect ==
    ASSUME IInv, OnFederationDestroyed
    PROVE  /\ IsState(st') /\ AllShaped(st'.points) /\ UNCHANGED <<joined, nextHandle>>
           /\ DOMAIN st.points = {} /\ DOMAIN st'.points = {}
<1>1. IsState(st') /\ st'.points = << >> /\ joined = {} /\ UNCHANGED <<joined, nextHandle>>
  BY DEF OnFederationDestroyed, emptyFederationState, IsState
<1>2. AllShaped(st'.points) /\ DOMAIN st'.points = {}
  BY <1>1 DEF AllShaped, IsPoints
<1>3. ASSUME NEW l \in DOMAIN st.points PROVE FALSE
  BY <1>1, Opened, Zenon DEF AllInv, PointInv
<1> QED BY <1>1, <1>2, <1>3, Zenon

\* Every step keeps the invariant.
LEMMA NextInv == IInv /\ [Next]_vars => IInv'
<1> SUFFICES ASSUME IInv, [Next]_vars PROVE IInv'
  OBVIOUS
<1> USE Opened
<1>1. CASE Register
  <2>1. PICK h \in Federates, label \in Labels, requested \in SUBSET Federates :
           RegisterBy(h, label, requested)
    BY <1>1, BoundsAssumption, ZenonT(40) DEF Register, Federates
  <2>2. /\ IsState(st') /\ AllShaped(st'.points) /\ UNCHANGED <<joined, nextHandle>>
        /\ \/ Quiet(st.points, st'.points)
           \/ \E members \in SUBSET joined :
                 /\ members # {} /\ (requested = {} => members = joined)
                 /\ Registers(st.points, st'.points, label, members, requested = {})
    BY <2>1, RegisterEffect, Zenon
  <2>3. AllInv(st'.points, joined)
    <3>1. CASE Quiet(st.points, st'.points)
      BY <3>1, QuietKeeps, Zenon DEF AllInv
    <3>2. ASSUME NEW members \in SUBSET joined, members # {}, requested = {} => members = joined,
                 Registers(st.points, st'.points, label, members, requested = {})
          PROVE  AllInv(st'.points, joined)
      BY <3>2, RegistersKeeps, Zenon
    <3> QED BY <2>2, <3>1, <3>2, ZenonT(40)
  <2> QED BY <2>2, <2>3, QuietStep, Zenon
<1>2. ASSUME NEW h \in Federates, Achieve(h) PROVE IInv'
  <2>1. PICK label \in Labels : AchieveWith(h, label, h \notin Failing)
    BY <1>2, Zenon DEF Achieve
  <2>2. /\ IsState(st') /\ AllShaped(st'.points) /\ UNCHANGED <<joined, nextHandle>>
        /\ Quiet(st.points, st'.points) \/ Achieves(st.points, st'.points, label, h)
    BY <2>1, AchieveEffect, ZenonT(40)
  <2>3. AllInv(st'.points, joined)
    BY <2>2, QuietKeeps, AchievesKeeps, Zenon DEF AllInv
  <2> QED BY <2>2, <2>3, QuietStep, Zenon
<1>3. ASSUME NEW h \in Federates, Report(h) PROVE IInv'
  <2>1. /\ IsState(st') /\ AllShaped(st'.points) /\ UNCHANGED <<joined, nextHandle>>
        /\ \/ Quiet(st.points, st'.points)
           \/ \E label \in Labels : Hears(st.points, st'.points, label, h)
    BY <1>3, ReportEffect, Zenon
  <2>2. AllInv(st'.points, joined)
    BY <2>1, QuietKeeps, HearsKeeps, Zenon DEF AllInv
  <2> QED BY <2>1, <2>2, QuietStep, Zenon
<1>4. ASSUME NEW h \in Federates, Resign(h) PROVE IInv'
  <2>1. joined' = joined \ {h} /\ nextHandle' = nextHandle /\ FederateResigned(h)
    BY <1>4, Zenon DEF Resign
  <2>2. IsState(st') /\ AllShaped(st'.points) /\ Resigns(st.points, st'.points, h)
    BY <2>1, ResignEffect, Zenon
  <2>3. AllInv(st'.points, joined')
    BY <2>1, <2>2, ResignsKeeps, Zenon
  <2> QED BY <2>1, <2>2, <2>3, Closed, Zenon
<1>5. CASE Join
  <2>1. /\ joined' = joined \cup {nextHandle} /\ nextHandle' = nextHandle + 1
        /\ FederateJoined(nextHandle) /\ nextHandle \in Federates \ joined
    BY <1>5, BoundsAssumption, SMTT(30) DEF Join, Federates
  <2>2. IsState(st') /\ AllShaped(st'.points) /\ Joins(st.points, st'.points, nextHandle)
    BY <2>1, JoinEffect, Zenon
  <2>3. AllInv(st'.points, joined')
    BY <2>1, <2>2, JoinsKeeps, Zenon
  <2>4. /\ joined' \in SUBSET Federates /\ nextHandle' \in Nat \ {0}
        /\ \A h \in joined' : h < nextHandle'
    BY <2>1, SMTT(30) DEF Federates
  <2> QED BY <2>2, <2>3, <2>4, Closed, Zenon
<1>6. CASE OnFederationDestroyed
  BY <1>6, DestroyEffect, QuietStep, Zenon DEF AllInv
<1>7. CASE RetryPending
  BY <1>7, RetryEffect, QuietStep, Zenon
<1>8. CASE UNCHANGED vars
  BY <1>8, QuietStep, Zenon DEF vars
<1> QED BY <1>1, <1>2, <1>3, <1>4, <1>5, <1>6, <1>7, <1>8, Zenon DEF Next

\* For every number of federates and labels, whatever the outbox refuses and
\* however reports are ordered, IInv is an invariant.
THEOREM Inductive == Spec => []IInv
BY InitInv, NextInv, PTL DEF Spec

\* For every number of federates and labels, a point always waits exactly for
\* the joined federates it still needs (BarrierWaits).
THEOREM Waits == Spec => []BarrierWaits
<1>1. IInv => BarrierWaits
  BY DEF IInv, PointInv, BarrierWaits
<1> QED BY <1>1, Inductive, PTL


-----------------------------------------------------------------------------

\* The mapping, label by label, for the points P.
Ph(P, l) == IF l \notin DOMAIN P THEN "idle"
            ELSE IF P[l].state = "announced" THEN "open" ELSE "released"
Ne(P, l) == IF l \in DOMAIN P THEN P[l].required ELSE {}
Do(P, l) == IF l \in DOMAIN P THEN P[l].achieved ELSE {}
He(P, l) == IF l \in DOMAIN P THEN {h \in P[l].required : Invoked(P[l], h)} ELSE {}

Same(P, Q, l) == Ph(Q, l) = Ph(P, l) /\ Ne(Q, l) = Ne(P, l) /\ Do(Q, l) = Do(P, l)
                 /\ He(Q, l) = He(P, l)

\* The variables of the barrier are the mapping of the points.
LEMMA Mapped ==
    /\ phase = [l \in Labels |-> Ph(st.points, l)] /\ need = [l \in Labels |-> Ne(st.points, l)]
    /\ done = [l \in Labels |-> Do(st.points, l)] /\ heard = [l \in Labels |-> He(st.points, l)]
    /\ phase' = [l \in Labels |-> Ph(st'.points, l)]
    /\ need' = [l \in Labels |-> Ne(st'.points, l)]
    /\ done' = [l \in Labels |-> Do(st'.points, l)]
    /\ heard' = [l \in Labels |-> He(st'.points, l)]
BY DEF phase, need, done, heard, Ph, Ne, Do, He, Invoked

\* A point and one like it look the same.
LEMMA LikeSame ==
    ASSUME NEW P, NEW Q, NEW J \in SUBSET Federates, NEW l, AllInv(P, J),
           l \in DOMAIN P, l \in DOMAIN Q, Like(P[l], Q[l])
    PROVE  Same(P, Q, l)
<1>1. P[l].required \subseteq Federates
  BY DEF AllInv, PointInv
<1> QED BY <1>1 DEF Like, Same, Ph, Ne, Do, He, Invoked

\* A label without a point looks the same as long as it has none.
LEMMA AbsentSame ==
    ASSUME NEW P, NEW Q, NEW l, l \notin DOMAIN P, l \notin DOMAIN Q
    PROVE  Same(P, Q, l)
BY DEF Same, Ph, Ne, Do, He

\* If every label looks the same the barrier stutters.
LEMMA SameStutters ==
    ASSUME joined' = joined, \A l \in Labels : Same(st.points, st'.points, l)
    PROVE  UNCHANGED Barrier!bvars
<1>1. phase' = phase /\ need' = need /\ done' = done /\ heard' = heard
  BY Mapped DEF Same
<1> QED BY <1>1 DEF Barrier!bvars

\* A quiet effect is a stutter.
LEMMA QuietStutters ==
    ASSUME IInv, joined' = joined, Quiet(st.points, st'.points)
    PROVE  UNCHANGED Barrier!bvars
<1>1. ASSUME NEW l \in Labels PROVE Same(st.points, st'.points, l)
  BY Opened, LikeSame, AbsentSame, Zenon DEF Quiet
<1> QED BY <1>1, SameStutters, Zenon

\* Creating a point opens a barrier.
LEMMA RegistersOpens ==
    ASSUME IInv, joined' = joined, NEW label \in Labels, NEW members \in SUBSET joined,
           NEW all \in BOOLEAN, members # {},
           Registers(st.points, st'.points, label, members, all)
    PROVE  Barrier!Open(label, members)
<1>1. ASSUME NEW l \in Labels \ {label} PROVE Same(st.points, st'.points, l)
  BY Opened, LikeSame, AbsentSame, ZenonT(40) DEF Registers
<1>2. /\ Ph(st.points, label) = "idle" /\ Ph(st'.points, label) = "open"
      /\ Ne(st'.points, label) = members
      /\ Do(st.points, label) = {} /\ Do(st'.points, label) = {}
      /\ He(st.points, label) = {} /\ He(st'.points, label) = {}
  BY Opened DEF Registers, Ph, Ne, Do, He, Invoked
<1>3. /\ phase[label] = "idle" /\ phase' = [phase EXCEPT ![label] = "open"]
      /\ need' = [need EXCEPT ![label] = members] /\ done' = done /\ heard' = heard
  BY <1>1, <1>2, Mapped, Zenon DEF Same
<1> QED BY <1>3, Zenon DEF Barrier!Open

\* An achievement is an arrival, the last one releasing the barrier.
LEMMA AchievesArrives ==
    ASSUME IInv, joined' = joined, NEW label \in Labels, NEW h \in Federates,
           Achieves(st.points, st'.points, label, h)
    PROVE  Barrier!Arrive(label, h)
<1>1. ASSUME NEW l \in Labels \ {label} PROVE Same(st.points, st'.points, l)
  BY Opened, LikeSame, AbsentSame, Zenon DEF Achieves
<1> DEFINE p == st.points[label]
           q == st'.points[label]
<1>2. /\ label \in DOMAIN st.points /\ label \in DOMAIN st'.points
      /\ h \in p.required \ p.achieved /\ q.required = p.required
      /\ q.achieved = p.achieved \cup {h}
      /\ q.state = IF p.required \subseteq p.achieved \cup {h} THEN "achieved" ELSE "announced"
      /\ \A f \in Federates : Invoked(q, f) = Invoked(p, f)
  BY Zenon DEF Achieves, Invoked
<1>3. p.state = "announced" /\ p.required \subseteq Federates
  BY <1>2, Opened, Zenon DEF AllInv, PointInv
<1> HIDE DEF p, q
<1>4. /\ Ph(st.points, label) = "open"
      /\ Ph(st'.points, label) = IF p.required \subseteq p.achieved \cup {h}
                                 THEN "released" ELSE "open"
      /\ Ne(st.points, label) = p.required /\ Ne(st'.points, label) = p.required
      /\ Do(st.points, label) = p.achieved /\ Do(st'.points, label) = p.achieved \cup {h}
      /\ He(st.points, label) = He(st'.points, label)
  BY <1>2, <1>3, Zenon DEF Ph, Ne, Do, He, p, q
<1>5. /\ phase[label] = "open" /\ h \in need[label] \ done[label]
      /\ done' = [done EXCEPT ![label] = done[label] \cup {h}]
      /\ need' = need /\ heard' = heard
  BY <1>1, <1>2, <1>4, Mapped, Zenon DEF Same
<1>6. done'[label] = p.achieved \cup {h} /\ need[label] = p.required
  BY <1>4, Mapped, Zenon
<1>7. phase' = [phase EXCEPT ![label] = IF need[label] \subseteq done'[label]
                                        THEN "released" ELSE phase[label]]
  BY <1>1, <1>4, <1>5, <1>6, Mapped, Zenon DEF Same
<1> QED BY <1>5, <1>7, Zenon DEF Barrier!Arrive

\* A synchronized report is heard once; a repeated one, or one of a federate the
\* point does not need, is a stutter; the last one frees the label.
LEMMA HearsHears ==
    ASSUME IInv, joined' = joined, NEW label \in Labels, NEW h \in Federates,
           Hears(st.points, st'.points, label, h)
    PROVE  Barrier!Hear(label, h) \/ Barrier!HearLast(label, h) \/ UNCHANGED Barrier!bvars
<1> DEFINE p == st.points[label]
           q == st'.points[label]
           last == \A f \in p.required : f = h \/ Invoked(p, f)
<1>1. ASSUME NEW l \in Labels \ {label} PROVE Same(st.points, st'.points, l)
  BY Opened, LikeSame, AbsentSame, Zenon DEF Hears
<1>2. /\ label \in DOMAIN st.points /\ p.state = "achieved"
      /\ (label \in DOMAIN st'.points) = ~last
      /\ ~last => /\ q.state = "achieved" /\ q.required = p.required /\ q.achieved = p.achieved
                  /\ \A f \in Federates : Invoked(q, f) = (f = h \/ Invoked(p, f))
  BY DEF Hears
<1>3. /\ p.required \subseteq Federates /\ \E f \in p.required : ~Invoked(p, f)
      /\ \A f \in Federates : Invoked(p, f) \in BOOLEAN
  BY <1>2, Opened, Zenon DEF AllInv, PointInv, Invoked, Shaped
<1> HIDE DEF p, q
<1>4. /\ Ph(st.points, label) = "released" /\ Ne(st.points, label) = p.required
      /\ Do(st.points, label) = p.achieved
      /\ He(st.points, label) = {f \in p.required : Invoked(p, f)}
  BY <1>2 DEF Ph, Ne, Do, He, p
<1>5. CASE last
  <2>1. /\ Ph(st'.points, label) = "idle" /\ Ne(st'.points, label) = {}
        /\ Do(st'.points, label) = {} /\ He(st'.points, label) = {}
    BY <1>2, <1>5, Zenon DEF Ph, Ne, Do, He
  <2>2. /\ h \in p.required /\ ~Invoked(p, h)
        /\ p.required = {f \in p.required : Invoked(p, f)} \cup {h}
    BY <1>3, <1>5, Zenon
  <2>3. /\ phase[label] = "released" /\ h \in need[label] \ heard[label]
        /\ need[label] = heard[label] \cup {h}
    BY <1>4, <2>2, Mapped, Zenon
  <2>4. /\ phase' = [phase EXCEPT ![label] = "idle"] /\ need' = [need EXCEPT ![label] = {}]
        /\ done' = [done EXCEPT ![label] = {}] /\ heard' = [heard EXCEPT ![label] = {}]
    BY <1>1, <2>1, Mapped, Zenon DEF Same
  <2> QED BY <2>3, <2>4, Zenon DEF Barrier!HearLast
<1>6. CASE ~last
  <2>1. /\ label \in DOMAIN st'.points /\ q.state = "achieved" /\ q.required = p.required
        /\ q.achieved = p.achieved
        /\ \A f \in Federates : Invoked(q, f) = (f = h \/ Invoked(p, f))
    BY <1>2, <1>6, Zenon
  <2>2. /\ Ph(st'.points, label) = "released" /\ Ne(st'.points, label) = p.required
        /\ Do(st'.points, label) = p.achieved
        /\ He(st'.points, label) = {f \in p.required : f = h \/ Invoked(p, f)}
    <3>1. He(st'.points, label) = {f \in p.required : Invoked(q, f)}
      BY <2>1 DEF He, q
    <3> QED BY <1>3, <2>1, <3>1, ZenonT(40) DEF Ph, Ne, Do, q
  <2>3. CASE h \in p.required /\ ~Invoked(p, h)
    <3>1. /\ He(st'.points, label) = He(st.points, label) \cup {h}
          /\ h \in p.required \ He(st.points, label)
          /\ p.required # He(st.points, label) \cup {h}
      BY <1>4, <1>6, <2>2, <2>3, Zenon
    <3>2. /\ phase[label] = "released" /\ h \in need[label] \ heard[label]
          /\ need[label] # heard[label] \cup {h}
      BY <1>4, <3>1, Mapped, Zenon
    <3>3. /\ phase' = phase /\ need' = need /\ done' = done
          /\ heard' = [heard EXCEPT ![label] = heard[label] \cup {h}]
      BY <1>1, <1>4, <2>2, <3>1, Mapped, Zenon DEF Same
    <3> QED BY <3>2, <3>3, Zenon DEF Barrier!Hear
  <2>4. CASE ~(h \in p.required /\ ~Invoked(p, h))
    <3>1. He(st'.points, label) = He(st.points, label)
      BY <1>4, <2>2, <2>4, Zenon
    <3>2. \A l \in Labels : Same(st.points, st'.points, l)
      BY <1>1, <1>4, <2>2, <3>1, Zenon DEF Same
    <3> QED BY <3>2, SameStutters, Zenon
  <2> QED BY <2>3, <2>4, Zenon
<1> QED BY <1>5, <1>6, Zenon

\* A join enters the open barriers for all members.
LEMMA JoinsEnters ==
    ASSUME IInv, NEW h \in Federates \ joined, joined' = joined \cup {h},
           Joins(st.points, st'.points, h)
    PROVE  Barrier!Enter(h, Late(st.points, h))
<1> DEFINE late == Late(st.points, h)
<1>1. ASSUME NEW l \in Labels \ late PROVE Same(st.points, st'.points, l)
  BY Opened, LikeSame, AbsentSame, Zenon DEF Joins
<1>2. ASSUME NEW l \in late
      PROVE  /\ l \in Labels /\ Ph(st.points, l) = "open" /\ Ph(st'.points, l) = "open"
             /\ Ne(st'.points, l) = Ne(st.points, l) \cup {h}
             /\ Do(st'.points, l) = Do(st.points, l) /\ He(st'.points, l) = He(st.points, l)
  <2> DEFINE p == st.points[l]
             q == st'.points[l]
  <2>1. /\ l \in DOMAIN st.points /\ l \in DOMAIN st'.points /\ l \in Labels
        /\ p.state = "announced" /\ PointInv(p, joined)
    BY Opened, Zenon DEF Late, Joins, AllInv, AllShaped, IsPoints
  <2>2. /\ q.state = "announced" /\ q.required = p.required \cup {h} /\ q.achieved = p.achieved
        /\ \A f \in Federates : q.callbacks[f].synchronizedInvoked
                                    = p.callbacks[f].synchronizedInvoked
    BY Zenon DEF Joins
  <2>3. /\ p.required \subseteq Federates /\ \A f \in Federates : ~Invoked(p, f)
    BY <2>1, Opened, Zenon DEF PointInv, Invoked
  <2> HIDE DEF p, q
  <2>4. \A f \in Federates : ~Invoked(q, f)
    BY <2>2, <2>3, Zenon DEF Invoked
  <2>5. q.required \subseteq Federates
    BY <2>2, <2>3, Zenon
  <2>6. He(st.points, l) = {} /\ He(st'.points, l) = {}
    BY <2>1, <2>3, <2>4, <2>5, Zenon DEF He, p, q
  <2> QED BY <2>1, <2>2, <2>6, Zenon DEF Ph, Ne, Do, p, q
<1> HIDE DEF late
<1>3. \A l \in late : phase[l] = "open"
  BY <1>2, Mapped
<1>4. /\ need' = [l \in Labels |-> IF l \in late THEN need[l] \cup {h} ELSE need[l]]
      /\ phase' = phase /\ done' = done /\ heard' = heard
  <2>1. \A l \in Labels :
          /\ Ne(st'.points, l) = IF l \in late THEN Ne(st.points, l) \cup {h} ELSE Ne(st.points, l)
          /\ Ph(st'.points, l) = Ph(st.points, l) /\ Do(st'.points, l) = Do(st.points, l)
          /\ He(st'.points, l) = He(st.points, l)
    BY <1>1, <1>2, ZenonT(40) DEF Same
  <2> QED BY <2>1, Mapped, Zenon
<1> QED BY <1>3, <1>4, Zenon DEF Barrier!Enter, late

\* What a resignation makes of one point, in the terms of the barrier.
LEMMA ResignsPoint ==
    ASSUME NEW P, NEW Q, NEW J \in SUBSET Federates, NEW h \in Federates, AllInv(P, J),
           Resigns(P, Q, h), NEW l \in DOMAIN P
    PROVE  LET p == P[l]
               idle == \/ p.required \subseteq {h}
                       \/ p.state = "achieved" /\ p.required \ {h} \subseteq He(P, l)
               releases == p.state = "announced" /\ p.required \ {h} \subseteq p.achieved
           IN  /\ (l \in DOMAIN Q) = ~idle
               /\ ~idle => /\ Ne(Q, l) = p.required \ {h} /\ Do(Q, l) = p.achieved \ {h}
                           /\ He(Q, l) = He(P, l) \ {h}
                           /\ Ph(Q, l) = IF releases THEN "released" ELSE Ph(P, l)
<1> DEFINE p == P[l]
           s == Stripped(p, h)
           c == Completed(s)
           q == Q[l]
           idle == \/ p.required \subseteq {h}
                   \/ p.state = "achieved" /\ p.required \ {h} \subseteq He(P, l)
           releases == p.state = "announced" /\ p.required \ {h} \subseteq p.achieved
<1>1. /\ PointInv(p, J) /\ (l \in DOMAIN Q) = ~Retirable(c)
      /\ l \in DOMAIN Q => Like(c, q)
  BY DEF Resigns, AllInv
<1>2. He(P, l) = {f \in p.required : Invoked(p, f)}
  BY Zenon DEF He
<1> HIDE DEF p, q
<1>3. /\ Shaped(s) /\ s.state = p.state /\ s.required = p.required \ {h}
      /\ s.achieved = p.achieved \ {h}
      /\ \A f \in Federates \ {h} : s.callbacks[f] = p.callbacks[f]
  BY <1>1, StrippedShaped, Zenon DEF PointInv
<1> HIDE DEF s
<1>4. /\ c.state = IF Complete(s) THEN "achieved" ELSE s.state
      /\ c.required = s.required /\ c.achieved = s.achieved /\ c.callbacks = s.callbacks
  BY <1>3, CompletedShaped, Zenon
<1> HIDE DEF c
<1>5. Complete(s) <=> releases
  BY <1>3 DEF Complete
<1>6. p.required \subseteq Federates /\ p.state \in {"announced", "achieved"}
  BY <1>1, Zenon DEF PointInv
<1>7. \A f \in p.required \ {h} : Invoked(c, f) = Invoked(p, f)
  BY <1>3, <1>4, <1>6, Zenon DEF Invoked
<1>8. Retirable(c) <=> /\ releases \/ p.state = "achieved"
                       /\ \A f \in p.required \ {h} : Invoked(p, f)
  BY <1>3, <1>4, <1>5, <1>6, <1>7, Zenon DEF Retirable, Invoked
<1>9. Retirable(c) <=> idle
  <2>1. CASE p.state = "achieved"
    BY <1>2, <1>8, <2>1, Zenon
  <2>2. CASE p.state = "announced"
    <3>1. \A f \in p.required : ~Invoked(p, f)
      BY <1>1, <1>6, <2>2, Zenon DEF PointInv, Invoked
    <3>2. p.achieved \subseteq p.required
      BY <1>1, Zenon DEF PointInv
    <3> QED BY <1>8, <2>2, <3>1, <3>2, Zenon
  <2> QED BY <1>6, <2>1, <2>2, Zenon
<1>10. ASSUME ~idle
       PROVE  /\ Ne(Q, l) = p.required \ {h} /\ Do(Q, l) = p.achieved \ {h}
              /\ He(Q, l) = He(P, l) \ {h}
              /\ Ph(Q, l) = IF releases THEN "released" ELSE Ph(P, l)
  <2>1. l \in DOMAIN Q /\ Like(c, q)
    BY <1>1, <1>9, <1>10, ZenonT(40)
  <2>2. /\ q.state = IF releases THEN "achieved" ELSE p.state
        /\ q.required = p.required \ {h} /\ q.achieved = p.achieved \ {h}
        /\ \A f \in p.required \ {h} : Invoked(q, f) = Invoked(p, f)
    BY <1>3, <1>4, <1>5, <1>6, <1>7, <2>1, Zenon DEF Like, Invoked
  <2>3. He(Q, l) = {f \in p.required \ {h} : Invoked(q, f)}
    BY <2>1, <2>2, Zenon DEF He, q
  <2>4. He(Q, l) = He(P, l) \ {h}
    BY <1>2, <2>2, <2>3, Zenon
  <2> QED BY <1>6, <2>1, <2>2, <2>4, Zenon DEF Ne, Do, Ph, p, q
<1> QED BY <1>1, <1>9, <1>10, Zenon DEF p

\* A resignation leaves every barrier.
LEMMA ResignsLeaves ==
    ASSUME IInv, NEW h \in joined, joined' = joined \ {h}, Resigns(st.points, st'.points, h)
    PROVE  Barrier!Leave(h)
<1> DEFINE W(l) == IF \/ Ne(st.points, l) \subseteq {h}
                      \/ Ph(st.points, l) = "released"
                            /\ Ne(st.points, l) \ {h} \subseteq He(st.points, l) THEN "idle"
                   ELSE IF Ph(st.points, l) = "open"
                            /\ Ne(st.points, l) \ {h} \subseteq Do(st.points, l) THEN "released"
                   ELSE Ph(st.points, l)
<1>1. ASSUME NEW l \in Labels
      PROVE  /\ Ph(st'.points, l) = W(l)
             /\ Ne(st'.points, l) = IF W(l) = "idle" THEN {} ELSE Ne(st.points, l) \ {h}
             /\ Do(st'.points, l) = IF W(l) = "idle" THEN {} ELSE Do(st.points, l) \ {h}
             /\ He(st'.points, l) = IF W(l) = "idle" THEN {} ELSE He(st.points, l) \ {h}
  <2>1. CASE l \notin DOMAIN st.points
    <3>1. l \notin DOMAIN st'.points
      BY <2>1, Zenon DEF Resigns
    <3>2. /\ Ph(st'.points, l) = "idle" /\ Ne(st'.points, l) = {}
          /\ Do(st'.points, l) = {} /\ He(st'.points, l) = {}
      BY <3>1 DEF Ph, Ne, Do, He
    <3>3. Ne(st.points, l) = {}
      BY <2>1 DEF Ne
    <3>4. W(l) = "idle"
      BY <3>3
    <3> HIDE DEF W
    <3> QED BY <3>2, <3>4, Zenon
  <2>2. CASE l \in DOMAIN st.points
    <3> DEFINE p == st.points[l]
               idle == \/ p.required \subseteq {h}
                       \/ p.state = "achieved" /\ p.required \ {h} \subseteq He(st.points, l)
               releases == p.state = "announced" /\ p.required \ {h} \subseteq p.achieved
    <3>1. /\ (l \in DOMAIN st'.points) = ~idle
          /\ ~idle => /\ Ne(st'.points, l) = p.required \ {h}
                      /\ Do(st'.points, l) = p.achieved \ {h}
                      /\ He(st'.points, l) = He(st.points, l) \ {h}
                      /\ Ph(st'.points, l) = IF releases THEN "released" ELSE Ph(st.points, l)
      BY <2>2, Opened, ResignsPoint, SMTT(30)
    <3>2. p.state \in {"announced", "achieved"}
      BY <2>2, Opened, Zenon DEF AllInv, PointInv
    <3>3. /\ Ne(st.points, l) = p.required /\ Do(st.points, l) = p.achieved
          /\ Ph(st.points, l) = IF p.state = "announced" THEN "open" ELSE "released"
      BY <2>2, Zenon DEF Ne, Do, Ph
    <3> HIDE DEF p
    <3>4. idle => /\ Ph(st'.points, l) = "idle" /\ Ne(st'.points, l) = {}
                  /\ Do(st'.points, l) = {} /\ He(st'.points, l) = {}
      <4> SUFFICES ASSUME l \notin DOMAIN st'.points
                   PROVE  /\ Ph(st'.points, l) = "idle" /\ Ne(st'.points, l) = {}
                          /\ Do(st'.points, l) = {} /\ He(st'.points, l) = {}
        <5> HIDE DEF idle
        <5> QED BY <3>1
      <4> QED BY DEF Ph, Ne, Do, He
    <3>5. W(l) = IF idle THEN "idle" ELSE IF releases THEN "released" ELSE Ph(st.points, l)
      BY <3>2, <3>3, Zenon
    <3>6. (W(l) = "idle") <=> idle
      BY <3>3, <3>5, Zenon
    <3> HIDE DEF W, idle, releases
    <3> QED BY <3>1, <3>3, <3>4, <3>5, <3>6, SMTT(30)
  <2> HIDE DEF W
  <2> QED BY <2>1, <2>2, Zenon
<1>2. \A l \in Labels : Barrier!PhaseWithout(l, h) = W(l)
  BY Mapped DEF Barrier!PhaseWithout
<1> HIDE DEF W
<1>3. /\ phase' = [l \in Labels |-> Barrier!PhaseWithout(l, h)]
      /\ need' = [l \in Labels |-> IF Barrier!PhaseWithout(l, h) = "idle" THEN {} ELSE need[l] \ {h}]
      /\ done' = [l \in Labels |-> IF Barrier!PhaseWithout(l, h) = "idle" THEN {} ELSE done[l] \ {h}]
      /\ heard' = [l \in Labels |->
                      IF Barrier!PhaseWithout(l, h) = "idle" THEN {} ELSE heard[l] \ {h}]
  BY <1>1, <1>2, Mapped, ZenonT(40)
<1> QED BY <1>3, ZenonT(40) DEF Barrier!Leave

\* The first state of the points is a first state of the barriers.
LEMMA InitMaps == Init => Barrier!Init
<1> SUFFICES ASSUME Init PROVE Barrier!Init
  OBVIOUS
<1>1. DOMAIN st.points = {} /\ joined \subseteq Federates
  <2>1. st.points = << >>
    BY DEF Init, emptyFederationState
  <2> QED BY <2>1, BoundsAssumption, SMTT(30) DEF Init, Federates
<1>2. \A l \in Labels : /\ Ph(st.points, l) = "idle" /\ Ne(st.points, l) = {}
                        /\ Do(st.points, l) = {} /\ He(st.points, l) = {}
  BY <1>1 DEF Ph, Ne, Do, He
<1> QED BY <1>1, <1>2, Mapped, Zenon DEF Barrier!Init

\* Every step of the points is a step of the barriers or a stutter.
LEMMA StepMaps == IInv /\ [Next]_vars => [Barrier!Next]_(Barrier!bvars)
<1> SUFFICES ASSUME IInv, [Next]_vars PROVE Barrier!Next \/ UNCHANGED Barrier!bvars
  OBVIOUS
<1>0. AllShaped(st.points) /\ joined \in SUBSET Federates
  BY Opened
<1>1. CASE Register
  <2>1. PICK h \in Federates, label \in Labels, requested \in SUBSET Federates :
           RegisterBy(h, label, requested)
    BY <1>1, BoundsAssumption, Zenon DEF Register, Federates
  <2>2. /\ joined' = joined
        /\ \/ Quiet(st.points, st'.points)
           \/ \E members \in SUBSET joined :
                 members # {} /\ Registers(st.points, st'.points, label, members, requested = {})
    BY <2>1, RegisterEffect, Zenon
  <2>3. CASE Quiet(st.points, st'.points)
    BY <2>2, <2>3, QuietStutters, Zenon
  <2>4. ASSUME NEW members \in SUBSET joined, members # {},
               Registers(st.points, st'.points, label, members, requested = {})
        PROVE  Barrier!Next
    <3>1. Barrier!Open(label, members)
      BY <2>2, <2>4, RegistersOpens, Zenon
    <3>2. members \in SUBSET Federates
      BY <1>0
    <3> QED BY <3>1, <3>2, Zenon DEF Barrier!Next
  <2> QED BY <2>2, <2>3, <2>4, ZenonT(40)
<1>2. ASSUME NEW h \in Federates, Achieve(h) PROVE Barrier!Next \/ UNCHANGED Barrier!bvars
  <2>1. PICK label \in Labels : AchieveWith(h, label, h \notin Failing)
    BY <1>2 DEF Achieve
  <2>2. /\ joined' = joined
        /\ Quiet(st.points, st'.points) \/ Achieves(st.points, st'.points, label, h)
    BY <2>1, AchieveEffect, Zenon
  <2>3. UNCHANGED Barrier!bvars \/ Barrier!Arrive(label, h)
    BY <2>2, QuietStutters, AchievesArrives, Zenon
  <2> QED BY <2>3 DEF Barrier!Next
<1>3. ASSUME NEW h \in Federates, Report(h) PROVE Barrier!Next \/ UNCHANGED Barrier!bvars
  <2>1. /\ joined' = joined
        /\ \/ Quiet(st.points, st'.points)
           \/ \E label \in Labels : Hears(st.points, st'.points, label, h)
    BY <1>3, ReportEffect, Zenon
  <2>2. CASE Quiet(st.points, st'.points)
    BY <2>1, <2>2, QuietStutters, ZenonT(40)
  <2>3. ASSUME NEW label \in Labels, Hears(st.points, st'.points, label, h)
        PROVE  Barrier!Next \/ UNCHANGED Barrier!bvars
    <3>1. Barrier!Hear(label, h) \/ Barrier!HearLast(label, h) \/ UNCHANGED Barrier!bvars
      BY <2>1, <2>3, HearsHears, Zenon
    <3> QED BY <3>1 DEF Barrier!Next
  <2> QED BY <2>1, <2>2, <2>3, Zenon
<1>4. ASSUME NEW h \in Federates, Resign(h) PROVE Barrier!Next
  <2>1. h \in joined /\ joined' = joined \ {h} /\ FederateResigned(h)
    BY <1>4 DEF Resign
  <2>2. Barrier!Leave(h)
    BY <2>1, ResignEffect, ResignsLeaves, Zenon
  <2> QED BY <2>2 DEF Barrier!Next
<1>5. CASE Join
  <2>1. /\ joined' = joined \cup {nextHandle} /\ FederateJoined(nextHandle)
        /\ nextHandle \in Federates \ joined
    BY <1>5, BoundsAssumption, Opened, SMTT(30) DEF Join, Federates
  <2>2. Barrier!Enter(nextHandle, Late(st.points, nextHandle))
    BY <2>1, JoinEffect, JoinsEnters, Zenon
  <2>3. Late(st.points, nextHandle) \in SUBSET Labels
    BY <1>0 DEF Late, AllShaped, IsPoints
  <2> QED BY <2>1, <2>2, <2>3, Zenon DEF Barrier!Next
<1>6. CASE OnFederationDestroyed
  <2>1. joined' = joined /\ Quiet(st.points, st'.points)
    BY <1>6, DestroyEffect, Zenon DEF Quiet
  <2> QED BY <2>1, QuietStutters, Zenon
<1>7. CASE RetryPending
  <2>1. joined' = joined /\ Quiet(st.points, st'.points)
    BY <1>0, <1>7, RetryEffect, QuietRefl, ZenonT(40)
  <2> QED BY <2>1, QuietStutters
<1>8. CASE UNCHANGED vars
  <2>1. joined' = joined /\ Quiet(st.points, st'.points)
    BY <1>0, <1>8, QuietRefl, Zenon DEF vars
  <2> QED BY <2>1, QuietStutters
<1> QED BY <1>1, <1>2, <1>3, <1>4, <1>5, <1>6, <1>7, <1>8, Zenon DEF Next

\* For every number of federates and labels the synchronization points implement
\* the barriers of SyncBarrier (ImplementsBarrier), under refused reservations,
\* late reports, joins and resignations.
THEOREM Refines == Spec => ImplementsBarrier
BY InitMaps, StepMaps, Inductive, PTL DEF Spec, ImplementsBarrier, Barrier!Spec
=============================================================================
