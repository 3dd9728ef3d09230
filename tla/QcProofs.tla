------------------------------ MODULE QcProofs ------------------------------
(***************************************************************************)
(* QcStream for any inputs: any satellites, any number of epochs, any gaps *)
(* and any verdicts of the tests on what is fed.                           *)
(*                                                                         *)
(* The stream never looks at its whole series again, so the invariant says *)
(* of each satellite how far it has been looked at.  After T epochs those  *)
(* up to done are settled and those up to jd judged: the statistics are    *)
(* the counts over the settled points, no flag of which changes any more;  *)
(* the slips and jumps counted are the points marked; and every judged     *)
(* epoch in which all jumped is marked.  The ring holds where the points   *)
(* of the last epochs stand, whatever Feed and the judgements do to them.  *)
(* While epochs come, done is T - 2 and jd is T - 1; Finish brings both to *)
(* T.  The times of the epochs are a function of their number, unique and  *)
(* at least the receiver's interval apart: the invariant has it behind an  *)
(* existential quantifier, for the stream itself forgets it.               *)
(*                                                                         *)
(* A step is proved in layers: what an operator does to one satellite, in  *)
(* terms of its fields; that it keeps what holds of one satellite; that it *)
(* keeps what holds of them all; and then Advance, Fed and Finished, which *)
(* are made of these.                                                      *)
(***************************************************************************)
EXTENDS QcStream, FiniteSetTheorems, TLAPS

QcPoint == [t : Nat, epoch : Nat, mw : {"clean", "slip", "outlier"}, jump : BOOLEAN,
            gapOk : BOOLEAN, slip : BOOLEAN, outlier : BOOLEAN, clockJump : BOOLEAN]

QcSat == [band : BOOLEAN, pts : Seq(QcPoint), n1 : Nat, mwCnt : Nat, pending : Nat,
          slips : Nat, outliers : Nat, clockJumps : Nat, slipEver : BOOLEAN,
          settled : Nat, triCnt : Nat, winCnt : Nat, ionoCnt : Nat]

SlipPlaces(s) == {i \in 1 .. Len(s.pts) : s.pts[i].slip}
JumpPlaces(s) == {i \in 1 .. Len(s.pts) : s.pts[i].clockJump}

Counted(s) ==
    s.slips = Cardinality(SlipPlaces(s)) /\ s.clockJumps = Cardinality(JumpPlaces(s))

\* A point as it was fed.
AsFed(p, q) == p.t = q.t /\ p.epoch = q.epoch /\ p.jump = q.jump /\ p.gapOk = q.gapOk

\* t is s but for the flags of the points K and what is counted of them.
Touched(s, t, K) ==
    /\ t \in QcSat
    /\ Len(t.pts) = Len(s.pts)
    /\ \A i \in 1 .. Len(s.pts) : AsFed(s.pts[i], t.pts[i]) /\ (i \notin K => t.pts[i] = s.pts[i])
    /\ t.settled = s.settled /\ t.triCnt = s.triCnt /\ t.winCnt = s.winCnt
    /\ s.slipEver => t.slipEver

SameJumps(s, t) == JumpPlaces(t) = JumpPlaces(s)

\* The points marked of a series are finitely many.
LEMMA PlacesFinite ==
  ASSUME NEW s \in QcSat
  PROVE  /\ IsFiniteSet(SlipPlaces(s)) /\ Cardinality(SlipPlaces(s)) \in Nat
         /\ IsFiniteSet(JumpPlaces(s)) /\ Cardinality(JumpPlaces(s)) \in Nat
<1>1. Len(s.pts) \in Nat
    BY DEF QcSat
<1>2. IsFiniteSet(1 .. Len(s.pts))
    BY <1>1, FS_Interval
<1>3. SlipPlaces(s) \subseteq 1 .. Len(s.pts) /\ JumpPlaces(s) \subseteq 1 .. Len(s.pts)
    BY DEF SlipPlaces, JumpPlaces
<1>4. IsFiniteSet(SlipPlaces(s)) /\ IsFiniteSet(JumpPlaces(s))
    BY <1>2, <1>3, FS_Subset
<1>5. QED
    BY <1>4, FS_CardinalityType

\* A series with one point changed.
LEMMA PutPoint ==
  ASSUME NEW q \in Seq(QcPoint), NEW k \in 1 .. Len(q), NEW p \in QcPoint, NEW r,
         r = [q EXCEPT ![k] = p]
  PROVE  /\ r \in Seq(QcPoint) /\ Len(r) = Len(q) /\ r[k] = p
         /\ \A i \in 1 .. Len(q) : i # k => r[i] = q[i]
OBVIOUS

\* The fields of a satellite, typed.
LEMMA SatFields ==
  ASSUME NEW s \in QcSat
  PROVE  /\ s.pts \in Seq(QcPoint) /\ Len(s.pts) \in Nat
         /\ \A i \in 1 .. Len(s.pts) : s.pts[i] \in QcPoint
         /\ s.slips \in Nat /\ s.clockJumps \in Nat /\ s.mwCnt \in Nat /\ s.pending \in Nat
         /\ s.n1 \in Nat /\ s.outliers \in Nat /\ s.slipEver \in BOOLEAN /\ s.band \in BOOLEAN
         /\ s.settled \in Nat /\ s.triCnt \in Nat /\ s.winCnt \in Nat /\ s.ionoCnt \in Nat
         /\ DOMAIN s.pts = 1 .. Len(s.pts)
  BY DEF QcSat

\* Touching nothing is touching.
LEMMA TouchedSelf ==
  ASSUME NEW s \in QcSat, NEW K
  PROVE  Touched(s, s, K) /\ SameJumps(s, s)
  BY DEF Touched, SameJumps, AsFed

\* markSlip marks one point and counts it, unless it is marked.
LEMMA MarkSlipDoes ==
  ASSUME NEW s \in QcSat, Counted(s), NEW k \in 1 .. Len(s.pts)
  PROVE  /\ Touched(s, markSlip(s, k), {k}) /\ SameJumps(s, markSlip(s, k))
         /\ Counted(markSlip(s, k))
         /\ markSlip(s, k).pending = s.pending
<1> DEFINE t == markSlip(s, k)
<1>1. CASE s.pts[k].slip
    BY <1>1, TouchedSelf DEF markSlip
<1>2. CASE ~s.pts[k].slip
  <2> DEFINE p == [s.pts[k] EXCEPT !.slip = TRUE]
             r == [s.pts EXCEPT ![k] = p]
  <2>1. t = [s EXCEPT !.pts = r, !.slips = @ + 1, !.slipEver = TRUE]
      BY <1>2 DEF markSlip, QcSat
  <2>2. s.pts[k] \in QcPoint /\ s.pts \in Seq(QcPoint) /\ Len(s.pts) \in Nat
      BY SatFields
  <2>3. p \in QcPoint /\ AsFed(s.pts[k], p) /\ p.slip /\ p.clockJump = s.pts[k].clockJump
      BY <2>2 DEF QcPoint, AsFed
  <2>4. /\ r \in Seq(QcPoint) /\ Len(r) = Len(s.pts) /\ r[k] = p
        /\ \A i \in 1 .. Len(s.pts) : i # k => r[i] = s.pts[i]
      BY <2>2, <2>3, PutPoint
  <2> HIDE DEF p, r
  <2>5. /\ t.pts = r /\ t.slips = s.slips + 1 /\ t.slipEver /\ t.clockJumps = s.clockJumps
        /\ t.settled = s.settled /\ t.triCnt = s.triCnt /\ t.winCnt = s.winCnt
        /\ t.pending = s.pending /\ t.mwCnt = s.mwCnt
      BY <2>1 DEF QcSat
  <2>11. t \in QcSat
    <3>1. s.slips + 1 \in Nat
        BY SatFields
    <3>2. t = [s EXCEPT !.pts = r, !.slips = s.slips + 1, !.slipEver = TRUE]
        BY <2>1
    <3>3. QED
        BY <2>4, <3>1, <3>2 DEF QcSat
  <2> HIDE DEF t
  <2>6. Touched(s, t, {k})
      BY <2>2, <2>3, <2>4, <2>5, <2>11 DEF Touched, AsFed
  <2>7. JumpPlaces(t) = JumpPlaces(s)
      BY <2>3, <2>4, <2>5 DEF JumpPlaces
  <2>8. SlipPlaces(t) = SlipPlaces(s) \cup {k} /\ k \notin SlipPlaces(s)
      BY <1>2, <2>3, <2>4, <2>5 DEF SlipPlaces
  <2>9. Cardinality(SlipPlaces(t)) = Cardinality(SlipPlaces(s)) + 1
      BY <2>8, PlacesFinite, FS_AddElement
  <2>10. QED
      BY <2>5, <2>6, <2>7, <2>9 DEF SameJumps, Counted, t
<1>3. QED
    BY <1>1, <1>2

\* applyMw touches the point it decides and keeps the counts true.
LEMMA ApplyMwDoes ==
  ASSUME NEW s \in QcSat, Counted(s), NEW k \in 1 .. Len(s.pts), NEW ok \in BOOLEAN
  PROVE  /\ Touched(s, applyMw(s, k, ok), IF ok THEN {k} ELSE {})
         /\ SameJumps(s, applyMw(s, k, ok)) /\ Counted(applyMw(s, k, ok))
<1> DEFINE t == applyMw(s, k, ok)
           K == IF ok THEN {k} ELSE {}
           m == markSlip(s, k)
<1>0. s.pts[k] \in QcPoint /\ s.pts \in Seq(QcPoint) /\ Len(s.pts) \in Nat
    BY SatFields
<1>1. ASSUME NEW x \in QcSat, Counted(x), Touched(s, x, K), SameJumps(s, x), NEW n \in Nat,
             t = [x EXCEPT !.mwCnt = n]
      PROVE  Touched(s, t, K) /\ SameJumps(s, t) /\ Counted(t)
  <2>1. /\ t.pts = x.pts /\ t.slips = x.slips /\ t.clockJumps = x.clockJumps
        /\ t.slipEver = x.slipEver /\ t.settled = x.settled /\ t.triCnt = x.triCnt
        /\ t.winCnt = x.winCnt /\ t.pending = x.pending /\ t \in QcSat
      BY <1>1 DEF QcSat
  <2> HIDE DEF t
  <2>2. QED
      BY <1>1, <2>1 DEF Touched, SameJumps, Counted, SlipPlaces, JumpPlaces
<1>2. CASE t = [s EXCEPT !.mwCnt = 1]
    BY <1>1, <1>2, TouchedSelf
<1>3. CASE t = [s EXCEPT !.mwCnt = @ + 1]
  <2>1. t = [s EXCEPT !.mwCnt = s.mwCnt + 1] /\ s.mwCnt + 1 \in Nat
      BY <1>3, SatFields
  <2>2. QED
      BY <1>1, <2>1, TouchedSelf
<1>4. CASE t = [m EXCEPT !.mwCnt = 1] /\ ok
  <2>1. Touched(s, m, K) /\ SameJumps(s, m) /\ Counted(m)
      BY <1>4, MarkSlipDoes
  <2>2. m \in QcSat
      BY <2>1 DEF Touched
  <2>3. QED
      BY <1>1, <1>4, <2>1, <2>2
<1>5. CASE t = [s EXCEPT !.pts[k].outlier = TRUE, !.outliers = @ + 1, !.mwCnt = @ + 1] /\ ok
  <2> DEFINE p == [s.pts[k] EXCEPT !.outlier = TRUE]
             r == [s.pts EXCEPT ![k] = p]
  <2>1. t = [s EXCEPT !.pts = r, !.outliers = s.outliers + 1, !.mwCnt = s.mwCnt + 1]
      BY <1>5
  <2>2. /\ p \in QcPoint /\ AsFed(s.pts[k], p) /\ p.slip = s.pts[k].slip
        /\ p.clockJump = s.pts[k].clockJump
      BY <1>0 DEF QcPoint, AsFed
  <2>3. /\ r \in Seq(QcPoint) /\ Len(r) = Len(s.pts) /\ r[k] = p
        /\ \A i \in 1 .. Len(s.pts) : i # k => r[i] = s.pts[i]
      BY <1>0, <2>2, PutPoint
  <2> HIDE DEF p, r
  <2>4. /\ t.pts = r /\ t.slips = s.slips /\ t.clockJumps = s.clockJumps
        /\ t.slipEver = s.slipEver /\ t.settled = s.settled /\ t.triCnt = s.triCnt
        /\ t.winCnt = s.winCnt /\ t.pending = s.pending
      BY <2>1 DEF QcSat
  <2>5. t \in QcSat
    <3>1. s.outliers + 1 \in Nat /\ s.mwCnt + 1 \in Nat
        BY SatFields
    <3>2. QED
        BY <2>1, <2>3, <3>1 DEF QcSat
  <2> HIDE DEF t
  <2>6. Touched(s, t, K)
      BY <1>0, <1>5, <2>2, <2>3, <2>4, <2>5 DEF Touched, AsFed
  <2>7. JumpPlaces(t) = JumpPlaces(s) /\ SlipPlaces(t) = SlipPlaces(s)
      BY <2>2, <2>3, <2>4 DEF JumpPlaces, SlipPlaces
  <2>8. Counted(t)
      BY <2>4, <2>7 DEF Counted
  <2>9. QED
      BY <2>6, <2>7, <2>8 DEF SameJumps, t
<1>6. \/ t = [s EXCEPT !.mwCnt = 1]
      \/ t = [s EXCEPT !.mwCnt = @ + 1]
      \/ t = [m EXCEPT !.mwCnt = 1] /\ ok
      \/ t = [s EXCEPT !.pts[k].outlier = TRUE, !.outliers = @ + 1, !.mwCnt = @ + 1] /\ ok
    BY DEF applyMw
<1>7. QED
    BY <1>2, <1>3, <1>4, <1>5, <1>6

\* Pend decides at most the point before and leaves the last one to come.
LEMMA PendDoes ==
  ASSUME NEW s \in QcSat, Counted(s), NEW idx \in 1 .. Len(s.pts), s.pending \in 0 .. Len(s.pts)
  PROVE  /\ Touched(s, Pend(s, idx), IF s.pts[idx].gapOk THEN {s.pending} ELSE {})
         /\ SameJumps(s, Pend(s, idx)) /\ Counted(Pend(s, idx))
         /\ Pend(s, idx).pending = idx
<1> DEFINE ok == s.pts[idx].gapOk
           K == IF ok THEN {s.pending} ELSE {}
           t == CASE s.pending > 1 -> applyMw(s, s.pending, ok)
                  [] s.pending = 0 -> [s EXCEPT !.mwCnt = 1]
                  [] OTHER -> s
           u == Pend(s, idx)
<1>0. s.pts[idx] \in QcPoint /\ s.pts \in Seq(QcPoint) /\ Len(s.pts) \in Nat
    BY SatFields
<1>1. Touched(s, t, K) /\ SameJumps(s, t) /\ Counted(t)
  <2>1. CASE s.pending > 1
    <3>1. ok \in BOOLEAN /\ s.pending \in 1 .. Len(s.pts) /\ t = applyMw(s, s.pending, ok)
        BY <1>0, <2>1 DEF QcPoint
    <3> HIDE DEF ok
    <3>2. QED
        BY <3>1, ApplyMwDoes
  <2>2. CASE s.pending = 0
    <3>1. t = [s EXCEPT !.mwCnt = 1]
        BY <2>2
    <3> HIDE DEF t
    <3>2. /\ t.pts = s.pts /\ t.slips = s.slips /\ t.clockJumps = s.clockJumps
          /\ t.slipEver = s.slipEver /\ t.settled = s.settled /\ t.triCnt = s.triCnt
          /\ t.winCnt = s.winCnt /\ t \in QcSat
        BY <3>1 DEF QcSat
    <3>3. QED
        BY <3>2, TouchedSelf DEF Touched, SameJumps, Counted, SlipPlaces, JumpPlaces, AsFed
  <2>3. CASE ~(s.pending > 1) /\ s.pending # 0
    <3>1. t = s
        BY <2>3
    <3>2. QED
        BY <3>1, TouchedSelf
  <2>4. QED
      BY <2>1, <2>2, <2>3
<1>2. u = [t EXCEPT !.pending = idx]
    BY DEF Pend
<1> HIDE DEF t, u
<1>3. t \in QcSat /\ idx \in Nat
    BY <1>0, <1>1 DEF Touched
<1>4. /\ u.pts = t.pts /\ u.slips = t.slips /\ u.clockJumps = t.clockJumps
      /\ u.slipEver = t.slipEver /\ u.settled = t.settled /\ u.triCnt = t.triCnt
      /\ u.winCnt = t.winCnt /\ u.pending = idx /\ u \in QcSat
    BY <1>2, <1>3 DEF QcSat
<1>5. QED
    BY <1>1, <1>4 DEF Touched, SameJumps, Counted, SlipPlaces, JumpPlaces, u

\* t has one point more than s, of epoch gi.
Pushed(s, t, v, sow, gi, ok) ==
    /\ t \in QcSat /\ Counted(t)
    /\ Len(t.pts) = Len(s.pts) + 1 /\ t.pending = Len(t.pts)
    /\ t.settled = s.settled /\ t.triCnt = s.triCnt /\ t.winCnt = s.winCnt
    /\ s.slipEver => t.slipEver
    /\ LET p == t.pts[Len(t.pts)]
       IN  p.t = sow /\ p.epoch = gi /\ p.jump = v.jump /\ ~p.clockJump
    /\ \A i \in 1 .. Len(s.pts) :
         /\ AsFed(s.pts[i], t.pts[i]) /\ t.pts[i].clockJump = s.pts[i].clockJump
         /\ (i = Len(s.pts) /\ ok) \/ t.pts[i] = s.pts[i]

\* PushPoint adds one point; only the last two can be marked.
LEMMA PushDoes ==
  ASSUME NEW s \in QcSat, Counted(s), s.pending = Len(s.pts), NEW v \in QcValues,
         NEW sow \in Nat, NEW interval \in Nat, NEW gi \in Nat
  PROVE  Pushed(s, PushPoint(s, v, sow, interval, gi), v, sow, gi,
                s.pts # <<>> /\ Regular(s.pts[Len(s.pts)].t, sow, interval))
<1> DEFINE n == Len(s.pts)
           idx == n + 1
           gapOk == idx = 1 \/ Regular(s.pts[idx - 1].t, sow, interval)
           p == [t |-> sow, epoch |-> gi, mw |-> v.mw, jump |-> v.jump, gapOk |-> gapOk,
                 slip |-> FALSE, outlier |-> FALSE, clockJump |-> FALSE]
           t == [s EXCEPT !.pts = Append(@, p)]
           gfTested == idx > 1 /\ gapOk /\ s.pts[idx - 1].gapOk
           m == IF gfTested /\ v.gf THEN markSlip(t, idx) ELSE t
           u == Pend(m, idx)
<1>0. s.pts \in Seq(QcPoint) /\ n \in Nat /\ idx \in Nat
    BY SatFields
<1>1. PushPoint(s, v, sow, interval, gi) = u
    BY DEF PushPoint
<1>2. p \in QcPoint
    BY DEF QcPoint, QcValues, Regular
<1>3. /\ Append(s.pts, p) \in Seq(QcPoint) /\ Len(Append(s.pts, p)) = idx
      /\ Append(s.pts, p)[idx] = p
      /\ \A i \in 1 .. n : Append(s.pts, p)[i] = s.pts[i]
    BY <1>0, <1>2
<1>4. /\ t.pts = Append(s.pts, p) /\ t.slips = s.slips /\ t.clockJumps = s.clockJumps
      /\ t.slipEver = s.slipEver /\ t.settled = s.settled /\ t.triCnt = s.triCnt
      /\ t.winCnt = s.winCnt /\ t.pending = s.pending /\ t \in QcSat
    BY <1>3 DEF QcSat
<1>5. p.t = sow /\ p.epoch = gi /\ p.jump = v.jump /\ p.gapOk = gapOk /\ p.slip = FALSE
      /\ p.clockJump = FALSE
    OBVIOUS
<1> HIDE DEF p, t
<1>6. SlipPlaces(t) = SlipPlaces(s) /\ JumpPlaces(t) = JumpPlaces(s)
    BY <1>0, <1>3, <1>4, <1>5 DEF SlipPlaces, JumpPlaces
<1>7. Counted(t) /\ idx \in 1 .. Len(t.pts)
    BY <1>0, <1>3, <1>4, <1>6 DEF Counted
<1>8. /\ Touched(t, m, {idx}) /\ SameJumps(t, m) /\ Counted(m) /\ m.pending = t.pending
    BY <1>4, <1>7, MarkSlipDoes, TouchedSelf
<1> HIDE DEF m
<1>9. /\ m \in QcSat /\ idx \in 1 .. Len(m.pts) /\ Len(m.pts) = idx /\ m.pending \in 0 .. Len(m.pts)
      /\ m.pts[idx].gapOk = gapOk
    BY <1>0, <1>3, <1>4, <1>5, <1>8 DEF Touched, AsFed
<1>10. /\ Touched(m, u, IF m.pts[idx].gapOk THEN {m.pending} ELSE {})
       /\ SameJumps(m, u) /\ Counted(u) /\ u.pending = idx
    BY <1>8, <1>9, PendDoes
<1> HIDE DEF u
<1>11. /\ u \in QcSat /\ Len(u.pts) = idx /\ u.settled = s.settled /\ u.triCnt = s.triCnt
       /\ u.winCnt = s.winCnt /\ (s.slipEver => u.slipEver)
    BY <1>4, <1>8, <1>9, <1>10 DEF Touched
<1>12. JumpPlaces(u) = JumpPlaces(s)
    BY <1>6, <1>8, <1>10 DEF SameJumps
<1>13. AsFed(p, u.pts[idx]) /\ ~u.pts[idx].clockJump
  <2>1. AsFed(t.pts[idx], m.pts[idx]) /\ AsFed(m.pts[idx], u.pts[idx])
      BY <1>7, <1>8, <1>9, <1>10 DEF Touched
  <2>2. idx \notin JumpPlaces(s)
      BY <1>0 DEF JumpPlaces
  <2>3. idx \in 1 .. Len(u.pts)
      BY <1>0, <1>11
  <2>4. QED
      BY <1>3, <1>4, <1>12, <2>1, <2>2, <2>3 DEF AsFed, JumpPlaces
<1>14. ASSUME NEW i \in 1 .. n
       PROVE  /\ AsFed(s.pts[i], u.pts[i]) /\ u.pts[i].clockJump = s.pts[i].clockJump
              /\ (i = n /\ gapOk) \/ u.pts[i] = s.pts[i]
  <2>1. i \in 1 .. Len(t.pts) /\ i \in 1 .. Len(m.pts) /\ i \in 1 .. Len(u.pts) /\ i # idx
      BY <1>0, <1>3, <1>4, <1>9, <1>11
  <2>2. t.pts[i] = s.pts[i] /\ m.pts[i] = t.pts[i]
      BY <1>3, <1>4, <1>8, <2>1 DEF Touched
  <2>3. AsFed(m.pts[i], u.pts[i])
      BY <1>10, <2>1 DEF Touched
  <2>4. i \in JumpPlaces(u) <=> i \in JumpPlaces(s)
      BY <1>12
  <2>5. u.pts[i].clockJump = s.pts[i].clockJump
    <3>1. u.pts[i] \in QcPoint /\ s.pts[i] \in QcPoint
        BY <1>11, <2>1, SatFields
    <3>2. u.pts[i].clockJump \in BOOLEAN /\ s.pts[i].clockJump \in BOOLEAN
        BY <3>1 DEF QcPoint
    <3>3. QED
        BY <2>1, <2>4, <3>2 DEF JumpPlaces
  <2>6. ~(i = n /\ gapOk) => u.pts[i] = m.pts[i]
      BY <1>4, <1>8, <1>9, <1>10, <2>1 DEF Touched
  <2>7. QED
      BY <2>2, <2>3, <2>5, <2>6
<1>15. ASSUME NEW i \in 1 .. n
       PROVE  gapOk => s.pts # <<>> /\ Regular(s.pts[n].t, sow, interval)
  <2>1. n >= 1 /\ idx - 1 = n /\ idx # 1
      BY <1>0
  <2>2. QED
      BY <2>1
<1> HIDE DEF gapOk, gfTested
<1>16. QED
    BY <1>0, <1>1, <1>5, <1>10, <1>11, <1>13, <1>14, <1>15 DEF Pushed, AsFed

\* u is s, of which no point is known that was not before.
Quiet(s, u) ==
    /\ u \in QcSat /\ Counted(u) /\ u.pts = s.pts /\ u.pending = s.pending
    /\ u.settled = s.settled /\ u.triCnt = s.triCnt /\ u.winCnt = s.winCnt
    /\ u.slipEver = s.slipEver

\* An epoch leaves a series as it is or adds one point to it.
LEMMA FeedSatDoes ==
  ASSUME NEW s \in QcSat, Counted(s), s.pending = Len(s.pts), NEW v \in QcValues,
         NEW sow \in Nat, NEW interval \in Nat, NEW gi \in Nat
  PROVE  \/ Quiet(s, FeedSat(s, v, sow, interval, gi))
         \/ Pushed(s, FeedSat(s, v, sow, interval, gi), v, sow, gi,
                   s.pts # <<>> /\ Regular(s.pts[Len(s.pts)].t, sow, interval))
<1> DEFINE u == FeedSat(s, v, sow, interval, gi)
           x == [s EXCEPT !.band = TRUE, !.n1 = @ + 1]
<1>1. CASE u = s
    BY <1>1 DEF Quiet
<1>2. CASE u = [s EXCEPT !.n1 = @ + 1]
  <2> HIDE DEF u
  <2>1. /\ u.pts = s.pts /\ u.pending = s.pending /\ u.slipEver = s.slipEver
        /\ u.slips = s.slips /\ u.clockJumps = s.clockJumps
        /\ u.settled = s.settled /\ u.triCnt = s.triCnt /\ u.winCnt = s.winCnt
      BY <1>2 DEF QcSat
  <2>3. u \in QcSat
    <3>1. s.n1 + 1 \in Nat /\ u = [s EXCEPT !.n1 = s.n1 + 1]
        BY <1>2, SatFields
    <3>2. QED
        BY <3>1 DEF QcSat
  <2>2. QED
      BY <2>1, <2>3 DEF Quiet, Counted, SlipPlaces, JumpPlaces, u
<1>3. CASE u = PushPoint(x, v, sow, interval, gi)
  <2>1. /\ x.pts = s.pts /\ x.pending = s.pending /\ x.slipEver = s.slipEver
        /\ x.slips = s.slips /\ x.clockJumps = s.clockJumps
        /\ x.settled = s.settled /\ x.triCnt = s.triCnt /\ x.winCnt = s.winCnt
      BY DEF QcSat
  <2>5. x \in QcSat
    <3>1. s.n1 + 1 \in Nat /\ x = [s EXCEPT !.band = TRUE, !.n1 = s.n1 + 1]
        BY SatFields
    <3> HIDE DEF x
    <3>2. QED
        BY <3>1 DEF QcSat
  <2> HIDE DEF x
  <2>2. Counted(x)
      BY <2>1 DEF Counted, SlipPlaces, JumpPlaces
  <2>3. Pushed(x, u, v, sow, gi, x.pts # <<>> /\ Regular(x.pts[Len(x.pts)].t, sow, interval))
      BY <1>3, <2>1, <2>2, <2>5, PushDoes
  <2>4. QED
      BY <2>1, <2>3 DEF Pushed
<1>4. QED
    BY <1>1, <1>2, <1>3 DEF FeedSat

\* Reclassify turns a slip into a clock jump, in the marks and in the counts.
LEMMA ReclassifyDoes ==
  ASSUME NEW s \in QcSat, Counted(s), NEW k \in 1 .. Len(s.pts), ~s.pts[k].clockJump
  PROVE  LET t == Reclassify(s, k)
         IN  /\ Touched(s, t, {k}) /\ Counted(t)
             /\ JumpPlaces(t) = JumpPlaces(s) \cup {k}
             /\ t.slipEver = s.slipEver /\ t.pending = s.pending
<1> DEFINE t == Reclassify(s, k)
           p == [s.pts[k] EXCEPT !.slip = FALSE, !.outlier = FALSE, !.clockJump = TRUE]
           r == [s.pts EXCEPT ![k] = p]
           c == IF s.pts[k].slip /\ s.slips > 0 THEN s.slips - 1 ELSE s.slips
<1>0. s.pts[k] \in QcPoint /\ s.pts \in Seq(QcPoint) /\ Len(s.pts) \in Nat
    BY SatFields
<1>1. p \in QcPoint /\ AsFed(s.pts[k], p) /\ ~p.slip /\ p.clockJump
    BY <1>0 DEF QcPoint, AsFed
<1>2. t = [s EXCEPT !.slips = c, !.pts = r, !.clockJumps = s.clockJumps + 1]
    BY <1>0 DEF Reclassify, QcSat
<1>3. /\ r \in Seq(QcPoint) /\ Len(r) = Len(s.pts) /\ r[k] = p
      /\ \A i \in 1 .. Len(s.pts) : i # k => r[i] = s.pts[i]
    BY <1>0, <1>1, PutPoint
<1>4. c \in Nat /\ s.clockJumps + 1 \in Nat
    BY SatFields
<1> HIDE DEF p, r, c
<1>5. /\ t.pts = r /\ t.slips = c /\ t.slipEver = s.slipEver /\ t.clockJumps = s.clockJumps + 1
      /\ t.settled = s.settled /\ t.triCnt = s.triCnt /\ t.winCnt = s.winCnt
      /\ t.pending = s.pending
    BY <1>2 DEF QcSat
<1>6. t \in QcSat
    BY <1>2, <1>3, <1>4 DEF QcSat
<1> HIDE DEF t
<1>7. Touched(s, t, {k})
    BY <1>0, <1>1, <1>3, <1>5, <1>6 DEF Touched, AsFed
<1>8. JumpPlaces(t) = JumpPlaces(s) \cup {k} /\ k \notin JumpPlaces(s)
    BY <1>0, <1>1, <1>3, <1>5 DEF JumpPlaces
<1>9. Cardinality(JumpPlaces(t)) = Cardinality(JumpPlaces(s)) + 1
    BY <1>8, PlacesFinite, FS_AddElement
<1>10. SlipPlaces(t) = SlipPlaces(s) \ {k}
    BY <1>0, <1>1, <1>3, <1>5 DEF SlipPlaces
<1>11. c = Cardinality(SlipPlaces(t))
  <2>1. CASE s.pts[k].slip
    <3>1. k \in SlipPlaces(s)
        BY <2>1 DEF SlipPlaces
    <3>2. /\ Cardinality(SlipPlaces(t)) = Cardinality(SlipPlaces(s)) - 1
          /\ Cardinality(SlipPlaces(s)) # 0
      <4>1. IsFiniteSet(SlipPlaces(s)) /\ SlipPlaces(s) # {}
          BY <3>1, PlacesFinite
      <4>2. Cardinality(SlipPlaces(s) \ {k}) = Cardinality(SlipPlaces(s)) - 1
          BY <3>1, <4>1, FS_RemoveElement
      <4>3. QED
          BY <1>10, <4>1, <4>2, FS_EmptySet
    <3>3. QED
        BY <2>1, <3>2, PlacesFinite DEF Counted, c
  <2>2. CASE ~s.pts[k].slip
    <3>1. SlipPlaces(t) = SlipPlaces(s)
        BY <1>10, <2>2 DEF SlipPlaces
    <3>2. QED
        BY <2>2, <3>1 DEF Counted, c
  <2>3. QED
      BY <2>1, <2>2
<1>12. QED
    BY <1>5, <1>7, <1>8, <1>9, <1>11 DEF Counted, t

-----------------------------------------------------------------------------
(* What is settled.                                                        *)

Exact(s) ==
    /\ s.triCnt = Cardinality({i \in 1 .. s.settled : OkBack(s, i, 3)})
    /\ s.winCnt = Cardinality({i \in 1 .. s.settled : OkBack(s, i, 1)})

\* Statistics that were exact are, if no settled point changes.
LEMMA ExactKept ==
  ASSUME NEW s \in QcSat, NEW t \in QcSat, Exact(s), s.settled <= Len(s.pts),
         t.settled = s.settled, t.triCnt = s.triCnt, t.winCnt = s.winCnt,
         \A i \in 1 .. s.settled : t.pts[i] = s.pts[i]
  PROVE  Exact(t)
<1>1. s.settled \in Nat
    BY SatFields
<1>2. ASSUME NEW n \in Nat
      PROVE  {i \in 1 .. t.settled : OkBack(t, i, n)} = {i \in 1 .. s.settled : OkBack(s, i, n)}
  <2>1. ASSUME NEW i \in 1 .. s.settled
        PROVE  OkBack(t, i, n) <=> OkBack(s, i, n)
    <3>1. CASE i > n
      <4>1. \A j \in i - n .. i : j \in 1 .. s.settled
          BY <1>1, <3>1
      <4>2. \A j \in i - n .. i : okAt(t, j) <=> okAt(s, j)
          BY <4>1 DEF okAt
      <4>3. QED
          BY <4>2 DEF OkBack
    <3>2. CASE ~(i > n)
        BY <3>2 DEF OkBack
    <3>3. QED
        BY <3>1, <3>2
  <2>2. QED
      BY <2>1
<1>3. 3 \in Nat /\ 1 \in Nat
    OBVIOUS
<1>4. QED
    BY <1>2, <1>3 DEF Exact

\* Places counted up to a and from a + 1 to b are those up to b.
LEMMA CountMore ==
  ASSUME NEW a \in Nat, NEW b \in Nat, a <= b, NEW S
  PROVE  /\ Cardinality(1 .. b \cap S) = Cardinality(1 .. a \cap S) + Cardinality(a + 1 .. b \cap S)
         /\ Cardinality(1 .. a \cap S) \in Nat /\ Cardinality(a + 1 .. b \cap S) \in Nat
<1> DEFINE A == 1 .. a \cap S
           B == a + 1 .. b \cap S
           C == 1 .. b \cap S
<1>1. C = A \cup B /\ A \cap B = {}
    OBVIOUS
<1>2. A \subseteq 1 .. a /\ B \subseteq a + 1 .. b
    OBVIOUS
<1>3. IsFiniteSet(1 .. a) /\ IsFiniteSet(a + 1 .. b)
  <2>1. a \in Int /\ b \in Int /\ 1 \in Int /\ a + 1 \in Int
      OBVIOUS
  <2>2. QED
      BY <2>1, FS_Interval
<1> HIDE DEF A, B, C
<1>4. IsFiniteSet(A) /\ IsFiniteSet(B)
    BY <1>2, <1>3, FS_Subset
<1>5. Cardinality(A) \in Nat /\ Cardinality(B) \in Nat
    BY <1>4, FS_CardinalityType
<1>7. Cardinality(A \cap B) = 0
    BY <1>1, FS_EmptySet
<1>8. Cardinality(A \cup B) = Cardinality(A) + Cardinality(B) - Cardinality(A \cap B)
    BY <1>4, FS_Union
<1>6. Cardinality(C) = Cardinality(A) + Cardinality(B)
    BY <1>1, <1>5, <1>7, <1>8
<1>9. QED
    BY <1>5, <1>6 DEF A, B, C

OkPlaces(s, n, a, b) == {i \in a .. b : OkBack(s, i, n)}

\* The same of the places a statistic counts.
LEMMA OkCount ==
  ASSUME NEW s, NEW n, NEW a \in Nat, NEW b \in Nat, a <= b
  PROVE  Cardinality(OkPlaces(s, n, 1, b))
           = Cardinality(OkPlaces(s, n, 1, a)) + Cardinality(OkPlaces(s, n, a + 1, b))
<1> DEFINE S == {i \in Nat : OkBack(s, i, n)}
<1>1. /\ (a + 1 .. b) \cap S = OkPlaces(s, n, a + 1, b)
      /\ (1 .. b) \cap S = OkPlaces(s, n, 1, b)
      /\ (1 .. a) \cap S = OkPlaces(s, n, 1, a)
    BY DEF OkPlaces
<1> HIDE DEF S
<1>2. Cardinality(1 .. b \cap S) = Cardinality(1 .. a \cap S) + Cardinality(a + 1 .. b \cap S)
    BY CountMore
<1>3. QED
    BY <1>1, <1>2

\* settleTo settles up to the point given and keeps the statistics exact.
LEMMA SettleDoes ==
  ASSUME NEW s \in QcSat, s.settled <= Len(s.pts), NEW idx \in 1 .. Len(s.pts), NEW interval \in Nat
  PROVE  LET t == settleTo(s, idx, interval)
         IN  /\ t \in QcSat /\ t.pts = s.pts /\ t.pending = s.pending /\ t.slipEver = s.slipEver
             /\ t.slips = s.slips /\ t.clockJumps = s.clockJumps
             /\ t.settled = IF idx > s.settled THEN idx ELSE s.settled
             /\ Exact(s) => Exact(t)
<1> DEFINE t == settleTo(s, idx, interval)
           new == s.settled + 1 .. idx
           tri == Cardinality({i \in new : OkBack(s, i, 3)})
           pairs == {i \in new : OkBack(s, i, 1)}
           rates == {i \in pairs : Regular(s.pts[i - 1].t, s.pts[i].t, interval)}
           upto == IF idx > s.settled THEN idx ELSE s.settled
<1>0. s.settled \in Nat /\ s.triCnt \in Nat /\ s.winCnt \in Nat /\ s.ionoCnt \in Nat
        /\ Len(s.pts) \in Nat /\ idx \in Nat /\ upto \in Nat
    BY SatFields
<1>1. tri \in Nat /\ Cardinality(pairs) \in Nat /\ Cardinality(rates) \in Nat
  <2>4. s.settled + 1 \in Int /\ idx \in Int
      BY <1>0
  <2>1. IsFiniteSet(new)
      BY <2>4, FS_Interval
  <2>2. {i \in new : OkBack(s, i, 3)} \subseteq new /\ pairs \subseteq new /\ rates \subseteq new
      OBVIOUS
  <2>3. QED
      BY <2>1, <2>2, FS_Subset, FS_CardinalityType
<1>2. t = [s EXCEPT !.triCnt = s.triCnt + tri, !.winCnt = s.winCnt + Cardinality(pairs),
                    !.ionoCnt = s.ionoCnt + Cardinality(rates), !.settled = upto]
    BY DEF settleTo
<1> DEFINE x == s.triCnt + tri
           y == s.winCnt + Cardinality(pairs)
           z == s.ionoCnt + Cardinality(rates)
<1>3. x \in Nat /\ y \in Nat /\ z \in Nat
  <2> DEFINE two == Cardinality(pairs)
             rated == Cardinality(rates)
  <2> HIDE DEF tri, two, rated
  <2>1. tri \in Nat /\ two \in Nat /\ rated \in Nat
      BY <1>1 DEF two, rated
  <2>2. s.triCnt \in Nat /\ s.winCnt \in Nat /\ s.ionoCnt \in Nat
      BY <1>0
  <2>4. s.triCnt + tri \in Nat /\ s.winCnt + two \in Nat /\ s.ionoCnt + rated \in Nat
      BY <2>1, <2>2
  <2>3. QED
      BY <2>4 DEF two, rated
<1>4. t = [s EXCEPT !.triCnt = x, !.winCnt = y, !.ionoCnt = z, !.settled = upto]
    BY <1>2
<1> HIDE DEF t, x, y, z
<1>5. /\ t.pts = s.pts /\ t.pending = s.pending /\ t.slipEver = s.slipEver /\ t.slips = s.slips
      /\ t.clockJumps = s.clockJumps /\ t.settled = upto /\ t.triCnt = x /\ t.winCnt = y
    BY <1>4 DEF QcSat
<1>6. t \in QcSat
    BY <1>0, <1>3, <1>4 DEF QcSat
<1>7. ASSUME NEW n \in Nat
      PROVE  {i \in 1 .. t.settled : OkBack(t, i, n)} = {i \in 1 .. upto : OkBack(s, i, n)}
    BY <1>5 DEF OkBack, okAt
<1>8. ASSUME NEW n \in Nat
      PROVE  Cardinality({i \in 1 .. upto : OkBack(s, i, n)})
               = Cardinality({i \in 1 .. s.settled : OkBack(s, i, n)})
                   + Cardinality({i \in new : OkBack(s, i, n)})
  <2>1. OkPlaces(s, n, s.settled + 1, upto) = {i \in new : OkBack(s, i, n)}
      BY <1>0 DEF OkPlaces
  <2>2. s.settled <= upto
      BY <1>0
  <2> HIDE DEF upto
  <2>3. Cardinality(OkPlaces(s, n, 1, upto))
          = Cardinality(OkPlaces(s, n, 1, s.settled))
              + Cardinality(OkPlaces(s, n, s.settled + 1, upto))
      BY <1>0, <2>2, OkCount
  <2>4. QED
      BY <2>1, <2>3 DEF OkPlaces
<1>9. Exact(s) => Exact(t)
    BY <1>5, <1>7, <1>8 DEF Exact, x, y
<1>10. QED
    BY <1>5, <1>6, <1>9 DEF t

-----------------------------------------------------------------------------
(* One satellite after T epochs, of which done are settled and jd judged.  *)

\* When the epochs were; no two are closer than the receiver's interval.
Clock(tm, T, sow) ==
    /\ tm \in [1 .. T -> Nat]
    /\ \A a, b \in 1 .. T : a < b => tm[a] + QcRate <= tm[b]
    /\ T > 0 => tm[T] = sow

Placed(s, T, done, jd, tm) ==
    /\ s.pending = Len(s.pts) /\ s.settled <= Len(s.pts)
    /\ \A i \in 1 .. Len(s.pts) :
         /\ s.pts[i].epoch \in 1 .. T /\ s.pts[i].t = tm[s.pts[i].epoch]
         /\ i <= s.settled <=> s.pts[i].epoch <= done
         /\ s.pts[i].clockJump => s.pts[i].epoch <= jd
    /\ \A i, j \in 1 .. Len(s.pts) : i < j => s.pts[i].epoch < s.pts[j].epoch

SatHolds(s, T, done, jd, tm) == s \in QcSat /\ Counted(s) /\ Placed(s, T, done, jd, tm)

\* t continues s: behind the points of s come those of later epochs than T.
Carries(s, t, T) ==
    /\ Len(s.pts) <= Len(t.pts)
    /\ s.slipEver => t.slipEver
    /\ \A i \in 1 .. Len(s.pts) :
         /\ t.pts[i].epoch = s.pts[i].epoch /\ t.pts[i].jump = s.pts[i].jump
         /\ s.pts[i].clockJump => t.pts[i].clockJump
    /\ \A i \in 1 .. Len(t.pts) : i > Len(s.pts) => t.pts[i].epoch > T

Extends(tm2, tm, T, sow) == (\A e \in 1 .. T : tm2[e] = tm[e]) /\ tm2[T + 1] = sow

\* A satellite that is not in the epoch is as it was.
LEMMA QuietHolds ==
  ASSUME NEW T \in Nat, NEW done \in Nat, NEW jd \in Nat, NEW tm, NEW tm2, NEW s, NEW u,
         SatHolds(s, T, done, jd, tm), Quiet(s, u),
         NEW sow, Extends(tm2, tm, T, sow)
  PROVE  SatHolds(u, T + 1, done, jd, tm2) /\ Carries(s, u, T) /\ (Exact(s) => Exact(u))
<1>1. s \in QcSat /\ u \in QcSat /\ u.pts = s.pts /\ s.settled <= Len(s.pts)
    BY DEF SatHolds, Quiet, Placed
<1>2. Len(s.pts) \in Nat /\ \A i \in 1 .. Len(s.pts) : s.pts[i] \in QcPoint
    BY <1>1, SatFields
<1>3. Exact(s) => Exact(u)
    BY <1>1, ExactKept DEF Quiet
<1>4. Carries(s, u, T)
    BY <1>1, <1>2 DEF Carries, Quiet
<1>5. Placed(u, T + 1, done, jd, tm2)
  <2>1. Placed(s, T, done, jd, tm)
      BY DEF SatHolds
  <2>2. u.settled = s.settled /\ u.pending = s.pending
      BY DEF Quiet
  <2>3. ASSUME NEW i \in 1 .. Len(s.pts)
        PROVE  /\ s.pts[i].epoch \in 1 .. T + 1 /\ s.pts[i].t = tm2[s.pts[i].epoch]
               /\ i <= s.settled <=> s.pts[i].epoch <= done
               /\ s.pts[i].clockJump => s.pts[i].epoch <= jd
    <3> DEFINE p == s.pts[i]
    <3>1. /\ p.epoch \in 1 .. T /\ p.t = tm[p.epoch] /\ (i <= s.settled <=> p.epoch <= done)
          /\ p.clockJump => p.epoch <= jd
        BY <2>1 DEF Placed
    <3> HIDE DEF p
    <3>2. p.epoch \in 1 .. T + 1
        BY <3>1
    <3>3. tm2[p.epoch] = tm[p.epoch]
        BY <3>1 DEF Extends
    <3>4. QED
        BY <3>1, <3>2, <3>3 DEF p
  <2>4. \A i, j \in 1 .. Len(s.pts) : i < j => s.pts[i].epoch < s.pts[j].epoch
      BY <2>1 DEF Placed
  <2>5. s.pending = Len(s.pts)
      BY <2>1 DEF Placed
  <2>6. QED
      BY <1>1, <2>2, <2>3, <2>4, <2>5 DEF Placed
<1>6. QED
    BY <1>3, <1>4, <1>5 DEF SatHolds, Quiet

\* A satellite with one point more is as it should be one epoch later.
LEMMA PushedHolds ==
  ASSUME NEW T \in Nat, NEW done \in 0 .. T, NEW jd \in 0 .. T, NEW tm, NEW tm2, NEW s, NEW u,
         NEW v, NEW sow, NEW ok \in BOOLEAN,
         SatHolds(s, T, done, jd, tm), Pushed(s, u, v, sow, T + 1, ok),
         Extends(tm2, tm, T, sow)
  PROVE  /\ SatHolds(u, T + 1, done, jd, tm2) /\ Carries(s, u, T)
         /\ Exact(s) /\ (ok => s.settled < Len(s.pts)) => Exact(u)
<1> DEFINE n == Len(s.pts)
<1>1. s \in QcSat /\ u \in QcSat /\ Len(u.pts) = n + 1 /\ u.settled = s.settled /\ s.settled <= n
    BY DEF SatHolds, Pushed, Placed
<1>2. /\ n \in Nat /\ \A i \in 1 .. n : s.pts[i] \in QcPoint /\ s.pts[i].epoch \in Nat
      /\ \A i \in 1 .. n + 1 : u.pts[i] \in QcPoint
      /\ s.settled \in Nat
    BY <1>1, SatFields DEF QcPoint
<1>3. /\ \A i \in 1 .. n :
           /\ u.pts[i].epoch = s.pts[i].epoch /\ u.pts[i].t = s.pts[i].t
           /\ u.pts[i].jump = s.pts[i].jump /\ u.pts[i].clockJump = s.pts[i].clockJump
           /\ (i # n \/ ~ok) => u.pts[i] = s.pts[i]
      /\ u.pts[n + 1].epoch = T + 1 /\ u.pts[n + 1].t = sow /\ ~u.pts[n + 1].clockJump
      /\ s.slipEver => u.slipEver
      /\ u.pending = n + 1 /\ u.triCnt = s.triCnt /\ u.winCnt = s.winCnt
    BY <1>1 DEF Pushed, AsFed
<1>4. \A i \in 1 .. n :
         /\ s.pts[i].epoch \in 1 .. T /\ s.pts[i].t = tm[s.pts[i].epoch]
         /\ i <= s.settled <=> s.pts[i].epoch <= done
         /\ s.pts[i].clockJump => s.pts[i].epoch <= jd
    BY DEF SatHolds, Placed
<1>5. \A i, j \in 1 .. n : i < j => s.pts[i].epoch < s.pts[j].epoch
    BY DEF SatHolds, Placed
<1> HIDE DEF n
<1>6. \A i \in 1 .. n + 1 : i \in 1 .. n \/ i = n + 1
    BY <1>2
<1>7. Carries(s, u, T)
  <2>1. \A i \in 1 .. n + 1 : i > n => u.pts[i].epoch > T
      BY <1>2, <1>3
  <2>2. \A i \in 1 .. n :
           /\ u.pts[i].epoch = s.pts[i].epoch /\ u.pts[i].jump = s.pts[i].jump
           /\ s.pts[i].clockJump => u.pts[i].clockJump
      BY <1>3
  <2>3. n <= n + 1
      BY <1>2
  <2>4. QED
      BY <1>1, <1>3, <2>1, <2>2, <2>3 DEF Carries, n
<1>8. ASSUME NEW i \in 1 .. n + 1
      PROVE  /\ u.pts[i].epoch \in 1 .. T + 1 /\ u.pts[i].t = tm2[u.pts[i].epoch]
             /\ i <= u.settled <=> u.pts[i].epoch <= done
             /\ u.pts[i].clockJump => u.pts[i].epoch <= jd
  <2>1. CASE i \in 1 .. n
    <3>1. /\ u.pts[i].epoch = s.pts[i].epoch /\ u.pts[i].t = s.pts[i].t
          /\ u.pts[i].clockJump = s.pts[i].clockJump
        BY <1>3, <2>1
    <3>2. /\ s.pts[i].epoch \in 1 .. T /\ s.pts[i].t = tm[s.pts[i].epoch]
          /\ i <= s.settled <=> s.pts[i].epoch <= done
          /\ s.pts[i].clockJump => s.pts[i].epoch <= jd
        BY <1>4, <2>1
    <3>3. s.pts[i].epoch \in 1 .. T + 1 /\ tm2[s.pts[i].epoch] = tm[s.pts[i].epoch]
        BY <3>2 DEF Extends
    <3>4. QED
        BY <1>1, <3>1, <3>2, <3>3
  <2>2. CASE i = n + 1
      BY <1>1, <1>2, <1>3, <2>2 DEF Extends
  <2>3. QED
      BY <1>6, <2>1, <2>2
<1>9. ASSUME NEW i \in 1 .. n + 1, NEW j \in 1 .. n + 1, i < j
      PROVE  u.pts[i].epoch < u.pts[j].epoch
  <2>1. i \in 1 .. n
      BY <1>2, <1>9
  <2>2. CASE j \in 1 .. n
      BY <1>3, <1>5, <1>9, <2>1, <2>2
  <2>3. CASE j = n + 1
    <3>1. u.pts[i].epoch \in 1 .. T /\ u.pts[j].epoch = T + 1
        BY <1>3, <1>4, <2>1, <2>3
    <3>2. QED
        BY <3>1
  <2>4. QED
      BY <1>6, <2>2, <2>3
<1>10. Placed(u, T + 1, done, jd, tm2)
    BY <1>1, <1>2, <1>3, <1>8, <1>9 DEF Placed
<1>11. ASSUME Exact(s), ok => s.settled < n
       PROVE  Exact(u)
  <2>1. \A i \in 1 .. s.settled : u.pts[i] = s.pts[i]
      BY <1>1, <1>2, <1>3, <1>11
  <2>2. QED
      BY <1>1, <1>3, <1>11, <2>1, ExactKept DEF n
<1>12. QED
    BY <1>1, <1>7, <1>10, <1>11 DEF SatHolds, Pushed, n

\* No step over an epoch is the interval of the receiver.
LEMMA GapIsSeen ==
  ASSUME NEW T \in Nat, NEW sow \in Nat, NEW tm, Clock(tm, T, sow), NEW dt \in Nat, dt >= QcRate,
         NEW e \in 1 .. T, Regular(tm[e], sow + dt, QcRate), QcRate \in Nat \ {0}
  PROVE  e = T
<1>1. tm[e] \in Nat /\ tm[T] = sow
    BY DEF Clock
<1>2. e # T => tm[e] + QcRate <= sow
    BY <1>1 DEF Clock
<1>3. QED
    BY <1>1, <1>2 DEF Regular

\* What holds with fewer epochs judged holds with more.
LEMMA JudgedMore ==
  ASSUME NEW T, NEW done, NEW jd \in Nat, NEW tm, NEW s, SatHolds(s, T, done, jd, tm), NEW j \in Nat,
         jd <= j
  PROVE  SatHolds(s, T, done, j, tm)
<1>1. \A i \in 1 .. Len(s.pts) : s.pts[i].epoch \in Nat
    BY SatFields DEF SatHolds, QcPoint
<1>2. QED
    BY <1>1 DEF SatHolds, Placed

\* A series continues itself.
LEMMA CarriesSelf ==
  ASSUME NEW s \in QcSat, NEW T
  PROVE  Carries(s, s, T)
  BY SatFields DEF Carries

\* A judgement marks a point that is not settled.
LEMMA ReclassifyHolds ==
  ASSUME NEW T \in Nat, NEW done \in Nat, NEW jd \in Nat, NEW tm, NEW s,
         SatHolds(s, T, done, jd, tm), done <= jd,
         NEW k \in 1 .. Len(s.pts), s.pts[k].epoch = jd + 1
  PROVE  LET t == Reclassify(s, k)
         IN  /\ SatHolds(t, T, done, jd + 1, tm) /\ Carries(s, t, T) /\ Len(t.pts) = Len(s.pts)
             /\ Exact(s) => Exact(t)
             /\ t.slipEver = s.slipEver /\ t.pts[k].clockJump
<1> DEFINE t == Reclassify(s, k)
<1>1. s \in QcSat /\ Counted(s) /\ ~s.pts[k].clockJump
    BY DEF SatHolds, Placed
<1>2. /\ Touched(s, t, {k}) /\ Counted(t) /\ JumpPlaces(t) = JumpPlaces(s) \cup {k}
      /\ t.slipEver = s.slipEver /\ t.pending = s.pending
    BY <1>1, ReclassifyDoes
<1> HIDE DEF t
<1>3. /\ t \in QcSat /\ Len(t.pts) = Len(s.pts) /\ t.settled = s.settled
      /\ t.triCnt = s.triCnt /\ t.winCnt = s.winCnt
      /\ \A i \in 1 .. Len(s.pts) : /\ t.pts[i].epoch = s.pts[i].epoch /\ t.pts[i].t = s.pts[i].t
                                    /\ t.pts[i].jump = s.pts[i].jump
                                    /\ i # k => t.pts[i] = s.pts[i]
    BY <1>2 DEF Touched, AsFed
<1>4. Len(s.pts) \in Nat /\ s.settled \in Nat /\ \A i \in 1 .. Len(s.pts) : s.pts[i].epoch \in Nat
    BY <1>1, SatFields DEF QcPoint
<1>5. t.pts[k].clockJump
    BY <1>2 DEF JumpPlaces
<1>6. Placed(t, T, done, jd + 1, tm)
  <2>1. \A i \in 1 .. Len(s.pts) : t.pts[i].clockJump => s.pts[i].epoch <= jd + 1
    <3>1. ASSUME NEW i \in 1 .. Len(s.pts), t.pts[i].clockJump PROVE s.pts[i].epoch <= jd + 1
      <4>1. i = k \/ s.pts[i].clockJump
          BY <1>3, <3>1
      <4>2. s.pts[i].clockJump => s.pts[i].epoch <= jd
          BY DEF SatHolds, Placed
      <4>3. QED
          BY <1>4, <4>1, <4>2
    <3>2. QED
        BY <3>1
  <2>2. /\ s.pending = Len(s.pts) /\ s.settled <= Len(s.pts)
        /\ \A i \in 1 .. Len(s.pts) :
             /\ s.pts[i].epoch \in 1 .. T /\ s.pts[i].t = tm[s.pts[i].epoch]
             /\ i <= s.settled <=> s.pts[i].epoch <= done
        /\ \A i, j \in 1 .. Len(s.pts) : i < j => s.pts[i].epoch < s.pts[j].epoch
      BY DEF SatHolds, Placed
  <2>3. QED
      BY <1>2, <1>3, <2>1, <2>2 DEF Placed
<1>7. Carries(s, t, T)
  <2>1. \A i \in 1 .. Len(s.pts) : s.pts[i].clockJump => t.pts[i].clockJump
    <3>1. ASSUME NEW i \in 1 .. Len(s.pts), s.pts[i].clockJump PROVE t.pts[i].clockJump
        BY <1>3, <1>5, <3>1
    <3>2. QED
        BY <3>1
  <2>2. s.slipEver => t.slipEver
      BY <1>2 DEF Touched
  <2>3. Len(s.pts) <= Len(t.pts) /\ \A i \in 1 .. Len(t.pts) : ~(i > Len(s.pts))
      BY <1>3, <1>4
  <2>4. QED
      BY <1>3, <2>1, <2>2, <2>3 DEF Carries
<1>8. Exact(s) => Exact(t)
  <2>1. s.settled <= Len(s.pts) /\ ~(k <= s.settled)
      BY <1>4 DEF SatHolds, Placed
  <2>2. \A i \in 1 .. s.settled : t.pts[i] = s.pts[i]
      BY <1>3, <1>4, <2>1
  <2>3. QED
      BY <1>1, <1>3, <2>1, <2>2, ExactKept
<1>9. QED
    BY <1>2, <1>3, <1>5, <1>6, <1>7, <1>8 DEF SatHolds, t

Later(a, b) == IF a > b THEN a ELSE b

\* Settling the next epoch of a satellite that has it.
LEMMA SettleHolds ==
  ASSUME NEW T \in Nat, NEW done \in Nat, NEW jd \in Nat, NEW tm, NEW s,
         SatHolds(s, T, done, jd, tm), NEW interval \in Nat,
         NEW idx \in 1 .. Len(s.pts), s.pts[idx].epoch <= done + 1
  PROVE  LET t == settleTo(s, idx, interval)
         IN  /\ SatHolds(t, T, Later(s.pts[idx].epoch, done), jd, tm) /\ Carries(s, t, T)
             /\ Len(t.pts) = Len(s.pts)
             /\ Exact(s) => Exact(t)
<1> DEFINE t == settleTo(s, idx, interval)
           e == s.pts[idx].epoch
<1>1. s \in QcSat /\ Counted(s) /\ s.settled <= Len(s.pts)
    BY DEF SatHolds, Placed
<1>2. /\ t \in QcSat /\ t.pts = s.pts /\ t.pending = s.pending /\ t.slipEver = s.slipEver
      /\ t.slips = s.slips /\ t.clockJumps = s.clockJumps
      /\ t.settled = IF idx > s.settled THEN idx ELSE s.settled
      /\ Exact(s) => Exact(t)
    BY <1>1, SettleDoes
<1> HIDE DEF t
<1>3. Len(s.pts) \in Nat /\ s.settled \in Nat /\ \A i \in 1 .. Len(s.pts) : s.pts[i].epoch \in Nat
    BY <1>1, SatFields DEF QcPoint
<1>4. \A i \in 1 .. Len(s.pts) : i <= t.settled <=> s.pts[i].epoch <= Later(e, done)
  <2>1. \A i \in 1 .. Len(s.pts) : i <= s.settled <=> s.pts[i].epoch <= done
      BY DEF SatHolds, Placed
  <2>2. \A i, j \in 1 .. Len(s.pts) : i < j => s.pts[i].epoch < s.pts[j].epoch
      BY DEF SatHolds, Placed
  <2> HIDE DEF e
  <2>3. e = s.pts[idx].epoch /\ e \in Nat
      BY <1>3 DEF e
  <2>4. CASE idx <= s.settled
    <3>1. e <= done /\ t.settled = s.settled
        BY <1>2, <1>3, <2>1, <2>3, <2>4
    <3>2. Later(e, done) = done
        BY <2>3, <3>1 DEF Later
    <3>3. QED
        BY <2>1, <3>1, <3>2
  <2>5. CASE ~(idx <= s.settled)
    <3>1. ~(e <= done) /\ t.settled = idx
        BY <1>2, <1>3, <2>1, <2>3, <2>5
    <3>2. Later(e, done) = e
        BY <2>3, <3>1 DEF Later
    <3>3. ASSUME NEW i \in 1 .. Len(s.pts) PROVE i <= idx <=> s.pts[i].epoch <= e
      <4>1. i < idx \/ i = idx \/ idx < i
          BY <1>3
      <4>2. s.pts[i].epoch \in Nat /\ idx \in Nat /\ i \in Nat
          BY <1>3
      <4>3. CASE i < idx
        <5>1. s.pts[i].epoch < e
            BY <2>2, <2>3, <4>3
        <5>2. QED
            BY <2>3, <4>2, <4>3, <5>1
      <4>4. CASE i = idx
          BY <2>3, <4>2, <4>4
      <4>5. CASE idx < i
        <5>1. e < s.pts[i].epoch
            BY <2>2, <2>3, <4>5
        <5>2. QED
            BY <2>3, <4>2, <4>5, <5>1
      <4>6. QED
          BY <4>1, <4>3, <4>4, <4>5
    <3>4. QED
        BY <3>1, <3>2, <3>3
  <2>6. QED
      BY <2>4, <2>5
<1>5. Placed(t, T, Later(e, done), jd, tm)
  <2>1. t.settled <= Len(s.pts)
      BY <1>1, <1>2, <1>3
  <2>2. QED
      BY <1>2, <1>4, <2>1 DEF SatHolds, Placed
<1>6. Counted(t)
    BY <1>1, <1>2 DEF Counted, SlipPlaces, JumpPlaces
<1>7. Carries(s, t, T)
    BY <1>2, CarriesSelf, <1>1 DEF Carries
<1>8. QED
    BY <1>2, <1>5, <1>6, <1>7 DEF SatHolds, t

\* A satellite without a point in epoch e has nothing to settle there.
LEMMA SettleNone ==
  ASSUME NEW T \in Nat, NEW done \in Nat, NEW jd \in Nat, NEW tm, NEW s,
         SatHolds(s, T, done, jd, tm), NEW e \in Nat, e <= done + 1,
         \A i \in 1 .. Len(s.pts) : s.pts[i].epoch # e
  PROVE  SatHolds(s, T, Later(e, done), jd, tm)
<1>1. \A i \in 1 .. Len(s.pts) : s.pts[i].epoch \in Nat
    BY SatFields DEF SatHolds, QcPoint
<1>2. \A i \in 1 .. Len(s.pts) : s.pts[i].epoch <= done <=> s.pts[i].epoch <= Later(e, done)
    BY <1>1 DEF Later
<1>3. QED
    BY <1>2 DEF SatHolds, Placed

-----------------------------------------------------------------------------
(* All satellites of a run.                                                *)

Locs(S) == UNION {[D -> Nat] : D \in SUBSET S}

QcRec(S) ==
    [interval : Nat, seeded : BOOLEAN, totalEpochs : Nat, sow : Nat, sats : [S -> QcSat],
     ring : Seq(Locs(S)), clockJumpEpochs : Nat, finished : BOOLEAN]

\* loc is where the points of epoch e stand.
LocOf(sats, loc, e) ==
    /\ DOMAIN loc = {s \in DOMAIN sats : \E i \in 1 .. Len(sats[s].pts) : sats[s].pts[i].epoch = e}
    /\ \A s \in DOMAIN loc :
         loc[s] \in 1 .. Len(sats[s].pts) /\ sats[s].pts[loc[s]].epoch = e

Depth(T) == IF T < 4 THEN T ELSE 4

\* s jumped from the epoch before to e, and never slipped.
JumpsAt(s, e) ==
    /\ ~s.slipEver
    /\ \E j \in 1 .. Len(s.pts) : /\ j > 1 /\ s.pts[j].epoch = e /\ s.pts[j].jump
                                  /\ s.pts[j - 1].epoch + 1 = e

\* The jump of epoch e is found.
JumpFound(sats, e) ==
    (\A s \in DOMAIN sats : JumpsAt(sats[s], e)) /\ Cardinality(DOMAIN sats) >= MinVotes =>
       \A s \in DOMAIN sats : \A i \in 1 .. Len(sats[s].pts) :
           sats[s].pts[i].epoch = e => sats[s].pts[i].clockJump

RingHolds(q) ==
    /\ Len(q.ring) = Depth(q.totalEpochs)
    /\ \A r \in 1 .. Len(q.ring) :
         LocOf(q.sats, q.ring[r], q.totalEpochs - Len(q.ring) + r)

QState(q, S, tm, done, jd) ==
    /\ q \in QcRec(S) /\ IsFiniteSet(S)
    /\ Clock(tm, q.totalEpochs, q.sow)
    /\ q.totalEpochs > 1 \/ qcInput.nominal > 0 => q.seeded
    /\ \A s \in S : SatHolds(q.sats[s], q.totalEpochs, done, jd, tm)
    /\ q.interval = QcRate \/ q.totalEpochs <= 1 => \A s \in S : Exact(q.sats[s])
    /\ RingHolds(q)
    /\ \A e \in 1 .. jd : JumpFound(q.sats, e)

\* A jump in the series continued was one in the series.
LEMMA CarriesJump ==
  ASSUME NEW s \in QcSat, NEW t \in QcSat, NEW T \in Nat, Carries(s, t, T), NEW e \in 1 .. T,
         JumpsAt(t, e)
  PROVE  JumpsAt(s, e)
<1>1. /\ Len(s.pts) \in Nat /\ Len(t.pts) \in Nat
      /\ \A i \in 1 .. Len(t.pts) : t.pts[i].epoch \in Nat
      /\ s.slipEver \in BOOLEAN /\ t.slipEver \in BOOLEAN
    BY SatFields DEF QcPoint
<1>2. PICK j \in 1 .. Len(t.pts) : /\ j > 1 /\ t.pts[j].epoch = e /\ t.pts[j].jump
                                   /\ t.pts[j - 1].epoch + 1 = e
    BY DEF JumpsAt
<1>3. j <= Len(s.pts)
    BY <1>1, <1>2 DEF Carries
<1>4. j \in 1 .. Len(s.pts) /\ j - 1 \in 1 .. Len(s.pts)
    BY <1>1, <1>2, <1>3
<1>5. QED
    BY <1>2, <1>4 DEF Carries, JumpsAt

\* A jump found stays found as the series go on.
LEMMA JumpFoundKept ==
  ASSUME NEW S, NEW x \in [S -> QcSat], NEW y \in [S -> QcSat], NEW T \in Nat,
         \A s \in S : Carries(x[s], y[s], T), NEW e \in 1 .. T, JumpFound(x, e)
  PROVE  JumpFound(y, e)
<1>1. DOMAIN x = S /\ DOMAIN y = S
    OBVIOUS
<1>2. SUFFICES ASSUME \A s \in S : JumpsAt(y[s], e), Cardinality(S) >= MinVotes,
                      NEW s \in S, NEW i \in 1 .. Len(y[s].pts), y[s].pts[i].epoch = e
               PROVE  y[s].pts[i].clockJump
    BY <1>1 DEF JumpFound
<1>3. \A r \in S : JumpsAt(x[r], e)
    BY <1>2, CarriesJump
<1>4. /\ Len(x[s].pts) \in Nat /\ Len(y[s].pts) \in Nat /\ Carries(x[s], y[s], T)
    BY SatFields
<1>5. i \in 1 .. Len(x[s].pts)
    BY <1>2, <1>4 DEF Carries
<1>6. x[s].pts[i].epoch = e
    BY <1>2, <1>4, <1>5 DEF Carries
<1>7. x[s].pts[i].clockJump
    BY <1>1, <1>2, <1>3, <1>5, <1>6 DEF JumpFound
<1>8. QED
    BY <1>4, <1>5, <1>7 DEF Carries

\* Where the points of an epoch stand stays so as the series go on.
LEMMA LocKept ==
  ASSUME NEW S, NEW x \in [S -> QcSat], NEW y \in [S -> QcSat], NEW T \in Nat,
         \A s \in S : Carries(x[s], y[s], T), NEW e \in Int, e <= T, NEW loc, LocOf(x, loc, e)
  PROVE  LocOf(y, loc, e)
<1>1. DOMAIN x = S /\ DOMAIN y = S
    OBVIOUS
<1>2. ASSUME NEW s \in S
      PROVE  (\E i \in 1 .. Len(x[s].pts) : x[s].pts[i].epoch = e)
               <=> (\E i \in 1 .. Len(y[s].pts) : y[s].pts[i].epoch = e)
  <2>1. /\ Len(x[s].pts) \in Nat /\ Len(y[s].pts) \in Nat /\ Carries(x[s], y[s], T)
        /\ Len(x[s].pts) <= Len(y[s].pts)
        /\ \A i \in 1 .. Len(y[s].pts) : y[s].pts[i].epoch \in Nat
      BY SatFields DEF Carries, QcPoint
  <2>2. ASSUME NEW i \in 1 .. Len(x[s].pts), x[s].pts[i].epoch = e
        PROVE  i \in 1 .. Len(y[s].pts) /\ y[s].pts[i].epoch = e
      BY <2>1, <2>2 DEF Carries
  <2>3. ASSUME NEW i \in 1 .. Len(y[s].pts), y[s].pts[i].epoch = e
        PROVE  i \in 1 .. Len(x[s].pts) /\ x[s].pts[i].epoch = e
      BY <2>1, <2>3 DEF Carries
  <2>4. QED
      BY <2>2, <2>3
<1>3. DOMAIN loc = {s \in S : \E i \in 1 .. Len(y[s].pts) : y[s].pts[i].epoch = e}
    BY <1>1, <1>2 DEF LocOf
<1>4. ASSUME NEW s \in DOMAIN loc
      PROVE  loc[s] \in 1 .. Len(y[s].pts) /\ y[s].pts[loc[s]].epoch = e
  <2>1. s \in S
      BY <1>1 DEF LocOf
  <2>2. loc[s] \in 1 .. Len(x[s].pts) /\ x[s].pts[loc[s]].epoch = e
      BY DEF LocOf
  <2>3. /\ Len(x[s].pts) \in Nat /\ Len(y[s].pts) \in Nat /\ Carries(x[s], y[s], T)
      BY <2>1, SatFields
  <2>4. QED
      BY <2>2, <2>3 DEF Carries
<1>5. QED
    BY <1>1, <1>3, <1>4 DEF LocOf

SatsHold(q, y, S, tm, done, jd) ==
    /\ y \in [S -> QcSat]
    /\ \A s \in S : /\ SatHolds(y[s], q.totalEpochs, done, jd, tm)
                    /\ Carries(q.sats[s], y[s], q.totalEpochs)
                    /\ Exact(q.sats[s]) => Exact(y[s])

WithSats(q, y, n) == [q EXCEPT !.sats = y, !.clockJumpEpochs = n]

\* A step that changes but the satellites and the count of jumps.
LEMMA SatsChange ==
  ASSUME NEW S, NEW q, NEW tm, NEW done \in Nat, NEW jd \in Nat, NEW done2 \in Nat,
         NEW jd2 \in Nat, QState(q, S, tm, done, jd), jd <= q.totalEpochs,
         NEW y, NEW n \in Nat, SatsHold(q, y, S, tm, done2, jd2),
         \A e \in 1 .. jd2 : e <= jd \/ JumpFound(y, e)
  PROVE  QState(WithSats(q, y, n), S, tm, done2, jd2)
<1> DEFINE T == q.totalEpochs
           p == WithSats(q, y, n)
<1>1. /\ q \in QcRec(S) /\ IsFiniteSet(S) /\ Clock(tm, T, q.sow)
      /\ T > 1 \/ qcInput.nominal > 0 => q.seeded
      /\ q.interval = QcRate \/ T <= 1 => \A s \in S : Exact(q.sats[s])
      /\ RingHolds(q) /\ \A e \in 1 .. jd : JumpFound(q.sats, e)
    BY DEF QState
<1>2. /\ p.interval = q.interval /\ p.seeded = q.seeded /\ p.totalEpochs = T /\ p.sow = q.sow
      /\ p.sats = y /\ p.ring = q.ring /\ p.finished = q.finished /\ p \in QcRec(S)
    BY <1>1 DEF QcRec, SatsHold, WithSats
<1>3. T \in Nat /\ q.sats \in [S -> QcSat] /\ q.ring \in Seq(Locs(S)) /\ Len(q.ring) \in Nat
    BY <1>1 DEF QcRec
<1> HIDE DEF p
<1>4. RingHolds(p)
  <2>1. ASSUME NEW r \in 1 .. Len(q.ring) PROVE LocOf(y, q.ring[r], T - Len(q.ring) + r)
    <3>1. LocOf(q.sats, q.ring[r], T - Len(q.ring) + r)
        BY <1>1 DEF RingHolds
    <3>2. T - Len(q.ring) + r \in Int /\ T - Len(q.ring) + r <= T
        BY <1>3
    <3>3. QED
        BY <1>3, <3>1, <3>2, LocKept DEF SatsHold
  <2>2. QED
      BY <1>1, <1>2, <2>1 DEF RingHolds
<1>5. \A e \in 1 .. jd2 : JumpFound(y, e)
  <2>1. ASSUME NEW e \in 1 .. jd2, e <= jd PROVE JumpFound(y, e)
    <3>1. e \in 1 .. jd /\ e \in 1 .. T
        BY <1>3, <2>1
    <3>2. QED
        BY <1>1, <1>3, <3>1, JumpFoundKept DEF SatsHold
  <2>2. QED
      BY <2>1
<1>6. QED
    BY <1>1, <1>2, <1>4, <1>5 DEF QState, SatsHold, p

\* What such a step leaves alone.
LEMMA WithSatsIs ==
  ASSUME NEW S, NEW q \in QcRec(S), NEW y, NEW n
  PROVE  LET p == WithSats(q, y, n)
         IN  /\ p.sats = y /\ p.totalEpochs = q.totalEpochs /\ p.ring = q.ring
             /\ p.finished = q.finished
  BY DEF WithSats, QcRec

\* In a series an epoch has one place.
LEMMA OnePlace ==
  ASSUME NEW T, NEW done, NEW jd, NEW tm, NEW s, SatHolds(s, T, done, jd, tm),
         NEW i \in 1 .. Len(s.pts), NEW j \in 1 .. Len(s.pts), s.pts[i].epoch = s.pts[j].epoch
  PROVE  i = j
<1>1. Len(s.pts) \in Nat /\ \A k \in 1 .. Len(s.pts) : s.pts[k].epoch \in Nat
    BY SatFields DEF SatHolds, QcPoint
<1>2. \A k, l \in 1 .. Len(s.pts) : k < l => s.pts[k].epoch < s.pts[l].epoch
    BY DEF SatHolds, Placed
<1>3. i < j \/ j < i \/ i = j
    BY <1>1
<1>4. QED
    BY <1>1, <1>2, <1>3

\* All that jumped vote.
LEMMA AllVote ==
  ASSUME NEW S, NEW q, NEW tm, NEW done \in Nat, NEW jd \in Nat, QState(q, S, tm, done, jd),
         NEW a, NEW b, LocOf(q.sats, a, jd), LocOf(q.sats, b, jd + 1),
         \A s \in S : JumpsAt(q.sats[s], jd + 1), Cardinality(S) >= MinVotes
  PROVE  ClockJumped(q, a, b)
<1>1. /\ q.sats \in [S -> QcSat] /\ DOMAIN q.sats = S /\ IsFiniteSet(S)
      /\ \A s \in S : SatHolds(q.sats[s], q.totalEpochs, done, jd, tm)
    BY DEF QState, QcRec
<1>2. ASSUME NEW s \in S
      PROVE  /\ s \in DOMAIN a /\ s \in DOMAIN b /\ ~q.sats[s].slipEver
             /\ q.sats[s].pts[b[s]].jump
  <2>1. PICK j \in 1 .. Len(q.sats[s].pts) :
               /\ j > 1 /\ q.sats[s].pts[j].epoch = jd + 1 /\ q.sats[s].pts[j].jump
               /\ q.sats[s].pts[j - 1].epoch + 1 = jd + 1
      BY DEF JumpsAt
  <2>2. /\ Len(q.sats[s].pts) \in Nat
        /\ \A i \in 1 .. Len(q.sats[s].pts) : q.sats[s].pts[i].epoch \in Nat
      BY <1>1, SatFields DEF QcPoint
  <2>3. j - 1 \in 1 .. Len(q.sats[s].pts)
      BY <2>1, <2>2
  <2>4. q.sats[s].pts[j - 1].epoch = jd
    <3> DEFINE x == q.sats[s].pts[j - 1].epoch
    <3>1. x \in Nat /\ x + 1 = jd + 1
        BY <2>1, <2>2, <2>3
    <3> HIDE DEF x
    <3>2. x = jd
        BY <3>1
    <3>3. QED
        BY <3>2 DEF x
  <2>5. s \in DOMAIN a /\ s \in DOMAIN b
      BY <1>1, <2>1, <2>3, <2>4 DEF LocOf
  <2>6. b[s] \in 1 .. Len(q.sats[s].pts) /\ q.sats[s].pts[b[s]].epoch = jd + 1
      BY <2>5 DEF LocOf
  <2>7. b[s] = j
    <3> DEFINE x == q.sats[s]
    <3>1. /\ SatHolds(x, q.totalEpochs, done, jd, tm)
          /\ j \in 1 .. Len(x.pts) /\ b[s] \in 1 .. Len(x.pts)
          /\ x.pts[j].epoch = x.pts[b[s]].epoch
        BY <1>1, <2>1, <2>6
    <3> HIDE DEF x
    <3>2. QED
        BY <3>1, OnePlace
  <2>8. QED
      BY <2>1, <2>5, <2>7 DEF JumpsAt
<1>3. DOMAIN a = S /\ DOMAIN b = S
    BY <1>1, <1>2 DEF LocOf
<1> DEFINE valid == {s \in DOMAIN a \intersect DOMAIN b : ~q.sats[s].slipEver}
           votes == {s \in valid : q.sats[s].pts[b[s]].jump}
<1>4. valid = S /\ votes = S
    BY <1>2, <1>3
<1>5. Cardinality(S) \in Nat
    BY <1>1, FS_CardinalityType
<1>6. ClockJumped(q, a, b) <=> /\ Cardinality(votes) >= MinVotes
                               /\ 10 * Cardinality(votes) >= 6 * Cardinality(valid)
    BY DEF ClockJumped
<1> HIDE DEF valid, votes
<1>7. QED
    BY <1>4, <1>5, <1>6

\* judgeClockJump judges one epoch more.
LEMMA JudgeHolds ==
  ASSUME NEW S, NEW q, NEW tm, NEW done \in Nat, NEW jd \in Nat, QState(q, S, tm, done, jd),
         done <= jd, jd < q.totalEpochs,
         NEW a, NEW b, LocOf(q.sats, a, jd), LocOf(q.sats, b, jd + 1)
  PROVE  LET p == judgeClockJump(q, a, b)
         IN  /\ QState(p, S, tm, done, jd + 1)
             /\ p.totalEpochs = q.totalEpochs /\ p.ring = q.ring /\ p.finished = q.finished
<1> DEFINE T == q.totalEpochs
           p == judgeClockJump(q, a, b)
           yes == [s \in S |-> IF s \in DOMAIN b THEN Reclassify(q.sats[s], b[s]) ELSE q.sats[s]]
           y == IF ClockJumped(q, a, b) THEN yes ELSE q.sats
           n == IF ClockJumped(q, a, b) THEN q.clockJumpEpochs + 1 ELSE q.clockJumpEpochs
<1>1. /\ q \in QcRec(S) /\ q.sats \in [S -> QcSat] /\ DOMAIN q.sats = S
      /\ T \in Nat /\ q.clockJumpEpochs \in Nat
      /\ \A s \in S : SatHolds(q.sats[s], T, done, jd, tm)
    BY DEF QState, QcRec
<1>2. p = WithSats(q, y, n) /\ n \in Nat
  <2>1. CASE ClockJumped(q, a, b)
    <3>1. p = [q EXCEPT !.clockJumpEpochs = @ + 1,
                 !.sats = [s \in DOMAIN @ |->
                      IF s \in DOMAIN b THEN Reclassify(@[s], b[s]) ELSE @[s]]]
        BY <2>1 DEF judgeClockJump
    <3>2. p = [q EXCEPT !.clockJumpEpochs = n, !.sats = yes]
        BY <1>1, <2>1, <3>1
    <3>3. y = yes
        BY <2>1
    <3> HIDE DEF yes, p, y, n
    <3>4. p = [q EXCEPT !.sats = y, !.clockJumpEpochs = n]
        BY <1>1, <3>2, <3>3 DEF QcRec
    <3>6. p = WithSats(q, y, n)
        BY <3>4 DEF WithSats
    <3>5. QED
        BY <1>1, <2>1, <3>6 DEF n
  <2>2. CASE ~ClockJumped(q, a, b)
    <3>1. p = q /\ y = q.sats /\ n = q.clockJumpEpochs
        BY <2>2 DEF judgeClockJump
    <3> HIDE DEF p, y, n
    <3>2. QED
        BY <1>1, <3>1 DEF QcRec, WithSats
  <2>3. QED
      BY <2>1, <2>2
<1>3. ASSUME NEW s \in S
      PROVE  /\ SatHolds(y[s], T, done, jd + 1, tm) /\ Carries(q.sats[s], y[s], T)
             /\ Exact(q.sats[s]) => Exact(y[s])
  <2>1. SatHolds(q.sats[s], T, done, jd, tm) /\ q.sats[s] \in QcSat
      BY <1>1
  <2>2. CASE y[s] = q.sats[s]
    <3>1. jd + 1 \in Nat /\ jd <= jd + 1
        OBVIOUS
    <3>2. QED
        BY <2>1, <2>2, <3>1, JudgedMore, CarriesSelf
  <2>3. CASE s \in DOMAIN b /\ y[s] = Reclassify(q.sats[s], b[s])
    <3>1. b[s] \in 1 .. Len(q.sats[s].pts) /\ q.sats[s].pts[b[s]].epoch = jd + 1
        BY <2>3 DEF LocOf
    <3> HIDE DEF y
    <3>2. QED
        BY <1>1, <2>1, <2>3, <3>1, ReclassifyHolds
  <2>4. QED
      BY <2>2, <2>3
<1>4. y \in [S -> QcSat]
  <2>1. \A s \in S : y[s] \in QcSat
      BY <1>3 DEF SatHolds
  <2>2. y = [s \in S |-> y[s]]
      BY <1>1
  <2> HIDE DEF y
  <2>3. QED
      BY <2>1, <2>2
<1>5. JumpFound(y, jd + 1)
  <2>1. CASE ClockJumped(q, a, b)
    <3>1. ASSUME NEW s \in S, NEW i \in 1 .. Len(y[s].pts), y[s].pts[i].epoch = jd + 1
          PROVE  y[s].pts[i].clockJump
      <4>1. s \in DOMAIN b
        <5>1. CASE s \notin DOMAIN b
          <6>1. y[s] = q.sats[s]
              BY <2>1, <5>1
          <6>2. s \in DOMAIN b
              BY <1>1, <3>1, <6>1 DEF LocOf
          <6>3. QED
              BY <5>1, <6>2
        <5>2. QED
            BY <5>1
      <4>2. y[s] = Reclassify(q.sats[s], b[s])
          BY <2>1, <4>1
      <4>3. b[s] \in 1 .. Len(q.sats[s].pts) /\ q.sats[s].pts[b[s]].epoch = jd + 1
          BY <4>1 DEF LocOf
      <4> HIDE DEF y
      <4>4. /\ y[s].pts[b[s]].clockJump /\ Len(y[s].pts) = Len(q.sats[s].pts)
            /\ Carries(q.sats[s], y[s], T)
        <5>1. SatHolds(q.sats[s], T, done, jd, tm) /\ T \in Nat
            BY <1>1
        <5> DEFINE x == q.sats[s]
                   k == b[s]
        <5>2. SatHolds(x, T, done, jd, tm) /\ k \in 1 .. Len(x.pts) /\ x.pts[k].epoch = jd + 1
            BY <4>3, <5>1
        <5> HIDE DEF x, k
        <5>3. LET t == Reclassify(x, k)
              IN  t.pts[k].clockJump /\ Len(t.pts) = Len(x.pts) /\ Carries(x, t, T)
            BY <5>1, <5>2, ReclassifyHolds
        <5>4. QED
            BY <4>2, <5>3 DEF x, k
      <4>5. y[s].pts[b[s]].epoch = jd + 1
          BY <4>3, <4>4 DEF Carries
      <4>6. i = b[s]
        <5>1. SatHolds(y[s], T, done, jd + 1, tm)
            BY <1>3
        <5>2. b[s] \in 1 .. Len(y[s].pts) /\ y[s].pts[i].epoch = y[s].pts[b[s]].epoch
            BY <3>1, <4>3, <4>4, <4>5
        <5>3. QED
            BY <3>1, <5>1, <5>2, OnePlace
      <4>7. QED
          BY <4>4, <4>6
    <3> HIDE DEF y
    <3>2. DOMAIN y = S
        BY <1>4
    <3>3. QED
        BY <3>1, <3>2 DEF JumpFound
  <2>2. CASE ~ClockJumped(q, a, b)
    <3>1. y = q.sats
        BY <2>2
    <3>2. ~((\A s \in S : JumpsAt(q.sats[s], jd + 1)) /\ Cardinality(S) >= MinVotes)
        BY <2>2, AllVote
    <3>3. QED
        BY <1>1, <3>1, <3>2 DEF JumpFound
  <2>3. QED
      BY <2>1, <2>2
<1> HIDE DEF y, n, p
<1>6. \A e \in 1 .. jd + 1 : e <= jd \/ JumpFound(y, e)
    BY <1>5
<1>7. jd + 1 \in Nat /\ jd <= T
    BY <1>1
<1>8. SatsHold(q, y, S, tm, done, jd + 1)
    BY <1>3, <1>4 DEF SatsHold
<1>9. /\ QState(p, S, tm, done, jd + 1)
      /\ p.totalEpochs = q.totalEpochs /\ p.ring = q.ring /\ p.finished = q.finished
  <2>1. QState(WithSats(q, y, n), S, tm, done, jd + 1)
      BY <1>2, <1>6, <1>7, <1>8, SatsChange
  <2>2. QED
      BY <1>1, <1>2, <2>1, WithSatsIs
<1>10. QED
    BY <1>9 DEF p

\* settleEpoch settles one epoch more, or none if it was.
LEMMA SettleEpochHolds ==
  ASSUME NEW S, NEW q, NEW tm, NEW done \in Nat, NEW jd \in Nat, QState(q, S, tm, done, jd),
         jd <= q.totalEpochs, NEW e \in Nat, e <= done + 1, NEW loc, LocOf(q.sats, loc, e)
  PROVE  LET p == settleEpoch(q, loc)
         IN  /\ QState(p, S, tm, Later(e, done), jd)
             /\ p.totalEpochs = q.totalEpochs /\ p.ring = q.ring /\ p.finished = q.finished
<1> DEFINE T == q.totalEpochs
           p == settleEpoch(q, loc)
           y == [s \in S |-> IF s \in DOMAIN loc THEN settleTo(q.sats[s], loc[s], q.interval)
                             ELSE q.sats[s]]
<1>1. /\ q \in QcRec(S) /\ q.sats \in [S -> QcSat] /\ DOMAIN q.sats = S
      /\ T \in Nat /\ q.clockJumpEpochs \in Nat /\ q.interval \in Nat
      /\ \A s \in S : SatHolds(q.sats[s], T, done, jd, tm)
    BY DEF QState, QcRec
<1>2. p = WithSats(q, y, q.clockJumpEpochs)
  <2>1. p = [q EXCEPT !.sats = y]
      BY <1>1 DEF settleEpoch
  <2> HIDE DEF y, p
  <2>2. QED
      BY <1>1, <2>1 DEF QcRec, WithSats
<1>3. ASSUME NEW s \in S
      PROVE  /\ SatHolds(y[s], T, Later(e, done), jd, tm) /\ Carries(q.sats[s], y[s], T)
             /\ Exact(q.sats[s]) => Exact(y[s])
  <2>1. SatHolds(q.sats[s], T, done, jd, tm) /\ q.sats[s] \in QcSat
      BY <1>1
  <2>2. CASE s \in DOMAIN loc
    <3>1. loc[s] \in 1 .. Len(q.sats[s].pts) /\ q.sats[s].pts[loc[s]].epoch = e
        BY <2>2 DEF LocOf
    <3>2. y[s] = settleTo(q.sats[s], loc[s], q.interval)
        BY <2>2
    <3> HIDE DEF y
    <3>4. q.sats[s].pts[loc[s]].epoch <= done + 1 /\ T \in Nat /\ q.interval \in Nat
        BY <1>1, <3>1
    <3> DEFINE x == q.sats[s]
               k == loc[s]
               c == q.interval
    <3>5. /\ SatHolds(x, T, done, jd, tm) /\ k \in 1 .. Len(x.pts) /\ x.pts[k].epoch <= done + 1
          /\ c \in Nat
        BY <2>1, <3>1, <3>4
    <3> HIDE DEF x, k, c
    <3>6. LET t == settleTo(x, k, c)
          IN  /\ SatHolds(t, T, Later(x.pts[k].epoch, done), jd, tm) /\ Carries(x, t, T)
              /\ Exact(x) => Exact(t)
        BY <1>1, <3>5, SettleHolds
    <3>3. QED
        BY <3>1, <3>2, <3>6 DEF x, k, c
  <2>3. CASE s \notin DOMAIN loc
    <3>1. \A i \in 1 .. Len(q.sats[s].pts) : q.sats[s].pts[i].epoch # e
        BY <1>1, <2>3 DEF LocOf
    <3>2. y[s] = q.sats[s]
        BY <2>3
    <3> HIDE DEF y
    <3>3. QED
        BY <1>1, <2>1, <3>1, <3>2, SettleNone, CarriesSelf
  <2>4. QED
      BY <2>2, <2>3
<1>4. y \in [S -> QcSat]
  <2>1. \A s \in S : y[s] \in QcSat
      BY <1>3 DEF SatHolds
  <2>2. y = [s \in S |-> y[s]]
      BY <1>1
  <2> HIDE DEF y
  <2>3. QED
      BY <2>1, <2>2
<1>5. Later(e, done) \in Nat
    BY DEF Later
<1> HIDE DEF y, p
<1>6. \A d \in 1 .. jd : d <= jd \/ JumpFound(y, d)
    OBVIOUS
<1>7. SatsHold(q, y, S, tm, Later(e, done), jd)
    BY <1>3, <1>4 DEF SatsHold
<1>8. /\ QState(p, S, tm, Later(e, done), jd)
      /\ p.totalEpochs = q.totalEpochs /\ p.ring = q.ring /\ p.finished = q.finished
  <2>1. QState(WithSats(q, y, q.clockJumpEpochs), S, tm, Later(e, done), jd)
      BY <1>1, <1>5, <1>6, <1>7, SatsChange
  <2>2. QED
      BY <1>1, <1>2, <2>1, WithSatsIs
<1>9. QED
    BY <1>8 DEF p

-----------------------------------------------------------------------------
(* One epoch more.                                                         *)

EpochOk(e) ==
    /\ e.dt \in Nat /\ e.dt >= QcRate
    /\ \A s \in DOMAIN e.values : e.values[s] \in QcValues

\* A session that has no interval yet may learn it from this epoch.
Seedable(q, e) == ~q.seeded => e.dt < QcSeedSpan

SeedNow(q) == q.totalEpochs > 0 /\ ~q.seeded

NewInterval(q, e) == IF SeedNow(q) THEN e.dt ELSE q.interval

NewSats(q, e) ==
    [s \in DOMAIN q.sats |->
       IF s \in DOMAIN e.values
         THEN FeedSat(q.sats[s], e.values[s], q.sow + e.dt, NewInterval(q, e), q.totalEpochs + 1)
         ELSE q.sats[s]]

NewLoc(q, e) ==
    [s \in {s \in DOMAIN NewSats(q, e) : Len(NewSats(q, e)[s].pts) > Len(q.sats[s].pts)} |->
       Len(NewSats(q, e)[s].pts)]

Grown(q, e) ==
    [q EXCEPT !.finished = FALSE, !.totalEpochs = @ + 1, !.sow = q.sow + e.dt,
              !.interval = NewInterval(q, e), !.seeded = @ \/ SeedNow(q),
              !.sats = NewSats(q, e), !.ring = TrimRing(Append(@, NewLoc(q, e)))]

NewClock(tm, T, sow) == [i \in 1 .. T + 1 |-> IF i = T + 1 THEN sow ELSE tm[i]]

\* Feed is an epoch more, then Advance.
LEMMA FedIsGrown ==
  ASSUME NEW q, NEW e, Seedable(q, e)
  PROVE  Fed(q, e) = Advance(Grown(q, e))
  BY DEF Seedable, Fed, Grown, NewLoc, NewSats, NewInterval, SeedNow

\* The times stay apart by at least the interval of the receiver.
LEMMA ClockGoesOn ==
  ASSUME NEW T \in Nat, NEW sow \in Nat, NEW tm, Clock(tm, T, sow), NEW dt \in Nat, dt >= QcRate,
         QcRate \in Nat
  PROVE  /\ Clock(NewClock(tm, T, sow + dt), T + 1, sow + dt)
         /\ \A e \in 1 .. T : NewClock(tm, T, sow + dt)[e] = tm[e]
         /\ NewClock(tm, T, sow + dt)[T + 1] = sow + dt
<1> DEFINE tn == NewClock(tm, T, sow + dt)
<1>1. /\ \A e \in 1 .. T : tn[e] = tm[e] /\ tm[e] \in Nat /\ tn[e] \in Nat
      /\ tn[T + 1] = sow + dt
      /\ T + 1 \in Nat /\ sow + dt \in Nat
    BY DEF Clock, NewClock
<1>2. \A i \in 1 .. T + 1 : i \in 1 .. T \/ i = T + 1
    OBVIOUS
<1>3. tn \in [1 .. T + 1 -> Nat]
  <2>1. \A i \in 1 .. T + 1 : tn[i] \in Nat
      BY <1>1, <1>2
  <2>2. tn = [i \in 1 .. T + 1 |-> tn[i]]
      BY DEF NewClock
  <2> HIDE DEF tn
  <2>3. QED
      BY <2>1, <2>2
<1> HIDE DEF tn
<1>4. ASSUME NEW a \in 1 .. T + 1, NEW b \in 1 .. T + 1, a < b
      PROVE  tn[a] + QcRate <= tn[b]
  <2>1. a \in 1 .. T
      BY <1>4
  <2>2. CASE b \in 1 .. T
      BY <1>1, <1>4, <2>1, <2>2 DEF Clock
  <2>3. CASE b = T + 1
    <3>1. T \in 1 .. T /\ tm[T] = sow
        BY <2>1 DEF Clock
    <3>2. a < T => tm[a] + QcRate <= tm[T]
        BY <2>1, <3>1 DEF Clock
    <3>3. tm[a] <= sow
        BY <1>1, <2>1, <3>1, <3>2
    <3>4. QED
        BY <1>1, <2>1, <2>3, <3>3
  <2>4. QED
      BY <1>2, <2>2, <2>3
<1>5. QED
    BY <1>1, <1>3, <1>4 DEF Clock, tn

\* Each satellite after an epoch more.
LEMMA NewSatHolds ==
  ASSUME NEW S, NEW q, NEW tm, NEW done \in Nat, NEW jd \in Nat, QState(q, S, tm, done, jd),
         done <= q.totalEpochs, jd <= q.totalEpochs, q.totalEpochs = 0 \/ done < q.totalEpochs,
         NEW e, EpochOk(e), NEW s \in S
  PROVE  LET T == q.totalEpochs
             u == NewSats(q, e)[s]
         IN  /\ SatHolds(u, T + 1, done, jd, NewClock(tm, T, q.sow + e.dt))
             /\ Carries(q.sats[s], u, T)
             /\ NewInterval(q, e) = QcRate \/ T + 1 <= 1 => Exact(u)
<1> DEFINE T == q.totalEpochs
           x == q.sats[s]
           u == NewSats(q, e)[s]
           sow == q.sow + e.dt
           tn == NewClock(tm, T, sow)
           c == NewInterval(q, e)
<1>1. /\ q.sats \in [S -> QcSat] /\ DOMAIN q.sats = S /\ T \in Nat /\ q.sow \in Nat
      /\ q.interval \in Nat /\ q.seeded \in BOOLEAN
      /\ SatHolds(x, T, done, jd, tm) /\ Clock(tm, T, q.sow)
      /\ T > 1 => q.seeded
      /\ q.interval = QcRate \/ T <= 1 => Exact(x)
    BY DEF QState, QcRec
<1>2. /\ e.dt \in Nat /\ e.dt >= QcRate /\ QcRate \in Nat \ {0}
      /\ sow \in Nat /\ c \in Nat /\ T + 1 \in Nat
    BY <1>1, QcAssumption DEF EpochOk, NewInterval
<1>3. Extends(tn, tm, T, sow)
    BY <1>1, <1>2, ClockGoesOn DEF Extends
<1>4. c = QcRate \/ T + 1 <= 1 => Exact(x) /\ (T > 0 => c = QcRate)
  <2>1. T > 1 => c = q.interval
      BY <1>1 DEF NewInterval, SeedNow
  <2>2. QED
      BY <1>1, <2>1
<1> DEFINE ok == x.pts # <<>> /\ Regular(x.pts[Len(x.pts)].t, sow, c)
<1>5. Quiet(x, u) \/ \E v : Pushed(x, u, v, sow, T + 1, ok)
  <2>1. x \in QcSat /\ Counted(x) /\ x.pending = Len(x.pts)
      BY <1>1 DEF SatHolds, Placed
  <2>2. CASE s \in DOMAIN e.values
    <3>1. e.values[s] \in QcValues
        BY <2>2 DEF EpochOk
    <3>2. u = FeedSat(x, e.values[s], sow, c, T + 1)
        BY <1>1, <2>2 DEF NewSats
    <3> HIDE DEF x, u, sow, c, T
    <3>3. QED
        BY <1>2, <2>1, <3>1, <3>2, FeedSatDoes DEF ok
  <2>3. CASE s \notin DOMAIN e.values
    <3>1. u = x
        BY <1>1, <2>3 DEF NewSats
    <3> HIDE DEF x, u, sow, c, T
    <3>2. QED
        BY <2>1, <3>1 DEF Quiet
  <2>4. QED
      BY <2>2, <2>3
<1>6. ok \in BOOLEAN
    OBVIOUS
<1>7. Exact(x) /\ (T > 0 => c = QcRate) /\ ok => x.settled < Len(x.pts)
  <2> SUFFICES ASSUME T > 0 => c = QcRate, ok PROVE x.settled < Len(x.pts)
      OBVIOUS
  <2>1. x \in QcSat
      BY <1>1 DEF SatHolds
  <2>2. x.pts \in Seq(QcPoint) /\ Len(x.pts) \in Nat /\ x.settled \in Nat
      BY <2>1, SatFields
  <2>3. Len(x.pts) \in 1 .. Len(x.pts)
      BY <2>2
  <2> DEFINE l == x.pts[Len(x.pts)]
  <2>4. l.epoch \in 1 .. T /\ l.t = tm[l.epoch] /\ (Len(x.pts) <= x.settled <=> l.epoch <= done)
      BY <1>1, <2>3 DEF SatHolds, Placed
  <2>5. T > 0 /\ c = QcRate
    <3> DEFINE ep == l.epoch
    <3>1. ep \in 1 .. T /\ T \in Nat
        BY <1>1, <2>4
    <3> HIDE DEF ep
    <3>2. T > 0
        BY <3>1
    <3>3. QED
        BY <3>2
  <2>6. Regular(tm[l.epoch], q.sow + e.dt, QcRate)
      BY <2>4, <2>5
  <2> HIDE DEF l, c
  <2>7. l.epoch = T
      BY <1>1, <1>2, <2>4, <2>6, GapIsSeen
  <2>8. ~(l.epoch <= done)
      BY <1>1, <2>5, <2>7
  <2>9. QED
      BY <2>2, <2>4, <2>8
<1>8. done \in 0 .. T /\ jd \in 0 .. T
    BY <1>1
<1> HIDE DEF T, x, u, sow, tn, c, ok
<1>9. CASE Quiet(x, u)
  <2>1. T \in Nat /\ SatHolds(x, T, done, jd, tm)
      BY <1>1 DEF T, x
  <2>2. SatHolds(u, T + 1, done, jd, tn) /\ Carries(x, u, T) /\ (Exact(x) => Exact(u))
      BY <1>3, <1>9, <2>1, QuietHolds
  <2>3. QED
      BY <1>4, <2>2 DEF T, x, u, sow, tn, c
<1>10. CASE \E v : Pushed(x, u, v, sow, T + 1, ok)
  <2>1. PICK v : Pushed(x, u, v, sow, T + 1, ok)
      BY <1>10
  <2>2. T \in Nat /\ SatHolds(x, T, done, jd, tm)
      BY <1>1 DEF T, x
  <2>3. /\ SatHolds(u, T + 1, done, jd, tn) /\ Carries(x, u, T)
        /\ Exact(x) /\ (ok => x.settled < Len(x.pts)) => Exact(u)
      BY <1>3, <1>6, <1>8, <2>1, <2>2, PushedHolds
  <2>4. c = QcRate \/ T + 1 <= 1 => Exact(u)
      BY <1>4, <1>7, <2>3
  <2>5. QED
      BY <2>3, <2>4 DEF T, x, u, sow, tn, c
<1>11. QED
    BY <1>5, <1>9, <1>10

\* The ring without its oldest epoch.
LEMMA TailIs ==
  ASSUME NEW A, NEW s \in Seq(A), Len(s) = 5
  PROVE  /\ Tail(s) \in Seq(A) /\ Len(Tail(s)) = 4
         /\ \A r \in 1 .. 4 : Tail(s)[r] = s[r + 1]
OBVIOUS

\* Nothing ahead of the last epoch has been looked at, nor is all settled.
Behind(done, jd, T) == done <= T /\ jd <= T /\ (T = 0 \/ done < T)

\* An epoch more keeps what holds, with nothing more judged or settled.
LEMMA GrownHolds ==
  ASSUME NEW S, NEW q, NEW tm, NEW done \in Nat, NEW jd \in Nat, QState(q, S, tm, done, jd),
         Behind(done, jd, q.totalEpochs), NEW e, EpochOk(e)
  PROVE  /\ QState(Grown(q, e), S, NewClock(tm, q.totalEpochs, q.sow + e.dt), done, jd)
         /\ Grown(q, e).totalEpochs = q.totalEpochs + 1
         /\ Grown(q, e).finished = FALSE
<1> DEFINE T == q.totalEpochs
           p == Grown(q, e)
           y == NewSats(q, e)
           loc == NewLoc(q, e)
           sow == q.sow + e.dt
           tn == NewClock(tm, T, sow)
           c == NewInterval(q, e)
           app == Append(q.ring, loc)
<1>0. done <= T /\ jd <= T /\ (T = 0 \/ done < T)
    BY DEF Behind
<1>1. /\ q \in QcRec(S) /\ IsFiniteSet(S) /\ Clock(tm, T, q.sow)
      /\ T > 1 \/ qcInput.nominal > 0 => q.seeded
      /\ RingHolds(q)
      /\ \A d \in 1 .. jd : JumpFound(q.sats, d)
      /\ \A s \in S : SatHolds(q.sats[s], T, done, jd, tm)
    BY DEF QState
<1>2. /\ q.sats \in [S -> QcSat] /\ DOMAIN q.sats = S /\ T \in Nat /\ q.sow \in Nat
      /\ q.interval \in Nat /\ q.seeded \in BOOLEAN /\ q.ring \in Seq(Locs(S))
      /\ Len(q.ring) \in Nat /\ q.clockJumpEpochs \in Nat
    BY <1>1 DEF QcRec
<1>3. /\ e.dt \in Nat /\ e.dt >= QcRate /\ QcRate \in Nat \ {0}
      /\ sow \in Nat /\ c \in Nat /\ T + 1 \in Nat
    BY <1>2, QcAssumption DEF EpochOk, NewInterval
<1>4. Clock(tn, T + 1, sow)
    BY <1>1, <1>2, <1>3, ClockGoesOn
<1>5. \A s \in S : /\ SatHolds(y[s], T + 1, done, jd, tn) /\ Carries(q.sats[s], y[s], T)
                   /\ c = QcRate \/ T + 1 <= 1 => Exact(y[s])
    BY <1>0, NewSatHolds
<1>6. y \in [S -> QcSat] /\ DOMAIN y = S
  <2>1. \A s \in S : y[s] \in QcSat
      BY <1>5 DEF SatHolds
  <2>2. y = [s \in S |-> y[s]]
      BY <1>2 DEF NewSats
  <2> HIDE DEF y
  <2>3. QED
      BY <2>1, <2>2
<1>7. loc \in Locs(S) /\ LocOf(y, loc, T + 1)
  <2> DEFINE seen == {s \in S : Len(y[s].pts) > Len(q.sats[s].pts)}
  <2>1. loc = [s \in seen |-> Len(y[s].pts)]
      BY <1>6 DEF NewLoc
  <2> HIDE DEF loc
  <2>2. ASSUME NEW s \in S
        PROVE  /\ Len(y[s].pts) \in Nat
               /\ s \in seen => Len(y[s].pts) \in 1 .. Len(y[s].pts)
                                  /\ y[s].pts[Len(y[s].pts)].epoch = T + 1
               /\ (\E i \in 1 .. Len(y[s].pts) : y[s].pts[i].epoch = T + 1) => s \in seen
    <3> DEFINE x == q.sats[s]
               u == y[s]
    <3>1. /\ SatHolds(x, T, done, jd, tm) /\ SatHolds(u, T + 1, done, jd, tn) /\ Carries(x, u, T)
          /\ x \in QcSat /\ u \in QcSat
        BY <1>1, <1>5, <1>6, <1>2
    <3>2. s \in seen <=> Len(u.pts) > Len(x.pts)
        OBVIOUS
    <3> HIDE DEF x, u, seen
    <3>3. /\ Len(x.pts) \in Nat /\ Len(u.pts) \in Nat
          /\ \A i \in 1 .. Len(x.pts) : x.pts[i].epoch \in 1 .. T
          /\ \A i \in 1 .. Len(u.pts) : u.pts[i].epoch \in 1 .. T + 1
          /\ Len(x.pts) <= Len(u.pts)
        BY <3>1, SatFields DEF SatHolds, Placed, Carries
    <3>4. ASSUME s \in seen
          PROVE  Len(u.pts) \in 1 .. Len(u.pts) /\ u.pts[Len(u.pts)].epoch = T + 1
      <4>1. Len(u.pts) \in 1 .. Len(u.pts) /\ Len(u.pts) > Len(x.pts)
          BY <3>2, <3>3, <3>4
      <4>2. u.pts[Len(u.pts)].epoch > T
          BY <3>1, <4>1 DEF Carries
      <4>3. u.pts[Len(u.pts)].epoch \in 1 .. T + 1
          BY <3>3, <4>1
      <4> DEFINE l == u.pts[Len(u.pts)].epoch
                 last == T
      <4>4. l \in 1 .. last + 1 /\ l > last /\ last \in Nat
          BY <1>2, <4>2, <4>3
      <4> HIDE DEF l, last
      <4>5. l = last + 1
          BY <4>4
      <4>6. QED
          BY <4>1, <4>5 DEF l, last
    <3>5. ASSUME NEW i \in 1 .. Len(u.pts), u.pts[i].epoch = T + 1
          PROVE  s \in seen
      <4>1. CASE i \in 1 .. Len(x.pts)
        <5>1. u.pts[i].epoch = x.pts[i].epoch /\ x.pts[i].epoch \in 1 .. T
            BY <3>1, <3>3, <4>1 DEF Carries
        <5>2. QED
            BY <1>2, <3>5, <5>1
      <4>2. CASE i \notin 1 .. Len(x.pts)
          BY <3>2, <3>3, <4>2
      <4>3. QED
          BY <4>1, <4>2
    <3>6. QED
        BY <3>3, <3>4, <3>5 DEF u
  <2>3. loc \in [seen -> Nat] /\ seen \subseteq S
      BY <2>1, <2>2
  <2>4. DOMAIN loc = {s \in S : \E i \in 1 .. Len(y[s].pts) : y[s].pts[i].epoch = T + 1}
      BY <2>2, <2>3
  <2>5. \A s \in DOMAIN loc : loc[s] \in 1 .. Len(y[s].pts) /\ y[s].pts[loc[s]].epoch = T + 1
      BY <2>1, <2>2, <2>3
  <2> HIDE DEF seen, y
  <2>6. QED
      BY <1>6, <2>3, <2>4, <2>5 DEF LocOf, Locs
<1>8. /\ p.interval = c /\ p.seeded = (q.seeded \/ SeedNow(q)) /\ p.totalEpochs = T + 1
      /\ p.sow = sow /\ p.sats = y /\ p.ring = TrimRing(app) /\ p.finished = FALSE
      /\ p.clockJumpEpochs = q.clockJumpEpochs
    BY <1>1 DEF QcRec, Grown
<1>9. /\ app \in Seq(Locs(S)) /\ Len(app) = Len(q.ring) + 1 /\ app[Len(q.ring) + 1] = loc
      /\ \A r \in 1 .. Len(q.ring) : app[r] = q.ring[r]
    BY <1>2, <1>7
<1>10. \A r \in 1 .. Len(app) : LocOf(y, app[r], T - Len(q.ring) + r)
  <2> HIDE DEF app, y, loc
  <2>1. ASSUME NEW r \in 1 .. Len(q.ring) PROVE LocOf(y, app[r], T - Len(q.ring) + r)
    <3>1. LocOf(q.sats, app[r], T - Len(q.ring) + r)
        BY <1>1, <1>9 DEF RingHolds
    <3>2. T - Len(q.ring) + r \in Int /\ T - Len(q.ring) + r <= T
        BY <1>2
    <3>3. \A s \in S : Carries(q.sats[s], y[s], T)
        BY <1>5
    <3>4. QED
        BY <1>2, <1>6, <3>1, <3>2, <3>3, LocKept
  <2>2. T - Len(q.ring) + (Len(q.ring) + 1) = T + 1
      BY <1>2
  <2>3. \A r \in 1 .. Len(app) : r \in 1 .. Len(q.ring) \/ r = Len(q.ring) + 1
      BY <1>2, <1>9
  <2>4. LocOf(y, app[Len(q.ring) + 1], T - Len(q.ring) + (Len(q.ring) + 1))
      BY <1>7, <1>9, <2>2
  <2>5. QED
      BY <2>1, <2>3, <2>4
<1> HIDE DEF app, y, loc, tn, c
<1>11. /\ TrimRing(app) \in Seq(Locs(S)) /\ Len(TrimRing(app)) = Depth(T + 1)
       /\ \A r \in 1 .. Len(TrimRing(app)) :
            LocOf(y, TrimRing(app)[r], T + 1 - Len(TrimRing(app)) + r)
  <2>1. Len(q.ring) = Depth(T)
      BY <1>1 DEF RingHolds
  <2>2. CASE T < 4
    <3>1. TrimRing(app) = app /\ Len(app) = T + 1
        BY <1>2, <1>9, <2>1, <2>2, QcAssumption DEF TrimRing, Depth
    <3>2. Depth(T + 1) = T + 1 /\ T - Len(q.ring) = 0
        BY <1>2, <2>1, <2>2 DEF Depth
    <3>3. \A r \in 1 .. Len(app) : T + 1 - Len(app) + r = T - Len(q.ring) + r
        BY <1>2, <3>1, <3>2
    <3>4. QED
        BY <1>9, <1>10, <3>1, <3>2, <3>3
  <2>3. CASE ~(T < 4)
    <3>1. Len(q.ring) = 4 /\ Len(app) = 5 /\ Depth(T + 1) = 4
        BY <1>2, <1>9, <2>1, <2>3 DEF Depth
    <3>2. TrimRing(app) = Tail(app)
        BY <3>1, QcAssumption DEF TrimRing
    <3>3. /\ Tail(app) \in Seq(Locs(S)) /\ Len(Tail(app)) = 4
          /\ \A r \in 1 .. 4 : Tail(app)[r] = app[r + 1]
        BY <1>9, <3>1, TailIs
    <3>4. ASSUME NEW r \in 1 .. 4 PROVE LocOf(y, Tail(app)[r], T + 1 - 4 + r)
      <4>1. r + 1 \in 1 .. Len(app) /\ T - 4 + (r + 1) = T + 1 - 4 + r
        <5>1. r \in 1 .. 4 /\ T \in Nat
            BY <1>2
        <5>2. r + 1 \in 1 .. 5
            BY <5>1
        <5> HIDE DEF T
        <5>3. T - 4 + (r + 1) = T + 1 - 4 + r
            BY <5>1
        <5>4. QED
            BY <3>1, <5>2, <5>3
      <4>2. LocOf(y, app[r + 1], T - 4 + (r + 1))
          BY <1>10, <3>1, <4>1
      <4>3. QED
          BY <3>3, <4>1, <4>2
    <3>5. QED
        BY <3>1, <3>2, <3>3, <3>4
  <2>4. QED
      BY <2>2, <2>3
<1>12. p \in QcRec(S)
  <2>1. q.seeded \/ SeedNow(q) \in BOOLEAN
      BY <1>2 DEF SeedNow
  <2> DEFINE sd == q.seeded \/ SeedNow(q)
             rg == TrimRing(app)
  <2>2. p = [q EXCEPT !.finished = FALSE, !.totalEpochs = T + 1, !.sow = sow, !.interval = c,
                      !.seeded = sd, !.sats = y, !.ring = rg]
      BY <1>1 DEF Grown, QcRec, c, y, app, loc
  <2>3. sd \in BOOLEAN /\ rg \in Seq(Locs(S)) /\ FALSE \in BOOLEAN
      BY <1>2, <1>11 DEF SeedNow
  <2> HIDE DEF sd, rg, sow, p
  <2>4. QED
      BY <1>1, <1>3, <1>6, <2>2, <2>3 DEF QcRec
<1>13. T + 1 > 1 \/ qcInput.nominal > 0 => p.seeded
  <2>1. T + 1 > 1 => T > 0
      BY <1>2
  <2>2. T > 0 \/ qcInput.nominal > 0 => q.seeded \/ SeedNow(q)
      BY <1>1 DEF SeedNow
  <2> HIDE DEF p, T
  <2>3. QED
      BY <1>8, <2>1, <2>2
<1> HIDE DEF p
<1>14. RingHolds(p)
  <2> DEFINE rg == p.ring
             m == T + 1
  <2>4. rg = TrimRing(app) /\ m = T + 1
      BY <1>8
  <2> HIDE DEF rg, m, p
  <2>1. /\ Len(rg) = Depth(m)
        /\ \A r \in 1 .. Len(rg) : LocOf(y, rg[r], m - Len(rg) + r)
    <3>1. ASSUME NEW r \in 1 .. Len(rg) PROVE LocOf(y, rg[r], m - Len(rg) + r)
      <4>1. r \in 1 .. Len(TrimRing(app))
          BY <2>4
      <4>2. LocOf(y, TrimRing(app)[r], T + 1 - Len(TrimRing(app)) + r)
          BY <1>11, <4>1
      <4>3. rg[r] = TrimRing(app)[r] /\ Len(rg) = Len(TrimRing(app))
          BY <2>4
      <4>4. m - Len(rg) + r = T + 1 - Len(TrimRing(app)) + r
        <5>1. T \in Nat /\ Len(TrimRing(app)) \in Nat
            BY <1>2, <1>11
        <5>2. QED
            BY <2>4, <4>3, <5>1
      <4>5. QED
          BY <4>2, <4>3, <4>4
    <3>2. QED
        BY <1>11, <2>4, <3>1
  <2>2. p.totalEpochs = m /\ p.sats = y
      BY <1>8, <2>4
  <2>3. QED
      BY <2>1, <2>2 DEF RingHolds, rg
<1>15. \A d \in 1 .. jd : JumpFound(y, d)
  <2>1. ASSUME NEW d \in 1 .. jd PROVE JumpFound(y, d)
    <3>1. d \in 1 .. T /\ JumpFound(q.sats, d)
        BY <1>0, <1>1, <1>2
    <3>2. \A s \in S : Carries(q.sats[s], y[s], T)
        BY <1>5
    <3>3. QED
        BY <1>2, <1>6, <3>1, <3>2, JumpFoundKept
  <2>2. QED
      BY <2>1
<1>16. c = QcRate \/ T + 1 <= 1 => \A s \in S : Exact(y[s])
    BY <1>5
<1> HIDE DEF p, sow, T
<1>17. QState(p, S, tn, done, jd)
    BY <1>1, <1>4, <1>5, <1>8, <1>12, <1>13, <1>14, <1>15, <1>16 DEF QState
<1>18. QED
    BY <1>8, <1>17 DEF p, sow, T, tn

-----------------------------------------------------------------------------
(* The invariant.                                                          *)

Done(T) == IF T > 2 THEN T - 2 ELSE 0
Judged(T) == IF T > 1 THEN T - 1 ELSE 0

\* The first epoch has none before it to jump from.
LEMMA FirstIsJudged ==
  ASSUME NEW S, NEW q, NEW tm, NEW done \in Nat, NEW jd \in Nat, QState(q, S, tm, done, jd),
         NEW j \in Nat, jd <= j, j <= 1
  PROVE  QState(q, S, tm, done, j)
<1>1. \A s \in S : SatHolds(q.sats[s], q.totalEpochs, done, j, tm)
    BY JudgedMore DEF QState
<1>2. JumpFound(q.sats, 1)
  <2>1. q.sats \in [S -> QcSat] /\ DOMAIN q.sats = S
      BY DEF QState, QcRec
  <2>2. ASSUME NEW s \in S, JumpsAt(q.sats[s], 1) PROVE FALSE
    <3>1. PICK i \in 1 .. Len(q.sats[s].pts) : i > 1 /\ q.sats[s].pts[i - 1].epoch + 1 = 1
        BY <2>2 DEF JumpsAt
    <3>2. Len(q.sats[s].pts) \in Nat
        BY <2>1, SatFields
    <3>3. i - 1 \in 1 .. Len(q.sats[s].pts)
        BY <3>1, <3>2
    <3> DEFINE x == q.sats[s].pts[i - 1].epoch
    <3>4. x \in 1 .. q.totalEpochs
        BY <3>3 DEF QState, SatHolds, Placed
    <3>5. x + 1 = 1
        BY <3>1
    <3> HIDE DEF x
    <3>6. q.totalEpochs \in Nat
        BY DEF QState, QcRec
    <3>7. QED
        BY <3>4, <3>5, <3>6
  <2>3. QED
      BY <2>1, <2>2 DEF JumpFound
<1>3. \A e \in 1 .. j : e = 1
    OBVIOUS
<1>4. QED
    BY <1>1, <1>2, <1>3 DEF QState

\* Advance judges and settles what a new epoch allows.
LEMMA AdvanceHolds ==
  ASSUME NEW S, NEW q, NEW tm, NEW T \in Nat, q.totalEpochs = T + 1,
         QState(q, S, tm, Done(T), Judged(T))
  PROVE  /\ QState(Advance(q), S, tm, Done(T + 1), Judged(T + 1))
         /\ Advance(q).totalEpochs = T + 1 /\ Advance(q).finished = q.finished
<1> DEFINE n == Len(q.ring)
<1>1. /\ n = Depth(T + 1) /\ n \in Nat
      /\ \A r \in 1 .. n : LocOf(q.sats, q.ring[r], T + 1 - n + r)
  <2>1. RingHolds(q) /\ q \in QcRec(S)
      BY DEF QState
  <2>2. QED
      BY <2>1 DEF RingHolds, QcRec
<1>2. CASE T < 2
  <2>1. n < 3
      BY <1>1, <1>2 DEF Depth
  <2>2. Advance(q) = q
      BY <2>1 DEF Advance
  <2>3. /\ Done(T + 1) = Done(T) /\ Done(T) \in Nat /\ Judged(T) \in Nat
        /\ Judged(T + 1) \in Nat /\ Judged(T) <= Judged(T + 1) /\ Judged(T + 1) <= 1
      BY <1>2 DEF Done, Judged
  <2>4. QED
      BY <2>2, <2>3, FirstIsJudged
<1>3. CASE ~(T < 2)
  <2> DEFINE a == q.ring[n - 2]
             b == q.ring[n - 1]
             p == judgeClockJump(q, a, b)
             d == Done(T)
             j == Judged(T)
  <2>1. ~(n < 3) /\ n - 2 \in 1 .. n /\ n - 1 \in 1 .. n
    <3>1. n = Depth(T + 1) /\ n \in Nat
        BY <1>1
    <3> HIDE DEF n
    <3>2. n >= 3
        BY <1>3, <3>1 DEF Depth
    <3>3. QED
        BY <3>1, <3>2
  <2>2. /\ j = T - 1 /\ j \in Nat /\ d \in Nat /\ d <= j /\ j < T + 1 /\ T - 1 <= d + 1
        /\ Later(T - 1, d) = T - 1 /\ Done(T + 1) = T - 1 /\ Judged(T + 1) = j + 1
        /\ T - 1 \in Nat /\ j + 1 \in Nat /\ j + 1 <= T + 1
      BY <1>3 DEF Done, Judged, Later
  <2>3. LocOf(q.sats, a, j) /\ LocOf(q.sats, b, j + 1)
    <3>1. T + 1 - n + (n - 2) = j /\ T + 1 - n + (n - 1) = j + 1
        BY <1>1, <2>2
    <3>2. QED
        BY <1>1, <2>1, <3>1
  <2>4. Advance(q) = settleEpoch(p, a)
      BY <2>1 DEF Advance
  <2> HIDE DEF d, j, a, b
  <2>5. /\ QState(p, S, tm, d, j + 1) /\ p.totalEpochs = q.totalEpochs /\ p.ring = q.ring
        /\ p.finished = q.finished
    <3>1. /\ j \in Nat /\ d \in Nat /\ d <= j /\ j < q.totalEpochs
          /\ LocOf(q.sats, a, j) /\ LocOf(q.sats, b, j + 1)
        BY <2>2, <2>3
    <3>2. QState(q, S, tm, d, j)
        BY DEF d, j
    <3> HIDE DEF p
    <3>4. LET r == judgeClockJump(q, a, b)
          IN  /\ QState(r, S, tm, d, j + 1) /\ r.totalEpochs = q.totalEpochs
              /\ r.ring = q.ring /\ r.finished = q.finished
        BY <3>1, <3>2, JudgeHolds
    <3>3. QED
        BY <3>4 DEF p
  <2> HIDE DEF p
  <2>6. LocOf(p.sats, a, T - 1)
    <3>1. RingHolds(p)
        BY <2>5 DEF QState
    <3>2. LocOf(p.sats, p.ring[n - 2], T + 1 - n + (n - 2))
      <4>1. \A r \in 1 .. Len(p.ring) : LocOf(p.sats, p.ring[r], p.totalEpochs - Len(p.ring) + r)
          BY <3>1 DEF RingHolds
      <4>2. p.totalEpochs = T + 1 /\ Len(p.ring) = n
          BY <2>5
      <4>3. n - 2 \in 1 .. Len(p.ring)
          BY <2>1, <4>2
      <4>4. LocOf(p.sats, p.ring[n - 2], p.totalEpochs - Len(p.ring) + (n - 2))
          BY <4>1, <4>3
      <4>5. QED
          BY <4>2, <4>4
    <3>3. T + 1 - n + (n - 2) = T - 1
        BY <1>1
    <3>4. QED
        BY <2>5, <3>2, <3>3 DEF a
  <2>7. /\ QState(settleEpoch(p, a), S, tm, Later(T - 1, d), j + 1)
        /\ settleEpoch(p, a).totalEpochs = p.totalEpochs
        /\ settleEpoch(p, a).finished = p.finished
      BY <2>2, <2>5, <2>6, SettleEpochHolds
  <2>8. QED
      BY <2>2, <2>4, <2>5, <2>7
<1>4. QED
    BY <1>2, <1>3

\* The epochs of the ring are settled in turn, from the oldest.
LEMMA SettleAllIs ==
  ASSUME NEW q, Len(q.ring) \in 0 .. 4
  PROVE  \E f : /\ f[0] = q /\ SettleAll(q) = f[Len(q.ring)]
                /\ \A k \in 1 .. Len(q.ring) : f[k] = settleEpoch(f[k - 1], q.ring[k])
<1> DEFINE n == Len(q.ring)
           Turn(f) == [k \in 0 .. n |-> IF k = 0 THEN q ELSE settleEpoch(f[k - 1], q.ring[k])]
           g1 == settleEpoch(q, q.ring[1])
           g2 == settleEpoch(g1, q.ring[2])
           g3 == settleEpoch(g2, q.ring[3])
           g4 == settleEpoch(g3, q.ring[4])
           g == [k \in 0 .. n |-> IF k = 0 THEN q ELSE IF k = 1 THEN g1 ELSE IF k = 2 THEN g2
                                  ELSE IF k = 3 THEN g3 ELSE g4]
<1>1. g = Turn(g)
  <2>1. ASSUME NEW k \in 0 .. n
        PROVE  g[k] = IF k = 0 THEN q ELSE settleEpoch(g[k - 1], q.ring[k])
    <3>1. k = 0 \/ k = 1 \/ k = 2 \/ k = 3 \/ k = 4
      <4>1. n \in 0 .. 4 /\ k \in 0 .. n
          OBVIOUS
      <4> HIDE DEF n
      <4>2. QED
          BY <4>1
    <3>2. k # 0 => k - 1 \in 0 .. n
        OBVIOUS
    <3> HIDE DEF g1, g2, g3, g4
    <3>3. CASE k = 0
        BY <3>3
    <3>4. CASE k = 1
        BY <3>2, <3>4 DEF g1
    <3>5. CASE k = 2
        BY <3>2, <3>5 DEF g2
    <3>6. CASE k = 3
        BY <3>2, <3>6 DEF g3
    <3>7. CASE k = 4
        BY <3>2, <3>7 DEF g4
    <3>8. QED
        BY <3>1, <3>3, <3>4, <3>5, <3>6, <3>7
  <2>2. g = [k \in 0 .. n |-> g[k]]
      OBVIOUS
  <2> HIDE DEF g
  <2>3. QED
      BY <2>1, <2>2
<1> HIDE DEF g
<1>2. PICK f : f = CHOOSE h : h = Turn(h)
    OBVIOUS
<1>3. SettleAll(q) = f[n]
    BY <1>2 DEF SettleAll
<1>4. f = Turn(f)
  <2> HIDE DEF Turn
  <2>1. QED
      BY <1>1, <1>2
<1>5. /\ f[0] = q
      /\ \A k \in 1 .. n : f[k] = settleEpoch(f[k - 1], q.ring[k])
  <2>1. n \in Nat
      OBVIOUS
  <2> HIDE DEF n
  <2>2. \A k \in 0 .. n : f[k] = IF k = 0 THEN q ELSE settleEpoch(f[k - 1], q.ring[k])
      BY <1>4
  <2>3. 0 \in 0 .. n
      BY <2>1
  <2>4. \A k \in 1 .. n : k \in 0 .. n /\ k # 0
      BY <2>1
  <2>5. QED
      BY <2>2, <2>3, <2>4
<1>6. QED
    BY <1>3, <1>5

\* Finish settles what the ring still holds.
LEMMA SettleAllHolds ==
  ASSUME NEW S, NEW q, NEW tm, NEW T \in Nat, q.totalEpochs = T,
         QState(q, S, tm, Done(T), T)
  PROVE  /\ QState(SettleAll(q), S, tm, T, T) /\ SettleAll(q).totalEpochs = T
<1> DEFINE n == Len(q.ring)
           d(k) == Later(T - n + k, Done(T))
<1>1. n = Depth(T) /\ n \in 0 .. 4 /\ T - n \in Nat /\ Done(T) \in Nat
  <2>1. n = Depth(T)
      BY DEF QState, RingHolds
  <2>2. QED
      BY <2>1 DEF Depth, Done
<1>2. PICK f : /\ f[0] = q /\ SettleAll(q) = f[n]
               /\ \A k \in 1 .. n : f[k] = settleEpoch(f[k - 1], q.ring[k])
    BY <1>1, SettleAllIs
<1> DEFINE P(k) == /\ QState(f[k], S, tm, d(k), T)
                   /\ f[k].ring = q.ring /\ f[k].totalEpochs = T
<1>3. P(0)
  <2>1. d(0) = Done(T)
      BY <1>1 DEF Done, Later, Depth
  <2>2. QED
      BY <1>2, <2>1
<1>4. ASSUME NEW k \in 0 .. n - 1, P(k) PROVE P(k + 1)
  <2>1. /\ k + 1 \in 1 .. n /\ (k + 1) - 1 = k /\ d(k) \in Nat
        /\ T - n + (k + 1) \in Nat /\ T - n + (k + 1) <= d(k) + 1
        /\ Later(T - n + (k + 1), d(k)) = d(k + 1)
    <3> DEFINE m == T - n
               dd == Done(T)
    <3>1. m \in Nat /\ dd \in Nat /\ m <= dd /\ n \in Nat /\ k \in 0 .. n - 1
        BY <1>1 DEF Done, Depth
    <3> HIDE DEF n
    <3>2. k \in Nat /\ k + 1 \in 1 .. n /\ (k + 1) - 1 = k
        BY <3>1
    <3> HIDE DEF m, dd
    <3>3. /\ Later(m + k, dd) \in Nat /\ m + (k + 1) \in Nat
          /\ m + (k + 1) <= Later(m + k, dd) + 1
        BY <3>1, <3>2 DEF Later
    <3>4. Later(m + (k + 1), Later(m + k, dd)) = Later(m + (k + 1), dd)
        BY <3>1, <3>2 DEF Later
    <3>5. QED
        BY <3>2, <3>3, <3>4 DEF m, dd
  <2>2. f[k + 1] = settleEpoch(f[k], q.ring[k + 1])
      BY <1>2, <2>1
  <2>3. RingHolds(f[k]) /\ Len(f[k].ring) = n
      BY <1>4 DEF QState
  <2>4. LocOf(f[k].sats, q.ring[k + 1], T - n + (k + 1))
      BY <1>4, <2>1, <2>3 DEF RingHolds
  <2> DEFINE x == f[k]
             loc == q.ring[k + 1]
             e == T - n + (k + 1)
             dn == d(k)
  <2>5. /\ QState(x, S, tm, dn, T) /\ x.totalEpochs = T /\ x.ring = q.ring
        /\ dn \in Nat /\ e \in Nat /\ e <= dn + 1 /\ LocOf(x.sats, loc, e)
      BY <1>4, <2>1, <2>4
  <2>6. f[k + 1] = settleEpoch(x, loc) /\ Later(e, dn) = d(k + 1)
      BY <2>1, <2>2
  <2> HIDE DEF x, loc, e, dn, d
  <2>7. /\ QState(settleEpoch(x, loc), S, tm, Later(e, dn), T)
        /\ settleEpoch(x, loc).totalEpochs = x.totalEpochs
        /\ settleEpoch(x, loc).ring = x.ring
    <3>1. /\ QState(x, S, tm, dn, T) /\ dn \in Nat /\ e \in Nat /\ e <= dn + 1
          /\ LocOf(x.sats, loc, e) /\ T \in Nat /\ T <= x.totalEpochs
        BY <2>5
    <3>2. LET r == settleEpoch(x, loc)
          IN  /\ QState(r, S, tm, Later(e, dn), T)
              /\ r.totalEpochs = x.totalEpochs /\ r.ring = x.ring /\ r.finished = x.finished
        BY <3>1, SettleEpochHolds
    <3>3. QED
        BY <3>2
  <2>8. QED
      BY <2>5, <2>6, <2>7
<1>5. P(n)
  <2> HIDE DEF P, n
  <2>0. n = 0 \/ n = 1 \/ n = 2 \/ n = 3 \/ n = 4
      BY <1>1
  <2>1. n > 0 => P(1)
    <3>1. n > 0 => 0 \in 0 .. n - 1 /\ 0 + 1 = 1
        BY <1>1
    <3>2. QED
        BY <1>3, <1>4, <3>1
  <2>2. n > 1 => P(2)
    <3>1. n > 1 => n > 0 /\ 1 \in 0 .. n - 1 /\ 1 + 1 = 2
        BY <1>1
    <3>2. QED
        BY <1>4, <2>1, <3>1
  <2>3. n > 2 => P(3)
    <3>1. n > 2 => n > 1 /\ 2 \in 0 .. n - 1 /\ 2 + 1 = 3
        BY <1>1
    <3>2. QED
        BY <1>4, <2>2, <3>1
  <2>4. n > 3 => P(4)
    <3>1. n > 3 => n > 2 /\ 3 \in 0 .. n - 1 /\ 3 + 1 = 4
        BY <1>1
    <3>2. QED
        BY <1>4, <2>3, <3>1
  <2>5. QED
      BY <1>3, <2>0, <2>1, <2>2, <2>3, <2>4
<1>6. d(n) = T
    BY <1>1 DEF Later, Done
<1>7. QED
    BY <1>2, <1>5, <1>6

\* Finish judges the last pair, then settles all.
LEMMA FinishedHolds ==
  ASSUME NEW S, NEW q, NEW tm, NEW T \in Nat, q.totalEpochs = T,
         QState(q, S, tm, Done(T), Judged(T))
  PROVE  /\ QState(Finished(q), S, tm, T, T)
         /\ Finished(q).totalEpochs = T /\ Finished(q).finished
<1> DEFINE n == Len(q.ring)
           x == IF n >= 2 THEN judgeClockJump(q, q.ring[n - 1], q.ring[n]) ELSE q
           y == SettleAll(x)
<1>1. n = Depth(T) /\ n \in Nat /\ T - n \in Nat /\ Done(T) \in Nat /\ Judged(T) \in Nat
  <2>1. n = Depth(T)
      BY DEF QState, RingHolds
  <2>2. QED
      BY <2>1 DEF Depth, Done, Judged
<1>2. QState(x, S, tm, Done(T), T) /\ x.totalEpochs = T
  <2>1. CASE T >= 2
    <3>1. /\ n >= 2 /\ n - 1 \in 1 .. n /\ n \in 1 .. n
          /\ T - n + (n - 1) = Judged(T) /\ T - n + n = Judged(T) + 1 /\ Judged(T) + 1 = T
          /\ Done(T) <= Judged(T) /\ Judged(T) < T
        BY <1>1, <2>1 DEF Depth, Judged, Done
    <3>2. \A r \in 1 .. n : LocOf(q.sats, q.ring[r], T - n + r)
        BY DEF QState, RingHolds
    <3> DEFINE a == q.ring[n - 1]
               b == q.ring[n]
               j == Judged(T)
               d == Done(T)
    <3>3. LocOf(q.sats, a, j) /\ LocOf(q.sats, b, j + 1)
        BY <3>1, <3>2
    <3>4. x = judgeClockJump(q, a, b)
        BY <3>1
    <3>5. j \in Nat /\ d \in Nat /\ d <= j /\ j < q.totalEpochs /\ QState(q, S, tm, d, j)
        BY <1>1, <3>1
    <3> HIDE DEF a, b, j, d
    <3>6. LET p == judgeClockJump(q, a, b)
          IN  QState(p, S, tm, d, j + 1) /\ p.totalEpochs = q.totalEpochs
        BY <3>3, <3>5, JudgeHolds
    <3>7. QED
        BY <3>1, <3>4, <3>6 DEF d, j
  <2>2. CASE ~(T >= 2)
    <3>1. x = q /\ Judged(T) <= T /\ T <= 1
        BY <1>1, <2>2 DEF Depth, Judged
    <3>2. QED
        BY <1>1, <3>1, FirstIsJudged
  <2>3. QED
      BY <2>1, <2>2
<1>3. Finished(q) = [y EXCEPT !.finished = TRUE]
    BY DEF Finished
<1> HIDE DEF x, y
<1>4. QState(y, S, tm, T, T) /\ y.totalEpochs = T
    BY <1>2, SettleAllHolds DEF y
<1> DEFINE p == Finished(q)
<1>5. y \in QcRec(S)
    BY <1>4 DEF QState
<1>6. /\ p.interval = y.interval /\ p.seeded = y.seeded /\ p.totalEpochs = y.totalEpochs
      /\ p.sow = y.sow /\ p.sats = y.sats /\ p.ring = y.ring /\ p.finished = TRUE
      /\ p \in QcRec(S)
    BY <1>3, <1>5 DEF QcRec
<1> HIDE DEF p
<1>7. QState(p, S, tm, T, T)
    BY <1>4, <1>6 DEF QState, RingHolds
<1>8. QED
    BY <1>4, <1>6, <1>7 DEF p

-----------------------------------------------------------------------------
(* The run.                                                                *)

\* While epochs are fed all but the last two are settled and all but the last
\* is judged; afterwards nothing is left.
QcLooked(q) == IF q.finished THEN q.totalEpochs ELSE Judged(q.totalEpochs)
QcSettled(q) == IF q.finished THEN q.totalEpochs ELSE Done(q.totalEpochs)

QcIInv ==
    /\ qcInput \in QcInputs
    /\ \E tm : QState(qc, SatsOf(qcInput), tm, QcSettled(qc), QcLooked(qc))

\* A satellite without points.
LEMMA NewSatIsExact ==
  /\ NewSat \in QcSat /\ Counted(NewSat) /\ Exact(NewSat)
  /\ NewSat.pts = <<>> /\ NewSat.pending = 0 /\ NewSat.settled = 0
<1> DEFINE s == NewSat
<1>1. /\ s.pts = <<>> /\ s.pending = 0 /\ s.settled = 0 /\ s.slips = 0 /\ s.clockJumps = 0
      /\ s.triCnt = 0 /\ s.winCnt = 0
    BY DEF NewSat
<1>2. s \in QcSat
    BY DEF NewSat, QcSat
<1> HIDE DEF s
<1>3. Len(s.pts) = 0
    BY <1>1
<1>4. SlipPlaces(s) = {} /\ JumpPlaces(s) = {}
    BY <1>3 DEF SlipPlaces, JumpPlaces
<1>5. {i \in 1 .. s.settled : OkBack(s, i, 3)} = {} /\ {i \in 1 .. s.settled : OkBack(s, i, 1)} = {}
    BY <1>1
<1>6. Cardinality({}) = 0
    BY FS_EmptySet
<1>7. QED
    BY <1>1, <1>2, <1>4, <1>5, <1>6 DEF Counted, Exact, s

\* Nothing has been fed.
LEMMA QcInitHolds == QcInit => QcIInv
<1> SUFFICES ASSUME NEW input \in QcInputs, QcStart(input) PROVE QcIInv
    BY DEF QcInit
<1> DEFINE S == SatsOf(qcInput)
           tm == [i \in 1 .. 0 |-> 0]
<1>1. qcInput = input /\ qc = QcReset
    BY DEF QcStart
<1>2. qcInput.nominal \in Nat /\ IsFiniteSet(S)
    BY <1>1, QcAssumption
<1>3. /\ qc.interval = qcInput.nominal /\ qc.totalEpochs = 0 /\ qc.sow = 0
      /\ qc.sats = [s \in S |-> NewSat] /\ qc.ring = <<>> /\ qc.finished = FALSE
      /\ qc.seeded = (qcInput.nominal > 0) /\ qc.clockJumpEpochs = 0
    BY <1>1 DEF QcReset
<1>4. qc \in QcRec(S)
  <2>1. qc.sats \in [S -> QcSat]
      BY <1>3, NewSatIsExact
  <2>2. <<>> \in Seq(Locs(S))
      OBVIOUS
  <2>3. QcReset = [interval |-> qc.interval, seeded |-> qc.seeded,
                   totalEpochs |-> qc.totalEpochs, sow |-> qc.sow, sats |-> qc.sats,
                   ring |-> qc.ring, clockJumpEpochs |-> qc.clockJumpEpochs,
                   finished |-> qc.finished]
      BY <1>1 DEF QcReset
  <2>4. /\ qc.interval \in Nat /\ qc.seeded \in BOOLEAN /\ qc.totalEpochs \in Nat
        /\ qc.sow \in Nat /\ qc.ring \in Seq(Locs(S)) /\ qc.clockJumpEpochs \in Nat
        /\ qc.finished \in BOOLEAN
    <3>1. qc.seeded \in BOOLEAN
        BY <1>3
    <3>2. qc.ring \in Seq(Locs(S))
        BY <1>3, <2>2
    <3>3. /\ qc.interval = qcInput.nominal /\ qc.totalEpochs = 0 /\ qc.sow = 0
          /\ qc.clockJumpEpochs = 0 /\ qc.finished = FALSE
        BY <1>3
    <3>4. qc.finished \in BOOLEAN
        BY <3>3
    <3>5. qc.interval \in Nat /\ qc.totalEpochs \in Nat /\ qc.sow \in Nat /\ qc.clockJumpEpochs \in Nat
        BY <1>2, <3>3
    <3>6. QED
        BY <3>1, <3>2, <3>4, <3>5, Zenon
  <2> DEFINE r == [interval |-> qc.interval, seeded |-> qc.seeded,
                   totalEpochs |-> qc.totalEpochs, sow |-> qc.sow, sats |-> qc.sats,
                   ring |-> qc.ring, clockJumpEpochs |-> qc.clockJumpEpochs,
                   finished |-> qc.finished]
  <2> HIDE DEF S
  <2>5. r \in QcRec(S)
      BY <2>1, <2>4 DEF QcRec
  <2>6. qc = r
      BY <1>1, <2>3
  <2> HIDE DEF r
  <2>7. QED
      BY <2>5, <2>6
<1> HIDE DEF S
<1>5. \A s \in S : qc.sats[s] = NewSat
    BY <1>3
<1>6. ASSUME NEW s \in S PROVE SatHolds(qc.sats[s], 0, 0, 0, tm) /\ Exact(qc.sats[s])
  <2>1. Len(NewSat.pts) = 0
      BY NewSatIsExact
  <2>2. QED
      BY <1>5, <2>1, NewSatIsExact DEF SatHolds, Placed
<1>7. Clock(tm, 0, 0)
    BY DEF Clock
<1>8. RingHolds(qc)
    BY <1>3 DEF RingHolds, Depth
<1> HIDE DEF tm
<1>12. qcInput.nominal > 0 => qc.seeded
    BY <1>3
<1>9. QState(qc, S, tm, 0, 0)
    BY <1>2, <1>3, <1>4, <1>6, <1>7, <1>8, <1>12 DEF QState
<1>10. QcSettled(qc) = 0 /\ QcLooked(qc) = 0
    BY <1>3 DEF QcSettled, QcLooked, Done, Judged
<1>11. QED
    BY <1>1, <1>9, <1>10 DEF QcIInv, S

\* Feed.
LEMMA FeedHolds == QcIInv /\ Feed => QcIInv'
<1> SUFFICES ASSUME QcIInv, Feed PROVE QcIInv'
    OBVIOUS
<1> DEFINE S == SatsOf(qcInput)
           T == qc.totalEpochs
           e == qcInput.epochs[T + 1]
           g == Grown(qc, e)
<1>1. ~qc.finished /\ T < Len(qcInput.epochs) /\ qc' = Fed(qc, e) /\ qcInput' = qcInput
    BY DEF Feed
<1>2. PICK tm : QState(qc, S, tm, Done(T), Judged(T))
    BY <1>1 DEF QcIInv, QcSettled, QcLooked
<1>3. T \in Nat
    BY <1>2 DEF QState, QcRec
<1>4. EpochOk(e) /\ Seedable(qc, e)
  <2>1. qcInput \in QcInputs
      BY DEF QcIInv
  <2>2. Len(qcInput.epochs) \in Nat /\ DOMAIN qcInput.epochs = 1 .. Len(qcInput.epochs)
      BY <2>1, QcAssumption
  <2>3. T + 1 \in DOMAIN qcInput.epochs
      BY <1>1, <1>3, <2>2
  <2>4. EpochOk(e)
      BY <2>1, <2>3, QcAssumption DEF EpochOk
  <2>5. qcInput.nominal = 0 => e.dt < QcSeedSpan
      BY <2>1, <2>3, QcAssumption
  <2>6. qcInput.nominal \in Nat /\ (qcInput.nominal > 0 => qc.seeded)
      BY <1>2, <2>1, QcAssumption DEF QState
  <2>7. QED
      BY <2>4, <2>5, <2>6 DEF Seedable
<1>5. /\ Done(T) \in Nat /\ Judged(T) \in Nat /\ Done(T) <= T /\ Judged(T) <= T
      /\ T = 0 \/ Done(T) < T
    BY <1>3 DEF Done, Judged
<1> DEFINE tn == NewClock(tm, T, qc.sow + e.dt)
<1> HIDE DEF e
<1>6. QState(g, S, tn, Done(T), Judged(T)) /\ g.totalEpochs = T + 1 /\ g.finished = FALSE
  <2> DEFINE d == Done(T)
             j == Judged(T)
  <2> HIDE DEF S
  <2>1. /\ QState(qc, S, tm, d, j) /\ d \in Nat /\ j \in Nat
        /\ Behind(d, j, qc.totalEpochs)
      BY <1>2, <1>5 DEF Behind
  <2> HIDE DEF d, j
  <2>2. EpochOk(e)
      BY <1>4
  <2> HIDE DEF T
  <2>3. QState(Grown(qc, e), S, NewClock(tm, qc.totalEpochs, qc.sow + e.dt), d, j)
      BY <2>1, <2>2, GrownHolds
  <2>4. Grown(qc, e).totalEpochs = qc.totalEpochs + 1
      BY <2>1, <2>2, GrownHolds
  <2>5. Grown(qc, e).finished = FALSE
    <3>1. qc \in QcRec(S)
        BY <2>1 DEF QState
    <3>2. QED
        BY <3>1 DEF Grown, QcRec
  <2>6. QED
      BY <2>3, <2>4, <2>5 DEF d, j, T
<1>7. qc' = Advance(g)
    BY <1>1, <1>4, FedIsGrown
<1> HIDE DEF g, tn, S
<1>8. /\ QState(Advance(g), S, tn, Done(T + 1), Judged(T + 1))
      /\ Advance(g).totalEpochs = T + 1 /\ Advance(g).finished = g.finished
    BY <1>3, <1>6, AdvanceHolds
<1>9. qc'.totalEpochs = T + 1 /\ qc'.finished = FALSE /\ QState(qc', S, tn, Done(T + 1), Judged(T + 1))
    BY <1>6, <1>7, <1>8
<1>10. QcSettled(qc') = Done(T + 1) /\ QcLooked(qc') = Judged(T + 1)
    BY <1>9 DEF QcSettled, QcLooked
<1>11. QED
    BY <1>1, <1>9, <1>10 DEF QcIInv, S, QState

\* Finish.
LEMMA FinishHolds == QcIInv /\ Finish => QcIInv'
<1> SUFFICES ASSUME QcIInv, Finish PROVE QcIInv'
    OBVIOUS
<1> DEFINE S == SatsOf(qcInput)
           T == qc.totalEpochs
           p == Finished(qc)
<1>1. ~qc.finished /\ qc' = p /\ qcInput' = qcInput
    BY DEF Finish
<1>2. PICK tm : QState(qc, S, tm, Done(T), Judged(T))
    BY <1>1 DEF QcIInv, QcSettled, QcLooked
<1>3. T \in Nat
    BY <1>2 DEF QState, QcRec
<1> HIDE DEF S
<1>4. QState(p, S, tm, T, T) /\ p.totalEpochs = T /\ p.finished
    BY <1>2, <1>3, FinishedHolds
<1> HIDE DEF p
<1>5. QcSettled(p) = T /\ QcLooked(p) = T
    BY <1>4 DEF QcSettled, QcLooked
<1>6. QED
    BY <1>1, <1>4, <1>5 DEF QcIInv, S, QState

\* Every step keeps the invariant.
LEMMA QcStepHolds == QcIInv /\ [QcNext]_qcVars => QcIInv'
<1>1. ASSUME QcIInv, UNCHANGED qcVars PROVE QcIInv'
    BY <1>1 DEF QcIInv, qcVars, QState, QcSettled, QcLooked
<1>2. QED
    BY <1>1, FeedHolds, FinishHolds DEF QcNext

\* What the invariant says of one satellite.
LEMMA QcSatHolds ==
  ASSUME QcIInv
  PROVE  \E tm :
         /\ Clock(tm, qc.totalEpochs, qc.sow) /\ qc.totalEpochs \in Nat
         /\ \A s \in DOMAIN qc.sats :
              SatHolds(qc.sats[s], qc.totalEpochs, QcSettled(qc), QcLooked(qc), tm)
         /\ qc.interval = QcRate => \A s \in DOMAIN qc.sats : Exact(qc.sats[s])
         /\ Len(qc.ring) <= 4
         /\ \A e \in 1 .. QcLooked(qc) : JumpFound(qc.sats, e)
<1>1. PICK tm : QState(qc, SatsOf(qcInput), tm, QcSettled(qc), QcLooked(qc))
    BY DEF QcIInv
<1>2. DOMAIN qc.sats = SatsOf(qcInput) /\ qc.totalEpochs \in Nat
    BY <1>1 DEF QState, QcRec
<1>3. Len(qc.ring) <= 4
    BY <1>1, <1>2 DEF QState, RingHolds, Depth
<1>4. QED
    BY <1>1, <1>2, <1>3 DEF QState

\* The types follow.
LEMMA QcTypes == QcIInv => QcTypeOK
<1> SUFFICES ASSUME QcIInv PROVE QcTypeOK
    OBVIOUS
<1>1. qcInput \in QcInputs /\ SettleLag = 2
    BY QcAssumption DEF QcIInv
<1>2. \A i \in DOMAIN qcInput.epochs :
        \A s \in DOMAIN qcInput.epochs[i].values : qcInput.epochs[i].values[s] \in QcValues
    BY <1>1, QcAssumption
<1>3. PICK tm :
         /\ \A s \in DOMAIN qc.sats :
              SatHolds(qc.sats[s], qc.totalEpochs, QcSettled(qc), QcLooked(qc), tm)
         /\ Len(qc.ring) <= 4
    BY QcSatHolds
<1>4. ASSUME NEW s \in DOMAIN qc.sats
      PROVE  /\ qc.sats[s].settled \in 0 .. Len(qc.sats[s].pts)
             /\ qc.sats[s].pending = Len(qc.sats[s].pts)
    BY <1>3, SatFields DEF SatHolds, Placed
<1>5. QED
    BY <1>1, <1>2, <1>3, <1>4 DEF QcTypeOK

\* The report and its plot agree.
LEMMA QcAgrees == QcIInv => QcReportAgrees
<1> SUFFICES ASSUME QcIInv PROVE QcReportAgrees
    OBVIOUS
<1>1. PICK tm :
         /\ \A s \in DOMAIN qc.sats :
              SatHolds(qc.sats[s], qc.totalEpochs, QcSettled(qc), QcLooked(qc), tm)
         /\ qc.interval = QcRate => \A s \in DOMAIN qc.sats : Exact(qc.sats[s])
    BY QcSatHolds
<1>2. QcCountsAreMarked
  <2>1. ASSUME NEW s \in DOMAIN qc.sats
        PROVE  /\ qc.sats[s].slips = Flagged(qc.sats[s], LAMBDA p : p.slip)
               /\ qc.sats[s].clockJumps = Flagged(qc.sats[s], LAMBDA p : p.clockJump)
    <3>1. qc.sats[s] \in QcSat /\ Counted(qc.sats[s])
        BY <1>1 DEF SatHolds
    <3>2. DOMAIN qc.sats[s].pts = 1 .. Len(qc.sats[s].pts)
        BY <3>1, SatFields
    <3>3. QED
        BY <3>1, <3>2 DEF Counted, SlipPlaces, JumpPlaces, Flagged
  <2>2. QED
      BY <2>1 DEF QcCountsAreMarked
<1>3. QcOneShot
  <2>1. SUFFICES ASSUME qc.finished, qc.interval = QcRate, NEW s \in DOMAIN qc.sats
                 PROVE  OneShot(qc.sats[s])
      BY DEF QcOneShot
  <2> DEFINE x == qc.sats[s]
             T == qc.totalEpochs
  <2>2. SatHolds(x, T, T, T, tm) /\ Exact(x)
      BY <1>1, <2>1 DEF QcSettled, QcLooked
  <2> HIDE DEF x, T
  <2>3. Len(x.pts) \in Nat /\ DOMAIN x.pts = 1 .. Len(x.pts) /\ x.settled \in Nat
      BY <2>2, SatFields DEF SatHolds
  <2>4. \A i \in 1 .. Len(x.pts) : x.pts[i].epoch \in 1 .. T /\ (i <= x.settled <=> x.pts[i].epoch <= T)
      BY <2>2 DEF SatHolds, Placed
  <2>5. \A i \in 1 .. Len(x.pts) : i <= x.settled
      BY <2>4
  <2>6. x.settled <= Len(x.pts)
      BY <2>2 DEF SatHolds, Placed
  <2>7. x.settled = Len(x.pts)
      BY <2>3, <2>5, <2>6
  <2>8. QED
      BY <2>2, <2>3, <2>7 DEF Exact, OneShot, x
<1>4. QED
    BY <1>2, <1>3 DEF QcReportAgrees

\* An epoch two back is settled.
LEMMA QcLag == QcIInv => QcLagBounded
<1> SUFFICES ASSUME QcIInv, NEW s \in DOMAIN qc.sats, NEW i \in DOMAIN qc.sats[s].pts,
                    qc.sats[s].pts[i].epoch <= qc.totalEpochs - SettleLag
             PROVE  i <= qc.sats[s].settled
    BY DEF QcLagBounded
<1> DEFINE x == qc.sats[s]
           T == qc.totalEpochs
           e == x.pts[i].epoch
<1>1. PICK tm : SatHolds(x, T, QcSettled(qc), QcLooked(qc), tm) /\ T \in Nat
    BY QcSatHolds
<1>2. i \in 1 .. Len(x.pts)
    BY <1>1, SatFields DEF SatHolds
<1>3. e \in 1 .. T /\ (i <= x.settled <=> e <= QcSettled(qc))
    BY <1>1, <1>2 DEF SatHolds, Placed
<1>4. e <= T - 2
    BY QcAssumption
<1> HIDE DEF e, T
<1>5. e <= T /\ e <= Done(T)
    BY <1>1, <1>3, <1>4 DEF Done
<1>6. e <= QcSettled(qc)
    BY <1>5 DEF QcSettled, T
<1>7. QED
    BY <1>3, <1>6

\* Two epochs at the receiver's interval are consecutive, and none has two times.
LEMMA ClockTells ==
  ASSUME NEW T \in Nat, NEW sow, NEW tm, Clock(tm, T, sow), NEW a \in 1 .. T, NEW b \in 1 .. T
  PROVE  /\ tm[a] = tm[b] => a = b
         /\ a < b /\ tm[b] - tm[a] = QcRate => a + 1 = b
<1>1. QcRate \in Nat \ {0}
    BY QcAssumption
<1>2. /\ \A c \in 1 .. T : tm[c] \in Nat
      /\ \A c, d \in 1 .. T : c < d => tm[c] + QcRate <= tm[d]
    BY DEF Clock
<1>3. tm[a] = tm[b] => a = b
  <2>1. a < b \/ b < a \/ a = b
      OBVIOUS
  <2>2. QED
      BY <1>1, <1>2, <2>1
<1>4. ASSUME a < b, tm[b] - tm[a] = QcRate, a + 1 # b PROVE FALSE
  <2>1. a + 1 \in 1 .. T /\ a < a + 1 /\ a + 1 < b
      BY <1>4
  <2>2. tm[a] + QcRate <= tm[a + 1] /\ tm[a + 1] + QcRate <= tm[b]
      BY <1>2, <2>1
  <2>3. tm[a] \in Nat /\ tm[a + 1] \in Nat /\ tm[b] \in Nat
      BY <1>2, <2>1
  <2>4. QED
      BY <1>1, <1>4, <2>2, <2>3
<1>5. QED
    BY <1>3, <1>4

\* All epochs are judged, and a jump judged is marked.
LEMMA QcFinds == QcIInv => QcJumpsFound
<1> DEFINE At(p) == {r \in DOMAIN qc.sats : \E j \in DOMAIN qc.sats[r].pts :
                         /\ j > 1 /\ qc.sats[r].pts[j].t = p.t
                         /\ qc.sats[r].pts[j].jump
                         /\ qc.sats[r].pts[j].t - qc.sats[r].pts[j - 1].t = QcRate
                         /\ ~qc.sats[r].slipEver}
<1> SUFFICES ASSUME QcIInv, qc.finished,
                    NEW s \in DOMAIN qc.sats, NEW i \in DOMAIN qc.sats[s].pts,
                    At(qc.sats[s].pts[i]) = DOMAIN qc.sats,
                    Cardinality(DOMAIN qc.sats) >= MinVotes
             PROVE  qc.sats[s].pts[i].clockJump
    BY DEF QcJumpsFound
<1> DEFINE T == qc.totalEpochs
           E == qc.sats[s].pts[i].epoch
<1>1. PICK tm : /\ Clock(tm, T, qc.sow) /\ T \in Nat
                /\ \A r \in DOMAIN qc.sats : SatHolds(qc.sats[r], T, T, T, tm)
                /\ \A e \in 1 .. T : JumpFound(qc.sats, e)
    BY QcSatHolds DEF QcSettled, QcLooked
<1>2. \A r \in DOMAIN qc.sats :
        DOMAIN qc.sats[r].pts = 1 .. Len(qc.sats[r].pts) /\ Len(qc.sats[r].pts) \in Nat
    BY <1>1, SatFields DEF SatHolds
<1>3. i \in 1 .. Len(qc.sats[s].pts) /\ E \in 1 .. T /\ qc.sats[s].pts[i].t = tm[E]
    BY <1>1, <1>2 DEF SatHolds, Placed
<1>4. ASSUME NEW r \in DOMAIN qc.sats PROVE JumpsAt(qc.sats[r], E)
  <2> DEFINE x == qc.sats[r]
  <2>1. r \in At(qc.sats[s].pts[i])
      OBVIOUS
  <2>2. PICK j \in DOMAIN x.pts :
               /\ j > 1 /\ x.pts[j].t = qc.sats[s].pts[i].t
               /\ x.pts[j].jump
               /\ x.pts[j].t - x.pts[j - 1].t = QcRate
               /\ ~x.slipEver
      BY <2>1
  <2>3. SatHolds(x, T, T, T, tm) /\ DOMAIN x.pts = 1 .. Len(x.pts) /\ Len(x.pts) \in Nat
      BY <1>1, <1>2
  <2> HIDE DEF x, T, E
  <2>4. j \in 1 .. Len(x.pts) /\ j - 1 \in 1 .. Len(x.pts) /\ j - 1 < j
      BY <2>2, <2>3
  <2> DEFINE b == x.pts[j].epoch
             a == x.pts[j - 1].epoch
  <2>5. /\ a \in 1 .. T /\ b \in 1 .. T /\ a < b
        /\ x.pts[j].t = tm[b] /\ x.pts[j - 1].t = tm[a]
      BY <2>3, <2>4 DEF SatHolds, Placed
  <2>6. tm[b] = tm[E] /\ tm[b] - tm[a] = QcRate
      BY <1>3, <2>2, <2>5
  <2> HIDE DEF a, b
  <2>7. b = E /\ a + 1 = b
      BY <1>1, <1>3, <2>5, <2>6, ClockTells
  <2>8. QED
      BY <2>2, <2>4, <2>7 DEF JumpsAt, a, b, x
<1>5. JumpFound(qc.sats, E)
    BY <1>1, <1>3
<1> HIDE DEF E
<1>6. QED
    BY <1>3, <1>4, <1>5 DEF JumpFound, E

-----------------------------------------------------------------------------
(* The theorems.                                                           *)

\* The invariant holds throughout.
LEMMA QcAlways == QcSpec => []QcIInv
  BY QcInitHolds, QcStepHolds, PTL DEF QcSpec

\* The state of the analysis has its types: no more of a series is settled than
\* it holds, the point awaiting its slip test is the last, the ring is trimmed.
THEOREM QcTypeCorrect == QcSpec => []QcTypeOK
  BY QcAlways, QcTypes, PTL

\* The report and its plot agree: the slips and clock jumps counted are those
\* marked, though judgeClockJump takes marks of markSlip back; and once finished,
\* at the receiver's own interval, the incremental statistics are those one pass
\* over the finished series gives, with every point settled, whatever the epochs,
\* gaps and satellites fed.
THEOREM QcReportAlwaysAgrees == QcSpec => []QcReportAgrees
  BY QcAlways, QcAgrees, PTL

\* No epoch is left behind: a point is settled two epochs later at the latest,
\* and in the finished report every epoch where enough satellites, all without a
\* slip, saw the clock jump is marked so, the last epochs not excepted.
THEOREM QcJudgesEveryEpoch == QcSpec => []QcJudgesAll
<1>1. QcIInv => QcJudgesAll
    BY QcLag, QcFinds DEF QcJudgesAll
<1>2. QED
    BY <1>1, QcAlways, PTL

=============================================================================
