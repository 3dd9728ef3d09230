------------------------------ MODULE QcStream ------------------------------
(***************************************************************************)
(* QC::Stream: the incremental quality analysis.  Each epoch fed extends    *)
(* the series of the satellites it holds; what looks ahead lags behind: a  *)
(* cycle slip in the Melbourne-Wuebbena combination is decided when the    *)
(* next point of the satellite is known, a receiver clock jump when the    *)
(* whole next epoch is, and only then is an epoch settled, that is, added  *)
(* to the statistics, each of which looks back over a few points.          *)
(*                                                                         *)
(* The observations are reduced to what the thresholds say of them: each   *)
(* value fed carries the verdict of every test on it, and the verdict is   *)
(* used only where the code makes the test.                                *)
(***************************************************************************)
EXTENDS Integers, Sequences, FiniteSets

CONSTANTS
    QcInputs,     \* what may be fed: [nominal, epochs]
    QcRate,       \* the receiver's own interval
    MinVotes,     \* the satellites a clock jump needs (4)
    SettleLag     \* kSettleLag (2)

VARIABLES
    qcInput,      \* the input of this run
    qc            \* Stream::Impl

qcVars == <<qcInput, qc>>

\* A value: which bands it has, and what the tests would say of it.
QcValues == [dual : BOOLEAN, gf : BOOLEAN, mw : {"clean", "slip", "outlier"},
             jump : BOOLEAN]

NewSat == [band |-> FALSE, pts |-> <<>>, n1 |-> 0, mwCnt |-> 0, pending |-> 0,
           slips |-> 0, outliers |-> 0, clockJumps |-> 0, slipEver |-> FALSE,
           settled |-> 0, triCnt |-> 0, winCnt |-> 0, ionoCnt |-> 0]

SatsOf(input) == UNION {DOMAIN input.epochs[i].values : i \in DOMAIN input.epochs}

\* A step from which an interval may be learned is shorter (s).
QcSeedSpan == 10000

\* A receiver gives no two epochs closer than its own interval; there may be gaps,
\* in a session that has to learn its interval none of hours.
ASSUME QcAssumption ==
    /\ SettleLag = 2
    /\ QcRate \in Nat \ {0}
    /\ \A x \in QcInputs :
         /\ x.nominal \in Nat
         /\ Len(x.epochs) \in Nat /\ DOMAIN x.epochs = 1 .. Len(x.epochs)
         /\ IsFiniteSet(SatsOf(x))
         /\ \A i \in DOMAIN x.epochs :
              /\ x.epochs[i].dt \in Nat /\ x.epochs[i].dt >= QcRate
              /\ x.nominal = 0 => x.epochs[i].dt < QcSeedSpan
              /\ \A s \in DOMAIN x.epochs[i].values : x.epochs[i].values[s] \in QcValues

\* Stream::reset; without a nominal interval the first step is taken for it.
QcReset == [interval |-> qcInput.nominal, seeded |-> qcInput.nominal > 0,
            totalEpochs |-> 0, sow |-> 0, sats |-> [s \in SatsOf(qcInput) |-> NewSat],
            ring |-> <<>>, clockJumpEpochs |-> 0, finished |-> FALSE]

QcStart(input) == qcInput = input /\ qc = QcReset

QcInit == \E input \in QcInputs : QcStart(input)

-----------------------------------------------------------------------------
(* One point more in the series of a satellite.                            *)

\* The step from a to b is the interval, give or take a half.
Regular(a, b, interval) ==
    LET off == b - a - interval IN 2 * (IF off < 0 THEN -off ELSE off) <= interval

\* As markSlip would be if it counted a slip that is flagged already.
SlipCountedTwice(s, k) ==
    [s EXCEPT !.pts[k].slip = TRUE, !.slips = @ + 1, !.slipEver = TRUE]

markSlip(s, k) ==
    IF s.pts[k].slip THEN s
    ELSE [s EXCEPT !.pts[k].slip = TRUE, !.slips = @ + 1, !.slipEver = TRUE]

\* Point k of s, once the next point is known to follow without a gap or not.
\* The test needs a variance, so two points since the last reset.
applyMw(s, k, nextOk) ==
    LET p == s.pts[k]
        tested == p.gapOk /\ s.mwCnt >= 2 /\ nextOk
    IN  CASE ~p.gapOk -> [s EXCEPT !.mwCnt = 1]
          [] tested /\ p.mw = "slip" -> [markSlip(s, k) EXCEPT !.mwCnt = 1]
          [] tested /\ p.mw = "outlier" ->
               [s EXCEPT !.pts[k].outlier = TRUE, !.outliers = @ + 1, !.mwCnt = @ + 1]
          [] OTHER -> [s EXCEPT !.mwCnt = @ + 1]

\* The first point of a series starts the mean and is never tested itself.
Pend(s, idx) ==
    LET t == CASE s.pending > 1 -> applyMw(s, s.pending, s.pts[idx].gapOk)
               [] s.pending = 0 -> [s EXCEPT !.mwCnt = 1]
               [] OTHER -> s
    IN  [t EXCEPT !.pending = idx]

PushPoint(s, v, sow, interval, gi) ==
    LET idx == Len(s.pts) + 1
        gapOk == idx = 1 \/ Regular(s.pts[idx - 1].t, sow, interval)
        t == [s EXCEPT !.pts = Append(@, [t |-> sow, epoch |-> gi, mw |-> v.mw, jump |-> v.jump,
                                          gapOk |-> gapOk, slip |-> FALSE,
                                          outlier |-> FALSE, clockJump |-> FALSE])]
        gfTested == idx > 1 /\ gapOk /\ s.pts[idx - 1].gapOk
    IN  Pend(IF gfTested /\ v.gf THEN markSlip(t, idx) ELSE t, idx)

\* A satellite is followed once two bands have been seen; a point needs both.
FeedSat(s, v, sow, interval, gi) ==
    CASE ~s.band /\ ~v.dual -> s
      [] s.band /\ ~v.dual -> [s EXCEPT !.n1 = @ + 1]
      [] OTHER -> PushPoint([s EXCEPT !.band = TRUE, !.n1 = @ + 1], v, sow, interval, gi)

-----------------------------------------------------------------------------
(* Settling.                                                               *)

okAt(s, i) == s.pts[i].gapOk /\ ~s.pts[i].slip /\ ~s.pts[i].clockJump

OkBack(s, i, n) == i > n /\ \A j \in i - n .. i : okAt(s, j)

\* The points behind the last one settled, up to idx: what each adds to the triple
\* differences, the multipath windows and the ionospheric rates.
settleTo(s, idx, interval) ==
    LET new == s.settled + 1 .. idx
        pairs == {i \in new : OkBack(s, i, 1)}
    IN  [s EXCEPT !.triCnt = @ + Cardinality({i \in new : OkBack(s, i, 3)}),
                  !.winCnt = @ + Cardinality(pairs),
                  !.ionoCnt = @ + Cardinality({i \in pairs :
                                      Regular(s.pts[i - 1].t, s.pts[i].t, interval)}),
                  !.settled = IF idx > @ THEN idx ELSE @]

settleEpoch(q, loc) ==
    [q EXCEPT !.sats = [s \in DOMAIN @ |->
        IF s \in DOMAIN loc THEN settleTo(@[s], loc[s], q.interval) ELSE @[s]]]

\* Satellites without a slip so far vote; six in ten of at least MinVotes decide.
ClockJumped(q, a, b) ==
    LET valid == {s \in DOMAIN a \intersect DOMAIN b : ~q.sats[s].slipEver}
        votes == {s \in valid : q.sats[s].pts[b[s]].jump}
    IN  /\ Cardinality(votes) >= MinVotes
        /\ 10 * Cardinality(votes) >= 6 * Cardinality(valid)

\* What was a slip or an outlier of point k is the receiver's clock.
Reclassify(s, k) ==
    [s EXCEPT !.slips = IF s.pts[k].slip /\ @ > 0 THEN @ - 1 ELSE @,
              !.pts[k] = [@ EXCEPT !.slip = FALSE, !.outlier = FALSE, !.clockJump = TRUE],
              !.clockJumps = @ + 1]

judgeClockJump(q, a, b) ==
    IF ~ClockJumped(q, a, b) THEN q
    ELSE [q EXCEPT !.clockJumpEpochs = @ + 1,
                   !.sats = [s \in DOMAIN @ |->
                      IF s \in DOMAIN b THEN Reclassify(@[s], b[s]) ELSE @[s]]]

-----------------------------------------------------------------------------
(* The operations.                                                         *)

\* The ring holds where the points of the last epochs stand in their series.
TrimRing(ring) == IF Len(ring) > SettleLag + 2 THEN Tail(ring) ELSE ring

\* As Advance would be if it settled only what is about to leave the ring.
SettledOnLeaving(q) ==
    LET n == Len(q.ring)
    IN  IF n < SettleLag + 2 THEN q
        ELSE settleEpoch(judgeClockJump(q, q.ring[n - 2], q.ring[n - 1]), Head(q.ring))

\* With one epoch more than a pair of epochs needs, judge the pair and settle
\* the older of the two.
Advance(q) ==
    LET n == Len(q.ring)
        judged == judgeClockJump(q, q.ring[n - 2], q.ring[n - 1])
    IN  IF n < 3 THEN q ELSE settleEpoch(judged, q.ring[n - 2])

Fed(q, e) ==
    LET sow == q.sow + e.dt
        seedNow == q.totalEpochs > 0 /\ ~q.seeded /\ e.dt < QcSeedSpan
        interval == IF seedNow THEN e.dt ELSE q.interval
        sats == [s \in DOMAIN q.sats |->
                   IF s \in DOMAIN e.values
                     THEN FeedSat(q.sats[s], e.values[s], sow, interval, q.totalEpochs + 1)
                     ELSE q.sats[s]]
        seen == {s \in DOMAIN sats : Len(sats[s].pts) > Len(q.sats[s].pts)}
        loc == [s \in seen |-> Len(sats[s].pts)]
    IN  Advance([q EXCEPT !.finished = FALSE, !.totalEpochs = @ + 1, !.sow = sow,
                          !.interval = interval, !.seeded = @ \/ seedNow,
                          !.sats = sats, !.ring = TrimRing(Append(@, loc))])

Feed ==
    /\ ~qc.finished
    /\ qc.totalEpochs < Len(qcInput.epochs)
    /\ qc' = Fed(qc, qcInput.epochs[qc.totalEpochs + 1])
    /\ UNCHANGED qcInput

\* Every epoch of the ring in turn.
SettleAll(q) ==
    LET after[k \in 0 .. Len(q.ring)] ==
          IF k = 0 THEN q ELSE settleEpoch(after[k - 1], q.ring[k])
    IN  after[Len(q.ring)]

Finished(q) ==
    LET n == Len(q.ring)
        judged == IF n >= 2 THEN judgeClockJump(q, q.ring[n - 1], q.ring[n]) ELSE q
    IN  [SettleAll(judged) EXCEPT !.finished = TRUE]

\* The reader or the session ends the input at any moment.
Finish ==
    /\ ~qc.finished
    /\ qc' = Finished(qc)
    /\ UNCHANGED qcInput

QcNext == Feed \/ Finish

QcSpec == QcInit /\ [][QcNext]_qcVars

-----------------------------------------------------------------------------
(* What the analysis promises.                                             *)

Flagged(s, P(_)) == Cardinality({i \in DOMAIN s.pts : P(s.pts[i])})

QcTypeOK ==
    /\ qcInput \in QcInputs
    /\ \A i \in DOMAIN qcInput.epochs :
         \A s \in DOMAIN qcInput.epochs[i].values : qcInput.epochs[i].values[s] \in QcValues
    /\ \A s \in DOMAIN qc.sats :
         /\ qc.sats[s].settled \in 0 .. Len(qc.sats[s].pts)
         /\ qc.sats[s].pending = Len(qc.sats[s].pts)
    /\ Len(qc.ring) <= SettleLag + 2

\* The slips and clock jumps a report counts are those it marks in its plots,
\* whatever markSlip marked first and judgeClockJump took back.
QcCountsAreMarked ==
    \A s \in DOMAIN qc.sats :
        /\ qc.sats[s].slips = Flagged(qc.sats[s], LAMBDA p : p.slip)
        /\ qc.sats[s].clockJumps = Flagged(qc.sats[s], LAMBDA p : p.clockJump)

\* "Outliers reclassified as clock jumps" are counted as outliers no more.
QcOutliersAreMarked ==
    \A s \in DOMAIN qc.sats :
        qc.sats[s].outliers = Flagged(qc.sats[s], LAMBDA p : p.outlier)

\* After finish() the statistics are what one pass over the finished series would
\* give: with points at the nominal interval, every point was settled once, and
\* no flag a statistic had looked at was changed afterwards.
OneShot(s) ==
    /\ s.settled = Len(s.pts)
    /\ s.triCnt = Cardinality({i \in DOMAIN s.pts : OkBack(s, i, 3)})
    /\ s.winCnt = Cardinality({i \in DOMAIN s.pts : OkBack(s, i, 1)})

QcOneShot ==
    qc.finished /\ qc.interval = QcRate => \A s \in DOMAIN qc.sats : OneShot(qc.sats[s])

\* The same whatever the sampling interval the user has set.
QcOneShotAtAnyInterval ==
    qc.finished => \A s \in DOMAIN qc.sats : OneShot(qc.sats[s])

\* Every epoch in which all satellites of the run, enough for a vote and none of
\* them with a slip before, saw the receiver's clock jump one of its own intervals
\* after their last point, is found to be one, the last two not excepted.
QcJumpsFound ==
    qc.finished =>
        \A s \in DOMAIN qc.sats : \A i \in DOMAIN qc.sats[s].pts :
            LET p == qc.sats[s].pts[i]
                at == {r \in DOMAIN qc.sats : \E j \in DOMAIN qc.sats[r].pts :
                         /\ j > 1 /\ qc.sats[r].pts[j].t = p.t
                         /\ qc.sats[r].pts[j].jump
                         /\ qc.sats[r].pts[j].t - qc.sats[r].pts[j - 1].t = QcRate
                         /\ ~qc.sats[r].slipEver}
            IN  (at = DOMAIN qc.sats /\ Cardinality(at) >= MinVotes) => p.clockJump

\* A snapshot lags by no more than the two epochs the tests look ahead.
QcLagBounded ==
    \A s \in DOMAIN qc.sats : \A i \in DOMAIN qc.sats[s].pts :
        qc.sats[s].pts[i].epoch <= qc.totalEpochs - SettleLag => i <= qc.sats[s].settled

\* The report and its plot agree, and an epoch is judged once.
QcReportAgrees == QcCountsAreMarked /\ QcOneShot

\* The judgement of an epoch is put off only so long, and misses no jump.
QcJudgesAll == QcLagBounded /\ QcJumpsFound

=============================================================================
