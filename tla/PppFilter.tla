----------------------------- MODULE PppFilter -----------------------------
(***************************************************************************)
(* Precise point positioning, epoch by epoch: PPPStatic with its cycle     *)
(* slip detectors, its gross error gate and the ambiguities of GnssEKF;    *)
(* PPPKinematic and LEO on top of it.                                      *)
(*                                                                         *)
(* Of the numbers the model keeps what the control needs: of an ambiguity  *)
(* whether the value held for it is the satellite's own, of a wide lane    *)
(* whether it lies off the mean of its detector, of a code whether it is   *)
(* beyond the gate.                                                        *)
(***************************************************************************)
EXTENDS Integers, FiniteSets, FiniteSetsExt

CONSTANTS
    PppSats,      \* the satellites, numbered in the order of SatID
    PppConfigs,   \* [minSats, useSlip, keep, interval, leo]
    PppEpochs,    \* the epochs an observation file may hold
    PppInitSats,  \* the satellites a first position needs (4)
    PppMwMin,     \* the points a wide lane mean needs (5)
    PppWarmup,    \* GATE_WARMUP (30)
    PppLongAgo    \* where the time since the last epoch stops to count (s)

ASSUME PppAssumption ==
    /\ IsFiniteSet(PppSats) /\ PppLongAgo \in Nat /\ PppLongAgo > 60
    /\ \A c \in PppConfigs : c.minSats \in Nat /\ c.keep \in Nat /\ c.interval \in Int
    /\ \A e \in PppEpochs : e.dt \in Nat

\* An interval that is given is also the one the file is thinned to: Decimator
\* keeps the epochs within 25 ms of its multiples.
ASSUME PppSpaced ==
    \A c \in PppConfigs, e \in PppEpochs : c.interval > 0 => 4 * e.dt > 3 * c.interval

VARIABLES
    pppConfig,    \* the options of the run
    ppp           \* the solver and what became of its last epoch

pppVars == <<pppConfig, ppp>>

NewDetector == [cnt |-> 0, pend |-> FALSE]

NothingDone == [kind |-> "none", tracked |-> {}, opened |-> {}, rows |-> {}, bad |-> {},
                gross |-> {}, stale |-> {}, solved |-> FALSE]

PppStart(cfg) ==
    /\ pppConfig = cfg
    /\ ppp = [init |-> FALSE, proc |-> 0, hasLast |-> FALSE, since |-> 0,
              nominal |-> pppConfig.interval, force |-> FALSE, gap |-> FALSE,
              prev |-> {}, det |-> [s \in PppSats |-> NewDetector],
              amb |-> [s \in PppSats |-> "none"], old |-> {}, owed |-> {},
              motionRef |-> FALSE, out |-> NothingDone]

PppInit == \E cfg \in PppConfigs : PppStart(cfg)

-----------------------------------------------------------------------------
(* The detector of one satellite.                                          *)

CountUp(n, by) == IF n + by > PppMwMin THEN PppMwMin ELSE n + by

\* One epoch fed to a detector: a set loss-of-lock flag is a slip; a wide lane
\* far off the mean waits for the next epoch, and is a slip if that one lies
\* with it and both lie off the mean.  One a kilometre off the mean is passed
\* over, and with it the one that waits.
feed(d, mw, lli) ==
    LET far == mw # "near"
        judged == [d EXCEPT !.cnt = CountUp(@, 1), !.pend = FALSE]
        next(t) == IF far /\ t.cnt >= PppMwMin THEN [t EXCEPT !.pend = TRUE]
                                               ELSE [t EXCEPT !.cnt = CountUp(@, 1)]
    IN  CASE lli -> [det |-> NewDetector, slip |-> TRUE]
          [] ~lli /\ mw = "wild" -> [det |-> NewDetector, slip |-> FALSE]
          [] ~lli /\ mw = "step" /\ d.pend ->
               [det |-> [cnt |-> 1, pend |-> FALSE], slip |-> TRUE]
          [] ~lli /\ mw = "apart" /\ d.cnt >= PppMwMin ->
               [det |-> [d EXCEPT !.pend = FALSE], slip |-> FALSE]
          [] OTHER -> [det |-> next(IF d.pend THEN judged ELSE d), slip |-> FALSE]

\* An epoch the detectors are fed n times.
Fed(d, mw, lli, n) ==
    LET f[i \in 0 .. n] == IF i = 0 THEN [det |-> d, slip |-> FALSE]
                           ELSE feed(f[i - 1].det, mw, lli)
    IN  f[n]

\* Those of satellites that have gone from the sky start again.
resetSlipDetectors(p, e) ==
    [s \in PppSats |-> IF s \in p.prev /\ e.see[s] = "absent" THEN NewDetector ELSE p.det[s]]

-----------------------------------------------------------------------------
(* The equations of an epoch.                                              *)

\* The satellites with both frequencies and an orbit, above the cutoff.
Tracked(e) == {s \in PppSats : e.see[s] = "ok"}

\* detectCycleSlip and resetAmbiguity for every tracked satellite: a new arc, a
\* slip or a break of the whole observation opens the ambiguity again.
processSatellites(p, e, n) ==
    LET T == Tracked(e)
        before == resetSlipDetectors(p, e)
        fed == [s \in T |-> Fed(before[s], e.mw[s], s \in e.lli, n)]
        slips == {s \in T : pppConfig.useSlip /\ fed[s].slip}
        opened == (T \ p.prev) \cup slips \cup (IF p.force THEN T ELSE {})
    IN  [p EXCEPT !.det = [s \in PppSats |-> IF s \in T THEN fed[s].det ELSE before[s]],
                  !.amb = [s \in PppSats |-> IF s \in opened \/ (s \in T /\ @[s] = "none")
                                             THEN "own" ELSE @[s]],
                  !.prev = T, !.force = FALSE,
                  !.out = [@ EXCEPT !.tracked = T, !.opened = opened, !.gross = e.gross]]

\* addSatelliteEquations, probing: the satellites whose code is beyond the gate or
\* whose phase does not fit the ambiguity held for them.
Misfit(p) == {s \in p.out.tracked : s \in p.out.gross \/ p.amb[s] # "own"}

\* As decidePrefitGate would be if it never let the whole epoch through.
GateAlwaysShuts(p) == IF p.proc <= PppWarmup THEN {} ELSE Misfit(p)

\* The satellites kept out of the epoch; when too few would remain all stay.
decidePrefitGate(p) ==
    LET bad == Misfit(p)
        pass == Cardinality(p.out.tracked \ bad)
    IN  IF p.proc <= PppWarmup \/ pass = 0 \/ pass < pppConfig.minSats THEN {} ELSE bad

buildEquSys(p, e, n) ==
    LET q == processSatellites(p, e, n)
        bad == decidePrefitGate(q)
    IN  [q EXCEPT !.out.bad = bad, !.out.rows = q.out.tracked \ bad]

-----------------------------------------------------------------------------
(* The filter.                                                             *)

Rank(V, s) == Cardinality({t \in V : t < s})

\* The component GnssEKF::getSolution finds for s: the solution vector is laid
\* out by old, the index is looked up in cur.
Component(cur, old, s) ==
    IF s \in cur /\ s \in old /\ Rank(cur, s) = Rank(old, s) THEN "own" ELSE "alien"

\* Every satellite observed on both frequencies is read back, whether it is in
\* the filter or not.
readback(p, e, cur) ==
    [p EXCEPT !.amb = [s \in PppSats |-> IF e.see[s] \in {"ok", "low"}
                                         THEN Component(cur, p.old, s) ELSE @[s]]]

\* timeUpdate and measUpdate: an ambiguity that is new to the filter or was
\* opened gets its initial variance, the others go on as they are.  A singular
\* update leaves the filter as it was.  owed: opened for an epoch that was then
\* not used.
Update(p, e) ==
    LET rows == p.out.rows
        opened == p.out.opened
        fresh == opened \cup (rows \ p.old)
        q == [p EXCEPT !.since = 0, !.hasLast = TRUE, !.gap = FALSE, !.init = TRUE]
    IN  IF e.skip
        THEN readback([q EXCEPT !.owed = @ \ opened, !.out.kind = "skipped"], e, rows)
        ELSE readback([q EXCEPT !.old = rows, !.owed = (@ \cup opened) \ (fresh \cap rows),
                                !.out.kind = "updated",
                                !.out.stale = (rows \cap p.owed) \ fresh], e, rows)

\* As Freeze would be if the time of the last epoch were taken before the update.
FreezeTakesTime(p) ==
    [p EXCEPT !.owed = @ \cup p.out.opened, !.out.kind = "frozen", !.since = 0]

Freeze(p) ==
    [p EXCEPT !.owed = @ \cup p.out.opened, !.out.kind = "frozen"]

Enough(p) == Cardinality(p.out.rows) >= pppConfig.minSats

\* The first epoch.  The position is found by some rounds of least squares, each
\* of which builds the equations, and so feeds the detectors; the
\* height and troposphere rows count as satellites when their number is tested.
initFilter(p, e) ==
    LET pseudo == IF pppConfig.leo THEN 0 ELSE 2
        tried == buildEquSys(p, e, IF e.rounds > 0 THEN e.rounds ELSE 1)
        found == e.rounds > 0 /\ Cardinality(tried.out.rows) + pseudo >= PppInitSats
        cleared == [tried EXCEPT !.amb = [s \in PppSats |-> "none"]]
        built == buildEquSys(cleared, e, 1)
    IN  IF ~found THEN Freeze(cleared)
        ELSE IF Enough(built)
             THEN Update([built EXCEPT !.out.opened = @ \cup built.out.rows], e)
             ELSE Freeze(built)

updateFilter(p, e) ==
    LET built == buildEquSys(p, e, 1) IN IF Enough(built) THEN Update(built, e) ELSE Freeze(built)

Elapsed(p, e) ==
    IF ~p.hasLast THEN 0 ELSE IF p.since + e.dt > PppLongAgo THEN PppLongAgo ELSE p.since + e.dt

\* The time since the last epoch used: beyond one and a half intervals, or a
\* minute, the observation was broken.  The interval is learned if not given.
Gapped(p, e) ==
    LET since == Elapsed(p, e)
        broken == (p.nominal > 0 /\ 2 * since > 3 * p.nominal) \/ since > 60
    IN  CASE ~p.hasLast -> p
          [] p.hasLast /\ broken ->
               [p EXCEPT !.gap = TRUE, !.since = since,
                         !.force = @ \/ ~(pppConfig.keep > 0 /\ since <= pppConfig.keep)]
          [] OTHER -> [p EXCEPT !.since = since, !.nominal = IF @ < 0 THEN since ELSE @]

\* PPPStatic::solve.
solve(p, e) ==
    LET q == [p EXCEPT !.proc = IF @ > PppWarmup THEN @ ELSE @ + 1, !.out = NothingDone]
        t == Gapped(q, e)
        inView == Cardinality({s \in PppSats : e.see[s] \in {"ok", "low"}})
    IN  CASE inView = 0 -> [q EXCEPT !.since = Elapsed(q, e)]
          [] inView > 0 /\ ~t.init /\ inView < PppInitSats -> Freeze(t)
          [] inView > 0 /\ ~t.init /\ inView >= PppInitSats -> initFilter(t, e)
          [] OTHER -> updateFilter(t, e)

-----------------------------------------------------------------------------
(* A receiver in orbit: a position that left its anchor is taken back and  *)
(* every ambiguity opened at the next epoch; one that left the motion is   *)
(* refused, unless the epoch has just become the reference of the motion.  *)

Recovered(p, e) ==
    LET fast == ~e.diverged /\ e.fast /\ Cardinality(p.out.rows) >= pppConfig.minSats
        refused == p.motionRef /\ ~fast /\ e.offMotion
    IN  [p EXCEPT !.force = @ \/ e.diverged, !.motionRef = @ \/ fast,
                  !.out.solved = ~refused /\ ~e.poorAnchor]

PppEpoch(e) ==
    LET p == solve(ppp, e)
        done == p.out.kind \in {"updated", "skipped"}
    IN  /\ ppp' = CASE done /\ pppConfig.leo -> Recovered(p, e)
                    [] done /\ ~pppConfig.leo -> [p EXCEPT !.out.solved = TRUE]
                    [] OTHER -> p
        /\ UNCHANGED pppConfig

PppNext == \E e \in PppEpochs : PppEpoch(e)

PppSpec == PppInit /\ [][PppNext]_pppVars

-----------------------------------------------------------------------------
(* Properties.                                                             *)

\* An ambiguity that a slip, a new arc or a break opened is open when the filter
\* next measures the phase, whatever frozen epochs lie between: else the phase
\* is a hard constraint and drags the position.  (With the interval given and
\* no ambiguity kept over breaks; updates given up as singular aside.)
PppSlipsReachFilter == pppConfig.keep = 0 /\ pppConfig.interval > 0 => ppp.out.stale = {}

\* The gate never starves the filter: an epoch is frozen after the first only
\* when fewer satellites than an update needs were there to begin with.
PppGateNeverStarves ==
    ppp.init /\ ppp.out.kind = "frozen" => Cardinality(ppp.out.tracked) < pppConfig.minSats

\* "The satellites judged gross in this epoch": what the gate keeps out of an
\* epoch is gross in it.  (Not what the code does: a satellite kept out is read
\* back as zero, so its phase never fits again until its arc breaks.)
PppGateIsPerEpoch == ppp.out.bad \subseteq ppp.out.gross
=============================================================================
