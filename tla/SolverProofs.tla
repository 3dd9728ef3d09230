---------------------------- MODULE SolverProofs ----------------------------
(***************************************************************************)
(* What the three solvers keep from one epoch to the next: the arcs of the *)
(* RTK slip detectors, what an epoch that SPP could not solve leaves       *)
(* behind, and the ambiguities that an epoch PPP froze has opened in vain. *)
(***************************************************************************)
EXTENDS PppFilter, RtkSolve, PointSolve, FiniteSetTheorems, TLAPS

-----------------------------------------------------------------------------
(* RTK: the detectors.                                                     *)

Arcs == [mw : Nat, len : Nat, jumped : BOOLEAN]

Origins == {"none", "user", "antenna", "spp"}

Verdicts == {"none", "failed", "float", "fixed"}

RtkStates ==
    [eph : Nat, pos : [Stations -> Origins], tried : [Stations -> Nat],
     det : [Stations -> [RtkSats -> Arcs]], run : [Stations -> [RtkSats -> Nat]],
     excl : SUBSET RtkSats, used : SUBSET RtkSats, stat : Verdicts]

\* A mean and an arc are of no more points than pairs have followed each other, and a
\* jump is between two of them.
Unbroken(d, n) == d.mw <= n /\ d.len <= n /\ (d.jumped => n > 1) /\ n <= RtkGfMin

ArcsUnbroken(p) == \A t \in Stations, s \in RtkSats : Unbroken(p.det[t][s], p.run[t][s])

RtkIInv == rtk \in RtkStates /\ ArcsUnbroken(rtk)

LEMMA UpToIsBounded ==
  ASSUME NEW n \in Nat, NEW max \in Nat
  PROVE  UpTo(n, max) \in Nat /\ UpTo(n, max) <= max /\ UpTo(n, max) <= n
           /\ (n <= max => UpTo(n, max) = n)
  BY DEF UpTo

LEMMA NewArcIsUnbroken ==
  ASSUME NEW n \in Nat, n <= RtkGfMin
  PROVE  NewArc \in Arcs /\ Unbroken(NewArc, n)
  BY DEF NewArc, Arcs, Unbroken

\* One epoch fed to a detector lengthens mean and arc by no more than one.
LEMMA FeedKeepsArc ==
  ASSUME NEW d \in Arcs, NEW ev, NEW n \in Nat, Unbroken(d, n)
  PROVE  /\ rtkFeed(d, ev).det \in Arcs
         /\ ev = "lli" => rtkFeed(d, ev).det = NewArc
         /\ ev # "lli" => Unbroken(rtkFeed(d, ev).det, UpTo(n + 1, RtkGfMin))
  <1> DEFINE told == rtkConfig.useGf /\ d.jumped /\ d.len + 1 >= RtkGfMin
             broke == ev = "widelane" /\ d.mw > RtkMwMin
             mw == IF told THEN 0 ELSE IF broke THEN 1 ELSE UpTo(d.mw + 1, RtkMwMin + 1)
             len == UpTo(d.len + 1, RtkGfMin)
             jumped == ev = "jump" /\ d.len >= 1
  <1>1. d.mw \in Nat /\ d.len \in Nat /\ d.mw <= n /\ d.len <= n /\ n <= RtkGfMin
    BY DEF Arcs, Unbroken
  <1>2. CASE ev = "lli"
    BY <1>2, NewArcIsUnbroken DEF rtkFeed, NewArc, Arcs
  <1>3. CASE ev = "wild"
    <2>1. rtkFeed(d, ev).det = [d EXCEPT !.mw = 0]
      BY <1>3 DEF rtkFeed
    <2>2. rtkFeed(d, ev).det \in Arcs /\ rtkFeed(d, ev).det.mw = 0 /\ rtkFeed(d, ev).det.len = d.len
      BY <2>1 DEF Arcs
    <2>3. /\ d.len <= UpTo(n + 1, RtkGfMin) /\ UpTo(n + 1, RtkGfMin) <= RtkGfMin
          /\ 0 <= UpTo(n + 1, RtkGfMin)
          /\ d.jumped => UpTo(n + 1, RtkGfMin) > 1
      BY <1>1, RtkAssumption DEF Unbroken, UpTo
    <2>4. rtkFeed(d, ev).det.jumped = d.jumped
      BY <2>1 DEF Arcs
    <2> QED
      BY <1>3, <2>2, <2>3, <2>4 DEF Unbroken
  <1>5. CASE ev = "far" /\ d.mw >= RtkMwMin
    <2>1. rtkFeed(d, ev).det = [d EXCEPT !.len = len, !.jumped = FALSE]
      BY <1>5 DEF rtkFeed
    <2>2. len \in Nat /\ len <= UpTo(n + 1, RtkGfMin) /\ d.mw <= UpTo(n + 1, RtkGfMin)
      BY <1>1, RtkAssumption DEF UpTo
    <2>3. UpTo(n + 1, RtkGfMin) <= RtkGfMin
      BY RtkAssumption, UpToIsBounded
    <2> HIDE DEF len
    <2> QED
      BY <1>1, <1>5, <2>1, <2>2, <2>3 DEF Arcs, Unbroken
  <1>4. CASE ev \notin {"lli", "wild"} /\ ~(ev = "far" /\ d.mw >= RtkMwMin)
    <2>1. rtkFeed(d, ev).det = [mw |-> mw, len |-> len, jumped |-> jumped]
      BY <1>4 DEF rtkFeed
    <2>2. /\ mw \in Nat /\ mw <= UpTo(n + 1, RtkGfMin)
          /\ len \in Nat /\ len <= UpTo(n + 1, RtkGfMin)
      BY <1>1, RtkAssumption DEF UpTo
    <2>3. jumped \in BOOLEAN
      OBVIOUS
    <2>4. UpTo(n + 1, RtkGfMin) <= RtkGfMin
      BY RtkAssumption, UpToIsBounded
    <2>5. jumped => UpTo(n + 1, RtkGfMin) > 1
      BY <1>1, RtkAssumption DEF UpTo
    <2> HIDE DEF mw, len, jumped
    <2> QED
      BY <1>4, <2>1, <2>2, <2>3, <2>4, <2>5 DEF Arcs, Unbroken
  <1> QED
    BY <1>2, <1>3, <1>4, <1>5

LEMMA SlipsKeep ==
  ASSUME NEW p \in RtkStates, ArcsUnbroken(p), NEW e
  PROVE  /\ detectSlips(p, e) \in RtkStates
         /\ ArcsUnbroken(detectSlips(p, e))
  <1> DEFINE base == RtkFed(e, "base")
             rover == RtkFed(e, "rover")
             fed(t) == IF t = "base" THEN base ELSE rover
             said(t, s) == rtkFeed(p.det[t][s], e.ev[t][s])
             slipped == {s \in base \cap rover : \E t \in Stations : said(t, s).slip}
             jumped(a) == {s \in RtkSats : \E t \in Stations : s \in fed(t) /\ said(t, s).gf
                                                                 /\ said(t, s).artifact = a}
             verdict == decide(jumped(FALSE), jumped(TRUE))
             excl == slipped \cup verdict.apply \cup verdict.exclude
             settle(t, s) == IF s \in fed(t) THEN said(t, s).det ELSE feedGap(p, t, s)
             length(t, s) == IF s \in fed(t) /\ e.ev[t][s] # "lli"
                             THEN UpTo(p.run[t][s] + 1, RtkGfMin) ELSE 0
             det == [t \in Stations |-> [s \in RtkSats |-> settle(t, s)]]
             run == [t \in Stations |-> [s \in RtkSats |-> length(t, s)]]
  <1>1. \A t \in Stations, s \in RtkSats : p.det[t][s] \in Arcs /\ p.run[t][s] \in Nat
    BY DEF RtkStates
  <1>2. base \subseteq RtkSats /\ rover \subseteq RtkSats
    BY DEF RtkFed
  <1>3. \A t \in Stations, s \in RtkSats :
          /\ settle(t, s) \in Arcs /\ length(t, s) \in Nat
          /\ Unbroken(settle(t, s), length(t, s))
    <2> SUFFICES ASSUME NEW t \in Stations, NEW s \in RtkSats
                 PROVE  /\ settle(t, s) \in Arcs /\ length(t, s) \in Nat
                        /\ Unbroken(settle(t, s), length(t, s))
      OBVIOUS
    <2>1. 0 \in Nat /\ 0 <= RtkGfMin
      BY RtkAssumption
    <2>2. NewArc \in Arcs /\ Unbroken(NewArc, 0)
      BY <2>1, NewArcIsUnbroken
    <2>3. UpTo(p.run[t][s] + 1, RtkGfMin) \in Nat
      <3>1. p.run[t][s] \in Nat /\ RtkGfMin \in Nat
        BY <1>1, RtkAssumption
      <3> QED
        BY <3>1 DEF UpTo
    <2>4. /\ said(t, s).det \in Arcs
          /\ e.ev[t][s] = "lli" => said(t, s).det = NewArc
          /\ e.ev[t][s] # "lli" => Unbroken(said(t, s).det, UpTo(p.run[t][s] + 1, RtkGfMin))
      BY <1>1, FeedKeepsArc DEF ArcsUnbroken
    <2>5. feedGap(p, t, s) = NewArc
      BY DEF feedGap
    <2> HIDE DEF said, fed
    <2> QED
      BY <2>1, <2>2, <2>3, <2>4, <2>5
  <1> HIDE DEF settle, length, said
  <1>4. det \in [Stations -> [RtkSats -> Arcs]] /\ run \in [Stations -> [RtkSats -> Nat]]
    BY <1>3
  <1>5. excl \subseteq RtkSats
    <2>1. slipped \subseteq RtkSats /\ jumped(FALSE) \subseteq RtkSats /\ jumped(TRUE) \subseteq RtkSats
      BY <1>2
    <2> HIDE DEF slipped, jumped
    <2> QED
      BY <2>1 DEF decide
  <1>6. CASE ~rtkConfig.useSlip
    <2> DEFINE none == [t \in Stations |-> [s \in RtkSats |-> NewArc]]
    <2>1. none \in [Stations -> [RtkSats -> Arcs]]
      BY DEF NewArc, Arcs
    <2>2. detectSlips(p, e) = [p EXCEPT !.excl = {}, !.det = none]
      BY <1>6 DEF detectSlips
    <2>3. \A t \in Stations, s \in RtkSats : none[t][s] = NewArc /\ Unbroken(NewArc, p.run[t][s])
      BY <1>1, NewArcIsUnbroken DEF ArcsUnbroken, Unbroken
    <2> HIDE DEF none
    <2> QED
      BY <2>1, <2>2, <2>3, ZenonT(40) DEF RtkStates, ArcsUnbroken
  <1>7. CASE rtkConfig.useSlip
    <2>1. detectSlips(p, e) = [p EXCEPT !.excl = excl, !.det = det, !.run = run]
      BY <1>7 DEF detectSlips, settle, length, said
    <2>2. \A t \in Stations, s \in RtkSats : Unbroken(det[t][s], run[t][s])
      BY <1>3
    <2> HIDE DEF det, run, excl
    <2> QED
      BY <2>1, <2>2, <1>4, <1>5 DEF RtkStates, ArcsUnbroken
  <1> QED
    BY <1>6, <1>7

LEMMA PositionsKeep ==
  ASSUME NEW p \in RtkStates, ArcsUnbroken(p), NEW e
  PROVE  /\ BasePosition(p, e) \in RtkStates /\ ArcsUnbroken(BasePosition(p, e))
         /\ RoverPosition(p, e) \in RtkStates /\ ArcsUnbroken(RoverPosition(p, e))
  <1> DEFINE OnlyPosition(q) == q \in RtkStates /\ q.det = p.det /\ q.run = p.run
  <1>1. "base" \in Stations /\ "rover" \in Stations
    BY DEF Stations
  <1>2. p.pos \in [Stations -> Origins] /\ p.tried \in [Stations -> Nat] /\ p.eph \in Nat
    BY DEF RtkStates
  <1>3. ASSUME NEW t \in Stations, NEW how \in Origins
        PROVE  OnlyPosition([p EXCEPT !.pos[t] = how])
                 /\ OnlyPosition([p EXCEPT !.pos[t] = how, !.tried[t] = p.eph])
    BY <1>2 DEF RtkStates
  <1>4. \/ BasePosition(p, e) = p
        \/ BasePosition(p, e) = [p EXCEPT !.pos["base"] = "user"]
        \/ BasePosition(p, e) = [p EXCEPT !.pos["base"] = "antenna"]
        \/ BasePosition(p, e) = [p EXCEPT !.pos["base"] = "spp", !.tried["base"] = p.eph]
    BY DEF BasePosition
  <1>5. \/ RoverPosition(p, e) = p
        \/ RoverPosition(p, e) = [p EXCEPT !.pos["rover"] = "antenna"]
        \/ RoverPosition(p, e) = [p EXCEPT !.pos["rover"] = "spp", !.tried["rover"] = p.eph]
    BY DEF RoverPosition
  <1>6. OnlyPosition(p)
    OBVIOUS
  <1>7. OnlyPosition(BasePosition(p, e)) /\ OnlyPosition(RoverPosition(p, e))
    <2> HIDE DEF OnlyPosition
    <2> QED
      BY <1>1, <1>3, <1>4, <1>5, <1>6 DEF Origins
  <1> QED
    BY <1>7 DEF ArcsUnbroken

LEMMA RtkEpochKeeps ==
  ASSUME NEW p \in RtkStates, ArcsUnbroken(p), NEW e
  PROVE  /\ RtkProcessEpoch(p, e) \in RtkStates
         /\ ArcsUnbroken(RtkProcessEpoch(p, e))
  <1> DEFINE b == BasePosition(p, e)
             q == detectSlips(RoverPosition(b, e), e)
             sats == buildGeometry(q, e)
             D == buildDDCache(sats, e)
             stat == CASE \/ sats = {} \/ Cardinality(sats) < rtkConfig.minSats
                          \/ ~solveFloat(D) -> "failed"
                       [] OTHER -> IF rtkConfig.useAR /\ tryFixAmbiguities(D, e)
                                   THEN "fixed" ELSE "float"
  <1>1. b \in RtkStates /\ ArcsUnbroken(b)
    BY PositionsKeep
  <1>2. q \in RtkStates /\ ArcsUnbroken(q)
    BY <1>1, PositionsKeep, SlipsKeep
  <1>3. sats \subseteq RtkSats
    BY DEF buildGeometry, Candidates
  <1>4. CASE b.pos["base"] = "none"
    <2>1. RtkProcessEpoch(p, e) = [b EXCEPT !.stat = "failed", !.used = {}]
      BY <1>4 DEF RtkProcessEpoch
    <2> HIDE DEF b
    <2> QED
      BY <1>1, <2>1 DEF RtkStates, ArcsUnbroken, Verdicts
  <1>5. CASE b.pos["base"] # "none"
    <2>1. RtkProcessEpoch(p, e) = [q EXCEPT !.used = sats, !.stat = stat]
      BY <1>5 DEF RtkProcessEpoch
    <2>2. stat \in Verdicts
      BY DEF Verdicts
    <2> HIDE DEF q, sats, stat
    <2> QED
      BY <1>2, <1>3, <2>1, <2>2 DEF RtkStates, ArcsUnbroken
  <1> QED
    BY <1>4, <1>5

\* The inductive invariant of the RTK engine, for any satellites, configurations
\* and pairs of epochs: typed detectors whose counts stay within the run of pairs, as
\* do the two points of a jump.
THEOREM RtkInvariant == RtkSpec => []RtkIInv
  <1>1. RtkInit => RtkIInv
    <2> SUFFICES ASSUME NEW cfg \in RtkConfigs, RtkStart(cfg) PROVE RtkIInv
      BY DEF RtkInit
    <2> DEFINE det == [t \in Stations |-> [s \in RtkSats |-> NewArc]]
               run == [t \in Stations |-> [s \in RtkSats |-> 0]]
    <2>1. rtk = [eph |-> 0, pos |-> [t \in Stations |-> "none"],
                 tried |-> [t \in Stations |-> 0], det |-> det, run |-> run,
                 excl |-> {}, used |-> {}, stat |-> "none"]
      BY DEF RtkStart, NewArc
    <2>2. 0 \in Nat /\ 0 <= RtkGfMin
      BY RtkAssumption
    <2>3. \A t \in Stations, s \in RtkSats : NewArc \in Arcs /\ Unbroken(det[t][s], run[t][s])
      BY <2>2, NewArcIsUnbroken
    <2>4. det \in [Stations -> [RtkSats -> Arcs]] /\ run \in [Stations -> [RtkSats -> Nat]]
      BY <2>3
    <2>5. rtk.det = det /\ rtk.run = run /\ rtk.stat = "none"
      BY <2>1
    <2> HIDE DEF det, run
    <2>6. rtk \in RtkStates
      BY <2>1, <2>4 DEF RtkStates, Origins, Verdicts
    <2> QED
      BY <2>3, <2>5, <2>6 DEF RtkIInv, ArcsUnbroken
  <1>2. RtkIInv /\ [RtkNext]_rtkVars => RtkIInv'
    <2> SUFFICES ASSUME RtkIInv, [RtkNext]_rtkVars PROVE RtkIInv'
      OBVIOUS
    <2>1. CASE RtkNext
      <3> PICK e \in RtkEpochs, grown \in {0, 1} :
            rtk' = RtkProcessEpoch([rtk EXCEPT !.eph = @ + grown], e)
        BY <2>1 DEF RtkNext
      <3> DEFINE p == [rtk EXCEPT !.eph = @ + grown]
      <3>1. p \in RtkStates /\ p.det = rtk.det /\ p.run = rtk.run
        <4>1. rtk \in RtkStates /\ rtk.eph + grown \in Nat
          BY DEF RtkIInv, RtkStates
        <4>2. p = [rtk EXCEPT !.eph = rtk.eph + grown]
          OBVIOUS
        <4> HIDE DEF p
        <4> QED
          BY <4>1, <4>2 DEF RtkStates
      <3>2. ArcsUnbroken(p)
        BY <3>1 DEF RtkIInv, ArcsUnbroken
      <3>3. rtk' = RtkProcessEpoch(p, e)
        OBVIOUS
      <3> HIDE DEF p
      <3>4. rtk' \in RtkStates /\ ArcsUnbroken(rtk')
        BY <3>1, <3>2, <3>3, RtkEpochKeeps
      <3> QED
        BY <3>4 DEF RtkIInv, ArcsUnbroken
    <2>2. CASE UNCHANGED rtkVars
      BY <2>2 DEF rtkVars, RtkIInv, ArcsUnbroken
    <2> QED
      BY <2>1, <2>2
  <1> QED
    BY <1>1, <1>2, PTL DEF RtkSpec

\* No mean of a wide lane and no arc of a phase spans a pair in which its satellite
\* was missing, whatever the stations deliver.
THEOREM ArcsStayUnbroken == RtkSpec => []RtkArcsUnbroken
  <1>1. RtkIInv => RtkArcsUnbroken
    BY DEF RtkIInv, ArcsUnbroken, Unbroken, RtkArcsUnbroken
  <1> QED
    BY <1>1, RtkInvariant, PTL

-----------------------------------------------------------------------------
(* SPP.                                                                    *)

\* The biases an iteration leaves: of this epoch for every system with equations.
LEMMA CorrectedIsOfThisEpoch ==
  ASSUME NEW y \in SysOf(Equations)
  PROVE  Corrected[y] = ptN
  BY DEF Corrected

\* Whatever epochs fail, and at whatever iteration, what the next one starts from
\* is of the last epoch solved: for any observations, any number of iterations
\* and with or without the priors of the inter-system biases.
THEOREM FailuresLeaveNoTrace == PtSpec => []PtFailureLeavesNoTrace
  <1>1. PtInit => PtFailureLeavesNoTrace
    BY DEF PtInit, PtStart, PtFailureLeavesNoTrace
  <1>2. PtFailureLeavesNoTrace /\ [PtNext]_ptVars => PtFailureLeavesNoTrace'
    <2> SUFFICES ASSUME PtFailureLeavesNoTrace, [PtNext]_ptVars
                 PROVE  PtFailureLeavesNoTrace'
      OBVIOUS
    <2>1. CASE PtBeginEpoch
      BY <2>1 DEF PtBeginEpoch, PtFailureLeavesNoTrace
    <2>2. CASE GiveUp
      BY <2>2 DEF GiveUp, PtFailureLeavesNoTrace
    <2>3. CASE Iterate
      BY <2>3 DEF Iterate, Save, PtFailureLeavesNoTrace
    <2>4. CASE Converge
      <3>1. lastXyz' = ptSolved'.n /\ ptSolved'.n = ptN /\ ptSolved'.active = SysOf(Equations)
        BY <2>4 DEF Converge
      <3>2. PtIsb => prevClk' = Corrected
        BY <2>4 DEF Converge
      <3> QED
        BY <3>1, <3>2, CorrectedIsOfThisEpoch DEF PtFailureLeavesNoTrace
    <2>5. CASE UNCHANGED ptVars
      BY <2>5 DEF ptVars, PtFailureLeavesNoTrace
    <2> QED
      BY <2>1, <2>2, <2>3, <2>4, <2>5 DEF PtNext
  <1> QED
    BY <1>1, <1>2, PTL DEF PtSpec

-----------------------------------------------------------------------------
(* PPP.                                                                    *)

PppFields == {"init", "proc", "hasLast", "since", "nominal", "force", "gap", "prev",
              "det", "amb", "old", "owed", "motionRef", "out"}

OutFields == {"kind", "tracked", "opened", "rows", "bad", "gross", "stale", "solved"}

PppShape(p) ==
    /\ DOMAIN p = PppFields /\ DOMAIN p.out = OutFields
    /\ p.since \in Nat /\ p.init \in BOOLEAN /\ p.hasLast \in BOOLEAN

\* The filter holds ambiguities only after a first update.
Begun(p) == p.old # {} => p.init /\ p.hasLast

\* The configurations PppSlipsReachFilter is about.
Strict == pppConfig.keep = 0 /\ pppConfig.interval > 0

\* The next epoch will be found to follow a break.
Late(since) == 4 * since > 3 * pppConfig.interval \/ since > 60

\* An ambiguity the filter still holds although it was opened for an epoch that
\* was not used is of a satellite that was not there in the last epoch, or will be
\* opened with all the others in the next.
OwedIsOpenedNext(p) ==
    \A s \in p.owed \cap p.old : s \notin p.prev \/ p.force \/ Late(p.since)

NothingStale(p) ==
    /\ p.nominal = pppConfig.interval
    /\ OwedIsOpenedNext(p)
    /\ p.out.stale = {}

NeverStarved(p) ==
    p.init /\ p.out.kind = "frozen" => Cardinality(p.out.tracked) < pppConfig.minSats

PppIInv ==
    /\ pppConfig \in PppConfigs
    /\ PppShape(ppp) /\ Begun(ppp)
    /\ Strict => NothingStale(ppp)
    /\ NeverStarved(ppp)

\* What freezing and updating start from.
Prepared(p) ==
    /\ PppShape(p) /\ Begun(p) /\ p.out.rows \subseteq p.prev
    /\ Strict => /\ p.nominal = pppConfig.interval /\ p.out.stale = {}
                 /\ p.old # {} => Late(p.since)
                 /\ \A s \in p.owed \cap p.old : s \notin p.prev \/ s \in p.out.opened

Good(p) == PppShape(p) /\ Begun(p) /\ (Strict => NothingStale(p)) /\ NeverStarved(p)

Carried(p, q) ==
    /\ q.init = p.init /\ q.hasLast = p.hasLast /\ q.since = p.since
    /\ q.nominal = p.nominal /\ q.old = p.old /\ q.owed = p.owed

LEMMA TrackedIsFinite ==
  ASSUME NEW e, NEW S \in SUBSET Tracked(e)
  PROVE  Cardinality(S) \in Nat
  BY PppAssumption, FS_Subset, FS_CardinalityType DEF Tracked

LEMMA ProcessKeeps ==
  ASSUME NEW p, PppShape(p), NEW e, NEW n
  PROVE  LET q == processSatellites(p, e, n)
         IN  /\ PppShape(q) /\ Carried(p, q)
             /\ q.prev = Tracked(e) /\ q.out.tracked = Tracked(e)
             /\ Tracked(e) \ p.prev \subseteq q.out.opened
             /\ p.force => Tracked(e) \subseteq q.out.opened
             /\ q.out.kind = p.out.kind /\ q.out.stale = p.out.stale
  <1> DEFINE T == Tracked(e)
             before == resetSlipDetectors(p, e)
             fed == [s \in T |-> Fed(before[s], e.mw[s], s \in e.lli, n)]
             slips == {s \in T : pppConfig.useSlip /\ fed[s].slip}
             opened == (T \ p.prev) \cup slips \cup (IF p.force THEN T ELSE {})
             det == [s \in PppSats |-> IF s \in T THEN fed[s].det ELSE before[s]]
             amb == [s \in PppSats |-> IF s \in opened \/ (s \in T /\ p.amb[s] = "none")
                                       THEN "own" ELSE p.amb[s]]
             out == [p.out EXCEPT !.tracked = T, !.opened = opened, !.gross = e.gross]
  <1>1. processSatellites(p, e, n)
          = [p EXCEPT !.det = det, !.amb = amb, !.prev = T, !.force = FALSE, !.out = out]
    BY DEF processSatellites, PppShape, PppFields
  <1>2. /\ DOMAIN out = OutFields /\ out.tracked = T /\ out.opened = opened
        /\ out.kind = p.out.kind /\ out.stale = p.out.stale
    BY DEF PppShape, OutFields
  <1>3. T \ p.prev \subseteq opened /\ (p.force => T \subseteq opened)
    OBVIOUS
  <1> HIDE DEF T, det, amb, out, opened
  <1> QED
    BY <1>1, <1>2, <1>3 DEF PppShape, PppFields, Carried, T

\* An epoch kept out of the filter had too few satellites to begin with.
LEMMA BuildKeeps ==
  ASSUME NEW p, PppShape(p), NEW e, NEW n, pppConfig \in PppConfigs
  PROVE  LET q == buildEquSys(p, e, n)
         IN  /\ PppShape(q) /\ Carried(p, q)
             /\ q.prev = Tracked(e) /\ q.out.rows \subseteq Tracked(e)
             /\ Tracked(e) \ p.prev \subseteq q.out.opened
             /\ p.force => Tracked(e) \subseteq q.out.opened
             /\ q.out.stale = p.out.stale
             /\ ~Enough(q) => Cardinality(q.out.tracked) < pppConfig.minSats
  <1> DEFINE s == processSatellites(p, e, n)
             bad == decidePrefitGate(s)
             q == [s EXCEPT !.out.bad = bad, !.out.rows = s.out.tracked \ bad]
  <1>1. /\ PppShape(s) /\ Carried(p, s)
        /\ s.prev = Tracked(e) /\ s.out.tracked = Tracked(e)
        /\ Tracked(e) \ p.prev \subseteq s.out.opened
        /\ p.force => Tracked(e) \subseteq s.out.opened
        /\ s.out.kind = p.out.kind /\ s.out.stale = p.out.stale
    BY ProcessKeeps
  <1>2. buildEquSys(p, e, n) = q
    BY DEF buildEquSys
  <1>3. \/ bad = {}
        \/ ~(Cardinality(s.out.tracked \ bad) < pppConfig.minSats)
    BY DEF decidePrefitGate
  <1>4. /\ Cardinality(Tracked(e)) \in Nat /\ Cardinality(Tracked(e) \ bad) \in Nat
        /\ pppConfig.minSats \in Nat
    BY TrackedIsFinite, PppAssumption
  <1> HIDE DEF s, bad
  <1>5. /\ PppShape(q) /\ Carried(s, q) /\ q.prev = s.prev
        /\ q.out.tracked = s.out.tracked /\ q.out.opened = s.out.opened
        /\ q.out.rows = s.out.tracked \ bad /\ q.out.stale = s.out.stale
    BY <1>1 DEF PppShape, PppFields, OutFields, Carried
  <1> HIDE DEF q
  <1>6. ~Enough(q) => Cardinality(q.out.tracked) < pppConfig.minSats
    BY <1>1, <1>3, <1>4, <1>5 DEF Enough
  <1> QED
    BY <1>1, <1>2, <1>5, <1>6 DEF Carried

LEMMA FreezeKeeps ==
  ASSUME NEW p, Prepared(p), p.init => Cardinality(p.out.tracked) < pppConfig.minSats
  PROVE  Good(Freeze(p))
  <1> DEFINE q == Freeze(p)
  <1>1. /\ PppShape(q) /\ q.init = p.init /\ q.hasLast = p.hasLast /\ q.since = p.since
        /\ q.nominal = p.nominal /\ q.old = p.old /\ q.prev = p.prev
        /\ q.out.stale = p.out.stale /\ q.out.tracked = p.out.tracked
    BY DEF Freeze, Prepared, PppShape, PppFields, OutFields
  <1> HIDE DEF q
  <1>2. Begun(q) /\ NeverStarved(q)
    BY <1>1 DEF Prepared, Begun, NeverStarved
  <1>3. Strict => NothingStale(q)
    BY <1>1 DEF Prepared, NothingStale, OwedIsOpenedNext
  <1> QED
    BY <1>1, <1>2, <1>3 DEF Good, q

\* What the filter measures is what was opened, or what it holds and owes nothing.
LEMMA UpdateKeeps ==
  ASSUME NEW p, Prepared(p), NEW e
  PROVE  Good(Update(p, e)) /\ Update(p, e).out.kind \in {"updated", "skipped"}
  <1> DEFINE rows == p.out.rows
             opened == p.out.opened
             fresh == opened \cup (rows \ p.old)
             q == [p EXCEPT !.since = 0, !.hasLast = TRUE, !.gap = FALSE, !.init = TRUE]
             skipped == [q EXCEPT !.owed = @ \ opened, !.out.kind = "skipped"]
             updated == [q EXCEPT !.old = rows, !.owed = (@ \cup opened) \ (fresh \cap rows),
                                  !.out.kind = "updated",
                                  !.out.stale = (rows \cap p.owed) \ fresh]
             u == IF e.skip THEN skipped ELSE updated
             r == readback(u, e, rows)
  <1>1. Update(p, e) = r
    BY DEF Update
  <1>2. /\ DOMAIN q = PppFields /\ DOMAIN q.out = OutFields /\ q.since = 0 /\ q.hasLast = TRUE
        /\ q.init = TRUE /\ q.nominal = p.nominal /\ q.old = p.old /\ q.owed = p.owed
        /\ q.prev = p.prev /\ q.out = p.out
    BY DEF Prepared, PppShape, PppFields
  <1>b. q.init \in BOOLEAN /\ q.hasLast \in BOOLEAN
    BY <1>2
  <1>3. /\ PppShape(skipped) /\ skipped.init /\ skipped.hasLast /\ skipped.nominal = p.nominal
        /\ skipped.old = p.old /\ skipped.owed = p.owed \ opened /\ skipped.prev = p.prev
        /\ skipped.out.stale = p.out.stale /\ skipped.out.kind = "skipped"
    <2> DEFINE out == [q.out EXCEPT !.kind = "skipped"]
               owed == p.owed \ opened
    <2>1. DOMAIN out = OutFields /\ out.stale = p.out.stale /\ out.kind = "skipped"
      BY <1>2 DEF OutFields
    <2>2. skipped = [q EXCEPT !.owed = owed, !.out = out]
      BY <1>2, ZenonT(40) DEF PppFields
    <2> HIDE DEF q, out, owed, skipped
    <2>b. skipped.init \in BOOLEAN /\ skipped.hasLast \in BOOLEAN
      BY <1>2, <1>b, <2>2, Zenon DEF PppFields
    <2>3. DOMAIN skipped = PppFields /\ skipped.since = q.since /\ skipped.init = q.init /\ skipped.hasLast = q.hasLast
            /\ skipped.nominal = q.nominal /\ skipped.old = q.old /\ skipped.owed = owed
            /\ skipped.prev = q.prev /\ skipped.out = out
      BY <1>2, <2>2 DEF PppFields
    <2> QED
      BY <1>2, <2>1, <2>b, <2>3 DEF owed, PppShape
  <1>4. /\ PppShape(updated) /\ updated.init /\ updated.hasLast /\ updated.nominal = p.nominal
        /\ updated.old = rows /\ updated.owed = (p.owed \cup opened) \ (fresh \cap rows)
        /\ updated.out.stale = (rows \cap p.owed) \ fresh /\ updated.out.kind = "updated"
    <2> DEFINE stale == (rows \cap p.owed) \ fresh
               out == [q.out EXCEPT !.kind = "updated", !.stale = stale]
               owed == (p.owed \cup opened) \ (fresh \cap rows)
    <2>1. DOMAIN out = OutFields /\ out.stale = stale /\ out.kind = "updated"
      BY <1>2 DEF OutFields
    <2>2. updated = [q EXCEPT !.old = rows, !.owed = owed, !.out = out]
      BY <1>2, ZenonT(40) DEF PppFields
    <2> HIDE DEF q, out, owed, updated, rows
    <2>b. updated.init \in BOOLEAN /\ updated.hasLast \in BOOLEAN
      BY <1>2, <1>b, <2>2, Zenon DEF PppFields
    <2>3. DOMAIN updated = PppFields /\ updated.since = q.since /\ updated.init = q.init /\ updated.hasLast = q.hasLast
            /\ updated.nominal = q.nominal /\ updated.old = rows /\ updated.owed = owed
            /\ updated.out = out
      BY <1>2, <2>2 DEF PppFields
    <2> QED
      BY <1>2, <2>1, <2>b, <2>3 DEF owed, PppShape
  <1> HIDE DEF q
  <1>5. /\ PppShape(u) /\ u.init /\ u.hasLast /\ u.nominal = p.nominal
        /\ u.out.kind \in {"updated", "skipped"}
    BY <1>3, <1>4
  <1>6. /\ PppShape(r) /\ r.init /\ r.hasLast /\ r.nominal = p.nominal /\ r.out = u.out
        /\ r.old = u.old /\ r.owed = u.owed /\ r.prev = u.prev
    <2> HIDE DEF u
    <2> QED
      BY <1>5 DEF readback, PppShape, PppFields
  <1>7. Strict => \A s \in r.owed \cap r.old : s \notin r.prev
    <2> SUFFICES ASSUME Strict, NEW s \in u.owed \cap u.old PROVE s \notin u.prev
      BY <1>6
    <2>1. s \in p.owed \cap p.old => s \notin p.prev \/ s \in opened
      BY DEF Prepared
    <2>2. rows \subseteq p.prev
      BY DEF Prepared
    <2>3. CASE e.skip
      <3> HIDE DEF skipped
      <3> QED
        BY <1>3, <2>1, <2>3
    <2>4. CASE ~e.skip
      <3> HIDE DEF updated
      <3> QED
        BY <1>4, <2>1, <2>2, <2>4
    <2> QED
      BY <2>3, <2>4
  <1>8. Strict => r.out.stale = {}
    <2> SUFFICES ASSUME Strict PROVE u.out.stale = {}
      BY <1>6
    <2>1. \A s \in p.owed \cap p.old : s \notin p.prev \/ s \in opened
      BY DEF Prepared
    <2>2. rows \subseteq p.prev /\ p.out.stale = {}
      BY DEF Prepared
    <2> HIDE DEF updated, skipped
    <2> QED
      BY <1>3, <1>4, <2>1, <2>2
  <1> HIDE DEF r, u
  <1>9. Strict => NothingStale(r)
    BY <1>6, <1>7, <1>8 DEF Prepared, NothingStale, OwedIsOpenedNext
  <1>10. Begun(r) /\ NeverStarved(r) /\ r.out.kind \in {"updated", "skipped"}
    BY <1>5, <1>6 DEF Begun, NeverStarved
  <1> QED
    BY <1>1, <1>6, <1>9, <1>10 DEF Good

\* A second epoch in a row that is not used is one after a break.
LEMMA GapOpensAll ==
  ASSUME NEW p, PppShape(p), Begun(p), NEW e \in PppEpochs, pppConfig \in PppConfigs,
         p.out.rows = {}, Strict => NothingStale(p)
  PROVE  LET t == Gapped(p, e)
         IN  /\ PppShape(t) /\ t.init = p.init /\ Begun(t) /\ t.out = p.out /\ t.prev = p.prev
             /\ Strict => /\ t.nominal = pppConfig.interval
                          /\ t.old # {} => Late(t.since)
                          /\ \A s \in t.owed \cap t.old : s \notin t.prev \/ t.force
  <1> DEFINE since == Elapsed(p, e)
             broken == (p.nominal > 0 /\ 2 * since > 3 * p.nominal) \/ since > 60
             forced == p.force \/ ~(pppConfig.keep > 0 /\ since <= pppConfig.keep)
             t == Gapped(p, e)
  <1>1. /\ e.dt \in Nat /\ p.since \in Nat /\ PppLongAgo \in Nat /\ PppLongAgo > 60
        /\ pppConfig.interval \in Int /\ pppConfig.keep \in Nat
        /\ pppConfig.interval > 0 => 4 * e.dt > 3 * pppConfig.interval
    BY PppAssumption, PppSpaced DEF PppShape
  <1>2. since \in Nat
    BY <1>1 DEF Elapsed
  <1>3. Strict /\ p.hasLast => Late(since)
    BY <1>1 DEF Elapsed, Late, Strict
  <1>4. Strict /\ p.hasLast /\ Late(p.since) => broken
    BY <1>1 DEF Elapsed, Late, Strict, NothingStale
  <1>5. Strict => forced
    BY <1>1 DEF Strict
  <1> HIDE DEF since
  <1>6. CASE ~p.hasLast
    <2>1. t = p /\ p.old = {}
      BY <1>6 DEF Gapped, Begun
    <2> QED
      BY <2>1 DEF NothingStale
  <1>7. CASE p.hasLast /\ broken
    <2>1. t = [p EXCEPT !.gap = TRUE, !.since = since, !.force = forced]
      BY <1>7 DEF Gapped, since
    <2> HIDE DEF forced, t
    <2>2. /\ PppShape(t) /\ t.init = p.init /\ t.hasLast = p.hasLast /\ t.out = p.out
          /\ t.prev = p.prev /\ t.old = p.old /\ t.owed = p.owed /\ t.nominal = p.nominal
          /\ t.since = since /\ (forced => t.force)
      BY <1>2, <2>1 DEF PppShape, PppFields
    <2> QED
      BY <1>3, <1>5, <1>7, <2>2 DEF Begun, NothingStale, t
  <1>8. CASE p.hasLast /\ ~broken
    <2> DEFINE nominal == IF p.nominal < 0 THEN since ELSE p.nominal
    <2>1. t = [p EXCEPT !.since = since, !.nominal = nominal]
      BY <1>8 DEF Gapped, since
    <2>2. Strict => nominal = pppConfig.interval
      BY <1>1 DEF Strict, NothingStale
    <2> HIDE DEF t, nominal
    <2>3. /\ PppShape(t) /\ t.init = p.init /\ t.hasLast = p.hasLast /\ t.out = p.out
          /\ t.prev = p.prev /\ t.old = p.old /\ t.owed = p.owed /\ t.nominal = nominal
          /\ t.since = since /\ t.force = p.force
      BY <1>2, <2>1 DEF PppShape, PppFields
    <2>4. Strict => \A s \in t.owed \cap t.old : s \notin t.prev \/ t.force
      BY <1>4, <1>8, <2>3 DEF NothingStale, OwedIsOpenedNext
    <2> QED
      BY <1>3, <1>8, <2>2, <2>3, <2>4 DEF Begun, t
  <1> QED
    BY <1>6, <1>7, <1>8

\* The equations of an epoch after a start as GapOpensAll leaves it.
LEMMA BuildPrepares ==
  ASSUME NEW t, PppShape(t), Begun(t), NEW e, NEW n, pppConfig \in PppConfigs,
         t.out.stale = {},
         Strict => /\ t.nominal = pppConfig.interval
                   /\ t.old # {} => Late(t.since)
                   /\ \A s \in t.owed \cap t.old : s \notin t.prev \/ t.force
  PROVE  LET q == buildEquSys(t, e, n)
         IN  /\ Prepared(q) /\ Carried(t, q) /\ q.out.stale = {}
             /\ ~Enough(q) => Cardinality(q.out.tracked) < pppConfig.minSats
  <1> DEFINE q == buildEquSys(t, e, n)
  <1>1. /\ PppShape(q) /\ Carried(t, q)
        /\ q.prev = Tracked(e) /\ q.out.rows \subseteq Tracked(e)
        /\ Tracked(e) \ t.prev \subseteq q.out.opened
        /\ t.force => Tracked(e) \subseteq q.out.opened
        /\ q.out.stale = t.out.stale
        /\ ~Enough(q) => Cardinality(q.out.tracked) < pppConfig.minSats
    BY BuildKeeps
  <1> HIDE DEF q
  <1>2. Begun(q)
    BY <1>1 DEF Carried, Begun
  <1>3. Strict => \A s \in q.owed \cap q.old : s \notin q.prev \/ s \in q.out.opened
    BY <1>1 DEF Carried
  <1> QED
    BY <1>1, <1>2, <1>3 DEF Prepared, Carried, q

\* Nothing is held before the first update, so nothing can be stale in it.
LEMMA FirstEpochKeeps ==
  ASSUME NEW t, PppShape(t), Begun(t), ~t.init, NEW e, pppConfig \in PppConfigs,
         t.out.stale = {}, Strict => t.nominal = pppConfig.interval
  PROVE  Good(initFilter(t, e))
  <1> DEFINE pseudo == IF pppConfig.leo THEN 0 ELSE 2
             tried == buildEquSys(t, e, IF e.rounds > 0 THEN e.rounds ELSE 1)
             found == e.rounds > 0 /\ Cardinality(tried.out.rows) + pseudo >= PppInitSats
             unknown == [s \in PppSats |-> "none"]
             cleared == [tried EXCEPT !.amb = unknown]
             built == buildEquSys(cleared, e, 1)
             open == [built.out EXCEPT !.opened = @ \cup built.out.rows]
             all == [built EXCEPT !.out.opened = @ \cup built.out.rows]
  <1>1. t.old = {}
    BY DEF Begun
  <1>2. Prepared(tried) /\ Carried(t, tried) /\ tried.out.stale = {}
    BY <1>1, BuildPrepares
  <1> HIDE DEF tried
  <1>3. /\ PppShape(cleared) /\ Carried(tried, cleared) /\ cleared.out = tried.out
        /\ cleared.prev = tried.prev
    BY <1>2 DEF Prepared, PppShape, PppFields, Carried
  <1> HIDE DEF cleared
  <1>4. /\ Prepared(cleared) /\ ~cleared.init /\ cleared.old = {} /\ Begun(cleared)
        /\ cleared.out.stale = {} /\ (Strict => cleared.nominal = pppConfig.interval)
    BY <1>1, <1>2, <1>3 DEF Prepared, Carried, Begun
  <1>5. Prepared(built) /\ Carried(cleared, built)
    BY <1>3, <1>4, BuildPrepares
  <1> HIDE DEF built
  <1>6. ~built.init /\ built.old = {}
    BY <1>4, <1>5 DEF Carried
  <1>7. Prepared(all)
    <2>1. all = [built EXCEPT !.out = open]
      BY <1>5 DEF Prepared, PppShape, PppFields
    <2>2. /\ DOMAIN open = OutFields /\ open.rows = built.out.rows
          /\ open.stale = built.out.stale
      BY <1>5 DEF Prepared, PppShape, OutFields
    <2> HIDE DEF all, open
    <2>3. /\ PppShape(all) /\ Carried(built, all) /\ all.out = open /\ all.prev = built.prev
      BY <1>5, <2>1, <2>2 DEF Prepared, PppShape, PppFields, Carried
    <2> QED
      BY <1>5, <1>6, <2>2, <2>3 DEF Prepared, Carried, Begun
  <1> HIDE DEF all
  <1>8. \/ initFilter(t, e) = Freeze(cleared)
        \/ initFilter(t, e) = Update(all, e)
        \/ initFilter(t, e) = Freeze(built)
    BY DEF initFilter, tried, cleared, built, all
  <1>9. Good(Freeze(cleared)) /\ Good(Freeze(built)) /\ Good(Update(all, e))
    BY <1>4, <1>5, <1>6, <1>7, FreezeKeeps, UpdateKeeps
  <1> QED
    BY <1>8, <1>9

LEMMA LaterEpochKeeps ==
  ASSUME NEW t, PppShape(t), Begun(t), NEW e, pppConfig \in PppConfigs, t.out.stale = {},
         Strict => /\ t.nominal = pppConfig.interval
                   /\ t.old # {} => Late(t.since)
                   /\ \A s \in t.owed \cap t.old : s \notin t.prev \/ t.force
  PROVE  Good(updateFilter(t, e))
  <1> DEFINE built == buildEquSys(t, e, 1)
  <1>1. Prepared(built) /\ (~Enough(built) => Cardinality(built.out.tracked) < pppConfig.minSats)
    BY BuildPrepares
  <1>2. updateFilter(t, e) = IF Enough(built) THEN Update(built, e) ELSE Freeze(built)
    BY DEF updateFilter
  <1> HIDE DEF built
  <1> QED
    BY <1>1, <1>2, FreezeKeeps, UpdateKeeps

LEMMA SolveKeeps ==
  ASSUME NEW p, Good(p), NEW e \in PppEpochs, pppConfig \in PppConfigs
  PROVE  Good(solve(p, e))
  <1> DEFINE proc == IF p.proc > PppWarmup THEN p.proc ELSE p.proc + 1
             q == [p EXCEPT !.proc = proc, !.out = NothingDone]
             t == Gapped(q, e)
             inView == Cardinality({s \in PppSats : e.see[s] \in {"ok", "low"}})
             since == Elapsed(q, e)
             away == [q EXCEPT !.since = since]
  <1>1. /\ DOMAIN NothingDone = OutFields /\ NothingDone.rows = {} /\ NothingDone.stale = {}
        /\ NothingDone.kind = "none" /\ NothingDone.tracked = {}
    BY DEF NothingDone, OutFields
  <1>2. /\ PppShape(q) /\ Carried(p, q) /\ q.out = NothingDone /\ q.prev = p.prev
        /\ q.force = p.force
    BY <1>1 DEF Good, PppShape, PppFields, Carried
  <1>3. solve(p, e) = CASE inView = 0 -> away
                        [] inView > 0 /\ ~t.init /\ inView < PppInitSats -> Freeze(t)
                        [] inView > 0 /\ ~t.init /\ inView >= PppInitSats -> initFilter(t, e)
                        [] OTHER -> updateFilter(t, e)
    BY DEF solve
  <1> HIDE DEF q
  <1>4. Begun(q) /\ (Strict => NothingStale(q)) /\ q.out.rows = {} /\ q.out.stale = {}
    BY <1>1, <1>2 DEF Good, Begun, Carried, NothingStale, OwedIsOpenedNext
  <1>5. /\ PppShape(t) /\ t.init = q.init /\ Begun(t) /\ t.out = q.out /\ t.prev = q.prev
        /\ Strict => /\ t.nominal = pppConfig.interval
                     /\ t.old # {} => Late(t.since)
                     /\ \A s \in t.owed \cap t.old : s \notin t.prev \/ t.force
    BY <1>2, <1>4, GapOpensAll
  <1>6. t.out.stale = {} /\ t.out.rows = {}
    BY <1>4, <1>5
  <1>7. Good(away)
    <2>1. e.dt \in Nat /\ q.since \in Nat /\ PppLongAgo \in Nat /\ PppLongAgo > 60
            /\ pppConfig.interval \in Int
      BY <1>2, PppAssumption DEF PppShape
    <2>2. since \in Nat /\ (q.hasLast /\ Late(q.since) => Late(since))
      BY <2>1 DEF Elapsed, Late
    <2> HIDE DEF since, away
    <2>3. /\ PppShape(away) /\ away.init = q.init /\ away.hasLast = q.hasLast
          /\ away.since = since /\ away.nominal = q.nominal /\ away.old = q.old
          /\ away.owed = q.owed /\ away.prev = q.prev /\ away.force = q.force
          /\ away.out = q.out
      BY <1>2, <2>2 DEF PppShape, PppFields, away
    <2>4. Begun(away)
      BY <1>4, <2>3 DEF Begun
    <2>5. Strict => NothingStale(away)
      BY <1>4, <2>2, <2>3 DEF Begun, NothingStale, OwedIsOpenedNext
    <2>6. NeverStarved(away)
      BY <1>1, <1>2, <2>3 DEF NeverStarved
    <2> QED
      BY <2>3, <2>4, <2>5, <2>6 DEF Good
  <1> HIDE DEF t, away, inView
  <1>8. ~t.init => Good(Freeze(t)) /\ Good(initFilter(t, e))
    <2> SUFFICES ASSUME ~t.init PROVE Good(Freeze(t)) /\ Good(initFilter(t, e))
      OBVIOUS
    <2>1. t.old = {}
      BY <1>5 DEF Begun
    <2>2. Prepared(t)
      BY <1>5, <1>6, <2>1 DEF Prepared
    <2> QED
      BY <1>5, <1>6, <2>2, FreezeKeeps, FirstEpochKeeps
  <1>9. Good(updateFilter(t, e))
    BY <1>5, <1>6, LaterEpochKeeps
  <1> QED
    BY <1>3, <1>7, <1>8, <1>9

\* What a receiver in orbit does after the filter touches none of it.
LEMMA RecoveredKeeps ==
  ASSUME NEW p, Good(p), p.out.kind \in {"updated", "skipped"}, NEW e
  PROVE  Good(Recovered(p, e)) /\ Good([p EXCEPT !.out.solved = TRUE])
  <1> DEFINE R(force, ref, solved) ==
               [p EXCEPT !.force = force, !.motionRef = ref, !.out.solved = solved]
  <1>1. ASSUME NEW r, DOMAIN r = PppFields, DOMAIN r.out = OutFields,
               r.init = p.init, r.hasLast = p.hasLast, r.since = p.since,
               r.nominal = p.nominal, r.old = p.old, r.owed = p.owed, r.prev = p.prev,
               p.force => r.force, r.out.kind = p.out.kind, r.out.stale = p.out.stale,
               r.init \in BOOLEAN, r.hasLast \in BOOLEAN
        PROVE  Good(r)
    <2>1. PppShape(r)
      BY <1>1 DEF Good, PppShape
    <2>2. Begun(r)
      BY <1>1 DEF Good, Begun
    <2>3. Strict => NothingStale(r)
      BY <1>1 DEF Good, NothingStale, OwedIsOpenedNext
    <2>4. NeverStarved(r)
      BY <1>1 DEF NeverStarved
    <2> QED
      BY <2>1, <2>2, <2>3, <2>4 DEF Good
  <1>2. DOMAIN p = PppFields /\ DOMAIN p.out = OutFields
          /\ p.init \in BOOLEAN /\ p.hasLast \in BOOLEAN
    BY DEF Good, PppShape
  <1>3. ASSUME NEW force, NEW ref, NEW solved, p.force => force
        PROVE  Good(R(force, ref, solved))
    <2> DEFINE out == [p.out EXCEPT !.solved = solved]
               r == [p EXCEPT !.force = force, !.motionRef = ref, !.out = out]
    <2>1. DOMAIN out = OutFields /\ out.kind = p.out.kind /\ out.stale = p.out.stale
      BY <1>2 DEF OutFields
    <2>2. R(force, ref, solved) = r
      BY <1>2 DEF PppFields
    <2> HIDE DEF R, out
    <2>3. /\ DOMAIN r = PppFields /\ r.out = out /\ r.init = p.init /\ r.hasLast = p.hasLast
          /\ r.since = p.since /\ r.nominal = p.nominal /\ r.old = p.old /\ r.owed = p.owed
          /\ r.prev = p.prev /\ r.force = force
      BY <1>2 DEF PppFields
    <2>4. r.init \in BOOLEAN /\ r.hasLast \in BOOLEAN
      BY <1>2, Zenon DEF PppFields
    <2> HIDE DEF r
    <2> QED
      BY <1>1, <1>3, <2>1, <2>2, <2>3, <2>4
  <1>4. Good([p EXCEPT !.out.solved = TRUE])
    <2> DEFINE out == [p.out EXCEPT !.solved = TRUE]
               r == [p EXCEPT !.out = out]
    <2>1. DOMAIN out = OutFields /\ out.kind = p.out.kind /\ out.stale = p.out.stale
      BY <1>2 DEF OutFields
    <2>2. [p EXCEPT !.out.solved = TRUE] = r
      BY <1>2 DEF PppFields
    <2> HIDE DEF out
    <2>3. /\ DOMAIN r = PppFields /\ r.out = out /\ r.init = p.init /\ r.hasLast = p.hasLast
          /\ r.since = p.since /\ r.nominal = p.nominal /\ r.old = p.old /\ r.owed = p.owed
          /\ r.prev = p.prev /\ r.force = p.force
      BY <1>2 DEF PppFields
    <2>4. r.init \in BOOLEAN /\ r.hasLast \in BOOLEAN
      BY <1>2, Zenon DEF PppFields
    <2> HIDE DEF r
    <2> QED
      BY <1>1, <2>1, <2>2, <2>3, <2>4
  <1>5. Good(Recovered(p, e))
    <2> DEFINE fast == ~e.diverged /\ e.fast /\ Cardinality(p.out.rows) >= pppConfig.minSats
               refused == p.motionRef /\ ~fast /\ e.offMotion
               force == p.force \/ e.diverged
               ref == p.motionRef \/ fast
               solved == ~refused /\ ~e.poorAnchor
    <2>1. Recovered(p, e) = R(force, ref, solved)
      BY <1>2 DEF Recovered, PppFields
    <2>2. p.force => force
      OBVIOUS
    <2> HIDE DEF R, force, ref, solved
    <2>3. Good(R(force, ref, solved))
      BY <1>3, <2>2
    <2> QED
      BY <2>1, <2>3
  <1> QED
    BY <1>4, <1>5

\* The inductive invariant of PPP, for any satellites, epochs and thresholds: an
\* ambiguity opened for an epoch that was not used is of a satellite that has to
\* come back, or will be opened with all the others in the next epoch.
THEOREM PppInvariant == PppSpec => []PppIInv
  <1>1. PppInit => PppIInv
    <2> SUFFICES ASSUME NEW cfg \in PppConfigs, PppStart(cfg) PROVE PppIInv
      BY DEF PppInit
    <2>1. /\ pppConfig \in PppConfigs /\ DOMAIN ppp = PppFields /\ DOMAIN ppp.out = OutFields
          /\ ppp.since = 0 /\ ~ppp.init /\ ~ppp.hasLast /\ ppp.nominal = pppConfig.interval
          /\ ppp.old = {} /\ ppp.out.stale = {}
      BY DEF PppStart, PppFields, OutFields, NothingDone
    <2>2. ppp.init \in BOOLEAN /\ ppp.hasLast \in BOOLEAN
      BY Zenon DEF PppStart
    <2> QED
      BY <2>1, <2>2 DEF PppIInv, PppShape, Begun, NothingStale, OwedIsOpenedNext, NeverStarved
  <1>2. PppIInv /\ [PppNext]_pppVars => PppIInv'
    <2> SUFFICES ASSUME PppIInv, [PppNext]_pppVars PROVE PppIInv'
      OBVIOUS
    <2>1. CASE PppNext
      <3> PICK e \in PppEpochs : PppEpoch(e)
        BY <2>1 DEF PppNext
      <3> DEFINE p == solve(ppp, e)
      <3>1. Good(ppp) /\ pppConfig \in PppConfigs /\ pppConfig' = pppConfig
        BY DEF PppIInv, Good, PppEpoch
      <3>2. Good(p)
        BY <3>1, SolveKeeps
      <3>3. \/ ppp' = p
            \/ /\ p.out.kind \in {"updated", "skipped"}
               /\ ppp' = Recovered(p, e) \/ ppp' = [p EXCEPT !.out.solved = TRUE]
        BY DEF PppEpoch
      <3> HIDE DEF p
      <3>4. Good(ppp')
        BY <3>2, <3>3, RecoveredKeeps
      <3> QED
        BY <3>1, <3>4 DEF Good, PppIInv, PppShape, Begun, Strict, NothingStale,
                          OwedIsOpenedNext, Late, NeverStarved
    <2>2. CASE UNCHANGED pppVars
      BY <2>2 DEF pppVars, PppIInv, PppShape, Begun, Strict, NothingStale,
                  OwedIsOpenedNext, Late, NeverStarved
    <2> QED
      BY <2>1, <2>2
  <1> QED
    BY <1>1, <1>2, PTL DEF PppSpec

\* With the interval given and no ambiguity kept over breaks, no phase is measured
\* against an ambiguity that was to be opened, however many frozen epochs, absent
\* satellites and recoveries lie between.
THEOREM SlipsAlwaysReachFilter == PppSpec => []PppSlipsReachFilter
  <1>1. PppIInv => PppSlipsReachFilter
    BY DEF PppIInv, Strict, NothingStale, PppSlipsReachFilter
  <1> QED
    BY <1>1, PppInvariant, PTL

\* The gate alone never freezes an epoch, whatever the thresholds.
THEOREM GateStarvesNoEpoch == PppSpec => []PppGateNeverStarves
  <1>1. PppIInv => PppGateNeverStarves
    BY DEF PppIInv, NeverStarved, PppGateNeverStarves
  <1> QED
    BY <1>1, PppInvariant, PTL
=============================================================================
