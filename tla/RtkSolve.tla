------------------------------ MODULE RtkSolve ------------------------------
(***************************************************************************)
(* The RTK engine, pair of epochs by pair of epochs: where the positions   *)
(* of base and rover come from, the cycle slip detectors of the two        *)
(* stations, the satellites that enter the double differences, the float   *)
(* solution and the fixed one.                                             *)
(*                                                                         *)
(* The wide lane verdict of a detector is an input that a detector can     *)
(* only give once its mean is long enough; the jump of the geometry free   *)
(* phase is an input too, and what the detector makes of it, and when, is  *)
(* modelled.  A jump of phase and code together is an artifact: it is kept *)
(* apart from the jumps, and only those are told.                          *)
(***************************************************************************)
EXTENDS Integers, FiniteSets, FiniteSetsExt

CONSTANTS
    RtkSats,     \* the satellites
    RtkSys,      \* the system of each
    RtkGeo,      \* those of them that are geostationary
    RtkConfigs,  \* [minSats, useSlip, useGf, excludeGeo, useAR, common, user]
    RtkEpochs,   \* the pairs of epochs the stations may deliver
    RtkMwMin,    \* the points a wide lane mean needs (5)
    RtkGfMin,    \* the points of an arc before its phase is judged (6)
    RtkEphMax    \* bounds the growth of the ephemeris table

\* A wide lane is judged before the phase is.
ASSUME RtkAssumption == RtkMwMin \in Nat \ {0} /\ RtkGfMin \in Nat /\ RtkMwMin < RtkGfMin

VARIABLES
    rtkConfig,   \* the options of the run
    rtk          \* the engine and what became of its last pair

rtkVars == <<rtkConfig, rtk>>

Stations == {"base", "rover"}

Systems == {RtkSys[s] : s \in RtkSats}

RtkStart(cfg) ==
    /\ rtkConfig = cfg
    /\ rtk = [eph |-> 0,
              pos |-> [t \in Stations |-> "none"],
              tried |-> [t \in Stations |-> 0],
              det |-> [t \in Stations |-> [s \in RtkSats |-> [mw |-> 0, len |-> 0, jumped |-> FALSE]]],
              run |-> [t \in Stations |-> [s \in RtkSats |-> 0]],
              excl |-> {}, used |-> {}, stat |-> "none"]

RtkInit == \E cfg \in RtkConfigs : RtkStart(cfg)

-----------------------------------------------------------------------------
(* Positions.                                                              *)

\* A position of the antenna in the data goes before an estimate, one entered by
\* the user before both; an estimate is made again when the table has grown.
BasePosition(p, e) ==
    CASE rtkConfig.user -> [p EXCEPT !.pos["base"] = "user"]
      [] ~rtkConfig.user /\ "base" \in e.antenna -> [p EXCEPT !.pos["base"] = "antenna"]
      [] OTHER -> IF (p.pos["base"] = "none" \/ p.eph > p.tried["base"]) /\ "base" \in e.spp /\ p.eph > 0
                  THEN [p EXCEPT !.pos["base"] = "spp", !.tried["base"] = p.eph]
                  ELSE p

RoverPosition(p, e) ==
    IF "rover" \in e.antenna THEN [p EXCEPT !.pos["rover"] = "antenna"]
    ELSE IF (p.pos["rover"] = "none" \/ p.eph > p.tried["rover"]) /\ "rover" \in e.spp /\ p.eph > 0
         THEN [p EXCEPT !.pos["rover"] = "spp", !.tried["rover"] = p.eph]
         ELSE p

-----------------------------------------------------------------------------
(* Frequencies.                                                            *)

\* The second frequency a station uses for a system: by the W code if any of its
\* satellites has one.
Combo(e, t, sys) ==
    LET has(c) == \E s \in RtkSats : RtkSys[s] = sys /\ c \in e.see[t][s]
    IN  IF has("W") THEN "W" ELSE IF has("X") THEN "X" ELSE "none"

\* The systems both stations have two frequencies for.
detectFreqCombinations(e) ==
    {sys \in Systems : \A t \in Stations : Combo(e, t, sys) # "none"}

Available(e, t, s) == Combo(e, t, RtkSys[s]) \in e.see[t][s]

InView(e, t, s) == e.see[t][s] # {"absent"}

-----------------------------------------------------------------------------
(* Cycle slips.                                                            *)

UpTo(n, max) == IF n > max THEN max ELSE n

NewArc == [mw |-> 0, len |-> 0, jumped |-> FALSE]

\* One epoch fed to a detector.  A loss of lock ends the arc; an absurd wide lane
\* only its mean, and the phases of the epoch are passed over; one far from a long
\* enough mean leaves the mean alone, and with it a jump of the epoch before is not
\* told.  A jump of the phase is told when the next point comes, an artifact never.
rtkFeed(d, ev) ==
    CASE ev = "lli" -> [det |-> NewArc, slip |-> TRUE, gf |-> FALSE, artifact |-> FALSE]
      [] ev = "wild" -> [det |-> [d EXCEPT !.mw = 0], slip |-> FALSE, gf |-> FALSE, artifact |-> FALSE]
      [] ev = "far" /\ d.mw >= RtkMwMin ->
           [det |-> [d EXCEPT !.len = UpTo(d.len + 1, RtkGfMin), !.jumped = FALSE],
            slip |-> FALSE, gf |-> FALSE, artifact |-> FALSE]
      [] OTHER ->
           LET told == rtkConfig.useGf /\ d.jumped /\ d.len + 1 >= RtkGfMin
               broke == ev = "widelane" /\ d.mw > RtkMwMin
           IN  [det |-> [mw |-> IF told THEN 0 ELSE IF broke THEN 1 ELSE UpTo(d.mw + 1, RtkMwMin + 1),
                         len |-> UpTo(d.len + 1, RtkGfMin),
                         jumped |-> ev = "jump" /\ d.len >= 1],
                slip |-> broke, gf |-> told, artifact |-> FALSE]

\* Only a satellite the base has in its epoch is looked at.
RtkFed(e, t) ==
    LET both == detectFreqCombinations(e)
    IN  {s \in RtkSats : RtkSys[s] \in both /\ InView(e, "base", s) /\ Available(e, t, s)}

\* As feedGap would be if it were only called for the base.
GapOfBase(p, t, s) == IF t = "base" THEN NewArc ELSE p.det[t][s]

feedGap(p, t, s) == NewArc

\* Single jumps are to be applied and artifacts left out; once as many come together as
\* one cause could explain, all are left out and none applied.
decide(gf, artifacts) ==
    IF rtkConfig.common > 0 /\ Cardinality(gf) + Cardinality(artifacts) >= rtkConfig.common
    THEN [apply |-> {}, exclude |-> gf \cup artifacts]
    ELSE [apply |-> gf, exclude |-> artifacts]

detectSlips(p, e) ==
    LET base == RtkFed(e, "base")
        rover == RtkFed(e, "rover")
        fed(t) == IF t = "base" THEN base ELSE rover
        said(t, s) == rtkFeed(p.det[t][s], e.ev[t][s])
        slipped == {s \in base \cap rover : \E t \in Stations : said(t, s).slip}
        jumped(a) == {s \in RtkSats : \E t \in Stations : s \in fed(t) /\ said(t, s).gf
                                                            /\ said(t, s).artifact = a}
        verdict == decide(jumped(FALSE), jumped(TRUE))
        settle(t, s) == IF s \in fed(t) THEN said(t, s).det ELSE feedGap(p, t, s)
        length(t, s) == IF s \in fed(t) /\ e.ev[t][s] # "lli" THEN UpTo(p.run[t][s] + 1, RtkGfMin) ELSE 0
    IN  IF ~rtkConfig.useSlip
        THEN [p EXCEPT !.excl = {},
                       !.det = [t \in Stations |-> [s \in RtkSats |-> NewArc]]]
        ELSE [p EXCEPT !.excl = slipped \cup verdict.apply \cup verdict.exclude,
                       !.det = [t \in Stations |-> [s \in RtkSats |-> settle(t, s)]],
                       !.run = [t \in Stations |-> [s \in RtkSats |-> length(t, s)]]]

-----------------------------------------------------------------------------
(* The solution.                                                           *)

\* The satellites of a system that both stations have on both frequencies, with an
\* orbit, above the cutoff and not excluded.
Candidates(p, e, sys) ==
    {s \in RtkSats : /\ RtkSys[s] = sys
                     /\ \A t \in Stations : Available(e, t, s)
                     /\ s \notin p.excl
                     /\ s \in e.orbit}

\* The highest one at the rover; a system with only geostationary ones has none.
selectRtkRefSat(S, e) ==
    LET T == IF rtkConfig.excludeGeo THEN S \ RtkGeo ELSE S
    IN  {s \in T : \A u \in T : e.high[s] >= e.high[u]}

buildGeometry(p, e) ==
    UNION {S \in {Candidates(p, e, sys) : sys \in detectFreqCombinations(e)} :
             Cardinality(S) >= 2 /\ selectRtkRefSat(S, e) # {}}

References(S, e) ==
    {CHOOSE s \in selectRtkRefSat(T, e) : TRUE :
        T \in {{s \in S : RtkSys[s] = sys} : sys \in {RtkSys[u] : u \in S}}}

\* A double difference of every satellite that is not a reference.
buildDDCache(S, e) == S \ References(S, e)

\* Phase and code on both frequencies; the phases of a float solution have an
\* ambiguity each.
RtkEquSys(D, fixed) ==
    [rows |-> D \X {"L1", "L2", "C1", "C2"},
     ambiguities |-> IF fixed THEN {} ELSE D \X {"L1", "L2"}]

solveFloat(D) == Cardinality(RtkEquSys(D, FALSE).rows) >= 4

\* Of the float ambiguities, when the search finds them good enough.
tryFixAmbiguities(D, e) ==
    Cardinality(RtkEquSys(D, FALSE).ambiguities) >= 2 /\ e.ratio

\* processEpoch: nothing is solved without a position of the base, nor with too
\* few satellites or equations.
RtkProcessEpoch(p, e) ==
    LET q == detectSlips(RoverPosition(BasePosition(p, e), e), e)
        sats == buildGeometry(q, e)
        D == buildDDCache(sats, e)
    IN  IF BasePosition(p, e).pos["base"] = "none"
        THEN [BasePosition(p, e) EXCEPT !.stat = "failed", !.used = {}]
        ELSE [q EXCEPT !.used = sats,
                       !.stat = CASE \/ sats = {} \/ Cardinality(sats) < rtkConfig.minSats
                                     \/ ~solveFloat(D) -> "failed"
                                  [] OTHER -> IF rtkConfig.useAR /\ tryFixAmbiguities(D, e)
                                              THEN "fixed" ELSE "float"]

RtkNext ==
    \E e \in RtkEpochs, grown \in {0, 1} :
        /\ rtk.eph + grown <= RtkEphMax
        /\ rtk' = RtkProcessEpoch([rtk EXCEPT !.eph = @ + grown], e)
        /\ UNCHANGED rtkConfig

RtkSpec == RtkInit /\ [][RtkNext]_rtkVars

-----------------------------------------------------------------------------
(* The mean of a wide lane and the arc of a phase are made of points of     *)
(* pairs that follow each other: a satellite missing from one of the two    *)
(* stations, or kept by the rover while the base has lost it, starts its    *)
(* arc anew there.  A jump still to be told lies within the arc: none from  *)
(* before a gap keeps a satellite out after it.                             *)
RtkArcsUnbroken ==
    \A t \in Stations, s \in RtkSats :
        /\ rtk.det[t][s].mw <= rtk.run[t][s] /\ rtk.det[t][s].len <= rtk.run[t][s]
        /\ rtk.det[t][s].jumped => rtk.run[t][s] > 1

=============================================================================
