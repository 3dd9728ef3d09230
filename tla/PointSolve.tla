----------------------------- MODULE PointSolve -----------------------------
(***************************************************************************)
(* SPP: the position of one epoch from the code observations, by iterated  *)
(* least squares, and what one epoch leaves to the next: its position as   *)
(* the starting point of receivers that give none, the clock bias of each  *)
(* system as a prior of the inter-system biases, and the code combination  *)
(* chosen for each system.                                                 *)
(*                                                                         *)
(* Numbers are reduced to where they come from: a clock bias is the epoch  *)
(* that estimated it, 0 when it was only ever default-constructed; the     *)
(* position is unknown, rough or good.  What the tests would say of a      *)
(* satellite (elevation, standardised residual) comes with the epoch.      *)
(***************************************************************************)
EXTENDS Integers, Sequences, FiniteSets, SequencesExt, FiniteSetsExt, Functions

CONSTANTS
    PtSats,       \* the satellites, integers in the order of the maps
    PtSys,        \* their systems
    PtEpochs,     \* what may be observed: [known, sats], sats a function
    PtIsb,        \* isbInitVar > 0
    MinCheckIter, PtMaxIter,
    PtLast        \* epochs processed at most

VARIABLES
    ptN,          \* epochs begun
    ptObs,        \* the epoch being solved
    ptPhase,      \* "idle" or "iterating"
    ptIter,
    ptXyz,        \* 0 unknown, 1 rough, 2 good
    ptClk,        \* rClockBias: system -> epoch
    ptPrior,      \* the pairs of biases the prior rows of this epoch use
    satRejected, ptStats,
    ptCombo,      \* ifCodeTypes and mGloCombo, with the signature they are of
    prevClk,      \* mPrevClockBias
    lastXyz,      \* mLastXyz: the epoch it is of, 0 for none
    ptSolved      \* history: [n, active] of the last epoch solved

ptVars == <<ptN, ptObs, ptPhase, ptIter, ptXyz, ptClk, ptPrior, satRejected,
            ptStats, ptCombo, prevClk, lastXyz, ptSolved>>

Seen(obs) == DOMAIN obs.sats
SysOf(S) == {PtSys[s] : s \in S}

-----------------------------------------------------------------------------
(* FreqCombo::detect: the two bands of a system, from those at hand.       *)

PtFirstOf(order, bands) ==
    LET here == SelectSeq(order, LAMBDA b : b \in bands)
    IN  IF here = <<>> THEN "" ELSE Head(here)

detect(sys, bands) ==
    LET b1 == PtFirstOf(IF sys = "C" THEN <<"2", "1">> ELSE <<"1", "2">>, bands)
        b2 == PtFirstOf(CASE sys = "G" -> <<"2", "5", "7">>
                        [] sys = "C" -> <<"6", "7", "5">>
                        [] sys = "R" -> <<"2", "1">>
                        [] OTHER -> <<"5", "7", "8", "6">>, bands)
    IN  IF "" \in {b1, b2} \/ b1 = b2 THEN {} ELSE {b1, b2}

\* The codes of each system, satellite after satellite.
Signature(obs) ==
    [y \in SysOf(Seen(obs)) |->
        LET mine == SetToSortSeq({s \in Seen(obs) : PtSys[s] = y}, <)
        IN  [i \in DOMAIN mine |-> obs.sats[mine[i]].bands]]

\* detectIFCombinations: again only when the signature has changed.  One
\* combination a system, but one a satellite for GLONASS.
detectIFCombinations(obs) ==
    LET sig == Signature(obs)
        bandsOf(y) == UNION {obs.sats[s].bands : s \in {t \in Seen(obs) : PtSys[t] = y}}
        bySys == [y \in SysOf(Seen(obs)) \ {"R"} |-> detect(y, bandsOf(y))]
        bySat == [s \in {t \in Seen(obs) : PtSys[t] = "R"} |-> detect("R", obs.sats[s].bands)]
        some(f) == {k \in DOMAIN f : f[k] # {}}
    IN  IF sig = ptCombo.sig /\ (some(ptCombo.sys) # {} \/ some(ptCombo.glo) # {}) THEN ptCombo
        ELSE [sig |-> sig, sys |-> bySys, glo |-> bySat]

freqComboFor(s) ==
    LET f == IF PtSys[s] = "R" THEN ptCombo.glo ELSE ptCombo.sys
        k == IF PtSys[s] = "R" THEN s ELSE PtSys[s]
    IN  IF k \in DOMAIN f THEN f[k] ELSE {}

BothCodes(s) == freqComboFor(s) # {} /\ freqComboFor(s) \subseteq ptObs.sats[s].bands

-----------------------------------------------------------------------------
(* One iteration.                                                          *)

\* computeSatPos: the satellites with a combination, a healthy ephemeris and
\* both codes; reading the bias of their system makes one of 0.
computeSatPos == {s \in Seen(ptObs) : BothCodes(s) /\ ptObs.sats[s].eph = "ok"}

Touched(clk, S) ==
    [y \in DOMAIN clk \cup SysOf(S) |-> IF y \in DOMAIN clk THEN clk[y] ELSE 0]

\* The first of the worst residuals of the last iteration, above the threshold.
Outlier ==
    LET bad == {s \in Seen(ptObs) \ satRejected : s \in DOMAIN ptStats /\ ptStats[s] > 0}
        worst == {s \in bad : \A t \in bad : ptStats[t] <= ptStats[s]}
    IN  IF ptIter < 2 \/ bad = {} THEN {} ELSE {Min(worst)}

Low(s) == CASE ptXyz = 0 -> FALSE
            [] ptXyz = 1 -> ~ptObs.sats[s].upRough
            [] ptXyz = 2 -> ~ptObs.sats[s].up

\* linearize: the satellites refused for good, and those with an equation.
Refused ==
    {s \in Seen(ptObs) : /\ freqComboFor(s) # {}
                         /\ \/ s \notin computeSatPos
                            \/ s \in Outlier
                            \/ Low(s)}

Equations == {s \in Seen(ptObs) : freqComboFor(s) # {}} \ (satRejected \cup Refused)

\* The prior rows: one a system besides the reference, when both biases exist.
IsbRows ==
    LET active == SysOf(Equations)
    IN  IF ~PtIsb \/ "G" \notin active THEN {}
        ELSE {<<prevClk[y], prevClk["G"]>> :
                y \in {z \in active \ {"G"} : {z, "G"} \subseteq DOMAIN prevClk}}

\* As Save would be if the biases of every iteration were kept.
SavedAtOnce(clk) == prevClk' = clk

\* The biases of an iteration stay in rClockBias; they are kept at the end.
Save(clk) == UNCHANGED prevClk

-----------------------------------------------------------------------------

PtStart(obs) ==
    /\ ptN = 0 /\ ptObs = obs /\ ptPhase = "idle" /\ ptIter = 0
    /\ ptXyz = 0 /\ ptClk = <<>> /\ ptPrior = {} /\ satRejected = {} /\ ptStats = <<>>
    /\ ptCombo = [sig |-> <<>>, sys |-> <<>>, glo |-> <<>>]
    /\ prevClk = <<>> /\ lastXyz = 0 /\ ptSolved = [n |-> 0, active |-> {}]

PtInit == \E obs \in PtEpochs : PtStart(obs)

\* roughInitialXyz: the mean direction of the satellites, then two solutions
\* of the code equations, when there are four.
roughInitialXyz(S) ==
    CASE S = {} -> 0
      [] Cardinality(S) \in 1 .. 3 -> 1
      [] OTHER -> 2

\* processEpoch up to the iterations.
PtBeginEpoch ==
    /\ ptPhase = "idle" /\ ptN < PtLast
    /\ ptN' = ptN + 1
    /\ ptObs' \in PtEpochs
    /\ ptPhase' = "iterating" /\ ptIter' = 0
    /\ satRejected' = {} /\ ptStats' = <<>> /\ ptPrior' = {}
    /\ ptCombo' = detectIFCombinations(ptObs')
    /\ LET kept == IF PtIsb THEN prevClk ELSE <<>>
           start == computeSatPos'
       IN  /\ ptXyz' = CASE ptObs'.known \/ lastXyz > 0 -> 2
                         [] OTHER -> roughInitialXyz(start)
           /\ ptClk' = IF ptObs'.known \/ lastXyz > 0 THEN kept ELSE Touched(kept, start)
    /\ UNCHANGED <<prevClk, lastXyz, ptSolved>>

TooFew == Cardinality(Seen(ptObs)) < 4 \/ Cardinality(Equations) + Cardinality(IsbRows) < 4

\* An exception: solve gives up, processEpoch returns false.
GiveUp ==
    /\ ptPhase = "iterating" /\ TooFew
    /\ ptPhase' = "idle"
    /\ ptClk' = Touched(ptClk, computeSatPos)
    /\ satRejected' = satRejected \cup Refused
    /\ UNCHANGED <<ptN, ptObs, ptIter, ptXyz, ptPrior, ptStats, ptCombo, prevClk,
                   lastXyz, ptSolved>>

\* The biases of the systems with equations are now of this epoch.
Corrected ==
    LET touched == Touched(ptClk, computeSatPos)
        active == SysOf(Equations)
    IN  [y \in DOMAIN touched \cup active |-> IF y \in active THEN ptN ELSE touched[y]]

\* An iteration that is not the last.
Iterate ==
    /\ ptPhase = "iterating" /\ ~TooFew /\ ptIter + 1 < PtMaxIter
    /\ ptIter' = ptIter + 1
    /\ ptXyz' = 2
    /\ ptClk' = Corrected
    /\ ptPrior' = ptPrior \cup IsbRows
    /\ satRejected' = satRejected \cup Refused
    /\ ptStats' = [s \in Equations |-> ptObs.sats[s].w]
    /\ Save(Corrected)
    /\ UNCHANGED <<ptN, ptObs, ptPhase, ptCombo, lastXyz, ptSolved>>

\* The last: the position has stopped moving, or there is no iteration left.
Converge ==
    /\ ptPhase = "iterating" /\ ~TooFew
    /\ ptIter >= MinCheckIter \/ ptIter + 1 = PtMaxIter
    /\ ptPhase' = "idle"
    /\ ptXyz' = 2
    /\ ptClk' = Corrected
    /\ ptPrior' = ptPrior \cup IsbRows
    /\ satRejected' = satRejected \cup Refused
    /\ prevClk' = IF PtIsb THEN Corrected ELSE prevClk
    /\ lastXyz' = ptN
    /\ ptSolved' = [n |-> ptN, active |-> SysOf(Equations)]
    /\ UNCHANGED <<ptN, ptObs, ptIter, ptStats, ptCombo>>

PtNext == PtBeginEpoch \/ GiveUp \/ Iterate \/ Converge

PtSpec == PtInit /\ [][PtNext]_ptVars

-----------------------------------------------------------------------------

\* An epoch that fails, at whatever iteration, leaves nothing to the next: the
\* starting position and the biases of the systems that took part are those
\* of the last epoch solved.
PtFailureLeavesNoTrace ==
    /\ lastXyz = ptSolved.n
    /\ PtIsb => \A y \in ptSolved.active : prevClk[y] = ptSolved.n

\* "The final clock bias of each system in the previous epoch" (SPP.h, above
\* mPrevClockBias): a prior compares two biases that the last epoch solved has
\* estimated, not one that is older or one that was never estimated.
PtPriorOneEpoch ==
    ptPhase = "iterating" => \A p \in ptPrior : p = <<ptSolved.n, ptSolved.n>>
=============================================================================
