------------------------------ MODULE DualPair ------------------------------
(***************************************************************************)
(* RTK pairs the epochs of a base and a rover station.  openDual opens the *)
(* two observation files; DualPair::next then compares the two heads: near *)
(* enough they are a pair, otherwise the older one is replaced by its      *)
(* successor.  Near enough is half of the shorter sampling interval, which *)
(* an IntervalEstimator per station learns from the epochs it has seen, or *)
(* is told by setInterval.                                                 *)
(*                                                                         *)
(* Times are whole units of a common clock; the estimators see the seconds *)
(* of week, which start over every Week units.                             *)
(***************************************************************************)
EXTENDS Integers, Sequences, FiniteSets

CONSTANTS BaseFiles, RoverFiles, \* the files considered, as sequences of epochs
          Intervals,             \* the values of SolverOptions::sampleInterval
          Week, kWindow, kMinSamples, kMaxSaneGap

\* Observation files are not empty and in strictly increasing time order.
Files == {f \in Seq(Nat) : f # <<>> /\ \A i, j \in DOMAIN f : i < j => f[i] < f[j]}

ASSUME DualPairAssumption ==
  /\ BaseFiles \subseteq Files /\ RoverFiles \subseteq Files
  /\ Intervals \subseteq Nat
  /\ Week \in Nat \ {0} /\ kWindow \in Nat \ {0}
  /\ kMinSamples \in Nat \ {0} /\ kMaxSaneGap \in Nat

VARIABLES
  baseFile, roverFile, baseRinex, roverRinex, sampleInterval,
  opened,              \* openDual has returned
  basePos, roverPos,   \* epochs consumed of each file; the head is the last of them
  haveBase, haveRover, \* mHaveBase, mHaveRover
  baseIv, roverIv,     \* the estimators
  pairs,               \* <<base, rover>> epochs returned by next, in order
  over                 \* next has returned false

dualInput == <<baseFile, roverFile, baseRinex, roverRinex, sampleInterval>>
dualVars  == <<dualInput, opened, basePos, roverPos, haveBase, haveRover, baseIv, roverIv, pairs, over>>

-----------------------------------------------------------------------------
(* IntervalEstimator *)

Estimators == [have : BOOLEAN, last : 0 .. Week - 1, deltas : Seq(1 .. Week)]

reset == [have |-> FALSE, last |-> 0, deltas |-> <<>>]

Newest(s, n) == IF Len(s) > n THEN Tail(s) ELSE s

\* A step back (the week starts over) and a long gap teach nothing.
observe(iv, time) ==
  LET sow == time % Week
      d   == sow - iv.last
  IN  [have |-> TRUE, last |-> sow,
       deltas |-> IF iv.have /\ d > 0 /\ d < kMaxSaneGap
                  THEN Newest(Append(iv.deltas, d), kWindow) ELSE iv.deltas]

Vals(s)     == {s[i] : i \in DOMAIN s}
Times(s, d) == Cardinality({i \in DOMAIN s : s[i] = d})

\* The most frequent step, the shortest of equals.
mode(s) == CHOOSE d \in Vals(s) :
             \A e \in Vals(s) \ {d} : \/ Times(s, e) < Times(s, d)
                                      \/ Times(s, e) = Times(s, d) /\ d < e

\* The step in the upper middle of the sorted ones.
median(s) == CHOOSE d \in Vals(s) :
               /\ Cardinality({i \in DOMAIN s : s[i] < d}) <= Len(s) \div 2
               /\ Cardinality({i \in DOMAIN s : s[i] <= d}) > Len(s) \div 2

\* 0 while unknown.
interval(iv) == CASE sampleInterval > 0 -> sampleInterval
                  [] sampleInterval = 0 /\ Len(iv.deltas) < kMinSamples -> 0
                  [] OTHER -> IF Times(iv.deltas, mode(iv.deltas)) >= 2
                              THEN mode(iv.deltas) ELSE median(iv.deltas)

\* Twice the pairing window, so that it stays a whole number.
pairWindow(a, b) ==
  LET ia == interval(a) ib == interval(b)
  IN  IF ia = 0 \/ ib = 0 THEN 0 ELSE IF ia < ib THEN ia ELSE ib

-----------------------------------------------------------------------------
DualAbs(n) == IF n < 0 THEN -n ELSE n

base  == baseFile[basePos]
rover == roverFile[roverPos]

\* makePull has parsed the first epoch of a file: a NovAtel log gives it again, of a
\* RINEX file it is gone, and fastForwardToEpoch then seeks the other file's start.
Skipped(file, rinex, other) ==
  IF ~rinex THEN 0
  ELSE LET late == {i \in 2 .. Len(file) : file[i] >= Head(other)}
       IN  IF late = {} THEN 1 ELSE (CHOOSE i \in late : \A j \in late : i <= j) - 1

DualTypeOK ==
  /\ baseFile \in BaseFiles /\ roverFile \in RoverFiles
  /\ baseRinex \in BOOLEAN /\ roverRinex \in BOOLEAN
  /\ sampleInterval \in Intervals
  /\ opened \in BOOLEAN /\ over \in BOOLEAN
  /\ basePos \in 0 .. Len(baseFile) /\ roverPos \in 0 .. Len(roverFile)
  /\ haveBase \in BOOLEAN /\ haveRover \in BOOLEAN
  /\ haveBase => basePos > 0
  /\ haveRover => roverPos > 0
  /\ baseIv \in Estimators /\ roverIv \in Estimators
  /\ Len(baseIv.deltas) <= kWindow /\ Len(roverIv.deltas) <= kWindow
  /\ pairs \in Seq(Vals(baseFile) \X Vals(roverFile))

DualStart(files, rinex, sampling) ==
  /\ baseFile = files[1] /\ roverFile = files[2]
  /\ baseRinex = rinex[1] /\ roverRinex = rinex[2]
  /\ sampleInterval = sampling
  /\ opened = FALSE /\ over = FALSE
  /\ basePos = 0 /\ roverPos = 0
  /\ haveBase = FALSE /\ haveRover = FALSE
  /\ baseIv = reset /\ roverIv = reset
  /\ pairs = <<>>

DualInit ==
  \E b \in BaseFiles, r \in RoverFiles, bIs, rIs \in BOOLEAN, sampling \in Intervals :
    DualStart(<<b, r>>, <<bIs, rIs>>, sampling)

openDual == /\ ~opened /\ opened' = TRUE
            /\ basePos' = Skipped(baseFile, baseRinex, roverFile)
            /\ roverPos' = Skipped(roverFile, roverRinex, baseFile)
            /\ UNCHANGED <<dualInput, haveBase, haveRover, baseIv, roverIv, pairs, over>>

\* Slip: a difference of exactly the window is taken for a miss.
NearStrictly == 2 * DualAbs(base - rover) < pairWindow(baseIv, roverIv)

\* What next does at the loop head: ensurePrimed, then classify.
Near == 2 * DualAbs(base - rover) <= pairWindow(baseIv, roverIv)
WantBase  == haveBase => haveRover /\ ~Near /\ base < rover
WantRover == haveBase /\ (haveRover => ~Near /\ base >= rover)

stepBase == /\ opened /\ ~over /\ WantBase
            /\ basePos < Len(baseFile)
            /\ basePos' = basePos + 1
            /\ haveBase' = TRUE
            /\ baseIv' = observe(baseIv, baseFile[basePos + 1])
            /\ UNCHANGED <<dualInput, opened, roverPos, haveRover, roverIv, pairs, over>>

stepRover == /\ opened /\ ~over /\ WantRover
             /\ roverPos < Len(roverFile)
             /\ roverPos' = roverPos + 1
             /\ haveRover' = TRUE
             /\ roverIv' = observe(roverIv, roverFile[roverPos + 1])
             /\ UNCHANGED <<dualInput, opened, basePos, haveBase, baseIv, pairs, over>>

\* The file is exhausted (or no longer parses): the head is dropped and next ends.
BaseEnds == /\ opened /\ ~over /\ WantBase
            /\ basePos = Len(baseFile)
            /\ haveBase' = FALSE /\ over' = TRUE
            /\ UNCHANGED <<dualInput, opened, basePos, roverPos, haveRover, baseIv, roverIv, pairs>>

RoverEnds == /\ opened /\ ~over /\ WantRover
             /\ roverPos = Len(roverFile)
             /\ haveRover' = FALSE /\ over' = TRUE
             /\ UNCHANGED <<dualInput, opened, basePos, roverPos, haveBase, baseIv, roverIv, pairs>>

Pair == /\ opened /\ ~over /\ haveBase /\ haveRover /\ Near
        /\ pairs' = Append(pairs, <<base, rover>>)
        /\ haveBase' = FALSE /\ haveRover' = FALSE
        /\ UNCHANGED <<dualInput, opened, basePos, roverPos, baseIv, roverIv, over>>

DualOver == over /\ UNCHANGED dualVars

DualNext == openDual \/ stepBase \/ stepRover \/ BaseEnds \/ RoverEnds \/ Pair \/ DualOver

DualSpec == DualInit /\ [][DualNext]_dualVars

-----------------------------------------------------------------------------
(* Properties. *)

Decimated(time) == sampleInterval > 0 /\ (time % Week) % sampleInterval # 0

\* Consecutive epochs of the file are never closer than g, and exactly g apart if even.
Spaced(file, g) == \A i \in 1 .. Len(file) - 1 : file[i + 1] - file[i] >= g
Even(file, g)   == \A i \in 1 .. Len(file) - 1 : file[i + 1] - file[i] = g
EvenSpacing == {g \in 1 .. Week : /\ Spaced(baseFile, g) /\ Spaced(roverFile, g)
                                  /\ Even(baseFile, g) \/ Even(roverFile, g)}

\* Pairing by a learnt window never joins an epoch to a neighbour of its true partner:
\* if one station logs evenly and the other no denser, nobody in the base file is
\* strictly nearer to the rover epoch of a pair, nor in the rover file to the base epoch.
PairsAreNearest ==
  EvenSpacing # {} /\ sampleInterval = 0 =>
    \A p \in Vals(pairs) :
      /\ \A b \in Vals(baseFile) : DualAbs(b - p[2]) >= DualAbs(p[1] - p[2])
      /\ \A r \in Vals(roverFile) : DualAbs(p[1] - r) >= DualAbs(p[1] - p[2])

\* No common epoch gets lost, across gaps, before the interval is known, and over the
\* end of the week: once both stations have been read past it, it has been paired with
\* itself (epochs that opening the files skipped excepted).
CommonEpochsPaired ==
  over /\ EvenSpacing # {} /\ sampleInterval = 0 =>
    \A i \in Skipped(baseFile, baseRinex, roverFile) + 1 .. Len(baseFile) :
      \A j \in Skipped(roverFile, roverRinex, baseFile) + 1 .. Len(roverFile) :
        baseFile[i] = roverFile[j] => <<baseFile[i], roverFile[j]>> \in Vals(pairs)

\* gnss.ini: sample_interval thins the data.  Then a pair that survives the decimator
\* joins a rover epoch to the same base epoch when the base station has it.
ThinnedPairsAreExact ==
  \A p \in Vals(pairs) : ~Decimated(p[2]) /\ p[2] \in Vals(baseFile) => p[1] = p[2]

\* The pairing is right both ways: what is paired is nearest, and what can be
\* paired is.
PairingIsRight == PairsAreNearest /\ CommonEpochsPaired

=============================================================================
