---------------------------- MODULE ImuDetect ----------------------------
(***************************************************************************)
(* ImuCalibrator: detect cuts the log of a turntable into rests and turns, *)
(* and calibrate divides the counts of the turns by the angle turned.  A   *)
(* log is the runs of samples of one class (the loop over key[] has been   *)
(* through); a class is 0..5 for a rest with that axis and sign up, 6..11  *)
(* for a turn about that axis and sign.  One absorption is one step.       *)
(***************************************************************************)
EXTENDS Integers, Sequences, SequencesExt, FiniteSetsExt

CONSTANTS CalLogs,     \* the logs: sequences of records [key, len, turned]
          CalMinLen    \* detect: the samples of the shortest segment

VARIABLES calLog,      \* the log, as first cut
          calRuns,     \* runs: records [first, last, key], first and last in calLog
          calSegs      \* detect's result: records [first, last, isStatic, dir], or <<>>

calVars == <<calLog, calRuns, calSegs>>

CalStart(entries) ==
    /\ calLog = entries
    /\ calRuns = [i \in DOMAIN calLog |-> [first |-> i, last |-> i, key |-> calLog[i].key]]
    /\ calSegs = <<>>

CalInit == \E entries \in CalLogs : CalStart(entries)

CalCount(r) == FoldFunctionOnSet(+, 0, [i \in DOMAIN calLog |-> calLog[i].len], r.first..r.last)

CalShort(k) == CalCount(calRuns[k]) < CalMinLen

\* As detect would be if a short run went to its shorter neighbour.
CalToShorter(k) ==
    \/ k = Len(calRuns)
    \/ k > 1 /\ CalCount(calRuns[k - 1]) <= CalCount(calRuns[k + 1])

\* toLeft: a short run goes to the longer neighbour, the left one of equals.
CalToLeft(k) ==
    \/ k = Len(calRuns)
    \/ k > 1 /\ CalCount(calRuns[k - 1]) >= CalCount(calRuns[k + 1])

\* One pass of the absorbing loop: the first short run that has a neighbour
\* is joined to it, under the neighbour's key.
CalAbsorb ==
    /\ calSegs = <<>> /\ Len(calRuns) > 1
    /\ \E k \in DOMAIN calRuns :
          /\ CalShort(k)
          /\ \A j \in 1..(k - 1) : ~CalShort(j)
          /\ calRuns' = IF CalToLeft(k)
                        THEN RemoveAt([calRuns EXCEPT ![k - 1].last = calRuns[k].last], k)
                        ELSE RemoveAt([calRuns EXCEPT ![k + 1].first = calRuns[k].first], k)
    /\ UNCHANGED <<calLog, calSegs>>

\* The mean of a segment's samples on axis, as a sum: of the gyro if turns, in
\* which a rest adds nothing, and else of the accelerometer, in which a
\* turning knock adds nothing either way.
CalSum(r, axis, turns) ==
    LET on == {i \in r.first..r.last : (calLog[i].key \div 2) = axis + (IF turns THEN 3 ELSE 0)}
    IN FoldFunctionOnSet(+, 0,
          [i \in DOMAIN calLog |-> IF calLog[i].key % 2 = 0 THEN calLog[i].len ELSE -calLog[i].len], on)

CalAbs(n) == IF n < 0 THEN -n ELSE n

\* axisKey: the axis of the largest magnitude, the first of equals, and its sign.
CalAxisKey(a) ==
    LET ax == CHOOSE x \in 0..2 : /\ \A y \in 0..2 : CalAbs(a[y]) <= CalAbs(a[x])
                                  /\ \A y \in 0..(x - 1) : CalAbs(a[y]) < CalAbs(a[x])
    IN IF a[ax] >= 0 THEN 2 * ax ELSE 2 * ax + 1

\* The last loop of detect: the kind of a run by its key, its direction by
\* the mean of its samples.
CalSegment(r) ==
    [first |-> r.first, last |-> r.last, isStatic |-> r.key < 6,
     dir |-> CalAxisKey([x \in 0..2 |-> CalSum(r, x, r.key >= 6)])]

CalClassify ==
    /\ calSegs = <<>>
    /\ Len(calRuns) = 1 \/ \A k \in DOMAIN calRuns : ~CalShort(k)
    /\ calSegs' = [k \in DOMAIN calRuns |-> CalSegment(calRuns[k])]
    /\ UNCHANGED <<calLog, calRuns>>

CalNext == CalAbsorb \/ CalClassify

CalSpec == CalInit /\ [][CalNext]_calVars

----------------------------------------------------------------------------
(* calibrate.                                                              *)

\* The counts of axis x (s1 - s2) and the number of turns they are divided
\* by: turned is what the table turned during a run, in halves of turnAngle.
CalGyro(x) ==
    LET mine == {k \in DOMAIN calSegs : ~calSegs[k].isStatic /\ calSegs[k].dir \div 2 = x}
        counts == [k \in DOMAIN calSegs |->
                     FoldFunctionOnSet(+, 0, [i \in DOMAIN calLog |-> calLog[i].turned],
                                       calSegs[k].first..calSegs[k].last)]
    IN [counts |-> FoldFunctionOnSet(+, 0, [k \in mine |-> CalAbs(counts[k])], mine),
        nSeg |-> Cardinality(mine)]

----------------------------------------------------------------------------
(* Properties.                                                             *)

CalSolid(i) == calLog[i].len >= CalMinLen

\* Every rest and every turn of the table is found, once, whole, in order and
\* with its own direction, and the knocks between them, shorter than the
\* shortest segment, make none of their own.
CalTurnsFound ==
    calSegs # <<>> =>
        LET solid == SelectSeq([i \in DOMAIN calLog |-> i], CalSolid)
        IN /\ Len(calSegs) = Len(solid)
           /\ \A k \in DOMAIN solid :
                 /\ solid[k] \in calSegs[k].first..calSegs[k].last
                 /\ calSegs[k].isStatic = (calLog[solid[k]].key < 6)
                 /\ calSegs[k].dir = calLog[solid[k]].key % 6

\* The scale of the gyro is right: the counts of an axis are those of as
\* many whole turns of the table as calibrate divides them by.
CalScaleExact ==
    \A x \in 0..2 : CalGyro(x).counts = 2 * CalGyro(x).nSeg
=============================================================================
