--------------------------- MODULE AlignSeries ---------------------------
(***************************************************************************)
(* The series of the static alignment: AlignStream::step folds each sample *)
(* into a running mean over the window, onSample keeps what a full window  *)
(* gave, OnlineDecimator thins it for the charts while it comes in, and    *)
(* exportAlignPerSec sums it up by the second.  A sample is one number in  *)
(* place of the two vectors whose means alignDCM turns into an attitude.   *)
(***************************************************************************)
EXTENDS Integers, Sequences, SequencesExt, FiniteSets

CONSTANTS AliWin,      \* par.win
          AliMaxPts,   \* OnlineDecimator::maxPts
          AliValues,   \* the readings of the sensor
          AliRate,     \* samples in a second
          AliSamples   \* bound: samples read

ASSUME AliAssumption ==
    /\ AliWin \in Nat \ {0} /\ AliMaxPts \in Nat \ {0} /\ AliRate \in Nat \ {0}
    /\ AliSamples \in Nat

VARIABLES aliRead,     \* the readings so far
          aliMean,     \* AlignStream: AliUnit times the mean
          aliSeries,   \* seriesLocal: records [tow, mean]
          aliDec       \* OnlineDecimator: [buf, stride, counter], buf of places in aliSeries

aliVars == <<aliRead, aliMean, aliSeries, aliDec>>

\* Means are exact in this unit: a window of two halves at most AliSamples times.
AliUnit == 2 ^ AliSamples

AliInit ==
    /\ aliRead = <<>> /\ aliMean = 0 /\ aliSeries = <<>>
    /\ aliDec = [buf |-> <<>>, stride |-> 1, counter |-> 0]

\* As push would be if it kept the odd places.
AliHalveOdd(d) ==
    [d EXCEPT !.buf = [i \in 1..(Len(d.buf) \div 2) |-> d.buf[2 * i]], !.stride = 2 * @]

\* OnlineDecimator::push of a full buffer: every second point goes.
AliHalve(d) ==
    [d EXCEPT !.buf = [i \in 1..(Len(d.buf) \div 2) |-> d.buf[2 * i - 1]], !.stride = 2 * @]

AliDivides(m, n) == m * (n \div m) = n

\* OnlineDecimator::push.
AliPush(d, p) ==
    LET e == [d EXCEPT !.buf = IF AliDivides(d.stride, d.counter) THEN Append(@, p) ELSE @,
                       !.counter = @ + 1]
    IN IF Len(e.buf) >= 2 * AliMaxPts THEN AliHalve(e) ELSE e

\* AlignStream::step: how many samples the new one is averaged with.
AliWeight(count) ==
    LET lo == IF count >= AliWin THEN count - AliWin + 1 ELSE 0 IN count - lo + 1

\* onSample: the step of the stream; what it gives is kept once the window
\* has been full.
AliSample ==
    /\ Len(aliRead) < AliSamples
    /\ \E x \in AliValues :
          LET mean == aliMean + (x * AliUnit - aliMean) \div AliWeight(Len(aliRead))
              full == Len(aliRead) + 1 >= AliWin
          IN /\ aliRead' = Append(aliRead, x)
             /\ aliMean' = mean
             /\ aliSeries' = IF full THEN Append(aliSeries, [tow |-> Len(aliRead) + 1, mean |-> mean])
                             ELSE aliSeries
             /\ aliDec' = IF full THEN AliPush(aliDec, Len(aliSeries) + 1) ELSE aliDec

AliNext == AliSample

AliSpec == AliInit /\ [][AliNext]_aliVars

\* exportAlignPerSec: a row for each second, with how many samples it sums up.
AliSecond(s) == s.tow \div AliRate

AliRow(rows, p) ==
    IF rows # <<>> /\ Last(rows).sec = AliSecond(p)
    THEN [rows EXCEPT ![Len(rows)] = [sec |-> AliSecond(p), n |-> Last(rows).n + 1]]
    ELSE Append(rows, [sec |-> AliSecond(p), n |-> 1])

AliPerSec(s) ==
    LET upto[k \in 0..Len(s)] == IF k = 0 THEN <<>> ELSE AliRow(upto[k - 1], s[k])
    IN upto[Len(s)]

----------------------------------------------------------------------------
(* Properties.                                                             *)

\* The points of the chart are every stride-th of the series from the first,
\* however often the buffer was halved, and reach to within a stride of its
\* end; the rows by the second take in every attitude once, a second in one row.
AliPointsRegular ==
    /\ aliDec.buf = [i \in 1..Len(aliDec.buf) |-> (i - 1) * aliDec.stride + 1]
    /\ Len(aliSeries) - Len(aliDec.buf) * aliDec.stride \in (1 - aliDec.stride)..0
    /\ LET rows == AliPerSec(aliSeries)
           of(sec) == {k \in DOMAIN aliSeries : AliSecond(aliSeries[k]) = sec}
       IN /\ \A i, j \in DOMAIN rows : i < j => rows[i].sec < rows[j].sec
          /\ {rows[i].sec : i \in DOMAIN rows} = {AliSecond(aliSeries[k]) : k \in DOMAIN aliSeries}
          /\ \A i \in DOMAIN rows : rows[i].n = Cardinality(of(rows[i].sec))

\* The page's "sliding window": an attitude of the series is the mean of the
\* last AliWin samples and of none before them.
AliWindowSlides ==
    \A i \in DOMAIN aliSeries :
        LET last == aliSeries[i].tow
            sum == FoldFunctionOnSet(+, 0, aliRead, (last - AliWin + 1)..last)
        IN aliSeries[i].mean * AliWin = sum * AliUnit
=============================================================================
