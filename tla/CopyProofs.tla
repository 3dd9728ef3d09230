----------------------------- MODULE CopyProofs -----------------------------
(***************************************************************************)
(* A copy made piece by piece is what it was made from: a file between a   *)
(* server and the readers, and the charts of a task that runs.             *)
(*                                                                         *)
(* Transfer, for every sequence of contents and any number of attempts:    *)
(* what downloadFile calls finished adds up, and is the remote file if     *)
(* that was not replaced since.  A .part is resumed by its length alone,   *)
(* so the proof is about what can be in one: a server that sends from the  *)
(* offset asked for leaves every chunk in its place, whichever content it  *)
(* came from, and never an older one behind a newer.  One that ignores     *)
(* offsets may leave anything behind, but such a part is not finished.     *)
(*                                                                         *)
(* CrxDecoder, for every set of epochs and events, base of the two parts   *)
(* and order of differences: what is written is what was in the original.  *)
(* The invariant is that the decoder holds the arcs the encoder wrote its  *)
(* numbers from, the clock's in the other order; the lemmas are that the   *)
(* sums over the orders undo the differences, and that two parts with a    *)
(* carry and one sign are printed as the number they make.                 *)
(*                                                                         *)
(* PlotView, for any satellites, epochs and number of edits: what the page *)
(* draws is what a build from nothing would give.  The invariant is that   *)
(* the copy of a generation is a beginning of the series of it, cut at one *)
(* epoch in every satellite's; the lemmas are that the tail of a beginning *)
(* is the rest, that a line gone on with is the line, and that a track     *)
(* that grows has each epoch once.                                         *)
(*                                                                         *)
(* AlignSeries, for any window, buffer, rate and number of samples: the    *)
(* chart of an alignment is thinned evenly, and the rows by the second     *)
(* have each attitude once.  The invariant is how far the buffer reaches   *)
(* into the series, from which the next point to be kept is known; the     *)
(* lemma on the rows needs the times of the series to be in order.         *)
(***************************************************************************)
EXTENDS Transfer, CrxDecoder, PlotView, AlignSeries, FiniteSetTheorems,
        WellFoundedInduction, TLAPS

(* Transfers.                                                              *)

InPlace(s) == \A i \in DOMAIN s : s[i][2] = i
UpTo(v, s) == \A i \in DOMAIN s : s[i][1] <= v
Ascending(s) == \A i, j \in DOMAIN s : i < j => s[i][1] <= s[j][1]
InOrder(s) == InPlace(s) /\ Ascending(s)

\* The offset of an attempt is the size of the .part until something arrives.
OffsetIsSize == pc = "perform" => base = Len(part)

\* What resuming servers left behind is in place, older contents before newer ones.
PartInOrder == kind # "noRanges" => InOrder(part)

\* Nothing is older than it can be.
NothingEarly == UpTo(version, part) /\ UpTo(version, localFile)

\* What is finished, or about to be judged so, adds up.
FinishedAddsUp == /\ pc = "done" \/ (pc = "judge" /\ Succeeded) => part # <<>> /\ AddsUp(version, part)
                  /\ localFile # <<>> => AddsUp(version, localFile)

XferIInv == TransferTypeOK /\ OffsetIsSize /\ PartInOrder /\ NothingEarly /\ FinishedAddsUp

USE TransferAssumption

\* Contents have sizes, all below MaxPart.
LEMMA ContentSize ==
  ASSUME version \in DOMAIN Sizes
  PROVE  /\ Sizes[version] \in Nat /\ Sizes[version] > 0 /\ Sizes[version] < MaxPart
         /\ version \in Nat
<1>1. DOMAIN Sizes = 1 .. Len(Sizes)
    OBVIOUS
<1>2. Sizes[version] \in Nat \ {0}
    OBVIOUS
<1>3. QED
    BY <1>1, <1>2

\* A server sends the rest of its content, chunk by chunk, from the offset it honours.
Skipped(b) == IF kind = "noRanges" THEN 0 ELSE b
SentLen(b) == IF Skipped(b) < Sizes[version] THEN Sizes[version] - Skipped(b) ELSE 0

LEMMA SentIs ==
  ASSUME version \in DOMAIN Sizes, NEW b \in Nat
  PROVE  /\ Sent(b) \in Seq(Chunks)
         /\ Len(Sent(b)) = SentLen(b) /\ SentLen(b) \in Nat
         /\ \A i \in 1 .. SentLen(b) : Sent(b)[i] = <<version, Skipped(b) + i>>
<1> DEFINE n == SentLen(b)
<1>1. /\ Skipped(b) \in Nat /\ n \in Nat /\ n <= Sizes[version]
      /\ 1 .. (Sizes[version] - Skipped(b)) = 1 .. n
      /\ \A i \in 1 .. n : Skipped(b) + i \in 1 .. Sizes[version]
    BY ContentSize DEF SentLen, Skipped
<1>2. Sent(b) = [i \in 1 .. n |-> <<version, Skipped(b) + i>>]
    BY <1>1 DEF Sent, Skipped
<1>3. \A i \in 1 .. n : <<version, Skipped(b) + i>> \in Chunks
  <2> SUFFICES ASSUME NEW i \in 1 .. n
               PROVE  Skipped(b) + i \in 1 .. MaxPart /\ Skipped(b) + i <= Sizes[version]
      BY DEF Chunks
  <2>1. QED
      BY <1>1, ContentSize
<1> HIDE DEF n
<1>4. Sent(b) \in [1 .. n -> Chunks]
    BY <1>2, <1>3
<1>5. Sent(b) \in Seq(Chunks) /\ Len(Sent(b)) = n
    BY <1>1, <1>4
<1>6. QED
    BY <1>1, <1>2, <1>5 DEF n

\* What has arrived stands behind what was there, as far as it is tracked.
LEMMA ReceivedIs ==
  ASSUME TransferTypeOK, NEW n \in 0 .. Len(Sent(base))
  PROVE  /\ Received(n) \in Seq(Chunks) /\ Len(Received(n)) <= MaxPart
         /\ Len(part) + n <= MaxPart => Len(Received(n)) = Len(part) + n
         /\ \A i \in 1 .. Len(Received(n)) :
              \/ i \in 1 .. Len(part) /\ Received(n)[i] = part[i]
              \/ /\ i - Len(part) \in 1 .. SentLen(base)
                 /\ Received(n)[i] = <<version, Skipped(base) + (i - Len(part))>>
<1> DEFINE s == Sent(base)
           first == SubSeq(s, 1, n)
           got == part \o first
           m == IF Len(got) < MaxPart THEN Len(got) ELSE MaxPart
<1>1. /\ part \in Seq(Chunks) /\ Len(part) \in Nat /\ Len(part) <= MaxPart
      /\ s \in Seq(Chunks) /\ Len(s) = SentLen(base) /\ SentLen(base) \in Nat
      /\ \A i \in 1 .. SentLen(base) : s[i] = <<version, Skipped(base) + i>>
    BY SentIs DEF TransferTypeOK
<1>2. /\ first \in Seq(Chunks) /\ Len(first) = n /\ n \in Nat
      /\ \A i \in 1 .. n : first[i] = s[i]
    BY <1>1
<1> HIDE DEF first
<1>3. /\ got \in Seq(Chunks) /\ Len(got) = Len(part) + n
      /\ \A i \in 1 .. Len(part) : got[i] = part[i]
      /\ \A i \in 1 .. Len(got) : i > Len(part) => got[i] = first[i - Len(part)]
    BY <1>1, <1>2
<1>4. Received(n) = SubSeq(got, 1, m)
    BY DEF Received, first
<1> HIDE DEF got
<1>5. m \in 0 .. Len(got) /\ m <= MaxPart /\ (Len(got) <= MaxPart => m = Len(got))
  <2>1. Len(got) \in Nat
      BY <1>3
  <2>2. QED
      BY <2>1
<1> HIDE DEF m
<1>6. /\ Received(n) \in Seq(Chunks) /\ Len(Received(n)) = m
      /\ \A i \in 1 .. m : Received(n)[i] = got[i]
  <2>1. got \in Seq(Chunks) /\ m \in 0 .. Len(got)
      BY <1>3, <1>5
  <2>2. /\ SubSeq(got, 1, m) \in Seq(Chunks) /\ Len(SubSeq(got, 1, m)) = m
        /\ \A i \in 1 .. m : SubSeq(got, 1, m)[i] = got[i]
      BY ONLY <2>1
  <2>3. QED
      BY <1>4, <2>2
<1>7. ASSUME NEW i \in 1 .. m, i > Len(part)
      PROVE  /\ i - Len(part) \in 1 .. SentLen(base)
             /\ got[i] = <<version, Skipped(base) + (i - Len(part))>>
  <2>1. i - Len(part) \in 1 .. n
      BY <1>1, <1>3, <1>5, <1>7
  <2>2. i - Len(part) \in 1 .. SentLen(base)
      BY <1>1, <2>1
  <2>3. got[i] = s[i - Len(part)]
      BY <1>2, <1>3, <1>5, <1>7, <2>1
  <2>4. QED
      BY <1>1, <2>2, <2>3
<1>8. \A i \in 1 .. m : i <= Len(part) => got[i] = part[i] /\ i \in 1 .. Len(part)
    BY <1>1, <1>3
<1>9. QED
    BY <1>1, <1>3, <1>5, <1>6, <1>7, <1>8, SMTT(30)

\* Whatever arrives of an attempt keeps a resumable part in place.
LEMMA ArrivalKeeps ==
  ASSUME XferIInv, pc = "perform", NEW n \in 0 .. Len(Sent(base))
  PROVE  /\ Received(n) \in Seq(Chunks) /\ Len(Received(n)) <= MaxPart
         /\ UpTo(version, Received(n))
         /\ kind # "noRanges" => InOrder(Received(n))
<1>1. /\ TransferTypeOK /\ base = Len(part) /\ base \in Nat /\ version \in Nat
      /\ UpTo(version, part) /\ (kind # "noRanges" => InOrder(part))
    BY ContentSize DEF XferIInv, TransferTypeOK, OffsetIsSize, NothingEarly, PartInOrder
<1> DEFINE r == Received(n)
<1>2. /\ r \in Seq(Chunks) /\ Len(r) <= MaxPart /\ DOMAIN r = 1 .. Len(r)
      /\ \A i \in 1 .. Len(r) :
              \/ i \in 1 .. Len(part) /\ r[i] = part[i]
              \/ i > Len(part) /\ r[i] = <<version, Skipped(base) + (i - Len(part))>>
  <2>1. SentLen(base) \in Nat /\ Len(part) \in Nat
      BY <1>1, SentIs DEF TransferTypeOK
  <2>2. \A i \in 1 .. Len(r) : i - Len(part) \in 1 .. SentLen(base) => i > Len(part)
      BY <2>1
  <2>3. QED
      BY <1>1, <2>2, ReceivedIs
<1> HIDE DEF r
<1>3. DOMAIN part = 1 .. Len(part)
    BY <1>1 DEF TransferTypeOK
<1>4. UpTo(version, r)
  <2>1. ASSUME NEW i \in 1 .. Len(r) PROVE r[i][1] <= version
    <3>1. CASE i \in 1 .. Len(part) /\ r[i] = part[i]
      <4>1. part[i][1] <= version
          BY <1>1, <1>3, <3>1 DEF UpTo
      <4>2. QED
          BY <3>1, <4>1
    <3>2. CASE r[i] = <<version, Skipped(base) + (i - Len(part))>>
        BY <1>1, <3>2
    <3>3. QED
        BY <1>2, <3>1, <3>2
  <2>2. QED
      BY <1>2, <2>1 DEF UpTo
<1>5. ASSUME kind # "noRanges" PROVE InPlace(r)
  <2>1. Skipped(base) = Len(part)
      BY <1>1, <1>5 DEF Skipped
  <2>2. ASSUME NEW i \in 1 .. Len(r) PROVE r[i][2] = i
    <3>1. CASE i \in 1 .. Len(part) /\ r[i] = part[i]
        BY <1>1, <1>3, <1>5, <3>1 DEF InPlace, InOrder
    <3>2. CASE i > Len(part) /\ r[i] = <<version, Skipped(base) + (i - Len(part))>>
        BY <1>1, <2>1, <3>2
    <3>3. QED
        BY <1>2, <3>1, <3>2
  <2>3. QED
      BY <1>2, <2>2 DEF InPlace
<1>6. ASSUME kind # "noRanges", NEW i \in 1 .. Len(r), NEW j \in 1 .. Len(r), i < j
      PROVE  r[i][1] <= r[j][1]
  <2>1. r[i][1] <= version
      BY <1>2, <1>4 DEF UpTo
  <2>2. CASE j \in 1 .. Len(part) /\ r[j] = part[j]
    <3>1. i \in 1 .. Len(part) /\ ~(i > Len(part))
        BY <1>1, <1>6, <2>2
    <3>2. r[i] = part[i]
        BY <1>1, <1>2, <3>1
    <3>3. part[i][1] <= part[j][1]
        BY <1>1, <1>3, <1>6, <2>2, <3>1 DEF InOrder, Ascending
    <3>4. QED
        BY <2>2, <3>2, <3>3
  <2>3. CASE r[j] = <<version, Skipped(base) + (j - Len(part))>>
      BY <2>1, <2>3
  <2>4. QED
      BY <1>2, <2>2, <2>3
<1>7. kind # "noRanges" => InOrder(r)
    BY <1>2, <1>5, <1>6 DEF InOrder, Ascending
<1>8. QED
    BY <1>2, <1>4, <1>7 DEF r

\* A part in order is no longer than the content its last chunk is of, and adds up when
\* the server has nothing beyond it.
LEMMA NothingBeyond ==
  ASSUME TransferTypeOK, part # <<>>, InOrder(part), UpTo(version, part),
         Sizes[version] <= Len(part)
  PROVE  AddsUp(version, part)
<1> DEFINE last == part[Len(part)]
<1>1. Len(part) \in 1 .. MaxPart /\ DOMAIN part = 1 .. Len(part) /\ Len(part) \in DOMAIN part
    BY DEF TransferTypeOK
<1>2. last \in Chunks
    BY <1>1 DEF TransferTypeOK
<1>3. /\ last[1] \in DOMAIN Sizes /\ last[2] <= Sizes[last[1]]
      /\ last[2] = Len(part) /\ last[1] <= version
    BY <1>1, <1>2 DEF Chunks, InOrder, InPlace, UpTo
<1>4. DOMAIN Sizes = 1 .. Len(Sizes) /\ Len(Sizes) \in Nat /\ Sizes[last[1]] \in Nat
    BY <1>3
<1> HIDE DEF last
<1>5. CASE last[1] = version
  <2>1. Len(part) = Sizes[last[1]]
      BY <1>1, <1>3, <1>4, <1>5
  <2>2. QED
      BY <2>1 DEF last, AddsUp, InOrder, InPlace, Ascending
<1>6. CASE last[1] # version
  <2>1. version \in DOMAIN Sizes /\ last[1] < version /\ version <= version
      BY <1>3, <1>4, <1>6 DEF TransferTypeOK
  <2>2. QED
      BY <2>1 DEF last, AddsUp, InOrder, InPlace, Ascending
<1>7. QED
    BY <1>5, <1>6

\* A transfer that ends well and is not a restart has made a part that adds up.
LEMMA CompleteAddsUp ==
  ASSUME XferIInv, NEW b \in 0 .. MaxPart, PerformCompletes(b), Succeeded'
  PROVE  part' # <<>> /\ AddsUp(version, part')
<1>1. /\ TransferTypeOK /\ base = Len(part) /\ base = b /\ pc = "perform"
      /\ part' = Received(Len(Sent(base))) /\ version' = version
      /\ kind = "noRanges" \/ b < Sizes[version] \/ (kind = "ftp" /\ b = Sizes[version])
      /\ UpTo(version, part) /\ (kind # "noRanges" => InOrder(part))
    BY DEF XferIInv, OffsetIsSize, NothingEarly, PartInOrder, PerformCompletes, remote
<1>2. kind = "noRanges" => b = 0
  <2> SUFFICES ASSUME kind = "noRanges", b # 0 PROVE FALSE
      OBVIOUS
  <2>1. answer'.curl = "ok" /\ answer'.code = "200" /\ base' = b
      BY <1>1 DEF PerformCompletes
  <2>2. b > 0
      OBVIOUS
  <2>3. QED
      BY <2>1, <2>2 DEF Succeeded, Restarted
<1>3. /\ Sizes[version] \in Nat /\ Sizes[version] > 0 /\ Sizes[version] < MaxPart
      /\ version \in DOMAIN Sizes /\ b \in Nat
    BY <1>1, ContentSize DEF TransferTypeOK
<1>4. b <= Sizes[version] /\ b + SentLen(b) = Sizes[version]
    BY <1>1, <1>2, <1>3 DEF SentLen, Skipped
<1>5. Len(Sent(b)) = SentLen(b) /\ SentLen(b) \in Nat
    BY <1>3, SentIs
<1>6. Len(part') = Sizes[version] /\ part' \in Seq(Chunks)
    BY <1>1, <1>3, <1>4, <1>5, ReceivedIs
<1>7. DOMAIN part' = 1 .. Len(part')
    BY ONLY <1>6
<1>8. \A i \in 1 .. Len(part') :
         \/ i \in 1 .. Len(part) /\ part'[i] = part[i]
         \/ /\ i - Len(part) \in 1 .. SentLen(base)
            /\ part'[i] = <<version, Skipped(base) + (i - Len(part))>>
  <2>1. Len(Sent(base)) \in 0 .. Len(Sent(base))
      BY <1>1, <1>5
  <2>2. QED
      BY ONLY <1>1, <2>1, ReceivedIs
<1>9. CASE b < Sizes[version]
  <2>1. part'[Len(part')][1] = version /\ part' # <<>>
    <3>1. Len(part') \in 1 .. Len(part') /\ Len(part') \notin 1 .. Len(part)
        BY <1>1, <1>3, <1>6, <1>9
    <3>2. QED
        BY <1>6, <1>8, <3>1
  <2>2. InOrder(part')
    <3>1. CASE kind = "noRanges"
      <4>1. Len(part) = 0 /\ Skipped(base) = 0
          BY <1>1, <1>2, <3>1 DEF Skipped
      <4>2. \A i \in 1 .. Len(part') : part'[i] = <<version, i>>
          BY <1>6, <1>8, <4>1
      <4>3. version <= version
          BY <1>3, ContentSize
      <4>4. QED
          BY <1>7, <4>2, <4>3 DEF InOrder, InPlace, Ascending
    <3>2. CASE kind # "noRanges"
        BY <1>1, <1>5, <3>2, ArrivalKeeps
    <3>3. QED
        BY <3>1, <3>2
  <2>3. QED
      BY <1>6, <2>1, <2>2 DEF AddsUp, InOrder, InPlace, Ascending
<1>10. CASE b = Sizes[version]
  <2>1. kind # "noRanges" /\ Len(part') = Len(part) /\ SentLen(base) = 0
      BY <1>1, <1>2, <1>3, <1>4, <1>5, <1>6, <1>10
  <2>2. \A i \in 1 .. Len(part) : part'[i] = part[i]
    <3>1. 1 .. SentLen(base) = {}
        BY <2>1
    <3>2. QED
        BY ONLY <1>8, <2>1, <3>1
  <2>3. part \in Seq(Chunks)
      BY <1>1 DEF TransferTypeOK
  <2>4. part' = part
    <3>1. part' \in Seq(Chunks)
        BY ONLY <1>6
    <3>2. Len(part') = Len(part)
        BY ONLY <2>1
    <3>3. QED
        BY ONLY <2>2, <2>3, <3>1, <3>2, SMTT(30)
  <2>5. part # <<>>
    <3>1. Len(part) > 0
        BY <1>1, <1>3, <1>10
    <3>2. QED
        BY ONLY <2>3, <3>1
  <2>6. AddsUp(version, part)
    <3>1. Sizes[version] <= Len(part) /\ InOrder(part)
        BY <1>1, <1>3, <1>10, <2>1
    <3>2. QED
        BY ONLY <1>1, <2>5, <3>1, NothingBeyond
  <2>7. QED
      BY <2>4, <2>5, <2>6
<1>11. QED
    BY <1>3, <1>4, <1>9, <1>10

\* What adds up still does when the file is replaced once more.
LEMMA StillAddsUp ==
  ASSUME NEW v \in Nat, NEW s, AddsUp(v, s)
  PROVE  AddsUp(v + 1, s)
<1>1. \A w \in DOMAIN Sizes : w <= v => w <= v + 1
  <2>1. DOMAIN Sizes \subseteq Nat
      BY SMTT(30)
  <2>2. QED
      BY <2>1
<1>2. QED
    BY <1>1 DEF AddsUp

LEMMA XferStepKeepsIInv == XferIInv /\ [XferNext]_xferVars => XferIInv'
<1> SUFFICES ASSUME XferIInv, [XferNext]_xferVars PROVE XferIInv'
    OBVIOUS
<1> USE DEF XferIInv, TransferTypeOK, OffsetIsSize, PartInOrder, NothingEarly, FinishedAddsUp,
        Succeeded, Restarted, remote, Kinds
<1>1. CASE Request
    BY <1>1 DEF Request
<1>2. CASE Begin
    BY <1>2 DEF Begin, NoAnswer, Answers
<1>3. CASE GiveUp
    BY <1>3 DEF GiveUp
<1>4. CASE JudgeCancelled
    BY <1>4 DEF JudgeCancelled, Judge
<1>5. CASE JudgeDone
    BY <1>5 DEF JudgeDone, Judge
<1>6. CASE JudgeRetry
    BY <1>6 DEF JudgeRetry, Judge, NextPart, InOrder, InPlace, Ascending, UpTo
<1>7. CASE JudgeFailed
    BY <1>7 DEF JudgeFailed, Judge, NextPart, InOrder, InPlace, Ascending, UpTo
<1>8. ASSUME NEW b \in 0 .. MaxPart, PerformCompletes(b) PROVE XferIInv'
  <2>1. /\ part' \in Seq(Chunks) /\ Len(part') <= MaxPart /\ UpTo(version, part')
        /\ kind # "noRanges" => InOrder(part')
    <3>1. /\ pc = "perform" /\ Len(Sent(base)) \in 0 .. Len(Sent(base))
          /\ part' = Received(Len(Sent(base)))
        BY <1>8, SentIs DEF PerformCompletes
    <3>2. QED
        BY <3>1, ArrivalKeeps
  <2>2. Succeeded' => part' # <<>> /\ AddsUp(version, part')
      BY <1>8, CompleteAddsUp
  <2>3. answer' \in Answers
      BY <1>8 DEF PerformCompletes, Answers
  <2>4. QED
      BY <1>8, <2>1, <2>2, <2>3 DEF PerformCompletes
<1>9. CASE PerformBreaks
  <2>1. /\ part' \in Seq(Chunks) /\ Len(part') <= MaxPart /\ UpTo(version, part')
        /\ kind # "noRanges" => InOrder(part')
    <3>1. PICK n \in 0 .. Sizes[version] : (n = 0 \/ n < Len(Sent(base))) /\ part' = Received(n)
        BY <1>9 DEF PerformBreaks
    <3>2. Len(Sent(base)) \in Nat /\ Sizes[version] \in Nat
        BY SentIs, ContentSize
    <3>4. n \in 0 .. Len(Sent(base))
        BY <3>1, <3>2
    <3>5. pc = "perform"
        BY <1>9 DEF PerformBreaks
    <3>3. QED
        BY <3>1, <3>4, <3>5, ArrivalKeeps
  <2>2. answer' \in Answers /\ ~Succeeded'
      BY <1>9 DEF PerformBreaks, Answers
  <2>3. QED
      BY <1>9, <2>1, <2>2 DEF PerformBreaks
<1>10. CASE PerformRefused
  <2>1. answer' \in Answers /\ ~Succeeded'
      BY <1>10 DEF PerformRefused, Answers
  <2>2. QED
      BY <1>10, <2>1 DEF PerformRefused
<1>11. CASE PerformGone
    BY <1>11 DEF PerformGone, Answers
<1>12. CASE Rename
    BY <1>12 DEF Rename, InOrder, InPlace, Ascending, UpTo
<1>13. CASE RenameFails
    BY <1>13 DEF RenameFails
<1>14. CASE Republish
  <2>1. version' \in DOMAIN Sizes /\ version \in Nat /\ version' = version + 1
      BY <1>14, ContentSize DEF Republish
  <2>2. NothingEarly'
    <3>1. \A s \in Seq(Chunks) : UpTo(version, s) => UpTo(version', s)
      <4> SUFFICES ASSUME NEW s \in Seq(Chunks), UpTo(version, s), NEW i \in DOMAIN s
                   PROVE  s[i][1] <= version'
          BY DEF UpTo
      <4>1. s[i][1] \in Nat /\ s[i][1] <= version
        <5>1. s[i] \in Chunks
            OBVIOUS
        <5>2. DOMAIN Sizes \subseteq Nat
            BY SMTT(30)
        <5>3. QED
            BY <5>1, <5>2 DEF Chunks, UpTo
      <4>2. QED
          BY <2>1, <4>1
    <3>2. QED
        BY <1>14, <3>1 DEF Republish
  <2>3. FinishedAddsUp'
      BY <1>14, <2>1, StillAddsUp DEF Republish
  <2>4. QED
      BY <1>14, <2>1, <2>2, <2>3 DEF Republish
<1>15. CASE XferShutdown
    BY <1>15 DEF XferShutdown
<1>16. CASE Restart
  <2>1. xferCancel' \in BOOLEAN
      BY <1>16, Zenon DEF Restart
  <2>2. answer' \in Answers
      BY <1>16 DEF Restart, NoAnswer, Answers
  <2>3. base' \in 0 .. MaxPart /\ attempt' \in 1 .. retries
      BY <1>16 DEF Restart
  <2>4. QED
      BY <1>16, <2>1, <2>2, <2>3 DEF Restart
<1>17. CASE UNCHANGED xferVars
    BY <1>17 DEF xferVars
<1>19. CASE PerformNothingLeft
  <2>1. /\ base = Len(part) /\ base > 0 /\ part \in Seq(Chunks) /\ Sizes[version] <= Len(part)
        /\ InOrder(part) /\ UpTo(version, part)
      BY <1>19 DEF PerformNothingLeft
  <2>2. part # <<>> /\ AddsUp(version, part)
      BY <2>1, NothingBeyond
  <2>3. answer' \in Answers
      BY <1>19 DEF PerformNothingLeft, Answers
  <2>4. QED
      BY <1>19, <2>2, <2>3 DEF PerformNothingLeft
<1>18. QED
    BY <1>1, <1>2, <1>3, <1>4, <1>5, <1>6, <1>7, <1>8, <1>9, <1>10, <1>11, <1>12, <1>13, <1>14,
       <1>15, <1>16, <1>17, <1>19 DEF XferNext, downloadFile, Perform

LEMMA XferInitIInv == XferInit => XferIInv
<1> SUFFICES ASSUME XferInit PROVE XferIInv
    OBVIOUS
<1>1. DOMAIN part = {} /\ DOMAIN localFile = {} /\ 1 \in DOMAIN Sizes
    BY DEF XferInit
<1>2. TransferTypeOK
  <2>1. xferCancel \in BOOLEAN
      BY Zenon DEF XferInit
  <2>2. answer \in Answers
      BY DEF XferInit, NoAnswer, Answers
  <2>3. base \in 0 .. MaxPart /\ attempt \in 1 .. retries
      BY DEF XferInit
  <2>4. QED
      BY <1>1, <2>1, <2>2, <2>3 DEF XferInit, TransferTypeOK, Kinds
<1>3. QED
    BY <1>1, <1>2 DEF XferInit, XferIInv, OffsetIsSize, PartInOrder, NothingEarly,
                      FinishedAddsUp, InOrder, InPlace, Ascending, UpTo

\* What is in a .part at each point, whoever left it there.
THEOREM TransferInvariant == XferSpec => []XferIInv
BY XferInitIInv, XferStepKeepsIInv, PTL DEF XferSpec

\* Every variable keeps its type, the .part its bound.
THEOREM TransferIsTyped == XferSpec => []TransferTypeOK
<1>1. XferIInv => TransferTypeOK
    BY DEF XferIInv
<1>2. QED
    BY <1>1, TransferInvariant, PTL

\* What downloadFile calls finished adds up: every chunk in place, older contents first,
\* and no chunk missing of the content it ends with, unless a later one was no longer.
THEOREM FinishedFileAddsUp == XferSpec => []LocalAddsUp
<1>1. XferIInv => LocalAddsUp
    BY DEF XferIInv, FinishedAddsUp, LocalAddsUp
<1>2. QED
    BY <1>1, TransferInvariant, PTL

\* A finished file whose first chunk is of the content the server still has is that
\* content, whole, whatever broke, resumed or restarted on the way.
SinceUnreplaced == localFile # <<>> /\ localFile[1][1] = version
IsTheRemoteFile == localFile = [i \in 1 .. Sizes[version] |-> <<version, i>>]

THEOREM UnreplacedIsWhole == XferSpec => [](SinceUnreplaced => IsTheRemoteFile)
<1>1. XferIInv => (SinceUnreplaced => IsTheRemoteFile)
  <2> SUFFICES ASSUME XferIInv, localFile # <<>>, localFile[1][1] = version
               PROVE  IsTheRemoteFile
      BY DEF SinceUnreplaced
  <2>1. /\ localFile \in Seq(Chunks) /\ DOMAIN localFile = 1 .. Len(localFile)
        /\ AddsUp(version, localFile) /\ UpTo(version, localFile)
        /\ version \in Nat /\ Len(localFile) \in Nat /\ Len(localFile) >= 1
      BY ContentSize DEF XferIInv, TransferTypeOK, FinishedAddsUp, NothingEarly
  <2>2. DOMAIN Sizes \subseteq Nat
      BY SMTT(30)
  <2>3. ASSUME NEW i \in 1 .. Len(localFile) PROVE localFile[i] = <<version, i>>
    <3>1. localFile[i] \in Chunks
        BY <2>1
    <3>2. localFile[i] = <<localFile[i][1], localFile[i][2]>> /\ localFile[i][1] \in Nat
        BY <2>2, <3>1 DEF Chunks
    <3>3. localFile[i][2] = i
        BY <2>1 DEF AddsUp
    <3>4. localFile[i][1] <= version
        BY <2>1 DEF UpTo
    <3>5. version <= localFile[i][1]
      <4>1. CASE i = 1
          BY <2>1, <4>1
      <4>2. CASE i > 1
        <5>1. 1 \in DOMAIN localFile /\ i \in DOMAIN localFile /\ 1 < i
            BY <2>1, <4>2
        <5>2. localFile[1][1] <= localFile[i][1]
            BY ONLY <2>1, <5>1 DEF AddsUp
        <5>3. QED
            BY ONLY <5>2, localFile[1][1] = version
      <4>3. QED
          BY <4>1, <4>2
    <3>6. localFile[i][1] = version
        BY <2>1, <3>2, <3>4, <3>5
    <3>7. QED
        BY <3>2, <3>3, <3>6
  <2>4. localFile[Len(localFile)][1] = version
      BY <2>1, <2>3
  <2>5. Len(localFile) = Sizes[version]
      BY <2>1, <2>2, <2>4 DEF AddsUp
  <2>6. localFile = [i \in 1 .. Len(localFile) |-> localFile[i]]
      BY <2>1
  <2>7. QED
      BY <2>3, <2>5, <2>6 DEF IsTheRemoteFile
<1>2. QED
    BY <1>1, TransferInvariant, PTL

-----------------------------------------------------------------------------
(* Compact files.                                                          *)

LEMMA BaseIs == CrxBase \in Nat /\ CrxBase > 1 /\ CrxArc \in Nat
BY CrxAssumption DEF CrxAssumption

HIDE TransferAssumption
USE BaseIs

LEMMA LeastNat ==
  ASSUME NEW S \in SUBSET Nat, S # {}
  PROVE  \E x \in S : \A y \in S : x <= y
<1> DEFINE R == OpToRel(<, Nat)
<1>1. IsWellFoundedOn(R, Nat)
    BY NatLessThanWellFounded
<1>2. PICK x \in S : \A y \in S : ~(<<y, x>> \in R)
  <2> HIDE DEF R
  <2>1. QED
      BY <1>1, WFMin
<1>3. \A y \in S : ~(y < x)
    BY <1>2 DEF OpToRel
<1>4. QED
    BY <1>3

-----------------------------------------------------------------------------
(* Numbers in two parts. *)

Parts == [u : Int, l : Int]
Val(x) == x.u * CrxBase + x.l
Small(x) == -CrxBase < x.l /\ x.l < CrxBase

LEMMA QuotRem ==
  ASSUME NEW n \in Int
  PROVE  /\ Quot(n, CrxBase) \in Int /\ Rem(n, CrxBase) \in Int
         /\ n = Quot(n, CrxBase) * CrxBase + Rem(n, CrxBase)
         /\ -CrxBase < Rem(n, CrxBase) /\ Rem(n, CrxBase) < CrxBase
<1>1. \A a \in Nat : /\ a \div CrxBase \in Int
                     /\ CrxBase * (a \div CrxBase) <= a
                     /\ a < CrxBase * (a \div CrxBase) + CrxBase
    OBVIOUS
<1>2. CASE n >= 0
    BY <1>1, <1>2 DEF Quot, Rem
<1>3. CASE n < 0
  <2>1. -n \in Nat
      BY <1>3
  <2>2. DEFINE q == (-n) \div CrxBase
  <2>3. q \in Int /\ CrxBase * q <= -n /\ -n < CrxBase * q + CrxBase
      BY <1>1, <2>1
  <2>4. Quot(n, CrxBase) = -q
      BY <1>3 DEF Quot
  <2>5. Rem(n, CrxBase) = n - CrxBase * (-q)
      BY <2>4 DEF Rem
  <2> HIDE DEF q
  <2>6. QED
      BY <2>3, <2>4, <2>5
<1>4. QED
    BY <1>2, <1>3

LEMMA SplitIs ==
  ASSUME NEW n \in Int
  PROVE  Split(n) \in Parts /\ Val(Split(n)) = n /\ Small(Split(n))
<1>1. PICK q \in Int : q = Quot(n, CrxBase)
    BY QuotRem
<1>2. PICK r \in Int : r = Rem(n, CrxBase)
    BY QuotRem
<1>3. n = q * CrxBase + r /\ -CrxBase < r /\ r < CrxBase
    BY <1>1, <1>2, QuotRem
<1>4. Split(n) = [u |-> q, l |-> r]
    BY <1>1, <1>2 DEF Split
<1>5. QED
    BY <1>3, <1>4 DEF Parts, Val, Small

LEMMA PlusIs ==
  ASSUME NEW a \in Parts, NEW b \in Parts
  PROVE  Plus(a, b) \in Parts /\ Val(Plus(a, b)) = Val(a) + Val(b) /\ Small(Plus(a, b))
<1>1. PICK s \in Int : s = a.l + b.l
    BY DEF Parts
<1>2. PICK q \in Int : q = Quot(s, CrxBase)
    BY QuotRem
<1>3. PICK r \in Int : r = Rem(s, CrxBase)
    BY QuotRem
<1>4. s = q * CrxBase + r /\ -CrxBase < r /\ r < CrxBase
    BY <1>2, <1>3, QuotRem
<1>5. Plus(a, b) = [u |-> a.u + b.u + q, l |-> r]
    BY <1>1, <1>2, <1>3 DEF Plus
<1>6. a.u \in Int /\ b.u \in Int /\ a.l \in Int /\ b.l \in Int
    BY DEF Parts
<1>7. (a.u + b.u + q) * CrxBase = a.u * CrxBase + b.u * CrxBase + q * CrxBase
    BY <1>6
<1>8. Plus(a, b) \in Parts /\ Small(Plus(a, b))
    BY <1>4, <1>5, <1>6 DEF Parts, Small
<1>9. Val(Plus(a, b)) = (a.u + b.u + q) * CrxBase + r
    BY <1>5 DEF Val
<1>10. (a.u + b.u + q) * CrxBase + r = (a.u * CrxBase + a.l) + (b.u * CrxBase + b.l)
  <2>1. /\ a.u * CrxBase \in Int /\ b.u * CrxBase \in Int /\ q * CrxBase \in Int
        /\ (a.u + b.u + q) * CrxBase \in Int
      BY <1>6
  <2>2. a.l + b.l = q * CrxBase + r
      BY <1>1, <1>4
  <2>3. PICK au \in Int : au = a.u * CrxBase
      BY <2>1
  <2>4. PICK bu \in Int : bu = b.u * CrxBase
      BY <2>1
  <2>5. PICK qu \in Int : qu = q * CrxBase
      BY <2>1
  <2>6. (a.u + b.u + q) * CrxBase = au + bu + qu
      BY <1>7, <2>3, <2>4, <2>5
  <2>7. au + bu + qu + r = (au + a.l) + (bu + b.l)
      BY <1>6, <2>2, <2>5
  <2>8. QED
      BY <2>3, <2>4, <2>6, <2>7
<1>11. QED
    BY <1>8, <1>9, <1>10 DEF Val

\* Both parts with one sign are still the number.
LEMMA OneSignIs ==
  ASSUME NEW x \in Parts, Small(x)
  PROVE  /\ OneSign(x) \in Parts /\ Val(OneSign(x)) = Val(x) /\ Small(OneSign(x))
         /\ OneSign(x).u > 0 => OneSign(x).l >= 0
         /\ OneSign(x).u < 0 => OneSign(x).l <= 0
<1> x.u \in Int /\ x.l \in Int
    BY DEF Parts
<1>1. (x.u + 1) * CrxBase = x.u * CrxBase + CrxBase /\ (x.u - 1) * CrxBase = x.u * CrxBase - CrxBase
    OBVIOUS
<1>2. CASE x.u < 0 /\ x.l > 0
  <2>1. OneSign(x) = [u |-> x.u + 1, l |-> x.l - CrxBase]
      BY <1>2 DEF OneSign
  <2>2. x.u + 1 <= 0 /\ x.l - CrxBase < 0 /\ -CrxBase < x.l - CrxBase
      BY <1>2 DEF Small
  <2>3. (x.u + 1) * CrxBase + (x.l - CrxBase) = x.u * CrxBase + x.l
      BY <1>1
  <2>4. QED
      BY <2>1, <2>2, <2>3 DEF Parts, Val, Small
<1>3. CASE x.u > 0 /\ x.l < 0
    BY <1>1, <1>3 DEF OneSign, Parts, Val, Small
<1>4. CASE ~(x.u < 0 /\ x.l > 0) /\ ~(x.u > 0 /\ x.l < 0)
    BY <1>4 DEF OneSign, Parts, Val, Small
<1>5. QED
    BY <1>2, <1>3, <1>4

\* A field is printed as the number its two parts make.
LEMMA FieldPrinted ==
  ASSUME NEW x \in Parts, Small(x)
  PROVE  formatField(x) = Val(x)
<1>1. PICK y \in Parts : y = OneSign(x)
    BY OneSignIs
<1>2. /\ Val(y) = Val(x) /\ Small(y) /\ y.u \in Int /\ y.l \in Int
      /\ y.u > 0 => y.l >= 0
      /\ y.u < 0 => y.l <= 0
    BY <1>1, OneSignIs DEF Parts
<1>3. formatField(x) = Read(y.u, y.l)
    BY <1>1 DEF formatField
<1>4. (-y.u) * CrxBase = -(y.u * CrxBase)
    BY <1>2
<1>5. CASE y.u > 0
    BY <1>2, <1>3, <1>5 DEF Read, Abs, Val
<1>6. CASE y.u < 0
    BY <1>2, <1>3, <1>4, <1>6 DEF Read, Abs, Val
<1>7. CASE y.u = 0
    BY <1>2, <1>3, <1>7 DEF Read, Abs, Val
<1>8. QED
    BY <1>2, <1>5, <1>6, <1>7

\* A clock too, unless it is negative with nothing in its lower part.
LEMMA ClockPrinted ==
  ASSUME NEW x \in Parts, Small(x), ~(Val(x) < 0 /\ Rem(Val(x), CrxBase) = 0)
  PROVE  formatClock(x) = Val(x)
<1>1. PICK y \in Parts : y = OneSign(x)
    BY OneSignIs
<1>2. /\ Val(y) = Val(x) /\ Small(y) /\ y.u \in Int /\ y.l \in Int
      /\ y.u > 0 => y.l >= 0
      /\ y.u < 0 => y.l <= 0
    BY <1>1, OneSignIs DEF Parts
<1>3. PICK tmp \in Int : tmp = y.u * 10 + (IF y.l < 0 THEN -1 ELSE 1)
    BY <1>2
<1>4. formatClock(x) = (IF tmp < 0 THEN -1 ELSE 1) * (Abs(Quot(tmp, 10)) * CrxBase + Abs(y.l))
    BY <1>1, <1>3 DEF formatClock
<1>5. CASE y.u > 0
  <2>1. tmp >= 0 /\ tmp \div 10 = y.u
      BY <1>2, <1>3, <1>5
  <2>2. Quot(tmp, 10) = y.u
      BY <2>1 DEF Quot
  <2>3. QED
      BY <1>2, <1>4, <1>5, <2>1, <2>2 DEF Abs, Val
<1>6. CASE y.u < 0
  <2>1. y.l # 0
    <3> SUFFICES ASSUME y.l = 0
                 PROVE  FALSE
        OBVIOUS
    <3>1. Val(x) = y.u * CrxBase
        BY <1>2 DEF Val
    <3>2. Val(x) < 0
        BY <1>6, <3>1, <1>2
    <3>3. -Val(x) = (-y.u) * CrxBase /\ -y.u \in Nat
        BY <1>2, <1>6, <3>1
    <3>4. ((-y.u) * CrxBase) \div CrxBase = -y.u
        BY <3>3
    <3>5. Quot(Val(x), CrxBase) = y.u
      <4>1. Quot(Val(x), CrxBase) = -((-Val(x)) \div CrxBase)
          BY <3>2, <3>1, <1>2 DEF Quot
      <4>2. QED
          BY <1>2, <3>3, <3>4, <4>1
    <3>6. Rem(Val(x), CrxBase) = 0
        BY <1>2, <3>1, <3>5 DEF Rem
    <3>7. QED
        BY <3>2, <3>6
  <2>2. tmp < 0 /\ (-tmp) \div 10 = -y.u
      BY <1>2, <1>3, <1>6, <2>1
  <2>3. Quot(tmp, 10) = y.u
      BY <1>2, <2>2 DEF Quot
  <2>4. (-y.u) * CrxBase = -(y.u * CrxBase)
      BY <1>2
  <2>5. QED
      BY <1>2, <1>4, <1>6, <2>2, <2>3, <2>4 DEF Abs, Val
<1>7. CASE y.u = 0
  <2>1. Quot(tmp, 10) = 0
      BY <1>3, <1>7, <1>2 DEF Quot
  <2>2. QED
      BY <1>2, <1>3, <1>4, <1>7, <2>1 DEF Abs, Val
<1>8. QED
    BY <1>2, <1>5, <1>6, <1>7

-----------------------------------------------------------------------------
(* What is defined step by step up to a number n: there is such a function, *)
(* and whatever satisfies its equations keeps to the set of its steps.      *)

InSteps(g, n, V, v, step) ==
  g \in [0 .. n -> V] /\ g[0] = v /\ \A k \in 1 .. n : g[k] = step[<<k, g[k - 1]>>]

LEMMA StepsExist ==
  ASSUME NEW n \in Nat, NEW V, NEW v \in V, NEW step \in [(1 .. n) \X V -> V]
  PROVE  \E g : InSteps(g, n, V, v, step)
<1> DEFINE Upto(m, g) == /\ g \in [0 .. m -> V]
                         /\ g[0] = v
                         /\ \A k \in 1 .. m : g[k] = step[<<k, g[k - 1]>>]
           Bad == {m \in Nat : m <= n /\ ~\E g : Upto(m, g)}
<1>1. Bad = {}
  <2> SUFFICES ASSUME Bad # {}
               PROVE  FALSE
      OBVIOUS
  <2>1. PICK m \in Bad : \A i \in Bad : m <= i
    <3>1. Bad \subseteq Nat
        OBVIOUS
    <3>2. QED
        BY <3>1, LeastNat
  <2>2. m \in Nat /\ m <= n
      BY <2>1
  <2>3. m # 0
    <3>1. Upto(0, [k \in 0 .. 0 |-> v])
        OBVIOUS
    <3>2. QED
        BY <2>1, <3>1
  <2>4. m - 1 \in Nat /\ m - 1 <= n /\ ~(m <= m - 1)
      BY <2>2, <2>3
  <2>5. PICK g : Upto(m - 1, g)
      BY <2>1, <2>4
  <2> DEFINE h == [k \in 0 .. m |-> IF k = m THEN step[<<m, g[m - 1]>>] ELSE g[k]]
  <2>6. g[m - 1] \in V /\ step[<<m, g[m - 1]>>] \in V
      BY <2>2, <2>4, <2>5
  <2>7. h \in [0 .. m -> V] /\ h[0] = v
      BY <2>2, <2>3, <2>5, <2>6
  <2>8. ASSUME NEW k \in 1 .. m PROVE h[k] = step[<<k, h[k - 1]>>]
    <3>1. h[k - 1] = g[k - 1]
        BY <2>2
    <3>2. CASE k = m
      <4>1. h[m] = step[<<m, g[m - 1]>>]
          BY <2>2
      <4>2. QED
          BY <3>1, <3>2, <4>1
    <3>3. CASE k # m
      <4>1. k \in 1 .. m - 1
          BY <2>2, <3>3
      <4>2. h[k] = g[k]
          BY <3>3
      <4>3. QED
          BY <2>5, <3>1, <4>1, <4>2
    <3>4. QED
        BY <3>2, <3>3
  <2>9. Upto(m, h)
      BY <2>7, <2>8
  <2>10. QED
      BY <2>1, <2>9
<1>2. n \notin Bad
    BY <1>1
<1>3. QED
    BY <1>2 DEF InSteps

StaysIn(h, n, V) == \A k \in 0 .. n : h[k] \in V
StepStays(h, n, V) == h[0] \in V /\ \A k \in 1 .. n : h[k - 1] \in V => h[k] \in V

LEMMA StepsStay ==
  ASSUME NEW n \in Nat, NEW V, NEW h, StepStays(h, n, V)
  PROVE  StaysIn(h, n, V)
<1> USE DEF StaysIn, StepStays
<1> DEFINE Out == {k \in Nat : k <= n /\ h[k] \notin V}
<1>1. Out = {}
  <2> SUFFICES ASSUME Out # {}
               PROVE  FALSE
      OBVIOUS
  <2>1. PICK m \in Out : \A i \in Out : m <= i
    <3>1. Out \subseteq Nat
        OBVIOUS
    <3>2. QED
        BY <3>1, LeastNat
  <2>2. m \in Nat /\ m <= n /\ h[m] \notin V
      BY <2>1
  <2>3. m # 0
      BY <2>2
  <2>4. m \in 1 .. n /\ m - 1 \in Nat /\ m - 1 <= n /\ ~(m <= m - 1)
      BY <2>2, <2>3
  <2>5. h[m - 1] \in V
      BY <2>1, <2>4
  <2>6. QED
      BY <2>2, <2>4, <2>5
<1>2. QED
    BY <1>1

-----------------------------------------------------------------------------
(* The sums over the orders. *)

LEMMA AtIs ==
  ASSUME NEW x, x.u \in [Orders -> Int], x.l \in [Orders -> Int], NEW k \in Orders
  PROVE  At(x, k) \in Parts
BY DEF At, Parts

\* From the order of an arc down to the value, each sum is made of the one above it.
LEMMA SumsDownIs ==
  ASSUME NEW order \in Orders, NEW num \in Int,
         NEW row, order > 0 => row.u \in [Orders -> Int] /\ row.l \in [Orders -> Int]
  PROVE  /\ SumsDown(order, num, row) \in [Orders -> Parts]
         /\ SumsDown(order, num, row)[order] = Split(num)
         /\ \A k \in 0 .. order - 1 :
              SumsDown(order, num, row)[k] = Plus(SumsDown(order, num, row)[k + 1], At(row, k))
<1> DEFINE none == [u |-> 0, l |-> 0]
           step == [p \in (1 .. order) \X Parts |-> Plus(p[2], At(row, order - p[1]))]
           Sum(at) == [k \in Orders |-> IF k > order THEN none
                                        ELSE IF k = order THEN Split(num)
                                        ELSE Plus(at[k + 1], At(row, k))]
<1>1. order \in Nat /\ order <= CrxArc /\ none \in Parts
    BY DEF Orders, Parts
<1>2. step \in [(1 .. order) \X Parts -> Parts]
  <2>1. ASSUME NEW i \in 1 .. order PROVE At(row, order - i) \in Parts
    <3>1. order > 0 /\ order - i \in Orders
        BY <1>1 DEF Orders
    <3>2. QED
        BY <3>1, AtIs
  <2>2. QED
      BY <2>1, PlusIs
<1>3. PICK g : InSteps(g, order, Parts, Split(num), step)
  <2>1. Split(num) \in Parts
      BY SplitIs
  <2> HIDE DEF step
  <2>2. QED
      BY <1>1, <1>2, <2>1, StepsExist
<1>g. g \in [0 .. order -> Parts] /\ g[0] = Split(num)
      /\ \A k \in 1 .. order : g[k] = step[<<k, g[k - 1]>>]
    BY <1>3 DEF InSteps
<1> DEFINE f == [k \in Orders |-> IF k > order THEN none ELSE g[order - k]]
<1>4. f = Sum(f)
  <2>1. ASSUME NEW k \in Orders, k < order PROVE f[k] = Plus(f[k + 1], At(row, k))
    <3>0. k \in Nat /\ k < order
        BY <2>1 DEF Orders
    <3>1. /\ order - k \in 1 .. order /\ (order - k) - 1 \in 0 .. order
          /\ order - (order - k) = k /\ order - (k + 1) = (order - k) - 1
        BY <1>1, <3>0
    <3>o. k + 1 \in Orders
        BY <1>1, <3>0 DEF Orders
    <3>2. g[order - k] = Plus(g[(order - k) - 1], At(row, k))
        BY <1>g, <3>1
    <3>3. f[k] = g[order - k] /\ f[k + 1] = g[order - (k + 1)]
        BY <1>1, <3>0, <3>1, <3>o
    <3>4. QED
        BY <3>1, <3>2, <3>3
  <2>2. \A k \in Orders : k = order => f[k] = Split(num)
      BY <1>1, <1>g
  <2>3. ASSUME NEW k \in Orders PROVE f[k] = Sum(f)[k]
    <3>1. k \in Int /\ (k > order \/ k = order \/ k < order)
        BY <1>1 DEF Orders
    <3>2. CASE k > order
        BY <3>2
    <3>3. CASE k = order
        BY <1>1, <2>2, <3>3
    <3>4. CASE k < order
        BY <1>1, <2>1, <3>1, <3>4
    <3>5. QED
        BY <3>1, <3>2, <3>3, <3>4
  <2>4. QED
      BY <2>3
<1>5. PICK s : s = SumsDown(order, num, row)
    OBVIOUS
<1>6. s = Sum(s)
  <2>1. SumsDown(order, num, row) = CHOOSE at : at = Sum(at)
      BY DEF SumsDown
  <2> HIDE DEF Sum, f
  <2>2. QED
      BY <1>4, <1>5, <2>1
<1>7. s[order] = Split(num) /\ \A k \in 0 .. order - 1 : s[k] = Plus(s[k + 1], At(row, k))
  <2>1. \A k \in Orders : s[k] = Sum(s)[k]
      BY <1>6
  <2>2. s[order] = Split(num)
      BY <1>1, <2>1
  <2>3. ASSUME NEW k \in 0 .. order - 1 PROVE s[k] = Plus(s[k + 1], At(row, k))
    <3>1. k \in Orders /\ ~(k > order) /\ k # order
        BY <1>1 DEF Orders
    <3>2. QED
        BY <2>1, <3>1
  <2>4. QED
      BY <2>2, <2>3
<1>8. \A i \in 0 .. order : s[order - i] \in Parts
  <2> DEFINE h == [i \in 0 .. order |-> s[order - i]]
  <2>1. h[0] \in Parts
      BY <1>1, <1>7, SplitIs
  <2>2. ASSUME NEW k \in 1 .. order, h[k - 1] \in Parts
        PROVE  h[k] \in Parts
    <3>0. k \in Nat /\ 1 <= k /\ k <= order
        BY <1>1
    <3>1. /\ order - k \in 0 .. order - 1 /\ (order - k) + 1 = order - (k - 1)
          /\ k - 1 \in 0 .. order
        BY <1>1, <3>0
    <3>o. order - k \in Orders
        BY <1>1, <3>0 DEF Orders
    <3>2. s[order - k] = Plus(s[order - (k - 1)], At(row, order - k))
        BY <1>7, <3>1
    <3>3. At(row, order - k) \in Parts
        BY <1>1, <3>0, <3>o, AtIs
    <3>4. QED
        BY <2>2, <3>1, <3>2, <3>3, PlusIs
  <2>3. StepStays(h, order, Parts)
      BY <2>1, <2>2 DEF StepStays
  <2>4. StaysIn(h, order, Parts)
    <3> HIDE DEF h
    <3>1. QED
        BY <1>1, <2>3, StepsStay
  <2>5. QED
      BY <2>4 DEF StaysIn
<1>9. ASSUME NEW k \in Orders PROVE s[k] \in Parts
  <2>1. CASE k > order
      BY <1>1, <1>6, <2>1
  <2>2. CASE k <= order
    <3>1. order - k \in 0 .. order /\ order - (order - k) = k
        BY <1>1, <2>2 DEF Orders
    <3>2. QED
        BY <1>8, <3>1
  <2>3. QED
      BY <1>1, <2>1, <2>2 DEF Orders
<1>10. s \in [Orders -> Parts]
  <2>1. s = [k \in Orders |-> s[k]]
      BY <1>6
  <2>2. QED
      BY <1>9, <2>1
<1> QED
    BY <1>5, <1>7, <1>10

\* Those of a clock, from the difference that was read to the value in place order.
LEMMA SumsUpIs ==
  ASSUME NEW order \in Orders, NEW num \in Int,
         NEW old, old.u \in [Orders -> Int], old.l \in [Orders -> Int]
  PROVE  /\ SumsUp(order, num, old) \in [Orders -> Parts]
         /\ SumsUp(order, num, old)[0] = Split(num)
         /\ \A k \in 1 .. order :
              SumsUp(order, num, old)[k] =
                Plus(SumsUp(order, num, old)[k - 1],
                     At(old, IF old.order < order THEN k - 1 ELSE k))
<1> DEFINE none == [u |-> 0, l |-> 0]
           of(k) == At(old, IF old.order < order THEN k - 1 ELSE k)
           step == [p \in (1 .. order) \X Parts |-> Plus(p[2], of(p[1]))]
           Sum(at) == [k \in Orders |-> IF k = 0 THEN Split(num)
                                        ELSE IF k > order THEN none
                                        ELSE Plus(at[k - 1], of(k))]
<1>1. order \in Nat /\ order <= CrxArc /\ none \in Parts
    BY DEF Orders, Parts
<1>o. ASSUME NEW k \in 1 .. order PROVE of(k) \in Parts
  <2>1. k \in Orders /\ k - 1 \in Orders
      BY <1>1 DEF Orders
  <2>2. QED
      BY <2>1, AtIs
<1>2. step \in [(1 .. order) \X Parts -> Parts]
  <2> HIDE DEF of
  <2>1. QED
      BY <1>o, PlusIs
<1>3. PICK g : InSteps(g, order, Parts, Split(num), step)
  <2>1. Split(num) \in Parts
      BY SplitIs
  <2> HIDE DEF step
  <2>2. QED
      BY <1>1, <1>2, <2>1, StepsExist
<1> HIDE DEF of
<1>g. g \in [0 .. order -> Parts] /\ g[0] = Split(num)
      /\ \A k \in 1 .. order : g[k] = Plus(g[k - 1], of(k))
  <2>1. g \in [0 .. order -> Parts] /\ g[0] = Split(num)
        /\ \A k \in 1 .. order : g[k] = step[<<k, g[k - 1]>>]
      BY <1>3 DEF InSteps
  <2>2. ASSUME NEW k \in 1 .. order PROVE g[k - 1] \in Parts
    <3>1. k - 1 \in 0 .. order
        BY <1>1
    <3>2. QED
        BY <2>1, <3>1
  <2>3. QED
      BY <2>1, <2>2
<1> DEFINE f == [k \in Orders |-> IF k > order THEN none ELSE g[k]]
<1>4. f = Sum(f)
  <2>1. ASSUME NEW k \in Orders PROVE f[k] = Sum(f)[k]
    <3>1. k \in Nat /\ (k > order \/ k = 0 \/ k \in 1 .. order)
        BY <1>1 DEF Orders
    <3>2. CASE k > order
        BY <1>1, <3>2
    <3>3. CASE k = 0
        BY <1>1, <1>g, <3>3
    <3>4. CASE k \in 1 .. order
      <4>1. k - 1 \in Orders /\ ~(k - 1 > order) /\ ~(k > order) /\ k # 0
          BY <1>1, <3>4 DEF Orders
      <4>2. f[k] = g[k] /\ f[k - 1] = g[k - 1]
          BY <4>1
      <4>3. QED
          BY <1>g, <3>4, <4>1, <4>2
    <3>5. QED
        BY <3>1, <3>2, <3>3, <3>4
  <2>2. QED
      BY <2>1
<1>5. PICK s : s = SumsUp(order, num, old)
    OBVIOUS
<1>6. s = Sum(s)
  <2>1. SumsUp(order, num, old) = CHOOSE at : at = Sum(at)
      BY DEF SumsUp, of
  <2> HIDE DEF Sum, f
  <2>2. QED
      BY <1>4, <1>5, <2>1
<1>7. s[0] = Split(num) /\ \A k \in 1 .. order : s[k] = Plus(s[k - 1], of(k))
    BY <1>1, <1>6 DEF Orders
<1>8. \A k \in 0 .. order : s[k] \in Parts
  <2>1. ASSUME NEW k \in 1 .. order, s[k - 1] \in Parts PROVE s[k] \in Parts
      BY <1>7, <1>o, <2>1, PlusIs
  <2>2. StepStays(s, order, Parts)
      BY <1>7, <2>1, SplitIs DEF StepStays
  <2>3. StaysIn(s, order, Parts)
      BY <1>1, <2>2, StepsStay
  <2>4. QED
      BY <2>3 DEF StaysIn
<1>9. ASSUME NEW k \in Orders PROVE s[k] \in Parts
  <2>1. CASE k > order
    <3>1. k # 0
        BY <1>1, <2>1
    <3>2. QED
        BY <1>1, <1>6, <2>1, <3>1
  <2>2. CASE k <= order
    <3>1. k \in 0 .. order
        BY <1>1, <2>2 DEF Orders
    <3>2. QED
        BY <1>8, <3>1
  <2>3. QED
      BY <1>1, <2>1, <2>2 DEF Orders
<1>10. s \in [Orders -> Parts]
  <2>1. s = [k \in Orders |-> s[k]]
      BY <1>6
  <2>2. QED
      BY <1>9, <2>1
<1> QED
    BY <1>5, <1>7, <1>10 DEF of

\* The differences the encoder takes.
AreDifferences(d, order, v, old) ==
  /\ d \in [Orders -> Int]
  /\ d[0] = v
  /\ \A k \in 1 .. order : d[k] = d[k - 1] - old[k - 1]

LEMMA DifferencesIs ==
  ASSUME NEW order \in Orders, NEW v \in Int, NEW old \in [Orders -> Int]
  PROVE  AreDifferences(Differences(order, v, old), order, v, old)
<1> DEFINE step == [p \in (1 .. order) \X Int |-> p[2] - old[p[1] - 1]]
           Sum(at) == [k \in Orders |-> IF k = 0 THEN v
                                        ELSE IF k > order THEN 0
                                        ELSE at[k - 1] - old[k - 1]]
<1>1. order \in Nat /\ order <= CrxArc
    BY DEF Orders
<1>o. ASSUME NEW k \in 1 .. order PROVE k - 1 \in Orders /\ old[k - 1] \in Int
  <2>1. k - 1 \in Orders
      BY <1>1 DEF Orders
  <2>2. QED
      BY <2>1
<1>2. step \in [(1 .. order) \X Int -> Int]
    BY <1>o
<1>3. PICK g : InSteps(g, order, Int, v, step)
  <2> HIDE DEF step
  <2>1. QED
      BY <1>1, <1>2, StepsExist
<1>g. g \in [0 .. order -> Int] /\ g[0] = v
      /\ \A k \in 1 .. order : g[k] = g[k - 1] - old[k - 1]
  <2>1. g \in [0 .. order -> Int] /\ g[0] = v
        /\ \A k \in 1 .. order : g[k] = step[<<k, g[k - 1]>>]
      BY <1>3 DEF InSteps
  <2>2. ASSUME NEW k \in 1 .. order PROVE g[k - 1] \in Int
    <3>1. k - 1 \in 0 .. order
        BY <1>1
    <3>2. QED
        BY <2>1, <3>1
  <2>3. QED
      BY <2>1, <2>2
<1> DEFINE f == [k \in Orders |-> IF k > order THEN 0 ELSE g[k]]
<1>4. f = Sum(f)
  <2>1. ASSUME NEW k \in Orders PROVE f[k] = Sum(f)[k]
    <3>1. k \in Nat /\ (k > order \/ k = 0 \/ k \in 1 .. order)
        BY <1>1 DEF Orders
    <3>2. CASE k > order
        BY <1>1, <3>2
    <3>3. CASE k = 0
        BY <1>1, <1>g, <3>3
    <3>4. CASE k \in 1 .. order
      <4>1. k - 1 \in Orders /\ ~(k - 1 > order) /\ ~(k > order) /\ k # 0
          BY <1>1, <3>4 DEF Orders
      <4>2. f[k] = g[k] /\ f[k - 1] = g[k - 1]
          BY <4>1
      <4>3. QED
          BY <1>g, <3>4, <4>1, <4>2
    <3>5. QED
        BY <3>1, <3>2, <3>3, <3>4
  <2>2. QED
      BY <2>1
<1>5. PICK s : s = Differences(order, v, old)
    OBVIOUS
<1>6. s = Sum(s)
  <2>1. Differences(order, v, old) = CHOOSE at : at = Sum(at)
      BY DEF Differences
  <2> HIDE DEF Sum, f
  <2>2. QED
      BY <1>4, <1>5, <2>1
<1>7. s[0] = v /\ \A k \in 1 .. order : s[k] = s[k - 1] - old[k - 1]
    BY <1>1, <1>6 DEF Orders
<1>8. \A k \in 0 .. order : s[k] \in Int
  <2>1. ASSUME NEW k \in 1 .. order, s[k - 1] \in Int PROVE s[k] \in Int
      BY <1>7, <1>o, <2>1
  <2>2. StepStays(s, order, Int)
      BY <1>7, <2>1 DEF StepStays
  <2>3. StaysIn(s, order, Int)
      BY <1>1, <2>2, StepsStay
  <2>4. QED
      BY <2>3 DEF StaysIn
<1>9. ASSUME NEW k \in Orders PROVE s[k] \in Int
  <2>1. CASE k > order
    <3>1. k # 0
        BY <1>1, <2>1
    <3>2. QED
        BY <1>1, <1>6, <2>1, <3>1
  <2>2. CASE k <= order
    <3>1. k \in 0 .. order
        BY <1>1, <2>2 DEF Orders
    <3>2. QED
        BY <1>8, <3>1
  <2>3. QED
      BY <1>1, <2>1, <2>2 DEF Orders
<1>10. s \in [Orders -> Int]
  <2>1. s = [k \in Orders |-> s[k]]
      BY <1>6
  <2>2. QED
      BY <1>9, <2>1
<1> QED
    BY <1>5, <1>7, <1>10 DEF AreDifferences

-----------------------------------------------------------------------------
(* One satellite. *)

\* The decoder's row of a satellite is the encoder's, number for number.
RowKept(f, r) ==
  /\ f.order \in -1 .. CrxArc /\ f.d \in [Orders -> Int]
  /\ r.u \in [Orders -> Int] /\ r.l \in [Orders -> Int]
  /\ r.sat = f.sat /\ r.order = f.order /\ r.flag = f.real
  /\ \A k \in 0 .. f.order : Val(At(r, k)) = f.d[k] /\ Small(At(r, k))

RowsKept(fs, rs) ==
  /\ DOMAIN fs = DOMAIN rs /\ DOMAIN fs \subseteq Nat \ {0}
  /\ \A i \in DOMAIN fs : RowKept(fs[i], rs[i])

\* Both sides go on from the same row of the epoch before, or from none.
LEMMA SameRow ==
  ASSUME NEW fs, NEW rs, RowsKept(fs, rs), NEW sat, NEW i
  PROVE  \/ RowOf(fs, sat) = <<>> /\ satTable(rs, i, sat) = 0
         \/ \E j \in DOMAIN fs : /\ j # 0 /\ RowOf(fs, sat) = <<fs[j]>>
                                 /\ satTable(rs, i, sat) = j
<1> DEFINE same == {j \in DOMAIN fs : fs[j].sat = sat}
           least == CHOOSE j \in same : \A k \in same : j <= k
<1>1. same = {j \in DOMAIN rs : rs[j].sat = sat}
    BY DEF RowsKept, RowKept
<1>2. CASE same = {}
    BY <1>1, <1>2 DEF RowOf, satTable
<1>3. CASE same # {}
  <2>1. same \subseteq Nat
      BY DEF RowsKept
  <2>2. \E j \in same : \A k \in same : j <= k
    <3> HIDE DEF same
    <3>1. QED
        BY <1>3, <2>1, LeastNat
  <2>3. least \in same
      BY <2>2
  <2>4. least \in DOMAIN fs /\ least # 0
      BY <2>3 DEF RowsKept
  <2>5. RowOf(fs, sat) = <<fs[least]>>
      BY <1>3 DEF RowOf
  <2>6. satTable(rs, i, sat) = least
      BY <1>1, <1>3 DEF satTable
  <2> HIDE DEF least
  <2>7. QED
      BY <2>4, <2>5, <2>6
<1>4. QED
    BY <1>2, <1>3

AtMostOne(S) == \A m, n \in S : m = n

\* A blank of version 1 has no flag.
FlagFits(v, r) == v = 1 /\ r.val = {} => r.flag = "-"

\* f is r, as differences that go on from those of b if the arc does.
EncodedRight(f, r, before, b) ==
  /\ f.sat = r.sat /\ f.real = r.flag
  /\ f.order \in -1 .. CrxArc /\ f.d \in [Orders -> Int]
  /\ r.val = {} => f.order = -1
  /\ r.val # {} => f.order >= 0 /\ r.val = {f.d[0]}
  /\ f.order > 0 => /\ before = <<b>> /\ b.order >= 0
                    /\ f.order = IF b.order < CrxArc THEN b.order + 1 ELSE CrxArc
                    /\ \A k \in 1 .. f.order : f.d[k] = f.d[k - 1] - b.d[k - 1]

\* What the encoder makes of a value: the value, and its differences from the arc it goes on.
LEMMA EncodedIs ==
  ASSUME NEW r \in CrxRecords, AtMostOne(r.val), NEW before, NEW b,
         before = <<>> \/ before = <<b>>,
         b.order \in -1 .. CrxArc, b.d \in [Orders -> Int], NEW f, f = CrxField(r, before)
  PROVE  EncodedRight(f, r, before, b)
<1> USE DEF AtMostOne, EncodedRight
<1> DEFINE go == before # <<>> /\ Head(before).order >= 0
           order == IF ~go THEN 0
                    ELSE IF Head(before).order < CrxArc THEN Head(before).order + 1 ELSE CrxArc
           v == CHOOSE x \in r.val : TRUE
           old == IF go THEN Head(before).d ELSE Zero
           d == Differences(order, v, old)
<1>1. before # <<>> => Head(before) = b /\ before = <<b>>
    OBVIOUS
<1>2. order \in Orders /\ old \in [Orders -> Int] /\ Zero \in [Orders -> Int]
    BY <1>1 DEF Orders, Zero
<1>3. f.sat = r.sat /\ f.real = r.flag
    BY DEF CrxField
<1>4. CASE r.val = {}
  <2>1. f.order = -1 /\ f.d = Zero
      BY <1>4 DEF CrxField
  <2>2. QED
      BY <1>2, <1>3, <1>4, <2>1
<1>5. CASE r.val # {}
  <2>1. f.order = order /\ f.d = d
      BY <1>5 DEF CrxField
  <2>2. v \in Int /\ r.val = {v}
      BY <1>5 DEF CrxRecords
  <2>3. order > 0 => /\ before = <<b>> /\ b.order >= 0 /\ old = b.d
                     /\ order = IF b.order < CrxArc THEN b.order + 1 ELSE CrxArc
      BY <1>1
  <2> HIDE DEF order, old, v
  <2>4. /\ d \in [Orders -> Int] /\ d[0] = v
        /\ \A k \in 1 .. order : d[k] = d[k - 1] - old[k - 1]
    <3>1. order \in Orders /\ v \in Int /\ old \in [Orders -> Int]
        BY <1>2, <2>2
    <3>2. AreDifferences(d, order, v, old)
        BY <3>1, DifferencesIs
    <3> HIDE DEF d
    <3>3. QED
        BY <3>2 DEF AreDifferences
  <2> HIDE DEF d
  <2>5. order \in 0 .. CrxArc
      BY <1>2 DEF Orders
  <2>6. QED
      BY <1>3, <1>5, <2>1, <2>2, <2>3, <2>4, <2>5
<1>6. QED
    BY <1>4, <1>5

\* The differences go on from those of b, which the decoder has in row.
GoesOn(order, d, row, b) ==
  order > 0 => /\ row.u \in [Orders -> Int] /\ row.l \in [Orders -> Int]
               /\ b.d \in [Orders -> Int]
               /\ \A k \in 0 .. order - 1 : Val(At(row, k)) = b.d[k]
               /\ \A k \in 1 .. order : d[k] = d[k - 1] - b.d[k - 1]

\* The sums of the decoder undo the differences of the encoder.
LEMMA SumsUndo ==
  ASSUME NEW order \in Orders, NEW d \in [Orders -> Int], NEW row, NEW b,
         GoesOn(order, d, row, b)
  PROVE  \A k \in 0 .. order : /\ Val(SumsDown(order, d[order], row)[k]) = d[k]
                              /\ Small(SumsDown(order, d[order], row)[k])
<1> order \in Nat /\ order <= CrxArc
    BY DEF Orders
<1> USE DEF GoesOn
<1>1. PICK s : s = SumsDown(order, d[order], row)
    OBVIOUS
<1>2. /\ s \in [Orders -> Parts] /\ s[order] = Split(d[order])
      /\ \A k \in 0 .. order - 1 : s[k] = Plus(s[k + 1], At(row, k))
  <2>1. d[order] \in Int
      OBVIOUS
  <2>2. QED
      BY <1>1, <2>1, SumsDownIs
<1>3. ASSUME NEW k \in 0 .. order - 1
      PROVE  /\ Small(s[k]) /\ Val(s[k]) = Val(s[k + 1]) + Val(At(row, k))
             /\ k \in Orders /\ k + 1 \in Orders /\ order > 0
  <2>1. k \in Orders /\ k + 1 \in Orders /\ order > 0
    <3>1. k \in Nat /\ k <= order - 1 /\ order \in Nat /\ order <= CrxArc /\ CrxArc \in Nat
        OBVIOUS
    <3>2. k \in 0 .. CrxArc /\ k + 1 \in 0 .. CrxArc /\ order > 0
        BY ONLY <3>1
    <3>3. QED
        BY <3>2 DEF Orders
  <2>2. s[k + 1] \in Parts /\ At(row, k) \in Parts
      BY <1>2, <2>1, AtIs
  <2>3. QED
      BY <1>2, <2>1, <2>2, PlusIs
<1> DEFINE h == [i \in 0 .. order |-> Val(s[order - i]) - d[order - i]]
<1>4. h[0] = 0
  <2>1. Val(s[order]) = d[order] /\ d[order] \in Int
      BY <1>2, SplitIs
  <2>2. QED
      BY <2>1
<1>5. ASSUME NEW i \in 1 .. order, h[i - 1] = 0 PROVE h[i] = 0
  <2>1. /\ order - i \in 0 .. order - 1 /\ order - (i - 1) = (order - i) + 1
        /\ i - 1 \in 0 .. order /\ (order - i) + 1 \in 1 .. order
      OBVIOUS
  <2> DEFINE k == order - i
  <2>2. Val(s[k + 1]) - d[k + 1] = 0
      BY <1>5, <2>1
  <2>3. Val(s[k]) = Val(s[k + 1]) + Val(At(row, k)) /\ k \in Orders /\ k + 1 \in Orders /\ order > 0
      BY <1>3, <2>1
  <2>4. Val(At(row, k)) = b.d[k] /\ b.d[k] \in Int
      BY <2>1, <2>3
  <2>5. d[k + 1] = d[k] - b.d[k] /\ d[k] \in Int /\ d[k + 1] \in Int
    <3>1. (k + 1) - 1 = k
        BY <2>1
    <3>2. QED
        BY <2>1, <2>3, <3>1
  <2>6. Val(s[k + 1]) \in Int
    <3>1. s[k + 1] \in Parts
        BY <1>2, <2>3
    <3>2. QED
        BY <3>1 DEF Parts, Val
  <2>7. Val(s[k]) - d[k] = 0
      BY <2>2, <2>3, <2>4, <2>5, <2>6
  <2>8. QED
      BY <2>1, <2>7
<1>6. StaysIn(h, order, {0})
  <2>1. StepStays(h, order, {0})
      BY <1>4, <1>5 DEF StepStays
  <2> HIDE DEF h
  <2>2. QED
      BY <2>1, StepsStay
<1>7. ASSUME NEW k \in 0 .. order PROVE Val(s[k]) = d[k] /\ Small(s[k])
  <2>1. order - k \in 0 .. order /\ order - (order - k) = k /\ k \in Orders
      BY DEF Orders
  <2>2. Val(s[k]) - d[k] = 0
      BY <1>6, <2>1 DEF StaysIn
  <2>3. s[k] \in Parts
      BY <1>2, <2>1
  <2>4. Val(s[k]) \in Int /\ d[k] \in Int
      BY <2>1, <2>3 DEF Parts, Val
  <2>5. Small(s[k])
    <3>1. CASE k = order
        BY <1>2, <3>1, SplitIs
    <3>2. CASE k # order
      <4>1. k \in 0 .. order - 1
          BY <3>2
      <4>2. QED
          BY <1>3, <4>1
    <3>3. QED
        BY <3>1, <3>2
  <2>6. QED
      BY <2>2, <2>4, <2>5
<1>8. QED
    BY <1>1, <1>7

\* A blank keeps the flag, an ampersand clears it, anything else is the flag.
LEMMA FlagIs ==
  ASSUME NEW r \in CrxRecords, NEW fs, NEW rs, RowsKept(fs, rs), NEW i
  PROVE  Flag(CrxField(r, RowOf(fs, r.sat)), rs, satTable(rs, i, r.sat)) = r.flag
<1> DEFINE before == RowOf(fs, r.sat)
           was == IF before = <<>> THEN "-" ELSE Head(before).real
           j == satTable(rs, i, r.sat)
           had == IF j = 0 THEN "-" ELSE rs[j].flag
           flag == CASE r.flag = was -> " " [] r.flag # was /\ r.flag = "-" -> "&" [] OTHER -> r.flag
<1>1. had = was
  <2>1. CASE before = <<>> /\ j = 0
      BY <2>1
  <2>2. ASSUME NEW k \in DOMAIN fs, k # 0, before = <<fs[k]>>, j = k
        PROVE  had = was
    <3>1. rs[k].flag = fs[k].real
        BY DEF RowsKept, RowKept
    <3>2. before # <<>> /\ Head(before) = fs[k]
        BY <2>2
    <3> HIDE DEF before, j
    <3>3. QED
        BY <2>2, <3>1, <3>2
  <2>3. QED
      BY <2>1, <2>2, SameRow
<1>2. CrxField(r, before).flag = flag
    BY DEF CrxField
<1>3. r.flag # " " /\ r.flag # "&"
    BY DEF CrxRecords
<1> HIDE DEF was, had, before, j
<1>4. repairText(was, flag) = r.flag
    BY <1>3 DEF repairText
<1>5. QED
    BY <1>1, <1>2, <1>4 DEF Flag, had, before, j

\* A row that was encoded and decoded is kept, and printed as it was.
LEMMA RowDecoded ==
  ASSUME NEW r \in CrxRecords, AtMostOne(r.val),
         NEW fs, NEW rs, RowsKept(fs, rs), NEW i,
         NEW v, FlagFits(v, r),
         NEW f, f = CrxField(r, RowOf(fs, r.sat)), NEW row, row = DecodedRow(v, f, rs, i)
  PROVE  RowKept(f, row) /\ Printed(row) = r
<1> DEFINE before == RowOf(fs, r.sat)
           j == satTable(rs, i, r.sat)
<1>0. PICK b : /\ before = <<>> \/ before = <<b>>
               /\ b.order \in -1 .. CrxArc /\ b.d \in [Orders -> Int]
               /\ before = <<b>> => /\ j # 0 /\ RowKept(b, rs[j])
  <2>1. CASE before = <<>>
    <3>1. [order |-> -1, d |-> Zero].order \in -1 .. CrxArc
          /\ [order |-> -1, d |-> Zero].d \in [Orders -> Int]
        BY DEF Zero
    <3>2. before # <<[order |-> -1, d |-> Zero]>>
        BY <2>1
    <3>3. QED
        BY <2>1, <3>1, <3>2
  <2>2. CASE before # <<>>
    <3>1. PICK k \in DOMAIN fs : k # 0 /\ before = <<fs[k]>> /\ j = k
        BY <2>2, SameRow
    <3>2. RowKept(fs[k], rs[k])
        BY DEF RowsKept
    <3>3. QED
        BY <3>1, <3>2 DEF RowKept
  <2>3. QED
      BY <2>1, <2>2
<1>1. /\ f.sat = r.sat /\ f.real = r.flag
      /\ f.order \in -1 .. CrxArc /\ f.d \in [Orders -> Int]
      /\ r.val = {} => f.order = -1
      /\ r.val # {} => f.order >= 0 /\ r.val = {f.d[0]}
      /\ f.order > 0 => /\ before = <<b>> /\ b.order >= 0
                        /\ f.order = IF b.order < CrxArc THEN b.order + 1 ELSE CrxArc
                        /\ \A k \in 1 .. f.order : f.d[k] = f.d[k - 1] - b.d[k - 1]
  <2> HIDE DEF before
  <2>1. f = CrxField(r, before) /\ AtMostOne(r.val)
      BY DEF before
  <2>2. EncodedRight(f, r, before, b)
      BY <1>0, <2>1, EncodedIs
  <2>3. QED
      BY <2>2 DEF EncodedRight
<1>2. Flag(f, rs, j) = r.flag
    BY FlagIs
<1>3. row.sat = r.sat /\ row.flag = r.flag
  <2>1. row.sat = f.sat /\ row.flag = IF v = 1 /\ f.order < 0 THEN "-" ELSE Flag(f, rs, j)
      BY <1>1 DEF DecodedRow
  <2>2. f.order < 0 => r.val = {}
      BY <1>1
  <2> HIDE DEF j
  <2>3. QED
      BY <1>1, <1>2, <2>1, <2>2 DEF FlagFits
<1>4. r = [sat |-> r.sat, flag |-> r.flag, val |-> r.val]
    BY DEF CrxRecords
<1>5. CASE f.order < 0
  <2>1. row.order = -1 /\ row.u = Zero /\ row.l = Zero
      BY <1>5 DEF DecodedRow
  <2>2. f.order = -1 /\ r.val = {}
      BY <1>1, <1>5
  <2>3. RowKept(f, row)
      BY <1>1, <1>3, <2>1, <2>2 DEF RowKept, Zero
  <2>4. Printed(row) = [sat |-> row.sat, flag |-> row.flag, val |-> {}]
      BY <2>1 DEF Printed
  <2>5. QED
      BY <1>3, <1>4, <2>2, <2>3, <2>4
<1>6. CASE f.order >= 0
  <2>1. f.order \in Orders
      BY <1>1, <1>6 DEF Orders
  <2> DEFINE at == SumsDown(f.order, f.d[f.order], rs[j])
  <2>2. /\ row.order = f.order
        /\ row.u = [k \in Orders |-> at[k].u] /\ row.l = [k \in Orders |-> at[k].l]
    <3>1. j = satTable(rs, i, f.sat)
        BY <1>1
    <3>2. row.order = Field(f, rs, j).order /\ row.u = Field(f, rs, j).u /\ row.l = Field(f, rs, j).l
        BY <1>6, <3>1, <1>1 DEF DecodedRow
    <3>3. f.order = IF f.order = 0 THEN 0
                    ELSE IF rs[j].order < CrxArc THEN rs[j].order + 1 ELSE rs[j].order
      <4>1. f.order > 0 => rs[j].order = b.order
          BY <1>0, <1>1 DEF RowKept
      <4>2. QED
          BY <1>0, <1>1, <1>6, <4>1
    <3> HIDE DEF j
    <3>4. Field(f, rs, j) = [order |-> f.order, u |-> [k \in Orders |-> at[k].u],
                             l |-> [k \in Orders |-> at[k].l]]
        BY <3>3 DEF Field, Token
    <3> HIDE DEF at
    <3>5. Field(f, rs, j).order = f.order
          /\ Field(f, rs, j).u = [k \in Orders |-> at[k].u]
          /\ Field(f, rs, j).l = [k \in Orders |-> at[k].l]
        BY <3>4
    <3>6. QED
        BY <3>2, <3>5
  <2>3. f.order > 0 => /\ rs[j].u \in [Orders -> Int] /\ rs[j].l \in [Orders -> Int]
                       /\ b.d \in [Orders -> Int]
                       /\ \A k \in 0 .. f.order - 1 : Val(At(rs[j], k)) = b.d[k]
                       /\ \A k \in 1 .. f.order : f.d[k] = f.d[k - 1] - b.d[k - 1]
    <3>1. f.order > 0 => RowKept(b, rs[j]) /\ f.order - 1 <= b.order
        BY <1>0, <1>1
    <3>2. f.order > 0 => \A k \in 0 .. f.order - 1 : k \in 0 .. b.order
        BY <1>0, <1>1, <3>1
    <3>3. QED
        BY <1>0, <1>1, <3>1, <3>2 DEF RowKept
  <2>4. at \in [Orders -> Parts]
    <3>1. f.d[f.order] \in Int
        BY <1>1, <2>1
    <3> HIDE DEF j
    <3>2. QED
        BY <2>1, <2>3, <3>1, SumsDownIs
  <2>5. \A k \in 0 .. f.order : Val(at[k]) = f.d[k] /\ Small(at[k])
    <3>1. f.d \in [Orders -> Int]
        BY <1>1
    <3>2. GoesOn(f.order, f.d, rs[j], b)
        BY <2>3 DEF GoesOn
    <3> HIDE DEF j
    <3>3. QED
        BY <2>1, <3>1, <3>2, SumsUndo
  <2> HIDE DEF at, j
  <2>6. \A k \in Orders : At(row, k) = at[k]
      BY <2>2, <2>4 DEF At, Parts
  <2>7. row.u \in [Orders -> Int] /\ row.l \in [Orders -> Int]
      BY <2>2, <2>4 DEF Parts
  <2>8. \A k \in 0 .. f.order : k \in Orders
      BY <2>1 DEF Orders
  <2>9. RowKept(f, row)
      BY <1>1, <1>3, <2>2, <2>5, <2>6, <2>7, <2>8 DEF RowKept
  <2>10. formatField(At(row, 0)) = f.d[0]
    <3>1. 0 \in 0 .. f.order /\ 0 \in Orders
        BY <1>1, <1>6, <2>8
    <3>2. At(row, 0) \in Parts /\ Small(At(row, 0)) /\ Val(At(row, 0)) = f.d[0]
        BY <2>4, <2>5, <2>6, <3>1
    <3>3. QED
        BY <3>2, FieldPrinted
  <2>11. r.val = {f.d[0]}
      BY <1>1, <1>6
  <2>12. Printed(row) = [sat |-> row.sat, flag |-> row.flag, val |-> {f.d[0]}]
    <3>1. ~(row.order < 0)
        BY <1>1, <1>6, <2>2
    <3>2. Printed(row) = [sat |-> row.sat, flag |-> row.flag,
                          val |-> {formatField(At(row, 0))}]
        BY <3>1 DEF Printed
    <3>3. QED
        BY <2>10, <3>2
  <2>13. QED
      BY <1>3, <1>4, <2>9, <2>11, <2>12
<1>7. QED
    BY <1>1, <1>5, <1>6

-----------------------------------------------------------------------------
(* The clock. *)

\* The decoder's clock is the encoder's, its differences in the other order.
ClockKept(c, x) ==
  /\ c.order \in -1 .. CrxArc /\ c.d \in [Orders -> Int]
  /\ x.u \in [Orders -> Int] /\ x.l \in [Orders -> Int] /\ x.order = c.order
  /\ \A k \in 0 .. c.order : Val(At(x, k)) = c.d[c.order - k] /\ Small(At(x, k))

\* The differences of a clock go on from those of c, which the decoder has in old.
ClockGoesOn(order, d, old, c) ==
  order > 0 => /\ c.order = order - 1 \/ c.order = order
               /\ old.order = c.order /\ c.d \in [Orders -> Int]
               /\ \A k \in 0 .. c.order : Val(At(old, k)) = c.d[c.order - k]
               /\ \A k \in 1 .. order : d[k] = d[k - 1] - c.d[k - 1]

LEMMA ClockUndo ==
  ASSUME NEW order \in Orders, NEW d \in [Orders -> Int],
         NEW old, old.u \in [Orders -> Int], old.l \in [Orders -> Int],
         NEW c, ClockGoesOn(order, d, old, c)
  PROVE  \A k \in 0 .. order : /\ Val(SumsUp(order, d[order], old)[k]) = d[order - k]
                              /\ Small(SumsUp(order, d[order], old)[k])
<1> order \in Nat /\ order <= CrxArc
    BY DEF Orders
<1> DEFINE of(k) == At(old, IF old.order < order THEN k - 1 ELSE k)
<1>1. PICK s : s = SumsUp(order, d[order], old)
    OBVIOUS
<1>2. /\ s \in [Orders -> Parts] /\ s[0] = Split(d[order])
      /\ \A k \in 1 .. order : s[k] = Plus(s[k - 1], of(k))
  <2>1. d[order] \in Int
      OBVIOUS
  <2>2. QED
      BY <1>1, <2>1, SumsUpIs
<1>3. ASSUME NEW k \in 1 .. order
      PROVE  /\ of(k) \in Parts /\ Val(of(k)) = c.d[order - k]
             /\ d[order - (k - 1)] = d[order - k] - c.d[order - k]
             /\ d[order - k] \in Int /\ c.d[order - k] \in Int
  <2>1. /\ order > 0 /\ k \in Orders /\ k - 1 \in Orders /\ order - k \in Orders
        /\ order - (k - 1) \in 1 .. order /\ (order - (k - 1)) - 1 = order - k
      BY DEF Orders
  <2>2. d[order - (k - 1)] = d[order - k] - c.d[order - k]
    <3>1. d[order - (k - 1)] = d[(order - (k - 1)) - 1] - c.d[(order - (k - 1)) - 1]
        BY <2>1 DEF ClockGoesOn
    <3>2. QED
        BY <2>1, <3>1
  <2>3. of(k) \in Parts
      BY <2>1, AtIs
  <2>4. Val(of(k)) = c.d[order - k]
    <3>1. CASE c.order = order - 1
      <4>1. of(k) = At(old, k - 1) /\ k - 1 \in 0 .. c.order /\ c.order - (k - 1) = order - k
          BY <2>1, <3>1 DEF ClockGoesOn
      <4>2. QED
          BY <2>1, <4>1 DEF ClockGoesOn
    <3>2. CASE c.order = order
      <4>1. of(k) = At(old, k) /\ k \in 0 .. c.order /\ c.order - k = order - k
          BY <2>1, <3>2 DEF ClockGoesOn
      <4>2. QED
          BY <2>1, <4>1 DEF ClockGoesOn
    <3>3. QED
        BY <2>1, <3>1, <3>2 DEF ClockGoesOn
  <2>5. QED
      BY <2>1, <2>2, <2>3, <2>4 DEF ClockGoesOn
<1> HIDE DEF of
<1>4. ASSUME NEW k \in 1 .. order
      PROVE  Small(s[k]) /\ Val(s[k]) = Val(s[k - 1]) + c.d[order - k] /\ Val(s[k - 1]) \in Int
  <2>1. s[k - 1] \in Parts
    <3>1. k - 1 \in Orders
        BY DEF Orders
    <3>2. QED
        BY <1>2, <3>1
  <2>2. Val(s[k - 1]) \in Int
      BY <2>1 DEF Parts, Val
  <2>3. QED
      BY <1>2, <1>3, <2>1, <2>2, PlusIs
<1> DEFINE h == [k \in 0 .. order |-> Val(s[k]) - d[order - k]]
<1>5. h[0] = 0
  <2>1. Val(s[0]) = d[order] /\ d[order] \in Int
      BY <1>2, SplitIs
  <2>2. QED
      BY <2>1
<1>6. ASSUME NEW k \in 1 .. order, h[k - 1] = 0 PROVE h[k] = 0
  <2>1. k - 1 \in 0 .. order /\ order - (k - 1) \in Orders
      BY DEF Orders
  <2>2. Val(s[k - 1]) - d[order - (k - 1)] = 0 /\ d[order - (k - 1)] \in Int
      BY <1>6, <2>1
  <2>3. Val(s[k]) - d[order - k] = 0
      BY <1>3, <1>4, <2>2
  <2>4. QED
      BY <2>3
<1>7. StaysIn(h, order, {0})
  <2>1. StepStays(h, order, {0})
      BY <1>5, <1>6 DEF StepStays
  <2> HIDE DEF h
  <2>2. QED
      BY <2>1, StepsStay
<1>8. ASSUME NEW k \in 0 .. order PROVE Val(s[k]) = d[order - k] /\ Small(s[k])
  <2>1. order - k \in Orders /\ k \in Orders
      BY DEF Orders
  <2>2. Val(s[k]) - d[order - k] = 0
      BY <1>7 DEF StaysIn
  <2>3. Val(s[k]) \in Int /\ d[order - k] \in Int
    <3>1. s[k] \in Parts
        BY <1>2, <2>1
    <3>2. QED
        BY <2>1, <3>1 DEF Parts, Val
  <2>4. Small(s[k])
    <3>1. CASE k = 0
        BY <1>2, <3>1, SplitIs
    <3>2. CASE k # 0
        BY <1>4, <3>2
    <3>3. QED
        BY <3>1, <3>2
  <2>5. QED
      BY <2>2, <2>3, <2>4
<1>9. QED
    BY <1>1, <1>8

\* What the encoder makes of a clock; an arc that is begun anew starts at NoClock.
ClockEncoded(ns, c) ==
  IF ns = {} THEN NoClock
  ELSE LET order == IF c.order < CrxArc THEN c.order + 1 ELSE CrxArc
       IN  [order |-> order, d |-> Differences(order, CHOOSE n \in ns : TRUE, c.d)]

\* A clock that was encoded and decoded is kept; its value is what the receiver had.
LEMMA ClockDecoded ==
  ASSUME NEW ns \in SUBSET Int, AtMostOne(ns),
         NEW c, NEW x, ClockKept(c, x), NEW start, start = c \/ start = NoClock,
         NEW f, f = ClockEncoded(ns, start), NEW new, new = DecodedClock(f, x)
  PROVE  /\ ClockKept(f, new)
         /\ ns = {} => new.order < 0
         /\ ns # {} => /\ new.order >= 0 /\ At(new, new.order) \in Parts
                       /\ Small(At(new, new.order)) /\ ns = {Val(At(new, new.order))}
<1>1. CASE ns = {}
  <2>1. f = NoClock
      BY <1>1 DEF ClockEncoded
  <2>2. new = [order |-> -1, u |-> x.u, l |-> x.l]
      BY <2>1 DEF DecodedClock, NoClock
  <2>3. ClockKept(f, new)
      BY <2>1, <2>2 DEF ClockKept, NoClock, Zero
  <2>4. QED
      BY <1>1, <2>2, <2>3
<1>2. CASE ns # {}
  <2> DEFINE order == IF start.order < CrxArc THEN start.order + 1 ELSE CrxArc
             n == CHOOSE m \in ns : TRUE
             d == Differences(order, n, start.d)
  <2>1. start.order \in -1 .. CrxArc /\ start.d \in [Orders -> Int]
      BY DEF ClockKept, NoClock, Zero
  <2>2. order \in Orders
      BY <2>1 DEF Orders
  <2>3. n \in Int /\ ns = {n}
      BY <1>2 DEF AtMostOne
  <2>4. f.order = order /\ f.d = d
      BY <1>2 DEF ClockEncoded
  <2>5. order > 0 => start = c /\ x.order = c.order
      BY DEF NoClock, ClockKept
  <2>6. order = IF order = 0 THEN 0 ELSE IF x.order < CrxArc THEN x.order + 1 ELSE x.order
      BY <2>1, <2>2, <2>5 DEF Orders
  <2> HIDE DEF order, n
  <2>7. d \in [Orders -> Int] /\ d[0] = n /\ \A k \in 1 .. order : d[k] = d[k - 1] - start.d[k - 1]
    <3>1. AreDifferences(d, order, n, start.d)
        BY <2>1, <2>2, <2>3, DifferencesIs
    <3> HIDE DEF d
    <3>2. QED
        BY <3>1 DEF AreDifferences
  <2> HIDE DEF d
  <2>8. ClockGoesOn(order, d, x, c)
    <3>1. order > 0 => c.order = order - 1 \/ c.order = order
        BY <2>1, <2>2, <2>5, <2>6 DEF Orders
    <3>2. QED
        BY <2>5, <2>7, <3>1 DEF ClockGoesOn, ClockKept
  <2>9. x.u \in [Orders -> Int] /\ x.l \in [Orders -> Int]
      BY DEF ClockKept
  <2> DEFINE at == SumsUp(order, d[order], x)
  <2>10. \A k \in 0 .. order : Val(at[k]) = d[order - k] /\ Small(at[k])
      BY <2>2, <2>7, <2>8, <2>9, ClockUndo
  <2>11. at \in [Orders -> Parts]
    <3>1. d[order] \in Int
        BY <2>2, <2>7
    <3>2. QED
        BY <2>2, <2>9, <3>1, SumsUpIs
  <2>12. new = [order |-> order, u |-> [k \in Orders |-> at[k].u], l |-> [k \in Orders |-> at[k].l]]
    <3>1. ~(f.order < 0)
        BY <2>2, <2>4 DEF Orders
    <3>2. QED
        BY <2>4, <2>6, <3>1 DEF DecodedClock
  <2> HIDE DEF at
  <2>13. /\ new.order = order /\ new.u = [k \in Orders |-> at[k].u]
         /\ new.l = [k \in Orders |-> at[k].l]
      BY <2>12
  <2>14. \A k \in Orders : At(new, k) = at[k]
      BY <2>11, <2>13 DEF At, Parts
  <2>15. new.u \in [Orders -> Int] /\ new.l \in [Orders -> Int]
      BY <2>11, <2>13 DEF Parts
  <2>16. \A k \in 0 .. order : k \in Orders
      BY <2>2 DEF Orders
  <2>17. ClockKept(f, new)
    <3>1. order \in -1 .. CrxArc
        BY <2>2 DEF Orders
    <3>2. \A k \in 0 .. order : Val(At(new, k)) = d[order - k] /\ Small(At(new, k))
        BY <2>10, <2>14, <2>16
    <3>3. QED
        BY <2>4, <2>7, <2>13, <2>15, <3>1, <3>2 DEF ClockKept
  <2>18. order \in 0 .. order /\ order - order = 0 /\ order >= 0
      BY <2>2 DEF Orders
  <2>19. At(new, order) \in Parts /\ Small(At(new, order)) /\ Val(At(new, order)) = n
      BY <2>2, <2>7, <2>10, <2>11, <2>14, <2>18
  <2>20. QED
      BY <1>2, <2>3, <2>13, <2>17, <2>18, <2>19
<1>3. QED
    BY <1>1, <1>2

-----------------------------------------------------------------------------
(* The file. *)

\* No clock is negative with nothing but zeros in its lower digits: for one of those
\* formatClock prints another number.
ClocksPrintable == \A e \in CrxEpochs : \A n \in e.clock : ~(n < 0 /\ Rem(n, CrxBase) = 0)

CrxRowsRight == crx.out.rows = crx.real.rows

CrxShape ==
  /\ crx = [crinex |-> crx.crinex, prev |-> crx.prev, n |-> crx.n, anew |-> crx.anew, clock |-> crx.clock,
            stat |-> crx.stat, out |-> crx.out, real |-> crx.real]
  /\ crx.out = [clock |-> crx.out.clock, rows |-> crx.out.rows]
  /\ crx.real = [clock |-> crx.real.clock, rows |-> crx.real.rows]

CrxIInv ==
  /\ CrxShape
  /\ crx.stat = "reading" => /\ RowsKept(crxEnc.rows, crx.prev)
                             /\ ClockKept(crxEnc.clock, crx.clock)
  /\ CrxRowsRight
  /\ ClocksPrintable => crx.out.clock = crx.real.clock

LEMMA EpochDecoded ==
  ASSUME CrxIInv, NEW e \in CrxEpochs, processEpoch(e)
  PROVE  CrxIInv'
<1> DEFINE enc == CrxEncode(e)
           before == IF e.init THEN <<>> ELSE crxEnc.rows
           prev == IF e.init THEN <<>> ELSE crx.prev
           start == IF e.init THEN NoClock ELSE crxEnc.clock
           rows == [i \in DOMAIN enc.rows |-> DecodedRow(crx.crinex, enc.rows[i], prev, i)]
           new == DecodedClock(enc.clock, crx.clock)
           printed == [clock |-> IF new.order < 0 THEN {} ELSE {formatClock(At(new, new.order))},
                       rows |-> [i \in DOMAIN rows |-> Printed(rows[i])]]
<1>1. /\ e.clock \in SUBSET Int /\ \A m, n \in e.clock : m = n
      /\ e.rows \in Seq(CrxRecords)
      /\ \A i \in DOMAIN e.rows : \A m, n \in e.rows[i].val : m = n
    BY CrxAssumption DEF CrxAssumption
<1>2. crx.stat = "reading" /\ crxEnc' = enc /\ CrxCanHold(crx.crinex, e)
    BY DEF processEpoch
<1>3. RowsKept(before, prev)
    BY <1>2 DEF CrxIInv, RowsKept
<1>4. /\ enc.rows = [i \in DOMAIN e.rows |-> CrxField(e.rows[i], RowOf(before, e.rows[i].sat))]
      /\ enc.clock = ClockEncoded(e.clock, start)
    BY DEF CrxEncode, ClockEncoded
<1> HIDE DEF enc, before, prev
<1>5. DOMAIN enc.rows = DOMAIN e.rows /\ DOMAIN rows = DOMAIN e.rows
    BY <1>4
<1>6. e.rows = [i \in DOMAIN e.rows |-> e.rows[i]] /\ DOMAIN e.rows \subseteq Nat \ {0}
  <2>1. e.rows \in [1 .. Len(e.rows) -> CrxRecords] /\ Len(e.rows) \in Nat
      BY <1>1
  <2>2. QED
      BY <2>1
<1>7. ASSUME NEW i \in DOMAIN e.rows
      PROVE  RowKept(enc.rows[i], rows[i]) /\ Printed(rows[i]) = e.rows[i]
  <2>1. e.rows[i] \in CrxRecords /\ \A m, n \in e.rows[i].val : m = n
      BY <1>1
  <2>2. /\ enc.rows[i] = CrxField(e.rows[i], RowOf(before, e.rows[i].sat))
        /\ rows[i] = DecodedRow(crx.crinex, enc.rows[i], prev, i)
      BY <1>4, <1>5
  <2> HIDE DEF rows
  <2>3. PICK r \in CrxRecords : r = e.rows[i]
      BY <2>1
  <2>4. PICK f : f = CrxField(r, RowOf(before, r.sat))
      OBVIOUS
  <2>5. PICK row : row = DecodedRow(crx.crinex, f, prev, i)
      OBVIOUS
  <2>6. AtMostOne(r.val)
      BY <2>1, <2>3 DEF AtMostOne
  <2>7. PICK v : v = crx.crinex /\ FlagFits(v, r)
      BY <1>2, <2>3 DEF CrxCanHold, FlagFits
  <2>8. row = DecodedRow(v, f, prev, i)
      BY <2>5, <2>7
  <2>9. RowKept(f, row) /\ Printed(row) = r
      BY <1>3, <2>4, <2>6, <2>7, <2>8, RowDecoded
  <2>10. QED
      BY <2>2, <2>3, <2>4, <2>5, <2>9
<1>8. RowsKept(enc.rows, rows)
  <2> HIDE DEF rows
  <2>1. QED
      BY <1>5, <1>6, <1>7 DEF RowsKept
<1>9. printed.rows = e.rows
  <2> HIDE DEF rows
  <2>1. printed.rows = [i \in DOMAIN e.rows |-> Printed(rows[i])]
      BY <1>5
  <2>2. QED
      BY <1>6, <1>7, <2>1
<1>10. /\ ClockKept(enc.clock, new)
       /\ e.clock = {} => new.order < 0
       /\ e.clock # {} => /\ new.order >= 0 /\ At(new, new.order) \in Parts
                          /\ Small(At(new, new.order))
                          /\ e.clock = {Val(At(new, new.order))}
  <2>1. ClockKept(crxEnc.clock, crx.clock)
      BY <1>2 DEF CrxIInv
  <2>2. start = crxEnc.clock \/ start = NoClock
      OBVIOUS
  <2> HIDE DEF start
  <2>3. PICK ns \in SUBSET Int : ns = e.clock
      BY <1>1
  <2>4. PICK f : f = ClockEncoded(ns, start)
      OBVIOUS
  <2>5. AtMostOne(ns)
      BY <1>1, <2>3 DEF AtMostOne
  <2>6. f = enc.clock
      BY <1>4, <2>3, <2>4
  <2>7. new = DecodedClock(f, crx.clock)
      BY <2>6
  <2> HIDE DEF new
  <2>8. /\ ClockKept(f, new)
        /\ ns = {} => new.order < 0
        /\ ns # {} => /\ new.order >= 0 /\ At(new, new.order) \in Parts
                      /\ Small(At(new, new.order)) /\ ns = {Val(At(new, new.order))}
      BY <2>1, <2>2, <2>4, <2>5, <2>7, ClockDecoded
  <2>9. QED
      BY <2>3, <2>6, <2>8
<1> HIDE DEF new
<1>11. ClocksPrintable => printed.clock = e.clock
  <2>1. CASE e.clock = {}
      BY <1>10, <2>1
  <2>2. CASE e.clock # {}
    <3>1. ~(new.order < 0)
      <4>1. new.order \in Int
          BY <1>10 DEF ClockKept
      <4>2. QED
          BY <1>10, <2>2, <4>1
    <3>2. ClocksPrintable => formatClock(At(new, new.order)) = Val(At(new, new.order))
      <4>1. ClocksPrintable => ~(/\ Val(At(new, new.order)) < 0
                                 /\ Rem(Val(At(new, new.order)), CrxBase) = 0)
          BY <1>10, <2>2 DEF ClocksPrintable
      <4>2. QED
          BY <1>10, <2>2, <4>1, ClockPrinted
    <3>3. QED
        BY <1>10, <2>2, <3>1, <3>2
  <2>3. QED
      BY <2>1, <2>2
<1>12. \/ crx' = [crx EXCEPT !.stat = "failed"]
       \/ crx' = [crx EXCEPT !.prev = rows, !.clock = new, !.n = @ + 1, !.anew = FALSE,
                             !.real = [clock |-> e.clock, rows |-> e.rows], !.out = printed]
    BY DEF processEpoch, enc, prev, new
<1>13. CASE crx' = [crx EXCEPT !.stat = "failed"]
  <2>1. /\ crx'.stat = "failed" /\ crx'.out = crx.out /\ crx'.real = crx.real
        /\ crx' = [crinex |-> crx'.crinex, prev |-> crx'.prev, n |-> crx'.n, anew |-> crx'.anew, clock |-> crx'.clock,
                   stat |-> crx'.stat, out |-> crx'.out, real |-> crx'.real]
      BY <1>13 DEF CrxIInv, CrxShape
  <2>2. QED
      BY <2>1 DEF CrxIInv, CrxShape, CrxRowsRight
<1>14. CASE crx' = [crx EXCEPT !.prev = rows, !.clock = new, !.n = @ + 1, !.anew = FALSE,
                               !.real = [clock |-> e.clock, rows |-> e.rows], !.out = printed]
  <2>1. printed = [clock |-> printed.clock, rows |-> printed.rows]
      OBVIOUS
  <2> HIDE DEF printed, rows
  <2>2. crx = [crinex |-> crx.crinex, prev |-> crx.prev, n |-> crx.n, anew |-> crx.anew, clock |-> crx.clock,
               stat |-> crx.stat, out |-> crx.out, real |-> crx.real]
      BY DEF CrxIInv, CrxShape
  <2>3. /\ crx'.prev = rows /\ crx'.clock = new /\ crx'.out = printed
        /\ crx'.real = [clock |-> e.clock, rows |-> e.rows]
        /\ crx' = [crinex |-> crx'.crinex, prev |-> crx'.prev, n |-> crx'.n, anew |-> crx'.anew, clock |-> crx'.clock,
                   stat |-> crx'.stat, out |-> crx'.out, real |-> crx'.real]
      BY <1>14, <2>2
  <2>4. crx'.real.clock = e.clock /\ crx'.real.rows = e.rows
      BY <2>3
  <2>5. CrxShape'
      BY <2>1, <2>3 DEF CrxShape
  <2>6. CrxRowsRight'
      BY <1>9, <2>3, <2>4 DEF CrxRowsRight
  <2>7. RowsKept(crxEnc.rows, crx.prev)' /\ ClockKept(crxEnc.clock, crx.clock)'
      BY <1>2, <1>8, <1>10, <2>3
  <2>8. ClocksPrintable => (crx.out.clock = crx.real.clock)'
      BY <1>11, <2>3, <2>4
  <2>9. QED
      BY <2>5, <2>6, <2>7, <2>8 DEF CrxIInv, ClocksPrintable
<1>15. QED
    BY <1>12, <1>13, <1>14

\* Every epoch of a file keeps the decoder with its encoder: the arcs it holds of each
\* satellite and of the clock are those the numbers were written from.
THEOREM CrxInvariant == CrxSpec => []CrxIInv
<1>1. CrxInit => CrxIInv
    BY DEF CrxInit, CrxStart, CrxIInv, CrxShape, CrxRowsRight, RowsKept, ClockKept, NoClock, Zero, Orders
<1>2. CrxIInv /\ [CrxNext]_crxVars => CrxIInv'
  <2> SUFFICES ASSUME CrxIInv, [CrxNext]_crxVars
               PROVE  CrxIInv'
      OBVIOUS
  <2>1. ASSUME NEW e \in CrxEpochs, processEpoch(e) PROVE CrxIInv'
      BY <2>1, EpochDecoded
  <2>2. ASSUME crxEnc' = crxEnc, NEW s, NEW a,
               crx' = [crx EXCEPT !.stat = s] \/ (crx.stat = s /\ crx' = [crx EXCEPT !.anew = a]),
               s = "reading" => crx.stat = "reading"
        PROVE  CrxIInv'
    <3>1. /\ crx'.prev = crx.prev /\ crx'.clock = crx.clock
          /\ crx'.out = crx.out /\ crx'.real = crx.real /\ crx'.stat = s
          /\ crx' = [crinex |-> crx'.crinex, prev |-> crx'.prev, n |-> crx'.n, anew |-> crx'.anew, clock |-> crx'.clock,
                     stat |-> crx'.stat, out |-> crx'.out, real |-> crx'.real]
        BY <2>2 DEF CrxIInv, CrxShape
    <3>2. QED
        BY <2>2, <3>1 DEF CrxIInv, CrxShape, CrxRowsRight, ClocksPrintable
  <2>3. CASE handleEvent
      BY <2>2, <2>3 DEF handleEvent
  <2>4. CASE EndOfFile
      BY <2>2, <2>4 DEF EndOfFile
  <2>5. CASE UNCHANGED crxVars
      BY <2>5 DEF crxVars, CrxIInv, CrxShape, CrxRowsRight, ClocksPrintable
  <2>6. QED
      BY <2>1, <2>3, <2>4, <2>5 DEF CrxNext
<1>3. QED
    BY <1>1, <1>2, PTL DEF CrxSpec

\* What is written of the satellites of an epoch, their values and flags, is what the
\* receiver had, whatever comes, goes or changes places between the epochs.
THEOREM RowsAsOriginal == CrxSpec => []CrxRowsRight
<1>1. CrxIInv => CrxRowsRight
    BY DEF CrxIInv
<1>2. QED
    BY <1>1, CrxInvariant, PTL

\* The whole epoch is, when no clock is of the kind that formatClock prints wrong.
THEOREM CompactIsAsOriginal ==
  ASSUME ClocksPrintable
  PROVE  CrxSpec => []CrxAsOriginal
<1>1. CrxIInv => CrxAsOriginal
    BY DEF CrxIInv, CrxShape, CrxRowsRight, CrxAsOriginal
<1>2. QED
    BY <1>1, CrxInvariant, PTL

-----------------------------------------------------------------------------
(* The charts of a running task. *)

HIDE BaseIs

PlotPoints == Seq(Nat \X Nat)
PlotSkyPoints == [ep : Nat, used : BOOLEAN]
PlotDatas == [gen : Nat, solved : Seq(BOOLEAN), enu : Seq(Nat),
              times : [PlotSats -> Seq(Nat)], vals : [PlotSats -> Seq(Nat)]]

\* A line goes on from its point n to the end of a series.
LineOf(g, sofar, n, ts) ==
  g[n] = sofar /\ \A i \in n + 1 .. Len(ts) : g[i] = PlotPoint(g[i - 1], ts, i)

LEMMA PointIs ==
  ASSUME NEW pts \in PlotPoints, NEW ts \in Seq(Nat), NEW i \in 1 .. Len(ts)
  PROVE  PlotPoint(pts, ts, i) \in PlotPoints
<1> USE DEF PlotPoints
<1>1. ts[i] \in Nat /\ i \in Nat
    OBVIOUS
<1>2. CASE pts # <<>> /\ ts[i] > Last(pts)[1] + 2
  <2>1. Last(pts) \in Nat \X Nat
      BY <1>2 DEF Last
  <2>2. <<Last(pts)[1], 0>> \in Nat \X Nat /\ <<ts[i], i>> \in Nat \X Nat
      BY <1>1, <2>1
  <2>3. <<<<Last(pts)[1], 0>>, <<ts[i], i>>>> \in Seq(Nat \X Nat)
      BY <2>2
  <2>4. PlotPoint(pts, ts, i) = pts \o <<<<Last(pts)[1], 0>>, <<ts[i], i>>>>
      BY <1>2 DEF PlotPoint
  <2>5. QED
      BY <2>3, <2>4
<1>3. CASE ~(pts # <<>> /\ ts[i] > Last(pts)[1] + 2)
  <2>1. PlotPoint(pts, ts, i) = Append(pts, <<ts[i], i>>)
      BY <1>3 DEF PlotPoint
  <2>2. QED
      BY <1>1, <2>1
<1>4. QED
    BY <1>2, <1>3

\* A line that is gone on with is a line.
LEMMA LineIs ==
  ASSUME NEW sofar \in PlotPoints, NEW ts \in Seq(Nat), NEW n \in 0 .. Len(ts)
  PROVE  /\ \E g : LineOf(g, sofar, n, ts) /\ PlotLine(sofar, n, ts) = g[Len(ts)]
         /\ PlotLine(sofar, n, ts) \in PlotPoints
<1> DEFINE N == Len(ts)
           step == [p \in (1 .. N - n) \X PlotPoints |-> PlotPoint(p[2], ts, n + p[1])]
           Sum(line) == [i \in n .. N |-> IF i = n THEN sofar ELSE PlotPoint(line[i - 1], ts, i)]
<1>1. N \in Nat /\ n \in Nat /\ n <= N /\ N - n \in Nat
    OBVIOUS
<1>2. step \in [(1 .. N - n) \X PlotPoints -> PlotPoints]
  <2>1. ASSUME NEW k \in 1 .. N - n PROVE n + k \in 1 .. Len(ts)
      BY <1>1
  <2>2. QED
      BY <2>1, PointIs
<1>3. PICK g : InSteps(g, N - n, PlotPoints, sofar, step)
  <2> HIDE DEF step, N
  <2>1. QED
      BY <1>1, <1>2, StepsExist
<1>4. g \in [0 .. N - n -> PlotPoints] /\ g[0] = sofar
      /\ \A k \in 1 .. N - n : g[k] = PlotPoint(g[k - 1], ts, n + k)
  <2>1. g \in [0 .. N - n -> PlotPoints] /\ g[0] = sofar
        /\ \A k \in 1 .. N - n : g[k] = step[<<k, g[k - 1]>>]
      BY <1>3 DEF InSteps
  <2>2. ASSUME NEW k \in 1 .. N - n PROVE g[k - 1] \in PlotPoints
    <3>1. k - 1 \in 0 .. N - n
        BY <1>1
    <3>2. QED
        BY <2>1, <3>1
  <2>3. QED
      BY <2>1, <2>2
<1> DEFINE f == [i \in n .. N |-> g[i - n]]
<1>5. f = Sum(f)
  <2>1. ASSUME NEW i \in n .. N PROVE f[i] = Sum(f)[i]
    <3>1. CASE i = n
        BY <1>1, <1>4, <3>1
    <3>2. CASE i # n
      <4>1. i - n \in 1 .. N - n /\ i - 1 \in n .. N /\ (i - n) - 1 = (i - 1) - n /\ n + (i - n) = i
          BY <1>1, <3>2
      <4>2. f[i] = g[i - n] /\ f[i - 1] = g[(i - n) - 1]
          BY <4>1
      <4>3. g[i - n] = PlotPoint(g[(i - n) - 1], ts, i)
          BY <1>4, <4>1
      <4>4. QED
          BY <3>2, <4>2, <4>3
    <3>3. QED
        BY <3>1, <3>2
  <2>2. QED
      BY <2>1
<1>6. PICK s : s = CHOOSE line : line = Sum(line)
    OBVIOUS
<1>7. PlotLine(sofar, n, ts) = s[N]
    BY <1>6 DEF PlotLine
<1>8. s = Sum(s)
  <2> HIDE DEF Sum, f
  <2>1. QED
      BY <1>5, <1>6
<1>9. s[n] = sofar /\ \A i \in n + 1 .. N : s[i] = PlotPoint(s[i - 1], ts, i)
  <2>1. \A i \in n .. N : s[i] = IF i = n THEN sofar ELSE PlotPoint(s[i - 1], ts, i)
      BY <1>8
  <2>2. n \in n .. N /\ \A i \in n + 1 .. N : i \in n .. N /\ i # n
      BY <1>1
  <2> HIDE DEF N
  <2>3. QED
      BY <2>1, <2>2
<1>10. LineOf(s, sofar, n, ts)
    BY <1>9 DEF LineOf
<1> DEFINE h == [k \in 0 .. N - n |-> s[n + k]]
<1>11. StepStays(h, N - n, PlotPoints)
  <2>1. h[0] \in PlotPoints
      BY <1>1, <1>9
  <2>2. ASSUME NEW k \in 1 .. N - n, h[k - 1] \in PlotPoints PROVE h[k] \in PlotPoints
    <3>1. n + k \in n + 1 .. N /\ n + (k - 1) = (n + k) - 1 /\ k - 1 \in 0 .. N - n /\ n + k \in 1 .. N
        BY <1>1
    <3>2. h[k - 1] = s[(n + k) - 1] /\ h[k] = s[n + k]
        BY <3>1
    <3>3. QED
        BY <1>9, <2>2, <3>1, <3>2, PointIs
  <2>3. QED
      BY <2>1, <2>2 DEF StepStays
<1>12. StaysIn(h, N - n, PlotPoints)
  <2> HIDE DEF h, N
  <2>1. QED
      BY <1>1, <1>11, StepsStay
<1>13. s[N] \in PlotPoints
  <2>1. N - n \in 0 .. N - n /\ n + (N - n) = N
      BY <1>1
  <2>2. QED
      BY <1>12, <2>1 DEF StaysIn
<1>14. QED
    BY <1>7, <1>10, <1>13

GoOnAlike(g, h, t, u, m, N) ==
  \A i \in m + 1 .. N : /\ g[i] = PlotPoint(g[i - 1], t, i)
                        /\ h[i] = PlotPoint(h[i - 1], u, i) /\ t[i] = u[i]

\* Two lines that are one at point m and go on over the same series end as one.
LEMMA LinesAgree ==
  ASSUME NEW m \in Nat, NEW N \in Nat, m <= N, NEW g, NEW h, NEW t, NEW u, g[m] = h[m],
         GoOnAlike(g, h, t, u, m, N)
  PROVE  g[N] = h[N]
<1> USE DEF GoOnAlike
<1> DEFINE same == [k \in 0 .. N - m |-> IF g[m + k] = h[m + k] THEN 1 ELSE 0]
<1>1. same[0] = 1
    OBVIOUS
<1>2. ASSUME NEW k \in 1 .. N - m, same[k - 1] = 1 PROVE same[k] = 1
  <2>1. m + k \in m + 1 .. N /\ m + (k - 1) = (m + k) - 1 /\ k - 1 \in 0 .. N - m
      OBVIOUS
  <2>2. g[(m + k) - 1] = h[(m + k) - 1]
      BY <1>2, <2>1
  <2>3. PlotPoint(g[(m + k) - 1], t, m + k) = PlotPoint(h[(m + k) - 1], u, m + k)
      BY <2>1, <2>2 DEF PlotPoint
  <2>4. g[m + k] = h[m + k]
      BY <2>1, <2>3
  <2>5. QED
      BY <2>4
<1>3. StepStays(same, N - m, {1})
    BY <1>1, <1>2 DEF StepStays
<1>4. StaysIn(same, N - m, {1})
  <2>1. N - m \in Nat
      OBVIOUS
  <2> HIDE DEF same
  <2>2. QED
      BY <1>3, <2>1, StepsStay
<1>5. N - m \in 0 .. N - m /\ m + (N - m) = N
    OBVIOUS
<1>6. QED
    BY <1>4, <1>5 DEF StaysIn

PlotBeginning(q, r) == Len(q) <= Len(r) /\ \A i \in 1 .. Len(q) : q[i] = r[i]

\* Going on with the line of a beginning gives the line of the whole.
LEMMA LineGoesOn ==
  ASSUME NEW ts \in Seq(Nat), NEW us \in Seq(Nat), PlotBeginning(ts, us)
  PROVE  PlotLine(PlotLine(<<>>, 0, ts), Len(ts), us) = PlotLine(<<>>, 0, us)
<1>1. /\ Len(ts) \in Nat /\ Len(us) \in Nat /\ Len(ts) <= Len(us)
      /\ Len(ts) \in 0 .. Len(us) /\ 0 \in 0 .. Len(us) /\ 0 \in 0 .. Len(ts)
    BY DEF PlotBeginning
<1>2. <<>> \in PlotPoints
    BY DEF PlotPoints
<1>3. PICK g : LineOf(g, <<>>, 0, ts) /\ PlotLine(<<>>, 0, ts) = g[Len(ts)]
    BY <1>1, <1>2, LineIs
<1>4. PICK h : LineOf(h, <<>>, 0, us) /\ PlotLine(<<>>, 0, us) = h[Len(us)]
    BY <1>1, <1>2, LineIs
<1>5. PlotLine(<<>>, 0, ts) \in PlotPoints
    BY <1>1, <1>2, LineIs
<1>6. PICK k : /\ LineOf(k, PlotLine(<<>>, 0, ts), Len(ts), us)
               /\ PlotLine(PlotLine(<<>>, 0, ts), Len(ts), us) = k[Len(us)]
    BY <1>1, <1>5, LineIs
<1>7. g[Len(ts)] = h[Len(ts)]
  <2>1. g[0] = h[0]
      BY <1>3, <1>4 DEF LineOf
  <2>2. ASSUME NEW i \in 0 + 1 .. Len(ts)
        PROVE  /\ g[i] = PlotPoint(g[i - 1], ts, i)
               /\ h[i] = PlotPoint(h[i - 1], us, i) /\ ts[i] = us[i]
    <3>1. i \in 0 + 1 .. Len(us) /\ i \in 1 .. Len(ts)
        BY <1>1
    <3>2. QED
        BY <1>3, <1>4, <3>1 DEF LineOf, PlotBeginning
  <2>3. GoOnAlike(g, h, ts, us, 0, Len(ts))
      BY <2>2 DEF GoOnAlike
  <2>4. QED
    <3> DEFINE m == 0
               N == Len(ts)
    <3>1. m \in Nat /\ N \in Nat /\ m <= N /\ g[m] = h[m] /\ GoOnAlike(g, h, ts, us, m, N)
        BY <1>1, <2>1, <2>3
    <3> HIDE DEF m, N
    <3>2. g[N] = h[N]
        BY <3>1, LinesAgree
    <3>3. QED
        BY <3>2 DEF N
<1>8. k[Len(us)] = h[Len(us)]
  <2>1. k[Len(ts)] = h[Len(ts)]
      BY <1>3, <1>6, <1>7 DEF LineOf
  <2>2. ASSUME NEW i \in Len(ts) + 1 .. Len(us)
        PROVE  /\ k[i] = PlotPoint(k[i - 1], us, i)
               /\ h[i] = PlotPoint(h[i - 1], us, i) /\ us[i] = us[i]
    <3>1. i \in 0 + 1 .. Len(us)
        BY <1>1
    <3>2. QED
        BY <1>4, <1>6, <3>1 DEF LineOf
  <2>3. GoOnAlike(k, h, us, us, Len(ts), Len(us))
      BY <2>2 DEF GoOnAlike
  <2>4. QED
    <3> DEFINE m == Len(ts)
               N == Len(us)
    <3>1. m \in Nat /\ N \in Nat /\ m <= N /\ k[m] = h[m] /\ GoOnAlike(k, h, us, us, m, N)
        BY <1>1, <2>1, <2>3
    <3> HIDE DEF m, N
    <3>2. k[N] = h[N]
        BY <3>1, LinesAgree
    <3>3. QED
        BY <3>2 DEF N
<1>9. QED
    BY <1>4, <1>6, <1>8

-----------------------------------------------------------------------------
(* Sky tracks. *)

SkyPoint(eps, s, e) == [ep |-> e, used |-> s \in eps[e].used]

\* A track has the epochs up to one in which its satellite was seen, once and in order.
TrackRight(eps, s, track, upto) ==
  /\ \A i, j \in DOMAIN track : i < j => track[i].ep < track[j].ep
  /\ \A i \in DOMAIN track : /\ track[i].ep \in 1 .. upto /\ s \in eps[track[i].ep].seen
                             /\ track[i] = SkyPoint(eps, s, track[i].ep)
  /\ \A e \in 1 .. upto : s \in eps[e].seen => \E i \in DOMAIN track : track[i].ep = e

\* One more epoch, which saw the satellite or did not.
TrackStep(eps, s, track, e) ==
  IF s \in eps[e].seen THEN Append(track, SkyPoint(eps, s, e)) ELSE track

LEMMA TrackGrows ==
  ASSUME NEW eps, NEW s, NEW e \in Nat, NEW track \in Seq(PlotSkyPoints),
         TrackRight(eps, s, track, e)
  PROVE  /\ TrackStep(eps, s, track, e + 1) \in Seq(PlotSkyPoints)
         /\ TrackRight(eps, s, TrackStep(eps, s, track, e + 1), e + 1)
<1>1. CASE s \notin eps[e + 1].seen
  <2>1. TrackStep(eps, s, track, e + 1) = track
      BY <1>1 DEF TrackStep
  <2>2. \A d \in 1 .. e + 1 : d = e + 1 \/ d \in 1 .. e
      OBVIOUS
  <2>3. TrackRight(eps, s, track, e + 1)
      BY <1>1, <2>2 DEF TrackRight
  <2>4. QED
      BY <2>1, <2>3
<1>2. CASE s \in eps[e + 1].seen
  <2> DEFINE pt == SkyPoint(eps, s, e + 1)
             new == Append(track, pt)
  <2>1. TrackStep(eps, s, track, e + 1) = new
      BY <1>2 DEF TrackStep
  <2>2. pt \in PlotSkyPoints /\ pt.ep = e + 1
      BY DEF SkyPoint, PlotSkyPoints
  <2>p. pt = SkyPoint(eps, s, e + 1)
      OBVIOUS
  <2> HIDE DEF pt
  <2>3. new \in Seq(PlotSkyPoints)
      BY <2>2
  <2>4. /\ Len(new) = Len(track) + 1 /\ new[Len(track) + 1] = pt
        /\ DOMAIN track = 1 .. Len(track) /\ DOMAIN new = 1 .. Len(track) + 1 /\ Len(track) \in Nat
        /\ \A i \in 1 .. Len(track) : new[i] = track[i]
      BY <2>2
  <2> HIDE DEF new
  <2>5. ASSUME NEW i \in DOMAIN new
        PROVE  \/ i \in DOMAIN track /\ new[i] = track[i] /\ i < Len(track) + 1
               \/ i = Len(track) + 1 /\ new[i] = pt
      BY <2>4
  <2>6. \A i, j \in DOMAIN new : i < j => new[i].ep < new[j].ep
    <3> SUFFICES ASSUME NEW i \in DOMAIN new, NEW j \in DOMAIN new, i < j
                 PROVE  new[i].ep < new[j].ep
        OBVIOUS
    <3>1. i \in DOMAIN track /\ new[i] = track[i]
        BY <2>4, <2>5
    <3>2. CASE j \in DOMAIN track /\ new[j] = track[j]
        BY <3>1, <3>2 DEF TrackRight
    <3>3. CASE new[j] = pt
      <4>1. track[i].ep \in 1 .. e
          BY <3>1 DEF TrackRight
      <4>2. QED
          BY <2>2, <3>1, <3>3, <4>1
    <3>4. QED
        BY <2>5, <3>2, <3>3
  <2>7. ASSUME NEW i \in DOMAIN new
        PROVE  /\ new[i].ep \in 1 .. e + 1 /\ s \in eps[new[i].ep].seen
               /\ new[i] = SkyPoint(eps, s, new[i].ep)
    <3>1. CASE i \in DOMAIN track /\ new[i] = track[i]
      <4>1. /\ track[i].ep \in 1 .. e /\ s \in eps[track[i].ep].seen
            /\ track[i] = SkyPoint(eps, s, track[i].ep)
          BY <3>1 DEF TrackRight
      <4>2. QED
          BY <3>1, <4>1
    <3>2. CASE new[i] = pt
        BY <1>2, <2>2, <2>p, <3>2
    <3>3. QED
        BY <2>5, <3>1, <3>2
  <2>8. ASSUME NEW d \in 1 .. e + 1, s \in eps[d].seen
        PROVE  \E i \in DOMAIN new : new[i].ep = d
    <3>1. CASE d = e + 1
      <4>1. Len(track) + 1 \in DOMAIN new
          BY <2>4
      <4>2. QED
          BY <2>2, <2>4, <3>1, <4>1
    <3>2. CASE d # e + 1
      <4>1. d \in 1 .. e
          BY <3>2
      <4>2. PICK i \in DOMAIN track : track[i].ep = d
          BY <2>8, <4>1 DEF TrackRight
      <4>3. i \in DOMAIN new /\ new[i] = track[i]
          BY <2>4
      <4>4. QED
          BY <4>2, <4>3
    <3>3. QED
        BY <3>1, <3>2
  <2>9. TrackRight(eps, s, new, e + 1)
      BY <2>6, <2>7, <2>8 DEF TrackRight
  <2>10. QED
      BY <2>1, <2>3, <2>9
<1>3. QED
    BY <1>1, <1>2

\* The rest of a track makes it right for all epochs.
LEMMA TrackIs ==
  ASSUME plotEpochs \in Seq(PlotKinds), NEW s, NEW n \in 0 .. Len(plotEpochs),
         NEW track \in Seq(PlotSkyPoints), TrackRight(plotEpochs, s, track, n)
  PROVE  /\ PlotTrack(s, n, track) \in Seq(PlotSkyPoints)
         /\ TrackRight(plotEpochs, s, PlotTrack(s, n, track), Len(plotEpochs))
<1> DEFINE N == Len(plotEpochs)
           V == {p \in (0 .. N) \X Seq(PlotSkyPoints) : TrackRight(plotEpochs, s, p[2], p[1])}
           Sum(line) == [e \in n .. N |-> IF e = n THEN track
                                          ELSE TrackStep(plotEpochs, s, line[e - 1], e)]
           step == [p \in (1 .. N - n) \X Seq(PlotSkyPoints) |->
                      TrackStep(plotEpochs, s, p[2], n + p[1])]
<1>1. N \in Nat /\ n \in Nat /\ n <= N /\ N - n \in Nat
    OBVIOUS
<1>2. step \in [(1 .. N - n) \X Seq(PlotSkyPoints) -> Seq(PlotSkyPoints)]
  <2>1. ASSUME NEW k \in 1 .. N - n, NEW tr \in Seq(PlotSkyPoints)
        PROVE  TrackStep(plotEpochs, s, tr, n + k) \in Seq(PlotSkyPoints)
    <3>1. SkyPoint(plotEpochs, s, n + k) \in PlotSkyPoints
        BY <1>1 DEF SkyPoint, PlotSkyPoints
    <3>2. QED
        BY <3>1 DEF TrackStep
  <2>2. QED
      BY <2>1
<1>3. PICK g : InSteps(g, N - n, Seq(PlotSkyPoints), track, step)
  <2> HIDE DEF step, N
  <2>1. QED
      BY <1>1, <1>2, StepsExist
<1>4. g \in [0 .. N - n -> Seq(PlotSkyPoints)] /\ g[0] = track
      /\ \A k \in 1 .. N - n : g[k] = TrackStep(plotEpochs, s, g[k - 1], n + k)
  <2>1. g \in [0 .. N - n -> Seq(PlotSkyPoints)] /\ g[0] = track
        /\ \A k \in 1 .. N - n : g[k] = step[<<k, g[k - 1]>>]
      BY <1>3 DEF InSteps
  <2>2. ASSUME NEW k \in 1 .. N - n PROVE g[k - 1] \in Seq(PlotSkyPoints)
    <3>1. k - 1 \in 0 .. N - n
        BY <1>1
    <3>2. QED
        BY <2>1, <3>1
  <2>3. QED
      BY <2>1, <2>2
<1> DEFINE f == [e \in n .. N |-> g[e - n]]
<1>5. f = Sum(f)
  <2>1. ASSUME NEW e \in n .. N PROVE f[e] = Sum(f)[e]
    <3>1. CASE e = n
        BY <1>1, <1>4, <3>1
    <3>2. CASE e # n
      <4>1. e - n \in 1 .. N - n /\ e - 1 \in n .. N /\ (e - n) - 1 = (e - 1) - n /\ n + (e - n) = e
          BY <1>1, <3>2
      <4>2. f[e] = g[e - n] /\ f[e - 1] = g[(e - n) - 1]
          BY <4>1
      <4>3. g[e - n] = TrackStep(plotEpochs, s, g[(e - n) - 1], e)
          BY <1>4, <4>1
      <4>4. QED
          BY <3>2, <4>2, <4>3
    <3>3. QED
        BY <3>1, <3>2
  <2>2. QED
      BY <2>1
<1>6. PICK l : l = CHOOSE line : line = Sum(line)
    OBVIOUS
<1>7. PlotTrack(s, n, track) = l[N]
    BY <1>6 DEF PlotTrack, TrackStep, PlotSkyPoint, SkyPoint
<1>8. l = Sum(l)
  <2> HIDE DEF Sum, f
  <2>1. QED
      BY <1>5, <1>6
<1>9. l[n] = track /\ \A e \in n + 1 .. N : l[e] = TrackStep(plotEpochs, s, l[e - 1], e)
  <2>1. \A e \in n .. N : l[e] = IF e = n THEN track ELSE TrackStep(plotEpochs, s, l[e - 1], e)
      BY <1>8
  <2>2. n \in n .. N /\ \A e \in n + 1 .. N : e \in n .. N /\ e # n
      BY <1>1
  <2> HIDE DEF N
  <2>3. QED
      BY <2>1, <2>2
<1> DEFINE h == [k \in 0 .. N - n |-> <<n + k, l[n + k]>>]
<1>10. StepStays(h, N - n, V)
  <2>1. h[0] \in V
      BY <1>1, <1>9
  <2>2. ASSUME NEW k \in 1 .. N - n, h[k - 1] \in V PROVE h[k] \in V
    <3>1. /\ n + k \in n + 1 .. N /\ n + (k - 1) = (n + k) - 1 /\ k - 1 \in 0 .. N - n
          /\ n + k \in 0 .. N /\ n + (k - 1) \in Nat /\ (n + (k - 1)) + 1 = n + k
        BY <1>1
    <3>2. h[k - 1] = <<n + (k - 1), l[n + (k - 1)]>> /\ h[k] = <<n + k, l[n + k]>>
        BY <3>1
    <3>3. l[n + (k - 1)] \in Seq(PlotSkyPoints) /\ TrackRight(plotEpochs, s, l[n + (k - 1)], n + (k - 1))
        BY <2>2, <3>2
    <3>4. l[n + k] = TrackStep(plotEpochs, s, l[n + (k - 1)], n + k)
        BY <1>9, <3>1
    <3>5. l[n + k] \in Seq(PlotSkyPoints) /\ TrackRight(plotEpochs, s, l[n + k], n + k)
        BY <3>1, <3>3, <3>4, TrackGrows
    <3>6. QED
        BY <3>1, <3>2, <3>5
  <2>3. QED
      BY <2>1, <2>2 DEF StepStays
<1>11. StaysIn(h, N - n, V)
  <2> HIDE DEF h, N, V
  <2>1. QED
      BY <1>1, <1>10, StepsStay
<1>12. l[N] \in Seq(PlotSkyPoints) /\ TrackRight(plotEpochs, s, l[N], N)
  <2>1. N - n \in 0 .. N - n /\ n + (N - n) = N
      BY <1>1
  <2>2. h[N - n] = <<N, l[N]>>
      BY <2>1
  <2>3. h[N - n] \in V
      BY <1>11, <2>1 DEF StaysIn
  <2>4. QED
      BY <2>2, <2>3
<1>13. QED
    BY <1>7, <1>12

-----------------------------------------------------------------------------
(* The chart series and their copy. *)

\* As many values as epoch numbers, and those of stored epochs, in order.
PlotInOrder(d) ==
  /\ Len(d.enu) = Len(d.solved)
  /\ \A s \in PlotSats :
       /\ d.vals[s] = d.times[s]
       /\ \A i \in 1 .. Len(d.times[s]) : d.times[s][i] \in 1 .. Len(d.solved)

\* What the series of d were when c was taken.
PlotEarlier(c, d) ==
  /\ PlotBeginning(c.solved, d.solved) /\ PlotBeginning(c.enu, d.enu)
  /\ \A s \in PlotSats :
       /\ PlotBeginning(c.times[s], d.times[s])
       /\ \A i \in 1 .. Len(d.times[s]) : i > Len(c.times[s]) => d.times[s][i] > Len(c.solved)

LEMMA TailIs ==
  ASSUME NEW S, NEW q \in Seq(S), NEW r \in Seq(S), PlotBeginning(q, r)
  PROVE  PlotTail(q, r, Len(q)) = r
<1> DEFINE t == SubSeq(r, Len(q) + 1, Len(r))
<1>1. Len(q) \in Nat /\ Len(r) \in Nat /\ Len(q) <= Len(r)
    BY DEF PlotBeginning
<1>2. t \in Seq(S) /\ Len(t) = Len(r) - Len(q)
      /\ \A i \in 1 .. Len(r) - Len(q) : t[i] = r[Len(q) + i]
    BY <1>1
<1> HIDE DEF t
<1>3. q \o t \in Seq(S) /\ Len(q \o t) = Len(r)
    BY <1>1, <1>2
<1>4. ASSUME NEW i \in 1 .. Len(r) PROVE (q \o t)[i] = r[i]
  <2>1. CASE i <= Len(q)
      BY <1>1, <1>2, <2>1 DEF PlotBeginning
  <2>2. CASE i > Len(q)
    <3>1. i - Len(q) \in 1 .. Len(r) - Len(q) /\ Len(q) + (i - Len(q)) = i
        BY <1>1, <2>2
    <3>2. (q \o t)[i] = t[i - Len(q)]
        BY <1>1, <1>2, <2>2
    <3>3. QED
        BY <1>2, <3>1, <3>2
  <2>3. i <= Len(q) \/ i > Len(q)
      BY <1>1
  <2>4. QED
      BY ONLY <2>1, <2>2, <2>3
<1>5. q \o t = r
  <2> DEFINE whole == q \o t
  <2>1. whole \in Seq(S) /\ Len(whole) = Len(r) /\ \A i \in 1 .. Len(r) : whole[i] = r[i]
      BY <1>3, <1>4
  <2> HIDE DEF whole
  <2>2. whole = r
      BY <1>1, <2>1
  <2>3. QED
      BY <2>2 DEF whole
<1>6. QED
    BY <1>5 DEF PlotTail, t

\* The lower bound of the last epoch of the copy is the number of its points.
LEMMA UpToIs ==
  ASSUME NEW ts \in Seq(Nat), NEW n \in Nat, NEW k \in Nat, k <= Len(ts),
         \A i \in 1 .. Len(ts) : ts[i] > n <=> i > k
  PROVE  PlotUpTo(ts, n) = k
<1> DEFINE after == {i \in DOMAIN ts : ts[i] > n}
<1>1. DOMAIN ts = 1 .. Len(ts) /\ Len(ts) \in Nat /\ k \in Nat /\ k <= Len(ts)
    OBVIOUS
<1>2. PlotUpTo(ts, n) = IF after = {} THEN Len(ts) ELSE Min(after) - 1
    BY DEF PlotUpTo
<1>3. after = k + 1 .. Len(ts)
    BY <1>1
<1> HIDE DEF after
<1>4. CASE k = Len(ts)
    BY <1>1, <1>2, <1>3, <1>4
<1>5. CASE k # Len(ts)
  <2>1. k + 1 \in after /\ \A i \in after : k + 1 <= i
    <3>1. k + 1 <= Len(ts)
      <4> DEFINE n1 == Len(ts)
      <4>1. n1 \in Nat /\ k \in Nat /\ k <= n1 /\ k # n1
          BY <1>1, <1>5
      <4> HIDE DEF n1
      <4>2. k + 1 <= n1
          BY ONLY <4>1
      <4>3. QED
          BY <4>2 DEF n1
    <3>2. k + 1 \in k + 1 .. Len(ts)
        BY <1>1, <3>1
    <3>3. QED
        BY <1>3, <3>2
  <2>2. \A x \in after : (\A i \in after : x <= i) => x = k + 1
      BY <1>1, <1>3, <2>1
  <2>3. Min(after) = k + 1
      BY <2>1, <2>2 DEF Min
  <2>4. QED
      BY <1>2, <2>1, <2>3
<1>6. QED
    BY <1>4, <1>5

\* What appendFrom makes of an earlier copy is the series.
LEMMA AppendedIs ==
  ASSUME NEW c \in PlotDatas, NEW d \in PlotDatas, PlotInOrder(c), PlotInOrder(d), PlotEarlier(c, d)
  PROVE  PlotAppended(c, d, Len(c.solved)) = d
<1> DEFINE n == Len(c.solved)
<1>1. /\ c.solved \in Seq(BOOLEAN) /\ d.solved \in Seq(BOOLEAN)
      /\ c.enu \in Seq(Nat) /\ d.enu \in Seq(Nat) /\ n \in Nat
    BY DEF PlotDatas
<1>2. PlotTail(c.solved, d.solved, n) = d.solved
    BY <1>1, TailIs DEF PlotEarlier
<1>3. PlotTail(c.enu, d.enu, n) = d.enu
  <2>1. Len(c.enu) = n
      BY DEF PlotInOrder
  <2>2. PlotTail(c.enu, d.enu, Len(c.enu)) = d.enu
      BY <1>1, TailIs DEF PlotEarlier
  <2>3. QED
      BY <2>1, <2>2
<1>4. ASSUME NEW s \in PlotSats
      PROVE  /\ PlotTail(c.times[s], d.times[s], PlotUpTo(d.times[s], n)) = d.times[s]
             /\ Len(c.vals[s]) <= Len(d.vals[s])
             /\ PlotTail(c.vals[s], d.vals[s], Len(c.vals[s])) = d.vals[s]
  <2>1. /\ c.times[s] \in Seq(Nat) /\ d.times[s] \in Seq(Nat)
        /\ c.vals[s] = c.times[s] /\ d.vals[s] = d.times[s]
        /\ PlotBeginning(c.times[s], d.times[s])
      BY DEF PlotDatas, PlotInOrder, PlotEarlier
  <2>2. PlotTail(c.times[s], d.times[s], Len(c.times[s])) = d.times[s]
      BY <2>1, TailIs
  <2>3. Len(c.times[s]) \in Nat /\ Len(d.times[s]) \in Nat /\ Len(c.times[s]) <= Len(d.times[s])
      BY <2>1 DEF PlotBeginning
  <2>4. ASSUME NEW i \in 1 .. Len(d.times[s]) PROVE d.times[s][i] > n <=> i > Len(c.times[s])
    <3>1. CASE i > Len(c.times[s])
        BY <3>1 DEF PlotEarlier
    <3>2. CASE ~(i > Len(c.times[s]))
      <4>1. i \in 1 .. Len(c.times[s])
          BY <2>3, <3>2
      <4>2. d.times[s][i] = c.times[s][i] /\ c.times[s][i] \in 1 .. n
          BY <2>1, <4>1 DEF PlotBeginning, PlotInOrder
      <4>3. QED
          BY <1>1, <3>2, <4>2
    <3>3. QED
        BY <3>1, <3>2
  <2>5. PlotUpTo(d.times[s], n) = Len(c.times[s])
    <3> HIDE DEF n
    <3>1. QED
        BY <1>1, <2>1, <2>3, <2>4, UpToIs
  <2>6. QED
      BY <2>1, <2>2, <2>3, <2>5
<1>5. [s \in PlotSats |-> PlotTail(c.times[s], d.times[s], PlotUpTo(d.times[s], n))] = d.times
  <2>1. d.times = [s \in PlotSats |-> d.times[s]]
      BY DEF PlotDatas
  <2>2. QED
      BY <1>4, <2>1
<1>6. [s \in PlotSats |->
         LET have == Len(c.vals[s])
         IN PlotTail(c.vals[s], d.vals[s], IF have <= Len(d.vals[s]) THEN have ELSE Len(d.vals[s]))] = d.vals
  <2>1. d.vals = [s \in PlotSats |-> d.vals[s]]
      BY DEF PlotDatas
  <2>2. QED
      BY <1>4, <2>1
<1>7. d = [gen |-> d.gen, solved |-> d.solved, enu |-> d.enu, times |-> d.times, vals |-> d.vals]
    BY DEF PlotDatas
<1>8. PlotAppended(c, d, n)
        = [gen |-> d.gen, solved |-> d.solved, enu |-> d.enu, times |-> d.times, vals |-> d.vals]
    BY <1>2, <1>3, <1>5, <1>6 DEF PlotAppended
<1>9. QED
    BY <1>7, <1>8

\* The axis that a build from nothing gives.
PlotDrawn(ts, tag) ==
  IF ts = <<>> THEN PlotNoAxis
  ELSE [pts |-> PlotLine(<<>>, 0, ts), n |-> Len(ts), last |-> ts[Len(ts)], tag |-> tag]

LEMMA DrawnFresh ==
  ASSUME NEW ts \in Seq(Nat), NEW tag
  PROVE  PlotAxis(PlotNoAxis, ts, tag) = PlotDrawn(ts, tag)
BY DEF PlotAxis, PlotNoAxis, PlotDrawn, Last

\* A build goes on from the axis of an earlier copy of the same generation, or begins anew.
LEMMA DrawnAgain ==
  ASSUME NEW ts \in Seq(Nat), NEW us \in Seq(Nat), NEW g \in Nat, NEW h \in Nat,
         g = h => PlotBeginning(ts, us)
  PROVE  PlotAxis(PlotDrawn(ts, g), us, h) = PlotDrawn(us, h)
<1>1. CASE us = <<>>
    BY <1>1 DEF PlotAxis, PlotDrawn
<1>2. CASE us # <<>> /\ ts = <<>>
  <2>1. PlotDrawn(ts, g) = PlotNoAxis
      BY <1>2 DEF PlotDrawn
  <2>2. QED
      BY <2>1, DrawnFresh
<1>3. CASE us # <<>> /\ ts # <<>>
  <2> DEFINE ax == PlotDrawn(ts, g)
             new(from) == [pts |-> PlotLine(from.pts, from.n, us), n |-> Len(us), last |-> Last(us), tag |-> h]
  <2>1. ax.n = Len(ts) /\ ax.tag = g /\ ax.last = ts[Len(ts)] /\ ax.pts = PlotLine(<<>>, 0, ts)
      BY <1>3 DEF PlotDrawn
  <2>2. PlotDrawn(us, h) = [pts |-> PlotLine(<<>>, 0, us), n |-> Len(us), last |-> Last(us), tag |-> h]
      BY <1>3 DEF PlotDrawn, Last
  <2> HIDE DEF ax
  <2>3. CASE g = h
    <3>1. PlotBeginning(ts, us)
        BY <2>3
    <3>2. Len(ts) \in Nat /\ Len(ts) > 0 /\ Len(ts) <= Len(us) /\ ts[Len(ts)] = us[Len(ts)]
        BY <1>3, <3>1 DEF PlotBeginning
    <3>3. h = ax.tag /\ ax.n > 0 /\ ax.n <= Len(us) /\ us[ax.n] = ax.last
        BY <2>1, <2>3, <3>2
    <3>4. PlotAxis(ax, us, h) = new(ax)
        BY <1>3, <3>3 DEF PlotAxis
    <3>5. PlotLine(ax.pts, ax.n, us) = PlotLine(<<>>, 0, us)
        BY <2>1, <3>1, LineGoesOn
    <3>6. QED
        BY <2>2, <3>4, <3>5 DEF ax
  <2>4. CASE g # h
    <3>1. PlotAxis(ax, us, h) = new(PlotNoAxis)
        BY <1>3, <2>1, <2>4 DEF PlotAxis
    <3>2. new(PlotNoAxis) = PlotDrawn(us, h)
        BY <2>2 DEF PlotNoAxis
    <3>3. QED
        BY <3>1, <3>2 DEF ax
  <2>5. QED
      BY <2>3, <2>4
<1>4. QED
    BY <1>1, <1>2, <1>3

\* An epoch stored keeps the series in order, and an earlier copy earlier.
Inserted(c, d, e, ep, ref) ==
  /\ e \in PlotDatas /\ e.gen = d.gen /\ PlotInOrder(e)
  /\ e.solved = Append(d.solved, ep.solved)
  /\ e.enu = Append(d.enu, IF ep.solved THEN ref ELSE PlotNone)
  /\ PlotEarlier(c, d) => PlotEarlier(c, e)

LEMMA InsertIs ==
  ASSUME NEW c \in PlotDatas, NEW d \in PlotDatas, PlotInOrder(d), NEW ep \in PlotKinds,
         NEW ref \in Nat, NEW i \in Nat, i = Len(d.solved) + 1
  PROVE  Inserted(c, d, PlotInsert(d, i, ep, ref), ep, ref)
<1> DEFINE e == PlotInsert(d, i, ep, ref)
           add(q) == [s \in PlotSats |-> IF ep.solved /\ s \in ep.used THEN Append(q[s], i) ELSE q[s]]
           pt == IF ep.solved THEN ref ELSE PlotNone
<1>1. ep.solved \in BOOLEAN /\ pt \in Nat
    BY PlotAssumption DEF PlotNone
<1>2. /\ d = [gen |-> d.gen, solved |-> d.solved, enu |-> d.enu, times |-> d.times, vals |-> d.vals]
      /\ d.gen \in Nat /\ d.solved \in Seq(BOOLEAN) /\ d.enu \in Seq(Nat)
      /\ d.times \in [PlotSats -> Seq(Nat)] /\ d.vals \in [PlotSats -> Seq(Nat)]
    BY DEF PlotDatas
<1>3. /\ e.gen = d.gen /\ e.solved = Append(d.solved, ep.solved) /\ e.enu = Append(d.enu, pt)
      /\ e.times = add(d.times) /\ e.vals = add(d.vals)
      /\ e = [gen |-> e.gen, solved |-> e.solved, enu |-> e.enu, times |-> e.times, vals |-> e.vals]
  <2>1. e = [gen |-> d.gen, solved |-> Append(d.solved, ep.solved), enu |-> Append(d.enu, pt),
             times |-> add(d.times), vals |-> add(d.vals)]
    <3>1. e = [d EXCEPT !.solved = Append(d.solved, ep.solved), !.enu = Append(d.enu, pt),
                        !.times = add(d.times), !.vals = add(d.vals)]
        BY DEF PlotInsert
    <3> DEFINE so == Append(d.solved, ep.solved)
               en == Append(d.enu, pt)
               ti == add(d.times)
               va == add(d.vals)
    <3> HIDE DEF so, en, ti, va
    <3>2. [d EXCEPT !.solved = so, !.enu = en, !.times = ti, !.vals = va]
            = [gen |-> d.gen, solved |-> so, enu |-> en, times |-> ti, vals |-> va]
      <4> DEFINE n == [d EXCEPT !.solved = so, !.enu = en, !.times = ti, !.vals = va]
                 fields == {"gen", "solved", "enu", "times", "vals"}
      <4>0. DOMAIN n = fields
          BY <1>2
      <4>1. n = [x \in fields |-> n[x]]
          BY <4>0
      <4>2. n.gen = d.gen /\ n.solved = so /\ n.enu = en /\ n.times = ti /\ n.vals = va
          BY <1>2
      <4> HIDE DEF n
      <4>3. n = [gen |-> d.gen, solved |-> so, enu |-> en, times |-> ti, vals |-> va]
          BY <4>0, <4>1, <4>2
      <4>4. QED
          BY <4>3 DEF n
    <3>3. QED
        BY <3>1, <3>2 DEF so, en, ti, va
  <2> HIDE DEF e, pt, add
  <2>2. QED
      BY <2>1
<1>4. add(d.times) \in [PlotSats -> Seq(Nat)] /\ add(d.vals) \in [PlotSats -> Seq(Nat)]
    BY <1>2
<1> HIDE DEF e, pt
<1>5. e.solved \in Seq(BOOLEAN) /\ e.enu \in Seq(Nat)
      /\ Len(e.solved) = Len(d.solved) + 1 /\ Len(e.enu) = Len(d.enu) + 1
    BY <1>1, <1>2, <1>3
<1>6. e \in PlotDatas
    BY <1>2, <1>3, <1>4, <1>5 DEF PlotDatas
<1>7. Len(d.solved) \in Nat /\ Len(d.enu) = Len(d.solved)
    BY <1>2 DEF PlotInOrder
<1>8. ASSUME NEW s \in PlotSats
      PROVE  /\ e.vals[s] = e.times[s] /\ Len(d.times[s]) \in Nat
             /\ e.times[s] = d.times[s] \/ e.times[s] = Append(d.times[s], i)
             /\ Len(e.times[s]) >= Len(d.times[s]) /\ Len(e.times[s]) \in Nat
             /\ \A k \in 1 .. Len(d.times[s]) : e.times[s][k] = d.times[s][k]
             /\ \A k \in 1 .. Len(e.times[s]) : k > Len(d.times[s]) => e.times[s][k] = i
  <2>1. d.vals[s] = d.times[s] /\ d.times[s] \in Seq(Nat)
      BY <1>2 DEF PlotInOrder
  <2>2. e.vals[s] = e.times[s]
      BY <1>3, <2>1
  <2>3. CASE ep.solved /\ s \in ep.used
    <3>1. e.times[s] = Append(d.times[s], i)
        BY <1>3, <2>3
    <3> DEFINE q == d.times[s]
               new == Append(q, i)
    <3>2. q \in Seq(Nat) /\ Len(q) \in Nat /\ i \in Nat
        BY <2>1
    <3> HIDE DEF q
    <3>3. Len(new) = Len(q) + 1 /\ new[Len(q) + 1] = i /\ \A k \in 1 .. Len(q) : new[k] = q[k]
        BY <3>2
    <3> HIDE DEF new
    <3>4. /\ Len(new) >= Len(q) /\ Len(new) \in Nat
          /\ \A k \in 1 .. Len(new) : k > Len(q) => new[k] = i
      <4>1. \A k \in 1 .. Len(new) : k > Len(q) => k = Len(q) + 1
          BY <3>2, <3>3
      <4>2. QED
          BY <3>2, <3>3, <4>1
    <3>5. e.times[s] = new
        BY <3>1 DEF new, q
    <3>6. QED
        BY <2>2, <3>1, <3>2, <3>3, <3>4, <3>5 DEF q
  <2>4. CASE ~(ep.solved /\ s \in ep.used)
    <3>1. e.times[s] = d.times[s]
        BY <1>3, <2>4
    <3>2. QED
        BY <2>1, <2>2, <3>1
  <2>5. QED
      BY <2>3, <2>4
<1>9. PlotInOrder(e)
  <2>1. ASSUME NEW s \in PlotSats, NEW k \in 1 .. Len(e.times[s])
        PROVE  e.times[s][k] \in 1 .. Len(e.solved)
    <3>1. CASE k > Len(d.times[s])
        BY <1>5, <1>7, <1>8, <3>1
    <3>2. CASE ~(k > Len(d.times[s]))
      <4>1. k \in 1 .. Len(d.times[s])
          BY <1>8, <3>2
      <4>2. e.times[s][k] = d.times[s][k] /\ d.times[s][k] \in 1 .. Len(d.solved)
          BY <1>8, <4>1 DEF PlotInOrder
      <4>3. QED
          BY <1>5, <1>7, <4>2
    <3>3. QED
        BY <3>1, <3>2
  <2>2. QED
      BY <1>5, <1>7, <1>8, <2>1 DEF PlotInOrder
<1>10. ASSUME PlotEarlier(c, d) PROVE PlotEarlier(c, e)
  <2>1. /\ c.solved \in Seq(BOOLEAN) /\ c.enu \in Seq(Nat) /\ Len(c.solved) \in Nat /\ Len(c.enu) \in Nat
        /\ PlotBeginning(c.solved, d.solved) /\ PlotBeginning(c.enu, d.enu)
      BY <1>10 DEF PlotDatas, PlotEarlier
  <2>2. Len(c.solved) <= Len(d.solved) /\ Len(c.enu) <= Len(d.enu)
      BY <2>1 DEF PlotBeginning
  <2>3. PlotBeginning(c.solved, e.solved)
    <3>1. ASSUME NEW k \in 1 .. Len(c.solved) PROVE c.solved[k] = e.solved[k]
      <4>1. k \in 1 .. Len(d.solved)
          BY <1>7, <2>1, <2>2
      <4>2. QED
          BY <1>1, <1>2, <1>3, <2>1, <4>1 DEF PlotBeginning
    <3>2. QED
        BY <1>5, <1>7, <2>1, <2>2, <3>1 DEF PlotBeginning
  <2>4. PlotBeginning(c.enu, e.enu)
    <3>1. ASSUME NEW k \in 1 .. Len(c.enu) PROVE c.enu[k] = e.enu[k]
      <4>1. k \in 1 .. Len(d.enu)
          BY <1>7, <2>1, <2>2
      <4>2. QED
          BY <1>1, <1>2, <1>3, <2>1, <4>1 DEF PlotBeginning
    <3>2. QED
        BY <1>5, <1>7, <2>1, <2>2, <3>1 DEF PlotBeginning
  <2>5. ASSUME NEW s \in PlotSats
        PROVE  /\ PlotBeginning(c.times[s], e.times[s])
               /\ \A k \in 1 .. Len(e.times[s]) : k > Len(c.times[s]) => e.times[s][k] > Len(c.solved)
    <3>1. PlotBeginning(c.times[s], d.times[s]) /\ c.times[s] \in Seq(Nat) /\ Len(c.times[s]) \in Nat
        BY <1>10 DEF PlotEarlier, PlotDatas
    <3>2. Len(c.times[s]) <= Len(d.times[s])
        BY <3>1 DEF PlotBeginning
    <3>3. ASSUME NEW k \in 1 .. Len(c.times[s]) PROVE c.times[s][k] = e.times[s][k]
      <4>1. k \in 1 .. Len(d.times[s])
          BY <1>8, <3>1, <3>2
      <4>2. QED
          BY <1>8, <3>1, <4>1 DEF PlotBeginning
    <3>4. PlotBeginning(c.times[s], e.times[s])
      <4>1. Len(c.times[s]) <= Len(e.times[s])
          BY <1>8, <3>1, <3>2
      <4>2. QED
          BY <3>3, <4>1 DEF PlotBeginning
    <3>5. ASSUME NEW k \in 1 .. Len(e.times[s]), k > Len(c.times[s])
          PROVE  e.times[s][k] > Len(c.solved)
      <4>1. CASE k > Len(d.times[s])
          BY <1>7, <1>8, <2>1, <2>2, <4>1
      <4>2. CASE ~(k > Len(d.times[s]))
        <5>1. k \in 1 .. Len(d.times[s])
            BY <1>8, <4>2
        <5>2. QED
            BY <1>8, <1>10, <3>5, <5>1 DEF PlotEarlier
      <4>3. QED
          BY <4>1, <4>2
    <3>6. QED
        BY <3>4, <3>5
  <2>6. QED
      BY <2>3, <2>4, <2>5 DEF PlotEarlier
<1>11. e.enu = Append(d.enu, IF ep.solved THEN ref ELSE PlotNone)
    BY <1>3 DEF pt
<1>12. Inserted(c, d, e, ep, ref)
    BY <1>3, <1>6, <1>9, <1>10, <1>11 DEF Inserted
<1>13. QED
    BY <1>12 DEF e

\* The points drawn anew: as many, of the next generation, and the residuals as they were.
LEMMA RefreshedIs ==
  ASSUME NEW d \in PlotDatas, PlotInOrder(d), NEW ref \in Nat
  PROVE  LET e == PlotRefreshed(d, ref)
         IN /\ e \in PlotDatas /\ e.gen = d.gen + 1 /\ PlotInOrder(e) /\ e.solved = d.solved
            /\ \A i \in 1 .. Len(d.solved) : d.solved[i] => e.enu[i] = ref
<1> DEFINE e == PlotRefreshed(d, ref)
           enu == [i \in DOMAIN d.enu |-> IF d.solved[i] THEN ref ELSE PlotNone]
<1>1. /\ d = [gen |-> d.gen, solved |-> d.solved, enu |-> d.enu, times |-> d.times, vals |-> d.vals]
      /\ d.gen \in Nat /\ d.solved \in Seq(BOOLEAN) /\ d.enu \in Seq(Nat)
      /\ d.times \in [PlotSats -> Seq(Nat)] /\ d.vals \in [PlotSats -> Seq(Nat)]
    BY DEF PlotDatas
<1>2. e = [gen |-> d.gen + 1, solved |-> d.solved, enu |-> enu, times |-> d.times, vals |-> d.vals]
  <2>1. e = [d EXCEPT !.gen = d.gen + 1, !.enu = enu]
      BY DEF PlotRefreshed
  <2> HIDE DEF enu
  <2>2. [d EXCEPT !.gen = d.gen + 1, !.enu = enu]
          = [gen |-> d.gen + 1, solved |-> d.solved, enu |-> enu, times |-> d.times, vals |-> d.vals]
    <3> DEFINE n == [d EXCEPT !.gen = d.gen + 1, !.enu = enu]
               fields == {"gen", "solved", "enu", "times", "vals"}
    <3>0. DOMAIN n = fields
        BY <1>1
    <3>1. n = [x \in fields |-> n[x]]
        BY <3>0
    <3>2. /\ n.gen = d.gen + 1 /\ n.solved = d.solved /\ n.enu = enu
          /\ n.times = d.times /\ n.vals = d.vals
        BY <1>1
    <3> HIDE DEF n
    <3>3. n = [gen |-> d.gen + 1, solved |-> d.solved, enu |-> enu, times |-> d.times, vals |-> d.vals]
        BY <3>0, <3>1, <3>2
    <3>4. QED
        BY <3>3 DEF n
  <2>3. QED
      BY <2>1, <2>2
<1>3. DOMAIN d.enu = 1 .. Len(d.solved) /\ Len(d.solved) \in Nat
    BY <1>1 DEF PlotInOrder
<1>4. enu \in [1 .. Len(d.solved) -> Nat]
    BY <1>3 DEF PlotNone
<1> DEFINE n == Len(d.solved)
<1>5. enu \in Seq(Nat) /\ Len(enu) = n
  <2> HIDE DEF enu, n
  <2>1. n \in Nat /\ enu \in [1 .. n -> Nat]
      BY <1>3, <1>4 DEF n
  <2>2. QED
      BY <2>1
<1>6. \A i \in 1 .. n : d.solved[i] => enu[i] = ref
    BY <1>3
<1> HIDE DEF enu, e
<1>7. e.gen = d.gen + 1 /\ e.solved = d.solved /\ e.enu = enu /\ e.times = d.times /\ e.vals = d.vals
    BY <1>2
<1>8. e \in PlotDatas
    BY <1>1, <1>2, <1>5 DEF PlotDatas
<1>9. PlotInOrder(e)
    BY <1>5, <1>7 DEF PlotInOrder
<1>10. QED
    BY <1>6, <1>7, <1>8, <1>9 DEF e

-----------------------------------------------------------------------------
(* The page as a whole. *)

PlotFrames == [at : {"idle", "begun", "sky", "drawing", "edited", "copied"},
               count : Nat, sel : Nat, local : Nat, copy : Nat]

PlotTyped ==
  /\ plotWorker \in [at : {"idle", "solved"}, epoch : PlotKinds \cup {<<>>}]
  /\ plotWorker.at = "solved" => plotWorker.epoch \in PlotKinds
  /\ plotEpochs \in Seq(PlotKinds)
  /\ plotRef \in Nat /\ plotRefSet \in BOOLEAN /\ plotEdits \in Nat
  /\ plotSel \in Nat /\ plotAway \in BOOLEAN
  /\ plotFrame \in PlotFrames

\* The series are those of the epochs stored.
PlotStored ==
  /\ plotData.data \in PlotDatas /\ plotData.revision \in Nat
  /\ PlotInOrder(plotData.data) /\ Len(plotData.data.solved) = Len(plotEpochs)

\* The copy is the series of an earlier moment, by the generation and the revision it bears.
PlotCopied ==
  /\ plotSeries.data \in PlotDatas /\ plotSeries.revision \in Nat /\ PlotInOrder(plotSeries.data)
  /\ plotSeries.data.gen <= plotData.data.gen /\ plotSeries.revision <= plotData.revision
  /\ plotSeries.data.gen = plotData.data.gen => PlotEarlier(plotSeries.data, plotData.data)
  /\ plotSeries.revision = plotData.revision =>
       \/ plotSeries.data = plotData.data
       \/ plotSeries.data = PlotEmpty /\ plotData.data = [PlotEmpty EXCEPT !.gen = 1]
  /\ \A s \in PlotSats :
       plotSeries.axis[s] = PlotDrawn(plotSeries.data.times[s], plotSeries.data.gen)

PlotTracked ==
  /\ plotSky.built \in 0 .. Len(plotEpochs)
  /\ \A s \in PlotSats : /\ plotSky.tracks[s] \in Seq(PlotSkyPoints)
                         /\ TrackRight(plotEpochs, s, plotSky.tracks[s], plotSky.built)

\* Whoever is changing the reference, and whatever is drawn, has one to start from.
PlotReferred ==
  /\ plotFrame.at \in {"edited", "copied"} => plotRefSet
  /\ plotFrame.at = "copied" => plotFrame.copy = plotRef
  /\ \A i \in 1 .. Len(plotEpochs) : plotData.data.solved[i] => plotRefSet
  /\ ~plotOnStored /\ plotWorker.at = "solved" /\ plotWorker.epoch.solved => plotRefSet
  /\ plotFrame.at \notin {"edited", "copied"} =>
       \A i \in 1 .. Len(plotEpochs) : plotData.data.solved[i] => plotData.data.enu[i] = plotRef

PlotInvariant == PlotTyped /\ PlotStored /\ PlotCopied /\ PlotTracked /\ PlotSelFollows

LEMMA PlotStarts == PlotInit => PlotInvariant /\ PlotReferred
<1> SUFFICES ASSUME PlotInit PROVE PlotInvariant /\ PlotReferred
    OBVIOUS
<1> USE DEF PlotInit
<1>1. PlotTyped
  <2>1. plotWorker \in [at : {"idle", "solved"}, epoch : PlotKinds \cup {<<>>}] /\ plotWorker.at = "idle"
      OBVIOUS
  <2>2. plotEpochs \in Seq(PlotKinds)
      OBVIOUS
  <2>3. plotFrame \in PlotFrames
      BY DEF PlotFrames, PlotIdle
  <2>4. QED
      BY <2>1, <2>2, <2>3 DEF PlotTyped
<1> DEFINE first == [gen |-> 1, solved |-> <<>>, enu |-> <<>>, times |-> PlotNothing, vals |-> PlotNothing]
<1>2. [PlotEmpty EXCEPT !.gen = 1] = first
    BY DEF PlotEmpty
<1>3. PlotNothing \in [PlotSats -> Seq(Nat)] /\ \A s \in PlotSats : PlotNothing[s] = <<>>
    BY DEF PlotNothing
<1>4. PlotEmpty \in PlotDatas /\ first \in PlotDatas
    BY <1>3 DEF PlotDatas, PlotEmpty
<1>5. PlotInOrder(PlotEmpty) /\ PlotInOrder(first)
    BY <1>3 DEF PlotInOrder, PlotEmpty
<1>6. PlotStored
    BY <1>2, <1>4, <1>5 DEF PlotStored
<1>7. PlotCopied
  <2>1. PlotEmpty.gen = 0 /\ first.gen = 1 /\ PlotEmpty.times = PlotNothing
      BY DEF PlotEmpty
  <2>2. ASSUME NEW s \in PlotSats PROVE plotSeries.axis[s] = PlotDrawn(PlotEmpty.times[s], PlotEmpty.gen)
      BY <1>3, <2>1 DEF PlotDrawn
  <2>3. plotSeries.data = PlotEmpty /\ plotData.data = first /\ plotSeries.revision = 1 /\ plotData.revision = 1
      BY <1>2
  <2> HIDE DEF first
  <2>4. QED
      BY <1>2, <1>4, <1>5, <2>1, <2>2, <2>3 DEF PlotCopied
<1>8. PlotTracked
    BY <1>3 DEF PlotTracked, TrackRight
<1>9. PlotSelFollows
    BY DEF PlotSelFollows
<1>10. PlotReferred
    BY DEF PlotReferred, PlotIdle
<1>11. QED
    BY <1>1, <1>6, <1>7, <1>8, <1>9, <1>10 DEF PlotInvariant

LEMMA PlotKeepsTypes == PlotTyped /\ [PlotNext]_plotVars => PlotTyped'
<1> SUFFICES ASSUME PlotTyped, [PlotNext]_plotVars PROVE PlotTyped'
    OBVIOUS
<1> USE DEF PlotTyped, PlotFrames
<1>1. CASE PlotSolve
  <2>1. PICK ep \in PlotKinds :
          /\ plotWorker' = [at |-> "solved", epoch |-> ep]
          /\ IF plotOnStored THEN UNCHANGED <<plotRef, plotRefSet>> ELSE PlotFirstRef(ep)
      BY <1>1 DEF PlotSolve
  <2>2. plotRef' \in Nat /\ plotRefSet' \in BOOLEAN
    <3>1. UNCHANGED <<plotRef, plotRefSet>> \/ (plotRef' = 1 /\ plotRefSet' = TRUE)
        BY <2>1 DEF PlotFirstRef
    <3>2. CASE UNCHANGED <<plotRef, plotRefSet>>
        BY <3>2
    <3>3. CASE plotRef' = 1 /\ plotRefSet' = TRUE
        BY <3>3
    <3>4. QED
        BY <3>1, <3>2, <3>3
  <2>3. /\ plotWorker' \in [at : {"idle", "solved"}, epoch : PlotKinds \cup {<<>>}]
        /\ plotWorker'.epoch \in PlotKinds
      BY <2>1
  <2>4. UNCHANGED <<plotEpochs, plotEdits, plotSel, plotAway, plotFrame>>
      BY <1>1 DEF PlotSolve
  <2>5. QED
      BY <2>2, <2>3, <2>4
<1>2. CASE PlotCommit
  <2>1. plotWorker.epoch \in PlotKinds
      BY <1>2 DEF PlotCommit
  <2>2. plotRef' \in Nat /\ plotRefSet' \in BOOLEAN
    <3>1. UNCHANGED <<plotRef, plotRefSet>> \/ (plotRef' = 1 /\ plotRefSet' = TRUE)
        BY <1>2 DEF PlotCommit, PlotFirstRef
    <3>2. CASE UNCHANGED <<plotRef, plotRefSet>>
        BY <3>2
    <3>3. CASE plotRef' = 1 /\ plotRefSet' = TRUE
        BY <3>3
    <3>4. QED
        BY <3>1, <3>2, <3>3
  <2>3. /\ plotWorker' \in [at : {"idle", "solved"}, epoch : PlotKinds \cup {<<>>}]
        /\ plotWorker'.at = "idle"
      BY <1>2 DEF PlotCommit
  <2>4. plotEpochs' \in Seq(PlotKinds)
      BY <1>2, <2>1 DEF PlotCommit
  <2>5. plotSel' \in Nat
      BY <1>2 DEF PlotCommit
  <2>6. UNCHANGED <<plotEdits, plotAway, plotFrame>>
      BY <1>2 DEF PlotCommit
  <2>7. QED
      BY <2>2, <2>3, <2>4, <2>5, <2>6
<1>3. CASE PlotFrameBegin
    BY <1>3 DEF PlotFrameBegin
<1>4. CASE PlotDrawSky
    BY <1>4 DEF PlotDrawSky
<1>5. CASE PlotSync
    BY <1>5 DEF PlotSync
<1>6. CASE PlotPick
    BY <1>6 DEF PlotPick
<1>7. CASE PlotEdit
  <2>1. plotRef' \in Nat /\ plotEdits' \in Nat /\ plotFrame' \in PlotFrames
    <3>1. plotEdits' = plotEdits + 1 /\ plotRef' = plotEdits + 2 /\ plotFrame' = [plotFrame EXCEPT !.at = "edited"]
        BY <1>7 DEF PlotEdit
    <3>2. plotEdits \in Nat /\ plotFrame \in PlotFrames
        OBVIOUS
    <3>3. plotFrame' \in PlotFrames
        BY ONLY <3>1, <3>2 DEF PlotFrames
    <3>4. QED
        BY <3>1, <3>2, <3>3
  <2>2. UNCHANGED <<plotWorker, plotEpochs, plotRefSet, plotSel, plotAway>>
      BY <1>7 DEF PlotEdit
  <2>3. QED
      BY <2>1, <2>2
<1>8. CASE PlotCopyRef
    BY <1>8 DEF PlotCopyRef
<1>9. CASE PlotRefresh
    BY <1>9 DEF PlotRefresh
<1>10. CASE PlotFrameEnd
    BY <1>10 DEF PlotFrameEnd, PlotIdle
<1>11. CASE UNCHANGED plotVars
    BY <1>11 DEF plotVars
<1>12. QED
    BY <1>1, <1>2, <1>3, <1>4, <1>5, <1>6, <1>7, <1>8, <1>9, <1>10, <1>11 DEF PlotNext

\* What a step may do to the series: nothing, store an epoch, or draw the points anew.
PlotSeriesStep ==
  \/ UNCHANGED <<plotData, plotEpochs>>
  \/ /\ plotWorker.epoch \in PlotKinds /\ plotRef' \in Nat
     /\ plotEpochs' = Append(plotEpochs, plotWorker.epoch)
     /\ plotData' = [data |-> PlotInsert(plotData.data, Len(plotEpochs) + 1, plotWorker.epoch, plotRef'),
                     revision |-> plotData.revision + 1]
     /\ UNCHANGED plotSeries
  \/ /\ plotData' = [data |-> PlotRefreshed(plotData.data, plotFrame.copy), revision |-> plotData.revision + 1]
     /\ UNCHANGED <<plotEpochs, plotSeries>>

LEMMA PlotSteps ==
  ASSUME PlotTyped, PlotTyped', [PlotNext]_plotVars
  PROVE  /\ PlotSeriesStep
         /\ UNCHANGED plotSeries \/ (plotSeries' = PlotSynced(plotSeries, plotData) /\ UNCHANGED plotData)
         /\ UNCHANGED plotSky \/ PlotDrawSky
         /\ UNCHANGED plotEpochs \/ \E ep \in PlotKinds : plotEpochs' = Append(plotEpochs, ep)
<1> USE DEF PlotTyped, PlotSeriesStep
<1>1. CASE PlotSolve
    BY <1>1 DEF PlotSolve
<1>2. CASE PlotCommit
    BY <1>2 DEF PlotCommit
<1>3. CASE PlotFrameBegin
    BY <1>3 DEF PlotFrameBegin
<1>4. CASE PlotDrawSky
    BY <1>4 DEF PlotDrawSky
<1>5. CASE PlotSync
    BY <1>5 DEF PlotSync
<1>6. CASE PlotPick
    BY <1>6 DEF PlotPick
<1>7. CASE PlotEdit
    BY <1>7 DEF PlotEdit
<1>8. CASE PlotCopyRef
    BY <1>8 DEF PlotCopyRef
<1>9. CASE PlotRefresh
    BY <1>9 DEF PlotRefresh
<1>10. CASE PlotFrameEnd
    BY <1>10 DEF PlotFrameEnd
<1>11. CASE UNCHANGED plotVars
    BY <1>11 DEF plotVars
<1>12. QED
    BY <1>1, <1>2, <1>3, <1>4, <1>5, <1>6, <1>7, <1>8, <1>9, <1>10, <1>11 DEF PlotNext

\* A step leaves the copy current or lets it fall behind; a sync brings it up to the series.
LEMMA PlotKeepsSeries ==
  ASSUME PlotTyped, PlotTyped', PlotStored, PlotCopied, [PlotNext]_plotVars
  PROVE  PlotStored' /\ PlotCopied'
<1> DEFINE c == plotSeries.data
           d == plotData.data
<1>1. /\ c \in PlotDatas /\ d \in PlotDatas /\ PlotInOrder(c) /\ PlotInOrder(d)
      /\ plotData.revision \in Nat /\ plotSeries.revision \in Nat
      /\ c.gen \in Nat /\ d.gen \in Nat /\ Len(d.solved) = Len(plotEpochs) /\ Len(d.solved) \in Nat
    BY DEF PlotStored, PlotCopied, PlotDatas
<1>2. CASE UNCHANGED <<plotData, plotEpochs>> /\ UNCHANGED plotSeries
    BY <1>2 DEF PlotStored, PlotCopied
<1>3. CASE UNCHANGED <<plotData, plotEpochs>> /\ plotSeries' = PlotSynced(plotSeries, plotData)
  <2>1. PlotStored'
      BY <1>3 DEF PlotStored
  <2>2. CASE plotData.revision = plotSeries.revision
      BY <1>3, <2>1, <2>2 DEF PlotCopied, PlotSynced
  <2>3. CASE plotData.revision # plotSeries.revision
    <3> DEFINE new == IF d.gen = c.gen /\ Len(d.solved) >= Len(c.solved)
                      THEN PlotAppended(c, d, Len(c.solved)) ELSE d
    <3>1. new = d
      <4>1. CASE d.gen = c.gen
        <5>1. PlotEarlier(c, d)
            BY <4>1 DEF PlotCopied
        <5>2. PlotAppended(c, d, Len(c.solved)) = d
          <6> HIDE DEF c, d
          <6>1. QED
              BY <1>1, <5>1, AppendedIs
        <5>3. QED
            BY <5>2
      <4>2. QED
          BY <4>1
    <3>2. plotSeries' = [data |-> new, revision |-> plotData.revision,
                         axis |-> [t \in PlotSats |-> PlotAxis(plotSeries.axis[t], new.times[t], new.gen)]]
        BY <1>3, <2>3 DEF PlotSynced
    <3> HIDE DEF new
    <3>3. plotSeries' = [data |-> d, revision |-> plotData.revision,
                         axis |-> [t \in PlotSats |-> PlotAxis(plotSeries.axis[t], d.times[t], d.gen)]]
        BY <3>1, <3>2
    <3>4. ASSUME NEW s \in PlotSats PROVE PlotAxis(plotSeries.axis[s], d.times[s], d.gen) = PlotDrawn(d.times[s], d.gen)
      <4>1. c.times[s] \in Seq(Nat) /\ d.times[s] \in Seq(Nat)
          BY <1>1 DEF PlotDatas
      <4>2. c.gen = d.gen => PlotBeginning(c.times[s], d.times[s])
          BY DEF PlotCopied, PlotEarlier
      <4>3. plotSeries.axis[s] = PlotDrawn(c.times[s], c.gen)
          BY DEF PlotCopied
      <4> HIDE DEF c, d
      <4>4. QED
          BY <1>1, <4>1, <4>2, <4>3, DrawnAgain
    <3>5. PlotEarlier(d, d)
      <4>1. \A s \in PlotSats : Len(d.times[s]) \in Nat
          BY <1>1 DEF PlotDatas
      <4>2. Len(d.solved) \in Nat /\ Len(d.enu) \in Nat
          BY <1>1 DEF PlotDatas
      <4> HIDE DEF d
      <4>3. QED
          BY <4>1, <4>2 DEF PlotEarlier, PlotBeginning
    <3>6. plotSeries'.data = d /\ plotSeries'.revision = plotData.revision
          /\ \A s \in PlotSats : plotSeries'.axis[s] = PlotDrawn(d.times[s], d.gen)
        BY <3>3, <3>4
    <3>7. plotData'.data = d /\ plotData'.revision = plotData.revision
        BY <1>3
    <3> HIDE DEF c, d
    <3>8. PlotCopied'
        BY <1>1, <3>5, <3>6, <3>7 DEF PlotCopied
    <3>9. QED
        BY <2>1, <3>8
  <2>4. QED
      BY <2>2, <2>3
<1>4. CASE /\ plotWorker.epoch \in PlotKinds /\ plotRef' \in Nat
           /\ plotEpochs' = Append(plotEpochs, plotWorker.epoch)
           /\ plotData' = [data |-> PlotInsert(d, Len(plotEpochs) + 1, plotWorker.epoch, plotRef'),
                           revision |-> plotData.revision + 1]
           /\ UNCHANGED plotSeries
  <2> DEFINE e == PlotInsert(d, Len(plotEpochs) + 1, plotWorker.epoch, plotRef')
  <2>1. /\ e \in PlotDatas /\ e.gen = d.gen /\ PlotInOrder(e)
        /\ e.solved = Append(d.solved, plotWorker.epoch.solved) /\ (PlotEarlier(c, d) => PlotEarlier(c, e))
    <3> DEFINE n == Len(plotEpochs) + 1
               ep == plotWorker.epoch
    <3>1. n \in Nat /\ n = Len(d.solved) + 1 /\ ep \in PlotKinds
        BY <1>1, <1>4
    <3> DEFINE ref == plotRef'
    <3>2. ref \in Nat
        BY <1>4
    <3>0. c \in PlotDatas /\ d \in PlotDatas /\ PlotInOrder(d)
        BY <1>1
    <3> HIDE DEF c, d, n, ep, ref
    <3>3. Inserted(c, d, PlotInsert(d, n, ep, ref), ep, ref)
        BY <3>0, <3>1, <3>2, InsertIs
    <3>4. Inserted(c, d, e, plotWorker.epoch, plotRef')
        BY <3>3 DEF n, ep, ref
    <3> HIDE DEF e
    <3>5. QED
        BY <3>4 DEF Inserted, ep
  <2>2. plotData'.data = e /\ plotData'.revision = plotData.revision + 1
        /\ plotSeries'.data = c /\ plotSeries'.revision = plotSeries.revision /\ plotSeries'.axis = plotSeries.axis
      BY <1>4
  <2>3. Len(e.solved) = Len(plotEpochs')
    <3>1. Len(e.solved) = Len(d.solved) + 1
        BY <1>1, <2>1 DEF PlotDatas
    <3>2. Len(plotEpochs') = Len(plotEpochs) + 1
        BY <1>4 DEF PlotTyped
    <3>3. QED
        BY <1>1, <3>1, <3>2
  <2>4. /\ c.gen <= d.gen /\ plotSeries.revision <= plotData.revision
        /\ c.gen = d.gen => PlotEarlier(c, d)
        /\ \A s \in PlotSats : plotSeries.axis[s] = PlotDrawn(c.times[s], c.gen)
      BY DEF PlotCopied
  <2> HIDE DEF c, d, e
  <2>5. PlotStored'
      BY <1>1, <2>1, <2>2, <2>3 DEF PlotStored
  <2>6. PlotCopied'
      BY <1>1, <2>1, <2>2, <2>4 DEF PlotCopied
  <2>7. QED
      BY <2>5, <2>6
<1>5. CASE /\ plotData' = [data |-> PlotRefreshed(d, plotFrame.copy), revision |-> plotData.revision + 1]
           /\ UNCHANGED <<plotEpochs, plotSeries>>
  <2> DEFINE e == PlotRefreshed(d, plotFrame.copy)
  <2>1. e \in PlotDatas /\ e.gen = d.gen + 1 /\ PlotInOrder(e) /\ e.solved = d.solved
    <3>1. plotFrame.copy \in Nat
        BY DEF PlotTyped, PlotFrames
    <3> HIDE DEF d
    <3>2. QED
        BY <1>1, <3>1, RefreshedIs
  <2>2. plotData'.data = e /\ plotData'.revision = plotData.revision + 1 /\ plotEpochs' = plotEpochs
        /\ plotSeries'.data = c /\ plotSeries'.revision = plotSeries.revision /\ plotSeries'.axis = plotSeries.axis
      BY <1>5
  <2>3. /\ c.gen <= d.gen /\ plotSeries.revision <= plotData.revision
        /\ \A s \in PlotSats : plotSeries.axis[s] = PlotDrawn(c.times[s], c.gen)
      BY DEF PlotCopied
  <2> HIDE DEF c, d, e
  <2>4. PlotStored'
      BY <1>1, <2>1, <2>2 DEF PlotStored
  <2>5. PlotCopied'
      BY <1>1, <2>1, <2>2, <2>3 DEF PlotCopied
  <2>6. QED
      BY <2>4, <2>5
<1>6. QED
    BY <1>2, <1>3, <1>4, <1>5, PlotSteps DEF PlotSeriesStep

LEMMA PlotKeepsTracks ==
  ASSUME PlotTyped, PlotTyped', PlotTracked, [PlotNext]_plotVars
  PROVE  PlotTracked'
<1>1. plotEpochs \in Seq(PlotKinds) /\ Len(plotEpochs) \in Nat
    BY DEF PlotTyped
<1>2. CASE PlotDrawSky
  <2>1. /\ plotSky'.built = Len(plotEpochs) /\ plotEpochs' = plotEpochs
        /\ \A s \in PlotSats : plotSky'.tracks[s] = PlotTrack(s, plotSky.built, plotSky.tracks[s])
      BY <1>2 DEF PlotDrawSky
  <2>2. ASSUME NEW s \in PlotSats
        PROVE  /\ PlotTrack(s, plotSky.built, plotSky.tracks[s]) \in Seq(PlotSkyPoints)
               /\ TrackRight(plotEpochs, s, PlotTrack(s, plotSky.built, plotSky.tracks[s]), Len(plotEpochs))
    <3> DEFINE n == plotSky.built
               track == plotSky.tracks[s]
    <3>1. n \in 0 .. Len(plotEpochs) /\ track \in Seq(PlotSkyPoints) /\ TrackRight(plotEpochs, s, track, n)
        BY DEF PlotTracked
    <3> HIDE DEF n, track
    <3>2. PlotTrack(s, n, track) \in Seq(PlotSkyPoints)
          /\ TrackRight(plotEpochs, s, PlotTrack(s, n, track), Len(plotEpochs))
        BY <1>1, <3>1, TrackIs
    <3>3. QED
        BY <3>2 DEF n, track
  <2>3. QED
      BY <1>1, <2>1, <2>2 DEF PlotTracked
<1>3. CASE UNCHANGED plotSky /\ UNCHANGED plotEpochs
    BY <1>3 DEF PlotTracked
<1>4. CASE UNCHANGED plotSky /\ \E ep \in PlotKinds : plotEpochs' = Append(plotEpochs, ep)
  <2>1. PICK ep \in PlotKinds : plotEpochs' = Append(plotEpochs, ep)
      BY <1>4
  <2>2. /\ Len(plotEpochs') = Len(plotEpochs) + 1
        /\ \A e \in 1 .. Len(plotEpochs) : plotEpochs'[e] = plotEpochs[e]
      BY <1>1, <2>1
  <2>3. plotSky.built \in 0 .. Len(plotEpochs')
      BY <1>1, <2>2 DEF PlotTracked
  <2>4. ASSUME NEW s \in PlotSats
        PROVE  TrackRight(plotEpochs', s, plotSky.tracks[s], plotSky.built)
    <3>1. \A e \in 1 .. plotSky.built : plotEpochs'[e] = plotEpochs[e]
        BY <1>1, <2>2 DEF PlotTracked
    <3>2. TrackRight(plotEpochs, s, plotSky.tracks[s], plotSky.built)
        BY DEF PlotTracked
    <3>3. QED
        BY <3>1, <3>2 DEF TrackRight, SkyPoint
  <2>5. QED
      BY <1>4, <2>3, <2>4 DEF PlotTracked
<1>5. QED
  <2>1. PlotDrawSky => UNCHANGED plotEpochs
      BY DEF PlotDrawSky
  <2>2. QED
      BY <1>2, <1>3, <1>4, PlotSteps

LEMMA PlotKeepsSelection ==
  ASSUME PlotTyped, PlotSelFollows, [PlotNext]_plotVars
  PROVE  PlotSelFollows'
<1> USE DEF PlotSelFollows
<1>1. plotEpochs \in Seq(PlotKinds) /\ Len(plotEpochs) \in Nat /\ plotSel \in Nat
    BY DEF PlotTyped
<1>2. CASE PlotCommit
  <2>1. plotEpochs' = Append(plotEpochs, plotWorker.epoch) /\ plotAway' = plotAway
        /\ plotSel' = IF plotSel \in {0, Len(plotEpochs) + 1 - 1} THEN Len(plotEpochs) + 1 ELSE plotSel
      BY <1>2 DEF PlotCommit
  <2>2. plotWorker.epoch \in PlotKinds
      BY <1>2 DEF PlotCommit, PlotTyped
  <2>3. Len(plotEpochs') = Len(plotEpochs) + 1
      BY <1>1, <2>1, <2>2
  <2>4. QED
      BY <1>1, <2>1, <2>3
<1>3. CASE PlotFrameBegin
    BY <1>1, <1>3 DEF PlotFrameBegin
<1>4. CASE PlotFrameEnd
  <2>1. CASE plotFrame.local # plotFrame.sel
    <3>1. /\ plotSel' = plotFrame.local /\ plotEpochs' = plotEpochs
          /\ plotAway' = (plotFrame.local # Len(plotEpochs))
        BY <1>4, <2>1 DEF PlotFrameEnd
    <3>2. QED
        BY <3>1, Zenon
  <2>2. CASE ~(plotFrame.local # plotFrame.sel)
      BY <1>4, <2>2 DEF PlotFrameEnd
  <2>3. QED
      BY <2>1, <2>2
<1>5. CASE UNCHANGED <<plotEpochs, plotSel, plotAway>>
    BY <1>5
<1>6. PlotCommit \/ PlotFrameBegin \/ PlotFrameEnd \/ UNCHANGED <<plotEpochs, plotSel, plotAway>>
    BY DEF PlotNext, PlotSolve, PlotDrawSky, PlotSync, PlotPick, PlotEdit, PlotCopyRef, PlotRefresh, plotVars
<1>7. QED
    BY <1>2, <1>3, <1>4, <1>5, <1>6

\* While the user changes the reference only after there is one, the points follow it.
LEMMA PlotKeepsReference ==
  ASSUME ~PlotEarlyEdits, PlotTyped, PlotTyped', PlotStored, PlotReferred, [PlotNext]_plotVars
  PROVE  PlotReferred'
<1> USE DEF PlotReferred
<1> DEFINE d == plotData.data
           drawn == {"edited", "copied"}
<1>1. /\ d \in PlotDatas /\ PlotInOrder(d) /\ Len(d.solved) = Len(plotEpochs)
      /\ Len(plotEpochs) \in Nat /\ plotEpochs \in Seq(PlotKinds)
    BY DEF PlotStored, PlotTyped
\* The reference of the run is taken only where there is none.
<1>2. ASSUME NEW ep, PlotFirstRef(ep)
      PROVE  /\ ep.solved => plotRefSet'
             /\ plotRefSet => plotRefSet' /\ plotRef' = plotRef
  <2>1. CASE ep.solved /\ ~plotRefSet
      BY <1>2, <2>1 DEF PlotFirstRef
  <2>2. CASE ~(ep.solved /\ ~plotRefSet)
      BY <1>2, <2>2 DEF PlotFirstRef
  <2>3. QED
      BY <2>1, <2>2
<1>3. CASE PlotSolve
  <2>1. PICK ep \in PlotKinds :
          /\ plotWorker' = [at |-> "solved", epoch |-> ep]
          /\ IF plotOnStored THEN UNCHANGED <<plotRef, plotRefSet>> ELSE PlotFirstRef(ep)
      BY <1>3 DEF PlotSolve
  <2>2. UNCHANGED <<plotOnStored, plotEpochs, plotData, plotFrame>>
      BY <1>3 DEF PlotSolve
  <2>3. plotRefSet => plotRefSet' /\ plotRef' = plotRef
      BY <1>2, <2>1
  <2>4. ~plotOnStored' /\ plotWorker'.epoch.solved => plotRefSet'
      BY <1>2, <2>1, <2>2
  <2>5. ASSUME NEW i \in 1 .. Len(plotEpochs'), plotData'.data.solved[i] PROVE plotRefSet
      BY <2>2, <2>5
  <2>6. QED
      BY <2>2, <2>3, <2>4, <2>5
<1>4. CASE PlotCommit
  <2> DEFINE ep == plotWorker.epoch
             n == Len(plotEpochs) + 1
             e == plotData'.data
  <2>1. /\ ep \in PlotKinds /\ plotWorker.at = "solved" /\ plotWorker'.at = "idle"
        /\ plotEpochs' = Append(plotEpochs, ep) /\ e = PlotInsert(d, n, ep, plotRef')
        /\ UNCHANGED <<plotOnStored, plotFrame>>
      BY <1>4 DEF PlotCommit, PlotTyped
  <2>2. IF plotOnStored THEN PlotFirstRef(ep) ELSE UNCHANGED <<plotRef, plotRefSet>>
      BY <1>4 DEF PlotCommit
  <2>3. plotRefSet => plotRefSet' /\ plotRef' = plotRef
      BY <1>2, <2>2
  <2>4. ep.solved => plotRefSet'
    <3>1. CASE plotOnStored
        BY <1>2, <2>2, <3>1
    <3>2. CASE ~plotOnStored
        BY <2>1, <2>2, <3>2
    <3>3. QED
        BY <3>1, <3>2
  <2>5. plotRef' \in Nat
      BY DEF PlotTyped
  <2>6. /\ e.solved = Append(d.solved, ep.solved)
        /\ e.enu = Append(d.enu, IF ep.solved THEN plotRef' ELSE PlotNone)
    <3> DEFINE ref == plotRef'
               m == n
               what == ep
    <3>1. m \in Nat /\ m = Len(d.solved) + 1 /\ what \in PlotKinds /\ ref \in Nat
        BY <1>1, <2>1, <2>5
    <3> HIDE DEF d, m, ref, what
    <3>2. Inserted(d, d, PlotInsert(d, m, what, ref), what, ref)
        BY <1>1, <3>1, InsertIs
    <3>3. Inserted(d, d, e, ep, plotRef')
        BY <2>1, <3>2 DEF m, ref, what
    <3> HIDE DEF e
    <3>4. QED
        BY <3>3 DEF Inserted
  <2>7. /\ Len(plotEpochs') = n
        /\ d.solved \in Seq(BOOLEAN) /\ d.enu \in Seq(Nat) /\ Len(d.enu) = Len(plotEpochs)
      BY <1>1, <2>1 DEF PlotDatas, PlotInOrder
  <2> DEFINE pt == IF ep.solved THEN plotRef' ELSE PlotNone
  <2>8. /\ e.solved[n] = ep.solved /\ e.enu[n] = pt
        /\ \A i \in 1 .. Len(plotEpochs) : e.solved[i] = d.solved[i] /\ e.enu[i] = d.enu[i]
    <3> DEFINE so == ep.solved
    <3>1. so \in BOOLEAN /\ pt \in Nat
        BY <2>1, <2>5, PlotAssumption DEF PlotNone
    <3>2. e.solved = Append(d.solved, so) /\ e.enu = Append(d.enu, pt)
        BY <2>6
    <3> HIDE DEF d, e, pt, so
    <3>3. e.solved[n] = so /\ \A i \in 1 .. Len(plotEpochs) : e.solved[i] = d.solved[i]
        BY <1>1, <2>7, <3>1, <3>2
    <3>4. e.enu[n] = pt /\ \A i \in 1 .. Len(plotEpochs) : e.enu[i] = d.enu[i]
        BY <1>1, <2>7, <3>1, <3>2
    <3>5. QED
        BY <3>3, <3>4 DEF so
  <2>9. \A i \in 1 .. n : i = n \/ i \in 1 .. Len(plotEpochs)
      BY <1>1
  <2>10. \A i \in 1 .. Len(plotEpochs) :
           d.solved[i] => plotRefSet /\ (plotFrame.at \notin drawn => d.enu[i] = plotRef)
      OBVIOUS
  <2> HIDE DEF d, e, n, ep
  <2>11. ASSUME NEW i \in 1 .. n, e.solved[i]
         PROVE  plotRefSet' /\ (plotFrame.at \notin drawn => e.enu[i] = plotRef')
    <3>1. CASE i = n
        BY <2>4, <2>8, <2>11, <3>1
    <3>2. CASE i \in 1 .. Len(plotEpochs)
        BY <2>3, <2>8, <2>10, <2>11, <3>2
    <3>3. QED
        BY <2>9, <3>1, <3>2
  <2>12. plotFrame.at \in drawn => plotRefSet
      OBVIOUS
  <2>13. plotFrame.at = "copied" => plotFrame.copy = plotRef'
      BY <2>3, <2>12
  <2>14. QED
      BY <2>1, <2>3, <2>7, <2>11, <2>12, <2>13 DEF e
<1>5. CASE PlotEdit
  <2>1. plotRefSet
      BY <1>5 DEF PlotEdit
  <2>2. plotFrame'.at = "edited" /\ UNCHANGED <<plotOnStored, plotWorker, plotEpochs, plotRefSet, plotData>>
      BY <1>5 DEF PlotEdit, PlotTyped, PlotFrames
  <2>3. QED
      BY <2>1, <2>2
<1>6. CASE PlotCopyRef
  <2>1. /\ plotFrame.at = "edited" /\ plotFrame'.at = "copied" /\ plotFrame'.copy = plotRef
        /\ UNCHANGED <<plotOnStored, plotWorker, plotEpochs, plotRef, plotRefSet, plotData>>
      BY <1>6 DEF PlotCopyRef, PlotTyped, PlotFrames
  <2>2. QED
      BY <2>1
<1>7. CASE PlotRefresh
  <2>1. /\ plotFrame.at = "copied" /\ plotFrame'.at = "drawing"
        /\ plotData'.data = PlotRefreshed(d, plotRef)
        /\ UNCHANGED <<plotOnStored, plotWorker, plotEpochs, plotRef, plotRefSet>>
      BY <1>7 DEF PlotRefresh, PlotTyped, PlotFrames
  <2>2. /\ plotData'.data.solved = d.solved
        /\ \A i \in 1 .. Len(d.solved) : d.solved[i] => plotData'.data.enu[i] = plotRef
    <3>1. plotRef \in Nat
        BY DEF PlotTyped
    <3> HIDE DEF d
    <3>2. LET f == PlotRefreshed(d, plotRef)
          IN f.solved = d.solved /\ \A i \in 1 .. Len(d.solved) : d.solved[i] => f.enu[i] = plotRef
        BY <1>1, <3>1, RefreshedIs
    <3>3. QED
        BY <2>1, <3>2
  <2>3. QED
      BY <1>1, <2>1, <2>2
<1>8. CASE /\ UNCHANGED <<plotOnStored, plotWorker, plotEpochs, plotRef, plotRefSet, plotData>>
           /\ plotFrame.at \notin drawn /\ plotFrame'.at \notin drawn
    BY <1>8
<1>9. CASE UNCHANGED <<plotOnStored, plotWorker, plotEpochs, plotRef, plotRefSet, plotData, plotFrame>>
    BY <1>9
<1>10. ASSUME PlotFrameBegin \/ PlotDrawSky \/ PlotSync \/ PlotPick \/ PlotFrameEnd
       PROVE  /\ UNCHANGED <<plotOnStored, plotWorker, plotEpochs, plotRef, plotRefSet, plotData>>
              /\ plotFrame.at \notin drawn /\ plotFrame'.at \notin drawn
  <2>1. CASE PlotFrameBegin
      BY <2>1 DEF PlotFrameBegin
  <2>2. CASE PlotDrawSky
      BY <2>2 DEF PlotDrawSky, PlotTyped, PlotFrames
  <2>3. CASE PlotSync
      BY <2>3 DEF PlotSync, PlotTyped, PlotFrames
  <2>4. CASE PlotPick
      BY <2>4 DEF PlotPick, PlotTyped, PlotFrames
  <2>5. CASE PlotFrameEnd
      BY <2>5 DEF PlotFrameEnd, PlotIdle
  <2>6. QED
      BY <1>10, <2>1, <2>2, <2>3, <2>4, <2>5
<1>11. QED
    BY <1>3, <1>4, <1>5, <1>6, <1>7, <1>8, <1>9, <1>10 DEF PlotNext, plotVars

\* What the invariant says of a copy that counts as current.
LEMMA PlotWhole == PlotInvariant => PlotCopyIsWhole
<1> SUFFICES ASSUME PlotTyped, PlotStored, PlotCopied, PlotTracked PROVE PlotCopyIsWhole
    BY DEF PlotInvariant
<1>1. ASSUME NEW s \in PlotSats
      PROVE  plotSeries.axis[s].pts = PlotAxis(PlotNoAxis, plotSeries.data.times[s], 1).pts
  <2> DEFINE ts == plotSeries.data.times[s]
  <2>1. ts \in Seq(Nat) /\ plotSeries.axis[s] = PlotDrawn(ts, plotSeries.data.gen)
      BY DEF PlotCopied, PlotDatas
  <2> HIDE DEF ts
  <2>2. PlotAxis(PlotNoAxis, ts, 1) = PlotDrawn(ts, 1)
      BY <2>1, DrawnFresh
  <2>3. PlotDrawn(ts, 1).pts = PlotDrawn(ts, plotSeries.data.gen).pts
      BY DEF PlotDrawn
  <2>4. QED
      BY <2>1, <2>2, <2>3 DEF ts
<1>2. ASSUME NEW s \in PlotSats
      PROVE  LET track == plotSky.tracks[s]
             IN /\ \A i, j \in DOMAIN track : i < j => track[i].ep < track[j].ep
                /\ {track[i] : i \in DOMAIN track}
                     = {PlotSkyPoint(s, e) : e \in {d \in 1..plotSky.built : s \in plotEpochs[d].seen}}
  <2> DEFINE track == plotSky.tracks[s]
             seen == {d \in 1..plotSky.built : s \in plotEpochs[d].seen}
  <2>1. /\ \A i, j \in DOMAIN track : i < j => track[i].ep < track[j].ep
        /\ \A i \in DOMAIN track : track[i].ep \in seen /\ track[i] = PlotSkyPoint(s, track[i].ep)
        /\ \A e \in seen : \E i \in DOMAIN track : track[i].ep = e
      BY DEF PlotTracked, TrackRight, SkyPoint, PlotSkyPoint
  <2> HIDE DEF track, seen
  <2>2. {track[i] : i \in DOMAIN track} \subseteq {PlotSkyPoint(s, e) : e \in seen}
      BY <2>1
  <2>3. ASSUME NEW e \in seen PROVE PlotSkyPoint(s, e) \in {track[i] : i \in DOMAIN track}
      BY <2>1
  <2>4. {track[i] : i \in DOMAIN track} = {PlotSkyPoint(s, e) : e \in seen}
      BY <2>2, <2>3
  <2>5. QED
      BY <2>1, <2>4 DEF track, seen
<1>3. plotSky.built <= Len(plotEpochs)
    BY DEF PlotTracked, PlotTyped
<1>4. plotSeries.revision = plotData.revision =>
        \/ plotSeries.data = plotData.data
        \/ plotSeries.data = PlotEmpty /\ plotData.data = [PlotEmpty EXCEPT !.gen = 1]
    BY DEF PlotCopied
<1>5. QED
    BY <1>1, <1>2, <1>3, <1>4 DEF PlotCopyIsWhole

LEMMA PlotKeeps == PlotInvariant /\ [PlotNext]_plotVars => PlotInvariant'
<1> SUFFICES ASSUME PlotInvariant, [PlotNext]_plotVars PROVE PlotInvariant'
    OBVIOUS
<1>1. PlotTyped /\ PlotStored /\ PlotCopied /\ PlotTracked /\ PlotSelFollows
    BY DEF PlotInvariant
<1>2. PlotTyped'
    BY <1>1, PlotKeepsTypes
<1>3. PlotStored' /\ PlotCopied'
    BY <1>1, <1>2, PlotKeepsSeries
<1>4. PlotTracked'
    BY <1>1, <1>2, PlotKeepsTracks
<1>5. PlotSelFollows'
    BY <1>1, PlotKeepsSelection
<1>6. QED
    BY <1>2, <1>3, <1>4, <1>5 DEF PlotInvariant

\* The charts' copy of the series and the sky tracks, extended frame after frame by what is new, are
\* those a build from nothing would give, and the page stays on the newest epoch until the user
\* leaves it (Plots.cpp: PlotSeries::sync, BrokenAxis::build; View::ensureSkyTracks; renderResult).
THEOREM PlotCopyStaysWhole == PlotSpec => [](PlotCopyIsWhole /\ PlotSelFollows)
<1>1. PlotInit => PlotInvariant
    BY PlotStarts
<1>2. PlotInvariant /\ [PlotNext]_plotVars => PlotInvariant'
    BY PlotKeeps
<1>3. PlotInvariant => PlotCopyIsWhole /\ PlotSelFollows
    BY PlotWhole DEF PlotInvariant
<1>4. QED
    BY <1>1, <1>2, <1>3, PTL DEF PlotSpec

\* Where the user changes the reference only after the first solution set it, all points drawn
\* between two changes are moreover relative to the one in use (onRefChanged, commitEpoch).
THEOREM PlotStaysConsistent ==
  ASSUME ~PlotEarlyEdits
  PROVE  PlotSpec => []PlotIsConsistent
<1>1. PlotInit => PlotInvariant /\ PlotReferred
    BY PlotStarts
<1>2. PlotInvariant /\ PlotReferred /\ [PlotNext]_plotVars => PlotInvariant' /\ PlotReferred'
  <2> SUFFICES ASSUME PlotInvariant, PlotReferred, [PlotNext]_plotVars
               PROVE  PlotInvariant' /\ PlotReferred'
      OBVIOUS
  <2>1. PlotInvariant'
      BY PlotKeeps
  <2>2. PlotTyped /\ PlotStored /\ PlotTyped'
      BY <2>1 DEF PlotInvariant
  <2>3. PlotReferred'
      BY <2>2, PlotKeepsReference
  <2>4. QED
      BY <2>1, <2>3
<1>3. PlotInvariant /\ PlotReferred => PlotIsConsistent
  <2> SUFFICES ASSUME PlotInvariant, PlotReferred PROVE PlotIsConsistent
      OBVIOUS
  <2>1. PlotCopyIsWhole /\ PlotSelFollows
      BY PlotWhole DEF PlotInvariant
  <2>2. PlotOneReference
    <3>1. DOMAIN plotData.data.solved = 1 .. Len(plotEpochs)
        BY DEF PlotInvariant, PlotStored, PlotDatas
    <3>2. QED
        BY <3>1 DEF PlotOneReference, PlotReferred
  <2>3. QED
      BY <2>1, <2>2 DEF PlotIsConsistent
<1>4. QED
    BY <1>1, <1>2, <1>3, PTL DEF PlotSpec

-----------------------------------------------------------------------------
(* The chart and the rows of an alignment. *)

\* The buffer has every stride-th of c points from the first.
AliDecs == [buf : Seq(Nat), stride : Nat \ {0}, counter : Nat]
Thinned(d, c) ==
  /\ d \in AliDecs /\ d.counter = c /\ Len(d.buf) < 2 * AliMaxPts
  /\ \A i \in 1 .. Len(d.buf) : d.buf[i] = (i - 1) * d.stride + 1
  /\ Len(d.buf) * d.stride - c \in 0 .. d.stride - 1

\* The rest of a division is that of no multiple but zero.
LEMMA NoMultiple ==
  ASSUME NEW a \in Int, NEW s \in Nat \ {0}, 0 <= a * s, a * s < s
  PROVE  a = 0
<1>1. CASE a >= 1
  <2>1. PICK b \in Nat : a = b + 1
    <3>1. a - 1 \in Nat /\ a = (a - 1) + 1
        BY <1>1
    <3>2. QED
        BY <3>1
  <2>2. a * s = b * s + s /\ b * s >= 0
      BY <2>1
  <2>3. QED
      BY <2>2
<1>2. CASE a <= -1
  <2>1. PICK b \in Nat : a = -b - 1
    <3>1. -a - 1 \in Nat /\ a = -(-a - 1) - 1
        BY <1>2
    <3>2. QED
        BY <3>1
  <2>2. a * s = -(b * s) - s /\ b * s >= 0
      BY <2>1
  <2>3. QED
      BY <2>2
<1>3. QED
    BY <1>1, <1>2

\* Among those up to the n-th stride the next to be kept is the one behind it.
LEMMA NextKept ==
  ASSUME NEW c \in Nat, NEW s \in Nat \ {0}, NEW n \in Nat, n * s - c \in 0 .. s - 1
  PROVE  AliDivides(s, c) <=> c = n * s
<1> DEFINE q == c \div s
<1>1. q \in Int /\ s * q <= c /\ c < s * q + s
    OBVIOUS
<1> HIDE DEF q
<1>2. (n - q) * s = n * s - s * q
    BY <1>1
<1>3. ASSUME s * q = c PROVE c = n * s
  <2>1. n - q = 0
      BY <1>1, <1>2, <1>3, NoMultiple
  <2>2. QED
      BY <1>1, <1>3, <2>1
<1>4. ASSUME c = n * s PROVE s * q = c
  <2>1. n - q = 0
      BY <1>1, <1>2, <1>4, NoMultiple
  <2>2. QED
      BY <1>1, <1>4, <2>1
<1>5. QED
    BY <1>3, <1>4 DEF AliDivides, q

LEMMA FunctionsAreLines ==
  ASSUME NEW V, NEW n \in Nat, NEW g \in [1 .. n -> V]
  PROVE  g \in Seq(V) /\ Len(g) = n
OBVIOUS

\* A full buffer thinned again.
LEMMA HalveKeeps ==
  ASSUME NEW c \in Nat, NEW d \in AliDecs, d.counter = c, Len(d.buf) = 2 * AliMaxPts,
         \A i \in 1 .. Len(d.buf) : d.buf[i] = (i - 1) * d.stride + 1,
         Len(d.buf) * d.stride - c \in 0 .. d.stride - 1
  PROVE  Thinned(AliHalve(d), c)
<1> DEFINE M == AliMaxPts
           half == [i \in 1 .. (Len(d.buf) \div 2) |-> d.buf[2 * i - 1]]
           s == d.stride
<1>1. M \in Nat \ {0} /\ Len(d.buf) \div 2 = M /\ s \in Nat \ {0} /\ d.buf \in Seq(Nat)
    BY AliAssumption DEF AliDecs
<1>2. half \in Seq(Nat) /\ Len(half) = M
  <2>1. half = [i \in 1 .. M |-> d.buf[2 * i - 1]]
      BY <1>1
  <2>2. ASSUME NEW i \in 1 .. M PROVE d.buf[2 * i - 1] \in Nat
    <3> DEFINE k == 2 * i - 1
    <3>1. k \in 1 .. Len(d.buf) /\ d.buf \in Seq(Nat)
        BY <1>1
    <3> HIDE DEF k
    <3>2. d.buf[k] \in Nat
        BY ONLY <3>1
    <3>3. QED
        BY <3>2 DEF k
  <2>3. half \in [1 .. M -> Nat]
      BY <2>1, <2>2
  <2> HIDE DEF half, M
  <2>4. QED
      BY <1>1, <2>3, FunctionsAreLines
<1>3. ASSUME NEW i \in 1 .. M PROVE half[i] = (i - 1) * (2 * s) + 1
  <2>1. 2 * i - 1 \in 1 .. Len(d.buf)
      BY <1>1
  <2>2. half[i] = d.buf[2 * i - 1]
      BY <1>1
  <2>3. d.buf[2 * i - 1] = ((2 * i - 1) - 1) * s + 1
      BY <2>1
  <2>4. ((2 * i - 1) - 1) * s = (i - 1) * (2 * s)
    <3>1. i \in Nat /\ s \in Nat
        BY <1>1
    <3> HIDE DEF s
    <3>2. QED
        BY ONLY <3>1
  <2>5. QED
      BY <2>2, <2>3, <2>4
<1>4. M * (2 * s) - c \in 0 .. 2 * s - 1
  <2>1. M * (2 * s) = Len(d.buf) * s
    <3>1. Len(d.buf) = 2 * M /\ M \in Nat /\ s \in Nat
        BY <1>1
    <3> HIDE DEF M, s
    <3>2. M * (2 * s) = (2 * M) * s
        BY ONLY <3>1
    <3>3. QED
        BY <3>1, <3>2
  <2>2. M * (2 * s) - c \in 0 .. s - 1
      BY <2>1
  <2> HIDE DEF M, s
  <2>3. QED
      BY <1>1, <2>2
<1> HIDE DEF half, M
<1>5. AliHalve(d) = [buf |-> half, stride |-> 2 * s, counter |-> c]
  <2> DEFINE n == [d EXCEPT !.buf = half, !.stride = 2 * s]
             fields == {"buf", "stride", "counter"}
  <2>1. AliHalve(d) = n
      BY DEF AliHalve, half
  <2>2. DOMAIN n = fields
      BY DEF AliDecs
  <2>3. n = [x \in fields |-> n[x]]
      BY <2>2
  <2>4. n.buf = half /\ n.stride = 2 * s /\ n.counter = c
      BY DEF AliDecs
  <2> HIDE DEF n
  <2>5. QED
      BY <2>1, <2>2, <2>3, <2>4
<1>6. AliHalve(d) \in AliDecs
  <2> HIDE DEF s
  <2>1. 2 * s \in Nat \ {0}
    <3>1. s \in Nat \ {0}
        BY <1>1
    <3>2. QED
        BY ONLY <3>1
  <2>2. QED
      BY <1>2, <1>5, <2>1 DEF AliDecs
<1> DEFINE h == AliHalve(d)
<1>7. h.buf = half /\ h.stride = 2 * s /\ h.counter = c /\ Len(half) < 2 * AliMaxPts
    BY <1>1, <1>2, <1>5 DEF M
<1> HIDE DEF h, s
<1>8. Thinned(h, c)
    BY <1>2, <1>3, <1>4, <1>6, <1>7 DEF Thinned, h
<1>9. QED
    BY <1>8 DEF h

LEMMA PushKeeps ==
  ASSUME NEW c \in Nat, NEW d, Thinned(d, c)
  PROVE  Thinned(AliPush(d, c + 1), c + 1)
<1> DEFINE s == d.stride
           n == Len(d.buf)
           kept == IF AliDivides(s, d.counter) THEN Append(d.buf, c + 1) ELSE d.buf
           e == [buf |-> kept, stride |-> s, counter |-> c + 1]
<1>1. /\ d \in AliDecs /\ d.counter = c /\ s \in Nat \ {0} /\ d.buf \in Seq(Nat) /\ n \in Nat
      /\ n < 2 * AliMaxPts /\ n * s - c \in 0 .. s - 1
      /\ \A i \in 1 .. n : d.buf[i] = (i - 1) * s + 1
    BY DEF Thinned, AliDecs
<1> HIDE DEF s, n
<1>2. AliDivides(s, c) <=> c = n * s
    BY <1>1, NextKept
<1>3. /\ kept \in Seq(Nat) /\ Len(kept) \in n .. n + 1
      /\ Len(kept) * s - (c + 1) \in 0 .. s - 1
      /\ \A i \in 1 .. Len(kept) : kept[i] = (i - 1) * s + 1
  <2>1. CASE AliDivides(s, c)
    <3>1. kept = Append(d.buf, c + 1) /\ c = n * s
        BY <1>1, <1>2, <2>1
    <3> HIDE DEF kept
    <3>2. kept \in Seq(Nat) /\ Len(kept) = n + 1 /\ kept[n + 1] = c + 1
          /\ \A i \in 1 .. n : kept[i] = d.buf[i]
      <4>1. Len(d.buf) = n /\ d.buf \in Seq(Nat) /\ c + 1 \in Nat
          BY <1>1 DEF n
      <4>2. QED
          BY <3>1, <4>1
    <3>3. (n + 1) * s = n * s + s
        BY <1>1
    <3>4. (n + 1) - 1 = n /\ \A i \in 1 .. n + 1 : i = n + 1 \/ i \in 1 .. n
        BY <1>1
    <3>5. \A i \in 1 .. n + 1 : kept[i] = (i - 1) * s + 1
        BY <1>1, <3>1, <3>2, <3>4
    <3>6. (n + 1) * s - (c + 1) \in 0 .. s - 1
        BY <1>1, <3>1, <3>3
    <3>7. n + 1 \in n .. n + 1
        BY <1>1
    <3>8. QED
        BY <3>2, <3>5, <3>6, <3>7
  <2>2. CASE ~AliDivides(s, c)
    <3>1. kept = d.buf /\ c # n * s
        BY <1>1, <1>2, <2>2
    <3> HIDE DEF kept
    <3>2. n \in n .. n + 1 /\ n * s - (c + 1) \in 0 .. s - 1
      <4>1. n * s - c \in 0 .. s - 1 /\ n * s \in Int
          BY <1>1
      <4>2. QED
          BY <1>1, <3>1, <4>1
    <3>3. Len(kept) = n
        BY <3>1 DEF n
    <3>4. QED
        BY <1>1, <3>1, <3>2, <3>3
  <2>3. QED
      BY <2>1, <2>2
<1>4. AliPush(d, c + 1) = IF Len(kept) >= 2 * AliMaxPts THEN AliHalve(e) ELSE e
  <2> DEFINE f == [d EXCEPT !.buf = kept, !.counter = c + 1]
             fields == {"buf", "stride", "counter"}
  <2>1. AliPush(d, c + 1) = IF Len(f.buf) >= 2 * AliMaxPts THEN AliHalve(f) ELSE f
      BY <1>1 DEF AliPush, s
  <2> HIDE DEF kept
  <2>2. DOMAIN f = fields
      BY <1>1 DEF AliDecs
  <2>3. f = [x \in fields |-> f[x]]
      BY <2>2
  <2>4. f.buf = kept /\ f.stride = s /\ f.counter = c + 1
      BY <1>1 DEF AliDecs, s
  <2> HIDE DEF f
  <2>5. f = e
      BY <2>2, <2>3, <2>4
  <2>6. QED
      BY <2>1, <2>4, <2>5
<1> HIDE DEF kept
<1>5. e \in AliDecs /\ e.buf = kept /\ e.stride = s /\ e.counter = c + 1
    BY <1>1, <1>3 DEF AliDecs
<1> HIDE DEF e
<1>6. CASE Len(kept) >= 2 * AliMaxPts
  <2>1. Len(kept) = 2 * AliMaxPts
      BY <1>1, <1>3, <1>6, AliAssumption
  <2>2. c + 1 \in Nat
      OBVIOUS
  <2>3. Thinned(AliHalve(e), c + 1)
      BY <1>3, <1>5, <2>1, <2>2, HalveKeeps
  <2>4. QED
      BY <1>4, <1>6, <2>3
<1>7. CASE ~(Len(kept) >= 2 * AliMaxPts)
  <2>1. Len(kept) < 2 * AliMaxPts
      BY <1>1, <1>3, <1>7, AliAssumption
  <2>2. Thinned(e, c + 1)
      BY <1>3, <1>5, <2>1 DEF Thinned
  <2>3. QED
      BY <1>4, <1>7, <2>2
<1>8. QED
    BY <1>6, <1>7


\* The seconds of the samples, and which samples are of a second.
OfSecond(s, k, x) == {m \in 1 .. k : AliSecond(s[m]) = x}

AliRows == [sec : Nat, n : Nat]

\* The rows after k samples: one for each second, with as many as it has.
RowsRight(rows, s, k) ==
  /\ rows \in Seq(AliRows)
  /\ \A i, j \in 1 .. Len(rows) : i < j => rows[i].sec < rows[j].sec
  /\ \A i \in 1 .. Len(rows) : /\ \E m \in 1 .. k : AliSecond(s[m]) = rows[i].sec
                               /\ rows[i].n = Cardinality(OfSecond(s, k, rows[i].sec))
  /\ \A m \in 1 .. k : \E i \in 1 .. Len(rows) : rows[i].sec = AliSecond(s[m])
  /\ k > 0 => rows # <<>> /\ rows[Len(rows)].sec = AliSecond(s[k])

\* Samples one after the other, of ever later seconds.
Timed(s) ==
  /\ Len(s) \in Nat
  /\ \A m \in 1 .. Len(s) : AliSecond(s[m]) \in Nat
  /\ \A m \in 1 .. Len(s) : m < Len(s) => AliSecond(s[m]) <= AliSecond(s[m + 1])

LEMMA SecondGrows ==
  ASSUME NEW s, NEW k \in Nat, NEW x
  PROVE  /\ IsFiniteSet(OfSecond(s, k, x)) /\ Cardinality(OfSecond(s, k, x)) \in Nat
         /\ AliSecond(s[k + 1]) # x => OfSecond(s, k + 1, x) = OfSecond(s, k, x)
         /\ AliSecond(s[k + 1]) = x =>
              Cardinality(OfSecond(s, k + 1, x)) = Cardinality(OfSecond(s, k, x)) + 1
<1> DEFINE S == OfSecond(s, k, x)
<1>1. IsFiniteSet(S) /\ Cardinality(S) \in Nat
  <2>1. IsFiniteSet(1 .. k)
      BY FS_Interval
  <2>2. S \subseteq 1 .. k
      BY DEF OfSecond
  <2>3. IsFiniteSet(S)
      BY <2>1, <2>2, FS_Subset
  <2>4. QED
      BY <2>3, FS_CardinalityType
<1>2. 1 .. k + 1 = (1 .. k) \cup {k + 1} /\ k + 1 \notin 1 .. k
    OBVIOUS
<1>3. AliSecond(s[k + 1]) # x => OfSecond(s, k + 1, x) = S
    BY <1>2 DEF OfSecond
<1>4. ASSUME AliSecond(s[k + 1]) = x PROVE Cardinality(OfSecond(s, k + 1, x)) = Cardinality(S) + 1
  <2>1. OfSecond(s, k + 1, x) = S \cup {k + 1} /\ k + 1 \notin S
      BY <1>2, <1>4 DEF OfSecond
  <2> HIDE DEF S
  <2>2. Cardinality(S \cup {k + 1}) = Cardinality(S) + 1
      BY <1>1, <2>1, FS_AddElement
  <2>3. QED
      BY <2>1, <2>2
<1>5. QED
    BY <1>1, <1>3, <1>4

\* A sample of the second of the last row, and one of a later second.
LEMMA RowGrows ==
  ASSUME NEW s, NEW k \in Nat, k + 1 <= Len(s), Timed(s), NEW rows, RowsRight(rows, s, k)
  PROVE  RowsRight(AliRow(rows, s[k + 1]), s, k + 1)
<1> DEFINE x == AliSecond(s[k + 1])
           L == Len(rows)
           new == AliRow(rows, s[k + 1])
           last == [sec |-> x, n |-> rows[L].n + 1]
           one == [sec |-> x, n |-> 1]
<1>1. /\ x \in Nat /\ L \in Nat /\ rows \in Seq(AliRows)
      /\ \A i \in 1 .. L : rows[i].sec \in Nat /\ rows[i].n \in Nat
      /\ rows # <<>> <=> L > 0
  <2>1. k + 1 \in 1 .. Len(s)
      BY DEF Timed
  <2>2. x \in Nat
      BY <2>1 DEF Timed
  <2>3. rows \in Seq(AliRows)
      BY DEF RowsRight
  <2>4. ASSUME NEW i \in 1 .. Len(rows) PROVE rows[i].sec \in Nat /\ rows[i].n \in Nat
    <3>1. rows[i] \in AliRows
        BY <2>3
    <3>2. QED
        BY <3>1 DEF AliRows
  <2>5. Len(rows) \in Nat /\ (rows # <<>> <=> Len(rows) > 0)
      BY <2>3
  <2>6. QED
      BY <2>2, <2>3, <2>4, <2>5
<1>2. /\ \A i, j \in 1 .. L : i < j => rows[i].sec < rows[j].sec
      /\ \A i \in 1 .. L : /\ \E m \in 1 .. k : AliSecond(s[m]) = rows[i].sec
                           /\ rows[i].n = Cardinality(OfSecond(s, k, rows[i].sec))
      /\ \A m \in 1 .. k : \E i \in 1 .. L : rows[i].sec = AliSecond(s[m])
    BY DEF RowsRight
<1> HIDE DEF L, x
\* No row is of a later second than the sample.
<1>3. \A i \in 1 .. L : L > 0 /\ rows[i].sec <= rows[L].sec /\ rows[L].sec <= x
  <2> SUFFICES ASSUME NEW i \in 1 .. L
               PROVE  L > 0 /\ rows[i].sec <= rows[L].sec /\ rows[L].sec <= x
      OBVIOUS
  <2>1. L > 0 /\ L \in 1 .. L /\ (i < L \/ i = L)
      BY <1>1
  <2>2. rows[i].sec <= rows[L].sec
    <3>1. rows[i].sec \in Nat /\ rows[L].sec \in Nat
        BY <1>1, <2>1
    <3>2. i < L => rows[i].sec < rows[L].sec
        BY <1>2, <2>1
    <3>3. QED
        BY <2>1, <3>1, <3>2
  <2>3. PICK m \in 1 .. k : AliSecond(s[m]) = rows[L].sec
      BY <1>2, <2>1
  <2>4. k > 0 /\ k \in 1 .. Len(s) /\ k < Len(s)
      BY <2>3 DEF Timed
  <2>5. rows[L].sec = AliSecond(s[k])
      BY <2>4 DEF RowsRight, L
  <2>6. AliSecond(s[k]) <= x
      BY <2>4 DEF Timed, x
  <2>7. QED
      BY <2>1, <2>2, <2>5, <2>6
<1>4. /\ k + 1 \in 1 .. k + 1 /\ \A m \in 1 .. k + 1 : m = k + 1 \/ m \in 1 .. k
      /\ \A m \in 1 .. k : m \in 1 .. k + 1
    OBVIOUS
<1>5. \A y \in Nat : /\ y # x => Cardinality(OfSecond(s, k + 1, y)) = Cardinality(OfSecond(s, k, y))
                     /\ y = x => Cardinality(OfSecond(s, k + 1, y)) = Cardinality(OfSecond(s, k, y)) + 1
  <2> SUFFICES ASSUME NEW y \in Nat
               PROVE  /\ y # x => Cardinality(OfSecond(s, k + 1, y)) = Cardinality(OfSecond(s, k, y))
                      /\ y = x => Cardinality(OfSecond(s, k + 1, y)) = Cardinality(OfSecond(s, k, y)) + 1
      OBVIOUS
  <2>1. /\ AliSecond(s[k + 1]) # y => OfSecond(s, k + 1, y) = OfSecond(s, k, y)
        /\ AliSecond(s[k + 1]) = y =>
             Cardinality(OfSecond(s, k + 1, y)) = Cardinality(OfSecond(s, k, y)) + 1
      BY SecondGrows
  <2>2. QED
      BY <2>1 DEF x
<1>6. CASE rows # <<>> /\ rows[L].sec = x
  <2>1. L \in 1 .. L
      BY <1>1, <1>6
  <2>4. new = [rows EXCEPT ![L] = last]
      BY <1>6 DEF AliRow, Last, L, x
  <2>5. last \in AliRows /\ last.sec = x /\ last.n = rows[L].n + 1
      BY <1>1, <2>1 DEF AliRows
  <2> HIDE DEF new, last
  <2>6. /\ new \in Seq(AliRows) /\ Len(new) = L /\ new[L] = last
        /\ \A i \in 1 .. L : i # L => new[i] = rows[i]
      BY <1>1, <2>1, <2>4, <2>5 DEF L
  <2>7. \A i \in 1 .. L : new[i].sec = rows[i].sec
      BY <1>6, <2>5, <2>6
  <2>8. ASSUME NEW i \in 1 .. L
        PROVE  /\ \E m \in 1 .. k + 1 : AliSecond(s[m]) = new[i].sec
               /\ new[i].n = Cardinality(OfSecond(s, k + 1, new[i].sec))
    <3>1. \E m \in 1 .. k + 1 : AliSecond(s[m]) = new[i].sec
        BY <1>2, <1>4, <2>7
    <3>2. CASE i = L
      <4>1. Cardinality(OfSecond(s, k + 1, x)) = Cardinality(OfSecond(s, k, x)) + 1
          BY <1>1, <1>5
      <4>2. rows[L].n = Cardinality(OfSecond(s, k, x))
          BY <1>2, <1>6, <2>1
      <4>3. new[L].sec = x /\ new[L].n = rows[L].n + 1
          BY <2>5, <2>6
      <4>4. QED
          BY <3>1, <3>2, <4>1, <4>2, <4>3
    <3>3. CASE i # L
      <4>1. rows[i].sec # x /\ rows[i].sec \in Nat
        <5>1. i < L
            BY <1>1, <3>3
        <5>2. rows[i].sec < rows[L].sec
            BY <1>2, <2>1, <5>1
        <5>3. QED
            BY <1>1, <1>6, <2>1, <5>2
      <4>2. Cardinality(OfSecond(s, k + 1, rows[i].sec)) = Cardinality(OfSecond(s, k, rows[i].sec))
          BY <1>5, <4>1
      <4>3. new[i] = rows[i] /\ rows[i].n = Cardinality(OfSecond(s, k, rows[i].sec))
          BY <1>2, <2>6, <3>3
      <4>4. QED
          BY <3>1, <4>2, <4>3
    <3>4. QED
        BY <3>1, <3>2, <3>3
  <2>9. ASSUME NEW m \in 1 .. k + 1 PROVE \E i \in 1 .. L : new[i].sec = AliSecond(s[m])
    <3>1. CASE m = k + 1
        BY <2>1, <2>5, <2>6, <3>1 DEF x
    <3>2. CASE m \in 1 .. k
        BY <1>2, <2>7, <3>2
    <3>3. QED
        BY <1>4, <3>1, <3>2
  <2>10. new # <<>> /\ new[L].sec = AliSecond(s[k + 1])
      BY <2>1, <2>5, <2>6 DEF x
  <2>11. \A i, j \in 1 .. L : i < j => new[i].sec < new[j].sec
      BY <1>2, <2>7
  <2>12. RowsRight(new, s, k + 1)
      BY <2>6, <2>8, <2>9, <2>10, <2>11 DEF RowsRight
  <2>13. QED
      BY <2>12 DEF new
<1>7. CASE ~(rows # <<>> /\ rows[L].sec = x)
  <2>1. new = Append(rows, one)
      BY <1>7 DEF AliRow, Last, L, x
  <2>2. one \in AliRows /\ one.sec = x /\ one.n = 1
      BY <1>1 DEF AliRows
  <2> HIDE DEF new, one
  <2>3. /\ new \in Seq(AliRows) /\ Len(new) = L + 1 /\ new[L + 1] = one
        /\ \A i \in 1 .. L : new[i] = rows[i]
      BY <1>1, <2>1, <2>2 DEF L
  <2>4. \A i \in 1 .. L : rows[i].sec < x
    <3> SUFFICES ASSUME NEW i \in 1 .. L PROVE rows[i].sec < x
        OBVIOUS
    <3>1. L > 0 /\ L \in 1 .. L
        BY <1>1
    <3>2. rows[L].sec # x /\ rows[L].sec \in Nat /\ rows[i].sec \in Nat
        BY <1>1, <1>7, <3>1
    <3>3. rows[i].sec <= rows[L].sec /\ rows[L].sec <= x
        BY <1>3
    <3>4. x \in Nat
        BY <1>1
    <3>5. QED
        BY ONLY <3>2, <3>3, <3>4
  <2>5. \A i \in 1 .. L + 1 : i = L + 1 \/ i \in 1 .. L
      BY <1>1
  <2>6. \A i, j \in 1 .. L + 1 : i < j => new[i].sec < new[j].sec
    <3> SUFFICES ASSUME NEW i \in 1 .. L + 1, NEW j \in 1 .. L + 1, i < j PROVE new[i].sec < new[j].sec
        OBVIOUS
    <3>1. i \in 1 .. L
        BY <1>1
    <3>2. CASE j = L + 1
        BY <2>2, <2>3, <2>4, <3>1, <3>2
    <3>3. CASE j \in 1 .. L
        BY <1>2, <2>3, <3>1, <3>3
    <3>4. QED
        BY <2>5, <3>2, <3>3
  <2>7. Cardinality(OfSecond(s, k + 1, x)) = 1
    <3>1. OfSecond(s, k, x) = {}
      <4>1. ASSUME NEW m \in 1 .. k PROVE AliSecond(s[m]) # x
        <5>1. PICK i \in 1 .. L : rows[i].sec = AliSecond(s[m])
            BY <1>2
        <5>2. QED
            BY <1>1, <2>4, <5>1
      <4>2. QED
          BY <4>1 DEF OfSecond
    <3>2. Cardinality({}) = 0
        BY FS_EmptySet
    <3>3. Cardinality(OfSecond(s, k + 1, x)) = Cardinality(OfSecond(s, k, x)) + 1
        BY <1>1, <1>5
    <3>4. QED
        BY <3>1, <3>2, <3>3
  <2>8. ASSUME NEW i \in 1 .. L + 1
        PROVE  /\ \E m \in 1 .. k + 1 : AliSecond(s[m]) = new[i].sec
               /\ new[i].n = Cardinality(OfSecond(s, k + 1, new[i].sec))
    <3>1. CASE i = L + 1
        BY <1>4, <2>2, <2>3, <2>7, <3>1 DEF x
    <3>2. CASE i \in 1 .. L
      <4>1. rows[i].sec \in Nat /\ rows[i].sec # x
          BY <1>1, <2>4, <3>2
      <4>2. \E m \in 1 .. k + 1 : AliSecond(s[m]) = rows[i].sec
          BY <1>2, <3>2
      <4>3. QED
          BY <1>2, <1>5, <2>3, <3>2, <4>1, <4>2
    <3>3. QED
        BY <2>5, <3>1, <3>2
  <2>9. ASSUME NEW m \in 1 .. k + 1 PROVE \E i \in 1 .. L + 1 : new[i].sec = AliSecond(s[m])
    <3>1. CASE m = k + 1
      <4>1. L + 1 \in 1 .. L + 1
          BY <1>1
      <4>2. QED
          BY <2>2, <2>3, <3>1, <4>1 DEF x
    <3>2. CASE m \in 1 .. k
      <4>1. PICK i \in 1 .. L : rows[i].sec = AliSecond(s[m])
          BY <1>2, <3>2
      <4>2. i \in 1 .. L + 1 /\ new[i] = rows[i]
          BY <1>1, <2>3
      <4>3. QED
          BY <4>1, <4>2
    <3>3. QED
        BY <1>4, <3>1, <3>2
  <2>10. new # <<>> /\ new[L + 1].sec = AliSecond(s[k + 1])
      BY <1>1, <2>2, <2>3 DEF x
  <2>11. RowsRight(new, s, k + 1)
      BY <2>3, <2>6, <2>8, <2>9, <2>10 DEF RowsRight
  <2>12. QED
      BY <2>11 DEF new
<1>8. QED
    BY <1>6, <1>7

\* What exportAlignPerSec writes of a series.
LEMMA RowsAre ==
  ASSUME NEW s, Timed(s)
  PROVE  RowsRight(AliPerSec(s), s, Len(s))
<1> DEFINE N == Len(s)
           V == Seq(AliRows)
           W == {p \in (0 .. N) \X V : RowsRight(p[2], s, p[1])}
           Fold(line) == [k \in 0 .. N |-> IF k = 0 THEN <<>> ELSE AliRow(line[k - 1], s[k])]
           step == [p \in (1 .. N) \X V |-> AliRow(p[2], s[p[1]])]
<1>1. N \in Nat /\ <<>> \in V
    BY DEF Timed
<1>2. step \in [(1 .. N) \X V -> V]
  <2>1. ASSUME NEW k \in 1 .. N, NEW rows \in V
        PROVE  AliRow(rows, s[k]) \in V
    <3> DEFINE x == AliSecond(s[k])
    <3>1. x \in Nat
        BY DEF Timed
    <3>2. [sec |-> x, n |-> 1] \in AliRows
        BY <3>1 DEF AliRows
    <3>3. ASSUME rows # <<>>
          PROVE  [sec |-> x, n |-> rows[Len(rows)].n + 1] \in AliRows
      <4>1. Len(rows) \in 1 .. Len(rows)
          BY <3>3
      <4>2. rows[Len(rows)] \in AliRows
          BY <4>1
      <4>3. QED
          BY <3>1, <4>2 DEF AliRows
    <3>4. ASSUME NEW r \in AliRows PROVE [rows EXCEPT ![Len(rows)] = r] \in Seq(AliRows)
      <4>1. rows \in [1 .. Len(rows) -> AliRows] /\ Len(rows) \in Nat
          OBVIOUS
      <4>2. [rows EXCEPT ![Len(rows)] = r] \in [1 .. Len(rows) -> AliRows]
          BY <4>1
      <4>3. QED
          BY <4>1, <4>2
    <3> HIDE DEF x
    <3>5. CASE rows # <<>> /\ rows[Len(rows)].sec = x
      <4>1. AliRow(rows, s[k]) = [rows EXCEPT ![Len(rows)] = [sec |-> x, n |-> rows[Len(rows)].n + 1]]
          BY <3>5 DEF AliRow, Last, x
      <4>2. QED
          BY <3>3, <3>4, <3>5, <4>1
    <3>6. CASE ~(rows # <<>> /\ rows[Len(rows)].sec = x)
      <4>1. AliRow(rows, s[k]) = Append(rows, [sec |-> x, n |-> 1])
          BY <3>6 DEF AliRow, Last, x
      <4>2. QED
          BY <3>2, <4>1
    <3>7. QED
        BY <3>5, <3>6
  <2> HIDE DEF N, V
  <2>2. QED
      BY <2>1
<1>3. PICK g : InSteps(g, N, V, <<>>, step)
  <2> HIDE DEF step, N, V
  <2>1. QED
      BY <1>1, <1>2, StepsExist
<1>4. g \in [0 .. N -> V] /\ g[0] = <<>> /\ \A k \in 1 .. N : g[k] = AliRow(g[k - 1], s[k])
  <2>1. g \in [0 .. N -> V] /\ g[0] = <<>> /\ \A k \in 1 .. N : g[k] = step[<<k, g[k - 1]>>]
      BY <1>3 DEF InSteps
  <2>2. ASSUME NEW k \in 1 .. N PROVE g[k - 1] \in V
    <3>1. k - 1 \in 0 .. N
        BY <1>1
    <3> HIDE DEF N, V
    <3>2. QED
        BY <2>1, <3>1
  <2> HIDE DEF N, V
  <2>3. QED
      BY <2>1, <2>2
<1>5. g = Fold(g)
  <2>1. ASSUME NEW k \in 0 .. N PROVE g[k] = Fold(g)[k]
    <3>1. k # 0 => k \in 1 .. N
        BY <1>1
    <3> HIDE DEF N, V
    <3>2. QED
        BY <1>4, <3>1
  <2> HIDE DEF N, V
  <2>2. QED
      BY <1>4, <2>1
<1>6. PICK l : l = CHOOSE line : line = Fold(line)
    OBVIOUS
<1>7. AliPerSec(s) = l[N]
    BY <1>6 DEF AliPerSec
<1>8. l = Fold(l)
  <2> HIDE DEF Fold
  <2>1. QED
      BY <1>5, <1>6
<1>9. l[0] = <<>> /\ \A k \in 1 .. N : l[k] = AliRow(l[k - 1], s[k])
  <2>1. \A k \in 0 .. N : l[k] = IF k = 0 THEN <<>> ELSE AliRow(l[k - 1], s[k])
      BY <1>8
  <2>2. 0 \in 0 .. N /\ \A k \in 1 .. N : k \in 0 .. N /\ k # 0
      BY <1>1
  <2> HIDE DEF N
  <2>3. QED
      BY <2>1, <2>2
<1> DEFINE h == [k \in 0 .. N |-> <<k, l[k]>>]
<1>10. StepStays(h, N, W)
  <2>1. h[0] \in W
    <3>1. RowsRight(<<>>, s, 0)
        BY DEF RowsRight
    <3>2. 0 \in 0 .. N /\ h[0] = <<0, <<>>>>
        BY <1>1, <1>9
    <3>3. <<0, <<>>>> \in (0 .. N) \X V
        BY <1>1, <3>2
    <3> DEFINE p == <<0, <<>>>>
    <3>4. p \in (0 .. N) \X V /\ RowsRight(p[2], s, p[1])
        BY <3>1, <3>3
    <3> HIDE DEF h, N, V, p
    <3>5. p \in W
        BY <3>4
    <3>6. QED
        BY <3>2, <3>5 DEF p
  <2>2. ASSUME NEW k \in 1 .. N, h[k - 1] \in W PROVE h[k] \in W
    <3>1. k - 1 \in 0 .. N /\ k - 1 \in Nat /\ (k - 1) + 1 = k /\ k \in 0 .. N /\ k <= Len(s)
        BY <1>1
    <3>2. h[k - 1] = <<k - 1, l[k - 1]>> /\ h[k] = <<k, l[k]>>
        BY <3>1
    <3>3. RowsRight(l[k - 1], s, k - 1)
        BY <2>2, <3>2
    <3>4. l[k] = AliRow(l[k - 1], s[k])
        BY <1>9
    <3>5. RowsRight(l[k], s, k)
        BY <3>1, <3>3, <3>4, RowGrows
    <3>6. l[k] \in V
        BY <3>5 DEF RowsRight
    <3> HIDE DEF h, N, V
    <3>7. QED
        BY <3>1, <3>2, <3>5, <3>6
  <2>3. QED
      BY <2>1, <2>2 DEF StepStays
<1>11. StaysIn(h, N, W)
  <2> HIDE DEF h, N, W
  <2>1. QED
      BY <1>1, <1>10, StepsStay
<1>12. RowsRight(l[N], s, N)
  <2>1. N \in 0 .. N
      BY <1>1
  <2>2. h[N] = <<N, l[N]>> /\ h[N] \in W
      BY <1>11, <2>1 DEF StaysIn
  <2>3. QED
      BY <2>2
<1>13. QED
    BY <1>7, <1>12

\* A second is not over before it began.
LEMMA SecondsFollow ==
  ASSUME NEW a \in Nat
  PROVE  a \div AliRate \in Nat /\ a \div AliRate <= (a + 1) \div AliRate
<1> DEFINE r == AliRate
           p == a \div r
           q == (a + 1) \div r
<1>1. r \in Nat \ {0}
    BY AliAssumption
<1>2. p \in Nat /\ r * p <= a /\ q \in Int /\ a + 1 < r * q + r
    BY <1>1
<1> HIDE DEF p, q, r
<1>3. ~(q < p)
  <2> SUFFICES ASSUME q < p PROVE FALSE
      OBVIOUS
  <2>1. PICK b \in Nat : p = q + 1 + b
    <3>1. p - q - 1 \in Nat /\ p = q + 1 + (p - q - 1)
        BY <1>2
    <3>2. QED
        BY <3>1
  <2>2. r * p = r * q + r + r * b /\ r * b >= 0
      BY <1>1, <1>2, <2>1
  <2>3. r * p \in Int /\ r * q \in Int /\ r * b \in Int
      BY <1>1, <1>2, <2>1
  <2>4. QED
      BY <1>1, <1>2, <2>2, <2>3
<1>4. QED
    BY <1>2, <1>3 DEF p, q, r

\* A full window gives an attitude, and the chart is told of each.
AliSeriesRight ==
  /\ aliRead \in Seq(AliValues)
  /\ \E S : aliSeries \in Seq(S)
  /\ Len(aliSeries) = IF Len(aliRead) >= AliWin THEN Len(aliRead) - AliWin + 1 ELSE 0
  /\ \A i \in 1 .. Len(aliSeries) : aliSeries[i].tow = AliWin + i - 1
  /\ Thinned(aliDec, Len(aliSeries))

LEMMA AliStarts == ASSUME AliInit PROVE AliSeriesRight
<1>1. aliRead = <<>> /\ aliSeries = <<>> /\ aliDec = [buf |-> <<>>, stride |-> 1, counter |-> 0]
    BY DEF AliInit
<1>2. aliRead \in Seq(AliValues) /\ aliSeries \in Seq({}) /\ Len(aliSeries) = 0 /\ Len(aliRead) = 0
    BY <1>1
<1>3. Thinned(aliDec, 0)
  <2>1. aliDec \in AliDecs
      BY <1>1 DEF AliDecs
  <2>2. 2 * AliMaxPts > 0
      BY AliAssumption
  <2>3. QED
      BY <1>1, <2>1, <2>2 DEF Thinned
<1>4. 0 = IF 0 >= AliWin THEN 0 - AliWin + 1 ELSE 0
    BY AliAssumption
<1>5. QED
    BY <1>2, <1>3, <1>4 DEF AliSeriesRight

LEMMA AliStep == ASSUME AliSeriesRight, [AliNext]_aliVars PROVE AliSeriesRight'
<1>1. CASE UNCHANGED aliVars
    BY <1>1 DEF aliVars, AliSeriesRight
<1>2. CASE AliSample
  <2> DEFINE R == Len(aliRead)
             L == Len(aliSeries)
  <2>1. PICK S : aliSeries \in Seq(S)
      BY DEF AliSeriesRight
  <2>2. aliRead \in Seq(AliValues) /\ R \in Nat /\ L \in Nat /\ AliWin \in Nat \ {0}
        /\ L = IF R >= AliWin THEN R - AliWin + 1 ELSE 0
      BY <2>1, AliAssumption DEF AliSeriesRight
  <2>3. PICK x \in AliValues :
          /\ aliRead' = Append(aliRead, x)
          /\ aliSeries' = IF R + 1 >= AliWin THEN Append(aliSeries, [tow |-> R + 1, mean |-> aliMean'])
                          ELSE aliSeries
          /\ aliDec' = IF R + 1 >= AliWin THEN AliPush(aliDec, L + 1) ELSE aliDec
      BY <1>2 DEF AliSample
  <2>4. aliRead' \in Seq(AliValues) /\ Len(aliRead') = R + 1
      BY <2>2, <2>3
  <2>5. Thinned(aliDec, L)
      BY DEF AliSeriesRight
  <2>6. \A i \in 1 .. L : aliSeries[i].tow = AliWin + i - 1
      BY DEF AliSeriesRight
  <2>7. CASE R + 1 >= AliWin
    <3> DEFINE new == [tow |-> R + 1, mean |-> aliMean']
    <3>1. aliSeries' = Append(aliSeries, new) /\ aliDec' = AliPush(aliDec, L + 1)
        BY <2>3, <2>7
    <3>2. new.tow = R + 1
        OBVIOUS
    <3> HIDE DEF new
    <3>3. aliSeries \in Seq(S \cup {new}) /\ new \in S \cup {new}
        BY <2>1
    <3>4. /\ aliSeries' \in Seq(S \cup {new}) /\ Len(aliSeries') = L + 1
          /\ aliSeries'[L + 1] = new /\ \A i \in 1 .. L : aliSeries'[i] = aliSeries[i]
        BY <3>1, <3>3
    <3> HIDE DEF L, R
    <3>5. L + 1 = (R + 1) - AliWin + 1
        BY <2>2, <2>7
    <3>6. ASSUME NEW i \in 1 .. L + 1 PROVE aliSeries'[i].tow = AliWin + i - 1
      <4>1. CASE i = L + 1
          BY <2>2, <3>2, <3>4, <3>5, <4>1
      <4>2. CASE i # L + 1
        <5>1. i \in 1 .. L
            BY <2>2, <4>2
        <5>2. QED
            BY <2>6, <3>4, <5>1
      <4>3. QED
          BY <4>1, <4>2
    <3>7. Thinned(aliDec', L + 1)
        BY <2>2, <2>5, <3>1, PushKeeps
    <3>8. Len(aliSeries') = IF Len(aliRead') >= AliWin THEN Len(aliRead') - AliWin + 1 ELSE 0
        BY <2>4, <2>7, <3>4, <3>5
    <3>9. QED
        BY <2>4, <3>4, <3>6, <3>7, <3>8 DEF AliSeriesRight
  <2>8. CASE ~(R + 1 >= AliWin)
    <3>1. aliSeries' = aliSeries /\ aliDec' = aliDec
        BY <2>3, <2>8
    <3>2. L = 0 /\ ~(R + 1 >= AliWin)
        BY <2>2, <2>8
    <3>3. QED
        BY <2>1, <2>4, <2>5, <2>6, <3>1, <3>2 DEF AliSeriesRight
  <2>9. QED
      BY <2>7, <2>8
<1>3. QED
    BY <1>1, <1>2 DEF AliNext

LEMMA AliRegular == ASSUME AliSeriesRight PROVE AliPointsRegular
<1> DEFINE L == Len(aliSeries)
           n == Len(aliDec.buf)
           w == aliDec.stride
           rows == AliPerSec(aliSeries)
           of(sec) == {k \in DOMAIN aliSeries : AliSecond(aliSeries[k]) = sec}
<1>1. DOMAIN aliSeries = 1 .. L /\ L \in Nat
    BY DEF AliSeriesRight
<1>2. /\ aliDec.buf \in Seq(Nat) /\ n \in Nat /\ w \in Nat \ {0}
      /\ \A i \in 1 .. n : aliDec.buf[i] = (i - 1) * w + 1
      /\ n * w - L \in 0 .. w - 1
    BY DEF AliSeriesRight, Thinned, AliDecs
<1>3. aliDec.buf = [i \in 1 .. n |-> (i - 1) * w + 1]
  <2>1. DOMAIN aliDec.buf = 1 .. n /\ aliDec.buf = [i \in 1 .. n |-> aliDec.buf[i]]
      BY <1>2
  <2> HIDE DEF n, w
  <2>2. QED
      BY <1>2, <2>1
<1>4. L - n * w \in (1 - w) .. 0
  <2> HIDE DEF L, n, w
  <2>1. n * w \in Int
      BY <1>2
  <2>2. QED
      BY <1>1, <1>2, <2>1
<1>5. Timed(aliSeries)
  <2>1. ASSUME NEW m \in 1 .. L PROVE AliSecond(aliSeries[m]) \in Nat
    <3>1. aliSeries[m].tow = AliWin + m - 1 /\ AliWin + m - 1 \in Nat
        BY <1>1, AliAssumption DEF AliSeriesRight
    <3>2. QED
        BY <3>1, SecondsFollow DEF AliSecond
  <2>2. ASSUME NEW m \in 1 .. L, m < L
        PROVE  AliSecond(aliSeries[m]) <= AliSecond(aliSeries[m + 1])
    <3>1. /\ aliSeries[m].tow = AliWin + m - 1 /\ AliWin + m - 1 \in Nat
          /\ aliSeries[m + 1].tow = (AliWin + m - 1) + 1
      <4>1. m + 1 \in 1 .. L /\ AliWin + (m + 1) - 1 = (AliWin + m - 1) + 1
          BY <1>1, <2>2, AliAssumption
      <4>2. QED
          BY <1>1, <4>1, AliAssumption DEF AliSeriesRight
    <3>2. QED
        BY <3>1, SecondsFollow DEF AliSecond
  <2>3. QED
      BY <1>1, <2>1, <2>2 DEF Timed
<1>6. RowsRight(rows, aliSeries, L)
    BY <1>5, RowsAre
<1>7. DOMAIN rows = 1 .. Len(rows)
    BY <1>6 DEF RowsRight
<1>8. \A sec : of(sec) = OfSecond(aliSeries, L, sec)
    BY <1>1 DEF OfSecond
<1> HIDE DEF rows, of, L
<1>9. \A i, j \in DOMAIN rows : i < j => rows[i].sec < rows[j].sec
    BY <1>6, <1>7 DEF RowsRight
<1>10. {rows[i].sec : i \in DOMAIN rows} = {AliSecond(aliSeries[k]) : k \in DOMAIN aliSeries}
  <2>1. \A i \in 1 .. Len(rows) : \E m \in 1 .. L : AliSecond(aliSeries[m]) = rows[i].sec
      BY <1>6 DEF RowsRight
  <2>2. \A m \in 1 .. L : \E i \in 1 .. Len(rows) : rows[i].sec = AliSecond(aliSeries[m])
      BY <1>6 DEF RowsRight
  <2>3. DOMAIN rows = 1 .. Len(rows) /\ DOMAIN aliSeries = 1 .. L
      BY <1>1, <1>7 DEF L
  <2>4. {rows[i].sec : i \in 1 .. Len(rows)} = {AliSecond(aliSeries[k]) : k \in 1 .. L}
    <3>1. ASSUME NEW i \in 1 .. Len(rows)
          PROVE  rows[i].sec \in {AliSecond(aliSeries[k]) : k \in 1 .. L}
        BY <2>1
    <3>2. ASSUME NEW m \in 1 .. L
          PROVE  AliSecond(aliSeries[m]) \in {rows[i].sec : i \in 1 .. Len(rows)}
        BY <2>2
    <3>3. QED
        BY <3>1, <3>2
  <2>5. QED
      BY <2>3, <2>4
<1>11. \A i \in DOMAIN rows : rows[i].n = Cardinality(of(rows[i].sec))
    BY <1>6, <1>7, <1>8 DEF RowsRight
<1>12. QED
    BY <1>3, <1>4, <1>9, <1>10, <1>11 DEF AliPointsRegular, rows, of, L

\* For every length of window, size of buffer, rate and number of samples:
\* the chart of an alignment has every stride-th attitude from the first to
\* within a stride of the last, however often OnlineDecimator thinned it,
\* and exportAlignPerSec has one row for each second, of all its attitudes.
THEOREM AliPointsStayRegular == AliSpec => []AliPointsRegular
<1>1. AliSpec => []AliSeriesRight
    BY AliStarts, AliStep, PTL DEF AliSpec
<1>2. QED
    BY <1>1, AliRegular, PTL
=============================================================================
