--------------------------- MODULE ReceiverProofs ---------------------------
(***************************************************************************)
(* Receiver for any inputs: how the bytes are split over the reads, where  *)
(* they are damaged and which messages they hold is left open.             *)
(*                                                                         *)
(* Nothing is lost or repeated between the bytes and the epochs.  The      *)
(* buffer shows the cells behind a place of the input (Holds), and the     *)
(* frames of the cells received are those read so far followed by the      *)
(* frames behind that place (FoundOK), whichever cells arrive next.  The   *)
(* records read are those of the epochs handed out, of the epoch that      *)
(* waits and of the one being collected (Flows), and each epoch has taken  *)
(* its values in the promised order (EpochOK).                             *)
(*                                                                         *)
(* The epochs are sound when the receiver sends its records in time order. *)
(* Then mPrevLock and mCurLock hold the lowest lock times of the latest    *)
(* time stamp before and of the current one (LocksOK), so what an epoch of *)
(* the current stamp flags is what went below the stamp before (FlagsOK),  *)
(* and a file gives epochs of rising time stamps (SingleOK).               *)
(***************************************************************************)
EXTENDS Receiver, FiniteSetTheorems, WellFoundedInduction, TLAPS

(* Numbers and sequences.                                                  *)

LEMMA LeastNat ==
  ASSUME NEW S \in SUBSET Nat, S # {}
  PROVE  \E x \in S : \A y \in S : x <= y
<1> DEFINE R == OpToRel(<, Nat)
<1>1. IsWellFoundedOn(R, Nat)
    BY NatLessThanWellFounded
<1>2. PICK x \in S : \A y \in S : ~(<<y, x>> \in R)
  <2> HIDE DEF R
  <2>1. QED
      BY <1>1, WFMin
<1>3. \A y \in S : ~(y < x)
    BY <1>2 DEF OpToRel
<1>4. QED
    BY <1>3

LEMMA Induct ==
  ASSUME NEW n \in Nat, NEW S, 0 \in S, \A k \in 0 .. n - 1 : k \in S => k + 1 \in S
  PROVE  0 .. n \subseteq S
<1> DEFINE Out == (0 .. n) \ S
<1>1. Out = {}
  <2> SUFFICES ASSUME Out # {}
               PROVE  FALSE
      OBVIOUS
  <2>1. PICK m \in Out : \A i \in Out : m <= i
    <3>1. Out \subseteq Nat
        OBVIOUS
    <3>2. QED
        BY <3>1, LeastNat
  <2>2. m # 0 /\ m \in 0 .. n
      BY <2>1
  <2>3. m - 1 \in 0 .. n - 1 /\ m - 1 \in 0 .. n /\ ~(m <= m - 1) /\ (m - 1) + 1 = m
      BY <2>2
  <2>4. m - 1 \in S
      BY <2>1, <2>3
  <2>5. QED
      BY <2>1, <2>3, <2>4
<1>2. QED
    BY <1>1

LEMMA MinIs ==
  ASSUME NEW S \in SUBSET Nat, S # {}
  PROVE  Min(S) \in S /\ \A y \in S : Min(S) <= y
BY LeastNat DEF Min

LEMMA MaxIs ==
  ASSUME NEW n \in Nat, NEW S \in SUBSET (0 .. n), S # {}
  PROVE  Max(S) \in S /\ \A y \in S : y <= Max(S)
<1> DEFINE R == {n - y : y \in S}
<1>1. R \in SUBSET Nat /\ R # {}
  <2>1. ASSUME NEW y \in S PROVE n - y \in Nat
      OBVIOUS
  <2>2. PICK y \in S : TRUE
      OBVIOUS
  <2>3. n - y \in R
      BY <2>2
  <2>4. QED
      BY <2>1, <2>3
<1>2. PICK r \in R : \A q \in R : r <= q
  <2> HIDE DEF R
  <2>1. QED
      BY <1>1, LeastNat
<1>3. PICK x \in S : r = n - x
    OBVIOUS
<1>4. \A y \in S : x >= y
  <2> SUFFICES ASSUME NEW y \in S PROVE x >= y
      OBVIOUS
  <2>1. n - y \in R
      OBVIOUS
  <2>2. r <= n - y
      BY <1>2, <2>1
  <2>3. QED
      BY <1>3, <2>2
<1>5. Max(S) \in S /\ \A y \in S : Max(S) >= y
    BY <1>4 DEF Max
<1>6. QED
    BY <1>5

InSteps(g, n, V, v, step) ==
  g \in [0 .. n -> V] /\ g[0] = v /\ \A k \in 1 .. n : g[k] = step[<<k, g[k - 1]>>]

LEMMA StepsExist ==
  ASSUME NEW n \in Nat, NEW V, NEW v \in V, NEW step \in [(1 .. n) \X V -> V]
  PROVE  \E g : InSteps(g, n, V, v, step)
<1> DEFINE Upto(m, g) == /\ g \in [0 .. m -> V]
                         /\ g[0] = v
                         /\ \A k \in 1 .. m : g[k] = step[<<k, g[k - 1]>>]
           Unfit == {m \in Nat : m <= n /\ ~\E g : Upto(m, g)}
<1>1. Unfit = {}
  <2> SUFFICES ASSUME Unfit # {}
               PROVE  FALSE
      OBVIOUS
  <2>1. PICK m \in Unfit : \A i \in Unfit : m <= i
    <3>1. Unfit \subseteq Nat
        OBVIOUS
    <3>2. QED
        BY <3>1, LeastNat
  <2>2. m \in Nat /\ m <= n
      BY <2>1
  <2>3. m # 0
    <3>1. Upto(0, [k \in 0 .. 0 |-> v])
        OBVIOUS
    <3>2. QED
        BY <2>1, <3>1
  <2>4. m - 1 \in Nat /\ m - 1 <= n /\ ~(m <= m - 1)
      BY <2>2, <2>3
  <2>5. PICK g : Upto(m - 1, g)
      BY <2>1, <2>4
  <2> DEFINE h == [k \in 0 .. m |-> IF k = m THEN step[<<m, g[m - 1]>>] ELSE g[k]]
  <2>6. g[m - 1] \in V /\ step[<<m, g[m - 1]>>] \in V
      BY <2>2, <2>4, <2>5
  <2>7. h \in [0 .. m -> V] /\ h[0] = v
      BY <2>2, <2>3, <2>5, <2>6
  <2>8. ASSUME NEW k \in 1 .. m PROVE h[k] = step[<<k, h[k - 1]>>]
    <3>1. h[k - 1] = g[k - 1]
        BY <2>2
    <3>2. CASE k = m
      <4>1. h[m] = step[<<m, g[m - 1]>>]
          BY <2>2
      <4>2. QED
          BY <3>1, <3>2, <4>1
    <3>3. CASE k # m
      <4>1. k \in 1 .. m - 1
          BY <2>2, <3>3
      <4>2. h[k] = g[k]
          BY <3>3
      <4>3. QED
          BY <2>5, <3>1, <4>1, <4>2
    <3>4. QED
        BY <3>2, <3>3
  <2>9. Upto(m, h)
      BY <2>7, <2>8
  <2>10. QED
      BY <2>1, <2>9
<1>2. n \notin Unfit
    BY <1>1
<1>3. QED
    BY <1>2 DEF InSteps

StaysIn(h, n, V) == \A k \in 0 .. n : h[k] \in V
StepStays(h, n, V) == h[0] \in V /\ \A k \in 1 .. n : h[k - 1] \in V => h[k] \in V

LEMMA SameSeq ==
  ASSUME NEW V, NEW s \in Seq(V), NEW r \in Seq(V), Len(s) = Len(r),
         \A i \in 1 .. Len(s) : s[i] = r[i]
  PROVE  s = r
OBVIOUS

LEMMA CatIs ==
  ASSUME NEW V, NEW s \in Seq(V), NEW r \in Seq(V)
  PROVE  s \o r \in Seq(V) /\ Len(s \o r) = Len(s) + Len(r)
OBVIOUS

LEMMA SubSeqIs ==
  ASSUME NEW V, NEW s \in Seq(V), NEW a \in Nat, NEW b \in Nat, a <= b, b <= Len(s)
  PROVE  /\ SubSeq(s, a + 1, b) \in Seq(V) /\ Len(SubSeq(s, a + 1, b)) = b - a
         /\ \A i \in 1 .. b - a : SubSeq(s, a + 1, b)[i] = s[a + i]
<1>1. \A i \in 1 .. b - a : a + i \in 1 .. Len(s) /\ i + (a + 1) - 1 = a + i
    OBVIOUS
<1>2. b - (a + 1) + 1 = b - a /\ b - a \in Nat
    OBVIOUS
<1>3. Len(SubSeq(s, a + 1, b)) = b - a
    BY <1>2
<1>4. SubSeq(s, a + 1, b) \in Seq(V)
    BY <1>1, <1>2
<1>5. \A i \in 1 .. b - a : SubSeq(s, a + 1, b)[i] = s[a + i]
    BY <1>1, <1>2
<1>6. QED
    BY <1>3, <1>4, <1>5

\* A piece of a piece.
LEMMA SubSub ==
  ASSUME NEW V, NEW s \in Seq(V), NEW a \in Nat, NEW b \in Nat, a <= b, b <= Len(s),
         NEW x \in Nat, NEW y \in Nat, x <= y, y <= b - a
  PROVE  SubSeq(SubSeq(s, a + 1, b), x + 1, y) = SubSeq(s, a + x + 1, a + y)
<1> DEFINE w == SubSeq(s, a + 1, b)
           p == SubSeq(w, x + 1, y)
           from == a + x
           to == a + y
           q == SubSeq(s, from + 1, to)
<1>1. w \in Seq(V) /\ Len(w) = b - a /\ \A i \in 1 .. b - a : w[i] = s[a + i]
    BY SubSeqIs
<1> HIDE DEF w
<1>2. p \in Seq(V) /\ Len(p) = y - x /\ \A i \in 1 .. y - x : p[i] = w[x + i]
    BY <1>1, SubSeqIs
<1>3. from \in Nat /\ to \in Nat /\ from <= to /\ to <= Len(s) /\ to - from = y - x
    OBVIOUS
<1>4. \A i \in 1 .. y - x : x + i \in 1 .. b - a /\ a + (x + i) = from + i
    OBVIOUS
<1> HIDE DEF from, to
<1>5. q \in Seq(V) /\ Len(q) = y - x /\ \A i \in 1 .. y - x : q[i] = s[from + i]
    BY <1>3, SubSeqIs
<1>6. \A i \in 1 .. y - x : p[i] = q[i]
    BY <1>1, <1>2, <1>4, <1>5
<1> HIDE DEF p, q
<1>7. p = q
    BY <1>2, <1>5, <1>6, SameSeq
<1>8. QED
    BY <1>7 DEF p, q, w, from, to

\* What is appended to a piece is the next piece.
LEMMA SubCat ==
  ASSUME NEW V, NEW s \in Seq(V), NEW a \in Nat, NEW b \in Nat, a <= b,
         NEW d \in Nat, b <= d, d <= Len(s)
  PROVE  SubSeq(s, a + 1, b) \o SubSeq(s, b + 1, d) = SubSeq(s, a + 1, d)
<1> DEFINE p == SubSeq(s, a + 1, b)
           q == SubSeq(s, b + 1, d)
           w == SubSeq(s, a + 1, d)
<1>1. p \in Seq(V) /\ Len(p) = b - a /\ \A i \in 1 .. b - a : p[i] = s[a + i]
    BY SubSeqIs
<1>2. q \in Seq(V) /\ Len(q) = d - b /\ \A i \in 1 .. d - b : q[i] = s[b + i]
    BY SubSeqIs
<1>3. w \in Seq(V) /\ Len(w) = d - a /\ \A i \in 1 .. d - a : w[i] = s[a + i]
    BY SubSeqIs
<1> HIDE DEF p, q, w
<1>4. p \o q \in Seq(V) /\ Len(p \o q) = d - a
    BY <1>1, <1>2
<1>5. ASSUME NEW i \in 1 .. d - a PROVE (p \o q)[i] = w[i]
  <2>1. CASE i <= b - a
      BY <1>1, <1>2, <1>3, <2>1
  <2>2. CASE ~(i <= b - a)
    <3>1. i - (b - a) \in 1 .. d - b /\ b + (i - (b - a)) = a + i
        BY <2>2
    <3>2. (p \o q)[i] = q[i - (b - a)]
        BY <1>1, <1>2, <2>2
    <3>3. QED
        BY <1>2, <1>3, <3>1, <3>2
  <2>3. QED
      BY <2>1, <2>2
<1>6. p \o q = w
    BY <1>3, <1>4, <1>5, SameSeq
<1>7. QED
    BY <1>6 DEF p, q, w

-----------------------------------------------------------------------------
(* The frames of a string of cells. *)

USE HeadLenAssumption, MaxFrameAssumption

\* One turn of FramesFrom, given what there is behind place j.
NextFrames(c, fr, j) ==
  IF ~SyncAt(c, j, "T") THEN fr[j + 1]
  ELSE IF HeaderShort(c, j) THEN <<>>
  ELSE IF ~Plausible(c, j) THEN fr[j + 1]
  ELSE IF BodyShort(c, j) THEN <<>>
  ELSE IF CrcOk(c, j) THEN <<c[j + 4].f>> \o fr[j + Declared(c, j)]
  ELSE fr[j + 1]

\* A plausible frame that is there ends behind its place and within the cells.
LEMMA FrameEnds ==
  ASSUME NEW c \in Seq(LogsCells), NEW j \in 0 .. Len(c), ~HeaderShort(c, j)
  PROVE  /\ j + 4 \in 1 .. Len(c) /\ c[j + 4] \in LogsCells /\ c[j + 4].f \in Nat
         /\ Declared(c, j) \in Nat
         /\ Plausible(c, j) /\ ~BodyShort(c, j) => j + Declared(c, j) \in j + 1 .. Len(c)
<1>1. Len(c) \in Nat /\ j \in Nat /\ Len(c) - j >= HeadLen /\ HeadLen \in Nat /\ HeadLen > 3
    BY HeadLenAssumption DEF HeaderShort
<1>2. j + 4 \in 1 .. Len(c)
    BY <1>1
<1>3. c[j + 4] \in LogsCells
    BY <1>2
<1>4. c[j + 4].f \in Nat /\ c[j + 4].len \in Nat
    BY <1>3 DEF LogsCells
<1>5. ASSUME Plausible(c, j), ~BodyShort(c, j)
      PROVE  j + Declared(c, j) \in j + 1 .. Len(c)
  <2>1. c[j + 4].len >= HeadLen /\ ~(Len(c) - j < c[j + 4].len)
      BY <1>1, <1>4, <1>5 DEF Plausible, BodyShort, Declared
  <2>2. QED
      BY <1>1, <1>4, <2>1 DEF Declared
<1>6. QED
    BY <1>2, <1>3, <1>4, <1>5 DEF Declared

LEMMA NextFramesType ==
  ASSUME NEW c \in Seq(LogsCells), NEW j \in 0 .. Len(c) - 1, NEW fr \in [0 .. Len(c) -> Seq(Nat)]
  PROVE  NextFrames(c, fr, j) \in Seq(Nat)
<1>1. j \in 0 .. Len(c) /\ j + 1 \in 0 .. Len(c) /\ Len(c) \in Nat
    OBVIOUS
<1>2. fr[j + 1] \in Seq(Nat) /\ <<>> \in Seq(Nat)
    BY <1>1
<1>3. CASE ~HeaderShort(c, j) /\ Plausible(c, j) /\ ~BodyShort(c, j)
  <2>1. c[j + 4].f \in Nat /\ j + Declared(c, j) \in 0 .. Len(c)
      BY <1>1, <1>3, FrameEnds
  <2>2. fr[j + Declared(c, j)] \in Seq(Nat)
      BY <2>1
  <2>3. <<c[j + 4].f>> \o fr[j + Declared(c, j)] \in Seq(Nat)
      BY <2>1, <2>2
  <2>4. QED
      BY <1>2, <2>3 DEF NextFrames
<1>4. CASE ~(~HeaderShort(c, j) /\ Plausible(c, j) /\ ~BodyShort(c, j))
    BY <1>2, <1>4 DEF NextFrames
<1>5. QED
    BY <1>3, <1>4

\* It looks only behind j.
LEMMA NextFramesAgree ==
  ASSUME NEW c \in Seq(LogsCells), NEW j \in 0 .. Len(c) - 1, NEW fr, NEW gr,
         \A i \in j + 1 .. Len(c) : fr[i] = gr[i]
  PROVE  NextFrames(c, fr, j) = NextFrames(c, gr, j)
<1>1. j \in 0 .. Len(c) /\ j + 1 \in j + 1 .. Len(c)
    OBVIOUS
<1>2. fr[j + 1] = gr[j + 1]
    BY <1>1
<1>3. CASE ~HeaderShort(c, j) /\ Plausible(c, j) /\ ~BodyShort(c, j)
  <2>1. j + Declared(c, j) \in j + 1 .. Len(c)
      BY <1>1, <1>3, FrameEnds
  <2>2. fr[j + Declared(c, j)] = gr[j + Declared(c, j)]
      BY <2>1
  <2>3. QED
      BY <1>2, <2>2 DEF NextFrames
<1>4. CASE ~(~HeaderShort(c, j) /\ Plausible(c, j) /\ ~BodyShort(c, j))
    BY <1>2, <1>4 DEF NextFrames
<1>5. QED
    BY <1>3, <1>4

FramesRight(c, fr) ==
  /\ fr \in [0 .. Len(c) -> Seq(Nat)] /\ fr[Len(c)] = <<>>
  /\ \A j \in 0 .. Len(c) - 1 : fr[j] = NextFrames(c, fr, j)

LEMMA FramesExist ==
  ASSUME NEW c \in Seq(LogsCells)
  PROVE  \E fr : FramesRight(c, fr)
<1> DEFINE N == Len(c)
           V == [0 .. N -> Seq(Nat)]
           step == [p \in (1 .. N) \X V |-> [p[2] EXCEPT ![N - p[1]] = NextFrames(c, p[2], N - p[1])]]
           none == [j \in 0 .. N |-> <<>>]
<1>1. N \in Nat /\ none \in V
    OBVIOUS
<1>2. step \in [(1 .. N) \X V -> V]
  <2>1. ASSUME NEW k \in 1 .. N, NEW fr \in V
        PROVE  [fr EXCEPT ![N - k] = NextFrames(c, fr, N - k)] \in V
    <3>1. N - k \in 0 .. Len(c) - 1
        BY <1>1
    <3>2. NextFrames(c, fr, N - k) \in Seq(Nat)
        BY <3>1, NextFramesType
    <3>3. QED
        BY <3>2
  <2> HIDE DEF N, V
  <2>2. QED
      BY <2>1
<1>3. PICK g : InSteps(g, N, V, none, step)
  <2> HIDE DEF N, V, step, none
  <2>1. QED
      BY <1>1, <1>2, StepsExist
<1>4. g \in [0 .. N -> V] /\ \A k \in 1 .. N : g[k] = step[<<k, g[k - 1]>>]
    BY <1>3 DEF InSteps
<1>5. \A k \in 0 .. N : g[k] \in V
  <2> HIDE DEF V
  <2>1. QED
      BY <1>4
<1>6. g[0] = none
    BY <1>3 DEF InSteps
<1>7. ASSUME NEW k \in 1 .. N
      PROVE  g[k] = [g[k - 1] EXCEPT ![N - k] = NextFrames(c, g[k - 1], N - k)]
  <2>1. k - 1 \in 0 .. N
      BY <1>1
  <2>2. g[k - 1] \in V
      BY <1>5, <2>1
  <2> HIDE DEF N, V
  <2>3. QED
      BY <1>4, <2>2
<1> DEFINE Ok(k) == \A j \in N - k .. N : g[k][j] = IF j = N THEN <<>> ELSE NextFrames(c, g[k], j)
           S == {k \in 0 .. N : Ok(k)}
<1>8. 0 \in S
  <2>1. \A j \in N - 0 .. N : j = N
      BY <1>1
  <2>2. g[0][N] = <<>>
      BY <1>1, <1>6
  <2>3. 0 \in 0 .. N /\ Ok(0)
      BY <1>1, <2>1, <2>2
  <2>4. QED
      BY <2>3
<1>9. ASSUME NEW m \in 0 .. N - 1, m \in S PROVE m + 1 \in S
  <2> DEFINE k == m + 1
             a == g[m]
             b == g[k]
             i == N - k
  <2>1. /\ k \in 1 .. N /\ k - 1 = m /\ i \in 0 .. N - 1 /\ N - m = i + 1 /\ k \in 0 .. N
        /\ m \in 0 .. N
      BY <1>1
  <2>2. b = [a EXCEPT ![i] = NextFrames(c, a, i)] /\ a \in V
      BY <1>5, <1>7, <2>1
  <2>3. Ok(m)
      BY <1>9
  <2> HIDE DEF a, b, k, i
  <2>4. b[i] = NextFrames(c, a, i) /\ \A j \in i + 1 .. N : b[j] = a[j]
      BY <2>1, <2>2
  <2>5. ASSUME NEW j \in i .. N, j # N PROVE NextFrames(c, a, j) = NextFrames(c, b, j)
    <3>1. j \in 0 .. Len(c) - 1 /\ \A l \in j + 1 .. Len(c) : l \in i + 1 .. N
        BY <1>1, <2>1, <2>5
    <3>2. \A l \in j + 1 .. Len(c) : a[l] = b[l]
        BY <2>4, <3>1
    <3>3. QED
        BY <3>1, <3>2, NextFramesAgree
  <2>6. ASSUME NEW j \in i .. N PROVE b[j] = IF j = N THEN <<>> ELSE NextFrames(c, b, j)
    <3>1. CASE j = i
        BY <2>1, <2>4, <2>5, <3>1
    <3>2. CASE j # i
      <4>1. j \in i + 1 .. N /\ j \in N - m .. N
          BY <1>1, <2>1, <3>2
      <4>2. b[j] = a[j]
          BY <2>4, <4>1
      <4>3. a[j] = IF j = N THEN <<>> ELSE NextFrames(c, a, j)
          BY <2>3, <4>1 DEF a
      <4>4. QED
          BY <2>5, <4>2, <4>3
    <3>3. QED
        BY <3>1, <3>2
  <2>7. Ok(k)
      BY <2>6 DEF b, i
  <2>8. QED
      BY <2>1, <2>7 DEF k
<1>10. N \in S
  <2> HIDE DEF S
  <2>1. 0 .. N \subseteq S
    <3> HIDE DEF N
    <3>1. QED
        BY <1>1, <1>8, <1>9, Induct
  <2>2. QED
      BY <1>1, <2>1
<1> DEFINE fr == g[N]
<1>11. fr \in V /\ Ok(N) /\ N - N = 0
    BY <1>1, <1>5, <1>10
<1>12. \A j \in 0 .. N : fr[j] = IF j = N THEN <<>> ELSE NextFrames(c, fr, j)
    BY <1>11
<1> HIDE DEF fr
<1>13. FramesRight(c, fr)
    BY <1>1, <1>11, <1>12 DEF FramesRight
<1>14. QED
    BY <1>13

LEMMA FramesAre ==
  ASSUME NEW c \in Seq(LogsCells)
  PROVE  \E fr : FramesRight(c, fr) /\ \A j : FramesFrom(c, j) = fr[j]
<1> DEFINE N == Len(c)
           Turn(fr) == [j \in 0 .. N |-> IF j = N THEN <<>> ELSE NextFrames(c, fr, j)]
<1>1. PICK g : FramesRight(c, g)
    BY FramesExist
<1>2. g = Turn(g)
    BY <1>1 DEF FramesRight
<1>3. PICK l : l = CHOOSE fr : fr = Turn(fr)
    OBVIOUS
<1>4. \A j : FramesFrom(c, j) = l[j]
    BY <1>3 DEF FramesFrom, NextFrames
<1>5. l = Turn(l)
  <2> HIDE DEF Turn
  <2>1. QED
      BY <1>2, <1>3
<1> DEFINE Ok(k) == \A j \in N - k .. N : l[j] = g[j]
           S == {k \in 0 .. N : Ok(k)}
<1>6. \A j \in 0 .. N : l[j] = IF j = N THEN <<>> ELSE NextFrames(c, l, j)
    BY <1>5
<1>7. \A j \in 0 .. N : g[j] = IF j = N THEN <<>> ELSE NextFrames(c, g, j)
    BY <1>1 DEF FramesRight
<1>8. 0 \in S
    BY <1>6, <1>7
<1>9. ASSUME NEW m \in 0 .. N - 1, m \in S PROVE m + 1 \in S
  <2> DEFINE i == N - (m + 1)
  <2>1. /\ i \in 0 .. Len(c) - 1 /\ i \in 0 .. N /\ i # N /\ N - m = i + 1 /\ m + 1 \in 0 .. N
        /\ \A j \in i .. N : j = i \/ j \in i + 1 .. N
      OBVIOUS
  <2>2. \A j \in i + 1 .. N : l[j] = g[j]
      BY <1>9, <2>1
  <2> HIDE DEF i
  <2>3. NextFrames(c, l, i) = NextFrames(c, g, i)
      BY <2>1, <2>2, NextFramesAgree
  <2>4. l[i] = g[i]
      BY <1>6, <1>7, <2>1, <2>3
  <2>5. \A j \in i .. N : l[j] = g[j]
      BY <2>1, <2>2, <2>4
  <2>6. QED
      BY <2>1, <2>5 DEF i
<1>10. N \in Nat /\ N \in 0 .. N /\ N - N = 0
    OBVIOUS
<1>11. \A j \in 0 .. N : l[j] = g[j]
  <2>1. 0 .. N \subseteq S
    <3> HIDE DEF S, N
    <3>1. QED
        BY <1>8, <1>9, <1>10, Induct
  <2>2. QED
      BY <1>10, <2>1
<1>12. l = g
  <2>1. l = [j \in 0 .. N |-> l[j]] /\ g = [j \in 0 .. N |-> g[j]]
      BY <1>2, <1>5
  <2>2. QED
      BY <1>11, <2>1
<1>13. QED
    BY <1>1, <1>4, <1>12

\* The search goes on behind place j.
Passed(c, j) == SyncAt(c, j, "T") => ~SocketStops(c, j)

LEMMA FramesSkip ==
  ASSUME NEW c \in Seq(LogsCells), NEW j \in 0 .. Len(c) - 1, Passed(c, j)
  PROVE  FramesFrom(c, j) = FramesFrom(c, j + 1)
<1>1. PICK fr : FramesRight(c, fr) /\ \A i : FramesFrom(c, i) = fr[i]
    BY FramesAre
<1>2. fr[j] = NextFrames(c, fr, j)
    BY <1>1 DEF FramesRight
<1>3. NextFrames(c, fr, j) = fr[j + 1]
    BY DEF NextFrames, Passed, SocketStops
<1>4. QED
    BY <1>1, <1>2, <1>3

LEMMA FramesSkipAll ==
  ASSUME NEW c \in Seq(LogsCells), NEW a \in Nat, NEW b \in Nat, a <= b, b <= Len(c),
         \A j \in a .. b - 1 : Passed(c, j)
  PROVE  FramesFrom(c, a) = FramesFrom(c, b)
<1> DEFINE n == b - a
           S == {k \in 0 .. n : FramesFrom(c, a) = FramesFrom(c, a + k)}
<1>1. n \in Nat /\ 0 \in S
    OBVIOUS
<1>2. ASSUME NEW k \in 0 .. n - 1, k \in S PROVE k + 1 \in S
  <2>1. a + k \in 0 .. Len(c) - 1 /\ a + k \in a .. b - 1 /\ k + 1 \in 0 .. n
        /\ (a + k) + 1 = a + (k + 1)
      OBVIOUS
  <2>2. FramesFrom(c, a + k) = FramesFrom(c, a + (k + 1))
      BY <2>1, FramesSkip
  <2>3. QED
      BY <1>2, <2>1, <2>2
<1>3. n \in S
  <2> HIDE DEF S, n
  <2>1. 0 .. n \subseteq S
      BY <1>1, <1>2, Induct
  <2>2. QED
      BY <1>1, <2>1
<1>4. a + n = b
    OBVIOUS
<1>5. QED
    BY <1>3, <1>4

LEMMA FramesTake ==
  ASSUME NEW c \in Seq(LogsCells), NEW j \in 0 .. Len(c) - 1,
         SyncAt(c, j, "T"), ~HeaderShort(c, j), Plausible(c, j), ~BodyShort(c, j), CrcOk(c, j)
  PROVE  FramesFrom(c, j) = <<c[j + 4].f>> \o FramesFrom(c, j + Declared(c, j))
<1>1. PICK fr : FramesRight(c, fr) /\ \A i : FramesFrom(c, i) = fr[i]
    BY FramesAre
<1>2. fr[j] = NextFrames(c, fr, j)
    BY <1>1 DEF FramesRight
<1>3. NextFrames(c, fr, j) = <<c[j + 4].f>> \o fr[j + Declared(c, j)]
    BY DEF NextFrames
<1>4. QED
    BY <1>1, <1>2, <1>3

LEMMA FramesStop ==
  ASSUME NEW c \in Seq(LogsCells), NEW j \in 0 .. Len(c),
         \/ j = Len(c)
         \/ SyncAt(c, j, "T") /\ (HeaderShort(c, j) \/ (Plausible(c, j) /\ BodyShort(c, j)))
  PROVE  FramesFrom(c, j) = <<>>
<1>1. PICK fr : FramesRight(c, fr) /\ \A i : FramesFrom(c, i) = fr[i]
    BY FramesAre
<1>2. CASE j = Len(c)
    BY <1>1, <1>2 DEF FramesRight
<1>3. CASE j # Len(c)
  <2>1. fr[j] = NextFrames(c, fr, j)
      BY <1>1, <1>3 DEF FramesRight
  <2>2. NextFrames(c, fr, j) = <<>>
      BY <1>3 DEF NextFrames
  <2>3. QED
      BY <1>1, <2>1, <2>2
<1>4. QED
    BY <1>2, <1>3

LEMMA FramesType ==
  ASSUME NEW c \in Seq(LogsCells), NEW j \in 0 .. Len(c)
  PROVE  FramesFrom(c, j) \in Seq(Nat)
<1>1. PICK fr : FramesRight(c, fr) /\ \A i : FramesFrom(c, i) = fr[i]
    BY FramesAre
<1>2. QED
    BY <1>1 DEF FramesRight

-----------------------------------------------------------------------------
(* What the buffer shows at offset i is what the cells have at place b + i. *)

\* w is the n cells behind place b.
Shows(c, b, n, w) ==
  b \in Nat /\ n \in Nat /\ b + n <= Len(c) /\ w = SubSeq(c, b + 1, b + n)

LEMMA ShownIs ==
  ASSUME NEW c \in Seq(LogsCells), NEW b, NEW n, NEW w, Shows(c, b, n, w)
  PROVE  w \in Seq(LogsCells) /\ Len(w) = n /\ \A k \in 1 .. n : w[k] = c[b + k]
<1> DEFINE e == b + n
<1>1. b \in Nat /\ e \in Nat /\ b <= e /\ e <= Len(c) /\ e - b = n /\ w = SubSeq(c, b + 1, e)
    BY DEF Shows
<1> HIDE DEF e
<1>2. QED
    BY <1>1, SubSeqIs

\* What is shown behind offset d is shown behind place b + d.
LEMMA ShownRest ==
  ASSUME NEW c \in Seq(LogsCells), NEW b, NEW n, NEW w, Shows(c, b, n, w), NEW d \in 0 .. n
  PROVE  Shows(c, b + d, n - d, SubSeq(w, d + 1, n))
<1> DEFINE e == b + n
<1>1. b \in Nat /\ e \in Nat /\ b <= e /\ e <= Len(c) /\ w = SubSeq(c, b + 1, e) /\ n = e - b
      /\ n \in Nat /\ n <= e - b /\ b + n = e
    BY DEF Shows
<1>2. d \in Nat /\ d <= n /\ b + d \in Nat /\ n - d \in Nat /\ (b + d) + (n - d) = b + n
    BY <1>1
<1>3. SubSeq(w, d + 1, n) = SubSeq(c, b + d + 1, b + n)
  <2> HIDE DEF e
  <2>1. SubSeq(SubSeq(c, b + 1, e), d + 1, n) = SubSeq(c, b + d + 1, b + n)
      BY <1>1, <1>2, SubSub
  <2>2. QED
      BY <1>1, <2>1
<1>4. QED
    BY <1>1, <1>2, <1>3 DEF Shows

LEMMA SyncSeen ==
  ASSUME NEW c \in Seq(LogsCells), NEW b, NEW n, NEW w, Shows(c, b, n, w),
         NEW i \in 0 .. n, NEW third
  PROVE  /\ SyncAt(w, i, third) => i + 3 <= n /\ SyncAt(c, b + i, third)
         /\ i + 3 <= n /\ SyncAt(c, b + i, third) => SyncAt(w, i, third)
<1>1. w \in Seq(LogsCells) /\ Len(w) = n /\ \A k \in 1 .. n : w[k] = c[b + k]
    BY ShownIs
<1>2. b \in Nat /\ n \in Nat /\ b + n <= Len(c)
    BY DEF Shows
<1>3. ASSUME i + 3 <= n
      PROVE  /\ w[i + 1] = c[(b + i) + 1] /\ w[i + 2] = c[(b + i) + 2] /\ w[i + 3] = c[(b + i) + 3]
             /\ (b + i) + 3 <= Len(c)
  <2>1. /\ i + 1 \in 1 .. n /\ i + 2 \in 1 .. n /\ i + 3 \in 1 .. n
        /\ b + (i + 1) = (b + i) + 1 /\ b + (i + 2) = (b + i) + 2 /\ b + (i + 3) = (b + i) + 3
        /\ (b + i) + 3 <= Len(c)
      BY <1>2, <1>3
  <2>2. w[i + 1] = c[b + (i + 1)] /\ w[i + 2] = c[b + (i + 2)] /\ w[i + 3] = c[b + (i + 3)]
      BY <1>1, <2>1
  <2>3. QED
      BY <2>1, <2>2
<1>4. QED
    BY <1>1, <1>3 DEF SyncAt

LEMMA HeadSeen ==
  ASSUME NEW c \in Seq(LogsCells), NEW b, NEW n, NEW w, Shows(c, b, n, w),
         NEW i \in 0 .. n, ~HeaderShort(w, i)
  PROVE  /\ ~HeaderShort(c, b + i) /\ i + 3 <= n
         /\ w[i + 4] = c[(b + i) + 4] /\ Declared(w, i) = Declared(c, b + i)
         /\ Declared(w, i) \in Nat /\ w[i + 4].f \in Nat
         /\ Plausible(w, i) <=> Plausible(c, b + i)
<1>1. w \in Seq(LogsCells) /\ Len(w) = n /\ \A k \in 1 .. n : w[k] = c[b + k]
    BY ShownIs
<1>2. b \in Nat /\ n \in Nat /\ b + n <= Len(c)
    BY DEF Shows
<1>3. HeadLen \in Nat /\ HeadLen > 3 /\ n - i >= HeadLen
    BY <1>1, <1>2 DEF HeaderShort
<1>4. i + 4 \in 1 .. n /\ b + (i + 4) = (b + i) + 4 /\ i + 3 <= n
    BY <1>2, <1>3
<1>5. w[i + 4] = c[(b + i) + 4]
    BY <1>1, <1>4
<1>6. ~(Len(c) - (b + i) < HeadLen)
    BY <1>2, <1>3
<1>7. Declared(w, i) \in Nat /\ w[i + 4].f \in Nat
    BY <1>1, FrameEnds
<1>8. QED
    BY <1>4, <1>5, <1>6, <1>7 DEF HeaderShort, Declared, Plausible

LEMMA BodySeen ==
  ASSUME NEW c \in Seq(LogsCells), NEW b, NEW n, NEW w, Shows(c, b, n, w),
         NEW i \in 0 .. n, ~HeaderShort(w, i), ~BodyShort(w, i)
  PROVE  /\ ~BodyShort(c, b + i) /\ i + Declared(w, i) <= n
         /\ CrcOk(w, i) <=> CrcOk(c, b + i)
<1> DEFINE d == c[(b + i) + 4].len
           e == b + n
<1>1. w \in Seq(LogsCells) /\ Len(w) = n
    BY ShownIs
<1>2. b \in Nat /\ n \in Nat /\ e <= Len(c) /\ w = SubSeq(c, b + 1, e) /\ e \in Nat /\ b <= e
      /\ n = e - b
    BY DEF Shows
<1>3. w[i + 4] = c[(b + i) + 4] /\ Declared(w, i) = d /\ Declared(w, i) \in Nat
      /\ Declared(c, b + i) = d
    BY HeadSeen DEF Declared
<1> HIDE DEF d, e
<1>4. d \in Nat /\ i + d <= n
    BY <1>1, <1>2, <1>3 DEF BodyShort
<1>5. ~(Len(c) - (b + i) < d)
    BY <1>2, <1>4 DEF e
<1>6. SubSeq(w, i + 1, i + d) = SubSeq(c, (b + i) + 1, (b + i) + d)
  <2>1. i \in Nat /\ i <= i + d /\ i + d \in Nat /\ b + (i + d) = (b + i) + d /\ i + d <= e - b
      BY <1>2, <1>4
  <2>2. SubSeq(SubSeq(c, b + 1, e), i + 1, i + d) = SubSeq(c, b + i + 1, b + (i + d))
    <3>1. PICK y \in Nat : y = i + d /\ i <= y /\ y <= e - b
        BY <2>1
    <3>2. PICK z \in Nat : z = e /\ b <= z /\ z <= Len(c) /\ y <= z - b
        BY <1>2, <3>1
    <3>4. SubSeq(SubSeq(c, b + 1, z), i + 1, y) = SubSeq(c, b + i + 1, b + y)
      <4>1. b \in Nat /\ i \in Nat
          BY <1>2, <2>1
      <4>2. QED
          BY <3>1, <3>2, <4>1, SubSub
    <3>3. QED
        BY <3>1, <3>2, <3>4
  <2>3. QED
      BY <1>2, <2>1, <2>2
<1>7. CrcOk(w, i) <=> CrcOk(c, b + i)
    BY <1>3, <1>6 DEF CrcOk
<1>8. QED
    BY <1>3, <1>4, <1>5, <1>7 DEF BodyShort

LEMMA PassedSeen ==
  ASSUME NEW c \in Seq(LogsCells), NEW b, NEW n, NEW w, Shows(c, b, n, w),
         NEW i \in 0 .. n, i + 3 <= n, Passed(w, i)
  PROVE  Passed(c, b + i)
<1> SUFFICES ASSUME SyncAt(c, b + i, "T")
             PROVE  ~SocketStops(c, b + i)
    BY DEF Passed
<1>1. ~SocketStops(w, i)
    BY SyncSeen DEF Passed
<1>2. ~HeaderShort(w, i)
    BY <1>1 DEF SocketStops
<1>3. ~HeaderShort(c, b + i) /\ (Plausible(w, i) <=> Plausible(c, b + i))
    BY <1>2, HeadSeen
<1>4. CASE Plausible(c, b + i)
  <2>1. ~BodyShort(w, i) /\ ~CrcOk(w, i)
      BY <1>1, <1>3, <1>4 DEF SocketStops
  <2>2. ~BodyShort(c, b + i) /\ ~CrcOk(c, b + i)
      BY <1>2, <2>1, BodySeen
  <2>3. QED
      BY <1>3, <2>2 DEF SocketStops
<1>5. CASE ~Plausible(c, b + i)
    BY <1>3, <1>5 DEF SocketStops
<1>6. QED
    BY <1>4, <1>5

LEMMA AllPassed ==
  ASSUME NEW c \in Seq(LogsCells), NEW b, NEW n, NEW w, Shows(c, b, n, w),
         NEW idx \in 0 .. n, NEW i \in idx .. n,
         \A j \in idx .. i - 1 : j + 3 <= n /\ Passed(w, j)
  PROVE  FramesFrom(c, b + idx) = FramesFrom(c, b + i)
<1>1. b \in Nat /\ n \in Nat /\ b + n <= Len(c)
    BY DEF Shows
<1>2. b + idx \in Nat /\ b + i \in Nat /\ b + idx <= b + i /\ b + i <= Len(c)
    BY <1>1
<1>3. ASSUME NEW j \in b + idx .. (b + i) - 1 PROVE Passed(c, j)
  <2>1. j - b \in idx .. i - 1 /\ j - b \in 0 .. n /\ b + (j - b) = j
      BY <1>1
  <2>2. Passed(c, b + (j - b))
      BY <2>1, PassedSeen
  <2>3. QED
      BY <2>1, <2>2
<1>4. QED
    BY <1>2, <1>3, FramesSkipAll

-----------------------------------------------------------------------------
(* The search of a socket reader.                                          *)

\* buf holds the last of the first e cells, and idx is an offset in it.
Holds(c, e, buf, idx) ==
  Len(buf) \in 0 .. e /\ Shows(c, e - Len(buf), Len(buf), buf) /\ idx \in 0 .. Len(buf)

\* The place in the cells of the cursor.
Place(e, buf, idx) == (e - Len(buf)) + idx

LEMMA HoldsRest ==
  ASSUME NEW c \in Seq(LogsCells), NEW b, NEW n, NEW w, Shows(c, b, n, w), NEW d \in 0 .. n
  PROVE  LET v == SubSeq(w, d + 1, n)
         IN  Holds(c, b + n, v, 0) /\ Place(b + n, v, 0) = b + d
<1> DEFINE v == SubSeq(w, d + 1, n)
<1>1. Shows(c, b + d, n - d, v)
    BY ShownRest
<1> HIDE DEF v
<1>2. Len(v) = n - d
    BY <1>1, ShownIs
<1>3. b \in Nat /\ n \in Nat
    BY DEF Shows
<1>4. n - d \in 0 .. b + n /\ (b + n) - (n - d) = b + d /\ 0 \in 0 .. n - d /\ (b + d) + 0 = b + d
    BY <1>3
<1>5. QED
    BY <1>1, <1>2, <1>4 DEF Holds, Place, v

LEMMA HoldsAll ==
  ASSUME NEW c \in Seq(LogsCells), NEW b, NEW n, NEW w, Shows(c, b, n, w), NEW i \in 0 .. n
  PROVE  Holds(c, b + n, w, i) /\ Place(b + n, w, i) = b + i
<1>1. Len(w) = n
    BY ShownIs
<1>2. b \in Nat /\ n \in Nat
    BY DEF Shows
<1>3. n \in 0 .. b + n /\ (b + n) - n = b
    BY <1>2
<1>4. QED
    BY <1>1, <1>3 DEF Holds, Place

\* The places of the sync patterns behind idx, and those that end the search.
Syncs(w, idx) == {i \in idx .. Len(w) : SyncAt(w, i, "T")}
Stops(w, idx) == {i \in Syncs(w, idx) : SocketStops(w, i)}

\* The frame at place x was cut out: r is what SocketCut leaves, q where it stands.
CutGives(c, e, x, r, q) ==
  /\ Holds(c, e, r.buf, r.idx) /\ r.msg \in 1 .. Len(Msgs) /\ r.msg # 0
  /\ FrameAt(c, x) /\ c[x + 4].f = r.msg
  /\ FramesFrom(c, x) = <<r.msg>> \o FramesFrom(c, q)
  /\ x < q /\ q \in Nat /\ x \in Nat

LEMMA SocketCuts ==
  ASSUME NEW c \in Seq(LogsCells), NEW b, NEW n, NEW w, Shows(c, b, n, w),
         NEW i \in 0 .. n, DOMAIN Msgs = 1 .. Len(Msgs), Len(Msgs) \in Nat,
         SyncAt(w, i, "T"), SocketStops(w, i), ~HeaderShort(w, i), ~BodyShort(w, i),
         NEW r, r = SocketCut(w, i), NEW q, q = Place(b + n, r.buf, r.idx)
  PROVE  CutGives(c, b + n, b + i, r, q)
<1> DEFINE next == i + Declared(w, i)
<1>1. w \in Seq(LogsCells) /\ Len(w) = n /\ n \in Nat /\ b \in Nat /\ b + n <= Len(c)
    BY ShownIs DEF Shows
<1>2. Plausible(w, i) /\ CrcOk(w, i)
    BY DEF SocketStops
<1>3. w[i + 4].f \in 1 .. Len(Msgs)
    BY <1>2 DEF CrcOk
<1>4. /\ ~HeaderShort(c, b + i) /\ i + 3 <= n /\ w[i + 4] = c[(b + i) + 4]
      /\ Declared(w, i) = Declared(c, b + i) /\ Declared(w, i) \in Nat /\ Plausible(c, b + i)
    BY <1>2, HeadSeen
<1>5. ~BodyShort(c, b + i) /\ i + Declared(w, i) <= n /\ CrcOk(c, b + i) /\ FrameAt(c, b + i)
    BY <1>2, <1>4, BodySeen DEF FrameAt
<1>6. SyncAt(c, b + i, "T")
    BY SyncSeen
<1>7. Declared(w, i) >= HeadLen
    BY <1>2, <1>4 DEF Plausible
<1>8. next \in 0 .. n /\ i < next /\ b + next = (b + i) + Declared(c, b + i)
      /\ b + i \in 0 .. Len(c) - 1
    BY <1>1, <1>4, <1>5, <1>7
<1>9. FramesFrom(c, b + i) = <<w[i + 4].f>> \o FramesFrom(c, b + next)
    BY <1>4, <1>5, <1>6, <1>8, FramesTake
<1>10. r.msg = w[i + 4].f /\ (\/ r.buf = SubSeq(w, next + 1, n) /\ r.idx = 0
                              \/ r.buf = w /\ r.idx = next)
    BY <1>1 DEF SocketCut
<1> HIDE DEF next
<1>11. Holds(c, b + n, r.buf, r.idx) /\ q = b + next
  <2>1. Holds(c, b + n, w, next) /\ Place(b + n, w, next) = b + next
      BY <1>8, HoldsAll
  <2>2. Holds(c, b + n, SubSeq(w, next + 1, n), 0)
        /\ Place(b + n, SubSeq(w, next + 1, n), 0) = b + next
      BY <1>8, HoldsRest
  <2>3. QED
      BY <1>10, <2>1, <2>2
<1>12. b + i < b + next /\ b + next \in Nat /\ b + i \in Nat
    BY <1>1, <1>8
<1>13. r.msg \in 1 .. Len(Msgs) /\ r.msg # 0 /\ c[(b + i) + 4].f = r.msg
    BY <1>3, <1>4, <1>10
<1>14. FramesFrom(c, b + i) = <<r.msg>> \o FramesFrom(c, q)
    BY <1>9, <1>10, <1>11
<1>15. FrameAt(c, b + i) /\ b + i < q /\ q \in Nat
    BY <1>5, <1>11, <1>12
<1>16. QED
    BY <1>11, <1>12, <1>13, <1>14, <1>15 DEF CutGives

LEMMA SocketWaits ==
  ASSUME NEW c \in Seq(LogsCells), NEW b, NEW n, NEW w, Shows(c, b, n, w),
         NEW i \in 0 .. n, b + n = Len(c),
         SyncAt(w, i, "T"), SocketStops(w, i), HeaderShort(w, i) \/ BodyShort(w, i)
  PROVE  FramesFrom(c, b + i) = <<>>
<1>1. w \in Seq(LogsCells) /\ Len(w) = n /\ n \in Nat /\ b \in Nat
      /\ Len(c) - (b + i) = n - i /\ b + i \in 0 .. Len(c)
    BY ShownIs DEF Shows
<1>2. SyncAt(c, b + i, "T")
    BY SyncSeen
<1>3. CASE HeaderShort(w, i)
  <2>1. HeaderShort(c, b + i)
      BY <1>1, <1>3 DEF HeaderShort
  <2>2. QED
      BY <1>1, <1>2, <2>1, FramesStop
<1>4. CASE ~HeaderShort(w, i)
  <2>1. BodyShort(w, i) /\ Plausible(w, i)
      BY <1>4 DEF SocketStops
  <2>2. Declared(w, i) = Declared(c, b + i) /\ Plausible(c, b + i)
      BY <1>4, <2>1, HeadSeen
  <2>3. BodyShort(c, b + i)
      BY <1>1, <2>1, <2>2 DEF BodyShort
  <2>4. QED
      BY <1>1, <1>2, <2>2, <2>3, FramesStop
<1>5. QED
    BY <1>3, <1>4

LEMMA NothingLeft ==
  ASSUME NEW c \in Seq(LogsCells), NEW b, NEW n, NEW w, Shows(c, b, n, w),
         NEW idx \in 0 .. n, b + n = Len(c), \A j \in idx .. n : Passed(w, j)
  PROVE  FramesFrom(c, b + idx) = <<>>
<1>1. Len(w) = n /\ n \in Nat /\ b \in Nat /\ b + idx \in Nat /\ b + idx <= Len(c)
      /\ Len(c) \in Nat /\ Len(c) \in 0 .. Len(c)
    BY ShownIs DEF Shows
<1>2. ASSUME NEW j \in b + idx .. Len(c) - 1 PROVE Passed(c, j)
  <2>1. j - b \in idx .. n /\ j - b \in 0 .. n /\ b + (j - b) = j
      BY <1>1
  <2>2. CASE (j - b) + 3 <= n
    <3>1. Passed(c, b + (j - b))
        BY <2>1, <2>2, PassedSeen
    <3>2. QED
        BY <2>1, <3>1
  <2>3. CASE ~((j - b) + 3 <= n)
    <3>1. ~(j + 3 <= Len(c))
        BY <1>1, <2>3
    <3>2. QED
        BY <3>1 DEF Passed, SyncAt
  <2>4. QED
      BY <2>2, <2>3
<1>3. FramesFrom(c, b + idx) = FramesFrom(c, Len(c))
    BY <1>1, <1>2, FramesSkipAll
<1>4. QED
    BY <1>1, <1>3, FramesStop

LEMMA SocketFindsNothing ==
  ASSUME NEW c \in Seq(LogsCells), NEW b, NEW n, NEW w, Shows(c, b, n, w),
         NEW idx \in 0 .. n, \A j \in idx .. n : Passed(w, j),
         NEW S, S = Syncs(w, idx), NEW r, r = SocketNothing(w, idx, S),
         NEW q, q = Place(b + n, r.buf, r.idx)
  PROVE  /\ Holds(c, b + n, r.buf, r.idx) /\ r.msg = 0
         /\ FramesFrom(c, b + idx) = FramesFrom(c, q) /\ b + idx <= q
<1> DEFINE from == IF S = {} THEN idx ELSE Max(S) + 1
<1>1. Len(w) = n /\ n \in Nat /\ b \in Nat
    BY ShownIs DEF Shows
<1>2. from \in idx .. n /\ \A j \in idx .. from - 1 : j + 3 <= n
  <2>1. CASE S # {}
    <3>1. S \in SUBSET (0 .. n) /\ \A s \in S : s >= idx /\ s + 3 <= n
        BY <1>1 DEF Syncs, SyncAt
    <3>2. Max(S) \in S
        BY <1>1, <2>1, <3>1, MaxIs
    <3>3. from = Max(S) + 1 /\ Max(S) >= idx /\ Max(S) + 3 <= n /\ Max(S) \in 0 .. n
        BY <2>1, <3>1, <3>2
    <3> HIDE DEF from
    <3>4. QED
        BY <1>1, <3>3
  <2>2. CASE S = {}
      BY <1>1, <2>2
  <2>3. QED
      BY <2>1, <2>2
<1>3. r = IF n - from >= 3 THEN [msg |-> 0, buf |-> SubSeq(w, n - 1, n), idx |-> 0]
          ELSE [msg |-> 0, buf |-> w, idx |-> from]
    BY <1>1 DEF SocketNothing
<1> HIDE DEF from
<1>4. ASSUME NEW i \in idx .. n, \A j \in idx .. i - 1 : j + 3 <= n
      PROVE  FramesFrom(c, b + idx) = FramesFrom(c, b + i) /\ b + idx <= b + i
  <2>1. \A j \in idx .. i - 1 : j + 3 <= n /\ Passed(w, j)
      BY <1>1, <1>4
  <2>2. b + idx <= b + i
      BY <1>1
  <2>3. QED
      BY <2>1, <2>2, AllPassed
<1>5. CASE n - from >= 3
  <2>1. PICK d \in Int : d = n - 2
      BY <1>1
  <2>2. d \in idx .. n /\ d \in 0 .. n /\ n - 1 = d + 1 /\ \A j \in idx .. d - 1 : j + 3 <= n
      BY <1>1, <1>2, <1>5, <2>1
  <2>3. r = [msg |-> 0, buf |-> SubSeq(w, n - 1, n), idx |-> 0]
      BY <1>3, <1>5
  <2>4. PICK v : v = SubSeq(w, d + 1, n)
      OBVIOUS
  <2>5. SubSeq(w, n - 1, n) = v
      BY <2>2, <2>4
  <2>6. FramesFrom(c, b + idx) = FramesFrom(c, b + d) /\ b + idx <= b + d
      BY <1>4, <2>2
  <2>7. Holds(c, b + n, v, 0) /\ Place(b + n, v, 0) = b + d
      BY <2>2, <2>4, HoldsRest
  <2>8. r.msg = 0 /\ r.buf = v /\ r.idx = 0
      BY <2>3, <2>5
  <2>9. QED
      BY <2>6, <2>7, <2>8
<1>6. CASE ~(n - from >= 3)
  <2>1. r.msg = 0 /\ r.idx = from /\ r.buf = w
      BY <1>3, <1>6
  <2>2. FramesFrom(c, b + idx) = FramesFrom(c, b + from) /\ b + idx <= b + from
      BY <1>2, <1>4
  <2>3. from \in 0 .. n
      BY <1>1, <1>2
  <2>4. Holds(c, b + n, r.buf, r.idx) /\ q = b + from
      BY <2>1, <2>3, HoldsAll
  <2>5. QED
      BY <2>1, <2>2, <2>4
<1>7. QED
    BY <1>5, <1>6

\* The search finds the first frame behind the cursor, or none, and drops nothing
\* that a later search needs.
SocketGives(c, e, p, r, q) ==
  /\ Holds(c, e, r.buf, r.idx) /\ p <= q
  /\ r.msg = 0 => /\ FramesFrom(c, p) = FramesFrom(c, q)
                  /\ e = Len(c) => FramesFrom(c, p) = <<>>
  /\ r.msg # 0 => /\ r.msg \in 1 .. Len(Msgs)
                  /\ FramesFrom(c, p) = <<r.msg>> \o FramesFrom(c, q)
                  /\ \E x \in Nat : p <= x /\ x < q /\ FrameAt(c, x) /\ c[x + 4].f = r.msg

LEMMA SocketScans ==
  ASSUME NEW c \in Seq(LogsCells), NEW e \in Nat, NEW buf, NEW idx, Holds(c, e, buf, idx),
         DOMAIN Msgs = 1 .. Len(Msgs), Len(Msgs) \in Nat,
         NEW r, r = SocketScan(buf, idx), NEW p, p = Place(e, buf, idx),
         NEW q, q = Place(e, r.buf, r.idx)
  PROVE  SocketGives(c, e, p, r, q)
<1> DEFINE n == Len(buf)
           b == e - n
           S == Stops(buf, idx)
           Y == Syncs(buf, idx)
           i == Min(S)
<1>1. Shows(c, b, n, buf) /\ idx \in 0 .. n /\ p = b + idx
    BY DEF Holds, Place
<1>2. b + n = e /\ n \in Nat /\ b \in Nat
    BY DEF Holds, Shows
<1>3. r = IF S = {} THEN SocketNothing(buf, idx, Y)
          ELSE IF HeaderShort(buf, i) \/ BodyShort(buf, i) THEN [msg |-> 0, buf |-> buf, idx |-> i]
          ELSE SocketCut(buf, i)
    BY DEF SocketScan, Stops, Syncs
<1>4. \A j \in idx .. n : ~Passed(buf, j) => j \in S
    BY DEF Stops, Syncs, Passed
<1>5. \A j \in S : j \in idx .. n /\ SyncAt(buf, j, "T") /\ SocketStops(buf, j)
    BY DEF Stops, Syncs
<1>6. Y = Syncs(buf, idx)
    OBVIOUS
<1> HIDE DEF S, Y, n, b
<1>7. CASE S = {}
  <2>1. r = SocketNothing(buf, idx, Y) /\ (\A j \in idx .. n : Passed(buf, j))
        /\ q = Place(b + n, r.buf, r.idx)
      BY <1>2, <1>3, <1>4, <1>7
  <2>2. /\ Holds(c, b + n, r.buf, r.idx) /\ r.msg = 0
        /\ FramesFrom(c, b + idx) = FramesFrom(c, q) /\ b + idx <= q
      BY <1>1, <1>2, <1>6, <2>1, SocketFindsNothing
  <2>3. e = Len(c) => FramesFrom(c, b + idx) = <<>>
      BY <1>1, <1>2, <2>1, NothingLeft
  <2>4. QED
      BY <1>1, <1>2, <2>2, <2>3 DEF SocketGives
<1>8. CASE S # {}
  <2>1. i \in S /\ \A j \in S : i <= j
    <3>1. S \in SUBSET Nat
        BY <1>1, <1>2, <1>5
    <3>2. QED
        BY <1>8, <3>1, MinIs
  <2> HIDE DEF i
  <2>2. i \in idx .. n /\ SyncAt(buf, i, "T") /\ SocketStops(buf, i)
      BY <1>5, <2>1
  <2>3. i \in 0 .. n /\ b + idx <= b + i /\ b + i \in Nat /\ b + idx \in Nat
      BY <1>1, <1>2, <2>2
  <2>4. i + 3 <= n
      BY <1>1, <2>2, <2>3, SyncSeen
  <2>5. ASSUME NEW j \in idx .. i - 1 PROVE j + 3 <= n /\ Passed(buf, j)
    <3>1. j \in idx .. n /\ ~(i <= j) /\ j + 3 <= n
        BY <1>1, <1>2, <2>2, <2>4
    <3>2. QED
        BY <1>4, <2>1, <3>1
  <2>6. FramesFrom(c, b + idx) = FramesFrom(c, b + i)
      BY <1>1, <2>2, <2>5, AllPassed
  <2>7. CASE HeaderShort(buf, i) \/ BodyShort(buf, i)
    <3>1. r.msg = 0 /\ r.buf = buf /\ r.idx = i
        BY <1>3, <1>8, <2>7
    <3>2. Holds(c, b + n, buf, i) /\ Place(b + n, buf, i) = b + i
        BY <1>1, <2>3, HoldsAll
    <3>3. e = Len(c) => FramesFrom(c, b + i) = <<>>
        BY <1>1, <1>2, <2>2, <2>3, <2>7, SocketWaits
    <3>4. QED
        BY <1>1, <1>2, <2>3, <2>6, <3>1, <3>2, <3>3 DEF SocketGives
  <2>8. CASE ~(HeaderShort(buf, i) \/ BodyShort(buf, i))
    <3>1. r = SocketCut(buf, i) /\ q = Place(b + n, r.buf, r.idx)
        BY <1>2, <1>3, <1>8, <2>8
    <3>2. /\ Holds(c, b + n, r.buf, r.idx) /\ r.msg \in 1 .. Len(Msgs) /\ r.msg # 0
          /\ FrameAt(c, b + i) /\ c[(b + i) + 4].f = r.msg
          /\ FramesFrom(c, b + i) = <<r.msg>> \o FramesFrom(c, q)
          /\ b + i < q /\ q \in Nat /\ b + i \in Nat
      <4>1. CutGives(c, b + n, b + i, r, q)
          BY <1>1, <2>2, <2>3, <2>8, <3>1, SocketCuts
      <4>2. QED
          BY <4>1 DEF CutGives
    <3>3. b + idx <= q
        BY <2>3, <3>2
    <3>4. QED
        BY <1>1, <1>2, <2>3, <2>6, <3>2, <3>3 DEF SocketGives
  <2>9. QED
      BY <2>7, <2>8
<1>9. QED
    BY <1>7, <1>8

-----------------------------------------------------------------------------
(* The buffer, whichever reader fills it.                                  *)

\* What the first m cells have is what all of them have.
LEMMA HoldsOfFirst ==
  ASSUME NEW c \in Seq(LogsCells), NEW e \in Nat, NEW buf, NEW idx, Holds(c, e, buf, idx),
         NEW m \in e .. Len(c)
  PROVE  LET u == SubSeq(c, 1, m)
         IN  u \in Seq(LogsCells) /\ Len(u) = m /\ Holds(u, e, buf, idx)
<1> DEFINE u == SubSeq(c, 1, m)
           n == Len(buf)
           b == e - n
<1>1. m \in Nat /\ m <= Len(c) /\ 0 <= m /\ m - 0 = m /\ 0 + 1 = 1
    OBVIOUS
<1>2. u \in Seq(LogsCells) /\ Len(u) = m
  <2>1. SubSeq(c, 0 + 1, m) \in Seq(LogsCells) /\ Len(SubSeq(c, 0 + 1, m)) = m - 0
      BY <1>1, SubSeqIs
  <2>2. QED
      BY <1>1, <2>1
<1>3. n \in 0 .. e /\ Shows(c, b, n, buf) /\ idx \in 0 .. n
    BY DEF Holds
<1>4. b \in Nat /\ n \in Nat /\ b + n <= m /\ b <= b + n /\ b + n \in Nat
      /\ buf = SubSeq(c, b + 1, b + n) /\ 0 + b = b /\ 0 + (b + n) = b + n
    BY <1>3 DEF Shows
<1> HIDE DEF n, b
<1>5. SubSeq(SubSeq(c, 0 + 1, m), b + 1, b + n) = SubSeq(c, 0 + b + 1, 0 + (b + n))
    BY <1>1, <1>4, SubSub
<1>6. Shows(u, b, n, buf)
    BY <1>1, <1>2, <1>4, <1>5 DEF Shows
<1>7. QED
    BY <1>2, <1>3, <1>6 DEF Holds, n, b, u

\* Cells that arrive are put behind the others, and the cursor stays in place.
Longer(c, e, d, buf) == buf \o SubSeq(c, e + 1, d)

LEMMA HoldsMore ==
  ASSUME NEW c \in Seq(LogsCells), NEW e \in Nat, NEW buf, NEW idx, Holds(c, e, buf, idx),
         NEW d \in Nat, e <= d, d <= Len(c), NEW more, more = Longer(c, e, d, buf)
  PROVE  Holds(c, d, more, idx) /\ Place(d, more, idx) = Place(e, buf, idx)
<1> DEFINE n == Len(buf)
           b == e - n
           l == d - b
<1>1. n \in 0 .. e /\ Shows(c, b, n, buf) /\ idx \in 0 .. n
    BY DEF Holds
<1>2. b \in Nat /\ b + n = e /\ b <= e /\ l \in 0 .. d /\ d - l = b /\ b + l = d /\ l \in Nat
      /\ b <= d /\ idx \in 0 .. l
    BY <1>1
<1>3. buf = SubSeq(c, b + 1, e)
    BY <1>1, <1>2 DEF Shows
<1>4. l = d - b
    OBVIOUS
<1> HIDE DEF n, b, l
<1>5. more = SubSeq(c, b + 1, d)
  <2>1. SubSeq(c, b + 1, e) \o SubSeq(c, e + 1, d) = SubSeq(c, b + 1, d)
      BY <1>2, SubCat
  <2>2. QED
      BY <1>3, <2>1 DEF Longer
<1>6. Len(more) = l
  <2>1. Len(SubSeq(c, b + 1, d)) = d - b
      BY <1>2, SubSeqIs
  <2>2. QED
      BY <1>4, <1>5, <2>1
<1>7. Shows(c, b, l, more)
    BY <1>2, <1>5 DEF Shows
<1>8. Holds(c, d, more, idx) /\ Place(d, more, idx) = b + idx
    BY <1>2, <1>6, <1>7 DEF Holds, Place
<1>9. QED
    BY <1>8 DEF Place, n, b

LEMMA HoldsEnough ==
  ASSUME NEW c \in Seq(LogsCells), NEW e \in Nat, NEW buf, NEW idx, Holds(c, e, buf, idx)
  PROVE  /\ e <= Len(c) /\ Place(e, buf, idx) \in Nat /\ buf \in Seq(LogsCells)
         /\ buf \o SubSeq(c, e + 1, e) = buf
<1> DEFINE n == Len(buf)
           b == e - n
<1>1. n \in 0 .. e /\ Shows(c, b, n, buf) /\ idx \in 0 .. n
    BY DEF Holds
<1>2. buf \in Seq(LogsCells) /\ b + n <= Len(c) /\ b \in Nat
    BY <1>1, ShownIs DEF Shows
<1>3. e <= Len(c) /\ b + idx \in Nat
    BY <1>1, <1>2
<1>4. SubSeq(c, e + 1, e) \in Seq(LogsCells) /\ Len(SubSeq(c, e + 1, e)) = 0
  <2>1. Len(c) \in Nat /\ e <= e /\ e - e = 0
      OBVIOUS
  <2>2. QED
      BY <1>3, <2>1, SubSeqIs
<1>5. SubSeq(c, e + 1, e) = <<>>
    BY <1>4
<1>6. QED
    BY <1>2, <1>3, <1>5 DEF Place

-----------------------------------------------------------------------------
(* The search of a binary reader.                                          *)

InputOK ==
  /\ input \in Inputs /\ input.reader \in {"socket", "binary"}
  /\ input.cells \in Seq(LogsCells) /\ Len(input.cells) \in Nat
  /\ Len(Msgs) \in Nat /\ DOMAIN Msgs = 1 .. Len(Msgs) /\ Bad = Len(Msgs) + 1
  /\ \A f \in DOMAIN Msgs :
       /\ Msgs[f].len \in Nat /\ Msgs[f].len >= HeadLen
       /\ IsRecord(Msgs[f]) =>
            /\ Msgs[f].t \in Nat
            /\ Msgs[f].obs = [s \in DOMAIN Msgs[f].obs |-> Msgs[f].obs[s]]
            /\ \A s \in DOMAIN Msgs[f].obs : Msgs[f].obs[s] \in LogsSignals

LEMMA InputIs ==
  ASSUME input \in Inputs
  PROVE  InputOK
BY InputsAssumption DEF InputOK, Msgs, Bad

LEMMA FrameHasHead ==
  ASSUME InputOK, NEW f \in DOMAIN Msgs
  PROVE  Len(Frame(Msgs, f)) >= 4 /\ Len(Frame(Msgs, f)) \in Nat
<1> DEFINE n == Msgs[f].len - HeadLen
           V == {"A", "D", "T", "U", "H", "B"}
           body == [i \in 1 .. n |-> Cell("B", f, 0)]
           third == IF Msgs[f].kind = "imu" THEN "U" ELSE "T"
           head == <<Cell("A", 0, 0), Cell("D", 0, 0), Cell(third, 0, 0), Cell("H", f, Msgs[f].len)>>
           T == {Cell("A", 0, 0), Cell("D", 0, 0), Cell(third, 0, 0), Cell("H", f, Msgs[f].len),
                 Cell("B", f, 0)}
<1>1. n \in Nat
  <2>1. Msgs[f].len \in Nat /\ Msgs[f].len >= HeadLen
      BY DEF InputOK
  <2>2. QED
      BY <2>1
<1>2. head \in Seq(T) /\ Len(head) = 4
    OBVIOUS
<1>3. body \in Seq(T) /\ Len(body) = n
    BY <1>1
<1> HIDE DEF head, body, T, n
<1>4. Len(head \o body) = 4 + n
  <2>1. Len(head \o body) = Len(head) + Len(body)
      BY <1>2, <1>3, CatIs
  <2>2. QED
      BY <1>2, <1>3, <2>1
<1>5. Frame(Msgs, f) = head \o body
    BY DEF Frame, head, body, n
<1>6. QED
    BY <1>1, <1>4, <1>5

BinarySyncs(w, idx) == {i \in idx .. Len(w) : SyncAt(w, i, "T") \/ SyncAt(w, i, "U")}
BinaryStopsOf(w, idx) == {i \in BinarySyncs(w, idx) : BinaryStops(w, i)}

LEMMA BinaryStopsOn ==
  ASSUME InputOK, NEW c \in Seq(LogsCells), NEW b, NEW n, NEW w, Shows(c, b, n, w),
         NEW i \in 0 .. n, BinaryStops(w, i), ~HeaderShort(w, i),
         NEW next, next = i + Declared(w, i)
  PROVE  /\ next \in 0 .. n /\ i < next
         /\ CrcOk(w, i) => /\ FrameAt(c, b + i) /\ c[(b + i) + 4].f = w[i + 4].f
                           /\ w[i + 4].f \in 1 .. Len(Msgs)
<1>1. w \in Seq(LogsCells) /\ Len(w) = n /\ n \in Nat
    BY ShownIs DEF Shows
<1>2. ~BodyShort(w, i) /\ (CrcOk(w, i) \/ Declared(w, i) >= HeadLen)
    BY DEF BinaryStops
<1>3. w[i + 4] = c[(b + i) + 4] /\ Declared(w, i) \in Nat
    BY HeadSeen
<1>4. i + Declared(w, i) <= n /\ (CrcOk(w, i) <=> CrcOk(c, b + i))
    BY <1>2, BodySeen
<1>5. ASSUME CrcOk(w, i) PROVE w[i + 4].f \in 1 .. Len(Msgs) /\ Declared(w, i) > 0
  <2>1. w[i + 4].f \in DOMAIN Msgs
        /\ SubSeq(w, i + 1, i + Declared(w, i)) = Frame(Msgs, w[i + 4].f)
      BY <1>5 DEF CrcOk
  <2>2. i + Declared(w, i) \in Nat /\ i <= i + Declared(w, i) /\ i + Declared(w, i) <= Len(w)
        /\ (i + Declared(w, i)) - i = Declared(w, i)
      BY <1>1, <1>3, <1>4
  <2>3. Len(SubSeq(w, i + 1, i + Declared(w, i))) = (i + Declared(w, i)) - i
      BY <1>1, <2>2, SubSeqIs
  <2>4. Declared(w, i) >= 4
      BY <2>1, <2>2, <2>3, FrameHasHead
  <2>5. QED
      BY <1>3, <2>1, <2>4 DEF InputOK
<1>6. Declared(w, i) > 0
    BY <1>2, <1>3, <1>5
<1>7. next \in 0 .. n /\ i < next
    BY <1>1, <1>3, <1>4, <1>6
<1>8. CrcOk(w, i) => FrameAt(c, b + i)
    BY <1>2, <1>4, HeadSeen, BodySeen DEF FrameAt
<1>9. QED
    BY <1>3, <1>5, <1>7, <1>8

\* A search that finds nothing leaves a buffer in which another finds nothing.
LEMMA BinaryScans ==
  ASSUME InputOK, NEW c \in Seq(LogsCells), NEW e \in Nat, NEW buf, NEW idx, Holds(c, e, buf, idx),
         NEW r, r = BinaryScan(buf, idx)
  PROVE  LET p == Place(e, buf, idx)
             q == Place(e, r.buf, r.idx)
         IN  /\ Holds(c, e, r.buf, r.idx) /\ p <= q
             /\ r.msg # 0 => /\ r.msg \in 1 .. Bad
                             /\ r.msg # Bad =>
                                  \E x \in Nat : p <= x /\ x < q /\ FrameAt(c, x) /\ c[x + 4].f = r.msg
             /\ r.msg = 0 => BinaryScan(r.buf, r.idx).msg = 0
<1> DEFINE n == Len(buf)
           b == e - n
           S == BinaryStopsOf(buf, idx)
           Y == BinarySyncs(buf, idx)
           i == Min(S)
           last == Max(Y) + 3
           p == Place(e, buf, idx)
           q == Place(e, r.buf, r.idx)
<1>1. Shows(c, b, n, buf) /\ idx \in 0 .. n /\ p = b + idx
    BY DEF Holds, Place
<1>2. b + n = e /\ n \in Nat /\ b \in Nat /\ n \in 0 .. n
    BY DEF Holds, Shows
<1>3. r = IF S = {}
            THEN IF Y # {} /\ n - last < 3 THEN [msg |-> 0, buf |-> buf, idx |-> last]
                 ELSE IF n - idx < 3 THEN [msg |-> 0, buf |-> buf, idx |-> idx]
                 ELSE [msg |-> 0, buf |-> <<>>, idx |-> 0]
          ELSE IF HeaderShort(buf, i) THEN [msg |-> 0, buf |-> buf, idx |-> i]
          ELSE [msg |-> IF CrcOk(buf, i) THEN buf[i + 4].f ELSE Bad,
                buf |-> buf, idx |-> i + Declared(buf, i)]
    BY DEF BinaryScan, BinaryStopsOf, BinarySyncs
<1>4. /\ \A j \in Y : j \in idx .. n /\ j + 3 <= n
      /\ S \subseteq Y /\ \A j \in S : BinaryStops(buf, j)
    BY DEF BinarySyncs, BinaryStopsOf, SyncAt
<1>5. ASSUME NEW v, NEW j PROVE BinaryScan(v, j).msg = 0 \/ BinaryStopsOf(v, j) # {}
    BY DEF BinaryScan, BinaryStopsOf, BinarySyncs
<1>6. ASSUME NEW j \in idx .. n
      PROVE  /\ Holds(c, e, buf, j) /\ Place(e, buf, j) = b + j /\ b + idx <= b + j
             /\ BinaryStopsOf(buf, j) \subseteq S /\ BinaryStopsOf(buf, j) \subseteq j .. n
             /\ \A x \in S : x >= j => x \in BinaryStopsOf(buf, j)
  <2>1. j \in 0 .. n /\ b + idx <= b + j
      BY <1>1, <1>2
  <2>2. Holds(c, b + n, buf, j) /\ Place(b + n, buf, j) = b + j
      BY <1>1, <2>1, HoldsAll
  <2>3. BinaryStopsOf(buf, j) \subseteq S /\ BinaryStopsOf(buf, j) \subseteq j .. n
        /\ \A x \in S : x >= j => x \in BinaryStopsOf(buf, j)
      BY <1>1, <1>2 DEF BinaryStopsOf, BinarySyncs
  <2>4. QED
      BY <1>2, <2>1, <2>2, <2>3
<1> HIDE DEF S, Y, n, b, p, q
<1>7. idx \in idx .. n /\ n \in idx .. n
    BY <1>1, <1>2
<1>8. CASE S = {}
  <2>1. CASE Y # {} /\ n - last < 3
    <3>1. Y \in SUBSET (0 .. n)
        BY <1>1, <1>2, <1>4
    <3>2. last \in idx .. n
      <4>1. Max(Y) \in Y
          BY <1>2, <2>1, <3>1, MaxIs
      <4>2. Max(Y) \in idx .. n /\ Max(Y) + 3 <= n
          BY <1>4, <4>1
      <4>3. QED
          BY <1>1, <1>2, <4>2
    <3>3. r.msg = 0 /\ r.buf = buf /\ r.idx = last
        BY <1>3, <1>8, <2>1
    <3> HIDE DEF last
    <3>4. BinaryStopsOf(buf, last) = {}
        BY <1>6, <1>8, <3>2
    <3>5. BinaryScan(r.buf, r.idx).msg = 0
        BY <1>5, <3>3, <3>4
    <3>6. Holds(c, e, r.buf, r.idx) /\ q = b + last /\ p <= q
        BY <1>1, <1>6, <3>2, <3>3 DEF q
    <3>7. QED
        BY <3>3, <3>5, <3>6 DEF p, q
  <2>2. CASE ~(Y # {} /\ n - last < 3) /\ n - idx < 3
    <3>1. r.msg = 0 /\ r.buf = buf /\ r.idx = idx
        BY <1>3, <1>8, <2>2
    <3>2. BinaryScan(r.buf, r.idx).msg = 0
        BY <1>5, <1>6, <1>7, <1>8, <3>1
    <3>3. Holds(c, e, r.buf, r.idx) /\ q = b + idx /\ p <= q
        BY <1>1, <1>6, <1>7, <3>1 DEF q
    <3>4. QED
        BY <3>1, <3>2, <3>3 DEF p, q
  <2>3. CASE ~(Y # {} /\ n - last < 3) /\ ~(n - idx < 3)
    <3>1. r.msg = 0 /\ r.buf = <<>> /\ r.idx = 0
        BY <1>3, <1>8, <2>3
    <3>2. BinaryStopsOf(<<>>, 0) = {}
        BY DEF BinaryStopsOf, BinarySyncs, SyncAt
    <3>3. BinaryScan(r.buf, r.idx).msg = 0
        BY <1>5, <3>1, <3>2
    <3>4. SubSeq(buf, n + 1, n) = <<>>
        BY <1>1, <1>2, ShownIs
    <3>5. Holds(c, b + n, SubSeq(buf, n + 1, n), 0) /\ Place(b + n, SubSeq(buf, n + 1, n), 0) = b + n
      <4>1. ASSUME NEW d \in 0 .. n
            PROVE  Holds(c, b + n, SubSeq(buf, d + 1, n), 0)
                   /\ Place(b + n, SubSeq(buf, d + 1, n), 0) = b + d
          BY <1>1, HoldsRest
      <4>2. QED
          BY <1>2, <4>1
    <3>6. Holds(c, e, r.buf, r.idx) /\ q = b + n
        BY <1>2, <3>1, <3>4, <3>5 DEF q
    <3>7. p <= q
        BY <1>1, <1>6, <1>7, <3>6
    <3>8. QED
        BY <3>1, <3>3, <3>6, <3>7 DEF p, q
  <2>4. QED
      BY <2>1, <2>2, <2>3
<1>9. CASE S # {}
  <2>1. i \in S /\ \A j \in S : i <= j
    <3>1. S \in SUBSET Nat
        BY <1>1, <1>2, <1>4
    <3>2. QED
        BY <1>9, <3>1, MinIs
  <2> HIDE DEF i
  <2>2. i \in idx .. n /\ i \in 0 .. n /\ BinaryStops(buf, i) /\ i >= i
      BY <1>1, <1>2, <1>4, <2>1
  <2>3. Holds(c, e, buf, i) /\ Place(e, buf, i) = b + i /\ b + idx <= b + i
        /\ i \in BinaryStopsOf(buf, i) /\ BinaryStopsOf(buf, i) \subseteq S
      BY <1>6, <2>1, <2>2
  <2>4. CASE HeaderShort(buf, i)
    <3>1. r.msg = 0 /\ r.buf = buf /\ r.idx = i
        BY <1>3, <1>9, <2>4
    <3>2. Min(BinaryStopsOf(buf, i)) = i
      <4>1. BinaryStopsOf(buf, i) \in SUBSET Nat /\ BinaryStopsOf(buf, i) # {}
          BY <1>1, <1>2, <1>4, <2>3
      <4>2. Min(BinaryStopsOf(buf, i)) \in BinaryStopsOf(buf, i)
            /\ \A x \in BinaryStopsOf(buf, i) : Min(BinaryStopsOf(buf, i)) <= x
          BY <4>1, MinIs
      <4>3. Min(BinaryStopsOf(buf, i)) <= i /\ i <= Min(BinaryStopsOf(buf, i))
            /\ Min(BinaryStopsOf(buf, i)) \in Nat /\ i \in Nat
          BY <2>1, <2>2, <2>3, <4>1, <4>2
      <4>4. QED
          BY <4>3
    <3>3. BinaryScan(buf, i).msg = 0
      <4>1. HeaderShort(buf, Min(BinaryStopsOf(buf, i))) /\ BinaryStopsOf(buf, i) # {}
          BY <2>3, <2>4, <3>2
      <4>2. QED
          BY <4>1 DEF BinaryScan, BinaryStopsOf, BinarySyncs
    <3>4. p <= q
        BY <1>1, <2>3, <3>1 DEF q
    <3>5. QED
        BY <2>3, <3>1, <3>3, <3>4 DEF p, q
  <2>5. CASE ~HeaderShort(buf, i)
    <3>1. PICK next : next = i + Declared(buf, i)
        OBVIOUS
    <3>2. /\ next \in 0 .. n /\ i < next
          /\ CrcOk(buf, i) => /\ FrameAt(c, b + i) /\ c[(b + i) + 4].f = buf[i + 4].f
                              /\ buf[i + 4].f \in 1 .. Len(Msgs)
        BY <1>1, <2>2, <2>5, <3>1, BinaryStopsOn
    <3>3. r.msg = (IF CrcOk(buf, i) THEN buf[i + 4].f ELSE Bad) /\ r.buf = buf /\ r.idx = next
        BY <1>3, <1>9, <2>5, <3>1
    <3>4. next \in idx .. n
        BY <1>1, <1>2, <2>2, <3>2
    <3>5. Holds(c, e, r.buf, r.idx) /\ q = b + next /\ p <= q
        BY <1>1, <1>6, <3>3, <3>4 DEF q
    <3>6. b + i \in Nat /\ p <= b + i /\ b + i < q
        BY <1>1, <1>2, <2>2, <2>3, <3>2, <3>5
    <3>7. CASE CrcOk(buf, i)
      <4>1. r.msg = buf[i + 4].f
          BY <3>3, <3>7
      <4>2. FrameAt(c, b + i) /\ c[(b + i) + 4].f = r.msg /\ r.msg \in 1 .. Len(Msgs)
          BY <3>2, <3>7, <4>1
      <4>3. r.msg \in 1 .. Bad /\ r.msg # 0
          BY <4>2 DEF InputOK
      <4>4. \E x \in Nat : p <= x /\ x < q /\ FrameAt(c, x) /\ c[x + 4].f = r.msg
          BY <3>6, <4>2
      <4>5. QED
          BY <3>5, <4>3, <4>4 DEF p, q
    <3>8. CASE ~CrcOk(buf, i)
      <4>1. r.msg = Bad
          BY <3>3, <3>8
      <4>2. Bad \in 1 .. Bad /\ Bad # 0
          BY DEF InputOK
      <4>3. QED
          BY <3>5, <4>1, <4>2 DEF p, q
    <3>9. QED
        BY <3>7, <3>8
  <2>6. QED
      BY <2>4, <2>5
<1>10. QED
    BY <1>8, <1>9

-----------------------------------------------------------------------------
(* One call of getNextMessage. *)

Here == Place(arrived, buffer, bufferIndex)
Socket == input.reader = "socket"
First(m) == SubSeq(input.cells, 1, m)

\* A whole frame of message f begins behind place x.
Sent(x, f) == x \in Nat /\ FrameAt(input.cells, x) /\ input.cells[x + 4].f = f

ReadOK ==
  /\ InputOK
  /\ arrived \in 0 .. Len(input.cells)
  /\ Holds(input.cells, arrived, buffer, bufferIndex)
  /\ ~Socket => arrived = Len(input.cells)
  /\ got \in Seq(1 .. Bad)
  /\ connected \in BOOLEAN /\ drained \in BOOLEAN /\ ended \in BOOLEAN
  /\ ~Socket /\ drained => BinaryScan(buffer, bufferIndex).msg = 0
  /\ \A i \in 1 .. Len(got) : got[i] # Bad => \E x : x < Here /\ Sent(x, got[i])

FoundOK ==
  Socket =>
    /\ \A m \in arrived .. Len(input.cells) :
         FramesFrom(First(m), 0) = got \o FramesFrom(First(m), Here)
    /\ drained => FramesFrom(First(arrived), Here) = <<>>

LEMMA FilledIs ==
  ASSUME ReadOK, NEW k \in 0 .. Left, NEW e, e = arrived + k
  PROVE  /\ e \in Nat /\ e \in arrived .. Len(input.cells)
         /\ Holds(input.cells, e, Filled(k), bufferIndex) /\ Place(e, Filled(k), bufferIndex) = Here
         /\ Here \in Nat
         /\ ~Socket => e = Len(input.cells) /\ Filled(k) = buffer
<1>1. /\ arrived \in Nat /\ k \in Nat /\ e \in Nat /\ e \in arrived .. Len(input.cells)
      /\ arrived + k <= Len(input.cells) /\ input.cells \in Seq(LogsCells)
      /\ Holds(input.cells, arrived, buffer, bufferIndex)
    BY DEF ReadOK, InputOK, Left
<1>2. Holds(input.cells, e, Filled(k), bufferIndex) /\ Place(e, Filled(k), bufferIndex) = Here
  <2>1. Filled(k) = Longer(input.cells, arrived, e, buffer) /\ arrived <= e
        /\ e <= Len(input.cells)
      BY <1>1 DEF Filled, Longer
  <2>2. QED
      BY <1>1, <2>1, HoldsMore DEF Here
<1>3. Here \in Nat /\ buffer \o SubSeq(input.cells, arrived + 1, arrived) = buffer
    BY <1>1, HoldsEnough DEF Here
<1>4. ASSUME ~Socket PROVE e = Len(input.cells) /\ Filled(k) = buffer
  <2>1. k = 0 /\ arrived = Len(input.cells) /\ arrived + k = arrived
      BY <1>1, <1>4 DEF ReadOK
  <2>2. QED
      BY <1>3, <2>1 DEF Filled
<1>5. QED
    BY <1>1, <1>2, <1>3, <1>4

LEMMA ScanOK ==
  ASSUME ReadOK, NEW k \in 0 .. Left, NEW e, e = arrived + k,
         NEW r, r = Scan(Filled(k), bufferIndex), NEW q, q = Place(e, r.buf, r.idx)
  PROVE  /\ Holds(input.cells, e, r.buf, r.idx) /\ q \in Nat /\ Here <= q
         /\ r.msg # 0 => /\ r.msg \in 1 .. Bad
                         /\ r.msg # Bad => \E x : Here <= x /\ x < q /\ Sent(x, r.msg)
         /\ Socket /\ r.msg # 0 =>
              /\ r.msg # Bad
              /\ \A m \in e .. Len(input.cells) :
                   FramesFrom(First(m), Here) = <<r.msg>> \o FramesFrom(First(m), q)
         /\ Socket /\ r.msg = 0 =>
              /\ \A m \in e .. Len(input.cells) : FramesFrom(First(m), Here) = FramesFrom(First(m), q)
              /\ FramesFrom(First(e), q) = <<>>
         /\ ~Socket => r = BinaryScan(buffer, bufferIndex)
                       /\ (r.msg = 0 => BinaryScan(r.buf, r.idx).msg = 0)
<1> DEFINE c == input.cells
           v == Filled(k)
<1>1. /\ e \in Nat /\ e \in arrived .. Len(c) /\ Holds(c, e, v, bufferIndex)
      /\ Here = Place(e, v, bufferIndex) /\ Here \in Nat
      /\ ~Socket => e = Len(c) /\ v = buffer
    BY FilledIs
<1>2. InputOK /\ c \in Seq(LogsCells) /\ Len(Msgs) \in Nat /\ DOMAIN Msgs = 1 .. Len(Msgs)
      /\ Bad = Len(Msgs) + 1 /\ Len(c) \in e .. Len(c)
    BY <1>1 DEF ReadOK, InputOK
<1>3. Socket => r = SocketScan(v, bufferIndex)
    BY DEF Socket, Scan
<1>4. ~Socket => r = BinaryScan(v, bufferIndex)
    BY DEF Socket, Scan
<1>5. \A x : x \in Nat /\ FrameAt(c, x) /\ c[x + 4].f = r.msg => Sent(x, r.msg)
    BY DEF Sent
<1>6. CASE ~Socket
  <2>1. /\ Holds(c, e, r.buf, r.idx) /\ Place(e, v, bufferIndex) <= Place(e, r.buf, r.idx)
        /\ r.msg # 0 => /\ r.msg \in 1 .. Bad
                        /\ r.msg # Bad =>
                             \E x \in Nat : /\ Place(e, v, bufferIndex) <= x
                                            /\ x < Place(e, r.buf, r.idx)
                                            /\ FrameAt(c, x) /\ c[x + 4].f = r.msg
        /\ r.msg = 0 => BinaryScan(r.buf, r.idx).msg = 0
    <3> HIDE DEF c, v
    <3>1. r = BinaryScan(v, bufferIndex)
        BY <1>4, <1>6
    <3>2. QED
        BY <1>1, <1>2, <3>1, BinaryScans
  <2>2. q \in Nat
      BY <1>1, <1>2, <2>1, HoldsEnough
  <2>3. QED
      BY <1>1, <1>4, <1>5, <1>6, <2>1, <2>2
<1>7. CASE Socket
  <2>1. ASSUME NEW d \in Seq(LogsCells), Holds(d, e, v, bufferIndex)
        PROVE  /\ Holds(d, e, r.buf, r.idx) /\ Here <= q
               /\ r.msg = 0 => /\ FramesFrom(d, Here) = FramesFrom(d, q)
                               /\ e = Len(d) => FramesFrom(d, Here) = <<>>
               /\ r.msg # 0 => /\ r.msg \in 1 .. Len(Msgs)
                               /\ FramesFrom(d, Here) = <<r.msg>> \o FramesFrom(d, q)
                               /\ \E x \in Nat : /\ Here <= x /\ x < q /\ FrameAt(d, x)
                                                 /\ d[x + 4].f = r.msg
    <3> HIDE DEF c, v
    <3>1. r = SocketScan(v, bufferIndex)
        BY <1>3, <1>7
    <3>2. PICK p : p = Place(e, v, bufferIndex)
        OBVIOUS
    <3>3. SocketGives(d, e, p, r, q)
        BY <1>1, <1>2, <2>1, <3>1, <3>2, SocketScans
    <3>4. QED
        BY <1>1, <3>2, <3>3 DEF SocketGives
  <2>2. ASSUME NEW m \in e .. Len(c)
        PROVE  First(m) \in Seq(LogsCells) /\ Len(First(m)) = m /\ Holds(First(m), e, v, bufferIndex)
      BY <1>1, <1>2, HoldsOfFirst DEF First
  <2>3. Holds(c, e, r.buf, r.idx) /\ Here <= q
      BY <1>1, <1>2, <2>1
  <2>4. q \in Nat
      BY <1>1, <1>2, <2>3, HoldsEnough
  <2>5. ASSUME r.msg # 0
        PROVE  /\ r.msg \in 1 .. Bad /\ r.msg # Bad
               /\ \E x : Here <= x /\ x < q /\ Sent(x, r.msg)
    <3>1. r.msg \in 1 .. Len(Msgs)
          /\ \E x \in Nat : Here <= x /\ x < q /\ FrameAt(c, x) /\ c[x + 4].f = r.msg
        BY <1>1, <1>2, <2>1, <2>5
    <3>2. r.msg \in 1 .. Bad /\ r.msg # Bad
        BY <1>2, <3>1
    <3>3. QED
        BY <1>5, <3>1, <3>2
  <2>6. ASSUME r.msg # 0, NEW m \in e .. Len(c)
        PROVE  FramesFrom(First(m), Here) = <<r.msg>> \o FramesFrom(First(m), q)
      BY <2>1, <2>2, <2>6
  <2>7. ASSUME r.msg = 0, NEW m \in e .. Len(c)
        PROVE  FramesFrom(First(m), Here) = FramesFrom(First(m), q)
      BY <2>1, <2>2, <2>7
  <2>8. ASSUME r.msg = 0 PROVE FramesFrom(First(e), q) = <<>>
    <3>1. e \in e .. Len(c)
        BY <1>1
    <3>2. QED
        BY <2>1, <2>2, <2>8, <3>1
  <2>9. QED
      BY <1>7, <2>3, <2>4, <2>5, <2>6, <2>7, <2>8
<1>8. QED
    BY <1>6, <1>7

\* The input stays what it is, and with it all that is said of the bytes.
LEMMA SameInput ==
  ASSUME UNCHANGED input
  PROVE  /\ InputOK => InputOK'
         /\ Bad' = Bad /\ Socket' = Socket /\ Msgs' = Msgs
         /\ \A x, f : Sent(x, f)' = Sent(x, f)
         /\ \A c, j : FramesFrom(c, j)' = FramesFrom(c, j)
         /\ \A b, j : BinaryScan(b, j)' = BinaryScan(b, j)
<1>1. InputOK => InputOK'
    BY DEF InputOK, Msgs, Bad
<1>2. Bad' = Bad /\ Socket' = Socket /\ Msgs' = Msgs
    BY DEF Bad, Socket, Msgs
<1>3. ASSUME NEW c, NEW x PROVE CrcOk(c, x)' = CrcOk(c, x)
    BY DEF CrcOk, Msgs
<1>4. ASSUME NEW x, NEW f PROVE Sent(x, f)' = Sent(x, f)
    BY DEF Sent, FrameAt, CrcOk, Msgs
<1>5. ASSUME NEW c, NEW j PROVE FramesFrom(c, j)' = FramesFrom(c, j)
    BY DEF FramesFrom, CrcOk, Msgs
<1>6. ASSUME NEW b, NEW j PROVE BinaryScan(b, j)' = BinaryScan(b, j)
    BY DEF BinaryScan, BinaryStops, CrcOk, Bad, Msgs
<1>7. QED
    BY <1>1, <1>2, <1>4, <1>5, <1>6

\* What getNextMessage did, with the message it found or with none.
ScanStep(k, r) ==
  /\ k \in 0 .. Left /\ r = Scan(Filled(k), bufferIndex)
  /\ arrived' = arrived + k /\ buffer' = r.buf /\ bufferIndex' = r.idx
  /\ UNCHANGED input
  /\ IF r.msg = 0 THEN drained' = TRUE /\ got' = got
     ELSE drained' = FALSE /\ got' = Append(got, r.msg)

LEMMA ScanStepKeeps ==
  ASSUME ReadOK, NEW k, NEW r, ScanStep(k, r), connected' \in BOOLEAN, ended' \in BOOLEAN
  PROVE  /\ ReadOK'
         /\ r.msg # 0 => r.msg \in 1 .. Bad
         /\ r.msg # 0 /\ r.msg # Bad => \E x : Here <= x /\ Sent(x, r.msg)
<1> DEFINE e == arrived + k
           q == Place(e, r.buf, r.idx)
<1>1. k \in 0 .. Left /\ e \in Nat /\ e \in arrived .. Len(input.cells)
      /\ (~Socket => e = Len(input.cells)) /\ Here \in Nat
    BY FilledIs DEF ScanStep
<1>2. /\ Holds(input.cells, e, r.buf, r.idx) /\ q \in Nat /\ Here <= q
      /\ r.msg # 0 => /\ r.msg \in 1 .. Bad
                      /\ r.msg # Bad => \E x : Here <= x /\ x < q /\ Sent(x, r.msg)
      /\ ~Socket /\ r.msg = 0 => BinaryScan(r.buf, r.idx).msg = 0
    BY ScanOK DEF ScanStep
<1>3. InputOK' /\ Bad' = Bad /\ Socket' = Socket /\ (\A x, f : Sent(x, f)' = Sent(x, f))
      /\ (\A b, j : BinaryScan(b, j)' = BinaryScan(b, j))
    BY SameInput DEF ScanStep, ReadOK
<1>4. /\ arrived' = e /\ buffer' = r.buf /\ bufferIndex' = r.idx /\ input' = input
      /\ Here' = q
    BY DEF ScanStep, Here
<1>5. arrived' \in 0 .. Len(input'.cells)
    BY <1>1, <1>4 DEF ReadOK
<1>6. got' \in Seq(1 .. Bad') /\ drained' \in BOOLEAN
  <2>1. got \in Seq(1 .. Bad)
      BY DEF ReadOK
  <2>2. CASE r.msg = 0
      BY <1>3, <2>1, <2>2 DEF ScanStep
  <2>3. CASE r.msg # 0
    <3>1. got' = Append(got, r.msg) /\ drained' = FALSE /\ r.msg \in 1 .. Bad
        BY <1>2, <2>3 DEF ScanStep
    <3>2. Append(got, r.msg) \in Seq(1 .. Bad)
        BY <2>1, <3>1
    <3>3. QED
        BY <1>3, <3>1, <3>2
  <2>4. QED
      BY <2>2, <2>3
<1>7. (~Socket /\ drained => BinaryScan(buffer, bufferIndex).msg = 0)'
  <2>1. BinaryScan(buffer, bufferIndex)' = BinaryScan(r.buf, r.idx)
      BY <1>3, <1>4
  <2>2. drained' => r.msg = 0
      BY DEF ScanStep
  <2>3. QED
      BY <1>2, <1>3, <2>1, <2>2
<1>8. ASSUME NEW i \in 1 .. Len(got'), got'[i] # Bad
      PROVE  \E x : x < q /\ Sent(x, got'[i])
  <2>1. CASE r.msg # 0 /\ i = Len(got) + 1
    <3>1. got'[i] = r.msg
        BY <2>1 DEF ScanStep, ReadOK
    <3>2. QED
        BY <1>2, <1>8, <2>1, <3>1
  <2>2. CASE ~(r.msg # 0 /\ i = Len(got) + 1)
    <3>1. i \in 1 .. Len(got) /\ got'[i] = got[i]
        BY <2>2 DEF ScanStep, ReadOK
    <3>2. PICK x : x < Here /\ Sent(x, got[i])
        BY <1>8, <3>1 DEF ReadOK
    <3>3. x < q
        BY <1>1, <1>2, <3>2 DEF Sent
    <3>4. QED
        BY <3>1, <3>2, <3>3
  <2>3. QED
      BY <2>1, <2>2
<1>9. ReadOK'
  <2>1. Holds(input.cells, arrived, buffer, bufferIndex)'
      BY <1>2, <1>4
  <2>2. (~Socket => arrived = Len(input.cells))'
      BY <1>1, <1>3, <1>4
  <2>3. (\A i \in 1 .. Len(got) : got[i] # Bad => \E x : x < Here /\ Sent(x, got[i]))'
      BY <1>3, <1>4, <1>8
  <2>4. QED
      BY <1>3, <1>5, <1>6, <1>7, <2>1, <2>2, <2>3 DEF ReadOK
<1>10. QED
    BY <1>2, <1>9

LEMMA CatAssoc ==
  ASSUME NEW s \in Seq(Nat), NEW m \in Nat, NEW t \in Seq(Nat)
  PROVE  s \o (<<m>> \o t) = Append(s, m) \o t
<1> DEFINE V == Nat
           u == s \o (<<m>> \o t)
           w == Append(s, m) \o t
<1>1. <<m>> \in Seq(V) /\ Len(<<m>>) = 1 /\ Append(s, m) \in Seq(V)
      /\ Len(Append(s, m)) = Len(s) + 1
    OBVIOUS
<1>2. (<<m>> \o t) \in Seq(V) /\ Len(<<m>> \o t) = 1 + Len(t)
    BY <1>1, CatIs
<1>3. u \in Seq(V) /\ Len(u) = Len(s) + (1 + Len(t))
    BY <1>2, CatIs
<1>4. w \in Seq(V) /\ Len(w) = (Len(s) + 1) + Len(t)
    BY <1>1, CatIs
<1>5. Len(u) = Len(w)
    BY <1>3, <1>4
<1>6. ASSUME NEW i \in 1 .. Len(u) PROVE u[i] = w[i]
  <2>1. CASE i <= Len(s)
      BY <1>1, <1>2, <1>3, <2>1
  <2>2. CASE i = Len(s) + 1
      BY <1>1, <1>2, <1>3, <2>2
  <2>3. CASE i > Len(s) + 1
    <3>1. i - Len(s) \in 2 .. 1 + Len(t) /\ (i - Len(s)) - 1 = i - (Len(s) + 1)
        BY <1>3, <2>3
    <3>2. (<<m>> \o t)[i - Len(s)] = t[(i - Len(s)) - 1]
        BY <1>1, <1>2, <3>1
    <3>3. u[i] = (<<m>> \o t)[i - Len(s)]
        BY <1>2, <1>3, <2>3
    <3>4. w[i] = t[i - (Len(s) + 1)]
        BY <1>1, <1>3, <2>3
    <3>5. QED
        BY <3>1, <3>2, <3>3, <3>4
  <2>4. QED
      BY <1>3, <2>1, <2>2, <2>3
<1> HIDE DEF u, w, V
<1>7. u = w
    BY <1>3, <1>4, <1>5, <1>6, SameSeq
<1>8. QED
    BY <1>7 DEF u, w

LEMMA ScanStepFinds ==
  ASSUME ReadOK, FoundOK, NEW k, NEW r, ScanStep(k, r)
  PROVE  FoundOK'
<1> DEFINE e == arrived + k
           q == Place(e, r.buf, r.idx)
           N == Len(input.cells)
<1>1. k \in 0 .. Left /\ e \in Nat /\ e \in arrived .. N /\ Here \in Nat
    BY FilledIs DEF ScanStep
<1>2. /\ arrived' = e /\ buffer' = r.buf /\ bufferIndex' = r.idx /\ input' = input
      /\ Here' = q /\ r = Scan(Filled(k), bufferIndex)
      /\ \A m : First(m)' = First(m)
    BY DEF ScanStep, Here, First
<1>3. Socket' = Socket /\ \A c, j : FramesFrom(c, j)' = FramesFrom(c, j)
    BY <1>2, SameInput
<1>4. SUFFICES ASSUME Socket
               PROVE  /\ \A m \in e .. N : FramesFrom(First(m), 0) = got' \o FramesFrom(First(m), q)
                      /\ drained' => FramesFrom(First(e), q) = <<>>
  <2> DEFINE A == \A m \in e .. N : FramesFrom(First(m), 0) = got' \o FramesFrom(First(m), q)
             B == drained' => FramesFrom(First(e), q) = <<>>
  <2>1. ASSUME A PROVE (\A m \in arrived .. Len(input.cells) :
                          FramesFrom(First(m), 0) = got \o FramesFrom(First(m), Here))'
      BY <1>2, <1>3, <2>1
  <2>2. ASSUME B PROVE (drained => FramesFrom(First(arrived), Here) = <<>>)'
      BY <1>2, <1>3, <2>2
  <2>3. QED
      BY <1>3, <2>1, <2>2 DEF FoundOK
<1>5. /\ q \in Nat /\ Holds(input.cells, e, r.buf, r.idx)
      /\ r.msg # 0 =>
           /\ r.msg \in 1 .. Bad
           /\ \A m \in e .. N : FramesFrom(First(m), Here) = <<r.msg>> \o FramesFrom(First(m), q)
      /\ r.msg = 0 =>
           /\ \A m \in e .. N : FramesFrom(First(m), Here) = FramesFrom(First(m), q)
           /\ FramesFrom(First(e), q) = <<>>
  <2>1. k \in 0 .. Left /\ r = Scan(Filled(k), bufferIndex) /\ e = arrived + k
        /\ q = Place(e, r.buf, r.idx)
      BY <1>2 DEF ScanStep
  <2> HIDE DEF e, q
  <2>2. QED
      BY <1>4, <2>1, ScanOK
<1>6. got \in Seq(Nat) /\ arrived \in Nat /\ N \in Nat /\ (r.msg \in 1 .. Bad => r.msg \in Nat)
    BY DEF ReadOK, InputOK
<1>7. drained' => FramesFrom(First(e), q) = <<>>
    BY <1>5 DEF ScanStep
<1>8. ASSUME NEW m \in e .. N
      PROVE  FramesFrom(First(m), 0) = got' \o FramesFrom(First(m), q)
  <2>1. m \in arrived .. N
      BY <1>1, <1>6
  <2>2. FramesFrom(First(m), 0) = got \o FramesFrom(First(m), Here)
      BY <1>4, <2>1 DEF FoundOK
  <2>3. CASE r.msg = 0
      BY <1>5, <2>2, <2>3 DEF ScanStep
  <2>4. CASE r.msg # 0
    <3>1. First(m) \in Seq(LogsCells) /\ Len(First(m)) = m /\ Holds(First(m), e, r.buf, r.idx)
      <4>1. input.cells \in Seq(LogsCells)
          BY DEF ReadOK, InputOK
      <4>2. QED
          BY <1>1, <1>5, <4>1, HoldsOfFirst DEF First
    <3>2. q \in 0 .. Len(First(m))
      <4>1. q <= e
        <5>1. Len(r.buf) \in 0 .. e /\ r.idx \in 0 .. Len(r.buf)
            BY <3>1 DEF Holds
        <5>2. QED
            BY <1>1, <5>1 DEF Place
      <4>2. QED
          BY <1>1, <1>5, <3>1, <4>1
    <3>3. FramesFrom(First(m), q) \in Seq(Nat)
        BY <3>1, <3>2, FramesType
    <3>4. got \o (<<r.msg>> \o FramesFrom(First(m), q)) = Append(got, r.msg) \o FramesFrom(First(m), q)
      <4>1. r.msg \in Nat /\ got \in Seq(Nat)
          BY <1>5, <1>6, <2>4
      <4>2. PICK rest \in Seq(Nat) : rest = FramesFrom(First(m), q)
          BY <3>3
      <4>3. QED
          BY <4>1, <4>2, CatAssoc
    <3>5. QED
        BY <1>5, <2>2, <2>4, <3>4 DEF ScanStep
  <2>5. QED
      BY <2>3, <2>4
<1>9. QED
    BY <1>7, <1>8

-----------------------------------------------------------------------------
(* The records merged, and the records read.                               *)

LEMMA UptoAgree ==
  ASSUME NEW n \in Nat, NEW g, NEW h, g[0] = h[0],
         \A k \in 1 .. n : g[k - 1] = h[k - 1] => g[k] = h[k]
  PROVE  g[n] = h[n]
<1> DEFINE S == {k \in 0 .. n : g[k] = h[k]}
<1>1. 0 \in S
    OBVIOUS
<1>2. ASSUME NEW k \in 0 .. n - 1, k \in S PROVE k + 1 \in S
  <2>1. k + 1 \in 1 .. n /\ (k + 1) - 1 = k /\ k + 1 \in 0 .. n
      OBVIOUS
  <2>2. g[k + 1] = h[k + 1]
      BY <1>2, <2>1
  <2>3. QED
      BY <2>1, <2>2
<1>3. 0 .. n \subseteq S
  <2> HIDE DEF S
  <2>1. QED
      BY <1>1, <1>2, Induct
<1>4. QED
    BY <1>3

\* g[k] is what the first k epochs of d merge.
MergedUpto(d, g) ==
  /\ g \in [0 .. Len(d) -> Seq(Nat)] /\ g[0] = <<>>
  /\ \A k \in 1 .. Len(d) : g[k] = g[k - 1] \o d[k].from

LEMMA MergedIs ==
  ASSUME NEW E, NEW d \in Seq(E), \A e \in E : e.from \in Seq(Nat)
  PROVE  \E g : MergedUpto(d, g) /\ Merged(d) = g[Len(d)]
<1> DEFINE n == Len(d)
           V == Seq(Nat)
           step == [p \in (1 .. n) \X V |-> p[2] \o d[p[1]].from]
           Turn(u) == [k \in 0 .. n |-> IF k = 0 THEN <<>> ELSE u[k - 1] \o d[k].from]
<1>1. n \in Nat /\ <<>> \in V
    OBVIOUS
<1>2. \A k \in 1 .. n : d[k].from \in V
    OBVIOUS
<1>3. step \in [(1 .. n) \X V -> V]
  <2>1. ASSUME NEW k \in 1 .. n, NEW v \in V PROVE v \o d[k].from \in V
      BY <1>2, CatIs
  <2> HIDE DEF V, n
  <2>2. QED
      BY <2>1
<1>4. PICK g : InSteps(g, n, V, <<>>, step)
  <2> HIDE DEF n, V, step
  <2>1. QED
      BY <1>1, <1>3, StepsExist
<1>5. g \in [0 .. n -> V] /\ g[0] = <<>> /\ \A k \in 1 .. n : g[k] = step[<<k, g[k - 1]>>]
    BY <1>4 DEF InSteps
<1>6. ASSUME NEW k \in 1 .. n PROVE g[k] = g[k - 1] \o d[k].from
  <2> HIDE DEF V, n
  <2>1. k - 1 \in 0 .. n /\ g[k - 1] \in V
      BY <1>1, <1>5
  <2>2. QED
      BY <1>5, <2>1
<1>7. g = Turn(g)
  <2>1. g = [k \in 0 .. n |-> g[k]]
      BY <1>5
  <2>2. \A k \in 0 .. n : g[k] = IF k = 0 THEN <<>> ELSE g[k - 1] \o d[k].from
    <3>1. \A k \in 0 .. n : k # 0 => k \in 1 .. n
        BY <1>1
    <3>2. QED
        BY <1>5, <1>6, <3>1
  <2>3. QED
      BY <2>1, <2>2
<1>8. PICK l : l = CHOOSE u : u = Turn(u)
    OBVIOUS
<1>9. Merged(d) = l[n]
    BY <1>8 DEF Merged
<1>10. l = Turn(l)
  <2> HIDE DEF Turn
  <2>1. QED
      BY <1>7, <1>8
<1>11. \A k \in 0 .. n : l[k] = IF k = 0 THEN <<>> ELSE l[k - 1] \o d[k].from
    BY <1>10
<1>12. l[0] = g[0] /\ \A k \in 1 .. n : l[k - 1] = g[k - 1] => l[k] = g[k]
  <2>1. \A k \in 1 .. n : k # 0 /\ k \in 0 .. n
      OBVIOUS
  <2>2. 0 \in 0 .. n
      OBVIOUS
  <2>3. l[0] = <<>> /\ \A k \in 1 .. n : l[k] = l[k - 1] \o d[k].from
      BY <1>11, <2>1, <2>2
  <2>4. ASSUME NEW k \in 1 .. n, l[k - 1] = g[k - 1] PROVE l[k] = g[k]
    <3>1. l[k] = l[k - 1] \o d[k].from
        BY <2>3
    <3>2. g[k] = g[k - 1] \o d[k].from
        BY <1>6
    <3>3. QED
        BY <2>4, <3>1, <3>2
  <2>5. l[0] = g[0]
      BY <1>5, <2>3
  <2>6. QED
      BY <2>4, <2>5
<1>13. l[n] = g[n]
  <2>1. n \in 0 .. n
      BY <1>1
  <2> HIDE DEF n
  <2>2. QED
      BY <1>1, <1>12, <2>1, UptoAgree
<1>14. MergedUpto(d, g)
    BY <1>5, <1>6 DEF MergedUpto
<1>15. QED
    BY <1>9, <1>13, <1>14

LEMMA MergedType ==
  ASSUME NEW E, NEW d \in Seq(E), \A e \in E : e.from \in Seq(Nat)
  PROVE  Merged(d) \in Seq(Nat)
<1>1. PICK g : MergedUpto(d, g) /\ Merged(d) = g[Len(d)]
    BY MergedIs
<1>2. Len(d) \in 0 .. Len(d)
    OBVIOUS
<1>3. QED
    BY <1>1, <1>2 DEF MergedUpto

LEMMA MergedAppend ==
  ASSUME NEW E, NEW d \in Seq(E), NEW e \in E, \A x \in E : x.from \in Seq(Nat)
  PROVE  Merged(Append(d, e)) = Merged(d) \o e.from
<1> DEFINE b == Append(d, e)
           n == Len(d)
<1>1. b \in Seq(E) /\ Len(b) = n + 1 /\ b[n + 1] = e /\ n \in Nat /\ \A k \in 1 .. n : b[k] = d[k]
    OBVIOUS
<1>2. PICK g : MergedUpto(d, g) /\ Merged(d) = g[n]
    BY MergedIs
<1> HIDE DEF b
<1>3. PICK h : MergedUpto(b, h) /\ Merged(b) = h[Len(b)]
    BY <1>1, MergedIs
<1>4. h[0] = g[0] /\ \A k \in 1 .. n : h[k - 1] = g[k - 1] => h[k] = g[k]
  <2>1. \A k \in 1 .. n : k \in 1 .. n + 1
      BY <1>1
  <2>2. QED
      BY <1>1, <1>2, <1>3, <2>1 DEF MergedUpto
<1>5. h[n] = g[n]
  <2>1. n \in 0 .. n
      BY <1>1
  <2> HIDE DEF n
  <2>2. QED
      BY <1>1, <1>4, <2>1, UptoAgree
<1>6. h[n + 1] = h[n] \o e.from
  <2>1. n + 1 \in 1 .. n + 1 /\ (n + 1) - 1 = n
      BY <1>1
  <2>2. QED
      BY <1>1, <1>3, <2>1 DEF MergedUpto
<1>7. QED
    BY <1>1, <1>2, <1>3, <1>5, <1>6 DEF b

\* g[k] is the observation records among the first k messages of m.
ObsUpto(m, g) ==
  /\ g \in [0 .. Len(m) -> Seq(Nat)] /\ g[0] = <<>>
  /\ \A k \in 1 .. Len(m) : g[k] = IF IsObs(m[k]) THEN Append(g[k - 1], m[k]) ELSE g[k - 1]

LEMMA ObsIs ==
  ASSUME NEW m \in Seq(Nat)
  PROVE  \E g : ObsUpto(m, g) /\ ObsOf(m) = g[Len(m)]
<1> DEFINE n == Len(m)
           V == Seq(Nat)
           One(k, v) == IF IsObs(m[k]) THEN Append(v, m[k]) ELSE v
           step == [p \in (1 .. n) \X V |-> One(p[1], p[2])]
           Turn(u) == [k \in 0 .. n |-> IF k = 0 THEN <<>>
                                        ELSE IF IsObs(m[k]) THEN Append(u[k - 1], m[k]) ELSE u[k - 1]]
<1>1. n \in Nat /\ <<>> \in V
    OBVIOUS
<1>2. \A k \in 1 .. n : m[k] \in Nat
    OBVIOUS
<1>3. step \in [(1 .. n) \X V -> V]
  <2>1. ASSUME NEW k \in 1 .. n, NEW v \in V PROVE One(k, v) \in V
      BY <1>2
  <2> HIDE DEF V, n, One
  <2>2. QED
      BY <2>1
<1>4. PICK g : InSteps(g, n, V, <<>>, step)
  <2> HIDE DEF n, V, step
  <2>1. QED
      BY <1>1, <1>3, StepsExist
<1>5. g \in [0 .. n -> V] /\ g[0] = <<>> /\ \A k \in 1 .. n : g[k] = step[<<k, g[k - 1]>>]
    BY <1>4 DEF InSteps
<1>6. ASSUME NEW k \in 1 .. n PROVE g[k] = One(k, g[k - 1])
  <2> HIDE DEF V, n
  <2>1. k - 1 \in 0 .. n /\ g[k - 1] \in V
      BY <1>1, <1>5
  <2> HIDE DEF One
  <2>2. QED
      BY <1>5, <2>1
<1>7. g = Turn(g)
  <2>1. g = [k \in 0 .. n |-> g[k]]
      BY <1>5
  <2>2. \A k \in 0 .. n : g[k] = IF k = 0 THEN <<>> ELSE One(k, g[k - 1])
    <3>1. \A k \in 0 .. n : k # 0 => k \in 1 .. n
        BY <1>1
    <3> HIDE DEF One
    <3>2. QED
        BY <1>5, <1>6, <3>1
  <2>3. QED
      BY <2>1, <2>2
<1>8. PICK l : l = CHOOSE u : u = Turn(u)
    OBVIOUS
<1>9. ObsOf(m) = l[n]
    BY <1>8 DEF ObsOf
<1>10. l = Turn(l)
  <2> HIDE DEF Turn
  <2>1. QED
      BY <1>7, <1>8
<1>11. \A k \in 0 .. n : l[k] = IF k = 0 THEN <<>> ELSE One(k, l[k - 1])
    BY <1>10
<1>12. l[0] = g[0] /\ \A k \in 1 .. n : l[k - 1] = g[k - 1] => l[k] = g[k]
  <2>1. \A k \in 1 .. n : k # 0 /\ k \in 0 .. n
      OBVIOUS
  <2>2. 0 \in 0 .. n
      OBVIOUS
  <2> HIDE DEF One
  <2>3. QED
      BY <1>5, <1>6, <1>11, <2>1, <2>2
<1>13. l[n] = g[n]
  <2>1. n \in 0 .. n
      BY <1>1
  <2> HIDE DEF n
  <2>2. QED
      BY <1>1, <1>12, <2>1, UptoAgree
<1>14. ObsUpto(m, g)
    BY <1>5, <1>6 DEF ObsUpto
<1>15. QED
    BY <1>9, <1>13, <1>14

LEMMA ObsType ==
  ASSUME NEW m \in Seq(Nat)
  PROVE  ObsOf(m) \in Seq(Nat)
BY ObsIs DEF ObsUpto

LEMMA ObsAppend ==
  ASSUME NEW m \in Seq(Nat), NEW f \in Nat
  PROVE  ObsOf(Append(m, f)) = IF IsObs(f) THEN Append(ObsOf(m), f) ELSE ObsOf(m)
<1> DEFINE b == Append(m, f)
           n == Len(m)
<1>1. b \in Seq(Nat) /\ Len(b) = n + 1 /\ b[n + 1] = f /\ n \in Nat /\ \A k \in 1 .. n : b[k] = m[k]
    OBVIOUS
<1>2. PICK g : ObsUpto(m, g) /\ ObsOf(m) = g[n]
    BY ObsIs
<1> HIDE DEF b
<1>3. PICK h : ObsUpto(b, h) /\ ObsOf(b) = h[Len(b)]
    BY <1>1, ObsIs
<1>4. h[0] = g[0] /\ \A k \in 1 .. n : h[k - 1] = g[k - 1] => h[k] = g[k]
  <2>1. \A k \in 1 .. n : k \in 1 .. n + 1
      BY <1>1
  <2>2. QED
      BY <1>1, <1>2, <1>3, <2>1 DEF ObsUpto
<1>5. h[n] = g[n]
  <2>1. n \in 0 .. n
      BY <1>1
  <2> HIDE DEF n
  <2>2. QED
      BY <1>1, <1>4, <2>1, UptoAgree
<1>6. h[n + 1] = IF IsObs(f) THEN Append(h[n], f) ELSE h[n]
  <2>1. n + 1 \in 1 .. n + 1 /\ (n + 1) - 1 = n
      BY <1>1
  <2>2. QED
      BY <1>1, <1>3, <2>1 DEF ObsUpto
<1>7. QED
    BY <1>1, <1>2, <1>3, <1>5, <1>6 DEF b

-----------------------------------------------------------------------------
(* One record merged into an epoch.                                        *)

EpochShape(e) == e = [t |-> e.t, obs |-> e.obs, lli |-> e.lli, from |-> e.from]
LogShape(l) ==
  l = [cur |-> l.cur, pending |-> l.pending, stamp |-> l.stamp,
       prevLock |-> l.prevLock, curLock |-> l.curLock, eph |-> l.eph]

\* Where code and phase of signal s come from in the epoch of these records.
CodeOf(from, s) == ValueFrom(from, WithCode(from, "range", s), WithCode(from, "cmp", s))
PhaseOf(from, s) == ValueFrom(from, With(from, "range", s), With(from, "cmp", s))

EpochOK(e) ==
  /\ EpochShape(e) /\ e.t \in Nat
  /\ e.from \in Seq(1 .. Len(Msgs))
  /\ \A i \in 1 .. Len(e.from) : IsObs(e.from[i]) /\ Msgs[e.from[i]].t = e.t
  /\ \A s : s \in DOMAIN e.obs <=> \E i \in 1 .. Len(e.from) : s \in DOMAIN Msgs[e.from[i]].obs
  /\ \A s \in DOMAIN e.obs : e.obs[s].C = CodeOf(e.from, s) /\ e.obs[s].L = PhaseOf(e.from, s)

NoneIsZero(from) == \A i \in 1 .. Len(from) : from[i] # 0

\* What taking from one more record gives.
TakenGrows(from, more, f, new, R, C) ==
  /\ ValueFrom(more, R, C) = ValueFrom(from, R, C)
  /\ ValueFrom(more, R \cup {new}, C) = Put(ValueFrom(from, R, C), f, TRUE)
  /\ ValueFrom(more, R, C \cup {new}) = Put(ValueFrom(from, R, C), f, FALSE)

LEMMA TakenAppend ==
  ASSUME NEW n \in Nat, NEW from \in Seq(Nat), Len(from) = n, NEW f \in Nat, f # 0,
         NoneIsZero(from),
         NEW R \in SUBSET (1 .. n), NEW C \in SUBSET (1 .. n),
         NEW more, more = Append(from, f), NEW new \in Nat, n < new, new <= n + 1
  PROVE  TakenGrows(from, more, f, new, R, C)
<1>0. new = n + 1
    OBVIOUS
<1>1. more[new] = f /\ \A i \in 1 .. n : more[i] = from[i]
    BY <1>0
<1>2. new \in Nat /\ R \in SUBSET (0 .. new) /\ C \in SUBSET (0 .. new)
      /\ R \in SUBSET Nat /\ C \in SUBSET Nat
      /\ R \cup {new} \in SUBSET (0 .. new) /\ C \cup {new} \in SUBSET Nat
    BY <1>0
<1>3. R # {} => Max(R) \in R
    BY <1>2, MaxIs
<1>4. C # {} => Min(C) \in C /\ \A y \in C : Min(C) <= y
    BY <1>2, MinIs
<1>5. Max(R \cup {new}) = new
  <2> DEFINE T == R \cup {new}
  <2>1. Max(T) \in T /\ \A y \in T : y <= Max(T)
    <3>1. T # {} /\ T \in SUBSET (0 .. new)
        BY <1>2
    <3> HIDE DEF T
    <3>2. QED
        BY <1>2, <3>1, MaxIs
  <2>2. new \in T /\ \A y \in T : y <= new /\ y \in Nat
      OBVIOUS
  <2>3. Max(T) \in Nat /\ Max(T) <= new /\ new <= Max(T)
      BY <2>1, <2>2
  <2>4. QED
      BY <1>2, <2>3
<1>6. Min(C \cup {new}) = IF C = {} THEN new ELSE Min(C)
  <2> DEFINE T == C \cup {new}
  <2>1. Min(T) \in T /\ \A y \in T : Min(T) <= y
    <3>1. T # {} /\ T \in SUBSET Nat
        BY <1>2
    <3> HIDE DEF T
    <3>2. QED
        BY <3>1, MinIs
  <2>2. CASE C = {}
      BY <2>1, <2>2
  <2>3. CASE C # {}
    <3>1. Min(C) \in T /\ \A y \in T : Min(C) <= y /\ y \in Nat
      <4>1. Min(C) \in 1 .. n /\ Min(C) <= new
        <5>1. Min(C) \in C
            BY <1>4, <2>3
        <5>2. Min(C) \in 1 .. n
            BY <5>1
        <5>3. QED
            BY <5>2
      <4>2. QED
          BY <1>4, <2>3, <4>1
    <3>2. Min(T) <= Min(C) /\ Min(C) <= Min(T) /\ Min(T) \in Nat /\ Min(C) \in Nat
        BY <2>1, <3>1
    <3>3. Min(T) = Min(C)
        BY <3>2
    <3>4. QED
        BY <2>3, <3>3
  <2>4. QED
      BY <2>2, <2>3
<1>7. ValueFrom(more, R, C) = ValueFrom(from, R, C)
    BY <1>1, <1>3, <1>4 DEF ValueFrom
<1>8. ValueFrom(more, R \cup {new}, C) = f
    BY <1>1, <1>5 DEF ValueFrom
<1>9. ValueFrom(more, R, C \cup {new}) = IF R = {} /\ C = {} THEN f ELSE ValueFrom(from, R, C)
    BY <1>1, <1>3, <1>4, <1>6 DEF ValueFrom
<1>10. ValueFrom(from, R, C) = 0 <=> R = {} /\ C = {}
    BY <1>3, <1>4 DEF ValueFrom, NoneIsZero
<1>11. QED
    BY <1>7, <1>8, <1>9, <1>10 DEF Put, TakenGrows

LEMMA WithAppend ==
  ASSUME NEW V, NEW from \in Seq(V), NEW f \in V, NEW kind, NEW s
  PROVE  LET more == Append(from, f)
             new == Len(from) + 1
             has == Msgs[f].kind = kind /\ s \in DOMAIN Msgs[f].obs
         IN  /\ With(more, kind, s) = With(from, kind, s) \cup (IF has THEN {new} ELSE {})
             /\ WithCode(more, kind, s) =
                  WithCode(from, kind, s) \cup (IF has /\ Msgs[f].obs[s].code THEN {new} ELSE {})
             /\ With(from, kind, s) \subseteq 1 .. Len(from)
             /\ WithCode(from, kind, s) \subseteq 1 .. Len(from)
<1> DEFINE more == Append(from, f)
           new == Len(from) + 1
<1>1. /\ DOMAIN from = 1 .. Len(from) /\ DOMAIN more = 1 .. new /\ more[new] = f
      /\ \A i \in 1 .. Len(from) : more[i] = from[i]
      /\ \A i : i \in 1 .. new <=> i \in 1 .. Len(from) \/ i = new
      /\ new \notin 1 .. Len(from)
    OBVIOUS
<1> HIDE DEF more, new
<1>2. With(more, kind, s) = With(from, kind, s) \cup
        (IF Msgs[f].kind = kind /\ s \in DOMAIN Msgs[f].obs THEN {new} ELSE {})
    BY <1>1 DEF With
<1>3. With(from, kind, s) \subseteq 1 .. Len(from)
    BY <1>1 DEF With
<1>4. \A i \in With(from, kind, s) : more[i] = from[i]
    BY <1>1, <1>3
<1>5. WithCode(more, kind, s) = WithCode(from, kind, s) \cup
        (IF Msgs[f].kind = kind /\ s \in DOMAIN Msgs[f].obs /\ Msgs[f].obs[s].code
           THEN {new} ELSE {})
    BY <1>1, <1>2, <1>3, <1>4 DEF WithCode
<1>6. QED
    BY <1>2, <1>3, <1>5 DEF WithCode, more, new

Changed(n, l, O, I, F, L) ==
  n = [l EXCEPT !.cur.obs = O, !.cur.lli = I, !.cur.from = F, !.curLock = L]

LEMMA FourChanged ==
  ASSUME NEW t, NEW o, NEW i, NEW fr, NEW p, NEW st, NEW pl, NEW cl, NEW ep,
         NEW l, l = [cur |-> [t |-> t, obs |-> o, lli |-> i, from |-> fr], pending |-> p,
                     stamp |-> st, prevLock |-> pl, curLock |-> cl, eph |-> ep],
         NEW O, NEW I, NEW F, NEW L,
         NEW n, Changed(n, l, O, I, F, L)
  PROVE  n = [cur |-> [t |-> t, obs |-> O, lli |-> I, from |-> F], pending |-> p,
              stamp |-> st, prevLock |-> pl, curLock |-> L, eph |-> ep]
BY DEF Changed

\* The members of what emitObs leaves.
Emitted(l, f, n) ==
  LET m == Msgs[f]
      Old(s) == IF s \in DOMAIN l.cur.obs THEN l.cur.obs[s] ELSE [C |-> 0, L |-> 0]
      flagged == {s \in DOMAIN m.obs :
                    m.obs[s].phase /\ LockBits(l.prevLock, s, m.obs[s]) # {}}
      Lock(s) == IF s \in DOMAIN l.curLock THEN Min({l.curLock[s], m.obs[s].lock})
                 ELSE m.obs[s].lock
  IN  /\ LogShape(n) /\ EpochShape(n.cur)
      /\ n.pending = l.pending /\ n.stamp = l.stamp /\ n.prevLock = l.prevLock
      /\ n.cur.t = l.cur.t
      /\ n.cur.obs = Over(l.cur.obs, [s \in DOMAIN m.obs |->
                                        PutSignal(Old(s), m.obs[s], f, m.kind = "range")])
      /\ n.cur.lli = Over(l.cur.lli, [s \in flagged |-> LockBits(l.prevLock, s, m.obs[s])])
      /\ n.cur.from = IF m.obs = <<>> THEN l.cur.from ELSE Append(l.cur.from, f)
      /\ n.curLock = Over(l.curLock, [s \in DOMAIN m.obs |-> Lock(s)])

LEMMA EmitIs ==
  ASSUME NEW l, NEW f, LogShape(l), EpochShape(l.cur), NEW n, n = EmitObs(l, f)
  PROVE  Emitted(l, f, n)
<1> DEFINE m == Msgs[f]
           Old(s) == IF s \in DOMAIN l.cur.obs THEN l.cur.obs[s] ELSE [C |-> 0, L |-> 0]
           flagged == {s \in DOMAIN m.obs :
                         m.obs[s].phase /\ LockBits(l.prevLock, s, m.obs[s]) # {}}
           Lock(s) == IF s \in DOMAIN l.curLock THEN Min({l.curLock[s], m.obs[s].lock})
                      ELSE m.obs[s].lock
           O(x) == Over(x, [s \in DOMAIN m.obs |->
                              PutSignal(Old(s), m.obs[s], f, m.kind = "range")])
           I(x) == Over(x, [s \in flagged |-> LockBits(l.prevLock, s, m.obs[s])])
           F(x) == IF m.obs = <<>> THEN x ELSE Append(x, f)
           L(x) == Over(x, [s \in DOMAIN m.obs |-> Lock(s)])
<1>1. n = [l EXCEPT !.cur.obs = O(@), !.cur.lli = I(@), !.cur.from = F(@), !.curLock = L(@)]
    BY DEF EmitObs
<1> HIDE DEF O, I, F, L
<1>2. PICK e, p, st, pl, cl, ep : l = [cur |-> e, pending |-> p, stamp |-> st,
                                       prevLock |-> pl, curLock |-> cl, eph |-> ep]
    BY DEF LogShape
<1>3. PICK t, o, i, fr : e = [t |-> t, obs |-> o, lli |-> i, from |-> fr]
    BY <1>2 DEF EpochShape
<1>4. n = [cur |-> [t |-> t, obs |-> O(o), lli |-> I(i), from |-> F(fr)], pending |-> p,
           stamp |-> st, prevLock |-> pl, curLock |-> L(cl), eph |-> ep]
  <2>1. l = [cur |-> [t |-> t, obs |-> o, lli |-> i, from |-> fr], pending |-> p,
             stamp |-> st, prevLock |-> pl, curLock |-> cl, eph |-> ep]
      BY <1>2, <1>3
  <2>2. PICK O2, I2, F2, L2 : O2 = O(o) /\ I2 = I(i) /\ F2 = F(fr) /\ L2 = L(cl)
      OBVIOUS
  <2>3. Changed(n, l, O2, I2, F2, L2)
      BY <1>1, <2>1, <2>2 DEF Changed
  <2>4. QED
      BY <2>1, <2>2, <2>3, FourChanged
<1>5. /\ LogShape(n) /\ EpochShape(n.cur)
      /\ n.pending = l.pending /\ n.stamp = l.stamp /\ n.prevLock = l.prevLock
      /\ n.cur.t = l.cur.t /\ n.cur.obs = O(l.cur.obs) /\ n.cur.lli = I(l.cur.lli)
      /\ n.cur.from = F(l.cur.from) /\ n.curLock = L(l.curLock)
    BY <1>2, <1>3, <1>4 DEF LogShape, EpochShape
<1>6. QED
    BY <1>5 DEF Emitted, O, I, F, L

\* The members of what beginEpoch leaves.
Begun(l, t, n) ==
  IF t = l.stamp THEN n = l
  ELSE /\ LogShape(n) /\ n.stamp = t /\ n.prevLock = l.curLock /\ n.curLock = <<>>
       /\ n.pending = IF HasObs(l.cur) THEN {l.cur} ELSE l.pending
       /\ n.cur = [t |-> t, obs |-> <<>>, lli |-> <<>>, from |-> <<>>]

LEMMA BeginIs ==
  ASSUME NEW l, NEW t, LogShape(l), NEW n, n = BeginEpoch(l, t)
  PROVE  Begun(l, t, n)
<1>1. PICK e, p, st, pl, cl, ep : l = [cur |-> e, pending |-> p, stamp |-> st,
                                       prevLock |-> pl, curLock |-> cl, eph |-> ep]
    BY DEF LogShape
<1>2. CASE t = l.stamp
    BY <1>2 DEF BeginEpoch, Begun
<1>3. CASE t # l.stamp
  <2>1. [EmptyObs EXCEPT !.t = t] = [t |-> t, obs |-> <<>>, lli |-> <<>>, from |-> <<>>]
      BY DEF EmptyObs
  <2>2. n = [cur |-> [t |-> t, obs |-> <<>>, lli |-> <<>>, from |-> <<>>],
             pending |-> IF HasObs(e) THEN {e} ELSE p, stamp |-> t,
             prevLock |-> cl, curLock |-> <<>>, eph |-> ep]
      BY <1>1, <1>3, <2>1 DEF BeginEpoch
  <2>3. LogShape(n) /\ n.stamp = t /\ n.prevLock = cl /\ n.curLock = <<>>
        /\ n.pending = (IF HasObs(e) THEN {e} ELSE p)
        /\ n.cur = [t |-> t, obs |-> <<>>, lli |-> <<>>, from |-> <<>>]
      BY <2>2 DEF LogShape
  <2>4. l.cur = e /\ l.pending = p /\ l.curLock = cl
      BY <1>1
  <2>5. QED
      BY <1>3, <2>3, <2>4 DEF Begun
<1>4. QED
    BY <1>2, <1>3

LEMMA ObsOrNone ==
  ASSUME InputOK, NEW f \in 1 .. Len(Msgs), IsRecord(Msgs[f])
  PROVE  /\ Msgs[f].obs = <<>> <=> DOMAIN Msgs[f].obs = {}
         /\ IsObs(f) <=> DOMAIN Msgs[f].obs # {}
<1>1. Msgs[f].obs = [s \in DOMAIN Msgs[f].obs |-> Msgs[f].obs[s]] /\ f # Bad
    BY DEF InputOK
<1>2. PICK o : o = Msgs[f].obs
    OBVIOUS
<1>3. o = [s \in DOMAIN o |-> o[s]]
    BY <1>1, <1>2
<1>4. o = <<>> <=> DOMAIN o = {}
  <2>1. ASSUME DOMAIN o = {} PROVE o = <<>>
    <3>1. DOMAIN o = DOMAIN <<>> /\ <<>> = [s \in DOMAIN <<>> |-> <<>>[s]]
        BY <2>1
    <3>2. o = [s \in {} |-> o[s]]
        BY <1>3, <2>1
    <3>3. QED
        BY <3>1, <3>2
  <2>2. QED
      BY <2>1
<1>5. QED
    BY <1>1, <1>2, <1>4 DEF IsObs

LEMMA ValuesAppend ==
  ASSUME InputOK, NEW from \in Seq(1 .. Len(Msgs)), NEW f \in 1 .. Len(Msgs), IsRecord(Msgs[f]),
         NEW s
  PROVE  LET more == Append(from, f)
             m == Msgs[f]
         IN  IF s \in DOMAIN m.obs
             THEN /\ CodeOf(more, s) = IF m.obs[s].code THEN Put(CodeOf(from, s), f, m.kind = "range")
                                       ELSE CodeOf(from, s)
                  /\ PhaseOf(more, s) = Put(PhaseOf(from, s), f, m.kind = "range")
             ELSE CodeOf(more, s) = CodeOf(from, s) /\ PhaseOf(more, s) = PhaseOf(from, s)
<1> DEFINE more == Append(from, f)
           m == Msgs[f]
           n == Len(from)
           new == n + 1
           V == 1 .. Len(Msgs)
           R == With(from, "range", s)
           C == With(from, "cmp", s)
           RC == WithCode(from, "range", s)
           CC == WithCode(from, "cmp", s)
           has == s \in DOMAIN m.obs
           code == m.obs[s].code
           If(c) == IF c THEN {new} ELSE {}
<1>1. n \in Nat /\ f # 0 /\ f \in Nat /\ from \in Seq(Nat) /\ NoneIsZero(from) /\ from \in Seq(V) /\ f \in V
    BY DEF InputOK, NoneIsZero
<1>2. ASSUME NEW kind
      PROVE  /\ With(more, kind, s) = With(from, kind, s) \cup If(m.kind = kind /\ has)
             /\ WithCode(more, kind, s) = WithCode(from, kind, s) \cup If(m.kind = kind /\ has /\ code)
             /\ With(from, kind, s) \in SUBSET (1 .. n)
             /\ WithCode(from, kind, s) \in SUBSET (1 .. n)
    BY <1>1, WithAppend
<1>20. more = Append(from, f) /\ Len(from) = n /\ new \in Nat /\ n < new /\ new <= n + 1
    OBVIOUS
<1> HIDE DEF more, n, V, R, C, RC, CC, new
<1>3. ASSUME NEW A \in SUBSET (1 .. n), NEW B \in SUBSET (1 .. n)
      PROVE  /\ ValueFrom(more, A, B) = ValueFrom(from, A, B)
             /\ ValueFrom(more, A \cup {new}, B) = Put(ValueFrom(from, A, B), f, TRUE)
             /\ ValueFrom(more, A, B \cup {new}) = Put(ValueFrom(from, A, B), f, FALSE)
  <2>1. TakenGrows(from, more, f, new, A, B)
      BY <1>1, <1>20, TakenAppend
  <2>2. QED
      BY <2>1 DEF TakenGrows
<1>4. R \in SUBSET (1 .. n) /\ C \in SUBSET (1 .. n) /\ RC \in SUBSET (1 .. n) /\ CC \in SUBSET (1 .. n)
    BY <1>2 DEF R, C, RC, CC
<1>5. /\ With(more, "range", s) = R \cup If(m.kind = "range" /\ has)
      /\ With(more, "cmp", s) = C \cup If(m.kind = "cmp" /\ has)
      /\ WithCode(more, "range", s) = RC \cup If(m.kind = "range" /\ has /\ code)
      /\ WithCode(more, "cmp", s) = CC \cup If(m.kind = "cmp" /\ has /\ code)
    BY <1>2 DEF R, C, RC, CC
<1>6. /\ PhaseOf(from, s) = ValueFrom(from, R, C) /\ CodeOf(from, s) = ValueFrom(from, RC, CC)
      /\ PhaseOf(more, s) = ValueFrom(more, R \cup If(m.kind = "range" /\ has),
                                        C \cup If(m.kind = "cmp" /\ has))
      /\ CodeOf(more, s) = ValueFrom(more, RC \cup If(m.kind = "range" /\ has /\ code),
                                       CC \cup If(m.kind = "cmp" /\ has /\ code))
    BY <1>5 DEF PhaseOf, CodeOf, R, C, RC, CC
<1>7. ASSUME NEW A \in SUBSET (1 .. n), NEW B \in SUBSET (1 .. n), NEW c \in BOOLEAN
      PROVE  ValueFrom(more, A \cup If(m.kind = "range" /\ c), B \cup If(m.kind = "cmp" /\ c))
               = IF c THEN Put(ValueFrom(from, A, B), f, m.kind = "range") ELSE ValueFrom(from, A, B)
  <2>1. CASE ~c
    <3>1. A \cup If(m.kind = "range" /\ c) = A /\ B \cup If(m.kind = "cmp" /\ c) = B
        BY <2>1
    <3>2. QED
        BY <1>3, <2>1, <3>1
  <2>2. CASE c /\ m.kind = "range"
    <3>1. A \cup If(m.kind = "range" /\ c) = A \cup {new} /\ B \cup If(m.kind = "cmp" /\ c) = B
        BY <2>2
    <3>2. (m.kind = "range") = TRUE
        BY <2>2
    <3>3. QED
        BY <1>3, <2>2, <3>1, <3>2
  <2>3. CASE c /\ m.kind = "cmp"
    <3>1. A \cup If(m.kind = "range" /\ c) = A /\ B \cup If(m.kind = "cmp" /\ c) = B \cup {new}
        BY <2>3
    <3>2. (m.kind = "range") = FALSE
        BY <2>3
    <3>3. QED
        BY <1>3, <2>3, <3>1, <3>2
  <2>4. QED
      BY <2>1, <2>2, <2>3 DEF IsRecord
<1> HIDE DEF If
<1>8. PhaseOf(more, s) = IF has THEN Put(PhaseOf(from, s), f, m.kind = "range") ELSE PhaseOf(from, s)
  <2>1. has \in BOOLEAN
      OBVIOUS
  <2> HIDE DEF has, m
  <2>2. QED
      BY <1>4, <1>6, <1>7, <2>1
<1>9. CodeOf(more, s) = IF has /\ code THEN Put(CodeOf(from, s), f, m.kind = "range")
                        ELSE CodeOf(from, s)
  <2>1. PICK c \in BOOLEAN : c = (has /\ code)
      OBVIOUS
  <2>2. CodeOf(more, s) = ValueFrom(more, RC \cup If(m.kind = "range" /\ c), CC \cup If(m.kind = "cmp" /\ c))
      BY <1>6, <2>1
  <2> HIDE DEF has, code, m
  <2>3. CodeOf(more, s) = IF c THEN Put(ValueFrom(from, RC, CC), f, m.kind = "range")
                          ELSE ValueFrom(from, RC, CC)
      BY <1>4, <1>7, <2>2
  <2>4. QED
      BY <1>6, <2>1, <2>3
<1>10. QED
    BY <1>8, <1>9 DEF more

LEMMA EmitKeepsEpoch ==
  ASSUME InputOK, NEW l, LogShape(l), EpochOK(l.cur), NEW f \in 1 .. Len(Msgs),
         IsRecord(Msgs[f]), Msgs[f].t = l.cur.t, NEW n, n = EmitObs(l, f)
  PROVE  EpochOK(n.cur) /\ n.cur.from = IF IsObs(f) THEN Append(l.cur.from, f) ELSE l.cur.from
<1> DEFINE m == Msgs[f]
           o == l.cur.obs
           from == l.cur.from
           Old(s) == IF s \in DOMAIN o THEN o[s] ELSE [C |-> 0, L |-> 0]
           put == [s \in DOMAIN m.obs |-> PutSignal(Old(s), m.obs[s], f, m.kind = "range")]
<1>1. /\ EpochShape(n.cur) /\ n.cur.t = l.cur.t /\ n.cur.obs = Over(o, put)
      /\ n.cur.from = IF m.obs = <<>> THEN from ELSE Append(from, f)
  <2>1. EpochShape(l.cur)
      BY DEF EpochOK
  <2>2. Emitted(l, f, n)
      BY <2>1, EmitIs
  <2>3. QED
      BY <2>2 DEF Emitted
<1>2. /\ DOMAIN n.cur.obs = DOMAIN o \cup DOMAIN m.obs
      /\ \A s \in DOMAIN m.obs : n.cur.obs[s] = PutSignal(Old(s), m.obs[s], f, m.kind = "range")
      /\ \A s \in DOMAIN o : s \notin DOMAIN m.obs => n.cur.obs[s] = o[s]
    BY <1>1 DEF Over
<1>3. (m.obs = <<>> <=> DOMAIN m.obs = {}) /\ (IsObs(f) <=> DOMAIN m.obs # {})
    BY ObsOrNone
<1>4. /\ from \in Seq(1 .. Len(Msgs)) /\ l.cur.t \in Nat
      /\ \A i \in 1 .. Len(from) : IsObs(from[i]) /\ Msgs[from[i]].t = l.cur.t
      /\ \A s : s \in DOMAIN o <=> \E i \in 1 .. Len(from) : s \in DOMAIN Msgs[from[i]].obs
      /\ \A s \in DOMAIN o : o[s].C = CodeOf(from, s) /\ o[s].L = PhaseOf(from, s)
    BY DEF EpochOK
<1>5. n.cur.from = IF IsObs(f) THEN Append(from, f) ELSE from
    BY <1>1, <1>3
<1> HIDE DEF put
<1>6. CASE ~IsObs(f)
  <2>1. DOMAIN m.obs = {} /\ n.cur.from = from
      BY <1>3, <1>5, <1>6
  <2>2. DOMAIN n.cur.obs = DOMAIN o /\ \A s \in DOMAIN o : n.cur.obs[s] = o[s]
      BY <1>2, <2>1
  <2>3. EpochShape(n.cur) /\ n.cur.t = l.cur.t
      BY <1>1
  <2>4. EpochOK(n.cur)
      BY <1>4, <2>1, <2>2, <2>3 DEF EpochOK
  <2>5. QED
      BY <1>5, <2>4
<1>7. CASE IsObs(f)
  <2> DEFINE more == Append(from, f)
  <2>1. /\ more \in Seq(1 .. Len(Msgs)) /\ Len(more) = Len(from) + 1 /\ Len(from) \in Nat
        /\ more[Len(from) + 1] = f /\ \A i \in 1 .. Len(from) : more[i] = from[i]
      BY <1>4
  <2>2. n.cur.from = more
      BY <1>5, <1>7
  <2> HIDE DEF more, from
  <2>3. \A i \in 1 .. Len(more) : i \in 1 .. Len(from) \/ i = Len(from) + 1
      BY <2>1
  <2>4. Len(from) + 1 \in 1 .. Len(more) /\ \A i \in 1 .. Len(from) : i \in 1 .. Len(more)
      BY <2>1
  <2>6. \A i \in 1 .. Len(more) : IsObs(more[i]) /\ Msgs[more[i]].t = n.cur.t
      BY <1>1, <1>4, <1>7, <2>1, <2>3
  <2>7. ASSUME NEW s
        PROVE  s \in DOMAIN n.cur.obs <=> \E i \in 1 .. Len(more) : s \in DOMAIN Msgs[more[i]].obs
    <3>1. ASSUME s \in DOMAIN n.cur.obs
          PROVE  \E i \in 1 .. Len(more) : s \in DOMAIN Msgs[more[i]].obs
      <4>1. CASE s \in DOMAIN m.obs
          BY <2>1, <2>4, <4>1
      <4>2. CASE s \in DOMAIN o
        <5>1. PICK i \in 1 .. Len(from) : s \in DOMAIN Msgs[from[i]].obs
            BY <1>4, <4>2
        <5>2. QED
            BY <2>1, <2>4, <5>1
      <4>3. QED
          BY <1>2, <3>1, <4>1, <4>2
    <3>2. ASSUME NEW i \in 1 .. Len(more), s \in DOMAIN Msgs[more[i]].obs
          PROVE  s \in DOMAIN n.cur.obs
      <4>1. CASE i \in 1 .. Len(from)
        <5>1. s \in DOMAIN o
            BY <1>4, <2>1, <3>2, <4>1
        <5>2. QED
            BY <1>2, <5>1
      <4>2. CASE i = Len(from) + 1
          BY <1>2, <2>1, <3>2, <4>2
      <4>3. QED
          BY <2>3, <4>1, <4>2
    <3>3. QED
        BY <3>1, <3>2
  <2>8. ASSUME NEW s
        PROVE  Old(s).C = CodeOf(from, s) /\ Old(s).L = PhaseOf(from, s)
    <3>1. CASE s \in DOMAIN o
        BY <1>4, <3>1
    <3>2. CASE s \notin DOMAIN o
      <4>1. ASSUME NEW kind PROVE With(from, kind, s) = {}
        <5>1. DOMAIN from = 1 .. Len(from)
            BY <1>4
        <5>2. \A i \in 1 .. Len(from) : s \notin DOMAIN Msgs[from[i]].obs
            BY <1>4, <3>2
        <5>3. QED
            BY <5>1, <5>2 DEF With
      <4>2. CodeOf(from, s) = 0 /\ PhaseOf(from, s) = 0
          BY <4>1 DEF CodeOf, PhaseOf, ValueFrom, WithCode
      <4>3. QED
          BY <3>2, <4>2
    <3>3. QED
        BY <3>1, <3>2
  <2>9. ASSUME NEW s \in DOMAIN n.cur.obs
        PROVE  n.cur.obs[s].C = CodeOf(more, s) /\ n.cur.obs[s].L = PhaseOf(more, s)
    <3>1. CASE s \in DOMAIN m.obs
      <4>1. n.cur.obs[s] = PutSignal(Old(s), m.obs[s], f, m.kind = "range")
          BY <1>2, <3>1
      <4>2. n.cur.obs[s].C = (IF m.obs[s].code THEN Put(Old(s).C, f, m.kind = "range") ELSE Old(s).C)
            /\ n.cur.obs[s].L = Put(Old(s).L, f, m.kind = "range")
        <5> HIDE DEF Old
        <5>1. QED
            BY <4>1 DEF PutSignal
      <4>3. /\ CodeOf(more, s) = IF m.obs[s].code THEN Put(CodeOf(from, s), f, m.kind = "range")
                                 ELSE CodeOf(from, s)
            /\ PhaseOf(more, s) = Put(PhaseOf(from, s), f, m.kind = "range")
          BY <1>4, <3>1, ValuesAppend DEF more
      <4> HIDE DEF Old
      <4>4. QED
          BY <2>8, <4>2, <4>3
    <3>2. CASE s \notin DOMAIN m.obs
      <4>1. s \in DOMAIN o /\ n.cur.obs[s] = o[s]
          BY <1>2, <3>2
      <4>2. CodeOf(more, s) = CodeOf(from, s) /\ PhaseOf(more, s) = PhaseOf(from, s)
          BY <1>4, <3>2, ValuesAppend DEF more
      <4>3. QED
          BY <1>4, <4>1, <4>2
    <3>3. QED
        BY <3>1, <3>2
  <2>10. EpochOK(n.cur)
    <3>1. EpochShape(n.cur) /\ n.cur.t \in Nat /\ n.cur.from \in Seq(1 .. Len(Msgs))
        BY <1>1, <1>4, <2>1, <2>2
    <3>2. \A i \in 1 .. Len(n.cur.from) : IsObs(n.cur.from[i]) /\ Msgs[n.cur.from[i]].t = n.cur.t
        BY <2>2, <2>6
    <3>3. \A s : s \in DOMAIN n.cur.obs
                 <=> \E i \in 1 .. Len(n.cur.from) : s \in DOMAIN Msgs[n.cur.from[i]].obs
        BY <2>2, <2>7
    <3>4. \A s \in DOMAIN n.cur.obs : n.cur.obs[s].C = CodeOf(n.cur.from, s)
                                     /\ n.cur.obs[s].L = PhaseOf(n.cur.from, s)
        BY <2>2, <2>9
    <3>5. QED
        BY <3>1, <3>2, <3>3, <3>4 DEF EpochOK
  <2>11. QED
      BY <1>5, <2>10 DEF from
<1>8. QED
    BY <1>6, <1>7

\* An epoch has observations exactly when records were merged into it.
LEMMA HasObsIs ==
  ASSUME InputOK, NEW e, EpochOK(e)
  PROVE  /\ HasObs(e) <=> e.from # <<>>
         /\ e.from \in Seq(Nat) /\ (Len(e.from) = 0 <=> e.from = <<>>)
<1>1. e.from \in Seq(1 .. Len(Msgs)) /\ e.from \in Seq(Nat)
      /\ (Len(e.from) = 0 <=> e.from = <<>>) /\ Len(e.from) \in Nat
    BY DEF EpochOK
<1>2. ASSUME HasObs(e) PROVE e.from # <<>>
  <2>1. PICK s : s \in DOMAIN e.obs
      BY <1>2 DEF HasObs
  <2>2. PICK i \in 1 .. Len(e.from) : TRUE
      BY <2>1 DEF EpochOK
  <2>3. QED
      BY <1>1, <2>2
<1>3. ASSUME e.from # <<>> PROVE HasObs(e)
  <2>1. 1 \in 1 .. Len(e.from) /\ e.from[1] \in 1 .. Len(Msgs)
      BY <1>1, <1>3
  <2>2. IsObs(e.from[1])
      BY <2>1 DEF EpochOK
  <2>3. PICK s : s \in DOMAIN Msgs[e.from[1]].obs
      BY <2>1, <2>2, ObsOrNone DEF IsObs
  <2>4. s \in DOMAIN e.obs
      BY <2>1, <2>3 DEF EpochOK
  <2>5. QED
      BY <2>4 DEF HasObs
<1>4. QED
    BY <1>1, <1>2, <1>3

-----------------------------------------------------------------------------
(* One message parsed.                                                     *)

\* What waits in mPending is nothing, or one epoch that merges these records.
Waiting(l, from) ==
  \/ l.pending = {} /\ from = <<>>
  \/ \E e : l.pending = {e} /\ EpochOK(e) /\ HasObs(e) /\ from = e.from

\* The members of LogReader between two messages.
Settled(l) == LogShape(l) /\ EpochOK(l.cur) /\ l.cur.t = l.stamp

LEMMA NothingIsOK ==
  ASSUME InputOK, NEW t \in Nat, NEW e, e = [t |-> t, obs |-> <<>>, lli |-> <<>>, from |-> <<>>]
  PROVE  EpochOK(e) /\ e.from = <<>> /\ e.t = t
<1>1. /\ EpochShape(e) /\ e.t = t /\ e.obs = <<>> /\ e.from = <<>>
    BY DEF EpochShape
<1>2. DOMAIN <<>> = {} /\ <<>> \in Seq(1 .. Len(Msgs)) /\ Len(<<>>) = 0 /\ 1 .. 0 = {}
    OBVIOUS
<1>3. DOMAIN e.obs = {} /\ 1 .. Len(e.from) = {} /\ e.from \in Seq(1 .. Len(Msgs))
    BY <1>1, <1>2
<1>4. QED
    BY <1>1, <1>3 DEF EpochOK

\* beginEpoch before a record of time t.
BeginsFor(l, t, n) ==
  /\ Settled(n) /\ n.stamp = t
  /\ \E pend : Waiting(n, pend) /\ pend \o n.cur.from = l.cur.from

LEMMA BeginSettles ==
  ASSUME InputOK, NEW l, Settled(l), l.pending = {}, NEW t \in Nat, NEW n, n = BeginEpoch(l, t)
  PROVE  BeginsFor(l, t, n)
<1>1. LogShape(l) /\ EpochOK(l.cur) /\ l.cur.t = l.stamp
    BY DEF Settled
<1>2. /\ HasObs(l.cur) <=> l.cur.from # <<>>
      /\ <<>> \o l.cur.from = l.cur.from /\ l.cur.from \o <<>> = l.cur.from
    BY <1>1, HasObsIs
<1>3. CASE t = l.stamp
  <2>1. n = l
      BY <1>1, <1>3, BeginIs DEF Begun
  <2>2. Waiting(n, <<>>) /\ <<>> \o n.cur.from = l.cur.from
      BY <1>2, <2>1 DEF Waiting
  <2>3. QED
      BY <1>3, <2>1, <2>2 DEF BeginsFor, Settled
<1>4. CASE t # l.stamp
  <2>1. /\ LogShape(n) /\ n.stamp = t
        /\ n.pending = IF HasObs(l.cur) THEN {l.cur} ELSE l.pending
        /\ n.cur = [t |-> t, obs |-> <<>>, lli |-> <<>>, from |-> <<>>]
    <3>1. Begun(l, t, n)
        BY <1>1, BeginIs
    <3>2. QED
        BY <1>4, <3>1 DEF Begun
  <2>2. EpochOK(n.cur) /\ n.cur.from = <<>> /\ n.cur.t = t
      BY <2>1, NothingIsOK
  <2>3. Settled(n)
      BY <2>1, <2>2 DEF Settled
  <2>4. Waiting(n, l.cur.from)
    <3>1. CASE HasObs(l.cur)
        BY <1>1, <2>1, <3>1 DEF Waiting
    <3>2. CASE ~HasObs(l.cur)
        BY <1>2, <2>1, <3>2 DEF Waiting
    <3>3. QED
        BY <3>1, <3>2
  <2>5. l.cur.from \o n.cur.from = l.cur.from
      BY <1>2, <2>2
  <2>6. QED
      BY <2>1, <2>3, <2>4, <2>5 DEF BeginsFor
<1>5. QED
    BY <1>3, <1>4

\* emitObs merges the record and leaves the rest.
LEMMA EmitSettles ==
  ASSUME InputOK, NEW l, Settled(l), NEW f \in 1 .. Len(Msgs), IsRecord(Msgs[f]),
         Msgs[f].t = l.stamp, NEW n, n = EmitObs(l, f)
  PROVE  /\ Settled(n) /\ n.stamp = l.stamp /\ n.pending = l.pending
         /\ n.cur.from = IF IsObs(f) THEN Append(l.cur.from, f) ELSE l.cur.from
<1>1. LogShape(l) /\ EpochOK(l.cur) /\ EpochShape(l.cur) /\ l.cur.t = l.stamp
    BY DEF Settled, EpochOK
<1>2. Emitted(l, f, n)
    BY <1>1, EmitIs
<1>3. /\ LogShape(n) /\ n.stamp = l.stamp /\ n.pending = l.pending /\ n.cur.t = l.cur.t
    BY <1>2 DEF Emitted
<1>4. EpochOK(n.cur) /\ n.cur.from = IF IsObs(f) THEN Append(l.cur.from, f) ELSE l.cur.from
    BY <1>1, EmitKeepsEpoch
<1>5. QED
    BY <1>1, <1>3, <1>4 DEF Settled

\* storeEph touches the ephemerides alone.
LEMMA StoreSettles ==
  ASSUME NEW l, LogShape(l), NEW f, NEW n, n = StoreEph(l, f)
  PROVE  /\ LogShape(n) /\ n.cur = l.cur /\ n.pending = l.pending /\ n.stamp = l.stamp
         /\ n.prevLock = l.prevLock /\ n.curLock = l.curLock
<1>1. PICK e, p, st, pl, cl, ep : l = [cur |-> e, pending |-> p, stamp |-> st,
                                       prevLock |-> pl, curLock |-> cl, eph |-> ep]
    BY DEF LogShape
<1>2. PICK new : n = l \/ n = [l EXCEPT !.eph = new]
    BY DEF StoreEph
<1>3. PICK x : n = [cur |-> e, pending |-> p, stamp |-> st, prevLock |-> pl, curLock |-> cl,
                    eph |-> x]
    BY <1>1, <1>2
<1>4. QED
    BY <1>1, <1>3 DEF LogShape

LEMMA AppendIsCat ==
  ASSUME NEW s \in Seq(Nat), NEW m \in Nat
  PROVE  Append(s, m) = s \o <<m>>
<1> DEFINE u == s \o <<m>>
           w == Append(s, m)
<1>1. <<m>> \in Seq(Nat) /\ Len(<<m>>) = 1 /\ <<m>>[1] = m
    OBVIOUS
<1>2. u \in Seq(Nat) /\ Len(u) = Len(s) + 1
    BY <1>1, CatIs
<1>3. w \in Seq(Nat) /\ Len(w) = Len(s) + 1
    OBVIOUS
<1>4. ASSUME NEW i \in 1 .. Len(w) PROVE w[i] = u[i]
  <2>1. CASE i <= Len(s)
      BY <1>1, <1>2, <1>3, <2>1
  <2>2. CASE i = Len(s) + 1
      BY <1>1, <1>2, <1>3, <2>2
  <2>3. QED
      BY <1>3, <2>1, <2>2
<1> HIDE DEF u, w
<1>5. w = u
    BY <1>2, <1>3, <1>4, SameSeq
<1>6. QED
    BY <1>5 DEF u, w

LEMMA CatAppend ==
  ASSUME NEW s \in Seq(Nat), NEW t \in Seq(Nat), NEW m \in Nat
  PROVE  s \o Append(t, m) = Append(s \o t, m)
<1> DEFINE u == s \o Append(t, m)
           w == Append(s \o t, m)
<1>1. Append(t, m) \in Seq(Nat) /\ Len(Append(t, m)) = Len(t) + 1
    OBVIOUS
<1>2. u \in Seq(Nat) /\ Len(u) = Len(s) + (Len(t) + 1)
    BY <1>1, CatIs
<1>3. (s \o t) \in Seq(Nat) /\ Len(s \o t) = Len(s) + Len(t)
    BY CatIs
<1>4. w \in Seq(Nat) /\ Len(w) = (Len(s) + Len(t)) + 1
    BY <1>3
<1>5. Len(u) = Len(w)
    BY <1>2, <1>4
<1>6. ASSUME NEW i \in 1 .. Len(u) PROVE u[i] = w[i]
  <2>1. CASE i <= Len(s)
      BY <1>1, <1>2, <1>3, <2>1
  <2>2. CASE i > Len(s) /\ i <= Len(s) + Len(t)
      BY <1>1, <1>2, <1>3, <2>2
  <2>3. CASE i > Len(s) + Len(t)
      BY <1>1, <1>2, <1>3, <2>3
  <2>4. QED
      BY <1>2, <2>1, <2>2, <2>3
<1> HIDE DEF u, w
<1>7. u = w
    BY <1>2, <1>4, <1>5, <1>6, SameSeq
<1>8. QED
    BY <1>7 DEF u, w

OneIf(f) == IF IsObs(f) THEN <<f>> ELSE <<>>

\* What waits and is collected in n are the records collected in l, and message f.
Absorbs(l, n, f) ==
  \E pend : Waiting(n, pend) /\ pend \o n.cur.from = l.cur.from \o OneIf(f)

\* One message parsed while nothing waits: the record joins the current epoch,
\* which begins anew when the time stamp has changed.
LEMMA ParseSettles ==
  ASSUME InputOK, NEW l, Settled(l), l.pending = {}, NEW f \in 1 .. Bad, NEW n, n = Parse(l, f)
  PROVE  Settled(n) /\ Absorbs(l, n, f)
<1> USE DEF Absorbs
<1>1. LogShape(l) /\ EpochOK(l.cur) /\ l.cur.from \in Seq(Nat)
    BY HasObsIs DEF Settled
<1>2. ASSUME LogShape(n), n.cur = l.cur, n.pending = {}, n.stamp = l.stamp, ~IsObs(f)
      PROVE  Settled(n) /\ \E pend : Waiting(n, pend) /\ pend \o n.cur.from = l.cur.from \o OneIf(f)
  <2>1. Settled(n)
      BY <1>2 DEF Settled
  <2>2. Waiting(n, <<>>)
      BY <1>2 DEF Waiting
  <2>3. <<>> \o n.cur.from = l.cur.from \o OneIf(f)
      BY <1>1, <1>2 DEF OneIf
  <2>4. QED
      BY <2>1, <2>2, <2>3
<1>3. CASE f = Bad
  <2>1. n = l /\ ~IsObs(f)
      BY <1>3 DEF Parse, IsObs
  <2>2. QED
      BY <1>1, <1>2, <1>3, <2>1
<1>4. CASE f # Bad /\ ~IsRecord(Msgs[f])
  <2>1. ~IsObs(f)
      BY <1>4 DEF IsObs
  <2>2. n = StoreEph(l, f) \/ n = l
      BY <1>4 DEF Parse
  <2>3. LogShape(n) /\ n.cur = l.cur /\ n.pending = {} /\ n.stamp = l.stamp
    <3>1. CASE n = StoreEph(l, f)
        BY <1>1, <3>1, StoreSettles
    <3>2. QED
        BY <1>1, <2>2, <3>1
  <2>4. QED
      BY <1>2, <1>4, <2>1, <2>3
<1>5. CASE f # Bad /\ IsRecord(Msgs[f])
  <2>1. f \in 1 .. Len(Msgs) /\ Msgs[f].t \in Nat /\ f \in Nat
    <3>1. f \in 1 .. Len(Msgs) /\ f \in Nat
      <4>1. Len(Msgs) \in Nat /\ Bad = Len(Msgs) + 1 /\ f # Bad
          BY <1>5 DEF InputOK
      <4> HIDE DEF Bad
      <4>2. QED
          BY <4>1
    <3>2. QED
        BY <1>5, <3>1 DEF InputOK
  <2>2. PICK b : b = BeginEpoch(l, Msgs[f].t)
      OBVIOUS
  <2>3. BeginsFor(l, Msgs[f].t, b)
      BY <2>1, <2>2, BeginSettles
  <2>4. PICK pend : Waiting(b, pend) /\ pend \o b.cur.from = l.cur.from
      BY <2>3 DEF BeginsFor
  <2>20. Settled(b) /\ b.stamp = Msgs[f].t
      BY <2>3 DEF BeginsFor
  <2>5. n = EmitObs(b, f)
    <3>1. Parse(l, f) = EmitObs(BeginEpoch(l, Msgs[f].t), f)
        BY <1>5 DEF Parse
    <3>2. QED
        BY <2>2, <3>1
  <2>6. /\ Settled(n) /\ n.stamp = b.stamp /\ n.pending = b.pending
        /\ n.cur.from = IF IsObs(f) THEN Append(b.cur.from, f) ELSE b.cur.from
      BY <1>5, <2>1, <2>20, <2>5, EmitSettles
  <2>7. Waiting(n, pend)
      BY <2>4, <2>6 DEF Waiting
  <2>8. pend \in Seq(Nat) /\ b.cur.from \in Seq(Nat)
    <3>1. b.cur.from \in Seq(Nat)
      <4>1. EpochOK(b.cur)
          BY <2>20 DEF Settled
      <4>2. QED
          BY <4>1, HasObsIs
    <3>2. pend \in Seq(Nat)
      <4>1. CASE pend = <<>>
          BY <4>1
      <4>2. ASSUME NEW e, EpochOK(e), pend = e.from PROVE pend \in Seq(Nat)
          BY <4>2, HasObsIs
      <4>3. QED
          BY <2>4, <4>1, <4>2 DEF Waiting
    <3>3. QED
        BY <3>1, <3>2
  <2>9. pend \o n.cur.from = l.cur.from \o OneIf(f)
    <3>1. CASE IsObs(f)
      <4>1. n.cur.from = Append(b.cur.from, f) /\ OneIf(f) = <<f>>
          BY <2>6, <3>1 DEF OneIf
      <4>2. pend \o Append(b.cur.from, f) = Append(pend \o b.cur.from, f)
          BY <2>1, <2>8, CatAppend
      <4>3. Append(l.cur.from, f) = l.cur.from \o <<f>>
          BY <1>1, <2>1, AppendIsCat
      <4>4. QED
          BY <2>4, <4>1, <4>2, <4>3
    <3>2. CASE ~IsObs(f)
      <4>1. n.cur.from = b.cur.from /\ OneIf(f) = <<>>
          BY <2>6, <3>2 DEF OneIf
      <4>2. QED
          BY <1>1, <2>4, <4>1
    <3>3. QED
        BY <3>1, <3>2
  <2>10. QED
      BY <1>5, <2>20, <2>6, <2>7, <2>9
<1>6. QED
    BY <1>3, <1>4, <1>5

-----------------------------------------------------------------------------
(* What was read is delivered, waits, or is being collected.               *)

LEMMA CatCat ==
  ASSUME NEW a \in Seq(Nat), NEW b \in Seq(Nat), NEW c \in Seq(Nat)
  PROVE  (a \o b) \o c = a \o (b \o c)
<1> DEFINE u == (a \o b) \o c
           w == a \o (b \o c)
<1>1. (a \o b) \in Seq(Nat) /\ Len(a \o b) = Len(a) + Len(b)
    BY CatIs
<1>2. (b \o c) \in Seq(Nat) /\ Len(b \o c) = Len(b) + Len(c)
    BY CatIs
<1>3. u \in Seq(Nat) /\ Len(u) = (Len(a) + Len(b)) + Len(c)
    BY <1>1, CatIs
<1>4. w \in Seq(Nat) /\ Len(w) = Len(a) + (Len(b) + Len(c))
    BY <1>2, CatIs
<1>5. Len(u) = Len(w)
    BY <1>3, <1>4
<1>6. ASSUME NEW i \in 1 .. Len(u) PROVE u[i] = w[i]
  <2>1. CASE i <= Len(a)
      BY <1>1, <1>2, <1>3, <2>1
  <2>2. CASE i > Len(a) /\ i <= Len(a) + Len(b)
      BY <1>1, <1>2, <1>3, <2>2
  <2>3. CASE i > Len(a) + Len(b)
    <3>1. u[i] = c[i - (Len(a) + Len(b))]
        BY <1>1, <1>3, <2>3
    <3>2. w[i] = (b \o c)[i - Len(a)]
        BY <1>2, <1>3, <2>3
    <3>3. (b \o c)[i - Len(a)] = c[(i - Len(a)) - Len(b)]
        BY <1>2, <1>3, <2>3
    <3>4. (i - Len(a)) - Len(b) = i - (Len(a) + Len(b))
        BY <1>3
    <3>5. QED
        BY <3>1, <3>2, <3>3, <3>4
  <2>4. QED
      BY <1>3, <2>1, <2>2, <2>3
<1> HIDE DEF u, w
<1>7. u = w
    BY <1>3, <1>4, <1>5, <1>6, SameSeq
<1>8. QED
    BY <1>7 DEF u, w

\* The epochs handed out so far are good ones.
Given(d) == \E E : d \in Seq(E) /\ \A e \in E : EpochOK(e)

\* The records read are those of the epochs handed out, of the epoch that waits and
\* of the one being collected.
Flows(d, l, m) ==
  \E pend : Waiting(l, pend) /\ Merged(d) \o (pend \o l.cur.from) = ObsOf(m)

LEMMA GivenAppend ==
  ASSUME InputOK, NEW d, Given(d), NEW e, EpochOK(e)
  PROVE  /\ Given(Append(d, e)) /\ Merged(d) \in Seq(Nat)
         /\ Merged(Append(d, e)) = Merged(d) \o e.from
<1>1. PICK E : d \in Seq(E) /\ \A x \in E : EpochOK(x)
    BY DEF Given
<1> DEFINE F == E \cup {e}
<1>2. \A x \in F : EpochOK(x) /\ x.from \in Seq(Nat)
    BY <1>1, HasObsIs
<1>3. d \in Seq(F) /\ e \in F
    BY <1>1
<1> HIDE DEF F
<1>4. Append(d, e) \in Seq(F)
    BY <1>3
<1>5. Merged(Append(d, e)) = Merged(d) \o e.from
    BY <1>2, <1>3, MergedAppend
<1>6. Merged(d) \in Seq(Nat)
    BY <1>2, <1>3, MergedType
<1>7. QED
    BY <1>2, <1>4, <1>5, <1>6 DEF Given

\* The epoch that waits is handed out.
LEMMA HandFlows ==
  ASSUME InputOK, NEW d, NEW l, NEW m, Settled(l), Given(d), Flows(d, l, m),
         NEW e \in l.pending, NEW n, n = [l EXCEPT !.pending = {}]
  PROVE  /\ EpochOK(e) /\ Settled(n) /\ Given(Append(d, e)) /\ Flows(Append(d, e), n, m)
         /\ n.pending = {} /\ n.cur = l.cur
<1>1. LogShape(l) /\ EpochOK(l.cur) /\ l.cur.t = l.stamp
    BY DEF Settled
<1>2. n.cur = l.cur /\ n.pending = {} /\ n.stamp = l.stamp /\ LogShape(n)
    BY <1>1 DEF LogShape
<1>3. Settled(n) /\ Waiting(n, <<>>)
    BY <1>1, <1>2 DEF Settled, Waiting
<1>4. PICK pend : Waiting(l, pend) /\ Merged(d) \o (pend \o l.cur.from) = ObsOf(m)
    BY DEF Flows
<1>5. EpochOK(e) /\ pend = e.from
    BY <1>4 DEF Waiting
<1>6. Given(Append(d, e)) /\ Merged(d) \in Seq(Nat) /\ Merged(Append(d, e)) = Merged(d) \o e.from
    BY <1>5, GivenAppend
<1>7. e.from \in Seq(Nat)
    BY <1>5, HasObsIs
<1>8. l.cur.from \in Seq(Nat)
    BY <1>1, HasObsIs
<1>9. Merged(Append(d, e)) \o (<<>> \o n.cur.from) = ObsOf(m)
  <2>1. <<>> \o n.cur.from = l.cur.from
      BY <1>2, <1>8
  <2>2. (Merged(d) \o e.from) \o l.cur.from = Merged(d) \o (e.from \o l.cur.from)
      BY <1>6, <1>7, <1>8, CatCat
  <2>3. QED
      BY <1>4, <1>5, <1>6, <2>1, <2>2
<1>10. Flows(Append(d, e), n, m)
    BY <1>3, <1>9 DEF Flows
<1>11. QED
    BY <1>2, <1>3, <1>5, <1>6, <1>10

\* A drained reader hands out what it has collected.
LEMMA CurFlows ==
  ASSUME InputOK, NEW d, NEW l, NEW m, Settled(l), Given(d), Flows(d, l, m), l.pending = {},
         NEW n, n = [l EXCEPT !.cur = [EmptyObs EXCEPT !.t = l.cur.t]]
  PROVE  /\ EpochOK(l.cur) /\ Settled(n) /\ Given(Append(d, l.cur)) /\ Flows(Append(d, l.cur), n, m)
         /\ n.pending = {} /\ n.cur.from = <<>> /\ n.cur.t = l.cur.t
<1>1. LogShape(l) /\ EpochOK(l.cur) /\ l.cur.t = l.stamp /\ l.cur.t \in Nat
    BY DEF Settled, EpochOK
<1>2. PICK t : t = l.cur.t
    OBVIOUS
<1>3. [EmptyObs EXCEPT !.t = t] = [t |-> t, obs |-> <<>>, lli |-> <<>>, from |-> <<>>]
    BY DEF EmptyObs
<1>4. n.cur = [t |-> t, obs |-> <<>>, lli |-> <<>>, from |-> <<>>] /\ n.pending = {}
      /\ n.stamp = l.stamp /\ LogShape(n)
  <2>1. PICK c : c = [t |-> t, obs |-> <<>>, lli |-> <<>>, from |-> <<>>]
      OBVIOUS
  <2>2. n = [l EXCEPT !.cur = c]
      BY <1>2, <1>3, <2>1
  <2>3. QED
      BY <1>1, <2>1, <2>2 DEF LogShape
<1>5. EpochOK(n.cur) /\ n.cur.from = <<>> /\ n.cur.t = t
    BY <1>1, <1>2, <1>4, NothingIsOK
<1>6. Settled(n) /\ Waiting(n, <<>>)
    BY <1>1, <1>2, <1>4, <1>5 DEF Settled, Waiting
<1>7. PICK pend : Waiting(l, pend) /\ Merged(d) \o (pend \o l.cur.from) = ObsOf(m)
    BY DEF Flows
<1>8. pend = <<>>
    BY <1>7 DEF Waiting
<1>9. /\ Given(Append(d, l.cur)) /\ Merged(d) \in Seq(Nat)
      /\ Merged(Append(d, l.cur)) = Merged(d) \o l.cur.from
    BY <1>1, GivenAppend
<1>10. l.cur.from \in Seq(Nat)
    BY <1>1, HasObsIs
<1>11. Merged(Append(d, l.cur)) \o (<<>> \o n.cur.from) = ObsOf(m)
  <2>1. <<>> \o n.cur.from = <<>>
      BY <1>5
  <2>2. (Merged(d) \o l.cur.from) \in Seq(Nat)
      BY <1>9, <1>10, CatIs
  <2>3. (Merged(d) \o l.cur.from) \o <<>> = Merged(d) \o l.cur.from
      BY <2>2
  <2>4. <<>> \o l.cur.from = l.cur.from
      BY <1>10
  <2>5. QED
      BY <1>7, <1>8, <1>9, <2>1, <2>3, <2>4
<1>12. Flows(Append(d, l.cur), n, m)
    BY <1>6, <1>11 DEF Flows
<1>13. QED
    BY <1>1, <1>2, <1>4, <1>5, <1>6, <1>9, <1>12

\* A message is read and parsed.
LEMMA ParseFlows ==
  ASSUME InputOK, NEW d, NEW l, NEW m \in Seq(Nat), Settled(l), Given(d), Flows(d, l, m),
         l.pending = {}, NEW f \in 1 .. Bad, NEW n, n = Parse(l, f)
  PROVE  Settled(n) /\ Flows(d, n, Append(m, f))
<1>1. Settled(n) /\ Absorbs(l, n, f)
    BY ParseSettles
<1>2. PICK pend : Waiting(n, pend) /\ pend \o n.cur.from = l.cur.from \o OneIf(f)
    BY <1>1 DEF Absorbs
<1>3. PICK none : Waiting(l, none) /\ Merged(d) \o (none \o l.cur.from) = ObsOf(m)
    BY DEF Flows
<1>4. none = <<>>
    BY <1>3 DEF Waiting
<1>5. l.cur.from \in Seq(Nat)
    BY HasObsIs DEF Settled
<1>6. f \in Nat /\ OneIf(f) \in Seq(Nat)
  <2>1. f \in Nat
      BY DEF InputOK
  <2>2. QED
      BY <2>1 DEF OneIf
<1>7. Merged(d) \in Seq(Nat)
  <2>1. PICK E : d \in Seq(E) /\ \A x \in E : EpochOK(x)
      BY DEF Given
  <2>2. \A x \in E : x.from \in Seq(Nat)
      BY <2>1, HasObsIs
  <2>3. QED
      BY <2>1, <2>2, MergedType
<1>8. Merged(d) \o (pend \o n.cur.from) = ObsOf(m) \o OneIf(f)
  <2>1. <<>> \o l.cur.from = l.cur.from
      BY <1>5
  <2>2. (Merged(d) \o l.cur.from) \o OneIf(f) = Merged(d) \o (l.cur.from \o OneIf(f))
      BY <1>5, <1>6, <1>7, CatCat
  <2>3. QED
      BY <1>2, <1>3, <1>4, <2>1, <2>2
<1>9. ObsOf(m) \o OneIf(f) = ObsOf(Append(m, f))
  <2>1. ObsOf(m) \in Seq(Nat)
      BY ObsType
  <2>2. ObsOf(Append(m, f)) = IF IsObs(f) THEN Append(ObsOf(m), f) ELSE ObsOf(m)
      BY <1>6, ObsAppend
  <2>3. Append(ObsOf(m), f) = ObsOf(m) \o <<f>> /\ ObsOf(m) \o <<>> = ObsOf(m)
      BY <1>6, <2>1, AppendIsCat
  <2>4. QED
      BY <2>2, <2>3 DEF OneIf
<1>10. QED
    BY <1>1, <1>2, <1>8, <1>9 DEF Flows

-----------------------------------------------------------------------------
(* The invariant of a run, and that every step keeps it.                   *)

LEMMA SameLog ==
  ASSUME UNCHANGED input
  PROVE  /\ InputOK' = InputOK /\ Bad' = Bad /\ Msgs' = Msgs
         /\ \A f : IsObs(f)' = IsObs(f)
         /\ \A e : EpochOK(e)' = EpochOK(e)
         /\ \A l : Settled(l)' = Settled(l)
         /\ \A d : Given(d)' = Given(d)
         /\ \A d, l, m : Flows(d, l, m)' = Flows(d, l, m)
<1>1. InputOK' = InputOK /\ Bad' = Bad /\ Msgs' = Msgs
    BY DEF InputOK, Bad, Msgs
<1>2. ASSUME NEW f PROVE IsObs(f)' = IsObs(f)
    BY <1>1 DEF IsObs
<1>3. ASSUME NEW from, NEW s PROVE CodeOf(from, s)' = CodeOf(from, s) /\ PhaseOf(from, s)' = PhaseOf(from, s)
    BY <1>1 DEF CodeOf, PhaseOf, With, WithCode
<1>4. ASSUME NEW e PROVE EpochOK(e)' = EpochOK(e)
    BY <1>1, <1>2, <1>3 DEF EpochOK
<1>5. ASSUME NEW l PROVE Settled(l)' = Settled(l)
    BY <1>4 DEF Settled
<1>6. ASSUME NEW d PROVE Given(d)' = Given(d)
    BY <1>4 DEF Given
<1>7. ASSUME NEW m PROVE ObsOf(m)' = ObsOf(m)
    BY <1>2 DEF ObsOf
<1>8. ASSUME NEW d, NEW l, NEW m PROVE Flows(d, l, m)' = Flows(d, l, m)
    BY <1>4, <1>7 DEF Flows, Waiting
<1>9. QED
    BY <1>1, <1>2, <1>4, <1>5, <1>6, <1>8

LogOK ==
  /\ Settled(log) /\ Given(delivered) /\ Flows(delivered, log, got)
  /\ ended => log.pending = {} /\ log.cur.from = <<>>

\* What LogOK says of the next state, in terms of the records it holds.
NextLog(d, l, m, z) ==
  /\ Settled(l) /\ Given(d) /\ Flows(d, l, m) /\ (z => l.pending = {} /\ l.cur.from = <<>>)

LEMMA LogCarries ==
  ASSUME UNCHANGED input, NEW d, NEW l, NEW m, NEW z, NextLog(d, l, m, z),
         delivered' = d, log' = l, got' = m, ended' = z
  PROVE  LogOK'
BY SameLog DEF NextLog, LogOK

Reading == ReadOK /\ FoundOK /\ LogOK

LEMMA StutterKeeps ==
  ASSUME Reading, UNCHANGED <<input, arrived, connected, buffer, bufferIndex, drained, got, ended>>
  PROVE  ReadOK' /\ FoundOK' /\ Here' = Here
<1>1. Here' = Here /\ Socket' = Socket /\ InputOK' = InputOK /\ Bad' = Bad
      /\ (\A x, f : Sent(x, f)' = Sent(x, f))
      /\ (\A c, j : FramesFrom(c, j)' = FramesFrom(c, j))
      /\ (\A m : First(m)' = First(m))
    BY SameInput, SameLog DEF Here, Socket, Sent, First
<1>2. BinaryScan(buffer, bufferIndex)' = BinaryScan(buffer, bufferIndex)
    BY SameInput
<1>3. ReadOK'
    BY <1>1, <1>2 DEF ReadOK, Reading
<1>4. FoundOK'
    BY <1>1 DEF FoundOK, Reading
<1>5. QED
    BY <1>1, <1>3, <1>4

LEMMA HandPendingKeeps ==
  ASSUME Reading, HandPending
  PROVE  Reading'
<1>1. PICK e \in log.pending : delivered' = Append(delivered, e)
    BY DEF HandPending
<1>2. /\ UNCHANGED <<input, arrived, connected, buffer, bufferIndex, drained, got, ended>>
      /\ log' = [log EXCEPT !.pending = {}] /\ ~ended
    BY DEF HandPending, NoPending
<1>3. PICK n : n = [log EXCEPT !.pending = {}]
    OBVIOUS
<1>4. PICK d : d = Append(delivered, e)
    OBVIOUS
<1>5. InputOK /\ Settled(log) /\ Given(delivered) /\ Flows(delivered, log, got)
    BY DEF Reading, ReadOK, LogOK
<1>6. Settled(n) /\ Given(d) /\ Flows(d, n, got)
    BY <1>3, <1>4, <1>5, HandFlows
<1>7. NextLog(d, n, got, FALSE)
    BY <1>6 DEF NextLog
<1>8. LogOK'
  <2>1. UNCHANGED input /\ delivered' = d /\ log' = n /\ got' = got /\ ended' = FALSE
      BY <1>1, <1>2, <1>3, <1>4, StutterKeeps DEF Reading, ReadOK
  <2>2. QED
      BY <1>7, <2>1, LogCarries
<1>9. QED
    BY <1>2, <1>8, StutterKeeps DEF Reading

LEMMA ReadMessageKeeps ==
  ASSUME Reading, NEW k \in 0 .. Left, ReadMessage(k)
  PROVE  Reading'
<1>1. PICK r : r = Scan(Filled(k), bufferIndex)
    OBVIOUS
<1>2. /\ r.msg # 0 /\ buffer' = r.buf /\ bufferIndex' = r.idx /\ log' = Parse(log, r.msg)
      /\ got' = Append(got, r.msg) /\ drained' = FALSE /\ ~ended /\ log.pending = {}
      /\ UNCHANGED <<input, delivered, ended>> /\ arrived' = arrived + k
      /\ connected' \in {FALSE, connected}
    BY <1>1 DEF ReadMessage, Receive, NoPending
<1>3. ScanStep(k, r)
    BY <1>1, <1>2 DEF ScanStep
<1>4. connected' \in BOOLEAN /\ ended' \in BOOLEAN /\ ReadOK
    BY <1>2 DEF Reading, ReadOK
<1>5. ReadOK' /\ r.msg \in 1 .. Bad
    BY <1>2, <1>3, <1>4, ScanStepKeeps
<1>6. FoundOK'
    BY <1>3, ScanStepFinds DEF Reading
<1>7. LogOK'
  <2>1. PICK n : n = Parse(log, r.msg)
      OBVIOUS
  <2>2. PICK m : m = Append(got, r.msg)
      OBVIOUS
  <2>3. InputOK /\ Settled(log) /\ Given(delivered) /\ Flows(delivered, log, got)
      BY DEF Reading, ReadOK, LogOK
  <2>4. got \in Seq(Nat)
    <3>1. got \in Seq(1 .. Bad) /\ Bad \in Nat
        BY <1>4, <2>3 DEF ReadOK, InputOK
    <3>2. QED
        BY <3>1
  <2>5. Settled(n) /\ Flows(delivered, n, m)
      BY <1>2, <1>5, <2>1, <2>2, <2>3, <2>4, ParseFlows
  <2>6. NextLog(delivered, n, m, FALSE)
      BY <2>3, <2>5 DEF NextLog
  <2>7. UNCHANGED input /\ delivered' = delivered /\ log' = n /\ got' = m /\ ended' = FALSE
      BY <1>2, <1>4, <2>1, <2>2 DEF ReadOK
  <2>8. QED
      BY <2>6, <2>7, LogCarries
<1>8. QED
    BY <1>5, <1>6, <1>7 DEF Reading

LEMMA FindNothingKeeps ==
  ASSUME Reading, NEW k \in 0 .. Left, FindNothing(k)
  PROVE  Reading'
<1>1. PICK r : r = Scan(Filled(k), bufferIndex)
    OBVIOUS
<1>2. /\ r.msg = 0 /\ buffer' = r.buf /\ bufferIndex' = r.idx
      /\ got' = got /\ drained' = TRUE /\ ~ended /\ log.pending = {}
      /\ UNCHANGED <<input>> /\ arrived' = arrived + k
      /\ connected' \in {FALSE, connected}
      /\ IF HasObs(log.cur)
         THEN /\ delivered' = Append(delivered, log.cur) /\ ended' = FALSE
              /\ log' = [log EXCEPT !.cur = [EmptyObs EXCEPT !.t = log.cur.t]]
         ELSE ended' = (~connected' \/ input.reader = "binary") /\ UNCHANGED <<delivered, log>>
    BY <1>1 DEF FindNothing, Receive, NoPending
<1>3. ScanStep(k, r)
    BY <1>1, <1>2 DEF ScanStep
<1>4. connected' \in BOOLEAN /\ ReadOK
    BY <1>2 DEF Reading, ReadOK
<1>5. ended' \in BOOLEAN
    BY <1>2, <1>4
<1>6. ReadOK'
    BY <1>3, <1>4, <1>5, ScanStepKeeps
<1>7. FoundOK'
    BY <1>3, ScanStepFinds DEF Reading
<1>8. LogOK'
  <2>1. InputOK /\ Settled(log) /\ Given(delivered) /\ Flows(delivered, log, got)
      BY DEF Reading, ReadOK, LogOK
  <2>2. CASE HasObs(log.cur)
    <3>1. PICK n : n = [log EXCEPT !.cur = [EmptyObs EXCEPT !.t = log.cur.t]]
        OBVIOUS
    <3>2. PICK d : d = Append(delivered, log.cur)
        OBVIOUS
    <3>3. Settled(n) /\ Given(d) /\ Flows(d, n, got)
        BY <1>2, <2>1, <3>1, <3>2, CurFlows
    <3>4. NextLog(d, n, got, FALSE)
        BY <3>3 DEF NextLog
    <3>5. UNCHANGED input /\ delivered' = d /\ log' = n /\ got' = got /\ ended' = FALSE
        BY <1>2, <2>2, <3>1, <3>2
    <3>6. QED
        BY <3>4, <3>5, LogCarries
  <2>3. CASE ~HasObs(log.cur)
    <3>1. log.cur.from = <<>>
        BY <2>1, <2>3, HasObsIs DEF Settled
    <3>2. PICK z : z = ended'
        OBVIOUS
    <3>3. NextLog(delivered, log, got, z)
        BY <1>2, <2>1, <3>1 DEF NextLog
    <3>4. UNCHANGED input /\ delivered' = delivered /\ log' = log /\ got' = got /\ ended' = z
        BY <1>2, <2>3, <3>2
    <3>5. QED
        BY <3>3, <3>4, LogCarries
  <2>4. QED
      BY <2>2, <2>3
<1>9. QED
    BY <1>6, <1>7, <1>8 DEF Reading

LEMMA StepKeeps ==
  ASSUME Reading, [LogsNext]_logsVars
  PROVE  Reading'
<1>1. CASE HandPending
    BY <1>1, HandPendingKeeps
<1>2. ASSUME NEW k \in 0 .. Left, ReadMessage(k) PROVE Reading'
    BY <1>2, ReadMessageKeeps
<1>3. ASSUME NEW k \in 0 .. Left, FindNothing(k) PROVE Reading'
    BY <1>3, FindNothingKeeps
<1>4. CASE UNCHANGED logsVars
  <2>1. ReadOK' /\ FoundOK'
      BY <1>4, StutterKeeps DEF logsVars
  <2>2. NextLog(delivered, log, got, ended)
      BY DEF Reading, LogOK, NextLog
  <2>3. LogOK'
      BY <1>4, <2>2, LogCarries DEF logsVars
  <2>4. QED
      BY <2>1, <2>3 DEF Reading
<1>5. QED
    BY <1>1, <1>2, <1>3, <1>4 DEF LogsNext

LEMMA StartsReading ==
  ASSUME LogsInit
  PROVE  Reading
<1>1. PICK in \in Inputs : LogsStart(in)
    BY DEF LogsInit
<1>2. /\ input = in /\ connected = TRUE /\ bufferIndex = 0 /\ drained = FALSE
      /\ arrived = (IF input.reader = "socket" THEN 0 ELSE Len(input.cells))
      /\ buffer = (IF input.reader = "socket" THEN <<>> ELSE input.cells)
      /\ log = LogInit /\ got = <<>> /\ delivered = <<>> /\ ended = FALSE
    BY <1>1 DEF LogsStart
<1>3. InputOK /\ input.cells \in Seq(LogsCells) /\ Len(input.cells) \in Nat
    BY <1>2, InputIs DEF InputOK
<1>4. Holds(input.cells, arrived, buffer, bufferIndex) /\ Here = 0
  <2>1. CASE Socket
    <3>1. arrived = 0 /\ buffer = <<>> /\ Len(buffer) = 0
        BY <1>2, <2>1 DEF Socket
    <3>2. Shows(input.cells, 0, 0, buffer)
        BY <1>3, <3>1 DEF Shows
    <3>3. QED
        BY <1>2, <3>1, <3>2 DEF Holds, Here, Place
  <2>2. CASE ~Socket
    <3>1. arrived = Len(input.cells) /\ buffer = input.cells
        BY <1>2, <2>2 DEF Socket
    <3>2. Shows(input.cells, 0, Len(buffer), buffer) /\ Len(buffer) = arrived /\ arrived \in Nat
        BY <1>3, <3>1 DEF Shows
    <3>3. arrived - arrived = 0
        BY <3>2
    <3>4. QED
        BY <1>2, <3>2, <3>3 DEF Holds, Here, Place
  <2>3. QED
      BY <2>1, <2>2
<1>5. ReadOK
  <2>1. arrived \in 0 .. Len(input.cells) /\ (~Socket => arrived = Len(input.cells))
      BY <1>2, <1>3 DEF Socket
  <2>2. got \in Seq(1 .. Bad) /\ Len(got) = 0
      BY <1>2
  <2>3. connected \in BOOLEAN /\ drained \in BOOLEAN /\ ended \in BOOLEAN /\ ~drained
      BY <1>2
  <2>4. QED
      BY <1>3, <1>4, <2>1, <2>2, <2>3 DEF ReadOK
<1>6. FoundOK
  <2>1. ASSUME Socket, NEW m \in arrived .. Len(input.cells)
        PROVE  FramesFrom(First(m), 0) = got \o FramesFrom(First(m), Here)
    <3>1. First(m) \in Seq(LogsCells) /\ 0 \in 0 .. Len(First(m))
      <4>1. m \in Nat /\ m <= Len(input.cells)
          BY <1>2, <1>3, <2>1 DEF Socket
      <4>2. QED
          BY <1>3, <4>1 DEF First
    <3>2. FramesFrom(First(m), 0) \in Seq(Nat)
        BY <3>1, FramesType
    <3>3. <<>> \o FramesFrom(First(m), 0) = FramesFrom(First(m), 0)
        BY <3>2
    <3>4. QED
        BY <1>2, <1>4, <3>3
  <2>2. QED
      BY <1>2, <2>1 DEF FoundOK
<1>7. LogOK
  <2>1. LogShape(LogInit)
      BY DEF LogInit, LogShape
  <2>2. /\ LogInit.cur = [t |-> 0, obs |-> <<>>, lli |-> <<>>, from |-> <<>>]
        /\ LogInit.pending = {} /\ LogInit.stamp = 0
      BY DEF LogInit, EmptyObs, NoStamp, NoPending
  <2>3. EpochOK(LogInit.cur) /\ LogInit.cur.from = <<>> /\ LogInit.cur.t = 0
      BY <1>3, <2>2, NothingIsOK
  <2>4. Settled(log) /\ Waiting(log, <<>>)
      BY <1>2, <2>1, <2>2, <2>3 DEF Settled, Waiting
  <2>5. delivered \in Seq({}) /\ <<>> \in Seq(Nat)
      BY <1>2
  <2>6. Given(delivered)
      BY <2>5 DEF Given
  <2>7. Merged(<<>>) = <<>>
    <3>1. PICK E : E = {}
        OBVIOUS
    <3>2. PICK d \in Seq(E) : d = <<>> /\ Len(d) = 0
        BY <2>5, <3>1
    <3>3. \A e \in E : e.from \in Seq(Nat)
        BY <3>1
    <3>4. PICK g : MergedUpto(d, g) /\ Merged(d) = g[Len(d)]
        BY <3>3, MergedIs
    <3>5. QED
        BY <3>2, <3>4 DEF MergedUpto
  <2>8. ObsOf(<<>>) = <<>>
    <3>1. PICK g : ObsUpto(<<>>, g) /\ ObsOf(<<>>) = g[Len(<<>>)]
        BY <2>5, ObsIs
    <3>2. QED
        BY <3>1 DEF ObsUpto
  <2>9. Merged(delivered) \o (<<>> \o log.cur.from) = ObsOf(got)
    <3>1. <<>> \o (<<>> \o <<>>) = <<>>
        BY <2>5
    <3>2. QED
        BY <1>2, <2>3, <2>7, <2>8, <3>1
  <2>10. QED
      BY <1>2, <2>4, <2>6, <2>9 DEF LogOK, Flows
<1>8. QED
    BY <1>5, <1>6, <1>7 DEF Reading

LEMMA ReadingDelivers ==
  ASSUME Reading
  PROVE  LogIsDelivered /\ RangeBeforeCompressed
<1>1. ReadOK /\ FoundOK /\ LogOK /\ InputOK
    BY DEF Reading, ReadOK
<1>2. ChunksDoNotMatter
  <2>1. SUFFICES ASSUME drained, Socket PROVE got = FramesOf(First(arrived))
      BY DEF ChunksDoNotMatter, Socket, First
  <2>2. arrived \in arrived .. Len(input.cells) /\ got \in Seq(1 .. Bad)
      BY <1>1 DEF ReadOK, InputOK
  <2>3. FramesFrom(First(arrived), 0) = got \o FramesFrom(First(arrived), Here)
        /\ FramesFrom(First(arrived), Here) = <<>>
      BY <1>1, <2>1, <2>2 DEF FoundOK
  <2>4. got \o <<>> = got
      BY <2>2
  <2>5. QED
      BY <2>3, <2>4 DEF FramesOf
<1>3. NoRecordLost
  <2>1. SUFFICES ASSUME ended PROVE Merged(delivered) = ObsOf(got)
      BY DEF NoRecordLost
  <2>2. PICK pend : Waiting(log, pend) /\ Merged(delivered) \o (pend \o log.cur.from) = ObsOf(got)
      BY <1>1 DEF LogOK, Flows
  <2>3. log.pending = {} /\ log.cur.from = <<>> /\ pend = <<>>
      BY <1>1, <2>1, <2>2 DEF LogOK, Waiting
  <2>4. Merged(delivered) \in Seq(Nat)
    <3>1. PICK E : delivered \in Seq(E) /\ \A x \in E : EpochOK(x)
        BY <1>1 DEF LogOK, Given
    <3>2. \A x \in E : x.from \in Seq(Nat)
        BY <1>1, <3>1, HasObsIs
    <3>3. QED
        BY <3>1, <3>2, MergedType
  <2>5. Merged(delivered) \o (<<>> \o <<>>) = Merged(delivered)
      BY <2>4
  <2>6. QED
      BY <2>2, <2>3, <2>5
<1>4. RangeBeforeCompressed
  <2>1. PICK E : delivered \in Seq(E) /\ \A x \in E : EpochOK(x)
      BY <1>1 DEF LogOK, Given
  <2>2. \A e \in Range(delivered) : EpochOK(e)
      BY <2>1 DEF Range
  <2>3. ASSUME NEW e \in Range(delivered)
        PROVE  /\ \A f \in Range(e.from) : Msgs[f].t = e.t
               /\ \A s \in DOMAIN e.obs : e.obs[s].C = CodeOf(e.from, s) /\ e.obs[s].L = PhaseOf(e.from, s)
    <3>1. EpochOK(e)
        BY <2>2
    <3>2. DOMAIN e.from = 1 .. Len(e.from) /\ \A i \in 1 .. Len(e.from) : Msgs[e.from[i]].t = e.t
        BY <3>1 DEF EpochOK
    <3>3. \A f \in Range(e.from) : Msgs[f].t = e.t
        BY <3>2 DEF Range
    <3>4. QED
        BY <3>1, <3>3 DEF EpochOK
  <2>4. QED
      BY <2>3 DEF RangeBeforeCompressed, CodeOf, PhaseOf
<1>5. QED
    BY <1>2, <1>3, <1>4 DEF LogIsDelivered

\* The reader's variables stay in their ranges (ReceiverTypeOK).
THEOREM ReceiverTypes == LogsSpec => []ReceiverTypeOK
<1>1. LogsInit => Reading
    BY StartsReading
<1>2. Reading /\ [LogsNext]_logsVars => Reading'
    BY StepKeeps
<1>3. ASSUME Reading PROVE ReceiverTypeOK
  <2>1. ReadOK /\ LogOK /\ InputOK
      BY <1>3 DEF Reading, ReadOK
  <2>2. Cardinality(log.pending) <= 1
    <3>1. PICK pend : Waiting(log, pend)
        BY <2>1 DEF LogOK, Flows
    <3>2. CASE log.pending = {}
        BY <3>2, FS_EmptySet
    <3>3. ASSUME NEW e, log.pending = {e} PROVE Cardinality(log.pending) <= 1
      <4>1. Cardinality({e}) = 1
          BY FS_Singleton
      <4>2. Cardinality(log.pending) = 1
          BY <3>3, <4>1
      <4>3. QED
          BY <4>2
    <3>4. QED
        BY <3>1, <3>2, <3>3 DEF Waiting
  <2>3. bufferIndex \in 0 .. Len(buffer)
      BY <2>1 DEF ReadOK, Holds
  <2>4. Range(got) \subseteq 1 .. Bad
    <3>1. got \in Seq(1 .. Bad)
        BY <2>1 DEF ReadOK
    <3>2. DOMAIN got = 1 .. Len(got) /\ \A i \in 1 .. Len(got) : got[i] \in 1 .. Bad
      <4>1. PICK S : S = 1 .. Bad
          OBVIOUS
      <4>2. got \in Seq(S)
          BY <3>1, <4>1
      <4>3. DOMAIN got = 1 .. Len(got) /\ \A i \in 1 .. Len(got) : got[i] \in S
          BY <4>2
      <4>4. QED
          BY <4>1, <4>3
    <3>3. QED
        BY <3>2 DEF Range
  <2>5. QED
      BY <2>1, <2>2, <2>3, <2>4 DEF ReceiverTypeOK, ReadOK, InputOK
<1>4. QED
    BY <1>1, <1>2, <1>3, PTL DEF LogsSpec

\* However the bytes are split over the reads, a drained reader has cut out exactly
\* the frames that have arrived, and at the end every record is in one epoch
\* (LogIsDelivered).
THEOREM LogIsAlwaysDelivered == LogsSpec => []LogIsDelivered
<1>1. LogsInit => Reading
    BY StartsReading
<1>2. Reading /\ [LogsNext]_logsVars => Reading'
    BY StepKeeps
<1>3. Reading => LogIsDelivered
    BY ReadingDelivers
<1>4. QED
    BY <1>1, <1>2, <1>3, PTL DEF LogsSpec

\* In every epoch handed out the full record has precedence over the compressed one, in
\* whichever order and time they came (RangeBeforeCompressed).
THEOREM RangeAlwaysFirst == LogsSpec => []RangeBeforeCompressed
<1>1. LogsInit => Reading
    BY StartsReading
<1>2. Reading /\ [LogsNext]_logsVars => Reading'
    BY StepKeeps
<1>3. Reading => RangeBeforeCompressed
    BY ReadingDelivers
<1>4. QED
    BY <1>1, <1>2, <1>3, PTL DEF LogsSpec

-----------------------------------------------------------------------------
(* The lock times of the current time stamp and of the one before.         *)

\* The lock times that the records of time t give for signal s.
LocksAt(m, t, s) ==
  {Msgs[m[i]].obs[s].lock :
     i \in {j \in RecordsOf(m, Len(m)) : TimeOf(m, j) = t /\ s \in DOMAIN Msgs[m[j]].obs}}

\* lk holds the lowest lock time of every signal in the records of time t.
Lowest(lk, m, t) ==
  \A s : /\ s \in DOMAIN lk <=> LocksAt(m, t, s) # {}
         /\ s \in DOMAIN lk => lk[s] \in LocksAt(m, t, s) /\ \A c \in LocksAt(m, t, s) : lk[s] <= c

\* mPrevLock: nothing while all records have one stamp, else the lowest lock times
\* of the latest time stamp before.
PrevIs(lk, m, st) ==
  \/ DOMAIN lk = {} /\ \A i \in RecordsOf(m, Len(m)) : TimeOf(m, i) = st
  \/ \E t \in Nat : /\ t < st /\ Lowest(lk, m, t)
                    /\ \E i \in RecordsOf(m, Len(m)) : TimeOf(m, i) = t
                    /\ \A i \in RecordsOf(m, Len(m)) : TimeOf(m, i) = st \/ TimeOf(m, i) <= t

Latest(m, st) == st \in Nat /\ \A i \in RecordsOf(m, Len(m)) : TimeOf(m, i) <= st
Reached(m, st) ==
  IF RecordsOf(m, Len(m)) = {} THEN st = 0 ELSE \E i \in RecordsOf(m, Len(m)) : TimeOf(m, i) = st

LocksOK(m, l) ==
  /\ Latest(m, l.stamp) /\ Reached(m, l.stamp)
  /\ PrevIs(l.prevLock, m, l.stamp) /\ Lowest(l.curLock, m, l.stamp)

LEMMA RecordIs ==
  ASSUME InputOK, NEW m \in Seq(1 .. Bad), NEW i \in RecordsOf(m, Len(m))
  PROVE  /\ i \in 1 .. Len(m) /\ i \in Nat /\ m[i] \in 1 .. Len(Msgs) /\ IsRecord(Msgs[m[i]])
         /\ TimeOf(m, i) \in Nat
         /\ \A s \in DOMAIN Msgs[m[i]].obs : Msgs[m[i]].obs[s].lock \in Nat
<1>1. i \in 1 .. Len(m) /\ i \in Nat /\ m[i] # Bad /\ IsRecord(Msgs[m[i]])
    BY DEF RecordsOf
<1>2. m[i] \in 1 .. Len(Msgs)
  <2>1. Bad = Len(Msgs) + 1 /\ Len(Msgs) \in Nat
      BY DEF InputOK
  <2>2. PICK S : S = 1 .. Bad
      OBVIOUS
  <2>3. m[i] \in S
    <3>1. m \in Seq(S)
        BY <2>2
    <3>2. QED
        BY <1>1, <3>1
  <2> HIDE DEF Bad
  <2>4. QED
      BY <1>1, <2>1, <2>2, <2>3
<1>3. /\ Msgs[m[i]].t \in Nat
      /\ \A s \in DOMAIN Msgs[m[i]].obs : Msgs[m[i]].obs[s] \in LogsSignals
    BY <1>1, <1>2 DEF InputOK
<1>4. \A g \in LogsSignals : g.lock \in Nat
    BY DEF LogsSignals
<1>5. QED
    BY <1>1, <1>2, <1>3, <1>4 DEF TimeOf

LEMMA LocksNat ==
  ASSUME InputOK, NEW m \in Seq(1 .. Bad), NEW t, NEW s
  PROVE  LocksAt(m, t, s) \in SUBSET Nat
BY RecordIs DEF LocksAt

\* w is m with one more message.
Grown(m, f, w) ==
  LET new == Len(m) + 1
  IN  /\ w \in Seq(1 .. Bad) /\ Len(w) = new /\ new \in Nat /\ w[new] = f
      /\ RecordsOf(w, Len(w)) = RecordsOf(m, Len(m))
              \cup (IF f # Bad /\ IsRecord(Msgs[f]) THEN {new} ELSE {})
      /\ \A i \in 1 .. Len(m) : w[i] = m[i] /\ TimeOf(w, i) = TimeOf(m, i)
      /\ \A i \in RecordsOf(m, Len(m)) : i \in 1 .. Len(m) /\ i < new

LEMMA RecordsAppend ==
  ASSUME InputOK, NEW m \in Seq(1 .. Bad), NEW f \in 1 .. Bad
  PROVE  Grown(m, f, Append(m, f))
<1> DEFINE w == Append(m, f)
           new == Len(m) + 1
<1>1. PICK S : S = 1 .. Bad
    OBVIOUS
<1>2. m \in Seq(S) /\ f \in S
    BY <1>1
<1>3. w \in Seq(S) /\ Len(w) = new /\ new \in Nat /\ w[new] = f
      /\ \A i \in 1 .. Len(m) : w[i] = m[i]
    BY <1>2
<1>4. \A i : i \in 1 .. new <=> i \in 1 .. Len(m) \/ i = new
    BY <1>2
<1>5. \A i \in 1 .. Len(m) : i < new
    BY <1>2
<1> HIDE DEF Bad, w, new
<1>6. RecordsOf(w, Len(w)) = RecordsOf(m, Len(m))
              \cup (IF f # Bad /\ IsRecord(Msgs[f]) THEN {new} ELSE {})
    BY <1>3, <1>4 DEF RecordsOf
<1>7. /\ \A i \in 1 .. Len(m) : w[i] = m[i] /\ TimeOf(w, i) = TimeOf(m, i)
      /\ \A i \in RecordsOf(m, Len(m)) : i \in 1 .. Len(m) /\ i < new
    BY <1>3, <1>5 DEF TimeOf, RecordsOf
<1>8. QED
    BY <1>1, <1>3, <1>6, <1>7 DEF Grown, w, new

LEMMA LocksAppend ==
  ASSUME InputOK, NEW m \in Seq(1 .. Bad), NEW f \in 1 .. Bad, NEW t, NEW s
  PROVE  LocksAt(Append(m, f), t, s) = LocksAt(m, t, s) \cup
           (IF f # Bad /\ IsRecord(Msgs[f]) /\ Msgs[f].t = t /\ s \in DOMAIN Msgs[f].obs
              THEN {Msgs[f].obs[s].lock} ELSE {})
<1> DEFINE Has(x, j) == TimeOf(x, j) = t /\ s \in DOMAIN Msgs[x[j]].obs
<1>7. PICK w, new : w = Append(m, f) /\ new = Len(m) + 1
    OBVIOUS
<1>1. /\ Len(w) = new /\ w[new] = f
      /\ RecordsOf(w, Len(w)) = RecordsOf(m, Len(m))
              \cup (IF f # Bad /\ IsRecord(Msgs[f]) THEN {new} ELSE {})
      /\ \A i \in 1 .. Len(m) : w[i] = m[i] /\ TimeOf(w, i) = TimeOf(m, i)
      /\ \A i \in RecordsOf(m, Len(m)) : i \in 1 .. Len(m)
  <2>1. Grown(m, f, w)
      BY <1>7, RecordsAppend
  <2>2. QED
      BY <1>7, <2>1 DEF Grown
<1>2. Has(w, new) <=> Msgs[f].t = t /\ s \in DOMAIN Msgs[f].obs
    BY <1>1 DEF TimeOf
<1>3. \A i \in RecordsOf(m, Len(m)) : w[i] = m[i] /\ (Has(w, i) <=> Has(m, i))
    BY <1>1
<1>4. \A c : c \in LocksAt(w, t, s) <=> \E i \in RecordsOf(w, Len(w)) : Has(w, i) /\ c = Msgs[w[i]].obs[s].lock
    BY DEF LocksAt
<1>5. \A c : c \in LocksAt(m, t, s) <=> \E i \in RecordsOf(m, Len(m)) : Has(m, i) /\ c = Msgs[m[i]].obs[s].lock
    BY DEF LocksAt
<1> HIDE DEF Has
<1>6. ASSUME NEW c
      PROVE  c \in LocksAt(w, t, s) <=>
               \/ c \in LocksAt(m, t, s)
               \/ /\ f # Bad /\ IsRecord(Msgs[f]) /\ Msgs[f].t = t /\ s \in DOMAIN Msgs[f].obs
                  /\ c = Msgs[f].obs[s].lock
    BY <1>1, <1>2, <1>3, <1>4, <1>5
<1>8. QED
    BY <1>6, <1>7

\* After beginEpoch for a record of time t.
BegunLocks(m, b, t) ==
  /\ Latest(m, t) /\ b.stamp = t /\ PrevIs(b.prevLock, m, t) /\ Lowest(b.curLock, m, t)

LEMMA BeginLocks ==
  ASSUME InputOK, NEW m \in Seq(1 .. Bad), NEW l, LocksOK(m, l), NEW t \in Nat, l.stamp <= t,
         NEW b, Begun(l, t, b)
  PROVE  BegunLocks(m, b, t)
<1>1. CASE t = l.stamp
    BY <1>1 DEF Begun, LocksOK, BegunLocks
<1>2. CASE t # l.stamp
  <2>1. b.stamp = t /\ b.prevLock = l.curLock /\ b.curLock = <<>>
      BY <1>2 DEF Begun
  <2>2. l.stamp \in Nat /\ l.stamp < t /\ \A i \in RecordsOf(m, Len(m)) : TimeOf(m, i) <= l.stamp
      BY <1>2 DEF LocksOK, Latest
  <2>3. \A i \in RecordsOf(m, Len(m)) : TimeOf(m, i) \in Nat /\ TimeOf(m, i) <= t /\ TimeOf(m, i) # t
    <3>1. \A i \in RecordsOf(m, Len(m)) : TimeOf(m, i) \in Nat
        BY RecordIs
    <3>2. QED
        BY <2>2, <3>1
  <2>4. Latest(m, t)
      BY <2>3 DEF Latest
  <2>5. \A s : LocksAt(m, t, s) = {}
      BY <2>3 DEF LocksAt
  <2>6. Lowest(b.curLock, m, t)
    <3>1. DOMAIN <<>> = {}
        OBVIOUS
    <3>2. QED
        BY <2>1, <2>5, <3>1 DEF Lowest
  <2>7. Lowest(l.curLock, m, l.stamp) /\ Reached(m, l.stamp)
      BY DEF LocksOK
  <2>8. PrevIs(b.prevLock, m, t)
    <3>1. CASE RecordsOf(m, Len(m)) = {}
      <4>1. \A s : LocksAt(m, l.stamp, s) = {}
          BY <3>1 DEF LocksAt
      <4>2. DOMAIN l.curLock = {}
          BY <2>7, <4>1 DEF Lowest
      <4>3. QED
          BY <2>1, <3>1, <4>2 DEF PrevIs
    <3>2. CASE RecordsOf(m, Len(m)) # {}
      <4>1. \E i \in RecordsOf(m, Len(m)) : TimeOf(m, i) = l.stamp
          BY <2>7, <3>2 DEF Reached
      <4>2. QED
          BY <2>1, <2>2, <2>7, <4>1 DEF PrevIs
    <3>3. QED
        BY <3>1, <3>2
  <2>9. QED
      BY <2>1, <2>4, <2>6, <2>8 DEF BegunLocks
<1>3. QED
    BY <1>1, <1>2

LEMMA MinOfTwo ==
  ASSUME NEW a \in Nat, NEW b \in Nat
  PROVE  Min({a, b}) \in {a, b} /\ Min({a, b}) <= a /\ Min({a, b}) <= b
<1>1. {a, b} \in SUBSET Nat /\ {a, b} # {} /\ a \in {a, b} /\ b \in {a, b}
    OBVIOUS
<1>2. PICK S \in SUBSET Nat : S = {a, b} /\ S # {}
    BY <1>1
<1>3. Min(S) \in S /\ \A y \in S : Min(S) <= y
    BY <1>2, MinIs
<1>4. QED
    BY <1>1, <1>2, <1>3

LEMMA EmitLocks ==
  ASSUME InputOK, NEW m \in Seq(1 .. Bad), NEW b, NEW f \in 1 .. Bad, f # Bad, IsRecord(Msgs[f]),
         BegunLocks(m, b, Msgs[f].t), NEW n, Emitted(b, f, n)
  PROVE  LocksOK(Append(m, f), n)
<1> DEFINE w == Append(m, f)
           t == Msgs[f].t
           obs == Msgs[f].obs
           new == Len(m) + 1
           Lock(s) == IF s \in DOMAIN b.curLock THEN Min({b.curLock[s], obs[s].lock}) ELSE obs[s].lock
<1>1. /\ n.stamp = b.stamp /\ n.prevLock = b.prevLock
      /\ n.curLock = Over(b.curLock, [s \in DOMAIN obs |-> Lock(s)])
    BY DEF Emitted
<1>2. /\ DOMAIN n.curLock = DOMAIN b.curLock \cup DOMAIN obs
      /\ \A s \in DOMAIN obs : n.curLock[s] = Lock(s)
      /\ \A s \in DOMAIN b.curLock : s \notin DOMAIN obs => n.curLock[s] = b.curLock[s]
    BY <1>1 DEF Over
<1>3. b.stamp = t /\ Latest(m, t) /\ PrevIs(b.prevLock, m, t) /\ Lowest(b.curLock, m, t)
    BY DEF BegunLocks
<1>4. /\ w[new] = f /\ RecordsOf(w, Len(w)) = RecordsOf(m, Len(m)) \cup {new}
      /\ \A i \in RecordsOf(m, Len(m)) : TimeOf(w, i) = TimeOf(m, i)
  <2>1. Grown(m, f, w)
      BY RecordsAppend
  <2> HIDE DEF w
  <2>2. QED
      BY <2>1 DEF Grown
<1>5. ASSUME NEW x, NEW s
      PROVE  LocksAt(w, x, s) = LocksAt(m, x, s) \cup
               (IF t = x /\ s \in DOMAIN obs THEN {obs[s].lock} ELSE {})
    BY LocksAppend
<1>6. t \in Nat /\ \A s \in DOMAIN obs : obs[s].lock \in Nat
  <2>1. f \in 1 .. Len(Msgs)
      BY DEF InputOK
  <2>2. t \in Nat /\ \A s \in DOMAIN obs : obs[s] \in LogsSignals
      BY <2>1 DEF InputOK
  <2>3. QED
      BY <2>2 DEF LogsSignals
<1>7. TimeOf(w, new) = t
    BY <1>4 DEF TimeOf
<1> HIDE DEF w, t, obs, new
<1>8. Latest(w, t) /\ Reached(w, t)
    BY <1>3, <1>4, <1>6, <1>7 DEF Latest, Reached
<1>9. PrevIs(n.prevLock, w, t)
  <2>1. CASE DOMAIN b.prevLock = {} /\ \A i \in RecordsOf(m, Len(m)) : TimeOf(m, i) = t
      BY <1>1, <1>4, <1>7, <2>1 DEF PrevIs
  <2>2. ASSUME NEW x \in Nat, x < t, Lowest(b.prevLock, m, x),
               \E i \in RecordsOf(m, Len(m)) : TimeOf(m, i) = x,
               \A i \in RecordsOf(m, Len(m)) : TimeOf(m, i) = t \/ TimeOf(m, i) <= x
        PROVE  PrevIs(n.prevLock, w, t)
    <3>1. ASSUME NEW s PROVE LocksAt(w, x, s) = LocksAt(m, x, s)
      <4>1. t # x
          BY <1>6, <2>2
      <4>2. QED
          BY <1>5, <4>1
    <3>2. Lowest(n.prevLock, w, x)
        BY <1>1, <2>2, <3>1 DEF Lowest
    <3>3. \E i \in RecordsOf(w, Len(w)) : TimeOf(w, i) = x
        BY <1>4, <2>2
    <3>4. \A i \in RecordsOf(w, Len(w)) : TimeOf(w, i) = t \/ TimeOf(w, i) <= x
        BY <1>4, <1>7, <2>2
    <3>5. QED
        BY <2>2, <3>2, <3>3, <3>4 DEF PrevIs
  <2>3. QED
      BY <1>3, <2>1, <2>2 DEF PrevIs
<1>10. Lowest(n.curLock, w, t)
  <2>1. SUFFICES ASSUME NEW s
                 PROVE  /\ s \in DOMAIN n.curLock <=> LocksAt(w, t, s) # {}
                        /\ s \in DOMAIN n.curLock =>
                             n.curLock[s] \in LocksAt(w, t, s) /\ \A c \in LocksAt(w, t, s) : n.curLock[s] <= c
      BY DEF Lowest
  <2>2. /\ s \in DOMAIN b.curLock <=> LocksAt(m, t, s) # {}
        /\ s \in DOMAIN b.curLock => b.curLock[s] \in LocksAt(m, t, s)
                                     /\ \A c \in LocksAt(m, t, s) : b.curLock[s] <= c
        /\ LocksAt(m, t, s) \in SUBSET Nat
      BY <1>3, LocksNat DEF Lowest
  <2>3. CASE s \notin DOMAIN obs
      BY <1>2, <1>5, <2>2, <2>3
  <2>4. CASE s \in DOMAIN obs /\ s \notin DOMAIN b.curLock
    <3>1. LocksAt(w, t, s) = {obs[s].lock} /\ n.curLock[s] = obs[s].lock
        BY <1>2, <1>5, <2>2, <2>4
    <3>2. QED
        BY <1>2, <1>6, <2>4, <3>1
  <2>5. CASE s \in DOMAIN obs /\ s \in DOMAIN b.curLock
    <3>1. LocksAt(w, t, s) = LocksAt(m, t, s) \cup {obs[s].lock}
        BY <1>5, <2>5
    <3>2. n.curLock[s] = Min({b.curLock[s], obs[s].lock})
        BY <1>2, <2>5
    <3>3. b.curLock[s] \in Nat /\ obs[s].lock \in Nat
        BY <1>6, <2>2, <2>5
    <3>4. /\ n.curLock[s] \in {b.curLock[s], obs[s].lock}
          /\ n.curLock[s] <= b.curLock[s] /\ n.curLock[s] <= obs[s].lock
        BY <3>2, <3>3, MinOfTwo
    <3>5. n.curLock[s] \in LocksAt(w, t, s) /\ n.curLock[s] \in Nat
        BY <2>2, <2>5, <3>1, <3>3, <3>4
    <3>6. ASSUME NEW c \in LocksAt(m, t, s) PROVE n.curLock[s] <= c
      <4>1. b.curLock[s] <= c /\ c \in Nat
          BY <2>2, <2>5
      <4>2. QED
          BY <3>3, <3>4, <3>5, <4>1
    <3>7. s \in DOMAIN n.curLock
        BY <1>2, <2>5
    <3>8. QED
        BY <3>1, <3>4, <3>5, <3>6, <3>7
  <2>6. QED
      BY <2>3, <2>4, <2>5
<1>11. QED
    BY <1>1, <1>3, <1>8, <1>9, <1>10 DEF LocksOK, w

\* Another message leaves the lock times.
LEMMA OtherLocks ==
  ASSUME InputOK, NEW m \in Seq(1 .. Bad), NEW l, LocksOK(m, l), NEW f \in 1 .. Bad,
         ~(f # Bad /\ IsRecord(Msgs[f])),
         NEW n, n.stamp = l.stamp, n.prevLock = l.prevLock, n.curLock = l.curLock
  PROVE  LocksOK(Append(m, f), n)
<1> DEFINE w == Append(m, f)
<1>1. /\ RecordsOf(w, Len(w)) = RecordsOf(m, Len(m))
      /\ \A i \in RecordsOf(m, Len(m)) : TimeOf(w, i) = TimeOf(m, i)
  <2>1. Grown(m, f, w)
      BY RecordsAppend
  <2> HIDE DEF w
  <2>2. QED
      BY <2>1 DEF Grown
<1>2. ASSUME NEW t, NEW s PROVE LocksAt(w, t, s) = LocksAt(m, t, s)
  <2>1. LocksAt(w, t, s) = LocksAt(m, t, s) \cup
           (IF f # Bad /\ IsRecord(Msgs[f]) /\ Msgs[f].t = t /\ s \in DOMAIN Msgs[f].obs
              THEN {Msgs[f].obs[s].lock} ELSE {})
      BY LocksAppend
  <2>2. QED
      BY <2>1
<1> HIDE DEF w
<1>3. ASSUME NEW lk, NEW t PROVE Lowest(lk, w, t) <=> Lowest(lk, m, t)
    BY <1>2 DEF Lowest
<1>4. PrevIs(l.prevLock, w, l.stamp)
    BY <1>1, <1>3 DEF PrevIs, LocksOK
<1>5. Latest(w, l.stamp) /\ Reached(w, l.stamp)
    BY <1>1 DEF Latest, Reached, LocksOK
<1>6. QED
    BY <1>3, <1>4, <1>5 DEF LocksOK, w

-----------------------------------------------------------------------------
(* Time order, and the slips.                                              *)

InOrder(m) ==
  \A i, j \in RecordsOf(m, Len(m)) : i < j => TimeOf(m, i) <= TimeOf(m, j)

LEMMA OrderAppend ==
  ASSUME InputOK, NEW m \in Seq(1 .. Bad), NEW f \in 1 .. Bad, InOrder(m),
         f # Bad /\ IsRecord(Msgs[f]) => Latest(m, Msgs[f].t)
  PROVE  InOrder(Append(m, f))
<1> DEFINE w == Append(m, f)
           new == Len(m) + 1
<1>1. /\ w[new] = f
      /\ RecordsOf(w, Len(w)) = RecordsOf(m, Len(m))
              \cup (IF f # Bad /\ IsRecord(Msgs[f]) THEN {new} ELSE {})
      /\ \A i \in RecordsOf(m, Len(m)) : TimeOf(w, i) = TimeOf(m, i) /\ i < new /\ i \in Nat
      /\ new \in Nat
  <2>1. Grown(m, f, w)
      BY RecordsAppend
  <2> HIDE DEF w
  <2>2. QED
      BY <2>1 DEF Grown
<1> HIDE DEF w, new
<1>2. f # Bad /\ IsRecord(Msgs[f]) =>
        /\ TimeOf(w, new) = Msgs[f].t
        /\ \A i \in RecordsOf(m, Len(m)) : TimeOf(m, i) <= Msgs[f].t
    BY <1>1 DEF TimeOf, Latest
<1>3. ASSUME NEW i \in RecordsOf(w, Len(w)), NEW j \in RecordsOf(w, Len(w)), i < j
      PROVE  TimeOf(w, i) <= TimeOf(w, j)
  <2>1. CASE j \in RecordsOf(m, Len(m))
    <3>1. i \in RecordsOf(m, Len(m))
        BY <1>1, <1>3, <2>1
    <3>2. QED
        BY <1>1, <1>3, <2>1, <3>1 DEF InOrder
  <2>2. CASE j = new /\ f # Bad /\ IsRecord(Msgs[f])
    <3>1. i \in RecordsOf(m, Len(m))
        BY <1>1, <1>3, <2>2
    <3>2. QED
        BY <1>1, <1>2, <2>2, <3>1
  <2>3. QED
      BY <1>1, <2>1, <2>2
<1>4. QED
    BY <1>3 DEF InOrder, w

\* What the locks say of a slip in a record of the current time stamp.
LEMMA SlipSeen ==
  ASSUME InputOK, NEW m \in Seq(1 .. Bad), InOrder(m), NEW l, LocksOK(m, l),
         NEW n \in RecordsOf(m, Len(m)), TimeOf(m, n) = l.stamp,
         NEW s \in DOMAIN Msgs[m[n]].obs, Slipped(m, n, s)
  PROVE  /\ Msgs[m[n]].obs[s].phase
         /\ s \in DOMAIN l.prevLock /\ Msgs[m[n]].obs[s].lock < l.prevLock[s]
<1> DEFINE R == RecordsOf(m, Len(m))
           Rn == RecordsOf(m, n)
           st == l.stamp
           older == {i \in Rn : TimeOf(m, i) # st}
           x == Max(older)
           before == {Msgs[f].obs[s].lock :
                        f \in {g \in StampBefore(m, n) : s \in DOMAIN Msgs[g].obs}}
           sig == Msgs[m[n]].obs[s]
<1>1. sig.phase /\ before # {} /\ \A c \in before : sig.lock < c
    BY DEF Slipped
<1>2. n \in Nat /\ n \in 1 .. Len(m) /\ Len(m) \in Nat
      /\ \A i \in R : i \in Nat /\ TimeOf(m, i) \in Nat
    BY RecordIs
<1>3. \A i : i \in Rn <=> i \in R /\ i <= n
    BY <1>2 DEF RecordsOf
<1>4. StampBefore(m, n) = IF older = {} THEN {} ELSE {m[i] : i \in {j \in Rn : TimeOf(m, j) = TimeOf(m, x)}}
    BY DEF StampBefore
<1> HIDE DEF R, Rn, sig, x
<1>5. older # {}
  <2> HIDE DEF older
  <2>1. QED
      BY <1>1, <1>4
<1>6. x \in older /\ \A i \in older : i <= x
  <2>1. older \in SUBSET (0 .. n)
      BY <1>2, <1>3
  <2> HIDE DEF older
  <2>2. QED
      BY <1>2, <1>5, <2>1, MaxIs DEF x
<1>7. PICK t \in Nat : /\ t < st /\ Lowest(l.prevLock, m, t)
                       /\ \E i \in R : TimeOf(m, i) = t
                       /\ \A i \in R : TimeOf(m, i) = st \/ TimeOf(m, i) <= t
  <2>1. x \in R /\ TimeOf(m, x) # st
      BY <1>3, <1>6
  <2>2. PrevIs(l.prevLock, m, st)
      BY DEF LocksOK
  <2>3. QED
      BY <2>1, <2>2 DEF PrevIs, R
<1>8. st \in Nat /\ \A i \in R : TimeOf(m, i) <= st
    BY DEF LocksOK, Latest, R
<1>9. ASSUME NEW i \in R, TimeOf(m, i) = t PROVE i \in Rn
  <2>1. TimeOf(m, i) < TimeOf(m, n) /\ n \in R
      BY <1>7, <1>9 DEF R
  <2>2. ~(n < i)
    <3>1. ASSUME n < i PROVE FALSE
      <4>1. TimeOf(m, n) <= TimeOf(m, i)
          BY <1>9, <2>1, <3>1 DEF InOrder, R
      <4>2. QED
          BY <1>2, <1>9, <2>1, <4>1
    <3>2. QED
        BY <3>1
  <2>3. QED
      BY <1>2, <1>3, <1>9, <2>2
<1>10. TimeOf(m, x) = t
  <2>1. PICK k \in R : TimeOf(m, k) = t
      BY <1>7
  <2>2. k \in Rn /\ TimeOf(m, k) # st
      BY <1>7, <1>8, <1>9, <2>1
  <2>3. k <= x /\ x \in R /\ TimeOf(m, x) # st
      BY <1>3, <1>6, <2>2
  <2>4. TimeOf(m, x) <= t
      BY <1>7, <2>3
  <2>5. t <= TimeOf(m, x)
    <3>1. CASE k = x
        BY <2>1, <3>1
    <3>2. CASE k < x
        BY <2>1, <2>3, <3>2 DEF InOrder, R
    <3>3. QED
        BY <1>2, <2>1, <2>3, <3>1, <3>2
  <2>6. QED
      BY <1>2, <2>3, <2>4, <2>5
<1>11. LocksAt(m, t, s) = before
  <2>1. StampBefore(m, n) = {m[i] : i \in {j \in Rn : TimeOf(m, j) = t}}
      BY <1>4, <1>5, <1>10
  <2>2. LocksAt(m, t, s) = {Msgs[m[i]].obs[s].lock :
             i \in {j \in R : TimeOf(m, j) = t /\ s \in DOMAIN Msgs[m[j]].obs}}
      BY DEF LocksAt, R
  <2>3. \A j : j \in Rn /\ TimeOf(m, j) = t <=> j \in R /\ TimeOf(m, j) = t
      BY <1>3, <1>9
  <2>4. QED
      BY <2>1, <2>2, <2>3
<1> HIDE DEF before, older
<1>12. s \in DOMAIN l.prevLock /\ l.prevLock[s] \in before
    BY <1>1, <1>7, <1>11 DEF Lowest
<1>13. QED
    BY <1>1, <1>12 DEF sig

\* A slip is one whatever is read after it.
LEMMA SlippedSame ==
  ASSUME InputOK, NEW m \in Seq(1 .. Bad), NEW f \in 1 .. Bad, NEW n \in 1 .. Len(m), NEW s,
         Slipped(Append(m, f), n, s)
  PROVE  Slipped(m, n, s)
<1> DEFINE w == Append(m, f)
<1>1. n \in 1 .. n /\ \A i \in 1 .. n : w[i] = m[i] /\ TimeOf(w, i) = TimeOf(m, i)
  <2>1. Grown(m, f, w)
      BY RecordsAppend
  <2>2. n \in Nat /\ \A i \in 1 .. n : i \in 1 .. Len(m)
      OBVIOUS
  <2> HIDE DEF w
  <2>3. QED
      BY <2>1, <2>2 DEF Grown
<1> HIDE DEF w
<1>2. RecordsOf(w, n) = RecordsOf(m, n) /\ \A i \in RecordsOf(m, n) : i \in 1 .. n
    BY <1>1 DEF RecordsOf
<1>3. StampBefore(w, n) = StampBefore(m, n)
  <2> DEFINE O(z) == {i \in RecordsOf(z, n) : TimeOf(z, i) # TimeOf(z, n)}
             B(z, x) == {z[i] : i \in {j \in RecordsOf(z, n) : TimeOf(z, j) = TimeOf(z, x)}}
  <2>1. O(w) = O(m) /\ O(m) \subseteq 1 .. n
      BY <1>1, <1>2
  <2>2. ASSUME NEW x \in 1 .. n PROVE B(w, x) = B(m, x)
      BY <1>1, <1>2, <2>2
  <2>3. StampBefore(w, n) = (IF O(w) = {} THEN {} ELSE B(w, Max(O(w))))
        /\ StampBefore(m, n) = (IF O(m) = {} THEN {} ELSE B(m, Max(O(m))))
      BY DEF StampBefore
  <2> HIDE DEF O, B
  <2>4. CASE O(m) = {}
      BY <2>1, <2>3, <2>4
  <2>5. CASE O(m) # {}
    <3>1. Max(O(m)) \in 1 .. n
      <4>1. n \in Nat /\ O(m) \in SUBSET (0 .. n)
          BY <2>1
      <4>2. QED
          BY <2>1, <2>5, <4>1, MaxIs
    <3>2. QED
        BY <2>1, <2>2, <2>3, <2>5, <3>1
  <2>6. QED
      BY <2>4, <2>5
<1>4. w[n] = m[n]
    BY <1>1
<1>5. Slipped(w, n, s)
    BY DEF w
<1>6. QED
    BY <1>3, <1>4, <1>5 DEF Slipped

-----------------------------------------------------------------------------
(* The loss-of-lock flags of the epochs.                                   *)

\* The epochs handed out, the one that waits and the one being collected.
Epochs(d, l) == Range(d) \cup l.pending \cup {l.cur}

\* A lock time below lk is flagged in epoch e.
Flagged(e, lk) ==
  \A i \in 1 .. Len(e.from) : \A s :
     LET sig == Msgs[e.from[i]].obs[s]
     IN  s \in DOMAIN Msgs[e.from[i]].obs /\ sig.phase /\ s \in DOMAIN lk /\ sig.lock < lk[s]
           => s \in DOMAIN e.lli

\* The slips of message m[n] are flagged in epoch e.
SlipsIn(e, m, n) ==
  m[n] \in Range(e.from) =>
    \A s \in DOMAIN Msgs[m[n]].obs : Slipped(m, n, s) => s \in DOMAIN e.lli

\* Epochs of the current time stamp flag what goes below mPrevLock; the slips of
\* the time stamps before are flagged for good.
FlagsOK(S, l, m) ==
  /\ \A e \in S : EpochOK(e) /\ e.t <= l.stamp /\ (e.t = l.stamp => Flagged(e, l.prevLock))
  /\ \A n \in RecordsOf(m, Len(m)), e \in S : TimeOf(m, n) < l.stamp => SlipsIn(e, m, n)

LEMMA TimesAgree ==
  ASSUME NEW e, EpochOK(e), NEW f \in Range(e.from)
  PROVE  Msgs[f].t = e.t /\ \E i \in 1 .. Len(e.from) : e.from[i] = f
<1>1. DOMAIN e.from = 1 .. Len(e.from)
    BY DEF EpochOK
<1>2. PICK i \in 1 .. Len(e.from) : e.from[i] = f
    BY <1>1 DEF Range
<1>3. QED
    BY <1>2 DEF EpochOK

\* All slips so far are flagged.
LEMMA FlagsAll ==
  ASSUME InputOK, NEW m \in Seq(1 .. Bad), InOrder(m), NEW l, LocksOK(m, l), NEW S, FlagsOK(S, l, m),
         NEW n \in RecordsOf(m, Len(m)), NEW e \in S
  PROVE  SlipsIn(e, m, n)
<1>1. SUFFICES ASSUME m[n] \in Range(e.from), NEW s \in DOMAIN Msgs[m[n]].obs, Slipped(m, n, s)
               PROVE  s \in DOMAIN e.lli
    BY DEF SlipsIn
<1>2. l.stamp \in Nat /\ TimeOf(m, n) <= l.stamp /\ TimeOf(m, n) \in Nat
    BY RecordIs DEF LocksOK, Latest
<1>3. CASE TimeOf(m, n) < l.stamp
    BY <1>1, <1>3 DEF FlagsOK, SlipsIn
<1>4. CASE TimeOf(m, n) = l.stamp
  <2>1. EpochOK(e)
      BY DEF FlagsOK
  <2>2. Msgs[m[n]].t = e.t /\ \E i \in 1 .. Len(e.from) : e.from[i] = m[n]
      BY <1>1, <2>1, TimesAgree
  <2>3. PICK i \in 1 .. Len(e.from) : e.from[i] = m[n]
      BY <2>2
  <2>4. Flagged(e, l.prevLock)
      BY <1>4, <2>2 DEF FlagsOK, TimeOf
  <2>5. /\ Msgs[m[n]].obs[s].phase
        /\ s \in DOMAIN l.prevLock /\ Msgs[m[n]].obs[s].lock < l.prevLock[s]
      BY <1>1, <1>4, SlipSeen
  <2>6. QED
      BY <1>1, <2>3, <2>4, <2>5 DEF Flagged
<1>5. QED
    BY <1>2, <1>3, <1>4

LEMMA NothingToFlag ==
  ASSUME NEW e, e.from = <<>>
  PROVE  (\A lk : Flagged(e, lk)) /\ \A m, n : SlipsIn(e, m, n)
<1>1. 1 .. Len(<<>>) = {} /\ DOMAIN <<>> = {}
    OBVIOUS
<1>2. 1 .. Len(e.from) = {} /\ Range(e.from) = {}
    BY <1>1 DEF Range
<1>3. QED
    BY <1>2 DEF Flagged, SlipsIn

\* An epoch is handed out: the same epochs, or an empty one more.
LEMMA FlagsHand ==
  ASSUME NEW m, NEW l, NEW S, FlagsOK(S, l, m), NEW n, n.stamp = l.stamp, n.prevLock = l.prevLock,
         NEW x, EpochOK(x), x.from = <<>>, x.t <= l.stamp,
         NEW Z, Z \subseteq S \cup {x}
  PROVE  FlagsOK(Z, n, m)
<1>1. Flagged(x, l.prevLock) /\ \A i : SlipsIn(x, m, i)
    BY NothingToFlag
<1>2. QED
    BY <1>1 DEF FlagsOK

\* beginEpoch.
LEMMA FlagsBegin ==
  ASSUME InputOK, NEW m \in Seq(1 .. Bad), InOrder(m), NEW l, LocksOK(m, l), NEW d,
         FlagsOK(Epochs(d, l), l, m), NEW t \in Nat, l.stamp <= t, NEW b, Begun(l, t, b)
  PROVE  FlagsOK(Epochs(d, b), b, m)
<1>1. CASE t = l.stamp
    BY <1>1 DEF Begun
<1>2. CASE t # l.stamp
  <2>1. /\ b.stamp = t /\ b.pending = (IF HasObs(l.cur) THEN {l.cur} ELSE l.pending)
        /\ b.cur = [t |-> t, obs |-> <<>>, lli |-> <<>>, from |-> <<>>]
      BY <1>2 DEF Begun
  <2>2. EpochOK(b.cur) /\ b.cur.from = <<>> /\ b.cur.t = t
      BY <2>1, NothingIsOK
  <2>3. Flagged(b.cur, b.prevLock) /\ \A i : SlipsIn(b.cur, m, i)
      BY <2>2, NothingToFlag
  <2>4. Epochs(d, b) \subseteq Epochs(d, l) \cup {b.cur}
      BY <2>1 DEF Epochs
  <2>5. l.stamp \in Nat /\ l.stamp < t
      BY <1>2 DEF LocksOK, Latest
  <2>6. ASSUME NEW e \in Epochs(d, b)
        PROVE  EpochOK(e) /\ e.t <= b.stamp /\ (e.t = b.stamp => Flagged(e, b.prevLock))
    <3>1. CASE e = b.cur
        BY <2>1, <2>2, <2>3, <3>1
    <3>2. CASE e \in Epochs(d, l)
      <4>1. EpochOK(e) /\ e.t <= l.stamp /\ e.t \in Nat
          BY <3>2 DEF FlagsOK, EpochOK
      <4>2. QED
          BY <2>1, <2>5, <4>1
    <3>3. QED
        BY <2>4, <3>1, <3>2
  <2>7. ASSUME NEW n \in RecordsOf(m, Len(m)), NEW e \in Epochs(d, b) PROVE SlipsIn(e, m, n)
    <3>1. CASE e \in Epochs(d, l)
        BY <3>1, FlagsAll
    <3>2. QED
        BY <2>3, <2>4, <3>1
  <2>8. QED
      BY <2>6, <2>7 DEF FlagsOK
<1>3. QED
    BY <1>1, <1>2

\* A slip before the new message.
LEMMA SlipsAppend ==
  ASSUME InputOK, NEW m \in Seq(1 .. Bad), NEW f \in 1 .. Bad, NEW n \in RecordsOf(m, Len(m)),
         NEW e, SlipsIn(e, m, n)
  PROVE  SlipsIn(e, Append(m, f), n)
<1> DEFINE w == Append(m, f)
<1>1. n \in 1 .. Len(m) /\ w[n] = m[n]
  <2>1. Grown(m, f, w)
      BY RecordsAppend
  <2> HIDE DEF w
  <2>2. QED
      BY <2>1 DEF Grown
<1>2. \A s : Slipped(w, n, s) => Slipped(m, n, s)
    BY <1>1, SlippedSame
<1> HIDE DEF w
<1>3. SlipsIn(e, w, n)
    BY <1>1, <1>2 DEF SlipsIn
<1>4. QED
    BY <1>3 DEF w

\* emitObs flags what goes below mPrevLock.
LEMMA EmitFlags ==
  ASSUME InputOK, NEW b, EpochOK(b.cur), Flagged(b.cur, b.prevLock), NEW f \in 1 .. Len(Msgs),
         NEW n, Emitted(b, f, n), EpochOK(n.cur),
         n.cur.from = IF IsObs(f) THEN Append(b.cur.from, f) ELSE b.cur.from
  PROVE  Flagged(n.cur, n.prevLock)
<1> DEFINE obs == Msgs[f].obs
           lk == b.prevLock
           flagged == {s \in DOMAIN obs : obs[s].phase /\ LockBits(lk, s, obs[s]) # {}}
<1>1. n.cur.lli = Over(b.cur.lli, [s \in flagged |-> LockBits(lk, s, obs[s])]) /\ n.prevLock = lk
    BY DEF Emitted
<1>2. DOMAIN n.cur.lli = DOMAIN b.cur.lli \cup flagged
    BY <1>1 DEF Over
<1>3. ASSUME NEW s \in DOMAIN obs, obs[s].phase, s \in DOMAIN lk, obs[s].lock < lk[s]
      PROVE  s \in flagged
  <2>1. 1 \in LockBits(lk, s, obs[s])
      BY <1>3 DEF LockBits
  <2>2. QED
      BY <1>3, <2>1
<1> HIDE DEF flagged
<1>4. b.cur.from \in Seq(Nat) /\ Len(b.cur.from) \in Nat
    BY HasObsIs
<1>5. ASSUME NEW i \in 1 .. Len(n.cur.from)
      PROVE  \/ i \in 1 .. Len(b.cur.from) /\ n.cur.from[i] = b.cur.from[i]
             \/ n.cur.from[i] = f
  <2>1. f \in Nat
      OBVIOUS
  <2>2. CASE IsObs(f)
    <3>1. n.cur.from = Append(b.cur.from, f)
        BY <2>2
    <3>2. Len(n.cur.from) = Len(b.cur.from) + 1
        BY <1>4, <2>1, <3>1
    <3>3. CASE i <= Len(b.cur.from)
        BY <1>4, <2>1, <3>1, <3>3
    <3>4. CASE i = Len(b.cur.from) + 1
        BY <1>4, <2>1, <3>1, <3>4
    <3>5. i <= Len(b.cur.from) \/ i = Len(b.cur.from) + 1
        BY <1>4, <1>5, <3>2
    <3>6. QED
        BY <3>3, <3>4, <3>5
  <2>3. CASE ~IsObs(f)
      BY <1>5, <2>3
  <2>4. QED
      BY <2>2, <2>3
<1>6. ASSUME NEW i \in 1 .. Len(n.cur.from), NEW s \in DOMAIN Msgs[n.cur.from[i]].obs,
             Msgs[n.cur.from[i]].obs[s].phase, s \in DOMAIN lk,
             Msgs[n.cur.from[i]].obs[s].lock < lk[s]
      PROVE  s \in DOMAIN n.cur.lli
  <2>1. CASE i \in 1 .. Len(b.cur.from) /\ n.cur.from[i] = b.cur.from[i]
    <3>1. s \in DOMAIN b.cur.lli
        BY <1>6, <2>1 DEF Flagged
    <3>2. QED
        BY <1>2, <3>1
  <2>2. CASE n.cur.from[i] = f
    <3>1. s \in flagged
        BY <1>3, <1>6, <2>2
    <3>2. QED
        BY <1>2, <3>1
  <2>3. QED
      BY <1>5, <2>1, <2>2
<1>7. QED
    BY <1>1, <1>6 DEF Flagged

LEMMA FlagsEmit ==
  ASSUME InputOK, NEW m \in Seq(1 .. Bad), NEW d, NEW b, Settled(b), FlagsOK(Epochs(d, b), b, m),
         NEW f \in 1 .. Bad, f # Bad, IsRecord(Msgs[f]), Msgs[f].t = b.stamp,
         NEW n, Emitted(b, f, n), EpochOK(n.cur),
         n.cur.from = IF IsObs(f) THEN Append(b.cur.from, f) ELSE b.cur.from
  PROVE  FlagsOK(Epochs(d, n), n, Append(m, f))
<1> DEFINE w == Append(m, f)
           new == Len(m) + 1
<1>1. n.stamp = b.stamp /\ n.prevLock = b.prevLock /\ n.pending = b.pending /\ n.cur.t = b.cur.t
    BY DEF Emitted
<1>2. EpochOK(b.cur) /\ b.cur.t = b.stamp /\ b.stamp \in Nat
    BY DEF Settled, EpochOK
<1>3. b.cur \in Epochs(d, b) /\ Epochs(d, n) \subseteq Epochs(d, b) \cup {n.cur}
    BY <1>1 DEF Epochs
<1>4. Flagged(n.cur, n.prevLock)
  <2>1. Flagged(b.cur, b.prevLock)
      BY <1>2, <1>3 DEF FlagsOK
  <2>2. f \in 1 .. Len(Msgs)
      BY DEF InputOK
  <2>3. QED
      BY <1>2, <2>1, <2>2, EmitFlags
<1>5. /\ w[new] = f /\ RecordsOf(w, Len(w)) = RecordsOf(m, Len(m)) \cup {new}
      /\ \A i \in RecordsOf(m, Len(m)) : w[i] = m[i] /\ TimeOf(w, i) = TimeOf(m, i)
  <2>1. Grown(m, f, w)
      BY RecordsAppend
  <2> HIDE DEF w
  <2>2. QED
      BY <2>1 DEF Grown
<1> HIDE DEF new
<1>6. ASSUME NEW e \in Epochs(d, n)
      PROVE  EpochOK(e) /\ e.t <= n.stamp /\ (e.t = n.stamp => Flagged(e, n.prevLock))
  <2>1. CASE e = n.cur
      BY <1>1, <1>2, <1>4, <2>1
  <2>2. CASE e \in Epochs(d, b)
      BY <1>1, <2>2 DEF FlagsOK
  <2>3. QED
      BY <1>3, <2>1, <2>2
<1>7. ASSUME NEW i \in RecordsOf(w, Len(w)), NEW e \in Epochs(d, n), TimeOf(w, i) < n.stamp
      PROVE  SlipsIn(e, w, i)
  <2>1. i \in RecordsOf(m, Len(m)) /\ TimeOf(m, i) < b.stamp
    <3>1. TimeOf(w, new) = b.stamp
        BY <1>5 DEF TimeOf
    <3>2. QED
        BY <1>1, <1>2, <1>5, <1>7, <3>1
  <2>2. CASE e \in Epochs(d, b)
    <3>1. SlipsIn(e, m, i)
        BY <2>1, <2>2 DEF FlagsOK
    <3>2. QED
        BY <2>1, <3>1, SlipsAppend
  <2>3. CASE e = n.cur
    <3>1. w[i] \notin Range(n.cur.from)
      <4>1. ASSUME w[i] \in Range(n.cur.from) PROVE FALSE
        <5>1. Msgs[w[i]].t = n.cur.t
            BY <4>1, TimesAgree
        <5>2. TimeOf(w, i) = b.stamp
            BY <1>1, <1>2, <5>1 DEF TimeOf
        <5>3. QED
            BY <1>1, <1>2, <1>7, <5>2
      <4>2. QED
          BY <4>1
    <3>2. QED
        BY <2>3, <3>1 DEF SlipsIn
  <2>4. QED
      BY <1>3, <2>2, <2>3
<1>8. QED
    BY <1>6, <1>7 DEF FlagsOK, w

\* Another message changes no flag.
LEMMA FlagsOther ==
  ASSUME InputOK, NEW m \in Seq(1 .. Bad), NEW d, NEW l, FlagsOK(Epochs(d, l), l, m),
         NEW f \in 1 .. Bad, ~(f # Bad /\ IsRecord(Msgs[f])),
         NEW n, n.cur = l.cur, n.pending = l.pending, n.stamp = l.stamp, n.prevLock = l.prevLock
  PROVE  FlagsOK(Epochs(d, n), n, Append(m, f))
<1> DEFINE w == Append(m, f)
<1>1. Epochs(d, n) = Epochs(d, l)
    BY DEF Epochs
<1>2. /\ RecordsOf(w, Len(w)) = RecordsOf(m, Len(m))
      /\ \A i \in RecordsOf(m, Len(m)) : TimeOf(w, i) = TimeOf(m, i)
  <2>1. Grown(m, f, w)
      BY RecordsAppend
  <2> HIDE DEF w
  <2>2. QED
      BY <2>1 DEF Grown
<1>3. ASSUME NEW i \in RecordsOf(m, Len(m)), NEW e, SlipsIn(e, m, i) PROVE SlipsIn(e, w, i)
    BY <1>3, SlipsAppend
<1> HIDE DEF w
<1>4. QED
    BY <1>1, <1>2, <1>3 DEF FlagsOK, w

-----------------------------------------------------------------------------
(* One epoch of a time stamp while the reader is not drained.              *)

\* The epochs handed out have rising time stamps below that of the epoch that waits,
\* and below the current one unless the reader is drained and has begun no more.
SingleOK(d, l, z) ==
  /\ \A i, j \in 1 .. Len(d) : i < j => d[i].t < d[j].t
  /\ \A i \in 1 .. Len(d) : d[i].t \in Nat /\ d[i].t <= l.stamp
  /\ (\E i \in 1 .. Len(d) : d[i].t = l.stamp) => z /\ l.cur.from = <<>>
  /\ \A e \in l.pending : e.t < l.stamp /\ \A i \in 1 .. Len(d) : d[i].t < e.t

LEMMA SingleAppend ==
  ASSUME NEW E, NEW d \in Seq(E), NEW e \in E, e.t \in Nat,
         \A i, j \in 1 .. Len(d) : i < j => d[i].t < d[j].t,
         \A i \in 1 .. Len(d) : d[i].t \in Nat /\ d[i].t < e.t,
         NEW w, w = Append(d, e)
  PROVE  /\ \A i, j \in 1 .. Len(w) : i < j => w[i].t < w[j].t
         /\ \A i \in 1 .. Len(w) : w[i].t \in Nat /\ w[i].t <= e.t
         /\ \A i \in 1 .. Len(w) : (i \in 1 .. Len(d) /\ w[i] = d[i]) \/ w[i] = e
<1>1. Len(w) = Len(d) + 1 /\ w[Len(d) + 1] = e /\ Len(d) \in Nat
      /\ \A i \in 1 .. Len(d) : w[i] = d[i]
    OBVIOUS
<1>2. \A i \in 1 .. Len(w) : i \in 1 .. Len(d) \/ i = Len(d) + 1
    BY <1>1
<1>3. ASSUME NEW i \in 1 .. Len(w), NEW j \in 1 .. Len(w), i < j PROVE w[i].t < w[j].t
  <2>1. i \in 1 .. Len(d)
      BY <1>1, <1>3
  <2>2. QED
      BY <1>1, <1>2, <1>3, <2>1
<1>4. QED
    BY <1>1, <1>2, <1>3

\* Handing out e, the epoch that waits or the one collected.
LEMMA SingleHand ==
  ASSUME NEW E, NEW d \in Seq(E), NEW e \in E, e.t \in Nat, NEW l, NEW z, SingleOK(d, l, z),
         \A i \in 1 .. Len(d) : d[i].t < e.t,
         NEW n, n.stamp = l.stamp, n.pending = {}, l.stamp \in Nat, e.t <= l.stamp,
         NEW y, e.t = l.stamp => y /\ n.cur.from = <<>>,
         (\E i \in 1 .. Len(d) : d[i].t = l.stamp) => y /\ n.cur.from = <<>>
  PROVE  SingleOK(Append(d, e), n, y)
<1>1. PICK w : w = Append(d, e)
    OBVIOUS
<1>2. /\ \A i, j \in 1 .. Len(d) : i < j => d[i].t < d[j].t
      /\ \A i \in 1 .. Len(d) : d[i].t \in Nat /\ d[i].t < e.t
    BY DEF SingleOK
<1>3. /\ \A i, j \in 1 .. Len(w) : i < j => w[i].t < w[j].t
      /\ \A i \in 1 .. Len(w) : w[i].t \in Nat /\ w[i].t <= e.t
      /\ \A i \in 1 .. Len(w) : (i \in 1 .. Len(d) /\ w[i] = d[i]) \/ w[i] = e
    BY <1>1, <1>2, SingleAppend
<1>4. \A i \in 1 .. Len(w) : w[i].t \in Nat /\ w[i].t <= n.stamp
    BY <1>3
<1>5. (\E i \in 1 .. Len(w) : w[i].t = n.stamp) => y /\ n.cur.from = <<>>
    BY <1>3
<1>6. SingleOK(w, n, y)
    BY <1>3, <1>4, <1>5 DEF SingleOK
<1>7. QED
    BY <1>1, <1>6

\* beginEpoch, and emitObs after it.
LEMMA SingleParse ==
  ASSUME NEW d, NEW l, Settled(l), l.pending = {}, SingleOK(d, l, FALSE), NEW t \in Nat, l.stamp <= t,
         NEW b, Begun(l, t, b), NEW n, n.pending = b.pending, n.stamp = b.stamp
  PROVE  SingleOK(d, n, FALSE)
<1>1. l.stamp \in Nat /\ l.cur.t = l.stamp
    BY DEF Settled, EpochOK
<1>2. /\ \A i, j \in 1 .. Len(d) : i < j => d[i].t < d[j].t
      /\ \A i \in 1 .. Len(d) : d[i].t \in Nat /\ d[i].t <= l.stamp /\ d[i].t # l.stamp
    BY DEF SingleOK
<1>3. \A i \in 1 .. Len(d) : d[i].t < l.stamp
    BY <1>1, <1>2
<1>4. CASE t = l.stamp
    BY <1>2, <1>4 DEF Begun, SingleOK
<1>5. CASE t # l.stamp
  <2>1. n.stamp = t /\ n.pending \subseteq {l.cur} /\ l.stamp < t
      BY <1>1, <1>5 DEF Begun
  <2>2. \A i \in 1 .. Len(d) : d[i].t < t
      BY <1>1, <1>2, <1>3, <2>1
  <2>3. QED
      BY <1>1, <1>2, <1>3, <2>1, <2>2 DEF SingleOK
<1>6. QED
    BY <1>4, <1>5

-----------------------------------------------------------------------------
(* What is read in time order makes sound epochs.                          *)

Sounds(d, l, m, z) ==
  /\ InOrder(m) /\ LocksOK(m, l) /\ FlagsOK(Epochs(d, l), l, m)
  /\ ~Socket => SingleOK(d, l, z)

Sound == Reading /\ RecordsInOrder /\ Sounds(delivered, log, got, drained)

LEMMA SameSound ==
  ASSUME UNCHANGED input
  PROVE  RecordsInOrder' = RecordsInOrder /\ \A d, l, m, z : Sounds(d, l, m, z)' = Sounds(d, l, m, z)
<1>1. Bad' = Bad /\ Msgs' = Msgs /\ Socket' = Socket /\ \A e : EpochOK(e)' = EpochOK(e)
    BY SameLog DEF Socket
<1>2. ASSUME NEW c, NEW x PROVE FrameAt(c, x)' = FrameAt(c, x)
    BY <1>1 DEF FrameAt, CrcOk
<1>3. RecordsInOrder' = RecordsInOrder
    BY <1>1, <1>2 DEF RecordsInOrder
<1>4. ASSUME NEW m, NEW n PROVE RecordsOf(m, n)' = RecordsOf(m, n) /\ TimeOf(m, n)' = TimeOf(m, n)
    BY <1>1 DEF RecordsOf, TimeOf
<1>5. ASSUME NEW m PROVE InOrder(m)' = InOrder(m)
    BY <1>4 DEF InOrder
<1>6. ASSUME NEW m, NEW t, NEW s PROVE LocksAt(m, t, s)' = LocksAt(m, t, s)
    BY <1>1, <1>4 DEF LocksAt
<1>7. ASSUME NEW k, NEW m, NEW t PROVE Lowest(k, m, t)' = Lowest(k, m, t)
    BY <1>6 DEF Lowest
<1>8. ASSUME NEW m, NEW l PROVE LocksOK(m, l)' = LocksOK(m, l)
    BY <1>4, <1>7 DEF LocksOK, Latest, Reached, PrevIs
<1>9. ASSUME NEW m, NEW n PROVE StampBefore(m, n)' = StampBefore(m, n)
  <2> DEFINE O == {i \in RecordsOf(m, n) : TimeOf(m, i) # TimeOf(m, n)}
             B(x) == {m[i] : i \in {j \in RecordsOf(m, n) : TimeOf(m, j) = TimeOf(m, x)}}
  <2>1. O' = O
      BY <1>4
  <2>2. ASSUME NEW x PROVE B(x)' = B(x)
      BY <1>4
  <2>3. StampBefore(m, n) = (IF O = {} THEN {} ELSE B(Max(O)))
      BY DEF StampBefore
  <2>4. StampBefore(m, n)' = (IF O' = {} THEN {} ELSE B(Max(O))')
      BY DEF StampBefore
  <2> HIDE DEF O, B
  <2>5. QED
      BY <2>1, <2>2, <2>3, <2>4
<1>10. ASSUME NEW m, NEW n, NEW s PROVE Slipped(m, n, s)' = Slipped(m, n, s)
    BY <1>1, <1>9 DEF Slipped
<1>11. ASSUME NEW e, NEW m, NEW n PROVE SlipsIn(e, m, n)' = SlipsIn(e, m, n)
    BY <1>1, <1>10 DEF SlipsIn
<1>12. ASSUME NEW e, NEW k PROVE Flagged(e, k)' = Flagged(e, k)
    BY <1>1 DEF Flagged
<1>13. ASSUME NEW S, NEW l, NEW m PROVE FlagsOK(S, l, m)' = FlagsOK(S, l, m)
    BY <1>1, <1>4, <1>11, <1>12 DEF FlagsOK
<1>14. ASSUME NEW d, NEW l, NEW m, NEW z PROVE Sounds(d, l, m, z)' = Sounds(d, l, m, z)
    BY <1>1, <1>5, <1>8, <1>13 DEF Sounds
<1>15. QED
    BY <1>3, <1>14

LEMMA SoundCarries ==
  ASSUME UNCHANGED input, NEW d, NEW l, NEW m, NEW z, Sounds(d, l, m, z),
         delivered' = d, log' = l, got' = m, drained' = z
  PROVE  Sounds(delivered, log, got, drained)'
BY SameSound

\* A record comes after those that were read.
LEMMA ReadInOrder ==
  ASSUME ReadOK, RecordsInOrder, NEW l, LocksOK(got, l), NEW f \in 1 .. Bad, f # Bad,
         IsRecord(Msgs[f]), NEW x, Here <= x, Sent(x, f)
  PROVE  Latest(got, Msgs[f].t) /\ l.stamp <= Msgs[f].t /\ Msgs[f].t \in Nat
<1>1. InputOK /\ got \in Seq(1 .. Bad) /\ Here \in Nat
  <2>1. InputOK /\ got \in Seq(1 .. Bad)
      BY DEF ReadOK
  <2>2. Here \in Nat
    <3>1. Left \in Nat /\ arrived + 0 = arrived
        BY DEF ReadOK, InputOK, Left
    <3>2. 0 \in 0 .. Left
        BY <3>1
    <3>3. QED
        BY <3>1, <3>2, FilledIs
  <2>3. QED
      BY <2>1, <2>2
<1>2. Msgs[f].t \in Nat
  <2>1. f \in 1 .. Len(Msgs)
      BY <1>1 DEF InputOK
  <2>2. QED
      BY <1>1, <2>1 DEF InputOK
<1> DEFINE c == input.cells
           At == {y \in 0 .. Len(c) : FrameAt(c, y) /\ IsRecord(Msgs[c[y + 4].f])}
<1>3. ASSUME NEW y, NEW g, Sent(y, g), IsRecord(Msgs[g]) PROVE y \in At /\ c[y + 4].f = g /\ y \in Nat
  <2>1. y \in Nat /\ FrameAt(c, y) /\ c[y + 4].f = g
      BY <1>3 DEF Sent
  <2>2. Len(c) \in Nat /\ ~(Len(c) - y < HeadLen) /\ HeadLen \in Nat
    <3>1. ~HeaderShort(c, y)
        BY <2>1 DEF FrameAt
    <3>2. Len(c) \in Nat
        BY <1>1 DEF InputOK
    <3>3. QED
        BY <3>1, <3>2, HeadLenAssumption DEF HeaderShort
  <2>3. y \in 0 .. Len(c)
      BY <2>1, <2>2
  <2>4. QED
      BY <1>3, <2>1, <2>3
<1>4. \A y, z \in At : y < z => Msgs[c[y + 4].f].t <= Msgs[c[z + 4].f].t
    BY DEF RecordsInOrder
<1> HIDE DEF c, At
<1>5. x \in At /\ c[x + 4].f = f /\ x \in Nat
    BY <1>3
<1>6. ASSUME NEW i \in RecordsOf(got, Len(got)) PROVE TimeOf(got, i) <= Msgs[f].t
  <2>1. i \in 1 .. Len(got) /\ got[i] # Bad /\ IsRecord(Msgs[got[i]])
      BY DEF RecordsOf
  <2>2. PICK y : y < Here /\ Sent(y, got[i])
      BY <2>1 DEF ReadOK
  <2>3. y \in At /\ c[y + 4].f = got[i] /\ y \in Nat
      BY <1>3, <2>1, <2>2
  <2>4. y < x
      BY <1>1, <1>5, <2>2, <2>3
  <2>5. QED
      BY <1>4, <1>5, <2>3, <2>4 DEF TimeOf
<1>7. l.stamp <= Msgs[f].t
  <2>1. CASE RecordsOf(got, Len(got)) = {}
      BY <1>2, <2>1 DEF LocksOK, Reached
  <2>2. CASE RecordsOf(got, Len(got)) # {}
      BY <1>6, <2>2 DEF LocksOK, Reached
  <2>3. QED
      BY <2>1, <2>2
<1>8. QED
    BY <1>2, <1>6, <1>7 DEF Latest

\* A message is parsed.
LEMMA ParseSounds ==
  ASSUME InputOK, NEW d, NEW l, NEW m \in Seq(1 .. Bad), Settled(l), l.pending = {},
         Sounds(d, l, m, FALSE), NEW f \in 1 .. Bad,
         f # Bad /\ IsRecord(Msgs[f]) =>
           Latest(m, Msgs[f].t) /\ l.stamp <= Msgs[f].t /\ Msgs[f].t \in Nat,
         NEW n, n = Parse(l, f)
  PROVE  Sounds(d, n, Append(m, f), FALSE)
<1>1. /\ InOrder(m) /\ LocksOK(m, l) /\ FlagsOK(Epochs(d, l), l, m)
      /\ ~Socket => SingleOK(d, l, FALSE)
    BY DEF Sounds
<1>2. InOrder(Append(m, f))
    BY <1>1, OrderAppend
<1>3. CASE f # Bad /\ IsRecord(Msgs[f])
  <2>1. PICK t \in Nat : t = Msgs[f].t
      BY <1>3
  <2>2. PICK b : b = BeginEpoch(l, t)
      OBVIOUS
  <2>3. n = EmitObs(b, f)
      BY <1>3, <2>1, <2>2 DEF Parse
  <2>4. LogShape(l)
      BY DEF Settled
  <2>5. Begun(l, t, b)
      BY <2>2, <2>4, BeginIs
  <2>6. BeginsFor(l, t, b)
      BY <2>2, BeginSettles
  <2>7. Settled(b) /\ b.stamp = t
      BY <2>6 DEF BeginsFor
  <2>8. LogShape(b) /\ EpochOK(b.cur) /\ EpochShape(b.cur)
      BY <2>7 DEF Settled, EpochOK
  <2>9. Emitted(b, f, n)
      BY <2>3, <2>8, EmitIs
  <2>10. f \in 1 .. Len(Msgs)
      BY <1>3 DEF InputOK
  <2>11. /\ Settled(n) /\ n.stamp = b.stamp /\ n.pending = b.pending
         /\ n.cur.from = IF IsObs(f) THEN Append(b.cur.from, f) ELSE b.cur.from
      BY <1>3, <2>1, <2>3, <2>7, <2>10, EmitSettles
  <2>12. l.stamp <= t
      BY <1>3, <2>1
  <2>13. BegunLocks(m, b, t)
      BY <1>1, <2>5, <2>12, BeginLocks
  <2>14. LocksOK(Append(m, f), n)
      BY <1>3, <2>1, <2>9, <2>13, EmitLocks
  <2>15. FlagsOK(Epochs(d, b), b, m)
      BY <1>1, <2>5, <2>12, FlagsBegin
  <2>16. EpochOK(n.cur) /\ Msgs[f].t = b.stamp
      BY <2>1, <2>7, <2>11 DEF Settled
  <2>17. FlagsOK(Epochs(d, n), n, Append(m, f))
      BY <1>3, <2>7, <2>9, <2>11, <2>15, <2>16, FlagsEmit
  <2>18. ~Socket => SingleOK(d, n, FALSE)
      BY <1>1, <2>5, <2>11, <2>12, SingleParse
  <2>19. QED
      BY <1>2, <2>14, <2>17, <2>18 DEF Sounds
<1>4. CASE ~(f # Bad /\ IsRecord(Msgs[f]))
  <2>1. n = StoreEph(l, f) \/ n = l
      BY <1>4 DEF Parse
  <2>2. /\ n.cur = l.cur /\ n.pending = l.pending /\ n.stamp = l.stamp
        /\ n.prevLock = l.prevLock /\ n.curLock = l.curLock
    <3>1. CASE n = StoreEph(l, f)
        BY <3>1, StoreSettles DEF Settled
    <3>2. QED
        BY <2>1, <3>1
  <2>3. LocksOK(Append(m, f), n)
      BY <1>1, <1>4, <2>2, OtherLocks
  <2>4. FlagsOK(Epochs(d, n), n, Append(m, f))
      BY <1>1, <1>4, <2>2, FlagsOther
  <2>5. ~Socket => SingleOK(d, n, FALSE)
      BY <1>1, <2>2 DEF SingleOK
  <2>6. QED
      BY <1>2, <2>3, <2>4, <2>5 DEF Sounds
<1>5. QED
    BY <1>3, <1>4

-----------------------------------------------------------------------------
(* Every step keeps the epochs sound.                                      *)

LEMMA GivenSeq ==
  ASSUME NEW d, Given(d), NEW e, EpochOK(e)
  PROVE  \E F : d \in Seq(F) /\ e \in F
<1>1. PICK E : d \in Seq(E) /\ \A x \in E : EpochOK(x)
    BY DEF Given
<1> DEFINE F == E \cup {e}
<1>2. d \in Seq(F) /\ e \in F
    BY <1>1
<1> HIDE DEF F
<1>3. QED
    BY <1>2

LEMMA GivenRange ==
  ASSUME NEW d, Given(d), NEW e, EpochOK(e)
  PROVE  Range(Append(d, e)) \subseteq Range(d) \cup {e}
<1>2. PICK w : w = Append(d, e)
    OBVIOUS
<1>3. PICK F : d \in Seq(F) /\ e \in F
    BY GivenSeq
<1>4. w \in Seq(F) /\ Len(w) = Len(d) + 1 /\ w[Len(d) + 1] = e /\ Len(d) \in Nat
      /\ \A i \in 1 .. Len(d) : w[i] = d[i]
    BY <1>2, <1>3
<1>5. DOMAIN d = 1 .. Len(d) /\ DOMAIN w = 1 .. Len(w)
    BY <1>3, <1>4
<1>6. \A i \in 1 .. Len(w) : i \in 1 .. Len(d) \/ i = Len(d) + 1
    BY <1>4
<1>7. Range(w) \subseteq Range(d) \cup {e}
    BY <1>4, <1>5, <1>6 DEF Range
<1>8. QED
    BY <1>2, <1>7

\* The epoch that waits is handed out.
LEMMA HandSounds ==
  ASSUME InputOK, NEW d, NEW l, NEW m, NEW z, Settled(l), Given(d), Sounds(d, l, m, z),
         NEW e \in l.pending, EpochOK(e), NEW n, n = [l EXCEPT !.pending = {}]
  PROVE  Sounds(Append(d, e), n, m, z)
<1>1. LogShape(l) /\ EpochOK(l.cur) /\ l.cur.t = l.stamp /\ l.stamp \in Nat /\ e.t \in Nat
    BY DEF Settled, EpochOK
<1>2. /\ n.cur = l.cur /\ n.pending = {} /\ n.stamp = l.stamp
      /\ n.prevLock = l.prevLock /\ n.curLock = l.curLock
    BY <1>1 DEF LogShape
<1>3. PICK w : w = Append(d, e)
    OBVIOUS
<1>4. /\ InOrder(m) /\ LocksOK(m, l) /\ FlagsOK(Epochs(d, l), l, m)
      /\ ~Socket => SingleOK(d, l, z)
    BY DEF Sounds
<1>5. LocksOK(m, n)
    BY <1>2, <1>4 DEF LocksOK
<1>6. FlagsOK(Epochs(w, n), n, m)
  <2>1. PICK x : x = [t |-> l.stamp, obs |-> <<>>, lli |-> <<>>, from |-> <<>>]
      OBVIOUS
  <2>2. EpochOK(x) /\ x.from = <<>> /\ x.t = l.stamp
      BY <1>1, <2>1, NothingIsOK
  <2>3. Epochs(w, n) \subseteq Epochs(d, l) \cup {x}
      BY <1>2, <1>3, GivenRange DEF Epochs
  <2>4. x.t <= l.stamp
      BY <1>1, <2>2
  <2>5. QED
      BY <1>2, <1>4, <2>2, <2>3, <2>4, FlagsHand
<1>7. ASSUME ~Socket PROVE SingleOK(w, n, z)
  <2>2. PICK F : d \in Seq(F) /\ e \in F
      BY GivenSeq
  <2>3. SingleOK(d, l, z)
      BY <1>4, <1>7
  <2>4. e.t < l.stamp /\ \A i \in 1 .. Len(d) : d[i].t < e.t /\ d[i].t \in Nat
      BY <2>3 DEF SingleOK
  <2>5. e.t <= l.stamp /\ e.t # l.stamp /\ ~\E i \in 1 .. Len(d) : d[i].t = l.stamp
      BY <1>1, <2>4
  <2>6. QED
      BY <1>1, <1>2, <1>3, <2>2, <2>3, <2>4, <2>5, SingleHand
<1>8. QED
    BY <1>3, <1>4, <1>5, <1>6, <1>7 DEF Sounds

\* A drained reader hands out what it has collected.
LEMMA CurSounds ==
  ASSUME InputOK, NEW d, NEW l, NEW m, NEW z, Settled(l), Given(d), Sounds(d, l, m, z),
         l.pending = {}, HasObs(l.cur),
         NEW n, LogShape(l), n = [l EXCEPT !.cur = [EmptyObs EXCEPT !.t = l.cur.t]],
         Settled(n), n.cur.from = <<>>
  PROVE  Sounds(Append(d, l.cur), n, m, TRUE)
<1>1. EpochOK(l.cur) /\ l.cur.t = l.stamp /\ l.stamp \in Nat
    BY DEF Settled, EpochOK
<1>2. /\ n.pending = {} /\ n.stamp = l.stamp
      /\ n.prevLock = l.prevLock /\ n.curLock = l.curLock
  <2>1. PICK c : c = [EmptyObs EXCEPT !.t = l.cur.t]
      OBVIOUS
  <2>2. n = [l EXCEPT !.cur = c]
      BY <2>1
  <2>3. QED
      BY <2>2 DEF LogShape
<1>3. PICK w : w = Append(d, l.cur)
    OBVIOUS
<1>4. /\ InOrder(m) /\ LocksOK(m, l) /\ FlagsOK(Epochs(d, l), l, m)
      /\ ~Socket => SingleOK(d, l, z)
    BY DEF Sounds
<1>5. LocksOK(m, n)
    BY <1>2, <1>4 DEF LocksOK
<1>6. FlagsOK(Epochs(w, n), n, m)
  <2>1. EpochOK(n.cur) /\ n.cur.t = l.stamp /\ n.cur.t <= l.stamp
      BY <1>1, <1>2 DEF Settled
  <2>2. Epochs(w, n) \subseteq Epochs(d, l) \cup {n.cur}
      BY <1>1, <1>2, <1>3, GivenRange DEF Epochs
  <2>3. QED
      BY <1>2, <1>4, <2>1, <2>2, FlagsHand
<1>7. ASSUME ~Socket PROVE SingleOK(w, n, TRUE)
  <2>2. PICK F : d \in Seq(F) /\ l.cur \in F
      BY <1>1, GivenSeq
  <2>3. SingleOK(d, l, z)
      BY <1>4, <1>7
  <2>4. l.cur.from # <<>>
      BY <1>1, HasObsIs
  <2>5. \A i \in 1 .. Len(d) : d[i].t \in Nat /\ d[i].t <= l.stamp /\ d[i].t # l.stamp
      BY <2>3, <2>4 DEF SingleOK
  <2>6. \A i \in 1 .. Len(d) : d[i].t < l.cur.t
      BY <1>1, <2>5
  <2>7. l.cur.t \in Nat /\ l.cur.t <= l.stamp /\ ~\E i \in 1 .. Len(d) : d[i].t = l.stamp
      BY <1>1, <2>5
  <2>8. SingleOK(Append(d, l.cur), n, TRUE)
      BY <1>1, <1>2, <2>2, <2>3, <2>6, <2>7, SingleHand
  <2>9. QED
      BY <1>3, <2>8
<1>8. QED
    BY <1>3, <1>4, <1>5, <1>6, <1>7 DEF Sounds

\* A drained reader has nothing to hand out.
LEMMA DrainSounds ==
  ASSUME NEW d, NEW l, NEW m, NEW z, Sounds(d, l, m, z), l.cur.from = <<>>
  PROVE  Sounds(d, l, m, TRUE)
BY DEF Sounds, SingleOK

LEMMA StartSounds ==
  ASSUME Reading, got = <<>>, delivered = <<>>, log = LogInit, drained = FALSE
  PROVE  Sounds(delivered, log, got, drained)
<1>1. /\ log.cur = [t |-> 0, obs |-> <<>>, lli |-> <<>>, from |-> <<>>]
      /\ log.pending = {} /\ log.stamp = 0 /\ log.prevLock = <<>> /\ log.curLock = <<>>
    BY DEF LogInit, EmptyObs, NoStamp, NoPending
<1>2. RecordsOf(got, Len(got)) = {} /\ DOMAIN <<>> = {} /\ Len(got) = 0 /\ Len(delivered) = 0
      /\ Range(delivered) = {}
    BY DEF RecordsOf, Range
<1>3. \A t, s : LocksAt(got, t, s) = {}
    BY <1>2 DEF LocksAt
<1>4. InOrder(got)
    BY <1>2 DEF InOrder
<1>5. LocksOK(got, log)
    BY <1>1, <1>2, <1>3 DEF LocksOK, Latest, Reached, PrevIs, Lowest
<1>6. EpochOK(log.cur) /\ log.cur.from = <<>> /\ log.cur.t = 0
    BY <1>1, NothingIsOK DEF Reading, ReadOK
<1>7. FlagsOK(Epochs(delivered, log), log, got)
  <2>1. Epochs(delivered, log) = {log.cur}
      BY <1>1, <1>2 DEF Epochs
  <2>2. Flagged(log.cur, log.prevLock)
      BY <1>6, NothingToFlag
  <2>3. QED
      BY <1>1, <1>2, <1>6, <2>1, <2>2 DEF FlagsOK
<1>8. SingleOK(delivered, log, drained)
    BY <1>1, <1>2 DEF SingleOK
<1>9. QED
    BY <1>4, <1>5, <1>7, <1>8 DEF Sounds

LEMMA HandPendingSounds ==
  ASSUME Sound, HandPending
  PROVE  Sounds(delivered, log, got, drained)'
<1>1. PICK e \in log.pending : delivered' = Append(delivered, e)
    BY DEF HandPending
<1>2. UNCHANGED <<input, drained, got>> /\ log' = [log EXCEPT !.pending = {}]
    BY DEF HandPending, NoPending
<1>3. PICK n : n = [log EXCEPT !.pending = {}]
    OBVIOUS
<1>4. PICK d : d = Append(delivered, e)
    OBVIOUS
<1>5. /\ InputOK /\ Settled(log) /\ Given(delivered) /\ Flows(delivered, log, got)
      /\ Sounds(delivered, log, got, drained)
    BY DEF Sound, Reading, ReadOK, LogOK
<1>6. EpochOK(e)
    BY <1>3, <1>5, HandFlows
<1>7. Sounds(d, n, got, drained)
    BY <1>3, <1>4, <1>5, <1>6, HandSounds
<1>8. delivered' = d /\ log' = n /\ got' = got /\ drained' = drained /\ UNCHANGED input
    BY <1>1, <1>2, <1>3, <1>4
<1>9. QED
    BY <1>7, <1>8, SoundCarries

LEMMA ReadMessageSounds ==
  ASSUME Sound, NEW k \in 0 .. Left, ReadMessage(k)
  PROVE  Sounds(delivered, log, got, drained)'
<1>1. PICK r : r = Scan(Filled(k), bufferIndex)
    OBVIOUS
<1>2. /\ r.msg # 0 /\ buffer' = r.buf /\ bufferIndex' = r.idx /\ log' = Parse(log, r.msg)
      /\ got' = Append(got, r.msg) /\ drained' = FALSE /\ log.pending = {}
      /\ UNCHANGED <<input, delivered, ended>> /\ arrived' = arrived + k
      /\ connected' \in {FALSE, connected}
    BY <1>1 DEF ReadMessage, Receive, NoPending
<1>3. ScanStep(k, r)
    BY <1>1, <1>2 DEF ScanStep
<1>4. /\ ReadOK /\ InputOK /\ Settled(log) /\ Sounds(delivered, log, got, drained)
      /\ RecordsInOrder /\ got \in Seq(1 .. Bad)
    BY DEF Sound, Reading, ReadOK, LogOK
<1>5. connected' \in BOOLEAN /\ ended' \in BOOLEAN
    BY <1>2, <1>4 DEF ReadOK
<1>6. r.msg \in 1 .. Bad /\ (r.msg # Bad => \E x : Here <= x /\ Sent(x, r.msg))
    BY <1>2, <1>3, <1>4, <1>5, ScanStepKeeps
<1>7. ~Socket => ~drained
  <2>1. SUFFICES ASSUME ~Socket, drained PROVE FALSE
      OBVIOUS
  <2>2. BinaryScan(buffer, bufferIndex).msg = 0
      BY <1>4, <2>1 DEF ReadOK
  <2>3. Filled(k) = buffer
    <3>1. PICK e : e = arrived + k
        OBVIOUS
    <3>2. QED
        BY <1>4, <2>1, <3>1, FilledIs
  <2>4. r = BinaryScan(buffer, bufferIndex)
      BY <1>1, <2>1, <2>3 DEF Scan, Socket
  <2>5. QED
      BY <1>2, <2>2, <2>4
<1>8. Sounds(delivered, log, got, FALSE)
  <2>1. drained \in BOOLEAN
      BY <1>4 DEF ReadOK
  <2>2. CASE Socket
      BY <1>4, <2>2 DEF Sounds
  <2>3. CASE ~Socket
      BY <1>4, <1>7, <2>1, <2>3
  <2>4. QED
      BY <2>2, <2>3
<1>9. r.msg # Bad /\ IsRecord(Msgs[r.msg]) =>
        Latest(got, Msgs[r.msg].t) /\ log.stamp <= Msgs[r.msg].t /\ Msgs[r.msg].t \in Nat
  <2>1. SUFFICES ASSUME r.msg # Bad, IsRecord(Msgs[r.msg])
                 PROVE  Latest(got, Msgs[r.msg].t) /\ log.stamp <= Msgs[r.msg].t /\ Msgs[r.msg].t \in Nat
      OBVIOUS
  <2>2. PICK x : Here <= x /\ Sent(x, r.msg)
      BY <1>6, <2>1
  <2>3. LocksOK(got, log)
      BY <1>4 DEF Sounds
  <2>4. QED
      BY <1>4, <1>6, <2>1, <2>2, <2>3, ReadInOrder
<1>10. PICK n : n = Parse(log, r.msg)
    OBVIOUS
<1>11. PICK m : m = Append(got, r.msg)
    OBVIOUS
<1>12. PICK f \in 1 .. Bad : f = r.msg
    BY <1>6
<1>13. Sounds(delivered, n, m, FALSE)
    BY <1>2, <1>4, <1>8, <1>9, <1>10, <1>11, <1>12, ParseSounds
<1>14. delivered' = delivered /\ log' = n /\ got' = m /\ drained' = FALSE /\ UNCHANGED input
    BY <1>2, <1>10, <1>11
<1>15. QED
    BY <1>13, <1>14, SoundCarries

LEMMA FindNothingSounds ==
  ASSUME Sound, NEW k \in 0 .. Left, FindNothing(k)
  PROVE  Sounds(delivered, log, got, drained)'
<1>1. /\ got' = got /\ drained' = TRUE /\ log.pending = {} /\ UNCHANGED input
      /\ IF HasObs(log.cur)
         THEN /\ delivered' = Append(delivered, log.cur)
              /\ log' = [log EXCEPT !.cur = [EmptyObs EXCEPT !.t = log.cur.t]]
         ELSE UNCHANGED <<delivered, log>>
    BY DEF FindNothing, NoPending
<1>2. /\ InputOK /\ Settled(log) /\ Given(delivered) /\ Flows(delivered, log, got)
      /\ Sounds(delivered, log, got, drained)
    BY DEF Sound, Reading, ReadOK, LogOK
<1>3. CASE HasObs(log.cur)
  <2>1. PICK n : n = [log EXCEPT !.cur = [EmptyObs EXCEPT !.t = log.cur.t]]
      OBVIOUS
  <2>2. PICK d : d = Append(delivered, log.cur)
      OBVIOUS
  <2>3. LogShape(log)
      BY <1>2 DEF Settled
  <2>4. Settled(n) /\ n.cur.from = <<>>
    <3>1. Settled(n) /\ Given(Append(delivered, log.cur))
        BY <1>1, <1>2, <2>1, CurFlows
    <3>2. n.cur.from = <<>>
      <4>1. PICK c : c = [EmptyObs EXCEPT !.t = log.cur.t]
          OBVIOUS
      <4>2. c.from = <<>>
          BY <4>1 DEF EmptyObs
      <4>3. n = [log EXCEPT !.cur = c]
          BY <2>1, <4>1
      <4>4. QED
          BY <2>3, <4>2, <4>3 DEF LogShape
    <3>3. QED
        BY <3>1, <3>2
  <2>5. Sounds(d, n, got, TRUE)
      BY <1>1, <1>2, <1>3, <2>1, <2>2, <2>3, <2>4, CurSounds
  <2>6. delivered' = d /\ log' = n /\ got' = got /\ drained' = TRUE
      BY <1>1, <1>3, <2>1, <2>2
  <2>7. QED
      BY <1>1, <2>5, <2>6, SoundCarries
<1>4. CASE ~HasObs(log.cur)
  <2>1. log.cur.from = <<>>
      BY <1>2, <1>4, HasObsIs DEF Settled
  <2>2. Sounds(delivered, log, got, TRUE)
      BY <1>2, <2>1, DrainSounds
  <2>3. delivered' = delivered /\ log' = log /\ got' = got /\ drained' = TRUE
      BY <1>1, <1>4
  <2>4. QED
      BY <1>1, <2>2, <2>3, SoundCarries
<1>5. QED
    BY <1>3, <1>4

LEMMA StepSounds ==
  ASSUME Sound, [LogsNext]_logsVars
  PROVE  Sound'
<1>1. Reading'
    BY StepKeeps DEF Sound
<1>2. UNCHANGED input
    BY DEF LogsNext, HandPending, ReadMessage, FindNothing, logsVars
<1>3. RecordsInOrder'
    BY <1>2, SameSound DEF Sound
<1>4. ASSUME HandPending PROVE Sounds(delivered, log, got, drained)'
    BY <1>4, HandPendingSounds
<1>5. ASSUME NEW k \in 0 .. Left, ReadMessage(k) PROVE Sounds(delivered, log, got, drained)'
    BY <1>5, ReadMessageSounds
<1>6. ASSUME NEW k \in 0 .. Left, FindNothing(k) PROVE Sounds(delivered, log, got, drained)'
    BY <1>6, FindNothingSounds
<1>7. ASSUME UNCHANGED logsVars PROVE Sounds(delivered, log, got, drained)'
  <2>1. delivered' = delivered /\ log' = log /\ got' = got /\ drained' = drained
      BY <1>7 DEF logsVars
  <2>2. QED
      BY <1>2, <2>1, SoundCarries DEF Sound
<1>8. Sounds(delivered, log, got, drained)'
    BY <1>4, <1>5, <1>6, <1>7 DEF LogsNext
<1>9. QED
    BY <1>1, <1>3, <1>8 DEF Sound

LEMMA SoundIsSound ==
  ASSUME Sound
  PROVE  EpochsAreSound
<1>1. /\ Reading /\ InputOK /\ Given(delivered) /\ got \in Seq(1 .. Bad)
      /\ Sounds(delivered, log, got, drained)
    BY DEF Sound, Reading, ReadOK, LogOK
<1>2. /\ InOrder(got) /\ LocksOK(got, log) /\ FlagsOK(Epochs(delivered, log), log, got)
      /\ ~Socket => SingleOK(delivered, log, drained)
    BY <1>1 DEF Sounds
<1>3. RangeBeforeCompressed
    BY <1>1, ReadingDelivers
<1>4. SlipFlagged
  <2>1. SUFFICES ASSUME NEW n \in DOMAIN got, IsObs(got[n]), NEW s \in DOMAIN Msgs[got[n]].obs,
                        Slipped(got, n, s), NEW e \in Range(delivered), got[n] \in Range(e.from)
                 PROVE  s \in DOMAIN e.lli
      BY DEF SlipFlagged
  <2>2. DOMAIN got = 1 .. Len(got)
    <3>1. PICK S : S = 1 .. Bad
        OBVIOUS
    <3>2. got \in Seq(S)
        BY <1>1, <3>1
    <3>3. QED
        BY <3>2
  <2>3. n \in RecordsOf(got, Len(got))
      BY <2>1, <2>2 DEF RecordsOf, IsObs
  <2>4. e \in Epochs(delivered, log)
      BY <2>1 DEF Epochs
  <2>5. SlipsIn(e, got, n)
      BY <1>1, <1>2, <2>3, <2>4, FlagsAll
  <2>6. QED
      BY <2>1, <2>5 DEF SlipsIn
<1>5. FileOneEpochPerStamp
  <2>1. SUFFICES ASSUME input.reader = "binary",
                        NEW i \in DOMAIN delivered, NEW j \in DOMAIN delivered, i < j
                 PROVE  delivered[i].t # delivered[j].t
      BY DEF FileOneEpochPerStamp, OneEpochPerStamp
  <2>2. DOMAIN delivered = 1 .. Len(delivered)
    <3>1. PICK E : delivered \in Seq(E)
        BY <1>1 DEF Given
    <3>2. QED
        BY <3>1
  <2>3. SingleOK(delivered, log, drained)
      BY <1>2, <2>1 DEF Socket
  <2>4. delivered[i].t < delivered[j].t /\ delivered[i].t \in Nat /\ delivered[j].t \in Nat
      BY <2>1, <2>2, <2>3 DEF SingleOK
  <2>5. QED
      BY <2>4
<1>6. QED
    BY <1>3, <1>4, <1>5 DEF EpochsAreSound

\* When a receiver sends its records in time order, the epochs are well formed: one of a
\* time stamp in a file, full before compressed, and every slip flagged (EpochsAreSound).
THEOREM EpochsStaySound == LogsSpec /\ RecordsInOrder => []EpochsAreSound
<1>1. LogsInit /\ RecordsInOrder => Sound
  <2>1. SUFFICES ASSUME LogsInit, RecordsInOrder PROVE Sound
      OBVIOUS
  <2>2. Reading
      BY <2>1, StartsReading
  <2>3. got = <<>> /\ delivered = <<>> /\ log = LogInit /\ drained = FALSE
      BY <2>1 DEF LogsInit, LogsStart
  <2>4. QED
      BY <2>1, <2>2, <2>3, StartSounds DEF Sound
<1>2. Sound /\ [LogsNext]_logsVars => Sound'
    BY StepSounds
<1>3. Sound => EpochsAreSound
    BY SoundIsSound
<1>4. QED
    BY <1>1, <1>2, <1>3, PTL DEF LogsSpec
=============================================================================
