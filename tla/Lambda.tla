------------------------------- MODULE Lambda -------------------------------
(***************************************************************************)
(* The integer least squares search of ARLambda, from the decorrelated     *)
(* float ambiguities to the two nearest integer vectors and the ratio test *)
(* on them.  One action is one turn of the loop of search.                 *)
(*                                                                         *)
(* Ambiguities are whole numbers of 1 / LamUnit of a cycle, the entries of *)
(* L are halves and the entries of D are given by their inverses, so every *)
(* number of the search is exact.                                          *)
(***************************************************************************)
EXTENDS Integers, Sequences, FiniteSets, FiniteSetsExt

CONSTANTS
    LamInputs,   \* [zs, L, W]: floats, 2 L(i, j), 1 / D(i), from index 0
    LamUnit,     \* the parts of a cycle
    LamLoops,    \* LOOPMAX (10000)
    LamRatio,    \* the ratio a fix needs (3)
    LamBox       \* the integers the two nearest vectors are among

VARIABLES
    lamIn,       \* the input
    lam          \* the locals of search

lamVars == <<lamIn, lam>>

Levels == DOMAIN lamIn.zs

Top == Cardinality(Levels) - 1

\* std::round, and the sign of MathUtils, which is -1 at 0.
Round(v) == IF v >= 0 THEN (2 * v + LamUnit) \div (2 * LamUnit)
                      ELSE -((LamUnit - 2 * v) \div (2 * LamUnit))

Sign(v) == IF v <= 0 THEN -1 ELSE 1

\* A level is entered at the integer nearest to its conditional float.
Enter(p, k, zb) ==
    LET y == zb - Round(zb) * LamUnit
    IN  [p EXCEPT !.k = k, !.zb[k] = zb, !.z[k] = Round(zb), !.y = y, !.step[k] = Sign(y)]

LamStart(in) ==
    /\ lamIn = in
    /\ LET zero == [i \in Levels |-> 0]
           start == [k |-> Top, dist |-> zero, S |-> [i \in Levels |-> zero], zb |-> zero,
                     z |-> zero, y |-> 0, step |-> zero, found |-> <<>>, bound |-> -1,
                     turn |-> 0, stat |-> "searching"]
       IN  lam = Enter(start, Top, lamIn.zs[Top])

LamInit == \E in \in LamInputs : LamStart(in)

\* The distance with the level's present integer; a bound below 0 is none yet.
NewDist == lam.dist[lam.k] + lam.y * lam.y * lamIn.W[lam.k]

Inside == lam.bound < 0 \/ NewDist < lam.bound

\* The next integer of a level: on alternating sides of its float, outwards.
Zigzag(p, k) ==
    LET z == p.z[k] + p.step[k]
    IN  [p EXCEPT !.k = k, !.z[k] = z, !.y = p.zb[k] - z * LamUnit, !.step[k] = -@ - Sign(@)]

Turn == lam.stat = "searching" /\ lam.turn < LamLoops

Down ==
    /\ Turn /\ Inside /\ lam.k > 0
    /\ LET k == lam.k - 1
           S == [i \in Levels |->
                   IF i <= k THEN lam.S[k + 1][i]
                                  + ((lam.z[k + 1] * LamUnit - lam.zb[k + 1]) * lamIn.L[k + 1][i]) \div 2
                             ELSE lam.S[k][i]]
       IN  lam' = Enter([lam EXCEPT !.turn = @ + 1, !.dist[k] = NewDist, !.S[k] = S],
                        k, lamIn.zs[k] + S[k])
    /\ UNCHANGED lamIn

\* As Worst would be if the nearest of those kept bounded the search.
BestBounds(found) == CHOOSE i \in DOMAIN found : \A j \in DOMAIN found : found[i].s <= found[j].s

Worst(found) == CHOOSE i \in DOMAIN found : \A j \in DOMAIN found : found[i].s >= found[j].s

\* A whole vector: the first two are kept, a nearer one then takes the place of
\* the worst, whose distance bounds the search.
Leaf ==
    /\ Turn /\ Inside /\ lam.k = 0
    /\ LET new == [z |-> lam.z, s |-> NewDist]
           at == Worst(lam.found)
           kept == IF Len(lam.found) < 2 THEN Append(lam.found, new)
                   ELSE IF NewDist < lam.found[at].s THEN [lam.found EXCEPT ![at] = new]
                   ELSE lam.found
       IN  lam' = Zigzag([lam EXCEPT !.turn = @ + 1, !.found = kept,
                            !.bound = IF Len(lam.found) < 2 THEN @ ELSE kept[Worst(kept)].s], 0)
    /\ UNCHANGED lamIn

Up ==
    /\ Turn /\ ~Inside /\ lam.k < Top
    /\ lam' = Zigzag([lam EXCEPT !.turn = @ + 1], lam.k + 1)
    /\ UNCHANGED lamIn

\* Beyond the bound on the top level: the two vectors kept, the nearer first.
Converged ==
    /\ Turn /\ ~Inside /\ lam.k = Top
    /\ LET f == lam.found
       IN  lam' = [lam EXCEPT !.stat = "done",
                              !.found = IF f[1].s < f[2].s THEN f ELSE <<f[2], f[1]>>]
    /\ UNCHANGED lamIn

\* LOOPMAX turns: the float ambiguities stay, with ratio 0.
GiveUpSearch ==
    /\ lam.stat = "searching" /\ lam.turn >= LamLoops
    /\ lam' = [lam EXCEPT !.stat = "failed"]
    /\ UNCHANGED lamIn

LamNext == Down \/ Leaf \/ Up \/ Converged \/ GiveUpSearch

LamSpec == LamInit /\ [][LamNext]_lamVars

\* resolveWithRatio: nothing is fixed unless the second vector is far enough.
resolveWithRatio ==
    /\ lam.stat = "done"
    /\ \/ lam.found[1].s = 0
       \/ lam.found[2].s > LamRatio * lam.found[1].s

-----------------------------------------------------------------------------
\* How far an integer vector is from the floats: the norm, weighted by 1 / D, of
\* the e with transpose(L) e = zs - v.
Distance(v) ==
    LET e[k \in Levels] == lamIn.zs[k] - v[k] * LamUnit
                           - MapThenSumSet(LAMBDA j : (e[j] * lamIn.L[j][k]) \div 2, (k + 1) .. Top)
    IN  MapThenSumSet(LAMBDA k : e[k] * e[k] * lamIn.W[k], Levels)

(* A search that ends has found the two nearest integer vectors of all, and *)
(* a fix is only made where every other vector is clearly farther than the  *)
(* one chosen.                                                              *)
LamNearestTwo ==
    lam.stat = "done" =>
        LET one == lam.found[1]
            two == lam.found[2]
        IN  /\ one.z # two.z /\ one.s = Distance(one.z) /\ two.s = Distance(two.z)
            /\ \A v \in [Levels -> LamBox] \ {one.z, two.z} :
                  Distance(v) >= two.s /\ (resolveWithRatio => Distance(v) >= LamRatio * one.s)
=============================================================================
