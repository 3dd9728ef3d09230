----------------------------- MODULE CrxDecoder -----------------------------
(***************************************************************************)
(* CRXDecoder: an observation file in Compact RINEX, where every number is *)
(* a difference of some order from the epochs before, back to RINEX.       *)
(*                                                                         *)
(* A number is kept in two parts, as the code keeps it.  The encoder is    *)
(* external: CrxEncode is what the format asks of it.  One action is one   *)
(* epoch or event of the file.                                             *)
(***************************************************************************)
EXTENDS Integers, Sequences, FiniteSets, SequencesExt

CONSTANTS
    CrxVersions, \* the versions of the format: 1 for RINEX 2, 3 for RINEX 3
    CrxEpochs,   \* [init, clock, rows: Seq([sat, val, flag])], val and clock of at most one
    CrxBase,     \* what the lower part of a number counts to (100000)
    CrxArc,      \* the order of differences the encoder uses (at most 5)
    CrxLast      \* the epochs of a file

\* What an observation file has of a satellite. "-" is a blank flag; a blank and an
\* ampersand mean something else in a compact file.
CrxRecords == [sat : STRING, val : SUBSET Int, flag : STRING \ {" ", "&"}]

ASSUME CrxAssumption ==
    /\ CrxVersions \subseteq {1, 3}
    /\ CrxBase \in Nat \ {0, 1} /\ CrxArc \in Nat
    /\ \A e \in CrxEpochs :
         /\ e.init \in BOOLEAN
         /\ e.clock \subseteq Int /\ \A m, n \in e.clock : m = n
         /\ e.rows \in Seq(CrxRecords)
         /\ \A i \in DOMAIN e.rows : \A m, n \in e.rows[i].val : m = n

VARIABLES
    crxEnc,      \* the encoder: the arcs of the last epoch, its flags and clock
    crx          \* the decoder and what became of the last epoch

crxVars == <<crxEnc, crx>>

Orders == 0 .. CrxArc

Zero == [k \in Orders |-> 0]

NoClock == [order |-> -1, d |-> Zero]

CrxStart(version) ==
    /\ crxEnc = [rows |-> <<>>, clock |-> NoClock]
    /\ crx = [crinex |-> version, prev |-> <<>>, n |-> 0, anew |-> TRUE, stat |-> "reading",
              clock |-> [order |-> -1, u |-> Zero, l |-> Zero],
              out |-> [clock |-> {}, rows |-> <<>>], real |-> [clock |-> {}, rows |-> <<>>]]

CrxInit == \E v \in CrxVersions : CrxStart(v)

-----------------------------------------------------------------------------
(* The encoder.                                                            *)

\* The row of the satellite in the epoch before, if it has one.
RowOf(rows, sat) ==
    LET same == {j \in DOMAIN rows : rows[j].sat = sat}
    IN  IF same = {} THEN <<>> ELSE <<rows[CHOOSE j \in same : \A k \in same : j <= k]>>

\* Version 1 has no place for the flag of a blank.
CrxCanHold(v, e) ==
    \A i \in DOMAIN e.rows : v = 1 /\ e.rows[i].val = {} => e.rows[i].flag = "-"

\* Differences of a value up to the order the arc has reached.
Differences(order, v, old) ==
    LET d[k \in Orders] == IF k = 0 THEN v ELSE IF k > order THEN 0 ELSE d[k - 1] - old[k - 1]
    IN  d

\* A field with no value in the epoch before starts its arc: the value itself.
CrxField(r, before) ==
    LET go == before # <<>> /\ Head(before).order >= 0
        order == IF ~go THEN 0 ELSE IF Head(before).order < CrxArc THEN Head(before).order + 1 ELSE CrxArc
        d == Differences(order, CHOOSE v \in r.val : TRUE, IF go THEN Head(before).d ELSE Zero)
        was == IF before = <<>> THEN "-" ELSE Head(before).real
        flag == CASE r.flag = was -> " " [] r.flag # was /\ r.flag = "-" -> "&" [] OTHER -> r.flag
    IN  IF r.val = {} THEN [sat |-> r.sat, order |-> -1, d |-> Zero, flag |-> flag, real |-> r.flag]
                      ELSE [sat |-> r.sat, order |-> order, d |-> d, flag |-> flag, real |-> r.flag]

CrxEncode(e) ==
    LET old == IF e.init THEN <<>> ELSE crxEnc.rows
        c == IF e.init THEN NoClock ELSE crxEnc.clock
        order == IF c.order < CrxArc THEN c.order + 1 ELSE CrxArc
    IN  [rows |-> [i \in DOMAIN e.rows |-> CrxField(e.rows[i], RowOf(old, e.rows[i].sat))],
         clock |-> IF e.clock = {} THEN NoClock
                   ELSE [order |-> order, d |-> Differences(order, CHOOSE v \in e.clock : TRUE, c.d)]]

\* What the file then holds of a number of this order: the highest difference.
Token(f) == [start |-> f.order = 0, num |-> f.d[f.order]]

-----------------------------------------------------------------------------
(* Numbers in two parts; division as in C++, towards zero.                 *)

Quot(a, b) == IF a >= 0 THEN a \div b ELSE -((-a) \div b)

Rem(a, b) == a - b * Quot(a, b)

Split(n) == [u |-> Quot(n, CrxBase), l |-> Rem(n, CrxBase)]

\* The sum of two, the lower part carried.
Plus(a, b) == [u |-> a.u + b.u + Quot(a.l + b.l, CrxBase), l |-> Rem(a.l + b.l, CrxBase)]

At(x, k) == [u |-> x.u[k], l |-> x.l[k]]

\* Both parts with one sign.
OneSign(x) ==
    IF x.u < 0 /\ x.l > 0 THEN [u |-> x.u + 1, l |-> x.l - CrxBase]
    ELSE IF x.u > 0 /\ x.l < 0 THEN [u |-> x.u - 1, l |-> x.l + CrxBase]
    ELSE x

Abs(n) == IF n < 0 THEN -n ELSE n

\* The number a reader sees where an upper and a lower part are printed, the sign
\* in front of the first that has one.
Read(u, l) == IF u # 0 THEN (IF u < 0 THEN -1 ELSE 1) * (Abs(u) * CrxBase + Abs(l)) ELSE l

formatField(x) == LET y == OneSign(x) IN Read(y.u, y.l)

\* The upper part is printed with one more digit, for its sign, that is then cut.
formatClock(x) ==
    LET y == OneSign(x)
        tmp == y.u * 10 + (IF y.l < 0 THEN -1 ELSE 1)
    IN  (IF tmp < 0 THEN -1 ELSE 1) * (Abs(Quot(tmp, 10)) * CrxBase + Abs(y.l))

-----------------------------------------------------------------------------
(* The decoder.                                                            *)

\* As satTable would be if the satellites of two epochs were in the same places.
SamePlace(prev, i, sat) == IF i \in DOMAIN prev THEN i ELSE 0

\* The row of the satellite in the epoch before, 0 for none.
satTable(prev, i, sat) ==
    LET same == {j \in DOMAIN prev : prev[j].sat = sat}
    IN  IF same = {} THEN 0 ELSE CHOOSE j \in same : \A k \in same : j <= k

\* parseSatDiff and emitSatData for one field: the difference that was read goes
\* up the orders, on the differences of the row before.
SumsDown(order, num, row) ==
    LET at[k \in Orders] ==
            IF k > order THEN [u |-> 0, l |-> 0]
            ELSE IF k = order THEN Split(num)
            ELSE Plus(at[k + 1], At(row, k))
    IN  at

Field(f, prev, j) ==
    LET tok == Token(f)
        order == IF tok.start THEN 0
                 ELSE IF prev[j].order < CrxArc THEN prev[j].order + 1 ELSE prev[j].order
        at == SumsDown(order, tok.num, prev[j])
    IN  [order |-> order, u |-> [k \in Orders |-> at[k].u], l |-> [k \in Orders |-> at[k].l]]

\* A difference needs a row before whose arc has begun.
Uninitialised(f, prev, j) ==
    f.order > 0 /\ (j = 0 \/ (j > 0 /\ prev[j].order < 0))

\* A blank leaves the character of the row before, an & makes it blank.
repairText(base, diff) == CASE diff = " " -> base [] diff = "&" -> "-" [] OTHER -> diff

Flag(f, prev, j) == repairText(IF j = 0 THEN "-" ELSE prev[j].flag, f.flag)

\* emitSatData: a blank of version 1 is written and kept without its flag.
DecodedRow(v, f, prev, i) ==
    LET j == satTable(prev, i, f.sat)
        d == IF f.order < 0 THEN [order |-> -1, u |-> Zero, l |-> Zero] ELSE Field(f, prev, j)
    IN  [sat |-> f.sat, order |-> d.order, u |-> d.u, l |-> d.l,
         flag |-> IF v = 1 /\ f.order < 0 THEN "-" ELSE Flag(f, prev, j)]

\* processClock: the differences of a clock go down the orders.
SumsUp(order, num, old) ==
    LET at[k \in Orders] ==
            IF k = 0 THEN Split(num)
            ELSE IF k > order THEN [u |-> 0, l |-> 0]
            ELSE Plus(at[k - 1], At(old, IF old.order < order THEN k - 1 ELSE k))
    IN  at

\* parseClock: an epoch without a clock ends its arc.
DecodedClock(c, old) ==
    LET order == IF c.order = 0 THEN 0 ELSE IF old.order < CrxArc THEN old.order + 1 ELSE old.order
        at == SumsUp(order, c.d[c.order], old)
    IN  IF c.order < 0 THEN [order |-> -1, u |-> old.u, l |-> old.l]
        ELSE [order |-> order, u |-> [k \in Orders |-> at[k].u], l |-> [k \in Orders |-> at[k].l]]

Printed(row) == [sat |-> row.sat, flag |-> row.flag,
                 val |-> IF row.order < 0 THEN {} ELSE {formatField(At(row, 0))}]

\* One epoch; a line that starts anew forgets the rows before it.
processEpoch(e) ==
    LET enc == CrxEncode(e)
        prev == IF e.init THEN <<>> ELSE crx.prev
        rows == [i \in DOMAIN enc.rows |-> DecodedRow(crx.crinex, enc.rows[i], prev, i)]
        clock == DecodedClock(enc.clock, crx.clock)
    IN  /\ crx.stat = "reading" /\ crx.n < CrxLast /\ CrxCanHold(crx.crinex, e)
        /\ crxEnc' = enc
        /\ IF \/ crx.anew /\ ~e.init
              \/ \E i \in DOMAIN enc.rows :
                   Uninitialised(enc.rows[i], prev, satTable(prev, i, enc.rows[i].sat))
           THEN crx' = [crx EXCEPT !.stat = "failed"]
           ELSE crx' = [crx EXCEPT
                  !.prev = rows, !.clock = clock, !.n = @ + 1, !.anew = FALSE,
                  !.real = [clock |-> e.clock, rows |-> e.rows],
                  !.out = [clock |-> IF clock.order < 0 THEN {}
                                     ELSE {formatClock(At(clock, clock.order))},
                           rows |-> [i \in DOMAIN rows |-> Printed(rows[i])]]]

\* An event record is passed on; what follows it must start anew.
handleEvent ==
    /\ crx.stat = "reading" /\ ~crx.anew
    /\ crx' = [crx EXCEPT !.anew = TRUE]
    /\ UNCHANGED crxEnc

\* The end of the file between two epochs is the end; within one, the file that
\* was written is removed.
EndOfFile ==
    /\ crx.stat = "reading"
    /\ \E s \in {"done", "failed"} : crx' = [crx EXCEPT !.stat = s]
    /\ UNCHANGED crxEnc

CrxNext == (\E e \in CrxEpochs : processEpoch(e)) \/ handleEvent \/ EndOfFile

CrxSpec == CrxInit /\ [][CrxNext]_crxVars

-----------------------------------------------------------------------------
(* What is written for an epoch is what the receiver had in it: every       *)
(* number, through its differences of several epochs and satellites that    *)
(* come, go and change places, every flag and the clock.                    *)
CrxAsOriginal == crx.out = crx.real
=============================================================================
