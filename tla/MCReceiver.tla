----------------------------- MODULE MCReceiver -----------------------------
(* Two families of inputs: every content over undamaged frames, and every  *)
(* single damage of one fixed content.                                     *)
EXTENDS Receiver

CONSTANTS oneSat

MCHeadLen == 4
MCMaxFrame == 6

Sig(lock, code, phase, parity) ==
    [lock |-> lock, code |-> code, phase |-> phase, parity |-> parity]

\* What one record says of the satellite: nothing, or one of these signals.
Signals == {Sig(1, TRUE, TRUE, TRUE), Sig(2, TRUE, TRUE, FALSE),
            Sig(2, FALSE, TRUE, TRUE), Sig(1, TRUE, FALSE, TRUE)}
Observations == {<<>>} \cup [{oneSat} -> Signals]

LogsRecord(kind, t, obs) == [kind |-> kind, t |-> t, obs |-> obs, len |-> 4]
Ephemeris(toe) == [kind |-> "eph", sat |-> oneSat, toe |-> toe, len |-> 5]
Imu == [kind |-> "imu", len |-> 4]

CellsOf(msgs) == FlattenSeq([f \in DOMAIN msgs |-> Frame(msgs, f)])
WholeLog(reader, msgs) == [reader |-> reader, msgs |-> msgs, cells |-> CellsOf(msgs)]

\* Three records of one or two time stamps in every combination, the last of
\* them uncompressed.
LogsContents ==
    {<<LogsRecord(k[1], 1, o[1]), LogsRecord(k[2], t2, o[2]), LogsRecord("range", 2, o[3])>> :
       k \in [1 .. 2 -> {"range", "cmp"}], o \in [1 .. 3 -> Observations], t2 \in {1, 2}}

\* Observation records, an ephemeris repeated with its issue and one anew,
\* and the record of an inertial unit.
Mixed ==
    LET o == [s \in {oneSat} |-> Sig(1, TRUE, TRUE, TRUE)]
    IN  <<LogsRecord("range", 1, o), Ephemeris(1), LogsRecord("cmp", 1, o), Imu,
          Ephemeris(1), LogsRecord("range", 2, o), Ephemeris(2)>>

\* One cell replaced by another, one inserted, or the end cut off.
Noise == {Cell("x", 0, 0), Cell("A", 0, 0)} \cup {Cell("H", 1, n) : n \in {3, 5, 6, 7}}
Damaged ==
    LET cells == CellsOf(SubSeq(Mixed, 1, 3))
        at == 1 .. Len(cells)
    IN  {[cells EXCEPT ![i] = c] : i \in at, c \in Noise}
          \cup {InsertAt(cells, i, c) : i \in at, c \in Noise}
          \cup {SubSeq(cells, 1, i) : i \in at}

MCInputs ==
    {WholeLog(r, m) : r \in {"socket", "binary"}, m \in LogsContents \cup {Mixed}}
      \cup {[reader |-> r, msgs |-> SubSeq(Mixed, 1, 3), cells |-> c] :
              r \in {"socket", "binary"}, c \in Damaged}
=============================================================================
