------------------------------ MODULE RinexObs ------------------------------
(***************************************************************************)
(* The RINEX observation readers (src/src/io/rinex), line by line.  A call *)
(* of parseRINEXObs reads one epoch: it skips to the next epoch line, reads *)
(* the satellites announced, and in version 2 the continuation lines of    *)
(* the list and as many rows a satellite as the types of the header fill.  *)
(* A task reads a file from its beginning; the two files of an RTK run are *)
(* first opened by a call whose epoch is dropped and then wound forward to *)
(* the first epoch of the other.                                           *)
(*                                                                         *)
(* A line is what the readers ask of it: its kind, and of a data row the   *)
(* satellite its first three characters could be taken for.  Its values    *)
(* are the tag <<satellite, row>>, so that a row read for another is seen. *)
(***************************************************************************)
EXTENDS Integers, Sequences, SequencesExt, FiniteSetsExt

CONSTANTS
    RnxFiles,     \* [version, types, withIds, content, cut, rtk, target]
    IdsPerLine,   \* satellites on a line of a version 2 epoch (12)
    TypesPerRow,  \* values on a row of version 2 (5)
    RnxSystems    \* the satellites of the four systems that are used

VARIABLES
    rnxFile, rnxLines,
    rnxPos,        \* the line the stream stands before
    isHeaderRead,
    rnxOpen,       \* the puller or the source exists
    rnxOut,        \* history: the epochs returned
    rnxEnded       \* "", "eof", or "error"

rnxVars == <<rnxFile, rnxLines, rnxPos, isHeaderRead, rnxOpen, rnxOut, rnxEnded>>

None == "none"
Line(k) == [k |-> k, t |-> 0, flag |-> 0, n |-> 0, ids |-> <<>>, sat |-> None, val |-> <<>>]

Ceil(n, d) == (n + d - 1) \div d

\* As RowsPerSat would be if it added a row when the last one is full.
RowAlwaysAdded(types) == types \div TypesPerRow + 1

RowsPerSat(types) == Ceil(types, TypesPerRow)

-----------------------------------------------------------------------------
(* Writing: the lines of a file with a content, a sequence of records      *)
(* [t, flag, sats, first], first being the satellite that the values of    *)
(* the first row could be taken for.                                       *)

Chunk(ids, i) ==
    SubSeq(ids, (i - 1) * IdsPerLine + 1, IF i * IdsPerLine < Len(ids) THEN i * IdsPerLine ELSE Len(ids))

EventLines(n) == [i \in 1 .. n |-> Line("other")]

Data(f, e, s, row) ==
    [Line("data") EXCEPT
        !.sat = IF f.version = 3 \/ (f.withIds /\ row = 1) THEN e.sats[s]
                ELSE IF s = 1 /\ row = 1 THEN e.first ELSE None,
        !.val = <<e.sats[s], row>>]

RecordLines(f, e) ==
    LET n == Len(e.sats)
        head == [Line("epoch") EXCEPT !.t = e.t, !.flag = e.flag, !.n = n]
        ids == [i \in 1 .. Ceil(n, IdsPerLine) |-> [Line("ids") EXCEPT !.ids = Chunk(e.sats, i)]]
        rows(s) == [r \in 1 .. IF f.version = 3 THEN 1 ELSE Ceil(f.types, TypesPerRow) |->
                      Data(f, e, s, r)]
        values == FlattenSeq([s \in 1 .. n |-> rows(s)])
    IN  CASE e.flag \in 2 .. 5 -> <<head>> \o EventLines(n)
          [] f.version = 3 -> <<head>> \o values
          [] n = 0 -> <<head>>
          [] OTHER -> <<[head EXCEPT !.ids = Chunk(e.sats, 1)]>> \o Tail(ids) \o values

Written(f) ==
    LET all == <<Line("head"), Line("end")>>
                 \o FlattenSeq([i \in DOMAIN f.content |-> RecordLines(f, f.content[i])])
    IN  IF f.cut < Len(all) THEN SubSeq(all, 1, f.cut) ELSE all

-----------------------------------------------------------------------------
(* Reading.                                                                *)

Found(p, t) == [found |-> TRUE, pos |-> p, t |-> t, sats |-> <<>>]
Ended(p) == [found |-> FALSE, pos |-> p, t |-> 0, sats |-> <<>>]
Past == Len(rnxLines) + 1

\* parseRINEXHeader; 0 when the file ends in the header.
HeaderEnd ==
    LET ends == {i \in DOMAIN rnxLines : rnxLines[i].k = "end"}
    IN  IF ends = {} THEN 0 ELSE Min(ends) + 1

\* The values of the satellites, those of a later row in place of those of an
\* earlier one for the same satellite; other systems are passed over.
Decode(pairs) ==
    LET names == {pairs[i][1] : i \in DOMAIN pairs} \cap RnxSystems
    IN  [s \in names |-> LET last == Max({i \in DOMAIN pairs : pairs[i][1] = s})
                         IN  pairs[last][2]]

\* Version 3: a satellite a line; what is none is taken for the end.
readSatObs3(p, t, n) ==
    LET bad == {i \in 0 .. n - 1 : p + i >= Past \/ rnxLines[p + i].k # "data"}
    IN  IF bad # {} THEN Ended(Min({p + Min(bad) + 1, Past}))
        ELSE [Found(p + n, t) EXCEPT !.sats =
                Decode([i \in 1 .. n |-> <<rnxLines[p + i - 1].sat, <<rnxLines[p + i - 1].val>>>>])]

\* Version 2: the first row tells whether the rows carry their satellites.
readSatObs2(p, t, ids) ==
    LET rows == RowsPerSat(rnxFile.types)
        n == Len(ids)
        at(s) == p + (s - 1) * rows
        withId == rnxLines[p].sat \in {ids[i] : i \in DOMAIN ids}
        name(s) == IF withId THEN rnxLines[at(s)].sat ELSE ids[s]
    IN  IF n = 0 THEN Found(p, t)
        ELSE IF p + n * rows > Past THEN Ended(Past)
        ELSE [Found(p + n * rows, t) EXCEPT !.sats =
                Decode([s \in 1 .. n |->
                    <<name(s), [r \in 1 .. rows |-> rnxLines[at(s) + r - 1].val]>>])]

\* readEpochHead of version 2: the lines that continue a list of n.
ContinuationLines(n) == IF n = 0 THEN 0 ELSE (n - 1) \div IdsPerLine

readIds(h, n) ==
    LET more == ContinuationLines(n)
    IN  IF h + more >= Past THEN <<>>
        ELSE <<FlattenSeq([i \in 1 .. more + 1 |-> rnxLines[h + i - 1].ids])>>

\* parseRINEXObs from line p.
ParseFrom(p) ==
    LET heads == {i \in p .. Len(rnxLines) : rnxLines[i].k = "epoch"}
        h == Min(heads)
        l == rnxLines[h]
        ids == readIds(h, l.n)
    IN  CASE heads = {} -> Ended(Past)
          [] heads # {} /\ l.flag \in 2 .. 5 ->
               IF h + l.n >= Past THEN Ended(Past) ELSE Found(h + l.n + 1, l.t)
          [] heads # {} /\ l.flag \notin 2 .. 5 /\ rnxFile.version = 3 ->
               readSatObs3(h + 1, l.t, l.n)
          [] OTHER -> IF ids = <<>> THEN Ended(Past)
                      ELSE IF l.n > 0 /\ h + ContinuationLines(l.n) + 1 >= Past
                        THEN Ended(Past)
                      ELSE readSatObs2(h + ContinuationLines(l.n) + 1, l.t, ids[1])

\* To the first epoch line that is not before target; if none, nowhere.
fastForwardToEpoch(p, target) ==
    LET later == {i \in p .. Len(rnxLines) : rnxLines[i].k = "epoch" /\ rnxLines[i].t >= target}
    IN  IF later = {} THEN p ELSE Min(later)

-----------------------------------------------------------------------------

RnxStart(file) ==
    /\ rnxFile = file
    /\ rnxLines = Written(rnxFile)
    /\ rnxPos = 1
    /\ isHeaderRead = FALSE
    /\ rnxOpen = FALSE
    /\ rnxOut = <<>>
    /\ rnxEnded = ""

RnxInit == \E file \in RnxFiles : RnxStart(file)

\* ObsSource::makePull and openDual: one epoch is read and dropped, then the
\* stream is wound forward to the first epoch of the other file.
OpenRtk ==
    /\ rnxFile.rtk /\ ~rnxOpen /\ rnxEnded = ""
    /\ LET r == ParseFrom(HeaderEnd)
       IN  IF HeaderEnd = 0 \/ ~r.found
             THEN rnxEnded' = "error" /\ UNCHANGED <<rnxPos, isHeaderRead, rnxOpen>>
             ELSE /\ rnxPos' = fastForwardToEpoch(r.pos, rnxFile.target)
                  /\ isHeaderRead' = TRUE /\ rnxOpen' = TRUE
                  /\ UNCHANGED rnxEnded
    /\ UNCHANGED <<rnxFile, rnxLines, rnxOut>>

\* Observer::RINEXFile::open.
OpenTask ==
    /\ ~rnxFile.rtk /\ ~rnxOpen
    /\ rnxOpen' = TRUE
    /\ UNCHANGED <<rnxFile, rnxLines, rnxPos, isHeaderRead, rnxOut, rnxEnded>>

\* Observer::RINEXFile::next and the puller: any exception is the end.
NextItem ==
    /\ rnxOpen /\ rnxEnded = ""
    /\ LET from == IF isHeaderRead THEN rnxPos ELSE HeaderEnd
           r == ParseFrom(from)
       IN  CASE from = 0 -> rnxEnded' = "error" /\ UNCHANGED <<rnxPos, isHeaderRead, rnxOut>>
             [] from > 0 /\ r.found ->
                  /\ rnxOut' = Append(rnxOut, [t |-> r.t, sats |-> r.sats])
                  /\ rnxPos' = r.pos /\ isHeaderRead' = TRUE
                  /\ UNCHANGED rnxEnded
             [] OTHER -> /\ rnxEnded' = "eof" /\ rnxPos' = r.pos /\ isHeaderRead' = TRUE
                         /\ UNCHANGED rnxOut
    /\ UNCHANGED <<rnxFile, rnxLines, rnxOpen>>

RnxNext == OpenRtk \/ OpenTask \/ NextItem

RnxSpec == RnxInit /\ [][RnxNext]_rnxVars

-----------------------------------------------------------------------------

\* An epoch as it was written: the rows of each satellite used.
Meant(f, e) ==
    LET rows == IF f.version = 3 THEN 1 ELSE Ceil(f.types, TypesPerRow)
        used == IF e.flag \in 2 .. 5 THEN {} ELSE {e.sats[i] : i \in DOMAIN e.sats} \cap RnxSystems
    IN  [t |-> e.t, sats |-> [s \in used |-> [r \in 1 .. rows |-> <<s, r>>]]]

\* The records an RTK run gets: not the first, and of the rest those from the
\* first that is not before the target.
Wanted(f) ==
    LET rest == Tail(f.content)
        later == {i \in DOMAIN rest : rest[i].t >= f.target}
        from == IF later = {} THEN 1 ELSE Min(later)
    IN  IF ~f.rtk THEN f.content ELSE SubSeq(rest, from, Len(rest))

\* The epochs returned are those of the file, in order, each with the values
\* of its own satellites; none is made of the rest of a file that was cut
\* between two lines, and a whole file is read to its last epoch.
RinexAsWritten ==
    LET want == Wanted(rnxFile)
        meant == [i \in DOMAIN want |-> Meant(rnxFile, want[i])]
    IN  /\ IsPrefix(rnxOut, meant)
        /\ (rnxEnded = "eof" /\ rnxLines = Written([rnxFile EXCEPT !.cut = 1000]))
             => rnxOut = meant
=============================================================================
