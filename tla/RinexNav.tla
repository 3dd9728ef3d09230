------------------------------ MODULE RinexNav ------------------------------
(***************************************************************************)
(* RINEXNavStore::loadFile: a navigation file read into the table.  After  *)
(* the header each line that begins with the letter of a known system      *)
(* starts a record and its loader takes as many lines as the record has;   *)
(* any other line is passed over.  A record that is not whole ends the     *)
(* load with an exception; what was loaded stays.                          *)
(*                                                                         *)
(* A line is its first character, the record it was written for and its    *)
(* number in it.  Time is counted in parts of a week, NavWeek of them.     *)
(***************************************************************************)
EXTENDS Integers, Sequences, SequencesExt, FiniteSetsExt

CONSTANTS
    NavFiles,   \* [version, records, cut]
    NavWeek     \* FULL_WEEK; even

ASSUME NavWeekAssumption == NavWeek \in Nat /\ NavWeek > 1 /\ NavWeek % 2 = 0

VARIABLES
    navFile, navLines,
    navPos,       \* the next line; a line pushed back is next again
    navVersion,   \* 0 before the header has been read
    navTable,     \* the entries made so far, in order
    navStatus     \* "header", "records", "done" or "failed"

navVars == <<navFile, navLines, navPos, navVersion, navTable, navStatus>>

Known == {"G", "C", "E", "R"}

-----------------------------------------------------------------------------
(* Writing: a record [sys, week, toe, how] has more lines than its loader  *)
(* reads when the producer adds some.  Version 2 is GPS, without letters.  *)

NavLine(c, r, i) == [c |-> c, rec |-> r, i |-> i]

NavRecord(f, r) ==
    LET e == f.records[r]
        letter == IF f.version < 3 THEN "1" ELSE e.sys
    IN  <<NavLine(letter, r, 1)>> \o [i \in 1 .. e.orbits |-> NavLine(" ", r, i + 1)]

NavWritten(f) ==
    LET all == <<NavLine("header", 0, f.version), NavLine("end", 0, 0)>>
                 \o FlattenSeq([r \in DOMAIN f.records |-> NavRecord(f, r)])
    IN  IF f.cut < Len(all) THEN SubSeq(all, 1, f.cut) ELSE all

-----------------------------------------------------------------------------
(* Reading.                                                                *)

\* toc and toe are one time, the week is that of toc; then the time of
\* transmission, when it lies within a week, moves it.
WeekByHow(week, toe, how) ==
    CASE how \in 0 .. NavWeek - 1 /\ how - toe > NavWeek \div 2 /\ week > 0 -> week - 1
      [] how \in 0 .. NavWeek - 1 /\ toe - how > NavWeek \div 2 -> week + 1
      [] OTHER -> week

\* The entry made of the lines at p, the first of them giving the epoch.
Entry(p, count, byHow) ==
    LET e == navFile.records[navLines[p].rec]
    IN  [lines |-> SubSeq(navLines, p, p + count - 1),
         at |-> NavWeek * (IF byHow THEN WeekByHow(e.week, e.toe, e.how) ELSE e.week) + e.toe]

Loaded(p, next, entry) == [ok |-> TRUE, pos |-> next, entry |-> <<entry>>]
NavTruncated == [ok |-> FALSE, pos |-> Len(navLines) + 1, entry |-> <<>>]

Whole(p, count) == p + count - 1 <= Len(navLines)

loadGPSEph(p) == IF Whole(p, 8) THEN Loaded(p, p + 8, Entry(p, 8, TRUE)) ELSE NavTruncated
loadGalEph(p) == IF Whole(p, 8) THEN Loaded(p, p + 8, Entry(p, 8, TRUE)) ELSE NavTruncated

\* As ExtraSkipped would be if the line that ends the extra ones were not
\* pushed back.
NextHeadEaten(p) ==
    LET heads == {i \in p .. Len(navLines) : navLines[i].c # " "}
    IN  IF heads = {} THEN Len(navLines) + 1 ELSE Min(heads) + 1

\* The lines a producer adds to a BDS record: all that begin with a space.
ExtraSkipped(p) ==
    LET heads == {i \in p .. Len(navLines) : navLines[i].c # " "}
    IN  IF heads = {} THEN Len(navLines) + 1 ELSE Min(heads)

loadBDSEph(p) ==
    IF Whole(p, 8) THEN Loaded(p, ExtraSkipped(p + 8), Entry(p, 8, FALSE)) ELSE NavTruncated

\* Four lines; the fifth of version 3.05 begins with a space and is passed over.
loadGloEph(p) ==
    IF Whole(p, 4) THEN Loaded(p, p + 4, Entry(p, 4, FALSE)) ELSE NavTruncated

\* The system of a line: version 2 has GPS only and writes no letter.
SystemOf(c) == IF navVersion < 3 /\ c \notin Known \cup {"J"} THEN "G" ELSE c

-----------------------------------------------------------------------------

NavStart(file) ==
    /\ navFile = file
    /\ navLines = NavWritten(navFile)
    /\ navPos = 1
    /\ navVersion = 0
    /\ navTable = <<>>
    /\ navStatus = "header"

NavInit == \E file \in NavFiles : NavStart(file)

LoadHeader ==
    /\ navStatus = "header"
    /\ LET ends == {i \in DOMAIN navLines : navLines[i].c = "end"}
       IN  navPos' = IF ends = {} THEN Len(navLines) + 1 ELSE Min(ends) + 1
    /\ navVersion' = IF navLines = <<>> THEN 0 ELSE navLines[1].i
    /\ navStatus' = "records"
    /\ UNCHANGED <<navFile, navLines, navTable>>

LoadRecord ==
    /\ navStatus = "records"
    /\ navPos <= Len(navLines)
    /\ LET sys == SystemOf(navLines[navPos].c)
           r == CASE sys = "G" -> loadGPSEph(navPos)
                  [] sys = "C" -> loadBDSEph(navPos)
                  [] sys = "E" -> loadGalEph(navPos)
                  [] sys = "R" -> loadGloEph(navPos)
                  [] OTHER -> [ok |-> TRUE, pos |-> navPos + 1, entry |-> <<>>]
       IN  /\ navPos' = r.pos
           /\ navTable' = navTable \o r.entry
           /\ navStatus' = IF r.ok THEN "records" ELSE "failed"
    /\ UNCHANGED <<navFile, navLines, navVersion>>

LoadEnds ==
    /\ navStatus = "records"
    /\ navPos > Len(navLines)
    /\ navStatus' = "done"
    /\ UNCHANGED <<navFile, navLines, navPos, navVersion, navTable>>

NavNext == LoadHeader \/ LoadRecord \/ LoadEnds

NavSpec == NavInit /\ [][NavNext]_navVars

-----------------------------------------------------------------------------

\* The lines a loader reads, and the entry it ought to make of them.
Taken(sys) == IF sys = "R" THEN 4 ELSE 8

MeantEntry(r) ==
    LET e == navFile.records[r]
    IN  [lines |-> SubSeq(NavRecord(navFile, r), 1, Taken(e.sys)),
         at |-> NavWeek * e.week + e.toe]

\* The entries are those of the file's records, in order, each made of its own
\* lines and dated by its own epoch, whatever stands between them: records of
\* other systems, lines a producer adds.  A whole file is loaded to the end;
\* of one that was cut only whole records are.
NavAsWritten ==
    LET known == SelectSeq([r \in DOMAIN navFile.records |-> r],
                           LAMBDA r : navFile.records[r].sys \in Known)
        meant == [i \in DOMAIN known |-> MeantEntry(known[i])]
    IN  /\ IsPrefix(navTable, meant)
        /\ navLines = NavWritten([navFile EXCEPT !.cut = 1000])
             => navStatus # "failed" /\ (navStatus = "done" => navTable = meant)
=============================================================================
