------------------------------ MODULE Calendar ------------------------------
(***************************************************************************)
(* The calendar and time-scale arithmetic of src/time, and the date and    *)
(* directory arithmetic the download panels build on it                    *)
(* (src/src/time/TimeConvert.cpp, TimeStruct.h, app/download/              *)
(* ProductMeta.cpp).  Days are counted from 1970-01-01, an instant is a    *)
(* day and a second of that day; seconds are whole.                        *)
(***************************************************************************)
EXTENDS Integers, FiniteSets

CONSTANT CivBaseMjd   \* MJD of 1970-01-01, UNIX_MJD of Const.h

CivDayLen == 86400

CivYmd(y, mo, d) == [year |-> y, month |-> mo, day |-> d]

-----------------------------------------------------------------------------
(* Years begin in March, so that the day a leap year adds is its last.     *)

\* civilToYMD: the day's number.  A month 0 or 13 and a day outside its
\* month are carried over, as the code's arithmetic does.
civilToYMD(c) ==
  LET y   == c.year - (IF c.month <= 2 THEN 1 ELSE 0)
      yoe == y % 400
      mp  == IF c.month > 2 THEN c.month - 3 ELSE c.month + 9
      doy == (153 * mp + 2) \div 5 + c.day - 1
  IN  (y \div 400) * 146097 + yoe * 365 + yoe \div 4 - yoe \div 100
        + doy - 719468

\* YMDToCivil: the date of a day's number.
YMDToCivil(n) ==
  LET days == n + 719468
      doe  == days % 146097
      yoe  == (doe - doe \div 1460 + doe \div 36524 - doe \div 146096) \div 365
      doy  == doe - (365 * yoe + yoe \div 4 - yoe \div 100)
      mp   == (5 * doy + 2) \div 153
      mo   == IF mp < 10 THEN mp + 3 ELSE mp - 9
  IN  CivYmd(yoe + (days \div 146097) * 400 + (IF mo <= 2 THEN 1 ELSE 0),
             mo, doy - (153 * mp + 2) \div 5 + 1)

daysInMonth(y, mo) ==
  civilToYMD(IF mo = 12 THEN CivYmd(y + 1, 1, 1) ELSE CivYmd(y, mo + 1, 1))
    - civilToYMD(CivYmd(y, mo, 1))

\* YMDToDOY: 0 for what is no date.
YMDToDOY(c) ==
  IF c.month \in 1 .. 12 /\ c.day \in 1 .. 31
    THEN civilToYMD(c) - civilToYMD(CivYmd(c.year, 1, 1)) + 1
    ELSE 0

CivNoDate == CivYmd(0, 0, 0)

\* DOYToYMD: CivNoDate stands for nullopt.
DOYToYMD(y, doy) ==
  LET jan1 == civilToYMD(CivYmd(y, 1, 1))
  IN  IF doy \in 1 .. civilToYMD(CivYmd(y + 1, 1, 1)) - jan1
        THEN YMDToCivil(jan1 + doy - 1) ELSE CivNoDate

-----------------------------------------------------------------------------
(* Products: the week they are filed under, the days they cover, and the   *)
(* directories that are listed for a day.                                  *)

GPSWeek(y, doy) ==
  LET days == civilToYMD(CivYmd(y, 1, 1)) + doy - 1
                - civilToYMD(CivYmd(1980, 1, 6))
  IN  IF doy \in 1 .. 366 /\ days >= 0 THEN days \div 7 ELSE 0

\* covers: a product of span days that begins on day doy of year y.
covers(p, y, doy) ==
  LET start == civilToYMD(CivYmd(p.year, 1, 1)) + p.doy - 1
      day   == civilToYMD(CivYmd(y, 1, 1)) + doy - 1
  IN  /\ p.year >= 1980 /\ p.doy >= 1 /\ p.span >= 1
      /\ day \in start .. start + p.span - 1

\* The weeks whose product directories scanDirs lists for a day.
scanWeeks(y, doy) ==
  LET prevOrd == civilToYMD(CivYmd(y, 1, 1)) + doy - 2
      prev    == YMDToCivil(prevOrd)
      prevDoy == prevOrd - civilToYMD(CivYmd(prev.year, 1, 1)) + 1
  IN  IF y < 1980 \/ doy < 1 THEN {}
      ELSE {GPSWeek(y, doy), GPSWeek(prev.year, prevDoy)}

-----------------------------------------------------------------------------
(* Instants and time systems.                                              *)

CivTime(day, sod) == [day |-> day, sod |-> sod]

\* CommonTime::addSeconds with its normalize.
addSeconds(t, sec) ==
  CivTime(t.day + (t.sod + sec) \div CivDayLen, (t.sod + sec) % CivDayLen)

\* The MJD days on which the difference of TAI and UTC grew by a second,
\* the first with 10.
CivLeapDays ==
  {41317, 41499, 41683, 42048, 42413, 42778, 43144, 43509, 43874, 44239,
   44786, 45151, 45516, 46247, 47161, 47892, 48257, 48804, 49169, 49534,
   50083, 50630, 51179, 53736, 54832, 56109, 57204, 57754}

\* getLeapSeconds: the last entry not later than the day; 0 where it throws.
getLeapSeconds(day) ==
  LET past == {d \in CivLeapDays : d <= day + CivBaseMjd}
  IN  IF past = {} THEN 0 ELSE 9 + Cardinality(past)

\* cOf of convertSystem: TAI less the system, on the day of the instant that
\* is converted, whatever system that instant is in.
cOf(sys, day) ==
  CASE sys = "UTC" -> getLeapSeconds(day)
    [] sys = "GPS" -> 19
    [] sys = "BDT" -> 33
    [] sys = "TAI" -> 0

CivConvertible(t, from, to) ==
  from = to \/ "UTC" \notin {from, to} \/ getLeapSeconds(t.day) # 0

convertSystem(t, from, to) ==
  IF from = to THEN t ELSE addSeconds(t, cOf(from, t.day) - cOf(to, t.day))

\* CivilToCommon and CommonToCivil: a row of the time converter and the
\* instant it names; the fields may be outside their ranges.
CivilToCommon(r) ==
  LET sod == r.second + 60 * (r.minute + 60 * r.hour)
  IN  CivTime(civilToYMD(CivYmd(r.year, r.month, r.day)), sod)

CommonToCivil(t) ==
  LET d   == YMDToCivil(t.day)
      sod == t.sod % CivDayLen
  IN  [year |-> d.year, month |-> d.month, day |-> d.day,
       hour |-> sod \div 3600, minute |-> (sod % 3600) \div 60,
       second |-> sod % 60]

=============================================================================
