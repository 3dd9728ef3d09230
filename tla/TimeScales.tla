----------------------------- MODULE TimeScales -----------------------------
(***************************************************************************)
(* The time converter of the tools (app/tools/GuiTimeConverter.cpp): a row *)
(* of six fields for each time system; an edit of any field makes its row  *)
(* the base and writes the three others from it, through the conversions   *)
(* of Calendar.  The fields take any value, the row that was edited keeps  *)
(* it as it was typed.                                                     *)
(***************************************************************************)
EXTENDS Calendar

CONSTANTS TimNows,      \* UTC rows the clock of the machine may give
          TimSteps,     \* what an edit adds to a field
          TimMaxEdits   \* bound: edits
ASSUME TimAssumption == TimSteps \subseteq Int /\ TimMaxEdits \in Nat

VARIABLES timRows,   \* s_Civil
          timErr,    \* s_Error is not empty
          timEdits

timVars == <<timRows, timErr, timEdits>>

TimSystems == {"UTC", "GPS", "BDT", "TAI"}
TimFields == {"year", "month", "day", "hour", "minute", "second"}

-----------------------------------------------------------------------------
\* As TimConverted would be if the base were taken to be GPS time.
BaseTakenAsGps(r, source, sys) ==
  CommonToCivil(convertSystem(CivilToCommon(r), "GPS", sys))

\* What the other rows become when the row r of source is the base, or an
\* error where a conversion throws; the first that may throw is the first
\* that is tried, so an error leaves every row as it was.
TimConverted(r, source, sys) ==
  CommonToCivil(convertSystem(CivilToCommon(r), source, sys))

SyncFrom(source, r) ==
  LET base == CivilToCommon(r)
      ok   == \A sys \in TimSystems : CivConvertible(base, source, sys)
  IN  /\ timErr' = ~ok
      /\ timRows' = [sys \in TimSystems |->
                       IF sys = source THEN r
                       ELSE IF ok THEN TimConverted(r, source, sys)
                       ELSE timRows[sys]]

\* The first frame takes the clock of the machine (SetToNow).
TimInit ==
  \E now \in TimNows :
    /\ timRows = [sys \in TimSystems |->
                    IF sys = "UTC" THEN now ELSE TimConverted(now, "UTC", sys)]
    /\ timErr = FALSE
    /\ timEdits = 0

TimEdited == timEdits < TimMaxEdits /\ timEdits' = timEdits + 1

\* Any field of any row is stepped or typed over.  Bound: a month leaves its
\* range by one at most; beyond that the month names nothing (civilToYMD does
\* not carry it, its months are those of one year from March on).
TimMonths == 0 .. 13

TimEdit(sys, f, by) ==
  /\ TimEdited
  /\ f = "month" => timRows[sys][f] + by \in TimMonths
  /\ SyncFrom(sys, [timRows[sys] EXCEPT ![f] = @ + by])

\* A day is picked in the calendar: the date of the UTC row changes, the time
\* of the day stays.
TimPickDay(now) ==
  LET r == [timRows["UTC"] EXCEPT !.year = now.year, !.month = now.month,
                                  !.day = now.day]
  IN  TimEdited /\ r # timRows["UTC"] /\ SyncFrom("UTC", r)

\* The button of the present moment.
TimNow(now) == TimEdited /\ SyncFrom("UTC", now)

TimNext ==
  \/ \E sys \in TimSystems, f \in TimFields, by \in TimSteps : TimEdit(sys, f, by)
  \/ \E now \in TimNows : TimPickDay(now) \/ TimNow(now)

TimSpec == TimInit /\ [][TimNext]_timVars

-----------------------------------------------------------------------------
(* What the rows mean, by the wall calendar and the table of leap seconds. *)

TimLeap(y) == y % 4 = 0 /\ (y % 100 # 0 \/ y % 400 = 0)

\* MJD of a date, a month 0 or 13 and days out of range carried over.
TimMjd(r) ==
  LET y      == IF r.month < 1 THEN r.year - 1
                ELSE IF r.month > 12 THEN r.year + 1 ELSE r.year
      mo     == IF r.month < 1 THEN r.month + 12
                ELSE IF r.month > 12 THEN r.month - 12 ELSE r.month
      before == <<0, 31, 59, 90, 120, 151, 181, 212, 243, 273, 304, 334>>
  IN  (y - 1970) * 365 + Cardinality({z \in 1970 .. y - 1 : TimLeap(z)})
        + before[mo] + (IF mo > 2 /\ TimLeap(y) THEN 1 ELSE 0)
        + r.day - 1 + CivBaseMjd

TimAhead(sys, mjd) ==
  CASE sys = "UTC" -> 9 + Cardinality({d \in CivLeapDays : d <= mjd})
    [] sys = "GPS" -> 19
    [] sys = "BDT" -> 33
    [] sys = "TAI" -> 0

\* The TAI instant a row names: its day, and its second of that day.
TimTai(sys, r) ==
  LET sod == r.hour * 3600 + r.minute * 60 + r.second + TimAhead(sys, TimMjd(r))
  IN  <<TimMjd(r) + sod \div CivDayLen, sod % CivDayLen>>

TimInRange(r) ==
  /\ r.month \in 1 .. 12 /\ r.day \in 1 .. 31
  /\ r.hour \in 0 .. 23 /\ r.minute \in 0 .. 59 /\ r.second \in 0 .. 59

\* Whatever was edited, in whatever order, the four rows name one instant, and
\* at most the row that was edited last holds a field out of its range.
TimRowsAgree ==
  ~timErr =>
    /\ \A a, b \in TimSystems : TimTai(a, timRows[a]) = TimTai(b, timRows[b])
    /\ \A a, b \in TimSystems :
         a = b \/ TimInRange(timRows[a]) \/ TimInRange(timRows[b])

=============================================================================
