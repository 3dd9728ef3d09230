------------------------------ MODULE DateRow ------------------------------
(***************************************************************************)
(* The date rows of the download panels and the calendar that pops up from *)
(* them (app/ui/DatePicker.cpp, download/Widgets.cpp dateRow, Acquire.cpp, *)
(* Panel.cpp).  The row of the download window keeps a date; the row of    *)
(* the panel that fetches products for a task keeps a year and a day of    *)
(* the year, and turns it into a date and back in every frame.             *)
(***************************************************************************)
EXTENDS Calendar

CONSTANTS CivTodays,      \* dates the program may be started on
          CivTypedYears,  \* values typed into the fields of the calendar
          CivTypedMonths,
          CivTypedDays,
          CivSpans,       \* days a product may cover
          CivMaxClicks    \* bound: clicks and typed values
ASSUME CivAssumption == CivBaseMjd \in Int /\ CivMaxClicks \in Nat

VARIABLES civDate,    \* the date of the window's row
          civAcq,     \* the year and the day of the year of the panel's row
          civView,    \* s_viewYear, s_viewMonth: the page, shared by the rows
          civOpen,    \* the row whose calendar is open, or "none"
          civToday,   \* the date of the wall clock
          civPicked,  \* the date the user last chose, by row
          civClicks

civVars == <<civDate, civAcq, civView, civOpen, civToday, civPicked, civClicks>>

CivRows == {"date", "acq"}

-----------------------------------------------------------------------------
(* The calendar on the wall: month lengths, and days counted by them.      *)

WallLeap(y) == y % 4 = 0 /\ (y % 100 # 0 \/ y % 400 = 0)

WallLen(y, mo) ==
  CASE mo = 2 -> IF WallLeap(y) THEN 29 ELSE 28
    [] mo \in {4, 6, 9, 11} -> 30
    [] OTHER -> 31

\* Days from 1980-01-06, a Sunday, for dates from 1970 on.
WallCount(c) ==
  LET before == <<0, 31, 59, 90, 120, 151, 181, 212, 243, 273, 304, 334>>
  IN  (c.year - 1980) * 365
        + Cardinality({y \in 1980 .. c.year - 1 : WallLeap(y)})
        - Cardinality({y \in c.year .. 1979 : WallLeap(y)})
        + before[c.month] + (IF c.month > 2 /\ WallLeap(c.year) THEN 1 ELSE 0)
        + c.day - 6

WallNext(c) ==
  IF c.day < WallLen(c.year, c.month) THEN [c EXCEPT !.day = @ + 1]
  ELSE IF c.month < 12 THEN CivYmd(c.year, c.month + 1, 1)
  ELSE CivYmd(c.year + 1, 1, 1)

WallPrev(c) ==
  IF c.day > 1 THEN [c EXCEPT !.day = @ - 1]
  ELSE IF c.month > 1 THEN CivYmd(c.year, c.month - 1, WallLen(c.year, c.month - 1))
  ELSE CivYmd(c.year - 1, 12, 31)

-----------------------------------------------------------------------------
(* What the rows show and keep.                                            *)

\* The panel's row: DOYToYMD, or the first of January where it has no date.
acqDate ==
  LET c == DOYToYMD(civAcq.year, civAcq.doy)
  IN  IF c = CivNoDate THEN CivYmd(civAcq.year, 1, 1) ELSE c

CivShown(row) == IF row = "date" THEN civDate ELSE acqDate

CivAcqOf(c) == [year |-> c.year, doy |-> YMDToDOY(c)]

CivKeep(row, c) ==
  IF row = "date" THEN civDate' = c /\ UNCHANGED civAcq
                  ELSE civAcq' = CivAcqOf(c) /\ UNCHANGED civDate

CivClicked == civClicks < CivMaxClicks /\ civClicks' = civClicks + 1

CivClamp(v, lo, hi) == IF v < lo THEN lo ELSE IF v > hi THEN hi ELSE v

weekdayOf(c) == (civilToYMD(c) + 4) % 7

\* The cells of the page that hold a day, and the day of a cell.
CivCells ==
  LET first == weekdayOf(CivYmd(civView.year, civView.month, 1))
  IN  {s \in 0 .. 41 : s - first + 1 \in 1 .. daysInMonth(civView.year, civView.month)}

CivCellDay(s) == s - weekdayOf(CivYmd(civView.year, civView.month, 1)) + 1

CivInit ==
  /\ civToday \in CivTodays
  /\ civDate = civToday
  /\ civAcq = CivAcqOf(WallPrev(civToday))       \* defaultObsDate
  /\ civPicked = [date |-> civToday, acq |-> WallPrev(civToday)]
  /\ civView = [year |-> 0, month |-> 0]
  /\ civOpen = "none"
  /\ civClicks = 0

\* button: a click on the row's date opens the calendar on its month.
CivPopUp(row) ==
  /\ CivClicked
  /\ civOpen # row
  /\ civOpen' = row
  /\ civView' = [year |-> CivShown(row).year, month |-> CivShown(row).month]
  /\ UNCHANGED <<civDate, civAcq, civToday, civPicked>>

CivClose ==
  /\ civOpen # "none"
  /\ civOpen' = "none"
  /\ UNCHANGED <<civDate, civAcq, civView, civToday, civPicked, civClicks>>

\* The four arrows, and the clamp of the page that follows in the frame.
CivTurn(years, months) ==
  LET mo == civView.month + months
      y  == civView.year + years + (IF mo < 1 THEN -1 ELSE IF mo > 12 THEN 1 ELSE 0)
  IN  /\ civOpen # "none"
      /\ CivClicked
      /\ civView' = [year  |-> CivClamp(y, 1980, 2099),
                     month |-> IF mo < 1 THEN 12 ELSE IF mo > 12 THEN 1 ELSE mo]
      /\ UNCHANGED <<civDate, civAcq, civOpen, civToday, civPicked>>

\* As CivSettle would be if a change of the month left the day alone.
DayLeftAlone(c) == c

\* What the day becomes once a field has changed.
CivSettle(c) ==
  [c EXCEPT !.day = CivClamp(c.day, 1, daysInMonth(c.year, c.month))]

CivChoose(c, meant) ==
  /\ CivKeep(civOpen, CivSettle(c))
  /\ civView' = [year |-> c.year, month |-> c.month]
  /\ civPicked' = [civPicked EXCEPT ![civOpen] = meant]
  /\ UNCHANGED <<civOpen, civToday>>

\* A click on a cell: what the user means is the day of the wall calendar
\* that stands in that week under that day of the week.
CivPickCell(s) ==
  LET firstCol == WallCount(CivYmd(civView.year, civView.month, 1)) % 7
  IN  /\ civOpen # "none"
      /\ CivClicked
      /\ s \in CivCells
      /\ CivChoose(CivYmd(civView.year, civView.month, CivCellDay(s)),
                   CivYmd(civView.year, civView.month, s - firstCol + 1))

\* A year, a month or a day typed into the fields under the calendar: a value
\* out of its range means the nearest one there is.
CivMeant(c) == [c EXCEPT !.day = CivClamp(c.day, 1, WallLen(c.year, c.month))]

CivTypeYear(v) ==
  LET c == [CivShown(civOpen) EXCEPT !.year = CivClamp(v, 1980, 2099)]
  IN  civOpen # "none" /\ CivClicked /\ CivChoose(c, CivMeant(c))

CivTypeMonth(v) ==
  LET c == [CivShown(civOpen) EXCEPT !.month = CivClamp(v, 1, 12)]
  IN  civOpen # "none" /\ CivClicked /\ CivChoose(c, CivMeant(c))

CivTypeDay(v) ==
  LET d == CivShown(civOpen)
      c == [d EXCEPT !.day = CivClamp(v, 1, daysInMonth(d.year, d.month))]
  IN  civOpen # "none" /\ CivClicked /\ CivChoose(c, CivMeant([d EXCEPT !.day = v]))

\* The button of today under the calendar.
CivGoToday ==
  /\ civOpen # "none"
  /\ CivClicked
  /\ CivKeep(civOpen, civToday)
  /\ civView' = [year |-> civToday.year, month |-> civToday.month]
  /\ civPicked' = [civPicked EXCEPT ![civOpen] = civToday]
  /\ UNCHANGED <<civOpen, civToday>>

\* The quick button of a row: today, or yesterday for the panel's row.
CivQuick(row) ==
  LET c == IF row = "date" THEN civToday ELSE WallPrev(civToday)
      d == IF row = "date" THEN c ELSE DOYToYMD(c.year, YMDToDOY(c))
  IN  /\ CivClicked
      /\ CivKeep(row, d)
      /\ civPicked' = [civPicked EXCEPT ![row] = c]
      /\ UNCHANGED <<civView, civOpen, civToday>>

\* Midnight passes while the program runs.
CivMidnight ==
  /\ CivClicked
  /\ civToday' = WallNext(civToday)
  /\ UNCHANGED <<civDate, civAcq, civView, civOpen, civPicked>>

CivNext ==
  \/ \E row \in CivRows : CivPopUp(row)
  \/ CivClose
  \/ \E years, months \in {-1, 0, 1} :
       (years = 0) # (months = 0) /\ CivTurn(years, months)
  \/ \E s \in 0 .. 41 : CivPickCell(s)
  \/ \E v \in CivTypedYears : CivTypeYear(v)
  \/ \E v \in CivTypedMonths : CivTypeMonth(v)
  \/ \E v \in CivTypedDays : CivTypeDay(v)
  \/ CivGoToday
  \/ \E row \in CivRows : CivQuick(row)
  \/ CivMidnight

CivSpec == CivInit /\ [][CivNext]_civVars

-----------------------------------------------------------------------------
\* Each row shows the date the user chose, a date of the calendar, through
\* the cells of the page, the typed fields and the panel's day of the year;
\* and the page that is open has a cell for every day of its month.
CivPickKept ==
  /\ \A row \in CivRows : /\ CivShown(row) = civPicked[row]
                          /\ civPicked[row].month \in 1 .. 12
                          /\ civPicked[row].day
                               \in 1 .. WallLen(civPicked[row].year,
                                                civPicked[row].month)
  /\ civOpen # "none" =>
       Cardinality(CivCells) = WallLen(civView.year, civView.month)

\* Every product that covers the day of a row is filed under a week whose
\* directories the panel lists for that day (scanDirs, covers): products
\* begin on a day, are filed under the week of that day, and cover at most
\* CivSpans days.
CivDirsHold ==
  \A row \in CivRows :
    LET c   == civPicked[row]
        y   == c.year
        doy == YMDToDOY(CivShown(row))
        weekOf(d) == WallCount(d) \div 7
    IN  \A start \in {c, WallPrev(c)}, n \in CivSpans :
          LET p == [year |-> start.year, doy |-> YMDToDOY(start), span |-> n]
          IN  /\ covers(p, y, doy) <=> (start = c \/ n > 1)
              /\ covers(p, y, doy) => weekOf(start) \in scanWeeks(y, doy)
              /\ start = c => GPSWeek(y, doy) = weekOf(c)

\* The date rows keep what the user picked and list where its products are.
CivRowsHold == CivPickKept /\ CivDirsHold

=============================================================================
