------------------------------- MODULE MCDesk -------------------------------
(***************************************************************************)
(* What the program shows and keeps, one component at a time: the quality  *)
(* control, the charts, the inertial tools, the dated library, the choice of *)
(* products, the reference position, the date rows and the time converter. *)
(***************************************************************************)
EXTENDS QcStream, PlotView, InsRun, ImuDetect, AlignSeries, DateStore,
        ProductChoice, RefTruth, DateRow, TimeScales

(***************************************************************************)
(* Three satellites over seven epochs, with one epoch in which all see the *)
(* clock jump or none does, and up to two other events in the series of    *)
(* the first: a point missing, an outage of two epochs, a point with one   *)
(* band, or a slip or an outlier in one of the tests.                      *)
(***************************************************************************)

QcS == {"G01", "G02", "G03"}
QcN == 7

Kinds == {"absent", "outage", "single", "gf", "slip", "outlier"}

Value(kinds, jump) ==
    [dual |-> "single" \notin kinds, gf |-> "gf" \in kinds, jump |-> jump,
     mw |-> CASE "slip" \in kinds -> "slip"
              [] "outlier" \in kinds -> "outlier"
              [] OTHER -> "clean"]

EpochOf(events, jumpAt, i) ==
    LET now == {e[2] : e \in {f \in events : f[1] = i}}
        out == "absent" \in now \/ "outage" \in now \/ <<i - 1, "outage">> \in events
    IN  [dt |-> 2,
         values |-> [s \in IF out THEN QcS \ {"G01"} ELSE QcS |->
                       Value(IF s = "G01" THEN now ELSE {}, i = jumpAt)]]

Happening == (2 .. QcN) \X Kinds

MCQcInputs ==
    {[nominal |-> n, epochs |-> [i \in 1 .. QcN |-> EpochOf({e, f}, j, i)]] :
       n \in {0, 2, 4}, e \in Happening, f \in Happening, j \in {1, 4, QcN - 1, QcN}}

-----------------------------------------------------------------------------
(* One satellite, in view or not, of epochs with and without a solution. *)

MCPlotSats == {"G01"}
MCPlotKinds == {[solved |-> FALSE, seen |-> {"G01"}, used |-> {}],
                [solved |-> TRUE, seen |-> {"G01"}, used |-> {"G01"}],
                [solved |-> TRUE, seen |-> {}, used |-> {}]}

-----------------------------------------------------------------------------
(* Instance of InsRun: a log of each kind, two of them with one content,  *)
(* and one that does not open.                                             *)

InsLog(path, dev, rest, body) == [path |-> path, dev |-> dev, rest |-> rest, body |-> body]

InsHg == InsLog("hg", "HG", "HG", "b1")
InsStim == InsLog("stim", "STIM", InsNothing, "b2")
InsAscii == InsLog("ascii", "silent", "HG", "b1")
InsMute == InsLog("mute", "silent", InsNothing, "b3")
InsOdd == InsLog("odd", "unlisted", InsNothing, "b4")
InsShut == InsLog("shut", "silent", InsNothing, InsNothing)

MCInsLists == {<<InsHg, InsAscii>>, <<InsHg, InsStim>>, <<InsShut, InsMute>>, <<InsOdd>>}

-----------------------------------------------------------------------------
(* Instance of ImuDetect: rests and turns about two axes, up to three of  *)
(* them, with knocks of up to two runs between; a log begins with a rest  *)
(* or a turn.  With BrokenTurns a knock may interrupt a turn.             *)

\* Two lengths of a rest or a turn, both longer than all the knocks beside it.
CalLengths == {9, 12}

CalSolids == {[key |-> 0, len |-> n, turned |-> 0] : n \in CalLengths}
             \cup {[key |-> 3, len |-> 9, turned |-> 0]}
             \cup {[key |-> 6, len |-> n, turned |-> 2] : n \in CalLengths}
             \cup {[key |-> 9, len |-> 9, turned |-> -2]}

CalKnocks == {[key |-> k, len |-> n, turned |-> 0] : k \in {4, 8}, n \in {1, 2}}

CalBetween == {<<>>} \cup {<<a>> : a \in CalKnocks}
              \cup {<<a, b>> : a \in CalKnocks, b \in {[key |-> 11, len |-> 2, turned |-> 0]}}

CalLogsOfTwo == {<<a>> \o m \o <<b>> \o e : a \in CalSolids, m \in CalBetween,
                                          b \in CalSolids, e \in CalBetween}

MCCalLogs ==
    {<<>>} \cup {<<a>> : a \in CalSolids}
    \cup {g \in CalLogsOfTwo : \A i \in 1..(Len(g) - 1) : g[i].key # g[i + 1].key}
    \cup {g \o <<c>> : g \in {h \in CalLogsOfTwo : \A i \in 1..(Len(h) - 1) : h[i].key # h[i + 1].key},
                       c \in {[key |-> 6, len |-> 12, turned |-> 2]}}

\* A turn knocked in the middle.
BrokenTurns ==
    {<<[key |-> 0, len |-> 9, turned |-> 0], [key |-> 6, len |-> 9, turned |-> 1], n,
       [key |-> 6, len |-> 12, turned |-> 1]>> : n \in CalKnocks}

-----------------------------------------------------------------------------
(* Two orbit files that only their names rank, a navigation file, a grid. *)

CONSTANTS orbit1, orbit2, broadcast, grid, cutFile
MCProdItems == {orbit1, orbit2, broadcast, grid}
MCProdTypes == (orbit1 :> "orb") @@ (orbit2 :> "orb") @@ (broadcast :> "nav") @@ (grid :> "vmf")
               @@ (cutFile :> "unknown")
MCProdScores == (orbit1 :> 2) @@ (orbit2 :> 2) @@ (broadcast :> 3) @@ (grid :> 2) @@ (cutFile :> 0)
MCProdNames == (orbit1 :> 1) @@ (orbit2 :> 2) @@ (broadcast :> 3) @@ (grid :> 5) @@ (cutFile :> 6)

-----------------------------------------------------------------------------
MCRefServed ==
  {[n \in RefNames |-> IF n = "crd" THEN a ELSE b] :
     a \in {RefFile(FALSE, FALSE, {}), RefFile(TRUE, FALSE, {}), RefFile(TRUE, TRUE, {"s1"})},
     b \in {RefFile(FALSE, FALSE, {}), RefFile(TRUE, TRUE, {"s1", "s2"})}}

-----------------------------------------------------------------------------
MCCivTodays == {CivYmd(1999, 12, 31), CivYmd(2016, 2, 28), CivYmd(2018, 12, 31),
                CivYmd(2016, 12, 31)}

\* Rows around a new year, the end of February and a leap second.
TimRow(y, mo, d, h, mi, s) ==
  [year |-> y, month |-> mo, day |-> d, hour |-> h, minute |-> mi, second |-> s]
MCTimNows == {TimRow(2022, 12, 31, 23, 59, 25), TimRow(2020, 2, 28, 23, 59, 42),
              TimRow(2100, 3, 1, 0, 0, 0), TimRow(2000, 2, 29, 0, 0, 10)}
MCTimLeaps == {TimRow(2016, 12, 31, 23, 59, 43)}
MCTimSteps == {-1, 1}

-----------------------------------------------------------------------------
VARIABLE component   \* what a behaviour is of

\* What a component that does not run would have for input is of no account.
Of(p, S, c) == IF component = p THEN S ELSE {c}
Fixed(p, v, c) == component # p => v = c
AnyQcInput == CHOOSE x \in QcInputs : TRUE
AnyPlotOnStored == CHOOSE x \in BOOLEAN : TRUE
AnyInsTool == CHOOSE x \in {"calib", "align"} : TRUE
AnyInsFiles == CHOOSE x \in InsLists : TRUE
AnyCalLog == CHOOSE x \in CalLogs : TRUE
AnyLibRemote == CHOOSE x \in SUBSET LibFiles : TRUE
AnyRefObs == CHOOSE x \in [RefTasks -> RefObsFiles] : TRUE
AnyRefServer == CHOOSE x \in RefServed : TRUE
AnyCivToday == CHOOSE x \in CivTodays : TRUE
AnyTimRowsUTC == CHOOSE x \in TimNows : TRUE

DeskInit ==
  /\ component \in {"quality", "charts", "ins", "detect", "series", "library",
               "choice", "reference", "dates", "scales"}
  /\ \E of \in Of("quality", QcInputs, AnyQcInput) : QcStart(of)
  /\ Fixed("charts", plotOnStored, AnyPlotOnStored)
  /\ PlotInit
  /\ Fixed("ins", insTool, AnyInsTool)
  /\ Fixed("ins", insFiles, AnyInsFiles)
  /\ InsInit
  /\ \E of \in Of("detect", CalLogs, AnyCalLog) : CalStart(of)
  /\ AliInit
  /\ Fixed("library", libRemote, AnyLibRemote)
  /\ LibInit
  /\ ProdInit
  /\ Fixed("reference", refObs, AnyRefObs)
  /\ Fixed("reference", refServer, AnyRefServer)
  /\ RefInit
  /\ Fixed("dates", civToday, AnyCivToday)
  /\ CivInit
  /\ TimInit
  /\ Fixed("scales", timRows["UTC"], AnyTimRowsUTC)

deskVars == <<component, qcVars, plotVars, insVars, calVars, aliVars, libVars,
              prodVars, refVars, civVars, timVars>>

QualityStep(A) == component = "quality" /\ A
  /\ UNCHANGED <<component, plotVars, insVars, calVars, aliVars, libVars, prodVars,
                 refVars, civVars, timVars>>
ChartsStep(A) == component = "charts" /\ A
  /\ UNCHANGED <<component, qcVars, insVars, calVars, aliVars, libVars, prodVars,
                 refVars, civVars, timVars>>
InsStep(A) == component = "ins" /\ A
  /\ UNCHANGED <<component, qcVars, plotVars, calVars, aliVars, libVars, prodVars,
                 refVars, civVars, timVars>>
DetectStep(A) == component = "detect" /\ A
  /\ UNCHANGED <<component, qcVars, plotVars, insVars, aliVars, libVars, prodVars,
                 refVars, civVars, timVars>>
SeriesStep(A) == component = "series" /\ A
  /\ UNCHANGED <<component, qcVars, plotVars, insVars, calVars, libVars, prodVars,
                 refVars, civVars, timVars>>
LibraryStep(A) == component = "library" /\ A
  /\ UNCHANGED <<component, qcVars, plotVars, insVars, calVars, aliVars, prodVars,
                 refVars, civVars, timVars>>
ChoiceStep(A) == component = "choice" /\ A
  /\ UNCHANGED <<component, qcVars, plotVars, insVars, calVars, aliVars, libVars,
                 refVars, civVars, timVars>>
ReferenceStep(A) == component = "reference" /\ A
  /\ UNCHANGED <<component, qcVars, plotVars, insVars, calVars, aliVars, libVars,
                 prodVars, civVars, timVars>>
DatesStep(A) == component = "dates" /\ A
  /\ UNCHANGED <<component, qcVars, plotVars, insVars, calVars, aliVars, libVars,
                 prodVars, refVars, timVars>>
ScalesStep(A) == component = "scales" /\ A
  /\ UNCHANGED <<component, qcVars, plotVars, insVars, calVars, aliVars, libVars,
                 prodVars, refVars, civVars>>

DeskNext ==
  \/ QualityStep(QcNext)
  \/ ChartsStep(PlotNext)
  \/ InsStep(InsNext)
  \/ DetectStep(CalNext)
  \/ SeriesStep(AliNext)
  \/ LibraryStep(LibNext)
  \/ ChoiceStep(ProdNext)
  \/ ReferenceStep(RefNext)
  \/ DatesStep(CivNext)
  \/ ScalesStep(TimNext)

DeskSpec ==
  /\ DeskInit /\ [][DeskNext]_deskVars

\* The rows of dates and of the time scales, where they are what runs.
DateRowsHold == component = "dates" => CivRowsHold
ScaleRowsAgree == component = "scales" => TimRowsAgree

=============================================================================
