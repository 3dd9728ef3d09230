------------------------------ MODULE PlotView ------------------------------
(***************************************************************************)
(* The result page of a solve task while the task runs: the solver commits *)
(* epochs (Core::commitEpoch) and the window, frame after frame, picks the  *)
(* epoch it shows, extends its sky tracks and its copy of the chart series  *)
(* by what is new, and lets the user move the reference the charts are      *)
(* relative to.  The worker holds `mutex` for a whole commit, the frame     *)
(* takes it and `plotMutex` for single sections: each is one step here.     *)
(* The chart series are kept as the reference each point is relative to and *)
(* the residual series of each satellite (epoch numbers and values, a value *)
(* being the number of the epoch it belongs to).                            *)
(***************************************************************************)
EXTENDS Naturals, Sequences, SequencesExt, FiniteSets

CONSTANTS PlotSats,        \* satellites
          PlotKinds,       \* what an epoch can bring: [solved, seen, used]
          PlotMaxEpochs,   \* bound: epochs of a run
          PlotMaxEdits,    \* bound: changes of the reference by the user
          PlotEarlyEdits   \* may the user change it before the first solution

ASSUME PlotAssumption ==
  /\ PlotKinds \subseteq [solved : BOOLEAN, seen : SUBSET PlotSats, used : SUBSET PlotSats]
  /\ PlotMaxEpochs \in Nat /\ PlotMaxEdits \in Nat /\ PlotEarlyEdits \in BOOLEAN

VARIABLES plotOnStored,    \* RTK and realtime tasks: the first reference is taken inside the commit
          plotWorker,      \* solver thread: [at, epoch]
          plotEpochs,      \* epochs
          plotRef,         \* refECEF (0 unset, 1 the first solution, then the edits)
          plotRefSet,      \* initializedRefECEF
          plotData,        \* view.plotData
          plotSeries,      \* view.plotSeries
          plotSky,         \* view.skyTracks, skyTracksBuilt
          plotSel,         \* view.selectedEpoch (0 none)
          plotFrame,       \* the frame being drawn: [at, count, sel, local, copy]
          plotEdits,       \* changes of the reference so far
          plotAway         \* the user picked an epoch that was not the newest

plotVars == <<plotOnStored, plotWorker, plotEpochs, plotRef, plotRefSet, plotData, plotSeries,
              plotSky, plotSel, plotFrame, plotEdits, plotAway>>

PlotNone == 0                 \* an ENU point of an epoch without a solution
PlotNothing == [s \in PlotSats |-> <<>>]
PlotEmpty == [gen |-> 0, solved |-> <<>>, enu |-> <<>>, times |-> PlotNothing, vals |-> PlotNothing]
PlotNoAxis == [pts |-> <<>>, n |-> 0, last |-> 0, tag |-> 0]
PlotIdle == [at |-> "idle", count |-> 0, sel |-> 0, local |-> 0, copy |-> 0]

PlotInit ==
  /\ plotOnStored \in BOOLEAN
  /\ plotWorker = [at |-> "idle", epoch |-> <<>>]
  /\ plotEpochs = <<>> /\ plotRef = 0 /\ plotRefSet = FALSE
  /\ plotData = [data |-> [PlotEmpty EXCEPT !.gen = 1], revision |-> 1]    \* resetForSolve cleared it
  /\ plotSeries = [data |-> PlotEmpty, revision |-> 1, axis |-> [s \in PlotSats |-> PlotNoAxis]]
  /\ plotSky = [tracks |-> PlotNothing, built |-> 0]
  /\ plotSel = 0 /\ plotFrame = PlotIdle /\ plotEdits = 0 /\ plotAway = FALSE

------------------------------------------------------------------------------
(* The chart series *)

\* PlotData::insert of epoch number i.
PlotInsert(d, i, ep, ref) ==
  LET add(q) == [s \in PlotSats |-> IF ep.solved /\ s \in ep.used THEN Append(q[s], i) ELSE q[s]]
  IN [d EXCEPT !.solved = Append(@, ep.solved),
               !.enu = Append(@, IF ep.solved THEN ref ELSE PlotNone),
               !.times = add(@), !.vals = add(@)]

\* PlotData::refreshENU: every point anew from the positions kept, a new generation.
PlotRefreshed(d, ref) ==
  [d EXCEPT !.gen = @ + 1,
            !.enu = [i \in DOMAIN @ |-> IF d.solved[i] THEN ref ELSE PlotNone]]

PlotTail(dst, src, from) == dst \o SubSeq(src, from + 1, Len(src))

\* std::lower_bound: how many points of a series are not after the epoch `from`.
PlotUpTo(ts, from) ==
  LET after == {k \in DOMAIN ts : ts[k] > from}
  IN IF after = {} THEN Len(ts) ELSE Min(after) - 1

\* PlotData::appendFrom: the epochs after number `from`; a residual series is cut by epoch number,
\* its values by how many the copy has.
PlotAppended(dst, src, from) ==
  [gen    |-> src.gen,
   solved |-> PlotTail(dst.solved, src.solved, from),
   enu    |-> PlotTail(dst.enu, src.enu, from),
   times  |-> [s \in PlotSats |-> PlotTail(dst.times[s], src.times[s], PlotUpTo(src.times[s], from))],
   vals   |-> [s \in PlotSats |->
                 LET have == Len(dst.vals[s])
                 IN PlotTail(dst.vals[s], src.vals[s], IF have <= Len(src.vals[s]) THEN have ELSE Len(src.vals[s]))]]

\* One point of BrokenAxis::build: a gap of three epochs or more breaks the line.
PlotPoint(pts, ts, i) ==
  LET open == pts # <<>>
  IN IF open /\ ts[i] > Last(pts)[1] + 2
     THEN pts \o <<<<Last(pts)[1], 0>>, <<ts[i], i>>>>
     ELSE Append(pts, <<ts[i], i>>)

\* The points so far, and those of the rest of a series after its first n.
PlotLine(sofar, n, ts) ==
  LET line[i \in n .. Len(ts)] == IF i = n THEN sofar ELSE PlotPoint(line[i - 1], ts, i)
  IN line[Len(ts)]

\* BrokenAxis::build: goes on where the last build of the same generation stopped.
PlotAxis(ax, ts, tag) ==
  LET resume == tag = ax.tag /\ ax.n > 0 /\ ax.n <= Len(ts) /\ ts[ax.n] = ax.last
      from == IF resume THEN ax ELSE PlotNoAxis
  IN IF ts = <<>> THEN PlotNoAxis                                \* pruneAxes
     ELSE [pts |-> PlotLine(from.pts, from.n, ts), n |-> Len(ts), last |-> Last(ts), tag |-> tag]

\* PlotSeries::sync: nothing new, the tail, or the whole.
PlotSynced(s, pd) ==
  IF pd.revision = s.revision THEN s
  ELSE LET d == IF pd.data.gen = s.data.gen /\ Len(pd.data.solved) >= Len(s.data.solved)
                THEN PlotAppended(s.data, pd.data, Len(s.data.solved)) ELSE pd.data
       IN [data |-> d, revision |-> pd.revision,
           axis |-> [t \in PlotSats |-> PlotAxis(s.axis[t], d.times[t], d.gen)]]

------------------------------------------------------------------------------
(* The solver thread *)

PlotFirstRef(ep) ==                 \* the reference of the run is the first solution
  IF ep.solved /\ ~plotRefSet
  THEN plotRef' = 1 /\ plotRefSet' = TRUE
  ELSE UNCHANGED <<plotRef, plotRefSet>>

\* An epoch is solved; afterSolveEpoch takes the reference under its own lock.
PlotSolve ==
  /\ plotWorker.at = "idle" /\ Len(plotEpochs) < PlotMaxEpochs
  /\ \E ep \in PlotKinds :
       /\ plotWorker' = [at |-> "solved", epoch |-> ep]
       /\ IF plotOnStored THEN UNCHANGED <<plotRef, plotRefSet>> ELSE PlotFirstRef(ep)
  /\ UNCHANGED <<plotOnStored, plotEpochs, plotData, plotSeries, plotSky, plotSel, plotFrame, plotEdits, plotAway>>

\* Core::commitEpoch: stored, drawn relative to the reference of now, selected if the newest was.
PlotCommit ==
  /\ plotWorker.at = "solved"
  /\ LET ep == plotWorker.epoch
         n == Len(plotEpochs) + 1
     IN /\ IF plotOnStored THEN PlotFirstRef(ep) ELSE UNCHANGED <<plotRef, plotRefSet>>
        /\ plotEpochs' = Append(plotEpochs, ep)
        /\ plotData' = [data |-> PlotInsert(plotData.data, n, ep, plotRef'), revision |-> plotData.revision + 1]
        /\ plotSel' = IF plotSel \in {0, n - 1} THEN n ELSE plotSel
  /\ plotWorker' = [plotWorker EXCEPT !.at = "idle"]
  /\ UNCHANGED <<plotOnStored, plotSeries, plotSky, plotFrame, plotEdits, plotAway>>

------------------------------------------------------------------------------
(* A frame of the window *)

\* Core::readEpochView.
PlotFrameBegin ==
  /\ plotFrame.at = "idle"
  /\ LET n == Len(plotEpochs)
         cut == IF plotSel > n THEN n ELSE plotSel
         sel == IF cut = 0 /\ n > 0 THEN 1 ELSE cut
     IN /\ plotSel' = sel
        /\ plotFrame' = [at |-> IF n > 0 THEN "begun" ELSE "drawing", count |-> n, sel |-> sel, local |-> sel, copy |-> 0]
  /\ UNCHANGED <<plotOnStored, plotWorker, plotEpochs, plotRef, plotRefSet, plotData, plotSeries, plotSky, plotEdits, plotAway>>

PlotSkyPoint(s, e) == [ep |-> e, used |-> s \in plotEpochs[e].used]

\* The track of a satellite that was built up to an epoch, and the rest of it.
PlotTrack(s, from, track) ==
  LET line[e \in from .. Len(plotEpochs)] ==
        IF e = from THEN track
        ELSE IF s \in plotEpochs[e].seen THEN Append(line[e - 1], PlotSkyPoint(s, e))
        ELSE line[e - 1]
  IN line[Len(plotEpochs)]

\* View::ensureSkyTracks, on the epochs stored by now.
PlotDrawSky ==
  /\ plotFrame.at = "begun"
  /\ plotSky' = [tracks |-> [s \in PlotSats |-> PlotTrack(s, plotSky.built, plotSky.tracks[s])],
                 built |-> Len(plotEpochs)]
  /\ plotFrame' = [plotFrame EXCEPT !.at = "sky"]
  /\ UNCHANGED <<plotOnStored, plotWorker, plotEpochs, plotRef, plotRefSet, plotData, plotSeries, plotSel, plotEdits, plotAway>>

\* fillPlots: the copy is brought up to date under plotMutex.
PlotSync ==
  /\ plotFrame.at = "sky"
  /\ plotSeries' = PlotSynced(plotSeries, plotData)
  /\ plotFrame' = [plotFrame EXCEPT !.at = "drawing"]
  /\ UNCHANGED <<plotOnStored, plotWorker, plotEpochs, plotRef, plotRefSet, plotData, plotSky, plotSel, plotEdits, plotAway>>

\* The epoch buttons, the slider and the cursors of the charts.
PlotPick ==
  /\ plotFrame.at = "drawing" /\ plotFrame.local = plotFrame.sel
  /\ \E e \in 1..plotFrame.count : plotFrame' = [plotFrame EXCEPT !.local = e]
  /\ UNCHANGED <<plotOnStored, plotWorker, plotEpochs, plotRef, plotRefSet, plotData, plotSeries, plotSky, plotSel, plotEdits, plotAway>>

\* The user types, pastes, averages or drags a reference: it is written without a lock.
PlotEdit ==
  /\ plotFrame.at = "drawing" /\ plotEdits < PlotMaxEdits
  /\ PlotEarlyEdits \/ plotRefSet
  /\ plotEdits' = plotEdits + 1
  /\ plotRef' = plotEdits + 2
  /\ plotFrame' = [plotFrame EXCEPT !.at = "edited"]
  /\ UNCHANGED <<plotOnStored, plotWorker, plotEpochs, plotRefSet, plotData, plotSeries, plotSky, plotSel, plotAway>>

\* onRefChanged reads the reference under mutex ...
PlotCopyRef ==
  /\ plotFrame.at = "edited"
  /\ plotFrame' = [plotFrame EXCEPT !.at = "copied", !.copy = plotRef]
  /\ UNCHANGED <<plotOnStored, plotWorker, plotEpochs, plotRef, plotRefSet, plotData, plotSeries, plotSky, plotSel, plotEdits, plotAway>>

\* ... and then rewrites the points under plotMutex.
PlotRefresh ==
  /\ plotFrame.at = "copied"
  /\ plotData' = [data |-> PlotRefreshed(plotData.data, plotFrame.copy), revision |-> plotData.revision + 1]
  /\ plotFrame' = [plotFrame EXCEPT !.at = "drawing", !.copy = 0]
  /\ UNCHANGED <<plotOnStored, plotWorker, plotEpochs, plotRef, plotRefSet, plotSeries, plotSky, plotSel, plotEdits, plotAway>>

\* As PlotFrameEnd would be if the frame wrote back its selection whether or not the user moved it.
PlotFrameEndAlways ==
  /\ plotFrame.at = "drawing"
  /\ plotSel' = IF plotFrame.local # 0 THEN plotFrame.local ELSE plotSel
  /\ plotAway' = IF plotFrame.local # plotFrame.sel THEN plotFrame.local # Len(plotEpochs) ELSE plotAway
  /\ plotFrame' = PlotIdle
  /\ UNCHANGED <<plotOnStored, plotWorker, plotEpochs, plotRef, plotRefSet, plotData, plotSeries, plotSky, plotEdits>>

\* The end of renderResult: a selection the user moved is written back.
PlotFrameEnd ==
  /\ plotFrame.at = "drawing"
  /\ LET moved == plotFrame.local # plotFrame.sel
     IN /\ plotSel' = IF moved THEN plotFrame.local ELSE plotSel
        /\ plotAway' = IF moved THEN plotFrame.local # Len(plotEpochs) ELSE plotAway
  /\ plotFrame' = PlotIdle
  /\ UNCHANGED <<plotOnStored, plotWorker, plotEpochs, plotRef, plotRefSet, plotData, plotSeries, plotSky, plotEdits>>

PlotNext ==
  \/ PlotSolve \/ PlotCommit
  \/ PlotFrameBegin \/ PlotDrawSky \/ PlotSync \/ PlotPick
  \/ PlotEdit \/ PlotCopyRef \/ PlotRefresh \/ PlotFrameEnd

PlotSpec == PlotInit /\ [][PlotNext]_plotVars

------------------------------------------------------------------------------
(* Properties *)

\* A copy of the chart series that counts as current is the whole of the series, with the breaks a
\* build from nothing would give, and the sky tracks are those of all the epochs they claim: the
\* incremental ways of PlotSeries::sync, BrokenAxis::build and ensureSkyTracks lose and repeat nothing
\* whatever was committed or rewritten between two frames.
PlotCopyIsWhole ==
  /\ plotSeries.revision = plotData.revision =>
       /\ \/ plotSeries.data = plotData.data
          \/ plotSeries.data = PlotEmpty /\ plotData.data = [PlotEmpty EXCEPT !.gen = 1]
       /\ \A s \in PlotSats :
            plotSeries.axis[s].pts = PlotAxis(PlotNoAxis, plotSeries.data.times[s], 1).pts
  /\ plotSky.built <= Len(plotEpochs)
  /\ \A s \in PlotSats :
       LET track == plotSky.tracks[s]
       IN /\ \A i, j \in DOMAIN track : i < j => track[i].ep < track[j].ep
          /\ {track[i] : i \in DOMAIN track}
               = {PlotSkyPoint(s, e) : e \in {d \in 1..plotSky.built : s \in plotEpochs[d].seen}}

\* The selection stays on the newest epoch until the user leaves it: a commit during a frame is not
\* undone by the selection that the frame read at its start (renderResult, commitEpoch).
PlotSelFollows ==
  ~plotAway => plotSel = Len(plotEpochs)

\* Between two changes of the reference all points drawn are relative to the one in use: a commit in
\* the middle of a change is caught by the rewrite that follows it (onRefChanged, refreshENU).
PlotOneReference ==
  plotFrame.at \notin {"edited", "copied"} =>
    \A i \in DOMAIN plotData.data.solved : plotData.data.solved[i] => plotData.data.enu[i] = plotRef

\* The charts' copy is whole, of the selected task, and about one reference.
PlotIsConsistent == PlotCopyIsWhole /\ PlotSelFollows /\ PlotOneReference

=============================================================================
