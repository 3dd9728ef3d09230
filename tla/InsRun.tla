------------------------------ MODULE InsRun ------------------------------
(***************************************************************************)
(* The runs of the two inertial tools, six-position calibration and static *)
(* alignment (app/tools/ins): the GUI thread edits the settings, starts    *)
(* and stops a run, fills in the scale prompt, draws frames and exports;   *)
(* one worker thread parses the files, finds the scale of the device,      *)
(* solves and publishes under resultMutex, one lock section per action.    *)
(*                                                                         *)
(* The page of settings is drawn only until the first run begins: no task  *)
(* comes back to the state Config, and later runs are started from the     *)
(* scale prompt.  So the files, and g with the other parameters, which the *)
(* worker reads where they stand, are those of every run of a tab; the     *)
(* parameters are left out.  The samples of a log are nonzero.             *)
(***************************************************************************)
EXTENDS Integers, Sequences, SequencesExt

CONSTANTS InsLists,      \* the file lists the user chooses from: sequences of
                         \* logs, records [path, dev, rest, body]
          InsMaxRuns     \* bound: runs started

\* calibWorker refuses an empty file list, alignWorker an empty path.
ASSUME InsAssumption ==
  /\ InsMaxRuns \in Nat
  /\ \A files \in InsLists : files # <<>> /\ files \in Seq(ToSet(files))

VARIABLES insTool,   \* which tool: "calib" or "align"
          insFiles,  \* the file list of the settings page
          insTask,   \* [state, loading, stop, hasResult, runFailed]
          insScale,  \* ScaleFallback: [asked, accepted, filled, sig]
          insPub,    \* what resultMutex guards, each with the run it is of
          insWorker, \* the worker thread and its locals
          insGui     \* the GUI thread: where it is, and what the frame shows

insVars == <<insTool, insFiles, insTask, insScale, insPub, insWorker, insGui>>

InsNothing == "none"

\* ScaleResolution as a run begins.
InsNoScale == [model |-> InsNothing, conflict |-> FALSE, src |-> "None"]

\* ScaleResolution::observe of what the log of file f says of its device: a
\* type outside the table, or none, only words the notice.
InsObserve(s, f) ==
    CASE f.dev \in {"unlisted", "silent"} -> s
      [] s.model = InsNothing -> [s EXCEPT !.model = f.dev]
      [] OTHER              -> [s EXCEPT !.conflict = s.model # f.dev]

\* ScaleResolution::resolve with the static candidates of the files read:
\* the record first, then what the user filled in, then a guess.
InsResolve(s, sf, cands) ==
    [s EXCEPT !.src = IF s.model # InsNothing THEN "Record"
                      ELSE IF sf.accepted THEN "Manual"
                      ELSE IF \E f \in cands : f.rest # InsNothing THEN "Guess"
                      ELSE "None"]

InsIdle == [pc |-> "exit", run |-> 0, at |-> 1, half |-> FALSE,
            sen |-> InsNoScale, segs |-> <<>>]

InsInit ==
    /\ insTool \in {"calib", "align"}
    /\ insFiles \in InsLists
    /\ insTask = [state |-> "Idle", loading |-> FALSE, stop |-> FALSE,
                  hasResult |-> FALSE, runFailed |-> FALSE]
    /\ insScale = [asked |-> FALSE, accepted |-> FALSE, filled |-> FALSE, sig |-> <<>>]
    /\ insPub = [notice |-> 0, segs |-> <<>>, segsOf |-> 0, accelReady |-> FALSE,
                 report |-> <<>>, reportOf |-> 0, src |-> "None"]
    /\ insWorker = InsIdle
    /\ insGui = [pc |-> "frame", shows |-> 0, accel |-> 0, blank |-> FALSE,
                 exported |-> <<>>, runs |-> 0]

----------------------------------------------------------------------------
(* The GUI thread.                                                         *)

\* The page of settings: another file list.
InsEdit ==
    /\ insTask.state = "Idle" /\ insGui.pc = "frame"
    /\ insFiles' \in InsLists \ {insFiles}
    /\ UNCHANGED <<insTool, insTask, insScale, insPub, insWorker, insGui>>

\* Its cancel button: no run will begin.
InsCancel ==
    /\ insTask.state = "Idle" /\ insGui.pc = "frame"
    /\ insTask' = [insTask EXCEPT !.state = "Done", !.stop = TRUE]
    /\ UNCHANGED <<insTool, insFiles, insScale, insPub, insWorker, insGui>>

\* keepManualScaleFor: a scale filled in for other files is forgotten.
InsKeepManual(sf, sig) ==
    IF sf.accepted /\ sf.sig # sig
    THEN [sf EXCEPT !.accepted = FALSE, !.filled = FALSE, !.sig = sig]
    ELSE [sf EXCEPT !.sig = sig]

\* startCalib and startAlign up to beginRun's join of the last worker: sf is
\* the prompt as the click leaves it.
InsPress(sf) ==
    /\ insGui.runs < InsMaxRuns
    /\ insScale' = InsKeepManual(sf, insFiles)
    /\ insGui' = [insGui EXCEPT !.pc = "join"]

\* The start button of the page.
InsStart ==
    /\ insTask.state = "Idle" /\ insGui.pc = "frame"
    /\ InsPress(insScale)
    /\ UNCHANGED <<insTool, insFiles, insTask, insPub, insWorker>>

InsClearedTask == [state |-> "Running", loading |-> TRUE, stop |-> FALSE,
                   hasResult |-> FALSE, runFailed |-> FALSE]

\* As beginRun would be if it left a result in sight until the next is there.
InsTaskAsShown == [InsClearedTask EXCEPT !.hasResult = insTask.hasResult]

\* What beginRun sets.
InsBegunTask == InsClearedTask

\* beginRun once the last worker has ended, the clearing of the published
\* results that follows it, and launchWorker.
InsBegin ==
    /\ insGui.pc = "join"
    /\ insWorker.pc = "exit"
    /\ insTask' = InsBegunTask
    /\ insPub' = [insPub EXCEPT !.notice = 0, !.accelReady = FALSE,
                                !.segs = <<>>, !.report = <<>>]
    /\ insGui' = [insGui EXCEPT !.pc = "frame", !.runs = @ + 1,
                                !.shows = 0, !.accel = 0, !.blank = FALSE]
    /\ insWorker' = [InsIdle EXCEPT !.pc = "open", !.run = insGui.runs + 1]
    /\ UNCHANGED <<insTool, insFiles, insScale>>

\* The stop button of a frame that found the task running, and the closing of
\* the tab: the run may have ended meanwhile.
InsStop ==
    /\ insGui.pc = "frame" /\ insGui.runs > 0
    /\ insTask' = [insTask EXCEPT !.stop = TRUE]
    /\ UNCHANGED <<insTool, insFiles, insScale, insPub, insWorker, insGui>>

\* drawScaleFallback, drawn only while no run is loading: the fields, the
\* button that runs again with them, the skip of the alignment tool, and the
\* button that opens the fields again.
InsFill ==
    /\ insGui.pc = "frame" /\ ~insTask.loading /\ insScale.asked
    /\ insScale' = [insScale EXCEPT !.filled = TRUE]
    /\ UNCHANGED <<insTool, insFiles, insTask, insPub, insWorker, insGui>>

InsAccept ==
    /\ insGui.pc = "frame" /\ ~insTask.loading /\ insScale.asked /\ insScale.filled
    /\ InsPress([insScale EXCEPT !.accepted = TRUE, !.asked = FALSE])
    /\ UNCHANGED <<insTool, insFiles, insTask, insPub, insWorker>>

InsSkip ==
    /\ insGui.pc = "frame" /\ ~insTask.loading /\ insScale.asked
    /\ insTool = "align"
    /\ insScale' = [insScale EXCEPT !.asked = FALSE]
    /\ UNCHANGED <<insTool, insFiles, insTask, insPub, insWorker, insGui>>

InsReopen ==
    /\ insGui.pc = "frame" /\ ~insTask.loading /\ ~insScale.asked /\ insScale.accepted
    /\ insScale' = [insScale EXCEPT !.asked = TRUE, !.accepted = FALSE]
    /\ UNCHANGED <<insTool, insFiles, insTask, insPub, insWorker, insGui>>

\* The lock section of renderResult, which takes report, accelReady and
\* hasResult together: the rows of the accelerometer are drawn as soon as
\* accelReady says so, of a report that may still be the cleared one; those of
\* the gyroscope, and the attitude, with the result.
InsFrame ==
    /\ insGui.pc = "frame"
    /\ ~insTask.runFailed
    /\ LET cleared == insPub.report = <<>>
       IN insGui' = [insGui EXCEPT
            !.shows = IF insTask.hasResult THEN insPub.reportOf ELSE 0,
            !.accel = IF insPub.accelReady /\ ~cleared THEN insPub.reportOf ELSE 0,
            !.blank = insPub.accelReady /\ cleared]
    /\ UNCHANGED <<insTool, insFiles, insTask, insScale, insPub, insWorker>>

\* exportCompCSV, exportCalibCSV, exportAlignSummary: first the report (or
\* series) under the lock, if there is a result, then the segments.
InsExportReport ==
    /\ insGui.pc = "frame" /\ insTask.hasResult
    /\ insGui' = [insGui EXCEPT !.pc = "segments", !.exported = <<insPub.reportOf>>]
    /\ UNCHANGED <<insTool, insFiles, insTask, insScale, insPub, insWorker>>

InsExportSegments ==
    /\ insGui.pc = "segments"
    /\ insGui' = [insGui EXCEPT !.pc = "frame",
                    !.exported = IF insTool = "calib" THEN Append(@, insPub.segsOf) ELSE @]
    /\ UNCHANGED <<insTool, insFiles, insTask, insScale, insPub, insWorker>>

----------------------------------------------------------------------------
(* The worker thread.                                                      *)

InsFileAt == insFiles[insWorker.at]

\* The alignment reads one log.
InsFileCount == IF insTool = "calib" THEN Len(insFiles) ELSE 1

InsGo(pc) == insWorker' = [insWorker EXCEPT !.pc = pc]

\* endRun takes the task out of loading first, and out of Running as the last
\* thing the worker does.
InsUnload(failed) ==
    /\ insTask' = [insTask EXCEPT !.runFailed = failed, !.loading = FALSE]
    /\ InsGo("close")

\* abortRun.
InsAbort == InsUnload(TRUE)

\* The loop over the files at its head; open and onReader of the next file:
\* the scale its record gives is shown at once; two devices in one run end it.
\* A file that does not open, or is empty, is passed over by the calibration
\* and ends the alignment.
InsOpen ==
    /\ insWorker.pc = "open"
    /\ IF insWorker.at > InsFileCount \/ (insTool = "calib" /\ insTask.stop)
       THEN InsGo("stopCheck") /\ UNCHANGED <<insTask, insPub>>
       ELSE LET sen == InsObserve(insWorker.sen, InsFileAt)
            IN IF InsFileAt.body = InsNothing
               THEN IF insTool = "calib"
                    THEN /\ insWorker' = [insWorker EXCEPT !.at = @ + 1]
                         /\ UNCHANGED <<insTask, insPub>>
                    ELSE InsAbort /\ UNCHANGED insPub
               ELSE IF sen.conflict
               THEN InsAbort /\ UNCHANGED insPub
               ELSE /\ insWorker' = [insWorker EXCEPT !.pc = "pump", !.sen = sen, !.half = FALSE]
                    /\ insPub' = [insPub EXCEPT !.notice = IF sen.model # InsNothing
                                                           THEN insWorker.run ELSE @]
                    /\ UNCHANGED insTask
    /\ UNCHANGED <<insTool, insFiles, insScale, insGui>>

\* pumpImu: a batch, and the test of stop before the next: the file is read
\* to its end, or the stop leaves it half read.
InsPump ==
    /\ insWorker.pc = "pump"
    /\ \/ insTask.stop /\ insWorker' = [insWorker EXCEPT !.pc = "detect", !.half = TRUE]
       \/ ~insTask.stop /\ InsGo("detect")
    /\ UNCHANGED <<insTool, insFiles, insTask, insScale, insPub, insGui>>

\* What detect leaves of a file: its record and samples, and whether it was read to its end.
InsSegment(f, half) ==
    [path |-> f.path, dev |-> f.dev, rest |-> f.rest, body |-> f.body, half |-> half]

\* Whether an earlier file of the run had the same content.
InsSeen(f) == \E i \in DOMAIN insWorker.segs : insWorker.segs[i].body = f.body

\* fileContentHash against the hashes seen, detect, and the segments of the
\* file joined to those of the run.
InsDetect ==
    /\ insWorker.pc = "detect"
    /\ insWorker' = [insWorker EXCEPT
         !.pc = "open", !.at = @ + 1,
         !.segs = IF InsSeen(InsFileAt) THEN @
                  ELSE Append(@, InsSegment(InsFileAt, insWorker.half))]
    /\ UNCHANGED <<insTool, insFiles, insTask, insScale, insPub, insGui>>

\* stoppedAndEnd's test.
InsStopped == insTask.stop

\* After the files: detectSeq is published, then stoppedAndEnd; a run without
\* any segment fails.
InsStopCheck ==
    /\ insWorker.pc = "stopCheck"
    /\ IF InsStopped
       THEN InsUnload(insTask.runFailed)
       ELSE IF insWorker.segs = <<>> THEN InsAbort
       ELSE InsGo("resolve") /\ UNCHANGED insTask
    /\ UNCHANGED <<insTool, insFiles, insScale, insPub, insGui>>

\* sen.resolve: without any scale the prompt is asked for (request), which
\* ends a calibration; an alignment goes on and says so in its notice.  The
\* alignment offers its probe only when no record gave the scale.
InsFindScale ==
    /\ insWorker.pc = "resolve"
    /\ LET sen == InsResolve(insWorker.sen, insScale, ToSet(insWorker.segs))
       IN /\ insScale' = [insScale EXCEPT !.asked = @ \/ sen.src = "None"]
          /\ IF sen.src = "None" /\ insTool = "calib"
             THEN InsAbort
             ELSE /\ insWorker' = [insWorker EXCEPT !.pc = "publish", !.sen = sen]
                  /\ UNCHANGED insTask
    /\ UNCHANGED <<insTool, insFiles, insPub, insGui>>

\* compSegs under the lock, then accelReady; calibrate and applyNominal may
\* refuse the segments or the scale before that.  The alignment publishes its
\* notice here.
InsPublish ==
    /\ insWorker.pc = "publish"
    /\ \/ /\ insTool = "calib"
          /\ InsAbort
          /\ UNCHANGED insPub
       \/ /\ insPub' = IF insTool = "calib"
                       THEN [insPub EXCEPT !.segs = insWorker.segs, !.segsOf = insWorker.run,
                                           !.accelReady = TRUE]
                       ELSE [insPub EXCEPT !.notice = insWorker.run]
          /\ InsGo("report")
          /\ UNCHANGED insTask
    /\ UNCHANGED <<insTool, insFiles, insScale, insGui>>

\* The report (or attitude and series) and the notice under the lock.
InsReport ==
    /\ insWorker.pc = "report"
    /\ insPub' = [insPub EXCEPT !.report = insWorker.segs, !.reportOf = insWorker.run,
                                !.notice = insWorker.run, !.src = insWorker.sen.src]
    /\ InsGo("finish")
    /\ UNCHANGED <<insTool, insFiles, insTask, insScale, insGui>>

\* finishRun: hasResult, then endRun.
InsFinish ==
    /\ insWorker.pc = "finish"
    /\ insTask' = [insTask EXCEPT !.hasResult = TRUE]
    /\ InsGo("end")
    /\ UNCHANGED <<insTool, insFiles, insScale, insPub, insGui>>

InsEnd ==
    /\ insWorker.pc = "end"
    /\ InsUnload(insTask.runFailed)
    /\ UNCHANGED <<insTool, insFiles, insScale, insPub, insGui>>

InsClose ==
    /\ insWorker.pc = "close"
    /\ insTask' = [insTask EXCEPT !.state = "Done"]
    /\ InsGo("exit")
    /\ UNCHANGED <<insTool, insFiles, insScale, insPub, insGui>>

InsGuiNext ==
    \/ InsEdit \/ InsCancel \/ InsStart \/ InsBegin \/ InsStop \/ InsFill \/ InsAccept \/ InsSkip
    \/ InsReopen \/ InsFrame \/ InsExportReport \/ InsExportSegments

InsWorkerNext ==
    \/ InsOpen \/ InsPump \/ InsDetect \/ InsStopCheck \/ InsFindScale \/ InsPublish
    \/ InsReport \/ InsFinish \/ InsEnd \/ InsClose

InsNext == InsGuiNext \/ InsWorkerNext

InsSpec == InsInit /\ [][InsNext]_insVars

----------------------------------------------------------------------------
(* Properties.                                                             *)

\* The rows a frame shows as ready, and the report and segments of one
\* exported table, are those of one run, the last one begun, although frame and
\* worker share them through several lock sections and two flags outside.  (The
\* axes of an alignment are drawn without asking for readiness; not modelled.)
InsShownIsCurrent ==
    /\ insGui.shows \in {0, insGui.runs} /\ insGui.accel \in {0, insGui.runs}
    /\ insTool = "calib" /\ insGui.shows # 0 => insGui.accel = insGui.shows
    /\ insTask.hasResult => insPub.report # <<>> /\ insPub.reportOf = insGui.runs
    /\ insGui.pc = "frame" /\ Len(insGui.exported) = 2 => insGui.exported[1] = insGui.exported[2]

\* Accelerometer rows of a cleared report are drawn as ready only in a frame
\* that falls between the worker's accelReady and its report, never once the
\* run has ended.
InsBlankIsPassing ==
    insGui'.blank /\ ~insGui.blank => insWorker.pc = "report" /\ insTask.loading

\* A result is made of whole files only, each content once: a stop in the
\* middle of a file, which leaves the file half read, never leads to one.
InsReportIsWhole ==
    \A i \in DOMAIN insPub.report :
        /\ ~insPub.report[i].half
        /\ \A j \in DOMAIN insPub.report : insPub.report[i].body = insPub.report[j].body => i = j

\* As long as the worker works the task says that it runs, so that its stop
\* button is drawn, and that it loads, so that the scale the worker reads is
\* not edited: the last word of a run never falls into the next.
InsRunsAsLongAsItSays ==
    insWorker.pc \notin {"close", "exit"} => insTask.state = "Running" /\ insTask.loading

\* Whatever frame or worker does, it leaves the tab of an inertial tool showing as
\* ready and exporting what is of the last run begun, whose files are those of the
\* tab, and of whole files; and its task runs as long as its worker does.
InsRunIsHonest ==
    [][/\ InsShownIsCurrent' /\ InsReportIsWhole' /\ InsRunsAsLongAsItSays'
       /\ InsBlankIsPassing]_insVars

=============================================================================
