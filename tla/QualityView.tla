----------------------------- MODULE QualityView -----------------------------
(***************************************************************************)
(* The quality tab of a task: how the thread that reads the observations,  *)
(* the frames of the GUI and the worker of QC share Solvers::View.  The    *)
(* reader feeds the stream and marks it dirty, not at every epoch; a frame *)
(* that finds it dirty and no worker computing launches one; the worker    *)
(* takes a snapshot and stores the report; later frames draw it.  The same *)
(* GUI thread starts the task anew while an old worker may still compute.  *)
(*                                                                         *)
(* The stream is the run it belongs to and the epochs fed to it.           *)
(***************************************************************************)
EXTENDS Naturals

CONSTANTS MaxRuns,     \* how often the task is started
          MaxFed       \* epochs in one run

ASSUME QualityAssumption == MaxRuns \in Nat \ {0} /\ MaxFed \in Nat

VARIABLES
    run, fed, ended,           \* qcStream: whose it is, its epochs, and finish()
    reader,                    \* where the feeding thread stands
    frame,                     \* where the GUI thread stands
    worker, snapshot,          \* where qcWorker stands and what it holds
    qcDirty, qcComputing, qcReady, qcReport,
    shown,                     \* what the last frame drew
    threw                      \* a snapshot of this run has failed

viewVars == <<run, fed, ended, reader, frame, worker, snapshot, qcDirty, qcComputing,
          qcReady, qcReport, shown, threw>>

stream == <<run, fed, ended>>
flags == <<qcDirty, qcComputing, qcReady>>

NoReport == [run |-> 0, fed |-> 0, ended |-> FALSE]
Reports == [run : 0 .. MaxRuns, fed : 0 .. MaxFed, ended : BOOLEAN]

TypeOK ==
    /\ run \in 0 .. MaxRuns /\ fed \in 0 .. MaxFed /\ ended \in BOOLEAN
    /\ reader \in {"none", "feed", "mark", "end", "endFlag", "over"}
    /\ frame \in {"idle", "launch", "draw", "reset", "resetReport", "resetFlags"}
    /\ worker \in {"none", "snapshot", "store", "ready", "over"}
    /\ snapshot \in Reports /\ qcReport \in Reports /\ shown \in Reports
    /\ qcDirty \in BOOLEAN /\ qcComputing \in BOOLEAN /\ qcReady \in BOOLEAN
    /\ threw \in BOOLEAN

ViewInit ==
    /\ run = 0 /\ fed = 0 /\ ended = FALSE
    /\ reader = "none" /\ frame = "idle" /\ worker = "none"
    /\ snapshot = NoReport /\ qcReport = NoReport /\ shown = NoReport
    /\ qcDirty = FALSE /\ qcComputing = FALSE /\ qcReady = FALSE /\ threw = FALSE

-----------------------------------------------------------------------------
(* The thread that reads: feedToQueue or a realtime session.               *)

pushQCInput ==
    /\ reader = "feed" /\ fed < MaxFed
    /\ fed' = fed + 1 /\ reader' = "mark"
    /\ UNCHANGED <<run, ended, frame, worker, snapshot, flags, qcReport, shown, threw>>

\* Every 200th epoch, or when half a second has gone by.
markQcDirty ==
    /\ reader = "mark" /\ reader' = "feed"
    /\ qcDirty' \in {qcDirty, TRUE}
    /\ UNCHANGED <<stream, frame, worker, snapshot, qcComputing, qcReady, qcReport,
                   shown, threw>>

\* The input ends, or the read fails and endQCInput is not called.
ReadEnds ==
    /\ reader = "feed"
    /\ reader' \in {"end", "over"}
    /\ UNCHANGED <<stream, frame, worker, snapshot, flags, qcReport, shown, threw>>

\* endQCInput: finish under the lock, the flag after it.
endQCInput ==
    /\ reader = "end" /\ reader' = "endFlag"
    /\ ended' = TRUE
    /\ UNCHANGED <<run, fed, frame, worker, snapshot, flags, qcReport, shown, threw>>

\* As EndFlags would be if the throttle of markQcDirty applied to the end too.
EndThrottled(has) == qcDirty' \in {qcDirty, has} /\ qcReady' = (qcReady \/ ~has)

EndFlags(has) ==
    /\ qcDirty' = (qcDirty \/ has)
    /\ qcReady' = (qcReady \/ ~has)

EndFlag ==
    /\ reader = "endFlag" /\ reader' = "over"
    /\ EndFlags(fed > 0)
    /\ UNCHANGED <<stream, frame, worker, snapshot, qcComputing, qcReport, shown, threw>>

-----------------------------------------------------------------------------
(* The GUI thread: frames, and the start of the task.                      *)

GuiKeeps == UNCHANGED <<reader, snapshot, threw>>

FrameTest ==
    /\ frame = "idle"
    /\ IF qcDirty /\ ~qcComputing
         THEN frame' = "launch" /\ qcDirty' = FALSE
         ELSE frame' = "draw" /\ UNCHANGED qcDirty
    /\ GuiKeeps
    /\ UNCHANGED <<stream, worker, qcComputing, qcReady, qcReport, shown>>

WorkerJoined == worker \in {"none", "over"}

\* launchQC: the old worker is joined before its successor starts.
launchQC ==
    /\ frame = "launch" /\ frame' = "draw"
    /\ WorkerJoined
    /\ qcComputing' = TRUE /\ worker' = "snapshot"
    /\ GuiKeeps
    /\ UNCHANGED <<stream, qcDirty, qcReady, qcReport, shown>>

FrameDraw ==
    /\ frame = "draw" /\ frame' = "idle"
    /\ shown' = IF qcReady THEN qcReport ELSE NoReport
    /\ GuiKeeps
    /\ UNCHANGED <<stream, worker, flags, qcReport>>

\* resetForSolve, once the thread that read has been joined.
Restart ==
    /\ frame = "idle" /\ frame' = "reset"
    /\ reader \in {"none", "over"} /\ run < MaxRuns
    /\ run' = run + 1 /\ fed' = 0 /\ ended' = FALSE
    /\ threw' = FALSE
    /\ UNCHANGED <<reader, worker, snapshot, flags, qcReport, shown>>

\* qcReport is reset without qcMutex, and nobody waits for qcWorker.
ResetReport ==
    /\ frame = "reset" /\ frame' = "resetReport"
    /\ qcReport' = NoReport
    /\ GuiKeeps
    /\ UNCHANGED <<stream, worker, flags, shown>>

ResetReady ==
    /\ frame = "resetReport" /\ frame' = "resetFlags"
    /\ qcReady' = FALSE
    /\ GuiKeeps
    /\ UNCHANGED <<stream, worker, qcDirty, qcComputing, qcReport, shown>>

ResetDirty ==
    /\ frame = "resetFlags" /\ frame' = "idle"
    /\ qcDirty' = FALSE
    /\ reader' = "feed"
    /\ UNCHANGED <<stream, worker, snapshot, qcComputing, qcReady, qcReport, shown, threw>>

-----------------------------------------------------------------------------
(* The worker.                                                             *)

WorkerKeeps == UNCHANGED <<stream, reader, frame, qcDirty, shown>>

\* The stream at one moment, under the lock that feeding takes too.
qcSnapshot == {[run |-> run, fed |-> fed, ended |-> ended]}

\* The snapshot is taken, or throws.
Snapshot ==
    /\ worker = "snapshot"
    /\ \/ worker' = "store" /\ snapshot' \in qcSnapshot /\ UNCHANGED threw
       \/ worker' = "ready" /\ threw' = TRUE /\ UNCHANGED snapshot
    /\ WorkerKeeps /\ UNCHANGED <<qcComputing, qcReady, qcReport>>

Store ==
    /\ worker = "store" /\ worker' = "ready"
    /\ qcReport' = snapshot
    /\ WorkerKeeps /\ UNCHANGED <<snapshot, qcComputing, qcReady, threw>>

Ready ==
    /\ worker = "ready" /\ worker' = "over"
    /\ qcReady' = TRUE /\ qcComputing' = FALSE
    /\ WorkerKeeps /\ UNCHANGED <<snapshot, qcReport, threw>>

-----------------------------------------------------------------------------
Reading == pushQCInput \/ markQcDirty \/ ReadEnds \/ endQCInput \/ EndFlag
Framing == FrameTest \/ launchQC \/ FrameDraw \/ ResetReport \/ ResetReady \/ ResetDirty
Working == Snapshot \/ Store \/ Ready

ViewNext == Reading \/ Framing \/ Working \/ Restart

\* Frames are drawn as long as the program runs; threads run.
ViewFairness == WF_viewVars(Framing) /\ WF_viewVars(Working) /\ WF_viewVars(Reading)

ViewSpec == ViewInit /\ [][ViewNext]_viewVars /\ ViewFairness

-----------------------------------------------------------------------------
(* What the tab promises.                                                  *)

\* No epoch is forgotten: once the input has been ended, the frames come to show
\* the report of exactly what was fed, however the marks were throttled, whatever
\* a worker was computing meanwhile, and whatever a worker of the last run does;
\* unless the task is started anew or a snapshot fails.
EndIsShown ==
    \A r \in 1 .. MaxRuns : \A n \in 1 .. MaxFed :
        (run = r /\ ended /\ fed = n) ~>
            \/ shown = [run |-> r, fed |-> n, ended |-> TRUE]
            \/ run # r \/ threw

\* Once a run has a report of its own, no older one takes its place, neither one of
\* fewer epochs nor one that a worker of the last run still held when the task was
\* started anew: a worker is joined before the next takes its snapshot.
NeverOlder ==
    [][qcReport.run = run /\ run' = run /\ frame # "reset" =>
         qcReport'.run = run /\ qcReport'.fed >= qcReport.fed]_viewVars

\* The view shows the end of a run and never goes back on the way there.
ViewKeepsUp == EndIsShown /\ NeverOlder

=============================================================================
