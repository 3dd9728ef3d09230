------------------------------- MODULE Remote -------------------------------
(***************************************************************************)
(* The download service behind the panels: directories are scanned once by *)
(* a background thread and cached; requested files wait in dlQueue and are *)
(* taken by worker threads, of which every request starts kDlWorkers more. *)
(* The GUI thread asks for the directories of the shown day every frame,   *)
(* enqueues files, deletes local ones and shuts the service down.          *)
(*                                                                         *)
(* A request is followed by its number.  Waiting workers are alike and are *)
(* only counted; a wait on dlCv is the guard of the step behind it, since  *)
(* every change of its predicate is made under dlQmtx and then notified.   *)
(* The transfer itself is module Transfer; that a file is there locally is *)
(* all that is kept of the disk.                                           *)
(***************************************************************************)
EXTENDS Naturals, Sequences, FiniteSets

CONSTANTS Dirs, Files,
          DirOf,        \* the directory that lists a file
          kDlWorkers,
          MaxEnqueue    \* requests made in a behaviour

ASSUME RemoteAssumption == /\ DirOf \in [Files -> Dirs] /\ Files # {}
                           /\ kDlWorkers \in Nat \ {0}
                           /\ MaxEnqueue \in Nat

VARIABLES
  dirs,          \* what the cache holds of each directory
  scanning, scanStop, dlStop,
  scanJob,       \* directories the scan thread still has to read
  scan,          \* where the scan thread stands
  mtx,           \* "gui" while the GUI joins the scan thread with mtx held
  dlQueue,       \* requests nobody has taken
  at, wants,     \* where each request stands, and the file it is for
  idle,          \* workers in dlWorker's wait
  dlActive, dlActiveCount, dlDone, dlTotal,
  local,         \* files found locally
  gui, asked     \* where the GUI stands, and the directories of the day shown

scans == <<dirs, scanning, scanStop, scanJob, scan>>
loads == <<dlStop, dlQueue, at, wants, idle, dlActive, dlActiveCount, dlDone, dlTotal, local>>
remoteVars  == <<scans, loads, mtx, gui, asked>>

Requests == 1 .. MaxEnqueue
JobPlaces == {"unused", "queued", "mark", "transfer", "install", "sub", "erase", "count", "over"}

RemoteTypeOK ==
  /\ dirs \in [Dirs -> {"none", "loaded", "failed"}]
  /\ scanning \in BOOLEAN /\ scanStop \in BOOLEAN /\ dlStop \in BOOLEAN
  /\ scanJob \subseteq Dirs
  /\ scan \in {"none", "list", "store", "ready", "leave", "over"}
  /\ mtx \in {"free", "gui"}
  /\ dlQueue \in Seq(Requests)
  /\ at \in [Requests -> JobPlaces] /\ wants \in [Requests -> Files]
  /\ idle \in 0 .. kDlWorkers * MaxEnqueue
  /\ dlActive \subseteq Files /\ local \subseteq Files
  /\ dlActiveCount \in 0 .. MaxEnqueue /\ dlDone \in 0 .. MaxEnqueue /\ dlTotal \in 0 .. MaxEnqueue
  /\ gui \in {"ready", "join", "snapshot", "stopScan", "stopLoads", "off"}
  /\ asked \subseteq Dirs

RemoteInit == /\ dirs = [d \in Dirs |-> "none"]
              /\ scanning = FALSE /\ scanStop = FALSE /\ dlStop = FALSE
              /\ scanJob = {} /\ scan = "none" /\ mtx = "free"
              /\ dlQueue = <<>> /\ idle = 0
              /\ at = [r \in Requests |-> "unused"]
              /\ wants = [r \in Requests |-> CHOOSE f \in Files : TRUE]
              /\ dlActive = {} /\ dlActiveCount = 0 /\ dlDone = 0 /\ dlTotal = 0
              /\ local = {}
              /\ gui = "ready" /\ asked = {}

-----------------------------------------------------------------------------
(* The scan thread: runScan. *)

ScanStep(from, to) == /\ scan = from /\ scan' = to
                      /\ UNCHANGED <<loads, mtx, gui, asked, scanStop>>

\* listDir returns, with or without a list, or something in reading it throws.
ScanList == ScanStep("list", "store") /\ UNCHANGED <<dirs, scanning, scanJob>>

ScanEnd(from) == /\ ScanStep(from, "leave")
                 /\ mtx = "free"
                 /\ scanning' = FALSE
                 /\ UNCHANGED <<dirs, scanJob>>

ScanThrows == ScanEnd("list")

ScanCancelled == scanStop /\ ScanEnd("store")

ScanStore(d) == /\ ~scanStop
                /\ d \in scanJob
                /\ ScanStep("store", IF scanJob = {d} THEN "ready" ELSE "list")
                /\ mtx = "free"
                /\ dirs' \in {[dirs EXCEPT ![d] = r] : r \in {"loaded", "failed"}}
                /\ scanJob' = scanJob \ {d}
                /\ UNCHANGED scanning

ScanReady == ScanEnd("ready")

ScanExit == ScanStep("leave", "over") /\ UNCHANGED <<dirs, scanning, scanJob>>

runScan == ScanList \/ ScanThrows \/ ScanCancelled \/ (\E d \in Dirs : ScanStore(d))
             \/ ScanReady \/ ScanExit

-----------------------------------------------------------------------------
(* A worker: dlWorker and runDownload. *)

JobStep(r, from, to) == /\ at[r] = from /\ at' = [at EXCEPT ![r] = to]
                        /\ UNCHANGED <<scans, mtx, gui, asked, dlStop, wants, dlTotal>>

\* The queue is emptied even after the stop.
Take(r) == /\ idle > 0
           /\ dlQueue # <<>> /\ r = Head(dlQueue)
           /\ JobStep(r, "queued", "mark")
           /\ idle' = idle - 1
           /\ dlQueue' = Tail(dlQueue)
           /\ UNCHANGED <<dlActive, dlActiveCount, dlDone, local>>

markDownloading(r) == /\ JobStep(r, "mark", "transfer")
                      /\ mtx = "free"
                      /\ dlActive' = dlActive \union {wants[r]}
                      /\ UNCHANGED <<dlQueue, idle, dlActiveCount, dlDone, local>>

\* downloadFile ends in at most three timed attempts, and fails once stopped.
Transfer(r) == /\ \/ ~dlStop /\ JobStep(r, "transfer", "install")
                  \/ JobStep(r, "transfer", "sub")
               /\ UNCHANGED <<dlQueue, idle, dlActive, dlActiveCount, dlDone, local>>

\* Renamed, unpacked and recorded, or the renaming fails.
Install(r) == /\ JobStep(r, "install", "sub")
              /\ local' \in {local, local \union {wants[r]}}
              /\ UNCHANGED <<dlQueue, idle, dlActive, dlActiveCount, dlDone>>

CountDown(r) == /\ JobStep(r, "sub", "erase")
                /\ dlActiveCount' = dlActiveCount - 1
                /\ UNCHANGED <<dlQueue, idle, dlActive, dlDone, local>>

EraseActive(r) == /\ JobStep(r, "erase", "count")
                  /\ mtx = "free"
                  /\ dlActive' = dlActive \ {wants[r]}
                  /\ UNCHANGED <<dlQueue, idle, dlActiveCount, dlDone, local>>

CountDone(r) == /\ JobStep(r, "count", "over")
                /\ dlDone' = dlDone + 1
                /\ idle' = idle + 1
                /\ UNCHANGED <<dlQueue, dlActive, dlActiveCount, local>>

runDownload(r) == \/ Take(r) \/ markDownloading(r) \/ Transfer(r) \/ Install(r)
                  \/ CountDown(r) \/ EraseActive(r) \/ CountDone(r)

WorkerExit == /\ idle > 0 /\ dlStop /\ dlQueue = <<>>
              /\ idle' = idle - 1
              /\ UNCHANGED <<scans, mtx, gui, asked, dlStop, dlQueue, at, wants, dlActive,
                             dlActiveCount, dlDone, dlTotal, local>>

-----------------------------------------------------------------------------
(* The GUI thread. *)

GuiStep(from, to) == gui = from /\ gui' = to

Missing(D) == {d \in D : dirs[d] = "none"}

\* Something of D is unread and no scan runs: the last thread is joined under mtx.
ensureScan(D) ==
  /\ gui = "ready" /\ mtx = "free"
  /\ asked' = D
  /\ \/ /\ Missing(D) = {} \/ scanning
        /\ gui' = "snapshot"
        /\ UNCHANGED <<scanning, scanJob, mtx>>
     \/ /\ Missing(D) # {} /\ ~scanning
        /\ gui' = "join" /\ mtx' = "gui"
        /\ scanning' = TRUE /\ scanJob' = Missing(D)
  /\ UNCHANGED <<loads, dirs, scanStop, scan>>

StartScan == /\ GuiStep("join", "snapshot")
             /\ scan \in {"none", "over"} /\ scan' = "list"
             /\ mtx' = "free"
             /\ UNCHANGED <<loads, dirs, scanning, scanStop, scanJob, asked>>

collect == GuiStep("snapshot", "ready") /\ mtx = "free" /\ UNCHANGED <<scans, loads, mtx, asked>>

\* Slip: the request is not counted as active.
enqueueUncounted(f) == /\ GuiStep("ready", "ready")
                       /\ mtx = "free"
                       /\ dirs[DirOf[f]] = "loaded"
                       /\ dlTotal < MaxEnqueue /\ dlTotal' = dlTotal + 1
                       /\ dlQueue' = Append(dlQueue, dlTotal')
                       /\ at' = [at EXCEPT ![dlTotal'] = "queued"]
                       /\ wants' = [wants EXCEPT ![dlTotal'] = f]
                       /\ idle' = idle + kDlWorkers
                       /\ UNCHANGED <<scans, mtx, asked, dlStop, dlActive, dlActiveCount, dlDone, local>>

\* A listed file is clicked, there locally or not, or comes with all that match.
enqueue(f) == /\ GuiStep("ready", "ready")
              /\ mtx = "free"
              /\ dirs[DirOf[f]] = "loaded"
              /\ dlTotal < MaxEnqueue /\ dlTotal' = dlTotal + 1
              /\ dlActiveCount' = dlActiveCount + 1
              /\ dlQueue' = Append(dlQueue, dlTotal')
              /\ at' = [at EXCEPT ![dlTotal'] = "queued"]
              /\ wants' = [wants EXCEPT ![dlTotal'] = f]
              /\ idle' = idle + kDlWorkers
              /\ UNCHANGED <<scans, mtx, asked, dlStop, dlActive, dlDone, local>>

removeFile(f) == /\ GuiStep("ready", "ready")
                 /\ f \in local /\ local' = local \ {f}
                 /\ UNCHANGED <<scans, mtx, asked, dlStop, dlQueue, at, wants, idle, dlActive,
                                dlActiveCount, dlDone, dlTotal>>

shutdown == /\ GuiStep("ready", "stopScan")
            /\ scanStop' = TRUE
            /\ UNCHANGED <<loads, dirs, scanning, scanJob, scan, mtx, asked>>

\* Slip: the workers are joined without being told to stop.
StopWorkersUntold == /\ GuiStep("stopScan", "stopLoads")
                     /\ scan \in {"none", "over"}
                     /\ UNCHANGED <<scans, loads, mtx, asked>>

StopWorkers == /\ GuiStep("stopScan", "stopLoads")
               /\ scan \in {"none", "over"}
               /\ dlStop' = TRUE
               /\ UNCHANGED <<scans, mtx, asked, dlQueue, at, wants, idle, dlActive,
                              dlActiveCount, dlDone, dlTotal, local>>

JoinWorkers == /\ GuiStep("stopLoads", "off")
               /\ idle = 0 /\ \A r \in Requests : at[r] \in {"unused", "queued", "over"}
               /\ UNCHANGED <<scans, loads, mtx, asked>>

Off == gui = "off" /\ UNCHANGED remoteVars

Gui == \/ \E D \in SUBSET Dirs : ensureScan(D)
       \/ StartScan \/ collect
       \/ \E f \in Files : enqueue(f) \/ removeFile(f)
       \/ shutdown \/ StopWorkers \/ JoinWorkers

RemoteNext == runScan \/ (\E r \in Requests : runDownload(r)) \/ WorkerExit \/ Gui \/ Off

RemoteSpec == RemoteInit /\ [][RemoteNext]_remoteVars

\* Threads run, listDir and downloadFile have timeouts, and a directory that is read
\* again and again is at last read without an exception; the user owes nothing.
RemoteFairness == /\ WF_remoteVars(runScan) /\ SF_remoteVars(ScanList) /\ WF_remoteVars(WorkerExit)
                  /\ \A r \in Requests : WF_remoteVars(runDownload(r))
                  /\ WF_remoteVars(StartScan \/ collect \/ StopWorkers \/ JoinWorkers)

RemoteFairSpec == RemoteSpec /\ RemoteFairness

-----------------------------------------------------------------------------
(* Properties. *)

Settled == {"unused", "erase", "count", "over"}

\* progressLine shows downloads until dlActiveCount is 0: then no file is waiting, on
\* its way or being unpacked.
IdleMeansSettled == dlActiveCount = 0 => \A r \in Requests : at[r] \in Settled

\* downloadingOf returns true for a file that is being downloaded.
DownloadingIsReported ==
  \A r \in Requests : at[r] \in {"transfer", "install"} => wants[r] \in dlActive

\* A directory the panels keep asking for is read at last, whatever else is scanned.
ScanServed == \A d \in Dirs :
                []<>(gui = "snapshot" /\ d \in asked) => <>(dirs[d] # "none")

\* ensureScan's join with mtx held does not hang the frame.
FrameEnds == gui = "join" ~> gui # "join"

\* A request that was queued is brought to its end, by the shutdown too.
RequestsEnd == \A r \in Requests : at[r] = "queued" ~> at[r] = "over"

\* Closing the program joins the scan thread and every worker.
ShutdownEnds == gui = "stopScan" ~> gui = "off"

\* The service settles: a listing asked for is tried, the frame that joins the
\* scan thread goes on, every request comes to an end, and so does shutdown.
RemoteSettles == ScanServed /\ FrameEnds /\ RequestsEnd /\ ShutdownEnds

=============================================================================
