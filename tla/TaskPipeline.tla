---------------------------- MODULE TaskPipeline ----------------------------
(***************************************************************************)
(* A single-station file solution (SPP, PPP static and kinematic, LEO):    *)
(* the worker thread starts a reader and a solver that share obsQueue, the *)
(* mutex queueMutex and two condition variables; the GUI thread starts the *)
(* task, cancels it, and collects it once its tab is closed.               *)
(*                                                                         *)
(* A condition-variable wait is three steps: the predicate is tested under *)
(* queueMutex, the thread keeps the mutex until it sleeps, and it sleeps   *)
(* until a notification.  A notification that nobody sleeps on is lost.    *)
(* Every flag is set under the mutex and announced after it is released.   *)
(***************************************************************************)
EXTENDS Naturals, Sequences

CONSTANTS NumObs,       \* epochs in the observation file
          QueueDepth,   \* Core::queueDepth
          Accepted,     \* epochs the decimator keeps
          Limits,       \* the values of Task::maxEpochs considered, 0 for none
          kMaxEpochs    \* the call at which a RINEX source ends of itself

ASSUME PipelineAssumption == /\ NumObs \in Nat
                             /\ QueueDepth \in Nat \ {0}
                             /\ Accepted \subseteq 1 .. NumObs
                             /\ Limits \subseteq Nat
                             /\ kMaxEpochs \in Nat \ {0}

VARIABLES
  isRINEX,       \* whether the file is read by RINEXQueueSource or as a NovAtel log
  maxEpochs, navReady, readDone, solvingDone, stop, done, loading, state,
  errorMsg,      \* which error is shown, "none" when hasError is unset
  obsQueue,      \* epochs read and not yet taken, by their place in the file
  queueMutex,    \* who keeps the mutex while falling asleep, or "free"
  fed,           \* epochs the source has returned
  ok,            \* epochs the reader has queued
  item,          \* the epoch the solver took last, 0 before the first
  epochs,        \* results, by the place of their epoch in the file
  rd, sv, wk, ui \* where the reader, the solver, the worker, the GUI stand

settings == <<isRINEX, maxEpochs>>
flags == <<navReady, readDone, solvingDone, stop>>
shown == <<done, loading, state>>
data  == <<obsQueue, fed, ok, item, epochs>>
pcs   == <<rd, sv, wk, ui>>
vars  == <<settings, flags, shown, errorMsg, data, queueMutex, pcs>>

Errors == {"none", "read", "noEpochs", "init", "solve", "cancelled"}

RdPlaces == {"none", "open", "nav", "navWake", "loop", "next", "space", "spaceSleep",
             "spaceWait", "pushed", "ended", "finish", "finishWake", "fail", "failErr",
             "failWake", "leave", "exit"}
SvPlaces == {"none", "nav", "navSleep", "navWait", "init", "loop", "obs", "obsSleep",
             "obsWait", "popped", "solve", "finish", "finishWake", "exit"}
WkPlaces == {"none", "run", "joined", "over"}
UiPlaces == {"config", "cancelled", "running", "wake", "closing", "joining", "erased"}

TypeOK ==
  /\ isRINEX \in BOOLEAN /\ maxEpochs \in Limits
  /\ navReady \in BOOLEAN /\ readDone \in BOOLEAN /\ solvingDone \in BOOLEAN
  /\ stop \in BOOLEAN /\ done \in BOOLEAN /\ loading \in BOOLEAN
  /\ state \in {"Config", "Running", "Done"}
  /\ errorMsg \in Errors
  /\ obsQueue \in Seq(1 .. NumObs) /\ Len(obsQueue) <= QueueDepth
  /\ queueMutex \in {"free", "reader", "solver"}
  /\ fed \in 0 .. NumObs /\ ok \in 0 .. NumObs /\ item \in 0 .. NumObs
  /\ epochs \in Seq(Accepted)
  /\ rd \in RdPlaces /\ sv \in SvPlaces /\ wk \in WkPlaces /\ ui \in UiPlaces

Init ==
  /\ isRINEX \in BOOLEAN /\ maxEpochs \in Limits
  /\ navReady = FALSE /\ readDone = FALSE /\ solvingDone = FALSE /\ stop = FALSE
  /\ done = FALSE /\ loading = FALSE /\ state = "Config"
  /\ errorMsg = "none"
  /\ obsQueue = <<>> /\ queueMutex = "free"
  /\ fed = 0 /\ ok = 0 /\ item = 0 /\ epochs = <<>>
  /\ rd = "none" /\ sv = "none" /\ wk = "none" /\ ui = "config"

-----------------------------------------------------------------------------
epochLimitReached == maxEpochs > 0 /\ Len(epochs) >= maxEpochs

\* queueSpaceCv and queueCv: at most the reader, and at most the solver, sleeps there.
RdAwake(p) == IF p = "spaceWait" THEN "space" ELSE p
SvAwake(p) == CASE p = "navWait" -> "nav" [] p = "obsWait" -> "obs" [] OTHER -> p

-----------------------------------------------------------------------------
(* The reader: fileRead, readObsToQueue and feedToQueue. *)

RdStep(from, to) == rd = from /\ rd' = to /\ UNCHANGED <<wk, ui, settings>>

\* The file opens, or failRead reports that it does not.
RdOpen == /\ \/ RdStep("open", "nav")
             \/ RdStep("open", "fail")
          /\ UNCHANGED <<flags, shown, errorMsg, data, queueMutex, sv>>

markNavReady == /\ RdStep("nav", "navWake")
                /\ queueMutex = "free"
                /\ navReady' = TRUE
                /\ UNCHANGED <<readDone, solvingDone, stop, shown, errorMsg, data,
                               queueMutex, sv>>

RdNotify(from, to) == /\ RdStep(from, to)
                      /\ sv' = SvAwake(sv)
                      /\ UNCHANGED <<flags, shown, errorMsg, data, queueMutex>>

FeedLoop == /\ RdStep("loop", IF stop \/ epochLimitReached THEN "ended" ELSE "next")
            /\ UNCHANGED <<flags, shown, errorMsg, data, queueMutex, sv>>

\* Every call counts, and of a RINEX source this one is not answered any more.
Exhausted == isRINEX /\ fed + 1 >= kMaxEpochs

\* The source returns the next epoch, reports the end of the file, or throws; an
\* exhausted one reports the end whatever is left, and only the log tells.
FeedNext == /\ \/ RdStep("next", "space") /\ ~Exhausted /\ fed < NumObs /\ fed' = fed + 1
               \/ RdStep("next", "ended") /\ (Exhausted \/ fed = NumObs) /\ UNCHANGED fed
               \/ RdStep("next", "fail") /\ ~Exhausted /\ UNCHANGED fed
            /\ UNCHANGED <<flags, shown, errorMsg, obsQueue, ok, item, epochs, queueMutex, sv>>

\* Slip: room for one epoch more than the depth.
SpaceOffByOne == Len(obsQueue) <= QueueDepth \/ stop \/ solvingDone

SpaceOrQuit == Len(obsQueue) < QueueDepth \/ stop \/ solvingDone

FeedBlocked == /\ RdStep("space", "spaceSleep")
               /\ queueMutex = "free" /\ queueMutex' = "reader"
               /\ ~SpaceOrQuit
               /\ UNCHANGED <<flags, shown, errorMsg, data, sv>>

FeedSleep == /\ RdStep("spaceSleep", "spaceWait")
             /\ queueMutex' = "free"
             /\ UNCHANGED <<flags, shown, errorMsg, data, sv>>

FeedQuit == /\ RdStep("space", "ended")
            /\ queueMutex = "free"
            /\ stop \/ solvingDone
            /\ UNCHANGED <<flags, shown, errorMsg, data, queueMutex, sv>>

FeedPush == /\ RdStep("space", "pushed")
            /\ queueMutex = "free"
            /\ SpaceOrQuit /\ ~stop /\ ~solvingDone
            /\ obsQueue' = Append(obsQueue, fed)
            /\ ok' = ok + 1
            /\ UNCHANGED <<flags, shown, errorMsg, fed, item, epochs, queueMutex, sv>>

\* A file that gave no epoch is an error, whatever ended the reading.
ReadEnded == /\ RdStep("ended", "finish")
             /\ errorMsg' = IF ok = 0 THEN "noEpochs" ELSE errorMsg
             /\ UNCHANGED <<flags, shown, data, queueMutex, sv>>

finishRead == /\ RdStep("finish", "finishWake")
              /\ queueMutex = "free"
              /\ readDone' = TRUE
              /\ UNCHANGED <<navReady, solvingDone, stop, shown, errorMsg, data,
                             queueMutex, sv>>

failRead == /\ RdStep("fail", IF readDone THEN "leave" ELSE "failErr")
            /\ queueMutex = "free"
            /\ readDone' = TRUE
            /\ UNCHANGED <<navReady, solvingDone, stop, shown, errorMsg, data,
                           queueMutex, sv>>

\* The error is set only after readDone has been published.
FailError == /\ RdStep("failErr", "failWake")
             /\ errorMsg' = "read"
             /\ UNCHANGED <<flags, shown, data, queueMutex, sv>>

RdLeave == /\ RdStep("leave", "exit")
           /\ loading' = FALSE
           /\ UNCHANGED <<flags, done, state, errorMsg, data, queueMutex, sv>>

RdNext == \/ RdOpen \/ markNavReady \/ RdNotify("navWake", "loop")
          \/ FeedLoop \/ FeedNext \/ FeedBlocked \/ FeedSleep \/ FeedQuit \/ FeedPush
          \/ RdNotify("pushed", "loop")
          \/ ReadEnded \/ finishRead \/ RdNotify("finishWake", "leave")
          \/ failRead \/ FailError \/ RdNotify("failWake", "leave") \/ RdLeave

-----------------------------------------------------------------------------
(* The solver: solveBody, waitNavReady, nextObs and commitEpoch. *)

SvStep(from, to) == sv = from /\ sv' = to /\ UNCHANGED <<wk, ui, settings>>

SvBlocked(from, to, predicate) ==
  /\ SvStep(from, to)
  /\ queueMutex = "free" /\ queueMutex' = "solver"
  /\ ~predicate
  /\ UNCHANGED <<flags, shown, errorMsg, data, rd>>

SvSleep(from, to) == /\ SvStep(from, to)
                     /\ queueMutex' = "free"
                     /\ UNCHANGED <<flags, shown, errorMsg, data, rd>>

NavOrQuit == navReady \/ readDone \/ stop

waitNavReady == /\ SvStep("nav", IF stop THEN "finish" ELSE "init")
                /\ queueMutex = "free"
                /\ NavOrQuit
                /\ UNCHANGED <<flags, shown, errorMsg, data, queueMutex, rd>>

\* initSolver loads the products; it may report a failure or throw.
initSolver == /\ \/ SvStep("init", "loop") /\ UNCHANGED errorMsg
                 \/ SvStep("init", "finish") /\ errorMsg' \in {"init", "solve"}
              /\ UNCHANGED <<flags, shown, data, queueMutex, rd>>

\* Slip: the solving side leaves the epoch limit to the reader.
SolveLoopUnlimited == /\ SvStep("loop", "obs")
                      /\ UNCHANGED <<flags, shown, errorMsg, data, queueMutex, rd>>

SolveLoop == /\ SvStep("loop", IF epochLimitReached THEN "finish" ELSE "obs")
             /\ UNCHANGED <<flags, shown, errorMsg, data, queueMutex, rd>>

ObsOrQuit == obsQueue # <<>> \/ readDone \/ stop

\* Slip: the end of the reading is taken for the end of the queue.
nextObsUndrained == /\ SvStep("obs", "finish")
                    /\ queueMutex = "free"
                    /\ readDone \/ stop
                    /\ UNCHANGED <<flags, shown, errorMsg, data, queueMutex, rd>>

nextObsNone == /\ SvStep("obs", "finish")
               /\ queueMutex = "free"
               /\ ObsOrQuit /\ obsQueue = <<>>
               /\ UNCHANGED <<flags, shown, errorMsg, data, queueMutex, rd>>

nextObs == /\ SvStep("obs", "popped")
           /\ queueMutex = "free"
           /\ obsQueue # <<>>
           /\ item' = Head(obsQueue)
           /\ obsQueue' = Tail(obsQueue)
           /\ UNCHANGED <<flags, shown, errorMsg, fed, ok, epochs, queueMutex, rd>>

\* Room is announced; an epoch taken after the stop was requested is dropped.
nextObsReturn == /\ SvStep("popped", IF stop THEN "finish" ELSE "solve")
                 /\ rd' = RdAwake(rd)
                 /\ UNCHANGED <<flags, shown, errorMsg, data, queueMutex>>

\* A decimated epoch is passed over; any other is committed, solved or not.
commitEpoch == /\ SvStep("solve", "loop")
               /\ epochs' = IF item \in Accepted THEN Append(epochs, item) ELSE epochs
               /\ UNCHANGED <<flags, shown, errorMsg, obsQueue, fed, ok, item, queueMutex, rd>>

finishSolving == /\ SvStep("finish", "finishWake")
                 /\ queueMutex = "free"
                 /\ solvingDone' = TRUE
                 /\ UNCHANGED <<navReady, readDone, stop, shown, errorMsg, data,
                                queueMutex, rd>>

SvWake == /\ SvStep("finishWake", "exit")
          /\ rd' = RdAwake(rd)
          /\ UNCHANGED <<flags, shown, errorMsg, data, queueMutex>>

SvNext == \/ SvBlocked("nav", "navSleep", NavOrQuit) \/ SvSleep("navSleep", "navWait")
          \/ waitNavReady \/ initSolver \/ SolveLoop
          \/ SvBlocked("obs", "obsSleep", ObsOrQuit) \/ SvSleep("obsSleep", "obsWait")
          \/ nextObsNone \/ nextObs \/ nextObsReturn \/ commitEpoch
          \/ finishSolving \/ SvWake

-----------------------------------------------------------------------------
(* The worker thread of startFile joins both, then publishes the end. *)

WkJoin == /\ wk = "run" /\ rd = "exit" /\ sv = "exit"
          /\ wk' = "joined"
          /\ state' = "Done"
          /\ UNCHANGED <<settings, flags, done, loading, errorMsg, data, queueMutex,
                         rd, sv, ui>>

WkDone == /\ wk = "joined"
          /\ wk' = "over"
          /\ done' = TRUE /\ loading' = FALSE
          /\ UNCHANGED <<settings, flags, state, errorMsg, data, queueMutex, rd, sv, ui>>

-----------------------------------------------------------------------------
(* The GUI thread. *)

\* resetForSolve and the worker with its two threads.
startFile == /\ ui = "config" /\ ui' = "running"
             /\ navReady' = FALSE /\ readDone' = FALSE /\ solvingDone' = FALSE
             /\ stop' = FALSE /\ done' = FALSE
             /\ loading' = TRUE /\ state' = "Running" /\ errorMsg' = "none"
             /\ obsQueue' = <<>> /\ epochs' = <<>>
             /\ fed' = 0 /\ ok' = 0 /\ item' = 0
             /\ rd' = "open" /\ sv' = "nav" /\ wk' = "run"
             /\ UNCHANGED <<settings, queueMutex>>

\* The cancel button stands on the configuration page, before a run.
renderCancelButton == /\ ui = "config" /\ ui' = "cancelled"
                      /\ queueMutex = "free"
                      /\ stop' = TRUE
                      /\ state' = "Done"
                      /\ errorMsg' = "cancelled"
                      /\ UNCHANGED <<settings, navReady, readDone, solvingDone, done,
                                     loading, data, queueMutex, rd, sv, wk>>

\* Closing the tab cancels the task: the flag first, the wake-up after.
cancel == /\ ui \in {"config", "cancelled", "running"} /\ ui' = "wake"
          /\ queueMutex = "free"
          /\ stop' = TRUE
          /\ UNCHANGED <<settings, navReady, readDone, solvingDone, shown, errorMsg,
                         data, queueMutex, rd, sv, wk>>

wakeQueues == /\ ui = "wake" /\ ui' = "closing"
              /\ rd' = RdAwake(rd) /\ sv' = SvAwake(sv)
              /\ UNCHANGED <<settings, flags, shown, errorMsg, data, queueMutex, wk>>

\* Slip: a task that never started is not recognised as collectable.
gcStartedTasks == /\ ui = "closing" /\ ui' = "joining"
                  /\ done \/ errorMsg # "none"
                  /\ UNCHANGED <<settings, flags, shown, errorMsg, data, queueMutex,
                                 rd, sv, wk>>

\* Each frame: a closed task that is done or in error is joined, blocking the GUI.
gcClosingTasks == /\ ui = "closing" /\ ui' = "joining"
                  /\ done \/ errorMsg # "none" \/ wk = "none"
                  /\ UNCHANGED <<settings, flags, shown, errorMsg, data, queueMutex,
                                 rd, sv, wk>>

EraseTask == /\ ui = "joining" /\ ui' = "erased"
             /\ wk \in {"none", "over"}
             /\ UNCHANGED <<settings, flags, shown, errorMsg, data, queueMutex,
                            rd, sv, wk>>

Erased == ui = "erased" /\ UNCHANGED vars

Next == \/ RdNext \/ SvNext \/ WkJoin \/ WkDone
        \/ startFile \/ renderCancelButton \/ cancel
        \/ wakeQueues \/ gcClosingTasks \/ EraseTask \/ Erased

Spec == Init /\ [][Next]_vars

\* The scheduler runs every thread that can step; the user owes nothing.
Fairness == /\ WF_vars(RdNext) /\ WF_vars(SvNext)
            /\ WF_vars(WkJoin) /\ WF_vars(WkDone)
            /\ WF_vars(wakeQueues) /\ WF_vars(gcClosingTasks) /\ WF_vars(EraseTask)

FairSpec == Spec /\ Fairness

-----------------------------------------------------------------------------
(* Properties. *)

\* startFile, feedToQueue, nextObs and commitEpoch together deliver what EpochStream
\* promises: the kept epochs, in file order, without gap or repetition, within the
\* limit, and only between the start and the end of the run.
Stream == INSTANCE EpochStream
            WITH out <- epochs, limit <- maxEpochs,
                 phase <- CASE wk = "none" -> "config"
                            [] wk = "over" -> "over"
                            [] OTHER -> "running"
ImplementsEpochStream == Stream!Spec

\* A run that ends with epochs missing has a reason the user can see: it was stopped,
\* it reached the epoch limit, or an error is shown (failRead, initSolver, no epochs).
\* Only what a RINEX source withholds from its kMaxEpochs-th call on is missing silently.
ShortRunIsExplained ==
  wk = "over" /\ ~stop /\ ~epochLimitReached /\ errorMsg = "none"
    => \A k \in Accepted :
         \/ \E i \in DOMAIN epochs : epochs[i] = k
         \/ isRINEX /\ k >= kMaxEpochs

\* What the comment on kMaxEpochs says it is for: it stops a parser that never reports
\* the end of the file, so of a file that does end it withholds no epoch.  It fails:
\* a file that is merely long is cut like one that ended.
CapStopsRunawaysOnly ==
  wk = "over" /\ ~stop /\ ~epochLimitReached /\ errorMsg = "none" => fed = NumObs

\* Whatever fails, stops or fills up, reader and solver both leave and the worker
\* publishes the end: no wait on queueCv or queueSpaceCv misses its last wake-up.
RunEnds == wk = "run" ~> wk = "over"

\* A closed tab is collected, and the join in gcClosingTasks does not hang the GUI.
ClosedTaskIsErased == ui = "wake" ~> ui = "erased"

=============================================================================
