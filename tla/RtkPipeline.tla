---------------------------- MODULE RtkPipeline ----------------------------
(***************************************************************************)
(* An RTK file solution from startFile on: the reader pairs two files into *)
(* pairQueue, the solver takes pairs out of it, and the GUI may cancel.    *)
(*                                                                         *)
(* The queue has its own mutex pairMtx, but the flags its waits look at    *)
(* are set by Task under queueMutex.  What keeps a wake-up from falling    *)
(* between a waiter's test and its sleep is that RTK's wakeQueues takes    *)
(* pairMtx before it notifies.  Nobody sleeps on queueMutex here, so it is *)
(* left out.                                                               *)
(***************************************************************************)
EXTENDS Naturals, Sequences

CONSTANTS NumPairs,     \* pairs the two files give
          RtkQueueDepth,   \* Core::queueDepth
          Kept,         \* pairs the decimator keeps
          Solvable,     \* pairs RTK::processEpoch yields a solution for
          RtkLimits        \* the values of Task::maxEpochs considered, 0 for none

ASSUME RtkAssumption == /\ NumPairs \in Nat
                        /\ RtkQueueDepth \in Nat \ {0}
                        /\ Kept \subseteq 1 .. NumPairs
                        /\ Solvable \subseteq 1 .. NumPairs
                        /\ RtkLimits \subseteq Nat

VARIABLES
  rtkTimed,      \* whether realtimeSec is set, which it may be for a file too
  rtkMaxEpochs, rtkReadDone, rtkSolvingDone, rtkStop,
  rtkHasError,
  pairQueue,     \* pairs waiting, by their number
  pairMtx,       \* who keeps the mutex while falling asleep, or "free"
  rtkFed,           \* pairs DualPair has returned
  rtkCut,        \* what ended the reading without a word: "time", "damage", or "none"
  rtkItem,          \* the pair the solver took last
  rtkEpochs,        \* committed solutions, by pair
  rtkRd, rtkSv, rtkWk, rtkUi \* where reader, solver, worker and GUI stand

rtkSettings == <<rtkMaxEpochs, rtkTimed>>
rtkFlags == <<rtkReadDone, rtkSolvingDone, rtkStop>>
rtkData  == <<pairQueue, rtkFed, rtkCut, rtkItem, rtkEpochs>>
rtkRunVars  == <<rtkSettings, rtkFlags, rtkHasError, rtkData, pairMtx, rtkRd, rtkSv, rtkWk, rtkUi>>

RtkTypeOK ==
  /\ rtkMaxEpochs \in RtkLimits /\ rtkTimed \in BOOLEAN
  /\ rtkReadDone \in BOOLEAN /\ rtkSolvingDone \in BOOLEAN /\ rtkStop \in BOOLEAN
  /\ rtkHasError \in BOOLEAN
  /\ pairQueue \in Seq(Kept) /\ Len(pairQueue) <= RtkQueueDepth
  /\ pairMtx \in {"free", "reader", "solver"}
  /\ rtkCut \in {"none", "time", "damage"}
  /\ rtkFed \in 0 .. NumPairs /\ rtkItem \in 0 .. NumPairs
  /\ rtkEpochs \in Seq(Kept \cap Solvable)
  /\ rtkRd \in {"open", "loop", "next", "space", "spaceSleep", "spaceWait", "pushed", "end",
             "fail", "failErr", "wake", "leave", "exit"}
  /\ rtkSv \in {"take", "takeSleep", "takeWait", "popped", "solve", "finish", "wake", "exit"}
  /\ rtkWk \in {"run", "over"}
  /\ rtkUi \in {"watching", "wake", "cancelled"}

RtkInit ==
  /\ rtkMaxEpochs \in RtkLimits /\ rtkTimed \in BOOLEAN
  /\ rtkReadDone = FALSE /\ rtkSolvingDone = FALSE /\ rtkStop = FALSE
  /\ rtkHasError = FALSE
  /\ pairQueue = <<>> /\ pairMtx = "free"
  /\ rtkFed = 0 /\ rtkCut = "none" /\ rtkItem = 0 /\ rtkEpochs = <<>>
  /\ rtkRd = "open" /\ rtkSv = "take" /\ rtkWk = "run" /\ rtkUi = "watching"

-----------------------------------------------------------------------------
rtkEpochLimitReached == rtkMaxEpochs > 0 /\ Len(rtkEpochs) >= rtkMaxEpochs
rtkShouldStop == rtkStop \/ rtkSolvingDone \/ rtkEpochLimitReached

RtkRdAwake == IF rtkRd = "spaceWait" THEN "space" ELSE rtkRd
RtkSvAwake == IF rtkSv = "takeWait" THEN "take" ELSE rtkSv

RtkRdStep(from, to) == rtkRd = from /\ rtkRd' = to /\ UNCHANGED <<rtkWk, rtkUi, rtkSettings>>
RtkSvStep(from, to) == rtkSv = from /\ rtkSv' = to /\ UNCHANGED <<rtkWk, rtkUi, rtkSettings>>

\* Slip: the override notifies without taking the mutex of the waits.
WakeMutexForgotten == TRUE

\* wakeQueues takes pairMtx, which a thread keeps until it sleeps.
WakeMutex == pairMtx = "free"

-----------------------------------------------------------------------------
(* The reader: readBody with pairFiles and its onPair callback. *)

\* Formats, navigation file and both observation files; any of them may fail.
rtkOpenDual == /\ \/ RtkRdStep("open", "loop")
                  \/ RtkRdStep("open", "fail")
               /\ UNCHANGED <<rtkFlags, rtkHasError, rtkData, pairMtx, rtkSv>>

\* realtimeSec may have elapsed at any look at the clock, the first one that ends the loop.
PairLoop == /\ \/ /\ RtkRdStep("loop", IF rtkShouldStop THEN "end" ELSE "next")
                  /\ UNCHANGED rtkCut
               \/ /\ rtkTimed /\ ~rtkShouldStop /\ RtkRdStep("loop", "end")
                  /\ rtkCut' = "time"
            /\ UNCHANGED <<rtkFlags, rtkHasError, pairQueue, rtkFed, rtkItem, rtkEpochs, pairMtx, rtkSv>>

\* DualPair::next returns a pair, which the decimator may drop; ends with either file,
\* and no less where the parser of a RINEX file stumbles, for makePull turns that into
\* the end of the file; or throws.
PairNext == /\ \/ /\ rtkFed < NumPairs /\ rtkFed' = rtkFed + 1
                  /\ RtkRdStep("next", IF rtkFed' \in Kept THEN "space" ELSE "loop")
                  /\ UNCHANGED rtkCut
               \/ /\ RtkRdStep("next", "end")
                  /\ rtkCut' = IF rtkFed < NumPairs THEN "damage" ELSE rtkCut
                  /\ UNCHANGED rtkFed
               \/ RtkRdStep("next", "fail") /\ UNCHANGED <<rtkFed, rtkCut>>
            /\ UNCHANGED <<rtkFlags, rtkHasError, pairQueue, rtkItem, rtkEpochs, pairMtx, rtkSv>>

RtkSpaceOrQuit == Len(pairQueue) < RtkQueueDepth \/ rtkStop \/ rtkSolvingDone

PairBlocked == /\ RtkRdStep("space", "spaceSleep")
               /\ pairMtx = "free" /\ pairMtx' = "reader"
               /\ ~RtkSpaceOrQuit
               /\ UNCHANGED <<rtkFlags, rtkHasError, rtkData, rtkSv>>

PairSleep == /\ RtkRdStep("spaceSleep", "spaceWait")
             /\ pairMtx' = "free"
             /\ UNCHANGED <<rtkFlags, rtkHasError, rtkData, rtkSv>>

PairQuit == /\ RtkRdStep("space", "loop")
            /\ pairMtx = "free"
            /\ rtkStop \/ rtkSolvingDone
            /\ UNCHANGED <<rtkFlags, rtkHasError, rtkData, pairMtx, rtkSv>>

PairPush == /\ RtkRdStep("space", "pushed")
            /\ pairMtx = "free"
            /\ RtkSpaceOrQuit /\ ~rtkStop /\ ~rtkSolvingDone
            /\ pairQueue' = Append(pairQueue, rtkFed)
            /\ UNCHANGED <<rtkFlags, rtkHasError, rtkFed, rtkCut, rtkItem, rtkEpochs, pairMtx, rtkSv>>

PairPushed == /\ RtkRdStep("pushed", "loop")
              /\ rtkSv' = RtkSvAwake
              /\ UNCHANGED <<rtkFlags, rtkHasError, rtkData, pairMtx>>

ReadEnd == /\ RtkRdStep("end", "wake")
           /\ pairMtx = "free"
           /\ rtkReadDone' = TRUE
           /\ UNCHANGED <<rtkSolvingDone, rtkStop, rtkHasError, rtkData, pairMtx, rtkSv>>

\* failRead publishes readDone under queueMutex, then the error, then the wake-up.
rtkFailRead == /\ RtkRdStep("fail", "failErr")
               /\ rtkReadDone' = TRUE
               /\ UNCHANGED <<rtkSolvingDone, rtkStop, rtkHasError, rtkData, pairMtx, rtkSv>>

\* Slip: the failure wakes the other side without a message.
RtkFailErrorSilent == /\ RtkRdStep("failErr", "wake")
                      /\ UNCHANGED <<rtkFlags, rtkHasError, rtkData, pairMtx, rtkSv>>

RtkFailError == /\ RtkRdStep("failErr", "wake")
                /\ rtkHasError' = TRUE
                /\ UNCHANGED <<rtkFlags, rtkData, pairMtx, rtkSv>>

RtkRdWake == /\ RtkRdStep("wake", "leave")
             /\ WakeMutex
             /\ rtkSv' = RtkSvAwake
             /\ UNCHANGED <<rtkFlags, rtkHasError, rtkData, pairMtx>>

RtkRdLeave == /\ RtkRdStep("leave", "exit")
              /\ UNCHANGED <<rtkFlags, rtkHasError, rtkData, pairMtx, rtkSv>>

RtkRdNext == \/ rtkOpenDual \/ PairLoop \/ PairNext \/ PairBlocked \/ PairSleep \/ PairQuit
             \/ PairPush \/ PairPushed \/ ReadEnd \/ rtkFailRead \/ RtkFailError \/ RtkRdWake \/ RtkRdLeave

-----------------------------------------------------------------------------
(* The solver: solveBody and solvePair. *)

TakeOrQuit == pairQueue # <<>> \/ rtkReadDone \/ rtkStop

TakeBlocked == /\ RtkSvStep("take", "takeSleep")
               /\ pairMtx = "free" /\ pairMtx' = "solver"
               /\ ~TakeOrQuit
               /\ UNCHANGED <<rtkFlags, rtkHasError, rtkData, rtkRd>>

TakeSleep == /\ RtkSvStep("takeSleep", "takeWait")
             /\ pairMtx' = "free"
             /\ UNCHANGED <<rtkFlags, rtkHasError, rtkData, rtkRd>>

TakeNone == /\ RtkSvStep("take", "finish")
            /\ pairMtx = "free"
            /\ pairQueue = <<>> /\ (rtkReadDone \/ rtkStop)
            /\ UNCHANGED <<rtkFlags, rtkHasError, rtkData, pairMtx, rtkRd>>

RtkTake == /\ RtkSvStep("take", "popped")
           /\ pairMtx = "free"
           /\ pairQueue # <<>>
           /\ rtkItem' = Head(pairQueue)
           /\ pairQueue' = Tail(pairQueue)
           /\ UNCHANGED <<rtkFlags, rtkHasError, rtkFed, rtkCut, rtkEpochs, pairMtx, rtkRd>>

\* Slip: the limit is left to the reader, which may be far ahead.
TakenUnlimited == /\ RtkSvStep("popped", IF rtkStop THEN "finish" ELSE "solve")
                  /\ rtkRd' = RtkRdAwake
                  /\ UNCHANGED <<rtkFlags, rtkHasError, rtkData, pairMtx>>

\* A pair taken after the stop or past the limit is dropped.
Taken == /\ RtkSvStep("popped", IF rtkStop \/ rtkEpochLimitReached THEN "finish" ELSE "solve")
         /\ rtkRd' = RtkRdAwake
         /\ UNCHANGED <<rtkFlags, rtkHasError, rtkData, pairMtx>>

\* Only a pair with a solution becomes an epoch.
solvePair == /\ RtkSvStep("solve", "take")
             /\ rtkEpochs' = IF rtkItem \in Solvable THEN Append(rtkEpochs, rtkItem) ELSE rtkEpochs
             /\ UNCHANGED <<rtkFlags, rtkHasError, pairQueue, rtkFed, rtkCut, rtkItem, pairMtx, rtkRd>>

rtkFinishSolving == /\ RtkSvStep("finish", "wake")
                    /\ rtkSolvingDone' = TRUE
                    /\ UNCHANGED <<rtkReadDone, rtkStop, rtkHasError, rtkData, pairMtx, rtkRd>>

RtkSvWake == /\ RtkSvStep("wake", "exit")
             /\ WakeMutex
             /\ rtkRd' = RtkRdAwake
             /\ UNCHANGED <<rtkFlags, rtkHasError, rtkData, pairMtx>>

RtkSvNext == \/ TakeBlocked \/ TakeSleep \/ TakeNone \/ RtkTake \/ Taken \/ solvePair
             \/ rtkFinishSolving \/ RtkSvWake

-----------------------------------------------------------------------------
(* The worker joins both threads; the GUI, where realtimeSec is never set, may *)
(* cancel at any time. *)

RtkWkJoin == /\ rtkWk = "run" /\ rtkRd = "exit" /\ rtkSv = "exit"
             /\ rtkWk' = "over"
             /\ UNCHANGED <<rtkSettings, rtkFlags, rtkHasError, rtkData, pairMtx, rtkRd, rtkSv, rtkUi>>

rtkCancel == /\ rtkUi = "watching" /\ rtkUi' = "wake"
             /\ ~rtkTimed
             /\ rtkStop' = TRUE
             /\ UNCHANGED <<rtkSettings, rtkReadDone, rtkSolvingDone, rtkHasError, rtkData, pairMtx, rtkRd, rtkSv, rtkWk>>

rtkWakeQueues == /\ rtkUi = "wake" /\ rtkUi' = "cancelled"
                 /\ WakeMutex
                 /\ rtkRd' = RtkRdAwake /\ rtkSv' = RtkSvAwake
                 /\ UNCHANGED <<rtkSettings, rtkFlags, rtkHasError, rtkData, pairMtx, rtkWk>>

RtkOver == rtkWk = "over" /\ rtkUi # "wake" /\ UNCHANGED rtkRunVars

RtkNext == RtkRdNext \/ RtkSvNext \/ RtkWkJoin \/ rtkCancel \/ rtkWakeQueues \/ RtkOver

RtkSpec == RtkInit /\ [][RtkNext]_rtkRunVars

RtkFairSpec == /\ RtkSpec
               /\ WF_rtkRunVars(RtkRdNext) /\ WF_rtkRunVars(RtkSvNext)
               /\ WF_rtkRunVars(RtkWkJoin) /\ WF_rtkRunVars(rtkWakeQueues)

-----------------------------------------------------------------------------
(* Properties. *)

\* pairFiles, the queue and solvePair deliver the kept, solvable pairs in order, each
\* once, none skipped, within the limit.
RtkStream == INSTANCE EpochStream
               WITH NumObs <- NumPairs, Accepted <- Kept \cap Solvable,
                    out <- rtkEpochs, limit <- rtkMaxEpochs,
                    phase <- IF rtkWk = "over" THEN "over" ELSE "running"
RtkImplementsStream ==
  [][RtkStream!Next]_<<rtkEpochs, rtkMaxEpochs, rtkWk>>

\* A run that misses solvable pairs was stopped or limited, or shows an error, but for
\* two ends nobody is told of: a damaged RINEX file and the elapse of realtimeSec.
RtkShortRunIsExplained ==
  rtkWk = "over" /\ ~rtkStop /\ ~rtkEpochLimitReached /\ ~rtkHasError /\ rtkCut = "none"
    => \A k \in Kept \cap Solvable : \E i \in DOMAIN rtkEpochs : rtkEpochs[i] = k

\* What gnss.ini says of realtime_sec: it limits realtime runs.  A run over two sound
\* files that was not stopped, limited or in error would then have all its pairs.  It
\* fails: the reader of files asks shouldStop too.
RtkClockSparesFiles ==
  rtkWk = "over" /\ ~rtkStop /\ ~rtkEpochLimitReached /\ ~rtkHasError /\ rtkCut # "damage"
    => \A k \in Kept \cap Solvable : \E i \in DOMAIN rtkEpochs : rtkEpochs[i] = k

\* Flags set under one mutex never leave a thread asleep on the other: the run ends.
RtkRunEnds == rtkWk = "run" ~> rtkWk = "over"

=============================================================================
