----------------------------- MODULE EpochProofs ----------------------------
(***************************************************************************)
(* What happens to epochs before they are solved.                          *)
(*                                                                         *)
(* TaskPipeline, for every file length, queue depth, decimation and limit: *)
(* type correctness, the safety part of EpochStream, and that a run cut    *)
(* short has a reason the user can see.                                    *)
(*                                                                         *)
(* RtkPipeline, for every pair of files, queue depth, decimation, solver   *)
(* and limit: type correctness, the order of EpochStream, and that a run   *)
(* cut short has a reason.  The pairs in the queue are not consecutive,    *)
(* for the decimator drops some of them, so the invariant says which kept  *)
(* pairs are where: all up to rtkItem have been through the solver, and    *)
(* all from there to rtkFed are queued, but for the one the reader holds   *)
(* or has let go of.                                                       *)
(*                                                                         *)
(* DualPair, for every two files, sampling and estimator: epochs are       *)
(* paired with the nearest, and no common one is lost.  The invariant      *)
(* says what an estimator can have learnt from the epochs read, and that a *)
(* common epoch not paired yet still lies ahead in both files.             *)
(*                                                                         *)
(* EphTable, for every log, navigation files and limit of age: an epoch is *)
(* served from what was usable when it was read.  The invariant says what  *)
(* each snapshot tells of the log up to its own time.                      *)
(***************************************************************************)
EXTENDS TaskPipeline, RtkPipeline, DualPair, EphTable, FiniteSetTheorems, WellFoundedInduction, TLAPS

-----------------------------------------------------------------------------
(* TaskPipeline. *)

Committed == {epochs[i] : i \in DOMAIN epochs}

RdFeeding == {"none", "open", "nav", "navWake", "loop", "next", "space", "spaceSleep",
              "spaceWait", "pushed", "ended", "finish", "fail"}
RdSpace == {"space", "spaceSleep", "spaceWait"}
RdBefore == {"none", "open", "nav", "navWake", "loop", "next", "pushed"}
RdQuit == {"ended", "finish", "finishWake", "failWake", "leave", "exit"}
SvHolding == {"popped", "solve"}
SvQuit == {"finish", "finishWake", "exit"}

\* The three threads exist together, and the worker outlives the other two.
Lifetimes == /\ wk = "none" => /\ rd = "none" /\ sv = "none"
                               /\ epochs = <<>>
             /\ wk # "none" => rd # "none" /\ sv # "none"
             /\ wk \in {"joined", "over"} => rd = "exit" /\ sv = "exit"
             /\ ui = "config" => wk = "none"

\* The queue holds, in order, what was queued and not yet taken.
QueueOrder == /\ ok = item + Len(obsQueue)
              /\ \A i \in 1 .. Len(obsQueue) : obsQueue[i] = item + i

\* The reader holds at most one epoch that is not in the queue.
ReaderHand == /\ rd \in RdBefore => fed = ok
              /\ rd \in RdSpace => fed = ok + 1
              /\ fed \in {ok, ok + 1}

\* Everything accepted up to the epoch in the solver's hand is committed, in order.
SolverHand == /\ \A k \in Committed : k <= item
              /\ \A i, j \in DOMAIN epochs : i < j => epochs[i] < epochs[j]
              /\ \A k \in Accepted : k < item => k \in Committed
              /\ sv \in SvHolding => item > 0 /\ item \notin Committed
              /\ sv \notin SvHolding \cup SvQuit /\ item \in Accepted => item \in Committed
              /\ sv \in SvQuit /\ ~stop /\ item \in Accepted => item \in Committed

WithinLimit == /\ maxEpochs > 0 => Len(epochs) <= maxEpochs
               /\ sv \in {"obs", "obsSleep", "obsWait"} \cup SvHolding => ~epochLimitReached

FlagsTell == /\ readDone => rd \notin RdFeeding
             /\ solvingDone => sv \in {"finishWake", "exit"}

\* Why a thread has left its loop.
Excused == stop \/ epochLimitReached \/ errorMsg # "none"
ReasonsKept == /\ rd \in RdQuit => Excused \/ (ok = fed /\ (fed = NumObs \/ Exhausted))
               /\ sv \in SvQuit => Excused \/ (readDone /\ obsQueue = <<>>)

IInv == /\ TypeOK /\ Lifetimes /\ QueueOrder /\ ReaderHand
        /\ SolverHand /\ WithinLimit /\ FlagsTell /\ ReasonsKept

USE PipelineAssumption

\* Committing an epoch adds just that epoch to the committed ones.
LEMMA AppendCommits ==
  ASSUME epochs \in Seq(Accepted), NEW k \in Accepted, epochs' = Append(epochs, k)
  PROVE  Committed' = Committed \cup {k}
<1>1. /\ DOMAIN epochs' = 1 .. Len(epochs) + 1
      /\ DOMAIN epochs = 1 .. Len(epochs)
      /\ \A i \in 1 .. Len(epochs) : epochs'[i] = epochs[i]
      /\ epochs'[Len(epochs) + 1] = k
    OBVIOUS
<1>2. 1 .. Len(epochs) + 1 = (1 .. Len(epochs)) \cup {Len(epochs) + 1}
    OBVIOUS
<1>3. QED
    BY <1>1, <1>2 DEF Committed

\* Results stand for places in the file.
LEMMA CommittedPlaces ==
  ASSUME epochs \in Seq(Accepted)
  PROVE  Committed \subseteq Nat
<1>1. \A i \in DOMAIN epochs : epochs[i] \in Accepted
    OBVIOUS
<1>2. Accepted \subseteq Nat
    OBVIOUS
<1>3. QED
    BY <1>1, <1>2 DEF Committed

LEMMA StepKeepsIInv == IInv /\ [Next]_vars => IInv'
<1> SUFFICES ASSUME IInv, [Next]_vars PROVE IInv'
    OBVIOUS
<1> USE DEF IInv, TypeOK, Lifetimes, QueueOrder, ReaderHand, SolverHand, WithinLimit, FlagsTell,
        ReasonsKept, Excused, RdFeeding, RdSpace, RdBefore, RdQuit, SvHolding, SvQuit,
        epochLimitReached, Errors, RdPlaces, SvPlaces, WkPlaces, UiPlaces, RdAwake, SvAwake,
        RdStep, SvStep, settings, flags, shown, data, Exhausted
<1>0. epochs' = epochs => Committed' = Committed
    BY DEF Committed
<1>1. CASE RdOpen
    BY <1>0, <1>1 DEF RdOpen
<1>2. CASE markNavReady
    BY <1>0, <1>2 DEF markNavReady
<1>3. CASE RdNotify("navWake", "loop")
    BY <1>0, <1>3 DEF RdNotify
<1>4. CASE FeedLoop
    BY <1>0, <1>4 DEF FeedLoop
<1>5. CASE FeedNext
  <2>1. TypeOK'
      BY <1>5 DEF FeedNext
  <2>2. Lifetimes'
      BY <1>5 DEF FeedNext
  <2>3. QueueOrder'
      BY <1>5 DEF FeedNext
  <2>4. ReaderHand'
      BY <1>5 DEF FeedNext
  <2>5. SolverHand'
      BY <1>0, <1>5 DEF FeedNext
  <2>6. WithinLimit'
      BY <1>5 DEF FeedNext
  <2>7. FlagsTell'
      BY <1>5 DEF FeedNext
  <2>8. ReasonsKept'
      BY <1>5 DEF FeedNext
  <2>9. QED
      BY <2>1, <2>2, <2>3, <2>4, <2>5, <2>6, <2>7, <2>8
<1>6. CASE FeedBlocked
    BY <1>0, <1>6 DEF FeedBlocked, SpaceOrQuit
<1>7. CASE FeedSleep
    BY <1>0, <1>7 DEF FeedSleep
<1>8. CASE FeedQuit
    BY <1>0, <1>8 DEF FeedQuit
<1>9. CASE FeedPush
  <2>1. TypeOK'
      BY <1>9 DEF FeedPush, SpaceOrQuit
  <2>2. Lifetimes'
      BY <1>9 DEF FeedPush, SpaceOrQuit
  <2>3. QueueOrder'
    <3>1. Len(obsQueue') = Len(obsQueue) + 1
        BY <1>9 DEF FeedPush
    <3>2. ASSUME NEW i \in 1 .. Len(obsQueue') PROVE obsQueue'[i] = item' + i
      <4>1. CASE i = Len(obsQueue) + 1
          BY <1>9, <3>1, <4>1 DEF FeedPush
      <4>2. CASE i \in 1 .. Len(obsQueue)
          BY <1>9, <3>1, <4>2 DEF FeedPush
      <4>3. QED
          BY <3>1, <4>1, <4>2
    <3>3. ok' = item' + Len(obsQueue')
        BY <1>9, <3>1 DEF FeedPush
    <3>4. QED
        BY <3>2, <3>3
  <2>4. ReaderHand'
      BY <1>9 DEF FeedPush, SpaceOrQuit
  <2>5. SolverHand'
      BY <1>0, <1>9 DEF FeedPush, SpaceOrQuit
  <2>6. WithinLimit'
      BY <1>9 DEF FeedPush, SpaceOrQuit
  <2>7. FlagsTell'
      BY <1>9 DEF FeedPush, SpaceOrQuit
  <2>8. ReasonsKept'
      BY <1>9 DEF FeedPush, SpaceOrQuit
  <2>9. QED
      BY <2>1, <2>2, <2>3, <2>4, <2>5, <2>6, <2>7, <2>8
<1>10. CASE RdNotify("pushed", "loop")
    BY <1>0, <1>10 DEF RdNotify
<1>11. CASE ReadEnded
    BY <1>0, <1>11 DEF ReadEnded
<1>12. CASE finishRead
    BY <1>0, <1>12 DEF finishRead
<1>13. CASE RdNotify("finishWake", "leave")
    BY <1>0, <1>13 DEF RdNotify
<1>14. CASE failRead
    BY <1>0, <1>14 DEF failRead
<1>15. CASE FailError
    BY <1>0, <1>15 DEF FailError
<1>16. CASE RdNotify("failWake", "leave")
    BY <1>0, <1>16 DEF RdNotify
<1>17. CASE RdLeave
  <2>1. TypeOK'
    <3>1. done' \in BOOLEAN /\ loading' \in BOOLEAN
        BY <1>17, Zenon DEF RdLeave
    <3>2. QED
        BY <1>17, <3>1 DEF RdLeave
  <2>2. Lifetimes'
      BY <1>17 DEF RdLeave
  <2>3. QueueOrder'
      BY <1>17 DEF RdLeave
  <2>4. ReaderHand'
      BY <1>17 DEF RdLeave
  <2>5. SolverHand'
      BY <1>0, <1>17 DEF RdLeave
  <2>6. WithinLimit'
      BY <1>17 DEF RdLeave
  <2>7. FlagsTell'
      BY <1>17 DEF RdLeave
  <2>8. ReasonsKept'
      BY <1>17 DEF RdLeave
  <2>9. QED
      BY <2>1, <2>2, <2>3, <2>4, <2>5, <2>6, <2>7, <2>8
<1>18. CASE SvBlocked("nav", "navSleep", NavOrQuit)
    BY <1>0, <1>18 DEF SvBlocked
<1>19. CASE SvSleep("navSleep", "navWait")
    BY <1>0, <1>19 DEF SvSleep
<1>20. CASE waitNavReady
    BY <1>0, <1>20 DEF waitNavReady
<1>21. CASE initSolver
    BY <1>0, <1>21 DEF initSolver
<1>22. CASE SolveLoop
    BY <1>0, <1>22 DEF SolveLoop
<1>23. CASE SvBlocked("obs", "obsSleep", ObsOrQuit)
    BY <1>0, <1>23 DEF SvBlocked
<1>24. CASE SvSleep("obsSleep", "obsWait")
    BY <1>0, <1>24 DEF SvSleep
<1>25. CASE nextObsNone
    BY <1>0, <1>25 DEF nextObsNone, ObsOrQuit
<1>26. CASE nextObs
  <2>1. TypeOK'
      BY <1>26 DEF nextObs
  <2>2. Lifetimes'
      BY <1>26 DEF nextObs
  <2>3. QueueOrder'
    <3>1. Len(obsQueue') = Len(obsQueue) - 1 /\ item' = item + 1
        BY <1>26 DEF nextObs
    <3>2. ASSUME NEW i \in 1 .. Len(obsQueue') PROVE obsQueue'[i] = item' + i
      <4>1. obsQueue'[i] = obsQueue[i + 1] /\ i + 1 \in 1 .. Len(obsQueue)
          BY <1>26, <3>1 DEF nextObs
      <4>2. QED
          BY <3>1, <4>1
    <3>3. QED
        BY <1>26, <3>1, <3>2 DEF nextObs
  <2>4. ReaderHand'
    <3>1. rd' = rd /\ fed' = fed /\ ok' = ok
        BY <1>26 DEF nextObs
    <3>2. QED
        BY <3>1 DEF ReaderHand
  <2>5. SolverHand'
    <3>1. item' = item + 1 /\ epochs' = epochs /\ sv = "obs" /\ sv' = "popped"
        BY <1>26 DEF nextObs
    <3>2. Committed' = Committed
        BY <1>0, <3>1
    <3>3. \A k \in Accepted : k < item' => k \in Committed'
        BY <3>1, <3>2
    <3>4. item' \notin Committed' /\ \A k \in Committed' : k <= item'
      <4>1. Committed \subseteq Nat
          BY CommittedPlaces
      <4>2. QED
          BY <3>1, <3>2, <4>1
    <3>5. QED
        BY <3>1, <3>2, <3>3, <3>4
  <2>6. WithinLimit'
      BY <1>26 DEF nextObs
  <2>7. FlagsTell'
      BY <1>26 DEF nextObs
  <2>8. ReasonsKept'
      BY <1>26 DEF nextObs
  <2>9. QED
      BY <2>1, <2>2, <2>3, <2>4, <2>5, <2>6, <2>7, <2>8
<1>27. CASE nextObsReturn
    BY <1>0, <1>27 DEF nextObsReturn
<1>28. CASE commitEpoch
  <2>1. TypeOK'
      BY <1>28 DEF commitEpoch
  <2>2. Lifetimes'
      BY <1>28 DEF commitEpoch
  <2>3. QueueOrder'
      BY <1>28 DEF commitEpoch
  <2>4. ReaderHand'
      BY <1>28 DEF commitEpoch
  <2>5. SolverHand'
    <3>1. item' = item /\ sv' = "loop" /\ sv = "solve" /\ item > 0
        BY <1>28 DEF commitEpoch
    <3>2. CASE item \in Accepted
      <4>1. epochs' = Append(epochs, item)
          BY <1>28, <3>2 DEF commitEpoch
      <4>2. Committed' = Committed \cup {item}
          BY <3>2, <4>1, AppendCommits
      <4>3. \A i, j \in DOMAIN epochs' : i < j => epochs'[i] < epochs'[j]
        <5> SUFFICES ASSUME NEW i \in 1 .. Len(epochs) + 1, NEW j \in 1 .. Len(epochs) + 1,
                            i < j
                     PROVE  epochs'[i] < epochs'[j]
            BY <4>1
        <5>1. i \in 1 .. Len(epochs) /\ epochs'[i] = epochs[i]
            BY <4>1
        <5>2. epochs[i] \in Committed /\ epochs[i] # item /\ epochs[i] <= item
            BY <3>1, <5>1 DEF Committed
        <5>3. epochs[i] < item
          <6>1. epochs[i] \in Nat /\ item \in Nat
              BY <5>2, CommittedPlaces
          <6>2. QED
              BY <5>2, <6>1
        <5>4. CASE j = Len(epochs) + 1
            BY <4>1, <5>1, <5>3, <5>4
        <5>5. CASE j \in 1 .. Len(epochs)
            BY <4>1, <5>1, <5>5, SMTT(30)
        <5>6. QED
            BY <5>4, <5>5, SMTT(30)
      <4>4. \A k \in Committed' : k <= item'
          BY <3>1, <4>2
      <4>5. \A k \in Accepted : k < item' => k \in Committed'
          BY <3>1, <4>2
      <4>6. item' \in Committed'
          BY <3>1, <4>2
      <4>7. QED
          BY <3>1, <4>3, <4>4, <4>5, <4>6
    <3>3. CASE item \notin Accepted
      <4>1. epochs' = epochs /\ Committed' = Committed
          BY <1>0, <1>28, <3>3 DEF commitEpoch
      <4>2. QED
          BY <3>1, <3>3, <4>1
    <3>4. QED
        BY <3>2, <3>3
  <2>6. WithinLimit'
      BY <1>28 DEF commitEpoch
  <2>7. FlagsTell'
      BY <1>28 DEF commitEpoch
  <2>8. ReasonsKept'
      BY <1>28 DEF commitEpoch
  <2>9. QED
      BY <2>1, <2>2, <2>3, <2>4, <2>5, <2>6, <2>7, <2>8
<1>29. CASE finishSolving
    BY <1>0, <1>29 DEF finishSolving
<1>30. CASE SvWake
    BY <1>0, <1>30 DEF SvWake
<1>31. CASE WkJoin
    BY <1>0, <1>31 DEF WkJoin
<1>32. CASE WkDone
  <2>1. TypeOK'
    <3>1. done' \in BOOLEAN /\ loading' \in BOOLEAN
        BY <1>32, Zenon DEF WkDone
    <3>2. QED
        BY <1>32, <3>1 DEF WkDone
  <2>2. Lifetimes'
      BY <1>32 DEF WkDone
  <2>3. QueueOrder'
      BY <1>32 DEF WkDone
  <2>4. ReaderHand'
      BY <1>32 DEF WkDone
  <2>5. SolverHand'
      BY <1>0, <1>32 DEF WkDone
  <2>6. WithinLimit'
      BY <1>32 DEF WkDone
  <2>7. FlagsTell'
      BY <1>32 DEF WkDone
  <2>8. ReasonsKept'
      BY <1>32 DEF WkDone
  <2>9. QED
      BY <2>1, <2>2, <2>3, <2>4, <2>5, <2>6, <2>7, <2>8
<1>33. CASE startFile
  <2>1. TypeOK'
    <3>1. /\ navReady' \in BOOLEAN /\ readDone' \in BOOLEAN /\ solvingDone' \in BOOLEAN
          /\ stop' \in BOOLEAN /\ done' \in BOOLEAN /\ loading' \in BOOLEAN
        BY <1>33, Zenon DEF startFile
    <3>2. /\ obsQueue' \in Seq(1 .. NumObs) /\ Len(obsQueue') <= QueueDepth
          /\ epochs' \in Seq(Accepted)
        BY <1>33 DEF startFile
    <3>3. QED
        BY <1>33, <3>1, <3>2 DEF startFile
  <2>2. Lifetimes'
      BY <1>33 DEF startFile
  <2>3. QueueOrder'
      BY <1>33 DEF startFile
  <2>4. ReaderHand'
      BY <1>33 DEF startFile
  <2>5. SolverHand'
    <3>1. Committed' = {} /\ DOMAIN epochs' = {} /\ item' = 0
        BY <1>33 DEF startFile, Committed
    <3>2. QED
        BY <1>33, <3>1 DEF startFile
  <2>6. WithinLimit'
      BY <1>33 DEF startFile
  <2>7. FlagsTell'
      BY <1>33 DEF startFile
  <2>8. ReasonsKept'
      BY <1>33 DEF startFile
  <2>9. QED
      BY <2>1, <2>2, <2>3, <2>4, <2>5, <2>6, <2>7, <2>8
<1>34. CASE renderCancelButton
    BY <1>0, <1>34 DEF renderCancelButton
<1>35. CASE cancel
    BY <1>0, <1>35 DEF cancel
<1>36. CASE wakeQueues
    BY <1>0, <1>36, SMTT(30) DEF wakeQueues
<1>37. CASE gcClosingTasks
    BY <1>0, <1>37 DEF gcClosingTasks
<1>38. CASE EraseTask
    BY <1>0, <1>38 DEF EraseTask
<1>39. CASE Erased
    BY <1>0, <1>39 DEF Erased, vars, pcs
<1>40. CASE UNCHANGED vars
    BY <1>0, <1>40 DEF vars, pcs
<1>41. QED
    BY <1>1, <1>2, <1>3, <1>4, <1>5, <1>6, <1>7, <1>8, <1>9, <1>10, <1>11, <1>12, <1>13, <1>14, <1>15, <1>16, <1>17, <1>18, <1>19, <1>20, <1>21, <1>22, <1>23, <1>24, <1>25, <1>26, <1>27, <1>28, <1>29, <1>30, <1>31, <1>32, <1>33, <1>34, <1>35, <1>36, <1>37, <1>38, <1>39, <1>40 DEF Next, RdNext, SvNext

LEMMA InitIInv == Init => IInv
<1> SUFFICES ASSUME Init PROVE IInv
    OBVIOUS
<1>1. TypeOK
  <2>1. /\ navReady \in BOOLEAN /\ readDone \in BOOLEAN /\ solvingDone \in BOOLEAN
        /\ stop \in BOOLEAN /\ done \in BOOLEAN /\ loading \in BOOLEAN
      BY Zenon DEF Init
  <2>2. QED
      BY <2>1 DEF Init, TypeOK, Errors, RdPlaces, SvPlaces, WkPlaces, UiPlaces
<1>2. Committed = {} /\ DOMAIN epochs = {}
    BY DEF Init, Committed
<1>3. Lifetimes /\ QueueOrder /\ ReaderHand
    BY DEF Init, Lifetimes, QueueOrder, ReaderHand, RdBefore, RdSpace
<1>4. SolverHand /\ WithinLimit
    BY <1>2 DEF Init, SolverHand, SvHolding, SvQuit, WithinLimit, epochLimitReached
<1>5. FlagsTell /\ ReasonsKept
    BY DEF Init, FlagsTell, ReasonsKept, RdQuit, SvQuit
<1>6. QED
    BY <1>1, <1>3, <1>4, <1>5 DEF IInv

THEOREM PipelineInvariant == Spec => []IInv
BY InitIInv, StepKeepsIInv, PTL DEF Spec

\* Every variable keeps its type, and the queue its bound, whatever the constants.
THEOREM PipelineTypeOK == Spec => []TypeOK
<1>1. IInv => TypeOK
    BY DEF IInv
<1>2. QED
    BY <1>1, PipelineInvariant, PTL

\* A run that ends with epochs missing was stopped, limited, or shows an error, and what
\* it lacks otherwise lies behind the point where a RINEX source stops answering.
THEOREM ShortRunExplained == Spec => []ShortRunIsExplained
<1>1. IInv => ShortRunIsExplained
  <2> SUFFICES ASSUME IInv, wk = "over", ~stop, ~epochLimitReached, errorMsg = "none",
                      NEW k \in Accepted, ~(isRINEX /\ k >= kMaxEpochs)
               PROVE  k \in Committed
      BY DEF ShortRunIsExplained, Committed
  <2>1. rd = "exit" /\ sv = "exit"
      BY DEF IInv, Lifetimes
  <2>2. ok = fed /\ obsQueue = <<>> /\ (fed = NumObs \/ Exhausted)
      BY <2>1 DEF IInv, ReasonsKept, Excused, RdQuit, SvQuit
  <2>3. item = fed
      BY <2>2 DEF IInv, TypeOK, QueueOrder
  <2>4. k \in 1 .. NumObs
      OBVIOUS
  <2>5. k <= item
    <3>1. item \in Nat /\ k \in Nat /\ k <= NumObs /\ kMaxEpochs \in Nat
        BY <2>4 DEF IInv, TypeOK
    <3>2. QED
        BY <2>2, <2>3, <3>1 DEF Exhausted
  <2>6. QED
      BY <2>1, <2>4, <2>5 DEF IInv, TypeOK, SolverHand, SvQuit, SvHolding
<1>2. QED
    BY <1>1, PipelineInvariant, PTL

-----------------------------------------------------------------------------
(* The pipeline implements EpochStream. *)

\* The steps of EpochStream that three steps of the pipeline take.
StreamPhase == CASE wk = "none" -> "config" [] wk = "over" -> "over" [] OTHER -> "running"

LEMMA StreamStutter ==
  ASSUME epochs' = epochs, maxEpochs' = maxEpochs, StreamPhase' = StreamPhase
  PROVE  UNCHANGED Stream!vars
BY DEF Stream!vars, StreamPhase

LEMMA CommitDelivers == IInv /\ commitEpoch => [Stream!Next]_Stream!vars
<1> SUFFICES ASSUME IInv, commitEpoch PROVE [Stream!Next]_Stream!vars
    OBVIOUS
<1>1. sv = "solve" /\ wk' = wk /\ maxEpochs' = maxEpochs
    BY DEF commitEpoch, SvStep, settings
<1>2. wk = "run"
    BY <1>1 DEF IInv, TypeOK, Lifetimes, WkPlaces
<1>3. CASE item \in Accepted
  <2>1. epochs' = Append(epochs, item)
      BY <1>3 DEF commitEpoch
  <2>2. /\ item \notin Committed
        /\ \A k \in Committed : k <= item
        /\ \A k \in Accepted : k < item => k \in Committed
      BY <1>1 DEF IInv, SolverHand, SvHolding
  <2>3. Committed \subseteq Nat /\ item \in Nat
      BY CommittedPlaces DEF IInv, TypeOK
  <2>4. \A k \in Committed : k < item
      BY <2>2, <2>3
  <2>5. Stream!Delivered = Committed
      BY DEF Stream!Delivered, Committed
  <2>6. Stream!IsNext(item)
      BY <2>2, <2>4, <2>5 DEF Stream!IsNext
  <2>7. maxEpochs = 0 \/ Len(epochs) < maxEpochs
      BY <1>1 DEF IInv, TypeOK, WithinLimit, SvHolding, epochLimitReached
  <2>8. Stream!Deliver(item)
      BY <1>1, <1>2, <2>1, <2>6, <2>7 DEF Stream!Deliver
  <2>9. QED
      BY <1>3, <2>8 DEF Stream!Next
<1>4. CASE item \notin Accepted
  <2>1. epochs' = epochs
      BY <1>4 DEF commitEpoch
  <2>2. QED
      BY <1>1, <2>1, StreamStutter DEF StreamPhase
<1>5. QED
    BY <1>3, <1>4

LEMMA StartStarts == IInv /\ startFile => Stream!Next
<1> SUFFICES ASSUME IInv, startFile PROVE Stream!Start
    BY DEF Stream!Next
<1>1. wk = "none" /\ epochs = <<>> /\ epochs' = <<>> /\ wk' = "run" /\ maxEpochs' = maxEpochs
    BY DEF IInv, Lifetimes, startFile, settings
<1>2. QED
    BY <1>1 DEF Stream!Start

LEMMA EndEnds == WkDone => Stream!Next
<1> SUFFICES ASSUME WkDone PROVE Stream!End
    BY DEF Stream!Next
<1>1. wk = "joined" /\ wk' = "over" /\ epochs' = epochs /\ maxEpochs' = maxEpochs
    BY DEF WkDone, data, settings
<1>2. QED
    BY <1>1 DEF Stream!End

\* Every other step leaves results, limit and phase alone.
LEMMA OtherStepsStutter ==
  [Next]_vars => startFile \/ commitEpoch \/ WkDone \/ UNCHANGED Stream!vars
<1> SUFFICES ASSUME [Next]_vars, ~startFile, ~commitEpoch, ~WkDone
             PROVE  UNCHANGED Stream!vars
    OBVIOUS
<1> USE StreamStutter DEF StreamPhase, data, settings
<1>1. CASE RdNext
    BY <1>1 DEF RdNext, RdStep, RdOpen, markNavReady, RdNotify, FeedLoop, FeedNext, FeedBlocked,
                FeedSleep, FeedQuit, FeedPush, ReadEnded, finishRead, failRead, FailError, RdLeave
<1>2. CASE SvNext
    BY <1>2 DEF SvNext, SvStep, SvBlocked, SvSleep, waitNavReady, initSolver, SolveLoop,
                nextObsNone, nextObs, nextObsReturn, finishSolving, SvWake
<1>3. CASE WkJoin
    BY <1>3 DEF WkJoin
<1>4. CASE renderCancelButton \/ cancel \/ wakeQueues \/ gcClosingTasks \/ EraseTask
    BY <1>4 DEF renderCancelButton, cancel, wakeQueues, gcClosingTasks, EraseTask
<1>5. CASE Erased \/ UNCHANGED vars
    BY <1>5 DEF Erased, vars, pcs
<1>6. QED
    BY <1>1, <1>2, <1>3, <1>4, <1>5 DEF Next

\* What the threads deliver together is what EpochStream promises: the kept epochs, in
\* file order, each once, within the limit, and only while the run lasts.
THEOREM PipelineImplementsStream == Spec => ImplementsEpochStream
<1>1. Init => Stream!Init
    BY DEF Init, Stream!Init
<1>2. IInv /\ [Next]_vars => [Stream!Next]_Stream!vars
    BY CommitDelivers, StartStarts, EndEnds, OtherStepsStutter
<1>3. QED
    BY <1>1, <1>2, PipelineInvariant, PTL DEF Spec, ImplementsEpochStream, Stream!Spec

-----------------------------------------------------------------------------
(* RtkPipeline. *)

Wanted == Kept \cap Solvable
RtkCommitted == {rtkEpochs[i] : i \in DOMAIN rtkEpochs}
RtkQueued == {pairQueue[i] : i \in DOMAIN pairQueue}

RtkRdSpace == {"space", "spaceSleep", "spaceWait"}
RtkRdEmpty == {"open", "next", "pushed"}
RtkRdQuit == {"end", "wake", "leave", "exit"}
RtkSvWaiting == {"take", "takeSleep", "takeWait"}
RtkSvHolding == {"popped", "solve"}
RtkSvQuit == {"finish", "wake", "exit"}

RtkExcused == rtkStop \/ rtkEpochLimitReached \/ rtkHasError

\* The worker outlives both threads.
RtkLifetimes == rtkWk = "over" => rtkRd = "exit" /\ rtkSv = "exit"

\* The reader lets go of the pair in its hand only when the run is cut short.
RtkLetGo == rtkRd \in RtkRdSpace \/ (rtkRd \notin RtkRdEmpty /\ RtkExcused)

\* The queue holds, in order, every kept pair read and not yet taken.
RtkQueueOrder ==
  /\ \A i, j \in DOMAIN pairQueue : i < j => pairQueue[i] < pairQueue[j]
  /\ \A k \in RtkQueued : rtkItem < k /\ k <= rtkFed /\ (rtkRd \in RtkRdSpace => k # rtkFed)
  /\ \A k \in Kept : rtkItem < k /\ k <= rtkFed
                        => k \in RtkQueued \/ (k = rtkFed /\ RtkLetGo)

RtkReaderHand == rtkItem <= rtkFed
                 /\ (rtkRd \in RtkRdSpace => rtkFed \in Kept /\ rtkItem < rtkFed)

\* Every pair wanted up to the one in the solver's hand is committed, in order.
RtkSolverHand ==
  /\ \A k \in RtkCommitted : k <= rtkItem
  /\ \A i, j \in DOMAIN rtkEpochs : i < j => rtkEpochs[i] < rtkEpochs[j]
  /\ \A k \in Wanted : k < rtkItem => k \in RtkCommitted
  /\ rtkSv \in RtkSvHolding => rtkItem \in Kept /\ rtkItem \notin RtkCommitted
  /\ rtkSv \in RtkSvWaiting /\ rtkItem \in Wanted => rtkItem \in RtkCommitted
  /\ rtkSv \in RtkSvQuit /\ ~RtkExcused /\ rtkItem \in Wanted => rtkItem \in RtkCommitted

RtkWithinLimit == /\ rtkMaxEpochs > 0 => Len(rtkEpochs) <= rtkMaxEpochs
                  /\ rtkSv = "solve" => ~rtkEpochLimitReached

RtkFlagsTell == /\ rtkReadDone => rtkRd \in {"failErr", "wake", "leave", "exit"}
                /\ rtkHasError => rtkRd \in {"wake", "leave", "exit"}
                /\ rtkSolvingDone => rtkSv \in {"wake", "exit"}

\* Why a thread has left its loop.
RtkReasonsKept ==
  /\ rtkRd \in RtkRdQuit => RtkExcused \/ rtkCut # "none" \/ rtkFed = NumPairs
  /\ rtkSv \in RtkSvQuit => RtkExcused \/ (rtkReadDone /\ pairQueue = <<>>)

RtkIInv == /\ RtkTypeOK /\ RtkLifetimes /\ RtkQueueOrder /\ RtkReaderHand
           /\ RtkSolverHand /\ RtkWithinLimit /\ RtkFlagsTell /\ RtkReasonsKept

USE RtkAssumption

\* What the definitions of committed and queued pairs depend on.
LEMMA SamePairs == /\ rtkEpochs' = rtkEpochs => RtkCommitted' = RtkCommitted
                   /\ pairQueue' = pairQueue => RtkQueued' = RtkQueued
BY DEF RtkCommitted, RtkQueued

\* A pair pushed is queued after all others; the pair taken was the first.
LEMMA PushQueues ==
  ASSUME pairQueue \in Seq(Kept), NEW k \in Kept, pairQueue' = Append(pairQueue, k)
  PROVE  RtkQueued' = RtkQueued \cup {k}
<1>1. /\ DOMAIN pairQueue' = 1 .. Len(pairQueue) + 1
      /\ DOMAIN pairQueue = 1 .. Len(pairQueue)
      /\ \A i \in 1 .. Len(pairQueue) : pairQueue'[i] = pairQueue[i]
      /\ pairQueue'[Len(pairQueue) + 1] = k
    OBVIOUS
<1>2. 1 .. Len(pairQueue) + 1 = (1 .. Len(pairQueue)) \cup {Len(pairQueue) + 1}
    OBVIOUS
<1>3. QED
    BY <1>1, <1>2 DEF RtkQueued

LEMMA TakeFirst ==
  ASSUME pairQueue \in Seq(Kept), pairQueue # <<>>, pairQueue' = Tail(pairQueue)
  PROVE  /\ pairQueue' \in Seq(Kept) /\ Len(pairQueue') = Len(pairQueue) - 1
         /\ Head(pairQueue) = pairQueue[1] /\ 1 \in DOMAIN pairQueue
         /\ \A i \in DOMAIN pairQueue' : /\ i + 1 \in DOMAIN pairQueue
                                        /\ pairQueue'[i] = pairQueue[i + 1]
         /\ RtkQueued = RtkQueued' \cup {pairQueue[1]}
<1>1. /\ pairQueue' \in Seq(Kept) /\ Len(pairQueue') = Len(pairQueue) - 1
      /\ Head(pairQueue) = pairQueue[1] /\ 1 \in DOMAIN pairQueue
      /\ DOMAIN pairQueue' = 1 .. Len(pairQueue) - 1 /\ DOMAIN pairQueue = 1 .. Len(pairQueue)
    OBVIOUS
<1>2. ASSUME NEW i \in DOMAIN pairQueue'
      PROVE  i + 1 \in DOMAIN pairQueue /\ pairQueue'[i] = pairQueue[i + 1]
    BY <1>1
<1>3. ASSUME NEW i \in DOMAIN pairQueue, i # 1 PROVE pairQueue[i] \in RtkQueued'
  <2>1. i - 1 \in DOMAIN pairQueue' /\ (i - 1) + 1 = i
      BY <1>1, <1>3
  <2>2. QED
      BY <1>2, <2>1 DEF RtkQueued
<1>4. RtkQueued' \subseteq RtkQueued
    BY <1>2 DEF RtkQueued
<1>5. RtkQueued \subseteq RtkQueued' \cup {pairQueue[1]}
    BY <1>3 DEF RtkQueued
<1>6. pairQueue[1] \in RtkQueued
    BY <1>1 DEF RtkQueued
<1>7. QED
    BY <1>1, <1>2, <1>4, <1>5, <1>6

\* A commitment adds just that pair.
LEMMA CommitAdds ==
  ASSUME rtkEpochs \in Seq(Wanted), NEW k \in Wanted, rtkEpochs' = Append(rtkEpochs, k)
  PROVE  RtkCommitted' = RtkCommitted \cup {k}
<1>1. /\ DOMAIN rtkEpochs' = 1 .. Len(rtkEpochs) + 1
      /\ DOMAIN rtkEpochs = 1 .. Len(rtkEpochs)
      /\ \A i \in 1 .. Len(rtkEpochs) : rtkEpochs'[i] = rtkEpochs[i]
      /\ rtkEpochs'[Len(rtkEpochs) + 1] = k
    OBVIOUS
<1>2. 1 .. Len(rtkEpochs) + 1 = (1 .. Len(rtkEpochs)) \cup {Len(rtkEpochs) + 1}
    OBVIOUS
<1>3. QED
    BY <1>1, <1>2 DEF RtkCommitted

\* Pairs are numbers, in the queue as among the results.
LEMMA PairsAreNumbers ==
  ASSUME rtkEpochs \in Seq(Wanted), pairQueue \in Seq(Kept)
  PROVE  RtkCommitted \subseteq Nat /\ RtkQueued \subseteq Kept /\ Kept \subseteq Nat
<1>1. /\ \A i \in DOMAIN rtkEpochs : rtkEpochs[i] \in Wanted
      /\ \A i \in DOMAIN pairQueue : pairQueue[i] \in Kept
    OBVIOUS
<1>2. Kept \subseteq Nat
    OBVIOUS
<1>3. RtkCommitted \subseteq Wanted /\ RtkQueued \subseteq Kept
    BY <1>1 DEF RtkCommitted, RtkQueued
<1>4. QED
    BY <1>2, <1>3 DEF Wanted

LEMMA RtkStepKeepsIInv == RtkIInv /\ [RtkNext]_rtkRunVars => RtkIInv'
<1> SUFFICES ASSUME RtkIInv, [RtkNext]_rtkRunVars PROVE RtkIInv'
    OBVIOUS
<1> USE SamePairs
    DEF RtkIInv, RtkTypeOK, RtkLifetimes, RtkQueueOrder, RtkReaderHand, RtkSolverHand,
        RtkWithinLimit, RtkFlagsTell, RtkReasonsKept, RtkExcused, RtkLetGo, RtkRdSpace,
        RtkRdEmpty, RtkRdQuit, RtkSvWaiting, RtkSvHolding, RtkSvQuit, rtkEpochLimitReached,
        RtkRdAwake, RtkSvAwake, RtkRdStep, RtkSvStep, rtkSettings, rtkFlags, rtkData, Wanted
<1>1. CASE rtkOpenDual
    BY <1>1 DEF rtkOpenDual
<1>2. CASE PairLoop
    BY <1>2 DEF PairLoop, rtkShouldStop
<1>3. CASE PairNext
  <2>1. RtkTypeOK'
      BY <1>3 DEF PairNext
  <2>2. RtkLifetimes'
      BY <1>3 DEF PairNext
  <2>3. RtkQueueOrder'
    <3>1. RtkQueued \subseteq Kept /\ Kept \subseteq Nat
        BY PairsAreNumbers
    <3>2. pairQueue' = pairQueue /\ RtkQueued' = RtkQueued /\ rtkItem' = rtkItem
        BY <1>3 DEF PairNext
    <3>3. CASE rtkFed' = rtkFed
      <4>1. rtkRd' \in {"end", "fail"}
          BY <1>3, <3>3 DEF PairNext
      <4>2. QED
          BY <1>3, <3>2, <3>3, <4>1 DEF PairNext
    <3>4. CASE rtkFed' = rtkFed + 1
      <4>1. rtkRd' = IF rtkFed' \in Kept THEN "space" ELSE "loop"
          BY <1>3, <3>4 DEF PairNext
      <4>2. ~RtkLetGo
          BY <1>3 DEF PairNext
      <4>3. \A k \in RtkQueued : rtkItem < k /\ k < rtkFed'
          BY <3>1, <3>4
      <4>4. ASSUME NEW k \in Kept, rtkItem < k, k <= rtkFed', k # rtkFed' PROVE k \in RtkQueued
        <5>1. k <= rtkFed
            BY <3>1, <3>4, <4>4
        <5>2. QED
            BY <4>2, <4>4, <5>1
      <4>5. rtkFed' \in Kept => RtkLetGo'
          BY <4>1
      <4>6. \A k \in RtkQueued' : /\ rtkItem' < k /\ k <= rtkFed' /\ k # rtkFed'
        <5>1. rtkFed' \in Nat
            BY <3>4
        <5>2. QED
            BY <3>1, <3>2, <4>3, <5>1
      <4>7. QED
          BY <3>2, <4>4, <4>5, <4>6
    <3>5. QED
        BY <1>3, <3>3, <3>4 DEF PairNext
  <2>4. RtkReaderHand'
      BY <1>3 DEF PairNext
  <2>5. RtkSolverHand'
      BY <1>3 DEF PairNext
  <2>6. RtkWithinLimit'
      BY <1>3 DEF PairNext
  <2>7. RtkFlagsTell'
      BY <1>3 DEF PairNext
  <2>8. RtkReasonsKept'
      BY <1>3 DEF PairNext
  <2>9. QED
      BY <2>1, <2>2, <2>3, <2>4, <2>5, <2>6, <2>7, <2>8
<1>4. CASE PairBlocked
    BY <1>4 DEF PairBlocked, RtkSpaceOrQuit
<1>5. CASE PairSleep
    BY <1>5 DEF PairSleep
<1>6. CASE PairQuit
    BY <1>6 DEF PairQuit
<1>7. CASE PairPush
  <2>1. RtkTypeOK'
      BY <1>7 DEF PairPush, RtkSpaceOrQuit
  <2>2. RtkLifetimes'
      BY <1>7 DEF PairPush, RtkSpaceOrQuit
  <2>3. RtkQueueOrder'
    <3>1. /\ pairQueue' = Append(pairQueue, rtkFed) /\ rtkFed \in Kept /\ rtkItem < rtkFed
          /\ rtkFed' = rtkFed /\ rtkItem' = rtkItem /\ rtkRd' = "pushed" /\ rtkRd = "space"
        BY <1>7 DEF PairPush
    <3>2. RtkQueued' = RtkQueued \cup {rtkFed}
        BY <3>1, PushQueues
    <3>3. RtkQueued \subseteq Kept /\ Kept \subseteq Nat
        BY PairsAreNumbers
    <3>4. \A k \in RtkQueued : k < rtkFed
        BY <3>1, <3>3
    <3>5. \A i \in DOMAIN pairQueue : pairQueue[i] \in RtkQueued
        BY DEF RtkQueued
    <3>6. \A i, j \in DOMAIN pairQueue' : i < j => pairQueue'[i] < pairQueue'[j]
      <4> SUFFICES ASSUME NEW i \in 1 .. Len(pairQueue) + 1, NEW j \in 1 .. Len(pairQueue) + 1,
                          i < j
                   PROVE  pairQueue'[i] < pairQueue'[j]
          BY <3>1
      <4>1. i \in DOMAIN pairQueue /\ pairQueue'[i] = pairQueue[i]
          BY <3>1
      <4>2. CASE j = Len(pairQueue) + 1
          BY <3>1, <3>4, <3>5, <4>1, <4>2
      <4>3. CASE j \in 1 .. Len(pairQueue)
          BY <3>1, <4>1, <4>3
      <4>4. QED
          BY <4>2, <4>3, SMTT(30)
    <3>7. \A k \in RtkQueued' : rtkItem' < k /\ k <= rtkFed'
        BY <3>1, <3>2, <3>3
    <3>8. QED
        BY <3>1, <3>2, <3>6, <3>7
  <2>4. RtkReaderHand'
      BY <1>7 DEF PairPush, RtkSpaceOrQuit
  <2>5. RtkSolverHand'
      BY <1>7 DEF PairPush, RtkSpaceOrQuit
  <2>6. RtkWithinLimit'
      BY <1>7 DEF PairPush, RtkSpaceOrQuit
  <2>7. RtkFlagsTell'
      BY <1>7 DEF PairPush, RtkSpaceOrQuit
  <2>8. RtkReasonsKept'
      BY <1>7 DEF PairPush, RtkSpaceOrQuit
  <2>9. QED
      BY <2>1, <2>2, <2>3, <2>4, <2>5, <2>6, <2>7, <2>8
<1>8. CASE PairPushed
    BY <1>8 DEF PairPushed
<1>9. CASE ReadEnd
    BY <1>9 DEF ReadEnd
<1>10. CASE rtkFailRead
    BY <1>10 DEF rtkFailRead
<1>11. CASE RtkFailError
    BY <1>11 DEF RtkFailError
<1>12. CASE RtkRdWake
    BY <1>12 DEF RtkRdWake
<1>13. CASE RtkRdLeave
    BY <1>13 DEF RtkRdLeave
<1>14. CASE TakeBlocked
    BY <1>14 DEF TakeBlocked, TakeOrQuit
<1>15. CASE TakeSleep
    BY <1>15 DEF TakeSleep
<1>16. CASE TakeNone
    BY <1>16 DEF TakeNone
<1>17. CASE RtkTake
  <2> DEFINE k1 == pairQueue[1]
  <2>10. /\ rtkItem' = k1 /\ pairQueue' = Tail(pairQueue) /\ pairQueue # <<>>
         /\ rtkEpochs' = rtkEpochs /\ rtkFed' = rtkFed /\ rtkRd' = rtkRd
         /\ rtkSv = "take" /\ rtkSv' = "popped"
         /\ rtkStop' = rtkStop /\ rtkHasError' = rtkHasError /\ rtkMaxEpochs' = rtkMaxEpochs
      BY <1>17, TakeFirst DEF RtkTake
  <2>11. /\ pairQueue' \in Seq(Kept) /\ Len(pairQueue') = Len(pairQueue) - 1
         /\ k1 \in RtkQueued /\ 1 \in DOMAIN pairQueue
         /\ \A i \in DOMAIN pairQueue' : /\ i + 1 \in DOMAIN pairQueue
                                        /\ pairQueue'[i] = pairQueue[i + 1]
         /\ RtkQueued = RtkQueued' \cup {k1}
      BY <2>10, TakeFirst DEF RtkQueued
  <2>12. k1 \in Kept /\ rtkItem < k1 /\ k1 <= rtkFed /\ (rtkRd \in RtkRdSpace => k1 # rtkFed)
      BY <2>11, PairsAreNumbers
  <2>13. \A k \in RtkQueued' : k1 < k
    <3> SUFFICES ASSUME NEW i \in DOMAIN pairQueue' PROVE k1 < pairQueue'[i]
        BY DEF RtkQueued
    <3>1. i + 1 \in DOMAIN pairQueue /\ pairQueue'[i] = pairQueue[i + 1] /\ 1 < i + 1
        BY <2>11
    <3>2. QED
        BY <2>11, <3>1
  <2> HIDE DEF k1
  <2>14. Kept \subseteq Nat /\ k1 \in Nat /\ k1 \in 1 .. NumPairs
      BY <2>12, PairsAreNumbers
  <2>1. RtkTypeOK'
    <3>1. rtkItem' \in 0 .. NumPairs
        BY <2>10, <2>14
    <3>4. Len(pairQueue') <= RtkQueueDepth
      <4>1. Len(pairQueue) \in Nat /\ Len(pairQueue) <= RtkQueueDepth
          OBVIOUS
      <4>2. QED
          BY <2>11, <4>1
    <3>2. /\ UNCHANGED <<rtkMaxEpochs, rtkTimed, rtkReadDone, rtkSolvingDone, rtkStop, rtkHasError, pairMtx,
                       rtkFed, rtkCut, rtkEpochs, rtkRd, rtkWk, rtkUi>>
          /\ rtkSv' = "popped"
        BY <1>17 DEF RtkTake
    <3>3. QED
        BY <2>11, <3>1, <3>2, <3>4
  <2>2. RtkLifetimes'
      BY <1>17 DEF RtkTake
  <2>3. RtkQueueOrder'
    <3>1. \A i, j \in DOMAIN pairQueue' : i < j => pairQueue'[i] < pairQueue'[j]
      <4> SUFFICES ASSUME NEW i \in DOMAIN pairQueue', NEW j \in DOMAIN pairQueue', i < j
                   PROVE  pairQueue'[i] < pairQueue'[j]
          OBVIOUS
      <4>1. i + 1 < j + 1
          BY <2>11
      <4>2. QED
          BY <2>11, <4>1
    <3>2. ASSUME NEW k \in Kept, rtkItem' < k, k <= rtkFed'
          PROVE  k \in RtkQueued' \/ (k = rtkFed' /\ RtkLetGo')
      <4>1. rtkItem < k /\ k <= rtkFed /\ k # k1
          BY <2>10, <2>12, <2>14, <3>2
      <4>2. QED
          BY <2>10, <2>11, <4>1
    <3>3. QED
        BY <2>10, <2>11, <2>13, <3>1, <3>2
  <2>4. RtkReaderHand'
      BY <2>10, <2>12, <2>14
  <2>5. RtkSolverHand'
    <3>1. RtkCommitted' = RtkCommitted /\ RtkCommitted \subseteq Nat
        BY <2>10, PairsAreNumbers
    <3>2. \A k \in RtkCommitted : k < k1
        BY <2>12, <2>14, <3>1
    <3>3. ASSUME NEW k \in Wanted, k < k1 PROVE k \in RtkCommitted
      <4>1. CASE rtkItem < k
        <5>1. k <= rtkFed /\ k # rtkFed
            BY <2>12, <2>14, <3>3
        <5>2. k \in RtkQueued
            BY <4>1, <5>1
        <5>3. QED
            BY <2>11, <2>13, <2>14, <3>3, <5>2
      <4>2. CASE k <= rtkItem
          BY <2>10, <4>2
      <4>3. QED
          BY <4>1, <4>2
    <3>4. QED
        BY <2>10, <2>12, <2>14, <3>1, <3>2, <3>3
  <2>6. RtkWithinLimit'
      BY <1>17 DEF RtkTake
  <2>7. RtkFlagsTell'
      BY <1>17 DEF RtkTake
  <2>8. RtkReasonsKept'
      BY <1>17 DEF RtkTake
  <2>9. QED
      BY <2>1, <2>2, <2>3, <2>4, <2>5, <2>6, <2>7, <2>8
<1>18. CASE Taken
    BY <1>18 DEF Taken
<1>19. CASE solvePair
  <2>1. RtkTypeOK'
      BY <1>19 DEF solvePair
  <2>2. RtkLifetimes'
      BY <1>19 DEF solvePair
  <2>3. RtkQueueOrder'
      BY <1>19 DEF solvePair
  <2>4. RtkReaderHand'
      BY <1>19 DEF solvePair
  <2>5. RtkSolverHand'
    <3>1. /\ rtkItem' = rtkItem /\ rtkSv = "solve" /\ rtkSv' = "take"
          /\ rtkItem \in Kept /\ rtkItem \notin RtkCommitted
        BY <1>19 DEF solvePair
    <3>2. CASE rtkItem \in Solvable
      <4>1. rtkEpochs' = Append(rtkEpochs, rtkItem) /\ rtkItem \in Wanted
          BY <1>19, <3>1, <3>2 DEF solvePair
      <4>2. RtkCommitted' = RtkCommitted \cup {rtkItem}
          BY <4>1, CommitAdds
      <4>3. \A i, j \in DOMAIN rtkEpochs' : i < j => rtkEpochs'[i] < rtkEpochs'[j]
        <5> SUFFICES ASSUME NEW i \in 1 .. Len(rtkEpochs) + 1, NEW j \in 1 .. Len(rtkEpochs) + 1,
                            i < j
                     PROVE  rtkEpochs'[i] < rtkEpochs'[j]
            BY <4>1
        <5>1. i \in 1 .. Len(rtkEpochs) /\ rtkEpochs'[i] = rtkEpochs[i]
            BY <4>1
        <5>2. rtkEpochs[i] \in RtkCommitted /\ rtkEpochs[i] # rtkItem /\ rtkEpochs[i] <= rtkItem
            BY <3>1, <5>1 DEF RtkCommitted
        <5>3. rtkEpochs[i] < rtkItem
            BY <5>2, PairsAreNumbers
        <5>4. CASE j = Len(rtkEpochs) + 1
            BY <4>1, <5>1, <5>3, <5>4
        <5>5. CASE j \in 1 .. Len(rtkEpochs)
            BY <4>1, <5>1, <5>5
        <5>6. QED
            BY <5>4, <5>5
      <4>4. QED
          BY <3>1, <4>2, <4>3
    <3>3. CASE rtkItem \notin Solvable
      <4>1. rtkEpochs' = rtkEpochs
          BY <1>19, <3>3 DEF solvePair
      <4>2. QED
          BY <3>1, <3>3, <4>1
    <3>4. QED
        BY <3>2, <3>3
  <2>6. RtkWithinLimit'
      BY <1>19 DEF solvePair
  <2>7. RtkFlagsTell'
      BY <1>19 DEF solvePair
  <2>8. RtkReasonsKept'
      BY <1>19 DEF solvePair
  <2>9. QED
      BY <2>1, <2>2, <2>3, <2>4, <2>5, <2>6, <2>7, <2>8
<1>20. CASE rtkFinishSolving
    BY <1>20 DEF rtkFinishSolving
<1>21. CASE RtkSvWake
    BY <1>21 DEF RtkSvWake
<1>22. CASE RtkWkJoin
    BY <1>22 DEF RtkWkJoin
<1>23. CASE rtkCancel
    BY <1>23 DEF rtkCancel
<1>24. CASE rtkWakeQueues
    BY <1>24 DEF rtkWakeQueues
<1>25. CASE RtkOver
    BY <1>25 DEF RtkOver, rtkRunVars
<1>26. CASE UNCHANGED rtkRunVars
    BY <1>26 DEF rtkRunVars
<1>27. QED
    BY <1>1, <1>2, <1>3, <1>4, <1>5, <1>6, <1>7, <1>8, <1>9, <1>10, <1>11, <1>12, <1>13, <1>14, <1>15, <1>16, <1>17, <1>18, <1>19, <1>20, <1>21, <1>22, <1>23, <1>24, <1>25, <1>26 DEF RtkNext, RtkRdNext, RtkSvNext

LEMMA RtkInitIInv == RtkInit => RtkIInv
<1> SUFFICES ASSUME RtkInit PROVE RtkIInv
    OBVIOUS
<1>1. RtkTypeOK
  <2>1. rtkReadDone \in BOOLEAN /\ rtkSolvingDone \in BOOLEAN /\ rtkStop \in BOOLEAN
        /\ rtkHasError \in BOOLEAN
      BY Zenon DEF RtkInit
  <2>2. QED
      BY <2>1 DEF RtkInit, RtkTypeOK
<1>2. RtkCommitted = {} /\ RtkQueued = {} /\ DOMAIN rtkEpochs = {} /\ DOMAIN pairQueue = {}
    BY DEF RtkInit, RtkCommitted, RtkQueued
<1>3. RtkLifetimes /\ RtkReaderHand /\ RtkFlagsTell /\ RtkReasonsKept
    BY DEF RtkInit, RtkLifetimes, RtkReaderHand, RtkFlagsTell, RtkReasonsKept, RtkRdSpace,
           RtkRdQuit, RtkSvQuit
<1>4. RtkQueueOrder
    BY <1>2 DEF RtkInit, RtkQueueOrder
<1>5. RtkSolverHand /\ RtkWithinLimit
    BY <1>2 DEF RtkInit, RtkSolverHand, RtkSvHolding, RtkSvQuit, RtkSvWaiting, RtkWithinLimit,
                Wanted
<1>6. QED
    BY <1>1, <1>3, <1>4, <1>5 DEF RtkIInv

\* What each thread may rely on at each point of the run: no pair is lost between
\* reader and solver, and neither leaves its loop without a reason.
THEOREM RtkPipelineInvariant == RtkSpec => []RtkIInv
BY RtkInitIInv, RtkStepKeepsIInv, PTL DEF RtkSpec

\* Every variable keeps its type, and pairQueue its bound, whatever the constants.
THEOREM RtkPipelineTypeOK == RtkSpec => []RtkTypeOK
<1>1. RtkIInv => RtkTypeOK
    BY DEF RtkIInv
<1>2. QED
    BY <1>1, RtkPipelineInvariant, PTL

\* A run that misses a kept pair with a solution was stopped, limited, or shows an error,
\* or its reading was cut by a damaged RINEX file or the elapse of realtimeSec.
THEOREM RtkShortRunExplained == RtkSpec => []RtkShortRunIsExplained
<1>1. RtkIInv => RtkShortRunIsExplained
  <2> SUFFICES ASSUME RtkIInv, rtkWk = "over", ~RtkExcused, rtkCut = "none", NEW k \in Wanted
               PROVE  k \in RtkCommitted
      BY DEF RtkShortRunIsExplained, RtkCommitted, RtkExcused, Wanted
  <2>1. rtkRd = "exit" /\ rtkSv = "exit"
      BY DEF RtkIInv, RtkLifetimes
  <2>2. rtkFed = NumPairs /\ pairQueue = <<>>
      BY <2>1 DEF RtkIInv, RtkReasonsKept, RtkRdQuit, RtkSvQuit
  <2>3. k \in Kept /\ k \in Nat /\ k <= rtkFed /\ rtkItem \in Nat
      BY <2>2 DEF RtkIInv, RtkTypeOK, Wanted
  <2>4. RtkQueued = {} /\ ~RtkLetGo
      BY <2>1, <2>2 DEF RtkQueued, RtkLetGo, RtkRdSpace
  <2>5. k <= rtkItem
      BY <2>3, <2>4 DEF RtkIInv, RtkQueueOrder
  <2>6. QED
      BY <2>1, <2>3, <2>5 DEF RtkIInv, RtkSolverHand, RtkSvQuit
<1>2. QED
    BY <1>1, RtkPipelineInvariant, PTL

-----------------------------------------------------------------------------
(* The pipeline implements EpochStream. *)

LEMMA SolveDelivers ==
  RtkIInv /\ solvePair => [RtkStream!Next]_<<rtkEpochs, rtkMaxEpochs, rtkWk>>
<1> SUFFICES ASSUME RtkIInv, solvePair
             PROVE  [RtkStream!Next]_<<rtkEpochs, rtkMaxEpochs, rtkWk>>
    OBVIOUS
<1>1. rtkSv = "solve" /\ rtkWk' = rtkWk /\ rtkMaxEpochs' = rtkMaxEpochs
    BY DEF solvePair, RtkSvStep, rtkSettings
<1>2. rtkWk = "run"
    BY <1>1 DEF RtkIInv, RtkTypeOK, RtkLifetimes
<1>3. CASE rtkItem \in Solvable
  <2>1. rtkEpochs' = Append(rtkEpochs, rtkItem)
      BY <1>3 DEF solvePair
  <2>2. /\ rtkItem \in Wanted /\ rtkItem \notin RtkCommitted
        /\ \A k \in RtkCommitted : k <= rtkItem
        /\ \A k \in Wanted : k < rtkItem => k \in RtkCommitted
      BY <1>1, <1>3 DEF RtkIInv, RtkSolverHand, RtkSvHolding, Wanted
  <2>3. RtkCommitted \subseteq Nat /\ rtkItem \in Nat
      BY PairsAreNumbers DEF RtkIInv, RtkTypeOK, Wanted
  <2>4. RtkStream!Delivered = RtkCommitted
      BY DEF RtkStream!Delivered, RtkCommitted
  <2>5. RtkStream!IsNext(rtkItem)
      BY <2>2, <2>3, <2>4 DEF RtkStream!IsNext, Wanted
  <2>6. rtkMaxEpochs = 0 \/ Len(rtkEpochs) < rtkMaxEpochs
      BY <1>1 DEF RtkIInv, RtkTypeOK, RtkWithinLimit, rtkEpochLimitReached
  <2>7. RtkStream!Deliver(rtkItem)
      BY <1>1, <1>2, <2>1, <2>5, <2>6 DEF RtkStream!Deliver
  <2>8. QED
      BY <2>2, <2>7 DEF RtkStream!Next, Wanted
<1>4. CASE rtkItem \notin Solvable
    BY <1>1, <1>4 DEF solvePair
<1>5. QED
    BY <1>3, <1>4

LEMMA JoinEnds == RtkWkJoin => RtkStream!Next
<1> SUFFICES ASSUME RtkWkJoin PROVE RtkStream!End
    BY DEF RtkStream!Next
<1>1. rtkWk = "run" /\ rtkWk' = "over" /\ rtkEpochs' = rtkEpochs /\ rtkMaxEpochs' = rtkMaxEpochs
    BY DEF RtkWkJoin, rtkData, rtkSettings
<1>2. QED
    BY <1>1 DEF RtkStream!End

\* Every other step leaves results, limit and phase alone.
LEMMA RtkOtherStepsStutter ==
  [RtkNext]_rtkRunVars => solvePair \/ RtkWkJoin \/ UNCHANGED <<rtkEpochs, rtkMaxEpochs, rtkWk>>
<1> SUFFICES ASSUME [RtkNext]_rtkRunVars, ~solvePair, ~RtkWkJoin
             PROVE  UNCHANGED <<rtkEpochs, rtkMaxEpochs, rtkWk>>
    OBVIOUS
<1> USE DEF rtkData, rtkSettings
<1>1. CASE RtkRdNext
    BY <1>1 DEF RtkRdNext, RtkRdStep, rtkOpenDual, PairLoop, PairNext, PairBlocked, PairSleep,
                PairQuit, PairPush, PairPushed, ReadEnd, rtkFailRead, RtkFailError, RtkRdWake,
                RtkRdLeave
<1>2. CASE RtkSvNext
    BY <1>2 DEF RtkSvNext, RtkSvStep, TakeBlocked, TakeSleep, TakeNone, RtkTake, Taken,
                rtkFinishSolving, RtkSvWake
<1>3. CASE rtkCancel \/ rtkWakeQueues
    BY <1>3 DEF rtkCancel, rtkWakeQueues
<1>4. CASE RtkOver \/ UNCHANGED rtkRunVars
    BY <1>4 DEF RtkOver, rtkRunVars
<1>5. QED
    BY <1>1, <1>2, <1>3, <1>4 DEF RtkNext

\* What reader, queue and solver deliver together is what EpochStream promises: the kept
\* pairs with a solution, in order, each once, within the limit, only while the run lasts.
THEOREM RtkPipelineImplementsStream == RtkSpec => RtkImplementsStream
<1>1. RtkIInv /\ [RtkNext]_rtkRunVars
        => [RtkStream!Next]_<<rtkEpochs, rtkMaxEpochs, rtkWk>>
    BY SolveDelivers, JoinEnds, RtkOtherStepsStutter
<1>2. QED
    BY <1>1, RtkPipelineInvariant, PTL DEF RtkSpec, RtkImplementsStream

-----------------------------------------------------------------------------
(* The least of some numbers. *)

LEMMA LeastNat ==
  ASSUME NEW S \in SUBSET Nat, S # {}
  PROVE  \E x \in S : \A y \in S : x <= y
<1> DEFINE R == OpToRel(<, Nat)
<1>1. IsWellFoundedOn(R, Nat)
    BY NatLessThanWellFounded
<1>2. PICK x \in S : \A y \in S : ~(<<y, x>> \in R)
  <2> HIDE DEF R
  <2>1. QED
      BY <1>1, WFMin
<1>3. \A y \in S : ~(y < x)
    BY <1>2 DEF OpToRel
<1>4. QED
    BY <1>3

\* And the greatest, of numbers up to n.
LEMMA GreatestNat ==
  ASSUME NEW n \in Nat, NEW S \in SUBSET (0 .. n), S # {}
  PROVE  \E x \in S : \A y \in S : y <= x
<1> DEFINE T == {n - x : x \in S}
<1>1. \A x \in S : n - x \in Nat
    OBVIOUS
<1>nat. T \subseteq Nat
    BY <1>1, Zenon
<1>some. T # {}
    OBVIOUS
<1>2. PICK t \in T : \A u \in T : t <= u
  <2> HIDE DEF T
  <2>1. QED
      BY <1>nat, <1>some, LeastNat
<1>3. PICK x \in S : t = n - x
    OBVIOUS
<1>4. \A y \in S : n - x <= n - y
    BY <1>2, <1>3
<1>5. QED
    BY <1>4

-----------------------------------------------------------------------------
(* DualPair: the window. *)

LEMMA DeltasAreFinite ==
  ASSUME NEW s \in Seq(1 .. Week), NEW I, I \subseteq DOMAIN s
  PROVE  Cardinality(I) \in 0 .. Len(s)
<1>1. DOMAIN s = 1 .. Len(s) /\ Len(s) \in Nat
    OBVIOUS
<1>2. IsFiniteSet(1 .. Len(s)) /\ Cardinality(1 .. Len(s)) = Len(s)
  <2>1. 1 \in Int /\ Len(s) \in Int
      BY <1>1
  <2>2. /\ IsFiniteSet(1 .. Len(s))
        /\ Cardinality(1 .. Len(s)) = IF 1 > Len(s) THEN 0 ELSE Len(s) - 1 + 1
      BY <2>1, FS_Interval
  <2>3. QED
      BY <1>1, <2>2
<1>3. IsFiniteSet(I) /\ Cardinality(I) <= Len(s)
    BY <1>1, <1>2, FS_Subset
<1>4. QED
    BY <1>1, <1>3, FS_CardinalityType

\* The most frequent of some steps is one of them.
LEMMA ModeIsAStep ==
  ASSUME NEW s \in Seq(1 .. Week), s # <<>>
  PROVE  mode(s) \in Vals(s)
<1> DEFINE C == {Times(s, d) : d \in Vals(s)}
<1>1. Vals(s) # {} /\ Vals(s) \subseteq Nat
  <2>1. Len(s) \in Nat \ {0} /\ DOMAIN s = 1 .. Len(s) /\ \A i \in DOMAIN s : s[i] \in 1 .. Week
      BY DualPairAssumption
  <2>2. 1 .. Week \subseteq Nat
      BY DualPairAssumption
  <2>3. QED
      BY <2>1, <2>2 DEF Vals
<1>2. \A d \in Vals(s) : Times(s, d) \in 0 .. Len(s)
    BY DeltasAreFinite DEF Times
<1>3. C \in SUBSET (0 .. Len(s)) /\ C # {} /\ Len(s) \in Nat
    BY <1>1, <1>2
<1>4. PICK c \in C : \A e \in C : e <= c
  <2> HIDE DEF C
  <2>1. QED
      BY <1>3, GreatestNat
<1> DEFINE D == {d \in Vals(s) : Times(s, d) = c}
<1>5. D \in SUBSET Nat /\ D # {}
    BY <1>1
<1>6. PICK d \in D : \A e \in D : d <= e
  <2> HIDE DEF D
  <2>1. QED
      BY <1>5, LeastNat
<1>7. \A e \in Vals(s) \ {d} : \/ Times(s, e) < Times(s, d)
                               \/ Times(s, e) = Times(s, d) /\ d < e
  <2> TAKE e \in Vals(s) \ {d}
  <2>1. Times(s, e) \in Nat /\ Times(s, e) <= c /\ Times(s, d) = c /\ c \in Nat
      BY <1>2, <1>4, <1>6
  <2>2. Times(s, e) = c => d <= e
      BY <1>6
  <2>3. d \in Nat /\ e \in Nat /\ d # e
      BY <1>1, <1>6
  <2> HIDE DEF C, D
  <2>4. QED
      BY <2>1, <2>2, <2>3
<1>8. QED
    BY <1>6, <1>7 DEF mode

\* So is the one in the middle.
LEMMA MedianIsAStep ==
  ASSUME NEW s \in Seq(1 .. Week), s # <<>>
  PROVE  median(s) \in Vals(s)
<1> DEFINE Below(d) == {i \in DOMAIN s : s[i] < d}
           UpTo(d) == {i \in DOMAIN s : s[i] <= d}
           D == {d \in Vals(s) : Cardinality(UpTo(d)) > Len(s) \div 2}
<1>1. /\ Vals(s) # {} /\ Vals(s) \in SUBSET (0 .. Week) /\ Len(s) \in Nat \ {0}
      /\ DOMAIN s = 1 .. Len(s) /\ \A i \in DOMAIN s : s[i] \in Vals(s)
  <2>1. Len(s) \in Nat \ {0} /\ DOMAIN s = 1 .. Len(s) /\ 1 \in DOMAIN s
      OBVIOUS
  <2>2. \A i \in DOMAIN s : s[i] \in 1 .. Week
    <3>1. PICK W : W = 1 .. Week
        OBVIOUS
    <3>2. s \in Seq(W)
        BY <3>1
    <3>3. \A i \in DOMAIN s : s[i] \in W
        BY <3>2
    <3>4. QED
        BY <3>1, <3>3
  <2>3. Vals(s) # {} /\ \A i \in DOMAIN s : s[i] \in Vals(s)
      BY <2>1 DEF Vals
  <2>4. Vals(s) \in SUBSET (0 .. Week)
      BY <2>2, DualPairAssumption DEF Vals
  <2>5. QED
      BY <2>1, <2>3, <2>4
<1>2. Len(s) \div 2 \in Nat /\ Len(s) > Len(s) \div 2
    BY <1>1
<1>3. PICK top \in Vals(s) : \A e \in Vals(s) : e <= top
    BY <1>1, GreatestNat, DualPairAssumption
<1>4. top \in D
  <2>1. UpTo(top) = 1 .. Len(s)
      BY <1>1, <1>3
  <2>2. Cardinality(1 .. Len(s)) = Len(s)
      BY <1>1, FS_Interval
  <2>3. QED
      BY <1>2, <2>1, <2>2
<1>5. D \subseteq Vals(s) /\ D # {}
    BY <1>4, Zenon
<1>6. PICK d \in D : \A e \in D : d <= e
  <2> HIDE DEF D
  <2>1. D \in SUBSET Nat
      BY <1>1, <1>5
  <2>2. QED
      BY <1>5, <2>1, LeastNat
<1>7. Cardinality(Below(d)) <= Len(s) \div 2
  <2> DEFINE L == {e \in Vals(s) : e < d}
  <2>1. CASE L = {}
    <3>1. Below(d) = {}
        BY <1>1, <2>1
    <3>2. Cardinality(Below(d)) = 0
        BY <3>1, FS_EmptySet, Zenon
    <3> HIDE DEF Below
    <3>3. QED
        BY <1>2, <3>2
  <2>2. CASE L # {}
    <3>1. L \in SUBSET (0 .. Week)
        BY <1>1
    <3>2. PICK e \in L : \A f \in L : f <= e
      <4> HIDE DEF L
      <4>1. QED
          BY <2>2, <3>1, GreatestNat, DualPairAssumption
    <3>3. e \notin D
      <4>1. e \in Nat /\ d \in Nat /\ e < d
          BY <1>1, <1>5, <1>6, <3>2
      <4> HIDE DEF D
      <4>2. QED
          BY <1>6, <4>1
    <3>4. Cardinality(UpTo(e)) \in 0 .. Len(s)
        BY DeltasAreFinite
    <3>5. ~(Cardinality(UpTo(e)) > Len(s) \div 2)
        BY <3>2, <3>3, Zenon
    <3>upTo. Cardinality(UpTo(e)) <= Len(s) \div 2
      <4> HIDE DEF UpTo
      <4>1. QED
          BY <1>1, <1>2, <3>4, <3>5
    <3>6. Below(d) = UpTo(e)
        BY <1>1, <3>2
    <3>7. QED
        BY <3>upTo, <3>6
  <2>3. QED
      BY <2>1, <2>2
<1>8. QED
    BY <1>6, <1>7 DEF median

LEMMA IntervalRange ==
  ASSUME NEW iv \in Estimators, sampleInterval \in Nat
  PROVE  /\ interval(iv) \in Nat
         /\ sampleInterval = 0 => interval(iv) \in {0} \cup Vals(iv.deltas)
<1>1. iv.deltas \in Seq(1 .. Week)
    BY DEF Estimators
<1>2. Vals(iv.deltas) \subseteq Nat
    BY <1>1, DualPairAssumption DEF Vals
<1>3. CASE sampleInterval > 0
    BY <1>3 DEF interval
<1>4. CASE sampleInterval = 0 /\ Len(iv.deltas) < kMinSamples
    BY <1>4 DEF interval
<1>5. CASE sampleInterval = 0 /\ ~(Len(iv.deltas) < kMinSamples)
  <2>1. iv.deltas # <<>>
      BY <1>1, <1>5, DualPairAssumption
  <2>2. mode(iv.deltas) \in Vals(iv.deltas) /\ median(iv.deltas) \in Vals(iv.deltas)
      BY <1>1, <2>1, ModeIsAStep, MedianIsAStep
  <2>3. QED
      BY <1>2, <1>5, <2>2 DEF interval
<1>6. QED
    BY <1>3, <1>4, <1>5
-----------------------------------------------------------------------------
(* DualPair: what is paired. *)

\* Before openDual returns nothing has been read.
UnreadUntilOpened ==
  ~opened => /\ basePos = 0 /\ roverPos = 0 /\ ~haveBase /\ ~haveRover /\ ~over /\ pairs = <<>>
             /\ ~baseIv.have /\ ~roverIv.have

\* An estimator has seen the head last; of an even file it knows the one step.
LearntFrom(file, pos, iv) ==
  /\ iv.have => pos > 0 /\ iv.last = file[pos] % Week
  /\ \A g \in 1 .. Week : Even(file, g) => Vals(iv.deltas) \subseteq {g}
WindowIsLearnt == LearntFrom(baseFile, basePos, baseIv) /\ LearntFrom(roverFile, roverPos, roverIv)

BaseAhead(i)  == i > basePos \/ (i = basePos /\ haveBase)
RoverAhead(j) == j > roverPos \/ (j = roverPos /\ haveRover)

\* The common epochs beyond what opening the files skipped, by their places in the files.
CommonAt ==
  {at \in (Skipped(baseFile, baseRinex, roverFile) + 1 .. Len(baseFile))
            \X (Skipped(roverFile, roverRinex, baseFile) + 1 .. Len(roverFile)) :
     baseFile[at[1]] = roverFile[at[2]]}

\* A common epoch that is not paired yet still lies ahead in both files, and next goes on.
CommonStillAhead ==
  EvenSpacing # {} /\ sampleInterval = 0 =>
    \A at \in CommonAt :
      \/ <<baseFile[at[1]], roverFile[at[2]]>> \in Vals(pairs)
      \/ BaseAhead(at[1]) /\ RoverAhead(at[2]) /\ ~over

DualIInv ==
  DualTypeOK /\ UnreadUntilOpened /\ WindowIsLearnt /\ CommonStillAhead /\ PairsAreNearest

LEMMA SkippedIsShort ==
  ASSUME NEW file \in Files, NEW rinex \in BOOLEAN, NEW other \in Files
  PROVE  Skipped(file, rinex, other) \in 0 .. Len(file)
<1> DEFINE late == {i \in 2 .. Len(file) : file[i] >= Head(other)}
<1>1. Len(file) \in Nat \ {0}
    BY DEF Files
<1>2. CASE late = {}
    BY <1>1, <1>2 DEF Skipped
<1>3. CASE late # {}
  <2>1. late \in SUBSET Nat
      BY <1>1
  <2>2. PICK i \in late : \A j \in late : i <= j
    <3> HIDE DEF late
    <3>1. QED
        BY <1>3, <2>1, LeastNat
  <2>3. (CHOOSE k \in late : \A j \in late : k <= j) \in late
      BY <2>2, Zenon
  <2>4. (CHOOSE k \in late : \A j \in late : k <= j) \in 2 .. Len(file)
      BY <2>3, Zenon
  <2> DEFINE first == CHOOSE k \in late : \A j \in late : k <= j
  <2>5. Skipped(file, rinex, other) = IF ~rinex THEN 0 ELSE first - 1
      BY <1>3 DEF Skipped
  <2> HIDE DEF first
  <2>6. first \in 2 .. Len(file)
      BY <2>4 DEF first
  <2>7. QED
      BY <1>1, <2>5, <2>6
<1>4. QED
    BY <1>2, <1>3

\* A delta is a positive step of less than a week.
LEMMA ObserveTypes ==
  ASSUME NEW iv \in Estimators, Len(iv.deltas) <= kWindow, NEW time \in Nat
  PROVE  LET new == observe(iv, time)
         IN  /\ new \in Estimators /\ Len(new.deltas) <= kWindow
             /\ new.have /\ new.last = time % Week
             /\ Vals(new.deltas) \subseteq
                  Vals(iv.deltas) \cup (IF iv.have /\ (time % Week) - iv.last > 0
                                        THEN {(time % Week) - iv.last} ELSE {})
<1> DEFINE sow == time % Week
           d == sow - iv.last
           longer == Append(iv.deltas, d)
<1>1. sow \in 0 .. Week - 1
    BY DualPairAssumption
<1>2. iv.last \in 0 .. Week - 1 /\ iv.deltas \in Seq(1 .. Week) /\ iv.have \in BOOLEAN
    BY DEF Estimators
<1>3. d > 0 => d \in 1 .. Week
    BY <1>1, <1>2, DualPairAssumption
<1> HIDE DEF d
<1>4. ASSUME d \in 1 .. Week
      PROVE  /\ Newest(longer, kWindow) \in Seq(1 .. Week)
             /\ Len(Newest(longer, kWindow)) <= kWindow
             /\ Vals(Newest(longer, kWindow)) \subseteq Vals(iv.deltas) \cup {d}
  <2>1. /\ longer \in Seq(1 .. Week) /\ Len(longer) = Len(iv.deltas) + 1 /\ longer # <<>>
        /\ Len(iv.deltas) \in Nat /\ DOMAIN iv.deltas = 1 .. Len(iv.deltas)
        /\ \A i \in 1 .. Len(longer) : longer[i] = IF i <= Len(iv.deltas) THEN iv.deltas[i] ELSE d
      BY <1>2, <1>4
  <2> HIDE DEF longer
  <2>2. Vals(longer) \subseteq Vals(iv.deltas) \cup {d}
      BY <2>1 DEF Vals
  <2>3. CASE Len(longer) > kWindow
    <3>1. /\ Tail(longer) \in Seq(1 .. Week) /\ Len(Tail(longer)) = Len(longer) - 1
          /\ \A i \in 1 .. Len(longer) - 1 : Tail(longer)[i] = longer[i + 1]
        BY <2>1
    <3>2. Vals(Tail(longer)) \subseteq Vals(longer)
        BY <2>1, <3>1 DEF Vals
    <3>3. Newest(longer, kWindow) = Tail(longer)
        BY <2>3 DEF Newest
    <3>4. Len(Tail(longer)) <= kWindow
        BY <2>1, <3>1, DualPairAssumption
    <3>5. QED
        BY <2>2, <3>1, <3>2, <3>3, <3>4
  <2>4. CASE ~(Len(longer) > kWindow)
      BY <2>1, <2>2, <2>4, DualPairAssumption DEF Newest
  <2>5. QED
      BY <2>3, <2>4
<1> HIDE DEF longer
<1> DEFINE deltas == IF iv.have /\ d > 0 /\ d < kMaxSaneGap THEN Newest(longer, kWindow)
                     ELSE iv.deltas
<1>5. observe(iv, time) = [have |-> TRUE, last |-> sow, deltas |-> deltas]
    BY DEF observe, d, longer
<1>6. /\ deltas \in Seq(1 .. Week) /\ Len(deltas) <= kWindow
      /\ Vals(deltas) \subseteq Vals(iv.deltas) \cup (IF iv.have /\ d > 0 THEN {d} ELSE {})
    BY <1>2, <1>3, <1>4
<1> HIDE DEF deltas, sow
<1>7. QED
    BY <1>1, <1>5, <1>6 DEF Estimators, d, sow

\* Over the end of the week a step of g is seen as a step back, never as another step.
LEMMA StepOfWeek ==
  ASSUME NEW x \in Nat, NEW g \in 1 .. Week, ((x + g) % Week) - (x % Week) > 0
  PROVE  ((x + g) % Week) - (x % Week) = g
<1> DEFINE q == x \div Week
           r == x % Week
           p == (x + g) \div Week
           u == (x + g) % Week
<1>1. Week \in Nat \ {0}
    BY DualPairAssumption
<1>2. x = Week * q + r /\ q \in Nat /\ r \in 0 .. Week - 1
    BY <1>1
<1>3. x + g = Week * p + u /\ p \in Nat /\ u \in 0 .. Week - 1
    BY <1>1
<1>0. u - r > 0
    BY Zenon
<1>carry. u - r = g => ((x + g) % Week) - (x % Week) = g
    BY Zenon
<1> HIDE DEF q, r, p, u
<1>4. p - q \in Int /\ Week * (p - q) = Week * p - Week * q
    BY <1>1, <1>2, <1>3
<1>5. g = Week * (p - q) + (u - r)
    BY <1>1, <1>2, <1>3, <1>4
<1>6. u - r \in 1 .. Week - 1
    BY <1>0, <1>1, <1>2, <1>3
<1>7. CASE p - q >= 1
  <2>1. Week * (p - q) >= Week
      BY <1>1, <1>4, <1>7
  <2>2. QED
      BY <1>1, <1>5, <1>6, <2>1, <1>4
<1>8. CASE p - q <= -1
  <2>1. Week * (p - q) <= -Week
      BY <1>1, <1>4, <1>8
  <2>2. QED
      BY <1>1, <1>5, <1>6, <2>1, <1>4
<1>9. CASE p - q = 0
  <2>1. Week * (p - q) = 0
      BY <1>1, <1>9
  <2>2. g = u - r
      BY <1>5, <1>6, <2>1
  <2>3. QED
      BY <1>carry, <2>2
<1>10. QED
    BY <1>4, <1>7, <1>8, <1>9

\* An estimator goes on to know the one step of an even file.
LEMMA ObserveLearns ==
  ASSUME NEW file \in Files, NEW pos \in 0 .. Len(file) - 1, NEW iv \in Estimators,
         Len(iv.deltas) <= kWindow, LearntFrom(file, pos, iv)
  PROVE  LearntFrom(file, pos + 1, observe(iv, file[pos + 1]))
<1> DEFINE new == observe(iv, file[pos + 1])
<1>1. Len(file) \in Nat /\ \A i \in 1 .. Len(file) : file[i] \in Nat
    BY DEF Files
<1>2. file[pos + 1] \in Nat /\ pos \in Nat
    BY <1>1
<1>3. /\ new.have /\ new.last = file[pos + 1] % Week
      /\ Vals(new.deltas) \subseteq
           Vals(iv.deltas) \cup (IF iv.have /\ (file[pos + 1] % Week) - iv.last > 0
                                 THEN {(file[pos + 1] % Week) - iv.last} ELSE {})
    BY <1>2, ObserveTypes
<1> HIDE DEF new
<1>4. ASSUME NEW g \in 1 .. Week, Even(file, g)
      PROVE  Vals(new.deltas) \subseteq {g}
  <2>1. Vals(iv.deltas) \subseteq {g}
      BY <1>4 DEF LearntFrom
  <2>2. CASE iv.have /\ (file[pos + 1] % Week) - iv.last > 0
    <3>1. pos \in 1 .. Len(file) - 1 /\ iv.last = file[pos] % Week
        BY <1>2, <2>2 DEF LearntFrom
    <3>2. file[pos + 1] = file[pos] + g
      <4>1. file[pos + 1] - file[pos] = g
          BY <1>4, <3>1 DEF Even
      <4>2. file[pos] \in Nat /\ g \in Nat
          BY <1>1, <3>1, DualPairAssumption
      <4>3. QED
          BY <1>2, <4>1, <4>2
    <3>3. file[pos] \in Nat
        BY <1>1, <3>1
    <3>7. ((file[pos] + g) % Week) - (file[pos] % Week) > 0
        BY <2>2, <3>1, <3>2, Zenon
    <3>6. ((file[pos] + g) % Week) - (file[pos] % Week) = g
        BY <3>3, <3>7, StepOfWeek
    <3>4. (file[pos + 1] % Week) - iv.last = g
        BY <3>1, <3>2, <3>6, Zenon
    <3>5. QED
        BY <1>3, <2>1, <3>4
  <2>3. CASE ~(iv.have /\ (file[pos + 1] % Week) - iv.last > 0)
      BY <1>3, <2>1, <2>3
  <2>4. QED
      BY <2>2, <2>3
<1>5. pos + 1 > 0
    BY <1>2
<1>6. QED
    BY <1>3, <1>4, <1>5 DEF LearntFrom, new

LEMMA FilesGiven ==
  ASSUME DualTypeOK
  PROVE  baseFile \in Files /\ roverFile \in Files /\ sampleInterval \in Nat
BY DualPairAssumption DEF DualTypeOK

\* The window never spans more than half the spacing of the files.
LEMMA WindowIsNarrow ==
  ASSUME DualTypeOK
  PROVE  /\ pairWindow(baseIv, roverIv) \in Nat
         /\ WindowIsLearnt /\ sampleInterval = 0 =>
              \A g \in EvenSpacing : pairWindow(baseIv, roverIv) <= g
<1> DEFINE ib == interval(baseIv)
           ir == interval(roverIv)
<1>1. ib \in Nat /\ ir \in Nat
    BY FilesGiven, IntervalRange DEF DualTypeOK
<1>2. ASSUME WindowIsLearnt, sampleInterval = 0, NEW g \in EvenSpacing
      PROVE  ib \in {0, g} \/ ir \in {0, g}
  <2>1. g \in 1 .. Week /\ (Even(baseFile, g) \/ Even(roverFile, g))
      BY DEF EvenSpacing
  <2>2. Vals(baseIv.deltas) \subseteq {g} \/ Vals(roverIv.deltas) \subseteq {g}
      BY <1>2, <2>1 DEF WindowIsLearnt, LearntFrom
  <2>3. ib \in {0} \cup Vals(baseIv.deltas) /\ ir \in {0} \cup Vals(roverIv.deltas)
      BY <1>2, FilesGiven, IntervalRange DEF DualTypeOK
  <2>4. QED
      BY <2>2, <2>3
<1>3. \A g \in EvenSpacing : g \in Nat
    BY DualPairAssumption DEF EvenSpacing
<1>4. pairWindow(baseIv, roverIv) = IF ib = 0 \/ ir = 0 THEN 0 ELSE IF ib < ir THEN ib ELSE ir
    BY DEF pairWindow
<1> HIDE DEF ib, ir
<1>5. QED
    BY <1>1, <1>2, <1>3, <1>4

\* Epochs of one file are as far apart as its spacing.
LEMMA FarApart ==
  ASSUME NEW file \in Files, NEW g \in 1 .. Week, Spaced(file, g),
         NEW i \in DOMAIN file, NEW j \in DOMAIN file, i < j
  PROVE  file[j] - file[i] >= g
<1>1. Len(file) \in Nat /\ DOMAIN file = 1 .. Len(file) /\ \A k \in 1 .. Len(file) : file[k] \in Nat
    BY DEF Files
<1>2. i + 1 \in 1 .. Len(file) /\ i \in 1 .. Len(file) - 1 /\ g \in Nat
    BY <1>1, DualPairAssumption
<1>3. file[i + 1] - file[i] >= g
    BY <1>2 DEF Spaced
<1>4. j = i + 1 \/ file[i + 1] < file[j]
    BY <1>1, <1>2 DEF Files
<1>5. file[i] \in Nat /\ file[i + 1] \in Nat /\ file[j] \in Nat
    BY <1>1, <1>2
<1>6. QED
    BY <1>2, <1>3, <1>4, <1>5

\* The steps of next leave the files alone, and what they have in common.
LEMMA FilesStay ==
  ASSUME UNCHANGED dualInput
  PROVE  EvenSpacing' = EvenSpacing /\ CommonAt' = CommonAt
BY DEF dualInput, EvenSpacing, Spaced, Even, CommonAt, Skipped

LEMMA CommonPlaces ==
  ASSUME DualTypeOK, NEW at \in CommonAt
  PROVE  /\ at[1] \in DOMAIN baseFile /\ at[2] \in DOMAIN roverFile
         /\ baseFile[at[1]] = roverFile[at[2]]
         /\ at[1] > Skipped(baseFile, baseRinex, roverFile)
         /\ at[2] > Skipped(roverFile, roverRinex, baseFile)
<1>1. /\ Skipped(baseFile, baseRinex, roverFile) \in Nat
      /\ Skipped(roverFile, roverRinex, baseFile) \in Nat
    BY FilesGiven, SkippedIsShort DEF DualTypeOK
<1>2. /\ DOMAIN baseFile = 1 .. Len(baseFile) /\ Len(baseFile) \in Nat
      /\ DOMAIN roverFile = 1 .. Len(roverFile) /\ Len(roverFile) \in Nat
    BY FilesGiven DEF Files
<1>3. /\ at[1] \in Skipped(baseFile, baseRinex, roverFile) + 1 .. Len(baseFile)
      /\ at[2] \in Skipped(roverFile, roverRinex, baseFile) + 1 .. Len(roverFile)
      /\ baseFile[at[1]] = roverFile[at[2]]
    BY DEF CommonAt
<1>4. QED
    BY <1>1, <1>2, <1>3

\* The two heads.
LEMMA HeadsGiven ==
  ASSUME DualTypeOK
  PROVE  /\ haveBase => basePos \in DOMAIN baseFile /\ base \in Nat
         /\ haveRover => roverPos \in DOMAIN roverFile /\ rover \in Nat
         /\ \A i \in DOMAIN baseFile : baseFile[i] \in Nat
         /\ \A j \in DOMAIN roverFile : roverFile[j] \in Nat
         /\ \A i, k \in DOMAIN baseFile : i < k => baseFile[i] < baseFile[k]
         /\ \A j, k \in DOMAIN roverFile : j < k => roverFile[j] < roverFile[k]
         /\ DOMAIN baseFile \subseteq Nat /\ DOMAIN roverFile \subseteq Nat
         /\ basePos \in Nat /\ roverPos \in Nat
<1>1. baseFile \in Seq(Nat) /\ roverFile \in Seq(Nat)
    BY FilesGiven DEF Files
<1>2. basePos \in 0 .. Len(baseFile) /\ roverPos \in 0 .. Len(roverFile)
    BY DEF DualTypeOK
<1>3. haveBase => basePos \in DOMAIN baseFile
    BY <1>1, <1>2 DEF DualTypeOK
<1>4. haveRover => roverPos \in DOMAIN roverFile
    BY <1>1, <1>2 DEF DualTypeOK
<1>5. /\ \A i, k \in DOMAIN baseFile : i < k => baseFile[i] < baseFile[k]
      /\ \A j, k \in DOMAIN roverFile : j < k => roverFile[j] < roverFile[k]
    BY FilesGiven DEF Files
<1>6. QED
    BY <1>1, <1>2, <1>3, <1>4, <1>5 DEF base, rover

LEMMA DualTypesKept ==
  ASSUME DualTypeOK, UnreadUntilOpened, [DualNext]_dualVars
  PROVE  DualTypeOK'
<1>0. /\ Len(baseFile) \in Nat /\ Len(roverFile) \in Nat
      /\ \A i \in 1 .. Len(baseFile) : baseFile[i] \in Nat
      /\ \A i \in 1 .. Len(roverFile) : roverFile[i] \in Nat
    BY FilesGiven DEF Files
<1>9. baseFile \in Files /\ roverFile \in Files
    BY FilesGiven
<1> USE DEF DualTypeOK, dualInput
<1>1. CASE openDual
  <2>1. /\ Skipped(baseFile, baseRinex, roverFile) \in 0 .. Len(baseFile)
        /\ Skipped(roverFile, roverRinex, baseFile) \in 0 .. Len(roverFile)
      BY <1>9, SkippedIsShort
  <2>2. /\ basePos' \in 0 .. Len(baseFile') /\ roverPos' \in 0 .. Len(roverFile')
        /\ opened' \in BOOLEAN
      BY <1>1, <2>1 DEF openDual
  <2>3. ~haveBase /\ ~haveRover
      BY <1>1 DEF openDual, UnreadUntilOpened
  <2>4. QED
      BY <1>1, <2>2, <2>3 DEF openDual
<1>2. CASE stepBase
  <2>1. /\ observe(baseIv, baseFile[basePos + 1]) \in Estimators
        /\ Len(observe(baseIv, baseFile[basePos + 1]).deltas) <= kWindow
    <3>1. baseFile[basePos + 1] \in Nat
        BY <1>0, <1>2 DEF stepBase
    <3>2. QED
        BY <3>1, ObserveTypes
  <2>2. /\ basePos' \in 0 .. Len(baseFile') /\ basePos' > 0
      BY <1>0, <1>2 DEF stepBase
  <2>3. QED
      BY <1>2, <2>1, <2>2 DEF stepBase
<1>3. CASE stepRover
  <2>1. /\ observe(roverIv, roverFile[roverPos + 1]) \in Estimators
        /\ Len(observe(roverIv, roverFile[roverPos + 1]).deltas) <= kWindow
    <3>1. roverFile[roverPos + 1] \in Nat
        BY <1>0, <1>3 DEF stepRover
    <3>2. QED
        BY <3>1, ObserveTypes
  <2>2. /\ roverPos' \in 0 .. Len(roverFile') /\ roverPos' > 0
      BY <1>0, <1>3 DEF stepRover
  <2>3. QED
      BY <1>3, <2>1, <2>2 DEF stepRover
<1>4. CASE BaseEnds
    BY <1>4 DEF BaseEnds
<1>5. CASE RoverEnds
    BY <1>5 DEF RoverEnds
<1>6. CASE Pair
  <2>1. <<base, rover>> \in Vals(baseFile) \X Vals(roverFile)
      BY <1>6, HeadsGiven DEF Pair, base, rover, Vals
  <2>2. pairs' \in Seq(Vals(baseFile) \X Vals(roverFile))
      BY <1>6, <2>1 DEF Pair
  <2>3. QED
      BY <1>6, <2>2 DEF Pair
<1>7. CASE UNCHANGED dualVars
    BY <1>7 DEF dualVars
<1>8. QED
    BY <1>1, <1>2, <1>3, <1>4, <1>5, <1>6, <1>7 DEF DualNext, DualOver

LEMMA DualReads ==
  ASSUME DualTypeOK, UnreadUntilOpened, WindowIsLearnt, [DualNext]_dualVars
  PROVE  UnreadUntilOpened' /\ WindowIsLearnt'
<1> USE DEF dualInput
<1>1. CASE openDual
  <2>1. ~baseIv.have /\ ~roverIv.have
      BY <1>1 DEF openDual, UnreadUntilOpened
  <2>2. QED
      BY <1>1, <2>1 DEF openDual, UnreadUntilOpened, WindowIsLearnt, LearntFrom, Even
<1>2. CASE stepBase
  <2>1. basePos \in 0 .. Len(baseFile) - 1
      BY <1>2, FilesGiven DEF stepBase, DualTypeOK, Files
  <2>2. LearntFrom(baseFile, basePos + 1, observe(baseIv, baseFile[basePos + 1]))
      BY <2>1, FilesGiven, ObserveLearns DEF DualTypeOK, WindowIsLearnt
  <2>3. QED
      BY <1>2, <2>2 DEF stepBase, UnreadUntilOpened, WindowIsLearnt, LearntFrom, Even
<1>3. CASE stepRover
  <2>1. roverPos \in 0 .. Len(roverFile) - 1
      BY <1>3, FilesGiven DEF stepRover, DualTypeOK, Files
  <2>2. LearntFrom(roverFile, roverPos + 1, observe(roverIv, roverFile[roverPos + 1]))
      BY <2>1, FilesGiven, ObserveLearns DEF DualTypeOK, WindowIsLearnt
  <2>3. QED
      BY <1>3, <2>2 DEF stepRover, UnreadUntilOpened, WindowIsLearnt, LearntFrom, Even
<1>4. CASE BaseEnds
    BY <1>4 DEF BaseEnds, UnreadUntilOpened, WindowIsLearnt, LearntFrom, Even
<1>5. CASE RoverEnds
    BY <1>5 DEF RoverEnds, UnreadUntilOpened, WindowIsLearnt, LearntFrom, Even
<1>6. CASE Pair
    BY <1>6 DEF Pair, UnreadUntilOpened, WindowIsLearnt, LearntFrom, Even
<1>7. CASE UNCHANGED dualVars
    BY <1>7 DEF dualVars, UnreadUntilOpened, WindowIsLearnt, LearntFrom, Even
<1>8. QED
    BY <1>1, <1>2, <1>3, <1>4, <1>5, <1>6, <1>7 DEF DualNext, DualOver

\* What lies ahead is not before the head; heads that are near are closer than the spacing.
LEMMA Distances ==
  ASSUME DualTypeOK, WindowIsLearnt, sampleInterval = 0, NEW g \in EvenSpacing
  PROVE  /\ g \in Nat \ {0}
         /\ haveBase /\ haveRover /\ Near => 2 * DualAbs(base - rover) <= g
         /\ haveBase /\ haveRover /\ ~Near => base # rover
         /\ \A i, k \in DOMAIN baseFile : i < k => baseFile[k] - baseFile[i] >= g
         /\ \A j, k \in DOMAIN roverFile : j < k => roverFile[k] - roverFile[j] >= g
<1>1. g \in 1 .. Week /\ Spaced(baseFile, g) /\ Spaced(roverFile, g)
    BY DEF EvenSpacing
<1>2. pairWindow(baseIv, roverIv) \in Nat /\ pairWindow(baseIv, roverIv) <= g
    BY WindowIsNarrow
<1>3. haveBase /\ haveRover => base \in Nat /\ rover \in Nat
    BY HeadsGiven
<1>4. g \in Nat \ {0}
    BY <1>1, DualPairAssumption
<1>5. haveBase /\ haveRover => DualAbs(base - rover) \in Nat
    BY <1>3 DEF DualAbs
<1>6. haveBase /\ haveRover /\ base = rover => DualAbs(base - rover) = 0
    BY <1>3 DEF DualAbs
<1>7. /\ haveBase /\ haveRover /\ Near => 2 * DualAbs(base - rover) <= g
      /\ haveBase /\ haveRover /\ ~Near => base # rover
    BY <1>2, <1>4, <1>5, <1>6 DEF Near
<1>8. QED
    BY <1>1, <1>4, <1>7, FilesGiven, FarApart

LEMMA CommonKept ==
  ASSUME DualTypeOK, UnreadUntilOpened, WindowIsLearnt, CommonStillAhead, [DualNext]_dualVars
  PROVE  CommonStillAhead'
<1> SUFFICES ASSUME EvenSpacing' # {}, sampleInterval' = 0, NEW at \in CommonAt',
                    <<baseFile'[at[1]], roverFile'[at[2]]>> \notin Vals(pairs')
             PROVE  BaseAhead(at[1])' /\ RoverAhead(at[2])' /\ ~over'
    BY DEF CommonStillAhead
<1> DEFINE i == at[1]
           j == at[2]
<1>1. UNCHANGED dualInput
    BY DEF DualNext, openDual, stepBase, stepRover, BaseEnds, RoverEnds, Pair, DualOver, dualVars
<1>2. EvenSpacing # {} /\ sampleInterval = 0 /\ at \in CommonAt
    BY <1>1, FilesStay DEF dualInput
<1>3. PICK g \in EvenSpacing : TRUE
    BY <1>2
<1>4. baseFile' = baseFile /\ roverFile' = roverFile
    BY <1>1 DEF dualInput
<1>5. Vals(pairs) \subseteq Vals(pairs')
  <2>1. pairs \in Seq(Vals(baseFile) \X Vals(roverFile))
      BY DEF DualTypeOK
  <2>2. pairs' = pairs \/ pairs' = Append(pairs, <<base, rover>>)
      BY DEF DualNext, openDual, stepBase, stepRover, BaseEnds, RoverEnds, Pair, DualOver, dualVars
  <2>3. CASE pairs' = Append(pairs, <<base, rover>>)
    <3>1. \A k \in DOMAIN pairs : k \in DOMAIN pairs' /\ pairs'[k] = pairs[k]
        BY <2>1, <2>3
    <3>2. QED
        BY <3>1 DEF Vals
  <2>4. QED
      BY <2>2, <2>3
<1>6. BaseAhead(i) /\ RoverAhead(j) /\ ~over
    BY <1>2, <1>4, <1>5 DEF CommonStillAhead
<1>7. /\ i \in DOMAIN baseFile /\ j \in DOMAIN roverFile /\ baseFile[i] = roverFile[j]
      /\ i > Skipped(baseFile, baseRinex, roverFile)
      /\ j > Skipped(roverFile, roverRinex, baseFile)
    BY <1>2, CommonPlaces
<1> HIDE DEF i, j
<1>8. /\ g \in Nat \ {0}
      /\ haveBase /\ haveRover /\ Near => 2 * DualAbs(base - rover) <= g
      /\ haveBase /\ haveRover /\ ~Near => base # rover
      /\ \A k, l \in DOMAIN baseFile : k < l => baseFile[l] - baseFile[k] >= g
      /\ \A k, l \in DOMAIN roverFile : k < l => roverFile[l] - roverFile[k] >= g
    BY <1>2, Distances
<1>9. /\ i \in Nat /\ j \in Nat /\ basePos \in Nat /\ roverPos \in Nat
      /\ baseFile[i] \in Nat /\ roverFile[j] \in Nat
      /\ haveBase => basePos \in DOMAIN baseFile /\ base \in Nat
      /\ haveRover => roverPos \in DOMAIN roverFile /\ rover \in Nat
    BY <1>7, HeadsGiven
<1>10. /\ haveBase => baseFile[i] >= base /\ (baseFile[i] = base \/ baseFile[i] - base >= g)
       /\ haveRover => roverFile[j] >= rover /\ (roverFile[j] = rover \/ roverFile[j] - rover >= g)
    BY <1>6, <1>7, <1>8, <1>9 DEF BaseAhead, RoverAhead, base, rover
<1>11. BaseAhead(i)' /\ RoverAhead(j)' /\ ~over'
  <2>1. CASE openDual
      BY <2>1, <1>6, <1>7 DEF openDual, BaseAhead, RoverAhead
  <2>2. CASE stepBase
    <3>1. haveBase => base < rover /\ haveRover
        BY <2>2 DEF stepBase, WantBase
    <3>2. i > basePos
        BY <1>6, <1>7, <1>9, <1>10, <3>1 DEF BaseAhead, base
    <3>3. QED
        BY <1>6, <1>9, <2>2, <3>2 DEF stepBase, BaseAhead, RoverAhead
  <2>3. CASE stepRover
    <3>1. haveRover => haveBase /\ base > rover
        BY <1>8, <1>9, <2>3 DEF stepRover, WantRover
    <3>2. j > roverPos
        BY <1>6, <1>7, <1>9, <1>10, <3>1 DEF RoverAhead, rover
    <3>3. QED
        BY <1>6, <1>9, <2>3, <3>2 DEF stepRover, BaseAhead, RoverAhead
  <2>4. CASE BaseEnds
    <3>1. i = basePos /\ haveBase
        BY <1>6, <1>7, <1>9, <2>4, FilesGiven DEF BaseEnds, BaseAhead, Files
    <3>2. haveRover /\ base < rover
        BY <2>4, <3>1 DEF BaseEnds, WantBase
    <3>3. QED
        BY <1>7, <1>9, <1>10, <3>1, <3>2 DEF base
  <2>5. CASE RoverEnds
    <3>1. j = roverPos /\ haveRover
        BY <1>6, <1>7, <1>9, <2>5, FilesGiven DEF RoverEnds, RoverAhead, Files
    <3>2. haveBase /\ base > rover
        BY <1>8, <1>9, <2>5, <3>1 DEF RoverEnds, WantRover
    <3>3. QED
        BY <1>7, <1>9, <1>10, <3>1, <3>2 DEF rover
  <2>6. CASE Pair
    <3>1. haveBase /\ haveRover /\ 2 * DualAbs(base - rover) <= g
        BY <1>8, <2>6 DEF Pair
    <3>2. DualAbs(base - rover) < g
        BY <1>8, <1>9, <3>1 DEF DualAbs
    <3>3. i = basePos => j # roverPos
      <4>1. <<base, rover>> \in Vals(pairs')
        <5>1. /\ pairs' = Append(pairs, <<base, rover>>)
              /\ pairs \in Seq(Vals(baseFile) \X Vals(roverFile))
            BY <2>6 DEF Pair, DualTypeOK
        <5>2. Len(pairs) + 1 \in DOMAIN pairs' /\ pairs'[Len(pairs) + 1] = <<base, rover>>
            BY <5>1
        <5>3. QED
            BY <5>2 DEF Vals
      <4>2. QED
          BY <1>4, <4>1 DEF base, rover, i, j
    <3>4. i # basePos
      <4>1. SUFFICES ASSUME i = basePos PROVE FALSE
          OBVIOUS
      <4>2. roverFile[j] = base /\ j > roverPos
          BY <1>6, <1>7, <1>9, <3>3, <4>1 DEF RoverAhead, base
      <4>3. roverFile[j] - rover >= g
          BY <1>7, <1>8, <1>9, <3>1, <4>2 DEF rover
      <4>4. QED
          BY <1>8, <1>9, <3>1, <3>2, <4>2, <4>3 DEF DualAbs
    <3>5. j # roverPos
      <4>1. SUFFICES ASSUME j = roverPos PROVE FALSE
          OBVIOUS
      <4>2. baseFile[i] = rover /\ i > basePos
          BY <1>6, <1>7, <1>9, <3>4, <4>1 DEF BaseAhead, rover
      <4>3. baseFile[i] - base >= g
          BY <1>7, <1>8, <1>9, <3>1, <4>2 DEF base
      <4>4. QED
          BY <1>8, <1>9, <3>1, <3>2, <4>2, <4>3 DEF DualAbs
    <3>6. QED
        BY <1>6, <2>6, <3>4, <3>5 DEF Pair, BaseAhead, RoverAhead
  <2>7. CASE UNCHANGED dualVars
      BY <1>6, <2>7 DEF dualVars, BaseAhead, RoverAhead
  <2>8. QED
      BY <2>1, <2>2, <2>3, <2>4, <2>5, <2>6, <2>7 DEF DualNext, DualOver
<1>12. QED
    BY <1>11 DEF i, j

LEMMA NearestKept ==
  ASSUME DualTypeOK, WindowIsLearnt, PairsAreNearest, [DualNext]_dualVars
  PROVE  PairsAreNearest'
<1> SUFFICES ASSUME EvenSpacing' # {}, sampleInterval' = 0, NEW p \in Vals(pairs')
             PROVE  /\ \A b \in Vals(baseFile') : DualAbs(b - p[2]) >= DualAbs(p[1] - p[2])
                    /\ \A r \in Vals(roverFile') : DualAbs(p[1] - r) >= DualAbs(p[1] - p[2])
    BY DEF PairsAreNearest
<1>1. UNCHANGED dualInput
    BY DEF DualNext, openDual, stepBase, stepRover, BaseEnds, RoverEnds, Pair, DualOver, dualVars
<1>2. EvenSpacing # {} /\ sampleInterval = 0 /\ baseFile' = baseFile /\ roverFile' = roverFile
    BY <1>1, FilesStay DEF dualInput
<1>3. CASE p \in Vals(pairs)
    BY <1>2, <1>3 DEF PairsAreNearest
<1>4. CASE p \notin Vals(pairs)
  <2>1. Pair
    <3>1. pairs' # pairs
        BY <1>4
    <3>2. QED
        BY <3>1 DEF DualNext, openDual, stepBase, stepRover, BaseEnds, RoverEnds, DualOver, dualVars
  <2>2. p = <<base, rover>>
    <3>1. /\ pairs' = Append(pairs, <<base, rover>>)
          /\ pairs \in Seq(Vals(baseFile) \X Vals(roverFile))
        BY <2>1 DEF Pair, DualTypeOK
    <3>2. \A k \in DOMAIN pairs' :
            (k \in DOMAIN pairs /\ pairs'[k] = pairs[k]) \/ pairs'[k] = <<base, rover>>
        BY <3>1
    <3>3. QED
        BY <1>4, <3>2 DEF Vals
  <2>3. PICK g \in EvenSpacing : TRUE
      BY <1>2
  <2>4. /\ g \in Nat \ {0}
        /\ 2 * DualAbs(base - rover) <= g
        /\ \A k, l \in DOMAIN baseFile : k < l => baseFile[l] - baseFile[k] >= g
        /\ \A k, l \in DOMAIN roverFile : k < l => roverFile[l] - roverFile[k] >= g
      BY <1>2, <2>1, Distances DEF Pair
  <2>5. /\ basePos \in DOMAIN baseFile /\ base \in Nat
        /\ roverPos \in DOMAIN roverFile /\ rover \in Nat
        /\ \A k \in DOMAIN baseFile : k \in Nat /\ baseFile[k] \in Nat
        /\ \A k \in DOMAIN roverFile : k \in Nat /\ roverFile[k] \in Nat
      BY <2>1, HeadsGiven DEF Pair
  <2>6. ASSUME NEW k \in DOMAIN baseFile
        PROVE  DualAbs(baseFile[k] - rover) >= DualAbs(base - rover)
    <3>1. baseFile[k] = base \/ baseFile[k] - base >= g \/ base - baseFile[k] >= g
        BY <2>4, <2>5 DEF base
    <3>2. QED
        BY <2>4, <2>5, <3>1 DEF DualAbs
  <2>7. ASSUME NEW k \in DOMAIN roverFile
        PROVE  DualAbs(base - roverFile[k]) >= DualAbs(base - rover)
    <3>1. roverFile[k] = rover \/ roverFile[k] - rover >= g \/ rover - roverFile[k] >= g
        BY <2>4, <2>5 DEF rover
    <3>2. QED
        BY <2>4, <2>5, <3>1 DEF DualAbs
  <2>8. p[1] = base /\ p[2] = rover
      BY <2>2
  <2>9. QED
      BY <1>2, <2>6, <2>7, <2>8 DEF Vals
<1>5. QED
    BY <1>3, <1>4

\* Of two files of any length, at any step: the heads, what the estimators have learnt, and
\* that a common epoch is paired or still ahead.
THEOREM DualInvariant == DualSpec => []DualIInv
<1>1. DualInit => DualIInv
  <2> SUFFICES ASSUME DualInit
               PROVE  DualIInv
      OBVIOUS
  <2>1. PICK b \in BaseFiles, r \in RoverFiles, bIs \in BOOLEAN, rIs \in BOOLEAN,
             sampling \in Intervals : DualStart(<<b, r>>, <<bIs, rIs>>, sampling)
      BY DEF DualInit
  <2>2. DualTypeOK
    <3>1. /\ Len(baseFile) \in Nat /\ Len(roverFile) \in Nat
          /\ baseFile \in BaseFiles /\ roverFile \in RoverFiles
        BY <2>1, DualPairAssumption DEF DualStart, Files
    <3>2. reset \in Estimators /\ Len(reset.deltas) <= kWindow
        BY DualPairAssumption DEF reset, Estimators
    <3>3. /\ baseRinex \in BOOLEAN /\ roverRinex \in BOOLEAN /\ sampleInterval \in Intervals
          /\ opened = FALSE /\ over = FALSE /\ haveBase = FALSE /\ haveRover = FALSE
          /\ basePos = 0 /\ roverPos = 0 /\ baseIv = reset /\ roverIv = reset /\ pairs = <<>>
        BY <2>1 DEF DualStart
    <3>4. pairs \in Seq(Vals(baseFile) \X Vals(roverFile))
        BY <3>3
    <3>5. basePos \in 0 .. Len(baseFile) /\ roverPos \in 0 .. Len(roverFile)
        BY <3>1, <3>3
    <3>6. QED
        BY <3>1, <3>2, <3>3, <3>4, <3>5 DEF DualTypeOK
  <2>3. UnreadUntilOpened
      BY <2>1 DEF DualStart, UnreadUntilOpened, reset
  <2>4. WindowIsLearnt
      BY <2>1 DEF DualStart, WindowIsLearnt, LearntFrom, reset, Vals
  <2>5. CommonStillAhead
    <3>1. ASSUME NEW at \in CommonAt
          PROVE  BaseAhead(at[1]) /\ RoverAhead(at[2]) /\ ~over
      <4>1. basePos = 0 /\ roverPos = 0 /\ over = FALSE
          BY <2>1 DEF DualStart
      <4>2. at[1] \in Nat \ {0} /\ at[2] \in Nat \ {0}
          BY <2>2, CommonPlaces, FilesGiven DEF Files
      <4>3. QED
          BY <4>1, <4>2 DEF BaseAhead, RoverAhead
    <3>2. QED
        BY <3>1 DEF CommonStillAhead
  <2>6. PairsAreNearest
      BY <2>1 DEF DualStart, PairsAreNearest, Vals
  <2>7. QED
      BY <2>2, <2>3, <2>4, <2>5, <2>6 DEF DualIInv
<1>2. DualIInv /\ [DualNext]_dualVars => DualIInv'
    BY DualTypesKept, DualReads, CommonKept, NearestKept DEF DualIInv
<1>3. QED
    BY <1>1, <1>2, PTL DEF DualSpec

\* A pair joins nearest epochs and no common epoch is lost: for any two files, sampling and
\* estimator window, when the window is learnt and one station logs evenly.
THEOREM PairingIsAlwaysRight == DualSpec => []PairingIsRight
<1>1. DualIInv => PairingIsRight
  <2> SUFFICES ASSUME DualIInv
               PROVE  PairsAreNearest /\ CommonEpochsPaired
      BY DEF PairingIsRight
  <2>1. CommonEpochsPaired
    <3> SUFFICES ASSUME over, EvenSpacing # {}, sampleInterval = 0,
                   NEW i \in Skipped(baseFile, baseRinex, roverFile) + 1 .. Len(baseFile),
                   NEW j \in Skipped(roverFile, roverRinex, baseFile) + 1 .. Len(roverFile),
                   baseFile[i] = roverFile[j]
                 PROVE  <<baseFile[i], roverFile[j]>> \in Vals(pairs)
        BY DEF CommonEpochsPaired
    <3>1. <<i, j>> \in CommonAt
        BY DEF CommonAt
    <3>2. QED
        BY <3>1 DEF DualIInv, CommonStillAhead
  <2>2. QED
      BY <2>1 DEF DualIInv
<1>2. QED
    BY <1>1, DualInvariant, PTL

-----------------------------------------------------------------------------
(* EphTable: what is served to the solver. *)

EphSnapshots == [EphSats -> Seq(Ephemerides)]

EphTypeOK ==
  /\ ephConfig \in EphConfigs
  /\ ephRead \in 0 .. Len(Log)
  /\ ephSnaps \in Seq(EphSnapshots) /\ ephSnaps # <<>>
  /\ ephQueue \in Seq([at : 1 .. ephRead, snap : DOMAIN ephSnaps])
  /\ ephTable \in EphSnapshots
  /\ ephServed \in Seq([at : 1 .. ephRead, found : [EphSats -> Ephemerides \cup {NoEph}]])

Entries(v) == {v[i] : i \in DOMAIN v}

\* The records of a log before its record number at that have an ephemeris of s; these
\* ephemerides, and the last of them.
Said(log, s, at) ==
  {j \in 1 .. at - 1 : log[j].kind # "epoch" /\ log[j].sat = s /\ Decoded(log[j]) # <<>>}
SaidBefore(log, s, at) == {Decoded(log[j])[1] : j \in Said(log, s, at)}
SaidLast(log, s, at) ==
  {Decoded(log[j])[1] : j \in {k \in Said(log, s, at) : \A l \in Said(log, s, at) : l <= k}}

OfNav(cfg, s) == IF cfg.realtime THEN {} ELSE Entries(cfg.nav[s])

\* A snapshot tells of each satellite the last that the log had said before its record at.
Tells(log, snap, at) ==
  \A s \in EphSats :
    /\ snap[s] = <<>> \/ \E e \in SaidBefore(log, s, at) : snap[s] = <<e>>
    /\ \A e \in SaidLast(log, s, at) : snap[s] # <<>> /\ snap[s][1].toe = e.toe

\* Every epoch in the queue has the snapshot of its own time, whatever was read since.
SnapshotsAreThen ==
  /\ Tells(Log, ephSnaps[Len(ephSnaps)], ephRead + 1)
  /\ \A i \in DOMAIN ephQueue :
       /\ Log[ephQueue[i].at].kind = "epoch"
       /\ Tells(Log, ephSnaps[ephQueue[i].snap], ephQueue[i].at)

EpochsInOrder ==
  \A i, j \in DOMAIN ephQueue : i < j => ephQueue[i].at <= ephQueue[j].at

\* The entries of a table come from the navigation files and from before an epoch.
EntriesAreThen(cfg, table, at) ==
  \A s \in EphSats : Entries(table[s]) \subseteq OfNav(cfg, s) \cup SaidBefore(cfg.log, s, at)

\* The table of a task has all of the navigation files, and of the log only what
\* precedes each epoch still to be solved.
TableIsThen ==
  IF ephConfig.realtime THEN ephQueue = <<>>
  ELSE /\ \A s \in EphSats : OfNav(ephConfig, s) \subseteq Entries(ephTable[s])
       /\ EntriesAreThen(ephConfig, ephTable, ephRead + 1)
       /\ \A i \in DOMAIN ephQueue : EntriesAreThen(ephConfig, ephTable, ephQueue[i].at)

Usable(e, cfg, at) == ageSeconds(e, cfg.log[at].t) <= EphMaxAge

ServedRightly(cfg, r) ==
  \A s \in EphSats :
    /\ (\E e \in OfNav(cfg, s) \cup SaidLast(cfg.log, s, r.at) : Usable(e, cfg, r.at))
         => r.found[s] # NoEph
    /\ r.found[s] \in {NoEph} \cup OfNav(cfg, s) \cup SaidBefore(cfg.log, s, r.at)

AllServedRightly == \A k \in DOMAIN ephServed : ServedRightly(ephConfig, ephServed[k])

EphIInv == EphTypeOK /\ SnapshotsAreThen /\ EpochsInOrder /\ TableIsThen /\ AllServedRightly

LEMMA DecodedIsTyped ==
  ASSUME NEW m \in EphRecords, m.kind # "epoch"
  PROVE  m.sat \in EphSats /\ (Decoded(m) # <<>> => Decoded(m)[1] \in Ephemerides)
<1>1. /\ m.kind \in {"gps", "bds", "glo", "gal", "inav", "fnav"}
      /\ m.sat \in EphSats
      /\ m.toe \in Nat /\ m.health \in Nat /\ m.e5a \in Nat /\ m.e5b \in Nat
    BY DEF EphRecords
<1>2. \A inav : makeGalEph(m, inav) \in Ephemerides
    BY <1>1 DEF makeGalEph, Ephemerides
<1>3. CASE m.kind \in {"gps", "bds", "glo"}
    BY <1>1, <1>3 DEF Decoded, parseGpsEphem, parseBdsEphem, parseGloEphem, Ephemerides
<1>4. CASE m.kind \in {"gal", "inav", "fnav"}
    BY <1>1, <1>2, <1>4 DEF Decoded, parseGalEph, parseGalINavBinary, parseGalFNavBinary
<1>5. QED
    BY <1>1, <1>3, <1>4

\* The closest entry is served, unless none is near enough.
LEMMA PickClosestServes ==
  ASSUME NEW v \in Seq(Ephemerides), NEW t \in Nat
  PROVE  /\ pickClosest(v, t) \in {NoEph} \cup Entries(v)
         /\ hasUsableNear(v, t) => pickClosest(v, t) # NoEph
<1> DEFINE age(i) == ageSeconds(v[i], t)
           closer(i, j) == age(i) < age(j) \/ (age(i) = age(j) /\ i <= j)
           best == CHOOSE i \in DOMAIN v : \A j \in DOMAIN v : closer(i, j)
<1>1. DOMAIN v = 1 .. Len(v) /\ Len(v) \in Nat /\ \A i \in DOMAIN v : v[i] \in Ephemerides
    OBVIOUS
<1>2. \A i \in DOMAIN v : age(i) \in Nat
    BY <1>1 DEF ageSeconds, Ephemerides
<1>3. \A i \in DOMAIN v : v[i] # NoEph
    BY <1>1 DEF Ephemerides, NoEph
<1>4. CASE v = <<>>
    BY <1>4 DEF pickClosest, hasUsableNear
<1>5. CASE v # <<>>
  <2> DEFINE ages == {age(i) : i \in DOMAIN v}
  <2>1. ages \in SUBSET Nat /\ ages # {}
      BY <1>1, <1>2, <1>5
  <2>2. PICK a \in ages : \A b \in ages : a <= b
    <3> HIDE DEF ages
    <3>1. QED
        BY <2>1, LeastNat
  <2> DEFINE closest == {i \in DOMAIN v : age(i) = a}
  <2>3. closest \in SUBSET Nat /\ closest # {}
      BY <1>1, <2>2
  <2>4. PICK k \in closest : \A j \in closest : k <= j
    <3> HIDE DEF closest
    <3>1. QED
        BY <2>3, LeastNat
  <2> HIDE DEF age
  <2>5. \A j \in DOMAIN v : closer(k, j)
    <3> SUFFICES ASSUME NEW j \in DOMAIN v
                 PROVE  closer(k, j)
        OBVIOUS
    <3>1. a <= age(j) /\ age(k) = a
        BY <2>2, <2>4
    <3>2. age(j) = a => k <= j
        BY <2>4
    <3>3. QED
        BY <1>2, <2>1, <2>2, <3>1, <3>2
  <2> HIDE DEF closer
  <2>6. best \in DOMAIN v /\ \A j \in DOMAIN v : closer(best, j)
    <3>1. \E i \in DOMAIN v : \A j \in DOMAIN v : closer(i, j)
        BY <2>4, <2>5
    <3>2. QED
        BY <3>1, Zenon
  <2>7. pickClosest(v, t) = IF v = <<>> \/ age(best) > EphMaxAge THEN NoEph ELSE v[best]
      BY Zenon DEF pickClosest, closer, age
  <2> HIDE DEF best
  <2>8. pickClosest(v, t) \in {NoEph} \cup Entries(v)
      BY <2>6, <2>7 DEF Entries
  <2>9. ASSUME hasUsableNear(v, t)
        PROVE  pickClosest(v, t) # NoEph
    <3>1. PICK j \in DOMAIN v : age(j) <= EphMaxAge
        BY <2>9 DEF hasUsableNear, age
    <3>2. age(best) <= age(j)
        BY <1>2, <2>6 DEF closer
    <3>3. ~(age(best) > EphMaxAge)
        BY <1>2, <2>6, <3>1, <3>2, EphAssumption
    <3>4. QED
        BY <1>3, <1>5, <2>6, <2>7, <3>3
  <2>10. QED
      BY <2>8, <2>9
<1>6. QED
    BY <1>4, <1>5

LEMMA ClosestFound ==
  ASSUME NEW cfg \in EphConfigs, NEW at \in 1 .. Len(cfg.log), cfg.log[at].kind = "epoch",
         NEW table \in EphSnapshots, EntriesAreThen(cfg, table, at),
         \A s \in EphSats : \A e \in OfNav(cfg, s) \cup SaidLast(cfg.log, s, at) :
           Usable(e, cfg, at) => hasUsableNear(table[s], cfg.log[at].t)
  PROVE  LET r == [at |-> at, found |-> [s \in EphSats |-> pickClosest(table[s], cfg.log[at].t)]]
         IN  /\ r.found \in [EphSats -> Ephemerides \cup {NoEph}]
             /\ ServedRightly(cfg, r)
<1> DEFINE t == cfg.log[at].t
           r == [at |-> at, found |-> [s \in EphSats |-> pickClosest(table[s], t)]]
<1>1. t \in Nat
  <2>1. cfg.log[at] \in EphRecords
      BY EphAssumption
  <2>2. QED
      BY <2>1 DEF EphRecords
<1>2. \A s \in EphSats : /\ table[s] \in Seq(Ephemerides)
                         /\ Entries(table[s]) \subseteq Ephemerides
    BY DEF EphSnapshots, Entries
<1> HIDE DEF t
<1>3. \A s \in EphSats : /\ pickClosest(table[s], t) \in {NoEph} \cup Entries(table[s])
                         /\ hasUsableNear(table[s], t) => pickClosest(table[s], t) # NoEph
    BY <1>1, <1>2, PickClosestServes
<1>4. r.found \in [EphSats -> Ephemerides \cup {NoEph}]
    BY <1>2, <1>3
<1>5. \A s \in EphSats :
        (\E e \in OfNav(cfg, s) \cup SaidLast(cfg.log, s, at) : Usable(e, cfg, at))
          => r.found[s] # NoEph
    BY <1>3 DEF t
<1>6. \A s \in EphSats :
        r.found[s] \in {NoEph} \cup OfNav(cfg, s) \cup SaidBefore(cfg.log, s, at)
    BY <1>3 DEF EntriesAreThen
<1>7. r.at = at
    OBVIOUS
<1> HIDE DEF r
<1>8. ServedRightly(cfg, r)
    BY <1>5, <1>6, <1>7 DEF ServedRightly
<1>9. QED
    BY <1>4, <1>8 DEF r, t

\* Merging keeps what is there, and leaves a usable entry if the snapshot has one.
LEMMA MergeKeeps ==
  ASSUME NEW v \in Seq(Ephemerides), NEW w \in Seq(Ephemerides), NEW t \in Nat,
         w = <<>> \/ \E e \in Ephemerides : w = <<e>>
  PROVE  LET m == mergeMapForEpoch(v, w, t)
         IN  /\ m \in Seq(Ephemerides)
             /\ Entries(v) \subseteq Entries(m)
             /\ Entries(m) \subseteq Entries(v) \cup Entries(w)
             /\ \A e \in Entries(v) \cup Entries(w) :
                  ageSeconds(e, t) <= EphMaxAge => hasUsableNear(m, t)
<1> DEFINE m == mergeMapForEpoch(v, w, t)
<1>1. hasUsableNear(v, t) <=> \E e \in Entries(v) : ageSeconds(e, t) <= EphMaxAge
    BY DEF hasUsableNear, Entries
<1>2. CASE w = <<>>
  <2>1. m = v /\ Entries(w) = {}
      BY <1>2 DEF mergeMapForEpoch, Entries
  <2>2. QED
      BY <1>1, <2>1
<1>3. CASE w # <<>> /\ hasUsableNear(v, t)
  <2>1. m = v
      BY <1>3 DEF mergeMapForEpoch
  <2>2. QED
      BY <1>3, <2>1
<1>4. CASE w # <<>> /\ ~hasUsableNear(v, t)
  <2>1. PICK e \in Ephemerides : w = <<e>>
      BY <1>4
  <2>2. Entries(w) = {e} /\ w[1] = e
      BY <2>1 DEF Entries
  <2>3. m = IF \E i \in DOMAIN v : v[i].toe = e.toe THEN v ELSE Append(v, e)
      BY <1>4, <2>2 DEF mergeMapForEpoch, Joined
  <2>4. CASE \E i \in DOMAIN v : v[i].toe = e.toe
    <3>1. m = v
        BY <2>3, <2>4
    <3>2. ~(ageSeconds(e, t) <= EphMaxAge)
      <4>1. PICK i \in DOMAIN v : v[i].toe = e.toe
          BY <2>4
      <4>2. ageSeconds(v[i], t) = ageSeconds(e, t)
          BY <4>1 DEF ageSeconds
      <4>3. QED
          BY <1>4, <4>2 DEF hasUsableNear
    <3>3. QED
        BY <1>1, <1>4, <2>2, <3>1, <3>2
  <2>5. CASE ~(\E i \in DOMAIN v : v[i].toe = e.toe)
    <3>1. m = Append(v, e)
        BY <2>3, <2>5
    <3> HIDE DEF m
    <3>2. /\ m \in Seq(Ephemerides) /\ DOMAIN m = 1 .. Len(v) + 1 /\ DOMAIN v = 1 .. Len(v)
          /\ m[Len(v) + 1] = e /\ Len(v) \in Nat
          /\ \A i \in DOMAIN v : m[i] = v[i]
        BY <3>1
    <3>3. Entries(m) = Entries(v) \cup {e}
        BY <3>2 DEF Entries
    <3>4. hasUsableNear(m, t) <=> \E f \in Entries(m) : ageSeconds(f, t) <= EphMaxAge
        BY DEF hasUsableNear, Entries
    <3>5. QED
        BY <2>2, <3>2, <3>3, <3>4 DEF m
  <2>6. QED
      BY <2>4, <2>5
<1>5. QED
    BY <1>2, <1>3, <1>4

LEMMA SaidIsTyped ==
  ASSUME NEW log \in Seq(EphRecords), NEW s, NEW at \in 1 .. Len(log) + 1
  PROVE  SaidBefore(log, s, at) \subseteq Ephemerides
<1>1. \A j \in Said(log, s, at) :
        log[j] \in EphRecords /\ log[j].kind # "epoch" /\ Decoded(log[j]) # <<>>
    BY DEF Said
<1>2. QED
    BY <1>1, DecodedIsTyped DEF SaidBefore

\* A table merged with a snapshot of the epoch is as good as both.
LEMMA MergedTable ==
  ASSUME NEW cfg \in EphConfigs, NEW at \in 1 .. Len(cfg.log), cfg.log[at].kind = "epoch",
         NEW table \in EphSnapshots, NEW snap \in EphSnapshots,
         Tells(cfg.log, snap, at), EntriesAreThen(cfg, table, at),
         \A s \in EphSats : OfNav(cfg, s) \subseteq Entries(table[s])
  PROVE  LET merged == mergeEmbedded(table, snap, cfg.log[at].t)
         IN  /\ merged \in EphSnapshots
             /\ EntriesAreThen(cfg, merged, at)
             /\ \A s \in EphSats : Entries(table[s]) \subseteq Entries(merged[s])
             /\ \A s \in EphSats :
                  Entries(merged[s]) \subseteq Entries(table[s]) \cup SaidBefore(cfg.log, s, at)
             /\ \A s \in EphSats : \A e \in OfNav(cfg, s) \cup SaidLast(cfg.log, s, at) :
                  Usable(e, cfg, at) => hasUsableNear(merged[s], cfg.log[at].t)
<1> DEFINE t == cfg.log[at].t
           merged == mergeEmbedded(table, snap, t)
<1>1. t \in Nat /\ cfg.log \in Seq(EphRecords)
  <2>1. cfg.log[at] \in EphRecords /\ cfg.log \in Seq(EphRecords)
      BY EphAssumption
  <2>2. QED
      BY <2>1 DEF EphRecords
<1> HIDE DEF t
<1>2. ASSUME NEW s \in EphSats
      PROVE  /\ merged[s] = mergeMapForEpoch(table[s], snap[s], t)
             /\ merged[s] \in Seq(Ephemerides)
             /\ Entries(table[s]) \subseteq Entries(merged[s])
             /\ Entries(merged[s]) \subseteq Entries(table[s]) \cup SaidBefore(cfg.log, s, at)
             /\ \A e \in OfNav(cfg, s) \cup SaidLast(cfg.log, s, at) :
                  ageSeconds(e, t) <= EphMaxAge => hasUsableNear(merged[s], t)
  <2>1. merged[s] = mergeMapForEpoch(table[s], snap[s], t)
      BY DEF mergeEmbedded
  <2>2. table[s] \in Seq(Ephemerides) /\ snap[s] \in Seq(Ephemerides)
      BY DEF EphSnapshots
  <2>3. SaidBefore(cfg.log, s, at) \subseteq Ephemerides
      BY <1>1, SaidIsTyped
  <2>4. snap[s] = <<>> \/ \E e \in SaidBefore(cfg.log, s, at) : snap[s] = <<e>>
      BY DEF Tells
  <2>5. snap[s] = <<>> \/ \E e \in Ephemerides : snap[s] = <<e>>
      BY <2>3, <2>4, Zenon
  <2>6. Entries(snap[s]) \subseteq SaidBefore(cfg.log, s, at)
      BY <2>4 DEF Entries
  <2> HIDE DEF merged
  <2>7. /\ merged[s] \in Seq(Ephemerides)
        /\ Entries(table[s]) \subseteq Entries(merged[s])
        /\ Entries(merged[s]) \subseteq Entries(table[s]) \cup Entries(snap[s])
        /\ \A e \in Entries(table[s]) \cup Entries(snap[s]) :
             ageSeconds(e, t) <= EphMaxAge => hasUsableNear(merged[s], t)
    <3> DEFINE v == table[s]
               w == snap[s]
    <3>1. v \in Seq(Ephemerides) /\ w \in Seq(Ephemerides)
        BY <2>2
    <3>2. w = <<>> \/ \E e \in Ephemerides : w = <<e>>
        BY <2>5
    <3> HIDE DEF v, w
    <3> DEFINE m == mergeMapForEpoch(v, w, t)
    <3>3. /\ m \in Seq(Ephemerides)
          /\ Entries(v) \subseteq Entries(m)
          /\ Entries(m) \subseteq Entries(v) \cup Entries(w)
          /\ \A e \in Entries(v) \cup Entries(w) :
               ageSeconds(e, t) <= EphMaxAge => hasUsableNear(m, t)
        BY <1>1, <3>1, <3>2, MergeKeeps
    <3>4. merged[s] = m
        BY <2>1 DEF v, w
    <3> HIDE DEF m
    <3>5. QED
        BY <3>3, <3>4 DEF v, w
  <2>8. ASSUME NEW e \in SaidLast(cfg.log, s, at), ageSeconds(e, t) <= EphMaxAge
        PROVE  hasUsableNear(merged[s], t)
    <3>1. snap[s] # <<>> /\ snap[s][1].toe = e.toe
        BY DEF Tells
    <3>2. snap[s][1] \in Entries(snap[s])
        BY <2>2, <3>1 DEF Entries
    <3>3. ageSeconds(snap[s][1], t) = ageSeconds(e, t)
        BY <3>1 DEF ageSeconds
    <3>4. QED
        BY <2>7, <2>8, <3>2, <3>3
  <2>9. ASSUME NEW e \in OfNav(cfg, s), ageSeconds(e, t) <= EphMaxAge
        PROVE  hasUsableNear(merged[s], t)
      BY <2>7, <2>9
  <2>10. QED
      BY <2>1, <2>6, <2>7, <2>8, <2>9
<1>3. merged \in EphSnapshots
  <2>1. merged = [s \in EphSats |-> mergeMapForEpoch(table[s], snap[s], t)]
      BY DEF mergeEmbedded
  <2>2. \A s \in EphSats : mergeMapForEpoch(table[s], snap[s], t) \in Seq(Ephemerides)
      BY <1>2
  <2>3. QED
      BY <2>1, <2>2 DEF EphSnapshots
<1> HIDE DEF merged
<1>4. EntriesAreThen(cfg, merged, at)
    BY <1>2 DEF EntriesAreThen
<1>5. \A s \in EphSats : \A e \in OfNav(cfg, s) \cup SaidLast(cfg.log, s, at) :
        Usable(e, cfg, at) => hasUsableNear(merged[s], t)
    BY <1>2 DEF Usable, t
<1>6. QED
    BY <1>2, <1>3, <1>4, <1>5 DEF merged, t

\* What one more record of the log adds to what was said.
LEMMA SaidNext ==
  ASSUME NEW log \in Seq(EphRecords), NEW s, NEW at \in 1 .. Len(log)
  PROVE  LET speaks == log[at].kind # "epoch" /\ log[at].sat = s /\ Decoded(log[at]) # <<>>
         IN  /\ SaidBefore(log, s, at) \subseteq SaidBefore(log, s, at + 1)
             /\ ~speaks => SaidLast(log, s, at + 1) = SaidLast(log, s, at)
             /\ speaks => /\ Decoded(log[at])[1] \in SaidBefore(log, s, at + 1)
                          /\ SaidLast(log, s, at + 1) = {Decoded(log[at])[1]}
<1> DEFINE speaks == log[at].kind # "epoch" /\ log[at].sat = s /\ Decoded(log[at]) # <<>>
<1>1. Said(log, s, at + 1) = Said(log, s, at) \cup (IF speaks THEN {at} ELSE {})
    BY DEF Said
<1>2. \A l \in Said(log, s, at) : l \in Nat /\ l < at
    BY DEF Said
<1> HIDE DEF speaks
<1>3. SaidBefore(log, s, at) \subseteq SaidBefore(log, s, at + 1)
    BY <1>1 DEF SaidBefore
<1>4. ASSUME ~speaks PROVE SaidLast(log, s, at + 1) = SaidLast(log, s, at)
  <2>1. Said(log, s, at + 1) = Said(log, s, at)
      BY <1>1, <1>4
  <2>2. QED
      BY <2>1, Zenon DEF SaidLast
<1>5. ASSUME speaks
      PROVE  /\ Decoded(log[at])[1] \in SaidBefore(log, s, at + 1)
             /\ SaidLast(log, s, at + 1) = {Decoded(log[at])[1]}
  <2>1. Said(log, s, at + 1) = Said(log, s, at) \cup {at}
      BY <1>1, <1>5
  <2>2. {k \in Said(log, s, at + 1) : \A l \in Said(log, s, at + 1) : l <= k} = {at}
    <3>1. at \in Nat
        OBVIOUS
    <3>2. \A l \in Said(log, s, at) \cup {at} : l \in Nat /\ l <= at
        BY <1>2, <3>1
    <3>3. \A k \in Said(log, s, at) : ~(at <= k)
        BY <1>2, <3>1
    <3>4. QED
        BY <2>1, <3>2, <3>3
  <2>3. SaidLast(log, s, at + 1) = {Decoded(log[j])[1] : j \in {at}}
      BY <2>2, Zenon DEF SaidLast
  <2>4. QED
      BY <2>1, <2>3 DEF SaidBefore
<1>6. QED
    BY <1>3, <1>4, <1>5 DEF speaks

LEMMA SaidGrows ==
  ASSUME NEW log \in Seq(EphRecords), NEW s, NEW at \in Nat, NEW bt \in Nat, at <= bt
  PROVE  SaidBefore(log, s, at) \subseteq SaidBefore(log, s, bt)
<1>1. Said(log, s, at) \subseteq Said(log, s, bt)
    BY DEF Said
<1>2. QED
    BY <1>1 DEF SaidBefore

\* A record that tells nothing of a satellite leaves a snapshot as good as it was.
LEMMA TellsOn ==
  ASSUME NEW log \in Seq(EphRecords), NEW at \in 1 .. Len(log), NEW snap,
         Tells(log, snap, at), log[at].kind = "epoch" \/ Decoded(log[at]) = <<>>
  PROVE  Tells(log, snap, at + 1)
<1> SUFFICES ASSUME NEW s \in EphSats
             PROVE  /\ snap[s] = <<>> \/ \E e \in SaidBefore(log, s, at + 1) : snap[s] = <<e>>
                    /\ \A e \in SaidLast(log, s, at + 1) : snap[s] # <<>> /\ snap[s][1].toe = e.toe
    BY DEF Tells
<1>1. /\ SaidBefore(log, s, at) \subseteq SaidBefore(log, s, at + 1)
      /\ SaidLast(log, s, at + 1) = SaidLast(log, s, at)
    BY SaidNext
<1>2. QED
    BY <1>1 DEF Tells

LEMMA StoreTells ==
  ASSUME NEW log \in Seq(EphRecords), NEW at \in 1 .. Len(log),
         log[at].kind # "epoch", Decoded(log[at]) # <<>>,
         NEW snaps \in Seq(EphSnapshots), snaps # <<>>, Tells(log, snaps[Len(snaps)], at)
  PROVE  LET new == storeEph(snaps, log[at].sat, Decoded(log[at])[1])
         IN  /\ new \in Seq(EphSnapshots) /\ Len(snaps) <= Len(new)
             /\ \A i \in DOMAIN snaps : new[i] = snaps[i]
             /\ Tells(log, new[Len(new)], at + 1)
<1> DEFINE s == log[at].sat
           e == Decoded(log[at])[1]
           cur == snaps[Len(snaps)]
           new == storeEph(snaps, s, e)
           same == cur[s] # <<>> /\ cur[s][1].toe = e.toe
           next == IF same THEN cur ELSE [cur EXCEPT ![s] = <<e>>]
<1>1. log[at] \in EphRecords
    OBVIOUS
<1>2. s \in EphSats /\ e \in Ephemerides
    BY <1>1, DecodedIsTyped
<1>3. Len(snaps) \in Nat \ {0} /\ DOMAIN snaps = 1 .. Len(snaps) /\ cur \in EphSnapshots
    OBVIOUS
<1>4. cur[s] # <<>> => Last(cur[s]) = cur[s][1]
  <2>1. cur[s] = <<>> \/ \E f \in SaidBefore(log, s, at) : cur[s] = <<f>>
      BY <1>2 DEF Tells
  <2>2. QED
      BY <2>1 DEF Last
<1>5. new = IF same THEN snaps ELSE Append(snaps, next)
    BY <1>4 DEF storeEph, Last
<1> HIDE DEF new
<1>6. next \in EphSnapshots
  <2>1. [cur EXCEPT ![s] = <<e>>] \in EphSnapshots
      BY <1>2, <1>3 DEF EphSnapshots
  <2>2. QED
      BY <1>3, <2>1
<1>7. Tells(log, next, at + 1)
  <2> SUFFICES ASSUME NEW q \in EphSats
               PROVE  /\ \/ next[q] = <<>>
                         \/ \E f \in SaidBefore(log, q, at + 1) : next[q] = <<f>>
                      /\ \A f \in SaidLast(log, q, at + 1) :
                           next[q] # <<>> /\ next[q][1].toe = f.toe
      BY DEF Tells
  <2>1. SaidBefore(log, q, at) \subseteq SaidBefore(log, q, at + 1)
      BY SaidNext
  <2>2. /\ cur[q] = <<>> \/ \E f \in SaidBefore(log, q, at) : cur[q] = <<f>>
        /\ \A f \in SaidLast(log, q, at) : cur[q] # <<>> /\ cur[q][1].toe = f.toe
      BY DEF Tells
  <2>3. CASE q # s
    <3>1. SaidLast(log, q, at + 1) = SaidLast(log, q, at)
        BY <2>3, SaidNext
    <3>2. next[q] = cur[q]
        BY <1>2, <1>3, <2>3 DEF EphSnapshots
    <3> HIDE DEF next, cur
    <3>3. QED
        BY <2>1, <2>2, <3>1, <3>2
  <2>4. CASE q = s
    <3>1. e \in SaidBefore(log, s, at + 1) /\ SaidLast(log, s, at + 1) = {e}
        BY SaidNext
    <3>2. CASE same
      <4>1. next[q] = cur[q] /\ cur[q] # <<>> /\ cur[q][1].toe = e.toe
          BY <2>4, <3>2
      <4> HIDE DEF next, cur, e, s, same
      <4>2. QED
          BY <2>1, <2>2, <2>4, <3>1, <4>1
    <3>3. CASE ~same
      <4>1. next[q] = <<e>>
          BY <1>2, <1>3, <2>4, <3>3 DEF EphSnapshots
      <4> HIDE DEF next, cur, e, s, same
      <4>2. QED
          BY <2>4, <3>1, <4>1
    <3>4. QED
        BY <3>2, <3>3
  <2>5. QED
      BY <2>3, <2>4
<1>8. CASE same
  <2>1. new = snaps /\ next = cur
      BY <1>5, <1>8
  <2>2. QED
      BY <1>3, <1>7, <2>1 DEF new
<1>9. CASE ~same
  <2>1. new = Append(snaps, next)
      BY <1>5, <1>9
  <2> HIDE DEF next
  <2>2. /\ new \in Seq(EphSnapshots) /\ Len(new) = Len(snaps) + 1 /\ new[Len(new)] = next
        /\ \A i \in DOMAIN snaps : new[i] = snaps[i]
      BY <1>3, <1>6, <2>1
  <2>3. QED
      BY <1>3, <1>7, <2>2 DEF new
<1>10. QED
    BY <1>8, <1>9

LEMMA SeqInWider ==
  ASSUME NEW A, NEW B, A \subseteq B, NEW s \in Seq(A)
  PROVE  s \in Seq(B)
<1>1. Len(s) \in Nat /\ DOMAIN s = 1 .. Len(s) /\ \A i \in 1 .. Len(s) : s[i] \in B
    OBVIOUS
<1>2. s = [i \in 1 .. Len(s) |-> s[i]]
    OBVIOUS
<1>3. QED
    BY <1>1, <1>2

LEMMA EphGiven ==
  ASSUME EphTypeOK
  PROVE  /\ Log = ephConfig.log /\ Log \in Seq(EphRecords) /\ Len(Log) \in Nat
         /\ ephConfig.realtime \in BOOLEAN /\ ephConfig.nav \in EphSnapshots
         /\ ephRead \in Nat /\ ephRead <= Len(Log)
BY EphAssumption DEF EphTypeOK, Log, EphSnapshots

LEMMA QueueIsTyped ==
  ASSUME EphTypeOK
  PROVE  \A i \in DOMAIN ephQueue :
           /\ ephQueue[i].at \in 1 .. ephRead
           /\ ephQueue[i].snap \in DOMAIN ephSnaps
<1> DEFINE R == [at : 1 .. ephRead, snap : DOMAIN ephSnaps]
<1>1. ephQueue \in Seq(R)
    BY DEF EphTypeOK
<1>2. \A r \in R : r.at \in 1 .. ephRead /\ r.snap \in DOMAIN ephSnaps
    OBVIOUS
<1> HIDE DEF R
<1>3. QED
    BY <1>1, <1>2

LEMMA EphStarts == EphInit => EphIInv
<1> SUFFICES ASSUME NEW cfg \in EphConfigs, EphStart(cfg)
             PROVE  EphIInv
    BY DEF EphInit
<1>1. NoEphs \in EphSnapshots
    BY DEF NoEphs, EphSnapshots
<1>2. EphTypeOK
  <2>1. ephSnaps \in Seq(EphSnapshots) /\ ephSnaps # <<>>
      BY <1>1 DEF EphStart
  <2>2. ephTable \in EphSnapshots /\ Len(Log) \in Nat
      BY EphAssumption DEF EphStart, EphSnapshots, Log
  <2>3. QED
      BY <2>1, <2>2 DEF EphStart, EphTypeOK
<1>3. SnapshotsAreThen
  <2>1. \A s \in EphSats : SaidLast(Log, s, 1) = {}
      BY DEF SaidLast, Said
  <2>2. ephSnaps[Len(ephSnaps)] = NoEphs /\ ephRead + 1 = 1 /\ ephQueue = <<>>
      BY DEF EphStart
  <2>3. Tells(Log, NoEphs, 1)
      BY <2>1 DEF Tells, NoEphs
  <2>4. QED
      BY <2>2, <2>3 DEF SnapshotsAreThen
<1>4. EpochsInOrder
    BY DEF EphStart, EpochsInOrder
<1>5. TableIsThen
  <2>1. ephQueue = <<>> /\ ephTable = ephConfig.nav
      BY DEF EphStart
  <2>2. CASE ephConfig.realtime
      BY <2>1, <2>2 DEF TableIsThen
  <2>3. CASE ~ephConfig.realtime
      BY <2>1, <2>3 DEF TableIsThen, EntriesAreThen, OfNav
  <2>4. QED
      BY <2>2, <2>3
<1>6. AllServedRightly
    BY DEF EphStart, AllServedRightly
<1>7. QED
    BY <1>2, <1>3, <1>4, <1>5, <1>6 DEF EphIInv

\* Reading a message changes the snapshots only, and adds what it says to the last.
LEMMA ReadEphemerisKept == EphIInv /\ ReadEphemeris => EphIInv'
<1> SUFFICES ASSUME EphIInv, ReadEphemeris
             PROVE  EphIInv'
    OBVIOUS
<1>1. EphTypeOK /\ SnapshotsAreThen /\ EpochsInOrder /\ TableIsThen /\ AllServedRightly
    BY DEF EphIInv
<1>2. /\ Log = ephConfig.log /\ Log \in Seq(EphRecords) /\ Len(Log) \in Nat
      /\ ephConfig.realtime \in BOOLEAN /\ ephRead \in Nat
    BY <1>1, EphGiven
<1>3. /\ ephRead < Len(Log) /\ ephRead' = ephRead + 1
      /\ ephConfig' = ephConfig /\ ephQueue' = ephQueue /\ ephTable' = ephTable
      /\ ephServed' = ephServed
    BY DEF ReadEphemeris
<1>4. Log' = Log
    BY <1>3 DEF Log
<1> DEFINE at == ephRead + 1
<1>5. at \in 1 .. Len(Log) /\ at + 1 = ephRead' + 1
    BY <1>2, <1>3
<1>6. Log[at].kind # "epoch"
    BY DEF ReadEphemeris
<1>7. /\ ephSnaps \in Seq(EphSnapshots) /\ ephSnaps # <<>>
      /\ Tells(Log, ephSnaps[Len(ephSnaps)], at)
    BY <1>1 DEF EphTypeOK, SnapshotsAreThen
<1> HIDE DEF at
<1>8. /\ ephSnaps' \in Seq(EphSnapshots) /\ Len(ephSnaps) <= Len(ephSnaps')
      /\ \A i \in DOMAIN ephSnaps : ephSnaps'[i] = ephSnaps[i]
      /\ Tells(Log, ephSnaps'[Len(ephSnaps')], at + 1)
  <2>1. CASE Decoded(Log[at]) = <<>>
    <3>1. ephSnaps' = ephSnaps
        BY <2>1 DEF ReadEphemeris, at
    <3>2. Tells(Log, ephSnaps[Len(ephSnaps)], at + 1)
        BY <1>2, <1>5, <1>7, <2>1, TellsOn
    <3>3. QED
        BY <1>7, <3>1, <3>2
  <2>2. CASE Decoded(Log[at]) # <<>>
    <3> DEFINE new == storeEph(ephSnaps, Log[at].sat, Decoded(Log[at])[1])
    <3>1. ephSnaps' = new
        BY <2>2 DEF ReadEphemeris, at
    <3>2. /\ new \in Seq(EphSnapshots) /\ Len(ephSnaps) <= Len(new)
          /\ \A i \in DOMAIN ephSnaps : new[i] = ephSnaps[i]
          /\ Tells(Log, new[Len(new)], at + 1)
        BY <1>2, <1>5, <1>6, <1>7, <2>2, StoreTells
    <3> HIDE DEF new
    <3>3. QED
        BY <3>1, <3>2
  <2>3. QED
      BY <2>1, <2>2
<1>9. ephSnaps' # <<>> /\ DOMAIN ephSnaps \subseteq DOMAIN ephSnaps'
    BY <1>7, <1>8
<1>10. EphTypeOK'
  <2>1. ephQueue' \in Seq([at : 1 .. ephRead', snap : DOMAIN ephSnaps'])
    <3> DEFINE A == [at : 1 .. ephRead, snap : DOMAIN ephSnaps]
               B == [at : 1 .. ephRead', snap : DOMAIN ephSnaps']
    <3>1. A \subseteq B
        BY <1>2, <1>3, <1>9
    <3>2. ephQueue \in Seq(A)
        BY <1>1 DEF EphTypeOK
    <3> HIDE DEF A, B
    <3>3. ephQueue \in Seq(B)
        BY <3>1, <3>2, SeqInWider
    <3>4. QED
        BY <1>3, <3>3 DEF B
  <2>2. ephServed' \in Seq([at : 1 .. ephRead', found : [EphSats -> Ephemerides \cup {NoEph}]])
    <3> DEFINE F == [EphSats -> Ephemerides \cup {NoEph}]
               A == [at : 1 .. ephRead, found : F]
               B == [at : 1 .. ephRead', found : F]
    <3>1. ephServed \in Seq(A)
        BY <1>1 DEF EphTypeOK
    <3> HIDE DEF F
    <3>2. A \subseteq B
        BY <1>2, <1>3
    <3> HIDE DEF A, B
    <3>3. ephServed \in Seq(B)
        BY <3>1, <3>2, SeqInWider
    <3>4. QED
        BY <1>3, <3>3 DEF B, F
  <2>3. /\ ephConfig' \in EphConfigs /\ ephRead' \in 0 .. Len(Log')
        /\ ephTable' \in EphSnapshots
      BY <1>1, <1>2, <1>3, <1>4 DEF EphTypeOK
  <2>4. QED
      BY <1>8, <1>9, <2>1, <2>2, <2>3 DEF EphTypeOK
<1>11. SnapshotsAreThen'
  <2>1. \A i \in DOMAIN ephQueue : ephSnaps'[ephQueue[i].snap] = ephSnaps[ephQueue[i].snap]
    <3>1. \A i \in DOMAIN ephQueue : ephQueue[i].snap \in DOMAIN ephSnaps
        BY <1>1, QueueIsTyped
    <3>2. QED
        BY <1>8, <3>1
  <2>2. QED
      BY <1>1, <1>3, <1>4, <1>5, <1>8, <2>1 DEF SnapshotsAreThen
<1>12. EpochsInOrder'
    BY <1>1, <1>3 DEF EpochsInOrder
<1>13. TableIsThen'
  <2>1. CASE ephConfig.realtime
      BY <1>1, <1>3, <2>1 DEF TableIsThen
  <2>2. CASE ~ephConfig.realtime
    <3>1. EntriesAreThen(ephConfig, ephTable, ephRead' + 1)
      <4>1. \A s \in EphSats : SaidBefore(Log, s, at) \subseteq SaidBefore(Log, s, at + 1)
          BY <1>2, <1>5, SaidNext
      <4>2. EntriesAreThen(ephConfig, ephTable, at)
          BY <1>1, <2>2 DEF TableIsThen, at
      <4>3. QED
          BY <1>2, <1>5, <4>1, <4>2 DEF EntriesAreThen
    <3>2. QED
        BY <1>1, <1>3, <2>2, <3>1 DEF TableIsThen
  <2>3. QED
      BY <2>1, <2>2
<1>14. AllServedRightly'
    BY <1>1, <1>3 DEF AllServedRightly
<1>15. QED
    BY <1>10, <1>11, <1>12, <1>13, <1>14 DEF EphIInv

LEMMA RecordIsTyped ==
  ASSUME EphTypeOK, NEW at \in 1 .. Len(Log), Log[at].kind = "epoch"
  PROVE  Log[at].t \in Nat
<1>1. Log[at] \in EphRecords
    BY EphGiven
<1>2. QED
    BY <1>1 DEF EphRecords

\* An epoch goes into the queue with what is known now.
LEMMA ReadItemKept == EphIInv /\ ReadItem => EphIInv'
<1> SUFFICES ASSUME EphIInv, ReadItem
             PROVE  EphIInv'
    OBVIOUS
<1>1. EphTypeOK /\ SnapshotsAreThen /\ EpochsInOrder /\ TableIsThen /\ AllServedRightly
    BY DEF EphIInv
<1>2. /\ Log = ephConfig.log /\ Log \in Seq(EphRecords) /\ Len(Log) \in Nat
      /\ ephConfig.realtime \in BOOLEAN /\ ephRead \in Nat
    BY <1>1, EphGiven
<1>3. /\ ephRead < Len(Log) /\ ephRead' = ephRead + 1 /\ Log[ephRead + 1].kind = "epoch"
      /\ ~ephConfig.realtime
      /\ ephConfig' = ephConfig /\ ephSnaps' = ephSnaps /\ ephTable' = ephTable
      /\ ephServed' = ephServed
      /\ ephQueue' = Append(ephQueue, [at |-> ephRead + 1, snap |-> Len(ephSnaps)])
    BY DEF ReadItem
<1>4. Log' = Log
    BY <1>3 DEF Log
<1> DEFINE at == ephRead + 1
           entry == [at |-> at, snap |-> Len(ephSnaps)]
<1>5. at \in 1 .. Len(Log) /\ at + 1 = ephRead' + 1
    BY <1>2, <1>3
<1>6. /\ ephSnaps \in Seq(EphSnapshots) /\ Len(ephSnaps) \in DOMAIN ephSnaps
      /\ Tells(Log, ephSnaps[Len(ephSnaps)], at)
    BY <1>1 DEF EphTypeOK, SnapshotsAreThen
<1> DEFINE A == [at : 1 .. ephRead, snap : DOMAIN ephSnaps]
           B == [at : 1 .. ephRead', snap : DOMAIN ephSnaps']
<1>7. ephQueue \in Seq(B) /\ entry \in B
  <2>1. A \subseteq B /\ entry \in B
      BY <1>2, <1>3, <1>6
  <2>2. ephQueue \in Seq(A)
      BY <1>1 DEF EphTypeOK
  <2> HIDE DEF A, B
  <2>3. QED
      BY <2>1, <2>2, SeqInWider
<1>8. entry.at = at /\ entry.snap = Len(ephSnaps)
    OBVIOUS
<1> HIDE DEF entry, B
<1>9. /\ ephQueue' \in Seq(B)
      /\ DOMAIN ephQueue' = 1 .. Len(ephQueue) + 1 /\ DOMAIN ephQueue = 1 .. Len(ephQueue)
      /\ Len(ephQueue) \in Nat /\ ephQueue'[Len(ephQueue) + 1] = entry
      /\ \A i \in DOMAIN ephQueue : ephQueue'[i] = ephQueue[i]
    BY <1>3, <1>7 DEF entry
<1>10. EphTypeOK'
  <2>1. ephServed' \in Seq([at : 1 .. ephRead', found : [EphSats -> Ephemerides \cup {NoEph}]])
    <3> DEFINE F == [EphSats -> Ephemerides \cup {NoEph}]
               C == [at : 1 .. ephRead, found : F]
               D == [at : 1 .. ephRead', found : F]
    <3>1. ephServed \in Seq(C)
        BY <1>1 DEF EphTypeOK
    <3> HIDE DEF F
    <3>2. C \subseteq D
        BY <1>2, <1>3
    <3> HIDE DEF C, D
    <3>3. ephServed \in Seq(D)
        BY <3>1, <3>2, SeqInWider
    <3>4. QED
        BY <1>3, <3>3 DEF D, F
  <2>2. /\ ephConfig' \in EphConfigs /\ ephRead' \in 0 .. Len(Log')
        /\ ephTable' \in EphSnapshots
        /\ ephSnaps' \in Seq(EphSnapshots) /\ ephSnaps' # <<>>
      BY <1>1, <1>2, <1>3, <1>4 DEF EphTypeOK
  <2>3. QED
      BY <1>9, <2>1, <2>2 DEF EphTypeOK, B
<1>11. SnapshotsAreThen'
  <2>1. Tells(Log, ephSnaps[Len(ephSnaps)], at + 1)
      BY <1>2, <1>3, <1>5, <1>6, TellsOn
  <2>2. ASSUME NEW i \in DOMAIN ephQueue'
        PROVE  /\ Log[ephQueue'[i].at].kind = "epoch"
               /\ Tells(Log, ephSnaps[ephQueue'[i].snap], ephQueue'[i].at)
    <3>1. CASE i = Len(ephQueue) + 1
        BY <1>3, <1>6, <1>8, <1>9, <3>1
    <3>2. CASE i \in DOMAIN ephQueue
        BY <1>1, <1>9, <3>2 DEF SnapshotsAreThen
    <3>3. QED
        BY <1>9, <3>1, <3>2
  <2>3. QED
      BY <1>3, <1>4, <1>5, <2>1, <2>2 DEF SnapshotsAreThen
<1>12. EpochsInOrder'
  <2>1. \A i \in DOMAIN ephQueue : ephQueue[i].at \in 1 .. ephRead
      BY <1>1, QueueIsTyped
  <2>2. \A i, j \in DOMAIN ephQueue : i < j => ephQueue[i].at <= ephQueue[j].at
      BY <1>1 DEF EpochsInOrder
  <2>3. ASSUME NEW i \in 1 .. Len(ephQueue) + 1, NEW j \in 1 .. Len(ephQueue) + 1, i < j
        PROVE  ephQueue'[i].at <= ephQueue'[j].at
    <3>1. i \in DOMAIN ephQueue
        BY <1>9, <2>3
    <3>2. ephQueue'[i] = ephQueue[i] /\ ephQueue[i].at \in 1 .. ephRead
        BY <1>9, <2>1, <3>1
    <3>3. CASE j \in DOMAIN ephQueue
        BY <1>9, <2>2, <2>3, <3>1, <3>2, <3>3
    <3>4. CASE j = Len(ephQueue) + 1
      <4>1. ephQueue'[j].at = ephRead + 1
          BY <1>8, <1>9, <3>4
      <4>2. QED
          BY <1>2, <3>2, <4>1
    <3>5. QED
        BY <1>9, <3>3, <3>4
  <2>4. QED
      BY <1>9, <2>3 DEF EpochsInOrder
<1>13. TableIsThen'
  <2>1. EntriesAreThen(ephConfig, ephTable, at)
      BY <1>1, <1>3 DEF TableIsThen
  <2>2. EntriesAreThen(ephConfig, ephTable, at + 1)
    <3>1. \A s \in EphSats : SaidBefore(Log, s, at) \subseteq SaidBefore(Log, s, at + 1)
        BY <1>2, <1>5, SaidNext
    <3>2. QED
        BY <1>2, <2>1, <3>1 DEF EntriesAreThen
  <2>3. \A i \in DOMAIN ephQueue' : EntriesAreThen(ephConfig, ephTable, ephQueue'[i].at)
    <3>1. \A i \in DOMAIN ephQueue : EntriesAreThen(ephConfig, ephTable, ephQueue[i].at)
        BY <1>1, <1>3 DEF TableIsThen
    <3> HIDE DEF at
    <3>2. QED
        BY <1>8, <1>9, <2>1, <3>1
  <2>4. \A s \in EphSats : OfNav(ephConfig, s) \subseteq Entries(ephTable[s])
      BY <1>1, <1>3 DEF TableIsThen
  <2>5. QED
      BY <1>3, <1>5, <2>2, <2>3, <2>4 DEF TableIsThen
<1>14. AllServedRightly'
    BY <1>1, <1>3 DEF AllServedRightly
<1>15. QED
    BY <1>10, <1>11, <1>12, <1>13, <1>14 DEF EphIInv

\* One more epoch served rightly.
LEMMA OneMoreServed ==
  ASSUME EphTypeOK, AllServedRightly, ephConfig' = ephConfig, ephRead' \in Nat, ephRead <= ephRead',
         NEW r, ServedRightly(ephConfig, r), r.at \in 1 .. ephRead',
         r.found \in [EphSats -> Ephemerides \cup {NoEph}],
         r = [at |-> r.at, found |-> r.found],
         ephServed' = Append(ephServed, r)
  PROVE  /\ AllServedRightly'
         /\ ephServed' \in Seq([at : 1 .. ephRead', found : [EphSats -> Ephemerides \cup {NoEph}]])
<1> DEFINE F == [EphSats -> Ephemerides \cup {NoEph}]
           C == [at : 1 .. ephRead, found : F]
           D == [at : 1 .. ephRead', found : F]
<1>1. ephServed \in Seq(C)
    BY DEF EphTypeOK
<1>2. ephRead \in Nat
    BY EphGiven
<1>3. r.found \in F
    OBVIOUS
<1> HIDE DEF F
<1>4. C \subseteq D
    BY <1>2
<1>5. r \in D
  <2>1. [at |-> r.at, found |-> r.found] \in D
      BY <1>3
  <2>2. QED
      BY <2>1, Zenon
<1> HIDE DEF C, D
<1>6. ephServed \in Seq(D)
    BY <1>1, <1>4, SeqInWider
<1>7. /\ ephServed' \in Seq(D) /\ DOMAIN ephServed' = 1 .. Len(ephServed) + 1
      /\ DOMAIN ephServed = 1 .. Len(ephServed) /\ Len(ephServed) \in Nat
      /\ ephServed'[Len(ephServed) + 1] = r
      /\ \A k \in DOMAIN ephServed : ephServed'[k] = ephServed[k]
    BY <1>5, <1>6
<1>8. \A k \in DOMAIN ephServed' : ServedRightly(ephConfig, ephServed'[k])
    BY <1>7 DEF AllServedRightly
<1>9. QED
    BY <1>7, <1>8 DEF AllServedRightly, D, F

LEMMA SolveItemKept == EphIInv /\ SolveItem => EphIInv'
<1> SUFFICES ASSUME EphIInv, SolveItem
             PROVE  EphIInv'
    OBVIOUS
<1>1. EphTypeOK /\ SnapshotsAreThen /\ EpochsInOrder /\ TableIsThen /\ AllServedRightly
    BY DEF EphIInv
<1>2. /\ Log = ephConfig.log /\ Log \in Seq(EphRecords) /\ Len(Log) \in Nat
      /\ ephConfig \in EphConfigs /\ ephConfig.realtime \in BOOLEAN
      /\ ephRead \in Nat /\ ephRead <= Len(Log)
    BY <1>1, EphGiven DEF EphTypeOK
<1> DEFINE entry == Head(ephQueue)
           at == entry.at
           snap == ephSnaps[entry.snap]
           merged == mergeEmbedded(ephTable, snap, ephConfig.log[at].t)
           r == [at |-> at,
                 found |-> [s \in EphSats |-> pickClosest(merged[s], ephConfig.log[at].t)]]
<1>3. /\ ephQueue # <<>> /\ ephQueue' = Tail(ephQueue)
      /\ ephTable' = merged /\ ephServed' = Append(ephServed, r)
      /\ ephConfig' = ephConfig /\ ephRead' = ephRead /\ ephSnaps' = ephSnaps
    BY <1>2 DEF SolveItem, Serve
<1>4. Log' = Log
    BY <1>3 DEF Log
<1>5. 1 \in DOMAIN ephQueue /\ entry = ephQueue[1]
  <2> DEFINE A == [at : 1 .. ephRead, snap : DOMAIN ephSnaps]
  <2>1. ephQueue \in Seq(A)
      BY <1>1 DEF EphTypeOK
  <2> HIDE DEF A
  <2>2. ephQueue # <<>>
      BY <1>3
  <2>3. entry = ephQueue[1]
      BY <2>1, <2>2
  <2>4. 1 \in DOMAIN ephQueue
      BY <2>1, <2>2
  <2>5. QED
      BY <2>3, <2>4
<1>6. ~ephConfig.realtime
    BY <1>1, <1>2, <1>3 DEF TableIsThen
<1>7. /\ at \in 1 .. ephRead /\ entry.snap \in DOMAIN ephSnaps
      /\ Log[at].kind = "epoch" /\ Tells(Log, snap, at)
  <2>1. at \in 1 .. ephRead /\ entry.snap \in DOMAIN ephSnaps
      BY <1>1, <1>5, QueueIsTyped
  <2>2. Log[at].kind = "epoch" /\ Tells(Log, snap, at)
      BY <1>1, <1>5 DEF SnapshotsAreThen
  <2>3. QED
      BY <2>1, <2>2
<1>8. at \in 1 .. Len(Log) /\ snap \in EphSnapshots /\ ephTable \in EphSnapshots
  <2>1. ephSnaps \in Seq(EphSnapshots) /\ ephTable \in EphSnapshots
      BY <1>1 DEF EphTypeOK
  <2>2. QED
      BY <1>2, <1>7, <2>1
<1>9. /\ \A s \in EphSats : OfNav(ephConfig, s) \subseteq Entries(ephTable[s])
      /\ EntriesAreThen(ephConfig, ephTable, ephRead + 1)
      /\ \A i \in DOMAIN ephQueue : EntriesAreThen(ephConfig, ephTable, ephQueue[i].at)
    BY <1>1, <1>6 DEF TableIsThen
<1>10. EntriesAreThen(ephConfig, ephTable, at)
    BY <1>5, <1>9
<1> HIDE DEF entry, at, snap
<1>11. /\ merged \in EphSnapshots
       /\ EntriesAreThen(ephConfig, merged, at)
       /\ \A s \in EphSats : Entries(ephTable[s]) \subseteq Entries(merged[s])
       /\ \A s \in EphSats :
            Entries(merged[s]) \subseteq Entries(ephTable[s]) \cup SaidBefore(ephConfig.log, s, at)
       /\ \A s \in EphSats : \A e \in OfNav(ephConfig, s) \cup SaidLast(ephConfig.log, s, at) :
            Usable(e, ephConfig, at) => hasUsableNear(merged[s], ephConfig.log[at].t)
    BY <1>2, <1>7, <1>8, <1>9, <1>10, MergedTable
<1> HIDE DEF merged
<1>12. r.found \in [EphSats -> Ephemerides \cup {NoEph}] /\ ServedRightly(ephConfig, r)
    BY <1>2, <1>7, <1>8, <1>11, ClosestFound
<1>13. r = [at |-> r.at, found |-> r.found] /\ r.at = at
    OBVIOUS
<1> HIDE DEF r
<1>14. /\ AllServedRightly'
       /\ ephServed' \in Seq([at : 1 .. ephRead', found : [EphSats -> Ephemerides \cup {NoEph}]])
  <2>1. ephRead' \in Nat /\ ephRead <= ephRead' /\ r.at \in 1 .. ephRead'
      BY <1>2, <1>3, <1>7, <1>13
  <2>2. ephServed' = Append(ephServed, r) /\ ephConfig' = ephConfig
      BY <1>3
  <2>3. QED
      BY <1>1, <1>12, <1>13, <2>1, <2>2, OneMoreServed
<1>15. /\ DOMAIN ephQueue' \subseteq Nat
       /\ \A i \in DOMAIN ephQueue' : i + 1 \in DOMAIN ephQueue /\ ephQueue'[i] = ephQueue[i + 1]
       /\ ephQueue' \in Seq([at : 1 .. ephRead', snap : DOMAIN ephSnaps'])
  <2> DEFINE A == [at : 1 .. ephRead, snap : DOMAIN ephSnaps]
  <2>1. ephQueue \in Seq(A)
      BY <1>1 DEF EphTypeOK
  <2> HIDE DEF A
  <2>2. /\ DOMAIN ephQueue' \subseteq Nat /\ ephQueue' \in Seq(A)
        /\ \A i \in DOMAIN ephQueue' : i + 1 \in DOMAIN ephQueue /\ ephQueue'[i] = ephQueue[i + 1]
      BY <1>3, <2>1
  <2>3. QED
      BY <1>3, <2>2 DEF A
<1>16. EphTypeOK'
  <2>1. /\ ephConfig' \in EphConfigs /\ ephRead' \in 0 .. Len(Log')
        /\ ephSnaps' \in Seq(EphSnapshots) /\ ephSnaps' # <<>>
      BY <1>1, <1>3, <1>4 DEF EphTypeOK
  <2>2. ephTable' \in EphSnapshots
      BY <1>3, <1>11
  <2>3. QED
      BY <1>14, <1>15, <2>1, <2>2 DEF EphTypeOK
<1>17. SnapshotsAreThen'
    BY <1>1, <1>3, <1>4, <1>15 DEF SnapshotsAreThen
<1>18. EpochsInOrder'
  <2> SUFFICES ASSUME NEW i \in DOMAIN ephQueue', NEW j \in DOMAIN ephQueue', i < j
               PROVE  ephQueue'[i].at <= ephQueue'[j].at
      BY DEF EpochsInOrder
  <2>1. i + 1 \in DOMAIN ephQueue /\ j + 1 \in DOMAIN ephQueue /\ i + 1 < j + 1
      BY <1>15
  <2>2. ephQueue[i + 1].at <= ephQueue[j + 1].at
      BY <1>1, <2>1 DEF EpochsInOrder
  <2>3. QED
      BY <1>15, <2>2
<1>19. TableIsThen'
  <2>1. \A s \in EphSats : OfNav(ephConfig, s) \subseteq Entries(merged[s])
      BY <1>9, <1>11
  <2>2. ASSUME NEW bt \in Nat, at <= bt, EntriesAreThen(ephConfig, ephTable, bt)
        PROVE  EntriesAreThen(ephConfig, merged, bt)
    <3>1. \A s \in EphSats : SaidBefore(Log, s, at) \subseteq SaidBefore(Log, s, bt)
        BY <1>2, <1>7, <2>2, SaidGrows
    <3>2. QED
        BY <1>2, <1>11, <2>2, <3>1 DEF EntriesAreThen
  <2>3. EntriesAreThen(ephConfig, merged, ephRead + 1)
      BY <1>2, <1>7, <1>9, <2>2
  <2>4. \A i \in DOMAIN ephQueue' : EntriesAreThen(ephConfig, merged, ephQueue'[i].at)
    <3> SUFFICES ASSUME NEW i \in DOMAIN ephQueue'
                 PROVE  EntriesAreThen(ephConfig, merged, ephQueue'[i].at)
        OBVIOUS
    <3>1. i + 1 \in DOMAIN ephQueue /\ ephQueue'[i] = ephQueue[i + 1]
        BY <1>15
    <3>2. ephQueue[i + 1].at \in 1 .. ephRead
        BY <1>1, <3>1, QueueIsTyped
    <3>3. 1 <= i + 1
        BY <1>15, <3>1
    <3>4. at <= ephQueue[i + 1].at
      <4>1. CASE i + 1 = 1
          BY <1>5, <1>7, <4>1 DEF at
      <4>2. CASE 1 < i + 1
          BY <1>1, <1>5, <3>1, <4>2 DEF EpochsInOrder, at
      <4>3. QED
          BY <1>15, <3>3, <4>1, <4>2
    <3>5. EntriesAreThen(ephConfig, ephTable, ephQueue[i + 1].at)
        BY <1>9, <3>1
    <3>6. QED
        BY <1>2, <2>2, <3>1, <3>2, <3>4, <3>5
  <2>5. QED
      BY <1>3, <1>6, <2>1, <2>3, <2>4 DEF TableIsThen
<1>20. QED
    BY <1>14, <1>16, <1>17, <1>18, <1>19 DEF EphIInv

\* A realtime session serves the epoch at once, from the snapshot.
LEMMA PumpEpochKept == EphIInv /\ PumpEpoch => EphIInv'
<1> SUFFICES ASSUME EphIInv, PumpEpoch
             PROVE  EphIInv'
    OBVIOUS
<1>1. EphTypeOK /\ SnapshotsAreThen /\ EpochsInOrder /\ TableIsThen /\ AllServedRightly
    BY DEF EphIInv
<1>2. /\ Log = ephConfig.log /\ Log \in Seq(EphRecords) /\ Len(Log) \in Nat
      /\ ephConfig \in EphConfigs /\ ephConfig.realtime \in BOOLEAN
      /\ ephRead \in Nat /\ ephRead <= Len(Log)
    BY <1>1, EphGiven DEF EphTypeOK
<1> DEFINE at == ephRead + 1
           snap == ephSnaps[Len(ephSnaps)]
           r == [at |-> at,
                 found |-> [s \in EphSats |-> pickClosest(snap[s], ephConfig.log[at].t)]]
<1>3. /\ ephConfig.realtime /\ ephRead < Len(Log) /\ Log[at].kind = "epoch"
      /\ ephRead' = at /\ ephTable' = snap /\ ephServed' = Append(ephServed, r)
      /\ ephConfig' = ephConfig /\ ephSnaps' = ephSnaps /\ ephQueue' = ephQueue
    BY <1>2 DEF PumpEpoch, Serve, Last
<1>4. Log' = Log
    BY <1>3 DEF Log
<1>5. at \in 1 .. Len(Log) /\ at \in 1 .. ephRead' /\ ephRead <= ephRead' /\ ephRead' \in Nat
    BY <1>2, <1>3
<1>6. /\ ephSnaps \in Seq(EphSnapshots) /\ snap \in EphSnapshots /\ Tells(Log, snap, at)
    BY <1>1 DEF EphTypeOK, SnapshotsAreThen
<1>7. ephQueue = <<>>
    BY <1>1, <1>3 DEF TableIsThen
<1> HIDE DEF at, snap
<1>8. EntriesAreThen(ephConfig, snap, at)
    BY <1>2, <1>6 DEF EntriesAreThen, Tells, Entries
<1>9. \A s \in EphSats : \A e \in OfNav(ephConfig, s) \cup SaidLast(ephConfig.log, s, at) :
        Usable(e, ephConfig, at) => hasUsableNear(snap[s], ephConfig.log[at].t)
  <2> SUFFICES ASSUME NEW s \in EphSats, NEW e \in SaidLast(Log, s, at), Usable(e, ephConfig, at)
               PROVE  hasUsableNear(snap[s], ephConfig.log[at].t)
      BY <1>2, <1>3 DEF OfNav
  <2>1. snap[s] # <<>> /\ snap[s][1].toe = e.toe /\ snap[s] \in Seq(Ephemerides)
      BY <1>6 DEF Tells, EphSnapshots
  <2>2. 1 \in DOMAIN snap[s]
      BY <2>1
  <2>3. ageSeconds(snap[s][1], ephConfig.log[at].t) = ageSeconds(e, ephConfig.log[at].t)
      BY <2>1 DEF ageSeconds
  <2>4. QED
      BY <2>2, <2>3 DEF hasUsableNear, Usable
<1>10. r.found \in [EphSats -> Ephemerides \cup {NoEph}] /\ ServedRightly(ephConfig, r)
    BY <1>2, <1>3, <1>5, <1>6, <1>8, <1>9, ClosestFound
<1>11. r = [at |-> r.at, found |-> r.found] /\ r.at = at
    OBVIOUS
<1> HIDE DEF r
<1>12. /\ AllServedRightly'
       /\ ephServed' \in Seq([at : 1 .. ephRead', found : [EphSats -> Ephemerides \cup {NoEph}]])
    BY <1>1, <1>3, <1>5, <1>10, <1>11, OneMoreServed
<1>13. EphTypeOK'
  <2>1. /\ ephConfig' \in EphConfigs /\ ephRead' \in 0 .. Len(Log')
        /\ ephSnaps' \in Seq(EphSnapshots) /\ ephSnaps' # <<>>
        /\ ephTable' \in EphSnapshots
      BY <1>1, <1>2, <1>3, <1>4, <1>5, <1>6 DEF EphTypeOK
  <2>2. ephQueue' \in Seq([at : 1 .. ephRead', snap : DOMAIN ephSnaps'])
      BY <1>3, <1>7
  <2>3. QED
      BY <1>12, <2>1, <2>2 DEF EphTypeOK
<1>14. SnapshotsAreThen'
  <2>1. Tells(Log, snap, at + 1)
      BY <1>2, <1>3, <1>5, <1>6, TellsOn
  <2>2. QED
      BY <1>3, <1>4, <1>7, <2>1 DEF SnapshotsAreThen, snap
<1>15. EpochsInOrder'
    BY <1>3, <1>7 DEF EpochsInOrder
<1>16. TableIsThen'
    BY <1>3, <1>7 DEF TableIsThen
<1>17. QED
    BY <1>12, <1>13, <1>14, <1>15, <1>16 DEF EphIInv

LEMMA EphStutterKept == EphIInv /\ UNCHANGED ephVars => EphIInv'
<1> SUFFICES ASSUME EphIInv, UNCHANGED ephVars
             PROVE  EphIInv'
    OBVIOUS
<1>1. /\ ephConfig' = ephConfig /\ ephRead' = ephRead /\ ephSnaps' = ephSnaps
      /\ ephQueue' = ephQueue /\ ephTable' = ephTable /\ ephServed' = ephServed
    BY DEF ephVars
<1>2. Log' = Log
    BY <1>1 DEF Log
<1>3. EphTypeOK'
    BY <1>1, <1>2 DEF EphIInv, EphTypeOK
<1>4. SnapshotsAreThen' /\ EpochsInOrder'
    BY <1>1, <1>2 DEF EphIInv, SnapshotsAreThen, EpochsInOrder
<1>5. TableIsThen' /\ AllServedRightly'
    BY <1>1 DEF EphIInv, TableIsThen, AllServedRightly
<1>6. QED
    BY <1>3, <1>4, <1>5 DEF EphIInv

\* What the reader, the queue and the table know of each other, however far the reader
\* is ahead of the solver.
THEOREM EphInvariant == EphSpec => []EphIInv
<1>1. EphIInv /\ [EphNext]_ephVars => EphIInv'
    BY ReadEphemerisKept, ReadItemKept, SolveItemKept, PumpEpochKept, EphStutterKept DEF EphNext
<1>2. QED
    BY <1>1, EphStarts, PTL DEF EphSpec

\* Every epoch is served from what was usable when it was read, and only that: for any
\* log, navigation files, limit of age and depth of the queue.
THEOREM EphemeridesServedThen == EphSpec => []EphServedThen
<1>1. EphIInv => EphServedThen
  <2> SUFFICES ASSUME EphIInv
               PROVE  EphServed /\ EphNotFromLater
      BY DEF EphServedThen
  <2>1. Log = ephConfig.log
      BY DEF Log
  <2>2. \A s, at : LoggedBefore(s, at) = SaidBefore(Log, s, at)
      BY Zenon DEF LoggedBefore, SaidBefore, Said
  <2>3. \A s, at : LoggedLast(s, at) = SaidLast(Log, s, at)
      BY Zenon DEF LoggedLast, SaidLast, Said
  <2>4. \A s : FromNav(s) = OfNav(ephConfig, s)
      BY Zenon DEF FromNav, OfNav, Entries
  <2>5. \A k \in DOMAIN ephServed : ServedRightly(ephConfig, ephServed[k])
      BY DEF EphIInv, AllServedRightly
  <2>6. EphServed
      BY <2>1, <2>3, <2>4, <2>5 DEF EphServed, ServedRightly, Usable
  <2>7. EphNotFromLater
      BY <2>1, <2>2, <2>4, <2>5 DEF EphNotFromLater, ServedRightly
  <2>8. QED
      BY <2>6, <2>7
<1>2. QED
    BY <1>1, EphInvariant, PTL

=============================================================================
