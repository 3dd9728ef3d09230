---------------------------- MODULE MCPipelines -----------------------------
(***************************************************************************)
(* The two file pipelines, one at a time.  A four-epoch file whose second  *)
(* epoch is decimated, and a queue of two; five pairs, of which the second is *)
(* decimated and the fourth has no solution, and a queue of one; runs without *)
(* a limit and with limits of one and two epochs; a RINEX source that ends *)
(* at its fourth call, or a NovAtel one; with realtimeSec set or not.      *)
(***************************************************************************)
EXTENDS TaskPipeline, RtkPipeline

MCNumObs == 4
MCQueueDepth == 2
MCAccepted == {1, 3, 4}
MCLimits == {0, 1, 2}
MCkMaxEpochs == 4

-----------------------------------------------------------------------------
MCNumPairs == 5
MCRtkDepth == 1
MCKept == {1, 3, 4, 5}
MCSolvable == {1, 2, 3, 5}
MCRtkLimits == {0, 1, 2}

-----------------------------------------------------------------------------
VARIABLE component   \* what a behaviour is of

\* What a component that does not run would have for input is of no account.
Of(p, S, c) == IF component = p THEN S ELSE {c}
Fixed(p, v, c) == component # p => v = c
AnyMaxEpochs == CHOOSE x \in Limits : TRUE
AnyRtkMaxEpochs == CHOOSE x \in RtkLimits : TRUE

PipelinesInit ==
  /\ component \in {"task", "rtk"}
  /\ Fixed("task", maxEpochs, AnyMaxEpochs) /\ Fixed("task", isRINEX, TRUE)
  /\ Init
  /\ Fixed("rtk", rtkMaxEpochs, AnyRtkMaxEpochs) /\ Fixed("rtk", rtkTimed, TRUE)
  /\ RtkInit

pipelinesVars == <<component, vars, rtkRunVars>>

TaskStep(A) == component = "task" /\ A
  /\ UNCHANGED <<component, rtkRunVars>>
RtkStep(A) == component = "rtk" /\ A
  /\ UNCHANGED <<component, vars>>

PipelinesNext ==
  \/ TaskStep(Next)
  \/ RtkStep(RtkNext)

PipelinesSpec ==
  /\ PipelinesInit /\ [][PipelinesNext]_pipelinesVars
  /\ WF_pipelinesVars(TaskStep(RdNext)) /\ WF_pipelinesVars(TaskStep(SvNext))
  /\ WF_pipelinesVars(TaskStep(WkJoin)) /\ WF_pipelinesVars(TaskStep(WkDone))
  /\ WF_pipelinesVars(TaskStep(wakeQueues)) /\ WF_pipelinesVars(TaskStep(gcClosingTasks))
  /\ WF_pipelinesVars(TaskStep(EraseTask))
  /\ WF_pipelinesVars(RtkStep(RtkRdNext)) /\ WF_pipelinesVars(RtkStep(RtkSvNext))
  /\ WF_pipelinesVars(RtkStep(RtkWkJoin)) /\ WF_pipelinesVars(RtkStep(rtkWakeQueues))

\* Every run ends, of either pipeline: neither thread sleeps for ever on what the
\* other has done, however reader, solver and a cancellation interleave.
EveryRunEnds == /\ component = "task" => RunEnds
                /\ component = "rtk" => RtkRunEnds

=============================================================================
