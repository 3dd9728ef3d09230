------------------------------ MODULE RefTruth ------------------------------
(***************************************************************************)
(* The reference position of a task (app/solvers/view/GuiRefTruth.cpp):    *)
(* three coordinates the user types or pastes, or that a detached thread   *)
(* fetches: the station and the day of the observation file name a weekly  *)
(* SINEX file (core/SinexReader.cpp), two names of which are tried and     *)
(* downloaded to one temporary path; the file is read, the station looked  *)
(* up, the answer published under refFetchMtx.  A frame copies the         *)
(* coordinates under the lock, lets the user edit the copy, and writes     *)
(* back the whole copy if it was edited.                                   *)
(* External: the server, which has some of the names, and whose transfers  *)
(* may break off (Transfer models them in detail).                         *)
(***************************************************************************)
EXTENDS Naturals, FiniteSets

CONSTANTS RefTasks,     \* tabs whose observation files are of one week
          RefServed,    \* what the server may have: functions from RefNames
          RefMaxFetches, \* bound: fetches started, all tasks together
          RefMaxEdits,  \* bound: edits of the fields and the observation path
          RefMaxBreaks  \* bound: transfers that break off

ASSUME RefAssumption == RefMaxFetches \in Nat /\ RefMaxEdits \in Nat
                        /\ RefMaxBreaks \in Nat

VARIABLES refXyz,      \* by task and coordinate: where the number comes from
          refStatus,   \* refFetchStatus with refFetchStation
          refObs,      \* view.obsPathBuf: its station, or none
          refFrame,    \* disp: the copy a frame is drawn with
          refJob,      \* the thread: its station, and how far it is
          refTmp,      \* the temporary path: the names whose bytes it holds
          refServer,   \* what the server has
          refLeft      \* bounds: fetches, edits, breaks still allowed

refVars == <<refXyz, refStatus, refObs, refFrame, refJob, refTmp, refServer, refLeft>>

RefAxes == {"x", "y", "z"}
RefStations == {"s1", "s2"}

\* Observation files: of a station, with a name too short to have one, and with
\* a station and no day.
RefObsFiles == RefStations \cup {"short", "dayless"}

\* cands: the two names of a week's file, in the order they are tried.
RefNames == {"crd", "snx"}

\* What a name is on the server: whether it is there, whether it reads as
\* SINEX, and the stations in it.
RefFile(there, reads, holds) == [there |-> there, reads |-> reads, holds |-> holds]

RefHolds(served, station) == served.reads /\ station \in served.holds

RefIdle == [at |-> "idle", station |-> "", name |-> ""]
RefNoFrame == [xyz |-> [c \in RefAxes |-> "none"], open |-> FALSE]

RefAnswer(station) == [c \in RefAxes |-> station]

\* The coordinates are those that restore found, or the zeros of a new task.
RefInit ==
  /\ refXyz = [t \in RefTasks |-> RefAnswer("saved")]
  /\ refStatus = [t \in RefTasks |-> [what |-> "", station |-> ""]]
  /\ refObs \in [RefTasks -> RefObsFiles]
  /\ refFrame = [t \in RefTasks |-> RefNoFrame]
  /\ refJob = [t \in RefTasks |-> RefIdle]
  /\ refTmp = {}
  /\ refServer \in RefServed
  /\ refLeft = [fetch |-> RefMaxFetches, edit |-> RefMaxEdits, break |-> RefMaxBreaks]

RefUse(bound) == refLeft[bound] > 0 /\ refLeft' = [refLeft EXCEPT ![bound] = @ - 1]

-----------------------------------------------------------------------------
(* The frame.                                                              *)

\* renderRefTruthField copies the coordinates under the lock.
RefFrameBegin(t) ==
  /\ ~refFrame[t].open
  /\ refFrame' = [refFrame EXCEPT ![t] = [xyz |-> refXyz[t], open |-> TRUE]]
  /\ UNCHANGED <<refXyz, refStatus, refObs, refJob, refTmp, refServer, refLeft>>

\* Coordinates typed, or the first of them pasted, maybe none: the whole copy is
\* written all the same.
RefFrameEdit(t, axes) ==
  LET disp == [c \in RefAxes |-> IF c \in axes THEN "typed" ELSE refFrame[t].xyz[c]]
  IN  /\ refFrame[t].open
      /\ RefUse("edit")
      /\ refXyz' = [refXyz EXCEPT ![t] = disp]
      /\ refFrame' = [refFrame EXCEPT ![t] = RefNoFrame]
      /\ UNCHANGED <<refStatus, refObs, refJob, refTmp, refServer>>

RefFrameQuiet(t) ==
  /\ refFrame[t].open
  /\ refFrame' = [refFrame EXCEPT ![t] = RefNoFrame]
  /\ UNCHANGED <<refXyz, refStatus, refObs, refJob, refTmp, refServer, refLeft>>

\* startRefFetch, at the end of the frame that was drawn with the button on.
RefStart(t) ==
  /\ refFrame[t].open
  /\ refJob[t].at = "idle"
  /\ RefUse("fetch")
  /\ refStatus' = [refStatus EXCEPT ![t] = [what |-> "fetching", station |-> ""]]
  /\ refJob' = [refJob EXCEPT ![t] =
       CASE refObs[t] = "short" -> [RefIdle EXCEPT !.at = "done"]
         [] refObs[t] = "dayless" -> [RefIdle EXCEPT !.at = "undated", !.station = "s1"]
         [] OTHER -> [at |-> "load", station |-> refObs[t], name |-> "crd"]]
  /\ refFrame' = [refFrame EXCEPT ![t] = RefNoFrame]
  /\ UNCHANGED <<refXyz, refObs, refTmp, refServer>>

\* Another observation file is chosen; the thread keeps the one it copied.
RefOtherFile(t, obs) ==
  /\ refObs[t] # obs
  /\ RefUse("edit")
  /\ refObs' = [refObs EXCEPT ![t] = obs]
  /\ UNCHANGED <<refXyz, refStatus, refFrame, refJob, refTmp, refServer>>

-----------------------------------------------------------------------------
(* The thread.                                                             *)

\* After a name whose download failed for good comes the second; after the
\* second, nothing is left to read.
RefTryNext(t) ==
  refJob' = [refJob EXCEPT ![t] = IF @.name = "crd" THEN [@ EXCEPT !.name = "snx"]
                                                    ELSE [@ EXCEPT !.at = "failed"]]

\* downloadFile: a name the server does not have removes the temporary file.
RefGone(t) ==
  /\ refJob[t].at = "load"
  /\ ~refServer[refJob[t].name].there
  /\ refTmp' = {}
  /\ RefTryNext(t)
  /\ UNCHANGED <<refXyz, refStatus, refObs, refFrame, refServer, refLeft>>

\* Every attempt broke off: what has come stays at the path.
RefBroken(t) ==
  /\ refJob[t].at = "load"
  /\ refServer[refJob[t].name].there
  /\ RefUse("break")
  /\ refTmp' = refTmp \cup {refJob[t].name}
  /\ RefTryNext(t)
  /\ UNCHANGED <<refXyz, refStatus, refObs, refFrame, refServer>>

\* A download resumes after the bytes that are at the path, whatever file they
\* are of.
RefLoaded(t) ==
  /\ refJob[t].at = "load"
  /\ refServer[refJob[t].name].there
  /\ refTmp' = refTmp \cup {refJob[t].name}
  /\ refJob' = [refJob EXCEPT ![t].at = "read"]
  /\ UNCHANGED <<refXyz, refStatus, refObs, refFrame, refServer, refLeft>>

\* readFile and getStation: the outcome of a file that has come whole; of one
\* that is gone or mixed, reading fails or finds some of its stations.
RefOutcomes(t) ==
  LET whole == refTmp = {refJob[t].name}
      held  == refServer[refJob[t].name]
  IN  IF refTmp = {} \/ (whole /\ ~held.reads) THEN {"unread"}
      ELSE IF whole
        THEN {IF RefHolds(held, refJob[t].station) THEN "found" ELSE "absent"}
        ELSE {"unread", "absent", "found"}

\* The temporary file is removed when fetchStationXYZ returns.
RefRead(t, outcome) ==
  /\ refJob[t].at = "read"
  /\ outcome \in RefOutcomes(t)
  /\ refJob' = [refJob EXCEPT ![t].at = outcome]
  /\ refTmp' = {}
  /\ UNCHANGED <<refXyz, refStatus, refObs, refFrame, refServer, refLeft>>

\* The status a fetch ends with.  readFile keeps its reason in a member of its
\* own, so what the caller got from it is empty.
RefToldBy(at) ==
  CASE at = "done"  -> "unknown"
    [] at = "found" -> "got"
    [] at = "undated" -> "undated"
    [] at = "failed" -> "download"
    [] OTHER -> "absent"

\* As RefPublished would be if a failure put its empty coordinates there too.
PublishedAlways(t) == RefAnswer(IF refJob[t].at = "found" THEN refJob[t].station ELSE "empty")

RefPublished(t) == IF refJob[t].at = "found" THEN RefAnswer(refJob[t].station) ELSE refXyz[t]

\* The answer is published under the lock; failed downloads clean up here.
RefPublish(t) ==
  /\ refJob[t].at \in {"done", "undated", "failed", "found", "absent", "unread"}
  /\ refXyz' = [refXyz EXCEPT ![t] = RefPublished(t)]
  /\ refStatus' = [refStatus EXCEPT ![t] =
       [what |-> RefToldBy(refJob[t].at), station |-> refJob[t].station]]
  /\ refTmp' = IF refJob[t].at = "failed" THEN {} ELSE refTmp
  /\ refJob' = [refJob EXCEPT ![t] = RefIdle]
  /\ UNCHANGED <<refObs, refFrame, refServer, refLeft>>

RefNext ==
  \E t \in RefTasks :
    \/ RefFrameBegin(t)
    \/ \E axes \in {{}, {"x"}, {"x", "y"}, RefAxes} : RefFrameEdit(t, axes)
    \/ RefFrameQuiet(t)
    \/ RefStart(t)
    \/ \E obs \in RefStations : RefOtherFile(t, obs)
    \/ RefGone(t)
    \/ RefBroken(t)
    \/ RefLoaded(t)
    \/ \E outcome \in {"unread", "absent", "found"} : RefRead(t, outcome)
    \/ RefPublish(t)

RefSpec == RefInit /\ [][RefNext]_refVars

-----------------------------------------------------------------------------
\* The reference never becomes a mixture of two answers: coordinates the user
\* did not type are all of one origin, whatever a frame and a thread write in
\* turn; and coordinates of a station are only there if a file the server had
\* held that station, unless transfers were mixed.
RefOneAnswer ==
  \A t \in RefTasks :
    LET given == {refXyz[t][c] : c \in RefAxes} \ {"typed"}
    IN  /\ Cardinality(given) <= 1
        /\ refLeft["break"] = RefMaxBreaks =>
             \A s \in given \cap RefStations :
               \E n \in RefNames : RefHolds(refServer[n], s)

\* A fetch that fails leaves the reference the user had.
RefFailureKeeps ==
  [][\A t \in RefTasks :
       refStatus'[t] # refStatus[t] /\ refStatus'[t].what # "got"
         => refXyz'[t] = refXyz[t]]_refVars

\* What the panel says of a fetch is what happened: a file is blamed for
\* missing the station only when it was read and does not hold it.
RefTold ==
  \A t \in RefTasks :
    refStatus[t].what = "absent" =>
      \E n \in RefNames : /\ refServer[n].reads
                          /\ refStatus[t].station \notin refServer[n].holds

\* The reference is of one origin, and a failed fetch leaves it alone.
RefIsKept == []RefOneAnswer /\ RefFailureKeeps

=============================================================================
