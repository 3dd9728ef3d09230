------------------------------- MODULE MCLive -------------------------------
(***************************************************************************)
(* A realtime session in every mode, or the quality view of a run that is  *)
(* being fed.                                                              *)
(***************************************************************************)
EXTENDS Realtime, QualityView

(* Realtime in every mode, with one tick for the shortest limit. *)

MCAllModes == {"spp", "rtk", "other"}

-----------------------------------------------------------------------------
VARIABLE component   \* what a behaviour is of

\* What a component that does not run would have for input is of no account.
Of(p, S, c) == IF component = p THEN S ELSE {c}
Fixed(p, v, c) == component # p => v = c
AnyMode == CHOOSE x \in Modes : TRUE

LiveInit ==
  /\ component \in {"session", "view"}
  /\ Fixed("session", mode, AnyMode)
  /\ LinkInit
  /\ ViewInit

liveVars == <<component, linkVars, viewVars>>

SessionStep(A) == component = "session" /\ A
  /\ UNCHANGED <<component, viewVars>>
ViewStep(A) == component = "view" /\ A
  /\ UNCHANGED <<component, linkVars>>

LiveNext ==
  \/ SessionStep(LinkNext)
  \/ ViewStep(ViewNext)

LiveSpec ==
  /\ LiveInit /\ [][LiveNext]_liveVars
  /\ WF_liveVars(SessionStep(Session)) /\ WF_liveVars(SessionStep(Tick))
  /\ WF_liveVars(ViewStep(Framing)) /\ WF_liveVars(ViewStep(Working))
  /\ WF_liveVars(ViewStep(Reading))

=============================================================================
