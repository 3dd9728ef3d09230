---------------------------- MODULE MCPppFilter ----------------------------
(***************************************************************************)
(* Three satellites; an epoch is one interval or two after the last, shows *)
(* all of them or lacks one or two, and holds at most one other event.     *)
(***************************************************************************)
EXTENDS PppFilter

MCPppConfigs ==
    {[minSats |-> c[1], useSlip |-> TRUE, keep |-> c[2], interval |-> c[3], leo |-> c[1] = 2] :
       c \in {<<2, 0, 30>>, <<2, 90, 30>>, <<0, 0, -1>>}}

Quiet == [dt |-> 30, see |-> [s \in PppSats |-> "ok"], lli |-> {}, gross |-> {},
          mw |-> [s \in PppSats |-> "near"], skip |-> FALSE, rounds |-> 1,
          diverged |-> FALSE, fast |-> TRUE, offMotion |-> FALSE, poorAnchor |-> FALSE]

Events ==
    {Quiet, [Quiet EXCEPT !.skip = TRUE], [Quiet EXCEPT !.rounds = 0],
     [Quiet EXCEPT !.rounds = 3, !.mw[1] = "step"], [Quiet EXCEPT !.diverged = TRUE],
     [Quiet EXCEPT !.fast = FALSE, !.offMotion = TRUE], [Quiet EXCEPT !.poorAnchor = TRUE]}
    \cup {[Quiet EXCEPT !.lli = L] : L \in {{1}, {3}}}
    \cup {[Quiet EXCEPT !.gross = G] : G \in {{1}, {1, 2}}}
    \cup {[Quiet EXCEPT !.mw[1] = v] : v \in {"step", "stray", "wild", "apart"}}

Sky(H, how) == [s \in PppSats |-> IF s \in H THEN how ELSE "ok"]

Skies == {Sky({1}, how) : how \in {"ok", "absent", "bare", "low"}}
         \cup {Sky({2, 3}, how) : how \in {"absent", "low"}} \cup {Sky(PppSats, "bare")}

MCPppEpochs ==
    {[Quiet EXCEPT !.see = k] : k \in Skies}
    \cup {[Quiet EXCEPT !.dt = 60, !.see = Sky({1}, how)] : how \in {"ok", "absent"}}
    \cup {[v EXCEPT !.see = k] : v \in Events, k \in {Sky({}, "ok"), Sky({2, 3}, "absent")}}
=============================================================================
