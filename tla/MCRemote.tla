----------------------------- MODULE MCRemote -----------------------------
(* Two directories with a file in each, two workers a request. *)
EXTENDS Remote, TLC

CONSTANTS d1, d2, f1, f2

MCDirs == {d1, d2}
MCFiles == {f1, f2}
MCDirOf == (f1 :> d1) @@ (f2 :> d2)
MCWorkers == 2
MCEnqueue == 2
=============================================================================
