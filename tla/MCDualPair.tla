----------------------------- MODULE MCDualPair -----------------------------
(***************************************************************************)
(* A sampling interval of four units, files of up to seven epochs around   *)
(* the end of a week, one station even (from the start or starting late),  *)
(* the other with any gaps and a clock offset of up to half the interval.  *)
(***************************************************************************)
EXTENDS DualPair

Grid(offset) == [i \in 1 .. 7 |-> 4 * (i + 4) + offset]
Without(gaps) == SelectSeq(Grid(0), LAMBDA time : time \notin gaps)
Subfiles(grid) == {SelectSeq(grid, LAMBDA time : time \in kept) :
                     kept \in {s \in SUBSET {grid[i] : i \in 1 .. 7} : Cardinality(s) > 3}}

MCBaseFiles == {Without({}), Without({20, 24})}
MCRoverFiles == UNION {Subfiles(Grid(offset)) : offset \in {0, 1, 2}}
MCThinnedFiles == {Without(gaps) : gaps \in SUBSET {24, 28, 32}}
MCNone == {0}
MCThinning == {8}
MCWeek == 36
MCWindow == 4
MCMinSamples == 3
MCMaxSaneGap == 16
=============================================================================
