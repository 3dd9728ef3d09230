---------------------------- MODULE ProductChoice ---------------------------
(***************************************************************************)
(* The product files of a solving mode: the list the user makes of them,   *)
(* the path per product type that is derived from it, and the settings     *)
(* file that brings both back.  All tabs of one mode share one list; it is *)
(* loaded again whenever a tab is opened.  Every frame ends with a flush   *)
(* of changed settings, which rewrites the file in place: a crash inside   *)
(* leaves its beginning.                                                   *)
(*                                                                         *)
(* Orbits, navigation files and VMF3 grids stand for the product types: a  *)
(* type of which one file is used, the one that an observation file may    *)
(* also bring, and the one of which every file is used.  A file carries    *)
(* what ProductMeta::parse and the ranking take from its name.             *)
(***************************************************************************)
EXTENDS Naturals, Sequences, FiniteSets, SequencesExt

CONSTANTS ProdItems,     \* files that can be chosen
          ProdTypeOf,    \* "orb", "nav", "vmf", or "unknown"
          ProdScoreOf,   \* latency, centre and span in one number
          ProdNameOf,    \* place of the file's name in sorted order
          ProdCut,       \* a path cut short, of no type
          ProdObsBringsNav, \* navigation files an observation may have beside it
          ProdMaxFiles      \* bound on the list

ProdTypes == {"orb", "nav", "vmf"}
ProdAll == ProdItems \cup {ProdCut}

ASSUME ProdAssumption ==
  /\ ProdCut \notin ProdItems
  /\ ProdTypeOf \in [ProdAll -> ProdTypes \cup {"unknown"}] /\ ProdTypeOf[ProdCut] = "unknown"
  /\ ProdScoreOf \in [ProdAll -> Nat]
  /\ ProdNameOf \in [ProdAll -> Nat] /\ IsInjective(ProdNameOf)
  /\ \A f \in ProdObsBringsNav : ProdTypeOf[f] = "nav"
  /\ ProdMaxFiles \in Nat

VARIABLES
  prodFiles,    \* Products::files
  prodField,    \* the paths derived: a sequence for each type
  prodMem,      \* PathMemory's cache: the same, as settings
  prodDirty,
  prodDisk,     \* what the settings file holds
  prodUp        \* "off", "idle" before the first tab of the mode, "open", "ending" for a frame's end

prodVars == <<prodFiles, prodField, prodMem, prodDirty, prodDisk, prodUp>>

ProdNoFields == [t \in ProdTypes |-> <<>>]
ProdNothing == [files |-> <<>>, field |-> ProdNoFields]

ProdInit == /\ prodFiles = <<>> /\ prodField = ProdNoFields
            /\ prodMem = ProdNothing /\ prodDirty = FALSE
            /\ prodDisk = ProdNothing
            /\ prodUp = "off"

-----------------------------------------------------------------------------
(* ProductPicker and Products. *)

ProdBefore(a, b) == \/ ProdScoreOf[a] > ProdScoreOf[b]
                    \/ ProdScoreOf[a] = ProdScoreOf[b] /\ ProdNameOf[a] < ProdNameOf[b]

\* The files of a type by their places in the list; a file of a known type is
\* in the list once.
ProdPlaces(files, t) == {i \in DOMAIN files : ProdTypeOf[files[i]] = t}
ProdAhead(files, t, i) == {j \in ProdPlaces(files, t) : ProdBefore(files[j], files[i])}

\* ProductPicker::rank: the files of the type, best first; k - 1 others are
\* ahead of the k-th.
ProdRank(files, t) ==
  [k \in 1 .. Cardinality(ProdPlaces(files, t)) |->
     files[CHOOSE i \in ProdPlaces(files, t) : Cardinality(ProdAhead(files, t, i)) = k - 1]]

\* bestPath takes the first, bestPaths all.
ProdFirst(ranked) == IF ranked = <<>> THEN <<>> ELSE <<ranked[1]>>

ProdDerived(files) ==
  [t \in ProdTypes |-> IF t = "vmf" THEN ProdRank(files, t) ELSE ProdFirst(ProdRank(files, t))]

\* PathMemory::set: only a changed value makes the settings dirty.
ProdSet(mem) == prodMem' = mem /\ prodDirty' = (prodDirty \/ mem # prodMem)

\* syncFromFiles and save, as every change of the list ends.
ProdResync(files) ==
  /\ Len(files) <= ProdMaxFiles
  /\ prodFiles' = files
  /\ prodField' = ProdDerived(files)
  /\ ProdSet([files |-> files, field |-> ProdDerived(files)])

\* As ProdLoaded would be if each setting were taken as it is.
ProdLoadedApart(mem) == mem.field

\* load: a list that is not empty decides, whatever the other keys say.
ProdLoaded(mem) == IF mem.files = <<>> THEN mem.field ELSE ProdDerived(mem.files)

-----------------------------------------------------------------------------
(* The panel of a tab.  One click in a frame, then the frame ends. *)

ProdClick == prodUp = "open" /\ prodUp' = "ending"

ProdOpenTab ==
  /\ prodUp \in {"idle", "open"} /\ prodUp' = "ending"
  /\ prodFiles' = prodMem.files
  /\ prodField' = ProdLoaded(prodMem)
  /\ UNCHANGED <<prodMem, prodDirty, prodDisk>>

\* A file is appended unless the list has it.
ProdTake(files, f) == IF Contains(files, f) THEN files ELSE Append(files, f)

\* The dialog for several files, and the list of those used before.
ProdAdd ==
  /\ ProdClick
  /\ \E f, g \in ProdItems : ProdResync(ProdTake(ProdTake(prodFiles, f), g))
  /\ UNCHANGED prodDisk

\* A file of the download list is taken in, or out when it is in.
ProdPick ==
  /\ ProdClick
  /\ \/ \E f \in ProdItems : ~Contains(prodFiles, f) /\ ProdResync(Append(prodFiles, f))
     \/ \E i \in DOMAIN prodFiles : prodFiles[i] \in ProdItems /\ ProdResync(RemoveAt(prodFiles, i))
  /\ UNCHANGED prodDisk

ProdRemove ==
  /\ ProdClick
  /\ \E i \in DOMAIN prodFiles : ProdResync(RemoveAt(prodFiles, i))
  /\ UNCHANGED prodDisk

ProdClear == ProdClick /\ ProdResync(<<>>) /\ UNCHANGED prodDisk

\* adoptPath: an observation file brings the navigation file beside it.
ProdObs ==
  /\ ProdClick
  /\ \E f \in ProdObsBringsNav :
       prodField' = [prodField EXCEPT !["nav"] = <<f>>]
  /\ UNCHANGED <<prodFiles, prodMem, prodDirty, prodDisk>>

\* renderFileStart saves what the task is going to load.
ProdStart ==
  /\ ProdClick
  /\ ProdSet([files |-> prodFiles, field |-> prodField])
  /\ UNCHANGED <<prodFiles, prodField, prodDisk>>

-----------------------------------------------------------------------------
(* The settings file. *)

ProdFlush ==
  /\ prodUp = "ending" /\ prodUp' = "open"
  /\ prodDisk' = IF prodDirty THEN prodMem ELSE prodDisk
  /\ prodDirty' = FALSE
  /\ UNCHANGED <<prodFiles, prodField, prodMem>>

\* The beginnings of a list of paths: some whole ones, and one cut short.
ProdCutList(files) == {SubSeq(files, 1, k) : k \in 0 .. Len(files)}
                      \cup {Append(SubSeq(files, 1, k), ProdCut) : k \in 0 .. Len(files) - 1}

\* The keys are written in the order of their names: brdc, files, sp3, vmf.
ProdTorn(mem) ==
  LET none == ProdNoFields
      nav  == [none EXCEPT !["nav"] = mem.field["nav"]]
      orb  == [nav EXCEPT !["orb"] = mem.field["orb"]] IN
  {[files |-> <<>>, field |-> none]}
    \cup {[files |-> q, field |-> nav] : q \in ProdCutList(mem.files)}
    \cup {[files |-> mem.files, field |-> [orb EXCEPT !["vmf"] = q]] : q \in ProdCutList(mem.field["vmf"])}

ProdOff == /\ prodUp' = "off"
           /\ prodFiles' = <<>> /\ prodField' = ProdNoFields
           /\ prodMem' = ProdNothing /\ prodDirty' = FALSE

\* The process is ended, or dies, perhaps while it writes.
ProdDies == /\ prodUp # "off" /\ ProdOff
            /\ \/ UNCHANGED prodDisk
               \/ prodUp = "ending" /\ prodDirty /\ prodDisk' \in ProdTorn(prodMem)

ProdBoot == /\ prodUp = "off" /\ prodUp' = "idle"
            /\ prodMem' = prodDisk
            /\ UNCHANGED <<prodFiles, prodField, prodDirty, prodDisk>>

ProdNext == \/ ProdOpenTab \/ ProdAdd \/ ProdPick \/ ProdRemove \/ ProdClear \/ ProdObs \/ ProdStart
            \/ ProdFlush \/ ProdDies \/ ProdBoot

ProdSpec == ProdInit /\ [][ProdNext]_prodVars

-----------------------------------------------------------------------------
(* Properties *)

\* Whatever the order in which the files came, by which of the ways, and after
\* a settings file cut anywhere: while the list is not empty, the orbit file in
\* use is the one of the list that no other beats, and the VMF3 grids are all
\* those of the list.  The panel marks the same ones as in use.
ProdChosenIsBest ==
  prodFiles # <<>> =>
    LET of(t) == {f \in {prodFiles[i] : i \in DOMAIN prodFiles} : ProdTypeOf[f] = t} IN
    /\ prodField["orb"] = IF of("orb") = {} THEN <<>>
                          ELSE <<CHOOSE f \in of("orb") : \A g \in of("orb") \ {f} : ProdBefore(f, g)>>
    /\ {prodField["vmf"][i] : i \in DOMAIN prodField["vmf"]} = of("vmf")
    /\ Len(prodField["vmf"]) = Cardinality(of("vmf"))

\* A list that was flushed is there again after the next start, with the same
\* files in use, in the order it had.
ProdComesBack ==
  prodUp = "open" /\ ~prodDirty /\ prodFiles # <<>> /\ prodField = ProdDerived(prodFiles)
    => /\ prodDisk.files = prodFiles
       /\ ProdLoaded(prodDisk) = prodField

\* Products.cpp:57: the list decides, so that the settings and the list never
\* say different things.
ProdListDecides == prodFiles # <<>> => prodField = ProdDerived(prodFiles)

\* The best product there is gets chosen, also when it comes back later.
ProdChoiceIsRight == ProdChosenIsBest /\ ProdComesBack

=============================================================================
