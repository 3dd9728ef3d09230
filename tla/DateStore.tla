------------------------------ MODULE DateStore -----------------------------
(***************************************************************************)
(* The directory of one day in the download library.  A download worker    *)
(* renames a finished archive into it and unpacks it: .gz to plain, and a  *)
(* compact observation file on to standard RINEX, removing each archive    *)
(* behind it.  The GUI thread lists and looks up the same directory every  *)
(* frame, unpacks what it finds packed, and deletes what the user asked    *)
(* for.  decompressIfNeeded runs under one mutex, whoever calls it.        *)
(*                                                                         *)
(* The transfer up to the rename is module Transfer.  A file is followed   *)
(* by the three forms it can have on the disk, each absent, torn or whole; *)
(* a crash leaves the disk as it is.  Bounds: LibMaxLoads downloads and    *)
(* LibMaxFaults faults (crashes, failed writes, failed removals).          *)
(***************************************************************************)
EXTENDS Naturals, FiniteSets

CONSTANTS LibObs,        \* observation files, published as .crx.gz
          LibProds,      \* products, published as .gz
          LibMaxLoads, LibMaxFaults,
          LibFlushLoses  \* {TRUE, FALSE} if closing a restored file may fail

ASSUME LibAssumption == LibObs \cap LibProds = {} /\ LibMaxLoads \in Nat /\ LibMaxFaults \in Nat

VARIABLES
  libDisk,      \* the state of each form of each file
  libIndex,     \* manifest.jsonl: the paths it names
  libHold,      \* who holds decodeMutex, for which file, at which step
  libJob,       \* where the worker of each file stands, and the path it got
  libLoads, libFaults,
  libGui,       \* where the frame stands
  libTodo,      \* packed names the listing still has to unpack
  libFresh,     \* kinds whose cached list has the directory's time stamp
  libShown,     \* the local path the panel shows for each file
  libRemote,    \* files the mirror's directory lists
  libAsked,     \* paths put to the user for deletion
  libArrived    \* history: files that arrived and of which nothing was deleted

libOfDisk == <<libDisk, libIndex, libArrived>>
libOfJobs == <<libHold, libJob, libLoads>>
libOfGui  == <<libGui, libTodo, libShown, libAsked, libRemote>>
libVars   == <<libOfDisk, libOfJobs, libOfGui, libFresh, libFaults>>

LibFiles == LibObs \cup LibProds
LibForms == {"gz", "crx", "out"}
LibKindOf(f) == IF f \in LibObs THEN "obs" ELSE "product"
LibFree == [by |-> "none", file |-> "none", at |-> "none"]

\* What a .gz holds: a compact file, or the product itself.
LibUnzipped(f) == IF f \in LibObs THEN "crx" ELSE "out"
LibHas(f, form) == libDisk[f][form] # "no"
LibPresent == {p \in LibFiles \X LibForms : LibHas(p[1], p[2])}

\* The manifest is rewritten as a whole under a temporary name and renamed.
LibWriteIndex(entries) == libIndex' = entries

\* One line is appended, unless an entry names the path already.
LibAppendIndex(path) == libIndex' = libIndex \cup {path}

LibInit ==
  /\ libDisk = [f \in LibFiles |-> [form \in LibForms |-> "no"]]
  /\ libIndex = {} /\ libArrived = {}
  /\ libHold = LibFree
  /\ libJob = [f \in LibFiles |-> [at |-> "none", got |-> "gz"]]
  /\ libLoads = 0 /\ libFaults = 0
  /\ libGui = "ready" /\ libTodo = {} /\ libAsked = {}
  /\ libFresh = {}
  /\ libShown = [f \in LibFiles |-> "none"]
  /\ libRemote \in SUBSET LibFiles

-----------------------------------------------------------------------------
(* decompressIfNeeded. *)

\* A form changes its state; a name that comes or goes changes the time stamp.
LibPut(f, form, state) ==
  /\ libDisk' = [libDisk EXCEPT ![f][form] = state]
  /\ libFresh' = IF (state = "no") = ~LibHas(f, form) THEN libFresh
                 ELSE libFresh \ {LibKindOf(f)}

LibAt(step) == libHold.at = step
LibGoto(step) == libHold' = [libHold EXCEPT !.at = step] /\ UNCHANGED <<libJob, libGui, libShown, libTodo>>

LibEntry(form) == IF form = "gz" THEN "open" ELSE "decode"

\* The path returned goes to whoever called.
LibReturn(form) ==
  LET f == libHold.file IN
  /\ libHold' = LibFree
  /\ IF libHold.by = "worker"
     THEN /\ libJob' = [libJob EXCEPT ![f] = [at |-> "record", got |-> form]]
          /\ UNCHANGED <<libGui, libShown, libTodo>>
     ELSE /\ IF libGui = "find" /\ libTodo = {}
             THEN /\ libGui' = "look"
                  /\ libShown' = [libShown EXCEPT ![f] = IF libDisk'[f].out = "no" THEN "none" ELSE "out"]
             ELSE UNCHANGED <<libGui, libShown>>
          /\ UNCHANGED <<libJob, libTodo>>

LibToolKeeps == UNCHANGED <<libIndex, libArrived, libLoads, libAsked, libRemote>>

LibFault(n) == libFaults + n <= LibMaxFaults /\ libFaults' = libFaults + n

\* gzopen fails when the archive is gone; else the output is cut to nothing, if it opens.
LibOpen ==
  /\ LibAt("open") /\ LibToolKeeps
  /\ LET f == libHold.file IN
     \/ /\ IF LibHas(f, "gz") THEN LibFault(1) ELSE UNCHANGED libFaults
        /\ UNCHANGED <<libDisk, libFresh>> /\ LibReturn("gz")
     \/ /\ LibHas(f, "gz") /\ UNCHANGED libFaults
        /\ LibPut(f, LibUnzipped(f), "torn") /\ LibGoto("write")

\* Nobody looks whether an archive that is to go does go.
LibRemove(f, form) ==
  \/ LibPut(f, form, "no") /\ UNCHANGED libFaults
  \/ LibHas(f, form) /\ LibFault(1) /\ UNCHANGED <<libDisk, libFresh>>

LibWritten ==
  /\ LibAt("write") /\ LibToolKeeps /\ UNCHANGED libFaults
  /\ LibPut(libHold.file, LibUnzipped(libHold.file), "whole")
  /\ LibGoto("drop")

\* As LibWriteFails would be if nobody looked at the stream.
LibWriteUnseen ==
  /\ LibAt("write") /\ LibToolKeeps
  /\ LibFault(1)
  /\ UNCHANGED <<libDisk, libFresh>>
  /\ LibGoto("drop")

\* What was written is removed again, if that does not fail too.
LibWriteFails ==
  /\ LibAt("write") /\ LibToolKeeps
  /\ \E n \in {1, 2} :
       /\ LibFault(n)
       /\ IF n = 1 THEN LibPut(libHold.file, LibUnzipped(libHold.file), "no")
                   ELSE UNCHANGED <<libDisk, libFresh>>
  /\ LibReturn("gz")

LibDrop ==
  /\ LibAt("drop") /\ LibToolKeeps
  /\ LibRemove(libHold.file, "gz")
  /\ IF libHold.file \in LibObs THEN LibGoto("decode") ELSE LibReturn("out")

\* isCompactRINEX reads the first line: a torn file may not have one.
LibDecode ==
  /\ LibAt("decode") /\ LibToolKeeps /\ UNCHANGED libFaults
  /\ LET f == libHold.file IN
     \/ /\ libDisk[f].crx # "whole"
        /\ UNCHANGED <<libDisk, libFresh>> /\ LibReturn("crx")
     \/ /\ LibHas(f, "crx")
        /\ LibPut(f, "out", "torn") /\ LibGoto("redo")

\* Nobody looks at the stream when it is closed: what the last flush loses is lost.
LibDecoded ==
  /\ LibAt("redo") /\ LibToolKeeps
  /\ \E lost \in LibFlushLoses :
       /\ IF lost THEN LibFault(1) ELSE UNCHANGED libFaults
       /\ LibPut(libHold.file, "out", IF lost THEN "torn" ELSE libDisk[libHold.file].crx)
  /\ LibGoto("dropCrx")

\* The decoder stops at a record it cannot read, or cannot write.
LibDecodeFails ==
  /\ LibAt("redo") /\ LibToolKeeps
  /\ \/ libDisk[libHold.file].crx = "torn" /\ UNCHANGED libFaults
     \/ LibFault(1)
  /\ LibPut(libHold.file, "out", "no")
  /\ LibReturn("crx")

LibDropCrx ==
  /\ LibAt("dropCrx") /\ LibToolKeeps
  /\ LibRemove(libHold.file, "crx")
  /\ LibReturn("out")

LibTool == \/ LibOpen \/ LibWritten \/ LibWriteFails \/ LibDrop
           \/ LibDecode \/ LibDecoded \/ LibDecodeFails \/ LibDropCrx

LibTake(who, f, form) == /\ libHold = LibFree
                         /\ libHold' = [by |-> who, file |-> f, at |-> LibEntry(form)]

-----------------------------------------------------------------------------
(* The worker of a file: the end of runDownload. *)

LibJobGoes(f, from, to) == /\ libJob[f].at = from
                           /\ libJob' = [libJob EXCEPT ![f].at = to]

\* A click in the day's list, also on a file that is there, or "fetch all".
LibClick(f) ==
  /\ libGui = "look" /\ libAsked = {} /\ f \in libRemote
  /\ libLoads < LibMaxLoads /\ libLoads' = libLoads + 1
  /\ LibJobGoes(f, "none", "transfer")
  /\ UNCHANGED <<libOfDisk, libOfGui, libHold, libFresh, libFaults>>

LibArrive(f) ==
  /\ LibJobGoes(f, "transfer", "unpack")
  /\ LibPut(f, "gz", "whole")
  /\ libArrived' = libArrived \cup {f}
  /\ UNCHANGED <<libIndex, libHold, libLoads, libOfGui, libFaults>>

LibUnpack(f) ==
  /\ LibJobGoes(f, "unpack", "tool")
  /\ LibTake("worker", f, "gz")
  /\ UNCHANGED <<libOfDisk, libLoads, libOfGui, libFresh, libFaults>>

LibRecord(f) ==
  /\ libJob[f].at = "record"
  /\ libJob' = [libJob EXCEPT ![f].at = "none"]
  /\ LibAppendIndex(<<f, libJob[f].got>>)
  /\ UNCHANGED <<libDisk, libArrived, libHold, libLoads, libOfGui, libFresh, libFaults>>

-----------------------------------------------------------------------------
(* A frame: collect with listFiles, then findLocal for each row. *)

LibGuiKeeps == UNCHANGED <<libOfDisk, libJob, libLoads, libRemote, libFaults>>

\* What a listing of observations has to unpack.
LibPacked == {p \in LibPresent : p[1] \in LibObs /\ p[2] # "out"}

\* cachedLocal: a directory with another time stamp is listed, the stamp taken before.
LibListBegin ==
  /\ libGui = "ready" /\ libGui' = "list"
  /\ libTodo' = IF "obs" \in libFresh THEN {} ELSE LibPacked
  /\ libFresh' = {"obs", "product"}
  /\ UNCHANGED <<libHold, libShown, libAsked>> /\ LibGuiKeeps

LibListUnpack ==
  /\ libGui = "list"
  /\ \E p \in libTodo : LibTake("gui", p[1], p[2]) /\ libTodo' = libTodo \ {p}
  /\ UNCHANGED <<libGui, libShown, libAsked, libFresh>> /\ LibGuiKeeps

\* The names in sorted order; the first of those with one local name is kept.
LibFirstName(f) ==
  LET order == IF f \in LibObs THEN {<<"crx", 1>>, <<"gz", 2>>, <<"out", 3>>}
               ELSE {<<"out", 1>>, <<"gz", 2>>}
      there == {o \in order : LibHas(f, o[1])} IN
  IF there = {} THEN "none"
  ELSE (CHOOSE o \in there : \A q \in there : o[2] <= q[2])[1]

\* appendLocalOnly: the rows that the mirror does not list.
LibListed ==
  /\ libGui = "list" /\ libTodo = {} /\ libHold.by # "gui"
  /\ libGui' = "look"
  /\ libShown' = [f \in LibFiles |-> IF f \in libRemote THEN libShown[f] ELSE LibFirstName(f)]
  /\ UNCHANGED <<libHold, libTodo, libAsked, libFresh>> /\ LibGuiKeeps

\* findLocal for a row of the mirror's list: the plain name is enough.
LibFindPlain(f) ==
  /\ libGui = "look" /\ f \in libRemote
  /\ LibPresent \cap ({f} \X {"gz", "crx"}) = {} \/ LibHas(f, "out")
  /\ libShown' = [libShown EXCEPT ![f] = IF LibHas(f, "out") THEN "out" ELSE "none"]
  /\ libShown' # libShown
  /\ UNCHANGED <<libHold, libGui, libTodo, libAsked, libFresh>> /\ LibGuiKeeps

\* Else what is packed is unpacked, the .crx before the .gz.
LibFindPacked(f) ==
  /\ libGui = "look" /\ f \in libRemote /\ ~LibHas(f, "out")
  /\ \E form \in {"crx", "gz"} : LibHas(f, form)
  /\ libGui' = "find"
  /\ libTodo' = {f} \X {"crx", "gz"}
  /\ UNCHANGED <<libHold, libShown, libAsked, libFresh>> /\ LibGuiKeeps

LibFindUnpack ==
  /\ libGui = "find"
  /\ \E p \in libTodo :
       /\ p[2] = "gz" => {q \in libTodo : q[2] = "crx"} = {}
       /\ libTodo' = libTodo \ {p}
       /\ IF LibHas(p[1], "out") \/ ~LibHas(p[1], p[2])
          THEN /\ libHold' = libHold
               /\ libHold.by # "gui"
               /\ IF libTodo' = {}
                  THEN /\ libGui' = "look"
                       /\ libShown' = [libShown EXCEPT ![p[1]] = IF LibHas(p[1], "out") THEN "out" ELSE "none"]
                  ELSE UNCHANGED <<libGui, libShown>>
          ELSE LibTake("gui", p[1], p[2]) /\ UNCHANGED <<libGui, libShown>>
  /\ UNCHANGED <<libAsked, libFresh>> /\ LibGuiKeeps

LibFrameEnd ==
  /\ libGui = "look" /\ libGui' = "ready"
  /\ UNCHANGED <<libHold, libTodo, libShown, libAsked, libFresh>> /\ LibGuiKeeps

-----------------------------------------------------------------------------
(* Deleting, from a row or from the list of all local files. *)

LibAsk ==
  /\ libGui = "look" /\ libAsked = {}
  /\ libAsked' \in (SUBSET LibPresent) \ {{}}
  /\ UNCHANGED <<libHold, libGui, libTodo, libShown, libFresh>> /\ LibGuiKeeps

\* Files that the tool has open cannot be removed.
LibInUse == CASE LibAt("write") -> {<<libHold.file, "gz">>, <<libHold.file, LibUnzipped(libHold.file)>>}
              [] LibAt("redo") -> {<<libHold.file, "crx">>, <<libHold.file, "out">>}
              [] OTHER -> {}

\* removeFiles: what is gone afterwards leaves the index too.
LibConfirm ==
  /\ libGui = "look" /\ libAsked # {}
  /\ LET gone == libAsked \ LibInUse IN
     /\ libDisk' = [f \in LibFiles |-> [form \in LibForms |->
                      IF <<f, form>> \in gone THEN "no" ELSE libDisk[f][form]]]
     /\ libFresh' = libFresh \ {LibKindOf(p[1]) : p \in gone \cap LibPresent}
     /\ LibWriteIndex(libIndex \ gone)
     /\ libArrived' = libArrived \ {p[1] : p \in gone}
  /\ libAsked' = {}
  /\ UNCHANGED <<libHold, libJob, libLoads, libGui, libTodo, libShown, libRemote, libFaults>>

LibCancel ==
  /\ libGui = "look" /\ libAsked # {} /\ libAsked' = {}
  /\ UNCHANGED <<libHold, libGui, libTodo, libShown, libFresh>> /\ LibGuiKeeps

\* The process ends anywhere and starts again: the disk stays.
LibCrash ==
  /\ LibFault(1)
  /\ libHold' = LibFree
  /\ libJob' = [f \in LibFiles |-> [at |-> "none", got |-> "gz"]]
  /\ libGui' = "ready" /\ libTodo' = {} /\ libAsked' = {} /\ libFresh' = {}
  /\ libShown' = [f \in LibFiles |-> "none"]
  /\ libRemote' \in SUBSET LibFiles
  /\ UNCHANGED <<libOfDisk, libLoads>>

LibNext ==
  \/ LibTool
  \/ \E f \in LibFiles : \/ LibClick(f) \/ LibArrive(f) \/ LibUnpack(f) \/ LibRecord(f)
                         \/ LibFindPlain(f) \/ LibFindPacked(f)
  \/ LibListBegin \/ LibListUnpack \/ LibListed \/ LibFindUnpack \/ LibFrameEnd
  \/ LibAsk \/ LibConfirm \/ LibCancel
  \/ LibCrash

LibSpec == LibInit /\ [][LibNext]_libVars

-----------------------------------------------------------------------------
(* Properties *)

\* Whatever decompressIfNeeded is doing for whomever, and wherever the process
\* ends, a whole copy of each file that arrived is on the disk in one of its
\* forms until the user deletes one of them.
LibNothingLost == \A f \in libArrived : \E form \in LibForms : libDisk[f][form] = "whole"

\* An observation file cut short by a crash while it was being restored is not
\* what a panel shows as local: the listing before it restores it again.  One fault
\* is all that holds for: a failed write in that very listing leaves what the crash
\* cut short, and it is shown.
LibObsShownWhole ==
  libFaults <= 1 =>
    \A f \in LibObs : /\ libShown[f] = "out"
                      /\ libHold.file # f
                      /\ libJob[f].at = "none"
                      => libDisk[f].out # "torn"

\* Store.h:84: deleting a file also clears the index of it.
LibIndexFollowsDelete ==
  \A f \in LibFiles : libJob[f].at = "none" /\ f \notin libArrived /\ (\A form \in LibForms : ~LibHas(f, form))
                      => \A form \in LibForms : <<f, form>> \notin libIndex

\* The library loses no file it has, and after a crash shows an observation file
\* only when it is whole again.
LibIsSound == LibNothingLost /\ LibObsShownWhole

=============================================================================
