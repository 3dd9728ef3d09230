---------------------------- MODULE ProductStore ----------------------------
(***************************************************************************)
(* The library of versioned products (antenna file, troposphere grid): the *)
(* updater thread of Catalog looks for newer releases and installs them,   *)
(* the GUI thread installs files the user picks, deletes files and steers  *)
(* the updater, and the process may die between any two steps.  On disk    *)
(* are the product's files, the staged ones and one index of what is       *)
(* installed.  The download itself is module Transfer.                     *)
(***************************************************************************)
EXTENDS Naturals, Sequences, FiniteSets

CONSTANTS Products, Releases, Names,
          NameOf,      \* the file name of a release
          Newest,      \* the newest release in the remote index
          Fallback,    \* what is fetched when the index cannot be read
          Imports,     \* the releases a user has at hand
          MaxCrashes

ASSUME StoreAssumption == /\ Products # {} /\ Releases # {}
                          /\ Releases \cap {"none", "absent", "torn"} = {}
                          /\ NameOf \in [Releases -> Names]
                          /\ Newest \in [Products -> Releases]
                          /\ Fallback \in [Products -> Releases]
                          /\ Imports \in [Products -> SUBSET Releases]
                          /\ MaxCrashes \in Nat

VARIABLES
  index,     \* index.csv: the release installed of each product
  disk,      \* what each file of the product directory holds
  staged,    \* names staged under .tmp_
  left,      \* history: what the last clean-up of a product could not remove, while
             \* no process has died
  auto, kickAll, kick, due, running,
  busy,      \* products shown as being checked or downloaded
  todo,      \* products of the updater's current round
  up, im,    \* the updater's and the import's place, product and release, and
             \* whether it installs from a staged file
  gui,       \* "open", "joining" the updater, or "off"
  crashes

files  == <<index, disk, staged, left>>
orders == <<auto, kickAll, kick, running>>
vars   == <<files, orders, due, busy, todo, up, im, gui, crashes>>

Contents  == Releases \union {"absent", "torn"}
UpPlaces  == {"start", "plan", "sleep", "next", "discover", "compare", "fetch", "copy",
              "copying", "index", "stale", "report", "over"}
ImPlaces  == {"idle", "staged", "copy", "copying", "index", "stale", "report"}

StoreTypeOK ==
  /\ index \in [Products -> Releases \union {"none"}]
  /\ disk \in [Products -> [Names -> Contents]]
  /\ staged \in [Products -> SUBSET Names]
  /\ left \in [Products -> SUBSET Names]
  /\ auto \in BOOLEAN /\ kickAll \in BOOLEAN /\ running \in BOOLEAN
  /\ kick \subseteq Products /\ todo \subseteq Products
  /\ due \in [Products -> BOOLEAN]
  /\ busy \subseteq Products
  /\ up \in [at : UpPlaces, p : Products, r : Releases, tmp : BOOLEAN]
  /\ im \in [at : ImPlaces, p : Products, r : Releases, tmp : BOOLEAN]
  /\ gui \in {"open", "joining", "off"} /\ crashes \in 0 .. MaxCrashes

\* Between two installations the product and the release are of no account.
AtFirst(place, tmp) == [at |-> place, p |-> CHOOSE p \in Products : TRUE,
                        r |-> CHOOSE r \in Releases : TRUE, tmp |-> tmp]

Started == /\ kickAll' = FALSE /\ kick' = {} /\ running' = TRUE
           /\ due' = [p \in Products |-> TRUE]
           /\ busy' = {} /\ todo' = {}
           /\ up' = AtFirst("start", TRUE) /\ im' = AtFirst("idle", FALSE)

Init == /\ index = [p \in Products |-> "none"]
        /\ disk = [p \in Products |-> [n \in Names |-> "absent"]]
        /\ staged = [p \in Products |-> {}]
        /\ left = [p \in Products |-> {}]
        /\ auto \in BOOLEAN
        /\ kickAll = FALSE /\ kick = {} /\ running = TRUE
        /\ due = [p \in Products |-> TRUE]
        /\ busy = {} /\ todo = {}
        /\ up = AtFirst("start", TRUE) /\ im = AtFirst("idle", FALSE)
        /\ gui = "open" /\ crashes = 0

-----------------------------------------------------------------------------
(* Store. *)

\* Slip: the file is not looked for.
activeUnchecked(p) == index[p]

\* The installed release, when its file is there.
active(p) == IF index[p] # "none" /\ disk[p][NameOf[index[p]]] = "absent" THEN "none" ELSE index[p]

OnDisk(p, n, content) == disk' = [disk EXCEPT ![p][n] = content]

\* What w copies cannot be opened by another: neither written nor removed.
Copies(w, p, n) == w.at = "copying" /\ w.p = p /\ NameOf[w.r] = n

copyBegins(w, other) == /\ ~Copies(other, w.p, NameOf[w.r])
                        /\ w.tmp => NameOf[w.r] \in staged[w.p]
                        /\ OnDisk(w.p, NameOf[w.r], "torn")
                        /\ left' = [left EXCEPT ![w.p] = @ \ {NameOf[w.r]}]
                        /\ UNCHANGED <<index, staged>>

copyEnds(w) == /\ OnDisk(w.p, NameOf[w.r], w.r)
               /\ staged' = [staged EXCEPT ![w.p] = IF w.tmp THEN @ \ {NameOf[w.r]} ELSE @]
               /\ UNCHANGED <<index, left>>

\* A failure to write the index is logged and passed over.
writeIndex(w) == /\ index' \in {index, [index EXCEPT ![w.p] = w.r]}
                 /\ UNCHANGED <<disk, staged, left>>

\* Slip: the files of older versions stay.
dropNothing(w, other) == UNCHANGED files

\* What dropStale is to remove, and may fail to: a file may be open elsewhere, and if
\* the directory cannot be listed nothing is removed.  That is logged at most.
Others(w, other) == {n \in Names : /\ n # NameOf[w.r] /\ ~Copies(other, w.p, n)
                                   /\ disk[w.p][n] # "absent"}

dropStale(w, other) == \E stays \in SUBSET Others(w, other) :
  /\ disk' = [disk EXCEPT ![w.p] = [n \in Names |-> IF n \in Others(w, other) \ stays
                                                     THEN "absent" ELSE disk[w.p][n]]]
  /\ left' = [left EXCEPT ![w.p] = IF crashes = 0 THEN stays ELSE {}]
  /\ UNCHANGED <<index, staged>>

clearStagingExcept(p, keep) == /\ staged' = [staged EXCEPT ![p] = @ \intersect keep]
                               /\ UNCHANGED <<index, disk, left>>

-----------------------------------------------------------------------------
(* The updater thread: loop and checkOne. *)

UpStep(from, to) == /\ up.at = from
                    /\ up' = IF to = "next" THEN AtFirst("next", TRUE) ELSE [up EXCEPT !.at = to]
                    /\ UNCHANGED <<auto, running, im, gui, crashes>>

UpStart == /\ UpStep("start", "plan")
           /\ UNCHANGED <<files, kickAll, kick, due, busy, todo>>

\* What was asked for, and what is due when the updates are on.
Round == (IF kickAll THEN Products ELSE kick) \union {p \in Products : auto /\ due[p]}

UpPlan == /\ UpStep("plan", IF ~running THEN "over" ELSE IF Round = {} THEN "sleep" ELSE "next")
          /\ IF running THEN todo' = Round /\ kickAll' = FALSE /\ kick' = {}
                        ELSE UNCHANGED <<todo, kickAll, kick>>
          /\ UNCHANGED <<files, due, busy>>

\* Woken by an order, or after five minutes.
UpWake == /\ UpStep("sleep", "plan")
          /\ UNCHANGED <<files, kickAll, kick, due, busy, todo>>

\* Slip: the orders are cleared once the round is through, new ones with it.
UpNoneForgetful == /\ UpStep("next", IF running THEN "plan" ELSE "over")
                   /\ todo = {} \/ ~running
                   /\ kick' = {} /\ kickAll' = FALSE
                   /\ UNCHANGED <<files, due, busy, todo>>

UpNone == /\ UpStep("next", IF running THEN "plan" ELSE "over")
          /\ todo = {} \/ ~running
          /\ UNCHANGED <<files, kickAll, kick, due, busy, todo>>

UpCheck(p) == /\ up.at = "next" /\ running /\ p \in todo
              /\ up' = [up EXCEPT !.at = "discover", !.p = p]
              /\ todo' = todo \ {p}
              /\ busy' = busy \union {p}
              /\ UNCHANGED <<files, orders, due, im, gui, crashes>>

\* The newest release in the remote index; the fallback when that cannot be read.
discoverLatest ==
  /\ up.at = "discover"
  /\ \E r \in {Newest[up.p], Fallback[up.p]} :
       up' = [up EXCEPT !.at = "compare", !.r = r]
  /\ UNCHANGED <<files, orders, due, busy, todo, im, gui, crashes>>

\* Shown as ready or in error, and not due again before the next check or retry.
Reported(p) == busy' = busy \ {p} /\ due' = [due EXCEPT ![p] = FALSE]

UpCurrent == /\ UpStep("compare", "next")
             /\ active(up.p) = up.r
             /\ Reported(up.p)
             /\ UNCHANGED <<files, kickAll, kick, todo>>

UpOutdated == /\ UpStep("compare", "fetch")
              /\ active(up.p) # up.r
              /\ clearStagingExcept(up.p, IF up.r = Fallback[up.p] THEN {} ELSE {NameOf[up.r]})
              /\ busy' = busy \union {up.p}
              /\ UNCHANGED <<kickAll, kick, due, todo>>

\* The progress callback shows the download again after an import has hidden it.
setProgress == /\ up.at = "fetch"
               /\ busy' = busy \union {up.p}
               /\ UNCHANGED <<files, orders, due, todo, up, im, gui, crashes>>

UpFetch == /\ UpStep("fetch", "copy")
           /\ staged' = [staged EXCEPT ![up.p] = @ \union {NameOf[up.r]}]
           /\ UNCHANGED <<index, disk, left, kickAll, kick, due, busy, todo>>

\* Neither the archive nor the file arrived, or a directory or the copy failed, perhaps
\* halfway.
UpFails == /\ \E place \in {"compare", "fetch", "copy", "copying"} : UpStep(place, "next")
           /\ up.at = "compare" => active(up.p) # up.r
           /\ Reported(up.p)
           /\ UNCHANGED <<files, kickAll, kick, todo>>

UpInstall == /\ \/ UpStep("copy", "copying") /\ copyBegins(up, im)
                \/ UpStep("copying", "index") /\ copyEnds(up)
                \/ UpStep("index", "stale") /\ writeIndex(up)
                \/ UpStep("stale", "report") /\ dropStale(up, im)
             /\ UNCHANGED <<kickAll, kick, due, busy, todo>>

UpInstalled == /\ UpStep("report", "next")
               /\ Reported(up.p)
               /\ UNCHANGED <<files, kickAll, kick, todo>>

Updater == \/ UpStart \/ UpPlan \/ UpWake \/ UpNone \/ (\E p \in Products : UpCheck(p))
           \/ discoverLatest \/ UpCurrent \/ UpOutdated \/ UpFetch \/ UpFails
           \/ UpInstall \/ UpInstalled

-----------------------------------------------------------------------------
(* The GUI thread: importLocal and noteImported, then the orders. *)

ImStep(from, to) == /\ im.at = from
                    /\ im' = IF to = "idle" THEN AtFirst("idle", FALSE) ELSE [im EXCEPT !.at = to]
                    /\ UNCHANGED <<orders, todo, up, gui, crashes>>

\* A plain file is copied from where it is, an archive is unpacked into the staging.
ImportBegin(p, r) ==
  /\ gui = "open" /\ im.at = "idle"
  /\ \/ im' = [at |-> "copy", p |-> p, r |-> r, tmp |-> FALSE] /\ UNCHANGED staged
     \/ /\ im' = [at |-> "staged", p |-> p, r |-> r, tmp |-> TRUE]
        /\ staged' = [staged EXCEPT ![p] = @ \union {NameOf[r]}]
  /\ UNCHANGED <<index, disk, left, orders, due, busy, todo, up, gui, crashes>>

\* The staged file is checked; it may be refused, or be gone.
ImportStaged == /\ \/ ImStep("staged", "copy") /\ NameOf[im.r] \in staged[im.p] /\ UNCHANGED files
                   \/ /\ ImStep("staged", "idle")
                      /\ staged' = [staged EXCEPT ![im.p] = @ \ {NameOf[im.r]}]
                      /\ UNCHANGED <<index, disk, left>>
                /\ UNCHANGED <<due, busy>>

\* The file the user picked may be the installed one itself.
ImportInstall == /\ \/ ImStep("copy", "copying") /\ copyBegins(im, up)
                    \/ ImStep("copy", "index") /\ ~im.tmp /\ disk[im.p][NameOf[im.r]] = im.r
                                               /\ UNCHANGED files
                    \/ (ImStep("copy", "idle") \/ ImStep("copying", "idle")) /\ UNCHANGED files
                    \/ ImStep("copying", "index") /\ copyEnds(im)
                    \/ ImStep("index", "stale") /\ writeIndex(im)
                    \/ ImStep("stale", "report") /\ dropStale(im, up)
                 /\ UNCHANGED <<due, busy>>

noteImported == /\ ImStep("report", "idle")
                /\ Reported(im.p)
                /\ UNCHANGED files

GuiFree == gui = "open" /\ im.at = "idle"

Order == /\ GuiFree
         /\ UNCHANGED <<files, busy, todo, up, im, gui, crashes, running>>

\* The button of a product that is being checked is disabled, that of all is not.
checkNow == /\ Order
            /\ \/ \E p \in Products : /\ p \notin busy
                                      /\ kick' = kick \union {p} /\ UNCHANGED kickAll
               \/ kickAll' = TRUE /\ UNCHANGED kick
            /\ UNCHANGED <<auto, due>>

setUpdatesEnabled == /\ Order
                     /\ auto' = ~auto
                     /\ due' = IF auto' THEN [p \in Products |-> TRUE] ELSE due
                     /\ UNCHANGED <<kickAll, kick>>

\* The index keeps its entry.
removeFile(p, n) == /\ GuiFree
                    /\ disk[p][n] # "absent" /\ ~Copies(up, p, n)
                    /\ OnDisk(p, n, "absent")
                    /\ left' = [left EXCEPT ![p] = @ \ {n}]
                    /\ UNCHANGED <<index, staged, orders, due, busy, todo, up, im, gui, crashes>>

stopUpdates == /\ GuiFree
               /\ running' = FALSE /\ gui' = "joining"
               /\ UNCHANGED <<files, auto, kickAll, kick, due, busy, todo, up, im, crashes>>

StopJoined == /\ gui = "joining" /\ gui' = "off"
              /\ up.at = "over"
              /\ UNCHANGED <<files, orders, due, busy, todo, up, im, crashes>>

\* The process dies, or is closed and started again; the settings file keeps auto.
Restart == /\ crashes < MaxCrashes /\ crashes' = crashes + 1
           /\ gui' = "open"
           /\ Started
           /\ left' = [p \in Products |-> {}]
           /\ UNCHANGED <<index, disk, staged, auto>>

-----------------------------------------------------------------------------
(* Time. *)

FallsDue(p) == /\ gui # "off" /\ ~due[p] /\ due' = [due EXCEPT ![p] = TRUE]
               /\ UNCHANGED <<files, orders, busy, todo, up, im, gui, crashes>>

Off == gui = "off" /\ UNCHANGED vars

Import == (\E p \in Products : \E r \in Imports[p] : ImportBegin(p, r))
            \/ ImportStaged \/ ImportInstall \/ noteImported

Next == \/ Updater \/ setProgress \/ Import
        \/ checkNow \/ setUpdatesEnabled \/ stopUpdates \/ StopJoined \/ Restart
        \/ \E p \in Products : FallsDue(p) \/ \E n \in Names : removeFile(p, n)
        \/ Off

Spec == Init /\ [][Next]_vars

\* The threads run on, downloadFile ends, and time passes.
Fairness == /\ WF_vars(Updater) /\ WF_vars(ImportStaged \/ ImportInstall \/ noteImported)
            /\ WF_vars(StopJoined)
            /\ \A p \in Products : WF_vars(FallsDue(p))

FairSpec == Spec /\ Fairness

-----------------------------------------------------------------------------
(* Properties. *)

Installs(w) == w.at \in {"copying", "index", "stale"}

Whole(p) == {n \in Names : disk[p][n] \in Releases}

\* install leaves one version of a product in the library, whoever installed last, and
\* besides only what its last clean-up could not remove: earlier leftovers go with it.
OneVersionKept == \A p \in Products :
  crashes = 0 /\ ~Installs(up) /\ ~Installs(im) => Cardinality(Whole(p) \ left[p]) <= 1

\* What dropStale clears away is left over from old versions: never the file that the
\* index names as installed.
Clears == \/ up.at = "stale" /\ up'.at = "report"
          \/ im.at = "stale" /\ im'.at = "report"

StaleIsOld == [][\A p \in Products : Clears /\ index[p] # "none"
  => disk'[p][NameOf[index[p]]] = disk[p][NameOf[index[p]]]]_vars

\* checkNow is not lost, whatever the updater is doing when it comes, but by a restart.
KickServed == \A p \in Products :
  p \in kick \/ kickAll ~> (up.at = "discover" /\ up.p = p) \/ up.at = "start" \/ ~running

\* stopUpdates gets its join.
StopEnds == gui = "joining" ~> gui # "joining"

\* The updater serves: an order is taken up, and a stop ends the thread.
UpdaterServes == KickServed /\ StopEnds

\* What the user does, and what fails.
Disturbance == \/ Restart \/ stopUpdates \/ setUpdatesEnabled \/ UpFails
               \/ \E p \in Products : \/ \E r \in Imports[p] : ImportBegin(p, r)
                                      \/ \E n \in Names : removeFile(p, n)
               \/ discoverLatest /\ up'.r # Newest[up.p]
               \/ up.at = "index" /\ up'.at = "stale" /\ index'[up.p] # up.r

Undisturbed == <>[](auto /\ gui = "open") /\ <>[][~Disturbance]_vars

\* The library heals: whatever deletions, imports, races and crashes it went through,
\* the updater ends with the newest release installed and its file there.
Converges == \A p \in Products :
  Undisturbed => <>[](index[p] = Newest[p] /\ disk[p][NameOf[Newest[p]]] # "absent")

=============================================================================
