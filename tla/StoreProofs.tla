---------------------------- MODULE StoreProofs -----------------------------
(***************************************************************************)
(* What the two libraries keep, for any products, releases and files.      *)
(*                                                                         *)
(* ProductStore: however the updater and an import are interleaved, one    *)
(* version of a product is left when neither installs.  DateStore: however *)
(* workers, frames, deletions and crashes are interleaved, what arrived is *)
(* not lost, and what one crash cut short is restored before it is shown.  *)
(*                                                                         *)
(* Two installers may each have put a file in place before either clears   *)
(* away the old ones.  So the invariant allows, besides one file that is   *)
(* settled, the file of each installer that has yet to run dropStale, and  *)
(* says that what an installer still copies is torn.  It is stated of any  *)
(* two installers, which makes each step of install one lemma for both.    *)
(* What a clean-up could not remove is not counted: the next one owes it.  *)
(*                                                                         *)
(* In the dated library the tool removes a form of a file step by step, so *)
(* the invariant says for each step what is whole then, and that a frame   *)
(* that holds the tool can delete nothing.  For the crash it follows the   *)
(* first listing: every torn file has a whole form still to be unpacked.   *)
(*                                                                         *)
(* ProductChoice: the list that was flushed comes back as it was, because  *)
(* settings that are clean never differ from the file.  The best file is   *)
(* in use because a list holds a file once, so that the numbers of files   *)
(* ahead are an order of them.                                             *)
(***************************************************************************)
EXTENDS ProductStore, DateStore, ProductChoice, FiniteSetTheorems, TLAPS

\* The file that w has installed or is installing in the place of the others.
Fresh(w, p) == IF Installs(w) /\ w.p = p THEN {NameOf[w.r]} ELSE {}

\* What an installer still copies is torn.
CopiesAreTorn(w, o, d) == \A p \in Products, n \in Names :
  Copies(w, p, n) \/ Copies(o, p, n) => d[p][n] = "torn"

\* Two installers never copy the same file.
OneCopier(w, o) == \A p \in Products, n \in Names : ~(Copies(w, p, n) /\ Copies(o, p, n))

\* Of the whole files of a product one is settled, the others could not be removed or
\* are being installed.
OneSettled(w, o, d, l) == \A p \in Products : \E x \in Names : \A n \in Names :
  d[p][n] \in Releases => n = x \/ n \in l[p] \/ n \in Fresh(w, p) \/ n \in Fresh(o, p)

Kept(w, o, d, l, c) == CopiesAreTorn(w, o, d) /\ OneCopier(w, o) /\ (c = 0 => OneSettled(w, o, d, l))

StoreIInv == StoreTypeOK /\ Kept(up, im, disk, left, crashes)

USE StoreAssumption

Disks == [Products -> [Names -> Contents]]
NameSets == [Products -> SUBSET Names]
Place(S) == [at : S, p : Products, r : Releases, tmp : BOOLEAN]
AnyPlace == Place(UpPlaces \union ImPlaces)

-----------------------------------------------------------------------------
(* The steps of an installation, for an installer w beside another, o.      *)

LEMMA KeptBoth ==
  ASSUME NEW w, NEW o, NEW d, NEW l, NEW c, Kept(w, o, d, l, c)
  PROVE  Kept(o, w, d, l, c)
BY DEF Kept, CopiesAreTorn, OneCopier, OneSettled

\* w goes where it does not copy, and forgets no file that it has put in place.
LEMMA MoveKeeps ==
  ASSUME NEW w, NEW o, NEW d, NEW l, NEW c, NEW v, Kept(w, o, d, l, c),
         v.at # "copying",
         \/ ~Installs(w)
         \/ w.at = "copying"
         \/ w.at = "index" /\ v.at = "stale" /\ v.p = w.p /\ v.r = w.r
  PROVE  Kept(v, o, d, l, c)
<1>1. CopiesAreTorn(v, o, d) /\ OneCopier(v, o)
    BY DEF Kept, CopiesAreTorn, OneCopier, Copies
<1>2. ASSUME OneSettled(w, o, d, l)
      PROVE  OneSettled(v, o, d, l)
  <2> SUFFICES ASSUME NEW p \in Products
               PROVE  \E x \in Names : \A n \in Names :
                        d[p][n] \in Releases => n = x \/ n \in l[p] \/ n \in Fresh(v, p) \/ n \in Fresh(o, p)
      BY DEF OneSettled
  <2>1. PICK x \in Names : \A n \in Names :
          d[p][n] \in Releases => n = x \/ n \in l[p] \/ n \in Fresh(w, p) \/ n \in Fresh(o, p)
      BY <1>2 DEF OneSettled
  <2>2. \A n \in Names : n \in Fresh(w, p) => d[p][n] \notin Releases \/ n \in Fresh(v, p)
      BY DEF Kept, CopiesAreTorn, Copies, Fresh, Installs
  <2>3. QED
      BY <2>1, <2>2
<1>3. QED
    BY <1>1, <1>2 DEF Kept

\* What w begins to copy is torn, and was not copied by the other.
LEMMA BeginKeeps ==
  ASSUME NEW w \in AnyPlace, NEW o, NEW d \in Disks, NEW l \in NameSets, NEW c, NEW v,
         NEW e, NEW m, Kept(w, o, d, l, c),
         ~Copies(o, w.p, NameOf[w.r]), ~Installs(w),
         v.at = "copying", v.p = w.p, v.r = w.r,
         e = [d EXCEPT ![w.p][NameOf[w.r]] = "torn"],
         m = [l EXCEPT ![w.p] = @ \ {NameOf[w.r]}]
  PROVE  Kept(v, o, e, m, c)
<1>0. w.p \in Products /\ NameOf[w.r] \in Names /\ d[w.p] \in [Names -> Contents]
    BY DEF AnyPlace, Place, Disks
<1>1. \A p \in Products, n \in Names :
        e[p][n] = IF p = w.p /\ n = NameOf[w.r] THEN "torn" ELSE d[p][n]
    BY <1>0 DEF Disks
<1>m. \A p \in Products, n \in Names : n \in l[p] => n \in m[p] \/ (p = w.p /\ n = NameOf[w.r])
    BY <1>0 DEF NameSets
<1>2. CopiesAreTorn(v, o, e) /\ OneCopier(v, o)
    BY <1>1 DEF Kept, CopiesAreTorn, OneCopier, Copies
<1>3. ASSUME OneSettled(w, o, d, l)
      PROVE  OneSettled(v, o, e, m)
  <2> SUFFICES ASSUME NEW p \in Products
               PROVE  \E x \in Names : \A n \in Names :
                        e[p][n] \in Releases => n = x \/ n \in m[p] \/ n \in Fresh(v, p) \/ n \in Fresh(o, p)
      BY DEF OneSettled
  <2>1. PICK x \in Names : \A n \in Names :
          d[p][n] \in Releases => n = x \/ n \in l[p] \/ n \in Fresh(w, p) \/ n \in Fresh(o, p)
      BY <1>3 DEF OneSettled
  <2>2. Fresh(w, p) = {}
      BY DEF Fresh
  <2>3. QED
      BY <1>1, <1>m, <2>1, <2>2
<1>4. QED
    BY <1>2, <1>3 DEF Kept

\* What w has copied is whole, and is its own until it has cleared the others away.
LEMMA EndKeeps ==
  ASSUME NEW w \in AnyPlace, NEW o, NEW d \in Disks, NEW l, NEW c, NEW v, Kept(w, o, d, l, c),
         w.at = "copying", v.at = "index", v.p = w.p, v.r = w.r
  PROVE  Kept(v, o, [d EXCEPT ![w.p][NameOf[w.r]] = w.r], l, c)
<1> DEFINE e == [d EXCEPT ![w.p][NameOf[w.r]] = w.r]
<1>0. w.p \in Products /\ NameOf[w.r] \in Names /\ d[w.p] \in [Names -> Contents]
    BY DEF AnyPlace, Place, Disks
<1>1. \A p \in Products, n \in Names :
        e[p][n] = IF p = w.p /\ n = NameOf[w.r] THEN w.r ELSE d[p][n]
    BY <1>0 DEF Disks
<1> HIDE DEF e
<1>2. CopiesAreTorn(v, o, e) /\ OneCopier(v, o)
    BY <1>0, <1>1 DEF Kept, CopiesAreTorn, OneCopier, Copies
<1>3. ASSUME OneSettled(w, o, d, l)
      PROVE  OneSettled(v, o, e, l)
  <2> SUFFICES ASSUME NEW p \in Products
               PROVE  \E x \in Names : \A n \in Names :
                        e[p][n] \in Releases => n = x \/ n \in l[p] \/ n \in Fresh(v, p) \/ n \in Fresh(o, p)
      BY DEF OneSettled
  <2>1. PICK x \in Names : \A n \in Names :
          d[p][n] \in Releases => n = x \/ n \in l[p] \/ n \in Fresh(w, p) \/ n \in Fresh(o, p)
      BY <1>3 DEF OneSettled
  <2>2. Fresh(v, p) = Fresh(w, p) /\ (p = w.p => NameOf[w.r] \in Fresh(v, p))
      BY DEF Fresh, Installs
  <2>3. QED
      BY <1>1, <2>1, <2>2
<1>4. Kept(v, o, e, l, c)
    BY <1>2, <1>3 DEF Kept
<1>5. QED
    BY <1>4 DEF e

\* Of all files but its own and what is being copied, some are gone and the others stay.
Clearance(w, o, d, gone, stays) ==
  /\ NameOf[w.r] \notin gone
  /\ \A n \in Names : Copies(o, w.p, n) => n \notin gone
  /\ \A n \in Names : \/ n = NameOf[w.r] \/ Copies(o, w.p, n) \/ d[w.p][n] = "absent"
                      \/ n \in gone \/ n \in stays

\* w leaves its own file, what is being copied, which is torn, and what it cannot remove.
LEMMA DropKeeps ==
  ASSUME NEW w \in AnyPlace, NEW o, NEW d \in Disks, NEW l \in NameSets, NEW c, NEW v, NEW e,
         NEW m, Kept(w, o, d, l, c), w.at = "stale", v.at = "report",
         NEW gone \in SUBSET Names, NEW stays \in SUBSET Names,
         Clearance(w, o, d, gone, stays),
         e = [d EXCEPT ![w.p] = [n \in Names |-> IF n \in gone THEN "absent" ELSE d[w.p][n]]],
         c = 0 => m = [l EXCEPT ![w.p] = stays]
  PROVE  Kept(v, o, e, m, c)
<1>0. w.p \in Products /\ NameOf[w.r] \in Names
    BY DEF AnyPlace, Place
<1>1. \A p \in Products, n \in Names :
        e[p][n] = IF p = w.p /\ n \in gone THEN "absent" ELSE d[p][n]
    BY <1>0 DEF Disks
<1>m. ASSUME c = 0, NEW p \in Products
      PROVE  m[p] = IF p = w.p THEN stays ELSE l[p]
    BY <1>0, <1>m DEF NameSets
<1>2. CopiesAreTorn(v, o, e) /\ OneCopier(v, o)
    BY <1>1 DEF Kept, CopiesAreTorn, OneCopier, Copies, Clearance
<1>3. ASSUME OneSettled(w, o, d, l), c = 0
      PROVE  OneSettled(v, o, e, m)
  <2> SUFFICES ASSUME NEW p \in Products
               PROVE  \E x \in Names : \A n \in Names :
                        e[p][n] \in Releases => n = x \/ n \in m[p] \/ n \in Fresh(v, p) \/ n \in Fresh(o, p)
      BY DEF OneSettled
  <2>1. CASE p = w.p
    <3>1. \A n \in Names : Copies(o, p, n) => d[p][n] = "torn"
        BY DEF Kept, CopiesAreTorn
    <3>2. \A n \in Names : e[p][n] \in Releases => n = NameOf[w.r] \/ n \in m[p]
        BY <1>1, <1>3, <1>m, <2>1, <3>1 DEF Contents, Clearance
    <3>3. QED
        BY <1>0, <3>2
  <2>2. CASE p # w.p
    <3>1. PICK x \in Names : \A n \in Names :
            d[p][n] \in Releases => n = x \/ n \in l[p] \/ n \in Fresh(w, p) \/ n \in Fresh(o, p)
        BY <1>3 DEF OneSettled
    <3>2. Fresh(w, p) = {}
        BY <2>2 DEF Fresh
    <3>3. QED
        BY <1>1, <1>3, <1>m, <2>2, <3>1, <3>2
  <2>3. QED
      BY <2>1, <2>2
<1>4. QED
    BY <1>2, <1>3 DEF Kept

\* A file that is not being copied is removed.
LEMMA RemoveKeeps ==
  ASSUME NEW w, NEW o, NEW d \in Disks, NEW l \in NameSets, NEW c, NEW e, NEW k, Kept(w, o, d, l, c),
         NEW q \in Products, NEW m \in Names, ~Copies(w, q, m), ~Copies(o, q, m),
         e = [d EXCEPT ![q][m] = "absent"],
         k = [l EXCEPT ![q] = @ \ {m}]
  PROVE  Kept(w, o, e, k, c)
<1>1. \A p \in Products, n \in Names :
        e[p][n] = IF p = q /\ n = m THEN "absent" ELSE d[p][n]
    BY DEF Disks
<1>2. CopiesAreTorn(w, o, e) /\ OneCopier(w, o)
    BY <1>1 DEF Kept, CopiesAreTorn, OneCopier
<1>3. \A p \in Products, n \in Names : e[p][n] \in Releases => d[p][n] \in Releases
    BY <1>1
<1>4. \A p \in Products, n \in Names :
        e[p][n] \in Releases /\ n \in l[p] => n \in k[p]
    BY <1>1 DEF NameSets
<1>5. OneSettled(w, o, d, l) => OneSettled(w, o, e, k)
    BY <1>3, <1>4 DEF OneSettled
<1>6. QED
    BY <1>2, <1>5 DEF Kept

-----------------------------------------------------------------------------
(* Types. *)

LEMMA FirstIs ==
  ASSUME NEW S, NEW a \in S, NEW tmp \in BOOLEAN
  PROVE  AtFirst(a, tmp) \in Place(S) /\ AtFirst(a, tmp).at = a
<1>1. (CHOOSE p \in Products : TRUE) \in Products /\ (CHOOSE r \in Releases : TRUE) \in Releases
    OBVIOUS
<1>2. QED
    BY <1>1 DEF AtFirst, Place

LEMMA PlaceIs ==
  ASSUME NEW S, NEW a \in S, NEW p \in Products, NEW r \in Releases, NEW tmp \in BOOLEAN
  PROVE  [at |-> a, p |-> p, r |-> r, tmp |-> tmp] \in Place(S)
BY DEF Place

LEMMA GoesOn ==
  ASSUME NEW S, NEW w \in Place(S), NEW a \in S
  PROVE  /\ [w EXCEPT !.at = a] \in Place(S)
         /\ [w EXCEPT !.at = a].at = a
         /\ [w EXCEPT !.at = a].p = w.p /\ [w EXCEPT !.at = a].r = w.r
BY DEF Place

LEMMA Written ==
  ASSUME NEW d \in Disks, NEW p \in Products, NEW n \in Names, NEW x \in Contents
  PROVE  [d EXCEPT ![p][n] = x] \in Disks
BY DEF Disks

LEMMA StagedType ==
  ASSUME NEW t \in NameSets, NEW p \in Products, NEW ns \in SUBSET Names
  PROVE  [t EXCEPT ![p] = ns] \in NameSets
BY DEF NameSets

\* The types of what an installation changes.
FilesTyped == /\ index \in [Products -> Releases \union {"none"}]
              /\ disk \in Disks
              /\ staged \in NameSets /\ left \in NameSets

OrdersTyped == /\ auto \in BOOLEAN /\ kickAll \in BOOLEAN /\ running \in BOOLEAN
               /\ kick \subseteq Products

ShownTyped == /\ todo \subseteq Products /\ busy \subseteq Products
              /\ due \in [Products -> BOOLEAN]

PlacesTyped == /\ up \in Place(UpPlaces) /\ im \in Place(ImPlaces)
               /\ gui \in {"open", "joining", "off"} /\ crashes \in 0 .. MaxCrashes

LEMMA TypesAre == StoreTypeOK <=> FilesTyped /\ OrdersTyped /\ ShownTyped /\ PlacesTyped
BY DEF StoreTypeOK, FilesTyped, OrdersTyped, ShownTyped, PlacesTyped, Disks, NameSets, Place

Typed == FilesTyped /\ OrdersTyped /\ ShownTyped /\ PlacesTyped

LEMMA TypedTwice == Typed' => StoreTypeOK'
BY DEF Typed, StoreTypeOK, FilesTyped, OrdersTyped, ShownTyped, PlacesTyped, Disks, NameSets, Place

LEMMA ReportedType ==
  ASSUME ShownTyped, NEW p \in Products, Reported(p), UNCHANGED todo
  PROVE  ShownTyped'
<1>1. due' \in [Products -> BOOLEAN]
    BY DEF ShownTyped, Reported
<1>2. QED
    BY <1>1 DEF ShownTyped, Reported

\* The places of both, where each may be and what the moves of each keep.
LEMMA PlacesAre ==
  ASSUME PlacesTyped
  PROVE  /\ up \in AnyPlace /\ im \in AnyPlace
         /\ up.p \in Products /\ up.r \in Releases /\ NameOf[up.r] \in Names
         /\ im.p \in Products /\ im.r \in Releases /\ NameOf[im.r] \in Names
BY DEF PlacesTyped, Place, AnyPlace

LEMMA UpStepType ==
  ASSUME PlacesTyped, NEW from, NEW to \in UpPlaces, UpStep(from, to)
  PROVE  /\ PlacesTyped'
         /\ up'.at = to
         /\ to # "next" => up'.p = up.p /\ up'.r = up.r
<1>1. CASE to = "next"
    BY <1>1, FirstIs DEF PlacesTyped, UpStep
<1>2. CASE to # "next"
    BY <1>2, GoesOn DEF PlacesTyped, UpStep
<1>3. QED
    BY <1>1, <1>2

LEMMA ImStepType ==
  ASSUME PlacesTyped, NEW from, NEW to \in ImPlaces, ImStep(from, to)
  PROVE  /\ PlacesTyped'
         /\ im'.at = to
         /\ to # "idle" => im'.p = im.p /\ im'.r = im.r
<1>1. CASE to = "idle"
    BY <1>1, FirstIs DEF PlacesTyped, ImStep
<1>2. CASE to # "idle"
    BY <1>2, GoesOn DEF PlacesTyped, ImStep
<1>3. QED
    BY <1>1, <1>2

-----------------------------------------------------------------------------
(* Files: what one step of an installation does to them. *)

LEMMA BeginFiles ==
  ASSUME FilesTyped, NEW w \in AnyPlace, NEW o, copyBegins(w, o)
  PROVE  /\ FilesTyped'
         /\ disk' = [disk EXCEPT ![w.p][NameOf[w.r]] = "torn"]
         /\ left' = [left EXCEPT ![w.p] = @ \ {NameOf[w.r]}]
<1>1. w.p \in Products /\ NameOf[w.r] \in Names /\ "torn" \in Contents
    BY DEF AnyPlace, Place, Contents
<1>2. left' \in NameSets
    BY <1>1 DEF FilesTyped, NameSets, copyBegins
<1>3. QED
    BY <1>1, <1>2, Written DEF FilesTyped, copyBegins, OnDisk

LEMMA EndFiles ==
  ASSUME FilesTyped, NEW w \in AnyPlace, copyEnds(w)
  PROVE  FilesTyped' /\ disk' = [disk EXCEPT ![w.p][NameOf[w.r]] = w.r] /\ left' = left
<1>1. w.p \in Products /\ NameOf[w.r] \in Names /\ w.r \in Contents
    BY DEF AnyPlace, Place, Contents
<1>2. disk' \in Disks
    BY <1>1, Written DEF FilesTyped, copyEnds, OnDisk
<1>3. staged' \in NameSets
    BY <1>1 DEF FilesTyped, NameSets, copyEnds
<1>4. QED
    BY <1>2, <1>3 DEF FilesTyped, copyEnds, OnDisk

LEMMA IndexFiles ==
  ASSUME FilesTyped, NEW w \in AnyPlace, writeIndex(w)
  PROVE  FilesTyped' /\ disk' = disk /\ left' = left
BY DEF FilesTyped, writeIndex, AnyPlace, Place

LEMMA DropFiles ==
  ASSUME FilesTyped, NEW w \in AnyPlace, NEW o, NEW v, dropStale(w, o),
         Kept(w, o, disk, left, crashes), w.at = "stale", v.at = "report"
  PROVE  FilesTyped' /\ Kept(v, o, disk', left', crashes)
<1>1. /\ w.p \in Products /\ disk[w.p] \in [Names -> Contents] /\ "absent" \in Contents
      /\ disk \in Disks /\ left \in NameSets
    BY DEF AnyPlace, Place, Contents, FilesTyped, Disks
<1>2. PICK stays \in SUBSET Others(w, o) :
        /\ disk' = [disk EXCEPT ![w.p] = [n \in Names |-> IF n \in Others(w, o) \ stays
                                                           THEN "absent" ELSE disk[w.p][n]]]
        /\ left' = [left EXCEPT ![w.p] = IF crashes = 0 THEN stays ELSE {}]
        /\ UNCHANGED <<index, staged>>
    BY DEF dropStale
<1> DEFINE gone == Others(w, o) \ stays
<1>3. gone \in SUBSET Names /\ stays \in SUBSET Names
    BY DEF Others
<1>4. FilesTyped'
  <2>1. disk' \in Disks
      BY <1>1, <1>2 DEF Disks
  <2>2. left' \in NameSets
      BY <1>1, <1>2, <1>3 DEF NameSets
  <2>3. QED
      BY <1>2, <2>1, <2>2 DEF FilesTyped
<1>5. Clearance(w, o, disk, gone, stays)
    BY DEF Others, Clearance
<1>6. /\ disk' = [disk EXCEPT ![w.p] = [n \in Names |-> IF n \in gone THEN "absent"
                                                                 ELSE disk[w.p][n]]]
      /\ crashes = 0 => left' = [left EXCEPT ![w.p] = stays]
    BY <1>2
<1> HIDE DEF gone
<1>7. Kept(v, o, disk', left', crashes)
    BY <1>1, <1>3, <1>5, <1>6, DropKeeps
<1>8. QED
    BY <1>4, <1>7

-----------------------------------------------------------------------------
(* The updater. *)

\* Installs and copies nothing, and goes where it does not.
LEMMA UpQuiet ==
  ASSUME StoreIInv, ~Installs(up) \/ up.at = "copying", up'.at # "copying",
         UNCHANGED <<disk, left, im, crashes>>
  PROVE  Kept(up, im, disk, left, crashes)'
BY MoveKeeps DEF StoreIInv

LEMMA UpdaterKeeps ==
  ASSUME StoreIInv, Updater \/ setProgress
  PROVE  StoreIInv'
<1> USE DEF files, orders
<1> SUFFICES Typed' /\ Kept(up, im, disk, left, crashes)'
    BY TypedTwice DEF StoreIInv
<1>0. Typed /\ FilesTyped /\ OrdersTyped /\ ShownTyped /\ PlacesTyped
    BY TypesAre DEF StoreIInv, Typed
<1>p. up \in AnyPlace /\ up.p \in Products /\ up.r \in Releases /\ NameOf[up.r] \in Names
    BY <1>0, PlacesAre
<1>1. CASE UpStart
  <2>1. PlacesTyped' /\ up'.at = "plan"
      BY <1>0, <1>1, UpStepType DEF UpStart, UpPlaces
  <2>2. FilesTyped' /\ OrdersTyped' /\ ShownTyped'
      BY <1>0, <1>1 DEF UpStart, UpStep, FilesTyped, OrdersTyped, ShownTyped
  <2>3. Kept(up, im, disk, left, crashes)'
      BY <1>1, <2>1, UpQuiet DEF UpStart, UpStep, Installs
  <2>4. QED
      BY <2>1, <2>2, <2>3 DEF Typed
<1>2. CASE UpPlan
  <2> DEFINE to == IF ~running THEN "over" ELSE IF Round = {} THEN "sleep" ELSE "next"
  <2>1. to \in UpPlaces /\ to # "copying" /\ UpStep("plan", to)
      BY <1>2 DEF UpPlan, UpPlaces
  <2>2. PlacesTyped' /\ up'.at # "copying"
      BY <1>0, <2>1, UpStepType
  <2>3. Round \subseteq Products
      BY <1>0 DEF Round, OrdersTyped
  <2>4. kickAll' \in BOOLEAN
      BY <1>0, <1>2, Zenon DEF UpPlan, OrdersTyped
  <2>5. FilesTyped' /\ OrdersTyped' /\ ShownTyped'
      BY <1>0, <1>2, <2>3, <2>4 DEF UpPlan, UpStep, FilesTyped, OrdersTyped, ShownTyped
  <2>6. Kept(up, im, disk, left, crashes)'
      BY <1>2, <2>1, <2>2, UpQuiet DEF UpPlan, UpStep, Installs
  <2>7. QED
      BY <2>2, <2>5, <2>6 DEF Typed
<1>3. CASE UpWake
  <2>1. PlacesTyped' /\ up'.at = "plan"
      BY <1>0, <1>3, UpStepType DEF UpWake, UpPlaces
  <2>2. FilesTyped' /\ OrdersTyped' /\ ShownTyped'
      BY <1>0, <1>3 DEF UpWake, UpStep, FilesTyped, OrdersTyped, ShownTyped
  <2>3. Kept(up, im, disk, left, crashes)'
      BY <1>3, <2>1, UpQuiet DEF UpWake, UpStep, Installs
  <2>4. QED
      BY <2>1, <2>2, <2>3 DEF Typed
<1>4. CASE UpNone
  <2> DEFINE to == IF running THEN "plan" ELSE "over"
  <2>1. to \in UpPlaces /\ to # "copying" /\ UpStep("next", to)
      BY <1>4 DEF UpNone, UpPlaces
  <2>2. PlacesTyped' /\ up'.at # "copying"
      BY <1>0, <2>1, UpStepType
  <2>3. FilesTyped' /\ OrdersTyped' /\ ShownTyped'
      BY <1>0, <1>4 DEF UpNone, UpStep, FilesTyped, OrdersTyped, ShownTyped
  <2>4. Kept(up, im, disk, left, crashes)'
      BY <1>4, <2>2, UpQuiet DEF UpNone, UpStep, Installs
  <2>5. QED
      BY <2>2, <2>3, <2>4 DEF Typed
<1>5. ASSUME NEW q \in Products, UpCheck(q) PROVE Typed' /\ Kept(up, im, disk, left, crashes)'
  <2>1. up' \in Place(UpPlaces) /\ up'.at = "discover"
      BY <1>0, <1>5 DEF UpCheck, PlacesTyped, Place, UpPlaces
  <2>2. PlacesTyped' /\ FilesTyped' /\ OrdersTyped' /\ ShownTyped'
      BY <1>0, <1>5, <2>1 DEF UpCheck, FilesTyped, OrdersTyped, ShownTyped, PlacesTyped
  <2>3. Kept(up, im, disk, left, crashes)'
      BY <1>5, <2>1, UpQuiet DEF UpCheck, Installs
  <2>4. QED
      BY <2>2, <2>3 DEF Typed
<1>6. CASE discoverLatest
  <2>1. PICK r \in {Newest[up.p], Fallback[up.p]} : up' = [up EXCEPT !.at = "compare", !.r = r]
      BY <1>6 DEF discoverLatest
  <2>2. r \in Releases
      BY <1>p
  <2>3. up' \in Place(UpPlaces) /\ up'.at = "compare"
      BY <1>0, <2>1, <2>2 DEF PlacesTyped, Place, UpPlaces
  <2>4. PlacesTyped' /\ FilesTyped' /\ OrdersTyped' /\ ShownTyped'
      BY <1>0, <1>6, <2>3 DEF discoverLatest, FilesTyped, OrdersTyped, ShownTyped, PlacesTyped
  <2>5. Kept(up, im, disk, left, crashes)'
      BY <1>6, <2>3, UpQuiet DEF discoverLatest, Installs
  <2>6. QED
      BY <2>4, <2>5 DEF Typed
<1>7. CASE UpCurrent
  <2>1. PlacesTyped' /\ up'.at = "next"
      BY <1>0, <1>7, UpStepType DEF UpCurrent, UpPlaces
  <2>2. ShownTyped'
      BY <1>0, <1>7, <1>p, ReportedType DEF UpCurrent
  <2>3. FilesTyped' /\ OrdersTyped'
      BY <1>0, <1>7 DEF UpCurrent, UpStep, FilesTyped, OrdersTyped
  <2>4. Kept(up, im, disk, left, crashes)'
      BY <1>7, <2>1, UpQuiet DEF UpCurrent, UpStep, Installs
  <2>5. QED
      BY <2>1, <2>2, <2>3, <2>4 DEF Typed
<1>8. CASE UpOutdated
  <2>1. PlacesTyped' /\ up'.at = "fetch"
      BY <1>0, <1>8, UpStepType DEF UpOutdated, UpPlaces
  <2>2. ShownTyped' /\ OrdersTyped'
      BY <1>0, <1>8, <1>p DEF UpOutdated, UpStep, OrdersTyped, ShownTyped
  <2>3. FilesTyped'
      BY <1>0, <1>8, <1>p DEF UpOutdated, clearStagingExcept, FilesTyped, NameSets
  <2>4. Kept(up, im, disk, left, crashes)'
      BY <1>8, <2>1, UpQuiet DEF UpOutdated, UpStep, clearStagingExcept, Installs
  <2>5. QED
      BY <2>1, <2>2, <2>3, <2>4 DEF Typed
<1>9. CASE UpFetch
  <2>1. PlacesTyped' /\ up'.at = "copy"
      BY <1>0, <1>9, UpStepType DEF UpFetch, UpPlaces
  <2>2. ShownTyped' /\ OrdersTyped'
      BY <1>0, <1>9 DEF UpFetch, UpStep, OrdersTyped, ShownTyped
  <2>3. FilesTyped'
      BY <1>0, <1>9, <1>p DEF UpFetch, FilesTyped, NameSets
  <2>4. Kept(up, im, disk, left, crashes)'
      BY <1>9, <2>1, UpQuiet DEF UpFetch, UpStep, Installs
  <2>5. QED
      BY <2>1, <2>2, <2>3, <2>4 DEF Typed
<1>10. CASE UpFails
  <2>1. PICK a \in {"compare", "fetch", "copy", "copying"} : UpStep(a, "next")
      BY <1>10 DEF UpFails
  <2>2. PlacesTyped' /\ up'.at = "next"
      BY <1>0, <2>1, UpStepType DEF UpPlaces
  <2>3. ShownTyped'
      BY <1>0, <1>10, <1>p, ReportedType DEF UpFails
  <2>4. FilesTyped' /\ OrdersTyped'
      BY <1>0, <1>10, <2>1 DEF UpFails, UpStep, FilesTyped, OrdersTyped
  <2>5. Kept(up, im, disk, left, crashes)'
      BY <1>10, <2>1, <2>2, UpQuiet DEF UpFails, UpStep, Installs
  <2>6. QED
      BY <2>2, <2>3, <2>4, <2>5 DEF Typed
<1>11. CASE UpInstall
  <2>1. OrdersTyped' /\ ShownTyped' /\ UNCHANGED <<im, crashes>>
      BY <1>0, <1>11 DEF UpInstall, UpStep, OrdersTyped, ShownTyped
  <2>2. CASE UpStep("copy", "copying") /\ copyBegins(up, im)
    <3>1. PlacesTyped' /\ up'.at = "copying" /\ up'.p = up.p /\ up'.r = up.r
        BY <1>0, <2>2, UpStepType DEF UpPlaces
    <3>2. /\ FilesTyped' /\ disk' = [disk EXCEPT ![up.p][NameOf[up.r]] = "torn"]
          /\ left' = [left EXCEPT ![up.p] = @ \ {NameOf[up.r]}]
        BY <1>0, <1>p, <2>2, BeginFiles
    <3>3. Kept(up', im, disk', left', crashes)
      <4>1. disk \in Disks /\ left \in NameSets /\ Kept(up, im, disk, left, crashes)
          BY <1>0 DEF StoreIInv, FilesTyped
      <4>2. ~Installs(up) /\ ~Copies(im, up.p, NameOf[up.r])
          BY <2>2 DEF UpStep, copyBegins, Installs
      <4>3. QED
          BY <1>p, <3>1, <3>2, <4>1, <4>2, BeginKeeps
    <3>4. QED
        BY <2>1, <3>1, <3>2, <3>3 DEF Typed
  <2>3. CASE UpStep("copying", "index") /\ copyEnds(up)
    <3>1. PlacesTyped' /\ up'.at = "index" /\ up'.p = up.p /\ up'.r = up.r
        BY <1>0, <2>3, UpStepType DEF UpPlaces
    <3>2. FilesTyped' /\ disk' = [disk EXCEPT ![up.p][NameOf[up.r]] = up.r] /\ left' = left
        BY <1>0, <1>p, <2>3, EndFiles
    <3>3. Kept(up', im, disk', left', crashes)
      <4>1. disk \in Disks /\ Kept(up, im, disk, left, crashes) /\ up.at = "copying"
          BY <1>0, <2>3 DEF StoreIInv, FilesTyped, UpStep
      <4>2. Kept(up', im, disk', left, crashes)
          BY <1>p, <3>1, <3>2, <4>1, EndKeeps
      <4>3. QED
          BY <3>2, <4>2
    <3>4. QED
        BY <2>1, <3>1, <3>2, <3>3 DEF Typed
  <2>4. CASE UpStep("index", "stale") /\ writeIndex(up)
    <3>1. PlacesTyped' /\ up'.at = "stale" /\ up'.p = up.p /\ up'.r = up.r
        BY <1>0, <2>4, UpStepType DEF UpPlaces
    <3>2. FilesTyped' /\ disk' = disk /\ left' = left
        BY <1>0, <1>p, <2>4, IndexFiles
    <3>3. Kept(up', im, disk', left', crashes)
      <4>1. Kept(up, im, disk, left, crashes) /\ up.at = "index" /\ up'.at # "copying"
          BY <2>4, <3>1 DEF StoreIInv, UpStep
      <4>2. Kept(up', im, disk, left, crashes)
          BY <3>1, <4>1, MoveKeeps
      <4>3. QED
          BY <3>2, <4>2
    <3>4. QED
        BY <2>1, <3>1, <3>2, <3>3 DEF Typed
  <2>5. CASE UpStep("stale", "report") /\ dropStale(up, im)
    <3>1. PlacesTyped' /\ up'.at = "report"
        BY <1>0, <2>5, UpStepType DEF UpPlaces
    <3>2. Kept(up, im, disk, left, crashes) /\ up.at = "stale"
        BY <2>5 DEF StoreIInv, UpStep
    <3>3. FilesTyped' /\ Kept(up', im, disk', left', crashes)
        BY <1>0, <1>p, <2>5, <3>1, <3>2, DropFiles
    <3>4. QED
        BY <2>1, <3>1, <3>3 DEF Typed
  <2>6. QED
      BY <1>11, <2>2, <2>3, <2>4, <2>5 DEF UpInstall
<1>12. CASE UpInstalled
  <2>1. PlacesTyped' /\ up'.at = "next"
      BY <1>0, <1>12, UpStepType DEF UpInstalled, UpPlaces
  <2>2. ShownTyped'
      BY <1>0, <1>12, <1>p, ReportedType DEF UpInstalled
  <2>3. FilesTyped' /\ OrdersTyped'
      BY <1>0, <1>12 DEF UpInstalled, UpStep, FilesTyped, OrdersTyped
  <2>4. Kept(up, im, disk, left, crashes)'
      BY <1>12, <2>1, UpQuiet DEF UpInstalled, UpStep, Installs
  <2>5. QED
      BY <2>1, <2>2, <2>3, <2>4 DEF Typed
<1>13. CASE setProgress
  <2>1. FilesTyped' /\ OrdersTyped' /\ ShownTyped' /\ PlacesTyped'
      BY <1>0, <1>13, <1>p DEF setProgress, FilesTyped, OrdersTyped, ShownTyped, PlacesTyped
  <2>2. Kept(up, im, disk, left, crashes)'
      BY <1>13 DEF setProgress, StoreIInv
  <2>3. QED
      BY <2>1, <2>2 DEF Typed
<1>14. QED
    BY <1>1, <1>2, <1>3, <1>4, <1>5, <1>6, <1>7, <1>8, <1>9, <1>10, <1>11, <1>12, <1>13
       DEF Updater

-----------------------------------------------------------------------------
(* The GUI thread. *)

LEMMA ImQuiet ==
  ASSUME StoreIInv, ~Installs(im) \/ im.at = "copying", im'.at # "copying",
         UNCHANGED <<disk, left, up, crashes>>
  PROVE  Kept(up, im, disk, left, crashes)'
<1>1. Kept(im, up, disk, left, crashes)
    BY KeptBoth DEF StoreIInv
<1>2. Kept(im', up, disk, left, crashes)
    BY <1>1, MoveKeeps
<1>3. QED
    BY <1>2, KeptBoth

LEMMA ImportKeeps ==
  ASSUME StoreIInv, Import
  PROVE  StoreIInv'
<1> USE DEF files, orders
<1> SUFFICES Typed' /\ Kept(up, im, disk, left, crashes)'
    BY TypedTwice DEF StoreIInv
<1>0. Typed /\ FilesTyped /\ OrdersTyped /\ ShownTyped /\ PlacesTyped
    BY TypesAre DEF StoreIInv, Typed
<1>p. im \in AnyPlace /\ im.p \in Products /\ im.r \in Releases /\ NameOf[im.r] \in Names
    BY <1>0, PlacesAre
<1>1. ASSUME NEW p \in Products, NEW r \in Imports[p], ImportBegin(p, r)
      PROVE  Typed' /\ Kept(up, im, disk, left, crashes)'
  <2>1. r \in Releases
      OBVIOUS
  <2>2. im' \in Place(ImPlaces) /\ im'.at \in {"copy", "staged"}
    <3>1. "copy" \in ImPlaces /\ "staged" \in ImPlaces /\ TRUE \in BOOLEAN /\ FALSE \in BOOLEAN
        BY DEF ImPlaces
    <3>2. \/ im' = [at |-> "copy", p |-> p, r |-> r, tmp |-> FALSE]
          \/ im' = [at |-> "staged", p |-> p, r |-> r, tmp |-> TRUE]
        BY <1>1 DEF ImportBegin
    <3>3. im'.at \in {"copy", "staged"}
        BY <3>2
    <3>4. /\ [at |-> "copy", p |-> p, r |-> r, tmp |-> FALSE] \in Place(ImPlaces)
          /\ [at |-> "staged", p |-> p, r |-> r, tmp |-> TRUE] \in Place(ImPlaces)
        BY <2>1, <3>1, PlaceIs
    <3>5. QED
        BY <3>2, <3>3, <3>4, Zenon
  <2>3. FilesTyped'
      BY <1>0, <1>1, <2>1 DEF ImportBegin, FilesTyped, NameSets
  <2>4. OrdersTyped' /\ ShownTyped' /\ PlacesTyped'
      BY <1>0, <1>1, <2>2 DEF ImportBegin, OrdersTyped, ShownTyped, PlacesTyped
  <2>5. Kept(up, im, disk, left, crashes)'
      BY <1>1, <2>2, ImQuiet DEF ImportBegin, Installs
  <2>6. QED
      BY <2>3, <2>4, <2>5 DEF Typed
<1>2. CASE ImportStaged
  <2>1. PICK a \in {"copy", "idle"} : ImStep("staged", a)
      BY <1>2 DEF ImportStaged
  <2>2. PlacesTyped' /\ im'.at = a
      BY <1>0, <2>1, ImStepType DEF ImPlaces
  <2>3. FilesTyped'
      BY <1>0, <1>p, <1>2 DEF ImportStaged, FilesTyped, NameSets
  <2>4. OrdersTyped' /\ ShownTyped'
      BY <1>0, <1>2, <2>1 DEF ImportStaged, ImStep, OrdersTyped, ShownTyped
  <2>5. Kept(up, im, disk, left, crashes)'
      BY <1>2, <2>1, <2>2, ImQuiet DEF ImportStaged, ImStep, Installs
  <2>6. QED
      BY <2>2, <2>3, <2>4, <2>5 DEF Typed
<1>3. CASE ImportInstall
  <2>1. OrdersTyped' /\ ShownTyped' /\ UNCHANGED <<up, crashes>>
      BY <1>0, <1>3 DEF ImportInstall, ImStep, OrdersTyped, ShownTyped
  <2>0. Kept(im, up, disk, left, crashes) /\ disk \in Disks /\ left \in NameSets
      BY <1>0, KeptBoth DEF StoreIInv, FilesTyped
  <2> SUFFICES PlacesTyped' /\ FilesTyped' /\ Kept(im', up, disk', left', crashes)
      BY <2>1, KeptBoth DEF Typed
  <2>2. CASE ImStep("copy", "copying") /\ copyBegins(im, up)
    <3>1. PlacesTyped' /\ im'.at = "copying" /\ im'.p = im.p /\ im'.r = im.r
        BY <1>0, <2>2, ImStepType DEF ImPlaces
    <3>2. /\ FilesTyped' /\ disk' = [disk EXCEPT ![im.p][NameOf[im.r]] = "torn"]
          /\ left' = [left EXCEPT ![im.p] = @ \ {NameOf[im.r]}]
        BY <1>0, <1>p, <2>2, BeginFiles
    <3>3. ~Installs(im) /\ ~Copies(up, im.p, NameOf[im.r])
        BY <2>2 DEF ImStep, copyBegins, Installs
    <3>4. QED
        BY <1>p, <2>0, <3>1, <3>2, <3>3, BeginKeeps
  <2>3. CASE \E a \in {"index", "idle"} : ImStep("copy", a) /\ UNCHANGED files
    <3>1. PICK a \in {"index", "idle"} : ImStep("copy", a)
        BY <2>3
    <3>2. PlacesTyped' /\ im'.at = a
        BY <1>0, <3>1, ImStepType DEF ImPlaces
    <3>3. FilesTyped' /\ disk' = disk /\ left' = left
        BY <1>0, <2>3 DEF FilesTyped
    <3>4. ~Installs(im)
        BY <3>1 DEF ImStep, Installs
    <3>5. Kept(im', up, disk, left, crashes)
        BY <2>0, <3>2, <3>4, MoveKeeps
    <3>6. QED
        BY <3>2, <3>3, <3>5
  <2>4. CASE ImStep("copying", "idle") /\ UNCHANGED files
    <3>1. PlacesTyped' /\ im'.at = "idle"
        BY <1>0, <2>4, ImStepType DEF ImPlaces
    <3>2. FilesTyped' /\ disk' = disk /\ left' = left
        BY <1>0, <2>4 DEF FilesTyped
    <3>3. im.at = "copying"
        BY <2>4 DEF ImStep
    <3>4. Kept(im', up, disk, left, crashes)
        BY <2>0, <3>1, <3>3, MoveKeeps
    <3>5. QED
        BY <3>1, <3>2, <3>4
  <2>5. CASE ImStep("copying", "index") /\ copyEnds(im)
    <3>1. PlacesTyped' /\ im'.at = "index" /\ im'.p = im.p /\ im'.r = im.r
        BY <1>0, <2>5, ImStepType DEF ImPlaces
    <3>2. FilesTyped' /\ disk' = [disk EXCEPT ![im.p][NameOf[im.r]] = im.r] /\ left' = left
        BY <1>0, <1>p, <2>5, EndFiles
    <3>3. im.at = "copying"
        BY <2>5 DEF ImStep
    <3>4. Kept(im', up, disk', left, crashes)
        BY <1>p, <2>0, <3>1, <3>2, <3>3, EndKeeps
    <3>5. QED
        BY <3>1, <3>2, <3>4
  <2>6. CASE ImStep("index", "stale") /\ writeIndex(im)
    <3>1. PlacesTyped' /\ im'.at = "stale" /\ im'.p = im.p /\ im'.r = im.r
        BY <1>0, <2>6, ImStepType DEF ImPlaces
    <3>2. FilesTyped' /\ disk' = disk /\ left' = left
        BY <1>0, <1>p, <2>6, IndexFiles
    <3>3. im.at = "index"
        BY <2>6 DEF ImStep
    <3>4. Kept(im', up, disk, left, crashes)
        BY <2>0, <3>1, <3>3, MoveKeeps
    <3>5. QED
        BY <3>1, <3>2, <3>4
  <2>7. CASE ImStep("stale", "report") /\ dropStale(im, up)
    <3>1. PlacesTyped' /\ im'.at = "report"
        BY <1>0, <2>7, ImStepType DEF ImPlaces
    <3>2. im.at = "stale"
        BY <2>7 DEF ImStep
    <3>3. FilesTyped' /\ Kept(im', up, disk', left', crashes)
        BY <1>0, <1>p, <2>0, <2>7, <3>1, <3>2, DropFiles
    <3>4. QED
        BY <3>1, <3>3
  <2>8. QED
      BY <1>3, <2>2, <2>3, <2>4, <2>5, <2>6, <2>7 DEF ImportInstall
<1>4. CASE noteImported
  <2>1. PlacesTyped' /\ im'.at = "idle"
      BY <1>0, <1>4, ImStepType DEF noteImported, ImPlaces
  <2>2. ShownTyped'
      BY <1>0, <1>4, <1>p, ReportedType DEF noteImported, ImStep
  <2>3. FilesTyped' /\ OrdersTyped'
      BY <1>0, <1>4 DEF noteImported, ImStep, FilesTyped, OrdersTyped
  <2>4. Kept(up, im, disk, left, crashes)'
      BY <1>4, <2>1, ImQuiet DEF noteImported, ImStep, Installs
  <2>5. QED
      BY <2>1, <2>2, <2>3, <2>4 DEF Typed
<1>5. QED
    BY <1>1, <1>2, <1>3, <1>4 DEF Import

\* The orders of the user, the end of the process, and time.
LEMMA DeskKeeps ==
  ASSUME StoreIInv,
         \/ checkNow \/ setUpdatesEnabled \/ stopUpdates \/ StopJoined \/ Restart \/ Off
         \/ \E p \in Products : FallsDue(p) \/ \E n \in Names : removeFile(p, n)
  PROVE  StoreIInv'
<1> USE DEF files, orders
<1> SUFFICES Typed' /\ Kept(up, im, disk, left, crashes)'
    BY TypedTwice DEF StoreIInv
<1>0. Typed /\ FilesTyped /\ OrdersTyped /\ ShownTyped /\ PlacesTyped
    BY TypesAre DEF StoreIInv, Typed
<1>k. UNCHANGED <<up, im, disk, left, crashes>> => Kept(up, im, disk, left, crashes)'
    BY DEF StoreIInv
<1>1. CASE checkNow
  <2>1. FilesTyped' /\ ShownTyped' /\ PlacesTyped' /\ Kept(up, im, disk, left, crashes)'
      BY <1>0, <1>1, <1>k DEF checkNow, Order, FilesTyped, ShownTyped, PlacesTyped
  <2>2. kickAll' \in BOOLEAN
      BY <1>0, <1>1, Zenon DEF checkNow, OrdersTyped
  <2>3. OrdersTyped'
      BY <1>0, <1>1, <2>2 DEF checkNow, Order, OrdersTyped
  <2>4. QED
      BY <2>1, <2>3 DEF Typed
<1>2. CASE setUpdatesEnabled
  <2>1. FilesTyped' /\ PlacesTyped' /\ Kept(up, im, disk, left, crashes)'
      BY <1>0, <1>2, <1>k DEF setUpdatesEnabled, Order, FilesTyped, PlacesTyped
  <2>2. ShownTyped'
      BY <1>0, <1>2 DEF setUpdatesEnabled, Order, ShownTyped
  <2>3. OrdersTyped'
      BY <1>0, <1>2 DEF setUpdatesEnabled, Order, OrdersTyped
  <2>4. QED
      BY <2>1, <2>2, <2>3 DEF Typed
<1>3. CASE stopUpdates
  <2>1. FilesTyped' /\ ShownTyped' /\ Kept(up, im, disk, left, crashes)' /\ PlacesTyped'
      BY <1>0, <1>3, <1>k DEF stopUpdates, FilesTyped, PlacesTyped, ShownTyped
  <2>2. OrdersTyped'
      BY <1>0, <1>3 DEF stopUpdates, OrdersTyped
  <2>3. QED
      BY <2>1, <2>2 DEF Typed
<1>4. CASE StopJoined
  <2>1. FilesTyped' /\ ShownTyped' /\ Kept(up, im, disk, left, crashes)' /\ PlacesTyped' /\ OrdersTyped'
      BY <1>0, <1>4, <1>k DEF StopJoined, FilesTyped, PlacesTyped, ShownTyped, OrdersTyped
  <2>2. QED
      BY <2>1 DEF Typed
<1>5. CASE Restart
  <2>1. up' \in Place(UpPlaces) /\ up'.at = "start" /\ im' \in Place(ImPlaces) /\ im'.at = "idle"
      BY <1>5, FirstIs DEF Restart, Started, UpPlaces, ImPlaces
  <2>2. crashes' \in 0 .. MaxCrashes /\ crashes' # 0
      BY <1>0, <1>5 DEF Restart, PlacesTyped
  <2>3. PlacesTyped' /\ FilesTyped' /\ ShownTyped'
      BY <1>0, <1>5, <2>1, <2>2 DEF Restart, Started, PlacesTyped, FilesTyped, ShownTyped, NameSets
  <2>4. OrdersTyped'
      BY <1>0, <1>5 DEF Restart, Started, OrdersTyped
  <2>5. Kept(up, im, disk, left, crashes)'
      BY <2>1, <2>2 DEF Kept, CopiesAreTorn, OneCopier, Copies
  <2>6. QED
      BY <2>3, <2>4, <2>5 DEF Typed
<1>6. CASE Off
  BY <1>0, <1>6, <1>k DEF Off, vars, Typed, FilesTyped, OrdersTyped, ShownTyped, PlacesTyped
<1>7. ASSUME NEW p \in Products, FallsDue(p) PROVE Typed' /\ Kept(up, im, disk, left, crashes)'
  <2>1. FilesTyped' /\ OrdersTyped' /\ PlacesTyped' /\ Kept(up, im, disk, left, crashes)'
      BY <1>0, <1>7, <1>k DEF FallsDue, FilesTyped, OrdersTyped, PlacesTyped
  <2>2. ShownTyped'
      BY <1>0, <1>7 DEF FallsDue, ShownTyped
  <2>3. QED
      BY <2>1, <2>2 DEF Typed
<1>8. ASSUME NEW p \in Products, NEW n \in Names, removeFile(p, n)
      PROVE  Typed' /\ Kept(up, im, disk, left, crashes)'
  <2>1. OrdersTyped' /\ ShownTyped' /\ PlacesTyped'
      BY <1>0, <1>8 DEF removeFile, OrdersTyped, ShownTyped, PlacesTyped
  <2>2. disk' = [disk EXCEPT ![p][n] = "absent"] /\ "absent" \in Contents
      BY <1>8 DEF removeFile, OnDisk, Contents
  <2>3. FilesTyped' /\ left' = [left EXCEPT ![p] = @ \ {n}]
      BY <1>0, <1>8, <2>2, Written DEF removeFile, FilesTyped, NameSets
  <2>4. ~Copies(up, p, n) /\ ~Copies(im, p, n)
      BY <1>8 DEF removeFile, GuiFree, Copies
  <2>5. Kept(up, im, disk', left', crashes)
      BY <1>0, <2>2, <2>3, <2>4, RemoveKeeps DEF StoreIInv, FilesTyped
  <2>6. QED
      BY <1>8, <2>1, <2>3, <2>5 DEF Typed, removeFile
<1>9. QED
    BY <1>1, <1>2, <1>3, <1>4, <1>5, <1>6, <1>7, <1>8

-----------------------------------------------------------------------------
\* Whatever the updater and the user do: what an installer copies is torn and its own,
\* and until a crash one file of a product is settled, the others could not be removed by
\* the last clean-up or are being installed.
THEOREM StoreInvariant == Spec => []StoreIInv
<1>1. Init => StoreIInv
  <2> SUFFICES ASSUME Init PROVE StoreIInv
      OBVIOUS
  <2>1. up \in Place(UpPlaces) /\ up.at = "start" /\ im \in Place(ImPlaces) /\ im.at = "idle"
      BY FirstIs DEF Init, UpPlaces, ImPlaces
  <2>2. PlacesTyped /\ FilesTyped /\ ShownTyped
    <3>1. disk \in Disks
        BY DEF Init, Disks, Contents
    <3>2. FilesTyped
        BY <3>1 DEF Init, FilesTyped, NameSets
    <3>3. ShownTyped
        BY DEF Init, ShownTyped
    <3>4. PlacesTyped
      <4>1. gui \in {"open", "joining", "off"} /\ crashes \in 0 .. MaxCrashes
          BY DEF Init
      <4>2. QED
          BY <2>1, <4>1 DEF PlacesTyped
    <3>5. QED
        BY <3>2, <3>3, <3>4
  <2>3. OrdersTyped
      BY DEF Init, OrdersTyped
  <2>4. CopiesAreTorn(up, im, disk) /\ OneCopier(up, im)
      BY <2>1 DEF CopiesAreTorn, OneCopier, Copies
  <2>5. \A p \in Products, n \in Names : disk[p][n] \notin Releases
      BY DEF Init
  <2>6. \E x \in Names : TRUE
      OBVIOUS
  <2>7. QED
      BY <2>2, <2>3, <2>4, <2>5, <2>6, TypesAre DEF StoreIInv, Kept, OneSettled
<1>2. StoreIInv /\ [Next]_vars => StoreIInv'
  <2> SUFFICES ASSUME StoreIInv, [Next]_vars PROVE StoreIInv'
      OBVIOUS
  <2>1. CASE Next
      BY <2>1, UpdaterKeeps, ImportKeeps, DeskKeeps DEF Next
  <2>2. CASE UNCHANGED vars
    <3>1. StoreTypeOK'
        BY <2>2 DEF StoreIInv, StoreTypeOK, vars, files, orders
    <3>2. QED
        BY <2>2, <3>1 DEF StoreIInv, vars, files
  <2>3. QED
      BY <2>1, <2>2
<1>3. QED
    BY <1>1, <1>2, PTL DEF Spec

\* The library, the orders and the places of updater and import are what they are said to be.
THEOREM StoreIsTyped == Spec => []StoreTypeOK
<1>1. StoreIInv => StoreTypeOK
    BY DEF StoreIInv
<1>2. QED
    BY <1>1, StoreInvariant, PTL

\* install leaves one version of a product, whoever installed last, and besides only what
\* the last clean-up could not remove, unless a process died.
THEOREM OneVersionIsKept == Spec => []OneVersionKept
<1>1. StoreIInv => OneVersionKept
  <2> SUFFICES ASSUME StoreIInv, NEW p \in Products, crashes = 0, ~Installs(up), ~Installs(im)
               PROVE  Cardinality(Whole(p) \ left[p]) <= 1
      BY DEF OneVersionKept
  <2>1. PICK x \in Names : \A n \in Names :
          disk[p][n] \in Releases => n = x \/ n \in left[p] \/ n \in Fresh(up, p)
                                           \/ n \in Fresh(im, p)
      BY DEF StoreIInv, Kept, OneSettled
  <2>2. Whole(p) \ left[p] \subseteq {x}
      BY <2>1 DEF Whole, Fresh
  <2>3. IsFiniteSet({x}) /\ Cardinality({x}) = 1
      BY FS_Singleton
  <2>4. Cardinality(Whole(p) \ left[p]) <= Cardinality({x})
      BY <2>2, <2>3, FS_Subset
  <2>5. QED
      BY <2>3, <2>4
<1>2. QED
    BY <1>1, StoreInvariant, PTL

-----------------------------------------------------------------------------
(* The dated library.                                                      *)

USE LibAssumption

LibWholeness == {"no", "torn", "whole"}
LibSteps == {"none", "open", "write", "drop", "decode", "redo", "dropCrx"}
LibJobs == [at : {"none", "transfer", "unpack", "tool", "record"}, got : LibForms]

LibTyped ==
  /\ libDisk \in [LibFiles -> [LibForms -> LibWholeness]]
  /\ libHold \in [by : {"none", "worker", "gui"}, file : LibFiles \cup {"none"}, at : LibSteps]
  /\ libHold.at # "none" => libHold.by # "none" /\ libHold.file \in LibFiles
  /\ libHold.at = "none" => libHold = LibFree
  /\ libJob \in [LibFiles -> LibJobs]
  /\ libTodo \subseteq LibFiles \X {"gz", "crx"}
  /\ libArrived \subseteq LibFiles

\* Only who holds the tool waits for it: the frame in a listing or a look-up, the
\* worker at its file.  A listing unpacks observations only.
LibHeld ==
  /\ libHold.by = "gui" => libGui \in {"list", "find"}
  /\ libHold.by = "worker" => libJob[libHold.file].at = "tool"
  /\ libGui = "list" => \A p \in libTodo : p[1] \in LibObs

\* An archive is put in place whole; what is unpacked from it may be torn.
LibArchives ==
  /\ \A f \in LibFiles : libDisk[f]["gz"] # "torn"
  /\ \A f \in LibProds : libDisk[f]["crx"] = "no"

\* Of a file that arrived something is whole, and it is the archive as long as
\* what the archive holds is torn.
LibSaved ==
  \A f \in libArrived :
    /\ "whole" \in {libDisk[f]["gz"], libDisk[f]["crx"], libDisk[f]["out"]}
    /\ libDisk[f][LibUnzipped(f)] = "torn" => libDisk[f]["gz"] = "whole"

\* What the tool, at step s of file f, is about to remove is there in the next
\* form, unless the user has deleted that one meanwhile.
LibToolSafe(s, f) ==
  /\ s = "write" => libDisk[f]["gz"] = "whole"
  /\ s = "drop" /\ (libHold.by = "gui" \/ f \in libArrived) => libDisk[f][LibUnzipped(f)] = "whole"
  /\ s \in {"decode", "redo", "dropCrx"} => f \in LibObs
  /\ s = "redo" /\ f \in libArrived => "whole" \in {libDisk[f]["gz"], libDisk[f]["crx"]}
  /\ s = "dropCrx" /\ f \in libArrived => "whole" \in {libDisk[f]["gz"], libDisk[f]["out"]}

LibIInv ==
  /\ LibTyped /\ LibHeld /\ LibArchives /\ LibSaved
  /\ LibToolSafe(libHold.at, libHold.file)

\* A form of one file takes the given state, and no other form does.
LEMMA LibPuts ==
  ASSUME LibTyped, NEW f \in LibFiles, NEW form \in LibForms, NEW s \in LibWholeness, LibPut(f, form, s)
  PROVE  /\ libDisk' \in [LibFiles -> [LibForms -> LibWholeness]]
         /\ libDisk'[f][form] = s
         /\ \A g \in LibFiles, k \in LibForms : g # f \/ k # form => libDisk'[g][k] = libDisk[g][k]
<1> DEFINE row == [libDisk[f] EXCEPT ![form] = s]
<1>1. libDisk \in [LibFiles -> [LibForms -> LibWholeness]] /\ libDisk[f] \in [LibForms -> LibWholeness]
    BY DEF LibTyped
<1>2. libDisk' = [libDisk EXCEPT ![f] = row]
    BY <1>1 DEF LibPut
<1>3. row \in [LibForms -> LibWholeness] /\ row[form] = s /\ \A k \in LibForms : k # form => row[k] = libDisk[f][k]
    BY <1>1
<1> HIDE DEF row
<1>4. QED
    BY <1>1, <1>2, <1>3

\* What a file holds may change in the step of a tool; the rest of the library's
\* invariant is of where the tool, the workers and the frame stand.
LibDiskKept ==
  /\ libDisk' \in [LibFiles -> [LibForms -> LibWholeness]]
  /\ libArrived' = libArrived
  /\ LibArchives' /\ LibSaved'

LEMMA LibReturns ==
  ASSUME LibIInv, libHold.at # "none", NEW form \in LibForms, LibReturn(form), LibDiskKept
  PROVE  LibIInv'
<1> DEFINE f == libHold.file
           job == [at |-> "record", got |-> form]
<1>1. f \in LibFiles /\ libHold' = LibFree /\ libTodo' = libTodo
    BY DEF LibIInv, LibTyped, LibReturn
<1>2. LibFree \in [by : {"none", "worker", "gui"}, file : LibFiles \cup {"none"}, at : LibSteps]
      /\ LibFree.at = "none" /\ LibFree.by = "none"
    BY DEF LibFree, LibSteps
<1>3. job \in LibJobs
    BY DEF LibJobs
<1>4. libJob' = [libJob EXCEPT ![f] = job] \/ libJob' = libJob
    BY DEF LibReturn
<1>5. libJob' \in [LibFiles -> LibJobs]
  <2> HIDE DEF job
  <2>1. libJob \in [LibFiles -> LibJobs]
      BY DEF LibIInv, LibTyped
  <2>2. QED
      BY <1>1, <1>3, <1>4, <2>1
<1>6. libGui' = libGui \/ libGui' = "look"
    BY DEF LibReturn
<1>7. LibTyped'
    BY <1>1, <1>2, <1>5 DEF LibIInv, LibTyped, LibDiskKept
<1>8. LibHeld'
    BY <1>1, <1>2, <1>6 DEF LibIInv, LibHeld
<1>9. LibToolSafe(libHold.at, libHold.file)'
    BY <1>1, <1>2 DEF LibToolSafe
<1>10. QED
    BY <1>7, <1>8, <1>9 DEF LibIInv, LibDiskKept

LEMMA LibGoes ==
  ASSUME LibIInv, libHold.at # "none", NEW step \in LibSteps \ {"none"}, LibGoto(step), LibDiskKept,
         LibToolSafe(step, libHold.file)'
  PROVE  LibIInv'
<1>1. /\ libHold' \in [by : {"none", "worker", "gui"}, file : LibFiles \cup {"none"}, at : LibSteps]
      /\ libHold'.at = step /\ libHold'.by = libHold.by /\ libHold'.file = libHold.file
    BY DEF LibIInv, LibTyped, LibGoto
<1>2. libJob' = libJob /\ libGui' = libGui /\ libTodo' = libTodo
    BY DEF LibGoto
<1>3. LibTyped'
    BY <1>1, <1>2 DEF LibIInv, LibTyped, LibDiskKept
<1>4. LibHeld'
    BY <1>1, <1>2 DEF LibIInv, LibHeld
<1>5. LibToolSafe(libHold.at, libHold.file)'
    BY <1>1 DEF LibToolSafe, LibIInv, LibTyped
<1>6. QED
    BY <1>3, <1>4, <1>5 DEF LibIInv, LibDiskKept

\* The steps of decompressIfNeeded.
LEMMA LibToolKeepsIt ==
  ASSUME LibIInv, LibTool, LibFlushLoses = {FALSE}
  PROVE  LibIInv'
<1> DEFINE f == libHold.file
           form == LibUnzipped(f)
<1>0. LibAt("open") \/ LibAt("write") \/ LibAt("drop") \/ LibAt("decode") \/ LibAt("redo") \/ LibAt("dropCrx")
    BY DEF LibTool, LibOpen, LibWritten, LibWriteFails, LibDrop, LibDecode, LibDecoded, LibDecodeFails, LibDropCrx
<1>1. libHold.at # "none" /\ f \in LibFiles
    BY <1>0 DEF LibIInv, LibTyped, LibAt
<1>2. form \in {"crx", "out"} /\ (f \in LibObs => form = "crx") /\ (f \in LibProds => form = "out")
      /\ (f \in LibObs \/ f \in LibProds) /\ ~(f \in LibObs /\ f \in LibProds)
    BY <1>1 DEF LibFiles, LibUnzipped
<1>3. /\ LibTyped /\ LibArchives /\ LibSaved /\ LibToolSafe(libHold.at, f)
      /\ libDisk \in [LibFiles -> [LibForms -> LibWholeness]] /\ libArrived \subseteq LibFiles
      /\ \A g \in LibFiles, k \in LibForms : libDisk[g][k] \in LibWholeness
    BY DEF LibIInv, LibTyped
<1>4. libArrived' = libArrived
    BY DEF LibTool, LibOpen, LibWritten, LibWriteFails, LibDrop, LibDecode, LibDecoded, LibDecodeFails, LibDropCrx,
           LibToolKeeps
<1>5. \A g \in LibFiles : LibUnzipped(g) \in {"crx", "out"}
    BY DEF LibUnzipped
<1> HIDE DEF f, form
<1>6. ASSUME UNCHANGED libDisk PROVE LibDiskKept
    BY <1>3, <1>4, <1>6 DEF LibDiskKept, LibArchives, LibSaved
\* What is put in the place of one form leaves the files sound if it leaves this one so.
<1>7. ASSUME NEW k \in LibForms, NEW s \in LibWholeness, LibPut(f, k, s),
             k = "gz" => s # "torn",
             k = "crx" => f \in LibObs,
             f \in libArrived =>
               /\ "whole" \in {libDisk'[f]["gz"], libDisk'[f]["crx"], libDisk'[f]["out"]}
               /\ libDisk'[f][form] = "torn" => libDisk'[f]["gz"] = "whole"
      PROVE  LibDiskKept
  <2>1. /\ libDisk' \in [LibFiles -> [LibForms -> LibWholeness]]
        /\ libDisk'[f][k] = s
        /\ \A g \in LibFiles, m \in LibForms : g # f \/ m # k => libDisk'[g][m] = libDisk[g][m]
      BY <1>1, <1>3, <1>7, LibPuts
  <2>2. "gz" \in LibForms /\ "crx" \in LibForms /\ "out" \in LibForms
      BY DEF LibForms
  <2>3. LibArchives'
      BY <1>1, <1>2, <1>3, <1>7, <2>1, <2>2 DEF LibArchives, LibFiles
  <2>4. ASSUME NEW g \in libArrived
        PROVE  /\ "whole" \in {libDisk'[g]["gz"], libDisk'[g]["crx"], libDisk'[g]["out"]}
               /\ libDisk'[g][LibUnzipped(g)] = "torn" => libDisk'[g]["gz"] = "whole"
    <3>1. CASE g = f
        BY <1>7, <2>4, <3>1 DEF form
    <3>2. CASE g # f
      <4>1. g \in LibFiles /\ LibUnzipped(g) \in LibForms
          BY <1>3, <1>5, <2>2
      <4>2. \A m \in LibForms : libDisk'[g][m] = libDisk[g][m]
          BY <2>1, <3>2, <4>1
      <4>3. QED
          BY <1>3, <2>2, <4>1, <4>2 DEF LibSaved
    <3>3. QED
        BY <3>1, <3>2
  <2>5. QED
      BY <1>4, <2>1, <2>3, <2>4 DEF LibDiskKept, LibSaved
<1>8. ASSUME NEW k \in LibForms, NEW s \in LibWholeness, LibPut(f, k, s)
      PROVE  /\ libDisk'[f][k] = s
             /\ \A m \in LibForms : m # k => libDisk'[f][m] = libDisk[f][m]
    BY <1>1, <1>3, <1>8, LibPuts
<1>9. /\ f \in libArrived => "whole" \in {libDisk[f]["gz"], libDisk[f]["crx"], libDisk[f]["out"]}
      /\ f \in libArrived /\ libDisk[f][form] = "torn" => libDisk[f]["gz"] = "whole"
      /\ libDisk[f]["gz"] # "torn"
    BY <1>1, <1>3 DEF LibSaved, LibArchives, form
<1>10. \A step \in {"open", "write", "drop", "decode", "redo", "dropCrx"} : step \in LibSteps \ {"none"}
    BY DEF LibSteps
<1>11. "gz" \in LibForms /\ "crx" \in LibForms /\ "out" \in LibForms /\ form \in LibForms
       /\ "no" \in LibWholeness /\ "torn" \in LibWholeness /\ "whole" \in LibWholeness
    BY <1>2 DEF LibForms, LibWholeness
<1>12. ASSUME NEW k \in LibForms, LibDiskKept, LibReturn(k) PROVE LibIInv'
    BY <1>1, <1>12, LibReturns
<1>13. ASSUME NEW step \in {"open", "write", "drop", "decode", "redo", "dropCrx"}, LibDiskKept, LibGoto(step),
              LibToolSafe(step, f)' PROVE LibIInv'
    BY <1>1, <1>10, <1>13, LibGoes DEF f
<1>14. ASSUME NEW step, LibGoto(step) PROVE f' = f
    BY <1>14 DEF LibGoto, LibIInv, LibTyped, f
<1>15. CASE LibOpen
  <2>1. CASE UNCHANGED libDisk /\ LibReturn("gz")
      BY <1>6, <1>11, <1>12, <2>1
  <2>2. CASE LibHas(f, "gz") /\ LibPut(f, form, "torn") /\ LibGoto("write")
    <3>1. libDisk[f]["gz"] = "whole"
        BY <1>1, <1>3, <1>9, <1>11, <2>2 DEF LibHas, LibWholeness
    <3>2. libDisk'[f]["gz"] = "whole"
        BY <1>2, <1>8, <1>11, <2>2, <3>1
    <3>3. LibDiskKept
        BY <1>2, <1>7, <1>11, <2>2, <3>2
    <3>4. LibToolSafe("write", f)'
        BY <1>14, <2>2, <3>2 DEF LibToolSafe
    <3>5. QED
        BY <1>13, <2>2, <3>3, <3>4
  <2>3. QED
      BY <1>15, <2>1, <2>2 DEF LibOpen, f, form
<1>16. CASE LibWritten
  <2>1. LibAt("write") /\ LibPut(f, form, "whole") /\ LibGoto("drop")
      BY <1>16 DEF LibWritten, f, form
  <2>2. libDisk'[f][form] = "whole"
      BY <1>8, <1>11, <2>1
  <2>3. LibDiskKept
      BY <1>2, <1>7, <1>11, <2>1, <2>2
  <2>4. LibToolSafe("drop", f)'
      BY <1>14, <2>1, <2>2 DEF LibToolSafe, form
  <2>5. QED
      BY <1>13, <2>1, <2>3, <2>4
<1>17. CASE LibWriteFails
  <2>1. LibAt("write") /\ (LibPut(f, form, "no") \/ UNCHANGED libDisk) /\ LibReturn("gz")
      BY <1>17, Zenon DEF LibWriteFails, f, form
  <2>2. libDisk[f]["gz"] = "whole"
      BY <1>3, <2>1 DEF LibAt, LibToolSafe
  <2>3. CASE LibPut(f, form, "no")
    <3>1. libDisk'[f]["gz"] = "whole"
        BY <1>2, <1>8, <1>11, <2>2, <2>3
    <3>2. LibDiskKept
        BY <1>2, <1>7, <1>11, <2>3, <3>1
    <3>3. QED
        BY <1>11, <1>12, <2>1, <3>2
  <2>4. CASE UNCHANGED libDisk
      BY <1>6, <1>11, <1>12, <2>1, <2>4
  <2>5. QED
      BY <2>1, <2>3, <2>4
<1>18. CASE LibDrop
  <2>1. LibAt("drop") /\ (LibPut(f, "gz", "no") \/ UNCHANGED libDisk)
        /\ IF f \in LibObs THEN LibGoto("decode") ELSE LibReturn("out")
      BY <1>18, Zenon DEF LibDrop, LibRemove, f
  <2>2. f \in libArrived => libDisk[f][form] = "whole"
      BY <1>3, <2>1 DEF LibAt, LibToolSafe, form
  <2>3. LibPut(f, "gz", "no") => libDisk'[f][form] = libDisk[f][form]
      BY <1>2, <1>8, <1>11
  <2>4. LibDiskKept
      BY <1>2, <1>6, <1>7, <1>11, <2>1, <2>2, <2>3
  <2>5. CASE f \in LibObs
    <3>1. LibToolSafe("decode", f)'
        BY <1>14, <2>1, <2>5 DEF LibToolSafe
    <3>2. QED
        BY <1>13, <2>1, <2>4, <2>5, <3>1
  <2>6. CASE f \notin LibObs
      BY <1>11, <1>12, <2>1, <2>4, <2>6
  <2>7. QED
      BY <2>5, <2>6
<1>19. ASSUME libHold.at \in {"decode", "redo", "dropCrx"} PROVE f \in LibObs /\ form = "crx"
    BY <1>2, <1>3, <1>19 DEF LibToolSafe
<1>20. CASE LibDecode
  <2>1. f \in LibObs /\ form = "crx"
      BY <1>19, <1>20 DEF LibDecode, LibAt
  <2>2. CASE UNCHANGED libDisk /\ LibReturn("crx")
      BY <1>6, <1>11, <1>12, <2>2
  <2>3. CASE LibHas(f, "crx") /\ LibPut(f, "out", "torn") /\ LibGoto("redo")
    <3>1. libDisk'[f]["gz"] = libDisk[f]["gz"] /\ libDisk'[f]["crx"] = libDisk[f]["crx"]
        BY <1>8, <1>11, <2>3
    <3>2. f \in libArrived => "whole" \in {libDisk[f]["gz"], libDisk[f]["crx"]}
        BY <1>1, <1>3, <1>9, <1>11, <2>1, <2>3 DEF LibHas, LibWholeness
    <3>3. LibDiskKept
        BY <1>7, <1>9, <1>11, <2>1, <2>3, <3>1, <3>2
    <3>4. LibToolSafe("redo", f)'
        BY <1>4, <1>14, <2>1, <2>3, <3>1, <3>2 DEF LibToolSafe
    <3>5. QED
        BY <1>13, <2>3, <3>3, <3>4
  <2>4. QED
      BY <1>20, <2>2, <2>3 DEF LibDecode, f
<1>21. CASE LibDecoded
  <2>1. f \in LibObs /\ form = "crx"
      BY <1>19, <1>21 DEF LibDecoded, LibAt
  <2>2. LibAt("redo") /\ LibPut(f, "out", libDisk[f]["crx"]) /\ LibGoto("dropCrx")
      BY <1>21 DEF LibDecoded, f
  <2>3. libDisk[f]["crx"] \in LibWholeness
      BY <1>1, <1>3, <1>11
  <2>4. libDisk'[f]["gz"] = libDisk[f]["gz"] /\ libDisk'[f]["crx"] = libDisk[f]["crx"]
        /\ libDisk'[f]["out"] = libDisk[f]["crx"]
      BY <1>8, <1>11, <2>2, <2>3
  <2>5. f \in libArrived => "whole" \in {libDisk[f]["gz"], libDisk[f]["crx"]}
      BY <1>3, <2>2 DEF LibAt, LibToolSafe
  <2>6. LibDiskKept
      BY <1>7, <1>9, <1>11, <2>1, <2>2, <2>3, <2>4, <2>5
  <2>7. LibToolSafe("dropCrx", f)'
      BY <1>4, <1>14, <2>1, <2>2, <2>4, <2>5 DEF LibToolSafe
  <2>8. QED
      BY <1>13, <2>2, <2>6, <2>7
<1>22. CASE LibDecodeFails
  <2>1. f \in LibObs /\ form = "crx"
      BY <1>19, <1>22 DEF LibDecodeFails, LibAt
  <2>2. LibAt("redo") /\ LibPut(f, "out", "no") /\ LibReturn("crx")
      BY <1>22 DEF LibDecodeFails, f
  <2>3. libDisk'[f]["gz"] = libDisk[f]["gz"] /\ libDisk'[f]["crx"] = libDisk[f]["crx"]
      BY <1>8, <1>11, <2>2
  <2>4. f \in libArrived => "whole" \in {libDisk[f]["gz"], libDisk[f]["crx"]}
      BY <1>3, <2>2 DEF LibAt, LibToolSafe
  <2>5. LibDiskKept
      BY <1>7, <1>9, <1>11, <2>1, <2>2, <2>3, <2>4
  <2>6. QED
      BY <1>11, <1>12, <2>2, <2>5
<1>23. CASE LibDropCrx
  <2>1. f \in LibObs /\ form = "crx"
      BY <1>19, <1>23 DEF LibDropCrx, LibAt
  <2>2. LibAt("dropCrx") /\ (LibPut(f, "crx", "no") \/ UNCHANGED libDisk) /\ LibReturn("out")
      BY <1>23, Zenon DEF LibDropCrx, LibRemove, f
  <2>3. LibPut(f, "crx", "no") => /\ libDisk'[f]["gz"] = libDisk[f]["gz"]
                                   /\ libDisk'[f]["out"] = libDisk[f]["out"] /\ libDisk'[f]["crx"] = "no"
      BY <1>8, <1>11
  <2>4. f \in libArrived => "whole" \in {libDisk[f]["gz"], libDisk[f]["out"]}
      BY <1>3, <2>2 DEF LibAt, LibToolSafe
  <2>5. LibDiskKept
      BY <1>6, <1>7, <1>11, <2>1, <2>2, <2>3, <2>4
  <2>6. QED
      BY <1>11, <1>12, <2>2, <2>5
<1>24. QED
    BY <1>15, <1>16, <1>17, <1>18, <1>20, <1>21, <1>22, <1>23 DEF LibTool

\* A step that leaves the disk alone, and at most takes the tool.
LEMMA LibMoves ==
  ASSUME LibIInv, libDisk' = libDisk, libArrived' = libArrived,
         \/ libHold' = libHold
         \/ \E who \in {"worker", "gui"}, f \in LibFiles, form \in {"gz", "crx"} :
              (form = "crx" => f \in LibObs) /\ LibTake(who, f, form),
         libJob' \in [LibFiles -> LibJobs],
         libTodo' \subseteq LibFiles \X {"gz", "crx"},
         LibHeld'
  PROVE  LibIInv'
<1>1. /\ libHold' \in [by : {"none", "worker", "gui"}, file : LibFiles \cup {"none"}, at : LibSteps]
      /\ libHold'.at # "none" => libHold'.by # "none" /\ libHold'.file \in LibFiles
      /\ libHold'.at = "none" => libHold' = LibFree
    BY DEF LibIInv, LibTyped, LibTake, LibEntry, LibSteps
<1>2. LibTyped'
    BY <1>1 DEF LibIInv, LibTyped, LibJobs
<1>3. LibArchives' /\ LibSaved'
    BY DEF LibIInv, LibArchives, LibSaved
<1>4. LibToolSafe(libHold.at, libHold.file)'
  <2>1. CASE libHold' = libHold
      BY <2>1 DEF LibIInv, LibToolSafe
  <2>2. ASSUME NEW who \in {"worker", "gui"}, NEW f \in LibFiles, NEW form \in {"gz", "crx"},
               form = "crx" => f \in LibObs, LibTake(who, f, form)
        PROVE  LibToolSafe(libHold.at, libHold.file)'
    <3>1. libHold'.at = LibEntry(form) /\ libHold'.file = f
        BY <2>2 DEF LibTake
    <3>2. libHold'.at \in {"open", "decode"} /\ (libHold'.at = "decode" => f \in LibObs)
        BY <2>2, <3>1 DEF LibEntry
    <3>3. QED
        BY <3>1, <3>2 DEF LibToolSafe
  <2>3. QED
      BY <2>1, <2>2
<1>5. QED
    BY <1>2, <1>3, <1>4 DEF LibIInv

\* The worker of a file up to the tool, and after it.
LEMMA LibWorkers ==
  ASSUME LibIInv, NEW f \in LibFiles, LibClick(f) \/ LibArrive(f) \/ LibUnpack(f) \/ LibRecord(f)
  PROVE  LibIInv'
<1>1. libJob \in [LibFiles -> LibJobs] /\ libTodo \subseteq LibFiles \X {"gz", "crx"} /\ LibHeld
    BY DEF LibIInv, LibTyped, LibJobs
<1>2. ASSUME NEW to \in {"none", "transfer", "unpack", "tool"}, libJob' = [libJob EXCEPT ![f].at = to]
      PROVE  /\ libJob' \in [LibFiles -> LibJobs]
             /\ libJob'[f].at = to /\ \A g \in LibFiles : g # f => libJob'[g] = libJob[g]
  <2> DEFINE job == [libJob[f] EXCEPT !.at = to]
  <2>1. libJob[f] \in LibJobs
      BY <1>1
  <2>2. job \in LibJobs /\ job.at = to
      BY <2>1 DEF LibJobs
  <2>3. libJob' = [libJob EXCEPT ![f] = job]
      BY <1>1, <1>2
  <2> HIDE DEF job
  <2>4. QED
      BY <1>1, <2>2, <2>3
<1>3. libHold.by \in {"worker", "gui"} => libHold.file \in LibFiles
    BY DEF LibIInv, LibTyped, LibFree
<1>4. libGui' = libGui /\ libTodo' = libTodo
    BY DEF LibClick, LibArrive, LibUnpack, LibRecord, libOfGui
<1>5. ASSUME NEW to \in {"none", "transfer", "unpack", "tool"}, libJob' = [libJob EXCEPT ![f].at = to],
             libJob[f].at # "tool", libHold' = libHold
      PROVE  LibHeld'
    BY <1>1, <1>2, <1>3, <1>4, <1>5 DEF LibHeld
<1>6. CASE LibClick(f)
  <2>1. libJob[f].at = "none" /\ libJob' = [libJob EXCEPT ![f].at = "transfer"] /\ libHold' = libHold
        /\ libDisk' = libDisk /\ libArrived' = libArrived
      BY <1>6 DEF LibClick, LibJobGoes, libOfDisk
  <2>2. QED
      BY <1>1, <1>2, <1>4, <1>5, <2>1, LibMoves
<1>7. CASE LibArrive(f)
  <2>1. /\ libJob[f].at = "transfer" /\ libJob' = [libJob EXCEPT ![f].at = "unpack"] /\ libHold' = libHold
        /\ LibPut(f, "gz", "whole") /\ libArrived' = libArrived \cup {f}
      BY <1>7 DEF LibArrive, LibJobGoes
  <2>2. LibTyped /\ LibArchives /\ LibSaved /\ LibToolSafe(libHold.at, libHold.file)
      BY DEF LibIInv
  <2>3. /\ libDisk' \in [LibFiles -> [LibForms -> LibWholeness]]
        /\ libDisk'[f]["gz"] = "whole"
        /\ \A g \in LibFiles, k \in LibForms : g # f \/ k # "gz" => libDisk'[g][k] = libDisk[g][k]
    <3>1. "gz" \in LibForms /\ "whole" \in LibWholeness
        BY DEF LibForms, LibWholeness
    <3>2. QED
        BY <2>1, <2>2, <3>1, LibPuts
  <2>4. "gz" \in LibForms /\ "crx" \in LibForms /\ "out" \in LibForms
        /\ \A g \in LibFiles : LibUnzipped(g) \in LibForms \ {"gz"}
      BY DEF LibForms, LibUnzipped
  <2>5. LibTyped'
      BY <1>1, <1>2, <1>4, <2>1, <2>2, <2>3 DEF LibTyped, LibJobs
  <2>6. LibHeld'
      BY <1>5, <2>1
  <2>7. LibArchives'
      BY <2>2, <2>3, <2>4 DEF LibArchives, LibFiles
  <2>8. ASSUME NEW g \in libArrived'
        PROVE  /\ "whole" \in {libDisk'[g]["gz"], libDisk'[g]["crx"], libDisk'[g]["out"]}
               /\ libDisk'[g][LibUnzipped(g)] = "torn" => libDisk'[g]["gz"] = "whole"
    <3>1. CASE g = f
        BY <2>3, <3>1
    <3>2. CASE g # f
      <4>1. g \in libArrived /\ g \in LibFiles
          BY <2>1, <2>2, <2>8, <3>2 DEF LibTyped
      <4>2. \A m \in LibForms : libDisk'[g][m] = libDisk[g][m]
          BY <2>3, <3>2, <4>1
      <4>3. QED
          BY <2>2, <2>4, <4>1, <4>2 DEF LibSaved
    <3>3. QED
        BY <3>1, <3>2
  <2>9. LibToolSafe(libHold.at, libHold.file)'
    <3>1. CASE libHold.file = f
      <4>1. libHold.at # "none" => libHold.by = "gui"
          BY <1>1, <2>1, <2>2, <3>1 DEF LibHeld, LibTyped
      <4>2. libDisk'[f][LibUnzipped(f)] = libDisk[f][LibUnzipped(f)]
          BY <2>3, <2>4
      <4>3. QED
          BY <2>1, <2>2, <2>3, <3>1, <4>1, <4>2 DEF LibToolSafe
    <3>2. CASE libHold.at = "none"
        BY <2>1, <3>2 DEF LibToolSafe
    <3>3. CASE libHold.file # f /\ libHold.at # "none"
      <4>1. libHold.file \in LibFiles
          BY <2>2, <3>3 DEF LibTyped
      <4>2. \A m \in LibForms : libDisk'[libHold.file][m] = libDisk[libHold.file][m]
          BY <2>3, <3>3, <4>1
      <4>3. libHold.file \in libArrived' => libHold.file \in libArrived
          BY <2>1, <3>3
      <4>4. QED
          BY <2>1, <2>2, <2>4, <4>1, <4>2, <4>3 DEF LibToolSafe
    <3>4. QED
        BY <3>1, <3>2, <3>3
  <2>10. QED
      BY <2>5, <2>6, <2>7, <2>8, <2>9 DEF LibIInv, LibSaved
<1>8. CASE LibUnpack(f)
  <2>1. /\ libJob' = [libJob EXCEPT ![f].at = "tool"] /\ LibTake("worker", f, "gz")
        /\ libDisk' = libDisk /\ libArrived' = libArrived
      BY <1>8 DEF LibUnpack, LibJobGoes, libOfDisk
  <2>2. libHold'.by = "worker" /\ libHold'.file = f
      BY <2>1 DEF LibTake
  <2>3. libJob' \in [LibFiles -> LibJobs] /\ libJob'[f].at = "tool"
      BY <1>2, <2>1
  <2>4. LibHeld'
      BY <1>1, <1>4, <2>2, <2>3 DEF LibHeld
  <2>5. QED
      BY <1>1, <1>4, <2>1, <2>3, <2>4, LibMoves
<1>9. CASE LibRecord(f)
  <2>1. libJob[f].at = "record" /\ libJob' = [libJob EXCEPT ![f].at = "none"] /\ libHold' = libHold
        /\ libDisk' = libDisk /\ libArrived' = libArrived
      BY <1>9 DEF LibRecord
  <2>2. QED
      BY <1>1, <1>2, <1>4, <1>5, <2>1, LibMoves
<1>10. QED
    BY <1>6, <1>7, <1>8, <1>9

\* A frame: listing, looking up and unpacking on the way.
LEMMA LibFrames ==
  ASSUME LibIInv,
         \/ \E f \in LibFiles : LibFindPlain(f) \/ LibFindPacked(f)
         \/ LibListBegin \/ LibListUnpack \/ LibListed \/ LibFindUnpack \/ LibFrameEnd \/ LibAsk \/ LibCancel
  PROVE  LibIInv'
<1>1. libJob \in [LibFiles -> LibJobs] /\ libTodo \subseteq LibFiles \X {"gz", "crx"} /\ LibHeld /\ LibArchives
    BY DEF LibIInv, LibTyped, LibJobs
<1>2. libDisk' = libDisk /\ libArrived' = libArrived /\ libJob' = libJob
    BY DEF LibFindPlain, LibFindPacked, LibListBegin, LibListUnpack, LibListed, LibFindUnpack, LibFrameEnd,
           LibAsk, LibCancel, LibGuiKeeps, libOfDisk
<1>3. ASSUME NEW p \in libTodo
      PROVE  p[1] \in LibFiles /\ p[2] \in {"gz", "crx"} /\ p = <<p[1], p[2]>>
    BY <1>1, <1>3
<1>4. \A f \in LibFiles : LibHas(f, "crx") => f \in LibObs
    BY <1>1 DEF LibArchives, LibHas, LibFiles
<1>5. ASSUME libHold' = libHold, libTodo' = libTodo \/ (libTodo' \subseteq LibFiles \X {"gz", "crx"} /\ libGui' # "list"),
             libGui' = libGui \/ (libHold.by # "gui" /\ libGui' # "list")
      PROVE  LibIInv'
  <2>1. libTodo' \subseteq LibFiles \X {"gz", "crx"}
      BY <1>1, <1>5
  <2>2. LibHeld'
      BY <1>1, <1>2, <1>5 DEF LibHeld
  <2>3. QED
      BY <1>1, <1>2, <1>5, <2>1, <2>2, LibMoves
<1>6. ASSUME NEW p \in libTodo, p[2] = "crx" => p[1] \in LibObs, LibTake("gui", p[1], p[2]), libTodo' = libTodo \ {p},
             libGui' = libGui, libGui \in {"list", "find"}
      PROVE  LibIInv'
  <2>1. libHold'.by = "gui"
      BY <1>6 DEF LibTake
  <2>2. LibHeld'
      BY <1>1, <1>6, <2>1 DEF LibHeld
  <2>3. libTodo' \subseteq LibFiles \X {"gz", "crx"}
      BY <1>1, <1>6
  <2>4. \E who \in {"worker", "gui"}, f \in LibFiles, form \in {"gz", "crx"} :
          (form = "crx" => f \in LibObs) /\ LibTake(who, f, form)
      BY <1>3, <1>6
  <2>5. QED
      BY <1>1, <1>2, <2>2, <2>3, <2>4, LibMoves
<1>7. libGui = "look" => libHold.by # "gui"
    BY <1>1 DEF LibHeld
<1>8. ASSUME NEW f \in LibFiles, LibFindPlain(f) PROVE LibIInv'
    BY <1>5, <1>8 DEF LibFindPlain
<1>9. ASSUME NEW f \in LibFiles, LibFindPacked(f) PROVE LibIInv'
  <2>1. libTodo' \subseteq LibFiles \X {"gz", "crx"} /\ libGui' = "find" /\ libHold' = libHold
      BY <1>9 DEF LibFindPacked
  <2>2. libHold.by # "gui"
      BY <1>7, <1>9 DEF LibFindPacked
  <2>3. QED
      BY <1>5, <2>1, <2>2
<1>10. CASE LibListBegin
  <2>1. libGui = "ready" /\ libGui' = "list" /\ libHold' = libHold
        /\ libTodo' = IF "obs" \in libFresh THEN {} ELSE LibPacked
      BY <1>10 DEF LibListBegin
  <2>2. LibPacked \subseteq LibObs \X {"gz", "crx"}
    <3> SUFFICES ASSUME NEW p \in LibPacked PROVE p \in LibObs \X {"gz", "crx"}
        OBVIOUS
    <3>1. p \in LibFiles \X LibForms /\ p[1] \in LibObs /\ p[2] # "out"
        BY DEF LibPacked, LibPresent
    <3>2. QED
        BY <3>1 DEF LibForms
  <2>3. libTodo' \subseteq LibFiles \X {"gz", "crx"} /\ \A p \in libTodo' : p[1] \in LibObs
      BY <2>1, <2>2 DEF LibFiles
  <2>4. LibHeld'
      BY <1>1, <1>2, <2>1, <2>3 DEF LibHeld
  <2>5. QED
      BY <1>1, <1>2, <2>1, <2>3, <2>4, LibMoves
<1>11. CASE LibListUnpack
  <2>1. libGui = "list" /\ libGui' = libGui
      BY <1>11 DEF LibListUnpack
  <2>2. PICK p \in libTodo : LibTake("gui", p[1], p[2]) /\ libTodo' = libTodo \ {p}
      BY <1>11 DEF LibListUnpack
  <2>3. p[1] \in LibObs
      BY <1>1, <2>1 DEF LibHeld
  <2>4. QED
      BY <1>6, <2>1, <2>2, <2>3
<1>12. CASE LibListed
  <2>1. libTodo' = libTodo /\ libHold' = libHold /\ libHold.by # "gui" /\ libGui' = "look"
      BY <1>12 DEF LibListed
  <2>2. QED
      BY <1>5, <2>1
<1>13. CASE LibFindUnpack
  <2>1. libGui = "find"
      BY <1>13 DEF LibFindUnpack
  <2>2. PICK p \in libTodo :
          /\ libTodo' = libTodo \ {p}
          /\ \/ /\ libHold' = libHold /\ libHold.by # "gui"
                /\ libGui' \in {libGui, "look"}
             \/ LibHas(p[1], p[2]) /\ LibTake("gui", p[1], p[2]) /\ libGui' = libGui
      BY <1>13 DEF LibFindUnpack
  <2>3. CASE libHold' = libHold /\ libHold.by # "gui" /\ libGui' \in {libGui, "look"}
    <3>1. libTodo' \subseteq LibFiles \X {"gz", "crx"} /\ libGui' # "list"
        BY <1>1, <2>1, <2>2, <2>3
    <3>2. QED
        BY <1>5, <2>3, <3>1
  <2>4. CASE LibHas(p[1], p[2]) /\ LibTake("gui", p[1], p[2]) /\ libGui' = libGui
    <3>1. p[2] = "crx" => p[1] \in LibObs
        BY <1>3, <1>4, <2>4
    <3>2. QED
        BY <1>6, <2>1, <2>2, <2>4, <3>1
  <2>5. QED
      BY <2>2, <2>3, <2>4
<1>14. CASE LibFrameEnd
  <2>1. libGui' = "ready" /\ libTodo' = libTodo /\ libHold' = libHold /\ libHold.by # "gui"
      BY <1>7, <1>14 DEF LibFrameEnd
  <2>2. QED
      BY <1>5, <2>1
<1>15. CASE LibAsk \/ LibCancel
    BY <1>5, <1>15 DEF LibAsk, LibCancel
<1>16. QED
    BY <1>8, <1>9, <1>10, <1>11, <1>12, <1>13, <1>14, <1>15

\* Deleting: what the tool has open stays, and a file of which something goes is no
\* longer one that arrived.
LEMMA LibDeletes ==
  ASSUME LibIInv, LibConfirm
  PROVE  LibIInv'
<1> DEFINE gone == libAsked \ LibInUse
           f == libHold.file
<1>1. /\ libDisk' = [g \in LibFiles |-> [k \in LibForms |-> IF <<g, k>> \in gone THEN "no" ELSE libDisk[g][k]]]
      /\ libArrived' = libArrived \ {p[1] : p \in gone}
      /\ libHold' = libHold /\ libJob' = libJob /\ libTodo' = libTodo /\ libGui' = libGui /\ libGui = "look"
    BY DEF LibConfirm
<1>2. /\ LibTyped /\ LibHeld /\ LibArchives /\ LibSaved /\ LibToolSafe(libHold.at, f)
      /\ libDisk \in [LibFiles -> [LibForms -> LibWholeness]] /\ libArrived \subseteq LibFiles
      /\ "gz" \in LibForms /\ "crx" \in LibForms /\ "out" \in LibForms /\ "no" \in LibWholeness
      /\ \A g \in LibFiles : LibUnzipped(g) \in LibForms
    BY DEF LibIInv, LibTyped, LibForms, LibWholeness, LibUnzipped
<1>3. LibAt("write") => <<f, "gz">> \notin gone
    BY DEF LibInUse, LibAt
<1> HIDE DEF gone
<1>4. \A g \in LibFiles, k \in LibForms : libDisk'[g][k] = IF <<g, k>> \in gone THEN "no" ELSE libDisk[g][k]
    BY <1>1
<1>5. \A g \in LibFiles, k \in LibForms : g \in libArrived' => libDisk'[g][k] = libDisk[g][k]
  <2> SUFFICES ASSUME NEW g \in LibFiles, NEW k \in LibForms, <<g, k>> \in gone PROVE g \notin libArrived'
      BY <1>4
  <2>1. <<g, k>>[1] = g
      OBVIOUS
  <2>2. QED
      BY <1>1, <2>1
<1>6. libArrived' \subseteq libArrived
    BY <1>1
<1>7. libDisk' \in [LibFiles -> [LibForms -> LibWholeness]]
  <2>1. \A g \in LibFiles, k \in LibForms : (IF <<g, k>> \in gone THEN "no" ELSE libDisk[g][k]) \in LibWholeness
      BY <1>2
  <2>2. QED
      BY <1>1, <2>1
<1>8. LibTyped'
    BY <1>1, <1>2, <1>6, <1>7 DEF LibTyped
<1>9. LibHeld'
    BY <1>1, <1>2 DEF LibHeld
<1>10. LibArchives'
    BY <1>2, <1>4 DEF LibArchives, LibFiles
<1>11. LibSaved'
    BY <1>2, <1>5, <1>6 DEF LibSaved
<1>12. libHold.by # "gui"
    BY <1>1, <1>2 DEF LibHeld
<1>13. LibToolSafe(libHold.at, libHold.file)'
  <2>1. CASE libHold.at = "none"
      BY <1>1, <2>1 DEF LibToolSafe
  <2>2. CASE libHold.at # "none"
    <3>1. f \in LibFiles
        BY <1>2, <2>2 DEF LibTyped
    <3>2. libHold.at = "write" => libDisk'[f]["gz"] = "whole"
        BY <1>2, <1>3, <1>4, <3>1 DEF LibAt, LibToolSafe
    <3>3. f \in libArrived' =>
            f \in libArrived /\ libDisk'[f][LibUnzipped(f)] = libDisk[f][LibUnzipped(f)]
            /\ libDisk'[f]["gz"] = libDisk[f]["gz"] /\ libDisk'[f]["crx"] = libDisk[f]["crx"]
            /\ libDisk'[f]["out"] = libDisk[f]["out"]
        BY <1>2, <1>5, <1>6, <3>1
    <3> HIDE DEF f
    <3>4. LibToolSafe(libHold.at, f) /\ f = libHold.file
        BY <1>2 DEF f
    <3>5. QED
        BY <1>1, <1>12, <3>2, <3>3, <3>4 DEF LibToolSafe
  <2>3. QED
      BY <2>1, <2>2
<1>14. QED
    BY <1>8, <1>9, <1>10, <1>11, <1>13 DEF LibIInv

\* A crash leaves the disk as it is, and nobody holds the tool.
LEMMA LibCrashes ==
  ASSUME LibIInv, LibCrash
  PROVE  LibIInv'
<1>1. /\ libHold' = LibFree /\ libTodo' = {} /\ libGui' = "ready"
      /\ libJob' = [f \in LibFiles |-> [at |-> "none", got |-> "gz"]]
      /\ libDisk' = libDisk /\ libArrived' = libArrived
    BY DEF LibCrash, libOfDisk
<1>2. LibFree \in [by : {"none", "worker", "gui"}, file : LibFiles \cup {"none"}, at : LibSteps]
      /\ LibFree.at = "none" /\ LibFree.by = "none"
    BY DEF LibFree, LibSteps
<1>3. [at |-> "none", got |-> "gz"] \in LibJobs
    BY DEF LibJobs, LibForms
<1>4. LibTyped'
    BY <1>1, <1>2, <1>3 DEF LibIInv, LibTyped, LibJobs
<1>5. LibHeld' /\ LibArchives' /\ LibSaved' /\ LibToolSafe(libHold.at, libHold.file)'
    BY <1>1, <1>2 DEF LibIInv, LibHeld, LibArchives, LibSaved, LibToolSafe
<1>6. QED
    BY <1>4, <1>5 DEF LibIInv

\* As long as closing a restored file does not fail, the library keeps its
\* invariant: the tool removes a form only when the next one is whole.
THEOREM LibInvariant ==
  ASSUME LibFlushLoses = {FALSE}
  PROVE  LibSpec => []LibIInv
<1>1. LibInit => LibIInv
  <2> SUFFICES ASSUME LibInit PROVE LibIInv
      OBVIOUS
  <2>1. /\ libHold = LibFree /\ libTodo = {} /\ libGui = "ready" /\ libArrived = {}
        /\ libJob = [f \in LibFiles |-> [at |-> "none", got |-> "gz"]]
        /\ libDisk = [f \in LibFiles |-> [form \in LibForms |-> "no"]]
      BY DEF LibInit
  <2>2. LibFree \in [by : {"none", "worker", "gui"}, file : LibFiles \cup {"none"}, at : LibSteps]
        /\ LibFree.at = "none" /\ LibFree.by = "none"
      BY DEF LibFree, LibSteps
  <2>3. [at |-> "none", got |-> "gz"] \in LibJobs
      BY DEF LibJobs, LibForms
  <2>4. [form \in LibForms |-> "no"] \in [LibForms -> LibWholeness]
      BY DEF LibWholeness
  <2>5. LibTyped
      BY <2>1, <2>2, <2>3, <2>4 DEF LibTyped, LibJobs
  <2>6. \A f \in LibFiles, form \in LibForms : libDisk[f][form] = "no"
      BY <2>1
  <2>7. LibArchives
      BY <2>6 DEF LibArchives, LibForms, LibFiles
  <2>8. LibHeld /\ LibSaved /\ LibToolSafe(libHold.at, libHold.file)
      BY <2>1, <2>2 DEF LibHeld, LibSaved, LibToolSafe
  <2>9. QED
      BY <2>5, <2>7, <2>8 DEF LibIInv
<1>2. LibIInv /\ [LibNext]_libVars => LibIInv'
  <2> SUFFICES ASSUME LibIInv, [LibNext]_libVars PROVE LibIInv'
      OBVIOUS
  <2>1. CASE LibTool
      BY <2>1, LibToolKeepsIt
  <2>2. ASSUME NEW f \in LibFiles, LibClick(f) \/ LibArrive(f) \/ LibUnpack(f) \/ LibRecord(f) PROVE LibIInv'
      BY <2>2, LibWorkers
  <2>3. CASE \/ \E f \in LibFiles : LibFindPlain(f) \/ LibFindPacked(f)
             \/ LibListBegin \/ LibListUnpack \/ LibListed \/ LibFindUnpack \/ LibFrameEnd \/ LibAsk \/ LibCancel
      BY <2>3, LibFrames
  <2>4. CASE LibConfirm
      BY <2>4, LibDeletes
  <2>5. CASE LibCrash
      BY <2>5, LibCrashes
  <2>6. CASE UNCHANGED libVars
    <3>1. /\ libDisk' = libDisk /\ libArrived' = libArrived /\ libHold' = libHold /\ libJob' = libJob
          /\ libTodo' = libTodo /\ libGui' = libGui
        BY <2>6 DEF libVars, libOfDisk, libOfJobs, libOfGui
    <3>2. libJob \in [LibFiles -> LibJobs] /\ libTodo \subseteq LibFiles \X {"gz", "crx"} /\ LibHeld
        BY DEF LibIInv, LibTyped, LibJobs
    <3>3. LibHeld'
        BY <3>1, <3>2 DEF LibHeld
    <3>4. QED
        BY <3>1, <3>2, <3>3, LibMoves
  <2>7. QED
      BY <2>1, <2>2, <2>3, <2>4, <2>5, <2>6 DEF LibNext
<1>3. QED
    BY <1>1, <1>2, PTL DEF LibSpec

\* However downloads, listings, look-ups, deletions, failed writes and crashes are
\* interleaved, no file that arrived is lost unless the user deletes one of its
\* forms, as long as closing a restored file does not fail (which nobody looks at).
THEOREM LibLosesNothing ==
  ASSUME LibFlushLoses = {FALSE}
  PROVE  LibSpec => []LibNothingLost
<1>1. LibIInv => LibNothingLost
  <2> SUFFICES ASSUME LibIInv, NEW f \in libArrived PROVE \E form \in LibForms : libDisk[f][form] = "whole"
      BY DEF LibNothingLost
  <2>1. "whole" \in {libDisk[f]["gz"], libDisk[f]["crx"], libDisk[f]["out"]}
      BY DEF LibIInv, LibSaved
  <2>2. "gz" \in LibForms /\ "crx" \in LibForms /\ "out" \in LibForms
      BY DEF LibForms
  <2>3. QED
      BY <2>1, <2>2
<1>2. QED
    BY <1>1, LibInvariant, PTL

-----------------------------------------------------------------------------
(* After a crash.  The listing of the first frame works through what the    *)
(* crash cut short before anything is shown, as long as nothing else fails. *)

\* An observation file is torn only where the tool is at it.
LibClean ==
  /\ \A f \in LibObs :
       /\ libDisk[f]["out"] = "torn" => libHold.at = "redo" /\ libHold.file = f
       /\ libDisk[f]["crx"] = "torn" => libHold.at = "write" /\ libHold.file = f
  /\ libHold.at = "redo" => libDisk[libHold.file]["crx"] = "whole"

\* The listing has still to come to this packed form, and it is whole.
LibDue(f, form) == <<f, form>> \in libTodo /\ libDisk[f][form] = "whole"

\* What is torn has a whole form that the listing comes to.
LibIsDue(f) ==
  /\ libDisk[f]["out"] = "torn" => LibDue(f, "gz") \/ LibDue(f, "crx")
  /\ libDisk[f]["crx"] = "torn" => LibDue(f, "gz")

\* As LibIsDue, of the file that the listing is at.
LibIsMended(f) ==
  /\ libHold.at = "open" => libDisk[f]["gz"] = "whole" \/ LibIsDue(f)
  /\ libHold.at = "decode" => libDisk[f]["crx"] = "whole" \/ LibIsDue(f)
  /\ libHold.at = "redo" => libDisk[f]["crx"] = "whole" \/ LibDue(f, "gz")
  /\ libHold.at = "dropCrx" /\ libDisk[f]["out"] = "torn" => LibDue(f, "gz")

LibRecovers ==
  /\ libFaults = 1 /\ libGui \in {"ready", "list"} /\ libHold.by # "worker"
  /\ \A f \in LibFiles : libJob[f].at = "none" /\ libShown[f] = "none"
  /\ libGui = "ready" => /\ libHold.at = "none" /\ libFresh = {}
                         /\ \A f \in LibObs :
                              /\ libDisk[f]["out"] = "torn" => libDisk[f]["crx"] = "whole"
                              /\ libDisk[f]["crx"] = "torn" => libDisk[f]["gz"] = "whole"
  /\ libGui = "list" => \A f \in LibObs :
                          IF libHold.at # "none" /\ libHold.file = f THEN LibIsMended(f) ELSE LibIsDue(f)

LibRestored == libFaults \in Nat /\ (libFaults <= 1 => LibClean \/ LibRecovers)

\* One form of a file takes a state and nothing else on the disk changes.
LibSets(f, form, state) ==
  /\ libDisk'[f][form] = state
  /\ \A k \in LibForms : k # form => libDisk'[f][k] = libDisk[f][k]
  /\ \A g \in LibFiles \ {f} : libDisk'[g] = libDisk[g]

LibBack == libHold' = LibFree
LibOn(step) == libHold'.at = step /\ libHold'.by = libHold.by /\ libHold'.file = libHold.file

\* What a step of decompressIfNeeded does to the file f and to who holds the tool.
LibEffect(f) ==
  \/ libHold.at = "open" /\ libDisk[f]["gz"] = "no" /\ libDisk' = libDisk /\ LibBack
  \/ libHold.at = "open" /\ libDisk[f]["gz"] # "no" /\ LibSets(f, LibUnzipped(f), "torn") /\ LibOn("write")
  \/ libHold.at = "write" /\ LibSets(f, LibUnzipped(f), "whole") /\ LibOn("drop")
  \/ libHold.at = "write" /\ LibSets(f, LibUnzipped(f), "no") /\ LibBack /\ libFaults' = libFaults + 1
  \/ libHold.at = "drop" /\ LibSets(f, "gz", "no") /\ IF f \in LibObs THEN LibOn("decode") ELSE LibBack
  \/ libHold.at = "decode" /\ libDisk[f]["crx"] # "whole" /\ libDisk' = libDisk /\ LibBack
  \/ libHold.at = "decode" /\ libDisk[f]["crx"] # "no" /\ LibSets(f, "out", "torn") /\ LibOn("redo")
  \/ libHold.at = "redo" /\ LibSets(f, "out", libDisk[f]["crx"]) /\ LibOn("dropCrx")
  \/ libHold.at = "redo" /\ LibSets(f, "out", "no") /\ LibBack
     /\ (libDisk[f]["crx"] = "torn" \/ libFaults' = libFaults + 1)
  \/ libHold.at = "dropCrx" /\ LibSets(f, "crx", "no") /\ LibBack
  \/ libHold.at \in {"open", "dropCrx"} /\ libDisk' = libDisk /\ LibBack /\ libFaults' = libFaults + 1
  \/ libHold.at = "drop" /\ libDisk' = libDisk /\ libFaults' = libFaults + 1
     /\ IF f \in LibObs THEN LibOn("decode") ELSE LibBack
  \/ libHold.at = "write" /\ libFaults' = libFaults + 2

LEMMA LibToolEffect ==
  ASSUME LibIInv, LibTool, LibFlushLoses = {FALSE}
  PROVE  /\ libHold.at # "none" /\ libHold.file \in LibFiles
         /\ LibEffect(libHold.file)
         /\ libFaults' \in {libFaults, libFaults + 1, libFaults + 2} /\ libTodo' = libTodo
         /\ libGui # "find" => libGui' = libGui /\ libShown' = libShown
         /\ libHold.by # "worker" => libJob' = libJob
<1> DEFINE f == libHold.file
<1>1. libHold.at # "none" /\ f \in LibFiles
    BY DEF LibIInv, LibTyped, LibTool, LibOpen, LibWritten, LibWriteFails, LibDrop, LibDecode, LibDecoded,
           LibDecodeFails, LibDropCrx, LibAt
<1>2. LibTyped /\ libDisk \in [LibFiles -> [LibForms -> LibWholeness]] /\ LibUnzipped(f) \in LibForms
      /\ "gz" \in LibForms /\ "crx" \in LibForms /\ "out" \in LibForms
      /\ "no" \in LibWholeness /\ "torn" \in LibWholeness /\ "whole" \in LibWholeness
      /\ libDisk[f]["crx"] \in LibWholeness
    BY <1>1 DEF LibIInv, LibTyped, LibForms, LibWholeness, LibUnzipped
<1>3. ASSUME NEW k \in LibForms, NEW s \in LibWholeness, LibPut(f, k, s) PROVE LibSets(f, k, s)
  <2>1. /\ libDisk' \in [LibFiles -> [LibForms -> LibWholeness]]
        /\ libDisk'[f][k] = s
        /\ \A g \in LibFiles, m \in LibForms : g # f \/ m # k => libDisk'[g][m] = libDisk[g][m]
      BY <1>1, <1>2, <1>3, LibPuts
  <2>2. ASSUME NEW g \in LibFiles \ {f} PROVE libDisk'[g] = libDisk[g]
      BY <1>2, <2>1, <2>2
  <2>3. QED
      BY <1>1, <2>1, <2>2 DEF LibSets
<1>4. ASSUME NEW k, LibReturn(k)
      PROVE  /\ LibBack /\ libTodo' = libTodo
             /\ libGui # "find" => libGui' = libGui /\ libShown' = libShown
             /\ libHold.by # "worker" => libJob' = libJob
    BY <1>4 DEF LibReturn, LibBack
<1>5. ASSUME NEW s, LibGoto(s)
      PROVE  LibOn(s) /\ libTodo' = libTodo /\ libGui' = libGui /\ libShown' = libShown /\ libJob' = libJob
    BY <1>2, <1>5 DEF LibGoto, LibOn, LibTyped
<1> HIDE DEF f
<1>6. CASE LibOpen
  <2>1. CASE /\ IF LibHas(f, "gz") THEN LibFault(1) ELSE UNCHANGED libFaults
             /\ UNCHANGED libDisk /\ LibReturn("gz")
    <3>1. libHold.at = "open"
        BY <1>6 DEF LibOpen, LibAt
    <3>2. LibEffect(f) /\ libFaults' \in {libFaults, libFaults + 1}
        BY <1>4, <2>1, <3>1 DEF LibHas, LibEffect, LibFault
    <3>3. QED
        BY <1>1, <1>4, <2>1, <3>2 DEF f
  <2>2. CASE LibHas(f, "gz") /\ LibPut(f, LibUnzipped(f), "torn") /\ LibGoto("write")
    <3>1. LibSets(f, LibUnzipped(f), "torn")
        BY <1>2, <1>3, <2>2
    <3>2. LibEffect(f)
        BY <1>5, <1>6, <2>2, <3>1 DEF LibOpen, LibAt, LibHas, LibEffect
    <3>3. libFaults' \in {libFaults, libFaults + 1}
        BY <1>6 DEF LibOpen, LibFault
    <3>4. QED
        BY <1>1, <1>5, <2>2, <3>2, <3>3 DEF f
  <2>3. QED
      BY <1>6, <2>1, <2>2 DEF LibOpen, f
<1>7. CASE LibWritten
  <2>1. LibSets(f, LibUnzipped(f), "whole")
      BY <1>2, <1>3, <1>7 DEF LibWritten, f
  <2>2. LibEffect(f)
      BY <1>5, <1>7, <2>1 DEF LibWritten, LibAt, LibEffect
  <2>3. QED
      BY <1>1, <1>5, <1>7, <2>2 DEF LibWritten, f
<1>8. CASE LibWriteFails
  <2>1. /\ libHold.at = "write" /\ LibReturn("gz")
        /\ \/ libFaults' = libFaults + 1 /\ LibPut(f, LibUnzipped(f), "no")
           \/ libFaults' = libFaults + 2
      BY <1>8 DEF LibWriteFails, LibAt, LibFault, f
  <2>2. LibPut(f, LibUnzipped(f), "no") => LibSets(f, LibUnzipped(f), "no")
      BY <1>2, <1>3
  <2>3. LibEffect(f)
      BY <1>4, <2>1, <2>2 DEF LibEffect
  <2>4. QED
      BY <1>1, <1>4, <2>1, <2>3 DEF f
<1>9. CASE LibDrop
  <2>1. /\ libHold.at = "drop"
        /\ \/ LibPut(f, "gz", "no") /\ libFaults' = libFaults
           \/ libDisk' = libDisk /\ libFaults' = libFaults + 1
        /\ IF f \in LibObs THEN LibGoto("decode") ELSE LibReturn("out")
      BY <1>9 DEF LibDrop, LibRemove, LibFault, LibAt, f
  <2>2. LibPut(f, "gz", "no") => LibSets(f, "gz", "no")
      BY <1>2, <1>3
  <2>3. IF f \in LibObs THEN LibOn("decode") ELSE LibBack
      BY <1>4, <1>5, <2>1
  <2>4. LibEffect(f)
      BY <2>1, <2>2, <2>3 DEF LibEffect
  <2>5. QED
      BY <1>1, <1>4, <1>5, <2>1, <2>4 DEF f
<1>10. CASE LibDecode
  <2>1. CASE libDisk[f].crx # "whole" /\ UNCHANGED libDisk /\ LibReturn("crx")
      BY <1>1, <1>4, <1>10, <2>1 DEF LibDecode, LibAt, LibEffect, f
  <2>2. CASE LibHas(f, "crx") /\ LibPut(f, "out", "torn") /\ LibGoto("redo")
    <3>1. LibSets(f, "out", "torn")
        BY <1>2, <1>3, <2>2
    <3>2. LibEffect(f)
        BY <1>5, <1>10, <2>2, <3>1 DEF LibDecode, LibAt, LibHas, LibEffect
    <3>3. QED
        BY <1>1, <1>5, <1>10, <2>2, <3>2 DEF LibDecode, f
  <2>3. QED
      BY <1>10, <2>1, <2>2 DEF LibDecode, f
<1>11. CASE LibDecoded
  <2>1. LibPut(f, "out", libDisk[f]["crx"]) /\ libFaults' = libFaults
      BY <1>11 DEF LibDecoded, f
  <2>2. LibSets(f, "out", libDisk[f]["crx"])
      BY <1>2, <1>3, <2>1
  <2>3. LibEffect(f)
      BY <1>5, <1>11, <2>2 DEF LibDecoded, LibAt, LibEffect
  <2>4. QED
      BY <1>1, <1>5, <1>11, <2>1, <2>3 DEF LibDecoded, f
<1>12. CASE LibDecodeFails
  <2>1. LibSets(f, "out", "no")
      BY <1>2, <1>3, <1>12 DEF LibDecodeFails, f
  <2>2. LibEffect(f)
      BY <1>4, <1>12, <2>1 DEF LibDecodeFails, LibFault, LibAt, LibEffect, f
  <2>3. QED
      BY <1>1, <1>4, <1>12, <2>2 DEF LibDecodeFails, LibFault, f
<1>13. CASE LibDropCrx
  <2>1. /\ libHold.at = "dropCrx" /\ LibReturn("out")
        /\ \/ LibPut(f, "crx", "no") /\ libFaults' = libFaults
           \/ libDisk' = libDisk /\ libFaults' = libFaults + 1
      BY <1>13 DEF LibDropCrx, LibRemove, LibFault, LibAt, f
  <2>2. LibPut(f, "crx", "no") => LibSets(f, "crx", "no")
      BY <1>2, <1>3
  <2>3. LibEffect(f)
      BY <1>4, <2>1, <2>2 DEF LibEffect
  <2>4. QED
      BY <1>1, <1>4, <2>1, <2>3 DEF f
<1>14. QED
    BY <1>6, <1>7, <1>8, <1>9, <1>10, <1>11, <1>12, <1>13 DEF LibTool

\* The tool leaves nothing torn behind that was not.
LEMMA LibToolStaysClean ==
  ASSUME LibIInv, LibClean, LibTool, LibFlushLoses = {FALSE}, libFaults \in Nat, libFaults' <= 1
  PROVE  LibClean'
<1> DEFINE f == libHold.file
<1>1. /\ libHold.at # "none" /\ f \in LibFiles /\ LibEffect(f)
      /\ LibToolSafe(libHold.at, f)
      /\ LibFree.at = "none"
      /\ \A g \in LibFiles, k \in LibForms : libDisk[g][k] \in LibWholeness
      /\ "gz" \in LibForms /\ "crx" \in LibForms /\ "out" \in LibForms
    BY LibToolEffect DEF LibIInv, LibFree, LibForms, LibTyped
<1>2. (f \in LibObs => LibUnzipped(f) = "crx") /\ (f \notin LibObs => LibUnzipped(f) = "out")
    BY DEF LibUnzipped
<1> HIDE DEF f
<1>3. f = libHold.file
    BY DEF f
<1>4. \A g \in LibObs : g # f => /\ libDisk[g]["out"] # "torn" /\ libDisk[g]["crx"] # "torn"
    BY <1>3 DEF LibClean
<1>5. LibObs \subseteq LibFiles
    BY DEF LibFiles
\* Only the file the tool is at can be torn, and only where the tool then is.
<1>6. ASSUME \A g \in LibFiles \ {f} : libDisk'[g] = libDisk[g], LibBack \/ (\E step \in LibSteps : LibOn(step)),
             f \in LibObs /\ libDisk'[f]["out"] = "torn" => libHold'.at = "redo",
             f \in LibObs /\ libDisk'[f]["crx"] = "torn" => libHold'.at = "write",
             libHold'.at = "redo" => libDisk'[f]["crx"] = "whole"
      PROVE  LibClean'
  <2>1. libHold'.at # "none" => libHold'.file = f
      BY <1>1, <1>3, <1>6 DEF LibBack, LibOn
  <2>2. ASSUME NEW g \in LibObs
        PROVE  /\ libDisk'[g]["out"] = "torn" => libHold'.at = "redo" /\ libHold'.file = g
               /\ libDisk'[g]["crx"] = "torn" => libHold'.at = "write" /\ libHold'.file = g
      BY <1>4, <1>5, <1>6, <2>1
  <2>3. QED
      BY <1>6, <2>1, <2>2 DEF LibClean
<1>7. f \in LibObs => /\ libDisk[f]["out"] = "torn" => libHold.at = "redo"
                      /\ libDisk[f]["crx"] = "torn" => libHold.at = "write"
    BY DEF LibClean
<1>8. libHold.at = "redo" => libDisk[f]["crx"] = "whole"
    BY <1>3 DEF LibClean
<1>9. libHold.at \in {"decode", "redo", "dropCrx"} => f \in LibObs
    BY <1>1 DEF LibToolSafe
<1>10. CASE libDisk' = libDisk /\ LibBack /\ libHold.at \in {"open", "decode"}
    BY <1>1, <1>6, <1>7, <1>10 DEF LibBack
<1>11. CASE libHold.at = "open" /\ LibSets(f, LibUnzipped(f), "torn") /\ LibOn("write")
  <2>1. f \in LibObs => libDisk'[f]["out"] = libDisk[f]["out"]
      BY <1>1, <1>2, <1>11 DEF LibSets
  <2>2. QED
      BY <1>6, <1>7, <1>11, <2>1 DEF LibSets, LibOn, LibSteps
<1>12. CASE libHold.at = "write" /\ LibSets(f, LibUnzipped(f), "whole") /\ LibOn("drop")
  <2>1. f \in LibObs => libDisk'[f]["out"] = libDisk[f]["out"] /\ libDisk'[f]["crx"] = "whole"
      BY <1>1, <1>2, <1>12 DEF LibSets
  <2>2. QED
      BY <1>6, <1>7, <1>12, <2>1 DEF LibSets, LibOn, LibSteps
<1>13. CASE libHold.at = "write" /\ LibSets(f, LibUnzipped(f), "no") /\ LibBack
  <2>1. f \in LibObs => libDisk'[f]["out"] = libDisk[f]["out"] /\ libDisk'[f]["crx"] = "no"
      BY <1>1, <1>2, <1>13 DEF LibSets
  <2>2. QED
      BY <1>1, <1>6, <1>7, <1>13, <2>1 DEF LibSets, LibBack
<1>14. CASE libHold.at = "drop" /\ LibSets(f, "gz", "no") /\ IF f \in LibObs THEN LibOn("decode") ELSE LibBack
  <2>1. libDisk'[f]["out"] = libDisk[f]["out"] /\ libDisk'[f]["crx"] = libDisk[f]["crx"]
      BY <1>1, <1>14 DEF LibSets
  <2>2. libHold'.at \in {"decode", "none"} /\ (LibBack \/ \E step \in LibSteps : LibOn(step))
      BY <1>1, <1>14 DEF LibOn, LibBack, LibSteps
  <2>3. QED
      BY <1>6, <1>7, <1>14, <2>1, <2>2 DEF LibSets
<1>15. CASE libHold.at = "decode" /\ libDisk[f]["crx"] # "no" /\ LibSets(f, "out", "torn") /\ LibOn("redo")
  <2>1. libDisk'[f]["crx"] = libDisk[f]["crx"]
      BY <1>1, <1>15 DEF LibSets
  <2>2. libDisk[f]["crx"] = "whole"
      BY <1>1, <1>7, <1>9, <1>15 DEF LibWholeness
  <2>3. QED
      BY <1>6, <1>15, <2>1, <2>2 DEF LibSets, LibOn, LibSteps
<1>16. CASE libHold.at = "redo" /\ LibSets(f, "out", libDisk[f]["crx"]) /\ LibOn("dropCrx")
  <2>1. libDisk'[f]["crx"] = "whole" /\ libDisk'[f]["out"] = "whole"
      BY <1>1, <1>8, <1>16 DEF LibSets
  <2>2. QED
      BY <1>6, <1>16, <2>1 DEF LibSets, LibOn, LibSteps
<1>17. CASE libHold.at = "redo" /\ LibSets(f, "out", "no") /\ LibBack
  <2>1. libDisk'[f]["crx"] = "whole" /\ libDisk'[f]["out"] = "no"
      BY <1>1, <1>8, <1>17 DEF LibSets
  <2>2. QED
      BY <1>1, <1>6, <1>17, <2>1 DEF LibSets, LibBack
<1>18. CASE libHold.at = "dropCrx" /\ LibSets(f, "crx", "no") /\ LibBack
  <2>1. libDisk'[f]["crx"] = "no" /\ libDisk'[f]["out"] = libDisk[f]["out"]
      BY <1>1, <1>18 DEF LibSets
  <2>2. QED
      BY <1>1, <1>6, <1>7, <1>9, <1>18, <2>1 DEF LibSets, LibBack
<1>19. CASE libDisk' = libDisk /\ LibBack /\ libHold.at \in {"drop", "dropCrx"}
    BY <1>1, <1>6, <1>7, <1>19 DEF LibBack
<1>20. CASE libHold.at = "drop" /\ libDisk' = libDisk /\ LibOn("decode")
  <2>1. libHold'.at = "decode" /\ \E step \in LibSteps : LibOn(step)
      BY <1>20 DEF LibOn, LibSteps
  <2>2. QED
      BY <1>6, <1>7, <1>20, <2>1
<1>21. libFaults' # libFaults + 2
    OBVIOUS
<1>22. QED
    BY <1>1, <1>10, <1>11, <1>12, <1>13, <1>14, <1>15, <1>16, <1>17, <1>18, <1>19, <1>20, <1>21 DEF LibEffect

\* Nor does what anybody else does; a crash leaves what the listing restores.
LEMMA LibStaysClean ==
  ASSUME LibIInv, LibClean, LibNext, LibFlushLoses = {FALSE}, libFaults \in Nat, libFaults' <= 1
  PROVE  LibClean' \/ LibRecovers'
<1>1. LibFree.at = "none" /\ LibFree.by = "none" /\ LibObs \subseteq LibFiles
      /\ "gz" \in LibForms /\ "crx" \in LibForms /\ "out" \in LibForms
    BY DEF LibFree, LibFiles, LibForms
<1>2. ASSUME libDisk' = libDisk, libHold' = libHold PROVE LibClean'
    BY <1>2 DEF LibClean
<1>3. ASSUME libDisk' = libDisk, NEW who, NEW g, NEW form, LibTake(who, g, form) PROVE LibClean'
  <2>1. libHold.at = "none" /\ libHold'.at \in {"open", "decode"}
      BY <1>1, <1>3 DEF LibTake, LibEntry
  <2>2. QED
      BY <1>3, <2>1 DEF LibClean
<1>4. CASE LibTool
    BY <1>4, LibToolStaysClean
<1>5. ASSUME NEW f \in LibFiles,
             LibClick(f) \/ LibUnpack(f) \/ LibRecord(f) \/ LibFindPlain(f) \/ LibFindPacked(f)
      PROVE  LibClean'
    BY <1>2, <1>3, <1>5 DEF LibClick, LibUnpack, LibRecord, LibFindPlain, LibFindPacked, LibGuiKeeps, libOfDisk
<1>6. ASSUME NEW f \in LibFiles, LibArrive(f) PROVE LibClean'
  <2>1. LibPut(f, "gz", "whole") /\ libHold' = libHold
      BY <1>6 DEF LibArrive
  <2>2. LibTyped /\ "whole" \in LibWholeness
      BY DEF LibIInv, LibWholeness
  <2>3. \A g \in LibFiles, k \in LibForms : g # f \/ k # "gz" => libDisk'[g][k] = libDisk[g][k]
      BY <1>1, <2>1, <2>2, LibPuts
  <2>4. \A g \in LibFiles : libDisk'[g]["out"] = libDisk[g]["out"] /\ libDisk'[g]["crx"] = libDisk[g]["crx"]
      BY <1>1, <2>3
  <2>5. libHold.at = "redo" => libHold.file \in LibFiles
      BY <2>2 DEF LibTyped
  <2>6. QED
      BY <1>1, <2>1, <2>4, <2>5 DEF LibClean
<1>7. CASE LibListBegin \/ LibListUnpack \/ LibListed \/ LibFindUnpack \/ LibFrameEnd \/ LibAsk \/ LibCancel
    BY <1>2, <1>3, <1>7 DEF LibListBegin, LibListUnpack, LibListed, LibFindUnpack, LibFrameEnd, LibAsk, LibCancel,
       LibGuiKeeps, libOfDisk
<1>8. CASE LibConfirm
  <2> DEFINE gone == libAsked \ LibInUse
  <2>1. /\ libDisk' = [g \in LibFiles |-> [k \in LibForms |-> IF <<g, k>> \in gone THEN "no" ELSE libDisk[g][k]]]
        /\ libHold' = libHold
      BY <1>8 DEF LibConfirm
  <2>2. libHold.at = "redo" => <<libHold.file, "crx">> \notin gone /\ libHold.file \in LibFiles
      BY DEF LibInUse, LibAt, LibIInv, LibTyped
  <2> HIDE DEF gone
  <2>3. \A g \in LibFiles, k \in LibForms : libDisk'[g][k] = IF <<g, k>> \in gone THEN "no" ELSE libDisk[g][k]
      BY <2>1
  <2>4. \A g \in LibFiles : /\ libDisk'[g]["out"] = "torn" => libDisk[g]["out"] = "torn"
                            /\ libDisk'[g]["crx"] = "torn" => libDisk[g]["crx"] = "torn"
      BY <1>1, <2>3
  <2>5. libHold.at = "redo" => libDisk'[libHold.file]["crx"] = libDisk[libHold.file]["crx"]
      BY <1>1, <2>2, <2>3
  <2>6. QED
      BY <1>1, <2>1, <2>4, <2>5 DEF LibClean
<1>9. CASE LibCrash
  <2>1. /\ libFaults' = 1 /\ libGui' = "ready" /\ libHold' = LibFree /\ libFresh' = {} /\ libDisk' = libDisk
        /\ \A f \in LibFiles : libJob'[f].at = "none" /\ libShown'[f] = "none"
      BY <1>9 DEF LibCrash, LibFault, libOfDisk
  <2>2. \A f \in LibObs : /\ libDisk[f]["out"] = "torn" => libDisk[f]["crx"] = "whole"
                          /\ libDisk[f]["crx"] = "torn" => libDisk[f]["gz"] = "whole"
      BY DEF LibClean, LibIInv, LibToolSafe
  <2>3. LibRecovers'
      BY <1>1, <2>1, <2>2 DEF LibRecovers
  <2>4. QED
      BY <2>3
<1>10. QED
    BY <1>4, <1>5, <1>6, <1>7, <1>8, <1>9 DEF LibNext

\* The listing mends what it comes to: each step of the tool in it.
LEMMA LibToolMends ==
  ASSUME LibIInv, LibRecovers, LibTool, LibFlushLoses = {FALSE}, libFaults' <= 1
  PROVE  LibRecovers'
<1>1. /\ libHold.at # "none" /\ libHold.file \in LibFiles /\ LibEffect(libHold.file)
      /\ LibToolSafe(libHold.at, libHold.file) /\ libTodo' = libTodo
      /\ LibFree.at = "none" /\ LibFree.by = "none"
      /\ \A g \in LibFiles, k \in LibForms : libDisk[g][k] \in LibWholeness
      /\ \A g \in LibFiles : libDisk[g]["gz"] # "torn"
      /\ "gz" \in LibForms /\ "crx" \in LibForms /\ "out" \in LibForms
    BY LibToolEffect DEF LibIInv, LibFree, LibForms, LibTyped, LibArchives
<1>2. libGui = "list" /\ libGui' = "list" /\ libHold.by = "gui" /\ libFaults = 1 /\ libFaults' = 1
      /\ \A g \in LibFiles : libJob'[g].at = "none" /\ libShown'[g] = "none"
    BY <1>1, LibToolEffect DEF LibIInv, LibTyped, LibRecovers
<1>3. PICK f \in LibFiles : f = libHold.file
    BY <1>1
<1>4. /\ LibEffect(f) /\ LibToolSafe(libHold.at, f)
      /\ f \in LibObs => LibUnzipped(f) = "crx"
      /\ f \notin LibObs => LibUnzipped(f) = "out"
    BY <1>1, <1>3 DEF LibUnzipped
<1>5. LibObs \subseteq LibFiles
    BY DEF LibFiles
<1>6. /\ \A g \in LibObs \ {f} : LibIsDue(g)
      /\ f \in LibObs => LibIsMended(f)
    BY <1>1, <1>2, <1>3 DEF LibRecovers
<1>7. libHold.at \in {"decode", "redo", "dropCrx"} => f \in LibObs
    BY <1>4 DEF LibToolSafe
\* The other files are as they were, so the rest is of the file the tool is at.
<1>8. ASSUME \A g \in LibFiles \ {f} : libDisk'[g] = libDisk[g], LibBack \/ (\E step \in LibSteps : LibOn(step)),
             f \in LibObs => IF libHold'.at = "none" THEN LibIsDue(f)' ELSE LibIsMended(f)'
      PROVE  LibRecovers'
  <2>1. libHold'.by # "worker" /\ (libHold'.at # "none" => libHold'.file = f)
      BY <1>1, <1>2, <1>3, <1>8 DEF LibBack, LibOn
  <2>2. ASSUME NEW g \in LibObs
        PROVE  IF libHold'.at # "none" /\ libHold'.file = g THEN LibIsMended(g)' ELSE LibIsDue(g)'
    <3>1. CASE g = f
        BY <1>8, <2>1, <2>2, <3>1
    <3>2. CASE g # f
      <4>1. LibIsDue(g) /\ libDisk'[g] = libDisk[g]
          BY <1>5, <1>6, <1>8, <2>2, <3>2
      <4>2. LibIsDue(g)'
          BY <1>1, <4>1 DEF LibIsDue, LibDue
      <4>3. QED
          BY <2>1, <3>2, <4>2
    <3>3. QED
        BY <3>1, <3>2
  <2>3. QED
      BY <1>2, <2>1, <2>2 DEF LibRecovers
<1>9. libHold.at = "drop" /\ f \in LibObs => libDisk[f]["crx"] = "whole"
    BY <1>2, <1>4 DEF LibToolSafe
<1>10. CASE libHold.at = "open" /\ libDisk[f]["gz"] = "no" /\ libDisk' = libDisk /\ LibBack
  <2>1. f \in LibObs => LibIsDue(f)'
      BY <1>1, <1>6, <1>10 DEF LibIsMended, LibIsDue, LibDue
  <2>2. QED
      BY <1>1, <1>8, <1>10, <2>1 DEF LibBack
<1>11. CASE libHold.at = "open" /\ libDisk[f]["gz"] # "no" /\ LibSets(f, LibUnzipped(f), "torn") /\ LibOn("write")
  <2>1. f \in LibObs => LibIsMended(f)'
      BY <1>11 DEF LibIsMended, LibOn
  <2>2. QED
      BY <1>8, <1>11, <2>1 DEF LibSets, LibOn, LibSteps
<1>12. CASE libHold.at = "write" /\ LibSets(f, LibUnzipped(f), "whole") /\ LibOn("drop")
  <2>1. f \in LibObs => LibIsMended(f)'
      BY <1>12 DEF LibIsMended, LibOn
  <2>2. QED
      BY <1>8, <1>12, <2>1 DEF LibSets, LibOn, LibSteps
<1>13. CASE libHold.at = "drop" /\ LibSets(f, "gz", "no") /\ IF f \in LibObs THEN LibOn("decode") ELSE LibBack
  <2>1. f \in LibObs => LibIsMended(f)' /\ libHold'.at # "none"
      BY <1>1, <1>9, <1>13 DEF LibIsMended, LibOn, LibSets
  <2>2. LibBack \/ \E step \in LibSteps : LibOn(step)
      BY <1>13 DEF LibSteps
  <2>3. QED
      BY <1>8, <1>13, <2>1, <2>2 DEF LibSets
<1>14. CASE libHold.at = "decode" /\ libDisk[f]["crx"] # "whole" /\ libDisk' = libDisk /\ LibBack
  <2>1. LibIsDue(f)'
      BY <1>1, <1>6, <1>7, <1>14 DEF LibIsMended, LibIsDue, LibDue
  <2>2. QED
      BY <1>1, <1>8, <1>14, <2>1 DEF LibBack
<1>15. CASE libHold.at = "decode" /\ libDisk[f]["crx"] # "no" /\ LibSets(f, "out", "torn") /\ LibOn("redo")
  <2>1. libDisk'[f]["crx"] = libDisk[f]["crx"] /\ libDisk'[f]["gz"] = libDisk[f]["gz"]
      BY <1>1, <1>15 DEF LibSets
  <2>2. libDisk[f]["crx"] = "whole" \/ LibDue(f, "gz")
      BY <1>1, <1>6, <1>7, <1>15 DEF LibIsMended, LibIsDue, LibWholeness
  <2>3. LibIsMended(f)'
      BY <1>1, <1>15, <2>1, <2>2 DEF LibIsMended, LibDue, LibOn
  <2>4. QED
      BY <1>8, <1>15, <2>3 DEF LibSets, LibOn, LibSteps
<1>16. CASE libHold.at = "redo" /\ LibSets(f, "out", libDisk[f]["crx"]) /\ LibOn("dropCrx")
  <2>1. libDisk'[f]["out"] = libDisk[f]["crx"] /\ libDisk'[f]["gz"] = libDisk[f]["gz"]
      BY <1>1, <1>16 DEF LibSets
  <2>2. LibIsMended(f)'
      BY <1>1, <1>6, <1>7, <1>16, <2>1 DEF LibIsMended, LibDue, LibOn
  <2>3. QED
      BY <1>8, <1>16, <2>2 DEF LibSets, LibOn, LibSteps
<1>17. CASE libHold.at = "redo" /\ LibSets(f, "out", "no") /\ LibBack /\ libDisk[f]["crx"] = "torn"
  <2>1. libDisk'[f]["out"] = "no" /\ libDisk'[f]["gz"] = libDisk[f]["gz"] /\ libDisk'[f]["crx"] = libDisk[f]["crx"]
      BY <1>1, <1>17 DEF LibSets
  <2>2. LibIsDue(f)'
      BY <1>1, <1>6, <1>7, <1>17, <2>1 DEF LibIsMended, LibIsDue, LibDue
  <2>3. QED
      BY <1>1, <1>8, <1>17, <2>2 DEF LibSets, LibBack
<1>18. CASE libHold.at = "dropCrx" /\ LibSets(f, "crx", "no") /\ LibBack
  <2>1. libDisk'[f]["crx"] = "no" /\ libDisk'[f]["gz"] = libDisk[f]["gz"] /\ libDisk'[f]["out"] = libDisk[f]["out"]
      BY <1>1, <1>18 DEF LibSets
  <2>2. LibIsDue(f)'
      BY <1>1, <1>6, <1>7, <1>18, <2>1 DEF LibIsMended, LibIsDue, LibDue
  <2>3. QED
      BY <1>1, <1>8, <1>18, <2>2 DEF LibSets, LibBack
<1>19. libFaults' # libFaults + 1 /\ libFaults' # libFaults + 2
    BY <1>2
<1>20. QED
    BY <1>4, <1>10, <1>11, <1>12, <1>13, <1>14, <1>15, <1>16, <1>17, <1>18, <1>19 DEF LibEffect

\* Until the listing is through nothing else happens, and then nothing is torn.
LEMMA LibMends ==
  ASSUME LibIInv, LibRecovers, LibNext, LibFlushLoses = {FALSE}, libFaults' <= 1
  PROVE  LibClean' \/ LibRecovers'
<1>1. LibFree.at = "none" /\ LibFree.by = "none" /\ LibObs \subseteq LibFiles
      /\ "gz" \in LibForms /\ "crx" \in LibForms /\ "out" \in LibForms
      /\ libTodo \subseteq LibFiles \X {"gz", "crx"}
    BY DEF LibFree, LibFiles, LibForms, LibIInv, LibTyped
<1>2. libFaults = 1 /\ libGui \in {"ready", "list"} /\ \A f \in LibFiles : libJob[f].at = "none" /\ libShown[f] = "none"
    BY DEF LibRecovers
<1>3. CASE LibTool
    BY <1>3, LibToolMends
<1>4. CASE LibListBegin
  <2>1. /\ libGui = "ready" /\ libGui' = "list" /\ libTodo' = LibPacked /\ libHold' = libHold
        /\ libDisk' = libDisk /\ libJob' = libJob /\ libShown' = libShown /\ libFaults' = libFaults
        /\ libHold.at = "none" /\ libHold.by # "worker"
      BY <1>4 DEF LibListBegin, LibRecovers, LibGuiKeeps, libOfDisk
  <2>2. ASSUME NEW f \in LibObs, NEW k \in {"gz", "crx"}, libDisk[f][k] = "whole" PROVE LibDue(f, k)'
    <3>1. <<f, k>> \in LibFiles \X LibForms
        BY <1>1, <2>2
    <3>2. <<f, k>> \in LibPacked
        BY <2>2, <3>1 DEF LibPacked, LibPresent, LibHas
    <3>3. QED
        BY <2>1, <2>2, <3>2 DEF LibDue
  <2>3. ASSUME NEW f \in LibObs PROVE LibIsDue(f)'
    <3>1. /\ libDisk[f]["out"] = "torn" => libDisk[f]["crx"] = "whole"
          /\ libDisk[f]["crx"] = "torn" => libDisk[f]["gz"] = "whole"
        BY <2>1, <2>3 DEF LibRecovers
    <3>2. QED
        BY <2>1, <2>2, <2>3, <3>1 DEF LibIsDue
  <2>4. LibRecovers'
      BY <1>2, <2>1, <2>3 DEF LibRecovers
  <2>5. QED
      BY <2>4
<1>5. CASE LibListUnpack
  <2>1. /\ libGui = "list" /\ libGui' = libGui
        /\ libDisk' = libDisk /\ libJob' = libJob /\ libShown' = libShown /\ libFaults' = libFaults
      BY <1>5 DEF LibListUnpack, LibGuiKeeps, libOfDisk
  <2>2. PICK p \in libTodo : LibTake("gui", p[1], p[2]) /\ libTodo' = libTodo \ {p}
      BY <1>5 DEF LibListUnpack
  <2>3. PICK f \in LibFiles, k \in {"gz", "crx"} : p = <<f, k>>
      BY <1>1, <2>2
  <2>4. /\ libHold.at = "none" /\ libHold'.by = "gui" /\ libHold'.file = f
        /\ libHold'.at = IF k = "gz" THEN "open" ELSE "decode"
      BY <1>1, <2>2, <2>3 DEF LibTake, LibEntry
  <2>5. \A g \in LibObs : LibIsDue(g)
      BY <2>1, <2>4 DEF LibRecovers
  <2>6. ASSUME NEW g \in LibFiles, NEW m \in {"gz", "crx"}, LibDue(g, m), g # f \/ m # k PROVE LibDue(g, m)'
    <3>1. <<g, m>> # p
        BY <2>3, <2>6
    <3>2. QED
        BY <2>1, <2>2, <2>6, <3>1 DEF LibDue
  <2>7. ASSUME NEW g \in LibObs, g # f PROVE LibIsDue(g)'
      BY <1>1, <2>1, <2>5, <2>6, <2>7 DEF LibIsDue
  <2>8. ASSUME f \in LibObs PROVE LibIsMended(f)'
    <3>1. CASE k = "gz"
      <4>1. libDisk[f]["gz"] = "whole" \/ ~LibDue(f, "gz")
          BY DEF LibDue
      <4>2. LibDue(f, "crx") => LibDue(f, "crx")'
          BY <2>6, <3>1
      <4>3. libDisk'[f]["gz"] = "whole" \/ LibIsDue(f)'
          BY <2>1, <2>5, <2>8, <4>1, <4>2 DEF LibIsDue
      <4>4. QED
          BY <2>4, <3>1, <4>3 DEF LibIsMended
    <3>2. CASE k = "crx"
      <4>1. libDisk[f]["crx"] = "whole" \/ ~LibDue(f, "crx")
          BY DEF LibDue
      <4>2. LibDue(f, "gz") => LibDue(f, "gz")'
          BY <2>6, <3>2
      <4>3. libDisk'[f]["crx"] = "whole" \/ LibIsDue(f)'
          BY <2>1, <2>5, <2>8, <4>1, <4>2 DEF LibIsDue
      <4>4. QED
          BY <2>4, <3>2, <4>3 DEF LibIsMended
    <3>3. QED
        BY <3>1, <3>2
  <2>9. LibRecovers'
      BY <1>2, <2>1, <2>4, <2>7, <2>8 DEF LibRecovers
  <2>10. QED
      BY <2>9
<1>6. CASE LibListed
  <2>1. libGui = "list" /\ libTodo = {} /\ libHold.by # "gui" /\ libHold' = libHold /\ libDisk' = libDisk
      BY <1>6 DEF LibListed, LibGuiKeeps, libOfDisk
  <2>2. libHold.at = "none"
      BY <2>1 DEF LibRecovers, LibIInv, LibTyped
  <2>3. \A f \in LibObs : libDisk[f]["out"] # "torn" /\ libDisk[f]["crx"] # "torn"
      BY <2>1, <2>2 DEF LibRecovers, LibIsDue, LibDue
  <2>4. QED
      BY <2>1, <2>2, <2>3 DEF LibClean
<1>7. ~LibFindUnpack /\ ~LibFrameEnd /\ ~LibAsk /\ ~LibConfirm /\ ~LibCancel
    BY <1>2 DEF LibFindUnpack, LibFrameEnd, LibAsk, LibConfirm, LibCancel
<1>8. ASSUME NEW f \in LibFiles
      PROVE  ~LibClick(f) /\ ~LibArrive(f) /\ ~LibUnpack(f) /\ ~LibRecord(f) /\ ~LibFindPlain(f) /\ ~LibFindPacked(f)
    BY <1>2 DEF LibClick, LibArrive, LibUnpack, LibRecord, LibFindPlain, LibFindPacked, LibJobGoes
<1>9. ~LibCrash
    BY <1>2 DEF LibCrash, LibFault
<1>10. QED
    BY <1>3, <1>4, <1>5, <1>6, <1>7, <1>8, <1>9 DEF LibNext

\* With one fault at most, what a crash cut short is restored before it is shown.
THEOREM LibIsRestored ==
  ASSUME LibFlushLoses = {FALSE}
  PROVE  LibSpec => []LibRestored
<1>1. LibInit => LibRestored
  <2> SUFFICES ASSUME LibInit PROVE LibRestored
      OBVIOUS
  <2>1. libFaults = 0 /\ libHold = LibFree /\ libDisk = [f \in LibFiles |-> [form \in LibForms |-> "no"]]
      BY DEF LibInit
  <2>2. LibFree.at = "none" /\ "crx" \in LibForms /\ "out" \in LibForms /\ LibObs \subseteq LibFiles
      BY DEF LibFree, LibForms, LibFiles
  <2>3. \A f \in LibObs : libDisk[f]["out"] = "no" /\ libDisk[f]["crx"] = "no"
      BY <2>1, <2>2
  <2>4. LibClean
      BY <2>1, <2>2, <2>3 DEF LibClean
  <2>5. QED
      BY <2>1, <2>4 DEF LibRestored
<1>2. LibIInv /\ LibRestored /\ [LibNext]_libVars => LibRestored'
  <2> SUFFICES ASSUME LibIInv, LibRestored, [LibNext]_libVars PROVE LibRestored'
      OBVIOUS
  <2>1. CASE LibNext
    <3>1. libFaults' \in {libFaults, libFaults + 1, libFaults + 2}
      <4>1. CASE LibTool
          BY <4>1, LibToolEffect
      <4>2. CASE LibCrash
          BY <4>2 DEF LibCrash, LibFault
      <4>3. CASE ~LibTool /\ ~LibCrash
          BY <2>1, <4>3 DEF LibNext, LibClick, LibArrive, LibUnpack, LibRecord, LibFindPlain, LibFindPacked,
             LibListBegin, LibListUnpack, LibListed, LibFindUnpack, LibFrameEnd, LibAsk, LibConfirm, LibCancel, LibGuiKeeps
      <4>4. QED
          BY <4>1, <4>2, <4>3
    <3>2. libFaults \in Nat /\ libFaults' \in Nat /\ (libFaults' <= 1 => libFaults <= 1)
        BY <3>1 DEF LibRestored
    <3>3. ASSUME libFaults' <= 1 PROVE LibClean' \/ LibRecovers'
        BY <2>1, <3>2, <3>3, LibStaysClean, LibMends DEF LibRestored
    <3>4. QED
        BY <3>2, <3>3 DEF LibRestored
  <2>2. CASE UNCHANGED libVars
    <3>1. /\ libDisk' = libDisk /\ libHold' = libHold /\ libFaults' = libFaults /\ libGui' = libGui /\ libTodo' = libTodo
          /\ libJob' = libJob /\ libShown' = libShown /\ libFresh' = libFresh
        BY <2>2 DEF libVars, libOfDisk, libOfJobs, libOfGui
    <3>2. LibClean => LibClean'
        BY <3>1 DEF LibClean
    <3>3. LibRecovers => LibRecovers'
        BY <3>1 DEF LibRecovers, LibIsMended, LibIsDue, LibDue
    <3>4. QED
        BY <3>1, <3>2, <3>3 DEF LibRestored
  <2>3. QED
      BY <2>1, <2>2
<1>3. QED
    BY <1>1, <1>2, LibInvariant, PTL DEF LibSpec

\* The library loses no file it has, and after one fault it shows no observation
\* file cut short: the listing has restored it by then, or nothing is shown yet.
THEOREM LibraryIsSound ==
  ASSUME LibFlushLoses = {FALSE}
  PROVE  LibSpec => []LibIsSound
<1>1. LibRestored => LibObsShownWhole
  <2> SUFFICES ASSUME LibRestored, libFaults <= 1, NEW f \in LibObs, libShown[f] = "out", libHold.file # f
               PROVE  libDisk[f].out # "torn"
      BY DEF LibObsShownWhole
  <2>1. f \in LibFiles
      BY DEF LibFiles
  <2>2. LibClean
      BY <2>1 DEF LibRestored, LibRecovers
  <2>3. QED
      BY <2>2 DEF LibClean
<1>2. QED
    BY <1>1, LibIsRestored, LibLosesNothing, PTL DEF LibIsSound

-----------------------------------------------------------------------------
(* ProductChoice: a list that was flushed comes back. *)

\* The settings of a list that is open, and the file of settings that are clean.
ProdKept ==
  /\ prodUp \in {"open", "ending"} => prodFiles = prodMem.files
  /\ prodUp # "off" /\ ~prodDirty => prodDisk = prodMem
  /\ prodUp = "off" => ~prodDirty
  /\ prodDirty \in BOOLEAN

\* Whatever the user does to the list, its settings follow, and no clean settings differ
\* from the file, however often the process ended or died in a flush.
THEOREM ProdInvariant == ProdSpec => []ProdKept
<1>1. ProdInit => ProdKept
    BY DEF ProdInit, ProdKept
<1>2. ASSUME NEW q, ProdKept, ProdClick, ProdResync(q), UNCHANGED prodDisk
      PROVE  ProdKept'
  <2>1. prodFiles' = prodMem'.files
      BY <1>2 DEF ProdResync, ProdSet
  <2>2. ASSUME ~prodDirty' PROVE prodDisk' = prodMem'
      BY <1>2, <2>2 DEF ProdResync, ProdSet, ProdKept, ProdClick
  <2>3. prodDirty' \in BOOLEAN
      BY <1>2, Zenon DEF ProdResync, ProdSet, ProdKept
  <2>4. prodUp' = "ending"
      BY <1>2 DEF ProdClick
  <2>5. QED
      BY <2>1, <2>2, <2>3, <2>4 DEF ProdKept
<1>3. ProdKept /\ [ProdNext]_prodVars => ProdKept'
  <2> SUFFICES ASSUME ProdKept, [ProdNext]_prodVars
               PROVE  ProdKept'
      OBVIOUS
  <2>1. CASE ProdOpenTab
      BY <2>1 DEF ProdOpenTab, ProdKept
  <2>2. CASE ProdAdd
      BY <1>2, <2>2 DEF ProdAdd
  <2>3. CASE ProdPick
      BY <1>2, <2>3 DEF ProdPick
  <2>4. CASE ProdRemove
      BY <1>2, <2>4 DEF ProdRemove
  <2>5. CASE ProdClear
      BY <1>2, <2>5 DEF ProdClear
  <2>6. CASE ProdObs
      BY <2>6 DEF ProdObs, ProdClick, ProdKept
  <2>7. CASE ProdStart
    <3>1. ASSUME ~prodDirty' PROVE prodDisk' = prodMem'
        BY <2>7, <3>1 DEF ProdStart, ProdSet, ProdKept, ProdClick
    <3>2. prodDirty' \in BOOLEAN
        BY <2>7, Zenon DEF ProdStart, ProdSet, ProdKept
    <3>3. prodUp' = "ending" /\ prodFiles' = prodMem'.files
        BY <2>7 DEF ProdStart, ProdSet, ProdClick
    <3>4. QED
        BY <3>1, <3>2, <3>3 DEF ProdKept
  <2>8. CASE ProdFlush
      BY <2>8 DEF ProdFlush, ProdKept
  <2>9. CASE ProdDies
      BY <2>9 DEF ProdDies, ProdOff, ProdKept
  <2>10. CASE ProdBoot
      BY <2>10 DEF ProdBoot, ProdKept
  <2>11. CASE UNCHANGED prodVars
      BY <2>11 DEF prodVars, ProdKept
  <2>12. QED
      BY <2>1, <2>2, <2>3, <2>4, <2>5, <2>6, <2>7, <2>8, <2>9, <2>10, <2>11 DEF ProdNext
<1>4. QED
    BY <1>1, <1>3, PTL DEF ProdSpec

\* A list that was flushed is there again after the next start, in its order and with the
\* same files in use, for any products, ranks and lengths (PathMemory, Products::load).
THEOREM ListComesBack == ProdSpec => []ProdComesBack
<1>1. ProdKept => ProdComesBack
  <2> SUFFICES ASSUME ProdKept, prodUp = "open", ~prodDirty, prodFiles # <<>>,
                      prodField = ProdDerived(prodFiles)
               PROVE  prodDisk.files = prodFiles /\ ProdLoaded(prodDisk) = prodField
      BY DEF ProdComesBack
  <2>1. prodDisk.files = prodFiles
      BY DEF ProdKept
  <2>2. QED
      BY <2>1 DEF ProdLoaded
<1>2. QED
    BY <1>1, ProdInvariant, PTL

-----------------------------------------------------------------------------
(* ProductChoice: the best file of a type is the one in use. *)

\* A list of files in which each file is once; a path cut short may be there again.
ProdListOK(list) ==
  /\ list \in Seq(ProdAll)
  /\ \A i, j \in DOMAIN list : list[i] = list[j] /\ list[i] # ProdCut => i = j

\* The place of the k-th of a type, as ProdRank has it.
ProdPlace(list, t, k) ==
  CHOOSE i \in ProdPlaces(list, t) : Cardinality(ProdAhead(list, t, i)) = k - 1

LEMMA BeforeOrders ==
  ASSUME NEW a \in ProdAll, NEW b \in ProdAll, NEW c \in ProdAll
  PROVE  /\ ~ProdBefore(a, a)
         /\ ProdBefore(a, b) /\ ProdBefore(b, c) => ProdBefore(a, c)
         /\ a # b => ProdBefore(a, b) \/ ProdBefore(b, a)
<1>1. \A x \in ProdAll : ProdScoreOf[x] \in Nat /\ ProdNameOf[x] \in Nat
    BY ProdAssumption
<1>2. a # b => ProdNameOf[a] # ProdNameOf[b]
    BY ProdAssumption DEF IsInjective
<1>3. QED
    BY <1>1, <1>2 DEF ProdBefore

\* The files of a known type stand at finitely many places, each file at one of them.
LEMMA PlacesOfType ==
  ASSUME NEW list, ProdListOK(list), NEW t \in ProdTypes
  PROVE  /\ IsFiniteSet(ProdPlaces(list, t)) /\ Cardinality(ProdPlaces(list, t)) \in Nat
         /\ \A i \in ProdPlaces(list, t) : i \in DOMAIN list /\ list[i] \in ProdAll /\ ProdTypeOf[list[i]] = t
         /\ \A i, j \in ProdPlaces(list, t) : list[i] = list[j] => i = j
<1>1. DOMAIN list = 1 .. Len(list) /\ Len(list) \in Nat /\ \A i \in DOMAIN list : list[i] \in ProdAll
    BY DEF ProdListOK
<1>2. ProdPlaces(list, t) \subseteq 1 .. Len(list)
    BY <1>1 DEF ProdPlaces
<1>3. IsFiniteSet(ProdPlaces(list, t))
  <2>1. IsFiniteSet(1 .. Len(list))
      BY <1>1, FS_Interval
  <2>2. QED
      BY <1>2, <2>1, FS_Subset
<1>4. Cardinality(ProdPlaces(list, t)) \in Nat
    BY <1>3, FS_CardinalityType
<1>5. t # "unknown" /\ ProdTypeOf[ProdCut] = "unknown"
    BY ProdAssumption DEF ProdTypes
<1>6. QED
    BY <1>1, <1>3, <1>4, <1>5 DEF ProdPlaces, ProdListOK

\* Each place of a type has a rank of its own, and each rank its place: the ranking is an
\* order of all the files.
LEMMA RankIsOrder ==
  ASSUME NEW list, ProdListOK(list), NEW t \in ProdTypes
  PROVE  /\ \A k \in 1 .. Cardinality(ProdPlaces(list, t)) :
              /\ ProdPlace(list, t, k) \in ProdPlaces(list, t)
              /\ Cardinality(ProdAhead(list, t, ProdPlace(list, t, k))) = k - 1
         /\ \A i \in ProdPlaces(list, t) : \E k \in 1 .. Cardinality(ProdPlaces(list, t)) :
              ProdPlace(list, t, k) = i
<1> DEFINE P == ProdPlaces(list, t)
           N == Cardinality(P)
           Ahead(i) == ProdAhead(list, t, i)
           rank == [i \in P |-> Cardinality(Ahead(i)) + 1]
<1>1. IsFiniteSet(P) /\ N \in Nat /\ \A i, j \in P : list[i] = list[j] => i = j
    BY PlacesOfType
<1>2. \A i \in P : list[i] \in ProdAll
    BY PlacesOfType
<1>3. \A i, j \in P : j \in Ahead(i) <=> ProdBefore(list[j], list[i])
    BY DEF ProdAhead
<1>4. \A i \in P : Ahead(i) \subseteq P /\ IsFiniteSet(Ahead(i)) /\ Cardinality(Ahead(i)) \in Nat
  <2>1. \A i \in P : Ahead(i) \subseteq P
      BY DEF ProdAhead
  <2>2. \A i \in P : IsFiniteSet(Ahead(i))
      BY <1>1, <2>1, FS_Subset
  <2>3. QED
      BY <2>1, <2>2, FS_CardinalityType
<1>5. ASSUME NEW i \in P PROVE Cardinality(Ahead(i)) < N
  <2>1. i \notin Ahead(i)
      BY <1>2, <1>3, BeforeOrders
  <2>2. Ahead(i) # P
      BY <2>1
  <2>3. Cardinality(Ahead(i)) <= N /\ (N = Cardinality(Ahead(i)) => P = Ahead(i))
      BY <1>1, <1>4, FS_Subset
  <2>4. QED
      BY <1>1, <1>4, <2>2, <2>3
<1>6. ASSUME NEW i \in P, NEW j \in P, ProdBefore(list[i], list[j])
      PROVE  Cardinality(Ahead(i)) < Cardinality(Ahead(j))
  <2>1. Ahead(i) \subseteq Ahead(j)
    <3>1. ASSUME NEW h \in Ahead(i) PROVE h \in Ahead(j)
      <4>1. h \in P /\ ProdBefore(list[h], list[i])
          BY <1>3, <1>4, <3>1
      <4>2. ProdBefore(list[h], list[j])
          BY <1>2, <1>6, <4>1, BeforeOrders
      <4>3. QED
          BY <1>3, <4>1, <4>2
    <3>2. QED
        BY <3>1
  <2>2. i \in Ahead(j) /\ i \notin Ahead(i)
      BY <1>2, <1>3, <1>6, BeforeOrders
  <2>3. /\ Cardinality(Ahead(i)) <= Cardinality(Ahead(j))
        /\ Cardinality(Ahead(j)) = Cardinality(Ahead(i)) => Ahead(j) = Ahead(i)
      BY <1>4, <2>1, FS_Subset
  <2>4. QED
      BY <1>4, <2>2, <2>3
<1>7. rank \in [P -> 1 .. N]
    BY <1>1, <1>4, <1>5
<1>8. ASSUME NEW i \in P, NEW j \in P, rank[i] = rank[j] PROVE i = j
  <2>1. Cardinality(Ahead(i)) = Cardinality(Ahead(j))
      BY <1>4, <1>8
  <2>2. ~ProdBefore(list[i], list[j]) /\ ~ProdBefore(list[j], list[i])
      BY <1>4, <1>6, <2>1
  <2>3. list[i] = list[j]
      BY <1>2, <2>2, BeforeOrders
  <2>4. QED
      BY <1>1, <2>3
<1>9. rank \in Injection(P, 1 .. N)
  <2> HIDE DEF rank
  <2>1. QED
      BY <1>7, <1>8 DEF Injection, IsInjective
<1>10. IsFiniteSet(1 .. N) /\ Cardinality(1 .. N) = N
    BY <1>1, FS_Interval
<1>11. rank \in Surjection(P, 1 .. N)
    BY <1>9, <1>10, FS_Injection
<1>12. ASSUME NEW k \in 1 .. N PROVE \E i \in P : Cardinality(Ahead(i)) = k - 1
  <2>1. PICK i \in P : rank[i] = k
    <3> HIDE DEF rank
    <3>1. QED
        BY <1>11 DEF Surjection
  <2>2. QED
      BY <1>4, <2>1
<1>13. \A k \in 1 .. N : /\ ProdPlace(list, t, k) \in P
                         /\ Cardinality(Ahead(ProdPlace(list, t, k))) = k - 1
    BY <1>12 DEF ProdPlace
<1>14. ASSUME NEW i \in P PROVE \E k \in 1 .. N : ProdPlace(list, t, k) = i
  <2>1. rank[i] \in 1 .. N /\ rank[i] - 1 = Cardinality(Ahead(i))
      BY <1>4, <1>7
  <2>2. PICK k \in 1 .. N : k - 1 = Cardinality(Ahead(i))
      BY <2>1
  <2>3. ProdPlace(list, t, k) \in P /\ Cardinality(Ahead(ProdPlace(list, t, k))) = Cardinality(Ahead(i))
      BY <1>13, <2>2
  <2>4. ProdPlace(list, t, k) = i
      BY <1>8, <2>3
  <2>5. QED
      BY <2>4
<1>15. QED
    BY <1>13, <1>14

ProdFilesOf(list, t) == {f \in {list[i] : i \in DOMAIN list} : ProdTypeOf[f] = t}

LEMMA FilesAtPlaces ==
  ASSUME NEW list, NEW t
  PROVE  ProdFilesOf(list, t) = {list[i] : i \in ProdPlaces(list, t)}
    BY DEF ProdFilesOf, ProdPlaces

\* The ranking holds each file of the type once, and nothing else.
LEMMA RankHoldsAll ==
  ASSUME NEW list, ProdListOK(list), NEW t \in ProdTypes
  PROVE  /\ Len(ProdRank(list, t)) = Cardinality(ProdFilesOf(list, t))
         /\ DOMAIN ProdRank(list, t) = 1 .. Cardinality(ProdPlaces(list, t))
         /\ \A k \in 1 .. Cardinality(ProdPlaces(list, t)) :
              ProdRank(list, t)[k] = list[ProdPlace(list, t, k)]
         /\ {ProdRank(list, t)[k] : k \in DOMAIN ProdRank(list, t)} = ProdFilesOf(list, t)
<1> DEFINE P == ProdPlaces(list, t)
           N == Cardinality(P)
           at == [i \in P |-> list[i]]
           F == ProdFilesOf(list, t)
<1>1. IsFiniteSet(P) /\ N \in Nat /\ \A i, j \in P : list[i] = list[j] => i = j
    BY PlacesOfType
<1>2. F = {list[i] : i \in P}
    BY FilesAtPlaces
<1>3. at \in Bijection(P, F)
  <2>1. at \in [P -> F] /\ \A i, j \in P : at[i] = at[j] => i = j
      BY <1>1, <1>2
  <2>2. \A f \in F : \E i \in P : at[i] = f
      BY <1>2
  <2> HIDE DEF at, P, F
  <2>3. QED
      BY <2>1, <2>2 DEF Bijection, Injection, Surjection, IsInjective
<1>4. Cardinality(F) = N
    BY <1>1, <1>3, FS_Bijection DEF ExistsBijection
<1>5. ProdRank(list, t) = [k \in 1 .. N |-> list[ProdPlace(list, t, k)]]
    BY DEF ProdRank, ProdPlace
<1>6. Len(ProdRank(list, t)) = N /\ DOMAIN ProdRank(list, t) = 1 .. N
    BY <1>1, <1>5
<1>7. \A k \in 1 .. N : ProdRank(list, t)[k] = list[ProdPlace(list, t, k)]
    BY <1>5
<1>8. {ProdRank(list, t)[k] : k \in 1 .. N} = {list[ProdPlace(list, t, k)] : k \in 1 .. N}
    BY <1>7
<1>9. {list[ProdPlace(list, t, k)] : k \in 1 .. N} = {list[i] : i \in P}
    BY RankIsOrder
<1>10. QED
    BY <1>2, <1>4, <1>6, <1>7, <1>8, <1>9

\* The first of the ranking is the file that no other beats.
LEMMA FirstIsBest ==
  ASSUME NEW list, ProdListOK(list), NEW t \in ProdTypes
  PROVE  ProdFirst(ProdRank(list, t)) =
           IF ProdFilesOf(list, t) = {} THEN <<>>
           ELSE <<CHOOSE f \in ProdFilesOf(list, t) :
                    \A g \in ProdFilesOf(list, t) \ {f} : ProdBefore(f, g)>>
<1> DEFINE P == ProdPlaces(list, t)
           N == Cardinality(P)
           F == ProdFilesOf(list, t)
           R == ProdRank(list, t)
<1>1. IsFiniteSet(P) /\ N \in Nat /\ \A i \in P : list[i] \in ProdAll
    BY PlacesOfType
<1>2. F = {list[i] : i \in P}
    BY FilesAtPlaces
<1>3. DOMAIN R = 1 .. N
    BY RankHoldsAll
<1>4. CASE P = {}
  <2>1. N = 0 /\ F = {}
      BY <1>2, <1>4, FS_EmptySet
  <2>2. R = <<>>
    <3>1. R = [k \in 1 .. 0 |-> list[ProdPlace(list, t, k)]]
        BY <2>1 DEF ProdRank, ProdPlace
    <3>2. QED
        BY <3>1
  <2>3. QED
      BY <2>1, <2>2 DEF ProdFirst
<1>5. CASE P # {}
  <2>1. N # 0 /\ F # {} /\ 1 \in 1 .. N
      BY <1>1, <1>2, <1>5, FS_EmptySet
  <2>2. R # <<>>
    <3>1. PICK r : r = R
        OBVIOUS
    <3>2. 1 \in DOMAIN r /\ DOMAIN <<>> = {}
        BY <1>3, <2>1, <3>1
    <3>3. QED
        BY <3>1, <3>2
  <2>3. PICK i \in P : R[1] = list[i] /\ Cardinality(ProdAhead(list, t, i)) = 0
      BY <2>1, RankHoldsAll, RankIsOrder
  <2>4. ProdAhead(list, t, i) = {}
    <3>1. ProdAhead(list, t, i) \subseteq P
        BY DEF ProdAhead
    <3>2. IsFiniteSet(ProdAhead(list, t, i))
        BY <1>1, <3>1, FS_Subset
    <3>3. QED
        BY <2>3, <3>2, FS_EmptySet
  <2>5. \A j \in P : ~ProdBefore(list[j], list[i])
      BY <2>4 DEF ProdAhead
  <2>6. list[i] \in F /\ \A g \in F \ {list[i]} : ProdBefore(list[i], g)
      BY <1>1, <1>2, <2>5, BeforeOrders
  <2>7. ASSUME NEW f \in F, \A g \in F \ {f} : ProdBefore(f, g) PROVE f = list[i]
    <3>1. f \in ProdAll
        BY <1>1, <1>2
    <3>2. SUFFICES ASSUME f # list[i] PROVE FALSE
        OBVIOUS
    <3>3. ProdBefore(f, list[i]) /\ ProdBefore(list[i], f)
        BY <2>6, <2>7, <3>2
    <3>4. QED
        BY <1>1, <3>1, <3>3, BeforeOrders
  <2>8. (CHOOSE f \in F : \A g \in F \ {f} : ProdBefore(f, g)) = list[i]
    <3> HIDE DEF F
    <3>1. QED
        BY <2>6, <2>7
  <2>9. QED
      BY <2>1, <2>2, <2>3, <2>8 DEF ProdFirst
<1>6. QED
    BY <1>4, <1>5

\* The list keeps its form under whatever is done to it.
LEMMA ListAppends ==
  ASSUME NEW list, ProdListOK(list), NEW f \in ProdAll, f = ProdCut \/ ~Contains(list, f)
  PROVE  ProdListOK(Append(list, f))
<1>1. list \in Seq(ProdAll) /\ Len(list) \in Nat /\ DOMAIN list = 1 .. Len(list)
    BY DEF ProdListOK
<1>2. PICK more : more = Append(list, f)
    OBVIOUS
<1>3. /\ more \in Seq(ProdAll) /\ DOMAIN more = 1 .. Len(list) + 1
      /\ more[Len(list) + 1] = f /\ \A i \in 1 .. Len(list) : more[i] = list[i]
    BY <1>1, <1>2
<1>4. \A i \in 1 .. Len(list) : f # ProdCut => list[i] # f
    BY DEF Contains
<1>5. ASSUME NEW i \in DOMAIN more, NEW j \in DOMAIN more, more[i] = more[j], more[i] # ProdCut
      PROVE  i = j
  <2>1. CASE i = Len(list) + 1 /\ j = Len(list) + 1
      BY <2>1
  <2>2. CASE i \in 1 .. Len(list) /\ j \in 1 .. Len(list)
      BY <1>1, <1>3, <1>5, <2>2 DEF ProdListOK
  <2>3. CASE i = Len(list) + 1 /\ j \in 1 .. Len(list)
      BY <1>3, <1>4, <1>5, <2>3
  <2>4. CASE j = Len(list) + 1 /\ i \in 1 .. Len(list)
      BY <1>3, <1>4, <1>5, <2>4
  <2>5. QED
      BY <1>1, <1>3, <2>1, <2>2, <2>3, <2>4
<1>6. ProdListOK(more)
    BY <1>3, <1>5 DEF ProdListOK
<1>7. QED
    BY <1>2, <1>6

LEMMA ListTakes ==
  ASSUME NEW list, ProdListOK(list), NEW f \in ProdItems
  PROVE  ProdListOK(ProdTake(list, f))
    BY ListAppends DEF ProdTake, ProdAll

LEMMA ListShortens ==
  ASSUME NEW list, ProdListOK(list), NEW k \in 0 .. Len(list)
  PROVE  ProdListOK(SubSeq(list, 1, k))
<1>1. list \in Seq(ProdAll) /\ Len(list) \in Nat /\ DOMAIN list = 1 .. Len(list)
    BY DEF ProdListOK
<1>2. PICK less : less = SubSeq(list, 1, k)
    OBVIOUS
<1>3. less \in Seq(ProdAll) /\ DOMAIN less = 1 .. k /\ \A i \in 1 .. k : less[i] = list[i]
    BY <1>1, <1>2
<1>4. 1 .. k \subseteq DOMAIN list
    BY <1>1
<1>5. ProdListOK(less)
    BY <1>3, <1>4 DEF ProdListOK
<1>6. QED
    BY <1>2, <1>5

LEMMA ListRemoves ==
  ASSUME NEW list, ProdListOK(list), NEW n \in DOMAIN list
  PROVE  ProdListOK(RemoveAt(list, n))
<1>1. list \in Seq(ProdAll) /\ Len(list) \in Nat /\ DOMAIN list = 1 .. Len(list)
    BY DEF ProdListOK
<1>2. PICK less : less = SubSeq(list, 1, n - 1) \o SubSeq(list, n + 1, Len(list))
    OBVIOUS
<1> DEFINE old(i) == IF i < n THEN i ELSE i + 1
<1>3. /\ less \in Seq(ProdAll) /\ DOMAIN less = 1 .. Len(list) - 1
      /\ \A i \in 1 .. Len(list) - 1 : less[i] = list[old(i)] /\ old(i) \in DOMAIN list
  <2>1. PICK a : a = SubSeq(list, 1, n - 1)
      OBVIOUS
  <2>2. PICK b : b = SubSeq(list, n + 1, Len(list))
      OBVIOUS
  <2>3. /\ a \in Seq(ProdAll) /\ Len(a) = n - 1 /\ \A i \in 1 .. n - 1 : a[i] = list[i]
      BY <1>1, <2>1
  <2>4. /\ b \in Seq(ProdAll) /\ Len(b) = Len(list) - n
        /\ \A i \in 1 .. Len(list) - n : b[i] = list[n + i]
      BY <1>1, <2>2
  <2>5. less = a \o b
      BY <1>2, <2>1, <2>2
  <2>6. /\ less \in Seq(ProdAll) /\ Len(less) = Len(list) - 1 /\ DOMAIN less = 1 .. Len(list) - 1
        /\ \A i \in 1 .. Len(list) - 1 : less[i] = IF i < n THEN a[i] ELSE b[i - (n - 1)]
    <3>a. a \in Seq(ProdAll) /\ b \in Seq(ProdAll)
        BY <2>3, <2>4
    <3>b. less \in Seq(ProdAll) /\ Len(less) = Len(a) + Len(b)
        BY <2>5, <3>a
    <3>1. less \in Seq(ProdAll) /\ Len(less) = (n - 1) + (Len(list) - n)
        BY <2>3, <2>4, <3>b
    <3>2. Len(less) = Len(list) - 1
        BY <1>1, <3>1
    <3>3. DOMAIN less = 1 .. Len(list) - 1
        BY <3>1, <3>2
    <3>4. \A i \in 1 .. Len(a) + Len(b) : less[i] = IF i <= Len(a) THEN a[i] ELSE b[i - Len(a)]
        BY <2>5, <3>a
    <3>5. Len(a) + Len(b) = Len(list) - 1 /\ \A i \in 1 .. Len(list) - 1 : i <= Len(a) <=> i < n
        BY <1>1, <2>3, <2>4
    <3>6. \A i \in 1 .. Len(list) - 1 : less[i] = IF i < n THEN a[i] ELSE b[i - (n - 1)]
        BY <2>3, <3>4, <3>5
    <3>7. QED
        BY <3>1, <3>2, <3>3, <3>6
  <2>7. ASSUME NEW i \in 1 .. Len(list) - 1
        PROVE  less[i] = list[old(i)] /\ old(i) \in DOMAIN list
    <3>1. CASE i < n
        BY <1>1, <2>3, <2>6, <3>1
    <3>2. CASE ~(i < n)
      <4>1. i - (n - 1) \in 1 .. Len(list) - n /\ n + (i - (n - 1)) = i + 1 /\ old(i) = i + 1
          BY <1>1, <3>2
      <4>2. less[i] = b[i - (n - 1)]
          BY <2>6, <3>2
      <4>3. b[i - (n - 1)] = list[i + 1]
          BY <2>4, <4>1
      <4>4. i + 1 \in DOMAIN list
          BY <1>1, <3>2
      <4>5. QED
          BY <4>1, <4>2, <4>3, <4>4
    <3>3. QED
        BY <3>1, <3>2
  <2>8. QED
      BY <2>6, <2>7
<1>4. ASSUME NEW i \in DOMAIN less, NEW j \in DOMAIN less, less[i] = less[j], less[i] # ProdCut
      PROVE  i = j
  <2>1. list[old(i)] = list[old(j)] /\ list[old(i)] # ProdCut /\ old(i) \in DOMAIN list /\ old(j) \in DOMAIN list
      BY <1>3, <1>4
  <2>2. old(i) = old(j)
    <3> HIDE DEF old
    <3>1. QED
        BY <2>1 DEF ProdListOK
  <2>3. QED
      BY <1>1, <1>3, <2>2
<1>5. ProdListOK(less)
  <2> HIDE DEF old
  <2>1. QED
      BY <1>3, <1>4 DEF ProdListOK
<1>6. QED
    BY <1>2, <1>5 DEF RemoveAt

\* The lists that memory and the file hold are in form; while there is a list, the orbit
\* file and the grids in use are those derived from it.
ProdHeld ==
  /\ ProdListOK(prodFiles) /\ ProdListOK(prodMem.files) /\ ProdListOK(prodDisk.files)
  /\ DOMAIN prodField = ProdTypes /\ DOMAIN prodMem.field = ProdTypes /\ DOMAIN prodDisk.field = ProdTypes
  /\ prodFiles # <<>> => \A t \in {"orb", "vmf"} : prodField[t] = ProdDerived(prodFiles)[t]

LEMMA NoListIsOK == ProdListOK(<<>>)
<1>1. PICK none : none = <<>>
    OBVIOUS
<1>2. none \in Seq(ProdAll) /\ DOMAIN none = {}
    BY <1>1
<1>3. ProdListOK(none)
    BY <1>2 DEF ProdListOK
<1>4. QED
    BY <1>1, <1>3

\* Every change of the list derives the files in use from it anew.
LEMMA ResyncHolds ==
  ASSUME ProdHeld, NEW q, ProdListOK(q), ProdResync(q), UNCHANGED prodDisk
  PROVE  ProdHeld'
<1>1. /\ prodFiles' = q /\ prodField' = ProdDerived(q)
      /\ prodMem' = [files |-> q, field |-> ProdDerived(q)] /\ prodDisk' = prodDisk
    BY DEF ProdResync, ProdSet
<1>2. DOMAIN ProdDerived(q) = ProdTypes
    BY DEF ProdDerived
<1>3. QED
    BY <1>1, <1>2 DEF ProdHeld

\* A settings file cut anywhere holds a list that is in form.
LEMMA TornHolds ==
  ASSUME NEW mem, ProdListOK(mem.files), NEW d \in ProdTorn(mem)
  PROVE  ProdListOK(d.files) /\ DOMAIN d.field = ProdTypes
<1>1. \A q \in ProdCutList(mem.files) : ProdListOK(q)
  <2>1. Len(mem.files) \in Nat
      BY DEF ProdListOK
  <2>2. \A k \in 0 .. Len(mem.files) : ProdListOK(SubSeq(mem.files, 1, k))
      BY ListShortens
  <2>3. \A k \in 0 .. Len(mem.files) - 1 : ProdListOK(Append(SubSeq(mem.files, 1, k), ProdCut))
    <3>1. SUFFICES ASSUME NEW k \in 0 .. Len(mem.files) - 1
                   PROVE  ProdListOK(Append(SubSeq(mem.files, 1, k), ProdCut))
        OBVIOUS
    <3>2. PICK less : less = SubSeq(mem.files, 1, k)
        OBVIOUS
    <3>3. ProdListOK(less)
        BY <2>1, <2>2, <3>2
    <3>4. ProdListOK(Append(less, ProdCut))
        BY <3>3, ListAppends DEF ProdAll
    <3>5. QED
        BY <3>2, <3>4
  <2>4. QED
      BY <2>2, <2>3 DEF ProdCutList
<1>2. DOMAIN ProdNoFields = ProdTypes
    BY DEF ProdNoFields
<1>3. QED
    BY <1>1, <1>2, NoListIsOK DEF ProdTorn

THEOREM ProdHolds == ProdSpec => []ProdHeld
<1>1. ProdInit => ProdHeld
  <2>1. DOMAIN ProdNoFields = ProdTypes
      BY DEF ProdNoFields
  <2>2. QED
      BY <2>1, NoListIsOK DEF ProdInit, ProdHeld, ProdNothing
<1>2. ProdHeld /\ [ProdNext]_prodVars => ProdHeld'
  <2> SUFFICES ASSUME ProdHeld, [ProdNext]_prodVars
               PROVE  ProdHeld'
      OBVIOUS
  <2>1. CASE ProdOpenTab
    <3>1. DOMAIN ProdDerived(prodMem.files) = ProdTypes
        BY DEF ProdDerived
    <3>2. QED
        BY <2>1, <3>1 DEF ProdOpenTab, ProdHeld, ProdLoaded
  <2>2. CASE ProdAdd
    <3>1. PICK f \in ProdItems, g \in ProdItems : ProdResync(ProdTake(ProdTake(prodFiles, f), g))
        BY <2>2 DEF ProdAdd
    <3>2. ProdListOK(ProdTake(prodFiles, f))
        BY ListTakes DEF ProdHeld
    <3>3. ProdListOK(ProdTake(ProdTake(prodFiles, f), g))
        BY <3>2, ListTakes
    <3>4. QED
        BY <2>2, <3>1, <3>3, ResyncHolds DEF ProdAdd
  <2>3. CASE ProdPick
    <3>1. ASSUME NEW f \in ProdItems, ~Contains(prodFiles, f), ProdResync(Append(prodFiles, f))
          PROVE  ProdHeld'
      <4>1. ProdListOK(Append(prodFiles, f))
          BY <3>1, ListAppends DEF ProdHeld, ProdAll
      <4>2. QED
          BY <2>3, <3>1, <4>1, ResyncHolds DEF ProdPick
    <3>2. ASSUME NEW i \in DOMAIN prodFiles, ProdResync(RemoveAt(prodFiles, i))
          PROVE  ProdHeld'
      <4>1. ProdListOK(RemoveAt(prodFiles, i))
          BY ListRemoves DEF ProdHeld
      <4>2. QED
          BY <2>3, <3>2, <4>1, ResyncHolds DEF ProdPick
    <3>3. QED
        BY <2>3, <3>1, <3>2 DEF ProdPick
  <2>4. CASE ProdRemove
    <3>1. PICK i \in DOMAIN prodFiles : ProdResync(RemoveAt(prodFiles, i))
        BY <2>4 DEF ProdRemove
    <3>2. ProdListOK(RemoveAt(prodFiles, i))
        BY ListRemoves DEF ProdHeld
    <3>3. QED
        BY <2>4, <3>1, <3>2, ResyncHolds DEF ProdRemove
  <2>5. CASE ProdClear
      BY <2>5, NoListIsOK, ResyncHolds DEF ProdClear
  <2>6. CASE ProdObs
      BY <2>6 DEF ProdObs, ProdHeld
  <2>7. CASE ProdStart
      BY <2>7 DEF ProdStart, ProdSet, ProdHeld
  <2>8. CASE ProdFlush
      BY <2>8 DEF ProdFlush, ProdHeld
  <2>9. CASE ProdDies
    <3>1. ProdListOK(prodDisk'.files) /\ DOMAIN prodDisk'.field = ProdTypes
        BY <2>9, TornHolds DEF ProdDies, ProdHeld
    <3>2. DOMAIN ProdNoFields = ProdTypes
        BY DEF ProdNoFields
    <3>3. QED
        BY <2>9, <3>1, <3>2, NoListIsOK DEF ProdDies, ProdOff, ProdNothing, ProdHeld
  <2>10. CASE ProdBoot
      BY <2>10 DEF ProdBoot, ProdHeld
  <2>11. CASE UNCHANGED prodVars
      BY <2>11 DEF prodVars, ProdHeld
  <2>12. QED
      BY <2>1, <2>2, <2>3, <2>4, <2>5, <2>6, <2>7, <2>8, <2>9, <2>10, <2>11 DEF ProdNext
<1>3. QED
    BY <1>1, <1>2, PTL DEF ProdSpec

\* While the list is not empty the best orbit file and every grid of it are in use,
\* whatever was added, taken out, cut by a crash or loaded again, and what was flushed
\* comes back (ProdChoiceIsRight; ProductPicker, Products, PathMemory).
THEOREM ChoiceStaysRight == ProdSpec => []ProdChoiceIsRight
<1>1. ProdHeld => ProdChosenIsBest
  <2> SUFFICES ASSUME ProdHeld, prodFiles # <<>>
               PROVE  /\ prodField["orb"] = IF ProdFilesOf(prodFiles, "orb") = {} THEN <<>>
                                            ELSE <<CHOOSE f \in ProdFilesOf(prodFiles, "orb") :
                                                     \A g \in ProdFilesOf(prodFiles, "orb") \ {f} : ProdBefore(f, g)>>
                      /\ {prodField["vmf"][i] : i \in DOMAIN prodField["vmf"]} = ProdFilesOf(prodFiles, "vmf")
                      /\ Len(prodField["vmf"]) = Cardinality(ProdFilesOf(prodFiles, "vmf"))
      BY DEF ProdChosenIsBest, ProdFilesOf
  <2>1. "orb" \in ProdTypes /\ "vmf" \in ProdTypes /\ ProdListOK(prodFiles)
      BY DEF ProdTypes, ProdHeld
  <2>2. /\ prodField["orb"] = ProdFirst(ProdRank(prodFiles, "orb"))
        /\ prodField["vmf"] = ProdRank(prodFiles, "vmf")
      BY <2>1 DEF ProdHeld, ProdDerived
  <2>3. QED
      BY <2>1, <2>2, FirstIsBest, RankHoldsAll
<1>2. QED
    BY <1>1, ProdHolds, ListComesBack, PTL DEF ProdChoiceIsRight
=============================================================================
