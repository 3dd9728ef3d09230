------------------------------ MODULE EphTable ------------------------------
(***************************************************************************)
(* Broadcast ephemerides on their way from a receiver's log to the solver. *)
(* LogReader decodes them and keeps the last one of each satellite in a    *)
(* snapshot that travels with every epoch; the snapshot is replaced, never *)
(* written to, because the reader runs ahead of the solver by the depth of *)
(* the queue.  A solve task merges the snapshot of an epoch into the table *)
(* it loaded from navigation files; a realtime session, one thread, takes  *)
(* the snapshot for its table.  EphemerisTable::find then serves the       *)
(* closest entry that is not too old.                                      *)
(*                                                                         *)
(* An ephemeris is its reference time, on one time scale, and its health.  *)
(***************************************************************************)
EXTENDS Integers, Sequences, FiniteSets, SequencesExt

CONSTANTS
    EphConfigs,     \* the runs: [realtime, nav, log]
    EphSats,
    EphMaxAge,      \* EPH_MAX_AGE_SEC
    EphQueueDepth   \* epochs the reader may be ahead

\* What a log tells: epochs, and navigation messages of a satellite.
EphRecords ==
    [kind : {"epoch"}, t : Nat]
    \cup [kind : {"gps", "bds", "glo", "gal", "inav", "fnav"}, sat : EphSats,
          toe : Nat, health : Nat, short : BOOLEAN, inav : BOOLEAN, e5a : Nat, e5b : Nat]

Ephemerides == [toe : Nat, health : Nat]

ASSUME EphAssumption ==
    /\ EphMaxAge \in Nat
    /\ \A cfg \in EphConfigs : /\ cfg.realtime \in BOOLEAN
                               /\ cfg.nav \in [EphSats -> Seq(Ephemerides)]
                               /\ cfg.log \in Seq(EphRecords)

VARIABLES
    ephConfig,
    ephRead,        \* records of the log read so far
    ephSnaps,       \* the snapshots made so far; the last is mEphSnap
    ephQueue,       \* epochs waiting: [at, snap]
    ephTable,       \* SPP::ephTable
    ephServed       \* history: what find returned at each epoch solved

ephVars == <<ephConfig, ephRead, ephSnaps, ephQueue, ephTable, ephServed>>

NoEph == [toe |-> -1, health |-> 0]
NoEphs == [s \in EphSats |-> <<>>]

-----------------------------------------------------------------------------
(* Decoding.                                                               *)

\* GPS and BDS: whatever health the message carries.
parseGpsEphem(m) == <<[toe |-> m.toe, health |-> m.health]>>
parseBdsEphem(m) == <<[toe |-> m.toe, health |-> m.health]>>

\* GLONASS: a short body is refused, and health below 4 is none.
parseGloEphem(m) ==
    IF m.short THEN <<>>
    ELSE <<[toe |-> m.toe, health |-> IF m.health < 4 THEN 0 ELSE 1]>>

\* Galileo: the health of the signal the clock belongs to.
makeGalEph(m, inav) ==
    [toe |-> m.toe, health |-> IF inav THEN m.e5b ELSE m.e5a]

parseGalEph(m) == IF m.short THEN <<>> ELSE <<makeGalEph(m, m.inav)>>
parseGalINavBinary(m) == IF m.short THEN <<>> ELSE <<makeGalEph(m, TRUE)>>
parseGalFNavBinary(m) == IF m.short THEN <<>> ELSE <<makeGalEph(m, FALSE)>>

\* The ephemeris of a message, if it has one.
Decoded(m) ==
    CASE m.kind = "gps" -> parseGpsEphem(m)
      [] m.kind = "bds" -> parseBdsEphem(m)
      [] m.kind = "glo" -> parseGloEphem(m)
      [] m.kind = "gal" -> parseGalEph(m)
      [] m.kind = "inav" -> parseGalINavBinary(m)
      [] m.kind = "fnav" -> parseGalFNavBinary(m)
      [] OTHER -> <<>>

\* The last one only; the same reference time again is no news.
storeEph(snaps, s, e) ==
    LET cur == Last(snaps)
    IN  IF cur[s] # <<>> /\ Last(cur[s]).toe = e.toe THEN snaps
        ELSE Append(snaps, [cur EXCEPT ![s] = <<e>>])

-----------------------------------------------------------------------------
(* The table.                                                              *)

ageSeconds(e, t) == IF e.toe < t THEN t - e.toe ELSE e.toe - t

\* As hasUsableNear would be if it asked for the satellite only.
PrnIsThere(v, t) == v # <<>>

hasUsableNear(v, t) == \E i \in DOMAIN v : ageSeconds(v[i], t) <= EphMaxAge

\* The one entry a snapshot has, unless dst has its reference time.
Joined(dst, src) ==
    IF \E i \in DOMAIN dst : dst[i].toe = src[1].toe THEN dst ELSE Append(dst, src[1])

mergeMapForEpoch(dst, src, t) ==
    IF src = <<>> \/ hasUsableNear(dst, t) THEN dst ELSE Joined(dst, src)

mergeEmbedded(table, snap, t) ==
    [s \in EphSats |-> mergeMapForEpoch(table[s], snap[s], t)]

\* The first of the closest, unless even that is too old.
pickClosest(v, t) ==
    LET closer(i, j) == \/ ageSeconds(v[i], t) < ageSeconds(v[j], t)
                        \/ ageSeconds(v[i], t) = ageSeconds(v[j], t) /\ i <= j
        best == CHOOSE i \in DOMAIN v : \A j \in DOMAIN v : closer(i, j)
    IN  IF v = <<>> \/ ageSeconds(v[best], t) > EphMaxAge THEN NoEph ELSE v[best]

-----------------------------------------------------------------------------

Log == ephConfig.log

EphStart(cfg) ==
    /\ ephConfig = cfg
    /\ ephRead = 0
    /\ ephSnaps = <<NoEphs>>
    /\ ephQueue = <<>>
    /\ ephTable = ephConfig.nav
    /\ ephServed = <<>>

EphInit == \E cfg \in EphConfigs : EphStart(cfg)

\* LogReader::parseGNSSMessage on a navigation message.
ReadEphemeris ==
    /\ ephRead < Len(Log)
    /\ LET m == Log[ephRead + 1]
       IN  /\ m.kind # "epoch"
           /\ ephSnaps' = IF Decoded(m) = <<>> THEN ephSnaps
                          ELSE storeEph(ephSnaps, m.sat, Decoded(m)[1])
    /\ ephRead' = ephRead + 1
    /\ UNCHANGED <<ephConfig, ephQueue, ephTable, ephServed>>

\* An epoch is complete: it goes to the queue with the snapshot.
ReadItem ==
    /\ ephRead < Len(Log)
    /\ Log[ephRead + 1].kind = "epoch"
    /\ ~ephConfig.realtime
    /\ Len(ephQueue) < EphQueueDepth
    /\ ephRead' = ephRead + 1
    /\ ephQueue' = Append(ephQueue, [at |-> ephRead + 1, snap |-> Len(ephSnaps)])
    /\ UNCHANGED <<ephConfig, ephSnaps, ephTable, ephServed>>

Serve(at, table) ==
    Append(ephServed,
           [at |-> at, found |-> [s \in EphSats |-> pickClosest(table[s], Log[at].t)]])

\* Task::beforeSolveEpoch and the solver's searches of the table.
SolveItem ==
    /\ ephQueue # <<>>
    /\ LET item == Head(ephQueue)
       IN  /\ ephTable' = mergeEmbedded(ephTable, ephSnaps[item.snap], Log[item.at].t)
           /\ ephServed' = Serve(item.at, ephTable')
    /\ ephQueue' = Tail(ephQueue)
    /\ UNCHANGED <<ephConfig, ephRead, ephSnaps>>

\* SPPSession::pump: the snapshot is the table.
PumpEpoch ==
    /\ ephConfig.realtime
    /\ ephRead < Len(Log)
    /\ Log[ephRead + 1].kind = "epoch"
    /\ ephRead' = ephRead + 1
    /\ ephTable' = Last(ephSnaps)
    /\ ephServed' = Serve(ephRead + 1, ephTable')
    /\ UNCHANGED <<ephConfig, ephSnaps, ephQueue>>

EphNext == ReadEphemeris \/ ReadItem \/ SolveItem \/ PumpEpoch

EphSpec == EphInit /\ [][EphNext]_ephVars

-----------------------------------------------------------------------------

\* The ephemerides of s in the log before its record number at.
LoggedBefore(s, at) ==
    {Decoded(Log[i])[1] : i \in {j \in 1 .. at - 1 :
        Log[j].kind # "epoch" /\ Log[j].sat = s /\ Decoded(Log[j]) # <<>>}}

FromNav(s) ==
    IF ephConfig.realtime THEN {} ELSE {ephConfig.nav[s][i] : i \in DOMAIN ephConfig.nav[s]}

\* The last ephemeris of s in the log before its record number at.
LoggedLast(s, at) ==
    LET mine == {j \in 1 .. at - 1 : Log[j].kind # "epoch" /\ Log[j].sat = s
                                       /\ Decoded(Log[j]) # <<>>}
    IN  {Decoded(Log[j])[1] : j \in {k \in mine : \A l \in mine : l <= k}}

\* A satellite is served at an epoch when a navigation file, or the last
\* message of the log up to that epoch, has an ephemeris of it that is not too
\* old: neither an old file nor an old message stands in the way of the other
\* (the rules above EphemerisTable::mergeEmbedded).
EphServed ==
    \A k \in DOMAIN ephServed : \A s \in EphSats :
        LET at == ephServed[k].at
        IN  (\E e \in FromNav(s) \cup LoggedLast(s, at) : ageSeconds(e, Log[at].t) <= EphMaxAge)
              => ephServed[k].found[s] # NoEph

\* An epoch is solved with what was known when it was read, although the
\* reader has gone on meanwhile: a replay uses what a realtime run would.
EphNotFromLater ==
    \A k \in DOMAIN ephServed : \A s \in EphSats :
        ephServed[k].found[s] \in
            {NoEph} \cup FromNav(s) \cup LoggedBefore(s, ephServed[k].at)

\* Every epoch is served from what was usable when it was read, and only that.
EphServedThen == EphServed /\ EphNotFromLater

=============================================================================
