------------------------------- MODULE MCData -------------------------------
(***************************************************************************)
(* The readers, the navigation tables and the solvers, one at a time: the  *)
(* readers of logs and RINEX, navigation and CRX files, the pairing of two *)
(* receivers, and the SPP, PPP and RTK solvers with the integer search.    *)
(***************************************************************************)
EXTENDS MCReceiver, MCDualPair, MCPppFilter, RinexObs, RinexNav, EphTable,
        CrxDecoder, PointSolve, RtkSolve, Lambda

(* Files of three records, whole or cut between any two lines: epochs of up *)
(* to five satellites, one of a system that is not used, and an event.     *)

Record(t, flag, sats) == [t |-> t, flag |-> flag, sats |-> sats, first |-> None]

Lists == {<<>>, <<"G02">>, <<"G05", "G02">>, <<"J01", "R02", "G02">>,
          <<"G01", "J01", "E01", "G02">>, <<"G01", "R02", "E01", "C01", "G02">>}
\* Two lines of an event; they stand where satellites would.
Event(t) == Record(t, 4, <<"x", "x">>)

Contents ==
    {<<Record(1, 0, a), e, Record(5, 1, b)>> :
       a \in Lists, b \in Lists, e \in {Event(3)} \cup {Record(3, 0, l) : l \in Lists}}

File(v, n, w, c, cut, wound, target) ==
    [version |-> v, types |-> n, withIds |-> w, content |-> c, cut |-> cut, rtk |-> wound,
     target |-> target]

MCRnxFiles ==
    {File(v[1], v[2], v[3], c, 1000, FALSE, 0) :
       v \in {<<3, 1, TRUE>>} \cup {<<2, n, w>> : n \in 1 .. 3, w \in BOOLEAN}, c \in Contents}
    \cup {File(v[1], v[2], FALSE, c, cut, FALSE, 0) :
            v \in {<<3, 1>>, <<2, 3>>}, cut \in 1 .. 24,
            c \in {<<Record(1, 0, a), Event(3), Record(5, 1, b)>> :
                    a \in Lists, b \in {<<>>, <<"G05", "G02">>}}}
    \cup {File(v[1], v[2], FALSE, c, 1000, TRUE, t) :
            v \in {<<3, 1>>, <<2, 3>>}, t \in {0, 2, 3, 6}, c \in Contents}

\* Standard version 2 files: no satellite on the rows, whose first value may
\* begin like one of the satellites of the epoch.
Rinex2Files ==
    {File(2, 3, FALSE, <<[Record(1, 0, <<"G05", "G02">>) EXCEPT !.first = f],
                         Record(5, 0, a)>>, cut, FALSE, 0) :
       f \in {None, "G12", "G02"}, a \in Lists, cut \in {8, 1000}}

-----------------------------------------------------------------------------
(* Three records of any systems, with or without added lines, at the start, *)
(* in the middle or at the end of a week; whole and cut files.             *)

Orbits(sys) == CASE sys = "R" -> {3, 4}
                 [] sys = "C" -> {7, 8, 9}
                 [] sys = "J" -> {7}
                 [] OTHER -> {7}

Broadcast(sys, orbits, toe, how) ==
    [sys |-> sys, orbits |-> orbits, week |-> 3, toe |-> toe, how |-> how]

\* The transmission time refers to the week of the reference time.
MCRecords ==
    UNION {{Broadcast(s, o, t, t + d) : o \in Orbits(s), t \in {0, 4, NavWeek - 1}, d \in {-1, 1}} :
             s \in {"G", "C", "E", "R", "J"}}

Some == {e \in MCRecords : e.toe = 4 /\ e.how = 5}

MCNavFiles ==
    {[version |-> 3, records |-> <<a, b, c>>, cut |-> 1000] :
       a \in Some, b \in MCRecords, c \in {e \in Some : e.sys \in {"G", "R"}}}
    \cup {[version |-> 3, records |-> <<a, b>>, cut |-> cut] : a, b \in Some, cut \in 0 .. 20}
    \cup {[version |-> 2, records |-> <<a, b>>, cut |-> cut] :
            a, b \in {e \in MCRecords : e.sys = "G"}, cut \in {9, 10, 17, 1000}}

\* As some producers write them, within the week of the transmission.
HowFiles ==
    {[version |-> 3, records |-> <<[a EXCEPT !.how = @ % NavWeek], b>>, cut |-> 1000] :
       a, b \in MCRecords}

-----------------------------------------------------------------------------
(* Three epochs, further apart than an ephemeris lives, with up to two      *)
(* messages between them, and navigation files of this day, another or none. *)

EpochRecord(t) == [kind |-> "epoch", t |-> t]
Message(kind, s, toe, health) ==
    [kind |-> kind, sat |-> s, toe |-> toe, health |-> health, short |-> FALSE,
     inav |-> health = 0, e5a |-> 1 - (health % 2), e5b |-> health % 2]
Short(m) == [m EXCEPT !.short = TRUE]

GpsMessages == {Message("gps", "G01", toe, 0) : toe \in {1, 4, 9}}
                 \cup {Message("gps", "G01", 4, 1)}
OtherMessages ==
    LET of(kind, s) == Message(kind, s, 4, 3)
    IN  {of("bds", "C01"), of("glo", "R01"), Short(of("glo", "R01")), of("gal", "E01"),
         Short(of("gal", "E01")), of("inav", "E01"), Short(of("inav", "E01")),
         of("fnav", "E01"), Short(of("fnav", "E01"))}

Gaps == {<<>>} \cup {<<m>> : m \in GpsMessages}
          \cup {<<m, n>> : m \in GpsMessages, n \in OtherMessages}

MCEphLogs ==
    {a \o <<EpochRecord(3)>> \o b \o <<EpochRecord(5)>> \o c \o <<EpochRecord(10)>> :
       a \in Gaps, b \in {<<>>} \cup {<<m>> : m \in GpsMessages},
       c \in {<<>>} \cup {<<m>> : m \in GpsMessages}}

NavOf(toes) == [s \in EphSats |->
    IF s = "G01" THEN [i \in DOMAIN toes |-> [toe |-> toes[i], health |-> 0]] ELSE <<>>]

MCEphConfigs ==
    {[realtime |-> r, nav |-> IF r THEN NavOf(<<>>) ELSE NavOf(n), log |-> l] :
       r \in BOOLEAN, n \in {<<>>, <<3>>, <<90>>, <<90, 5>>}, l \in MCEphLogs}

-----------------------------------------------------------------------------
(* Two satellites that come, go and change places, with numbers of both      *)
(* signs and around the carry.                                              *)

CrxRow(sat, val, flag) == [sat |-> sat, val |-> val, flag |-> flag]

CrxRows ==
    {<<CrxRow("a", v, "-")>> : v \in {{}, {-12}, {25}}} \cup {<<CrxRow("a", {}, "1")>>}
    \cup {<<CrxRow("a", v, f), CrxRow("b", {w}, "-")>> : v \in {{3}, {-30}}, f \in {"-", "1"}, w \in {7, 99}}
    \cup {<<CrxRow("b", {w}, "-"), CrxRow("a", {3}, "1")>> : w \in {-8, 40}}

MCCrxEpochs ==
    {[init |-> i, clock |-> {}, rows |-> r] : i \in {FALSE}, r \in CrxRows}
    \cup {[init |-> i, clock |-> c, rows |-> <<CrxRow("a", {-12}, "-")>>] :
            i \in BOOLEAN, c \in {{}, {17}, {-5}}}

\* Clocks of a whole number of upper parts too.
WholeClocks ==
    {[init |-> i, clock |-> {c}, rows |-> <<CrxRow("a", {-12}, "-")>>] : i \in BOOLEAN, c \in {-5, -30}}

-----------------------------------------------------------------------------
(* Three GPS satellites, two of Galileo and two of GLONASS, over three      *)
(* epochs; one satellite low, without ephemeris, outlying or on one band.  *)

MCPtSats == 1 .. 7
MCPtSys == [s \in MCPtSats |-> CASE s \in {1, 2} -> "E" [] s \in {3, 4, 5} -> "G" [] OTHER -> "R"]

PtGood(s) == [bands |-> IF PtSys[s] = "E" THEN {"1", "5"} ELSE {"1", "2"}, eph |-> "ok",
              up |-> TRUE, upRough |-> TRUE, w |-> 0]

PtFaults == {"none", "low", "lowRough", "noEph", "sick", "bad", "worse", "oneBand"}

WithFault(v, f) ==
    CASE f = "none" -> v
      [] f = "low" -> [v EXCEPT !.up = FALSE, !.upRough = FALSE]
      [] f = "lowRough" -> [v EXCEPT !.upRough = FALSE]
      [] f \in {"noEph", "sick"} -> [v EXCEPT !.eph = f]
      [] f = "bad" -> [v EXCEPT !.w = 1]
      [] f = "worse" -> [v EXCEPT !.w = 2]
      [] f = "oneBand" -> [v EXCEPT !.bands = {"1"}]

PtSightings == {{3, 4, 5, 1}, {1, 2, 3, 4, 5}, {3, 4, 5, 6}, {1, 2, 3, 7}, {3, 4, 5}}

MCPtEpochs ==
    UNION {{[known |-> k, sats |-> [s \in S |-> WithFault(PtGood(s), IF s = a THEN f ELSE "none")]] :
              k \in BOOLEAN, a \in {1, 3} \cap S, f \in PtFaults} : S \in PtSightings}

-----------------------------------------------------------------------------
(* Three GPS satellites and two of BeiDou, one of them geostationary.  An   *)
(* epoch is a good one with one thing wrong with one or two satellites.     *)

MCRtkSats == 1 .. 5
MCRtkSys == [s \in MCRtkSats |-> IF s <= 2 THEN "C" ELSE "G"]
MCRtkGeo == {1}

MCRtkConfigs ==
    {[minSats |-> 4, useSlip |-> u, useGf |-> TRUE, excludeGeo |-> u, useAR |-> u, common |-> 2, user |-> ~u] :
        u \in BOOLEAN}

RtkGood == [see |-> [t \in Stations |-> [s \in MCRtkSats |-> {"W"}]],
            ev |-> [t \in Stations |-> [s \in MCRtkSats |-> "none"]],
            orbit |-> MCRtkSats, high |-> [s \in MCRtkSats |-> s], ratio |-> TRUE,
            antenna |-> {}, spp |-> Stations]

RtkWrong == {4}

MCRtkEpochs ==
    {RtkGood, [RtkGood EXCEPT !.ratio = FALSE], [RtkGood EXCEPT !.antenna = {"base"}],
     [RtkGood EXCEPT !.antenna = Stations], [RtkGood EXCEPT !.spp = {"rover"}],
     [RtkGood EXCEPT !.orbit = {1, 3, 4}], [RtkGood EXCEPT !.see["rover"][2] = {}],
     [RtkGood EXCEPT !.orbit = {3, 4}]}
    \cup {[RtkGood EXCEPT !.see[t][s] = v] : t \in Stations, s \in RtkWrong, v \in {{}, {"absent"}, {"X"}}}
    \cup {[RtkGood EXCEPT !.ev[t][s] = v] : t \in Stations, s \in RtkWrong,
                                           v \in {"lli", "wild", "far", "jump", "widelane"}}
    \cup {[RtkGood EXCEPT !.ev[t][2] = "jump", !.ev[t][4] = "jump"] : t \in Stations}

-----------------------------------------------------------------------------
(* Two and three ambiguities at tenths of a cycle, half a cycle and zero    *)
(* among them, with strong and weak levels and as much correlation as a     *)
(* reduction leaves.                                                        *)

LamCase(n, z, c, w) ==
    [zs |-> z, W |-> w,
     L |-> [i \in 0 .. n - 1 |-> [j \in 0 .. n - 1 |-> IF i > j THEN c[i + j] ELSE 0]]]

MCLamInputs ==
    {LamCase(2, z, c, w) : z \in [0 .. 1 -> {-16, 0, 4, 20}], c \in [{1} -> {-1, 0, 1}],
                           w \in [0 .. 1 -> {1, 9}]}
    \cup {LamCase(3, z, c, w) : z \in [0 .. 2 -> {4, 20}], c \in [1 .. 3 -> {0, 1}],
                                w \in {(0 :> 1 @@ 1 :> 4 @@ 2 :> 9), (0 :> 9 @@ 1 :> 1 @@ 2 :> 1)}}

MCLamBox == -2 .. 2

-----------------------------------------------------------------------------
VARIABLE component   \* what a behaviour is of

\* What a component that does not run would have for input is of no account.
Of(p, S, c) == IF component = p THEN S ELSE {c}
Fixed(p, v, c) == component # p => v = c
AnyInput == CHOOSE x \in Inputs : TRUE
AnyBaseFile == CHOOSE x \in BaseFiles : TRUE
AnyRoverFile == CHOOSE x \in RoverFiles : TRUE
AnyBaseRinex == CHOOSE x \in BOOLEAN : TRUE
AnyRoverRinex == CHOOSE x \in BOOLEAN : TRUE
AnySampleInterval == CHOOSE x \in Intervals : TRUE
AnyPppConfig == CHOOSE x \in PppConfigs : TRUE
AnyRnxFile == CHOOSE x \in RnxFiles : TRUE
AnyNavFile == CHOOSE x \in NavFiles : TRUE
AnyEphConfig == CHOOSE x \in EphConfigs : TRUE
AnyPtObs == CHOOSE x \in PtEpochs : TRUE
AnyRtkConfig == CHOOSE x \in RtkConfigs : TRUE
AnyLamIn == CHOOSE x \in LamInputs : TRUE

DataInit ==
  /\ component \in {"logs", "dual", "ppp", "rinex", "nav", "eph", "crx",
               "point", "rtk", "lambda"}
  /\ \E of \in Of("logs", Inputs, AnyInput) : LogsStart(of)
  /\ \E b \in Of("dual", BaseFiles, AnyBaseFile),
        r \in Of("dual", RoverFiles, AnyRoverFile),
        bIs \in Of("dual", BOOLEAN, AnyBaseRinex),
        rIs \in Of("dual", BOOLEAN, AnyRoverRinex),
        sampling \in Of("dual", Intervals, AnySampleInterval) :
      DualStart(<<b, r>>, <<bIs, rIs>>, sampling)
  /\ \E of \in Of("ppp", PppConfigs, AnyPppConfig) : PppStart(of)
  /\ \E of \in Of("rinex", RnxFiles, AnyRnxFile) : RnxStart(of)
  /\ \E of \in Of("nav", NavFiles, AnyNavFile) : NavStart(of)
  /\ \E of \in Of("eph", EphConfigs, AnyEphConfig) : EphStart(of)
  /\ \E of \in Of("crx", CrxVersions, 1) : CrxStart(of)
  /\ \E of \in Of("point", PtEpochs, AnyPtObs) : PtStart(of)
  /\ \E of \in Of("rtk", RtkConfigs, AnyRtkConfig) : RtkStart(of)
  /\ \E of \in Of("lambda", LamInputs, AnyLamIn) : LamStart(of)

dataVars == <<component, logsVars, dualVars, pppVars, rnxVars, navVars, ephVars,
              crxVars, ptVars, rtkVars, lamVars>>

LogsStep(A) == component = "logs" /\ A
  /\ UNCHANGED <<component, dualVars, pppVars, rnxVars, navVars, ephVars, crxVars,
                 ptVars, rtkVars, lamVars>>
DualStep(A) == component = "dual" /\ A
  /\ UNCHANGED <<component, logsVars, pppVars, rnxVars, navVars, ephVars, crxVars,
                 ptVars, rtkVars, lamVars>>
PppStep(A) == component = "ppp" /\ A
  /\ UNCHANGED <<component, logsVars, dualVars, rnxVars, navVars, ephVars, crxVars,
                 ptVars, rtkVars, lamVars>>
RinexStep(A) == component = "rinex" /\ A
  /\ UNCHANGED <<component, logsVars, dualVars, pppVars, navVars, ephVars, crxVars,
                 ptVars, rtkVars, lamVars>>
NavStep(A) == component = "nav" /\ A
  /\ UNCHANGED <<component, logsVars, dualVars, pppVars, rnxVars, ephVars, crxVars,
                 ptVars, rtkVars, lamVars>>
EphStep(A) == component = "eph" /\ A
  /\ UNCHANGED <<component, logsVars, dualVars, pppVars, rnxVars, navVars, crxVars,
                 ptVars, rtkVars, lamVars>>
CrxStep(A) == component = "crx" /\ A
  /\ UNCHANGED <<component, logsVars, dualVars, pppVars, rnxVars, navVars, ephVars,
                 ptVars, rtkVars, lamVars>>
PointStep(A) == component = "point" /\ A
  /\ UNCHANGED <<component, logsVars, dualVars, pppVars, rnxVars, navVars, ephVars,
                 crxVars, rtkVars, lamVars>>
RtkStep(A) == component = "rtk" /\ A
  /\ UNCHANGED <<component, logsVars, dualVars, pppVars, rnxVars, navVars, ephVars,
                 crxVars, ptVars, lamVars>>
LambdaStep(A) == component = "lambda" /\ A
  /\ UNCHANGED <<component, logsVars, dualVars, pppVars, rnxVars, navVars, ephVars,
                 crxVars, ptVars, rtkVars>>

DataNext ==
  \/ LogsStep(LogsNext)
  \/ DualStep(DualNext)
  \/ PppStep(PppNext)
  \/ RinexStep(RnxNext)
  \/ NavStep(NavNext)
  \/ EphStep(EphNext)
  \/ CrxStep(CrxNext)
  \/ PointStep(PtNext)
  \/ RtkStep(RtkNext)
  \/ LambdaStep(LamNext)

DataSpec ==
  /\ DataInit /\ [][DataNext]_dataVars

=============================================================================
