------------------------------ MODULE Receiver ------------------------------
(***************************************************************************)
(* Reading a NovAtel receiver: how bytes become messages and messages      *)
(* become epochs.  SocketReader and BinaryReader (src/src/io/novatel) cut   *)
(* the bytes into messages; their base class LogReader merges the RANGE    *)
(* and RANGECMP records of one time stamp into one epoch and derives the   *)
(* loss-of-lock flag from the lock times.  One thread calls getNextEpoch   *)
(* again and again; the only concurrency is the arrival of the bytes.      *)
(*                                                                         *)
(* A cell stands for a few bytes.  A frame is the three sync cells, a      *)
(* header cell that declares the length in cells, and a body; the check    *)
(* sum holds exactly when the cells are those that were sent.              *)
(***************************************************************************)
EXTENDS Naturals, Sequences, SequencesExt, FiniteSetsExt

CONSTANTS
    Inputs,     \* what may be read: [reader, msgs, cells]
    HeadLen,    \* cells up to the end of the header
    MaxFrame    \* the longest frame a socket reader believes in

ASSUME HeadLenAssumption == HeadLen \in Nat /\ HeadLen > 3
ASSUME MaxFrameAssumption == MaxFrame \in Nat /\ MaxFrame >= HeadLen

LogsCells == [b : {"A", "D", "T", "U", "H", "B", "x"}, f : Nat, len : Nat]
LogsSignals == [lock : Nat, code : BOOLEAN, phase : BOOLEAN, parity : BOOLEAN]

IsRecord(m) == m.kind \in {"range", "cmp"}

ASSUME InputsAssumption ==
    \A in \in Inputs :
        /\ in.reader \in {"socket", "binary"}
        /\ in.cells \in Seq(LogsCells)
        /\ Len(in.msgs) \in Nat /\ DOMAIN in.msgs = 1 .. Len(in.msgs)
        /\ \A f \in DOMAIN in.msgs :
              /\ in.msgs[f].len \in Nat /\ in.msgs[f].len >= HeadLen
              /\ IsRecord(in.msgs[f]) =>
                   /\ in.msgs[f].t \in Nat
                   /\ in.msgs[f].obs = [s \in DOMAIN in.msgs[f].obs |-> in.msgs[f].obs[s]]
                   /\ \A s \in DOMAIN in.msgs[f].obs : in.msgs[f].obs[s] \in LogsSignals

VARIABLES
    input,      \* the input of this run
    arrived,    \* cells taken from the socket or the file so far
    connected,  \* SocketClient.connected; a file stays "connected"
    buffer, bufferIndex,
    drained,    \* the last getNextMessage found nothing
    log,        \* the members of LogReader
    got,        \* history: the messages cut out of the bytes, in order
    delivered,  \* history: the epochs getNextEpoch returned, in order
    ended       \* getNextEpoch found nothing and the source is exhausted

logsVars == <<input, arrived, connected, buffer, bufferIndex, drained, log,
          got, delivered, ended>>

Msgs == input.msgs
Left == Len(input.cells) - arrived

-----------------------------------------------------------------------------
(* The wire.                                                               *)

Cell(b, f, len) == [b |-> b, f |-> f, len |-> len]

\* The cells of message f of msgs as the receiver sends them.
Frame(msgs, f) ==
    LET m == msgs[f]
        third == IF m.kind = "imu" THEN "U" ELSE "T"
    IN  <<Cell("A", 0, 0), Cell("D", 0, 0), Cell(third, 0, 0),
          Cell("H", f, m.len)>>
          \o [i \in 1 .. m.len - HeadLen |-> Cell("B", f, 0)]

\* The three sync cells stand behind offset i of buf.
SyncAt(buf, i, third) ==
    /\ i + 3 <= Len(buf)
    /\ buf[i + 1].b = "A" /\ buf[i + 2].b = "D" /\ buf[i + 3].b = third

Declared(buf, i) == buf[i + 4].len

\* crcExam on the declared length: the cells are a frame as it was sent.
CrcOk(buf, i) ==
    LET f == buf[i + 4].f
    IN  /\ f \in DOMAIN Msgs
        /\ SubSeq(buf, i + 1, i + Declared(buf, i)) = Frame(Msgs, f)

HeaderShort(buf, i) == Len(buf) - i < HeadLen
BodyShort(buf, i) == Len(buf) - i < Declared(buf, i)

-----------------------------------------------------------------------------
(* SocketReader::getNextMessage on what the buffer holds: the message      *)
(* found (0 when none), and the buffer and cursor it leaves.               *)

Plausible(buf, i) == Declared(buf, i) \in HeadLen .. MaxFrame

\* The sync pattern at i ends the search: its frame is whole, or not yet.
SocketStops(buf, i) ==
    \/ HeaderShort(buf, i)
    \/ Plausible(buf, i) /\ (BodyShort(buf, i) \/ CrcOk(buf, i))

\* As SocketNothing would be if it dropped all that it has searched.
SplitSyncDropped(buf, idx, syncs) == [msg |-> 0, buf |-> <<>>, idx |-> 0]

\* Nothing can be cut out: skip what was refused, keep a split sync pattern.
SocketNothing(buf, idx, syncs) ==
    LET from == IF syncs = {} THEN idx ELSE Max(syncs) + 1
    IN  IF Len(buf) - from >= 3
          THEN [msg |-> 0, buf |-> SubSeq(buf, Len(buf) - 1, Len(buf)), idx |-> 0]
          ELSE [msg |-> 0, buf |-> buf, idx |-> from]

\* Step over the frame at i; drop the consumed half of the buffer.
SocketCut(buf, i) ==
    LET next == i + Declared(buf, i)
        msg == buf[i + 4].f
    IN  IF next > Len(buf) \div 2
          THEN [msg |-> msg, buf |-> SubSeq(buf, next + 1, Len(buf)), idx |-> 0]
          ELSE [msg |-> msg, buf |-> buf, idx |-> next]

SocketScan(buf, idx) ==
    LET syncs == {i \in idx .. Len(buf) : SyncAt(buf, i, "T")}
        stops == {i \in syncs : SocketStops(buf, i)}
        i == Min(stops)
    IN  IF stops = {} THEN SocketNothing(buf, idx, syncs)
        ELSE IF HeaderShort(buf, i) \/ BodyShort(buf, i)
          THEN [msg |-> 0, buf |-> buf, idx |-> i]
        ELSE SocketCut(buf, i)

-----------------------------------------------------------------------------
(* BinaryReader::getNextMessage: the whole file is in the buffer, the      *)
(* declared length is believed, the check sum is looked at only later.  A  *)
(* message that will fail it is Bad.                                       *)

Bad == Len(Msgs) + 1

BinaryStops(buf, i) ==
    \/ HeaderShort(buf, i)
    \/ SyncAt(buf, i, "U") /\ ~BodyShort(buf, i) /\ CrcOk(buf, i)
    \/ /\ SyncAt(buf, i, "T")
       /\ ~BodyShort(buf, i) /\ Declared(buf, i) >= HeadLen

BinaryScan(buf, idx) ==
    LET syncs == {i \in idx .. Len(buf) : SyncAt(buf, i, "T") \/ SyncAt(buf, i, "U")}
        stops == {i \in syncs : BinaryStops(buf, i)}
        i == Min(stops)
        last == Max(syncs) + 3
    IN  IF stops = {}
          THEN IF syncs # {} /\ Len(buf) - last < 3
                 THEN [msg |-> 0, buf |-> buf, idx |-> last]
               ELSE IF Len(buf) - idx < 3
                 THEN [msg |-> 0, buf |-> buf, idx |-> idx]
               ELSE [msg |-> 0, buf |-> <<>>, idx |-> 0]
        ELSE IF HeaderShort(buf, i) THEN [msg |-> 0, buf |-> buf, idx |-> i]
        ELSE [msg |-> IF CrcOk(buf, i) THEN buf[i + 4].f ELSE Bad,
              buf |-> buf, idx |-> i + Declared(buf, i)]

Scan(buf, idx) ==
    IF input.reader = "socket" THEN SocketScan(buf, idx) ELSE BinaryScan(buf, idx)

-----------------------------------------------------------------------------
(* LogReader.  A value of an epoch is the number of the message it was     *)
(* taken from, 0 when there is none; "from" lists the messages merged.     *)

NoStamp == 0
EmptyObs == [t |-> NoStamp, obs |-> <<>>, lli |-> <<>>, from |-> <<>>]
NoPending == {}     \* std::optional: the empty set or a singleton

LogInit == [cur |-> EmptyObs, pending |-> NoPending, stamp |-> NoStamp,
            prevLock |-> <<>>, curLock |-> <<>>, eph |-> <<>>]

HasObs(epoch) == DOMAIN epoch.obs # {}

\* As BeginEpoch would be if every record began an epoch.
EveryRecordBegins(l, t) ==
    [l EXCEPT !.pending = IF HasObs(l.cur) THEN {l.cur} ELSE @,
              !.cur = [EmptyObs EXCEPT !.t = t], !.stamp = t,
              !.prevLock = l.curLock, !.curLock = <<>>]

\* beginEpoch: a record with another time stamp closes the current epoch.
BeginEpoch(l, t) ==
    IF t = l.stamp THEN l
    ELSE [l EXCEPT
            !.pending = IF HasObs(l.cur) THEN {l.cur} ELSE @,
            !.cur = [EmptyObs EXCEPT !.t = t],
            !.stamp = t,
            !.prevLock = l.curLock,
            !.curLock = <<>>]

\* Where emitObs takes code and phase of one signal from: RANGE overrides,
\* RANGECMP only fills in.
Put(old, f, full) == IF full \/ old = 0 THEN f ELSE old

PutSignal(old, sig, f, full) ==
    [C |-> IF sig.code THEN Put(old.C, f, full) ELSE old.C,
     L |-> Put(old.L, f, full)]

\* The loss-of-lock bits of one signal: 1 the lock time went back since the
\* previous epoch, 2 the parity is unknown.
LockBits(prevLock, s, sig) ==
    {b \in {1, 2} : \/ b = 1 /\ s \in DOMAIN prevLock /\ sig.lock < prevLock[s]
                    \/ b = 2 /\ ~sig.parity}

\* f with the values of g over the domain of g.
Over(f, g) ==
    [s \in DOMAIN f \cup DOMAIN g |-> IF s \in DOMAIN g THEN g[s] ELSE f[s]]

\* emitObs for every signal of message f.
EmitObs(l, f) ==
    LET m == Msgs[f]
        full == m.kind = "range"
        Old(s) == IF s \in DOMAIN l.cur.obs THEN l.cur.obs[s] ELSE [C |-> 0, L |-> 0]
        flagged == {s \in DOMAIN m.obs :
                      m.obs[s].phase /\ LockBits(l.prevLock, s, m.obs[s]) # {}}
        Lock(s) == IF s \in DOMAIN l.curLock THEN Min({l.curLock[s], m.obs[s].lock})
                   ELSE m.obs[s].lock
    IN  [l EXCEPT
           !.cur.obs = Over(@, [s \in DOMAIN m.obs |-> PutSignal(Old(s), m.obs[s], f, full)]),
           !.cur.lli = Over(@, [s \in flagged |-> LockBits(l.prevLock, s, m.obs[s])]),
           !.cur.from = IF m.obs = <<>> THEN @ ELSE Append(@, f),
           !.curLock = Over(@, [s \in DOMAIN m.obs |-> Lock(s)])]

\* storeEph: an ephemeris of the issue already held is ignored, another
\* replaces the one entry of its satellite.
StoreEph(l, f) ==
    LET m == Msgs[f]
    IN  IF m.sat \in DOMAIN l.eph /\ Msgs[l.eph[m.sat]].toe = m.toe THEN l
        ELSE [l EXCEPT !.eph = Over(@, [s \in {m.sat} |-> f])]

\* parseImu, then parseGNSSMessage, on one message.
Parse(l, f) ==
    IF f # Bad /\ IsRecord(Msgs[f]) THEN EmitObs(BeginEpoch(l, Msgs[f].t), f)
    ELSE IF f # Bad /\ Msgs[f].kind = "eph" THEN StoreEph(l, f)
    ELSE l

-----------------------------------------------------------------------------
(* getNextEpoch.  Each action is one turn of its loop; the caller calls it *)
(* again until it returns false with the source exhausted.                 *)

LogsStart(in) ==
    /\ input = in
    /\ arrived = IF input.reader = "socket" THEN 0 ELSE Len(input.cells)
    /\ connected = TRUE
    /\ buffer = IF input.reader = "socket" THEN <<>> ELSE input.cells
    /\ bufferIndex = 0
    /\ drained = FALSE
    /\ log = LogInit
    /\ got = <<>>
    /\ delivered = <<>>
    /\ ended = FALSE

LogsInit == \E in \in Inputs : LogsStart(in)

\* SocketClient::receive: any number of the cells on their way, none when
\* they are late, and the end of the connection when the peer has closed.
Receive(k) ==
    /\ k <= Left
    /\ arrived' = arrived + k
    /\ connected' \in IF Left = 0 /\ input.reader = "socket" THEN {FALSE, connected}
                      ELSE {connected}

\* What the buffer holds once k more cells were received.
Filled(k) == buffer \o SubSeq(input.cells, arrived + 1, arrived + k)

\* A complete epoch is waiting: hand it over before anything is read.
HandPending ==
    /\ ~ended /\ log.pending # NoPending
    /\ \E epoch \in log.pending : delivered' = Append(delivered, epoch)
    /\ log' = [log EXCEPT !.pending = NoPending]
    /\ UNCHANGED <<input, arrived, connected, buffer, bufferIndex, drained, got, ended>>

\* A message is found: parse it and go round the loop.
ReadMessage(k) ==
    /\ ~ended /\ log.pending = NoPending
    /\ LET r == Scan(Filled(k), bufferIndex)
       IN  /\ r.msg # 0
           /\ buffer' = r.buf /\ bufferIndex' = r.idx
           /\ log' = Parse(log, r.msg)
           /\ got' = Append(got, r.msg)
    /\ drained' = FALSE
    /\ Receive(k)
    /\ UNCHANGED <<input, delivered, ended>>

\* No message: hand over what has been collected, or return false.  The
\* moved-from epoch keeps its time stamp.
FindNothing(k) ==
    /\ ~ended /\ log.pending = NoPending
    /\ LET r == Scan(Filled(k), bufferIndex)
       IN  r.msg = 0 /\ buffer' = r.buf /\ bufferIndex' = r.idx
    /\ drained' = TRUE
    /\ Receive(k)
    /\ IF HasObs(log.cur)
         THEN /\ delivered' = Append(delivered, log.cur)
              /\ log' = [log EXCEPT !.cur = [EmptyObs EXCEPT !.t = log.cur.t]]
              /\ ended' = FALSE
         ELSE /\ ended' = (~connected' \/ input.reader = "binary")
              /\ UNCHANGED <<delivered, log>>
    /\ UNCHANGED <<input, got>>

LogsNext ==
    \/ HandPending
    \/ \E k \in 0 .. Left : ReadMessage(k) \/ FindNothing(k)

LogsSpec == LogsInit /\ [][LogsNext]_logsVars

-----------------------------------------------------------------------------
(* What reading a receiver must guarantee.                                 *)

\* Every variable stays in its range.
ReceiverTypeOK ==
    /\ input.reader \in {"socket", "binary"}
    /\ arrived \in 0 .. Len(input.cells)
    /\ connected \in BOOLEAN /\ drained \in BOOLEAN /\ ended \in BOOLEAN
    /\ bufferIndex \in 0 .. Len(buffer)
    /\ Range(got) \subseteq 1 .. Bad
    /\ Cardinality(log.pending) <= 1

\* The frames of a byte string from place i on, read from left to right in one
\* piece: a whole frame is taken, a frame that may still arrive ends the search.
FramesFrom(cells, place) ==
    LET from[i \in 0 .. Len(cells)] ==
          IF i = Len(cells) THEN <<>>
          ELSE IF ~SyncAt(cells, i, "T") THEN from[i + 1]
          ELSE IF HeaderShort(cells, i) THEN <<>>
          ELSE IF ~Plausible(cells, i) THEN from[i + 1]
          ELSE IF BodyShort(cells, i) THEN <<>>
          ELSE IF CrcOk(cells, i)
            THEN <<cells[i + 4].f>> \o from[i + Declared(cells, i)]
          ELSE from[i + 1]
    IN  from[place]

FramesOf(cells) == FramesFrom(cells, 0)

\* However the bytes are split over the reads, and whatever damage lies
\* between the frames, a drained socket reader has cut out exactly the
\* frames of the bytes received so far (the erasing and resynchronising of
\* SocketReader::getNextMessage loses and repeats nothing).
ChunksDoNotMatter ==
    drained /\ input.reader = "socket"
        => got = FramesOf(SubSeq(input.cells, 1, arrived))

IsObs(f) == f # Bad /\ IsRecord(Msgs[f]) /\ Msgs[f].obs # <<>>

\* The observation records among the messages read, in order.
ObsOf(msgs) ==
    LET upto[k \in 0 .. Len(msgs)] ==
          IF k = 0 THEN <<>>
          ELSE IF IsObs(msgs[k]) THEN Append(upto[k - 1], msgs[k]) ELSE upto[k - 1]
    IN  upto[Len(msgs)]

\* The records merged into the epochs, in order.
Merged(epochs) ==
    LET upto[k \in 0 .. Len(epochs)] ==
          IF k = 0 THEN <<>> ELSE upto[k - 1] \o epochs[k].from
    IN  upto[Len(epochs)]

\* When reading ends, every observation record that was read is in one
\* delivered epoch, none twice and none out of order: the epoch begun last
\* and the one that waits in mPending are not forgotten.
NoRecordLost == ended => Merged(delivered) = ObsOf(got)

\* A value taken from one of the messages of "from": the last of the full ones
\* that have it, without any the first of the compressed ones, else none.
ValueFrom(from, full, cmp) ==
    IF full # {} THEN from[Max(full)] ELSE IF cmp # {} THEN from[Min(cmp)] ELSE 0

\* The places in "from" of the records of a kind that have signal s, and its code.
With(from, kind, s) == {i \in DOMAIN from : Msgs[from[i]].kind = kind /\ s \in DOMAIN Msgs[from[i]].obs}
WithCode(from, kind, s) == {i \in With(from, kind, s) : Msgs[from[i]].obs[s].code}

\* In a delivered epoch all records have its time stamp, and each value
\* comes from the last RANGE record that gives it, from the first RANGECMP
\* record only when no RANGE record does, in whichever order they came
\* (the precedence emitObs promises).
RangeBeforeCompressed ==
    \A e \in Range(delivered) :
        /\ \A f \in Range(e.from) : Msgs[f].t = e.t
        /\ \A s \in DOMAIN e.obs :
             /\ e.obs[s].C = ValueFrom(e.from, WithCode(e.from, "range", s), WithCode(e.from, "cmp", s))
             /\ e.obs[s].L = ValueFrom(e.from, With(e.from, "range", s), With(e.from, "cmp", s))

\* A frame stands whole and undamaged behind place x of the cells.
FrameAt(cells, x) == ~HeaderShort(cells, x) /\ ~BodyShort(cells, x) /\ CrcOk(cells, x)

\* A receiver sends its observation records in the order of their time stamps.
RecordsInOrder ==
    LET cells == input.cells
        recordAt == {x \in 0 .. Len(cells) : FrameAt(cells, x) /\ IsRecord(Msgs[cells[x + 4].f])}
    IN  \A x, y \in recordAt :
           x < y => Msgs[cells[x + 4].f].t <= Msgs[cells[y + 4].f].t

\* The places of the records among the first n of these messages, and their times.
RecordsOf(msgs, n) == {i \in 1 .. n : msgs[i] # Bad /\ IsRecord(Msgs[msgs[i]])}
TimeOf(msgs, i) == Msgs[msgs[i]].t

\* The records of the time stamp read just before that of message msgs[n].
StampBefore(msgs, n) ==
    LET older == {i \in RecordsOf(msgs, n) : TimeOf(msgs, i) # TimeOf(msgs, n)}
    IN  IF older = {} THEN {}
        ELSE {msgs[i] : i \in {j \in RecordsOf(msgs, n) :
                                 TimeOf(msgs, j) = TimeOf(msgs, Max(older))}}

\* Signal s of message msgs[n] has locked phase, but a lower lock time than any
\* record of the time stamp before.
Slipped(msgs, n, s) ==
    LET sig == Msgs[msgs[n]].obs[s]
        before == {Msgs[f].obs[s].lock :
                     f \in {g \in StampBefore(msgs, n) : s \in DOMAIN Msgs[g].obs}}
    IN  sig.phase /\ before # {} /\ \A c \in before : sig.lock < c

\* A satellite whose lock time went back between two consecutive time
\* stamps while its phase is locked carries a loss-of-lock flag in the epoch
\* it is delivered with, whichever of the records of the two stamps showed
\* it (mPrevLock and mCurLock across RANGE, RANGECMP and early hand-overs).
SlipFlagged ==
    \A n \in DOMAIN got :
        IsObs(got[n]) =>
          \A s \in DOMAIN Msgs[got[n]].obs :
            Slipped(got, n, s) =>
              \A e \in Range(delivered) : got[n] \in Range(e.from) => s \in DOMAIN e.lli

\* No two delivered epochs have one time stamp (LogReader.cpp:231).
OneEpochPerStamp ==
    \A i, j \in DOMAIN delivered : i < j => delivered[i].t # delivered[j].t

\* A file, which is never drained before its end, gives one epoch a stamp.
FileOneEpochPerStamp == input.reader = "binary" => OneEpochPerStamp

\* What reaches the solver does not depend on where reads end, and no observation
\* of an intact frame is missing from it.
LogIsDelivered == ChunksDoNotMatter /\ NoRecordLost

\* Epochs are well formed: one of a time stamp in a file, the full record before
\* the compressed one, and a loss of lock flagged.
EpochsAreSound == FileOneEpochPerStamp /\ RangeBeforeCompressed /\ SlipFlagged

=============================================================================
