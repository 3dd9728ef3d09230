----------------------------- MODULE LiveProofs -----------------------------
(***************************************************************************)
(* What the windows show of the threads behind them: a realtime session,   *)
(* the quality tab, a reference, the inertial tools and the downloads, for *)
(* any limits and any number of runs, epochs, files and requests.          *)
(*                                                                         *)
(* Realtime: what is shown and which sockets are held is of the connection *)
(* as it is; a session that is over is reported and has ended its views.   *)
(* QualityView: a report never gives way to an older one, which rests on   *)
(* what the one worker still holds in its hand.                            *)
(* RefTruth: a reference stays as it was found or typed, and its axes are  *)
(* of one solution as long as no transfer broke off.                       *)
(* InsRun: what an inertial tool shows and exports is of the last run      *)
(* begun, and a result that is there is made of whole files.               *)
(* Remote: the counters the panels show agree with what became of the      *)
(* requests.  The GUI and every worker change them, each at one point of a *)
(* request's way, so the invariant says what each counts: dlActiveCount    *)
(* the requests from enqueue to CountDown, dlDone those that are over, and *)
(* dlQueue holds each waiting one once.                                    *)
(***************************************************************************)
EXTENDS Realtime, QualityView, RefTruth, InsRun, Remote, FiniteSetTheorems, TLAPS

USE RealtimeAssumption, QualityAssumption, RefAssumption

-----------------------------------------------------------------------------
(* Realtime. *)

Pcs == {"config", "loop", "connect", "pump", "close", "broken", "caught",
        "retry", "finish", "leave", "over"}
Errors == {"none", "connect", "broken", "stall", "exception", "cancelled"}
Feeds == {"refuse", "silent", "logs", "epochs"}
IdleTop == IF IdleLimit > StaleLimit THEN IdleLimit + 1 ELSE StaleLimit + 1

\* A stall is what the pair pump reports; SPP has no such warning, though its clock
\* of solutions is reset at any epoch.
StallIsOfPairs == error = "stall" => mode = "rtk"

\* What the end of the session leaves to be said, once it is on its way out.
EndIsSaid ==
  /\ linkPc \in {"leave", "over"} =>
       /\ Views \ {"rover"} \subseteq qcEnded
       /\ mode # "other" => done /\ ~loading
  /\ linkPc = "over" => "rover" \in qcEnded
  /\ mode = "other" => linkPc \in {"config", "leave", "over"}

\* A session that is over has ended the input of every view, and has told the task so.
SessionEndsInOrder ==
  linkPc = "over" => qcEnded = Views /\ (mode # "other" => done /\ ~loading)

LinkIInv == LinkTypeOK /\ ErrorIsCurrent /\ SocketsReleased /\ StallIsOfPairs /\ EndIsSaid

\* The type invariant, in the parts the steps change.
WhereTyped == /\ mode \in Modes /\ linkPc \in Pcs /\ linkAt \in {"top", "base", "rover", "pair"}
              /\ error \in Errors
SocketsTyped == /\ link \in [Streams -> Feeds]
                /\ conn \subseteq open /\ open \subseteq Used /\ held \subseteq Used
                /\ qcEnded \subseteq Views
ClocksTyped == /\ linkIdle \in [Streams -> 0 .. IdleTop]
               /\ age \in 0 .. StallReopen + 1 /\ warnAge \in 0 .. WarnPause + 1
FlagsTyped == /\ stallWarned \in BOOLEAN /\ stop \in BOOLEAN /\ cancelling \in BOOLEAN
              /\ loading \in BOOLEAN /\ done \in BOOLEAN

LEMMA LinkTypes == LinkTypeOK <=> WhereTyped /\ SocketsTyped /\ ClocksTyped /\ FlagsTyped
BY DEF LinkTypeOK, WhereTyped, SocketsTyped, ClocksTyped, FlagsTyped, Pcs, Errors, Feeds, IdleTop

LEMMA LinkTypesNext ==
  WhereTyped' /\ SocketsTyped' /\ ClocksTyped' /\ FlagsTyped' => LinkTypeOK'
BY DEF LinkTypeOK, WhereTyped, SocketsTyped, ClocksTyped, FlagsTyped, Pcs, Errors, Feeds, IdleTop

\* A clock stops one tick past its limit.
LEMMA BumpStops ==
  ASSUME NEW limit \in Nat, NEW top \in Nat, limit < top, NEW n \in 0 .. top
  PROVE  Bump(n, limit) \in 0 .. top /\ Bump(n, limit) >= n
BY DEF Bump

LEMMA FlagStep ==
  ASSUME FlagsTyped
  PROVE  /\ Start \/ Stop \/ CancelMessage \/ Tick => FlagsTyped'
         /\ (\E s \in Streams : LinkChange(s)) => FlagsTyped'
         /\ Session => FlagsTyped'
<1> USE DEF FlagsTyped, task, clocks
<1>1. Start \/ Stop \/ CancelMessage \/ Tick \/ (\E s \in Streams : LinkChange(s)) => FlagsTyped'
    BY Zenon DEF Start, Stop, CancelMessage, Tick, LinkChange
<1>2. Loop \/ ConnectFail \/ ConnectOk \/ PumpStopped \/ PumpBroken \/ Caught
        \/ Retry \/ Finish \/ Leave => FlagsTyped'
    BY Zenon DEF Loop, ConnectFail, ConnectOk, PumpStopped, PumpBroken, Caught, Retry, Finish,
                 Leave, Go
<1>3. PumpTop \/ PumpWait \/ SppStop \/ SppEpoch \/ SppNothing \/ SppThrows => FlagsTyped'
    BY Zenon DEF PumpTop, PumpWait, SppStop, SppEpoch, SppNothing, SppThrows, PumpKeeps
<1>4. Attempt => FlagsTyped'
    BY Zenon DEF Attempt, PumpKeeps
<1>5. (\E s \in Streams : PollSkipped(s) \/ PollEpoch(s) \/ PollNothing(s) \/ PollThrows(s))
        => FlagsTyped'
    BY Zenon DEF PollSkipped, PollEpoch, PollNothing, PollThrows, PumpKeeps
<1>6. QED
    BY <1>1, <1>2, <1>3, <1>4, <1>5 DEF Session

\* Around the session.
LEMMA OutsideKeeps ==
  ASSUME LinkIInv,
         Start \/ Stop \/ CancelMessage \/ Tick \/ Over \/ (\E s \in Streams : LinkChange(s))
  PROVE  LinkIInv'
<1> USE DEF clocks, task
<1>0. WhereTyped /\ SocketsTyped /\ ClocksTyped /\ FlagsTyped
    BY LinkTypes DEF LinkIInv
<1>i. ErrorIsCurrent /\ SocketsReleased /\ StallIsOfPairs /\ EndIsSaid
    BY DEF LinkIInv
<1> USE DEF LinkIInv, ErrorIsCurrent, SocketsReleased, StallIsOfPairs, EndIsSaid, Used, Views
<1>1. CASE Start
  <2>1. WhereTyped' /\ SocketsTyped' /\ ClocksTyped'
      BY <1>0, <1>1 DEF Start, WhereTyped, SocketsTyped, ClocksTyped, Pcs, Errors
  <2>2. FlagsTyped'
      BY <1>0, <1>1, FlagStep
  <2>3. (ErrorIsCurrent /\ SocketsReleased /\ StallIsOfPairs /\ EndIsSaid)'
      BY <1>i, <1>0, <1>1 DEF Start
  <2>4. QED
      BY <2>1, <2>2, <2>3, LinkTypesNext
<1>2. CASE Stop
  <2>1. WhereTyped' /\ SocketsTyped' /\ ClocksTyped'
      BY <1>0, <1>2 DEF Stop, WhereTyped, SocketsTyped, ClocksTyped
  <2>2. FlagsTyped'
      BY <1>0, <1>2, FlagStep
  <2>3. (ErrorIsCurrent /\ SocketsReleased /\ StallIsOfPairs /\ EndIsSaid)'
      BY <1>i, <1>2 DEF Stop
  <2>4. QED
      BY <2>1, <2>2, <2>3, LinkTypesNext
<1>3. CASE CancelMessage
  <2>1. WhereTyped' /\ SocketsTyped' /\ ClocksTyped'
      BY <1>0, <1>3 DEF CancelMessage, WhereTyped, SocketsTyped, ClocksTyped, Errors
  <2>2. FlagsTyped'
      BY <1>0, <1>3, FlagStep
  <2>3. (ErrorIsCurrent /\ SocketsReleased /\ StallIsOfPairs /\ EndIsSaid)'
      BY <1>i, <1>3 DEF CancelMessage
  <2>4. QED
      BY <2>1, <2>2, <2>3, LinkTypesNext
<1>4. CASE Tick
  <2>1. age' \in 0 .. StallReopen + 1 /\ age' >= age
      BY <1>0, <1>4, BumpStops DEF Tick, ClocksTyped
  <2>2. warnAge' \in 0 .. WarnPause + 1
      BY <1>0, <1>4, BumpStops DEF Tick, ClocksTyped
  <2>3. linkIdle' \in [Streams -> 0 .. IdleTop]
    <3>1. IdleTop \in Nat /\ IdleLimit < IdleTop /\ StaleLimit < IdleTop
        BY DEF IdleTop
    <3> HIDE DEF IdleTop
    <3>2. \A n \in 0 .. IdleTop :
            Bump(n, IF mode = "rtk" THEN IdleLimit ELSE StaleLimit) \in 0 .. IdleTop
        BY <3>1, BumpStops
    <3>3. QED
        BY <1>0, <1>4, <3>2 DEF Tick, ClocksTyped
  <2>4. WhereTyped' /\ SocketsTyped' /\ ClocksTyped'
      BY <1>0, <1>4, <2>1, <2>2, <2>3 DEF Tick, WhereTyped, SocketsTyped, ClocksTyped
  <2>5. FlagsTyped'
      BY <1>0, <1>4, FlagStep
  <2>6. ErrorIsCurrent'
      BY <1>0, <1>i, <1>4, <2>1 DEF Tick, ClocksTyped
  <2>7. (SocketsReleased /\ StallIsOfPairs /\ EndIsSaid)'
      BY <1>i, <1>4 DEF Tick
  <2>8. QED
      BY <2>4, <2>5, <2>6, <2>7, LinkTypesNext
<1>5. CASE Over
  BY <1>5 DEF Over, linkVars, LinkTypeOK
<1>6. ASSUME NEW s \in Streams, LinkChange(s) PROVE LinkIInv'
  <2>1. WhereTyped' /\ SocketsTyped' /\ ClocksTyped'
      BY <1>0, <1>6 DEF LinkChange, WhereTyped, SocketsTyped, ClocksTyped, Feeds
  <2>2. FlagsTyped'
      BY <1>0, <1>6, FlagStep
  <2>3. (ErrorIsCurrent /\ SocketsReleased /\ StallIsOfPairs /\ EndIsSaid)'
      BY <1>i, <1>6 DEF LinkChange
  <2>4. QED
      BY <2>1, <2>2, <2>3, LinkTypesNext
<1>7. QED
    BY <1>1, <1>2, <1>3, <1>4, <1>5, <1>6

\* Session::run: connecting, letting go, retrying, ending.
RunStep == Loop \/ ConnectFail \/ ConnectOk \/ PumpStopped \/ PumpBroken \/ Caught
             \/ Retry \/ Finish \/ Leave

LEMMA RunKeeps ==
  ASSUME LinkIInv, RunStep
  PROVE  LinkIInv'
<1> USE DEF clocks, task
<1>0. WhereTyped /\ SocketsTyped /\ ClocksTyped /\ FlagsTyped
    BY LinkTypes DEF LinkIInv
<1>i. ErrorIsCurrent /\ SocketsReleased /\ StallIsOfPairs /\ EndIsSaid
    BY DEF LinkIInv
<1>f. FlagsTyped'
    BY <1>0, FlagStep DEF RunStep, Session
<1> USE DEF ErrorIsCurrent, SocketsReleased, StallIsOfPairs, EndIsSaid, Used, Views
<1> SUFFICES WhereTyped' /\ SocketsTyped' /\ ClocksTyped'
             /\ (ErrorIsCurrent /\ SocketsReleased /\ StallIsOfPairs /\ EndIsSaid)'
    BY <1>f, LinkTypesNext DEF LinkIInv
<1>1. CASE Loop
  BY <1>0, <1>i, <1>1 DEF Loop, Go, WhereTyped, SocketsTyped, ClocksTyped, Pcs
<1>2. CASE ConnectFail
  BY <1>0, <1>i, <1>2 DEF ConnectFail, Go, WhereTyped, SocketsTyped, ClocksTyped, Pcs, Errors
<1>3. CASE ConnectOk
  <2>1. ClocksTyped'
      BY <1>3 DEF ConnectOk, ClocksTyped, IdleTop
  <2>2. WhereTyped' /\ SocketsTyped'
      BY <1>0, <1>3 DEF ConnectOk, WhereTyped, SocketsTyped, Pcs, Errors
  <2>3. QED
      BY <1>i, <1>3, <2>1, <2>2 DEF ConnectOk
<1>4. CASE PumpStopped
  BY <1>0, <1>i, <1>4 DEF PumpStopped, CloseAll, Go, WhereTyped, SocketsTyped, ClocksTyped, Pcs
<1>5. CASE PumpBroken
  <2>1. SocketsTyped' /\ ClocksTyped'
      BY <1>0, <1>5 DEF PumpBroken, CloseAll, SocketsTyped, ClocksTyped
  <2>2. WhereTyped'
      BY <1>0, <1>5 DEF PumpBroken, WhereTyped, Pcs, Errors
  <2>3. QED
      BY <1>i, <1>5, <2>1, <2>2 DEF PumpBroken, CloseAll
<1>6. CASE Caught
  BY <1>0, <1>i, <1>6 DEF Caught, CloseAll, Go, WhereTyped, SocketsTyped, ClocksTyped, Pcs, Errors
<1>7. CASE Retry
  BY <1>0, <1>i, <1>7 DEF Retry, Go, WhereTyped, SocketsTyped, ClocksTyped, Pcs
<1>8. CASE Finish
  BY <1>0, <1>i, <1>8 DEF Finish, Go, WhereTyped, SocketsTyped, ClocksTyped, Pcs
<1>9. CASE Leave
  <2>1. WhereTyped' /\ SocketsTyped' /\ ClocksTyped'
      BY <1>0, <1>9 DEF Leave, Go, WhereTyped, SocketsTyped, ClocksTyped, Pcs, Streams
  <2>2. (ErrorIsCurrent /\ SocketsReleased /\ StallIsOfPairs)'
      BY <1>i, <1>9 DEF Leave, Go
  <2>3. EndIsSaid'
      BY <1>i, <1>9 DEF Leave, Go
  <2>4. QED
      BY <2>1, <2>2, <2>3
<1>10. QED
    BY <1>1, <1>2, <1>3, <1>4, <1>5, <1>6, <1>7, <1>8, <1>9 DEF RunStep

\* Pumping, whichever way, keeps the sockets and the end; what it shows is left to prove.
LEMMA PumpKeepsRest ==
  ASSUME LinkIInv, PumpKeeps, linkPc = "pump", linkPc' \in {"pump", "close", "broken", "caught"},
         linkAt' \in {"top", "base", "rover", "pair"}, error' \in Errors,
         conn' \subseteq conn, held' \subseteq Used, ClocksTyped', FlagsTyped',
         ErrorIsCurrent', StallIsOfPairs'
  PROVE  LinkIInv'
<1>0. WhereTyped /\ SocketsTyped /\ EndIsSaid
    BY LinkTypes DEF LinkIInv
<1>1. WhereTyped'
    BY <1>0 DEF WhereTyped, PumpKeeps, Pcs
<1>2. SocketsTyped'
    BY <1>0 DEF SocketsTyped, PumpKeeps, Used, Views
<1>3. SocketsReleased' /\ EndIsSaid'
    BY <1>0 DEF SocketsReleased, EndIsSaid, PumpKeeps
<1>4. QED
    BY <1>1, <1>2, <1>3, LinkTypesNext DEF LinkIInv

RtkPumpStep == \/ PumpTop \/ PumpWait
               \/ \E s \in Streams : PollSkipped(s) \/ PollEpoch(s) \/ PollNothing(s) \/ PollThrows(s)

SppPumpStep == SppStop \/ SppEpoch \/ SppNothing \/ SppThrows

\* Such a step ends the pump or goes on, and only SPP has its age reset without a word.
PumpStays == /\ PumpKeeps /\ linkPc = "pump" /\ linkPc' \in {"pump", "close", "broken", "caught"}
             /\ linkAt' \in {"top", "base", "rover", "pair"} /\ error' = error
             /\ conn' \subseteq conn /\ held' \subseteq Used
             /\ stallWarned' = stallWarned /\ warnAge' = warnAge
             /\ age' = age \/ (mode = "spp" /\ age' = 0)
             /\ linkIdle' \in [Streams -> 0 .. IdleTop]

\* One step of either pump that solves nothing leaves the error as it is.
LEMMA PumpKeepsAll ==
  ASSUME LinkIInv, RtkPumpStep \/ SppPumpStep
  PROVE  LinkIInv'
<1> USE DEF clocks
<1>0. WhereTyped /\ SocketsTyped /\ ClocksTyped
    BY LinkTypes DEF LinkIInv
<1>i. ErrorIsCurrent /\ StallIsOfPairs
    BY DEF LinkIInv
<1>f. FlagsTyped'
    BY FlagStep, LinkTypes DEF LinkIInv, RtkPumpStep, SppPumpStep, Session
<1>z. 0 \in 0 .. IdleTop /\ 0 \in 0 .. StallReopen + 1
    BY DEF IdleTop
<1>1. PumpStays
  <2> USE DEF PumpStays, Pumping, WhereTyped, SocketsTyped, ClocksTyped
  <2>1. CASE PumpTop
      BY <1>0, <2>1 DEF PumpTop
  <2>2. CASE PumpWait
      BY <1>0, <2>2 DEF PumpWait
  <2>3. ASSUME NEW s \in Streams, PollSkipped(s) PROVE PumpStays
      BY <1>0, <2>3 DEF PollSkipped, After
  <2>4. ASSUME NEW s \in Streams, PollEpoch(s) PROVE PumpStays
      BY <1>0, <1>z, <2>4 DEF PollEpoch, After, Used, Streams
  <2>5. ASSUME NEW s \in Streams, PollNothing(s) PROVE PumpStays
      BY <1>0, <2>5 DEF PollNothing, After
  <2>6. ASSUME NEW s \in Streams, PollThrows(s) PROVE PumpStays
      BY <1>0, <2>6 DEF PollThrows
  <2>7. CASE SppStop
      BY <1>0, <2>7 DEF SppStop
  <2>8. CASE SppEpoch
      BY <1>0, <1>z, <2>8 DEF SppEpoch, Streams
  <2>9. CASE SppNothing
    <3> DEFINE quiet == IF Heard(link["rover"]) THEN 0 ELSE linkIdle["rover"]
    <3>1. quiet \in 0 .. IdleTop
        BY <1>0, <1>z DEF Streams
    <3>2. linkIdle' = [linkIdle EXCEPT !["rover"] = quiet]
        BY <2>9 DEF SppNothing
    <3> HIDE DEF quiet
    <3>3. linkIdle' \in [Streams -> 0 .. IdleTop]
        BY <1>0, <3>1, <3>2
    <3>4. QED
        BY <1>0, <2>9, <3>3 DEF SppNothing
  <2>10. CASE SppThrows
      BY <1>0, <1>z, <2>10 DEF SppThrows, Streams
  <2>11. QED
      BY <2>1, <2>2, <2>3, <2>4, <2>5, <2>6, <2>7, <2>8, <2>9, <2>10 DEF RtkPumpStep, SppPumpStep
<1>2. ClocksTyped'
    BY <1>0, <1>1, <1>z DEF PumpStays, ClocksTyped
<1>3. ErrorIsCurrent' /\ StallIsOfPairs'
    BY <1>i, <1>1 DEF PumpStays, PumpKeeps, ErrorIsCurrent, StallIsOfPairs
<1>4. error' \in Errors
    BY <1>0, <1>1 DEF PumpStays, WhereTyped
<1>5. QED
    BY <1>1, <1>2, <1>3, <1>4, <1>f, PumpKeepsRest DEF PumpStays

\* A pair is attempted: a stall is reported while it lasts, and taken back when it ends.
LEMMA AttemptKeeps ==
  ASSUME LinkIInv, Attempt
  PROVE  LinkIInv'
<1>0. WhereTyped /\ SocketsTyped /\ ClocksTyped
    BY LinkTypes DEF LinkIInv
<1>f. FlagsTyped'
    BY FlagStep, LinkTypes DEF LinkIInv, Session
<1>1. PumpKeeps /\ mode = "rtk" /\ linkPc = "pump" /\ conn' = conn
    BY DEF Attempt, Pumping
<1>2. CASE stop
  <2>1. /\ linkPc' = "close" /\ linkAt' = linkAt /\ held' = held /\ error' = error
        /\ UNCHANGED clocks
      BY <1>2 DEF Attempt
  <2>2. ClocksTyped'
      BY <1>0, <2>1 DEF ClocksTyped, clocks
  <2>3. ErrorIsCurrent' /\ StallIsOfPairs'
      BY <1>1, <2>1 DEF LinkIInv, ErrorIsCurrent, StallIsOfPairs, PumpKeeps
  <2>4. QED
      BY <1>0, <1>1, <1>f, <2>1, <2>2, <2>3, PumpKeepsRest DEF WhereTyped, SocketsTyped
<1>3. CASE ~stop
  <2> DEFINE warned == stallWarned \/ WarnDue
             err == IF WarnDue THEN "stall" ELSE error
  <2>1. PICK o \in Outcomes :
          /\ held' = CASE o = "advanceBase" -> {"rover"}
                       [] o = "advanceRover" -> {"base"}
                       [] OTHER -> {}
          /\ stallWarned' = (warned /\ o # "solved")
          /\ error' = ErrorAfter(o, warned, err)
          /\ age' = IF o = "solved" THEN 0 ELSE age
          /\ warnAge' = IF WarnDue THEN 0 ELSE warnAge
          /\ linkIdle' = [s \in Streams |-> IF s \in held' THEN linkIdle[s] ELSE 0]
          /\ linkAt' = "top" /\ UNCHANGED linkPc
      BY <1>3 DEF Attempt
  <2>2. held' \subseteq Used
      BY <1>1, <2>1 DEF Used, Streams
  <2>3. ClocksTyped'
    <3>1. age' \in 0 .. StallReopen + 1 /\ warnAge' \in 0 .. WarnPause + 1
        BY <1>0, <2>1 DEF ClocksTyped
    <3>2. linkIdle' \in [Streams -> 0 .. IdleTop]
        BY <1>0, <2>1 DEF ClocksTyped, IdleTop
    <3>3. QED
        BY <3>1, <3>2 DEF ClocksTyped
  <2>4. error' \in Errors
      BY <1>0, <2>1 DEF ErrorAfter, WhereTyped, Errors
  <2>5. error = "stall" => stallWarned /\ age > StallWarn
      BY <1>1 DEF LinkIInv, ErrorIsCurrent
  <2>6. err = "stall" => warned /\ age > StallWarn
      BY <2>5 DEF WarnDue
  <2>7. error \in {"none", "stall", "cancelled"}
      BY <1>1 DEF LinkIInv, ErrorIsCurrent
  <2>8. error' = "stall" => o # "solved" /\ stallWarned' /\ age' > StallWarn
    <3> HIDE DEF warned, err
    <3>1. QED
        BY <2>1, <2>6 DEF ErrorAfter
  <2>9. error' \in {"none", "stall", "cancelled"}
      BY <2>1, <2>7 DEF ErrorAfter
  <2>10. ErrorIsCurrent' /\ StallIsOfPairs'
      BY <1>1, <2>8, <2>9 DEF ErrorIsCurrent, StallIsOfPairs, PumpKeeps
  <2>11. QED
      BY <1>1, <1>f, <2>1, <2>2, <2>3, <2>4, <2>10, PumpKeepsRest
<1>4. QED
    BY <1>2, <1>3

\* Whatever the receivers, the user and the limits do: the error shown while epochs are
\* pumped is of this connection, and no socket outlives its pump.
THEOREM LinkInvariant == LinkSpec => []LinkIInv
<1>1. LinkInit => LinkIInv
  <2> SUFFICES ASSUME LinkInit PROVE LinkIInv
      OBVIOUS
  <2>0. FlagsTyped
      BY Zenon DEF LinkInit, FlagsTyped
  <2>1. ClocksTyped
      BY DEF LinkInit, ClocksTyped, IdleTop
  <2>2. WhereTyped /\ SocketsTyped
      BY DEF LinkInit, WhereTyped, SocketsTyped, Pcs, Errors, Feeds
  <2>3. ErrorIsCurrent /\ SocketsReleased /\ StallIsOfPairs /\ EndIsSaid
      BY DEF LinkInit, ErrorIsCurrent, SocketsReleased, StallIsOfPairs, EndIsSaid
  <2>4. QED
      BY <2>0, <2>1, <2>2, <2>3, LinkTypes DEF LinkIInv
<1>2. LinkIInv /\ [LinkNext]_linkVars => LinkIInv'
  <2> SUFFICES ASSUME LinkIInv, [LinkNext]_linkVars PROVE LinkIInv'
      OBVIOUS
  <2>1. CASE LinkNext
      BY <2>1, OutsideKeeps, RunKeeps, PumpKeepsAll, AttemptKeeps
         DEF LinkNext, Session, RunStep, RtkPumpStep, SppPumpStep
  <2>2. CASE UNCHANGED linkVars
      BY <2>2 DEF linkVars, LinkIInv, LinkTypeOK, ErrorIsCurrent, SocketsReleased,
                  StallIsOfPairs, EndIsSaid, Used, Views
  <2>3. QED
      BY <2>1, <2>2
<1>3. QED
    BY <1>1, <1>2, PTL DEF LinkSpec

\* What a session shows and holds is of the link as it is now.
THEOREM LinkIsToldAlways == LinkSpec => []LinkIsTold
<1>1. LinkIInv => LinkIsTold
    BY DEF LinkIInv, LinkIsTold
<1>2. QED
    BY <1>1, LinkInvariant, PTL

\* A session that is over has ended the input of every view it fed, and the task it
\* ran for is done; a mode that has no session is what gnss.ini lets one start all the same.
THEOREM SessionsEndInOrder == LinkSpec => []SessionEndsInOrder
<1>1. LinkIInv => SessionEndsInOrder
    BY DEF LinkIInv, LinkTypeOK, EndIsSaid, SessionEndsInOrder, Views, Used
<1>2. QED
    BY <1>1, LinkInvariant, PTL

-----------------------------------------------------------------------------
(* QualityView. *)

\* A record of the stream that is not of the future.
Past(r) == r.run <= run /\ (r.run = run => r.fed <= fed)

\* What the worker is about to store is no older than what is there to be replaced; a
\* worker of the last run finds no report of this one, as its successor has to join it.
HandIsNewer ==
  worker = "store" /\ qcReport.run = run => snapshot.run = run /\ snapshot.fed >= qcReport.fed

\* The reports are dropped only once the task has been started.
ResetIsOfRun == frame = "reset" => run > 0

ViewIInv == TypeOK /\ Past(snapshot) /\ Past(qcReport) /\ HandIsNewer /\ ResetIsOfRun

LEMMA ReportFields ==
  ASSUME TypeOK
  PROVE  /\ run \in Nat /\ fed \in Nat
         /\ snapshot.run \in Nat /\ snapshot.fed \in Nat
         /\ qcReport.run \in Nat /\ qcReport.fed \in Nat
BY DEF TypeOK, Reports

\* The tab keeps its types.
LEMMA ViewTypes ==
  ASSUME TypeOK, [ViewNext]_viewVars
  PROVE  TypeOK'
<1> USE DEF TypeOK, stream, flags
<1>n. NoReport \in Reports
    BY DEF NoReport, Reports
<1>1. CASE Reading
  <2>1. /\ ended' \in BOOLEAN /\ qcDirty' \in BOOLEAN /\ qcComputing' \in BOOLEAN
        /\ qcReady' \in BOOLEAN /\ threw' \in BOOLEAN
      BY <1>1, Zenon DEF Reading, pushQCInput, markQcDirty, ReadEnds, endQCInput, EndFlag, EndFlags
  <2>2. /\ run' \in 0 .. MaxRuns /\ fed' \in 0 .. MaxFed
        /\ reader' \in {"none", "feed", "mark", "end", "endFlag", "over"}
        /\ UNCHANGED <<frame, worker, snapshot, qcReport, shown>>
    <3>1. fed' \in 0 .. MaxFed
      <4>1. fed \in 0 .. MaxFed
          OBVIOUS
      <4>2. fed' = fed \/ (fed < MaxFed /\ fed' = fed + 1)
          BY <1>1, Zenon DEF Reading, pushQCInput, markQcDirty, ReadEnds, endQCInput, EndFlag
      <4> HIDE DEF TypeOK
      <4>3. QED
          BY <4>1, <4>2
    <3>2. reader' \in {"none", "feed", "mark", "end", "endFlag", "over"}
        BY <1>1 DEF Reading, pushQCInput, markQcDirty, ReadEnds, endQCInput, EndFlag
    <3>3. UNCHANGED <<run, frame, worker, snapshot, qcReport, shown>>
        BY <1>1 DEF Reading, pushQCInput, markQcDirty, ReadEnds, endQCInput, EndFlag
    <3>4. QED
        BY <3>1, <3>2, <3>3
  <2>3. QED
      BY <2>1, <2>2
<1>2. CASE Framing
  <2>1. /\ ended' \in BOOLEAN /\ qcDirty' \in BOOLEAN /\ qcComputing' \in BOOLEAN
        /\ qcReady' \in BOOLEAN /\ threw' \in BOOLEAN
      BY <1>2, Zenon DEF Framing, FrameTest, launchQC, FrameDraw, ResetReport, ResetReady,
                         ResetDirty, GuiKeeps
  <2>2. /\ frame' \in {"idle", "launch", "draw", "reset", "resetReport", "resetFlags"}
        /\ worker' \in {"none", "snapshot", "store", "ready", "over"}
        /\ reader' \in {"none", "feed", "mark", "end", "endFlag", "over"}
        /\ UNCHANGED <<run, fed, snapshot>>
      BY <1>2 DEF Framing, FrameTest, launchQC, FrameDraw, ResetReport, ResetReady,
                  ResetDirty, GuiKeeps
  <2>3. qcReport' \in Reports /\ shown' \in Reports
      BY <1>n, <1>2 DEF Framing, FrameTest, launchQC, FrameDraw, ResetReport, ResetReady,
                        ResetDirty, GuiKeeps
  <2>4. QED
      BY <2>1, <2>2, <2>3
<1>3. CASE Working
  <2>1. /\ ended' \in BOOLEAN /\ qcDirty' \in BOOLEAN /\ qcComputing' \in BOOLEAN
        /\ qcReady' \in BOOLEAN /\ threw' \in BOOLEAN
      BY <1>3, Zenon DEF Working, Snapshot, Store, Ready, WorkerKeeps
  <2>2. [run |-> run, fed |-> fed, ended |-> ended] \in Reports
      BY DEF Reports
  <2>3. /\ worker' \in {"none", "snapshot", "store", "ready", "over"}
        /\ snapshot' \in Reports /\ qcReport' \in Reports
        /\ UNCHANGED <<run, fed, reader, frame, shown>>
      BY <1>3, <2>2 DEF Working, Snapshot, Store, Ready, WorkerKeeps, qcSnapshot
  <2>4. QED
      BY <2>1, <2>3
<1>4. CASE Restart
  <2>1. /\ ended' \in BOOLEAN /\ qcDirty' \in BOOLEAN /\ qcComputing' \in BOOLEAN
        /\ qcReady' \in BOOLEAN /\ threw' \in BOOLEAN
      BY <1>4, Zenon DEF Restart
  <2>2. /\ run' \in 0 .. MaxRuns /\ fed' \in 0 .. MaxFed /\ frame' = "reset"
        /\ UNCHANGED <<reader, worker, snapshot, qcReport, shown>>
      BY <1>4 DEF Restart
  <2>3. QED
      BY <2>1, <2>2
<1>5. CASE UNCHANGED viewVars
    BY <1>5 DEF viewVars
<1>6. QED
    BY <1>1, <1>2, <1>3, <1>4, <1>5 DEF ViewNext

\* What is stored and held stays in the past and in order.
LEMMA ViewKeeps ==
  ASSUME ViewIInv, [ViewNext]_viewVars
  PROVE  ViewIInv'
<1> USE DEF stream, flags
<1>0. TypeOK'
    BY ViewTypes DEF ViewIInv
<1>f. /\ run \in Nat /\ fed \in Nat
      /\ snapshot.run \in Nat /\ snapshot.fed \in Nat
      /\ qcReport.run \in Nat /\ qcReport.fed \in Nat
    BY ReportFields DEF ViewIInv
<1> SUFFICES Past(snapshot)' /\ Past(qcReport)' /\ HandIsNewer' /\ ResetIsOfRun'
    BY <1>0 DEF ViewIInv
<1> USE DEF ViewIInv, Past, HandIsNewer, ResetIsOfRun
<1>1. CASE Reading
  <2>1. /\ run' = run /\ fed' \in {fed, fed + 1}
        /\ UNCHANGED <<frame, worker, snapshot, qcReport>>
      BY <1>1 DEF Reading, pushQCInput, markQcDirty, ReadEnds, endQCInput, EndFlag
  <2>2. QED
      BY <1>f, <2>1
<1>2. CASE Framing
  <2>1. CASE ResetReport
    <3>1. qcReport'.run = 0 /\ run' = run /\ run > 0 /\ fed' = fed /\ snapshot' = snapshot
          /\ frame' = "resetReport"
        BY <2>1 DEF ResetReport, GuiKeeps, NoReport
    <3>2. QED
        BY <1>f, <3>1
  <2>2. CASE ~ResetReport
    <3>1. /\ UNCHANGED <<run, fed, snapshot, qcReport>>
          /\ frame' # "reset" /\ (worker' = "store" => worker = "store")
        BY <1>2, <2>2 DEF Framing, FrameTest, launchQC, FrameDraw, ResetReady, ResetDirty, GuiKeeps
    <3>2. QED
        BY <3>1
  <2>3. QED
      BY <2>1, <2>2
<1>3. CASE Working
  <2>1. UNCHANGED <<run, fed, frame>>
      BY <1>3 DEF Working, Snapshot, Store, Ready, WorkerKeeps
  <2>2. CASE Snapshot
    <3>1. qcReport' = qcReport
        BY <2>2 DEF Snapshot
    <3>2. \/ snapshot' = [run |-> run, fed |-> fed, ended |-> ended]
          \/ snapshot' = snapshot /\ worker' = "ready"
        BY <2>2 DEF Snapshot, qcSnapshot
    <3>3. QED
        BY <1>f, <2>1, <3>1, <3>2
  <2>3. CASE Store
      BY <1>f, <2>1, <2>3 DEF Store
  <2>4. CASE Ready
      BY <1>f, <2>1, <2>4 DEF Ready
  <2>5. QED
      BY <1>3, <2>2, <2>3, <2>4 DEF Working
<1>4. CASE Restart
  <2>1. run' = run + 1 /\ snapshot' = snapshot /\ qcReport' = qcReport
      BY <1>4 DEF Restart
  <2>2. QED
      BY <1>f, <2>1
<1>5. CASE UNCHANGED viewVars
    BY <1>5 DEF viewVars
<1>6. QED
    BY <1>1, <1>2, <1>3, <1>4, <1>5 DEF ViewNext

\* Whatever frames, feeding and starts come between: no report is of the future, and what
\* the worker holds is no older than the report of this run.
THEOREM ViewInvariant == ViewSpec => []ViewIInv
<1>1. ViewInit => ViewIInv
  <2> SUFFICES ASSUME ViewInit PROVE ViewIInv
      OBVIOUS
  <2>1. NoReport \in Reports /\ NoReport.run = 0 /\ NoReport.fed = 0
      BY DEF NoReport, Reports
  <2>2. /\ ended \in BOOLEAN /\ qcDirty \in BOOLEAN /\ qcComputing \in BOOLEAN
        /\ qcReady \in BOOLEAN /\ threw \in BOOLEAN
      BY Zenon DEF ViewInit
  <2>3. TypeOK
      BY <2>1, <2>2 DEF ViewInit, TypeOK
  <2>4. QED
      BY <2>1, <2>3 DEF ViewInit, ViewIInv, Past, HandIsNewer, ResetIsOfRun
<1>2. ViewIInv /\ [ViewNext]_viewVars => ViewIInv'
    BY ViewKeeps
<1>3. QED
    BY <1>1, <1>2, PTL DEF ViewSpec

\* Once a run has a report of its own, no older one takes its place.
THEOREM ReportsNeverOlder == ViewSpec => NeverOlder
<1>1. ASSUME ViewIInv, [ViewNext]_viewVars
      PROVE  [qcReport.run = run /\ run' = run /\ frame # "reset" =>
                qcReport'.run = run /\ qcReport'.fed >= qcReport.fed]_viewVars
  <2>f. qcReport.fed \in Nat
      BY <1>1, ReportFields DEF ViewIInv
  <2> SUFFICES ASSUME qcReport.run = run, run' = run, frame # "reset", ViewNext
               PROVE  qcReport'.run = run /\ qcReport'.fed >= qcReport.fed
      BY <1>1
  <2>1. CASE Store
      BY <1>1, <2>1 DEF Store, ViewIInv, HandIsNewer
  <2>2. CASE ~Store
    <3>1. qcReport' = qcReport
        BY <2>2 DEF ViewNext, Reading, pushQCInput, markQcDirty, ReadEnds, endQCInput, EndFlag,
                    Framing, FrameTest, launchQC, FrameDraw, ResetReport, ResetReady, ResetDirty,
                    Working, Snapshot, Ready, Restart
    <3>2. QED
        BY <2>f, <3>1
  <2>3. QED
      BY <2>1, <2>2
<1>2. QED
    BY <1>1, ViewInvariant, PTL DEF ViewSpec, NeverOlder

-----------------------------------------------------------------------------
(* RefTruth. *)

RefFrom == {"saved", "none", "typed"} \cup RefStations
RefPlaces == {"idle", "load", "read", "done", "undated", "failed", "found", "absent", "unread"}

RefLooks == {"", "fetching", "unknown", "got", "undated", "download", "absent"}

RefTyped ==
  /\ refXyz \in [RefTasks -> [RefAxes -> RefFrom]]
  /\ refStatus \in [RefTasks -> [what : RefLooks,
                                 station : RefStations \cup {""}]]
  /\ refObs \in [RefTasks -> RefObsFiles]
  /\ refFrame \in [RefTasks -> [xyz : [RefAxes -> RefFrom], open : BOOLEAN]]
  /\ refJob \in [RefTasks -> [at : RefPlaces, station : RefStations \cup {""}, name : RefNames \cup {""}]]
  /\ refTmp \subseteq RefNames
  /\ refLeft \in [{"fetch", "edit", "break"} -> Nat]
  /\ refLeft["break"] <= RefMaxBreaks

\* A thread that loads or reads is at one of the two names, and looks for a station.
RefJobsAtName ==
  \A t \in RefTasks :
    /\ refJob[t].at \in {"load", "read"} => refJob[t].name \in RefNames
    /\ refJob[t].at \in {"load", "read", "found"} => refJob[t].station \in RefStations

\* Coordinates that were not typed have one origin.
OneOrigin(xyz) == \E o \in RefFrom : \A c \in RefAxes : xyz[c] \in {"typed", o}

\* They are of a station only if a file of the server holds it.
Served(xyz, server) ==
  \A c \in RefAxes : xyz[c] \in RefStations => \E n \in RefNames : RefHolds(server[n], xyz[c])

RefOrigins ==
  \A t \in RefTasks : OneOrigin(refXyz[t]) /\ (refFrame[t].open => OneOrigin(refFrame[t].xyz))

\* As long as no transfer has broken off, only the first name that is there comes
\* to the temporary path, whoever loads it, so what is read there is whole.
RefUnmixed ==
  /\ \A t \in RefTasks :
       /\ Served(refXyz[t], refServer)
       /\ refFrame[t].open => Served(refFrame[t].xyz, refServer)
       /\ refJob[t].at = "found" => \E n \in RefNames : RefHolds(refServer[n], refJob[t].station)
       /\ refJob[t].at \in {"load", "read"} /\ refJob[t].name = "snx" => ~refServer["crd"].there
       /\ refJob[t].at = "read" => refServer[refJob[t].name].there
  /\ \A n \in refTmp : refServer[n].there /\ (n = "snx" => ~refServer["crd"].there)

RefIInv ==
  /\ RefTyped /\ RefJobsAtName /\ RefOrigins
  /\ refLeft["break"] = RefMaxBreaks => RefUnmixed

LEMMA RefUseCounts ==
  ASSUME RefTyped, NEW bound \in {"fetch", "edit", "break"}, RefUse(bound)
  PROVE  /\ refLeft' \in [{"fetch", "edit", "break"} -> Nat] /\ refLeft'["break"] <= RefMaxBreaks
         /\ refLeft'["break"] = RefMaxBreaks => bound # "break" /\ refLeft["break"] = RefMaxBreaks
<1>1. refLeft[bound] \in Nat /\ refLeft[bound] > 0 /\ refLeft["break"] \in Nat
    BY DEF RefTyped, RefUse
<1>2. refLeft' = [refLeft EXCEPT ![bound] = refLeft[bound] - 1]
    BY DEF RefUse
<1>3. refLeft \in [{"fetch", "edit", "break"} -> Nat] /\ refLeft["break"] <= RefMaxBreaks
    BY DEF RefTyped
<1>4. refLeft[bound] - 1 \in Nat
    BY <1>1
<1>5. refLeft' \in [{"fetch", "edit", "break"} -> Nat]
    BY <1>2, <1>3, <1>4
<1>6. CASE bound = "break"
  <2>1. refLeft'["break"] = refLeft["break"] - 1
      BY <1>2, <1>3, <1>6
  <2>2. QED
      BY <1>1, <1>3, <1>5, <1>6, <2>1
<1>7. CASE bound # "break"
  <2>1. refLeft'["break"] = refLeft["break"]
      BY <1>2, <1>3, <1>7
  <2>2. QED
      BY <1>3, <1>5, <1>7, <2>1
<1>8. QED
    BY <1>6, <1>7

\* An edit leaves what it does not type as it was in the frame's copy.
LEMMA EditKeeps ==
  ASSUME NEW xyz \in [RefAxes -> RefFrom], NEW axes, NEW server
  PROVE  LET disp == [c \in RefAxes |-> IF c \in axes THEN "typed" ELSE xyz[c]]
         IN  /\ disp \in [RefAxes -> RefFrom]
             /\ OneOrigin(xyz) => OneOrigin(disp)
             /\ Served(xyz, server) => Served(disp, server)
  BY DEF RefFrom, RefStations, OneOrigin, Served

LEMMA AnswerKeeps ==
  ASSUME NEW station \in RefStations, NEW server
  PROVE  /\ RefAnswer(station) \in [RefAxes -> RefFrom] /\ OneOrigin(RefAnswer(station))
         /\ (\E n \in RefNames : RefHolds(server[n], station)) => Served(RefAnswer(station), server)
  BY DEF RefFrom, RefAnswer, OneOrigin, Served

LEMMA RefFrames ==
  ASSUME RefIInv, NEW t \in RefTasks,
         RefFrameBegin(t) \/ (\E axes \in SUBSET RefAxes : RefFrameEdit(t, axes)) \/ RefFrameQuiet(t)
  PROVE  RefIInv'
<1>1. /\ refXyz[t] \in [RefAxes -> RefFrom] /\ OneOrigin(refXyz[t])
      /\ refFrame[t].xyz \in [RefAxes -> RefFrom]
      /\ refFrame[t].open => OneOrigin(refFrame[t].xyz)
    BY DEF RefIInv, RefTyped, RefOrigins
<1>2. /\ refStatus' = refStatus /\ refObs' = refObs /\ refJob' = refJob /\ refTmp' = refTmp
      /\ refServer' = refServer
    BY DEF RefFrameBegin, RefFrameEdit, RefFrameQuiet
<1>3. CASE RefFrameBegin(t)
  <2> DEFINE copy == [xyz |-> refXyz[t], open |-> TRUE]
  <2>1. refFrame' = [refFrame EXCEPT ![t] = copy] /\ refXyz' = refXyz /\ refLeft' = refLeft
      BY <1>3 DEF RefFrameBegin
  <2>2. copy \in [xyz : [RefAxes -> RefFrom], open : BOOLEAN] /\ copy.xyz = refXyz[t]
      BY <1>1
  <2> HIDE DEF copy
  <2>3. RefTyped' /\ RefJobsAtName'
      BY <1>2, <2>1, <2>2 DEF RefIInv, RefTyped, RefJobsAtName
  <2>4. RefOrigins'
      BY <1>1, <2>1, <2>2 DEF RefIInv, RefOrigins, RefTyped
  <2>5. refLeft'["break"] = RefMaxBreaks => RefUnmixed'
      BY <1>2, <2>1, <2>2 DEF RefIInv, RefTyped, RefUnmixed
  <2>6. QED
      BY <2>3, <2>4, <2>5 DEF RefIInv
<1>4. CASE \E axes \in SUBSET RefAxes : RefFrameEdit(t, axes)
  <2> PICK axes \in SUBSET RefAxes : RefFrameEdit(t, axes)
      BY <1>4
  <2> DEFINE disp == [c \in RefAxes |-> IF c \in axes THEN "typed" ELSE refFrame[t].xyz[c]]
  <2>1. /\ refXyz' = [refXyz EXCEPT ![t] = disp] /\ refFrame' = [refFrame EXCEPT ![t] = RefNoFrame]
        /\ refFrame[t].open /\ RefUse("edit")
      BY DEF RefFrameEdit
  <2>2. /\ disp \in [RefAxes -> RefFrom] /\ OneOrigin(disp)
        /\ Served(refFrame[t].xyz, refServer) => Served(disp, refServer)
      BY <1>1, <2>1, EditKeeps
  <2> HIDE DEF disp
  <2>3. /\ refLeft' \in [{"fetch", "edit", "break"} -> Nat] /\ refLeft'["break"] <= RefMaxBreaks
        /\ refLeft'["break"] = RefMaxBreaks => refLeft["break"] = RefMaxBreaks
      BY <2>1, RefUseCounts DEF RefIInv
  <2>4. RefNoFrame \in [xyz : [RefAxes -> RefFrom], open : BOOLEAN] /\ RefNoFrame.open = FALSE
      BY DEF RefNoFrame, RefFrom
  <2>5. RefTyped' /\ RefJobsAtName'
      BY <1>2, <2>1, <2>2, <2>3, <2>4 DEF RefIInv, RefTyped, RefJobsAtName
  <2>6. RefOrigins'
      BY <2>1, <2>2, <2>4 DEF RefIInv, RefOrigins, RefTyped
  <2>7. refLeft'["break"] = RefMaxBreaks => RefUnmixed'
      BY <1>2, <2>1, <2>2, <2>3, <2>4 DEF RefIInv, RefTyped, RefUnmixed
  <2>8. QED
      BY <2>5, <2>6, <2>7 DEF RefIInv
<1>5. CASE RefFrameQuiet(t)
  <2>1. refFrame' = [refFrame EXCEPT ![t] = RefNoFrame] /\ refXyz' = refXyz /\ refLeft' = refLeft
      BY <1>5 DEF RefFrameQuiet
  <2>2. RefNoFrame \in [xyz : [RefAxes -> RefFrom], open : BOOLEAN] /\ RefNoFrame.open = FALSE
      BY DEF RefNoFrame, RefFrom
  <2>3. RefTyped' /\ RefJobsAtName'
      BY <1>2, <2>1, <2>2 DEF RefIInv, RefTyped, RefJobsAtName
  <2>4. RefOrigins'
      BY <2>1, <2>2 DEF RefIInv, RefOrigins, RefTyped
  <2>5. refLeft'["break"] = RefMaxBreaks => RefUnmixed'
      BY <1>2, <2>1, <2>2 DEF RefIInv, RefTyped, RefUnmixed
  <2>6. QED
      BY <2>3, <2>4, <2>5 DEF RefIInv
<1>6. QED
    BY <1>3, <1>4, <1>5

\* A thread's job changes, and what it has loaded: the coordinates and the frames
\* stay as they are.
LEMMA RefJobSteps ==
  ASSUME RefIInv, NEW t \in RefTasks, NEW job,
         job \in [at : RefPlaces, station : RefStations \cup {""}, name : RefNames \cup {""}],
         job.at \in {"load", "read"} => job.name \in RefNames,
         job.at \in {"load", "read", "found"} => job.station \in RefStations,
         refJob' = [refJob EXCEPT ![t] = job],
         refTmp' \subseteq RefNames, refXyz' = refXyz, refServer' = refServer,
         \/ refFrame' = refFrame
         \/ refFrame' = [refFrame EXCEPT ![t] = RefNoFrame],
         refStatus' \in [RefTasks -> [what : RefLooks, station : RefStations \cup {""}]],
         refObs' \in [RefTasks -> RefObsFiles],
         refLeft' \in [{"fetch", "edit", "break"} -> Nat], refLeft'["break"] <= RefMaxBreaks,
         refLeft'["break"] = RefMaxBreaks =>
           /\ refLeft["break"] = RefMaxBreaks
           /\ job.at = "found" => \E n \in RefNames : RefHolds(refServer[n], job.station)
           /\ job.at \in {"load", "read"} /\ job.name = "snx" => ~refServer["crd"].there
           /\ job.at = "read" => refServer[job.name].there
           /\ \A n \in refTmp' : refServer[n].there /\ (n = "snx" => ~refServer["crd"].there)
  PROVE  RefIInv'
<1>1. RefNoFrame \in [xyz : [RefAxes -> RefFrom], open : BOOLEAN] /\ RefNoFrame.open = FALSE
    BY DEF RefNoFrame, RefFrom
<1>2. refFrame' \in [RefTasks -> [xyz : [RefAxes -> RefFrom], open : BOOLEAN]]
      /\ \A u \in RefTasks : refFrame'[u].open => refFrame'[u] = refFrame[u]
  <2>1. refFrame \in [RefTasks -> [xyz : [RefAxes -> RefFrom], open : BOOLEAN]]
      BY DEF RefIInv, RefTyped
  <2>2. CASE refFrame' = refFrame
      BY <2>1, <2>2
  <2>3. CASE refFrame' = [refFrame EXCEPT ![t] = RefNoFrame]
    <3>1. \A u \in RefTasks : refFrame'[u] = IF u = t THEN RefNoFrame ELSE refFrame[u]
        BY <2>1, <2>3
    <3>2. refFrame' \in [RefTasks -> [xyz : [RefAxes -> RefFrom], open : BOOLEAN]]
        BY <1>1, <2>1, <2>3
    <3>3. QED
        BY <1>1, <3>1, <3>2
  <2>4. QED
      BY <2>2, <2>3
<1>3. \A u \in RefTasks : refJob'[u] = IF u = t THEN job ELSE refJob[u]
    BY DEF RefIInv, RefTyped
<1>4. refJob' \in [RefTasks -> [at : RefPlaces, station : RefStations \cup {""}, name : RefNames \cup {""}]]
    BY DEF RefIInv, RefTyped
<1>5. RefTyped'
    BY <1>2, <1>4 DEF RefIInv, RefTyped
<1>6. RefJobsAtName'
    BY <1>3, ZenonT(40) DEF RefIInv, RefJobsAtName
<1>7. RefOrigins'
    BY <1>2 DEF RefIInv, RefOrigins
<1>8. ASSUME refLeft'["break"] = RefMaxBreaks PROVE RefUnmixed'
  <2>1. RefUnmixed
      BY <1>8 DEF RefIInv
  <2>2. \A u \in RefTasks : /\ Served(refXyz'[u], refServer')
                            /\ refFrame'[u].open => Served(refFrame'[u].xyz, refServer')
      BY <1>2, <2>1 DEF RefUnmixed
  <2>3. \A u \in RefTasks :
          /\ refJob'[u].at = "found" => \E n \in RefNames : RefHolds(refServer'[n], refJob'[u].station)
          /\ refJob'[u].at \in {"load", "read"} /\ refJob'[u].name = "snx" => ~refServer'["crd"].there
          /\ refJob'[u].at = "read" => refServer'[refJob'[u].name].there
    <3> SUFFICES ASSUME NEW u \in RefTasks
        PROVE /\ refJob'[u].at = "found" => \E n \in RefNames : RefHolds(refServer[n], refJob'[u].station)
              /\ refJob'[u].at \in {"load", "read"} /\ refJob'[u].name = "snx" => ~refServer["crd"].there
              /\ refJob'[u].at = "read" => refServer[refJob'[u].name].there
        OBVIOUS
    <3>1. CASE u = t
        BY <1>3, <1>8, <3>1, ZenonT(40)
    <3>2. CASE u # t
        BY <1>3, <2>1, <3>2, ZenonT(40) DEF RefUnmixed
    <3>3. QED
        BY <3>1, <3>2
  <2>4. QED
      BY <1>8, <2>2, <2>3 DEF RefUnmixed
<1>9. QED
    BY <1>5, <1>6, <1>7, <1>8 DEF RefIInv

LEMMA RefStarts ==
  ASSUME RefIInv, NEW t \in RefTasks, RefStart(t)
  PROVE  RefIInv'
<1> DEFINE job == CASE refObs[t] = "short" -> [RefIdle EXCEPT !.at = "done"]
                    [] refObs[t] = "dayless" -> [RefIdle EXCEPT !.at = "undated", !.station = "s1"]
                    [] OTHER -> [at |-> "load", station |-> refObs[t], name |-> "crd"]
<1>1. /\ refJob' = [refJob EXCEPT ![t] = job] /\ refFrame' = [refFrame EXCEPT ![t] = RefNoFrame]
      /\ refStatus' = [refStatus EXCEPT ![t] = [what |-> "fetching", station |-> ""]]
      /\ refXyz' = refXyz /\ refObs' = refObs /\ refTmp' = refTmp /\ refServer' = refServer
      /\ RefUse("fetch")
    BY DEF RefStart
<1>2. refObs[t] \in RefObsFiles
    BY DEF RefIInv, RefTyped
<1>3. /\ job \in [at : RefPlaces, station : RefStations \cup {""}, name : RefNames \cup {""}]
      /\ job.at \in {"load", "done", "undated"} /\ job.name # "snx"
      /\ job.at = "load" => job.name \in RefNames /\ job.station \in RefStations
    BY <1>2 DEF RefObsFiles, RefIdle, RefPlaces, RefNames, RefStations
<1> HIDE DEF job
<1>4. refStatus' \in [RefTasks -> [what : RefLooks, station : RefStations \cup {""}]]
    BY <1>1 DEF RefIInv, RefTyped, RefLooks
<1>5. /\ refLeft' \in [{"fetch", "edit", "break"} -> Nat] /\ refLeft'["break"] <= RefMaxBreaks
      /\ refLeft'["break"] = RefMaxBreaks => refLeft["break"] = RefMaxBreaks
    BY <1>1, RefUseCounts DEF RefIInv
<1>6. refTmp' \subseteq RefNames /\ refObs' \in [RefTasks -> RefObsFiles]
    BY <1>1 DEF RefIInv, RefTyped
<1>7. refLeft["break"] = RefMaxBreaks =>
        \A n \in refTmp : refServer[n].there /\ (n = "snx" => ~refServer["crd"].there)
    BY DEF RefIInv, RefUnmixed
<1>8. QED
    BY <1>1, <1>3, <1>4, <1>5, <1>6, <1>7, RefJobSteps

\* Loading: the second name is only tried when the first is not on the server, or
\* a transfer broke off.
LEMMA RefLoads ==
  ASSUME RefIInv, NEW t \in RefTasks, RefGone(t) \/ RefBroken(t) \/ RefLoaded(t)
  PROVE  RefIInv'
<1> DEFINE j == refJob[t]
           next == IF j.name = "crd" THEN [j EXCEPT !.name = "snx"] ELSE [j EXCEPT !.at = "failed"]
           read == [j EXCEPT !.at = "read"]
<1>1. /\ refXyz' = refXyz /\ refFrame' = refFrame /\ refStatus' = refStatus
      /\ refObs' = refObs /\ refServer' = refServer /\ j.at = "load"
    BY DEF RefGone, RefBroken, RefLoaded
<1>2. /\ j \in [at : RefPlaces, station : RefStations \cup {""}, name : RefNames \cup {""}]
      /\ j.name \in RefNames /\ j.station \in RefStations
    BY <1>1 DEF RefIInv, RefTyped, RefJobsAtName
<1>3. /\ next \in [at : RefPlaces, station : RefStations \cup {""}, name : RefNames \cup {""}]
      /\ \/ j.name = "crd" /\ next.at = "load" /\ next.name = "snx" /\ next.station = j.station
         \/ next.at = "failed"
    BY <1>1, <1>2 DEF RefPlaces, RefNames
<1>4. /\ read \in [at : RefPlaces, station : RefStations \cup {""}, name : RefNames \cup {""}]
      /\ read.at = "read" /\ read.name = j.name /\ read.station = j.station
    BY <1>2 DEF RefPlaces
<1>5. /\ refStatus' \in [RefTasks -> [what : RefLooks, station : RefStations \cup {""}]]
      /\ refObs' \in [RefTasks -> RefObsFiles]
      /\ refLeft \in [{"fetch", "edit", "break"} -> Nat] /\ refLeft["break"] <= RefMaxBreaks
      /\ refTmp \cup {j.name} \subseteq RefNames
    BY <1>1, <1>2 DEF RefIInv, RefTyped
<1>6. refLeft["break"] = RefMaxBreaks =>
        /\ j.name = "snx" => ~refServer["crd"].there
        /\ \A n \in refTmp : refServer[n].there /\ (n = "snx" => ~refServer["crd"].there)
    BY <1>1 DEF RefIInv, RefUnmixed
<1>7. "snx" \in RefNames
    BY DEF RefNames
<1> HIDE DEF next, read
<1>8. CASE RefGone(t)
  <2>1. refJob' = [refJob EXCEPT ![t] = next] /\ refTmp' = {} /\ refLeft' = refLeft
          /\ ~refServer[j.name].there
      BY <1>8 DEF RefGone, RefTryNext, next
  <2> HIDE DEF j
  <2>2. refLeft'["break"] = RefMaxBreaks =>
          /\ refLeft["break"] = RefMaxBreaks
          /\ next.at = "found" => \E n \in RefNames : RefHolds(refServer[n], next.station)
          /\ next.at \in {"load", "read"} /\ next.name = "snx" => ~refServer["crd"].there
          /\ next.at = "read" => refServer[next.name].there
          /\ \A n \in refTmp' : refServer[n].there /\ (n = "snx" => ~refServer["crd"].there)
      BY <1>3, <2>1
  <2>3. QED
      BY <1>1, <1>2, <1>3, <1>5, <1>7, <2>1, <2>2, RefJobSteps
<1>9. CASE RefBroken(t)
  <2>1. refJob' = [refJob EXCEPT ![t] = next] /\ refTmp' = refTmp \cup {j.name} /\ RefUse("break")
      BY <1>9 DEF RefBroken, RefTryNext, next
  <2>2. /\ refLeft' \in [{"fetch", "edit", "break"} -> Nat] /\ refLeft'["break"] <= RefMaxBreaks
        /\ refLeft'["break"] # RefMaxBreaks
      BY <2>1, RefUseCounts DEF RefIInv
  <2> HIDE DEF j
  <2>3. QED
      BY <1>1, <1>2, <1>3, <1>5, <1>7, <2>1, <2>2, RefJobSteps
<1>10. CASE RefLoaded(t)
  <2>1. refJob' = [refJob EXCEPT ![t] = read] /\ refTmp' = refTmp \cup {j.name} /\ refLeft' = refLeft
          /\ refServer[j.name].there
      BY <1>10 DEF RefLoaded, read
  <2> HIDE DEF j
  <2>2. refLeft'["break"] = RefMaxBreaks =>
          /\ refLeft["break"] = RefMaxBreaks
          /\ read.at = "found" => \E n \in RefNames : RefHolds(refServer[n], read.station)
          /\ read.at \in {"load", "read"} /\ read.name = "snx" => ~refServer["crd"].there
          /\ read.at = "read" => refServer[read.name].there
          /\ \A n \in refTmp' : refServer[n].there /\ (n = "snx" => ~refServer["crd"].there)
      BY <1>4, <1>6, <2>1
  <2>3. QED
      BY <1>1, <1>2, <1>4, <1>5, <2>1, <2>2, RefJobSteps
<1>11. QED
    BY <1>8, <1>9, <1>10

\* As long as no transfer broke off, a station is found only in a file that is whole.
LEMMA RefReads ==
  ASSUME RefIInv, NEW t \in RefTasks, NEW outcome \in {"unread", "absent", "found"},
         RefRead(t, outcome)
  PROVE  RefIInv'
<1> DEFINE j == refJob[t]
           job == [j EXCEPT !.at = outcome]
<1>1. /\ refXyz' = refXyz /\ refFrame' = refFrame /\ refStatus' = refStatus
      /\ refObs' = refObs /\ refServer' = refServer /\ refLeft' = refLeft
      /\ refTmp' = {} /\ refJob' = [refJob EXCEPT ![t] = job] /\ j.at = "read"
      /\ outcome \in RefOutcomes(t)
    BY DEF RefRead
<1>2. /\ j \in [at : RefPlaces, station : RefStations \cup {""}, name : RefNames \cup {""}]
      /\ j.name \in RefNames /\ j.station \in RefStations
    BY <1>1 DEF RefIInv, RefTyped, RefJobsAtName
<1>3. /\ job \in [at : RefPlaces, station : RefStations \cup {""}, name : RefNames \cup {""}]
      /\ job.at = outcome /\ job.station = j.station
    BY <1>2 DEF RefPlaces
<1>4. /\ refStatus' \in [RefTasks -> [what : RefLooks, station : RefStations \cup {""}]]
      /\ refObs' \in [RefTasks -> RefObsFiles]
      /\ refLeft' \in [{"fetch", "edit", "break"} -> Nat] /\ refLeft'["break"] <= RefMaxBreaks
    BY <1>1 DEF RefIInv, RefTyped
<1>5. refLeft["break"] = RefMaxBreaks => refTmp \subseteq {j.name}
  <2> SUFFICES ASSUME refLeft["break"] = RefMaxBreaks, NEW n \in refTmp PROVE n = j.name
      OBVIOUS
  <2>1. n \in {"crd", "snx"} /\ j.name \in {"crd", "snx"}
      BY <1>2 DEF RefIInv, RefTyped, RefNames
  <2>2. /\ refServer[n].there /\ (n = "snx" => ~refServer["crd"].there)
        /\ refServer[j.name].there /\ (j.name = "snx" => ~refServer["crd"].there)
      BY <1>1 DEF RefIInv, RefUnmixed
  <2>3. QED
      BY <2>1, <2>2
<1>6. refLeft["break"] = RefMaxBreaks /\ outcome = "found" => RefHolds(refServer[j.name], j.station)
    BY <1>1, <1>5 DEF RefOutcomes
<1> HIDE DEF j, job
<1>7. QED
    BY <1>1, <1>2, <1>3, <1>4, <1>6, RefJobSteps

LEMMA RefPublishes ==
  ASSUME RefIInv, NEW t \in RefTasks, RefPublish(t)
  PROVE  RefIInv'
<1> DEFINE xyz == RefPublished(t)
           told == [what |-> RefToldBy(refJob[t].at), station |-> refJob[t].station]
<1>1. /\ refXyz' = [refXyz EXCEPT ![t] = xyz] /\ refStatus' = [refStatus EXCEPT ![t] = told]
      /\ refTmp' = (IF refJob[t].at = "failed" THEN {} ELSE refTmp)
      /\ refJob' = [refJob EXCEPT ![t] = RefIdle]
      /\ refObs' = refObs /\ refFrame' = refFrame /\ refServer' = refServer /\ refLeft' = refLeft
    BY DEF RefPublish
<1>2. refJob[t] \in [at : RefPlaces, station : RefStations \cup {""}, name : RefNames \cup {""}]
        /\ refXyz[t] \in [RefAxes -> RefFrom] /\ OneOrigin(refXyz[t])
    BY DEF RefIInv, RefTyped, RefOrigins
<1>3. /\ xyz \in [RefAxes -> RefFrom] /\ OneOrigin(xyz)
      /\ refLeft["break"] = RefMaxBreaks => Served(xyz, refServer)
  <2>1. CASE refJob[t].at = "found"
    <3>1. refJob[t].station \in RefStations /\ xyz = RefAnswer(refJob[t].station)
        BY <2>1 DEF RefIInv, RefJobsAtName, RefPublished
    <3>2. refLeft["break"] = RefMaxBreaks =>
            \E n \in RefNames : RefHolds(refServer[n], refJob[t].station)
        BY <2>1 DEF RefIInv, RefUnmixed
    <3> HIDE DEF xyz
    <3>3. QED
        BY <3>1, <3>2, AnswerKeeps
  <2>2. CASE refJob[t].at # "found"
      BY <1>2, <2>2 DEF RefPublished, RefIInv, RefUnmixed
  <2>3. QED
      BY <2>1, <2>2
<1>4. told \in [what : RefLooks, station : RefStations \cup {""}]
    BY <1>2 DEF RefLooks, RefToldBy
<1>5. RefIdle \in [at : RefPlaces, station : RefStations \cup {""}, name : RefNames \cup {""}]
        /\ RefIdle.at = "idle"
    BY DEF RefIdle, RefPlaces
<1> HIDE DEF xyz, told
<1>6. RefTyped'
    BY <1>1, <1>3, <1>4, <1>5 DEF RefIInv, RefTyped
<1>7. RefJobsAtName'
    BY <1>1, <1>5 DEF RefIInv, RefTyped, RefJobsAtName
<1>8. RefOrigins'
    BY <1>1, <1>3 DEF RefIInv, RefTyped, RefOrigins
<1>9. refLeft'["break"] = RefMaxBreaks => RefUnmixed'
    BY <1>1, <1>3, <1>5 DEF RefIInv, RefTyped, RefUnmixed
<1>10. QED
    BY <1>6, <1>7, <1>8, <1>9 DEF RefIInv

\* The reference, as threads, frames and breaking transfers may change it: one
\* origin a task, and, as long as no transfer breaks off, a file read whole.
THEOREM RefInvariant == RefSpec => []RefIInv
<1>1. RefInit => RefIInv
  <2> SUFFICES ASSUME RefInit PROVE RefIInv
      OBVIOUS
  <2>1. RefAnswer("saved") \in [RefAxes -> RefFrom] /\ \A c \in RefAxes : RefAnswer("saved")[c] = "saved"
      BY DEF RefAnswer, RefFrom
  <2>2. RefNoFrame \in [xyz : [RefAxes -> RefFrom], open : BOOLEAN] /\ RefNoFrame.open = FALSE
      BY DEF RefNoFrame, RefFrom
  <2>3. RefIdle \in [at : RefPlaces, station : RefStations \cup {""}, name : RefNames \cup {""}]
          /\ RefIdle.at = "idle"
      BY DEF RefIdle, RefPlaces
  <2>4. [what |-> "", station |-> ""] \in [what : RefLooks, station : RefStations \cup {""}]
      BY DEF RefLooks
  <2>5. refLeft \in [{"fetch", "edit", "break"} -> Nat] /\ refLeft["break"] <= RefMaxBreaks
    <3> DEFINE left == [bound \in {"fetch", "edit", "break"} |->
                          IF bound = "fetch" THEN RefMaxFetches
                          ELSE IF bound = "edit" THEN RefMaxEdits ELSE RefMaxBreaks]
    <3>1. [fetch |-> RefMaxFetches, edit |-> RefMaxEdits, break |-> RefMaxBreaks] = left
        OBVIOUS
    <3>2. left \in [{"fetch", "edit", "break"} -> Nat] /\ left["break"] = RefMaxBreaks
        OBVIOUS
    <3>3. refLeft = left
        BY <3>1 DEF RefInit
    <3> HIDE DEF left
    <3>4. QED
        BY <3>2, <3>3
  <2>6. RefTyped
      BY <2>1, <2>2, <2>3, <2>4, <2>5 DEF RefInit, RefTyped
  <2>7. RefJobsAtName /\ (\A t \in RefTasks : refJob[t].at = "idle" /\ ~refFrame[t].open)
      BY <2>2, <2>3 DEF RefInit, RefJobsAtName
  <2>8. \A t \in RefTasks, c \in RefAxes : refXyz[t][c] = "saved"
      BY <2>1 DEF RefInit
  <2>9. RefOrigins
      BY <2>7, <2>8 DEF RefOrigins, OneOrigin, RefFrom
  <2>10. RefUnmixed
      BY <2>7, <2>8 DEF RefUnmixed, Served, RefStations, RefInit
  <2>11. QED
      BY <2>6, <2>7, <2>9, <2>10 DEF RefIInv
<1>2. RefIInv /\ [RefNext]_refVars => RefIInv'
  <2> SUFFICES ASSUME RefIInv, [RefNext]_refVars PROVE RefIInv'
      OBVIOUS
  <2>1. CASE RefNext
    <3> PICK t \in RefTasks :
          \/ RefFrameBegin(t)
          \/ \E axes \in {{}, {"x"}, {"x", "y"}, RefAxes} : RefFrameEdit(t, axes)
          \/ RefFrameQuiet(t)
          \/ RefStart(t)
          \/ \E obs \in RefStations : RefOtherFile(t, obs)
          \/ RefGone(t) \/ RefBroken(t) \/ RefLoaded(t)
          \/ \E outcome \in {"unread", "absent", "found"} : RefRead(t, outcome)
          \/ RefPublish(t)
        BY <2>1 DEF RefNext
    <3>1. CASE \/ RefFrameBegin(t)
               \/ \E axes \in {{}, {"x"}, {"x", "y"}, RefAxes} : RefFrameEdit(t, axes)
               \/ RefFrameQuiet(t)
      <4>1. {{}, {"x"}, {"x", "y"}, RefAxes} \subseteq SUBSET RefAxes
          BY DEF RefAxes
      <4>2. QED
          BY <3>1, <4>1, RefFrames
    <3>2. CASE RefStart(t)
        BY <3>2, RefStarts
    <3>3. CASE \E obs \in RefStations : RefOtherFile(t, obs)
      <4> PICK obs \in RefStations : RefOtherFile(t, obs)
          BY <3>3
      <4>1. /\ refObs' = [refObs EXCEPT ![t] = obs] /\ RefUse("edit")
            /\ refXyz' = refXyz /\ refStatus' = refStatus /\ refFrame' = refFrame
            /\ refJob' = refJob /\ refTmp' = refTmp /\ refServer' = refServer
          BY DEF RefOtherFile
      <4>2. /\ refLeft' \in [{"fetch", "edit", "break"} -> Nat] /\ refLeft'["break"] <= RefMaxBreaks
            /\ refLeft'["break"] = RefMaxBreaks => refLeft["break"] = RefMaxBreaks
          BY <4>1, RefUseCounts DEF RefIInv
      <4>3. RefTyped'
          BY <4>1, <4>2 DEF RefIInv, RefTyped, RefObsFiles
      <4>4. RefJobsAtName' /\ RefOrigins' /\ (RefUnmixed => RefUnmixed')
          BY <4>1 DEF RefIInv, RefJobsAtName, RefOrigins, RefUnmixed
      <4>5. QED
          BY <4>2, <4>3, <4>4 DEF RefIInv
    <3>4. CASE RefGone(t) \/ RefBroken(t) \/ RefLoaded(t)
        BY <3>4, RefLoads
    <3>5. CASE \E outcome \in {"unread", "absent", "found"} : RefRead(t, outcome)
        BY <3>5, RefReads
    <3>6. CASE RefPublish(t)
        BY <3>6, RefPublishes
    <3>7. QED
        BY <3>1, <3>2, <3>3, <3>4, <3>5, <3>6
  <2>2. CASE UNCHANGED refVars
      BY <2>2 DEF refVars, RefIInv, RefTyped, RefJobsAtName, RefOrigins, RefUnmixed
  <2>3. QED
      BY <2>1, <2>2
<1>3. QED
    BY <1>1, <1>2, PTL DEF RefSpec

\* Whatever a user types and however many fetches run over the one temporary file:
\* coordinates that were not typed are of one origin and, without broken
\* transfers, of a station that the server's file holds; a failed fetch changes none.
THEOREM ReferenceIsKept == RefSpec => RefIsKept
<1>1. RefIInv => RefOneAnswer
  <2> SUFFICES ASSUME RefIInv, NEW t \in RefTasks
               PROVE  LET given == {refXyz[t][c] : c \in RefAxes} \ {"typed"}
                      IN  /\ Cardinality(given) <= 1
                          /\ refLeft["break"] = RefMaxBreaks =>
                               \A s \in given \cap RefStations :
                                 \E n \in RefNames : RefHolds(refServer[n], s)
      BY DEF RefOneAnswer
  <2> DEFINE given == {refXyz[t][c] : c \in RefAxes} \ {"typed"}
  <2>1. PICK o \in RefFrom : \A c \in RefAxes : refXyz[t][c] \in {"typed", o}
      BY DEF RefIInv, RefOrigins, OneOrigin
  <2>2. given \subseteq {o}
      BY <2>1
  <2>3. Cardinality(given) <= 1
    <3> HIDE DEF given
    <3>1. IsFiniteSet({o}) /\ Cardinality({o}) = 1
        BY FS_Singleton
    <3>2. QED
        BY <2>2, <3>1, FS_Subset
  <2>4. refLeft["break"] = RefMaxBreaks =>
          \A s \in given \cap RefStations : \E n \in RefNames : RefHolds(refServer[n], s)
      BY DEF RefIInv, RefUnmixed, Served
  <2>5. QED
      BY <2>3, <2>4
<1>2. RefIInv /\ [RefNext]_refVars =>
        [\A t \in RefTasks :
           refStatus'[t] # refStatus[t] /\ refStatus'[t].what # "got"
             => refXyz'[t] = refXyz[t]]_refVars
  <2> SUFFICES ASSUME RefIInv, RefNext, NEW t \in RefTasks,
                      refStatus'[t] # refStatus[t], refStatus'[t].what # "got"
               PROVE  refXyz'[t] = refXyz[t]
      OBVIOUS
  <2> PICK u \in RefTasks :
        \/ RefFrameBegin(u)
        \/ \E axes \in {{}, {"x"}, {"x", "y"}, RefAxes} : RefFrameEdit(u, axes)
        \/ RefFrameQuiet(u)
        \/ RefStart(u)
        \/ \E obs \in RefStations : RefOtherFile(u, obs)
        \/ RefGone(u) \/ RefBroken(u) \/ RefLoaded(u)
        \/ \E outcome \in {"unread", "absent", "found"} : RefRead(u, outcome)
        \/ RefPublish(u)
      BY DEF RefNext
  <2>1. CASE RefStart(u)
      BY <2>1 DEF RefStart
  <2>2. CASE RefPublish(u)
    <3>1. /\ refXyz' = [refXyz EXCEPT ![u] = RefPublished(u)]
          /\ refStatus' = [refStatus EXCEPT ![u] =
               [what |-> RefToldBy(refJob[u].at), station |-> refJob[u].station]]
        BY <2>2 DEF RefPublish
    <3>2. refXyz \in [RefTasks -> [RefAxes -> RefFrom]] /\ DOMAIN refStatus = RefTasks
        BY DEF RefIInv, RefTyped
    <3>3. t = u /\ RefToldBy(refJob[u].at) # "got"
        BY <3>1, <3>2
    <3>4. refJob[u].at # "found"
        BY <3>3 DEF RefToldBy
    <3>5. QED
        BY <3>1, <3>2, <3>3, <3>4 DEF RefPublished
  <2>3. CASE ~RefStart(u) /\ ~RefPublish(u)
    <3>1. refStatus' = refStatus
        BY <2>3 DEF RefFrameBegin, RefFrameEdit, RefFrameQuiet, RefOtherFile, RefGone, RefBroken,
                    RefLoaded, RefRead
    <3>2. QED
        BY <3>1
  <2>4. QED
      BY <2>1, <2>2, <2>3
<1>3. QED
    BY <1>1, <1>2, RefInvariant, PTL DEF RefSpec, RefIsKept, RefFailureKeeps

-----------------------------------------------------------------------------
(* InsRun. *)

USE InsAssumption

InsSigs == {<<>>} \cup InsLists
InsFiles == UNION {ToSet(files) : files \in InsLists}
InsDevices == {InsNothing} \cup {f.dev : f \in InsFiles}
InsSources == {"None", "Record", "Manual", "Guess"}
InsSegments == {InsSegment(f, half) : f \in InsFiles, half \in BOOLEAN}
InsReading == {"open", "pump", "detect", "stopCheck"}
InsSolving == {"resolve", "publish", "report"}
InsPcs == InsReading \cup InsSolving \cup {"finish", "end", "close", "exit"}

InsTaskTyped ==
  insTask \in [state : {"Idle", "Running", "Done"}, loading : BOOLEAN, stop : BOOLEAN,
               hasResult : BOOLEAN, runFailed : BOOLEAN]

InsPageTyped ==
  /\ insTool \in {"calib", "align"}
  /\ insFiles \in InsLists
  /\ insScale \in [asked : BOOLEAN, accepted : BOOLEAN, filled : BOOLEAN, sig : InsSigs]
  /\ insGui \in [pc : {"frame", "join", "segments"}, shows : Nat, accel : Nat, blank : BOOLEAN,
                 exported : Seq(Nat), runs : Nat]

InsResultTyped ==
  insPub \in [notice : Nat, segs : Seq(InsSegments), segsOf : Nat, accelReady : BOOLEAN,
              report : Seq(InsSegments), reportOf : Nat, src : InsSources]

InsWorkerTyped ==
  /\ insWorker \in [pc : InsPcs, run : Nat, at : Nat \ {0}, half : BOOLEAN,
                    sen : [model : InsDevices, conflict : BOOLEAN, src : InsSources],
                    segs : Seq(InsSegments)]
  /\ insWorker.pc \in {"pump", "detect"} => insWorker.at <= InsFileCount

\* The worker works only while the task is loading, and is of the last run begun, which the
\* task runs until the worker is gone.
InsOneWorker ==
  /\ insWorker.pc # "exit" => insWorker.run = insGui.runs /\ insTask.state = "Running"
  /\ insWorker.pc \notin {"close", "exit"} => insTask.loading

\* What is published, and what a frame or an export has taken of it, is of the last run
\* begun; the accelerometer is ready before the report only while that is on its way.
InsOneRun ==
  /\ insGui.shows \in {0, insGui.runs} /\ insGui.accel \in {0, insGui.runs}
  /\ insTool = "calib" /\ insGui.shows # 0 => insGui.accel = insGui.shows
  /\ insPub.report # <<>> => insPub.reportOf = insGui.runs
  /\ insPub.accelReady /\ insPub.report = <<>> => insWorker.pc = "report"
  /\ insTask.hasResult \/ insWorker.pc \in {"finish", "end"} =>
       insPub.report # <<>> /\ insPub.reportOf = insGui.runs
  /\ insTool = "calib" /\ (insTask.hasResult \/ insWorker.pc \in {"report", "finish", "end"}) =>
       insPub.segsOf = insGui.runs /\ insPub.accelReady
  /\ insGui.pc = "segments" => insTask.hasResult /\ insGui.exported = <<insGui.runs>>
  /\ insGui.pc # "segments" /\ Len(insGui.exported) = 2 =>
       insGui.exported[1] = insGui.exported[2]

OnceEach(segs) ==
  \A i, j \in DOMAIN segs : segs[i].body = segs[j].body => i = j
AllWhole(segs) == \A i \in DOMAIN segs : ~segs[i].half

\* A file left half read has left its stop behind: nothing is solved of it.
InsHalfIsStopped ==
  /\ OnceEach(insWorker.segs)
  /\ insWorker.pc = "pump" => ~insWorker.half
  /\ insWorker.pc \in InsReading /\ ~AllWhole(insWorker.segs) => insTask.stop
  /\ insWorker.pc = "detect" /\ insWorker.half => insTask.stop
  /\ insWorker.pc \in InsSolving => AllWhole(insWorker.segs) /\ insWorker.segs # <<>>
  /\ OnceEach(insPub.report) /\ AllWhole(insPub.report)

InsIInv ==
  /\ InsTaskTyped /\ InsPageTyped /\ InsResultTyped /\ InsWorkerTyped
  /\ InsOneWorker /\ InsOneRun /\ InsHalfIsStopped

LEMMA InsListed ==
  ASSUME NEW files \in InsLists
  PROVE  files \in Seq(InsFiles) /\ Len(files) \in Nat \ {0}
<1>1. files # <<>> /\ files \in Seq(ToSet(files))
    BY DEF InsAssumption
<1>2. ToSet(files) \subseteq InsFiles
    BY DEF InsFiles
<1> HIDE DEF InsFiles
<1>3. files \in Seq(InsFiles)
    BY <1>1, <1>2
<1>4. QED
    BY <1>1, <1>3

\* The file the worker has open is one of a list the user chose.
LEMMA InsFileOpen ==
  ASSUME InsPageTyped, InsWorkerTyped, insWorker.at <= InsFileCount
  PROVE  InsFileAt \in InsFiles /\ InsFileAt.dev \in InsDevices
<1>1. insFiles \in Seq(InsFiles) /\ Len(insFiles) \in Nat \ {0}
    BY InsListed DEF InsPageTyped
<1>2. insWorker.at \in 1 .. Len(insFiles)
    BY <1>1 DEF InsFileCount, InsWorkerTyped
<1>3. InsFileAt \in InsFiles
    BY <1>1, <1>2 DEF InsFileAt
<1>4. QED
    BY <1>3 DEF InsDevices

LEMMA InsTaskKept ==
  ASSUME InsTaskTyped, [InsNext]_insVars
  PROVE  InsTaskTyped'
<1> USE DEF InsTaskTyped
<1>1. CASE InsBegin
    BY <1>1 DEF InsBegin, InsBegunTask, InsClearedTask
<1>2. CASE InsStop
    BY <1>2 DEF InsStop
<1>3. ASSUME NEW failed \in BOOLEAN, InsUnload(failed)
      PROVE  InsTaskTyped'
    BY <1>3 DEF InsUnload
<1>4. InsAbort => InsUnload(TRUE)
    BY DEF InsAbort
<1>5. CASE InsFinish
    BY <1>5 DEF InsFinish
<1>6. CASE InsCancel \/ InsClose
    BY <1>6 DEF InsCancel, InsClose
<1>7. InsOpen \/ InsStopCheck \/ InsFindScale \/ InsPublish \/ InsEnd =>
        InsAbort \/ UNCHANGED insTask \/ InsUnload(insTask.runFailed)
    BY Zenon DEF InsOpen, InsStopCheck, InsFindScale, InsPublish, InsEnd
<1>8. InsEdit \/ InsStart \/ InsFill \/ InsAccept \/ InsSkip \/ InsReopen \/ InsFrame
        \/ InsExportReport \/ InsExportSegments \/ InsPump \/ InsDetect \/ InsReport =>
        UNCHANGED insTask
    BY Zenon DEF InsEdit, InsStart, InsFill, InsAccept, InsSkip, InsReopen, InsFrame,
                 InsExportReport, InsExportSegments, InsPump, InsDetect, InsReport
<1>9. UNCHANGED insVars => UNCHANGED insTask
    BY DEF insVars
<1>11. insTask.runFailed \in BOOLEAN
    OBVIOUS
<1> HIDE DEF InsTaskTyped
<1>12. UNCHANGED insTask => InsTaskTyped'
    BY DEF InsTaskTyped
<1>10. QED
    BY <1>1, <1>2, <1>3, <1>4, <1>5, <1>6, <1>7, <1>8, <1>9, <1>11, <1>12, Zenon
       DEF InsNext, InsGuiNext, InsWorkerNext

LEMMA InsPressed ==
  ASSUME InsPageTyped,
         NEW sf \in [asked : BOOLEAN, accepted : BOOLEAN, filled : BOOLEAN, sig : InsSigs],
         InsPress(sf), UNCHANGED <<insTool, insFiles>>
  PROVE  InsPageTyped'
<1>1. insFiles \in InsSigs
    BY DEF InsPageTyped, InsSigs
<1> HIDE DEF InsSigs
<1>2. QED
    BY <1>1 DEF InsPress, InsKeepManual, InsPageTyped

LEMMA InsPageKept ==
  ASSUME InsPageTyped, InsResultTyped, [InsNext]_insVars
  PROVE  InsPageTyped'
<1> HIDE DEF InsSigs, InsSegments
<1> DEFINE Scales == [asked : BOOLEAN, accepted : BOOLEAN, filled : BOOLEAN, sig : InsSigs]
           Guis == [pc : {"frame", "join", "segments"}, shows : Nat, accel : Nat, blank : BOOLEAN,
                    exported : Seq(Nat), runs : Nat]
<1>1. CASE InsEdit
    BY <1>1 DEF InsEdit, InsPageTyped
<1>2. CASE InsStart
  <2>1. InsPress(insScale) /\ UNCHANGED <<insTool, insFiles>>
      BY <1>2 DEF InsStart
  <2>2. QED
      BY <2>1, InsPressed DEF InsPageTyped
<1>3. CASE InsAccept
  <2> DEFINE sf == [insScale EXCEPT !.accepted = TRUE, !.asked = FALSE]
  <2>1. sf \in Scales
      BY DEF InsPageTyped
  <2>2. InsPress(sf) /\ UNCHANGED <<insTool, insFiles>>
      BY <1>3 DEF InsAccept
  <2>3. QED
      BY <2>1, <2>2, InsPressed
<1>4. CASE InsFill \/ InsSkip \/ InsReopen
  <2>1. insScale' \in Scales
      BY <1>4 DEF InsFill, InsSkip, InsReopen, InsPageTyped
  <2>2. QED
      BY <1>4, <2>1 DEF InsFill, InsSkip, InsReopen, InsPageTyped
<1>5. CASE InsBegin
  <2>1. insGui.runs + 1 \in Nat /\ insGui \in Guis
      BY DEF InsPageTyped
  <2>2. insGui' = [insGui EXCEPT !.pc = "frame", !.runs = insGui.runs + 1,
                                    !.shows = 0, !.accel = 0, !.blank = FALSE]
      BY <1>5 DEF InsBegin
  <2>3. insGui' \in Guis
      BY <2>1, <2>2
  <2>4. QED
      BY <1>5, <2>3 DEF InsBegin, InsPageTyped
<1>6. CASE InsFrame
  <2>1. insGui' \in Guis
      BY <1>6 DEF InsFrame, InsPageTyped, InsResultTyped
  <2>2. QED
      BY <1>6, <2>1 DEF InsFrame, InsPageTyped
<1>7. CASE InsExportReport
  <2>1. <<insPub.reportOf>> \in Seq(Nat)
      BY DEF InsResultTyped
  <2>2. insGui' \in Guis
      BY <1>7, <2>1 DEF InsExportReport, InsPageTyped
  <2>3. QED
      BY <1>7, <2>2 DEF InsExportReport, InsPageTyped
<1>8. CASE InsExportSegments
  <2>1. insGui.exported \in Seq(Nat) /\ Append(insGui.exported, insPub.segsOf) \in Seq(Nat)
      BY DEF InsResultTyped, InsPageTyped
  <2>2. insGui' \in Guis
      BY <1>8, <2>1 DEF InsExportSegments, InsPageTyped
  <2>3. QED
      BY <1>8, <2>2 DEF InsExportSegments, InsPageTyped
<1>9. CASE InsFindScale
  <2>1. insScale' \in Scales
      BY <1>9 DEF InsFindScale, InsPageTyped
  <2>2. QED
      BY <1>9, <2>1 DEF InsFindScale, InsPageTyped
<1>10. CASE UNCHANGED <<insTool, insFiles, insScale, insGui>>
    BY <1>10 DEF InsPageTyped
<1>11. InsCancel \/ InsStop \/ InsOpen \/ InsPump \/ InsDetect \/ InsStopCheck \/ InsPublish
         \/ InsReport \/ InsFinish \/ InsEnd \/ InsClose \/ UNCHANGED insVars =>
         UNCHANGED <<insTool, insFiles, insScale, insGui>>
    BY Zenon DEF InsCancel, InsStop, InsOpen, InsPump, InsDetect, InsStopCheck, InsPublish,
                 InsReport, InsFinish, InsEnd, InsClose, insVars
<1>12. QED
    BY <1>1, <1>2, <1>3, <1>4, <1>5, <1>6, <1>7, <1>8, <1>9, <1>10, <1>11, Zenon
       DEF InsNext, InsGuiNext, InsWorkerNext

LEMMA InsResultKept ==
  ASSUME InsResultTyped, InsWorkerTyped, [InsNext]_insVars
  PROVE  InsResultTyped'
<1> HIDE DEF InsSegments, InsSources
<1>0. /\ insWorker.run \in Nat /\ insWorker.segs \in Seq(InsSegments)
      /\ insWorker.sen.src \in InsSources
    BY DEF InsWorkerTyped
<1> USE DEF InsResultTyped
<1>1. CASE InsBegin
  <2>1. <<>> \in Seq(InsSegments)
      OBVIOUS
  <2>2. QED
      BY <1>1, <2>1 DEF InsBegin
<1>2. CASE InsOpen
  <2>1. insPub' = insPub \/ \E n \in {insWorker.run, insPub.notice} : insPub' = [insPub EXCEPT !.notice = n]
      BY <1>2 DEF InsOpen
  <2>2. QED
      BY <1>0, <2>1
<1>3. CASE InsPublish
  <2>1. \/ insPub' = insPub
        \/ insPub' = [insPub EXCEPT !.segs = insWorker.segs, !.segsOf = insWorker.run,
                                    !.accelReady = TRUE]
        \/ insPub' = [insPub EXCEPT !.notice = insWorker.run]
      BY <1>3 DEF InsPublish
  <2>2. QED
      BY <1>0, <2>1
<1>4. CASE InsReport
    BY <1>0, <1>4 DEF InsReport
<1>5. CASE UNCHANGED insPub
    BY <1>5
<1>6. InsEdit \/ InsCancel \/ InsStart \/ InsStop \/ InsFill \/ InsAccept \/ InsSkip \/ InsReopen
        \/ InsFrame \/ InsExportReport \/ InsExportSegments \/ InsPump \/ InsDetect
        \/ InsStopCheck \/ InsFindScale \/ InsFinish \/ InsEnd \/ InsClose
        \/ UNCHANGED insVars => UNCHANGED insPub
    BY Zenon DEF InsEdit, InsCancel, InsStart, InsStop, InsFill, InsAccept, InsSkip, InsReopen,
                 InsFrame, InsExportReport, InsExportSegments, InsPump, InsDetect, InsStopCheck,
                 InsFindScale, InsFinish, InsEnd, InsClose, insVars
<1>7. QED
    BY <1>1, <1>2, <1>3, <1>4, <1>5, <1>6, Zenon DEF InsNext, InsGuiNext, InsWorkerNext

\* What opening the next file comes to.
LEMMA InsOpenSteps ==
  ASSUME InsPageTyped, InsWorkerTyped, InsOpen
  PROVE  /\ insWorker.pc = "open"
         /\ UNCHANGED <<insTool, insFiles, insScale, insGui>>
         /\ \/ InsAbort /\ UNCHANGED insPub
            \/ InsGo("stopCheck") /\ UNCHANGED <<insTask, insPub>>
            \/ /\ insWorker' = [insWorker EXCEPT !.at = @ + 1]
               /\ UNCHANGED <<insTask, insPub>>
            \/ \E sen \in [model : InsDevices, conflict : BOOLEAN, src : {insWorker.sen.src}] :
                 /\ insWorker.at <= InsFileCount
                 /\ insWorker' = [insWorker EXCEPT !.pc = "pump", !.sen = sen, !.half = FALSE]
                 /\ \E n \in {insWorker.run, insPub.notice} :
                      insPub' = [insPub EXCEPT !.notice = n]
                 /\ UNCHANGED insTask
<1> HIDE DEF InsDevices, InsSources, InsSegments, InsSigs
<1> DEFINE sen == InsObserve(insWorker.sen, InsFileAt)
<1>1. insWorker.pc = "open" /\ UNCHANGED <<insTool, insFiles, insScale, insGui>>
    BY DEF InsOpen
<1>2. InsFileCount \in Nat
  <2>1. Len(insFiles) \in Nat
      BY InsListed DEF InsPageTyped
  <2>2. QED
      BY <2>1 DEF InsFileCount
<1>3. insWorker.at > InsFileCount \/ insWorker.at <= InsFileCount
    BY <1>2 DEF InsWorkerTyped
<1>4. insWorker.at <= InsFileCount =>
        sen \in [model : InsDevices, conflict : BOOLEAN, src : {insWorker.sen.src}]
  <2>1. insWorker.at <= InsFileCount => InsFileAt.dev \in InsDevices
      BY <1>1, InsFileOpen
  <2>2. insWorker.sen \in [model : InsDevices, conflict : BOOLEAN, src : InsSources]
      BY DEF InsWorkerTyped
  <2>3. QED
      BY <2>1, <2>2 DEF InsObserve
<1> HIDE DEF sen
<1>5. QED
    BY <1>1, <1>3, <1>4, Zenon DEF InsOpen, sen

LEMMA InsWorkerKept ==
  ASSUME InsPageTyped, InsWorkerTyped, InsOneWorker, [InsNext]_insVars
  PROVE  InsWorkerTyped'
<1> USE DEF InsGo
<1> HIDE DEF InsSigs, InsSegments, InsDevices, InsSources
<1>n. /\ <<>> \in Seq(InsSegments) /\ {insWorker.sen.src} \subseteq InsSources
      /\ InsNothing \in InsDevices /\ InsSources = {"None", "Record", "Manual", "Guess"}
    BY DEF InsDevices, InsSources, InsWorkerTyped
<1>p. InsPcs = {"open", "pump", "detect", "stopCheck", "resolve", "publish", "report", "finish",
                "end", "close", "exit"}
    BY DEF InsPcs, InsReading, InsSolving
<1> HIDE DEF InsPcs
<1> USE DEF InsWorkerTyped
<1>1. CASE InsBegin
  <2>2. insGui.runs + 1 \in Nat
      BY DEF InsPageTyped
  <2>3. insWorker' = [pc |-> "open", run |-> insGui.runs + 1, at |-> 1,
                      half |-> FALSE, sen |-> InsNoScale, segs |-> <<>>]
      BY <1>1 DEF InsBegin, InsIdle
  <2>4. InsNoScale \in [model : InsDevices, conflict : BOOLEAN, src : InsSources]
      BY <1>n DEF InsNoScale
  <2>5. QED
      BY <2>2, <2>3, <2>4, <1>n, <1>p
<1>2. CASE insWorker' = insWorker /\ insTool' = insTool /\ insFiles' = insFiles
    BY <1>2 DEF InsFileCount
<1>3. ASSUME NEW pc \in {"stopCheck", "resolve", "report", "finish", "end", "close", "exit"},
             InsGo(pc)
      PROVE  InsWorkerTyped'
  <2>1. pc \in InsPcs
      BY <1>3, <1>p
  <2>2. insWorker' \in [pc : InsPcs, run : Nat, at : Nat \ {0}, half : BOOLEAN,
                        sen : [model : InsDevices, conflict : BOOLEAN, src : InsSources],
                        segs : Seq(InsSegments)]
      BY <1>3, <2>1
  <2>3. insWorker'.pc = pc
      BY <1>3
  <2>4. QED
      BY <1>3, <2>2, <2>3
<1>abort. ASSUME NEW failed, InsUnload(failed)
          PROVE  InsWorkerTyped'
    BY <1>3, <1>abort DEF InsUnload
<1> HIDE DEF InsGo
<1>4. CASE InsOpen
  <2>1. CASE \/ InsAbort /\ UNCHANGED insPub
             \/ InsGo("stopCheck") /\ UNCHANGED <<insTask, insPub>>
      BY <1>3, <1>abort, <2>1 DEF InsAbort
  <2>2. CASE insWorker' = [insWorker EXCEPT !.at = @ + 1]
    <3>1. insWorker.at + 1 \in Nat \ {0} /\ insWorker.pc = "open"
        BY <1>4 DEF InsOpen
    <3>2. insWorker' \in [pc : InsPcs, run : Nat, at : Nat \ {0}, half : BOOLEAN,
                          sen : [model : InsDevices, conflict : BOOLEAN, src : InsSources],
                          segs : Seq(InsSegments)]
        BY <2>2, <3>1
    <3>3. insWorker'.pc = "open"
        BY <2>2, <3>1
    <3>4. QED
        BY <3>1, <3>2, <3>3
  <2>3. CASE \E sen \in [model : InsDevices, conflict : BOOLEAN, src : {insWorker.sen.src}] :
               /\ insWorker.at <= InsFileCount
               /\ insWorker' = [insWorker EXCEPT !.pc = "pump", !.sen = sen, !.half = FALSE]
    <3>1. PICK sen \in [model : InsDevices, conflict : BOOLEAN, src : {insWorker.sen.src}] :
            /\ insWorker.at <= InsFileCount
            /\ insWorker' = [insWorker EXCEPT !.pc = "pump", !.sen = sen, !.half = FALSE]
        BY <2>3
    <3>2. sen \in [model : InsDevices, conflict : BOOLEAN, src : InsSources]
        BY <1>n
    <3>3. InsFileCount' = InsFileCount
        BY <3>1, <1>4 DEF InsOpen, InsFileCount
    <3>4. QED
        BY <3>1, <3>2, <3>3, <1>p
  <2>4. QED
      BY <1>4, <2>1, <2>2, <2>3, InsOpenSteps
<1>5. CASE InsPump
  <2>1. insWorker.pc = "pump" /\ insTool' = insTool /\ insFiles' = insFiles
      BY <1>5 DEF InsPump
  <2>2. PICK h \in {TRUE, insWorker.half} : insWorker' = [insWorker EXCEPT !.pc = "detect", !.half = h]
      BY <1>5 DEF InsPump, InsGo
  <2>3. InsFileCount' = InsFileCount
      BY <2>1, <2>2 DEF InsFileCount
  <2>4. h \in BOOLEAN
      BY Zenon
  <2>5. QED
      BY <2>1, <2>2, <2>3, <2>4, <1>p
<1>6. CASE InsDetect
  <2>1. InsFileAt \in InsFiles
      BY <1>6, InsFileOpen DEF InsDetect
  <2>2. InsSegment(InsFileAt, insWorker.half) \in InsSegments
      BY <2>1 DEF InsSegments
  <2>3. PICK segs \in Seq(InsSegments) :
          insWorker' = [insWorker EXCEPT !.pc = "open", !.at = @ + 1, !.segs = segs]
    <3>1. Append(insWorker.segs, InsSegment(InsFileAt, insWorker.half)) \in Seq(InsSegments)
        BY <2>2
    <3>2. QED
        BY <1>6, <3>1 DEF InsDetect
  <2>5. insWorker.at + 1 \in Nat \ {0} /\ "open" \in InsPcs
      BY <1>p
  <2>6. insWorker' \in [pc : InsPcs, run : Nat, at : Nat \ {0}, half : BOOLEAN,
                        sen : [model : InsDevices, conflict : BOOLEAN, src : InsSources],
                        segs : Seq(InsSegments)]
      BY <2>3, <2>5
  <2>7. insWorker'.pc = "open"
      BY <2>3
  <2>8. QED
      BY <2>6, <2>7
<1>7. CASE InsStopCheck
  <2>1. \/ \E failed : InsUnload(failed)
        \/ InsGo("resolve")
      BY <1>7, Zenon DEF InsStopCheck, InsAbort
  <2>2. QED
      BY <1>3, <1>abort, <2>1
<1>8. CASE InsFindScale
  <2> DEFINE sen == InsResolve(insWorker.sen, insScale, ToSet(insWorker.segs))
  <2>1. sen \in [model : InsDevices, conflict : BOOLEAN, src : InsSources]
      BY <1>n DEF InsResolve
  <2> HIDE DEF sen
  <2>3. InsUnload(TRUE) \/ insWorker' = [insWorker EXCEPT !.pc = "publish", !.sen = sen]
      BY <1>8 DEF InsFindScale, InsAbort, sen
  <2>4. CASE insWorker' = [insWorker EXCEPT !.pc = "publish", !.sen = sen]
      BY <2>1, <2>4, <1>p
  <2>5. QED
      BY <2>3, <2>4, <1>abort
<1>9. CASE InsPublish
  <2>1. InsUnload(TRUE) \/ InsGo("report")
      BY <1>9 DEF InsPublish, InsAbort
  <2>2. QED
      BY <1>3, <1>abort, <2>1
<1>10. CASE InsReport \/ InsFinish \/ InsEnd \/ InsClose
  <2>1. InsGo("finish") \/ InsGo("end") \/ InsGo("close") \/ InsGo("exit")
      BY <1>10 DEF InsReport, InsFinish, InsEnd, InsUnload, InsClose
  <2>2. QED
      BY <1>3, <2>1
<1>15. InsCancel \/ InsStart \/ InsStop \/ InsFill \/ InsAccept \/ InsSkip \/ InsReopen \/ InsFrame
         \/ InsExportReport \/ InsExportSegments \/ UNCHANGED insVars =>
         insWorker' = insWorker /\ insTool' = insTool /\ insFiles' = insFiles
    BY Zenon DEF InsCancel, InsStart, InsStop, InsFill, InsAccept, InsSkip, InsReopen, InsFrame,
                 InsExportReport, InsExportSegments, insVars
<1>11. CASE InsEdit
  <2>1. insWorker' = insWorker /\ insWorker.pc = "exit"
      BY <1>11 DEF InsEdit, InsOneWorker
  <2>2. QED
      BY <2>1
<1>12. QED
    BY <1>1, <1>2, <1>4, <1>5, <1>6, <1>7, <1>8, <1>9, <1>10, <1>11, <1>15, Zenon
       DEF InsNext, InsGuiNext, InsWorkerNext

\* What the steps of the worker leave alone, and how one of them ends the run.
InsSameRun == insWorker'.run = insWorker.run
InsSameResult ==
  /\ insPub'.report = insPub.report /\ insPub'.reportOf = insPub.reportOf
  /\ insPub'.segsOf = insPub.segsOf /\ insPub'.accelReady = insPub.accelReady
InsRunEnds ==
  /\ insWorker'.pc = "close" /\ insWorker'.segs = insWorker.segs /\ InsSameRun
  /\ insTask'.hasResult = insTask.hasResult /\ insTask'.state = insTask.state

LEMMA InsGoes ==
  ASSUME InsWorkerTyped, NEW pc, InsGo(pc)
  PROVE  /\ insWorker'.pc = pc /\ insWorker'.segs = insWorker.segs
         /\ insWorker'.half = insWorker.half /\ InsSameRun
<1> HIDE DEF InsSegments, InsSigs, InsDevices, InsSources, InsPcs
<1> QED
    BY DEF InsWorkerTyped, InsGo, InsSameRun

LEMMA InsAborts ==
  ASSUME InsWorkerTyped, InsTaskTyped, NEW failed, InsUnload(failed)
  PROVE  InsRunEnds
<1>1. insTask'.hasResult = insTask.hasResult /\ insTask'.state = insTask.state
    BY DEF InsTaskTyped, InsUnload
<1>2. QED
    BY <1>1, InsGoes DEF InsUnload, InsRunEnds

LEMMA InsReadSteps ==
  ASSUME InsTaskTyped, InsPageTyped, InsResultTyped, InsWorkerTyped
  PROVE  /\ InsOpen =>
              /\ insWorker.pc = "open" /\ UNCHANGED <<insTool, insFiles, insScale, insGui>>
              /\ InsSameResult
              /\ \/ InsRunEnds
                 \/ /\ UNCHANGED insTask /\ insWorker'.segs = insWorker.segs /\ InsSameRun
                    /\ insWorker'.pc \in {"open", "stopCheck", "pump"}
                    /\ insWorker'.pc = "pump" => ~insWorker'.half
         /\ InsPump =>
              /\ insWorker.pc = "pump"
              /\ UNCHANGED <<insTool, insFiles, insTask, insScale, insPub, insGui>>
              /\ InsSameRun /\ insWorker'.segs = insWorker.segs /\ insWorker'.pc = "detect"
              /\ ~insWorker.half /\ insWorker'.half => insTask.stop
         /\ InsDetect =>
              /\ insWorker.pc = "detect"
              /\ UNCHANGED <<insTool, insFiles, insTask, insScale, insPub, insGui>>
              /\ InsSameRun /\ insWorker'.pc = "open"
              /\ insWorker'.segs = IF InsSeen(InsFileAt) THEN insWorker.segs
                                   ELSE Append(insWorker.segs, InsSegment(InsFileAt, insWorker.half))
<1> HIDE DEF InsSegments, InsSigs, InsDevices, InsSources, InsPcs
<1>1. ASSUME InsOpen
      PROVE  /\ InsSameResult
             /\ \/ InsRunEnds
                \/ /\ UNCHANGED insTask /\ insWorker'.segs = insWorker.segs /\ InsSameRun
                   /\ insWorker'.pc \in {"open", "stopCheck", "pump"}
                   /\ insWorker'.pc = "pump" => ~insWorker'.half
  <2>0. insWorker.pc = "open"
      BY <1>1 DEF InsOpen
  <2>1. CASE InsAbort /\ UNCHANGED insPub
      BY <2>1, InsAborts DEF InsSameResult, InsAbort
  <2>2. CASE InsGo("stopCheck") /\ UNCHANGED <<insTask, insPub>>
      BY <2>2, InsGoes DEF InsSameResult
  <2>3. CASE /\ insWorker' = [insWorker EXCEPT !.at = @ + 1]
             /\ UNCHANGED <<insTask, insPub>>
    <3>1. insWorker'.pc = "open" /\ insWorker'.segs = insWorker.segs /\ InsSameRun
        BY <2>0, <2>3 DEF InsWorkerTyped, InsSameRun
    <3>2. QED
        BY <2>3, <3>1 DEF InsSameResult
  <2>4. ASSUME NEW sen \in [model : InsDevices, conflict : BOOLEAN, src : {insWorker.sen.src}],
               insWorker' = [insWorker EXCEPT !.pc = "pump", !.sen = sen, !.half = FALSE],
               NEW n \in {insWorker.run, insPub.notice},
               insPub' = [insPub EXCEPT !.notice = n],
               UNCHANGED insTask
        PROVE  /\ InsSameResult
               /\ UNCHANGED insTask /\ insWorker'.segs = insWorker.segs /\ InsSameRun
               /\ insWorker'.pc = "pump" /\ ~insWorker'.half
    <3>1. InsSameResult
        BY <2>4 DEF InsSameResult, InsResultTyped
    <3>2. /\ insWorker'.segs = insWorker.segs /\ InsSameRun
          /\ insWorker'.pc = "pump" /\ insWorker'.half = FALSE
        BY <2>4 DEF InsWorkerTyped, InsSameRun
    <3>3. QED
        BY <2>4, <3>1, <3>2
  <2>5. QED
      BY <1>1, <2>1, <2>2, <2>3, <2>4, InsOpenSteps
<1>2. InsOpen => insWorker.pc = "open" /\ UNCHANGED <<insTool, insFiles, insScale, insGui>>
    BY Zenon DEF InsOpen
<1>3. ASSUME InsPump
      PROVE  /\ InsSameRun /\ insWorker'.segs = insWorker.segs /\ insWorker'.pc = "detect"
             /\ ~insWorker.half /\ insWorker'.half => insTask.stop
  <2>1. CASE insTask.stop /\ insWorker' = [insWorker EXCEPT !.pc = "detect", !.half = TRUE]
      BY <2>1 DEF InsWorkerTyped, InsSameRun
  <2>2. CASE InsGo("detect")
      BY <2>2, InsGoes, Zenon
  <2>3. QED
      BY <1>3, <2>1, <2>2, Zenon DEF InsPump
<1>4. InsPump => /\ insWorker.pc = "pump"
                 /\ UNCHANGED <<insTool, insFiles, insTask, insScale, insPub, insGui>>
    BY Zenon DEF InsPump
<1>5. ASSUME InsDetect
      PROVE  /\ InsSameRun /\ insWorker'.pc = "open"
             /\ insWorker'.segs = IF InsSeen(InsFileAt) THEN insWorker.segs
                                  ELSE Append(insWorker.segs, InsSegment(InsFileAt, insWorker.half))
    BY <1>5 DEF InsDetect, InsWorkerTyped, InsSameRun
<1>6. InsDetect => /\ insWorker.pc = "detect"
                   /\ UNCHANGED <<insTool, insFiles, insTask, insScale, insPub, insGui>>
    BY Zenon DEF InsDetect
<1>7. QED
    BY <1>1, <1>2, <1>3, <1>4, <1>5, <1>6, Zenon

LEMMA InsSolveSteps ==
  ASSUME InsTaskTyped, InsPageTyped, InsResultTyped, InsWorkerTyped
  PROVE  /\ InsStopCheck =>
              /\ insWorker.pc = "stopCheck"
              /\ UNCHANGED <<insTool, insFiles, insScale, insPub, insGui>>
              /\ \/ InsRunEnds
                 \/ /\ ~insTask.stop /\ insWorker.segs # <<>> /\ UNCHANGED insTask
                    /\ InsSameRun /\ insWorker'.segs = insWorker.segs
                    /\ insWorker'.pc = "resolve"
         /\ InsFindScale =>
              /\ insWorker.pc = "resolve" /\ UNCHANGED <<insTool, insFiles, insPub, insGui>>
              /\ \/ InsRunEnds
                 \/ /\ UNCHANGED insTask /\ InsSameRun
                    /\ insWorker'.segs = insWorker.segs /\ insWorker'.pc = "publish"
         /\ InsPublish =>
              /\ insWorker.pc = "publish" /\ UNCHANGED <<insTool, insFiles, insScale, insGui>>
              /\ insPub'.report = insPub.report /\ insPub'.reportOf = insPub.reportOf
              /\ \/ InsRunEnds /\ UNCHANGED insPub
                 \/ /\ UNCHANGED insTask /\ InsSameRun
                    /\ insWorker'.segs = insWorker.segs /\ insWorker'.pc = "report"
                    /\ insPub'.segsOf = IF insTool = "calib" THEN insWorker.run ELSE insPub.segsOf
                    /\ insPub'.accelReady = (insTool = "calib" \/ insPub.accelReady)
         /\ InsReport =>
              /\ insWorker.pc = "report"
              /\ UNCHANGED <<insTool, insFiles, insTask, insScale, insGui>>
              /\ InsSameRun /\ insWorker'.segs = insWorker.segs /\ insWorker'.pc = "finish"
              /\ insPub'.report = insWorker.segs /\ insPub'.reportOf = insWorker.run
              /\ insPub'.segsOf = insPub.segsOf /\ insPub'.accelReady = insPub.accelReady
         /\ InsFinish =>
              /\ insWorker.pc = "finish"
              /\ UNCHANGED <<insTool, insFiles, insScale, insPub, insGui>>
              /\ InsSameRun /\ insWorker'.segs = insWorker.segs /\ insWorker'.pc = "end"
              /\ insTask'.loading = insTask.loading /\ insTask'.hasResult
              /\ insTask'.state = insTask.state
         /\ InsEnd =>
              /\ insWorker.pc = "end"
              /\ UNCHANGED <<insTool, insFiles, insScale, insPub, insGui>>
              /\ InsRunEnds
<1> HIDE DEF InsSegments, InsSigs, InsDevices, InsSources, InsPcs
<1>1. ASSUME InsStopCheck
      PROVE  \/ InsRunEnds
             \/ /\ ~insTask.stop /\ insWorker.segs # <<>> /\ UNCHANGED insTask
                /\ InsSameRun /\ insWorker'.segs = insWorker.segs
                /\ insWorker'.pc = "resolve"
  <2>1. CASE InsUnload(insTask.runFailed)
      BY <2>1, InsAborts
  <2>2. CASE InsAbort
      BY <2>2, InsAborts DEF InsAbort
  <2>3. CASE ~insTask.stop /\ insWorker.segs # <<>> /\ InsGo("resolve") /\ UNCHANGED insTask
      BY <2>3, InsGoes
  <2>4. QED
      BY <1>1, <2>1, <2>2, <2>3, Zenon DEF InsStopCheck, InsStopped
<1>2. ASSUME InsFindScale
      PROVE  \/ InsRunEnds
             \/ /\ UNCHANGED insTask /\ InsSameRun
                /\ insWorker'.segs = insWorker.segs /\ insWorker'.pc = "publish"
  <2>2. InsAbort \/ \E sen : /\ insWorker' = [insWorker EXCEPT !.pc = "publish", !.sen = sen]
                             /\ UNCHANGED insTask
      BY <1>2, Zenon DEF InsFindScale
  <2>3. ASSUME NEW sen, insWorker' = [insWorker EXCEPT !.pc = "publish", !.sen = sen]
        PROVE  InsSameRun /\ insWorker'.segs = insWorker.segs /\ insWorker'.pc = "publish"
      BY <2>3 DEF InsWorkerTyped, InsSameRun
  <2>4. QED
      BY <2>2, <2>3, InsAborts DEF InsAbort
<1>3. ASSUME InsPublish
      PROVE  /\ insPub'.report = insPub.report /\ insPub'.reportOf = insPub.reportOf
             /\ \/ InsRunEnds /\ UNCHANGED insPub
                \/ /\ UNCHANGED insTask /\ InsSameRun
                   /\ insWorker'.segs = insWorker.segs /\ insWorker'.pc = "report"
                   /\ insPub'.segsOf = IF insTool = "calib" THEN insWorker.run ELSE insPub.segsOf
                   /\ insPub'.accelReady = (insTool = "calib" \/ insPub.accelReady)
  <2>1. CASE InsAbort /\ UNCHANGED insPub
      BY <2>1, InsAborts DEF InsAbort
  <2>2. CASE /\ insPub' = IF insTool = "calib"
                          THEN [insPub EXCEPT !.segs = insWorker.segs, !.segsOf = insWorker.run,
                                              !.accelReady = TRUE]
                          ELSE [insPub EXCEPT !.notice = insWorker.run]
             /\ InsGo("report") /\ UNCHANGED insTask
    <3>1. /\ insPub'.report = insPub.report /\ insPub'.reportOf = insPub.reportOf
          /\ insPub'.segsOf = IF insTool = "calib" THEN insWorker.run ELSE insPub.segsOf
          /\ insPub'.accelReady = (insTool = "calib" \/ insPub.accelReady)
        BY <2>2 DEF InsResultTyped
    <3>2. QED
        BY <2>2, <3>1, InsGoes
  <2>3. QED
      BY <1>3, <2>1, <2>2, Zenon DEF InsPublish
<1>4. ASSUME InsReport
      PROVE  /\ InsSameRun /\ insWorker'.segs = insWorker.segs /\ insWorker'.pc = "finish"
             /\ insPub'.report = insWorker.segs /\ insPub'.reportOf = insWorker.run
             /\ insPub'.segsOf = insPub.segsOf /\ insPub'.accelReady = insPub.accelReady
  <2>1. /\ insPub'.report = insWorker.segs /\ insPub'.reportOf = insWorker.run
        /\ insPub'.segsOf = insPub.segsOf /\ insPub'.accelReady = insPub.accelReady
      BY <1>4 DEF InsReport, InsResultTyped
  <2>2. QED
      BY <1>4, <2>1, InsGoes DEF InsReport
<1>5. ASSUME InsFinish
      PROVE  /\ InsSameRun /\ insWorker'.segs = insWorker.segs /\ insWorker'.pc = "end"
             /\ insTask'.loading = insTask.loading /\ insTask'.hasResult
             /\ insTask'.state = insTask.state
  <2>1. /\ insTask'.loading = insTask.loading /\ insTask'.hasResult = TRUE
        /\ insTask'.state = insTask.state
      BY <1>5 DEF InsFinish, InsTaskTyped
  <2>2. QED
      BY <1>5, <2>1, InsGoes DEF InsFinish
<1>6. ASSUME InsEnd
      PROVE  InsRunEnds
  <2>1. InsUnload(insTask.runFailed)
      BY <1>6 DEF InsEnd
  <2>2. QED
      BY <2>1, InsAborts
<1>7. /\ InsStopCheck => /\ insWorker.pc = "stopCheck"
                         /\ UNCHANGED <<insTool, insFiles, insScale, insPub, insGui>>
      /\ InsFindScale => insWorker.pc = "resolve" /\ UNCHANGED <<insTool, insFiles, insPub, insGui>>
      /\ InsPublish => insWorker.pc = "publish" /\ UNCHANGED <<insTool, insFiles, insScale, insGui>>
      /\ InsReport => /\ insWorker.pc = "report"
                      /\ UNCHANGED <<insTool, insFiles, insTask, insScale, insGui>>
      /\ InsFinish => /\ insWorker.pc = "finish"
                      /\ UNCHANGED <<insTool, insFiles, insScale, insPub, insGui>>
      /\ InsEnd => /\ insWorker.pc = "end"
                   /\ UNCHANGED <<insTool, insFiles, insScale, insPub, insGui>>
    BY Zenon DEF InsStopCheck, InsFindScale, InsPublish, InsReport, InsFinish, InsEnd
<1>8. QED
    BY <1>1, <1>2, <1>3, <1>4, <1>5, <1>6, <1>7, Zenon

LEMMA InsOrder ==
  ASSUME InsTaskTyped, InsPageTyped, InsResultTyped, InsWorkerTyped, InsOneWorker, InsOneRun,
         InsHalfIsStopped, [InsNext]_insVars
  PROVE  InsOneWorker' /\ InsOneRun'
<1> HIDE DEF InsSegments, InsSigs, InsDevices, InsSources, InsPcs
<1> USE DEF InsOneWorker, InsOneRun
<1>1. CASE InsEdit \/ InsFill \/ InsSkip \/ InsReopen
    BY <1>1 DEF InsEdit, InsFill, InsSkip, InsReopen
<1>16. CASE InsCancel
  <2>1. insWorker.pc = "exit" /\ insTask'.hasResult = insTask.hasResult
      BY <1>16 DEF InsCancel, InsTaskTyped
  <2>2. QED
      BY <1>16, <2>1 DEF InsCancel
<1>17. CASE InsClose
  <2>1. insTask'.hasResult = insTask.hasResult
      BY <1>17 DEF InsClose, InsTaskTyped
  <2>2. insWorker'.pc = "exit" /\ insWorker.pc = "close"
      BY <1>17, InsGoes DEF InsClose
  <2>3. QED
      BY <1>17, <2>1, <2>2 DEF InsClose
<1>2. CASE InsStop
  <2>1. /\ insTask'.loading = insTask.loading /\ insTask'.hasResult = insTask.hasResult
        /\ insTask'.state = insTask.state
      BY <1>2 DEF InsStop, InsTaskTyped
  <2>2. QED
      BY <1>2, <2>1 DEF InsStop
<1>3. CASE InsFrame \/ InsExportReport
  <2>1. /\ insGui'.runs = insGui.runs
        /\ \/ /\ insGui'.pc = "frame" /\ insGui.pc = "frame"
              /\ insGui'.exported = insGui.exported
              /\ insGui'.shows = IF insTask.hasResult THEN insPub.reportOf ELSE 0
              /\ insGui'.accel = IF insPub.accelReady /\ insPub.report # <<>>
                                 THEN insPub.reportOf ELSE 0
           \/ /\ insGui'.pc = "segments" /\ insGui'.exported = <<insPub.reportOf>>
              /\ insTask.hasResult /\ insGui'.shows = insGui.shows /\ insGui'.accel = insGui.accel
      BY <1>3 DEF InsFrame, InsExportReport, InsPageTyped
  <2>2. QED
      BY <1>3, <2>1 DEF InsFrame, InsExportReport
<1>4. CASE InsStart \/ InsAccept
  <2>1. /\ insGui'.runs = insGui.runs /\ insGui'.pc = "join" /\ insGui.pc = "frame"
        /\ insGui'.exported = insGui.exported /\ insGui'.shows = insGui.shows
        /\ insGui'.accel = insGui.accel
      BY <1>4 DEF InsStart, InsAccept, InsPress, InsPageTyped
  <2>2. QED
      BY <1>4, <2>1 DEF InsStart, InsAccept, InsPress
<1>5. CASE InsBegin
  <2>1. insTask'.loading = TRUE /\ insTask'.hasResult = FALSE /\ insTask'.state = "Running"
      BY <1>5 DEF InsBegin, InsBegunTask, InsClearedTask
  <2>2. insWorker'.pc = "open" /\ insWorker'.run = insGui.runs + 1
      BY <1>5 DEF InsBegin, InsIdle
  <2>3. /\ insGui'.runs = insGui.runs + 1 /\ insGui'.pc = "frame" /\ insGui'.shows = 0
        /\ insGui'.exported = insGui.exported /\ insGui.pc = "join" /\ insGui'.accel = 0
      BY <1>5 DEF InsBegin, InsPageTyped
  <2>4. insPub'.report = <<>> /\ ~insPub'.accelReady
      BY <1>5 DEF InsBegin, InsResultTyped
  <2>5. QED
      BY <1>5, <2>1, <2>2, <2>3, <2>4 DEF InsBegin
<1>6. CASE InsExportSegments
  <2>1. insGui.exported = <<insGui.runs>>
      BY <1>6 DEF InsExportSegments
  <2>2. /\ insGui.exported \in Seq(Nat) /\ insPub.segsOf \in Nat
        /\ Len(insGui.exported) = 1 /\ insGui.exported[1] = insGui.runs
      BY <2>1 DEF InsPageTyped, InsResultTyped
  <2>3. /\ Append(insGui.exported, insPub.segsOf)[1] = insGui.runs
        /\ Append(insGui.exported, insPub.segsOf)[2] = insPub.segsOf
      BY <2>2
  <2>4. /\ insGui'.runs = insGui.runs /\ insGui'.pc = "frame" /\ insGui'.shows = insGui.shows
        /\ insGui'.accel = insGui.accel
        /\ insGui'.exported = IF insTool = "calib" THEN Append(insGui.exported, insPub.segsOf)
                              ELSE insGui.exported
      BY <1>6 DEF InsExportSegments, InsPageTyped
  <2>5. UNCHANGED <<insTool, insTask, insPub, insWorker>> /\ insTask.hasResult
      BY <1>6 DEF InsExportSegments
  <2>6. Len(insGui'.exported) = 2 => insGui'.exported[1] = insGui'.exported[2]
      BY <2>2, <2>3, <2>4, <2>5
  <2>7. QED
      BY <2>4, <2>5, <2>6
<1>7. CASE InsOpen \/ InsPump \/ InsDetect
    BY <1>7, InsReadSteps DEF InsSameRun, InsSameResult, InsRunEnds
<1>8. CASE InsStopCheck
    BY <1>8, InsSolveSteps DEF InsSameRun, InsRunEnds
<1>9. CASE InsFindScale
    BY <1>9, InsSolveSteps DEF InsSameRun, InsRunEnds
<1>10. CASE InsPublish
    BY <1>10, InsSolveSteps DEF InsSameRun, InsRunEnds
<1>11. CASE InsReport
    BY <1>11, InsSolveSteps DEF InsSameRun, InsHalfIsStopped, InsSolving
<1>12. CASE InsFinish
    BY <1>12, InsSolveSteps DEF InsSameRun
<1>13. CASE InsEnd
    BY <1>13, InsSolveSteps DEF InsSameRun, InsRunEnds
<1>15. CASE UNCHANGED insVars
    BY <1>15 DEF insVars
<1>14. QED
    BY <1>1, <1>2, <1>3, <1>4, <1>5, <1>6, <1>7, <1>8, <1>9, <1>10, <1>11, <1>12, <1>13, <1>15,
       <1>16, <1>17, Zenon
       DEF InsNext, InsGuiNext, InsWorkerNext

LEMMA InsDetected ==
  ASSUME InsPageTyped, InsWorkerTyped, InsDetect, OnceEach(insWorker.segs)
  PROVE  LET new == InsSegment(InsFileAt, insWorker.half)
         IN  /\ ~InsSeen(InsFileAt) => OnceEach(Append(insWorker.segs, new))
             /\ AllWhole(insWorker.segs) /\ ~insWorker.half =>
                  AllWhole(Append(insWorker.segs, new))
<1> HIDE DEF InsSegments, InsSigs, InsDevices, InsSources, InsPcs
<1> DEFINE new == InsSegment(InsFileAt, insWorker.half)
           n == Len(insWorker.segs)
<1>1. InsFileAt \in InsFiles
    BY InsFileOpen DEF InsDetect, InsWorkerTyped
<1>2. new \in InsSegments
    BY <1>1 DEF InsSegments, InsWorkerTyped
<1>3. new.body = InsFileAt.body /\ new.half = insWorker.half
    BY DEF InsSegment
<1> HIDE DEF new
<1>4. /\ DOMAIN Append(insWorker.segs, new) = 1 .. n + 1
      /\ n \in Nat /\ DOMAIN insWorker.segs = 1 .. n
      /\ \A k \in 1 .. n : Append(insWorker.segs, new)[k] = insWorker.segs[k]
      /\ Append(insWorker.segs, new)[n + 1] = new
    BY <1>2 DEF InsWorkerTyped
<1>5. ~InsSeen(InsFileAt) => OnceEach(Append(insWorker.segs, new))
  <2> SUFFICES ASSUME ~InsSeen(InsFileAt),
                      NEW i \in 1 .. n + 1, NEW j \in 1 .. n + 1,
                      Append(insWorker.segs, new)[i].body = Append(insWorker.segs, new)[j].body
               PROVE  i = j
      BY <1>4 DEF OnceEach
  <2>1. \A k \in 1 .. n : insWorker.segs[k].body # new.body
      BY <1>3, <1>4 DEF InsSeen
  <2>2. (i \in 1 .. n \/ i = n + 1) /\ (j \in 1 .. n \/ j = n + 1)
      BY <1>4
  <2>3. CASE i \in 1 .. n /\ j \in 1 .. n
    <3>1. insWorker.segs[i].body = insWorker.segs[j].body
        BY <1>4, <2>3
    <3>2. QED
        BY <1>4, <2>3, <3>1 DEF OnceEach
  <2>4. CASE i \in 1 .. n /\ j = n + 1
      BY <1>4, <2>1, <2>4
  <2>5. CASE i = n + 1 /\ j \in 1 .. n
      BY <1>4, <2>1, <2>5
  <2>6. QED
      BY <2>2, <2>3, <2>4, <2>5
<1>6. AllWhole(insWorker.segs) /\ ~insWorker.half => AllWhole(Append(insWorker.segs, new))
    BY <1>3, <1>4 DEF AllWhole
<1>7. QED
    BY <1>5, <1>6 DEF new

LEMMA InsWholeness ==
  ASSUME InsTaskTyped, InsPageTyped, InsResultTyped, InsWorkerTyped, InsHalfIsStopped,
         [InsNext]_insVars
  PROVE  InsHalfIsStopped'
<1> HIDE DEF InsSegments, InsSigs, InsDevices, InsSources, InsPcs
<1> USE DEF InsHalfIsStopped, InsReading, InsSolving
<1>none. OnceEach(<<>>) /\ AllWhole(<<>>)
    BY DEF OnceEach, AllWhole
<1> HIDE DEF OnceEach, AllWhole
<1>1. CASE UNCHANGED <<insTask, insPub, insWorker>>
    BY <1>1
<1>2. CASE InsStop
  <2>1. insTask'.stop = TRUE
      BY <1>2 DEF InsStop, InsTaskTyped
  <2>2. QED
      BY <1>2, <2>1 DEF InsStop
<1>3. CASE InsBegin
  <2>1. insPub'.report = <<>>
      BY <1>3 DEF InsBegin, InsResultTyped
  <2>2. insWorker'.pc = "open" /\ insWorker'.segs = <<>>
      BY <1>3 DEF InsBegin, InsIdle
  <2>3. QED
      BY <2>1, <2>2, <1>none
<1>4. CASE InsOpen
    BY <1>4, InsReadSteps DEF InsSameResult, InsRunEnds
<1>5. CASE InsPump
    BY <1>5, InsReadSteps
<1>6. CASE InsDetect
  <2> DEFINE longer == Append(insWorker.segs, InsSegment(InsFileAt, insWorker.half))
  <2>1. /\ ~InsSeen(InsFileAt) => OnceEach(longer)
        /\ AllWhole(insWorker.segs) /\ ~insWorker.half => AllWhole(longer)
      BY <1>6, InsDetected
  <2>2. /\ insWorker.pc = "detect" /\ UNCHANGED <<insTask, insPub>> /\ insWorker'.pc = "open"
        /\ insWorker'.segs = insWorker.segs \/ (~InsSeen(InsFileAt) /\ insWorker'.segs = longer)
      BY <1>6, InsReadSteps
  <2> HIDE DEF longer
  <2>3. QED
      BY <2>1, <2>2
<1>7. CASE InsStopCheck
    BY <1>7, InsSolveSteps DEF InsRunEnds
<1>8. CASE InsFindScale
    BY <1>8, InsSolveSteps DEF InsRunEnds
<1>9. CASE InsPublish
    BY <1>9, InsSolveSteps DEF InsRunEnds
<1>10. CASE InsReport
    BY <1>10, InsSolveSteps
<1>11. CASE InsFinish
    BY <1>11, InsSolveSteps
<1>12. CASE InsEnd
    BY <1>12, InsSolveSteps DEF InsRunEnds
<1>15. CASE InsCancel
  <2>1. insTask'.stop = TRUE
      BY <1>15 DEF InsCancel, InsTaskTyped
  <2>2. QED
      BY <1>15, <2>1 DEF InsCancel
<1>16. CASE InsClose
  <2>1. insWorker'.pc = "exit" /\ insWorker'.segs = insWorker.segs
      BY <1>16, InsGoes DEF InsClose
  <2>2. QED
      BY <1>16, <2>1 DEF InsClose
<1>13. InsEdit \/ InsStart \/ InsFill \/ InsAccept \/ InsSkip \/ InsReopen \/ InsFrame
         \/ InsExportReport \/ InsExportSegments \/ UNCHANGED insVars =>
         UNCHANGED <<insTask, insPub, insWorker>>
    BY Zenon DEF InsEdit, InsStart, InsFill, InsAccept, InsSkip, InsReopen, InsFrame,
                 InsExportReport, InsExportSegments, insVars
<1>14. QED
    BY <1>1, <1>2, <1>3, <1>4, <1>5, <1>6, <1>7, <1>8, <1>9, <1>10, <1>11, <1>12, <1>13, <1>15,
       <1>16, Zenon DEF InsNext, InsGuiNext, InsWorkerNext

\* At every step of the two threads: one worker, of the last run begun, as long as the task
\* says that it runs; what is published is of
\* that run and whole, and of the files of its tab.
THEOREM InsInvariant == InsSpec => []InsIInv
<1>1. InsInit => InsIInv
  <2> SUFFICES ASSUME InsInit
               PROVE  InsIInv
      OBVIOUS
  <2>1. <<>> \in InsSigs /\ InsNothing \in InsDevices /\ InsSources = {"None", "Record", "Manual", "Guess"}
      BY DEF InsSigs, InsDevices, InsSources
  <2>2. InsTaskTyped /\ InsPageTyped
      BY <2>1 DEF InsInit, InsTaskTyped, InsPageTyped
  <2>3. InsResultTyped
      BY <2>1 DEF InsInit, InsResultTyped
  <2>4. InsWorkerTyped
      BY <2>1 DEF InsInit, InsIdle, InsNoScale, InsWorkerTyped, InsPcs
  <2>5. InsOneWorker /\ InsOneRun
      BY DEF InsInit, InsIdle, InsOneWorker, InsOneRun
  <2>6. InsHalfIsStopped
      BY DEF InsInit, InsIdle, InsHalfIsStopped, InsReading, InsSolving, OnceEach, AllWhole
  <2>7. QED
      BY <2>2, <2>3, <2>4, <2>5, <2>6 DEF InsIInv
<1>2. InsIInv /\ [InsNext]_insVars => InsIInv'
    BY InsTaskKept, InsPageKept, InsResultKept, InsWorkerKept, InsOrder, InsWholeness
       DEF InsIInv
<1>3. QED
    BY <1>1, <1>2, PTL DEF InsSpec

\* What either tool shows as ready and exports is of the last run begun, with blank rows only
\* while the report is on its way, its report is of whole files, each content once, and its
\* task runs and loads as long as its worker works: for any files and any number of runs.
THEOREM InsRunsAreHonest == InsSpec => InsRunIsHonest
<1>1. InsIInv => InsShownIsCurrent
    BY DEF InsIInv, InsOneRun, InsShownIsCurrent
<1>2. InsIInv => InsReportIsWhole
    BY DEF InsIInv, InsHalfIsStopped, InsReportIsWhole, OnceEach, AllWhole
<1>3. InsIInv => InsRunsAsLongAsItSays
    BY DEF InsIInv, InsOneWorker, InsRunsAsLongAsItSays
<1>4. InsIInv /\ InsNext => InsBlankIsPassing
  <2> SUFFICES ASSUME InsIInv, InsNext, insGui'.blank, ~insGui.blank
               PROVE  insWorker.pc = "report" /\ insTask.loading
      BY DEF InsBlankIsPassing
  <2> USE DEF InsIInv, InsPageTyped
  <2>1. CASE InsFrame
    <3>1. insPub.accelReady /\ insPub.report = <<>>
        BY <2>1 DEF InsFrame
    <3>2. QED
        BY <3>1 DEF InsOneRun, InsOneWorker
  <2>2. CASE InsBegin
      BY <2>2 DEF InsBegin
  <2>3. CASE InsStart \/ InsAccept
      BY <2>3 DEF InsStart, InsAccept, InsPress
  <2>4. CASE InsExportReport \/ InsExportSegments
      BY <2>4 DEF InsExportReport, InsExportSegments
  <2>5. InsEdit \/ InsCancel \/ InsStop \/ InsFill \/ InsSkip \/ InsReopen \/ InsWorkerNext =>
          insGui' = insGui
      BY Zenon DEF InsEdit, InsCancel, InsStop, InsFill, InsSkip, InsReopen, InsWorkerNext,
         InsOpen, InsPump, InsDetect, InsStopCheck, InsFindScale, InsPublish, InsReport,
         InsFinish, InsEnd, InsClose
  <2>6. QED
      BY <2>1, <2>2, <2>3, <2>4, <2>5, Zenon DEF InsNext, InsGuiNext
<1>5. InsIInv => InsShownIsCurrent /\ InsReportIsWhole /\ InsRunsAsLongAsItSays
    BY <1>1, <1>2, <1>3
<1>6. InsIInv /\ [InsNext]_insVars => [InsBlankIsPassing]_insVars
    BY <1>4
<1>7. QED
    BY <1>5, <1>6, InsInvariant, PTL DEF InsSpec, InsRunIsHonest

-----------------------------------------------------------------------------
(* Remote.                                                                 *)

HIDE InsAssumption
HIDE RefAssumption
HIDE QualityAssumption
HIDE RealtimeAssumption

Pending == {"queued", "mark", "transfer", "install", "sub"}
Busy == {"mark", "transfer", "install", "sub", "erase", "count"}

\* How many requests stand at one of the places S.
Standing(a, S) == {r \in Requests : a[r] \in S}
Count(a, S) == Cardinality(Standing(a, S))

\* What progressLine shows.
CountersAgree == /\ dlActiveCount = Count(at, Pending)
                 /\ dlDone = Count(at, {"over"})
                 /\ \A r \in Requests : at[r] = "unused" <=> r > dlTotal

\* Every request brings kDlWorkers workers, which are idle, busy or gone.
WorkersAgree == idle + Count(at, Busy) <= kDlWorkers * dlTotal

\* A waiting request is in the queue, once.
Entries(q) == {q[i] : i \in DOMAIN q}
Once(q) == \A i, j \in DOMAIN q : q[i] = q[j] => i = j

QueueAgrees == Entries(dlQueue) = Standing(at, {"queued"}) /\ Once(dlQueue)

\* mtx is held across steps only by the frame that joins the scan thread.
FrameHoldsMtx == mtx = "gui" <=> gui = "join"

RemoteIInv == RemoteTypeOK /\ CountersAgree /\ WorkersAgree /\ QueueAgrees /\ FrameHoldsMtx

USE RemoteAssumption

LEMMA CountType ==
  ASSUME NEW a, NEW S
  PROVE  /\ IsFiniteSet(Standing(a, S)) /\ Count(a, S) \in 0 .. MaxEnqueue
<1>1. IsFiniteSet(Requests) /\ Cardinality(Requests) = MaxEnqueue
    BY FS_Interval DEF Requests
<1>2. Standing(a, S) \in SUBSET Requests
    BY DEF Standing
<1>3. IsFiniteSet(Standing(a, S)) /\ Cardinality(Standing(a, S)) <= MaxEnqueue
    BY <1>1, <1>2, FS_Subset
<1>4. QED
    BY <1>3, FS_CardinalityType DEF Count

\* What a request at place p adds to a count.
Unit(p, S) == IF p \in S THEN 1 ELSE 0

Moved(a, r, to) == [a EXCEPT ![r] = to]

\* A step of one request moves one unit of each count.
LEMMA MoveCounts ==
  ASSUME NEW a \in [Requests -> JobPlaces], NEW r \in Requests, NEW to \in JobPlaces, NEW S
  PROVE  Count(Moved(a, r, to), S) + Unit(a[r], S)
           = Count(a, S) + Unit(to, S)
<1> DEFINE b == Moved(a, r, to)
<1>1. IsFiniteSet(Standing(a, S)) /\ Count(a, S) \in Nat /\ Count(b, S) \in Nat
    BY CountType
<1>2. CASE to \in S
  <2>1. Standing(b, S) = Standing(a, S) \cup {r}
      BY <1>2 DEF Standing, Moved
  <2>2. r \in Standing(a, S) <=> a[r] \in S
      BY DEF Standing
  <2>3. Count(b, S) = IF a[r] \in S THEN Count(a, S) ELSE Count(a, S) + 1
      BY <1>1, <2>1, <2>2, FS_AddElement DEF Count
  <2>4. QED
      BY <1>1, <1>2, <2>3 DEF Unit
<1>3. CASE to \notin S
  <2>1. Standing(b, S) = Standing(a, S) \ {r}
      BY <1>3 DEF Standing, Moved
  <2>2. r \in Standing(a, S) <=> a[r] \in S
      BY DEF Standing
  <2>3. Count(b, S) = IF a[r] \in S THEN Count(a, S) - 1 ELSE Count(a, S)
      BY <1>1, <2>1, <2>2, FS_RemoveElement, ZenonT(30) DEF Count
  <2>4. QED
      BY <1>1, <1>3, <2>3 DEF Unit
<1> HIDE DEF b
<1>4. QED
    BY <1>2, <1>3 DEF b

\* The same of the places as they are.
LEMMA PlaceCounts ==
  ASSUME at \in [Requests -> JobPlaces], NEW r \in Requests, NEW to \in JobPlaces,
         at' = [at EXCEPT ![r] = to], NEW S
  PROVE  Count(at', S) + Unit(at[r], S) = Count(at, S) + Unit(to, S)
<1>1. at' = Moved(at, r, to)
    BY DEF Moved
<1>2. Count(Moved(at, r, to), S) + Unit(at[r], S) = Count(at, S) + Unit(to, S)
    BY MoveCounts
<1>3. QED
    BY <1>1, <1>2

\* Nothing stands where no request is.
LEMMA NoneCounts ==
  ASSUME NEW a \in [Requests -> JobPlaces], NEW S
  PROVE  Count(a, S) = 0 <=> \A r \in Requests : a[r] \notin S
<1>1. IsFiniteSet(Standing(a, S))
    BY CountType
<1>2. Count(a, S) = 0 <=> Standing(a, S) = {}
    BY <1>1, FS_EmptySet DEF Count
<1>3. QED
    BY <1>2 DEF Standing


\* What a step of a worker does to the places and to what is counted.
LEMMA JobMoves ==
  ASSUME RemoteIInv, NEW r \in Requests, NEW from \in JobPlaces, NEW to \in JobPlaces,
         JobStep(r, from, to), from # "unused", to \notin {"unused", "queued"}
  PROVE  /\ at' \in [Requests -> JobPlaces]
         /\ \A q \in Requests : at'[q] = "unused" <=> q > dlTotal'
         /\ Count(at', Pending) + Unit(from, Pending)
              = Count(at, Pending) + Unit(to, Pending)
         /\ Count(at', Busy) + Unit(from, Busy)
              = Count(at, Busy) + Unit(to, Busy)
         /\ Count(at', {"over"}) + Unit(from, {"over"})
              = Count(at, {"over"}) + Unit(to, {"over"})
         /\ Standing(at', {"queued"}) = Standing(at, {"queued"}) \ {r}
<1>1. /\ at' = [at EXCEPT ![r] = to] /\ at[r] = from /\ at \in [Requests -> JobPlaces]
      /\ \A q \in Requests : at[q] = "unused" <=> q > dlTotal
      /\ dlTotal' = dlTotal
    BY DEF JobStep, RemoteIInv, RemoteTypeOK, CountersAgree
<1>2. at' \in [Requests -> JobPlaces]
    BY <1>1
<1>3. \A q \in Requests : at'[q] = "unused" <=> q > dlTotal'
    BY <1>1
<1>4. ASSUME NEW S
      PROVE  Count(at', S) + Unit(from, S)
               = Count(at, S) + Unit(to, S)
  <2>1. Count(at', S) + Unit(at[r], S) = Count(at, S) + Unit(to, S)
      BY <1>1, PlaceCounts
  <2>2. QED
      BY <1>1, <2>1
<1>5. Standing(at', {"queued"}) = Standing(at, {"queued"}) \ {r}
    BY <1>1 DEF Standing
<1>6. QED
    BY <1>2, <1>3, <1>4, <1>5

\* A new request stands behind the others.
LEMMA TailJoins ==
  ASSUME NEW q \in Seq(Requests), NEW r \in Requests,
         Once(q), r \notin Entries(q)
  PROVE  /\ Append(q, r) \in Seq(Requests)
         /\ Entries(Append(q, r)) = Entries(q) \cup {r}
         /\ Once(Append(q, r))
<1> DEFINE t == Append(q, r)
<1>1. /\ t \in Seq(Requests) /\ Len(q) \in Nat
      /\ DOMAIN t = 1 .. Len(q) + 1 /\ DOMAIN q = 1 .. Len(q) /\ t[Len(q) + 1] = r
      /\ \A i \in 1 .. Len(q) : t[i] = q[i]
    OBVIOUS
<1>2. 1 .. Len(q) + 1 = (1 .. Len(q)) \cup {Len(q) + 1}
    BY <1>1
<1> HIDE DEF t
<1> USE DEF Entries, Once
<1>3. Entries(t) = Entries(q) \cup {r}
    BY <1>1, <1>2
<1>4. Once(t)
    BY <1>1, <1>2
<1> HIDE DEF Entries, Once
<1>5. QED
    BY <1>1, <1>3, <1>4 DEF t

\* The queue gives up its head and nothing else.
LEMMA HeadLeaves ==
  ASSUME NEW q \in Seq(Requests), q # <<>>, Once(q)
  PROVE  /\ Tail(q) \in Seq(Requests)
         /\ Entries(Tail(q)) = Entries(q) \ {Head(q)}
         /\ Once(Tail(q))
<1> DEFINE t == Tail(q)
<1>1. /\ t \in Seq(Requests) /\ Len(q) \in Nat /\ Len(q) > 0
      /\ DOMAIN t = 1 .. Len(q) - 1 /\ DOMAIN q = 1 .. Len(q) /\ Head(q) = q[1]
      /\ \A i \in 1 .. Len(q) - 1 : t[i] = q[i + 1]
    OBVIOUS
<1> HIDE DEF t
<1> USE DEF Entries, Once
<1>2. ASSUME NEW i \in DOMAIN t
      PROVE  i + 1 \in DOMAIN q /\ i + 1 # 1 /\ t[i] = q[i + 1]
    BY <1>1
<1>3. ASSUME NEW k \in DOMAIN q, k # 1 PROVE k - 1 \in DOMAIN t /\ t[k - 1] = q[k]
  <2>1. k - 1 \in DOMAIN t /\ (k - 1) + 1 = k
      BY <1>1, <1>3
  <2>2. QED
      BY <1>2, <2>1
<1>4. ASSUME NEW i \in DOMAIN t, NEW j \in DOMAIN t, t[i] = t[j] PROVE i = j
  <2>1. i + 1 = j + 1 /\ i \in Nat /\ j \in Nat
      BY <1>1, <1>2, <1>4
  <2>2. QED
      BY <2>1
<1>5. \A k \in DOMAIN q : q[k] = Head(q) => k = 1
    BY <1>1
<1>6. Entries(t) = Entries(q) \ {Head(q)}
  <2>1. ASSUME NEW i \in DOMAIN t PROVE t[i] \in Entries(q) \ {Head(q)}
      BY <1>2, <1>5
  <2>2. ASSUME NEW k \in DOMAIN q, q[k] # Head(q) PROVE q[k] \in Entries(t)
    <3>1. k # 1
        BY <1>1, <2>2
    <3>2. QED
        BY <1>3, <3>1
  <2>3. QED
      BY <2>1, <2>2
<1>7. t \in Seq(Requests) /\ Once(t)
    BY <1>1, <1>4
<1> HIDE DEF Entries, Once
<1>8. QED
    BY <1>6, <1>7 DEF t

\* The workers of all requests are bounded by those of the last possible one.
LEMMA Capacity ==
  ASSUME NEW n \in 0 .. MaxEnqueue, NEW i \in Nat, NEW c \in Nat, i + c <= kDlWorkers * n
  PROVE  i \in 0 .. kDlWorkers * MaxEnqueue
<1>1. /\ kDlWorkers * n \in Nat /\ kDlWorkers * MaxEnqueue \in Nat
      /\ kDlWorkers * n <= kDlWorkers * MaxEnqueue
    OBVIOUS
<1>2. QED
    BY <1>1

\* A step between two places counts in the same way in the counters and in the places.
LEMMA JobKeeps ==
  ASSUME RemoteIInv, NEW r \in Requests, NEW from \in Busy, NEW to \in Busy \cup {"over"},
         JobStep(r, from, to), dlQueue' = dlQueue,
         dlActiveCount' = dlActiveCount - Unit(from, Pending)
                            + Unit(to, Pending),
         dlDone' = dlDone + Unit(to, {"over"}),
         idle' = idle + Unit(to, {"over"}),
         dlActive' \subseteq Files, local' \subseteq Files
  PROVE  RemoteIInv'
<1>1. from \in JobPlaces /\ to \in JobPlaces \ {"unused", "queued"} /\ from # "unused"
    BY DEF Busy, JobPlaces
<1>2. /\ at' \in [Requests -> JobPlaces]
      /\ \A q \in Requests : at'[q] = "unused" <=> q > dlTotal'
      /\ Count(at', Pending) + Unit(from, Pending)
              = Count(at, Pending) + Unit(to, Pending)
      /\ Count(at', Busy) + Unit(from, Busy)
              = Count(at, Busy) + Unit(to, Busy)
      /\ Count(at', {"over"}) + Unit(from, {"over"})
              = Count(at, {"over"}) + Unit(to, {"over"})
      /\ Standing(at', {"queued"}) = Standing(at, {"queued"}) \ {r}
    BY <1>1, JobMoves
<1>3. \A a, S : Count(a, S) \in 0 .. MaxEnqueue
    BY CountType
<1>4. /\ dlActiveCount = Count(at, Pending) /\ dlDone = Count(at, {"over"})
      /\ idle + Count(at, Busy) <= kDlWorkers * dlTotal
      /\ idle \in Nat /\ dlTotal \in 0 .. MaxEnqueue /\ kDlWorkers * dlTotal \in Nat
    BY DEF RemoteIInv, RemoteTypeOK, CountersAgree, WorkersAgree
<1>5. /\ UNCHANGED <<scans, mtx, gui, asked, dlStop, wants, dlTotal>> /\ at[r] = from
    BY DEF JobStep
<1>6. /\ dlActiveCount' = Count(at', Pending) /\ dlDone' = Count(at', {"over"})
      /\ idle' + Count(at', Busy) <= kDlWorkers * dlTotal' /\ idle' \in Nat
    BY <1>2, <1>3, <1>4, <1>5 DEF Busy, Unit
<1>7. idle' \in 0 .. kDlWorkers * MaxEnqueue
    BY <1>3, <1>4, <1>5, <1>6, Capacity
<1>8. Standing(at', {"queued"}) = Standing(at, {"queued"})
    BY <1>2, <1>5 DEF Standing, Busy
<1>9. QueueAgrees'
    BY <1>8 DEF RemoteIInv, QueueAgrees
<1>10. RemoteTypeOK'
  <2>1. dlActiveCount' \in 0 .. MaxEnqueue /\ dlDone' \in 0 .. MaxEnqueue
      BY <1>3, <1>6
  <2>2. QED
      BY <1>2, <1>5, <1>7, <2>1 DEF RemoteIInv, RemoteTypeOK, scans
<1>11. CountersAgree' /\ WorkersAgree' /\ FrameHoldsMtx'
    BY <1>2, <1>5, <1>6 DEF RemoteIInv, CountersAgree, WorkersAgree, FrameHoldsMtx
<1>12. QED
    BY <1>9, <1>10, <1>11 DEF RemoteIInv

LEMMA EnqueueCounts ==
  ASSUME at \in [Requests -> JobPlaces], NEW r \in Requests, at[r] = "unused",
         at' = [at EXCEPT ![r] = "queued"], NEW S, "unused" \notin S
  PROVE  Count(at', S) = Count(at, S) + Unit("queued", S)
<1>1. "queued" \in JobPlaces
    BY DEF JobPlaces
<1>2. Count(at', S) + Unit(at[r], S)
        = Count(at, S) + Unit("queued", S)
    BY <1>1, PlaceCounts
<1>3. Count(at', S) \in Nat /\ Count(at, S) \in Nat
    BY CountType
<1>4. QED
    BY <1>2, <1>3 DEF Unit

\* A request enters the queue, the count of active ones and its workers' at once.
LEMMA EnqueueKeeps ==
  ASSUME RemoteIInv, NEW f \in Files, enqueue(f)
  PROVE  RemoteIInv'
<1> DEFINE r == dlTotal + 1
<1>1. /\ dlTotal' = r /\ r \in Requests /\ dlTotal \in Nat /\ dlTotal' \in 0 .. MaxEnqueue
      /\ at \in [Requests -> JobPlaces] /\ at' = [at EXCEPT ![r] = "queued"]
      /\ at[r] = "unused"
    BY DEF enqueue, RemoteIInv, RemoteTypeOK, CountersAgree, Requests
<1>2. at' \in [Requests -> JobPlaces]
    BY <1>1 DEF JobPlaces
<1>3. ASSUME NEW q \in Requests PROVE at'[q] = "unused" <=> q > dlTotal'
  <2>1. at[q] = "unused" <=> q > dlTotal
      BY DEF RemoteIInv, CountersAgree
  <2>2. QED
      BY <1>1, <2>1 DEF Requests
<1>4. ASSUME NEW S, "unused" \notin S
      PROVE  Count(at', S) = Count(at, S) + Unit("queued", S)
  <2>1. r \in Requests
      BY <1>1
  <2> HIDE DEF r
  <2>2. QED
      BY <1>1, <1>4, <2>1, EnqueueCounts
<1>5. /\ Count(at', Pending) = Count(at, Pending) + 1
      /\ Count(at', {"over"}) = Count(at, {"over"})
      /\ Count(at', Busy) = Count(at, Busy)
  <2>1. \A S : Count(at, S) \in Nat
      BY CountType
  <2>2. QED
      BY <1>4, <2>1 DEF Pending, Busy, Unit
<1>6. Standing(at', {"queued"}) = Standing(at, {"queued"}) \cup {r}
      /\ r \notin Standing(at, {"queued"})
    BY <1>1 DEF Standing
<1>7. /\ dlActiveCount' = Count(at', Pending) /\ dlDone' = Count(at', {"over"})
      /\ UNCHANGED <<scans, mtx, gui, asked, dlStop, dlActive, dlDone, local>>
      /\ wants' \in [Requests -> Files]
    BY <1>1, <1>5 DEF enqueue, RemoteIInv, RemoteTypeOK, CountersAgree, GuiStep
<1>8. idle' + Count(at', Busy) <= kDlWorkers * dlTotal' /\ idle' \in Nat
  <2>1. /\ idle' = idle + kDlWorkers /\ idle \in Nat
        /\ idle + Count(at, Busy) <= kDlWorkers * dlTotal
      BY DEF enqueue, RemoteIInv, RemoteTypeOK, WorkersAgree
  <2>2. kDlWorkers * (dlTotal + 1) = kDlWorkers * dlTotal + kDlWorkers
      BY <1>1
  <2>3. Count(at, Busy) \in Nat /\ kDlWorkers * dlTotal \in Nat
      BY <1>1, CountType
  <2>4. QED
      BY <1>1, <1>5, <2>1, <2>2, <2>3
<1>9. idle' \in 0 .. kDlWorkers * MaxEnqueue
  <2>1. Count(at', Busy) \in Nat
      BY CountType
  <2>2. QED
      BY <1>1, <1>8, <2>1, Capacity
<1>10. /\ dlQueue' \in Seq(Requests)
       /\ Entries(dlQueue') = Standing(at', {"queued"})
       /\ Once(dlQueue')
  <2>1. /\ dlQueue' = Append(dlQueue, r) /\ dlQueue \in Seq(Requests)
        /\ Entries(dlQueue) = Standing(at, {"queued"})
        /\ Once(dlQueue)
      BY <1>1 DEF enqueue, RemoteIInv, RemoteTypeOK, QueueAgrees
  <2>2. /\ Append(dlQueue, r) \in Seq(Requests)
        /\ Entries(Append(dlQueue, r)) = Entries(dlQueue) \cup {r}
        /\ Once(Append(dlQueue, r))
      BY <1>1, <1>6, <2>1, TailJoins
  <2>3. QED
      BY <1>6, <2>1, <2>2
<1>11. at' \in [Requests -> JobPlaces] /\ dlActiveCount' \in 0 .. MaxEnqueue
       /\ dlDone' \in 0 .. MaxEnqueue
    BY <1>2, <1>7, CountType, ZenonT(30)
<1>12. QED
    BY <1>1, <1>3, <1>7, <1>8, <1>9, <1>10, <1>11
       DEF RemoteIInv, RemoteTypeOK, CountersAgree, WorkersAgree, QueueAgrees, FrameHoldsMtx,
           scans

LEMMA RemoteStepKeepsIInv == RemoteIInv /\ [RemoteNext]_remoteVars => RemoteIInv'
<1> SUFFICES ASSUME RemoteIInv, [RemoteNext]_remoteVars PROVE RemoteIInv'
    OBVIOUS
<1> USE DEF RemoteIInv, RemoteTypeOK, CountersAgree, WorkersAgree, QueueAgrees, FrameHoldsMtx, GuiStep
<1>1. CASE runScan
  <2> USE DEF ScanStep, ScanEnd, loads
  <2>1. CASE ScanList
      BY <2>1 DEF ScanList
  <2>2. ASSUME NEW from, ScanEnd(from) PROVE RemoteIInv'
    <3>1. scanning' \in BOOLEAN
        BY <2>2, Zenon DEF ScanEnd
    <3>2. QED
        BY <2>2, <3>1
  <2>4. ASSUME NEW d \in Dirs, ScanStore(d) PROVE RemoteIInv'
      BY <2>4 DEF ScanStore
  <2>6. CASE ScanExit
      BY <2>6 DEF ScanExit
  <2>7. QED
      BY <1>1, <2>1, <2>2, <2>4, <2>6 DEF runScan, ScanThrows, ScanCancelled, ScanReady
<1>2. ASSUME NEW r \in Requests, runDownload(r) PROVE RemoteIInv'
  <2>1. CASE Take(r)
    <3>1. JobStep(r, "queued", "mark")
        BY <2>1 DEF Take
    <3>2. /\ at' \in [Requests -> JobPlaces]
          /\ Standing(at', {"queued"}) = Standing(at, {"queued"}) \ {r}
          /\ \A q \in Requests : at'[q] = "unused" <=> q > dlTotal'
          /\ Count(at', Pending) = Count(at, Pending)
          /\ Count(at', {"over"}) = Count(at, {"over"})
          /\ Count(at', Busy) = Count(at, Busy) + 1
      <4> DEFINE from == "queued"
                 to == "mark"
      <4>1. from \in JobPlaces /\ to \in JobPlaces /\ from # "unused" /\ to \notin {"unused", "queued"}
          BY DEF JobPlaces
      <4>2. JobStep(r, from, to)
          BY <3>1
      <4>3. /\ Unit(from, Pending) = 1 /\ Unit(to, Pending) = 1 /\ Unit(from, Busy) = 0
            /\ Unit(to, Busy) = 1 /\ Unit(from, {"over"}) = 0 /\ Unit(to, {"over"}) = 0
          BY DEF Unit, Pending, Busy
      <4> HIDE DEF from, to, RemoteIInv
      <4>4. /\ at' \in [Requests -> JobPlaces]
            /\ Standing(at', {"queued"}) = Standing(at, {"queued"}) \ {r}
            /\ \A q \in Requests : at'[q] = "unused" <=> q > dlTotal'
            /\ Count(at', Pending) + Unit(from, Pending) = Count(at, Pending) + Unit(to, Pending)
            /\ Count(at', Busy) + Unit(from, Busy) = Count(at, Busy) + Unit(to, Busy)
            /\ Count(at', {"over"}) + Unit(from, {"over"})
                 = Count(at, {"over"}) + Unit(to, {"over"})
          BY <4>1, <4>2, JobMoves
      <4>5. \A a, S : Count(a, S) \in Nat
          BY CountType
      <4>6. QED
          BY <4>3, <4>4, <4>5
    <3>3. /\ dlQueue' \in Seq(Requests)
          /\ Entries(dlQueue') = Standing(at', {"queued"})
          /\ Once(dlQueue')
      <4>1. dlQueue' = Tail(dlQueue) /\ dlQueue # <<>> /\ r = Head(dlQueue)
          BY <2>1 DEF Take
      <4>2. /\ dlQueue \in Seq(Requests)
            /\ Once(dlQueue)
          OBVIOUS
      <4>3. Entries(dlQueue) = Standing(at, {"queued"})
          OBVIOUS
      <4> HIDE DEF RemoteIInv
      <4>4. /\ Tail(dlQueue) \in Seq(Requests)
            /\ Entries(Tail(dlQueue)) = Entries(dlQueue) \ {Head(dlQueue)}
            /\ Once(Tail(dlQueue))
          BY <4>1, <4>2, HeadLeaves, Zenon
      <4>5. QED
          BY <3>2, <4>1, <4>3, <4>4, Zenon
    <3>4. /\ idle' + Count(at', Busy) <= kDlWorkers * dlTotal'
          /\ idle' \in Nat /\ dlTotal' = dlTotal
      <4>1. /\ idle' = idle - 1 /\ idle > 0 /\ idle \in Nat /\ dlTotal' = dlTotal
            /\ idle + Count(at, Busy) <= kDlWorkers * dlTotal
          BY <2>1, <3>1 DEF Take, JobStep
      <4>2. Count(at, Busy) \in Nat /\ kDlWorkers * dlTotal \in Nat
          BY CountType
      <4> HIDE DEF RemoteIInv
      <4>3. QED
          BY <3>2, <4>1, <4>2
    <3>5. idle' \in 0 .. kDlWorkers * MaxEnqueue
      <4>1. Count(at', Busy) \in Nat /\ dlTotal' \in 0 .. MaxEnqueue
          BY <3>4, CountType
      <4> HIDE DEF RemoteIInv
      <4>2. QED
          BY <3>4, <4>1, Capacity
    <3>6. UNCHANGED <<scans, mtx, gui, asked, dlStop, wants, dlTotal, dlActive, dlActiveCount,
                      dlDone, local>>
        BY <2>1, <3>1 DEF Take, JobStep
    <3>7. QED
        BY <3>2, <3>3, <3>4, <3>5, <3>6 DEF scans
  <2> USE DEF Pending, Busy, JobPlaces, Unit
  <2>2. CASE markDownloading(r)
      BY <2>2, JobKeeps, SMTT(30) DEF markDownloading
  <2>3. CASE Transfer(r)
      BY <2>3, JobKeeps, SMTT(30) DEF Transfer
  <2>4. CASE Install(r)
      BY <2>4, JobKeeps, SMTT(30) DEF Install
  <2>5. CASE CountDown(r)
      BY <2>5, JobKeeps, SMTT(30) DEF CountDown
  <2>6. CASE EraseActive(r)
    <3>1. JobStep(r, "erase", "count") /\ UNCHANGED <<dlQueue, idle, dlActiveCount, dlDone, local>>
        BY <2>6 DEF EraseActive
    <3>2. dlActive' \subseteq Files /\ local' \subseteq Files
        BY <2>6 DEF EraseActive
    <3>3. /\ dlActiveCount' = dlActiveCount - Unit("erase", Pending) + Unit("count", Pending)
          /\ dlDone' = dlDone + Unit("count", {"over"}) /\ idle' = idle + Unit("count", {"over"})
        BY <3>1
    <3>4. "erase" \in Busy /\ "count" \in Busy \cup {"over"}
        OBVIOUS
    <3> HIDE DEF Unit, Pending, Busy
    <3>5. QED
        BY <3>1, <3>2, <3>3, <3>4, JobKeeps
  <2>7. CASE CountDone(r)
    <3>1. /\ JobStep(r, "count", "over") /\ UNCHANGED <<dlQueue, dlActive, dlActiveCount, local>>
          /\ dlDone' = dlDone + 1 /\ idle' = idle + 1
        BY <2>7 DEF CountDone
    <3>2. dlActive' \subseteq Files /\ local' \subseteq Files
        BY <3>1
    <3>3. /\ dlActiveCount' = dlActiveCount - Unit("count", Pending) + Unit("over", Pending)
          /\ dlDone' = dlDone + Unit("over", {"over"}) /\ idle' = idle + Unit("over", {"over"})
        BY <3>1
    <3>4. "count" \in Busy /\ "over" \in Busy \cup {"over"}
        OBVIOUS
    <3> HIDE DEF Unit, Pending, Busy
    <3>5. QED
        BY <3>1, <3>2, <3>3, <3>4, JobKeeps
  <2>8. QED
      BY <1>2, <2>1, <2>2, <2>3, <2>4, <2>5, <2>6, <2>7 DEF runDownload
<1>3. CASE WorkerExit
  <2>1. /\ idle' = idle - 1 /\ idle > 0 /\ idle \in 0 .. kDlWorkers * MaxEnqueue
        /\ idle + Count(at, Busy) <= kDlWorkers * dlTotal
        /\ UNCHANGED <<scans, mtx, gui, asked, dlStop, dlQueue, at, wants, dlActive,
                       dlActiveCount, dlDone, dlTotal, local>>
      BY <1>3 DEF WorkerExit
  <2>2. idle' \in 0 .. kDlWorkers * MaxEnqueue /\ idle' + Count(at, Busy) <= kDlWorkers * dlTotal
    <3>1. /\ Count(at, Busy) \in Nat /\ kDlWorkers * dlTotal \in Nat
          /\ kDlWorkers * MaxEnqueue \in Nat
        BY CountType
    <3> HIDE DEF RemoteIInv
    <3>2. QED
        BY <2>1, <3>1
  <2>3. QED
      BY <2>1, <2>2 DEF scans
<1>4. CASE Gui
  <2> USE DEF scans, loads
  <2>1. ASSUME NEW D \in SUBSET Dirs, ensureScan(D) PROVE RemoteIInv'
    <3>1. scanning' \in BOOLEAN
      <4>1. CASE UNCHANGED scanning
          BY <4>1
      <4>2. CASE scanning' = TRUE
          BY <4>2, Zenon
      <4>3. QED
          BY <2>1, <4>1, <4>2 DEF ensureScan
    <3>2. scanJob' \subseteq Dirs
        BY <2>1 DEF ensureScan, Missing
    <3>3. QED
        BY <2>1, <3>1, <3>2 DEF ensureScan
  <2>2. CASE StartScan
      BY <2>2 DEF StartScan
  <2>3. CASE collect
      BY <2>3 DEF collect
  <2>4. ASSUME NEW f \in Files, enqueue(f) PROVE RemoteIInv'
      BY <2>4, EnqueueKeeps
  <2>5. ASSUME NEW f \in Files, removeFile(f) PROVE RemoteIInv'
      BY <2>5 DEF removeFile
  <2>6. CASE shutdown
      BY <2>6 DEF shutdown
  <2>7. CASE StopWorkers
      BY <2>7 DEF StopWorkers
  <2>8. CASE JoinWorkers
      BY <2>8 DEF JoinWorkers
  <2>9. QED
      BY <1>4, <2>1, <2>2, <2>3, <2>4, <2>5, <2>6, <2>7, <2>8 DEF Gui
<1>5. CASE Off \/ UNCHANGED remoteVars
    BY <1>5 DEF Off, remoteVars, scans, loads
<1>6. QED
    BY <1>1, <1>2, <1>3, <1>4, <1>5 DEF RemoteNext

LEMMA RemoteInitIInv == RemoteInit => RemoteIInv
<1> SUFFICES ASSUME RemoteInit PROVE RemoteIInv
    OBVIOUS
<1>1. /\ at \in [Requests -> JobPlaces] /\ \A r \in Requests : at[r] = "unused" /\ r > 0
      /\ wants \in [Requests -> Files]
    BY DEF RemoteInit, JobPlaces, Requests
<1>2. Count(at, Pending) = 0 /\ Count(at, {"over"}) = 0 /\ Count(at, Busy) = 0
    BY <1>1, NoneCounts DEF Pending, Busy
<1>3. scanning \in BOOLEAN /\ scanStop \in BOOLEAN /\ dlStop \in BOOLEAN
    BY Zenon DEF RemoteInit
<1>4. 0 \in 0 .. kDlWorkers * MaxEnqueue /\ kDlWorkers * 0 = 0
    OBVIOUS
<1>5. RemoteTypeOK
    BY <1>1, <1>3, <1>4 DEF RemoteInit, RemoteTypeOK
<1>6. CountersAgree /\ WorkersAgree /\ FrameHoldsMtx
    BY <1>1, <1>2, <1>4 DEF RemoteInit, CountersAgree, WorkersAgree, FrameHoldsMtx
<1>7. QueueAgrees
  <2>1. Standing(at, {"queued"}) = {} /\ DOMAIN dlQueue = {}
      BY <1>1 DEF Standing, RemoteInit
  <2>2. QED
      BY <2>1 DEF QueueAgrees, Entries, Once
<1>8. QED
    BY <1>5, <1>6, <1>7 DEF RemoteIInv

\* The counters count what they say, and no waiting request is lost or queued twice.
THEOREM RemoteInvariant == RemoteSpec => []RemoteIInv
BY RemoteInitIInv, RemoteStepKeepsIInv, PTL DEF RemoteSpec

\* Every variable keeps its type: no counter wraps, no worker is counted twice.
THEOREM RemoteIsTyped == RemoteSpec => []RemoteTypeOK
<1>1. RemoteIInv => RemoteTypeOK
    BY DEF RemoteIInv
<1>2. QED
    BY <1>1, RemoteInvariant, PTL

\* When the panels see no active download, no request waits, runs or is being unpacked.
THEOREM IdleIsSettled == RemoteSpec => []IdleMeansSettled
<1>1. RemoteIInv => IdleMeansSettled
  <2> SUFFICES ASSUME RemoteIInv, dlActiveCount = 0, NEW r \in Requests
               PROVE  at[r] \in Settled
      BY DEF IdleMeansSettled
  <2>1. at \in [Requests -> JobPlaces] /\ Count(at, Pending) = 0
      BY DEF RemoteIInv, RemoteTypeOK, CountersAgree
  <2>2. at[r] \notin Pending
      BY <2>1, NoneCounts
  <2>3. QED
      BY <2>1, <2>2 DEF Pending, Settled, JobPlaces
<1>2. QED
    BY <1>1, RemoteInvariant, PTL
=============================================================================
