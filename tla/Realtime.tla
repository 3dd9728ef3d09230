------------------------------ MODULE Realtime ------------------------------
(***************************************************************************)
(* A realtime solution: Task::startRealtime runs a Session, which connects *)
(* to one receiver (SPP) or to two (RTK), pumps their epochs into the      *)
(* solver, and reconnects for ever until the task is stopped.  Receivers   *)
(* come, go and fall silent as they like; the user, the time limit and the *)
(* epoch limit stop the task at any moment.  Other modes have no session.  *)
(*                                                                         *)
(* Time is counted in ticks.  A clock stands still one tick past the       *)
(* largest limit it is compared with.                                      *)
(***************************************************************************)
EXTENDS Naturals, FiniteSets

CONSTANTS
    Modes,         \* the solve modes considered, out of "spp", "rtk", "other"
    IdleLimit,     \* ticks without an epoch before a pair pump gives up (10 s)
    StaleLimit,    \* ticks without a byte before the SPP pump gives up (5 s)
    StallWarn,     \* ticks without a solution before the user is told (30 s)
    WarnPause,     \* least ticks between two such warnings (10 s)
    StallReopen    \* ticks without a solution before a reconnection (120 s)

ASSUME RealtimeAssumption ==
    /\ Modes \subseteq {"spp", "rtk", "other"}
    /\ {IdleLimit, StaleLimit, StallWarn, WarnPause, StallReopen} \subseteq Nat
    /\ StallWarn < StallReopen

VARIABLES
    mode,
    linkPc,            \* where Session::run stands
    linkAt,            \* where the pair pump stands in its loop
    link,          \* what each receiver does: refuse, be silent, send logs, send epochs
    conn,          \* streams whose socket is open and not known to be closed
    open,          \* streams whose socket this process holds
    held,          \* streams whose next epoch pumpStreams holds
    linkIdle,          \* ticks since polling for an epoch began, or since the last byte
    age,           \* ticks since the last solution of this connection
    warnAge,       \* ticks since the last stall warning of this connection
    stallWarned,
    stop,          \* shouldStop() holds from now on
    cancelling,    \* the cancel button has yet to set its message
    error, loading, done,
    qcEnded        \* the quality views whose input has been ended

linkVars == <<mode, linkPc, linkAt, link, conn, open, held, linkIdle, age, warnAge, stallWarned,
          stop, cancelling, error, loading, done, qcEnded>>

clocks == <<linkIdle, age, warnAge>>
task == <<stop, cancelling, loading, done>>

Streams == {"base", "rover"}
Used == IF mode = "rtk" THEN Streams ELSE {"rover"}
Views == Used    \* the task's own view shows the rover, an extra tab the base

Bump(n, limit) == IF n > limit THEN n ELSE n + 1

LinkTypeOK ==
    /\ mode \in Modes
    /\ linkPc \in {"config", "loop", "connect", "pump", "close", "broken", "caught",
               "retry", "finish", "leave", "over"}
    /\ linkAt \in {"top", "base", "rover", "pair"}
    /\ link \in [Streams -> {"refuse", "silent", "logs", "epochs"}]
    /\ conn \subseteq open /\ open \subseteq Used /\ held \subseteq Used
    /\ linkIdle \in [Streams -> 0 .. IF IdleLimit > StaleLimit THEN IdleLimit + 1
                                                           ELSE StaleLimit + 1]
    /\ age \in 0 .. StallReopen + 1 /\ warnAge \in 0 .. WarnPause + 1
    /\ stallWarned \in BOOLEAN /\ stop \in BOOLEAN /\ cancelling \in BOOLEAN
    /\ error \in {"none", "connect", "broken", "stall", "exception", "cancelled"}
    /\ loading \in BOOLEAN /\ done \in BOOLEAN
    /\ qcEnded \subseteq Views

LinkInit ==
    /\ mode \in Modes
    /\ linkPc = "config" /\ linkAt = "top"
    /\ link = [s \in Streams |-> "refuse"]
    /\ conn = {} /\ open = {} /\ held = {}
    /\ linkIdle = [s \in Streams |-> 0] /\ age = 0 /\ warnAge = WarnPause + 1
    /\ stallWarned = FALSE /\ stop = FALSE /\ cancelling = FALSE
    /\ error = "none" /\ loading = FALSE /\ done = FALSE /\ qcEnded = {}

-----------------------------------------------------------------------------
(* What happens around the session.                                        *)

\* startRealtime: resetForSolve, then makeSession, which only SPP and RTK have.
Start ==
    /\ linkPc = "config"
    /\ loading' = TRUE /\ done' = FALSE /\ error' = "none"
    /\ linkPc' = IF mode = "other" THEN "leave" ELSE "loop"
    /\ UNCHANGED <<mode, linkAt, link, conn, open, held, clocks, stallWarned, stop,
                   cancelling, qcEnded>>

\* The cancel button, the time limit, or the epoch limit.
Stop ==
    /\ ~stop /\ linkPc \notin {"config", "over"}
    /\ stop' = TRUE
    /\ cancelling' \in BOOLEAN
    /\ UNCHANGED <<mode, linkPc, linkAt, link, conn, open, held, clocks, stallWarned,
                   error, loading, done, qcEnded>>

CancelMessage ==
    /\ cancelling /\ cancelling' = FALSE
    /\ error' = "cancelled"
    /\ UNCHANGED <<mode, linkPc, linkAt, link, conn, open, held, clocks, stallWarned,
                   stop, loading, done, qcEnded>>

\* A receiver changes its mind.
LinkChange(s) ==
    /\ linkPc \notin {"config", "over"}
    /\ \E l \in {"refuse", "silent", "logs", "epochs"} : link' = [link EXCEPT ![s] = l]
    /\ UNCHANGED <<mode, linkPc, linkAt, conn, open, held, clocks, stallWarned, task,
                   error, qcEnded>>

\* Bytes reset the clock of an SPP stream; an RTK stream is timed by its polls.
Tick ==
    /\ linkPc = "pump"
    /\ age' = Bump(age, StallReopen) /\ warnAge' = Bump(warnAge, WarnPause)
    /\ linkIdle' = [s \in Streams |->
                  IF s \in held THEN linkIdle[s]
                  ELSE Bump(linkIdle[s], IF mode = "rtk" THEN IdleLimit ELSE StaleLimit)]
    /\ UNCHANGED <<mode, linkPc, linkAt, link, conn, open, held, stallWarned, task,
                   error, qcEnded>>

-----------------------------------------------------------------------------
(* Session::run.                                                           *)

\* Where the session goes, and what it leaves alone when it only goes there.
Go(from, to) ==
    /\ linkPc = from /\ linkPc' = to
    /\ UNCHANGED <<mode, linkAt, link, held, clocks, stallWarned, stop, cancelling>>

Loop == /\ Go("loop", IF stop THEN "finish" ELSE "connect")
        /\ UNCHANGED <<conn, open, loading, done, error, qcEnded>>

\* Both streams or none: what was opened is closed when one cannot be.
ConnectFail ==
    /\ Go("connect", "retry")
    /\ conn' = {} /\ open' = {}
    /\ error' = "connect"
    /\ UNCHANGED <<loading, done, qcEnded>>

\* clearError, and the locals of pump() and pumpStreams().
ConnectOk ==
    /\ linkPc = "connect" /\ linkPc' = "pump"
    /\ \A s \in Used : link[s] # "refuse"
    /\ conn' = Used /\ open' = Used
    /\ error' = "none"
    /\ linkAt' = "top" /\ held' = {} /\ stallWarned' = FALSE
    /\ age' = 0 /\ warnAge' = WarnPause + 1 /\ linkIdle' = [s \in Streams |-> 0]
    /\ UNCHANGED <<mode, link, stop, cancelling, loading, done, qcEnded>>

CloseAll == conn' = {} /\ open' = {}

\* pump() returned: "close" when it was told to stop, "broken" when a stream failed.
PumpStopped == /\ Go("close", "finish") /\ CloseAll
               /\ UNCHANGED <<loading, done, error, qcEnded>>

\* setStreamBroken is the RTK session's; the other one shows nothing.
PumpBroken ==
    /\ linkPc = "broken" /\ CloseAll
    /\ linkPc' = IF stop THEN "loop" ELSE "retry"
    /\ error' = IF ~stop /\ mode = "rtk" THEN "broken" ELSE error
    /\ UNCHANGED <<mode, linkAt, link, held, clocks, stallWarned, task, qcEnded>>

Caught == /\ Go("caught", "retry") /\ CloseAll
          /\ error' = "exception"
          /\ UNCHANGED <<loading, done, qcEnded>>

\* sleep(): in slices of 100 ms, cut short by the stop.
Retry == /\ Go("retry", "loop")
         /\ UNCHANGED <<conn, open, loading, done, error, qcEnded>>

\* As Finish would be if it left the base station's tab open.
BaseTabForgotten ==
    /\ Go("finish", "leave")
    /\ loading' = FALSE /\ done' = TRUE
    /\ UNCHANGED <<conn, open, error, qcEnded>>

Finish ==
    /\ Go("finish", "leave")
    /\ loading' = FALSE /\ done' = TRUE
    /\ qcEnded' = qcEnded \union (Views \ {"rover"})
    /\ UNCHANGED <<conn, open, error>>

\* startRealtime after the session, if there was one.
Leave == /\ Go("leave", "over")
         /\ qcEnded' = qcEnded \union {"rover"}
         /\ UNCHANGED <<conn, open, loading, done, error>>

-----------------------------------------------------------------------------
(* pumpStreams with the callbacks of RTKSession::pump.                     *)

Pumping(m) == mode = m /\ linkPc = "pump"

PumpKeeps == UNCHANGED <<mode, link, open, stop, cancelling, loading, done, qcEnded>>

\* The loop looks at the stop once, before it polls what it does not hold.
PumpTop ==
    /\ Pumping("rtk") /\ linkAt = "top"
    /\ IF stop THEN linkPc' = "close" /\ UNCHANGED linkAt
               ELSE linkPc' = linkPc /\ linkAt' = "base"
    /\ PumpKeeps /\ UNCHANGED <<conn, held, clocks, stallWarned, error>>

After(s) == IF s = "base" THEN "rover" ELSE "pair"

stallExceeded == age > StallReopen

PollSkipped(s) ==
    /\ Pumping("rtk") /\ linkAt = s /\ s \in held
    /\ linkAt' = After(s)
    /\ PumpKeeps /\ UNCHANGED <<linkPc, conn, held, clocks, stallWarned, error>>

\* The poll hands over an epoch.
PollEpoch(s) ==
    /\ Pumping("rtk") /\ linkAt = s /\ s \notin held
    /\ ~stallExceeded
    /\ link[s] = "epochs" /\ s \in conn
    /\ held' = held \union {s} /\ linkIdle' = [linkIdle EXCEPT ![s] = 0]
    /\ linkAt' = After(s)
    /\ PumpKeeps /\ UNCHANGED <<linkPc, conn, age, warnAge, stallWarned, error>>

\* The poll hands over nothing; a refusing peer has closed the connection.
PollNothing(s) ==
    /\ Pumping("rtk") /\ linkAt = s /\ s \notin held
    /\ \/ stallExceeded /\ linkPc' = "broken" /\ UNCHANGED <<linkAt, conn>>
       \/ /\ ~stallExceeded /\ link[s] = "refuse"
          /\ conn' = conn \ {s} /\ linkPc' = "broken" /\ UNCHANGED linkAt
       \/ /\ ~stallExceeded /\ link[s] # "refuse"
          /\ IF linkIdle[s] > IdleLimit THEN linkPc' = "broken" /\ UNCHANGED linkAt
                                    ELSE linkPc' = linkPc /\ linkAt' = After(s)
          /\ UNCHANGED conn
    /\ PumpKeeps /\ UNCHANGED <<held, clocks, stallWarned, error>>

\* getNextEpoch throws; pumpStreams lets it pass.
PollThrows(s) ==
    /\ Pumping("rtk") /\ linkAt = s /\ s \notin held /\ ~stallExceeded
    /\ link[s] \in {"logs", "epochs"}
    /\ linkPc' = "caught"
    /\ PumpKeeps /\ UNCHANGED <<linkAt, conn, held, clocks, stallWarned, error>>

PumpWait ==
    /\ Pumping("rtk") /\ linkAt = "pair" /\ held # Used
    /\ linkAt' = "top"
    /\ PumpKeeps /\ UNCHANGED <<linkPc, conn, held, clocks, stallWarned, error>>

WarnDue == age > StallWarn /\ warnAge > WarnPause

\* What classify says of the two epochs, and what becomes of a pair.
Outcomes == {"advanceBase", "advanceRover", "thinned", "unsolved", "solved"}

\* As Attempt would be if a solution left the warning on the screen.
WarningStays(o, warned, err) == err

\* The warning comes down with the solution that ends the stall.
ErrorAfter(o, warned, err) == IF o = "solved" /\ warned THEN "none" ELSE err

\* Both epochs are there: onAttempt, classify, onPair.
Attempt ==
    /\ Pumping("rtk") /\ linkAt = "pair" /\ held = Used
    /\ IF stop
         THEN /\ linkPc' = "close"
              /\ UNCHANGED <<linkAt, held, clocks, stallWarned, error>>
         ELSE \E o \in Outcomes :
              LET warned == stallWarned \/ WarnDue
                  err == IF WarnDue THEN "stall" ELSE error
              IN  /\ held' = CASE o = "advanceBase" -> {"rover"}
                               [] o = "advanceRover" -> {"base"}
                               [] OTHER -> {}
                  /\ stallWarned' = (warned /\ o # "solved")
                  /\ error' = ErrorAfter(o, warned, err)
                  /\ age' = IF o = "solved" THEN 0 ELSE age
                  /\ warnAge' = IF WarnDue THEN 0 ELSE warnAge
                  /\ linkIdle' = [s \in Streams |-> IF s \in held' THEN linkIdle[s] ELSE 0]
                  /\ linkAt' = "top" /\ UNCHANGED linkPc
    /\ PumpKeeps /\ UNCHANGED conn

-----------------------------------------------------------------------------
(* SPPSession::pump.                                                       *)

SppStop ==
    /\ Pumping("spp") /\ stop
    /\ linkPc' = "close"
    /\ PumpKeeps /\ UNCHANGED <<linkAt, conn, held, clocks, stallWarned, error>>

\* An epoch; it is committed, solved or not, unless the decimator drops it.
SppEpoch ==
    /\ Pumping("spp") /\ ~stop
    /\ link["rover"] = "epochs" /\ "rover" \in conn
    /\ linkIdle' = [linkIdle EXCEPT !["rover"] = 0]
    /\ age' \in {0, age}
    /\ PumpKeeps /\ UNCHANGED <<linkPc, linkAt, conn, held, warnAge, stallWarned, error>>

Heard(l) == l \in {"logs", "epochs"}

\* No epoch: the stream is given up when it is closed or stale.
SppNothing ==
    /\ Pumping("spp") /\ ~stop
    /\ LET quiet == IF Heard(link["rover"]) THEN 0 ELSE linkIdle["rover"]
           closed == link["rover"] = "refuse"
       IN  /\ conn' = IF closed THEN {} ELSE conn
           /\ linkPc' = IF closed \/ quiet > StaleLimit THEN "broken" ELSE linkPc
           /\ linkIdle' = [linkIdle EXCEPT !["rover"] = quiet]
    /\ PumpKeeps /\ UNCHANGED <<linkAt, held, age, warnAge, stallWarned, error>>

\* An exception is survived as long as the connection is.
SppThrows ==
    /\ Pumping("spp") /\ ~stop
    /\ link["rover"] \in {"logs", "epochs"}
    /\ linkIdle' = [linkIdle EXCEPT !["rover"] = 0]
    /\ PumpKeeps /\ UNCHANGED <<linkPc, linkAt, conn, held, age, warnAge, stallWarned, error>>

-----------------------------------------------------------------------------
Session ==
    \/ Loop \/ ConnectFail \/ ConnectOk \/ PumpStopped \/ PumpBroken \/ Caught
    \/ Retry \/ Finish \/ Leave
    \/ PumpTop \/ PumpWait \/ Attempt
    \/ \E s \in Streams : PollSkipped(s) \/ PollEpoch(s) \/ PollNothing(s) \/ PollThrows(s)
    \/ SppStop \/ SppEpoch \/ SppNothing \/ SppThrows

Over == linkPc = "over" /\ ~cancelling /\ UNCHANGED linkVars

LinkNext == \/ Start \/ Stop \/ CancelMessage \/ Tick \/ Over
            \/ \E s \in Streams : LinkChange(s)
            \/ Session

\* The session's thread runs and time passes; receivers and users owe nothing.
LinkFairness == WF_linkVars(Session) /\ WF_linkVars(Tick)

LinkSpec == LinkInit /\ [][LinkNext]_linkVars /\ LinkFairness
-----------------------------------------------------------------------------
(* What the session promises.                                              *)

\* While epochs are pumped no error of an earlier connection is shown, and a
\* stall is shown only while it lasts: Session::run clears the error when it has
\* connected, RTKSession::pump when a solution ends the stall it had reported.
ErrorIsCurrent ==
    linkPc = "pump" =>
        /\ error \in {"none", "stall", "cancelled"}
        /\ error = "stall" => stallWarned /\ age > StallWarn

\* A socket is held only while its epochs are pumped: every way out of pump(), and
\* a connection that succeeded for one of two streams only, closes what it opened.
SocketsReleased == linkPc \notin {"pump", "close", "broken", "caught"} => open = {}

\* Once it is to stop, a session comes to its end wherever it is: it is shown as
\* done, and the input of every quality view is ended so that its last epochs count.
LinkStopEnds ==
    stop ~> /\ linkPc = "over" /\ qcEnded = Views
            /\ mode # "other" => done /\ ~loading

\* A connection that has become useless is given up: again and again the session is
\* not pumping, or has just had a solution, or (SPP) has just heard the receiver.
UselessLinkReopened ==
    []<>(linkPc # "pump" \/ age = 0 \/ (mode = "spp" /\ linkIdle["rover"] = 0))

\* gnss.ini offers "realtime" as a source whatever the mode; a task that was started
\* so and has ended says that it is done.
EndIsReported == linkPc = "over" => done

\* What a session shows and holds is of the link as it is now.
LinkIsTold == ErrorIsCurrent /\ SocketsReleased

\* A session comes to its end when it is stopped, and a link that gives nothing
\* of use does not stay open for ever.
LinkMovesOn == LinkStopEnds /\ UselessLinkReopened

=============================================================================
