------------------------------ MODULE Transfer ------------------------------
(***************************************************************************)
(* One remote file and its .part: the attempts of one downloadFile after   *)
(* another, the resumption of what an earlier attempt, call or process     *)
(* left behind, and the renaming of the finished part.  The server behind  *)
(* libcurl is external: FTP, HTTP with byte ranges, or HTTP that ignores   *)
(* them; it may replace the file between requests, as mirrors do.          *)
(***************************************************************************)
EXTENDS Naturals, Sequences

CONSTANTS Sizes,     \* chunks of each successive content of the remote file
          retries,   \* attempts of one call
          MaxPart    \* chunks of an overgrown .part told apart

ASSUME TransferAssumption == /\ Sizes \in Seq(Nat \ {0}) /\ Sizes # <<>>
                             /\ retries \in Nat \ {0}
                             /\ MaxPart \in Nat
                             /\ \A v \in DOMAIN Sizes : Sizes[v] < MaxPart

VARIABLES kind,      \* what the server is
          version,   \* which content it serves
          part,      \* the chunks in the .part, <<>> when it is absent or empty
          localFile, \* the chunks in the renamed file, <<>> before
          pc, attempt, xferCancel,
          base,      \* the size of the .part when the attempt began
          answer     \* how curl_easy_perform returned, and the response code

xferVars == <<kind, version, part, localFile, pc, attempt, xferCancel, base, answer>>
remote == <<kind, version>>

Kinds == {"ftp", "ranges", "noRanges"}
Chunks == {c \in (DOMAIN Sizes) \X (1 .. MaxPart) : c[2] <= Sizes[c[1]]}
Answers == [curl : {"none", "ok", "range", "failed"}, code : {"none", "200", "206", "226", "416", "gone"}]

TransferTypeOK ==
  /\ kind \in Kinds /\ version \in DOMAIN Sizes
  /\ part \in Seq(Chunks) /\ Len(part) <= MaxPart
  /\ localFile \in Seq(Chunks)
  /\ pc \in {"idle", "attempt", "perform", "judge", "done"}
  /\ attempt \in 1 .. retries /\ xferCancel \in BOOLEAN
  /\ base \in 0 .. MaxPart /\ answer \in Answers

NoAnswer == [curl |-> "none", code |-> "none"]

XferInit == /\ kind \in Kinds /\ version = 1
            /\ part = <<>> /\ localFile = <<>>
            /\ pc = "idle" /\ attempt = 1 /\ xferCancel = FALSE
            /\ base = 0 /\ answer = NoAnswer

-----------------------------------------------------------------------------
(* The server, as downloadFile uses it. *)

\* What is sent of the current content to a request that starts behind chunk b.
Sent(b) == LET skipped == IF kind = "noRanges" THEN 0 ELSE b
           IN  [i \in 1 .. (Sizes[version] - skipped) |-> <<version, skipped + i>>]

\* What is received is appended, tracked up to MaxPart chunks.
Received(n) == LET got == part \o SubSeq(Sent(base), 1, n)
               IN  SubSeq(got, 1, IF Len(got) < MaxPart THEN Len(got) ELSE MaxPart)

PerformCompletes(b) ==
  /\ pc = "perform" /\ pc' = "judge"
  /\ base = b
  /\ kind = "noRanges" \/ b < Sizes[version] \/ (kind = "ftp" /\ b = Sizes[version])
  /\ part' = Received(Len(Sent(b)))
  /\ answer' = [curl |-> "ok",
                code |-> CASE kind = "ftp"                -> "226"
                           [] kind = "ranges" /\ b > 0    -> "206"
                           [] OTHER                       -> "200"]
  /\ UNCHANGED <<remote, localFile, attempt, xferCancel, base>>

\* The connection breaks after n chunks, or the cancel flag aborts it in xferCb.
PerformBreaks ==
  /\ pc = "perform" /\ pc' = "judge"
  /\ \E n \in 0 .. Sizes[version] :
       /\ n = 0 \/ n < Len(Sent(base))
       /\ part' = Received(n)
  /\ answer' = [curl |-> "failed", code |-> "none"]
  /\ UNCHANGED <<remote, localFile, attempt, xferCancel, base>>

\* curl will not resume without byte ranges, nor an FTP file that is longer here.
PerformRefused ==
  /\ pc = "perform" /\ pc' = "judge"
  /\ base > 0
  /\ \/ kind = "noRanges" /\ answer' = [curl |-> "range", code |-> "none"]
     \/ kind = "ftp" /\ base > Sizes[version] /\ answer' = [curl |-> "failed", code |-> "none"]
  /\ UNCHANGED <<remote, part, localFile, attempt, xferCancel, base>>

\* There is nothing behind the start: to a resumed request libcurl lets the server's
\* 416 pass for success, FAILONERROR or not, and leaves out its body.
PerformNothingLeft ==
  /\ pc = "perform" /\ pc' = "judge"
  /\ kind = "ranges" /\ base > 0 /\ base >= Sizes[version]
  /\ answer' = [curl |-> "ok", code |-> "416"]
  /\ UNCHANGED <<remote, part, localFile, attempt, xferCancel, base>>

PerformGone == /\ pc = "perform" /\ pc' = "judge"
               /\ answer' = [curl |-> "failed", code |-> "gone"]
               /\ UNCHANGED <<remote, part, localFile, attempt, xferCancel, base>>

Republish == /\ version < Len(Sizes)
             /\ version' = version + 1
             /\ UNCHANGED <<kind, part, localFile, pc, attempt, xferCancel, base, answer>>

-----------------------------------------------------------------------------
(* The caller and downloadFile. *)

\* A file that is there locally is not asked for again.
Request == /\ pc = "idle" /\ pc' = "attempt"
           /\ localFile = <<>>
           /\ attempt' = 1
           /\ UNCHANGED <<remote, part, localFile, xferCancel, base, answer>>

\* What is on disk is the offset to resume from.
Begin == /\ pc = "attempt" /\ pc' = "perform"
         /\ ~xferCancel
         /\ base' = Len(part) /\ answer' = NoAnswer
         /\ UNCHANGED <<remote, part, localFile, attempt, xferCancel>>

\* Cancelled, or the local file cannot be opened.
GiveUp == /\ pc = "attempt" /\ pc' = "idle"
          /\ UNCHANGED <<remote, part, localFile, attempt, xferCancel, base, answer>>

Restarted == answer.curl = "ok" /\ base > 0 /\ answer.code = "200"

remoteGone == answer.code = "gone"

\* Slip: a body sent again from its start counts as finished.
SucceededAnyway == answer.curl = "ok"

Succeeded == answer.curl = "ok" /\ ~Restarted

Judge(ends) == /\ pc = "judge" /\ pc' = ends
               /\ UNCHANGED <<remote, localFile, xferCancel, base, answer>>

JudgeCancelled == /\ xferCancel /\ Judge("idle")
                  /\ UNCHANGED <<part, attempt>>

JudgeDone == /\ ~xferCancel /\ Succeeded /\ Judge("done")
             /\ UNCHANGED <<part, attempt>>

\* Slip: a part the server will not resume is kept.
NextPartKept == part

\* The part is dropped when it cannot be resumed and kept when it can.
NextPart == IF Restarted \/ remoteGone \/ answer.curl = "range" THEN <<>> ELSE part

JudgeRetry == /\ ~xferCancel /\ ~Succeeded /\ attempt < retries /\ Judge("attempt")
              /\ part' = NextPart
              /\ attempt' = attempt + 1

JudgeFailed == /\ ~xferCancel /\ ~Succeeded /\ attempt = retries /\ Judge("idle")
               /\ part' = NextPart
               /\ UNCHANGED attempt

Rename == /\ pc = "done" /\ pc' = "idle"
          /\ localFile' = part
          /\ part' = <<>>
          /\ UNCHANGED <<remote, attempt, xferCancel, base, answer>>

\* Neither renamed nor copied: the call failed and the whole part stays.
RenameFails == /\ pc = "done" /\ pc' = "idle"
               /\ UNCHANGED <<remote, part, localFile, attempt, xferCancel, base, answer>>

XferShutdown == /\ ~xferCancel /\ xferCancel' = TRUE
                /\ UNCHANGED <<remote, part, localFile, pc, attempt, base, answer>>

\* The process ends, orderly or not; the next one finds the files.
Restart == /\ pc' = "idle" /\ xferCancel' = FALSE
           /\ xferCancel \/ pc # "idle"
           /\ base' = 0 /\ answer' = NoAnswer /\ attempt' = 1
           /\ UNCHANGED <<remote, part, localFile>>

Perform == (\E b \in 0 .. MaxPart : PerformCompletes(b))
             \/ PerformBreaks \/ PerformRefused \/ PerformNothingLeft \/ PerformGone

downloadFile == Begin \/ GiveUp \/ JudgeCancelled \/ JudgeDone \/ JudgeRetry \/ JudgeFailed

XferNext == \/ Request \/ downloadFile \/ Perform \/ Rename \/ RenameFails
            \/ Republish \/ XferShutdown \/ Restart

XferSpec == XferInit /\ [][XferNext]_xferVars

\* The user asks again, the program runs on, and from every offset a transfer that
\* is tried again and again gets its answer; files can be opened and renamed at last.
XferFairness == /\ WF_xferVars(Request) /\ WF_xferVars(Perform)
                /\ WF_xferVars(JudgeCancelled) /\ WF_xferVars(JudgeRetry) /\ WF_xferVars(JudgeFailed)
                /\ SF_xferVars(Begin) /\ SF_xferVars(JudgeDone) /\ SF_xferVars(Rename)
                /\ SF_xferVars(PerformRefused) /\ SF_xferVars(PerformNothingLeft)
                /\ \A b \in 0 .. MaxPart : SF_xferVars(PerformCompletes(b))

XferFairSpec == XferSpec /\ XferFairness

-----------------------------------------------------------------------------
(* Properties. *)

\* Every chunk in its place, none older than the one before it, and as many as there
\* are of the content the last one is of, unless that was replaced, up to version v, by
\* one that gives nothing beyond what is there.
AddsUp(v, s) ==
  LET last == s[Len(s)][1]
  IN  /\ \A i \in DOMAIN s : s[i][2] = i
      /\ \A i, j \in DOMAIN s : i < j => s[i][1] <= s[j][1]
      /\ \/ Len(s) = Sizes[last]
         \/ \E w \in DOMAIN Sizes : last < w /\ w <= v /\ Sizes[w] <= Len(s)

\* Whatever broke, resumed or restarted in between, what downloadFile calls finished
\* adds up.  It resumes by size alone: a file replaced between two attempts comes out as
\* the beginning of the old content and the rest of the new one, or as the old beginning
\* only; a file that was not replaced since its first chunk arrived is the remote file.
LocalAddsUp == localFile # <<>> => AddsUp(version, localFile)

\* What the download page says, that a broken download can be resumed: what has been
\* resumed to its end is the file, in one of the contents it had.  It fails for a file
\* replaced between two attempts.
ResumedIsTheFile ==
  localFile # <<>> => \E v \in DOMAIN Sizes : localFile = [i \in 1 .. Sizes[v] |-> <<v, i>>]

\* An FTP part longer than the replaced file is neither resumed nor dropped.
Oversized == kind = "ftp" /\ Len(part) > Sizes[version]

\* The program is at some time started and left running.
StaysUp == <>[]~xferCancel /\ <>[][~Restart]_xferVars

\* Then a file asked for again and again arrives: no part is left that every later
\* call of downloadFile trips over, except one that outgrew an FTP file.
FileArrives == StaysUp => <>(localFile # <<>> \/ Oversized)

=============================================================================
