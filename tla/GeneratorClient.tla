-------------------------- MODULE GeneratorClient ---------------------------
(***************************************************************************)
(* The generator page of the web client: GeneratorUI.tsx, which starts a    *)
(* generation job and shows its code, and the hook usePipelineWebSocket     *)
(* that follows the job over a websocket, with usePipelineStore for the     *)
(* state of the connection.                                                 *)
(*                                                                          *)
(* Event handlers run to completion, and React runs the effects of a render *)
(* before the next event: Effects is enabled as soon as one of the values   *)
(* the effects depend on has changed, and everything else waits for it.     *)
(* The effects of one render see the values of that render, also when an    *)
(* earlier effect of it has set others.                                     *)
(*                                                                          *)
(* Of the backend: the rows of jobs, the events of their runs, and the      *)
(* handler of a websocket, as far as the page sees them (EventBroadcast has *)
(* the way of an event).  What is published for one session reaches every   *)
(* websocket that is subscribed, or none: without Redis it is dropped, and  *)
(* the websockets of a process that is deaf stay open.  Left out: the       *)
(* clarification of a prompt, a failure that a node tells of before its run *)
(* has ended, the log and the phases shown, heartbeat, ping and latency.    *)
(***************************************************************************)
EXTENDS Naturals, FiniteSets

CONSTANTS
  Jobs,        \* generation jobs, of this page and of others
  Reviewed,    \* bound: jobs that ask for a review (once)
  MaxAttempts, \* attempts to connect again in a row
  MaxPolls,    \* attempts to fetch the code of a completed job
  MaxSockets,  \* bound: sockets that are not gone yet
  MaxDrops,    \* bound: sockets that end uncleanly
  NoJob        \* none of the jobs

Sockets == 1..MaxSockets

ASSUME GeneratorAssumption ==
  /\ MaxAttempts \in Nat /\ MaxPolls \in Nat \ {0} /\ MaxSockets \in Nat /\ MaxDrops \in Nat
  /\ Reviewed \subseteq Jobs /\ NoJob \notin Jobs

VARIABLES
  page,     \* GeneratorUI: the job it follows, generationStatus, whether it has generatedCode
            \* (and with it a lastCompletedJobId), and whether the review panel is open
  hook,     \* usePipelineWebSocket: pipelineStatus, whether pipelineState is
            \* HUMAN_REVIEW, whether it has generatedCode (of any job; it is never cleared)
  seen,     \* the values that the effects have last run with
  starting, \* calls of startGeneration that have not returned
  fetches,  \* runs of fetchCompletedCode: the job and the attempts left
  failures, \* runs of handleFailedJob: the job
  answering, \* whether an answer to a review is under way
  late,     \* the timers of two seconds set by a final phase_transition
  sock,     \* sock[s] : the job and the state of socket s
  ref,      \* wsRef.current, or 0
  retry,    \* the job that reconnectTimerRef connects to again, or NoJob
  lost,     \* jobs of such timers that the ref no longer holds
  attempts, \* reconnectAttemptsRef
  banner,    \* connected, and connectionState of the store
  backend,  \* backend[j] : the job itself
  drops,    \* sockets that ended uncleanly so far
  unclean,  \* whether a socket that the page closed ended uncleanly (history)
  gap       \* sockets whose handler has looked the session up and will not tell of its
            \* end: it missed the event, or did not see the row (history)

connection == <<sock, ref, retry, lost, attempts>>
client == <<page, hook, starting, fetches, failures, answering, late>>
gvars == <<client, seen, connection, banner, backend, drops, unclean, gap>>

Statuses == {"pending", "running", "human_review", "completed", "failed"}
Page == [job : Jobs \cup {NoJob}, gen : Statuses, code : BOOLEAN,
         modal : BOOLEAN]
Hook == [status : Statuses, review : BOOLEAN, files : BOOLEAN]

\* open: accepted by the server; looked: its handler has read the session's status;
\* live: subscribed; closing, aborted: closed by the page, the second while connecting.
Socket == [job : Jobs \cup {NoJob},
           st : {"connecting", "open", "looked", "live", "closing", "aborted", "gone"}]

Gone == [job |-> NoJob, st |-> "gone"]

Opened == {s \in Sockets : sock[s].st \in {"open", "looked", "live"}}
Attached == Opened \cup {s \in Sockets : sock[s].st = "connecting"}
Free == {s \in Sockets : sock[s].st = "gone"}
Ended == {"completed", "failed"}

\* The values the effects depend on.
Deps == [job |-> page.job, status |-> hook.status, review |-> hook.review, files |-> hook.files]
Settled == seen = Deps

(***************************************************************************)
(* The connection.                                                          *)
(***************************************************************************)
\* connect, on the sockets given.
Connect(socks, j) ==
  \E s \in Free :
    /\ \A t \in Free : s <= t
    /\ sock' = [socks EXCEPT ![s] = [job |-> j, st |-> "connecting"]]
    /\ ref' = s

\* Closing the socket of the ref: one that is still connecting is aborted.
Closed(s) ==
  IF s = 0 THEN sock
  ELSE CASE sock[s].st = "connecting" -> [sock EXCEPT ![s].st = "aborted"]
         [] s \in Opened -> [sock EXCEPT ![s].st = "closing"]
         [] OTHER -> sock

SocketOpens(s) ==
  /\ Settled
  /\ sock[s].st = "connecting"
  /\ sock' = [sock EXCEPT ![s].st = "open"]
  /\ banner' = [live |-> TRUE, state |-> "connected"]
  /\ attempts' = 0
  /\ UNCHANGED <<client, seen, ref, retry, lost, backend, drops, unclean, gap>>

\* onclose after a clean close.  The poll for the job's status that it may start
\* has the first render's pipelineId, which is null on this page.
EndsCleanly(s) ==
  /\ sock' = [sock EXCEPT ![s] = Gone]
  /\ hook' = [hook EXCEPT !.status = "pending"]
  /\ banner' = [live |-> FALSE, state |-> "disconnected"]
  /\ attempts' = 0
  /\ gap' = gap \ {s}
  /\ UNCHANGED <<page, seen, starting, fetches, failures, answering, late, ref, retry, lost,
                 backend, drops, unclean>>

CloseHandshake(s) == Settled /\ sock[s].st = "closing" /\ EndsCleanly(s)

\* The server closes the socket of a session that it does not know.
ServerRefuses(s) == Settled /\ sock[s].st = "open" /\ EndsCleanly(s)

\* Seeded fault: the connection is not tried again, and still shown.
SocketDropsForGood(s) ==
  /\ Settled
  /\ drops < MaxDrops /\ drops' = drops + 1
  /\ sock[s].st # "gone"
  /\ sock' = [sock EXCEPT ![s] = Gone]
  /\ gap' = gap \ {s}
  /\ unclean' = (unclean \/ sock[s].st \in {"closing", "aborted"})
  /\ UNCHANGED <<page, hook, seen, starting, fetches, failures, answering, late, ref, retry, lost,
                 attempts, banner, backend>>

\* onerror and onclose after an unclean close; it does not matter who asked for it.
SocketDrops(s) ==
  /\ Settled
  /\ drops < MaxDrops /\ drops' = drops + 1
  /\ sock[s].st # "gone"
  /\ sock' = [sock EXCEPT ![s] = Gone]
  /\ hook' = [hook EXCEPT !.status = "pending"]
  /\ gap' = gap \ {s}
  /\ unclean' = (unclean \/ sock[s].st \in {"closing", "aborted"})
  /\ IF attempts < MaxAttempts
     THEN /\ attempts' = attempts + 1
          /\ retry' = sock[s].job
          /\ lost' = lost \cup ({retry} \ {NoJob})
          /\ banner' = [live |-> FALSE, state |-> "connecting"]
     ELSE /\ banner' = [live |-> FALSE, state |-> "error"]
          /\ UNCHANGED <<attempts, retry, lost>>
  /\ UNCHANGED <<page, seen, starting, fetches, failures, answering, late, ref, backend>>

\* The timer of a reconnection; the ref keeps an identifier that has no use then.
RetryTimer(j) ==
  /\ Settled
  /\ \/ retry = j /\ retry' = NoJob /\ UNCHANGED lost
     \/ j \in lost /\ lost' = lost \ {j} /\ UNCHANGED retry
  /\ Connect(sock, j)
  /\ banner' = [banner EXCEPT !.state = "connecting"]
  /\ UNCHANGED <<client, seen, attempts, backend, drops, unclean, gap>>

(***************************************************************************)
(* Events: handleEvent, which takes an event of any session for one of the  *)
(* job that is followed.                                                    *)
(***************************************************************************)
Phase(review, status) == hook' = [hook EXCEPT !.review = review, !.status = status]

\* phase_transition; a final one waits two seconds for the event of the end.
OnRunning == Phase(FALSE, "running") /\ UNCHANGED late
OnReview == Phase(TRUE, "human_review") /\ UNCHANGED late
OnCoded == hook' = [hook EXCEPT !.review = FALSE] /\ late' = late \cup {"completed"}

\* session_complete, with the files of the session.
OnComplete ==
  /\ hook' = [status |-> "completed", review |-> FALSE, files |-> TRUE]
  /\ UNCHANGED late

\* session_failed, which a phase_transition may follow.
OnFailed == Phase(FALSE, "failed") /\ late' \in {late, late \cup {"failed"}}

\* session_info of a session that has ended.
OnInfo(status) == Phase(FALSE, status) /\ UNCHANGED late

Hears == \E s \in Sockets : sock[s].st = "live"

\* An event reaches the page only if one of its sockets is subscribed, to anything.
Receives(Handle) ==
  /\ Settled
  /\ (Hears /\ Handle) \/ UNCHANGED <<hook, late>>
  /\ UNCHANGED <<page, seen, starting, fetches, failures, answering, connection, banner, drops,
                 unclean>>

\* The two-second timer of an earlier event; nothing clears it.
LateTimer(k) ==
  /\ Settled
  /\ k \in late
  /\ late' = late \ {k}
  /\ hook' = IF hook.status \in Ended THEN hook ELSE [hook EXCEPT !.status = k]
  /\ UNCHANGED <<page, seen, starting, fetches, failures, answering, connection, banner, backend,
                 drops, unclean, gap>>

(***************************************************************************)
(* The backend and the handlers of its websockets.                          *)
(***************************************************************************)
Stored(j) == backend[j] \in {"stored", "done", "broken", "failed"}

Becomes(j, from, to) == backend[j] = from /\ backend' = [backend EXCEPT ![j] = to]

\* Somebody else starts a job.
StartElsewhere(j) ==
  /\ Settled /\ Becomes(j, "none", "running")
  /\ UNCHANGED <<client, seen, connection, banner, drops, unclean, gap>>

\* A job that has been resumed is running again.
Runs(j) == backend[j] \in {"running", "resumed"}

Moves(j, to) == Runs(j) /\ backend' = [backend EXCEPT ![j] = to]

JobRuns(j) ==
  Runs(j) /\ Receives(OnRunning) /\ UNCHANGED <<backend, gap>>

JobAsksReview(j) ==
  j \in Reviewed /\ Becomes(j, "running", "review") /\ Receives(OnReview) /\ UNCHANGED gap

\* approve_review, asked by this page, also when its request timed out, or by another.
\* abortSession is refused: it sends no error_message, which fail_session wants.
JobResumes(j) ==
  /\ Settled /\ Becomes(j, "review", "resumed")
  /\ UNCHANGED <<client, seen, connection, banner, drops, unclean, gap>>

JobCodes(j) == Moves(j, "coded") /\ Receives(OnCoded) /\ UNCHANGED gap

\* The row of the job is written before its end is published.
JobStores(j) ==
  /\ Settled
  /\ Becomes(j, "coded", "stored") \/ Moves(j, "broken")
  /\ UNCHANGED <<client, seen, connection, banner, drops, unclean, gap>>

\* Sockets whose handler waits for the end of the job.
Awaiting(j) == {s \in Sockets : sock[s].job = j /\ sock[s].st \in {"looked", "live"}}

JobAnnounces(j) ==
  \E heard \in BOOLEAN :
    LET Event(Handle) == IF heard THEN Hears /\ Handle ELSE UNCHANGED <<hook, late>>
    IN /\ Settled
       /\ \/ Becomes(j, "stored", "done") /\ Event(OnComplete)
          \/ Becomes(j, "broken", "failed") /\ Event(OnFailed)
       /\ gap' = IF heard THEN gap ELSE gap \cup Awaiting(j)
       /\ UNCHANGED <<page, seen, starting, fetches, failures, answering, connection, banner,
                      drops, unclean>>

\* The status that the handler of a websocket goes by.  The row of an ended job overrides
\* the session in the memory of the process; when the row cannot be read, or
\* was not written (the finalizer goes on then), the session counts and may still be active.
Outcome(j) == IF backend[j] \in {"stored", "done"} THEN "completed" ELSE "failed"

Found(j, read) ==
  IF ~Stored(j) THEN {"running"}
  ELSE IF read THEN {Outcome(j)} ELSE {Outcome(j), "running"}

\* The handler tells at once that the session has ended; otherwise it subscribes next.
ServerLooksUp(s) ==
  /\ Settled
  /\ sock[s].st = "open"
  /\ LET j == sock[s].job
     IN \E read \in BOOLEAN : \E status \in Found(j, read) :
          IF status \in Ended
          THEN /\ sock' = [sock EXCEPT ![s].st = "live"]
               /\ OnInfo(status)
               /\ UNCHANGED gap
          ELSE /\ sock' = [sock EXCEPT ![s].st = "looked"]
               /\ UNCHANGED <<hook, late>>
               /\ gap' = IF backend[j] \in {"done", "failed"} THEN gap \cup {s} ELSE gap
  /\ UNCHANGED <<page, seen, starting, fetches, failures, answering, ref, retry, lost, attempts,
                 banner, backend, drops, unclean>>

ServerSubscribes(s) ==
  /\ Settled
  /\ sock[s].st = "looked"
  /\ sock' = [sock EXCEPT ![s].st = "live"]
  /\ UNCHANGED <<client, seen, ref, retry, lost, attempts, banner, backend, drops, unclean, gap>>

(***************************************************************************)
(* Effects.                                                                 *)
(***************************************************************************)
\* Seeded fault: the clean-up leaves the timer of a reconnection.
FollowJobKeepsTimer ==
  IF page.job = seen.job THEN UNCHANGED <<connection, banner>>
  ELSE /\ UNCHANGED <<retry, lost>>
       /\ IF page.job # NoJob
          THEN /\ Connect(Closed(ref), page.job)
               /\ attempts' = 0
               /\ banner' = [banner EXCEPT !.state = "connecting"]
          ELSE /\ sock' = Closed(ref) /\ ref' = 0
               /\ banner' = [live |-> FALSE, state |-> "disconnected"]
               /\ UNCHANGED attempts

\* The hook's effect on the job: its clean-up closes the socket and clears the
\* timer of the ref.
FollowJob ==
  IF page.job = seen.job THEN UNCHANGED <<connection, banner>>
  ELSE /\ retry' = NoJob /\ UNCHANGED lost
       /\ IF page.job # NoJob
          THEN /\ Connect(Closed(ref), page.job)
               /\ attempts' = 0
               /\ banner' = [banner EXCEPT !.state = "connecting"]
          ELSE /\ sock' = Closed(ref) /\ ref' = 0
               /\ banner' = [live |-> FALSE, state |-> "disconnected"]
               /\ UNCHANGED attempts

Changed(fields) == \E f \in fields : Deps[f] # seen[f]

\* The page's effects on the status, one after the other.
SyncStatus(p) ==
  IF Changed({"status", "job"}) /\ p.job # NoJob /\ hook.status # "pending"
  THEN [p EXCEPT !.gen = hook.status] ELSE p

OpenReview(p) ==
  IF Changed({"status", "review"}) /\ hook.review THEN [p EXCEPT !.modal = TRUE] ELSE p

Completes == Changed({"status", "job", "files"}) /\ page.job # NoJob /\ hook.status = "completed"

\* fetchCompletedCode with the files that the hook holds.
TakeFiles(p) ==
  IF Completes /\ hook.files
  THEN [p EXCEPT !.code = TRUE, !.gen = "completed", !.job = NoJob]
  ELSE p

Effects ==
  /\ ~Settled
  /\ FollowJob
  /\ page' = TakeFiles(OpenReview(SyncStatus(page)))
  /\ hook' = IF Changed({"job"}) THEN [hook EXCEPT !.status = "pending"] ELSE hook
  /\ fetches' = IF Completes /\ ~hook.files
                THEN fetches \cup {[job |-> page.job, left |-> MaxPolls]} ELSE fetches
  /\ failures' = IF Changed({"status", "job"}) /\ page.job # NoJob /\ hook.status = "failed"
                 THEN failures \cup {page.job} ELSE failures
  /\ seen' = Deps
  /\ UNCHANGED <<answering, starting, late, backend, drops, unclean, gap>>

(***************************************************************************)
(* GeneratorUI.                                                             *)
(***************************************************************************)
Fresh == {j \in Jobs : backend[j] = "none"}

\* The prompt, or the prompt bar below the code.
MayGenerate ==
  \/ page.gen \in {"pending", "failed"}
  \/ page.gen \in Ended /\ page.code

\* handleGenerate, up to the request.
HandleGenerate ==
  /\ Settled /\ MayGenerate
  /\ starting < Cardinality(Fresh)
  /\ starting' = starting + 1
  /\ page' = [page EXCEPT !.gen = "running", !.code = FALSE]
  /\ UNCHANGED <<seen, hook, fetches, failures, answering, late, connection, banner, backend,
                 drops, unclean, gap>>

\* Seeded fault: the answer of another job's request leaves the status as it is.
FailureReturnsQuietly(j) ==
  /\ Settled
  /\ j \in failures /\ failures' = failures \ {j}
  /\ page' = [page EXCEPT !.gen = IF page.job = j THEN "failed" ELSE @, !.job = NoJob]
  /\ UNCHANGED <<seen, hook, starting, fetches, answering, late, connection, banner, backend,
                 drops, unclean, gap>>

StartReturns ==
  /\ Settled
  /\ starting > 0 /\ starting' = starting - 1
  /\ \/ \E j \in Fresh : Becomes(j, "none", "running") /\ page' = [page EXCEPT !.job = j]
     \/ page' = [page EXCEPT !.gen = "failed", !.job = NoJob] /\ UNCHANGED backend
  /\ UNCHANGED <<seen, hook, fetches, failures, answering, late, connection, banner, drops,
                 unclean, gap>>

\* One attempt of fetchCompletedCode, with the job it was started for.
FetchReturns(f) ==
  /\ Settled
  /\ f \in fetches
  /\ \/ /\ backend[f.job] \in {"stored", "done"}
        /\ fetches' = fetches \ {f}
        /\ page' = [page EXCEPT !.code = TRUE, !.gen = "completed", !.job = NoJob]
     \/ /\ f.left > 1
        /\ fetches' = (fetches \ {f}) \cup {[f EXCEPT !.left = @ - 1]}
        /\ UNCHANGED page
     \/ /\ f.left = 1
        /\ fetches' = fetches \ {f}
        /\ page' = [page EXCEPT !.gen = "failed", !.job = NoJob]
  /\ UNCHANGED <<seen, hook, starting, failures, answering, late, connection, banner, backend,
                 drops, unclean, gap>>

\* handleFailedJob, whether its request succeeds or not.
FailureReturns(j) ==
  /\ Settled
  /\ j \in failures /\ failures' = failures \ {j}
  /\ page' = [page EXCEPT !.gen = "failed", !.job = NoJob]
  /\ UNCHANGED <<seen, hook, answering, starting, fetches, late, connection, banner, backend,
                 drops, unclean, gap>>

\* handleApproveResumption and handleAbortResumption, up to the request (bound: one at a
\* time; only an approval disables the buttons).
AnswerReview ==
  /\ Settled /\ page.modal /\ hook.review /\ page.job # NoJob
  /\ ~answering /\ answering' = TRUE
  /\ UNCHANGED <<page, seen, hook, starting, fetches, failures, late, connection, banner, backend,
                 drops, unclean, gap>>

\* The request returns.  ApiClient.request reports a refusal, a timeout or a network
\* error in its result, which neither handler looks at: both go on as if it had been done.
\* What an approval does in the backend, if anything, is JobResumes.
AnswerReturns ==
  /\ Settled
  /\ answering /\ answering' = FALSE
  /\ \/ page' = [page EXCEPT !.modal = FALSE, !.gen = "running", !.code = FALSE]
     \/ page' = [page EXCEPT !.modal = FALSE, !.gen = "failed", !.job = NoJob]
  /\ UNCHANGED <<seen, hook, starting, fetches, failures, late, connection, banner, backend, drops,
                 unclean, gap>>

GInit ==
  /\ page = [job |-> NoJob, gen |-> "pending", code |-> FALSE, modal |-> FALSE]
  /\ hook = [status |-> "pending", review |-> FALSE, files |-> FALSE]
  /\ seen = Deps
  /\ starting = 0 /\ fetches = {} /\ failures = {} /\ answering = FALSE /\ late = {}
  /\ sock = [s \in Sockets |-> Gone]
  /\ ref = 0 /\ retry = NoJob /\ lost = {} /\ attempts = 0
  /\ banner = [live |-> FALSE, state |-> "disconnected"]
  /\ backend = [j \in Jobs |-> "none"]
  /\ drops = 0 /\ unclean = FALSE /\ gap = {}

SocketStep(s) ==
  SocketOpens(s) \/ CloseHandshake(s) \/ ServerLooksUp(s) \/ ServerSubscribes(s)

Timers == \E j \in Jobs : RetryTimer(j)

Requests ==
  \/ StartReturns
  \/ \E f \in fetches : FetchReturns(f)
  \/ \E j \in Jobs : FailureReturns(j)
  \/ AnswerReturns

JobStep(j) == StartElsewhere(j) \/ JobRuns(j) \/ JobAsksReview(j) \/ JobResumes(j) \/ JobCodes(j)
              \/ JobStores(j)

GNext ==
  \/ Effects
  \/ \E s \in Sockets : SocketStep(s) \/ ServerRefuses(s) \/ SocketDrops(s)
  \/ Timers
  \/ \E k \in Ended : LateTimer(k)
  \/ \E j \in Jobs : JobStep(j) \/ JobAnnounces(j)
  \/ Requests
  \/ HandleGenerate \/ AnswerReview

GSpec == GInit /\ [][GNext]_gvars

Progress ==
  \/ Effects \/ Timers \/ Requests
  \/ \E s \in Sockets : SocketStep(s)
  \/ \E j \in Jobs : JobAnnounces(j)

\* Something goes on as long as React has effects or timers to run, a request has
\* not returned, a socket opens or closes, the handler of one has yet to subscribe,
\* or a stored end is not announced.  Jobs may take for ever.
Fairness == WF_gvars(Progress)

GFairSpec == GSpec /\ Fairness

(***************************************************************************)
(* Properties.                                                              *)
(***************************************************************************)
\* Every variable has its type.
GTypeOK ==
  /\ page \in Page /\ hook \in Hook
  /\ seen \in [job : Jobs \cup {NoJob}, status : Statuses, review : BOOLEAN, files : BOOLEAN]
  /\ starting \in Nat
  /\ fetches \subseteq [job : Jobs, left : 1..MaxPolls]
  /\ failures \subseteq Jobs /\ late \subseteq Ended
  /\ answering \in BOOLEAN
  /\ sock \in [Sockets -> Socket] /\ ref \in {0} \cup Sockets
  /\ retry \in Jobs \cup {NoJob} /\ lost \subseteq Jobs /\ attempts \in 0..MaxAttempts
  /\ banner \in [live : BOOLEAN, state : {"disconnected", "connecting", "connected", "error"}]
  /\ backend \in [Jobs -> {"none", "running", "review", "resumed", "coded", "stored", "done",
                           "broken", "failed"}]
  /\ drops \in 0..MaxDrops /\ unclean \in BOOLEAN /\ gap \subseteq Sockets

\* At most one socket is connecting or open, and it is the ref's, for the job that
\* the page follows, and no other will be opened: until a socket that the page
\* itself has closed ends uncleanly, which connects to its job again (onclose).
OneSocket ==
  Settled /\ ~unclean =>
    /\ Attached \subseteq {ref}
    /\ \A s \in Attached : sock[s].job = page.job
    /\ lost = {} /\ (retry # NoJob => retry = page.job /\ Attached = {})

\* The page waits for a job that it follows, or for the start of one.
Backed == page.gen \in {"running", "human_review"} => page.job # NoJob \/ starting > 0

\* A page that shows a generation under way has no prompt to start another with.  No
\* request that returns late, in whatever order those of two jobs do, and no effect leaves
\* it like that with nothing to wait for: save the answer to an approval, which may come
\* after the job has been left.
RunningIsBacked == [][Backed => Backed' \/ (answering /\ ~answering')]_gvars

\* A job whose end is announced is not followed for ever: the page fetches its code,
\* or shows that it has no connection, or the handler of its socket has missed the end,
\* or a socket of another job came back as for OneSocket.
JobsAreLeft ==
  []<>~(/\ page.job # NoJob /\ ref \notin gap /\ ~unclean
        /\ backend[page.job] \in {"done", "failed"}
        /\ banner.state \notin {"error", "disconnected"})

=============================================================================
