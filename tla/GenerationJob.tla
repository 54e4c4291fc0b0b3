---------------------------- MODULE GenerationJob ----------------------------
(***************************************************************************)
(* A code generation job: the row in generation_jobs, the Celery tasks     *)
(* that run it, the runs an API process starts itself (POST /start), the   *)
(* requests that answer clarification questions, and the dead letter queue.*)
(*                                                                         *)
(* Nothing serialises the writers of a row: each UPDATE sets some columns  *)
(* unconditionally, the metadata column always as a whole, and every await *)
(* lets another writer in.  A step below is what runs between two awaits.  *)
(* Several tasks for one job may be queued or running at once.             *)
(***************************************************************************)
EXTENDS Integers

CONSTANTS
  Jobs,        \* job ids; all jobs carry the same prompt
  Workers,     \* Celery worker processes that consume the task's queue
  Locals,      \* slots for orchestrator runs inside API processes
  Requests,    \* requests to POST /api/clarify/answer, one message each
  MaxQueue,    \* bound: tasks of one job waiting in the broker
  DbMayFail,   \* may a statement on generation_jobs fail?
  RedisMayFail, \* may Redis refuse a connection, an event or an entry?
  MayStop,     \* which processes may stop: "worker", "api"
  None

Runners == Workers \union Locals

ASSUME JobConstants ==
  /\ MaxQueue \in Nat
  /\ DbMayFail \in BOOLEAN /\ RedisMayFail \in BOOLEAN
  /\ MayStop \subseteq {"worker", "api"}
  /\ Workers \intersect Locals = {}
  /\ None \notin Requests

VARIABLES
  job,      \* job[j]: the row in generation_jobs
  posted,   \* jobs whose background dispatch to Celery is still to come
  queue,    \* queue[j]: tasks of job j waiting in the broker
  run,      \* run[p]: the task or run that p executes
  answer,   \* answer[r]: where request r is
  kept,     \* kept[j]: the checkpoint of j in an API process's MemorySaver,
            \* that is whether its state has a plan
  dlq,      \* jobs with an entry in the dead letter queue
  told,     \* told[j]: the kinds of final events published for j
  unsaved   \* history: jobs of which an INSERT or UPDATE has failed

vars == <<job, posted, queue, run, answer, kept, dlq, told, unsaved>>
-----------------------------------------------------------------------------
\* The statuses found in generation_jobs.  The upper-case ones are values of
\* SessionState, written when a run is finalized.
Statuses == {"pending", "running", "clarifying", "pending_human", "failed",
             "COMPLETED", "FAILED", "HUMAN_REVIEW"}

\* The metadata column: whose messages clarification_history holds, and
\* whether there is a refined_spec.
Meta == [said : SUBSET Requests, spec : BOOLEAN]
NoMeta == [said |-> {}, spec |-> FALSE]

\* spec is the column refined_spec; blank, whether the sanitised prompt is "".
Row == [status : Statuses, code : BOOLEAN, spec : BOOLEAN, meta : Meta,
        blank : BOOLEAN]

ASSUME NoneIsNoRow == None \notin Row

\* at is what p does next.  skip is skip_clarify; outcome, spec and code are
\* the final state of the graph.
Run == [job : Jobs, skip : BOOLEAN, spec : BOOLEAN, code : BOOLEAN,
        at : {"read", "graph", "finalize", "announce", "retry", "fail", "tell", "bury"},
        outcome : {"COMPLETED", "FAILED", "HUMAN_REVIEW", None}]

ASSUME NoneIsNoRun == None \notin Run

NewRun(j, at, spec) == [job |-> j, at |-> at, skip |-> FALSE, spec |-> spec,
                        code |-> FALSE, outcome |-> None]

Answer == [job : Jobs, at : {"save", "agent", "done"}, meta : Meta]

TypeOK ==
  /\ job \in [Jobs -> Row \union {None}]
  /\ posted \in SUBSET Jobs
  /\ queue \in [Jobs -> 0..MaxQueue]
  /\ run \in [Runners -> Run \union {None}]
  /\ answer \in [Requests -> Answer \union {None}]
  /\ kept \in [Jobs -> BOOLEAN \union {None}]
  /\ dlq \in SUBSET Jobs
  /\ told \in [Jobs -> SUBSET {"complete", "review", "failed"}]
  /\ unsaved \in SUBSET Jobs

Init ==
  /\ job = [j \in Jobs |-> None]
  /\ posted = {}
  /\ queue = [j \in Jobs |-> 0]
  /\ run = [p \in Runners |-> None]
  /\ answer = [r \in Requests |-> None]
  /\ kept = [j \in Jobs |-> None]
  /\ dlq = {}
  /\ told = [j \in Jobs |-> {}]
  /\ unsaved = {}
-----------------------------------------------------------------------------
\* update_generation_job: an UPDATE that fails is logged, and every caller
\* carries on; one that finds no row does nothing.
Write(j, new) ==
  \/ /\ job' = IF job[j] = None THEN job ELSE [job EXCEPT ![j] = new]
     /\ UNCHANGED unsaved
  \/ DbMayFail /\ unsaved' = unsaved \union {j} /\ UNCHANGED job

\* The INSERT of a row.
NewRow(blank) == [status |-> "pending", code |-> FALSE, spec |-> FALSE,
                  meta |-> NoMeta, blank |-> blank]

At(p, stage) == run[p] # None /\ run[p].at = stage

MoveTo(p, stage) == run' = [run EXCEPT ![p].at = stage]
-----------------------------------------------------------------------------
(* Requests of the API that start or resume a job.                         *)

\* POST /api/generate: refused while a job with the prompt is "running".
StartGeneration(j) ==
  /\ job[j] = None
  /\ \A k \in Jobs : job[k] # None => job[k].status # "running"
  /\ \E blank \in BOOLEAN : job' = [job EXCEPT ![j] = NewRow(blank)]
  /\ posted' = posted \union {j}
  /\ UNCHANGED <<queue, run, answer, kept, dlq, told, unsaved>>

\* The background task of that request; the broker may refuse the task.
DispatchGeneration(j) ==
  /\ j \in posted /\ queue[j] < MaxQueue
  /\ posted' = posted \ {j}
  /\ \/ queue' = [queue EXCEPT ![j] = @ + 1] /\ UNCHANGED <<job, unsaved>>
     \/ Write(j, [job[j] EXCEPT !.status = "failed"]) /\ UNCHANGED queue
  /\ UNCHANGED <<run, answer, kept, dlq, told>>

\* POST /human-review/approve and /clarify: another task for the same job.
\* Whether the session lets them is WorkflowSession's subject; a replica
\* that has not seen the run end always does.
ApproveOrClarify(j) ==
  /\ job[j] # None /\ queue[j] < MaxQueue
  /\ queue' = [queue EXCEPT ![j] = @ + 1]
  /\ UNCHANGED <<job, posted, run, answer, kept, dlq, told, unsaved>>

\* POST /start: the row is inserted if it can be, and the run starts here.
StartSession(p, j) ==
  /\ run[p] = None
  /\ \/ /\ job[j] = None /\ \E blank \in BOOLEAN : job' = [job EXCEPT ![j] = NewRow(blank)]
        /\ UNCHANGED unsaved
     \/ job[j] # None /\ UNCHANGED <<job, unsaved>>
     \/ /\ job[j] = None /\ DbMayFail /\ UNCHANGED job
        /\ unsaved' = unsaved \union {j}
  /\ run' = [run EXCEPT ![p] = NewRun(j, "graph", FALSE)]
  /\ kept' = [kept EXCEPT ![j] = FALSE]
  /\ UNCHANGED <<posted, queue, answer, dlq, told>>

\* POST /api/sessions/{id}/resume: the metadata is replaced by the answers,
\* and the graph runs again if this process has a checkpoint of it.
ResumeWorkflow(p, j) ==
  /\ job[j] # None /\ run[p] = None
  /\ Write(j, [job[j] EXCEPT !.meta = NoMeta])
  /\ \/ kept[j] # None /\ run' = [run EXCEPT ![p] = NewRun(j, "graph", kept[j])]
     \/ UNCHANGED run        \* "no_checkpoint_found"
  /\ UNCHANGED <<posted, queue, answer, kept, dlq, told>>
-----------------------------------------------------------------------------
(* POST /api/clarify/answer.                                               *)

\* The handler reads the row and appends its message to the history it read.
ReadHistory(r, j) ==
  /\ answer[r] = None /\ job[j] # None
  /\ answer' = [answer EXCEPT ![r] =
                  [job |-> j, at |-> "save",
                   meta |-> [job[j].meta EXCEPT !.said = @ \union {r}]]]
  /\ UNCHANGED <<job, posted, queue, run, kept, dlq, told, unsaved>>

SaveHistory(r) ==
  /\ answer[r] # None /\ answer[r].at = "save"
  /\ LET j == answer[r].job
     IN  Write(j, [job[j] EXCEPT !.status = "clarifying", !.meta = answer[r].meta])
  /\ answer' = [answer EXCEPT ![r].at = "agent"]
  /\ UNCHANGED <<posted, queue, run, kept, dlq, told>>

\* Up to two minutes later the ClarifyAgent is done: it failed or timed out,
\* asked again, produced a plan (or none), or raised.
FinishAnswer(r) ==
  /\ answer[r] # None /\ answer[r].at = "agent"
  /\ LET j == answer[r].job
     IN  \/ Write(j, [job[j] EXCEPT !.status = "failed"])
         \/ Write(j, [job[j] EXCEPT !.status = "pending_human",
                                    !.meta = answer[r].meta])
         \/ \E spec \in BOOLEAN :
              Write(j, [job[j] EXCEPT !.status = "pending_human", !.spec = spec,
                                      !.meta = [answer[r].meta EXCEPT !.said = {}]])
         \/ UNCHANGED <<job, unsaved>>
  /\ answer' = [answer EXCEPT ![r].at = "done"]
  /\ UNCHANGED <<posted, queue, run, kept, dlq, told>>
-----------------------------------------------------------------------------
(* generate_code_as_celery_task and WorkflowOrchestrator.run.              *)

\* A worker takes a task; Celery acknowledges it before it runs.
TakeTask(w, j) ==
  /\ run[w] = None /\ queue[j] > 0
  /\ queue' = [queue EXCEPT ![j] = @ - 1]
  /\ run' = [run EXCEPT ![w] = NewRun(j, "read", FALSE)]
  /\ UNCHANGED <<job, posted, answer, kept, dlq, told, unsaved>>

\* The task connects to Redis before anything else, outside of its error
\* path; nor does the handler of Celery's task_failure do anything, which
\* looks for the job in positional arguments it is not given.
ConnectFails(w, j) ==
  /\ RedisMayFail /\ run[w] = None /\ queue[j] > 0
  /\ queue' = [queue EXCEPT ![j] = @ - 1]
  /\ UNCHANGED <<job, posted, run, answer, kept, dlq, told, unsaved>>

\* The task looks for a refined_spec in the row; without one it clarifies.
ReadJob(w) ==
  /\ At(w, "read")
  /\ LET j     == run[w].job
         found == job[j] # None /\ job[j].spec
     IN  run' = [run EXCEPT ![w].at = "graph", ![w].skip = found, ![w].spec = found]
  /\ UNCHANGED <<job, posted, queue, answer, kept, dlq, told, unsaved>>

\* The SELECT raises; the message decides whether the error is transient.
ReadFails(w) ==
  /\ DbMayFail /\ At(w, "read")
  /\ MoveTo(w, "retry") \/ MoveTo(w, "fail")
  /\ UNCHANGED <<job, posted, queue, answer, kept, dlq, told, unsaved>>

\* The database cannot be reached for the task's first use of it: the error
\* path runs, and once more when its return statement raises.
InitFails(w) ==
  /\ DbMayFail /\ At(w, "read")
  /\ MoveTo(w, "tell")
  /\ unsaved' = unsaved \union {run[w].job}
  /\ UNCHANGED <<job, posted, queue, answer, kept, dlq, told>>

\* Clarify ends in human review, perhaps with a plan, or it fails; it never
\* goes on to coding in the same run.
ClarifyEnds(outcome, plan, code) ==
  /\ outcome \in {"FAILED", "HUMAN_REVIEW"} /\ ~code
  /\ plan => outcome = "HUMAN_REVIEW"

\* Seeded fault: the coding node does not look whether there are files.
CodingEndsUnchecked(p, outcome, plan, code) ==
  /\ outcome \in {"FAILED", "COMPLETED"} /\ ~plan
  /\ code => outcome = "COMPLETED"

\* Coding without files fails; but a blank prompt keeps the agent from
\* running at all.
CodingEnds(p, outcome, plan, code) ==
  /\ outcome \in {"FAILED", "COMPLETED"} /\ ~plan
  /\ code => outcome = "COMPLETED"
  /\ outcome = "COMPLETED" => code \/ job[run[p].job].blank

\* START goes to coding with skip_clarify, else to clarify.
RunGraph(p) ==
  /\ At(p, "graph")
  /\ \E outcome \in {"COMPLETED", "FAILED", "HUMAN_REVIEW"}, plan, code \in BOOLEAN :
       /\ IF run[p].skip THEN CodingEnds(p, outcome, plan, code)
                          ELSE ClarifyEnds(outcome, plan, code)
       /\ LET spec == run[p].spec \/ plan
          IN  /\ run' = [run EXCEPT ![p].at = "finalize", ![p].outcome = outcome,
                                    ![p].spec = spec, ![p].code = code]
              /\ kept' = IF p \in Locals THEN [kept EXCEPT ![run[p].job] = spec]
                         ELSE kept
  /\ UNCHANGED <<job, posted, queue, answer, dlq, told, unsaved>>

\* Seeded fault: the handler of the exception only announces the failure.
GraphRaisesUnmarked(p) ==
  /\ At(p, "graph")
  /\ IF p \in Workers THEN MoveTo(p, "tell") ELSE run' = [run EXCEPT ![p] = None]
  /\ UNCHANGED <<job, posted, queue, answer, kept, dlq, told, unsaved>>

\* An exception of the graph is not finalized.  A task fails on the state
\* "execution_failed" it is given; a run of an API process just ends.
GraphRaises(p) ==
  /\ At(p, "graph")
  /\ IF p \in Workers THEN MoveTo(p, "fail") ELSE run' = [run EXCEPT ![p] = None]
  /\ UNCHANGED <<job, posted, queue, answer, kept, dlq, told, unsaved>>

\* Seeded fault: the files are left to the worker's broadcast.
FinalizeWithoutFiles(p) ==
  /\ At(p, "finalize")
  /\ LET r == run[p]
     IN  Write(r.job, [job[r.job] EXCEPT !.status = r.outcome,
                         !.meta = [said |-> {}, spec |-> r.spec]])
  /\ MoveTo(p, "announce")
  /\ UNCHANGED <<posted, queue, answer, kept, dlq, told>>

\* Seeded fault: every run writes its own list of files, empty or not.
FinalizeReplacesFiles(p) ==
  /\ At(p, "finalize")
  /\ LET r == run[p]
     IN  Write(r.job, [job[r.job] EXCEPT !.status = r.outcome,
                         !.meta = [said |-> {}, spec |-> r.spec], !.code = r.code])
  /\ MoveTo(p, "announce")
  /\ UNCHANGED <<posted, queue, answer, kept, dlq, told>>

\* _finalize: the run's own status and metadata replace the row's, and a
\* completed run brings its files.  A run without metadata (POST /start
\* without a model config, and no plan) leaves the column.
Finalize(p) ==
  /\ At(p, "finalize")
  /\ LET r    == run[p]
         row  == job[r.job]
         meta == [said |-> {}, spec |-> r.spec]
         New(m) == [row EXCEPT !.status = r.outcome, !.meta = m,
                               !.code = @ \/ r.code]
     IN  \/ Write(r.job, New(meta))
         \/ p \in Locals /\ ~r.spec /\ Write(r.job, New(row.meta))
  /\ MoveTo(p, "announce")
  /\ UNCHANGED <<posted, queue, answer, kept, dlq, told>>

\* Which final event a run publishes.
EventOf(outcome) == CASE outcome = "COMPLETED"    -> "complete"
                      [] outcome = "HUMAN_REVIEW" -> "review"
                      [] OTHER                    -> "failed"

\* broadcast: an event is published, or dropped without a connection, or
\* refused.
Publish(j, kind) ==
  \/ told' = [told EXCEPT ![j] = @ \union {kind}]
  \/ RedisMayFail /\ UNCHANGED told

\* The event follows the UPDATE.  Back in the task, a FAILED run raises, and
\* its message decides whether the error is transient; so does any run whose
\* publishing raised, which orchestrator.run answers with "execution_failed".
Announce(p) ==
  /\ At(p, "announce")
  /\ LET r == run[p]
     IN  /\ Publish(r.job, EventOf(r.outcome))
         /\ \/ /\ p \in Workers /\ r.outcome = "FAILED"
               /\ MoveTo(p, "retry") \/ MoveTo(p, "fail")
            \/ /\ p \in Locals \/ r.outcome # "FAILED"
               /\ run' = [run EXCEPT ![p] = None]
            \/ RedisMayFail /\ p \in Workers /\ MoveTo(p, "fail")
  /\ UNCHANGED <<job, posted, queue, answer, kept, dlq, unsaved>>

\* Every minute, until orchestrator.run returns: the metadata becomes the heartbeat.
Heartbeat(w) ==
  /\ run[w] # None /\ run[w].at \in {"graph", "finalize", "announce"}
  /\ Write(run[w].job, [job[run[w].job] EXCEPT !.meta = NoMeta])
  /\ UNCHANGED <<posted, queue, run, answer, kept, dlq, told>>

\* Seeded fault: the retry of Celery works, and the task waits for its turn.
RetryTransientRequeues(w) ==
  /\ At(w, "retry")
  /\ LET j == run[w].job
     IN  /\ Write(j, [job[j] EXCEPT !.status = "running", !.meta = NoMeta])
         /\ queue' = [queue EXCEPT ![j] = IF @ < MaxQueue THEN @ + 1 ELSE @]
  /\ run' = [run EXCEPT ![w] = None]
  /\ UNCHANGED <<posted, answer, kept, dlq, told>>

\* A transient error (the task is always in its first attempt): the row says
\* "running", and then self.RetriableError, which does not exist, raises.
RetryTransient(w) ==
  /\ At(w, "retry")
  /\ LET j == run[w].job
     IN  Write(j, [job[j] EXCEPT !.status = "running", !.meta = NoMeta])
  /\ MoveTo(w, "fail")
  /\ UNCHANGED <<posted, queue, answer, kept, dlq, told>>

\* Seeded fault: a failed task leaves the row to the orchestrator.
MarkFailedNowhere(w) ==
  /\ At(w, "fail")
  /\ MoveTo(w, "tell")
  /\ UNCHANGED <<job, posted, queue, answer, kept, dlq, told, unsaved>>

MarkFailed(w) ==
  /\ At(w, "fail")
  /\ LET j == run[w].job IN Write(j, [job[j] EXCEPT !.status = "failed"])
  /\ MoveTo(w, "tell")
  /\ UNCHANGED <<posted, queue, answer, kept, dlq, told>>

\* SESSION_FAILED; an exception of the publishing is logged.
TellFailure(w) ==
  /\ At(w, "tell")
  /\ Publish(run[w].job, "failed")
  /\ MoveTo(w, "bury")
  /\ UNCHANGED <<job, posted, queue, answer, kept, dlq, unsaved>>

\* The entry in the dead letter queue, or an exception that is logged too.
PushToDlq(w) ==
  /\ At(w, "bury")
  /\ \/ dlq' = dlq \union {run[w].job}
     \/ RedisMayFail /\ UNCHANGED dlq
  /\ run' = [run EXCEPT ![w] = None]
  /\ UNCHANGED <<job, posted, queue, answer, kept, told, unsaved>>

\* POST /api/dlq/retry/{id}: get_all_keys has no parameter "match", so the
\* handler raises before it looks for the entry.
RetryDeadLetterJob(j) == j \in dlq /\ UNCHANGED vars
-----------------------------------------------------------------------------
(* Processes that stop.                                                    *)

\* worker_shutdown asks for list_all_running_jobs, which no provider has, and
\* so marks nothing; a killed worker does not even ask.
StopWorker(w) ==
  /\ "worker" \in MayStop /\ run[w] # None
  /\ run' = [run EXCEPT ![w] = None]
  /\ UNCHANGED <<job, posted, queue, answer, kept, dlq, told, unsaved>>

\* The API: background tasks, requests, runs and checkpoints are gone.
StopApi ==
  /\ "api" \in MayStop
  /\ posted' = {} /\ kept' = [j \in Jobs |-> None]
  /\ run' = [p \in Runners |-> IF p \in Locals THEN None ELSE run[p]]
  /\ answer' = [r \in Requests |->
                  IF answer[r] = None THEN None ELSE [answer[r] EXCEPT !.at = "done"]]
  /\ UNCHANGED <<job, queue, dlq, told, unsaved>>

Next ==
  \/ \E j \in Jobs : StartGeneration(j) \/ DispatchGeneration(j)
                       \/ ApproveOrClarify(j) \/ RetryDeadLetterJob(j)
  \/ \E p \in Locals, j \in Jobs : StartSession(p, j) \/ ResumeWorkflow(p, j)
  \/ \E r \in Requests : (\E j \in Jobs : ReadHistory(r, j)) \/ SaveHistory(r)
                           \/ FinishAnswer(r)
  \/ \E w \in Workers : \/ \E j \in Jobs : TakeTask(w, j) \/ ConnectFails(w, j)
                        \/ ReadJob(w) \/ ReadFails(w) \/ InitFails(w) \/ Heartbeat(w)
                        \/ RetryTransient(w) \/ MarkFailed(w) \/ TellFailure(w)
                        \/ PushToDlq(w) \/ StopWorker(w)
  \/ \E p \in Runners : RunGraph(p) \/ GraphRaises(p) \/ Finalize(p) \/ Announce(p)
  \/ StopApi

Spec == Init /\ [][Next]_vars

\* What a process has begun it goes on with, and a worker that is free takes
\* a waiting task.
Progress ==
  /\ \A j \in Jobs : WF_vars(DispatchGeneration(j))
  /\ \A r \in Requests : WF_vars(SaveHistory(r)) /\ WF_vars(FinishAnswer(r))
  /\ \A w \in Workers, j \in Jobs : SF_vars(TakeTask(w, j))
  /\ \A w \in Workers : /\ WF_vars(ReadJob(w)) /\ WF_vars(RetryTransient(w))
                        /\ WF_vars(MarkFailed(w)) /\ WF_vars(TellFailure(w))
                        /\ WF_vars(PushToDlq(w))
  /\ \A p \in Runners : /\ WF_vars(RunGraph(p) \/ GraphRaises(p))
                        /\ WF_vars(Finalize(p)) /\ WF_vars(Announce(p))

FairSpec == Spec /\ Progress
-----------------------------------------------------------------------------
(* What holds.                                                             *)

\* A row says COMPLETED only with the generated files in it, whatever other
\* runs, answers and heartbeats write in between and however late; a prompt
\* that is blank once sanitised is the exception.
CompletedHasCode ==
  \A j \in Jobs :
    job[j] # None /\ job[j].status = "COMPLETED" => job[j].code \/ job[j].blank

\* Generated files are never lost again: not to a second run of the job that
\* fails, nor to one that is sent back to review.
CodeIsKept ==
  [][\A j \in Jobs : job[j] # None /\ job[j].code => job'[j].code]_vars

\* The final status is announced after it is written, and exactly then: with
\* a database that answers, no event says complete before the files are there.
AnnouncedIsStored ==
  \A j \in Jobs :
    "complete" \in told[j] => job[j] # None /\ (job[j].code \/ job[j].blank)

\* Who hears of any end of a job, or finds it in the dead letter queue, does
\* not find its row as it was inserted, whichever of the last calls of a run
\* or a task (UPDATE, event, entry) fail and wherever a stop cuts them off;
\* jobs of which a statement failed are the exception.  The entry itself
\* says nothing of the event: each is missing without the other.
EndedIsMarked ==
  \A j \in Jobs \ unsaved :
    told[j] # {} \/ j \in dlq => job[j] # None /\ job[j].status # "pending"

\* A row says "running" only while some task of the job stands before the
\* UPDATE that marks it failed, so that nobody has to clean it up: such a row
\* lets POST /api/generate refuse its prompt.  With a database that answers
\* and workers that are not stopped.
RunningIsOwned ==
  \A j \in Jobs :
    job[j] # None /\ job[j].status = "running" =>
      \E w \in Workers : At(w, "fail") /\ run[w].job = j

\* A job does not stay "pending" or "running": it ends, fails, or waits for
\* its user.  This holds for the jobs of POST /api/generate while processes
\* run and the database answers.  It fails for a run of POST /start whose
\* graph raises (orchestrator.py:852 "Do NOT call _finalize on failure - the
\* Celery worker's fallback path will update the DB") and for a worker that
\* stops (celery_worker.py:1081 "When worker shuts down, mark all in-flight
\* running jobs as failed.").
JobSettles ==
  \A j \in Jobs :
    job[j] # None ~> job[j] # None /\ job[j].status \notin {"pending", "running"}
=============================================================================
