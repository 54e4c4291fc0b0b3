--------------------------- MODULE WorkflowSession ---------------------------
(***************************************************************************)
(* The workflow sessions of platform/backend: every process (API replica   *)
(* or Celery worker) keeps its own SessionManager, that is a StateMachine  *)
(* in memory, in front of one shared row per session in session_states.    *)
(*                                                                         *)
(* A SessionManager call changes memory first and then blocks the process  *)
(* (the driver is synchronous) on a SELECT of the row's version followed   *)
(* by an UPDATE.  Other processes run between the two, so the UPDATE is a  *)
(* step of its own (Commit), and pend[p] is the update process p waits on. *)
(***************************************************************************)
EXTENDS Integers, Sequences

CONSTANTS
  Sessions,        \* session ids (= build ids = job ids)
  Apis,            \* API processes: platform/base/deployment.yaml runs two
  Workers,         \* Celery worker processes
  MaxIterations,   \* workflow_config.MAX_ITERATIONS, and the dataclass default
  MaxVersion,      \* bound: no version number exceeds it
  MaxRuns,         \* bound: runs of one session pending in one process
  DbMayFail,       \* may a statement on session_states fail?
  Unrouted,        \* include increment_iteration and delete_session, which
                   \* SessionManager offers and no endpoint calls?
  None             \* Python's None and SQL's NULL

Procs == Apis \union Workers

ASSUME SessionConstants ==
  /\ MaxIterations \in Nat
  /\ MaxVersion \in Nat
  /\ MaxRuns \in Nat
  /\ DbMayFail \in BOOLEAN
  /\ Unrouted \in BOOLEAN

VARIABLES
  mem,      \* mem[p][s]: StateMachine._sessions of process p
  journal,  \* journal[p][s]: StateMachine._transitions of process p
  counted,  \* counted[p]: the keys of StateMachine._retry_counts
  row,      \* row[s]: the session's row in session_states
  pend,     \* pend[p]: the UPDATE process p is blocked on
  cont,     \* cont[p]: the rest of the call p is in, once pend[p] is done
  runs      \* runs[p][s]: orchestrator runs of s launched in p, not finished

vars == <<mem, journal, counted, row, pend, cont, runs>>
-----------------------------------------------------------------------------
States ==
  { "CREATED", "CLARIFY", "CODING", "VALIDATING", "PLANNING", "APPLYING",
    "TESTING", "GIT_PUSH", "CI_TRIGGER", "CI_MONITOR", "COMPLETED", "FAILED",
    "HUMAN_REVIEW", "ESCALATE" }

ValidTransitions ==
  LET From(from, tos) == { <<from, to>> : to \in tos }
  IN  UNION { From("CREATED",      {"CLARIFY", "CODING"}),
              From("CLARIFY",      {"HUMAN_REVIEW", "CODING"}),
              From("CODING",       {"VALIDATING", "CODING"}),
              From("VALIDATING",   {"PLANNING", "CODING"}),
              From("PLANNING",     {"APPLYING", "CODING"}),
              From("APPLYING",     {"TESTING", "CODING"}),
              From("TESTING",      {"GIT_PUSH", "CODING", "HUMAN_REVIEW"}),
              From("GIT_PUSH",     {"CI_TRIGGER", "GIT_PUSH"}),
              From("CI_TRIGGER",   {"CI_MONITOR", "CI_TRIGGER"}),
              From("CI_MONITOR",   {"COMPLETED", "FAILED", "HUMAN_REVIEW"}),
              From("HUMAN_REVIEW", {"CODING", "CLARIFY"}),
              From("ESCALATE",     {"CODING"}) }

IsValidTransition(from, to) == <<from, to>> \in ValidTransitions

\* The statuses an orchestrator run can end with (see WorkflowGraph).
RunOutcomes == {"COMPLETED", "FAILED", "HUMAN_REVIEW"}

StateTransition == [from : States, to : States, version : Nat]

Session == [status : States, iter : Nat, error : BOOLEAN, version : Nat,
            history : Seq(StateTransition)]

NewSession == [status |-> "CREATED", iter |-> 0, error |-> FALSE,
               version |-> 0, history |-> <<>>]

Row == [status : States \union {None}, iter : Nat \union {None},
        error : BOOLEAN, version : Nat]

NewRow == [status |-> "CREATED", iter |-> 0, error |-> FALSE, version |-> 1]

Update == [sid : Sessions, status : States \union {None},
           iter : Nat \union {None}, error : BOOLEAN, seen : Nat]

ASSUME NoneIsNoRecord == /\ None \notin Session \union Seq(StateTransition)
                         /\ None \notin Row \union Update

Call == [op : {"fail", "finalize"}, sid : Sessions, outcome : RunOutcomes]

TypeOK ==
  /\ mem \in [Procs -> [Sessions -> Session \union {None}]]
  /\ journal \in [Procs -> [Sessions -> Seq(StateTransition) \union {None}]]
  /\ counted \in [Procs -> SUBSET Sessions]
  /\ row \in [Sessions -> Row \union {None}]
  /\ pend \in [Procs -> Update \union {None}]
  /\ cont \in [Procs -> Call \union {None}]
  /\ runs \in [Procs -> [Sessions -> Nat]]

Init ==
  /\ mem = [p \in Procs |-> [s \in Sessions |-> None]]
  /\ journal = [p \in Procs |-> [s \in Sessions |-> None]]
  /\ counted = [p \in Procs |-> {}]
  /\ row = [s \in Sessions |-> None]
  /\ pend = [p \in Procs |-> None]
  /\ cont = [p \in Procs |-> None]
  /\ runs = [p \in Procs |-> [s \in Sessions |-> 0]]
-----------------------------------------------------------------------------
(* Helpers.                                                                *)

\* The process is not inside a call: it can take the next request or task.
Free(p) == pend[p] = None /\ cont[p] = None

\* Bound: the row has a version number left for one more UPDATE.
HasVersions(s) == row[s] # None => row[s].version < MaxVersion

\* update_session_status up to its UPDATE.  Without a row, or when the
\* SELECT fails, the call returns without an UPDATE and without an error.
Persist(p, s, status, iter, error) ==
  \/ /\ row[s] # None
     /\ pend' = [pend EXCEPT ![p] =
                   [sid |-> s, status |-> status, iter |-> iter,
                    error |-> error, seen |-> row[s].version]]
  \/ /\ row[s] = None \/ DbMayFail
     /\ UNCHANGED pend

\* What get_session rebuilds from a row: a NULL status is no SessionState.
Loadable(s) == row[s] # None /\ row[s].status # None

Loaded(s) == [status |-> row[s].status, iter |-> row[s].iter,
              error |-> row[s].error, version |-> row[s].version,
              history |-> <<>>]

\* Seeded fault: the record is made after the status was assigned.
TransitionRecordedLate(p, s, to) ==
  LET old   == mem[p][s]
      entry == [from |-> to, to |-> to, version |-> old.version + 1]
  IN  /\ mem' = [mem EXCEPT ![p][s] =
                   [old EXCEPT !.status = to, !.version = entry.version,
                               !.history = Append(@, entry)]]
      /\ journal' = [journal EXCEPT ![p][s] =
                       Append(IF @ = None THEN <<>> ELSE @, entry)]

\* StateMachine.transition on a session the process holds.
Transition(p, s, to) ==
  LET old   == mem[p][s]
      entry == [from |-> old.status, to |-> to, version |-> old.version + 1]
  IN  /\ mem' = [mem EXCEPT ![p][s] =
                   [old EXCEPT !.status = to, !.version = entry.version,
                               !.history = Append(@, entry)]]
      /\ journal' = [journal EXCEPT ![p][s] =
                       Append(IF @ = None THEN <<>> ELSE @, entry)]

\* SessionManager.transition_session: a refused transition changes nothing;
\* an accepted one is written with the session's iteration and no error.
TransitionSession(p, s, to) ==
  IF IsValidTransition(mem[p][s].status, to)
  THEN /\ mem[p][s].version < MaxVersion /\ HasVersions(s)
       /\ Transition(p, s, to)
       /\ Persist(p, s, to, mem[p][s].iter, FALSE)
  ELSE UNCHANGED <<mem, journal, pend>>

\* SessionManager.set_error on a session the process holds: the UPDATE
\* carries the error and NULL in every other column.
SetError(p, s) ==
  /\ HasVersions(s)
  /\ mem' = [mem EXCEPT ![p][s].error = TRUE]
  /\ Persist(p, s, None, None, TRUE)

\* Celery's broker hands the task to some worker process.
Dispatch(s) ==
  \E w \in Workers : /\ runs[w][s] < MaxRuns
                     /\ runs' = [runs EXCEPT ![w][s] = @ + 1]
-----------------------------------------------------------------------------
(* Creating and finding sessions.                                          *)

\* SessionManager.create_session: memory, then INSERT; a duplicate key or a
\* failing database is logged and the session lives in memory only.
Create(p, s) ==
  /\ mem' = [mem EXCEPT ![p][s] = NewSession]
  /\ counted' = [counted EXCEPT ![p] = @ \union {s}]
  /\ \/ /\ row[s] = None
        /\ row' = [row EXCEPT ![s] = NewRow]
     \/ /\ row[s] # None \/ DbMayFail
        /\ UNCHANGED row

\* POST /start: the client may name the session, and the run is launched in
\* the API process itself.
StartSession(p, s) ==
  /\ Free(p)
  /\ mem[p][s] = None      \* else "already exists" is raised
  /\ runs[p][s] < MaxRuns
  /\ Create(p, s)
  /\ runs' = [runs EXCEPT ![p][s] = @ + 1]
  /\ UNCHANGED <<journal, pend, cont>>

\* POST /api/generate: a fresh id, and the run is dispatched to Celery.
Generate(p, s) ==
  /\ Free(p)
  /\ row[s] = None
  /\ \A q \in Procs : mem[q][s] = None /\ runs[q][s] = 0
  /\ Create(p, s)
  /\ Dispatch(s)
  /\ UNCHANGED <<journal, pend, cont>>

\* SessionManager.get_session: the first thing every endpoint does.  Only
\* _sessions is filled when the row is loaded.
GetSession(p, s) ==
  /\ Free(p)
  /\ \/ /\ mem[p][s] = None /\ Loadable(s)
        /\ mem' = [mem EXCEPT ![p][s] = Loaded(s)]
     \/ /\ mem[p][s] # None \/ ~Loadable(s) \/ DbMayFail
        /\ UNCHANGED mem
  /\ UNCHANGED <<journal, counted, row, pend, cont, runs>>
-----------------------------------------------------------------------------
(* The endpoints that move a session.  Each follows a GetSession.          *)

Move(p, s, to) ==
  /\ Free(p) /\ mem[p][s] # None
  /\ TransitionSession(p, s, to)
  /\ UNCHANGED <<counted, row, cont>>

\* POST /{id}/transition, and /complete and /human-review, which name COMPLETED and
\* HUMAN_REVIEW as the target state.
RequestTransition(p, s) ==
  \E to \in States : Move(p, s, to) /\ UNCHANGED runs
CompleteSession(p, s) == Move(p, s, "COMPLETED") /\ UNCHANGED runs
EscalateToHumanReview(p, s) == Move(p, s, "HUMAN_REVIEW") /\ UNCHANGED runs

\* POST /{id}/human-review/escalate.
EscalateReview(p, s) == Move(p, s, "ESCALATE") /\ UNCHANGED runs

\* POST /{id}/human-review/approve and /clarify: an accepted transition also
\* dispatches a Celery task, when the generation job can be read.
Review(p, s, to) ==
  /\ Move(p, s, to)
  /\ \/ IsValidTransition(mem[p][s].status, to) /\ Dispatch(s)
     \/ UNCHANGED runs
ApproveReview(p, s) == Review(p, s, "CODING")
ClarifyReview(p, s) == Review(p, s, "CLARIFY")

\* POST /{id}/fail: set_error, and only then the transition to FAILED.
FailSession(p, s) ==
  /\ Free(p) /\ mem[p][s] # None
  /\ SetError(p, s)
  /\ cont' = [cont EXCEPT ![p] = [op |-> "fail", sid |-> s, outcome |-> "FAILED"]]
  /\ UNCHANGED <<journal, counted, row, runs>>

FailTransition(p) ==
  /\ pend[p] = None /\ cont[p] # None /\ cont[p].op = "fail"
  /\ TransitionSession(p, cont[p].sid, "FAILED")
  /\ cont' = [cont EXCEPT ![p] = None]
  /\ UNCHANGED <<counted, row, runs>>
-----------------------------------------------------------------------------
(* The end of an orchestrator run (WorkflowOrchestrator._finalize).        *)

\* A failed run with a message records it first, if the process knows the
\* session: set_error does not load it.
FinishRun(p, s) ==
  /\ Free(p) /\ runs[p][s] > 0
  /\ runs' = [runs EXCEPT ![p][s] = @ - 1]
  /\ \E outcome \in RunOutcomes, message \in BOOLEAN :
       /\ IF outcome = "FAILED" /\ message /\ mem[p][s] # None
          THEN SetError(p, s)
          ELSE UNCHANGED <<mem, pend>>
       /\ cont' = [cont EXCEPT ![p] =
                     [op |-> "finalize", sid |-> s, outcome |-> outcome]]
  /\ UNCHANGED <<journal, counted, row>>

\* Then the status in memory is overwritten, past the transition table and
\* without writing session_states.
ForceStatus(p) ==
  /\ pend[p] = None /\ cont[p] # None /\ cont[p].op = "finalize"
  /\ LET s == cont[p].sid
         Forced(session) == [session EXCEPT !.status = cont[p].outcome]
     IN  \/ /\ mem[p][s] # None
            /\ mem' = [mem EXCEPT ![p][s] = Forced(@)]
         \/ /\ mem[p][s] = None /\ Loadable(s)
            /\ mem' = [mem EXCEPT ![p][s] = Forced(Loaded(s))]
         \/ /\ mem[p][s] = None /\ (~Loadable(s) \/ DbMayFail)
            /\ UNCHANGED mem
  /\ cont' = [cont EXCEPT ![p] = None]
  /\ UNCHANGED <<journal, counted, row, pend, runs>>

\* run() swallows an exception of the graph and finalizes nothing.
CrashRun(p, s) ==
  /\ Free(p) /\ runs[p][s] > 0
  /\ runs' = [runs EXCEPT ![p][s] = @ - 1]
  /\ UNCHANGED <<mem, journal, counted, row, pend, cont>>
-----------------------------------------------------------------------------
(* SessionManager operations no endpoint calls.                            *)

\* The counter is raised before it is compared, and the comparison raises.
IncrementIteration(p, s) ==
  /\ Unrouted /\ Free(p) /\ mem[p][s] # None
  /\ mem[p][s].iter <= MaxIterations /\ HasVersions(s)
  /\ mem' = [mem EXCEPT ![p][s].iter = @ + 1]
  /\ IF mem[p][s].iter + 1 > MaxIterations
     THEN UNCHANGED pend
     ELSE Persist(p, s, None, mem[p][s].iter + 1, FALSE)
  /\ UNCHANGED <<journal, counted, row, cont, runs>>

\* Seeded fault: the retry count is deleted before the transitions.
DeleteSessionCountFirst(p, s) ==
  /\ Unrouted /\ Free(p) /\ mem[p][s] # None
  /\ mem' = [mem EXCEPT ![p][s] = None]
  /\ counted' = [counted EXCEPT ![p] = @ \ {s}]
  /\ journal' = [journal EXCEPT ![p][s] = IF s \in counted[p] THEN None ELSE @]
  /\ UNCHANGED <<row, pend, cont, runs>>

\* Four del statements in order; the first missing key raises KeyError and
\* leaves the rest.  The row stays.
DeleteSession(p, s) ==
  /\ Unrouted /\ Free(p) /\ mem[p][s] # None
  /\ mem' = [mem EXCEPT ![p][s] = None]
  /\ journal' = [journal EXCEPT ![p][s] = None]
  /\ counted' = [counted EXCEPT ![p] = IF journal[p][s] = None THEN @ ELSE @ \ {s}]
  /\ UNCHANGED <<row, pend, cont, runs>>
-----------------------------------------------------------------------------
(* The database and the processes.                                         *)

\* The UPDATE: no condition on the version read, and the row takes the
\* version read plus one.
Commit(p) ==
  /\ pend[p] # None
  /\ LET u == pend[p]
     IN  \/ row' = [row EXCEPT ![u.sid] =
                      [status |-> u.status, iter |-> u.iter, error |-> u.error,
                       version |-> u.seen + 1]]
         \/ DbMayFail /\ UNCHANGED row
  /\ pend' = [pend EXCEPT ![p] = None]
  /\ UNCHANGED <<mem, journal, counted, cont, runs>>

\* A process ends and starts again: its memory, its runs and the statement
\* it waited on are gone.
Restart(p) ==
  /\ mem' = [mem EXCEPT ![p] = [s \in Sessions |-> None]]
  /\ journal' = [journal EXCEPT ![p] = [s \in Sessions |-> None]]
  /\ counted' = [counted EXCEPT ![p] = {}]
  /\ pend' = [pend EXCEPT ![p] = None]
  /\ cont' = [cont EXCEPT ![p] = None]
  /\ runs' = [runs EXCEPT ![p] = [s \in Sessions |-> 0]]
  /\ UNCHANGED row

Next ==
  \/ \E p \in Apis, s \in Sessions :
       \/ StartSession(p, s) \/ Generate(p, s) \/ GetSession(p, s)
       \/ RequestTransition(p, s) \/ CompleteSession(p, s)
       \/ EscalateToHumanReview(p, s) \/ EscalateReview(p, s)
       \/ ApproveReview(p, s) \/ ClarifyReview(p, s) \/ FailSession(p, s)
       \/ IncrementIteration(p, s) \/ DeleteSession(p, s)
  \/ \E p \in Procs, s \in Sessions : FinishRun(p, s) \/ CrashRun(p, s)
  \/ \E p \in Procs : FailTransition(p) \/ ForceStatus(p) \/ Commit(p) \/ Restart(p)

Spec == Init /\ [][Next]_vars
-----------------------------------------------------------------------------
(* What holds.                                                             *)

\* StateMachine keeps the transitions of a session twice, in the session and
\* in _transitions (what get_session_history returns); through reloads,
\* half-finished deletes and re-creation the two never disagree.
JournalMatchesHistory ==
  \A p \in Procs, s \in Sessions :
    mem[p][s] # None =>
      mem[p][s].history = IF journal[p][s] = None THEN <<>> ELSE journal[p][s]

\* Along a history the version grows by one and ends at the session's own: only
\* transition() numbers versions.
Versioned(p, s) ==
  LET h == mem[p][s].history
  IN  \A i \in DOMAIN h : h[i].version = mem[p][s].version - (Len(h) - i)

\* A history is a walk in VALID_TRANSITIONS, which goes on where it stopped or at
\* HUMAN_REVIEW: of the statuses a finished run forces past the table, only that
\* one has a way out.
Chained(p, s) ==
  LET h == mem[p][s].history
  IN  \A i \in DOMAIN h :
        /\ <<h[i].from, h[i].to>> \in ValidTransitions
        /\ i > 1 => h[i].from \in {h[i-1].to, "HUMAN_REVIEW"}

\* What a process recorded of a session is a numbered walk in the table, also for a
\* session rebuilt from a row and for one whose status a finished run overwrote.
HistoryIsAWalk ==
  \A p \in Procs, s \in Sessions :
    mem[p][s] # None => Versioned(p, s) /\ Chained(p, s)

\* update_session_status writes every column, so a row is always one of
\* three things: a transition's (status and iteration, no error), an
\* iteration's (no status), or an error's (nothing but the error).
Shaped(r) ==
  \/ r.status \in States /\ r.iter \in Nat /\ ~r.error
  \/ r.status = None /\ r.iter \in Nat /\ ~r.error
  \/ r.status = None /\ r.iter = None /\ r.error

\* A row a session can be rebuilt from always has its iteration and never
\* its error, whoever wrote it and whatever ran between SELECT and UPDATE.
RowShape == \A s \in Sessions : row[s] # None => Shaped(row[s])
=============================================================================
