# TLA+ models of the IacGenie platform

Models, model checking and proofs for the parts of the repository whose state
several actors change at once: the workflow engine of `platform/backend`, the
search and scraping service `lightserv`, the tables of projects behind the CRUD
routes, and in `platform/frontend` the pages that keep requests and sockets
under way and the session that the tabs of a browser share.

| module | what it models | runs |
| --- | --- | --- |
| `WorkflowSession` | state machine, session manager, endpoints, the row in `session_states` | `session` |
| `GenerationJob` | the row in `generation_jobs`, Celery tasks, API runs, answers, dead letters | `job_tasks`, `job_failures` |
| `EventBroadcast` | the event service of each API process, the handler of a websocket | `events` |
| `ResultCache` | LightServ's cache: Redis, the memory map, the connection | `cache_stores` (through `MCResultCache`) |
| `BestEffortCache` | what that cache promises; the abstract specification | the property `ImplementsPromise` |
| `Accounts` | LightServ's accounts: rows, Keycloak users, mails, API keys | `accounts` |
| `ParallelScan` | LightServ's proxy pool, scans and LightPanda processes | `scan_pages` (through `MCParallelScan`) |
| `ScrapeQueue` | LightServ's queue over NSQ between callers and consumer | `queue_jobs` |
| `GeneratorClient` | the generator page, its websocket hook, the events of the backend | `generator` |
| `ProjectSettings` | the settings store and panel, requests in any order | `project_settings` |
| `ClientSession` | who is signed in, in the tabs of one browser | `client_session` (through `MCClientSession`) |
| `ProjectRows` | projects, teams and the rows of a project behind `routers/crud.py` | `project_rows` (through `MCProjectRows`) |
| `WorkflowSession_proofs`, `GenerationJob_proofs`, `EventBroadcast_proofs`, `Accounts_proofs`, `ParallelScan_proofs`, `ProjectRows_proofs` | theorems about the module each is named after, checked by TLAPS | |
| `LightServ_proofs` | theorems about `ResultCache`, `BestEffortCache` and `ScrapeQueue` | |
| `WebClient_proofs` | theorems about `ClientSession`, `GeneratorClient` and `ProjectSettings` | |

Two modules of theorems extend several components at once. Where their names
would clash, those of `ScrapeQueue` begin with a Q (`QInit`, `QSpec`, `QTypeOK`),
those of `GeneratorClient` with a G and those of `ProjectSettings` with a P.

`PROJECT.json` has the components, runs, seeded faults, source map, findings,
hazards and theorems. A run is `tlc -config <name>.cfg <module>`. Paths in
sections on the workflow engine are relative to `src/platform/backend`, in those
on LightServ to `src/lightserv/src`, on the client to `src/platform/frontend`,
unless they name another part.

## 1. Inventory

### The workflow engine

**State machine and session manager** (`modules/workflow_engine/state_machine.py`,
`session_manager.py`). Each process has one global `SessionManager`. Its
`StateMachine` holds sessions, a journal of transitions and retry counts in
dictionaries. Behind it `db/adapters/persistence_adapter.py` keeps a row per
session in `session_states`. Memory is changed first, then the row is written
with a synchronous driver; a failing database is logged and ignored.
`get_session` prefers memory and rebuilds a session from the row otherwise.
Two API replicas (`platform/base/deployment.yaml`) and the Celery workers share
the rows and nothing else. *Correct if*: only transitions of `VALID_TRANSITIONS`
happen, the two records of them agree, versions are consecutive, a row can
always be rebuilt, the row follows memory.

**Session endpoints** (`routers/workflow.py`). Start, transition, complete,
fail, human review (escalate, approve, clarify). They call the session manager;
start launches an orchestrator run in the process, approve and clarify dispatch
a Celery task. *Correct if* each does what its documentation says in every
state of the session.

**Orchestrator** (`modules/workflow_engine/orchestrator.py`). A LangGraph graph
of nodes with conditional edges and an in-memory checkpoint
(`checkpoint_saver.py`). Its end, `_finalize`, forces the status of the session
in memory, writes the job's row and publishes an event. *Correct if* a job
never says more than was done, files are not lost, and every run ends in a
settled row.

**Generation jobs** (`main.py`, `celery_worker.py`,
`db/adapters/postgres_adapter.py`). One row per job in `generation_jobs`.
Writers: the request that creates it, its background dispatch, the Celery
task (heartbeat, error paths), the orchestrator's finalizer, the clarification
endpoint, the resume endpoint. Each UPDATE sets some columns unconditionally.
Dead jobs go to a Redis list. *Correct if* concurrent writers lose nothing that
was saved, and each job settles.

**Events** (`event_broadcast.py`, the websocket of `routers/workflow.py`). An event
is published to the channel of its session and to a global one, to which the
listener of each API process is subscribed; it hands messages to callbacks of
websockets. A websocket's handler looks the session up and subscribes
afterwards. *Correct if* a client gets events in order and without holes, learns of
the end of its session, gets only its own, and leaves nothing behind.

**Project rows** (`routers/crud.py`, `routers/projects.py`,
`db/adapters/postgres_adapter.py`). A project, its team and five tables of
settings and deployments. Most routes ask a guard first, which reads the project
and the team in statements of its own; updates read a row, merge its metadata in
Python and write it back. *Correct if* changes are lost only to updates that
overlap, rows and places in a team belong to the creator of the project, and he
does not lose access to them without having given it up.

### LightServ

**Cache** (`cache.ts`). A Redis client that may be replaced while calls wait
for it, a map of bounded size beside it, and two families of functions that use
them in different orders. *Correct if* nothing is served past its time or under
another key, and reads are not older than finished writes.

**Accounts** (`auth.ts`, `api-routes.ts`, `db.ts`). A row of `users` and a user
of Keycloak per address, changed in separate awaited calls that may fail one by
one; links with tokens; API keys. *Correct if* an address is verified for a reason (its
owner followed a link, or came in as the user the row names), a link resets once, a replaced password is gone for good, a
revoked key is refused, and the two records go together.

**Scrape queue** (`queue.ts`, `scrape.ts`, `server.ts`, `http-server.ts`). A
writer and a reader in module variables that every readiness probe replaces; a
caller publishes and polls, the consumer scrapes and stores. *Correct if* no
published job is lost, a caller gets its own page, and everyone is answered.

**Search and scanning** (`proxy.ts`, `search.ts`, `parallel-scanner.ts`,
`lightpanda-scrape.ts`). A pool of proxies with health counters, workers that
share an index, a process per page with timers, a counter as a cap. *Correct if*
each page is scraped once, slots come back, the cap holds, status and counters
of a proxy agree, scans end.

### The web client

**Generator** (`GeneratorUI.tsx`, `hooks/usePipelineWebSocket.ts`,
`store/usePipelineStore.ts`). A page that starts jobs and shows their code, with
a hook that follows one job over a websocket and connects again. *Correct if*
one socket lives, it is that of the job shown, a page that shows a generation
under way has one to wait for, and an ended job is left.

**Project settings** (`store/useProjectSettingsStore.ts`,
`components/SettingsPanel.tsx`). Lists of five sections, with requests for
different projects under way at once. *Correct if* the list shown ends at the
server's rows of the project shown, and the spinner stops.

**Client session** (`services/localAuthService.ts`, `store/useAuthStore.ts`,
`store/useAppStore.ts`, `services/apiClient.ts`, `authHeaders.ts`). The same fact in
three keys of localStorage, which all tabs share, and in three places of each
tab's memory; four styles of requests differ in the token they send and in what
they clear when it is refused. *Correct if* the stored places name one account,
a session that ended stays ended, and a live one ends for a reason.

### How they interact

`POST /api/generate` creates a session and a job with the same id and
dispatches a task. The task runs the orchestrator, which ends in review or
with files. The user answers (`/api/clarify/answer`), approves or clarifies
(another task for the same job), or resumes (a run in the API process). A
session's state thus lives in every process that has touched it, in
`session_states`, and as the status of the job; the client learns of it through
`Announce` of `GenerationJob`, which is `PublishEnd` of `EventBroadcast` and
`JobAnnounces` of `GeneratorClient`, where the backend is reduced to what a page
can see of it.
`AnnouncedIsStored` of the first is what the second relies on: a job's
announcement (`JobAnnounces`) comes after its code is stored (`JobStores`).

In LightServ a scrape request goes through the queue (`ScrapeQueue`), whose
results are kept by `setRedisCache` (`ResultCache`, family of result keys); the
readiness probe calls `initializeCache` and `initializeQueue`, an action in each
of the two modules. Scans (`ParallelScan`) search and scrape without the queue.
`Accounts` shares only the process with the rest.

In the client, `ClientSession` is what the requests of `ProjectSettings` and
`GeneratorClient` take their tokens from: its `gone` is what the settings model
sees as `SessionExpires`. What `ProjectSettings` lists and changes are rows of
`ProjectRows`, where its external `Execute` is a request with its guard.

### What is hard

- Memory first, row second, per process: replicas validate against stale copies.
- SELECT and UPDATE of a row are separate statements without a condition; a
  handler looks up, awaits and writes by id.
- Several tasks and runs of one job at once, none excluded by the others.
- Two systems (PostgreSQL and Keycloak, Redis and a map, a row and an event)
  that no transaction joins, and helpers that swallow errors.
- Module variables replaced while calls wait for what was in them.
- Timers that are not cleared, events that end the same thing twice.
- Closures of an earlier render, answers for a project or job shown before.
- Tabs share a storage and hear nothing of what the others write to it.
- A guard, a SELECT and the UPDATE that rests on both are separate sessions.
- Processes that stop: memory, background tasks, checkpoints and acknowledged
  tasks are lost.

`PROJECT.json` lists each of them as a hazard at its line.

## 2. Plan

The order was: what a user loses when it goes wrong first. Done:

1. `WorkflowSession` and `GenerationJob`, with their proofs: the state machine and
   the row that several processes write.
2. `EventBroadcast` and `GeneratorClient`: how the end of a job reaches its user.
3. `Accounts`, `ResultCache` with the abstract `BestEffortCache`, `ParallelScan` and
   `ScrapeQueue`: the parts of LightServ whose calls overlap.
4. `ClientSession`, `ProjectSettings` and `ProjectRows`: the client's session, and the
   rows of a project from both ends.
5. Theorems for every property of the runs that is not one of liveness, the
   refinement of `BestEffortCache` among them.

Left, in this order:

- Abstract specifications of a session's and of a job's life, which
  `WorkflowSession` and `GenerationJob` would be shown to implement: a session that
  is numbered moves in a table, a job that is pending, at work, in review, ended.
- The rate limiter (`middleware/rate_limiting.py`): its window in Redis, whose
  members are seconds, and its counters per process when Redis fails.
- The secret store's cache of tokens and leases (`modules/secret_store`).

`WorkflowGraph`, a module on the routing of the orchestrator's graph, was
considered and dropped: the effective graph ends after clarification or coding
(section 16). The agentic pipeline and the webhook handler's replay cache have
no behaviour to model for the reasons given there.

## 3. `WorkflowSession`

| variable | code |
| --- | --- |
| `mem[p][s]` | `StateMachine._sessions` of process `p` |
| `journal[p][s]` | `StateMachine._transitions` |
| `counted[p]` | the keys of `_retry_counts` |
| `row[s]` | the row in `session_states` |
| `pend[p]` | the UPDATE of `update_session_status` that `p` waits for, after its SELECT |
| `cont[p]` | the second half of a call that does two writes (`/fail`, `_finalize`) |
| `runs[p][s]` | orchestrator runs that will end in `p` |

One action per endpoint (`StartSession`, `Generate`, `RequestTransition`,
`CompleteSession`, `EscalateToHumanReview`, `EscalateReview`, `ApproveReview`,
`ClarifyReview`, `FailSession`/`FailTransition`), per session manager operation
without an endpoint (`IncrementIteration`, `DeleteSession`), for the loading of
a session (`GetSession`), the end of a run (`FinishRun`/`ForceStatus`,
`CrashRun`), the UPDATE (`Commit`) and a process restart (`Restart`).

The grain: a session manager call does not await, and the database driver
blocks, so what a process does up to a statement is one step and the statement
after it another. `POST /{id}/resume` changes nothing and is left out. Prompts,
users, repository columns and messages are left out; of the error only whether
there is one is kept. `GetSession` is a step of its own because it runs before
each endpoint; an endpoint's action requires the session in memory.

Bounds: one session (no operation touches two), an API process and a worker, one
run of each, versions up to 2. Two processes already give every race between a
SELECT and an UPDATE (the API's transitions against the error a worker's run
records); two versions give a transition before and one after whatever a reload,
a forced status or an id used again does in between. The theorems below have
none of these bounds. `MAX_ITERATIONS` is 5 in the code and 1 here: only the step
past it matters. No deadlock arises, since a process can always restart.

The run `session`, with a database that fails, increments, and deletes that stop
half-way (`Unrouted`: the operations that no endpoint calls): the two records of
the transitions agree (`JournalMatchesHistory`), and a history is a walk in the table
with consecutive versions, except after a forced HUMAN_REVIEW (`HistoryIsAWalk`).
That nothing leaves COMPLETED or FAILED is the table's own (`VALID_TRANSITIONS`
gives them no successor) and no property; the end of a run overwrites a status
without asking it (`orchestrator.py:1035`, `ForceStatus`).

## 4. `GenerationJob`

| variable | code |
| --- | --- |
| `job[j]` | the row: status, whether it has files, the column `refined_spec`, the metadata, whether the sanitised prompt is blank |
| `posted` | background tasks of `POST /api/generate` that have not dispatched yet |
| `queue[j]` | tasks in the broker |
| `run[p]` | what a worker's task or an API process's run is about to do |
| `answer[r]` | where a request to `/api/clarify/answer` is, and the metadata it read |
| `kept[j]` | the checkpoint in an API process, reduced to whether it has a plan |
| `dlq`, `told[j]` | dead letters, and the final events published |
| `unsaved` | history: jobs of which an INSERT or UPDATE has failed |

A step is what runs between two awaits. A task goes through `TakeTask`,
`ReadJob`, `RunGraph` (or `GraphRaises`), `Finalize`, `Announce`, and on errors
`RetryTransient`, `MarkFailed`, `TellFailure`, `PushToDlq`; `Heartbeat` interleaves. A run of an
API process has the middle part only. The graph is one step with the outcomes
its nodes allow: clarification ends in review or failure, coding in files or
failure, or in completion without files when the prompt is blank. What a
session allows (whether approve is accepted) is left to `WorkflowSession`: a
replica that has not seen the run end always allows it.

`StopWorker` loses the task (Celery acknowledges before it runs); `StopApi`
loses background tasks, requests, runs and checkpoints. `DbMayFail` lets every
statement fail; the code logs and carries on. `RedisMayFail` lets a task end
before it has begun, because it cannot connect (`ConnectFails`), an event be
dropped or refused (`Publish`) and an entry not be stored (`PushToDlq`). The event
of a failure and the entry of a dead letter are two steps, as the code has them
in two `try` blocks (`celery_worker.py:550`, `560`): a stop or a failing call may
leave either without the other.

Bounds: one job, two workers and one answer while everything answers; or one
worker, one API run and one answer with every failure; one task waiting. Two
runs of a job that overlap in any way need no more.

Fairness (`FairSpec`): a process goes on with what it has begun, and a worker
that is free again and again takes a waiting task. This is what asyncio, the
Celery worker loop and the timeouts of the agents give while processes run;
runs that check liveness without stopping processes have `MayStop = {}`.
Strong fairness is on `TakeTask` only, because a worker may also be busy with
another task again and again. Nothing is assumed of users: requests, approvals
and answers may never come.

The runs:

- `job_tasks` (589,000 states): with two overlapping tasks and an answer, the
  completion event follows the UPDATE (`AnnouncedIsStored`), a row that says
  running has a task that will mark it failed (`RunningIsOwned`; no other step
  ends such a row, and it keeps its prompt from being asked again), and a job of
  `POST /api/generate` does not stay pending or running (`JobSettles`).
- `job_failures` (5.2 million states): COMPLETED implies files (`CompletedHasCode`),
  files are never lost (`CodeIsKept`), and nobody hears of the end of a job, or
  finds it among the dead letters, whose row is as it was inserted
  (`EndedIsMarked`): wherever a stop or a failing call cuts the UPDATE, the event
  and the entry, but for jobs of which a statement failed.

## 5. `EventBroadcast`

| variable | code |
| --- | --- |
| `sent`, `life[s]` | the events published; a session by its row and the announcement of its end |
| `service[p]`, `link[p]` | `EventBroadcastService` of a process: `_listening`, its loop; whether Redis has its subscription |
| `inbox[p]`, `taken[p]` | messages on that connection; what `get_message` returned |
| `subs[p]` | `_subscribers` |
| `conn[w]`, `forwards[w]`, `received[w]` | the handler of a websocket, the tasks that will send to it, what its client got |
| `lost[p]`, `gap[w]`, `drops` | history: events the process never had, events between look-up and subscription with the end that the look-up did not tell of; bound |

`PublishProgress`, `WriteRow`, `PublishEnd` stand for the workers; `Start`,
`GetMessage`, `Dispatch`, `LoseConnection`, `Reconnect`, `Stop` are a process;
`LookUp`, `Subscribe`, `Forward`, `ClientGoes`, `HandlerEnds`, `InfoFails` are the
handler. `Callbacks` counts how often `_dispatch` calls one callback for one
message. Redis pub/sub gives a message to whoever is connected when it comes and
keeps nothing.

A look-up takes the status of the session in memory, and a row that says
completed or failed overrides it (`RowSaysEnded`); when that row cannot be read
(`routers/workflow.py:1011`), the session counts, which may still be active in
this process (`Inactive`). `LookUp` then sends nothing and records the end in `gap`.

- `events` (one process, one socket, three events, one lost connection; 308,000
  states): `InOrder`, `NoHoles`, `EndIsKnown`, and the liveness properties
  `EventsArrive` and `CallbacksGo`. `EndIsKnown` names the ways a client misses the
  end of its session: the process was deaf, the end fell between look-up and
  subscription, or it fell before the look-up and the row did not say so (it could
  not be written, or not be read) while the session in memory was active.

One process and one socket are enough, because processes share only Redis and
sockets only the message being dispatched; three events are what a hole needs.
Fairness: the listener's loop goes on (`GetMessage`, `Dispatch`), tasks that are
ready run (`Forward`, `Subscribe`), and a handler whose client is gone ends,
which its heartbeat every 30 seconds finds out (`routers/workflow.py:1055`).
`Reconnect` has no fairness: a process that lost Redis may stay without it.

## 6. `ResultCache` and `BestEffortCache`

| variable | code |
| --- | --- |
| `client`, `status`, `tries` | `redisClient`, the `status` of each client, its reconnections |
| `wire[i]` | commands sent on client `i` and not answered, oldest first |
| `call[c]` | the function a caller is in |
| `redis`, `memory` | the two stores; the map in insertion order |
| `answer`, `now` | the hit the last step returned, the clock |
| `floor`, `strayed` | history: the oldest value still up to date, the keys that left the path through one client |

`Set`, `GetSearch`, `GetResult` and `Delete` stand for the functions of the two
families up to their command; `RedisAnswers` and `CommandFails` are what follows
the await, `Execute` (Redis, external) runs a command when it is answered, and
`AnswerLost` runs it and loses the answer. `InitializeCache`, `ConnectionReady`, `ConnectionLost`
and `Reconnect` are the client's life, with `retryStrategy` in `Retry`.

`cache_stores` (two callers, a key of each family, two clients, two values, a
map of one entry) checks `ReadsAreCurrent`: a read that began after a write
finished does not return an older value, except for keys of which a call fell
back to the map or waited for a replaced client. The exception is real: while
Redis is up `setRedisCache` writes only Redis and `getRedisCache` looks into
the map first (`cache.ts:192-207`), so what went into the map in an outage hides
newer values until it expires. `ImplementsPromise` checks that all of this
implements `BestEffortCache`: copies may vanish at any time and reads need not
agree, but nothing is served after its time or under another key. The mapping
takes the entries of both stores of a key as its copies. A map of one entry
already evicts; two clients are one that is replaced and one that replaces.

## 7. `Accounts`

| variable | code |
| --- | --- |
| `users[e]`, `keys[k]` | the rows of `users` and `api_keys` |
| `keycloak[e]` | Keycloak's user of the address |
| `call[c]` | a request and the step it is about to take, with what it has read |
| `pending`, `links`, `kcLinks`, `resetMails` | mails under way and sent |
| `proved`, `entered` | history: addresses whose owner opened a link, and those that Keycloak gave to a callback |
| `retired`, `used`, `told`, `troubled` | history: replaced passwords, used tokens, revocations told, addresses that met a failure |

A step is what runs between two awaits: signup is `Signup`, `SignupLooksUp`,
`SignupCreates`, `SignupInserts`; verification `OpenLink`, `VerifyMarks`,
`VerifyFollows`; the callback `Callback`, `CallbackSyncs`; login `Login`,
`LoginChecks`; resets `RequestReset`, `ResetIsMailed`, `Reset`, `ResetWrites`;
changes `Change`, `ChangeWrites`; keys `CreateKey`, `UseKey`, `KeyServes`,
`RevokeKey`. The helpers of `db.ts` swallow errors, so each failing statement is
an outcome of its step (`DbOk`, `KcOk`), and `Crash` drops all requests.

The callback does not ask whether Keycloak has verified the address
(`api-routes.ts:561`), and the repository's realm does not ask either
(`verifyEmail` is false in `lightserv/scripts/setup-keycloak-production.sh:42`). `Callback`
therefore lets any user of Keycloak in; a userinfo that is refused
(`api-routes.ts:569`) leaves the address unknown, and what the upsert then does
concerns the row of the address `user`, which is nobody's.

`accounts` (one address, two callers, one key, three passwords, two tokens,
every fault; 3.8 million states) checks six properties. `VerifiedIsVouched` says
what a verified row means in this code: its owner opened a link, or logged in as
the very user of Keycloak that the row names; no order of signups, callbacks and
links verifies another's row. `KeycloakFollows` says that the two records agree
once a link was opened, also when the callback verified the row before. Two say
what failures may do: `KeycloakFollows` and `StrandedOnlyByFailure` (only a failed
INSERT or a crash leaves an address that can neither sign up nor log in). The
others hold with any failure. Two callers are what a race needs; the theorems hold for any number of
addresses, callers, keys, passwords and tokens.

## 8. `ParallelScan`

| variable | code |
| --- | --- |
| `pool`, `cursor` | `proxyPool`, `currentProxyIndex` |
| `scan[c]` | the loop of `parallelDeepScan`: query, proxy in use, index of `pMap` |
| `page[s]` | the scrape of a page: its step, its timers, whether its process lives |
| `counter` | `CONCURRENCY_COUNTER.current` |

`StartSearch`, `ProxyAnswers`, `ProxyFails`, `DirectAnswers`, `DirectFails` are a
search, which reports to the pool after its await; `TakePage` is an iteration of
a worker of `pMap`, with the refusal at the cap; `MarkdownAnswers`,
`TitleAnswers`, `TitleTimeout`, `MainTimeout`, `ProcessEnds` are the events of a
page, each with its own decrement; `CooldownElapses` and `HealthCheck` are the
pool's timers.

`scan_pages` (a scan of one query with two pages and one of four queries without, two
proxies, a cap of one, two workers): no slot is lost, each page is taken once and a query goes
on only when all are over, a proxy's status follows its counters however late
searches report, and scans end. Four queries wear a proxy out and bring it back
(thresholds 2 in place of 3 and 5 keep the same steps). Fairness is on the steps
of scans, whose requests have timeouts, and on the main timer of a page; nothing
is assumed of LightPanda. `EachPageOnce` also settles a worry of
`lightserv/SECURITY_ARCHITECTURE_AUDIT.md:103`, that `index++` of `pMap` races:
test and increment have no await between them. The cap itself does not hold
(section 15).

## 9. `ScrapeQueue`

| variable | code |
| --- | --- |
| `inits`, `waiting`, `socket` | calls of `initializeQueue`, those that wait, the connection of each writer |
| `writer`, `reader`, `closed`, `consumer` | the module variables, readers closed, the registered handler |
| `topic` | NSQ's messages: queued, held or finished |
| `task[t]` | a call of `scrapePage`, by a caller or for a message |
| `results`, `kept`, `lost` | results in Redis; those in the memory of the process; history: those it had there when it stopped |
| `asked` | history of what was asked in which millisecond |
| `internal`, `clock` | the kind of `NSQD_URL`, the clock |

`Ask` to `ScrapeSync` are `scrapePage` and `publishJob` with the HTTP fallback and the
poll; `Deliver`, `StoreResult`, `FinishMessage`, `Requeue` the consumer;
`InitializeQueue`, `WriterReady`, `WriterFails`, `InitTimeout`,
`RegisterConsumer`, `ShutdownQueue`, `Crash` the rest. NSQ is external: it keeps
a message until it is finished and redelivers what a stopped consumer held.
`Store` is `setRedisCache` (`cache.ts:192`): without Redis (`RedisMayFail`) a result goes
to the memory of the process and the message is finished all the same; `Crash`
loses it. `Result` is `getRedisCache`, which looks into that memory first.

`queue_jobs` (two callers, two inits, one message, two milliseconds, any result to
either store; 604,000 states): a published job is queued, in work, or has its
result stored (`NoJobLost`), unless it was only in the memory of a process that
stopped, which `lost` records: no crash between two steps of the consumer, no
redelivery and no reconnection loses a job in another way; a caller gets another page only if both asked in the same millisecond, which is
the job's id (`RightPage`); and each caller is answered, unless it sends on a
writer that never became ready (`CallersAnswered`). Fairness is on the steps of
each caller only: requests return and deadlines pass. The consumer's
messages are followed up to one, which is enough for every order of its steps
against a crash and the callers.

## 10. `GeneratorClient`

| variable | code |
| --- | --- |
| `page` | state of `GeneratorUI`: job, status, whether it has code, the review panel |
| `hook` | state of `usePipelineWebSocket` |
| `seen` | the values the effects last ran with |
| `starting`, `fetches`, `failures`, `answering`, `late` | async functions and timers under way |
| `sock`, `ref`, `retry`, `lost`, `attempts`, `banner` | sockets, `wsRef`, the reconnect timer and those the ref lost, attempts, what the store shows |
| `backend` | a job in the backend: running, in review, resumed, stored, announced |
| `drops`, `unclean` | bound, and history: a socket the page had closed ended uncleanly |
| `gap` | history: sockets whose handler will not tell of the end any more |

React runs the effects of a render before the next event; `Effects` therefore
has priority and applies all of a render's effects with that render's values.
Sockets open, end cleanly or not, and each event is what its handler does
(`OnRunning`, `OnReview`, `OnCoded`, `OnComplete`, `OnFailed`, `OnInfo`).

Of the backend there is what a page can tell apart. An event is heard by the
sockets that are subscribed or lost on the way (`Receives`, `JobAnnounces`: Redis
away, a process whose listener has ended, which keeps its sockets open with
heartbeats). `ServerLooksUp` reads the row, or the session in memory when the row
cannot be read, and may then find a job active that has ended (`Found`); it
subscribes in a later step. An answer to a review is two steps (`AnswerReview`,
`AnswerReturns`), between which the job may end: `ApiClient.request` reports every
failure in its result, which the page does not look at, so the page goes on alike
whether the backend resumed the job or not, and `JobResumes` comes before, after
or without it.

`generator` (two jobs of which one asks for a review, two sockets, one attempt, two
polls, one drop; 2.6 million states):

- `OneSocket`, until a socket that the page closed ends uncleanly, see below.
- `RunningIsBacked`: no step leaves the page showing a generation under way with
  neither a job that it follows nor one being started, in whatever order the
  fetches, failures and starts of two jobs return; such a page has no prompt, so
  its user could only reload. The exception is the answer to an approval that
  comes after the job was left, which does that (section 15).
- `JobsAreLeft`: an ended job is not followed for ever, unless the handler of its
  socket missed the end (`gap`), the page says that it has no connection, or a
  socket came back as for `OneSocket`.

Two jobs give a stale one for each fresh one; one drop and one attempt give both
a reconnection and its limit; a review of either job would give the page nothing
that one review of a job of its own or another's does not. Fairness is on
`Progress` as a whole: effects, timers and requests run, sockets open or close,
handlers subscribe, stored ends are announced. Jobs, users and reviews may take
for ever.

## 11. `ProjectSettings`

| variable | code |
| --- | --- |
| `section`, `project`, `open` | what `SettingsPanel` shows |
| `list`, `loading`, `error`, `verdicts` | the store's list, `isLoading`, `errors`, `testResults` |
| `awaited[s]` | a request: sent, done or refused by the server, with the rows read |
| `rows[p]` | the server's rows |
| `outdated` | history: the last listing was wrong when it came, or a request failed |

`Execute` and `Refuse` are the server, `Return` is what the store does with an
answer; the five sections differ in it (`ModelConfigs`, `GitRepositories`,
`CloudCredentials`, `TeamMembers`, `Integrations`).

`project_settings` (two projects, two rows, two requests at once, four in all):
`SpinnerStops` and `ListSettles`. Two overlapping requests are what the store's
races need, and four calls in all leave room for what repairs or spoils the list
after them.

## 12. `ClientSession`

| variable | code |
| --- | --- |
| `storage` | localStorage: `iacgenie_user`, `iacgenie_token`, and `iacgenie-auth` with a user and a token |
| `mem[t]` | `LocalAuthService.authToken` of a tab |
| `auth[t]`, `shown[t]` | `useAuthStore` and the user of `useAppStore` |
| `leaving` | tabs whose `window.location` was set to /signin |
| `call[c]` | a sign-in or a request, and the token it was sent with |
| `owner`, `dead` | the server: whose the issued tokens are, and which it refuses |
| `over`, `covered`, `twice`, `gone` | history: signed out everywhere; an empty tab hid who is signed in; a form submitted beside a callback; tokens of ended sessions |

`Load` is a page load with `initializeAuth`; `Callback`, `CallbackSucceeds`,
`CallbackFails` the return from Keycloak; `Login`, `LoginSucceeds`, `LoginFails` the
form; `SignOut` the sign-out. `Send`, `Answered`, `Unauthorized`, `Refreshes`,
`RefreshSucceeds`, `RefreshFails` are a request of any of the four styles, with its
refresh and its one retry. `Persist` is what every `set` of `useAuthStore` does to
the storage of all tabs. `Healed` and `Remembered` are the side effects of
`getAuthToken`. The server is external: it refuses dead tokens and may refresh
any; a connection may fail (`NetMayFail`).

`client_session` (two accounts, two tabs, two requests or sign-ins at once, two
tokens) checks `StoreAgrees`, `NoRevival`, `EndedStaysEnded` and the action property
`EndedKnowingly`. Two tabs and two calls are what a write of one over the other
needs; the second token is that of another sign-in or of a refresh. Each
exception in a property is a real one, told in section 15. Nothing is said to
happen eventually: all that moves here are the user, the network and the clock,
which owe nothing.

## 13. `ProjectRows`

| variable | code |
| --- | --- |
| `project[p]`, `member[m]` | rows of `projects` and `team_members`; a deleted one keeps its id |
| `row[r]` | a row of one of the other tables: its kind, its user, its project, its metadata |
| `call[c]` | a request, at the guard's first or second statement, at its own, or at its UPDATE after the SELECT |
| `sent`, `overlaps`, `disowned` | history: what the writes of a row make up in turn; rows with an overlapping update; projects whose creator has no place of his own in the team |
| `calls` | bound |

A step is a statement, each in a session of its own with an await before it.
`LooksForProject` and `LooksForTeam` are `check_admin_or_owner`; `CreatesProject` and
`ListsCreator` the two INSERTs of a new project; `DeletesProject`, `Invites`,
`AssignsRole`, `RemovesMember`, `CreatesRow`, `UpdatesIntegration`, `DeletesRow` one
statement each; `ReadsRow` and `WritesRow` the SELECT and UPDATE of the other
updates. `Fails` is a refusal, a failing statement or a process that stops.
Model configurations and git repositories are alike and are one kind, `settings`;
of the roles, `owner` stands for `admin` and `viewer` for `editor`, which no
condition tells apart.

`project_rows` (two users, one of them an administrator, one project, one row,
two places in a team, four requests of which two overlap, metadata of two keys
and one value): `LostOnlyByOverlap`, `OnlyCreators`, `StrandedKnowingly`. A lost
change needs two updates and two keys; a stranded row needs its project created,
the row created, the project deleted, and a place that was not made. Requests end
at any step, so nothing is said to happen eventually.

## 14. Proofs

`WorkflowSession_proofs.tla` proves, for all values of the constants and with
no assumption but `SessionConstants` and `NoneIsNoRecord` (NULL is not a
record or a sequence):

| theorem | statement |
| --- | --- |
| `TypeCorrect` | `Spec => []TypeOK` |
| `RowsShaped` | `Spec => []RowShape` |
| `JournalsMatch` | `Spec => []JournalMatchesHistory` |
| `HistoriesAreWalks` | `Spec => []HistoryIsAWalk` |

`TypeOK` is not inductive: a session is rebuilt from a row, whose iteration may
be NULL, and the row comes from a pending UPDATE. `IInv` adds that rows and
pending updates have one of the three shapes, and that a process in the middle
of `/fail` still holds the session. For the histories, `StepClassified` shows
that any step leaves a session as a process sees it untouched, changes it
outside history and version, starts or ends it afresh, or moves it along one
transition of the table; `HInv` adds to `IInv` that no journal survives its
session and that the status is the last recorded one or a finished run's. The
theorems about histories follow from these two without looking at actions again.

`GenerationJob_proofs.tla` proves, from `JobConstants` and `NoneIsNoRow`, with
failing statements and stopping processes or without:

| theorem | statement |
| --- | --- |
| `TypeCorrect` | `Spec => []TypeOK` |
| `CompletedRowsHaveCode` | `Spec => []CompletedHasCode` |
| `FilesStay` | `Spec => CodeIsKept` |
| `EndsAreMarked` | `Spec => []EndedIsMarked` |
| `AnnouncementsStored` | `~DbMayFail` implies `Spec => []AnnouncedIsStored` |
| `RunningOwned` | `~DbMayFail` and no worker stopped imply `Spec => []RunningIsOwned` |

`CompletedHasCode` is not inductive: a run carries COMPLETED from its graph to
its finalizer while others write the row. `JInv` adds what a run must bring
along (`RunFit`): an outcome, a row if it skipped the clarification, and for
COMPLETED its files or a blank prompt. `NextRowsStep` shows that every action
takes every row through a `RowStep` (inserted as pending, or updated with
prompt and files kept and COMPLETED earned); `NextRunsStep` that runs stay fit
although the rows change under them. `SInv` adds that whoever works on a job
knows it has a row, and that a run stored what it is about to announce; here
the assumption that statements succeed is needed, for a failed UPDATE is logged
and announced all the same. `EndsAreMarked` needs no such assumption, since its
statement leaves out the jobs in `unsaved`: `RunsMarked` says that a run or task past
its UPDATE has a row that is no longer as inserted, and `EndStep` and `ToldStep` that
nothing else announces or buries. For `RunningOwned`, `RetryWrite` finds the one
UPDATE that writes running, and `FailStays` that its task goes on to the next one.

`EventBroadcast_proofs.tla` proves, from `BroadcastAssumption`, for any number of
processes, sessions, websockets, events and lost connections:

| theorem | statement |
| --- | --- |
| `EventsTyped` | `Spec => []TypeOK` |
| `EventsInOrder` | `Spec => []InOrder` |
| `NothingSkipped` | `Spec => []NoHoles` |
| `EndsAreKnown` | `Spec => []EndIsKnown` |

`Queue` says of a process that the events it holds are sorted and that each later
one is held too or lost; `Line` that a socket's client got events in order, before
those to be forwarded, which come before those its process holds; `Whole` that
from the first event that reached a socket every one is there or lost. `Ends` and
`Knows` say that no end is published before its session's life says so, and that a
socket which saw none of it will get it, unless its look-up (`LooksUp`) was not told
of an end before it. `Shapes` sorts the actions into seven ways
in which a line moves, and `Stays` says what no step takes from a socket, so the
invariants look at these and not at all actions.

`Accounts_proofs.tla` proves, from
`AccountsAssumption` and `NoneIsNothing`, with any failures:

| theorem | statement |
| --- | --- |
| `AccountsTyped` | `Spec => [](TypeOK /\ Backed)` |
| `RowsAreLinkedRight` | `Spec => []LinkedBySameSignup` |
| `VerifiedRowsAreVouched` | `Spec => []VerifiedIsVouched` |
| `ReplacedPasswordsStayOut` | `Spec => []PasswordsNeverReturn` |
| `ResetLinksWorkOnce` | `Spec => []ResetLinkOnce` |
| `RevokedKeysAreRefused` | `Spec => []RevokedKeyRefused` |
| `StrandedByFailures` | `Spec => []StrandedOnlyByFailure` |
| `KeycloakFollowsRows` | `Spec => []KeycloakFollows` |

The base is `TypeOK` with `Backed`: what a call holds (an address whose row it
read, a token it drew) is still there when it goes on, and a row is linked to
the user of its own signup. `Stable` says of every step that rows and users stay
with what they were made with. On it rest five invariants. `VInv`: a
verification under way is for an owner who opened a link, an upsert for an address
that Keycloak gave, and a verified row is linked or its owner opened a link; with
`LinkedBySameSignup` that is `VerifiedIsVouched`. `FInv` adds to `KeycloakFollows` that
an opened link leaves a row or a verified user behind, so that a row which a
callback inserts later names a verified one. `PInv`: a password that a call is about to write is fresh and
nobody else's, so no write brings an old one back. `LInv`: tokens in rows were
mailed, those about to be mailed are fresh, used ones are nowhere. `KInv`: a key
told to be revoked exists. `StrandedOnlyByFailure` is
inductive with the base. Each proof has one step per action.

`ParallelScan_proofs.tla` proves, from `ScanAssumption`, for any number of scans,
queries, pages, proxies and workers:

| theorem | statement |
| --- | --- |
| `ScansTyped` | `Spec => []TypeOK` |
| `ProxiesInStep` | `Spec => []StatusFollowsCounters` |
| `PagesTakenOnce` | `Spec => []EachPageOnce` |
| `SlotsComeBack` | `Spec => []SlotsAreGivenBack` |

The rotation picks a least distance or fewest failures; that there is one
(`Least`) follows from finite sets being well founded by inclusion. `EndEffect`,
`ScanEffect` and `TakeEffect` reduce the actions to a few shapes: a page ends, a
loop goes on in one of five ways, a worker takes the next page. `IInv` adds to
the properties the ranges of a loop's index and workers (`Ranges`), what a loop
knows of its pages (`PagesSeen`: those up to the index are started, later ones
are not, and what runs is held by a worker), and that running pages are finitely
many, so that the slots can be counted (`SlotsCounted`). `EachPageOnce` follows
from `PagesSeen`. The decrement matters in one direction only: an event gives at
least one slot back when it ends a running page, and never takes one.

`WebClient_proofs.tla` proves, from `ClientAssumption`, for any number of
accounts, tabs, requests and tokens of the session that tabs share:

| theorem | statement |
| --- | --- |
| `ClientTyped` | `Spec => []TypeOK` |
| `StorageAgrees` | `Spec => []StoreAgrees` |
| `NobodyRevived` | `Spec => []NoRevival` |
| `EndedSessionsStayEnded` | `Spec => []EndedStaysEnded` |
| `SessionsEndKnowingly` | `Spec => EndedKnowingly` |

Four facts carry them. `Known`: a token is held only after it was issued, so a
new one is nowhere yet. `Whole`: a store has a user and a token, or neither.
`Forms`: the tab of a submitted form has nobody. `Unheld`: the token of a callback
is in no place but its request, so signing in with it revives nothing. Each has
a lemma with a step per action; `EndedKnowingly` follows from them by looking at
what each step takes from the storage (`StepsEndKnowingly`).

From `GeneratorAssumption`, for any number of jobs, sockets, attempts and polls of
the page that follows a job:

| theorem | statement |
| --- | --- |
| `GeneratorTyped` | `GSpec => []GTypeOK` |
| `SocketsAreSingle` | `GSpec => []OneSocket` |
| `RunningsAreBacked` | `GSpec => RunningIsBacked` |

`OneSocket` speaks of the page between its effects only, and of the job that it
follows; a change of the job breaks it until the effects have run. `OnlySocket`
says the same of the job that the effects last ran with, at all times, and is
inductive with the types. What keeps it so is that the effects close the socket
they find in the ref and clear the timer before they connect; `lost` stays empty
because only an unclean end of a closed socket sets a second timer. `RunningIsBacked`
is a fact about each step: what decides it are the effects, in which a status is
taken from the hook only with a job, and the returns of requests, each of which sets
the status wherever it takes the job away.

From `SettingsAssumption` and `NothingIsNoRequest` (an answer that is awaited is not
the absence of one), for any number of projects, rows and requests at once:

| theorem | statement |
| --- | --- |
| `SettingsTyped` | `PSpec => []PTypeOK` |
| `SpinnersStop` | `PSpec => []SpinnerStops` |
| `ListsSettle` | `PSpec => []ListSettles` |

`ListSettles` says nothing of the time when requests are under way, and is far from
inductive. `Agrees` says what holds then: a list that is not outdated has all the
server's rows of the project shown, and beyond them only rows whose deletion was
answered and will be taken out of it, unless a request is under way whose end
fetches the list again. A deletion that was carried out must not take a row that
came after it: `DeletedGone` says that its id is in no project any more, and
`IdsApart` that no id has rows in two projects.

`LightServ_proofs.tla` proves, from `CacheAssumption` and `NoAnswerIsNothing` (no
caller waits for nothing), for any keys, callers, clients, values and a map of any
size:

| theorem | statement |
| --- | --- |
| `CacheIsTyped` | `Spec => []TypeOK` |
| `ReadsCurrent` | `Spec => []ReadsAreCurrent` |
| `CacheImplementsPromise` | `Spec => ImplementsPromise` |

`TypeOK` is not inductive: an answer is for the caller at the head of a wire, who
might be waiting for nothing, or on two wires. `Wired` says that whoever waits has a
call under way, at one place. With the types it is enough for the refinement: each
step drops copies, adds one with the time to live of its key, serves one that is
not past its time, or lets time pass (`PromiseNext`); `CopiesKept` and `EntryAdds`
say what a step of the two stores is to their copies. `ReadsAreCurrent` needs `Order`,
for a key none of whose calls fell back: its sets wait on the wire of the one
client in use, in the order of their values (`InOrder`), and are newer than what
Redis has, where the one at the head may have been executed although its answer
was lost (`Ahead`); Redis has one copy, not outdated (`Kept`); a client that was
replaced has nothing but reads of it (`Replaced`), a new one nothing (`NotYet`); and
no read expects more than is known by now (`Reads`). Nothing of it is in the map
(`MemoryStrays`), which is why the map can be looked into first.

From `QueueAssumption`, for any number of requests, messages, initialisations and
crashes:

| theorem | statement |
| --- | --- |
| `QueuesTyped` | `QSpec => []QTypeOK` |
| `JobsAreNotLost` | `QSpec => []NoJobLost` |
| `PagesAreRight` | `QSpec => []RightPage` |

The connection and the jobs have an invariant each (`ConnectionTyped`, `Jobs`); the
one on the jobs does not depend on what the connection does, only on its types.
`Handled`: a handler is at work on a message exactly while NSQ holds it. `Stored`: a
handler that is about to finish its message, and every finished one, has its
result in Redis, in the memory of the process, or had it there when it stopped
(`Ever`, which `StoreAdds` extends and a crash keeps). `Dated`: what is stored under the id of a job was asked for in its
millisecond, from which `RightPage` follows when a poll finds it.

`ProjectRows_proofs.tla` proves, from `ProjectAssumption` and `NoneAssumption`, for
any users, projects, rows, members, requests and dictionaries:

| theorem | statement |
| --- | --- |
| `RowsTyped` | `Spec => []TypeOK` |
| `CreatorsOnly` | `Spec => []OnlyCreators` |
| `OverlapsLose` | `Spec => []LostOnlyByOverlap` |
| `StrandedByDisowning` | `Spec => []StrandedKnowingly` |

`OnlyCreators` is not inductive: a row is inserted some statements after the
guard let its request pass. `Passed` says that such a request is still its
creator's, which rests on `OnlyCreators` (a place in the team belongs to the
creator) and on projects keeping their creator (`ProjectsStay`). `Standing` says
that a creator has a row that admits him or is disowned, and with `OnlyCreators`
gives `StrandedKnowingly`. `Writing` says that only updates reach an UPDATE.
`RowsStay` and `MembersStay` reduce the actions to what they do to one row.

Model-checked only: liveness (`JobSettles`, `EventsArrive`, `CallbacksGo`,
`ScansEnd`, `CallersAnswered`, `JobsAreLeft`). Each says what must come about under
the fairness of its module; a proof would have to say when an action is `ENABLED`,
of which the provers know nothing. The
other 34 properties of the runs are stated by a theorem.

## 15. What was noticed

Plain from reading, or found with the models. No run states these: where a
property has an exception for one, the item names it.

Workflow engine:

- `set_error` writes the status NULL (`persistence_adapter.py:377`), and
  `get_session` cannot load such a row: another replica reports a session
  missing that exists, where `session_manager.py:105` says "SessionNotFoundError:
  If session doesn't exist".
- Each replica validates against its own memory, so the stored status makes
  moves that the table does not have (`state_machine.py:196` "State transitions
  with validation").
- `self.RetriableError` (`celery_worker.py:530`) is no attribute of a task: a
  transient error fails and buries the job, where line 504 says "Retry
  transient errors via Celery's retry mechanism".
- The finalizer stores `refined_spec` in the metadata and the task reads the
  column (`celery_worker.py:426`): a plan that is done is made again.
- The clarification history is written back as a whole (`main.py:579`); another
  answer, a heartbeat or the end of a run overwrites it.
- A run of `POST /start` whose graph raises stays pending for ever
  (`orchestrator.py:852` relies on a fallback of the worker's).
- A worker that stops leaves its job pending: the task was acknowledged, and no
  provider has the `list_all_running_jobs` of `celery_worker.py:1097`.
- `POST /human-review/escalate` (`routers/workflow.py:1255`) asks for ESCALATE,
  which `VALID_TRANSITIONS` offers from no state: it is always refused.
- `POST /fail` (`routers/workflow.py:640`) stores the error and then asks for
  FAILED, which only CI_MONITOR offers; elsewhere the status stays.
- The UPDATE of `session_states` has no condition on the version
  (`persistence_adapter.py:386`), though `0002_modules_schema.py:108` adds the
  column "for optimistic locking".
- `StateMachine.delete_session` raises KeyError for a session without a
  transition, after the first of its four deletions (`state_machine.py:445`).
- The look-up for duplicates (`main.py:346`) asks for the status `running`, and
  a job is `pending` until its run ends.
- The download (`main.py:916`) asks for `completed`, and `_finalize` stores
  `COMPLETED`.
- `POST /api/dlq/retry` (`main.py:1136`) calls `get_all_keys` with a parameter
  it does not have and raises before it changes anything.
- A task whose first connection to Redis fails (`celery_worker.py:143`) ends before
  its error paths, and the handler of `task_failure` reads positional arguments
  that it is not given: the job stays pending, nothing is announced or buried.
- An exception of the publishing in `_finalize`, after the UPDATE, is taken by
  `orchestrator.run` for a failed execution (line 849): the task then marks a
  COMPLETED row as failed.
- The event of a failure and its dead letter are sent one after the other with an
  exception handler each: either may be missing (`EndedIsMarked` says what holds).
- A websocket whose look-up cannot read the row (`routers/workflow.py:1011`), or one of
  a process that did not see the run end, may take an ended session for an active
  one, and then nothing tells its client (`gap` of `EndIsKnown` and `JobsAreLeft`).
- `abortSession` of the client sends `message`, and `FailSessionRequest` wants
  `error_message` (`workflow.py:128`): the request is refused as invalid, the client
  shows the job as aborted, and it goes on.
- The websocket's handler subscribes to the global channel too
  (`routers/workflow.py:1045`), on which the events of all sessions come
  (`event_broadcast.py:294`), where line 930 says "Subscribes to the Redis pub/sub
  channel for the session"; an event of its own session comes three times.
- The copy of a row two processes wrote at once keeps the later UPDATE only
  (`persistence_adapter.py:371`).

Project rows:

- `check_admin_or_owner` says "project owner or has admin role in the team members
  list" (`crud.py:96`), and `list_team_members` returns only rows that the caller
  made himself: an invited administrator never passes.
- PUT of a project always ends in an error: it calls `get_project_team_members`
  (`projects.py:150`), which the adapter does not have.
- PUT of a model configuration acknowledges `max_tokens`, `temperature` and
  `timeout` and stores none: `ModelConfigUpdate` has them at the top, the adapter
  looks into `config` (`postgres_adapter.py:879`).
- An update whose row is deleted between SELECT and UPDATE reports success
  (`postgres_adapter.py:931`); of two that overlap, the later UPDATE drops the keys
  the earlier one wrote (`overlaps` of `LostOnlyByOverlap`).
- Deleting a project deletes none of its rows; its owner still reaches them by
  his place in the team, if he has one (`StrandedKnowingly`).
- The `validate_*` methods of `crud_schemas.py` have no decorator and never run.
- The rate limiter stores a request under its second (`rate_limiting.py:215`), so
  all requests of one second count once; count and insertion are two commands.

LightServ:

- The mailed links have the path `/api/auth/...?token=` (`auth.ts:559`, `713`), which
  `api-routes.ts:617` redirects by the path alone: the query, with the token, is
  gone. The redirect is a 301, after which a POST arrives as a GET. `OpenLink`
  models the request that keeps its token (`/api/v1/...`).
- When the INSERT of a signup fails, the Keycloak user stays and every retry is
  refused as registered (`auth.ts:675`; `StrandedOnlyByFailure` names it). The
  helpers swallow a failing UPDATE: `verifyEmail` and `resetPassword` report success.
- The callback takes an address that nobody proved: it never looks at
  `email_verified` (`api-routes.ts:561`), the realm has `verifyEmail` off, and
  `syncUserToDB` writes the row as verified (`VerifiedIsVouched` names the case). A
  refused userinfo makes a row of the address `user`.
- The callback's token carries the Keycloak id where the other handlers expect
  the row's (`api-routes.ts:582`).
- `registerShutdownHandlers()` is called at startup (`server.ts:54`) and is
  `stopHealthCheck()` (`pagezen.ts:65`): LightPanda's health is not checked again.
- `initializeQueue` catches its own errors, so `/ready` always says the queue is
  connected (`http-server.ts:151`), and each probe replaces reader and writer;
  `shutdownQueue` closes the current reader only (`queue.ts:104`). A late
  failure clears those of another call (`queue.ts:86`).
- The consumer's handler is `scrapePage` with the queue (`server.ts:60`): each
  message publishes another, and its handler polls for that one first.
- `setRedisCache` returns normally when it has stored a result in the memory of the
  process only (`cache.ts:192`), and the message is then finished (`queue.ts:198`): a
  stop loses the result (`lost` of `NoJobLost`).
- A failing HTTP publish is logged and reported as done (`queue.ts:139`).
- A page of a scan gives its slot back up to four times (`lightpanda-scrape.ts:49`,
  `55`, `113`, `127`), so later pages run above the cap, where
  `lightserv/TEST_STRATEGY.md:192` says "No more than MAX_CONCURRENT_SCRAPE active".
- Several tools make a new rate limiter per request (`server.ts:163`), which never limits.

Client:

- A socket closed while connecting ends uncleanly, and `onclose` then connects
  to its old job again (`usePipelineWebSocket.ts:438`); `connect` also keeps the
  `pipelineId` of an earlier render, as its dependencies (line 471) lack it.
- A stale clean close resets the status of the job followed now (line 409), and
  the 2-second timer of a final transition is never cancelled (line 124).
- A late fetch, or a late failure, sets the page's job to null, also when a newer one
  runs (`GeneratorUI.tsx:405`, `440`).
- `ApiClient.request` never throws, so an approval that is refused or times out is
  shown as granted (`GeneratorUI.tsx:537`). One that is answered after the job ended
  and was left shows a generation under way with nothing followed
  (`RunningIsBacked` names it): the page has no prompt then until it is reloaded.
- The hook's code is cleared by nothing (`usePipelineWebSocket.ts:62`): a job that
  completes without files in its event gets those of the job before it.
- `handleTest` looks for `<section>-<id>` (`SettingsPanel.tsx:170`), and the store
  keeps verdicts under `model-`, `git-`, `cloud-` or `integration-`.
- A listing that was under way when a row was deleted brings the row back until
  the next one (`ListSettles` names it as `outdated`).
- The list of the project shown before, when its answer is slower, replaces the
  current one and stays (`useProjectSettingsStore.ts:263`), where
  `components/SettingsPanel.tsx:109` says "Load data on mount and when project
  changes".
- The settings calls send the stored token and the others the one in memory
  (`useProjectSettingsStore.ts:159`); a retry may carry another account's token.
- A sign-in form that is submitted in one tab writes that tab's empty store over
  `iacgenie-auth` (`covered`): the next reload of a tab that is signed in lands on
  /signin.
- A refused request of the plain style leaves the token in memory and in
  `iacgenie-auth`: `getAuthToken` stores the dead token again, and /signin bounces.
  One of `apiClient` leaves the tab showing an account without a token.
- A refresh that is answered after the sign-out stores a live token, without a
  user; the next page load removes it (`NoRevival`).
- A form submitted while a callback is verified may write an old store back
  (`twice`).
- The answer to a password reset has no user (`backend/routers/auth.py:1255`), so
  the client reports a failure (`localAuthService.ts:535`).
- `initialize` of `useAuthStore` and `verifyOtpAndLogin` are called by nobody, and
  the verification in `refreshIfExpired` cannot be reached.
- `deleteProject` sends no method and so a GET (`services/projectService.ts:59`),
  and `pages/SettingsPage.tsx:78` reports success.
- `PipelineDetailView.tsx:389` plays a successful run with timers.

## 16. Not modelled

`PROJECT.json` names each component and the reason. In short: agents, language
models, object storage, secrets and outgoing webhooks are I/O whose results
appear as choices in the models; API keys, audit logs, generations and billing are
one statement per request on tables of their own;
infrastructure code has no state the properties speak of; deep research, the MCP
tools and the web user interface of LightServ are sequences of the modelled
operations; dashboards and forms are views. Left out of modelled components:
the clarification panel and the log of the generator page, failures that a node
tells of while its run goes on, bulk operations and
the status of cloud credentials in the settings, the log of API key use and
listings of accounts, the parsing of search results and pages.

Some parts have no behaviour to model, because they do not get that far:

- The agentic pipeline never starts: `save_state` serialises a `datetime` with
  `json.dumps`, reports failure, and `start_pipeline` gives up.
- The circuit breaker of the LLM proxy refuses the first request of a provider.
- The effective graph of the orchestrator is clarification, or coding, and an
  end: its later nodes are not reached, so `RunGraph` has all its outcomes.
- What needs `services/auth_service.py` fails when it is called, because it imports
  `auth_providers`, which is not in the repository; and the check of revoked tokens catches its own refusal
  (`middleware/auth_middleware.py:124`).
- No application uses `routers/cloud_credentials.py`.
- The sandbox router calls its stubs with arguments they do not take, runs of
  Git and Digger are never saved, and the pool of agent processes never runs
  its workers.
- The webhook handler suspends nowhere between its replay cache's check and use.
