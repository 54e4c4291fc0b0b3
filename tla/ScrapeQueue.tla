---------------------------- MODULE ScrapeQueue -----------------------------
(***************************************************************************)
(* The scrape queue of LightServ: queue.ts between scrape.ts, whose         *)
(* scrapePage publishes a job and polls for its result, and the consumer    *)
(* that server.ts registers, whose handler is scrapePage again.             *)
(*                                                                          *)
(* initializeQueue makes a writer and a reader.  It runs at the start, when *)
(* the HTTP server starts and at every readiness probe, and while it waits  *)
(* for its writer the variables writer and reader change under everyone     *)
(* else.  A job is known by the millisecond it was asked for, its message   *)
(* by the id that NSQ gives it.                                             *)
(*                                                                          *)
(* NSQ itself is external: a topic that keeps its messages until they are   *)
(* finished, and delivers those that a consumer held when it stopped again. *)
(* A writer may become ready, fail or stay silent.  Left out: that NSQ also *)
(* redelivers what is held for too long, the hour after which a result      *)
(* expires, and the metrics.                                                *)
(***************************************************************************)
EXTENDS Naturals, Sequences, FiniteSets

CONSTANTS
  Requests,     \* calls of scrapePage, each for a page of its own
  MaxInFlight,  \* messages a consumer handles at once
  MayCrash,     \* whether the process may stop and start again
  RedisMayFail, \* whether Redis may be away when a result is stored
  MaxInits,     \* bound: calls of initializeQueue
  MaxMessages,  \* bound: messages that are followed
  MaxMillis,    \* bound: the time
  None          \* no page

Inits == 1..MaxInits
Messages == 1..MaxMessages
Tasks == Requests \cup Messages

ASSUME QueueAssumption ==
  /\ Requests \cap Nat = {}
  /\ MaxInFlight \in Nat \ {0}
  /\ MayCrash \in BOOLEAN /\ RedisMayFail \in BOOLEAN
  /\ MaxInits \in Nat /\ MaxMessages \in Nat /\ MaxMillis \in Nat

VARIABLES
  internal,  \* whether NSQD_URL matches the pattern of internal addresses
  clock,     \* the time, in milliseconds
  inits,     \* calls of initializeQueue so far; call i makes writer and reader i
  waiting,   \* the calls of initializeQueue that wait for their writer
  socket,    \* socket[i] : the connection of writer i
  writer,    \* the writer in the variable writer, or 0
  reader,    \* the reader in the variable reader, or 0
  closed,    \* the readers that were closed
  consumer,  \* consumerRunning, the reader with the handler, the call it waits for
  topic,     \* the messages so far
  task,      \* task[t] : the call of scrapePage by a caller or for a message
  results,   \* the keys scrape:result:* of Redis with their page
  kept,      \* those that the process has in its memory instead
  lost,      \* those it had in its memory when it stopped (history)
  asked      \* the pages asked for, with the millisecond (history)

connection == <<inits, waiting, socket, writer, reader, closed>>
stored == <<results, kept, lost>>
qvars == <<internal, clock, connection, consumer, topic, task, stored, asked>>

\* at: where NSQ has the message.
Message == [at : {"queued", "held", "finished"}, job : Nat, page : Requests]

\* job: the id of the job; page: what it is about; via: the writer it waits for;
\* got: the page of the result.
Task == [at : {"idle", "http", "send", "poll", "local", "sync", "store", "finish", "done"},
         job : Nat, page : Requests \cup {None}, via : Nat, got : Requests \cup {None}]

NoTask == [at |-> "idle", job |-> 0, page |-> None, via |-> 0, got |-> None]

\* setRedisCache: when Redis is away the result goes to the memory of the process.
\* A key that is written twice may have either page.
Store(k, page) ==
  /\ \/ results' = results \cup {<<k, page>>} /\ UNCHANGED kept
     \/ RedisMayFail /\ kept' = kept \cup {<<k, page>>} /\ UNCHANGED results
  /\ UNCHANGED lost

\* getRedisCache: the memory comes first.
Result(k, page) ==
  \/ <<k, page>> \in kept
  \/ <<k, page>> \in results /\ \A r \in kept : r[1] # k

Known == {m \in Messages : m <= Len(topic)}
JobKey(j) == <<"job", j>>
MsgKey(m) == <<"msg", m>>
Key == ({"job"} \X Nat) \cup ({"msg"} \X Messages)

(***************************************************************************)
(* initializeQueue, shutdownQueue and registerConsumer.                     *)
(***************************************************************************)
\* The new writer is in the variable before it is connected.
Connect(i) ==
  /\ i = inits + 1 /\ i <= MaxInits
  /\ inits' = i
  /\ waiting' = waiting \cup {i}
  /\ socket' = [socket EXCEPT ![i] = "connecting"]
  /\ writer' = i
  /\ UNCHANGED <<reader, closed>>

InitializeQueue ==
  /\ Connect(inits + 1)
  /\ UNCHANGED <<internal, clock, consumer, topic, task, stored, asked>>

\* The consumer that waited for call i gets whatever reader there is, or none.
Attach(i, r) ==
  consumer' = IF consumer.awaits = i THEN [running |-> TRUE, reads |-> r, awaits |-> 0]
              ELSE consumer

\* Call i ends well: a new reader takes the place of the one that may be read.
Succeed(i) == reader' = i /\ Attach(i, i) /\ UNCHANGED writer

\* Call i fails: writer and reader are cleared, whoever has set them.
Fail(i) == writer' = 0 /\ reader' = 0 /\ Attach(i, 0)

WriterReady(i) ==
  /\ socket[i] = "connecting"
  /\ socket' = [socket EXCEPT ![i] = "ready"]
  /\ waiting' = waiting \ {i}
  /\ IF i \in waiting THEN Succeed(i) ELSE UNCHANGED <<writer, reader, consumer>>
  /\ UNCHANGED <<internal, clock, inits, closed, topic, task, stored, asked>>

WriterFails(i) ==
  /\ socket[i] = "connecting"
  /\ socket' = [socket EXCEPT ![i] = "failed"]
  /\ waiting' = waiting \ {i}
  /\ IF i \in waiting THEN Fail(i) ELSE UNCHANGED <<writer, reader, consumer>>
  /\ UNCHANGED <<internal, clock, inits, closed, topic, task, stored, asked>>

\* Three seconds without a word of the writer, which stays as it is.
InitTimeout(i) ==
  /\ i \in waiting
  /\ waiting' = waiting \ {i}
  /\ Fail(i)
  /\ UNCHANGED <<internal, clock, inits, socket, closed, topic, task, stored, asked>>

\* registerConsumer, once, when the initializeQueue of the start is over.
RegisterConsumer ==
  /\ inits > 0 /\ 1 \notin waiting
  /\ ~consumer.running /\ consumer.awaits = 0 /\ closed = {}
  /\ \/ /\ reader # 0
        /\ consumer' = [running |-> TRUE, reads |-> reader, awaits |-> 0]
        /\ UNCHANGED connection
     \/ /\ reader = 0
        /\ Connect(inits + 1)
        /\ consumer' = [consumer EXCEPT !.awaits = inits + 1]
  /\ UNCHANGED <<internal, clock, topic, task, stored, asked>>

\* Only the reader in the variable is closed.
ShutdownQueue ==
  /\ consumer.running
  /\ closed' = IF reader # 0 THEN closed \cup {reader} ELSE closed
  /\ consumer' = IF reader # 0 THEN [consumer EXCEPT !.running = FALSE] ELSE consumer
  /\ writer' = 0
  /\ closed # closed'
  /\ UNCHANGED <<internal, clock, inits, waiting, socket, reader, topic, task, stored, asked>>

(***************************************************************************)
(* scrapePage, called with useAsync.                                        *)
(***************************************************************************)
\* Seeded fault: every job has the same id.
StartedUntimed(page) ==
  [at |-> CASE ~internal -> "local" [] internal /\ writer = 0 -> "http" [] OTHER -> "send",
   job |-> 0, page |-> page, via |-> IF internal THEN writer ELSE 0, got |-> None]

\* processScrapeJobSync, up to the publishing.
Started(page) ==
  [at |-> CASE ~internal -> "local" [] internal /\ writer = 0 -> "http" [] OTHER -> "send",
   job |-> clock, page |-> page, via |-> IF internal THEN writer ELSE 0, got |-> None]

Ask(c) ==
  /\ task[c].at = "idle"
  /\ task' = [task EXCEPT ![c] = Started(c)]
  /\ asked' = asked \cup {<<clock, c>>}
  /\ UNCHANGED <<internal, clock, connection, consumer, topic, stored>>

Publish(t) ==
  topic' = IF Len(topic) < MaxMessages
           THEN Append(topic, [at |-> "queued", job |-> task[t].job, page |-> task[t].page])
           ELSE topic

Go(t, step) == task' = [task EXCEPT ![t].at = step, ![t].via = 0]

\* scrapePage has a page; the handler has yet to store it.
Have(t, page) ==
  task' = [task EXCEPT ![t].at = IF t \in Requests THEN "done" ELSE "store", ![t].got = page]

\* publishScrapeJob without a writer: the outcome of the request is swallowed.
HttpPut(t) ==
  /\ task[t].at = "http"
  /\ Publish(t) \/ UNCHANGED topic
  /\ Go(t, "poll")
  /\ UNCHANGED <<internal, clock, connection, consumer, stored, asked>>

\* publishScrapeJob with a writer: an error makes the job run here.
SendReturns(t) ==
  /\ task[t].at = "send"
  /\ \/ /\ socket[task[t].via] = "ready"
        /\ Publish(t)
        /\ Go(t, "poll")
     \/ /\ socket[task[t].via] \in {"ready", "failed"}
        /\ Go(t, "local")
        /\ UNCHANGED topic
  /\ UNCHANGED <<internal, clock, connection, consumer, stored, asked>>

\* The job runs in the process of its caller and is stored under its own id.
LocalScrape(t) ==
  /\ task[t].at = "local"
  /\ \/ /\ Have(t, task[t].page)
        /\ Store(JobKey(task[t].job), task[t].page)
     \/ /\ Go(t, "sync")
        /\ UNCHANGED stored
  /\ UNCHANGED <<internal, clock, connection, consumer, topic, asked>>

\* getScrapeResult finds a result under the id of the job.
PollFinds(t) ==
  /\ task[t].at = "poll"
  /\ \E p \in Requests :
       /\ Result(JobKey(task[t].job), p)
       /\ Have(t, p)
  /\ UNCHANGED <<internal, clock, connection, consumer, topic, stored, asked>>

\* Seeded fault: the poll has no deadline.
PollGoesOn(t) == task[t].at = "poll" /\ UNCHANGED qvars

\* Its deadline passes; scrapePage goes on to scrape by itself.
PollGivesUp(t) ==
  /\ task[t].at = "poll"
  /\ Go(t, "sync")
  /\ UNCHANGED <<internal, clock, connection, consumer, topic, stored, asked>>

\* scrapePageSync.
ScrapeSync(t) ==
  /\ task[t].at = "sync"
  /\ Have(t, task[t].page) \/ Go(t, "done")
  /\ UNCHANGED <<internal, clock, connection, consumer, topic, stored, asked>>

(***************************************************************************)
(* The consumer: handleMessage.                                             *)
(***************************************************************************)
Held == {m \in Known : topic[m].at = "held"}

Deliver(m) ==
  /\ m \in Known
  /\ topic[m].at = "queued"
  /\ consumer.reads # 0 /\ consumer.reads \notin closed
  /\ Cardinality(Held) < MaxInFlight
  /\ topic' = [topic EXCEPT ![m].at = "held"]
  /\ task' = [task EXCEPT ![m] = Started(topic[m].page)]
  /\ asked' = asked \cup {<<clock, topic[m].page>>}
  /\ UNCHANGED <<internal, clock, connection, consumer, stored>>

\* The result is stored under the id of the message, wherever it went.
StoreResult(m) ==
  /\ task[m].at = "store"
  /\ Store(MsgKey(m), task[m].got)
  /\ Go(m, "finish")
  /\ UNCHANGED <<internal, clock, connection, consumer, topic, asked>>

\* Seeded fault: the message may be finished before the result is stored.
FinishMessageEarly(m) ==
  /\ task[m].at \in {"store", "finish"}
  /\ topic' = [topic EXCEPT ![m].at = "finished"]
  /\ task' = [task EXCEPT ![m] = NoTask]
  /\ UNCHANGED <<internal, clock, connection, consumer, stored, asked>>

FinishMessage(m) ==
  /\ task[m].at = "finish"
  /\ topic' = [topic EXCEPT ![m].at = "finished"]
  /\ task' = [task EXCEPT ![m] = NoTask]
  /\ UNCHANGED <<internal, clock, connection, consumer, stored, asked>>

\* The handler threw.
Requeue(m) ==
  /\ task[m].at = "done"
  /\ topic' = [topic EXCEPT ![m].at = "queued"]
  /\ task' = [task EXCEPT ![m] = NoTask]
  /\ UNCHANGED <<internal, clock, connection, consumer, stored, asked>>

QTick ==
  /\ clock < MaxMillis
  /\ clock' = clock + 1
  /\ UNCHANGED <<internal, connection, consumer, topic, task, stored, asked>>

\* The process stops and starts: NSQ and Redis keep what they have, and results
\* that were only in its memory are gone.
Crash ==
  /\ MayCrash
  /\ inits < MaxInits
  /\ waiting' = {} /\ writer' = 0 /\ reader' = 0
  /\ closed' = {}
  /\ socket' = [i \in Inits |-> IF i <= inits THEN "failed" ELSE "unborn"]
  /\ consumer' = [running |-> FALSE, reads |-> 0, awaits |-> 0]
  /\ task' = [t \in Tasks |-> IF t \in Requests /\ task[t].at # "idle"
                              THEN [task[t] EXCEPT !.at = "done"] ELSE NoTask]
  /\ topic' = [m \in DOMAIN topic |-> IF topic[m].at = "held"
                                      THEN [topic[m] EXCEPT !.at = "queued"] ELSE topic[m]]
  /\ kept' = {} /\ lost' = lost \cup kept
  /\ UNCHANGED <<internal, clock, inits, results, asked>>

QInit ==
  /\ internal \in BOOLEAN
  /\ clock = 0
  /\ inits = 0 /\ waiting = {} /\ socket = [i \in Inits |-> "unborn"]
  /\ writer = 0 /\ reader = 0 /\ closed = {}
  /\ consumer = [running |-> FALSE, reads |-> 0, awaits |-> 0]
  /\ topic = <<>>
  /\ task = [t \in Tasks |-> NoTask]
  /\ results = {} /\ kept = {} /\ lost = {} /\ asked = {}

TaskStep(t) ==
  \/ HttpPut(t) \/ SendReturns(t) \/ LocalScrape(t) \/ PollFinds(t) \/ PollGivesUp(t)
  \/ ScrapeSync(t)

Consume(m) == StoreResult(m) \/ FinishMessage(m) \/ Requeue(m)

QNext ==
  \/ InitializeQueue \/ RegisterConsumer \/ ShutdownQueue
  \/ \E i \in Inits : WriterReady(i) \/ WriterFails(i) \/ InitTimeout(i)
  \/ \E c \in Requests : Ask(c)
  \/ \E t \in Tasks : TaskStep(t)
  \/ \E m \in Messages : Deliver(m) \/ Consume(m)
  \/ QTick \/ Crash

QSpec == QInit /\ [][QNext]_qvars

\* Requests return, deadlines pass and handlers run on; nothing is assumed of
\* the connection, nor that messages are delivered.
Fairness ==
  \A c \in Requests : WF_qvars(TaskStep(c))

QFairSpec == QSpec /\ Fairness

(***************************************************************************)
(* Properties.                                                              *)
(***************************************************************************)
\* Every variable has its type.
QTypeOK ==
  /\ internal \in BOOLEAN /\ clock \in 0..MaxMillis /\ inits \in 0..MaxInits
  /\ waiting \cup closed \subseteq Inits
  /\ socket \in [Inits -> {"unborn", "connecting", "ready", "failed"}]
  /\ {writer, reader} \subseteq {0} \cup Inits
  /\ consumer \in [running : BOOLEAN, reads : {0} \cup Inits, awaits : {0} \cup Inits]
  /\ topic \in Seq(Message) /\ Len(topic) <= MaxMessages
  /\ task \in [Tasks -> Task]
  /\ results \cup kept \cup lost \subseteq Key \X Requests
  /\ asked \subseteq (0..MaxMillis) \X Requests

\* A job that was published is not lost: it is queued, or a handler is at work on
\* it, or its result was stored before its message was finished; a stop between
\* any two of these steps leaves it queued (handleMessage).  Only a result that
\* Redis was not there to take goes with the process, its message long finished.
NoJobLost ==
  \A m \in Known :
    /\ topic[m].at = "held" => task[m].at # "idle"
    /\ topic[m].at = "finished" =>
         \E p \in Requests : <<MsgKey(m), p>> \in results \cup kept \cup lost

\* A caller is given the page it asked for, although results are found by a key
\* that is only the millisecond of the call: another page comes back only if it
\* was asked for in the same millisecond (scrapePage).
RightPage ==
  \A t \in Tasks : task[t].got # None /\ task[t].got # task[t].page =>
    <<task[t].job, task[t].got>> \in asked

\* Whoever asks is answered, or waits for a writer that has not become ready: one
\* that initializeQueue has put in the variable and then given up.
CallersAnswered ==
  \A c \in Requests :
    [](task[c].at # "idle" =>
       <>(task[c].at = "done" \/ (task[c].at = "send" /\ socket[task[c].via] = "connecting")))

=============================================================================
