--------------------------- MODULE EventBroadcast ---------------------------
(***************************************************************************)
(* Workflow events on their way to the web: EventBroadcastService of        *)
(* event_broadcast.py, which every API process creates with its Redis       *)
(* client at the start (main.py), and the handler of a websocket in         *)
(* routers/workflow.py that takes events from it.                           *)
(*                                                                          *)
(* broadcast publishes an event to the channel of its session and to the    *)
(* global one.  Only the global one has a subscriber, the listener of each  *)
(* process: a thread reads a message, and the event loop dispatches it to   *)
(* the callbacks in the process.  Between two awaits nothing else of a      *)
(* process runs.  A forward is a task per callback and message; the tasks   *)
(* of one websocket run in the order in which they were made.               *)
(*                                                                          *)
(* External: Redis, which gives a message to the connections that are       *)
(* subscribed when it comes, and the workers, of which a session's events   *)
(* and its row are kept.  The end of a session is published after its row   *)
(* was written, or after that failed (orchestrator.py, celery_worker.py).   *)
(* Left out: heartbeats, pings and the check of the token.                  *)
(***************************************************************************)
EXTENDS Naturals, Sequences, SequencesExt, FiniteSets

CONSTANTS
  Processes,  \* API processes
  Sessions,
  Sockets,    \* websockets, each opened once
  Global,     \* the channel workflow:global
  MaxEvents,  \* bound: events published
  MaxDrops    \* bound: connections of a listener that are lost

ASSUME BroadcastAssumption ==
  /\ Global \notin Sessions /\ IsFiniteSet(Sessions)
  /\ MaxEvents \in Nat /\ MaxDrops \in Nat

Channels == Sessions \cup {Global}
Events == 1..MaxEvents

VARIABLES
  sent,      \* the events published to Redis, by session and whether it is the end
  life,      \* life[s] : a session, by its row and the announcement of its end
  service,   \* service[p] : the broadcast service of a process
  link,      \* link[p] : whether Redis has the subscription of the listener
  inbox,     \* inbox[p] : events that Redis has given to that connection
  taken,     \* taken[p] : the event that get_message returned, or 0
  subs,      \* subs[p] : _subscribers, the callbacks of each channel by socket
  conn,      \* conn[w] : a websocket with its handler
  forwards,  \* forwards[w] : the tasks that will send to it
  received,  \* received[w] : what its client got (history)
  lost,      \* lost[p] : events that Redis did not give to the process (history)
  gap,       \* gap[w] : events published between its look-up and its subscription, and an
             \* end before it that the row did not tell it of (history)
  drops      \* connections lost so far

listener == <<service, link, inbox, taken>>
socket == <<subs, conn, forwards, received>>
vars == <<sent, life, listener, socket, lost, gap, drops>>

\* running; ended: the row says so; failed: it could not be written; told: the end
\* is published, after either.
Lives == {"running", "ended", "failed", "told", "toldFailed"}

\* off: not started; degraded: without Redis; listening; deaf: the loop has ended with
\* an exception, and _listening is still true.
Services == {"off", "degraded", "listening", "deaf"}

\* proc, session: where the socket will connect to; looked: the handler has read the
\* status; client: whether the client is
\* there; told: whether the handler sends session_info.
Connection == [at : {"none", "looked", "subscribed", "over"}, proc : Processes,
               session : Sessions, client : BOOLEAN, told : BOOLEAN]

Of(p) == {w \in Sockets : conn[w].proc = p /\ conn[w].at # "none"}

(***************************************************************************)
(* Publishing.                                                              *)
(***************************************************************************)
Hearing == {p \in Processes : service[p] = "listening" /\ link[p]}

\* broadcast: the channel of the session has no subscriber, the global one those
\* that hear.
Broadcast(s, final) ==
  /\ Len(sent) < MaxEvents
  /\ LET i == Len(sent) + 1
     IN /\ sent' = Append(sent, [session |-> s, final |-> final])
        /\ inbox' = [p \in Processes |-> IF p \in Hearing THEN Append(inbox[p], i) ELSE inbox[p]]
        /\ lost' = [p \in Processes |-> IF p \in Hearing THEN lost[p] ELSE lost[p] \cup {i}]
        /\ gap' = [w \in Sockets |-> IF conn[w].at = "looked" THEN gap[w] \cup {i} ELSE gap[w]]

PublishProgress(s) ==
  /\ life[s] = "running"
  /\ Broadcast(s, FALSE)
  /\ UNCHANGED <<life, service, link, taken, socket, drops>>

WriteRow(s) ==
  /\ life[s] = "running"
  /\ life' \in {[life EXCEPT ![s] = v] : v \in {"ended", "failed"}}
  /\ UNCHANGED <<sent, listener, socket, lost, gap, drops>>

\* Without Redis, or when publishing raises, the event is dropped.
PublishEnd(s) ==
  /\ life[s] \in {"ended", "failed"}
  /\ life' = [life EXCEPT ![s] = IF @ = "ended" THEN "told" ELSE "toldFailed"]
  /\ \/ Broadcast(s, TRUE)
     \/ UNCHANGED <<sent, inbox, lost, gap>>
  /\ UNCHANGED <<service, link, taken, socket, drops>>

(***************************************************************************)
(* The service of a process.                                                *)
(***************************************************************************)
\* app_lifespan at the start: _init_broadcast and start_listening.
Start(p) ==
  /\ service[p] = "off"
  /\ \/ service' = [service EXCEPT ![p] = "listening"] /\ link' = [link EXCEPT ![p] = TRUE]
     \/ service' = [service EXCEPT ![p] = "degraded"] /\ UNCHANGED link
  /\ UNCHANGED <<sent, life, inbox, taken, socket, lost, gap, drops>>

\* Seeded fault: of the messages that wait only the last is read.
GetMessageLast(p) ==
  /\ service[p] = "listening"
  /\ taken[p] = 0 /\ inbox[p] # <<>>
  /\ taken' = [taken EXCEPT ![p] = Last(inbox[p])]
  /\ inbox' = [inbox EXCEPT ![p] = <<>>]
  /\ UNCHANGED <<sent, life, service, link, socket, lost, gap, drops>>

\* get_message in its thread.
GetMessage(p) ==
  /\ service[p] = "listening"
  /\ taken[p] = 0 /\ inbox[p] # <<>>
  /\ taken' = [taken EXCEPT ![p] = Head(inbox[p])]
  /\ inbox' = [inbox EXCEPT ![p] = Tail(@)]
  /\ UNCHANGED <<sent, life, service, link, socket, lost, gap, drops>>

\* How often a message of the channel reaches the callback of a socket: the callbacks
\* of the channel, those of the global one, and for a global message those of every
\* session.
Callbacks(p, channel, w) ==
  LET Has(c) == IF w \in subs[p][c] THEN 1 ELSE 0
  IN Has(channel) + Has(Global)
     + IF channel = Global THEN Cardinality({s \in Sessions : w \in subs[p][s]}) ELSE 0

\* Seeded fault: the tasks of a message overtake earlier ones.
DispatchFirst(p) ==
  /\ service[p] = "listening"
  /\ taken[p] # 0
  /\ forwards' = [w \in Sockets |->
       [n \in 1..Callbacks(p, Global, w) |-> taken[p]] \o forwards[w]]
  /\ taken' = [taken EXCEPT ![p] = 0]
  /\ UNCHANGED <<sent, life, service, link, inbox, subs, conn, received, lost, gap, drops>>

\* Seeded fault: a message that cannot be dispatched ends the loop.
DispatchRaises(p) ==
  /\ service[p] = "listening"
  /\ taken[p] # 0
  /\ \/ /\ forwards' = [w \in Sockets |->
            forwards[w] \o [n \in 1..Callbacks(p, Global, w) |-> taken[p]]]
        /\ taken' = [taken EXCEPT ![p] = 0]
        /\ UNCHANGED service
     \/ service' = [service EXCEPT ![p] = "deaf"] /\ UNCHANGED <<forwards, taken>>
  /\ UNCHANGED <<sent, life, link, inbox, subs, conn, received, lost, gap, drops>>

\* _dispatch: one task per callback.
Dispatch(p) ==
  /\ service[p] = "listening"
  /\ taken[p] # 0
  /\ forwards' = [w \in Sockets |->
       forwards[w] \o [n \in 1..Callbacks(p, Global, w) |-> taken[p]]]
  /\ taken' = [taken EXCEPT ![p] = 0]
  /\ UNCHANGED <<sent, life, service, link, inbox, subs, conn, received, lost, gap, drops>>

\* The connection of the listener breaks.
LoseConnection(p) ==
  /\ drops < MaxDrops /\ drops' = drops + 1
  /\ link[p]
  /\ link' = [link EXCEPT ![p] = FALSE]
  /\ inbox' = [inbox EXCEPT ![p] = <<>>]
  /\ lost' = [lost EXCEPT ![p] = @ \cup ToSet(inbox[p])]
  /\ UNCHANGED <<sent, life, service, taken, socket, gap>>

\* The next get_message connects and subscribes again, or raises: the loop then ends,
\* and start_listening would return at once.
Reconnect(p) ==
  /\ service[p] = "listening" /\ ~link[p]
  /\ taken[p] = 0
  /\ \/ link' = [link EXCEPT ![p] = TRUE] /\ UNCHANGED service
     \/ service' = [service EXCEPT ![p] = "deaf"] /\ UNCHANGED link
  /\ UNCHANGED <<sent, life, inbox, taken, socket, lost, gap, drops>>

\* The process stops: at the end of app_lifespan, or anywhere.
Stop(p) ==
  /\ service[p] # "off"
  /\ service' = [service EXCEPT ![p] = "off"]
  /\ link' = [link EXCEPT ![p] = FALSE]
  /\ inbox' = [inbox EXCEPT ![p] = <<>>]
  /\ taken' = [taken EXCEPT ![p] = 0]
  /\ subs' = [subs EXCEPT ![p] = [c \in Channels |-> {}]]
  /\ conn' = [w \in Sockets |->
       IF w \in Of(p) THEN [conn[w] EXCEPT !.at = "over", !.client = FALSE] ELSE conn[w]]
  /\ forwards' = [w \in Sockets |-> IF w \in Of(p) THEN <<>> ELSE forwards[w]]
  /\ lost' = [lost EXCEPT ![p] = @ \cup ToSet(inbox[p])]
  /\ UNCHANGED <<sent, life, received, gap, drops>>

(***************************************************************************)
(* The handler of a websocket: workflow_websocket.                          *)
(***************************************************************************)
\* Whether the handler finds the end in the row: get_generation_job returned it (read),
\* and its status is completed or failed.
RowSaysEnded(s, read) == read /\ life[s] \in {"ended", "told"}

\* Seeded fault: the row does not override the session in memory.
InactiveInMemory(s, read) == BOOLEAN

\* Whether the status is one of those that are not active.  The row of an ended job
\* overrides the session in the memory of the process.  When get_generation_job raises,
\* finds no row or finds an active one, the status in memory stays: it may be active long
\* after a worker ended the job, and inactive before its row says so.
Inactive(s, read) == IF RowSaysEnded(s, read) THEN {TRUE} ELSE BOOLEAN

Ended(s) == {i \in DOMAIN sent : sent[i].final /\ sent[i].session = s}

\* Up to session_info, which an inactive session's client is sent.
LookUp(w) ==
  LET s == conn[w].session
  IN /\ conn[w].at = "none"
     /\ service[conn[w].proc] # "off"
     /\ \E read \in BOOLEAN : \E told \in Inactive(s, read) :
          /\ conn' = [conn EXCEPT ![w] = [@ EXCEPT !.at = "looked", !.client = TRUE, !.told = told]]
          /\ gap' = IF told \/ RowSaysEnded(s, read) THEN gap
                    ELSE [gap EXCEPT ![w] = @ \cup Ended(s)]
     /\ UNCHANGED <<sent, life, listener, subs, forwards, received, lost, drops>>

\* subscribe and unsubscribe, each for the channel of the session and the global one.
Subscribed(of, w) ==
  [c \in Channels |-> IF c \in {conn[w].session, Global} THEN of[c] \cup {w} ELSE of[c]]

Unsubscribed(of, w) ==
  [c \in Channels |-> IF c \in {conn[w].session, Global} THEN of[c] \ {w} ELSE of[c]]

\* Both channels are subscribed to without an await in between.
Subscribe(w) ==
  /\ conn[w].at = "looked"
  /\ conn' = [conn EXCEPT ![w].at = "subscribed"]
  /\ subs' = [subs EXCEPT ![conn[w].proc] = Subscribed(@, w)]
  /\ UNCHANGED <<sent, life, listener, forwards, received, lost, gap, drops>>

\* _forward_to_client, which swallows the exception of a client that is gone.
Forward(w) ==
  /\ forwards[w] # <<>>
  /\ forwards' = [forwards EXCEPT ![w] = Tail(@)]
  /\ received' = IF conn[w].client THEN [received EXCEPT ![w] = Append(@, Head(forwards[w]))]
                 ELSE received
  /\ UNCHANGED <<sent, life, listener, subs, conn, lost, gap, drops>>

ClientGoes(w) ==
  /\ conn[w].at \in {"looked", "subscribed"} /\ conn[w].client
  /\ conn' = [conn EXCEPT ![w].client = FALSE]
  /\ UNCHANGED <<sent, life, listener, subs, forwards, received, lost, gap, drops>>

\* Seeded fault: only the channel of the session is left.
HandlerEndsHalf(w) ==
  /\ conn[w].at = "subscribed" /\ ~conn[w].client
  /\ conn' = [conn EXCEPT ![w].at = "over"]
  /\ subs' = [subs EXCEPT ![conn[w].proc][conn[w].session] = @ \ {w}]
  /\ UNCHANGED <<sent, life, listener, forwards, received, lost, gap, drops>>

\* The loop notices that the client is gone, at the latest when a heartbeat fails, and
\* unsubscribes.
HandlerEnds(w) ==
  /\ conn[w].at = "subscribed" /\ ~conn[w].client
  /\ conn' = [conn EXCEPT ![w].at = "over"]
  /\ subs' = [subs EXCEPT ![conn[w].proc] = Unsubscribed(@, w)]
  /\ UNCHANGED <<sent, life, listener, forwards, received, lost, gap, drops>>

\* session_info cannot be sent: the handler ends before it subscribes.
InfoFails(w) ==
  /\ conn[w].at = "looked" /\ conn[w].told /\ ~conn[w].client
  /\ conn' = [conn EXCEPT ![w].at = "over"]
  /\ UNCHANGED <<sent, life, listener, subs, forwards, received, lost, gap, drops>>

(***************************************************************************)
(* The system.                                                              *)
(***************************************************************************)
Init ==
  /\ sent = <<>>
  /\ life = [s \in Sessions |-> "running"]
  /\ service = [p \in Processes |-> "off"]
  /\ link = [p \in Processes |-> FALSE]
  /\ inbox = [p \in Processes |-> <<>>]
  /\ taken = [p \in Processes |-> 0]
  /\ subs = [p \in Processes |-> [c \in Channels |-> {}]]
  /\ conn \in [Sockets -> {c \in Connection : c.at = "none" /\ ~c.client /\ ~c.told}]
  /\ forwards = [w \in Sockets |-> <<>>]
  /\ received = [w \in Sockets |-> <<>>]
  /\ lost = [p \in Processes |-> {}]
  /\ gap = [w \in Sockets |-> {}]
  /\ drops = 0

Publisher(s) == PublishProgress(s) \/ WriteRow(s) \/ PublishEnd(s)

Listener(p) == GetMessage(p) \/ Dispatch(p)

Service(p) == Start(p) \/ Listener(p) \/ LoseConnection(p) \/ Reconnect(p) \/ Stop(p)

Handler(w) ==
  \/ LookUp(w) \/ Subscribe(w) \/ Forward(w) \/ ClientGoes(w) \/ HandlerEnds(w) \/ InfoFails(w)

Next ==
  \/ \E s \in Sessions : Publisher(s)
  \/ \E p \in Processes : Service(p)
  \/ \E w \in Sockets : Handler(w)

Spec == Init /\ [][Next]_vars

\* The event loop runs what is ready, and a heartbeat every thirty seconds finds a
\* client that is gone.
FairSpec ==
  /\ Spec
  /\ \A p \in Processes : WF_vars(Listener(p))
  /\ \A w \in Sockets : WF_vars(Forward(w)) /\ WF_vars(Subscribe(w)) /\ WF_vars(HandlerEnds(w))

TypeOK ==
  /\ sent \in Seq([session : Sessions, final : BOOLEAN]) /\ Len(sent) <= MaxEvents
  /\ life \in [Sessions -> Lives]
  /\ service \in [Processes -> Services]
  /\ link \in [Processes -> BOOLEAN]
  /\ inbox \in [Processes -> Seq(Events)]
  /\ taken \in [Processes -> Events \cup {0}]
  /\ subs \in [Processes -> [Channels -> SUBSET Sockets]]
  /\ conn \in [Sockets -> Connection]
  /\ forwards \in [Sockets -> Seq(Events)]
  /\ received \in [Sockets -> Seq(Events)]
  /\ lost \in [Processes -> SUBSET Events]
  /\ gap \in [Sockets -> SUBSET Events]
  /\ drops \in 0..MaxDrops

(***************************************************************************)
(* What holds.                                                              *)
(***************************************************************************)
\* What waits in the process for the callbacks of a socket.
Waiting(w) ==
  LET p == conn[w].proc IN ToSet(inbox[p]) \cup ({taken[p]} \ {0}) \cup ToSet(forwards[w])

\* A client gets events in the order in which they were published, whatever threads,
\* tasks and reconnections are between Redis and its websocket (usePipelineWebSocket
\* sets the phase from each event as it comes).
InOrder ==
  \A w \in Sockets : \A i, j \in DOMAIN received[w] : i < j => received[w][i] <= received[w][j]

\* A client that got an earlier and a later event got those in between too, or the
\* process had no connection when they were published.
NoHoles ==
  \A w \in Sockets : \A i, j \in ToSet(received[w]) : \A k \in i..j :
    k \in ToSet(received[w]) \cup lost[conn[w].proc]

\* The client of a session whose end was published has been told of it, or will be:
\* save when the process was deaf, when the end fell between the look-up and the
\* subscription of the handler, or when it fell before the look-up and the row did not
\* say so: it could not be written, or not be read, and the session in the memory of the
\* process was still active.  Nothing else tells that client: heartbeats go on.
EndIsKnown ==
  \A w \in Sockets : conn[w].at = "subscribed" /\ conn[w].client =>
    \A i \in DOMAIN sent : sent[i].final /\ sent[i].session = conn[w].session =>
      \/ conn[w].told
      \/ i \in ToSet(received[w]) \cup Waiting(w)
      \/ i \in lost[conn[w].proc] \cup gap[w]

\* An event that a process has and a subscribed client has not got yet is forwarded,
\* unless the connection breaks before the listener reads it or the client goes first.
EventsArrive ==
  \A w \in Sockets, i \in Events :
    conn[w].at = "subscribed" /\ i \in Waiting(w)
      ~> \/ i \in ToSet(received[w]) \cup lost[conn[w].proc]
         \/ ~conn[w].client

\* No callback outlives its client in a process, so the lists that every message walks
\* do not grow with the clients that came and went.
CallbacksGo ==
  \A w \in Sockets :
    (conn[w].at # "none" /\ ~conn[w].client)
      ~> [](\A p \in Processes, c \in Channels : w \notin subs[p][c])

=============================================================================
