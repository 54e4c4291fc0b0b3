---------------------------- MODULE ResultCache -----------------------------
(***************************************************************************)
(* The cache of LightServ, src/lightserv/src/cache.ts.                      *)
(*                                                                          *)
(* One process keeps results in Redis and, when Redis cannot be used, in a  *)
(* Map of bounded size.  Two families of functions share both stores:       *)
(*   - getCachedSearch, setCachedSearch and invalidateCache use Redis while *)
(*     it is ready and the Map otherwise;                                   *)
(*   - getRedisCache, setRedisCache and deleteRedisCache, with the scrape   *)
(*     functions on top of them, look into the Map first.                   *)
(* Every use of Redis is awaited, so calls overlap; the client sends the    *)
(* commands of all calls in order and, when the connection breaks, keeps    *)
(* them until it is back or gives up.  initializeCache replaces the client  *)
(* (at the start, and at every readiness probe) while calls still wait for  *)
(* the old one.                                                             *)
(***************************************************************************)
EXTENDS Naturals, Sequences, FiniteSets, SequencesExt

CONSTANTS
  SearchKeys,   \* keys used by getCachedSearch and its companions
  ResultKeys,   \* keys used by getRedisCache and its companions
  Callers,      \* the requests that use the cache
  Ttl,          \* Ttl[k] : the time to live of a value of k
  MemMax,       \* the size of the Map (1000 in the code)
  RetryLimit,   \* attempts to reconnect before the client ends (2 in the code)
  MaxClients,   \* bound: calls of initializeCache
  MaxWrites,    \* bound: values stored
  MaxTime,      \* bound: the clock
  NoAnswer      \* a call that has not returned a value

Keys == SearchKeys \cup ResultKeys

Clients == 1..MaxClients

ASSUME CacheAssumption ==
  /\ SearchKeys \cap ResultKeys = {}
  /\ Ttl \in [Keys -> Nat]
  /\ MemMax \in Nat \ {0}
  /\ RetryLimit \in Nat
  /\ MaxClients \in Nat \ {0}
  /\ MaxWrites \in Nat
  /\ MaxTime \in Nat

VARIABLES
  now,       \* the clock, in units of the time to live
  written,   \* number of values stored so far; the next value is written + 1
  client,    \* the client in redisClient
  status,    \* status[i] : the status of client i
  tries,     \* tries[i] : attempts to reconnect since client i was ready
  wire,      \* wire[i] : the callers that await client i, oldest first
  call,      \* call[c] : what the caller c is doing
  redis,     \* redis[k] : the copy Redis holds, as a set of at most one
  memory,    \* the entries of memoryCache, oldest first
  answer,    \* what the last step returned to its caller: a hit, or NoAnswer
  floor,     \* floor[k] : no value below it is up to date (history)
  strayed    \* keys a call of which left the path through one client (history)

stores == <<redis, memory>>
link == <<client, status, tries>>
history == <<floor, strayed>>
vars == <<now, written, link, wire, call, stores, answer, history>>

Copy == [val : Nat, exp : Nat]
Entry == [key : Keys, val : Nat, exp : Nat]
Hit == [key : Keys, val : Nat, exp : Nat, at : Nat, floor : Nat]
Call == [do : {"get", "set", "del"}, key : Keys, val : Nat, floor : Nat]

Idle == NoAnswer

ASSUME NoAnswerIsNothing == NoAnswer \notin Hit /\ NoAnswer \notin Call

(***************************************************************************)
(* The Map with a maximum size: class LRUCache and the functions on it.     *)
(***************************************************************************)
\* The Map has one entry of a key, which goes.
Without(m, k) ==
  IF \E i \in DOMAIN m : m[i].key = k
  THEN RemoveAt(m, CHOOSE i \in DOMAIN m : m[i].key = k) ELSE m

\* LRUCache.store: the key moves to the end, the oldest entries make room.
StoredIn(m, e) ==
  LET rest == Without(m, e.key)
      kept == IF Len(rest) < MemMax THEN rest
              ELSE SubSeq(rest, Len(rest) - MemMax + 2, Len(rest))
  IN  Append(kept, e)

\* LRUCache.get deletes an entry it finds expired.
AfterLook(m, k) ==
  IF \E i \in DOMAIN m : m[i].key = k /\ now > m[i].exp THEN Without(m, k) ELSE m

\* Seeded fault: an entry is served at the moment it expires.
FoundAtExpiry(m, k) == {e \in Range(m) : e.key = k /\ e.exp >= now}

\* getMemoryCache: the entry of k, when its time has not come.
Found(m, k) == {e \in Range(m) : e.key = k /\ e.exp > now}

EntryOf(k, v) == [key |-> k, val |-> v, exp |-> now + Ttl[k]]

(***************************************************************************)
(* The Redis client.                                                        *)
(***************************************************************************)
Ready == client # 0 /\ status[client] = "ready"

\* setCachedSearch also writes through a client that still connects.
MaySet(k) ==
  Ready \/ (client # 0 /\ status[client] = "connecting" /\ k \in SearchKeys)

Send(c, do, k, v) ==
  /\ wire' = [wire EXCEPT ![client] = Append(@, c)]
  /\ call' = [call EXCEPT ![c] =
                [do |-> do, key |-> k, val |-> v, floor |-> floor[k]]]

\* The call at the head of the wire returns.
Return(i, c) ==
  /\ wire' = [wire EXCEPT ![i] = Tail(@)]
  /\ call' = [call EXCEPT ![c] = Idle]

\* The call returns one of the copies es of k (at most one), or nothing.
Serve(k, es, low) ==
  answer' = IF es = {} THEN NoAnswer
            ELSE LET e == CHOOSE e \in es : TRUE
                 IN  [key |-> k, val |-> e.val, exp |-> e.exp, at |-> now, floor |-> low]

Silent == answer' = NoAnswer

\* Values of k below v are no longer current.
Outdate(k, v) ==
  /\ floor' = [floor EXCEPT ![k] = IF v > @ /\ k \notin strayed THEN v ELSE @]
  /\ UNCHANGED strayed

\* From now on nothing is expected of what is read under these keys.
Stray(ks) ==
  /\ strayed' = strayed \cup ks
  /\ floor' = [k \in Keys |-> IF k \in ks THEN 0 ELSE floor[k]]

Alive(k) == {e \in redis[k] : e.exp > now}

(***************************************************************************)
(* The life of a client.                                                    *)
(***************************************************************************)
Init ==
  /\ now = 0
  /\ written = 0
  /\ client = 0
  /\ status = [i \in Clients |-> "unborn"]
  /\ tries = [i \in Clients |-> 0]
  /\ wire = [i \in Clients |-> <<>>]
  /\ call = [c \in Callers |-> Idle]
  /\ redis = [k \in Keys |-> {}]
  /\ memory = <<>>
  /\ answer = NoAnswer
  /\ floor = [k \in Keys |-> 0]
  /\ strayed = {}

\* initializeCache: a new client takes the place of the old one, which is not
\* closed and still answers the calls that wait for it.
InitializeCache ==
  /\ client < MaxClients
  /\ client' = client + 1
  /\ status' = [status EXCEPT ![client + 1] = "connecting"]
  /\ Stray({call[c].key : c \in {d \in Callers : call[d] # Idle /\ call[d].do # "get"}})
  /\ Silent
  /\ UNCHANGED <<now, written, tries, wire, call, stores>>

ConnectionReady(i) ==
  /\ status[i] = "connecting"
  /\ status' = [status EXCEPT ![i] = "ready"]
  /\ tries' = [tries EXCEPT ![i] = 0]
  /\ Silent
  /\ UNCHANGED <<now, written, client, wire, call, stores, history>>

\* retryStrategy: after RetryLimit attempts the client ends.
Retry(i) ==
  IF tries[i] < RetryLimit
  THEN /\ status' = [status EXCEPT ![i] = "reconnecting"]
       /\ tries' = [tries EXCEPT ![i] = @ + 1]
  ELSE /\ status' = [status EXCEPT ![i] = "end"]
       /\ UNCHANGED tries

ConnectionLost(i) ==
  /\ status[i] \in {"connecting", "ready"}
  /\ Retry(i)
  /\ Silent
  /\ UNCHANGED <<now, written, client, wire, call, stores, history>>

Reconnect(i) ==
  /\ status[i] = "reconnecting"
  /\ status' = [status EXCEPT ![i] = "connecting"]
  /\ Silent
  /\ UNCHANGED <<now, written, client, tries, wire, call, stores, history>>

(***************************************************************************)
(* The calls, up to their first await.                                      *)
(***************************************************************************)
\* setCachedSearch, setRedisCache (setCachedScrape is setRedisCache).
Set(c, k) ==
  LET v == written + 1 IN
  /\ call[c] = Idle
  /\ written < MaxWrites
  /\ written' = v
  /\ \/ /\ MaySet(k)
        /\ Send(c, "set", k, v)
        /\ UNCHANGED <<memory, history>>
     \/ /\ ~MaySet(k)
        /\ memory' = StoredIn(memory, EntryOf(k, v))
        /\ Stray({k})
        /\ UNCHANGED <<wire, call>>
  /\ Silent
  /\ UNCHANGED <<now, link, redis>>

\* getCachedSearch: the Map is consulted only while Redis is not ready.
GetSearch(c, k) ==
  /\ call[c] = Idle
  /\ \/ /\ Ready
        /\ Send(c, "get", k, 0)
        /\ UNCHANGED memory /\ Silent
     \/ /\ ~Ready
        /\ memory' = AfterLook(memory, k)
        /\ Serve(k, Found(memory, k), floor[k])
        /\ UNCHANGED <<wire, call>>
  /\ UNCHANGED <<now, written, link, redis, history>>

\* getRedisCache (and getCachedScrape): the Map comes first.
GetResult(c, k) ==
  /\ call[c] = Idle
  /\ memory' = AfterLook(memory, k)
  /\ \/ /\ Found(memory, k) = {} /\ Ready
        /\ Send(c, "get", k, 0)
        /\ Silent
     \/ /\ Found(memory, k) # {} \/ ~Ready
        /\ Serve(k, Found(memory, k), floor[k])
        /\ UNCHANGED <<wire, call>>
  /\ UNCHANGED <<now, written, link, redis, history>>

\* invalidateCache, deleteRedisCache (and invalidateScrapeCache).
Delete(c, k) ==
  /\ call[c] = Idle
  /\ \/ /\ Ready
        /\ Send(c, "del", k, 0)
        /\ UNCHANGED <<memory, history>>
     \/ /\ ~Ready
        /\ memory' = Without(memory, k)
        /\ Stray({k})
        /\ UNCHANGED <<wire, call>>
  /\ Silent
  /\ UNCHANGED <<now, written, link, redis>>

(***************************************************************************)
(* The calls, after their await.                                            *)
(***************************************************************************)
\* What Redis does with a command of the call r.
Execute(r) ==
  redis' = CASE r.do = "set" -> [redis EXCEPT ![r.key] =
                                   {[val |-> r.val, exp |-> now + Ttl[r.key]]}]
             [] r.do = "del" -> [redis EXCEPT ![r.key] = {}]
             [] r.do = "get" -> redis

\* Seeded fault: the copy Redis answers with is kept in the Map as well.
RedisAnswersAndKeeps(i) ==
  /\ status[i] = "ready"
  /\ wire[i] # <<>>
  /\ LET c == Head(wire[i])
         r == call[c]
     IN  /\ Execute(r)
         /\ Return(i, c)
         /\ \/ r.do = "set" /\ Outdate(r.key, r.val) /\ UNCHANGED memory /\ Silent
            \/ /\ r.do = "del"
               /\ memory' = IF r.key \in ResultKeys THEN Without(memory, r.key) ELSE memory
               /\ Outdate(r.key, IF redis[r.key] = {} THEN 0
                                 ELSE (CHOOSE e \in redis[r.key] : TRUE).val + 1)
               /\ Silent
            \/ /\ r.do = "get"
               /\ \/ \E e \in Alive(r.key) :
                       memory' = IF r.key \in ResultKeys
                                 THEN StoredIn(memory, EntryOf(r.key, e.val)) ELSE memory
                  \/ Alive(r.key) = {} /\ UNCHANGED memory
               /\ Serve(r.key, Alive(r.key), r.floor)
               /\ UNCHANGED history
  /\ UNCHANGED <<now, written, link>>

\* Redis answers the oldest command of client i and its call returns.
\* deleteRedisCache then deletes from the Map as well; invalidateCache does not.
RedisAnswers(i) ==
  /\ status[i] = "ready"
  /\ wire[i] # <<>>
  /\ LET c == Head(wire[i])
         r == call[c]
     IN  /\ Execute(r)
         /\ Return(i, c)
         /\ \/ r.do = "set" /\ Outdate(r.key, r.val) /\ UNCHANGED memory /\ Silent
            \/ /\ r.do = "del"
               /\ memory' = IF r.key \in ResultKeys THEN Without(memory, r.key) ELSE memory
               /\ Outdate(r.key, IF redis[r.key] = {} THEN 0
                                 ELSE (CHOOSE e \in redis[r.key] : TRUE).val + 1)
               /\ Silent
            \/ /\ r.do = "get"
               /\ Serve(r.key, Alive(r.key), r.floor)
               /\ UNCHANGED <<memory, history>>
  /\ UNCHANGED <<now, written, link>>

\* Redis executes the command and the connection breaks before the answer.
AnswerLost(i) ==
  /\ status[i] = "ready"
  /\ wire[i] # <<>>
  /\ Execute(call[Head(wire[i])])
  /\ Retry(i)
  /\ Silent
  /\ UNCHANGED <<now, written, client, wire, call, memory, history>>

\* The client gives the oldest command up: the catch clause of its call.
\* getRedisCache has already looked into the Map and returns null.
CommandFails(i) ==
  /\ status[i] \in {"reconnecting", "end"}
  /\ wire[i] # <<>>
  /\ LET c == Head(wire[i])
         r == call[c]
     IN  /\ Return(i, c)
         /\ \/ /\ r.do = "set"
               /\ memory' = StoredIn(memory, EntryOf(r.key, r.val))
               /\ Stray({r.key})
               /\ Silent
            \/ /\ r.do = "del"
               /\ memory' = Without(memory, r.key)
               /\ Stray({r.key})
               /\ Silent
            \/ /\ r.do = "get"
               /\ memory' = IF r.key \in SearchKeys THEN AfterLook(memory, r.key) ELSE memory
               /\ Serve(r.key,
                        IF r.key \in SearchKeys THEN Found(memory, r.key) ELSE {}, r.floor)
               /\ UNCHANGED history
  /\ UNCHANGED <<now, written, link, redis>>

Tick ==
  /\ now < MaxTime
  /\ now' = now + 1
  /\ Silent
  /\ UNCHANGED <<written, link, wire, call, stores, history>>

Next ==
  \/ InitializeCache
  \/ \E i \in Clients : \/ ConnectionReady(i) \/ ConnectionLost(i) \/ Reconnect(i)
                        \/ RedisAnswers(i) \/ AnswerLost(i) \/ CommandFails(i)
  \/ \E c \in Callers : \/ \E k \in Keys : Set(c, k) \/ Delete(c, k)
                        \/ \E k \in SearchKeys : GetSearch(c, k)
                        \/ \E k \in ResultKeys : GetResult(c, k)
  \/ Tick

Spec == Init /\ [][Next]_vars

(***************************************************************************)
(* Properties.                                                              *)
(***************************************************************************)
\* Every variable has its type.
TypeOK ==
  /\ now \in Nat /\ written \in Nat
  /\ client \in {0} \cup Clients
  /\ status \in [Clients -> {"unborn", "connecting", "ready", "reconnecting", "end"}]
  /\ tries \in [Clients -> Nat]
  /\ wire \in [Clients -> Seq(Callers)]
  /\ call \in [Callers -> Call \cup {Idle}]
  /\ redis \in [Keys -> SUBSET Copy]
  /\ memory \in Seq(Entry)
  /\ answer \in Hit \cup {NoAnswer}
  /\ floor \in [Keys -> Nat]
  /\ strayed \subseteq Keys

\* A read that began after a value was stored, or a key deleted, does not return
\* an older value, however the calls overlap and the connection breaks: unless
\* some call of that key fell back to the Map, or waited for a client that
\* initializeCache had replaced.  (getRedisCache, which looks into the Map first,
\* and the functions that write only to Redis are out of step after that.)
ReadsAreCurrent ==
  (answer # NoAnswer /\ answer.key \notin strayed) => answer.val >= answer.floor

\* The two stores, the connection and the overlapping calls implement the cache
\* that never serves a copy after its time.
CopiesOf(k) ==
  redis[k] \cup {[val |-> e.val, exp |-> e.exp] : e \in {x \in Range(memory) : x.key = k}}

Served ==
  IF answer = NoAnswer THEN NoAnswer
  ELSE [key |-> answer.key, val |-> answer.val, exp |-> answer.exp, at |-> answer.at]

Promise == INSTANCE BestEffortCache
  WITH copies <- [k \in Keys |-> CopiesOf(k)], answer <- Served

ImplementsPromise == Promise!BSpec

=============================================================================
