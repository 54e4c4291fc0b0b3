-------------------------- MODULE LightServ_proofs --------------------------
(***************************************************************************)
(* Theorems about the two parts of LightServ between a request and its     *)
(* page: the cache (ResultCache) and the scrape queue (ScrapeQueue), for   *)
(* any keys, callers, clients, messages and times. The modules share no    *)
(* variable; the names of the queue begin with a Q where both have one.    *)
(*                                                                         *)
(* Cache. The order of values on the wire (Order) carries ReadsAreCurrent: *)
(* the sets of a key that has not strayed wait on one wire, in the order of*)
(* their values, and are newer than what Redis has; the one at the head may*)
(* have been executed already. The refinement of BestEffortCache needs the *)
(* types and Wired.                                                        *)
(*                                                                         *)
(* Queue. A handler is at work exactly on the messages that are held       *)
(* (Handled), what is finished has its result (Stored), and what is stored *)
(* under the id of a job was asked for in its millisecond (Dated).         *)
(***************************************************************************)
EXTENDS ResultCache, ScrapeQueue, SequenceTheorems, TLAPS

(***************************************************************************)
(* The cache: what is on the wire, in Redis and in the Map.                *)
(***************************************************************************)
\* Who waits on a wire has a call under way, and waits there only once.
Wired ==
  \A i \in Clients : \A m \in 1..Len(wire[i]) :
    /\ call[wire[i][m]] # Idle
    /\ \A j \in Clients : \A n \in 1..Len(wire[j]) : wire[i][m] = wire[j][n] => i = j /\ m = n

\* What is left of the Map without a key was in it.
LEMMA WithoutKeeps ==
  ASSUME NEW m \in Seq(Entry), NEW k
  PROVE  Without(m, k) \in Seq(Entry) /\ Range(Without(m, k)) \subseteq Range(m)
<1>1. CASE ~\E i \in DOMAIN m : m[i].key = k
  BY <1>1 DEF Without
<1>2. CASE \E i \in DOMAIN m : m[i].key = k
  <2> DEFINE j == CHOOSE i \in DOMAIN m : m[i].key = k
  <2>1. j \in 1..Len(m)
    BY <1>2
  <2> HIDE DEF j
  <2>2. Without(m, k) = SubSeq(m, 1, j - 1) \o SubSeq(m, j + 1, Len(m))
    BY <1>2 DEF Without, RemoveAt, j
  <2> DEFINE a == SubSeq(m, 1, j - 1)
  <2> DEFINE b == SubSeq(m, j + 1, Len(m))
  <2>3. a \in Seq(Entry) /\ Len(a) = j - 1 /\ \A n \in 1..(j - 1) : a[n] = m[n]
    BY <2>1
  <2>4. b \in Seq(Entry) /\ Len(b) = Len(m) - j /\ \A n \in 1..(Len(m) - j) : b[n] = m[j + n]
    BY <2>1
  <2> HIDE DEF a, b
  <2>5. /\ Without(m, k) \in Seq(Entry) /\ Len(Without(m, k)) = Len(m) - 1
        /\ \A n \in 1..(Len(m) - 1) : Without(m, k)[n] = IF n < j THEN m[n] ELSE m[n + 1]
    <3>1. Len(m) \in Nat /\ Without(m, k) = a \o b
      BY <2>2 DEF a, b
    <3>2. Without(m, k) \in Seq(Entry) /\ Len(Without(m, k)) = Len(a) + Len(b)
      BY <2>3, <2>4, <3>1, ConcatProperties
    <3>3. Len(a) + Len(b) = Len(m) - 1
      BY <2>1, <2>3, <2>4, <3>1
    <3>4. \A n \in 1..(Len(a) + Len(b)) :
            Without(m, k)[n] = IF n <= Len(a) THEN a[n] ELSE b[n - Len(a)]
      BY <2>3, <2>4, <3>1, ConcatProperties
    <3>5. ASSUME NEW n \in 1..(Len(m) - 1)
          PROVE  Without(m, k)[n] = IF n < j THEN m[n] ELSE m[n + 1]
      <4>1. CASE n < j
        BY <2>1, <2>3, <3>1, <3>3, <3>4, <4>1
      <4>2. CASE ~(n < j)
        <5>1. n - Len(a) \in 1..(Len(m) - j) /\ j + (n - Len(a)) = n + 1 /\ ~(n <= Len(a))
          BY <2>1, <2>3, <3>1, <4>2
        <5>2. QED
          BY <2>4, <3>3, <3>4, <4>2, <5>1
      <4>3. QED
        BY <4>1, <4>2
    <3>6. QED
      BY <3>2, <3>3, <3>5
  <2>6. QED
    <3> SUFFICES ASSUME NEW n \in DOMAIN Without(m, k) PROVE Without(m, k)[n] \in Range(m)
      BY <2>5 DEF Range
    <3>1. n \in 1..(Len(m) - 1)
      BY <2>5
    <3>2. n \in DOMAIN m /\ n + 1 \in DOMAIN m
      BY <3>1
    <3>3. QED
      BY <2>5, <3>1, <3>2 DEF Range
<1>3. QED
  BY <1>1, <1>2

\* Storing an entry adds nothing but that entry, whatever it evicts.
LEMMA StoredInKeeps ==
  ASSUME NEW m \in Seq(Entry), NEW e \in Entry
  PROVE  StoredIn(m, e) \in Seq(Entry) /\ Range(StoredIn(m, e)) \subseteq Range(m) \cup {e}
<1> DEFINE rest == Without(m, e.key)
<1> DEFINE last == IF Len(rest) < MemMax THEN rest
                   ELSE SubSeq(rest, Len(rest) - MemMax + 2, Len(rest))
<1>1. rest \in Seq(Entry) /\ Range(rest) \subseteq Range(m)
  BY WithoutKeeps
<1> HIDE DEF rest
<1>2. last \in Seq(Entry) /\ Range(last) \subseteq Range(rest)
  <2>1. CASE Len(rest) < MemMax
    BY <1>1, <2>1
  <2>2. CASE ~(Len(rest) < MemMax)
    <3> DEFINE a == Len(rest) - MemMax + 2
    <3>1. a \in Int /\ a >= 1 /\ Len(rest) \in Nat
      BY <1>1, <2>2, CacheAssumption
    <3>2. last = SubSeq(rest, a, Len(rest))
      BY <2>2
    <3> HIDE DEF a, last
    <3>3. last \in Seq(Entry)
      BY <1>1, <3>1, <3>2
    <3>4. \A n \in 1..Len(last) : a + n - 1 \in 1..Len(rest) /\ last[n] = rest[a + n - 1]
      BY <1>1, <3>1, <3>2
    <3>5. QED
      <4> SUFFICES ASSUME NEW n \in DOMAIN last PROVE last[n] \in Range(rest)
        BY <3>3 DEF Range
      <4>1. n \in 1..Len(last)
        BY <3>3
      <4>2. QED
        BY <1>1, <3>4, <4>1 DEF Range
  <2>3. QED
    BY <2>1, <2>2
<1>3. StoredIn(m, e) = Append(last, e)
  BY DEF StoredIn, rest
<1> HIDE DEF last
<1>4. Append(last, e) \in Seq(Entry) /\ Range(Append(last, e)) \subseteq Range(last) \cup {e}
  BY <1>2 DEF Range
<1>5. QED
  BY <1>1, <1>2, <1>3, <1>4

\* A look adds nothing.
LEMMA AfterLookKeeps ==
  ASSUME NEW m \in Seq(Entry), NEW k
  PROVE  AfterLook(m, k) \in Seq(Entry) /\ Range(AfterLook(m, k)) \subseteq Range(m)
  BY WithoutKeeps DEF AfterLook

\* What the invariant asks of a set that waits on a wire, and of what is kept and read:
\* the keys of the Map have strayed, and those of the calls that wait for an old client.
MemoryStrays == \A e \in Range(memory) : e.key \in strayed

\* What waits for a client that was replaced only reads, or its key has strayed.
Replaced ==
  \A i \in Clients : i # client => \A n \in 1..Len(wire[i]) :
    call[wire[i][n]].do = "get" \/ call[wire[i][n]].key \in strayed

\* The new client has sent nothing yet.
NotYet == \A i \in Clients : i > client => wire[i] = <<>>

\* The sets of a key that has not strayed are sent in the order of their values.
InOrder ==
  \A i \in Clients : \A m, n \in 1..Len(wire[i]) :
    /\ m < n /\ call[wire[i][m]].do = "set" /\ call[wire[i][n]].do = "set"
    /\ call[wire[i][m]].key = call[wire[i][n]].key /\ call[wire[i][m]].key \notin strayed
    => call[wire[i][m]].val < call[wire[i][n]].val

\* They are newer than what Redis has; the oldest may have been executed.
Ahead ==
  \A i \in Clients : \A n \in 1..Len(wire[i]) :
    call[wire[i][n]].do = "set" /\ call[wire[i][n]].key \notin strayed =>
      /\ floor[call[wire[i][n]].key] <= call[wire[i][n]].val /\ call[wire[i][n]].val <= written
      /\ \A e \in redis[call[wire[i][n]].key] :
           e.val <= call[wire[i][n]].val /\ (n > 1 => e.val < call[wire[i][n]].val)

\* Redis has one copy at most, and not an outdated one.
Kept ==
  \A k \in Keys :
    /\ \A e, f \in redis[k] : e = f
    /\ k \notin strayed => /\ floor[k] <= written + 1
                           /\ \A e \in redis[k] : floor[k] <= e.val /\ e.val <= written

\* A read that waits expects no more than what is known to be outdated by now.
Reads ==
  \A c \in Callers : call[c] # Idle /\ call[c].do = "get" /\ call[c].key \notin strayed =>
    call[c].floor <= floor[call[c].key]

\* The order of values on the wire, in Redis and in what is read.
Order == MemoryStrays /\ Replaced /\ NotYet /\ InOrder /\ Ahead /\ Kept /\ Reads

\* A call under way has its type.
LEMMA NotIdle == ASSUME TypeOK, NEW c \in Callers, call[c] # Idle PROVE call[c] \in Call
  BY DEF TypeOK

\* The caller at the head of a wire.
LEMMA AtHead ==
  ASSUME TypeOK, NEW i \in Clients, wire[i] # <<>>
  PROVE  /\ 1 \in 1..Len(wire[i]) /\ Head(wire[i]) = wire[i][1] /\ wire[i][1] \in Callers
         /\ Tail(wire[i]) \in Seq(Callers) /\ Len(Tail(wire[i])) = Len(wire[i]) - 1
         /\ \A n \in 1..Len(Tail(wire[i])) :
              n + 1 \in 1..Len(wire[i]) /\ Tail(wire[i])[n] = wire[i][n + 1]
<1>1. wire[i] \in Seq(Callers) /\ Len(wire[i]) \in Nat /\ Len(wire[i]) # 0
  BY DEF TypeOK
<1> DEFINE w == wire[i]
<1>2. w \in Seq(Callers) /\ Len(w) \in Nat /\ Len(w) # 0 /\ w # <<>>
  BY <1>1
<1> HIDE DEF w
<1>3. /\ Tail(w) \in Seq(Callers) /\ Len(Tail(w)) = Len(w) - 1
      /\ \A n \in 1..Len(Tail(w)) : Tail(w)[n] = w[n + 1]
  BY <1>2, HeadTailProperties
<1>4. 1 \in 1..Len(w) /\ Head(w) = w[1] /\ w[1] \in Callers
  BY <1>2
<1>5. \A n \in 1..Len(Tail(w)) : n + 1 \in 1..Len(w)
  BY <1>2, <1>3
<1>6. QED
  BY <1>3, <1>4, <1>5 DEF w

\* What is sent goes to the end of the wire.
LEMMA SendAppends ==
  ASSUME TypeOK, NEW c \in Callers, NEW k \in Keys, NEW do \in {"get", "set", "del"}, NEW v \in Nat,
         client # 0, Send(c, do, k, v)
  PROVE  /\ client \in Clients
         /\ [do |-> do, key |-> k, val |-> v, floor |-> floor[k]] \in Call
         /\ call' \in [Callers -> Call \cup {Idle}]
         /\ call'[c] = [do |-> do, key |-> k, val |-> v, floor |-> floor[k]]
         /\ \A d \in Callers : d # c => call'[d] = call[d]
         /\ wire' \in [Clients -> Seq(Callers)]
         /\ Len(wire'[client]) = Len(wire[client]) + 1
         /\ wire'[client][Len(wire[client]) + 1] = c
         /\ \A n \in 1..Len(wire[client]) : wire'[client][n] = wire[client][n]
         /\ \A i \in Clients : i # client => wire'[i] = wire[i]
<1> DEFINE r == [do |-> do, key |-> k, val |-> v, floor |-> floor[k]]
<1>1. client \in Clients /\ r \in Call
  BY DEF TypeOK, Call
<1>2. call' = [call EXCEPT ![c] = r] /\ wire' = [wire EXCEPT ![client] = Append(@, c)]
  BY DEF Send
<1> HIDE DEF r
<1>3. /\ call' \in [Callers -> Call \cup {Idle}] /\ call'[c] = r
      /\ \A d \in Callers : d # c => call'[d] = call[d]
  BY <1>1, <1>2 DEF TypeOK
<1> DEFINE w == wire[client]
<1>4. w \in Seq(Callers) /\ Len(w) \in Nat
  BY <1>1 DEF TypeOK
<1>5. wire'[client] = Append(w, c) /\ \A i \in Clients : i # client => wire'[i] = wire[i]
  BY <1>1, <1>2 DEF TypeOK
<1> HIDE DEF w
<1>6. /\ Append(w, c) \in Seq(Callers) /\ Len(Append(w, c)) = Len(w) + 1
      /\ Append(w, c)[Len(w) + 1] = c /\ \A n \in 1..Len(w) : Append(w, c)[n] = w[n]
  BY <1>4
<1>7. wire' \in [Clients -> Seq(Callers)]
  BY <1>1, <1>2, <1>5, <1>6 DEF TypeOK, w
<1>8. QED
  BY <1>1, <1>3, <1>5, <1>6, <1>7 DEF r, w

\* What returns leaves the head of its wire.
LEMMA ReturnShifts ==
  ASSUME TypeOK, NEW i \in Clients, wire[i] # <<>>, Return(i, wire[i][1])
  PROVE  /\ wire[i][1] \in Callers
         /\ call' \in [Callers -> Call \cup {Idle}] /\ call'[wire[i][1]] = Idle
         /\ \A d \in Callers : d # wire[i][1] => call'[d] = call[d]
         /\ wire' \in [Clients -> Seq(Callers)]
         /\ \A j \in Clients : j # i => wire'[j] = wire[j]
         /\ \A n \in 1..Len(wire'[i]) : n + 1 \in 1..Len(wire[i]) /\ wire'[i][n] = wire[i][n + 1]
<1>1. call' = [call EXCEPT ![wire[i][1]] = Idle] /\ wire' = [wire EXCEPT ![i] = Tail(@)]
  BY DEF Return
<1>2. wire[i][1] \in Callers /\ Tail(wire[i]) \in Seq(Callers)
  BY AtHead
<1>3. /\ call' \in [Callers -> Call \cup {Idle}] /\ call'[wire[i][1]] = Idle
      /\ \A d \in Callers : d # wire[i][1] => call'[d] = call[d]
  BY <1>1, <1>2 DEF TypeOK
<1>4. /\ wire' \in [Clients -> Seq(Callers)] /\ wire'[i] = Tail(wire[i])
      /\ \A j \in Clients : j # i => wire'[j] = wire[j]
  BY <1>1, <1>2 DEF TypeOK
<1>5. QED
  BY <1>2, <1>3, <1>4, AtHead

\* An entry of the Map has its type.
LEMMA EntryTyped == ASSUME TypeOK, NEW k \in Keys, NEW v \in Nat PROVE EntryOf(k, v) \in Entry
  BY CacheAssumption DEF TypeOK, EntryOf, Entry

\* What is served is one of the copies it was found among.
LEMMA ServedOne ==
  ASSUME NEW k, NEW es, NEW low, Serve(k, es, low)
  PROVE  \/ answer' = NoAnswer
         \/ \E e \in es :
              answer' = [key |-> k, val |-> e.val, exp |-> e.exp, at |-> now, floor |-> low]
  BY DEF Serve

\* What is found in the Map is one of its entries.
LEMMA FoundTyped ==
  ASSUME TypeOK, NEW k
  PROVE  \A e \in Found(memory, k) : e \in Entry /\ e \in Range(memory) /\ e.key = k /\ e.exp > now
<1> SUFFICES ASSUME NEW e \in Found(memory, k)
             PROVE  e \in Entry /\ e \in Range(memory) /\ e.key = k /\ e.exp > now
  OBVIOUS
<1>1. PICK n \in DOMAIN memory : e = memory[n]
  BY DEF Found, Range
<1>2. memory \in Seq(Entry)
  BY DEF TypeOK
<1>3. e \in Entry
  BY <1>1, <1>2
<1>4. QED
  BY <1>3 DEF Found

\* Keys that stray are no longer followed; the others are as they were.
LEMMA StrayTyped ==
  ASSUME TypeOK, NEW ks, ks \subseteq Keys, Stray(ks)
  PROVE  floor' \in [Keys -> Nat] /\ strayed' \subseteq Keys /\ strayed' = strayed \cup ks
         /\ \A k \in Keys \ ks : floor'[k] = floor[k]
  BY DEF TypeOK, Stray

\* Outdating a key leaves the others alone, and those that have strayed.
LEMMA OutdateTyped ==
  ASSUME TypeOK, NEW k \in Keys, NEW v \in Nat, Outdate(k, v)
  PROVE  /\ floor' \in [Keys -> Nat] /\ strayed' = strayed
         /\ \A q \in Keys : q # k \/ q \in strayed => floor'[q] = floor[q]
         /\ k \notin strayed => floor'[k] = IF v > floor[k] THEN v ELSE floor[k]
  BY DEF TypeOK, Outdate

\* A client that retries has a status.
LEMMA RetryTyped ==
  ASSUME TypeOK, NEW i \in Clients, Retry(i)
  PROVE  /\ status' \in [Clients -> {"unborn", "connecting", "ready", "reconnecting", "end"}]
         /\ tries' \in [Clients -> Nat]
<1> DEFINE Statuses == {"unborn", "connecting", "ready", "reconnecting", "end"}
<1>1. status \in [Clients -> Statuses] /\ tries \in [Clients -> Nat] /\ tries[i] + 1 \in Nat
  BY DEF TypeOK
<1>2. /\ status' = [status EXCEPT ![i] = "reconnecting"] \/ status' = [status EXCEPT ![i] = "end"]
      /\ tries' = [tries EXCEPT ![i] = tries[i] + 1] \/ tries' = tries
  BY DEF Retry
<1>3. QED
  BY <1>1, <1>2

\* Redis changes the key of the command and no other.
LEMMA ExecuteTyped ==
  ASSUME TypeOK, NEW r \in Call, Execute(r)
  PROVE  /\ redis' \in [Keys -> SUBSET Copy]
         /\ \A k \in Keys : k # r.key => redis'[k] = redis[k]
         /\ r.do = "get" => redis' = redis
         /\ r.do = "set" => redis'[r.key] = {[val |-> r.val, exp |-> now + Ttl[r.key]]}
         /\ r.do = "del" => redis'[r.key] = {}
<1>1. r.do \in {"get", "set", "del"} /\ r.key \in Keys /\ r.val \in Nat
  BY DEF Call
<1>2. now + Ttl[r.key] \in Nat
  BY <1>1, CacheAssumption DEF TypeOK
<1>3. CASE r.do = "set"
  <2> DEFINE e == [val |-> r.val, exp |-> now + Ttl[r.key]]
  <2>1. e \in Copy
    BY <1>1, <1>2 DEF Copy
  <2>2. redis' = [redis EXCEPT ![r.key] = {e}]
    BY <1>3 DEF Execute
  <2> HIDE DEF e
  <2>3. QED
    BY <1>1, <1>3, <2>1, <2>2 DEF TypeOK, e
<1>4. CASE r.do = "del"
  BY <1>1, <1>4 DEF TypeOK, Execute
<1>5. CASE r.do = "get"
  BY <1>1, <1>5 DEF TypeOK, Execute
<1>6. QED
  BY <1>1, <1>3, <1>4, <1>5

\* What is served of the copies in the Map, or in Redis, is a hit.
LEMMA HitTyped ==
  ASSUME TypeOK, NEW k \in Keys, NEW es, NEW low \in Nat, Serve(k, es, low),
         \A e \in es : e.val \in Nat /\ e.exp \in Nat
  PROVE  answer' \in Hit \cup {NoAnswer}
<1>1. now \in Nat
  BY DEF TypeOK
<1>2. QED
  BY <1>1, ServedOne DEF Hit

\* Every step keeps the types.
LEMMA TypesKept == TypeOK /\ Wired /\ [Next]_vars => TypeOK'
<1> SUFFICES ASSUME TypeOK, Wired, [Next]_vars PROVE TypeOK'
  OBVIOUS
<1> DEFINE Statuses == {"unborn", "connecting", "ready", "reconnecting", "end"}
<1>1. /\ now \in Nat /\ written \in Nat /\ client \in {0} \cup Clients
      /\ status \in [Clients -> Statuses] /\ tries \in [Clients -> Nat]
      /\ wire \in [Clients -> Seq(Callers)] /\ call \in [Callers -> Call \cup {Idle}]
      /\ redis \in [Keys -> SUBSET Copy] /\ memory \in Seq(Entry)
      /\ floor \in [Keys -> Nat] /\ strayed \subseteq Keys
  BY DEF TypeOK
<1>2. Silent => answer' \in Hit \cup {NoAnswer}
  BY DEF Silent
<1>3. \A k \in Keys, v \in Nat : EntryOf(k, v) \in Entry
  BY EntryTyped
<1>4. CASE InitializeCache
  <2> DEFINE ks == {call[c].key : c \in {d \in Callers : call[d] # Idle /\ call[d].do # "get"}}
  <2>1. ks \subseteq Keys
    BY NotIdle DEF Call
  <2>2. Stray(ks)
    BY <1>4 DEF InitializeCache
  <2> HIDE DEF ks
  <2>3. floor' \in [Keys -> Nat] /\ strayed' \subseteq Keys
    BY <2>1, <2>2, StrayTyped
  <2>4. client' \in {0} \cup Clients /\ status' \in [Clients -> Statuses]
    BY <1>1, <1>4, CacheAssumption DEF InitializeCache, Clients
  <2>5. QED
    BY <1>1, <1>2, <1>4, <2>3, <2>4 DEF InitializeCache, TypeOK, stores
<1>5. ASSUME NEW i \in Clients, ConnectionReady(i) \/ Reconnect(i) PROVE TypeOK'
  <2>1. status' \in [Clients -> Statuses] /\ tries' \in [Clients -> Nat]
    <3>1. CASE ConnectionReady(i)
      BY <1>1, <3>1 DEF ConnectionReady
    <3>2. CASE Reconnect(i)
      BY <1>1, <3>2 DEF Reconnect
    <3>3. QED
      BY <1>5, <3>1, <3>2
  <2>2. /\ Silent
        /\ UNCHANGED <<now, written, client, wire, call, redis, memory, floor, strayed>>
    BY <1>5 DEF ConnectionReady, Reconnect, stores, history
  <2>3. QED
    BY <1>1, <1>2, <2>1, <2>2 DEF TypeOK
<1>6. ASSUME NEW i \in Clients, ConnectionLost(i) PROVE TypeOK'
  <2>1. status' \in [Clients -> Statuses] /\ tries' \in [Clients -> Nat]
    BY <1>6, RetryTyped DEF ConnectionLost
  <2>2. QED
    BY <1>1, <1>2, <1>6, <2>1 DEF ConnectionLost, TypeOK, stores, history
<1>7. ASSUME NEW i \in Clients, RedisAnswers(i) PROVE TypeOK'
  <2> DEFINE c == wire[i][1]
  <2> DEFINE r == call[c]
  <2>1. c = Head(wire[i]) /\ c \in Callers /\ wire[i] # <<>>
    BY <1>7, AtHead DEF RedisAnswers
  <2>2. /\ Execute(r) /\ Return(i, c) /\ UNCHANGED <<now, written, link>>
        /\ \/ r.do = "set" /\ Outdate(r.key, r.val) /\ UNCHANGED memory /\ Silent
           \/ /\ r.do = "del"
              /\ memory' = IF r.key \in ResultKeys THEN Without(memory, r.key) ELSE memory
              /\ Outdate(r.key, IF redis[r.key] = {} THEN 0
                                ELSE (CHOOSE e \in redis[r.key] : TRUE).val + 1)
              /\ Silent
           \/ /\ r.do = "get"
              /\ Serve(r.key, Alive(r.key), r.floor)
              /\ UNCHANGED <<memory, history>>
    BY <1>7, <2>1 DEF RedisAnswers
  <2> HIDE DEF c, r
  <2>3. wire' \in [Clients -> Seq(Callers)] /\ call' \in [Callers -> Call \cup {Idle}]
    BY <2>1, <2>2, ReturnShifts DEF c
  <2>4. r \in Call
    BY <2>1, AtHead, NotIdle DEF Wired, c, r
  <2>5. r.key \in Keys /\ r.val \in Nat /\ r.floor \in Nat
    BY <2>4 DEF Call
  <2>6. redis' \in [Keys -> SUBSET Copy]
    BY <2>2, <2>4, ExecuteTyped
  <2>7. memory' \in Seq(Entry)
    BY <1>1, <2>2, WithoutKeeps
  <2>8. (IF redis[r.key] = {} THEN 0 ELSE (CHOOSE e \in redis[r.key] : TRUE).val + 1) \in Nat
    BY <1>1, <2>5 DEF Copy
  <2>9. floor' \in [Keys -> Nat] /\ strayed' \subseteq Keys
    BY <1>1, <2>2, <2>5, <2>8, OutdateTyped DEF history
  <2>10. \A e \in Alive(r.key) : e.val \in Nat /\ e.exp \in Nat
    BY <1>1, <2>5 DEF Alive, Copy
  <2>11. answer' \in Hit \cup {NoAnswer}
    BY <1>2, <2>2, <2>5, <2>10, HitTyped
  <2>12. QED
    BY <1>1, <2>2, <2>3, <2>6, <2>7, <2>9, <2>11 DEF TypeOK, link
<1>8. ASSUME NEW i \in Clients, AnswerLost(i) PROVE TypeOK'
  <2> DEFINE r == call[wire[i][1]]
  <2>1. r \in Call
    BY <1>8, AtHead, NotIdle DEF AnswerLost, Wired
  <2>2. /\ Execute(r) /\ Retry(i) /\ Silent
        /\ UNCHANGED <<now, written, client, wire, call, memory, history>>
    BY <1>8, AtHead DEF AnswerLost
  <2> HIDE DEF r
  <2>3. redis' \in [Keys -> SUBSET Copy]
    BY <2>1, <2>2, ExecuteTyped
  <2>4. status' \in [Clients -> Statuses] /\ tries' \in [Clients -> Nat]
    BY <2>2, RetryTyped
  <2>5. QED
    BY <1>1, <1>2, <2>2, <2>3, <2>4 DEF TypeOK, history
<1>9. ASSUME NEW i \in Clients, CommandFails(i) PROVE TypeOK'
  <2> DEFINE c == wire[i][1]
  <2> DEFINE r == call[c]
  <2>1. c = Head(wire[i]) /\ c \in Callers /\ wire[i] # <<>>
    BY <1>9, AtHead DEF CommandFails
  <2>2. r \in Call
    BY <2>1, AtHead, NotIdle DEF Wired, c, r
  <2>3. /\ Return(i, c) /\ UNCHANGED <<now, written, link, redis>>
        /\ \/ /\ r.do = "set"
              /\ memory' = StoredIn(memory, EntryOf(r.key, r.val))
              /\ Stray({r.key}) /\ Silent
           \/ r.do = "del" /\ memory' = Without(memory, r.key) /\ Stray({r.key}) /\ Silent
           \/ /\ r.do = "get"
              /\ memory' = IF r.key \in SearchKeys THEN AfterLook(memory, r.key) ELSE memory
              /\ Serve(r.key, IF r.key \in SearchKeys THEN Found(memory, r.key) ELSE {}, r.floor)
              /\ UNCHANGED history
    BY <1>9, <2>1 DEF CommandFails
  <2> HIDE DEF c, r
  <2>4. wire' \in [Clients -> Seq(Callers)] /\ call' \in [Callers -> Call \cup {Idle}]
    BY <2>1, <2>3, ReturnShifts DEF c
  <2>5. r.key \in Keys /\ r.val \in Nat /\ r.floor \in Nat
    BY <2>2 DEF Call
  <2>6. memory' \in Seq(Entry)
    <3>1. EntryOf(r.key, r.val) \in Entry
      BY <1>3, <2>5
    <3>2. StoredIn(memory, EntryOf(r.key, r.val)) \in Seq(Entry)
      BY <1>1, <3>1, StoredInKeeps
    <3>3. QED
      BY <1>1, <2>3, <3>2, WithoutKeeps, AfterLookKeeps
  <2>7. floor' \in [Keys -> Nat] /\ strayed' \subseteq Keys
    BY <1>1, <2>3, <2>5, StrayTyped DEF history
  <2>8. \A e \in Found(memory, r.key) : e.val \in Nat /\ e.exp \in Nat
    BY FoundTyped DEF Entry
  <2>9. answer' \in Hit \cup {NoAnswer}
    BY <1>2, <2>3, <2>5, <2>8, HitTyped
  <2>10. QED
    BY <1>1, <2>3, <2>4, <2>6, <2>7, <2>9 DEF TypeOK, link
<1>10. ASSUME NEW c \in Callers, NEW k \in Keys, NEW do \in {"get", "set", "del"}, NEW v \in Nat,
              client # 0, Send(c, do, k, v)
       PROVE  wire' \in [Clients -> Seq(Callers)] /\ call' \in [Callers -> Call \cup {Idle}]
  BY <1>10, SendAppends
<1>11. ASSUME NEW k \in Keys, Stray({k}) PROVE floor' \in [Keys -> Nat] /\ strayed' \subseteq Keys
  BY <1>11, StrayTyped
<1>12. Ready \/ (\E k : MaySet(k)) => client # 0
  BY DEF Ready, MaySet
<1>13. ASSUME NEW c \in Callers, NEW k \in Keys, Set(c, k) PROVE TypeOK'
  <2>1. written + 1 \in Nat
    BY <1>1
  <2>2. CASE MaySet(k)
    <3>1. Send(c, "set", k, written + 1) /\ UNCHANGED <<memory, history>>
      BY <1>13, <2>2 DEF Set
    <3>2. wire' \in [Clients -> Seq(Callers)] /\ call' \in [Callers -> Call \cup {Idle}]
      BY <1>10, <1>12, <2>1, <2>2, <3>1
    <3>3. QED
      BY <1>1, <1>2, <1>13, <2>1, <3>1, <3>2 DEF Set, TypeOK, link, history
  <2>3. CASE ~MaySet(k)
    <3>1. /\ memory' = StoredIn(memory, EntryOf(k, written + 1)) /\ Stray({k})
          /\ UNCHANGED <<wire, call>>
      BY <1>13, <2>3 DEF Set
    <3>2. memory' \in Seq(Entry)
      BY <1>1, <1>3, <2>1, <3>1, StoredInKeeps
    <3>3. QED
      BY <1>1, <1>2, <1>11, <1>13, <2>1, <3>1, <3>2 DEF Set, TypeOK, link
  <2>4. QED
    BY <2>2, <2>3
<1>14. ASSUME NEW c \in Callers, NEW k \in Keys, Delete(c, k) PROVE TypeOK'
  <2>1. CASE Ready
    <3>1. Send(c, "del", k, 0) /\ UNCHANGED <<memory, history>>
      BY <1>14, <2>1 DEF Delete
    <3>2. wire' \in [Clients -> Seq(Callers)] /\ call' \in [Callers -> Call \cup {Idle}]
      BY <1>10, <1>12, <2>1, <3>1
    <3>3. QED
      BY <1>1, <1>2, <1>14, <3>1, <3>2 DEF Delete, TypeOK, link, history
  <2>2. CASE ~Ready
    <3>1. memory' = Without(memory, k) /\ Stray({k}) /\ UNCHANGED <<wire, call>>
      BY <1>14, <2>2 DEF Delete
    <3>2. memory' \in Seq(Entry)
      BY <1>1, <3>1, WithoutKeeps
    <3>3. QED
      BY <1>1, <1>2, <1>11, <1>14, <3>1, <3>2 DEF Delete, TypeOK, link
  <2>3. QED
    BY <2>1, <2>2
<1>15. ASSUME NEW c \in Callers, NEW k \in Keys, GetSearch(c, k) \/ GetResult(c, k) PROVE TypeOK'
  <2>1. \A e \in Found(memory, k) : e.val \in Nat /\ e.exp \in Nat
    BY FoundTyped DEF Entry
  <2>2. Serve(k, Found(memory, k), floor[k]) => answer' \in Hit \cup {NoAnswer}
    BY <1>1, <2>1, HitTyped
  <2>3. answer' \in Hit \cup {NoAnswer}
    BY <1>2, <1>15, <2>2 DEF GetSearch, GetResult
  <2>4. memory' \in Seq(Entry)
    BY <1>1, <1>15, AfterLookKeeps DEF GetSearch, GetResult
  <2>5. wire' \in [Clients -> Seq(Callers)] /\ call' \in [Callers -> Call \cup {Idle}]
    <3>1. \/ client # 0 /\ Send(c, "get", k, 0)
          \/ UNCHANGED <<wire, call>>
      BY <1>12, <1>15 DEF GetSearch, GetResult
    <3>2. QED
      BY <1>1, <1>10, <3>1
  <2>6. QED
    BY <1>1, <1>15, <2>3, <2>4, <2>5 DEF GetSearch, GetResult, TypeOK, link, history
<1>16. CASE Tick
  BY <1>1, <1>2, <1>16 DEF Tick, TypeOK, link, stores, history
<1>17. CASE UNCHANGED vars
  BY <1>17 DEF vars, TypeOK, link, stores, history
<1>18. QED
  BY <1>4, <1>5, <1>6, <1>7, <1>8, <1>9, <1>13, <1>14, <1>15, <1>16, <1>17 DEF Next, Keys

\* Where wires and calls are left alone, or only get shorter or longer by one.
LEMMA SendWired ==
  ASSUME TypeOK, Wired, NEW c \in Callers, call[c] = Idle,
         NEW k \in Keys, NEW do \in {"get", "set", "del"}, NEW v \in Nat,
         client # 0, Send(c, do, k, v)
  PROVE  Wired'
<1> DEFINE r == [do |-> do, key |-> k, val |-> v, floor |-> floor[k]]
<1>1. /\ client \in Clients /\ r \in Call
      /\ call'[c] = r /\ \A d \in Callers : d # c => call'[d] = call[d]
      /\ wire' \in [Clients -> Seq(Callers)]
      /\ Len(wire'[client]) = Len(wire[client]) + 1
      /\ wire'[client][Len(wire[client]) + 1] = c
      /\ \A n \in 1..Len(wire[client]) : wire'[client][n] = wire[client][n]
      /\ \A i \in Clients : i # client => wire'[i] = wire[i]
  BY SendAppends
<1>2. r # Idle
  BY <1>1, NoAnswerIsNothing DEF Idle
<1> HIDE DEF r
<1>3. \A i \in Clients : Len(wire[i]) \in Nat /\ \A n \in 1..Len(wire[i]) : wire[i][n] \in Callers
  BY DEF TypeOK
<1>4. \A i \in Clients : \A n \in 1..Len(wire[i]) : wire[i][n] # c /\ call'[wire[i][n]] # Idle
  BY <1>1, <1>3 DEF Wired
<1>5. ASSUME NEW i \in Clients, NEW n \in 1..Len(wire'[i])
      PROVE  \/ n \in 1..Len(wire[i]) /\ wire'[i][n] = wire[i][n]
             \/ i = client /\ n = Len(wire[client]) + 1 /\ wire'[i][n] = c
  BY <1>1, <1>3
<1>6. QED
  BY <1>1, <1>2, <1>4, <1>5 DEF Wired

\* When a call returns, those behind it move up.
LEMMA ReturnWired ==
  ASSUME TypeOK, Wired, NEW i \in Clients, wire[i] # <<>>, Return(i, wire[i][1])
  PROVE  Wired'
<1> DEFINE c == wire[i][1]
<1>1. /\ \A d \in Callers : d # c => call'[d] = call[d]
      /\ wire' \in [Clients -> Seq(Callers)]
      /\ \A j \in Clients : j # i => wire'[j] = wire[j]
      /\ \A n \in 1..Len(wire'[i]) : n + 1 \in 1..Len(wire[i]) /\ wire'[i][n] = wire[i][n + 1]
  BY ReturnShifts
<1>2. 1 \in 1..Len(wire[i])
  BY AtHead
<1>3. \A j \in Clients : Len(wire[j]) \in Nat /\ \A n \in 1..Len(wire[j]) : wire[j][n] \in Callers
  BY DEF TypeOK
<1> DEFINE was(j, n) == IF j = i THEN n + 1 ELSE n
<1>4. ASSUME NEW j \in Clients, NEW n \in 1..Len(wire'[j])
      PROVE  was(j, n) \in 1..Len(wire[j]) /\ wire'[j][n] = wire[j][was(j, n)]
  BY <1>1
<1>5. ASSUME NEW j \in Clients, NEW n \in 1..Len(wire'[j])
      PROVE  wire'[j][n] # c /\ call'[wire'[j][n]] # Idle
  <2>1. was(j, n) = 1 => j # i
    BY <1>1
  <2>2. wire'[j][n] # c
    BY <1>2, <1>4, <1>5, <2>1 DEF Wired
  <2>3. wire'[j][n] \in Callers /\ call[wire'[j][n]] # Idle
    BY <1>3, <1>4, <1>5 DEF Wired
  <2>4. QED
    BY <1>1, <2>2, <2>3
<1>6. ASSUME NEW j \in Clients, NEW n \in 1..Len(wire'[j]),
             NEW l \in Clients, NEW m \in 1..Len(wire'[l]), wire'[j][n] = wire'[l][m]
      PROVE  j = l /\ n = m
  <2>1. j = l /\ was(j, n) = was(l, m)
    <3>1. was(j, n) \in 1..Len(wire[j]) /\ wire'[j][n] = wire[j][was(j, n)]
      BY <1>4
    <3>2. was(l, m) \in 1..Len(wire[l]) /\ wire'[l][m] = wire[l][was(l, m)]
      BY <1>4
    <3>3. ASSUME NEW a \in 1..Len(wire[j]), NEW b \in 1..Len(wire[l]), wire[j][a] = wire[l][b]
          PROVE  j = l /\ a = b
      BY <3>3 DEF Wired
    <3> HIDE DEF was
    <3>4. QED
      BY <1>6, <3>1, <3>2, <3>3
  <2>2. n \in Int /\ m \in Int
    OBVIOUS
  <2>3. QED
    BY <2>1, <2>2
<1>7. QED
  BY <1>5, <1>6 DEF Wired

\* Every step keeps the wires in order.
LEMMA WiredKept == TypeOK /\ Wired /\ [Next]_vars => Wired'
<1> SUFFICES ASSUME TypeOK, Wired, [Next]_vars PROVE Wired'
  OBVIOUS
<1>1. UNCHANGED <<wire, call>> => Wired'
  BY DEF Wired
<1>2. Ready \/ (\E k : MaySet(k)) => client # 0
  BY DEF Ready, MaySet
<1>3. ASSUME NEW i \in Clients, RedisAnswers(i) \/ CommandFails(i) PROVE Wired'
  <2>1. wire[i] # <<>> /\ Return(i, wire[i][1])
    BY <1>3, AtHead DEF RedisAnswers, CommandFails
  <2>2. QED
    BY <2>1, ReturnWired
<1>4. ASSUME NEW c \in Callers, NEW k \in Keys,
             Set(c, k) \/ Delete(c, k) \/ GetSearch(c, k) \/ GetResult(c, k)
      PROVE  Wired'
  <2>1. written + 1 \in Nat /\ 0 \in Nat
    BY DEF TypeOK
  <2>2. \/ UNCHANGED <<wire, call>>
        \/ /\ call[c] = Idle /\ client # 0
           /\ \E do \in {"get", "set", "del"} : \E v \in Nat : Send(c, do, k, v)
    BY <1>2, <1>4, <2>1 DEF Set, Delete, GetSearch, GetResult
  <2>3. QED
    BY <1>1, <2>2, SendWired
<1>5. CASE InitializeCache \/ Tick \/ UNCHANGED vars
  BY <1>1, <1>5 DEF InitializeCache, Tick, vars
<1>6. ASSUME NEW i \in Clients,
             ConnectionReady(i) \/ ConnectionLost(i) \/ Reconnect(i) \/ AnswerLost(i)
      PROVE  Wired'
  BY <1>1, <1>6 DEF ConnectionReady, ConnectionLost, Reconnect, AnswerLost
<1>7. QED
  BY <1>3, <1>4, <1>5, <1>6 DEF Next, Keys

\* No call is new, and those that wait on wire j have moved up by by[j].
Shifted(by) ==
  /\ \A j \in Clients : by[j] \in {0, 1} /\ \A n \in 1..Len(wire'[j]) :
       n + by[j] \in 1..Len(wire[j]) /\ call'[wire'[j][n]] = call[wire[j][n + by[j]]]
  /\ \A c \in Callers : call'[c] = call[c] \/ call'[c] = Idle

\* Nobody moves when wires and calls are left alone.
LEMMA StayShifted ==
  ASSUME TypeOK, UNCHANGED <<wire, call>> PROVE Shifted([j \in Clients |-> 0])
<1>1. \A j \in Clients : \A n \in 1..Len(wire'[j]) : n + 0 = n
  OBVIOUS
<1>2. QED
  BY <1>1 DEF Shifted

\* A return moves its wire up by one.
LEMMA ReturnShifted ==
  ASSUME TypeOK, Wired, NEW i \in Clients, wire[i] # <<>>, Return(i, wire[i][1])
  PROVE  Shifted([j \in Clients |-> IF j = i THEN 1 ELSE 0])
<1> DEFINE c == wire[i][1]
<1>1. /\ \A d \in Callers : d # c => call'[d] = call[d]
      /\ call'[c] = Idle
      /\ wire' \in [Clients -> Seq(Callers)]
      /\ \A j \in Clients : j # i => wire'[j] = wire[j]
      /\ \A n \in 1..Len(wire'[i]) : n + 1 \in 1..Len(wire[i]) /\ wire'[i][n] = wire[i][n + 1]
  BY ReturnShifts
<1>2. Wired'
  BY ReturnWired
<1>3. ASSUME NEW j \in Clients, NEW n \in 1..Len(wire'[j])
      PROVE  call'[wire'[j][n]] = call[wire'[j][n]]
  <2>1. wire'[j][n] \in Callers
    BY <1>1
  <2>2. call'[wire'[j][n]] # Idle
    BY <1>2 DEF Wired
  <2>3. QED
    BY <1>1, <2>1, <2>2
<1> HIDE DEF c
<1>4. \A n \in 1..Len(wire'[i]) :
        n + 1 \in 1..Len(wire[i]) /\ call'[wire'[i][n]] = call[wire[i][n + 1]]
  BY <1>1, <1>3
<1>5. ASSUME NEW j \in Clients, j # i, NEW n \in 1..Len(wire'[j])
      PROVE  n + 0 \in 1..Len(wire[j]) /\ call'[wire'[j][n]] = call[wire[j][n + 0]]
  <2>1. n + 0 = n
    OBVIOUS
  <2>2. QED
    BY <1>1, <1>3, <1>5, <2>1
<1>6. \A d \in Callers : call'[d] = call[d] \/ call'[d] = Idle
  BY <1>1
<1> DEFINE by == [j \in Clients |-> IF j = i THEN 1 ELSE 0]
<1>7. \A j \in Clients : by[j] = IF j = i THEN 1 ELSE 0
  OBVIOUS
<1> HIDE DEF by
<1>8. Shifted(by)
  BY <1>4, <1>5, <1>6, <1>7 DEF Shifted
<1>9. QED
  BY <1>8 DEF by

\* Where a call on the wire was before.
LEMMA ShiftedFrom ==
  ASSUME TypeOK, Wired, NEW by, Shifted(by), NEW i \in Clients, NEW n \in 1..Len(wire'[i])
  PROVE  \E l \in 1..Len(wire[i]) : /\ call'[wire'[i][n]] = call[wire[i][l]]
                                    /\ l = n + by[i] /\ (n > 1 => l > 1)
                                    /\ call[wire[i][l]] \in Call
<1> DEFINE l == n + by[i]
<1>1. l \in 1..Len(wire[i]) /\ call'[wire'[i][n]] = call[wire[i][l]] /\ (n > 1 => l > 1)
  BY DEF Shifted
<1> HIDE DEF l
<1>2. wire[i] \in Seq(Callers)
  BY DEF TypeOK
<1>3. wire[i][l] \in Callers
  BY <1>1, <1>2
<1>4. call[wire[i][l]] \in Call
  BY <1>1, <1>3, NotIdle DEF Wired
<1>5. QED
  BY <1>1, <1>4 DEF l

\* Such a step keeps the order of the sets, and the reads.
LEMMA ShiftedOrder ==
  ASSUME TypeOK, Wired, Order, NEW by, Shifted(by), client' = client, strayed \subseteq strayed',
         \A e \in Range(memory') : e.key \in strayed',
         \A k \in Keys \ strayed' : floor[k] <= floor'[k], floor' \in [Keys -> Nat],
         wire' \in [Clients -> Seq(Callers)]
  PROVE  MemoryStrays' /\ Replaced' /\ NotYet' /\ InOrder' /\ Reads'
<1>1. MemoryStrays'
  BY DEF MemoryStrays
<1>2. Replaced'
  <2> SUFFICES ASSUME NEW i \in Clients, i # client, NEW n \in 1..Len(wire'[i])
               PROVE  call'[wire'[i][n]].do = "get" \/ call'[wire'[i][n]].key \in strayed'
    BY DEF Replaced
  <2>1. PICK l \in 1..Len(wire[i]) : call'[wire'[i][n]] = call[wire[i][l]]
    BY ShiftedFrom
  <2>2. QED
    BY <2>1 DEF Order, Replaced
<1>3. NotYet'
  <2> SUFFICES ASSUME NEW i \in Clients, i > client PROVE wire'[i] = <<>>
    BY DEF NotYet
  <2>1. wire[i] = <<>>
    BY DEF Order, NotYet
  <2>2. wire'[i] \in Seq(Callers) /\ \A n \in 1..Len(wire'[i]) : FALSE
    BY <2>1 DEF Shifted
  <2>3. QED
    BY <2>2
<1>4. InOrder'
  <2> SUFFICES ASSUME NEW i \in Clients, NEW m \in 1..Len(wire'[i]), NEW n \in 1..Len(wire'[i]),
                      m < n, call'[wire'[i][m]].do = "set", call'[wire'[i][n]].do = "set",
                      call'[wire'[i][m]].key = call'[wire'[i][n]].key,
                      call'[wire'[i][m]].key \notin strayed'
               PROVE  call'[wire'[i][m]].val < call'[wire'[i][n]].val
    BY DEF InOrder
  <2>1. /\ m + by[i] \in 1..Len(wire[i]) /\ call'[wire'[i][m]] = call[wire[i][m + by[i]]]
        /\ n + by[i] \in 1..Len(wire[i]) /\ call'[wire'[i][n]] = call[wire[i][n + by[i]]]
    BY DEF Shifted
  <2>2. m + by[i] < n + by[i]
    BY DEF Shifted
  <2>3. QED
    BY <2>1, <2>2 DEF Order, InOrder
<1>5. Reads'
  <2> SUFFICES ASSUME NEW c \in Callers, call'[c] # Idle, call'[c].do = "get",
                      call'[c].key \notin strayed'
               PROVE  call'[c].floor <= floor'[call'[c].key]
    BY DEF Reads
  <2>1. call'[c] = call[c] /\ call[c] \in Call
    BY NotIdle DEF Shifted
  <2>2. call[c].key \in Keys /\ call[c].floor \in Nat
    BY <2>1 DEF Call
  <2>3. call[c].floor <= floor[call[c].key]
    BY <2>1 DEF Order, Reads
  <2>4. floor[call[c].key] \in Nat /\ floor'[call[c].key] \in Nat
    BY <2>2 DEF TypeOK
  <2>5. QED
    BY <2>1, <2>2, <2>3, <2>4
<1>6. QED
  BY <1>1, <1>2, <1>3, <1>4, <1>5

\* Nothing new in Redis, and nothing newly outdated, but for keys that have strayed.
LEMMA CalmOrder ==
  ASSUME TypeOK, Wired, Order, NEW by, Shifted(by), client' = client, strayed \subseteq strayed',
         \A e \in Range(memory') : e.key \in strayed',
         \A k \in Keys \ strayed' : floor'[k] = floor[k] /\ redis'[k] \subseteq redis[k],
         \A k \in Keys : \A e, f \in redis'[k] : e = f,
         floor' \in [Keys -> Nat], wire' \in [Clients -> Seq(Callers)],
         written' \in Nat, written <= written'
  PROVE  Order'
<1>1. \A k \in Keys : floor[k] \in Nat
  BY DEF TypeOK
<1>2. MemoryStrays' /\ Replaced' /\ NotYet' /\ InOrder' /\ Reads'
  BY <1>1, ShiftedOrder
<1>3. \A k \in Keys : \A e \in redis[k] : e.val \in Nat
  BY DEF TypeOK, Copy
<1>4. written \in Nat
  BY DEF TypeOK
<1>5. Kept'
  <2> SUFFICES ASSUME NEW k \in Keys, k \notin strayed'
               PROVE  /\ floor'[k] <= written' + 1
                      /\ \A e \in redis'[k] : floor'[k] <= e.val /\ e.val <= written'
    BY DEF Kept
  <2>1. /\ floor[k] <= written + 1
        /\ \A e \in redis[k] : floor[k] <= e.val /\ e.val <= written
    BY DEF Order, Kept
  <2>2. QED
    BY <1>1, <1>3, <1>4, <2>1
<1>6. Ahead'
  <2> SUFFICES ASSUME NEW i \in Clients, NEW n \in 1..Len(wire'[i]), NEW r, r = call'[wire'[i][n]],
                      r.do = "set", r.key \notin strayed'
               PROVE  /\ floor'[r.key] <= r.val /\ r.val <= written'
                      /\ \A e \in redis'[r.key] : e.val <= r.val /\ (n > 1 => e.val < r.val)
    BY DEF Ahead
  <2>1. PICK l \in 1..Len(wire[i]) : r = call[wire[i][l]] /\ r \in Call /\ (n > 1 => l > 1)
    BY ShiftedFrom
  <2>2. /\ floor[r.key] <= r.val /\ r.val <= written
        /\ \A e \in redis[r.key] : e.val <= r.val /\ (l > 1 => e.val < r.val)
    BY <2>1 DEF Order, Ahead
  <2>3. r.key \in Keys /\ r.val \in Nat
    BY <2>1 DEF Call
  <2>4. floor'[r.key] = floor[r.key] /\ redis'[r.key] \subseteq redis[r.key]
    BY <2>3
  <2>5. r.val <= written'
    BY <1>4, <2>2, <2>3
  <2>6. QED
    BY <2>1, <2>2, <2>4, <2>5
<1>7. QED
  BY <1>2, <1>5, <1>6 DEF Order

\* Redis executes what is at the head of wire i: a set or a del of a key that has not strayed.
LEMMA ExecutedOrder ==
  ASSUME TypeOK, Wired, Order, NEW by, Shifted(by), NEW i \in Clients, wire[i] # <<>>,
         NEW r \in Call, r = call[wire[i][1]], r.do # "get", r.key \notin strayed, Execute(r),
         \/ UNCHANGED <<floor, strayed>>
         \/ Outdate(r.key, IF r.do = "set" THEN r.val ELSE IF redis[r.key] = {} THEN 0
                           ELSE (CHOOSE e \in redis[r.key] : TRUE).val + 1),
         UNCHANGED <<client, written>>, Range(memory') \subseteq Range(memory),
         wire' \in [Clients -> Seq(Callers)]
  PROVE  Order'
<1> DEFINE k == r.key
<1> DEFINE old == IF redis[k] = {} THEN 0 ELSE (CHOOSE e \in redis[k] : TRUE).val + 1
<1>1. r.do \in {"set", "del"} /\ k \in Keys /\ r.val \in Nat /\ 1 \in 1..Len(wire[i])
  BY AtHead DEF Call
<1>2. /\ written \in Nat /\ floor \in [Keys -> Nat]
      /\ \A q \in Keys : \A e \in redis[q] : e.val \in Nat
  BY DEF TypeOK, Copy
<1>3. i = client
  BY <1>1 DEF Order, Replaced
<1>4. old \in Nat /\ (old = 0 \/ \E e \in redis[k] : e.val \in Nat /\ old = e.val + 1)
  <2>1. CASE redis[k] = {}
    BY <2>1
  <2>2. CASE redis[k] # {}
    <3>1. PICK e \in redis[k] : e = CHOOSE f \in redis[k] : TRUE
      BY <2>2
    <3>2. old = e.val + 1
      BY <2>2, <3>1
    <3>3. e.val \in Nat
      BY <1>1, <1>2
    <3> HIDE DEF old
    <3>4. QED
      BY <3>2, <3>3
  <2>3. QED
    BY <2>1, <2>2
<1> HIDE DEF old
<1>5. /\ strayed' = strayed /\ floor' \in [Keys -> Nat]
      /\ \A q \in Keys : q # k => floor'[q] = floor[q]
      /\ \/ floor'[k] = floor[k]
         \/ r.do = "set" /\ floor'[k] = r.val /\ floor[k] < r.val
         \/ r.do = "del" /\ floor'[k] = old /\ floor[k] < old
  <2>1. CASE UNCHANGED <<floor, strayed>>
    BY <1>2, <2>1
  <2>2. CASE r.do = "set" /\ Outdate(k, r.val)
    BY <1>1, <1>2, <2>2, OutdateTyped
  <2>3. CASE r.do = "del" /\ Outdate(k, old)
    BY <1>1, <1>2, <1>4, <2>3, OutdateTyped
  <2>4. QED
    BY <1>1, <2>1, <2>2, <2>3 DEF old
<1>6. /\ \A q \in Keys : q # k => redis'[q] = redis[q]
      /\ r.do = "del" => redis'[k] = {}
      /\ r.do = "set" => redis'[k] = {[val |-> r.val, exp |-> now + Ttl[k]]}
  BY ExecuteTyped
<1>7. r.do = "set" => floor[k] <= r.val /\ r.val <= written
  BY <1>1 DEF Order, Ahead
<1>8. /\ floor[k] <= written + 1
      /\ \A e \in redis[k] : floor[k] <= e.val /\ e.val <= written
  BY <1>1 DEF Order, Kept
<1>9. MemoryStrays' /\ Replaced' /\ NotYet' /\ InOrder' /\ Reads'
  <2>1. \A e \in Range(memory') : e.key \in strayed'
    BY <1>5 DEF Order, MemoryStrays
  <2>2. \A q \in Keys \ strayed' : floor[q] <= floor'[q]
    BY <1>1, <1>2, <1>4, <1>5
  <2>3. QED
    BY <1>5, <2>1, <2>2, ShiftedOrder
<1>10. Kept'
  <2> SUFFICES ASSUME NEW q \in Keys
               PROVE  /\ \A e, f \in redis'[q] : e = f
                      /\ q \notin strayed =>
                           /\ floor'[q] <= written + 1
                           /\ \A e \in redis'[q] : floor'[q] <= e.val /\ e.val <= written
    BY <1>5 DEF Kept
  <2>1. CASE q # k
    BY <1>5, <1>6, <2>1 DEF Order, Kept
  <2>2. CASE q = k /\ r.do = "set"
    <3>1. \A e \in redis'[k] : e.val = r.val
      BY <1>6, <2>2
    <3>2. \A e, f \in redis'[k] : e = f
      BY <1>6, <2>2
    <3>3. floor'[k] <= r.val
      BY <1>1, <1>2, <1>5, <1>7, <2>2
    <3>4. QED
      BY <1>1, <1>2, <1>5, <1>7, <2>2, <3>1, <3>2, <3>3
  <2>3. CASE q = k /\ r.do = "del"
    <3>1. floor'[k] <= written + 1
      <4>1. \A e \in redis[k] : e.val \in Nat => e.val + 1 <= written + 1
        BY <1>2, <1>8
      <4>2. old <= written + 1
        BY <1>2, <1>4, <4>1
      <4>3. QED
        BY <1>5, <1>8, <2>3, <4>2
    <3>2. QED
      BY <1>6, <2>3, <3>1
  <2>4. QED
    BY <1>1, <2>1, <2>2, <2>3
<1>11. Ahead'
  <2> SUFFICES ASSUME NEW j \in Clients, NEW n \in 1..Len(wire'[j]), NEW s, s = call'[wire'[j][n]],
                      s.do = "set", s.key \notin strayed
               PROVE  /\ floor'[s.key] <= s.val /\ s.val <= written
                      /\ \A e \in redis'[s.key] : e.val <= s.val /\ (n > 1 => e.val < s.val)
    BY <1>5 DEF Ahead
  <2>1. PICK l \in 1..Len(wire[j]) : s = call[wire[j][l]] /\ s \in Call /\ (n > 1 => l > 1)
    BY ShiftedFrom
  <2>2. /\ floor[s.key] <= s.val /\ s.val <= written
        /\ \A e \in redis[s.key] : e.val <= s.val /\ (l > 1 => e.val < s.val)
    BY <2>1 DEF Order, Ahead
  <2>3. s.key \in Keys /\ s.val \in Nat
    BY <2>1 DEF Call
  <2>4. CASE s.key # k
    BY <1>5, <1>6, <2>1, <2>2, <2>3, <2>4
  <2>5. CASE s.key = k
    <3>1. j = i
      BY <1>3, <2>1 DEF Order, Replaced
    <3>2. l > 1 /\ r.do = "set" => r.val < s.val
      BY <1>1, <2>1, <2>5, <3>1 DEF Order, InOrder
    <3>3. l = 1 => s = r
      BY <2>1, <3>1
    <3>4. CASE r.do = "set"
      <4>1. \A e \in redis'[k] : e.val = r.val
        BY <1>6, <3>4
      <4>2. r.val <= s.val /\ (n > 1 => r.val < s.val)
        BY <1>1, <2>1, <2>3, <3>2, <3>3, <3>4
      <4>3. floor'[k] <= s.val
        BY <1>1, <1>2, <1>5, <2>2, <2>3, <2>5, <3>4, <4>2
      <4>4. QED
        BY <2>2, <2>5, <4>1, <4>2, <4>3
    <3>5. CASE r.do = "del"
      <4>1. l > 1
        BY <2>1, <3>3, <3>5
      <4>2. \A e \in redis[k] : e.val + 1 <= s.val
        BY <1>1, <1>2, <2>2, <2>3, <2>5, <4>1
      <4>3. floor'[k] <= s.val
        <5>1. old <= s.val
          BY <1>4, <2>3, <4>2
        <5>2. QED
          BY <1>5, <2>2, <2>5, <3>5, <5>1
      <4>4. QED
        BY <1>6, <2>2, <2>5, <3>5, <4>3
    <3>6. QED
      BY <1>1, <3>4, <3>5
  <2>6. QED
    BY <2>4, <2>5
<1>12. QED
  BY <1>9, <1>10, <1>11 DEF Order

\* A call is sent; the value of a set is newer than any other.
LEMMA SentOrder ==
  ASSUME TypeOK, Wired, Order, NEW c \in Callers, call[c] = Idle,
         NEW k \in Keys, NEW do \in {"get", "set", "del"}, NEW v \in Nat,
         client # 0, Send(c, do, k, v),
         (do = "set" /\ v = written + 1 /\ written' = v) \/ (do # "set" /\ written' = written),
         UNCHANGED <<client, redis, floor, strayed>>, Range(memory') \subseteq Range(memory)
  PROVE  Order'
<1> DEFINE r == [do |-> do, key |-> k, val |-> v, floor |-> floor[k]]
<1>1. /\ client \in Clients /\ r \in Call
      /\ call'[c] = r /\ \A d \in Callers : d # c => call'[d] = call[d]
      /\ wire' \in [Clients -> Seq(Callers)]
      /\ Len(wire'[client]) = Len(wire[client]) + 1
      /\ wire'[client][Len(wire[client]) + 1] = c
      /\ \A n \in 1..Len(wire[client]) : wire'[client][n] = wire[client][n]
      /\ \A i \in Clients : i # client => wire'[i] = wire[i]
  BY SendAppends
<1>2. r.do = do /\ r.key = k /\ r.val = v /\ r.floor = floor[k]
  OBVIOUS
<1> HIDE DEF r
<1>3. \A i \in Clients : Len(wire[i]) \in Nat /\ \A n \in 1..Len(wire[i]) : wire[i][n] \in Callers
  BY DEF TypeOK
<1>4. /\ written \in Nat /\ written' \in Nat /\ written <= written' /\ floor \in [Keys -> Nat]
      /\ \A q \in Keys : \A e \in redis[q] : e.val \in Nat
  BY DEF TypeOK, Copy
<1>5. ASSUME NEW i \in Clients, NEW n \in 1..Len(wire'[i])
      PROVE  \/ /\ n \in 1..Len(wire[i]) /\ call'[wire'[i][n]] = call[wire[i][n]]
                /\ call[wire[i][n]] \in Call
             \/ i = client /\ n = Len(wire[client]) + 1 /\ call'[wire'[i][n]] = r
  <2>1. CASE n \in 1..Len(wire[i])
    <3>1. wire'[i][n] = wire[i][n] /\ wire[i][n] \in Callers
      BY <1>1, <1>3, <2>1
    <3>2. call[wire[i][n]] # Idle
      BY <2>1 DEF Wired
    <3>3. QED
      BY <1>1, <2>1, <3>1, <3>2, NotIdle
  <2>2. CASE n \notin 1..Len(wire[i])
    <3>1. i = client /\ n = Len(wire[client]) + 1
      BY <1>1, <1>3, <2>2
    <3>2. QED
      BY <1>1, <3>1
  <2>3. QED
    BY <2>1, <2>2
<1>6. MemoryStrays'
  BY DEF Order, MemoryStrays
<1>7. Replaced'
  BY <1>1, <1>5 DEF Order, Replaced
<1>8. NotYet'
  <2>1. \A i \in Clients : i > client => i # client
    BY <1>1, CacheAssumption DEF Clients
  <2>2. QED
    BY <1>1, <2>1 DEF Order, NotYet
<1>9. InOrder'
  <2> SUFFICES ASSUME NEW i \in Clients, NEW m \in 1..Len(wire'[i]), NEW n \in 1..Len(wire'[i]),
                      NEW p, p = call'[wire'[i][m]], NEW q, q = call'[wire'[i][n]],
                      m < n, p.do = "set", q.do = "set", p.key = q.key, p.key \notin strayed
               PROVE  p.val < q.val
    BY DEF InOrder
  <2>1. m \in 1..Len(wire[i]) /\ p = call[wire[i][m]] /\ p \in Call
    BY <1>1, <1>3, <1>5
  <2>2. CASE n \in 1..Len(wire[i]) /\ q = call[wire[i][n]]
    BY <2>1, <2>2 DEF Order, InOrder
  <2>3. CASE q = r
    <3>1. p.val <= written /\ p.val \in Nat
      BY <2>1 DEF Order, Ahead, Call
    <3>2. QED
      BY <1>2, <1>4, <2>3, <3>1
  <2>4. QED
    BY <1>5, <2>2, <2>3
<1>10. Ahead'
  <2> SUFFICES ASSUME NEW i \in Clients, NEW n \in 1..Len(wire'[i]), NEW s, s = call'[wire'[i][n]],
                      s.do = "set", s.key \notin strayed
               PROVE  /\ floor[s.key] <= s.val /\ s.val <= written'
                      /\ \A e \in redis[s.key] : e.val <= s.val /\ (n > 1 => e.val < s.val)
    BY DEF Ahead
  <2>1. CASE n \in 1..Len(wire[i]) /\ s = call[wire[i][n]] /\ s \in Call
    <3>1. /\ floor[s.key] <= s.val /\ s.val <= written
          /\ \A e \in redis[s.key] : e.val <= s.val /\ (n > 1 => e.val < s.val)
      BY <2>1 DEF Order, Ahead
    <3>2. s.val \in Nat
      BY <2>1 DEF Call
    <3>3. s.val <= written'
      BY <1>4, <3>1, <3>2
    <3>4. QED
      BY <3>1, <3>3
  <2>2. CASE s = r
    <3>1. floor[k] <= written + 1 /\ \A e \in redis[k] : e.val <= written
      BY <1>2, <2>2 DEF Order, Kept
    <3>2. \A e \in redis[k] : e.val < written + 1
      BY <1>4, <3>1
    <3>3. QED
      BY <1>2, <1>4, <2>2, <3>1, <3>2
  <2>3. QED
    BY <1>5, <2>1, <2>2
<1>11. Kept'
  <2> SUFFICES ASSUME NEW q \in Keys, q \notin strayed
               PROVE  /\ floor[q] <= written' + 1
                      /\ \A e \in redis[q] : floor[q] <= e.val /\ e.val <= written'
    BY DEF Kept, Order
  <2>1. /\ floor[q] <= written + 1
        /\ \A e \in redis[q] : floor[q] <= e.val /\ e.val <= written
    BY DEF Order, Kept
  <2>2. QED
    BY <1>4, <2>1
<1>12. Reads'
  BY <1>1, <1>2, <1>4 DEF Order, Reads
<1>13. QED
  BY <1>6, <1>7, <1>8, <1>9, <1>10, <1>11, <1>12 DEF Order

\* A new client takes the place of the old one: what waits to be written has strayed.
LEMMA InitializeOrder == ASSUME TypeOK, Wired, Order, InitializeCache PROVE Order'
<1> DEFINE ks == {call[c].key : c \in {d \in Callers : call[d] # Idle /\ call[d].do # "get"}}
<1>1. /\ client < MaxClients /\ client' = client + 1
      /\ Stray(ks) /\ UNCHANGED <<written, wire, call, redis, memory>>
  BY DEF InitializeCache, stores
<1>2. ks \subseteq Keys
  BY NotIdle DEF Call
<1>3. \A c \in Callers : call[c] # Idle /\ call[c].do # "get" => call[c].key \in ks
  OBVIOUS
<1> HIDE DEF ks
<1>4. strayed' = strayed \cup ks /\ \A k \in Keys \ ks : floor'[k] = floor[k]
  BY <1>1, <1>2, StrayTyped
<1>5. client \in Nat /\ Clients \subseteq Nat
  BY CacheAssumption DEF TypeOK, Clients
<1>6. \A i \in Clients : \A n \in 1..Len(wire[i]) :
        /\ call[wire[i][n]] \in Call
        /\ call[wire[i][n]].do = "get" \/ call[wire[i][n]].key \in strayed'
  <2> SUFFICES ASSUME NEW i \in Clients, NEW n \in 1..Len(wire[i])
               PROVE  /\ call[wire[i][n]] \in Call
                      /\ call[wire[i][n]].do = "get" \/ call[wire[i][n]].key \in strayed'
    OBVIOUS
  <2>1. wire[i][n] \in Callers
    BY DEF TypeOK
  <2>2. call[wire[i][n]] # Idle
    BY DEF Wired
  <2>3. QED
    BY <1>3, <1>4, <2>1, <2>2, NotIdle
<1>7. NotYet'
  BY <1>1, <1>5 DEF Order, NotYet
<1>8. Replaced' /\ InOrder' /\ Ahead'
  BY <1>1, <1>6 DEF Replaced, InOrder, Ahead
<1>9. MemoryStrays'
  BY <1>1, <1>4 DEF Order, MemoryStrays
<1>10. Kept'
  BY <1>1, <1>4 DEF Order, Kept
<1>11. Reads'
  <2> SUFFICES ASSUME NEW c \in Callers, call[c] # Idle, call[c].do = "get",
                      call[c].key \notin strayed'
               PROVE  call[c].floor <= floor'[call[c].key]
    BY <1>1 DEF Reads
  <2>1. call[c].key \in Keys
    BY NotIdle DEF Call
  <2>2. QED
    BY <1>4, <2>1 DEF Order, Reads
<1>12. QED
  BY <1>7, <1>8, <1>9, <1>10, <1>11 DEF Order

\* Every step keeps the order.
LEMMA OrderKept == TypeOK /\ Wired /\ Order /\ [Next]_vars => Order'
<1> SUFFICES ASSUME TypeOK, Wired, Order, [Next]_vars PROVE Order'
  OBVIOUS
<1>1. TypeOK' /\ Wired'
  BY TypesKept, WiredKept
<1>2. /\ floor' \in [Keys -> Nat] /\ wire' \in [Clients -> Seq(Callers)] /\ written' \in Nat
      /\ written \in Nat
  BY <1>1 DEF TypeOK
<1>3. \A e \in Range(memory) : e.key \in strayed
  BY DEF Order, MemoryStrays
<1>4. \A k \in Keys : \A e, f \in redis[k] : e = f
  BY DEF Order, Kept
<1>5. memory \in Seq(Entry)
  BY DEF TypeOK
<1>6. ASSUME UNCHANGED <<client, wire, call, redis, floor, strayed>>, written <= written',
             Range(memory') \subseteq Range(memory)
      PROVE  Order'
  <2>1. Shifted([j \in Clients |-> 0])
    BY <1>6, StayShifted
  <2>2. QED
    BY <1>2, <1>3, <1>4, <1>6, <2>1, CalmOrder
<1>7. Ready \/ (\E k : MaySet(k)) => client # 0
  BY DEF Ready, MaySet
<1>8. ASSUME NEW i \in Clients, RedisAnswers(i) PROVE Order'
  <2> DEFINE c == wire[i][1]
  <2> DEFINE r == call[c]
  <2> DEFINE by == [j \in Clients |-> IF j = i THEN 1 ELSE 0]
  <2>1. c = Head(wire[i]) /\ c \in Callers /\ wire[i] # <<>>
    BY <1>8, AtHead DEF RedisAnswers
  <2>2. r \in Call
    BY <2>1, AtHead, NotIdle DEF Wired
  <2>3. /\ Execute(r) /\ Return(i, c) /\ UNCHANGED <<client, written>>
        /\ \/ r.do = "set" /\ Outdate(r.key, r.val) /\ UNCHANGED memory
           \/ /\ r.do = "del"
              /\ memory' = IF r.key \in ResultKeys THEN Without(memory, r.key) ELSE memory
              /\ Outdate(r.key, IF redis[r.key] = {} THEN 0
                                ELSE (CHOOSE e \in redis[r.key] : TRUE).val + 1)
           \/ r.do = "get" /\ UNCHANGED <<memory, history>>
    BY <1>8, <2>1 DEF RedisAnswers, link
  <2>4. Shifted(by)
    BY <2>1, <2>3, ReturnShifted
  <2> HIDE DEF c, r, by
  <2>5. Range(memory') \subseteq Range(memory)
    BY <1>5, <2>3, WithoutKeeps
  <2>6. r.key \in Keys /\ r.val \in Nat
    BY <2>2 DEF Call
  <2>7. (IF redis[r.key] = {} THEN 0 ELSE (CHOOSE e \in redis[r.key] : TRUE).val + 1) \in Nat
    BY <2>6 DEF TypeOK, Copy
  <2>8. /\ \A k \in Keys : k # r.key => redis'[k] = redis[k]
        /\ r.do = "get" => redis' = redis
        /\ r.do = "set" => redis'[r.key] = {[val |-> r.val, exp |-> now + Ttl[r.key]]}
        /\ r.do = "del" => redis'[r.key] = {}
    BY <2>2, <2>3, ExecuteTyped
  <2>9. CASE r.do = "get"
    <3>1. UNCHANGED <<floor, strayed, redis>>
      BY <2>3, <2>8, <2>9 DEF history
    <3>2. QED
      BY <1>2, <1>3, <1>4, <2>3, <2>4, <2>5, <3>1, CalmOrder
  <2>10. CASE r.do # "get" /\ r.key \in strayed
    <3>1. strayed' = strayed /\ \A k \in Keys : floor'[k] = floor[k]
      BY <2>3, <2>6, <2>7, <2>10, OutdateTyped
    <3>2. \A k \in Keys : \A e, f \in redis'[k] : e = f
      BY <1>4, <2>3, <2>8, <2>10
    <3>3. \A k \in Keys \ strayed' : floor'[k] = floor[k] /\ redis'[k] \subseteq redis[k]
      BY <2>8, <2>10, <3>1
    <3>4. \A e \in Range(memory') : e.key \in strayed'
      BY <1>3, <2>5, <3>1
    <3>5. strayed \subseteq strayed' /\ client' = client /\ written <= written'
      BY <1>2, <2>3, <3>1
    <3>6. QED
      BY <1>2, <2>4, <3>2, <3>3, <3>4, <3>5, CalmOrder
  <2>11. CASE r.do # "get" /\ r.key \notin strayed
    <3>1. Outdate(r.key, IF r.do = "set" THEN r.val ELSE IF redis[r.key] = {} THEN 0
                         ELSE (CHOOSE e \in redis[r.key] : TRUE).val + 1)
      BY <2>3, <2>11
    <3>2. QED
      BY <1>2, <2>1, <2>2, <2>3, <2>4, <2>5, <2>11, <3>1, ExecutedOrder DEF c, r
  <2>12. QED
    BY <2>9, <2>10, <2>11
<1>9. ASSUME NEW i \in Clients, AnswerLost(i) PROVE Order'
  <2> DEFINE r == call[wire[i][1]]
  <2> DEFINE by == [j \in Clients |-> 0]
  <2>1. r \in Call /\ wire[i] # <<>>
    BY <1>9, AtHead, NotIdle DEF AnswerLost, Wired
  <2>2. Execute(r) /\ UNCHANGED <<client, written, wire, call, memory, floor, strayed>>
    BY <1>9, AtHead DEF AnswerLost, history
  <2>3. Shifted(by)
    BY <2>2, StayShifted
  <2> HIDE DEF r, by
  <2>4. /\ \A k \in Keys : k # r.key => redis'[k] = redis[k]
        /\ r.do = "get" => redis' = redis
        /\ r.do = "set" => redis'[r.key] = {[val |-> r.val, exp |-> now + Ttl[r.key]]}
        /\ r.do = "del" => redis'[r.key] = {}
    BY <2>1, <2>2, ExecuteTyped
  <2>5. CASE r.do = "get" \/ r.key \in strayed
    <3>1. r.do \in {"get", "set", "del"}
      BY <2>1 DEF Call
    <3>2. \A k \in Keys : \A e, f \in redis'[k] : e = f
      BY <1>4, <2>4, <3>1
    <3>3. \A k \in Keys \ strayed' : floor'[k] = floor[k] /\ redis'[k] \subseteq redis[k]
      BY <2>2, <2>4, <2>5
    <3>4. QED
      BY <1>2, <1>3, <2>2, <2>3, <3>2, <3>3, CalmOrder
  <2>6. CASE r.do # "get" /\ r.key \notin strayed
    BY <1>2, <2>1, <2>2, <2>3, <2>6, ExecutedOrder DEF r
  <2>7. QED
    BY <2>5, <2>6
<1>10. ASSUME NEW i \in Clients, CommandFails(i) PROVE Order'
  <2> DEFINE c == wire[i][1]
  <2> DEFINE r == call[c]
  <2> DEFINE by == [j \in Clients |-> IF j = i THEN 1 ELSE 0]
  <2>1. c = Head(wire[i]) /\ c \in Callers /\ wire[i] # <<>>
    BY <1>10, AtHead DEF CommandFails
  <2>2. r \in Call
    BY <2>1, AtHead, NotIdle DEF Wired
  <2>3. /\ Return(i, c) /\ UNCHANGED <<client, written, redis>>
        /\ \/ r.do = "set" /\ memory' = StoredIn(memory, EntryOf(r.key, r.val)) /\ Stray({r.key})
           \/ r.do = "del" /\ memory' = Without(memory, r.key) /\ Stray({r.key})
           \/ /\ r.do = "get"
              /\ memory' = IF r.key \in SearchKeys THEN AfterLook(memory, r.key) ELSE memory
              /\ UNCHANGED history
    BY <1>10, <2>1 DEF CommandFails, link
  <2>4. Shifted(by)
    BY <2>1, <2>3, ReturnShifted
  <2> HIDE DEF c, r, by
  <2>5. r.key \in Keys /\ r.val \in Nat
    BY <2>2 DEF Call
  <2>6. /\ Range(Without(memory, r.key)) \subseteq Range(memory)
        /\ Range(AfterLook(memory, r.key)) \subseteq Range(memory)
    BY <1>5, WithoutKeeps, AfterLookKeeps
  <2>7. CASE r.do = "get"
    <3>1. Range(memory') \subseteq Range(memory) /\ UNCHANGED <<floor, strayed>>
      BY <2>3, <2>6, <2>7 DEF history
    <3>2. QED
      BY <1>2, <1>3, <1>4, <2>3, <2>4, <3>1, CalmOrder
  <2>8. CASE r.do # "get"
    <3>1. strayed' = strayed \cup {r.key} /\ \A k \in Keys \ {r.key} : floor'[k] = floor[k]
      BY <2>3, <2>5, <2>8, StrayTyped
    <3>2. \A e \in Range(memory') : e.key \in strayed'
      <4>1. CASE r.do = "set"
        <5>1. EntryOf(r.key, r.val) \in Entry /\ EntryOf(r.key, r.val).key = r.key
          BY <2>5, EntryTyped DEF EntryOf
        <5>2. Range(memory') \subseteq Range(memory) \cup {EntryOf(r.key, r.val)}
          BY <1>5, <2>3, <4>1, <5>1, StoredInKeeps
        <5>3. QED
          BY <1>3, <3>1, <5>1, <5>2
      <4>2. CASE r.do = "del"
        BY <1>3, <2>3, <2>6, <3>1, <4>2
      <4>3. QED
        BY <2>3, <2>8, <4>1, <4>2
    <3>3. \A k \in Keys \ strayed' : floor'[k] = floor[k] /\ redis'[k] \subseteq redis[k]
      BY <2>3, <3>1
    <3>4. \A k \in Keys : \A e, f \in redis'[k] : e = f
      BY <1>4, <2>3
    <3>5. strayed \subseteq strayed' /\ client' = client /\ written <= written'
      BY <1>2, <2>3, <3>1
    <3>6. QED
      BY <1>2, <2>4, <3>2, <3>3, <3>4, <3>5, CalmOrder
  <2>9. QED
    BY <2>7, <2>8
<1>11. ASSUME NEW k \in Keys, Stray({k}), written <= written',
              UNCHANGED <<client, wire, call, redis>>,
              \A e \in Range(memory') : e.key \in strayed \cup {k}
       PROVE  Order'
  <2>1. Shifted([j \in Clients |-> 0])
    BY <1>11, StayShifted
  <2>2. strayed' = strayed \cup {k} /\ \A q \in Keys \ {k} : floor'[q] = floor[q]
    BY <1>11, StrayTyped
  <2>3. QED
    BY <1>2, <1>4, <1>11, <2>1, <2>2, CalmOrder
<1>12. ASSUME NEW c \in Callers, NEW k \in Keys, Set(c, k) PROVE Order'
  <2>1. /\ written' = written + 1 /\ written <= written' /\ written + 1 \in Nat /\ call[c] = Idle
        /\ UNCHANGED <<client, redis>>
    BY <1>2, <1>12 DEF Set, link
  <2>2. CASE MaySet(k)
    <3>1. Send(c, "set", k, written + 1) /\ UNCHANGED <<memory, floor, strayed>> /\ client # 0
      BY <1>7, <1>12, <2>2 DEF Set, history
    <3>2. QED
      BY <2>1, <3>1, SentOrder
  <2>3. CASE ~MaySet(k)
    <3>1. /\ memory' = StoredIn(memory, EntryOf(k, written + 1)) /\ Stray({k})
          /\ UNCHANGED <<wire, call>>
      BY <1>12, <2>3 DEF Set
    <3>2. EntryOf(k, written + 1) \in Entry /\ EntryOf(k, written + 1).key = k
      BY <2>1, EntryTyped DEF EntryOf
    <3>3. Range(memory') \subseteq Range(memory) \cup {EntryOf(k, written + 1)}
      BY <1>5, <3>1, <3>2, StoredInKeeps
    <3>4. \A e \in Range(memory') : e.key \in strayed \cup {k}
      BY <1>3, <3>2, <3>3
    <3>5. QED
      BY <1>11, <2>1, <3>1, <3>4
  <2>4. QED
    BY <2>2, <2>3
<1>13. ASSUME NEW c \in Callers, NEW k \in Keys, Delete(c, k) PROVE Order'
  <2>1. /\ written' = written /\ written <= written' /\ call[c] = Idle
        /\ UNCHANGED <<client, redis>>
    BY <1>2, <1>13 DEF Delete, link
  <2>2. CASE Ready
    <3>1. Send(c, "del", k, 0) /\ UNCHANGED <<memory, floor, strayed>> /\ client # 0
      BY <1>7, <1>13, <2>2 DEF Delete, history
    <3>2. QED
      BY <2>1, <3>1, SentOrder
  <2>3. CASE ~Ready
    <3>1. memory' = Without(memory, k) /\ Stray({k}) /\ UNCHANGED <<wire, call>>
      BY <1>13, <2>3 DEF Delete
    <3>2. \A e \in Range(memory') : e.key \in strayed \cup {k}
      BY <1>3, <1>5, <3>1, WithoutKeeps
    <3>3. QED
      BY <1>11, <2>1, <3>1, <3>2
  <2>4. QED
    BY <2>2, <2>3
<1>14. ASSUME NEW c \in Callers, NEW k \in Keys, GetSearch(c, k) \/ GetResult(c, k) PROVE Order'
  <2>1. /\ written' = written /\ written <= written' /\ call[c] = Idle
        /\ UNCHANGED <<client, redis, floor, strayed>>
    BY <1>2, <1>14 DEF GetSearch, GetResult, link, history
  <2>2. Range(memory') \subseteq Range(memory)
    BY <1>5, <1>14, AfterLookKeeps DEF GetSearch, GetResult
  <2>3. \/ client # 0 /\ Send(c, "get", k, 0)
        \/ UNCHANGED <<wire, call>>
    BY <1>7, <1>14 DEF GetSearch, GetResult
  <2>4. CASE client # 0 /\ Send(c, "get", k, 0)
    BY <2>1, <2>2, <2>4, SentOrder
  <2>5. CASE UNCHANGED <<wire, call>>
    BY <1>6, <2>1, <2>2, <2>5
  <2>6. QED
    BY <2>3, <2>4, <2>5
<1>15. ASSUME NEW i \in Clients, ConnectionReady(i) \/ ConnectionLost(i) \/ Reconnect(i)
       PROVE  Order'
  <2>1. UNCHANGED <<client, written, wire, call, redis, memory, floor, strayed>>
    BY <1>15 DEF ConnectionReady, ConnectionLost, Reconnect, stores, history
  <2>2. QED
    BY <1>2, <1>6, <2>1
<1>16. CASE Tick \/ UNCHANGED vars
  <2>1. UNCHANGED <<client, written, wire, call, redis, memory, floor, strayed>>
    BY <1>16 DEF Tick, vars, link, stores, history
  <2>2. QED
    BY <1>2, <1>6, <2>1
<1>17. QED
  BY <1>8, <1>9, <1>10, <1>12, <1>13, <1>14, <1>15, <1>16, InitializeOrder DEF Next, Keys

\* A read is served from the Map only under a key that has strayed; Redis serves what is current.
LEMMA CurrentKept == TypeOK /\ Wired /\ Order /\ ReadsAreCurrent /\ [Next]_vars => ReadsAreCurrent'
<1> SUFFICES ASSUME TypeOK, Wired, Order, ReadsAreCurrent, [Next]_vars PROVE ReadsAreCurrent'
  OBVIOUS
<1>1. Silent => ReadsAreCurrent'
  BY DEF Silent, ReadsAreCurrent
<1>2. ASSUME NEW k, NEW low, Serve(k, {}, low) PROVE ReadsAreCurrent'
  BY <1>2 DEF Serve, ReadsAreCurrent
<1>3. ASSUME NEW k, NEW low, Serve(k, Found(memory, k), low), UNCHANGED strayed
      PROVE  ReadsAreCurrent'
  <2>1. CASE answer' = NoAnswer
    BY <2>1 DEF ReadsAreCurrent
  <2>2. CASE answer' # NoAnswer
    <3>1. PICK e \in Found(memory, k) : answer'.key = k
      BY <1>3, <2>2, ServedOne
    <3>2. k \in strayed
      BY <3>1, FoundTyped DEF Order, MemoryStrays
    <3>3. QED
      BY <1>3, <3>1, <3>2 DEF ReadsAreCurrent
  <2>3. QED
    BY <2>1, <2>2
<1>4. ASSUME NEW i \in Clients, RedisAnswers(i) PROVE ReadsAreCurrent'
  <2> DEFINE c == wire[i][1]
  <2> DEFINE r == call[c]
  <2>1. /\ c = Head(wire[i]) /\ c \in Callers /\ wire[i] # <<>>
        /\ Silent \/ (r.do = "get" /\ Serve(r.key, Alive(r.key), r.floor) /\ UNCHANGED history)
    BY <1>4, AtHead DEF RedisAnswers
  <2>2. r \in Call /\ r # Idle
    BY <2>1, AtHead, NotIdle DEF Wired
  <2>3. r.do = "get" /\ r.key \notin strayed => r.floor <= floor[r.key]
    BY <2>1, <2>2 DEF Order, Reads
  <2> HIDE DEF c, r
  <2>4. r.key \in Keys /\ r.floor \in Nat
    BY <2>2 DEF Call
  <2>5. CASE r.do = "get" /\ Serve(r.key, Alive(r.key), r.floor) /\ UNCHANGED history
    <3>1. CASE answer' = NoAnswer
      BY <3>1 DEF ReadsAreCurrent
    <3>2. CASE answer' # NoAnswer
      <4>1. PICK e \in Alive(r.key) :
              answer'.key = r.key /\ answer'.val = e.val /\ answer'.floor = r.floor
        BY <2>5, <3>2, ServedOne
      <4>2. e \in redis[r.key] /\ e.val \in Nat /\ floor[r.key] \in Nat
        BY <2>4, <4>1 DEF Alive, TypeOK, Copy
      <4>3. r.key \notin strayed => floor[r.key] <= e.val
        BY <2>4, <4>2 DEF Order, Kept
      <4>4. r.key \notin strayed => r.floor <= e.val
        BY <2>3, <2>4, <2>5, <4>2, <4>3
      <4>5. QED
        BY <2>5, <4>1, <4>2, <4>4, <2>4 DEF ReadsAreCurrent, history
    <3>3. QED
      BY <3>1, <3>2
  <2>6. QED
    BY <1>1, <2>1, <2>5
<1>5. ASSUME NEW i \in Clients, CommandFails(i) PROVE ReadsAreCurrent'
  <2> DEFINE r == call[Head(wire[i])]
  <2>1. \/ Silent
        \/ /\ Serve(r.key, IF r.key \in SearchKeys THEN Found(memory, r.key) ELSE {}, r.floor)
           /\ UNCHANGED strayed
    BY <1>5 DEF CommandFails, history
  <2> HIDE DEF r
  <2>2. QED
    BY <1>1, <1>2, <1>3, <2>1
<1>6. ASSUME NEW c \in Callers, NEW k \in Keys, GetSearch(c, k) \/ GetResult(c, k)
      PROVE  ReadsAreCurrent'
  <2>1. Silent \/ (Serve(k, Found(memory, k), floor[k]) /\ UNCHANGED strayed)
    BY <1>6 DEF GetSearch, GetResult, history
  <2>2. QED
    BY <1>1, <1>3, <2>1
<1>7. ASSUME NEW i \in Clients,
             ConnectionReady(i) \/ ConnectionLost(i) \/ Reconnect(i) \/ AnswerLost(i)
      PROVE  ReadsAreCurrent'
  BY <1>1, <1>7 DEF ConnectionReady, ConnectionLost, Reconnect, AnswerLost
<1>8. ASSUME NEW c \in Callers, NEW k \in Keys, Set(c, k) \/ Delete(c, k) PROVE ReadsAreCurrent'
  BY <1>1, <1>8 DEF Set, Delete
<1>9. CASE InitializeCache \/ Tick
  BY <1>1, <1>9 DEF InitializeCache, Tick
<1>10. CASE UNCHANGED vars
  BY <1>10 DEF vars, history, ReadsAreCurrent
<1>11. QED
  BY <1>4, <1>5, <1>6, <1>7, <1>8, <1>9, <1>10 DEF Next, Keys

\* The inductive invariant of the cache.
CacheInv == TypeOK /\ Wired /\ Order /\ ReadsAreCurrent

\* It holds in an empty cache.
LEMMA CacheInit == Init => CacheInv
<1> SUFFICES ASSUME Init PROVE CacheInv
  OBVIOUS
<1> USE CacheAssumption DEF Init
<1>1. TypeOK
  <2>1. memory \in Seq(Entry) /\ \A i \in Clients : wire[i] \in Seq(Callers)
    OBVIOUS
  <2>2. QED
    BY <2>1 DEF TypeOK
<1>2. \A i \in Clients : wire[i] = <<>> /\ Len(wire[i]) = 0
  OBVIOUS
<1>3. Range(memory) = {}
  BY DEF Range
<1>4. Wired /\ MemoryStrays /\ Replaced /\ NotYet /\ InOrder /\ Ahead
  BY <1>2, <1>3 DEF Wired, MemoryStrays, Replaced, NotYet, InOrder, Ahead
<1>5. Kept /\ Reads /\ ReadsAreCurrent
  BY DEF Kept, Reads, ReadsAreCurrent, Idle
<1>6. QED
  BY <1>1, <1>4, <1>5 DEF CacheInv, Order

\* It holds always.
LEMMA CacheInvariant == Spec => []CacheInv
<1>1. Init => CacheInv
  BY CacheInit
<1>2. CacheInv /\ [Next]_vars => CacheInv'
  BY TypesKept, WiredKept, OrderKept, CurrentKept DEF CacheInv
<1>3. QED
  BY <1>1, <1>2, PTL DEF Spec

\* Every variable of the cache has its type.
THEOREM CacheIsTyped == Spec => []TypeOK
<1>1. CacheInv => TypeOK
  BY DEF CacheInv
<1>2. QED
  BY <1>1, CacheInvariant, PTL

\* A read that began after a value was stored, or a key deleted, does not return an older value,
\* unless some call of that key fell back to the Map or waited for a client that had been replaced.
THEOREM ReadsCurrent == Spec => []ReadsAreCurrent
<1>1. CacheInv => ReadsAreCurrent
  BY DEF CacheInv
<1>2. QED
  BY <1>1, CacheInvariant, PTL

(***************************************************************************)
(* The cache implements its promise.                                        *)
(***************************************************************************)
\* The copies in both stores have their type.
LEMMA NextCopies ==
  ASSUME TypeOK' PROVE [q \in Keys |-> CopiesOf(q)'] \in [Keys -> SUBSET Promise!Copy]
<1>1. ASSUME NEW q \in Keys PROVE CopiesOf(q)' \subseteq Copy
  <2>1. redis'[q] \subseteq Copy /\ memory' \in Seq(Entry)
    BY DEF TypeOK
  <2>2. \A e \in Range(memory') : e \in Entry
    BY <2>1 DEF Range
  <2>3. \A e \in Range(memory') : [val |-> e.val, exp |-> e.exp] \in Copy
    BY <2>2 DEF Entry, Copy
  <2>4. QED
    BY <2>1, <2>3 DEF CopiesOf
<1>2. QED
  BY <1>1 DEF Promise!Copy, Copy

\* What is not new in either store is not new at all; a new entry of the Map is a new copy.
LEMMA CopiesKept ==
  ASSUME TypeOK, NEW q, redis'[q] \subseteq redis[q], Range(memory') \subseteq Range(memory)
  PROVE  CopiesOf(q)' \subseteq CopiesOf(q)
  BY DEF CopiesOf

\* A new entry of the Map is a new copy of its key.
LEMMA EntryAdds ==
  ASSUME TypeOK, NEW k \in Keys, NEW v \in Nat, redis' = redis,
         Range(memory') \subseteq Range(memory) \cup {EntryOf(k, v)}
  PROVE  \A q \in Keys : CopiesOf(q)' \subseteq
           CopiesOf(q) \cup (IF q = k THEN {[val |-> v, exp |-> now + Ttl[k]]} ELSE {})
<1>1. /\ EntryOf(k, v).key = k /\ EntryOf(k, v).val = v /\ EntryOf(k, v).exp = now + Ttl[k]
  BY DEF EntryOf
<1> SUFFICES ASSUME NEW q \in Keys, NEW x \in CopiesOf(q)', x \notin CopiesOf(q)
             PROVE  q = k /\ x = [val |-> v, exp |-> now + Ttl[k]]
  OBVIOUS
<1>2. x \notin redis[q]
  BY DEF CopiesOf
<1>3. PICK e \in Range(memory') : e.key = q /\ x = [val |-> e.val, exp |-> e.exp]
  BY <1>2 DEF CopiesOf
<1>4. e \notin Range(memory)
  BY <1>3 DEF CopiesOf
<1>5. e = EntryOf(k, v)
  BY <1>4
<1>6. QED
  BY <1>1, <1>3, <1>5

\* A set that Redis executes makes a new copy of its key; no other command makes any.
LEMMA ExecuteAdds ==
  ASSUME TypeOK, NEW r \in Call, Execute(r), Range(memory') \subseteq Range(memory)
  PROVE  \/ \A q \in Keys : CopiesOf(q)' \subseteq CopiesOf(q)
         \/ /\ r.do = "set"
            /\ \A q \in Keys : CopiesOf(q)' \subseteq CopiesOf(q) \cup
                 (IF q = r.key THEN {[val |-> r.val, exp |-> now + Ttl[r.key]]} ELSE {})
<1>1. r.do \in {"get", "set", "del"} /\ r.key \in Keys
  BY DEF Call
<1>2. /\ \A k \in Keys : k # r.key => redis'[k] = redis[k]
      /\ r.do = "get" => redis' = redis
      /\ r.do = "set" => redis'[r.key] = {[val |-> r.val, exp |-> now + Ttl[r.key]]}
      /\ r.do = "del" => redis'[r.key] = {}
  BY ExecuteTyped
<1>3. CASE r.do # "set"
  <2>1. \A q \in Keys : redis'[q] \subseteq redis[q]
    BY <1>1, <1>2, <1>3
  <2>2. QED
    BY <2>1, CopiesKept
<1>4. CASE r.do = "set"
  <2>1. \A q \in Keys : q # r.key => CopiesOf(q)' \subseteq CopiesOf(q)
    BY <1>2, CopiesKept
  <2> DEFINE x == [val |-> r.val, exp |-> now + Ttl[r.key]]
  <2>2. redis'[r.key] = {x}
    BY <1>2, <1>4
  <2> HIDE DEF x
  <2>3. CopiesOf(r.key)' \subseteq CopiesOf(r.key) \cup {x}
    BY <2>2 DEF CopiesOf
  <2>4. QED
    BY <1>4, <2>1, <2>3 DEF x
<1>5. QED
  BY <1>3, <1>4

\* A step that returns nothing and stores one value at most.
LEMMA Silence ==
  ASSUME TypeOK, TypeOK', now' = now, Silent, NEW k \in Keys, NEW v \in Nat,
         \/ \A q \in Keys : CopiesOf(q)' \subseteq CopiesOf(q)
         \/ \A q \in Keys : CopiesOf(q)' \subseteq
              CopiesOf(q) \cup (IF q = k THEN {[val |-> v, exp |-> now + Ttl[k]]} ELSE {})
  PROVE  Promise!BNext
<1>2. [q \in Keys |-> CopiesOf(q)'] \in [Keys -> SUBSET Promise!Copy]
  BY NextCopies
<1>3. Promise!Miss
  BY DEF Silent, Promise!Miss, Served
<1>4. CASE \A q \in Keys : CopiesOf(q)' \subseteq CopiesOf(q)
  <2>1. Promise!Forget
    BY <1>4 DEF Promise!Forget
  <2>2. QED
    BY <1>2, <1>3, <2>1 DEF Promise!BNext
<1>5. CASE \A q \in Keys : CopiesOf(q)' \subseteq
             CopiesOf(q) \cup (IF q = k THEN {[val |-> v, exp |-> now + Ttl[k]]} ELSE {})
  <2>1. Promise!Keep(k)
    BY <1>5 DEF Promise!Keep
  <2>2. QED
    BY <1>2, <1>3, <2>1 DEF Promise!BNext
<1>6. QED
  BY <1>4, <1>5

\* A step that returns one of the copies that have not expired, or nothing.
LEMMA Service ==
  ASSUME TypeOK, TypeOK', now' = now, NEW k \in Keys, NEW es, NEW low, Serve(k, es, low),
         \A e \in es : [val |-> e.val, exp |-> e.exp] \in CopiesOf(k) /\ e.exp > now,
         \A q \in Keys : CopiesOf(q)' \subseteq CopiesOf(q)
  PROVE  Promise!BNext
<1>1. [q \in Keys |-> CopiesOf(q)'] \in [Keys -> SUBSET Promise!Copy]
  BY NextCopies
<1>2. Promise!Forget
  BY DEF Promise!Forget
<1>3. CASE answer' = NoAnswer
  <2>1. Promise!Miss
    BY <1>3 DEF Promise!Miss, Served
  <2>2. QED
    BY <1>1, <1>2, <2>1 DEF Promise!BNext
<1>4. CASE answer' # NoAnswer
  <2>1. PICK e \in es :
          answer' = [key |-> k, val |-> e.val, exp |-> e.exp, at |-> now, floor |-> low]
    BY <1>4, ServedOne
  <2>2. Served' = [key |-> k, val |-> e.val, exp |-> e.exp, at |-> now]
    BY <1>4, <2>1 DEF Served
  <2> DEFINE x == [val |-> e.val, exp |-> e.exp]
  <2>3. x \in CopiesOf(k) /\ x.exp > now /\ x.val = e.val /\ x.exp = e.exp
    OBVIOUS
  <2> HIDE DEF x
  <2>4. Promise!Serve
    BY <2>2, <2>3 DEF Promise!Serve
  <2>5. QED
    BY <1>1, <1>2, <2>4 DEF Promise!BNext
<1>5. QED
  BY <1>3, <1>4

\* What is found in the Map, or alive in Redis, is a copy that has not expired.
LEMMA FoundCopies ==
  ASSUME NEW k \in Keys
  PROVE  \A e \in Found(memory, k) :
           [val |-> e.val, exp |-> e.exp] \in CopiesOf(k) /\ e.exp > now
  BY DEF Found, CopiesOf

\* The same of Redis.
LEMMA AliveCopies ==
  ASSUME TypeOK, NEW k \in Keys
  PROVE  \A e \in Alive(k) : [val |-> e.val, exp |-> e.exp] \in CopiesOf(k) /\ e.exp > now
<1> SUFFICES ASSUME NEW e \in Alive(k)
             PROVE  [val |-> e.val, exp |-> e.exp] \in CopiesOf(k) /\ e.exp > now
  OBVIOUS
<1>1. e \in redis[k] /\ e \in Copy /\ e.exp > now
  BY DEF Alive, TypeOK
<1>2. [val |-> e.val, exp |-> e.exp] = e
  BY <1>1 DEF Copy
<1>3. QED
  BY <1>1, <1>2 DEF CopiesOf

\* Every step of the cache is a step of its promise, or none.
LEMMA PromiseNext ==
  TypeOK /\ TypeOK' /\ Wired /\ [Next]_vars => [Promise!BNext]_(Promise!bvars)
<1> SUFFICES ASSUME TypeOK, TypeOK', Wired, [Next]_vars
             PROVE  Promise!BNext \/ UNCHANGED Promise!bvars
  OBVIOUS
<1>1. memory \in Seq(Entry) /\ written + 1 \in Nat /\ now \in Nat
  BY DEF TypeOK
<1>2. \A k : /\ Range(Without(memory, k)) \subseteq Range(memory)
             /\ Range(AfterLook(memory, k)) \subseteq Range(memory)
  BY <1>1, WithoutKeeps, AfterLookKeeps
<1>3. ASSUME UNCHANGED stores PROVE \A q \in Keys : CopiesOf(q)' = CopiesOf(q)
  BY <1>3 DEF stores, CopiesOf
<1>4. ASSUME NEW i \in Clients, wire[i] # <<>>
      PROVE  call[Head(wire[i])] \in Call
  BY <1>4, AtHead, NotIdle DEF Wired
<1>5. ASSUME NEW k \in Keys, NEW v \in Nat, memory' = StoredIn(memory, EntryOf(k, v))
      PROVE  Range(memory') \subseteq Range(memory) \cup {EntryOf(k, v)}
  BY <1>1, <1>5, EntryTyped, StoredInKeeps
<1>6. ASSUME NEW i \in Clients, RedisAnswers(i) PROVE Promise!BNext
  <2> DEFINE r == call[Head(wire[i])]
  <2>1. r \in Call
    BY <1>4, <1>6 DEF RedisAnswers
  <2>2. /\ Execute(r) /\ now' = now
        /\ \/ r.do # "get" /\ Silent
              /\ (memory' = memory \/ memory' = Without(memory, r.key))
           \/ r.do = "get" /\ Serve(r.key, Alive(r.key), r.floor) /\ memory' = memory
    BY <1>6 DEF RedisAnswers
  <2> HIDE DEF r
  <2>3. r.key \in Keys /\ r.val \in Nat
    BY <2>1 DEF Call
  <2>4. Range(memory') \subseteq Range(memory)
    BY <1>2, <2>2
  <2>5. \/ \A q \in Keys : CopiesOf(q)' \subseteq CopiesOf(q)
        \/ /\ r.do = "set"
           /\ \A q \in Keys : CopiesOf(q)' \subseteq CopiesOf(q) \cup
                (IF q = r.key THEN {[val |-> r.val, exp |-> now + Ttl[r.key]]} ELSE {})
    BY <2>1, <2>2, <2>4, ExecuteAdds
  <2>6. CASE Silent
    BY <2>2, <2>3, <2>5, <2>6, Silence
  <2>7. CASE r.do = "get" /\ Serve(r.key, Alive(r.key), r.floor)
    <3>1. \A q \in Keys : CopiesOf(q)' \subseteq CopiesOf(q)
      BY <2>5, <2>7
    <3>2. QED
      BY <2>2, <2>3, <2>7, <3>1, AliveCopies, Service
  <2>8. QED
    BY <2>2, <2>6, <2>7
<1>7. ASSUME NEW i \in Clients, AnswerLost(i) PROVE Promise!BNext
  <2> DEFINE r == call[Head(wire[i])]
  <2>1. r \in Call /\ Execute(r) /\ now' = now /\ Silent /\ memory' = memory
    BY <1>4, <1>7 DEF AnswerLost
  <2> HIDE DEF r
  <2>2. r.key \in Keys /\ r.val \in Nat
    BY <2>1 DEF Call
  <2>3. \/ \A q \in Keys : CopiesOf(q)' \subseteq CopiesOf(q)
        \/ \A q \in Keys : CopiesOf(q)' \subseteq CopiesOf(q) \cup
             (IF q = r.key THEN {[val |-> r.val, exp |-> now + Ttl[r.key]]} ELSE {})
    BY <2>1, ExecuteAdds
  <2>4. QED
    BY <2>1, <2>2, <2>3, Silence
<1>8. ASSUME NEW i \in Clients, CommandFails(i) PROVE Promise!BNext
  <2> DEFINE r == call[Head(wire[i])]
  <2>1. r \in Call
    BY <1>4, <1>8 DEF CommandFails
  <2>2. /\ now' = now /\ redis' = redis
        /\ \/ memory' = StoredIn(memory, EntryOf(r.key, r.val)) /\ Silent
           \/ memory' = Without(memory, r.key) /\ Silent
           \/ /\ memory' = IF r.key \in SearchKeys THEN AfterLook(memory, r.key) ELSE memory
              /\ Serve(r.key, IF r.key \in SearchKeys THEN Found(memory, r.key) ELSE {}, r.floor)
    BY <1>8 DEF CommandFails
  <2> HIDE DEF r
  <2>3. r.key \in Keys /\ r.val \in Nat
    BY <2>1 DEF Call
  <2>4. CASE memory' = StoredIn(memory, EntryOf(r.key, r.val)) /\ Silent
    <3>1. \A q \in Keys : CopiesOf(q)' \subseteq
            CopiesOf(q) \cup (IF q = r.key THEN {[val |-> r.val, exp |-> now + Ttl[r.key]]} ELSE {})
      BY <1>5, <2>2, <2>3, <2>4, EntryAdds
    <3>2. QED
      BY <2>2, <2>3, <2>4, <3>1, Silence
  <2>5. CASE ~(memory' = StoredIn(memory, EntryOf(r.key, r.val)) /\ Silent)
    <3>1. \A q \in Keys : CopiesOf(q)' \subseteq CopiesOf(q)
      BY <1>2, <2>2, <2>5, CopiesKept
    <3>2. CASE Silent
      BY <2>2, <2>3, <3>1, <3>2, Silence
    <3>3. CASE Serve(r.key, IF r.key \in SearchKeys THEN Found(memory, r.key) ELSE {}, r.floor)
      BY <2>2, <2>3, <3>1, <3>3, FoundCopies, Service
    <3>4. QED
      BY <2>2, <2>5, <3>2, <3>3
  <2>6. QED
    BY <2>4, <2>5
<1>9. ASSUME NEW c \in Callers, NEW k \in Keys, Set(c, k) PROVE Promise!BNext
  <2>1. now' = now /\ redis' = redis /\ Silent
    BY <1>9 DEF Set
  <2>2. CASE memory' = memory
    <3>1. \A q \in Keys : CopiesOf(q)' \subseteq CopiesOf(q)
      BY <1>3, <2>1, <2>2 DEF stores
    <3>2. QED
      BY <1>1, <2>1, <3>1, Silence
  <2>3. CASE memory' = StoredIn(memory, EntryOf(k, written + 1))
    <3>1. \A q \in Keys : CopiesOf(q)' \subseteq
            CopiesOf(q) \cup (IF q = k THEN {[val |-> written + 1, exp |-> now + Ttl[k]]} ELSE {})
      BY <1>1, <1>5, <2>1, <2>3, EntryAdds
    <3>2. QED
      BY <1>1, <2>1, <3>1, Silence
  <2>4. QED
    BY <1>9, <2>2, <2>3 DEF Set
<1>10. ASSUME NEW c \in Callers, NEW k \in Keys, Delete(c, k) PROVE Promise!BNext
  <2>1. /\ now' = now /\ redis' = redis /\ Silent
        /\ memory' = memory \/ memory' = Without(memory, k)
    BY <1>10 DEF Delete
  <2>2. \A q \in Keys : CopiesOf(q)' \subseteq CopiesOf(q)
    BY <1>2, <2>1, CopiesKept
  <2>3. QED
    BY <1>1, <2>1, <2>2, Silence
<1>11. ASSUME NEW c \in Callers, NEW k \in Keys, GetSearch(c, k) \/ GetResult(c, k)
       PROVE  Promise!BNext
  <2>1. /\ now' = now /\ redis' = redis
        /\ memory' = memory \/ memory' = AfterLook(memory, k)
        /\ Silent \/ Serve(k, Found(memory, k), floor[k])
    BY <1>11 DEF GetSearch, GetResult
  <2>2. \A q \in Keys : CopiesOf(q)' \subseteq CopiesOf(q)
    BY <1>2, <2>1, CopiesKept
  <2>3. CASE Silent
    BY <1>1, <2>1, <2>2, <2>3, Silence
  <2>4. CASE Serve(k, Found(memory, k), floor[k])
    BY <2>1, <2>2, <2>4, FoundCopies, Service
  <2>5. QED
    BY <2>1, <2>3, <2>4
<1>12. ASSUME Silent, UNCHANGED <<now, stores>> PROVE Promise!BNext
  <2>1. \A q \in Keys : CopiesOf(q)' = CopiesOf(q)
    BY <1>3, <1>12
  <2>2. Promise!Forget
    BY <2>1 DEF Promise!Forget
  <2>3. Promise!Miss
    BY <1>12 DEF Silent, Promise!Miss, Served
  <2>4. QED
    BY <1>12, <2>2, <2>3, NextCopies DEF Promise!BNext
<1>13. ASSUME NEW i \in Clients, ConnectionReady(i) \/ ConnectionLost(i) \/ Reconnect(i)
       PROVE  Promise!BNext
  BY <1>12, <1>13 DEF ConnectionReady, ConnectionLost, Reconnect
<1>14. CASE InitializeCache
  BY <1>12, <1>14 DEF InitializeCache
<1>15. CASE Tick
  <2>1. now' = now + 1 /\ Silent /\ UNCHANGED stores
    BY <1>15 DEF Tick
  <2>2. \A q \in Keys : CopiesOf(q)' = CopiesOf(q)
    BY <1>3, <2>1
  <2>3. Promise!Pass
    BY <2>1, <2>2 DEF Silent, Promise!Pass, Served
  <2>4. QED
    BY <2>3 DEF Promise!BNext
<1>16. CASE UNCHANGED vars
  BY <1>16 DEF vars, stores, CopiesOf, Served, Promise!bvars
<1>17. QED
  BY <1>6, <1>7, <1>8, <1>9, <1>10, <1>11, <1>13, <1>14, <1>15, <1>16 DEF Next, Keys

\* The two stores, the connection and the overlapping calls implement the cache that never
\* serves a copy after its time.
THEOREM CacheImplementsPromise == Spec => ImplementsPromise
<1>1. Init => Promise!BInit
  <2> SUFFICES ASSUME Init PROVE Promise!BInit
    OBVIOUS
  <2>1. now = 0 /\ answer = NoAnswer /\ memory = <<>> /\ \A k \in Keys : redis[k] = {}
    BY DEF Init
  <2>2. Range(memory) = {}
    BY <2>1 DEF Range
  <2>3. \A k \in Keys : CopiesOf(k) = {}
    BY <2>1, <2>2 DEF CopiesOf
  <2>4. QED
    BY <2>1, <2>3 DEF Promise!BInit, Served
<1>2. CacheInv /\ CacheInv' /\ [Next]_vars => [Promise!BNext]_(Promise!bvars)
  BY PromiseNext DEF CacheInv
<1>3. QED
  BY <1>1, <1>2, CacheInvariant, PTL DEF Spec, ImplementsPromise, Promise!BSpec

(***************************************************************************)
(* The scrape queue.                                                       *)
(***************************************************************************)
\* The writers, the readers and the consumer have their types.
ConnectionTyped ==
  /\ inits \in 0..MaxInits
  /\ waiting \subseteq Inits /\ closed \subseteq Inits
  /\ socket \in [Inits -> {"unborn", "connecting", "ready", "failed"}]
  /\ writer \in {0} \cup Inits /\ reader \in {0} \cup Inits
  /\ consumer \in [running : BOOLEAN, reads : {0} \cup Inits, awaits : {0} \cup Inits]

\* The results that are stored, or were only in memory when the process stopped.
Ever == results \cup kept \cup lost

\* So have the messages, the calls and what they leave behind.
QueueTyped ==
  /\ internal \in BOOLEAN /\ clock \in 0..MaxMillis
  /\ topic \in Seq(Message) /\ Len(topic) <= MaxMessages
  /\ task \in [Tasks -> Task]
  /\ Ever \subseteq Key \X Requests
  /\ asked \subseteq (0..MaxMillis) \X Requests

\* A call that is under way knows its page, and one that stores has a page.
Equipped ==
  \A t \in Tasks :
    /\ task[t].at # "idle" => task[t].page \in Requests /\ <<task[t].job, task[t].page>> \in asked
    /\ task[t].at = "store" => task[t].got \in Requests

\* A handler is at work exactly on the messages that are held.
Handled ==
  \A m \in Messages : task[m].at # "idle" <=> m \in Known /\ topic[m].at = "held"

\* What is finished, or about to be, has its result stored.
Stored ==
  \A m \in Messages :
    (m \in Known /\ topic[m].at = "finished") \/ task[m].at = "finish" =>
      \E p \in Requests : <<MsgKey(m), p>> \in Ever

\* What is stored under the id of a job was asked for in its millisecond.
Dated ==
  \A j \in Nat : \A p \in Requests : <<JobKey(j), p>> \in Ever => <<j, p>> \in asked

\* The inductive invariant of the jobs.
Jobs == QueueTyped /\ Equipped /\ Handled /\ Stored /\ Dated /\ RightPage

\* A call by a caller is not one for a message.
LEMMA RequestsAreNoMessages == Requests \cap Messages = {}
  BY QueueAssumption DEF Messages

\* What becomes of the results in the steps of the queue.
LEMMA StoredKept == UNCHANGED stored => UNCHANGED Ever
  BY DEF stored, Ever

LEMMA StoreAdds ==
  ASSUME NEW k, NEW p, Store(k, p)
  PROVE  Ever' = Ever \cup {<<k, p>>}
  BY DEF Store, Ever

LEMMA FoundStored ==
  ASSUME NEW k, NEW p, Result(k, p)
  PROVE  <<k, p>> \in Ever
  BY DEF Result, Ever

\* It holds, with the types of the connection, before anything was asked.
LEMMA QueueInit == QInit => ConnectionTyped /\ Jobs
<1> SUFFICES ASSUME QInit PROVE ConnectionTyped /\ Jobs
  OBVIOUS
<1> USE QueueAssumption DEF QInit
<1>1. ConnectionTyped
  BY DEF ConnectionTyped
<1>2. NoTask \in Task /\ NoTask.at = "idle" /\ NoTask.got = None
  BY DEF NoTask, Task
<1>0. Ever = {}
  BY DEF Ever
<1>3. QueueTyped
  <2>1. task \in [Tasks -> Task]
    BY <1>2
  <2>2. topic \in Seq(Message) /\ Len(topic) = 0
    OBVIOUS
  <2>3. QED
    BY <1>0, <2>1, <2>2 DEF QueueTyped
<1>4. \A t \in Tasks : task[t] = NoTask
  OBVIOUS
<1>5. Known = {}
  BY DEF Known, Messages
<1>6. Equipped /\ Handled /\ Stored /\ Dated /\ RightPage
  BY <1>0, <1>2, <1>4, <1>5 DEF Equipped, Handled, Stored, Dated, RightPage, Tasks
<1>7. QED
  BY <1>1, <1>3, <1>6 DEF Jobs

\* Every step keeps the types of the connection.
LEMMA ConnectionNext == ConnectionTyped /\ [QNext]_qvars => ConnectionTyped'
<1> SUFFICES ASSUME ConnectionTyped, [QNext]_qvars PROVE ConnectionTyped'
  OBVIOUS
<1> USE QueueAssumption DEF ConnectionTyped
<1>1. ASSUME NEW i, Connect(i)
      PROVE  /\ inits' \in 0..MaxInits /\ waiting' \subseteq Inits /\ closed' \subseteq Inits
             /\ socket' \in [Inits -> {"unborn", "connecting", "ready", "failed"}]
             /\ writer' \in Inits /\ reader' = reader /\ i \in Inits
  BY <1>1 DEF Connect, Inits
<1>2. CASE InitializeQueue
  BY <1>1, <1>2 DEF InitializeQueue
<1>3. CASE RegisterConsumer
  <2>1. CASE consumer' = [running |-> TRUE, reads |-> reader, awaits |-> 0] /\ UNCHANGED connection
    BY <2>1 DEF connection
  <2>2. CASE Connect(inits + 1) /\ consumer' = [consumer EXCEPT !.awaits = inits + 1]
    BY <1>1, <2>2
  <2>3. QED
    BY <1>3, <2>1, <2>2 DEF RegisterConsumer
<1>4. CASE ShutdownQueue
  <2>1. closed' \subseteq Inits
    BY <1>4 DEF ShutdownQueue
  <2>2. consumer' \in [running : BOOLEAN, reads : {0} \cup Inits, awaits : {0} \cup Inits]
    BY <1>4 DEF ShutdownQueue
  <2>3. QED
    BY <1>4, <2>1, <2>2 DEF ShutdownQueue
<1>5. ASSUME NEW i \in Inits, NEW r \in {0} \cup Inits, Attach(i, r)
      PROVE  consumer' \in [running : BOOLEAN, reads : {0} \cup Inits, awaits : {0} \cup Inits]
  BY <1>5 DEF Attach
<1>6. ASSUME NEW i \in Inits, WriterReady(i) PROVE ConnectionTyped'
  BY <1>5, <1>6 DEF WriterReady, Succeed
<1>7. ASSUME NEW i \in Inits, WriterFails(i) PROVE ConnectionTyped'
  BY <1>5, <1>7 DEF WriterFails, Fail
<1>8. ASSUME NEW i \in Inits, InitTimeout(i) PROVE ConnectionTyped'
  BY <1>5, <1>8 DEF InitTimeout, Fail
<1>9. CASE Crash
  BY <1>9 DEF Crash
<1>10. ASSUME NEW c \in Requests, Ask(c) PROVE ConnectionTyped'
  BY <1>10 DEF Ask, connection
<1>11. ASSUME NEW t \in Tasks, TaskStep(t) PROVE ConnectionTyped'
  BY <1>11 DEF TaskStep, HttpPut, SendReturns, LocalScrape, PollFinds, PollGivesUp, ScrapeSync,
     connection
<1>12. ASSUME NEW m \in Messages, Deliver(m) \/ Consume(m) PROVE ConnectionTyped'
  BY <1>12 DEF Deliver, Consume, StoreResult, FinishMessage, Requeue, connection
<1>13. CASE QTick \/ UNCHANGED qvars
  BY <1>13 DEF QTick, qvars, connection
<1>14. QED
  BY <1>2, <1>3, <1>4, <1>6, <1>7, <1>8, <1>9, <1>10, <1>11, <1>12, <1>13 DEF QNext

\* Steps of the connection and of the clock leave the jobs alone.
LEMMA JobsKept ==
  ASSUME Jobs, UNCHANGED <<internal, topic, task, Ever, asked>>, clock' \in 0..MaxMillis
  PROVE  Jobs'
  BY DEF Jobs, QueueTyped, Equipped, Handled, Stored, Dated, RightPage, Known

\* A call goes on, its job and its page as they were.
LEMMA TaskMoves ==
  ASSUME QueueTyped, NEW t \in Tasks, NEW v \in Task, task' = [task EXCEPT ![t] = v]
  PROVE  /\ task' \in [Tasks -> Task] /\ task'[t] = v
         /\ \A u \in Tasks : u # t => task'[u] = task[u]
  BY DEF QueueTyped

\* A call that is under way takes a step: it may publish a message, and leave a result.
LEMMA CallSteps ==
  ASSUME Jobs, NEW t \in Tasks, NEW v \in Task, task' = [task EXCEPT ![t] = v],
         task[t].at # "idle", v.at # "idle", v.job = task[t].job, v.page = task[t].page,
         v.at = "store" => v.got \in Requests,
         v.got # None /\ v.got # v.page => <<v.job, v.got>> \in asked,
         \A m \in Messages : t = m /\ v.at = "finish" =>
           \E p \in Requests : <<MsgKey(m), p>> \in Ever',
         topic' = topic \/ Publish(t),
         Ever \subseteq Ever', Ever' \subseteq Key \X Requests, Dated',
         UNCHANGED <<internal, clock, asked>>
  PROVE  Jobs'
<1> USE QueueAssumption
<1>1. /\ task' \in [Tasks -> Task] /\ task'[t] = v
      /\ \A u \in Tasks : u # t => task'[u] = task[u]
  BY TaskMoves DEF Jobs
<1>2. task[t].job \in Nat /\ task[t].page \in Requests
  BY DEF Jobs, QueueTyped, Equipped, Task
<1>3. /\ topic' \in Seq(Message) /\ Len(topic') <= MaxMessages
      /\ \A m \in Known : m \in Known' /\ topic'[m] = topic[m]
      /\ \A m \in Known' \ Known : topic'[m].at = "queued"
  <2>1. CASE topic' = topic
    BY <2>1 DEF Jobs, QueueTyped, Known
  <2>2. CASE topic' # topic
    <3> DEFINE new == [at |-> "queued", job |-> task[t].job, page |-> task[t].page]
    <3>1. Len(topic) < MaxMessages /\ topic' = Append(topic, new)
      BY <2>2 DEF Publish
    <3>2. new \in Message /\ new.at = "queued"
      BY <1>2 DEF Message
    <3>3. topic \in Seq(Message) /\ Len(topic) \in Nat
      BY DEF Jobs, QueueTyped
    <3> HIDE DEF new
    <3>4. topic' \in Seq(Message) /\ Len(topic') = Len(topic) + 1
      BY <3>1, <3>2, <3>3
    <3>5. \A i \in 1..Len(topic) : topic'[i] = topic[i]
      BY <3>1, <3>2, <3>3
    <3>6. topic'[Len(topic) + 1] = new
      BY <3>1, <3>2, <3>3
    <3>7. Len(topic') <= MaxMessages
      BY <3>1, <3>3, <3>4
    <3>8. \A m \in Known : m \in Known' /\ topic'[m] = topic[m]
      BY <3>3, <3>4, <3>5 DEF Known, Messages
    <3>9. \A m \in Known' \ Known : m = Len(topic) + 1
      BY <3>3, <3>4 DEF Known, Messages
    <3>10. QED
      BY <3>2, <3>4, <3>6, <3>7, <3>8, <3>9
  <2>3. QED
    BY <2>1, <2>2
<1>4. QueueTyped'
  BY <1>1, <1>3 DEF Jobs, QueueTyped
<1>5. Equipped'
  BY <1>1 DEF Jobs, Equipped
<1>6. RightPage'
  BY <1>1 DEF Jobs, RightPage
<1>7. Handled'
  <2> SUFFICES ASSUME NEW m \in Messages
               PROVE  task'[m].at # "idle" <=> m \in Known' /\ topic'[m].at = "held"
    BY DEF Handled
  <2>1. task'[m].at # "idle" <=> task[m].at # "idle"
    BY <1>1 DEF Tasks
  <2>2. QED
    BY <1>3, <2>1 DEF Jobs, Handled
<1>8. Stored'
  <2> SUFFICES ASSUME NEW m \in Messages,
                      (m \in Known' /\ topic'[m].at = "finished") \/ task'[m].at = "finish"
               PROVE  \E p \in Requests : <<MsgKey(m), p>> \in Ever'
    BY DEF Stored
  <2>1. CASE m \in Known' /\ topic'[m].at = "finished"
    BY <1>3, <2>1 DEF Jobs, Stored
  <2>2. CASE task'[m].at = "finish"
    BY <1>1, <2>2 DEF Jobs, Stored, Tasks
  <2>3. QED
    BY <2>1, <2>2
<1>9. QED
  BY <1>4, <1>5, <1>6, <1>7, <1>8 DEF Jobs

\* A message and its handler change together: the consumer takes one, or is done with it.
LEMMA MessageMoves ==
  ASSUME Jobs, NEW m \in Known, NEW a \in {"queued", "held", "finished"}, NEW v \in Task,
         topic' = [topic EXCEPT ![m].at = a], task' = [task EXCEPT ![m] = v],
         v.at # "idle" <=> a = "held",
         v.at # "idle" => v.page \in Requests /\ <<v.job, v.page>> \in asked',
         v.at \notin {"store", "finish"}, v.got = None,
         a = "finished" => \E p \in Requests : <<MsgKey(m), p>> \in Ever,
         asked \subseteq asked', asked' \subseteq (0..MaxMillis) \X Requests,
         UNCHANGED <<internal, clock, Ever>>
  PROVE  Jobs'
<1> USE QueueAssumption
<1>1. m \in Messages /\ m \in Tasks /\ m \in 1..Len(topic)
  BY DEF Known, Messages, Tasks, Jobs, QueueTyped
<1>2. /\ task' \in [Tasks -> Task] /\ task'[m] = v
      /\ \A u \in Tasks : u # m => task'[u] = task[u]
  BY <1>1, TaskMoves DEF Jobs
<1>3. /\ topic' \in Seq(Message) /\ Len(topic') = Len(topic) /\ Known' = Known
      /\ topic'[m].at = a /\ \A n \in Known : n # m => topic'[n] = topic[n]
  <2>1. topic \in Seq(Message) /\ topic[m] \in Message
    BY <1>1 DEF Jobs, QueueTyped
  <2>2. [topic[m] EXCEPT !.at = a] \in Message /\ [topic[m] EXCEPT !.at = a].at = a
    BY <2>1 DEF Message
  <2>3. topic' = [topic EXCEPT ![m] = [topic[m] EXCEPT !.at = a]]
    OBVIOUS
  <2>4. topic' \in Seq(Message) /\ Len(topic') = Len(topic)
    BY <1>1, <2>1, <2>2, <2>3
  <2>5. topic'[m] = [topic[m] EXCEPT !.at = a]
    BY <1>1, <2>1, <2>3
  <2>6. \A n \in 1..Len(topic) : n # m => topic'[n] = topic[n]
    BY <1>1, <2>1, <2>3
  <2>7. \A n \in Known : n \in 1..Len(topic)
    BY <2>1 DEF Known, Messages
  <2>8. QED
    BY <2>2, <2>4, <2>5, <2>6, <2>7 DEF Known
<1>4. QueueTyped'
  BY <1>2, <1>3 DEF Jobs, QueueTyped
<1>5. Equipped'
  BY <1>2 DEF Jobs, Equipped
<1>6. RightPage'
  BY <1>2 DEF Jobs, RightPage
<1>7. Handled'
  BY <1>1, <1>2, <1>3 DEF Jobs, Handled, Tasks
<1>8. Stored'
  <2> SUFFICES ASSUME NEW n \in Messages,
                      (n \in Known' /\ topic'[n].at = "finished") \/ task'[n].at = "finish"
               PROVE  \E p \in Requests : <<MsgKey(n), p>> \in Ever
    BY DEF Stored
  <2>1. CASE n = m
    BY <1>1, <1>2, <1>3, <2>1 DEF Jobs, Stored
  <2>2. CASE n # m
    BY <1>2, <1>3, <2>2 DEF Jobs, Stored, Tasks
  <2>3. QED
    BY <2>1, <2>2
<1>9. Dated'
  BY DEF Jobs, Dated
<1>10. QED
  BY <1>4, <1>5, <1>6, <1>7, <1>8, <1>9 DEF Jobs

\* What a call becomes when it goes on, and when it has a page.
LEMMA GoneOn ==
  ASSUME Jobs, NEW t \in Tasks, task[t].at # "idle", NEW step, Go(t, step),
         step \in {"http", "send", "poll", "local", "sync", "finish", "done"}
  PROVE  \E v \in Task : /\ task' = [task EXCEPT ![t] = v]
                         /\ v.at = step /\ v.job = task[t].job /\ v.page = task[t].page
                         /\ v.got = task[t].got
                         /\ (v.got # None /\ v.got # v.page => <<v.job, v.got>> \in asked)
<1> DEFINE v == [task[t] EXCEPT !.at = step, !.via = 0]
<1>1. task[t] \in Task
  BY DEF Jobs, QueueTyped
<1>2. /\ v \in Task /\ v.at = step /\ v.job = task[t].job /\ v.page = task[t].page
      /\ v.got = task[t].got
  BY <1>1 DEF Task
<1>3. task' = [task EXCEPT ![t] = v]
  BY DEF Go
<1> HIDE DEF v
<1>4. v.got # None /\ v.got # v.page => <<v.job, v.got>> \in asked
  BY <1>2 DEF Jobs, RightPage
<1>5. QED
  BY <1>2, <1>3, <1>4

\* What a call becomes when it has a page.
LEMMA HasPage ==
  ASSUME Jobs, NEW t \in Tasks, task[t].at # "idle", NEW p \in Requests, Have(t, p),
         p # task[t].page => <<task[t].job, p>> \in asked
  PROVE  \E v \in Task : /\ task' = [task EXCEPT ![t] = v]
                         /\ v.at \in {"done", "store"}
                         /\ v.job = task[t].job /\ v.page = task[t].page
                         /\ v.got \in Requests
                         /\ (v.got # None /\ v.got # v.page => <<v.job, v.got>> \in asked)
<1> DEFINE step == IF t \in Requests THEN "done" ELSE "store"
<1> DEFINE v == [task[t] EXCEPT !.at = step, !.got = p]
<1>1. task[t] \in Task
  BY DEF Jobs, QueueTyped
<1>2. step \in {"done", "store"}
  OBVIOUS
<1>3. task' = [task EXCEPT ![t] = v]
  BY DEF Have
<1> HIDE DEF step
<1>4. v \in Task /\ v.at = step /\ v.job = task[t].job /\ v.page = task[t].page /\ v.got = p
  BY <1>1, <1>2 DEF Task
<1> HIDE DEF v
<1>5. QED
  BY <1>2, <1>3, <1>4

\* No step of a call of scrapePage breaks the invariant.
LEMMA TaskStepKeeps == ASSUME Jobs, NEW t \in Tasks, TaskStep(t) PROVE Jobs'
<1> USE QueueAssumption
<1>1. /\ task[t].job \in Nat
      /\ task[t].at # "idle" => task[t].page \in Requests /\ <<task[t].job, task[t].page>> \in asked
  BY DEF Jobs, QueueTyped, Task, Equipped
<1>2. Ever \subseteq Key \X Requests /\ (UNCHANGED <<Ever, asked>> => Dated')
  BY DEF Jobs, QueueTyped, Dated
<1>3. ASSUME task[t].at # "idle", NEW step, Go(t, step), step \in {"poll", "local", "sync", "done"},
             topic' = topic \/ Publish(t), UNCHANGED <<internal, clock, Ever, asked>>
      PROVE  Jobs'
  <2>1. PICK v \in Task : /\ task' = [task EXCEPT ![t] = v]
                          /\ v.at = step /\ v.job = task[t].job /\ v.page = task[t].page
                          /\ (v.got # None /\ v.got # v.page => <<v.job, v.got>> \in asked)
    BY <1>3, GoneOn
  <2>2. QED
    BY <1>2, <1>3, <2>1, CallSteps
<1>4. ASSUME task[t].at # "idle", NEW p \in Requests, Have(t, p),
             p # task[t].page => <<task[t].job, p>> \in asked,
             Ever \subseteq Ever', Ever' \subseteq Key \X Requests, Dated',
             UNCHANGED <<internal, clock, topic, asked>>
      PROVE  Jobs'
  <2>1. PICK v \in Task : /\ task' = [task EXCEPT ![t] = v]
                          /\ v.at \in {"done", "store"}
                          /\ v.job = task[t].job /\ v.page = task[t].page /\ v.got \in Requests
                          /\ (v.got # None /\ v.got # v.page => <<v.job, v.got>> \in asked)
    BY <1>4, HasPage
  <2>2. v.at # "idle" /\ v.at # "finish"
    BY <2>1
  <2>3. QED
    BY <1>4, <2>1, <2>2, CallSteps
<1>5. CASE HttpPut(t)
  BY <1>3, <1>5, StoredKept DEF HttpPut, connection
<1>6. CASE SendReturns(t)
  BY <1>3, <1>6, StoredKept DEF SendReturns, connection
<1>7. CASE LocalScrape(t)
  <2>1. CASE /\ Have(t, task[t].page)
             /\ Store(JobKey(task[t].job), task[t].page)
    <3>1. task[t].page \in Requests /\ <<task[t].job, task[t].page>> \in asked
      BY <1>1, <1>7 DEF LocalScrape
    <3>0. Ever' = Ever \cup {<<JobKey(task[t].job), task[t].page>>}
      BY <2>1, StoreAdds
    <3>2. Ever \subseteq Ever' /\ Ever' \subseteq Key \X Requests
      BY <1>1, <1>2, <3>0, <3>1 DEF Key, JobKey
    <3>3. Dated'
      <4> SUFFICES ASSUME NEW j \in Nat, NEW p \in Requests, <<JobKey(j), p>> \in Ever'
                   PROVE  <<j, p>> \in asked'
        BY DEF Dated
      <4>1. asked' = asked
        BY <1>7 DEF LocalScrape
      <4>2. CASE <<JobKey(j), p>> \in Ever
        BY <4>1, <4>2 DEF Jobs, Dated
      <4>3. CASE <<JobKey(j), p>> = <<JobKey(task[t].job), task[t].page>>
        BY <3>1, <4>1, <4>3 DEF JobKey
      <4>4. QED
        BY <3>0, <4>2, <4>3
    <3>4. QED
      BY <1>4, <1>7, <2>1, <3>1, <3>2, <3>3 DEF LocalScrape
  <2>2. CASE Go(t, "sync") /\ UNCHANGED stored
    BY <1>3, <1>7, <2>2, StoredKept DEF LocalScrape
  <2>3. QED
    BY <1>7, <2>1, <2>2 DEF LocalScrape
<1>8. CASE PollFinds(t)
  <2>1. PICK p \in Requests : <<JobKey(task[t].job), p>> \in Ever /\ Have(t, p)
    BY <1>8, FoundStored DEF PollFinds
  <2>2. <<task[t].job, p>> \in asked
    BY <1>1, <2>1 DEF Jobs, Dated
  <2>3. QED
    BY <1>2, <1>4, <1>8, <2>1, <2>2, StoredKept DEF PollFinds
<1>9. CASE PollGivesUp(t)
  BY <1>3, <1>9, StoredKept DEF PollGivesUp
<1>10. CASE ScrapeSync(t)
  <2>1. task[t].page \in Requests /\ task[t].at # "idle"
    BY <1>1, <1>10 DEF ScrapeSync
  <2>2. CASE Have(t, task[t].page)
    BY <1>2, <1>4, <1>10, <2>1, <2>2, StoredKept DEF ScrapeSync
  <2>3. CASE Go(t, "done")
    BY <1>3, <1>10, <2>1, <2>3, StoredKept DEF ScrapeSync
  <2>4. QED
    BY <1>10, <2>2, <2>3 DEF ScrapeSync
<1>11. QED
  BY <1>5, <1>6, <1>7, <1>8, <1>9, <1>10 DEF TaskStep

\* No step of the consumer does.
LEMMA ConsumerKeeps ==
  ASSUME Jobs, ConnectionTyped, NEW m \in Messages, Deliver(m) \/ Consume(m)
  PROVE  Jobs'
<1> USE QueueAssumption
<1>1. m \in Tasks /\ m \notin Requests
  BY RequestsAreNoMessages DEF Tasks
<1>2. NoTask \in Task /\ NoTask.at = "idle" /\ NoTask.got = None
  BY DEF NoTask, Task
<1>3. asked \subseteq (0..MaxMillis) \X Requests /\ clock \in 0..MaxMillis
  BY DEF Jobs, QueueTyped
<1>4. CASE Deliver(m)
  <2> DEFINE v == Started(topic[m].page)
  <2>1. m \in Known /\ topic[m] \in Message
    BY <1>4 DEF Deliver, Known, Messages, Jobs, QueueTyped
  <2>2. topic[m].page \in Requests
    BY <2>1 DEF Message
  <2>3. /\ v \in Task /\ v.at \in {"local", "http", "send"} /\ v.got = None
        /\ v.job = clock /\ v.page = topic[m].page
    BY <1>3, <2>2 DEF Started, Task, ConnectionTyped, Inits
  <2>4. /\ topic' = [topic EXCEPT ![m].at = "held"] /\ task' = [task EXCEPT ![m] = v]
        /\ asked' = asked \cup {<<clock, topic[m].page>>}
        /\ UNCHANGED <<internal, clock, Ever>>
    BY <1>4, StoredKept DEF Deliver
  <2> HIDE DEF v
  <2>5. asked \subseteq asked' /\ asked' \subseteq (0..MaxMillis) \X Requests
    BY <1>3, <2>2, <2>4
  <2>6. <<v.job, v.page>> \in asked'
    BY <2>3, <2>4
  <2>7. v.at # "idle" /\ v.at \notin {"store", "finish"} /\ v.page \in Requests
    BY <2>2, <2>3
  <2>8. QED
    BY <2>1, <2>3, <2>4, <2>5, <2>6, <2>7, MessageMoves
<1>5. CASE StoreResult(m)
  <2>1. task[m].at # "idle" /\ task[m].got \in Requests
    BY <1>1, <1>5 DEF StoreResult, Jobs, Equipped
  <2>2. Ever' = Ever \cup {<<MsgKey(m), task[m].got>>}
    BY <1>5, StoreAdds DEF StoreResult
  <2>3. Ever \subseteq Ever' /\ Ever' \subseteq Key \X Requests
    BY <2>1, <2>2 DEF Jobs, QueueTyped, Key, MsgKey
  <2>4. Dated'
    BY <1>5, <2>2 DEF StoreResult, Jobs, Dated, JobKey, MsgKey
  <2>5. PICK v \in Task : /\ task' = [task EXCEPT ![m] = v]
                          /\ v.at = "finish" /\ v.job = task[m].job /\ v.page = task[m].page
                          /\ (v.got # None /\ v.got # v.page => <<v.job, v.got>> \in asked)
    BY <1>1, <1>5, <2>1, GoneOn DEF StoreResult
  <2>6. v.at # "idle" /\ v.at # "store"
    BY <2>5
  <2>7. <<MsgKey(m), task[m].got>> \in Ever'
    BY <2>2
  <2>8. UNCHANGED <<internal, clock, topic, asked>>
    BY <1>5 DEF StoreResult
  <2>9. QED
    BY <1>1, <2>1, <2>3, <2>4, <2>5, <2>6, <2>7, <2>8, CallSteps
<1>6. CASE FinishMessage(m)
  <2>1. m \in Known
    BY <1>6 DEF FinishMessage, Jobs, Handled
  <2>2. \E p \in Requests : <<MsgKey(m), p>> \in Ever
    BY <1>6 DEF FinishMessage, Jobs, Stored
  <2>3. QED
    BY <1>2, <1>3, <1>6, <2>1, <2>2, MessageMoves, StoredKept DEF FinishMessage
<1>7. CASE Requeue(m)
  <2>1. m \in Known
    BY <1>7 DEF Requeue, Jobs, Handled
  <2>2. QED
    BY <1>2, <1>3, <1>7, <2>1, MessageMoves, StoredKept DEF Requeue
<1>8. QED
  BY <1>4, <1>5, <1>6, <1>7 DEF Consume

\* Nor does a caller that asks.
LEMMA AskKeeps == ASSUME Jobs, ConnectionTyped, NEW c \in Requests, Ask(c) PROVE Jobs'
<1> USE QueueAssumption
<1> DEFINE v == Started(c)
<1>1. clock \in 0..MaxMillis
  BY DEF Jobs, QueueTyped
<1>2. /\ v \in Task /\ v.at \in {"local", "http", "send"} /\ v.got = None
      /\ v.job = clock /\ v.page = c
  BY <1>1 DEF Started, Task, ConnectionTyped, Inits
<1>3. /\ task' = [task EXCEPT ![c] = v] /\ asked' = asked \cup {<<clock, c>>}
      /\ UNCHANGED <<internal, clock, topic, Ever>>
  BY StoredKept DEF Ask
<1> HIDE DEF v
<1>4. c \in Tasks /\ c \notin Messages
  BY RequestsAreNoMessages DEF Tasks
<1>5. /\ task' \in [Tasks -> Task] /\ task'[c] = v
      /\ \A u \in Tasks : u # c => task'[u] = task[u]
  BY <1>2, <1>3, <1>4, TaskMoves DEF Jobs
<1>6. QueueTyped'
  BY <1>1, <1>3, <1>5 DEF Jobs, QueueTyped
<1>7. Equipped'
  BY <1>2, <1>3, <1>5 DEF Jobs, Equipped
<1>8. \A m \in Messages : task'[m] = task[m]
  BY <1>4, <1>5 DEF Tasks
<1>9. Handled' /\ Stored'
  BY <1>3, <1>8 DEF Jobs, Handled, Stored, Known
<1>10. Dated'
  BY <1>3 DEF Jobs, Dated
<1>11. RightPage'
  BY <1>2, <1>3, <1>5 DEF Jobs, RightPage
<1>12. QED
  BY <1>6, <1>7, <1>9, <1>10, <1>11 DEF Jobs

\* Nor does a process that stops and starts again.
LEMMA CrashKeeps == ASSUME Jobs, Crash PROVE Jobs'
<1> USE QueueAssumption
<1>1. /\ UNCHANGED <<internal, clock, Ever, asked>>
      /\ task' = [t \in Tasks |-> IF t \in Requests /\ task[t].at # "idle"
                                  THEN [task[t] EXCEPT !.at = "done"] ELSE NoTask]
      /\ topic' = [m \in DOMAIN topic |-> IF topic[m].at = "held"
                                          THEN [topic[m] EXCEPT !.at = "queued"] ELSE topic[m]]
  BY DEF Crash, Ever
<1>2. NoTask \in Task /\ NoTask.at = "idle" /\ NoTask.got = None
  BY DEF NoTask, Task
<1>3. ASSUME NEW t \in Tasks
      PROVE  /\ task'[t] \in Task /\ task'[t].at \in {"idle", "done"}
             /\ t \in Messages => task'[t].at = "idle"
             /\ \/ task'[t] = NoTask
                \/ /\ task[t].at # "idle" /\ task'[t].job = task[t].job
                   /\ task'[t].page = task[t].page /\ task'[t].got = task[t].got
  <2>1. task[t] \in Task
    BY DEF Jobs, QueueTyped
  <2>2. CASE t \in Requests /\ task[t].at # "idle"
    <3>1. task'[t] = [task[t] EXCEPT !.at = "done"]
      BY <1>1, <2>2
    <3>2. QED
      BY <2>1, <2>2, <3>1, RequestsAreNoMessages DEF Task
  <2>3. CASE ~(t \in Requests /\ task[t].at # "idle")
    <3>1. task'[t] = NoTask
      BY <1>1, <2>3
    <3>2. QED
      BY <1>2, <3>1
  <2>4. QED
    BY <2>2, <2>3
<1>4. task' \in [Tasks -> Task]
  <2>1. task' = [t \in Tasks |-> task'[t]]
    BY <1>1
  <2>2. QED
    BY <1>3, <2>1
<1>5. topic \in Seq(Message) /\ Len(topic) \in Nat /\ DOMAIN topic = 1..Len(topic)
  BY DEF Jobs, QueueTyped
<1>6. ASSUME NEW m \in 1..Len(topic)
      PROVE  /\ topic'[m] \in Message /\ topic'[m].at # "held"
             /\ topic'[m].at = "finished" => topic[m].at = "finished"
  <2>1. topic[m] \in Message
    BY <1>5
  <2>2. topic'[m] = IF topic[m].at = "held" THEN [topic[m] EXCEPT !.at = "queued"] ELSE topic[m]
    BY <1>1, <1>5
  <2>3. QED
    BY <2>1, <2>2 DEF Message
<1>7. topic' \in Seq(Message) /\ Len(topic') = Len(topic)
  <2>1. topic' = [m \in 1..Len(topic) |-> topic'[m]]
    BY <1>1, <1>5
  <2>2. \A m \in 1..Len(topic) : topic'[m] \in Message
    BY <1>6
  <2>3. topic' \in [1..Len(topic) -> Message]
    BY <2>1, <2>2
  <2>4. QED
    BY <1>5, <2>3
<1>8. Known' = Known /\ \A m \in Known : m \in 1..Len(topic)
  BY <1>5, <1>7 DEF Known, Messages
<1>9. QueueTyped'
  BY <1>1, <1>4, <1>7 DEF Jobs, QueueTyped
<1>10. Equipped'
  BY <1>1, <1>2, <1>3 DEF Jobs, Equipped
<1>11. Handled' /\ Stored'
  <2>1. \A m \in Messages : task'[m].at = "idle"
    BY <1>3 DEF Tasks
  <2>2. QED
    BY <1>1, <1>6, <1>8, <2>1 DEF Jobs, Handled, Stored
<1>12. Dated'
  BY <1>1 DEF Jobs, Dated
<1>13. RightPage'
  BY <1>1, <1>2, <1>3 DEF Jobs, RightPage
<1>14. QED
  BY <1>9, <1>10, <1>11, <1>12, <1>13 DEF Jobs

\* Every step keeps the jobs in order.
LEMMA JobsNext == Jobs /\ ConnectionTyped /\ [QNext]_qvars => Jobs'
<1> SUFFICES ASSUME Jobs, ConnectionTyped, [QNext]_qvars PROVE Jobs'
  OBVIOUS
<1>1. CASE InitializeQueue \/ RegisterConsumer \/ ShutdownQueue
  <2>1. clock' \in 0..MaxMillis /\ UNCHANGED <<internal, topic, task, Ever, asked>>
    BY <1>1, StoredKept DEF InitializeQueue, RegisterConsumer, ShutdownQueue, Jobs, QueueTyped
  <2>2. QED
    BY <2>1, JobsKept
<1>2. ASSUME NEW i \in Inits, WriterReady(i) \/ WriterFails(i) \/ InitTimeout(i) PROVE Jobs'
  <2>1. clock' \in 0..MaxMillis /\ UNCHANGED <<internal, topic, task, Ever, asked>>
    BY <1>2, StoredKept DEF WriterReady, WriterFails, InitTimeout, Jobs, QueueTyped
  <2>2. QED
    BY <2>1, JobsKept
<1>3. CASE QTick \/ UNCHANGED qvars
  <2>1. clock' \in 0..MaxMillis /\ UNCHANGED <<internal, topic, task, Ever, asked>>
    BY <1>3, QueueAssumption, StoredKept DEF QTick, qvars, Jobs, QueueTyped
  <2>2. QED
    BY <2>1, JobsKept
<1>4. QED
  BY <1>1, <1>2, <1>3, AskKeeps, TaskStepKeeps, ConsumerKeeps, CrashKeeps DEF QNext

\* The connection and the jobs keep to their invariants.
LEMMA QueueInvariant == QSpec => [](ConnectionTyped /\ Jobs)
<1>1. QInit => ConnectionTyped /\ Jobs
  BY QueueInit
<1>2. ConnectionTyped /\ Jobs /\ [QNext]_qvars => (ConnectionTyped /\ Jobs)'
  BY ConnectionNext, JobsNext
<1>3. QED
  BY <1>1, <1>2, PTL DEF QSpec

\* Every variable of the queue has its type, however often it is initialised.
THEOREM QueuesTyped == QSpec => []QTypeOK
<1>1. ConnectionTyped /\ Jobs => QTypeOK
  BY DEF ConnectionTyped, Jobs, QueueTyped, QTypeOK, Ever
<1>2. QED
  BY <1>1, QueueInvariant, PTL

\* A job that was published is not lost (handleMessage): a handler is at work on what
\* is held, and what is finished has its result, whatever stops in between, or had it
\* only in the memory of a process that stopped.
THEOREM JobsAreNotLost == QSpec => []NoJobLost
<1>1. ConnectionTyped /\ Jobs => NoJobLost
  BY DEF Jobs, Handled, Stored, NoJobLost, Known, Ever
<1>2. QED
  BY <1>1, QueueInvariant, PTL

\* A caller is given the page it asked for, or one that was asked for in the same
\* millisecond (scrapePage).
THEOREM PagesAreRight == QSpec => []RightPage
<1>1. ConnectionTyped /\ Jobs => RightPage
  BY DEF Jobs
<1>2. QED
  BY <1>1, QueueInvariant, PTL

=============================================================================
