------------------------ MODULE EventBroadcast_proofs ------------------------
(***************************************************************************)
(* Theorems about EventBroadcast, for any number of processes, sessions,    *)
(* websockets, events and lost connections.                                 *)
(***************************************************************************)
EXTENDS EventBroadcast, SequenceTheorems, FiniteSetTheorems, TLAPS

(***************************************************************************)
(* Queues of events, as the sets of their elements.                         *)
(***************************************************************************)
Sorted(q) == \A i, j \in DOMAIN q : i < j => q[i] <= q[j]

\* No element of one set is after one of the other.
Before(A, B) == \A a \in A, b \in B : a <= b

LEMMA Elements ==
  ASSUME NEW S, NEW q \in Seq(S)
  PROVE  /\ ToSet(q) \subseteq S
         /\ \A x : x \in ToSet(q) <=> \E i \in DOMAIN q : q[i] = x
         /\ ToSet(<<>>) = {} /\ Sorted(<<>>)
<1>1. /\ Len(q) \in Nat /\ q \in [1..Len(q) -> S] /\ DOMAIN q = 1..Len(q)
  BY LenProperties
<1>2. ToSet(q) = {q[i] : i \in DOMAIN q} /\ ToSet(<<>>) = {<<>>[i] : i \in DOMAIN <<>>}
  BY DEF ToSet
<1>3. DOMAIN <<>> = {}
  OBVIOUS
<1>4. ToSet(<<>>) = {}
  BY <1>2, <1>3
<1>5. Sorted(<<>>)
  BY <1>3 DEF Sorted
<1> QED
  BY <1>1, <1>2, <1>4, <1>5

LEMMA Appending ==
  ASSUME NEW S \in SUBSET Nat, NEW q \in Seq(S), NEW e \in S
  PROVE  /\ Append(q, e) \in Seq(S)
         /\ ToSet(Append(q, e)) = ToSet(q) \cup {e}
         /\ Sorted(q) /\ Before(ToSet(q), {e}) => Sorted(Append(q, e))
<1> DEFINE r == Append(q, e)
<1>1. /\ r \in Seq(S) /\ Len(r) = Len(q) + 1
      /\ \A i \in 1..Len(q) : r[i] = q[i]
      /\ r[Len(q) + 1] = e
  BY AppendProperties
<1>2. /\ Len(q) \in Nat /\ DOMAIN q = 1..Len(q) /\ DOMAIN r = 1..(Len(q) + 1)
  BY <1>1, LenProperties
<1> HIDE DEF r
<1>0. /\ \A x : x \in ToSet(r) <=> \E i \in DOMAIN r : r[i] = x
      /\ \A x : x \in ToSet(q) <=> \E i \in DOMAIN q : q[i] = x
  BY <1>1, Elements
<1>3. ToSet(r) = ToSet(q) \cup {e}
  <2>1. ASSUME NEW i \in DOMAIN r
        PROVE  r[i] = e \/ (i \in DOMAIN q /\ r[i] = q[i])
    BY <1>1, <1>2
  <2>2. ASSUME NEW j \in DOMAIN q
        PROVE  j \in DOMAIN r /\ r[j] = q[j]
    BY <1>1, <1>2
  <2>3. Len(q) + 1 \in DOMAIN r
    BY <1>2
  <2> QED
    BY <2>1, <2>2, <2>3, <1>1, <1>0
<1>4. ASSUME Sorted(q), Before(ToSet(q), {e})
      PROVE  Sorted(r)
  <2> SUFFICES ASSUME NEW i \in DOMAIN r, NEW j \in DOMAIN r, i < j
               PROVE  r[i] <= r[j]
    BY DEF Sorted
  <2>1. CASE j = Len(q) + 1
    <3>1. i \in DOMAIN q
      BY <2>1, <1>2
    <3>2. q[i] \in ToSet(q)
      BY <3>1, <1>0
    <3> QED
      BY <3>1, <3>2, <2>1, <1>1, <1>2, <1>4 DEF Before
  <2>2. CASE j # Len(q) + 1
    <3>1. i \in DOMAIN q /\ j \in DOMAIN q
      BY <2>2, <1>2
    <3> QED
      BY <3>1, <1>1, <1>2, <1>4 DEF Sorted
  <2> QED
    BY <2>1, <2>2
<1> QED
  BY <1>1, <1>3, <1>4 DEF r

LEMMA Taking ==
  ASSUME NEW S \in SUBSET Nat, NEW q \in Seq(S), q # <<>>
  PROVE  /\ Head(q) \in S /\ Tail(q) \in Seq(S)
         /\ ToSet(q) = {Head(q)} \cup ToSet(Tail(q))
         /\ Sorted(q) => Sorted(Tail(q)) /\ Before({Head(q)}, ToSet(q))
<1> DEFINE r == Tail(q)
<1>1. /\ Head(q) \in S /\ r \in Seq(S) /\ Len(r) = Len(q) - 1
      /\ \A i \in 1..Len(r) : r[i] = q[i + 1]
  BY HeadTailProperties
<1>2. /\ Len(q) \in Nat \ {0} /\ DOMAIN q = 1..Len(q) /\ DOMAIN r = 1..(Len(q) - 1)
      /\ q \in [1..Len(q) -> S]
  BY <1>1, LenProperties, EmptySeq
<1>3. Head(q) = q[1]
  BY <1>2
<1> HIDE DEF r
<1>0. /\ \A x : x \in ToSet(r) <=> \E i \in DOMAIN r : r[i] = x
      /\ \A x : x \in ToSet(q) <=> \E i \in DOMAIN q : q[i] = x
  BY <1>1, Elements
<1>4. ToSet(q) = {Head(q)} \cup ToSet(r)
  <2>1. ASSUME NEW i \in DOMAIN q
        PROVE  q[i] = Head(q) \/ \E j \in DOMAIN r : r[j] = q[i]
    <3>1. CASE i = 1
      BY <3>1, <1>3
    <3>2. CASE i # 1
      <4>1. i - 1 \in DOMAIN r /\ r[i - 1] = q[i]
        BY <3>2, <1>1, <1>2
      <4> QED
        BY <4>1
    <3> QED
      BY <3>1, <3>2
  <2>2. ASSUME NEW j \in DOMAIN r
        PROVE  j + 1 \in DOMAIN q /\ q[j + 1] = r[j]
    BY <1>1, <1>2
  <2>3. 1 \in DOMAIN q
    BY <1>2
  <2> QED
    BY <2>1, <2>2, <2>3, <1>1, <1>3, <1>0
<1>5. ASSUME Sorted(q)
      PROVE  Sorted(r) /\ Before({Head(q)}, ToSet(q))
  <2>1. Sorted(r)
    <3> SUFFICES ASSUME NEW i \in DOMAIN r, NEW j \in DOMAIN r, i < j
                 PROVE  r[i] <= r[j]
      BY DEF Sorted
    <3>1. i + 1 \in DOMAIN q /\ j + 1 \in DOMAIN q /\ i + 1 < j + 1
      BY <1>2
    <3> QED
      BY <3>1, <1>1, <1>2, <1>5 DEF Sorted
  <2>2. ASSUME NEW i \in DOMAIN q
        PROVE  q[1] <= q[i]
    <3>0. q[1] \in Nat
      BY <1>1, <1>3
    <3>1. CASE i = 1
      BY <3>0, <3>1
    <3>2. CASE i # 1
      <4>1. 1 \in DOMAIN q /\ 1 < i
        BY <3>2, <1>2
      <4> QED
        BY <4>1, <1>5 DEF Sorted
    <3> QED
      BY <3>1, <3>2
  <2> QED
    BY <2>1, <2>2, <1>3, <1>0 DEF Before
<1> QED
  BY <1>1, <1>4, <1>5 DEF r

\* The same event several times, after what was there.
LEMMA Repeating ==
  ASSUME NEW S \in SUBSET Nat, NEW q \in Seq(S), NEW e \in S, NEW k \in Nat
  PROVE  LET r == q \o [n \in 1..k |-> e]
         IN  /\ r \in Seq(S)
             /\ ToSet(r) = ToSet(q) \cup (IF k = 0 THEN {} ELSE {e})
             /\ Sorted(q) /\ Before(ToSet(q), {e}) => Sorted(r)
<1> DEFINE t == [n \in 1..k |-> e]
           r == q \o t
<1>1. t \in Seq(S) /\ Len(t) = k
  OBVIOUS
<1>2. /\ r \in Seq(S) /\ Len(r) = Len(q) + k
      /\ \A i \in 1..(Len(q) + k) : r[i] = IF i <= Len(q) THEN q[i] ELSE t[i - Len(q)]
  BY <1>1, ConcatProperties
<1>3. /\ Len(q) \in Nat /\ DOMAIN q = 1..Len(q) /\ DOMAIN r = 1..(Len(q) + k)
      /\ q \in [1..Len(q) -> S]
  BY <1>2, LenProperties
<1>4. \A i \in DOMAIN r : r[i] = IF i <= Len(q) THEN q[i] ELSE e
  BY <1>2, <1>3
<1> HIDE DEF r, t
<1>0. /\ \A x : x \in ToSet(r) <=> \E i \in DOMAIN r : r[i] = x
      /\ \A x : x \in ToSet(q) <=> \E i \in DOMAIN q : q[i] = x
  BY <1>2, Elements
<1>5. ToSet(r) = ToSet(q) \cup (IF k = 0 THEN {} ELSE {e})
  <2>1. ASSUME NEW i \in DOMAIN r
        PROVE  (\E j \in DOMAIN q : q[j] = r[i]) \/ (k # 0 /\ r[i] = e)
    <3>1. CASE i <= Len(q)
      BY <3>1, <1>3, <1>4
    <3>2. CASE ~(i <= Len(q))
      BY <3>2, <1>3, <1>4
    <3> QED
      BY <3>1, <3>2
  <2>2. ASSUME NEW j \in DOMAIN q
        PROVE  j \in DOMAIN r /\ r[j] = q[j]
    BY <1>3, <1>4
  <2>3. ASSUME k # 0
        PROVE  Len(q) + 1 \in DOMAIN r /\ r[Len(q) + 1] = e
    BY <2>3, <1>3, <1>4
  <2> QED
    BY <2>1, <2>2, <2>3, <1>0
<1>6. ASSUME Sorted(q), Before(ToSet(q), {e})
      PROVE  Sorted(r)
  <2> SUFFICES ASSUME NEW i \in DOMAIN r, NEW j \in DOMAIN r, i < j
               PROVE  r[i] <= r[j]
    BY DEF Sorted
  <2>1. CASE j <= Len(q)
    BY <2>1, <1>3, <1>4, <1>6 DEF Sorted
  <2>2. CASE ~(j <= Len(q))
    <3>1. CASE i <= Len(q)
      <4>1. q[i] \in ToSet(q)
        BY <3>1, <1>3, <1>0
      <4> QED
        BY <4>1, <3>1, <2>2, <1>3, <1>4, <1>6 DEF Before
    <3>2. CASE ~(i <= Len(q))
      BY <3>2, <2>2, <1>3, <1>4
    <3> QED
      BY <3>1, <3>2
  <2> QED
    BY <2>1, <2>2
<1> QED
  BY <1>2, <1>5, <1>6 DEF r, t

(***************************************************************************)
(* The invariant.                                                           *)
(***************************************************************************)
\* A client is one of a handler under way, callbacks are those of handlers that
\* subscribed in their own process, and nothing is sent before.
Handlers ==
  /\ \A w \in Sockets : conn[w].client => conn[w].at \in {"looked", "subscribed"}
  /\ \A w \in Sockets, p \in Processes, c \in Channels :
       w \in subs[p][c] =>
         /\ p = conn[w].proc /\ c \in {conn[w].session, Global}
         /\ conn[w].at = "subscribed"
  /\ \A w \in Sockets : conn[w].at = "subscribed" => w \in subs[conn[w].proc][Global]
  /\ \A w \in Sockets :
       conn[w].at \in {"none", "looked"} => received[w] = <<>> /\ forwards[w] = <<>>

Got(w) == ToSet(received[w]) \cup ToSet(forwards[w])

Coming(p) == ({taken[p]} \ {0}) \cup ToSet(inbox[p])

Sent == 1..Len(sent)

Queue(p) ==
  /\ Sorted(inbox[p])
  /\ Before({taken[p]} \ {0}, ToSet(inbox[p]))
  /\ Coming(p) \subseteq Sent
  /\ \A i \in Coming(p) : \A k \in Sent : i <= k => k \in Coming(p) \cup lost[p]

\* Events wait behind those that came before.
Line(w) ==
  /\ Sorted(received[w]) /\ Sorted(forwards[w])
  /\ Before(ToSet(received[w]), ToSet(forwards[w]))
  /\ Before(Got(w), Coming(conn[w].proc))
  /\ Got(w) \subseteq Sent

\* From the first event that reached a socket on, every one is there or lost.
Whole(w) ==
  conn[w].client =>
    \A i \in Got(w) : \A k \in Sent :
      i <= k => k \in Got(w) \cup Coming(conn[w].proc) \cup lost[conn[w].proc]

\* No end is published before the session's life says so.
Ends == \A i \in Sent : sent[i].final => life[sent[i].session] \in {"told", "toldFailed"}

Knows(w) ==
  conn[w].client =>
    \A i \in Sent : sent[i].final /\ sent[i].session = conn[w].session =>
      \/ conn[w].told
      \/ i \in gap[w]
      \/ /\ conn[w].at = "subscribed"
         /\ i \in Got(w) \cup Coming(conn[w].proc) \cup lost[conn[w].proc]

QInv ==
  /\ TypeOK /\ Handlers
  /\ \A p \in Processes : Queue(p)
  /\ \A w \in Sockets : Line(w)

IInv == QInv /\ Ends /\ \A w \in Sockets : Whole(w) /\ Knows(w)

LEMMA InitInv == Init => IInv /\ NoHoles
<1> SUFFICES ASSUME Init
             PROVE  IInv /\ NoHoles
  OBVIOUS
<1> USE DEF Init
<1>1. Len(sent) = 0 /\ Sent = {}
  BY DEF Sent
<1>2. \A S : ToSet(<<>>) = {} /\ Sorted(<<>>) /\ <<>> \in Seq(S)
  BY Elements, EmptySeq
<1>3. TypeOK
  BY <1>1, <1>2, BroadcastAssumption DEF TypeOK, Connection, Lives, Services
<1>4. Handlers
  BY <1>3 DEF Handlers, TypeOK, Connection
<1>5. \A w \in Sockets : conn[w].proc \in Processes /\ ~conn[w].client
  BY DEF Connection
<1>6. /\ \A p \in Processes : Coming(p) = {}
      /\ \A w \in Sockets : Got(w) = {}
  BY <1>2 DEF Coming, Got
<1>7. \A p \in Processes : Queue(p)
  BY <1>2, <1>6 DEF Queue, Before
<1>8. \A w \in Sockets : Line(w)
  BY <1>2, <1>5, <1>6 DEF Line, Before
<1>9. Ends /\ \A w \in Sockets : Whole(w) /\ Knows(w)
  BY <1>1, <1>5 DEF Ends, Whole, Knows
<1>10. NoHoles
  BY <1>2 DEF NoHoles
<1> QED
  BY <1>3, <1>4, <1>7, <1>8, <1>9, <1>10 DEF IInv, QInv

(***************************************************************************)
(* Types.                                                                   *)
(***************************************************************************)
LEMMA CallbacksCounted ==
  ASSUME TypeOK, Handlers, NEW p \in Processes, NEW w \in Sockets
  PROVE  /\ Callbacks(p, Global, w) \in Nat
         /\ conn[w].at = "subscribed" /\ conn[w].proc = p => Callbacks(p, Global, w) # 0
         /\ ~(conn[w].at = "subscribed" /\ conn[w].proc = p) => Callbacks(p, Global, w) = 0
<1> DEFINE T == {s \in Sessions : w \in subs[p][s]}
           h == IF w \in subs[p][Global] THEN 1 ELSE 0
<1>1. IsFiniteSet(T) /\ Cardinality(T) \in Nat
  <2>1. T \in SUBSET Sessions /\ IsFiniteSet(Sessions)
    BY BroadcastAssumption
  <2>2. IsFiniteSet(T)
    BY <2>1, FS_Subset
  <2> QED
    BY <2>2, FS_CardinalityType
<1>2. Callbacks(p, Global, w) = h + h + Cardinality(T)
  BY DEF Callbacks
<1>3. h \in {0, 1}
  OBVIOUS
<1>4. ASSUME conn[w].at = "subscribed", conn[w].proc = p
      PROVE  h = 1
  BY <1>4 DEF Handlers
<1>5. ASSUME ~(conn[w].at = "subscribed" /\ conn[w].proc = p)
      PROVE  h = 0 /\ Cardinality(T) = 0
  <2>1. \A c \in Channels : w \notin subs[p][c]
    BY <1>5 DEF Handlers
  <2>2. h = 0 /\ T = {}
    BY <2>1 DEF Channels
  <2> QED
    BY <2>2, FS_EmptySet
<1> HIDE DEF T, h
<1>6. Callbacks(p, Global, w) \in Nat
  BY <1>1, <1>2, <1>3
<1>7. ASSUME conn[w].at = "subscribed", conn[w].proc = p
      PROVE  Callbacks(p, Global, w) # 0
  BY <1>7, <1>4, <1>1, <1>2
<1>8. ASSUME ~(conn[w].at = "subscribed" /\ conn[w].proc = p)
      PROVE  Callbacks(p, Global, w) = 0
  BY <1>8, <1>5, <1>2
<1> QED
  BY <1>6, <1>7, <1>8

LEMMA EventsAreNumbers == Events \in SUBSET Nat /\ Events \cup {0} \in SUBSET Nat
  BY BroadcastAssumption DEF Events

\* A forward of what was taken keeps the tasks events.
LEMMA ForwardsTyped ==
  ASSUME TypeOK, Handlers, NEW p \in Processes, NEW w \in Sockets, taken[p] # 0
  PROVE  LET r == forwards[w] \o [n \in 1..Callbacks(p, Global, w) |-> taken[p]]
         IN  /\ r \in Seq(Events)
             /\ ToSet(r) = ToSet(forwards[w])
                  \cup (IF Callbacks(p, Global, w) = 0 THEN {} ELSE {taken[p]})
             /\ Sorted(forwards[w]) /\ Before(ToSet(forwards[w]), {taken[p]}) => Sorted(r)
<1> DEFINE q == forwards[w]
           e == taken[p]
           k == Callbacks(p, Global, w)
<1>1. q \in Seq(Events) /\ e \in Events
  BY DEF TypeOK
<1>2. k \in Nat
  BY CallbacksCounted
<1>3. Events \in SUBSET Nat
  BY EventsAreNumbers
<1> HIDE DEF q, e, k
<1>4. LET r == q \o [n \in 1..k |-> e]
      IN  /\ r \in Seq(Events)
          /\ ToSet(r) = ToSet(q) \cup (IF k = 0 THEN {} ELSE {e})
          /\ Sorted(q) /\ Before(ToSet(q), {e}) => Sorted(r)
  BY <1>1, <1>2, <1>3, Repeating
<1> QED
  BY <1>4 DEF q, e, k

LEMMA BroadcastTyped ==
  ASSUME TypeOK, NEW s \in Sessions, NEW final \in BOOLEAN, Broadcast(s, final)
  PROVE  /\ sent' \in Seq([session : Sessions, final : BOOLEAN]) /\ Len(sent') <= MaxEvents
         /\ inbox' \in [Processes -> Seq(Events)]
         /\ lost' \in [Processes -> SUBSET Events]
         /\ gap' \in [Sockets -> SUBSET Events]
         /\ Len(sent) + 1 \in Events /\ Len(sent') = Len(sent) + 1
         /\ \A i \in Sent : sent'[i] = sent[i]
         /\ sent'[Len(sent) + 1] = [session |-> s, final |-> final]
<1> DEFINE R == [session : Sessions, final : BOOLEAN]
           e == [session |-> s, final |-> final]
           n == Len(sent) + 1
<1>1. sent \in Seq(R) /\ e \in R /\ Len(sent) < MaxEvents /\ MaxEvents \in Nat
  BY BroadcastAssumption DEF TypeOK, Broadcast
<1>2. Len(sent) \in Nat
  BY <1>1, LenProperties
<1>3. n \in Events
  BY <1>1, <1>2 DEF Events
<1>4. sent' = Append(sent, e)
  BY DEF Broadcast
<1>5. /\ sent' \in Seq(R) /\ Len(sent') = Len(sent) + 1
      /\ \A i \in 1..Len(sent) : sent'[i] = sent[i]
      /\ sent'[Len(sent) + 1] = e
  BY <1>1, <1>4, AppendProperties
<1>6. \A p \in Processes : Append(inbox[p], n) \in Seq(Events) /\ inbox[p] \in Seq(Events)
  BY <1>3, AppendProperties DEF TypeOK
<1>7. inbox' \in [Processes -> Seq(Events)]
  BY <1>6 DEF Broadcast
<1>8. lost' \in [Processes -> SUBSET Events] /\ gap' \in [Sockets -> SUBSET Events]
  BY <1>3 DEF Broadcast, TypeOK
<1> QED
  BY <1>1, <1>2, <1>3, <1>5, <1>7, <1>8 DEF Sent

\* What a look-up leaves behind: an end that was published before it is told, or kept as
\* one that the row did not tell of.
LEMMA LooksUp ==
  ASSUME TypeOK, NEW w \in Sockets, LookUp(w)
  PROVE  /\ \E told \in BOOLEAN :
              /\ conn' = [conn EXCEPT ![w] = [@ EXCEPT !.at = "looked", !.client = TRUE,
                                                       !.told = told]]
              /\ life[conn[w].session] \in {"told", "toldFailed"} =>
                   told \/ Ended(conn[w].session) \subseteq gap'[w]
         /\ gap' \in [Sockets -> SUBSET Events]
         /\ \A v \in Sockets : gap[v] \subseteq gap'[v]
<1> DEFINE s == conn[w].session
<1>0. PICK read \in BOOLEAN : \E told \in Inactive(s, read) :
        /\ conn' = [conn EXCEPT ![w] = [@ EXCEPT !.at = "looked", !.client = TRUE, !.told = told]]
        /\ gap' = IF told \/ RowSaysEnded(s, read) THEN gap
                  ELSE [gap EXCEPT ![w] = @ \cup Ended(s)]
  BY DEF LookUp
<1>1. PICK told \in Inactive(s, read) :
        /\ conn' = [conn EXCEPT ![w] = [@ EXCEPT !.at = "looked", !.client = TRUE, !.told = told]]
        /\ gap' = IF told \/ RowSaysEnded(s, read) THEN gap
                  ELSE [gap EXCEPT ![w] = @ \cup Ended(s)]
  BY <1>0
<1>2. told \in BOOLEAN /\ (RowSaysEnded(s, read) => told)
  BY <1>1 DEF Inactive
<1>3. Ended(s) \subseteq Events
  <2>1. DOMAIN sent = 1..Len(sent) /\ Len(sent) \in Nat /\ Len(sent) <= MaxEvents
    BY LenProperties DEF TypeOK
  <2> QED
    BY <2>1, BroadcastAssumption DEF Ended, Events
<1>4. gap' \in [Sockets -> SUBSET Events] /\ \A v \in Sockets : gap[v] \subseteq gap'[v]
  BY <1>1, <1>3 DEF TypeOK
<1>5. ~told => Ended(s) \subseteq gap'[w]
  BY <1>1, <1>2 DEF TypeOK
<1> QED
  BY <1>1, <1>2, <1>4, <1>5

LEMMA NextTypeOK == TypeOK /\ Handlers /\ [Next]_vars => TypeOK'
<1> SUFFICES ASSUME TypeOK, Handlers, [Next]_vars
             PROVE  TypeOK'
  OBVIOUS
<1> USE DEF TypeOK, Lives, Services
<1>q. /\ \A p \in Processes : inbox[p] \in Seq(Events)
      /\ \A p \in Processes : inbox[p] # <<>> =>
           Head(inbox[p]) \in Events /\ Tail(inbox[p]) \in Seq(Events)
      /\ <<>> \in Seq(Events)
      /\ \A p \in Processes : ToSet(inbox[p]) \subseteq Events
  BY EventsAreNumbers, Taking, Elements, EmptySeq
<1>1. ASSUME NEW s \in Sessions, PublishProgress(s)
      PROVE  TypeOK'
  <2>1. Broadcast(s, FALSE)
    BY <1>1 DEF PublishProgress
  <2>2. UNCHANGED <<life, service, link, taken, subs, conn, forwards, received, drops>>
    BY <1>1 DEF PublishProgress, socket
  <2> QED
    BY <2>1, <2>2, BroadcastTyped
<1>2. ASSUME NEW s \in Sessions, WriteRow(s)
      PROVE  TypeOK'
  BY <1>2 DEF WriteRow, listener, socket
<1>3. ASSUME NEW s \in Sessions, PublishEnd(s)
      PROVE  TypeOK'
  <2>1. UNCHANGED <<service, link, taken, subs, conn, forwards, received, drops>>
    BY <1>3 DEF PublishEnd, socket
  <2>2. life' \in [Sessions -> Lives]
    BY <1>3 DEF PublishEnd
  <2>3. CASE Broadcast(s, TRUE)
    BY <2>1, <2>2, <2>3, BroadcastTyped
  <2>4. CASE UNCHANGED <<sent, inbox, lost, gap>>
    BY <2>1, <2>2, <2>4
  <2> QED
    BY <1>3, <2>3, <2>4 DEF PublishEnd
<1>4. ASSUME NEW p \in Processes, Start(p)
      PROVE  TypeOK'
  BY <1>4 DEF Start, socket
<1>5. ASSUME NEW p \in Processes, GetMessage(p)
      PROVE  TypeOK'
  BY <1>5, <1>q DEF GetMessage, socket
<1>6. ASSUME NEW p \in Processes, Dispatch(p)
      PROVE  TypeOK'
  <2>1. forwards' \in [Sockets -> Seq(Events)]
    BY <1>6, ForwardsTyped DEF Dispatch
  <2>2. UNCHANGED <<sent, life, service, link, inbox, subs, conn, received, lost, gap, drops>>
    BY <1>6 DEF Dispatch
  <2>3. taken' \in [Processes -> Events \cup {0}]
    BY <1>6 DEF Dispatch
  <2> QED
    BY <2>1, <2>2, <2>3
<1>7. ASSUME NEW p \in Processes, LoseConnection(p)
      PROVE  TypeOK'
  <2>1. drops' \in 0..MaxDrops
    BY <1>7, BroadcastAssumption DEF LoseConnection
  <2>2. UNCHANGED <<sent, life, service, taken, subs, conn, forwards, received, gap>>
    BY <1>7 DEF LoseConnection, socket
  <2>3. /\ link' \in [Processes -> BOOLEAN]
        /\ inbox' \in [Processes -> Seq(Events)]
        /\ lost' \in [Processes -> SUBSET Events]
    BY <1>7, <1>q DEF LoseConnection
  <2> QED
    BY <2>1, <2>2, <2>3
<1>8. ASSUME NEW p \in Processes, Reconnect(p)
      PROVE  TypeOK'
  BY <1>8 DEF Reconnect, socket
<1>9. ASSUME NEW p \in Processes, Stop(p)
      PROVE  TypeOK'
  <2>1. UNCHANGED <<sent, life, received, gap, drops>>
    BY <1>9 DEF Stop
  <2>2. /\ service' \in [Processes -> Services] /\ link' \in [Processes -> BOOLEAN]
        /\ inbox' \in [Processes -> Seq(Events)] /\ taken' \in [Processes -> Events \cup {0}]
        /\ lost' \in [Processes -> SUBSET Events]
    BY <1>9, <1>q DEF Stop
  <2>3. /\ subs' \in [Processes -> [Channels -> SUBSET Sockets]]
        /\ forwards' \in [Sockets -> Seq(Events)]
    BY <1>9, <1>q DEF Stop
  <2>4. conn' \in [Sockets -> Connection]
    BY <1>9 DEF Stop, Connection
  <2> QED
    BY <2>1, <2>2, <2>3, <2>4
<1>10. ASSUME NEW w \in Sockets, LookUp(w)
       PROVE  TypeOK'
  <2>1. PICK told \in BOOLEAN :
          conn' = [conn EXCEPT ![w] = [@ EXCEPT !.at = "looked", !.client = TRUE, !.told = told]]
    BY <1>10, LooksUp
  <2>3. conn' \in [Sockets -> Connection] /\ gap' \in [Sockets -> SUBSET Events]
    <3>1. [conn[w] EXCEPT !.at = "looked", !.client = TRUE, !.told = told] \in Connection
      BY DEF Connection
    <3>2. gap' \in [Sockets -> SUBSET Events]
      BY <1>10, LooksUp
    <3> QED
      BY <2>1, <3>1, <3>2
  <2>4. UNCHANGED <<sent, life, service, link, inbox, taken, subs, forwards, received, lost, drops>>
    BY <1>10 DEF LookUp, listener
  <2> QED
    BY <2>3, <2>4
<1>11. ASSUME NEW w \in Sockets, Subscribe(w)
       PROVE  TypeOK'
  <2>1. conn' \in [Sockets -> Connection] /\ subs' \in [Processes -> [Channels -> SUBSET Sockets]]
    BY <1>11 DEF Subscribe, Subscribed, Connection
  <2>2. UNCHANGED <<sent, life, service, link, inbox, taken, forwards, received, lost, gap, drops>>
    BY <1>11 DEF Subscribe, listener
  <2> QED
    BY <2>1, <2>2
<1>12. ASSUME NEW w \in Sockets, Forward(w)
       PROVE  TypeOK'
  <2>1. Head(forwards[w]) \in Events /\ Tail(forwards[w]) \in Seq(Events)
    BY <1>12, EventsAreNumbers, Taking DEF Forward
  <2>2. Append(received[w], Head(forwards[w])) \in Seq(Events)
    BY <2>1, AppendProperties
  <2>3. UNCHANGED <<sent, life, service, link, inbox, taken, subs, conn, lost, gap, drops>>
    BY <1>12 DEF Forward, listener
  <2>4. forwards' \in [Sockets -> Seq(Events)] /\ received' \in [Sockets -> Seq(Events)]
    BY <1>12, <2>1, <2>2 DEF Forward
  <2> QED
    BY <2>3, <2>4
<1>13. ASSUME NEW w \in Sockets, ClientGoes(w)
       PROVE  TypeOK'
  <2>1. conn' \in [Sockets -> Connection]
    BY <1>13 DEF ClientGoes, Connection
  <2> QED
    BY <1>13, <2>1 DEF ClientGoes, listener
<1>14. ASSUME NEW w \in Sockets, HandlerEnds(w)
       PROVE  TypeOK'
  <2>1. conn' \in [Sockets -> Connection] /\ subs' \in [Processes -> [Channels -> SUBSET Sockets]]
    BY <1>14 DEF HandlerEnds, Unsubscribed, Connection
  <2> QED
    BY <1>14, <2>1 DEF HandlerEnds, listener
<1>15. ASSUME NEW w \in Sockets, InfoFails(w)
       PROVE  TypeOK'
  <2>1. conn' \in [Sockets -> Connection]
    BY <1>15 DEF InfoFails, Connection
  <2> QED
    BY <1>15, <2>1 DEF InfoFails, listener
<1>16. ASSUME UNCHANGED vars
       PROVE  TypeOK'
  BY <1>16 DEF vars, listener, socket
<1> QED
  BY <1>1, <1>2, <1>3, <1>4, <1>5, <1>6, <1>7, <1>8, <1>9, <1>10, <1>11, <1>12, <1>13, <1>14,
     <1>15, <1>16 DEF Next, Publisher, Service, Listener, Handler

(***************************************************************************)
(* What a step may do to a websocket and to the events on their way to it.  *)
(***************************************************************************)
LEMMA HandlersKept == TypeOK /\ Handlers /\ [Next]_vars => Handlers'
<1> SUFFICES ASSUME TypeOK, Handlers, [Next]_vars
             PROVE  Handlers'
  OBVIOUS
<1>0. \A w \in Sockets : conn[w] \in Connection /\ conn[w].proc \in Processes
  BY DEF TypeOK, Connection
<1>1. CASE UNCHANGED <<subs, conn, forwards, received>>
  BY <1>1 DEF Handlers
<1>2. ASSUME NEW p \in Processes, Dispatch(p)
      PROVE  Handlers'
  <2>1. UNCHANGED <<subs, conn, received>>
    BY <1>2 DEF Dispatch
  <2>2. ASSUME NEW w \in Sockets, conn[w].at \in {"none", "looked"}
        PROVE  forwards'[w] = <<>>
    <3>1. Callbacks(p, Global, w) = 0
      BY <2>2, CallbacksCounted
    <3>2. forwards[w] = <<>>
      BY <2>2 DEF Handlers
    <3>3. forwards'[w] = forwards[w] \o [n \in 1..Callbacks(p, Global, w) |-> taken[p]]
      BY <1>2 DEF Dispatch
    <3>4. forwards'[w] \in Seq(Events) /\ ToSet(forwards'[w]) = {}
      <4>1. taken[p] # 0 /\ ToSet(forwards[w]) = {}
        BY <1>2, <3>2, Elements, EmptySeq DEF Dispatch
      <4> QED
        BY <4>1, <3>1, <3>3, ForwardsTyped
    <3> QED
      <4>1. Len(forwards'[w]) \in Nat /\ DOMAIN forwards'[w] = 1..Len(forwards'[w])
        BY <3>4, LenProperties
      <4>2. DOMAIN forwards'[w] = {}
        BY <3>4 DEF ToSet
      <4>3. Len(forwards'[w]) = 0
        <5>1. 1 \notin 1..Len(forwards'[w])
          BY <4>1, <4>2
        <5> QED
          BY <4>1, <5>1
      <4> QED
        BY <3>4, <4>3, EmptySeq
  <2> QED
    BY <2>1, <2>2 DEF Handlers
<1>3. ASSUME NEW p \in Processes, Stop(p)
      PROVE  Handlers'
  <2>1. /\ received' = received
        /\ \A q \in Processes, c \in Channels : subs'[q][c] = IF q = p THEN {} ELSE subs[q][c]
        /\ \A w \in Of(p) : conn'[w].at = "over" /\ ~conn'[w].client /\ conn'[w].proc = p
        /\ \A w \in Sockets \ Of(p) : conn'[w] = conn[w] /\ forwards'[w] = forwards[w]
    BY <1>3 DEF Stop, TypeOK, Of, Connection
  <2>2. \A w \in Sockets \ Of(p) : conn[w].proc = p => conn[w].at = "none"
    BY DEF Of
  <2>3. \A w \in Sockets : conn'[w].client => conn'[w].at \in {"looked", "subscribed"}
    BY <2>1 DEF Handlers
  <2>4. \A w \in Sockets, q \in Processes, c \in Channels :
          w \in subs'[q][c] => /\ q = conn'[w].proc /\ c \in {conn'[w].session, Global}
                                /\ conn'[w].at = "subscribed"
    <3> TAKE w \in Sockets, q \in Processes, c \in Channels
    <3>1. w \in subs'[q][c] => /\ q # p /\ conn[w].proc = q /\ conn[w].at = "subscribed"
                                /\ c \in {conn[w].session, Global}
      BY <2>1 DEF Handlers
    <3>2. conn[w].proc = q /\ q # p => w \notin Of(p)
      BY DEF Of
    <3> QED
      BY <2>1, <3>1, <3>2
  <2>5. \A w \in Sockets : conn'[w].at = "subscribed" => w \in subs'[conn'[w].proc][Global]
    <3> SUFFICES ASSUME NEW w \in Sockets, conn'[w].at = "subscribed"
                 PROVE  w \in subs'[conn'[w].proc][Global]
      OBVIOUS
    <3>1. w \notin Of(p) /\ conn'[w] = conn[w]
      BY <2>1
    <3>2. conn[w].proc # p
      BY <3>1, <2>2
    <3> QED
      BY <1>0, <2>1, <3>1, <3>2 DEF Handlers, Channels
  <2>6. \A w \in Sockets :
          conn'[w].at \in {"none", "looked"} => received'[w] = <<>> /\ forwards'[w] = <<>>
    BY <2>1 DEF Handlers
  <2> QED
    BY <2>3, <2>4, <2>5, <2>6 DEF Handlers
<1>4. ASSUME NEW w \in Sockets, LookUp(w)
      PROVE  Handlers'
  <2>1. /\ conn'[w].at = "looked" /\ conn'[w].client
        /\ conn'[w].proc = conn[w].proc /\ conn'[w].session = conn[w].session
        /\ \A v \in Sockets \ {w} : conn'[v] = conn[v]
        /\ UNCHANGED <<subs, forwards, received>> /\ conn[w].at = "none"
    BY <1>4, <1>0 DEF LookUp, TypeOK, Connection
  <2> QED
    BY <2>1 DEF Handlers
<1>5. ASSUME NEW w \in Sockets, Subscribe(w)
      PROVE  Handlers'
  <2>1. /\ conn'[w].at = "subscribed" /\ conn'[w].client = conn[w].client
        /\ conn'[w].proc = conn[w].proc /\ conn'[w].session = conn[w].session
        /\ \A v \in Sockets \ {w} : conn'[v] = conn[v]
        /\ UNCHANGED <<forwards, received>> /\ conn[w].at = "looked"
    BY <1>5, <1>0 DEF Subscribe, TypeOK, Connection
  <2>2. /\ \A p \in Processes, c \in Channels :
             subs'[p][c] = subs[p][c] \/ (/\ p = conn[w].proc /\ c \in {conn[w].session, Global}
                                          /\ subs'[p][c] = subs[p][c] \cup {w})
        /\ w \in subs'[conn[w].proc][Global]
    BY <1>5, <1>0 DEF Subscribe, Subscribed, TypeOK, Channels
  <2> QED
    BY <2>1, <2>2, <1>0 DEF Handlers, Channels
<1>6. ASSUME NEW w \in Sockets, Forward(w)
      PROVE  Handlers'
  <2>1. conn[w].at \notin {"none", "looked"}
    BY <1>6 DEF Forward, Handlers
  <2>2. \A v \in Sockets \ {w} : forwards'[v] = forwards[v] /\ received'[v] = received[v]
    BY <1>6 DEF Forward, TypeOK
  <2> QED
    BY <1>6, <2>1, <2>2 DEF Forward, Handlers
<1>7. ASSUME NEW w \in Sockets, ClientGoes(w)
      PROVE  Handlers'
  <2>1. /\ conn'[w].at = conn[w].at /\ ~conn'[w].client
        /\ conn'[w].proc = conn[w].proc /\ conn'[w].session = conn[w].session
        /\ \A v \in Sockets \ {w} : conn'[v] = conn[v]
        /\ UNCHANGED <<subs, forwards, received>>
    BY <1>7, <1>0 DEF ClientGoes, TypeOK, Connection
  <2> QED
    BY <2>1 DEF Handlers
<1>8. ASSUME NEW w \in Sockets, HandlerEnds(w)
      PROVE  Handlers'
  <2>1. /\ conn'[w].at = "over" /\ ~conn'[w].client
        /\ conn'[w].proc = conn[w].proc /\ conn'[w].session = conn[w].session
        /\ conn[w].at = "subscribed"
        /\ \A v \in Sockets \ {w} : conn'[v] = conn[v]
        /\ UNCHANGED <<forwards, received>>
    BY <1>8, <1>0 DEF HandlerEnds, TypeOK, Connection
  <2>2. /\ \A p \in Processes, c \in Channels :
             subs'[p][c] = IF p = conn[w].proc /\ c \in {conn[w].session, Global}
                           THEN subs[p][c] \ {w} ELSE subs[p][c]
    BY <1>8, <1>0 DEF HandlerEnds, Unsubscribed, TypeOK
  <2>3. /\ \A v \in Sockets : conn'[v].client => conn'[v].at \in {"looked", "subscribed"}
        /\ \A v \in Sockets :
             conn'[v].at \in {"none", "looked"} => received'[v] = <<>> /\ forwards'[v] = <<>>
    BY <2>1 DEF Handlers
  <2>4. \A v \in Sockets, p \in Processes, c \in Channels :
          v \in subs'[p][c] => /\ p = conn'[v].proc /\ c \in {conn'[v].session, Global}
                                /\ conn'[v].at = "subscribed"
    <3> TAKE v \in Sockets, p \in Processes, c \in Channels
    <3>1. v \in subs'[p][c] => v \in subs[p][c]
      BY <2>2
    <3>2. CASE v = w
      <4>1. w \in subs[p][c] => p = conn[w].proc /\ c \in {conn[w].session, Global}
        BY DEF Handlers
      <4> QED
        BY <3>2, <4>1, <2>2
    <3>3. CASE v # w
      BY <3>1, <3>3, <2>1 DEF Handlers
    <3> QED
      BY <3>2, <3>3
  <2>5. \A v \in Sockets : conn'[v].at = "subscribed" => v \in subs'[conn'[v].proc][Global]
    <3> SUFFICES ASSUME NEW v \in Sockets, conn'[v].at = "subscribed"
                 PROVE  v \in subs'[conn'[v].proc][Global]
      OBVIOUS
    <3>1. v # w /\ conn'[v] = conn[v]
      BY <2>1
    <3>2. v \in subs[conn[v].proc][Global] /\ conn[v].proc \in Processes
      BY <3>1, <1>0 DEF Handlers
    <3> QED
      BY <2>2, <3>1, <3>2 DEF Channels
  <2> QED
    BY <2>3, <2>4, <2>5 DEF Handlers
<1>9. ASSUME NEW w \in Sockets, InfoFails(w)
      PROVE  Handlers'
  <2>1. /\ conn'[w].at = "over" /\ ~conn'[w].client
        /\ conn'[w].proc = conn[w].proc /\ conn'[w].session = conn[w].session
        /\ conn[w].at = "looked"
        /\ \A v \in Sockets \ {w} : conn'[v] = conn[v]
        /\ UNCHANGED <<subs, forwards, received>>
    BY <1>9, <1>0 DEF InfoFails, TypeOK, Connection
  <2> QED
    BY <2>1 DEF Handlers
<1>10. \/ UNCHANGED <<subs, conn, forwards, received>>
       \/ \E p \in Processes : Dispatch(p) \/ Stop(p)
       \/ \E w \in Sockets : Handler(w)
  BY DEF Next, Publisher, Service, Listener, PublishProgress, WriteRow, PublishEnd, Start,
         GetMessage, LoseConnection, Reconnect, vars, socket, listener
<1> QED
  BY <1>1, <1>2, <1>3, <1>4, <1>5, <1>6, <1>7, <1>8, <1>9, <1>10 DEF Handler

(***************************************************************************)
(* The seven things a step may do to the events on their way to a websocket *)
(* w of a process p.                                                        *)
(***************************************************************************)
Rests(w, p) ==
  /\ sent' = sent /\ lost'[p] = lost[p]
  /\ received'[w] = received[w] /\ forwards'[w] = forwards[w]
  /\ taken'[p] = taken[p] /\ inbox'[p] = inbox[p]

Comes(w, p) ==
  LET n == Len(sent) + 1
  IN  /\ Len(sent') = n /\ \A i \in Sent : sent'[i] = sent[i]
      /\ received'[w] = received[w] /\ forwards'[w] = forwards[w]
      /\ taken'[p] = taken[p]
      /\ \/ inbox'[p] = Append(inbox[p], n) /\ lost'[p] = lost[p]
         \/ inbox'[p] = inbox[p] /\ lost'[p] = lost[p] \cup {n}
      /\ conn' = conn
      /\ conn[w].at = "looked" => n \in gap'[w]

Reads(w, p) ==
  /\ sent' = sent /\ lost'[p] = lost[p]
  /\ received'[w] = received[w] /\ forwards'[w] = forwards[w]
  /\ taken[p] = 0 /\ inbox[p] # <<>>
  /\ taken'[p] = Head(inbox[p]) /\ inbox'[p] = Tail(inbox[p])

Dispatches(w, p) ==
  /\ sent' = sent /\ lost'[p] = lost[p] /\ conn' = conn
  /\ received'[w] = received[w] /\ inbox'[p] = inbox[p]
  /\ taken[p] # 0 /\ taken'[p] = 0
  /\ ToSet(forwards'[w]) = ToSet(forwards[w])
       \cup (IF conn[w].at = "subscribed" THEN {taken[p]} ELSE {})
  /\ Sorted(forwards[w]) /\ Before(ToSet(forwards[w]), {taken[p]}) => Sorted(forwards'[w])

Loses(w, p) ==
  /\ sent' = sent /\ lost'[p] = lost[p] \cup ToSet(inbox[p])
  /\ received'[w] = received[w] /\ forwards'[w] = forwards[w]
  /\ taken'[p] = taken[p] /\ inbox'[p] = <<>>

Stops(w, p) ==
  /\ sent' = sent /\ lost[p] \subseteq lost'[p]
  /\ received'[w] = received[w] /\ forwards'[w] = <<>>
  /\ taken'[p] = 0 /\ inbox'[p] = <<>>
  /\ ~conn'[w].client

Sends(w, p) ==
  /\ sent' = sent /\ lost'[p] = lost[p] /\ conn' = conn
  /\ taken'[p] = taken[p] /\ inbox'[p] = inbox[p]
  /\ forwards[w] # <<>> /\ forwards'[w] = Tail(forwards[w])
  /\ received'[w] = IF conn[w].client THEN Append(received[w], Head(forwards[w]))
                    ELSE received[w]

Shapes(w, p) ==
  \/ Rests(w, p) \/ Comes(w, p) \/ Reads(w, p) \/ Dispatches(w, p) \/ Loses(w, p)
  \/ Stops(w, p) \/ Sends(w, p)

\* A websocket stays with its process and session, and learns nothing new of them save
\* at its look-up.
Stays(w) ==
  /\ conn'[w].proc = conn[w].proc /\ conn'[w].session = conn[w].session
  /\ conn'[w].client /\ conn'[w].at # "looked" => conn[w].client
  /\ conn'[w].client /\ conn[w].client => conn'[w].told = conn[w].told
  /\ conn'[w].client /\ conn[w].at = "subscribed" => conn'[w].at = "subscribed"
  /\ gap[w] \subseteq gap'[w]

LEMMA BroadcastComes ==
  ASSUME TypeOK, NEW s \in Sessions, NEW final \in BOOLEAN, Broadcast(s, final),
         UNCHANGED <<taken, socket>>, NEW w \in Sockets
  PROVE  Comes(w, conn[w].proc) /\ Stays(w)
<1>1. conn[w].proc \in Processes
  BY DEF TypeOK, Connection
<1>2. conn' = conn /\ received' = received /\ forwards' = forwards /\ taken' = taken
  BY DEF socket
<1>3. gap'[w] = IF conn[w].at = "looked" THEN gap[w] \cup {Len(sent) + 1} ELSE gap[w]
  BY DEF Broadcast
<1>4. \/ /\ inbox'[conn[w].proc] = Append(inbox[conn[w].proc], Len(sent) + 1)
         /\ lost'[conn[w].proc] = lost[conn[w].proc]
      \/ /\ inbox'[conn[w].proc] = inbox[conn[w].proc]
         /\ lost'[conn[w].proc] = lost[conn[w].proc] \cup {Len(sent) + 1}
  BY <1>1 DEF Broadcast
<1>5. Comes(w, conn[w].proc)
  BY <1>2, <1>3, <1>4, BroadcastTyped DEF Comes
<1> QED
  BY <1>2, <1>3, <1>5 DEF Stays

LEMMA StepShapes ==
  ASSUME TypeOK, Handlers, [Next]_vars, NEW w \in Sockets
  PROVE  Shapes(w, conn[w].proc) /\ Stays(w)
<1> DEFINE p == conn[w].proc
<1>0. conn[w] \in Connection /\ p \in Processes
  BY DEF TypeOK, Connection
<1>1. CASE UNCHANGED <<sent, lost, received, forwards, taken, inbox, conn, gap>>
  BY <1>1 DEF Shapes, Rests, Stays
<1>2. ASSUME NEW s \in Sessions, PublishProgress(s) \/ PublishEnd(s)
      PROVE  Shapes(w, p) /\ Stays(w)
  <2>1. UNCHANGED <<taken, socket>>
    BY <1>2 DEF PublishProgress, PublishEnd
  <2>2. \/ \E final \in BOOLEAN : Broadcast(s, final)
        \/ UNCHANGED <<sent, inbox, lost, gap>>
    BY <1>2 DEF PublishProgress, PublishEnd
  <2>3. CASE \E final \in BOOLEAN : Broadcast(s, final)
    BY <2>1, <2>3, BroadcastComes DEF Shapes
  <2>4. CASE UNCHANGED <<sent, inbox, lost, gap>>
    BY <2>1, <2>4 DEF Shapes, Rests, Stays, socket
  <2> QED
    BY <2>2, <2>3, <2>4
<1>3. ASSUME NEW q \in Processes, GetMessage(q)
      PROVE  Shapes(w, p) /\ Stays(w)
  <2>1. UNCHANGED <<sent, lost, received, forwards, conn, gap>>
    BY <1>3 DEF GetMessage, socket
  <2>2. CASE q = p
    BY <1>0, <1>3, <2>1, <2>2 DEF GetMessage, TypeOK, Shapes, Reads, Stays
  <2>3. CASE q # p
    BY <1>0, <1>3, <2>1, <2>3 DEF GetMessage, TypeOK, Shapes, Rests, Stays
  <2> QED
    BY <2>2, <2>3
<1>4. ASSUME NEW q \in Processes, Dispatch(q)
      PROVE  Shapes(w, p) /\ Stays(w)
  <2>1. UNCHANGED <<sent, lost, received, inbox, conn, gap>> /\ taken[q] # 0
    BY <1>4 DEF Dispatch
  <2>2. /\ forwards'[w] = forwards[w] \o [n \in 1..Callbacks(q, Global, w) |-> taken[q]]
        /\ taken' = [taken EXCEPT ![q] = 0]
    BY <1>4 DEF Dispatch
  <2>3. CASE q = p
    <3>1. conn[w].at = "subscribed" <=> Callbacks(q, Global, w) # 0
      BY <2>3, CallbacksCounted
    <3>2. /\ ToSet(forwards'[w]) = ToSet(forwards[w])
               \cup (IF conn[w].at = "subscribed" THEN {taken[p]} ELSE {})
          /\ Sorted(forwards[w]) /\ Before(ToSet(forwards[w]), {taken[p]})
               => Sorted(forwards'[w])
      BY <2>1, <2>2, <2>3, <3>1, ForwardsTyped
    <3>3. taken[p] # 0 /\ taken'[p] = 0
      BY <1>0, <2>1, <2>2, <2>3 DEF TypeOK
    <3> QED
      BY <2>1, <3>2, <3>3 DEF Shapes, Dispatches, Stays
  <2>4. CASE q # p
    <3>1. Callbacks(q, Global, w) = 0
      BY <2>4, CallbacksCounted
    <3>2. forwards'[w] = forwards[w]
      <4>1. [n \in 1..0 |-> taken[q]] = <<>> /\ forwards[w] \in Seq(Events)
        BY DEF TypeOK
      <4> QED
        BY <2>2, <3>1, <4>1, ConcatEmptySeq
    <3>3. taken'[p] = taken[p]
      BY <1>0, <2>2, <2>4 DEF TypeOK
    <3> QED
      BY <2>1, <3>2, <3>3 DEF Shapes, Rests, Stays
  <2> QED
    BY <2>3, <2>4
<1>5. ASSUME NEW q \in Processes, LoseConnection(q)
      PROVE  Shapes(w, p) /\ Stays(w)
  <2>1. UNCHANGED <<sent, received, forwards, taken, conn, gap>>
    BY <1>5 DEF LoseConnection, socket
  <2>2. CASE q = p
    BY <1>0, <1>5, <2>1, <2>2 DEF LoseConnection, TypeOK, Shapes, Loses, Stays
  <2>3. CASE q # p
    BY <1>0, <1>5, <2>1, <2>3 DEF LoseConnection, TypeOK, Shapes, Rests, Stays
  <2> QED
    BY <2>2, <2>3
<1>6. ASSUME NEW q \in Processes, Stop(q)
      PROVE  Shapes(w, p) /\ Stays(w)
  <2>1. UNCHANGED <<sent, received, gap>>
    BY <1>6 DEF Stop
  <2>2. CASE q = p
    <3>1. /\ taken'[p] = 0 /\ inbox'[p] = <<>> /\ lost[p] \subseteq lost'[p]
      BY <1>0, <1>6, <2>2 DEF Stop, TypeOK
    <3>2. CASE w \in Of(q)
      <4>1. /\ forwards'[w] = <<>>
            /\ conn'[w] = [conn[w] EXCEPT !.at = "over", !.client = FALSE]
        BY <1>6, <3>2 DEF Stop
      <4>2. /\ ~conn'[w].client /\ conn'[w].proc = conn[w].proc
            /\ conn'[w].session = conn[w].session
        BY <1>0, <4>1 DEF Connection
      <4> QED
        BY <2>1, <3>1, <4>1, <4>2 DEF Shapes, Stops, Stays
    <3>3. CASE w \notin Of(q)
      <4>1. conn[w].at = "none"
        BY <2>2, <3>3 DEF Of
      <4>2. forwards[w] = <<>> /\ ~conn[w].client
        BY <4>1 DEF Handlers
      <4>3. forwards'[w] = forwards[w] /\ conn'[w] = conn[w]
        BY <1>6, <3>3 DEF Stop
      <4> QED
        BY <2>1, <3>1, <4>2, <4>3 DEF Shapes, Stops, Stays
    <3> QED
      BY <3>2, <3>3
  <2>3. CASE q # p
    <3>1. w \notin Of(q)
      BY <2>3 DEF Of
    <3>2. forwards'[w] = forwards[w] /\ conn'[w] = conn[w]
      BY <1>6, <3>1 DEF Stop
    <3>3. taken'[p] = taken[p] /\ inbox'[p] = inbox[p] /\ lost'[p] = lost[p]
      BY <1>0, <1>6, <2>3 DEF Stop, TypeOK
    <3> QED
      BY <2>1, <3>2, <3>3 DEF Shapes, Rests, Stays
  <2> QED
    BY <2>2, <2>3
<1>7. ASSUME NEW v \in Sockets, Forward(v)
      PROVE  Shapes(w, p) /\ Stays(w)
  <2>1. UNCHANGED <<sent, lost, taken, inbox, conn, gap>>
    BY <1>7 DEF Forward, listener
  <2>2. CASE v = w
    <3>1. /\ forwards[w] # <<>> /\ forwards'[w] = Tail(forwards[w])
          /\ received'[w] = IF conn[w].client THEN Append(received[w], Head(forwards[w]))
                            ELSE received[w]
      BY <1>7, <2>2 DEF Forward, TypeOK
    <3> QED
      BY <2>1, <3>1 DEF Shapes, Sends, Stays
  <2>3. CASE v # w
    <3>1. forwards'[w] = forwards[w] /\ received'[w] = received[w]
      BY <1>7, <2>3 DEF Forward, TypeOK
    <3> QED
      BY <2>1, <3>1 DEF Shapes, Rests, Stays
  <2> QED
    BY <2>2, <2>3
<1>8. ASSUME NEW v \in Sockets,
             LookUp(v) \/ Subscribe(v) \/ ClientGoes(v) \/ HandlerEnds(v) \/ InfoFails(v)
      PROVE  Shapes(w, p) /\ Stays(w)
  <2>1. UNCHANGED <<sent, lost, received, forwards, taken, inbox>> /\ gap[w] \subseteq gap'[w]
    <3>1. CASE LookUp(v)
      BY <3>1, LooksUp DEF LookUp, listener
    <3>2. CASE ~LookUp(v)
      BY <1>8, <3>2 DEF Subscribe, ClientGoes, HandlerEnds, InfoFails, listener
    <3> QED
      BY <3>1, <3>2
  <2>2. Stays(w)
    <3>1. conn[v] \in Connection
      BY DEF TypeOK
    <3>2. CASE LookUp(v)
      <4>1. PICK told \in BOOLEAN :
              conn' = [conn EXCEPT ![v] = [@ EXCEPT !.at = "looked", !.client = TRUE, !.told = told]]
        BY <3>2, LooksUp
      <4>2. conn[v].at = "none" /\ ~conn[v].client
        BY <3>2 DEF LookUp, Handlers
      <4> QED
        BY <1>0, <2>1, <3>1, <4>1, <4>2 DEF Stays, TypeOK, Connection
    <3>3. CASE Subscribe(v)
      BY <1>0, <2>1, <3>1, <3>3 DEF Subscribe, Stays, TypeOK, Connection
    <3>4. CASE ClientGoes(v)
      BY <1>0, <2>1, <3>1, <3>4 DEF ClientGoes, Stays, TypeOK, Connection
    <3>5. CASE HandlerEnds(v)
      BY <1>0, <2>1, <3>1, <3>5 DEF HandlerEnds, Stays, TypeOK, Connection
    <3>6. CASE InfoFails(v)
      BY <1>0, <2>1, <3>1, <3>6 DEF InfoFails, Stays, TypeOK, Connection
    <3> QED
      BY <1>8, <3>2, <3>3, <3>4, <3>5, <3>6
  <2> QED
    BY <2>1, <2>2 DEF Shapes, Rests
<1>9. ASSUME \/ \E s \in Sessions : WriteRow(s)
             \/ \E q \in Processes : Start(q) \/ Reconnect(q)
             \/ UNCHANGED vars
      PROVE  Shapes(w, p) /\ Stays(w)
  <2>1. UNCHANGED <<sent, lost, received, forwards, taken, inbox, conn, gap>>
    BY <1>9 DEF WriteRow, Start, Reconnect, vars, listener, socket
  <2> QED
    BY <1>1, <2>1
<1> QED
  BY <1>2, <1>3, <1>4, <1>5, <1>6, <1>7, <1>8, <1>9 DEF Next, Publisher, Service, Listener, Handler

(***************************************************************************)
(* The invariant is kept.                                                   *)
(***************************************************************************)
LEMMA SentGrows ==
  ASSUME TypeOK
  PROVE  /\ Len(sent) \in Nat /\ Sent \subseteq Nat
         /\ \A n : n = Len(sent) + 1 => /\ Before(Sent, {n}) /\ n \notin Sent
                                        /\ Len(sent') = n => Sent' = Sent \cup {n}
<1>1. Len(sent) \in Nat
  BY LenProperties DEF TypeOK
<1> QED
  BY <1>1 DEF Sent, Before

LEMMA AppendingEvents ==
  \A q \in Seq(Events), e \in Events :
    /\ ToSet(Append(q, e)) = ToSet(q) \cup {e}
    /\ Sorted(q) /\ Before(ToSet(q), {e}) => Sorted(Append(q, e))
<1> TAKE q \in Seq(Events), e \in Events
<1>1. Events \in SUBSET Nat
  BY EventsAreNumbers
<1> QED
  BY <1>1, Appending

LEMMA QueueKept ==
  ASSUME TypeOK, TypeOK', NEW p \in Processes, Queue(p), [Next]_vars
  PROVE  Queue(p)'
<1>0. /\ inbox[p] \in Seq(Events) /\ taken[p] \in Events \cup {0} /\ Events \in SUBSET Nat
      /\ Len(sent) \in Nat /\ 0 \notin Events /\ Sent \subseteq Nat
  BY EventsAreNumbers, SentGrows DEF TypeOK, Events
<1>1. CASE UNCHANGED <<sent, inbox, taken, lost>>
  BY <1>1 DEF Queue, Coming, Sent
<1>2. ASSUME NEW s \in Sessions, NEW final \in BOOLEAN, Broadcast(s, final), taken' = taken
      PROVE  Queue(p)'
  <2> DEFINE n == Len(sent) + 1
  <2>1. n \in Events /\ Sent' = Sent \cup {n} /\ Before(Sent, {n}) /\ n \notin Sent
    BY <1>2, BroadcastTyped, SentGrows
  <2>2. CASE inbox'[p] = inbox[p] /\ lost'[p] = lost[p] \cup {n}
    BY <1>2, <2>1, <2>2 DEF Queue, Coming
  <2>3. CASE inbox'[p] = Append(inbox[p], n) /\ lost'[p] = lost[p]
    <3>1. ToSet(inbox[p]) \subseteq Sent /\ {taken[p]} \ {0} \subseteq Sent
      BY DEF Queue, Coming
    <3>2. Before(ToSet(inbox[p]), {n})
      BY <2>1, <3>1 DEF Before
    <3>3. ToSet(inbox'[p]) = ToSet(inbox[p]) \cup {n} /\ Sorted(inbox'[p])
      BY <1>0, <2>1, <2>3, <3>2, AppendingEvents DEF Queue
    <3>4. Before({taken[p]} \ {0}, ToSet(inbox[p]) \cup {n})
      BY <2>1, <3>1 DEF Queue, Before
    <3>5. Coming(p)' = Coming(p) \cup {n}
      BY <1>2, <3>3 DEF Coming
    <3>6. \A i \in Coming(p)' : \A k \in Sent' : i <= k => k \in Coming(p)' \cup lost'[p]
      <4> SUFFICES ASSUME NEW i \in Coming(p)', NEW k \in Sent', i <= k, k # n
                   PROVE  k \in Coming(p)' \cup lost'[p]
        BY <3>5
      <4>1. k \in Sent
        BY <2>1
      <4>2. i # n
        BY <1>0, <2>1, <4>1 DEF Before
      <4> QED
        BY <2>3, <3>5, <4>1, <4>2 DEF Queue
    <3> QED
      BY <1>2, <2>1, <3>1, <3>3, <3>4, <3>5, <3>6 DEF Queue
  <2> QED
    BY <1>2, <2>2, <2>3 DEF Broadcast
<1>3. ASSUME NEW q \in Processes, GetMessage(q)
      PROVE  Queue(p)'
  <2>1. CASE q = p
    <3>1. /\ UNCHANGED <<sent, lost>> /\ inbox[p] # <<>> /\ taken[p] = 0
          /\ taken'[p] = Head(inbox[p]) /\ inbox'[p] = Tail(inbox[p])
      BY <1>3, <2>1 DEF GetMessage, TypeOK
    <3>2. /\ ToSet(inbox[p]) = {taken'[p]} \cup ToSet(inbox'[p]) /\ taken'[p] \in Events
          /\ Sorted(inbox'[p]) /\ Before({taken'[p]}, ToSet(inbox[p]))
      BY <1>0, <3>1, Taking DEF Queue
    <3>3. Before({taken'[p]} \ {0}, ToSet(inbox'[p]))
      BY <3>2 DEF Before
    <3>4. Coming(p)' = Coming(p) /\ Sent' = Sent
      BY <1>0, <3>1, <3>2 DEF Coming, Sent
    <3> QED
      BY <3>1, <3>2, <3>3, <3>4 DEF Queue
  <2>2. CASE q # p
    <3>1. UNCHANGED <<sent, lost>> /\ taken'[p] = taken[p] /\ inbox'[p] = inbox[p]
      BY <1>3, <2>2 DEF GetMessage, TypeOK
    <3> QED
      BY <3>1 DEF Queue, Coming, Sent
  <2> QED
    BY <2>1, <2>2
<1>4. ASSUME NEW q \in Processes, Dispatch(q) \/ LoseConnection(q) \/ Stop(q)
      PROVE  Queue(p)'
  <2>0. ToSet(<<>>) = {} /\ Sorted(<<>>)
    BY <1>0, Elements
  <2>1. /\ sent' = sent
        /\ \/ taken'[p] = taken[p] /\ inbox'[p] = inbox[p] /\ lost'[p] = lost[p]
           \/ taken'[p] = 0 /\ inbox'[p] = inbox[p] /\ lost'[p] = lost[p]
           \/ taken'[p] = taken[p] /\ inbox'[p] = <<>> /\ lost'[p] = lost[p] \cup ToSet(inbox[p])
           \/ taken'[p] = 0 /\ inbox'[p] = <<>>
    BY <1>4 DEF Dispatch, LoseConnection, Stop, TypeOK
  <2>2. Sorted(inbox'[p]) /\ ToSet(inbox'[p]) \subseteq ToSet(inbox[p])
    BY <2>0, <2>1 DEF Queue
  <2>3. {taken'[p]} \ {0} \subseteq {taken[p]} \ {0}
    BY <2>1
  <2>4. Before({taken'[p]} \ {0}, ToSet(inbox'[p]))
    BY <2>2, <2>3 DEF Queue, Before
  <2>5. Coming(p)' \subseteq Coming(p) /\ Sent' = Sent
    BY <2>1, <2>2, <2>3 DEF Coming, Sent
  <2>6. \A i \in Coming(p)' : \A k \in Sent' : i <= k => k \in Coming(p)' \cup lost'[p]
    <3> SUFFICES ASSUME NEW i \in Coming(p)', NEW k \in Sent', i <= k
                 PROVE  k \in Coming(p)' \cup lost'[p]
      OBVIOUS
    <3>1. k \in Coming(p) \cup lost[p]
      BY <2>5 DEF Queue
    <3>2. CASE taken'[p] = 0 /\ inbox'[p] = inbox[p] /\ lost'[p] = lost[p]
      <4>1. i \in ToSet(inbox[p])
        BY <3>2 DEF Coming
      <4>2. k \in {taken[p]} \ {0} => k = i
        <5> SUFFICES ASSUME k \in {taken[p]} \ {0}
                     PROVE  k = i
          OBVIOUS
        <5>1. k <= i
          BY <4>1 DEF Queue, Before
        <5>2. k \in Nat /\ i \in Nat
          BY <1>0, <2>5 DEF Queue
        <5> QED
          BY <5>1, <5>2
      <4> QED
        BY <3>1, <3>2, <4>1, <4>2 DEF Coming
    <3> QED
      BY <2>0, <2>1, <3>1, <3>2 DEF Coming
  <2> QED
    BY <2>2, <2>4, <2>5, <2>6 DEF Queue
<1>5. \/ UNCHANGED <<sent, inbox, taken, lost>>
      \/ \E s \in Sessions, final \in BOOLEAN : Broadcast(s, final) /\ taken' = taken
      \/ \E q \in Processes : GetMessage(q) \/ Dispatch(q) \/ LoseConnection(q) \/ Stop(q)
  BY DEF Next, Publisher, Service, Listener, Handler, PublishProgress, WriteRow, PublishEnd, Start,
         Reconnect, LookUp, Subscribe, Forward, ClientGoes, HandlerEnds, InfoFails, vars, socket,
         listener
<1> QED
  BY <1>1, <1>2, <1>3, <1>4, <1>5

LEMMA LineKept ==
  ASSUME QInv, TypeOK', NEW w \in Sockets, Shapes(w, conn[w].proc), Stays(w)
  PROVE  Line(w)'
<1> DEFINE p == conn[w].proc
           R == ToSet(received[w])
           F == ToSet(forwards[w])
           C == ({taken[p]} \ {0}) \cup ToSet(inbox[p])
<1>0. /\ p \in Processes /\ conn'[w].proc = p
      /\ received[w] \in Seq(Events) /\ forwards[w] \in Seq(Events)
      /\ inbox[p] \in Seq(Events) /\ taken[p] \in Events \cup {0}
      /\ Events \in SUBSET Nat /\ Len(sent) \in Nat
  BY EventsAreNumbers, SentGrows DEF QInv, TypeOK, Connection, Stays
<1>1. /\ Sorted(received[w]) /\ Sorted(forwards[w]) /\ Before(R, F)
      /\ Before(R \cup F, C) /\ R \cup F \subseteq Sent
      /\ Sorted(inbox[p]) /\ Before({taken[p]} \ {0}, ToSet(inbox[p])) /\ C \subseteq Sent
  BY <1>0 DEF QInv, Line, Queue, Got, Coming
<1>2. /\ Got(w)' = ToSet(received'[w]) \cup ToSet(forwards'[w])
      /\ Coming(conn[w].proc)' = ({taken'[p]} \ {0}) \cup ToSet(inbox'[p])
  BY <1>0 DEF Got, Coming
<1>3. ToSet(<<>>) = {} /\ Sorted(<<>>)
  BY <1>0, Elements
\* Nothing new to the client, and no more before it than there was.
<1>4. ASSUME received'[w] = received[w], forwards'[w] \in {forwards[w], <<>>},
             Coming(conn[w].proc)' \subseteq C \cup {Len(sent) + 1}, Sent \subseteq Sent'
      PROVE  Line(w)'
  <2>1. /\ ToSet(forwards'[w]) \subseteq F /\ Sorted(forwards'[w])
    BY <1>1, <1>3, <1>4
  <2>2. Before(Sent, {Len(sent) + 1})
    BY SentGrows DEF QInv
  <2>3. Before(R, ToSet(forwards'[w]))
    BY <1>1, <2>1 DEF Before
  <2>4. Before(R \cup ToSet(forwards'[w]), Coming(conn[w].proc)')
    BY <1>1, <1>4, <2>1, <2>2 DEF Before
  <2> QED
    BY <1>1, <1>2, <1>4, <2>1, <2>3, <2>4 DEF Line
<1>5. CASE Rests(w, p) \/ Loses(w, p) \/ Stops(w, p)
  <2>1. Coming(conn[w].proc)' \subseteq C /\ Sent' = Sent
    BY <1>2, <1>3, <1>5 DEF Rests, Loses, Stops, Sent
  <2> QED
    BY <1>4, <1>5, <2>1 DEF Rests, Loses, Stops
<1>6. CASE Comes(w, p)
  <2> DEFINE n == Len(sent) + 1
  <2>1. Sent' = Sent \cup {n}
    BY <1>6, SentGrows DEF Comes, QInv
  <2>2. n \in Events
    <3>1. Len(sent') <= MaxEvents /\ MaxEvents \in Nat
      BY BroadcastAssumption DEF TypeOK
    <3> QED
      BY <1>0, <1>6, <3>1 DEF Comes, Events
  <2>3. ToSet(Append(inbox[p], n)) = ToSet(inbox[p]) \cup {n}
    BY <1>0, <2>2, AppendingEvents
  <2>4. Coming(conn[w].proc)' \subseteq C \cup {n}
    BY <1>2, <1>6, <2>3 DEF Comes
  <2> QED
    BY <1>4, <1>6, <2>1, <2>4 DEF Comes
<1>7. CASE Reads(w, p)
  <2>1. ToSet(inbox[p]) = {taken'[p]} \cup ToSet(inbox'[p])
    BY <1>0, <1>7, Taking DEF Reads
  <2>2. Coming(conn[w].proc)' \subseteq C
    BY <1>2, <2>1
  <2> QED
    BY <1>4, <1>7, <2>2 DEF Reads, Sent
<1>8. CASE Dispatches(w, p)
  <2>1. ToSet(forwards'[w]) \subseteq F \cup ({taken[p]} \ {0})
    BY <1>8 DEF Dispatches
  <2>2. Coming(conn[w].proc)' = ToSet(inbox'[p]) /\ inbox'[p] = inbox[p] /\ Sent' = Sent
    BY <1>2, <1>8 DEF Dispatches, Sent
  <2>3. Before(F, {taken[p]})
    BY <1>1, <1>8 DEF Before, Dispatches
  <2>4. Sorted(forwards'[w]) /\ Sorted(received'[w])
    BY <1>1, <1>8, <2>3 DEF Dispatches
  <2>5. Before(R, ToSet(forwards'[w]))
    BY <1>1, <2>1 DEF Before
  <2>6. Before(R \cup ToSet(forwards'[w]), ToSet(inbox[p]))
    BY <1>1, <2>1 DEF Before
  <2>7. R \cup ToSet(forwards'[w]) \subseteq Sent
    BY <1>1, <2>1
  <2>8. received'[w] = received[w]
    BY <1>8 DEF Dispatches
  <2> QED
    BY <1>0, <1>2, <2>2, <2>4, <2>5, <2>6, <2>7, <2>8 DEF Line
<1>9. CASE Sends(w, p)
  <2> DEFINE e == Head(forwards[w])
  <2>1. /\ e \in Events
        /\ F = {e} \cup ToSet(forwards'[w])
        /\ Sorted(forwards'[w]) /\ Before({e}, F)
    BY <1>0, <1>1, <1>9, Taking DEF Sends
  <2>2. Before(R, {e})
    BY <1>1, <2>1 DEF Before
  <2>3. /\ Sorted(received'[w]) /\ ToSet(received'[w]) \subseteq R \cup {e}
    <3>1. CASE conn[w].client
      BY <1>0, <1>1, <1>9, <2>1, <2>2, <3>1, AppendingEvents DEF Sends
    <3>2. CASE ~conn[w].client
      BY <1>1, <1>9, <3>2 DEF Sends
    <3> QED
      BY <3>1, <3>2
  <2>4. Before(ToSet(received'[w]), ToSet(forwards'[w]))
    BY <1>1, <2>1, <2>3 DEF Before
  <2>5. Coming(conn[w].proc)' = C /\ Sent' = Sent
    BY <1>2, <1>9 DEF Sends, Sent
  <2>6. Got(w)' \subseteq R \cup F
    BY <1>2, <2>1, <2>3
  <2>7. Before(Got(w)', C)
    BY <1>1, <2>6 DEF Before
  <2> QED
    BY <1>0, <1>1, <2>1, <2>3, <2>4, <2>5, <2>6, <2>7 DEF Line
<1> QED
  BY <1>5, <1>6, <1>7, <1>8, <1>9 DEF Shapes

LEMMA QInvKept == QInv /\ [Next]_vars => QInv'
<1> SUFFICES ASSUME QInv, [Next]_vars
             PROVE  QInv'
  OBVIOUS
<1>1. TypeOK' /\ Handlers'
  BY NextTypeOK, HandlersKept DEF QInv
<1>2. \A p \in Processes : Queue(p)'
  BY <1>1, QueueKept DEF QInv
<1>3. \A w \in Sockets : Line(w)'
  BY <1>1, StepShapes, LineKept DEF QInv
<1> QED
  BY <1>1, <1>2, <1>3 DEF QInv

(***************************************************************************)
(* What is whole and what is known.                                         *)
(***************************************************************************)
LEMMA GotAndComing ==
  ASSUME QInv, QInv', NEW w \in Sockets, Shapes(w, conn[w].proc), Stays(w), conn'[w].client,
         conn[w].at = "subscribed"
  PROVE  LET p == conn[w].proc
             all == Got(w) \cup Coming(p) \cup lost[p]
         IN  /\ (Got(w) \cup Coming(conn[w].proc) \cup lost[conn[w].proc])'
                  = IF Comes(w, p) THEN all \cup {Len(sent) + 1} ELSE all
             /\ Got(w)' \subseteq Got(w) \cup Coming(p)
<1> DEFINE p == conn[w].proc
           all == Got(w) \cup Coming(p) \cup lost[p]
           all2 == Got(w)' \cup (({taken'[p]} \ {0}) \cup ToSet(inbox'[p])) \cup lost'[p]
<1>0. /\ p \in Processes /\ conn'[w].proc = p
      /\ received[w] \in Seq(Events) /\ forwards[w] \in Seq(Events)
      /\ inbox[p] \in Seq(Events) /\ taken[p] \in Events \cup {0}
      /\ Events \in SUBSET Nat /\ 0 \notin Events /\ Len(sent) \in Nat
  BY EventsAreNumbers, SentGrows DEF QInv, TypeOK, Connection, Stays, Events
<1>1. /\ Got(w)' = ToSet(received'[w]) \cup ToSet(forwards'[w])
      /\ (Got(w) \cup Coming(conn[w].proc) \cup lost[conn[w].proc])' = all2
  BY <1>0 DEF Got, Coming
<1>2. ToSet(<<>>) = {}
  BY <1>0, Elements
<1>3. CASE Rests(w, p)
  <2>1. ~Comes(w, p)
    BY <1>0, <1>3 DEF Rests, Comes
  <2> QED
    BY <1>1, <1>3, <2>1 DEF Rests, Got, Coming
<1>4. CASE Comes(w, p)
  <2> DEFINE n == Len(sent) + 1
  <2>1. n \in Events
    <3>1. Len(sent') <= MaxEvents /\ MaxEvents \in Nat
      BY BroadcastAssumption DEF QInv, TypeOK
    <3> QED
      BY <1>0, <1>4, <3>1 DEF Comes, Events
  <2>2. ToSet(Append(inbox[p], n)) = ToSet(inbox[p]) \cup {n}
    BY <1>0, <2>1, AppendingEvents
  <2> QED
    BY <1>1, <1>4, <2>2 DEF Comes, Got, Coming
<1>5. CASE Reads(w, p)
  <2>1. ToSet(inbox[p]) = {taken'[p]} \cup ToSet(inbox'[p]) /\ taken'[p] \in Events
    BY <1>0, <1>5, Taking DEF Reads
  <2>2. ~Comes(w, p)
    BY <1>0, <1>5 DEF Reads, Comes
  <2> QED
    BY <1>0, <1>1, <1>5, <2>1, <2>2 DEF Reads, Got, Coming
<1>6. CASE Dispatches(w, p)
  <2>1. ~Comes(w, p)
    BY <1>0, <1>6 DEF Dispatches, Comes
  <2>2. ToSet(forwards'[w]) = ToSet(forwards[w]) \cup {taken[p]}
    BY <1>6 DEF Dispatches
  <2> QED
    BY <1>1, <1>6, <2>1, <2>2 DEF Dispatches, Got, Coming
<1>7. CASE Loses(w, p)
  <2>1. ~Comes(w, p)
    BY <1>0, <1>7 DEF Loses, Comes
  <2> QED
    BY <1>1, <1>2, <1>7, <2>1 DEF Loses, Got, Coming
<1>8. CASE Stops(w, p)
  BY <1>8 DEF Stops
<1>9. CASE Sends(w, p)
  <2>1. ~Comes(w, p)
    BY <1>0, <1>9 DEF Sends, Comes
  <2>2. conn[w].client
    BY <1>9 DEF Sends
  <2>3. /\ ToSet(forwards[w]) = {Head(forwards[w])} \cup ToSet(forwards'[w])
        /\ Head(forwards[w]) \in Events
    BY <1>0, <1>9, Taking DEF Sends
  <2>4. ToSet(received'[w]) = ToSet(received[w]) \cup {Head(forwards[w])}
    BY <1>0, <1>9, <2>2, <2>3, AppendingEvents DEF Sends
  <2> QED
    BY <1>1, <1>9, <2>1, <2>3, <2>4 DEF Sends, Got, Coming
<1> QED
  BY <1>3, <1>4, <1>5, <1>6, <1>7, <1>8, <1>9 DEF Shapes

\* Before it subscribed a websocket was sent nothing.
LEMMA NothingBefore ==
  ASSUME QInv, NEW w \in Sockets, conn[w].at \in {"none", "looked"}
  PROVE  Got(w) = {}
<1>1. received[w] = <<>> /\ forwards[w] = <<>>
  BY DEF QInv, Handlers
<1>2. ToSet(<<>>) = {}
  BY Elements, EmptySeq
<1> QED
  BY <1>1, <1>2 DEF Got

LEMMA WholeKept ==
  ASSUME QInv, QInv', NEW w \in Sockets, Shapes(w, conn[w].proc), Stays(w), Whole(w)
  PROVE  Whole(w)'
<1> DEFINE p == conn[w].proc
           n == Len(sent) + 1
<1> SUFFICES ASSUME conn'[w].client, NEW i \in Got(w)', NEW k \in Sent', i <= k
             PROVE  k \in (Got(w) \cup Coming(conn[w].proc) \cup lost[conn[w].proc])'
  BY DEF Whole
<1>1. conn'[w].at \in {"looked", "subscribed"}
  BY DEF QInv, Handlers
<1>2. conn'[w].at = "subscribed"
  <2>1. conn'[w].at = "looked" => Got(w)' = {}
    <3>1. conn'[w].at = "looked" => received'[w] = <<>> /\ forwards'[w] = <<>>
      BY DEF QInv, Handlers
    <3>2. ToSet(<<>>) = {}
      BY Elements, EmptySeq
    <3> QED
      BY <3>1, <3>2 DEF Got
  <2> QED
    BY <1>1, <2>1
<1>3. conn[w].client /\ conn[w].at \in {"looked", "subscribed"}
  BY <1>2 DEF Stays, QInv, Handlers
<1>4. CASE conn[w].at = "looked"
  <2>1. received[w] = <<>> /\ forwards[w] = <<>>
    BY <1>4 DEF QInv, Handlers
  <2>2. Rests(w, p) \/ Reads(w, p) \/ Loses(w, p)
    BY <1>2, <1>4, <2>1 DEF Shapes, Comes, Dispatches, Stops, Sends
  <2>3. Got(w)' = Got(w)
    BY <2>2 DEF Rests, Reads, Loses, Got
  <2> QED
    BY <1>4, <2>3, NothingBefore
<1>5. CASE conn[w].at = "subscribed"
  <2>1. /\ (Got(w) \cup Coming(conn[w].proc) \cup lost[conn[w].proc])'
             = IF Comes(w, p) THEN Got(w) \cup Coming(p) \cup lost[p] \cup {n}
               ELSE Got(w) \cup Coming(p) \cup lost[p]
        /\ Got(w)' \subseteq Got(w) \cup Coming(p)
    BY <1>5, GotAndComing
  <2>2. p \in Processes /\ Queue(p)
    BY DEF QInv, TypeOK, Connection
  <2>4. CASE k \in Sent /\ i \in Got(w)
    BY <1>3, <2>1, <2>4 DEF Whole
  <2>5. CASE k \in Sent /\ i \notin Got(w)
    <3>1. i \in Coming(p)
      BY <2>1, <2>5
    <3> QED
      BY <2>1, <2>2, <2>5, <3>1 DEF Queue
  <2>6. CASE k \notin Sent
    <3>1. Comes(w, p) /\ k = n
      <4>1. Sent' # Sent
        BY <2>6
      <4>2. Comes(w, p)
        BY <4>1 DEF Shapes, Rests, Reads, Dispatches, Loses, Stops, Sends, Sent
      <4> QED
        BY <2>6, <4>2, SentGrows DEF Comes, QInv
    <3> QED
      BY <2>1, <3>1
  <2> QED
    BY <2>4, <2>5, <2>6
<1> QED
  BY <1>3, <1>4, <1>5

LEMMA EndsKept == QInv /\ Ends /\ [Next]_vars => Ends' /\ \A s \in Sessions :
                    life[s] \in {"told", "toldFailed"} => life'[s] = life[s]
<1> SUFFICES ASSUME QInv, Ends, [Next]_vars
             PROVE  Ends' /\ \A s \in Sessions :
                      life[s] \in {"told", "toldFailed"} => life'[s] = life[s]
  OBVIOUS
<1>0. /\ life \in [Sessions -> Lives]
      /\ \A i \in Sent : sent[i].session \in Sessions
  <2>1. sent \in [1..Len(sent) -> [session : Sessions, final : BOOLEAN]]
    BY LenProperties DEF QInv, TypeOK
  <2> QED
    BY <2>1 DEF QInv, TypeOK, Sent
<1>1. CASE UNCHANGED <<sent, life>>
  BY <1>1 DEF Ends, Sent
<1>2. ASSUME NEW s \in Sessions, NEW final \in BOOLEAN, Broadcast(s, final), \E v \in Lives :
               life' = [life EXCEPT ![s] = v]
               /\ (final => v \in {"told", "toldFailed"})
               /\ (life[s] \in {"told", "toldFailed"} => v = life[s])
      PROVE  Ends' /\ \A t \in Sessions :
               life[t] \in {"told", "toldFailed"} => life'[t] = life[t]
  <2> DEFINE n == Len(sent) + 1
  <2>1. \A t \in Sessions : life[t] \in {"told", "toldFailed"} => life'[t] = life[t]
    BY <1>0, <1>2
  <2>2. Sent' = Sent \cup {n} /\ (\A i \in Sent : sent'[i] = sent[i])
        /\ sent'[n] = [session |-> s, final |-> final]
    BY <1>2, BroadcastTyped, SentGrows DEF QInv
  <2>3. final => life'[s] \in {"told", "toldFailed"}
    BY <1>0, <1>2
  <2>4. ASSUME NEW i \in Sent', sent'[i].final
        PROVE  life'[sent'[i].session] \in {"told", "toldFailed"}
    <3>1. CASE i = n
      BY <2>2, <2>3, <2>4, <3>1
    <3>2. CASE i # n
      BY <1>0, <2>1, <2>2, <2>4, <3>2 DEF Ends
    <3> QED
      BY <3>1, <3>2
  <2> QED
    BY <2>1, <2>4 DEF Ends
<1>3. ASSUME NEW s \in Sessions, PublishProgress(s)
      PROVE  Ends' /\ \A t \in Sessions :
               life[t] \in {"told", "toldFailed"} => life'[t] = life[t]
  <2>1. life' = [life EXCEPT ![s] = life[s]] /\ life[s] \in Lives /\ Broadcast(s, FALSE)
    BY <1>0, <1>3 DEF PublishProgress
  <2> QED
    BY <1>2, <2>1
<1>4. ASSUME NEW s \in Sessions, WriteRow(s)
      PROVE  Ends' /\ \A t \in Sessions :
               life[t] \in {"told", "toldFailed"} => life'[t] = life[t]
  <2>1. sent' = sent /\ \A t \in Sessions :
          life[t] \in {"told", "toldFailed"} => life'[t] = life[t]
    BY <1>0, <1>4 DEF WriteRow
  <2> QED
    BY <1>0, <2>1 DEF Ends, Sent
<1>5. ASSUME NEW s \in Sessions, PublishEnd(s)
      PROVE  Ends' /\ \A t \in Sessions :
               life[t] \in {"told", "toldFailed"} => life'[t] = life[t]
  <2> DEFINE v == IF life[s] = "ended" THEN "told" ELSE "toldFailed"
  <2>1. /\ life' = [life EXCEPT ![s] = v] /\ v \in Lives
        /\ life[s] \in {"ended", "failed"}
    BY <1>5 DEF PublishEnd, Lives
  <2>2. CASE Broadcast(s, TRUE)
    BY <1>2, <2>1, <2>2
  <2>3. CASE sent' = sent
    BY <1>0, <2>1, <2>3 DEF Ends, Sent
  <2> QED
    BY <1>5, <2>2, <2>3 DEF PublishEnd
<1>6. UNCHANGED <<sent, life>> \/ \E s \in Sessions : Publisher(s)
  BY DEF Next, Service, Listener, Handler, Start, GetMessage, Dispatch, LoseConnection, Reconnect,
         Stop, LookUp, Subscribe, Forward, ClientGoes, HandlerEnds, InfoFails, vars, socket, listener
<1> QED
  BY <1>1, <1>3, <1>4, <1>5, <1>6 DEF Publisher

LEMMA KnowsKept ==
  ASSUME QInv, QInv', Ends, [Next]_vars, NEW w \in Sockets, Knows(w)
  PROVE  Knows(w)'
<1> DEFINE p == conn[w].proc
           n == Len(sent) + 1
<1>0. Shapes(w, p) /\ Stays(w)
  BY StepShapes DEF QInv
<1>l. \A s \in Sessions : life[s] \in {"told", "toldFailed"} => life'[s] = life[s]
  BY EndsKept
<1>c. conn[w] \in Connection /\ conn[w].session \in Sessions
  BY DEF QInv, TypeOK, Connection
<1> SUFFICES ASSUME conn'[w].client, NEW i \in Sent', sent'[i].final,
                    sent'[i].session = conn'[w].session
             PROVE  \/ conn'[w].told
                    \/ i \in gap'[w]
                    \/ /\ conn'[w].at = "subscribed"
                       /\ i \in (Got(w) \cup Coming(conn[w].proc) \cup lost[conn[w].proc])'
  BY DEF Knows
<1>1. conn'[w].session = conn[w].session
  BY <1>0 DEF Stays
<1>2. CASE ~conn[w].client
  <2>1. conn'[w].at = "looked" /\ LookUp(w)
    <3>1. conn'[w] # conn[w]
      BY <1>2
    <3>2. \A v \in Sockets : v # w =>
            ~(LookUp(v) \/ Subscribe(v) \/ ClientGoes(v) \/ HandlerEnds(v) \/ InfoFails(v))
      BY <3>1 DEF LookUp, Subscribe, ClientGoes, HandlerEnds, InfoFails, QInv, TypeOK
    <3>3. ~(Subscribe(w) \/ ClientGoes(w) \/ HandlerEnds(w) \/ InfoFails(w))
      BY <1>2, <1>c DEF Subscribe, ClientGoes, HandlerEnds, InfoFails, QInv, TypeOK, Connection
    <3>4. \A q \in Processes : ~Stop(q)
      <4>1. ASSUME NEW q \in Processes, Stop(q)
            PROVE  FALSE
        <5>1. CASE w \in Of(q)
          BY <4>1, <5>1, <1>c DEF Stop, QInv, TypeOK, Connection
        <5>2. CASE w \notin Of(q)
          BY <4>1, <5>2, <3>1 DEF Stop, QInv, TypeOK
        <5> QED
          BY <5>1, <5>2
      <4> QED
        BY <4>1
    <3>5. LookUp(w)
      BY <3>1, <3>2, <3>3, <3>4 DEF Next, Publisher, Service, Listener, Handler, PublishProgress,
         WriteRow, PublishEnd, Start, GetMessage, Dispatch, LoseConnection, Reconnect, Forward,
         vars, socket, listener
    <3> QED
      BY <1>2, <1>0, <3>5 DEF Stays
  <2>2. PICK told \in BOOLEAN :
          /\ conn' = [conn EXCEPT ![w] = [@ EXCEPT !.at = "looked", !.client = TRUE, !.told = told]]
          /\ life[conn[w].session] \in {"told", "toldFailed"} =>
               told \/ Ended(conn[w].session) \subseteq gap'[w]
    BY <2>1, LooksUp DEF QInv
  <2>3. conn'[w].told = told
    BY <2>2, <1>c DEF QInv, TypeOK, Connection
  <2>4. sent' = sent /\ life' = life
    BY <2>1 DEF LookUp
  <2>5. life[conn[w].session] \in {"told", "toldFailed"}
    BY <1>1, <2>4 DEF Ends, Sent
  <2>6. i \in Ended(conn[w].session)
    <3>1. DOMAIN sent = 1..Len(sent)
      BY LenProperties DEF QInv, TypeOK
    <3> QED
      BY <1>1, <2>4, <3>1 DEF Ended, Sent
  <2> QED
    BY <2>2, <2>3, <2>5, <2>6
<1>3. CASE conn[w].client
  <2>1. conn'[w].told = conn[w].told /\ gap[w] \subseteq gap'[w]
    BY <1>0, <1>3 DEF Stays
  <2>2. CASE i \in Sent /\ sent'[i] = sent[i]
    <3>1. \/ conn[w].told
          \/ i \in gap[w]
          \/ /\ conn[w].at = "subscribed"
             /\ i \in Got(w) \cup Coming(p) \cup lost[p]
      BY <1>1, <1>3, <2>2 DEF Knows
    <3>3. ASSUME conn[w].at = "subscribed", i \in Got(w) \cup Coming(p) \cup lost[p]
          PROVE  /\ conn'[w].at = "subscribed"
                 /\ i \in (Got(w) \cup Coming(conn[w].proc) \cup lost[conn[w].proc])'
      BY <1>0, <3>3, GotAndComing DEF Stays
    <3> QED
      BY <2>1, <3>1, <3>3
  <2>3. CASE ~(i \in Sent /\ sent'[i] = sent[i])
    <3>1. sent' # sent
      BY <2>3 DEF Sent
    <3>2. Comes(w, p)
      BY <1>0, <3>1 DEF Shapes, Rests, Reads, Dispatches, Loses, Stops, Sends
    <3>3. i = n
      <4>1. Sent' = Sent \cup {n}
        BY <3>2, SentGrows DEF Comes, QInv
      <4>2. i \notin Sent
        BY <2>3, <3>2 DEF Comes
      <4> QED
        BY <4>1, <4>2
    <3>4. conn[w].at \in {"looked", "subscribed"} /\ conn' = conn
      BY <1>3, <3>2 DEF Comes, QInv, Handlers
    <3>5. CASE conn[w].at = "looked"
      BY <3>2, <3>3, <3>5 DEF Comes
    <3>6. CASE conn[w].at = "subscribed"
      BY <1>0, <3>2, <3>3, <3>4, <3>6, GotAndComing
    <3> QED
      BY <3>4, <3>5, <3>6
  <2> QED
    BY <2>2, <2>3
<1> QED
  BY <1>2, <1>3


LEMMA NoHolesKept ==
  ASSUME QInv, QInv', NEW w \in Sockets, Shapes(w, conn[w].proc), Stays(w), Whole(w),
         \A i, j \in ToSet(received[w]) : \A k \in i..j :
           k \in ToSet(received[w]) \cup lost[conn[w].proc]
  PROVE  \A i, j \in ToSet(received'[w]) : \A k \in i..j :
           k \in ToSet(received'[w]) \cup lost'[conn'[w].proc]
<1> DEFINE p == conn[w].proc
           R == ToSet(received[w])
           e == Head(forwards[w])
<1>1. p \in Processes /\ conn'[w].proc = p
  BY DEF QInv, TypeOK, Connection, Stays
<1>2. CASE received'[w] = received[w]
  <2>1. lost[p] \subseteq lost'[p]
    BY DEF Shapes, Rests, Comes, Reads, Dispatches, Loses, Stops, Sends
  <2> QED
    BY <1>1, <1>2, <2>1
<1>3. CASE received'[w] # received[w]
  <2>1. Sends(w, p) /\ conn[w].client
    BY <1>3 DEF Shapes, Rests, Comes, Reads, Dispatches, Loses, Stops, Sends
  <2>2. /\ e \in Events /\ ToSet(forwards[w]) = {e} \cup ToSet(forwards'[w])
        /\ Before({e}, ToSet(forwards[w]))
    <3>1. forwards[w] \in Seq(Events) /\ forwards[w] # <<>> /\ Sorted(forwards[w])
          /\ Events \in SUBSET Nat
      BY <2>1, EventsAreNumbers DEF QInv, TypeOK, Line, Sends
    <3> QED
      BY <2>1, <3>1, Taking DEF Sends
  <2>3. ToSet(received'[w]) = R \cup {e}
    BY <2>1, <2>2, AppendingEvents DEF QInv, TypeOK, Sends
  <2>4. lost'[p] = lost[p]
    BY <2>1 DEF Sends
  <2>5. Before(R, ToSet(forwards[w])) /\ Before(Got(w), Coming(p)) /\ Got(w) \subseteq Sent
    BY DEF QInv, Line
  <2>6. Sent \subseteq Nat /\ Len(sent) \in Nat /\ Sent = 1..Len(sent)
    BY SentGrows DEF QInv, Sent
  <2>7. e \in Sent /\ e \in Got(w) /\ R \subseteq Got(w) /\ R \subseteq Sent
    BY <2>2, <2>5 DEF Got
  <2>8. \A i \in R : i <= e
    BY <2>2, <2>5 DEF Before
  <2>9. ASSUME NEW i \in R, NEW k \in i..e
        PROVE  k \in R \cup {e} \cup lost[p]
    <3>1. k \in Sent /\ i <= k /\ k <= e /\ i \in Got(w)
      BY <2>6, <2>7
    <3>2. k \in Got(w) \cup Coming(p) \cup lost[p]
      BY <2>1, <3>1 DEF Whole
    <3>3. CASE k \in ToSet(forwards[w]) \cup Coming(p)
      <4>1. e <= k
        BY <2>2, <2>5, <2>7, <3>3 DEF Before
      <4> QED
        BY <2>6, <2>7, <3>1, <4>1
    <3> QED
      BY <3>2, <3>3 DEF Got
  <2>10. ASSUME NEW i \in R \cup {e}, NEW j \in R \cup {e}, NEW k \in i..j
         PROVE  k \in R \cup {e} \cup lost[p]
    <3>1. CASE i \in R /\ j \in R
      BY <3>1
    <3>2. CASE i \in R /\ j = e
      BY <2>9, <3>2
    <3>3. CASE i = e
      <4>1. j <= e /\ e \in Nat /\ j \in Nat
        BY <2>6, <2>7, <2>8
      <4>2. k = e
        BY <3>3, <4>1
      <4> QED
        BY <4>2
    <3> QED
      BY <3>1, <3>2, <3>3
  <2> QED
    BY <1>1, <2>3, <2>4, <2>10
<1> QED
  BY <1>2, <1>3

LEMMA InvKept == IInv /\ NoHoles /\ [Next]_vars => IInv' /\ NoHoles'
<1> SUFFICES ASSUME IInv, NoHoles, [Next]_vars
             PROVE  IInv' /\ NoHoles'
  OBVIOUS
<1>1. QInv /\ QInv'
  BY QInvKept DEF IInv
<1>2. Ends'
  BY <1>1, EndsKept DEF IInv
<1>3. \A w \in Sockets : Shapes(w, conn[w].proc) /\ Stays(w)
  BY <1>1, StepShapes DEF QInv
<1>4. \A w \in Sockets : Whole(w)'
  BY <1>1, <1>3, WholeKept DEF IInv
<1>5. \A w \in Sockets : Knows(w)'
  BY <1>1, KnowsKept DEF IInv
<1>6. NoHoles'
  BY <1>1, <1>3, NoHolesKept DEF IInv, NoHoles
<1> QED
  BY <1>1, <1>2, <1>4, <1>5, <1>6 DEF IInv

LEMMA Always == Spec => [](IInv /\ NoHoles)
<1>1. Init => IInv /\ NoHoles
  BY InitInv
<1>2. (IInv /\ NoHoles) /\ [Next]_vars => (IInv /\ NoHoles)'
  BY InvKept
<1> QED
  BY <1>1, <1>2, PTL DEF Spec

\* Every variable keeps its type, for any processes, sessions and websockets: no
\* interleaving of the listeners with handlers and stops leaves a handler half made.
THEOREM EventsTyped == Spec => []TypeOK
<1>1. IInv => TypeOK
  BY DEF IInv, QInv
<1> QED
  BY <1>1, Always, PTL

\* Events reach a client in the order in which they were published, for any number of
\* processes, websockets and events, and whatever connections are lost.
THEOREM EventsInOrder == Spec => []InOrder
<1>1. IInv => InOrder
  <2> SUFFICES ASSUME IInv, NEW w \in Sockets, NEW i \in DOMAIN received[w],
                      NEW j \in DOMAIN received[w], i < j
               PROVE  received[w][i] <= received[w][j]
    BY DEF InOrder
  <2>1. Sorted(received[w]) /\ received[w] \in Seq(Events)
    BY DEF IInv, QInv, Line, TypeOK
  <2>2. DOMAIN received[w] = 1..Len(received[w]) /\ Len(received[w]) \in Nat
    BY <2>1, LenProperties
  <2> QED
    BY <2>1, <2>2 DEF Sorted
<1> QED
  BY <1>1, Always, PTL

\* Between two events that a client got none is missing, save those that Redis did not
\* give to the process: no task is skipped and no callback left out.
THEOREM NothingSkipped == Spec => []NoHoles
<1>1. IInv /\ NoHoles => NoHoles
  OBVIOUS
<1> QED
  BY <1>1, Always, PTL

\* A subscribed client knows of the end of its session, has it on its way, or the loss
\* has one of the causes that EndIsKnown names, and no other.
THEOREM EndsAreKnown == Spec => []EndIsKnown
<1>1. IInv => EndIsKnown
  <2> SUFFICES ASSUME IInv, NEW w \in Sockets, conn[w].at = "subscribed", conn[w].client,
                      NEW i \in DOMAIN sent, sent[i].final,
                      sent[i].session = conn[w].session
               PROVE  \/ conn[w].told
                      \/ i \in ToSet(received[w]) \cup Waiting(w)
                      \/ i \in lost[conn[w].proc] \cup gap[w]
    BY DEF EndIsKnown
  <2>1. i \in Sent
    <3>1. DOMAIN sent = 1..Len(sent)
      BY LenProperties DEF IInv, QInv, TypeOK
    <3> QED
      BY <3>1 DEF Sent
  <2>2. \/ conn[w].told
        \/ i \in gap[w]
        \/ i \in Got(w) \cup Coming(conn[w].proc) \cup lost[conn[w].proc]
    BY <2>1 DEF IInv, Knows
  <2>3. ToSet(received[w]) \cup Waiting(w) = Got(w) \cup Coming(conn[w].proc)
    BY DEF Waiting, Got, Coming
  <2> QED
    BY <2>2, <2>3
<1> QED
  BY <1>1, Always, PTL

=============================================================================
