--------------------------- MODULE BestEffortCache ---------------------------
(***************************************************************************)
(* What the cache of LightServ (src/lightserv/src/cache.ts) promises, with  *)
(* Redis, the memory fallback and the connection taken away.  A key has a   *)
(* set of copies, each with the time it expires.  A copy is never served    *)
(* after that time; apart from this the cache may forget any copy at any    *)
(* moment and may serve any copy it still has, so that two reads need not   *)
(* agree.                                                                   *)
(***************************************************************************)
EXTENDS Naturals

CONSTANTS
  Keys,        \* the keys of the cache
  Ttl,         \* Ttl[k] : how long a value of k may be served
  NoAnswer     \* a call that has not returned a value

VARIABLES
  now,         \* the clock
  copies,      \* copies[k] : the copies of k that may still be served
  answer       \* what the last step served: a hit, or NoAnswer

bvars == <<now, copies, answer>>

Copy == [val : Nat, exp : Nat]

Hit == [key : Keys, val : Nat, exp : Nat, at : Nat]

BTypeOK ==
  /\ now \in Nat
  /\ copies \in [Keys -> SUBSET Copy]
  /\ answer # NoAnswer => answer \in Hit

BInit ==
  /\ now = 0
  /\ copies = [k \in Keys |-> {}]
  /\ answer = NoAnswer

Pass == now' = now + 1 /\ answer' = NoAnswer /\ UNCHANGED copies

\* Copies may vanish: evicted, expired, deleted or lost with Redis.
Forget == \A k \in Keys : copies'[k] \subseteq copies[k]

\* One value is stored under k in one of the stores; others may go.
Keep(k) ==
  \A q \in Keys : \A e, f \in copies'[q] \ copies[q] :
    q = k /\ e = f /\ e.exp = now + Ttl[k]

\* A read returns a copy that has not expired, or nothing.
Serve ==
  \E k \in Keys : \E e \in copies[k] :
    /\ e.exp > now
    /\ answer' = [key |-> k, val |-> e.val, exp |-> e.exp, at |-> now]

Miss == answer' = NoAnswer

BNext ==
  \/ Pass
  \/ /\ now' = now
     /\ copies' \in [Keys -> SUBSET Copy]
     /\ \/ Forget /\ (Serve \/ Miss)
        \/ (\E k \in Keys : Keep(k)) /\ Miss

BSpec == BInit /\ [][BNext]_bvars

=============================================================================
