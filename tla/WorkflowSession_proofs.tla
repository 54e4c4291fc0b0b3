----------------------- MODULE WorkflowSession_proofs -----------------------
(***************************************************************************)
(* Proofs about WorkflowSession, for any sets of sessions, API processes   *)
(* and workers, any bounds, and with or without a failing database.        *)
(***************************************************************************)
EXTENDS WorkflowSession, SequenceTheorems, TLAPS

\* The UPDATE a process is blocked on has the shape of a row.
PendShape == \A p \in Procs : pend[p] # None => Shaped(pend[p])

\* A process in the middle of POST /fail holds the session.
ContHeld ==
  \A p \in Procs :
    cont[p] # None /\ cont[p].op = "fail" => mem[p][cont[p].sid] # None

\* A session is rebuilt from a row, and a row is written from pend: that a
\* session has its type rests on the shapes of both.
IInv == TypeOK /\ RowShape /\ PendShape /\ ContHeld

\* Persist leaves a well-formed UPDATE behind.
LEMMA PersistShaped ==
  ASSUME IInv, NEW p \in Procs, NEW s \in Sessions,
         NEW status \in States \union {None}, NEW iter \in Nat \union {None},
         NEW error \in BOOLEAN,
         Shaped([status |-> status, iter |-> iter, error |-> error]),
         Persist(p, s, status, iter, error)
  PROVE  pend' \in [Procs -> Update \union {None}] /\ PendShape'
<1> DEFINE u == [sid |-> s, status |-> status, iter |-> iter, error |-> error,
                 seen |-> row[s].version]
<1>1. CASE UNCHANGED pend
  BY <1>1 DEF IInv, TypeOK, PendShape, Shaped
<1>2. CASE row[s] # None /\ pend' = [pend EXCEPT ![p] = u]
  <2>1. row[s].version \in Nat
    BY <1>2 DEF IInv, TypeOK, Row
  <2>2. u \in Update
    BY <2>1 DEF Update
  <2>3. Shaped(u)
    BY DEF Shaped
  <2>4. pend' \in [Procs -> Update \union {None}]
    BY <1>2, <2>2 DEF IInv, TypeOK
  <2>5. ASSUME NEW q \in Procs, pend'[q] # None PROVE Shaped(pend'[q])
    <3>1. CASE q = p
      <4>1. pend'[q] = u
        BY <1>2, <3>1 DEF IInv, TypeOK
      <4> QED BY <4>1, <2>3
    <3>2. CASE q # p
      <4>1. pend'[q] = pend[q]
        BY <1>2, <3>2 DEF IInv, TypeOK
      <4> QED BY <4>1, <2>5 DEF IInv, PendShape
    <3> QED BY <3>1, <3>2
  <2>6. PendShape'
    BY <2>5 DEF PendShape, Shaped
  <2> QED BY <2>4, <2>6
<1> QED BY <1>1, <1>2 DEF Persist

\* Giving a held session another value of its type.
LEMMA MemUpdated ==
  ASSUME IInv, NEW p \in Procs, NEW s \in Sessions, NEW x \in Session,
         mem' = [mem EXCEPT ![p][s] = x]
  PROVE  /\ mem' \in [Procs -> [Sessions -> Session \union {None}]]
         /\ mem'[p][s] = x
         /\ \A q \in Procs, t \in Sessions :
              (q # p \/ t # s) => mem'[q][t] = mem[q][t]
         /\ \A q \in Procs, t \in Sessions : mem[q][t] # None => mem'[q][t] # None
<1>1. x # None
  BY NoneIsNoRecord
<1>2. mem[p] \in [Sessions -> Session \union {None}]
  BY DEF IInv, TypeOK
<1>3. mem' \in [Procs -> [Sessions -> Session \union {None}]]
  BY <1>2 DEF IInv, TypeOK
<1>4. mem'[p][s] = x
  BY <1>2 DEF IInv, TypeOK
<1>5. \A q \in Procs, t \in Sessions : (q # p \/ t # s) => mem'[q][t] = mem[q][t]
  BY <1>2 DEF IInv, TypeOK
<1> QED BY <1>1, <1>3, <1>4, <1>5

\* A transition, accepted or refused, keeps the types and the held sessions.
LEMMA TransitionSessionTyped ==
  ASSUME IInv, NEW p \in Procs, NEW s \in Sessions, NEW to \in States,
         mem[p][s] # None, TransitionSession(p, s, to)
  PROVE  /\ mem' \in [Procs -> [Sessions -> Session \union {None}]]
         /\ journal' \in [Procs -> [Sessions -> Seq(StateTransition) \union {None}]]
         /\ pend' \in [Procs -> Update \union {None}]
         /\ PendShape'
         /\ \A q \in Procs, t \in Sessions : mem[q][t] # None => mem'[q][t] # None
<1>1. CASE ~IsValidTransition(mem[p][s].status, to)
  BY <1>1 DEF TransitionSession, IInv, TypeOK, PendShape, Shaped
<1>2. CASE IsValidTransition(mem[p][s].status, to)
  <2> DEFINE old   == mem[p][s]
             entry == [from |-> old.status, to |-> to, version |-> old.version + 1]
             new   == [old EXCEPT !.status = to, !.version = entry.version,
                                  !.history = Append(@, entry)]
             log   == Append(IF journal[p][s] = None THEN <<>> ELSE journal[p][s],
                             entry)
  <2>1. old \in Session
    BY DEF IInv, TypeOK
  <2>2. entry \in StateTransition
    BY <2>1 DEF StateTransition, Session
  <2>3. new \in Session
    <3>1. Append(old.history, entry) \in Seq(StateTransition)
      BY <2>1, <2>2 DEF Session
    <3> QED BY <2>1, <2>2, <3>1 DEF Session, StateTransition
  <2>4. /\ mem' = [mem EXCEPT ![p][s] = new]
        /\ journal' = [journal EXCEPT ![p][s] = log]
    <3>1. Transition(p, s, to)
      BY <1>2 DEF TransitionSession
    <3> QED BY <3>1 DEF Transition, IInv, TypeOK
  <2>5. /\ mem' \in [Procs -> [Sessions -> Session \union {None}]]
        /\ \A q \in Procs, t \in Sessions : mem[q][t] # None => mem'[q][t] # None
    BY <2>3, <2>4, MemUpdated
  <2>6. journal' \in [Procs -> [Sessions -> Seq(StateTransition) \union {None}]]
    <3>1. log \in Seq(StateTransition)
      <4>1. (IF journal[p][s] = None THEN <<>> ELSE journal[p][s])
              \in Seq(StateTransition)
        BY DEF IInv, TypeOK
      <4> QED BY <2>2, <4>1
    <3> QED BY <2>4, <3>1 DEF IInv, TypeOK
  <2>7. pend' \in [Procs -> Update \union {None}] /\ PendShape'
    <3>1. old.iter \in Nat
      BY <2>1 DEF Session
    <3>2. Shaped([status |-> to, iter |-> old.iter, error |-> FALSE])
      BY <3>1 DEF Shaped
    <3>3. Persist(p, s, to, old.iter, FALSE)
      BY <1>2 DEF TransitionSession
    <3> QED BY <3>1, <3>2, <3>3, PersistShaped
  <2> QED BY <2>5, <2>6, <2>7
<1> QED BY <1>1, <1>2

\* Recording an error keeps the types and the held sessions.
LEMMA SetErrorTyped ==
  ASSUME IInv, NEW p \in Procs, NEW s \in Sessions,
         mem[p][s] # None, SetError(p, s)
  PROVE  /\ mem' \in [Procs -> [Sessions -> Session \union {None}]]
         /\ pend' \in [Procs -> Update \union {None}]
         /\ PendShape'
         /\ \A q \in Procs, t \in Sessions : mem[q][t] # None => mem'[q][t] # None
<1> DEFINE new == [mem[p][s] EXCEPT !.error = TRUE]
<1>1. new \in Session
  <2>1. mem[p][s] \in Session
    BY DEF IInv, TypeOK
  <2> QED BY <2>1 DEF Session
<1>2. mem' = [mem EXCEPT ![p][s] = new]
  BY DEF SetError, IInv, TypeOK
<1>3. /\ mem' \in [Procs -> [Sessions -> Session \union {None}]]
      /\ \A q \in Procs, t \in Sessions : mem[q][t] # None => mem'[q][t] # None
  BY <1>1, <1>2, MemUpdated
<1>4. pend' \in [Procs -> Update \union {None}] /\ PendShape'
  <2>1. Shaped([status |-> None, iter |-> None, error |-> TRUE])
    BY DEF Shaped
  <2>2. Persist(p, s, None, None, TRUE)
    BY DEF SetError
  <2> QED BY <2>1, <2>2, PersistShaped
<1> QED BY <1>3, <1>4

\* What a row a session can be loaded from is rebuilt to.
LEMMA LoadedTyped ==
  ASSUME IInv, NEW s \in Sessions, Loadable(s)
  PROVE  Loaded(s) \in Session
<1>1. row[s] \in Row /\ Shaped(row[s]) /\ row[s].status # None
  BY DEF Loadable, IInv, TypeOK, RowShape
<1>2. row[s].status \in States /\ row[s].iter \in Nat
  BY <1>1 DEF Shaped, Row
<1>3. row[s].error \in BOOLEAN /\ row[s].version \in Nat
  BY <1>1 DEF Row
<1>4. <<>> \in Seq(StateTransition)
  OBVIOUS
<1> QED BY <1>2, <1>3, <1>4 DEF Loaded, Session

LEMMA IInvInit == Init => IInv
BY DEF Init, IInv, TypeOK, RowShape, PendShape, ContHeld

\* Creating a session, wherever its run is launched.
LEMMA CreateTyped ==
  ASSUME IInv, NEW p \in Procs, NEW s \in Sessions, Create(p, s),
         UNCHANGED <<journal, pend, cont>>,
         runs' \in [Procs -> [Sessions -> Nat]]
  PROVE  IInv'
<1>1. NewSession \in Session
  BY DEF NewSession, Session, States
<1>2. mem' = [mem EXCEPT ![p][s] = NewSession]
  BY DEF Create
<1>3. /\ mem' \in [Procs -> [Sessions -> Session \union {None}]]
      /\ \A q \in Procs, t \in Sessions : mem[q][t] # None => mem'[q][t] # None
  BY <1>1, <1>2, MemUpdated
<1>4. counted' \in [Procs -> SUBSET Sessions]
  BY DEF Create, IInv, TypeOK
<1>5. row' \in [Sessions -> Row \union {None}] /\ RowShape'
  <2>1. NewRow \in Row /\ Shaped(NewRow)
    BY DEF NewRow, Row, Shaped, States
  <2>2. row' = row \/ row' = [row EXCEPT ![s] = NewRow]
    BY DEF Create
  <2>3. row \in [Sessions -> Row \union {None}] /\ RowShape
    BY DEF IInv, TypeOK
  <2>4. row' \in [Sessions -> Row \union {None}]
    BY <2>1, <2>2, <2>3
  <2>5. ASSUME NEW t \in Sessions, row'[t] # None PROVE Shaped(row'[t])
    <3>1. row'[t] = row[t] \/ row'[t] = NewRow
      BY <2>2, <2>3
    <3> QED BY <3>1, <2>1, <2>3, <2>5 DEF RowShape
  <2> QED BY <2>4, <2>5 DEF RowShape, Shaped
<1>6. TypeOK'
  BY <1>3, <1>4, <1>5 DEF IInv, TypeOK
<1>7. PendShape' /\ ContHeld'
  BY <1>3 DEF IInv, TypeOK, PendShape, ContHeld, Shaped, Call
<1> QED BY <1>5, <1>6, <1>7 DEF IInv

\* A run taken up by a process, or ended in it.
LEMMA RunsTyped ==
  ASSUME TypeOK, NEW p \in Procs, NEW s \in Sessions,
         \/ runs' = [runs EXCEPT ![p][s] = @ + 1]
         \/ runs[p][s] > 0 /\ runs' = [runs EXCEPT ![p][s] = @ - 1]
  PROVE  runs' \in [Procs -> [Sessions -> Nat]]
<1>1. runs[p] \in [Sessions -> Nat] /\ runs[p][s] \in Nat
  BY DEF TypeOK
<1>2. CASE runs' = [runs EXCEPT ![p][s] = @ + 1]
  BY <1>1, <1>2 DEF TypeOK
<1>3. CASE runs[p][s] > 0 /\ runs' = [runs EXCEPT ![p][s] = @ - 1]
  <2>1. runs[p][s] - 1 \in Nat
    BY <1>1, <1>3
  <2> QED BY <1>3, <2>1 DEF TypeOK
<1> QED BY <1>2, <1>3

\* The endpoints that transition a session, with or without a new task.
LEMMA MoveTyped ==
  ASSUME IInv, NEW p \in Procs, NEW s \in Sessions, NEW to \in States,
         Move(p, s, to), UNCHANGED runs \/ Dispatch(s)
  PROVE  IInv'
<1>1. mem[p][s] # None /\ TransitionSession(p, s, to) /\ UNCHANGED <<counted, row, cont>>
  BY DEF Move
<1>2. /\ mem' \in [Procs -> [Sessions -> Session \union {None}]]
      /\ journal' \in [Procs -> [Sessions -> Seq(StateTransition) \union {None}]]
      /\ pend' \in [Procs -> Update \union {None}]
      /\ PendShape'
      /\ \A q \in Procs, t \in Sessions : mem[q][t] # None => mem'[q][t] # None
  BY <1>1, TransitionSessionTyped
<1>3. runs' \in [Procs -> [Sessions -> Nat]]
  <2>1. CASE UNCHANGED runs
    BY <2>1 DEF IInv, TypeOK
  <2>2. CASE Dispatch(s)
    BY <2>2, RunsTyped DEF Dispatch, IInv, Procs
  <2> QED BY <2>1, <2>2
<1>4. TypeOK'
  BY <1>1, <1>2, <1>3 DEF IInv, TypeOK
<1>5. RowShape'
  BY <1>1 DEF IInv, RowShape, Shaped
<1>6. ContHeld'
  BY <1>1, <1>2 DEF IInv, TypeOK, ContHeld, Call
<1> QED BY <1>2, <1>4, <1>5, <1>6 DEF IInv

\* Every step keeps the invariant.
LEMMA IInvNext == IInv /\ [Next]_vars => IInv'
<1> SUFFICES ASSUME IInv, [Next]_vars PROVE IInv'
  OBVIOUS
<1>1. ASSUME NEW p \in Apis, NEW s \in Sessions, StartSession(p, s) PROVE IInv'
  <2>1. runs' \in [Procs -> [Sessions -> Nat]]
    BY <1>1, RunsTyped DEF StartSession, IInv, Procs
  <2> QED BY <1>1, <2>1, CreateTyped DEF StartSession, Procs
<1>2. ASSUME NEW p \in Apis, NEW s \in Sessions, Generate(p, s) PROVE IInv'
  <2>1. runs' \in [Procs -> [Sessions -> Nat]]
    BY <1>2, RunsTyped DEF Generate, Dispatch, IInv, Procs
  <2> QED BY <1>2, <2>1, CreateTyped DEF Generate, Procs
<1>3. ASSUME NEW p \in Apis, NEW s \in Sessions, GetSession(p, s) PROVE IInv'
  <2>1. p \in Procs /\ UNCHANGED <<journal, counted, row, pend, cont, runs>>
    BY <1>3 DEF GetSession, Procs
  <2>2. CASE UNCHANGED mem
    BY <2>1, <2>2 DEF IInv, TypeOK, RowShape, PendShape, ContHeld, Shaped
  <2>3. CASE Loadable(s) /\ mem' = [mem EXCEPT ![p][s] = Loaded(s)]
    <3>1. /\ mem' \in [Procs -> [Sessions -> Session \union {None}]]
          /\ \A q \in Procs, t \in Sessions : mem[q][t] # None => mem'[q][t] # None
      BY <2>1, <2>3, LoadedTyped, MemUpdated
    <3>2. TypeOK'
      BY <2>1, <3>1 DEF IInv, TypeOK
    <3>3. RowShape' /\ PendShape' /\ ContHeld'
      BY <2>1, <3>1 DEF IInv, TypeOK, RowShape, PendShape, ContHeld, Shaped, Call
    <3> QED BY <3>2, <3>3 DEF IInv
  <2> QED BY <1>3, <2>2, <2>3 DEF GetSession
<1>4. ASSUME NEW p \in Apis, NEW s \in Sessions,
             \/ RequestTransition(p, s) \/ CompleteSession(p, s)
             \/ EscalateToHumanReview(p, s) \/ EscalateReview(p, s)
             \/ ApproveReview(p, s) \/ ClarifyReview(p, s)
      PROVE  IInv'
  <2>1. \E to \in States : Move(p, s, to) /\ (UNCHANGED runs \/ Dispatch(s))
    BY <1>4 DEF RequestTransition, CompleteSession, EscalateToHumanReview,
                EscalateReview, ApproveReview, ClarifyReview, Review, States
  <2> QED BY <2>1, MoveTyped DEF Procs
<1>5. ASSUME NEW p \in Apis, NEW s \in Sessions, FailSession(p, s) PROVE IInv'
  <2>1. /\ p \in Procs /\ mem[p][s] # None /\ SetError(p, s)
        /\ cont' = [cont EXCEPT ![p] = [op |-> "fail", sid |-> s, outcome |-> "FAILED"]]
        /\ UNCHANGED <<journal, counted, row, runs>>
    BY <1>5 DEF FailSession, Procs
  <2>2. /\ mem' \in [Procs -> [Sessions -> Session \union {None}]]
        /\ pend' \in [Procs -> Update \union {None}]
        /\ PendShape'
        /\ \A q \in Procs, t \in Sessions : mem[q][t] # None => mem'[q][t] # None
    BY <2>1, SetErrorTyped
  <2>3. TypeOK'
    BY <2>1, <2>2 DEF IInv, TypeOK, Call, RunOutcomes
  <2>4. RowShape'
    BY <2>1 DEF IInv, RowShape, Shaped
  <2>5. ContHeld'
    BY <2>1, <2>2 DEF IInv, TypeOK, ContHeld, Call
  <2> QED BY <2>2, <2>3, <2>4, <2>5 DEF IInv
<1>6. ASSUME NEW p \in Procs, FailTransition(p) PROVE IInv'
  <2> DEFINE s == cont[p].sid
  <2>1. /\ s \in Sessions /\ mem[p][s] # None /\ TransitionSession(p, s, "FAILED")
        /\ cont' = [cont EXCEPT ![p] = None]
        /\ UNCHANGED <<counted, row, runs>>
    BY <1>6 DEF FailTransition, IInv, TypeOK, ContHeld, Call
  <2>2. /\ mem' \in [Procs -> [Sessions -> Session \union {None}]]
        /\ journal' \in [Procs -> [Sessions -> Seq(StateTransition) \union {None}]]
        /\ pend' \in [Procs -> Update \union {None}]
        /\ PendShape'
        /\ \A q \in Procs, t \in Sessions : mem[q][t] # None => mem'[q][t] # None
    <3>1. "FAILED" \in States
      BY DEF States
    <3> QED BY <2>1, <3>1, TransitionSessionTyped
  <2>3. TypeOK'
    BY <2>1, <2>2 DEF IInv, TypeOK
  <2>4. RowShape'
    BY <2>1 DEF IInv, RowShape, Shaped
  <2>5. ContHeld'
    BY <2>1, <2>2 DEF IInv, TypeOK, ContHeld, Call
  <2> QED BY <2>2, <2>3, <2>4, <2>5 DEF IInv
<1>7. ASSUME NEW p \in Procs, NEW s \in Sessions, FinishRun(p, s) PROVE IInv'
  <2>1. PICK outcome \in RunOutcomes, message \in BOOLEAN :
          /\ IF outcome = "FAILED" /\ message /\ mem[p][s] # None
             THEN SetError(p, s)
             ELSE UNCHANGED <<mem, pend>>
          /\ cont' = [cont EXCEPT ![p] =
                        [op |-> "finalize", sid |-> s, outcome |-> outcome]]
    BY <1>7 DEF FinishRun
  <2>2. UNCHANGED <<journal, counted, row>>
    BY <1>7 DEF FinishRun
  <2>3. runs' \in [Procs -> [Sessions -> Nat]]
    BY <1>7, RunsTyped DEF FinishRun, IInv
  <2>4. /\ mem' \in [Procs -> [Sessions -> Session \union {None}]]
        /\ pend' \in [Procs -> Update \union {None}]
        /\ PendShape'
        /\ \A q \in Procs, t \in Sessions : mem[q][t] # None => mem'[q][t] # None
    <3>1. CASE UNCHANGED <<mem, pend>>
      BY <3>1 DEF IInv, TypeOK, PendShape, Shaped
    <3>2. CASE mem[p][s] # None /\ SetError(p, s)
      BY <3>2, SetErrorTyped
    <3> QED BY <2>1, <3>1, <3>2
  <2>5. TypeOK'
    BY <2>1, <2>2, <2>3, <2>4 DEF IInv, TypeOK, Call
  <2>6. RowShape'
    BY <2>2 DEF IInv, RowShape, Shaped
  <2>7. ContHeld'
    BY <2>1, <2>4 DEF IInv, TypeOK, ContHeld, Call
  <2> QED BY <2>4, <2>5, <2>6, <2>7 DEF IInv
<1>8. ASSUME NEW p \in Procs, ForceStatus(p) PROVE IInv'
  <2> DEFINE s == cont[p].sid
             Forced(session) == [session EXCEPT !.status = cont[p].outcome]
  <2>1. /\ s \in Sessions /\ cont[p].outcome \in States
        /\ cont' = [cont EXCEPT ![p] = None]
        /\ UNCHANGED <<journal, counted, row, pend, runs>>
    BY <1>8 DEF ForceStatus, IInv, TypeOK, Call, RunOutcomes, States
  <2>2. /\ mem' \in [Procs -> [Sessions -> Session \union {None}]]
        /\ \A q \in Procs, t \in Sessions : mem[q][t] # None => mem'[q][t] # None
    <3>1. CASE UNCHANGED mem
      BY <3>1 DEF IInv, TypeOK
    <3>2. CASE mem[p][s] # None /\ mem' = [mem EXCEPT ![p][s] = Forced(@)]
      <4>1. mem[p][s] \in Session
        BY <2>1, <3>2 DEF IInv, TypeOK
      <4>2. Forced(mem[p][s]) \in Session
        BY <2>1, <4>1 DEF Session
      <4>3. mem' = [mem EXCEPT ![p][s] = Forced(mem[p][s])]
        BY <2>1, <3>2 DEF IInv, TypeOK
      <4> QED BY <2>1, <4>2, <4>3, MemUpdated
    <3>3. CASE Loadable(s) /\ mem' = [mem EXCEPT ![p][s] = Forced(Loaded(s))]
      <4>1. Loaded(s) \in Session
        BY <2>1, <3>3, LoadedTyped
      <4>2. Forced(Loaded(s)) \in Session
        BY <2>1, <4>1 DEF Session
      <4> QED BY <2>1, <3>3, <4>2, MemUpdated
    <3> QED BY <1>8, <3>1, <3>2, <3>3 DEF ForceStatus
  <2>3. TypeOK'
    BY <2>1, <2>2 DEF IInv, TypeOK
  <2>4. RowShape' /\ PendShape' /\ ContHeld'
    BY <2>1, <2>2 DEF IInv, TypeOK, RowShape, PendShape, ContHeld, Shaped, Call
  <2> QED BY <2>3, <2>4 DEF IInv
<1>9. ASSUME NEW p \in Procs, NEW s \in Sessions, CrashRun(p, s) PROVE IInv'
  <2>1. runs' \in [Procs -> [Sessions -> Nat]]
    BY <1>9, RunsTyped DEF CrashRun, IInv
  <2> QED BY <1>9, <2>1 DEF CrashRun, IInv, TypeOK, RowShape, PendShape, ContHeld, Shaped
<1>10. ASSUME NEW p \in Apis, NEW s \in Sessions, IncrementIteration(p, s)
       PROVE  IInv'
  <2> DEFINE old == mem[p][s]
             new == [old EXCEPT !.iter = @ + 1]
  <2>1. p \in Procs /\ old # None /\ UNCHANGED <<journal, counted, row, cont, runs>>
    BY <1>10 DEF IncrementIteration, Procs
  <2>2. old \in Session
    BY <2>1 DEF IInv, TypeOK
  <2>3. new \in Session /\ old.iter + 1 \in Nat
    BY <2>2 DEF Session
  <2>4. mem' = [mem EXCEPT ![p][s] = new]
    BY <1>10, <2>1 DEF IncrementIteration, IInv, TypeOK
  <2>5. /\ mem' \in [Procs -> [Sessions -> Session \union {None}]]
        /\ \A q \in Procs, t \in Sessions : mem[q][t] # None => mem'[q][t] # None
    BY <2>1, <2>3, <2>4, MemUpdated
  <2>6. pend' \in [Procs -> Update \union {None}] /\ PendShape'
    <3>1. CASE UNCHANGED pend
      BY <3>1 DEF IInv, TypeOK, PendShape, Shaped
    <3>2. CASE Persist(p, s, None, old.iter + 1, FALSE)
      <4>1. Shaped([status |-> None, iter |-> old.iter + 1, error |-> FALSE])
        BY <2>3 DEF Shaped
      <4> QED BY <2>1, <2>3, <3>2, <4>1, PersistShaped
    <3> QED BY <1>10, <3>1, <3>2 DEF IncrementIteration
  <2>7. TypeOK'
    BY <2>1, <2>5, <2>6 DEF IInv, TypeOK
  <2>8. RowShape' /\ ContHeld'
    BY <2>1, <2>5 DEF IInv, TypeOK, RowShape, ContHeld, Shaped, Call
  <2> QED BY <2>6, <2>7, <2>8 DEF IInv
<1>11. ASSUME NEW p \in Apis, NEW s \in Sessions, DeleteSession(p, s) PROVE IInv'
  <2>1. /\ p \in Procs /\ Free(p)
        /\ mem' = [mem EXCEPT ![p][s] = None]
        /\ UNCHANGED <<row, pend, cont, runs>>
    BY <1>11 DEF DeleteSession, Procs
  <2>2. TypeOK'
    BY <1>11, <2>1 DEF DeleteSession, IInv, TypeOK
  <2>3. RowShape' /\ PendShape'
    BY <2>1 DEF IInv, RowShape, PendShape, Shaped
  <2>4. ContHeld'
    BY <2>1 DEF IInv, TypeOK, ContHeld, Call, Free
  <2> QED BY <2>2, <2>3, <2>4 DEF IInv
<1>12. ASSUME NEW p \in Procs, Commit(p) PROVE IInv'
  <2> DEFINE u   == pend[p]
             new == [status |-> u.status, iter |-> u.iter, error |-> u.error,
                     version |-> u.seen + 1]
  <2>1. /\ u # None /\ pend' = [pend EXCEPT ![p] = None]
        /\ UNCHANGED <<mem, journal, counted, cont, runs>>
        /\ UNCHANGED row \/ row' = [row EXCEPT ![u.sid] = new]
    BY <1>12 DEF Commit
  <2>2. u \in Update /\ Shaped(u)
    BY <2>1 DEF IInv, TypeOK, PendShape
  <2>3. new \in Row /\ Shaped(new)
    BY <2>2 DEF Update, Row, Shaped
  <2>4. TypeOK'
    BY <2>1, <2>3 DEF IInv, TypeOK
  <2>5. RowShape'
    <3>1. ASSUME NEW t \in Sessions, row'[t] # None PROVE Shaped(row'[t])
      <4>1. row'[t] = row[t] \/ row'[t] = new
        BY <2>1 DEF IInv, TypeOK
      <4> QED BY <2>3, <3>1, <4>1 DEF IInv, RowShape
    <3> QED BY <3>1 DEF RowShape, Shaped
  <2>6. PendShape' /\ ContHeld'
    BY <2>1 DEF IInv, TypeOK, PendShape, ContHeld, Shaped
  <2> QED BY <2>4, <2>5, <2>6 DEF IInv
<1>13. ASSUME NEW p \in Procs, Restart(p) PROVE IInv'
  <2>1. TypeOK'
    BY <1>13 DEF Restart, IInv, TypeOK
  <2>2. RowShape' /\ PendShape' /\ ContHeld'
    BY <1>13 DEF Restart, IInv, TypeOK, RowShape, PendShape, ContHeld, Shaped
  <2> QED BY <2>1, <2>2 DEF IInv
<1>14. CASE UNCHANGED vars
  BY <1>14 DEF vars, IInv, TypeOK, RowShape, PendShape, ContHeld, Shaped
<1> QED BY <1>1, <1>2, <1>3, <1>4, <1>5, <1>6, <1>7, <1>8, <1>9, <1>10, <1>11,
          <1>12, <1>13, <1>14 DEF Next

\* Sessions, journals, rows and pending updates always have their types: a
\* process never rebuilds a session from a row that has lost its columns.
THEOREM TypeCorrect == Spec => []TypeOK
<1>1. IInv => TypeOK
  BY DEF IInv
<1> QED BY IInvInit, IInvNext, <1>1, PTL DEF Spec

\* Every row is a transition's, an iteration's or an error's, whichever
\* processes wrote it and whatever happened between their SELECT and UPDATE.
THEOREM RowsShaped == Spec => []RowShape
<1>1. IInv => RowShape
  BY DEF IInv
<1> QED BY IInvInit, IInvNext, <1>1, PTL DEF Spec
-----------------------------------------------------------------------------
(* Histories.  A step does one of four things to a session as one process  *)
(* sees it: nothing, a change outside history and version, a fresh start   *)
(* or end, or one transition of the table.                                 *)

\* A process without the session has no journal of it either.
JournalEmpty ==
  \A p \in Procs, s \in Sessions : mem[p][s] = None => journal[p][s] = None

Untouched(p, s) == mem'[p][s] = mem[p][s] /\ journal'[p][s] = journal[p][s]

Kept(p, s) ==
  /\ mem[p][s] # None /\ mem'[p][s] # None
  /\ mem'[p][s].history = mem[p][s].history
  /\ mem'[p][s].version = mem[p][s].version
  /\ mem'[p][s].status \in {mem[p][s].status} \union RunOutcomes
  /\ journal'[p][s] = journal[p][s]

Fresh(p, s) ==
  /\ mem[p][s] = None \/ mem'[p][s] = None
  /\ mem'[p][s] = None \/ mem'[p][s].history = <<>>
  /\ journal'[p][s] = None

Entry(p, s, to) ==
  [from |-> mem[p][s].status, to |-> to, version |-> mem[p][s].version + 1]

After(session, to, entry) ==
  [session EXCEPT !.status = to, !.version = @ + 1, !.history = Append(@, entry)]

Moved(p, s) ==
  /\ mem[p][s] # None
  /\ \E to \in States :
       /\ IsValidTransition(mem[p][s].status, to)
       /\ mem'[p][s] = After(mem[p][s], to, Entry(p, s, to))
       /\ journal'[p][s] = Append(IF journal[p][s] = None THEN <<>> ELSE journal[p][s],
                                  Entry(p, s, to))

Classified(p, s) == Untouched(p, s) \/ Kept(p, s) \/ Fresh(p, s) \/ Moved(p, s)

\* A transition asked of one session touches that one only.
LEMMA TransitionSessionClassified ==
  ASSUME IInv, NEW p \in Procs, NEW s \in Sessions, NEW to \in States,
         mem[p][s] # None, TransitionSession(p, s, to),
         NEW q \in Procs, NEW t \in Sessions
  PROVE  Classified(q, t)
<1>1. CASE ~IsValidTransition(mem[p][s].status, to)
  BY <1>1 DEF TransitionSession, Classified, Untouched
<1>2. CASE IsValidTransition(mem[p][s].status, to)
  <2> DEFINE old == mem[p][s]
             new == After(old, to, Entry(p, s, to))
             log == Append(IF journal[p][s] = None THEN <<>> ELSE journal[p][s],
                           Entry(p, s, to))
  <2>1. mem \in [Procs -> [Sessions -> Session \union {None}]]
        /\ journal \in [Procs -> [Sessions -> Seq(StateTransition) \union {None}]]
    BY DEF IInv, TypeOK
  <2>2. Transition(p, s, to)
    BY <1>2 DEF TransitionSession
  <2>3. mem' = [mem EXCEPT ![p][s] = new]
    BY <2>1, <2>2 DEF Transition, Entry, After
  <2>4. journal' = [journal EXCEPT ![p][s] = log]
    BY <2>1, <2>2 DEF Transition, Entry
  <2>5. CASE q = p /\ t = s
    <3>1. mem'[p][s] = new /\ journal'[p][s] = log
      BY <2>1, <2>3, <2>4
    <3> QED BY <1>2, <2>5, <3>1 DEF Classified, Moved
  <2>6. CASE ~(q = p /\ t = s)
    <3>1. mem'[q][t] = mem[q][t] /\ journal'[q][t] = journal[q][t]
      BY <2>1, <2>3, <2>4, <2>6
    <3> QED BY <3>1 DEF Classified, Untouched
  <2> QED BY <2>5, <2>6
<1> QED BY <1>1, <1>2

\* An error recorded in a session leaves its history alone.
LEMMA SetErrorClassified ==
  ASSUME IInv, NEW p \in Procs, NEW s \in Sessions, mem[p][s] # None,
         SetError(p, s), UNCHANGED journal, NEW q \in Procs, NEW t \in Sessions
  PROVE  Classified(q, t)
<1> DEFINE new == [mem[p][s] EXCEPT !.error = TRUE]
<1>1. mem[p][s] \in Session /\ mem \in [Procs -> [Sessions -> Session \union {None}]]
  BY DEF IInv, TypeOK
<1>2. new \in Session /\ new.history = mem[p][s].history
      /\ new.version = mem[p][s].version /\ new.status = mem[p][s].status
  BY <1>1 DEF Session
<1>3. mem' = [mem EXCEPT ![p][s] = new]
  BY <1>1 DEF SetError
<1>4. mem'[p][s] = new /\ new # None
  BY <1>2, <1>3, MemUpdated, NoneIsNoRecord
<1>5. (q # p \/ t # s) => mem'[q][t] = mem[q][t]
  BY <1>1, <1>3
<1> QED BY <1>2, <1>4, <1>5 DEF Classified, Untouched, Kept

\* Every step of the system is one of the four for every session.
LEMMA StepClassified ==
  ASSUME IInv, JournalEmpty, [Next]_vars, NEW q \in Procs, NEW t \in Sessions
  PROVE  Classified(q, t)
<1> USE DEF Procs
<1>0. mem \in [Procs -> [Sessions -> Session \union {None}]]
      /\ journal \in [Procs -> [Sessions -> Seq(StateTransition) \union {None}]]
  BY DEF IInv, TypeOK
<1>1. ASSUME NEW p \in Apis, NEW s \in Sessions,
             StartSession(p, s) \/ Generate(p, s)
      PROVE  Classified(q, t)
  <2>1. mem[p][s] = None /\ mem' = [mem EXCEPT ![p][s] = NewSession] /\ journal' = journal
    BY <1>1 DEF StartSession, Generate, Create
  <2>2. NewSession.history = <<>>
    BY DEF NewSession
  <2> QED BY <1>0, <2>1, <2>2 DEF JournalEmpty, Classified, Untouched, Fresh
<1>2. ASSUME NEW p \in Apis, NEW s \in Sessions, GetSession(p, s)
      PROVE  Classified(q, t)
  <2>1. /\ journal' = journal
        /\ \/ mem' = mem
           \/ mem[p][s] = None /\ mem' = [mem EXCEPT ![p][s] = Loaded(s)]
    BY <1>2 DEF GetSession
  <2>2. Loaded(s).history = <<>>
    BY DEF Loaded
  <2> QED BY <1>0, <2>1, <2>2 DEF JournalEmpty, Classified, Untouched, Fresh
<1>3. ASSUME NEW p \in Apis, NEW s \in Sessions,
             \/ RequestTransition(p, s) \/ CompleteSession(p, s)
             \/ EscalateToHumanReview(p, s) \/ EscalateReview(p, s)
             \/ ApproveReview(p, s) \/ ClarifyReview(p, s)
      PROVE  Classified(q, t)
  <2>1. \E to \in States : Move(p, s, to)
    BY <1>3 DEF RequestTransition, CompleteSession, EscalateToHumanReview,
                EscalateReview, ApproveReview, ClarifyReview, Review, States
  <2> QED BY <2>1, TransitionSessionClassified DEF Move
<1>4. ASSUME NEW p \in Apis, NEW s \in Sessions, FailSession(p, s)
      PROVE  Classified(q, t)
  BY <1>4, SetErrorClassified DEF FailSession
<1>5. ASSUME NEW p \in Procs, FailTransition(p) PROVE Classified(q, t)
  <2>1. /\ cont[p].sid \in Sessions /\ mem[p][cont[p].sid] # None
        /\ TransitionSession(p, cont[p].sid, "FAILED")
    BY <1>5 DEF FailTransition, IInv, TypeOK, ContHeld, Call
  <2>2. "FAILED" \in States
    BY DEF States
  <2> QED BY <2>1, <2>2, TransitionSessionClassified
<1>6. ASSUME NEW p \in Procs, NEW s \in Sessions, FinishRun(p, s)
      PROVE  Classified(q, t)
  <2>1. /\ journal' = journal
        /\ mem' = mem \/ (mem[p][s] # None /\ SetError(p, s))
    BY <1>6 DEF FinishRun
  <2>2. CASE mem' = mem
    BY <2>1, <2>2 DEF Classified, Untouched
  <2> QED BY <2>1, <2>2, SetErrorClassified
<1>7. ASSUME NEW p \in Procs, ForceStatus(p) PROVE Classified(q, t)
  <2> DEFINE s == cont[p].sid
             Forced(session) == [session EXCEPT !.status = cont[p].outcome]
  <2>1. s \in Sessions /\ cont[p].outcome \in RunOutcomes /\ journal' = journal
    BY <1>7 DEF ForceStatus, IInv, TypeOK, Call
  <2>2. CASE mem' = mem
    BY <2>1, <2>2 DEF Classified, Untouched
  <2>3. CASE mem[p][s] # None /\ mem' = [mem EXCEPT ![p][s] = Forced(@)]
    <3>1. mem[p][s] \in Session
      BY <1>0, <2>1, <2>3
    <3>2. cont[p].outcome \in States
      BY <2>1 DEF RunOutcomes, States
    <3>3. /\ Forced(mem[p][s]) \in Session
          /\ Forced(mem[p][s]).history = mem[p][s].history
          /\ Forced(mem[p][s]).version = mem[p][s].version
          /\ Forced(mem[p][s]).status = cont[p].outcome
      BY <3>1, <3>2 DEF Session
    <3>4. mem' = [mem EXCEPT ![p][s] = Forced(mem[p][s])]
      BY <1>0, <2>1, <2>3
    <3>5. mem'[p][s] = Forced(mem[p][s]) /\ mem'[p][s] # None
      BY <2>1, <3>3, <3>4, MemUpdated, NoneIsNoRecord
    <3>6. (q # p \/ t # s) => mem'[q][t] = mem[q][t]
      BY <1>0, <2>1, <3>4
    <3>7. CASE q = p /\ t = s
      <4>1. Kept(p, s)
        BY <2>1, <2>3, <3>3, <3>5 DEF Kept
      <4> QED BY <3>7, <4>1 DEF Classified
    <3> QED BY <2>1, <3>6, <3>7 DEF Classified, Untouched
  <2>4. CASE mem[p][s] = None /\ mem' = [mem EXCEPT ![p][s] = Forced(Loaded(s))]
    <3>1. Forced(Loaded(s)).history = <<>>
      BY DEF Loaded
    <3> QED BY <1>0, <2>1, <2>4, <3>1 DEF JournalEmpty, Classified, Untouched, Fresh
  <2> QED BY <1>7, <2>2, <2>3, <2>4 DEF ForceStatus
<1>8. ASSUME NEW p \in Procs,
             (\E s \in Sessions : CrashRun(p, s)) \/ Commit(p)
      PROVE  Classified(q, t)
  BY <1>8 DEF CrashRun, Commit, Classified, Untouched
<1>9. ASSUME NEW p \in Apis, NEW s \in Sessions, IncrementIteration(p, s)
      PROVE  Classified(q, t)
  <2> DEFINE new == [mem[p][s] EXCEPT !.iter = @ + 1]
  <2>1. /\ mem[p][s] # None /\ journal' = journal
        /\ mem' = [mem EXCEPT ![p][s] = new]
    BY <1>0, <1>9 DEF IncrementIteration
  <2>2. mem[p][s] \in Session
    BY <1>0, <2>1
  <2>3. new \in Session /\ new.history = mem[p][s].history
        /\ new.version = mem[p][s].version /\ new.status = mem[p][s].status
    BY <2>2 DEF Session
  <2>4. mem'[p][s] = new /\ new # None
    BY <2>1, <2>3, MemUpdated, NoneIsNoRecord
  <2>5. (q # p \/ t # s) => mem'[q][t] = mem[q][t]
    BY <1>0, <2>1
  <2> QED BY <2>1, <2>3, <2>4, <2>5 DEF Classified, Untouched, Kept
<1>10. ASSUME NEW p \in Apis, NEW s \in Sessions, DeleteSession(p, s)
       PROVE  Classified(q, t)
  BY <1>0, <1>10 DEF DeleteSession, Classified, Untouched, Fresh
<1>11. ASSUME NEW p \in Procs, Restart(p) PROVE Classified(q, t)
  BY <1>0, <1>11 DEF Restart, Classified, Untouched, Fresh
<1>12. CASE UNCHANGED vars
  BY <1>12 DEF vars, Classified, Untouched
<1> QED BY <1>1, <1>2, <1>3, <1>4, <1>5, <1>6, <1>7, <1>8, <1>9, <1>10, <1>11,
          <1>12 DEF Next

\* The status is where the last recorded transition ended, or a finished
\* run's.
LastRecorded ==
  \A p \in Procs, s \in Sessions :
    mem[p][s] # None =>
      LET h == mem[p][s].history
      IN  Len(h) > 0 => mem[p][s].status \in {h[Len(h)].to} \union RunOutcomes

HInv == /\ IInv /\ JournalEmpty /\ JournalMatchesHistory
        /\ HistoryIsAWalk /\ LastRecorded

LEMMA HInvInit == Init => HInv
<1> SUFFICES ASSUME Init PROVE HInv
  OBVIOUS
<1>1. IInv
  BY IInvInit
<1>2. \A p \in Procs, s \in Sessions : mem[p][s] = None /\ journal[p][s] = None
  BY DEF Init
<1> QED BY <1>1, <1>2 DEF HInv, JournalEmpty, JournalMatchesHistory,
          HistoryIsAWalk, LastRecorded

\* The table leads out of neither COMPLETED nor FAILED.
LEMMA TerminalHasNoWayOut ==
  ASSUME NEW from, NEW to, IsValidTransition(from, to)
  PROVE  from \notin {"COMPLETED", "FAILED"}
BY DEF IsValidTransition, ValidTransitions

\* The fields of a session after a transition.
LEMMA SessionMoved ==
  ASSUME NEW x \in Session, NEW to \in States, NEW e \in StateTransition
  PROVE  LET y == After(x, to, e)
         IN  /\ y \in Session /\ y.history = Append(x.history, e)
             /\ y.status = to /\ y.version = x.version + 1
<1>1. Append(x.history, e) \in Seq(StateTransition)
  BY DEF Session
<1>2. x.version + 1 \in Nat
  BY DEF Session
<1> QED BY <1>1, <1>2 DEF Session, After

\* What one transition does to a history that is in order.
LEMMA HistoryExtended ==
  ASSUME HInv, NEW p \in Procs, NEW s \in Sessions, Moved(p, s)
  PROVE  LET h == mem[p][s].history
             g == mem'[p][s].history
             e == g[Len(h) + 1]
         IN  /\ mem'[p][s] # None /\ journal'[p][s] = g /\ journal'[p][s] # None
             /\ h \in Seq(StateTransition) /\ g \in Seq(StateTransition)
             /\ Len(g) = Len(h) + 1
             /\ \A i \in 1..Len(h) : g[i] = h[i]
             /\ e.to = mem'[p][s].status /\ e.from = mem[p][s].status
             /\ IsValidTransition(e.from, e.to)
             /\ mem[p][s].version \in Nat
             /\ e.version = mem[p][s].version + 1
             /\ mem'[p][s].version = mem[p][s].version + 1
<1> DEFINE h == mem[p][s].history
           old == mem[p][s]
<1>1. old \in Session /\ old # None
  BY DEF Moved, HInv, IInv, TypeOK
<1>2. PICK to \in States :
        /\ IsValidTransition(old.status, to)
        /\ mem'[p][s] = After(old, to, Entry(p, s, to))
        /\ journal'[p][s] = Append(IF journal[p][s] = None THEN <<>> ELSE journal[p][s],
                                   Entry(p, s, to))
  BY DEF Moved
<1> DEFINE e == Entry(p, s, to)
           g == Append(h, e)
<1>3. old.version \in Nat /\ old.status \in States /\ h \in Seq(StateTransition)
  BY <1>1 DEF Session
<1>4. e \in StateTransition /\ e.to = to /\ e.from = old.status
      /\ e.version = old.version + 1
  BY <1>3 DEF Entry, StateTransition
<1>5. /\ g \in Seq(StateTransition)
      /\ Len(g) = Len(h) + 1
      /\ \A i \in 1..Len(h) : g[i] = h[i]
      /\ g[Len(h) + 1] = e
  BY <1>3, <1>4, AppendProperties
<1>6. /\ mem'[p][s] \in Session
      /\ mem'[p][s].history = g
      /\ mem'[p][s].status = to
      /\ mem'[p][s].version = old.version + 1
  BY <1>1, <1>2, <1>4, SessionMoved
<1>7. journal'[p][s] = g
  BY <1>1, <1>2 DEF HInv, JournalMatchesHistory
<1>8. mem'[p][s] # None /\ g # None
  BY <1>5, <1>6, NoneIsNoRecord
<1> QED BY <1>2, <1>3, <1>4, <1>5, <1>6, <1>7, <1>8

\* Versions counted back from the end, when the end moves by one.
LEMMA Renumbered ==
  ASSUME NEW v \in Nat, NEW w, w = v + 1, NEW n \in Nat, NEW i \in Int
  PROVE  v - (n - i) = w - ((n + 1) - i)
OBVIOUS

LEMMA HInvNext == HInv /\ [Next]_vars => HInv'
<1> SUFFICES ASSUME HInv, [Next]_vars PROVE HInv'
  OBVIOUS
<1>1. IInv'
  BY IInvNext DEF HInv
<1>2. \A p \in Procs, s \in Sessions : Classified(p, s)
  BY StepClassified DEF HInv
<1>3. JournalEmpty'
  <2> SUFFICES ASSUME NEW p \in Procs, NEW s \in Sessions, mem'[p][s] = None
               PROVE  journal'[p][s] = None
    BY DEF JournalEmpty
  <2>1. ~Moved(p, s)
    BY HistoryExtended
  <2> QED BY <1>2, <2>1 DEF Classified, Untouched, Kept, Fresh, HInv, JournalEmpty
<1>4. ASSUME NEW p \in Procs, NEW s \in Sessions, mem'[p][s] # None
      PROVE  LET h == mem'[p][s].history
                 j == journal'[p][s]
             IN  /\ h = IF j = None THEN <<>> ELSE j
                 /\ \A i \in DOMAIN h :
                      h[i].version = mem'[p][s].version - (Len(h) - i)
                 /\ \A i \in DOMAIN h :
                      /\ <<h[i].from, h[i].to>> \in ValidTransitions
                      /\ i > 1 => h[i].from \in {h[i-1].to, "HUMAN_REVIEW"}
                 /\ Len(h) > 0 => mem'[p][s].status \in {h[Len(h)].to} \union RunOutcomes
  <2>1. CASE Untouched(p, s)
    BY <1>4, <2>1 DEF Untouched, HInv, JournalMatchesHistory, HistoryIsAWalk,
                      Versioned, Chained, LastRecorded
  <2>2. CASE Kept(p, s)
    BY <1>4, <2>2 DEF Kept, HInv, JournalMatchesHistory, HistoryIsAWalk,
                      Versioned, Chained, LastRecorded
  <2>3. CASE Fresh(p, s)
    <3>1. mem'[p][s].history = <<>> /\ journal'[p][s] = None
      BY <1>4, <2>3 DEF Fresh
    <3>2. DOMAIN <<>> = {} /\ Len(<<>>) = 0
      OBVIOUS
    <3> QED BY <3>1, <3>2
  <2>4. CASE Moved(p, s)
    <3> DEFINE h == mem[p][s].history
               g == mem'[p][s].history
               n == Len(h)
    <3>1. /\ journal'[p][s] = g /\ journal'[p][s] # None
          /\ h \in Seq(StateTransition) /\ g \in Seq(StateTransition)
          /\ Len(g) = n + 1
          /\ \A i \in 1..n : g[i] = h[i]
          /\ g[n + 1].to = mem'[p][s].status /\ g[n + 1].from = mem[p][s].status
          /\ IsValidTransition(g[n + 1].from, g[n + 1].to)
          /\ mem[p][s].version \in Nat
          /\ g[n + 1].version = mem[p][s].version + 1
          /\ mem'[p][s].version = mem[p][s].version + 1
      BY <2>4, HistoryExtended
    <3>2. mem[p][s] # None
      BY <2>4 DEF Moved
    <3>3. n \in Nat /\ DOMAIN h = 1..n /\ DOMAIN g = 1..(n + 1)
      BY <3>1
    <3>4. \A i \in 1..n : h[i].version = mem[p][s].version - (n - i)
      BY <3>2, <3>3 DEF HInv, HistoryIsAWalk, Versioned
    <3>5. \A i \in 1..n : /\ <<h[i].from, h[i].to>> \in ValidTransitions
                          /\ i > 1 => h[i].from \in {h[i-1].to, "HUMAN_REVIEW"}
      BY <3>2, <3>3 DEF HInv, HistoryIsAWalk, Chained
    <3>6. n > 0 => g[n + 1].from \in {h[n].to, "HUMAN_REVIEW"}
      <4>1. n > 0 => g[n + 1].from \in {h[n].to} \union RunOutcomes
        BY <3>1, <3>2 DEF HInv, LastRecorded
      <4> QED BY <3>1, <4>1, TerminalHasNoWayOut DEF RunOutcomes
    <3>7. ASSUME NEW i \in 1..(n + 1)
          PROVE  g[i].version = mem'[p][s].version - ((n + 1) - i)
      <4>1. CASE i = n + 1
        BY <3>1, <3>3, <4>1
      <4>2. CASE i \in 1..n
        <5>1. g[i].version = mem[p][s].version - (n - i)
          BY <3>1, <3>4, <4>2
        <5>2. mem[p][s].version - (n - i) = mem'[p][s].version - ((n + 1) - i)
          <6>1. /\ mem[p][s].version \in Nat /\ n \in Nat /\ i \in Int
                /\ mem'[p][s].version = mem[p][s].version + 1
            BY <3>1, <3>3, <4>2
          <6> QED BY <6>1, Renumbered
        <5> QED BY <5>1, <5>2
      <4> QED BY <3>3, <4>1, <4>2
    <3>8. ASSUME NEW i \in 1..(n + 1)
          PROVE  /\ <<g[i].from, g[i].to>> \in ValidTransitions
                 /\ i > 1 => g[i].from \in {g[i-1].to, "HUMAN_REVIEW"}
      <4>1. CASE i = n + 1
        <5>1. <<g[i].from, g[i].to>> \in ValidTransitions
          BY <3>1, <4>1 DEF IsValidTransition
        <5>2. i > 1 => i - 1 \in 1..n /\ i - 1 = n /\ n > 0
          BY <3>3, <4>1
        <5> QED BY <3>1, <3>6, <4>1, <5>1, <5>2
      <4>2. CASE i \in 1..n
        <5>1. i > 1 => i - 1 \in 1..n
          BY <3>3, <4>2
        <5>2. g[i] = h[i] /\ (i > 1 => g[i-1] = h[i-1])
          BY <3>1, <4>2, <5>1
        <5>3. /\ <<h[i].from, h[i].to>> \in ValidTransitions
              /\ i > 1 => h[i].from \in {h[i-1].to, "HUMAN_REVIEW"}
          BY <3>5, <4>2
        <5> QED BY <5>2, <5>3
      <4>3. i = n + 1 \/ i \in 1..n
        BY <3>3
      <4> QED BY <4>1, <4>2, <4>3
    <3> QED BY <3>1, <3>3, <3>7, <3>8
  <2> QED BY <1>2, <2>1, <2>2, <2>3, <2>4 DEF Classified
<1>5. JournalMatchesHistory'
  BY <1>4 DEF JournalMatchesHistory
<1>6. HistoryIsAWalk' /\ LastRecorded'
  BY <1>4 DEF HistoryIsAWalk, Versioned, Chained, LastRecorded, ValidTransitions, RunOutcomes
<1> QED BY <1>1, <1>3, <1>5, <1>6 DEF HInv

\* The two records StateMachine keeps of a session's transitions agree.
THEOREM JournalsMatch == Spec => []JournalMatchesHistory
<1>1. HInv => JournalMatchesHistory
  BY DEF HInv
<1> QED BY HInvInit, HInvNext, <1>1, PTL DEF Spec

\* A history is a walk in VALID_TRANSITIONS with consecutive versions, broken only
\* by a finished run that sent the session to human review.
THEOREM HistoriesAreWalks == Spec => []HistoryIsAWalk
<1>1. HInv => HistoryIsAWalk
  BY DEF HInv
<1> QED BY HInvInit, HInvNext, <1>1, PTL DEF Spec
=============================================================================
