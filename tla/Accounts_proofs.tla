--------------------------- MODULE Accounts_proofs ---------------------------
(***************************************************************************)
(* Theorems about Accounts, for any addresses, keys, callers and failures. *)
(*                                                                         *)
(* First the types and what backs them: which fields a call has, which     *)
(* rows, users and tokens it refers to. Then the properties that are about *)
(* several requests: in each of their invariants a step meets rows and     *)
(* calls that are typed and backed.                                        *)
(***************************************************************************)
EXTENDS Accounts, TLAPS

(***************************************************************************)
(* Calls: which fields they have, and how a step changes them.              *)
(***************************************************************************)
\* The step a call is about to take says which fields it has.
LEMMA CallKinds ==
  ASSUME TypeOK, NEW c \in Callers
  PROVE  /\ At(c, "lookup") \/ At(c, "create") \/ At(c, "insert") => call[c] \in SignupCall
         /\ At(c, "mark") \/ At(c, "follow") => call[c] \in VerifyCall
         /\ At(c, "sync") => call[c] \in SyncCall
         /\ At(c, "check") => call[c] \in LoginCall
         /\ At(c, "token") => call[c] \in TokenCall
         /\ At(c, "reset") => call[c] \in ResetCall
         /\ At(c, "change") => call[c] \in ChangeCall
         /\ At(c, "touch") => call[c] \in KeyCall
<1>1. call[c] # None => call[c] \in Call
  BY DEF TypeOK
<1> QED
  BY <1>1 DEF At, Idle, Call, SignupCall, VerifyCall, SyncCall, LoginCall, TokenCall,
              ResetCall, ChangeCall, KeyCall

\* A call of each kind is typed.
LEMMA NewCalls ==
  /\ \A e \in Emails, p \in Nat :
       [at |-> "lookup", email |-> e, pass |-> p, linked |-> FALSE] \in Call
  /\ \A e \in Emails, l \in BOOLEAN : [at |-> "mark", email |-> e, linked |-> l] \in Call
  /\ \A e \in Emails, b \in BOOLEAN : [at |-> "sync", email |-> e, known |-> b] \in Call
  /\ \A e \in Emails, p, h \in Nat, s \in SUBSET Nat :
       [at |-> "check", email |-> e, pass |-> p, hash |-> h, since |-> s] \in Call
  /\ \A e \in Emails, t \in Nat : [at |-> "token", email |-> e, token |-> t] \in Call
  /\ \A e \in Emails, t, p \in Nat, s \in SUBSET Nat :
       [at |-> "reset", email |-> e, token |-> t, pass |-> p, since |-> s] \in Call
  /\ \A e \in Emails, p \in Nat : [at |-> "change", email |-> e, pass |-> p] \in Call
  /\ \A k \in ApiKeys, s \in SUBSET ApiKeys : [at |-> "touch", key |-> k, since |-> s] \in Call
BY DEF Call, SignupCall, VerifyCall, SyncCall, LoginCall, TokenCall, ResetCall, ChangeCall,
       KeyCall

\* A signup moves on with its address and password.
LEMMA SignupMoves ==
  ASSUME NEW r \in SignupCall, NEW q, NEW step \in {"create", "insert"},
         q = [r EXCEPT !.at = step]
  PROVE  /\ q \in SignupCall
         /\ q.at = step /\ q.email = r.email /\ q.pass = r.pass /\ q.linked = r.linked
BY DEF SignupCall

\* So does a verification.
LEMMA VerifyMoves ==
  ASSUME NEW r \in VerifyCall, NEW q, q = [r EXCEPT !.at = "follow"]
  PROVE  /\ q \in VerifyCall
         /\ q.at = "follow" /\ q.email = r.email /\ q.linked = r.linked
BY DEF VerifyCall

\* A step of one caller leaves the calls of the others.
LEMMA OneCall ==
  ASSUME TypeOK, NEW c \in Callers, NEW r, call' = [call EXCEPT ![c] = r]
  PROVE  call'[c] = r /\ \A d \in Callers \ {c} : call'[d] = call[d]
BY DEF TypeOK

\* A typed call, or none, in the place of another.
LEMMA OneCallTyped ==
  ASSUME TypeOK, NEW c \in Callers, NEW r \in Call \cup {None},
         call' = [call EXCEPT ![c] = r]
  PROVE  call' \in [Callers -> Call \cup {None}]
BY DEF TypeOK

\* Every kind is a call.
LEMMA Kinds ==
  ASSUME NEW r, \/ r \in SignupCall \/ r \in VerifyCall \/ r \in SyncCall \/ r \in LoginCall
                \/ r \in TokenCall \/ r \in ResetCall \/ r \in ChangeCall \/ r \in KeyCall
  PROVE  r \in Call
BY DEF Call

\* A request that returns, at any step.
LEMMA Returns ==
  ASSUME TypeOK, NEW c \in Callers, Return(c)
  PROVE  /\ call' \in [Callers -> Call \cup {None}]
         /\ call'[c] = None
         /\ \A d \in Callers \ {c} : call'[d] = call[d]
BY DEF TypeOK, Return, Idle

(***************************************************************************)
(* What a step does to the calls: the caller's goes on or ends, with the    *)
(* address and the numbers it had.                                          *)
(***************************************************************************)
\* What the look-up and the creation of signupWithEmail make of its call.
LEMMA SignupStep ==
  ASSUME TypeOK, NEW c \in Callers, SignupLooksUp(c) \/ SignupCreates(c)
  PROVE  /\ call[c] \in SignupCall
         /\ call' \in [Callers -> Call \cup {None}]
         /\ \A d \in Callers \ {c} : call'[d] = call[d]
         /\ \/ SignupLooksUp(c) /\ Return(c) /\ call'[c] = None
            \/ /\ call'[c] \in SignupCall
               /\ call'[c].email = call[c].email /\ call'[c].pass = call[c].pass
               /\ \/ SignupLooksUp(c) /\ call'[c].at = "create"
                                      /\ call'[c].linked = call[c].linked
                  \/ /\ SignupCreates(c) /\ call'[c].at = "insert"
                     /\ \/ call'[c].linked = call[c].linked
                        \/ keycloak' = [keycloak EXCEPT ![call[c].email] =
                                          [verified |-> FALSE, by |-> call[c].pass]]
<1>1. call[c] \in SignupCall
  BY CallKinds DEF SignupLooksUp, SignupCreates
<1>2. CASE SignupLooksUp(c) /\ Return(c)
  BY <1>1, <1>2, Returns
<1>3. CASE SignupLooksUp(c) /\ Go(c, "create")
  <2>1. call' = [call EXCEPT ![c] = [call[c] EXCEPT !.at = "create"]]
    BY <1>3 DEF Go
  <2>2. PICK q : q = [call[c] EXCEPT !.at = "create"]
    OBVIOUS
  <2>3. /\ q \in SignupCall
        /\ q.at = "create" /\ q.email = call[c].email /\ q.pass = call[c].pass
        /\ q.linked = call[c].linked
    BY <1>1, <2>2, SignupMoves
  <2>4. call' = [call EXCEPT ![c] = q]
    BY <2>1, <2>2
  <2> QED
    BY <1>1, <1>3, <2>3, <2>4, OneCall, OneCallTyped, Kinds
<1>4. CASE SignupCreates(c) /\ Go(c, "insert")
  <2>1. call' = [call EXCEPT ![c] = [call[c] EXCEPT !.at = "insert"]]
    BY <1>4 DEF Go
  <2>2. PICK q : q = [call[c] EXCEPT !.at = "insert"]
    OBVIOUS
  <2>3. /\ q \in SignupCall
        /\ q.at = "insert" /\ q.email = call[c].email /\ q.pass = call[c].pass
        /\ q.linked = call[c].linked
    BY <1>1, <2>2, SignupMoves
  <2>4. call' = [call EXCEPT ![c] = q]
    BY <2>1, <2>2
  <2> QED
    BY <1>1, <1>4, <2>3, <2>4, OneCall, OneCallTyped, Kinds
<1>5. ASSUME SignupCreates(c), NEW ok \in BOOLEAN,
             call' = [call EXCEPT ![c].at = "insert", ![c].linked = ok]
      PROVE  /\ call' \in [Callers -> Call \cup {None}]
             /\ \A d \in Callers \ {c} : call'[d] = call[d]
             /\ call'[c] \in SignupCall /\ call'[c].at = "insert"
             /\ call'[c].email = call[c].email /\ call'[c].pass = call[c].pass
  <2>1. call' = [call EXCEPT ![c] = [call[c] EXCEPT !.at = "insert", !.linked = ok]]
    BY <1>5 DEF TypeOK
  <2>2. PICK q : q = [call[c] EXCEPT !.at = "insert", !.linked = ok]
    OBVIOUS
  <2>3. /\ q \in SignupCall
        /\ q.at = "insert" /\ q.email = call[c].email /\ q.pass = call[c].pass
    BY <1>1, <2>2 DEF SignupCall
  <2>4. call' = [call EXCEPT ![c] = q]
    BY <2>1, <2>2
  <2> QED
    BY <2>3, <2>4, OneCall, OneCallTyped, Kinds
<1>6. KcOk \subseteq BOOLEAN
  BY DEF KcOk
<1>7. CASE SignupLooksUp(c)
  BY <1>2, <1>3, <1>7 DEF SignupLooksUp
<1>8. CASE SignupCreates(c)
  BY <1>1, <1>4, <1>5, <1>6, <1>8 DEF SignupCreates
<1> QED
  BY <1>7, <1>8

\* What the UPDATE of verifyEmail makes of its call.
LEMMA VerifyStep ==
  ASSUME TypeOK, NEW c \in Callers, VerifyMarks(c)
  PROVE  /\ call[c] \in VerifyCall
         /\ call' \in [Callers -> Call \cup {None}]
         /\ \A d \in Callers \ {c} : call'[d] = call[d]
         /\ call'[c] \in VerifyCall /\ call'[c].at = "follow"
         /\ call'[c].email = call[c].email /\ call'[c].linked = call[c].linked
<1>1. call[c] \in VerifyCall
  BY CallKinds DEF VerifyMarks
<1>2. call' = [call EXCEPT ![c] = [call[c] EXCEPT !.at = "follow"]]
  BY DEF VerifyMarks, Go
<1>3. PICK q : q = [call[c] EXCEPT !.at = "follow"]
  OBVIOUS
<1>4. /\ q \in VerifyCall
      /\ q.at = "follow" /\ q.email = call[c].email /\ q.linked = call[c].linked
  BY <1>1, <1>3, VerifyMoves
<1>5. call' = [call EXCEPT ![c] = q]
  BY <1>2, <1>3
<1> QED
  BY <1>1, <1>4, <1>5, OneCall, OneCallTyped, Kinds

(***************************************************************************)
(* What an UPDATE of one column or two makes of the table.                  *)
(***************************************************************************)
\* A row keeps its type and its other columns when it is verified,
LEMMA VerifiedRow ==
  ASSUME users \in [Emails -> Row \cup {None}], NEW e \in Emails, users[e] \in Row,
         users' = [users EXCEPT ![e].verified = TRUE]
  PROVE  /\ users' \in [Emails -> Row \cup {None}] /\ users'[e] \in Row
         /\ users'[e].linked = users[e].linked /\ users'[e].by = users[e].by
         /\ users'[e].verified = TRUE
         /\ users'[e].pass = users[e].pass /\ users'[e].token = users[e].token
         /\ \A f \in Emails \ {e} : users'[f] = users[f]
BY DEF Row

\* A row keeps its type and its other columns when its token is written,
LEMMA TokenRow ==
  ASSUME users \in [Emails -> Row \cup {None}], NEW e \in Emails, users[e] \in Row,
         NEW t \in Nat,
         users' = [users EXCEPT ![e].token = t]
  PROVE  /\ users' \in [Emails -> Row \cup {None}] /\ users'[e] \in Row
         /\ users'[e].linked = users[e].linked /\ users'[e].by = users[e].by
         /\ users'[e].verified = users[e].verified
         /\ users'[e].pass = users[e].pass /\ users'[e].token = t
         /\ \A f \in Emails \ {e} : users'[f] = users[f]
BY DEF Row

\* when its password is written,
LEMMA PassRow ==
  ASSUME users \in [Emails -> Row \cup {None}], NEW e \in Emails, users[e] \in Row,
         NEW p \in Nat,
         users' = [users EXCEPT ![e].pass = p]
  PROVE  /\ users' \in [Emails -> Row \cup {None}] /\ users'[e] \in Row
         /\ users'[e].linked = users[e].linked /\ users'[e].by = users[e].by
         /\ users'[e].verified = users[e].verified
         /\ users'[e].pass = p /\ users'[e].token = users[e].token
         /\ \A f \in Emails \ {e} : users'[f] = users[f]
BY DEF Row

\* and when a reset writes both.
LEMMA ResetRow ==
  ASSUME users \in [Emails -> Row \cup {None}], NEW e \in Emails, users[e] \in Row,
         NEW p \in Nat, NEW t \in Nat,
         users' = [users EXCEPT ![e].pass = p, ![e].token = t]
  PROVE  /\ users' \in [Emails -> Row \cup {None}] /\ users'[e] \in Row
         /\ users'[e].linked = users[e].linked /\ users'[e].by = users[e].by
         /\ users'[e].verified = users[e].verified
         /\ users'[e].pass = p /\ users'[e].token = t
         /\ \A f \in Emails \ {e} : users'[f] = users[f]
BY DEF Row

\* A verified user of Keycloak is otherwise the same.
LEMMA VerifiedKcUser ==
  ASSUME keycloak \in [Emails -> KcUser \cup {None}], NEW e \in Emails,
         keycloak[e] \in KcUser,
         keycloak' = [keycloak EXCEPT ![e].verified = TRUE]
  PROVE  /\ keycloak' \in [Emails -> KcUser \cup {None}] /\ keycloak'[e] \in KcUser
         /\ keycloak'[e].verified /\ keycloak'[e].by = keycloak[e].by
         /\ \A f \in Emails \ {e} : keycloak'[f] = keycloak[f]
BY DEF KcUser


(***************************************************************************)
(* Types.                                                                   *)
(***************************************************************************)
\* The calls that bring a new password.
Chooses(c) ==
  call[c] # None /\ call[c].at \in {"lookup", "create", "insert", "reset", "change"}

\* What a call or a set of addresses was taken from is still there: rows, links
\* and users of Keycloak.  Without it, an UPDATE could meet no row.
BackedCall(c) ==
  /\ \/ At(c, "mark") \/ At(c, "follow") \/ At(c, "check") \/ At(c, "token")
     \/ At(c, "reset") \/ At(c, "change")
     => HasRow(call[c].email)
  /\ At(c, "mark") \/ At(c, "follow") => call[c].linked = users[call[c].email].linked
  /\ At(c, "lookup") \/ At(c, "create") => ~call[c].linked
  /\ At(c, "insert") /\ call[c].linked => /\ keycloak[call[c].email] # None
                                          /\ keycloak[call[c].email].by = call[c].pass
  /\ At(c, "sync") => keycloak[call[c].email] # None
  /\ At(c, "token") \/ At(c, "reset") => call[c].token \in 1..tokens
  /\ Chooses(c) => call[c].pass \in 1..passwords

BackedSets ==
  /\ \A e \in sessions \cup pending : HasRow(e)
  /\ \A e \in kcLinks : keycloak[e] # None
  /\ \A e \in Emails : HasRow(e) => users[e].pass \in 0..passwords

Backed == (\A c \in Callers : BackedCall(c)) /\ BackedSets /\ LinkedBySameSignup

\* Rows and users of Keycloak stay, with what they were made with.
Stable ==
  /\ \A e \in Emails : HasRow(e) => /\ users'[e] # None
                                    /\ users'[e].linked = users[e].linked
                                    /\ users'[e].by = users[e].by
  /\ \A e \in Emails : keycloak[e] # None =>
       /\ keycloak'[e] # None
       /\ keycloak'[e].by = keycloak[e].by
       /\ keycloak[e].verified => keycloak'[e].verified

(***************************************************************************)
(* One lemma per action: its step keeps the types, and rows and users of    *)
(* Keycloak stay.                                                           *)
(***************************************************************************)
\* signupWithEmail starts.
LEMMA SignupType ==
  ASSUME TypeOK, Backed, NEW c \in Callers, NEW e \in Emails, Signup(c, e)
  PROVE  TypeOK' /\ Stable
<1>1. call' \in [Callers -> Call \cup {None}]
  BY NewCalls, OneCallTyped, AccountsAssumption DEF Signup, Begin, TypeOK, Row, HasRow
<1> QED
  BY <1>1, NoneIsNothing, AccountsAssumption DEF TypeOK, tables, mail, history, HasRow,
     Signup, Stable

\* The look-up of signupWithEmail.
LEMMA SignupLooksUpType ==
  ASSUME TypeOK, Backed, NEW c \in Callers, SignupLooksUp(c)
  PROVE  TypeOK' /\ Stable
<1>1. call[c] \in SignupCall /\ call' \in [Callers -> Call \cup {None}]
  BY SignupStep
<1> QED
  BY <1>1, NoneIsNothing, AccountsAssumption DEF TypeOK, tables, mail, history, HasRow,
     SignupLooksUp, Stable, SignupCall

\* The creation at Keycloak.
LEMMA SignupCreatesType ==
  ASSUME TypeOK, Backed, NEW c \in Callers, SignupCreates(c)
  PROVE  TypeOK' /\ Stable
<1>1. call[c] \in SignupCall /\ call' \in [Callers -> Call \cup {None}]
  BY SignupStep
<1>2. call[c].email \in Emails /\ call[c].pass \in Nat
  BY <1>1 DEF SignupCall
<1>3. PICK e \in Emails : e = call[c].email
  BY <1>2
<1>4. \/ keycloak' = keycloak
      \/ /\ keycloak[e] = None
         /\ keycloak' = [keycloak EXCEPT ![e] = [verified |-> FALSE, by |-> call[c].pass]]
  BY <1>3 DEF SignupCreates
<1>5. keycloak' \in [Emails -> KcUser \cup {None}]
  <2>1. [verified |-> FALSE, by |-> call[c].pass] \in KcUser
    BY <1>2 DEF KcUser
  <2> QED
    BY <1>4, <2>1 DEF TypeOK
<1>6. troubled' \subseteq Emails
  BY <1>2 DEF TypeOK, SignupCreates, Note
<1>7. Stable
  BY <1>4 DEF Stable, TypeOK, HasRow, SignupCreates
<1> QED
  BY <1>1, <1>5, <1>6, <1>7 DEF TypeOK, SignupCreates, mail

\* The INSERT of signupWithEmail.
LEMMA SignupInsertsType ==
  ASSUME TypeOK, Backed, NEW c \in Callers, SignupInserts(c)
  PROVE  TypeOK' /\ Stable
<1>1. call[c] \in SignupCall /\ call' \in [Callers -> Call \cup {None}]
  BY CallKinds, Returns DEF SignupInserts
<1>2. call[c].email \in Emails /\ call[c].pass \in Nat /\ call[c].linked \in BOOLEAN
  BY <1>1 DEF SignupCall
<1>3. PICK e \in Emails : e = call[c].email
  BY <1>2
<1>4. \/ users' = users /\ pending' = pending
      \/ /\ ~HasRow(e)
         /\ users' = [users EXCEPT ![e] =
              [linked |-> call[c].linked, verified |-> FALSE, pass |-> call[c].pass,
               token |-> 0, by |-> call[c].pass]]
         /\ pending' = pending \cup {e}
  BY <1>3 DEF SignupInserts
<1>5. users' \in [Emails -> Row \cup {None}] /\ pending' \subseteq Emails
  <2>1. [linked |-> call[c].linked, verified |-> FALSE, pass |-> call[c].pass, token |-> 0,
         by |-> call[c].pass] \in Row
    BY <1>2 DEF Row
  <2> QED
    BY <1>4, <2>1 DEF TypeOK
<1>6. troubled' \subseteq Emails
  BY <1>2 DEF TypeOK, SignupInserts, Note
<1>7. Stable
  BY <1>4 DEF Stable, TypeOK, HasRow, SignupInserts
<1> QED
  BY <1>1, <1>5, <1>6, <1>7 DEF TypeOK, SignupInserts

\* verifyEmail's look-up.
LEMMA OpenLinkType ==
  ASSUME TypeOK, Backed, NEW c \in Callers, NEW e \in Emails, OpenLink(c, e)
  PROVE  TypeOK' /\ Stable
<1>1. call' \in [Callers -> Call \cup {None}]
  BY NewCalls, OneCallTyped, AccountsAssumption DEF OpenLink, Begin, TypeOK, Row, HasRow
<1> QED
  BY <1>1, NoneIsNothing, AccountsAssumption DEF TypeOK, tables, mail, history, HasRow,
     OpenLink, Stable

\* verifyEmail's UPDATE.
LEMMA VerifyMarksType ==
  ASSUME TypeOK, Backed, NEW c \in Callers, VerifyMarks(c)
  PROVE  TypeOK' /\ Stable
<1>1. call[c] \in VerifyCall /\ call' \in [Callers -> Call \cup {None}]
  BY CallKinds, VerifyStep DEF VerifyMarks
<1>2. PICK e \in Emails : e = call[c].email
  BY <1>1 DEF VerifyCall
<1>3. users \in [Emails -> Row \cup {None}] /\ users[e] \in Row
  BY <1>1, <1>2 DEF Backed, BackedCall, BackedSets, VerifyMarks, HasRow, TypeOK
<1>4. \/ users' = users
      \/ users' = [users EXCEPT ![e].verified = TRUE]
  BY <1>2 DEF VerifyMarks
<1>5. users' \in [Emails -> Row \cup {None}]
  BY <1>1, <1>3, <1>4, VerifiedRow DEF VerifyCall
<1>6. Stable
  <2>1. \A f \in Emails : HasRow(f) =>
          users'[f] # None /\ users'[f].linked = users[f].linked /\ users'[f].by = users[f].by
    BY <1>1, <1>3, <1>4, VerifiedRow, NoneIsNothing DEF HasRow, VerifyCall
  <2> QED
    BY <2>1 DEF Stable, VerifyMarks
<1>7. troubled' \subseteq Emails
  BY <1>2 DEF TypeOK, VerifyMarks, Note
<1> QED
  BY <1>1, <1>5, <1>6, <1>7 DEF TypeOK, VerifyMarks, mail

\* The end of verifyEmail.
LEMMA VerifyFollowsType ==
  ASSUME TypeOK, Backed, NEW c \in Callers, VerifyFollows(c)
  PROVE  TypeOK' /\ Stable
<1>1. call[c] \in VerifyCall /\ call' \in [Callers -> Call \cup {None}]
  BY CallKinds, Returns DEF VerifyFollows
<1>2. PICK e \in Emails : e = call[c].email
  BY <1>1 DEF VerifyCall
<1>3. \/ keycloak' = keycloak
      \/ call[c].linked /\ keycloak' = [keycloak EXCEPT ![e].verified = TRUE]
  BY <1>2 DEF VerifyFollows
<1>4. call[c].linked => keycloak[e] \in KcUser
  BY <1>2 DEF Backed, BackedCall, BackedSets, VerifyFollows, LinkedBySameSignup, TypeOK
<1>5. keycloak' \in [Emails -> KcUser \cup {None}]
  BY <1>3, <1>4, VerifiedKcUser DEF TypeOK
<1>6. \A f \in Emails : keycloak[f] # None =>
        /\ keycloak'[f] # None /\ keycloak'[f].by = keycloak[f].by
        /\ keycloak[f].verified => keycloak'[f].verified
  BY <1>3, <1>4, VerifiedKcUser, NoneIsNothing DEF TypeOK
<1>7. Stable
  BY <1>6 DEF Stable, VerifyFollows, HasRow
<1>8. troubled' \subseteq Emails
  BY <1>2 DEF TypeOK, VerifyFollows, Note
<1> QED
  BY <1>1, <1>5, <1>7, <1>8 DEF TypeOK, VerifyFollows, mail

\* The callback's look-up.
LEMMA CallbackBegins ==
  ASSUME TypeOK, NEW c \in Callers, NEW e \in Emails, Callback(c, e)
  PROVE  /\ call[c] = Idle /\ \E r : Begin(c, r)
         /\ call' \in [Callers -> Call \cup {None}]
         /\ call'[c] \in SyncCall /\ call'[c].at = "sync" /\ call'[c].email = e
         /\ call'[c].known => e \in entered'
         /\ \A d \in Callers \ {c} : call'[d] = call[d]
<1>1. PICK known \in BOOLEAN : /\ Begin(c, [at |-> "sync", email |-> e, known |-> known])
                              /\ entered' = IF known THEN entered \cup {e} ELSE entered
  BY DEF Callback, KcOk
<1>2. PICK r : r = [at |-> "sync", email |-> e, known |-> known]
  OBVIOUS
<1>3. r \in SyncCall /\ r.at = "sync" /\ r.email = e /\ r.known = known
  BY <1>2 DEF SyncCall
<1>4. Begin(c, r) /\ call' = [call EXCEPT ![c] = r] /\ r \in Call
  BY <1>1, <1>2, <1>3, Kinds DEF Begin
<1>5. r.known => e \in entered'
  BY <1>1, <1>3
<1> QED
  BY <1>3, <1>4, <1>5, OneCall, OneCallTyped DEF Callback

\* It keeps the types.
LEMMA CallbackType ==
  ASSUME TypeOK, Backed, NEW c \in Callers, NEW e \in Emails, Callback(c, e)
  PROVE  TypeOK' /\ Stable
<1>1. call' \in [Callers -> Call \cup {None}]
  BY CallbackBegins
<1>2. entered' \subseteq Emails
  BY DEF Callback, TypeOK
<1> QED
  BY <1>1, <1>2, NoneIsNothing, AccountsAssumption DEF TypeOK, tables, mail, history, HasRow,
     Callback, Stable

\* The callback's upsert.
LEMMA CallbackSyncsType ==
  ASSUME TypeOK, Backed, NEW c \in Callers, CallbackSyncs(c)
  PROVE  TypeOK' /\ Stable
<1>1. call[c] \in SyncCall /\ call' \in [Callers -> Call \cup {None}]
  BY CallKinds, Returns DEF CallbackSyncs
<1>2. PICK e \in Emails : e = call[c].email
  BY <1>1 DEF SyncCall
<1>3. keycloak[e] \in KcUser
  BY <1>2 DEF Backed, BackedCall, BackedSets, CallbackSyncs, TypeOK
<1>4. \/ users' = users
      \/ /\ ~HasRow(e)
         /\ users' = [users EXCEPT ![e] = [linked |-> TRUE, verified |-> TRUE, pass |-> 0,
                                           token |-> 0, by |-> keycloak[e].by]]
      \/ HasRow(e) /\ users' = [users EXCEPT ![e].verified = TRUE]
  BY <1>2 DEF CallbackSyncs
<1>5. [linked |-> TRUE, verified |-> TRUE, pass |-> 0, token |-> 0, by |-> keycloak[e].by]
        \in Row
  BY <1>3 DEF KcUser, Row
<1>6. HasRow(e) => users[e] \in Row
  BY DEF TypeOK, HasRow
<1>7. users' \in [Emails -> Row \cup {None}]
  BY <1>4, <1>5, <1>6, VerifiedRow DEF TypeOK
<1>8. \A f \in Emails : HasRow(f) =>
        users'[f] # None /\ users'[f].linked = users[f].linked /\ users'[f].by = users[f].by
  <2>1. CASE HasRow(e) /\ users' = [users EXCEPT ![e].verified = TRUE]
    <3>1. users \in [Emails -> Row \cup {None}] /\ users[e] \in Row
      BY <1>6, <2>1 DEF TypeOK
    <3>2. /\ users'[e] \in Row
          /\ users'[e].linked = users[e].linked /\ users'[e].by = users[e].by
          /\ \A f \in Emails \ {e} : users'[f] = users[f]
      BY <2>1, <3>1, VerifiedRow
    <3> QED
      BY <3>2, NoneIsNothing DEF HasRow
  <2> QED
    BY <1>4, <2>1 DEF TypeOK, HasRow
<1>9. Stable
  BY <1>8 DEF Stable, CallbackSyncs
<1> QED
  BY <1>1, <1>7, <1>9 DEF TypeOK, CallbackSyncs, mail, history

\* loginWithEmail's look-up.
LEMMA LoginType ==
  ASSUME TypeOK, Backed, NEW c \in Callers, NEW e \in Emails, NEW p \in 1..passwords,
         Login(c, e, p)
  PROVE  TypeOK' /\ Stable
<1>1. users[e] \in Row /\ retired \in SUBSET Nat /\ p \in Nat
  BY DEF Login, HasRow, TypeOK
<1>2. users[e].pass \in Nat
  BY <1>1 DEF Row
<1>3. call' \in [Callers -> Call \cup {None}]
  BY <1>1, <1>2, NewCalls, OneCallTyped DEF Login, Begin
<1> QED
  BY <1>3 DEF Login, TypeOK, Stable, HasRow, tables, mail, history

\* loginWithEmail's comparison.
LEMMA LoginChecksType ==
  ASSUME TypeOK, Backed, NEW c \in Callers, LoginChecks(c)
  PROVE  TypeOK' /\ Stable
<1>1. call[c] \in LoginCall /\ call' \in [Callers -> Call \cup {None}]
  BY CallKinds, Returns DEF LoginChecks
<1> QED
  BY <1>1, NoneIsNothing, AccountsAssumption DEF TypeOK, tables, mail, history, HasRow,
     LoginChecks, Stable, LoginCall

\* requestPasswordReset starts.
LEMMA RequestResetType ==
  ASSUME TypeOK, Backed, NEW c \in Callers, NEW e \in Emails, RequestReset(c, e)
  PROVE  TypeOK' /\ Stable
<1>1. call' \in [Callers -> Call \cup {None}]
  BY NewCalls, OneCallTyped, AccountsAssumption DEF RequestReset, Begin, TypeOK, Row, HasRow
<1> QED
  BY <1>1, NoneIsNothing, AccountsAssumption DEF TypeOK, tables, mail, history, HasRow,
     RequestReset, Stable

\* The end of requestPasswordReset.
LEMMA ResetIsMailedType ==
  ASSUME TypeOK, Backed, NEW c \in Callers, ResetIsMailed(c)
  PROVE  TypeOK' /\ Stable
<1>1. call[c] \in TokenCall /\ call' \in [Callers -> Call \cup {None}]
  BY CallKinds, Returns DEF ResetIsMailed
<1>2. PICK e \in Emails : e = call[c].email
  BY <1>1 DEF TokenCall
<1>3. users \in [Emails -> Row \cup {None}] /\ users[e] \in Row
  BY <1>1, <1>2 DEF Backed, BackedCall, BackedSets, ResetIsMailed, HasRow, TypeOK
<1>4. \/ users' = users
      \/ users' = [users EXCEPT ![e].token = call[c].token]
  BY <1>2 DEF ResetIsMailed
<1>5. users' \in [Emails -> Row \cup {None}]
  BY <1>1, <1>3, <1>4, TokenRow DEF TokenCall
<1>6. Stable
  <2>1. \A f \in Emails : HasRow(f) =>
          users'[f] # None /\ users'[f].linked = users[f].linked /\ users'[f].by = users[f].by
    BY <1>1, <1>3, <1>4, TokenRow, NoneIsNothing DEF HasRow, TokenCall
  <2> QED
    BY <2>1 DEF Stable, ResetIsMailed
<1>7. call[c].token \in 1..tokens
  BY <1>1 DEF Backed, BackedCall, BackedSets, ResetIsMailed
<1>8. resetMails' \cup used' \subseteq 1..tokens'
  BY <1>7 DEF TypeOK, ResetIsMailed, history
<1> QED
  BY <1>1, <1>5, <1>6, <1>8 DEF TypeOK, ResetIsMailed, history

\* resetPassword's look-up.
LEMMA ResetType ==
  ASSUME TypeOK, Backed, NEW c \in Callers, NEW e \in Emails, NEW t \in 1..tokens, Reset(c,
         e, t)
  PROVE  TypeOK' /\ Stable
<1>1. used \in SUBSET Nat /\ t \in Nat /\ passwords + 1 \in Nat
  BY DEF TypeOK
<1>2. call' \in [Callers -> Call \cup {None}]
  BY <1>1, NewCalls, OneCallTyped DEF Reset, Begin
<1>3. passwords' \in 0..MaxPasswords /\ retired' \subseteq 1..passwords'
  BY AccountsAssumption DEF Reset, TypeOK, history
<1> QED
  BY <1>2, <1>3 DEF Reset, TypeOK, Stable, HasRow, tables, mail, history

\* resetPassword's UPDATE.
LEMMA ResetWritesType ==
  ASSUME TypeOK, Backed, NEW c \in Callers, ResetWrites(c)
  PROVE  TypeOK' /\ Stable
<1>1. call[c] \in ResetCall /\ call' \in [Callers -> Call \cup {None}]
  BY CallKinds, Returns DEF ResetWrites
<1>2. PICK e \in Emails : e = call[c].email
  BY <1>1 DEF ResetCall
<1>3. users \in [Emails -> Row \cup {None}] /\ users[e] \in Row
  BY <1>1, <1>2 DEF Backed, BackedCall, BackedSets, ResetWrites, HasRow, TypeOK
<1>4. \/ users' = users
      \/ users' = [users EXCEPT ![e].pass = call[c].pass, ![e].token = 0]
  BY <1>2 DEF ResetWrites
<1>5. users' \in [Emails -> Row \cup {None}]
  BY <1>1, <1>3, <1>4, ResetRow DEF ResetCall
<1>6. Stable
  <2>1. \A f \in Emails : HasRow(f) =>
          users'[f] # None /\ users'[f].linked = users[f].linked /\ users'[f].by = users[f].by
    BY <1>1, <1>3, <1>4, ResetRow, NoneIsNothing DEF HasRow, ResetCall
  <2> QED
    BY <2>1 DEF Stable, ResetWrites
<1>7. call[c].token \in 1..tokens /\ users[e].pass \in 0..passwords
  BY <1>1, <1>2, <1>3 DEF Backed, BackedCall, BackedSets, ResetWrites, HasRow
<1>8. resetMails' \cup used' \subseteq 1..tokens' /\ retired' \subseteq 1..passwords'
  BY <1>2, <1>7 DEF TypeOK, ResetWrites, Retire, mail
<1> QED
  BY <1>1, <1>5, <1>6, <1>8 DEF TypeOK, ResetWrites, mail

\* changePassword's check.
LEMMA ChangeType ==
  ASSUME TypeOK, Backed, NEW c \in Callers, NEW e \in Emails, Change(c, e)
  PROVE  TypeOK' /\ Stable
<1>1. call' \in [Callers -> Call \cup {None}]
  BY NewCalls, OneCallTyped, AccountsAssumption DEF Change, Begin, TypeOK, Row, HasRow
<1> QED
  BY <1>1, NoneIsNothing, AccountsAssumption DEF TypeOK, tables, mail, history, HasRow,
     Change, Stable

\* changePassword's UPDATE.
LEMMA ChangeWritesType ==
  ASSUME TypeOK, Backed, NEW c \in Callers, ChangeWrites(c)
  PROVE  TypeOK' /\ Stable
<1>1. call[c] \in ChangeCall /\ call' \in [Callers -> Call \cup {None}]
  BY CallKinds, Returns DEF ChangeWrites
<1>2. PICK e \in Emails : e = call[c].email
  BY <1>1 DEF ChangeCall
<1>3. users \in [Emails -> Row \cup {None}] /\ users[e] \in Row
  BY <1>1, <1>2 DEF Backed, BackedCall, BackedSets, ChangeWrites, HasRow, TypeOK
<1>4. \/ users' = users
      \/ users' = [users EXCEPT ![e].pass = call[c].pass]
  BY <1>2 DEF ChangeWrites
<1>5. users' \in [Emails -> Row \cup {None}]
  BY <1>1, <1>3, <1>4, PassRow DEF ChangeCall
<1>6. Stable
  <2>1. \A f \in Emails : HasRow(f) =>
          users'[f] # None /\ users'[f].linked = users[f].linked /\ users'[f].by = users[f].by
    BY <1>1, <1>3, <1>4, PassRow, NoneIsNothing DEF HasRow, ChangeCall
  <2> QED
    BY <2>1 DEF Stable, ChangeWrites
<1>7. users[e].pass \in 0..passwords
  BY <1>3, NoneIsNothing DEF Backed, BackedCall, BackedSets, HasRow
<1>8. retired' \subseteq 1..passwords'
  BY <1>2, <1>7 DEF TypeOK, ChangeWrites, Retire
<1> QED
  BY <1>1, <1>5, <1>6, <1>8 DEF TypeOK, ChangeWrites, mail

\* validateApiKey's look-up.
LEMMA UseKeyType ==
  ASSUME TypeOK, Backed, NEW c \in Callers, NEW k \in ApiKeys, UseKey(c, k)
  PROVE  TypeOK' /\ Stable
<1>1. call' \in [Callers -> Call \cup {None}]
  BY NewCalls, OneCallTyped, AccountsAssumption DEF UseKey, Begin, TypeOK, Row, HasRow
<1> QED
  BY <1>1, NoneIsNothing, AccountsAssumption DEF TypeOK, tables, mail, history, HasRow,
     UseKey, Stable

\* A key lets its request in.
LEMMA KeyServesType ==
  ASSUME TypeOK, Backed, NEW c \in Callers, KeyServes(c)
  PROVE  TypeOK' /\ Stable
<1>1. call[c] \in KeyCall /\ call' \in [Callers -> Call \cup {None}]
  BY CallKinds, Returns DEF KeyServes
<1> QED
  BY <1>1, NoneIsNothing, AccountsAssumption DEF TypeOK, tables, mail, history, HasRow,
     KeyServes, Stable, KeyCall

\* A verification mail.
LEMMA SendVerificationType ==
  ASSUME TypeOK, Backed, NEW e \in Emails, SendVerification(e)
  PROVE  TypeOK' /\ Stable
<1>1. call' = call
  BY DEF SendVerification
<1> QED
  BY <1>1, NoneIsNothing, AccountsAssumption DEF TypeOK, tables, mail, history, HasRow,
     SendVerification, Stable, Note

\* A second mail.
LEMMA ResendType ==
  ASSUME TypeOK, Backed, NEW e \in Emails, Resend(e)
  PROVE  TypeOK' /\ Stable
<1>1. call' = call
  BY DEF Resend
<1> QED
  BY <1>1, NoneIsNothing, AccountsAssumption DEF TypeOK, tables, mail, history, HasRow,
     Resend, Stable

\* A registration at Keycloak.
LEMMA KcRegisterType ==
  ASSUME TypeOK, Backed, NEW e \in Emails, KcRegister(e)
  PROVE  TypeOK' /\ Stable
<1>1. call' = call
  BY DEF KcRegister
<1> QED
  BY <1>1, NoneIsNothing, AccountsAssumption DEF TypeOK, tables, mail, history, HasRow,
     KcUser, KcRegister, Stable

\* A verification at Keycloak.
LEMMA KcVerifyType ==
  ASSUME TypeOK, Backed, NEW e \in Emails, KcVerify(e)
  PROVE  TypeOK' /\ Stable
<1>1. keycloak[e] \in KcUser
  BY DEF Backed, BackedCall, BackedSets, KcVerify, TypeOK
<1>2. /\ keycloak' \in [Emails -> KcUser \cup {None}] /\ keycloak'[e] \in KcUser
      /\ keycloak'[e].verified /\ keycloak'[e].by = keycloak[e].by
      /\ \A f \in Emails \ {e} : keycloak'[f] = keycloak[f]
  BY <1>1, VerifiedKcUser DEF TypeOK, KcVerify
<1>3. Stable
  BY <1>2, NoneIsNothing DEF Stable, KcVerify, HasRow
<1> QED
  BY <1>2, <1>3 DEF KcVerify, TypeOK, mail

\* createApiKey.
LEMMA CreateKeyType ==
  ASSUME TypeOK, Backed, NEW e \in Emails, NEW k \in ApiKeys, CreateKey(e, k)
  PROVE  TypeOK' /\ Stable
<1>1. call' = call
  BY DEF CreateKey
<1> QED
  BY <1>1, NoneIsNothing, AccountsAssumption DEF TypeOK, tables, mail, history, HasRow,
     Key, CreateKey, Stable

\* revokeApiKey.
LEMMA RevokeKeyType ==
  ASSUME TypeOK, Backed, NEW e \in Emails, NEW k \in ApiKeys, RevokeKey(e, k)
  PROVE  TypeOK' /\ Stable
<1>1. keys[k] \in Key
  BY DEF RevokeKey, TypeOK
<1>2. [keys[k] EXCEPT !.active = FALSE] \in Key
  BY <1>1 DEF Key
<1>3. keys' \in [ApiKeys -> Key \cup {None}] /\ told' \subseteq ApiKeys
  BY <1>2 DEF RevokeKey, TypeOK
<1> QED
  BY <1>3 DEF RevokeKey, TypeOK, Stable, HasRow, mail

\* The process stops.
LEMMA CrashType ==
  ASSUME TypeOK, Backed, Crash
  PROVE  TypeOK' /\ Stable
<1>1. call' \in [Callers -> Call \cup {None}]
  BY DEF Crash, Idle
<1>2. \A d \in Callers : At(d, "insert") \/ At(d, "mark") \/ At(d, "follow") =>
        call[d].email \in Emails
  BY CallKinds DEF SignupCall, VerifyCall
<1> QED
  BY <1>1, <1>2, NoneIsNothing, AccountsAssumption DEF TypeOK, tables, mail, history,
     HasRow, Crash, Stable

(***************************************************************************)
(* What calls and sets were taken from is still there.                      *)
(***************************************************************************)
\* A call that a step leaves alone stays backed.
LEMMA OthersBacked ==
  ASSUME TypeOK, Backed, Stable, NEW d \in Callers, call'[d] = call[d],
         tokens' = tokens \/ tokens' = tokens + 1,
         passwords' = passwords \/ passwords' = passwords + 1
  PROVE  BackedCall(d)'
<1>1. BackedCall(d)
  BY DEF Backed
<1>2. 1..tokens \subseteq 1..tokens' /\ 1..passwords \subseteq 1..passwords'
  BY DEF TypeOK
<1>3. \/ At(d, "mark") \/ At(d, "follow") \/ At(d, "check") \/ At(d, "token") \/ At(d, "reset")
      \/ At(d, "change") \/ At(d, "insert") \/ At(d, "sync")
      => call[d].email \in Emails
  BY CallKinds DEF SignupCall, VerifyCall, SyncCall, LoginCall, TokenCall, ResetCall,
     ChangeCall
<1>4. \A step : At(d, step)' <=> At(d, step)
  BY DEF At
<1>5. Chooses(d)' <=> Chooses(d)
  BY DEF Chooses
<1> QED
  BY <1>1, <1>2, <1>3, <1>4, <1>5 DEF BackedCall, Stable, HasRow

\* A call that is over needs nothing.
LEMMA NoneBacked ==
  ASSUME NEW c \in Callers, call'[c] = None
  PROVE  BackedCall(c)'
BY DEF BackedCall, At, Idle, Chooses

\* A row that was there is linked to the Keycloak user it was linked to.
LEMMA LinkedKept ==
  ASSUME Backed, Stable, \A f \in Emails : users'[f] # None => HasRow(f)
  PROVE  LinkedBySameSignup'
BY DEF Backed, LinkedBySameSignup, Stable, HasRow

\* What joins the sets is backed, and what was in them stays so.
LEMMA SetsKept ==
  ASSUME TypeOK, Backed, Stable,
         \A f \in (sessions' \cup pending') \ (sessions \cup pending) : users'[f] # None,
         \A f \in kcLinks' \ kcLinks : keycloak'[f] # None,
         \A f \in Emails : users'[f] # None => \/ HasRow(f) /\ users'[f].pass = users[f].pass
                                               \/ users'[f].pass \in 0..passwords',
         passwords' = passwords \/ passwords' = passwords + 1
  PROVE  BackedSets'
<1>1. /\ sessions \cup pending \cup kcLinks \subseteq Emails
      /\ 0..passwords \subseteq 0..passwords'
  BY DEF TypeOK
<1>2. \A f \in sessions' \cup pending' : users'[f] # None
  BY <1>1 DEF Backed, BackedSets, Stable
<1>3. \A f \in kcLinks' : keycloak'[f] # None
  BY <1>1 DEF Backed, BackedSets, Stable
<1>4. \A f \in Emails : users'[f] # None => users'[f].pass \in 0..passwords'
  BY <1>1 DEF Backed, BackedSets
<1> QED
  BY <1>2, <1>3, <1>4 DEF BackedSets, HasRow

\* signupWithEmail starts.
LEMMA SignupBacked ==
  ASSUME TypeOK, Backed, Stable, NEW c \in Callers, NEW e \in Emails, Signup(c, e)
  PROVE  Backed'
<1>1. BackedCall(c)'
  BY OneCall DEF Signup, Begin, BackedCall, At, Backed, BackedSets, Chooses, HasRow,
     tables, TypeOK, history
<1>2. \A d \in Callers \ {c} : BackedCall(d)'
  BY OneCall, OthersBacked DEF Signup, Begin
<1>3. \A f \in Emails : users'[f] # None => HasRow(f) /\ users'[f].pass = users[f].pass
  BY DEF Signup, HasRow, tables
<1>4. BackedSets' /\ LinkedBySameSignup'
  BY <1>3, SetsKept, LinkedKept DEF Signup, mail
<1> QED
  BY <1>1, <1>2, <1>4 DEF Backed

\* The look-up of signupWithEmail.
LEMMA SignupLooksUpBacked ==
  ASSUME TypeOK, Backed, Stable, NEW c \in Callers, SignupLooksUp(c)
  PROVE  Backed'
<1>1. BackedCall(c)'
  <2>1. BackedCall(c) /\ At(c, "lookup")
    BY DEF Backed, SignupLooksUp
  <2>2. CASE call'[c] = None
    BY <2>2, NoneBacked
  <2>3. CASE /\ call'[c].at = "create" /\ call'[c].linked = call[c].linked
             /\ call'[c].pass = call[c].pass
    BY <2>1, <2>3 DEF BackedCall, At, Idle, Chooses, SignupLooksUp
  <2> QED
    BY <2>2, <2>3, SignupStep DEF SignupCreates, SignupLooksUp, At
<1>2. \A d \in Callers \ {c} : BackedCall(d)'
  BY SignupStep, OthersBacked DEF SignupLooksUp
<1>3. \A f \in Emails : users'[f] # None => HasRow(f) /\ users'[f].pass = users[f].pass
  BY DEF SignupLooksUp, HasRow, tables
<1>4. BackedSets' /\ LinkedBySameSignup'
  BY <1>3, SetsKept, LinkedKept DEF SignupLooksUp, mail
<1> QED
  BY <1>1, <1>2, <1>4 DEF Backed

\* The creation at Keycloak.
LEMMA SignupCreatesBacked ==
  ASSUME TypeOK, Backed, Stable, NEW c \in Callers, SignupCreates(c)
  PROVE  Backed'
<1>1. BackedCall(c)'
  <2>1. BackedCall(c) /\ At(c, "create")
    BY DEF Backed, SignupCreates
  <2>2. /\ call[c] \in SignupCall /\ call'[c].at = "insert"
        /\ call'[c].email = call[c].email /\ call'[c].pass = call[c].pass
        /\ \/ call'[c].linked = call[c].linked
           \/ keycloak' = [keycloak EXCEPT ![call[c].email] =
                             [verified |-> FALSE, by |-> call[c].pass]]
    BY SignupStep DEF SignupCreates, SignupLooksUp, At
  <2>3. call'[c].linked => /\ keycloak'[call'[c].email] # None
                           /\ keycloak'[call'[c].email].by = call'[c].pass
    <3>1. call[c].email \in Emails /\ call[c].pass \in Nat /\ ~call[c].linked
      BY <2>1, <2>2 DEF SignupCall, BackedCall
    <3>2. [verified |-> FALSE, by |-> call[c].pass] \in KcUser
      BY <3>1 DEF KcUser
    <3>3. PICK e \in Emails : e = call[c].email
      BY <3>1
    <3>4. ASSUME keycloak' = [keycloak EXCEPT ![e] = [verified |-> FALSE, by |-> call[c].pass]]
          PROVE  keycloak'[e] # None /\ keycloak'[e].by = call[c].pass
      BY <3>2, <3>4, NoneIsNothing DEF TypeOK
    <3> QED
      BY <2>2, <3>1, <3>3, <3>4
  <2>4. call'[c].pass \in 1..passwords'
    BY <2>1, <2>2 DEF BackedCall, Chooses, At, Idle, SignupCreates
  <2> QED
    BY <2>2, <2>3, <2>4 DEF BackedCall, At, Idle, Chooses
<1>2. \A d \in Callers \ {c} : BackedCall(d)'
  BY SignupStep, OthersBacked DEF SignupCreates
<1>3. \A f \in Emails : users'[f] # None => HasRow(f) /\ users'[f].pass = users[f].pass
  BY DEF SignupCreates, HasRow
<1>4. BackedSets' /\ LinkedBySameSignup'
  BY <1>3, SetsKept, LinkedKept DEF SignupCreates, mail
<1> QED
  BY <1>1, <1>2, <1>4 DEF Backed

\* The INSERT of signupWithEmail.
LEMMA SignupInsertsBacked ==
  ASSUME TypeOK, Backed, Stable, NEW c \in Callers, SignupInserts(c)
  PROVE  Backed'
<1>1. BackedCall(c)'
  BY Returns, NoneBacked DEF SignupInserts
<1>2. \A d \in Callers \ {c} : BackedCall(d)'
  BY Returns, OthersBacked DEF SignupInserts
<1>3. /\ BackedCall(c) /\ At(c, "insert") /\ call[c] \in SignupCall
      /\ call[c].email \in Emails /\ call[c].pass \in 1..passwords
  BY CallKinds DEF Backed, BackedCall, SignupInserts, SignupCall, Chooses, At, Idle
<1>4. CASE users' = users /\ pending' = pending
  <2>1. BackedSets'
    BY <1>4, SetsKept DEF SignupInserts, HasRow
  <2> QED
    BY <1>1, <1>2, <1>4, <2>1, LinkedKept DEF Backed, HasRow
<1>5. ASSUME NEW e \in Emails, e = call[c].email, pending' = pending \cup {e},
             users' = [users EXCEPT ![e] =
               [linked |-> call[c].linked, verified |-> FALSE, pass |-> call[c].pass,
                token |-> 0, by |-> call[c].pass]]
      PROVE  BackedSets' /\ LinkedBySameSignup'
  <2>1. [linked |-> call[c].linked, verified |-> FALSE, pass |-> call[c].pass, token |-> 0,
         by |-> call[c].pass] \in Row
    BY <1>3 DEF SignupCall, Row
  <2>2. /\ users'[e] # None /\ users'[e].linked = call[c].linked
        /\ users'[e].pass = call[c].pass /\ users'[e].by = call[c].pass
        /\ \A f \in Emails \ {e} : users'[f] = users[f]
    BY <1>5, <2>1, NoneIsNothing DEF TypeOK
  <2>3. BackedSets'
    <3>1. call[c].pass \in 0..passwords'
      BY <1>3 DEF SignupInserts
    <3> QED
      BY <1>5, <2>2, <3>1, SetsKept DEF SignupInserts, HasRow
  <2>4. call[c].linked => keycloak[e] # None /\ keycloak[e].by = call[c].pass
    BY <1>3, <1>5 DEF BackedCall
  <2> QED
    BY <2>2, <2>3, <2>4 DEF LinkedBySameSignup, Backed, HasRow, SignupInserts
<1>6. PICK e \in Emails : e = call[c].email
  BY <1>3
<1>7. \/ users' = users /\ pending' = pending
      \/ /\ pending' = pending \cup {e}
         /\ users' = [users EXCEPT ![e] =
              [linked |-> call[c].linked, verified |-> FALSE, pass |-> call[c].pass,
               token |-> 0, by |-> call[c].pass]]
  BY <1>6 DEF SignupInserts
<1> QED
  BY <1>1, <1>2, <1>4, <1>5, <1>6, <1>7 DEF Backed

\* verifyEmail's look-up.
LEMMA OpenLinkBacked ==
  ASSUME TypeOK, Backed, Stable, NEW c \in Callers, NEW e \in Emails, OpenLink(c, e)
  PROVE  Backed'
<1>1. BackedCall(c)'
  BY OneCall DEF OpenLink, Begin, BackedCall, At, Backed, BackedSets, Chooses, HasRow,
     tables, TypeOK, history
<1>2. \A d \in Callers \ {c} : BackedCall(d)'
  BY OneCall, OthersBacked DEF OpenLink, Begin
<1>3. \A f \in Emails : users'[f] # None => HasRow(f) /\ users'[f].pass = users[f].pass
  BY DEF OpenLink, HasRow, tables
<1>4. BackedSets' /\ LinkedBySameSignup'
  BY <1>3, SetsKept, LinkedKept DEF OpenLink, mail
<1> QED
  BY <1>1, <1>2, <1>4 DEF Backed

\* verifyEmail's UPDATE.
LEMMA VerifyMarksBacked ==
  ASSUME TypeOK, Backed, Stable, NEW c \in Callers, VerifyMarks(c)
  PROVE  Backed'
<1>1. BackedCall(c)'
  <2>1. BackedCall(c) /\ At(c, "mark")
    BY DEF Backed, VerifyMarks
  <2>2. call[c] \in VerifyCall /\ call'[c].at = "follow"
        /\ call'[c].email = call[c].email /\ call'[c].linked = call[c].linked
    BY VerifyStep
  <2>3. call[c].email \in Emails
    BY <2>2 DEF VerifyCall
  <2>4. /\ users'[call[c].email] # None
        /\ call[c].linked = users'[call[c].email].linked
    BY <2>1, <2>3 DEF BackedCall, Stable
  <2> QED
    BY <2>2, <2>4 DEF BackedCall, At, Chooses, HasRow
<1>2. \A d \in Callers \ {c} : BackedCall(d)'
  BY VerifyStep, OthersBacked DEF VerifyMarks, history
<1>3. \A f \in Emails : users'[f] # None =>
        HasRow(f) /\ (users'[f].pass = users[f].pass \/ users'[f].pass \in 0..passwords')
  <2>1. call[c] \in VerifyCall /\ BackedCall(c)
    BY CallKinds DEF VerifyMarks, Backed
  <2>2. PICK e \in Emails : e = call[c].email
    BY <2>1 DEF VerifyCall
  <2>3. users \in [Emails -> Row \cup {None}] /\ users[e] \in Row /\ HasRow(e)
    BY <2>1, <2>2 DEF BackedCall, VerifyMarks, HasRow, TypeOK
  <2>4. users' = users \/ users' = [users EXCEPT ![e].verified = TRUE]
    BY <2>2 DEF VerifyMarks
  <2> QED
    BY <2>3, <2>4, VerifiedRow DEF HasRow
<1>4. BackedSets' /\ LinkedBySameSignup'
  BY <1>3, SetsKept, LinkedKept DEF VerifyMarks, mail
<1> QED
  BY <1>1, <1>2, <1>4 DEF Backed

\* The end of verifyEmail.
LEMMA VerifyFollowsBacked ==
  ASSUME TypeOK, Backed, Stable, NEW c \in Callers, VerifyFollows(c)
  PROVE  Backed'
<1>1. BackedCall(c)'
  BY Returns, NoneBacked DEF VerifyFollows
<1>2. \A d \in Callers \ {c} : BackedCall(d)'
  BY Returns, OthersBacked DEF VerifyFollows
<1>3. \A f \in Emails : users'[f] # None => HasRow(f) /\ users'[f].pass = users[f].pass
  BY DEF VerifyFollows, HasRow, tables
<1>4. BackedSets' /\ LinkedBySameSignup'
  BY <1>3, SetsKept, LinkedKept DEF VerifyFollows, mail
<1> QED
  BY <1>1, <1>2, <1>4 DEF Backed

\* The callback's look-up.
LEMMA CallbackBacked ==
  ASSUME TypeOK, Backed, Stable, NEW c \in Callers, NEW e \in Emails, Callback(c, e)
  PROVE  Backed'
<1>1. BackedCall(c)'
  <2>1. keycloak'[e] # None
    BY DEF Callback, tables
  <2> QED
    BY <2>1, CallbackBegins DEF BackedCall, At, Chooses
<1>2. \A d \in Callers \ {c} : BackedCall(d)'
  BY CallbackBegins, OthersBacked DEF Callback
<1>3. \A f \in Emails : users'[f] # None => HasRow(f) /\ users'[f].pass = users[f].pass
  BY DEF Callback, HasRow, tables
<1>4. BackedSets' /\ LinkedBySameSignup'
  BY <1>3, SetsKept, LinkedKept DEF Callback, mail
<1> QED
  BY <1>1, <1>2, <1>4 DEF Backed

\* The callback's upsert.
LEMMA CallbackSyncsBacked ==
  ASSUME TypeOK, Backed, Stable, NEW c \in Callers, CallbackSyncs(c)
  PROVE  Backed'
<1>1. BackedCall(c)'
  BY Returns, NoneBacked DEF CallbackSyncs
<1>2. \A d \in Callers \ {c} : BackedCall(d)'
  BY Returns, OthersBacked DEF CallbackSyncs, history
<1>3. call[c] \in SyncCall /\ BackedCall(c) /\ At(c, "sync")
  BY CallKinds DEF CallbackSyncs, Backed
<1>4. PICK e \in Emails : e = call[c].email
  BY <1>3 DEF SyncCall
<1>5. keycloak[e] \in KcUser
  BY <1>3, <1>4 DEF BackedCall, TypeOK
<1>6. CASE users' = users
  BY <1>6, <1>1, <1>2, SetsKept, LinkedKept DEF CallbackSyncs, mail, HasRow, Backed
<1>7. CASE HasRow(e) /\ users' = [users EXCEPT ![e].verified = TRUE]
  <2>1. users \in [Emails -> Row \cup {None}] /\ users[e] \in Row
    BY <1>7 DEF TypeOK, HasRow
  <2>2. \A f \in Emails : users'[f] # None => HasRow(f) /\ users'[f].pass = users[f].pass
    BY <1>7, <2>1, VerifiedRow DEF HasRow
  <2> QED
    BY <1>1, <1>2, <2>2, SetsKept, LinkedKept DEF CallbackSyncs, mail, Backed
<1>8. CASE /\ ~HasRow(e)
           /\ users' = [users EXCEPT ![e] = [linked |-> TRUE, verified |-> TRUE, pass |-> 0,
                                             token |-> 0, by |-> keycloak[e].by]]
  <2>1. /\ users'[e].pass = 0 /\ users'[e].by = keycloak[e].by
        /\ \A f \in Emails \ {e} : users'[f] = users[f]
    BY <1>8 DEF TypeOK
  <2>2. 0 \in 0..passwords'
    BY DEF TypeOK, CallbackSyncs
  <2>3. BackedSets'
    BY <2>1, <2>2, SetsKept DEF CallbackSyncs, mail, HasRow
  <2>4. LinkedBySameSignup'
    BY <1>5, <2>1, NoneIsNothing DEF LinkedBySameSignup, Backed, HasRow, CallbackSyncs
  <2> QED
    BY <1>1, <1>2, <2>3, <2>4 DEF Backed
<1> QED
  BY <1>4, <1>6, <1>7, <1>8 DEF CallbackSyncs

\* loginWithEmail's look-up.
LEMMA LoginBacked ==
  ASSUME TypeOK, Backed, Stable, NEW c \in Callers, NEW e \in Emails,
         NEW p \in 1..passwords, Login(c, e, p)
  PROVE  Backed'
<1>1. BackedCall(c)'
  BY OneCall DEF Login, Begin, BackedCall, At, Backed, BackedSets, Chooses, HasRow, tables,
     TypeOK, history
<1>2. \A d \in Callers \ {c} : BackedCall(d)'
  BY OneCall, OthersBacked DEF Login, Begin
<1>3. \A f \in Emails : users'[f] # None => HasRow(f) /\ users'[f].pass = users[f].pass
  BY DEF Login, HasRow, tables
<1>4. BackedSets' /\ LinkedBySameSignup'
  BY <1>3, SetsKept, LinkedKept DEF Login, mail
<1> QED
  BY <1>1, <1>2, <1>4 DEF Backed

\* loginWithEmail's comparison.
LEMMA LoginChecksBacked ==
  ASSUME TypeOK, Backed, Stable, NEW c \in Callers, LoginChecks(c)
  PROVE  Backed'
<1>1. BackedCall(c)'
  BY Returns, NoneBacked DEF LoginChecks
<1>2. \A d \in Callers \ {c} : BackedCall(d)'
  BY Returns, OthersBacked DEF LoginChecks
<1>3. \A f \in Emails : users'[f] # None => HasRow(f) /\ users'[f].pass = users[f].pass
  BY DEF LoginChecks, HasRow, tables
<1>4. users'[call[c].email] # None
  BY DEF LoginChecks, Backed, BackedCall, HasRow, tables
<1>5. BackedSets' /\ LinkedBySameSignup'
  BY <1>3, <1>4, SetsKept, LinkedKept DEF LoginChecks, mail
<1> QED
  BY <1>1, <1>2, <1>5 DEF Backed

\* requestPasswordReset starts.
LEMMA RequestResetBacked ==
  ASSUME TypeOK, Backed, Stable, NEW c \in Callers, NEW e \in Emails, RequestReset(c, e)
  PROVE  Backed'
<1>1. BackedCall(c)'
  BY OneCall DEF RequestReset, Begin, BackedCall, At, Backed, BackedSets, Chooses, HasRow,
     tables, TypeOK, history
<1>2. \A d \in Callers \ {c} : BackedCall(d)'
  BY OneCall, OthersBacked DEF RequestReset, Begin
<1>3. \A f \in Emails : users'[f] # None => HasRow(f) /\ users'[f].pass = users[f].pass
  BY DEF RequestReset, HasRow, tables
<1>4. BackedSets' /\ LinkedBySameSignup'
  BY <1>3, SetsKept, LinkedKept DEF RequestReset, mail
<1> QED
  BY <1>1, <1>2, <1>4 DEF Backed

\* The end of requestPasswordReset.
LEMMA ResetIsMailedBacked ==
  ASSUME TypeOK, Backed, Stable, NEW c \in Callers, ResetIsMailed(c)
  PROVE  Backed'
<1>1. BackedCall(c)'
  BY Returns, NoneBacked DEF ResetIsMailed
<1>2. \A d \in Callers \ {c} : BackedCall(d)'
  BY Returns, OthersBacked DEF ResetIsMailed, history
<1>3. \A f \in Emails : users'[f] # None =>
        HasRow(f) /\ (users'[f].pass = users[f].pass \/ users'[f].pass \in 0..passwords')
  <2>1. call[c] \in TokenCall /\ BackedCall(c)
    BY CallKinds DEF ResetIsMailed, Backed
  <2>2. PICK e \in Emails : e = call[c].email
    BY <2>1 DEF TokenCall
  <2>3. users \in [Emails -> Row \cup {None}] /\ users[e] \in Row /\ HasRow(e)
    BY <2>1, <2>2 DEF BackedCall, ResetIsMailed, HasRow, TypeOK
  <2>4. users' = users \/ users' = [users EXCEPT ![e].token = call[c].token]
    BY <2>2 DEF ResetIsMailed
  <2> QED
    BY <2>1, <2>3, <2>4, TokenRow DEF HasRow, TokenCall
<1>4. BackedSets' /\ LinkedBySameSignup'
  BY <1>3, SetsKept, LinkedKept DEF ResetIsMailed, mail
<1> QED
  BY <1>1, <1>2, <1>4 DEF Backed

\* resetPassword's look-up.
LEMMA ResetBacked ==
  ASSUME TypeOK, Backed, Stable, NEW c \in Callers, NEW e \in Emails, NEW t \in 1..tokens,
         Reset(c, e, t)
  PROVE  Backed'
<1>1. BackedCall(c)'
  BY OneCall DEF Reset, Begin, BackedCall, At, Backed, BackedSets, Chooses, HasRow, tables,
     TypeOK, history
<1>2. \A d \in Callers \ {c} : BackedCall(d)'
  BY OneCall, OthersBacked DEF Reset, Begin
<1>3. \A f \in Emails : users'[f] # None => HasRow(f) /\ users'[f].pass = users[f].pass
  BY DEF Reset, HasRow, tables
<1>4. BackedSets' /\ LinkedBySameSignup'
  BY <1>3, SetsKept, LinkedKept DEF Reset, mail
<1> QED
  BY <1>1, <1>2, <1>4 DEF Backed

\* resetPassword's UPDATE.
LEMMA ResetWritesBacked ==
  ASSUME TypeOK, Backed, Stable, NEW c \in Callers, ResetWrites(c)
  PROVE  Backed'
<1>1. BackedCall(c)'
  BY Returns, NoneBacked DEF ResetWrites
<1>2. \A d \in Callers \ {c} : BackedCall(d)'
  BY Returns, OthersBacked DEF ResetWrites, history
<1>3. \A f \in Emails : users'[f] # None =>
        HasRow(f) /\ (users'[f].pass = users[f].pass \/ users'[f].pass \in 0..passwords')
  <2>1. call[c] \in ResetCall /\ BackedCall(c)
    BY CallKinds DEF ResetWrites, Backed
  <2>2. PICK e \in Emails : e = call[c].email
    BY <2>1 DEF ResetCall
  <2>3. users \in [Emails -> Row \cup {None}] /\ users[e] \in Row /\ HasRow(e)
    BY <2>1, <2>2 DEF BackedCall, ResetWrites, HasRow, TypeOK
  <2>4. users' = users \/ users' = [users EXCEPT ![e].pass = call[c].pass, ![e].token = 0]
    BY <2>2 DEF ResetWrites
  <2>5. call[c].pass \in 0..passwords'
    BY <2>1 DEF BackedCall, Chooses, At, Idle, ResetWrites
  <2> QED
    BY <2>1, <2>3, <2>4, <2>5, ResetRow DEF HasRow, ResetCall
<1>4. BackedSets' /\ LinkedBySameSignup'
  BY <1>3, SetsKept, LinkedKept DEF ResetWrites, mail
<1> QED
  BY <1>1, <1>2, <1>4 DEF Backed

\* changePassword's check.
LEMMA ChangeBacked ==
  ASSUME TypeOK, Backed, Stable, NEW c \in Callers, NEW e \in Emails, Change(c, e)
  PROVE  Backed'
<1>1. BackedCall(c)'
  BY OneCall DEF Change, Begin, BackedCall, At, Backed, BackedSets, Chooses, HasRow,
     tables, TypeOK, history
<1>2. \A d \in Callers \ {c} : BackedCall(d)'
  BY OneCall, OthersBacked DEF Change, Begin
<1>3. \A f \in Emails : users'[f] # None => HasRow(f) /\ users'[f].pass = users[f].pass
  BY DEF Change, HasRow, tables
<1>4. BackedSets' /\ LinkedBySameSignup'
  BY <1>3, SetsKept, LinkedKept DEF Change, mail
<1> QED
  BY <1>1, <1>2, <1>4 DEF Backed

\* changePassword's UPDATE.
LEMMA ChangeWritesBacked ==
  ASSUME TypeOK, Backed, Stable, NEW c \in Callers, ChangeWrites(c)
  PROVE  Backed'
<1>1. BackedCall(c)'
  BY Returns, NoneBacked DEF ChangeWrites
<1>2. \A d \in Callers \ {c} : BackedCall(d)'
  BY Returns, OthersBacked DEF ChangeWrites, history
<1>3. \A f \in Emails : users'[f] # None =>
        HasRow(f) /\ (users'[f].pass = users[f].pass \/ users'[f].pass \in 0..passwords')
  <2>1. call[c] \in ChangeCall /\ BackedCall(c)
    BY CallKinds DEF ChangeWrites, Backed
  <2>2. PICK e \in Emails : e = call[c].email
    BY <2>1 DEF ChangeCall
  <2>3. users \in [Emails -> Row \cup {None}] /\ users[e] \in Row /\ HasRow(e)
    BY <2>1, <2>2 DEF BackedCall, ChangeWrites, HasRow, TypeOK
  <2>4. users' = users \/ users' = [users EXCEPT ![e].pass = call[c].pass]
    BY <2>2 DEF ChangeWrites
  <2>5. call[c].pass \in 0..passwords'
    BY <2>1 DEF BackedCall, Chooses, At, Idle, ChangeWrites
  <2> QED
    BY <2>1, <2>3, <2>4, <2>5, PassRow DEF HasRow, ChangeCall
<1>4. BackedSets' /\ LinkedBySameSignup'
  BY <1>3, SetsKept, LinkedKept DEF ChangeWrites, mail
<1> QED
  BY <1>1, <1>2, <1>4 DEF Backed

\* validateApiKey's look-up.
LEMMA UseKeyBacked ==
  ASSUME TypeOK, Backed, Stable, NEW c \in Callers, NEW k \in ApiKeys, UseKey(c, k)
  PROVE  Backed'
<1>1. BackedCall(c)'
  BY OneCall DEF UseKey, Begin, BackedCall, At, Backed, BackedSets, Chooses, HasRow,
     tables, TypeOK, history
<1>2. \A d \in Callers \ {c} : BackedCall(d)'
  BY OneCall, OthersBacked DEF UseKey, Begin
<1>3. \A f \in Emails : users'[f] # None => HasRow(f) /\ users'[f].pass = users[f].pass
  BY DEF UseKey, HasRow, tables
<1>4. BackedSets' /\ LinkedBySameSignup'
  BY <1>3, SetsKept, LinkedKept DEF UseKey, mail
<1> QED
  BY <1>1, <1>2, <1>4 DEF Backed

\* A key lets its request in.
LEMMA KeyServesBacked ==
  ASSUME TypeOK, Backed, Stable, NEW c \in Callers, KeyServes(c)
  PROVE  Backed'
<1>1. BackedCall(c)'
  BY Returns, NoneBacked DEF KeyServes
<1>2. \A d \in Callers \ {c} : BackedCall(d)'
  BY Returns, OthersBacked DEF KeyServes
<1>3. \A f \in Emails : users'[f] # None => HasRow(f) /\ users'[f].pass = users[f].pass
  BY DEF KeyServes, HasRow, tables
<1>4. BackedSets' /\ LinkedBySameSignup'
  BY <1>3, SetsKept, LinkedKept DEF KeyServes, mail
<1> QED
  BY <1>1, <1>2, <1>4 DEF Backed

\* A verification mail.
LEMMA SendVerificationBacked ==
  ASSUME TypeOK, Backed, Stable, NEW e \in Emails, SendVerification(e)
  PROVE  Backed'
<1>1. \A d \in Callers : BackedCall(d)'
  BY OthersBacked DEF SendVerification
<1>2. \A f \in Emails : users'[f] # None => HasRow(f) /\ users'[f].pass = users[f].pass
  BY DEF SendVerification, HasRow, tables
<1>3. users[e].linked => keycloak[e] # None
  BY DEF SendVerification, Backed, BackedSets, LinkedBySameSignup
<1>4. BackedSets'
  BY <1>2, <1>3, SetsKept DEF SendVerification, tables
<1>5. LinkedBySameSignup'
  BY <1>2, LinkedKept
<1> QED
  BY <1>1, <1>4, <1>5 DEF Backed

\* A second mail.
LEMMA ResendBacked ==
  ASSUME TypeOK, Backed, Stable, NEW e \in Emails, Resend(e)
  PROVE  Backed'
<1>1. \A d \in Callers : BackedCall(d)'
  BY OthersBacked DEF Resend
<1>2. \A f \in Emails : users'[f] # None => HasRow(f) /\ users'[f].pass = users[f].pass
  BY DEF Resend, HasRow, tables
<1>3. BackedSets' /\ LinkedBySameSignup'
  BY <1>2, SetsKept, LinkedKept DEF Resend, mail
<1> QED
  BY <1>1, <1>3 DEF Backed

\* A registration at Keycloak.
LEMMA KcRegisterBacked ==
  ASSUME TypeOK, Backed, Stable, NEW e \in Emails, KcRegister(e)
  PROVE  Backed'
<1>1. \A d \in Callers : BackedCall(d)'
  BY OthersBacked DEF KcRegister
<1>2. \A f \in Emails : users'[f] # None => HasRow(f) /\ users'[f].pass = users[f].pass
  BY DEF KcRegister, HasRow
<1>3. keycloak'[e] # None
  <2>1. [verified |-> FALSE, by |-> 0] \in KcUser
    BY DEF KcUser
  <2> QED
    BY <2>1, NoneIsNothing DEF KcRegister, TypeOK
<1>4. BackedSets' /\ LinkedBySameSignup'
  BY <1>2, <1>3, SetsKept, LinkedKept DEF KcRegister, mail
<1> QED
  BY <1>1, <1>4 DEF Backed

\* A verification at Keycloak.
LEMMA KcVerifyBacked ==
  ASSUME TypeOK, Backed, Stable, NEW e \in Emails, KcVerify(e)
  PROVE  Backed'
<1>1. \A d \in Callers : BackedCall(d)'
  BY OthersBacked DEF KcVerify
<1>2. \A f \in Emails : users'[f] # None => HasRow(f) /\ users'[f].pass = users[f].pass
  BY DEF KcVerify, HasRow, tables
<1>3. BackedSets' /\ LinkedBySameSignup'
  BY <1>2, SetsKept, LinkedKept DEF KcVerify, mail
<1> QED
  BY <1>1, <1>3 DEF Backed

\* createApiKey.
LEMMA CreateKeyBacked ==
  ASSUME TypeOK, Backed, Stable, NEW e \in Emails, NEW k \in ApiKeys, CreateKey(e, k)
  PROVE  Backed'
<1>1. \A d \in Callers : BackedCall(d)'
  BY OthersBacked DEF CreateKey
<1>2. \A f \in Emails : users'[f] # None => HasRow(f) /\ users'[f].pass = users[f].pass
  BY DEF CreateKey, HasRow, tables
<1>3. BackedSets' /\ LinkedBySameSignup'
  BY <1>2, SetsKept, LinkedKept DEF CreateKey, mail
<1> QED
  BY <1>1, <1>3 DEF Backed

\* revokeApiKey.
LEMMA RevokeKeyBacked ==
  ASSUME TypeOK, Backed, Stable, NEW e \in Emails, NEW k \in ApiKeys, RevokeKey(e, k)
  PROVE  Backed'
<1>1. \A d \in Callers : BackedCall(d)'
  BY OthersBacked DEF RevokeKey
<1>2. \A f \in Emails : users'[f] # None => HasRow(f) /\ users'[f].pass = users[f].pass
  BY DEF RevokeKey, HasRow, tables
<1>3. BackedSets' /\ LinkedBySameSignup'
  BY <1>2, SetsKept, LinkedKept DEF RevokeKey, mail
<1> QED
  BY <1>1, <1>3 DEF Backed

\* The process stops.
LEMMA CrashBacked ==
  ASSUME TypeOK, Backed, Stable, Crash
  PROVE  Backed'
<1>1. \A d \in Callers : BackedCall(d)'
  BY NoneBacked DEF Crash, Idle
<1>2. \A f \in Emails : users'[f] # None => HasRow(f) /\ users'[f].pass = users[f].pass
  BY DEF Crash, HasRow, tables
<1>3. BackedSets' /\ LinkedBySameSignup'
  BY <1>2, SetsKept, LinkedKept DEF Crash, mail
<1> QED
  BY <1>1, <1>3 DEF Backed

(***************************************************************************)
(* The first theorem.                                                       *)
(***************************************************************************)
\* Nothing is there at the start.
LEMMA InitTyped ==
  ASSUME Init
  PROVE  TypeOK /\ Backed
<1>1. \A c \in Callers : BackedCall(c)
  BY DEF Init, BackedCall, At, Idle, Chooses
<1>2. BackedSets /\ LinkedBySameSignup
  BY DEF Init, BackedSets, LinkedBySameSignup, HasRow
<1>3. TypeOK
  BY AccountsAssumption DEF Init, TypeOK, Idle
<1> QED
  BY <1>1, <1>2, <1>3 DEF Backed

\* One step keeps the types and what calls and sets rely on.
LEMMA NextTyped ==
  ASSUME TypeOK, Backed, [Next]_vars
  PROVE  TypeOK' /\ Backed' /\ Stable
<1>1. ASSUME NEW c \in Callers, Request(c)
      PROVE  TypeOK' /\ Backed' /\ Stable
  <2>1. ASSUME NEW e \in Emails, Signup(c, e)
        PROVE  TypeOK' /\ Backed' /\ Stable
    BY <2>1, SignupType, SignupBacked
  <2>2. ASSUME NEW e \in Emails, OpenLink(c, e)
        PROVE  TypeOK' /\ Backed' /\ Stable
    BY <2>2, OpenLinkType, OpenLinkBacked
  <2>3. ASSUME NEW e \in Emails, Callback(c, e)
        PROVE  TypeOK' /\ Backed' /\ Stable
    BY <2>3, CallbackType, CallbackBacked
  <2>4. ASSUME NEW e \in Emails, RequestReset(c, e)
        PROVE  TypeOK' /\ Backed' /\ Stable
    BY <2>4, RequestResetType, RequestResetBacked
  <2>5. ASSUME NEW e \in Emails, Change(c, e)
        PROVE  TypeOK' /\ Backed' /\ Stable
    BY <2>5, ChangeType, ChangeBacked
  <2>6. ASSUME NEW e \in Emails, NEW p \in 1..passwords, Login(c, e, p)
        PROVE  TypeOK' /\ Backed' /\ Stable
    BY <2>6, LoginType, LoginBacked
  <2>7. ASSUME NEW e \in Emails, NEW t \in 1..tokens, Reset(c, e, t)
        PROVE  TypeOK' /\ Backed' /\ Stable
    BY <2>7, ResetType, ResetBacked
  <2>8. ASSUME NEW k \in ApiKeys, UseKey(c, k)
        PROVE  TypeOK' /\ Backed' /\ Stable
    BY <2>8, UseKeyType, UseKeyBacked
  <2> QED
    BY <1>1, <2>1, <2>2, <2>3, <2>4, <2>5, <2>6, <2>7, <2>8 DEF Request
<1>2. ASSUME NEW c \in Callers, RequestStep(c)
      PROVE  TypeOK' /\ Backed' /\ Stable
  <2>1. CASE SignupLooksUp(c)
    BY <2>1, SignupLooksUpType, SignupLooksUpBacked
  <2>2. CASE SignupCreates(c)
    BY <2>2, SignupCreatesType, SignupCreatesBacked
  <2>3. CASE SignupInserts(c)
    BY <2>3, SignupInsertsType, SignupInsertsBacked
  <2>4. CASE VerifyMarks(c)
    BY <2>4, VerifyMarksType, VerifyMarksBacked
  <2>5. CASE VerifyFollows(c)
    BY <2>5, VerifyFollowsType, VerifyFollowsBacked
  <2>6. CASE CallbackSyncs(c)
    BY <2>6, CallbackSyncsType, CallbackSyncsBacked
  <2>7. CASE LoginChecks(c)
    BY <2>7, LoginChecksType, LoginChecksBacked
  <2>8. CASE ResetIsMailed(c)
    BY <2>8, ResetIsMailedType, ResetIsMailedBacked
  <2>9. CASE ResetWrites(c)
    BY <2>9, ResetWritesType, ResetWritesBacked
  <2>10. CASE ChangeWrites(c)
    BY <2>10, ChangeWritesType, ChangeWritesBacked
  <2>11. CASE KeyServes(c)
    BY <2>11, KeyServesType, KeyServesBacked
  <2> QED
    BY <1>2, <2>1, <2>2, <2>3, <2>4, <2>5, <2>6, <2>7, <2>8, <2>9, <2>10, <2>11
       DEF RequestStep
<1>3. ASSUME NEW e \in Emails, SendVerification(e)
      PROVE  TypeOK' /\ Backed' /\ Stable
  BY <1>3, SendVerificationType, SendVerificationBacked
<1>4. ASSUME NEW e \in Emails, Resend(e)
      PROVE  TypeOK' /\ Backed' /\ Stable
  BY <1>4, ResendType, ResendBacked
<1>5. ASSUME NEW e \in Emails, KcRegister(e)
      PROVE  TypeOK' /\ Backed' /\ Stable
  BY <1>5, KcRegisterType, KcRegisterBacked
<1>6. ASSUME NEW e \in Emails, KcVerify(e)
      PROVE  TypeOK' /\ Backed' /\ Stable
  BY <1>6, KcVerifyType, KcVerifyBacked
<1>7. ASSUME NEW e \in Emails, NEW k \in ApiKeys, CreateKey(e, k)
      PROVE  TypeOK' /\ Backed' /\ Stable
  BY <1>7, CreateKeyType, CreateKeyBacked
<1>8. ASSUME NEW e \in Emails, NEW k \in ApiKeys, RevokeKey(e, k)
      PROVE  TypeOK' /\ Backed' /\ Stable
  BY <1>8, RevokeKeyType, RevokeKeyBacked
<1>9. CASE Crash
  BY <1>9, CrashType, CrashBacked
<1>10. CASE UNCHANGED vars
  <2>1. UNCHANGED <<tables, call, mail, sessions, passwords, tokens, history>>
    BY <1>10 DEF vars
  <2>2. TypeOK' /\ Stable
    BY <2>1 DEF TypeOK, Stable, HasRow, tables, mail, history
  <2>3. \A d \in Callers : BackedCall(d)'
    BY <2>1, <2>2, OthersBacked
  <2>4. BackedSets' /\ LinkedBySameSignup'
    BY <2>1 DEF Backed, BackedSets, LinkedBySameSignup, HasRow, tables, mail
  <2> QED
    BY <2>2, <2>3, <2>4 DEF Backed
<1> QED
  BY <1>1, <1>2, <1>3, <1>4, <1>5, <1>6, <1>7, <1>8, <1>9, <1>10 DEF Next

\* All variables have their types, and calls, sessions and links are backed by rows
\* and users of Keycloak.
THEOREM AccountsTyped == Spec => [](TypeOK /\ Backed)
<1>1. Init => TypeOK /\ Backed
  BY InitTyped
<1>2. TypeOK /\ Backed /\ [Next]_vars => TypeOK' /\ Backed'
  BY NextTyped
<1> QED
  BY <1>1, <1>2, PTL DEF Spec

\* A row that names a Keycloak user names the one of its own signup.
THEOREM RowsAreLinkedRight == Spec => []LinkedBySameSignup
<1>1. TypeOK /\ Backed => LinkedBySameSignup
  BY DEF Backed
<1> QED
  BY <1>1, AccountsTyped, PTL

(***************************************************************************)
(* What the steps that write a row, or a user of Keycloak, make of it.      *)
(***************************************************************************)
\* Every row but that of e is left alone.
OnlyRow(e) == \A f \in Emails \ {e} : users'[f] = users[f]

OnlyUser(e) == \A f \in Emails \ {e} : keycloak'[f] = keycloak[f]

\* The INSERT of a signup: no row, or a new one with its password.
LEMMA InsertEffect ==
  ASSUME TypeOK, NEW c \in Callers, SignupInserts(c)
  PROVE  /\ At(c, "insert") /\ call[c] \in SignupCall /\ call[c].email \in Emails
         /\ \/ users' = users
            \/ /\ ~HasRow(call[c].email) /\ OnlyRow(call[c].email)
               /\ users'[call[c].email] # None
               /\ ~users'[call[c].email].verified /\ users'[call[c].email].token = 0
               /\ users'[call[c].email].pass = call[c].pass
<1>1. At(c, "insert") /\ call[c] \in SignupCall
  BY CallKinds DEF SignupInserts
<1>2. PICK e \in Emails : e = call[c].email
  BY <1>1 DEF SignupCall
<1>3. \/ users' = users
      \/ /\ ~HasRow(e)
         /\ users' = [users EXCEPT ![e] =
              [linked |-> call[c].linked, verified |-> FALSE, pass |-> call[c].pass,
               token |-> 0, by |-> call[c].pass]]
  BY <1>2 DEF SignupInserts
<1>4. [linked |-> call[c].linked, verified |-> FALSE, pass |-> call[c].pass, token |-> 0,
       by |-> call[c].pass] \in Row
  BY <1>1 DEF SignupCall, Row
<1> QED
  BY <1>1, <1>2, <1>3, <1>4, NoneIsNothing DEF TypeOK, OnlyRow

\* verifyEmail's UPDATE touches neither password nor token.
LEMMA MarkEffect ==
  ASSUME TypeOK, Backed, NEW c \in Callers, VerifyMarks(c)
  PROVE  /\ At(c, "mark") /\ call[c] \in VerifyCall /\ call[c].email \in Emails
         /\ HasRow(call[c].email)
         /\ \/ users' = users
            \/ /\ OnlyRow(call[c].email)
               /\ users'[call[c].email] # None
               /\ users'[call[c].email].pass = users[call[c].email].pass
               /\ users'[call[c].email].token = users[call[c].email].token
<1>1. At(c, "mark") /\ call[c] \in VerifyCall /\ HasRow(call[c].email)
  BY CallKinds DEF VerifyMarks, Backed, BackedCall
<1>2. PICK e \in Emails : e = call[c].email
  BY <1>1 DEF VerifyCall
<1>3. users \in [Emails -> Row \cup {None}] /\ users[e] \in Row
  BY <1>1, <1>2 DEF TypeOK, HasRow
<1>4. users' = users \/ users' = [users EXCEPT ![e].verified = TRUE]
  BY <1>2 DEF VerifyMarks
<1>5. CASE users' = [users EXCEPT ![e].verified = TRUE]
  <2>1. /\ users'[e] \in Row /\ users'[e].pass = users[e].pass
        /\ users'[e].token = users[e].token
        /\ \A f \in Emails \ {e} : users'[f] = users[f]
    BY <1>3, <1>5, VerifiedRow
  <2> QED
    BY <1>1, <1>2, <2>1, NoneIsNothing DEF OnlyRow
<1> QED
  BY <1>1, <1>2, <1>4, <1>5

\* The upsert of the callback: a row without password, or one more verified, for
\* an address that is known and linked to the user of Keycloak.
LEMMA SyncEffect ==
  ASSUME TypeOK, Backed, NEW c \in Callers, CallbackSyncs(c)
  PROVE  /\ At(c, "sync") /\ call[c] \in SyncCall /\ call[c].email \in Emails
         /\ keycloak[call[c].email] # None
         /\ \/ users' = users
            \/ /\ OnlyRow(call[c].email)
               /\ users'[call[c].email] # None
               /\ call[c].known /\ users'[call[c].email].linked
               /\ \/ /\ HasRow(call[c].email)
                     /\ users'[call[c].email].pass = users[call[c].email].pass
                     /\ users'[call[c].email].token = users[call[c].email].token
                  \/ /\ ~HasRow(call[c].email)
                     /\ users'[call[c].email].pass = 0 /\ users'[call[c].email].token = 0
<1>1. /\ At(c, "sync") /\ call[c] \in SyncCall
      /\ keycloak[call[c].email] # None
  BY CallKinds DEF CallbackSyncs, Backed, BackedCall
<1>2. PICK e \in Emails : e = call[c].email
  BY <1>1 DEF SyncCall
<1>3. users \in [Emails -> Row \cup {None}] /\ keycloak[e] \in KcUser
  BY <1>1, <1>2 DEF TypeOK
<1>4. \/ users' = users
      \/ /\ ~HasRow(e) /\ call[c].known
         /\ users' = [users EXCEPT ![e] = [linked |-> TRUE, verified |-> TRUE, pass |-> 0,
                                           token |-> 0, by |-> keycloak[e].by]]
      \/ /\ HasRow(e) /\ call[c].known /\ users[e].linked
         /\ users' = [users EXCEPT ![e].verified = TRUE]
  BY <1>2 DEF CallbackSyncs
<1>5. [linked |-> TRUE, verified |-> TRUE, pass |-> 0, token |-> 0, by |-> keycloak[e].by]
        \in Row
  BY <1>3 DEF KcUser, Row
<1>6. CASE /\ HasRow(e) /\ call[c].known /\ users[e].linked
           /\ users' = [users EXCEPT ![e].verified = TRUE]
  <2>1. users[e] \in Row
    BY <1>3, <1>6 DEF HasRow
  <2>2. /\ users'[e] \in Row /\ users'[e].pass = users[e].pass
        /\ users'[e].linked = users[e].linked /\ users'[e].token = users[e].token
        /\ \A f \in Emails \ {e} : users'[f] = users[f]
    BY <1>3, <1>6, <2>1, VerifiedRow
  <2> QED
    BY <1>1, <1>2, <1>6, <2>2, NoneIsNothing DEF OnlyRow
<1>7. CASE /\ ~HasRow(e) /\ call[c].known
           /\ users' = [users EXCEPT ![e] = [linked |-> TRUE, verified |-> TRUE, pass |-> 0,
                                             token |-> 0, by |-> keycloak[e].by]]
  BY <1>1, <1>2, <1>3, <1>5, <1>7, NoneIsNothing DEF OnlyRow
<1> QED
  BY <1>1, <1>2, <1>4, <1>6, <1>7

\* requestPasswordReset's UPDATE replaces the token and nothing else.
LEMMA TokenEffect ==
  ASSUME TypeOK, Backed, NEW c \in Callers, ResetIsMailed(c)
  PROVE  /\ At(c, "token") /\ call[c].email \in Emails /\ HasRow(call[c].email)
         /\ call[c].token \in Nat
         /\ \/ users' = users
            \/ /\ OnlyRow(call[c].email)
               /\ users'[call[c].email] # None
               /\ users'[call[c].email].pass = users[call[c].email].pass
               /\ users'[call[c].email].verified = users[call[c].email].verified
               /\ users'[call[c].email].token = call[c].token
<1>1. At(c, "token") /\ call[c] \in TokenCall /\ HasRow(call[c].email)
  BY CallKinds DEF ResetIsMailed, Backed, BackedCall
<1>2. PICK e \in Emails : e = call[c].email
  BY <1>1 DEF TokenCall
<1>3. users \in [Emails -> Row \cup {None}] /\ users[e] \in Row /\ call[c].token \in Nat
  BY <1>1, <1>2 DEF TypeOK, HasRow, TokenCall
<1>4. users' = users \/ users' = [users EXCEPT ![e].token = call[c].token]
  BY <1>2 DEF ResetIsMailed
<1> QED
  BY <1>1, <1>2, <1>3, <1>4, TokenRow, NoneIsNothing DEF OnlyRow

\* resetPassword's UPDATE takes the token away and retires the old password.
LEMMA ResetEffect ==
  ASSUME TypeOK, Backed, NEW c \in Callers, ResetWrites(c)
  PROVE  /\ At(c, "reset") /\ call[c].email \in Emails /\ HasRow(call[c].email)
         /\ call[c].pass \in Nat /\ call[c].token \in Nat
         /\ \/ users' = users /\ retired' = retired /\ used' = used
            \/ /\ OnlyRow(call[c].email)
               /\ users'[call[c].email] # None
               /\ users'[call[c].email].verified = users[call[c].email].verified
               /\ users'[call[c].email].pass = call[c].pass
               /\ users'[call[c].email].token = 0
               /\ retired' = retired \cup ({users[call[c].email].pass} \ {0})
               /\ used' = used \cup {call[c].token}
<1>1. At(c, "reset") /\ call[c] \in ResetCall /\ HasRow(call[c].email)
  BY CallKinds DEF ResetWrites, Backed, BackedCall
<1>2. PICK e \in Emails : e = call[c].email
  BY <1>1 DEF ResetCall
<1>3. /\ users \in [Emails -> Row \cup {None}] /\ users[e] \in Row
      /\ call[c].pass \in Nat /\ call[c].token \in Nat
  BY <1>1, <1>2 DEF TypeOK, HasRow, ResetCall
<1>4. \/ users' = users /\ retired' = retired /\ used' = used
      \/ /\ users' = [users EXCEPT ![e].pass = call[c].pass, ![e].token = 0]
         /\ retired' = retired \cup ({users[e].pass} \ {0})
         /\ used' = used \cup {call[c].token}
  BY <1>2 DEF ResetWrites, Retire
<1> QED
  BY <1>1, <1>2, <1>3, <1>4, ResetRow, NoneIsNothing DEF OnlyRow

\* changePassword's UPDATE retires the old password.
LEMMA ChangeEffect ==
  ASSUME TypeOK, Backed, NEW c \in Callers, ChangeWrites(c)
  PROVE  /\ At(c, "change") /\ call[c].email \in Emails /\ HasRow(call[c].email)
         /\ call[c].pass \in Nat
         /\ \/ users' = users /\ retired' = retired
            \/ /\ OnlyRow(call[c].email)
               /\ users'[call[c].email] # None
               /\ users'[call[c].email].verified = users[call[c].email].verified
               /\ users'[call[c].email].pass = call[c].pass
               /\ users'[call[c].email].token = users[call[c].email].token
               /\ retired' = retired \cup ({users[call[c].email].pass} \ {0})
<1>1. At(c, "change") /\ call[c] \in ChangeCall /\ HasRow(call[c].email)
  BY CallKinds DEF ChangeWrites, Backed, BackedCall
<1>2. PICK e \in Emails : e = call[c].email
  BY <1>1 DEF ChangeCall
<1>3. users \in [Emails -> Row \cup {None}] /\ users[e] \in Row /\ call[c].pass \in Nat
  BY <1>1, <1>2 DEF TypeOK, HasRow, ChangeCall
<1>4. \/ users' = users /\ retired' = retired
      \/ /\ users' = [users EXCEPT ![e].pass = call[c].pass]
         /\ retired' = retired \cup ({users[e].pass} \ {0})
  BY <1>2 DEF ChangeWrites, Retire
<1> QED
  BY <1>1, <1>2, <1>3, <1>4, PassRow, NoneIsNothing DEF OnlyRow

\* A signup creates a user at Keycloak that is not verified.
LEMMA CreateEffect ==
  ASSUME TypeOK, NEW c \in Callers, SignupCreates(c)
  PROVE  /\ At(c, "create") /\ call[c] \in SignupCall /\ call[c].email \in Emails
         /\ \/ keycloak' = keycloak
            \/ /\ OnlyUser(call[c].email)
               /\ keycloak'[call[c].email] # None /\ ~keycloak'[call[c].email].verified
<1>1. At(c, "create") /\ call[c] \in SignupCall
  BY CallKinds DEF SignupCreates
<1>2. PICK e \in Emails : e = call[c].email
  BY <1>1 DEF SignupCall
<1>3. \/ keycloak' = keycloak
      \/ keycloak' = [keycloak EXCEPT ![e] = [verified |-> FALSE, by |-> call[c].pass]]
  BY <1>2 DEF SignupCreates
<1>4. [verified |-> FALSE, by |-> call[c].pass] \in KcUser
  BY <1>1 DEF SignupCall, KcUser
<1> QED
  BY <1>1, <1>2, <1>3, <1>4, NoneIsNothing DEF TypeOK, OnlyUser

\* The end of verifyEmail: Keycloak is told, or the address is troubled.
LEMMA FollowEffect ==
  ASSUME TypeOK, Backed, NEW c \in Callers, VerifyFollows(c)
  PROVE  /\ At(c, "follow") /\ call[c] \in VerifyCall /\ call[c].email \in Emails
         /\ HasRow(call[c].email)
         /\ call[c].linked = users[call[c].email].linked
         /\ \/ /\ keycloak' = keycloak
               /\ call[c].linked => call[c].email \in troubled'
            \/ /\ OnlyUser(call[c].email)
               /\ keycloak'[call[c].email] # None /\ keycloak'[call[c].email].verified
               /\ call[c].linked
<1>1. /\ At(c, "follow") /\ call[c] \in VerifyCall /\ HasRow(call[c].email)
      /\ call[c].linked = users[call[c].email].linked
  BY CallKinds DEF VerifyFollows, Backed, BackedCall
<1>2. PICK e \in Emails : e = call[c].email
  BY <1>1 DEF VerifyCall
<1>3. \/ keycloak' = keycloak /\ (call[c].linked => e \in troubled')
      \/ call[c].linked /\ keycloak' = [keycloak EXCEPT ![e].verified = TRUE]
  BY <1>2 DEF VerifyFollows, Note
<1>4. call[c].linked => keycloak[e] \in KcUser
  BY <1>1, <1>2 DEF Backed, LinkedBySameSignup, TypeOK
<1> QED
  BY <1>1, <1>2, <1>3, <1>4, VerifiedKcUser, NoneIsNothing DEF TypeOK, OnlyUser

\* Calls only end, or go on to the step s.
EndsOr(s) == \A d \in Callers : call'[d] # None => call'[d] = call[d] \/ call'[d].at = s

\* A step that touches no call, ends one, or ends them all.
LEMMA ReturnEnds ==
  ASSUME TypeOK, NEW s,
         call' = call \/ Crash \/ \E c \in Callers : Return(c)
  PROVE  EndsOr(s)
<1>1. CASE Crash
  BY <1>1 DEF Crash, EndsOr, Idle
<1>2. CASE \E c \in Callers : Return(c)
  BY <1>2, Returns DEF EndsOr
<1> QED
  BY <1>1, <1>2 DEF EndsOr

\* A step after which its call goes on.
LEMMA GoEnds ==
  ASSUME TypeOK, NEW c \in Callers
  PROVE  /\ SignupLooksUp(c) => EndsOr("create")
         /\ SignupCreates(c) => EndsOr("insert")
         /\ VerifyMarks(c) => EndsOr("follow")
<1>1. ASSUME SignupLooksUp(c) PROVE EndsOr("create")
  BY <1>1, SignupStep DEF SignupCreates, SignupLooksUp, At, EndsOr
<1>2. ASSUME SignupCreates(c) PROVE EndsOr("insert")
  BY <1>2, SignupStep DEF SignupCreates, SignupLooksUp, At, EndsOr
<1>3. ASSUME VerifyMarks(c) PROVE EndsOr("follow")
  BY <1>3, VerifyStep DEF EndsOr
<1> QED
  BY <1>1, <1>2, <1>3

(***************************************************************************)
(* Rows are verified by their owners.                                       *)
(***************************************************************************)
\* What leads to a verified row is vouched for: a request that has found the link,
\* and a callback that knows its address.
VInv ==
  /\ \A e \in Emails : HasRow(e) /\ users[e].verified =>
                         e \in proved \/ (e \in entered /\ users[e].linked)
  /\ \A c \in Callers : At(c, "mark") \/ At(c, "follow") => call[c].email \in proved
  /\ \A c \in Callers : At(c, "sync") /\ call[c].known => call[c].email \in entered

\* The calls after a step that are verifying were, or are vouched for.
VCalls ==
  /\ \A d \in Callers : At(d, "mark")' \/ At(d, "follow")' => call'[d].email \in proved'
  /\ \A d \in Callers : At(d, "sync")' /\ call'[d].known => call'[d].email \in entered'

\* A step after which the calls that are verifying are as they were.
LEMMA VerifyingAsBefore ==
  ASSUME VInv, NEW s, EndsOr(s), s \notin {"mark", "follow", "sync"},
         proved \subseteq proved', entered \subseteq entered'
  PROVE  VCalls
<1>1. \A c \in Callers : At(c, "mark")' \/ At(c, "follow")' =>
                           call'[c] = call[c] /\ (At(c, "mark") \/ At(c, "follow"))
  BY DEF EndsOr, At, Idle
<1>2. \A c \in Callers : At(c, "sync")' => call'[c] = call[c] /\ At(c, "sync")
  BY DEF EndsOr, At, Idle
<1> QED
  BY <1>1, <1>2 DEF VInv, VCalls

\* A step that verifies nobody, and after which no new call is verifying.
LEMMA VerifiedQuiet ==
  ASSUME VInv, Stable, NEW s, EndsOr(s), s \notin {"mark", "follow", "sync"},
         proved \subseteq proved', entered \subseteq entered',
         \A e \in Emails : users'[e] # None /\ users'[e].verified =>
                             HasRow(e) /\ users[e].verified
  PROVE  VInv'
<1>1. VCalls
  BY VerifyingAsBefore
<1> QED
  BY <1>1 DEF VInv, VCalls, Stable, HasRow

\* verifyEmail's look-up.
LEMMA OpenLinkVerified ==
  ASSUME TypeOK, Backed, VInv, NEW c \in Callers, NEW e \in Emails, OpenLink(c, e)
  PROVE  VInv'
<1>1. \A d \in Callers : \/ call'[d] = call[d]
                          \/ /\ At(d, "mark")' /\ call'[d].email = e
                             /\ call'[d].at = "mark"
  BY OneCall DEF OpenLink, Begin, At, Idle
<1>2. \A d \in Callers : call'[d] = call[d] => /\ At(d, "mark")' = At(d, "mark")
                                                /\ At(d, "follow")' = At(d, "follow")
                                                /\ At(d, "sync")' = At(d, "sync")
  BY DEF At
<1>3. VCalls
  BY <1>1, <1>2 DEF VInv, VCalls, OpenLink, At
<1> QED
  BY <1>3 DEF VInv, VCalls, HasRow, OpenLink, tables

\* verifyEmail's UPDATE.
LEMMA VerifyMarksVerified ==
  ASSUME TypeOK, Backed, VInv, NEW c \in Callers, VerifyMarks(c)
  PROVE  VInv'
<1>1. call[c].email \in proved
  BY MarkEffect DEF VInv
<1>2. VCalls
  BY <1>1, VerifyStep DEF VInv, VCalls, VerifyMarks, At
<1> QED
  BY <1>1, <1>2, MarkEffect DEF VInv, VCalls, HasRow, OnlyRow, VerifyMarks

\* The end of verifyEmail.
LEMMA VerifyFollowsVerified ==
  ASSUME TypeOK, Backed, VInv, NEW c \in Callers, VerifyFollows(c)
  PROVE  VInv'
<1>1. VCalls
  BY Returns DEF VInv, VCalls, VerifyFollows, At, Idle
<1> QED
  BY <1>1 DEF VInv, VCalls, HasRow, VerifyFollows

\* The callback's look-up.
LEMMA CallbackVerified ==
  ASSUME TypeOK, Backed, VInv, NEW c \in Callers, NEW e \in Emails, Callback(c, e)
  PROVE  VInv'
<1>1. entered \subseteq entered' /\ proved' = proved /\ users' = users
  BY DEF Callback, tables
<1>2. At(c, "sync")' /\ ~At(c, "mark")' /\ ~At(c, "follow")'
      /\ (call'[c].known => call'[c].email \in entered')
  BY CallbackBegins, NoneIsNothing DEF At, Idle, Call
<1>3. \A d \in Callers \ {c} : call'[d] = call[d]
  BY CallbackBegins
<1>4. VCalls
  BY <1>1, <1>2, <1>3 DEF VInv, VCalls, At
<1> QED
  BY <1>1, <1>4 DEF VInv, VCalls, HasRow

\* The callback's upsert.
LEMMA CallbackSyncsVerified ==
  ASSUME TypeOK, Backed, VInv, NEW c \in Callers, CallbackSyncs(c)
  PROVE  VInv'
<1>1. VCalls
  BY Returns DEF VInv, VCalls, CallbackSyncs, At, Idle, history
<1>2. proved' = proved /\ entered' = entered
  BY DEF CallbackSyncs, history
<1>3. PICK e \in Emails : e = call[c].email
  BY SyncEffect
<1>4. CASE users' = users
  BY <1>1, <1>2, <1>4 DEF VInv, VCalls, HasRow
<1>5. CASE OnlyRow(e) /\ call[c].known /\ users'[e].linked
  <2>1. e \in entered
    BY <1>3, <1>5, SyncEffect DEF VInv
  <2> QED
    BY <1>1, <1>2, <1>5, <2>1 DEF VInv, VCalls, HasRow, OnlyRow
<1> QED
  BY <1>3, <1>4, <1>5, SyncEffect

\* A verification at Keycloak.
LEMMA KcVerifyVerified ==
  ASSUME TypeOK, Backed, VInv, NEW e \in Emails, KcVerify(e)
  PROVE  VInv'
<1>1. VCalls
  BY DEF VInv, VCalls, KcVerify, At
<1> QED
  BY <1>1 DEF VInv, VCalls, HasRow, KcVerify

\* VInv holds at the start.
LEMMA VerifiedInitially ==
  ASSUME Init
  PROVE  VInv
BY DEF Init, VInv, HasRow, At, Idle

\* Every step keeps VInv.
LEMMA VerifiedNext ==
  ASSUME TypeOK, Backed, VInv, [Next]_vars
  PROVE  VInv'
<1>0. Stable
  BY NextTyped
<1>1. ASSUME NEW c \in Callers, Request(c)
      PROVE  VInv'
  <2>1. ASSUME NEW e \in Emails, Signup(c, e)
        PROVE  VInv'
    BY <2>1, OneCall, <1>0, VerifiedQuiet DEF Signup, Begin, EndsOr, HasRow, tables, mail, history
  <2>2. ASSUME NEW e \in Emails, OpenLink(c, e)
        PROVE  VInv'
    BY <2>2, OpenLinkVerified
  <2>3. ASSUME NEW e \in Emails, Callback(c, e)
        PROVE  VInv'
    BY <2>3, CallbackVerified
  <2>4. ASSUME NEW e \in Emails, RequestReset(c, e)
        PROVE  VInv'
    BY <2>4, OneCall, <1>0, VerifiedQuiet DEF RequestReset, Begin, EndsOr, HasRow, tables, mail,
       history
  <2>5. ASSUME NEW e \in Emails, Change(c, e)
        PROVE  VInv'
    BY <2>5, OneCall, <1>0, VerifiedQuiet DEF Change, Begin, EndsOr, HasRow, tables, mail, history
  <2>6. ASSUME NEW e \in Emails, NEW p \in 1..passwords, Login(c, e, p)
        PROVE  VInv'
    BY <2>6, OneCall, <1>0, VerifiedQuiet DEF Login, Begin, EndsOr, HasRow, tables, mail, history
  <2>7. ASSUME NEW e \in Emails, NEW t \in 1..tokens, Reset(c, e, t)
        PROVE  VInv'
    BY <2>7, OneCall, <1>0, VerifiedQuiet DEF Reset, Begin, EndsOr, HasRow, tables, mail, history
  <2>8. ASSUME NEW k \in ApiKeys, UseKey(c, k)
        PROVE  VInv'
    BY <2>8, OneCall, <1>0, VerifiedQuiet DEF UseKey, Begin, EndsOr, HasRow, tables, mail, history
  <2> QED
    BY <1>1, <2>1, <2>2, <2>3, <2>4, <2>5, <2>6, <2>7, <2>8 DEF Request
<1>2. ASSUME NEW c \in Callers, RequestStep(c)
      PROVE  VInv'
  <2>1. CASE SignupLooksUp(c)
    BY <2>1, GoEnds, <1>0, VerifiedQuiet DEF SignupLooksUp, HasRow, tables, mail, history
  <2>2. CASE SignupCreates(c)
    BY <2>2, GoEnds, <1>0, VerifiedQuiet DEF SignupCreates, OnlyRow, OnlyUser,
       HasRow, tables, mail, history
  <2>3. CASE SignupInserts(c)
    BY <2>3, ReturnEnds, InsertEffect, <1>0, VerifiedQuiet DEF SignupInserts, OnlyRow, OnlyUser,
       HasRow, tables, mail, history
  <2>4. CASE VerifyMarks(c)
    BY <2>4, VerifyMarksVerified
  <2>5. CASE VerifyFollows(c)
    BY <2>5, VerifyFollowsVerified
  <2>6. CASE CallbackSyncs(c)
    BY <2>6, CallbackSyncsVerified
  <2>7. CASE LoginChecks(c)
    BY <2>7, ReturnEnds, <1>0, VerifiedQuiet DEF LoginChecks, HasRow, tables, mail, history
  <2>8. CASE ResetIsMailed(c)
    BY <2>8, ReturnEnds, TokenEffect, <1>0, VerifiedQuiet DEF ResetIsMailed, OnlyRow, OnlyUser,
       HasRow, tables, mail, history
  <2>9. CASE ResetWrites(c)
    BY <2>9, ReturnEnds, ResetEffect, <1>0, VerifiedQuiet DEF ResetWrites, OnlyRow, OnlyUser,
       HasRow, tables, mail, history
  <2>10. CASE ChangeWrites(c)
    BY <2>10, ReturnEnds, ChangeEffect, <1>0, VerifiedQuiet DEF ChangeWrites, OnlyRow, OnlyUser,
       HasRow, tables, mail, history
  <2>11. CASE KeyServes(c)
    BY <2>11, ReturnEnds, <1>0, VerifiedQuiet DEF KeyServes, HasRow, tables, mail, history
  <2> QED
    BY <1>2, <2>1, <2>2, <2>3, <2>4, <2>5, <2>6, <2>7, <2>8, <2>9, <2>10, <2>11
       DEF RequestStep
<1>3. ASSUME NEW e \in Emails, SendVerification(e)
      PROVE  VInv'
  BY <1>3, ReturnEnds, <1>0, VerifiedQuiet DEF SendVerification, HasRow, tables, mail, history
<1>4. ASSUME NEW e \in Emails, Resend(e)
      PROVE  VInv'
  BY <1>4, ReturnEnds, <1>0, VerifiedQuiet DEF Resend, HasRow, tables, mail, history
<1>5. ASSUME NEW e \in Emails, KcRegister(e)
      PROVE  VInv'
  BY <1>5, ReturnEnds, <1>0, VerifiedQuiet DEF KcRegister, HasRow, history
<1>6. ASSUME NEW e \in Emails, KcVerify(e)
      PROVE  VInv'
  BY <1>6, KcVerifyVerified
<1>7. ASSUME NEW e \in Emails, NEW k \in ApiKeys, CreateKey(e, k)
      PROVE  VInv'
  BY <1>7, ReturnEnds, <1>0, VerifiedQuiet DEF CreateKey, HasRow, tables, mail, history
<1>8. ASSUME NEW e \in Emails, NEW k \in ApiKeys, RevokeKey(e, k)
      PROVE  VInv'
  BY <1>8, ReturnEnds, <1>0, VerifiedQuiet DEF RevokeKey, HasRow, tables, mail, history
<1>9. CASE Crash
  BY <1>9, ReturnEnds, <1>0, VerifiedQuiet DEF Crash, HasRow, tables, mail, history
<1>10. CASE UNCHANGED vars
  <2>1. UNCHANGED <<tables, call, mail, sessions, passwords, tokens, history>>
    BY <1>10 DEF vars
  <2>2. EndsOr("none")
    BY <2>1, ReturnEnds
  <2> QED
    BY <2>1, <2>2, <1>0, VerifiedQuiet DEF HasRow, tables, mail, history
<1> QED
  BY <1>1, <1>2, <1>3, <1>4, <1>5, <1>6, <1>7, <1>8, <1>9, <1>10 DEF Next

\* A row is verified only after its owner opened a link, or logged in as the user of
\* Keycloak that the row names.
THEOREM VerifiedRowsAreVouched == Spec => []VerifiedIsVouched
<1>1. Init => TypeOK /\ Backed /\ VInv
  BY InitTyped, VerifiedInitially
<1>2. TypeOK /\ Backed /\ VInv /\ [Next]_vars => TypeOK' /\ Backed' /\ VInv'
  BY NextTyped, VerifiedNext
<1>3. Backed /\ VInv => VerifiedIsVouched
  BY DEF Backed, LinkedBySameSignup, VInv, VerifiedIsVouched
<1> QED
  BY <1>1, <1>2, <1>3, PTL DEF Spec

(***************************************************************************)
(* Passwords never return.                                                  *)
(***************************************************************************)
\* A password on its way to a row is nobody's yet and was never replaced, and no two
\* rows share one.
PInv ==
  /\ PasswordsNeverReturn
  /\ \A c \in Callers : Chooses(c) => call[c].pass \notin retired
  /\ \A c, d \in Callers : c # d /\ Chooses(c) /\ Chooses(d) => call[c].pass # call[d].pass
  /\ \A c \in Callers, e \in Emails : Chooses(c) /\ HasRow(e) => users[e].pass # call[c].pass
  /\ \A e, f \in Emails : e # f /\ HasRow(e) /\ HasRow(f) /\ users[e].pass = users[f].pass
                            => users[e].pass = 0

\* A step after which no new call chooses or compares, and no password moves.
LEMMA PasswordKept ==
  ASSUME TypeOK, Backed, PInv,
         \A c \in Callers : Chooses(c)' => Chooses(c) /\ call'[c].pass = call[c].pass,
         \A c \in Callers : At(c, "check")' => At(c, "check") /\ call'[c] = call[c],
         \A e \in Emails : users'[e] # None => \/ HasRow(e) /\ users'[e].pass = users[e].pass
                                               \/ ~HasRow(e) /\ users'[e].pass = 0,
         retired' = retired
  PROVE  PInv'
<1>1. /\ \A c \in Callers : Chooses(c) => call[c].pass \in 1..passwords
      /\ retired \subseteq 1..passwords /\ passwords \in Nat
  BY AccountsAssumption DEF TypeOK, Backed, BackedCall
<1>2. 0 \notin 1..passwords
  OBVIOUS
<1>3. PasswordsNeverReturn'
  BY <1>1, <1>2 DEF PInv, PasswordsNeverReturn, HasRow
<1>4. \A c \in Callers, e \in Emails :
        Chooses(c)' /\ users'[e] # None => users'[e].pass # call'[c].pass
  BY <1>1, <1>2 DEF PInv
<1>5. \A e, f \in Emails :
        e # f /\ users'[e] # None /\ users'[f] # None /\ users'[e].pass = users'[f].pass
          => users'[e].pass = 0
  BY DEF PInv
<1> QED
  BY <1>3, <1>4, <1>5 DEF PInv, HasRow

\* The same for a step at which calls only end or go to an innocent step.
LEMMA PasswordQuiet ==
  ASSUME TypeOK, Backed, PInv, NEW s, EndsOr(s),
         s \notin {"lookup", "create", "insert", "reset", "change", "check"},
         \A e \in Emails : users'[e] # None => \/ HasRow(e) /\ users'[e].pass = users[e].pass
                                               \/ ~HasRow(e) /\ users'[e].pass = 0,
         retired' = retired
  PROVE  PInv'
<1>1. \A c \in Callers : Chooses(c)' => Chooses(c) /\ call'[c].pass = call[c].pass
  BY DEF EndsOr, Chooses
<1>2. \A c \in Callers : At(c, "check")' => At(c, "check") /\ call'[c] = call[c]
  BY DEF EndsOr, At, Idle
<1> QED
  BY <1>1, <1>2, PasswordKept

\* The next number is fresh.
LEMMA PasswordFresh ==
  ASSUME TypeOK, Backed, PInv, NEW c \in Callers,
         call'[c].pass = passwords + 1, call'[c].at # "check",
         \A d \in Callers \ {c} : call'[d] = call[d],
         users' = users, retired' = retired
  PROVE  PInv'
<1>1. /\ \A d \in Callers : Chooses(d) => call[d].pass \in 1..passwords
      /\ \A e \in Emails : HasRow(e) => users[e].pass \in 0..passwords
      /\ retired \subseteq 1..passwords /\ passwords \in Nat
  BY AccountsAssumption DEF TypeOK, Backed, BackedCall, BackedSets
<1>2. passwords + 1 \notin 0..passwords /\ passwords + 1 \notin 1..passwords
  BY <1>1
<1>3. \A d \in Callers \ {c} : Chooses(d)' = Chooses(d) /\ At(d, "check")' = At(d, "check")
  BY DEF Chooses, At
<1>4. ~At(c, "check")'
  BY DEF At
<1>5. PasswordsNeverReturn'
  BY <1>3, <1>4 DEF PInv, PasswordsNeverReturn, HasRow
<1>6. \A d \in Callers : Chooses(d)' => call'[d].pass \notin retired'
  BY <1>1, <1>2, <1>3 DEF PInv
<1>7. \A a, b \in Callers : a # b /\ Chooses(a)' /\ Chooses(b)' =>
        call'[a].pass # call'[b].pass
  BY <1>1, <1>2, <1>3 DEF PInv
<1>8. \A d \in Callers, e \in Emails :
        Chooses(d)' /\ users'[e] # None => users'[e].pass # call'[d].pass
  BY <1>1, <1>2, <1>3 DEF PInv, HasRow
<1> QED
  BY <1>5, <1>6, <1>7, <1>8 DEF PInv, HasRow

\* A call that writes its password to the row of e, whose old one it retires.
LEMMA PasswordWritten ==
  ASSUME TypeOK, Backed, PInv, NEW c \in Callers, NEW e \in Emails,
         Chooses(c), call'[c] = None, \A d \in Callers \ {c} : call'[d] = call[d],
         OnlyRow(e), users'[e] # None, users'[e].pass = call[c].pass,
         \A p \in retired' : p \in retired \/ (HasRow(e) /\ p = users[e].pass /\ p # 0)
  PROVE  PInv'
<1>1. call[c].pass # 0
  BY DEF TypeOK, Backed, BackedCall
<1>2. \A d \in Callers : /\ Chooses(d)' => d # c /\ Chooses(d) /\ call'[d] = call[d]
                         /\ At(d, "check")' => At(d, "check") /\ call'[d] = call[d]
  BY DEF Chooses, At, Idle
<1>3. \A f \in Emails : users'[f] # None =>
        f = e \/ (f # e /\ HasRow(f) /\ users'[f] = users[f])
  BY DEF OnlyRow, HasRow
<1>4. \A f \in Emails : users'[f] # None => users'[f].pass \notin retired'
  BY <1>1, <1>3 DEF PInv, PasswordsNeverReturn
<1>5. PasswordsNeverReturn'
  BY <1>2, <1>4 DEF PInv, PasswordsNeverReturn, HasRow
<1>6. \A d \in Callers : Chooses(d)' => call'[d].pass \notin retired'
  BY <1>2 DEF PInv
<1>7. \A a, b \in Callers : a # b /\ Chooses(a)' /\ Chooses(b)' =>
        call'[a].pass # call'[b].pass
  BY <1>2 DEF PInv
<1>8. \A d \in Callers, f \in Emails :
        Chooses(d)' /\ users'[f] # None => users'[f].pass # call'[d].pass
  BY <1>2, <1>3 DEF PInv
<1>9. \A g, f \in Emails :
        g # f /\ users'[g] # None /\ users'[f] # None /\ users'[g].pass = users'[f].pass
          => users'[g].pass = 0
  BY <1>3 DEF PInv
<1> QED
  BY <1>5, <1>6, <1>7, <1>8, <1>9 DEF PInv, HasRow

\* signupWithEmail starts.
LEMMA SignupPassword ==
  ASSUME TypeOK, Backed, PInv, NEW c \in Callers, NEW e \in Emails, Signup(c, e)
  PROVE  PInv'
<1>1. /\ call'[c].pass = passwords + 1 /\ call'[c].at = "lookup"
      /\ \A d \in Callers \ {c} : call'[d] = call[d]
  BY DEF Signup, Begin, TypeOK
<1> QED
  BY <1>1, PasswordFresh DEF Signup, tables, history

\* The look-up of signupWithEmail.
LEMMA SignupLooksUpPassword ==
  ASSUME TypeOK, Backed, PInv, NEW c \in Callers, SignupLooksUp(c)
  PROVE  PInv'
<1>1. At(c, "lookup")
  BY DEF SignupLooksUp
<1>2. \A d \in Callers : Chooses(d)' => Chooses(d) /\ call'[d].pass = call[d].pass
  BY <1>1, SignupStep DEF Chooses, At, Idle
<1>3. \A d \in Callers : At(d, "check")' => At(d, "check") /\ call'[d] = call[d]
  BY GoEnds DEF EndsOr, At, Idle
<1> QED
  BY <1>2, <1>3, PasswordKept DEF SignupLooksUp, tables, history, HasRow

\* The creation at Keycloak.
LEMMA SignupCreatesPassword ==
  ASSUME TypeOK, Backed, PInv, NEW c \in Callers, SignupCreates(c)
  PROVE  PInv'
<1>1. At(c, "create")
  BY DEF SignupCreates
<1>2. \A d \in Callers : Chooses(d)' => Chooses(d) /\ call'[d].pass = call[d].pass
  BY <1>1, SignupStep DEF Chooses, At, Idle
<1>3. \A d \in Callers : At(d, "check")' => At(d, "check") /\ call'[d] = call[d]
  BY GoEnds DEF EndsOr, At, Idle
<1> QED
  BY <1>2, <1>3, PasswordKept DEF SignupCreates, HasRow

\* The INSERT of signupWithEmail.
LEMMA SignupInsertsPassword ==
  ASSUME TypeOK, Backed, PInv, NEW c \in Callers, SignupInserts(c)
  PROVE  PInv'
<1>1. CASE users' = users
  <2>1. EndsOr("none")
    BY ReturnEnds DEF SignupInserts
  <2> QED
    BY <1>1, <2>1, PasswordQuiet DEF SignupInserts, HasRow
<1>2. CASE users' # users
  <2>1. Chooses(c) /\ call'[c] = None /\ \A d \in Callers \ {c} : call'[d] = call[d]
    BY InsertEffect, Returns DEF SignupInserts, Chooses, At, Idle
  <2>2. PICK e \in Emails : e = call[c].email
    BY InsertEffect
  <2> QED
    BY <1>2, <2>1, <2>2, InsertEffect, PasswordWritten DEF SignupInserts
<1> QED
  BY <1>1, <1>2

\* loginWithEmail's look-up.
LEMMA LoginPassword ==
  ASSUME TypeOK, Backed, PInv, NEW c \in Callers, NEW e \in Emails, NEW p \in 1..passwords,
         Login(c, e, p)
  PROVE  PInv'
<1>1. /\ call'[c].at = "check" /\ call'[c].hash = users[e].pass /\ call'[c].since = retired
      /\ \A d \in Callers \ {c} : call'[d] = call[d]
  BY DEF Login, Begin, TypeOK
<1>2. \A d \in Callers \ {c} : Chooses(d)' = Chooses(d) /\ At(d, "check")' = At(d, "check")
  BY <1>1 DEF Chooses, At
<1>3. ~Chooses(c)'
  BY <1>1 DEF Chooses
<1>4. call'[c].hash \notin call'[c].since
  BY <1>1 DEF Login, PInv, PasswordsNeverReturn
<1>5. users' = users /\ retired' = retired
  BY DEF Login, tables, history
<1>6. PasswordsNeverReturn'
  BY <1>1, <1>2, <1>4, <1>5 DEF PInv, PasswordsNeverReturn, HasRow
<1> QED
  BY <1>1, <1>2, <1>3, <1>5, <1>6 DEF PInv, HasRow

\* resetPassword's look-up.
LEMMA ResetPassword ==
  ASSUME TypeOK, Backed, PInv, NEW c \in Callers, NEW e \in Emails, NEW t \in 1..tokens,
         Reset(c, e, t)
  PROVE  PInv'
<1>1. /\ call'[c].pass = passwords + 1 /\ call'[c].at = "reset"
      /\ \A d \in Callers \ {c} : call'[d] = call[d]
  BY DEF Reset, Begin, TypeOK
<1> QED
  BY <1>1, PasswordFresh DEF Reset, tables, history

\* resetPassword's UPDATE.
LEMMA ResetWritesPassword ==
  ASSUME TypeOK, Backed, PInv, NEW c \in Callers, ResetWrites(c)
  PROVE  PInv'
<1>1. CASE users' = users /\ retired' = retired
  <2>1. EndsOr("none")
    BY ReturnEnds DEF ResetWrites
  <2> QED
    BY <1>1, <2>1, PasswordQuiet DEF HasRow
<1>2. CASE ~(users' = users /\ retired' = retired)
  <2>1. Chooses(c) /\ call'[c] = None /\ \A d \in Callers \ {c} : call'[d] = call[d]
    BY ResetEffect, Returns DEF ResetWrites, Chooses, At, Idle
  <2>2. PICK e \in Emails : e = call[c].email
    BY ResetEffect
  <2>3. /\ OnlyRow(e) /\ users'[e] # None /\ users'[e].pass = call[c].pass /\ HasRow(e)
        /\ retired' = retired \cup ({users[e].pass} \ {0})
    BY <1>2, <2>2, ResetEffect
  <2> QED
    BY <2>1, <2>3, PasswordWritten
<1> QED
  BY <1>1, <1>2

\* changePassword's check.
LEMMA ChangePassword ==
  ASSUME TypeOK, Backed, PInv, NEW c \in Callers, NEW e \in Emails, Change(c, e)
  PROVE  PInv'
<1>1. /\ call'[c].pass = passwords + 1 /\ call'[c].at = "change"
      /\ \A d \in Callers \ {c} : call'[d] = call[d]
  BY DEF Change, Begin, TypeOK
<1> QED
  BY <1>1, PasswordFresh DEF Change, tables, history

\* changePassword's UPDATE.
LEMMA ChangeWritesPassword ==
  ASSUME TypeOK, Backed, PInv, NEW c \in Callers, ChangeWrites(c)
  PROVE  PInv'
<1>1. CASE users' = users /\ retired' = retired
  <2>1. EndsOr("none")
    BY ReturnEnds DEF ChangeWrites
  <2> QED
    BY <1>1, <2>1, PasswordQuiet DEF HasRow
<1>2. CASE ~(users' = users /\ retired' = retired)
  <2>1. Chooses(c) /\ call'[c] = None /\ \A d \in Callers \ {c} : call'[d] = call[d]
    BY ChangeEffect, Returns DEF ChangeWrites, Chooses, At, Idle
  <2>2. PICK e \in Emails : e = call[c].email
    BY ChangeEffect
  <2>3. /\ OnlyRow(e) /\ users'[e] # None /\ users'[e].pass = call[c].pass /\ HasRow(e)
        /\ retired' = retired \cup ({users[e].pass} \ {0})
    BY <1>2, <2>2, ChangeEffect
  <2> QED
    BY <2>1, <2>3, PasswordWritten
<1> QED
  BY <1>1, <1>2

\* The process stops.
LEMMA CrashPassword ==
  ASSUME TypeOK, Backed, PInv, Crash
  PROVE  PInv'
<1>1. EndsOr("none")
  BY ReturnEnds
<1> QED
  BY <1>1, PasswordQuiet DEF Crash, HasRow, tables

\* PInv holds at the start.
LEMMA PasswordInitially ==
  ASSUME Init
  PROVE  PInv
BY DEF Init, PInv, PasswordsNeverReturn, HasRow, At, Idle, Chooses

\* Every step keeps PInv.
LEMMA PasswordNext ==
  ASSUME TypeOK, Backed, PInv, [Next]_vars
  PROVE  PInv'
<1>1. ASSUME NEW c \in Callers, Request(c)
      PROVE  PInv'
  <2>1. ASSUME NEW e \in Emails, Signup(c, e)
        PROVE  PInv'
    BY <2>1, SignupPassword
  <2>2. ASSUME NEW e \in Emails, OpenLink(c, e)
        PROVE  PInv'
    BY <2>2, OneCall, PasswordQuiet DEF OpenLink, Begin, EndsOr, HasRow, tables, mail,
       history
  <2>3. ASSUME NEW e \in Emails, Callback(c, e)
        PROVE  PInv'
    BY <2>3, CallbackBegins, PasswordQuiet DEF Callback, EndsOr, HasRow, tables, mail
  <2>4. ASSUME NEW e \in Emails, RequestReset(c, e)
        PROVE  PInv'
    BY <2>4, OneCall, PasswordQuiet DEF RequestReset, Begin, EndsOr, HasRow, tables, mail,
       history
  <2>5. ASSUME NEW e \in Emails, Change(c, e)
        PROVE  PInv'
    BY <2>5, ChangePassword
  <2>6. ASSUME NEW e \in Emails, NEW p \in 1..passwords, Login(c, e, p)
        PROVE  PInv'
    BY <2>6, LoginPassword
  <2>7. ASSUME NEW e \in Emails, NEW t \in 1..tokens, Reset(c, e, t)
        PROVE  PInv'
    BY <2>7, ResetPassword
  <2>8. ASSUME NEW k \in ApiKeys, UseKey(c, k)
        PROVE  PInv'
    BY <2>8, OneCall, PasswordQuiet DEF UseKey, Begin, EndsOr, HasRow, tables, mail, history
  <2> QED
    BY <1>1, <2>1, <2>2, <2>3, <2>4, <2>5, <2>6, <2>7, <2>8 DEF Request
<1>2. ASSUME NEW c \in Callers, RequestStep(c)
      PROVE  PInv'
  <2>1. CASE SignupLooksUp(c)
    BY <2>1, SignupLooksUpPassword
  <2>2. CASE SignupCreates(c)
    BY <2>2, SignupCreatesPassword
  <2>3. CASE SignupInserts(c)
    BY <2>3, SignupInsertsPassword
  <2>4. CASE VerifyMarks(c)
    BY <2>4, GoEnds, MarkEffect, PasswordQuiet DEF VerifyMarks, OnlyRow, OnlyUser, HasRow,
       tables, mail, history
  <2>5. CASE VerifyFollows(c)
    BY <2>5, ReturnEnds, FollowEffect, PasswordQuiet DEF VerifyFollows, OnlyRow, OnlyUser,
       HasRow, tables, mail, history
  <2>6. CASE CallbackSyncs(c)
    BY <2>6, ReturnEnds, SyncEffect, PasswordQuiet DEF CallbackSyncs, OnlyRow, OnlyUser,
       HasRow, tables, mail, history
  <2>7. CASE LoginChecks(c)
    BY <2>7, ReturnEnds, PasswordQuiet DEF LoginChecks, HasRow, tables, mail, history
  <2>8. CASE ResetIsMailed(c)
    BY <2>8, ReturnEnds, TokenEffect, PasswordQuiet DEF ResetIsMailed, OnlyRow, OnlyUser,
       HasRow, tables, mail, history
  <2>9. CASE ResetWrites(c)
    BY <2>9, ResetWritesPassword
  <2>10. CASE ChangeWrites(c)
    BY <2>10, ChangeWritesPassword
  <2>11. CASE KeyServes(c)
    BY <2>11, ReturnEnds, PasswordQuiet DEF KeyServes, HasRow, tables, mail, history
  <2> QED
    BY <1>2, <2>1, <2>2, <2>3, <2>4, <2>5, <2>6, <2>7, <2>8, <2>9, <2>10, <2>11
       DEF RequestStep
<1>3. ASSUME NEW e \in Emails, SendVerification(e)
      PROVE  PInv'
  BY <1>3, ReturnEnds, PasswordQuiet DEF SendVerification, HasRow, tables, mail, history
<1>4. ASSUME NEW e \in Emails, Resend(e)
      PROVE  PInv'
  BY <1>4, ReturnEnds, PasswordQuiet DEF Resend, HasRow, tables, mail, history
<1>5. ASSUME NEW e \in Emails, KcRegister(e)
      PROVE  PInv'
  BY <1>5, ReturnEnds, PasswordQuiet DEF KcRegister, HasRow, tables, mail, history
<1>6. ASSUME NEW e \in Emails, KcVerify(e)
      PROVE  PInv'
  BY <1>6, ReturnEnds, PasswordQuiet DEF KcVerify, HasRow, tables, mail, history
<1>7. ASSUME NEW e \in Emails, NEW k \in ApiKeys, CreateKey(e, k)
      PROVE  PInv'
  BY <1>7, ReturnEnds, PasswordQuiet DEF CreateKey, HasRow, tables, mail, history
<1>8. ASSUME NEW e \in Emails, NEW k \in ApiKeys, RevokeKey(e, k)
      PROVE  PInv'
  BY <1>8, ReturnEnds, PasswordQuiet DEF RevokeKey, HasRow, tables, mail, history
<1>9. CASE Crash
  BY <1>9, CrashPassword
<1>10. CASE UNCHANGED vars
  <2>1. UNCHANGED <<tables, call, mail, sessions, passwords, tokens, history>>
    BY <1>10 DEF vars
  <2>2. EndsOr("none")
    BY <2>1, ReturnEnds
  <2> QED
    BY <2>1, <2>2, PasswordQuiet DEF HasRow, tables, mail, history
<1> QED
  BY <1>1, <1>2, <1>3, <1>4, <1>5, <1>6, <1>7, <1>8, <1>9, <1>10 DEF Next

\* A password that was replaced never logs in again.
THEOREM ReplacedPasswordsStayOut == Spec => []PasswordsNeverReturn
<1>1. Init => TypeOK /\ Backed /\ PInv
  BY InitTyped, PasswordInitially
<1>2. TypeOK /\ Backed /\ PInv /\ [Next]_vars => TypeOK' /\ Backed' /\ PInv'
  BY NextTyped, PasswordNext
<1>3. PInv => PasswordsNeverReturn
  BY DEF PInv
<1> QED
  BY <1>1, <1>2, <1>3, PTL DEF Spec

(***************************************************************************)
(* A reset link works once.                                                 *)
(***************************************************************************)
\* A token on its way to a row was never mailed, a row holds one that was, and it is
\* of one row only, also while a reset with it is under way.
LInv ==
  /\ ResetLinkOnce
  /\ used \subseteq resetMails
  /\ \A e \in Emails : HasRow(e) => users[e].token = 0 \/ users[e].token \in resetMails
  /\ \A c \in Callers : At(c, "token") => call[c].token \notin resetMails
  /\ \A c, d \in Callers : c # d /\ At(c, "token") /\ At(d, "token") =>
                             call[c].token # call[d].token
  /\ \A c \in Callers : At(c, "reset") => call[c].token \in resetMails
  /\ \A e, f \in Emails : e # f /\ HasRow(e) /\ HasRow(f) /\ users[e].token = users[f].token
                            => users[e].token = 0
  /\ \A c \in Callers, f \in Emails :
       At(c, "reset") /\ HasRow(f) /\ f # call[c].email => users[f].token # call[c].token

\* A step that hands out no token and uses none.
LEMMA LinkQuiet ==
  ASSUME TypeOK, Backed, LInv, NEW s, EndsOr(s), s \notin {"token", "reset"},
         \A e \in Emails : users'[e] # None => \/ HasRow(e) /\ users'[e].token = users[e].token
                                               \/ ~HasRow(e) /\ users'[e].token = 0,
         resetMails' = resetMails, used' = used
  PROVE  LInv'
<1>1. \A c \in Callers : /\ At(c, "token")' => At(c, "token") /\ call'[c] = call[c]
                         /\ At(c, "reset")' => At(c, "reset") /\ call'[c] = call[c]
  BY DEF EndsOr, At, Idle
<1>2. 0 \notin resetMails /\ 0 \notin used
  BY DEF TypeOK
<1>3. ResetLinkOnce'
  BY <1>1, <1>2 DEF LInv, ResetLinkOnce, HasRow
<1>4. \A e \in Emails : users'[e] # None =>
        users'[e].token = 0 \/ users'[e].token \in resetMails'
  BY DEF LInv
<1>5. \A e, f \in Emails :
        e # f /\ users'[e] # None /\ users'[f] # None /\ users'[e].token = users'[f].token
          => users'[e].token = 0
  BY DEF LInv
<1>6. \A c \in Callers, f \in Emails :
        At(c, "reset")' /\ users'[f] # None /\ f # call'[c].email =>
          users'[f].token # call'[c].token
  BY <1>1, <1>2 DEF LInv
<1> QED
  BY <1>1, <1>3, <1>4, <1>5, <1>6 DEF LInv, HasRow

\* requestPasswordReset starts.
LEMMA RequestResetLink ==
  ASSUME TypeOK, Backed, LInv, NEW c \in Callers, NEW e \in Emails, RequestReset(c, e)
  PROVE  LInv'
<1>1. /\ call'[c].at = "token" /\ call'[c].token = tokens + 1
      /\ \A d \in Callers \ {c} : call'[d] = call[d]
  BY DEF RequestReset, Begin, TypeOK
<1>2. \A d \in Callers \ {c} : /\ At(d, "token")' = At(d, "token")
                               /\ At(d, "reset")' = At(d, "reset")
  BY <1>1 DEF At
<1>3. ~At(c, "reset")'
  BY <1>1 DEF At
<1>4. /\ resetMails \subseteq 1..tokens /\ tokens \in Nat
      /\ \A d \in Callers : At(d, "token") => call[d].token \in 1..tokens
  BY AccountsAssumption DEF TypeOK, Backed, BackedCall
<1>5. tokens + 1 \notin 1..tokens
  BY <1>4
<1>6. users' = users /\ resetMails' = resetMails /\ used' = used
  BY DEF RequestReset, tables, mail, history
<1>7. ResetLinkOnce'
  BY <1>1, <1>2, <1>3, <1>6 DEF LInv, ResetLinkOnce, HasRow
<1>8. \A d \in Callers : At(d, "token")' => call'[d].token \notin resetMails'
  BY <1>1, <1>2, <1>4, <1>5, <1>6 DEF LInv
<1>9. \A a, b \in Callers : a # b /\ At(a, "token")' /\ At(b, "token")' =>
                              call'[a].token # call'[b].token
  BY <1>1, <1>2, <1>4, <1>5 DEF LInv
<1> QED
  BY <1>1, <1>2, <1>3, <1>6, <1>7, <1>8, <1>9 DEF LInv, HasRow

\* The end of requestPasswordReset.
LEMMA ResetIsMailedLink ==
  ASSUME TypeOK, Backed, LInv, NEW c \in Callers, ResetIsMailed(c)
  PROVE  LInv'
<1>1. /\ At(c, "token") /\ call[c].token \notin resetMails /\ call[c].token \in 1..tokens
      /\ call'[c] = None /\ \A d \in Callers \ {c} : call'[d] = call[d]
  BY TokenEffect, Returns DEF LInv, ResetIsMailed, Backed, BackedCall
<1>2. \A d \in Callers : /\ At(d, "token")' => d # c /\ At(d, "token") /\ call'[d] = call[d]
                         /\ At(d, "reset")' => d # c /\ At(d, "reset") /\ call'[d] = call[d]
  BY <1>1 DEF At, Idle
<1>3. PICK e \in Emails : e = call[c].email
  BY TokenEffect
<1>4. /\ HasRow(e) /\ \A f \in Emails \ {e} : users'[f] = users[f]
      /\ users'[e] = users[e] \/ users'[e].token = call[c].token
  BY <1>3, TokenEffect DEF OnlyRow
<1>5. resetMails' = resetMails \cup {call[c].token} /\ used' = used
  BY DEF ResetIsMailed, history
<1>6. call[c].token \notin used /\ call[c].token # 0
  BY <1>1 DEF LInv
<1>7. ResetLinkOnce'
  BY <1>2, <1>4, <1>5, <1>6 DEF LInv, ResetLinkOnce, HasRow
<1>8. \A f \in Emails : users'[f] # None =>
        users'[f].token = 0 \/ users'[f].token \in resetMails'
  BY <1>4, <1>5 DEF LInv, HasRow
<1>9. \A d \in Callers : At(d, "token")' => call'[d].token \notin resetMails'
  BY <1>1, <1>2, <1>5 DEF LInv
<1>10. \A f, g \in Emails :
         f # g /\ users'[f] # None /\ users'[g] # None /\ users'[f].token = users'[g].token
           => users'[f].token = 0
  BY <1>1, <1>4 DEF LInv, HasRow
<1>11. \A d \in Callers, f \in Emails :
         At(d, "reset")' /\ users'[f] # None /\ f # call'[d].email =>
           users'[f].token # call'[d].token
  BY <1>1, <1>2, <1>4 DEF LInv, HasRow
<1> QED
  BY <1>2, <1>5, <1>7, <1>8, <1>9, <1>10, <1>11 DEF LInv, HasRow

\* resetPassword's look-up.
LEMMA ResetLink ==
  ASSUME TypeOK, Backed, LInv, NEW c \in Callers, NEW e \in Emails, NEW t \in 1..tokens,
         Reset(c, e, t)
  PROVE  LInv'
<1>1. /\ call'[c].at = "reset" /\ call'[c].token = t /\ call'[c].email = e
      /\ call'[c].since = used /\ \A d \in Callers \ {c} : call'[d] = call[d]
  BY DEF Reset, Begin, TypeOK
<1>2. \A d \in Callers \ {c} : /\ At(d, "token")' = At(d, "token")
                               /\ At(d, "reset")' = At(d, "reset")
  BY <1>1 DEF At
<1>3. ~At(c, "token")'
  BY <1>1 DEF At
<1>4. /\ users' = users /\ resetMails' = resetMails /\ used' = used
      /\ HasRow(e) /\ users[e].token = t /\ t \in resetMails
  BY DEF Reset, tables, mail, history
<1>5. t \notin used /\ t # 0
  BY <1>4 DEF LInv, ResetLinkOnce
<1>6. ResetLinkOnce'
  BY <1>1, <1>2, <1>4, <1>5 DEF LInv, ResetLinkOnce, HasRow
<1>7. \A f \in Emails \ {e} : HasRow(f) => users[f].token # t
  BY <1>4, <1>5 DEF LInv
<1>8. \A d \in Callers, f \in Emails :
        At(d, "reset")' /\ users'[f] # None /\ f # call'[d].email =>
          users'[f].token # call'[d].token
  BY <1>1, <1>2, <1>4, <1>7 DEF LInv, HasRow
<1>9. \A d \in Callers : At(d, "reset")' => call'[d].token \in resetMails'
  BY <1>1, <1>2, <1>4 DEF LInv
<1> QED
  BY <1>1, <1>2, <1>3, <1>4, <1>6, <1>8, <1>9 DEF LInv, HasRow

\* resetPassword's UPDATE.
LEMMA ResetWritesLink ==
  ASSUME TypeOK, Backed, LInv, NEW c \in Callers, ResetWrites(c)
  PROVE  LInv'
<1>1. CASE users' = users /\ retired' = retired /\ used' = used
  <2>1. EndsOr("none")
    BY ReturnEnds DEF ResetWrites
  <2> QED
    BY <1>1, <2>1, LinkQuiet DEF HasRow, ResetWrites, mail
<1>2. CASE ~(users' = users /\ retired' = retired /\ used' = used)
  <2>1. At(c, "reset") /\ call'[c] = None /\ \A d \in Callers \ {c} : call'[d] = call[d]
    BY ResetEffect, Returns DEF ResetWrites
  <2>2. \A d \in Callers : /\ At(d, "token")' => d # c /\ At(d, "token") /\ call'[d] = call[d]
                           /\ At(d, "reset")' => d # c /\ At(d, "reset") /\ call'[d] = call[d]
    BY <2>1 DEF At, Idle
  <2>3. PICK e \in Emails : e = call[c].email
    BY ResetEffect
  <2>4. /\ HasRow(e) /\ users'[e].token = 0
        /\ \A f \in Emails \ {e} : users'[f] = users[f]
        /\ used' = used \cup {call[c].token} /\ resetMails' = resetMails
    BY <1>2, <2>3, ResetEffect DEF OnlyRow, ResetWrites, mail
  <2>5. call[c].token \in resetMails /\ 0 \notin resetMails
    BY <2>1 DEF LInv, TypeOK
  <2>6. \A f \in Emails : users'[f] # None => users'[f].token \notin used'
    <3>1. 0 \notin used'
      BY <2>4, <2>5 DEF LInv
    <3>2. \A f \in Emails \ {e} : HasRow(f) => users[f].token # call[c].token
      BY <2>1, <2>3 DEF LInv
    <3> QED
      BY <2>4, <3>1, <3>2 DEF LInv, ResetLinkOnce, HasRow
  <2>7. ResetLinkOnce'
    BY <2>2, <2>6 DEF LInv, ResetLinkOnce, HasRow
  <2>8. \A f, g \in Emails :
          f # g /\ users'[f] # None /\ users'[g] # None /\ users'[f].token = users'[g].token
            => users'[f].token = 0
    BY <2>4 DEF LInv, HasRow
  <2>9. \A d \in Callers, f \in Emails :
          At(d, "reset")' /\ users'[f] # None /\ f # call'[d].email =>
            users'[f].token # call'[d].token
    BY <2>2, <2>4, <2>5 DEF LInv, HasRow
  <2> QED
    BY <2>2, <2>4, <2>5, <2>7, <2>8, <2>9 DEF LInv, HasRow
<1> QED
  BY <1>1, <1>2

\* LInv holds at the start.
LEMMA LinkInitially ==
  ASSUME Init
  PROVE  LInv
BY DEF Init, LInv, ResetLinkOnce, HasRow, At, Idle

\* Every step keeps LInv.
LEMMA LinkNext ==
  ASSUME TypeOK, Backed, LInv, [Next]_vars
  PROVE  LInv'
<1>1. ASSUME NEW c \in Callers, Request(c)
      PROVE  LInv'
  <2>1. ASSUME NEW e \in Emails, Signup(c, e)
        PROVE  LInv'
    BY <2>1, OneCall, LinkQuiet DEF Signup, Begin, EndsOr, HasRow, tables, mail, history
  <2>2. ASSUME NEW e \in Emails, OpenLink(c, e)
        PROVE  LInv'
    BY <2>2, OneCall, LinkQuiet DEF OpenLink, Begin, EndsOr, HasRow, tables, mail, history
  <2>3. ASSUME NEW e \in Emails, Callback(c, e)
        PROVE  LInv'
    BY <2>3, CallbackBegins, LinkQuiet DEF Callback, EndsOr, HasRow, tables, mail
  <2>4. ASSUME NEW e \in Emails, RequestReset(c, e)
        PROVE  LInv'
    BY <2>4, RequestResetLink
  <2>5. ASSUME NEW e \in Emails, Change(c, e)
        PROVE  LInv'
    BY <2>5, OneCall, LinkQuiet DEF Change, Begin, EndsOr, HasRow, tables, mail, history
  <2>6. ASSUME NEW e \in Emails, NEW p \in 1..passwords, Login(c, e, p)
        PROVE  LInv'
    BY <2>6, OneCall, LinkQuiet DEF Login, Begin, EndsOr, HasRow, tables, mail, history
  <2>7. ASSUME NEW e \in Emails, NEW t \in 1..tokens, Reset(c, e, t)
        PROVE  LInv'
    BY <2>7, ResetLink
  <2>8. ASSUME NEW k \in ApiKeys, UseKey(c, k)
        PROVE  LInv'
    BY <2>8, OneCall, LinkQuiet DEF UseKey, Begin, EndsOr, HasRow, tables, mail, history
  <2> QED
    BY <1>1, <2>1, <2>2, <2>3, <2>4, <2>5, <2>6, <2>7, <2>8 DEF Request
<1>2. ASSUME NEW c \in Callers, RequestStep(c)
      PROVE  LInv'
  <2>1. CASE SignupLooksUp(c)
    BY <2>1, GoEnds, LinkQuiet DEF SignupLooksUp, HasRow, tables, mail, history
  <2>2. CASE SignupCreates(c)
    BY <2>2, GoEnds, CreateEffect, LinkQuiet DEF SignupCreates, OnlyRow, OnlyUser, HasRow,
       tables, mail, history
  <2>3. CASE SignupInserts(c)
    BY <2>3, ReturnEnds, InsertEffect, LinkQuiet DEF SignupInserts, OnlyRow, OnlyUser,
       HasRow, tables, mail, history
  <2>4. CASE VerifyMarks(c)
    BY <2>4, GoEnds, MarkEffect, LinkQuiet DEF VerifyMarks, OnlyRow, OnlyUser, HasRow,
       tables, mail, history
  <2>5. CASE VerifyFollows(c)
    BY <2>5, ReturnEnds, FollowEffect, LinkQuiet DEF VerifyFollows, OnlyRow, OnlyUser,
       HasRow, tables, mail, history
  <2>6. CASE CallbackSyncs(c)
    <3>1. EndsOr("none") /\ resetMails' = resetMails /\ used' = used
      BY <2>6, ReturnEnds DEF CallbackSyncs, mail, history
    <3>2. \A e \in Emails : users'[e] # None =>
            \/ HasRow(e) /\ users'[e].token = users[e].token
            \/ ~HasRow(e) /\ users'[e].token = 0
      BY <2>6, SyncEffect DEF OnlyRow, HasRow
    <3> QED
      BY <3>1, <3>2, LinkQuiet
  <2>7. CASE LoginChecks(c)
    BY <2>7, ReturnEnds, LinkQuiet DEF LoginChecks, HasRow, tables, mail, history
  <2>8. CASE ResetIsMailed(c)
    BY <2>8, ResetIsMailedLink
  <2>9. CASE ResetWrites(c)
    BY <2>9, ResetWritesLink
  <2>10. CASE ChangeWrites(c)
    BY <2>10, ReturnEnds, ChangeEffect, LinkQuiet DEF ChangeWrites, OnlyRow, OnlyUser,
       HasRow, tables, mail, history
  <2>11. CASE KeyServes(c)
    BY <2>11, ReturnEnds, LinkQuiet DEF KeyServes, HasRow, tables, mail, history
  <2> QED
    BY <1>2, <2>1, <2>2, <2>3, <2>4, <2>5, <2>6, <2>7, <2>8, <2>9, <2>10, <2>11
       DEF RequestStep
<1>3. ASSUME NEW e \in Emails, SendVerification(e)
      PROVE  LInv'
  BY <1>3, ReturnEnds, LinkQuiet DEF SendVerification, HasRow, tables, mail, history
<1>4. ASSUME NEW e \in Emails, Resend(e)
      PROVE  LInv'
  BY <1>4, ReturnEnds, LinkQuiet DEF Resend, HasRow, tables, mail, history
<1>5. ASSUME NEW e \in Emails, KcRegister(e)
      PROVE  LInv'
  BY <1>5, ReturnEnds, LinkQuiet DEF KcRegister, HasRow, tables, mail, history
<1>6. ASSUME NEW e \in Emails, KcVerify(e)
      PROVE  LInv'
  BY <1>6, ReturnEnds, LinkQuiet DEF KcVerify, HasRow, tables, mail, history
<1>7. ASSUME NEW e \in Emails, NEW k \in ApiKeys, CreateKey(e, k)
      PROVE  LInv'
  BY <1>7, ReturnEnds, LinkQuiet DEF CreateKey, HasRow, tables, mail, history
<1>8. ASSUME NEW e \in Emails, NEW k \in ApiKeys, RevokeKey(e, k)
      PROVE  LInv'
  BY <1>8, ReturnEnds, LinkQuiet DEF RevokeKey, HasRow, tables, mail, history
<1>9. CASE Crash
  BY <1>9, ReturnEnds, LinkQuiet DEF Crash, HasRow, tables, mail, history
<1>10. CASE UNCHANGED vars
  <2>1. UNCHANGED <<tables, call, mail, sessions, passwords, tokens, history>>
    BY <1>10 DEF vars
  <2>2. EndsOr("none")
    BY <2>1, ReturnEnds
  <2> QED
    BY <2>1, <2>2, LinkQuiet DEF HasRow, tables, mail, history
<1> QED
  BY <1>1, <1>2, <1>3, <1>4, <1>5, <1>6, <1>7, <1>8, <1>9, <1>10 DEF Next

\* A reset link works once.
THEOREM ResetLinksWorkOnce == Spec => []ResetLinkOnce
<1>1. Init => TypeOK /\ Backed /\ LInv
  BY InitTyped, LinkInitially
<1>2. TypeOK /\ Backed /\ LInv /\ [Next]_vars => TypeOK' /\ Backed' /\ LInv'
  BY NextTyped, LinkNext
<1>3. LInv => ResetLinkOnce
  BY DEF LInv
<1> QED
  BY <1>1, <1>2, <1>3, PTL DEF Spec

(***************************************************************************)
(* Revoked keys are refused.                                                *)
(***************************************************************************)
\* Owners are told of keys that exist.
KInv ==
  /\ RevokedKeyRefused
  /\ \A k \in told : keys[k] # None

\* A step that revokes no key and lets nobody in.
LEMMA KeyQuiet ==
  ASSUME KInv, NEW s, EndsOr(s), s # "touch", keys' = keys, told' = told
  PROVE  KInv'
<1>1. \A c \in Callers : At(c, "touch")' => At(c, "touch") /\ call'[c] = call[c]
  BY DEF EndsOr, At, Idle
<1> QED
  BY <1>1 DEF KInv, RevokedKeyRefused

\* validateApiKey's look-up.
LEMMA UseKeyKey ==
  ASSUME TypeOK, Backed, KInv, NEW c \in Callers, NEW k \in ApiKeys, UseKey(c, k)
  PROVE  KInv'
<1>1. /\ call'[c].at = "touch" /\ call'[c].key = k /\ call'[c].since = told
      /\ \A d \in Callers \ {c} : call'[d] = call[d]
  BY DEF UseKey, Begin, TypeOK
<1>2. \A d \in Callers \ {c} : At(d, "touch")' = At(d, "touch")
  BY <1>1 DEF At
<1>3. k \notin told
  BY DEF UseKey, KInv, RevokedKeyRefused
<1> QED
  BY <1>1, <1>2, <1>3 DEF UseKey, KInv, RevokedKeyRefused, tables, history

\* createApiKey.
LEMMA CreateKeyKey ==
  ASSUME TypeOK, Backed, KInv, NEW e \in Emails, NEW k \in ApiKeys, CreateKey(e, k)
  PROVE  KInv'
<1>1. k \notin told /\ \A j \in ApiKeys \ {k} : keys'[j] = keys[j]
  BY DEF CreateKey, KInv, TypeOK
<1>2. told \subseteq ApiKeys
  BY DEF TypeOK
<1> QED
  BY <1>1, <1>2 DEF CreateKey, KInv, RevokedKeyRefused, history, At

\* revokeApiKey.
LEMMA RevokeKeyKey ==
  ASSUME TypeOK, Backed, KInv, NEW e \in Emails, NEW k \in ApiKeys, RevokeKey(e, k)
  PROVE  KInv'
<1>1. keys[k] \in Key /\ keys \in [ApiKeys -> Key \cup {None}] /\ told \subseteq ApiKeys
  BY DEF RevokeKey, TypeOK
<1>2. \/ keys' = keys /\ told' = told
      \/ keys' = [keys EXCEPT ![k].active = FALSE] /\ told' = told \cup {k}
  BY DEF RevokeKey
<1>3. CASE keys' = [keys EXCEPT ![k].active = FALSE] /\ told' = told \cup {k}
  <2>1. ~keys'[k].active /\ keys'[k] \in Key /\ \A j \in ApiKeys \ {k} : keys'[j] = keys[j]
    BY <1>1, <1>3 DEF Key
  <2>2. call' = call
    BY DEF RevokeKey
  <2> QED
    BY <1>1, <1>3, <2>1, <2>2, NoneIsNothing DEF KInv, RevokedKeyRefused, At
<1>4. CASE keys' = keys /\ told' = told
  BY <1>4 DEF RevokeKey, KInv, RevokedKeyRefused, At
<1> QED
  BY <1>2, <1>3, <1>4

\* KInv holds at the start.
LEMMA KeyInitially ==
  ASSUME Init
  PROVE  KInv
BY DEF Init, KInv, RevokedKeyRefused, At, Idle

\* Every step keeps KInv.
LEMMA KeyNext ==
  ASSUME TypeOK, Backed, KInv, [Next]_vars
  PROVE  KInv'
<1>1. ASSUME NEW c \in Callers, Request(c)
      PROVE  KInv'
  <2>1. ASSUME NEW e \in Emails, Signup(c, e)
        PROVE  KInv'
    BY <2>1, OneCall, KeyQuiet DEF Signup, Begin, EndsOr, HasRow, tables, mail, history
  <2>2. ASSUME NEW e \in Emails, OpenLink(c, e)
        PROVE  KInv'
    BY <2>2, OneCall, KeyQuiet DEF OpenLink, Begin, EndsOr, HasRow, tables, mail, history
  <2>3. ASSUME NEW e \in Emails, Callback(c, e)
        PROVE  KInv'
    BY <2>3, CallbackBegins, KeyQuiet DEF Callback, EndsOr, HasRow, tables, mail
  <2>4. ASSUME NEW e \in Emails, RequestReset(c, e)
        PROVE  KInv'
    BY <2>4, OneCall, KeyQuiet DEF RequestReset, Begin, EndsOr, HasRow, tables, mail,
       history
  <2>5. ASSUME NEW e \in Emails, Change(c, e)
        PROVE  KInv'
    BY <2>5, OneCall, KeyQuiet DEF Change, Begin, EndsOr, HasRow, tables, mail, history
  <2>6. ASSUME NEW e \in Emails, NEW p \in 1..passwords, Login(c, e, p)
        PROVE  KInv'
    BY <2>6, OneCall, KeyQuiet DEF Login, Begin, EndsOr, HasRow, tables, mail, history
  <2>7. ASSUME NEW e \in Emails, NEW t \in 1..tokens, Reset(c, e, t)
        PROVE  KInv'
    BY <2>7, OneCall, KeyQuiet DEF Reset, Begin, EndsOr, HasRow, tables, mail, history
  <2>8. ASSUME NEW k \in ApiKeys, UseKey(c, k)
        PROVE  KInv'
    BY <2>8, UseKeyKey
  <2> QED
    BY <1>1, <2>1, <2>2, <2>3, <2>4, <2>5, <2>6, <2>7, <2>8 DEF Request
<1>2. ASSUME NEW c \in Callers, RequestStep(c)
      PROVE  KInv'
  <2>1. CASE SignupLooksUp(c)
    BY <2>1, GoEnds, KeyQuiet DEF SignupLooksUp, HasRow, tables, mail, history
  <2>2. CASE SignupCreates(c)
    BY <2>2, GoEnds, CreateEffect, KeyQuiet DEF SignupCreates, OnlyRow, OnlyUser, HasRow,
       tables, mail, history
  <2>3. CASE SignupInserts(c)
    BY <2>3, ReturnEnds, InsertEffect, KeyQuiet DEF SignupInserts, OnlyRow, OnlyUser,
       HasRow, tables, mail, history
  <2>4. CASE VerifyMarks(c)
    BY <2>4, GoEnds, MarkEffect, KeyQuiet DEF VerifyMarks, OnlyRow, OnlyUser, HasRow,
       tables, mail, history
  <2>5. CASE VerifyFollows(c)
    BY <2>5, ReturnEnds, FollowEffect, KeyQuiet DEF VerifyFollows, OnlyRow, OnlyUser,
       HasRow, tables, mail, history
  <2>6. CASE CallbackSyncs(c)
    BY <2>6, ReturnEnds, SyncEffect, KeyQuiet DEF CallbackSyncs, OnlyRow, OnlyUser, HasRow,
       tables, mail, history
  <2>7. CASE LoginChecks(c)
    BY <2>7, ReturnEnds, KeyQuiet DEF LoginChecks, HasRow, tables, mail, history
  <2>8. CASE ResetIsMailed(c)
    BY <2>8, ReturnEnds, TokenEffect, KeyQuiet DEF ResetIsMailed, OnlyRow, OnlyUser,
       HasRow, tables, mail, history
  <2>9. CASE ResetWrites(c)
    BY <2>9, ReturnEnds, ResetEffect, KeyQuiet DEF ResetWrites, OnlyRow, OnlyUser, HasRow,
       tables, mail, history
  <2>10. CASE ChangeWrites(c)
    BY <2>10, ReturnEnds, ChangeEffect, KeyQuiet DEF ChangeWrites, OnlyRow, OnlyUser,
       HasRow, tables, mail, history
  <2>11. CASE KeyServes(c)
    BY <2>11, ReturnEnds, KeyQuiet DEF KeyServes, HasRow, tables, mail, history
  <2> QED
    BY <1>2, <2>1, <2>2, <2>3, <2>4, <2>5, <2>6, <2>7, <2>8, <2>9, <2>10, <2>11
       DEF RequestStep
<1>3. ASSUME NEW e \in Emails, SendVerification(e)
      PROVE  KInv'
  BY <1>3, ReturnEnds, KeyQuiet DEF SendVerification, HasRow, tables, mail, history
<1>4. ASSUME NEW e \in Emails, Resend(e)
      PROVE  KInv'
  BY <1>4, ReturnEnds, KeyQuiet DEF Resend, HasRow, tables, mail, history
<1>5. ASSUME NEW e \in Emails, KcRegister(e)
      PROVE  KInv'
  BY <1>5, ReturnEnds, KeyQuiet DEF KcRegister, HasRow, tables, mail, history
<1>6. ASSUME NEW e \in Emails, KcVerify(e)
      PROVE  KInv'
  BY <1>6, ReturnEnds, KeyQuiet DEF KcVerify, HasRow, tables, mail, history
<1>7. ASSUME NEW e \in Emails, NEW k \in ApiKeys, CreateKey(e, k)
      PROVE  KInv'
  BY <1>7, CreateKeyKey
<1>8. ASSUME NEW e \in Emails, NEW k \in ApiKeys, RevokeKey(e, k)
      PROVE  KInv'
  BY <1>8, RevokeKeyKey
<1>9. CASE Crash
  BY <1>9, ReturnEnds, KeyQuiet DEF Crash, HasRow, tables, mail, history
<1>10. CASE UNCHANGED vars
  <2>1. UNCHANGED <<tables, call, mail, sessions, passwords, tokens, history>>
    BY <1>10 DEF vars
  <2>2. EndsOr("none")
    BY <2>1, ReturnEnds
  <2> QED
    BY <2>1, <2>2, KeyQuiet DEF HasRow, tables, mail, history
<1> QED
  BY <1>1, <1>2, <1>3, <1>4, <1>5, <1>6, <1>7, <1>8, <1>9, <1>10 DEF Next

\* Once its owner was told that a key is revoked, no later request uses it.
THEOREM RevokedKeysAreRefused == Spec => []RevokedKeyRefused
<1>1. Init => TypeOK /\ Backed /\ KInv
  BY InitTyped, KeyInitially
<1>2. TypeOK /\ Backed /\ KInv /\ [Next]_vars => TypeOK' /\ Backed' /\ KInv'
  BY NextTyped, KeyNext
<1>3. KInv => RevokedKeyRefused
  BY DEF KInv
<1> QED
  BY <1>1, <1>2, <1>3, PTL DEF Spec

(***************************************************************************)
(* Two properties that hold unless something failed.  Rows and users of     *)
(* Keycloak stay (Stable), so only the calls that owe a step matter.        *)
(***************************************************************************)
\* The calls that are about to take the step s are not touched.
Keeps(s) == \A d \in Callers : At(d, s) => call'[d] = call[d]

\* A new request, in a place where no call was.
LEMMA BeginKeeps ==
  ASSUME TypeOK, NEW s, NEW c \in Callers, NEW r, call[c] = Idle, Begin(c, r)
  PROVE  Keeps(s)
BY OneCall DEF Begin, Keeps, At

\* A request that returns from another step.
LEMMA ReturnKeeps ==
  ASSUME TypeOK, NEW s, NEW c \in Callers, ~At(c, s), Return(c)
  PROVE  Keeps(s)
BY Returns DEF Keeps

\* A request that goes on from another step.
LEMMA GoKeeps ==
  ASSUME TypeOK, NEW s, NEW c \in Callers, ~At(c, s),
         SignupLooksUp(c) \/ SignupCreates(c) \/ VerifyMarks(c)
  PROVE  Keeps(s)
BY SignupStep, VerifyStep DEF Keeps

\* A step that creates nobody at Keycloak and ends no signup before its INSERT.
LEMMA StrandedQuiet ==
  ASSUME StrandedOnlyByFailure, Stable, Keeps("insert"), troubled \subseteq troubled',
         \A e \in Emails : keycloak'[e] # None /\ keycloak'[e].by # 0 => keycloak[e] # None
  PROVE  StrandedOnlyByFailure'
<1>1. \A e \in Emails : keycloak'[e] # None /\ keycloak'[e].by # 0 =>
        keycloak[e] # None /\ keycloak[e].by # 0
  BY DEF Stable
<1>2. \A c \in Callers : At(c, "insert") => At(c, "insert")' /\ call'[c].email = call[c].email
  BY DEF Keeps, At, Idle
<1> QED
  BY <1>1, <1>2 DEF StrandedOnlyByFailure, Stable, HasRow

\* The creation at Keycloak.
LEMMA SignupCreatesStranded ==
  ASSUME TypeOK, Backed, StrandedOnlyByFailure, NEW c \in Callers, SignupCreates(c)
  PROVE  StrandedOnlyByFailure'
<1>1. Stable
  BY SignupCreatesType
<1>2. Keeps("insert")
  BY GoKeeps DEF SignupCreates, At
<1>3. PICK e \in Emails : e = call[c].email
  BY CreateEffect
<1>4. \A f \in Emails \ {e} : keycloak'[f] = keycloak[f]
  BY <1>3, CreateEffect DEF OnlyUser
<1>5. At(c, "insert")' /\ call'[c].email = e
  BY <1>3, SignupStep, NoneIsNothing DEF SignupCreates, SignupLooksUp, At, Idle, Call
<1>6. \A d \in Callers : At(d, "insert") => At(d, "insert")' /\ call'[d].email = call[d].email
  BY <1>2 DEF Keeps, At, Idle
<1>7. \A f \in Emails \ {e} : keycloak'[f] # None /\ keycloak'[f].by # 0 =>
        keycloak[f] # None /\ keycloak[f].by # 0
  BY <1>4
<1>8. troubled \subseteq troubled'
  BY DEF SignupCreates, Note
<1> QED
  BY <1>1, <1>5, <1>6, <1>7, <1>8 DEF StrandedOnlyByFailure, Stable, HasRow

\* The INSERT of signupWithEmail.
LEMMA SignupInsertsStranded ==
  ASSUME TypeOK, Backed, StrandedOnlyByFailure, NEW c \in Callers, SignupInserts(c)
  PROVE  StrandedOnlyByFailure'
<1>1. Stable
  BY SignupInsertsType
<1>2. PICK e \in Emails : e = call[c].email
  BY InsertEffect
<1>3. users'[e] # None \/ e \in troubled'
  <2>1. PICK ok \in DbOk :
          /\ Note(e, ok)
          /\ ok /\ ~HasRow(e) => users' = [users EXCEPT ![e] =
               [linked |-> call[c].linked, verified |-> FALSE, pass |-> call[c].pass,
                token |-> 0, by |-> call[c].pass]]
    BY <1>2 DEF SignupInserts
  <2>2. [linked |-> call[c].linked, verified |-> FALSE, pass |-> call[c].pass, token |-> 0,
         by |-> call[c].pass] \in Row
    BY InsertEffect DEF SignupCall, Row
  <2>3. CASE ok /\ ~HasRow(e)
    BY <1>2, <2>1, <2>2, <2>3, NoneIsNothing DEF TypeOK
  <2>4. CASE HasRow(e)
    BY <1>1, <2>4 DEF Stable
  <2>5. CASE ~ok
    BY <2>1, <2>5 DEF Note
  <2> QED
    BY <2>3, <2>4, <2>5 DEF DbOk
<1>4. \A d \in Callers : At(d, "insert") /\ d # c =>
        At(d, "insert")' /\ call'[d].email = call[d].email
  BY Returns DEF SignupInserts, At, Idle
<1>5. troubled \subseteq troubled' /\ keycloak' = keycloak
  BY DEF SignupInserts, Note
<1> QED
  BY <1>1, <1>2, <1>3, <1>4, <1>5 DEF StrandedOnlyByFailure, Stable, HasRow

\* The end of verifyEmail.
LEMMA VerifyFollowsStranded ==
  ASSUME TypeOK, Backed, StrandedOnlyByFailure, NEW c \in Callers, VerifyFollows(c)
  PROVE  StrandedOnlyByFailure'
<1>1. Stable
  BY VerifyFollowsType
<1>2. Keeps("insert")
  BY ReturnKeeps DEF VerifyFollows, At
<1>3. PICK e \in Emails : e = call[c].email
  BY FollowEffect
<1>4. call[c].linked => keycloak[e] # None
  BY <1>3, FollowEffect DEF Backed, LinkedBySameSignup
<1>5. \A f \in Emails : keycloak'[f] # None => keycloak[f] # None
  BY <1>3, <1>4, FollowEffect DEF OnlyUser
<1> QED
  BY <1>1, <1>2, <1>5, StrandedQuiet DEF VerifyFollows, Note

\* A registration at Keycloak.
LEMMA KcRegisterStranded ==
  ASSUME TypeOK, Backed, StrandedOnlyByFailure, NEW e \in Emails, KcRegister(e)
  PROVE  StrandedOnlyByFailure'
<1>1. Stable
  BY KcRegisterType
<1>2. Keeps("insert")
  BY DEF Keeps, KcRegister
<1>3. \A f \in Emails : keycloak'[f] # None /\ keycloak'[f].by # 0 => keycloak[f] # None
  BY DEF KcRegister, TypeOK
<1> QED
  BY <1>1, <1>2, <1>3, StrandedQuiet DEF KcRegister, history

\* A verification at Keycloak.
LEMMA KcVerifyStranded ==
  ASSUME TypeOK, Backed, StrandedOnlyByFailure, NEW e \in Emails, KcVerify(e)
  PROVE  StrandedOnlyByFailure'
<1>1. Stable
  BY KcVerifyType
<1>2. Keeps("insert")
  BY DEF Keeps, KcVerify
<1>3. \A f \in Emails : keycloak'[f] # None => keycloak[f] # None
  BY DEF KcVerify, TypeOK, Backed, BackedSets
<1> QED
  BY <1>1, <1>2, <1>3, StrandedQuiet DEF KcVerify

\* The process stops.
LEMMA CrashStranded ==
  ASSUME TypeOK, Backed, StrandedOnlyByFailure, Crash
  PROVE  StrandedOnlyByFailure'
<1>1. /\ Stable /\ users' = users /\ keycloak' = keycloak
  BY CrashType DEF Crash, tables
<1>2. \A d \in Callers : At(d, "insert") => call[d].email \in troubled'
  BY DEF Crash
<1>3. troubled \subseteq troubled'
  BY DEF Crash
<1> QED
  BY <1>1, <1>2, <1>3 DEF StrandedOnlyByFailure, HasRow

\* StrandedOnlyByFailure holds at the start.
LEMMA StrandedInitially ==
  ASSUME Init
  PROVE  StrandedOnlyByFailure
BY DEF Init, StrandedOnlyByFailure

\* Every step keeps StrandedOnlyByFailure.
LEMMA StrandedNext ==
  ASSUME TypeOK, Backed, StrandedOnlyByFailure, [Next]_vars
  PROVE  StrandedOnlyByFailure'
<1>0. Stable
  BY NextTyped
<1>1. ASSUME NEW c \in Callers, Request(c)
      PROVE  StrandedOnlyByFailure'
  <2>1. ASSUME NEW e \in Emails, Signup(c, e)
        PROVE  StrandedOnlyByFailure'
    BY <2>1, <1>0, BeginKeeps, StrandedQuiet DEF Signup, HasRow, tables, mail, history
  <2>2. ASSUME NEW e \in Emails, OpenLink(c, e)
        PROVE  StrandedOnlyByFailure'
    BY <2>2, <1>0, BeginKeeps, StrandedQuiet DEF OpenLink, HasRow, tables, mail, history
  <2>3. ASSUME NEW e \in Emails, Callback(c, e)
        PROVE  StrandedOnlyByFailure'
    BY <2>3, <1>0, CallbackBegins, BeginKeeps, StrandedQuiet DEF Callback, HasRow, tables
  <2>4. ASSUME NEW e \in Emails, RequestReset(c, e)
        PROVE  StrandedOnlyByFailure'
    BY <2>4, <1>0, BeginKeeps, StrandedQuiet DEF RequestReset, HasRow, tables, mail, history
  <2>5. ASSUME NEW e \in Emails, Change(c, e)
        PROVE  StrandedOnlyByFailure'
    BY <2>5, <1>0, BeginKeeps, StrandedQuiet DEF Change, HasRow, tables, mail, history
  <2>6. ASSUME NEW e \in Emails, NEW p \in 1..passwords, Login(c, e, p)
        PROVE  StrandedOnlyByFailure'
    BY <2>6, <1>0, BeginKeeps, StrandedQuiet DEF Login, HasRow, tables, mail, history
  <2>7. ASSUME NEW e \in Emails, NEW t \in 1..tokens, Reset(c, e, t)
        PROVE  StrandedOnlyByFailure'
    BY <2>7, <1>0, BeginKeeps, StrandedQuiet DEF Reset, HasRow, tables, mail, history
  <2>8. ASSUME NEW k \in ApiKeys, UseKey(c, k)
        PROVE  StrandedOnlyByFailure'
    BY <2>8, <1>0, BeginKeeps, StrandedQuiet DEF UseKey, HasRow, tables, mail, history
  <2> QED
    BY <1>1, <2>1, <2>2, <2>3, <2>4, <2>5, <2>6, <2>7, <2>8 DEF Request
<1>2. ASSUME NEW c \in Callers, RequestStep(c)
      PROVE  StrandedOnlyByFailure'
  <2>1. CASE SignupLooksUp(c)
    BY <2>1, <1>0, GoKeeps, StrandedQuiet DEF SignupLooksUp, At, HasRow, tables, mail,
       history
  <2>2. CASE SignupCreates(c)
    BY <2>2, SignupCreatesStranded
  <2>3. CASE SignupInserts(c)
    BY <2>3, SignupInsertsStranded
  <2>4. CASE VerifyMarks(c)
    BY <2>4, <1>0, GoKeeps, MarkEffect, StrandedQuiet DEF VerifyMarks, At, OnlyRow, Note,
       HasRow, tables, mail, history
  <2>5. CASE VerifyFollows(c)
    BY <2>5, VerifyFollowsStranded
  <2>6. CASE CallbackSyncs(c)
    BY <2>6, <1>0, ReturnKeeps, SyncEffect, StrandedQuiet DEF CallbackSyncs, At, OnlyRow,
       Note, HasRow, tables, mail, history
  <2>7. CASE LoginChecks(c)
    BY <2>7, <1>0, ReturnKeeps, StrandedQuiet DEF LoginChecks, At, HasRow, tables, mail,
       history
  <2>8. CASE ResetIsMailed(c)
    BY <2>8, <1>0, ReturnKeeps, TokenEffect, StrandedQuiet DEF ResetIsMailed, At, OnlyRow,
       Note, HasRow, tables, mail, history
  <2>9. CASE ResetWrites(c)
    BY <2>9, <1>0, ReturnKeeps, ResetEffect, StrandedQuiet DEF ResetWrites, At, OnlyRow,
       Note, HasRow, tables, mail, history
  <2>10. CASE ChangeWrites(c)
    BY <2>10, <1>0, ReturnKeeps, ChangeEffect, StrandedQuiet DEF ChangeWrites, At, OnlyRow,
       Note, HasRow, tables, mail, history
  <2>11. CASE KeyServes(c)
    BY <2>11, <1>0, ReturnKeeps, StrandedQuiet DEF KeyServes, At, HasRow, tables, mail,
       history
  <2> QED
    BY <1>2, <2>1, <2>2, <2>3, <2>4, <2>5, <2>6, <2>7, <2>8, <2>9, <2>10, <2>11
       DEF RequestStep
<1>3. ASSUME NEW e \in Emails, SendVerification(e)
      PROVE  StrandedOnlyByFailure'
  BY <1>3, <1>0, StrandedQuiet DEF Keeps, SendVerification, Note, HasRow, tables, mail,
     history
<1>4. ASSUME NEW e \in Emails, Resend(e)
      PROVE  StrandedOnlyByFailure'
  BY <1>4, <1>0, StrandedQuiet DEF Keeps, Resend, HasRow, tables, mail, history
<1>5. ASSUME NEW e \in Emails, KcRegister(e)
      PROVE  StrandedOnlyByFailure'
  BY <1>5, KcRegisterStranded
<1>6. ASSUME NEW e \in Emails, KcVerify(e)
      PROVE  StrandedOnlyByFailure'
  BY <1>6, KcVerifyStranded
<1>7. ASSUME NEW e \in Emails, NEW k \in ApiKeys, CreateKey(e, k)
      PROVE  StrandedOnlyByFailure'
  BY <1>7, <1>0, StrandedQuiet DEF Keeps, CreateKey, HasRow, tables, mail, history
<1>8. ASSUME NEW e \in Emails, NEW k \in ApiKeys, RevokeKey(e, k)
      PROVE  StrandedOnlyByFailure'
  BY <1>8, <1>0, StrandedQuiet DEF Keeps, RevokeKey, HasRow, tables, mail, history
<1>9. CASE Crash
  BY <1>9, CrashStranded
<1>10. CASE UNCHANGED vars
  <2>1. UNCHANGED <<tables, call, mail, sessions, passwords, tokens, history>>
    BY <1>10 DEF vars
  <2> QED
    BY <2>1 DEF StrandedOnlyByFailure, HasRow, At, tables, history
<1> QED
  BY <1>1, <1>2, <1>3, <1>4, <1>5, <1>6, <1>7, <1>8, <1>9, <1>10 DEF Next

\* An address that a signup created at Keycloak has a row, or will, unless something failed.
THEOREM StrandedByFailures == Spec => []StrandedOnlyByFailure
<1>1. Init => TypeOK /\ Backed /\ StrandedOnlyByFailure
  BY InitTyped, StrandedInitially
<1>2. TypeOK /\ Backed /\ StrandedOnlyByFailure /\ [Next]_vars =>
        TypeOK' /\ Backed' /\ StrandedOnlyByFailure'
  BY NextTyped, StrandedNext
<1> QED
  BY <1>1, <1>2, PTL DEF Spec

\* What has opened a link has a row, or it was the link of Keycloak.
FInv ==
  /\ KeycloakFollows
  /\ \A e \in proved : HasRow(e) \/ (keycloak[e] # None /\ keycloak[e].verified)

\* A verifyEmail is under way for the address.
Verifying(e) == \E c \in Callers : (At(c, "mark") \/ At(c, "follow")) /\ call[c].email = e

\* A step that starts a verifyEmail, or makes Keycloak verify, for an address whose
\* owner has just opened a link, and after which a verifyEmail goes on, has failed
\* or has made Keycloak follow.
LEMMA FollowedStep ==
  ASSUME TypeOK, Backed, FInv, Stable, troubled \subseteq troubled', proved' \subseteq Emails,
         \A e \in proved' \ proved :
            \/ users'[e] # None /\ Verifying(e)'
            \/ keycloak'[e] # None /\ keycloak'[e].verified,
         \A e \in Emails : Verifying(e) =>
            \/ Verifying(e)'
            \/ e \in troubled'
            \/ users'[e].linked => keycloak'[e].verified
  PROVE  FInv'
<1>1. ASSUME NEW e \in Emails, users'[e] # None, users'[e].linked,
             e \in proved' \ troubled', ~Verifying(e)'
      PROVE  keycloak'[e].verified
  <2>1. CASE e \notin proved \/ Verifying(e)
    BY <1>1, <2>1
  <2>2. CASE e \in proved /\ ~HasRow(e)
    BY <1>1, <2>2 DEF FInv, Stable
  <2>3. CASE e \in proved /\ HasRow(e) /\ ~Verifying(e)
    <3>1. users[e].linked /\ keycloak[e] # None
      BY <1>1, <2>3 DEF Stable, Backed, LinkedBySameSignup
    <3>2. keycloak[e].verified
      BY <1>1, <2>3, <3>1 DEF FInv, KeycloakFollows, Verifying
    <3> QED
      BY <3>1, <3>2 DEF Stable
  <2> QED
    BY <2>1, <2>2, <2>3
<1>2. KeycloakFollows'
  BY <1>1 DEF KeycloakFollows, HasRow, Verifying
<1>3. \A e \in proved' : users'[e] # None \/ (keycloak'[e] # None /\ keycloak'[e].verified)
  BY DEF FInv, Stable, HasRow
<1> QED
  BY <1>2, <1>3 DEF FInv, HasRow

\* A step that opens no link and leaves every verifyEmail as it was.
LEMMA FollowedQuiet ==
  ASSUME TypeOK, Backed, FInv, Stable, Keeps("mark"), Keeps("follow"),
         troubled \subseteq troubled', proved' = proved
  PROVE  FInv'
<1>1. \A e \in Emails : Verifying(e) => Verifying(e)'
  BY DEF Keeps, Verifying, At, Idle
<1>2. proved' \subseteq Emails
  BY DEF TypeOK
<1> QED
  BY <1>1, <1>2, FollowedStep

\* verifyEmail's look-up.
LEMMA OpenLinkFollowed ==
  ASSUME TypeOK, Backed, FInv, NEW c \in Callers, NEW e \in Emails, OpenLink(c, e)
  PROVE  FInv'
<1>1. Stable /\ proved' \subseteq Emails
  BY OpenLinkType DEF TypeOK
<1>2. call'[c] # None /\ call'[c].at = "mark" /\ call'[c].email = e
  BY OneCall, NewCalls, NoneIsNothing DEF OpenLink, Begin, TypeOK, HasRow, Row
<1>3. users'[e] # None /\ Verifying(e)'
  BY <1>2 DEF Verifying, At, Idle, OpenLink, HasRow, tables
<1>4. Keeps("mark") /\ Keeps("follow")
  BY BeginKeeps DEF OpenLink
<1>5. \A f \in Emails : Verifying(f) => Verifying(f)'
  BY <1>4 DEF Keeps, Verifying, At, Idle
<1>6. proved' \ proved \subseteq {e} /\ troubled' = troubled
  BY DEF OpenLink
<1> QED
  BY <1>1, <1>3, <1>5, <1>6, FollowedStep

\* verifyEmail's UPDATE.
LEMMA VerifyMarksFollowed ==
  ASSUME TypeOK, Backed, FInv, NEW c \in Callers, VerifyMarks(c)
  PROVE  FInv'
<1>1. Stable /\ troubled \subseteq troubled' /\ proved' = proved
  BY VerifyMarksType DEF VerifyMarks, Note
<1>2. PICK e \in Emails : e = call[c].email
  BY MarkEffect
<1>3. At(c, "follow")' /\ call'[c].email = e
  BY <1>2, VerifyStep, NoneIsNothing DEF At, Idle, Call
<1>4. \A d \in Callers \ {c} : call'[d] = call[d]
  BY VerifyStep
<1>5. \A f \in Emails : Verifying(f) => Verifying(f)'
  BY <1>2, <1>3, <1>4 DEF Verifying, At, Idle
<1>6. proved' \subseteq Emails
  BY <1>1 DEF TypeOK
<1> QED
  BY <1>1, <1>5, <1>6, FollowedStep

\* The end of verifyEmail.
LEMMA VerifyFollowsFollowed ==
  ASSUME TypeOK, Backed, FInv, NEW c \in Callers, VerifyFollows(c)
  PROVE  FInv'
<1>1. Stable /\ troubled \subseteq troubled' /\ users' = users /\ proved' = proved
  BY VerifyFollowsType DEF VerifyFollows, Note
<1>2. PICK e \in Emails : e = call[c].email
  BY FollowEffect
<1>3. e \in troubled' \/ (users'[e].linked => keycloak'[e].verified)
  BY <1>1, <1>2, FollowEffect
<1>4. \A d \in Callers \ {c} : call'[d] = call[d]
  BY Returns DEF VerifyFollows
<1>5. \A f \in Emails \ {e} : Verifying(f) => Verifying(f)'
  BY <1>2, <1>4 DEF Verifying, At, Idle
<1>6. proved' \subseteq Emails
  BY <1>1 DEF TypeOK
<1> QED
  BY <1>1, <1>3, <1>5, <1>6, FollowedStep

\* A verification at Keycloak.
LEMMA KcVerifyFollowed ==
  ASSUME TypeOK, Backed, FInv, NEW e \in Emails, KcVerify(e)
  PROVE  FInv'
<1>1. Stable /\ proved' \subseteq Emails
  BY KcVerifyType DEF TypeOK
<1>2. keycloak[e] \in KcUser /\ keycloak \in [Emails -> KcUser \cup {None}]
  BY DEF Backed, BackedSets, KcVerify, TypeOK
<1>3. keycloak'[e] # None /\ keycloak'[e].verified
  BY <1>2, VerifiedKcUser, NoneIsNothing DEF KcVerify
<1>4. \A f \in Emails : Verifying(f) => Verifying(f)'
  BY DEF Verifying, At, Idle, KcVerify
<1> QED
  BY <1>1, <1>3, <1>4, FollowedStep DEF KcVerify

\* The process stops.
LEMMA CrashFollowed ==
  ASSUME TypeOK, Backed, FInv, Crash
  PROVE  FInv'
<1>1. Stable /\ troubled \subseteq troubled' /\ proved' = proved
  BY CrashType DEF Crash
<1>2. \A d \in Callers : At(d, "mark") \/ At(d, "follow") => call[d].email \in troubled'
  BY DEF Crash
<1>3. \A f \in Emails : Verifying(f) => f \in troubled'
  BY <1>2 DEF Verifying
<1>4. proved' \subseteq Emails
  BY <1>1 DEF TypeOK
<1> QED
  BY <1>1, <1>3, <1>4, FollowedStep

\* FInv holds at the start.
LEMMA FollowedInitially ==
  ASSUME Init
  PROVE  FInv
BY DEF Init, FInv, KeycloakFollows, HasRow

\* Every step keeps FInv.
LEMMA FollowedNext ==
  ASSUME TypeOK, Backed, FInv, [Next]_vars
  PROVE  FInv'
<1>0. Stable
  BY NextTyped
<1>1. ASSUME NEW c \in Callers, Request(c)
      PROVE  FInv'
  <2>1. ASSUME NEW e \in Emails, Signup(c, e)
        PROVE  FInv'
    BY <2>1, <1>0, BeginKeeps, FollowedQuiet DEF Signup, HasRow, tables, mail, history
  <2>2. ASSUME NEW e \in Emails, OpenLink(c, e)
        PROVE  FInv'
    BY <2>2, OpenLinkFollowed
  <2>3. ASSUME NEW e \in Emails, Callback(c, e)
        PROVE  FInv'
    BY <2>3, <1>0, CallbackBegins, BeginKeeps, FollowedQuiet DEF Callback
  <2>4. ASSUME NEW e \in Emails, RequestReset(c, e)
        PROVE  FInv'
    BY <2>4, <1>0, BeginKeeps, FollowedQuiet DEF RequestReset, HasRow, tables, mail, history
  <2>5. ASSUME NEW e \in Emails, Change(c, e)
        PROVE  FInv'
    BY <2>5, <1>0, BeginKeeps, FollowedQuiet DEF Change, HasRow, tables, mail, history
  <2>6. ASSUME NEW e \in Emails, NEW p \in 1..passwords, Login(c, e, p)
        PROVE  FInv'
    BY <2>6, <1>0, BeginKeeps, FollowedQuiet DEF Login, HasRow, tables, mail, history
  <2>7. ASSUME NEW e \in Emails, NEW t \in 1..tokens, Reset(c, e, t)
        PROVE  FInv'
    BY <2>7, <1>0, BeginKeeps, FollowedQuiet DEF Reset, HasRow, tables, mail, history
  <2>8. ASSUME NEW k \in ApiKeys, UseKey(c, k)
        PROVE  FInv'
    BY <2>8, <1>0, BeginKeeps, FollowedQuiet DEF UseKey, HasRow, tables, mail, history
  <2> QED
    BY <1>1, <2>1, <2>2, <2>3, <2>4, <2>5, <2>6, <2>7, <2>8 DEF Request
<1>2. ASSUME NEW c \in Callers, RequestStep(c)
      PROVE  FInv'
  <2>1. CASE SignupLooksUp(c)
    BY <2>1, <1>0, GoKeeps, FollowedQuiet DEF SignupLooksUp, At, HasRow, tables, mail,
       history
  <2>2. CASE SignupCreates(c)
    BY <2>2, <1>0, GoKeeps, FollowedQuiet DEF SignupCreates, At, Note, HasRow,
       tables, mail, history
  <2>3. CASE SignupInserts(c)
    BY <2>3, <1>0, ReturnKeeps, FollowedQuiet DEF SignupInserts, At,
       Note, HasRow, tables, mail, history
  <2>4. CASE VerifyMarks(c)
    BY <2>4, VerifyMarksFollowed
  <2>5. CASE VerifyFollows(c)
    BY <2>5, VerifyFollowsFollowed
  <2>6. CASE CallbackSyncs(c)
    BY <2>6, <1>0, ReturnKeeps, FollowedQuiet DEF CallbackSyncs, At, history
  <2>7. CASE LoginChecks(c)
    BY <2>7, <1>0, ReturnKeeps, FollowedQuiet DEF LoginChecks, At, HasRow, tables, mail,
       history
  <2>8. CASE ResetIsMailed(c)
    BY <2>8, <1>0, ReturnKeeps, FollowedQuiet DEF ResetIsMailed, At,
       Note, HasRow, tables, mail, history
  <2>9. CASE ResetWrites(c)
    BY <2>9, <1>0, ReturnKeeps, FollowedQuiet DEF ResetWrites, At,
       Note, HasRow, tables, mail, history
  <2>10. CASE ChangeWrites(c)
    BY <2>10, <1>0, ReturnKeeps, FollowedQuiet DEF ChangeWrites, At,
       Note, HasRow, tables, mail, history
  <2>11. CASE KeyServes(c)
    BY <2>11, <1>0, ReturnKeeps, FollowedQuiet DEF KeyServes, At, HasRow, tables, mail,
       history
  <2> QED
    BY <1>2, <2>1, <2>2, <2>3, <2>4, <2>5, <2>6, <2>7, <2>8, <2>9, <2>10, <2>11
       DEF RequestStep
<1>3. ASSUME NEW e \in Emails, SendVerification(e)
      PROVE  FInv'
  BY <1>3, <1>0, FollowedQuiet DEF Keeps, SendVerification, Note, HasRow, tables, mail,
     history
<1>4. ASSUME NEW e \in Emails, Resend(e)
      PROVE  FInv'
  BY <1>4, <1>0, FollowedQuiet DEF Keeps, Resend, HasRow, tables, mail, history
<1>5. ASSUME NEW e \in Emails, KcRegister(e)
      PROVE  FInv'
  BY <1>5, <1>0, FollowedQuiet DEF Keeps, KcRegister, HasRow, tables, mail, history
<1>6. ASSUME NEW e \in Emails, KcVerify(e)
      PROVE  FInv'
  BY <1>6, KcVerifyFollowed
<1>7. ASSUME NEW e \in Emails, NEW k \in ApiKeys, CreateKey(e, k)
      PROVE  FInv'
  BY <1>7, <1>0, FollowedQuiet DEF Keeps, CreateKey, HasRow, tables, mail, history
<1>8. ASSUME NEW e \in Emails, NEW k \in ApiKeys, RevokeKey(e, k)
      PROVE  FInv'
  BY <1>8, <1>0, FollowedQuiet DEF Keeps, RevokeKey, HasRow, tables, mail, history
<1>9. CASE Crash
  BY <1>9, CrashFollowed
<1>10. CASE UNCHANGED vars
  <2>1. UNCHANGED <<tables, call, mail, sessions, passwords, tokens, history>>
    BY <1>10 DEF vars
  <2> QED
    BY <2>1 DEF FInv, KeycloakFollows, HasRow, At, tables, history
<1> QED
  BY <1>1, <1>2, <1>3, <1>4, <1>5, <1>6, <1>7, <1>8, <1>9, <1>10 DEF Next

\* Once its owner has opened a link, the Keycloak user of a row is verified too,
\* unless a call failed or the process stopped.
THEOREM KeycloakFollowsRows == Spec => []KeycloakFollows
<1>1. Init => TypeOK /\ Backed /\ FInv
  BY InitTyped, FollowedInitially
<1>2. TypeOK /\ Backed /\ FInv /\ [Next]_vars => TypeOK' /\ Backed' /\ FInv'
  BY NextTyped, FollowedNext
<1>3. FInv => KeycloakFollows
  BY DEF FInv
<1> QED
  BY <1>1, <1>2, <1>3, PTL DEF Spec

=============================================================================
