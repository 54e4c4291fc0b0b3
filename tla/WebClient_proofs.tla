-------------------------- MODULE WebClient_proofs --------------------------
(***************************************************************************)
(* Theorems about the three parts of the web client: the session that its  *)
(* tabs share (ClientSession), the page that follows a generation job      *)
(* (GeneratorClient) and the page of a project's settings                  *)
(* (ProjectSettings), for any number of accounts, tabs, jobs, sockets,     *)
(* projects and requests. The modules share no variable; the names of the  *)
(* second and third begin with a G or a P where they would clash.          *)
(*                                                                         *)
(* Session. Four facts carry the properties: tokens are held only after    *)
(* they were issued (Known), a store has a user and a token or neither     *)
(* (Whole), the tab of a submitted form has nobody (Forms), and the token  *)
(* of a callback is nowhere else yet (Unheld). Each has a lemma with a step*)
(* per action.                                                             *)
(*                                                                         *)
(* Generator. The page has one socket at most, the one in its ref, and that*)
(* is of the job its effects last ran with (OnlySocket).                   *)
(*                                                                         *)
(* Settings. Ids are never shared between projects (IdsApart), and the list*)
(* differs from the server's rows only by what is being deleted, unless a  *)
(* request is under way that will make it agree (Agrees).                  *)
(***************************************************************************)
EXTENDS ClientSession, GeneratorClient, ProjectSettings, TLAPS

(***************************************************************************)
(* The session of the client.                                              *)
(***************************************************************************)
\* localStorage as TypeOK has it.
Storage == [user : Accounts \cup {None}, token : Tokens \cup {None}, auth : Record]

USE DEF tab, server, history

\* Nobody holds a token that was not issued; only a form has none to send.
Known ==
  LET issued == DOMAIN owner \cup {None}
  IN  /\ storage.token \in issued /\ storage.auth.token \in issued
      /\ \A t \in Tabs : mem[t] \in issued /\ auth[t].token \in issued
      /\ \A c \in Calls : call[c] # None =>
           call[c].token \in (IF call[c].style = "login" THEN {None} ELSE DOMAIN owner)
      /\ gone \subseteq DOMAIN owner

\* What the server issues is a new token.
LEMMA Issued ==
  ASSUME TypeOK, NEW a \in Accounts, Issue(a)
  PROVE  /\ owner' \in Seq(Accounts) /\ Len(owner') <= MaxTokens
         /\ NewToken \in Tokens /\ NewToken \notin DOMAIN owner
         /\ DOMAIN owner' = DOMAIN owner \cup {NewToken}
         /\ owner' = Append(owner, a)
<1> USE ClientAssumption DEF TypeOK, Issue, NewToken, Tokens
<1>1. owner \in Seq(Accounts) /\ Len(owner) \in Nat /\ owner' = Append(owner, a)
  OBVIOUS
<1>2. owner' \in Seq(Accounts) /\ Len(owner') = Len(owner) + 1
  BY <1>1
<1>3. DOMAIN owner = 1..Len(owner) /\ DOMAIN owner' = 1..(Len(owner) + 1)
  BY <1>1, <1>2
<1>4. QED
  BY <1>1, <1>2, <1>3

\* A token that was issued belongs to somebody.
LEMMA Owned ==
  ASSUME TypeOK, NEW n \in DOMAIN owner
  PROVE  n \in Tokens /\ owner[n] \in Accounts
<1>1. owner \in Seq(Accounts) /\ DOMAIN owner = 1..Len(owner) /\ Len(owner) \in Nat
  BY DEF TypeOK
<1>2. QED
  BY <1>1, ClientAssumption DEF TypeOK, Tokens

\* None is no token.
LEMMA NoneHeld ==
  ASSUME TypeOK
  PROVE  None \notin Tokens /\ None \notin dead /\ None \notin gone
<1>1. None \notin Tokens
  BY ClientAssumption DEF Tokens
<1>2. QED
  BY <1>1 DEF TypeOK

\* The helpers return what their places may hold.
LEMMA HelpersTyped ==
  ASSUME TypeOK, NEW t \in Tabs
  PROVE  /\ AuthToken(t) \in Tokens \cup {None}
         /\ Remembered(t) \in [Tabs -> Tokens \cup {None}]
         /\ Healed(t) \in Storage
         /\ Cleared(storage) \in Storage /\ ClearedInPlace(storage) \in Storage
         /\ ClearedInPlace(Cleared(storage)) \in Storage
         /\ Without(t) \in [Calls -> Call \cup {None}]
<1> USE DEF TypeOK, Storage
<1>1. AuthToken(t) \in Tokens \cup {None}
  BY DEF AuthToken, Record
<1>2. Remembered(t) \in [Tabs -> Tokens \cup {None}]
  BY <1>1 DEF Remembered
<1>3. Healed(t) \in Storage
  BY DEF Healed, Record
<1>4. Without(t) \in [Calls -> Call \cup {None}]
  BY DEF Without
<1>5. Empty \in Storage
  BY DEF Empty, Nobody, Record
<1>6. ClearedInPlace(storage) \in Storage /\ ClearedInPlace(Empty) \in Storage
  BY <1>5 DEF ClearedInPlace
<1>7. QED
  BY <1>1, <1>2, <1>3, <1>4, <1>5, <1>6 DEF Cleared

\* A call that is under way has its fields, and keeps its tab and its style.
LEMMA CallsTyped ==
  ASSUME TypeOK, NEW c \in Calls, call[c] # None
  PROVE  /\ call[c].tab \in Tabs /\ call[c].style \in Styles \cup SignIns
         /\ call[c].at \in {"sent", "refresh", "retry"} /\ call[c].token \in Tokens \cup {None}
         /\ \A step \in {"sent", "refresh", "retry"}, n \in Tokens :
              MovedTo(c, step, n) \in [Calls -> Call \cup {None}]
<1>1. call[c] \in Call
  BY DEF TypeOK
<1>2. /\ call[c].tab \in Tabs /\ call[c].style \in Styles \cup SignIns
      /\ call[c].at \in {"sent", "refresh", "retry"} /\ call[c].token \in Tokens \cup {None}
  BY <1>1 DEF Call
<1>3. ASSUME NEW step \in {"sent", "refresh", "retry"}, NEW n \in Tokens
      PROVE  MovedTo(c, step, n) \in [Calls -> Call \cup {None}]
  BY <1>2 DEF MovedTo, TypeOK, Call
<1>4. QED
  BY <1>2, <1>3

\* Every step keeps the types.
LEMMA NextTyped == TypeOK /\ Known /\ [Next]_vars => TypeOK'
<1> SUFFICES ASSUME TypeOK /\ Known, [Next]_vars PROVE TypeOK'
  OBVIOUS
<1> USE ClientAssumption DEF TypeOK, Tokens, Nobody
<1>1. ASSUME NEW t \in Tabs, Load(t) PROVE TypeOK'
  <2> USE <1>1 DEF Record
  <2>1. call' \in [Calls -> Call \cup {None}] /\ ClearedInPlace(storage) \in Storage
    BY HelpersTyped DEF Load
  <2>2. QED
    BY <2>1 DEF Load, LoadPage, Storage
<1>2. ASSUME NEW t \in Tabs, SignOut(t) PROVE TypeOK'
  BY <1>2 DEF SignOut, Cleared, Empty, Record
<1>3. ASSUME NEW t \in Tabs, NEW c \in Calls, Login(t, c) PROVE TypeOK'
  BY <1>3 DEF Login, Persist, Record, Call, Styles, SignIns
<1>4. ASSUME NEW t \in Tabs, NEW a \in Accounts, NEW c \in Calls, Callback(t, a, c) PROVE TypeOK'
  <2> USE <1>4
  <2>1. owner' \in Seq(Accounts) /\ Len(owner') <= MaxTokens /\ NewToken \in Tokens
    BY Issued DEF Callback
  <2>2. Without(t) \in [Calls -> Call \cup {None}] /\ ClearedInPlace(storage) \in Storage
    BY HelpersTyped
  <2>3. [tab |-> t, style |-> "callback", at |-> "sent", token |-> NewToken] \in Call
    BY <2>1 DEF Call, SignIns
  <2>4. call' \in [Calls -> Call \cup {None}]
    BY <2>2, <2>3 DEF Callback
  <2>5. /\ storage' \in Storage /\ mem' \in [Tabs -> Tokens \cup {None}]
        /\ auth' \in [Tabs -> Record]
        /\ shown' \in [Tabs -> Accounts \cup {None}] /\ leaving' \in SUBSET Tabs
    BY <2>2 DEF Callback, LoadPage, Storage
  <2>6. QED
    BY <2>1, <2>4, <2>5 DEF Callback, Storage
<1>5. ASSUME NEW t \in Tabs, NEW style \in Styles, NEW c \in Calls, Send(t, style, c) PROVE TypeOK'
  <2> USE <1>5
  <2>1. AuthToken(t) \in Tokens \cup {None} /\ storage.token \in Tokens \cup {None}
    BY HelpersTyped
  <2>2. call' \in [Calls -> Call \cup {None}]
    BY <2>1 DEF Send, Call, Styles
  <2>3. storage' \in Storage /\ mem' \in [Tabs -> Tokens \cup {None}]
    BY HelpersTyped DEF Send, Storage
  <2>4. QED
    BY <2>2, <2>3 DEF Send, Storage
<1>6. ASSUME NEW c \in Calls, NEW a \in Accounts, LoginSucceeds(c, a) PROVE TypeOK'
  <2> USE <1>6
  <2>1. /\ owner' \in Seq(Accounts) /\ Len(owner') <= MaxTokens
        /\ NewToken \in Tokens /\ call[c].tab \in Tabs
    BY Issued, CallsTyped DEF LoginSucceeds
  <2>2. QED
    BY <2>1 DEF LoginSucceeds, SignedIn, Done, Record
<1>7. ASSUME NEW c \in Calls, LoginFails(c) PROVE TypeOK'
  BY <1>7, CallsTyped DEF LoginFails, Persist, Done, Record
<1>8. ASSUME NEW c \in Calls, CallbackSucceeds(c) PROVE TypeOK'
  <2> USE <1>8
  <2>1. call[c].tab \in Tabs /\ call[c].token \in Tokens /\ owner[call[c].token] \in Accounts
    BY Owned, CallsTyped DEF CallbackSucceeds, Live
  <2>2. QED
    BY <2>1 DEF CallbackSucceeds, SignedIn, Done, Record
<1>9. ASSUME NEW c \in Calls, CallbackFails(c) PROVE TypeOK'
  BY <1>9, HelpersTyped, CallsTyped DEF CallbackFails, Done, Storage
<1>10. ASSUME NEW c \in Calls, Answered(c) PROVE TypeOK'
  BY <1>10 DEF Answered, Done
<1>11. ASSUME NEW c \in Calls, Unauthorized(c) PROVE TypeOK'
  BY <1>11, HelpersTyped, CallsTyped DEF Unauthorized, At, Done, Storage
<1>12. ASSUME NEW c \in Calls, Refreshes(c) PROVE TypeOK'
  <2> USE <1>12
  <2>1. call[c].tab \in Tabs /\ call[c] # None
    BY CallsTyped DEF Refreshes, At
  <2>2. CASE AuthToken(call[c].tab) = None
    <3>1. storage' \in Storage /\ leaving' \in SUBSET Tabs /\ gone' \in SUBSET Tokens
      <4>1. auth[call[c].tab].token \in Tokens \cup {None}
        BY <2>1 DEF Record
      <4>2. GivesUp(c, storage)
        BY <2>2 DEF Refreshes
      <4>3. QED
        BY <2>1, <4>1, <4>2, HelpersTyped DEF GivesUp
    <3>2. call' \in [Calls -> Call \cup {None}] /\ mem' \in [Tabs -> Tokens \cup {None}]
      BY <2>1, <2>2 DEF Refreshes, Done
    <3>3. UNCHANGED <<auth, shown, server, over, twice>> /\ covered' = FALSE
      BY <2>1, <2>2 DEF Refreshes
    <3>4. QED
      BY <3>1, <3>2, <3>3 DEF Storage
  <2>3. CASE AuthToken(call[c].tab) # None
    <3>1. AuthToken(call[c].tab) \in Tokens
      BY <2>1, <2>3, HelpersTyped
    <3>3. call' \in [Calls -> Call \cup {None}]
      BY <2>1, <2>3, <3>1, CallsTyped DEF Refreshes
    <3>4. storage' \in Storage /\ mem' \in [Tabs -> Tokens \cup {None}]
      BY <2>1, <2>3, HelpersTyped DEF Refreshes
    <3>5. QED
      BY <2>3, <3>3, <3>4 DEF Refreshes, Storage
  <2>4. QED
    BY <2>2, <2>3
<1>13. ASSUME NEW c \in Calls, RefreshSucceeds(c) PROVE TypeOK'
  <2> USE <1>13
  <2>1. call[c].tab \in Tabs /\ call[c] # None /\ call[c].style \in Styles
    BY CallsTyped DEF RefreshSucceeds, At
  <2>2. owner[call[c].token] \in Accounts
    BY <2>1, Owned DEF RefreshSucceeds, Known, Styles
  <2>3. /\ owner' \in Seq(Accounts) /\ Len(owner') <= MaxTokens /\ NewToken \in Tokens
    BY <2>2, Issued DEF RefreshSucceeds
  <2>5. call' \in [Calls -> Call \cup {None}]
    BY <2>1, <2>3, CallsTyped DEF RefreshSucceeds
  <2>6. QED
    BY <2>1, <2>3, <2>5 DEF RefreshSucceeds
<1>14. ASSUME NEW c \in Calls, RefreshFails(c) PROVE TypeOK'
  <2> USE <1>14
  <2>1. call[c].tab \in Tabs
    BY CallsTyped DEF RefreshFails, At
  <2>2. storage' \in Storage /\ leaving' \in SUBSET Tabs /\ gone' \in SUBSET Tokens
    <3>1. auth[call[c].tab].token \in Tokens \cup {None}
      BY <2>1 DEF Record
    <3>2. QED
      BY <2>1, <3>1, HelpersTyped DEF RefreshFails, GivesUp, Cleared
  <2>3. call' \in [Calls -> Call \cup {None}] /\ mem' \in [Tabs -> Tokens \cup {None}]
    BY <2>1, <2>2 DEF RefreshFails, Done
  <2>4. UNCHANGED <<auth, shown, server, over, twice>> /\ covered' = FALSE
    BY DEF RefreshFails
  <2>5. QED
    BY <2>2, <2>3, <2>4 DEF Storage
<1>15. ASSUME NEW n \in Tokens, Expires(n) PROVE TypeOK'
  BY <1>15 DEF Expires, Live
<1>16. CASE UNCHANGED vars
  BY <1>16 DEF vars
<1>17. QED
  BY <1>1, <1>2, <1>3, <1>4, <1>5, <1>6, <1>7, <1>8, <1>9, <1>10, <1>11, <1>12, <1>13, <1>14, <1>15, <1>16
  DEF Next, Answer

-----------------------------------------------------------------------------
\* A session of the store has a user and a token, or neither.
Paired(s) == s.user = None <=> s.token = None
Whole == Paired(storage.auth) /\ \A t \in Tabs : Paired(auth[t])

Signing(c, style) == call[c] # None /\ call[c].style = style

\* While a form is submitted, nobody is signed in to its tab, which submits no other one.
Forms ==
  \A c \in Calls : Signing(c, "login") =>
    /\ ~twice => auth[call[c].tab] = Nobody
    /\ \A d \in Calls :
         /\ Signing(d, "login") /\ call[d].tab = call[c].tab => d = c
         /\ Signing(d, "callback") /\ call[d].tab = call[c].tab => twice

\* The token of a callback is nowhere else.
Unheld ==
  \A c \in Calls : Signing(c, "callback") =>
    /\ call[c].token \in DOMAIN owner \ gone
    /\ call[c].token # storage.token /\ call[c].token # storage.auth.token
    /\ \A t \in Tabs : call[c].token # mem[t] /\ call[c].token # auth[t].token
    /\ \A d \in Calls : Signing(d, "callback") /\ call[d].token = call[c].token => d = c

\* What the helpers do to the parts of their places.
LEMMA HelperFields ==
  ASSUME TypeOK, NEW t \in Tabs
  PROVE  /\ Healed(t).user = storage.user /\ Healed(t).auth = storage.auth
         /\ Healed(t).token \in {storage.token, storage.auth.token}
         /\ storage.token # None => Healed(t).token = storage.token
         /\ AuthToken(t) \in {mem[t], storage.token, storage.auth.token}
         /\ \A u \in Tabs : Remembered(t)[u] \in {mem[u], AuthToken(t)}
         /\ Cleared(storage) = Empty
         /\ ClearedInPlace(storage).user = None /\ ClearedInPlace(storage).token = None
         /\ ClearedInPlace(storage).auth = storage.auth
         /\ ClearedInPlace(Empty).user = None /\ ClearedInPlace(Empty).token = None
         /\ ClearedInPlace(Empty).auth = Nobody
  BY DEF TypeOK, Healed, AuthToken, Remembered, Cleared, ClearedInPlace, Empty

\* GivesUp leaves no user and no token, and the store of useAuthStore or none.
LEMMA GivenUp ==
  ASSUME TypeOK, NEW c \in Calls, call[c] # None,
         NEW s \in {storage, Cleared(storage)}, GivesUp(c, s)
  PROVE  /\ storage'.user = None /\ storage'.token = None
         /\ storage'.auth \in {s.auth, Nobody}
         /\ gone' = gone \/ gone' = gone \cup ({auth[call[c].tab].token} \ {None})
         /\ gone' = gone \/ storage'.auth = Nobody
<1>1. call[c].tab \in Tabs
  BY CallsTyped
<1>2. Empty.user = None /\ Empty.token = None /\ Empty.auth = Nobody
  BY DEF Empty
<1>3. /\ ClearedInPlace(s).user = None /\ ClearedInPlace(s).token = None
      /\ ClearedInPlace(s).auth = s.auth
  BY <1>1, <1>2, HelperFields
<1>4. QED
  BY <1>2, <1>3 DEF GivesUp, Cleared

\* A page load brings nothing that was not stored, and drops the requests of its tab.
LEMMA Loaded ==
  ASSUME TypeOK, NEW t \in Tabs, LoadPage(t)
  PROVE  /\ storage'.token \in {storage.token, None} /\ storage'.auth = storage.auth
         /\ storage'.user \in {storage.user, None}
         /\ storage'.user # None => storage' = storage
         /\ \A u \in Tabs : /\ mem'[u] \in {mem[u], storage.token, None}
                            /\ auth'[u] = IF u = t THEN storage.auth ELSE auth[u]
         /\ \A d \in Calls : /\ Without(t)[d] # None => Without(t)[d] = call[d] /\ call[d].tab # t
                             /\ call[d] # None /\ call[d].tab # t => Without(t)[d] = call[d]
<1>1. /\ storage' = storage \/ storage' = ClearedInPlace(storage)
      /\ storage'.user # None => storage' = storage
  BY HelperFields DEF LoadPage
<1>2. \A u \in Tabs : /\ mem'[u] \in {mem[u], storage.token, None}
                      /\ auth'[u] = IF u = t THEN storage.auth ELSE auth[u]
  BY DEF LoadPage, TypeOK
<1>3. QED
  BY <1>1, <1>2, HelperFields DEF Without

\* Only the call that moves changes.
LEMMA Moved ==
  ASSUME TypeOK, NEW c \in Calls, call[c] # None, NEW step, NEW n
  PROVE  /\ MovedTo(c, step, n)[c].tab = call[c].tab
         /\ MovedTo(c, step, n)[c].style = call[c].style
         /\ MovedTo(c, step, n)[c].at = step /\ MovedTo(c, step, n)[c].token = n
         /\ \A d \in Calls \ {c} : MovedTo(c, step, n)[d] = call[d]
  BY DEF TypeOK, MovedTo

\* Tokens spread only from where they are held, or are issued.
LEMMA NextKnown == TypeOK /\ Known /\ [Next]_vars => Known'
<1> SUFFICES ASSUME TypeOK /\ Known, [Next]_vars PROVE Known'
  OBVIOUS
<1> USE ClientAssumption DEF TypeOK, Known, Nobody
<1>1. ASSUME NEW t \in Tabs, Load(t) PROVE Known'
  BY <1>1, Loaded DEF Load
<1>2. ASSUME NEW t \in Tabs, SignOut(t) PROVE Known'
  BY <1>2 DEF SignOut, Cleared, Empty, Nobody
<1>3. ASSUME NEW t \in Tabs, NEW c \in Calls, Login(t, c) PROVE Known'
  BY <1>3 DEF Login, Persist, Authenticated, Pending
<1>4. ASSUME NEW t \in Tabs, NEW a \in Accounts, NEW c \in Calls, Callback(t, a, c) PROVE Known'
  <2> USE <1>4
  <2>1. NewToken \in Tokens /\ DOMAIN owner' = DOMAIN owner \cup {NewToken} /\ LoadPage(t)
    BY Issued DEF Callback
  <2>2. \A d \in Calls : call'[d] # None =>
           call'[d].token \in (IF call'[d].style = "login" THEN {None} ELSE DOMAIN owner')
    <3>1. \A d \in Calls : Without(t)[d] # None => Without(t)[d] = call[d]
      BY <2>1, Loaded
    <3>2. Without(t) \in [Calls -> Call \cup {None}]
      BY HelpersTyped
    <3>3. QED
      BY <2>1, <3>1, <3>2 DEF Callback
  <2>3. gone' = gone
    BY DEF Callback
  <2>4. QED
    BY <2>1, <2>2, <2>3, Loaded
<1>5. ASSUME NEW t \in Tabs, NEW style \in Styles, NEW c \in Calls, Send(t, style, c) PROVE Known'
  <2> USE <1>5
  <2>1. /\ call' = [call EXCEPT ![c] =
                      [tab |-> t, style |-> style, at |-> "sent", token |-> call'[c].token]]
        /\ call'[c].token \in {mem[t], storage.token, storage.auth.token} \ {None}
        /\ call'[c].style = style /\ style # "login"
    BY HelperFields DEF Send, Styles
  <2>2. \A d \in Calls : call'[d] # None =>
           call'[d].token \in (IF call'[d].style = "login" THEN {None} ELSE DOMAIN owner)
    BY <2>1
  <2>3. /\ storage'.token \in {storage.token, storage.auth.token} /\ storage'.auth = storage.auth
        /\ \A u \in Tabs : mem'[u] \in {mem[u], mem[t], storage.token, storage.auth.token}
        /\ UNCHANGED <<auth, owner, gone>>
    BY HelperFields DEF Send
  <2>4. QED
    BY <2>2, <2>3
<1>6. ASSUME NEW c \in Calls, NEW a \in Accounts, LoginSucceeds(c, a) PROVE Known'
  <2> USE <1>6
  <2>1. NewToken \in Tokens /\ DOMAIN owner' = DOMAIN owner \cup {NewToken} /\ call[c].tab \in Tabs
    BY Issued, CallsTyped DEF LoginSucceeds
  <2>2. QED
    BY <2>1 DEF LoginSucceeds, SignedIn, Done
<1>7. ASSUME NEW c \in Calls, LoginFails(c) PROVE Known'
  <2> USE <1>7
  <2>1. call[c].tab \in Tabs /\ storage'.token = storage.token /\ storage'.auth = auth[call[c].tab]
    BY CallsTyped DEF LoginFails, Persist
  <2>2. QED
    BY <2>1 DEF LoginFails, Done
<1>8. ASSUME NEW c \in Calls, CallbackSucceeds(c) PROVE Known'
  <2> USE <1>8
  <2>1. call[c].tab \in Tabs /\ call[c].token \in DOMAIN owner
    BY CallsTyped DEF CallbackSucceeds, Live
  <2>2. QED
    BY <2>1 DEF CallbackSucceeds, SignedIn, Done
<1>9. ASSUME NEW c \in Calls, CallbackFails(c) PROVE Known'
  BY <1>9 DEF CallbackFails, Cleared, Empty, Nobody, Done
<1>10. ASSUME NEW c \in Calls, Answered(c) PROVE Known'
  BY <1>10 DEF Answered, Done
<1>11. ASSUME NEW c \in Calls, Unauthorized(c) PROVE Known'
  BY <1>11 DEF Unauthorized, ClearedInPlace, At, Done
<1>12. ASSUME NEW c \in Calls, Refreshes(c) PROVE Known'
  <2> USE <1>12
  <2>1. call[c] # None /\ call[c].tab \in Tabs /\ call[c].style # "login"
    BY CallsTyped DEF Refreshes, At, Styles
  <2>2. CASE AuthToken(call[c].tab) = None
    <3>1. GivesUp(c, storage) /\ \A u \in Tabs : mem'[u] \in {mem[u], None}
      BY <2>1, <2>2 DEF Refreshes
    <3>2. \A d \in Calls : call'[d] # None => call'[d] = call[d]
      BY <2>2 DEF Refreshes, Done
    <3>3. UNCHANGED <<auth, owner>>
      BY DEF Refreshes
    <3>4. QED
      BY <2>1, <3>1, <3>2, <3>3, GivenUp
  <2>3. CASE AuthToken(call[c].tab) # None
    <3>1. /\ storage'.token \in {storage.token, storage.auth.token} /\ storage'.auth = storage.auth
          /\ \A u \in Tabs : mem'[u] \in {mem[u], AuthToken(call[c].tab)}
          /\ AuthToken(call[c].tab) \in DOMAIN owner
          /\ UNCHANGED <<auth, owner, gone>>
      BY <2>1, <2>3, HelperFields DEF Refreshes
    <3>2. call' = MovedTo(c, "refresh", AuthToken(call[c].tab))
      BY <2>3 DEF Refreshes
    <3>3. \A d \in Calls : call'[d] # None =>
             call'[d].token \in (IF call'[d].style = "login" THEN {None} ELSE DOMAIN owner)
      BY <2>1, <3>1, <3>2, Moved
    <3>4. QED
      BY <3>1, <3>3
  <2>4. QED
    BY <2>2, <2>3
<1>13. ASSUME NEW c \in Calls, RefreshSucceeds(c) PROVE Known'
  <2> USE <1>13
  <2>1. call[c] # None /\ call[c].tab \in Tabs /\ call[c].style # "login"
    BY CallsTyped DEF RefreshSucceeds, At, Styles
  <2>2. NewToken \in Tokens /\ DOMAIN owner' = DOMAIN owner \cup {NewToken}
    BY <2>1, Issued, Owned DEF RefreshSucceeds
  <2>3. \A d \in Calls : call'[d] # None =>
           call'[d].token \in (IF call'[d].style = "login" THEN {None} ELSE DOMAIN owner')
    BY <2>1, <2>2, Moved DEF RefreshSucceeds
  <2>4. QED
    BY <2>1, <2>2, <2>3 DEF RefreshSucceeds
<1>14. ASSUME NEW c \in Calls, RefreshFails(c) PROVE Known'
  <2> USE <1>14
  <2>1. call[c] # None /\ call[c].tab \in Tabs
    BY CallsTyped DEF RefreshFails, At
  <2>2. GivesUp(c, Cleared(storage)) /\ Cleared(storage).auth = Nobody
    BY DEF RefreshFails, Cleared, Empty
  <2>3. storage'.token = None /\ storage'.auth = Nobody /\ gone' \subseteq DOMAIN owner
    BY <2>1, <2>2, GivenUp
  <2>4. QED
    BY <2>1, <2>3 DEF RefreshFails, Done
<1>15. ASSUME NEW n \in Tokens, Expires(n) PROVE Known'
  BY <1>15 DEF Expires, Live
<1>16. CASE UNCHANGED vars
  BY <1>16 DEF vars
<1>17. QED
  BY <1>1, <1>2, <1>3, <1>4, <1>5, <1>6, <1>7, <1>8, <1>9, <1>10, <1>11, <1>12, <1>13, <1>14, <1>15, <1>16
  DEF Next, Answer

\* The store is set as a whole.
LEMMA NextWhole == TypeOK /\ Known /\ Whole /\ [Next]_vars => Whole'
<1> SUFFICES ASSUME TypeOK /\ Known /\ Whole, [Next]_vars PROVE Whole'
  OBVIOUS
<1> USE ClientAssumption DEF TypeOK, Known, Whole, Paired, Nobody
<1>1. ASSUME NEW t \in Tabs, Load(t) PROVE Whole'
  <2>1. /\ storage'.auth = storage.auth
        /\ \A u \in Tabs : auth'[u] = IF u = t THEN storage.auth ELSE auth[u]
    BY <1>1, Loaded DEF Load
  <2>2. QED
    BY <2>1
<1>2. ASSUME NEW t \in Tabs, SignOut(t) PROVE Whole'
  BY <1>2 DEF SignOut, Cleared, Empty, Nobody
<1>3. ASSUME NEW t \in Tabs, NEW c \in Calls, Login(t, c) PROVE Whole'
  BY <1>3 DEF Login, Persist, Authenticated, Pending
<1>4. ASSUME NEW t \in Tabs, NEW a \in Accounts, NEW c \in Calls, Callback(t, a, c) PROVE Whole'
  BY <1>4, Loaded DEF Callback
<1>5. ASSUME NEW t \in Tabs, NEW style \in Styles, NEW c \in Calls, Send(t, style, c) PROVE Whole'
  BY <1>5, HelperFields DEF Send
<1>6. ASSUME NEW c \in Calls, NEW a \in Accounts, LoginSucceeds(c, a) PROVE Whole'
  <2> USE <1>6
  <2>1. call[c].tab \in Tabs /\ NewToken \in Tokens
    BY Issued, CallsTyped DEF LoginSucceeds
  <2>2. QED
    BY <2>1, ClientAssumption DEF LoginSucceeds, SignedIn, Tokens
<1>7. ASSUME NEW c \in Calls, LoginFails(c) PROVE Whole'
  BY <1>7, CallsTyped DEF LoginFails, Persist
<1>8. ASSUME NEW c \in Calls, CallbackSucceeds(c) PROVE Whole'
  <2> USE <1>8
  <2>1. /\ call[c].tab \in Tabs /\ call[c].token \in Tokens
        /\ owner[call[c].token] \in Accounts
    BY CallsTyped, Owned DEF CallbackSucceeds, Live
  <2>2. QED
    BY <2>1 DEF CallbackSucceeds, SignedIn, Tokens
<1>9. ASSUME NEW c \in Calls, CallbackFails(c) PROVE Whole'
  BY <1>9 DEF CallbackFails, Cleared, Empty, Nobody, Done
<1>10. ASSUME NEW c \in Calls, Answered(c) PROVE Whole'
  BY <1>10 DEF Answered, Done
<1>11. ASSUME NEW c \in Calls, Unauthorized(c) PROVE Whole'
  BY <1>11 DEF Unauthorized, ClearedInPlace, At, Done
<1>12. ASSUME NEW c \in Calls, Refreshes(c) PROVE Whole'
  <2> USE <1>12
  <2>1. call[c] # None /\ call[c].tab \in Tabs
    BY CallsTyped DEF Refreshes, At
  <2>2. storage'.auth \in {storage.auth, Nobody}
    BY <2>1, GivenUp, HelperFields DEF Refreshes
  <2>3. QED
    BY <2>2 DEF Refreshes
<1>13. ASSUME NEW c \in Calls, RefreshSucceeds(c) PROVE Whole'
  BY <1>13 DEF RefreshSucceeds, Issue, NewToken, At
<1>14. ASSUME NEW c \in Calls, RefreshFails(c) PROVE Whole'
  <2> USE <1>14
  <2>1. call[c] # None /\ GivesUp(c, Cleared(storage)) /\ Cleared(storage).auth = Nobody
    BY DEF RefreshFails, At, Cleared, Empty
  <2>2. storage'.auth = Nobody
    BY <2>1, GivenUp
  <2>3. QED
    BY <2>2 DEF RefreshFails
<1>15. ASSUME NEW n \in Tokens, Expires(n) PROVE Whole'
  BY <1>15 DEF Expires, Live
<1>16. CASE UNCHANGED vars
  BY <1>16 DEF vars
<1>17. QED
  BY <1>1, <1>2, <1>3, <1>4, <1>5, <1>6, <1>7, <1>8, <1>9, <1>10, <1>11, <1>12, <1>13, <1>14, <1>15, <1>16
  DEF Next, Answer

\* A sign-in beside a submitted form is noted by twice.
LEMMA NextForms == TypeOK /\ Whole /\ Forms /\ [Next]_vars => Forms'
<1> SUFFICES ASSUME TypeOK /\ Whole /\ Forms, [Next]_vars PROVE Forms'
  OBVIOUS
<1> USE ClientAssumption DEF TypeOK, Whole, Paired, Forms, Signing, Nobody
<1>1. ASSUME NEW t \in Tabs, Load(t) PROVE Forms'
  <2> USE <1>1
  <2>1. \A d \in Calls : call'[d] # None => call'[d] = call[d] /\ call[d].tab # t
    BY Loaded DEF Load
  <2>2. twice' = twice /\ \A u \in Tabs \ {t} : auth'[u] = auth[u]
    BY Loaded DEF Load
  <2>3. \A d \in Calls : call[d] # None => call[d].tab \in Tabs
    BY CallsTyped
  <2>4. QED
    BY <2>1, <2>2, <2>3
<1>2. ASSUME NEW t \in Tabs, SignOut(t) PROVE Forms'
  BY <1>2 DEF SignOut, Cleared, Empty, Nobody
<1>3. ASSUME NEW t \in Tabs, NEW c \in Calls, Login(t, c) PROVE Forms'
  <2> USE <1>3
  <2>1. auth[t] = Nobody
    BY DEF Login, Authenticated, Record
  <2>2. call'[c].tab = t /\ call'[c].style = "login" /\ \A d \in Calls \ {c} : call'[d] = call[d]
    BY DEF Login
  <2>3. \A d \in Calls : call[d] # None /\ call[d].tab = t =>
          call[d].style # "login" /\ (call[d].style = "callback" => twice')
    BY DEF Login, Pending
  <2>4. (twice => twice') /\ auth' = auth
    BY DEF Login
  <2>5. QED
    BY <2>1, <2>2, <2>3, <2>4
<1>4. ASSUME NEW t \in Tabs, NEW a \in Accounts, NEW c \in Calls, Callback(t, a, c) PROVE Forms'
  <2> USE <1>4
  <2>1. \A d \in Calls : call'[d] # None =>
          \/ call'[d] = call[d] /\ call[d].tab # t
          \/ d = c /\ call'[d].tab = t /\ call'[d].style = "callback"
    <3>1. \A d \in Calls : Without(t)[d] # None => Without(t)[d] = call[d] /\ call[d].tab # t
      BY Loaded DEF Callback
    <3>2. Without(t) \in [Calls -> Call \cup {None}]
      BY HelpersTyped
    <3>3. QED
      BY <3>1, <3>2 DEF Callback
  <2>2. twice' = twice /\ \A u \in Tabs \ {t} : auth'[u] = auth[u]
    BY Loaded DEF Callback
  <2>3. \A d \in Calls : call[d] # None => call[d].tab \in Tabs
    BY CallsTyped
  <2>4. QED
    BY <2>1, <2>2, <2>3
<1>5. ASSUME NEW t \in Tabs, NEW style \in Styles, NEW c \in Calls, Send(t, style, c) PROVE Forms'
  <2> USE <1>5
  <2>1. call'[c].style = style /\ \A d \in Calls \ {c} : call'[d] = call[d]
    BY DEF Send
  <2>2. QED
    BY <2>1 DEF Send, Styles
<1>6. ASSUME NEW c \in Calls, NEW a \in Accounts, LoginSucceeds(c, a) PROVE Forms'
  <2> USE <1>6
  <2>1. call' = [call EXCEPT ![c] = None] /\ twice' = twice
    BY DEF LoginSucceeds, SignedIn, Done
  <2>2. \A u \in Tabs \ {call[c].tab} : auth'[u] = auth[u]
    BY DEF LoginSucceeds, SignedIn
  <2>3. \A d \in Calls : call[d] # None => call[d].tab \in Tabs
    BY CallsTyped
  <2>4. call[c] # None /\ call[c].style = "login"
    BY DEF LoginSucceeds
  <2>5. QED
    BY <2>1, <2>2, <2>3, <2>4
<1>7. ASSUME NEW c \in Calls, LoginFails(c) PROVE Forms'
  BY <1>7 DEF LoginFails, Persist, Done
<1>8. ASSUME NEW c \in Calls, CallbackSucceeds(c) PROVE Forms'
  <2> USE <1>8
  <2>1. call' = [call EXCEPT ![c] = None] /\ twice' = twice
    BY DEF CallbackSucceeds, SignedIn, Done
  <2>2. \A u \in Tabs \ {call[c].tab} : auth'[u] = auth[u]
    BY DEF CallbackSucceeds, SignedIn
  <2>3. \A d \in Calls : call[d] # None => call[d].tab \in Tabs
    BY CallsTyped
  <2>4. call[c] # None /\ call[c].style = "callback"
    BY DEF CallbackSucceeds
  <2>5. QED
    BY <2>1, <2>2, <2>3, <2>4
<1>9. ASSUME NEW c \in Calls, CallbackFails(c) PROVE Forms'
  BY <1>9 DEF CallbackFails, Cleared, Empty, Nobody, Done
<1>10. ASSUME NEW c \in Calls, Answered(c) PROVE Forms'
  BY <1>10 DEF Answered, Done
<1>11. ASSUME NEW c \in Calls, Unauthorized(c) PROVE Forms'
  BY <1>11 DEF Unauthorized, ClearedInPlace, At, Done
<1>12. ASSUME NEW c \in Calls, Refreshes(c) PROVE Forms'
  <2> USE <1>12
  <2>1. call[c] # None /\ call[c].style \in Styles /\ UNCHANGED <<auth, twice>>
    BY DEF Refreshes, At
  <2>2. \A d \in Calls : call'[d] # None =>
          \/ d = c /\ call'[d].style = call[c].style
          \/ d # c /\ call'[d] = call[d]
    <3>1. CASE AuthToken(call[c].tab) = None
      BY <3>1 DEF Refreshes, Done
    <3>2. CASE AuthToken(call[c].tab) # None
      <4>1. call' = MovedTo(c, "refresh", AuthToken(call[c].tab))
        BY <3>2 DEF Refreshes
      <4>2. call'[c].style = call[c].style /\ \A d \in Calls \ {c} : call'[d] = call[d]
        BY <2>1, <4>1, Moved
      <4>3. QED
        BY <4>2
    <3>3. QED
      BY <3>1, <3>2
  <2>3. QED
    BY <2>1, <2>2 DEF Styles
<1>13. ASSUME NEW c \in Calls, RefreshSucceeds(c) PROVE Forms'
  <2> USE <1>13
  <2>1. call[c] # None /\ call[c].style \in Styles /\ UNCHANGED <<auth, twice>>
    BY DEF RefreshSucceeds, At
  <2>2. call'[c].style = call[c].style /\ \A d \in Calls \ {c} : call'[d] = call[d]
    BY <2>1, Moved DEF RefreshSucceeds
  <2>3. QED
    BY <2>1, <2>2 DEF Styles
<1>14. ASSUME NEW c \in Calls, RefreshFails(c) PROVE Forms'
  BY <1>14 DEF RefreshFails, GivesUp, Cleared, ClearedInPlace, Empty, Nobody, At, Done
<1>15. ASSUME NEW n \in Tokens, Expires(n) PROVE Forms'
  BY <1>15 DEF Expires, Live
<1>16. CASE UNCHANGED vars
  BY <1>16 DEF vars
<1>17. QED
  BY <1>1, <1>2, <1>3, <1>4, <1>5, <1>6, <1>7, <1>8, <1>9, <1>10, <1>11, <1>12, <1>13, <1>14, <1>15, <1>16
  DEF Next, Answer

\* Only its callback stores the token of a callback.
LEMMA NextUnheld == TypeOK /\ Known /\ Unheld /\ [Next]_vars => Unheld'
<1> SUFFICES ASSUME TypeOK /\ Known /\ Unheld, [Next]_vars PROVE Unheld'
  OBVIOUS
<1> USE ClientAssumption DEF TypeOK, Known, Unheld, Signing, Nobody
<1>1. ASSUME NEW t \in Tabs, Load(t) PROVE Unheld'
  <2> USE <1>1
  <2>1. \A d \in Calls : call'[d] # None => call'[d] = call[d]
    BY Loaded DEF Load
  <2>2. UNCHANGED <<owner, gone>>
    BY DEF Load
  <2>3. None \notin DOMAIN owner
    BY Owned DEF Tokens
  <2>4. /\ storage'.token \in {storage.token, None} /\ storage'.auth = storage.auth
        /\ \A u \in Tabs : /\ mem'[u] \in {mem[u], storage.token, None}
                           /\ auth'[u] = IF u = t THEN storage.auth ELSE auth[u]
    BY Loaded DEF Load
  <2>5. QED
    BY <2>1, <2>2, <2>3, <2>4
<1>2. ASSUME NEW t \in Tabs, SignOut(t) PROVE Unheld'
  <2> USE <1>2
  <2>1. None \notin DOMAIN owner
    BY Owned DEF Tokens
  <2>2. QED
    BY <2>1 DEF SignOut, Cleared, Empty
<1>3. ASSUME NEW t \in Tabs, NEW c \in Calls, Login(t, c) PROVE Unheld'
  BY <1>3 DEF Login, Persist, Authenticated, Pending
<1>4. ASSUME NEW t \in Tabs, NEW a \in Accounts, NEW c \in Calls, Callback(t, a, c) PROVE Unheld'
  <2> USE <1>4
  <2>1. /\ NewToken \notin DOMAIN owner /\ NewToken \in DOMAIN owner' /\ NewToken # None
        /\ DOMAIN owner \subseteq DOMAIN owner' /\ None \notin DOMAIN owner
    BY Issued, Owned DEF Callback, Tokens
  <2>2. \A d \in Calls : call'[d] # None =>
          \/ call'[d] = call[d]
          \/ d = c /\ call'[d].token = NewToken /\ call'[d].style = "callback"
    <3>1. \A d \in Calls : Without(t)[d] # None => Without(t)[d] = call[d]
      BY Loaded DEF Callback
    <3>2. Without(t) \in [Calls -> Call \cup {None}]
      BY HelpersTyped
    <3>3. QED
      BY <3>1, <3>2 DEF Callback
  <2>3. \A d \in Calls : call'[d] = call[d] /\ call[d] # None => call[d].token # NewToken
    BY <2>1
  <2>4. /\ storage'.token \in DOMAIN owner \cup {None} /\ storage'.auth.token \in DOMAIN owner \cup {None}
        /\ \A u \in Tabs : mem'[u] \in DOMAIN owner \cup {None} /\ auth'[u].token \in DOMAIN owner \cup {None}
    BY Loaded DEF Callback
  <2>5. \A n \in DOMAIN owner :
          n # storage.token /\ n # storage.auth.token /\ (\A u \in Tabs : n # mem[u] /\ n # auth[u].token)
          => /\ n # storage'.token /\ n # storage'.auth.token
             /\ \A u \in Tabs : n # mem'[u] /\ n # auth'[u].token
    BY <2>1, Loaded DEF Callback
  <2>6. gone' = gone
    BY DEF Callback
  <2>7. ASSUME NEW d \in Calls, Signing(d, "callback")'
        PROVE  /\ call'[d].token \in DOMAIN owner' \ gone'
               /\ call'[d].token # storage'.token /\ call'[d].token # storage'.auth.token
               /\ \A u \in Tabs : call'[d].token # mem'[u] /\ call'[d].token # auth'[u].token
    <3>1. CASE call'[d] = call[d]
      BY <2>1, <2>5, <2>6, <2>7, <3>1
    <3>2. CASE call'[d].token = NewToken
      BY <2>1, <2>4, <2>6, <3>2
    <3>3. QED
      BY <2>2, <2>7, <3>1, <3>2
  <2>8. ASSUME NEW d \in Calls, NEW e \in Calls, Signing(d, "callback")', Signing(e, "callback")',
               call'[d].token = call'[e].token
        PROVE  d = e
    BY <2>2, <2>3, <2>8
  <2>9. QED
    BY <2>7, <2>8
<1>5. ASSUME NEW t \in Tabs, NEW style \in Styles, NEW c \in Calls, Send(t, style, c) PROVE Unheld'
  <2> USE <1>5
  <2>1. call'[c].style = style /\ style # "callback" /\ \A d \in Calls \ {c} : call'[d] = call[d]
    BY DEF Send, Styles
  <2>2. /\ storage'.token \in {storage.token, storage.auth.token} /\ storage'.auth = storage.auth
        /\ \A u \in Tabs : mem'[u] \in {mem[u], mem[t], storage.token, storage.auth.token}
        /\ UNCHANGED <<auth, owner, gone>>
    BY HelperFields DEF Send
  <2>3. QED
    BY <2>1, <2>2
<1>6. ASSUME NEW c \in Calls, NEW a \in Accounts, LoginSucceeds(c, a) PROVE Unheld'
  <2> USE <1>6
  <2>1. NewToken \notin DOMAIN owner /\ DOMAIN owner \subseteq DOMAIN owner' /\ call[c].tab \in Tabs
    BY Issued, CallsTyped DEF LoginSucceeds
  <2>2. \A d \in Calls : call'[d] # None => call'[d] = call[d]
    BY DEF LoginSucceeds, Done
  <2>3. /\ storage'.token = NewToken /\ storage'.auth.token = NewToken /\ gone' = gone
        /\ \A u \in Tabs : /\ mem'[u] \in {mem[u], NewToken}
                           /\ auth'[u].token \in {auth[u].token, NewToken}
    BY <2>1 DEF LoginSucceeds, SignedIn
  <2>4. QED
    BY <2>1, <2>2, <2>3
<1>7. ASSUME NEW c \in Calls, LoginFails(c) PROVE Unheld'
  <2> USE <1>7
  <2>1. call[c].tab \in Tabs /\ storage'.token = storage.token /\ storage'.auth = auth[call[c].tab]
    BY CallsTyped DEF LoginFails, Persist
  <2>2. QED
    BY <2>1 DEF LoginFails, Done
<1>8. ASSUME NEW c \in Calls, CallbackSucceeds(c) PROVE Unheld'
  <2> USE <1>8
  <2>1. Signing(c, "callback") /\ call[c].tab \in Tabs
    BY CallsTyped DEF CallbackSucceeds
  <2>2. \A d \in Calls : call'[d] # None => call'[d] = call[d] /\ d # c
    BY DEF CallbackSucceeds, Done
  <2>3. /\ storage'.token = call[c].token /\ storage'.auth.token = call[c].token
        /\ UNCHANGED <<owner, gone>>
        /\ \A u \in Tabs : /\ mem'[u] \in {mem[u], call[c].token}
                           /\ auth'[u].token \in {auth[u].token, call[c].token}
    BY <2>1 DEF CallbackSucceeds, SignedIn
  <2>4. QED
    BY <2>1, <2>2, <2>3
<1>9. ASSUME NEW c \in Calls, CallbackFails(c) PROVE Unheld'
  <2> USE <1>9
  <2>1. None \notin DOMAIN owner
    BY Owned DEF Tokens
  <2>2. QED
    BY <2>1 DEF CallbackFails, Cleared, Empty, Done
<1>10. ASSUME NEW c \in Calls, Answered(c) PROVE Unheld'
  BY <1>10 DEF Answered, Done
<1>11. ASSUME NEW c \in Calls, Unauthorized(c) PROVE Unheld'
  <2> USE <1>11
  <2>1. None \notin DOMAIN owner
    BY Owned DEF Tokens
  <2>2. QED
    BY <2>1 DEF Unauthorized, ClearedInPlace, Done
<1>12. ASSUME NEW c \in Calls, Refreshes(c) PROVE Unheld'
  <2> USE <1>12
  <2>1. call[c] # None /\ call[c].tab \in Tabs /\ call[c].style # "callback" /\ None \notin DOMAIN owner
    BY CallsTyped, Owned DEF Refreshes, At, Styles, Tokens
  <2>2. CASE AuthToken(call[c].tab) = None
    <3>1. GivesUp(c, storage) /\ \A u \in Tabs : mem'[u] \in {mem[u], None}
      BY <2>1, <2>2 DEF Refreshes
    <3>2. \A d \in Calls : call'[d] # None => call'[d] = call[d]
      BY <2>2 DEF Refreshes, Done
    <3>3. UNCHANGED <<auth, owner>>
      BY DEF Refreshes
    <3>4. /\ storage'.token = None /\ storage'.auth.token \in {storage.auth.token, None}
          /\ gone' \subseteq gone \cup {auth[call[c].tab].token}
      BY <2>1, <3>1, GivenUp
    <3>5. QED
      BY <2>1, <3>1, <3>2, <3>3, <3>4
  <2>3. CASE AuthToken(call[c].tab) # None
    <3>1. /\ storage'.token \in {storage.token, storage.auth.token} /\ storage'.auth = storage.auth
          /\ \A u \in Tabs : mem'[u] \in {mem[u], mem[call[c].tab], storage.token, storage.auth.token}
          /\ UNCHANGED <<auth, owner, gone>>
      BY <2>1, <2>3, HelperFields DEF Refreshes
    <3>2. call' = MovedTo(c, "refresh", AuthToken(call[c].tab))
      BY <2>3 DEF Refreshes
    <3>3. call'[c].style = call[c].style /\ \A d \in Calls \ {c} : call'[d] = call[d]
      BY <2>1, <3>2, Moved
    <3>4. QED
      BY <2>1, <3>1, <3>3
  <2>4. QED
    BY <2>2, <2>3
<1>13. ASSUME NEW c \in Calls, RefreshSucceeds(c) PROVE Unheld'
  <2> USE <1>13
  <2>1. call[c] # None /\ call[c].tab \in Tabs /\ call[c].style \notin {"login", "callback"}
    BY CallsTyped DEF RefreshSucceeds, At, Styles
  <2>2. NewToken \notin DOMAIN owner /\ DOMAIN owner \subseteq DOMAIN owner'
    BY <2>1, Issued, Owned DEF RefreshSucceeds
  <2>3. call'[c].style = call[c].style /\ \A d \in Calls \ {c} : call'[d] = call[d]
    BY <2>1, Moved DEF RefreshSucceeds
  <2>4. /\ storage'.token = NewToken /\ storage'.auth = storage.auth /\ UNCHANGED <<auth, gone>>
        /\ \A u \in Tabs : mem'[u] \in {mem[u], NewToken}
    BY <2>1 DEF RefreshSucceeds
  <2>5. QED
    BY <2>1, <2>2, <2>3, <2>4
<1>14. ASSUME NEW c \in Calls, RefreshFails(c) PROVE Unheld'
  <2> USE <1>14
  <2>1. call[c] # None /\ call[c].tab \in Tabs /\ None \notin DOMAIN owner
    BY CallsTyped, Owned DEF RefreshFails, At, Tokens
  <2>2. GivesUp(c, Cleared(storage)) /\ Cleared(storage).auth = Nobody
    BY DEF RefreshFails, Cleared, Empty
  <2>3. /\ storage'.token = None /\ storage'.auth = Nobody
        /\ gone' \subseteq gone \cup {auth[call[c].tab].token}
    BY <2>1, <2>2, GivenUp
  <2>4. QED
    BY <2>1, <2>3 DEF RefreshFails, Done
<1>15. ASSUME NEW n \in Tokens, Expires(n) PROVE Unheld'
  BY <1>15 DEF Expires, Live
<1>16. CASE UNCHANGED vars
  BY <1>16 DEF vars
<1>17. QED
  BY <1>1, <1>2, <1>3, <1>4, <1>5, <1>6, <1>7, <1>8, <1>9, <1>10, <1>11, <1>12, <1>13, <1>14, <1>15, <1>16
  DEF Next, Answer

-----------------------------------------------------------------------------
\* What the properties rest on.
Held == TypeOK /\ Known /\ Whole /\ Forms /\ Unheld

IInv == Held /\ StoreAgrees /\ NoRevival /\ EndedStaysEnded

\* What is written over iacgenie-auth is the same account, or an empty store that is noted.
LEMMA NextAgrees == Held /\ StoreAgrees /\ [Next]_vars => StoreAgrees'
<1> SUFFICES ASSUME Held /\ StoreAgrees, [Next]_vars PROVE StoreAgrees'
  OBVIOUS
<1> USE ClientAssumption DEF Held, TypeOK, Known, Whole, Paired, StoreAgrees, Nobody
<1>1. ASSUME NEW t \in Tabs, Load(t) PROVE StoreAgrees'
  BY <1>1, Loaded DEF Load
<1>2. ASSUME NEW t \in Tabs, SignOut(t) PROVE StoreAgrees'
  BY <1>2 DEF SignOut, Cleared, Empty, Nobody
<1>3. ASSUME NEW t \in Tabs, NEW c \in Calls, Login(t, c) PROVE StoreAgrees'
  <2> USE <1>3
  <2>1. auth[t].user = None
    BY DEF Login, Authenticated
  <2>2. QED
    BY <2>1 DEF Login, Persist
<1>4. ASSUME NEW t \in Tabs, NEW a \in Accounts, NEW c \in Calls, Callback(t, a, c) PROVE StoreAgrees'
  BY <1>4, Loaded DEF Callback
<1>5. ASSUME NEW t \in Tabs, NEW style \in Styles, NEW c \in Calls, Send(t, style, c) PROVE StoreAgrees'
  BY <1>5, HelperFields DEF Send
<1>6. ASSUME NEW c \in Calls, NEW a \in Accounts, LoginSucceeds(c, a) PROVE StoreAgrees'
  <2> USE <1>6
  <2>1. call[c].tab \in Tabs /\ NewToken \in Tokens
    BY Issued, CallsTyped DEF LoginSucceeds
  <2>2. QED
    BY <2>1, ClientAssumption DEF LoginSucceeds, SignedIn, Tokens
<1>7. ASSUME NEW c \in Calls, LoginFails(c) PROVE StoreAgrees'
  <2> USE <1>7
  <2>1. ~twice => auth[call[c].tab].user = None
    BY DEF LoginFails, Forms, Signing
  <2>2. QED
    BY <2>1 DEF LoginFails, Persist
<1>8. ASSUME NEW c \in Calls, CallbackSucceeds(c) PROVE StoreAgrees'
  <2> USE <1>8
  <2>1. call[c].tab \in Tabs /\ call[c].token # None
    BY CallsTyped, Owned DEF CallbackSucceeds, Live, Tokens
  <2>2. QED
    BY <2>1 DEF CallbackSucceeds, SignedIn
<1>9. ASSUME NEW c \in Calls, CallbackFails(c) PROVE StoreAgrees'
  BY <1>9 DEF CallbackFails, Cleared, Empty, Nobody, Done
<1>10. ASSUME NEW c \in Calls, Answered(c) PROVE StoreAgrees'
  BY <1>10 DEF Answered, Done
<1>11. ASSUME NEW c \in Calls, Unauthorized(c) PROVE StoreAgrees'
  BY <1>11 DEF Unauthorized, ClearedInPlace, At, Done
<1>12. ASSUME NEW c \in Calls, Refreshes(c) PROVE StoreAgrees'
  <2> USE <1>12
  <2>1. call[c] # None /\ call[c].tab \in Tabs
    BY CallsTyped DEF Refreshes, At
  <2>2. CASE AuthToken(call[c].tab) = None
    BY <2>1, <2>2, GivenUp DEF Refreshes
  <2>3. CASE AuthToken(call[c].tab) # None
    BY <2>1, <2>3, HelperFields DEF Refreshes
  <2>4. QED
    BY <2>2, <2>3
<1>13. ASSUME NEW c \in Calls, RefreshSucceeds(c) PROVE StoreAgrees'
  <2> USE <1>13
  <2>1. call[c] # None /\ call[c].style # "login"
    BY DEF RefreshSucceeds, At, Styles
  <2>2. NewToken # None
    BY <2>1, Owned, Issued DEF RefreshSucceeds, Tokens
  <2>3. QED
    BY <2>2 DEF RefreshSucceeds
<1>14. ASSUME NEW c \in Calls, RefreshFails(c) PROVE StoreAgrees'
  <2> USE <1>14
  <2>1. call[c] # None
    BY DEF RefreshFails, At
  <2>2. storage'.user = None
    BY <2>1, GivenUp DEF RefreshFails
  <2>3. QED
    BY <2>2
<1>15. ASSUME NEW n \in Tokens, Expires(n) PROVE StoreAgrees'
  BY <1>15 DEF Expires, Live
<1>16. CASE UNCHANGED vars
  BY <1>16 DEF vars
<1>17. QED
  BY <1>1, <1>2, <1>3, <1>4, <1>5, <1>6, <1>7, <1>8, <1>9, <1>10, <1>11, <1>12, <1>13, <1>14, <1>15, <1>16
  DEF Next, Answer

\* After a sign-out only another sign-in stores a user.
LEMMA NextRevivesNobody == Held /\ NoRevival /\ [Next]_vars => NoRevival'
<1> SUFFICES ASSUME Held /\ NoRevival, [Next]_vars PROVE NoRevival'
  OBVIOUS
<1> USE ClientAssumption DEF Held, TypeOK, Whole, Paired, NoRevival, Nobody
<1>1. ASSUME NEW t \in Tabs, Load(t) PROVE NoRevival'
  BY <1>1, Loaded DEF Load
<1>2. ASSUME NEW t \in Tabs, SignOut(t) PROVE NoRevival'
  BY <1>2 DEF SignOut, Cleared, Empty
<1>3. ASSUME NEW t \in Tabs, NEW c \in Calls, Login(t, c) PROVE NoRevival'
  <2> USE <1>3
  <2>1. auth[t] = Nobody
    BY DEF Login, Authenticated, Record
  <2>2. QED
    BY <2>1 DEF Login, Persist
<1>4. ASSUME NEW t \in Tabs, NEW a \in Accounts, NEW c \in Calls, Callback(t, a, c) PROVE NoRevival'
  BY <1>4, Loaded DEF Callback
<1>5. ASSUME NEW t \in Tabs, NEW style \in Styles, NEW c \in Calls, Send(t, style, c) PROVE NoRevival'
  BY <1>5, HelperFields DEF Send
<1>6. ASSUME NEW c \in Calls, NEW a \in Accounts, LoginSucceeds(c, a) PROVE NoRevival'
  BY <1>6 DEF LoginSucceeds, SignedIn
<1>7. ASSUME NEW c \in Calls, LoginFails(c) PROVE NoRevival'
  <2> USE <1>7
  <2>1. ~twice => auth[call[c].tab] = Nobody
    BY DEF LoginFails, Forms, Signing
  <2>2. QED
    BY <2>1 DEF LoginFails, Persist
<1>8. ASSUME NEW c \in Calls, CallbackSucceeds(c) PROVE NoRevival'
  BY <1>8 DEF CallbackSucceeds, SignedIn
<1>9. ASSUME NEW c \in Calls, CallbackFails(c) PROVE NoRevival'
  BY <1>9 DEF CallbackFails, Cleared, Empty, Nobody, Done
<1>10. ASSUME NEW c \in Calls, Answered(c) PROVE NoRevival'
  BY <1>10 DEF Answered, Done
<1>11. ASSUME NEW c \in Calls, Unauthorized(c) PROVE NoRevival'
  BY <1>11 DEF Unauthorized, ClearedInPlace, At, Done
<1>12. ASSUME NEW c \in Calls, Refreshes(c) PROVE NoRevival'
  <2> USE <1>12
  <2>1. call[c] # None /\ call[c].tab \in Tabs
    BY CallsTyped DEF Refreshes, At
  <2>2. CASE AuthToken(call[c].tab) = None
    BY <2>1, <2>2, GivenUp DEF Refreshes
  <2>3. CASE AuthToken(call[c].tab) # None
    BY <2>1, <2>3, HelperFields DEF Refreshes
  <2>4. QED
    BY <2>2, <2>3
<1>13. ASSUME NEW c \in Calls, RefreshSucceeds(c) PROVE NoRevival'
  BY <1>13 DEF RefreshSucceeds
<1>14. ASSUME NEW c \in Calls, RefreshFails(c) PROVE NoRevival'
  <2> USE <1>14
  <2>1. call[c] # None /\ Cleared(storage).auth = Nobody
    BY DEF RefreshFails, At, Cleared, Empty
  <2>2. storage'.user = None /\ storage'.auth = Nobody
    BY <2>1, GivenUp DEF RefreshFails
  <2>3. QED
    BY <2>2
<1>15. ASSUME NEW n \in Tokens, Expires(n) PROVE NoRevival'
  BY <1>15 DEF Expires, Live
<1>16. CASE UNCHANGED vars
  BY <1>16 DEF vars
<1>17. QED
  BY <1>1, <1>2, <1>3, <1>4, <1>5, <1>6, <1>7, <1>8, <1>9, <1>10, <1>11, <1>12, <1>13, <1>14, <1>15, <1>16
  DEF Next, Answer

\* Who ends a session stores another one or none.
LEMMA NextStaysEnded == Held /\ EndedStaysEnded /\ [Next]_vars => EndedStaysEnded'
<1> SUFFICES ASSUME Held /\ EndedStaysEnded, [Next]_vars PROVE EndedStaysEnded'
  OBVIOUS
<1> USE ClientAssumption DEF Held, TypeOK, Known, EndedStaysEnded, Nobody
<1>1. ASSUME NEW t \in Tabs, Load(t) PROVE EndedStaysEnded'
  BY <1>1, Loaded DEF Load
<1>2. ASSUME NEW t \in Tabs, SignOut(t) PROVE EndedStaysEnded'
  <2> USE <1>2
  <2>1. storage'.auth = Nobody /\ gone' = gone \cup ({auth[t].token, storage.auth.token} \ {None})
    BY DEF SignOut, Cleared, Empty
  <2>2. None \notin gone
    BY NoneHeld
  <2>3. QED
    BY <2>1, <2>2
<1>3. ASSUME NEW t \in Tabs, NEW c \in Calls, Login(t, c) PROVE EndedStaysEnded'
  <2> USE <1>3
  <2>1. auth[t] = Nobody
    BY DEF Login, Authenticated, Whole, Paired, Record
  <2>2. storage'.auth.token = None /\ gone' = gone
    BY <2>1 DEF Login, Persist
  <2>3. None \notin gone
    BY NoneHeld
  <2>4. QED
    BY <2>2, <2>3
<1>4. ASSUME NEW t \in Tabs, NEW a \in Accounts, NEW c \in Calls, Callback(t, a, c) PROVE EndedStaysEnded'
  BY <1>4, Loaded DEF Callback
<1>5. ASSUME NEW t \in Tabs, NEW style \in Styles, NEW c \in Calls, Send(t, style, c) PROVE EndedStaysEnded'
  BY <1>5, HelperFields DEF Send
<1>6. ASSUME NEW c \in Calls, NEW a \in Accounts, LoginSucceeds(c, a) PROVE EndedStaysEnded'
  <2> USE <1>6
  <2>1. NewToken \notin DOMAIN owner /\ call[c].tab \in Tabs
    BY Issued, CallsTyped DEF LoginSucceeds
  <2>2. QED
    BY <2>1 DEF LoginSucceeds, SignedIn
<1>7. ASSUME NEW c \in Calls, LoginFails(c) PROVE EndedStaysEnded'
  <2> USE <1>7
  <2>1. ~twice => auth[call[c].tab] = Nobody
    BY DEF LoginFails, Forms, Signing
  <2>2. QED
    BY <2>1 DEF LoginFails, Persist, Tokens
<1>8. ASSUME NEW c \in Calls, CallbackSucceeds(c) PROVE EndedStaysEnded'
  <2> USE <1>8
  <2>1. call[c].token \notin gone /\ call[c].tab \in Tabs
    BY CallsTyped DEF CallbackSucceeds, Unheld, Signing
  <2>2. QED
    BY <2>1 DEF CallbackSucceeds, SignedIn
<1>9. ASSUME NEW c \in Calls, CallbackFails(c) PROVE EndedStaysEnded'
  <2> USE <1>9
  <2>1. storage'.auth = Nobody /\ gone' = gone
    BY DEF CallbackFails, Cleared, Empty
  <2>2. None \notin gone
    BY NoneHeld
  <2>3. QED
    BY <2>1, <2>2
<1>10. ASSUME NEW c \in Calls, Answered(c) PROVE EndedStaysEnded'
  BY <1>10 DEF Answered, Done
<1>11. ASSUME NEW c \in Calls, Unauthorized(c) PROVE EndedStaysEnded'
  BY <1>11 DEF Unauthorized, ClearedInPlace, At, Done
<1>12. ASSUME NEW c \in Calls, Refreshes(c) PROVE EndedStaysEnded'
  <2> USE <1>12
  <2>1. call[c] # None /\ call[c].tab \in Tabs
    BY CallsTyped DEF Refreshes, At
  <2>2. None \notin gone
    BY NoneHeld
  <2>3. CASE AuthToken(call[c].tab) = None
    <3>1. /\ storage'.auth \in {storage.auth, Nobody} /\ twice' = twice
          /\ \/ gone' = gone
             \/ /\ storage'.auth = Nobody
                /\ gone' = gone \cup ({auth[call[c].tab].token} \ {None})
      BY <2>1, <2>3, GivenUp DEF Refreshes
    <3>2. CASE gone' = gone
      BY <2>2, <3>1, <3>2
    <3>3. CASE /\ storage'.auth = Nobody
               /\ gone' = gone \cup ({auth[call[c].tab].token} \ {None})
      <4>1. None \notin gone'
        BY <2>2, <3>3
      <4>2. QED
        BY <3>3, <4>1
    <3>4. QED
      BY <3>1, <3>2, <3>3
  <2>4. CASE AuthToken(call[c].tab) # None
    BY <2>1, <2>4, HelperFields DEF Refreshes
  <2>5. QED
    BY <2>3, <2>4
<1>13. ASSUME NEW c \in Calls, RefreshSucceeds(c) PROVE EndedStaysEnded'
  BY <1>13 DEF RefreshSucceeds
<1>14. ASSUME NEW c \in Calls, RefreshFails(c) PROVE EndedStaysEnded'
  <2> USE <1>14
  <2>1. call[c] # None /\ Cleared(storage).auth = Nobody
    BY DEF RefreshFails, At, Cleared, Empty
  <2>2. storage'.auth = Nobody
    BY <2>1, GivenUp DEF RefreshFails
  <2>3. None \notin gone'
    BY NextTyped DEF vars, Next, Answer, Tokens
  <2>4. QED
    BY <2>2, <2>3
<1>15. ASSUME NEW n \in Tokens, Expires(n) PROVE EndedStaysEnded'
  BY <1>15 DEF Expires, Live
<1>16. CASE UNCHANGED vars
  BY <1>16 DEF vars
<1>17. QED
  BY <1>1, <1>2, <1>3, <1>4, <1>5, <1>6, <1>7, <1>8, <1>9, <1>10, <1>11, <1>12, <1>13, <1>14, <1>15, <1>16
  DEF Next, Answer

\* The action of EndedKnowingly.
EndsKnowingly ==
  storage.user # None /\ Live(storage.token) /\ storage'.user = None
    => \/ \E t \in Tabs : Authenticated(t) /\ ~Authenticated(t)'
       \/ \E c \in Calls :
            /\ call[c] # None /\ call'[c] = None
            /\ \/ call[c].token \notin {None, storage.token}
               \/ NetMayFail /\ call[c].at = "refresh"

\* A step takes a live session away only so.
LEMMA StepsEndKnowingly == Held /\ [Next]_vars => EndsKnowingly
<1> SUFFICES ASSUME Held, [Next]_vars PROVE EndsKnowingly
  OBVIOUS
<1> USE ClientAssumption DEF Held, TypeOK, Known, EndsKnowingly, Live
<1>1. ASSUME NEW t \in Tabs, Load(t) PROVE EndsKnowingly
  <2> USE <1>1
  <2>1. storage.user # None /\ storage.token # None => storage' = storage
    BY DEF Load, LoadPage
  <2>2. QED
    BY <2>1, Owned DEF Tokens
<1>2. ASSUME NEW t \in Tabs, SignOut(t) PROVE EndsKnowingly
  BY <1>2 DEF SignOut, Authenticated, Nobody
<1>3. ASSUME NEW t \in Tabs, NEW c \in Calls, Login(t, c) PROVE EndsKnowingly
  BY <1>3 DEF Login, Persist, Authenticated, Pending
<1>4. ASSUME NEW t \in Tabs, NEW a \in Accounts, NEW c \in Calls, Callback(t, a, c) PROVE EndsKnowingly
  <2> USE <1>4
  <2>1. storage.user # None /\ storage.token # None => storage' = storage
    BY DEF Callback, LoadPage
  <2>2. QED
    BY <2>1, Owned DEF Tokens
<1>5. ASSUME NEW t \in Tabs, NEW style \in Styles, NEW c \in Calls, Send(t, style, c) PROVE EndsKnowingly
  BY <1>5, HelperFields DEF Send
<1>6. ASSUME NEW c \in Calls, NEW a \in Accounts, LoginSucceeds(c, a) PROVE EndsKnowingly
  BY <1>6 DEF LoginSucceeds, SignedIn
<1>7. ASSUME NEW c \in Calls, LoginFails(c) PROVE EndsKnowingly
  BY <1>7 DEF LoginFails, Persist, Done
<1>8. ASSUME NEW c \in Calls, CallbackSucceeds(c) PROVE EndsKnowingly
  BY <1>8, Owned DEF CallbackSucceeds, SignedIn
<1>9. ASSUME NEW c \in Calls, CallbackFails(c) PROVE EndsKnowingly
  <2> USE <1>9
  <2>1. /\ call[c] # None /\ call'[c] = None /\ call[c].token # storage.token
        /\ call[c].token \in DOMAIN owner
    BY DEF CallbackFails, Done, Unheld, Signing
  <2>2. QED
    BY <2>1, Owned DEF Tokens
<1>10. ASSUME NEW c \in Calls, Answered(c) PROVE EndsKnowingly
  BY <1>10 DEF Answered, Done
<1>11. ASSUME NEW c \in Calls, Unauthorized(c) PROVE EndsKnowingly
  <2> USE <1>11
  <2>1. call[c] # None /\ call'[c] = None /\ call[c].token \in dead
    BY DEF Unauthorized, At, Done
  <2>2. QED
    BY <2>1, NoneHeld
<1>12. ASSUME NEW c \in Calls, Refreshes(c) PROVE EndsKnowingly
  <2> USE <1>12
  <2>1. call[c].tab \in Tabs
    BY CallsTyped DEF Refreshes, At
  <2>2. CASE storage.token = None
    BY <2>2, Owned DEF Tokens
  <2>3. CASE storage.token # None
    <3>1. AuthToken(call[c].tab) # None
      BY <2>3 DEF AuthToken
    <3>2. QED
      BY <2>1, <3>1, HelperFields DEF Refreshes
  <2>4. QED
    BY <2>2, <2>3
<1>13. ASSUME NEW c \in Calls, RefreshSucceeds(c) PROVE EndsKnowingly
  BY <1>13 DEF RefreshSucceeds
<1>14. ASSUME NEW c \in Calls, RefreshFails(c) PROVE EndsKnowingly
  <2> USE <1>14
  <2>1. /\ call[c] # None /\ call'[c] = None /\ call[c].at = "refresh"
        /\ call[c].token \in dead \/ NetMayFail
    BY DEF RefreshFails, At, Done
  <2>2. QED
    BY <2>1, NoneHeld
<1>15. ASSUME NEW n \in Tokens, Expires(n) PROVE EndsKnowingly
  BY <1>15 DEF Expires, Live
<1>16. CASE UNCHANGED vars
  BY <1>16 DEF vars
<1>17. QED
  BY <1>1, <1>2, <1>3, <1>4, <1>5, <1>6, <1>7, <1>8, <1>9, <1>10, <1>11, <1>12, <1>13, <1>14, <1>15, <1>16
  DEF Next, Answer

-----------------------------------------------------------------------------
\* The browser starts with nobody signed in.
LEMMA InitHeld == Init => IInv
<1> USE ClientAssumption DEF Init, Empty, Nobody
<1>1. Init => TypeOK
  <2> SUFFICES ASSUME Init PROVE TypeOK
    OBVIOUS
  <2>1. Nobody \in Record /\ owner \in Seq(Accounts) /\ Len(owner) = 0 /\ 0 <= MaxTokens
    BY DEF Record
  <2>2. QED
    BY <2>1 DEF TypeOK, Record
<1>2. Init => Known /\ Whole /\ Forms /\ Unheld
  BY DEF Known, Whole, Paired, Forms, Unheld, Signing
<1>3. Init => StoreAgrees /\ NoRevival /\ EndedStaysEnded
  BY DEF StoreAgrees, NoRevival, EndedStaysEnded
<1>4. QED
  BY <1>1, <1>2, <1>3 DEF IInv, Held

\* The invariant all properties follow from.
LEMMA Invariance == Spec => []IInv
<1>1. IInv /\ [Next]_vars => IInv'
  BY NextTyped, NextKnown, NextWhole, NextForms, NextUnheld, NextAgrees, NextRevivesNobody,
     NextStaysEnded DEF IInv, Held
<1>2. QED
  BY InitHeld, <1>1, PTL DEF Spec

\* Whatever the tabs, requests and answers do, all places keep their types: what is stored
\* under iacgenie-auth, too, is a user and a token of this browser, or nobody.
THEOREM ClientTyped == Spec => []TypeOK
<1>1. IInv => TypeOK
  BY DEF IInv, Held
<1>2. QED
  BY Invariance, <1>1, PTL

\* localStorage names at most one account, for any number of tabs that sign in and out at
\* once: LocalAuthService and useAuthStore write their keys one after the other.
THEOREM StorageAgrees == Spec => []StoreAgrees
<1>1. IInv => StoreAgrees
  BY DEF IInv
<1>2. QED
  BY Invariance, <1>1, PTL

\* No late answer brings a user back that signed out: refreshToken stores a token, never a
\* user, and initializeAuth removes a token without a user.
THEOREM NobodyRevived == Spec => []NoRevival
<1>1. IInv => NoRevival
  BY DEF IInv
<1>2. QED
  BY Invariance, <1>1, PTL

\* A session that ended in one tab is not stored back by another one, although useAuthStore
\* persists what its tab still holds whenever it is set.
THEOREM EndedSessionsStayEnded == Spec => []EndedStaysEnded
<1>1. IInv => EndedStaysEnded
  BY DEF IInv
<1>2. QED
  BY Invariance, <1>1, PTL

\* A live session is taken away only by its user, by the answer to a call with another
\* token, or by a failing connection.
THEOREM SessionsEndKnowingly == Spec => EndedKnowingly
<1>1. IInv /\ [Next]_vars => [EndsKnowingly]_vars
  BY StepsEndKnowingly DEF IInv
<1>2. Spec => [][EndsKnowingly]_vars
  BY Invariance, <1>1, PTL DEF Spec
<1>3. QED
  BY <1>2 DEF EndedKnowingly, EndsKnowingly

(***************************************************************************)
(* The page that follows a generation job.                                 *)
(***************************************************************************)
\* OneSocket, told of the job that the effects have last run with: it also holds
\* between a change of the job and the effects that follow it.
OnlySocket ==
  ~unclean =>
    /\ Attached \subseteq {ref}
    /\ \A s \in Attached : sock[s].job = seen.job
    /\ lost = {}
    /\ retry # NoJob => retry = seen.job /\ Attached = {}

\* The inductive invariant of the page and its sockets.
GInv == GTypeOK /\ OnlySocket

\* It holds when the page opens.
LEMMA GeneratorInit == GInit => GInv
<1> SUFFICES ASSUME GInit PROVE GInv
  OBVIOUS
<1> USE GeneratorAssumption DEF GInit
<1>1. GTypeOK
  <2>1. page \in Page /\ hook \in Hook
    BY DEF Page, Hook, Statuses
  <2>2. seen \in [job : Jobs \cup {NoJob}, status : Statuses, review : BOOLEAN, files : BOOLEAN]
    BY DEF Deps, Statuses
  <2>3. sock \in [Sockets -> Socket]
    BY DEF Socket, Gone
  <2>4. starting \in Nat /\ attempts \in 0..MaxAttempts /\ drops \in 0..MaxDrops
    OBVIOUS
  <2>5. banner \in [live : BOOLEAN, state : {"disconnected", "connecting", "connected", "error"}]
    OBVIOUS
  <2>6. QED
    BY <2>1, <2>2, <2>3, <2>4, <2>5 DEF GTypeOK
<1>2. OnlySocket
  BY DEF OnlySocket, Attached, Opened, Gone
<1>3. QED
  BY <1>1, <1>2 DEF GInv

\* A phase that is shown is one of the statuses.
LEMMA PhaseTyped ==
  ASSUME hook \in Hook, NEW review \in BOOLEAN, NEW status \in Statuses, Phase(review, status)
  PROVE  hook' \in Hook
  BY DEF Phase, Hook

\* Steps that leave the connection and what it is for alone keep OnlySocket.
LEMMA ConnectionKept ==
  ASSUME OnlySocket, UNCHANGED <<sock, ref, retry, lost, unclean>>, seen'.job = seen.job
  PROVE  OnlySocket'
  BY DEF OnlySocket, Attached, Opened

\* A socket that moves on, or ends, while it is the page's only one.
LEMMA SocketMoves ==
  ASSUME GTypeOK, OnlySocket, NEW s \in Sockets, NEW v \in Socket,
         sock' = [sock EXCEPT ![s] = v],
         \/ v.st \in {"gone", "closing", "aborted"}
         \/ s \in Attached /\ v.job = sock[s].job,
         UNCHANGED <<seen, ref, retry, lost, unclean>>
  PROVE  OnlySocket'
<1> USE DEF Attached, Opened
<1>1. /\ sock'[s] = v /\ \A t \in Sockets : t # s => sock'[t] = sock[t]
  BY DEF GTypeOK
<1>2. Attached' \subseteq Attached
  BY <1>1
<1>3. \A t \in Attached' : sock'[t].job = sock[t].job
  BY <1>1
<1> HIDE DEF Attached, Opened
<1>4. QED
  BY <1>2, <1>3 DEF OnlySocket

\* connect, when no socket of the ones given is attached.
LEMMA ConnectsOne ==
  ASSUME NEW socks \in [Sockets -> Socket], NEW j \in Jobs, Connect(socks, j),
         \A s \in Sockets : socks[s].st \in {"closing", "aborted", "gone"}
  PROVE  /\ sock' \in [Sockets -> Socket] /\ ref' \in Sockets
         /\ Attached' = {ref'} /\ sock'[ref'].job = j
<1>1. PICK s \in Free : sock' = [socks EXCEPT ![s] = [job |-> j, st |-> "connecting"]] /\ ref' = s
  BY DEF Connect
<1>2. [job |-> j, st |-> "connecting"] \in Socket /\ s \in Sockets
  BY <1>1 DEF Socket, Free
<1>3. sock'[s] = [job |-> j, st |-> "connecting"] /\ \A t \in Sockets : t # s => sock'[t] = socks[t]
  BY <1>1, <1>2
<1>4. QED
  BY <1>1, <1>2, <1>3 DEF Attached, Opened

\* connect keeps the types.
LEMMA ConnectTyped ==
  ASSUME NEW socks \in [Sockets -> Socket], NEW j \in Jobs, Connect(socks, j)
  PROVE  sock' \in [Sockets -> Socket] /\ ref' \in Sockets
<1>1. PICK s \in Free : sock' = [socks EXCEPT ![s] = [job |-> j, st |-> "connecting"]] /\ ref' = s
  BY DEF Connect
<1>2. [job |-> j, st |-> "connecting"] \in Socket /\ s \in Sockets
  BY <1>1 DEF Socket, Free
<1>3. QED
  BY <1>1, <1>2

\* Closing the socket of the ref.
LEMMA ClosedTyped ==
  ASSUME GTypeOK
  PROVE  Closed(ref) \in [Sockets -> Socket]
<1>1. CASE ref = 0
  BY <1>1 DEF Closed, GTypeOK
<1>2. CASE ref # 0
  <2>1. ref \in Sockets /\ sock[ref] \in Socket
    BY <1>2 DEF GTypeOK
  <2>2. /\ [sock[ref] EXCEPT !.st = "aborted"] \in Socket
        /\ [sock[ref] EXCEPT !.st = "closing"] \in Socket
    BY <2>1 DEF Socket
  <2>3. QED
    BY <1>2, <2>1, <2>2 DEF Closed, GTypeOK
<1>3. QED
  BY <1>1, <1>2

\* Without a socket beside the one of the ref, none stays attached.
LEMMA ClosedAll ==
  ASSUME GTypeOK, Attached \subseteq {ref}
  PROVE  \A s \in Sockets : Closed(ref)[s].st \in {"closing", "aborted", "gone"}
<1> SUFFICES ASSUME NEW s \in Sockets
             PROVE  Closed(ref)[s].st \in {"closing", "aborted", "gone"}
  OBVIOUS
<1>1. sock[s] \in Socket /\ sock \in [Sockets -> Socket]
  BY DEF GTypeOK
<1>2. CASE s \notin Attached
  <2>1. sock[s].st \in {"closing", "aborted", "gone"}
    BY <1>1, <1>2 DEF Attached, Opened, Socket
  <2>2. Closed(ref)[s] = sock[s] \/ Closed(ref)[s].st \in {"closing", "aborted"}
    BY <1>1 DEF Closed, Socket
  <2>3. QED
    BY <2>1, <2>2
<1>3. CASE s \in Attached
  <2>1. s = ref /\ ref # 0
    BY <1>3 DEF Sockets
  <2>2. QED
    BY <1>1, <1>3, <2>1 DEF Closed, Attached, Opened, Socket
<1>4. QED
  BY <1>2, <1>3

\* Steps of the page alone leave the connection to its only socket.
LEMMA PageKeeps ==
  ASSUME OnlySocket, UNCHANGED <<seen, connection, unclean>>
  PROVE  OnlySocket'
  BY ConnectionKept DEF connection

\* Every step but the effects and the timers keeps the types.
LEMMA SocketsTyped ==
  ASSUME GTypeOK, NEW s \in Sockets,
         SocketStep(s) \/ ServerRefuses(s) \/ SocketDrops(s)
  PROVE  GTypeOK'
<1> USE GeneratorAssumption
<1>1. sock[s] \in Socket /\ Gone \in Socket
  BY DEF GTypeOK, Socket, Gone
<1>2. /\ [sock[s] EXCEPT !.st = "open"] \in Socket
      /\ [sock[s] EXCEPT !.st = "looked"] \in Socket
      /\ [sock[s] EXCEPT !.st = "live"] \in Socket
  BY <1>1 DEF Socket
<1>3. CASE SocketOpens(s)
  BY <1>2, <1>3 DEF SocketOpens, client, GTypeOK
<1>4. CASE EndsCleanly(s)
  <2>1. hook' \in Hook
    BY <1>4 DEF EndsCleanly, GTypeOK, Hook, Statuses
  <2>2. QED
    BY <1>1, <1>4, <2>1 DEF EndsCleanly, GTypeOK
<1>5. CASE ServerLooksUp(s)
  <2>1. /\ late' = late
        /\ hook' = hook \/ \E st \in Statuses : Phase(FALSE, st)
    <3>1. \E read \in BOOLEAN : \E status \in Found(sock[s].job, read) :
            OnInfo(status) \/ UNCHANGED <<hook, late>>
      BY <1>5 DEF ServerLooksUp
    <3>2. \A read \in BOOLEAN : Found(sock[s].job, read) \subseteq Statuses
      BY DEF Found, Outcome, Statuses
    <3>3. QED
      BY <3>1, <3>2 DEF OnInfo
  <2>2. sock' \in [Sockets -> Socket] /\ gap' \subseteq Sockets
    BY <1>2, <1>5 DEF ServerLooksUp, GTypeOK
  <2>3. hook' \in Hook
    BY <2>1, PhaseTyped DEF GTypeOK
  <2>4. QED
    BY <1>5, <2>1, <2>2, <2>3 DEF ServerLooksUp, GTypeOK
<1>6. CASE ServerSubscribes(s)
  BY <1>2, <1>6 DEF ServerSubscribes, client, GTypeOK
<1>7. CASE SocketDrops(s)
  <2>1. hook' \in Hook
    BY <1>7 DEF SocketDrops, GTypeOK, Hook, Statuses
  <2>2. /\ sock' \in [Sockets -> Socket] /\ gap' \subseteq Sockets
        /\ drops' \in 0..MaxDrops /\ unclean' \in BOOLEAN
    BY <1>1, <1>7 DEF SocketDrops, GTypeOK
  <2>3. /\ attempts' \in 0..MaxAttempts /\ retry' \in Jobs \cup {NoJob} /\ lost' \subseteq Jobs
        /\ banner' \in [live : BOOLEAN,
                        state : {"disconnected", "connecting", "connected", "error"}]
    <3>1. CASE attempts < MaxAttempts
      <4>1. /\ attempts' = attempts + 1 /\ retry' = sock[s].job
            /\ lost' = lost \cup ({retry} \ {NoJob})
            /\ banner' = [live |-> FALSE, state |-> "connecting"]
        BY <1>7, <3>1 DEF SocketDrops
      <4>2. attempts' \in 0..MaxAttempts
        BY <3>1, <4>1 DEF GTypeOK
      <4>3. QED
        BY <1>1, <4>1, <4>2 DEF GTypeOK, Socket
    <3>2. CASE ~(attempts < MaxAttempts)
      <4>1. /\ UNCHANGED <<attempts, retry, lost>>
            /\ banner' = [live |-> FALSE, state |-> "error"]
        BY <1>7, <3>2 DEF SocketDrops
      <4>2. QED
        BY <4>1 DEF GTypeOK
    <3>3. QED
      BY <3>1, <3>2
  <2>4. QED
    BY <1>7, <2>1, <2>2, <2>3 DEF SocketDrops, GTypeOK
<1>8. QED
  BY <1>3, <1>4, <1>5, <1>6, <1>7 DEF SocketStep, CloseHandshake, ServerRefuses

\* No step of a socket gives the page a second one.
LEMMA SocketsKeep ==
  ASSUME GTypeOK, OnlySocket, NEW s \in Sockets,
         SocketStep(s) \/ ServerRefuses(s) \/ SocketDrops(s)
  PROVE  OnlySocket'
<1>1. sock[s] \in Socket /\ Gone \in Socket /\ Gone.st = "gone"
  BY DEF GTypeOK, Socket, Gone
<1>2. ASSUME NEW st \in {"open", "looked", "live"}, sock' = [sock EXCEPT ![s].st = st],
             s \in Attached, UNCHANGED <<seen, ref, retry, lost, unclean>>
      PROVE  OnlySocket'
  <2>1. sock' = [sock EXCEPT ![s] = [sock[s] EXCEPT !.st = st]]
    BY <1>1, <1>2 DEF GTypeOK
  <2>2. [sock[s] EXCEPT !.st = st] \in Socket /\ [sock[s] EXCEPT !.st = st].job = sock[s].job
    BY <1>1 DEF Socket
  <2>3. QED
    BY <1>2, <2>1, <2>2, SocketMoves
<1>3. CASE SocketOpens(s)
  BY <1>2, <1>3 DEF SocketOpens, Attached
<1>4. CASE EndsCleanly(s)
  BY <1>1, <1>4, SocketMoves DEF EndsCleanly
<1>5. CASE ServerLooksUp(s)
  BY <1>2, <1>5 DEF ServerLooksUp, Attached, Opened
<1>6. CASE ServerSubscribes(s)
  BY <1>2, <1>6 DEF ServerSubscribes, Attached, Opened
<1>7. CASE SocketDrops(s)
  <2> SUFFICES ASSUME ~unclean' PROVE OnlySocket'
    BY DEF OnlySocket
  <2>1. ~unclean /\ sock[s].st \notin {"closing", "aborted", "gone"} /\ seen' = seen /\ ref' = ref
    BY <1>7 DEF SocketDrops
  <2>2. s \in Attached
    BY <1>1, <2>1 DEF Attached, Opened, Socket
  <2>3. /\ Attached \subseteq {ref} /\ sock[s].job = seen.job /\ lost = {} /\ retry = NoJob
    BY <2>1, <2>2 DEF OnlySocket
  <2>4. Attached' = {}
    BY <1>1, <1>7, <2>1, <2>2, <2>3 DEF SocketDrops, Attached, Opened, GTypeOK
  <2>5. lost' = {} /\ retry' \in {NoJob, seen.job}
    BY <1>7, <2>3 DEF SocketDrops
  <2>6. QED
    BY <2>1, <2>4, <2>5 DEF OnlySocket
<1>8. QED
  BY <1>3, <1>4, <1>5, <1>6, <1>7 DEF SocketStep, CloseHandshake, ServerRefuses

\* The timer of a reconnection.
LEMMA TimerKeeps ==
  ASSUME GInv, NEW j \in Jobs, RetryTimer(j)
  PROVE  GInv'
<1> USE GeneratorAssumption
<1>1. sock \in [Sockets -> Socket] /\ Connect(sock, j)
  BY DEF RetryTimer, GInv, GTypeOK
<1>2. GTypeOK'
  BY <1>1, ConnectTyped DEF RetryTimer, GInv, GTypeOK, client
<1>3. OnlySocket'
  <2> SUFFICES ASSUME ~unclean PROVE OnlySocket'
    BY DEF OnlySocket, RetryTimer
  <2>1. lost = {} /\ retry = j /\ retry' = NoJob /\ lost' = lost /\ seen.job = j /\ Attached = {}
    BY DEF RetryTimer, GInv, OnlySocket
  <2>2. \A s \in Sockets : sock[s].st \in {"closing", "aborted", "gone"}
    BY <1>1, <2>1 DEF Attached, Opened, Socket
  <2>3. Attached' = {ref'} /\ sock'[ref'].job = j
    BY <1>1, <2>2, ConnectsOne
  <2>4. QED
    BY <2>1, <2>3 DEF OnlySocket, RetryTimer
<1>4. QED
  BY <1>2, <1>3 DEF GInv

\* The effects: whatever the connection was, it is the new job's afterwards.
LEMMA EffectsKeep ==
  ASSUME GInv, Effects
  PROVE  GInv'
<1> USE GeneratorAssumption
<1>1. seen' = Deps /\ seen'.job = page.job /\ page.job \in Jobs \cup {NoJob}
  BY DEF Effects, Deps, GInv, GTypeOK, Page
<1>2. Closed(ref) \in [Sockets -> Socket]
  BY ClosedTyped DEF GInv
<1>3. page' \in Page /\ hook' \in Hook
  <2>1. hook' \in Hook
    BY DEF Effects, GInv, GTypeOK, Hook, Statuses
  <2>2. SyncStatus(page) \in Page
    BY DEF SyncStatus, GInv, GTypeOK, Page, Hook
  <2>3. OpenReview(SyncStatus(page)) \in Page
    BY <2>2 DEF OpenReview, Page
  <2>4. TakeFiles(OpenReview(SyncStatus(page))) \in Page
    BY <2>3 DEF TakeFiles, GInv, GTypeOK, Page, Hook, Statuses
  <2>5. QED
    BY <2>1, <2>4 DEF Effects
<1>4. /\ sock' \in [Sockets -> Socket] /\ ref' \in {0} \cup Sockets
      /\ retry' \in Jobs \cup {NoJob} /\ lost' = lost /\ attempts' \in 0..MaxAttempts
      /\ banner' \in [live : BOOLEAN,
                        state : {"disconnected", "connecting", "connected", "error"}]
  <2>1. CASE page.job = seen.job
    BY <2>1 DEF Effects, FollowJob, connection, GInv, GTypeOK
  <2>2. CASE page.job # seen.job /\ page.job # NoJob
    <3>1. Connect(Closed(ref), page.job) /\ page.job \in Jobs
      BY <1>1, <2>2 DEF Effects, FollowJob
    <3>2. sock' \in [Sockets -> Socket] /\ ref' \in Sockets
      BY <1>2, <3>1, ConnectTyped
    <3>3. QED
      BY <2>2, <3>2 DEF Effects, FollowJob, GInv, GTypeOK
  <2>3. CASE page.job # seen.job /\ page.job = NoJob
    <3>1. /\ sock' = Closed(ref) /\ ref' = 0 /\ retry' = NoJob /\ lost' = lost
          /\ attempts' = attempts /\ banner' = [live |-> FALSE, state |-> "disconnected"]
      BY <2>3 DEF Effects, FollowJob
    <3>2. QED
      BY <1>2, <3>1 DEF GInv, GTypeOK
  <2>4. QED
    BY <2>1, <2>2, <2>3
<1>5. /\ seen' \in [job : Jobs \cup {NoJob}, status : Statuses, review : BOOLEAN,
                    files : BOOLEAN]
      /\ fetches' \subseteq [job : Jobs, left : 1..MaxPolls] /\ failures' \subseteq Jobs
  <2>1. Deps \in [job : Jobs \cup {NoJob}, status : Statuses, review : BOOLEAN,
                 files : BOOLEAN]
    BY DEF Deps, GInv, GTypeOK, Page, Hook
  <2>2. Completes => [job |-> page.job, left |-> MaxPolls] \in [job : Jobs, left : 1..MaxPolls]
    BY <1>1 DEF Completes
  <2>3. fetches' \subseteq [job : Jobs, left : 1..MaxPolls]
    BY <2>2 DEF Effects, GInv, GTypeOK
  <2>4. failures' \subseteq Jobs
    BY <1>1 DEF Effects, GInv, GTypeOK
  <2>5. QED
    BY <1>1, <2>1, <2>3, <2>4
<1>6. GTypeOK'
  BY <1>3, <1>4, <1>5 DEF Effects, GInv, GTypeOK
<1>7. OnlySocket'
  <2> SUFFICES ASSUME ~unclean PROVE OnlySocket'
    BY DEF OnlySocket, Effects
  <2>1. CASE page.job = seen.job
    <3>1. UNCHANGED <<sock, ref, retry, lost, unclean>>
      BY <2>1 DEF Effects, FollowJob, connection
    <3>2. QED
      BY <1>1, <2>1, <3>1, ConnectionKept DEF GInv
  <2>2. CASE page.job # seen.job
    <3>1. lost = {} /\ lost' = {} /\ retry' = NoJob
      BY <2>2 DEF Effects, FollowJob, GInv, OnlySocket
    <3>2. \A s \in Sockets : Closed(ref)[s].st \in {"closing", "aborted", "gone"}
      BY ClosedAll DEF GInv, OnlySocket
    <3>3. CASE page.job # NoJob
      <4>1. Connect(Closed(ref), page.job) /\ page.job \in Jobs
        BY <1>1, <2>2, <3>3 DEF Effects, FollowJob
      <4>2. Attached' = {ref'} /\ sock'[ref'].job = page.job
        BY <1>2, <3>2, <4>1, ConnectsOne
      <4>3. QED
        BY <1>1, <3>1, <4>2 DEF OnlySocket
    <3>4. CASE page.job = NoJob
      <4>1. sock' = Closed(ref)
        BY <2>2, <3>4 DEF Effects, FollowJob
      <4>2. Attached' = {}
        BY <3>2, <4>1 DEF Attached, Opened
      <4>3. QED
        BY <3>1, <4>2 DEF OnlySocket
    <3>5. QED
      BY <3>3, <3>4
  <2>3. QED
    BY <2>1, <2>2
<1>8. QED
  BY <1>6, <1>7 DEF GInv

\* Events change what the hook shows, and nothing of the connection.
LEMMA EventsKeep ==
  ASSUME GInv, NEW j \in Jobs, JobStep(j) \/ JobAnnounces(j)
  PROVE  GInv'
<1> DEFINE Backends == {"none", "running", "review", "resumed", "coded", "stored", "done",
                        "broken", "failed"}
<1> DEFINE Quiet == StartElsewhere(j) \/ JobResumes(j) \/ JobStores(j)
<1> DEFINE Phased == JobRuns(j) \/ JobAsksReview(j) \/ JobCodes(j)
<1>1. /\ backend' \in [Jobs -> Backends]
      /\ UNCHANGED <<page, seen, starting, fetches, failures, answering>>
      /\ UNCHANGED <<connection, banner, drops, unclean>>
      /\ gap' \subseteq Sockets
  <2>1. CASE Quiet
    BY <2>1 DEF StartElsewhere, JobResumes, JobStores, Becomes, Moves, client, GInv, GTypeOK
  <2>2. CASE Phased
    BY <2>2 DEF JobRuns, JobAsksReview, JobCodes, Becomes, Moves, Receives, GInv, GTypeOK
  <2>3. CASE JobAnnounces(j)
    BY <2>3 DEF JobAnnounces, Becomes, Awaiting, GInv, GTypeOK
  <2>4. QED
    BY <2>1, <2>2, <2>3 DEF JobStep
<1>2. hook' \in Hook /\ late' \subseteq Ended
  <2>1. CASE Quiet
    BY <2>1 DEF StartElsewhere, JobResumes, JobStores, client, GInv, GTypeOK
  <2>2. CASE JobRuns(j) \/ JobAsksReview(j)
    <3>1. /\ late' = late
          /\ hook' = hook \/ Phase(FALSE, "running") \/ Phase(TRUE, "human_review")
      BY <2>2 DEF JobRuns, JobAsksReview, Receives, OnRunning, OnReview
    <3>2. QED
      BY <3>1, PhaseTyped DEF GInv, GTypeOK, Statuses
  <2>3. CASE JobCodes(j)
    <3>1. /\ late' \in {late, late \cup {"completed"}}
          /\ hook' \in {hook, [hook EXCEPT !.review = FALSE]}
      BY <2>3 DEF JobCodes, Receives, OnCoded
    <3>2. hook \in Hook /\ [hook EXCEPT !.review = FALSE] \in Hook
      BY DEF GInv, GTypeOK, Hook
    <3>3. QED
      BY <3>1, <3>2 DEF GInv, GTypeOK, Ended
  <2>4. CASE JobAnnounces(j)
    <3>1. /\ late' \in {late, late \cup {"failed"}}
          /\ \/ hook' = hook
             \/ Phase(FALSE, "failed")
             \/ hook' = [status |-> "completed", review |-> FALSE, files |-> TRUE]
      BY <2>4 DEF JobAnnounces, OnComplete, OnFailed
    <3>2. [status |-> "completed", review |-> FALSE, files |-> TRUE] \in Hook
      BY DEF Hook, Statuses
    <3>3. hook' \in Hook
      BY <3>1, <3>2, PhaseTyped DEF GInv, GTypeOK, Statuses
    <3>4. QED
      BY <3>1, <3>3 DEF GInv, GTypeOK, Ended
  <2>5. QED
    BY <2>1, <2>2, <2>3, <2>4 DEF JobStep
<1>3. GTypeOK'
  BY <1>1, <1>2 DEF GInv, GTypeOK, connection
<1>4. QED
  BY <1>1, <1>3, PageKeeps DEF GInv

\* What the user does, and what requests and timers of the page bring.
LEMMA PageSteps ==
  ASSUME GInv,
         \/ HandleGenerate \/ StartReturns \/ AnswerReview \/ AnswerReturns
         \/ \E f \in fetches : FetchReturns(f)
         \/ \E j \in Jobs : FailureReturns(j)
         \/ \E k \in Ended : LateTimer(k)
  PROVE  GInv'
<1> USE GeneratorAssumption
<1>1. UNCHANGED <<seen, connection, banner, drops, unclean, gap>>
  BY DEF HandleGenerate, StartReturns, AnswerReview, AnswerReturns, FetchReturns, FailureReturns,
     LateTimer
<1>2. /\ backend' \in [Jobs -> {"none", "running", "review", "resumed", "coded", "stored",
                               "done", "broken", "failed"}]
      /\ answering' \in BOOLEAN
  <2>1. \/ UNCHANGED backend
        \/ \E j \in Jobs : backend' = [backend EXCEPT ![j] = "running"]
    BY DEF HandleGenerate, StartReturns, AnswerReview, AnswerReturns, FetchReturns,
       FailureReturns, LateTimer, Becomes, Fresh
  <2>2. answering' \in {answering, TRUE, FALSE}
    BY DEF HandleGenerate, StartReturns, AnswerReview, AnswerReturns, FetchReturns,
       FailureReturns, LateTimer
  <2>3. answering' \in BOOLEAN
    BY <2>2 DEF GInv, GTypeOK
  <2>4. QED
    BY <2>1, <2>3 DEF GInv, GTypeOK
<1>3. page' \in Page
  <2>1. CASE HandleGenerate
    BY <2>1 DEF HandleGenerate, GInv, GTypeOK, Page, Statuses
  <2>2. CASE StartReturns
    BY <2>2 DEF StartReturns, Fresh, GInv, GTypeOK, Page, Statuses
  <2>3. CASE AnswerReview \/ AnswerReturns
    BY <2>3 DEF AnswerReview, AnswerReturns, GInv, GTypeOK, Page, Statuses
  <2>4. ASSUME NEW f \in fetches, FetchReturns(f) PROVE page' \in Page
    <3>1. f.job \in Jobs /\ page \in Page
      BY DEF GInv, GTypeOK
    <3>2. \/ page' = [page EXCEPT !.code = TRUE, !.gen = "completed", !.job = NoJob]
          \/ page' = page
          \/ page' = [page EXCEPT !.gen = "failed", !.job = NoJob]
      BY <2>4 DEF FetchReturns
    <3>3. QED
      BY <3>1, <3>2 DEF Page, Statuses
  <2>5. CASE \E j \in Jobs : FailureReturns(j)
    BY <2>5 DEF FailureReturns, GInv, GTypeOK, Page, Statuses
  <2>6. CASE \E k \in Ended : LateTimer(k)
    BY <2>6 DEF LateTimer, GInv, GTypeOK
  <2>7. QED
    BY <2>1, <2>2, <2>3, <2>4, <2>5, <2>6
<1>4. starting' \in Nat
  <2>1. \/ starting' = starting \/ starting' = starting + 1
        \/ starting > 0 /\ starting' = starting - 1
    BY DEF HandleGenerate, StartReturns, AnswerReview, AnswerReturns, FetchReturns,
       FailureReturns, LateTimer
  <2>2. QED
    BY <2>1 DEF GInv, GTypeOK
<1>5. fetches' \subseteq [job : Jobs, left : 1..MaxPolls] /\ failures' \subseteq Jobs
  <2>1. ASSUME NEW f \in fetches, FetchReturns(f)
        PROVE  fetches' \subseteq [job : Jobs, left : 1..MaxPolls] /\ failures' = failures
    <3>1. f \in [job : Jobs, left : 1..MaxPolls]
      BY DEF GInv, GTypeOK
    <3>2. f.left > 1 => [f EXCEPT !.left = @ - 1] \in [job : Jobs, left : 1..MaxPolls]
      BY <3>1
    <3>3. failures' = failures
      BY <2>1 DEF FetchReturns
    <3>4. \/ fetches' = fetches \ {f}
          \/ f.left > 1 /\ fetches' = (fetches \ {f}) \cup {[f EXCEPT !.left = @ - 1]}
      BY <2>1 DEF FetchReturns
    <3>5. QED
      BY <3>2, <3>3, <3>4 DEF GInv, GTypeOK
  <2>2. CASE ~ \E f \in fetches : FetchReturns(f)
    <3>1. fetches' = fetches /\ failures' \subseteq failures
      BY <2>2 DEF HandleGenerate, StartReturns, AnswerReview, AnswerReturns, FailureReturns,
         LateTimer
    <3>2. QED
      BY <3>1 DEF GInv, GTypeOK
  <2>3. QED
    BY <2>1, <2>2 DEF GInv, GTypeOK
<1>6. hook' \in Hook /\ late' \subseteq Ended
  <2>1. CASE \E k \in Ended : LateTimer(k)
    <3>1. PICK k \in Ended : LateTimer(k)
      BY <2>1
    <3>2. k \in Statuses
      BY DEF Ended, Statuses
    <3>3. QED
      BY <3>1, <3>2 DEF LateTimer, GInv, GTypeOK, Hook
  <2>2. CASE ~ \E k \in Ended : LateTimer(k)
    BY <2>2 DEF HandleGenerate, StartReturns, AnswerReview, AnswerReturns, FetchReturns,
       FailureReturns, GInv, GTypeOK
  <2>3. QED
    BY <2>1, <2>2
<1>7. GTypeOK'
  BY <1>1, <1>2, <1>3, <1>4, <1>5, <1>6 DEF GInv, GTypeOK, connection
<1>8. QED
  BY <1>1, <1>7, PageKeeps DEF GInv

\* Every step keeps it.
LEMMA GeneratorNext == GInv /\ [GNext]_gvars => GInv'
<1> SUFFICES ASSUME GInv, [GNext]_gvars PROVE GInv'
  OBVIOUS
<1>1. CASE Effects
  BY <1>1, EffectsKeep
<1>2. CASE \E s \in Sockets : SocketStep(s) \/ ServerRefuses(s) \/ SocketDrops(s)
  BY <1>2, SocketsTyped, SocketsKeep DEF GInv
<1>3. CASE Timers
  BY <1>3, TimerKeeps DEF Timers
<1>4. CASE \E j \in Jobs : JobStep(j) \/ JobAnnounces(j)
  BY <1>4, EventsKeep
<1>5. CASE \/ HandleGenerate \/ AnswerReview \/ Requests
           \/ \E k \in Ended : LateTimer(k)
  BY <1>5, PageSteps DEF Requests
<1>6. CASE UNCHANGED gvars
  <2>1. GTypeOK'
    BY <1>6 DEF gvars, client, connection, GInv, GTypeOK
  <2>2. QED
    BY <1>6, <2>1, PageKeeps DEF gvars, GInv
<1>7. QED
  BY <1>1, <1>2, <1>3, <1>4, <1>5, <1>6 DEF GNext

\* It holds always.
LEMMA GeneratorHeld == GSpec => []GInv
  BY GeneratorInit, GeneratorNext, PTL DEF GSpec

\* Every variable of the generator page has its type (GeneratorUI).
THEOREM GeneratorTyped == GSpec => []GTypeOK
<1>1. GInv => GTypeOK
  BY DEF GInv
<1>2. QED
  BY <1>1, GeneratorHeld, PTL

\* Between its effects the page has at most one socket, that of the job it follows,
\* and will open no other: until one that it closed ends uncleanly (connect, onclose).
THEOREM SocketsAreSingle == GSpec => []OneSocket
<1>1. GInv => OneSocket
  <2> SUFFICES ASSUME GInv, Settled, ~unclean
               PROVE  /\ Attached \subseteq {ref}
                      /\ \A s \in Attached : sock[s].job = page.job
                      /\ lost = {} /\ (retry # NoJob => retry = page.job /\ Attached = {})
    BY DEF OneSocket
  <2>1. seen.job = page.job
    BY DEF Settled, Deps
  <2>2. QED
    BY <2>1 DEF GInv, OnlySocket
<1>2. QED
  BY <1>1, GeneratorHeld, PTL

\* Whatever requests return after the page has left their job, and in whatever order those
\* of two jobs do, the page shows a generation under way only while it follows a job or
\* starts one: save for an answer to an approval (fetchCompletedCode, handleFailedJob,
\* handleGenerate and the effects).
THEOREM RunningsAreBacked == GSpec => RunningIsBacked
<1> DEFINE Step == Backed => Backed' \/ (answering /\ ~answering')
<1>1. GInv /\ [GNext]_gvars => [Step]_gvars
  <2> SUFFICES ASSUME GInv, GNext, Backed, ~(answering /\ ~answering') PROVE Backed'
    OBVIOUS
  <2> USE GeneratorAssumption DEF Backed
  <2>1. page \in Page /\ starting \in Nat
    BY DEF GInv, GTypeOK
  <2>2. CASE Effects
    <3>1. SyncStatus(page) \in Page /\ SyncStatus(page).job = page.job
      BY <2>1 DEF SyncStatus, Page, GInv, GTypeOK, Hook
    <3>2. page.job = NoJob => SyncStatus(page) = page
      BY DEF SyncStatus
    <3>3. /\ OpenReview(SyncStatus(page)) \in Page
          /\ OpenReview(SyncStatus(page)).job = page.job
          /\ OpenReview(SyncStatus(page)).gen = SyncStatus(page).gen
      BY <3>1 DEF OpenReview, Page
    <3>4. \/ page' = OpenReview(SyncStatus(page))
          \/ page'.gen = "completed"
      BY <2>2, <3>3 DEF Effects, TakeFiles, Page
    <3>5. starting' = starting
      BY <2>2 DEF Effects
    <3>6. QED
      BY <3>2, <3>3, <3>4, <3>5
  <2>3. CASE HandleGenerate
    BY <2>1, <2>3 DEF HandleGenerate
  <2>4. CASE StartReturns
    BY <2>1, <2>4 DEF StartReturns, Fresh, Page
  <2>5. CASE \E f \in fetches : FetchReturns(f)
    <3>1. /\ page' = page \/ page'.gen \in {"completed", "failed"}
          /\ starting' = starting
      BY <2>1, <2>5 DEF FetchReturns, Page
    <3>2. QED
      BY <3>1
  <2>6. CASE \E j \in Jobs : FailureReturns(j)
    BY <2>1, <2>6 DEF FailureReturns, Page
  <2>7. CASE \/ AnswerReview \/ Timers \/ \E k \in Ended : LateTimer(k)
             \/ \E s \in Sockets : SocketStep(s) \/ ServerRefuses(s) \/ SocketDrops(s)
    <3>1. page' = page /\ starting' = starting
      BY <2>7 DEF AnswerReview, Timers, RetryTimer, LateTimer, SocketStep, SocketOpens,
         CloseHandshake, ServerLooksUp, ServerSubscribes, ServerRefuses, EndsCleanly,
         SocketDrops, client
    <3>2. QED
      BY <3>1
  <2>8. CASE \E j \in Jobs : JobStep(j) \/ JobAnnounces(j)
    <3>1. page' = page /\ starting' = starting
      BY <2>8 DEF JobStep, JobAnnounces, StartElsewhere, JobRuns, JobAsksReview, JobResumes,
         JobCodes, JobStores, Receives, client
    <3>2. QED
      BY <3>1
  <2>9. CASE AnswerReturns
    BY <2>9 DEF AnswerReturns
  <2>10. QED
    BY <2>2, <2>3, <2>4, <2>5, <2>6, <2>7, <2>8, <2>9 DEF GNext, Requests
<1>2. QED
  BY <1>1, GeneratorHeld, PTL DEF GSpec, RunningIsBacked

(***************************************************************************)
(* The page of a project's settings.                                       *)
(***************************************************************************)
\* No id has rows in two projects.
IdsApart ==
  \A p, q \in Projects : p # q => \A r \in rows[p], t \in rows[q] : r.id # t.id

\* A row whose deletion was carried out is gone while its request is under way.
DeletedGone ==
  \A s \in Slots :
    awaited[s] # Nothing /\ awaited[s].op = "delete" /\ awaited[s].at = "done" =>
      \A p \in Projects : \A r \in rows[p] : r.id # awaited[s].item

\* A request whose end brings the list up to date, or makes it outdated.
Relists(s) == awaited[s] # Nothing /\ awaited[s].op \in {"fetch", "create", "update"}

\* The deletion of the row r was answered, or refused.
Deletes(s, r) ==
  /\ awaited[s] # Nothing /\ awaited[s].op = "delete"
  /\ awaited[s].item = r.id /\ awaited[s].at # "sent"

\* The list holds what the server has, and beyond it what is being deleted.
Agrees ==
  ~outdated =>
    \/ \E s \in Slots : Relists(s)
    \/ /\ rows[project] \subseteq list
       /\ \A r \in list \ rows[project] : \E s \in Slots : Deletes(s, r)

\* The inductive invariant of the settings page and the server.
SInv == PTypeOK /\ SpinnerStops /\ IdsApart /\ DeletedGone /\ Agrees

USE SettingsAssumption, NothingIsNoRequest

\* It holds when the page opens.
LEMMA SettingsInit == PInit => SInv
<1> SUFFICES ASSUME PInit PROVE SInv
  OBVIOUS
<1>1. PTypeOK
  <2>1. rows \in [Projects -> SUBSET Row]
    BY DEF PInit
  <2>2. awaited \in [Slots -> Awaited \cup {Nothing}] /\ verdicts \in [Items -> Verdicts]
    BY DEF PInit, Verdicts
  <2>3. begun \in 0..MaxCalls
    BY DEF PInit
  <2>4. QED
    BY <2>1, <2>2, <2>3 DEF PInit, PTypeOK
<1>2. IdsApart
  <2> SUFFICES ASSUME NEW p \in Projects, NEW q \in Projects, p # q,
                      NEW r \in rows[p], NEW t \in rows[q], r.id = t.id
               PROVE  FALSE
    BY DEF IdsApart
  <2>1. r \in Row /\ r.rev = 0 /\ t \in Row /\ t.rev = 0 /\ rows[p] \cap rows[q] = {}
    BY DEF PInit
  <2>2. r = t
    BY <2>1 DEF Row
  <2>3. QED
    BY <2>1, <2>2
<1>3. SpinnerStops /\ DeletedGone /\ Agrees
  BY DEF PInit, SpinnerStops, DeletedGone, Agrees
<1>4. QED
  BY <1>1, <1>2, <1>3 DEF SInv

\* What a new request leaves behind.
LEMMA BeginTyped ==
  ASSUME PTypeOK, NEW op \in {"fetch", "create", "update", "delete", "test"},
         NEW p \in Projects, NEW i \in Items \cup {Nothing},
         NEW s \in Slots, awaited[s] = Nothing, Request(s, op, p, i)
  PROVE  /\ awaited' \in [Slots -> Awaited \cup {Nothing}]
         /\ awaited'[s] # Nothing /\ awaited'[s].op = op /\ awaited'[s].at = "sent"
         /\ \A t \in Slots : t # s => awaited'[t] = awaited[t]
<1>1. [op |-> op, project |-> p, item |-> i, at |-> "sent", got |-> {}] \in Awaited
  BY DEF Awaited
<1>2. QED
  BY <1>1 DEF Request, PTypeOK

\* A new request keeps the invariant; one that is not a deletion or a test lists again.
LEMMA BeginKeeps ==
  ASSUME SInv, NEW op \in {"fetch", "create", "update", "delete", "test"},
         NEW p \in Projects, NEW i \in Items \cup {Nothing}, Begin(op, p, i),
         UNCHANGED <<section, rows>>, project' \in Projects, open' \in BOOLEAN,
         \/ UNCHANGED <<project, outdated>>
         \/ outdated' = TRUE
  PROVE  SInv'
<1> USE DEF SInv
<1>1. PICK s \in Slots : awaited[s] = Nothing /\ Request(s, op, p, i)
  BY DEF Begin, Idle
<1>2. /\ awaited' \in [Slots -> Awaited \cup {Nothing}]
      /\ awaited'[s] # Nothing /\ awaited'[s].op = op /\ awaited'[s].at = "sent"
      /\ \A t \in Slots : t # s => awaited'[t] = awaited[t]
  BY <1>1, BeginTyped
<1>3. /\ begun' \in 0..MaxCalls /\ list' = list /\ verdicts' = verdicts
      /\ op = "test" => UNCHANGED <<loading, error>>
      /\ op # "test" => loading' = TRUE /\ error' = FALSE
  BY DEF Begin, PTypeOK
<1>4. PTypeOK'
  BY <1>2, <1>3 DEF PTypeOK
<1>5. SpinnerStops'
  BY <1>1, <1>2, <1>3 DEF SpinnerStops
<1>6. IdsApart' /\ DeletedGone'
  BY <1>2 DEF IdsApart, DeletedGone
<1>7. Agrees'
  <2> SUFFICES ASSUME ~outdated' PROVE Agrees'
    BY DEF Agrees
  <2>1. project' = project /\ outdated' = outdated /\ list' = list
    BY <1>3
  <2>2. CASE \E t \in Slots : Relists(t)
    BY <2>2, <1>1, <1>2 DEF Relists, Agrees
  <2>3. CASE ~ \E t \in Slots : Relists(t)
    <3>1. /\ rows[project] \subseteq list
          /\ \A r \in list \ rows[project] : \E t \in Slots : Deletes(t, r)
      BY <2>1, <2>3 DEF Agrees
    <3>2. \A r : \A t \in Slots : Deletes(t, r) => Deletes(t, r)'
      BY <1>1, <1>2 DEF Deletes
    <3>3. QED
      BY <2>1, <3>1, <3>2 DEF Agrees
  <2>4. QED
    BY <2>2, <2>3
<1>8. QED
  BY <1>4, <1>5, <1>6, <1>7

\* The request of an answer, and the other requests.
LEMMA AnswerEnds ==
  ASSUME PTypeOK, NEW s \in Slots, awaited' = [awaited EXCEPT ![s] = Nothing]
  PROVE  /\ awaited' \in [Slots -> Awaited \cup {Nothing}]
         /\ awaited'[s] = Nothing /\ \A t \in Slots : t # s => awaited'[t] = awaited[t]
  BY DEF PTypeOK

\* An answer to a listing, a change or a deletion keeps the invariant.
LEMMA ListingKeeps ==
  ASSUME SInv, NEW s \in Slots, awaited[s] # Nothing, Listing(s),
         UNCHANGED <<section, project, open, rows, begun>>
  PROVE  SInv'
<1> USE DEF SInv
<1>1. awaited[s] \in Awaited
  BY DEF PTypeOK
<1>2. CASE Fails(s)
  <2>1. awaited' = [awaited EXCEPT ![s] = Nothing] /\ loading' = FALSE /\ outdated' = TRUE
    BY <1>2 DEF Fails, Finish
  <2>2. PTypeOK'
    BY <1>2, <2>1, AnswerEnds DEF PTypeOK, Fails
  <2>3. SpinnerStops' /\ Agrees' /\ IdsApart'
    BY <2>1 DEF SpinnerStops, Agrees, IdsApart
  <2>4. DeletedGone'
    BY <2>1, AnswerEnds DEF DeletedGone
  <2>5. QED
    BY <2>2, <2>3, <2>4
<1>3. CASE /\ awaited[s].op = "fetch" /\ awaited[s].at = "done"
           /\ list' = awaited[s].got /\ Finish(s)
           /\ outdated' = (awaited[s].got # rows[project])
           /\ UNCHANGED <<error, verdicts>>
  <2>1. awaited' = [awaited EXCEPT ![s] = Nothing] /\ loading' = FALSE
    BY <1>3 DEF Finish
  <2>2. PTypeOK'
    BY <1>1, <1>3, <2>1, AnswerEnds DEF PTypeOK, Awaited
  <2>3. SpinnerStops' /\ IdsApart'
    BY <2>1 DEF SpinnerStops, IdsApart
  <2>4. DeletedGone'
    BY <2>1, AnswerEnds DEF DeletedGone
  <2>5. ~outdated' => list' = rows'[project']
    BY <1>3
  <2>6. Agrees'
    BY <2>5 DEF Agrees
  <2>7. QED
    BY <2>2, <2>3, <2>4, <2>6
<1>4. CASE /\ awaited[s].op \in {"create", "update"} /\ awaited[s].at = "done"
           /\ Request(s, "fetch", awaited[s].project, Nothing)
           /\ loading' = TRUE /\ error' = FALSE
           /\ UNCHANGED <<list, verdicts, outdated>>
  <2> DEFINE q == [op |-> "fetch", project |-> awaited[s].project, item |-> Nothing,
                   at |-> "sent", got |-> {}]
  <2>1. awaited' = [awaited EXCEPT ![s] = q]
    BY <1>4 DEF Request
  <2>2. q \in Awaited
    BY <1>1 DEF Awaited
  <2>3. /\ awaited' \in [Slots -> Awaited \cup {Nothing}]
        /\ awaited'[s] = q /\ \A t \in Slots : t # s => awaited'[t] = awaited[t]
    BY <2>1, <2>2 DEF PTypeOK
  <2>4. awaited'[s] # Nothing /\ awaited'[s].op = "fetch"
    BY <2>2, <2>3
  <2> HIDE DEF q
  <2>5. PTypeOK'
    BY <1>4, <2>3 DEF PTypeOK
  <2>6. SpinnerStops' /\ Agrees'
    BY <2>4 DEF SpinnerStops, Agrees, Relists
  <2>7. IdsApart' /\ DeletedGone'
    BY <2>3, <2>4 DEF IdsApart, DeletedGone
  <2>8. QED
    BY <2>5, <2>6, <2>7
<1>5. CASE /\ awaited[s].op = "delete" /\ awaited[s].at = "done"
           /\ list' = {r \in list : r.id # awaited[s].item}
           /\ Finish(s) /\ UNCHANGED <<error, verdicts, outdated>>
  <2>1. awaited' = [awaited EXCEPT ![s] = Nothing] /\ loading' = FALSE
    BY <1>5 DEF Finish
  <2>2. PTypeOK'
    BY <1>5, <2>1, AnswerEnds DEF PTypeOK
  <2>3. SpinnerStops' /\ IdsApart'
    BY <2>1 DEF SpinnerStops, IdsApart
  <2>4. DeletedGone'
    BY <2>1, AnswerEnds DEF DeletedGone
  <2>5. \A t \in Slots : Relists(t) => Relists(t)'
    BY <1>5, <2>1, AnswerEnds DEF Relists
  <2>6. \A r \in rows[project] : r.id # awaited[s].item
    BY <1>5 DEF DeletedGone, PTypeOK
  <2>7. ASSUME NEW r \in list', NEW t \in Slots, Deletes(t, r)
        PROVE  Deletes(t, r)'
    <3>1. t # s
      BY <1>5, <2>7 DEF Deletes
    <3>2. QED
      BY <2>1, <2>7, <3>1, AnswerEnds DEF Deletes
  <2>8. Agrees'
    <3> SUFFICES ASSUME ~outdated', ~ \E t \in Slots : Relists(t)'
                 PROVE  /\ rows[project] \subseteq list'
                        /\ \A r \in list' \ rows[project] : \E t \in Slots : Deletes(t, r)'
      BY DEF Agrees
    <3>1. /\ rows[project] \subseteq list
          /\ \A r \in list \ rows[project] : \E t \in Slots : Deletes(t, r)
      BY <1>5, <2>5 DEF Agrees
    <3>2. list' \subseteq list
      BY <1>5
    <3>3. QED
      BY <1>5, <2>6, <2>7, <3>1, <3>2
  <2>9. QED
    BY <2>2, <2>3, <2>4, <2>8
<1>6. QED
  BY <1>2, <1>3, <1>4, <1>5 DEF Listing, ListReturns, SaveReturns, DeleteReturns

\* So does the answer to a test.
LEMMA TestKeeps ==
  ASSUME SInv, NEW s \in Slots, awaited[s] # Nothing, TestReturns(s),
         UNCHANGED <<section, project, open, rows, begun>>
  PROVE  SInv'
<1> USE DEF SInv
<1>1. /\ awaited[s].op = "test" /\ awaited' = [awaited EXCEPT ![s] = Nothing]
      /\ UNCHANGED <<list, loading, error, outdated>>
  BY DEF TestReturns
<1>2. PTypeOK'
  <2>1. verdicts' \in [Items -> Verdicts]
    BY DEF TestReturns, PTypeOK, Verdicts
  <2>2. QED
    BY <1>1, <2>1, AnswerEnds DEF PTypeOK
<1>3. SpinnerStops'
  BY <1>1, AnswerEnds DEF SpinnerStops
<1>4. IdsApart' /\ DeletedGone'
  BY <1>1, AnswerEnds DEF IdsApart, DeletedGone
<1>5. \A t \in Slots : Relists(t) => Relists(t)'
  BY <1>1, AnswerEnds DEF Relists
<1>6. \A r : \A t \in Slots : Deletes(t, r) => Deletes(t, r)'
  BY <1>1, AnswerEnds DEF Deletes
<1>7. Agrees'
  BY <1>1, <1>5, <1>6 DEF Agrees
<1>8. QED
  BY <1>2, <1>3, <1>4, <1>7

\* Every way an answer is taken keeps the invariant.
LEMMA ReturnKeeps ==
  ASSUME SInv, NEW s \in Slots, Return(s)
  PROVE  SInv'
<1>1. Listing(s) \/ TestReturns(s)
  BY DEF Return, ModelConfigs, GitRepositories, CloudCredentials, TeamMembers, Integrations
<1>2. QED
  BY <1>1, ListingKeeps, TestKeeps DEF Return

\* What the server does with a request: its rows change only under the ids it has.
LEMMA ExecuteKeeps ==
  ASSUME SInv, NEW s \in Slots, Execute(s)
  PROVE  SInv'
<1> USE DEF SInv
<1> DEFINE p == awaited[s].project
           mine == {r \in rows[p] : r.id = awaited[s].item}
<1>1. awaited[s] # Nothing /\ awaited[s] \in Awaited /\ awaited[s].at = "sent" /\ p \in Projects
  BY DEF Execute, PTypeOK, Awaited
<1>2. UNCHANGED <<section, project, open, list, loading, error, verdicts, begun, outdated>>
  BY DEF Execute, store
<1>3. PICK read \in SUBSET Row, rs \in SUBSET Row :
        /\ Carry(s, read, p, rs)
        /\ \/ awaited[s].op \in {"fetch", "test"} /\ rs = rows[p]
           \/ /\ awaited[s].op = "create"
              /\ \E i \in Unused : rs = rows[p] \cup {[id |-> i, rev |-> 0]}
           \/ /\ awaited[s].op = "update"
              /\ \E r \in mine : rs = (rows[p] \ mine) \cup {[r EXCEPT !.rev = @ + 1]}
           \/ awaited[s].op = "delete" /\ mine # {} /\ rs = rows[p] \ mine
  <2>1. rows[p] \in SUBSET Row /\ {} \in SUBSET Row
    BY <1>1 DEF PTypeOK
  <2>2. \A i \in Unused : [id |-> i, rev |-> 0] \in Row
    BY DEF Unused, Row
  <2>3. \A r \in mine : r.rev < MaxRev => [r EXCEPT !.rev = @ + 1] \in Row
    BY <2>1 DEF Row
  <2>4. CASE awaited[s].op = "fetch" /\ Carry(s, rows[p], p, rows[p])
    BY <2>1, <2>4
  <2>5. CASE /\ awaited[s].op = "create"
             /\ \E i \in Unused : Carry(s, {}, p, rows[p] \cup {[id |-> i, rev |-> 0]})
    BY <2>1, <2>2, <2>5
  <2>6. CASE /\ awaited[s].op = "update"
             /\ \E r \in mine :
                  /\ r.rev < MaxRev
                  /\ Carry(s, {}, p, (rows[p] \ mine) \cup {[r EXCEPT !.rev = @ + 1]})
    BY <2>1, <2>3, <2>6
  <2>7. CASE awaited[s].op = "delete" /\ mine # {} /\ Carry(s, {}, p, rows[p] \ mine)
    BY <2>1, <2>7
  <2>8. CASE awaited[s].op = "test" /\ mine # {} /\ Carry(s, {}, p, rows[p])
    BY <2>1, <2>8
  <2>9. QED
    BY <2>4, <2>5, <2>6, <2>7, <2>8 DEF Execute
<1>4. [awaited[s] EXCEPT !.at = "done", !.got = read] \in Awaited
  BY <1>1 DEF Awaited
<1>5. /\ awaited' \in [Slots -> Awaited \cup {Nothing}]
      /\ awaited'[s] = [awaited[s] EXCEPT !.at = "done", !.got = read]
      /\ awaited'[s] # Nothing /\ \A t \in Slots : t # s => awaited'[t] = awaited[t]
  BY <1>1, <1>3, <1>4 DEF Carry, PTypeOK
<1>6. /\ awaited'[s].op = awaited[s].op /\ awaited'[s].item = awaited[s].item
      /\ awaited'[s].at = "done"
  BY <1>1, <1>5 DEF Awaited
<1>7. /\ rows' \in [Projects -> SUBSET Row] /\ rows'[p] = rs
      /\ \A q \in Projects : q # p => rows'[q] = rows[q]
  BY <1>1, <1>3 DEF Carry, PTypeOK
<1> HIDE DEF p
<1>8. PTypeOK'
  BY <1>2, <1>5, <1>7 DEF PTypeOK
<1>9. SpinnerStops'
  BY <1>1, <1>2, <1>5, <1>6 DEF SpinnerStops
<1>10. ASSUME NEW t \in Slots, awaited[t] # Nothing
       PROVE  /\ awaited'[t] # Nothing
              /\ awaited'[t].op = awaited[t].op /\ awaited'[t].item = awaited[t].item
  BY <1>5, <1>6, <1>10
<1>11. \A r \in rs : \/ \E o \in rows[p] : o.id = r.id
                     \/ awaited[s].op = "create" /\ r.id \in Unused
  <2>1. \A r \in mine : [r EXCEPT !.rev = @ + 1].id = r.id
    BY <1>1 DEF PTypeOK, Row
  <2>2. \A i \in Unused : [id |-> i, rev |-> 0].id = i
    OBVIOUS
  <2> TAKE r \in rs
  <2>3. CASE r \in rows[p]
    BY <2>3
  <2>4. CASE r \notin rows[p]
    <3>1. CASE awaited[s].op = "create"
      BY <1>3, <2>2, <2>4, <3>1
    <3>2. CASE awaited[s].op = "update"
      BY <1>3, <2>1, <2>4, <3>2
    <3>3. QED
      BY <1>3, <2>4, <3>1, <3>2
  <2>5. QED
    BY <2>3, <2>4
<1>12. \A i \in Unused : /\ \A q \in Projects : \A r \in rows[q] : r.id # i
                         /\ \A t \in Slots : awaited[t] # Nothing => awaited[t].item # i
  BY DEF Unused, Ids, Idle
<1>13. IdsApart'
  <2> SUFFICES ASSUME NEW q \in Projects, q # p, NEW r \in rs, NEW t \in rows[q], r.id = t.id
               PROVE  FALSE
    BY <1>1, <1>7 DEF IdsApart
  <2>1. QED
    BY <1>1, <1>11, <1>12 DEF IdsApart
<1>14. DeletedGone'
  <2> SUFFICES ASSUME NEW t \in Slots, awaited'[t] # Nothing, awaited'[t].op = "delete",
                      awaited'[t].at = "done", NEW q \in Projects, NEW r \in rows'[q],
                      r.id = awaited'[t].item
               PROVE  FALSE
    BY DEF DeletedGone
  <2>1. CASE t # s
    <3>1. awaited[t] # Nothing /\ awaited[t].op = "delete" /\ awaited[t].at = "done"
      BY <1>5, <2>1
    <3>2. \A o \in rows[q] \cup rows[p] : o.id # awaited[t].item
      BY <1>1, <3>1 DEF DeletedGone
    <3>3. QED
      BY <1>5, <1>7, <1>11, <1>12, <2>1, <3>1, <3>2
  <2>2. CASE t = s
    <3>1. mine # {} /\ rs = rows[p] \ mine
      BY <1>3, <1>6, <2>2
    <3>2. CASE q = p
      BY <1>6, <1>7, <2>2, <3>1, <3>2
    <3>3. CASE q # p
      BY <1>1, <1>6, <1>7, <2>2, <3>1, <3>3 DEF IdsApart
    <3>4. QED
      BY <3>2, <3>3
  <2>3. QED
    BY <2>1, <2>2
<1>15. Agrees'
  <2> SUFFICES ASSUME ~outdated', ~ \E t \in Slots : Relists(t)'
               PROVE  /\ rows'[project] \subseteq list
                      /\ \A r \in list \ rows'[project] : \E t \in Slots : Deletes(t, r)'
    BY <1>2 DEF Agrees
  <2>1. ~ \E t \in Slots : Relists(t)
    BY <1>10 DEF Relists
  <2>2. /\ rows[project] \subseteq list
        /\ \A r \in list \ rows[project] : \E t \in Slots : Deletes(t, r)
    BY <1>2, <2>1 DEF Agrees
  <2>3. \A r : \A t \in Slots : Deletes(t, r) => Deletes(t, r)'
    BY <1>5, <1>6 DEF Deletes
  <2>4. awaited[s].op \notin {"fetch", "create", "update"}
    BY <1>1, <2>1 DEF Relists
  <2>5. CASE rows'[project] = rows[project]
    BY <2>2, <2>3, <2>5
  <2>6. CASE rows'[project] # rows[project]
    <3>1. p = project /\ awaited[s].op = "delete" /\ rs = rows[p] \ mine
      BY <1>3, <1>7, <2>4, <2>6 DEF PTypeOK
    <3>2. \A r \in mine : Deletes(s, r)'
      BY <1>5, <1>6, <3>1 DEF Deletes
    <3>3. QED
      BY <1>7, <2>2, <2>3, <3>1, <3>2
  <2>7. QED
    BY <2>5, <2>6
<1>16. QED
  BY <1>8, <1>9, <1>13, <1>14, <1>15

\* A refusal keeps the invariant.
LEMMA RefuseKeeps ==
  ASSUME SInv, NEW s \in Slots, Refuse(s)
  PROVE  SInv'
<1> USE DEF SInv
<1>1. /\ awaited[s] # Nothing /\ awaited[s] \in Awaited
      /\ awaited' = [awaited EXCEPT ![s].at = "refused", ![s].got = {}]
      /\ UNCHANGED <<section, project, open, rows, list, loading, error, verdicts, begun, outdated>>
  BY DEF Refuse, PTypeOK, store
<1>2. [awaited[s] EXCEPT !.at = "refused", !.got = {}] \in Awaited
  BY <1>1 DEF Awaited
<1>3. /\ awaited' \in [Slots -> Awaited \cup {Nothing}]
      /\ awaited'[s] = [awaited[s] EXCEPT !.at = "refused", !.got = {}]
      /\ awaited'[s] # Nothing /\ \A t \in Slots : t # s => awaited'[t] = awaited[t]
  BY <1>1, <1>2 DEF PTypeOK
<1>4. /\ awaited'[s].op = awaited[s].op /\ awaited'[s].item = awaited[s].item
      /\ awaited'[s].at = "refused"
  BY <1>1, <1>3 DEF Awaited
<1>5. PTypeOK'
  BY <1>1, <1>3 DEF PTypeOK
<1>6. SpinnerStops'
  BY <1>1, <1>3, <1>4 DEF SpinnerStops
<1>7. IdsApart' /\ DeletedGone'
  BY <1>1, <1>3, <1>4 DEF IdsApart, DeletedGone
<1>8. \A t \in Slots : Relists(t) => Relists(t)'
  BY <1>3, <1>4 DEF Relists
<1>9. \A r : \A t \in Slots : Deletes(t, r) => Deletes(t, r)'
  BY <1>3, <1>4 DEF Deletes
<1>10. Agrees'
  BY <1>1, <1>8, <1>9 DEF Agrees
<1>11. QED
  BY <1>5, <1>6, <1>7, <1>10

\* Every step keeps it.
LEMMA SettingsNext == SInv /\ [PNext]_pvars => SInv'
<1> SUFFICES ASSUME SInv, [PNext]_pvars PROVE SInv'
  OBVIOUS
<1>1. project \in Projects /\ \A i \in Ids(list) : i \in Items
  BY DEF SInv, PTypeOK, Ids, Row
<1>2. CASE Open
  BY <1>1, <1>2, BeginKeeps DEF Open
<1>3. CASE Close
  BY <1>3 DEF Close, SInv, PTypeOK, SpinnerStops, IdsApart, DeletedGone, Agrees, Relists, Deletes
<1>4. CASE Submit
  <2>1. UNCHANGED <<section, rows, project, outdated>> /\ open' \in BOOLEAN
    BY <1>4 DEF Submit, SInv, PTypeOK
  <2>2. CASE Begin("create", project, Nothing)
    BY <1>1, <2>1, <2>2, BeginKeeps
  <2>3. CASE \E i \in Ids(list) : Begin("update", project, i)
    BY <1>1, <2>1, <2>3, BeginKeeps
  <2>4. QED
    BY <1>4, <2>2, <2>3 DEF Submit
<1>5. CASE Delete
  <2>1. UNCHANGED <<section, rows, project, outdated>> /\ open' \in BOOLEAN
    BY <1>5 DEF Delete, SInv, PTypeOK
  <2>2. QED
    BY <1>1, <1>5, <2>1, BeginKeeps DEF Delete
<1>6. CASE Test
  <2>1. UNCHANGED <<section, rows, project, outdated>> /\ open' \in BOOLEAN
    BY <1>6 DEF Test, SInv, PTypeOK
  <2>2. QED
    BY <1>1, <1>6, <2>1, BeginKeeps DEF Test
<1>7. CASE SessionExpires
  <2>1. PTypeOK'
    BY <1>7 DEF SessionExpires, SInv, PTypeOK, Verdicts
  <2>2. QED
    BY <1>7, <2>1
    DEF SessionExpires, SInv, SpinnerStops, IdsApart, DeletedGone, Agrees
<1>8. ASSUME NEW p \in Projects, SwitchProject(p) PROVE SInv'
  <2>1. UNCHANGED <<section, open, rows>> /\ project' = p /\ outdated' = TRUE
    BY <1>8 DEF SwitchProject
  <2>2. CASE Begin("fetch", p, Nothing)
    BY <2>1, <2>2, BeginKeeps DEF SInv, PTypeOK
  <2>3. CASE UNCHANGED <<store, awaited, begun>>
    BY <2>1, <2>3 DEF store, SInv, PTypeOK, SpinnerStops, IdsApart, DeletedGone, Agrees
  <2>4. QED
    BY <1>8, <2>2, <2>3 DEF SwitchProject
<1>9. ASSUME NEW s \in Slots, Execute(s) \/ Refuse(s) \/ Return(s) PROVE SInv'
  BY <1>9, ExecuteKeeps, RefuseKeeps, ReturnKeeps
<1>10. CASE UNCHANGED pvars
  BY <1>10
  DEF pvars, store, SInv, PTypeOK, SpinnerStops, IdsApart, DeletedGone, Agrees, Relists, Deletes
<1>11. QED
  BY <1>2, <1>3, <1>4, <1>5, <1>6, <1>7, <1>8, <1>9, <1>10 DEF PNext

\* It holds always.
LEMMA SettingsHeld == PSpec => []SInv
  BY SettingsInit, SettingsNext, PTL DEF PSpec

\* Every variable of the settings has its type (useProjectSettingsStore).
THEOREM SettingsTyped == PSpec => []PTypeOK
<1>1. SInv => PTypeOK
  BY DEF SInv
<1>2. QED
  BY <1>1, SettingsHeld, PTL

\* The flag isLoading is never left set (useProjectSettingsStore).
THEOREM SpinnersStop == PSpec => []SpinnerStops
<1>1. SInv => SpinnerStops
  BY DEF SInv
<1>2. QED
  BY <1>1, SettingsHeld, PTL

\* With nothing under way, the list is what the server has for the project shown,
\* whatever requests overlapped before (useProjectSettingsStore).
THEOREM ListsSettle == PSpec => []ListSettles
<1>1. SInv => ListSettles
  <2> SUFFICES ASSUME SInv, Idle = Slots, ~outdated PROVE list = rows[project]
    BY DEF ListSettles
  <2>1. \A s \in Slots : ~Relists(s) /\ \A r : ~Deletes(s, r)
    BY DEF Idle, Relists, Deletes
  <2>2. rows[project] \subseteq list /\ list \ rows[project] = {}
    BY <2>1 DEF SInv, Agrees
  <2>3. QED
    BY <2>2
<1>2. QED
  BY <1>1, SettingsHeld, PTL

=============================================================================
