---------------------------- MODULE ClientSession ----------------------------
(***************************************************************************)
(* Who is signed in, in the tabs of one browser.  The same fact is kept in  *)
(* five places: the keys iacgenie_user, iacgenie_token and iacgenie-auth of *)
(* localStorage, which the tabs share, and in each tab the token of         *)
(* LocalAuthService, the user and token of useAuthStore (which persists     *)
(* them as iacgenie-auth whenever it is set) and the user of useAppStore.   *)
(* No tab hears of what another one stores.                                 *)
(*                                                                          *)
(* Requests have four styles, which differ in where they take their token   *)
(* from and in what they clear when it is refused: retryWithFreshToken      *)
(* ("wrapper"), apiClient ("client"), the settings store ("settings"), and  *)
(* billing with the wrapper service ("plain").  A step is what runs between *)
(* two awaits.  External: the server, which refuses dead tokens only, and   *)
(* refreshes a dead one if its provider does.  Left out: roles, projects,   *)
(* and the format of tokens, which are all well-formed.                     *)
(***************************************************************************)
EXTENDS Naturals, Sequences

CONSTANTS
  Accounts,
  Tabs,
  Calls,         \* requests that may be under way at once
  MaxTokens,     \* bound: tokens the server issues
  NetMayFail,    \* whether a refresh may fail although its token is alive
  None           \* no account, no token, no call

ASSUME ClientAssumption ==
  /\ MaxTokens \in Nat
  /\ NetMayFail \in BOOLEAN
  /\ None \notin Accounts /\ None \notin Nat

VARIABLES
  storage,   \* localStorage: iacgenie_user, iacgenie_token; iacgenie-auth in two
  mem,       \* mem[t] : LocalAuthService.authToken
  auth,      \* auth[t] : user and token of useAuthStore
  shown,     \* shown[t] : the user of useAppStore
  leaving,   \* tabs that navigate to /signin
  call,      \* call[c] : a request, or a sign-in, and the token it was sent with
  owner,     \* the accounts of the tokens issued so far
  dead,      \* tokens that are expired or revoked
  over,      \* the browser was signed out, and nobody signed in since (history)
  covered,   \* a tab that nobody was signed in to wrote iacgenie-auth (history)
  twice,     \* a form was submitted while its tab verified a callback (history)
  gone       \* the sessions that were signed out or given up, by their tokens (history)

tab == <<mem, auth, shown, leaving>>
server == <<owner, dead>>
history == <<over, covered, twice, gone>>
vars == <<storage, tab, call, server, history>>

Tokens == 1..MaxTokens
Styles == {"wrapper", "client", "settings", "plain"}
SignIns == {"login", "callback"}

Nobody == [user |-> None, token |-> None]
Empty == [user |-> None, token |-> None, auth |-> Nobody]

Record == [user : Accounts \cup {None}, token : Tokens \cup {None}]
Call == [tab : Tabs, style : Styles \cup SignIns, at : {"sent", "refresh", "retry"},
         token : Tokens \cup {None}]

Live(n) == n \in DOMAIN owner /\ n \notin dead
Authenticated(t) == auth[t].user # None /\ auth[t].token # None

\* A new token of the account a.
Issue(a) == Len(owner) < MaxTokens /\ owner' = Append(owner, a)
NewToken == Len(owner) + 1

(***************************************************************************)
(* The places.                                                              *)
(***************************************************************************)
\* getAuthToken: memory, the stored token, the one of the store.
AuthToken(t) ==
  IF mem[t] # None THEN mem[t]
  ELSE IF storage.token # None THEN storage.token
  ELSE storage.auth.token

\* What getAuthToken leaves behind: it remembers the token, and stores one that was
\* found in iacgenie-auth only.
Remembered(t) == [mem EXCEPT ![t] = AuthToken(t)]
Healed(t) == [storage EXCEPT !.token =
                IF mem[t] = None /\ @ = None THEN storage.auth.token ELSE @]

\* Seeded fault: the persisted store is left to useAuthStore.
ClearedButStore(s) == [s EXCEPT !.user = None, !.token = None]

\* clearStorage, without the memory of the tab.
Cleared(s) == Empty

\* Seeded fault: only the token is removed.
TokenRemoved(s) == [s EXCEPT !.token = None]

\* What clearAuthData and the plain style remove.
ClearedInPlace(s) == [s EXCEPT !.user = None, !.token = None]

(***************************************************************************)
(* Pages.                                                                   *)
(***************************************************************************)
\* A page load: LocalAuthService and useAuthStore read localStorage, and initializeAuth
\* removes a user without a token, or a token without its user.  Requests are dropped.
LoadPage(t) ==
  LET whole == storage.user # None /\ storage.token # None
  IN  /\ mem' = [mem EXCEPT ![t] = IF whole THEN storage.token ELSE None]
      /\ auth' = [auth EXCEPT ![t] = storage.auth]
      /\ shown' = [shown EXCEPT ![t] = IF whole THEN storage.user ELSE None]
      /\ leaving' = leaving \ {t}
      /\ storage' = IF whole THEN storage ELSE ClearedInPlace(storage)

Without(t) == [c \in Calls |-> IF call[c] # None /\ call[c].tab = t THEN None ELSE call[c]]

\* The user reloads a page, or the browser follows window.location.
Load(t) ==
  /\ LoadPage(t)
  /\ call' = Without(t)
  /\ UNCHANGED <<server, history>>

\* Keycloak sends the browser back with a token.  handleKeycloakCallback verifies it,
\* if the store of the loaded page has nobody.
Callback(t, a, c) ==
  /\ LoadPage(t)
  /\ Issue(a)
  /\ IF storage.auth.user # None /\ storage.auth.token # None THEN call' = Without(t)
     ELSE /\ Without(t)[c] = None
          /\ call' = [Without(t) EXCEPT ![c] =
                        [tab |-> t, style |-> "callback", at |-> "sent", token |-> NewToken]]
  /\ UNCHANGED <<dead, history>>

-----------------------------------------------------------------------------
\* Signing in.

Pending(t, style) ==
  \E c \in Calls : call[c] # None /\ call[c].tab = t /\ call[c].style = style

\* Any set of useAuthStore persists what the tab's store has.  covered: that hides who
\* is signed in to the browser.
Persist(t, s) ==
  /\ storage' = [s EXCEPT !.auth = auth'[t]]
  /\ covered' = (s.user # None /\ (covered \/ auth'[t].user # s.user))

\* handleSubmit and useAuthStore.login: PublicOnlyRoute shows the form to nobody who is
\* signed in, and isLoading disables it while it is submitted.
Login(t, c) ==
  /\ ~Authenticated(t) /\ t \notin leaving /\ ~Pending(t, "login")
  /\ call[c] = None
  /\ call' = [call EXCEPT ![c] =
                [tab |-> t, style |-> "login", at |-> "sent", token |-> None]]
  /\ twice' = (twice \/ Pending(t, "callback"))
  /\ UNCHANGED <<tab, server, over, gone>>
  /\ Persist(t, storage)

\* What a successful sign-in of either kind writes: LocalAuthService the user and the
\* token, the store both, SignInPage the user that is shown.
SignedIn(t, a, n) ==
  /\ mem' = [mem EXCEPT ![t] = n]
  /\ auth' = [auth EXCEPT ![t] = [user |-> a, token |-> n]]
  /\ shown' = [shown EXCEPT ![t] = a]
  /\ storage' = [user |-> a, token |-> n, auth |-> auth'[t]]
  /\ over' = FALSE /\ covered' = FALSE
  /\ UNCHANGED <<leaving, twice, gone>>

Done(c) == call' = [call EXCEPT ![c] = None]

LoginSucceeds(c, a) ==
  /\ call[c] # None /\ call[c].style = "login"
  /\ Issue(a)
  /\ SignedIn(call[c].tab, a, NewToken)
  /\ Done(c)
  /\ UNCHANGED dead

LoginFails(c) ==
  /\ call[c] # None /\ call[c].style = "login"
  /\ Done(c)
  /\ UNCHANGED <<tab, server, over, twice, gone>>
  /\ Persist(call[c].tab, storage)

\* verifyToken for the callback.
CallbackSucceeds(c) ==
  /\ call[c] # None /\ call[c].style = "callback" /\ Live(call[c].token)
  /\ SignedIn(call[c].tab, owner[call[c].token], call[c].token)
  /\ Done(c)
  /\ UNCHANGED server

\* A token that is not valid clears the storage, whoever is signed in.
CallbackFails(c) ==
  /\ call[c] # None /\ call[c].style = "callback"
  /\ call[c].token \in dead \/ NetMayFail
  /\ storage' = Cleared(storage)
  /\ mem' = [mem EXCEPT ![call[c].tab] = None]
  /\ Done(c)
  /\ covered' = FALSE
  /\ UNCHANGED <<auth, shown, leaving, server, over, twice, gone>>

\* signOut of useAppStore, and logout of useAuthStore.
SignOut(t) ==
  /\ Authenticated(t) /\ t \notin leaving
  /\ mem' = [mem EXCEPT ![t] = None]
  /\ auth' = [auth EXCEPT ![t] = Nobody]
  /\ shown' = [shown EXCEPT ![t] = None]
  /\ storage' = [Cleared(storage) EXCEPT !.auth = auth'[t]]
  /\ over' = TRUE /\ covered' = FALSE
  /\ gone' = gone \cup ({auth[t].token, storage.auth.token} \ {None})
  /\ UNCHANGED <<leaving, call, server, twice>>

(***************************************************************************)
(* Requests.                                                                *)
(***************************************************************************)
At(c, step) == call[c] # None /\ call[c].style \in Styles /\ call[c].at = step

\* The request c goes on with the token n.
MovedTo(c, step, n) ==
  [call EXCEPT ![c] = [tab |-> @.tab, style |-> @.style, at |-> step, token |-> n]]

\* A page behind ProtectedRoute sends a request, or signIn of useAppStore asks for the
\* projects of the user it shows; without a token both throw before.
Send(t, style, c) ==
  /\ Authenticated(t) \/ (style = "wrapper" /\ shown[t] # None)
  /\ t \notin leaving
  /\ call[c] = None
  /\ LET n == IF style = "settings" THEN storage.token ELSE AuthToken(t)
     IN  /\ n # None
         /\ call' = [call EXCEPT ![c] =
                       [tab |-> t, style |-> style, at |-> "sent", token |-> n]]
  /\ IF style = "settings" THEN UNCHANGED <<storage, mem>>
     ELSE storage' = Healed(t) /\ mem' = Remembered(t)
  /\ UNCHANGED <<auth, shown, leaving, server, history>>

\* An answer other than 401, or any to a retried request.
Answered(c) ==
  /\ At(c, "sent") \/ At(c, "retry")
  /\ Done(c)
  /\ UNCHANGED <<storage, tab, server, history>>

\* After a refresh that gave no token: retryWithFreshToken and the settings store clear
\* everything and go to /signin, apiClient clears what it knows of and stays.
GivesUp(c, s) ==
  LET t == call[c].tab
  IN  IF call[c].style = "client"
      THEN storage' = ClearedInPlace(s) /\ UNCHANGED <<leaving, gone>>
      ELSE /\ storage' = Cleared(s)
           /\ leaving' = leaving \cup {t}
           /\ gone' = gone \cup ({auth[t].token} \ {None})

\* Seeded fault: any failing answer counts as a 401.
UnauthorizedOrFailed(c) ==
  /\ At(c, "sent")
  /\ call[c].style = "plain"
  /\ storage' = ClearedInPlace(storage)
  /\ Done(c)
  /\ covered' = FALSE
  /\ UNCHANGED <<tab, server, over, twice, gone>>

\* 401 for a style that does not refresh.
Unauthorized(c) ==
  /\ At(c, "sent")
  /\ call[c].style = "plain" /\ call[c].token \in dead
  /\ storage' = ClearedInPlace(storage)
  /\ Done(c)
  /\ covered' = FALSE
  /\ UNCHANGED <<tab, server, over, twice, gone>>

\* 401 for the others: refreshToken sends what getAuthToken returns now.
Refreshes(c) ==
  /\ At(c, "sent")
  /\ call[c].style # "plain" /\ call[c].token \in dead
  /\ LET t == call[c].tab
     IN  IF AuthToken(t) = None
         THEN /\ GivesUp(c, storage)
              /\ mem' = [mem EXCEPT ![t] = None]
              /\ Done(c) /\ covered' = FALSE
         ELSE /\ storage' = Healed(t) /\ mem' = Remembered(t)
              /\ call' = MovedTo(c, "refresh", AuthToken(t))
              /\ UNCHANGED <<leaving, covered, gone>>
  /\ UNCHANGED <<auth, shown, server, over, twice>>

\* Seeded fault: the refreshed session is stored with the user that is shown.
RefreshSucceedsWithUser(c) ==
  /\ At(c, "refresh")
  /\ Issue(owner[call[c].token])
  /\ LET t == call[c].tab
     IN  /\ mem' = [mem EXCEPT ![t] = NewToken]
         /\ storage' = [storage EXCEPT !.token = NewToken, !.user = auth[t].user]
  /\ call' = MovedTo(c, "retry", NewToken)
  /\ UNCHANGED <<auth, shown, leaving, dead, history>>

\* The new token is remembered and stored, and the request sent again with it.
RefreshSucceeds(c) ==
  /\ At(c, "refresh")
  /\ Issue(owner[call[c].token])
  /\ mem' = [mem EXCEPT ![call[c].tab] = NewToken]
  /\ storage' = [storage EXCEPT !.token = NewToken]
  /\ call' = MovedTo(c, "retry", NewToken)
  /\ UNCHANGED <<auth, shown, leaving, dead, history>>

\* A refusal, or a failing connection, clears everything, and then what GivesUp clears.
RefreshFails(c) ==
  /\ At(c, "refresh")
  /\ call[c].token \in dead \/ NetMayFail
  /\ mem' = [mem EXCEPT ![call[c].tab] = None]
  /\ GivesUp(c, Cleared(storage))
  /\ Done(c)
  /\ covered' = FALSE
  /\ UNCHANGED <<auth, shown, server, over, twice>>

\* External: a token expires, or is revoked.
Expires(n) ==
  /\ Live(n)
  /\ dead' = dead \cup {n}
  /\ UNCHANGED <<storage, tab, call, owner, history>>

(***************************************************************************)
(* The specification.                                                       *)
(***************************************************************************)
Init ==
  /\ storage = Empty
  /\ mem = [t \in Tabs |-> None]
  /\ auth = [t \in Tabs |-> Nobody]
  /\ shown = [t \in Tabs |-> None]
  /\ leaving = {}
  /\ call = [c \in Calls |-> None]
  /\ owner = <<>>
  /\ dead = {}
  /\ over = TRUE
  /\ covered = FALSE
  /\ twice = FALSE
  /\ gone = {}

Answer(c) ==
  \/ \E a \in Accounts : LoginSucceeds(c, a)
  \/ LoginFails(c)
  \/ CallbackSucceeds(c)
  \/ CallbackFails(c)
  \/ Answered(c)
  \/ Unauthorized(c)
  \/ Refreshes(c)
  \/ RefreshSucceeds(c)
  \/ RefreshFails(c)

Next ==
  \/ \E t \in Tabs :
       \/ Load(t)
       \/ SignOut(t)
       \/ \E c \in Calls :
            \/ Login(t, c)
            \/ \E a \in Accounts : Callback(t, a, c)
            \/ \E style \in Styles : Send(t, style, c)
  \/ \E c \in Calls : Answer(c)
  \/ \E n \in Tokens : Expires(n)

Spec == Init /\ [][Next]_vars

TypeOK ==
  /\ storage \in [user : Accounts \cup {None}, token : Tokens \cup {None}, auth : Record]
  /\ mem \in [Tabs -> Tokens \cup {None}]
  /\ auth \in [Tabs -> Record]
  /\ shown \in [Tabs -> Accounts \cup {None}]
  /\ leaving \in SUBSET Tabs
  /\ call \in [Calls -> Call \cup {None}]
  /\ owner \in Seq(Accounts) /\ Len(owner) <= MaxTokens
  /\ dead \in SUBSET Tokens
  /\ over \in BOOLEAN /\ covered \in BOOLEAN /\ twice \in BOOLEAN /\ gone \in SUBSET Tokens

(***************************************************************************)
(* What holds.                                                              *)
(***************************************************************************)
\* However tabs sign in and out at once, localStorage names at most one account: a user
\* has a token, the persisted store has no other user, and has that one unless a tab with
\* a sign-in form has written its own empty store over it (set in useAuthStore.login).
\* A form that was submitted beside a callback may also write a store that is too old.
StoreAgrees ==
  /\ storage.user # None => storage.token # None
  /\ ~twice /\ storage.user # None =>
       storage.auth.user = storage.user \/ (storage.auth.user = None /\ covered)

\* After a sign-out no request that was still under way, in any tab, brings the account
\* back into what the next page load reads.
NoRevival == over => storage.user = None /\ (storage.auth = Nobody \/ twice)

\* While the server accepts its token, the stored session ends only by its user, by a
\* call that was sent with another token (of another tab, or from before a refresh), or
\* by a refresh whose connection failed.
EndedKnowingly ==
  [][storage.user # None /\ Live(storage.token) /\ storage'.user = None
       => \/ \E t \in Tabs : Authenticated(t) /\ ~Authenticated(t)'
          \/ \E c \in Calls :
               /\ call[c] # None /\ call'[c] = None
               /\ \/ call[c].token \notin {None, storage.token}
                  \/ NetMayFail /\ call[c].at = "refresh"]_vars

\* A session that was signed out in one tab, or that a tab could not refresh and left for
\* /signin, is in no tab's way again: no other tab that still has it stores it back, so no
\* page load finds it and PublicOnlyRoute bounces nobody to a dashboard that cannot load.
EndedStaysEnded == storage.auth.token \in gone => twice
=============================================================================
