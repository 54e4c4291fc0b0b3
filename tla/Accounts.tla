------------------------------ MODULE Accounts ------------------------------
(***************************************************************************)
(* The accounts of LightServ: src/lightserv/src/auth.ts behind the handlers *)
(* of api-routes.ts, over the database helpers of db.ts.                    *)
(*                                                                          *)
(* An address is registered in two places that no transaction joins: a row  *)
(* of the table users and a user of Keycloak.  Every look at either of them *)
(* is awaited, so requests overlap between their steps.  The helpers of     *)
(* db.ts swallow errors: a SELECT that fails finds nothing, an UPDATE that  *)
(* fails changes nothing, and most callers go on as if it had worked.  The  *)
(* process may also stop between two steps.                                 *)
(*                                                                          *)
(* Not here: the form of the requests, password hashing (a password is the  *)
(* number of the write that chose it, so two are never the same), the       *)
(* columns only shown to users, and a call that is refused before it has    *)
(* changed anything, which is the same as no call.                          *)
(***************************************************************************)
EXTENDS Naturals, FiniteSets

CONSTANTS
  Emails,       \* addresses; the row of an address is found by it or by its id
  Callers,      \* requests in progress
  ApiKeys,      \* API keys that may be created
  DbMayFail,    \* whether a statement of PostgreSQL may fail
  KcMayFail,    \* whether a call of Keycloak may fail
  MayCrash,     \* whether the process may stop and start again
  MaxPasswords, \* bound: passwords chosen
  MaxTokens,    \* bound: reset tokens drawn
  None          \* no row, no Keycloak user, no call

ASSUME AccountsAssumption ==
  /\ DbMayFail \in BOOLEAN
  /\ KcMayFail \in BOOLEAN
  /\ MayCrash \in BOOLEAN
  /\ MaxPasswords \in Nat
  /\ MaxTokens \in Nat

VARIABLES
  users,      \* users[e] : the row of e, or None
  keycloak,   \* keycloak[e] : the Keycloak user of e, or None
  keys,       \* keys[k] : the row of api_keys, or None
  call,       \* call[c] : the request of c and the step it is about to take
  pending,    \* addresses with a detached verification mail under way
  links,      \* addresses that were sent a verification link by LightServ
  kcLinks,    \* addresses that were sent one by Keycloak
  resetMails, \* reset tokens that were mailed
  sessions,   \* addresses with a token of a local login
  passwords,  \* number of passwords chosen so far
  tokens,     \* number of reset tokens drawn so far
  proved,     \* addresses whose owner opened a link (history)
  entered,    \* addresses that Keycloak gave to a callback (history)
  retired,    \* passwords that were replaced (history)
  used,       \* reset tokens that have set a password (history)
  told,       \* API keys whose owner was told they are revoked (history)
  troubled    \* addresses a call of which met a failure (history)

tables == <<users, keycloak, keys>>
mail == <<pending, links, kcLinks, resetMails>>
history == <<proved, entered, retired, used, told, troubled>>
vars == <<tables, call, mail, sessions, passwords, tokens, history>>

\* by: which write made it, a signup by its password or 0 for Keycloak's own form.
Row == [linked : BOOLEAN, verified : BOOLEAN, pass : Nat, token : Nat, by : Nat]
KcUser == [verified : BOOLEAN, by : Nat]
Key == [owner : Emails, active : BOOLEAN]

\* at: the step that comes next.  since: what was retired, used or told when the
\* request began (history).
SignupCall == [at : {"lookup", "create", "insert"}, email : Emails, pass : Nat,
               linked : BOOLEAN]
VerifyCall == [at : {"mark", "follow"}, email : Emails, linked : BOOLEAN]
SyncCall == [at : {"sync"}, email : Emails, known : BOOLEAN]
LoginCall == [at : {"check"}, email : Emails, pass : Nat, hash : Nat, since : SUBSET Nat]
TokenCall == [at : {"token"}, email : Emails, token : Nat]
ResetCall == [at : {"reset"}, email : Emails, token : Nat, pass : Nat, since : SUBSET Nat]
ChangeCall == [at : {"change"}, email : Emails, pass : Nat]
KeyCall == [at : {"touch"}, key : ApiKeys, since : SUBSET ApiKeys]
Call == SignupCall \cup VerifyCall \cup SyncCall \cup LoginCall \cup TokenCall
          \cup ResetCall \cup ChangeCall \cup KeyCall

ASSUME NoneIsNothing == None \notin Row \cup KcUser \cup Key \cup Call

Idle == None

DbOk == IF DbMayFail THEN BOOLEAN ELSE {TRUE}
KcOk == IF KcMayFail THEN BOOLEAN ELSE {TRUE}

HasRow(e) == users[e] # None

Begin(c, r) == call' = [call EXCEPT ![c] = r]
Go(c, step) == call' = [call EXCEPT ![c].at = step]
Return(c) == call' = [call EXCEPT ![c] = Idle]
At(c, step) == call[c] # Idle /\ call[c].at = step

\* A row that has no password yet retires none.
Retire(p) == retired' = retired \cup ({p} \ {0})

\* A statement or a call that did not work as intended is remembered.
Note(e, ok) == troubled' = IF ok THEN troubled ELSE troubled \cup {e}

(***************************************************************************)
(* Signing up.                                                              *)
(***************************************************************************)
\* signupWithEmail: Keycloak is asked for the address; an error is only logged.
Signup(c, e) ==
  /\ call[c] = Idle
  /\ passwords < MaxPasswords
  /\ \E ok \in KcOk : ok => keycloak[e] = None
  /\ passwords' = passwords + 1
  /\ Begin(c, [at |-> "lookup", email |-> e, pass |-> passwords + 1, linked |-> FALSE])
  /\ UNCHANGED <<tables, mail, sessions, tokens, history>>

\* Seeded fault: the user is created first, and the table is looked at afterwards.
SignupLooksUpLate(c) ==
  /\ At(c, "lookup")
  /\ keycloak' = [keycloak EXCEPT ![call[c].email] =
                    IF @ = None THEN [verified |-> FALSE, by |-> call[c].pass] ELSE @]
  /\ \E ok \in DbOk : IF ok /\ ~HasRow(call[c].email) THEN Go(c, "create") ELSE Return(c)
  /\ UNCHANGED <<users, keys, mail, sessions, passwords, tokens, history>>

SignupLooksUp(c) ==
  /\ At(c, "lookup")
  /\ \E ok \in DbOk : IF ok /\ HasRow(call[c].email) THEN Return(c) ELSE Go(c, "create")
  /\ UNCHANGED <<tables, mail, sessions, passwords, tokens, history>>

\* The address is created at Keycloak.  A refusal, also because the address is
\* there by now, leaves the row without a Keycloak user, and so does an answer
\* that is lost after Keycloak has created it.
SignupCreates(c) ==
  /\ At(c, "create")
  /\ LET e == call[c].email IN
     \E ok \in KcOk :
       \/ /\ keycloak[e] = None
          /\ keycloak' = [keycloak EXCEPT ![e] = [verified |-> FALSE, by |-> call[c].pass]]
          /\ call' = [call EXCEPT ![c].at = "insert", ![c].linked = ok]
          /\ Note(e, ok)
       \/ /\ keycloak[e] # None \/ ~ok
          /\ Go(c, "insert")
          /\ Note(e, ok)
          /\ UNCHANGED keycloak
  /\ UNCHANGED <<users, keys, mail, sessions, passwords, tokens,
                 proved, entered, retired, used, told>>

\* The INSERT fails on an error and on an address that has a row; the caller is
\* told, and what was created at Keycloak stays.
SignupInserts(c) ==
  /\ At(c, "insert")
  /\ LET e == call[c].email IN
     \E ok \in DbOk :
       /\ Note(e, ok)
       /\ IF ok /\ ~HasRow(e)
          THEN /\ users' = [users EXCEPT ![e] =
                   [linked |-> call[c].linked, verified |-> FALSE, pass |-> call[c].pass,
                    token |-> 0, by |-> call[c].pass]]
               /\ pending' = pending \cup {e}
          ELSE UNCHANGED <<users, pending>>
  /\ Return(c)
  /\ UNCHANGED <<keycloak, keys, links, kcLinks, resetMails, sessions, passwords, tokens,
                 proved, entered, retired, used, told>>

\* sendVerificationEmailSilently, which nobody awaits.
SendVerification(e) ==
  /\ e \in pending
  /\ pending' = pending \ {e}
  /\ \E ok \in DbOk, kcOk \in KcOk :
       /\ Note(e, ok)
       /\ links' = IF ok THEN links \cup {e} ELSE links
       /\ kcLinks' = IF ok /\ kcOk /\ users[e].linked THEN kcLinks \cup {e} ELSE kcLinks
  /\ UNCHANGED <<tables, call, resetMails, sessions, passwords, tokens,
                 proved, entered, retired, used, told>>

\* sendVerificationEmail, on request.
Resend(e) ==
  /\ HasRow(e)
  /\ links' = links \cup {e}
  /\ UNCHANGED <<tables, call, pending, kcLinks, resetMails, sessions, passwords, tokens,
                 history>>

(***************************************************************************)
(* Verifying an address.                                                    *)
(***************************************************************************)
\* verifyEmail, up to the row it finds, for a request under /api/v1 with the token
\* of a link; the redirect of the path in the link itself drops the token.
OpenLink(c, e) ==
  /\ call[c] = Idle
  /\ e \in links
  /\ HasRow(e) /\ ~users[e].verified
  /\ proved' = proved \cup {e}
  /\ Begin(c, [at |-> "mark", email |-> e, linked |-> users[e].linked])
  /\ UNCHANGED <<tables, mail, sessions, passwords, tokens,
                 entered, retired, used, told, troubled>>

\* The outcome of the UPDATE is not looked at.
VerifyMarks(c) ==
  /\ At(c, "mark")
  /\ LET e == call[c].email IN
     \E ok \in DbOk :
       /\ Note(e, ok)
       /\ users' = IF ok THEN [users EXCEPT ![e].verified = TRUE] ELSE users
  /\ Go(c, "follow")
  /\ UNCHANGED <<keycloak, keys, mail, sessions, passwords, tokens,
                 proved, entered, retired, used, told>>

\* Seeded fault: Keycloak is not told.
VerifyFollowsNot(c) ==
  /\ At(c, "follow")
  /\ Return(c)
  /\ UNCHANGED <<tables, mail, sessions, passwords, tokens, history>>

\* Keycloak is told for the user the row named before; the welcome mail follows.
VerifyFollows(c) ==
  /\ At(c, "follow")
  /\ LET e == call[c].email IN
     \E ok \in KcOk :
       /\ Note(e, ok)
       /\ keycloak' = IF ok /\ call[c].linked THEN [keycloak EXCEPT ![e].verified = TRUE]
                      ELSE keycloak
  /\ Return(c)
  /\ UNCHANGED <<users, keys, mail, sessions, passwords, tokens,
                 proved, entered, retired, used, told>>

(***************************************************************************)
(* Keycloak's own pages, and its callback.                                  *)
(***************************************************************************)
\* External: an address registers at Keycloak itself.  The realm has verifyEmail
\* off, so no link is mailed.
KcRegister(e) ==
  /\ keycloak[e] = None
  /\ keycloak' = [keycloak EXCEPT ![e] = [verified |-> FALSE, by |-> 0]]
  /\ UNCHANGED <<users, keys, call, mail, sessions, passwords, tokens, history>>

\* External: the owner opens the link of Keycloak.
KcVerify(e) ==
  /\ e \in kcLinks
  /\ ~keycloak[e].verified
  /\ keycloak' = [keycloak EXCEPT ![e].verified = TRUE]
  /\ proved' = proved \cup {e}
  /\ UNCHANGED <<users, keys, call, mail, sessions, passwords, tokens,
                 entered, retired, used, told, troubled>>

\* handleKeycloakCallback, after a login at Keycloak: whether Keycloak has verified
\* the address is not asked.  A userinfo that is refused leaves it unknown, and
\* the row of the address 'user', which is nobody's, is looked for instead.  A row
\* that is found is left as it is.
Callback(c, e) ==
  /\ call[c] = Idle
  /\ keycloak[e] # None
  /\ \E known \in KcOk :
       /\ known => \E ok \in DbOk : ~ok \/ ~HasRow(e)
       /\ Begin(c, [at |-> "sync", email |-> e, known |-> known])
       /\ entered' = IF known THEN entered \cup {e} ELSE entered
  /\ UNCHANGED <<tables, mail, sessions, passwords, tokens,
                 proved, retired, used, told, troubled>>

\* Seeded fault: the upsert finds the row by its address.
CallbackSyncsByAddress(c) ==
  /\ At(c, "sync")
  /\ LET e == call[c].email IN
     \E ok \in DbOk :
       users' = CASE ok /\ call[c].known /\ ~HasRow(e) -> [users EXCEPT ![e] =
                       [linked |-> TRUE, verified |-> TRUE, pass |-> 0, token |-> 0,
                        by |-> keycloak[e].by]]
                  [] ok /\ call[c].known /\ HasRow(e) ->
                       [users EXCEPT ![e].verified = TRUE]
                  [] OTHER -> users
  /\ Return(c)
  /\ UNCHANGED <<keycloak, keys, mail, sessions, passwords, tokens, history>>

\* syncUserToDB: the INSERT ... ON CONFLICT (keycloak_id) finds a row that was
\* linked meanwhile; the address of a row that is not linked makes it fail.
CallbackSyncs(c) ==
  /\ At(c, "sync")
  /\ LET e == call[c].email IN
     \E ok \in DbOk :
       users' = CASE ok /\ call[c].known /\ ~HasRow(e) -> [users EXCEPT ![e] =
                       [linked |-> TRUE, verified |-> TRUE, pass |-> 0, token |-> 0,
                        by |-> keycloak[e].by]]
                  [] ok /\ call[c].known /\ HasRow(e) /\ users[e].linked ->
                       [users EXCEPT ![e].verified = TRUE]
                  [] OTHER -> users
  /\ Return(c)
  /\ UNCHANGED <<keycloak, keys, mail, sessions, passwords, tokens, history>>

(***************************************************************************)
(* Passwords.                                                               *)
(***************************************************************************)
\* loginWithEmail, up to the row it finds.
Login(c, e, p) ==
  /\ call[c] = Idle
  /\ HasRow(e) /\ users[e].verified /\ users[e].pass # 0
  /\ Begin(c, [at |-> "check", email |-> e, pass |-> p, hash |-> users[e].pass,
               since |-> retired])
  /\ UNCHANGED <<tables, mail, sessions, passwords, tokens, history>>

\* Seeded fault: a login writes a fresh hash of its password to the row.
LoginChecksRehash(c) ==
  /\ At(c, "check")
  /\ LET e == call[c].email  right == call[c].pass = call[c].hash IN
     /\ sessions' = IF right THEN sessions \cup {e} ELSE sessions
     /\ users' = IF right THEN [users EXCEPT ![e].pass = call[c].pass] ELSE users
  /\ Return(c)
  /\ UNCHANGED <<keycloak, keys, mail, passwords, tokens, history>>

\* The password is compared with the hash that was read.
LoginChecks(c) ==
  /\ At(c, "check")
  /\ sessions' = IF call[c].pass = call[c].hash THEN sessions \cup {call[c].email} ELSE sessions
  /\ Return(c)
  /\ UNCHANGED <<tables, mail, passwords, tokens, history>>

\* requestPasswordReset.
RequestReset(c, e) ==
  /\ call[c] = Idle
  /\ tokens < MaxTokens
  /\ HasRow(e)
  /\ tokens' = tokens + 1
  /\ Begin(c, [at |-> "token", email |-> e, token |-> tokens + 1])
  /\ UNCHANGED <<tables, mail, sessions, passwords, history>>

\* The mail is sent whether or not the UPDATE worked.
ResetIsMailed(c) ==
  /\ At(c, "token")
  /\ LET e == call[c].email IN
     \E ok \in DbOk :
       users' = IF ok THEN [users EXCEPT ![e].token = call[c].token] ELSE users
  /\ resetMails' = resetMails \cup {call[c].token}
  /\ Return(c)
  /\ UNCHANGED <<keycloak, keys, pending, links, kcLinks, sessions, passwords, tokens, history>>

\* resetPassword, up to the row that holds the token.
Reset(c, e, t) ==
  /\ call[c] = Idle
  /\ passwords < MaxPasswords
  /\ t \in resetMails
  /\ HasRow(e) /\ users[e].token = t
  /\ passwords' = passwords + 1
  /\ Begin(c, [at |-> "reset", email |-> e, token |-> t, pass |-> passwords + 1,
               since |-> used])
  /\ UNCHANGED <<tables, mail, sessions, tokens, history>>

\* Seeded fault: the token stays in the row.
ResetWritesKeepsToken(c) ==
  /\ At(c, "reset")
  /\ LET e == call[c].email IN
     /\ users' = [users EXCEPT ![e].pass = call[c].pass]
     /\ Retire(users[e].pass)
     /\ used' = used \cup {call[c].token}
  /\ Return(c)
  /\ UNCHANGED <<keycloak, keys, mail, sessions, passwords, tokens,
                 proved, entered, told, troubled>>

\* The UPDATE is by id: it takes away whatever token the row has by now.
ResetWrites(c) ==
  /\ At(c, "reset")
  /\ LET e == call[c].email IN
     \E ok \in DbOk :
       IF ok
       THEN /\ users' = [users EXCEPT ![e].pass = call[c].pass, ![e].token = 0]
            /\ Retire(users[e].pass)
            /\ used' = used \cup {call[c].token}
       ELSE UNCHANGED <<users, retired, used>>
  /\ Return(c)
  /\ UNCHANGED <<keycloak, keys, mail, sessions, passwords, tokens,
                 proved, entered, told, troubled>>

\* changePassword, up to the comparison with the hash that was read, which a row
\* of Keycloak's does not have.
Change(c, e) ==
  /\ call[c] = Idle
  /\ passwords < MaxPasswords
  /\ e \in sessions
  /\ HasRow(e) /\ users[e].pass # 0
  /\ passwords' = passwords + 1
  /\ Begin(c, [at |-> "change", email |-> e, pass |-> passwords + 1])
  /\ UNCHANGED <<tables, mail, sessions, tokens, history>>

ChangeWrites(c) ==
  /\ At(c, "change")
  /\ LET e == call[c].email IN
     \E ok \in DbOk :
       IF ok
       THEN /\ users' = [users EXCEPT ![e].pass = call[c].pass]
            /\ Retire(users[e].pass)
       ELSE UNCHANGED <<users, retired>>
  /\ Return(c)
  /\ UNCHANGED <<keycloak, keys, mail, sessions, passwords, tokens,
                 proved, entered, used, told, troubled>>

(***************************************************************************)
(* API keys.                                                                *)
(***************************************************************************)
\* createApiKey, for the holder of a session.
CreateKey(e, k) ==
  /\ e \in sessions
  /\ keys[k] = None
  /\ keys' = [keys EXCEPT ![k] = [owner |-> e, active |-> TRUE]]
  /\ UNCHANGED <<users, keycloak, call, mail, sessions, passwords, tokens, history>>

\* validateApiKey, up to the row it finds.
UseKey(c, k) ==
  /\ call[c] = Idle
  /\ keys[k] # None /\ keys[k].active
  /\ Begin(c, [at |-> "touch", key |-> k, since |-> told])
  /\ UNCHANGED <<tables, mail, sessions, passwords, tokens, history>>

\* last_used_at is written and the request is served.
KeyServes(c) ==
  /\ At(c, "touch")
  /\ Return(c)
  /\ UNCHANGED <<tables, mail, sessions, passwords, tokens, history>>

\* Seeded fault: the owner is told whatever became of the UPDATE.
RevokeKeyAlways(e, k) ==
  /\ e \in sessions
  /\ keys[k] # None
  /\ \E ok \in DbOk :
       keys' = IF ok /\ keys[k].owner = e THEN [keys EXCEPT ![k].active = FALSE] ELSE keys
  /\ told' = told \cup {k}
  /\ UNCHANGED <<users, keycloak, call, mail, sessions, passwords, tokens,
                 proved, entered, retired, used, troubled>>

\* revokeApiKey: the count of rows decides what the owner is told.
RevokeKey(e, k) ==
  /\ e \in sessions
  /\ keys[k] # None
  /\ \E ok \in DbOk :
       IF ok /\ keys[k].owner = e
       THEN /\ keys' = [keys EXCEPT ![k].active = FALSE]
            /\ told' = told \cup {k}
       ELSE UNCHANGED <<keys, told>>
  /\ UNCHANGED <<users, keycloak, call, mail, sessions, passwords, tokens,
                 proved, entered, retired, used, troubled>>

\* The process stops: requests and detached mails are gone.
Crash ==
  /\ MayCrash
  /\ call' = [c \in Callers |-> Idle]
  /\ pending' = {}
  /\ troubled' = troubled \cup pending
                   \cup {call[c].email : c \in {d \in Callers : \/ At(d, "insert")
                                                                \/ At(d, "mark")
                                                                \/ At(d, "follow")}}
  /\ UNCHANGED <<tables, links, kcLinks, resetMails, sessions, passwords, tokens,
                 proved, entered, retired, used, told>>

Init ==
  /\ users = [e \in Emails |-> None]
  /\ keycloak = [e \in Emails |-> None]
  /\ keys = [k \in ApiKeys |-> None]
  /\ call = [c \in Callers |-> Idle]
  /\ pending = {} /\ links = {} /\ kcLinks = {} /\ resetMails = {}
  /\ sessions = {}
  /\ passwords = 0 /\ tokens = 0
  /\ proved = {} /\ entered = {} /\ retired = {} /\ used = {} /\ told = {} /\ troubled = {}

RequestStep(c) ==
  \/ SignupLooksUp(c) \/ SignupCreates(c) \/ SignupInserts(c)
  \/ VerifyMarks(c) \/ VerifyFollows(c) \/ CallbackSyncs(c)
  \/ LoginChecks(c) \/ ResetIsMailed(c) \/ ResetWrites(c) \/ ChangeWrites(c)
  \/ KeyServes(c)

Request(c) ==
  \/ \E e \in Emails : \/ Signup(c, e) \/ OpenLink(c, e) \/ Callback(c, e)
                       \/ RequestReset(c, e) \/ Change(c, e)
                       \/ \E p \in 1..passwords : Login(c, e, p)
                       \/ \E t \in 1..tokens : Reset(c, e, t)
  \/ \E k \in ApiKeys : UseKey(c, k)

Next ==
  \/ \E c \in Callers : Request(c) \/ RequestStep(c)
  \/ \E e \in Emails : \/ SendVerification(e) \/ Resend(e) \/ KcRegister(e) \/ KcVerify(e)
                       \/ \E k \in ApiKeys : CreateKey(e, k) \/ RevokeKey(e, k)
  \/ Crash

Spec == Init /\ [][Next]_vars

(***************************************************************************)
(* Properties.                                                              *)
(***************************************************************************)
\* Every variable has its type.
TypeOK ==
  /\ users \in [Emails -> Row \cup {None}]
  /\ keycloak \in [Emails -> KcUser \cup {None}]
  /\ keys \in [ApiKeys -> Key \cup {None}]
  /\ call \in [Callers -> Call \cup {None}]
  /\ pending \cup links \cup kcLinks \cup sessions \subseteq Emails
  /\ proved \cup entered \cup troubled \subseteq Emails
  /\ passwords \in 0..MaxPasswords /\ tokens \in 0..MaxTokens
  /\ resetMails \cup used \subseteq 1..tokens /\ retired \subseteq 1..passwords
  /\ told \subseteq ApiKeys

\* A row says that its address is verified only after its owner opened a link, of
\* LightServ or of Keycloak, or logged in as the very user of Keycloak that the
\* row names: the upsert of syncUserToDB, which always writes TRUE, verifies no
\* row that a signup put in its way without that user.  The login may be one
\* whose address Keycloak has not verified: the code does not ask.
VerifiedIsVouched ==
  \A e \in Emails : HasRow(e) /\ users[e].verified =>
    \/ e \in proved
    \/ /\ e \in entered
       /\ users[e].linked
       /\ keycloak[e] # None /\ keycloak[e].by = users[e].by

\* A row that names a Keycloak user names the one its own signup created, and
\* not the one of a signup for the same address it raced with (signupWithEmail).
LinkedBySameSignup ==
  \A e \in Emails : HasRow(e) /\ users[e].linked =>
    keycloak[e] # None /\ keycloak[e].by = users[e].by

\* Once the owner of an address has opened a link, the Keycloak user its row names
\* is verified, unless a call failed or the process stopped, and once no
\* verifyEmail is under way: also when the callback has verified the row first.
\* A row that only the callback verified says nothing of its Keycloak user.
KeycloakFollows ==
  \A e \in Emails :
    (/\ HasRow(e) /\ users[e].linked
     /\ e \in proved \ troubled
     /\ \A c \in Callers : ~((At(c, "mark") \/ At(c, "follow")) /\ call[c].email = e))
    => keycloak[e].verified

\* An address that a signup created at Keycloak has a row, or a signup that will
\* insert it, unless a failure or a crash came between: only then is a later
\* signup refused for an address that cannot log in.
StrandedOnlyByFailure ==
  \A e \in Emails :
    keycloak[e] # None /\ keycloak[e].by # 0 /\ e \notin troubled =>
      HasRow(e) \/ \E c \in Callers : At(c, "insert") /\ call[c].email = e

\* A reset link works once: when a reset has written the password, no reset that
\* begins later gets in with the same link, in whatever order requests for new
\* links and resets of both callers finish.
ResetLinkOnce ==
  /\ \A e \in Emails : HasRow(e) => users[e].token \notin used
  /\ \A c \in Callers : At(c, "reset") => call[c].token \notin call[c].since

\* A password that was replaced never logs in again: no request that overlaps a
\* reset or a change brings the old hash back.
PasswordsNeverReturn ==
  /\ \A e \in Emails : HasRow(e) => users[e].pass \notin retired
  /\ \A c \in Callers : At(c, "check") => call[c].hash \notin call[c].since

\* Once its owner was told that a key is revoked, it is, and no later request is
\* let in with it.
RevokedKeyRefused ==
  /\ \A k \in told : ~keys[k].active
  /\ \A c \in Callers : At(c, "touch") => call[c].key \notin call[c].since

=============================================================================
