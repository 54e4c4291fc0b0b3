--------------------------- MODULE ProjectSettings ---------------------------
(***************************************************************************)
(* The settings of a project in the web client: useProjectSettingsStore,    *)
(* which holds the list of one section (models, repositories, credentials,  *)
(* members, integrations), and SettingsPanel, which shows it for the        *)
(* current project and lets the user change it.                             *)
(*                                                                          *)
(* Every operation is a request; several are under way at once, also for    *)
(* different projects, and they are answered in any order.  The five        *)
(* sections share nothing but the results of tests, so a behaviour is about *)
(* one of them.  External: the server, which has the rows.  Left out: the   *)
(* status of credentials and its bulk operations, and messages.             *)
(***************************************************************************)
EXTENDS Naturals, FiniteSets

CONSTANTS
  Projects,  \* projects of the user
  Items,     \* ids of rows
  Slots,     \* requests that may be under way at once
  MaxRev,    \* bound: revisions of a row
  MaxCalls,  \* bound: operations begun
  Nothing    \* no row, no request, no verdict

ASSUME SettingsAssumption ==
  /\ MaxRev \in Nat /\ MaxCalls \in Nat
  /\ Nothing \notin Items

VARIABLES
  section,   \* the section that is shown
  project,   \* currentProjectId
  open,      \* whether SettingsPanel is mounted
  rows,      \* rows[p] : the rows of the server for project p
  list,      \* the list of the section
  loading,   \* isLoading
  error,     \* errors: whether there is a message
  verdicts,  \* testResults
  awaited,   \* awaited[s] : a request
  begun,     \* operations begun so far
  outdated   \* the last listing was wrong when it arrived, or a request failed (history)

store == <<list, loading, error, verdicts>>
pvars == <<section, project, open, rows, store, awaited, begun, outdated>>

Sections == {"modelConfigs", "gitRepositories", "cloudCredentials", "teamMembers",
             "integrations"}
Row == [id : Items, rev : 0..MaxRev]
Verdicts == {Nothing, "passed", "failed"}

\* at: sent to the server; done or refused there, with the rows it has read.
Awaited == [op : {"fetch", "create", "update", "delete", "test"}, project : Projects,
            item : Items \cup {Nothing}, at : {"sent", "done", "refused"}, got : SUBSET Row]

ASSUME NothingIsNoRequest == Nothing \notin Awaited

Idle == {s \in Slots : awaited[s] = Nothing}
Ids(rs) == {r.id : r \in rs}

(***************************************************************************)
(* The store: each operation up to its request, and after it.               *)
(***************************************************************************)
Request(s, op, p, i) ==
  awaited' = [awaited EXCEPT ![s] =
                [op |-> op, project |-> p, item |-> i, at |-> "sent", got |-> {}]]

\* All but a test show that they work, and clear the message.
Begin(op, p, i) ==
  /\ begun < MaxCalls /\ begun' = begun + 1
  /\ \E s \in Idle : Request(s, op, p, i)
  /\ IF op = "test" THEN UNCHANGED <<loading, error>> ELSE loading' = TRUE /\ error' = FALSE
  /\ UNCHANGED <<list, verdicts>>

\* The request s has ended and its operation with it.
Finish(s) == awaited' = [awaited EXCEPT ![s] = Nothing] /\ loading' = FALSE

\* Seeded fault: a failed operation leaves the flag set.
FailsBusy(s) ==
  /\ awaited[s].at = "refused"
  /\ awaited' = [awaited EXCEPT ![s] = Nothing] /\ error' = TRUE
  /\ outdated' = TRUE
  /\ UNCHANGED <<list, loading, verdicts>>

Fails(s) ==
  /\ awaited[s].at = "refused"
  /\ Finish(s) /\ error' = TRUE
  /\ outdated' = TRUE
  /\ UNCHANGED <<list, verdicts>>

ListReturns(s) ==
  /\ awaited[s].op = "fetch"
  /\ \/ Fails(s)
     \/ /\ awaited[s].at = "done"
        /\ list' = awaited[s].got
        /\ Finish(s)
        /\ outdated' = (awaited[s].got # rows[project])
        /\ UNCHANGED <<error, verdicts>>

\* A row that was created or updated is seen by fetching the list again.
SaveReturns(s) ==
  /\ awaited[s].op \in {"create", "update"}
  /\ \/ Fails(s)
     \/ /\ awaited[s].at = "done"
        /\ Request(s, "fetch", awaited[s].project, Nothing)
        /\ loading' = TRUE /\ error' = FALSE
        /\ UNCHANGED <<list, verdicts, outdated>>

\* Seeded fault: a row that was deleted stays listed.
DeleteReturnsOnly(s) ==
  /\ awaited[s].op = "delete"
  /\ \/ Fails(s)
     \/ /\ awaited[s].at = "done"
        /\ Finish(s)
        /\ UNCHANGED <<list, error, verdicts, outdated>>

\* A row that was deleted is taken out of the list, whatever list that is by now.
DeleteReturns(s) ==
  /\ awaited[s].op = "delete"
  /\ \/ Fails(s)
     \/ /\ awaited[s].at = "done"
        /\ list' = {r \in list : r.id # awaited[s].item}
        /\ Finish(s)
        /\ UNCHANGED <<error, verdicts, outdated>>

TestReturns(s) ==
  /\ awaited[s].op = "test"
  /\ awaited[s].at # "sent"
  /\ verdicts' = [verdicts EXCEPT ![awaited[s].item] =
                    IF awaited[s].at = "done" THEN "passed" ELSE "failed"]
  /\ awaited' = [awaited EXCEPT ![s] = Nothing]
  /\ UNCHANGED <<list, loading, error, outdated>>

(***************************************************************************)
(* The sections of the store.                                               *)
(***************************************************************************)
Listing(s) == ListReturns(s) \/ SaveReturns(s) \/ DeleteReturns(s)

ModelConfigs(s) == section = "modelConfigs" /\ (Listing(s) \/ TestReturns(s))
GitRepositories(s) == section = "gitRepositories" /\ (Listing(s) \/ TestReturns(s))
CloudCredentials(s) == section = "cloudCredentials" /\ (Listing(s) \/ TestReturns(s))
TeamMembers(s) == section = "teamMembers" /\ Listing(s)
Integrations(s) == section = "integrations" /\ (Listing(s) \/ TestReturns(s))

Return(s) ==
  /\ awaited[s] # Nothing
  /\ \/ ModelConfigs(s) \/ GitRepositories(s) \/ CloudCredentials(s) \/ TeamMembers(s)
     \/ Integrations(s)
  /\ UNCHANGED <<section, project, open, rows, begun>>

(***************************************************************************)
(* The server (external): a request is carried out for the project it names. *)
(***************************************************************************)
\* Ids are never used again: neither the server nor the client knows a new one.
Unused ==
  Items \ (Ids(list) \cup Ids(UNION {rows[p] : p \in Projects})
             \cup {awaited[s].item : s \in Slots \ Idle}
             \cup UNION {Ids(awaited[s].got) : s \in Slots \ Idle})

Carry(s, read, p, rs) ==
  /\ awaited' = [awaited EXCEPT ![s].at = "done", ![s].got = read]
  /\ rows' = [rows EXCEPT ![p] = rs]

Execute(s) ==
  /\ awaited[s] # Nothing /\ awaited[s].at = "sent"
  /\ LET p == awaited[s].project
         mine == {r \in rows[p] : r.id = awaited[s].item}
     IN  \/ awaited[s].op = "fetch" /\ Carry(s, rows[p], p, rows[p])
         \/ /\ awaited[s].op = "create"
            /\ \E i \in Unused : Carry(s, {}, p, rows[p] \cup {[id |-> i, rev |-> 0]})
         \/ /\ awaited[s].op = "update"
            /\ \E r \in mine : r.rev < MaxRev /\
                 Carry(s, {}, p, (rows[p] \ mine) \cup {[r EXCEPT !.rev = @ + 1]})
         \/ awaited[s].op = "delete" /\ mine # {} /\ Carry(s, {}, p, rows[p] \ mine)
         \/ awaited[s].op = "test" /\ mine # {} /\ Carry(s, {}, p, rows[p])
  /\ UNCHANGED <<section, project, open, store, begun, outdated>>

\* The request is refused, or its answer is lost with or without an effect.
Refuse(s) ==
  /\ awaited[s] # Nothing /\ awaited[s].at \in {"sent", "done"}
  /\ awaited' = [awaited EXCEPT ![s].at = "refused", ![s].got = {}]
  /\ UNCHANGED <<section, project, open, rows, store, begun, outdated>>

(***************************************************************************)
(* SettingsPanel.                                                           *)
(***************************************************************************)
\* The effect on mount and on the project: the list is fetched.
Open ==
  /\ ~open /\ open' = TRUE
  /\ Begin("fetch", project, Nothing)
  /\ UNCHANGED <<section, project, rows, outdated>>

SwitchProject(p) ==
  /\ p # project /\ project' = p
  /\ outdated' = TRUE
  /\ IF open THEN Begin("fetch", p, Nothing) ELSE UNCHANGED <<store, awaited, begun>>
  /\ UNCHANGED <<section, open, rows>>

\* The message is cleared; requests go on.
Close ==
  /\ open /\ open' = FALSE
  /\ error' = FALSE
  /\ UNCHANGED <<section, project, rows, list, loading, verdicts, awaited, begun, outdated>>

\* The user works on what the list shows, under the current project; "Add" waits
\* for the list.
Submit ==
  /\ open
  /\ \/ ~loading /\ Begin("create", project, Nothing)
     \/ \E i \in Ids(list) : Begin("update", project, i)
  /\ UNCHANGED <<section, project, open, rows, outdated>>

Delete ==
  /\ open
  /\ \E i \in Ids(list) : Begin("delete", project, i)
  /\ UNCHANGED <<section, project, open, rows, outdated>>

Test ==
  /\ open /\ section # "teamMembers"
  /\ \E i \in Ids(list) : Begin("test", project, i)
  /\ UNCHANGED <<section, project, open, rows, outdated>>

\* apiCall: a token that has expired cannot be refreshed.  The page leaves for the
\* sign-in page, and what it held and awaited is gone.
SessionExpires ==
  /\ \E s \in Slots : awaited[s] # Nothing
  /\ open' = FALSE
  /\ list' = {} /\ loading' = FALSE /\ error' = FALSE
  /\ verdicts' = [i \in Items |-> Nothing]
  /\ awaited' = [s \in Slots |-> Nothing]
  /\ outdated' = TRUE
  /\ UNCHANGED <<section, project, rows, begun>>

PInit ==
  /\ section \in Sections
  /\ project \in Projects
  /\ open = FALSE
  /\ rows \in {f \in [Projects -> SUBSET {r \in Row : r.rev = 0}] :
                 \A p, q \in Projects : p # q => f[p] \cap f[q] = {}}
  /\ list = {} /\ loading = FALSE /\ error = FALSE
  /\ verdicts = [i \in Items |-> Nothing]
  /\ awaited = [s \in Slots |-> Nothing]
  /\ begun = 0
  /\ outdated = TRUE

PNext ==
  \/ Open \/ Close \/ Submit \/ Delete \/ Test \/ SessionExpires
  \/ \E p \in Projects : SwitchProject(p)
  \/ \E s \in Slots : Execute(s) \/ Refuse(s) \/ Return(s)

PSpec == PInit /\ [][PNext]_pvars

(***************************************************************************)
(* Properties.                                                              *)
(***************************************************************************)
\* Every variable has its type.
PTypeOK ==
  /\ section \in Sections /\ project \in Projects /\ open \in BOOLEAN
  /\ rows \in [Projects -> SUBSET Row] /\ list \subseteq Row
  /\ loading \in BOOLEAN /\ error \in BOOLEAN /\ outdated \in BOOLEAN
  /\ verdicts \in [Items -> Verdicts]
  /\ awaited \in [Slots -> Awaited \cup {Nothing}]
  /\ begun \in 0..MaxCalls

\* The panel shows that it works only while a request of the section is under way,
\* however many were and in whatever order they ended: the one flag they share is
\* never left set.
SpinnerStops == loading => \E s \in Slots : awaited[s] # Nothing /\ awaited[s].op # "test"

\* When nothing is under way the list is what the server has for the project shown,
\* also after requests that overlapped; unless the listing that came last was out of
\* date when it came, or a request failed since.
ListSettles == Idle = Slots /\ ~outdated => list = rows[project]
=============================================================================
