---------------------------- MODULE ProjectRows ----------------------------
(***************************************************************************)
(* The rows of a project: projects, team members, model configurations, git *)
(* repositories, integrations, cloud credentials and deployments, behind    *)
(* routers/projects.py and routers/crud.py, in the tables of                *)
(* db/adapters/postgres_adapter.py.                                         *)
(*                                                                          *)
(* A request is a handful of statements, each in a session of its own with  *)
(* an await before it, so requests overlap between them: the guard of a     *)
(* route reads the project and then the team, the statement of the route    *)
(* comes after, and an update reads the metadata of its row, merges, and    *)
(* writes the result over whatever the row holds by then.                   *)
(*                                                                          *)
(* Not here: columns other than the metadata, which a single UPDATE sets;   *)
(* reads without effect; PUT of a project, which fails before it writes     *)
(* (the adapter has no get_project_team_members); API keys, audit logs,     *)
(* generations and billing, one statement each on tables of their own.      *)
(***************************************************************************)
EXTENDS Naturals

CONSTANTS
  Users,     \* accounts
  Admins,    \* those whose token carries the role admin
  Projects,  \* ids of projects
  Rows,      \* ids of rows, of whatever table
  Members,   \* ids of team_members
  Calls,     \* requests in progress
  Keys,      \* keys of a metadata dictionary
  Values,    \* and their values
  MaxCalls,  \* bound: requests in all
  None       \* no row, no request

ASSUME ProjectAssumption ==
  /\ Admins \subseteq Users
  /\ MaxCalls \in Nat

VARIABLES
  project,  \* project[p] : the row of projects, or None
  member,   \* member[m] : the row of team_members, or None
  row,      \* row[r] : the row of one of the other tables, or None
  call,     \* call[c] : the request of c and the step it is about to take
  calls,    \* number of requests so far
  sent,     \* sent[r] : the metadata that the writes of r make up, one after another (history)
  overlaps, \* rows an update of which missed another (history)
  disowned  \* projects whose creator's place in the team was not made, or taken (history)

tables == <<project, member, row>>
history == <<sent, overlaps, disowned>>
vars == <<tables, call, calls, history>>

(***************************************************************************)
(* Types.  A deleted row keeps its id, which is never given again.          *)
(***************************************************************************)
\* settings: model configurations and git repositories, which are alike.
Kinds == {"settings", "integration", "credentials", "deployment"}

\* owner stands for admin too, and viewer for editor.
Roles == {"owner", "viewer"}

Dicts == UNION {[K -> Values] : K \in SUBSET Keys}

Project == [user : Users, live : BOOLEAN]
Member == [user : Users, project : Projects, email : Users, role : Roles, live : BOOLEAN]
Row == [kind : Kinds, user : Users, project : Projects, meta : Dicts, live : BOOLEAN]

Requests ==
  [op : {"create"}, kind : Kinds, patch : Dicts]
  \cup [op : {"update"}, kind : Kinds, row : Rows, patch : Dicts]
  \cup [op : {"delete"}, kind : Kinds, row : Rows]
  \cup [op : {"invite"}, kind : {"team"}, email : Users, role : Roles]
  \cup [op : {"assign"}, kind : {"team"}, member : Members, role : Roles]
  \cup [op : {"remove"}, kind : {"team"}, member : Members]
  \cup [op : {"found"}, kind : {"project"}]

\* read: the metadata an update has read.
Call == [user : Users, project : Projects, at : {"project", "team", "statement", "write"},
         request : Requests, read : Dicts]

ASSUME NoneAssumption == None \notin Project \cup Member \cup Row \cup Call

TypeOK ==
  /\ project \in [Projects -> Project \cup {None}]
  /\ member \in [Members -> Member \cup {None}]
  /\ row \in [Rows -> Row \cup {None}]
  /\ call \in [Calls -> Call \cup {None}]
  /\ calls \in 0..MaxCalls
  /\ sent \in [Rows -> Dicts]
  /\ overlaps \subseteq Rows
  /\ disowned \subseteq Projects

Empty == [k \in {} |-> None]

Init ==
  /\ project = [p \in Projects |-> None]
  /\ member = [m \in Members |-> None]
  /\ row = [r \in Rows |-> None]
  /\ call = [c \in Calls |-> None] /\ calls = 0
  /\ sent = [r \in Rows |-> Empty]
  /\ overlaps = {} /\ disowned = {}

(***************************************************************************)
(* The guard.                                                               *)
(***************************************************************************)
\* get_project finds the live projects of the user only.
Owns(u, p) == project[p] # None /\ project[p].live /\ project[p].user = u

\* Seeded fault of TeamOf: whoever has made the rows.
TeamOfAnyone(u, p) ==
  {m \in Members : member[m] # None /\ member[m].live /\ member[m].project = p}

\* list_team_members: the rows the user has made himself.
TeamOf(u, p) ==
  {m \in Members : /\ member[m] # None /\ member[m].live
                   /\ member[m].user = u /\ member[m].project = p}

\* The row m lets u pass, by his id or by his address.
Admits(m, u) == member[m].role = "owner" /\ u \in {member[m].user, member[m].email}

Passes(u, p) == \E m \in TeamOf(u, p) : Admits(m, u)

\* The routes behind check_admin_or_owner; those of credentials ask for the role of
\* the token, those of deployments for nothing.
Guarded(kind) == kind \in {"settings", "integration", "team"}

(***************************************************************************)
(* Requests.                                                                *)
(***************************************************************************)
At(c, step) == call[c] # None /\ call[c].at = step
Asks(c, op) == At(c, "statement") /\ call[c].request.op = op
Moves(c, step) == call' = [call EXCEPT ![c].at = step]
Ends(c) == call' = [call EXCEPT ![c] = None]

Free(c) == call[c] = None /\ calls < MaxCalls

\* A request of u for the project p begins at the step named.
Begins(c, u, p, q, step) ==
  /\ calls' = calls + 1
  /\ call' = [call EXCEPT ![c] = [user |-> u, project |-> p, at |-> step, request |-> q,
                                  read |-> Empty]]

\* A client knows the ids it has been told, and a deployment has no metadata to send.
Sensible(q) ==
  /\ "row" \in DOMAIN q => row[q.row] # None
  /\ "member" \in DOMAIN q => member[q.member] # None
  /\ q.kind = "deployment" /\ "patch" \in DOMAIN q => q.patch = Empty

Arrives(c, u, p) ==
  /\ Free(c) /\ project[p] # None
  /\ \E q \in Requests :
       /\ q.op # "found" /\ Sensible(q)
       /\ q.kind = "credentials" => u \in Admins
       /\ Begins(c, u, p, q, IF Guarded(q.kind) THEN "project" ELSE "statement")
  /\ UNCHANGED <<tables, history>>

\* check_admin_or_owner: a get_project that fails is taken as one that finds nothing.
LooksForProject(c) ==
  /\ At(c, "project")
  /\ \/ Owns(call[c].user, call[c].project) /\ Moves(c, "statement")
     \/ Moves(c, "team")
  /\ UNCHANGED <<tables, calls, history>>

LooksForTeam(c) ==
  /\ At(c, "team")
  /\ Passes(call[c].user, call[c].project)
  /\ Moves(c, "statement")
  /\ UNCHANGED <<tables, calls, history>>

\* Refused, failed, or the process stopped: nothing more of the request happens.
Fails(c) ==
  /\ call[c] # None
  /\ Ends(c)
  /\ UNCHANGED <<tables, calls, history>>

(***************************************************************************)
(* Projects.                                                                *)
(***************************************************************************)
\* POST /api/projects, the first of its two statements.
CreatesProject(c, u, p) ==
  /\ Free(c) /\ project[p] = None
  /\ project' = [project EXCEPT ![p] = [user |-> u, live |-> TRUE]]
  /\ Begins(c, u, p, [op |-> "found", kind |-> "project"], "statement")
  /\ disowned' = disowned \cup {p}
  /\ UNCHANGED <<member, row, sent, overlaps>>

\* create_team_member.
Joins(m, u, p, email, role) ==
  /\ member[m] = None
  /\ member' = [member EXCEPT ![m] = [user |-> u, project |-> p, email |-> email,
                                      role |-> role, live |-> TRUE]]

\* The second: the creator becomes a member of the team.
ListsCreator(c, m) ==
  /\ Asks(c, "found")
  /\ Joins(m, call[c].user, call[c].project, call[c].user, "owner")
  /\ Ends(c)
  /\ disowned' = disowned \ {call[c].project}
  /\ UNCHANGED <<project, row, sent, overlaps, calls>>

\* Seeded fault: the team of a project goes with it.
DeletesProjectAndTeam(u, p) ==
  /\ Owns(u, p)
  /\ project' = [project EXCEPT ![p].live = FALSE]
  /\ member' = [m \in Members |-> IF m \in TeamOf(u, p) THEN [member[m] EXCEPT !.live = FALSE]
                                  ELSE member[m]]
  /\ UNCHANGED <<row, call, calls, history>>

\* DELETE /api/projects: get_project and the DELETE, which has the same condition.
DeletesProject(u, p) ==
  /\ Owns(u, p)
  /\ project' = [project EXCEPT ![p].live = FALSE]
  /\ UNCHANGED <<member, row, call, calls, history>>

(***************************************************************************)
(* The team.                                                                *)
(***************************************************************************)
\* The condition of every statement on one row: its id, the caller and the project.
Meant(c, x) ==
  x # None /\ x.live /\ x.user = call[c].user /\ x.project = call[c].project

\* The project in which the row m has admitted its creator.
Disowned(m) == IF Admits(m, member[m].user) THEN {member[m].project} ELSE {}

Invites(c, m) ==
  /\ Asks(c, "invite")
  /\ Joins(m, call[c].user, call[c].project, call[c].request.email, call[c].request.role)
  /\ Ends(c)
  /\ UNCHANGED <<project, row, calls, history>>

AssignsRole(c) ==
  /\ Asks(c, "assign")
  /\ LET m == call[c].request.member
     IN  IF Meant(c, member[m])
         THEN /\ member' = [member EXCEPT ![m].role = call[c].request.role]
              /\ disowned' = IF call[c].request.role = "owner" THEN disowned
                             ELSE disowned \cup Disowned(m)
         ELSE UNCHANGED <<member, disowned>>
  /\ Ends(c)
  /\ UNCHANGED <<project, row, sent, overlaps, calls>>

RemovesMember(c) ==
  /\ Asks(c, "remove")
  /\ LET m == call[c].request.member
     IN  IF Meant(c, member[m])
         THEN /\ member' = [member EXCEPT ![m].live = FALSE]
              /\ disowned' = disowned \cup Disowned(m)
         ELSE UNCHANGED <<member, disowned>>
  /\ Ends(c)
  /\ UNCHANGED <<project, row, sent, overlaps, calls>>

(***************************************************************************)
(* The other tables.                                                        *)
(***************************************************************************)
\* {**f, **g}
Merged(f, g) == [k \in DOMAIN f \cup DOMAIN g |-> IF k \in DOMAIN g THEN g[k] ELSE f[k]]

\* Seeded fault: new_meta leaves existing_meta out.
OnlyNew(c) == call[c].request.patch

\* new_meta
NewMeta(c) == Merged(call[c].read, call[c].request.patch)

\* The row in the table of the route.
Target(c) == call[c].request.row
Found(c) == Meant(c, row[Target(c)]) /\ row[Target(c)].kind = call[c].request.kind

CreatesRow(c, r) ==
  /\ Asks(c, "create") /\ row[r] = None
  /\ row' = [row EXCEPT ![r] = [kind |-> call[c].request.kind, user |-> call[c].user,
                                project |-> call[c].project, meta |-> call[c].request.patch,
                                live |-> TRUE]]
  /\ sent' = [sent EXCEPT ![r] = call[c].request.patch]
  /\ Ends(c)
  /\ UNCHANGED <<project, member, overlaps, disowned, calls>>

\* update_integration: one UPDATE, which replaces the metadata when there is any.
UpdatesIntegration(c) ==
  /\ Asks(c, "update") /\ call[c].request.kind = "integration"
  /\ IF Found(c) /\ call[c].request.patch # Empty
     THEN /\ row' = [row EXCEPT ![Target(c)].meta = call[c].request.patch]
          /\ sent' = [sent EXCEPT ![Target(c)] = call[c].request.patch]
     ELSE UNCHANGED <<row, sent>>
  /\ Ends(c)
  /\ UNCHANGED <<project, member, overlaps, disowned, calls>>

\* The SELECT of the other updates; without a row they answer False or None.
ReadsRow(c) ==
  /\ Asks(c, "update") /\ call[c].request.kind # "integration"
  /\ IF Found(c)
     THEN call' = [call EXCEPT ![c].at = "write", ![c].read = row[Target(c)].meta]
     ELSE Ends(c)
  /\ UNCHANGED <<tables, calls, history>>

\* Their UPDATE, which asks nobody how many rows it has changed.
WritesRow(c) ==
  /\ At(c, "write")
  /\ IF Found(c)
     THEN /\ row' = [row EXCEPT ![Target(c)].meta = NewMeta(c)]
          /\ sent' = [sent EXCEPT ![Target(c)] = Merged(@, call[c].request.patch)]
          /\ overlaps' = IF call[c].read = row[Target(c)].meta THEN overlaps
                         ELSE overlaps \cup {Target(c)}
     ELSE UNCHANGED <<row, sent, overlaps>>
  /\ Ends(c)
  /\ UNCHANGED <<project, member, disowned, calls>>

DeletesRow(c) ==
  /\ Asks(c, "delete")
  /\ row' = IF Found(c) THEN [row EXCEPT ![Target(c)].live = FALSE] ELSE row
  /\ Ends(c)
  /\ UNCHANGED <<project, member, calls, history>>

Next ==
  \/ \E u \in Users, p \in Projects :
       \/ DeletesProject(u, p)
       \/ \E c \in Calls :
            \/ CreatesProject(c, u, p)
            \/ Arrives(c, u, p)
  \/ \E c \in Calls :
       \/ LooksForProject(c) \/ LooksForTeam(c) \/ Fails(c)
       \/ \E m \in Members : ListsCreator(c, m) \/ Invites(c, m)
       \/ AssignsRole(c) \/ RemovesMember(c)
       \/ \E r \in Rows : CreatesRow(c, r)
       \/ UpdatesIntegration(c) \/ ReadsRow(c) \/ WritesRow(c) \/ DeletesRow(c)

Spec == Init /\ [][Next]_vars

(***************************************************************************)
(* Properties.                                                              *)
(***************************************************************************)
\* The metadata of a row is what its writes make up one after another, unless an
\* update wrote over a change that it had not read: the SELECT, merge and UPDATE of
\* postgres_adapter.py:908 loses nothing of requests that do not overlap, and leaves
\* alone the keys they do not name.
LostOnlyByOverlap ==
  \A r \in Rows : row[r] # None /\ r \notin overlaps => row[r].meta = sent[r]

\* Who holds a guarded row of a project, or a place in its team, has created the
\* project: check_admin_or_owner (crud.py:93) reads rows that others pass it to insert.
OnlyCreators ==
  /\ \A r \in Rows : row[r] # None /\ Guarded(row[r].kind)
                       => project[row[r].project] # None
                          /\ project[row[r].project].user = row[r].user
  /\ \A m \in Members : member[m] # None
                          => project[member[m].project] # None
                             /\ project[member[m].project].user = member[m].user

\* The user of a guarded row can list and delete it, also after the project is gone,
\* unless his own place in the team was never made (projects.py:87 only logs that) or
\* was taken from him; without it the rows of a deleted project are out of reach.
StrandedKnowingly ==
  \A r \in Rows :
    LET x == row[r]
    IN  x # None /\ x.live /\ Guarded(x.kind) /\ ~Owns(x.user, x.project) /\ ~Passes(x.user, x.project)
          => x.project \in disowned

=============================================================================
