------------------------- MODULE ProjectRows_proofs -------------------------
(***************************************************************************)
(* Proofs about ProjectRows, for any users, projects, rows and requests.    *)
(*                                                                          *)
(* OnlyCreators is not inductive: a row is inserted by a request that has   *)
(* passed the guard some steps before.  Passed says that such a request is  *)
(* its creator's; Standing, that a creator has a row that admits him or the *)
(* project is disowned.                                                     *)
(***************************************************************************)
EXTENDS ProjectRows, TLAPS

\* Requests past the guard, and the one that lists the creator, are the creator's.
Passed ==
  \A c \in Calls :
    /\ call[c] # None /\ call[c].at \in {"statement", "write"}
    /\ Guarded(call[c].request.kind) \/ call[c].request.op = "found"
    => /\ project[call[c].project] # None
       /\ project[call[c].project].user = call[c].user

\* Without having been disowned, a creator can pass as a member of the team.
Standing ==
  \A p \in Projects :
    project[p] # None /\ p \notin disowned => Passes(project[p].user, p)

Held == TypeOK /\ OnlyCreators /\ Passed /\ Standing /\ LostOnlyByOverlap

\* What the requests of each kind carry.
LEMMA RequestForms ==
  ASSUME NEW q \in Requests
  PROVE  /\ q.op = "create" => q.kind \in Kinds /\ q.patch \in Dicts
         /\ q.op = "update" => q.kind \in Kinds /\ q.row \in Rows /\ q.patch \in Dicts
         /\ q.op = "delete" => q.kind \in Kinds /\ q.row \in Rows
         /\ q.op = "invite" => q.kind = "team" /\ q.email \in Users /\ q.role \in Roles
         /\ q.op = "assign" => q.kind = "team" /\ q.member \in Members /\ q.role \in Roles
         /\ q.op = "remove" => q.kind = "team" /\ q.member \in Members
  BY DEF Requests

\* The dictionary without keys is one.
LEMMA EmptyDict == Empty \in Dicts
<1>1. Empty \in [{} -> Values]
  BY DEF Empty
<1>2. QED
  BY <1>1 DEF Dicts

\* Merging dictionaries gives a dictionary.
LEMMA MergedDict ==
  ASSUME NEW f \in Dicts, NEW g \in Dicts
  PROVE  Merged(f, g) \in Dicts
<1>1. PICK F \in SUBSET Keys : f \in [F -> Values]
  BY DEF Dicts
<1>2. PICK G \in SUBSET Keys : g \in [G -> Values]
  BY DEF Dicts
<1>3. Merged(f, g) \in [F \cup G -> Values]
  BY <1>1, <1>2 DEF Merged
<1>4. QED
  BY <1>3 DEF Dicts

\* A request that is under way is one of the forms, with its ids.
LEMMA CallsTyped ==
  ASSUME TypeOK, NEW c \in Calls, call[c] # None
  PROVE  /\ call[c] \in Call
         /\ call[c].user \in Users /\ call[c].project \in Projects
         /\ call[c].request \in Requests /\ call[c].read \in Dicts
         /\ call[c].at \in {"project", "team", "statement", "write"}
  BY DEF TypeOK, Call

\* Only updates are at their UPDATE.
Writing ==
  \A c \in Calls : call[c] # None /\ call[c].at = "write" => call[c].request.op = "update"

LEMMA InitHeld == Init => Held /\ Writing
  BY EmptyDict, ProjectAssumption, NoneAssumption
  DEF Init, Held, Writing, TypeOK, OnlyCreators, Passed, Standing, LostOnlyByOverlap

\* Every step keeps the types.
LEMMA NextTyped == TypeOK /\ Writing /\ [Next]_vars => TypeOK' /\ Writing'
<1> SUFFICES ASSUME TypeOK, Writing, [Next]_vars PROVE TypeOK' /\ Writing'
  OBVIOUS
<1> USE ProjectAssumption, NoneAssumption DEF TypeOK, Writing
<1>1. ASSUME NEW u \in Users, NEW p \in Projects, DeletesProject(u, p) PROVE TypeOK' /\ Writing'
  BY <1>1 DEF DeletesProject, Owns, Project, history
<1>2. ASSUME NEW u \in Users, NEW p \in Projects, NEW c \in Calls, CreatesProject(c, u, p)
      PROVE TypeOK' /\ Writing'
  <2> DEFINE q == [op |-> "found", kind |-> "project"]
  <2>1. q \in Requests
    BY DEF Requests
  <2>2. call' \in [Calls -> Call \cup {None}]
    BY <1>2, <2>1, EmptyDict DEF CreatesProject, Begins, Call
  <2>3. Writing'
    BY <1>2 DEF CreatesProject, Begins
  <2>4. project' \in [Projects -> Project \cup {None}] /\ disowned' \subseteq Projects
    BY <1>2 DEF CreatesProject, Project
  <2>5. calls' \in 0..MaxCalls
    BY <1>2 DEF CreatesProject, Begins, Free
  <2>6. QED
    BY <1>2, <2>2, <2>3, <2>4, <2>5 DEF CreatesProject
<1>3. ASSUME NEW u \in Users, NEW p \in Projects, NEW c \in Calls, Arrives(c, u, p)
      PROVE TypeOK' /\ Writing'
  <2>1. PICK q \in Requests : Begins(c, u, p, q, IF Guarded(q.kind) THEN "project" ELSE "statement")
    BY <1>3 DEF Arrives
  <2>2. call' \in [Calls -> Call \cup {None}]
    BY <2>1, EmptyDict DEF Begins, Call
  <2>3. Writing'
    BY <2>1 DEF Begins
  <2>4. calls' \in 0..MaxCalls
    BY <1>3, <2>1 DEF Arrives, Begins, Free
  <2>5. QED
    BY <1>3, <2>2, <2>3, <2>4 DEF Arrives, tables, history
<1>4. ASSUME NEW c \in Calls, LooksForProject(c) \/ LooksForTeam(c) PROVE TypeOK' /\ Writing'
  <2>1. call[c] # None /\ call[c] \in Call
    BY <1>4, CallsTyped DEF LooksForProject, LooksForTeam, At
  <2>2. PICK step \in {"statement", "team"} : Moves(c, step)
    BY <1>4 DEF LooksForProject, LooksForTeam
  <2>3. call' \in [Calls -> Call \cup {None}] /\ Writing'
    BY <2>1, <2>2 DEF Moves, Call
  <2>4. QED
    BY <1>4, <2>3 DEF LooksForProject, LooksForTeam, tables, history
<1>5. ASSUME NEW c \in Calls, Fails(c) PROVE TypeOK' /\ Writing'
  BY <1>5 DEF Fails, Ends, tables, history
<1>6. ASSUME NEW c \in Calls, NEW m \in Members, ListsCreator(c, m) PROVE TypeOK' /\ Writing'
  <2>1. call[c].user \in Users /\ call[c].project \in Projects
    BY <1>6, CallsTyped DEF ListsCreator, Asks, At
  <2>2. member' \in [Members -> Member \cup {None}]
    BY <1>6, <2>1 DEF ListsCreator, Joins, Member, Roles
  <2>3. QED
    BY <1>6, <2>2 DEF ListsCreator, Ends
<1>7. ASSUME NEW c \in Calls, NEW m \in Members, Invites(c, m) PROVE TypeOK' /\ Writing'
  <2>1. /\ call[c].user \in Users /\ call[c].project \in Projects
        /\ call[c].request.email \in Users /\ call[c].request.role \in Roles
    BY <1>7, CallsTyped, RequestForms DEF Invites, Asks, At
  <2>2. member' \in [Members -> Member \cup {None}]
    BY <1>7, <2>1 DEF Invites, Joins, Member
  <2>3. QED
    BY <1>7, <2>2 DEF Invites, Ends, history
<1>8. ASSUME NEW c \in Calls, AssignsRole(c) PROVE TypeOK' /\ Writing'
  <2>1. call[c].request.member \in Members /\ call[c].request.role \in Roles
    BY <1>8, CallsTyped, RequestForms DEF AssignsRole, Asks, At
  <2>2. member' \in [Members -> Member \cup {None}]
    BY <1>8, <2>1 DEF AssignsRole, Meant, Member
  <2>3. disowned' \subseteq Projects
    BY <1>8, <2>1 DEF AssignsRole, Meant, Member, Disowned
  <2>4. QED
    BY <1>8, <2>2, <2>3 DEF AssignsRole, Ends
<1>9. ASSUME NEW c \in Calls, RemovesMember(c) PROVE TypeOK' /\ Writing'
  <2>1. call[c].request.member \in Members
    BY <1>9, CallsTyped, RequestForms DEF RemovesMember, Asks, At
  <2>2. member' \in [Members -> Member \cup {None}]
    <3> DEFINE m == call[c].request.member
    <3>1. CASE Meant(c, member[m])
      <4>1. member[m] \in Member
        BY <2>1, <3>1 DEF Meant
      <4>2. [member[m] EXCEPT !.live = FALSE] \in Member
        BY <4>1 DEF Member
      <4>3. QED
        BY <1>9, <2>1, <3>1, <4>2 DEF RemovesMember
    <3>2. CASE ~Meant(c, member[m])
      BY <1>9, <3>2 DEF RemovesMember
    <3>3. QED
      BY <3>1, <3>2
  <2>3. disowned' \subseteq Projects
    BY <1>9, <2>1 DEF RemovesMember, Meant, Member, Disowned
  <2>4. QED
    BY <1>9, <2>2, <2>3 DEF RemovesMember, Ends
<1>10. ASSUME NEW c \in Calls, NEW r \in Rows, CreatesRow(c, r) PROVE TypeOK' /\ Writing'
  <2>1. /\ call[c].user \in Users /\ call[c].project \in Projects
        /\ call[c].request.kind \in Kinds /\ call[c].request.patch \in Dicts
    BY <1>10, CallsTyped, RequestForms DEF CreatesRow, Asks, At
  <2>2. row' \in [Rows -> Row \cup {None}] /\ sent' \in [Rows -> Dicts]
    BY <1>10, <2>1 DEF CreatesRow, Row
  <2>3. QED
    BY <1>10, <2>2 DEF CreatesRow, Ends
<1>11. ASSUME NEW c \in Calls, UpdatesIntegration(c) PROVE TypeOK' /\ Writing'
  <2>1. Target(c) \in Rows /\ call[c].request.patch \in Dicts
    BY <1>11, CallsTyped, RequestForms DEF UpdatesIntegration, Asks, At, Target
  <2>2. row' \in [Rows -> Row \cup {None}] /\ sent' \in [Rows -> Dicts]
    BY <1>11, <2>1 DEF UpdatesIntegration, Found, Meant, Row
  <2>3. QED
    BY <1>11, <2>2 DEF UpdatesIntegration, Ends
<1>12. ASSUME NEW c \in Calls, ReadsRow(c) PROVE TypeOK' /\ Writing'
  <2>1. Target(c) \in Rows /\ call[c] # None /\ call[c] \in Call
    BY <1>12, CallsTyped, RequestForms DEF ReadsRow, Asks, At, Target
  <2>2. CASE Found(c)
    <3>1. row[Target(c)].meta \in Dicts
      BY <2>1, <2>2 DEF Found, Meant, Row
    <3>2. call' \in [Calls -> Call \cup {None}] /\ Writing'
      BY <1>12, <2>1, <2>2, <3>1 DEF ReadsRow, Asks, Call
    <3>3. QED
      BY <1>12, <3>2 DEF ReadsRow, tables, history
  <2>3. CASE ~Found(c)
    BY <1>12, <2>3 DEF ReadsRow, Ends, tables, history
  <2>4. QED
    BY <2>2, <2>3
<1>13. ASSUME NEW c \in Calls, WritesRow(c) PROVE TypeOK' /\ Writing'
  <2>1. /\ Target(c) \in Rows /\ call[c].read \in Dicts
        /\ call[c].request.patch \in Dicts
    BY <1>13, CallsTyped, RequestForms DEF WritesRow, At, Target
  <2>2. NewMeta(c) \in Dicts /\ Merged(sent[Target(c)], call[c].request.patch) \in Dicts
    BY <2>1, MergedDict DEF NewMeta
  <2>3. /\ row' \in [Rows -> Row \cup {None}] /\ sent' \in [Rows -> Dicts]
        /\ overlaps' \subseteq Rows
    BY <1>13, <2>1, <2>2 DEF WritesRow, Found, Meant, Row
  <2>4. QED
    BY <1>13, <2>3 DEF WritesRow, Ends
<1>14. ASSUME NEW c \in Calls, DeletesRow(c) PROVE TypeOK' /\ Writing'
  <2>1. Target(c) \in Rows
    BY <1>14, CallsTyped, RequestForms DEF DeletesRow, Asks, At, Target
  <2>2. row' \in [Rows -> Row \cup {None}]
    BY <1>14, <2>1 DEF DeletesRow, Found, Meant, Row
  <2>3. QED
    BY <1>14, <2>2 DEF DeletesRow, Ends, history
<1>15. CASE UNCHANGED vars
  BY <1>15 DEF vars, tables, history
<1>16. QED
  BY <1>1, <1>2, <1>3, <1>4, <1>5, <1>6, <1>7, <1>8, <1>9, <1>10, <1>11, <1>12, <1>13, <1>14, <1>15
  DEF Next

\* A project keeps its creator.
LEMMA ProjectsStay ==
  ASSUME TypeOK, [Next]_vars, NEW p \in Projects, project[p] # None
  PROVE  project'[p] # None /\ project'[p].user = project[p].user
<1>1. \/ project' = project
      \/ \E u \in Users, d \in Projects : DeletesProject(u, d)
      \/ \E u \in Users, d \in Projects, c \in Calls : CreatesProject(c, u, d)
  BY DEF Next, Arrives, LooksForProject, LooksForTeam, Fails, ListsCreator, Invites, AssignsRole,
         RemovesMember, CreatesRow, UpdatesIntegration, ReadsRow, WritesRow, DeletesRow,
         tables, vars
<1>2. ASSUME NEW u \in Users, NEW d \in Projects, DeletesProject(u, d)
      PROVE  project'[p] # None /\ project'[p].user = project[p].user
  <2>1. project[p] \in Project /\ project[d] \in Project
    BY <1>2 DEF DeletesProject, Owns, TypeOK
  <2>2. [project[d] EXCEPT !.live = FALSE] \in Project
    BY <2>1 DEF Project
  <2>3. QED
    BY <1>2, <2>1, <2>2, NoneAssumption DEF DeletesProject, TypeOK, Project
<1>3. ASSUME NEW u \in Users, NEW d \in Projects, NEW c \in Calls, CreatesProject(c, u, d)
      PROVE  project'[p] # None /\ project'[p].user = project[p].user
  BY <1>3 DEF CreatesProject, TypeOK
<1>4. QED
  BY <1>1, <1>2, <1>3

\* The guard lets nobody pass but the creator.
LEMMA GuardIsTight ==
  ASSUME OnlyCreators, NEW u \in Users, NEW p \in Projects, Owns(u, p) \/ Passes(u, p)
  PROVE  project[p] # None /\ project[p].user = u
  BY DEF OnlyCreators, Owns, Passes, TeamOf

\* Requests past the guard are the creator's.
LEMMA NextPassed == TypeOK /\ OnlyCreators /\ Passed /\ [Next]_vars => Passed'
<1> SUFFICES ASSUME TypeOK, OnlyCreators, Passed, [Next]_vars,
                    NEW c \in Calls, call'[c] # None, call'[c].at \in {"statement", "write"},
                    Guarded(call'[c].request.kind) \/ call'[c].request.op = "found"
             PROVE  /\ project'[call'[c].project] # None
                    /\ project'[call'[c].project].user = call'[c].user
  BY DEF Passed
<1>1. \/ call'[c] = call[c]
      \/ \E u \in Users, p \in Projects : CreatesProject(c, u, p) \/ Arrives(c, u, p)
      \/ LooksForProject(c) \/ LooksForTeam(c) \/ (ReadsRow(c) /\ Found(c))
  <2>1. CASE UNCHANGED vars
    BY <2>1 DEF vars
  <2>2. CASE \E u \in Users, p \in Projects : DeletesProject(u, p)
    BY <2>2 DEF DeletesProject
  <2>3. CASE \E d \in Calls, u \in Users, p \in Projects :
               CreatesProject(d, u, p) \/ Arrives(d, u, p)
    BY <2>3 DEF CreatesProject, Arrives, Begins, TypeOK
  <2>4. CASE \E d \in Calls : LooksForProject(d) \/ LooksForTeam(d)
    <3>1. PICK d \in Calls : LooksForProject(d) \/ LooksForTeam(d)
      BY <2>4
    <3>2. CASE c = d
      BY <3>1, <3>2
    <3>3. CASE c # d
      BY <3>1, <3>3 DEF LooksForProject, LooksForTeam, Moves, TypeOK
    <3>4. QED
      BY <3>2, <3>3
  <2>5. CASE \E d \in Calls : ReadsRow(d)
    BY <2>5 DEF ReadsRow, Ends, TypeOK
  <2>6. CASE \E d \in Calls :
               \/ Fails(d) \/ AssignsRole(d) \/ RemovesMember(d)
               \/ \E m \in Members : ListsCreator(d, m) \/ Invites(d, m)
               \/ \E r \in Rows : CreatesRow(d, r)
               \/ UpdatesIntegration(d) \/ WritesRow(d) \/ DeletesRow(d)
    BY <2>6 DEF Fails, AssignsRole, RemovesMember, ListsCreator, Invites, CreatesRow,
                UpdatesIntegration, WritesRow, DeletesRow, Ends, TypeOK
  <2>7. QED
    BY <2>1, <2>2, <2>3, <2>4, <2>5, <2>6 DEF Next
<1>2. CASE call'[c] = call[c]
  BY <1>2, CallsTyped, ProjectsStay DEF Passed
<1>3. ASSUME NEW u \in Users, NEW p \in Projects, CreatesProject(c, u, p)
      PROVE  /\ project'[call'[c].project] # None
             /\ project'[call'[c].project].user = call'[c].user
  <2>1. project'[p] = [user |-> u, live |-> TRUE]
    BY <1>3 DEF CreatesProject, TypeOK
  <2>2. project'[p] \in Project
    BY <2>1 DEF Project
  <2>3. call'[c].project = p /\ call'[c].user = u
    BY <1>3 DEF CreatesProject, Begins, TypeOK
  <2>4. QED
    BY <2>1, <2>2, <2>3, NoneAssumption
<1>4. ASSUME NEW u \in Users, NEW p \in Projects, Arrives(c, u, p) PROVE FALSE
  BY <1>4 DEF Arrives, Begins, TypeOK
<1>5. CASE LooksForProject(c) \/ LooksForTeam(c)
  <2>1. call[c] # None /\ call[c] \in Call
    BY <1>5, CallsTyped DEF LooksForProject, LooksForTeam, At
  <2>2. call'[c].user = call[c].user /\ call'[c].project = call[c].project /\ project' = project
    BY <1>5, <2>1 DEF LooksForProject, LooksForTeam, Moves, TypeOK, Call, tables
  <2>3. Owns(call[c].user, call[c].project) \/ Passes(call[c].user, call[c].project)
    BY <1>5, <2>1 DEF LooksForProject, LooksForTeam, Moves, TypeOK, Call
  <2>4. QED
    BY <2>1, <2>2, <2>3, CallsTyped, GuardIsTight
<1>6. CASE ReadsRow(c) /\ Found(c)
  <2>1. call[c] # None /\ call[c] \in Call
    BY <1>6, CallsTyped DEF ReadsRow, Asks, At
  <2>2. /\ call'[c].user = call[c].user /\ call'[c].project = call[c].project
        /\ call'[c].request = call[c].request /\ project' = project
    BY <1>6, <2>1 DEF ReadsRow, TypeOK, Call, tables
  <2>3. QED
    BY <1>6, <2>1, <2>2 DEF Passed, ReadsRow, Asks, At
<1>7. QED
  BY <1>1, <1>2, <1>3, <1>4, <1>5, <1>6

\* A row keeps its table, its user and its project.
LEMMA RowsStay ==
  ASSUME TypeOK, Writing, [Next]_vars, NEW r \in Rows
  PROVE  \/ row'[r] = row[r]
         \/ \E c \in Calls : CreatesRow(c, r)
         \/ /\ row[r] # None /\ row'[r] # None
            /\ row'[r].kind = row[r].kind /\ row'[r].user = row[r].user
            /\ row'[r].project = row[r].project
<1> DEFINE Kept == /\ row[r] # None /\ row'[r] # None
                   /\ row'[r].kind = row[r].kind /\ row'[r].user = row[r].user
                   /\ row'[r].project = row[r].project
<1>1. \/ row' = row
      \/ \E c \in Calls : UpdatesIntegration(c) \/ WritesRow(c) \/ DeletesRow(c)
      \/ \E c \in Calls, s \in Rows : CreatesRow(c, s)
  BY DEF Next, DeletesProject, CreatesProject, Arrives, LooksForProject, LooksForTeam, Fails,
         ListsCreator, Invites, AssignsRole, RemovesMember, ReadsRow, tables, vars
<1>2. ASSUME NEW c \in Calls, UpdatesIntegration(c) \/ WritesRow(c) \/ DeletesRow(c), row'[r] # row[r]
      PROVE  Kept
  <2>1. /\ call[c] # None /\ Target(c) \in Rows /\ call[c].read \in Dicts
        /\ UpdatesIntegration(c) \/ WritesRow(c) => call[c].request.patch \in Dicts
    BY <1>2, CallsTyped, RequestForms
    DEF Writing, UpdatesIntegration, WritesRow, DeletesRow, Asks, At, Target
  <2>2. Found(c) /\ Target(c) = r
    <3>1. CASE UpdatesIntegration(c)
      BY <1>2, <2>1, <3>1 DEF UpdatesIntegration, TypeOK
    <3>2. CASE WritesRow(c)
      BY <1>2, <2>1, <3>2 DEF WritesRow, TypeOK
    <3>3. CASE DeletesRow(c)
      BY <1>2, <2>1, <3>3 DEF DeletesRow, TypeOK
    <3>4. QED
      BY <1>2, <3>1, <3>2, <3>3
  <2>3. row[r] # None /\ row[r] \in Row
    BY <2>2 DEF Found, Meant, TypeOK
  <2>4. PICK x : /\ row'[r] = x
                 /\ \/ x = [row[r] EXCEPT !.live = FALSE]
                    \/ \E d \in Dicts : x = [row[r] EXCEPT !.meta = d]
    <3>1. CASE DeletesRow(c)
      BY <2>2, <3>1 DEF DeletesRow, TypeOK
    <3>2. CASE UpdatesIntegration(c)
      BY <1>2, <2>1, <2>2, <3>2 DEF UpdatesIntegration, TypeOK
    <3>3. CASE WritesRow(c)
      <4>1. NewMeta(c) \in Dicts
        BY <2>1, <3>3, MergedDict DEF NewMeta
      <4>2. QED
        BY <2>2, <3>3, <4>1 DEF WritesRow, TypeOK
    <3>4. QED
      BY <1>2, <3>1, <3>2, <3>3
  <2>5. x \in Row /\ x.kind = row[r].kind /\ x.user = row[r].user /\ x.project = row[r].project
    <3>1. CASE x = [row[r] EXCEPT !.live = FALSE]
      BY <2>3, <3>1 DEF Row
    <3>2. ASSUME NEW d \in Dicts, x = [row[r] EXCEPT !.meta = d]
          PROVE  x \in Row /\ x.kind = row[r].kind /\ x.user = row[r].user /\ x.project = row[r].project
      BY <2>3, <3>2 DEF Row
    <3>3. QED
      BY <2>4, <3>1, <3>2
  <2>6. QED
    BY <2>3, <2>4, <2>5, NoneAssumption
<1>3. ASSUME NEW c \in Calls, NEW s \in Rows, CreatesRow(c, s), row'[r] # row[r]
      PROVE  CreatesRow(c, r)
  BY <1>3 DEF CreatesRow, TypeOK
<1>4. QED
  BY <1>1, <1>2, <1>3

\* A row of the team keeps its project, the user who made it and the one it is about.
LEMMA MembersStay ==
  ASSUME TypeOK, [Next]_vars, NEW m \in Members
  PROVE  \/ member'[m] = member[m]
         \/ \E c \in Calls : ListsCreator(c, m) \/ Invites(c, m)
         \/ \E c \in Calls : /\ AssignsRole(c) \/ RemovesMember(c)
                             /\ Meant(c, member[m]) /\ call[c].request.member = m
                             /\ member'[m] # None
                             /\ member'[m].user = member[m].user
                             /\ member'[m].project = member[m].project
                             /\ member'[m].email = member[m].email
<1>1. \/ member' = member
      \/ \E c \in Calls : AssignsRole(c) \/ RemovesMember(c)
      \/ \E c \in Calls, n \in Members : ListsCreator(c, n) \/ Invites(c, n)
  BY DEF Next, DeletesProject, CreatesProject, Arrives, LooksForProject, LooksForTeam, Fails,
         CreatesRow, UpdatesIntegration, ReadsRow, WritesRow, DeletesRow, tables, vars
<1>2. ASSUME NEW c \in Calls, AssignsRole(c) \/ RemovesMember(c), member'[m] # member[m]
      PROVE  /\ Meant(c, member[m]) /\ call[c].request.member = m
             /\ member'[m] # None
             /\ member'[m].user = member[m].user
             /\ member'[m].project = member[m].project
             /\ member'[m].email = member[m].email
  <2>1. /\ call[c] # None /\ call[c].request.member \in Members
        /\ AssignsRole(c) => call[c].request.role \in Roles
    BY <1>2, CallsTyped, RequestForms DEF AssignsRole, RemovesMember, Asks, At
  <2>2. Meant(c, member[m]) /\ call[c].request.member = m
    BY <1>2, <2>1 DEF AssignsRole, RemovesMember, TypeOK
  <2>3. member[m] \in Member
    BY <2>2 DEF Meant, TypeOK
  <2>4. PICK x : /\ member'[m] = x
                 /\ \/ x = [member[m] EXCEPT !.live = FALSE]
                    \/ \E role \in Roles : x = [member[m] EXCEPT !.role = role]
    <3>1. CASE RemovesMember(c)
      BY <2>2, <3>1 DEF RemovesMember, TypeOK
    <3>2. CASE AssignsRole(c)
      BY <2>1, <2>2, <3>2 DEF AssignsRole, TypeOK
    <3>3. QED
      BY <1>2, <3>1, <3>2
  <2>5. x \in Member /\ x.user = member[m].user /\ x.project = member[m].project
        /\ x.email = member[m].email
    <3>1. CASE x = [member[m] EXCEPT !.live = FALSE]
      BY <2>3, <3>1 DEF Member
    <3>2. ASSUME NEW role \in Roles, x = [member[m] EXCEPT !.role = role]
          PROVE  x \in Member /\ x.user = member[m].user /\ x.project = member[m].project
                 /\ x.email = member[m].email
      BY <2>3, <3>2 DEF Member
    <3>3. QED
      BY <2>4, <3>1, <3>2
  <2>6. QED
    BY <2>2, <2>4, <2>5, NoneAssumption
<1>3. ASSUME NEW c \in Calls, NEW n \in Members, ListsCreator(c, n) \/ Invites(c, n),
             member'[m] # member[m]
      PROVE  ListsCreator(c, m) \/ Invites(c, m)
  BY <1>3 DEF ListsCreator, Invites, Joins, TypeOK
<1>4. QED
  BY <1>1, <1>2, <1>3

\* Whoever holds a guarded row or a place in the team has created the project.
LEMMA NextCreators ==
  TypeOK /\ Writing /\ OnlyCreators /\ Passed /\ [Next]_vars => OnlyCreators'
<1> SUFFICES ASSUME TypeOK, Writing, OnlyCreators, Passed, [Next]_vars PROVE OnlyCreators'
  OBVIOUS
<1>1. ASSUME NEW r \in Rows, row'[r] # None, Guarded(row'[r].kind)
      PROVE  /\ project'[row'[r].project] # None
             /\ project'[row'[r].project].user = row'[r].user
  <2>1. CASE \E c \in Calls : CreatesRow(c, r)
    <3>1. PICK c \in Calls : CreatesRow(c, r)
      BY <2>1
    <3>2. /\ row'[r].kind = call[c].request.kind /\ row'[r].user = call[c].user
          /\ row'[r].project = call[c].project /\ project' = project
      BY <3>1 DEF CreatesRow, TypeOK
    <3>3. call[c] # None /\ call[c].at = "statement"
      BY <3>1 DEF CreatesRow, Asks, At
    <3>4. QED
      BY <1>1, <3>2, <3>3 DEF Passed
  <2>2. CASE /\ row[r] # None
             /\ row'[r].kind = row[r].kind /\ row'[r].user = row[r].user
             /\ row'[r].project = row[r].project
    <3>1. row[r].project \in Projects
      BY <2>2 DEF TypeOK, Row
    <3>2. project[row[r].project] # None /\ project[row[r].project].user = row[r].user
      BY <1>1, <2>2 DEF OnlyCreators
    <3>3. QED
      BY <2>2, <3>1, <3>2, ProjectsStay
  <2>3. QED
    BY <1>1, <2>1, <2>2, RowsStay
<1>2. ASSUME NEW m \in Members, member'[m] # None
      PROVE  /\ project'[member'[m].project] # None
             /\ project'[member'[m].project].user = member'[m].user
  <2>1. CASE \E c \in Calls : ListsCreator(c, m) \/ Invites(c, m)
    <3>1. PICK c \in Calls : ListsCreator(c, m) \/ Invites(c, m)
      BY <2>1
    <3>2. /\ member'[m].user = call[c].user /\ member'[m].project = call[c].project
          /\ project' = project
      BY <3>1 DEF ListsCreator, Invites, Joins, TypeOK
    <3>3. /\ call[c] # None /\ call[c].at = "statement" /\ call[c].request \in Requests
          /\ call[c].request.op \in {"found", "invite"}
      BY <3>1, CallsTyped DEF ListsCreator, Invites, Asks, At
    <3>4. call[c].request.op = "found" \/ Guarded(call[c].request.kind)
      BY <3>3, RequestForms DEF Guarded
    <3>5. QED
      BY <3>2, <3>3, <3>4 DEF Passed
  <2>2. CASE /\ member[m] # None /\ member'[m].user = member[m].user
             /\ member'[m].project = member[m].project
    <3>1. member[m].project \in Projects
      BY <2>2 DEF TypeOK, Member
    <3>2. project[member[m].project] # None /\ project[member[m].project].user = member[m].user
      BY <2>2 DEF OnlyCreators
    <3>3. QED
      BY <2>2, <3>1, <3>2, ProjectsStay
  <2>3. QED
    BY <1>2, <2>1, <2>2, MembersStay DEF Meant
<1>3. QED
  BY <1>1, <1>2 DEF OnlyCreators

\* A creator who has not been disowned keeps a row that admits him.
LEMMA NextStanding ==
  TypeOK /\ OnlyCreators /\ Passed /\ Standing /\ [Next]_vars => Standing'
<1> SUFFICES ASSUME TypeOK, OnlyCreators, Passed, Standing, [Next]_vars,
                    NEW p \in Projects, project'[p] # None, p \notin disowned'
             PROVE  Passes(project[p].user, p)'
  BY DEF Standing
<1>1. ASSUME project[p] # None, p \notin disowned
      PROVE  \E n \in TeamOf(project[p].user, p) :
               Admits(n, project[p].user) /\ project'[p].user = project[p].user
  BY <1>1, ProjectsStay DEF Standing, Passes
<1>2. ASSUME project[p] # None, p \notin disowned,
             \A n \in Members : member[n] # None => member'[n] = member[n]
      PROVE  Passes(project[p].user, p)'
  <2>1. PICK n \in TeamOf(project[p].user, p) :
               Admits(n, project[p].user) /\ project'[p].user = project[p].user
    BY <1>1, <1>2
  <2>2. n \in Members /\ member'[n] = member[n]
    BY <1>2, <2>1 DEF TeamOf
  <2>3. QED
    BY <2>1, <2>2 DEF TeamOf, Admits, Passes
<1>3. ASSUME NEW u \in Users, NEW q \in Projects, NEW c \in Calls, CreatesProject(c, u, q)
      PROVE  Passes(project[p].user, p)'
  <2>1. p # q /\ p \notin disowned /\ project[p] # None /\ member' = member
    BY <1>3 DEF CreatesProject, TypeOK
  <2>2. QED
    BY <1>2, <2>1
<1>4. ASSUME NEW u \in Users, NEW q \in Projects, DeletesProject(u, q)
      PROVE  Passes(project[p].user, p)'
  <2>1. p \notin disowned /\ project[p] # None /\ member' = member
    BY <1>4 DEF DeletesProject, Owns, TypeOK, history
  <2>2. QED
    BY <1>2, <2>1
<1>5. ASSUME NEW c \in Calls, NEW m \in Members, ListsCreator(c, m)
      PROVE  Passes(project[p].user, p)'
  <2>1. CASE call[c].project = p
    <3>1. member'[m] = [user |-> call[c].user, project |-> p, email |-> call[c].user,
                        role |-> "owner", live |-> TRUE]
      BY <1>5, <2>1 DEF ListsCreator, Joins, TypeOK
    <3>2. member'[m] \in Member
      BY <1>5, <3>1, CallsTyped DEF Member, Roles, ListsCreator, Asks, At
    <3>3. project'[p].user = call[c].user
      BY <1>5, <2>1 DEF ListsCreator, Asks, At, Passed
    <3>4. QED
      BY <3>1, <3>2, <3>3, NoneAssumption DEF Passes, TeamOf, Admits
  <2>2. CASE call[c].project # p
    <3>1. p \notin disowned /\ project[p] # None
      BY <1>5, <2>2 DEF ListsCreator
    <3>2. \A n \in Members : member[n] # None => member'[n] = member[n]
      BY <1>5 DEF ListsCreator, Joins, TypeOK
    <3>3. QED
      BY <1>2, <3>1, <3>2
  <2>3. QED
    BY <2>1, <2>2
<1>6. ASSUME NEW c \in Calls, NEW m \in Members, Invites(c, m)
      PROVE  Passes(project[p].user, p)'
  <2>1. p \notin disowned /\ project[p] # None
    BY <1>6 DEF Invites, history
  <2>2. \A n \in Members : member[n] # None => member'[n] = member[n]
    BY <1>6 DEF Invites, Joins, TypeOK
  <2>3. QED
    BY <1>2, <2>1, <2>2
<1>7. ASSUME NEW c \in Calls, AssignsRole(c) \/ RemovesMember(c)
      PROVE  Passes(project[p].user, p)'
  <2>1. p \notin disowned /\ project[p] # None
    BY <1>7 DEF AssignsRole, RemovesMember
  <2>2. PICK n \in TeamOf(project[p].user, p) :
               Admits(n, project[p].user) /\ project'[p].user = project[p].user
    BY <1>1, <2>1
  <2>3. n \in Members /\ member[n] # None /\ member[n] \in Member
    BY <2>2 DEF TeamOf, TypeOK
  <2>4. CASE member'[n] = member[n]
    BY <2>2, <2>4 DEF TeamOf, Admits, Passes
  <2>5. CASE member'[n] # member[n]
    <3>1. Meant(c, member[n]) /\ call[c].request.member = n
      BY <1>7, <2>3, <2>5 DEF AssignsRole, RemovesMember, TypeOK
    <3>2. Disowned(n) = {p}
      BY <2>2 DEF Disowned, Admits, TeamOf
    <3>3. AssignsRole(c) /\ call[c].request.role = "owner"
      BY <1>7, <3>1, <3>2 DEF AssignsRole, RemovesMember
    <3>4. member'[n] = [member[n] EXCEPT !.role = "owner"]
      BY <2>3, <3>1, <3>3 DEF AssignsRole, TypeOK
    <3>5. member'[n] = member[n]
      BY <2>2, <2>3, <3>4 DEF Admits, Member
    <3>6. QED
      BY <2>5, <3>5
  <2>6. QED
    BY <2>4, <2>5
<1>8. CASE UNCHANGED <<project, member, disowned>>
  BY <1>2, <1>8
<1>9. QED
  BY <1>3, <1>4, <1>5, <1>6, <1>7, <1>8
  DEF Next, Arrives, LooksForProject, LooksForTeam, Fails, CreatesRow, UpdatesIntegration,
      ReadsRow, WritesRow, DeletesRow, tables, history, vars

\* What an update writes is what the writes make up, if it has read the latest.
LEMMA NextLost ==
  TypeOK /\ Writing /\ LostOnlyByOverlap /\ [Next]_vars => LostOnlyByOverlap'
<1> SUFFICES ASSUME TypeOK, Writing, LostOnlyByOverlap, [Next]_vars,
                    NEW r \in Rows, row'[r] # None, r \notin overlaps'
             PROVE  row'[r].meta = sent'[r]
  BY DEF LostOnlyByOverlap
<1>1. ASSUME row'[r] = row[r], sent'[r] = sent[r], r \notin overlaps
      PROVE  row'[r].meta = sent'[r]
  BY <1>1 DEF LostOnlyByOverlap
<1>2. ASSUME NEW c \in Calls, NEW s \in Rows, CreatesRow(c, s)
      PROVE  row'[r].meta = sent'[r]
  <2>1. CASE s = r
    BY <1>2, <2>1 DEF CreatesRow, TypeOK
  <2>2. CASE s # r
    BY <1>1, <1>2, <2>2 DEF CreatesRow, TypeOK
  <2>3. QED
    BY <2>1, <2>2
<1>3. ASSUME NEW c \in Calls, UpdatesIntegration(c)
      PROVE  row'[r].meta = sent'[r]
  <2>1. Target(c) \in Rows
    BY <1>3, CallsTyped, RequestForms DEF UpdatesIntegration, Asks, At, Target
  <2>2. CASE Found(c) /\ call[c].request.patch # Empty /\ Target(c) = r
    <3>1. row[r] \in Row
      BY <2>2 DEF Found, Meant, TypeOK
    <3>2. row'[r] = [row[r] EXCEPT !.meta = call[c].request.patch]
      BY <1>3, <2>2 DEF UpdatesIntegration, TypeOK
    <3>3. row'[r].meta = call[c].request.patch
      BY <3>1, <3>2 DEF Row
    <3>4. QED
      BY <1>3, <2>2, <3>3 DEF UpdatesIntegration, TypeOK
  <2>3. CASE ~(Found(c) /\ call[c].request.patch # Empty)
    BY <1>1, <1>3, <2>3 DEF UpdatesIntegration
  <2>4. CASE Found(c) /\ call[c].request.patch # Empty /\ Target(c) # r
    BY <1>1, <1>3, <2>1, <2>4 DEF UpdatesIntegration, TypeOK
  <2>5. QED
    BY <2>2, <2>3, <2>4
<1>4. ASSUME NEW c \in Calls, WritesRow(c)
      PROVE  row'[r].meta = sent'[r]
  <2>1. Target(c) \in Rows
    BY <1>4, CallsTyped, RequestForms DEF Writing, WritesRow, At, Target
  <2>2. CASE Found(c) /\ Target(c) = r
    <3>1. row[r] # None /\ row[r] \in Row
      BY <2>2 DEF Found, Meant, TypeOK
    <3>2. call[c].read = row[r].meta /\ r \notin overlaps
      BY <1>4, <2>2 DEF WritesRow
    <3>3. row'[r] = [row[r] EXCEPT !.meta = NewMeta(c)]
      BY <1>4, <2>2 DEF WritesRow, TypeOK
    <3>4. row'[r].meta = NewMeta(c)
      BY <3>1, <3>3 DEF Row
    <3>5. sent'[r] = Merged(sent[r], call[c].request.patch)
      BY <1>4, <2>2 DEF WritesRow, TypeOK
    <3>6. row[r].meta = sent[r]
      BY <3>1, <3>2 DEF LostOnlyByOverlap
    <3>7. QED
      BY <3>2, <3>4, <3>5, <3>6 DEF NewMeta
  <2>3. CASE ~Found(c)
    BY <1>1, <1>4, <2>3 DEF WritesRow
  <2>4. CASE Found(c) /\ Target(c) # r
    BY <1>1, <1>4, <2>1, <2>4 DEF WritesRow, TypeOK
  <2>5. QED
    BY <2>2, <2>3, <2>4
<1>5. ASSUME NEW c \in Calls, DeletesRow(c)
      PROVE  row'[r].meta = sent'[r]
  <2>1. Target(c) \in Rows /\ r \notin overlaps /\ sent' = sent
    BY <1>5, CallsTyped, RequestForms DEF DeletesRow, Asks, At, Target, history
  <2>2. CASE Found(c) /\ Target(c) = r
    <3>1. row[r] # None /\ row[r] \in Row
      BY <2>2 DEF Found, Meant, TypeOK
    <3>2. row'[r] = [row[r] EXCEPT !.live = FALSE]
      BY <1>5, <2>2 DEF DeletesRow, TypeOK
    <3>3. row'[r].meta = row[r].meta
      BY <3>1, <3>2 DEF Row
    <3>4. QED
      BY <2>1, <3>1, <3>3 DEF LostOnlyByOverlap
  <2>3. CASE ~Found(c)
    BY <1>1, <1>5, <2>1, <2>3 DEF DeletesRow
  <2>4. CASE Found(c) /\ Target(c) # r
    BY <1>1, <1>5, <2>1, <2>4 DEF DeletesRow, TypeOK
  <2>5. QED
    BY <2>2, <2>3, <2>4
<1>6. CASE UNCHANGED <<row, sent, overlaps>>
  BY <1>1, <1>6
<1>7. QED
  BY <1>2, <1>3, <1>4, <1>5, <1>6
  DEF Next, DeletesProject, CreatesProject, Arrives, LooksForProject, LooksForTeam, Fails,
      ListsCreator, Invites, AssignsRole, RemovesMember, ReadsRow, tables, history, vars

\* The inductive invariant.
LEMMA Invariance == Spec => [](Held /\ Writing)
<1>1. Held /\ Writing /\ [Next]_vars => (Held /\ Writing)'
  BY NextTyped, NextCreators, NextPassed, NextStanding, NextLost DEF Held
<1>2. QED
  BY InitHeld, <1>1, PTL DEF Spec

\* Every table, and every request under way, keeps to its types.
THEOREM RowsTyped == Spec => []TypeOK
<1>1. Held => TypeOK
  BY DEF Held
<1>2. QED
  BY Invariance, <1>1, PTL

\* check_admin_or_owner (crud.py:93) and the rows it reads are tight together: whatever
\* requests overlap, who holds a guarded row or a place in a team created the project.
THEOREM CreatorsOnly == Spec => []OnlyCreators
<1>1. Held => OnlyCreators
  BY DEF Held
<1>2. QED
  BY Invariance, <1>1, PTL

\* The merge of postgres_adapter.py:908 loses a change only to an overlapping update.
THEOREM OverlapsLose == Spec => []LostOnlyByOverlap
<1>1. Held => LostOnlyByOverlap
  BY DEF Held
<1>2. QED
  BY Invariance, <1>1, PTL

\* A guarded row is out of its user's reach only where his place in the team was
\* never made (projects.py:87) or was taken.
THEOREM StrandedByDisowning == Spec => []StrandedKnowingly
<1>1. Held => StrandedKnowingly
  <2> SUFFICES ASSUME Held, NEW r \in Rows, row[r] # None, row[r].live, Guarded(row[r].kind),
                      ~Owns(row[r].user, row[r].project), ~Passes(row[r].user, row[r].project)
               PROVE  row[r].project \in disowned
    BY DEF StrandedKnowingly
  <2>1. row[r].project \in Projects
    BY DEF Held, TypeOK, Row
  <2>2. project[row[r].project] # None /\ project[row[r].project].user = row[r].user
    BY DEF Held, OnlyCreators
  <2>3. QED
    BY <2>1, <2>2 DEF Held, Standing
<1>2. QED
  BY Invariance, <1>1, PTL

=============================================================================
