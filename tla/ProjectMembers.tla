---- MODULE ProjectMembers ----
(***************************************************************************)
(* The members of one project and its owner: ProjectMemberService          *)
(* (add, update, bind, merge, hard_delete_external) and                    *)
(* ProjectLifecycleService.transfer_owner.                                 *)
(*                                                                         *)
(* MongoDB gives these services single-document writes only, so a handler  *)
(* is a sequence of them and every other handler may come between.  A      *)
(* request is: the client has seen rows and names their versions (Start);  *)
(* the handler loads the project document (Load); it reads the rows and    *)
(* the team and checks (the Check actions); it writes, one document per step.  Most   *)
(* writes are conditional on the version read (save_condition), a merge    *)
(* and a transfer write several documents and undo the first when a later  *)
(* one is refused, and a process may die between any two of them.          *)
(*                                                                         *)
(* A row is a ProjectMember document: an alias (external_id, user Nobody)  *)
(* or a registered user's.  Display names and times are left out; so is    *)
(* the displayed user_count, which only _sync_count writes.                *)
(***************************************************************************)
EXTENDS Naturals, IdentityRules

CONSTANTS
    Users,        \* registered users
    Aliases,      \* ids of members without an account
    Workers,      \* request handlers running at the same time
    Nobody,       \* no user
    Owner0,       \* the owner at the start
    Team,         \* the team's rows: user -> [status, base, quals]
    Policy,       \* the team's tag policy
    Open,         \* the team's worker_qualification_mode is "open"
    Locked,       \* the positions only the team creator may change
    MaxUser,      \* the project's max_user
    MaxRequests   \* bound: requests and clears started in a behaviour

ASSUME MembersAssumption ==
    /\ Owner0 \in Users /\ Nobody \notin Users
    /\ Users \cap Aliases = {}
    /\ MaxUser \in Nat /\ MaxRequests \in Nat
    /\ Open \in BOOLEAN /\ Locked \subseteq ProjectTags
    /\ \A u \in Users : /\ Team[u].status \in {"absent", "active", "removed"}
                        /\ Team[u].base \in ManagerTags \cup {"member"}
                        /\ Team[u].quals \subseteq WorkerTags

VARIABLES
    row,       \* the ProjectMember documents
    project,   \* owner_user, owner_version, clear_in_progress
    req,       \* what each handler holds in memory
    made,      \* requests and clears started so far
    scars      \* history: what has happened that optimistic locking cannot see

memberVars == <<row, project, req, made, scars>>

Rows == Users \cup Aliases
Tags == ProjectTags
Row == [status : {"absent", "active", "invited", "removed"},
        user : Users \cup {Nobody}, tags : SUBSET Tags, ver : Nat]
Absent == [status |-> "absent", user |-> Nobody, tags |-> {}, ver |-> 0]

Exists(r) == row[r].status # "absent"
IsAlias(x) == x.user = Nobody

\* for_user: the row of a user, found through the (project, user) index.
HasRow(u) == \E r \in Rows : Exists(r) /\ row[r].user = u
RowOf(u) == CHOOSE r \in Rows : Exists(r) /\ row[r].user = u
MemberOf(u) == IF HasRow(u) THEN row[RowOf(u)] ELSE Absent
ActiveRows == {r \in Rows : row[r].status = "active"}

\* Whether a user has the ACCESS the services ask for first, and is active
\* in the team or in the project; whether he manages its members.
MayOperate(u) ==
    /\ "ACCESS" \in EffectivePermissions(Policy, Team[u], MemberOf(u))
    /\ IsActive(Team[u]) \/ IsActive(MemberOf(u))
Manages(u) ==
    IsProjectManager(Policy, Team[u], MemberOf(u)) \/ IsTeamManager(Team[u])
\* The position lock, and what the rules say of the tags: of an alias's, and
\* of a registered user's.
Unlocked(by, tags) == LockAllows(Locked, Team[by], tags)
MayTagAlias(by, tags) == Unlocked(by, tags) /\ ValidAliasTags(tags)
MayTag(by, u, tags, allowCreator) ==
    /\ Unlocked(by, tags)
    /\ ValidProjectTags(Policy, Team[by], MemberOf(by), Team[u], by = u, tags,
                        allowCreator, Open)

Ops == {"add", "restore", "rename", "tags", "remove", "bind", "merge", "delete", "transfer"}

\* A handler's memory: the rows a and b it works on with the versions it was
\* told or has read, their snapshots, the owner the project document named
\* when it was loaded, and the tags it is about to write.
NoJob == [pc |-> "idle", op |-> "rename", by |-> Owner0, a |-> Owner0, b |-> Owner0,
         expA |-> 0, expB |-> 0, oldA |-> Absent, oldB |-> Absent,
         owner |-> Owner0, over |-> 0, tags |-> {}, tagsB |-> {}]

MembersInit ==
    /\ \E joined \in SUBSET (Users \ {Owner0}) :
         row = [r \in Rows |->
                  IF r \in Users \ joined /\ r # Owner0 THEN Absent
                  ELSE [status |-> "active", user |-> IF r \in Users THEN r ELSE Nobody,
                        tags |-> IF r = Owner0 THEN {"creator"} ELSE
                                 IF r \in Users THEN {} ELSE {"translator"},
                        ver |-> 0]]
    /\ project = [owner |-> Owner0, over |-> 0, clearing |-> FALSE]
    /\ req = [k \in Workers |-> NoJob]
    /\ made = 0
    /\ scars = {}

\* A handler that has written a first document and may still undo it: what
\* others read meanwhile may never have happened.
HalfWritten(k) == req[k].pc \in {"second", "commit", "undoA", "undoB"}
Provisional(r) == \E k \in Workers : HalfWritten(k) /\ r \in {req[k].a, req[k].b}
AfterReading(rs) == IF \E r \in rs : Provisional(r) THEN scars \cup {"torn"} ELSE scars

(***************************************************************************)
(* The steps every request shares.                                         *)
(***************************************************************************)
\* Requests that are refused on their face are left out: an alias is bound to
\* or merged into a user, ownership goes to a user, the rest names one row.
Sensible(op, a, b) ==
    CASE op = "bind" -> Exists(a) /\ IsAlias(row[a]) /\ b \in Users
      [] op = "merge" -> ~IsAlias(row[a]) /\ Exists(b) /\ IsAlias(row[b])
      [] op = "transfer" -> a = Owner0 /\ b \in Users
      [] op = "add" -> a \in Users /\ b = a
      [] OTHER -> Exists(a) /\ b = a

Start(k) ==
    /\ req[k].pc = "idle"
    /\ made < MaxRequests
    /\ \E op \in Ops, by \in Users, a \in Rows, b \in Rows :
         /\ Sensible(op, a, b)
         /\ req' = [req EXCEPT ![k] =
              [NoJob EXCEPT !.pc = "load", !.op = op, !.by = by, !.a = a, !.b = b,
                           !.expA = row[a].ver, !.expB = row[b].ver]]
         /\ scars' = AfterReading({a, b})
    /\ made' = made + 1
    /\ UNCHANGED <<row, project>>

\* The API loads the project document before it calls the service.
Load(k) ==
    /\ req[k].pc = "load"
    /\ req' = [req EXCEPT ![k] = [@ EXCEPT !.pc = "check", !.owner = project.owner,
                                           !.over = project.over]]
    /\ UNCHANGED <<row, project, made, scars>>

Done(k) == [req EXCEPT ![k] = NoJob]
Advance(k, pc, tags, tagsB) ==
    [req EXCEPT ![k] = [@ EXCEPT !.pc = pc, !.oldA = row[req[k].a], !.oldB = row[req[k].b],
                                 !.tags = tags, !.tagsB = tagsB]]

\* A check that fails ends the request; what is refused may also be asked again.
Refuse(k) ==
    /\ req[k].pc = "check"
    /\ req' = Done(k)
    /\ UNCHANGED <<row, project, made, scars>>

Checking(k, op) == req[k].pc = "check" /\ req[k].op = op
Named(k) == /\ Exists(req[k].a)
            /\ row[req[k].a].ver = req[k].expA

\* The owner guards of update and merge compare with the owner read at Load.
IsOwnerRow(k, r) == row[r].user = req[k].owner

(***************************************************************************)
(* The checks, one action per operation.                                   *)
(***************************************************************************)
CheckRename(k) ==
    LET q == req[k] IN
    /\ Checking(k, "rename") /\ MayOperate(q.by) /\ Named(k)
    /\ row[q.a].user # q.by => Manages(q.by)
    /\ row[q.a].user = q.by => IsActive(row[q.a])
    /\ req' = Advance(k, "write", row[q.a].tags, {})
    /\ UNCHANGED <<row, project, made, scars>>

\* update with a tag list: an alias takes worker tags; the owner keeps
\* creator; nobody drops his own identity tag, and only the owner drops
\* another's.  In an open team any member may tag registered users.
CheckTags(k) ==
    LET q == req[k]
        m == row[q.a]
        dropped(tags) == (m.tags \ tags) \cap ManagerTags IN
    /\ Checking(k, "tags") /\ MayOperate(q.by) /\ Named(k)
    /\ m.user # q.by => Manages(q.by) \/ (Open /\ ~IsAlias(m))
    /\ m.user = q.by => IsActive(m)
    /\ \E tags \in SUBSET Tags :
         /\ IF IsAlias(m) THEN MayTagAlias(q.by, tags)
            ELSE /\ IsOwnerRow(k, q.a) => "creator" \in tags
                 /\ MayTag(q.by, m.user, tags, IsOwnerRow(k, q.a))
                 /\ dropped(tags) # {} => m.user # q.by /\ q.owner = q.by
         /\ req' = Advance(k, "write", tags, {})
    /\ UNCHANGED <<row, project, made, scars>>

\* What would let the owner be removed from his project.
Bug_AnyoneLeaves(k) ==
    LET q == req[k] IN
    /\ Checking(k, "remove") /\ MayOperate(q.by) /\ Named(k)
    /\ row[q.a].user # q.by => Manages(q.by)
    /\ row[q.a].user = q.by => IsActive(row[q.a])
    /\ Unlocked(q.by, row[q.a].tags)
    /\ req' = Advance(k, "write", row[q.a].tags, {})
    /\ UNCHANGED <<row, project, made, scars>>

\* update with status "removed": anybody but the owner may be removed.
CheckRemove(k) ==
    LET q == req[k] IN
    /\ Checking(k, "remove") /\ MayOperate(q.by) /\ Named(k)
    /\ row[q.a].user # q.by => Manages(q.by)
    /\ row[q.a].user = q.by => IsActive(row[q.a])
    /\ Unlocked(q.by, row[q.a].tags)
    /\ ~IsOwnerRow(k, q.a)
    /\ req' = Advance(k, "write", row[q.a].tags, {})
    /\ UNCHANGED <<row, project, made, scars>>

\* add with a member_id: a manager takes a removed member back, with the
\* tags he had.
CheckRestore(k) ==
    LET q == req[k]
        m == row[q.a] IN
    /\ Checking(k, "restore") /\ MayOperate(q.by) /\ Manages(q.by) /\ Named(k)
    /\ m.status = "removed" /\ Unlocked(q.by, m.tags)
    /\ Cardinality(ActiveRows) < MaxUser
    /\ IF IsAlias(m) THEN MayTagAlias(q.by, m.tags) ELSE MayTag(q.by, m.user, m.tags, FALSE)
    /\ req' = Advance(k, "write", m.tags, {})
    /\ UNCHANGED <<row, project, made, scars>>

\* _add_user where the result is active at once: the user himself or the
\* team creator adds; a removed row is reused under the version just read.
CheckAdd(k) ==
    LET q == req[k]
        u == q.a IN
    /\ Checking(k, "add") /\ MayOperate(q.by)
    /\ u \in Users
    /\ MemberOf(u).status \in {"absent", "removed"}
    /\ u = q.by \/ IsTeamCreator(Team[q.by])
    /\ Cardinality(ActiveRows) < MaxUser
    /\ \E tags \in SUBSET WorkerTags :
         /\ MayTag(q.by, u, tags, FALSE)
         /\ LET r == IF HasRow(u) THEN RowOf(u) ELSE u IN
            req' = [req EXCEPT ![k] = [@ EXCEPT !.pc = "write", !.a = r, !.b = r,
                        !.expA = row[r].ver, !.oldA = row[r], !.oldB = row[r], !.tags = tags]]
    /\ scars' = AfterReading({r \in Rows : row[r].user = u})
    /\ UNCHANGED <<row, project, made>>

CheckDelete(k) ==
    LET q == req[k] IN
    /\ Checking(k, "delete") /\ MayOperate(q.by)
    /\ q.owner = q.by \/ IsTeamCreator(Team[q.by])
    /\ Exists(q.a) /\ IsAlias(row[q.a])
    /\ req' = Advance(k, "erase", {}, {})
    /\ UNCHANGED <<row, project, made, scars>>

\* bind the alias a to the user of b: under b's own id when he has no row
\* yet, else by merging into the row he has.
CheckBind(k) ==
    LET q == req[k]
        m == row[q.a]
        u == q.b IN
    /\ Checking(k, "bind") /\ MayOperate(q.by) /\ Manages(q.by) /\ Named(k)
    /\ m.status \in {"active", "removed"} /\ IsAlias(m)
    /\ u \in Users /\ IsActive(Team[u])
    /\ IF HasRow(u)
       THEN LET b == RowOf(u)
                owns == q.owner = u
                merged == row[b].tags \cup m.tags IN
            /\ row[b].status \in {"active", "invited"}
            /\ MayTag(q.by, u, merged, owns)
            /\ owns => "creator" \in merged
            /\ req' = [req EXCEPT ![k] = [@ EXCEPT !.pc = "bindMerge", !.b = b,
                          !.oldA = m, !.oldB = row[b], !.tagsB = merged]]
       ELSE /\ MayTag(q.by, u, m.tags, FALSE)
            /\ req' = Advance(k, "bindWrite", m.tags, {})
    /\ scars' = AfterReading({r \in Rows : row[r].user = u})
    /\ UNCHANGED <<row, project, made>>

\* merge the alias b into the registered member a, whose new tags the
\* client chooses.
CheckMerge(k) ==
    LET q == req[k]
        m == row[q.a] IN
    /\ Checking(k, "merge") /\ MayOperate(q.by) /\ Manages(q.by) /\ Named(k)
    /\ q.a # q.b
    /\ row[q.b].ver = q.expB
    /\ row[q.b].status = "active" /\ IsAlias(row[q.b])
    /\ m.status \in {"active", "invited"} /\ ~IsAlias(m)
    /\ IsActive(Team[m.user])
    /\ \E tags \in SUBSET Tags :
         /\ MayTag(q.by, m.user, tags, FALSE)
         /\ IsOwnerRow(k, q.a) => "creator" \in tags
         /\ req' = Advance(k, "first", tags, row[q.b].tags)
    /\ UNCHANGED <<row, project, made, scars>>

\* transfer_owner from the owner's row a to the row b.
CheckTransfer(k) ==
    LET q == req[k]
        a == RowOf(q.owner)
        u == q.b IN
    /\ Checking(k, "transfer")
    /\ \/ IsOwnerSnapshot(q.owner, q.by, MemberOf(q.by))
       \/ Manages(q.by)
    /\ u \in Users /\ HasRow(u) /\ IsActive(Team[u]) /\ IsActive(MemberOf(u))
    /\ u # q.owner
    /\ HasRow(q.owner) /\ IsActive(row[a]) /\ "creator" \in row[a].tags
    /\ \E keep \in {{}, {"admin"}} :
         req' = [req EXCEPT ![k] = [@ EXCEPT !.pc = "first", !.a = a, !.b = RowOf(u),
                   !.expA = row[a].ver, !.expB = row[RowOf(u)].ver,
                   !.oldA = row[a], !.oldB = row[RowOf(u)],
                   !.tags = (row[a].tags \ {"creator"}) \cup keep,
                   !.tagsB = row[RowOf(u)].tags \cup {"creator"}]]
    /\ scars' = AfterReading({a, RowOf(u)})
    /\ UNCHANGED <<row, project, made>>

(***************************************************************************)
(* The writes, one document per step.                                      *)
(***************************************************************************)
\* What update, restore and add leave of the row they have read.
Written(q, u) ==
    [q.oldA EXCEPT !.user = u, !.tags = q.tags, !.ver = @ + 1,
        !.status = CASE q.op = "remove" -> "removed"
                     [] q.op \in {"add", "restore"} -> "active"
                     [] OTHER -> @]

\* What a save without the version in its condition would accept.
Bug_AnyVersion(r, v) == Exists(r)

\* save_condition: the row still has the version the request named.
Current(r, v) == Exists(r) /\ row[r].ver = v

Write(k) ==
    LET q == req[k] IN
    /\ q.pc = "write" /\ q.oldA.status # "absent"
    /\ row' = IF Current(q.a, q.expA) THEN [row EXCEPT ![q.a] = Written(q, q.oldA.user)] ELSE row
    /\ req' = Done(k)
    /\ UNCHANGED <<project, made, scars>>

\* A new row: refused by the (project, user) index when the user has one.
Insert(k) ==
    LET q == req[k] IN
    /\ q.pc = "write" /\ q.oldA.status = "absent"
    /\ row' = IF HasRow(q.a) THEN row
              ELSE [row EXCEPT ![q.a] = [status |-> "active", user |-> q.a, tags |-> q.tags, ver |-> 0]]
    /\ req' = Done(k)
    /\ UNCHANGED <<project, made, scars>>

\* bind: the alias becomes the user's row, whatever its status was.
BindWrite(k) ==
    LET q == req[k] IN
    /\ q.pc = "bindWrite"
    /\ row' = IF Current(q.a, q.expA) /\ ~HasRow(q.b)
              THEN [row EXCEPT ![q.a] = [Written(q, q.b) EXCEPT !.status = "active"]] ELSE row
    /\ req' = Done(k)
    /\ UNCHANGED <<project, made, scars>>

\* _bind_merge_into_user saves the target without a condition ...
BindMerge(k) ==
    LET q == req[k] IN
    /\ q.pc = "bindMerge"
    /\ row' = [row EXCEPT ![q.b] = [@ EXCEPT !.tags = q.tagsB, !.ver = q.oldB.ver + 1]]
    /\ scars' = IF row[q.b] # q.oldB THEN scars \cup {"blind"} ELSE scars
    /\ req' = [req EXCEPT ![k].pc = "erase"]
    /\ UNCHANGED <<project, made>>

\* ... and then deletes the alias it read, as hard_delete_external does.
Erase(k) ==
    LET q == req[k] IN
    /\ q.pc = "erase"
    /\ row' = [row EXCEPT ![q.a] = Absent]
    /\ scars' = IF row[q.a] # q.oldA THEN scars \cup {"blind"} ELSE scars
    /\ req' = Done(k)
    /\ UNCHANGED <<project, made>>

\* merge and transfer: the first document (target, old owner) ...
WriteFirst(k) ==
    LET q == req[k] IN
    /\ q.pc = "first"
    /\ IF Current(q.a, q.expA)
       THEN /\ row' = [row EXCEPT ![q.a] = [@ EXCEPT !.tags = q.tags, !.ver = row[q.a].ver + 1]]
            /\ req' = [req EXCEPT ![k].pc = "second"]
       ELSE row' = row /\ req' = Done(k)
    /\ UNCHANGED <<project, made, scars>>

\* ... the second (alias, new owner); a refusal undoes the first.
WriteSecond(k) ==
    LET q == req[k]
        merge == q.op = "merge" IN
    /\ q.pc = "second"
    /\ IF Current(q.b, q.expB)
       THEN /\ row' = [row EXCEPT ![q.b] = [@ EXCEPT !.tags = q.tagsB, !.ver = row[q.b].ver + 1,
                               !.status = IF merge THEN "removed" ELSE row[q.b].status]]
            /\ req' = IF merge THEN Done(k) ELSE [req EXCEPT ![k].pc = "commit"]
       ELSE row' = row /\ req' = [req EXCEPT ![k].pc = "undoA"]
    /\ UNCHANGED <<project, made, scars>>

\* transfer: the project document, if owner and owner_version are the ones
\* read and no clear is running.
Commit(k) ==
    LET q == req[k] IN
    /\ q.pc = "commit"
    /\ IF project.owner = q.owner /\ project.over = q.over /\ ~project.clearing
       THEN /\ project' = [project EXCEPT !.owner = row[q.b].user, !.over = @ + 1]
            /\ req' = Done(k)
       ELSE project' = project /\ req' = [req EXCEPT ![k].pc = "undoA", ![k].op = "undo"]
    /\ UNCHANGED <<row, made, scars>>

\* The compensation puts tags and version number back, unless the row has
\* moved on.
Undo(r, old) ==
    IF Current(r, old.ver + 1) THEN [row EXCEPT ![r] = [@ EXCEPT !.tags = old.tags, !.ver = old.ver]]
    ELSE row

UndoFirst(k) ==
    LET q == req[k] IN
    /\ q.pc = "undoA"
    /\ row' = Undo(q.a, q.oldA)
    /\ req' = IF q.op = "undo" THEN [req EXCEPT ![k].pc = "undoB"] ELSE Done(k)
    /\ UNCHANGED <<project, made, scars>>

UndoSecond(k) ==
    LET q == req[k] IN
    /\ q.pc = "undoB"
    /\ row' = Undo(q.b, q.oldB)
    /\ req' = Done(k)
    /\ UNCHANGED <<project, made, scars>>

\* A process dies and its request is forgotten; before its first write that
\* is what a refusal is.
Die(k) ==
    /\ req[k].pc \notin {"idle", "load", "check"}
    /\ req' = Done(k)
    /\ scars' = IF HalfWritten(k) THEN scars \cup {"died"} ELSE scars
    /\ UNCHANGED <<row, project, made>>

\* ProjectLifecycleService.clear takes clear_in_progress and gives it back
\* when the contents could not be deleted.
ClearStarts ==
    /\ ~project.clearing /\ made < MaxRequests
    /\ project' = [project EXCEPT !.clearing = TRUE]
    /\ made' = made + 1
    /\ UNCHANGED <<row, req, scars>>
ClearFails ==
    /\ project.clearing
    /\ project' = [project EXCEPT !.clearing = FALSE]
    /\ UNCHANGED <<row, req, made, scars>>

Step(k) ==
    \/ Start(k) \/ Load(k) \/ Refuse(k) \/ Die(k)
    \/ CheckRename(k) \/ CheckTags(k) \/ CheckRemove(k) \/ CheckRestore(k) \/ CheckAdd(k)
    \/ CheckDelete(k) \/ CheckBind(k) \/ CheckMerge(k) \/ CheckTransfer(k)
    \/ Write(k) \/ Insert(k) \/ BindWrite(k) \/ BindMerge(k) \/ Erase(k)
    \/ WriteFirst(k) \/ WriteSecond(k) \/ Commit(k) \/ UndoFirst(k) \/ UndoSecond(k)

MembersNext == ClearStarts \/ ClearFails \/ \E k \in Workers : Step(k)

MembersSpec == MembersInit /\ [][MembersNext]_memberVars

(***************************************************************************)
(* Properties                                                              *)
(***************************************************************************)
Pcs == {"idle", "load", "check", "write", "erase", "bindWrite", "bindMerge",
        "first", "second", "commit", "undoA", "undoB"}

\* The type invariant.
MembersTypeOK ==
    /\ row \in [Rows -> Row]
    /\ project \in [owner : Users \cup {Nobody}, over : Nat, clearing : BOOLEAN]
    /\ req \in [Workers -> [pc : Pcs, op : Ops \cup {"undo"}, by : Users, a : Rows, b : Rows,
                            expA : Nat, expB : Nat, oldA : Row, oldB : Row,
                            owner : Users \cup {Nobody}, over : Nat,
                            tags : SUBSET Tags, tagsB : SUBSET Tags]]
    /\ made \in Nat
    /\ scars \subseteq {"torn", "blind", "died"}

Transferring == \E k \in Workers : HalfWritten(k) /\ req[k].op \in {"transfer", "undo"}

\* While no transfer is half written, the owner of the project is an active
\* member and he alone holds the creator tag.
OwnerHolds ==
    Transferring \/ {r \in Rows : "creator" \in row[r].tags}
                        = {r \in Rows : IsActive(row[r]) /\ row[r].user = project.owner}

\* ... and only three things can break it: a request that acted on a row
\* another had half written, one that saved or deleted a row without a
\* condition, and a process that died between two writes.
OwnerBreaksOnlyByScars == scars = {} => OwnerHolds /\ HasRow(project.owner)

\* Optimistic locking is sound as long as none of the three has happened: a
\* row that still has the version a request named is the row it has seen.
NoLostUpdate ==
    scars = {} => \A k \in Workers :
        LET q == req[k] IN
        /\ q.pc \in {"write", "bindWrite", "first"} /\ Exists(q.a) /\ q.oldA.status # "absent"
              => (Current(q.a, q.expA) => row[q.a] = q.oldA)
        /\ q.pc \in {"first", "second"} /\ Current(q.b, q.expB) => row[q.b] = q.oldB

\* The rows and the handlers are well typed, and no update is lost.
MembersInv == MembersTypeOK /\ NoLostUpdate
====
