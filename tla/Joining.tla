---- MODULE Joining ----
(***************************************************************************)
(* How users come into a group, a team or a project, and out of it again:  *)
(* invitations and applications (User.invite, User.apply, allow, deny,     *)
(* delete), User.join, the rows that ProjectInvitationAdapter projects for *)
(* a project, and TeamMemberService with the seats of a team.              *)
(*                                                                         *)
(* The lifecycle is the same code for both kinds of group; what differs is *)
(* join_team, which reserves a seat, and join_project, which does not but  *)
(* is followed by a projection.  A handler reads and writes one document   *)
(* per step; between two steps any other handler may run, or the process   *)
(* die.  Locked positions, display names and audits are left out.          *)
(***************************************************************************)
EXTENDS Naturals, FiniteSets

CONSTANTS
    Kinds,        \* the kinds of group looked at
    Joiners,      \* users who are not its creator
    Creator,      \* the creator of the group
    TeamMates,    \* users who are in the project's team
    AutoAdmins,   \* those of them with AUTO_BECOME_PROJECT_ADMIN
    JoinHandlers,     \* request handlers
    MaxSeats,     \* the group's max_user
    MaxDocs,      \* bound: invitations and applications
    MaxErrands,   \* bound: requests
    MaxDeaths     \* bound: processes that die

ASSUME JoiningAssumption ==
    /\ Kinds \subseteq {"team", "project"}
    /\ Creator \notin Joiners /\ AutoAdmins \subseteq TeamMates /\ TeamMates \subseteq Joiners
    /\ IsFiniteSet(Joiners) /\ IsFiniteSet(JoinHandlers)
    /\ MaxSeats \in Nat \ {0} /\ {MaxDocs, MaxErrands, MaxDeaths} \subseteq Nat

VARIABLES
    kind,         \* "team" or "project"
    memberRow,    \* user -> the TeamMember or ProjectMember document
    seats,        \* user_count of the team
    doc,          \* Invitation and Application documents
    errand,       \* what each handler holds in memory
    begun,        \* requests started
    deaths,
    joined,       \* history: users who have been active members
    raced,        \* history: "requests" have overlapped, "seats" been forgotten
    blind         \* history: users whose row was saved over a version not read

joinVars == <<kind, memberRow, seats, doc, errand, begun, deaths, joined, raced, blind>>

Everybody == Joiners \cup {Creator}
Docs == 1..MaxDocs
IsTeam == kind = "team"
NoRow == [status |-> "none", tag |-> "none", ver |-> 0]
NoDoc == [kind |-> "none", user |-> Creator, status |-> "none", role |-> "member"]
Active == {u \in Everybody : memberRow[u].status = "active"}
Full == Cardinality(Active) >= MaxSeats
Pending(u, k) == {i \in Docs : doc[i].kind = k /\ doc[i].user = u /\ doc[i].status = "pending"}
Earliest(S) == CHOOSE i \in S : \A j \in S : i <= j
UnusedDocs == {i \in Docs : doc[i].kind = "none"}

\* A handler: where it is, the request and its user, the tag or role to
\* write, the document at hand, the row read, what comes after the join, the
\* status to project, a count read; whether it has run alone so far.
NoErrand == [pc |-> "idle", op |-> "none", u |-> Creator, tag |-> "none", doc |-> 0, row |-> NoRow,
             then |-> "end", want |-> "none", n |-> 0, alone |-> TRUE]

JoinInit ==
    /\ kind \in Kinds
    /\ memberRow = [u \in Everybody |-> IF u = Creator
                               THEN [status |-> "active", tag |-> "creator", ver |-> 0] ELSE NoRow]
    /\ seats = 1
    /\ doc = [i \in Docs |-> NoDoc]
    /\ errand = [h \in JoinHandlers |-> NoErrand]
    /\ begun = 0 /\ deaths = 0
    /\ joined = {Creator} /\ raced = {} /\ blind = {}

At(h, pc) == errand[h].pc = pc
Me(h) == errand[h].u
Mine(h) == memberRow[errand[h].u]
\* A handler goes on with new memory, or is done with its request.
Hold(h, r) == errand' = [errand EXCEPT ![h] = IF r.pc = "end" THEN NoErrand ELSE r]
GoTo(h, pc) == Hold(h, [errand[h] EXCEPT !.pc = pc])
EndRequest(h) == Hold(h, NoErrand)
Reads == UNCHANGED <<kind, memberRow, seats, doc, begun, deaths, joined, raced, blind>>
\* Of a document read before, only what has been changed is written.
SetRow(u, read, status, tag, ver) ==
    LET row == [status |-> IF status = read.status THEN memberRow[u].status ELSE status,
                tag |-> IF tag = read.tag THEN memberRow[u].tag ELSE tag, ver |-> ver] IN
    /\ memberRow' = [memberRow EXCEPT ![u] = row]
    /\ joined' = IF row.status = "active" THEN joined \cup {u} ELSE joined
SameRows == UNCHANGED <<memberRow, joined, blind>>
OthersKeep == UNCHANGED <<kind, begun, deaths, raced>>

(***************************************************************************)
(* A request arrives.  Who works beside others is no longer alone.         *)
(***************************************************************************)
Begin(h, op, pc, u, tag, i) ==
    LET busy == \E g \in JoinHandlers : ~At(g, "idle") IN
    /\ At(h, "idle") /\ begun < MaxErrands
    /\ begun' = begun + 1 /\ raced' = (IF busy THEN raced \cup {"requests"} ELSE raced)
    /\ errand' = [g \in JoinHandlers |->
                 IF g = h THEN [NoErrand EXCEPT !.pc = pc, !.op = op, !.u = u, !.tag = tag, !.doc = i,
                                            !.alone = ~busy]
                 ELSE IF At(g, "idle") THEN errand[g] ELSE [errand[g] EXCEPT !.alone = FALSE]]
    /\ UNCHANGED <<kind, memberRow, seats, doc, deaths, joined, blind>>

Managers == {u \in Active : memberRow[u].tag \in {"creator", "admin"}}

\* A manager invites with a role below his own, or, into a project, with tags.
InviteUser(h, u, role) ==
    /\ \E m \in Managers : role = "member" \/ memberRow[m].tag = "creator"
    /\ Begin(h, "invite", "invite", u, role, 0)
InviteWithTags(h, u) == ~IsTeam /\ Begin(h, "reuse", "reuse", u, "chosen", 0)
Apply(h, u) == Begin(h, "apply", "apply", u, "member", 0)

\* A user answers his invitation, a manager an application or a document of
\* his own side; each has been loaded with the request.
Unanswered(i) == doc[i].status = "pending"
AnswerDoc(h, i) ==
    /\ Unanswered(i)
    /\ \/ Begin(h, "allow", "capture", doc[i].user,
                IF doc[i].kind = "inv" THEN doc[i].role ELSE "member", i)
       \/ Begin(h, "deny", "deny", doc[i].user, "none", i)

\* An invitation may be deleted whatever its status, an application only
\* while it is pending; tags are changed on a pending one.
Cancel(h, i) ==
    /\ \/ doc[i].kind = "inv" /\ doc[i].status # "deleted"
       \/ doc[i].kind = "app" /\ Unanswered(i)
    /\ Begin(h, "cancel", IF ~IsTeam /\ Unanswered(i) THEN "unproject" ELSE "erase",
             doc[i].user, "none", i)
Retag(h, i) ==
    /\ ~IsTeam /\ doc[i].kind = "inv" /\ Unanswered(i)
    /\ Begin(h, "retag", "retag", doc[i].user, "chosen", i)

\* TeamMemberService: a manager adds a user, gives a member below him another
\* base tag, or removes him; a member edits his aliases or leaves.
AddMember(h, u, base) ==
    /\ IsTeam
    /\ \E m \in Managers : base = "member" \/ memberRow[m].tag = "creator"
    /\ Begin(h, "add", "add", u, base, 0)
Above(m, u) == \/ memberRow[m].tag = "creator" /\ memberRow[u].tag # "creator"
               \/ memberRow[m].tag = "admin" /\ memberRow[u].tag = "member"
UpdateMember(h, u, base) ==
    /\ memberRow[u].status # "none"
    /\ \E m \in Managers \ {u} : Above(m, u) /\ (base = "admin" => memberRow[m].tag = "creator")
    /\ Begin(h, "update", "edit", u, base, 0)
EditAliases(h, u) ==
    IsTeam /\ memberRow[u].status = "active" /\ u # Creator /\ Begin(h, "aliases", "edit", u, memberRow[u].tag, 0)
RemoveMember(h, u) ==
    /\ memberRow[u].status \in {"active", "invited"} /\ memberRow[u].tag # "creator"
    /\ Begin(h, "remove", "edit", u, memberRow[u].tag, 0)

(***************************************************************************)
(* User.invite, create_or_reuse and User.apply.                            *)
(***************************************************************************)
\* create_or_reuse looks for a member, then for a pending invitation, before
\* it asks User.invite for one and looks for that.
LookReuse(h) ==
    /\ At(h, "reuse") /\ Reads
    /\ IF Mine(h).status = "active" THEN EndRequest(h)
       ELSE IF Pending(Me(h), "inv") # {} THEN Hold(h, [errand[h] EXCEPT !.pc = "after", !.n = 1])
       ELSE Hold(h, [errand[h] EXCEPT !.pc = "invite", !.then = "refetch"])
Refetch(h) ==
    /\ At(h, "refetch") /\ Reads
    /\ Hold(h, [errand[h] EXCEPT !.pc = "after",
                              !.n = IF Pending(Me(h), "inv") # {} THEN 1 ELSE 0])

\* What follows: a user that has been joined keeps the tags asked for, one
\* who has been invited gets a row to wait in; nobody at all is an error.
LookAfter(h) ==
    LET r == [errand[h] EXCEPT !.pc = "load", !.tag = "chosen", !.then = "end", !.doc = 0, !.n = 0] IN
    /\ At(h, "after") /\ Reads
    /\ IF Mine(h).status = "active" THEN Hold(h, [r EXCEPT !.want = "active"])
       ELSE IF errand[h].n = 1 THEN Hold(h, [r EXCEPT !.want = "invited"])
       ELSE EndRequest(h)

Role(h) == IF errand[h].op = "reuse" THEN "member" ELSE errand[h].tag

LookInvite(h) ==
    /\ At(h, "invite") /\ Reads
    /\ CASE Full \/ Mine(h).status = "active" -> EndRequest(h)
         [] ~Full /\ Mine(h).status # "active" /\ Pending(Me(h), "inv") # {} -> GoTo(h, errand[h].then)
         [] OTHER ->
              IF Pending(Me(h), "app") # {}
              THEN Hold(h, [errand[h] EXCEPT !.pc = "capture", !.tag = Role(h),
                                          !.doc = Earliest(Pending(Me(h), "app"))])
              ELSE IF ~IsTeam /\ Me(h) \in TeamMates
              THEN Hold(h, [errand[h] EXCEPT !.pc = "join", !.tag = Role(h)])
              ELSE GoTo(h, "newinv")

NewInvitation(h) ==
    /\ At(h, "newinv") /\ UnusedDocs # {}
    /\ doc' = [doc EXCEPT ![Earliest(UnusedDocs)] = [kind |-> "inv", user |-> Me(h), status |-> "pending",
                                              role |-> Role(h)]]
    /\ GoTo(h, errand[h].then)
    /\ SameRows /\ UNCHANGED seats /\ OthersKeep

LookApply(h) ==
    /\ At(h, "apply") /\ Reads
    /\ IF Full \/ Mine(h).status = "active" THEN EndRequest(h)
       ELSE IF ~IsTeam /\ Me(h) \in AutoAdmins
       THEN Hold(h, [errand[h] EXCEPT !.pc = "join", !.tag = "admin", !.then = "dropApp"])
       ELSE IF Pending(Me(h), "app") # {} THEN EndRequest(h)
       ELSE IF Pending(Me(h), "inv") # {}
       THEN LET i == Earliest(Pending(Me(h), "inv")) IN
            Hold(h, [errand[h] EXCEPT !.pc = "capture", !.doc = i, !.tag = doc[i].role])
       ELSE GoTo(h, "newapp")

\* The group may take applications without a check: the user allows his own.
NewApplication(h) ==
    /\ At(h, "newapp") /\ UnusedDocs # {}
    /\ LET i == Earliest(UnusedDocs) IN
       /\ doc' = [doc EXCEPT ![i] = [kind |-> "app", user |-> Me(h), status |-> "pending",
                                     role |-> "member"]]
       /\ \/ EndRequest(h)
          \/ Hold(h, [errand[h] EXCEPT !.pc = "capture", !.doc = i])
    /\ SameRows /\ UNCHANGED seats /\ OthersKeep

\* A user who became an admin by himself: his old application and his old
\* invitation are deleted.
DropOld(h) ==
    /\ \/ At(h, "dropApp") \/ At(h, "dropInv")
    /\ LET app == At(h, "dropApp")
           next == IF app THEN "dropInv" ELSE "end"
           S == Pending(Me(h), IF app THEN "app" ELSE "inv") IN
       IF S # {} THEN Hold(h, [errand[h] EXCEPT !.pc = "unproject", !.doc = Earliest(S), !.then = next])
       ELSE IF app THEN GoTo(h, next) ELSE EndRequest(h)
    /\ Reads

(***************************************************************************)
(* allow: the tags the row has are kept aside, the user joins, the document *)
(* is settled, and the kept tags are projected again.                      *)
(***************************************************************************)
\* A bug: the document is settled before the user joins.
Bug_SettleFirst(h) ==
    /\ At(h, "capture") /\ Reads
    /\ Hold(h, [errand[h] EXCEPT !.pc = "settle",
                              !.want = IF IsTeam \/ Mine(h) = NoRow THEN "unset" ELSE Mine(h).tag])

\* "unset": there was no row to keep the tags of.
Capture(h) ==
    /\ At(h, "capture") /\ Reads
    /\ Hold(h, [errand[h] EXCEPT !.pc = "join",
                              !.want = IF IsTeam \/ Mine(h) = NoRow THEN "unset" ELSE Mine(h).tag])

\* User.join is done: what its caller does next.
Joined(h, r) == Hold(h, [r EXCEPT !.pc = IF r.doc # 0 THEN "settle" ELSE r.then])

JoinGroup(h) ==
    /\ At(h, "join") /\ Reads
    /\ LET r == [errand[h] EXCEPT !.row = Mine(h)] IN
       IF Mine(h).status # "active" THEN Hold(h, [r EXCEPT !.pc = IF IsTeam THEN "reserve" ELSE "save"])
       ELSE IF IsTeam /\ Mine(h).tag # r.tag THEN Hold(h, [r EXCEPT !.pc = "save"])
       ELSE Joined(h, r)

LookAdd(h) ==
    /\ At(h, "add") /\ Reads
    /\ IF Mine(h).status = "active" THEN EndRequest(h)
       ELSE Hold(h, [errand[h] EXCEPT !.pc = "reserve", !.row = Mine(h)])

\* The row is inserted, refused by the unique index if somebody else has done
\* so; or changed: by add under the version read, by User.join whatever it is
\* by now.
Save(h) ==
    LET r == errand[h]
        lost == \/ r.row = NoRow /\ Mine(h) # NoRow
                \/ r.op = "add" /\ Mine(h).ver # r.row.ver
        ver == IF r.row = NoRow THEN 0 ELSE r.row.ver + 1 IN
    /\ At(h, "save") /\ OthersKeep /\ UNCHANGED <<seats, doc>>
    /\ IF lost
       THEN SameRows /\ IF IsTeam THEN Hold(h, [r EXCEPT !.pc = "sync", !.doc = 0, !.then = "end"]) ELSE EndRequest(h)
       ELSE /\ SetRow(Me(h), r.row, "active", r.tag, ver)
            /\ blind' = IF r.row.ver # Mine(h).ver THEN blind \cup {Me(h)} ELSE blind
            /\ IF IsTeam /\ r.row.status # "active" THEN GoTo(h, "sync") ELSE Joined(h, r)

\* What is saved of a document that has been deleted is found by nobody.
Settle(h) ==
    /\ At(h, "settle") /\ OthersKeep /\ SameRows /\ UNCHANGED seats
    /\ doc' = [doc EXCEPT ![errand[h].doc].status = IF @ = "deleted" THEN @ ELSE "allow"]
    /\ IF IsTeam THEN Hold(h, [errand[h] EXCEPT !.pc = errand[h].then])
       ELSE Hold(h, [errand[h] EXCEPT !.pc = "load", !.tag = errand[h].want, !.want = "active"])

(***************************************************************************)
(* The seats of a team: a conditional increment, tried again after the     *)
(* count has been set to the rows; and _sync_count after every change.     *)
(***************************************************************************)

Reserve(h) ==
    /\ At(h, "reserve") \/ At(h, "again")
    /\ IF seats < MaxSeats THEN seats' = seats + 1 /\ GoTo(h, "save")
       ELSE UNCHANGED seats /\ IF At(h, "reserve") THEN GoTo(h, "count") ELSE EndRequest(h)
    /\ SameRows /\ OthersKeep /\ UNCHANGED doc
Count(h) ==
    /\ At(h, "count") \/ At(h, "sync")
    /\ Hold(h, [errand[h] EXCEPT !.n = Cardinality(Active),
                              !.pc = IF At(h, "count") THEN "repair" ELSE "publish"])
    /\ Reads
\* Those who have a seat reserved and no row yet.
Holding == {h \in JoinHandlers : At(h, "save") /\ errand[h].row.status # "active"}

PublishCount(h) ==
    /\ At(h, "repair") \/ At(h, "publish")
    /\ seats' = errand[h].n
    /\ raced' = IF errand[h].n < Cardinality(Active) + Cardinality(Holding)
                THEN raced \cup {"seats"} ELSE raced
    /\ IF At(h, "repair") THEN Hold(h, [errand[h] EXCEPT !.pc = "again", !.n = 0])
       ELSE Joined(h, [errand[h] EXCEPT !.n = 0, !.row = NoRow])
    /\ SameRows /\ UNCHANGED <<kind, doc, begun, deaths>>

\* update, update_aliases and remove: under the version read.  A team member
\* who is removed already is left alone.
Edit(h) ==
    /\ At(h, "edit") /\ Reads
    /\ IF errand[h].op = "remove" /\ IsTeam /\ Mine(h).status = "removed" THEN EndRequest(h)
       ELSE Hold(h, [errand[h] EXCEPT !.pc = "write", !.row = Mine(h),
                              !.want = IF errand[h].op = "remove" THEN "removed" ELSE Mine(h).status])

(***************************************************************************)
(* Documents that end otherwise.                                           *)
(***************************************************************************)
Deny(h) ==
    /\ At(h, "deny") /\ OthersKeep /\ SameRows /\ UNCHANGED seats
    /\ doc' = [doc EXCEPT ![errand[h].doc].status = IF @ = "deleted" THEN @ ELSE "deny"]
    /\ IF IsTeam THEN EndRequest(h) ELSE GoTo(h, "unproject")

\* project_removed: the row of one who waited is removed (and made, if there
\* is none).
Unproject(h) ==
    /\ At(h, "unproject") /\ Reads
    /\ IF Mine(h).status \in {"active", "removed"} THEN GoTo(h, IF errand[h].op = "deny" THEN "end" ELSE "erase")
       ELSE Hold(h, [errand[h] EXCEPT !.pc = "load", !.want = "removed", !.tag = Mine(h).tag])

EraseDoc(h) ==
    /\ At(h, "erase") /\ OthersKeep /\ SameRows /\ UNCHANGED seats
    /\ doc' = [doc EXCEPT ![errand[h].doc].status = "deleted"]
    /\ Hold(h, [errand[h] EXCEPT !.pc = errand[h].then, !.doc = 0])

\* update_pending_tags: of one who waits, or who has joined meanwhile.
LookRetag(h) ==
    /\ At(h, "retag") /\ Reads
    /\ IF Mine(h).status # "active" THEN Hold(h, [errand[h] EXCEPT !.pc = "load", !.want = "invited"])
       ELSE IF Mine(h).tag = errand[h].tag THEN EndRequest(h)
       ELSE Hold(h, [errand[h] EXCEPT !.pc = "write", !.want = "active", !.row = Mine(h)])

(***************************************************************************)
(* _ensure_projection: reads the row again, decides, and writes it under   *)
(* the version it read.                                                    *)
(***************************************************************************)
\* Where a projection returns to.
After(h) == IF errand[h].op \in {"cancel", "apply"} /\ errand[h].want = "removed" THEN "erase"
            ELSE errand[h].then
\* Bug: an active member is not spared.
Bug_Downgrade(h) ==
    LET tag == IF errand[h].tag = "unset" THEN Mine(h).tag ELSE errand[h].tag IN
    /\ At(h, "load") /\ Reads
    /\ IF Mine(h).status = errand[h].want /\ Mine(h).tag = tag
       THEN Hold(h, [errand[h] EXCEPT !.pc = After(h), !.want = "none"])
       ELSE Hold(h, [errand[h] EXCEPT !.pc = "write", !.row = Mine(h), !.tag = tag])

LoadRow(h) ==
    LET tag == IF errand[h].tag = "unset" THEN Mine(h).tag ELSE errand[h].tag IN
    /\ At(h, "load") /\ Reads
    /\ IF \/ errand[h].want \in {"invited", "removed"} /\ Mine(h).status = "active"
          \/ Mine(h).status = errand[h].want /\ Mine(h).tag = tag
       THEN Hold(h, [errand[h] EXCEPT !.pc = After(h), !.want = "none"])
       ELSE Hold(h, [errand[h] EXCEPT !.pc = "write", !.row = Mine(h), !.tag = tag])

WriteRow(h) ==
    LET r == errand[h]
        mine == IF r.row = NoRow THEN Mine(h) = NoRow ELSE Mine(h).ver = r.row.ver
        next == IF r.op \in {"update", "aliases", "remove", "retag"}
                THEN IF r.op = "remove" /\ IsTeam /\ mine THEN "sync" ELSE "end"
                ELSE After(h) IN
    /\ At(h, "write") /\ OthersKeep /\ UNCHANGED <<seats, doc>>
    /\ IF mine
       THEN /\ SetRow(Me(h), r.row, r.want, r.tag, IF r.row = NoRow THEN 0 ELSE r.row.ver + 1)
            /\ UNCHANGED blind
       ELSE SameRows
    /\ Hold(h, [r EXCEPT !.pc = next, !.want = "none", !.row = NoRow])

HandlerDies(h) ==
    /\ ~At(h, "idle") /\ deaths < MaxDeaths
    /\ deaths' = deaths + 1
    /\ EndRequest(h)
    /\ UNCHANGED <<kind, memberRow, seats, doc, begun, joined, raced, blind>>

Requests(h) ==
    \/ \E u \in Joiners : \/ Apply(h, u) \/ InviteWithTags(h, u) \/ EditAliases(h, u) \/ RemoveMember(h, u)
                        \/ \E b \in {"admin", "member"} : InviteUser(h, u, b) \/ AddMember(h, u, b)
                                                          \/ UpdateMember(h, u, b)
    \/ \E i \in Docs : AnswerDoc(h, i) \/ Cancel(h, i) \/ Retag(h, i)

Steps(h) ==
    \/ LookReuse(h) \/ Refetch(h) \/ LookAfter(h) \/ LookInvite(h) \/ NewInvitation(h) \/ LookApply(h)
    \/ NewApplication(h) \/ DropOld(h) \/ Capture(h) \/ JoinGroup(h) \/ LookAdd(h) \/ Save(h) \/ Settle(h)
    \/ Reserve(h) \/ Count(h) \/ PublishCount(h) \/ Edit(h) \/ Deny(h) \/ Unproject(h) \/ EraseDoc(h)
    \/ LookRetag(h) \/ LoadRow(h) \/ WriteRow(h)

JoinNext == \E h \in JoinHandlers : Requests(h) \/ Steps(h) \/ HandlerDies(h)
JoinSpec == JoinInit /\ [][JoinNext]_joinVars

(***************************************************************************)
(* Properties                                                              *)
(***************************************************************************)
JoiningTypeOK ==
    /\ kind \in {"team", "project"}
    /\ memberRow \in [Everybody -> [status : {"none", "invited", "active", "removed"},
                           tag : {"none", "creator", "admin", "member", "chosen"}, ver : Nat]]
    /\ seats \in Nat /\ begun \in 0..MaxErrands /\ deaths \in 0..MaxDeaths
    /\ doc \in [Docs -> [kind : {"none", "inv", "app"}, user : Everybody, role : {"admin", "member"},
                         status : {"none", "pending", "allow", "deny", "deleted"}]]
    /\ joined \subseteq Everybody /\ raced \subseteq {"requests", "seats"}

AtRest == \A h \in JoinHandlers : At(h, "idle")

\* An invitation or application on record as allowed is never ahead of the
\* membership: its user has become a member first, wherever a process dies.
AllowedHasJoined == \A i \in Docs : doc[i].status = "allow" => doc[i].user \in joined

\* A team never has more active members than max_user, as the comment in
\* _reserve_capacity says of the conditional increment, also when requests for
\* the last seat overlap and when processes die, unless a _sync_count has set
\* the count to rows that lacked somebody with a seat ("seats").
WithinCapacity ==
    IsTeam /\ "seats" \notin raced => Cardinality(Active) <= MaxSeats

\* The documents are well typed, nobody is recorded as allowed before he has
\* joined, wherever a process dies, and no seat is given twice.
JoiningInv == JoiningTypeOK /\ AllowedHasJoined /\ WithinCapacity

\* After any sequence of requests that did not overlap, a user whose row says
\* invited still has an invitation or an application to be answered.
InvitedHasDoc == AtRest /\ deaths = 0 /\ raced = {} => \A u \in Joiners :
    memberRow[u].status = "invited" => Pending(u, "inv") \cup Pending(u, "app") # {}

\* Seats that were reserved by processes that died are found again: a request
\* that runs alone is told that the team is full only if it is.
LeakedSeatsAreFound == [][\A h \in JoinHandlers :
    At(h, "again") /\ errand'[h] = NoErrand /\ errand[h].alone /\ deaths' = deaths
        => Cardinality(Active) >= MaxSeats]_joinVars

\* An active member is never turned into an invited or a removed one by a
\* projection that was decided before the user joined, unless User.join has
\* saved over a version it had not read and so has used a number twice.
NeverDowngraded == [][\A u \in Joiners \ blind :
    memberRow[u].status = "active" /\ memberRow'[u].status # "active"
        => \E h \in JoinHandlers : errand[h].op = "remove" /\ Me(h) = u]_joinVars
====
