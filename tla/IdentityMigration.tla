-------------------------- MODULE IdentityMigration --------------------------
(***************************************************************************)
(* Migration 0004 (src/app/migrations/versions/m0004_identity_members.py): *)
(* legacy roles, workers, invitations and applications become the          *)
(* documents of project_member and team_member, every project gets an      *)
(* owner, and the consumed field `workers' is dropped.                     *)
(*                                                                         *)
(* up() is not a transaction.  It reads the legacy collections once and    *)
(* then writes document by document; it may die between any two writes and *)
(* is started again from the top.  It has no way back.  Its lease covers   *)
(* thirty minutes and is renewed only after verify(): an up() that takes   *)
(* longer is overtaken by a second process that executes it as well.       *)
(***************************************************************************)
EXTENDS Naturals, FiniteSets, Sequences

CONSTANTS
  Projects,     \* projects of the one team
  Team,         \* the team, a group like the projects
  Users,        \* registered users
  FirstUser,    \* the earliest of them, the site creator
  Names,        \* normalised display names found in `workers'
  LegacyCases,  \* the legacy databases looked at
  Processes,    \* processes that may run `manage.py migrate'
  Free,         \* the value of a lock nobody holds
  NoUser,       \* the value of an owner that is not set
  MaxDocs,      \* bound: member documents ever inserted
  MaxFaults     \* bound: processes killed in the middle, and leases that end
                \* under a running up(), which count twice

ASSUME TeamAssumption == Team \notin Projects
ASSUME UserAssumption ==
  FirstUser \in Users /\ NoUser \notin Users \cup Names /\ Users \cap Names = {}
ASSUME LockAssumption == Free \notin Processes
ASSUME BoundAssumption == MaxDocs \in Nat /\ MaxFaults \in Nat

Groups   == Projects \cup {Team}
Subjects == Users \cup Names
Keys     == Groups \X Subjects

VARIABLES
  legacy,    \* relations, events, team roles and workers before the migration
  docs,      \* the documents of project_member and team_member
  made,      \* how many were ever inserted: their ids are 1..made
  owner,     \* Project.ou
  status,    \* Project.st
  workers,   \* the projects whose legacy field `w' still exists
  count,     \* m_uc of every group
  policy,    \* whether the team has its identity_tag_policy
  indexed,   \* whether the unique indexes exist
  summary,   \* the summary report: none, clean, issues
  bundle,    \* the evidence on disk: checksums written, workers it accounts for
  lock,      \* holder of the migration lock
  recorded,  \* 0004 is in migration_records
  run,       \* what each process is doing
  deaths, overruns,
  miscounts, \* ghost: the groups whose count was last written from a number
             \* that no longer held
  blind      \* ghost: the evidence was read after the fields began to go, with
             \* no sealed bundle left, or written over a sealed one

store == <<docs, made>>
fields == <<owner, status, workers, count, policy>>
outcome == <<indexed, summary, bundle, recorded>>
faults == <<deaths, overruns>>
marks == <<miscounts, blind>>
vars == <<legacy, store, fields, outcome, lock, run, faults, marks>>

NoDoc == [id |-> 0, group |-> Team, subject |-> FirstUser, tags |-> {},
          status |-> "removed"]
NoKey == <<Team, NoUser>>
Idle  == [pc |-> "idle", todo |-> {}, doing |-> NoKey, found |-> NoDoc,
          stale |-> {}, owners |-> [g \in Projects |-> NoUser], raw |-> {},
          issues |-> FALSE, number |-> 0]

-----------------------------------------------------------------------------
(* What the legacy database says                                           *)

\* The relations of one user, several of which may exist, as one set of tags.
RelationTags(g, u) == legacy.roles[g][u]

\* The invitations and applications of one user, in the order of their times.
Events == [kind : {"invitation", "application"},
           state : {"pending", "allowed", "denied"}]

\* What legacy databases may hold: a role that no tag stands for is unmapped, and
\* one tag stands for the workers' roles.  Not every name of the legacy field is
\* read: one under JSON that does not parse, in what is no object or no array, or
\* under a tag nothing stands for is counted as an issue and left alone.
Relations == {"creator", "admin", "member", "translator", "unmapped"}
LegacyStates ==
  [roles   : [Groups -> [Users -> SUBSET Relations]],
   events  : [Projects -> [Users -> Seq(Events)]],
   owner   : [Projects -> Users \cup {NoUser}],
   status  : [Projects -> {"NORMAL", "CLEARED", "COMPLETED", "FINISH_PLAN"}],
   credits : [Projects -> SUBSET Names],
   unread  : [Projects -> SUBSET Names],
   overlong : SUBSET Names]   \* longer than the 140 characters of a display name
ASSUME LegacyAssumption == LegacyCases \subseteq LegacyStates

LastEvent(g, u) == legacy.events[g][u][Len(legacy.events[g][u])]
EventStatus(e) ==
  CASE e.state = "pending" -> "invited"
    [] e.state = "allowed" -> "active"
    [] e.state = "denied"  -> "removed"

\* A user without a relation is projected from the last event, unless it is an
\* application nobody has answered.
FromEvents(g, u) ==
  IF legacy.events[g][u] = <<>>
     \/ LastEvent(g, u) = [kind |-> "application", state |-> "pending"]
  THEN {} ELSE {[tags |-> {}, status |-> EventStatus(LastEvent(g, u))]}

\* At most one state per user.  Relations grant access whatever the events say.
Projected(g, u) ==
  IF RelationTags(g, u) = {} THEN FromEvents(g, u)
  ELSE {[tags |-> RelationTags(g, u) \ {"unmapped"}, status |-> "active"]}

MemberKeys == {k \in Projects \X Users : Projected(k[1], k[2]) # {}}
TeamKeys   == {k \in {Team} \X Users : RelationTags(Team, k[2]) # {}}
Bug_SkipPlanned(raw) ==
  {k \in raw \X Names : /\ k[2] \in legacy.credits[k[1]]
                        /\ legacy.status[k[1]] # "FINISH_PLAN"}
WorkerKeys(raw) == {k \in raw \X Names : k[2] \in legacy.credits[k[1]]}

Candidates(g) == {u \in Users : "creator" \in RelationTags(g, u)}

\* The team's creator, otherwise the user who registered first.
Fallback ==
  IF Candidates(Team) # {} THEN CHOOSE u \in Candidates(Team) : TRUE
                           ELSE FirstUser

\* creator over admin over member.
Highest(tags) ==
  IF "creator" \in tags THEN {"creator"}
  ELSE IF "admin" \in tags THEN {"admin"} ELSE {"member"}

\* Project tags are united, a team member keeps the highest base tag.
United(g, tags) == IF g = Team THEN Highest(tags) ELSE tags

\* The projects that carry the legacy field `w'.
Full == {g \in Projects : legacy.credits[g] \cup legacy.unread[g] # {}}

Normal(st) == IF st \in {"CLEARED", "COMPLETED"} THEN st ELSE "NORMAL"

Init ==
  /\ legacy \in LegacyCases
  /\ docs = {} /\ made = 0
  /\ owner = legacy.owner /\ status = legacy.status
  /\ workers = Full
  /\ count = [g \in Groups |-> 0]
  /\ policy = FALSE
  /\ indexed = FALSE /\ summary = "none" /\ recorded = FALSE
  /\ bundle = [sealed |-> FALSE, raw |-> {}]
  /\ lock = Free
  /\ run = [p \in Processes |-> Idle]
  /\ deaths = 0 /\ overruns = 0
  /\ miscounts = {} /\ blind = FALSE

-----------------------------------------------------------------------------
(* The runner around up()                                                  *)

Goto(p, pc, todo) ==
  run' = [run EXCEPT ![p] = [@ EXCEPT !.pc = pc, !.todo = todo,
                                      !.doing = NoKey, !.found = NoDoc,
                                      !.number = 0]]

\* Leaving: the lock is released by the filter on its holder.
Leave(p) ==
  /\ run' = [run EXCEPT ![p] = Idle]
  /\ lock' = IF lock = p THEN Free ELSE lock

At(p, pc) == run[p].pc = pc /\ run[p].doing = NoKey

\* A cursor returns what it reads in one order, the same for every run.
First(todo) == CHOOSE k \in todo : TRUE

\* run_pending takes the lock; up() starts by reading all member documents.
Start(p) ==
  /\ run[p].pc = "idle" /\ lock = Free /\ ~recorded
  /\ lock' = p
  /\ run' = [run EXCEPT ![p] =
               [Idle EXCEPT !.pc = "merge", !.stale = docs,
                            !.todo = {<<d.group, d.subject>> : d \in docs}]]
  /\ UNCHANGED <<legacy, store, fields, outcome, faults, marks>>

\* A process is killed; its lease stays behind.
Die(p) ==
  /\ run[p].pc # "idle" /\ deaths + 2 * overruns < MaxFaults
  /\ deaths' = deaths + 1
  /\ run' = [run EXCEPT ![p] = Idle]
  /\ UNCHANGED <<legacy, store, fields, outcome, lock, overruns, marks>>

\* The lease of a dead process runs out.
ExpireLease ==
  /\ lock # Free /\ run[lock].pc = "idle"
  /\ lock' = Free
  /\ UNCHANGED <<legacy, store, fields, outcome, run, faults, marks>>

\* up() takes longer than the lease.
Overrun ==
  /\ lock # Free /\ run[lock].pc # "idle"
  /\ deaths + 2 * overruns + 2 <= MaxFaults
  /\ overruns' = overruns + 1
  /\ lock' = Free
  /\ UNCHANGED <<legacy, store, fields, outcome, run, deaths, marks>>

-----------------------------------------------------------------------------
(* _merge_existing_documents                                               *)

Rank(st) == CASE st = "active" -> 2 [] st = "invited" -> 1 [] OTHER -> 0
Best(statuses) == CHOOSE s \in statuses : \A t \in statuses : Rank(s) >= Rank(t)

Seen(p, k) == {d \in run[p].stale : <<d.group, d.subject>> = k}
Oldest(ds) == CHOOSE d \in ds : \A e \in ds : d.id <= e.id

Bug_KeepAll(ds) == {}
Surplus(ds) == ds \ {Oldest(ds)}

Merged(ds) ==
  [Oldest(ds) EXCEPT !.tags = United(Oldest(ds).group, UNION {d.tags : d \in ds}),
                     !.status = Best({d.status : d \in ds})]

\* update_one by id: nothing happens when the document is gone.
Update(old, new) ==
  docs' = {IF d.id = old.id THEN new ELSE d : d \in docs}

\* The canonical document of a subject is rewritten from what was read, ...
MergeDocuments(p) ==
  /\ At(p, "merge") /\ run[p].todo # {}
  /\ LET k == First(run[p].todo) IN
       /\ Update(Oldest(Seen(p, k)), Merged(Seen(p, k)))
       /\ run' = [run EXCEPT ![p].doing = k]
  /\ UNCHANGED <<legacy, made, fields, outcome, lock, faults, marks>>

\* ... then the others are deleted.
DropDuplicates(p) ==
  LET k == run[p].doing IN
  /\ run[p].pc = "merge" /\ k # NoKey
  /\ docs' = {d \in docs : \A e \in Surplus(Seen(p, k)) : d.id # e.id}
  /\ Goto(p, "merge", run[p].todo \ {k})
  /\ UNCHANGED <<legacy, made, fields, outcome, lock, faults, marks>>

\* Users, projects, relations, invitations and applications are read.
ReadLegacy(p) ==
  /\ At(p, "merge") /\ run[p].todo = {}
  /\ run' = [run EXCEPT ![p] = [@ EXCEPT !.pc = "members", !.todo = MemberKeys,
                                         !.stale = {}, !.owners = owner,
                                         !.raw = workers]]
  /\ blind' = (blind \/ (workers # Full /\ ~bundle.sealed))
  /\ UNCHANGED <<legacy, store, fields, outcome, lock, faults, miscounts>>

-----------------------------------------------------------------------------
(* _upsert_project_member and _upsert_team_member: find, then write        *)

Desired(p, k) ==
  CASE run[p].pc = "members"  -> CHOOSE m \in Projected(k[1], k[2]) : TRUE
    [] run[p].pc = "external" -> [tags |-> {"credited"}, status |-> "active"]
    [] run[p].pc = "owner"    -> [tags |-> {"creator"}, status |-> "active"]
    [] run[p].pc = "team"     -> [tags |-> Highest(RelationTags(Team, k[2])),
                                  status |-> "active"]

Holding(k) == {d \in docs : <<d.group, d.subject>> = k}
Remember(p, k) ==
  \E found \in IF Holding(k) = {} THEN {NoDoc} ELSE Holding(k) :
    run' = [run EXCEPT ![p] = [@ EXCEPT !.doing = k, !.found = found]]

FindMember(p) ==
  /\ run[p].pc \in {"members", "external", "team"} /\ run[p].doing = NoKey
  /\ run[p].todo # {}
  /\ Remember(p, First(run[p].todo))
  /\ UNCHANGED <<legacy, store, fields, outcome, lock, faults, marks>>

\* A stale pending or removed event does not downgrade an active document.
NewStatus(old, wanted) ==
  IF "active" \in {old.status, wanted.status} THEN "active" ELSE wanted.status

\* A team member who was removed stays removed.
Bug_Overwrite(old, wanted) ==
  [old EXCEPT !.tags = wanted.tags,
              !.status = IF old.group = Team THEN old.status
                                             ELSE NewStatus(old, wanted)]
Upserted(old, wanted) ==
  [old EXCEPT !.tags = United(old.group, old.tags \cup wanted.tags),
              !.status = IF old.group = Team THEN old.status
                                             ELSE NewStatus(old, wanted)]

\* insert_one meets the unique index, when it exists already.
InsertMember(p) ==
  LET k == run[p].doing
      wanted == Desired(p, k)
  IN
  /\ run[p].pc \in {"members", "external", "owner", "team"} /\ k # NoKey
  /\ run[p].found = NoDoc /\ made < MaxDocs
  /\ IF indexed /\ Holding(k) # {}
     THEN Leave(p) /\ UNCHANGED store
     ELSE /\ docs' = docs \cup {[id |-> made + 1, group |-> k[1],
                                 subject |-> k[2], tags |-> wanted.tags,
                                 status |-> wanted.status]}
          /\ made' = made + 1
          /\ Goto(p, run[p].pc, run[p].todo \ {k})
          /\ UNCHANGED lock
  /\ UNCHANGED <<legacy, fields, outcome, faults, marks>>

\* update_one writes what was found together with what is wanted.
UpdateMember(p) ==
  LET k == run[p].doing IN
  /\ run[p].pc \in {"members", "external", "owner", "team"} /\ k # NoKey
  /\ run[p].found # NoDoc
  /\ Update(run[p].found, Upserted(run[p].found, Desired(p, k)))
  /\ Goto(p, run[p].pc, run[p].todo \ {k})
  /\ UNCHANGED <<legacy, made, fields, outcome, lock, faults, marks>>

-----------------------------------------------------------------------------
(* Project fields, in the order of up()                                    *)

FinishMembers(p) ==
  /\ At(p, "members") /\ run[p].todo = {}
  /\ Goto(p, "status", Projects)
  /\ UNCHANGED <<legacy, store, fields, outcome, lock, faults, marks>>

\* _migrate_project_status; _migrate_workers only collects.
MigrateStatus(p) ==
  /\ At(p, "status") /\ run[p].todo # {}
  /\ LET g == First(run[p].todo) IN
       /\ status' = [status EXCEPT ![g] = Normal(@)]
       /\ IF run[p].todo = {g} THEN Goto(p, "external", WorkerKeys(run[p].raw))
                               ELSE Goto(p, "status", run[p].todo \ {g})
  /\ UNCHANGED <<legacy, store, owner, workers, count, policy, outcome, lock,
                 faults, marks>>

\* The repairs of the owner work on keys: the project and nobody yet.
FinishExternal(p) ==
  /\ At(p, "external") /\ run[p].todo = {}
  /\ Goto(p, "owner", Projects \X {NoUser})
  /\ UNCHANGED <<legacy, store, fields, outcome, lock, faults, marks>>

\* An owner the project document named when it was read is kept; it is an
\* issue when no creator relation names the same user, and so are several
\* candidates.
Questionable(g, seen) ==
  \/ seen # NoUser /\ seen \notin Candidates(g)
  \/ Cardinality(Candidates(g)) > 1

KeepOwner(p) ==
  /\ At(p, "owner") /\ run[p].todo # {}
  /\ LET k == First(run[p].todo) IN
     LET seen == run[p].owners[k[1]] IN
       /\ seen # NoUser \/ Cardinality(Candidates(k[1])) > 1
       /\ run' = [run EXCEPT ![p] =
                    [@ EXCEPT !.todo = run[p].todo \ {k},
                              !.issues = run[p].issues \/ Questionable(k[1], seen)]]
  /\ UNCHANGED <<legacy, store, fields, outcome, lock, faults, marks>>

\* The only creator becomes the owner.
BindCandidate(p) ==
  /\ At(p, "owner") /\ run[p].todo # {}
  /\ LET k == First(run[p].todo) IN
       /\ run[p].owners[k[1]] = NoUser
       /\ Cardinality(Candidates(k[1])) = 1
       /\ owner' = [owner EXCEPT ![k[1]] = CHOOSE u \in Candidates(k[1]) : TRUE]
       /\ Goto(p, "owner", run[p].todo \ {k})
  /\ UNCHANGED <<legacy, store, status, workers, count, policy, outcome, lock,
                 faults, marks>>

\* Nobody was creator: the fallback becomes the owner, and then a member.
BindFallback(p) ==
  /\ At(p, "owner") /\ run[p].todo # {}
  /\ LET k == First(run[p].todo) IN
       /\ run[p].owners[k[1]] = NoUser /\ Candidates(k[1]) = {}
       /\ owner' = [owner EXCEPT ![k[1]] = Fallback]
       /\ run' = [run EXCEPT ![p] =
                    [@ EXCEPT !.pc = "bound", !.todo = run[p].todo \ {k},
                              !.doing = <<k[1], Fallback>>]]
  /\ UNCHANGED <<legacy, store, status, workers, count, policy, outcome, lock,
                 faults, marks>>

FindFallback(p) ==
  /\ run[p].pc = "bound"
  /\ \E found \in IF Holding(run[p].doing) = {} THEN {NoDoc}
                                               ELSE Holding(run[p].doing) :
       run' = [run EXCEPT ![p] = [@ EXCEPT !.pc = "owner", !.found = found]]
  /\ UNCHANGED <<legacy, store, fields, outcome, lock, faults, marks>>

\* The team's tag policy is inserted unless it exists.
CreatePolicy(p) ==
  /\ At(p, "owner") /\ run[p].todo = {}
  /\ policy' = TRUE
  /\ Goto(p, "team", TeamKeys)
  /\ UNCHANGED <<legacy, store, owner, status, workers, count, outcome, lock,
                 faults, marks>>

FinishTeam(p) ==
  /\ At(p, "team") /\ run[p].todo = {}
  /\ Goto(p, "recount", Groups \X {NoUser})
  /\ UNCHANGED <<legacy, store, fields, outcome, lock, faults, marks>>

-----------------------------------------------------------------------------
(* Counters, indexes, evidence, verification                               *)

Active(g) == {d \in docs : d.group = g /\ d.status = "active"}

\* The active members of a group are counted, ...
CountMembers(p) ==
  /\ At(p, "recount") /\ run[p].todo # {}
  /\ LET k == First(run[p].todo) IN
       run' = [run EXCEPT ![p] = [@ EXCEPT !.pc = "counted",
                                           !.number = Cardinality(Active(k[1]))]]
  /\ UNCHANGED <<legacy, store, fields, outcome, lock, faults, marks>>

\* ... then m_uc is written and `w' goes, only now.
WriteCount(p) ==
  /\ At(p, "counted")
  /\ LET k == First(run[p].todo)
         g == k[1]
         number == run[p].number
     IN
       /\ count' = [count EXCEPT ![g] = number]
       /\ workers' = workers \ {g}
       /\ miscounts' = IF number = Cardinality(Active(g)) THEN miscounts \ {g}
                                                         ELSE miscounts \cup {g}
       /\ IF run[p].todo = {k} THEN Goto(p, "index", {})
                               ELSE Goto(p, "recount", run[p].todo \ {k})
  /\ UNCHANGED <<legacy, store, owner, status, policy, outcome, lock, faults,
                 blind>>

OneEach == \A d, e \in docs :
             d.group = e.group /\ d.subject = e.subject => d = e

\* A unique index cannot be created over duplicates: up() raises.
EnsureIndexes(p) ==
  /\ At(p, "index")
  /\ IF OneEach THEN indexed' = TRUE /\ Goto(p, "report", {}) /\ UNCHANGED lock
                ELSE Leave(p) /\ UNCHANGED indexed
  /\ UNCHANGED <<legacy, store, fields, summary, bundle, recorded, faults, marks>>

SaveReports(p) ==
  /\ At(p, "report")
  /\ summary' = IF run[p].issues THEN "issues" ELSE "clean"
  /\ Goto(p, "files", {})
  /\ UNCHANGED <<legacy, store, fields, indexed, bundle, recorded, lock,
                 faults, marks>>

\* A sealed bundle of the batch is kept, ...
Bug_Rewrite == FALSE
Sealed == bundle.sealed

LookForBundle(p) ==
  /\ At(p, "files")
  /\ Goto(p, IF Sealed THEN "verify" ELSE "write", {})
  /\ UNCHANGED <<legacy, store, fields, outcome, lock, faults, marks>>

\* ... otherwise its files are written from what this run has read ...
WriteFiles(p) ==
  /\ At(p, "write")
  /\ bundle' = [sealed |-> FALSE, raw |-> run[p].raw]
  /\ blind' = (blind \/ bundle.sealed)
  /\ Goto(p, "seal", {})
  /\ UNCHANGED <<legacy, store, fields, indexed, summary, recorded, lock, faults,
                 miscounts>>

\* ... and their checksums last.
SealBundle(p) ==
  /\ At(p, "seal")
  /\ bundle' = [bundle EXCEPT !.sealed = TRUE]
  /\ Goto(p, "verify", {})
  /\ UNCHANGED <<legacy, store, fields, indexed, summary, recorded, lock,
                 faults, marks>>

Accepted ==
  /\ workers = {}
  /\ \A g \in Projects : status[g] = Normal(status[g])
  /\ \A g \in Groups : count[g] = Cardinality(Active(g))
  /\ \A d \in docs : d.subject \notin legacy.overlong
  /\ indexed
  /\ summary = "clean"

\* verify(), and the record when it accepts.
Verify(p) ==
  /\ At(p, "verify")
  /\ recorded' = (recorded \/ Accepted)
  /\ Leave(p)
  /\ UNCHANGED <<legacy, store, fields, indexed, summary, bundle, faults, marks>>

-----------------------------------------------------------------------------
UpStep(p) ==
  \/ MergeDocuments(p) \/ DropDuplicates(p) \/ ReadLegacy(p)
  \/ FindMember(p) \/ InsertMember(p) \/ UpdateMember(p)
  \/ FinishMembers(p) \/ MigrateStatus(p) \/ FinishExternal(p)
  \/ KeepOwner(p) \/ BindCandidate(p) \/ BindFallback(p) \/ FindFallback(p)
  \/ CreatePolicy(p) \/ FinishTeam(p)
  \/ CountMembers(p) \/ WriteCount(p) \/ EnsureIndexes(p) \/ SaveReports(p)
  \/ LookForBundle(p) \/ WriteFiles(p) \/ SealBundle(p) \/ Verify(p)

Next ==
  \/ \E p \in Processes : Start(p) \/ UpStep(p) \/ Die(p)
  \/ ExpireLease \/ Overrun

Spec == Init /\ [][Next]_vars

\* Deployment runs migrate until it succeeds, and the machine runs it.
FairSpec ==
  /\ Spec
  /\ \A p \in Processes : WF_vars(UpStep(p))
  /\ WF_vars(\E p \in Processes : Start(p))
  /\ WF_vars(ExpireLease)

-----------------------------------------------------------------------------
(* Properties                                                              *)

DocumentState == [id : 1..MaxDocs, group : Groups, subject : Subjects,
                  tags : SUBSET {"creator", "admin", "member", "translator",
                                 "credited"},
                  status : {"active", "invited", "removed"}]

\* Documents, fields and locks hold values of their type, and ids are unique.
TypeOK ==
  /\ docs \subseteq DocumentState /\ made \in 0..MaxDocs
  /\ \A d, e \in docs : d.id = e.id => d = e
  /\ owner \in [Projects -> Users \cup {NoUser}]
  /\ status \in [Projects -> {"NORMAL", "CLEARED", "COMPLETED", "FINISH_PLAN"}]
  /\ workers \subseteq Projects /\ count \in [Groups -> 0..MaxDocs]
  /\ policy \in BOOLEAN /\ indexed \in BOOLEAN /\ recorded \in BOOLEAN
  /\ summary \in {"none", "clean", "issues"}
  /\ bundle \in [sealed : BOOLEAN, raw : SUBSET Projects]
  /\ lock \in Processes \cup {Free}
  /\ miscounts \subseteq Groups /\ blind \in BOOLEAN

(* The result by definition, from the legacy database alone. *)

OwnerByRight(g) ==
  IF legacy.owner[g] # NoUser THEN legacy.owner[g]
  ELSE IF Candidates(g) # {} THEN CHOOSE u \in Candidates(g) : TRUE
  ELSE Fallback

NeedsFallback(g) == legacy.owner[g] = NoUser /\ Candidates(g) = {}

\* Only a person can settle this: several creators, or an owner none of them.
NeedsReview == \E g \in Projects : Questionable(g, legacy.owner[g])

MembersByRight(g) ==
  LET bound == IF NeedsFallback(g) THEN {Fallback} ELSE {}
      state(u) == [subject |-> u,
                   tags |-> (IF u \in bound THEN {"creator"} ELSE {}) \cup
                            UNION {m.tags : m \in Projected(g, u)},
                   status |-> IF u \in bound THEN "active"
                              ELSE (CHOOSE m \in Projected(g, u) : TRUE).status]
  IN  {state(u) : u \in {v \in Users : Projected(g, v) # {}} \cup bound} \cup
      {[subject |-> n, tags |-> {"credited"}, status |-> "active"] :
         n \in legacy.credits[g]}

TeamByRight ==
  {[subject |-> k[2], tags |-> Highest(RelationTags(Team, k[2])),
    status |-> "active"] : k \in TeamKeys}

Documents(g) == {[subject |-> d.subject, tags |-> d.tags, status |-> d.status] :
                   d \in {e \in docs : e.group = g}}

\* A process that was overtaken may write the number it counted long after another
\* one has put the documents right.
CountRight(g) ==
  count[g] = Cardinality(Active(g)) \/ (overruns > 0 /\ g \in miscounts)

Right ==
  /\ OneEach
  /\ \A g \in Projects : /\ Documents(g) = MembersByRight(g)
                         /\ owner[g] = OwnerByRight(g)
                         /\ status[g] = Normal(legacy.status[g])
  /\ Documents(Team) = TeamByRight
  /\ \A g \in Groups : CountRight(g)
  /\ policy

\* An owner bound by fallback is written after the members were read, which a
\* second process that runs up() beside the first may undo.
Serial == overruns = 0 \/ \A g \in Projects : ~NeedsFallback(g)

\* However often up() died and was started again, and even when two processes
\* ran it at once, a migration that is recorded and over has produced what the
\* legacy data say.  Two processes may leave a count that one of them wrote late.
MigratedIsRight ==
  recorded /\ (\A p \in Processes : run[p].pc = "idle") /\ Serial => Right

\* Values have their type, and a worker's name that the mapping reads is in the
\* legacy field until it is a member of the project.  The names it does not read
\* go with the field.
IdentityInv ==
  /\ TypeOK
  /\ \A g \in Projects : \A n \in legacy.credits[g] :
       g \in workers \/ \E d \in Holding(<<g, n>>) : d.status = "active"

\* A run that starts from a half-written result takes nothing back.
NothingTakenBack ==
  [][Serial =>
       \A d \in docs :
         \E e \in docs' : /\ <<e.group, e.subject>> = <<d.group, d.subject>>
                          /\ d.tags \subseteq e.tags \/ d.group = Team
                          /\ Rank(e.status) >= Rank(d.status)]_vars

\* A run was cut short or overtaken, perhaps right after it bound a fallback:
\* the next one takes that owner for one nobody's relation justifies.
Interrupted == deaths > 0 \/ overruns > 0

\* Through deaths, reruns and overlaps a sealed bundle accounts for every project
\* that had the field, until a run reads what another has begun to drop while no
\* sealed bundle is left, or writes over a bundle sealed since it looked; without
\* a death or an overlap neither happens.
EvidenceSurvives ==
  /\ bundle.sealed /\ ~blind => bundle.raw = Full
  /\ blind => Interrupted

\* A worker's name that is too long for a display name becomes a member that
\* verify never accepts.
Overlong == \E g \in Projects : legacy.credits[g] \cap legacy.overlong # {}

\* The migration comes to its end, however often it is cut short, except where
\* a person has to settle who the owner is or to shorten a name.
EventuallyRecorded ==
  \/ <>recorded
  \/ NeedsReview \/ Overlong
  \/ <>[](Interrupted /\ \E g \in Projects : NeedsFallback(g) /\ owner[g] # NoUser)

\* What the documentation says of the fallback: it counts as no issue and verify
\* passes as usual.  A run killed between the fallback and the end breaks it.
FallbackPasses == <>recorded \/ NeedsReview
=============================================================================
