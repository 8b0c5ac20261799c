------------------------------- MODULE Profiles -------------------------------
(* How people are called: the name and the aliases of a user, his aliases in *)
(* a team, the name a project shows, and the folded copies of all of them    *)
(* that searches read.  Requests load a document, change it, check it and    *)
(* write back the fields that differ from what they loaded; migration 0006   *)
(* fills in the copies of the documents that are older than they are.        *)
EXTENDS Naturals

CONSTANTS
  People,   \* ids of users, each a member of the team and of the project
  Names,    \* words people use; two of them may differ in case only
  Fold,     \* word -> its folded form
  NoWord,   \* the empty string, also the form of a field not yet there
  AliasLists, \* the lists of aliases people ask for
  Editors,  \* requests served at the same time
  MaxEdits  \* bound: requests in a behaviour

VARIABLES
  user,     \* User: [name, aliases, shown, search, found]
  teamer,   \* TeamMember: [aliases, shown, found, version]
  worker,   \* ProjectMember: [name, search]
  edit,     \* what a request is doing: [at, who, was, user, had,
            \* teamer, sync]
  backfill, \* migration 0006: [at, read]
  edits,    \* bound: requests so far
  crossed   \* windows of the code that have been hit

profileVars == <<user, teamer, worker, edit, backfill, edits, crossed>>

Folded(words) == {Fold[w] : w \in words}
NoUser == [name |-> NoWord, aliases |-> {}, shown |-> NoWord,
           search |-> NoWord, found |-> {}]
NoTeamer == [aliases |-> {}, shown |-> NoWord, found |-> {}, version |-> 0]
Resting(u) == [at |-> "idle", who |-> u, was |-> NoUser, user |-> NoUser,
               had |-> NoTeamer, teamer |-> NoTeamer, sync |-> NoWord]
Nothing == [u \in People |-> NoWord]

\* Documents written before the copies for searches existed.
ProfileInit ==
  /\ \E n \in [People -> Names] :
       /\ \A u, v \in People : u # v => Fold[n[u]] # Fold[n[v]]
       /\ user = [u \in People |-> [NoUser EXCEPT !.name = n[u]]]
       /\ worker = [u \in People |-> [name |-> n[u], search |-> NoWord]]
  /\ teamer = [u \in People |-> NoTeamer]
  /\ \E u \in People : edit = [e \in Editors |-> Resting(u)]
  /\ backfill = [at |-> "waits", read |-> Nothing]
  /\ edits = 0 /\ crossed = {}

(* ------------------------------ the checks ------------------------------ *)

\* normalize_aliases refuses an alias equal to the name, whatever its case.
Bug_Clashes(name, aliases) == name \in aliases
Clashes(name, aliases) == Fold[name] \in Folded(aliases)
\* Of two aliases that differ in case only the first one is kept.
Distinct(aliases) == \A a, b \in aliases : Fold[a] = Fold[b] => a = b

\* User.clean: a name to show is the name or an alias.
Clean(d) ==
  [d EXCEPT !.shown = IF @ \in {d.name} \cup d.aliases THEN @ ELSE NoWord,
            !.search = Fold[d.name], !.found = Folded(d.aliases)]
CleanTeamer(d) == [d EXCEPT !.found = Folded(d.aliases)]

\* verify_new_name, over all users, oneself included.
Free(n) == \A u \in People : Fold[user[u].name] # Fold[n]

\* save(): the fields that differ from those loaded.
Merged(stored, loaded, new) ==
  [f \in DOMAIN stored |-> IF new[f] # loaded[f] THEN new[f] ELSE stored[f]]

(* ----------------------------- users' profiles -------------------------- *)

BeginEdit(e, r) ==
  /\ edit[e].at = "idle" /\ edits < MaxEdits
  /\ edits' = edits + 1
  /\ edit' = [edit EXCEPT ![e] = r]

\* MeInfoAPI.put, the aliases' endpoints, and every other save of a user:
\* name, aliases and shown are the new values or the old ones.  A request
\* whose document is refused leaves nothing behind.
LoadProfile(e, u, name, aliases, shown) ==
  LET new == Clean([user[u] EXCEPT !.name = name, !.aliases = aliases,
                                   !.shown = shown])
  IN /\ name # user[u].name => Free(name)
     /\ Distinct(aliases) /\ ~ Clashes(name, aliases)
     /\ BeginEdit(e, [Resting(u) EXCEPT !.at = "user", !.was = user[u],
                                   !.user = new])
     /\ UNCHANGED <<user, teamer, worker, backfill, crossed>>

\* Somebody else has written names or aliases since they were loaded.
Called(d) == <<d.name, d.aliases, d.shown>>
SaveProfile(e) ==
  LET u == edit[e].who IN
  /\ edit[e].at = "user"
  /\ user' = [user EXCEPT ![u] = Merged(@, edit[e].was, edit[e].user)]
  /\ crossed' = crossed
       \cup (IF Called(user[u]) # Called(edit[e].was) THEN {"profile"} ELSE {})
       \cup (IF Clashes(user'[u].name, teamer[u].aliases) THEN {"renamed"}
                                                         ELSE {})
  /\ edit' = [edit EXCEPT ![e] = Resting(u)]
  /\ UNCHANGED <<teamer, worker, backfill, edits>>

(* ------------------------------ team members ---------------------------- *)

\* The name to show in projects: the member's, the user's, the registered one.
ShownName(shown, d) ==
  IF shown # NoWord THEN shown ELSE IF d.shown # NoWord THEN d.shown ELSE d.name

\* update_aliases, update_default_display_name and the other edits of a
\* member, who is read with his user.  Each is checked as a whole, the
\* aliases against the name, also if it changes neither.
LoadTeamer(e, u, aliases, shown, sync) ==
  /\ Distinct(aliases) /\ ~ Clashes(user[u].name, aliases)
  /\ BeginEdit(e, [Resting(u) EXCEPT !.at = "teamer", !.was = user[u],
       !.had = teamer[u],
       !.teamer = CleanTeamer([teamer[u] EXCEPT
         !.aliases = aliases, !.shown = shown, !.version = @ + 1]),
       !.sync = IF sync THEN ShownName(shown, user[u]) ELSE NoWord])
  /\ UNCHANGED <<user, teamer, worker, backfill, crossed>>

\* The save is conditional on the version.
SaveTeamer(e) ==
  LET u == edit[e].who IN
  /\ edit[e].at = "teamer" /\ edit[e].teamer.version = teamer[u].version + 1
  /\ teamer' = [teamer EXCEPT ![u] = Merged(@, edit[e].had, edit[e].teamer)]
  /\ crossed' = IF edit[e].was.name # user[u].name THEN crossed \cup {"renamed"}
                                                   ELSE crossed
  /\ edit' = [edit EXCEPT ![e] = [Resting(u) EXCEPT
       !.at = IF edit[e].sync = NoWord THEN "idle" ELSE "sync",
       !.sync = edit[e].sync]]
  /\ UNCHANGED <<user, worker, backfill, edits>>

VersionConflict(e) ==
  /\ edit[e].at = "teamer"
  /\ edit[e].teamer.version # teamer[edit[e].who].version + 1
  /\ edit' = [edit EXCEPT ![e] = Resting(edit[e].who)]
  /\ UNCHANGED <<user, teamer, worker, backfill, edits, crossed>>

\* sync_to_projects: the names shown in the team's projects follow.
SyncProject(e) ==
  /\ edit[e].at = "sync"
  /\ worker' = [worker EXCEPT ![edit[e].who] =
                  [name |-> edit[e].sync, search |-> Fold[edit[e].sync]]]
  /\ edit' = [edit EXCEPT ![e] = Resting(edit[e].who)]
  /\ UNCHANGED <<user, teamer, backfill, edits, crossed>>

(* ----------------------------- migration 0006 --------------------------- *)

Reads(from, to, copies) ==
  /\ backfill.at \in from
  /\ backfill' = [at |-> to, read |-> copies]
  /\ UNCHANGED <<user, teamer, worker, edit, edits, crossed>>
Writes(from, to) ==
  /\ backfill.at = from
  /\ backfill' = [at |-> to, read |-> Nothing]
  /\ UNCHANGED <<edit, edits, crossed>>

\* What the migration takes for the aliases of a user: it reads the field
\* `aliases`, and users keep theirs in a field called `as`.
AliasesRead(u) == {}

\* Each collection is read in a batch, and the batch written.
ReadUsers ==
  Reads({"waits", "failed"}, "users", [u \in People |-> Fold[user[u].name]])
WriteUsers ==
  /\ Writes("users", "users done")
  /\ user' = [u \in People |-> [user[u] EXCEPT !.search = backfill.read[u],
                                               !.found = AliasesRead(u)]]
  /\ UNCHANGED <<teamer, worker>>
ReadTeamers ==
  Reads({"users done"}, "teamers",
        [u \in People |-> Folded(teamer[u].aliases)])
WriteTeamers ==
  /\ Writes("teamers", "teamers done")
  /\ teamer' = [u \in People |->
                  [teamer[u] EXCEPT !.found = backfill.read[u]]]
  /\ UNCHANGED <<user, worker>>
ReadWorkers ==
  Reads({"teamers done"}, "workers",
        [u \in People |-> Fold[worker[u].name]])
WriteWorkers ==
  /\ Writes("workers", "verify")
  /\ worker' = [u \in People |->
                  [worker[u] EXCEPT !.search = backfill.read[u]]]
  /\ UNCHANGED <<user, teamer>>

Projected(d) == d.search = Fold[d.name]
UserFound(u) == Projected(user[u]) /\ user[u].found = AliasesRead(u)
TeamerFound(u) == teamer[u].found = Folded(teamer[u].aliases)
WorkerFound(u) == worker[u].search = Fold[worker[u].name]
Bug_Matches == \A u \in People : WorkerFound(u) /\ TeamerFound(u)
Matches ==
  \A u \in People : WorkerFound(u) /\ UserFound(u) /\ TeamerFound(u)
\* A request that has loaded a document whose copies were out of date does
\* not write the copies of what it changes, or writes those of what it has
\* not changed.
Straggler(e) ==
  \/ edit[e].at = "user" /\ ~ Projected(edit[e].was)
  \/ edit[e].at = "teamer" /\ edit[e].had.found # Folded(edit[e].had.aliases)
Verify ==
  /\ backfill.at = "verify"
  /\ backfill' = [at |-> IF Matches THEN "done" ELSE "failed", read |-> Nothing]
  /\ crossed' = IF \E e \in Editors : Straggler(e)
                  THEN crossed \cup {"straggler"} ELSE crossed
  /\ UNCHANGED <<user, teamer, worker, edit, edits>>

\* Killed anywhere, the migration starts again.
BackfillDies ==
  /\ backfill.at \notin {"waits", "failed", "done"}
  /\ backfill' = [at |-> "failed", read |-> Nothing]
  /\ UNCHANGED <<user, teamer, worker, edit, edits, crossed>>

EditOf(e) ==
  \/ \E u \in People, n \in Names, a \in AliasLists :
       \E s \in {user[u].shown, NoWord, n} \cup a : LoadProfile(e, u, n, a, s)
  \/ \E u \in People, a \in AliasLists, sync \in BOOLEAN :
       \E s \in {teamer[u].shown, NoWord} \cup a : LoadTeamer(e, u, a, s, sync)
  \/ SaveProfile(e) \/ SaveTeamer(e) \/ VersionConflict(e) \/ SyncProject(e)

ProfileNext ==
  \/ \E e \in Editors : EditOf(e)
  \/ ReadUsers \/ WriteUsers \/ ReadTeamers \/ WriteTeamers
  \/ ReadWorkers \/ WriteWorkers \/ Verify \/ BackfillDies

(* ------------------------------ properties ------------------------------ *)

\* The stored documents pass the check every save of them runs, so that the
\* user can still change his password and the team can still remove him: no
\* alias, his own or the team's, is his name, and the name he shows is one of
\* his.  Excepted are two overlapping saves of a profile, and a user who takes
\* an alias the team has given him for his name, which nothing compares.
DocumentsStaySavable ==
  \A u \in People :
    /\ "profile" \notin crossed =>
         /\ Fold[user[u].name] \notin Folded(user[u].aliases)
         /\ user[u].shown \in {NoWord, user[u].name} \cup user[u].aliases
    /\ "renamed" \notin crossed =>
         Fold[user[u].name] \notin Folded(teamer[u].aliases)

\* Once the migration is recorded, people are found under the names they
\* have, their aliases in a team and the names projects show: copies that were
\* filled in while names were changed did not survive its check.  Excepted is
\* a request that loaded its document before.
SearchFindsPeople ==
  (backfill.at = "done" /\ "straggler" \notin crossed) =>
    \A u \in People : Projected(user[u]) /\ TeamerFound(u) /\ WorkerFound(u)

\* And under their own aliases, as the description of the migration and
\* docs/project-identity-tags-change-summary.md:306 say.
AliasesAreFound ==
  (backfill.at = "done" /\ "straggler" \notin crossed) =>
    \A u \in People : user[u].found = Folded(user[u].aliases)
=============================================================================
