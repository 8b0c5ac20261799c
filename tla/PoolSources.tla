----------------------------- MODULE PoolSources -----------------------------
(* Where the files of a project are found: the source documents of the      *)
(* storage pool, the router that turns the project's pointer into a         *)
(* backend, and what administrators do to the documents while a transfer    *)
(* copies, moves the pointer and deletes.  StoragePool has the details of   *)
(* one transfer and of overlapping ones; here a source is a document that   *)
(* is added, edited, disabled and deleted, and a place is the bucket and    *)
(* the prefix the document happens to name.                                 *)
EXTENDS Naturals

CONSTANTS
  Pools,        \* ids of source documents
  NoPool,       \* the null pointer: the default storage
  Home,         \* the place of the default storage
  Spare,        \* other places
  Nowhere,      \* what a document without a bucket names
  Files,        \* keys of the project's objects
  Admins,       \* requests of administrators
  Shared,       \* may sources name a place that is already in use?
  MaxTransfers, \* bound: transfers in a behaviour
  MaxChanges    \* bound: edits, switches and deletions of documents

ASSUME PoolsAssumption == NoPool \notin Pools /\ Home # Nowhere

VARIABLES
  source,   \* the documents: [is, enabled, place, data]
  pointer,  \* Project.storage_source_id
  listed,   \* keys in the project's files
  objects,  \* the keys each place holds
  move,     \* the project's latest transfer: [status, from, to]
  rows,     \* the transfer's manifest: key -> status of its row
  run,      \* the worker: [at, src, dst], and whether a message waits
  admin,    \* what a request is doing: [at, pool, place, data, from, moves]
  used,     \* transfers and changes so far
  refreshes,    \* has_data still to be written by runs that have ended
  windows   \* windows of the code that have been hit

poolVars == <<source, pointer, listed, objects, move, rows, run, admin, used,
              refreshes, windows>>

Places == {Home, Nowhere} \cup Spare
At(s, status) == {k \in DOMAIN rows : s[k] = status}
Unmade == [is |-> "unmade", enabled |-> FALSE, place |-> Nowhere,
           data |-> FALSE]
Quiet == [at |-> "idle", pool |-> NoPool, place |-> Nowhere, data |-> FALSE,
          from |-> NoPool, moves |-> 0]
Stopped(queued) == [at |-> "idle", src |-> Nowhere, dst |-> Nowhere,
                    queued |-> queued]

PoolInit ==
  /\ source = [p \in Pools |-> Unmade]
  /\ pointer = NoPool
  /\ \E k \in Files : listed = {k}
  /\ objects = [l \in Places |-> IF l = Home THEN listed ELSE {}]
  /\ move = [status |-> "DONE", from |-> NoPool, to |-> NoPool]
  /\ rows = [k \in {} |-> "PENDING"]
  /\ run = Stopped(FALSE)
  /\ admin = [a \in Admins |-> Quiet]
  /\ used = [moves |-> 0, changes |-> 0]
  /\ refreshes = {}
  /\ windows = {}

Kept(p) == source[p].is = "there"
Loadable(p) == p # NoPool => Kept(p)
PlaceOf(p) == IF p = NoPool THEN Home ELSE source[p].place

\* Two documents for one place, or one for the default storage, only if the
\* environment is Shared: nothing in the code looks for it.
Fits(l) ==
  ~ Shared => /\ l # Home
              /\ \A p \in Pools : Kept(p) => PlaceOf(p) # l
              /\ \A a \in Admins : admin[a].place # l

Active == move.status \in {"PENDING", "COPYING", "VERIFIED", "SWITCHED"}
Ends == {move.from, move.to} \ {NoPool}
\* The field `source` of a transfer is the target of a move out of the
\* default storage and the origin of any other.
SourceField == IF move.from = NoPool THEN move.to ELSE move.from

(* ----------------------------- the router ----------------------------- *)

\* _resolve: only an enabled document that exists is claimed.
Claimed(p) == Kept(p) /\ source[p].enabled
Degraded == pointer # NoPool /\ ~ Claimed(pointer)
\* backend_for: what nobody claims is the default storage.
Backend == IF pointer = NoPool \/ Degraded THEN Home ELSE PlaceOf(pointer)

Upload(k) ==
  /\ k \notin listed /\ Backend # Nowhere
  /\ objects' = [objects EXCEPT ![Backend] = @ \cup {k}]
  /\ listed' = listed \cup {k}
  /\ windows' = IF Degraded THEN windows \cup {"strayed"} ELSE windows
  /\ UNCHANGED <<refreshes, source, pointer, move, rows, run, admin, used>>

(* ------------------------ the source documents ------------------------ *)

Begin(a, r) == admin[a].at = "idle" /\ admin' = [admin EXCEPT ![a] = r]
Finished(a) == admin' = [admin EXCEPT ![a] = Quiet]
Change == used.changes < MaxChanges /\ used' = [used EXCEPT !.changes = @ + 1]

\* SourceListAPI.post: tested first, saved then.
AddSource(p, l) ==
  /\ source[p].is = "unmade" /\ Fits(l)
  /\ source' = [source EXCEPT ![p] = [is |-> "there", enabled |-> TRUE,
                                      place |-> l, data |-> FALSE]]
  /\ UNCHANGED <<refreshes, pointer, listed, objects, move, rows, run, admin,
                 used, windows>>

\* SourceAPI.put with another place: refused once projects have moved in.
Movable(p) == ~ source[p].data
ReadSource(a, p, l) ==
  /\ Kept(p) /\ l # source[p].place /\ Fits(l) /\ Movable(p) /\ Change
  /\ Begin(a, [Quiet EXCEPT !.at = "save", !.pool = p, !.place = l,
                            !.data = source[p].data])
  /\ UNCHANGED <<refreshes, source, pointer, listed, objects, move, rows,
                 run, windows>>

\* The connection test refuses; nothing has been saved.
TestFails(a) ==
  /\ admin[a].at = "save"
  /\ Finished(a)
  /\ UNCHANGED <<refreshes, source, pointer, listed, objects, move, rows,
                 run, used, windows>>

\* A transfer that has begun and is not over; a failed one can be retried.
Underway == Active \/ move.status = "FAILED"
Begun(p) ==
  /\ Underway /\ p \in Ends
  /\ run.at # "idle" \/ \E k \in DOMAIN rows : rows[k] # "PENDING"
\* Saving a document deleted in between brings a part of it back.
SaveSource(a) ==
  LET p == admin[a].pool IN
  /\ admin[a].at = "save"
  /\ source' = [source EXCEPT
       ![p] = IF Kept(p) THEN [@ EXCEPT !.place = admin[a].place]
                           ELSE [Unmade EXCEPT !.is = "there",
                                               !.enabled = TRUE]]
  /\ windows' = IF \/ Begun(p) \/ (\E m \in refreshes : m.pool = p)
                   \/ (source[p].data /\ ~ admin[a].data)
                THEN windows \cup {"relocated"} ELSE windows
  /\ Finished(a)
  /\ UNCHANGED <<refreshes, pointer, listed, objects, move, rows, run, used>>

SetEnabled(p) ==
  /\ Kept(p) /\ Change
  /\ source' = [source EXCEPT ![p].enabled = ~ @]
  /\ UNCHANGED <<refreshes, pointer, listed, objects, move, rows, run, admin,
                 windows>>

\* SourceAPI.delete asks for projects, then for transfers, then deletes.
CheckProjects(a, p) ==
  /\ Kept(p) /\ pointer # p /\ Change
  /\ Begin(a, [Quiet EXCEPT !.at = "transfers", !.pool = p])
  /\ UNCHANGED <<refreshes, source, pointer, listed, objects, move, rows,
                 run, windows>>

Bug_Busy(p) == FALSE
Busy(p) == Active /\ SourceField = p
\* What the two questions miss: a transfer that ended between them, and the
\* target of a direct move, as nobody asks for the field `target_source`.
Missed(p) ==
  (IF pointer = p /\ ~ (Active /\ p = SourceField) THEN {"overtaken"} ELSE {})
  \cup
  (IF Active /\ p = move.to /\ p # SourceField THEN {"unasked"} ELSE {})
CheckTransfers(a) ==
  /\ admin[a].at = "transfers"
  /\ IF Busy(admin[a].pool)
       THEN Finished(a) /\ windows' = windows
       ELSE /\ admin' = [admin EXCEPT ![a].at = "delete",
                                      ![a].moves = used.moves]
            /\ windows' = windows \cup Missed(admin[a].pool)
  /\ UNCHANGED <<refreshes, source, pointer, listed, objects, move, rows,
                 run, used>>

DeleteSource(a) ==
  /\ admin[a].at = "delete"
  /\ source' = [source EXCEPT ![admin[a].pool].is = "gone"]
  /\ windows' = IF used.moves # admin[a].moves THEN windows \cup {"overtaken"}
                                             ELSE windows
  /\ Finished(a)
  /\ UNCHANGED <<refreshes, pointer, listed, objects, move, rows, run, used>>

(* ---------------------------- the transfer ---------------------------- *)

\* ProjectMigrateAPI, ProjectRestoreAPI and ProjectMoveAPI.
AskMove(a, to) ==
  /\ to # pointer /\ Loadable(pointer)
  /\ to # NoPool => Claimed(to)
  /\ Begin(a, [Quiet EXCEPT !.at = "create", !.pool = to, !.from = pointer])
  /\ UNCHANGED <<refreshes, source, pointer, listed, objects, move, rows,
                 run, used, windows>>

\* prepare, with no other transfer of the project unfinished.
CreateMove(a) ==
  /\ admin[a].at = "create" /\ ~ Underway /\ used.moves < MaxTransfers
  /\ move' = [status |-> "PENDING", from |-> admin[a].from,
              to |-> admin[a].pool]
  /\ rows' = [k \in listed |-> "PENDING"]
  /\ run' = Stopped(TRUE)
  /\ used' = [used EXCEPT !.moves = @ + 1]
  /\ Finished(a)
  /\ UNCHANGED <<refreshes, source, pointer, listed, objects, windows>>

\* TransferRetryAPI: failed rows again, or a new manifest.
RetryMove ==
  /\ move.status \in {"FAILED", "ABORTED"} /\ used.moves < MaxTransfers
  /\ rows' = IF move.status = "ABORTED" THEN [k \in listed |-> "PENDING"]
            ELSE [k \in DOMAIN rows |->
                    IF rows[k] = "FAILED" THEN "PENDING" ELSE rows[k]]
  /\ move' = [move EXCEPT !.status = "PENDING"]
  /\ run' = Stopped(TRUE)
  /\ used' = [used EXCEPT !.moves = @ + 1]
  /\ UNCHANGED <<refreshes, source, pointer, listed, objects, admin, windows>>

\* The references of a transfer cannot be read: the task raises, and the
\* transfer stays as it is without a message.
Readable == \A p \in Ends : Kept(p)
Set(status) == move' = [move EXCEPT !.status = status]

\* _backends_for: the documents as they are when the run starts.  A transfer
\* that has moved the pointer goes on with its deletions.
TakeMove ==
  /\ run.at = "idle" /\ run.queued
  /\ IF move.status = "SWITCHED" THEN move' = move ELSE Set("COPYING")
  /\ run' = IF Readable
              THEN [at |-> IF move.status = "SWITCHED" THEN "delete"
                           ELSE "copy",
                    src |-> PlaceOf(move.from),
                    dst |-> PlaceOf(move.to), queued |-> FALSE]
              ELSE Stopped(FALSE)
  /\ UNCHANGED <<refreshes, source, pointer, listed, objects, rows, admin,
                 used, windows>>

\* S3Transfer.transfer: the same place at both ends is copied onto itself.
CopyRow(k) ==
  /\ run.at = "copy" /\ k \in At(rows, "PENDING")
  /\ IF Nowhere \in {run.src, run.dst}
       THEN rows' = [rows EXCEPT ![k] = "FAILED"] /\ objects' = objects
       ELSE IF k \notin objects[run.src]
       THEN rows' = [rows EXCEPT ![k] = "SKIPPED"] /\ objects' = objects
       ELSE /\ rows' = [rows EXCEPT ![k] = "COPIED"]
            /\ objects' = [objects EXCEPT ![run.dst] = @ \cup {k}]
  /\ UNCHANGED <<refreshes, source, pointer, listed, move, run, admin, used,
                 windows>>

\* A run ends after a batch and asks for the next one.
PauseRun ==
  /\ run.at = "copy" /\ At(rows, "PENDING") \notin {{}, DOMAIN rows}
  /\ At(rows, "FAILED") = {}
  /\ run' = Stopped(TRUE)
  /\ UNCHANGED <<refreshes, source, pointer, listed, objects, move, rows,
                 admin, used, windows>>

CopyEnds ==
  /\ run.at = "copy" /\ At(rows, "PENDING") = {}
  /\ IF At(rows, "FAILED") # {}
       THEN Set("FAILED") /\ run' = Stopped(FALSE)
       ELSE /\ Set("VERIFIED")
            /\ run' = IF Readable THEN [run EXCEPT !.at = "verify"]
                                  ELSE Stopped(FALSE)
  /\ UNCHANGED <<refreshes, source, pointer, listed, objects, rows, admin,
                 used, windows>>

VerifyRows ==
  /\ run.at = "verify"
  /\ rows' = [k \in DOMAIN rows |->
       IF rows[k] # "COPIED" THEN rows[k]
       ELSE IF k \in objects[run.dst] THEN "VERIFIED" ELSE "FAILED"]
  /\ IF At(rows', "FAILED") # {}
       THEN Set("FAILED") /\ run' = Stopped(FALSE)
       ELSE move' = move /\ run' = [run EXCEPT !.at = "switch"]
  /\ UNCHANGED <<refreshes, source, pointer, listed, objects, admin, used,
                 windows>>

\* _switch_pointer: a new file, or a pointer somebody else has moved, stops
\* it.  The document is not looked at.
SwitchPointer ==
  /\ run.at = "switch"
  /\ IF listed \subseteq DOMAIN rows /\ pointer = move.from
       THEN /\ pointer' = move.to
            /\ Set("SWITCHED")
            /\ run' = IF Readable THEN [run EXCEPT !.at = "delete"]
                                  ELSE Stopped(FALSE)
       ELSE Set("ABORTED") /\ run' = Stopped(FALSE) /\ pointer' = pointer
  /\ UNCHANGED <<refreshes, source, listed, objects, rows, admin, used,
                 windows>>

\* Batches of the originals: a place may refuse one, having deleted a part.
DeleteOriginals ==
  /\ run.at = "delete"
  /\ \E gone \in SUBSET At(rows, "VERIFIED"), noted \in SUBSET Files :
       /\ noted \subseteq gone
       /\ objects' = [objects EXCEPT ![run.src] = @ \ gone]
       /\ rows' = [k \in DOMAIN rows |->
                    IF k \in noted THEN "SOURCE_DELETED" ELSE rows[k]]
  /\ run' = [run EXCEPT !.at = "settle"]
  /\ UNCHANGED <<refreshes, source, pointer, listed, move, admin, used,
                 windows>>

LeftBehind == At(rows, "VERIFIED")
ComeBack ==
  /\ run.at = "settle" /\ LeftBehind # {}
  /\ run' = Stopped(TRUE)
  /\ UNCHANGED <<refreshes, source, pointer, listed, objects, move, rows,
                 admin, used, windows>>

\* The end: has_data is refreshed afterwards, for the field `source` and for
\* the target of a direct move.  Who gives up deleting after MAX_STALLS
\* rounds leaves that target out.
Refreshed == IF LeftBehind = {} THEN Ends ELSE {SourceField}
SettleMove ==
  /\ run.at = "settle"
  /\ Set("DONE")
  /\ refreshes' = refreshes \cup
       {[pool |-> p, by |-> used.moves, seen |-> "unread"] : p \in Refreshed}
  /\ windows' = IF Refreshed # Ends THEN windows \cup {"unmarked"}
                                    ELSE windows
  /\ run' = Stopped(FALSE)
  /\ UNCHANGED <<source, pointer, listed, objects, rows, admin, used>>

\* _refresh_source_has_data counts first and writes then, if it is not killed.
CountProjects(m) ==
  /\ m.seen = "unread"
  /\ refreshes' = (refreshes \ {m}) \cup
       {[m EXCEPT !.seen = IF pointer = m.pool THEN "yes" ELSE "no"]}
  /\ UNCHANGED <<source, pointer, listed, objects, move, rows, run, admin,
                 used, windows>>

WriteMark(m) ==
  /\ m.seen # "unread"
  /\ source' = [source EXCEPT ![m.pool].data =
                  IF Kept(m.pool) THEN m.seen = "yes" ELSE @]
  /\ windows' = IF m.seen = "no" /\ pointer = m.pool
                THEN windows \cup {"unmarked"} ELSE windows
  /\ refreshes' = refreshes \ {m}
  /\ UNCHANGED <<pointer, listed, objects, move, rows, run, admin, used>>

LoseMark(m) ==
  /\ refreshes' = refreshes \ {m}
  /\ windows' = IF pointer = m.pool THEN windows \cup {"unmarked"} ELSE windows
  /\ UNCHANGED <<source, pointer, listed, objects, move, rows, run, admin,
                 used>>

Refresh(m) == CountProjects(m) \/ WriteMark(m) \/ LoseMark(m)

RunOn ==
  \/ TakeMove \/ PauseRun \/ CopyEnds \/ VerifyRows \/ SwitchPointer
  \/ DeleteOriginals \/ ComeBack \/ SettleMove
  \/ \E k \in DOMAIN rows : CopyRow(k)

Administer(a) ==
  \/ \E p \in Pools, l \in Places \ {Nowhere} : ReadSource(a, p, l)
  \/ TestFails(a) \/ SaveSource(a)
  \/ \E p \in Pools : CheckProjects(a, p)
  \/ CheckTransfers(a) \/ DeleteSource(a)
  \/ \E to \in Pools \cup {NoPool} : AskMove(a, to)
  \/ CreateMove(a)

PoolNext ==
  \/ RunOn \/ RetryMove
  \/ \E m \in refreshes : Refresh(m)
  \/ \E a \in Admins : Administer(a)
  \/ \E p \in Pools : SetEnabled(p)
  \/ \E p \in Pools, l \in Places \ {Nowhere} : AddSource(p, l)
  \/ \E k \in Files : Upload(k)

PoolSpec == PoolInit /\ [][PoolNext]_poolVars

(* ----------------------------- properties ----------------------------- *)

\* The backend the router picks for the project holds every file of the
\* project: before, while and after it is moved, whoever edits, adds and
\* deletes sources meanwhile, as long as its own source is not disabled.
\* Five windows are excepted: a place changed under a transfer that has
\* begun or whose has_data is still to be written, the target of a direct
\* move deleted, a deletion overtaken by a new transfer, an upload while the
\* source was disabled, and a document left without its has_data: the target
\* of a direct move that gave up deleting, or any whose worker was killed, or
\* was overtaken by another move, before it wrote what it had counted.
FilesAreFound ==
  (windows = {} /\ (pointer # NoPool => source[pointer].enabled)) =>
    listed \subseteq objects[Backend]

\* Some place holds every file of the project.  The comment at backend.py:315
\* says that a source and a target in the same bucket are caught.
FilesSurvive == listed \subseteq UNION {objects[l] : l \in Places}
=============================================================================
