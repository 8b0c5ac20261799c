----------------------------- MODULE StoragePool -----------------------------
(***************************************************************************)
(* The storage pool of src/app/modules/storage_pool: how the objects of    *)
(* one project are moved between the default bucket and the pool sources.  *)
(*                                                                         *)
(* A transfer copies every listed object from its origin to its target,    *)
(* re-checks the copies, moves the project's pointer inside a lease lock,  *)
(* deletes the origin's objects and is then done.  Celery workers run      *)
(* transfers from a queue without acknowledgement after the fact, so a     *)
(* killed worker loses its message.  Administrators start, retry and lock; *)
(* users upload, remove and edit meanwhile.                                *)
(*                                                                         *)
(* Two constants say which environment is looked at.  Faults names what    *)
(* may break, Practices names what the people around the system do beyond  *)
(* the careful use the module's comments have in mind.                     *)
(***************************************************************************)
EXTENDS Naturals, FiniteSets

CONSTANTS
  Keys,          \* object keys the project may ever name
  Sources,       \* the storage pool sources, all enabled
  Default,       \* the default storage
  MaxTransfers,  \* bound: StorageTransfer documents of this project
  MaxQueue,      \* bound: run messages of one transfer in the broker
  MaxEdits,      \* bound: value of the project's edit_time
  BatchLimit,    \* max_objects_per_run
  MaxStalls,     \* MAX_STALLS
  Workers,       \* Celery workers
  Faults,        \* subset of FaultKinds that may happen
  Practices      \* subset of PracticeKinds the environment indulges in

\* crash: a worker dies between two steps;  copy: a copy raises;
\* phantom: a copy reports success and leaves no object;
\* delete: a delete batch raises;  pause: run_enabled is switched.
FaultKinds == {"crash", "copy", "phantom", "delete", "pause"}

\* interleave: a transfer is started or retried while another one of the
\* project is not settled;  redispatch: an active transfer is queued again;
\* overlap: an upload captures its backend and saves at different times, also
\* around the switch of the pointer;  derive: a thumbnail task writes an object
\* while a transfer already has its key in the manifest.
PracticeKinds == {"interleave", "redispatch", "overlap", "derive"}

Stores    == Sources \cup {Default}
Transfers == 1..MaxTransfers

ASSUME BoundAssumption ==
  /\ MaxTransfers \in Nat /\ MaxQueue \in Nat \ {0} /\ MaxEdits \in Nat
  /\ BatchLimit \in Nat \ {0} /\ MaxStalls \in Nat \ {0}
ASSUME StoreAssumption == Default \notin Sources
ASSUME KeyAssumption == IsFiniteSet(Keys)
ASSUME EnvironmentAssumption ==
  Faults \subseteq FaultKinds /\ Practices \subseteq PracticeKinds

VARIABLES
  pointer,     \* Project.storage_source_id, Default for null
  listed,      \* keys enumerate_object_kinds derives from the database
  stored,      \* those of them whose upload the program has acknowledged
  named,       \* keys ever used: save names are fresh ObjectIds
  edit,        \* Project.edit_time
  working,     \* Project.status is WORKING
  locked,      \* Project.storage_pool_locked
  runEnabled,  \* StoragePoolSetting.run_enabled
  hasData,     \* sources whose has_data is true
  objects,     \* the keys each store holds
  transfer,    \* the StorageTransfer documents, numbered by creation
  rows,        \* the StorageTransferObject status per transfer and key
  queue,       \* storage_pool_run messages waiting per transfer
  lease,       \* transfer owning StoragePoolLock, 0 for none
  worker,      \* what each worker is executing
  uploading    \* uploads with bytes in a store and no document yet

fileVars   == <<listed, stored, named, edit>>
adminVars  == <<working, locked, runEnabled>>
recordVars == <<transfer, rows>>
vars == <<pointer, fileVars, adminVars, hasData, objects, recordVars, queue,
          lease, worker, uploading>>

-----------------------------------------------------------------------------
(* Statuses and derived notions                                            *)

ACTIVE    == {"PENDING", "COPYING", "VERIFIED", "SWITCHED"}
RETRYABLE == {"FAILED", "ABORTED"}
Status    == {"NONE", "DONE"} \cup ACTIVE \cup RETRYABLE
RowStatus == {"NONE", "PENDING", "COPIED", "VERIFIED", "SOURCE_DELETED",
              "FAILED", "SKIPPED"}
Phases    == {"idle", "copy", "verify", "switch", "manifest", "flip", "mark",
              "delete", "settle"}
Section   == {"manifest", "flip", "mark"}

NoTransfer == [status |-> "NONE", origin |-> Default, target |-> Default,
               snapshot |-> 0, stalls |-> 0]
NoRows     == [k \in Keys |-> "NONE"]
IdleWorker == [pc |-> "idle", job |-> 0, todo |-> {}, moved |-> FALSE,
               stale |-> FALSE, seen |-> 0]

RowsIn(t, statuses) == {k \in Keys : rows[t][k] \in statuses}
Recorded(t) == {k \in Keys : rows[t][k] # "NONE"}
IsActive(t) == transfer[t].status \in ACTIVE
Running(t)  == {w \in Workers : worker[w].job = t}

\* The query every guard on unfinished transfers of the project makes.
Bug_OnlyEarlyCounts ==
  \A t \in Transfers : transfer[t].status \notin {"PENDING", "COPYING"}
NothingActive == \A t \in Transfers : ~IsActive(t)

\* Nobody is executing the transfer, nobody will: it is over or waits for a
\* manual retry.
Settled(t) ==
  ~IsActive(t) /\ queue[t] = 0 /\ Running(t) = {}

Newest(t) ==
  /\ transfer[t].status # "NONE"
  /\ \A u \in Transfers : u > t => transfer[u].status = "NONE"

\* The two steps a worker takes at the end of a run.
Stop(w)       == worker' = [worker EXCEPT ![w] = IdleWorker]
Goto(w, pc)   == worker' = [worker EXCEPT ![w].pc = pc]
SetStatus(t, status) == transfer' = [transfer EXCEPT ![t].status = status]
SetStalls(t, stalls) == transfer' = [transfer EXCEPT ![t].stalls = stalls]
Finish(t, stalls) ==
  transfer' = [transfer EXCEPT ![t] =
                 [@ EXCEPT !.status = "DONE", !.stalls = stalls]]
Release(t)    == lease' = IF lease = t THEN 0 ELSE lease
ContinueLater(t) == queue' = [queue EXCEPT ![t] = @ + 1]

\* The batch pending_qs.limit(limit) of the copy loop.
Batch(t, todo) ==
  LET pending == RowsIn(t, {"PENDING"})
  IN  /\ todo \subseteq pending
      /\ \/ todo = pending /\ Cardinality(pending) <= BatchLimit
         \/ Cardinality(todo) = BatchLimit

Init ==
  /\ pointer = Default
  /\ listed \in SUBSET Keys
  /\ stored \in SUBSET listed
  /\ named = listed
  /\ edit = 0
  /\ working = TRUE /\ locked = FALSE /\ runEnabled = TRUE
  /\ hasData = {}
  /\ objects = [s \in Stores |-> IF s = Default THEN stored ELSE {}]
  /\ transfer = [t \in Transfers |-> NoTransfer]
  /\ rows = [t \in Transfers |-> NoRows]
  /\ queue = [t \in Transfers |-> 0]
  /\ lease = 0
  /\ worker = [w \in Workers |-> IdleWorker]
  /\ uploading = {}

-----------------------------------------------------------------------------
(* The administrator's requests and the daily scan                         *)

\* prepare() with nothing to reuse, followed by _dispatch(): the document is
\* created with the project's edit_time and one PENDING row per listed key.
Create(t, dest) ==
  /\ \A u \in Transfers : transfer[u].status = "NONE" <=> u >= t
  /\ "interleave" \in Practices \/ \A u \in Transfers : Settled(u)
  /\ transfer' = [transfer EXCEPT ![t] =
       [status |-> "PENDING", origin |-> pointer, target |-> dest,
        snapshot |-> edit, stalls |-> 0]]
  /\ rows' = [rows EXCEPT ![t] =
       [k \in Keys |-> IF k \in listed THEN "PENDING" ELSE "NONE"]]
  /\ queue' = [queue EXCEPT ![t] = 1]

\* prepare() finding an unfinished transfer with the same route.
Reuse(t) ==
  /\ "redispatch" \in Practices
  /\ queue[t] < MaxQueue
  /\ queue' = [queue EXCEPT ![t] = @ + 1]
  /\ UNCHANGED recordVars

SameRoute(t, dest) ==
  IsActive(t) /\ transfer[t].origin = pointer /\ transfer[t].target = dest

\* ProjectMoveAPI, and with it the older migrate and restore requests.
MoveProject(dest) ==
  /\ ~locked
  /\ dest # pointer
  /\ \/ \E t \in Transfers : SameRoute(t, dest) /\ Reuse(t)
     \/ /\ \A t \in Transfers : ~SameRoute(t, dest)
        /\ \E t \in Transfers : Create(t, dest)
  /\ UNCHANGED <<pointer, fileVars, adminVars, hasData, objects, lease,
                 worker, uploading>>

\* storage_pool_scan for this project, once it is cold enough to be picked.
ScanProject(source) ==
  /\ pointer = Default /\ ~locked /\ working
  /\ NothingActive
  /\ \E t \in Transfers : Create(t, source)
  /\ UNCHANGED <<pointer, fileVars, adminVars, hasData, objects, lease,
                 worker, uploading>>

CarefulRetry(t) == Newest(t) /\ Settled(t)

\* TransferRetryAPI on an ABORTED transfer rebuilds the manifest.  A worker in
\* the middle of its copy loop keeps the documents of the deleted rows.
RetryAborted(t) ==
  /\ transfer[t].status = "ABORTED" /\ ~locked
  /\ "interleave" \in Practices \/ CarefulRetry(t)
  /\ queue[t] < MaxQueue
  /\ rows' = [rows EXCEPT ![t] =
       [k \in Keys |-> IF k \in listed THEN "PENDING" ELSE "NONE"]]
  /\ transfer' = [transfer EXCEPT ![t].status = "PENDING",
                                  ![t].snapshot = edit, ![t].stalls = 0]
  /\ worker' = [w \in Workers |->
       IF worker[w].job = t THEN [worker[w] EXCEPT !.stale = TRUE]
                            ELSE worker[w]]
  /\ queue' = [queue EXCEPT ![t] = @ + 1]
  /\ UNCHANGED <<pointer, fileVars, adminVars, hasData, objects, lease,
                 uploading>>

ResetFailedRows(t) ==
  [k \in Keys |-> IF rows[t][k] = "FAILED" THEN "PENDING" ELSE rows[t][k]]

\* TransferRetryAPI on a FAILED transfer keeps every row but the failed ones.
RetryFailed(t) ==
  /\ transfer[t].status = "FAILED" /\ ~locked
  /\ "interleave" \in Practices \/ CarefulRetry(t)
  /\ queue[t] < MaxQueue
  /\ rows' = [rows EXCEPT ![t] = ResetFailedRows(t)]
  /\ SetStatus(t, "PENDING")
  /\ queue' = [queue EXCEPT ![t] = @ + 1]
  /\ UNCHANGED <<pointer, fileVars, adminVars, hasData, objects, lease,
                 worker, uploading>>

\* ProjectLockAPI: unlocking is always allowed.
SetLock(on) ==
  /\ on # locked
  /\ on => NothingActive
  /\ locked' = on
  /\ UNCHANGED <<pointer, fileVars, working, runEnabled, hasData, objects,
                 recordVars, queue, lease, worker, uploading>>

\* SettingsAPI on run_enabled.
SetRunEnabled(on) ==
  /\ "pause" \in Faults
  /\ on # runEnabled
  /\ runEnabled' = on
  /\ UNCHANGED <<pointer, fileVars, working, locked, hasData, objects,
                 recordVars, queue, lease, worker, uploading>>

\* ProjectLifecycle.complete behind _guard_project_state, and reopen.
CompleteProject ==
  /\ working
  /\ NothingActive
  /\ working' = FALSE
  /\ UNCHANGED <<pointer, fileVars, locked, runEnabled, hasData, objects,
                 recordVars, queue, lease, worker, uploading>>

ReopenProject ==
  /\ ~working
  /\ working' = TRUE
  /\ UNCHANGED <<pointer, fileVars, locked, runEnabled, hasData, objects,
                 recordVars, queue, lease, worker, uploading>>

-----------------------------------------------------------------------------
(* run(): one worker, one message                                          *)

\* The message is gone as soon as it is delivered (Celery acknowledges early).
Take(w, t) ==
  /\ worker[w].pc = "idle"
  /\ queue[t] > 0
  /\ queue' = [queue EXCEPT ![t] = @ - 1]

\* storage_pool_run with run_enabled off: it returns, nothing is queued again.
RunPaused(w, t) ==
  /\ Take(w, t)
  /\ ~runEnabled
  /\ UNCHANGED <<pointer, fileVars, adminVars, hasData, objects, recordVars,
                 lease, worker, uploading>>

\* A transfer that is DONE is skipped.
RunSkipped(w, t) ==
  /\ Take(w, t)
  /\ runEnabled
  /\ transfer[t].status = "DONE"
  /\ UNCHANGED <<pointer, fileVars, adminVars, hasData, objects, recordVars,
                 lease, worker, uploading>>

\* The project is completed: the transfer is aborted, whatever it had reached.
RunAborted(w, t) ==
  /\ Take(w, t)
  /\ runEnabled
  /\ transfer[t].status # "DONE"
  /\ ~working
  /\ SetStatus(t, "ABORTED")
  /\ UNCHANGED <<pointer, fileVars, adminVars, hasData, objects, rows, lease,
                 worker, uploading>>

Claimed(t) ==
  IF transfer[t].status \in {"PENDING"} \cup RETRYABLE
  THEN "COPYING" ELSE transfer[t].status

PhaseOf(status) ==
  IF status = "COPYING" THEN "copy"
  ELSE IF status = "VERIFIED" THEN "verify" ELSE "delete"

\* The claim, the reload and the branch on the status reached so far.
StartRun(w, t) ==
  /\ Take(w, t)
  /\ runEnabled
  /\ transfer[t].status # "DONE"
  /\ working
  /\ SetStatus(t, Claimed(t))
  /\ \E phase \in {"copy", "verify", "delete"}, todo \in SUBSET Keys :
       /\ phase = PhaseOf(Claimed(t))
       /\ IF phase = "copy" THEN Batch(t, todo) ELSE todo = {}
       /\ worker' = [worker EXCEPT ![w] =
            [pc |-> phase, job |-> t, todo |-> todo, moved |-> FALSE,
             stale |-> FALSE, seen |-> transfer[t].snapshot]]
  /\ UNCHANGED <<pointer, fileVars, adminVars, hasData, objects, rows, lease,
                 uploading>>

\* The filtered update of a row: only PENDING moves, and only when the row
\* document still exists.
MarkRow(w, k, result) ==
  LET t == worker[w].job
  IN  rows' = IF rows[t][k] = "PENDING" /\ ~worker[w].stale
              THEN [rows EXCEPT ![t][k] = result] ELSE rows

Advance(w, k, moved) ==
  worker' = [worker EXCEPT ![w] =
               [@ EXCEPT !.todo = worker[w].todo \ {k}, !.moved = moved]]

\* One turn of the loop in _copy_objects.
CopyObject(w, k) ==
  LET t == worker[w].job
      src == transfer[t].origin
      dst == transfer[t].target
      claimed == rows[t][k] = "PENDING" /\ ~worker[w].stale
  IN
  /\ worker[w].pc = "copy"
  /\ k \in worker[w].todo
  /\ \/ /\ k \notin objects[src]
        /\ MarkRow(w, k, "SKIPPED")
        /\ Advance(w, k, worker[w].moved)
        /\ UNCHANGED objects
     \/ /\ k \in objects[src]
        /\ \/ objects' = [objects EXCEPT ![dst] = @ \cup {k}]
           \/ "phantom" \in Faults /\ UNCHANGED objects
        /\ MarkRow(w, k, "COPIED")
        /\ Advance(w, k, worker[w].moved \/ claimed)
     \/ /\ "copy" \in Faults
        /\ MarkRow(w, k, "FAILED")
        /\ Advance(w, k, worker[w].moved)
        /\ UNCHANGED objects
  /\ UNCHANGED <<pointer, fileVars, adminVars, hasData, transfer, queue,
                 lease, uploading>>

Bug_ForgetStall(t) == transfer[t].stalls
OneMoreStall(t)    == transfer[t].stalls + 1

CopyLoopDone(w) == worker[w].pc = "copy" /\ worker[w].todo = {}

\* A failed row fails the transfer.
CopyFailed(w) ==
  LET t == worker[w].job IN
  /\ CopyLoopDone(w)
  /\ RowsIn(t, {"FAILED"}) # {}
  /\ SetStatus(t, "FAILED")
  /\ Stop(w)
  /\ UNCHANGED <<pointer, fileVars, adminVars, hasData, objects, rows, queue,
                 lease, uploading>>

\* Rows are left: another round is queued, unless MAX_STALLS rounds in a row
\* moved nothing.
CopyUnfinished(w) ==
  LET t == worker[w].job
      stalls == IF worker[w].moved THEN 0 ELSE OneMoreStall(t)
  IN
  /\ CopyLoopDone(w)
  /\ RowsIn(t, {"FAILED"}) = {} /\ RowsIn(t, {"PENDING"}) # {}
  /\ IF stalls >= MaxStalls
     THEN SetStatus(t, "FAILED") /\ UNCHANGED queue
     ELSE /\ queue[t] < MaxQueue
          /\ SetStalls(t, stalls)
          /\ ContinueLater(t)
  /\ Stop(w)
  /\ UNCHANGED <<pointer, fileVars, adminVars, hasData, objects, rows, lease,
                 uploading>>

\* Every row is settled.  The update is not filtered on the status.
CopyFinished(w) ==
  LET t == worker[w].job IN
  /\ CopyLoopDone(w)
  /\ RowsIn(t, {"FAILED", "PENDING"}) = {}
  /\ SetStatus(t, "VERIFIED")
  /\ worker' = [worker EXCEPT ![w] =
                  [@ EXCEPT !.pc = "verify", !.seen = transfer[t].snapshot]]
  /\ UNCHANGED <<pointer, fileVars, adminVars, hasData, objects, rows, queue,
                 lease, uploading>>

\* dst.head_object finds the copy.  The recorded size and etag are those
\* head_object reported for the copy itself, so they agree with it.
Bug_TrustCopy(t, k) == TRUE
Present(t, k) == k \in objects[transfer[t].target]

\* _verify_objects: a COPIED row is VERIFIED when the target has the object;
\* any FAILED row then fails the transfer.
VerifyObjects(w) ==
  LET t == worker[w].job
      lost == {k \in RowsIn(t, {"COPIED"}) : ~Present(t, k)}
  IN
  /\ worker[w].pc = "verify"
  /\ rows' = [rows EXCEPT ![t] = [k \in Keys |->
       IF rows[t][k] # "COPIED" THEN rows[t][k]
       ELSE IF Present(t, k) THEN "VERIFIED" ELSE "FAILED"]]
  /\ IF lost \cup RowsIn(t, {"FAILED"}) # {}
     THEN SetStatus(t, "FAILED") /\ Stop(w)
     ELSE Goto(w, "switch") /\ UNCHANGED transfer
  /\ UNCHANGED <<pointer, fileVars, adminVars, hasData, objects, queue, lease,
                 uploading>>

\* StoragePoolLock.acquire inserts the document or fails, whoever owns it.
Bug_LeaseReentrant(t) == lease \in {0, t}
LeaseFree(t) == lease = 0

\* _switch_pointer up to the lock: a changed edit_time aborts, a lock held by
\* somebody else queues another round.
AcquireLease(w) ==
  LET t == worker[w].job IN
  /\ worker[w].pc = "switch"
  /\ \/ /\ edit # worker[w].seen
        /\ SetStatus(t, "ABORTED")
        /\ Stop(w)
        /\ UNCHANGED <<queue, lease>>
     \/ /\ edit = worker[w].seen /\ ~LeaseFree(t)
        /\ queue[t] < MaxQueue
        /\ ContinueLater(t)
        /\ Stop(w)
        /\ UNCHANGED <<transfer, lease>>
     \/ /\ edit = worker[w].seen /\ LeaseFree(t)
        /\ lease' = t
        /\ Goto(w, "manifest")
        /\ UNCHANGED <<transfer, queue>>
  /\ UNCHANGED <<pointer, fileVars, adminVars, hasData, objects, rows,
                 uploading>>

Bug_NoRecheck(w) == working

\* Inside the lock: the project's state, the manifest and edit_time again.
ManifestHolds(w) ==
  /\ working
  /\ listed \subseteq Recorded(worker[w].job)
  /\ edit = worker[w].seen

CheckManifest(w) ==
  LET t == worker[w].job IN
  /\ worker[w].pc = "manifest"
  /\ IF ManifestHolds(w)
     THEN Goto(w, "flip") /\ UNCHANGED <<transfer, lease>>
     ELSE SetStatus(t, "ABORTED") /\ Release(t) /\ Stop(w)
  /\ UNCHANGED <<pointer, fileVars, adminVars, hasData, objects, rows, queue,
                 uploading>>

\* The direction guard and the update of Project.storage_source_id.
FlipPointer(w) ==
  LET t == worker[w].job IN
  /\ worker[w].pc = "flip"
  /\ IF pointer \in {transfer[t].origin, transfer[t].target}
     THEN /\ pointer' = transfer[t].target
          /\ Goto(w, "mark")
          /\ UNCHANGED <<transfer, lease>>
     ELSE /\ SetStatus(t, "ABORTED")
          /\ Release(t)
          /\ Stop(w)
          /\ UNCHANGED pointer
  /\ UNCHANGED <<fileVars, adminVars, hasData, objects, rows, queue,
                 uploading>>

MarkSwitched(w) ==
  LET t == worker[w].job IN
  /\ worker[w].pc = "mark"
  /\ SetStatus(t, "SWITCHED")
  /\ Release(t)
  /\ Goto(w, "delete")
  /\ UNCHANGED <<pointer, fileVars, adminVars, hasData, objects, rows, queue,
                 uploading>>

\* _delete_source_objects: batches are deleted and their rows marked; a batch
\* that raises leaves its rows VERIFIED.
DeleteSourceObjects(w) ==
  LET t == worker[w].job
      verified == RowsIn(t, {"VERIFIED"})
  IN
  /\ worker[w].pc = "delete"
  /\ \E gone \in SUBSET verified :
       /\ gone = verified \/ "delete" \in Faults
       /\ objects' = [objects EXCEPT ![transfer[t].origin] = @ \ gone]
       /\ rows' = [rows EXCEPT ![t] = [k \in Keys |->
            IF k \in gone THEN "SOURCE_DELETED" ELSE rows[t][k]]]
  /\ Goto(w, "settle")
  /\ UNCHANGED <<pointer, fileVars, adminVars, hasData, transfer, queue,
                 lease, uploading>>

\* _refresh_source_has_data for each source of the set; null is no source.
RefreshHasData(refreshed) ==
  hasData' = (hasData \ refreshed)
               \cup ((refreshed \cap {pointer}) \ {Default})

Bug_ResidueIgnored(t) == {}
Residue(t) == RowsIn(t, {"VERIFIED"})

\* The residue is counted: nothing left ends the transfer, something left
\* queues another round until MAX_STALLS gives it up.
SettleRun(w) ==
  LET t == worker[w].job
      source == IF transfer[t].origin = Default THEN transfer[t].target
                                                ELSE transfer[t].origin
      both == {transfer[t].origin, transfer[t].target}
      residue == Residue(t)
      stalls == OneMoreStall(t)
  IN
  /\ worker[w].pc = "settle"
  /\ \/ /\ residue = {}
        /\ Finish(t, 0)
        /\ RefreshHasData(both)
        /\ UNCHANGED queue
     \/ /\ residue # {} /\ stalls >= MaxStalls
        /\ Finish(t, transfer[t].stalls)
        /\ RefreshHasData({source})
        /\ UNCHANGED queue
     \/ /\ residue # {} /\ stalls < MaxStalls
        /\ queue[t] < MaxQueue
        /\ SetStalls(t, stalls)
        /\ ContinueLater(t)
        /\ UNCHANGED hasData
  /\ Stop(w)
  /\ UNCHANGED <<pointer, fileVars, adminVars, objects, rows, lease,
                 uploading>>

-----------------------------------------------------------------------------
(* Faults                                                                  *)

\* A worker dies.  Dying inside the delete loop may leave objects deleted and
\* their rows still VERIFIED.
Crash(w) ==
  LET t == worker[w].job IN
  /\ "crash" \in Faults
  /\ worker[w].pc # "idle"
  /\ \E gone \in SUBSET (IF worker[w].pc = "delete"
                         THEN RowsIn(t, {"VERIFIED"}) ELSE {}) :
       objects' = [objects EXCEPT ![transfer[t].origin] = @ \ gone]
  /\ Stop(w)
  /\ UNCHANGED <<pointer, fileVars, adminVars, hasData, recordVars, queue,
                 lease, uploading>>

\* The lease of a dead worker runs out and may be taken over.  The section is
\* a handful of database calls, the lease half an hour.
ExpireLease ==
  /\ lease # 0
  /\ \A w \in Running(lease) : worker[w].pc \notin Section
  /\ lease' = 0
  /\ UNCHANGED <<pointer, fileVars, adminVars, hasData, objects, recordVars,
                 queue, worker, uploading>>

-----------------------------------------------------------------------------
(* The people working in the project                                       *)

Flipping == \E w \in Workers : worker[w].pc = "flip"

\* A new file, or a new object for a file whose old one goes: save names are
\* never used twice, so a replacement is a new key and a removed one.
Listed(k, old) ==
  /\ old \subseteq stored /\ Cardinality(old) <= 1
  /\ listed' = (listed \ old) \cup {k}
  /\ stored' = (stored \ old) \cup {k}
  /\ edit < MaxEdits
  /\ edit' = edit + 1

\* File.upload_real_file as one step: bytes into the store the pointer names,
\* document saved, the old object deleted, edit_time touched.
UploadFile(k, old) ==
  /\ k \in Keys \ named
  /\ working
  /\ ~Flipping
  /\ Listed(k, old)
  /\ objects' = [objects EXCEPT ![pointer] = (@ \ old) \cup {k}]
  /\ named' = named \cup {k}
  /\ UNCHANGED <<pointer, adminVars, hasData, recordVars, queue, lease,
                 worker, uploading>>

\* The same with the two ends apart: the backend is captured and filled ...
BeginUpload(k) ==
  /\ "overlap" \in Practices
  /\ k \in Keys \ named
  /\ working
  /\ named' = named \cup {k}
  /\ objects' = [objects EXCEPT ![pointer] = @ \cup {k}]
  /\ uploading' = uploading \cup {k}
  /\ UNCHANGED <<pointer, listed, stored, edit, adminVars, hasData,
                 recordVars, queue, lease, worker>>

\* ... and the document saved later.
SaveUpload(k, old) ==
  /\ k \in uploading
  /\ Listed(k, old)
  /\ uploading' = uploading \ {k}
  /\ objects' = [objects EXCEPT ![pointer] = @ \ old]
  /\ UNCHANGED <<pointer, named, adminVars, hasData, recordVars, queue, lease,
                 worker>>

\* create_thumbnail_task writes the resampled image whose key the manifest
\* already lists; it does not touch edit_time.
DeriveObject(k) ==
  /\ k \in listed \ stored
  /\ "derive" \in Practices \/ \A t \in Transfers : rows[t][k] = "NONE"
  /\ objects' = [objects EXCEPT ![pointer] = @ \cup {k}]
  /\ stored' = stored \cup {k}
  /\ UNCHANGED <<pointer, listed, named, edit, adminVars, hasData, recordVars,
                 queue, lease, worker, uploading>>

\* File.delete_real_file: the object in the pointer's store, then the document.
RemoveFile(k) ==
  /\ k \in listed
  /\ edit < MaxEdits
  /\ objects' = [objects EXCEPT ![pointer] = @ \ {k}]
  /\ listed' = listed \ {k}
  /\ stored' = stored \ {k}
  /\ edit' = edit + 1
  /\ UNCHANGED <<pointer, named, adminVars, hasData, recordVars, queue, lease,
                 worker, uploading>>

\* Anything else that touches Project.edit_time.
EditProject ==
  /\ edit < MaxEdits
  /\ edit' = edit + 1
  /\ UNCHANGED <<pointer, listed, stored, named, adminVars, hasData, objects,
                 recordVars, queue, lease, worker, uploading>>

-----------------------------------------------------------------------------
RunStep(w) ==
  \/ \E k \in Keys : CopyObject(w, k)
  \/ CopyFailed(w) \/ CopyUnfinished(w) \/ CopyFinished(w)
  \/ VerifyObjects(w)
  \/ AcquireLease(w) \/ CheckManifest(w) \/ FlipPointer(w) \/ MarkSwitched(w)
  \/ DeleteSourceObjects(w) \/ SettleRun(w)

Deliver(w, t) ==
  RunPaused(w, t) \/ RunSkipped(w, t) \/ RunAborted(w, t) \/ StartRun(w, t)

Request ==
  \/ \E dest \in Stores : MoveProject(dest)
  \/ \E source \in Sources : ScanProject(source)
  \/ \E t \in Transfers : RetryAborted(t) \/ RetryFailed(t)
  \/ \E on \in BOOLEAN : SetLock(on) \/ SetRunEnabled(on)
  \/ CompleteProject \/ ReopenProject

UserStep ==
  \/ \E k \in Keys, old \in SUBSET stored : UploadFile(k, old) \/ SaveUpload(k, old)
  \/ \E k \in Keys : BeginUpload(k) \/ DeriveObject(k) \/ RemoveFile(k)
  \/ EditProject

Next ==
  \/ Request
  \/ UserStep
  \/ \E w \in Workers, t \in Transfers : Deliver(w, t)
  \/ \E w \in Workers : RunStep(w) \/ Crash(w)
  \/ ExpireLease

Spec == Init /\ [][Next]_vars

\* Celery keeps delivering messages and a running task keeps running; a dead
\* lease runs out.  Nobody has to click anything.
Fairness ==
  /\ \A t \in Transfers : WF_vars(\E w \in Workers : Deliver(w, t))
  /\ \A w \in Workers : WF_vars(RunStep(w))
  /\ WF_vars(ExpireLease)

FairSpec == Spec /\ Fairness

-----------------------------------------------------------------------------
(* Type invariant                                                          *)

WorkerState == [pc : Phases, job : Transfers \cup {0}, todo : SUBSET Keys,
                moved : BOOLEAN, stale : BOOLEAN, seen : Nat]
TransferState == [status : Status, origin : Stores, target : Stores,
                  snapshot : Nat, stalls : Nat]

\* The fields of every document hold values of their type.
TypeOK ==
  /\ pointer \in Stores
  /\ listed \subseteq Keys /\ stored \subseteq Keys /\ named \subseteq Keys
  /\ edit \in Nat
  /\ working \in BOOLEAN /\ locked \in BOOLEAN /\ runEnabled \in BOOLEAN
  /\ hasData \subseteq Sources
  /\ objects \in [Stores -> SUBSET Keys]
  /\ transfer \in [Transfers -> TransferState]
  /\ rows \in [Transfers -> [Keys -> RowStatus]]
  /\ queue \in [Transfers -> Nat]
  /\ lease \in Transfers \cup {0}
  /\ worker \in [Workers -> WorkerState]
  /\ uploading \subseteq Keys

-----------------------------------------------------------------------------
(* The inductive invariant behind NoReadableCopyLost.  It is about the     *)
(* newest transfer: under careful use the older ones have come to rest.    *)

\* Nobody starts a transfer beside another, nobody saves an upload late.
Careful == Practices \subseteq {"redispatch"}

\* A busy worker has one of the transfers as its job, an idle one has none.
JobsKnown ==
  \A w \in Workers : IF worker[w].pc = "idle" THEN worker[w].job = 0
                                              ELSE worker[w].job \in Transfers

\* Only the newest transfer is active, queued or running.
OnlyNewestRuns ==
  /\ \A t, u \in Transfers :
       u > t /\ transfer[u].status # "NONE" => Settled(t)
  /\ \A t \in Transfers : transfer[t].status = "NONE" => Settled(t)

\* Some worker of the transfer has got to one of these phases.
Reached(t, phases) == \E w \in Running(t) : worker[w].pc \in phases

\* How far the document or one of its workers says the transfer has got.
HasCopied(t) ==
  \/ transfer[t].status \in {"VERIFIED", "SWITCHED", "DONE"}
  \/ Reached(t, Phases \ {"idle", "copy"})
HasVerified(t) ==
  \/ transfer[t].status \in {"SWITCHED", "DONE"}
  \/ Reached(t, Phases \ {"idle", "copy", "verify"})
HasSwitched(t) ==
  \/ transfer[t].status \in {"SWITCHED", "DONE"}
  \/ Reached(t, {"mark", "delete", "settle"})

\* The project is at one end of the transfer, and at the target once switched.
AtEitherEnd(t) ==
  /\ transfer[t].origin # transfer[t].target
  /\ pointer \in {transfer[t].origin, transfer[t].target}
  /\ HasSwitched(t) => pointer = transfer[t].target

\* A verified row's file is in the target; a skipped row's file was missing.
RowsTellTheTruth(t) ==
  /\ \A k \in stored : rows[t][k] \in {"VERIFIED", "SOURCE_DELETED"}
       => k \in objects[transfer[t].target]
  /\ pointer = transfer[t].origin => \A k \in stored : rows[t][k] # "SKIPPED"

\* Past the copy loop no row is PENDING, past verification none is open.
RowsAdvance(t) ==
  /\ HasCopied(t) => RowsIn(t, {"PENDING"}) = {}
  /\ HasVerified(t) => RowsIn(t, {"PENDING", "COPIED", "FAILED"}) = {}

NamesAreFresh ==
  /\ stored \subseteq listed /\ listed \subseteq named /\ uploading = {}
  /\ \A t \in Transfers : Recorded(t) \subseteq named

\* Between the check inside the lock and the switch every file has a row.
ManifestKept ==
  \A w \in Workers : worker[w].pc = "flip" => listed \subseteq Recorded(worker[w].job)

TransferInv(t) ==
  Newest(t) => AtEitherEnd(t) /\ RowsTellTheTruth(t) /\ RowsAdvance(t)

\* Every file the program has acknowledged can be read where the pointer says
\* it is: before the switch from the origin, after it from the target.
NoReadableCopyLost == stored \subseteq objects[pointer]

Safe ==
  /\ OnlyNewestRuns /\ \A t \in Transfers : TransferInv(t)
  /\ NamesAreFresh /\ ManifestKept /\ NoReadableCopyLost

\* Together they are inductive when the environment is careful.
IInv == TypeOK /\ JobsKnown /\ Safe

-----------------------------------------------------------------------------
(* What a transfer promises                                                *)

\* An acknowledged file has an object in some store: however often the project
\* is moved to and fro, deleting at the origin never takes the last copy.
LastCopyKept == stored \subseteq UNION {objects[s] : s \in Stores}

\* The lock-protected section of _switch_pointer has one worker at a time,
\* also when a transfer is queued twice and two workers run it.
SectionExclusive ==
  \A v, w \in Workers :
    worker[v].pc \in Section /\ worker[w].pc \in Section => v = w

\* The pointer never moves to a store that lacks an acknowledged file.
SwitchIsComplete ==
  [][pointer' # pointer => stored \subseteq objects[pointer']]_vars

\* Nobody moves a project while the administrator has locked it or after its
\* completion: a transfer that could still do it would have refused the lock,
\* and the completion.
OffLimitsProjectStaysPut == [][locked \/ ~working => pointer' = pointer]_vars

\* A row that was copied or verified goes back to PENDING only when the retry
\* of an aborted transfer rebuilds the manifest.
CopiedWorkIsKept ==
  [][\A t \in Transfers : \A k \in RowsIn(t, {"COPIED", "VERIFIED"}) :
       rows[t][k]' = "PENDING" => transfer[t].status = "ABORTED"]_vars

\* The last transfer ended without a residue note: nothing it was to move is
\* left at its origin.
DoneMeansDrained ==
  \A t \in Transfers :
    Newest(t) /\ transfer[t].status = "DONE" /\ transfer[t].stalls = 0
      => Recorded(t) \cap objects[transfer[t].origin] = {}

\* After a transfer without residue, exactly the source in use is marked as
\* holding data, which is what protects its location from being edited.
CleanFinishMarksSource ==
  \A t \in Transfers :
    Newest(t) /\ transfer[t].status = "DONE" /\ transfer[t].stalls = 0
      => hasData = {pointer} \ {Default}

\* After any finished transfer, the source the project points at is marked.
SourceInUseIsMarked ==
  \A t \in Transfers :
    Newest(t) /\ transfer[t].status = "DONE" /\ pointer # Default
      => pointer \in hasData

\* Without crashes and pauses every transfer comes to rest, provided there is
\* no second message for it for ever: where duplicates fill the queue up to
\* MaxQueue, it is this bound that would hold the workers back.
TransferSettles ==
  \A t \in Transfers :
    <>[](queue[t] + Cardinality(Running(t)) <= 1)
      => (IsActive(t) ~> ~IsActive(t))

\* Once the emergency stop is lifted for good, queued transfers resume.
PausedTransferResumes == <>[]runEnabled => TransferSettles

-----------------------------------------------------------------------------
(* The project as its users see it: files that stay readable wherever they *)
(* are kept.                                                               *)

Files == INSTANCE ProjectFiles WITH
           place <- pointer, readable <- stored \cap objects[pointer]

\* Moving a project is invisible to those who read its files.
ImplementsProjectFiles == Files!Spec

=============================================================================
