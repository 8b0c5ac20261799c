-------------------------- MODULE StoragePoolProofs --------------------------
(***************************************************************************)
(* Proofs about StoragePool, for any number of keys, sources, transfers    *)
(* and workers.  First, whatever the environment does: the documents keep  *)
(* their types, and the pointer switch is one worker's at a time.          *)
(*                                                                         *)
(* Then, under careful use: no acknowledged file ever becomes unreadable;  *)
(* the conjuncts of StoragePool's IInv are kept by every action.  Core(t)  *)
(* holds what IInv says about one transfer, Frame(w, t) what every step    *)
(* that worker w takes for transfer t leaves alone.  Each action has a     *)
(* lemma that establishes both for the newest transfer, which is the only  *)
(* one with anything to do.  From there: moving is invisible to the        *)
(* project's readers (Refines), a transfer that is done has emptied its    *)
(* origin (Emptied), a locked or completed project stays (StaysPut).       *)
(***************************************************************************)
EXTENDS StoragePool, FiniteSetTheorems, TLAPS

\* The stores are the sources and the default storage, which is none of them.
LEMMA StoreFacts == Default \in Stores /\ Sources = Stores \ {Default}
BY StoreAssumption DEF Stores

\* The statuses and phases the actions assign are statuses and phases.
LEMMA Names ==
  /\ {"NONE", "DONE", "PENDING", "COPYING", "VERIFIED", "SWITCHED", "FAILED",
      "ABORTED"} \subseteq Status
  /\ {"NONE", "PENDING", "COPIED", "VERIFIED", "SOURCE_DELETED", "FAILED",
      "SKIPPED"} \subseteq RowStatus
  /\ {"idle", "copy", "verify", "switch", "manifest", "flip", "mark",
      "delete", "settle"} \subseteq Phases
BY DEF Status, ACTIVE, RETRYABLE, RowStatus, Phases

\* The initial documents are well typed.
LEMMA TypeInit == Init => TypeOK
<1> SUFFICES ASSUME Init PROVE TypeOK
  OBVIOUS
<1>1. NoTransfer \in TransferState /\ IdleWorker \in WorkerState
  BY Names, StoreFacts DEF NoTransfer, IdleWorker, TransferState, WorkerState
<1>2. NoRows \in [Keys -> RowStatus]
  BY Names DEF NoRows
<1>3. objects \in [Stores -> SUBSET Keys]
  BY DEF Init
<1> QED
  BY <1>1, <1>2, <1>3, StoreFacts DEF Init, TypeOK

\* Requests of the administrator and the scan keep the types.
LEMMA TypeRequest == TypeOK /\ Request => TypeOK'
<1> SUFFICES ASSUME TypeOK, Request PROVE TypeOK'
  OBVIOUS
<1> USE DEF TypeOK, fileVars, adminVars, recordVars
<1>0. ASSUME NEW t \in Transfers, NEW dest \in Stores, Create(t, dest)
      PROVE  /\ transfer' \in [Transfers -> TransferState]
             /\ rows' \in [Transfers -> [Keys -> RowStatus]]
             /\ queue' \in [Transfers -> Nat]
  BY <1>0, Names DEF Create, TransferState
<1>1. ASSUME NEW dest \in Stores, MoveProject(dest) PROVE TypeOK'
  BY <1>1, <1>0 DEF MoveProject, Reuse
<1>2. ASSUME NEW source \in Sources, ScanProject(source) PROVE TypeOK'
  BY <1>2, <1>0 DEF ScanProject, Stores
<1>3. ASSUME NEW t \in Transfers, RetryAborted(t) PROVE TypeOK'
  <2>1. transfer' \in [Transfers -> TransferState]
    BY <1>3, Names DEF RetryAborted, TransferState
  <2>2. rows' \in [Transfers -> [Keys -> RowStatus]]
    BY <1>3, Names DEF RetryAborted
  <2>3. worker' \in [Workers -> WorkerState]
    BY <1>3 DEF RetryAborted, WorkerState
  <2>4. queue' \in [Transfers -> Nat]
    BY <1>3 DEF RetryAborted
  <2> QED BY <1>3, <2>1, <2>2, <2>3, <2>4 DEF RetryAborted
<1>4. ASSUME NEW t \in Transfers, RetryFailed(t) PROVE TypeOK'
  <2>1. transfer' \in [Transfers -> TransferState]
    BY <1>4, Names DEF RetryFailed, SetStatus, TransferState
  <2>2. rows' \in [Transfers -> [Keys -> RowStatus]]
    BY <1>4, Names DEF RetryFailed, ResetFailedRows
  <2> QED BY <1>4, <2>1, <2>2 DEF RetryFailed
<1>5. ASSUME NEW on \in BOOLEAN, SetLock(on) PROVE TypeOK'
  BY <1>5 DEF SetLock
<1>6. ASSUME NEW on \in BOOLEAN, SetRunEnabled(on) PROVE TypeOK'
  BY <1>6 DEF SetRunEnabled
<1>7. CASE CompleteProject
  BY <1>7 DEF CompleteProject
<1>8. CASE ReopenProject
  BY <1>8 DEF ReopenProject
<1> QED
  BY <1>1, <1>2, <1>3, <1>4, <1>5, <1>6, <1>7, <1>8 DEF Request

\* Delivering a message keeps the types.
LEMMA TypeDeliver ==
  ASSUME TypeOK, NEW w \in Workers, NEW t \in Transfers, Deliver(w, t)
  PROVE  TypeOK'
<1> USE DEF TypeOK, fileVars, adminVars, recordVars, Take
<1>1. CASE RunPaused(w, t) \/ RunSkipped(w, t)
  BY <1>1 DEF RunPaused, RunSkipped
<1>2. CASE RunAborted(w, t)
  <2>1. transfer' \in [Transfers -> TransferState]
    BY <1>2, Names DEF RunAborted, SetStatus, TransferState
  <2>2. queue' \in [Transfers -> Nat]
    BY <1>2 DEF RunAborted
  <2> QED BY <1>2, <2>1, <2>2 DEF RunAborted
<1>3. CASE StartRun(w, t)
  <2>1. Claimed(t) \in Status
    BY Names DEF Claimed, TransferState
  <2>2. transfer' \in [Transfers -> TransferState]
    BY <1>3, <2>1 DEF StartRun, SetStatus, TransferState
  <2>3. worker' \in [Workers -> WorkerState]
    <3>1. PICK phase \in {"copy", "verify", "delete"}, todo \in SUBSET Keys :
            worker' = [worker EXCEPT ![w] =
              [pc |-> phase, job |-> t, todo |-> todo, moved |-> FALSE,
               stale |-> FALSE, seen |-> transfer[t].snapshot]]
      BY <1>3 DEF StartRun
    <3>2. transfer[t].snapshot \in Nat
      BY DEF TransferState
    <3> QED BY <3>1, <3>2, Names DEF WorkerState
  <2>4. queue' \in [Transfers -> Nat]
    BY <1>3 DEF StartRun
  <2> QED BY <1>3, <2>2, <2>3, <2>4 DEF StartRun
<1> QED BY <1>1, <1>2, <1>3 DEF Deliver

\* A step of a running worker keeps the types.
LEMMA TypeRun ==
  ASSUME TypeOK, NEW w \in Workers, worker[w].job \in Transfers, RunStep(w)
  PROVE  TypeOK'
<1> DEFINE t == worker[w].job
<1> USE DEF TypeOK, fileVars, adminVars, recordVars
<1>a. IdleWorker \in WorkerState
  BY DEF IdleWorker, WorkerState, Phases
<1>b. Stop(w) => worker' \in [Workers -> WorkerState]
  BY <1>a DEF Stop
<1>c. ASSUME NEW pc \in Phases, Goto(w, pc)
      PROVE  worker' \in [Workers -> WorkerState]
  BY <1>c DEF Goto, WorkerState
<1>d. ASSUME NEW status \in Status, SetStatus(t, status)
      PROVE  transfer' \in [Transfers -> TransferState]
  BY <1>d DEF SetStatus, TransferState
<1>e. ContinueLater(t) => queue' \in [Transfers -> Nat]
  BY DEF ContinueLater
<1>f. Release(t) => lease' \in Transfers \cup {0}
  BY DEF Release
<1>g. ASSUME NEW stalls \in Nat, SetStalls(t, stalls)
      PROVE  transfer' \in [Transfers -> TransferState]
  BY <1>g DEF SetStalls, TransferState
<1>h. ASSUME NEW stalls \in Nat, Finish(t, stalls)
      PROVE  transfer' \in [Transfers -> TransferState]
  <2>1. [transfer[t] EXCEPT !.status = "DONE", !.stalls = stalls]
          \in TransferState
    BY Names DEF TransferState
  <2> QED BY <1>h, <2>1 DEF Finish
<1>1. ASSUME NEW k \in Keys, CopyObject(w, k) PROVE TypeOK'
  <2>1. rows' \in [Transfers -> [Keys -> RowStatus]]
    <3>1. \E result \in RowStatus : MarkRow(w, k, result)
      BY <1>1, Names DEF CopyObject
    <3> QED BY <3>1 DEF MarkRow
  <2>2. worker' \in [Workers -> WorkerState]
    <3>1. PICK moved \in BOOLEAN : Advance(w, k, moved)
      BY <1>1 DEF CopyObject, WorkerState
    <3>2. [worker[w] EXCEPT !.todo = worker[w].todo \ {k}, !.moved = moved]
            \in WorkerState
      BY DEF WorkerState
    <3> QED BY <3>1, <3>2 DEF Advance
  <2>3. objects' \in [Stores -> SUBSET Keys]
    BY <1>1 DEF CopyObject
  <2> QED BY <1>1, <2>1, <2>2, <2>3 DEF CopyObject
<1>2. CASE CopyFailed(w)
  BY <1>2, <1>b, <1>d, Names DEF CopyFailed
<1>3. CASE CopyUnfinished(w)
  <2>1. transfer' \in [Transfers -> TransferState]
    <3>1. transfer[t].stalls \in Nat
      BY DEF TransferState
    <3> QED BY <1>3, <1>d, <1>g, <3>1, Names DEF CopyUnfinished, OneMoreStall
  <2> QED BY <1>3, <2>1, <1>b, <1>e DEF CopyUnfinished
<1>4. CASE CopyFinished(w)
  <2>0. transfer[t].snapshot \in Nat
    BY DEF TransferState
  <2>1. worker' \in [Workers -> WorkerState]
    BY <1>4, <2>0, Names DEF CopyFinished, WorkerState
  <2> QED BY <1>4, <2>1, <1>d, Names DEF CopyFinished
<1>5. CASE VerifyObjects(w)
  <2>1. rows' \in [Transfers -> [Keys -> RowStatus]]
    BY <1>5, Names DEF VerifyObjects
  <2>2. worker' \in [Workers -> WorkerState]
    BY <1>5, <1>b, <1>c, Names DEF VerifyObjects
  <2>3. transfer' \in [Transfers -> TransferState]
    BY <1>5, <1>d, Names DEF VerifyObjects
  <2> QED BY <1>5, <2>1, <2>2, <2>3 DEF VerifyObjects
<1>6. CASE AcquireLease(w)
  BY <1>6, <1>b, <1>c, <1>d, <1>e, Names DEF AcquireLease
<1>7. CASE CheckManifest(w)
  BY <1>7, <1>b, <1>c, <1>d, <1>f, Names DEF CheckManifest
<1>8. CASE FlipPointer(w)
  <2>1. pointer' \in Stores
    BY <1>8 DEF FlipPointer, TransferState
  <2> QED BY <1>8, <2>1, <1>b, <1>c, <1>d, <1>f, Names
          DEF FlipPointer
<1>9. CASE MarkSwitched(w)
  BY <1>9, <1>c, <1>d, <1>f, Names DEF MarkSwitched
<1>10. CASE DeleteSourceObjects(w)
  <2>1. rows' \in [Transfers -> [Keys -> RowStatus]]
    BY <1>10, Names DEF DeleteSourceObjects, RowsIn
  <2>2. objects' \in [Stores -> SUBSET Keys]
    <3>1. PICK gone \in SUBSET Keys :
            objects' = [objects EXCEPT ![transfer[t].origin] = @ \ gone]
      BY <1>10 DEF DeleteSourceObjects, RowsIn
    <3> QED BY <3>1
  <2> QED BY <1>10, <2>1, <2>2, <1>c, Names DEF DeleteSourceObjects
<1>11. CASE SettleRun(w)
  <2>1. hasData' \subseteq Sources
    BY <1>11, StoreFacts DEF SettleRun, RefreshHasData
  <2>2. transfer' \in [Transfers -> TransferState]
    <3>1. transfer[t].stalls \in Nat
      BY DEF TransferState
    <3> QED BY <1>11, <1>g, <1>h, <3>1 DEF SettleRun, OneMoreStall
  <2>3. queue' \in [Transfers -> Nat]
    BY <1>11, <1>e DEF SettleRun
  <2> QED BY <1>11, <2>1, <2>2, <2>3, <1>b DEF SettleRun
<1> QED
  BY <1>1, <1>2, <1>3, <1>4, <1>5, <1>6, <1>7, <1>8, <1>9, <1>10, <1>11
  DEF RunStep

\* Faults and the people in the project keep the types.
LEMMA TypeOther ==
  ASSUME TypeOK, UserStep \/ ExpireLease \/ \E w \in Workers : Crash(w)
  PROVE  TypeOK'
<1> USE DEF TypeOK, fileVars, adminVars, recordVars
<1>1. ASSUME NEW w \in Workers, Crash(w) PROVE TypeOK'
  <2>1. worker' \in [Workers -> WorkerState]
    BY <1>1, Names DEF Crash, Stop, IdleWorker, WorkerState
  <2>2. PICK gone \in SUBSET Keys :
          objects' = [objects EXCEPT ![transfer[worker[w].job].origin]
                                       = @ \ gone]
    BY <1>1 DEF Crash, RowsIn
  <2>3. objects' \in [Stores -> SUBSET Keys]
    BY <2>2
  <2> QED BY <1>1, <2>1, <2>3 DEF Crash
<1>2. CASE ExpireLease
  BY <1>2 DEF ExpireLease
<1>3. ASSUME NEW k \in Keys, NEW old \in SUBSET stored,
             UploadFile(k, old) \/ SaveUpload(k, old)
      PROVE  TypeOK'
  <2>1. objects' \in [Stores -> SUBSET Keys]
    BY <1>3 DEF UploadFile, SaveUpload
  <2> QED BY <1>3, <2>1 DEF UploadFile, SaveUpload, Listed
<1>4. ASSUME NEW k \in Keys, BeginUpload(k) \/ DeriveObject(k) \/ RemoveFile(k)
      PROVE  TypeOK'
  <2>1. objects' \in [Stores -> SUBSET Keys]
    BY <1>4 DEF BeginUpload, DeriveObject, RemoveFile
  <2> QED BY <1>4, <2>1 DEF BeginUpload, DeriveObject, RemoveFile
<1>5. CASE EditProject
  BY <1>5 DEF EditProject
<1> QED BY <1>1, <1>2, <1>3, <1>4, <1>5 DEF UserStep

\* Whoever runs a step is busy.
LEMMA RunStepBusy ==
  ASSUME NEW w \in Workers, RunStep(w)
  PROVE  worker[w].pc # "idle"
BY DEF RunStep, CopyObject, CopyLoopDone, CopyFailed, CopyUnfinished,
       CopyFinished, VerifyObjects, AcquireLease, CheckManifest, FlipPointer,
       MarkSwitched, DeleteSourceObjects, SettleRun

\* No step gives an idle worker a job or a busy one a job that is no transfer.
LEMMA JobsStep ==
  ASSUME TypeOK, JobsKnown, [Next]_vars
  PROVE  JobsKnown'
<1> USE DEF TypeOK, WorkerState, JobsKnown
<1>a. ASSUME NEW w \in Workers, Stop(w) PROVE JobsKnown'
  BY <1>a DEF Stop, IdleWorker
<1>b. ASSUME NEW w \in Workers, worker[w].pc # "idle",
             NEW pc \in Phases, pc # "idle", Goto(w, pc)
      PROVE  JobsKnown'
  BY <1>b DEF Goto
<1>1. CASE Request
  <2>1. ASSUME NEW t \in Transfers, RetryAborted(t) PROVE JobsKnown'
    BY <2>1 DEF RetryAborted
  <2> QED
    BY <1>1, <2>1 DEF Request, MoveProject, ScanProject, RetryFailed, SetLock,
                      SetRunEnabled, CompleteProject, ReopenProject
<1>2. CASE UserStep \/ ExpireLease \/ UNCHANGED vars
  BY <1>2 DEF UserStep, UploadFile, BeginUpload, SaveUpload, DeriveObject,
              RemoveFile, EditProject, ExpireLease, vars
<1>3. ASSUME NEW w \in Workers, Crash(w) PROVE JobsKnown'
  BY <1>3, <1>a DEF Crash
<1>4. ASSUME NEW w \in Workers, NEW t \in Transfers, Deliver(w, t)
      PROVE  JobsKnown'
  <2>1. CASE StartRun(w, t)
    BY <2>1 DEF StartRun
  <2> QED BY <1>4, <2>1 DEF Deliver, RunPaused, RunSkipped, RunAborted
<1>5. ASSUME NEW w \in Workers, RunStep(w) PROVE JobsKnown'
  <2>0. worker[w].pc # "idle"
    BY <1>5, RunStepBusy
  <2>1. ASSUME NEW k \in Keys, CopyObject(w, k) PROVE JobsKnown'
    <3>1. PICK moved : Advance(w, k, moved)
      BY <2>1 DEF CopyObject
    <3>2. worker' = [worker EXCEPT ![w] =
            [worker[w] EXCEPT !.todo = worker[w].todo \ {k}, !.moved = moved]]
      BY <3>1 DEF Advance
    <3> QED BY <2>0, <3>2
  <2>2. CASE CopyFinished(w)
    <3>1. worker' = [worker EXCEPT ![w] =
            [worker[w] EXCEPT !.pc = "verify",
                              !.seen = transfer[worker[w].job].snapshot]]
      BY <2>2 DEF CopyFinished
    <3> QED BY <2>0, <3>1, Names
  <2>3. CASE CopyFailed(w) \/ CopyUnfinished(w) \/ SettleRun(w)
    BY <2>3, <1>a DEF CopyFailed, CopyUnfinished, SettleRun
  <2>4. CASE \/ VerifyObjects(w) \/ AcquireLease(w) \/ CheckManifest(w)
             \/ FlipPointer(w) \/ MarkSwitched(w) \/ DeleteSourceObjects(w)
    BY <2>0, <2>4, <1>a, <1>b, Names
    DEF VerifyObjects, AcquireLease, CheckManifest, FlipPointer, MarkSwitched,
        DeleteSourceObjects
  <2> QED BY <1>5, <2>1, <2>2, <2>3, <2>4 DEF RunStep
<1> QED BY <1>1, <1>2, <1>3, <1>4, <1>5 DEF Next

\* Every step keeps the types.
LEMMA TypeStep ==
  ASSUME TypeOK, JobsKnown, [Next]_vars
  PROVE  TypeOK' /\ JobsKnown'
<1>1. JobsKnown'
  BY JobsStep
<1>2. CASE Request
  BY <1>2, TypeRequest, <1>1
<1>3. CASE UserStep \/ ExpireLease \/ \E w \in Workers : Crash(w)
  BY <1>3, TypeOther, <1>1
<1>4. ASSUME NEW w \in Workers, NEW t \in Transfers, Deliver(w, t)
      PROVE  TypeOK'
  BY <1>4, TypeDeliver
<1>5. ASSUME NEW w \in Workers, RunStep(w) PROVE TypeOK'
  <2>1. worker[w].job \in Transfers
    BY <1>5, RunStepBusy DEF JobsKnown
  <2> QED BY <1>5, <2>1, TypeRun
<1>6. CASE UNCHANGED vars
  BY <1>1, <1>6 DEF TypeOK, vars, fileVars, adminVars, recordVars
<1> QED BY <1>1, <1>2, <1>3, <1>4, <1>5, <1>6 DEF Next

\* Every document keeps its type, in every environment.
THEOREM TypeCorrect == Spec => []TypeOK
<1>1. Init => TypeOK /\ JobsKnown
  <2>1. Init => JobsKnown
    BY DEF Init, JobsKnown, IdleWorker
  <2> QED BY <2>1, TypeInit
<1>2. TypeOK /\ JobsKnown /\ [Next]_vars => TypeOK' /\ JobsKnown'
  BY TypeStep
<1> QED BY <1>1, <1>2, PTL DEF Spec

-----------------------------------------------------------------------------
(* The lease                                                               *)

\* Whoever is in the section holds the lease for its transfer, alone.
SectionHeld ==
  /\ \A w \in Workers : worker[w].pc \in Section => lease = worker[w].job
  /\ SectionExclusive

\* A worker enters the section by taking a free lease and gives it back when
\* it leaves; the lease does not expire under it.
LEMMA SectionStep ==
  ASSUME TypeOK, JobsKnown, SectionHeld, [Next]_vars
  PROVE  SectionHeld'
<1> USE DEF TypeOK, SectionHeld, SectionExclusive
<1>a. ASSUME UNCHANGED lease,
             \A w \in Workers : worker'[w].pc \in Section
               => worker[w].pc \in Section /\ worker'[w].job = worker[w].job
      PROVE  SectionHeld'
  BY <1>a
<1>b. ASSUME NEW w \in Workers,
             \A v \in Workers \ {w} : worker'[v] = worker[v],
             worker'[w].pc \notin Section, UNCHANGED lease
      PROVE  SectionHeld'
  BY <1>a, <1>b
<1>c. ASSUME NEW w \in Workers
      PROVE  /\ Stop(w) => /\ worker'[w].pc \notin Section
                           /\ \A v \in Workers \ {w} : worker'[v] = worker[v]
             /\ \A pc \in Phases : Goto(w, pc) =>
                  /\ worker'[w].pc = pc /\ worker'[w].job = worker[w].job
                  /\ \A v \in Workers \ {w} : worker'[v] = worker[v]
  BY DEF Stop, Goto, IdleWorker, Section, WorkerState
<1>1. CASE Request \/ UserStep \/ UNCHANGED vars
  <2>1. ASSUME NEW t \in Transfers, RetryAborted(t) PROVE SectionHeld'
    <3>1. \A w \in Workers : worker'[w].pc = worker[w].pc
                             /\ worker'[w].job = worker[w].job
      BY <2>1 DEF RetryAborted, WorkerState
    <3> QED BY <2>1, <3>1 DEF RetryAborted
  <2>2. CASE UNCHANGED <<worker, lease>>
    BY <2>2
  <2> QED BY <1>1, <2>1, <2>2
    DEF Request, MoveProject, ScanProject, RetryFailed, SetLock, SetRunEnabled,
        CompleteProject, ReopenProject, UserStep, UploadFile, BeginUpload,
        SaveUpload, DeriveObject, RemoveFile, EditProject, vars
<1>2. ASSUME NEW w \in Workers, NEW t \in Transfers, Deliver(w, t)
      PROVE  SectionHeld'
  <2>1. CASE UNCHANGED <<worker, lease>>
    BY <2>1
  <2>2. CASE StartRun(w, t)
    <3>1. /\ worker'[w].pc \in {"copy", "verify", "delete"}
          /\ \A v \in Workers \ {w} : worker'[v] = worker[v]
          /\ UNCHANGED lease
      BY <2>2 DEF StartRun
    <3> QED BY <1>b, <3>1 DEF Section
  <2> QED BY <1>2, <2>1, <2>2 DEF Deliver, RunPaused, RunSkipped, RunAborted
<1>3. ASSUME NEW w \in Workers, NEW k \in Keys, CopyObject(w, k)
      PROVE  SectionHeld'
  <2>1. PICK moved : Advance(w, k, moved)
    BY <1>3 DEF CopyObject
  <2>2. worker' = [worker EXCEPT ![w] =
          [worker[w] EXCEPT !.todo = worker[w].todo \ {k}, !.moved = moved]]
    BY <2>1 DEF Advance
  <2>3. \A v \in Workers : worker'[v].pc = worker[v].pc
                           /\ worker'[v].job = worker[v].job
    BY <2>2 DEF WorkerState
  <2> QED BY <1>3, <2>3 DEF CopyObject
<1>4. ASSUME NEW w \in Workers, CopyFinished(w) PROVE SectionHeld'
  <2>1. worker' = [worker EXCEPT ![w] =
          [worker[w] EXCEPT !.pc = "verify",
                            !.seen = transfer[worker[w].job].snapshot]]
    BY <1>4 DEF CopyFinished
  <2>2. worker'[w].pc \notin Section
        /\ \A v \in Workers \ {w} : worker'[v] = worker[v]
    BY <2>1 DEF Section, WorkerState
  <2> QED BY <1>4, <1>b, <2>2 DEF CopyFinished
<1>5. ASSUME NEW w \in Workers,
             \/ CopyFailed(w) \/ CopyUnfinished(w) \/ VerifyObjects(w)
             \/ DeleteSourceObjects(w) \/ SettleRun(w) \/ Crash(w)
      PROVE  SectionHeld'
  <2>1. /\ worker'[w].pc \notin Section /\ UNCHANGED lease
        /\ \A v \in Workers \ {w} : worker'[v] = worker[v]
    BY <1>5, <1>c, Names
    DEF CopyFailed, CopyUnfinished, VerifyObjects, DeleteSourceObjects,
        SettleRun, Crash, Section
  <2> QED BY <1>b, <2>1
<1>6. ASSUME NEW w \in Workers, AcquireLease(w) PROVE SectionHeld'
  <2>1. CASE Stop(w) /\ UNCHANGED lease
    BY <1>b, <1>c, <2>1
  <2>2. CASE lease = 0 /\ lease' = worker[w].job /\ Goto(w, "manifest")
    <3>1. \A v \in Workers : worker[v].pc \notin Section
      BY <2>2 DEF JobsKnown, Section, Transfers
    <3>2. /\ worker'[w].pc = "manifest" /\ worker'[w].job = worker[w].job
          /\ \A v \in Workers \ {w} : worker'[v] = worker[v]
      BY <1>c, <2>2, Names
    <3> QED BY <2>2, <3>1, <3>2
  <2> QED BY <1>6, <2>1, <2>2 DEF AcquireLease, LeaseFree
<1>7. ASSUME NEW w \in Workers,
             CheckManifest(w) \/ FlipPointer(w) \/ MarkSwitched(w)
      PROVE  SectionHeld'
  <2>1. /\ worker[w].pc \in Section
        /\ \/ Goto(w, "flip") /\ UNCHANGED lease
           \/ Goto(w, "mark") /\ UNCHANGED lease
           \/ Goto(w, "delete") \/ Stop(w)
    BY <1>7 DEF CheckManifest, FlipPointer, MarkSwitched, Section
  <2>2. \A v \in Workers \ {w} : worker[v].pc \notin Section
                                 /\ worker'[v] = worker[v]
    BY <1>c, <2>1, Names
  <2>3. \/ worker'[w].pc \notin Section
        \/ worker'[w].job = worker[w].job /\ UNCHANGED lease
    BY <1>c, <2>1, Names DEF Section
  <2> QED BY <2>1, <2>2, <2>3
<1>8. CASE ExpireLease
  <2>1. \A w \in Workers : worker[w].pc \notin Section
    BY <1>8 DEF ExpireLease, Running
  <2> QED BY <1>8, <2>1 DEF ExpireLease
<1> QED BY <1>1, <1>2, <1>3, <1>4, <1>5, <1>6, <1>7, <1>8 DEF Next, RunStep

\* However often a transfer is queued and whoever crashes, one worker at a
\* time moves the pointer.
THEOREM OneInSection == Spec => []SectionExclusive
<1>1. Init => TypeOK /\ JobsKnown /\ SectionHeld
  <2>1. Init => JobsKnown /\ SectionHeld
    BY DEF Init, JobsKnown, IdleWorker, SectionHeld, SectionExclusive, Section
  <2> QED BY <2>1, TypeInit
<1>2. TypeOK /\ JobsKnown /\ SectionHeld /\ [Next]_vars
        => TypeOK' /\ JobsKnown' /\ SectionHeld'
  BY TypeStep, SectionStep
<1>3. SectionHeld => SectionExclusive
  BY DEF SectionHeld
<1> QED BY <1>1, <1>2, <1>3, PTL DEF Spec


(***************************************************************************)
(* Careful use.                                                            *)
(***************************************************************************)
Core(t) ==
  /\ AtEitherEnd(t) /\ RowsTellTheTruth(t) /\ RowsAdvance(t)
  /\ NamesAreFresh /\ ManifestKept /\ NoReadableCopyLost

Frame(w, t) ==
  /\ \A u \in Transfers \ {t} : transfer'[u] = transfer[u] /\ queue'[u] = queue[u]
  /\ transfer'[t].status # "NONE"
  /\ \A v \in Workers \ {w} : worker'[v] = worker[v]
  /\ worker'[w].job \in {0, t}

\* A transfer that is active, queued or running is the newest one.
LEMMA BusyIsNewest ==
  ASSUME OnlyNewestRuns, NEW t \in Transfers, ~Settled(t)
  PROVE  Newest(t)
BY DEF OnlyNewestRuns, Newest

\* There is one newest transfer at most.
LEMMA NewestIsUnique ==
  ASSUME NEW t \in Transfers, NEW u \in Transfers, Newest(t), Newest(u)
  PROVE  t = u
BY BoundAssumption DEF Newest, Transfers

\* A step for the newest transfer leaves it the newest and the others at rest.
LEMMA FrameKeepsOrder ==
  ASSUME OnlyNewestRuns, NEW t \in Transfers, Newest(t), NEW w \in Workers,
         worker[w].job \in {0, t}, Frame(w, t)
  PROVE  /\ OnlyNewestRuns'
         /\ \A u \in Transfers : Newest(u)' => u = t
<1>1. ASSUME NEW u \in Transfers, u # t, Settled(u) PROVE Settled(u)'
  <2>1. transfer'[u] = transfer[u] /\ queue'[u] = queue[u]
    BY <1>1 DEF Frame
  <2>2. Running(u)' = {}
    BY <1>1, BoundAssumption DEF Frame, Running, Settled, Transfers
  <2> QED BY <1>1, <2>1, <2>2 DEF Settled, IsActive
<1>2. \A u \in Transfers : transfer'[u].status = "NONE" <=> transfer[u].status = "NONE"
  BY DEF Frame, Newest
<1>3. \A u \in Transfers : Newest(u)' => u = t
  BY <1>2, BoundAssumption DEF Newest, Transfers
<1>4. \A u \in Transfers : u # t => Settled(u)
  BY BoundAssumption DEF OnlyNewestRuns, Newest, Transfers
<1>5. ASSUME NEW u \in Transfers, u # t PROVE Settled(u)'
  BY <1>1, <1>4, <1>5
<1>6. ASSUME NEW u \in Transfers, u > t PROVE transfer'[u].status = "NONE"
  BY <1>2, <1>6 DEF Newest
<1>7. transfer'[t].status # "NONE"
  BY DEF Frame
<1> QED BY <1>3, <1>5, <1>6, <1>7 DEF OnlyNewestRuns

\* A step of w can take the transfer no further than its own new phase and
\* the document's new status.
LEMMA ProgressAfter ==
  ASSUME NEW w \in Workers, NEW t \in Transfers, worker[w].job \in {0, t},
         Frame(w, t)
  PROVE  \A phases : Reached(t, phases)'
           => \/ Reached(t, phases)
              \/ worker'[w].job = t /\ worker'[w].pc \in phases
BY DEF Frame, Reached, Running

\* Stopping leaves the worker without a job, going on keeps its job.
LEMMA WorkerAfter ==
  ASSUME TypeOK, NEW w \in Workers
  PROVE  /\ Stop(w) => /\ worker'[w].pc = "idle" /\ worker'[w].job = 0
                       /\ \A v \in Workers \ {w} : worker'[v] = worker[v]
         /\ \A pc \in Phases : Goto(w, pc) =>
              /\ worker'[w].pc = pc /\ worker'[w].job = worker[w].job
              /\ \A v \in Workers \ {w} : worker'[v] = worker[v]
BY DEF TypeOK, WorkerState, Stop, Goto, IdleWorker

\* A step that touches neither files nor rows keeps Core if what it claims to
\* have reached is so.
LEMMA RecordStepKeeps ==
  ASSUME TypeOK, JobsKnown, NEW w \in Workers, NEW t \in Transfers,
         worker[w].job \in {0, t}, Core(t), Frame(w, t),
         UNCHANGED <<pointer, listed, stored, named, uploading, objects, rows>>,
         transfer'[t].origin = transfer[t].origin,
         transfer'[t].target = transfer[t].target,
         transfer'[t].status \in {"SWITCHED", "DONE"}
           => HasSwitched(t) /\ HasVerified(t),
         transfer'[t].status = "VERIFIED" \/ worker'[w].pc = "verify"
           => RowsIn(t, {"PENDING"}) = {},
         worker'[w].pc \in Phases \ {"idle", "copy", "verify"} => HasVerified(t),
         worker'[w].pc \in {"mark", "delete", "settle"} => HasSwitched(t),
         worker'[w].pc = "flip" =>
           worker'[w].job = t /\ listed \subseteq Recorded(t)
  PROVE  Core(t)'
<1>a. \A phases : Reached(t, phases)'
        => \/ Reached(t, phases)
           \/ worker'[w].job = t /\ worker'[w].pc \in phases
  BY ProgressAfter
<1>b. HasVerified(t) => RowsIn(t, {"PENDING"}) = {}
  BY DEF Core, RowsAdvance, RowsIn
<1>c. HasVerified(t)' => HasVerified(t)
  BY <1>a DEF HasVerified
<1>d. HasSwitched(t)' => HasSwitched(t)
  BY <1>a DEF HasSwitched
<1>e. HasCopied(t)' => RowsIn(t, {"PENDING"}) = {}
  <2>1. Reached(t, Phases \ {"idle", "copy"})' => RowsIn(t, {"PENDING"}) = {}
    <3>1. CASE Reached(t, Phases \ {"idle", "copy"})
      BY <3>1 DEF Core, RowsAdvance, HasCopied
    <3>2. CASE worker'[w].pc \in Phases \ {"idle", "copy"}
      BY <3>2, <1>b
    <3> QED BY <1>a, <3>1, <3>2
  <2>2. transfer'[t].status \in {"VERIFIED", "SWITCHED", "DONE"}
          => RowsIn(t, {"PENDING"}) = {}
    BY <1>b
  <2> QED BY <2>1, <2>2 DEF HasCopied
<1>1. AtEitherEnd(t)' /\ RowsTellTheTruth(t)' /\ RowsAdvance(t)'
  BY <1>c, <1>d, <1>e
  DEF Core, AtEitherEnd, RowsTellTheTruth, RowsAdvance, RowsIn
<1>2. NamesAreFresh' /\ NoReadableCopyLost'
  BY DEF Core, NamesAreFresh, NoReadableCopyLost, Recorded
<1>3. ManifestKept'
  <2> SUFFICES ASSUME NEW v \in Workers, worker'[v].pc = "flip"
               PROVE  listed \subseteq Recorded(worker'[v].job)
    BY DEF ManifestKept, Recorded
  <2>1. CASE v = w
    BY <2>1
  <2>2. CASE v # w
    BY <2>2 DEF Core, Frame, ManifestKept
  <2> QED BY <2>1, <2>2
<1> QED BY <1>1, <1>2, <1>3 DEF Core

-----------------------------------------------------------------------------
(* One lemma for every action of a worker                                  *)

\* Copying adds to the target and moves PENDING rows only.
LEMMA CopyObjectKeeps ==
  ASSUME TypeOK, JobsKnown, NEW w \in Workers, NEW t \in Transfers,
         t = worker[w].job, Newest(t), Core(t), NEW k \in Keys, CopyObject(w, k)
  PROVE  Frame(w, t) /\ Core(t)'
<1> USE DEF TypeOK
<1>1. PICK moved : Advance(w, k, moved)
  BY DEF CopyObject
<1>2. worker' = [worker EXCEPT ![w] =
        [worker[w] EXCEPT !.todo = worker[w].todo \ {k}, !.moved = moved]]
  BY <1>1 DEF Advance
<1>3. \A v \in Workers : worker'[v].pc = worker[v].pc /\ worker'[v].job = worker[v].job
  BY <1>2 DEF WorkerState
<1>4. UNCHANGED <<pointer, listed, stored, named, transfer, queue, uploading>>
  BY DEF CopyObject, fileVars
<1>5. Frame(w, t)
  BY <1>2, <1>3, <1>4 DEF Frame, Newest
<1>6. \A phases : Reached(t, phases)' <=> Reached(t, phases)
  BY <1>3 DEF Reached, Running
<1>7. /\ \A s \in Stores : objects[s] \subseteq objects'[s]
  BY DEF CopyObject
<1>8. PICK result \in {"SKIPPED", "COPIED", "FAILED"} :
        /\ MarkRow(w, k, result)
        /\ result = "SKIPPED" => k \notin objects[transfer[t].origin]
  BY DEF CopyObject
<1>9. /\ \A u \in Transfers \ {t} : rows'[u] = rows[u]
      /\ \A j \in Keys : \/ rows'[t][j] = rows[t][j]
                         \/ j = k /\ rows[t][j] = "PENDING" /\ rows'[t][j] = result
  <2>1. \/ rows' = rows
        \/ rows[t][k] = "PENDING" /\ rows' = [rows EXCEPT ![t][k] = result]
    BY <1>8 DEF MarkRow
  <2>2. CASE rows' = rows
    BY <2>2
  <2>3. CASE rows[t][k] = "PENDING" /\ rows' = [rows EXCEPT ![t][k] = result]
    BY <2>3
  <2> QED BY <2>1, <2>2, <2>3
<1>10. AtEitherEnd(t)'
  BY <1>4, <1>6 DEF Core, AtEitherEnd, HasSwitched
<1>11. RowsTellTheTruth(t)'
  <2>1. \A j \in stored : rows'[t][j] \in {"VERIFIED", "SOURCE_DELETED"}
          => j \in objects[transfer[t].target]
    BY <1>8, <1>9 DEF Core, RowsTellTheTruth
  <2>2. \A j \in stored : rows'[t][j] \in {"VERIFIED", "SOURCE_DELETED"}
          => j \in objects'[transfer[t].target]
    BY <2>1, <1>7 DEF TransferState
  <2>3. ASSUME pointer = transfer[t].origin, NEW j \in stored
        PROVE  rows'[t][j] # "SKIPPED"
    BY <2>3, <1>8, <1>9 DEF Core, RowsTellTheTruth, NoReadableCopyLost
  <2> QED BY <1>4, <2>2, <2>3 DEF RowsTellTheTruth
<1>12. RowsAdvance(t)'
  <2>1. RowsIn(t, {"PENDING"})' \subseteq RowsIn(t, {"PENDING"})
    BY <1>8, <1>9 DEF RowsIn
  <2>2. RowsIn(t, {"PENDING"}) = {}
        => RowsIn(t, {"PENDING", "COPIED", "FAILED"})'
             = RowsIn(t, {"PENDING", "COPIED", "FAILED"})
    BY <1>9 DEF RowsIn
  <2>3. RowsIn(t, {"PENDING", "COPIED", "FAILED"}) = {} => RowsIn(t, {"PENDING"}) = {}
    BY DEF RowsIn
  <2> QED BY <1>4, <1>6, <2>1, <2>2, <2>3
     DEF Core, RowsAdvance, HasCopied, HasVerified
<1>13. \A u \in Transfers : Recorded(u)' = Recorded(u)
  <2>1. ASSUME NEW u \in Transfers, NEW j \in Keys
        PROVE  rows'[u][j] = "NONE" <=> rows[u][j] = "NONE"
    <3>1. CASE u = t
      BY <1>8, <1>9, <3>1
    <3>2. CASE u # t
      BY <1>9, <3>2
    <3> QED BY <3>1, <3>2
  <2> QED BY <2>1 DEF Recorded
<1>14. NamesAreFresh' /\ NoReadableCopyLost'
  BY <1>4, <1>7, <1>13 DEF Core, NamesAreFresh, NoReadableCopyLost
<1>15. ManifestKept'
  BY <1>3, <1>4, <1>13 DEF Core, ManifestKept, JobsKnown
<1> QED BY <1>5, <1>10, <1>11, <1>12, <1>14, <1>15 DEF Core

\* The ends of the copy loop, the steps around the lease and the settling of a
\* run write the document and the worker only.
LEMMA RecordActionKeeps ==
  ASSUME TypeOK, JobsKnown, NEW w \in Workers, NEW t \in Transfers,
         t = worker[w].job, Newest(t), Core(t),
         \/ CopyFailed(w) \/ CopyUnfinished(w) \/ CopyFinished(w)
         \/ AcquireLease(w) \/ CheckManifest(w) \/ MarkSwitched(w)
         \/ SettleRun(w)
  PROVE  Frame(w, t) /\ Core(t)'
<1> USE DEF TypeOK, fileVars
<1>q. ContinueLater(t) => \A u \in Transfers \ {t} : queue'[u] = queue[u]
  BY DEF ContinueLater
<1>s. ASSUME NEW status, SetStatus(t, status)
      PROVE  /\ transfer'[t].status = status
             /\ transfer'[t].origin = transfer[t].origin
             /\ transfer'[t].target = transfer[t].target
             /\ \A u \in Transfers \ {t} : transfer'[u] = transfer[u]
  BY <1>s DEF SetStatus, TransferState
<1>l. ASSUME NEW stalls, SetStalls(t, stalls)
      PROVE  /\ transfer'[t].status = transfer[t].status
             /\ transfer'[t].origin = transfer[t].origin
             /\ transfer'[t].target = transfer[t].target
             /\ \A u \in Transfers \ {t} : transfer'[u] = transfer[u]
  BY <1>l DEF SetStalls, TransferState
<1>e. /\ transfer[t].status = "VERIFIED" => RowsIn(t, {"PENDING"}) = {}
      /\ transfer[t].status \in {"SWITCHED", "DONE"}
           => HasVerified(t) /\ HasSwitched(t)
      /\ transfer[t].status # "NONE"
      /\ worker[w].pc \in Phases \ {"idle", "copy", "verify"} => HasVerified(t)
      /\ worker[w].pc \in {"mark", "delete", "settle"} => HasSwitched(t)
  BY DEF Core, RowsAdvance, HasCopied, HasVerified, HasSwitched, Reached, Running, Newest
<1>1. CASE CopyFailed(w)
  <2>1. /\ transfer'[t].status = "FAILED" /\ Stop(w)
        /\ UNCHANGED <<pointer, listed, stored, named, uploading, objects, rows, queue>>
    BY <1>1, <1>s DEF CopyFailed
  <2>2. Frame(w, t)
    BY <1>1, <2>1, <1>s, WorkerAfter DEF CopyFailed, Frame
  <2>3. Core(t)'
    BY <1>1, <2>1, <2>2, <1>s, WorkerAfter, RecordStepKeeps DEF CopyFailed
  <2> QED BY <2>2, <2>3
<1>2. CASE CopyUnfinished(w)
  <2>1. /\ \/ SetStatus(t, "FAILED") /\ UNCHANGED queue
           \/ ContinueLater(t) /\ \E stalls : SetStalls(t, stalls)
        /\ Stop(w)
        /\ UNCHANGED <<pointer, listed, stored, named, uploading, objects, rows>>
    BY <1>2 DEF CopyUnfinished
  <2>2. /\ transfer'[t].status \in {"FAILED", transfer[t].status}
        /\ transfer'[t].origin = transfer[t].origin
        /\ transfer'[t].target = transfer[t].target
        /\ \A u \in Transfers \ {t} : transfer'[u] = transfer[u] /\ queue'[u] = queue[u]
    BY <2>1, <1>s, <1>l, <1>q
  <2>3. Frame(w, t)
    BY <2>1, <2>2, <1>e, WorkerAfter DEF Frame
  <2>4. Core(t)'
    BY <2>1, <2>2, <2>3, <1>e, WorkerAfter, RecordStepKeeps
  <2> QED BY <2>3, <2>4
<1>3. CASE CopyFinished(w)
  <2>1. /\ SetStatus(t, "VERIFIED") /\ RowsIn(t, {"PENDING"}) = {}
        /\ UNCHANGED <<pointer, listed, stored, named, uploading, objects, rows, queue>>
    BY <1>3 DEF CopyFinished, RowsIn
  <2>2. worker' = [worker EXCEPT ![w] =
          [worker[w] EXCEPT !.pc = "verify", !.seen = transfer[t].snapshot]]
    BY <1>3 DEF CopyFinished
  <2>3. /\ worker'[w].pc = "verify" /\ worker'[w].job = t
        /\ \A v \in Workers \ {w} : worker'[v] = worker[v]
    BY <2>2 DEF WorkerState
  <2>4. Frame(w, t)
    BY <2>1, <2>3, <1>s DEF Frame
  <2>5. Core(t)'
    BY <2>1, <2>3, <2>4, <1>s, RecordStepKeeps
  <2> QED BY <2>4, <2>5
<1>4. CASE AcquireLease(w)
  <2>1. /\ worker[w].pc = "switch"
        /\ \/ SetStatus(t, "ABORTED") /\ Stop(w) /\ UNCHANGED queue
           \/ ContinueLater(t) /\ Stop(w) /\ UNCHANGED transfer
           \/ Goto(w, "manifest") /\ UNCHANGED <<transfer, queue>>
        /\ UNCHANGED <<pointer, listed, stored, named, uploading, objects, rows>>
    BY <1>4 DEF AcquireLease
  <2>2. /\ transfer'[t].status \in {"ABORTED", transfer[t].status}
        /\ transfer'[t].origin = transfer[t].origin
        /\ transfer'[t].target = transfer[t].target
        /\ \A u \in Transfers \ {t} : transfer'[u] = transfer[u] /\ queue'[u] = queue[u]
    BY <2>1, <1>s, <1>q
  <2>3. /\ \/ worker'[w].pc = "idle" /\ worker'[w].job = 0
           \/ worker'[w].pc = "manifest" /\ worker'[w].job = t /\ HasVerified(t)
        /\ \A v \in Workers \ {w} : worker'[v] = worker[v]
    BY <2>1, <1>e, WorkerAfter, Names
  <2>4. Frame(w, t)
    BY <2>2, <2>3, <1>e DEF Frame
  <2>5. Core(t)'
    BY <2>1, <2>2, <2>3, <2>4, <1>e, RecordStepKeeps
  <2> QED BY <2>4, <2>5
<1>5. CASE CheckManifest(w)
  <2>1. /\ worker[w].pc = "manifest"
        /\ \/ SetStatus(t, "ABORTED") /\ Stop(w)
           \/ Goto(w, "flip") /\ UNCHANGED transfer /\ listed \subseteq Recorded(t)
        /\ UNCHANGED <<pointer, listed, stored, named, uploading, objects, rows, queue>>
    BY <1>5 DEF CheckManifest, ManifestHolds
  <2>2. /\ transfer'[t].status \in {"ABORTED", transfer[t].status}
        /\ transfer'[t].origin = transfer[t].origin
        /\ transfer'[t].target = transfer[t].target
        /\ \A u \in Transfers \ {t} : transfer'[u] = transfer[u] /\ queue'[u] = queue[u]
    BY <2>1, <1>s
  <2>3. /\ \/ worker'[w].pc = "idle" /\ worker'[w].job = 0
           \/ /\ worker'[w].pc = "flip" /\ worker'[w].job = t /\ HasVerified(t)
              /\ listed \subseteq Recorded(t)
        /\ \A v \in Workers \ {w} : worker'[v] = worker[v]
    BY <2>1, <1>e, WorkerAfter, Names
  <2>4. Frame(w, t)
    BY <2>2, <2>3, <1>e DEF Frame
  <2>5. Core(t)'
    BY <2>1, <2>2, <2>3, <2>4, <1>e, RecordStepKeeps
  <2> QED BY <2>4, <2>5
<1>6. CASE MarkSwitched(w)
  <2>1. /\ worker[w].pc = "mark" /\ SetStatus(t, "SWITCHED") /\ Goto(w, "delete")
        /\ UNCHANGED <<pointer, listed, stored, named, uploading, objects, rows, queue>>
    BY <1>6 DEF MarkSwitched
  <2>2. /\ worker'[w].pc = "delete" /\ worker'[w].job = t
        /\ HasVerified(t) /\ HasSwitched(t)
        /\ \A v \in Workers \ {w} : worker'[v] = worker[v]
    BY <2>1, <1>e, WorkerAfter, Names
  <2>3. Frame(w, t)
    BY <2>1, <2>2, <1>s DEF Frame
  <2>4. Core(t)'
    BY <2>1, <2>2, <2>3, <1>s, RecordStepKeeps
  <2> QED BY <2>3, <2>4
<1>7. CASE SettleRun(w)
  <2>1. /\ worker[w].pc = "settle" /\ Stop(w)
        /\ \/ UNCHANGED queue /\ \E stalls : Finish(t, stalls)
           \/ ContinueLater(t) /\ \E stalls : SetStalls(t, stalls)
        /\ UNCHANGED <<pointer, listed, stored, named, uploading, objects, rows>>
    BY <1>7 DEF SettleRun
  <2>2. ASSUME NEW stalls, Finish(t, stalls)
        PROVE  /\ transfer'[t].status = "DONE"
               /\ transfer'[t].origin = transfer[t].origin
               /\ transfer'[t].target = transfer[t].target
               /\ \A u \in Transfers \ {t} : transfer'[u] = transfer[u]
    BY <2>2 DEF Finish, TransferState
  <2>3. /\ transfer'[t].status \in {"DONE", transfer[t].status}
        /\ transfer'[t].origin = transfer[t].origin
        /\ transfer'[t].target = transfer[t].target
        /\ \A u \in Transfers \ {t} : transfer'[u] = transfer[u] /\ queue'[u] = queue[u]
    BY <2>1, <2>2, <1>l, <1>q
  <2>4. Frame(w, t)
    BY <2>1, <2>3, <1>e, WorkerAfter DEF Frame
  <2>5. Core(t)'
    BY <2>1, <2>3, <2>4, <1>e, WorkerAfter, RecordStepKeeps, Names
  <2> QED BY <2>4, <2>5
<1> QED BY <1>1, <1>2, <1>3, <1>4, <1>5, <1>6, <1>7

\* Verification marks a row only when the target has its object.
LEMMA VerifyObjectsKeeps ==
  ASSUME TypeOK, JobsKnown, NEW w \in Workers, NEW t \in Transfers,
         t = worker[w].job, Newest(t), Core(t), VerifyObjects(w)
  PROVE  Frame(w, t) /\ Core(t)'
<1> USE DEF TypeOK
<1>1. /\ worker[w].pc = "verify"
      /\ UNCHANGED <<pointer, listed, stored, named, uploading, objects, queue>>
  BY DEF VerifyObjects, fileVars
<1>2. /\ \A u \in Transfers \ {t} : rows'[u] = rows[u]
      /\ \A k \in Keys :
           rows'[t][k] = IF rows[t][k] # "COPIED" THEN rows[t][k]
                         ELSE IF Present(t, k) THEN "VERIFIED" ELSE "FAILED"
  BY DEF VerifyObjects
<1>3. /\ transfer'[t].status \in {"FAILED", transfer[t].status}
      /\ transfer'[t].origin = transfer[t].origin
      /\ transfer'[t].target = transfer[t].target
      /\ \A u \in Transfers \ {t} : transfer'[u] = transfer[u]
  <2>1. SetStatus(t, "FAILED") \/ UNCHANGED transfer
    BY DEF VerifyObjects
  <2>2. CASE SetStatus(t, "FAILED")
    BY <2>2 DEF SetStatus, TransferState
  <2>3. CASE UNCHANGED transfer
    BY <2>3
  <2> QED BY <2>1, <2>2, <2>3
<1>4. RowsIn(t, {"PENDING"}) = {}
  BY <1>1 DEF Core, RowsAdvance, HasCopied, Reached, Running, Phases
<1>5. /\ \/ worker'[w].pc = "idle" /\ worker'[w].job = 0
         \/ /\ worker'[w].pc = "switch" /\ worker'[w].job = t
            /\ RowsIn(t, {"PENDING", "COPIED", "FAILED"})' = {}
      /\ \A v \in Workers \ {w} : worker'[v] = worker[v]
  <2>1. CASE Stop(w)
    BY <2>1, WorkerAfter
  <2>2. CASE /\ Goto(w, "switch")
             /\ \A k \in Keys : ~(rows[t][k] = "COPIED" /\ ~Present(t, k))
             /\ RowsIn(t, {"FAILED"}) = {}
    <3>1. RowsIn(t, {"PENDING", "COPIED", "FAILED"})' = {}
      BY <1>2, <1>4, <2>2 DEF RowsIn
    <3> QED BY <2>2, <3>1, WorkerAfter, Names
  <2> QED BY <2>1, <2>2 DEF VerifyObjects, RowsIn
<1>6. Frame(w, t)
  BY <1>1, <1>3, <1>5 DEF Frame, Newest
<1>7. \A phases : Reached(t, phases)'
        => \/ Reached(t, phases)
           \/ worker'[w].job = t /\ worker'[w].pc \in phases
  BY <1>6, ProgressAfter
<1>8. RowsAdvance(t)'
  <2>1. RowsIn(t, {"PENDING"})' = {}
    BY <1>2, <1>4 DEF RowsIn
  <2>2. RowsIn(t, {"PENDING", "COPIED", "FAILED"}) = {}
          => RowsIn(t, {"PENDING", "COPIED", "FAILED"})' = {}
    BY <1>2 DEF RowsIn
  <2>3. HasVerified(t)' => \/ HasVerified(t)
                           \/ RowsIn(t, {"PENDING", "COPIED", "FAILED"})' = {}
    BY <1>3, <1>5, <1>7 DEF HasVerified
  <2> QED BY <2>1, <2>2, <2>3 DEF Core, RowsAdvance
<1>9. AtEitherEnd(t)'
  <2>1. HasSwitched(t)' => HasSwitched(t)
    BY <1>3, <1>5, <1>7 DEF HasSwitched
  <2> QED BY <1>1, <1>3, <2>1 DEF Core, AtEitherEnd
<1>10. RowsTellTheTruth(t)'
  <2>1. ASSUME NEW k \in stored, rows'[t][k] \in {"VERIFIED", "SOURCE_DELETED"}
        PROVE  k \in objects[transfer[t].target]
    BY <1>2, <2>1 DEF Core, RowsTellTheTruth, Present
  <2>2. ASSUME pointer = transfer[t].origin, NEW k \in stored
        PROVE  rows'[t][k] # "SKIPPED"
    BY <1>2, <2>2 DEF Core, RowsTellTheTruth
  <2> QED BY <1>1, <1>3, <2>1, <2>2 DEF RowsTellTheTruth
<1>11. \A u \in Transfers : Recorded(u)' = Recorded(u)
  <2>1. ASSUME NEW u \in Transfers, NEW k \in Keys
        PROVE  rows'[u][k] = "NONE" <=> rows[u][k] = "NONE"
    <3>1. CASE u = t
      BY <1>2, <3>1
    <3>2. CASE u # t
      BY <1>2, <3>2
    <3> QED BY <3>1, <3>2
  <2> QED BY <2>1 DEF Recorded
<1>12. NamesAreFresh' /\ NoReadableCopyLost'
  BY <1>1, <1>11 DEF Core, NamesAreFresh, NoReadableCopyLost
<1>13. ManifestKept'
  <2>1. ASSUME NEW v \in Workers, worker'[v].pc = "flip"
        PROVE  worker[v].pc = "flip" /\ worker'[v].job = worker[v].job
    BY <1>5, <2>1
  <2> QED BY <1>1, <1>11, <2>1 DEF Core, ManifestKept, JobsKnown
<1> QED BY <1>6, <1>8, <1>9, <1>10, <1>12, <1>13 DEF Core

\* The pointer moves only when every file's row is verified.
LEMMA FlipPointerKeeps ==
  ASSUME TypeOK, JobsKnown, NEW w \in Workers, NEW t \in Transfers,
         t = worker[w].job, Newest(t), Core(t), FlipPointer(w)
  PROVE  Frame(w, t) /\ Core(t)'
<1> USE DEF TypeOK
<1>1. /\ worker[w].pc = "flip" /\ pointer' = transfer[t].target
      /\ Goto(w, "mark")
      /\ UNCHANGED <<listed, stored, named, uploading, objects, rows, queue, transfer>>
  BY DEF FlipPointer, fileVars, Core, AtEitherEnd
<1>2. /\ worker'[w].pc = "mark" /\ worker'[w].job = t
      /\ \A v \in Workers \ {w} : worker'[v] = worker[v]
  BY <1>1, WorkerAfter, Names
<1>3. HasCopied(t) /\ HasVerified(t)
  BY <1>1 DEF HasCopied, HasVerified, Reached, Running, Phases
<1>4. stored \subseteq objects[transfer[t].target]
  <2>1. CASE pointer = transfer[t].target
    BY <2>1 DEF Core, NoReadableCopyLost
  <2>2. CASE pointer = transfer[t].origin
    <3> SUFFICES ASSUME NEW k \in stored PROVE k \in objects[transfer[t].target]
      OBVIOUS
    <3>1. rows[t][k] \in RowStatus \ {"NONE", "SKIPPED", "PENDING", "COPIED", "FAILED"}
      BY <1>1, <1>3, <2>2
      DEF Core, NamesAreFresh, ManifestKept, RowsAdvance, RowsTellTheTruth,
          Recorded, RowsIn
    <3>2. rows[t][k] \in {"VERIFIED", "SOURCE_DELETED"}
      BY <3>1 DEF RowStatus
    <3> QED BY <3>2 DEF Core, RowsTellTheTruth
  <2> QED BY <2>1, <2>2 DEF Core, AtEitherEnd
<1>5. Frame(w, t)
  BY <1>1, <1>2 DEF Frame, Newest
<1>6. AtEitherEnd(t)' /\ RowsTellTheTruth(t)'
  BY <1>1 DEF Core, AtEitherEnd, RowsTellTheTruth
<1>7. RowsAdvance(t)'
  BY <1>1, <1>3 DEF Core, RowsAdvance, RowsIn
<1>8. NamesAreFresh' /\ NoReadableCopyLost'
  BY <1>1, <1>4 DEF Core, NamesAreFresh, NoReadableCopyLost, Recorded
<1>9. ManifestKept'
  BY <1>1, <1>2 DEF Core, ManifestKept, Recorded
<1> QED BY <1>5, <1>6, <1>7, <1>8, <1>9 DEF Core

\* Deleting at the origin happens only once the project is at the target; so
\* does dying in the middle of it.
LEMMA DeleteKeeps ==
  ASSUME TypeOK, JobsKnown, NEW w \in Workers, NEW t \in Transfers,
         t = worker[w].job, Newest(t), Core(t),
         DeleteSourceObjects(w) \/ Crash(w)
  PROVE  Frame(w, t) /\ Core(t)'
<1> USE DEF TypeOK
<1>1. UNCHANGED <<pointer, listed, stored, named, uploading, queue, transfer>>
  BY DEF DeleteSourceObjects, Crash, fileVars, recordVars
<1>2. PICK gone \in SUBSET Keys :
        /\ objects' = [objects EXCEPT ![transfer[t].origin] = @ \ gone]
        /\ gone # {} => worker[w].pc = "delete"
        /\ \A u \in Transfers \ {t} : rows'[u] = rows[u]
        /\ \A k \in Keys : \/ rows'[t][k] = rows[t][k]
                           \/ rows[t][k] = "VERIFIED" /\ rows'[t][k] = "SOURCE_DELETED"
  <2>1. CASE DeleteSourceObjects(w)
    <3> DEFINE job == worker[w].job
    <3>1. PICK gone \in SUBSET RowsIn(job, {"VERIFIED"}) :
            /\ objects' = [objects EXCEPT ![transfer[job].origin] = @ \ gone]
            /\ rows' = [rows EXCEPT ![job] = [k \in Keys |->
                 IF k \in gone THEN "SOURCE_DELETED" ELSE rows[job][k]]]
      BY <2>1, ZenonT(60) DEF DeleteSourceObjects
    <3>2. worker[w].pc = "delete"
      BY <2>1 DEF DeleteSourceObjects
    <3> QED BY <3>1, <3>2 DEF RowsIn
  <2>2. CASE Crash(w)
    BY <2>2 DEF Crash, RowsIn, recordVars
  <2> QED BY <2>1, <2>2
<1>3. /\ \/ worker'[w].pc = "idle" /\ worker'[w].job = 0
         \/ worker[w].pc = "delete" /\ worker'[w].pc = "settle" /\ worker'[w].job = t
      /\ \A v \in Workers \ {w} : worker'[v] = worker[v]
  BY WorkerAfter, Names DEF DeleteSourceObjects, Crash
<1>4. worker[w].pc = "delete"
        => HasCopied(t) /\ HasVerified(t) /\ HasSwitched(t)
  BY DEF HasCopied, HasVerified, HasSwitched, Reached, Running, Phases
<1>5. Frame(w, t)
  BY <1>1, <1>3 DEF Frame, Newest
<1>6. \A phases : Reached(t, phases)'
        => \/ Reached(t, phases)
           \/ worker'[w].job = t /\ worker'[w].pc \in phases
  BY <1>5, ProgressAfter
<1>7. /\ HasCopied(t)' => HasCopied(t)
      /\ HasVerified(t)' => HasVerified(t)
      /\ HasSwitched(t)' => HasSwitched(t)
  BY <1>1, <1>3, <1>4, <1>6 DEF HasCopied, HasVerified, HasSwitched
<1>8. AtEitherEnd(t)'
  BY <1>1, <1>7 DEF Core, AtEitherEnd
<1>9. /\ objects'[transfer[t].target] = objects[transfer[t].target]
      /\ NoReadableCopyLost'
  <2>1. transfer[t].origin \in Stores /\ transfer[t].target \in Stores
    BY DEF TransferState
  <2>2. transfer[t].origin # transfer[t].target
    BY DEF Core, AtEitherEnd
  <2>3. gone # {} => pointer = transfer[t].target
    BY <1>2, <1>4 DEF Core, AtEitherEnd
  <2>4. objects'[transfer[t].target] = objects[transfer[t].target]
    BY <1>2, <2>1, <2>2
  <2>5. objects'[pointer] = objects[pointer]
    BY <1>2, <2>1, <2>3, <2>4
  <2> QED BY <1>1, <2>4, <2>5 DEF Core, NoReadableCopyLost
<1>10. RowsTellTheTruth(t)'
  <2>1. ASSUME NEW k \in stored, rows'[t][k] \in {"VERIFIED", "SOURCE_DELETED"}
        PROVE  k \in objects[transfer[t].target]
    BY <1>2, <2>1 DEF Core, RowsTellTheTruth
  <2>2. ASSUME pointer = transfer[t].origin, NEW k \in stored
        PROVE  rows'[t][k] # "SKIPPED"
    BY <1>2, <2>2 DEF Core, RowsTellTheTruth
  <2> QED BY <1>1, <1>9, <2>1, <2>2 DEF RowsTellTheTruth
<1>11. RowsAdvance(t)'
  <2>1. ASSUME NEW statuses \in {{"PENDING"}, {"PENDING", "COPIED", "FAILED"}}
        PROVE  RowsIn(t, statuses)' = RowsIn(t, statuses)
    BY <1>2 DEF RowsIn
  <2> QED BY <1>7, <2>1 DEF Core, RowsAdvance
<1>12. \A u \in Transfers : Recorded(u)' = Recorded(u)
  <2>1. ASSUME NEW u \in Transfers, NEW k \in Keys
        PROVE  rows'[u][k] = "NONE" <=> rows[u][k] = "NONE"
    <3>1. CASE u = t
      BY <1>2, <3>1
    <3>2. CASE u # t
      BY <1>2, <3>2
    <3> QED BY <3>1, <3>2
  <2> QED BY <2>1 DEF Recorded
<1>13. NamesAreFresh'
  BY <1>1, <1>12 DEF Core, NamesAreFresh
<1>14. ManifestKept'
  <2>1. ASSUME NEW v \in Workers, worker'[v].pc = "flip"
        PROVE  worker[v].pc = "flip" /\ worker'[v].job = worker[v].job
    BY <1>3, <2>1
  <2> QED BY <1>1, <1>12, <2>1 DEF Core, ManifestKept, JobsKnown
<1> QED BY <1>5, <1>8, <1>9, <1>10, <1>11, <1>13, <1>14 DEF Core

\* A delivered message claims the transfer and goes on where it had got to.
LEMMA DeliverKeeps ==
  ASSUME TypeOK, JobsKnown, NEW w \in Workers, NEW t \in Transfers,
         Newest(t), Core(t), Deliver(w, t)
  PROVE  worker[w].job = 0 /\ Frame(w, t) /\ Core(t)'
<1> USE DEF TypeOK
<1>1. /\ worker[w].pc = "idle" /\ worker[w].job = 0
      /\ \A u \in Transfers \ {t} : queue'[u] = queue[u]
      /\ UNCHANGED <<pointer, listed, stored, named, uploading, objects, rows>>
  BY DEF Deliver, RunPaused, RunSkipped, RunAborted, StartRun, Take, fileVars,
         recordVars, JobsKnown
<1>2. ASSUME NEW status, SetStatus(t, status)
      PROVE  /\ transfer'[t].status = status
             /\ transfer'[t].origin = transfer[t].origin
             /\ transfer'[t].target = transfer[t].target
             /\ \A u \in Transfers \ {t} : transfer'[u] = transfer[u]
  BY <1>2 DEF SetStatus, TransferState
<1>3. /\ transfer[t].status = "VERIFIED" => RowsIn(t, {"PENDING"}) = {}
      /\ transfer[t].status \in {"SWITCHED", "DONE"}
           => HasVerified(t) /\ HasSwitched(t)
      /\ transfer[t].status # "NONE" /\ transfer[t].status \in Status
  BY DEF Core, RowsAdvance, HasCopied, HasVerified, HasSwitched, Newest, TransferState
<1>4. CASE RunPaused(w, t) \/ RunSkipped(w, t)
  <2>1. UNCHANGED <<transfer, worker>>
    BY <1>4 DEF RunPaused, RunSkipped, recordVars
  <2>2. Frame(w, t)
    BY <1>1, <1>3, <2>1 DEF Frame
  <2>3. Core(t)'
    BY <1>1, <1>3, <2>1, <2>2, RecordStepKeeps
  <2> QED BY <1>1, <2>2, <2>3
<1>5. CASE RunAborted(w, t)
  <2>1. UNCHANGED worker /\ SetStatus(t, "ABORTED")
    BY <1>5 DEF RunAborted
  <2>2. Frame(w, t)
    BY <1>1, <1>2, <2>1 DEF Frame
  <2>3. Core(t)'
    BY <1>1, <1>2, <1>3, <2>1, <2>2, RecordStepKeeps
  <2> QED BY <1>1, <2>2, <2>3
<1>6. CASE StartRun(w, t)
  <2>1. SetStatus(t, Claimed(t)) /\ transfer[t].status # "DONE"
    BY <1>6 DEF StartRun
  <2>2. /\ worker'[w].pc = PhaseOf(Claimed(t)) /\ worker'[w].job = t
        /\ \A v \in Workers \ {w} : worker'[v] = worker[v]
    BY <1>6 DEF StartRun
  <2>3. \/ Claimed(t) = "COPYING" /\ PhaseOf(Claimed(t)) = "copy"
        \/ /\ Claimed(t) = "VERIFIED" /\ PhaseOf(Claimed(t)) = "verify"
           /\ transfer[t].status = "VERIFIED"
        \/ /\ Claimed(t) = "SWITCHED" /\ PhaseOf(Claimed(t)) = "delete"
           /\ transfer[t].status = "SWITCHED"
    BY <1>3, <2>1 DEF Claimed, PhaseOf, Status, ACTIVE, RETRYABLE
  <2>4. Frame(w, t)
    BY <1>1, <1>2, <2>1, <2>2, <2>3 DEF Frame
  <2>5. Core(t)'
    BY <1>1, <1>2, <1>3, <2>1, <2>2, <2>3, <2>4, RecordStepKeeps
  <2> QED BY <1>1, <2>4, <2>5
<1> QED BY <1>4, <1>5, <1>6 DEF Deliver

-----------------------------------------------------------------------------
(* Requests and users                                                      *)

\* What the newest transfer gives its step to start from, and what the step
\* gives back for all of them.
LEMMA SafeStep ==
  ASSUME Safe, NEW w \in Workers, NEW t \in Transfers, Newest(t),
         worker[w].job \in {0, t}, Core(t) => Frame(w, t) /\ Core(t)'
  PROVE  Safe'
<1>1. Core(t)
  BY DEF Safe, TransferInv, Core
<1>2. OnlyNewestRuns' /\ \A u \in Transfers : Newest(u)' => u = t
  BY <1>1, FrameKeepsOrder DEF Safe
<1>3. \A u \in Transfers : TransferInv(u)'
  BY <1>1, <1>2 DEF TransferInv, Core
<1> QED BY <1>1, <1>2, <1>3 DEF Safe, Core

\* A new transfer starts from the store the project is in, with nothing else
\* of the project under way.
LEMMA CreateKeeps ==
  ASSUME Careful, TypeOK, JobsKnown, Safe, NEW t \in Transfers,
         NEW dest \in Stores, dest # pointer, Create(t, dest),
         UNCHANGED <<pointer, listed, stored, named, uploading, objects, worker>>
  PROVE  Safe'
<1> USE DEF TypeOK
<1>1. /\ \A u \in Transfers : Settled(u)
      /\ \A u \in Transfers : transfer[u].status = "NONE" <=> u >= t
  BY DEF Create, Careful
<1>2. /\ \A u \in Transfers \ {t} : /\ transfer'[u] = transfer[u]
                                   /\ queue'[u] = queue[u] /\ rows'[u] = rows[u]
      /\ transfer'[t] = [status |-> "PENDING", origin |-> pointer, target |-> dest,
                         snapshot |-> edit, stalls |-> 0]
      /\ rows'[t] = [k \in Keys |-> IF k \in listed THEN "PENDING" ELSE "NONE"]
  BY DEF Create
<1>3. /\ \A w \in Workers : worker[w].pc = "idle"
      /\ \A u \in Transfers : Running(u)' = {}
  BY <1>1 DEF Settled, Running, JobsKnown
<1>4. \A u \in Transfers : Newest(u)' => u = t
  <2>1. transfer'[t].status # "NONE"
    BY <1>2
  <2>2. \A u \in Transfers : u > t => transfer'[u].status = "NONE"
    BY <1>1, <1>2, BoundAssumption DEF Transfers
  <2> QED BY <2>1, <2>2, BoundAssumption DEF Newest, Transfers
<1>5. OnlyNewestRuns'
  <2>1. \A u \in Transfers \ {t} : Settled(u)'
    BY <1>1, <1>2, <1>3 DEF Settled, IsActive
  <2>2. \A u \in Transfers : u > t => transfer'[u].status = "NONE"
    BY <1>1, <1>2, BoundAssumption DEF Transfers
  <2>3. transfer'[t].status # "NONE"
    BY <1>2
  <2> QED BY <2>1, <2>2, <2>3 DEF OnlyNewestRuns
<1>6. /\ transfer'[t].origin = pointer /\ transfer'[t].target = dest
      /\ transfer'[t].status = "PENDING"
  BY <1>2
<1>7. ~HasCopied(t)' /\ ~HasVerified(t)' /\ ~HasSwitched(t)'
  BY <1>3, <1>6 DEF HasCopied, HasVerified, HasSwitched, Reached
<1>8. AtEitherEnd(t)' /\ RowsAdvance(t)'
  BY <1>6, <1>7 DEF AtEitherEnd, RowsAdvance
<1>9. RowsTellTheTruth(t)'
  BY <1>2 DEF RowsTellTheTruth
<1>10. NamesAreFresh'
  <2>1. Recorded(t)' \subseteq listed
    BY <1>2 DEF Recorded
  <2>2. \A u \in Transfers \ {t} : Recorded(u)' = Recorded(u)
    BY <1>2 DEF Recorded
  <2> QED BY <2>1, <2>2 DEF Safe, NamesAreFresh
<1>11. ManifestKept' /\ NoReadableCopyLost'
  BY <1>3 DEF ManifestKept, Safe, NoReadableCopyLost
<1> QED BY <1>4, <1>5, <1>8, <1>9, <1>10, <1>11 DEF Safe, TransferInv

\* Retrying rebuilds the manifest or reopens failed rows, of a transfer nobody
\* is executing.
LEMMA RetryKeeps ==
  ASSUME Careful, TypeOK, JobsKnown, Safe, NEW t \in Transfers,
         RetryAborted(t) \/ RetryFailed(t)
  PROVE  Safe'
<1> USE DEF TypeOK
<1>1. /\ Newest(t) /\ Settled(t)
      /\ UNCHANGED <<pointer, listed, stored, named, uploading, objects>>
      /\ \A u \in Transfers \ {t} : /\ transfer'[u] = transfer[u]
                                   /\ queue'[u] = queue[u] /\ rows'[u] = rows[u]
  BY DEF RetryAborted, RetryFailed, CarefulRetry, Careful, SetStatus, fileVars
<1>2. \A w \in Workers : worker'[w] = worker[w]
  BY <1>1 DEF RetryAborted, RetryFailed, Settled, Running
<1>3. /\ transfer'[t].status = "PENDING"
      /\ transfer'[t].origin = transfer[t].origin
      /\ transfer'[t].target = transfer[t].target
  BY DEF RetryAborted, RetryFailed, SetStatus, TransferState
<1>4. \A k \in Keys :
        \/ rows'[t][k] = rows[t][k]
        \/ rows'[t][k] = "PENDING" /\ (k \in listed \/ rows[t][k] = "FAILED")
        \/ rows'[t][k] = "NONE" /\ k \notin listed
  BY DEF RetryAborted, RetryFailed, ResetFailedRows
<1>5. \A u \in Transfers : Running(u)' = Running(u)
  BY <1>2 DEF Running
<1>6. \A u \in Transfers : transfer'[u].status = "NONE" <=> transfer[u].status = "NONE"
  BY <1>1, <1>3 DEF Newest
<1>7. OnlyNewestRuns' /\ \A u \in Transfers : Newest(u)' => u = t
  <2>1. \A u \in Transfers \ {t} : Settled(u)' <=> Settled(u)
    BY <1>1, <1>5 DEF Settled, IsActive
  <2>2. \A u \in Transfers : Newest(u)' <=> Newest(u)
    BY <1>6 DEF Newest
  <2>3. \A u \in Transfers : u > t => transfer[u].status = "NONE"
    BY <1>1 DEF Newest
  <2> QED BY <1>1, <1>6, <2>1, <2>2, <2>3, NewestIsUnique DEF OnlyNewestRuns, Safe, Newest
<1>8. ~HasCopied(t)' /\ ~HasVerified(t)' /\ ~HasSwitched(t)'
  BY <1>1, <1>3, <1>5 DEF Settled, HasCopied, HasVerified, HasSwitched, Reached
<1>9. AtEitherEnd(t)' /\ RowsAdvance(t)'
  BY <1>1, <1>3, <1>8 DEF AtEitherEnd, RowsAdvance, Safe, TransferInv
<1>10. RowsTellTheTruth(t)'
  <2>1. RowsTellTheTruth(t)
    BY <1>1 DEF Safe, TransferInv
  <2>2. ASSUME NEW k \in stored PROVE \/ rows'[t][k] = rows[t][k]
                                      \/ rows'[t][k] \in {"PENDING", "NONE"}
    BY <1>4
  <2> QED BY <1>1, <1>3, <2>1, <2>2 DEF RowsTellTheTruth
<1>11. NamesAreFresh'
  <2>1. Recorded(t)' \subseteq named
    BY <1>4 DEF Recorded, Safe, NamesAreFresh
  <2>2. \A u \in Transfers \ {t} : Recorded(u)' = Recorded(u)
    BY <1>1 DEF Recorded
  <2> QED BY <1>1, <2>1, <2>2 DEF Safe, NamesAreFresh
<1>12. ManifestKept'
  <2>1. ASSUME NEW w \in Workers, worker'[w].pc = "flip"
        PROVE  listed \subseteq Recorded(worker[w].job)'
    <3>1. worker[w].job # t /\ worker[w].job \in Transfers
      BY <1>1, <1>2, <2>1 DEF Settled, Running, JobsKnown
    <3> QED BY <1>1, <1>2, <2>1, <3>1 DEF Safe, ManifestKept, Recorded
  <2> QED BY <1>1, <1>2, <2>1 DEF ManifestKept, Recorded
<1>13. NoReadableCopyLost'
  BY <1>1 DEF Safe, NoReadableCopyLost
<1> QED BY <1>7, <1>9, <1>10, <1>11, <1>12, <1>13 DEF Safe, TransferInv

\* What the people in the project do keeps every file readable.
LEMMA UserKeeps ==
  ASSUME Careful, TypeOK, JobsKnown, Safe, UserStep
  PROVE  Safe'
<1> USE DEF TypeOK
<1>1. UNCHANGED <<pointer, transfer, rows, queue, worker, uploading>>
  BY DEF UserStep, UploadFile, BeginUpload, SaveUpload, DeriveObject, RemoveFile,
         EditProject, Careful, Safe, NamesAreFresh, recordVars
<1>2. OnlyNewestRuns' /\ \A t \in Transfers : Newest(t)' <=> Newest(t)
  BY <1>1 DEF Safe, OnlyNewestRuns, Newest, Settled, IsActive, Running
<1>3. \A t \in Transfers : Recorded(t)' = Recorded(t)
  BY <1>1 DEF Recorded
<1>4. ASSUME NEW t \in Transfers, Newest(t)
      PROVE  AtEitherEnd(t)' /\ RowsAdvance(t)'
  <2>1. AtEitherEnd(t) /\ RowsAdvance(t)
    BY <1>4 DEF Safe, TransferInv
  <2> QED BY <1>1, <2>1 DEF AtEitherEnd, RowsAdvance, HasCopied, HasVerified,
                            HasSwitched, Reached, Running, RowsIn
<1>t. \A t \in Transfers : Newest(t) => RowsTellTheTruth(t)
  BY DEF Safe, TransferInv
<1>n. /\ stored \subseteq listed /\ listed \subseteq named /\ uploading = {}
      /\ \A t \in Transfers : Recorded(t) \subseteq named
      /\ stored \subseteq objects[pointer]
  BY DEF Safe, NamesAreFresh, NoReadableCopyLost
<1> DEFINE Kept == /\ NamesAreFresh' /\ ManifestKept' /\ NoReadableCopyLost'
                   /\ \A t \in Transfers : Newest(t) => RowsTellTheTruth(t)'
<1>5. ASSUME NEW k \in Keys, NEW old \in SUBSET stored, UploadFile(k, old)
      PROVE  Kept
  <2>1. /\ k \notin named /\ named' = named \cup {k}
        /\ listed' = (listed \ old) \cup {k} /\ stored' = (stored \ old) \cup {k}
        /\ objects' = [objects EXCEPT ![pointer] = (@ \ old) \cup {k}]
        /\ \A w \in Workers : worker[w].pc # "flip"
    BY <1>5 DEF UploadFile, Listed, Flipping
  <2>2. NamesAreFresh' /\ ManifestKept' /\ NoReadableCopyLost'
    BY <1>1, <1>3, <1>n, <2>1 DEF NamesAreFresh, ManifestKept, NoReadableCopyLost
  <2>3. ASSUME NEW t \in Transfers, Newest(t) PROVE RowsTellTheTruth(t)'
    <3>1. rows[t][k] = "NONE"
      BY <1>n, <2>1 DEF Recorded
    <3>2. transfer[t].target \in Stores /\ RowsTellTheTruth(t)
      BY <1>t, <2>3 DEF TransferState
    <3> QED BY <1>1, <2>1, <3>1, <3>2 DEF RowsTellTheTruth
  <2> QED BY <2>2, <2>3
<1>d. ASSUME NEW k \in Keys, DeriveObject(k) PROVE Kept
  <2>1. /\ k \in listed /\ stored' = stored \cup {k} /\ UNCHANGED <<listed, named>>
        /\ objects' = [objects EXCEPT ![pointer] = @ \cup {k}]
        /\ \A t \in Transfers : rows[t][k] = "NONE"
    BY <1>d DEF DeriveObject, Careful
  <2>2. NamesAreFresh' /\ NoReadableCopyLost'
    BY <1>1, <1>3, <1>n, <2>1 DEF NamesAreFresh, NoReadableCopyLost
  <2>3. ManifestKept'
    BY <1>1, <1>3, <2>1 DEF Safe, ManifestKept, JobsKnown, Recorded
  <2>4. ASSUME NEW t \in Transfers, Newest(t) PROVE RowsTellTheTruth(t)'
    <3>1. transfer[t].target \in Stores /\ RowsTellTheTruth(t) /\ rows[t][k] = "NONE"
      BY <1>t, <2>1, <2>4 DEF TransferState
    <3> QED BY <1>1, <2>1, <3>1 DEF RowsTellTheTruth
  <2> QED BY <2>2, <2>3, <2>4
<1>6. ASSUME NEW k \in Keys, RemoveFile(k) PROVE Kept
  <2>1. /\ listed' = listed \ {k} /\ stored' = stored \ {k} /\ named' = named
        /\ objects' = [objects EXCEPT ![pointer] = @ \ {k}]
    BY <1>6 DEF RemoveFile
  <2>2. NamesAreFresh' /\ NoReadableCopyLost'
    BY <1>1, <1>3, <1>n, <2>1 DEF NamesAreFresh, NoReadableCopyLost
  <2>3. ManifestKept'
    BY <1>1, <1>3, <2>1 DEF Safe, ManifestKept, JobsKnown, Recorded
  <2>4. ASSUME NEW t \in Transfers, Newest(t) PROVE RowsTellTheTruth(t)'
    <3>1. transfer[t].target \in Stores /\ RowsTellTheTruth(t)
      BY <1>t, <2>4 DEF TransferState
    <3> QED BY <1>1, <2>1, <3>1 DEF RowsTellTheTruth
  <2> QED BY <2>2, <2>3, <2>4
<1>7. ASSUME EditProject PROVE Kept
  <2>1. UNCHANGED <<listed, stored, named, objects>>
    BY <1>7 DEF EditProject
  <2>2. NamesAreFresh' /\ ManifestKept' /\ NoReadableCopyLost'
    BY <1>1, <2>1, <1>3, <1>n DEF Safe, NamesAreFresh, ManifestKept, NoReadableCopyLost, Recorded
  <2>3. \A t \in Transfers : Newest(t) => RowsTellTheTruth(t)'
    BY <1>1, <1>t, <2>1 DEF RowsTellTheTruth
  <2> QED BY <2>2, <2>3
<1>8. Kept
  <2>1. ~\E k \in Keys, old \in SUBSET stored : BeginUpload(k) \/ SaveUpload(k, old)
    BY <1>n DEF BeginUpload, SaveUpload, Careful
  <2> QED BY <1>5, <1>d, <1>6, <1>7, <2>1 DEF UserStep
<1> QED BY <1>2, <1>4, <1>8 DEF Safe, TransferInv

\* Locks, switches, completion and the lease touch none of it.
LEMMA QuietKeeps ==
  ASSUME Safe,
         UNCHANGED <<pointer, listed, stored, named, uploading, objects,
                     transfer, rows, worker, queue>>
  PROVE  Safe'
<1>1. OnlyNewestRuns' /\ \A t \in Transfers : Newest(t)' <=> Newest(t)
  BY DEF Safe, OnlyNewestRuns, Newest, Settled, IsActive, Running
<1>2. ASSUME NEW t \in Transfers, TransferInv(t), Newest(t)
      PROVE  AtEitherEnd(t)' /\ RowsAdvance(t)' /\ RowsTellTheTruth(t)'
  BY <1>2 DEF TransferInv, AtEitherEnd, RowsAdvance, RowsTellTheTruth, HasCopied,
              HasVerified, HasSwitched, Reached, Running, RowsIn
<1>3. NamesAreFresh' /\ ManifestKept' /\ NoReadableCopyLost'
  BY DEF Safe, NamesAreFresh, ManifestKept, NoReadableCopyLost, Recorded
<1> QED BY <1>1, <1>2, <1>3 DEF Safe, TransferInv

\* Requests keep every file readable.
LEMMA RequestKeeps ==
  ASSUME Careful, TypeOK, JobsKnown, Safe, Request
  PROVE  Safe'
<1> USE DEF fileVars, adminVars, recordVars
<1>1. ASSUME NEW dest \in Stores, MoveProject(dest) PROVE Safe'
  <2>1. ASSUME NEW t \in Transfers, SameRoute(t, dest), Reuse(t) PROVE Safe'
    <3>1. Newest(t)
      <4>1. ~Settled(t)
        BY <2>1 DEF SameRoute, Settled
      <4> QED BY <4>1, BusyIsNewest DEF Safe
    <3>2. /\ \A u \in Transfers \ {t} : queue'[u] = queue[u]
          /\ UNCHANGED <<pointer, listed, stored, named, uploading, objects,
                         transfer, rows, worker>>
      BY <1>1, <2>1 DEF MoveProject, Reuse, TypeOK
    <3>3. OnlyNewestRuns' /\ \A u \in Transfers : Newest(u)' <=> Newest(u)
      <4>1. \A u \in Transfers : Newest(u)' <=> Newest(u)
        BY <3>2 DEF Newest
      <4>2. \A u \in Transfers \ {t} : Settled(u)' <=> Settled(u)
        BY <3>2 DEF Settled, IsActive, Running
      <4>3. \A u \in Transfers : u > t => transfer[u].status = "NONE"
        BY <3>1 DEF Newest
      <4> QED BY <3>1, <3>2, <4>1, <4>2, <4>3 DEF Safe, OnlyNewestRuns, Newest
    <3>4. ASSUME NEW u \in Transfers, TransferInv(u), Newest(u)
          PROVE  AtEitherEnd(u)' /\ RowsAdvance(u)' /\ RowsTellTheTruth(u)'
      BY <3>2, <3>4
      DEF TransferInv, AtEitherEnd, RowsAdvance, RowsTellTheTruth, HasCopied,
          HasVerified, HasSwitched, Reached, Running, RowsIn
    <3>5. NamesAreFresh' /\ ManifestKept' /\ NoReadableCopyLost'
      BY <3>2 DEF Safe, NamesAreFresh, ManifestKept, NoReadableCopyLost, Recorded
    <3> QED BY <3>3, <3>4, <3>5 DEF Safe, TransferInv
  <2>2. ASSUME NEW t \in Transfers, Create(t, dest) PROVE Safe'
    BY <1>1, <2>2, CreateKeeps DEF MoveProject
  <2> QED BY <1>1, <2>1, <2>2 DEF MoveProject
<1>2. ASSUME NEW source \in Sources, ScanProject(source) PROVE Safe'
  <2>1. source # pointer /\ source \in Stores
    BY <1>2, StoreFacts DEF ScanProject
  <2> QED BY <1>2, <2>1, CreateKeeps DEF ScanProject
<1>3. ASSUME NEW t \in Transfers, RetryAborted(t) \/ RetryFailed(t) PROVE Safe'
  BY <1>3, RetryKeeps
<1>4. ASSUME \/ \E on \in BOOLEAN : SetLock(on) \/ SetRunEnabled(on)
             \/ CompleteProject \/ ReopenProject
      PROVE  Safe'
  BY <1>4, QuietKeeps DEF SetLock, SetRunEnabled, CompleteProject, ReopenProject
<1> QED BY <1>1, <1>2, <1>3, <1>4 DEF Request

-----------------------------------------------------------------------------
(* The theorem                                                             *)

\* The initial state has no transfer and every file in the default storage.
LEMMA SafeInit == Init => Safe
<1> SUFFICES ASSUME Init PROVE Safe
  OBVIOUS
<1>1. \A t \in Transfers : transfer[t].status = "NONE" /\ queue[t] = 0 /\ Running(t) = {}
  BY BoundAssumption DEF Init, NoTransfer, IdleWorker, Running, Transfers
<1>2. OnlyNewestRuns /\ \A t \in Transfers : ~Newest(t)
  BY <1>1 DEF OnlyNewestRuns, Settled, IsActive, ACTIVE, Newest
<1>3. NamesAreFresh
  <2>1. \A t \in Transfers : Recorded(t) = {}
    BY DEF Init, NoRows, Recorded
  <2> QED BY <2>1 DEF Init, NamesAreFresh
<1>4. ManifestKept /\ NoReadableCopyLost
  BY StoreFacts DEF Init, ManifestKept, NoReadableCopyLost, IdleWorker
<1> QED BY <1>2, <1>3, <1>4 DEF Safe, TransferInv

\* Every step keeps it.
LEMMA SafeNext ==
  ASSUME Careful, TypeOK, JobsKnown, Safe, [Next]_vars
  PROVE  Safe'
<1>1. CASE Request
  BY <1>1, RequestKeeps
<1>2. CASE UserStep
  BY <1>2, UserKeeps
<1>3. ASSUME NEW w \in Workers, NEW t \in Transfers, Deliver(w, t) PROVE Safe'
  <2>1. worker[w].job = 0
    BY <1>3 DEF Deliver, RunPaused, RunSkipped, RunAborted, StartRun, Take,
                JobsKnown
  <2>2. ~Settled(t)
    BY <1>3 DEF Deliver, RunPaused, RunSkipped, RunAborted, StartRun, Take, Settled
  <2>3. Newest(t)
    BY <2>2, BusyIsNewest DEF Safe
  <2> QED BY <1>3, <2>1, <2>3, DeliverKeeps, SafeStep
<1>4. ASSUME NEW w \in Workers, RunStep(w) \/ Crash(w) PROVE Safe'
  <2> DEFINE job == worker[w].job
  <2>1. PICK t \in Transfers : t = job
    BY <1>4, RunStepBusy DEF JobsKnown, Crash
  <2>2. Newest(t)
    <3>1. ~Settled(t)
      BY <2>1 DEF Settled, Running
    <3> QED BY <3>1, BusyIsNewest DEF Safe
  <2>3. ASSUME Core(t) PROVE Frame(w, t) /\ Core(t)'
    BY <1>4, <2>1, <2>2, <2>3, CopyObjectKeeps, RecordActionKeeps,
       VerifyObjectsKeeps, FlipPointerKeeps, DeleteKeeps DEF RunStep
  <2> QED BY <2>1, <2>2, <2>3, SafeStep
<1>5. CASE ExpireLease \/ UNCHANGED vars
  BY <1>5, QuietKeeps DEF ExpireLease, vars, fileVars, adminVars, recordVars
<1> QED BY <1>1, <1>2, <1>3, <1>4, <1>5 DEF Next

\* Whatever crashes, fails or is queued twice: as long as nobody starts one
\* transfer beside another and no upload straddles a switch, every
\* acknowledged file can be read where the project's pointer says it is.
THEOREM Readable ==
  ASSUME Careful
  PROVE  Spec => []NoReadableCopyLost
<1>1. Init => IInv
  <2>1. Init => JobsKnown
    BY DEF Init, JobsKnown, IdleWorker
  <2> QED BY <2>1, TypeInit, SafeInit DEF IInv
<1>2. IInv /\ [Next]_vars => IInv'
  BY TypeStep, SafeNext DEF IInv
<1>3. IInv => NoReadableCopyLost
  BY DEF IInv, Safe
<1> QED BY <1>1, <1>2, <1>3, PTL DEF Spec

-----------------------------------------------------------------------------
(* Moving is invisible                                                     *)

\* A set of keys with at most one element is empty or a singleton.
LEMMA AtMostOne ==
  ASSUME NEW S \in SUBSET Keys, NEW old \in SUBSET S, Cardinality(old) <= 1
  PROVE  old = {} \/ \E j \in S : old = {j}
<1>1. IsFiniteSet(old)
  BY KeyAssumption, FS_Subset
<1>2. SUFFICES ASSUME NEW i \in old, NEW j \in old, i # j PROVE FALSE
  OBVIOUS
<1>3. Cardinality({i, j}) = 2 /\ IsFiniteSet({i, j})
  <2>1. Cardinality({i}) = 1 /\ IsFiniteSet({i})
    BY FS_Singleton
  <2>2. {i, j} = {i} \cup {j} /\ j \notin {i}
    BY <1>2
  <2>3. /\ IsFiniteSet({i} \cup {j})
        /\ Cardinality({i} \cup {j}) =
             IF j \in {i} THEN Cardinality({i}) ELSE Cardinality({i}) + 1
    BY ONLY <2>1, FS_AddElement, Zenon
  <2> QED BY <2>1, <2>2, <2>3
<1>4. Cardinality({i, j}) <= Cardinality(old)
  BY <1>1, <1>2, FS_Subset
<1> QED BY <1>1, <1>3, <1>4, FS_CardinalityType

\* Every step of a transfer is, for those who read the files, either the
\* relocation of the project or nothing at all.
LEMMA StepRefines ==
  ASSUME Careful, IInv, IInv', [Next]_vars
  PROVE  [Files!Next]_<<pointer, stored \cap objects[pointer]>>
<1> DEFINE Goal == [Files!Next]_<<pointer, stored \cap objects[pointer]>>
<1>0. /\ stored \cap objects[pointer] = stored
      /\ stored' \cap objects'[pointer'] = stored'
      /\ pointer \in Stores /\ pointer' \in Stores /\ uploading = {}
      /\ stored \subseteq named /\ stored \in SUBSET Keys
  BY DEF IInv, Safe, NoReadableCopyLost, TypeOK, NamesAreFresh
<1>q. UNCHANGED <<pointer, stored>> => Goal
  BY <1>0
<1>1. CASE Request
  <2>1. UNCHANGED <<pointer, stored>>
    BY <1>1 DEF Request, MoveProject, ScanProject, RetryAborted, RetryFailed,
                SetLock, SetRunEnabled, CompleteProject, ReopenProject, fileVars
  <2> QED BY <2>1, <1>q
<1>2. CASE UserStep
  <2>1. ASSUME NEW k \in Keys, NEW old \in SUBSET stored, UploadFile(k, old)
        PROVE  Goal
    <3>1. /\ k \in Keys \ stored /\ stored' = (stored \ old) \cup {k}
          /\ UNCHANGED pointer /\ Cardinality(old) <= 1
      BY <1>0, <2>1 DEF UploadFile, Listed
    <3>2. CASE old = {}
      <4>1. Files!Upload(k)
        BY <1>0, <3>1, <3>2 DEF Files!Upload
      <4> QED BY <4>1 DEF Files!Next
    <3>3. ASSUME NEW j \in stored, old = {j} PROVE Goal
      <4>1. Files!Replace(k, j)
        BY <1>0, <3>1, <3>3 DEF Files!Replace
      <4> QED BY <1>0, <4>1 DEF Files!Next
    <3>4. old = {} \/ \E j \in stored : old = {j}
      BY <1>0, <3>1, AtMostOne
    <3> QED BY <3>2, <3>3, <3>4
  <2>2. ASSUME NEW k \in Keys, RemoveFile(k) PROVE Goal
    <3>1. stored' = stored \ {k} /\ UNCHANGED pointer
      BY <2>2 DEF RemoveFile
    <3>2. CASE k \in stored
      <4>1. Files!Remove(k)
        BY <1>0, <3>1, <3>2 DEF Files!Remove
      <4> QED BY <4>1 DEF Files!Next
    <3>3. CASE k \notin stored
      BY <1>q, <3>1, <3>3
    <3> QED BY <3>2, <3>3
  <2>3. ASSUME NEW k \in Keys, DeriveObject(k) PROVE Goal
    <3>1. Files!Upload(k)
      BY <1>0, <2>3 DEF DeriveObject, Files!Upload
    <3> QED BY <3>1 DEF Files!Next
  <2>4. ASSUME NEW k \in Keys, NEW old \in SUBSET stored,
               BeginUpload(k) \/ SaveUpload(k, old)
        PROVE  Goal
    BY <1>0, <2>4 DEF BeginUpload, SaveUpload, Careful
  <2>5. CASE EditProject
    BY <1>q, <2>5 DEF EditProject
  <2> QED BY <1>2, <2>1, <2>2, <2>3, <2>4, <2>5 DEF UserStep
<1>3. ASSUME NEW w \in Workers, NEW t \in Transfers, Deliver(w, t) PROVE Goal
  <2>1. UNCHANGED <<pointer, stored>>
    BY <1>3 DEF Deliver, RunPaused, RunSkipped, RunAborted, StartRun, fileVars
  <2> QED BY <2>1, <1>q
<1>4. ASSUME NEW w \in Workers, FlipPointer(w) PROVE Goal
  <2>1. stored' = stored
    BY <1>4 DEF FlipPointer, fileVars
  <2>2. CASE pointer' = pointer
    BY <1>q, <2>1, <2>2
  <2>3. CASE pointer' # pointer
    <3>1. Files!Relocate(pointer')
      BY <1>0, <2>1, <2>3 DEF Files!Relocate
    <3> QED BY <1>0, <3>1 DEF Files!Next
  <2> QED BY <2>2, <2>3
<1>5. ASSUME NEW w \in Workers, RunStep(w) \/ Crash(w) PROVE Goal
  <2>1. CASE FlipPointer(w)
    BY <1>4, <2>1
  <2>2. CASE ~FlipPointer(w)
    <3>1. UNCHANGED <<pointer, stored>>
      BY <1>5, <2>2
      DEF RunStep, Crash, CopyObject, CopyFailed, CopyUnfinished, CopyFinished,
          VerifyObjects, AcquireLease, CheckManifest, MarkSwitched,
          DeleteSourceObjects, SettleRun, fileVars
    <3> QED BY <3>1, <1>q
  <2> QED BY <2>1, <2>2
<1>6. CASE ExpireLease \/ UNCHANGED vars
  <2>1. UNCHANGED <<pointer, stored>>
    BY <1>6 DEF ExpireLease, vars, fileVars
  <2> QED BY <2>1, <1>q
<1> QED BY <1>1, <1>2, <1>3, <1>5, <1>6 DEF Next

\* Under careful use the storage pool implements files that stay readable
\* wherever they are kept, whatever else goes wrong.
THEOREM Refines ==
  ASSUME Careful
  PROVE  Spec => ImplementsProjectFiles
<1>1. Init => IInv
  <2>1. Init => JobsKnown
    BY DEF Init, JobsKnown, IdleWorker
  <2> QED BY <2>1, TypeInit, SafeInit DEF IInv
<1>2. IInv /\ [Next]_vars => IInv'
  BY TypeStep, SafeNext DEF IInv
<1>3. Init => Files!Init
  BY DEF Init, Files!Init
<1>4. IInv /\ IInv' /\ [Next]_vars
        => [Files!Next]_<<pointer, stored \cap objects[pointer]>>
  BY StepRefines
<1> QED BY <1>1, <1>2, <1>3, <1>4, PTL DEF Spec, ImplementsProjectFiles, Files!Spec

-----------------------------------------------------------------------------
(* A transfer that ends without a residue note has emptied its origin      *)
(*                                                                         *)
(* What a row says of the origin has to be true as well: a row that is     *)
(* SOURCE_DELETED or SKIPPED names an object the origin does not have, and *)
(* nobody puts it there again, as names are fresh and copies go to the     *)
(* other end.  MAX_STALLS has to be at least two: with one, the first      *)
(* residue is given up with a counter that still reads zero.               *)

GoneRows == {"SOURCE_DELETED", "SKIPPED"}

Drained(t) ==
  /\ \A k \in RowsIn(t, GoneRows) : k \notin objects[transfer[t].origin]
  /\ transfer[t].status = "DONE" /\ transfer[t].stalls = 0
       => RowsIn(t, {"VERIFIED"}) = {}

DrainInv == \A t \in Transfers : Newest(t) => Drained(t)

\* A step that changes neither rows nor objects, and ends nothing.
LEMMA DrainedRecord ==
  ASSUME NEW t \in Transfers, Drained(t), UNCHANGED <<rows, objects>>,
         transfer'[t].origin = transfer[t].origin,
         transfer'[t].status = "DONE" /\ transfer'[t].stalls = 0
           => transfer[t].status = "DONE" /\ transfer[t].stalls = 0
  PROVE  Drained(t)'
BY DEF Drained, RowsIn

\* What a worker's step does to its transfer's rows, origin and document.
LEMMA DrainedRun ==
  ASSUME MaxStalls > 1, TypeOK, JobsKnown, NEW w \in Workers, NEW t \in Transfers,
         t = worker[w].job, Core(t), Drained(t), RunStep(w) \/ Crash(w)
  PROVE  Drained(t)'
<1> USE DEF TypeOK, fileVars, adminVars, recordVars
<1>s. ASSUME NEW status, SetStatus(t, status)
      PROVE  /\ transfer'[t].status = status
             /\ transfer'[t].origin = transfer[t].origin
  BY <1>s DEF SetStatus, TransferState
<1>l. ASSUME NEW stalls, SetStalls(t, stalls)
      PROVE  /\ transfer'[t].status = transfer[t].status
             /\ transfer'[t].stalls = stalls
             /\ transfer'[t].origin = transfer[t].origin
  BY <1>l DEF SetStalls, TransferState
<1>f. ASSUME NEW stalls, Finish(t, stalls)
      PROVE  /\ transfer'[t].status = "DONE" /\ transfer'[t].stalls = stalls
             /\ transfer'[t].origin = transfer[t].origin
  BY <1>f DEF Finish, TransferState
<1>e. transfer[t].origin # transfer[t].target
  BY DEF Core, AtEitherEnd
<1>d. transfer[t].status = "DONE" => RowsIn(t, {"PENDING", "COPIED", "FAILED"}) = {}
  BY DEF Core, RowsAdvance, HasVerified
<1>1. ASSUME NEW k \in Keys, CopyObject(w, k) PROVE Drained(t)'
  <2>1. UNCHANGED transfer /\ objects'[transfer[t].origin] = objects[transfer[t].origin]
    BY <1>1, <1>e DEF CopyObject, recordVars, TransferState
  <2>2. PICK result \in {"SKIPPED", "COPIED", "FAILED"} :
          /\ MarkRow(w, k, result)
          /\ result = "SKIPPED" => k \notin objects[transfer[t].origin]
    BY <1>1 DEF CopyObject
  <2>3. \A j \in Keys : \/ rows'[t][j] = rows[t][j]
                        \/ j = k /\ rows[t][j] = "PENDING" /\ rows'[t][j] = result
    <3>1. \/ rows' = rows
          \/ rows[t][k] = "PENDING" /\ rows' = [rows EXCEPT ![t][k] = result]
      BY <2>2 DEF MarkRow
    <3>2. CASE rows' = rows
      BY <3>2
    <3>3. CASE rows[t][k] = "PENDING" /\ rows' = [rows EXCEPT ![t][k] = result]
      BY <3>3
    <3> QED BY <3>1, <3>2, <3>3
  <2>4. RowsIn(t, {"VERIFIED"})' = RowsIn(t, {"VERIFIED"})
    BY <2>2, <2>3 DEF RowsIn
  <2>5. \A j \in RowsIn(t, GoneRows)' : j \notin objects[transfer[t].origin]
    BY <2>2, <2>3 DEF RowsIn, GoneRows, Drained
  <2> QED BY <2>1, <2>4, <2>5 DEF Drained
<1>2. CASE CopyUnfinished(w)
  <2>1. transfer[t].status # "DONE"
    BY <1>2, <1>d DEF CopyUnfinished, RowsIn
  <2>2. /\ UNCHANGED <<rows, objects>>
        /\ SetStatus(t, "FAILED") \/ \E stalls : SetStalls(t, stalls)
    BY <1>2 DEF CopyUnfinished
  <2> QED BY <2>1, <2>2, <1>s, <1>l, DrainedRecord
<1>3. CASE \/ CopyFailed(w) \/ CopyFinished(w) \/ AcquireLease(w)
           \/ CheckManifest(w) \/ FlipPointer(w) \/ MarkSwitched(w)
  <2>1. UNCHANGED <<rows, objects>>
    BY <1>3 DEF CopyFailed, CopyFinished, AcquireLease, CheckManifest,
                FlipPointer, MarkSwitched
  <2>2. \/ UNCHANGED transfer
        \/ \E status \in {"FAILED", "VERIFIED", "ABORTED", "SWITCHED"} :
             SetStatus(t, status)
    BY <1>3 DEF CopyFailed, CopyFinished, AcquireLease, CheckManifest,
                FlipPointer, MarkSwitched
  <2> QED BY <2>1, <2>2, <1>s, DrainedRecord
<1>4. CASE VerifyObjects(w)
  <2>1. /\ rows' = [rows EXCEPT ![t] = [k \in Keys |->
             IF rows[t][k] # "COPIED" THEN rows[t][k]
             ELSE IF Present(t, k) THEN "VERIFIED" ELSE "FAILED"]]
        /\ UNCHANGED objects
        /\ SetStatus(t, "FAILED") \/ UNCHANGED transfer
    BY <1>4 DEF VerifyObjects
  <2>2. \A k \in Keys : rows'[t][k] = IF rows[t][k] # "COPIED" THEN rows[t][k]
                            ELSE IF Present(t, k) THEN "VERIFIED" ELSE "FAILED"
    BY <2>1
  <2>3. transfer'[t].origin = transfer[t].origin
    BY <2>1, <1>s
  <2>4. RowsIn(t, GoneRows)' = RowsIn(t, GoneRows)
    BY <2>2 DEF RowsIn, GoneRows
  <2>5. ASSUME transfer'[t].status = "DONE", transfer'[t].stalls = 0
        PROVE  RowsIn(t, {"VERIFIED"})' = {}
    <3>1. UNCHANGED transfer
      BY <2>1, <2>5, <1>s
    <3>2. RowsIn(t, {"VERIFIED"})' = RowsIn(t, {"VERIFIED"})
      BY <2>2, <2>5, <3>1, <1>d DEF RowsIn
    <3> QED BY <2>5, <3>1, <3>2 DEF Drained
  <2> QED BY <2>1, <2>3, <2>4, <2>5 DEF Drained
<1>5. CASE DeleteSourceObjects(w)
  <2> DEFINE job == worker[w].job
  <2>1. PICK gone \in SUBSET RowsIn(job, {"VERIFIED"}) :
          /\ objects' = [objects EXCEPT ![transfer[job].origin] = @ \ gone]
          /\ rows' = [rows EXCEPT ![job] = [k \in Keys |->
               IF k \in gone THEN "SOURCE_DELETED" ELSE rows[job][k]]]
    BY <1>5, ZenonT(60) DEF DeleteSourceObjects
  <2>2. UNCHANGED transfer
    BY <1>5 DEF DeleteSourceObjects
  <2>3. /\ objects'[transfer[t].origin] = objects[transfer[t].origin] \ gone
        /\ \A k \in Keys : rows'[t][k] =
             IF k \in gone THEN "SOURCE_DELETED" ELSE rows[t][k]
    BY <2>1 DEF TransferState
  <2> QED BY <2>2, <2>3 DEF Drained, RowsIn, GoneRows
<1>6. CASE SettleRun(w)
  <2>1. UNCHANGED <<rows, objects>>
    BY <1>6 DEF SettleRun
  <2>2. CASE Residue(t) = {} /\ Finish(t, 0)
    BY <2>1, <2>2, <1>f DEF Drained, Residue, RowsIn
  <2>3. CASE OneMoreStall(t) >= MaxStalls /\ Finish(t, transfer[t].stalls)
    <3>1. transfer[t].stalls # 0
      BY <2>3, BoundAssumption DEF OneMoreStall
    <3> QED BY <2>1, <2>3, <3>1, <1>f, DrainedRecord
  <2>4. CASE SetStalls(t, OneMoreStall(t))
    <3>1. OneMoreStall(t) # 0
      BY DEF OneMoreStall, TransferState
    <3> QED BY <2>1, <2>4, <3>1, <1>l, DrainedRecord
  <2> QED BY <1>6, <2>2, <2>3, <2>4 DEF SettleRun
<1>7. CASE Crash(w)
  <2>1. UNCHANGED <<rows, transfer>>
    BY <1>7 DEF Crash
  <2>2. PICK gone : objects' = [objects EXCEPT ![transfer[t].origin]
                                  = objects[transfer[t].origin] \ gone]
    BY <1>7 DEF Crash
  <2>3. objects'[transfer[t].origin] \subseteq objects[transfer[t].origin]
    BY <2>2 DEF TransferState
  <2> QED BY <2>1, <2>3 DEF Drained, RowsIn
<1> QED BY <1>1, <1>2, <1>3, <1>4, <1>5, <1>6, <1>7 DEF RunStep

\* The newest transfer's manifest is new, or rebuilt, or gets its failed rows
\* another try.
LEMMA DrainedRequest ==
  ASSUME Careful, IInv, DrainInv, Request
  PROVE  DrainInv'
<1> USE DEF IInv, TypeOK, fileVars, adminVars, recordVars
<1>1. ASSUME NEW t \in Transfers, NEW dest \in Stores, Create(t, dest)
      PROVE  DrainInv'
  <2>1. /\ \A u \in Transfers : transfer[u].status = "NONE" <=> u >= t
        /\ transfer' = [transfer EXCEPT ![t] =
             [status |-> "PENDING", origin |-> pointer, target |-> dest,
              snapshot |-> edit, stalls |-> 0]]
        /\ rows' = [rows EXCEPT ![t] =
             [k \in Keys |-> IF k \in listed THEN "PENDING" ELSE "NONE"]]
    BY <1>1 DEF Create
  <2>2. /\ transfer'[t].status = "PENDING"
        /\ \A k \in Keys : rows'[t][k] \in {"PENDING", "NONE"}
    BY <2>1
  <2>3. Drained(t)'
    BY <2>2 DEF Drained, RowsIn, GoneRows
  <2>4. \A u \in Transfers : Newest(u)' => u = t
    BY <2>1, <2>2, BoundAssumption DEF Newest, Transfers
  <2> QED BY <2>3, <2>4 DEF DrainInv
<1>2. ASSUME NEW t \in Transfers, RetryAborted(t) \/ RetryFailed(t)
      PROVE  DrainInv'
  <2>1. Newest(t) /\ UNCHANGED objects
    BY <1>2 DEF RetryAborted, RetryFailed, CarefulRetry, Careful
  <2>2. /\ transfer'[t].status = "PENDING"
        /\ transfer'[t].origin = transfer[t].origin
        /\ \A u \in Transfers \ {t} : transfer'[u] = transfer[u]
        /\ \A k \in Keys : rows'[t][k] \in {"PENDING", "NONE", rows[t][k]}
    <3>1. CASE RetryAborted(t)
      <4>1. /\ transfer' = [transfer EXCEPT ![t].status = "PENDING",
                              ![t].snapshot = edit, ![t].stalls = 0]
            /\ rows' = [rows EXCEPT ![t] =
                 [k \in Keys |-> IF k \in listed THEN "PENDING" ELSE "NONE"]]
        BY <3>1 DEF RetryAborted
      <4>2. \A k \in Keys : rows'[t][k] \in {"PENDING", "NONE", rows[t][k]}
        BY <4>1
      <4> QED BY <4>1, <4>2 DEF TransferState
    <3>2. CASE RetryFailed(t)
      <4>1. /\ transfer' = [transfer EXCEPT ![t].status = "PENDING"]
            /\ rows' = [rows EXCEPT ![t] = ResetFailedRows(t)]
        BY <3>2 DEF RetryFailed, SetStatus
      <4>2. \A k \in Keys : rows'[t][k] \in {"PENDING", "NONE", rows[t][k]}
        BY <4>1 DEF ResetFailedRows
      <4> QED BY <4>1, <4>2 DEF TransferState
    <3> QED BY <1>2, <3>1, <3>2
  <2>3. Drained(t)'
    BY <2>1, <2>2 DEF Drained, DrainInv, RowsIn, GoneRows
  <2>4. transfer[t].status # "NONE" /\ \A u \in Transfers : Newest(u)' => Newest(u)
    BY <2>1, <2>2 DEF Newest
  <2>5. \A u \in Transfers : Newest(u)' => u = t
    BY <2>1, <2>4, NewestIsUnique
  <2> QED BY <2>3, <2>5 DEF DrainInv
<1>3. ASSUME UNCHANGED <<transfer, rows, objects>> PROVE DrainInv'
  BY <1>3 DEF DrainInv, Drained, Newest, RowsIn
<1>4. ASSUME NEW dest \in Stores, MoveProject(dest) PROVE DrainInv'
  BY <1>1, <1>3, <1>4 DEF MoveProject, Reuse
<1>5. ASSUME NEW source \in Sources, ScanProject(source) PROVE DrainInv'
  BY <1>1, <1>5, StoreFacts DEF ScanProject
<1>6. CASE \/ \E on \in BOOLEAN : SetLock(on) \/ SetRunEnabled(on)
           \/ CompleteProject \/ ReopenProject
  BY <1>3, <1>6 DEF SetLock, SetRunEnabled, CompleteProject, ReopenProject
<1> QED BY <1>2, <1>4, <1>5, <1>6 DEF Request

\* Users put objects with names of their own into a store, and thumbnails only
\* where no manifest lists them.
LEMMA DrainedUser ==
  ASSUME Careful, IInv, DrainInv, UserStep
  PROVE  DrainInv'
<1> USE DEF IInv, TypeOK, fileVars, adminVars, recordVars
<1>1. UNCHANGED <<transfer, rows>> /\ uploading = {}
  BY DEF UserStep, UploadFile, BeginUpload, SaveUpload, DeriveObject,
         RemoveFile, EditProject, Safe, NamesAreFresh
<1>2. \A t \in Transfers : \A k \in Keys :
        rows[t][k] # "NONE" =>
          \A s \in Stores : k \in objects'[s] => k \in objects[s]
  <2>a. \A t \in Transfers : Recorded(t) \subseteq named
    BY DEF Safe, NamesAreFresh
  <2>1. ASSUME NEW j \in Keys, NEW old \in SUBSET stored, UploadFile(j, old)
        PROVE  /\ \A t \in Transfers : rows[t][j] = "NONE"
               /\ \A s \in Stores : objects'[s] \subseteq objects[s] \cup {j}
    BY <2>1, <2>a DEF UploadFile, Recorded
  <2>2. ASSUME NEW j \in Keys, DeriveObject(j)
        PROVE  /\ \A t \in Transfers : rows[t][j] = "NONE"
               /\ \A s \in Stores : objects'[s] \subseteq objects[s] \cup {j}
    BY <2>2 DEF DeriveObject, Careful
  <2>3. ASSUME NEW j \in Keys, RemoveFile(j)
        PROVE  \A s \in Stores : objects'[s] \subseteq objects[s]
    BY <2>3 DEF RemoveFile
  <2>4. \A k \in Keys : ~BeginUpload(k) /\ \A old : ~SaveUpload(k, old)
    BY <1>1 DEF BeginUpload, SaveUpload, Careful
  <2>5. CASE EditProject
    BY <2>5 DEF EditProject
  <2> QED BY <2>1, <2>2, <2>3, <2>4, <2>5 DEF UserStep
<1>3. ASSUME NEW t \in Transfers, Newest(t) PROVE Drained(t)'
  <2>1. Drained(t) /\ transfer[t].origin \in Stores
    BY <1>3 DEF DrainInv, TransferState
  <2> QED BY <1>1, <1>2, <2>1 DEF Drained, RowsIn, GoneRows
<1> QED BY <1>1, <1>3 DEF DrainInv, Newest

\* Every step keeps it.
LEMMA DrainStep ==
  ASSUME Careful, MaxStalls > 1, IInv, DrainInv, [Next]_vars
  PROVE  DrainInv'
<1> USE DEF IInv
<1>1. ASSUME NEW w \in Workers, NEW t \in Transfers, Deliver(w, t)
      PROVE  DrainInv'
  <2>1. ~Settled(t)
    BY <1>1 DEF Deliver, RunPaused, RunSkipped, RunAborted, StartRun, Take, Settled
  <2>2. Newest(t) /\ OnlyNewestRuns
    BY <2>1, BusyIsNewest DEF Safe
  <2>3. Core(t)
    BY <2>2 DEF Safe, TransferInv, Core
  <2>4. worker[w].job = 0 /\ Frame(w, t)
    BY <1>1, <2>2, <2>3, DeliverKeeps
  <2>5. \A u \in Transfers : Newest(u)' => u = t
    BY <2>2, <2>4, FrameKeepsOrder
  <2>6. /\ UNCHANGED <<rows, objects>>
        /\ \/ UNCHANGED transfer
           \/ /\ transfer[t].status # "DONE"
              /\ \E status \in {"ABORTED", Claimed(t)} : SetStatus(t, status)
    BY <1>1 DEF Deliver, RunPaused, RunSkipped, RunAborted, StartRun, recordVars
  <2>7. Claimed(t) = "DONE" => transfer[t].status = "DONE"
    BY DEF Claimed
  <2>8. Drained(t)'
    <3>1. CASE UNCHANGED transfer
      BY <2>2, <2>6, <3>1, DrainedRecord DEF DrainInv
    <3>2. ASSUME NEW status \in {"ABORTED", Claimed(t)}, SetStatus(t, status),
                 transfer[t].status # "DONE"
          PROVE  Drained(t)'
      <4>1. /\ transfer'[t].status = status
            /\ transfer'[t].origin = transfer[t].origin
        BY <3>2 DEF SetStatus, TypeOK, TransferState
      <4> QED BY <2>2, <2>6, <2>7, <3>2, <4>1, DrainedRecord DEF DrainInv
    <3> QED BY <2>6, <3>1, <3>2
  <2> QED BY <2>5, <2>8 DEF DrainInv
<1>2. ASSUME NEW w \in Workers, RunStep(w) \/ Crash(w) PROVE DrainInv'
  <2> DEFINE job == worker[w].job
  <2>1. PICK t \in Transfers : t = job
    BY <1>2, RunStepBusy DEF JobsKnown, Crash
  <2>2. Newest(t) /\ OnlyNewestRuns
    <3>1. ~Settled(t)
      BY <2>1 DEF Settled, Running
    <3> QED BY <3>1, BusyIsNewest DEF Safe
  <2>3. Core(t)
    BY <2>2 DEF Safe, TransferInv, Core
  <2>4. Frame(w, t)
    BY <1>2, <2>1, <2>2, <2>3, CopyObjectKeeps, RecordActionKeeps,
       VerifyObjectsKeeps, FlipPointerKeeps, DeleteKeeps DEF RunStep
  <2>5. \A u \in Transfers : Newest(u)' => u = t
    BY <2>1, <2>2, <2>4, FrameKeepsOrder
  <2>6. Drained(t)'
    BY <1>2, <2>1, <2>2, <2>3, DrainedRun DEF DrainInv
  <2> QED BY <2>5, <2>6 DEF DrainInv
<1>3. CASE ExpireLease \/ UNCHANGED vars
  BY <1>3 DEF ExpireLease, vars, recordVars, DrainInv, Drained, Newest, RowsIn
<1> QED BY <1>1, <1>2, <1>3, DrainedRequest, DrainedUser DEF Next

\* Under careful use, a transfer that is done without a residue note has left
\* nothing of its manifest at its origin, whatever crashed, raised or reported
\* a success it did not have on the way.
THEOREM Emptied ==
  ASSUME Careful, MaxStalls > 1
  PROVE  Spec => []DoneMeansDrained
<1>1. Init => IInv /\ DrainInv
  <2>1. Init => JobsKnown
    BY DEF Init, JobsKnown, IdleWorker
  <2>2. Init => DrainInv
    BY DEF Init, DrainInv, Newest, NoTransfer
  <2> QED BY <2>1, <2>2, TypeInit, SafeInit DEF IInv
<1>2. IInv /\ DrainInv /\ [Next]_vars => IInv' /\ DrainInv'
  BY TypeStep, SafeNext, DrainStep DEF IInv
<1>3. IInv /\ DrainInv => DoneMeansDrained
  <2> SUFFICES ASSUME IInv, DrainInv, NEW t \in Transfers, Newest(t),
                      transfer[t].status = "DONE", transfer[t].stalls = 0,
                      NEW k \in Recorded(t)
               PROVE  k \notin objects[transfer[t].origin]
    BY DEF DoneMeansDrained
  <2>1. RowsIn(t, {"PENDING", "COPIED", "FAILED"}) = {}
    BY DEF IInv, Safe, TransferInv, RowsAdvance, HasVerified
  <2>2. rows[t][k] \in GoneRows
    BY <2>1 DEF DrainInv, Drained, Recorded, RowsIn, GoneRows, IInv, TypeOK, RowStatus
  <2> QED BY <2>2 DEF DrainInv, Drained, RowsIn, Recorded
<1> QED BY <1>1, <1>2, <1>3, PTL DEF Spec

-----------------------------------------------------------------------------
(* A locked or completed project stays where it is                         *)
(*                                                                         *)
(* Without practices a transfer has one message or one worker, never both: *)
(* nobody queues it again before it has come to rest.  So the guards of    *)
(* the lock and of the completion, which ask the documents only, are       *)
(* enough to know that no worker is left that could move the pointer.      *)

\* One transfer: one message or one worker, and neither once it is inactive.
Alone(t) ==
  /\ queue[t] <= 1
  /\ \A v, w \in Running(t) : v = w
  /\ Running(t) # {} => queue[t] = 0
  /\ ~IsActive(t) => queue[t] = 0 /\ Running(t) = {}

\* What a locked and what a completed project can count on.
Guarded ==
  /\ locked => NothingActive
  /\ ~working => \A w \in Workers : worker[w].pc = "idle"

QuietInv == (\A t \in Transfers : Alone(t)) /\ Guarded

\* What a step of a busy worker may do to its transfer: go on with it while it
\* is active, or let go of it with one more message at most.
LEMMA RunStepMoves ==
  ASSUME TypeOK, JobsKnown, NEW w \in Workers, NEW t \in Transfers,
         t = worker[w].job, IsActive(t), RunStep(w) \/ Crash(w)
  PROVE  /\ UNCHANGED <<locked, working>>
         /\ \A u \in Transfers \ {t} :
              transfer'[u].status = transfer[u].status /\ queue'[u] = queue[u]
         /\ \A v \in Workers \ {w} : worker'[v] = worker[v]
         /\ \/ /\ worker'[w].job = t /\ queue'[t] = queue[t]
               /\ transfer'[t].status \in ACTIVE
            \/ /\ worker'[w].pc = "idle" /\ worker'[w].job = 0
               /\ \/ queue'[t] = queue[t]
                  \/ queue'[t] = queue[t] + 1 /\ transfer'[t].status \in ACTIVE
<1> USE DEF TypeOK, fileVars, adminVars, recordVars
<1>s. ASSUME NEW status, SetStatus(t, status)
      PROVE  /\ transfer'[t].status = status
             /\ \A u \in Transfers \ {t} : transfer'[u] = transfer[u]
  BY <1>s DEF SetStatus, TransferState
<1>l. ASSUME NEW stalls, SetStalls(t, stalls)
      PROVE  /\ transfer'[t].status = transfer[t].status
             /\ \A u \in Transfers \ {t} : transfer'[u] = transfer[u]
  BY <1>l DEF SetStalls, TransferState
<1>f. ASSUME NEW stalls, Finish(t, stalls)
      PROVE  \A u \in Transfers \ {t} : transfer'[u] = transfer[u]
  BY <1>f DEF Finish, TransferState
<1>q. ContinueLater(t) => /\ queue'[t] = queue[t] + 1
                          /\ \A u \in Transfers \ {t} : queue'[u] = queue[u]
  BY DEF ContinueLater
<1>a. transfer[t].status \in ACTIVE /\ {"VERIFIED", "SWITCHED"} \subseteq ACTIVE
  BY DEF IsActive, ACTIVE
<1>1. ASSUME NEW k \in Keys, CopyObject(w, k)
      PROVE  /\ worker'[w].job = t
             /\ \A v \in Workers \ {w} : worker'[v] = worker[v]
             /\ UNCHANGED <<transfer, queue, locked, working>>
  <2>1. PICK moved : Advance(w, k, moved)
    BY <1>1 DEF CopyObject
  <2>2. worker' = [worker EXCEPT ![w] =
          [worker[w] EXCEPT !.todo = worker[w].todo \ {k}, !.moved = moved]]
    BY <2>1 DEF Advance
  <2> QED BY <1>1, <2>2 DEF CopyObject, WorkerState
<1>2. ASSUME CopyFailed(w)
      PROVE  SetStatus(t, "FAILED") /\ Stop(w) /\ UNCHANGED <<queue, locked, working>>
  BY <1>2 DEF CopyFailed
<1>3. ASSUME CopyUnfinished(w)
      PROVE  /\ Stop(w) /\ UNCHANGED <<locked, working>>
             /\ \/ SetStatus(t, "FAILED") /\ UNCHANGED queue
                \/ ContinueLater(t) /\ \E stalls : SetStalls(t, stalls)
  BY <1>3 DEF CopyUnfinished
<1>4. ASSUME CopyFinished(w)
      PROVE  /\ SetStatus(t, "VERIFIED") /\ UNCHANGED <<queue, locked, working>>
             /\ worker'[w].job = t
             /\ \A v \in Workers \ {w} : worker'[v] = worker[v]
  <2>1. worker' = [worker EXCEPT ![w] =
          [worker[w] EXCEPT !.pc = "verify", !.seen = transfer[t].snapshot]]
    BY <1>4 DEF CopyFinished
  <2> QED BY <1>4, <2>1 DEF CopyFinished, WorkerState
<1>5. ASSUME VerifyObjects(w)
      PROVE  /\ UNCHANGED <<queue, locked, working>>
             /\ \/ SetStatus(t, "FAILED") /\ Stop(w)
                \/ Goto(w, "switch") /\ UNCHANGED transfer
  BY <1>5 DEF VerifyObjects
<1>6. ASSUME AcquireLease(w)
      PROVE  /\ UNCHANGED <<locked, working>>
             /\ \/ SetStatus(t, "ABORTED") /\ Stop(w) /\ UNCHANGED queue
                \/ ContinueLater(t) /\ Stop(w) /\ UNCHANGED transfer
                \/ Goto(w, "manifest") /\ UNCHANGED <<transfer, queue>>
  BY <1>6 DEF AcquireLease
<1>7. ASSUME CheckManifest(w)
      PROVE  /\ UNCHANGED <<queue, locked, working>>
             /\ \/ SetStatus(t, "ABORTED") /\ Stop(w)
                \/ Goto(w, "flip") /\ UNCHANGED transfer
  BY <1>7 DEF CheckManifest
<1>8. ASSUME FlipPointer(w)
      PROVE  /\ UNCHANGED <<queue, locked, working>>
             /\ \/ SetStatus(t, "ABORTED") /\ Stop(w)
                \/ Goto(w, "mark") /\ UNCHANGED transfer
  BY <1>8 DEF FlipPointer
<1>9. ASSUME MarkSwitched(w)
      PROVE  /\ UNCHANGED <<queue, locked, working>>
             /\ SetStatus(t, "SWITCHED") /\ Goto(w, "delete")
  BY <1>9 DEF MarkSwitched
<1>10. ASSUME DeleteSourceObjects(w)
       PROVE  UNCHANGED <<queue, transfer, locked, working>> /\ Goto(w, "settle")
  BY <1>10 DEF DeleteSourceObjects
<1>11. ASSUME SettleRun(w)
       PROVE  /\ Stop(w) /\ UNCHANGED <<locked, working>>
              /\ \/ UNCHANGED queue /\ \E stalls : Finish(t, stalls)
                 \/ ContinueLater(t) /\ \E stalls : SetStalls(t, stalls)
  BY <1>11 DEF SettleRun
<1>12. ASSUME Crash(w)
       PROVE  Stop(w) /\ UNCHANGED <<queue, transfer, locked, working>>
  BY <1>12 DEF Crash
<1>13. CASE \/ \E k \in Keys : CopyObject(w, k)
            \/ CopyFailed(w) \/ CopyUnfinished(w) \/ CopyFinished(w)
  BY <1>13, <1>1, <1>2, <1>3, <1>4, <1>s, <1>l, <1>q, <1>a, WorkerAfter
<1>14. CASE VerifyObjects(w) \/ AcquireLease(w) \/ CheckManifest(w)
  BY <1>14, <1>5, <1>6, <1>7, <1>s, <1>q, <1>a, WorkerAfter, Names
<1>15. CASE FlipPointer(w) \/ MarkSwitched(w) \/ DeleteSourceObjects(w)
  BY <1>15, <1>8, <1>9, <1>10, <1>s, <1>a, WorkerAfter, Names
<1>16. CASE SettleRun(w) \/ Crash(w)
  BY <1>16, <1>11, <1>12, <1>l, <1>f, <1>q, <1>a, WorkerAfter
<1> QED BY <1>13, <1>14, <1>15, <1>16 DEF RunStep

\* A step that leaves a transfer's status, messages and workers alone leaves
\* it alone.
LEMMA AloneUnmoved ==
  ASSUME NEW u \in Transfers, Alone(u), queue'[u] = queue[u],
         transfer'[u].status = transfer[u].status, Running(u)' = Running(u)
  PROVE  Alone(u)'
BY DEF Alone, IsActive

\* A worker that takes one more step, or dies.
LEMMA QuietRun ==
  ASSUME TypeOK, JobsKnown, QuietInv, NEW w \in Workers, RunStep(w) \/ Crash(w)
  PROVE  QuietInv'
<1> DEFINE job == worker[w].job
<1>1. PICK t \in Transfers : t = job
  BY RunStepBusy DEF JobsKnown, Crash
<1>2. w \in Running(t) /\ worker[w].pc # "idle"
  BY <1>1, RunStepBusy DEF Running, Crash
<1>3. IsActive(t) /\ queue[t] = 0 /\ \A v \in Running(t) : v = w
  BY <1>2 DEF QuietInv, Alone
<1>4. /\ UNCHANGED <<locked, working>>
      /\ \A u \in Transfers \ {t} :
           transfer'[u].status = transfer[u].status /\ queue'[u] = queue[u]
      /\ \A v \in Workers \ {w} : worker'[v] = worker[v]
      /\ \/ /\ worker'[w].job = t /\ queue'[t] = queue[t]
            /\ transfer'[t].status \in ACTIVE
         \/ /\ worker'[w].pc = "idle" /\ worker'[w].job = 0
            /\ \/ queue'[t] = queue[t]
               \/ queue'[t] = queue[t] + 1 /\ transfer'[t].status \in ACTIVE
  <2> HIDE DEF job
  <2> QED BY <1>1, <1>3, RunStepMoves DEF job
<1>5. ASSUME NEW u \in Transfers, u # t PROVE Alone(u)'
  <2>1. Running(u)' = Running(u)
    BY <1>1, <1>4, <1>5, BoundAssumption DEF Running, Transfers
  <2> QED BY <1>4, <1>5, <2>1, AloneUnmoved DEF QuietInv
<1>6. Alone(t)'
  <2>1. CASE worker'[w].job = t
    <3>1. Running(t)' = {w}
      BY <1>1, <1>3, <1>4, <2>1 DEF Running
    <3> QED BY <1>3, <1>4, <2>1, <3>1, BoundAssumption
        DEF Alone, IsActive, Transfers
  <2>2. CASE worker'[w].job = 0
    <3>1. Running(t)' = {}
      BY <1>1, <1>3, <1>4, <2>2, BoundAssumption DEF Running, Transfers
    <3> QED BY <1>3, <1>4, <2>2, <3>1, BoundAssumption
        DEF Alone, IsActive, Transfers
  <2> QED BY <1>4, <2>1, <2>2
<1>7. ~locked' /\ working'
  BY <1>2, <1>3, <1>4 DEF QuietInv, Guarded, NothingActive, TypeOK
<1> QED BY <1>5, <1>6, <1>7 DEF QuietInv, Guarded

\* A message that is delivered: its transfer is active, and nobody runs it.
LEMMA QuietDeliver ==
  ASSUME TypeOK, JobsKnown, QuietInv, NEW w \in Workers, NEW t \in Transfers,
         Deliver(w, t)
  PROVE  QuietInv'
<1> USE DEF TypeOK, fileVars, adminVars, recordVars
<1>1. /\ worker[w].pc = "idle" /\ worker[w].job = 0
      /\ queue[t] > 0 /\ queue' = [queue EXCEPT ![t] = queue[t] - 1]
      /\ UNCHANGED <<locked, working>>
  BY DEF Deliver, RunPaused, RunSkipped, RunAborted, StartRun, Take, JobsKnown
<1>2. IsActive(t) /\ Running(t) = {} /\ queue[t] = 1
  BY <1>1 DEF QuietInv, Alone
<1>3. /\ queue'[t] = 0
      /\ \A u \in Transfers \ {t} : queue'[u] = queue[u]
  BY <1>1, <1>2
<1>4. CASE RunPaused(w, t) \/ RunSkipped(w, t)
  <2>1. UNCHANGED <<transfer, worker>>
    BY <1>4 DEF RunPaused, RunSkipped
  <2>2. Alone(t)'
    BY <1>2, <1>3, <2>1 DEF Alone, Running
  <2>3. ASSUME NEW u \in Transfers, u # t PROVE Alone(u)'
    BY <1>3, <2>1, <2>3, AloneUnmoved DEF QuietInv, Running
  <2>4. Guarded'
    BY <1>1, <2>1 DEF QuietInv, Guarded, NothingActive, IsActive
  <2> QED BY <2>2, <2>3, <2>4 DEF QuietInv
<1>5. CASE RunAborted(w, t)
  <2>1. /\ UNCHANGED worker
        /\ transfer' = [transfer EXCEPT ![t].status = "ABORTED"]
    BY <1>5 DEF RunAborted, SetStatus
  <2>2. Alone(t)'
    BY <1>2, <1>3, <2>1 DEF Alone, Running
  <2>3. ASSUME NEW u \in Transfers, u # t PROVE Alone(u)'
    BY <1>3, <2>1, <2>3, AloneUnmoved DEF QuietInv, Running
  <2>4. Guarded'
    BY <1>1, <1>2, <2>1 DEF QuietInv, Guarded, NothingActive
  <2> QED BY <2>2, <2>3, <2>4 DEF QuietInv
<1>6. CASE StartRun(w, t)
  <2>1. /\ working
        /\ transfer' = [transfer EXCEPT ![t].status = Claimed(t)]
    BY <1>6 DEF StartRun, SetStatus
  <2>2. PICK phase \in {"copy", "verify", "delete"}, todo \in SUBSET Keys :
          worker' = [worker EXCEPT ![w] =
            [pc |-> phase, job |-> t, todo |-> todo, moved |-> FALSE,
             stale |-> FALSE, seen |-> transfer[t].snapshot]]
    BY <1>6 DEF StartRun
  <2>3. transfer'[t].status \in ACTIVE
    BY <1>2, <2>1 DEF Claimed, IsActive, ACTIVE, TransferState
  <2>4. worker'[w].job = t /\ \A v \in Workers \ {w} : worker'[v] = worker[v]
    BY <2>2
  <2>5. Running(t)' = {w}
    BY <1>2, <2>4 DEF Running
  <2>6. Alone(t)'
    BY <1>3, <2>3, <2>5 DEF Alone, IsActive
  <2>7. ASSUME NEW u \in Transfers, u # t PROVE Alone(u)'
    <3>0. u # 0
      BY BoundAssumption DEF Transfers
    <3>1. Running(u)' = Running(u)
      BY ONLY <1>1, <2>4, <2>7, <3>0 DEF Running
    <3> QED BY <1>3, <2>1, <2>7, <3>1, AloneUnmoved DEF QuietInv
  <2>8. Guarded'
    BY <1>1, <1>2, <2>1 DEF QuietInv, Guarded, NothingActive
  <2> QED BY <2>6, <2>7, <2>8 DEF QuietInv
<1> QED BY <1>4, <1>5, <1>6 DEF Deliver

\* A step that leaves documents, messages and workers alone, and locks or
\* completes the project only while nothing is active.
LEMMA QuietElsewhere ==
  ASSUME TypeOK, JobsKnown, QuietInv, UNCHANGED <<transfer, queue, worker>>,
         locked' /\ ~locked => NothingActive,
         ~working' /\ working => NothingActive
  PROVE  QuietInv'
<1>1. \A t \in Transfers : Alone(t)'
  BY AloneUnmoved DEF QuietInv, Running
<1>2. ASSUME NothingActive PROVE \A w \in Workers : worker[w].pc = "idle"
  BY <1>2 DEF NothingActive, QuietInv, Alone, Running, JobsKnown
<1>3. Guarded'
  BY <1>2 DEF QuietInv, Guarded, NothingActive, IsActive, TypeOK
<1> QED BY <1>1, <1>3 DEF QuietInv

\* A transfer that had come to rest gets its one message.
LEMMA QuietQueued ==
  ASSUME TypeOK, JobsKnown, QuietInv, NEW t \in Transfers, Settled(t), ~locked,
         UNCHANGED <<locked, working>>,
         \A u \in Transfers \ {t} :
           transfer'[u].status = transfer[u].status /\ queue'[u] = queue[u],
         \A w \in Workers : worker'[w].pc = worker[w].pc
                              /\ worker'[w].job = worker[w].job,
         transfer'[t].status = "PENDING", queue'[t] = 1
  PROVE  QuietInv'
<1>1. \A u \in Transfers : Running(u)' = Running(u)
  BY DEF Running
<1>2. Alone(t)'
  BY <1>1 DEF Settled, Alone, IsActive, ACTIVE
<1>3. \A u \in Transfers \ {t} : Alone(u)'
  BY <1>1, AloneUnmoved DEF QuietInv
<1>4. Guarded'
  BY DEF QuietInv, Guarded
<1> QED BY <1>2, <1>3, <1>4 DEF QuietInv

LEMMA QuietRequest ==
  ASSUME Practices = {}, TypeOK, JobsKnown, QuietInv, Request
  PROVE  QuietInv'
<1> USE DEF fileVars, adminVars, recordVars
<1>1. ASSUME NEW t \in Transfers, NEW dest \in Stores, Create(t, dest), ~locked,
             UNCHANGED <<locked, working, worker>>
      PROVE  QuietInv'
  <2>1. /\ Settled(t)
        /\ transfer' = [transfer EXCEPT ![t] =
             [status |-> "PENDING", origin |-> pointer, target |-> dest,
              snapshot |-> edit, stalls |-> 0]]
        /\ queue' = [queue EXCEPT ![t] = 1]
    BY <1>1 DEF Create
  <2>2. /\ transfer'[t].status = "PENDING" /\ queue'[t] = 1
        /\ \A u \in Transfers \ {t} :
             transfer'[u] = transfer[u] /\ queue'[u] = queue[u]
    BY <2>1 DEF TypeOK
  <2> QED BY <1>1, <2>1, <2>2, QuietQueued
<1>2. ASSUME NEW dest \in Stores, MoveProject(dest) PROVE QuietInv'
  <2>1. \A t \in Transfers : ~Reuse(t)
    BY DEF Reuse
  <2>2. PICK t \in Transfers : Create(t, dest)
    BY <1>2, <2>1 DEF MoveProject
  <2> QED BY <1>1, <1>2, <2>2 DEF MoveProject
<1>3. ASSUME NEW source \in Sources, ScanProject(source) PROVE QuietInv'
  <2>1. source \in Stores
    BY StoreFacts
  <2>2. PICK t \in Transfers : Create(t, source)
    BY <1>3 DEF ScanProject
  <2> QED BY <1>1, <1>3, <2>1, <2>2 DEF ScanProject
<1>4. ASSUME NEW t \in Transfers, RetryAborted(t) \/ RetryFailed(t) PROVE QuietInv'
  <2>1. /\ Settled(t) /\ ~locked /\ UNCHANGED <<locked, working>>
        /\ queue' = [queue EXCEPT ![t] = queue[t] + 1]
    BY <1>4 DEF RetryAborted, RetryFailed, CarefulRetry
  <2>2. /\ transfer'[t].status = "PENDING"
        /\ \A u \in Transfers \ {t} : transfer'[u] = transfer[u]
    <3>1. CASE RetryAborted(t)
      BY <3>1 DEF RetryAborted, TypeOK, TransferState
    <3>2. CASE RetryFailed(t)
      BY <3>2 DEF RetryFailed, SetStatus, TypeOK, TransferState
    <3> QED BY <1>4, <3>1, <3>2
  <2>3. \A w \in Workers : worker'[w].pc = worker[w].pc
                             /\ worker'[w].job = worker[w].job
    <3>1. CASE RetryAborted(t)
      <4>1. worker' = [w \in Workers |->
              IF worker[w].job = t THEN [worker[w] EXCEPT !.stale = TRUE]
                                   ELSE worker[w]]
        BY <3>1 DEF RetryAborted
      <4> QED BY <4>1 DEF TypeOK, WorkerState
    <3>2. CASE RetryFailed(t)
      BY <3>2 DEF RetryFailed
    <3> QED BY <1>4, <3>1, <3>2
  <2>4. queue'[t] = 1 /\ \A u \in Transfers \ {t} : queue'[u] = queue[u]
    BY <2>1 DEF Settled, TypeOK
  <2> QED BY <2>1, <2>2, <2>3, <2>4, QuietQueued
<1>5. ASSUME \/ \E on \in BOOLEAN : SetLock(on) \/ SetRunEnabled(on)
             \/ CompleteProject \/ ReopenProject
      PROVE  QuietInv'
  <2>1. /\ UNCHANGED <<transfer, queue, worker>>
        /\ locked' /\ ~locked => NothingActive
        /\ ~working' /\ working => NothingActive
    BY <1>5 DEF SetLock, SetRunEnabled, CompleteProject, ReopenProject
  <2> QED BY <2>1, QuietElsewhere
<1> QED BY <1>2, <1>3, <1>4, <1>5 DEF Request

LEMMA QuietStep ==
  ASSUME Practices = {}, TypeOK, JobsKnown, QuietInv, [Next]_vars
  PROVE  QuietInv'
<1>1. CASE UserStep \/ ExpireLease \/ UNCHANGED vars
  <2>1. UNCHANGED <<transfer, queue, worker, locked, working>>
    BY <1>1 DEF UserStep, UploadFile, BeginUpload, SaveUpload, DeriveObject,
         RemoveFile, EditProject, ExpireLease, vars, adminVars, recordVars
  <2> QED BY <2>1, QuietElsewhere
<1> QED BY <1>1, QuietRequest, QuietDeliver, QuietRun DEF Next

\* The pointer is moved by a worker, and while the project is locked or
\* completed there is none.
LEMMA QuietMeansStill ==
  ASSUME JobsKnown, QuietInv, [Next]_vars, locked \/ ~working
  PROVE  pointer' = pointer
<1>1. \A w \in Workers : worker[w].pc = "idle"
  <2>1. CASE locked
    BY <2>1 DEF QuietInv, Guarded, NothingActive, Alone, Running, JobsKnown
  <2>2. CASE ~working
    BY <2>2 DEF QuietInv, Guarded
  <2> QED BY <2>1, <2>2
<1>2. \A w \in Workers : ~RunStep(w)
  BY <1>1, RunStepBusy
<1>3. CASE Request
  BY <1>3 DEF Request, MoveProject, ScanProject, RetryAborted, RetryFailed,
              SetLock, SetRunEnabled, CompleteProject, ReopenProject
<1>4. CASE UserStep
  BY <1>4 DEF UserStep, UploadFile, BeginUpload, SaveUpload, DeriveObject,
              RemoveFile, EditProject
<1>5. ASSUME NEW w \in Workers, NEW t \in Transfers, Deliver(w, t)
      PROVE  pointer' = pointer
  BY <1>5 DEF Deliver, RunPaused, RunSkipped, RunAborted, StartRun
<1>6. CASE ExpireLease \/ UNCHANGED vars \/ \E w \in Workers : Crash(w)
  BY <1>6 DEF ExpireLease, Crash, vars
<1> QED BY <1>2, <1>3, <1>4, <1>5, <1>6 DEF Next

\* As long as nobody queues an active transfer again, starts one beside another
\* or saves an upload late: a project that an administrator has locked, or
\* that is completed, is not moved, although the workers never look at the
\* lock; a transfer that could still move it would have refused the lock.
THEOREM StaysPut ==
  ASSUME Practices = {}
  PROVE  Spec => OffLimitsProjectStaysPut
<1>1. Init => TypeOK /\ JobsKnown /\ QuietInv
  <2>1. Init => JobsKnown
    BY DEF Init, JobsKnown, IdleWorker
  <2>2. Init => QuietInv
    BY BoundAssumption DEF Init, QuietInv, Alone, Guarded, Running, IsActive,
       NoTransfer, IdleWorker, ACTIVE, Transfers
  <2> QED BY <2>1, <2>2, TypeInit
<1>2. TypeOK /\ JobsKnown /\ QuietInv /\ [Next]_vars
        => TypeOK' /\ JobsKnown' /\ QuietInv'
  BY TypeStep, QuietStep
<1>3. JobsKnown /\ QuietInv /\ [Next]_vars
        => [locked \/ ~working => pointer' = pointer]_vars
  BY QuietMeansStill
<1> QED BY <1>1, <1>2, <1>3, PTL DEF Spec, OffLimitsProjectStaysPut

=============================================================================
