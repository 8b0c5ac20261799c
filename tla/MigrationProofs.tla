--------------------------- MODULE MigrationProofs ---------------------------
(***************************************************************************)
(* The runner of the migrations, for any number of versions and processes: *)
(* under a lease that is not outlived one process works at a time; and,    *)
(* when every version is run automatically, the history has no gaps, what  *)
(* is recorded is in force and migrate exits 0 on a database that is       *)
(* migrated to the end. Then Profiles, for any people and names: what      *)
(* migration 0006 and the requests around it leave can be saved and found. *)
(***************************************************************************)
EXTENDS MigrationRunner, Profiles, TLAPS

Phases == {"idle", "order", "lock", "ok", "failed"} \cup Working
RunnerState ==
  [pc : Phases, job : {"migrate", "rollback"}, level : {"AUTO", "ALL"},
   target : Versions \cup {0}, todo : SUBSET Versions, result : {"ok", "failed"}]

LEMMA PhaseNames ==
  /\ Working \subseteq Phases /\ Applying \subseteq Working
  /\ Reverting \subseteq Working
  /\ "idle" \notin Working /\ "order" \notin Working /\ "lock" \notin Working
  /\ "ok" \notin Working /\ "failed" \notin Working
  /\ \A level \in {"AUTO", "ALL"} : Selected(level) \subseteq Versions
BY VersionAssumption DEF Phases, Working, Applying, Reverting, Selected

LEMMA TypeInit == Init => TypeOK
BY DEF Init, TypeOK, Idle, Working

\* Every way a step changes what its process knows keeps the types.
LEMMA StateTyped ==
  ASSUME NEW r \in Runners, TypeOK
  PROVE  /\ runner \in [Runners -> RunnerState]
         /\ Idle \in RunnerState
         /\ \A pc \in Phases : Goto(r, pc) => runner' \in [Runners -> RunnerState]
         /\ \A result \in {"ok", "failed"} :
              Finish(r, result) => runner' \in [Runners -> RunnerState]
         /\ \A todo \in SUBSET Versions :
              Proceed(r, todo) => runner' \in [Runners -> RunnerState]
<1>1. runner \in [Runners -> RunnerState]
  BY DEF TypeOK, RunnerState, Phases
<1>2. Idle \in RunnerState
  BY DEF Idle, RunnerState, Phases
<1>3. ASSUME NEW pc \in Phases, Goto(r, pc)
      PROVE  runner' \in [Runners -> RunnerState]
  BY <1>1, <1>3 DEF Goto, RunnerState
<1>4. ASSUME NEW result \in {"ok", "failed"}, Finish(r, result)
      PROVE  runner' \in [Runners -> RunnerState]
  <2> DEFINE Ended == [runner[r] EXCEPT !.pc = "release", !.result = result]
  <2>1. Ended \in RunnerState
    BY <1>1 DEF RunnerState, Phases, Working
  <2>2. runner' = [runner EXCEPT ![r] = Ended]
    BY <1>4 DEF Finish
  <2> HIDE DEF Ended
  <2> QED BY <1>1, <2>1, <2>2
<1>5. ASSUME NEW todo \in SUBSET Versions, Proceed(r, todo)
      PROVE  runner' \in [Runners -> RunnerState]
  <2> DEFINE Ended == [runner[r] EXCEPT !.todo = {}, !.pc = "release",
                                        !.result = "ok"]
             Going == [runner[r] EXCEPT !.todo = todo,
                         !.pc = IF runner[r].job = "migrate" THEN "up" ELSE "down"]
  <2>1. Ended \in RunnerState
    BY <1>1 DEF RunnerState, Phases, Working
  <2>2. Going \in RunnerState
    BY <1>1 DEF RunnerState, Phases, Working
  <2>3. runner' = [runner EXCEPT ![r] = IF todo = {} THEN Ended ELSE Going]
    BY <1>5 DEF Proceed
  <2> HIDE DEF Ended, Going
  <2> QED BY <1>1, <2>1, <2>2, <2>3
<1> QED BY <1>1, <1>2, <1>3, <1>4, <1>5

LEMMA TypeNext == TypeOK /\ [Next]_vars => TypeOK'
<1> SUFFICES ASSUME TypeOK, [Next]_vars PROVE TypeOK'
    OBVIOUS
<1> DEFINE RunnerTyped == runner' \in [Runners -> RunnerState]
           RestTyped == /\ records' \subseteq Versions
                        /\ effect' \in [Versions -> {"none", "half", "done"}]
                        /\ lock' \in [holder : Runners \cup {NoOne}, leased : BOOLEAN]
<1>0. SUFFICES RunnerTyped /\ RestTyped
      BY DEF TypeOK, RunnerState, Phases
<1>t. /\ records \subseteq Versions
      /\ effect \in [Versions -> {"none", "half", "done"}]
      /\ lock \in [holder : Runners \cup {NoOne}, leased : BOOLEAN]
      BY DEF TypeOK
<1>1. CASE UNCHANGED vars
  BY <1>1, <1>t DEF vars, TypeOK, RunnerState, Phases
<1>2. CASE LeaseEnds
  BY <1>2, <1>t DEF LeaseEnds, TypeOK, RunnerState, Phases
<1>3. ASSUME NEW r \in Runners, RunnerStep(r) PROVE RunnerTyped /\ RestTyped
  <2>s. /\ runner \in [Runners -> RunnerState] /\ Idle \in RunnerState
        /\ runner[r] \in RunnerState
    BY StateTyped
  <2>g. /\ \A pc \in Phases : Goto(r, pc) => RunnerTyped
        /\ \A result \in {"ok", "failed"} : Finish(r, result) => RunnerTyped
        /\ \A todo \in SUBSET Versions : Proceed(r, todo) => RunnerTyped
    BY StateTyped
  <2>p. {"idle", "order", "lock", "ok", "failed"} \cup Working \subseteq Phases
    BY DEF Phases
  <2> HIDE DEF RunnerTyped
  <2>1. ASSUME NEW level \in {"AUTO", "ALL"}, StartMigrate(r, level)
        PROVE  RunnerTyped /\ RestTyped
    <3>1. Pending(level) \subseteq Versions
      BY PhaseNames DEF Pending
    <3>2. RunnerTyped
      BY <2>1, <2>s, <3>1 DEF StartMigrate, RunnerTyped, RunnerState, Phases, Idle
    <3> QED BY <2>1, <3>2, <1>t DEF StartMigrate
  <2>2. ASSUME NEW target \in Versions, StartRollback(r, target)
        PROVE  RunnerTyped /\ RestTyped
    <3>2. RunnerTyped
      BY <2>2, <2>s DEF StartRollback, RunnerTyped, RunnerState, Phases, Idle
    <3> QED BY <2>2, <3>2, <1>t DEF StartRollback
  <2>3. CASE CheckOrder(r)
    BY <2>3, <2>g, <2>p, <1>t DEF CheckOrder
  <2>4. CASE AcquireLock(r)
    <3>1. RunnerTyped
      BY <2>4, <2>g, <2>p DEF AcquireLock, LockMissed, Working
    <3>2. lock' = lock \/ lock' = [holder |-> r, leased |-> TRUE]
      BY <2>4 DEF AcquireLock
    <3>3. [holder |-> r, leased |-> TRUE]
            \in [holder : Runners \cup {NoOne}, leased : BOOLEAN]
      OBVIOUS
    <3>4. lock' \in [holder : Runners \cup {NoOne}, leased : BOOLEAN]
      BY <3>2, <3>3, <1>t, Zenon
    <3> QED BY <2>4, <3>1, <3>4, <1>t DEF AcquireLock
  <2>5. CASE ReadList(r)
    <3>1. FreshList(r) \subseteq Versions
      BY <2>s, <1>t, PhaseNames DEF FreshList, PendingNow, Pending, RunnerState
    <3> QED BY <2>5, <3>1, <2>g, <1>t DEF ReadList
  <2>6. CASE BeginUp(r)
    BY <2>6, <2>g, <2>p, <1>t DEF BeginUp, Working
  <2>7. CASE EndUp(r)
    BY <2>7, <2>g, <2>p, <1>t DEF EndUp, Working
  <2>8. CASE BodyRaises(r)
    BY <2>8, <2>g, <1>t DEF BodyRaises
  <2>9. CASE VerifyUp(r)
    BY <2>9, <2>g, <2>p, <1>t DEF VerifyUp, Working
  <2>10. CASE RecordApplied(r)
    <3> DEFINE Rest(v) == [runner[r] EXCEPT !.pc = "renew",
                                            !.todo = runner[r].todo \ {v}]
    <3>1. \A v \in Versions : Rest(v) \in RunnerState
      BY <2>s DEF RunnerState, Phases, Working
    <3>2. PICK v \in Versions : /\ records' = records \cup {v}
                                /\ runner' = [runner EXCEPT ![r] = Rest(v)]
      BY <2>10, <2>s DEF RecordApplied, RunnerState
    <3> HIDE DEF Rest
    <3>3. RunnerTyped
      BY <3>1, <3>2, <2>s DEF RunnerTyped
    <3> QED BY <2>10, <3>2, <3>3, <1>t DEF RecordApplied
  <2>11. CASE BeginDown(r)
    BY <2>11, <2>g, <2>p, <1>t DEF BeginDown, Working
  <2>12. CASE EndDown(r)
    BY <2>12, <2>g, <2>p, <1>t DEF EndDown, Working
  <2>13. CASE EraseRecord(r)
    <3> DEFINE Rest(v) == [runner[r] EXCEPT !.pc = "renew",
                                            !.todo = runner[r].todo \ {v}]
    <3>1. \A v \in Versions : Rest(v) \in RunnerState
      BY <2>s DEF RunnerState, Phases, Working
    <3>2. PICK v \in Versions : /\ records' = records \ {v}
                                /\ runner' = [runner EXCEPT ![r] = Rest(v)]
      BY <2>13, <2>s DEF EraseRecord, RunnerState
    <3> HIDE DEF Rest
    <3>3. RunnerTyped
      BY <3>1, <3>2, <2>s DEF RunnerTyped
    <3> QED BY <2>13, <3>2, <3>3, <1>t DEF EraseRecord
  <2>14. CASE RenewLock(r)
    <3>1. runner[r].todo \subseteq Versions
      BY <2>s DEF RunnerState
    <3> QED BY <2>14, <3>1, <2>g, <1>t DEF RenewLock
  <2>15. CASE ReleaseLock(r)
    <3>1. runner[r].result \in {"ok", "failed"}
      BY <2>s DEF RunnerState
    <3> QED BY <2>15, <3>1, <2>g, <2>p, <1>t DEF ReleaseLock
  <2>16. CASE Exit(r)
    BY <2>16, <2>s, <1>t DEF Exit, RunnerTyped
  <2>17. CASE Kill(r)
    BY <2>17, <2>s, <1>t DEF Kill, RunnerTyped
  <2> QED BY <1>3, <2>1, <2>2, <2>3, <2>4, <2>5, <2>6, <2>7, <2>8, <2>9,
             <2>10, <2>11, <2>12, <2>13, <2>14, <2>15, <2>16, <2>17 DEF RunnerStep
<1> QED BY <1>1, <1>2, <1>3 DEF Next

-----------------------------------------------------------------------------
(* What a step leaves of the processes                                     *)

Others(r) == \A s \in Runners \ {r} : runner'[s] = runner[s]
SameList(r) == /\ runner'[r].job = runner[r].job
               /\ runner'[r].target = runner[r].target
               /\ runner'[r].todo = runner[r].todo
SameJob(r) == /\ runner'[r].job = runner[r].job
              /\ runner'[r].target = runner[r].target

LEMMA GotoIs ==
  ASSUME TypeOK, NEW r \in Runners, NEW pc, Goto(r, pc)
  PROVE  /\ runner'[r].pc = pc /\ SameList(r) /\ Others(r)
         /\ runner'[r].result = runner[r].result
BY DEF TypeOK, Goto, SameList, Others

LEMMA FinishIs ==
  ASSUME TypeOK, NEW r \in Runners, NEW result, Finish(r, result)
  PROVE  /\ runner'[r].pc = "release" /\ runner'[r].result = result
         /\ SameList(r) /\ Others(r)
BY DEF TypeOK, Finish, SameList, Others

LEMMA ProceedIs ==
  ASSUME TypeOK, NEW r \in Runners, NEW todo, Proceed(r, todo)
  PROVE  /\ SameJob(r) /\ Others(r) /\ runner'[r].todo = todo
         /\ todo = {} => runner'[r].pc = "release"
         /\ todo # {} => runner'[r].pc =
                           IF runner[r].job = "migrate" THEN "up" ELSE "down"
BY DEF TypeOK, Proceed, SameJob, Others

LEMMA IdleIs ==
  ASSUME TypeOK, NEW r \in Runners, Kill(r) \/ Exit(r)
  PROVE  /\ runner'[r].pc = "idle" /\ runner'[r].job = "migrate" /\ Others(r)
         /\ UNCHANGED <<records, effect, lock>>
BY DEF TypeOK, Kill, Exit, Idle, Others

LEMMA StartIs ==
  ASSUME TypeOK, NEW r \in Runners,
         NEW level \in {"AUTO", "ALL"}, StartMigrate(r, level)
  PROVE  /\ runner'[r].pc \in {"ok", "order"} /\ runner'[r].job = "migrate"
         /\ runner'[r].pc = "ok" => Pending(level) = {}
         /\ runner'[r].level = level
         /\ Others(r) /\ UNCHANGED <<records, effect, lock>>
BY DEF TypeOK, StartMigrate, Idle, Others

LEMMA RollbackIs ==
  ASSUME TypeOK, NEW r \in Runners, NEW target, StartRollback(r, target)
  PROVE  /\ runner'[r].pc = "lock" /\ runner'[r].job = "rollback"
         /\ "rollback" \in Events
         /\ Others(r) /\ UNCHANGED <<records, effect, lock>>
BY DEF TypeOK, StartRollback, Idle, Others

LEMMA RecordIs ==
  ASSUME TypeOK, NEW r \in Runners, RecordApplied(r)
  PROVE  \E v \in runner[r].todo :
           /\ IsFirst(v, runner[r].todo) /\ records' = records \cup {v}
           /\ runner'[r].pc = "renew" /\ runner'[r].todo = runner[r].todo \ {v}
           /\ SameJob(r) /\ Others(r)
BY DEF TypeOK, RecordApplied, SameJob, Others

LEMMA EraseIs ==
  ASSUME TypeOK, NEW r \in Runners, EraseRecord(r)
  PROVE  \E v \in runner[r].todo :
           /\ IsLast(v, runner[r].todo) /\ records' = records \ {v}
           /\ runner'[r].pc = "renew" /\ runner'[r].todo = runner[r].todo \ {v}
           /\ SameJob(r) /\ Others(r)
BY DEF TypeOK, EraseRecord, SameJob, Others

-----------------------------------------------------------------------------
(* The lock                                                                *)

LEMMA LockInit == Init => HoldsLock
BY DEF Init, HoldsLock, Idle, Working

LEMMA LockNext == TypeOK /\ HoldsLock /\ [Next]_vars => HoldsLock'
<1> SUFFICES ASSUME TypeOK, HoldsLock, [Next]_vars, "stall" \notin Events,
                    NEW s \in Runners, runner'[s].pc \in Working
             PROVE  lock' = [holder |-> s, leased |-> TRUE]
    BY DEF HoldsLock
<1>h. \A q \in Runners :
        runner[q].pc \in Working => lock = [holder |-> q, leased |-> TRUE]
      BY DEF HoldsLock
<1>1. CASE UNCHANGED vars
  BY <1>1, <1>h DEF vars
<1>2. CASE LeaseEnds
  BY <1>2, <1>h DEF LeaseEnds
<1>3. ASSUME NEW r \in Runners, RunnerStep(r)
      PROVE  lock' = [holder |-> s, leased |-> TRUE]
  \* A step of a process that was at work before, and leaves the lock alone.
  <2>k. ASSUME UNCHANGED lock, Others(r), runner[r].pc \in Working
        PROVE  lock' = [holder |-> s, leased |-> TRUE]
    BY <2>k, <1>h DEF Others
  \* A step that ends outside the lock.
  <2>o. ASSUME UNCHANGED lock, Others(r), runner'[r].pc \notin Working
        PROVE  lock' = [holder |-> s, leased |-> TRUE]
    BY <2>o, <1>h DEF Others
  <2>1. CASE \E level \in {"AUTO", "ALL"} : StartMigrate(r, level)
    BY <2>1, <2>o, StartIs, PhaseNames
  <2>2. CASE \E target \in Versions : StartRollback(r, target)
    BY <2>2, <2>o, RollbackIs, PhaseNames
  <2>3. CASE CheckOrder(r)
    BY <2>3, <2>o, GotoIs, PhaseNames DEF CheckOrder
  <2>4. CASE AcquireLock(r)
    <3>1. CASE LockFree
      <4>1. lock' = [holder |-> r, leased |-> TRUE] /\ Others(r)
        BY <2>4, <3>1, GotoIs DEF AcquireLock
      <4>2. \A q \in Runners : runner[q].pc \notin Working
        BY <3>1, <1>h DEF LockFree
      <4> QED BY <4>1, <4>2 DEF Others
    <3>2. CASE ~LockFree
      BY <2>4, <3>2, <2>o, GotoIs, PhaseNames DEF AcquireLock, LockMissed
    <3> QED BY <3>1, <3>2
  <2>5. CASE ReadList(r)
    BY <2>5, <2>k, ProceedIs DEF ReadList, Working
  <2>6. CASE BeginUp(r) \/ EndUp(r) \/ EndDown(r)
    BY <2>6, <2>k, GotoIs DEF BeginUp, EndUp, EndDown, Working
  <2>8. CASE BodyRaises(r)
    BY <2>8, <2>k, FinishIs DEF BodyRaises, Working
  <2>9. CASE VerifyUp(r) \/ BeginDown(r)
    BY <2>9, <2>k, GotoIs, FinishIs DEF VerifyUp, BeginDown, Working
  <2>10. CASE RecordApplied(r) \/ EraseRecord(r)
    BY <2>10, <2>k, RecordIs, EraseIs DEF RecordApplied, EraseRecord, Working
  <2>14. CASE RenewLock(r)
    <3>1. runner[r].pc \in Working
      BY <2>14 DEF RenewLock, Working
    <3>2. lock = [holder |-> r, leased |-> TRUE]
      BY <3>1, <1>h
    <3>3. lock' = lock
      BY <2>14, <3>2 DEF RenewLock
    <3> QED BY <2>14, <3>1, <3>3, <2>k, ProceedIs, FinishIs DEF RenewLock
  <2>15. CASE ReleaseLock(r)
    <3>1. Others(r) /\ runner[r].pc \in Working /\ runner'[r].pc \notin Working
      BY <2>15, GotoIs, PhaseNames DEF ReleaseLock, Working, TypeOK
    <3>2. s # r /\ runner[s].pc \in Working
      BY <3>1 DEF Others
    <3>3. lock.holder = r /\ lock.holder = s
      BY <3>1, <3>2, <1>h
    <3> QED BY <3>2, <3>3
  <2>16. CASE Exit(r) \/ Kill(r)
    BY <2>16, <2>o, IdleIs, PhaseNames
  <2> QED BY <1>3, <2>1, <2>2, <2>3, <2>4, <2>5, <2>6, <2>8, <2>9, <2>10, <2>14,
             <2>15, <2>16 DEF RunnerStep
<1> QED BY <1>1, <1>2, <1>3 DEF Next

\* One process is at work at a time, also while somebody rolls back.
LEMMA Alone ==
  ASSUME HoldsLock, "stall" \notin Events
  PROVE  WorkAlone
BY DEF HoldsLock, WorkAlone

\* As long as no lease runs out under its holder, no two processes run bodies
\* or write records at once, however many are started or killed.
THEOREM OneAtATime ==
  ASSUME "stall" \notin Events
  PROVE  Spec => []WorkAlone
<1>1. Init => TypeOK /\ HoldsLock
  BY TypeInit, LockInit
<1>2. TypeOK /\ HoldsLock /\ [Next]_vars => TypeOK' /\ HoldsLock'
  BY TypeNext, LockNext
<1>3. TypeOK /\ HoldsLock => WorkAlone
  BY Alone
<1> QED BY <1>1, <1>2, <1>3, PTL DEF Spec

-----------------------------------------------------------------------------
(* The lists and the history                                               *)

LEMMA JobsInit == Init => JobsFit
BY DEF Init, JobsFit, Idle, Applying, Reverting

LEMMA JobsNext == TypeOK /\ JobsFit /\ [Next]_vars => JobsFit'
<1> SUFFICES ASSUME TypeOK, JobsFit, [Next]_vars PROVE JobsFit'
    OBVIOUS
<1> DEFINE Fits(q) ==
      /\ runner[q].job = "rollback" => "rollback" \in Events
      /\ runner[q].pc \in {"order"} \cup Applying => runner[q].job = "migrate"
      /\ runner[q].pc \in Reverting => runner[q].job = "rollback"
<1>f. \A q \in Runners : Fits(q)
      BY DEF JobsFit
<1>s. SUFFICES \A q \in Runners : Fits(q)'
      BY DEF JobsFit
<1>1. CASE UNCHANGED vars
  BY <1>1, <1>f DEF vars
<1>2. CASE LeaseEnds
  BY <1>2, <1>f DEF LeaseEnds
<1>3. ASSUME NEW r \in Runners, RunnerStep(r) PROVE \A q \in Runners : Fits(q)'
  <2>o. ASSUME Others(r), Fits(r)' PROVE \A q \in Runners : Fits(q)'
    BY <2>o, <1>f DEF Others
  <2>j. runner[r].job \in {"migrate", "rollback"}
    BY DEF TypeOK
  <2>1. CASE \E level \in {"AUTO", "ALL"} : StartMigrate(r, level)
    BY <2>1, <2>o, StartIs DEF Reverting
  <2>2. CASE \E target \in Versions : StartRollback(r, target)
    BY <2>2, <2>o, RollbackIs DEF Applying, Reverting
  <2>3. CASE CheckOrder(r)
    BY <2>3, <2>o, <1>f, GotoIs DEF CheckOrder, SameList, Applying, Reverting
  <2>4. CASE AcquireLock(r)
    BY <2>4, <2>o, <1>f, GotoIs DEF AcquireLock, LockMissed, SameList, Applying, Reverting
  <2>5. CASE ReadList(r)
    <3>1. /\ runner'[r].pc \in {"release", "up", "down"}
          /\ SameJob(r) /\ Others(r)
          /\ runner'[r].pc = "up" => runner[r].job = "migrate"
          /\ runner'[r].pc = "down" => runner[r].job # "migrate"
      BY <2>5, ProceedIs DEF ReadList
    <3> QED BY <3>1, <2>o, <2>j, <1>f DEF SameJob, Applying, Reverting
  <2>6. CASE BeginUp(r) \/ EndUp(r) \/ EndDown(r)
    <3>1. /\ Others(r) /\ SameList(r)
          /\ \/ runner[r].pc \in Applying /\ runner'[r].pc \in {"body", "verify"}
             \/ runner[r].pc \in Reverting /\ runner'[r].pc = "erase"
      BY <2>6, GotoIs DEF BeginUp, EndUp, EndDown, Applying, Reverting
    <3> QED BY <3>1, <2>o, <1>f DEF SameList, Applying, Reverting
  <2>8. CASE BodyRaises(r)
    BY <2>8, <2>o, <1>f, FinishIs DEF BodyRaises, SameList, Applying, Reverting
  <2>9. CASE VerifyUp(r) \/ BeginDown(r)
    <3>1. /\ Others(r) /\ SameList(r)
          /\ \/ runner'[r].pc = "release"
             \/ runner[r].pc \in Applying /\ runner'[r].pc = "record"
             \/ runner[r].pc \in Reverting /\ runner'[r].pc = "undo"
      BY <2>9, GotoIs, FinishIs DEF VerifyUp, BeginDown, Applying, Reverting
    <3> QED BY <3>1, <2>o, <1>f DEF SameList, Applying, Reverting
  <2>10. CASE RecordApplied(r) \/ EraseRecord(r)
    <3>1. Others(r) /\ SameJob(r) /\ runner'[r].pc = "renew"
      BY <2>10, RecordIs, EraseIs
    <3> QED BY <3>1, <2>o, <1>f DEF SameJob, Applying, Reverting
  <2>14. CASE RenewLock(r)
    <3>1. /\ runner'[r].pc \in {"release", "up", "down"}
          /\ SameJob(r) /\ Others(r)
          /\ runner'[r].pc = "up" => runner[r].job = "migrate"
          /\ runner'[r].pc = "down" => runner[r].job # "migrate"
      BY <2>14, ProceedIs, FinishIs DEF RenewLock, SameJob, SameList
    <3> QED BY <3>1, <2>o, <2>j, <1>f DEF SameJob, Applying, Reverting
  <2>15. CASE ReleaseLock(r)
    <3>1. Others(r) /\ SameList(r) /\ runner'[r].pc \in {"ok", "failed"}
      BY <2>15, GotoIs DEF ReleaseLock, TypeOK
    <3> QED BY <3>1, <2>o, <1>f DEF SameList, Applying, Reverting
  <2>16. CASE Exit(r) \/ Kill(r)
    BY <2>16, <2>o, IdleIs DEF Applying, Reverting
  <2> QED BY <1>3, <2>1, <2>2, <2>3, <2>4, <2>5, <2>6, <2>8, <2>9, <2>10, <2>14,
             <2>15, <2>16 DEF RunnerStep
<1> QED BY <1>1, <1>2, <1>3, <1>s DEF Next

\* A rollback has the database to itself.
LEMMA RollbackAlone ==
  ASSUME Careful, HoldsLock, JobsFit, NEW r \in Runners, NEW s \in Runners, r # s,
         runner[r].pc \in Working, runner[s].pc \in Working
  PROVE  runner[r].job # "rollback" /\ runner[s].job # "rollback"
BY DEF Careful, HoldsLock, JobsFit

LEMMA HistoryInit == Init => ListsMatch /\ CheckedFirst /\ OnlyReversible /\ NoGap
BY DEF Init, ListsMatch, CheckedFirst, OnlyReversible, NoGap, Undoing, Idle,
       Applying, Reverting

\* What each step does to the records and to the lists of the processes: only
\* two of them touch the records.
LEMMA RecordsMove ==
  ASSUME TypeOK, NEW r \in Runners, RunnerStep(r)
  PROVE  /\ Others(r)
         /\ RecordApplied(r) \/ EraseRecord(r) \/ records' = records
<1>1. CASE \E level \in {"AUTO", "ALL"} : StartMigrate(r, level)
  BY <1>1, StartIs
<1>2. CASE \E target \in Versions : StartRollback(r, target)
  BY <1>2, RollbackIs
<1>3. CASE CheckOrder(r) \/ AcquireLock(r) \/ ReleaseLock(r)
  BY <1>3, GotoIs DEF CheckOrder, AcquireLock, ReleaseLock
<1>4. CASE ReadList(r) \/ RenewLock(r)
  BY <1>4, ProceedIs, FinishIs DEF ReadList, RenewLock
<1>5. CASE BeginUp(r) \/ EndUp(r) \/ EndDown(r)
  BY <1>5, GotoIs DEF BeginUp, EndUp, EndDown
<1>6. CASE BodyRaises(r) \/ VerifyUp(r) \/ BeginDown(r)
  BY <1>6, GotoIs, FinishIs DEF BodyRaises, VerifyUp, BeginDown
<1>7. CASE RecordApplied(r) \/ EraseRecord(r)
  BY <1>7, RecordIs, EraseIs
<1>8. CASE Exit(r) \/ Kill(r)
  BY <1>8, IdleIs
<1> QED BY <1>1, <1>2, <1>3, <1>4, <1>5, <1>6, <1>7, <1>8 DEF RunnerStep

\* A process that erases a record is a rollback at work; one that writes a
\* record is a migration at work.
LEMMA AtWork ==
  ASSUME JobsFit, NEW r \in Runners
  PROVE  /\ EraseRecord(r) =>
              runner[r].pc \in Working /\ runner[r].job = "rollback"
         /\ RecordApplied(r) =>
              runner[r].pc \in Working /\ runner[r].job = "migrate"
BY DEF JobsFit, EraseRecord, RecordApplied, Working, Applying, Reverting

ListMatches(q) ==
  /\ runner[q].job = "migrate" /\ runner[q].pc \in Applying \cup {"renew"}
       => Versions \ runner[q].todo \subseteq records
  /\ runner[q].job = "rollback" /\ runner[q].pc \in Reverting \cup {"renew"}
       => runner[q].todo = {v \in records : v > runner[q].target}
  /\ runner[q].job = "migrate" /\ runner[q].pc = "release"
       => (runner[q].result = "ok" => records = Versions)

\* A step of one process leaves the lists of the others true.
LEMMA OthersMatch ==
  ASSUME Careful, TypeOK, HoldsLock, JobsFit, ListsMatch,
         NEW r \in Runners, RunnerStep(r), NEW q \in Runners, q # r
  PROVE  ListMatches(q)'
<1>1. runner'[q] = runner[q]
  BY RecordsMove DEF Others
<1>2. ListMatches(q)
  BY DEF ListsMatch, ListMatches
<1>3. CASE records' = records
  BY <1>1, <1>2, <1>3 DEF ListMatches
<1>4. CASE RecordApplied(r)
  <2>1. \E v \in Versions : records' = records \cup {v}
    BY <1>4, RecordIs DEF TypeOK
  <2>2. runner[q].pc \in Working => runner[q].job # "rollback"
    BY <1>4, AtWork, RollbackAlone
  <2>3. records \subseteq records' /\ records' \subseteq Versions
    BY <2>1 DEF TypeOK
  <2>4. Reverting \cup {"renew"} \subseteq Working
    BY DEF Reverting, Working
  <2> QED BY <1>1, <1>2, <2>2, <2>3, <2>4 DEF ListMatches
<1>5. CASE EraseRecord(r)
  <2>1. runner[q].pc \notin Working
    BY <1>5, AtWork, RollbackAlone
  <2> QED BY <1>1, <2>1 DEF ListMatches, Working, Applying, Reverting
<1> QED BY <1>3, <1>4, <1>5, RecordsMove

LEMMA OwnMatch ==
  ASSUME Automatic = Versions, TypeOK, JobsFit, ListsMatch,
         NEW r \in Runners, RunnerStep(r)
  PROVE  ListMatches(r)'
<1>m. ListMatches(r)
  BY DEF ListsMatch, ListMatches
<1>t. /\ runner[r].todo \subseteq Versions /\ records \subseteq Versions
      /\ runner[r].job \in {"migrate", "rollback"}
      /\ runner[r].level \in {"AUTO", "ALL"}
  BY DEF TypeOK
<1>j. /\ runner[r].pc \in {"order"} \cup Applying => runner[r].job = "migrate"
      /\ runner[r].pc \in Reverting => runner[r].job = "rollback"
  BY DEF JobsFit
<1>1. CASE \E level \in {"AUTO", "ALL"} : StartMigrate(r, level)
  BY <1>1, StartIs DEF ListMatches, Applying, Reverting
<1>2. CASE \E target \in Versions : StartRollback(r, target)
  BY <1>2, RollbackIs DEF ListMatches, Applying, Reverting
<1>3. CASE CheckOrder(r) \/ AcquireLock(r) \/ ReleaseLock(r)
  <2>1. runner'[r].pc \in {"lock", "failed", "list", "ok"}
    <3>1. CASE CheckOrder(r)
      BY <3>1, GotoIs DEF CheckOrder
    <3>2. CASE AcquireLock(r)
      BY <3>2, GotoIs DEF AcquireLock, LockMissed
    <3>3. CASE ReleaseLock(r)
      <4>1. runner[r].result \in {"ok", "failed"}
        BY DEF TypeOK
      <4> QED BY <3>3, <4>1, GotoIs DEF ReleaseLock
    <3> QED BY <1>3, <3>1, <3>2, <3>3
  <2> QED BY <2>1 DEF ListMatches, Applying, Reverting
<1>4. CASE ReadList(r)
  <2> DEFINE todo == FreshList(r)
  <2>1. /\ SameJob(r) /\ runner'[r].todo = todo /\ records' = records
        /\ todo = {} => runner'[r].pc = "release"
        /\ todo # {} => runner'[r].pc =
                          IF runner[r].job = "migrate" THEN "up" ELSE "down"
    BY <1>4, ProceedIs DEF ReadList
  <2>2. CASE runner[r].job = "migrate"
    <3>1. todo = Versions \ records
      BY <2>2, <1>t DEF FreshList, PendingNow, Pending, Selected
    <3>2. todo = {} => records = Versions
      BY <3>1, <1>t
    <3> HIDE DEF todo
    <3> QED BY <2>1, <2>2, <3>1, <3>2 DEF ListMatches, SameJob, Applying, Reverting
  <2>3. CASE runner[r].job = "rollback"
    <3>1. todo = {v \in records : v > runner[r].target}
      BY <2>3 DEF FreshList
    <3> HIDE DEF todo
    <3> QED BY <2>1, <2>3, <3>1 DEF ListMatches, SameJob, Applying, Reverting
  <2> QED BY <2>2, <2>3, <1>t
<1>5. CASE BeginUp(r) \/ EndUp(r)
  <2>1. /\ SameList(r) /\ records' = records
        /\ runner'[r].pc \in {"body", "verify"} /\ runner[r].pc \in Applying
    BY <1>5, GotoIs DEF BeginUp, EndUp, Applying
  <2> QED BY <2>1, <1>m, <1>j DEF ListMatches, SameList, Applying, Reverting
<1>6. CASE EndDown(r)
  <2>1. /\ SameList(r) /\ records' = records
        /\ runner'[r].pc = "erase" /\ runner[r].pc \in Reverting
    BY <1>6, GotoIs DEF EndDown, Reverting
  <2> QED BY <2>1, <1>m, <1>j DEF ListMatches, SameList, Applying, Reverting
<1>7. CASE BodyRaises(r)
  <2>1. runner'[r].pc = "release" /\ runner'[r].result = "failed"
    BY <1>7, FinishIs DEF BodyRaises
  <2> QED BY <2>1 DEF ListMatches, Applying, Reverting
<1>8. CASE VerifyUp(r) \/ BeginDown(r)
  <2>1. CASE runner'[r].pc = "release" /\ runner'[r].result = "failed"
    BY <2>1 DEF ListMatches, Applying, Reverting
  <2>2. CASE /\ SameList(r) /\ records' = records
             /\ \/ runner'[r].pc = "record" /\ runner[r].pc \in Applying
                \/ runner'[r].pc = "undo" /\ runner[r].pc \in Reverting
    BY <2>2, <1>m, <1>j DEF ListMatches, SameList, Applying, Reverting
  <2> QED BY <1>8, <2>1, <2>2, GotoIs, FinishIs
          DEF VerifyUp, BeginDown, Applying, Reverting
<1>9. CASE RecordApplied(r)
  <2>1. PICK v \in runner[r].todo :
          /\ records' = records \cup {v}
          /\ runner'[r].pc = "renew" /\ runner'[r].todo = runner[r].todo \ {v}
          /\ SameJob(r)
    BY <1>9, RecordIs
  <2>2. runner[r].job = "migrate" /\ Versions \ runner[r].todo \subseteq records
    BY <1>9, <1>m, <1>j DEF RecordApplied, ListMatches, Applying
  <2> QED BY <2>1, <2>2, <1>t DEF ListMatches, SameJob, Applying, Reverting
<1>10. CASE EraseRecord(r)
  <2>1. PICK v \in runner[r].todo :
          /\ records' = records \ {v}
          /\ runner'[r].pc = "renew" /\ runner'[r].todo = runner[r].todo \ {v}
          /\ SameJob(r)
    BY <1>10, EraseIs
  <2>2. /\ runner[r].job = "rollback"
        /\ runner[r].todo = {w \in records : w > runner[r].target}
    BY <1>10, <1>m, <1>j DEF EraseRecord, ListMatches, Reverting
  <2> QED BY <2>1, <2>2, <1>t DEF ListMatches, SameJob, Applying, Reverting
<1>11. CASE RenewLock(r)
  <2>1. CASE runner'[r].pc = "release" /\ runner'[r].result = "failed"
    BY <2>1 DEF ListMatches, Applying, Reverting
  <2>2. CASE Proceed(r, runner[r].todo) /\ records' = records
    <3>1. /\ SameJob(r) /\ runner'[r].todo = runner[r].todo
          /\ runner[r].todo = {} => runner'[r].pc = "release"
          /\ runner[r].todo # {} => runner'[r].pc =
               IF runner[r].job = "migrate" THEN "up" ELSE "down"
      BY <2>2, ProceedIs
    <3>2. runner[r].pc = "renew"
      BY <1>11 DEF RenewLock
    <3>3. CASE runner[r].job = "migrate"
      <4>1. Versions \ runner[r].todo \subseteq records
        BY <3>2, <3>3, <1>m DEF ListMatches
      <4>2. runner[r].todo = {} => records = Versions
        BY <4>1, <1>t
      <4> QED BY <2>2, <3>1, <3>3, <4>1, <4>2
              DEF ListMatches, SameJob, Applying, Reverting
    <3>4. CASE runner[r].job = "rollback"
      <4>1. runner[r].todo = {v \in records : v > runner[r].target}
        BY <3>2, <3>4, <1>m DEF ListMatches
      <4> QED BY <2>2, <3>1, <3>4, <4>1 DEF ListMatches, SameJob, Applying, Reverting
    <3> QED BY <3>3, <3>4, <1>t
  <2> QED BY <1>11, <2>1, <2>2, FinishIs DEF RenewLock
<1>12. CASE Exit(r) \/ Kill(r)
  BY <1>12, IdleIs DEF ListMatches, Applying, Reverting
<1> QED BY <1>1, <1>2, <1>3, <1>4, <1>5, <1>6, <1>7, <1>8, <1>9, <1>10, <1>11,
           <1>12 DEF RunnerStep

LEMMA ListsNext ==
  ASSUME Automatic = Versions, Careful
  PROVE  TypeOK /\ HoldsLock /\ JobsFit /\ ListsMatch /\ [Next]_vars => ListsMatch'
<1> SUFFICES ASSUME TypeOK, HoldsLock, JobsFit, ListsMatch, [Next]_vars,
                    NEW q \in Runners
             PROVE  ListMatches(q)'
    BY DEF ListsMatch, ListMatches
<1>m. ListMatches(q)
  BY DEF ListsMatch, ListMatches
<1>1. CASE UNCHANGED vars
  BY <1>1, <1>m DEF vars, ListMatches
<1>2. CASE LeaseEnds
  BY <1>2, <1>m DEF LeaseEnds, ListMatches
<1>3. ASSUME NEW r \in Runners, RunnerStep(r) PROVE ListMatches(q)'
  BY <1>3, OthersMatch, OwnMatch
<1> QED BY <1>1, <1>2, <1>3 DEF Next

\* A new record is the first one missing, an erased one the last one there.
LEMMA NoGapNext ==
  ASSUME TypeOK, JobsFit, ListsMatch, NoGap, [Next]_vars
  PROVE  NoGap'
<1>1. CASE records' = records
  BY <1>1 DEF NoGap
<1>2. ASSUME NEW r \in Runners, RecordApplied(r) PROVE NoGap'
  <2>1. PICK v \in runner[r].todo :
          IsFirst(v, runner[r].todo) /\ records' = records \cup {v}
    BY <1>2, RecordIs
  <2>2. Versions \ runner[r].todo \subseteq records
    BY <1>2 DEF RecordApplied, JobsFit, ListsMatch, Applying
  <2>3. \A w \in Versions : w < v => w \in records
    BY <2>1, <2>2 DEF IsFirst, Versions, TypeOK
  <2> QED BY <2>1, <2>3 DEF NoGap
<1>3. ASSUME NEW r \in Runners, EraseRecord(r) PROVE NoGap'
  <2>1. PICK v \in runner[r].todo :
          IsLast(v, runner[r].todo) /\ records' = records \ {v}
    BY <1>3, EraseIs
  <2>2. runner[r].todo = {w \in records : w > runner[r].target}
    BY <1>3 DEF EraseRecord, JobsFit, ListsMatch, Reverting
  <2>3. runner[r].target \in Versions \cup {0} /\ records \subseteq Versions
    BY DEF TypeOK
  <2>4. ASSUME NEW x \in records, x # v, v < x PROVE FALSE
    <3>n. \A w \in Versions \cup {0} : w \in Nat
      BY VersionAssumption DEF Versions
    <3>v. v \in records /\ v > runner[r].target
      BY <2>2
    <3>m. v \in Nat /\ x \in Nat /\ runner[r].target \in Nat
      BY <2>3, <2>4, <3>n, <3>v
    <3>1. x > runner[r].target
      BY <2>4, <3>v, <3>m
    <3>2. x \in runner[r].todo /\ v \in Versions /\ x \in Versions
      BY <2>2, <2>3, <2>4, <3>1
    <3>3. v >= x
      BY <2>1, <3>2 DEF IsLast
    <3> QED BY <2>4, <3>2, <3>3, VersionAssumption DEF Versions
  <2> QED BY <2>1, <2>3, <2>4 DEF NoGap
<1>4. UNCHANGED vars \/ LeaseEnds \/ \E r \in Runners : RunnerStep(r)
  BY DEF Next
<1> QED BY <1>1, <1>2, <1>3, <1>4, RecordsMove DEF vars, LeaseEnds

\* The history has no gaps: no version is recorded above a missing one, with
\* rollbacks, or with leases that are outlived, but not with both.
THEOREM NoGaps ==
  ASSUME Automatic = Versions, Careful
  PROVE  Spec => []NoGap
<1> DEFINE Inv == TypeOK /\ HoldsLock /\ JobsFit /\ ListsMatch /\ NoGap
<1>1. Init => Inv
  BY TypeInit, LockInit, JobsInit, HistoryInit
<1>2. Inv /\ [Next]_vars => Inv'
  BY TypeNext, LockNext, JobsNext, ListsNext, NoGapNext
<1>3. Inv => NoGap
  OBVIOUS
<1> QED BY <1>1, <1>2, <1>3, PTL DEF Spec

-----------------------------------------------------------------------------
(* What is recorded is in force                                            *)

LEMMA OneFirst ==
  ASSUME NEW S \in SUBSET Versions, NEW v, NEW w
  PROVE  /\ IsFirst(v, S) /\ IsFirst(w, S) => v = w
         /\ IsLast(v, S) /\ IsLast(w, S) => v = w
<1>1. \A x, y \in S : x \in Nat /\ y \in Nat /\ (x <= y /\ y <= x => x = y)
  BY VersionAssumption DEF Versions
<1>2. ASSUME IsFirst(v, S), IsFirst(w, S) PROVE v = w
  <2>1. v \in S /\ w \in S /\ v <= w /\ w <= v
    BY <1>2 DEF IsFirst
  <2> QED BY <1>1, <2>1
<1>3. ASSUME IsLast(v, S), IsLast(w, S) PROVE v = w
  <2>1. v \in S /\ w \in S /\ v >= w /\ w >= v
    BY <1>3 DEF IsLast
  <2> QED BY <1>1, <2>1
<1> QED BY <1>2, <1>3

\* Some places are reached by one action only.
LEMMA Entering ==
  ASSUME TypeOK, NEW r \in Runners, RunnerStep(r)
  PROVE  /\ runner'[r].pc = "record" => VerifyUp(r)
         /\ runner'[r].pc = "undo" => BeginDown(r)
         /\ runner'[r].pc = "erase" => EndDown(r)
         /\ runner'[r].pc = "ok" =>
              \/ \E level \in {"AUTO", "ALL"} : StartMigrate(r, level)
              \/ ReleaseLock(r) \/ UNCHANGED runner
<1> DEFINE Places == {"record", "undo", "erase", "ok"}
<1> SUFFICES ASSUME ~VerifyUp(r), ~BeginDown(r), ~EndDown(r), ~ReleaseLock(r),
                    ~\E level \in {"AUTO", "ALL"} : StartMigrate(r, level)
             PROVE  runner'[r].pc \notin Places
  <2>1. CASE VerifyUp(r)
    BY <2>1, GotoIs, FinishIs DEF VerifyUp
  <2>2. CASE BeginDown(r)
    BY <2>2, GotoIs, FinishIs DEF BeginDown
  <2>3. CASE EndDown(r)
    <3>1. Goto(r, "erase")
      BY <2>3 DEF EndDown
    <3>2. runner'[r].pc = "erase"
      BY <3>1, GotoIs
    <3> QED BY <2>3, <3>2
  <2>4. CASE ReleaseLock(r)
    <3>1. runner[r].result \in {"ok", "failed"}
      BY DEF TypeOK
    <3> QED BY <2>4, <3>1, GotoIs DEF ReleaseLock
  <2>5. CASE \E level \in {"AUTO", "ALL"} : StartMigrate(r, level)
    BY <2>5, StartIs
  <2> QED BY <2>1, <2>2, <2>3, <2>4, <2>5
<1>2. CASE \E target \in Versions : StartRollback(r, target)
  BY <1>2, RollbackIs
<1>3. CASE CheckOrder(r)
  BY <1>3, GotoIs DEF CheckOrder
<1>4. CASE AcquireLock(r)
  BY <1>4, GotoIs DEF AcquireLock, LockMissed
<1>5. CASE ReadList(r) \/ RenewLock(r)
  <2>1. runner'[r].pc \in {"release", "up", "down"}
    BY <1>5, ProceedIs, FinishIs DEF ReadList, RenewLock
  <2> QED BY <2>1
<1>6. CASE BeginUp(r) \/ EndUp(r)
  BY <1>6, GotoIs DEF BeginUp, EndUp
<1>7. CASE BodyRaises(r)
  BY <1>7, FinishIs DEF BodyRaises
<1>8. CASE RecordApplied(r) \/ EraseRecord(r)
  BY <1>8, RecordIs, EraseIs
<1>9. CASE Exit(r) \/ Kill(r)
  BY <1>9, IdleIs
<1> QED BY <1>2, <1>3, <1>4, <1>5, <1>6, <1>7, <1>8, <1>9 DEF RunnerStep

\* What is in force stays so until a rollback begins on it.
LEMMA DoneStays ==
  ASSUME TypeOK, NEW r \in Runners, RunnerStep(r),
         NEW v \in Versions, effect[v] = "done"
  PROVE  \/ effect'[v] = "done"
         \/ (BeginDown(r) \/ EndDown(r)) /\ Undoing(r, v)'
<1>1. CASE effect' = effect
  BY <1>1
<1>2. CASE BeginUp(r) \/ EndUp(r)
  BY <1>2 DEF BeginUp, EndUp, TypeOK
<1>3. CASE BeginDown(r) \/ EndDown(r)
  <2>1. CASE effect'[v] = "done"
    BY <2>1
  <2>2. CASE effect'[v] # "done"
    <3>1. IsLast(v, runner[r].todo)
      BY <1>3, <2>2 DEF BeginDown, EndDown, TypeOK
    <3>2. runner'[r].pc \in {"undo", "erase"} /\ SameList(r)
      BY <1>3, <2>2, GotoIs DEF BeginDown, EndDown
    <3> QED BY <1>3, <3>1, <3>2 DEF Undoing, SameList
  <2> QED BY <2>1, <2>2
<1>4. CASE \/ CheckOrder(r) \/ AcquireLock(r) \/ ReadList(r) \/ BodyRaises(r)
           \/ VerifyUp(r) \/ RecordApplied(r) \/ EraseRecord(r) \/ RenewLock(r)
           \/ ReleaseLock(r) \/ Exit(r) \/ Kill(r)
  BY <1>1, <1>4 DEF CheckOrder, AcquireLock, ReadList, BodyRaises, VerifyUp,
                    RecordApplied, EraseRecord, RenewLock, ReleaseLock, Exit, Kill
<1>5. CASE \/ \E level \in {"AUTO", "ALL"} : StartMigrate(r, level)
           \/ \E target \in Versions : StartRollback(r, target)
  BY <1>1, <1>5 DEF StartMigrate, StartRollback
<1> QED BY <1>2, <1>3, <1>4, <1>5 DEF RunnerStep

\* A rollback that is not cut short goes on until the record is gone.
LEMMA UndoingStays ==
  ASSUME TypeOK, "halfdown" \notin Events, NEW r \in Runners, RunnerStep(r),
         NEW q \in Runners, NEW v, Undoing(q, v)
  PROVE  Undoing(q, v)' \/ (q = r /\ EraseRecord(r))
<1>1. CASE q # r
  <2>1. runner'[q] = runner[q]
    BY <1>1, RecordsMove DEF Others
  <2> QED BY <2>1 DEF Undoing
<1>2. CASE q = r
  <2>1. runner[r].pc \in {"undo", "erase"} /\ IsLast(v, runner[r].todo)
    BY <1>2 DEF Undoing
  <2>2. EndDown(r) \/ EraseRecord(r)
    BY <2>1 DEF RunnerStep, StartMigrate, StartRollback, CheckOrder, AcquireLock,
                ReadList, BeginUp, EndUp, BodyRaises, VerifyUp, RecordApplied,
                BeginDown, RenewLock, ReleaseLock, Exit, Kill
  <2>3. EndDown(r) => runner'[r].pc = "erase" /\ SameList(r)
    BY GotoIs DEF EndDown
  <2> QED BY <1>2, <2>1, <2>2, <2>3 DEF Undoing, SameList
<1> QED BY <1>1, <1>2

LEMMA CheckedNext ==
  ASSUME Careful, TypeOK, HoldsLock, JobsFit, CheckedFirst, [Next]_vars
  PROVE  CheckedFirst'
<1> SUFFICES ASSUME NEW q \in Runners, runner'[q].pc = "record",
                    NEW v \in runner'[q].todo, IsFirst(v, runner'[q].todo)
             PROVE  effect'[v] = "done"
    BY DEF CheckedFirst
<1>1. CASE UNCHANGED vars
  BY <1>1 DEF vars, CheckedFirst
<1>2. CASE LeaseEnds
  BY <1>2 DEF LeaseEnds, CheckedFirst
<1>3. ASSUME NEW r \in Runners, RunnerStep(r) PROVE effect'[v] = "done"
  <2>1. CASE q # r
    <3>1. runner'[q] = runner[q]
      BY <1>3, <2>1, RecordsMove DEF Others
    <3>2. effect[v] = "done" /\ v \in Versions
      BY <3>1 DEF CheckedFirst, TypeOK
    <3>3. ~BeginDown(r) /\ ~EndDown(r)
      <4>1. runner[q].pc \in Working
        BY <3>1 DEF Working
      <4>2. BeginDown(r) \/ EndDown(r) => runner[r].pc \in Working
                                          /\ runner[r].job = "rollback"
        BY DEF BeginDown, EndDown, JobsFit, Working, Reverting
      <4> QED BY <2>1, <4>1, <4>2, RollbackAlone
    <3> QED BY <1>3, <3>2, <3>3, DoneStays
  <2>2. CASE q = r
    <3>1. VerifyUp(r)
      BY <1>3, <2>2, Entering
    <3>2. PICK w \in runner[r].todo :
            /\ IsFirst(w, runner[r].todo)
            /\ IF Verified(w) THEN Goto(r, "record") ELSE Finish(r, "failed")
      BY <3>1 DEF VerifyUp
    <3>3. Verified(w) /\ SameList(r) /\ effect' = effect
      BY <2>2, <3>1, <3>2, GotoIs, FinishIs DEF VerifyUp
    <3>4. runner[r].todo \in SUBSET Versions
      BY DEF TypeOK
    <3>5. v = w
      BY <2>2, <3>2, <3>3, <3>4, OneFirst DEF SameList
    <3> QED BY <3>3, <3>5 DEF Verified
  <2> QED BY <2>1, <2>2
<1> QED BY <1>1, <1>2, <1>3 DEF Next

LEMMA ReversibleNext ==
  ASSUME TypeOK, OnlyReversible, [Next]_vars
  PROVE  OnlyReversible'
<1> SUFFICES ASSUME NEW q \in Runners, NEW v \in Versions, Undoing(q, v)'
             PROVE  v \in Reversible
    BY DEF OnlyReversible
<1>1. CASE UNCHANGED vars
  BY <1>1 DEF vars, OnlyReversible, Undoing
<1>2. CASE LeaseEnds
  BY <1>2 DEF LeaseEnds, OnlyReversible, Undoing
<1>3. ASSUME NEW r \in Runners, RunnerStep(r) PROVE v \in Reversible
  <2>1. CASE q # r
    <3>1. runner'[q] = runner[q]
      BY <1>3, <2>1, RecordsMove DEF Others
    <3> QED BY <3>1 DEF Undoing, OnlyReversible
  <2>2. CASE q = r
    <3>1. (BeginDown(r) /\ runner'[r].pc = "undo") \/ EndDown(r)
      BY <1>3, <2>2, Entering DEF Undoing
    <3>2. CASE EndDown(r)
      <4>1. SameList(r) /\ runner[r].pc = "undo"
        BY <3>2, GotoIs DEF EndDown
      <4> QED BY <2>2, <4>1 DEF Undoing, SameList, OnlyReversible
    <3>3. CASE BeginDown(r) /\ runner'[r].pc = "undo"
      <4>1. PICK w \in runner[r].todo :
              /\ IsLast(w, runner[r].todo)
              /\ IF w \in Reversible THEN Goto(r, "undo") ELSE Finish(r, "failed")
        BY <3>3 DEF BeginDown
      <4>2. w \in Reversible /\ SameList(r)
        BY <3>3, <4>1, GotoIs, FinishIs
      <4>3. runner[r].todo \in SUBSET Versions
        BY DEF TypeOK
      <4>4. v = w
        BY <2>2, <4>1, <4>2, <4>3, OneFirst DEF Undoing, SameList
      <4> QED BY <4>2, <4>4
    <3> QED BY <3>1, <3>2, <3>3
  <2> QED BY <2>1, <2>2
<1> QED BY <1>1, <1>2, <1>3 DEF Next

LEMMA RecordedNext ==
  ASSUME "halfdown" \notin Events, TypeOK, CheckedFirst, RecordedIsDone,
         [Next]_vars
  PROVE  RecordedIsDone'
<1> DEFINE Sound(v) == effect[v] = "done" \/ \E q \in Runners : Undoing(q, v)
<1>0. SUFFICES ASSUME NEW v \in records' PROVE Sound(v)'
      BY DEF RecordedIsDone
<1>s. \A w \in records : Sound(w)
      BY DEF RecordedIsDone
<1>1. CASE UNCHANGED vars
  BY <1>1, <1>s DEF vars, Undoing
<1>2. CASE LeaseEnds
  BY <1>2, <1>s DEF LeaseEnds, Undoing
<1>3. ASSUME NEW r \in Runners, RunnerStep(r) PROVE Sound(v)'
  <2>1. CASE v \in records
    <3>1. v \in Versions
      BY <2>1 DEF TypeOK
    <3>2. CASE effect[v] = "done"
      BY <1>3, <3>1, <3>2, DoneStays
    <3>3. ASSUME NEW q \in Runners, Undoing(q, v) PROVE Sound(v)'
      <4>1. CASE Undoing(q, v)'
        BY <4>1
      <4>2. CASE q = r /\ EraseRecord(r)
        <5>1. PICK w \in runner[r].todo :
                IsLast(w, runner[r].todo) /\ records' = records \ {w}
          BY <4>2, EraseIs
        <5>2. runner[r].todo \in SUBSET Versions
          BY DEF TypeOK
        <5>3. v = w
          BY <3>3, <4>2, <5>1, <5>2, OneFirst DEF Undoing
        <5> QED BY <5>1, <5>3
      <4> QED BY <1>3, <3>3, <4>1, <4>2, UndoingStays
    <3> QED BY <2>1, <3>2, <3>3, <1>s
  <2>2. CASE v \notin records
    <3>1. RecordApplied(r)
      BY <1>3, <2>2, RecordsMove, EraseIs
    <3>2. PICK w \in runner[r].todo :
            IsFirst(w, runner[r].todo) /\ records' = records \cup {w}
      BY <3>1, RecordIs
    <3>3. v = w
      BY <2>2, <3>2
    <3>4. effect[v] = "done" /\ effect' = effect
      BY <3>1, <3>2, <3>3 DEF RecordApplied, CheckedFirst
    <3> QED BY <3>4
  <2> QED BY <2>1, <2>2
<1> QED BY <1>1, <1>2, <1>3 DEF Next

LEMMA RecordedInit == Init => RecordedIsDone
BY DEF Init, RecordedIsDone

\* What is recorded as applied is in force, unless a rollback is undoing it.
THEOREM RecordsHold ==
  ASSUME Automatic = Versions, Careful, "halfdown" \notin Events
  PROVE  Spec => []RecordedIsDone
<1> DEFINE Inv == MigrationInv /\ RecordedIsDone
<1>1. Init => Inv
  BY TypeInit, LockInit, JobsInit, HistoryInit, RecordedInit DEF MigrationInv
<1>2. Inv /\ [Next]_vars => Inv'
  BY TypeNext, LockNext, JobsNext, ListsNext, NoGapNext, CheckedNext,
     ReversibleNext, RecordedNext DEF MigrationInv
<1>3. Inv => RecordedIsDone
  OBVIOUS
<1> QED BY <1>1, <1>2, <1>3, PTL DEF Spec

\* A rollback would have to begin with the newest version, which refuses.
LEMMA AllInForce ==
  ASSUME MigrationInv, RecordedIsDone, VersionCount \notin Reversible,
         records = Versions, NEW v \in Versions
  PROVE  effect[v] = "done"
<1> SUFFICES ASSUME NEW q \in Runners, Undoing(q, v) PROVE FALSE
    BY DEF RecordedIsDone
<1>1. runner[q].todo = {w \in records : w > runner[q].target}
  BY DEF MigrationInv, JobsFit, ListsMatch, Undoing, Reverting
<1>2. IsLast(v, runner[q].todo) /\ v \in Reversible
  BY DEF MigrationInv, OnlyReversible, Undoing
<1>3. runner[q].target \in Versions \cup {0}
  BY DEF MigrationInv, TypeOK
<1>4. VersionCount \in runner[q].todo
  <2>1. v > runner[q].target /\ v <= VersionCount /\ VersionCount \in Versions
    BY <1>1, <1>2, VersionAssumption DEF IsLast, Versions
  <2>2. VersionCount > runner[q].target
    BY <2>1, <1>3, VersionAssumption DEF Versions
  <2> QED BY <1>1, <2>1, <2>2
<1>5. v = VersionCount
  BY <1>2, <1>4, VersionAssumption DEF IsLast, Versions
<1> QED BY <1>2, <1>5

\* migrate exits 0 only on a database in which everything it was asked for is
\* in force, if the newest version is irreversible and rollbacks are not cut
\* short between undoing a version and erasing its record.
THEOREM ExitIsClean ==
  ASSUME Automatic = Versions, Careful, "halfdown" \notin Events,
         VersionCount \notin Reversible
  PROVE  Spec => CleanExit
<1> DEFINE Inv == MigrationInv /\ RecordedIsDone
           ExitOf(r) == /\ runner[r].pc # "ok" /\ runner'[r].pc = "ok"
                        /\ runner'[r].job = "migrate"
                        => \A v \in Selected(runner'[r].level) : effect[v] = "done"
<1>1. Init => Inv
  BY TypeInit, LockInit, JobsInit, HistoryInit, RecordedInit DEF MigrationInv
<1>2. Inv /\ [Next]_vars => Inv'
  BY TypeNext, LockNext, JobsNext, ListsNext, NoGapNext, CheckedNext,
     ReversibleNext, RecordedNext DEF MigrationInv
<1>3. ASSUME Inv, [Next]_vars, NEW q \in Runners PROVE ExitOf(q) \/ UNCHANGED vars
  <2> SUFFICES ASSUME runner[q].pc # "ok", runner'[q].pc = "ok",
                      runner'[q].job = "migrate", ~UNCHANGED vars
               PROVE  \A v \in Selected(runner'[q].level) : effect[v] = "done"
    OBVIOUS
  <2>t. TypeOK
    BY <1>3 DEF MigrationInv
  <2>l. ~LeaseEnds
    BY DEF LeaseEnds
  <2>1. PICK r \in Runners : RunnerStep(r)
    BY <1>3, <2>l DEF Next
  <2>2. q = r
    BY <2>1, <2>t, RecordsMove DEF Others
  <2>3. records = Versions
    <3>1. CASE \E level \in {"AUTO", "ALL"} : StartMigrate(r, level)
      <4>1. PICK level \in {"AUTO", "ALL"} : Pending(level) = {}
        BY <2>2, <2>t, <3>1, StartIs
      <4>2. Versions \ records = {}
        BY <4>1 DEF Pending, Selected
      <4> QED BY <4>2, <2>t DEF TypeOK
    <3>2. CASE ReleaseLock(r)
      <4>1. /\ runner[r].pc = "release" /\ runner[r].result = "ok"
            /\ runner[r].job = "migrate"
        BY <2>2, <2>t, <3>2, GotoIs DEF ReleaseLock, SameList
      <4> QED BY <1>3, <4>1 DEF MigrationInv, ListsMatch
    <3>3. CASE UNCHANGED runner
      BY <3>3
    <3> QED BY <2>1, <2>2, <2>t, <3>1, <3>2, <3>3, Entering
  <2>4. Selected(runner'[q].level) \subseteq Versions
    BY DEF Selected
  <2> QED BY <1>3, <2>3, <2>4, AllInForce
<1>4. Inv /\ [Next]_vars => [\A r \in Runners : ExitOf(r)]_vars
  BY <1>3
<1> QED BY <1>1, <1>2, <1>4, PTL DEF Spec, CleanExit

-----------------------------------------------------------------------------
(***************************************************************************)
(* The names of people, and migration 0006 that makes them searchable.     *)
(***************************************************************************)
Words == Names \cup {NoWord} \cup UNION AliasLists
Forms == {Fold[w] : w \in Words} \cup {NoWord}
UserDoc == [name : Words, aliases : SUBSET Words, shown : Words, search : Forms,
            found : SUBSET Forms]
TeamerDoc == [aliases : SUBSET Words, shown : Words, found : SUBSET Forms, version : Nat]
EditPlaces == {"idle", "user", "teamer", "sync"}
Edit == [at : EditPlaces, who : People, was : UserDoc, user : UserDoc, had : TeamerDoc,
         teamer : TeamerDoc, sync : Words]

ProfileTypeOK ==
  /\ user \in [People -> UserDoc] /\ teamer \in [People -> TeamerDoc]
  /\ worker \in [People -> [name : Words, search : Forms]]
  /\ edit \in [Editors -> Edit]
  /\ backfill.at = "users" => \A u \in People : backfill.read[u] \in Forms
  /\ backfill.at = "teamers" => \A u \in People : backfill.read[u] \in SUBSET Forms
  /\ backfill.at = "workers" => \A u \in People : backfill.read[u] \in Forms

\* What passes the checks of User and of TeamMember.
NameIsNoAlias(d) == Fold[d.name] \notin Folded(d.aliases)
ShowsOwnName(d) == d.shown \in {NoWord, d.name} \cup d.aliases
Passes(d) == NameIsNoAlias(d) /\ ShowsOwnName(d)

\* The document a request is about to save is right in itself, whatever has
\* become of the stored one, and a new name differs by more than its case.
ProfileReady(r) ==
  r.at = "user" =>
    /\ Passes(r.user) /\ Projected(r.user)
    /\ r.user.name # r.was.name => Fold[r.user.name] # Fold[r.was.name]

\* The version a request has read tells the aliases it has read.
TeamerReady(r) ==
  r.at = "teamer" =>
    /\ Fold[r.was.name] \notin Folded(r.teamer.aliases)
    /\ r.teamer.found = Folded(r.teamer.aliases)
    /\ r.teamer.version = r.had.version + 1
    /\ r.had.version <= teamer[r.who].version
    /\ r.had.version = teamer[r.who].version => r.had.aliases = teamer[r.who].aliases

EditsReady == \A e \in Editors : ProfileReady(edit[e]) /\ TeamerReady(edit[e])

\* Once the migration is recorded, the copies follow the names, and so do
\* those of the documents that requests have loaded.
CopiesFollow ==
  (backfill.at = "done" /\ "straggler" \notin crossed) =>
    /\ \A u \in People : Projected(user[u]) /\ TeamerFound(u) /\ WorkerFound(u)
    /\ \A e \in Editors : ~ Straggler(e)

ProfileInv == ProfileTypeOK /\ EditsReady /\ DocumentsStaySavable /\ CopiesFollow

LEMMA FoldedForms == \A S \in SUBSET Words : Folded(S) \in SUBSET Forms
BY DEF Folded, Forms

LEMMA ProfileInitInv == ProfileInit => ProfileInv
<1> SUFFICES ASSUME ProfileInit PROVE ProfileInv
  OBVIOUS
<1>1. PICK n \in [People -> Names] :
        /\ user = [u \in People |-> [NoUser EXCEPT !.name = n[u]]]
        /\ worker = [u \in People |-> [name |-> n[u], search |-> NoWord]]
  BY DEF ProfileInit
<1>2. NoUser \in UserDoc /\ NoTeamer \in TeamerDoc
  BY DEF NoUser, NoTeamer, UserDoc, TeamerDoc, Words, Forms
<1>3. user \in [People -> UserDoc]
  BY <1>1, <1>2 DEF UserDoc, Words
<1>4. worker \in [People -> [name : Words, search : Forms]]
  BY <1>1 DEF Words, Forms
<1>5. \A u \in People : Resting(u) \in Edit /\ Resting(u).at = "idle"
  BY <1>2 DEF Resting, Edit, EditPlaces, Words
<1>6. edit \in [Editors -> Edit] /\ \A e \in Editors : edit[e].at = "idle"
  BY <1>5 DEF ProfileInit
<1>7. ProfileTypeOK
  BY <1>2, <1>3, <1>4, <1>6 DEF ProfileInit, ProfileTypeOK
<1>8. EditsReady
  BY <1>6 DEF EditsReady, ProfileReady, TeamerReady
<1>9. DocumentsStaySavable /\ CopiesFollow
  BY <1>1 DEF ProfileInit, DocumentsStaySavable, CopiesFollow, NoUser, NoTeamer, Folded
<1> QED
  BY <1>7, <1>8, <1>9 DEF ProfileInv

LEMMA RestingRight ==
  ASSUME NEW u \in People
  PROVE  /\ Resting(u) \in Edit /\ Resting(u).at = "idle" /\ Resting(u).who = u
         /\ NoUser \in UserDoc /\ NoTeamer \in TeamerDoc
<1>1. NoUser \in UserDoc /\ NoTeamer \in TeamerDoc
  BY DEF NoUser, NoTeamer, UserDoc, TeamerDoc, Words, Forms
<1> QED
  BY <1>1 DEF Resting, Edit, EditPlaces, Words

LEMMA Remembered ==
  ASSUME NEW r \in Edit, NEW at \in EditPlaces
  PROVE  /\ \A was, new \in UserDoc : [r EXCEPT !.at = at, !.was = was, !.user = new] \in Edit
         /\ \A was \in UserDoc, had, new \in TeamerDoc, sync \in Words :
              [r EXCEPT !.at = at, !.was = was, !.had = had, !.teamer = new, !.sync = sync] \in Edit
         /\ \A sync \in Words : [r EXCEPT !.at = at, !.sync = sync] \in Edit
<1>1. \A was, new \in UserDoc : [r EXCEPT !.at = at, !.was = was, !.user = new] \in Edit
  BY DEF Edit
<1>2. \A was \in UserDoc, had, new \in TeamerDoc, sync \in Words :
        [r EXCEPT !.at = at, !.was = was, !.had = had, !.teamer = new, !.sync = sync] \in Edit
  BY DEF Edit
<1>3. \A sync \in Words : [r EXCEPT !.at = at, !.sync = sync] \in Edit
  BY DEF Edit
<1> QED
  BY <1>1, <1>2, <1>3

\* The editor has got one more memory; the others are as they were.
Edits(e, r) == r \in Edit /\ edit' = [edit EXCEPT ![e] = r]

LEMMA EditsLater ==
  ASSUME ProfileTypeOK, NEW e \in Editors, NEW r, Edits(e, r)
  PROVE  /\ edit' \in [Editors -> Edit] /\ edit'[e] = r
         /\ \A x \in Editors : x # e => edit'[x] = edit[x]
BY DEF ProfileTypeOK, Edits

Stands(e) == edit[e].at = "user" => Projected(edit[e].was)

\* A request that only remembers something.
LEMMA OnlyRemembers ==
  ASSUME ProfileInv, NEW e \in Editors, NEW r, Edits(e, r),
         UNCHANGED <<user, teamer, worker, backfill, crossed>>,
         ProfileReady(r), TeamerReady(r),
         r.at = "user" => r.was = user[r.who],
         r.at = "teamer" => r.had = teamer[r.who]
  PROVE  ProfileInv'
<1> USE DEF ProfileInv
<1>1. ProfileTypeOK'
  BY EditsLater DEF ProfileTypeOK
<1>2. EditsReady'
  BY EditsLater DEF EditsReady, ProfileReady, TeamerReady, Projected
<1>3. DocumentsStaySavable'
  BY DEF DocumentsStaySavable
<1>4. CopiesFollow'
  <2>1. ASSUME backfill.at = "done", "straggler" \notin crossed, NEW x \in Editors, Straggler(x)'
        PROVE  FALSE
    <3>1. CASE x = e
      <4>1. edit'[x] = r /\ r \in Edit /\ Projected(user[r.who]) /\ TeamerFound(r.who)
        BY <2>1, <3>1, EditsLater DEF CopiesFollow, Edits, Edit
      <4> QED
        BY <2>1, <4>1 DEF Straggler, Projected, TeamerFound
    <3>2. CASE x # e
      BY <2>1, <3>2, EditsLater DEF CopiesFollow, Straggler, Projected
    <3> QED
      BY <3>1, <3>2
  <2> QED
    BY <2>1 DEF CopiesFollow, Projected, TeamerFound, WorkerFound
<1> QED
  BY <1>1, <1>2, <1>3, <1>4

LEMMA LoadProfileKeeps ==
  ASSUME ProfileInv, NEW e \in Editors, NEW u \in People, NEW n \in Names, NEW a \in AliasLists,
         NEW s \in {user[u].shown, NoWord, n} \cup a, LoadProfile(e, u, n, a, s)
  PROVE  ProfileInv'
<1> DEFINE new == Clean([user[u] EXCEPT !.name = n, !.aliases = a, !.shown = s])
           r == [Resting(u) EXCEPT !.at = "user", !.was = user[u], !.user = new]
<1>1. user[u] \in UserDoc /\ n \in Words /\ a \in SUBSET Words /\ s \in Words /\ NoWord \in Words
  BY DEF ProfileInv, ProfileTypeOK, UserDoc, Words
<1>2. Fold[n] \in Forms /\ Folded(a) \in SUBSET Forms
  BY <1>1, FoldedForms DEF Forms
<1>3. /\ new.name = n /\ new.aliases = a /\ new.shown \in {NoWord, n} \cup a
      /\ new.search = Fold[n] /\ new.found = Folded(a) /\ new \in UserDoc
  BY <1>1, <1>2 DEF Clean, UserDoc
<1> HIDE DEF new
<1>4. r \in Edit /\ r.at = "user" /\ r.was = user[u] /\ r.user = new /\ r.who = u
  <2>1. r \in Edit
    BY <1>1, <1>3, RestingRight, Remembered DEF EditPlaces
  <2> QED
    BY <2>1 DEF Resting
<1>5. Edits(e, r)
  BY <1>4 DEF LoadProfile, BeginEdit, Edits, new
<1>6. n # user[u].name => Fold[n] # Fold[user[u].name]
  BY DEF LoadProfile, Free
<1>7. ProfileReady(r) /\ TeamerReady(r)
  BY <1>3, <1>4, <1>6 DEF ProfileReady, TeamerReady, Passes, NameIsNoAlias, ShowsOwnName, Projected,
     LoadProfile, Clashes
<1> QED
  BY <1>4, <1>5, <1>7, OnlyRemembers DEF LoadProfile

LEMMA LoadTeamerKeeps ==
  ASSUME ProfileInv, NEW e \in Editors, NEW u \in People, NEW a \in AliasLists, NEW sync \in BOOLEAN,
         NEW s \in {teamer[u].shown, NoWord} \cup a, LoadTeamer(e, u, a, s, sync)
  PROVE  ProfileInv'
<1> DEFINE new == CleanTeamer([teamer[u] EXCEPT !.aliases = a, !.shown = s, !.version = @ + 1])
           told == IF sync THEN ShownName(s, user[u]) ELSE NoWord
           r == [Resting(u) EXCEPT !.at = "teamer", !.was = user[u], !.had = teamer[u],
                                   !.teamer = new, !.sync = told]
<1>1. /\ user[u] \in UserDoc /\ teamer[u] \in TeamerDoc /\ a \in SUBSET Words /\ s \in Words
      /\ NoWord \in Words /\ Folded(a) \in SUBSET Forms
  BY FoldedForms DEF ProfileInv, ProfileTypeOK, TeamerDoc, Words
<1>2. /\ new.aliases = a /\ new.found = Folded(a) /\ new.version = teamer[u].version + 1
      /\ teamer[u].version \in Nat /\ new \in TeamerDoc
  <2>1. teamer[u].version \in Nat /\ teamer[u].version + 1 \in Nat
    BY <1>1 DEF TeamerDoc
  <2> DEFINE d == [teamer[u] EXCEPT !.aliases = a, !.shown = s, !.version = @ + 1]
  <2>2. d \in TeamerDoc /\ d.aliases = a /\ d.version = teamer[u].version + 1
    BY <1>1, <2>1 DEF TeamerDoc
  <2> HIDE DEF d
  <2>3. /\ CleanTeamer(d) \in TeamerDoc /\ CleanTeamer(d).aliases = a
        /\ CleanTeamer(d).found = Folded(a) /\ CleanTeamer(d).version = d.version
    BY <1>1, <2>2 DEF CleanTeamer, TeamerDoc
  <2> QED
    BY <2>1, <2>2, <2>3 DEF d
<1>3. told \in Words
  BY <1>1 DEF ShownName, UserDoc
<1> HIDE DEF new, told
<1>4. /\ r \in Edit /\ r.at = "teamer" /\ r.was = user[u] /\ r.had = teamer[u] /\ r.teamer = new
      /\ r.who = u
  <2>1. r \in Edit
    BY <1>1, <1>2, <1>3, RestingRight, Remembered DEF EditPlaces
  <2> QED
    BY <2>1 DEF Resting
<1>5. Edits(e, r)
  BY <1>4 DEF LoadTeamer, BeginEdit, Edits, new, told
<1>6. ProfileReady(r) /\ TeamerReady(r)
  BY <1>2, <1>4 DEF ProfileReady, TeamerReady, LoadTeamer, Clashes
<1> QED
  BY <1>4, <1>5, <1>6, OnlyRemembers DEF LoadTeamer


\* save() writes the fields that differ from those loaded.
LEMMA MergedUser ==
  ASSUME NEW stored \in UserDoc, NEW loaded \in UserDoc, NEW new \in UserDoc
  PROVE  LET m == Merged(stored, loaded, new) IN
         /\ m \in UserDoc
         /\ m.name = IF new.name # loaded.name THEN new.name ELSE stored.name
         /\ m.aliases = IF new.aliases # loaded.aliases THEN new.aliases ELSE stored.aliases
         /\ m.shown = IF new.shown # loaded.shown THEN new.shown ELSE stored.shown
         /\ m.search = IF new.search # loaded.search THEN new.search ELSE stored.search
BY DEF Merged, UserDoc

LEMMA MergedTeamer ==
  ASSUME NEW stored \in TeamerDoc, NEW loaded \in TeamerDoc, NEW new \in TeamerDoc
  PROVE  LET m == Merged(stored, loaded, new) IN
         /\ m \in TeamerDoc
         /\ m.aliases = IF new.aliases # loaded.aliases THEN new.aliases ELSE stored.aliases
         /\ m.found = IF new.found # loaded.found THEN new.found ELSE stored.found
         /\ m.version = IF new.version # loaded.version THEN new.version ELSE stored.version
BY DEF Merged, TeamerDoc

LEMMA SaveProfileKeeps ==
  ASSUME ProfileInv, NEW e \in Editors, SaveProfile(e)
  PROVE  ProfileInv'
<1> DEFINE u == edit[e].who
<1> USE DEF ProfileInv, SaveProfile
<1>1. /\ edit[e] \in Edit /\ edit[e].at = "user" /\ u \in People /\ user[u] \in UserDoc
      /\ edit[e].was \in UserDoc /\ edit[e].user \in UserDoc /\ ProfileReady(edit[e])
  BY DEF ProfileTypeOK, Edit, EditsReady
<1>2. Edits(e, Resting(u))
  BY <1>1, RestingRight DEF Edits
<1>3. user' = [user EXCEPT ![u] = Merged(user[u], edit[e].was, edit[e].user)]
  OBVIOUS
<1>4. /\ user' \in [People -> UserDoc] /\ user'[u] = Merged(user[u], edit[e].was, edit[e].user)
      /\ \A v \in People : v # u => user'[v] = user[v]
  BY <1>1, <1>3, MergedUser DEF ProfileTypeOK
<1>5. /\ user'[u].name = IF edit[e].user.name # edit[e].was.name THEN edit[e].user.name ELSE user[u].name
      /\ user'[u].aliases = IF edit[e].user.aliases # edit[e].was.aliases THEN edit[e].user.aliases
                            ELSE user[u].aliases
      /\ user'[u].shown = IF edit[e].user.shown # edit[e].was.shown THEN edit[e].user.shown
                          ELSE user[u].shown
      /\ user'[u].search = IF edit[e].user.search # edit[e].was.search THEN edit[e].user.search
                           ELSE user[u].search
  BY <1>1, <1>4, MergedUser
<1>6. ProfileTypeOK'
  BY <1>1, <1>2, <1>4, EditsLater DEF ProfileTypeOK
<1>7. EditsReady'
  BY <1>1, <1>2, EditsLater, RestingRight DEF EditsReady, ProfileReady, TeamerReady, Projected
<1>8. DocumentsStaySavable'
  <2>1. ASSUME "profile" \notin crossed'
        PROVE  NameIsNoAlias(user'[u]) /\ ShowsOwnName(user'[u])
    <3>1. Called(user[u]) = Called(edit[e].was)
      BY <2>1
    <3>2. user'[u].name = edit[e].user.name /\ user'[u].aliases = edit[e].user.aliases
          /\ user'[u].shown = edit[e].user.shown
      BY <1>5, <3>1 DEF Called
    <3> QED
      BY <1>1, <3>2 DEF ProfileReady, Passes, NameIsNoAlias, ShowsOwnName
  <2>2. ASSUME "renamed" \notin crossed' PROVE Fold[user'[u].name] \notin Folded(teamer[u].aliases)
    BY <2>2 DEF Clashes
  <2>3. crossed \subseteq crossed'
    OBVIOUS
  <2> QED
    BY <1>1, <1>4, <2>1, <2>2, <2>3 DEF DocumentsStaySavable, NameIsNoAlias, ShowsOwnName
<1>9. CopiesFollow'
  <2> SUFFICES ASSUME backfill.at = "done", "straggler" \notin crossed' PROVE
        /\ \A v \in People : Projected(user'[v]) /\ TeamerFound(v)' /\ WorkerFound(v)'
        /\ \A x \in Editors : ~ Straggler(x)'
    BY DEF CopiesFollow
  <2>1. CopiesFollow /\ backfill.at = "done" /\ "straggler" \notin crossed
    OBVIOUS
  <2>2. Projected(user[u]) /\ Projected(edit[e].was) /\ Projected(edit[e].user)
        /\ (edit[e].user.name # edit[e].was.name => Fold[edit[e].user.name] # Fold[edit[e].was.name])
    BY <1>1, <2>1 DEF CopiesFollow, Straggler, ProfileReady
  <2>3. Projected(user'[u])
    BY <1>5, <2>2 DEF Projected
  <2>4. \A x \in Editors : ~ Straggler(x)'
    BY <1>1, <1>2, <2>1, EditsLater, RestingRight DEF CopiesFollow, Straggler, Projected
  <2> QED
    BY <1>1, <1>4, <2>1, <2>3, <2>4 DEF CopiesFollow, TeamerFound, WorkerFound, Projected
<1> QED
  BY <1>6, <1>7, <1>8, <1>9

LEMMA SaveTeamerKeeps ==
  ASSUME ProfileInv, NEW e \in Editors, SaveTeamer(e)
  PROVE  ProfileInv'
<1> DEFINE u == edit[e].who
           r == [Resting(u) EXCEPT !.at = IF edit[e].sync = NoWord THEN "idle" ELSE "sync",
                                   !.sync = edit[e].sync]
<1> USE DEF ProfileInv, SaveTeamer
<1>1. /\ edit[e] \in Edit /\ edit[e].at = "teamer" /\ u \in People /\ teamer[u] \in TeamerDoc
      /\ edit[e].had \in TeamerDoc /\ edit[e].teamer \in TeamerDoc /\ TeamerReady(edit[e])
      /\ edit[e].sync \in Words
  BY DEF ProfileTypeOK, Edit, EditsReady
<1>2. Edits(e, r) /\ r.at \notin {"user", "teamer"}
  <2>1. r \in Edit
    BY <1>1, Remembered, RestingRight DEF EditPlaces
  <2>2. r.at \notin {"user", "teamer"}
    BY DEF Resting
  <2> QED
    BY <2>1, <2>2 DEF Edits
<1> HIDE DEF r
<1>3. /\ teamer' \in [People -> TeamerDoc] /\ teamer'[u] = Merged(teamer[u], edit[e].had, edit[e].teamer)
      /\ \A v \in People : v # u => teamer'[v] = teamer[v]
  BY <1>1, MergedTeamer DEF ProfileTypeOK
<1>4. /\ edit[e].had.version \in Nat /\ edit[e].teamer.version = edit[e].had.version + 1
      /\ teamer[u].version \in Nat /\ edit[e].teamer.version = teamer[u].version + 1
      /\ edit[e].had.version = teamer[u].version /\ edit[e].had.aliases = teamer[u].aliases
  BY <1>1 DEF TeamerDoc, TeamerReady
<1>5. /\ teamer'[u].aliases = edit[e].teamer.aliases
      /\ teamer'[u].version = teamer[u].version + 1
      /\ teamer'[u].found = IF edit[e].teamer.found # edit[e].had.found THEN edit[e].teamer.found
                            ELSE teamer[u].found
  BY <1>1, <1>3, <1>4, MergedTeamer
<1>6. ProfileTypeOK'
  BY <1>2, <1>3, EditsLater DEF ProfileTypeOK
<1>7. EditsReady'
  <2>1. ASSUME NEW x \in Editors, x # e PROVE TeamerReady(edit[x])'
    <3>1. edit[x] \in Edit /\ edit'[x] = edit[x] /\ TeamerReady(edit[x])
      BY <1>2, <2>1, EditsLater DEF ProfileTypeOK, EditsReady
    <3>2. edit[x].had.version \in Nat /\ edit[x].who \in People
      BY <3>1 DEF Edit, TeamerDoc
    <3> QED
      BY <1>3, <1>4, <1>5, <3>1, <3>2 DEF TeamerReady
  <2> QED
    BY <1>2, <2>1, EditsLater DEF EditsReady, ProfileReady, TeamerReady, Projected
<1>8. DocumentsStaySavable'
  BY <1>1, <1>3, <1>5 DEF DocumentsStaySavable, TeamerReady
<1>9. CopiesFollow'
  <2> SUFFICES ASSUME backfill.at = "done", "straggler" \notin crossed' PROVE
        /\ \A v \in People : Projected(user[v])' /\ TeamerFound(v)' /\ WorkerFound(v)'
        /\ \A x \in Editors : ~ Straggler(x)'
    BY DEF CopiesFollow
  <2>1. CopiesFollow /\ backfill.at = "done" /\ "straggler" \notin crossed
    OBVIOUS
  <2>2. teamer[u].found = Folded(teamer[u].aliases) /\ edit[e].had.found = Folded(edit[e].had.aliases)
    BY <1>1, <2>1 DEF CopiesFollow, Straggler, TeamerFound
  <2>3. teamer'[u].found = Folded(teamer'[u].aliases)
    BY <1>1, <1>4, <1>5, <2>2 DEF TeamerReady
  <2>4. \A x \in Editors : ~ Straggler(x)'
    BY <1>2, <2>1, EditsLater DEF CopiesFollow, Straggler, Projected
  <2> QED
    BY <1>1, <1>3, <2>1, <2>3, <2>4 DEF CopiesFollow, TeamerFound, WorkerFound, Projected
<1> QED
  BY <1>6, <1>7, <1>8, <1>9

\* A request that ends, with or without having written what projects show.
LEMMA OnlyForgets ==
  ASSUME ProfileInv, NEW e \in Editors, edit' = [edit EXCEPT ![e] = Resting(edit[e].who)],
         UNCHANGED <<user, teamer, backfill, crossed>>,
         worker' \in [People -> [name : Words, search : Forms]],
         \A u \in People : worker'[u] = worker[u] \/ worker'[u].search = Fold[worker'[u].name]
  PROVE  ProfileInv'
<1> USE DEF ProfileInv
<1>1. edit[e].who \in People /\ Edits(e, Resting(edit[e].who))
  BY RestingRight DEF ProfileTypeOK, Edit, Edits
<1>2. /\ edit' \in [Editors -> Edit] /\ edit'[e].at = "idle"
      /\ \A x \in Editors : x # e => edit'[x] = edit[x]
  BY <1>1, EditsLater, RestingRight
<1>3. ProfileTypeOK'
  BY <1>2 DEF ProfileTypeOK
<1>4. EditsReady'
  BY <1>2 DEF EditsReady, ProfileReady, TeamerReady, Projected
<1>5. DocumentsStaySavable'
  BY DEF DocumentsStaySavable
<1>6. CopiesFollow'
  BY <1>2 DEF CopiesFollow, Straggler, Projected, TeamerFound, WorkerFound
<1> QED
  BY <1>3, <1>4, <1>5, <1>6

LEMMA SyncProjectKeeps ==
  ASSUME ProfileInv, NEW e \in Editors, SyncProject(e) \/ VersionConflict(e)
  PROVE  ProfileInv'
<1>1. edit[e].who \in People /\ edit[e].sync \in Words /\ Fold[edit[e].sync] \in Forms
  BY DEF ProfileInv, ProfileTypeOK, Edit, Forms
<1>2. CASE SyncProject(e)
  <2>1. /\ worker' \in [People -> [name : Words, search : Forms]]
        /\ \A u \in People : worker'[u] = worker[u] \/ worker'[u].search = Fold[worker'[u].name]
    BY <1>1, <1>2 DEF SyncProject, ProfileInv, ProfileTypeOK
  <2> QED
    BY <1>2, <2>1, OnlyForgets DEF SyncProject
<1>3. CASE VersionConflict(e)
  BY <1>3, OnlyForgets DEF VersionConflict, ProfileInv, ProfileTypeOK
<1> QED
  BY <1>2, <1>3

\* The steps of the migration.  Until it is recorded nothing is claimed of the
\* copies it writes.
Unfinished == backfill.at # "done" /\ backfill'.at # "done"

LEMMA CopiesAlone ==
  ASSUME ProfileInv, Unfinished, ProfileTypeOK', UNCHANGED <<edit, crossed>>,
         \A u \in People : /\ user'[u].name = user[u].name /\ user'[u].aliases = user[u].aliases
                           /\ user'[u].shown = user[u].shown
                           /\ teamer'[u].aliases = teamer[u].aliases
                           /\ teamer'[u].version = teamer[u].version
  PROVE  ProfileInv'
<1> USE DEF ProfileInv
<1>1. ASSUME NEW e \in Editors PROVE TeamerReady(edit[e])'
  BY DEF EditsReady, TeamerReady, ProfileTypeOK, Edit
<1>2. EditsReady'
  BY <1>1 DEF EditsReady, ProfileReady, Projected
<1>3. DocumentsStaySavable' /\ CopiesFollow'
  BY DEF DocumentsStaySavable, CopiesFollow, Unfinished
<1> QED
  BY <1>2, <1>3

LEMMA BackfillKeeps ==
  ASSUME ProfileInv,
         \/ ReadUsers \/ WriteUsers \/ ReadTeamers \/ WriteTeamers \/ ReadWorkers \/ WriteWorkers
         \/ BackfillDies
  PROVE  ProfileInv'
<1> USE DEF ProfileInv, Unfinished
<1>1. \A u \in People : /\ user[u] \in UserDoc /\ teamer[u] \in TeamerDoc
                        /\ Fold[user[u].name] \in Forms /\ Fold[worker[u].name] \in Forms
                        /\ Folded(teamer[u].aliases) \in SUBSET Forms
  BY FoldedForms DEF ProfileTypeOK, UserDoc, TeamerDoc, Forms
<1>2. CASE ReadUsers \/ ReadTeamers \/ ReadWorkers \/ BackfillDies
  <2>1. Unfinished /\ UNCHANGED <<user, teamer, worker, edit, crossed>>
    <3>1. CASE ReadUsers
      BY <3>1 DEF ReadUsers, Reads
    <3>2. CASE ReadTeamers
      BY <3>2 DEF ReadTeamers, Reads
    <3>3. CASE ReadWorkers
      BY <3>3 DEF ReadWorkers, Reads
    <3>4. CASE BackfillDies
      BY <3>4 DEF BackfillDies
    <3> QED
      BY <1>2, <3>1, <3>2, <3>3, <3>4
  <2>2. /\ backfill'.at = "users" => \A u \in People : backfill'.read[u] \in Forms
        /\ backfill'.at = "teamers" => \A u \in People : backfill'.read[u] \in SUBSET Forms
        /\ backfill'.at = "workers" => \A u \in People : backfill'.read[u] \in Forms
    <3>1. CASE ReadUsers
      BY <1>1, <3>1 DEF ReadUsers, Reads
    <3>2. CASE ReadTeamers
      BY <1>1, <3>2 DEF ReadTeamers, Reads
    <3>3. CASE ReadWorkers
      BY <1>1, <3>3 DEF ReadWorkers, Reads
    <3>4. CASE BackfillDies
      BY <3>4 DEF BackfillDies
    <3> QED
      BY <1>2, <3>1, <3>2, <3>3, <3>4
  <2>3. ProfileTypeOK'
    BY <2>1, <2>2 DEF ProfileTypeOK
  <2> QED
    BY <2>1, <2>3, CopiesAlone
<1>3. CASE WriteUsers
  <2>1. \A u \in People : /\ user'[u] = [user[u] EXCEPT !.search = backfill.read[u], !.found = {}]
                          /\ backfill.read[u] \in Forms
    BY <1>3 DEF WriteUsers, Writes, AliasesRead, ProfileTypeOK
  <2>2. \A u \in People : /\ user'[u] \in UserDoc /\ user'[u].name = user[u].name
                          /\ user'[u].aliases = user[u].aliases /\ user'[u].shown = user[u].shown
    BY <1>1, <2>1 DEF UserDoc
  <2>3. ProfileTypeOK' /\ Unfinished /\ UNCHANGED <<teamer, edit, crossed>>
    BY <1>3, <2>2 DEF WriteUsers, Writes, ProfileTypeOK
  <2> QED
    BY <2>2, <2>3, CopiesAlone
<1>4. CASE WriteTeamers
  <2>1. \A u \in People : /\ teamer'[u] = [teamer[u] EXCEPT !.found = backfill.read[u]]
                          /\ backfill.read[u] \in SUBSET Forms
    BY <1>4 DEF WriteTeamers, Writes, ProfileTypeOK
  <2>2. \A u \in People : /\ teamer'[u] \in TeamerDoc /\ teamer'[u].aliases = teamer[u].aliases
                          /\ teamer'[u].version = teamer[u].version
    BY <1>1, <2>1 DEF TeamerDoc
  <2>3. ProfileTypeOK' /\ Unfinished /\ UNCHANGED <<user, edit, crossed>>
    BY <1>4, <2>2 DEF WriteTeamers, Writes, ProfileTypeOK
  <2> QED
    BY <2>2, <2>3, CopiesAlone
<1>5. CASE WriteWorkers
  <2>1. ProfileTypeOK' /\ Unfinished /\ UNCHANGED <<user, teamer, edit, crossed>>
    BY <1>5 DEF WriteWorkers, Writes, ProfileTypeOK
  <2> QED
    BY <2>1, CopiesAlone
<1> QED
  BY <1>2, <1>3, <1>4, <1>5

LEMMA VerifyKeeps == ProfileInv /\ Verify => ProfileInv'
<1> SUFFICES ASSUME ProfileInv, Verify PROVE ProfileInv'
  OBVIOUS
<1> USE DEF ProfileInv, Verify
<1>1. ProfileTypeOK'
  BY DEF ProfileTypeOK
<1>2. EditsReady' /\ DocumentsStaySavable'
  BY DEF EditsReady, ProfileReady, TeamerReady, Projected, DocumentsStaySavable
<1>3. CopiesFollow'
  BY DEF CopiesFollow, Matches, UserFound, TeamerFound, WorkerFound, Projected, Straggler
<1> QED
  BY <1>1, <1>2, <1>3

LEMMA ProfileNextKeeps == ProfileInv /\ [ProfileNext]_profileVars => ProfileInv'
<1> SUFFICES ASSUME ProfileInv, [ProfileNext]_profileVars PROVE ProfileInv'
  OBVIOUS
<1>1. ASSUME NEW e \in Editors, EditOf(e) PROVE ProfileInv'
  BY <1>1, LoadProfileKeeps, LoadTeamerKeeps, SaveProfileKeeps, SaveTeamerKeeps, SyncProjectKeeps
  DEF EditOf
<1>2. CASE UNCHANGED profileVars
  BY <1>2 DEF profileVars, ProfileInv, ProfileTypeOK, EditsReady, ProfileReady, TeamerReady,
     DocumentsStaySavable, CopiesFollow, Straggler, Projected, TeamerFound, WorkerFound
<1> QED
  BY <1>1, <1>2, BackfillKeeps, VerifyKeeps DEF ProfileNext

\* What is stored passes the check of the next save, whoever overlaps with
\* whom, but for the two windows DocumentsStaySavable names (User.clean,
\* TeamMember.clean).
THEOREM DocumentsSavable == ProfileInit /\ [][ProfileNext]_profileVars => []DocumentsStaySavable
BY ProfileInitInv, ProfileNextKeeps, PTL DEF ProfileInv

\* Once migration 0006 is recorded, searches find people under the names they
\* have now.
THEOREM SearchFinds == ProfileInit /\ [][ProfileNext]_profileVars => []SearchFindsPeople
<1>1. ProfileInv => SearchFindsPeople
  BY DEF ProfileInv, CopiesFollow, SearchFindsPeople
<1> QED
  BY <1>1, ProfileInitInv, ProfileNextKeeps, PTL

=============================================================================
