--------------------------- MODULE MigrationRunner ---------------------------
(***************************************************************************)
(* src/app/migrations/runner.py: processes that run "manage.py migrate" or *)
(* "manage.py migrate-rollback" on one database, under one lease lock.     *)
(*                                                                         *)
(* Applying a version is several writes, its record is one more, and the   *)
(* lease is renewed after that: a process may be killed between any two.   *)
(* migrate is the gate of the deployment: exit 0 lets the application in.  *)
(***************************************************************************)
EXTENDS Naturals

CONSTANTS
  VersionCount,  \* the discovered migrations, numbered in version order
  Automatic,          \* those of LEVEL "AUTO"
  Reversible,    \* those whose down() does not raise IrreversibleMigration
  Runners,       \* processes
  NoOne,         \* the lock has never been taken
  Events         \* the EventKinds that may happen

\* kill: a process dies;  raise: an up() raises or leaves something undone;
\* stall: the lease runs out under a process still at work;
\* rollback: somebody rolls back;  halfdown: a rollback dies or fails after its
\* down() has begun and before the record is deleted.
EventKinds == {"kill", "raise", "stall", "rollback", "halfdown"}

Versions == 1..VersionCount

ASSUME VersionAssumption ==
  VersionCount \in Nat /\ Automatic \subseteq Versions /\ Reversible \subseteq Versions
ASSUME RunnerAssumption == NoOne \notin Runners /\ Events \subseteq EventKinds

VARIABLES
  records,  \* versions in migration_record
  effect,   \* how much of a version's change the database holds
  lock,     \* the migration_lock document
  runner    \* what each process is doing

vars == <<records, effect, lock, runner>>

-----------------------------------------------------------------------------
Working == {"list", "up", "body", "verify", "record", "down", "undo", "erase",
            "renew", "release"}
Idle == [pc |-> "idle", job |-> "migrate", level |-> "AUTO", target |-> 0,
         todo |-> {}, result |-> "failed"]

Selected(level) == IF level = "ALL" THEN Versions ELSE Automatic
Pending(level)  == Selected(level) \ records

IsFirst(v, S) == v \in S /\ \A w \in S : v <= w
IsLast(v, S)  == v \in S /\ \A w \in S : v >= w

Goto(r, pc) == runner' = [runner EXCEPT ![r].pc = pc]

\* The finally clause comes next, then this exit.
Finish(r, result) ==
  runner' = [runner EXCEPT ![r] =
               [runner[r] EXCEPT !.pc = "release", !.result = result]]

Init ==
  /\ records = {}
  /\ effect = [v \in Versions |-> "none"]
  /\ lock = [holder |-> NoOne, leased |-> FALSE]
  /\ runner = [r \in Runners |-> Idle]

-----------------------------------------------------------------------------
(* run_pending and rollback up to the lock                                 *)

\* With nothing pending the command succeeds at once, without the lock.
StartMigrate(r, level) ==
  /\ runner[r].pc = "idle"
  /\ runner' = [runner EXCEPT ![r] =
       [Idle EXCEPT !.level = level, !.todo = Pending(level),
                    !.pc = IF Pending(level) = {} THEN "ok" ELSE "order"]]
  /\ UNCHANGED <<records, effect, lock>>

\* An earlier version that is pending and not selected is refused.
Blocking(r) ==
  {v \in Pending("ALL") \ runner[r].todo : \E last \in runner[r].todo : v < last}

CheckOrder(r) ==
  /\ runner[r].pc = "order"
  /\ Goto(r, IF Blocking(r) = {} THEN "lock" ELSE "failed")
  /\ UNCHANGED <<records, effect, lock>>

StartRollback(r, target) ==
  /\ "rollback" \in Events
  /\ runner[r].pc = "idle"
  /\ runner' = [runner EXCEPT ![r] =
       [Idle EXCEPT !.pc = "lock", !.job = "rollback", !.target = target]]
  /\ UNCHANGED <<records, effect, lock>>

Bug_LockUnasked == TRUE
LockFree == ~lock.leased

\* Missing the lock must not look like success.
Bug_NothingToDo == "ok"
LockMissed == "failed"

AcquireLock(r) ==
  /\ runner[r].pc = "lock"
  /\ IF LockFree
     THEN /\ lock' = [holder |-> r, leased |-> TRUE]
          /\ Goto(r, "list")
     ELSE /\ Goto(r, LockMissed)
          /\ UNCHANGED lock
  /\ UNCHANGED <<records, effect>>

-----------------------------------------------------------------------------
(* Under the lock                                                          *)

\* The next version of the list, or the end of it.
Proceed(r, todo) ==
  runner' = [runner EXCEPT ![r] =
    IF todo = {}
    THEN [runner[r] EXCEPT !.todo = {}, !.pc = "release", !.result = "ok"]
    ELSE [runner[r] EXCEPT !.todo = todo,
            !.pc = IF runner[r].job = "migrate" THEN "up" ELSE "down"]]

\* The list is read again: another process may have changed it meanwhile.
PendingNow(r) == Pending(runner[r].level)
FreshList(r) ==
  IF runner[r].job = "migrate" THEN PendingNow(r)
  ELSE {v \in records : v > runner[r].target}

ReadList(r) ==
  /\ runner[r].pc = "list"
  /\ Proceed(r, FreshList(r))
  /\ UNCHANGED <<records, effect, lock>>

\* up() can be repeated: what a version has established stays so.
BeginUp(r) ==
  /\ runner[r].pc = "up"
  /\ \E v \in runner[r].todo :
       /\ IsFirst(v, runner[r].todo)
       /\ effect' = [effect EXCEPT ![v] = IF @ = "done" THEN "done" ELSE "half"]
  /\ Goto(r, "body")
  /\ UNCHANGED <<records, lock>>

EndUp(r) ==
  /\ runner[r].pc = "body"
  /\ \E v \in runner[r].todo :
       /\ IsFirst(v, runner[r].todo)
       /\ \/ effect' = [effect EXCEPT ![v] = "done"]
          \/ "raise" \in Events /\ UNCHANGED effect
  /\ Goto(r, "verify")
  /\ UNCHANGED <<records, lock>>

Verified(v) == effect[v] = "done"

VerifyUp(r) ==
  /\ runner[r].pc = "verify"
  /\ \E v \in runner[r].todo :
       /\ IsFirst(v, runner[r].todo)
       /\ IF Verified(v) THEN Goto(r, "record") ELSE Finish(r, "failed")
  /\ UNCHANGED <<records, effect, lock>>

\* The record, or the equal one another process has left.
RecordApplied(r) ==
  /\ runner[r].pc = "record"
  /\ \E v \in runner[r].todo :
       /\ IsFirst(v, runner[r].todo)
       /\ records' = records \cup {v}
       /\ runner' = [runner EXCEPT ![r] =
            [runner[r] EXCEPT !.pc = "renew", !.todo = runner[r].todo \ {v}]]
  /\ UNCHANGED <<effect, lock>>

\* An irreversible down() raises before it changes anything.
BeginDown(r) ==
  /\ runner[r].pc = "down"
  /\ \E v \in runner[r].todo :
       /\ IsLast(v, runner[r].todo)
       /\ IF v \in Reversible
          THEN effect' = [effect EXCEPT ![v] = "half"] /\ Goto(r, "undo")
          ELSE UNCHANGED effect /\ Finish(r, "failed")
  /\ UNCHANGED <<records, lock>>

EndDown(r) ==
  /\ runner[r].pc = "undo"
  /\ \E v \in runner[r].todo :
       /\ IsLast(v, runner[r].todo)
       /\ effect' = [effect EXCEPT ![v] = "none"]
  /\ Goto(r, "erase")
  /\ UNCHANGED <<records, lock>>

\* An up() or a down() that has begun raises.
BodyRaises(r) ==
  /\ runner[r].pc \in {"body", "undo"}
  /\ runner[r].pc = "body" => "raise" \in Events
  /\ runner[r].pc = "undo" => "halfdown" \in Events
  /\ Finish(r, "failed")
  /\ UNCHANGED <<records, effect, lock>>

EraseRecord(r) ==
  /\ runner[r].pc = "erase"
  /\ \E v \in runner[r].todo :
       /\ IsLast(v, runner[r].todo)
       /\ records' = records \ {v}
       /\ runner' = [runner EXCEPT ![r] =
            [runner[r] EXCEPT !.pc = "renew", !.todo = runner[r].todo \ {v}]]
  /\ UNCHANGED <<effect, lock>>

\* A lost lease ends the run; one that has only run out is taken again.
RenewLock(r) ==
  /\ runner[r].pc = "renew"
  /\ IF lock.holder = r
     THEN lock' = [lock EXCEPT !.leased = TRUE] /\ Proceed(r, runner[r].todo)
     ELSE UNCHANGED lock /\ Finish(r, "failed")
  /\ UNCHANGED <<records, effect>>

ReleaseLock(r) ==
  /\ runner[r].pc = "release"
  /\ lock' = IF lock.holder = r THEN [lock EXCEPT !.leased = FALSE] ELSE lock
  /\ Goto(r, runner[r].result)
  /\ UNCHANGED <<records, effect>>

-----------------------------------------------------------------------------
(* Processes die and are started again; leases run out.                    *)

Exit(r) ==
  /\ runner[r].pc \in {"ok", "failed"}
  /\ runner' = [runner EXCEPT ![r] = Idle]
  /\ UNCHANGED <<records, effect, lock>>

Kill(r) ==
  /\ "kill" \in Events
  /\ runner[r].pc \in {"order", "lock"} \cup Working
  /\ runner[r].pc \in {"undo", "erase"} => "halfdown" \in Events
  /\ runner' = [runner EXCEPT ![r] = Idle]
  /\ UNCHANGED <<records, effect, lock>>

LeaseEnds ==
  /\ lock.leased
  /\ \/ "stall" \in Events
     \/ \A r \in Runners : r = lock.holder => runner[r].pc \notin Working
  /\ lock' = [lock EXCEPT !.leased = FALSE]
  /\ UNCHANGED <<records, effect, runner>>

RunnerStep(r) ==
  \/ \E level \in {"AUTO", "ALL"} : StartMigrate(r, level)
  \/ \E target \in Versions : StartRollback(r, target)
  \/ CheckOrder(r) \/ AcquireLock(r) \/ ReadList(r)
  \/ BeginUp(r) \/ EndUp(r) \/ VerifyUp(r) \/ RecordApplied(r)
  \/ BeginDown(r) \/ EndDown(r) \/ BodyRaises(r) \/ EraseRecord(r)
  \/ RenewLock(r) \/ ReleaseLock(r)
  \/ Exit(r) \/ Kill(r)

Next == LeaseEnds \/ \E r \in Runners : RunnerStep(r)

Spec == Init /\ [][Next]_vars

-----------------------------------------------------------------------------
\* The fields of every document hold values of their type.
TypeOK ==
  /\ records \subseteq Versions
  /\ effect \in [Versions -> {"none", "half", "done"}]
  /\ lock \in [holder : Runners \cup {NoOne}, leased : BOOLEAN]
  /\ runner \in [Runners ->
       [pc : {"idle", "order", "lock", "ok", "failed"} \cup Working,
        job : {"migrate", "rollback"}, level : {"AUTO", "ALL"},
        target : Versions \cup {0}, todo : SUBSET Versions,
        result : {"ok", "failed"}]]

\* The version whose down() or its record is being undone by r.
Undoing(r, v) == runner[r].pc \in {"undo", "erase"} /\ IsLast(v, runner[r].todo)

\* As long as no lease runs out under its holder, one process at a time runs
\* migration bodies and writes records, whoever was killed before.
WorkAlone ==
  \A r, s \in Runners :
    runner[r].pc \in Working /\ runner[s].pc \in Working => r = s

\* History is not reordered: no version is recorded above one that is not.
NoGap == \A v \in records : \A w \in Versions : w < v => w \in records

\* What is recorded as applied has passed its verification and is still in
\* force, except for the one version a rollback is undoing.
RecordedIsDone ==
  \A v \in records : effect[v] = "done" \/ \E r \in Runners : Undoing(r, v)

\* When migrate exits 0, every version it was asked for is in force: the
\* application never starts on a database that is migrated half-way.
CleanExit ==
  [][\A r \in Runners :
       /\ runner[r].pc # "ok" /\ runner'[r].pc = "ok"
       /\ runner'[r].job = "migrate"
       => \A v \in Selected(runner'[r].level) : effect[v] = "done"]_vars

-----------------------------------------------------------------------------
(* The inductive invariant behind them, for an environment in which no     *)
(* lease is outlived while somebody rolls back.                            *)

Careful == "stall" \notin Events \/ "rollback" \notin Events

HoldsLock ==
  "stall" \notin Events => \A r \in Runners :
    runner[r].pc \in Working => lock = [holder |-> r, leased |-> TRUE]

\* The two commands keep to their own parts of the program.
Applying == {"up", "body", "verify", "record"}
Reverting == {"down", "undo", "erase"}
JobsFit == \A r \in Runners :
  /\ runner[r].job = "rollback" => "rollback" \in Events
  /\ runner[r].pc \in {"order"} \cup Applying => runner[r].job = "migrate"
  /\ runner[r].pc \in Reverting => runner[r].job = "rollback"

\* The list of a process under the lock is what the records say.
ListsMatch == \A r \in Runners :
  /\ runner[r].job = "migrate" /\ runner[r].pc \in Applying \cup {"renew"}
       => Versions \ runner[r].todo \subseteq records
  /\ runner[r].job = "rollback" /\ runner[r].pc \in Reverting \cup {"renew"}
       => runner[r].todo = {v \in records : v > runner[r].target}
  /\ runner[r].job = "migrate" /\ runner[r].pc = "release"
       => (runner[r].result = "ok" => records = Versions)

CheckedFirst == \A r \in Runners :
  runner[r].pc = "record" =>
    \A v \in runner[r].todo : IsFirst(v, runner[r].todo) => effect[v] = "done"

OnlyReversible ==
  \A r \in Runners, v \in Versions : Undoing(r, v) => v \in Reversible

MigrationInv ==
  /\ TypeOK /\ HoldsLock /\ JobsFit /\ ListsMatch /\ CheckedFirst
  /\ OnlyReversible /\ NoGap

=============================================================================
