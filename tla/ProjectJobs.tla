---------------------------- MODULE ProjectJobs ----------------------------
(* The life of one project (working, completed, cleared) and the long jobs  *)
(* around it: uploads, exports to an archive, archive imports and the       *)
(* deletion of its contents.  Requests and workers read the project once    *)
(* and act later, so every job is split where another one can run, and any  *)
(* of them may be killed there.                                             *)
EXTENDS Integers, FiniteSets, FiniteSetsExt, TLC

CONSTANTS
  Requests,     \* HTTP requests at work
  Workers,      \* Celery workers
  KeptOutputs,  \* skip(2): exports of the target an export request leaves
  ArchiveSizes, \* bytes an exported archive may have
  MaxVersion,   \* bound: status_version
  MaxBooked,    \* bound: uploads, exports and imports begun, and kills
  MaxMade       \* bound: files, exports and import tasks created

ASSUME JobsAssumption ==
  /\ IsFiniteSet(Requests) /\ IsFiniteSet(Workers)
  /\ KeptOutputs \in Nat /\ ArchiveSizes \subseteq Nat
  /\ MaxVersion \in Nat /\ MaxBooked \in Nat /\ MaxMade \in Nat

\* A request or worker without a job.
NoJob == [kind |-> "none", pc |-> "none"]

VARIABLES
  project,   \* [status, version, clearing, files, output]: the counters too
  files,     \* the files of the project
  output,    \* the exports: Output -> its storage_bytes
  task,      \* ArchiveImportTask -> status
  queue,     \* Celery messages
  request,   \* what each request remembers
  worker,    \* what each worker remembers
  made,      \* files, exports and tasks created: ids only grow
  races,     \* what has happened: "late", "twice", "zeroed", "killed", "stuck"
  booked

jobsVars ==
  <<project, files, output, task, queue, request, worker, made, races, booked>>

\* "preparing" stands for resolving, downloading and validating.
Underway == {"queued", "preparing", "importing"}
Final == {"succeeded", "failed"}

JobsInit ==
  /\ project = [status |-> "NORMAL", version |-> 0, clearing |-> FALSE,
                files |-> 0, output |-> 0]
  /\ files = {} /\ output = <<>> /\ task = <<>> /\ queue = {}
  /\ request = [r \in Requests |-> NoJob]
  /\ worker = [w \in Workers |-> NoJob]
  /\ made = 0 /\ races = {} /\ booked = 0

Book == booked < MaxBooked /\ booked' = booked + 1
Take(r, j) == request[r] = NoJob /\ request' = [request EXCEPT ![r] = j]
Step(r, j) == request' = [request EXCEPT ![r] = j]
Message(kind, id, copy) == [kind |-> kind, id |-> id, copy |-> copy]
NewJob(kind, pc) ==
  [kind |-> kind, pc |-> pc, version |-> 0, files |-> {}, outputs |-> <<>>]
Versioned(kind, pc) == [NewJob(kind, pc) EXCEPT !.version = project.version]
At(r, kind, pc) ==
  request[r] /= NoJob /\ request[r].kind = kind /\ request[r].pc = pc

\* What is added or released once a clear has listed the contents.
Late == IF project.clearing \/ project.status = "CLEARED" THEN {"late"} ELSE {}

(* ------------------------------ lifecycle ----------------------------- *)

CallComplete(r) ==
  /\ ~ project.clearing /\ project.status = "NORMAL"
  /\ project.version < MaxVersion
  /\ Take(r, Versioned("complete", "write"))
  /\ UNCHANGED <<project, files, output, task, queue, worker, made, races, booked>>

CallReopen(r) ==
  /\ ~ project.clearing /\ project.status = "COMPLETED"
  /\ project.version < MaxVersion
  /\ Take(r, Versioned("reopen", "write"))
  /\ UNCHANGED <<project, files, output, task, queue, worker, made, races, booked>>

CallClear(r) ==
  /\ ~ project.clearing /\ project.status \in {"NORMAL", "COMPLETED"}
  /\ Take(r, Versioned("clear", "lock"))
  /\ UNCHANGED <<project, files, output, task, queue, worker, made, races, booked>>

\* The update matches only the status and version that were read.
Matches(r, statuses) ==
  /\ project.status \in statuses
  /\ project.version = request[r].version
  /\ ~ project.clearing

Moves(r, from, to) ==
  /\ project' = IF Matches(r, {from})
                  THEN [project EXCEPT !.status = to, !.version = @ + 1]
                  ELSE project
  /\ Step(r, NoJob)
  /\ UNCHANGED <<files, output, task, queue, worker, made, races, booked>>

complete(r) == At(r, "complete", "write") /\ Moves(r, "NORMAL", "COMPLETED")
reopen(r) == At(r, "reopen", "write") /\ Moves(r, "COMPLETED", "NORMAL")

LockClear(r) ==
  /\ At(r, "clear", "lock")
  /\ IF Matches(r, {"NORMAL", "COMPLETED"})
       THEN /\ project' = [project EXCEPT !.clearing = TRUE]
            /\ Step(r, [request[r] EXCEPT !.pc = "files", !.files = files])
       ELSE Step(r, NoJob) /\ UNCHANGED project
  /\ UNCHANGED <<files, output, task, queue, worker, made, races, booked>>

\* clear_contents raised: the flag is taken down and the call is retryable.
Bug_Raised(r) == Step(r, NoJob) /\ UNCHANGED project
Raised(r) ==
  /\ Step(r, NoJob)
  /\ project' = [project EXCEPT !.clearing = FALSE]

\* _release_project_bytes: the exports that hold something, as the cleaner
\* read them, leave the project's account; only then are they set to zero.
Read(outs) == [o \in outs |-> output[o]]
Total(seen) == MapThenSumSet(LAMBDA o : seen[o], DOMAIN seen)
Touched(seen) == {o \in DOMAIN seen : seen[o] /= 0}

Add(bytes) == project' = [project EXCEPT !.output = @ + bytes]
Subtract(seen) == Add(- Total(seen))
Bug_Zero(seen) == UNCHANGED <<output, races>>
Zero(seen) ==
  /\ output' = [o \in DOMAIN output |-> IF o \in Touched(seen) THEN 0 ELSE output[o]]
  \* Another cleaner has released one of them as well.
  /\ races' = races \cup
       (IF \E o \in Touched(seen) : o \notin DOMAIN output \/ output[o] /= seen[o]
          THEN {"twice"} ELSE {})

\* The listed files are deleted one after the other; storage may fail before
\* any of them, and those already deleted are gone.
clear_files(r) ==
  /\ At(r, "clear", "files")
  /\ \/ /\ files' = files \ request[r].files
        /\ Step(r, [request[r] EXCEPT !.pc = "outputs", !.files = {},
                                      !.outputs = Read(DOMAIN output)])
        /\ UNCHANGED project
     \/ /\ \E done \in SUBSET request[r].files :
             /\ done /= request[r].files /\ files' = files \ done
        /\ Raised(r)
  /\ UNCHANGED <<output, task, queue, worker, made, races, booked>>

\* delete_real_files_strict deletes the objects, or raises, ...
clear_outputs(r) ==
  LET seen == request[r].outputs IN
  /\ At(r, "clear", "outputs")
  /\ \/ Subtract(seen) /\ Step(r, [request[r] EXCEPT !.pc = "unbook"])
     \/ DOMAIN seen /= {} /\ Raised(r)
  /\ UNCHANGED <<files, output, task, queue, worker, made, races, booked>>

clear_unbook(r) ==
  /\ At(r, "clear", "unbook")
  /\ Zero(request[r].outputs)
  /\ Step(r, [request[r] EXCEPT !.pc = "drop", !.outputs = <<>>])
  /\ UNCHANGED <<project, files, task, queue, worker, made, booked>>

\* ... and Output.objects(project).delete() the documents there are by then.
clear_drop(r) ==
  /\ At(r, "clear", "drop")
  /\ output' = <<>>
  /\ Step(r, [request[r] EXCEPT !.pc = "zero"])
  /\ UNCHANGED <<project, files, task, queue, worker, made, races, booked>>

Bug_Emptied(p) == [p EXCEPT !.files = 0]
Emptied(p) == [p EXCEPT !.files = 0, !.output = 0]

clear_zero(r) ==
  /\ At(r, "clear", "zero")
  /\ project' = Emptied(project)
  /\ races' = races \cup (IF \E o \in DOMAIN output : output[o] /= 0
                            THEN {"zeroed"} ELSE {})
  /\ Step(r, [request[r] EXCEPT !.pc = "commit"])
  /\ UNCHANGED <<files, output, task, queue, worker, made, booked>>

commit_clear(r) ==
  /\ At(r, "clear", "commit")
  /\ IF /\ project.status \in {"NORMAL", "COMPLETED"}
        /\ project.version = request[r].version /\ project.clearing
       THEN project' = [project EXCEPT !.status = "CLEARED",
                                       !.clearing = FALSE, !.version = @ + 1]
       ELSE project' = [project EXCEPT !.clearing = FALSE]
  /\ Step(r, NoJob)
  /\ UNCHANGED <<files, output, task, queue, worker, made, races, booked>>

\* transfer_owner counts status_version too, in whatever status.
transfer_owner ==
  /\ ~ project.clearing /\ project.version < MaxVersion
  /\ project' = [project EXCEPT !.version = @ + 1]
  /\ UNCHANGED <<files, output, task, queue, request, worker, made, races, booked>>

(* ------------------------------- uploads ------------------------------ *)

CallUpload(r) ==
  /\ project.status = "NORMAL" /\ Book
  /\ Take(r, NewJob("upload", "save"))
  /\ UNCHANGED <<project, files, output, task, queue, worker, made, races>>

\* Project.upload: create_file, which may refuse it, and then its inc_cache.
Make == made < MaxMade /\ made' = made + 1
NewFile ==
  /\ Make /\ files' = files \cup {made'}
  /\ races' = races \cup Late
Counted ==
  /\ project' = [project EXCEPT !.files = @ + 1]
  /\ races' = races \cup Late

save_upload(r) ==
  /\ At(r, "upload", "save")
  /\ \/ NewFile /\ Step(r, [request[r] EXCEPT !.pc = "count"])
     \/ UNCHANGED <<files, made, races>> /\ Step(r, NoJob)
  /\ UNCHANGED <<project, output, task, queue, worker, booked>>

count_upload(r) ==
  /\ At(r, "upload", "count")
  /\ Counted
  /\ Step(r, NoJob)
  /\ UNCHANGED <<files, output, task, queue, worker, made, booked>>

(* ------------------------------- exports ------------------------------ *)

Older(n) == {o \in DOMAIN output :
               Cardinality({x \in DOMAIN output : x > o}) >= n}

\* The old exports, read when delete_real_files iterates over them.  That the
\* last export is OUTPUT_WAIT_SECONDS old is left to chance.
CallExport(r) ==
  /\ project.status = "NORMAL" /\ Book
  /\ Take(r, [NewJob("export", "delete")
                EXCEPT !.outputs = Read(Older(KeptOutputs))])
  /\ UNCHANGED <<project, files, output, task, queue, worker, made, races>>

\* The objects are deleted and the project's account is reduced; a storage
\* error is logged and dropped, and then nothing is released.
DeleteOld(r) ==
  LET seen == request[r].outputs IN
  /\ At(r, "export", "delete")
  /\ \/ /\ Subtract(seen)
        /\ Step(r, [request[r] EXCEPT !.pc = "unbook"])
        /\ races' = races \cup Late
     \/ /\ DOMAIN seen /= {}
        /\ Step(r, [request[r] EXCEPT !.pc = "create"])
        /\ UNCHANGED <<project, races>>
  /\ UNCHANGED <<files, output, task, queue, worker, made, booked>>

ZeroOld(r) ==
  /\ At(r, "export", "unbook")
  /\ Zero(request[r].outputs)
  /\ Step(r, [request[r] EXCEPT !.pc = "create", !.outputs = <<>>])
  /\ UNCHANGED <<project, files, task, queue, worker, made, booked>>

\* The queryset is evaluated again when its documents are deleted.
CreateOutput(r) ==
  /\ At(r, "export", "create")
  /\ Make
  /\ output' = [x \in (DOMAIN output \ Older(KeptOutputs)) \cup {made'} |->
                  IF x = made' THEN 0 ELSE output[x]]
  /\ queue' = queue \cup {Message("export", made', 1)}
  /\ races' = races \cup Late
  /\ Step(r, NoJob)
  /\ UNCHANGED <<project, files, task, worker, booked>>

Assign(w, j) == worker' = [worker EXCEPT ![w] = j]
Works(w, kind, pc) ==
  worker[w] /= NoJob /\ worker[w].kind = kind /\ worker[w].pc = pc
Received(w, m) == worker[w] = NoJob /\ m \in queue /\ queue' = queue \ {m}
Task(m, pc, bytes) ==
  [kind |-> m.kind, id |-> m.id, pc |-> pc, bytes |-> bytes]

\* The task reads its export; one that has been dropped is skipped.
BeginExport(w) ==
  /\ \E m \in queue :
       /\ m.kind = "export" /\ Received(w, m)
       /\ IF m.id \in DOMAIN output
            THEN Assign(w, Task(m, "record", output[m.id]))
            ELSE UNCHANGED worker
  /\ UNCHANGED <<project, files, output, task, request, made, races, booked>>

Charge(j, more) == [j EXCEPT !.pc = "charge", !.bytes = more]

\* The archive is stored and _record_output_bytes writes its size, when it is
\* not the one the task has read; an update by id finds nothing once the
\* document has been deleted.  Or something failed and the export ends as ERROR.
RecordOutput(w) ==
  LET o == worker[w].id IN
  /\ Works(w, "export", "record")
  /\ \/ \E size \in ArchiveSizes \ {worker[w].bytes} :
          /\ output' = [x \in DOMAIN output |-> IF x = o THEN size ELSE output[x]]
          /\ Assign(w, Charge(worker[w], size - worker[w].bytes))
     \/ Assign(w, NoJob) /\ UNCHANGED output
  /\ UNCHANGED <<project, files, task, queue, request, made, races, booked>>

\* ... and then adds the difference to the project.
ChargeOutput(w) ==
  /\ Works(w, "export", "charge")
  /\ Add(worker[w].bytes)
  /\ races' = races \cup Late
  /\ Assign(w, NoJob)
  /\ UNCHANGED <<files, output, task, queue, request, made, booked>>

(* --------------------------- archive imports -------------------------- *)

\* A broker error may be reported although the message was taken: the task is
\* then run in the request as well, which is a second worker with a message.
CallImport(r) ==
  /\ request[r] = NoJob /\ project.status = "NORMAL" /\ Book
  /\ \A t \in DOMAIN task : task[t] \notin Underway
  /\ Make
  /\ task' = [t \in DOMAIN task \cup {made'} |->
                IF t = made' THEN "queued" ELSE task[t]]
  /\ \E copies \in {{1}, {1, 2}} :
       queue' = queue \cup {Message("import", made', c) : c \in copies}
  /\ UNCHANGED <<project, files, output, request, worker, races>>

\* The task is looked at when it arrives, ...
TakeImport(w) ==
  /\ \E m \in queue :
       /\ m.kind = "import" /\ Received(w, m)
       /\ IF task[m.id] = "queued" THEN Assign(w, Task(m, "claim", 0))
                                  ELSE UNCHANGED worker
  /\ UNCHANGED <<project, files, output, task, request, made, races, booked>>

\* ... and claimed with an update that matches a queued task only.
Claimable(t) == task[t] = "queued"

claim(w) ==
  LET t == worker[w].id IN
  /\ Works(w, "import", "claim")
  /\ IF Claimable(t)
       THEN /\ task' = [task EXCEPT ![t] = "preparing"]
            /\ Assign(w, [worker[w] EXCEPT !.pc = "preparing"])
       ELSE Assign(w, NoJob) /\ UNCHANGED task
  /\ UNCHANGED <<project, files, output, queue, request, made, races, booked>>

\* Any of the stages may fail, and that ends the task.
Prepare(w) ==
  LET t == worker[w].id IN
  /\ Works(w, "import", "preparing")
  /\ \/ /\ task' = [task EXCEPT ![t] = "importing"]
        /\ Assign(w, [worker[w] EXCEPT !.pc = "importing"])
     \/ /\ task' = [task EXCEPT ![t] = "failed"]
        /\ Assign(w, NoJob)
  /\ UNCHANGED <<project, files, output, queue, request, made, races, booked>>

ImportPage(w) ==
  /\ Works(w, "import", "importing")
  /\ NewFile
  /\ Assign(w, [worker[w] EXCEPT !.pc = "counting"])
  /\ UNCHANGED <<project, output, task, queue, request, booked>>

CountPage(w) ==
  /\ Works(w, "import", "counting")
  /\ Counted
  /\ Assign(w, [worker[w] EXCEPT !.pc = "importing"])
  /\ UNCHANGED <<files, output, task, queue, request, made, booked>>

EndImport(w) ==
  /\ Works(w, "import", "importing")
  /\ \E s \in Final : task' = [task EXCEPT ![worker[w].id] = s]
  /\ Assign(w, NoJob)
  /\ UNCHANGED <<project, files, output, queue, request, made, races, booked>>

(* -------------------------------- deaths ------------------------------ *)

\* A process killed between its two writes to the books leaves one of them
\* out; a clear that is killed leaves its flag.
Booking(j) == j.pc \in {"unbook", "charge"}
Holding(j) == j.kind = "clear" /\ j.pc /= "lock"
Marks(j) == (IF Booking(j) THEN {"killed"} ELSE {}) \cup
            (IF Holding(j) THEN {"stuck"} ELSE {})

Killed ==
  /\ Book
  /\ \/ \E r \in Requests :
          /\ request[r] /= NoJob /\ Step(r, NoJob)
          /\ races' = races \cup Marks(request[r])
          /\ UNCHANGED worker
     \/ \E w \in Workers :
          /\ worker[w] /= NoJob /\ Assign(w, NoJob)
          /\ races' = races \cup Marks(worker[w])
          /\ UNCHANGED request
  /\ UNCHANGED <<project, files, output, task, queue, made>>

Calls(r) ==
  \/ CallComplete(r) \/ CallReopen(r) \/ CallClear(r)
  \/ CallUpload(r) \/ CallExport(r) \/ CallImport(r)

Lifecycle(r) ==
  \/ complete(r) \/ reopen(r) \/ LockClear(r) \/ clear_files(r)
  \/ clear_outputs(r) \/ clear_unbook(r) \/ clear_drop(r)
  \/ clear_zero(r) \/ commit_clear(r)

Serve(r) ==
  \/ Lifecycle(r) \/ save_upload(r) \/ count_upload(r)
  \/ DeleteOld(r) \/ ZeroOld(r) \/ CreateOutput(r)

Work(w) ==
  \/ BeginExport(w) \/ RecordOutput(w) \/ ChargeOutput(w)
  \/ TakeImport(w) \/ claim(w) \/ Prepare(w)
  \/ ImportPage(w) \/ CountPage(w) \/ EndImport(w)

JobsNext ==
  \/ \E r \in Requests : Calls(r) \/ Serve(r)
  \/ \E w \in Workers : Work(w)
  \/ transfer_owner \/ Killed

JobsSpec == JobsInit /\ [][JobsNext]_jobsVars

\* A request that has begun runs to its end, unless it is killed.
JobsFairSpec == JobsSpec /\ \A r \in Requests : WF_jobsVars(Lifecycle(r))

(* ------------------------------ properties ---------------------------- *)

\* What running jobs have written to one side of the books only.
Owed(j) ==
  IF j.pc = "charge" THEN j.bytes
  ELSE IF j.pc = "unbook" THEN Total(j.outputs) ELSE 0
Owing(jobs) == Total([x \in DOMAIN jobs |-> Owed(jobs[x])])
InBetween == Owing(request) + Owing(worker)

\* The project's output_bytes never fall below what its exports hold, but for
\* what running jobs are about to write: an object that could not be deleted is
\* still charged (_release_project_bytes prefers books that are too high).
\* Three things break it and are named: two cleaners released the same export,
\* a clear wrote zero over an export recorded meanwhile, or a process was
\* killed between its two writes.
Booked == Total(output)
NeverUndercounts ==
  races \cap {"twice", "zeroed", "killed"} = {} =>
     project.output + InBetween >= Booked

\* A cleared project holds no file, no export and no bytes, also when earlier
\* attempts to clear it failed or were killed half way and exports were
\* released twice, unless a job that had read the project before the clear
\* added or released something after it.
ClearedHoldsNothing ==
  (project.status = "CLEARED" /\ "late" \notin races) =>
     files = {} /\ output = <<>> /\ project.files = 0 /\ project.output = 0

\* A clear that has raised the flag takes it down again, whether the contents
\* could be deleted or not, unless it was killed: then the flag stays, and the
\* project refuses every later call.
ClearIsReleased ==
  project.clearing ~> ~ project.clearing \/ "stuck" \in races

\* A finished archive import stays as it ended: a second delivery of its
\* message neither restarts it nor rewrites its outcome.
FinishedImportStays ==
  [][\A t \in DOMAIN task : task[t] \in Final => task'[t] = task[t]]_jobsVars
=============================================================================
