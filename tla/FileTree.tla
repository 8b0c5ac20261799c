------------------------------ MODULE FileTree ------------------------------
(* The files of one project: folders, images, their sources (labels), the   *)
(* translations of a source, and the counters kept on every folder, file,   *)
(* target and project.  Handlers run the requests, one step per query or    *)
(* write, so that they overlap as they like: there is no lock, and no unique *)
(* index but the one on a user's translation.  What a request remembers is   *)
(* its "job"; a request that acts on something it has read that is no longer *)
(* so leaves a "scar".                                                       *)
(* Only images and folders exist: FileType.SUPPORTED accepts nothing else in *)
(* production, so a file has one revision and no source is blank.           *)
EXTENDS Integers, FiniteSets, SequencesExt, FiniteSetsExt, TLC

CONSTANTS
  Nodes,       \* identities a file or folder may get
  Names,       \* names, already normalised
  Targets,     \* target languages
  Sources,     \* identities a source may get
  RowIds,      \* identities a translation may get: numbers
  Translators,
  Sizes,       \* sizes of uploaded images
  Handlers,    \* requests running at the same time
  Top,         \* the project itself: the parent of a top-level file
  NoTask,      \* a handler without a job
  MaxActs      \* bound: operations begun in a behaviour

ASSUME FileTreeAssumption ==
  /\ Top \notin Nodes /\ RowIds \subseteq Nat /\ Sizes \subseteq Nat /\ MaxActs \in Nat

VARIABLES
  file,     \* the documents: Node -> [type, name, parent, ancestors]
  count,    \* counters of every file and of the project
  targets,  \* the targets that exist
  source,   \* Source -> the node it labels
  trans,    \* translations: RowId -> [source, target, user, selected]
  job,      \* what each handler remembers
  scars,    \* races that have happened
  acts

treeVars == <<file, count, targets, source, trans, job, scars, acts>>

\* The documents f with the new one v under the identity x.
Saved(f, x, v) == [y \in DOMAIN f \cup {x} |-> IF y = x THEN v ELSE f[y]]

\* done and checked are kept by target, in a FileTargetCache or in the Target,
\* and once more for all targets together, in the File or in the Project.
Zero == [files |-> 0, folders |-> 0, sources |-> 0, size |-> 0,
         done |-> [t \in Targets |-> 0], checked |-> [t \in Targets |-> 0],
         all_done |-> 0, all_checked |-> 0]

IsFolder(n) == n \in DOMAIN file /\ file[n].type = "folder"
Places == {Top} \cup {n \in DOMAIN file : IsFolder(n)}
AncestorsOf(p) == IF p = Top THEN <<>> ELSE Append(file[p].ancestors, p)
Below(n) == {m \in DOMAIN file : n \in ToSet(file[m].ancestors)}
Named(name, p) ==
  {n \in DOMAIN file : file[n].name = name /\ file[n].parent = p}

\* inc_cache: the field of every file in `where`, and of the project when
\* asked, moves by the step; what is counted by target is counted for all too.
Plus(a, b) ==
  [files |-> a.files + b.files, folders |-> a.folders + b.folders,
   sources |-> a.sources + b.sources, size |-> a.size + b.size,
   done |-> [t \in Targets |-> a.done[t] + b.done[t]],
   checked |-> [t \in Targets |-> a.checked[t] + b.checked[t]],
   all_done |-> a.all_done + b.all_done,
   all_checked |-> a.all_checked + b.all_checked]
Negated(a) ==
  [files |-> - a.files, folders |-> - a.folders, sources |-> - a.sources,
   size |-> - a.size, done |-> [t \in Targets |-> - a.done[t]],
   checked |-> [t \in Targets |-> - a.checked[t]],
   all_done |-> - a.all_done, all_checked |-> - a.all_checked]
inc_cache(c, where, step) ==
  [p \in DOMAIN c |-> IF p \in where THEN Plus(c[p], step) ELSE c[p]]
Standing(t, k) == IF t \in targets THEN k ELSE 0
Done(t, k) == [Zero EXCEPT !.done[t] = Standing(t, k), !.all_done = k]
Checked(t, k) == [Zero EXCEPT !.checked[t] = Standing(t, k), !.all_checked = k]
Labels(k) == [Zero EXCEPT !.sources = k]

\* What a file that is moved or deleted adds to the counters of every folder
\* above it: what the file held when it was read, and of the translations what
\* the targets there are have counted for it by now.
Total(by) == MapThenSumSet(LAMBDA t : by[t], Targets)
Weight(j) ==
  LET c == [j.plan.was EXCEPT !.done = count[j.node].done,
                              !.checked = count[j.node].checked,
                              !.all_done = Total(count[j.node].done),
                              !.all_checked = Total(count[j.node].checked)]
  IN IF IsFolder(j.node) THEN [c EXCEPT !.folders = @ + 1] ELSE [c EXCEPT !.files = @ + 1]

Upward(n) == ToSet(file[n].ancestors)

FreshTree ==
  /\ file = <<>> /\ count = [p \in {Top} |-> Zero]
  /\ source = <<>> /\ trans = <<>> /\ scars = {} /\ acts = 0

TreeInit ==
  /\ FreshTree
  /\ targets \in SUBSET Targets
  /\ job = [h \in Handlers |-> NoTask]

Quiet == acts < MaxActs /\ acts' = acts + 1

(* ------------------------- requests of a handler ---------------------- *)

\* The file has been read with its path; inc_cache updates these documents.
\* A request that makes or moves a file has a plan: where the file goes (to,
\* above), under which name, where it was (old) and what its counters were.
Job(kind, pc, n, path) ==
  [kind |-> kind, pc |-> pc, node |-> n, path |-> path, source |-> NoTask,
   row |-> NoTask, doc |-> NoTask, plan |-> NoTask, left |-> {}, seen |-> 0, size |-> 0]
FileJob(kind, pc, n) == Job(kind, pc, n, Upward(n) \cup {n})
Plan(name, p, old, was) ==
  [name |-> name, to |-> p, above |-> AncestorsOf(p), old |-> old, was |-> was]
NewJob(kind, n, name, p) ==
  [Job(kind, "make", n, ToSet(AncestorsOf(p)) \cup {n})
     EXCEPT !.plan = Plan(name, p, <<>>, Zero)]
MoveJob(kind, pc, n, p) ==
  [FileJob(kind, pc, n) EXCEPT !.plan = Plan(file[n].name, p, file[n].ancestors, count[n])]
LabelJob(kind, pc, n, s) == [FileJob(kind, pc, n) EXCEPT !.source = s]
RowJob(kind, pc, x, d) ==
  [LabelJob(kind, pc, source[d.source], d.source) EXCEPT !.row = x, !.doc = d]

Busy(h) == job[h] /= NoTask
Start(h, j) == /\ Quiet /\ ~ Busy(h) /\ job' = [job EXCEPT ![h] = j]
Reached(h, pc) == Busy(h) /\ job[h].pc = pc /\ acts' = acts
Turn(h, j) == job' = [job EXCEPT ![h] = j]
Go(h, pc) == Turn(h, [job[h] EXCEPT !.pc = pc])
Over(h) == Turn(h, NoTask)
Running == {job[h] : h \in {g \in Handlers : Busy(g)}}

\* A scar, when what the request has read is stale.
Mark(name, stale) == IF stale THEN {name} ELSE {}
Scar(name, stale) == scars' = scars \cup Mark(name, stale)

\* The files that other requests are moving or deleting, and the requests that
\* do so to a file that j is about, or below which it works.
Shifts(j) == j.kind \in {"move", "clear"}
OnTheMove(h) == {job[g].node : g \in {k \in Handlers \ {h} : Busy(k) /\ Shifts(job[k])}}
Zone(j) == j.path \cup ToSet(j.plan.above)
Crossed(j) ==
  \E k \in {i \in Running : Shifts(i)} : k.node \in Zone(j) \/ j.node \in Zone(k)

\* A counter is added along the path that was read, though the file is gone,
\* has other folders above it by now, or is being moved or deleted.
Misplaced(h) ==
  LET j == job[h] IN
  \/ j.node \notin DOMAIN file
  \/ j.path /= Upward(j.node) \cup {j.node}
  \/ OnTheMove(h) \cap j.path /= {}
Rolled(h, step) == count' = inc_cache(count, job[h].path \cup {Top}, step)
Scarred(h, more) == scars' = scars \cup more \cup Mark("moved", Misplaced(h))

\* Identities are never given twice: none that a running request still holds.
Unused == Nodes \ (DOMAIN file \cup UNION {j.path : j \in Running})
UnusedSources == Sources \ (DOMAIN source \cup {j.source : j \in Running})
UnusedRows == RowIds \ (DOMAIN trans \cup UNION {{j.row} \cup j.left : j \in Running})
Claimed(t) ==
  \E j \in Running : j.kind = "unlabel" \/ (j.doc /= NoTask /\ j.doc.target = t)

(* ------------------------- folders and files -------------------------- *)

\* A name is looked for before it is written.
create_folder(h, name, p) ==
  /\ p \in Places /\ Named(name, p) = {}
  /\ \E n \in Unused : Start(h, NewJob("folder", n, name, p))
  /\ UNCHANGED <<file, count, targets, source, trans, scars>>

\* upload: the image of that name, whose size as it was is remembered for the
\* difference, or a new one.
upload(h, name, p, size) ==
  /\ p \in Places
  /\ \/ \E n \in Named(name, p) :
          /\ file[n].type = "image"
          /\ Start(h, [FileJob("upload", "resize", n)
                         EXCEPT !.seen = count[n].size, !.size = size])
     \/ /\ Named(name, p) = {}
        /\ \E n \in Unused : Start(h, [NewJob("upload", n, name, p) EXCEPT !.size = size])
  /\ UNCHANGED <<file, count, targets, source, trans, scars>>

\* clean() takes the ancestors from the parent that the request has read.
make(h) ==
  LET j == job[h]
      type == IF j.kind = "folder" THEN "folder" ELSE "image"
  IN
  /\ Reached(h, "make")
  /\ file' = Saved(file, j.node, [type |-> type, name |-> j.plan.name,
                                  parent |-> j.plan.to, ancestors |-> j.plan.above])
  /\ count' = Saved(count, j.node, Zero)
  /\ scars' = scars \cup Mark("named", Named(j.plan.name, j.plan.to) /= {})
                    \cup Mark("moved", \/ j.plan.to \notin Places
                                       \/ j.plan.above /= AncestorsOf(j.plan.to)
                                       \/ OnTheMove(h) \cap j.path /= {})
  /\ Go(h, "enter")
  /\ UNCHANGED <<targets, source, trans>>

enter(h) ==
  LET j == job[h]
      one == IF j.kind = "folder" THEN [Zero EXCEPT !.folders = 1]
                                  ELSE [Zero EXCEPT !.files = 1]
  IN
  /\ Reached(h, "enter")
  /\ count' = inc_cache(count, ToSet(j.plan.above) \cup {Top}, one)
  /\ Scarred(h, {})
  /\ IF j.kind = "folder" THEN Over(h) ELSE Go(h, "resize")
  /\ UNCHANGED <<file, targets, source, trans>>

resize(h) ==
  LET j == job[h] IN
  /\ Reached(h, "resize")
  /\ Rolled(h, [Zero EXCEPT !.size = j.size - j.seen])
  /\ Scarred(h, Mark("resized", ~ Misplaced(h) /\ count[j.node].size /= j.seen))
  /\ Over(h)
  /\ UNCHANGED <<file, targets, source, trans>>

\* File.rename: refused when another file of the folder has the name.
rename(h, n, name) ==
  /\ n \in DOMAIN file /\ Named(name, file[n].parent) = {}
  /\ Start(h, [MoveJob("rename", "name", n, file[n].parent) EXCEPT !.plan.name = name])
  /\ UNCHANGED <<file, count, targets, source, trans, scars>>

write_name(h) ==
  LET j == job[h] IN
  /\ Reached(h, "name")
  /\ file' = [x \in DOMAIN file |->
                IF x = j.node THEN [file[x] EXCEPT !.name = j.plan.name] ELSE file[x]]
  /\ Scar("named", /\ j.node \in DOMAIN file
                   /\ Named(j.plan.name, file[j.node].parent) /= {})
  /\ Over(h)
  /\ UNCHANGED <<count, targets, source, trans>>

\* move_to looks at the place and remembers the counters that are in the file;
\* those kept by target it reads when it adds them.
move_to(h, n, p) ==
  /\ n \in DOMAIN file /\ p \in Places
  /\ p /= n /\ p \notin Below(n)
  /\ p /= file[n].parent
  /\ Named(file[n].name, p) = {}
  /\ LET j == MoveJob("move", "place", n, p) IN
       Start(h, j) /\ Scar("moved", Crossed(j))
  /\ UNCHANGED <<file, count, targets, source, trans>>

place(h) ==
  LET j == job[h] IN
  /\ Reached(h, "place")
  /\ file' = [x \in DOMAIN file |->
                IF x = j.node THEN [file[x] EXCEPT !.parent = j.plan.to,
                                                   !.ancestors = j.plan.above]
                              ELSE file[x]]
  /\ Scar("named", /\ j.node \in DOMAIN file
                   /\ Named(file[j.node].name, j.plan.to) /= {})
  /\ Go(h, IF IsFolder(j.node) THEN "pull" ELSE "add")
  /\ UNCHANGED <<count, targets, source, trans>>

\* Below a folder the old way up is pulled out, wherever its parts stand, and
\* then the new one is put in front.
pull_all(seq, gone) == SelectSeq(seq, LAMBDA x : x \notin gone)
pull(h) ==
  LET j == job[h] IN
  /\ Reached(h, "pull")
  /\ file' = [m \in DOMAIN file |->
                IF m \in Below(j.node)
                  THEN [file[m] EXCEPT !.ancestors = pull_all(@, ToSet(j.plan.old))]
                  ELSE file[m]]
  /\ Go(h, "push")
  /\ UNCHANGED <<count, targets, source, trans, scars>>

push(h) ==
  LET j == job[h] IN
  /\ Reached(h, "push")
  /\ file' = [m \in DOMAIN file |->
                IF m \in Below(j.node)
                  THEN [file[m] EXCEPT !.ancestors = j.plan.above \o @]
                  ELSE file[m]]
  /\ Go(h, "add")
  /\ UNCHANGED <<count, targets, source, trans, scars>>

add(h) ==
  LET j == job[h] IN
  /\ Reached(h, "add")
  /\ count' = inc_cache(count, ToSet(j.plan.above), Weight(j))
  /\ Go(h, "subtract")
  /\ UNCHANGED <<file, targets, source, trans, scars>>

subtract(h) ==
  LET j == job[h] IN
  /\ Reached(h, "subtract")
  /\ count' = inc_cache(count, ToSet(j.plan.old), Negated(Weight(j)))
  /\ Over(h)
  /\ UNCHANGED <<file, targets, source, trans, scars>>

\* File.clear: what is below the file, the counters above it, and then the
\* file; with every file go its sources and their translations.
Without(rows) == [x \in DOMAIN trans \ rows |-> trans[x]]
Deleted(gone) ==
  LET orphans == {s \in DOMAIN source : source[s] \in gone} IN
  /\ file' = [m \in DOMAIN file \ gone |-> file[m]]
  /\ count' = [m \in DOMAIN count \ gone |-> count[m]]
  /\ source' = [s \in DOMAIN source \ orphans |-> source[s]]
  /\ trans' = Without({x \in DOMAIN trans : trans[x].source \in orphans})

clear(h, n) ==
  /\ n \in DOMAIN file
  /\ LET j == MoveJob("clear", IF IsFolder(n) THEN "empty" ELSE "reduce", n, file[n].parent)
     IN Start(h, j) /\ Scar("moved", Crossed(j))
  /\ UNCHANGED <<file, count, targets, source, trans>>

empty(h) ==
  /\ Reached(h, "empty")
  /\ Deleted(Below(job[h].node))
  /\ Go(h, "reduce")
  /\ UNCHANGED <<targets, scars>>

reduce(h) ==
  LET j == job[h] IN
  /\ Reached(h, "reduce")
  /\ count' = inc_cache(count, ToSet(j.plan.old) \cup {Top}, Negated(Weight(j)))
  /\ Go(h, "remove")
  /\ UNCHANGED <<file, targets, source, trans, scars>>

remove(h) ==
  /\ Reached(h, "remove")
  /\ Deleted({job[h].node})
  /\ Over(h)
  /\ UNCHANGED <<targets, scars>>

(* ------------------------------- targets ------------------------------ *)

\* A new target has an identity that nothing refers to.
create_target(t) ==
  /\ Quiet /\ t \notin targets
  /\ ~ Claimed(t) /\ \A x \in DOMAIN trans : trans[x].target /= t
  /\ targets' = targets \cup {t}
  /\ UNCHANGED <<file, count, source, trans, job, scars>>

\* Target.clear: its translations and its FileTargetCaches go by cascade.  The
\* counters for all targets keep what the target had added, and what requests
\* that are about it still add: "dropped".
clear_target(t) ==
  /\ Quiet /\ t \in targets
  /\ targets' = targets \ {t}
  /\ trans' = Without({x \in DOMAIN trans : trans[x].target = t})
  /\ count' = [p \in DOMAIN count |->
                 [count[p] EXCEPT !.done[t] = 0, !.checked[t] = 0]]
  /\ scars' = scars \cup
       Mark("dropped", \/ Claimed(t)
                       \/ \E p \in DOMAIN count : \/ count[p].done[t] /= 0
                                                  \/ count[p].checked[t] /= 0)
  /\ UNCHANGED <<file, source, job>>

(* ------------------------------- labels ------------------------------- *)

\* The other translations of a source for the same target, by identity.
Others(x, d) ==
  {y \in DOMAIN trans \ {x} : trans[y].source = d.source /\ trans[y].target = d.target}
Alone(h) == Others(job[h].row, job[h].doc) = {}
Flag(b) == IF b THEN 1 ELSE 0
Kept(h) == job[h].row \in DOMAIN trans
\* What the translation refers to is there.
Whole(d) ==
  d.source \in DOMAIN source /\ source[d.source] \in DOMAIN file /\ d.target \in targets
SourceThere(h) == job[h].source \in DOMAIN source

\* A label: the source is stored, then counted.
create_source(h, n) ==
  /\ n \in DOMAIN file /\ file[n].type = "image"
  /\ \E s \in UnusedSources : Start(h, LabelJob("label", "store", n, s))
  /\ UNCHANGED <<file, count, targets, source, trans, scars>>

store_source(h) ==
  /\ Reached(h, "store")
  /\ source' = Saved(source, job[h].source, job[h].node)
  /\ Go(h, "label")
  /\ UNCHANGED <<file, count, targets, trans, scars>>

count_source(h) ==
  /\ Reached(h, "label")
  /\ Rolled(h, Labels(1)) /\ Scarred(h, {})
  /\ Over(h)
  /\ UNCHANGED <<file, targets, source, trans>>

(* -------------------------- a new translation ------------------------- *)

Own(d) ==
  \E x \in DOMAIN trans : trans[x].source = d.source /\ trans[x].target = d.target
                                                   /\ trans[x].user = d.user

\* Translation.create for a user without a translation of the source.
create_translation(h, s, t, u) ==
  LET d == [source |-> s, target |-> t, user |-> u, selected |-> FALSE] IN
  /\ s \in DOMAIN source /\ Whole(d) /\ ~ Own(d)
  /\ UnusedRows /= {}
  /\ Start(h, RowJob("translate", "save", Min(UnusedRows), d))
  /\ UNCHANGED <<file, count, targets, source, trans, scars>>

\* The index on source, target and user refuses a second one.
save_translation(h) ==
  LET j == job[h] IN
  /\ Reached(h, "save")
  /\ IF Own(j.doc)
       THEN Over(h) /\ UNCHANGED <<trans, scars>>
       ELSE /\ trans' = Saved(trans, j.row, j.doc)
            /\ Turn(h, [j EXCEPT !.pc = "first", !.seen = Flag(Alone(h))])
            /\ Scar("gone", ~ Whole(j.doc))
  /\ UNCHANGED <<file, count, targets, source>>

\* It is counted when no other translation is there by then.
look_first(h) ==
  /\ Reached(h, "first")
  /\ IF Alone(h) THEN Go(h, "count") ELSE Over(h)
  /\ Scar("first", Flag(Alone(h)) /= job[h].seen)
  /\ UNCHANGED <<file, count, targets, source, trans>>

count_translation(h) ==
  /\ Reached(h, "count")
  /\ Rolled(h, Done(job[h].doc.target, 1)) /\ Scarred(h, {})
  /\ Over(h)
  /\ UNCHANGED <<file, targets, source, trans>>

(* ---------------------- translations and labels go -------------------- *)

Cleared(d) == IF d.selected THEN "uncheck" ELSE "look"

clear_translation(h, x) ==
  /\ x \in DOMAIN trans /\ Whole(trans[x])
  /\ Start(h, RowJob("untranslate", Cleared(trans[x]), x, trans[x]))
  /\ UNCHANGED <<file, count, targets, source, trans, scars>>

uncheck(h) ==
  LET j == job[h] IN
  /\ Reached(h, "uncheck")
  /\ IF SourceThere(h)
       THEN /\ Rolled(h, Checked(j.doc.target, -1))
            /\ Scarred(h, Mark("picked", ~ Kept(h) \/ ~ trans[j.row].selected))
            /\ Go(h, "look")
       ELSE Over(h) /\ UNCHANGED <<count, scars>>
  /\ UNCHANGED <<file, targets, source, trans>>

look(h) ==
  /\ Reached(h, "look")
  /\ Turn(h, [job[h] EXCEPT !.pc = IF Alone(h) THEN "uncount" ELSE "drop",
                            !.seen = Flag(Alone(h))])
  /\ UNCHANGED <<file, count, targets, source, trans, scars>>

uncount(h) ==
  /\ Reached(h, "uncount")
  /\ IF SourceThere(h)
       THEN Rolled(h, Done(job[h].doc.target, -1)) /\ Go(h, "drop") /\ Scarred(h, {})
       ELSE Over(h) /\ Scar("gone", job[h].doc.selected) /\ UNCHANGED count
  /\ UNCHANGED <<file, targets, source, trans>>

drop(h) ==
  LET j == job[h] IN
  /\ Reached(h, "drop")
  /\ trans' = Without({j.row})
  /\ scars' = scars \cup
       (IF ~ Kept(h) THEN {"gone"}
        ELSE Mark("first", Flag(Alone(h)) /= j.seen) \cup
             Mark("picked", trans[j.row].selected /= j.doc.selected))
  /\ IF j.kind = "unlabel" THEN Go(h, "next") ELSE Over(h)
  /\ UNCHANGED <<file, count, targets, source>>

\* Source.clear lists its translations, clears each of them, deletes the
\* source, which takes along what was not listed, and counts it off.
clear_source(h, s) ==
  /\ s \in DOMAIN source /\ source[s] \in DOMAIN file
  /\ Start(h, LabelJob("unlabel", "list", source[s], s))
  /\ UNCHANGED <<file, count, targets, source, trans, scars>>

Translated(s) == {x \in DOMAIN trans : trans[x].source = s}

list_translations(h) ==
  /\ Reached(h, "list")
  /\ Turn(h, [job[h] EXCEPT !.pc = "next", !.left = Translated(job[h].source)])
  /\ UNCHANGED <<file, count, targets, source, trans, scars>>

\* A translation that is gone cannot be reloaded: the request ends there.
reload_next(h) ==
  /\ Reached(h, "next")
  /\ \E x \in job[h].left :
       IF x \in DOMAIN trans
         THEN Turn(h, [job[h] EXCEPT !.pc = Cleared(trans[x]), !.row = x,
                                     !.doc = trans[x], !.left = @ \ {x}])
         ELSE Over(h)
  /\ UNCHANGED <<file, count, targets, source, trans, scars>>

delete_source(h) ==
  LET s == job[h].source IN
  /\ Reached(h, "next") /\ job[h].left = {}
  /\ source' = [x \in DOMAIN source \ {s} |-> source[x]]
  /\ trans' = Without(Translated(s))
  /\ Scar("gone", ~ SourceThere(h) \/ Translated(s) /= {})
  /\ Go(h, "unlabel")
  /\ UNCHANGED <<file, count, targets>>

uncount_source(h) ==
  /\ Reached(h, "unlabel")
  /\ Rolled(h, Labels(-1)) /\ Scarred(h, {})
  /\ Over(h)
  /\ UNCHANGED <<file, targets, source, trans>>

(* ------------------------------ selections ---------------------------- *)

\* selected_translation(): none, another one, or the translation itself.
Choice(x, d) ==
  IF \E y \in Others(x, d) : trans[y].selected THEN 1
  ELSE IF x \in DOMAIN trans /\ trans[x].selected THEN 2 ELSE 0
Chosen(h) == Choice(job[h].row, job[h].doc)
Unselected(rows) ==
  [x \in DOMAIN trans |->
     IF x \in rows THEN [trans[x] EXCEPT !.selected = FALSE] ELSE trans[x]]

select(h, x) ==
  /\ x \in DOMAIN trans /\ Whole(trans[x]) /\ ~ trans[x].selected
  /\ Start(h, RowJob("select", "seek", x, trans[x]))
  /\ UNCHANGED <<file, count, targets, source, trans, scars>>

seek(h) ==
  /\ Reached(h, "seek")
  /\ Turn(h, [job[h] EXCEPT !.pc = IF Chosen(h) = 0 THEN "pick" ELSE "release",
                            !.seen = Chosen(h)])
  /\ UNCHANGED <<file, count, targets, source, trans, scars>>

\* The one selected before is taken back, and then nothing is counted.
release(h) ==
  /\ Reached(h, "release")
  /\ trans' = Unselected(Others(job[h].row, job[h].doc))
  /\ Scar("picked", Chosen(h) /= job[h].seen)
  /\ Go(h, "pick")
  /\ UNCHANGED <<file, count, targets, source>>

pick(h) ==
  LET j == job[h] IN
  /\ Reached(h, "pick")
  /\ trans' = [x \in DOMAIN trans |->
                 IF x = j.row THEN [trans[x] EXCEPT !.selected = TRUE] ELSE trans[x]]
  /\ Scar("picked", ~ Kept(h) \/ Chosen(h) /= (IF j.seen = 1 THEN 0 ELSE j.seen))
  /\ IF j.seen = 0 THEN Go(h, "check") ELSE Over(h)
  /\ UNCHANGED <<file, count, targets, source>>

\* The source is looked at once more, and raises when it is gone.
check(h) ==
  /\ Reached(h, "check")
  /\ IF SourceThere(h) THEN Rolled(h, Checked(job[h].doc.target, 1)) /\ Scarred(h, {})
                       ELSE Scar("gone", TRUE) /\ UNCHANGED count
  /\ Over(h)
  /\ UNCHANGED <<file, targets, source, trans>>

unselect(h, x) ==
  /\ x \in DOMAIN trans /\ Whole(trans[x]) /\ trans[x].selected
  /\ Start(h, RowJob("unselect", "unpick", x, trans[x]))
  /\ UNCHANGED <<file, count, targets, source, trans, scars>>

unpick(h) ==
  /\ Reached(h, "unpick")
  /\ trans' = Unselected({job[h].row})
  /\ Scar("picked", Chosen(h) /= 2)
  /\ Go(h, "rest")
  /\ UNCHANGED <<file, count, targets, source>>

unpick_rest(h) ==
  /\ Reached(h, "rest")
  /\ trans' = Unselected(Others(job[h].row, job[h].doc))
  /\ Scar("picked", Chosen(h) = 1)
  /\ Go(h, "recheck")
  /\ UNCHANGED <<file, count, targets, source>>

uncheck_last(h) ==
  /\ Reached(h, "recheck")
  /\ IF SourceThere(h) THEN Rolled(h, Checked(job[h].doc.target, -1)) /\ Scarred(h, {})
                       ELSE Scar("gone", TRUE) /\ UNCHANGED count
  /\ Over(h)
  /\ UNCHANGED <<file, targets, source, trans>>

AboutFiles(h) ==
  \/ \E name \in Names, p \in Places :
       create_folder(h, name, p) \/ \E k \in Sizes : upload(h, name, p, k)
  \/ \E n \in DOMAIN file :
       \/ \E name \in Names : rename(h, n, name)
       \/ \E p \in Places : move_to(h, n, p)
       \/ clear(h, n)

AboutLabels(h) ==
  \/ \E n \in DOMAIN file : create_source(h, n)
  \/ \E s \in DOMAIN source : clear_source(h, s)
  \/ \E s \in DOMAIN source, t \in targets, u \in Translators :
       create_translation(h, s, t, u)
  \/ \E x \in DOMAIN trans : clear_translation(h, x) \/ select(h, x) \/ unselect(h, x)

GoesOn(h) ==
  \/ make(h) \/ enter(h) \/ resize(h) \/ write_name(h)
  \/ place(h) \/ pull(h) \/ push(h) \/ add(h) \/ subtract(h)
  \/ empty(h) \/ reduce(h) \/ remove(h)
  \/ store_source(h) \/ count_source(h)
  \/ save_translation(h) \/ look_first(h) \/ count_translation(h)
  \/ uncheck(h) \/ look(h) \/ uncount(h) \/ drop(h)
  \/ list_translations(h) \/ reload_next(h) \/ delete_source(h) \/ uncount_source(h)
  \/ seek(h) \/ release(h) \/ pick(h) \/ check(h)
  \/ unpick(h) \/ unpick_rest(h) \/ uncheck_last(h)

TreeNext ==
  \/ \E t \in Targets : create_target(t) \/ clear_target(t)
  \/ \E h \in Handlers : AboutFiles(h) \/ AboutLabels(h) \/ GoesOn(h)

TreeSpec == TreeInit /\ [][TreeNext]_treeVars

(* ------------------------------ properties ---------------------------- *)

Races == scars \ {"dropped"}

\* The parents form a tree, the stored ancestors are the way up it, and no
\* two files of one folder have the same name, whatever was moved, renamed
\* and deleted before, whenever no file is on the move (File.clean, move_to,
\* rename, create_file).
TreeIsSound ==
  /\ (Races = {} /\ \A j \in Running : ~ Shifts(j)) =>
       \A n \in DOMAIN file :
         /\ file[n].parent \in Places
         /\ file[n].ancestors = AncestorsOf(file[n].parent)
         /\ n \notin Upward(n)
         /\ Named(file[n].name, file[n].parent) = {n}
  /\ DOMAIN count = DOMAIN file \cup {Top}

\* The counters recomputed from the documents.
Under(p) == IF p = Top THEN DOMAIN file
            ELSE IF IsFolder(p) THEN Below(p) ELSE {p}
Selections(s, t) ==
  {x \in Translated(s) : trans[x].target = t /\ trans[x].selected}
Recomputed(p) ==
  LET labels == {s \in DOMAIN source : source[s] \in Under(p)}
      translated(t) ==
        {s \in labels : \E x \in Translated(s) : trans[x].target = t}
      selected(t) == {s \in labels : Selections(s, t) /= {}}
      images == {n \in Under(p) : ~ IsFolder(n)}
      grouped == p = Top \/ IsFolder(p)
  IN [files |-> IF grouped THEN Cardinality(images) ELSE 0,
      folders |-> Cardinality(Under(p) \ images),
      sources |-> Cardinality(labels),
      size |-> IF grouped THEN MapThenSumSet(LAMBDA n : count[n].size, images)
                          ELSE count[p].size,
      done |-> [t \in Targets |-> Cardinality(translated(t))],
      checked |-> [t \in Targets |-> Cardinality(selected(t))],
      all_done |-> Total([t \in Targets |-> Cardinality(translated(t))]),
      all_checked |-> Total([t \in Targets |-> Cardinality(selected(t))])]

\* The counters of every file, folder, target and of the project are the
\* numbers recomputed from the documents whenever no request is running,
\* through every overlap of uploads, moves, deletions, labels, translations and
\* selections, unless a request acted on something it had read that was no
\* longer so: the only or last translation ("first"), the selected one
\* ("picked"), the size of the image ("resized"), a free name ("named"), a
\* source or translation deleted meanwhile ("gone"), the way up from a file
\* that was moved or deleted meanwhile ("moved").
\* The counters for all targets together add up only as long as no target
\* with translations was dropped: Target.clear leaves its share in them.
CountersAddUp ==
  (Races = {} /\ Running = {}) =>
     \A p \in DOMAIN count :
        LET right == Recomputed(p) IN
        count[p] = IF "dropped" \in scars
                     THEN [right EXCEPT !.all_done = count[p].all_done,
                                        !.all_checked = count[p].all_checked]
                     ELSE right

\* A source has at most one selected translation per target (select takes
\* the others back), except after two selections overtook each other.
OneSelection ==
  Races = {} => \A s \in DOMAIN source, t \in Targets : Cardinality(Selections(s, t)) <= 1

=============================================================================
