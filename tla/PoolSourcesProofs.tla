------------------------- MODULE PoolSourcesProofs -------------------------
(***************************************************************************)
(* Proofs about PoolSources: for any number of sources, administrators and *)
(* files, however often projects move, and whatever is done to the source  *)
(* documents meanwhile, as long as no two of them name one place.  The     *)
(* second part is about DerivedImages, what is rendered from a stored      *)
(* original and kept beside it, for any number of requests, painters,      *)
(* names and retries.                                                      *)
(***************************************************************************)
EXTENDS PoolSources, DerivedImages, TLAPS

References == Pools \cup {NoPool}
RowStates ==
  {"PENDING", "COPIED", "SKIPPED", "VERIFIED", "FAILED", "SOURCE_DELETED"}
MoveStates ==
  {"PENDING", "COPYING", "VERIFIED", "SWITCHED", "DONE", "FAILED", "ABORTED"}
RunPlaces == {"idle", "copy", "verify", "switch", "delete", "settle"}
AdminPlaces == {"idle", "save", "transfers", "delete", "create"}

Document == [is : {"unmade", "there", "gone"}, enabled : BOOLEAN,
             place : Places, data : BOOLEAN]
Moves == [status : MoveStates, from : References, to : References]
Runs == [at : RunPlaces, src : Places, dst : Places, queued : BOOLEAN]
Request == [at : AdminPlaces, pool : References, place : Places,
            data : BOOLEAN, from : References, moves : Nat]
Tallies == [moves : Nat, changes : Nat]
Refreshments == [pool : Pools, by : Nat, seen : {"unread", "yes", "no"}]

\* What a request has noted of the count of transfers is not in the future.
RequestsDated == \A a \in Admins : admin[a].moves <= used.moves

PoolTypeOK ==
  /\ source \in [Pools -> Document] /\ pointer \in References
  /\ objects \in [Places -> SUBSET Files]
  /\ move \in Moves /\ rows \in [DOMAIN rows -> RowStates]
  /\ run \in Runs /\ admin \in [Admins -> Request]
  /\ used \in Tallies /\ RequestsDated
  /\ refreshes \subseteq Refreshments

\* Whatever is referred to has been added once; its document can only have
\* been deleted since.
Added(p) == p # NoPool => source[p].is # "unmade"
AllAdded == Added(pointer) /\ Added(move.from) /\ Added(move.to)

\* What a request has found out before its next step.  The place it is about
\* to save is nobody else's.
RequestRight(r) ==
  /\ Added(r.pool) /\ Added(r.from)
  /\ r.at \in {"save", "transfers", "delete"} => r.pool \in Pools
  /\ r.at = "save" => ~ r.data
  /\ r.at # "save" => r.place = Nowhere
  /\ r.at = "create" => r.pool # r.from
  /\ r.place # Home
  /\ \A p \in Pools : Kept(p) /\ source[p].place = r.place => r.place = Nowhere

RequestsMatch == \A a \in Admins : RequestRight(admin[a])

\* Two documents, or two that are about to be saved, never name one place,
\* nor the place of the default storage.
OwnPlaces ==
  /\ objects[Nowhere] = {}
  /\ \A p \in Pools : Kept(p) => source[p].place # Home
  /\ \A p, q \in Pools :
       Kept(p) /\ Kept(q) /\ source[p].place = source[q].place =>
         p = q \/ source[p].place = Nowhere
  /\ \A a, b \in Admins :
       admin[a].place = admin[b].place => a = b \/ admin[a].place = Nowhere

\* Where the worker is says how far the transfer is, and so do the rows.
RunMatches ==
  /\ listed # {} /\ listed \subseteq Files /\ DOMAIN rows \subseteq listed
  /\ move.status # "DONE" => move.from # move.to
  /\ run.queued =>
       run.at = "idle" /\ move.status \in {"PENDING", "COPYING", "SWITCHED"}
  /\ run.at = "copy" => move.status = "COPYING"
  /\ run.at \in {"verify", "switch"} => move.status = "VERIFIED"
  /\ run.at \in {"delete", "settle"} => move.status = "SWITCHED"
  /\ run.at # "idle" => run.src # run.dst \/ run.src = Nowhere

RowsMatch ==
  /\ run.at = "verify" =>
       \A k \in DOMAIN rows : rows[k] \in {"COPIED", "VERIFIED", "SKIPPED"}
  /\ run.at = "switch" =>
       \A k \in DOMAIN rows : rows[k] \in {"VERIFIED", "SKIPPED"}
  /\ move.status \in {"PENDING", "COPYING", "VERIFIED", "FAILED"} =>
       \A k \in DOMAIN rows : rows[k] # "SOURCE_DELETED"
  /\ move.status = "SWITCHED" =>
       pointer = move.to /\ \E k \in DOMAIN rows : rows[k] # "PENDING"

\* The place the project's own document names holds every file, and the
\* document is there.
PointerIsRight ==
  Loadable(pointer) /\ listed \subseteq objects[PlaceOf(pointer)]

\* A document the project has moved to says that it holds data, or is the
\* target of the transfer that has just moved the pointer, or will say so
\* when a run that has ended writes what it counts.
WillBeMarked(p) == \E m \in refreshes : m.pool = p /\ m.seen # "no"
DataIsMarked ==
  pointer # NoPool =>
    \/ source[pointer].data \/ (move.status = "SWITCHED" /\ move.to = pointer)
    \/ WillBeMarked(pointer)

\* Who is about to delete a document has made sure that nothing needs it,
\* unless a transfer has been started since.
Unneeded(r) ==
  r.at = "delete" /\ r.moves = used.moves =>
    pointer # r.pool /\ ~ (Active /\ r.pool = move.to)
DeletionsAreSafe == \A a \in Admins : Unneeded(admin[a])

\* The worker uses the places the documents name.
RunIsCurrent ==
  /\ run.at # "idle" => run.src = PlaceOf(move.from) /\ run.dst = PlaceOf(move.to)
  /\ run.at \in {"copy", "verify", "switch"} => Loadable(move.to)

\* What a row says is copied is at the target; and while the pointer is where
\* the transfer found it, no file is missing at the origin.
RowsAreTrue ==
  /\ Underway => \A k \in DOMAIN rows :
       rows[k] \in {"COPIED", "VERIFIED"} => k \in objects[PlaceOf(move.to)]
  /\ Underway /\ move.status # "SWITCHED" /\ pointer = move.from =>
       \A k \in DOMAIN rows : rows[k] # "SKIPPED"

Undisturbed ==
  /\ PointerIsRight /\ DataIsMarked /\ DeletionsAreSafe
  /\ RunIsCurrent /\ RowsAreTrue

Lasting == AllAdded /\ RequestsMatch /\ OwnPlaces /\ RunMatches /\ RowsMatch
PoolInv == PoolTypeOK /\ Lasting /\ (windows = {} => Undisturbed)

LEMMA PoolInitInv == PoolInit => PoolInv
<1> SUFFICES ASSUME PoolInit PROVE PoolInv
  OBVIOUS
<1> USE PoolsAssumption DEF PoolInit
<1>1. Unmade \in Document /\ Quiet \in Request /\ Stopped(FALSE) \in Runs
  BY DEF Document, Request, Runs, Unmade, Quiet, Stopped, Places, References,
         RunPlaces, AdminPlaces
<1>2. PoolTypeOK
  <2>1. RequestsDated
    BY DEF RequestsDated, Quiet
  <2> QED
    BY <1>1, <2>1 DEF PoolTypeOK, Moves, Tallies, Places, References, MoveStates, RowStates
<1>3. AllAdded /\ RequestsMatch
  BY DEF AllAdded, Added, RequestsMatch, RequestRight, Quiet, Kept, Unmade
<1>4. OwnPlaces
  BY DEF OwnPlaces, Kept, Unmade, Quiet, Places
<1>5. RunMatches /\ RowsMatch
  BY DEF RunMatches, RowsMatch, Stopped
<1>6. Undisturbed
  BY DEF Undisturbed, PointerIsRight, DataIsMarked, WillBeMarked, DeletionsAreSafe, Unneeded, RunIsCurrent,
         RowsAreTrue, Loadable, PlaceOf, Quiet, Stopped, Underway, Active, Places
<1> QED
  BY <1>2, <1>3, <1>4, <1>5, <1>6 DEF PoolInv, Lasting

(***************************************************************************)
(* What the steps of administrators change.                                *)
(***************************************************************************)
\* The request of one administrator is another one now.
Asks(a, r) ==
  /\ r \in Request /\ r.moves <= used.moves
  /\ admin' = [admin EXCEPT ![a] = r]
  /\ \A b \in Admins : b # a /\ admin[b].place = r.place => r.place = Nowhere

LEMMA AsksLater ==
  ASSUME PoolTypeOK, NEW a \in Admins, NEW r, Asks(a, r)
  PROVE  /\ admin' \in [Admins -> Request] /\ admin'[a] = r
         /\ \A b \in Admins : b # a => admin'[b] = admin[b]
BY DEF PoolTypeOK, Asks

SameProject == UNCHANGED <<source, pointer, listed, objects, move, rows, run, refreshes>>

LEMMA SameProjectKept ==
  ASSUME PoolInv, SameProject, NEW a \in Admins, NEW r, Asks(a, r), RequestRight(r),
         used' \in Tallies, used'.moves = used.moves,
         windows' = {} => windows = {} /\ Unneeded(r)
  PROVE  PoolInv'
<1> USE DEF PoolInv, SameProject
<1>1. PoolTypeOK'
  <2>1. RequestsDated'
    BY AsksLater DEF PoolTypeOK, RequestsDated, Asks
  <2> QED
    BY <2>1, AsksLater DEF PoolTypeOK
<1>2. AllAdded' /\ RunMatches' /\ RowsMatch'
  BY DEF Lasting, AllAdded, Added, RunMatches, RowsMatch
<1>3. \A q : RequestRight(q) => RequestRight(q)'
  BY DEF RequestRight, Added, Kept
<1>4. RequestsMatch'
  BY <1>3, AsksLater DEF Lasting, RequestsMatch, RequestRight, Added, Kept
<1>5. OwnPlaces'
  BY AsksLater DEF Lasting, OwnPlaces, Kept, Asks
<1>6. ASSUME windows' = {} PROVE Undisturbed'
  <2>1. PointerIsRight' /\ DataIsMarked' /\ RunIsCurrent' /\ RowsAreTrue'
    BY <1>6 DEF Undisturbed, PointerIsRight, DataIsMarked, WillBeMarked, RunIsCurrent, RowsAreTrue, Loadable,
                PlaceOf, Kept, Underway, Active
  <2>2. DeletionsAreSafe'
    BY <1>6, AsksLater DEF Undisturbed, DeletionsAreSafe, Unneeded, Active
  <2> QED
    BY <2>1, <2>2 DEF Undisturbed
<1> QED
  BY <1>1, <1>2, <1>4, <1>5, <1>6 DEF Lasting

LEMMA QuietRight ==
  Quiet \in Request /\ RequestRight(Quiet) /\ Unneeded(Quiet)
BY PoolsAssumption DEF Quiet, Request, RequestRight, Unneeded, Added, Kept, AdminPlaces, Places,
   References

LEMMA UsedHolds ==
  ASSUME PoolInv
  PROVE  used \in Tallies /\ used.moves \in Nat /\ Quiet.moves <= used.moves
BY DEF PoolInv, PoolTypeOK, Tallies, Quiet

LEMMA ReadSourceKeeps ==
  ASSUME PoolInv, ~ Shared, NEW a \in Admins, NEW p \in Pools,
         NEW l \in Places \ {Nowhere}, ReadSource(a, p, l)
  PROVE  PoolInv'
<1> DEFINE r == [Quiet EXCEPT !.at = "save", !.pool = p, !.place = l, !.data = source[p].data]
<1>1. r \in Request
  BY DEF PoolInv, PoolTypeOK, Document, Quiet, Request, AdminPlaces, Places, References
<1>2. RequestRight(r)
  BY PoolsAssumption DEF ReadSource, Quiet, RequestRight, Added, Kept, Fits, Movable, PlaceOf
<1>3. Asks(a, r)
  BY <1>1, UsedHolds DEF ReadSource, Begin, Fits, Asks, Quiet
<1>4. Unneeded(r)
  BY DEF Unneeded, Quiet
<1>5. used' \in Tallies /\ used'.moves = used.moves
  BY DEF ReadSource, Change, PoolInv, PoolTypeOK, Tallies
<1> QED
  BY <1>2, <1>3, <1>4, <1>5, SameProjectKept DEF ReadSource, SameProject

LEMMA TestFailsKeeps ==
  ASSUME PoolInv, NEW a \in Admins, TestFails(a)
  PROVE  PoolInv'
<1>1. Asks(a, Quiet)
  BY QuietRight, UsedHolds DEF TestFails, Finished, Asks, Quiet
<1> QED
  BY <1>1, QuietRight, SameProjectKept DEF TestFails, SameProject, PoolInv, PoolTypeOK

LEMMA CheckProjectsKeeps ==
  ASSUME PoolInv, NEW a \in Admins, NEW p \in Pools, CheckProjects(a, p)
  PROVE  PoolInv'
<1> DEFINE r == [Quiet EXCEPT !.at = "transfers", !.pool = p]
<1>1. r \in Request
  BY DEF Quiet, Request, AdminPlaces, Places, References
<1>2. RequestRight(r) /\ Unneeded(r)
  BY PoolsAssumption DEF CheckProjects, Quiet, RequestRight, Unneeded, Added, Kept
<1>3. Asks(a, r)
  BY <1>1, UsedHolds DEF CheckProjects, Begin, Asks, Quiet
<1>5. used' \in Tallies /\ used'.moves = used.moves
  BY DEF CheckProjects, Change, PoolInv, PoolTypeOK, Tallies
<1> QED
  BY <1>2, <1>3, <1>5, SameProjectKept DEF CheckProjects, SameProject

LEMMA CheckTransfersKeeps ==
  ASSUME PoolInv, NEW a \in Admins, CheckTransfers(a)
  PROVE  PoolInv'
<1> DEFINE r == [admin[a] EXCEPT !.at = "delete", !.moves = used.moves]
<1>1. admin[a] \in Request /\ RequestRight(admin[a]) /\ used \in Tallies /\ admin[a].at = "transfers"
  BY DEF PoolInv, PoolTypeOK, Lasting, RequestsMatch, CheckTransfers
<1>2. CASE Busy(admin[a].pool)
  <2>1. Asks(a, Quiet) /\ windows' = windows
    BY <1>2, QuietRight, UsedHolds DEF CheckTransfers, Finished, Asks, Quiet
  <2> QED
    BY <1>1, <2>1, QuietRight, SameProjectKept DEF CheckTransfers, SameProject
<1>3. CASE ~ Busy(admin[a].pool)
  <2>1. r \in Request
    BY <1>1 DEF Request, Tallies, AdminPlaces
  <2>2. RequestRight(r) /\ r.place = Nowhere
    BY <1>1 DEF RequestRight, Request
  <2>3. admin' = [admin EXCEPT ![a] = r]
    BY <1>1, <1>3 DEF CheckTransfers, PoolInv, PoolTypeOK, Request
  <2>4. Asks(a, r)
    <3>1. r.moves <= used.moves
      BY <1>1, UsedHolds DEF Request
    <3> QED
      BY <2>1, <2>2, <2>3, <3>1 DEF Asks
  <2>5. ASSUME windows' = {} PROVE windows = {} /\ Unneeded(r)
    <3>1. windows = {} /\ Missed(admin[a].pool) = {}
      BY <1>3, <2>5 DEF CheckTransfers
    <3>2. pointer # admin[a].pool /\ ~ (Active /\ admin[a].pool = move.to)
      BY <3>1, <1>3 DEF Missed, Busy
    <3> QED
      BY <1>1, <3>1, <3>2 DEF Unneeded, Request
  <2> QED
    BY <1>1, <2>2, <2>4, <2>5, SameProjectKept DEF CheckTransfers, SameProject
<1> QED
  BY <1>2, <1>3

LEMMA AskMoveKeeps ==
  ASSUME PoolInv, NEW a \in Admins, NEW t \in References, AskMove(a, t)
  PROVE  PoolInv'
<1> DEFINE r == [Quiet EXCEPT !.at = "create", !.pool = t, !.from = pointer]
<1>1. r \in Request
  BY DEF Quiet, Request, AdminPlaces, Places, References, PoolInv, PoolTypeOK
<1>2. RequestRight(r) /\ Unneeded(r)
  BY PoolsAssumption
  DEF AskMove, Quiet, RequestRight, Unneeded, Added, Kept, Claimed, Loadable
<1>3. Asks(a, r)
  BY <1>1, UsedHolds DEF AskMove, Begin, Asks, Quiet
<1> QED
  BY <1>2, <1>3, SameProjectKept DEF AskMove, SameProject, PoolInv, PoolTypeOK

(***************************************************************************)
(* What the steps that change a source document keep.                      *)
(***************************************************************************)
\* A document is another one now.
Becomes(p, d) == d \in Document /\ source' = [source EXCEPT ![p] = d]

LEMMA BecomesLater ==
  ASSUME PoolTypeOK, NEW p \in Pools, NEW d, Becomes(p, d)
  PROVE  /\ source' \in [Pools -> Document] /\ source'[p] = d
         /\ \A q \in Pools : q # p => source'[q] = source[q]
BY DEF PoolTypeOK, Becomes

SameFiles == UNCHANGED <<pointer, listed, objects, move, rows, run, refreshes>>

\* The document of the project, and those of a transfer that has copied
\* something, name the places they have named.
StaysFound(p, d) ==
  /\ pointer = p =>
       d.is = "there" /\ d.place = source[p].place /\ (source[p].data => d.data)
  /\ p \in Ends /\ (run.at # "idle" \/ (Underway /\ \E k \in DOMAIN rows : rows[k] # "PENDING")) =>
       d.place = source[p].place
  /\ run.at \in {"copy", "verify", "switch"} /\ move.to = p => d.is = "there"

LEMMA FoundLater ==
  ASSUME PoolInv, SameFiles, NEW p \in Pools, NEW d, Becomes(p, d), d.is # "unmade",
         Undisturbed, StaysFound(p, d)
  PROVE  PointerIsRight' /\ DataIsMarked' /\ RunIsCurrent' /\ RowsAreTrue'
<1> USE PoolsAssumption DEF PoolInv, Lasting, Undisturbed, SameFiles
<1>1. source' \in [Pools -> Document] /\ source'[p] = d /\ \A q \in Pools : q # p => source'[q] = source[q]
  BY BecomesLater
<1>2. pointer \in References /\ move.from \in References /\ move.to \in References /\ rows \in [DOMAIN rows -> RowStates]
  BY DEF PoolTypeOK, Moves
<1>3. PointerIsRight'
  BY <1>1, <1>2 DEF References, StaysFound, PointerIsRight, Loadable, PlaceOf, Kept
<1>4. DataIsMarked'
  BY <1>1, <1>2 DEF References, StaysFound, DataIsMarked, WillBeMarked
<1>5. ASSUME NEW q \in References, q \in {move.from, move.to},
             run.at # "idle" \/ (Underway /\ \E k \in DOMAIN rows : rows[k] # "PENDING")
      PROVE  PlaceOf(q)' = PlaceOf(q)
  BY <1>1, <1>5 DEF References, StaysFound, PlaceOf, Ends
<1>6. RunIsCurrent'
  <2>1. run.at # "idle" => PlaceOf(move.from)' = PlaceOf(move.from) /\ PlaceOf(move.to)' = PlaceOf(move.to)
    BY <1>2, <1>5
  <2>2. run.at \in {"copy", "verify", "switch"} => Loadable(move.to)'
    BY <1>1, <1>2 DEF References, StaysFound, RunIsCurrent, Loadable, Kept
  <2> QED
    BY <2>1, <2>2 DEF RunIsCurrent
<1>7. RowsAreTrue'
  <2>1. ASSUME NEW k \in DOMAIN rows, Underway, rows[k] \in {"COPIED", "VERIFIED"}
        PROVE  k \in objects[PlaceOf(move.to)']
    BY <1>2, <1>5, <2>1 DEF RowsAreTrue
  <2> QED
    BY <2>1 DEF RowsAreTrue, Underway, Active
<1> QED
  BY <1>3, <1>4, <1>6, <1>7

LEMMA AddSourceKeeps ==
  ASSUME PoolInv, ~ Shared, NEW p \in Pools, NEW l \in Places \ {Nowhere}, AddSource(p, l)
  PROVE  PoolInv'
<1> DEFINE d == [is |-> "there", enabled |-> TRUE, place |-> l, data |-> FALSE]
<1> USE PoolsAssumption DEF AddSource
<1>1. Becomes(p, d)
  BY DEF Document, Becomes
<1>2. source' \in [Pools -> Document] /\ source'[p] = d /\ \A q \in Pools : q # p => source'[q] = source[q]
  BY <1>1, BecomesLater DEF PoolInv
<1>3. PoolTypeOK'
  BY <1>2 DEF PoolInv, PoolTypeOK, RequestsDated
<1>4. pointer # p /\ move.from # p /\ move.to # p /\ \A a \in Admins : admin[a].pool # p /\ admin[a].from # p
  BY DEF PoolInv, Lasting, AllAdded, Added, RequestsMatch, RequestRight
<1>5. AllAdded'
  BY <1>2, <1>4 DEF PoolInv, PoolTypeOK, Moves, References, Lasting, AllAdded, Added
<1>6. ASSUME NEW a \in Admins PROVE RequestRight(admin[a])'
  <2>1. RequestRight(admin[a]) /\ admin[a] \in Request /\ (admin[a].place # l)
    BY DEF PoolInv, PoolTypeOK, Lasting, RequestsMatch, Fits
  <2>2. Added(admin[a].pool)' /\ Added(admin[a].from)'
    BY <1>2, <1>4, <2>1 DEF RequestRight, Added, Request, References
  <2>3. \A q \in Pools : Kept(q)' /\ source'[q].place = admin[a].place => admin[a].place = Nowhere
    BY <1>2, <2>1 DEF RequestRight, Kept
  <2> QED
    BY <2>1, <2>2, <2>3 DEF RequestRight
<1>7. RequestsMatch'
  BY <1>6 DEF RequestsMatch
<1>8. OwnPlaces'
  BY <1>2 DEF PoolInv, Lasting, OwnPlaces, Kept, Fits, PlaceOf
<1>9. RunMatches' /\ RowsMatch'
  BY DEF PoolInv, Lasting, RunMatches, RowsMatch
<1>10. ASSUME windows' = {} PROVE Undisturbed'
  <2>1. Undisturbed /\ StaysFound(p, d)
    <3>1. Undisturbed
      BY <1>10 DEF PoolInv
    <3> QED
      BY <1>4, <3>1 DEF StaysFound, Ends, Undisturbed, RunIsCurrent, Loadable, Kept
  <2>2. PointerIsRight' /\ DataIsMarked' /\ RunIsCurrent' /\ RowsAreTrue'
    BY <1>1, <2>1, FoundLater DEF SameFiles
  <2>3. DeletionsAreSafe'
    BY <2>1 DEF Undisturbed, DeletionsAreSafe, Unneeded, Active
  <2> QED
    BY <2>2, <2>3 DEF Undisturbed
<1> QED
  BY <1>3, <1>5, <1>7, <1>8, <1>9, <1>10 DEF PoolInv, Lasting

LEMMA SetEnabledKeeps ==
  ASSUME PoolInv, NEW p \in Pools, SetEnabled(p)
  PROVE  PoolInv'
<1> DEFINE d == [source[p] EXCEPT !.enabled = ~ @]
<1> USE PoolsAssumption DEF SetEnabled
<1>0. source[p] \in Document /\ source[p].is = "there"
  BY DEF PoolInv, PoolTypeOK, Kept
<1>1. Becomes(p, d)
  BY <1>0 DEF Document, Becomes
<1>2. source' \in [Pools -> Document] /\ source'[p] = d /\ \A q \in Pools : q # p => source'[q] = source[q]
  BY <1>1, BecomesLater DEF PoolInv
<1>3. \A q \in Pools : /\ source'[q].is = source[q].is
                       /\ source'[q].place = source[q].place
                       /\ source'[q].data = source[q].data
  BY <1>0, <1>2 DEF Document
<1>4. PoolTypeOK' /\ used'.moves = used.moves
  BY <1>2 DEF PoolInv, PoolTypeOK, RequestsDated, Change, Tallies
<1>5. AllAdded'
  BY <1>3 DEF PoolInv, PoolTypeOK, Moves, References, Lasting, AllAdded, Added
<1>6. RequestsMatch'
  BY <1>3 DEF PoolInv, PoolTypeOK, Request, References, Lasting, RequestsMatch, RequestRight, Added, Kept
<1>8. OwnPlaces'
  BY <1>3 DEF PoolInv, Lasting, OwnPlaces, Kept
<1>9. RunMatches' /\ RowsMatch'
  BY DEF PoolInv, Lasting, RunMatches, RowsMatch
<1>10. ASSUME windows' = {} PROVE Undisturbed'
  <2>1. Undisturbed /\ StaysFound(p, d) /\ d.is # "unmade"
    BY <1>10, <1>0 DEF PoolInv, StaysFound, Document
  <2>2. PointerIsRight' /\ DataIsMarked' /\ RunIsCurrent' /\ RowsAreTrue'
    BY <1>1, <2>1, FoundLater DEF SameFiles
  <2>3. DeletionsAreSafe'
    BY <1>4, <2>1 DEF Undisturbed, DeletionsAreSafe, Unneeded, Active
  <2> QED
    BY <2>2, <2>3 DEF Undisturbed
<1> QED
  BY <1>4, <1>5, <1>6, <1>8, <1>9, <1>10 DEF PoolInv, Lasting

LEMMA FinishedLater ==
  ASSUME PoolTypeOK, NEW a \in Admins, Finished(a)
  PROVE  /\ admin' \in [Admins -> Request] /\ admin'[a] = Quiet
         /\ \A b \in Admins : b # a => admin'[b] = admin[b]
BY QuietRight DEF PoolTypeOK, Finished

LEMMA FinishedDated ==
  ASSUME PoolInv, NEW a \in Admins, Finished(a), used' \in Tallies, used'.moves >= used.moves
  PROVE  RequestsDated'
<1>1. \A b \in Admins : admin'[b] \in {admin[b], Quiet} /\ admin[b].moves \in Nat /\ admin[b].moves <= used.moves
  BY FinishedLater DEF PoolInv, PoolTypeOK, Request, RequestsDated
<1>2. Quiet.moves <= used.moves /\ Quiet.moves \in Nat /\ used.moves \in Nat /\ used'.moves \in Nat
  BY UsedHolds DEF Quiet, Tallies
<1> QED
  BY <1>1, <1>2 DEF RequestsDated

LEMMA SaveSourceKeeps ==
  ASSUME PoolInv, NEW a \in Admins, SaveSource(a)
  PROVE  PoolInv'
<1> DEFINE p == admin[a].pool
           d == IF Kept(p) THEN [source[p] EXCEPT !.place = admin[a].place]
                ELSE [Unmade EXCEPT !.is = "there", !.enabled = TRUE]
<1> USE PoolsAssumption
<1>0. /\ p \in Pools /\ source[p] \in Document /\ admin[a].place \in Places /\ ~ admin[a].data
      /\ source[p].is # "unmade" /\ RequestRight(admin[a])
  BY DEF PoolInv, PoolTypeOK, SaveSource, Lasting, RequestsMatch, RequestRight, Added, Request
<1>1. Becomes(p, d) /\ d.is = "there"
  BY <1>0 DEF Document, Becomes, SaveSource, Unmade, Kept, Places
<1>2. source' \in [Pools -> Document] /\ source'[p] = d /\ \A q \in Pools : q # p => source'[q] = source[q]
  BY <1>0, <1>1, BecomesLater DEF PoolInv
<1>3. /\ admin' \in [Admins -> Request] /\ admin'[a] = Quiet
      /\ \A b \in Admins : b # a => admin'[b] = admin[b]
  BY FinishedLater DEF PoolInv, SaveSource
<1>4. PoolTypeOK'
  <2>1. RequestsDated'
    BY UsedHolds, FinishedDated DEF SaveSource
  <2> QED
    BY <1>2, <1>3, <2>1 DEF PoolInv, PoolTypeOK, SaveSource
<1>5. d.place = admin[a].place \/ d.place = Nowhere
  BY <1>0 DEF Unmade, Document
<1>6. \A q \in Pools : source'[q].is # "unmade" \/ source'[q].is = source[q].is
  BY <1>1, <1>2
<1>7. AllAdded'
  BY <1>6 DEF PoolInv, PoolTypeOK, Moves, References, Lasting, AllAdded, Added, SaveSource
<1>8. ASSUME NEW b \in Admins PROVE RequestRight(admin[b])'
  <2>1. Added(Quiet.pool)' /\ Added(Quiet.from)' /\ Quiet.at = "idle" /\ Quiet.place = Nowhere /\ Nowhere # Home
    BY DEF Added, Quiet
  <2>2. CASE b = a
    BY <1>3, <2>1, <2>2 DEF RequestRight
  <2>3. CASE b # a
    <3>1. RequestRight(admin[b]) /\ admin'[b] = admin[b] /\ admin[b] \in Request
      BY <1>3, <2>3 DEF PoolInv, PoolTypeOK, Lasting, RequestsMatch
    <3>2. Added(admin[b].pool)' /\ Added(admin[b].from)'
      BY <1>3, <1>6, <2>3, <3>1 DEF RequestRight, Added, Request, References
    <3>3. admin[b].place = admin[a].place => admin[b].place = Nowhere
      BY <2>3 DEF PoolInv, Lasting, OwnPlaces
    <3>4. \A q \in Pools : Kept(q)' /\ source'[q].place = admin[b].place => admin[b].place = Nowhere
      BY <1>2, <1>5, <3>1, <3>3 DEF RequestRight, Kept
    <3> QED
      BY <3>1, <3>2, <3>4 DEF RequestRight
  <2> QED
    BY <2>2, <2>3
<1>9. RequestsMatch'
  BY <1>8 DEF RequestsMatch
<1>10. OwnPlaces'
  <2>1. \A q \in Pools : Kept(q)' => source'[q].place # Home
    BY <1>0, <1>2, <1>5 DEF PoolInv, Lasting, OwnPlaces, Kept, RequestRight
  <2>2. ASSUME NEW q \in Pools, NEW r \in Pools, Kept(q)', Kept(r)', source'[q].place = source'[r].place, q # r
        PROVE  source'[q].place = Nowhere
    <3>1. ASSUME NEW s \in Pools, s # p, Kept(s), d.place = source[s].place PROVE d.place = Nowhere
      BY <1>0, <1>5, <3>1 DEF RequestRight
    <3>2. CASE q # p /\ r # p
      BY <1>2, <2>2, <3>2 DEF PoolInv, Lasting, OwnPlaces, Kept
    <3>3. CASE q = p \/ r = p
      BY <1>2, <2>2, <3>1, <3>3 DEF Kept
    <3> QED
      BY <3>2, <3>3
  <2>3. \A b, c \in Admins : admin'[b].place = admin'[c].place => b = c \/ admin'[b].place = Nowhere
    BY <1>3 DEF PoolInv, Lasting, OwnPlaces, Quiet
  <2> QED
    BY <2>1, <2>2, <2>3 DEF PoolInv, Lasting, OwnPlaces, SaveSource
<1>11. RunMatches' /\ RowsMatch'
  BY DEF PoolInv, Lasting, RunMatches, RowsMatch, SaveSource
<1>12. ASSUME windows' = {} PROVE Undisturbed'
  <2>1. windows = {} /\ Undisturbed /\ ~ Begun(p) /\ ~ source[p].data /\ ~ WillBeMarked(p)
    BY <1>0, <1>12 DEF SaveSource, PoolInv, WillBeMarked
  <2>2. pointer # p
    BY <2>1, <1>0 DEF Undisturbed, DataIsMarked, WillBeMarked, PoolInv, Lasting, RowsMatch, Begun, Underway, Active, Ends
  <2>3. StaysFound(p, d)
    <3>1. run.at # "idle" => Underway
      BY DEF PoolInv, PoolTypeOK, Runs, RunPlaces, Lasting, RunMatches, Underway, Active
    <3> QED
      BY <1>1, <2>1, <2>2, <3>1 DEF StaysFound, Begun
  <2>4. PointerIsRight' /\ DataIsMarked' /\ RunIsCurrent' /\ RowsAreTrue'
    BY <1>0, <1>1, <2>1, <2>3, FoundLater DEF SameFiles, SaveSource
  <2>5. DeletionsAreSafe'
    BY <1>3, <2>1 DEF Undisturbed, DeletionsAreSafe, Unneeded, Active, SaveSource, Quiet
  <2> QED
    BY <2>4, <2>5 DEF Undisturbed
<1> QED
  BY <1>4, <1>7, <1>9, <1>10, <1>11, <1>12 DEF PoolInv, Lasting

LEMMA DeleteSourceKeeps ==
  ASSUME PoolInv, NEW a \in Admins, DeleteSource(a)
  PROVE  PoolInv'
<1> DEFINE p == admin[a].pool
           d == [source[p] EXCEPT !.is = "gone"]
<1> USE PoolsAssumption
<1>0. p \in Pools /\ source[p] \in Document /\ admin[a].at = "delete"
  BY DEF PoolInv, PoolTypeOK, DeleteSource, Lasting, RequestsMatch, RequestRight
<1>1. Becomes(p, d) /\ d.is = "gone" /\ d.place = source[p].place
  BY <1>0 DEF Document, Becomes, DeleteSource
<1>2. source' \in [Pools -> Document] /\ source'[p] = d /\ \A q \in Pools : q # p => source'[q] = source[q]
  BY <1>0, <1>1, BecomesLater DEF PoolInv
<1>3. /\ admin' \in [Admins -> Request] /\ admin'[a] = Quiet
      /\ \A b \in Admins : b # a => admin'[b] = admin[b]
  BY FinishedLater DEF PoolInv, DeleteSource
<1>4. PoolTypeOK'
  <2>1. RequestsDated'
    BY UsedHolds, FinishedDated DEF DeleteSource
  <2> QED
    BY <1>2, <1>3, <2>1 DEF PoolInv, PoolTypeOK, DeleteSource
<1>5. \A q \in Pools : /\ source'[q].is # "unmade" \/ source'[q].is = source[q].is
                       /\ Kept(q)' => Kept(q)
                       /\ source'[q].place = source[q].place
  BY <1>1, <1>2 DEF Kept
<1>7. AllAdded'
  BY <1>5 DEF PoolInv, PoolTypeOK, Moves, References, Lasting, AllAdded, Added, DeleteSource
<1>8. ASSUME NEW b \in Admins PROVE RequestRight(admin[b])'
  <2>1. admin'[b] \in Request /\ RequestRight(admin'[b])
    BY <1>3, QuietRight DEF PoolInv, PoolTypeOK, Lasting, RequestsMatch
  <2> QED
    BY <2>1, <1>5 DEF RequestRight, Added, Request, References
<1>9. RequestsMatch'
  BY <1>8 DEF RequestsMatch
<1>10. OwnPlaces'
  BY <1>3, <1>5 DEF PoolInv, Lasting, OwnPlaces, DeleteSource, Quiet
<1>11. RunMatches' /\ RowsMatch'
  BY DEF PoolInv, Lasting, RunMatches, RowsMatch, DeleteSource
<1>12. ASSUME windows' = {} PROVE Undisturbed'
  <2>1. windows = {} /\ Undisturbed /\ used.moves = admin[a].moves
    BY <1>12 DEF DeleteSource, PoolInv
  <2>2. pointer # p /\ ~ (Active /\ p = move.to)
    BY <2>1, <1>0 DEF Undisturbed, DeletionsAreSafe, Unneeded
  <2>3. StaysFound(p, d)
    BY <1>1, <2>2 DEF StaysFound, PoolInv, Lasting, RunMatches, Active
  <2>4. PointerIsRight' /\ DataIsMarked' /\ RunIsCurrent' /\ RowsAreTrue'
    BY <1>0, <1>1, <2>1, <2>3, FoundLater DEF SameFiles, DeleteSource
  <2>5. DeletionsAreSafe'
    BY <1>3, <2>1 DEF Undisturbed, DeletionsAreSafe, Unneeded, Active, DeleteSource, Quiet
  <2> QED
    BY <2>4, <2>5 DEF Undisturbed
<1> QED
  BY <1>4, <1>7, <1>9, <1>10, <1>11, <1>12 DEF PoolInv, Lasting

(***************************************************************************)
(* The steps of a transfer.                                                *)
(***************************************************************************)
\* Documents keep their places, and who asks for what is not touched.
SameDocuments ==
  /\ source' \in [Pools -> Document]
  /\ \A p \in Pools : source'[p].is = source[p].is /\ source'[p].place = source[p].place
  /\ admin' = admin /\ used' = used /\ windows' = windows
  /\ objects' \in [Places -> SUBSET Files] /\ objects'[Nowhere] = {}
  /\ move' \in Moves /\ move'.from = move.from /\ move'.to = move.to
  /\ pointer' \in {pointer, move.to}

LEMMA SameDocumentsKept ==
  ASSUME PoolInv, SameDocuments
  PROVE  /\ AllAdded' /\ RequestsMatch' /\ OwnPlaces'
         /\ \A p \in References : PlaceOf(p)' = PlaceOf(p) /\ Loadable(p)' = Loadable(p)
<1> USE PoolsAssumption DEF PoolInv, Lasting, SameDocuments
<1>1. AllAdded'
  BY DEF PoolTypeOK, Moves, References, AllAdded, Added
<1>2. RequestsMatch'
  BY DEF PoolTypeOK, Request, References, RequestsMatch, RequestRight, Added, Kept
<1>3. OwnPlaces'
  BY DEF OwnPlaces, Kept
<1>4. ASSUME NEW p \in References PROVE PlaceOf(p)' = PlaceOf(p) /\ Loadable(p)' = Loadable(p)
  BY DEF References, PlaceOf, Loadable, Kept
<1> QED
  BY <1>1, <1>2, <1>3, <1>4

\* The run goes on, or stops, under another status.
RunIs(status, at) ==
  /\ move' \in Moves /\ move'.status = status /\ move'.from = move.from /\ move'.to = move.to
  /\ run' \in Runs /\ run'.at = at
  /\ run'.queued => at = "idle" /\ status = "COPYING"
  /\ at \in {"verify", "switch", "delete", "settle"} => run'.src = run.src /\ run'.dst = run.dst

\* What a step of a transfer leaves alone before the pointer is moved.
SameEnds == UNCHANGED <<source, pointer, listed, admin, used, windows, refreshes>>

LEMMA RunKeeps ==
  ASSUME PoolInv, SameEnds, NEW status, NEW at, RunIs(status, at),
         <<status, at>> \in {<<"COPYING", "idle">>, <<"COPYING", "copy">>, <<"FAILED", "idle">>,
                             <<"VERIFIED", "idle">>, <<"VERIFIED", "verify">>, <<"VERIFIED", "switch">>,
                             <<"ABORTED", "idle">>},
         run.at \in {"copy", "verify", "switch"} \/ run.queued, move.status # "SWITCHED",
         objects' \in [Places -> SUBSET Files], objects'[Nowhere] = {},
         \A l \in Places : objects[l] \subseteq objects'[l],
         DOMAIN rows' = DOMAIN rows, rows' \in [DOMAIN rows' -> RowStates],
         RowsMatch',
         at # "idle" => run'.src # run'.dst \/ run'.src = Nowhere,
         windows = {} /\ at # "idle" =>
           /\ run'.src = PlaceOf(move.from) /\ run'.dst = PlaceOf(move.to)
           /\ Loadable(move.to),
         windows = {} => RowsAreTrue'
  PROVE  PoolInv'
<1> USE DEF SameEnds, RunIs
<1>1. SameDocuments
  BY DEF SameDocuments, PoolInv, PoolTypeOK
<1>2. PoolTypeOK'
  BY DEF PoolInv, PoolTypeOK, RequestsDated
<1>3. Active \/ move.status \in {"PENDING", "COPYING"}
  BY DEF PoolInv, PoolTypeOK, Runs, Lasting, RunMatches, Active
<1>4. RunMatches'
  BY <1>3 DEF PoolInv, Lasting, RunMatches, Active
<1>5. ASSUME windows' = {} PROVE Undisturbed'
  <2>1. Undisturbed
    BY <1>5 DEF PoolInv
  <2>2. PointerIsRight'
    <3>1. PlaceOf(pointer) \in Places
      BY PoolsAssumption DEF PoolInv, PoolTypeOK, PlaceOf, References, Places, Document
    <3> QED
      BY <2>1, <3>1, SameDocumentsKept, <1>1 DEF Undisturbed, PointerIsRight, PoolInv, PoolTypeOK
  <2>3. DataIsMarked' /\ RowsAreTrue'
    BY <1>3, <1>5, <2>1 DEF Undisturbed, DataIsMarked, WillBeMarked, PoolInv
  <2>4. DeletionsAreSafe'
    BY <1>3, <2>1 DEF Undisturbed, DeletionsAreSafe, Unneeded, Active
  <2>5. RunIsCurrent'
    <3>1. move.from \in References /\ move.to \in References
      BY DEF PoolInv, PoolTypeOK, Moves
    <3>2. /\ PlaceOf(move.from)' = PlaceOf(move.from) /\ PlaceOf(move.to)' = PlaceOf(move.to)
          /\ Loadable(move.to)' = Loadable(move.to)
      BY <1>1, <3>1, SameDocumentsKept DEF SameDocuments
    <3> QED
      BY <1>5, <3>2 DEF RunIsCurrent
  <2> QED
    BY <2>2, <2>3, <2>4, <2>5 DEF Undisturbed
<1> QED
  BY <1>1, <1>2, <1>4, <1>5, SameDocumentsKept DEF PoolInv, Lasting

LEMMA StoppedIs == \A b \in BOOLEAN : Stopped(b) \in Runs /\ Stopped(b).at = "idle" /\ Stopped(b).queued = b
BY DEF Stopped, Runs, RunPlaces, Places

LEMMA SetIs ==
  ASSUME PoolTypeOK, NEW status \in MoveStates, Set(status)
  PROVE  move' \in Moves /\ move'.status = status /\ move'.from = move.from /\ move'.to = move.to
BY DEF PoolTypeOK, Moves, Set

\* Two ends that are there are two places, or both nowhere.
LEMMA EndsDiffer ==
  ASSUME PoolInv, Readable, move.status # "DONE"
  PROVE  /\ Loadable(move.to) /\ PlaceOf(move.from) \in Places /\ PlaceOf(move.to) \in Places
         /\ PlaceOf(move.from) # PlaceOf(move.to) \/ PlaceOf(move.from) = Nowhere
<1> USE PoolsAssumption DEF PoolInv, Lasting
<1>1. move.from \in References /\ move.to \in References /\ move.from # move.to
  BY DEF PoolTypeOK, Moves, RunMatches
<1>2. \A p \in {move.from, move.to} \ {NoPool} : p \in Pools /\ Kept(p) /\ source[p].place \in Places
  BY <1>1 DEF Readable, Ends, References, PoolTypeOK, Document
<1> QED
  BY <1>1, <1>2 DEF Loadable, PlaceOf, OwnPlaces, Places

LEMMA TakeCopyKeeps ==
  ASSUME PoolInv, TakeMove, move.status # "SWITCHED"
  PROVE  PoolInv'
<1> DEFINE at == IF Readable THEN "copy" ELSE "idle"
<1> USE DEF TakeMove
<1>1. move.status \in {"PENDING", "COPYING"} /\ run.at = "idle" /\ run.queued
  BY DEF PoolInv, Lasting, RunMatches
<1>2. move' \in Moves /\ move'.status = "COPYING" /\ move'.from = move.from /\ move'.to = move.to
  BY SetIs DEF PoolInv, MoveStates
<1>3. Readable => /\ run'.src = PlaceOf(move.from) /\ run'.dst = PlaceOf(move.to) /\ Loadable(move.to)
                  /\ run'.src # run'.dst \/ run'.src = Nowhere
                  /\ run' \in Runs /\ run'.at = "copy" /\ ~ run'.queued
  BY <1>1, EndsDiffer DEF Runs, RunPlaces
<1>4. ~ Readable => run' \in Runs /\ run'.at = "idle" /\ ~ run'.queued
  BY StoppedIs
<1>5. RunIs("COPYING", at)
  BY <1>2, <1>3, <1>4 DEF RunIs
<1>6. RowsMatch'
  BY <1>1, <1>2, <1>3, <1>4 DEF PoolInv, Lasting, RowsMatch
<1>7. windows = {} => RowsAreTrue'
  BY <1>1, <1>2 DEF PoolInv, Undisturbed, RowsAreTrue, Underway, Active, PlaceOf
<1>8. /\ SameEnds /\ objects' = objects /\ rows' = rows
      /\ objects \in [Places -> SUBSET Files] /\ objects[Nowhere] = {} /\ rows \in [DOMAIN rows -> RowStates]
  BY DEF SameEnds, PoolInv, PoolTypeOK, Lasting, OwnPlaces
<1> QED
  BY <1>1, <1>3, <1>5, <1>6, <1>7, <1>8, RunKeeps

\* A transfer that has moved the pointer goes on deleting.
LEMMA TakeDeleteKeeps ==
  ASSUME PoolInv, TakeMove, move.status = "SWITCHED"
  PROVE  PoolInv'
<1> USE DEF TakeMove
<1>1. run.at = "idle" /\ move' = move /\ UNCHANGED <<source, pointer, listed, objects, rows, admin, used, windows, refreshes>>
  OBVIOUS
<1>2. Readable => /\ run'.src = PlaceOf(move.from) /\ run'.dst = PlaceOf(move.to) /\ Loadable(move.to)
                  /\ run'.src # run'.dst \/ run'.src = Nowhere
                  /\ run' \in Runs /\ run'.at = "delete" /\ ~ run'.queued
  BY EndsDiffer DEF Runs, RunPlaces
<1>3. ~ Readable => run' \in Runs /\ run'.at = "idle" /\ ~ run'.queued
  BY StoppedIs
<1>4. PoolTypeOK'
  BY <1>1, <1>2, <1>3 DEF PoolInv, PoolTypeOK, RequestsDated
<1>5. AllAdded' /\ RequestsMatch' /\ OwnPlaces'
  BY <1>1 DEF PoolInv, Lasting, AllAdded, Added, RequestsMatch, RequestRight, Kept, OwnPlaces
<1>6. RunMatches' /\ RowsMatch'
  BY <1>1, <1>2, <1>3 DEF PoolInv, Lasting, RunMatches, RowsMatch
<1>7. ASSUME windows' = {} PROVE Undisturbed'
  <2>1. Undisturbed
    BY <1>1, <1>7 DEF PoolInv
  <2>2. PointerIsRight' /\ DataIsMarked'
    BY <1>1, <2>1 DEF Undisturbed, PointerIsRight, DataIsMarked, WillBeMarked, Loadable, Kept, PlaceOf
  <2>3. DeletionsAreSafe' /\ RowsAreTrue'
    BY <1>1, <2>1 DEF Undisturbed, DeletionsAreSafe, Unneeded, Active, RowsAreTrue, Underway, PlaceOf
  <2>4. RunIsCurrent'
    BY <1>1, <1>2, <1>3 DEF RunIsCurrent, PlaceOf
  <2> QED
    BY <2>2, <2>3, <2>4 DEF Undisturbed
<1> QED
  BY <1>4, <1>5, <1>6, <1>7 DEF PoolInv, Lasting

LEMMA RunningHolds ==
  ASSUME PoolInv, run.at # "idle"
  PROVE  /\ objects \in [Places -> SUBSET Files] /\ objects[Nowhere] = {}
         /\ rows \in [DOMAIN rows -> RowStates]
         /\ run \in Runs /\ ~ run.queued
         /\ run.src # run.dst \/ run.src = Nowhere
         /\ windows = {} => /\ run.src = PlaceOf(move.from) /\ run.dst = PlaceOf(move.to)
                            /\ run.at \in {"copy", "verify", "switch"} => Loadable(move.to)
BY DEF PoolInv, PoolTypeOK, Lasting, OwnPlaces, RunMatches, Undisturbed, RunIsCurrent

LEMMA CopyRowKeeps ==
  ASSUME PoolInv, NEW k \in DOMAIN rows, CopyRow(k)
  PROVE  PoolInv'
<1> USE DEF CopyRow
<1>1. run.at = "copy" /\ move.status = "COPYING" /\ rows[k] = "PENDING" /\ k \in listed /\ k \in Files
  BY DEF PoolInv, Lasting, RunMatches, At
<1>2. /\ DOMAIN rows' = DOMAIN rows /\ rows' \in [DOMAIN rows' -> RowStates]
      /\ rows'[k] \in {"FAILED", "SKIPPED", "COPIED"}
      /\ \A j \in DOMAIN rows : j # k => rows'[j] = rows[j]
  BY <1>1, RunningHolds DEF RowStates
<1>3. /\ objects' \in [Places -> SUBSET Files] /\ objects'[Nowhere] = {}
      /\ \A l \in Places : objects[l] \subseteq objects'[l]
  <2>1. objects' = objects \/ (run.dst # Nowhere /\ objects' = [objects EXCEPT ![run.dst] = @ \cup {k}])
    OBVIOUS
  <2>2. objects \in [Places -> SUBSET Files] /\ objects[Nowhere] = {} /\ run.dst \in Places
    BY <1>1, RunningHolds DEF Runs
  <2>5. Nowhere \in Places
    BY DEF Places
  <2>3. CASE objects' = objects
    BY <2>2, <2>3
  <2>4. CASE run.dst # Nowhere /\ objects' = [objects EXCEPT ![run.dst] = @ \cup {k}]
    <3>1. objects' \in [Places -> SUBSET Files]
      BY ONLY <1>1, <2>2, <2>4
    <3>2. \A l \in Places : objects'[l] = IF l = run.dst THEN objects[l] \cup {k} ELSE objects[l]
      BY ONLY <2>2, <2>4
    <3>3. objects'[Nowhere] = {}
      BY ONLY <2>2, <2>4, <3>2, <2>5
    <3> QED
      BY <3>1, <3>2, <3>3
  <2> QED
    BY <2>1, <2>3, <2>4
<1>5. RowsMatch'
  BY <1>1, <1>2 DEF PoolInv, Lasting, RowsMatch
<1>6. ASSUME windows = {} PROVE RowsAreTrue'
  <2>1. RowsAreTrue /\ PointerIsRight
    BY <1>6 DEF PoolInv, Undisturbed
  <2>2. run.src = PlaceOf(move.from) /\ run.dst = PlaceOf(move.to) /\ run.dst \in Places
    BY <1>1, <1>6, RunningHolds DEF Runs
  <2>3. rows'[k] = "COPIED" => k \in objects'[run.dst]
    BY <1>2, <2>2, <1>1, RunningHolds
  <2>4. pointer = move.from => rows'[k] # "SKIPPED"
    BY <1>1, <1>2, <2>1, <2>2, RunningHolds DEF PointerIsRight
  <2>5. PlaceOf(move.to)' = PlaceOf(move.to)
    BY DEF PlaceOf
  <2> QED
    BY <1>1, <1>2, <1>3, <2>1, <2>2, <2>3, <2>4, <2>5 DEF RowsAreTrue, Underway, Active
<1>7. RunIs("COPYING", "copy")
  BY <1>1, RunningHolds DEF RunIs, PoolInv, PoolTypeOK
<1> QED
  BY <1>1, <1>2, <1>3, <1>5, <1>6, <1>7, RunKeeps, RunningHolds DEF SameEnds

LEMMA PauseRunKeeps ==
  ASSUME PoolInv, PauseRun
  PROVE  PoolInv'
<1> USE DEF PauseRun
<1>1. run.at = "copy" /\ move.status = "COPYING" /\ run'.at = "idle"
  BY StoppedIs DEF PoolInv, Lasting, RunMatches
<1>2. RunIs("COPYING", "idle")
  BY <1>1, StoppedIs DEF RunIs, PoolInv, PoolTypeOK
<1>3. RowsMatch' /\ (windows = {} => RowsAreTrue')
  BY <1>1 DEF PoolInv, Lasting, RowsMatch, Undisturbed, RowsAreTrue, Underway, Active, PlaceOf
<1> QED
  BY <1>1, <1>2, <1>3, RunKeeps, RunningHolds DEF SameEnds

LEMMA CopyEndsKeeps ==
  ASSUME PoolInv, CopyEnds
  PROVE  PoolInv'
<1> USE DEF CopyEnds
<1>1. run.at = "copy" /\ move.status = "COPYING"
  BY DEF PoolInv, Lasting, RunMatches
<1>2. \A k \in DOMAIN rows : rows[k] # "PENDING" /\ rows[k] # "SOURCE_DELETED"
  BY <1>1 DEF PoolInv, Lasting, RowsMatch, At
<1>3. ASSUME move'.status \in {"FAILED", "VERIFIED"}, move'.from = move.from, move'.to = move.to
      PROVE  windows = {} => RowsAreTrue'
  BY <1>1, <1>3 DEF PoolInv, Undisturbed, RowsAreTrue, Underway, Active, PlaceOf
<1>4. CASE At(rows, "FAILED") # {}
  <2>1. RunIs("FAILED", "idle")
    BY <1>4, StoppedIs, SetIs DEF RunIs, PoolInv, MoveStates
  <2>2. RowsMatch' /\ (windows = {} => RowsAreTrue')
    BY <1>2, <1>3, <2>1 DEF RunIs, RowsMatch
  <2> QED
    BY <1>1, <2>1, <2>2, RunKeeps, RunningHolds DEF SameEnds
<1>5. CASE At(rows, "FAILED") = {}
  <2> DEFINE at == IF Readable THEN "verify" ELSE "idle"
  <2>1. run \in Runs /\ ~ run.queued
    BY <1>1, RunningHolds
  <2>2. run' \in Runs /\ run'.at = at /\ ~ run'.queued /\ (at = "verify" => run'.src = run.src /\ run'.dst = run.dst)
    BY <1>5, <2>1, StoppedIs DEF Runs, RunPlaces
  <2>3. RunIs("VERIFIED", at)
    BY <1>5, <2>2, SetIs DEF RunIs, PoolInv, MoveStates
  <2>4. \A k \in DOMAIN rows : rows[k] \in {"COPIED", "VERIFIED", "SKIPPED"}
    BY <1>1, <1>2, <1>5, RunningHolds DEF At, RowStates
  <2>5. RowsMatch' /\ (windows = {} => RowsAreTrue')
    BY <1>2, <1>3, <2>3, <2>4 DEF RunIs, RowsMatch
  <2> QED
    BY <1>1, <2>2, <2>3, <2>5, RunKeeps, RunningHolds DEF SameEnds
<1> QED
  BY <1>4, <1>5

LEMMA VerifyRowsKeeps ==
  ASSUME PoolInv, VerifyRows
  PROVE  PoolInv'
<1> USE DEF VerifyRows
<1>1. run.at = "verify" /\ move.status = "VERIFIED" /\ move \in Moves
  BY DEF PoolInv, PoolTypeOK, Lasting, RunMatches
<1>2. \A k \in DOMAIN rows : rows[k] \in {"COPIED", "VERIFIED", "SKIPPED"}
  BY <1>1 DEF PoolInv, Lasting, RowsMatch
<1>3. DOMAIN rows' = DOMAIN rows
  OBVIOUS
<1>4. \A k \in DOMAIN rows : /\ rows'[k] \in {"FAILED", "VERIFIED", "SKIPPED"}
                             /\ rows'[k] = "VERIFIED" => rows[k] \in {"COPIED", "VERIFIED"}
                             /\ rows'[k] = "SKIPPED" => rows[k] = "SKIPPED"
  BY <1>2
<1>5. rows' \in [DOMAIN rows' -> RowStates]
  BY <1>3, <1>4 DEF RowStates
<1>6. ASSUME move'.status \in {"FAILED", "VERIFIED"}, move'.from = move.from, move'.to = move.to
      PROVE  windows = {} => RowsAreTrue'
  BY ONLY <1>1, <1>3, <1>4, <1>6, PoolInv, pointer' = pointer, objects' = objects, source' = source
  DEF PoolInv, Undisturbed, RowsAreTrue, Underway, Active, PlaceOf
<1>7. CASE At(rows', "FAILED") # {}
  <2>1. RunIs("FAILED", "idle")
    BY <1>7, StoppedIs, SetIs DEF RunIs, PoolInv, MoveStates
  <2>2. RowsMatch' /\ (windows = {} => RowsAreTrue')
    BY <1>3, <1>4, <1>6, <2>1 DEF RunIs, RowsMatch
  <2> QED
    BY <1>1, <1>3, <1>5, <2>1, <2>2, RunKeeps, RunningHolds DEF SameEnds
<1>8. CASE At(rows', "FAILED") = {}
  <2>1. run \in Runs /\ ~ run.queued
    BY <1>1, RunningHolds
  <2>2. run' \in Runs /\ run'.at = "switch" /\ ~ run'.queued /\ run'.src = run.src /\ run'.dst = run.dst
    BY <1>8, <2>1 DEF Runs, RunPlaces
  <2>3. RunIs("VERIFIED", "switch")
    BY <1>1, <1>8, <2>2 DEF RunIs
  <2>4. \A k \in DOMAIN rows' : rows'[k] \in {"VERIFIED", "SKIPPED"}
    BY <1>3, <1>4, <1>8 DEF At
  <2>5. RowsMatch' /\ (windows = {} => RowsAreTrue')
    BY <1>1, <1>6, <1>8, <2>3, <2>4 DEF RunIs, RowsMatch
  <2> QED
    BY <1>1, <1>3, <1>5, <2>2, <2>3, <2>5, RunKeeps, RunningHolds DEF SameEnds
<1> QED
  BY <1>7, <1>8

LEMMA SwitchPointerKeeps ==
  ASSUME PoolInv, SwitchPointer
  PROVE  PoolInv'
<1> USE DEF SwitchPointer
<1>1. run.at = "switch" /\ move.status = "VERIFIED" /\ move \in Moves
  BY DEF PoolInv, PoolTypeOK, Lasting, RunMatches
<1>2. \A k \in DOMAIN rows : rows[k] \in {"VERIFIED", "SKIPPED"}
  BY <1>1 DEF PoolInv, Lasting, RowsMatch
<1>3. CASE ~ (listed \subseteq DOMAIN rows /\ pointer = move.from)
  <2>1. RunIs("ABORTED", "idle")
    BY <1>3, StoppedIs, SetIs DEF RunIs, PoolInv, MoveStates
  <2>2. RowsMatch' /\ RowsAreTrue'
    BY <2>1 DEF RunIs, RowsMatch, RowsAreTrue, Underway, Active
  <2> QED
    BY <1>1, <1>3, <2>1, <2>2, RunKeeps, RunningHolds DEF SameEnds
<1>4. CASE listed \subseteq DOMAIN rows /\ pointer = move.from
  <2> DEFINE at == IF Readable THEN "delete" ELSE "idle"
  <2>1. run \in Runs /\ ~ run.queued
    BY <1>1, RunningHolds
  <2>2. run' \in Runs /\ run'.at = at /\ ~ run'.queued /\ (at = "delete" => run'.src = run.src /\ run'.dst = run.dst)
    BY <1>4, <2>1, StoppedIs DEF Runs, RunPlaces
  <2>3. RunIs("SWITCHED", at)
    BY <1>4, <2>2, SetIs DEF RunIs, PoolInv, MoveStates
  <2>4. SameDocuments /\ pointer' = move.to
    BY <1>4, <2>3 DEF RunIs, SameDocuments, PoolInv, PoolTypeOK, Lasting, OwnPlaces
  <2>5. PoolTypeOK'
    BY <2>2, <2>3, <2>4 DEF RunIs, PoolInv, PoolTypeOK, RequestsDated, Moves
  <2>6. \E k \in DOMAIN rows : rows[k] # "PENDING"
    BY <1>2, <1>4 DEF PoolInv, Lasting, RunMatches
  <2>7. RowsMatch'
    BY <1>2, <2>3, <2>4, <2>6 DEF RunIs, RowsMatch
  <2>8. RunMatches'
    BY <1>1, <2>2, <2>3, RunningHolds DEF RunIs, PoolInv, Lasting, RunMatches
  <2>9. ASSUME windows' = {} PROVE Undisturbed'
    <3>1. Undisturbed /\ windows = {} /\ pointer = move.from
      BY <1>4, <2>9 DEF PoolInv
    <3>2. PlaceOf(move.to)' = PlaceOf(move.to) /\ Loadable(move.to)' = Loadable(move.to)
      BY <1>4, <2>3 DEF RunIs, PlaceOf, Loadable, Kept
    <3>3. \A k \in listed : k \in DOMAIN rows /\ rows[k] # "SKIPPED" /\ rows[k] = "VERIFIED"
      BY <1>1, <1>2, <1>4, <3>1 DEF Undisturbed, RowsAreTrue, Underway, Active
    <3>4. listed \subseteq objects[PlaceOf(move.to)]
      BY <1>1, <3>1, <3>3 DEF Undisturbed, RowsAreTrue, Underway, Active
    <3>5. Loadable(move.to)
      BY <1>1, <3>1, RunningHolds
    <3>6. PointerIsRight' /\ DataIsMarked'
      BY <2>3, <2>4, <3>2, <3>4, <3>5 DEF RunIs, PointerIsRight, DataIsMarked, WillBeMarked, Loadable, Kept, PlaceOf
    <3>7. DeletionsAreSafe'
      BY <1>1, <2>3, <2>4, <3>1 DEF RunIs, Undisturbed, DeletionsAreSafe, Unneeded, Active
    <3>8. RunIsCurrent'
      BY <1>1, <2>2, <2>3, <3>1, RunningHolds DEF RunIs, RunIsCurrent, PlaceOf
    <3>9. RowsAreTrue'
      BY <1>1, <2>3, <3>1, <3>2 DEF RunIs, Undisturbed, RowsAreTrue, Underway, Active
    <3> QED
      BY <3>6, <3>7, <3>8, <3>9 DEF Undisturbed
  <2> QED
    BY <2>4, <2>5, <2>7, <2>8, <2>9, SameDocumentsKept DEF PoolInv, Lasting
<1> QED
  BY <1>3, <1>4

LEMMA DeleteOriginalsKeeps ==
  ASSUME PoolInv, DeleteOriginals
  PROVE  PoolInv'
<1>0. PICK gone \in SUBSET At(rows, "VERIFIED"), noted \in SUBSET Files :
        /\ objects' = [objects EXCEPT ![run.src] = @ \ gone]
        /\ rows' = [k \in DOMAIN rows |-> IF k \in noted THEN "SOURCE_DELETED" ELSE rows[k]]
  BY DEF DeleteOriginals
<1>a. /\ run.at = "delete" /\ run' = [run EXCEPT !.at = "settle"]
      /\ UNCHANGED <<refreshes, source, pointer, listed, move, admin, used, windows>>
  BY DEF DeleteOriginals
<1> USE <1>a
<1>1. /\ run.at = "delete" /\ move.status = "SWITCHED" /\ pointer = move.to
      /\ \E k \in DOMAIN rows : rows[k] # "PENDING"
  BY DEF PoolInv, Lasting, RunMatches, RowsMatch
<1>2. /\ DOMAIN rows' = DOMAIN rows /\ rows' \in [DOMAIN rows' -> RowStates]
      /\ \A k \in DOMAIN rows : rows'[k] \in {"SOURCE_DELETED", rows[k]}
  BY <1>0, <1>1, RunningHolds DEF RowStates
<1>3. run' \in Runs /\ run'.at = "settle" /\ ~ run'.queued /\ run'.src = run.src /\ run'.dst = run.dst
  BY <1>1, RunningHolds DEF Runs, RunPlaces
<1>4. /\ objects' \in [Places -> SUBSET Files] /\ objects'[Nowhere] = {}
      /\ \A l \in Places : l # run.src => objects'[l] = objects[l]
  BY <1>0, <1>1, RunningHolds DEF Runs
<1>5. SameDocuments
  BY <1>4 DEF SameDocuments, PoolInv, PoolTypeOK
<1>6. PoolTypeOK'
  BY <1>2, <1>3, <1>4 DEF PoolInv, PoolTypeOK, RequestsDated
<1>7. RowsMatch'
  BY <1>1, <1>2, <1>3 DEF PoolInv, Lasting, RowsMatch
<1>8. RunMatches'
  BY <1>1, <1>2, <1>3, RunningHolds DEF PoolInv, Lasting, RunMatches
<1>9. ASSUME windows' = {} PROVE Undisturbed'
  <2>1. Undisturbed /\ windows = {}
    BY <1>9 DEF PoolInv
  <2>2. run.src = PlaceOf(move.from) /\ run.dst = PlaceOf(move.to) /\ run.dst \in Places /\ listed # {}
    BY <1>1, <2>1, RunningHolds DEF Runs, PoolInv, Lasting, RunMatches
  <2>3. run.src # run.dst
    BY <1>1, <2>1, <2>2, RunningHolds DEF Undisturbed, PointerIsRight
  <2>4. PointerIsRight' /\ DataIsMarked'
    BY <1>1, <1>4, <2>1, <2>2, <2>3 DEF Undisturbed, PointerIsRight, DataIsMarked, WillBeMarked, Loadable, PlaceOf, Kept
  <2>5. DeletionsAreSafe'
    BY <2>1 DEF Undisturbed, DeletionsAreSafe, Unneeded, Active
  <2>6. RunIsCurrent'
    BY <1>3, <2>2 DEF RunIsCurrent, PlaceOf
  <2>7. RowsAreTrue'
    <3>1. PlaceOf(move.to)' = PlaceOf(move.to) /\ objects'[run.dst] = objects[run.dst]
      BY <1>4, <2>2, <2>3 DEF PlaceOf
    <3> QED
      BY <1>1, <1>2, <2>1, <2>2, <3>1 DEF Undisturbed, RowsAreTrue, Underway, Active
  <2> QED
    BY <2>4, <2>5, <2>6, <2>7 DEF Undisturbed
<1> QED
  BY <1>5, <1>6, <1>7, <1>8, <1>9, SameDocumentsKept DEF PoolInv, Lasting

\* The same end, with what is left to be deleted and has_data to be written.
SameStage ==
  /\ UNCHANGED <<pointer, listed, objects, rows, admin, used>>
  /\ windows' = {} => windows = {}
  /\ source' \in [Pools -> Document]
  /\ \A p \in Pools : source'[p].is = source[p].is /\ source'[p].place = source[p].place
  /\ move' \in Moves /\ move'.from = move.from /\ move'.to = move.to
  /\ move'.status \in {move.status, "DONE"}
  /\ run' \in Runs /\ refreshes' \subseteq Refreshments

LEMMA StageKept ==
  ASSUME PoolInv, SameStage, RunMatches', RowsMatch',
         windows' = {} => DataIsMarked' /\ (run' = run \/ run'.at = "idle")
  PROVE  PoolInv'
<1> USE PoolsAssumption DEF SameStage
<1>1. PoolTypeOK'
  BY DEF PoolInv, PoolTypeOK, RequestsDated
<1>2. AllAdded'
  BY DEF PoolInv, Lasting, PoolTypeOK, Moves, References, AllAdded, Added
<1>3. RequestsMatch'
  BY DEF PoolInv, Lasting, PoolTypeOK, Request, References, RequestsMatch, RequestRight, Added, Kept
<1>4. OwnPlaces'
  BY DEF PoolInv, Lasting, OwnPlaces, Kept
<1>5. ASSUME NEW p \in References PROVE PlaceOf(p)' = PlaceOf(p) /\ Loadable(p)' = Loadable(p)
  BY DEF References, PlaceOf, Loadable, Kept
<1>6. pointer \in References /\ move.from \in References /\ move.to \in References
  BY DEF PoolInv, PoolTypeOK, Moves
<1>7. ASSUME windows' = {} PROVE Undisturbed'
  <2>1. Undisturbed
    BY <1>7 DEF PoolInv
  <2>2. PointerIsRight'
    BY <1>5, <1>6, <2>1 DEF Undisturbed, PointerIsRight
  <2>3. DeletionsAreSafe'
    BY <2>1 DEF Undisturbed, DeletionsAreSafe, Unneeded, Active
  <2>4. RunIsCurrent'
    BY <1>5, <1>6, <1>7, <2>1 DEF Undisturbed, RunIsCurrent
  <2>5. RowsAreTrue'
    BY <1>5, <1>6, <2>1 DEF Undisturbed, RowsAreTrue, Underway, Active
  <2> QED
    BY <1>7, <2>2, <2>3, <2>4, <2>5 DEF Undisturbed
<1> QED
  BY <1>1, <1>2, <1>3, <1>4, <1>7 DEF PoolInv, Lasting

LEMMA ComeBackKeeps ==
  ASSUME PoolInv, ComeBack
  PROVE  PoolInv'
<1> USE DEF ComeBack
<1>1. run.at = "settle" /\ move.status = "SWITCHED"
  BY DEF PoolInv, Lasting, RunMatches
<1>2. run' \in Runs /\ run'.at = "idle"
  BY StoppedIs
<1>3. SameStage
  BY <1>2 DEF SameStage, PoolInv, PoolTypeOK
<1>4. RunMatches' /\ RowsMatch'
  BY <1>1, <1>2 DEF PoolInv, Lasting, RunMatches, RowsMatch
<1>5. windows' = {} => DataIsMarked'
  BY DEF PoolInv, Undisturbed, DataIsMarked, WillBeMarked
<1> QED
  BY <1>2, <1>3, <1>4, <1>5, StageKept

LEMMA SettleMoveKeeps ==
  ASSUME PoolInv, SettleMove
  PROVE  PoolInv'
<1> USE DEF SettleMove
<1>1. run.at = "settle" /\ move.status = "SWITCHED" /\ pointer = move.to /\ move.from # move.to
  BY DEF PoolInv, Lasting, RunMatches, RowsMatch
<1>2. move' \in Moves /\ move'.status = "DONE" /\ move'.from = move.from /\ move'.to = move.to
  BY SetIs DEF PoolInv, MoveStates
<1>3. run' \in Runs /\ run'.at = "idle" /\ ~ run'.queued
  BY StoppedIs
<1>4. Refreshed \subseteq Pools
  <2>1. move.from \in References /\ move.to \in References /\ move.from # move.to
    BY <1>1 DEF PoolInv, PoolTypeOK, Moves
  <2> QED
    BY <2>1, PoolsAssumption DEF Refreshed, Ends, SourceField, References
<1>5. refreshes' \subseteq Refreshments
  BY <1>4 DEF PoolInv, PoolTypeOK, Tallies, Refreshments
<1>6. SameStage
  BY <1>2, <1>3, <1>5 DEF SameStage, PoolInv, PoolTypeOK
<1>7. RowsMatch' /\ RunMatches'
  BY <1>1, <1>2, <1>3 DEF PoolInv, Lasting, RowsMatch, RunMatches
<1>8. ASSUME windows' = {} PROVE DataIsMarked'
  <2>1. Refreshed = Ends
    BY <1>8
  <2>2. ASSUME pointer # NoPool PROVE WillBeMarked(pointer)'
    <3>1. pointer \in Refreshed
      BY <1>1, <2>1, <2>2 DEF Ends
    <3> DEFINE m == [pool |-> pointer, by |-> used.moves, seen |-> "unread"]
    <3>2. m \in refreshes' /\ m.pool = pointer' /\ m.seen # "no"
      BY <3>1
    <3> QED
      BY <3>2 DEF WillBeMarked
  <2> QED
    BY <2>2 DEF DataIsMarked
<1> QED
  BY <1>3, <1>6, <1>7, <1>8, StageKept

LEMMA CountProjectsKeeps ==
  ASSUME PoolInv, NEW m \in refreshes, CountProjects(m)
  PROVE  PoolInv'
<1> USE DEF CountProjects
<1> DEFINE n == [m EXCEPT !.seen = IF pointer = m.pool THEN "yes" ELSE "no"]
<1>1. m \in Refreshments /\ n \in Refreshments /\ refreshes \subseteq Refreshments
  BY DEF PoolInv, PoolTypeOK, Refreshments
<1>2. refreshes' = (refreshes \ {m}) \cup {n} /\ n.pool = m.pool /\ (pointer = m.pool => n.seen = "yes")
  BY <1>1 DEF Refreshments
<1>3. SameStage
  BY <1>1, <1>2 DEF SameStage, PoolInv, PoolTypeOK
<1>4. RunMatches' /\ RowsMatch'
  BY DEF PoolInv, Lasting, RunMatches, RowsMatch
<1>5. WillBeMarked(pointer) => WillBeMarked(pointer)'
  BY <1>2 DEF WillBeMarked
<1>6. windows' = {} => DataIsMarked'
  BY <1>5 DEF PoolInv, Undisturbed, DataIsMarked
<1> QED
  BY <1>3, <1>4, <1>6, StageKept

\* What is written at the end of a run, or is lost with its worker.
LEMMA MarkKeeps ==
  ASSUME PoolInv, NEW m \in refreshes, WriteMark(m) \/ LoseMark(m)
  PROVE  PoolInv'
<1>1. m \in Refreshments /\ m.pool \in Pools /\ refreshes' = refreshes \ {m}
      /\ UNCHANGED <<pointer, listed, objects, move, rows, run, admin, used>>
  BY DEF PoolInv, PoolTypeOK, Refreshments, WriteMark, LoseMark
<1>2. ASSUME NEW p \in Pools
      PROVE  /\ source'[p] \in Document /\ source'[p].is = source[p].is
             /\ source'[p].place = source[p].place
             /\ p # m.pool => source'[p].data = source[p].data
  <2>1. source[p] \in Document /\ source \in [Pools -> Document]
    BY DEF PoolInv, PoolTypeOK
  <2>2. CASE WriteMark(m)
    <3> DEFINE b == IF Kept(m.pool) THEN m.seen = "yes" ELSE source[m.pool].data
    <3>1. b \in BOOLEAN /\ source' = [source EXCEPT ![m.pool].data = b]
      BY <1>1, <2>1, <2>2 DEF WriteMark, PoolInv, PoolTypeOK, Document
    <3> HIDE DEF b
    <3> QED
      BY <1>1, <2>1, <3>1 DEF Document
  <2>3. CASE LoseMark(m)
    BY <2>1, <2>3 DEF LoseMark
  <2> QED
    BY <1>1, <2>2, <2>3
<1>3. source' \in [Pools -> Document]
  <2>1. DOMAIN source' = Pools /\ source' = [p \in Pools |-> source'[p]]
    BY <1>1 DEF PoolInv, PoolTypeOK, WriteMark, LoseMark
  <2> QED
    BY <1>2, <2>1
<1>4. SameStage
  BY <1>1, <1>2, <1>3 DEF SameStage, PoolInv, PoolTypeOK, WriteMark, LoseMark
<1>5. RunMatches' /\ RowsMatch'
  BY <1>1 DEF PoolInv, Lasting, RunMatches, RowsMatch
<1>6. ASSUME windows' = {} PROVE DataIsMarked'
  <2>1. windows = {} /\ DataIsMarked /\ PointerIsRight
    BY <1>4, <1>6 DEF SameStage, PoolInv, Undisturbed
  <2>2. CASE pointer # m.pool
    <3>1. WillBeMarked(pointer) => WillBeMarked(pointer)'
      BY <1>1, <2>2 DEF WillBeMarked
    <3>2. pointer # NoPool => source'[pointer].data = source[pointer].data
      BY <1>1, <1>2, <2>2 DEF PoolInv, PoolTypeOK, References
    <3> QED
      BY <1>1, <2>1, <3>1, <3>2 DEF DataIsMarked
  <2>3. CASE pointer = m.pool
    <3>1. WriteMark(m) /\ m.seen = "yes"
      BY <1>1, <1>6, <2>3 DEF WriteMark, LoseMark, Refreshments
    <3>2. Kept(m.pool)
      BY <1>1, <2>1, <2>3, PoolsAssumption DEF PointerIsRight, Loadable
    <3>3. source'[m.pool].data
      BY <1>1, <3>1, <3>2 DEF WriteMark, PoolInv, PoolTypeOK, Document
    <3> QED
      BY <1>1, <2>3, <3>3 DEF DataIsMarked
  <2> QED
    BY <2>2, <2>3
<1> QED
  BY <1>1, <1>4, <1>5, <1>6, StageKept

(***************************************************************************)
(* A transfer begins, or begins again.                                     *)
(***************************************************************************)
LEMMA CreateMoveKeeps ==
  ASSUME PoolInv, NEW a \in Admins, CreateMove(a)
  PROVE  PoolInv'
<1> USE PoolsAssumption DEF CreateMove
<1>1. /\ admin' \in [Admins -> Request] /\ admin'[a] = Quiet
      /\ \A b \in Admins : b # a => admin'[b] = admin[b]
  BY FinishedLater DEF PoolInv
<1>2. admin[a] \in Request /\ RequestRight(admin[a]) /\ admin[a].at = "create"
  BY DEF PoolInv, PoolTypeOK, Lasting, RequestsMatch
<1>3. move' \in Moves /\ move'.status = "PENDING" /\ move'.from = admin[a].from /\ move'.to = admin[a].pool
  BY <1>2 DEF Moves, MoveStates, Request
<1>4. rows' \in [DOMAIN rows' -> RowStates] /\ DOMAIN rows' = listed /\ \A k \in listed : rows'[k] = "PENDING"
  BY DEF RowStates
<1>5. run' \in Runs /\ run'.at = "idle"
  BY StoppedIs
<1>6. used' \in Tallies /\ used'.moves = used.moves + 1 /\ used.moves \in Nat
  BY DEF PoolInv, PoolTypeOK, Tallies
<1>7. PoolTypeOK'
  <2>1. RequestsDated'
    BY <1>6, FinishedDated
  <2> QED
    BY <1>1, <1>3, <1>4, <1>5, <1>6, <2>1 DEF PoolInv, PoolTypeOK
<1>8. AllAdded'
  BY <1>2, <1>3 DEF PoolInv, Lasting, AllAdded, RequestRight, Added
<1>9. RequestsMatch' /\ OwnPlaces'
  BY <1>1, QuietRight DEF PoolInv, Lasting, RequestsMatch, RequestRight, Added, Kept, OwnPlaces, Quiet
<1>10. RunMatches' /\ RowsMatch'
  BY <1>2, <1>3, <1>4, <1>5 DEF PoolInv, Lasting, RunMatches, RowsMatch, RequestRight
<1>11. ASSUME windows' = {} PROVE Undisturbed'
  <2>1. Undisturbed
    BY <1>11 DEF PoolInv
  <2>2. PointerIsRight' /\ DataIsMarked'
    BY <2>1 DEF Undisturbed, PointerIsRight, DataIsMarked, WillBeMarked, Loadable, Kept, PlaceOf, Underway, Active
  <2>3. DeletionsAreSafe'
    <3>1. ASSUME NEW b \in Admins, admin'[b].at = "delete", admin'[b].moves = used'.moves PROVE FALSE
      BY <1>1, <1>6, <3>1 DEF PoolInv, PoolTypeOK, RequestsDated, Request, Quiet
    <3> QED
      BY <3>1 DEF DeletionsAreSafe, Unneeded
  <2>4. RunIsCurrent' /\ RowsAreTrue'
    BY <1>4, <1>5 DEF RunIsCurrent, RowsAreTrue
  <2> QED
    BY <2>2, <2>3, <2>4 DEF Undisturbed
<1> QED
  BY <1>7, <1>8, <1>9, <1>10, <1>11 DEF PoolInv, Lasting

LEMMA RetryMoveKeeps ==
  ASSUME PoolInv, RetryMove
  PROVE  PoolInv'
<1> USE PoolsAssumption DEF RetryMove
<1>1. /\ move' \in Moves /\ move'.status = "PENDING" /\ move'.from = move.from /\ move'.to = move.to
      /\ move.from # move.to
  BY DEF PoolInv, PoolTypeOK, Moves, MoveStates, Lasting, RunMatches
<1>2. /\ rows' \in [DOMAIN rows' -> RowStates] /\ DOMAIN rows' \subseteq listed
      /\ \A k \in DOMAIN rows' :
           \/ rows'[k] = "PENDING"
           \/ move.status = "FAILED" /\ k \in DOMAIN rows /\ rows'[k] = rows[k]
  BY DEF PoolInv, PoolTypeOK, Lasting, RunMatches, RowStates
<1>3. run' \in Runs /\ run'.at = "idle"
  BY StoppedIs
<1>4. used' \in Tallies /\ used'.moves = used.moves + 1 /\ used.moves \in Nat
  BY DEF PoolInv, PoolTypeOK, Tallies
<1>5. PoolTypeOK'
  <2>1. RequestsDated'
    BY <1>4 DEF PoolInv, PoolTypeOK, RequestsDated, Request
  <2> QED
    BY <1>1, <1>2, <1>3, <1>4, <2>1 DEF PoolInv, PoolTypeOK
<1>6. AllAdded' /\ RequestsMatch' /\ OwnPlaces'
  BY <1>1 DEF PoolInv, Lasting, AllAdded, Added, RequestsMatch, RequestRight, Kept, OwnPlaces
<1>7. RunMatches'
  BY <1>1, <1>2, <1>3 DEF PoolInv, Lasting, RunMatches
<1>8. RowsMatch'
  BY <1>1, <1>2, <1>3 DEF PoolInv, Lasting, RowsMatch
<1>9. ASSUME windows' = {} PROVE Undisturbed'
  <2>1. Undisturbed
    BY <1>9 DEF PoolInv
  <2>2. PointerIsRight' /\ DataIsMarked'
    BY <2>1 DEF Undisturbed, PointerIsRight, DataIsMarked, WillBeMarked, Loadable, Kept, PlaceOf
  <2>3. DeletionsAreSafe'
    <3>1. \A b \in Admins : admin[b].moves \in Nat /\ admin[b].moves <= used.moves
      BY DEF PoolInv, PoolTypeOK, RequestsDated, Request
    <3> QED
      BY <1>4, <3>1 DEF DeletionsAreSafe, Unneeded
  <2>4. RunIsCurrent'
    BY <1>3 DEF RunIsCurrent
  <2>5. RowsAreTrue'
    BY <1>1, <1>2, <2>1 DEF Undisturbed, RowsAreTrue, Underway, Active, PlaceOf
  <2> QED
    BY <2>2, <2>3, <2>4, <2>5 DEF Undisturbed
<1> QED
  BY <1>5, <1>6, <1>7, <1>8, <1>9 DEF PoolInv, Lasting

LEMMA UploadKeeps ==
  ASSUME PoolInv, NEW k \in Files, Upload(k)
  PROVE  PoolInv'
<1> USE PoolsAssumption DEF Upload
<1>1. /\ objects' \in [Places -> SUBSET Files] /\ objects'[Nowhere] = {}
      /\ \A l \in Places : objects[l] \subseteq objects'[l]
      /\ Backend \in Places => k \in objects'[Backend]
  BY DEF PoolInv, PoolTypeOK, Lasting, OwnPlaces, Places
<1>2. SameDocuments \/ windows' # windows
  BY <1>1 DEF SameDocuments, PoolInv, PoolTypeOK
<1>3. PoolTypeOK'
  BY <1>1 DEF PoolInv, PoolTypeOK, RequestsDated
<1>4. AllAdded' /\ RequestsMatch' /\ OwnPlaces'
  BY <1>1 DEF PoolInv, Lasting, AllAdded, Added, RequestsMatch, RequestRight, Kept, OwnPlaces
<1>5. RunMatches' /\ RowsMatch'
  BY DEF PoolInv, Lasting, RunMatches, RowsMatch
<1>6. ASSUME windows' = {} PROVE Undisturbed'
  <2>1. Undisturbed /\ ~ Degraded
    BY <1>6 DEF PoolInv
  <2>2. \A p \in References : PlaceOf(p)' = PlaceOf(p) /\ PlaceOf(p) \in Places
    BY DEF PlaceOf, References, Places, PoolInv, PoolTypeOK, Document
  <2>3. Backend = PlaceOf(pointer) /\ pointer \in References /\ move.to \in References
    BY <2>1 DEF Backend, PlaceOf, PoolInv, PoolTypeOK, Moves
  <2>4. PointerIsRight' /\ DataIsMarked'
    BY <1>1, <2>1, <2>2, <2>3 DEF Undisturbed, PointerIsRight, DataIsMarked, WillBeMarked, Loadable, Kept
  <2>5. DeletionsAreSafe' /\ RunIsCurrent'
    BY <2>1 DEF Undisturbed, DeletionsAreSafe, Unneeded, Active, RunIsCurrent, PlaceOf, Loadable, Kept
  <2>6. RowsAreTrue'
    BY <1>1, <2>1, <2>2, <2>3 DEF Undisturbed, RowsAreTrue, Underway, Active
  <2> QED
    BY <2>4, <2>5, <2>6 DEF Undisturbed
<1> QED
  BY <1>3, <1>4, <1>5, <1>6 DEF PoolInv, Lasting

LEMMA PoolStutters == PoolInv /\ UNCHANGED poolVars => PoolInv'
<1> SUFFICES ASSUME PoolInv, UNCHANGED poolVars PROVE PoolInv'
  OBVIOUS
<1> USE DEF poolVars
<1>1. PoolTypeOK'
  BY DEF PoolInv, PoolTypeOK, RequestsDated
<1>2. Lasting'
  BY DEF PoolInv, Lasting, AllAdded, Added, RequestsMatch, RequestRight, Kept, OwnPlaces, RunMatches, RowsMatch
<1>3. Undisturbed => Undisturbed'
  BY DEF Undisturbed, PointerIsRight, DataIsMarked, WillBeMarked, DeletionsAreSafe, Unneeded, RunIsCurrent, RowsAreTrue,
         Loadable, Kept, PlaceOf, Active, Underway
<1> QED
  BY <1>1, <1>2, <1>3 DEF PoolInv

\* The project's files are found at the place the router picks, whatever is
\* done to the source documents and however often the project moves: every
\* step of administrators (SourceListAPI, SourceAPI), of the transfers and of
\* uploads keeps PoolInv.
THEOREM FilesFound ==
  ASSUME ~ Shared
  PROVE  PoolSpec => []FilesAreFound
<1>1. PoolInv /\ [PoolNext]_poolVars => PoolInv'
  <2> SUFFICES ASSUME PoolInv, [PoolNext]_poolVars PROVE PoolInv'
    OBVIOUS
  <2>1. CASE RunOn
    BY <2>1, TakeCopyKeeps, TakeDeleteKeeps, PauseRunKeeps, CopyEndsKeeps, VerifyRowsKeeps,
       SwitchPointerKeeps, DeleteOriginalsKeeps, ComeBackKeeps, SettleMoveKeeps, CopyRowKeeps
    DEF RunOn
  <2>2. ASSUME NEW a \in Admins, Administer(a) PROVE PoolInv'
    BY <2>2, ReadSourceKeeps, TestFailsKeeps, SaveSourceKeeps, CheckProjectsKeeps, CheckTransfersKeeps,
       DeleteSourceKeeps, AskMoveKeeps, CreateMoveKeeps
    DEF Administer, References
  <2>3. CASE RetryMove
    BY <2>3, RetryMoveKeeps
  <2>4. ASSUME NEW p \in Pools, SetEnabled(p) PROVE PoolInv'
    BY <2>4, SetEnabledKeeps
  <2>5. ASSUME NEW p \in Pools, NEW l \in Places \ {Nowhere}, AddSource(p, l) PROVE PoolInv'
    BY <2>5, AddSourceKeeps
  <2>6. ASSUME NEW k \in Files, Upload(k) PROVE PoolInv'
    BY <2>6, UploadKeeps
  <2>7. ASSUME NEW m \in refreshes, Refresh(m) PROVE PoolInv'
    BY <2>7, CountProjectsKeeps, MarkKeeps DEF Refresh
  <2> QED
    BY <2>1, <2>2, <2>3, <2>4, <2>5, <2>6, <2>7, PoolStutters DEF PoolNext
<1>2. PoolInv => FilesAreFound
  BY DEF PoolInv, PoolTypeOK, Undisturbed, PointerIsRight, FilesAreFound, Backend, Degraded, Claimed,
         Loadable, PlaceOf
<1> QED
  BY <1>1, <1>2, PoolInitInv, PTL DEF PoolSpec

(***************************************************************************)
(* DerivedImages: the derived images and their bytes.                      *)
(***************************************************************************)
RequestPlaces == {"idle", "point", "queue", "send", "inline", "drawing", "drop", "delete", "clear", "zero"}
BrushPlaces == {"idle", "read", "mark", "load", "publish", "account", "probe", "bytes", "charge", "finish"}
Statuses == {"UNKNOWN", "QUEUING", "GENERATING", "SUCCEEDED", "FAILED"}

Pictures == [there : BOOLEAN, name : Nat, status : Statuses, bytes : Int]
UploadStates == [Uploads -> [at : RequestPlaces, old : Nat, name : Nat]]
Brushes == [Runners -> [at : BrushPlaces, name : Nat, prev : Int, tries : Int]]
Drawings == [names : Nat, extras : Nat]

ImageTypeOK ==
  /\ image \in Pictures /\ request \in UploadStates /\ brush \in Brushes /\ drawn \in Drawings
  /\ charged \in Int

\* A request draws only while it says so.
OwnHand == \A r \in Uploads : brush[r].at # "idle" => request[r].at = "drawing"

\* Names are given once: every name in use is one that was given, and the one
\* a request is about to put into the document is nobody else's yet.
GivenNames ==
  /\ image.name \in 1..drawn.names
  /\ \A r \in Uploads : request[r].old \in 0..drawn.names /\ request[r].name \in 0..drawn.names
  /\ \A x \in Runners : brush[x].name \in 0..drawn.names

Fresh(n, r) ==
  /\ n # image.name /\ \A q \in Uploads : request[q].old # n
  /\ \A q \in Uploads \ {r} : RequestAt(q, "point") => request[q].name # n
  /\ \A x \in Runners : brush[x].name # n

FreshNames == \A r \in Uploads : RequestAt(r, "point") => Fresh(request[r].name, r) /\ request[r].name # 0

\* What a request will delete at its end is not what the document names.
Past == {"queue", "send", "inline", "drawing", "drop"}
OldIsReplaced == image.there => \A r \in Uploads : request[r].at \in Past => request[r].old # image.name

\* Whoever has drawn the document's object has left the derived images, until
\* somebody deletes it; and the status vouches for them.
Deleting == "cut" \in marks \/ \E r \in Uploads : request[r].at \in {"delete", "clear"}
Drawn == {"account", "bytes", "charge", "finish"}
LeftThere ==
  image.there /\ ~ Deleting =>
    /\ \A x \in Runners : brush[x].at \in Drawn /\ brush[x].name = image.name => image.name \in derived
    /\ image.status \in {"SUCCEEDED", "UNKNOWN"} => image.name \in derived \/ \E r \in Uploads : RequestAt(r, "queue")

CoverInv == ImageTypeOK /\ OwnHand /\ GivenNames /\ FreshNames /\ OldIsReplaced /\ LeftThere

\* The books: one runner counts, and what it has read is what they say.
Clean == marks \cap {"overlap", "uncounted", "deleted", "cut"} = {}
CountsAlone == \A x, y \in Runners : Counting(x) /\ Counting(y) => x = y
Counts(x) ==
  CASE BrushAt(x, "charge") -> image.bytes = Bytes(brush[x].name) /\ charged = brush[x].prev
    [] brush[x].at \in {"probe", "bytes"} -> image.bytes = brush[x].prev /\ charged = brush[x].prev
    [] OTHER -> TRUE
Cleared == \A r \in Uploads : RequestAt(r, "zero") => ~ image.there
Books ==
  Clean => /\ CountsAlone /\ \A x \in Runners : Counts(x)
           /\ (\A x \in Runners : ~ Counting(x)) /\ image.there => charged = image.bytes
           /\ ~ image.there => /\ \A x \in Runners : ~ Counting(x)
                               /\ charged = 0 \/ \E r \in Uploads : RequestAt(r, "zero")

ImageInv == CoverInv /\ Cleared /\ Books

\* One request moves, or one runner, or the status.
RequestIs(r, at, old, name) ==
  /\ request' \in UploadStates /\ \A q \in Uploads \ {r} : request'[q] = request[q]
  /\ request'[r].at = at /\ request'[r].old = old /\ request'[r].name = name
BrushIs(x, at, name, prev) ==
  /\ brush' \in Brushes /\ \A y \in Runners \ {x} : brush'[y] = brush[y]
  /\ brush'[x].at = at /\ brush'[x].name = name /\ brush'[x].prev = prev
ImageIs(status) ==
  /\ image' \in Pictures /\ image'.there = image.there /\ image'.name = image.name
  /\ image'.bytes = image.bytes /\ image'.status = status

LEMMA RequestMoves ==
  ASSUME request \in UploadStates, NEW r \in Uploads
  PROVE  /\ \A at \in RequestPlaces :
              RequestGoto(r, at) => RequestIs(r, at, request[r].old, request[r].name)
         /\ request' = [request EXCEPT ![r] = NoRequest] => RequestIs(r, "idle", 0, 0)
         /\ \A at \in RequestPlaces :
              request' = [request EXCEPT ![r] = [NoRequest EXCEPT !.at = at]] => RequestIs(r, at, 0, 0)
<1>1. ASSUME NEW at \in RequestPlaces, RequestGoto(r, at)
      PROVE  RequestIs(r, at, request[r].old, request[r].name)
  BY <1>1 DEF UploadStates, RequestGoto, RequestIs
<1>2. ASSUME NEW at \in RequestPlaces, request' = [request EXCEPT ![r] = [NoRequest EXCEPT !.at = at]]
      PROVE  RequestIs(r, at, 0, 0)
  BY <1>2 DEF UploadStates, NoRequest, RequestIs
<1>3. ASSUME request' = [request EXCEPT ![r] = NoRequest] PROVE RequestIs(r, "idle", 0, 0)
  BY <1>3 DEF UploadStates, NoRequest, RequestPlaces, RequestIs
<1> QED
  BY <1>1, <1>2, <1>3

LEMMA BrushMoves ==
  ASSUME brush \in Brushes, NEW x \in Runners
  PROVE  /\ \A at \in BrushPlaces : BrushGoto(x, at) => BrushIs(x, at, brush[x].name, brush[x].prev)
         /\ Rest(x) => BrushIs(x, "idle", 0, 0)
         /\ \A t \in Int : brush' = [brush EXCEPT ![x] = [Resting EXCEPT !.at = "read", !.tries = t]] =>
              BrushIs(x, "read", 0, 0)
         /\ \A n \in Nat : brush' = [brush EXCEPT ![x].at = "mark", ![x].name = n] =>
              BrushIs(x, "mark", n, brush[x].prev)
         /\ \A b \in Int : brush' = [brush EXCEPT ![x].at = "bytes", ![x].prev = b] =>
              BrushIs(x, "bytes", brush[x].name, b)
         /\ \A n \in Nat : brush' = [brush EXCEPT ![x] = [Resting EXCEPT !.at = "probe", !.name = n]] =>
              BrushIs(x, "probe", n, 0)
<1>1. ASSUME NEW at \in BrushPlaces, BrushGoto(x, at)
      PROVE  BrushIs(x, at, brush[x].name, brush[x].prev)
  BY <1>1 DEF Brushes, BrushGoto, BrushIs
<1>2. ASSUME Rest(x) PROVE BrushIs(x, "idle", 0, 0)
  BY <1>2 DEF Brushes, BrushPlaces, Rest, Resting, BrushIs
<1>3. ASSUME NEW t \in Int, brush' = [brush EXCEPT ![x] = [Resting EXCEPT !.at = "read", !.tries = t]]
      PROVE  BrushIs(x, "read", 0, 0)
  <2> DEFINE v == [Resting EXCEPT !.at = "read", !.tries = t]
  <2>0. Resting \in [at : BrushPlaces, name : Nat, prev : Int, tries : Int]
    BY DEF Resting, BrushPlaces
  <2>1. v \in [at : BrushPlaces, name : Nat, prev : Int, tries : Int]
    BY <2>0 DEF BrushPlaces
  <2>2. v.at = "read" /\ v.name = 0 /\ v.prev = 0
    BY DEF Resting
  <2>3. brush' = [brush EXCEPT ![x] = v]
    BY <1>3
  <2> QED
    BY ONLY <2>1, <2>2, <2>3, brush \in Brushes, x \in Runners DEF Brushes, BrushIs
<1>4. ASSUME NEW n \in Nat, brush' = [brush EXCEPT ![x].at = "mark", ![x].name = n]
      PROVE  BrushIs(x, "mark", n, brush[x].prev)
  BY <1>4 DEF Brushes, BrushPlaces, BrushIs
<1>5. ASSUME NEW b \in Int, brush' = [brush EXCEPT ![x].at = "bytes", ![x].prev = b]
      PROVE  BrushIs(x, "bytes", brush[x].name, b)
  BY <1>5 DEF Brushes, BrushPlaces, BrushIs
<1>6. ASSUME NEW n \in Nat, brush' = [brush EXCEPT ![x] = [Resting EXCEPT !.at = "probe", !.name = n]]
      PROVE  BrushIs(x, "probe", n, 0)
  <2> DEFINE v == [Resting EXCEPT !.at = "probe", !.name = n]
  <2>0. Resting \in [at : BrushPlaces, name : Nat, prev : Int, tries : Int]
    BY DEF Resting, BrushPlaces
  <2>1. v \in [at : BrushPlaces, name : Nat, prev : Int, tries : Int]
    BY <2>0 DEF BrushPlaces
  <2>2. v.at = "probe" /\ v.name = n /\ v.prev = 0
    BY DEF Resting
  <2>3. brush' = [brush EXCEPT ![x] = v]
    BY <1>6
  <2> QED
    BY ONLY <2>1, <2>2, <2>3, brush \in Brushes, x \in Runners DEF Brushes, BrushIs
<1> QED
  BY <1>1, <1>2, <1>3, <1>4, <1>5, <1>6

\* Writing a status, fenced or not, changes the status at most.
LEMMA StatusMoves ==
  ASSUME image \in Pictures, NEW s \in Statuses
  PROVE  /\ WriteState(s) => ImageIs(IF image.there THEN s ELSE image.status)
         /\ \A x \in Runners : ReportState(x, s) =>
              ImageIs(IF image.there /\ Fenced(x) THEN s ELSE image.status)
<1>1. image.there => /\ [image EXCEPT !.status = s] \in Pictures
                     /\ [image EXCEPT !.status = s].there = image.there
  BY DEF Pictures
<1>2. ASSUME WriteState(s) PROVE ImageIs(IF image.there THEN s ELSE image.status)
  BY <1>1, <1>2 DEF WriteState, Written, Pictures, ImageIs
<1>3. ASSUME NEW x \in Runners, ReportState(x, s)
      PROVE  ImageIs(IF image.there /\ Fenced(x) THEN s ELSE image.status)
  BY <1>1, <1>3 DEF ReportState, Written, Pictures, ImageIs
<1> QED
  BY <1>2, <1>3

(* What keeps the invariant: every step but storing and pointing to a new    *)
(* object respects the names, and every step but those that count or clear   *)
(* leaves the books alone.                                                   *)
KeepsCover ==
  /\ ImageTypeOK' /\ OwnHand' /\ drawn'.names = drawn.names /\ image'.name = image.name
  /\ marks \subseteq marks' /\ (image'.there => image.there)
  /\ \A q \in Uploads :
       /\ RequestAt(q, "point")' => RequestAt(q, "point") /\ request'[q].name = request[q].name
       /\ request'[q].old \in {request[q].old, 0} /\ request'[q].name \in {request[q].name, 0}
       /\ request'[q].at \in Past => request[q].at \in Past \/ request'[q].old = 0
       /\ request[q].at \in {"delete", "clear"} /\ image'.there => Deleting'
       /\ image'.there /\ RequestAt(q, "queue") =>
            RequestAt(q, "queue")' \/ "cut" \in marks' \/ image'.status \notin {"SUCCEEDED", "UNKNOWN"}
  /\ \A x \in Runners : brush'[x].name \in {brush[x].name, 0, image.name}
  /\ image'.there /\ ~ Deleting' =>
       /\ image.name \in derived => image.name \in derived'
       /\ \A x \in Runners : brush'[x].at \in Drawn /\ brush'[x].name = image.name =>
            image.name \in derived' \/ (brush[x].at \in Drawn /\ brush[x].name = image.name)
       /\ image'.status \in {"SUCCEEDED", "UNKNOWN"} =>
            image.name \in derived' \/ image.status \in {"SUCCEEDED", "UNKNOWN"}

KeepsBooks ==
  /\ image'.there = image.there /\ image'.bytes = image.bytes /\ charged' = charged
  /\ marks \subseteq marks'
  /\ \A x \in Runners : /\ Counting(x)' => brush'[x] = brush[x]
                        /\ Counting(x) => Counting(x)' \/ ~ Clean'
  /\ \A q \in Uploads : /\ RequestAt(q, "zero")' => RequestAt(q, "zero")
                        /\ RequestAt(q, "zero") => RequestAt(q, "zero")' \/ ~ Clean'

LEMMA CoverKept == CoverInv /\ KeepsCover => CoverInv'
<1> SUFFICES ASSUME CoverInv, KeepsCover PROVE CoverInv'
  OBVIOUS
<1>1. GivenNames'
  BY DEF CoverInv, GivenNames, KeepsCover, ImageTypeOK, Drawings
<1>2. FreshNames'
  <2> SUFFICES ASSUME NEW r \in Uploads, RequestAt(r, "point")'
               PROVE  Fresh(request[r].name, r)' /\ request'[r].name # 0
    BY DEF FreshNames
  <2>1. RequestAt(r, "point") /\ request'[r].name = request[r].name /\ image'.name = image.name
    BY DEF KeepsCover
  <2>2. Fresh(request[r].name, r) /\ request[r].name # 0
    BY <2>1 DEF CoverInv, FreshNames
  <2>3. \A q \in Uploads : request'[q].old # request[r].name
    BY <2>2 DEF KeepsCover, Fresh
  <2>4. \A q \in Uploads \ {r} : RequestAt(q, "point")' => request'[q].name # request[r].name
    BY <2>2 DEF KeepsCover, Fresh
  <2>5. \A x \in Runners : brush'[x].name # request[r].name
    BY <2>2 DEF KeepsCover, Fresh
  <2> QED
    BY <2>1, <2>2, <2>3, <2>4, <2>5 DEF Fresh
<1>3. OldIsReplaced'
  <2>1. image.name # 0
    BY DEF CoverInv, GivenNames, ImageTypeOK, Drawings
  <2> QED
    BY <2>1 DEF CoverInv, OldIsReplaced, KeepsCover
<1>4. LeftThere'
  <2> SUFFICES ASSUME image'.there, ~ Deleting' PROVE LeftThere'
    BY DEF LeftThere
  <2>1. image.there /\ ~ Deleting
    BY DEF KeepsCover, Deleting
  <2>2. \A x \in Runners : brush'[x].at \in Drawn /\ brush'[x].name = image'.name => image'.name \in derived'
    BY <2>1 DEF CoverInv, LeftThere, KeepsCover
  <2>3. image'.status \in {"SUCCEEDED", "UNKNOWN"} =>
          image'.name \in derived' \/ \E r \in Uploads : RequestAt(r, "queue")'
    BY <2>1 DEF CoverInv, LeftThere, KeepsCover, Deleting
  <2> QED
    BY <2>2, <2>3 DEF LeftThere
<1> QED
  BY <1>1, <1>2, <1>3, <1>4 DEF CoverInv, KeepsCover

LEMMA BooksKept == Cleared /\ Books /\ KeepsBooks => Cleared' /\ Books'
<1> SUFFICES ASSUME Cleared, Books, KeepsBooks PROVE Cleared' /\ Books'
  OBVIOUS
<1>1. Cleared'
  BY DEF Cleared, KeepsBooks
<1>2. ASSUME Clean' PROVE Books'
  <2>1. Clean /\ \A x \in Runners : /\ Counting(x) <=> Counting(x)'
                                    /\ Counting(x) => brush'[x] = brush[x]
    <3>1. Clean
      BY <1>2 DEF KeepsBooks, Clean
    <3>2. \A x \in Runners : brush'[x] = brush[x] => (Counting(x) <=> Counting(x)')
      BY DEF Counting
    <3> QED
      BY <1>2, <3>1, <3>2 DEF KeepsBooks
  <2>2. CountsAlone' /\ \A x \in Runners : Counts(x)'
    BY <2>1 DEF Books, KeepsBooks, CountsAlone, Counts, Counting, BrushAt
  <2>3. (\A x \in Runners : ~ Counting(x)') /\ image'.there => charged' = image'.bytes
    BY <2>1 DEF Books, KeepsBooks
  <2>4. ~ image'.there => /\ \A x \in Runners : ~ Counting(x)'
                          /\ charged' = 0 \/ \E r \in Uploads : RequestAt(r, "zero")'
    BY <1>2, <2>1 DEF Books, KeepsBooks
  <2> QED
    BY <2>2, <2>3, <2>4 DEF Books
<1> QED
  BY <1>1, <1>2 DEF Books

\* A step of one request that leaves the runners and the books alone.
LEMMA RequestOnly ==
  ASSUME CoverInv, NEW r \in Uploads, NEW at \in RequestPlaces \ {"point", "zero"}, NEW old, NEW name,
         NEW status \in {image.status, "QUEUING", "FAILED"},
         RequestIs(r, at, old, name), ImageIs(status), drawn' \in Drawings, drawn'.names = drawn.names,
         UNCHANGED <<charged, brush, marks>>,
         image.there /\ ~ Deleting' /\ image.name \in derived => image.name \in derived',
         request[r].at \notin {"delete", "clear", "zero"},
         old \in {request[r].old, 0}, name \in {request[r].name, 0},
         at \in Past => request[r].at \in Past \/ old = 0,
         request[r].at = "queue" /\ image.there => status = "QUEUING",
         request[r].at = "drawing" => brush[r].at = "idle"
  PROVE  KeepsCover /\ KeepsBooks
<1>1. ImageTypeOK'
  BY DEF CoverInv, ImageTypeOK, RequestIs, ImageIs
<1>2. OwnHand'
  BY DEF CoverInv, OwnHand, RequestIs
<1>3. \A q \in Uploads : q # r => request'[q] = request[q]
  BY DEF RequestIs
<1>4. request'[r].at = at /\ request'[r].old = old /\ request'[r].name = name
  BY DEF RequestIs
<1>5. KeepsCover
  <2>1. \A q \in Uploads :
          /\ RequestAt(q, "point")' => RequestAt(q, "point") /\ request'[q].name = request[q].name
          /\ request'[q].old \in {request[q].old, 0} /\ request'[q].name \in {request[q].name, 0}
          /\ request'[q].at \in Past => request[q].at \in Past \/ request'[q].old = 0
    BY <1>3, <1>4 DEF RequestAt
  <2>2. \A q \in Uploads : request[q].at \in {"delete", "clear"} /\ image'.there => Deleting'
    BY <1>3, <1>4 DEF Deleting
  <2>3. \A q \in Uploads : image'.there /\ RequestAt(q, "queue") =>
          \/ RequestAt(q, "queue")' \/ "cut" \in marks'
          \/ image'.status \notin {"SUCCEEDED", "UNKNOWN"}
    BY <1>3, <1>4 DEF RequestAt, ImageIs
  <2>4. image'.status \in {"SUCCEEDED", "UNKNOWN"} => image.status \in {"SUCCEEDED", "UNKNOWN"}
    BY DEF ImageIs
  <2> QED
    BY <1>1, <1>2, <2>1, <2>2, <2>3, <2>4 DEF KeepsCover, ImageIs
<1>6. KeepsBooks
  BY <1>3, <1>4 DEF KeepsBooks, ImageIs, RequestAt, Counting
<1> QED
  BY <1>5, <1>6

\* A step of one runner that leaves the requests alone.
Alone(x) == brush' \in Brushes /\ \A y \in Runners \ {x} : brush'[y] = brush[y]
SamePlace == image' \in Pictures /\ image'.there = image.there /\ image'.name = image.name

LEMMA BrushOnly ==
  ASSUME CoverInv, NEW x \in Runners, Alone(x), SamePlace,
         drawn' \in Drawings, drawn'.names = drawn.names, request' = request, charged' \in Int,
         marks \subseteq marks', derived \subseteq derived',
         brush'[x].name \in {brush[x].name, 0, image.name},
         brush'[x].at \in Drawn /\ brush'[x].name = image.name =>
           image.name \in derived' \/ (brush[x].at \in Drawn /\ brush[x].name = image.name),
         \/ image'.status = image.status \/ image'.status \in {"QUEUING", "GENERATING", "FAILED"}
         \/ (brush[x].at \in Drawn /\ brush[x].name = image.name),
         brush'[x].at = "idle" \/ brush[x].at # "idle" \/ x \notin Uploads
  PROVE  KeepsCover
<1>1. ImageTypeOK'
  BY DEF CoverInv, ImageTypeOK, Alone, SamePlace
<1>2. OwnHand'
  BY DEF CoverInv, OwnHand, Alone, Runners
<1>3. \A y \in Runners : y # x => brush'[y] = brush[y]
  BY DEF Alone
<1>5. ~ Deleting' => ~ Deleting
  BY DEF Deleting
<1>6. image'.there /\ ~ Deleting' =>
        /\ \A y \in Runners : brush'[y].at \in Drawn /\ brush'[y].name = image.name =>
             image.name \in derived' \/ (brush[y].at \in Drawn /\ brush[y].name = image.name)
        /\ image'.status \in {"SUCCEEDED", "UNKNOWN"} =>
             image.name \in derived' \/ image.status \in {"SUCCEEDED", "UNKNOWN"}
  BY <1>3, <1>5 DEF CoverInv, LeftThere, SamePlace
<1>7. \A q \in Uploads :
        /\ RequestAt(q, "point")' => RequestAt(q, "point")
        /\ request[q].at \in {"delete", "clear"} => Deleting'
        /\ RequestAt(q, "queue") => RequestAt(q, "queue")'
  BY DEF RequestAt, Deleting
<1>8. \A y \in Runners : brush'[y].name \in {brush[y].name, 0, image.name}
  BY <1>3
<1> QED
  BY <1>1, <1>2, <1>5, <1>6, <1>7, <1>8 DEF KeepsCover, SamePlace

LEMMA BrushUncounted ==
  ASSUME NEW x \in Runners, NEW at, NEW name, NEW prev, BrushIs(x, at, name, prev),
         image'.there = image.there, image'.bytes = image.bytes, charged' = charged,
         request' = request, marks \subseteq marks', at \notin {"probe", "bytes", "charge"},
         Counting(x) => ~ Clean'
  PROVE  KeepsBooks
BY DEF BrushIs, KeepsBooks, Counting, RequestAt

LEMMA Extras ==
  ASSUME drawn \in Drawings, Accident PROVE drawn' \in Drawings /\ drawn'.names = drawn.names
BY DEF Drawings, Accident

LEMMA ImagePlaces ==
  /\ {"idle", "point", "queue", "send", "inline", "drawing", "drop", "delete", "clear", "zero"}
       \subseteq RequestPlaces
  /\ {"idle", "read", "mark", "load", "publish", "account", "probe", "bytes", "charge", "finish"}
       \subseteq BrushPlaces
  /\ {"UNKNOWN", "QUEUING", "GENERATING", "SUCCEEDED", "FAILED"} \subseteq Statuses
BY DEF RequestPlaces, BrushPlaces, Statuses

LEMMA ImageStays == ASSUME image \in Pictures, image' = image PROVE ImageIs(image.status)
BY DEF ImageIs

\* What a request does between its first write and its last.
LEMMA RequestKeeps ==
  ASSUME ImageInv, NEW r \in Uploads,
         \/ Rebuild(r) \/ MarkQueuing(r) \/ SendTask(r) \/ SendRefused(r) \/ DrawnInline(r)
         \/ DropReplaced(r) \/ DeleteImage(r) \/ ClearImage(r)
  PROVE  KeepsCover /\ KeepsBooks
<1>0. /\ CoverInv /\ image \in Pictures /\ request \in UploadStates /\ drawn \in Drawings /\ r \in Uploads
      /\ OldIsReplaced /\ OwnHand
  BY DEF ImageInv, CoverInv, ImageTypeOK
<1>u. image.status \in Statuses
  BY <1>0 DEF Pictures
<1>1. CASE Rebuild(r)
  <2>1. RequestIs(r, "queue", 0, 0)
    BY ONLY <1>0, <1>1, RequestMoves, ImagePlaces DEF Rebuild
  <2>2. ImageIs(image.status) /\ drawn' \in Drawings /\ drawn'.names = drawn.names
    BY ONLY <1>0, <1>1, ImageStays DEF Rebuild, Drawings
  <2>3. request[r].at = "idle" /\ UNCHANGED <<charged, derived, brush, marks>>
    BY ONLY <1>1 DEF Rebuild, RequestAt
  <2> QED
    BY ONLY <1>0, <2>1, <2>2, <2>3, RequestOnly, ImagePlaces
<1>2. CASE MarkQueuing(r)
  <2>1. RequestIs(r, "send", request[r].old, request[r].name)
    BY ONLY <1>0, <1>2, RequestMoves, ImagePlaces DEF MarkQueuing
  <2>2. ImageIs(IF image.there THEN "QUEUING" ELSE image.status) /\ drawn' = drawn
    BY ONLY <1>0, <1>2, StatusMoves, ImagePlaces DEF MarkQueuing
  <2>3. request[r].at = "queue" /\ UNCHANGED <<charged, derived, brush, marks>>
    BY ONLY <1>2 DEF MarkQueuing, RequestAt
  <2>4. request[r].at \in Past
    BY ONLY <2>3 DEF Past
  <2> QED
    BY ONLY <1>0, <2>1, <2>2, <2>3, <2>4, RequestOnly, ImagePlaces
<1>3. CASE SendTask(r)
  <2>1. RequestIs(r, "drop", request[r].old, request[r].name) \/ RequestIs(r, "idle", 0, 0)
    <3>1. CASE IsUpload(r)
      <4>1. RequestGoto(r, "drop")
        BY ONLY <1>0, <1>3, <3>1 DEF SendTask, AfterSending, RequestGoto, UploadStates
      <4> QED
        BY ONLY <1>0, <4>1, RequestMoves, ImagePlaces
    <3>2. CASE ~ IsUpload(r)
      BY ONLY <1>0, <1>3, <3>2, RequestMoves, ImagePlaces DEF SendTask, AfterSending
    <3> QED
      BY ONLY <3>1, <3>2
  <2>2. ImageIs(image.status) /\ drawn' = drawn
    BY ONLY <1>0, <1>3, ImageStays DEF SendTask
  <2>3. request[r].at = "send" /\ UNCHANGED <<charged, derived, brush, marks>>
    BY ONLY <1>3 DEF SendTask, RequestAt
  <2>4. request[r].at \in Past /\ "idle" \notin Past
    BY ONLY <2>3 DEF Past
  <2> QED
    BY ONLY <1>0, <2>1, <2>2, <2>3, <2>4, RequestOnly, ImagePlaces
<1>4. CASE SendRefused(r)
  <2>1. RequestIs(r, "inline", request[r].old, request[r].name) \/ RequestIs(r, "idle", 0, 0)
    <3>1. CASE IsUpload(r)
      <4>1. RequestGoto(r, "inline")
        BY ONLY <1>0, <1>4, <3>1 DEF SendRefused, RequestGoto, UploadStates
      <4> QED
        BY ONLY <1>0, <4>1, RequestMoves, ImagePlaces
    <3>2. CASE ~ IsUpload(r)
      BY ONLY <1>0, <1>4, <3>2, RequestMoves, ImagePlaces DEF SendRefused
    <3> QED
      BY ONLY <3>1, <3>2
  <2>2. ImageIs(IF image.there THEN "FAILED" ELSE image.status)
    BY ONLY <1>0, <1>4, StatusMoves, ImagePlaces DEF SendRefused
  <2>3. request[r].at = "send" /\ UNCHANGED <<charged, derived, brush, marks>> /\ Accident
    BY ONLY <1>4 DEF SendRefused, RequestAt
  <2>4. request[r].at \in Past /\ "idle" \notin Past
    BY ONLY <2>3 DEF Past
  <2> QED
    BY ONLY <1>0, <2>1, <2>2, <2>3, <2>4, RequestOnly, ImagePlaces, Extras
<1>5. CASE DrawnInline(r)
  <2>1. RequestIs(r, "drop", request[r].old, request[r].name)
    BY ONLY <1>0, <1>5, RequestMoves, ImagePlaces DEF DrawnInline
  <2>2. ImageIs(image.status) /\ drawn' = drawn
    BY ONLY <1>0, <1>5, ImageStays DEF DrawnInline
  <2>3. request[r].at = "drawing" /\ brush[r].at = "idle" /\ UNCHANGED <<charged, derived, brush, marks>>
    BY ONLY <1>5 DEF DrawnInline, RequestAt, BrushAt
  <2>4. request[r].at \in Past
    BY ONLY <2>3 DEF Past
  <2> QED
    BY ONLY <1>0, <2>1, <2>2, <2>3, <2>4, RequestOnly, ImagePlaces
<1>6. CASE DropReplaced(r)
  <2>1. RequestIs(r, "idle", 0, 0)
    BY ONLY <1>0, <1>6, RequestMoves DEF DropReplaced
  <2>2. ImageIs(image.status) /\ drawn' \in Drawings /\ drawn'.names = drawn.names
    BY ONLY <1>0, <1>6, ImageStays, Extras DEF DropReplaced
  <2>3. request[r].at = "drop" /\ UNCHANGED <<charged, brush, marks>>
    BY ONLY <1>6 DEF DropReplaced, RequestAt
  <2>4. image.there => request[r].old # image.name
    BY ONLY <1>0, <2>3 DEF OldIsReplaced, Past
  <2>5. image.there /\ image.name \in derived => image.name \in derived'
    BY ONLY <1>6, <2>4 DEF DropReplaced
  <2>6. "idle" \notin Past
    BY DEF Past
  <2> QED
    BY ONLY <1>0, <2>1, <2>2, <2>3, <2>5, <2>6, RequestOnly, ImagePlaces
<1>7. ASSUME NEW next \in {"delete", "clear"}, DeleteObjects(r, next) PROVE KeepsCover /\ KeepsBooks
  <2>1. RequestIs(r, next, 0, 0)
    BY ONLY <1>0, <1>7, RequestMoves, ImagePlaces DEF DeleteObjects
  <2>2. ImageIs(image.status) /\ drawn' = drawn
    BY ONLY <1>0, <1>7, ImageStays DEF DeleteObjects
  <2>3. request[r].at = "idle" /\ UNCHANGED <<charged, brush, marks>>
    BY ONLY <1>7 DEF DeleteObjects, RequestAt
  <2>4. Deleting' /\ next \in RequestPlaces \ {"point", "zero"} /\ next \notin Past
    BY ONLY <1>0, <1>7, <2>1, ImagePlaces DEF Deleting, RequestIs, Past
  <2> QED
    BY ONLY <1>0, <2>1, <2>2, <2>3, <2>4, RequestOnly
<1> QED
  BY <1>1, <1>2, <1>3, <1>4, <1>5, <1>6, <1>7 DEF DeleteImage, ClearImage

\* Storing a new object, and pointing the document to it.
LEMMA StoreKeeps ==
  ASSUME ImageInv, NEW r \in Uploads, StoreOriginal(r)
  PROVE  CoverInv' /\ KeepsBooks
<1> DEFINE n == drawn.names + 1
<1>0. /\ CoverInv /\ ImageTypeOK /\ OwnHand /\ GivenNames /\ FreshNames /\ OldIsReplaced /\ LeftThere
      /\ drawn.names \in Nat /\ n \in Nat /\ drawn' \in Drawings /\ drawn'.names = n
      /\ image.name \in Nat /\ request \in UploadStates
  BY DEF ImageInv, CoverInv, ImageTypeOK, Drawings, Pictures, StoreOriginal
<1>1. RequestIs(r, "point", image.name, n)
  BY ONLY <1>0, StoreOriginal(r), ImagePlaces DEF StoreOriginal, UploadStates, RequestIs
<1>2. request[r].at = "idle" /\ UNCHANGED <<image, charged, derived, brush, marks>>
  BY DEF StoreOriginal, RequestAt
<1>3. /\ \A q \in Uploads : q # r => request'[q] = request[q]
      /\ request'[r].at = "point" /\ request'[r].old = image.name /\ request'[r].name = n
  BY ONLY <1>1 DEF RequestIs
<1>4. ImageTypeOK' /\ OwnHand'
  BY ONLY <1>0, <1>1, <1>2, <1>3 DEF ImageTypeOK, OwnHand, RequestIs
<1>5. GivenNames'
  BY ONLY <1>0, <1>2, <1>3 DEF GivenNames
<1>6. FreshNames'
  <2>1. /\ n # image.name /\ n # 0 /\ \A q \in Uploads : request[q].old # n /\ request[q].name # n
        /\ \A x \in Runners : brush[x].name # n
    BY ONLY <1>0 DEF GivenNames
  <2>2. \A q \in Uploads : RequestAt(q, "point") => Fresh(request[q].name, q) /\ request[q].name # 0
    BY ONLY <1>0 DEF FreshNames
  <2>3. Fresh(request[r].name, r)'
    BY ONLY <1>2, <1>3, <2>1 DEF Fresh
  <2>4. ASSUME NEW q \in Uploads, q # r, RequestAt(q, "point")
        PROVE  Fresh(request[q].name, q)' /\ request'[q].name # 0
    BY ONLY <1>2, <1>3, <2>1, <2>2, <2>4 DEF Fresh, RequestAt
  <2>5. \A q \in Uploads : q # r => (RequestAt(q, "point")' <=> RequestAt(q, "point"))
    BY ONLY <1>3 DEF RequestAt
  <2> QED
    BY ONLY <1>3, <2>1, <2>3, <2>4, <2>5 DEF FreshNames
<1>7. OldIsReplaced'
  BY ONLY <1>0, <1>2, <1>3 DEF OldIsReplaced, Past
<1>8. LeftThere'
  <2>1. Deleting' => Deleting
    BY ONLY <1>2, <1>3 DEF Deleting
  <2>2. Deleting => Deleting'
    BY ONLY <1>2, <1>3 DEF Deleting
  <2>3. \A q \in Uploads : RequestAt(q, "queue") => RequestAt(q, "queue")'
    BY ONLY <1>2, <1>3 DEF RequestAt
  <2> QED
    BY ONLY <1>0, <1>2, <2>1, <2>2, <2>3 DEF LeftThere
<1>9. KeepsBooks
  BY ONLY <1>2, <1>3 DEF KeepsBooks, RequestAt, Counting
<1> QED
  BY ONLY <1>4, <1>5, <1>6, <1>7, <1>8, <1>9 DEF CoverInv

LEMMA PointKeeps ==
  ASSUME ImageInv, NEW r \in Uploads, PointToOriginal(r)
  PROVE  CoverInv' /\ KeepsBooks
<1> DEFINE n == request[r].name
<1>0. /\ CoverInv /\ ImageTypeOK /\ OwnHand /\ GivenNames /\ FreshNames /\ OldIsReplaced /\ LeftThere
      /\ n \in Nat /\ request \in UploadStates /\ image \in Pictures
  BY DEF ImageInv, CoverInv, ImageTypeOK, UploadStates
<1>1. RequestIs(r, "queue", request[r].old, n)
  BY ONLY <1>0, PointToOriginal(r), r \in Uploads, RequestMoves, ImagePlaces DEF PointToOriginal
<1>2. RequestAt(r, "point") /\ UNCHANGED <<charged, derived, brush, marks, drawn>>
  BY DEF PointToOriginal
<1>3. /\ \A q \in Uploads : q # r => request'[q] = request[q]
      /\ request'[r].at = "queue" /\ request'[r].old = request[r].old /\ request'[r].name = n
  BY ONLY <1>1 DEF RequestIs
<1>4. /\ image' \in Pictures /\ image'.bytes = image.bytes /\ image'.status = image.status
      /\ image'.there = image.there
      /\ image'.name = IF image.there THEN n ELSE image.name
  <2>1. CASE image.there
    BY ONLY <1>0, <2>1, PointToOriginal(r) DEF PointToOriginal, Written, Pictures
  <2>2. CASE ~ image.there
    BY ONLY <1>0, <2>2, PointToOriginal(r) DEF PointToOriginal, Written
  <2> QED
    BY ONLY <2>1, <2>2
<1>5. Fresh(n, r) /\ n # 0
  BY ONLY <1>0, <1>2, r \in Uploads DEF FreshNames
<1>6. ImageTypeOK'
  BY ONLY <1>0, <1>1, <1>2, <1>4 DEF ImageTypeOK, RequestIs
<1>7. OwnHand'
  BY ONLY <1>0, <1>2, <1>3 DEF OwnHand, RequestAt
<1>8. GivenNames'
  <2>1. n \in 0..drawn.names /\ drawn.names \in Nat
    BY ONLY <1>0, r \in Uploads DEF GivenNames, ImageTypeOK, Drawings
  <2>2. image'.name \in 1..drawn.names
    BY ONLY <1>0, <1>4, <1>5, <2>1 DEF GivenNames
  <2> QED
    BY ONLY <1>0, <1>2, <1>3, <2>2 DEF GivenNames
<1>9. FreshNames'
  <2> SUFFICES ASSUME NEW q \in Uploads, RequestAt(q, "point")'
               PROVE  Fresh(request[q].name, q)' /\ request'[q].name # 0
    BY DEF FreshNames
  <2>1. q # r /\ request'[q] = request[q] /\ RequestAt(q, "point")
    BY ONLY <1>3, RequestAt(q, "point")', q \in Uploads DEF RequestAt
  <2>2. Fresh(request[q].name, q) /\ request[q].name # 0
    BY ONLY <1>0, <2>1, q \in Uploads DEF FreshNames
  <2>3. request[q].name # n
    BY ONLY <1>2, <1>5, <2>1, q \in Uploads DEF Fresh
  <2>4. \A p \in Uploads : request'[p].old # request[q].name
    BY ONLY <1>3, <2>2 DEF Fresh
  <2>5. \A p \in Uploads \ {q} : RequestAt(p, "point")' => request'[p].name # request[q].name
    BY ONLY <1>3, <2>2 DEF Fresh, RequestAt
  <2> QED
    BY ONLY <1>2, <1>4, <2>1, <2>2, <2>3, <2>4, <2>5 DEF Fresh
<1>10. OldIsReplaced'
  <2>1. \A q \in Uploads : request'[q].old = request[q].old
    BY ONLY <1>3
  <2>2. \A q \in Uploads : request[q].old # n
    BY ONLY <1>5 DEF Fresh
  <2> QED
    BY ONLY <1>4, <2>1, <2>2 DEF OldIsReplaced
<1>11. LeftThere'
  <2>1. RequestAt(r, "queue")'
    BY ONLY <1>3 DEF RequestAt
  <2>2. image'.there => image'.name = n
    BY ONLY <1>4
  <2>3. \A x \in Runners : brush'[x].name # n
    BY ONLY <1>2, <1>5 DEF Fresh
  <2> QED
    BY ONLY <2>1, <2>2, <2>3, r \in Uploads DEF LeftThere
<1>12. KeepsBooks
  BY ONLY <1>2, <1>3, <1>4 DEF KeepsBooks, RequestAt, Counting
<1> QED
  BY ONLY <1>6, <1>7, <1>8, <1>9, <1>10, <1>11, <1>12 DEF CoverInv

\* The request draws itself, is killed, or comes to its end.
LEMMA DrawInlineKeeps ==
  ASSUME ImageInv, NEW r \in Uploads, DrawInline(r)
  PROVE  KeepsCover /\ KeepsBooks
<1>0. /\ CoverInv /\ ImageTypeOK /\ OwnHand /\ image \in Pictures /\ request \in UploadStates /\ brush \in Brushes
      /\ r \in Uploads /\ r \in Runners
  BY DEF ImageInv, CoverInv, ImageTypeOK, Runners
<1>1. RequestIs(r, "drawing", request[r].old, request[r].name) /\ BrushIs(r, "read", brush[r].name, brush[r].prev)
  BY ONLY <1>0, DrawInline(r), RequestMoves, BrushMoves, ImagePlaces DEF DrawInline
<1>2. ImageIs(IF image.there THEN "QUEUING" ELSE image.status)
  BY ONLY <1>0, DrawInline(r), StatusMoves, ImagePlaces DEF DrawInline
<1>3. request[r].at = "inline" /\ UNCHANGED <<charged, derived, marks, drawn>>
  BY DEF DrawInline, RequestAt
<1>4. brush[r].at = "idle"
  BY ONLY <1>0, <1>3 DEF OwnHand
<1>5. /\ \A q \in Uploads : q # r => request'[q] = request[q]
      /\ request'[r].at = "drawing" /\ request'[r].old = request[r].old /\ request'[r].name = request[r].name
      /\ \A x \in Runners : x # r => brush'[x] = brush[x]
      /\ brush'[r].at = "read" /\ brush'[r].name = brush[r].name
  BY ONLY <1>1 DEF RequestIs, BrushIs
<1>6. ImageTypeOK'
  BY ONLY <1>0, <1>1, <1>2, <1>3 DEF ImageTypeOK, RequestIs, BrushIs, ImageIs
<1>7. OwnHand'
  BY ONLY <1>0, <1>5 DEF OwnHand, Runners
<1>8. KeepsCover
  <2>1. Deleting => Deleting'
    BY ONLY <1>3, <1>5 DEF Deleting
  <2>2. \A q \in Uploads : request[q].at \in {"delete", "clear"} => Deleting'
    BY ONLY <1>3, <1>5 DEF Deleting
  <2>3. \A q \in Uploads : (RequestAt(q, "point") <=> RequestAt(q, "point")')
                          /\ (RequestAt(q, "queue") <=> RequestAt(q, "queue")')
    BY ONLY <1>3, <1>5 DEF RequestAt
  <2>4. \A q \in Uploads : request'[q].at \in Past => request[q].at \in Past
    BY ONLY <1>3, <1>5 DEF Past
  <2>5. \A x \in Runners : brush'[x].at \in Drawn => brush'[x] = brush[x]
    BY ONLY <1>5 DEF Drawn
  <2>6. \A q \in Uploads : request'[q].old = request[q].old /\ request'[q].name = request[q].name
    BY ONLY <1>5
  <2>7. \A x \in Runners : brush'[x].name = brush[x].name
    BY ONLY <1>5
  <2> QED
    BY ONLY <1>2, <1>3, <1>6, <1>7, <2>1, <2>2, <2>3, <2>4, <2>5, <2>6, <2>7 DEF KeepsCover, ImageIs
<1>9. KeepsBooks
  BY ONLY <1>2, <1>3, <1>4, <1>5 DEF KeepsBooks, RequestAt, Counting, ImageIs
<1> QED
  BY <1>8, <1>9

LEMMA RequestDiesKeeps ==
  ASSUME ImageInv, NEW r \in Uploads, RequestDies(r)
  PROVE  KeepsCover /\ KeepsBooks
<1>0. /\ CoverInv /\ ImageTypeOK /\ OwnHand /\ image \in Pictures /\ request \in UploadStates /\ brush \in Brushes
      /\ drawn \in Drawings /\ r \in Uploads /\ r \in Runners
  BY DEF ImageInv, CoverInv, ImageTypeOK, Runners
<1>1. RequestIs(r, "idle", 0, 0) /\ BrushIs(r, "idle", 0, 0)
  BY ONLY <1>0, RequestDies(r), RequestMoves, BrushMoves DEF RequestDies
<1>2. drawn' \in Drawings /\ drawn'.names = drawn.names /\ UNCHANGED <<charged, derived, image>>
  BY ONLY <1>0, RequestDies(r), Extras DEF RequestDies
<1>3. /\ marks \subseteq marks'
      /\ request[r].at \in Cut => "cut" \in marks'
      /\ Counting(r) => "uncounted" \in marks'
  BY DEF RequestDies
<1>5. /\ \A q \in Uploads : q # r => request'[q] = request[q]
      /\ request'[r].at = "idle" /\ request'[r].old = 0 /\ request'[r].name = 0
      /\ \A x \in Runners : x # r => brush'[x] = brush[x]
      /\ brush'[r].at = "idle" /\ brush'[r].name = 0
  BY ONLY <1>1 DEF RequestIs, BrushIs
<1>6. ImageTypeOK'
  BY ONLY <1>0, <1>1, <1>2 DEF ImageTypeOK, RequestIs, BrushIs
<1>7. OwnHand'
  BY ONLY <1>0, <1>5 DEF OwnHand, Runners
<1>8. KeepsCover
  <2>2. \A q \in Uploads : request[q].at \in {"delete", "clear"} => Deleting'
    BY ONLY <1>3, <1>5 DEF Deleting, Cut
  <2>3. \A q \in Uploads : /\ RequestAt(q, "point")' => RequestAt(q, "point") /\ request'[q].name = request[q].name
                           /\ RequestAt(q, "queue") => RequestAt(q, "queue")' \/ "cut" \in marks'
    BY ONLY <1>3, <1>5 DEF RequestAt, Cut
  <2>4. \A q \in Uploads : request'[q].at \in Past => request[q].at \in Past
    BY ONLY <1>3, <1>5 DEF Past
  <2>5. \A x \in Runners : brush'[x].at \in Drawn => brush'[x] = brush[x]
    BY ONLY <1>5 DEF Drawn
  <2>6. \A q \in Uploads : request'[q].old \in {request[q].old, 0} /\ request'[q].name \in {request[q].name, 0}
    BY ONLY <1>5
  <2>7. \A x \in Runners : brush'[x].name \in {brush[x].name, 0}
    BY ONLY <1>5
  <2> QED
    <3>1. \A x \in Runners : brush'[x].at \in Drawn /\ brush'[x].name = image.name =>
            brush[x].at \in Drawn /\ brush[x].name = image.name
      BY ONLY <2>5
    <3>2. \A x \in Runners : brush'[x].name \in {brush[x].name, 0, image.name}
      BY ONLY <2>7
    <3>3. /\ image'.name = image.name /\ image'.status = image.status /\ derived' = derived
          /\ image'.there => image.there
      BY ONLY <1>2
    <3> QED
      BY ONLY <1>2, <1>3, <1>6, <1>7, <2>2, <2>3, <2>4, <2>6, <3>1, <3>2, <3>3 DEF KeepsCover
<1>9. KeepsBooks
  BY ONLY <1>2, <1>3, <1>5 DEF KeepsBooks, RequestAt, Counting, Clean, Cut
<1> QED
  BY <1>8, <1>9

LEMMA EndKeeps ==
  ASSUME ImageInv, NEW r \in Uploads, DropDocument(r) \/ ZeroBooks(r)
  PROVE  CoverInv' /\ Cleared' /\ Books'
<1>0. /\ CoverInv /\ ImageTypeOK /\ OwnHand /\ image \in Pictures /\ request \in UploadStates /\ r \in Uploads
      /\ Cleared /\ Books
  BY DEF ImageInv, CoverInv, ImageTypeOK
<1>1. /\ RequestIs(r, "zero", request[r].old, request[r].name) \/ RequestIs(r, "idle", 0, 0)
      /\ RequestAt(r, "clear") /\ DropDocument(r) => RequestIs(r, "zero", request[r].old, request[r].name)
      /\ ZeroBooks(r) => RequestIs(r, "idle", 0, 0)
  BY ONLY <1>0, DropDocument(r) \/ ZeroBooks(r), RequestMoves, ImagePlaces DEF DropDocument, ZeroBooks
<1>2. /\ UNCHANGED <<derived, brush, drawn>> /\ marks \subseteq marks'
      /\ request[r].at \in {"delete", "clear", "zero"}
  BY DEF DropDocument, ZeroBooks, RequestAt
<1>3. /\ \A q \in Uploads : q # r => request'[q] = request[q]
      /\ request'[r].at \in {"zero", "idle"} /\ request'[r].old \in {request[r].old, 0}
      /\ request'[r].name \in {request[r].name, 0} /\ request' \in UploadStates
  BY ONLY <1>1 DEF RequestIs
<1>4. /\ image' \in Pictures /\ image'.name = image.name /\ image'.bytes = image.bytes
      /\ image'.status = image.status
      /\ DropDocument(r) => ~ image'.there
      /\ ZeroBooks(r) => image' = image
  BY <1>0 DEF DropDocument, ZeroBooks, Pictures
<1>5. ~ image'.there
  <2>1. CASE ZeroBooks(r)
    BY ONLY <1>0, <1>4, <2>1 DEF ZeroBooks, Cleared
  <2>2. CASE DropDocument(r)
    BY ONLY <1>4, <2>2
  <2> QED
    BY ONLY <2>1, <2>2, DropDocument(r) \/ ZeroBooks(r)
<1>6. charged' \in Int
  BY ONLY <1>0, DropDocument(r) \/ ZeroBooks(r) DEF DropDocument, ZeroBooks, ImageTypeOK
<1>7. KeepsCover
  <2>1. ImageTypeOK'
    BY ONLY <1>0, <1>2, <1>3, <1>4, <1>6 DEF ImageTypeOK
  <2>2. OwnHand'
    BY ONLY <1>0, <1>2, <1>3 DEF OwnHand
  <2>3. \A q \in Uploads : /\ RequestAt(q, "point")' => RequestAt(q, "point") /\ request'[q].name = request[q].name
                           /\ request'[q].at \in Past => request[q].at \in Past
    BY ONLY <1>3 DEF RequestAt, Past
  <2> QED
    <3>1. \A q \in Uploads : request'[q].old \in {request[q].old, 0} /\ request'[q].name \in {request[q].name, 0}
      BY ONLY <1>3
    <3>2. drawn'.names = drawn.names /\ \A x \in Runners : brush'[x].name = brush[x].name
      BY ONLY <1>2
    <3>3. marks \subseteq marks'
      BY ONLY <1>2
    <3>4. image'.name = image.name
      BY ONLY <1>4
    <3> QED
      BY ONLY <1>5, <2>1, <2>2, <2>3, <3>1, <3>2, <3>3, <3>4 DEF KeepsCover
<1>8. Cleared'
  BY ONLY <1>5 DEF Cleared
<1>9. Books'
  <2> SUFFICES ASSUME Clean' PROVE Books'
    BY DEF Books
  <2>1. Clean
    BY ONLY <1>2, Clean' DEF Clean
  <2>2. \A x \in Runners : ~ Counting(x)
    <3>1. CASE DropDocument(r)
      BY ONLY <3>1, Clean' DEF DropDocument, Clean
    <3>2. CASE ZeroBooks(r)
      BY ONLY <1>0, <1>4, <1>5, <2>1, <3>2 DEF Books
    <3> QED
      BY ONLY <3>1, <3>2, DropDocument(r) \/ ZeroBooks(r)
  <2>3. \A x \in Runners : ~ Counting(x)'
    BY ONLY <1>2, <2>2 DEF Counting
  <2>4. charged' = 0 \/ \E q \in Uploads : RequestAt(q, "zero")'
    <3>1. CASE ZeroBooks(r)
      BY ONLY <3>1 DEF ZeroBooks
    <3>2. CASE DropDocument(r) /\ RequestAt(r, "clear")
      BY ONLY <1>0, <1>1, <3>2 DEF RequestIs, RequestAt
    <3>3. CASE DropDocument(r) /\ ~ RequestAt(r, "clear")
      <4>1. charged' = charged /\ (image.there => image.bytes = 0)
        BY ONLY <3>3, Clean' DEF DropDocument, Clean, RequestAt
      <4>2. charged = 0 \/ \E q \in Uploads : RequestAt(q, "zero")
        BY ONLY <1>0, <2>1, <2>2, <4>1 DEF Books
      <4>3. \A q \in Uploads : RequestAt(q, "zero") => RequestAt(q, "zero")'
        BY ONLY <1>3, <3>3 DEF DropDocument, RequestAt
      <4> QED
        BY ONLY <4>1, <4>2, <4>3
    <3> QED
      BY ONLY <3>1, <3>2, <3>3, DropDocument(r) \/ ZeroBooks(r)
  <2>5. CountsAlone' /\ \A x \in Runners : Counts(x)'
    BY ONLY <2>3 DEF CountsAlone, Counts, Counting, BrushAt
  <2> QED
    BY ONLY <1>5, <2>3, <2>4, <2>5 DEF Books
<1> QED
  BY <1>0, <1>7, <1>8, <1>9, CoverKept

\* What a runner does before and after counting.
LEMMA BrushKeeps ==
  ASSUME ImageInv, NEW x \in Runners,
         \/ x \in Painters /\ (TakeTask(x) \/ PainterDies(x))
         \/ ReadImage(x) \/ MarkGenerating(x) \/ LoadOriginal(x) \/ PublishDerived(x)
         \/ TaskFails(x) \/ FinishTask(x) \/ AccountingFails(x)
  PROVE  KeepsCover /\ KeepsBooks
<1>0. /\ CoverInv /\ image \in Pictures /\ brush \in Brushes /\ drawn \in Drawings /\ x \in Runners
      /\ charged \in Int /\ image.status \in Statuses /\ image.name \in Nat
  BY DEF ImageInv, CoverInv, ImageTypeOK, Pictures
<1>a. /\ "idle" \notin Drawn /\ "read" \notin Drawn /\ "mark" \notin Drawn /\ "load" \notin Drawn
      /\ "publish" \notin Drawn
      /\ {"account", "finish", "bytes", "charge"} \subseteq Drawn
  BY DEF Drawn
<1>1. CASE x \in Painters /\ TakeTask(x)
  <2>1. BrushIs(x, "read", 0, 0)
    <3>1. PICK t \in 0..MaxRetries : brush' = [brush EXCEPT ![x] = [Resting EXCEPT !.at = "read", !.tries = t]]
      BY <1>1 DEF TakeTask
    <3>2. t \in Int
      BY RetriesAssumption
    <3> QED
      BY ONLY <1>0, <3>1, <3>2, BrushMoves
  <2>2. /\ UNCHANGED <<image, charged, derived, request, drawn, marks>> /\ x \notin Uploads
        /\ brush[x].at = "idle"
    BY <1>1, RunnersDiffer DEF TakeTask, BrushAt
  <2>3. KeepsCover
    BY ONLY <1>0, <1>a, <2>1, <2>2, BrushOnly DEF BrushIs, Alone, SamePlace
  <2> QED
    BY ONLY <1>0, <1>a, <2>1, <2>2, <2>3, BrushUncounted DEF Counting
<1>2. CASE x \in Painters /\ PainterDies(x)
  <2>1. BrushIs(x, "idle", 0, 0)
    BY ONLY <1>0, <1>2, BrushMoves DEF PainterDies
  <2>2. UNCHANGED <<image, charged, derived, request>> /\ drawn' \in Drawings /\ drawn'.names = drawn.names
    BY ONLY <1>0, <1>2, Extras DEF PainterDies
  <2>3. marks \subseteq marks' /\ (Counting(x) => ~ Clean')
    BY ONLY <1>2 DEF PainterDies, Clean
  <2>4. KeepsCover
    BY ONLY <1>0, <1>a, <2>1, <2>2, <2>3, BrushOnly DEF BrushIs, Alone, SamePlace
  <2> QED
    BY ONLY <1>0, <1>a, <2>1, <2>2, <2>3, <2>4, BrushUncounted
<1>3. CASE ReadImage(x)
  <2>1. BrushIs(x, "mark", image.name, brush[x].prev) \/ BrushIs(x, "idle", 0, 0)
    BY ONLY <1>0, <1>3, BrushMoves DEF ReadImage
  <2>2. UNCHANGED <<image, charged, derived, request, drawn, marks>> /\ brush[x].at = "read"
    BY ONLY <1>3 DEF ReadImage, BrushAt
  <2>3. KeepsCover
    BY ONLY <1>0, <1>a, <2>1, <2>2, BrushOnly DEF BrushIs, Alone, SamePlace
  <2> QED
    BY ONLY <1>0, <1>a, <2>1, <2>2, <2>3, BrushUncounted DEF Counting
<1>4. CASE MarkGenerating(x)
  <2>1. BrushIs(x, "load", brush[x].name, brush[x].prev)
    BY ONLY <1>0, <1>4, BrushMoves, ImagePlaces DEF MarkGenerating
  <2>2. ImageIs(IF image.there /\ Fenced(x) THEN "GENERATING" ELSE image.status)
    BY ONLY <1>0, <1>4, StatusMoves, ImagePlaces DEF MarkGenerating
  <2>3. UNCHANGED <<charged, derived, request, drawn, marks>> /\ brush[x].at = "mark"
    BY ONLY <1>4 DEF MarkGenerating, BrushAt
  <2>4. KeepsCover
    BY ONLY <1>0, <1>a, <2>1, <2>2, <2>3, BrushOnly, ImagePlaces DEF ImageIs, BrushIs, Alone, SamePlace
  <2> QED
    BY ONLY <1>0, <1>a, <2>1, <2>2, <2>3, <2>4, BrushUncounted DEF ImageIs, Counting
<1>5. CASE LoadOriginal(x)
  <2>1. BrushIs(x, "publish", brush[x].name, brush[x].prev) \/ BrushIs(x, "idle", 0, 0)
    BY ONLY <1>0, <1>5, BrushMoves, ImagePlaces DEF LoadOriginal
  <2>2. ImageIs(image.status) \/ ImageIs(IF image.there /\ Fenced(x) THEN "FAILED" ELSE image.status)
    BY ONLY <1>0, <1>5, StatusMoves, ImageStays, ImagePlaces DEF LoadOriginal
  <2>3. UNCHANGED <<charged, derived, request, drawn, marks>> /\ brush[x].at = "load"
    BY ONLY <1>5 DEF LoadOriginal, BrushAt
  <2>4. KeepsCover
    BY ONLY <1>0, <1>a, <2>1, <2>2, <2>3, BrushOnly, ImagePlaces DEF ImageIs, BrushIs, Alone, SamePlace
  <2> QED
    BY ONLY <1>0, <1>a, <2>1, <2>2, <2>3, <2>4, BrushUncounted DEF ImageIs, Counting
<1>6. CASE PublishDerived(x)
  <2>1. BrushIs(x, "account", brush[x].name, brush[x].prev)
    BY ONLY <1>0, <1>6, BrushMoves, ImagePlaces DEF PublishDerived
  <2>2. UNCHANGED <<image, charged, request, drawn, marks>> /\ brush[x].at = "publish"
    BY ONLY <1>6 DEF PublishDerived, BrushAt
  <2>3. derived \subseteq derived' /\ brush[x].name \in derived'
    BY ONLY <1>6 DEF PublishDerived
  <2>4. KeepsCover
    BY ONLY <1>0, <1>a, <2>1, <2>2, <2>3, BrushOnly DEF BrushIs, Alone, SamePlace
  <2> QED
    BY ONLY <1>0, <1>a, <2>1, <2>2, <2>3, <2>4, BrushUncounted DEF Counting
<1>7. CASE TaskFails(x)
  <2>1. BrushIs(x, "idle", 0, 0)
    BY ONLY <1>0, <1>7, BrushMoves DEF TaskFails
  <2>2. UNCHANGED <<image, charged, derived, request, marks>> /\ brush[x].at \in {"load", "publish"} /\ Accident
    BY ONLY <1>7 DEF TaskFails
  <2>3. drawn' \in Drawings /\ drawn'.names = drawn.names
    BY ONLY <1>0, <2>2, Extras
  <2>4. KeepsCover
    BY ONLY <1>0, <1>a, <2>1, <2>2, <2>3, BrushOnly DEF BrushIs, Alone, SamePlace
  <2> QED
    BY ONLY <1>0, <1>a, <2>1, <2>2, <2>3, <2>4, BrushUncounted DEF Counting
<1>8. CASE FinishTask(x)
  <2>1. BrushIs(x, "idle", 0, 0)
    BY ONLY <1>0, <1>8, BrushMoves DEF FinishTask
  <2>2. ImageIs(IF image.there /\ Fenced(x) THEN "SUCCEEDED" ELSE image.status)
    BY ONLY <1>0, <1>8, StatusMoves, ImagePlaces DEF FinishTask
  <2>3. UNCHANGED <<charged, derived, request, drawn, marks>> /\ brush[x].at = "finish"
    BY ONLY <1>8 DEF FinishTask, BrushAt
  <2>4. KeepsCover
    BY ONLY <1>0, <1>a, <2>1, <2>2, <2>3, BrushOnly, ImagePlaces DEF ImageIs, Fenced, BrushIs, Alone, SamePlace
  <2> QED
    BY ONLY <1>0, <1>a, <2>1, <2>2, <2>3, <2>4, BrushUncounted DEF ImageIs, Counting
<1>9. CASE AccountingFails(x)
  <2>1. BrushIs(x, "finish", brush[x].name, brush[x].prev)
    BY ONLY <1>0, <1>9, BrushMoves, ImagePlaces DEF AccountingFails
  <2>2. /\ UNCHANGED <<image, charged, derived, request>> /\ brush[x].at \in {"bytes", "charge"} /\ Accident
        /\ marks \subseteq marks'
    BY ONLY <1>9 DEF AccountingFails
  <2>3. drawn' \in Drawings /\ drawn'.names = drawn.names
    BY ONLY <1>0, <2>2, Extras
  <2>4. ~ Clean'
    BY ONLY <1>9 DEF AccountingFails, Clean
  <2>5. brush[x].at \in Drawn
    BY ONLY <1>a, <2>2
  <2>6. KeepsCover
    BY ONLY <1>0, <2>1, <2>2, <2>3, <2>5, BrushOnly DEF BrushIs, Alone, SamePlace
  <2> QED
    BY ONLY <1>0, <1>a, <2>1, <2>2, <2>4, <2>6, BrushUncounted
<1> QED
  BY <1>1, <1>2, <1>3, <1>4, <1>5, <1>6, <1>7, <1>8, <1>9

\* Who starts to count is alone in it, or the books are not clean any more.
LEMMA StartsCounting ==
  ASSUME Books, NEW x \in Runners, NEW at \in {"probe", "bytes"}, NEW name,
         BrushIs(x, at, name, image.bytes), ~ Counting(x), marks' = Overlapped(x), image.there,
         UNCHANGED <<image, charged, request>>
  PROVE  Books'
<1> SUFFICES ASSUME Clean' PROVE Books'
  BY DEF Books
<1>1. \A y \in Runners : ~ Counting(y)
  BY DEF Clean, Overlapped
<1>2. Clean
  BY <1>1 DEF Overlapped, Clean
<1>3. charged = image.bytes
  BY <1>1, <1>2 DEF Books
<1>4. /\ \A y \in Runners : y # x => brush'[y] = brush[y]
      /\ brush'[x].at = at /\ brush'[x].prev = image.bytes
  BY DEF BrushIs
<1>5. \A y \in Runners : Counting(y)' => y = x
  BY ONLY <1>1, <1>4 DEF Counting
<1>6. CountsAlone'
  BY ONLY <1>5 DEF CountsAlone
<1>7. Counting(x)'
  BY ONLY <1>4, at \in {"probe", "bytes"} DEF Counting
<1>8. \A y \in Runners : Counts(y)'
  <2>1. Counts(x)'
    BY <1>3, <1>4 DEF Counts, BrushAt
  <2>2. ASSUME NEW y \in Runners, y # x PROVE Counts(y)'
    BY <1>5, <2>2 DEF Counts, Counting, BrushAt
  <2> QED
    BY <2>1, <2>2
<1> QED
  BY <1>6, <1>7, <1>8 DEF Books

\* Who counts goes on, or has done: nobody else counts.
LEMMA GoesOnCounting ==
  ASSUME Books, Clean, NEW x \in Runners, Counting(x), NEW at, NEW name, NEW prev,
         BrushIs(x, at, name, prev), image'.there = image.there, request' = request,
         Counting(x)' => Counts(x)', ~ Counting(x)' => charged' = image'.bytes
  PROVE  Books'
<1>1. image.there /\ \A y \in Runners : Counting(y) => y = x
  BY DEF Books, CountsAlone
<1>2. \A y \in Runners : y # x => brush'[y] = brush[y]
  BY DEF BrushIs
<1>3. \A y \in Runners : Counting(y)' => y = x
  BY ONLY <1>1, <1>2 DEF Counting
<1>4. \A y \in Runners : ~ Counting(y)' => Counts(y)'
  BY DEF Counts, Counting, BrushAt
<1>5. \A y \in Runners : Counts(y)'
  BY <1>3, <1>4
<1>6. CountsAlone'
  BY ONLY <1>3 DEF CountsAlone
<1> QED
  BY <1>1, <1>5, <1>6 DEF Books

LEMMA CountKeeps ==
  ASSUME ImageInv, NEW x \in Runners,
         \/ ReadBytes(x) \/ WriteBytes(x) \/ apply_derived_bytes(x)
         \/ x = Script /\ (ListPending \/ ProbeDerived)
  PROVE  KeepsCover /\ Cleared' /\ Books'
<1>0. /\ CoverInv /\ image \in Pictures /\ brush \in Brushes /\ drawn \in Drawings /\ x \in Runners
      /\ charged \in Int /\ image.name \in Nat /\ image.bytes \in Int /\ Books /\ Cleared
      /\ brush[x].name \in Nat /\ brush[x].prev \in Int
  BY DEF ImageInv, CoverInv, ImageTypeOK, Pictures, Brushes
<1>a. {"account", "finish", "bytes", "charge"} \subseteq Drawn /\ "probe" \notin Drawn /\ "idle" \notin Drawn
  BY DEF Drawn
<1>1. CASE ReadBytes(x)
  <2>1. UNCHANGED <<image, charged, derived, request, drawn>> /\ brush[x].at = "account" /\ ~ Counting(x)
    BY ONLY <1>1 DEF ReadBytes, BrushAt, Counting
  <2>2. CASE image.there /\ image.bytes # Bytes(brush[x].name)
    <3>1. BrushIs(x, "bytes", brush[x].name, image.bytes) /\ marks' = Overlapped(x)
      BY ONLY <1>0, <1>1, <2>2, BrushMoves DEF ReadBytes
    <3>2. marks \subseteq marks'
      BY ONLY <3>1 DEF Overlapped
    <3>3. KeepsCover
      BY ONLY <1>0, <1>a, <2>1, <3>1, <3>2, BrushOnly DEF BrushIs, Alone, SamePlace
    <3>4. Books'
      BY ONLY <1>0, <2>1, <2>2, <3>1, StartsCounting
    <3> QED
      BY ONLY <1>0, <2>1, <3>3, <3>4 DEF Cleared, RequestAt
  <2>3. CASE ~ (image.there /\ image.bytes # Bytes(brush[x].name))
    <3>1. BrushIs(x, "finish", brush[x].name, brush[x].prev) /\ marks' = marks
      BY ONLY <1>0, <1>1, <2>3, BrushMoves, ImagePlaces DEF ReadBytes
    <3>2. KeepsCover
      BY ONLY <1>0, <1>a, <2>1, <3>1, BrushOnly DEF BrushIs, Alone, SamePlace
    <3>3. KeepsBooks
      BY ONLY <1>0, <2>1, <3>1, BrushUncounted
    <3> QED
      BY ONLY <1>0, <3>2, <3>3, BooksKept
  <2> QED
    BY <2>2, <2>3
<1>2. CASE WriteBytes(x)
  <2>1. /\ UNCHANGED <<charged, derived, request, drawn, marks>> /\ brush[x].at = "bytes" /\ Counting(x)
        /\ brush[x].at \in Drawn
    BY ONLY <1>2, <1>a DEF WriteBytes, BrushAt, Counting
  <2>2. BrushIs(x, "charge", brush[x].name, brush[x].prev)
    BY ONLY <1>0, <1>2, BrushMoves, ImagePlaces DEF WriteBytes
  <2>3. /\ SamePlace /\ image'.status = image.status
        /\ image.there => image'.bytes = Bytes(brush[x].name)
    <3>1. CASE image.there
      <4>1. Bytes(brush[x].name) \in Int /\ image' = [image EXCEPT !.bytes = Bytes(brush[x].name)]
        BY ONLY <1>0, <1>2, <3>1 DEF WriteBytes, Written, Bytes
      <4>2. image' \in Pictures /\ image'.there = image.there
        BY ONLY <1>0, <4>1 DEF Pictures
      <4> QED
        BY ONLY <1>0, <4>1, <4>2 DEF SamePlace, Pictures
    <3>2. CASE ~ image.there
      BY ONLY <1>0, <1>2, <3>2 DEF WriteBytes, Written, SamePlace
    <3> QED
      BY ONLY <3>1, <3>2
  <2>4. KeepsCover
    BY ONLY <1>0, <2>1, <2>2, <2>3, BrushOnly DEF BrushIs, Alone
  <2>5. ASSUME Clean PROVE Books'
    <3>1. image.there /\ charged = brush[x].prev
      BY ONLY <1>0, <2>1, <2>5 DEF Books, Counts, BrushAt
    <3>2. Counting(x)' /\ Counts(x)'
      BY ONLY <2>1, <2>2, <2>3, <3>1 DEF Counting, Counts, BrushAt, BrushIs
    <3> QED
      BY ONLY <1>0, <2>1, <2>2, <2>3, <2>5, <3>2, GoesOnCounting DEF SamePlace
  <2>6. Clean' <=> Clean
    BY ONLY <2>1 DEF Clean
  <2> QED
    BY ONLY <1>0, <2>1, <2>3, <2>4, <2>5, <2>6 DEF Cleared, RequestAt, SamePlace, Books
<1>3. CASE apply_derived_bytes(x)
  <2>1. /\ UNCHANGED <<image, derived, request, drawn, marks>> /\ brush[x].at = "charge" /\ Counting(x)
        /\ brush[x].at \in Drawn
    BY ONLY <1>3, <1>a DEF apply_derived_bytes, BrushAt, Counting
  <2>2. BrushIs(x, "finish", brush[x].name, brush[x].prev) \/ BrushIs(x, "idle", 0, 0)
    BY ONLY <1>0, <1>3, BrushMoves, ImagePlaces DEF apply_derived_bytes
  <2>3. charged' = charged + (Bytes(brush[x].name) - brush[x].prev) /\ charged' \in Int
    BY ONLY <1>0, <1>3 DEF apply_derived_bytes, Difference, Bytes
  <2>4. KeepsCover
    BY ONLY <1>0, <1>a, <2>1, <2>2, <2>3, BrushOnly DEF BrushIs, Alone, SamePlace
  <2>5. ASSUME Clean PROVE Books'
    <3>1. image.bytes = Bytes(brush[x].name) /\ charged = brush[x].prev
      BY ONLY <1>0, <2>1, <2>5 DEF Books, Counts, BrushAt
    <3>2. charged' = image.bytes
      BY ONLY <1>0, <2>3, <3>1
    <3>3. ~ Counting(x)'
      BY ONLY <2>2 DEF BrushIs, Counting
    <3> QED
      BY ONLY <1>0, <2>1, <2>2, <2>5, <3>2, <3>3, GoesOnCounting
  <2>6. Clean' <=> Clean
    BY ONLY <2>1 DEF Clean
  <2> QED
    BY ONLY <1>0, <2>1, <2>4, <2>5, <2>6 DEF Cleared, RequestAt, Books
<1>4. CASE x = Script /\ ListPending
  <2>1. /\ UNCHANGED <<image, charged, derived, request, drawn>> /\ brush[x].at = "idle" /\ ~ Counting(x)
        /\ image.there /\ image.bytes = 0 /\ x \notin Uploads
    BY ONLY <1>4, RunnersDiffer DEF ListPending, BrushAt, Counting
  <2>2. BrushIs(x, "probe", image.name, image.bytes) /\ marks' = Overlapped(x)
    BY ONLY <1>0, <1>4, <2>1, BrushMoves DEF ListPending
  <2>3. marks \subseteq marks'
    BY ONLY <2>2 DEF Overlapped
  <2>4. KeepsCover
    BY ONLY <1>0, <1>a, <2>1, <2>2, <2>3, BrushOnly DEF BrushIs, Alone, SamePlace
  <2>5. Books'
    BY ONLY <1>0, <2>1, <2>2, StartsCounting
  <2> QED
    BY ONLY <1>0, <2>1, <2>4, <2>5 DEF Cleared, RequestAt
<1>5. CASE x = Script /\ ProbeDerived
  <2>1. UNCHANGED <<image, charged, derived, request, drawn, marks>> /\ brush[x].at = "probe" /\ Counting(x)
    BY ONLY <1>5 DEF ProbeDerived, BrushAt, Counting
  <2>2. \/ BrushIs(x, "bytes", brush[x].name, brush[x].prev) /\ brush[x].name \in derived
        \/ BrushIs(x, "idle", 0, 0)
    BY ONLY <1>0, <1>5, BrushMoves, ImagePlaces DEF ProbeDerived
  <2>3. KeepsCover
    BY ONLY <1>0, <1>a, <2>1, <2>2, BrushOnly DEF BrushIs, Alone, SamePlace
  <2>4. ASSUME Clean PROVE Books'
    <3>1. image.bytes = brush[x].prev /\ charged = brush[x].prev
      BY ONLY <1>0, <2>1, <2>4 DEF Books, Counts, BrushAt
    <3>2. CASE BrushIs(x, "bytes", brush[x].name, brush[x].prev)
      <4>1. Counting(x)' /\ Counts(x)'
        BY ONLY <2>1, <3>1, <3>2 DEF BrushIs, Counting, Counts, BrushAt
      <4> QED
        BY ONLY <1>0, <2>1, <2>4, <3>2, <4>1, GoesOnCounting
    <3>3. CASE BrushIs(x, "idle", 0, 0)
      <4>1. ~ Counting(x)'
        BY ONLY <3>3 DEF BrushIs, Counting
      <4> QED
        BY ONLY <1>0, <2>1, <2>4, <3>1, <3>3, <4>1, GoesOnCounting
    <3> QED
      BY ONLY <2>2, <3>2, <3>3
  <2>5. Clean' <=> Clean
    BY ONLY <2>1 DEF Clean
  <2> QED
    BY ONLY <1>0, <2>1, <2>3, <2>4, <2>5 DEF Cleared, RequestAt, Books
<1> QED
  BY <1>1, <1>2, <1>3, <1>4, <1>5

LEMMA ImageInitInv == ImageInit => ImageInv
<1> SUFFICES ASSUME ImageInit PROVE ImageInv
  OBVIOUS
<1>1. ImageTypeOK
  <2>1. NoRequest \in [at : RequestPlaces, old : Nat, name : Nat]
    BY DEF NoRequest, RequestPlaces
  <2>2. Resting \in [at : BrushPlaces, name : Nat, prev : Int, tries : Int]
    BY DEF Resting, BrushPlaces
  <2>3. image \in Pictures
    BY DEF ImageInit, Pictures, Statuses
  <2> QED
    BY <2>1, <2>2, <2>3 DEF ImageInit, ImageTypeOK, UploadStates, Brushes, Drawings
<1>2. /\ image.there /\ image.name = 1 /\ image.status = "UNKNOWN" /\ image.bytes = 0 /\ charged = 0
      /\ 1 \in derived /\ drawn.names = 1 /\ marks = {}
      /\ \A r \in Uploads : request[r].at = "idle" /\ request[r].old = 0 /\ request[r].name = 0
      /\ \A x \in Runners : brush[x].at = "idle" /\ brush[x].name = 0
  BY DEF ImageInit, NoRequest, Resting
<1>3. OwnHand /\ GivenNames /\ FreshNames /\ OldIsReplaced
  BY <1>2 DEF OwnHand, GivenNames, FreshNames, OldIsReplaced, RequestAt, Past, Runners
<1>4. LeftThere
  BY <1>2 DEF LeftThere
<1>5. Cleared /\ Books
  BY <1>2 DEF Cleared, Books, CountsAlone, Counts, Counting, RequestAt, BrushAt
<1> QED
  BY <1>1, <1>3, <1>4, <1>5 DEF ImageInv, CoverInv

LEMMA ImageKept == ImageInv /\ [ImageNext]_imageVars => ImageInv'
<1> SUFFICES ASSUME ImageInv, [ImageNext]_imageVars PROVE ImageInv'
  OBVIOUS
<1>0. ImageInv /\ CoverInv /\ Cleared /\ Books
  BY DEF ImageInv
<1>k. KeepsCover /\ KeepsBooks => ImageInv'
  BY ONLY <1>0, CoverKept, BooksKept DEF ImageInv
<1>c. KeepsCover /\ Cleared' /\ Books' => ImageInv'
  BY ONLY <1>0, CoverKept DEF ImageInv
<1>p. CoverInv' /\ KeepsBooks => ImageInv'
  BY ONLY <1>0, BooksKept DEF ImageInv
<1>1. ASSUME NEW r \in Uploads, Ask(r) \/ Answer(r) PROVE ImageInv'
  <2>1. CASE Rebuild(r) \/ MarkQueuing(r) \/ SendTask(r) \/ SendRefused(r) \/ DrawnInline(r)
             \/ DropReplaced(r) \/ DeleteImage(r) \/ ClearImage(r)
    BY ONLY <1>0, <1>k, <2>1, RequestKeeps, r \in Uploads
  <2>2. CASE StoreOriginal(r)
    BY ONLY <1>0, <1>p, <2>2, StoreKeeps, r \in Uploads
  <2>3. CASE PointToOriginal(r)
    BY ONLY <1>0, <1>p, <2>3, PointKeeps, r \in Uploads
  <2>4. CASE DrawInline(r)
    BY ONLY <1>0, <1>k, <2>4, DrawInlineKeeps, r \in Uploads
  <2>5. CASE RequestDies(r)
    BY ONLY <1>0, <1>k, <2>5, RequestDiesKeeps, r \in Uploads
  <2>6. CASE DropDocument(r) \/ ZeroBooks(r)
    BY ONLY <1>0, <2>6, EndKeeps, r \in Uploads DEF ImageInv
  <2> QED
    BY ONLY <1>1, <2>1, <2>2, <2>3, <2>4, <2>5, <2>6 DEF Ask, Answer
<1>2. ASSUME NEW w \in Painters, TakeTask(w) \/ PainterDies(w) PROVE ImageInv'
  <2>1. w \in Runners
    BY ONLY w \in Painters DEF Runners
  <2> QED
    BY ONLY <1>0, <1>k, <1>2, <2>1, BrushKeeps
<1>3. ASSUME NEW x \in Runners, Draw(x) PROVE ImageInv'
  <2>1. CASE ReadImage(x) \/ MarkGenerating(x) \/ LoadOriginal(x) \/ PublishDerived(x)
             \/ TaskFails(x) \/ FinishTask(x) \/ AccountingFails(x)
    BY ONLY <1>0, <1>k, <2>1, BrushKeeps, x \in Runners
  <2>2. CASE ReadBytes(x) \/ WriteBytes(x) \/ apply_derived_bytes(x)
    BY ONLY <1>0, <1>c, <2>2, CountKeeps, x \in Runners
  <2> QED
    BY ONLY <1>3, <2>1, <2>2 DEF Draw
<1>4. CASE ListPending \/ ProbeDerived
  <2>1. Script \in Runners
    BY ONLY DEF Runners
  <2> QED
    BY ONLY <1>0, <1>c, <1>4, <2>1, CountKeeps
<1>5. CASE UNCHANGED imageVars
  <2>1. UNCHANGED <<image, charged, derived, request, brush, drawn, marks>>
    BY ONLY <1>5 DEF imageVars
  <2>2. CoverInv'
    BY ONLY <1>0, <2>1 DEF CoverInv, ImageTypeOK, OwnHand, GivenNames, FreshNames, Fresh, OldIsReplaced,
                           LeftThere, Deleting, RequestAt
  <2>3. Cleared' /\ Books'
    BY ONLY <1>0, <2>1 DEF Cleared, Books, Clean, CountsAlone, Counts, Counting, RequestAt, BrushAt
  <2> QED
    BY ONLY <2>2, <2>3 DEF ImageInv
<1> QED
  BY <1>1, <1>2, <1>3, <1>4, <1>5 DEF ImageNext

\* An image whose cover has an address has the cover, whatever late tasks of
\* replaced objects, second deliveries, rebuilds and failures there are, except
\* in the two windows the code has: an upload has changed the name and not yet
\* the state, or a deletion has removed the objects and not yet the document.
THEOREM CoverHolds == ImageInit /\ [][ImageNext]_imageVars => []CoverUrlResolves
<1>1. ImageInv => CoverUrlResolves
  BY DEF ImageInv, CoverInv, LeftThere, Deleting, CoverUrlResolves, Signed, Cut, RequestAt
<1> QED
  BY <1>1, ImageInitInv, ImageKept, PTL

\* The derived bytes of the project are those of its image whenever nobody is
\* counting, unless two counts have overlapped, a count was given up half way,
\* or a deletion has left its bytes on the project.
THEOREM BooksHold == ImageInit /\ [][ImageNext]_imageVars => []DerivedBytesAddUp
<1>1. ImageInv => DerivedBytesAddUp
  <2> DEFINE Settled == /\ \A x \in Runners : ~ Counting(x)
                      /\ \A r \in Uploads : request[r].at \notin Cut
             AddUp == charged = IF image.there THEN image.bytes ELSE 0
  <2>1. ASSUME ImageInv, Clean, Settled PROVE AddUp
    <3>1. image.there => charged = image.bytes
      BY <2>1 DEF ImageInv, Books
    <3>2. ~ image.there => charged = 0
      BY <2>1 DEF ImageInv, Books, RequestAt, Cut
    <3> QED
      BY <3>1, <3>2
  <2>2. (Clean /\ Settled => AddUp) => DerivedBytesAddUp
    BY ONLY DEF Clean, DerivedBytesAddUp
  <2> QED
    BY <2>1, <2>2
<1> QED
  BY <1>1, ImageInitInv, ImageKept, PTL
=============================================================================
