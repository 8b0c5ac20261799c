------------------------------ MODULE PageOrder ------------------------------
(* The order of the images in the root directory of a project: by name, or  *)
(* by the manual order an administrator has saved.  Saving is guarded by a  *)
(* lease and by the version of the list the administrator has edited.       *)
(* `agreed` is the order people have agreed on.  Names are numbers, and two *)
(* neighbouring ones have the same sort_name, as 1.jpg and 01.jpg do.       *)
EXTENDS Integers, FiniteSets, FiniteSetsExt, SequencesExt

CONSTANTS
  Pages,        \* identities of images, in the order they are given
  PageNames,    \* a set of numbers
  Editors,      \* requests: saving an order, uploading
  MaxPageActs   \* bound: requests started

VARIABLES
  page,         \* page -> [name, manual]; manual 0 is a missing manual_order
  orderLock,    \* file_order_lock: the editor whose lease it is, "none"
                \* when there is none, "expired" when its time is over
  editor,       \* what each request remembers
  agreed,       \* history: the order agreed on
  disputes,     \* history: two requests that touched the order at once
  pageActs

pageVars == <<page, orderLock, editor, agreed, disputes, pageActs>>

Away == [at |-> "idle"]
EditorAt(e, at) == editor[e].at = at
EditorGoes(e) == editor' = [editor EXCEPT ![e] = Away]
SortName(n) == n \div 2
OnePageAct == pageActs < MaxPageActs /\ pageActs' = pageActs + 1

(* --------------------------- the shown order -------------------------- *)

Ordered(pages) == \E p \in DOMAIN pages : pages[p].manual # 0

\* Project.files: by sort_name, and once one image has a manual order by
\* manual_order (missing ones first), sort_name and id.  Without a manual
\* order the database settles ties; here by id.
Precedes(pages, p, q) ==
  LET a == pages[p]  b == pages[q] IN
  \/ a.manual < b.manual
  \/ a.manual = b.manual /\ SortName(a.name) < SortName(b.name)
  \/ a.manual = b.manual /\ SortName(a.name) = SortName(b.name) /\ p < q
Listed(pages) == SetToSortSeq(DOMAIN pages, LAMBDA p, q : Precedes(pages, p, q))

\* image_neighbors: the nearest image before and after, as two queries; {}
\* when there is none.
First(S, order) == {p \in S : \A q \in S \ {p} : <<p, q>> \in order}
Reversed(order) == {<<o[2], o[1]>> : o \in order}
ByName(p, q) == SortName(page[p].name) < SortName(page[q].name)
SameRank(p, q) == page[p].manual = page[q].manual
TieBefore(q, p) ==
  SameRank(p, q) /\ (ByName(q, p) \/ (~ ByName(p, q) /\ q < p))
BeforePage(p) ==
  {q \in DOMAIN page :
     TieBefore(q, p) \/ (page[p].manual # 0 /\ page[q].manual < page[p].manual)}
AfterPage(p) ==
  {q \in DOMAIN page :
     \/ TieBefore(p, q)
     \/ page[p].manual = 0 /\ page[q].manual # 0
     \/ page[p].manual # 0 /\ page[q].manual > page[p].manual}
Listing == {o \in (DOMAIN page) \X (DOMAIN page) : Precedes(page, o[1], o[2])}
Spelling == {o \in (DOMAIN page) \X (DOMAIN page) : ByName(o[1], o[2])}
image_neighbors(p) ==
  IF Ordered(page)
    THEN <<First(BeforePage(p), Reversed(Listing)), First(AfterPage(p), Listing)>>
    ELSE << First({q \in DOMAIN page : ByName(q, p)}, Reversed(Spelling)),
            First({q \in DOMAIN page : ByName(p, q)}, Spelling) >>

\* export_file_names: one image with a manual order numbers the whole set,
\* so that sorting the exported names gives the order of the list.
export_file_names(files) ==
  [i \in DOMAIN files |->
     [number |-> IF \E k \in DOMAIN files : page[files[k]].manual # 0
                   THEN i ELSE 0,
      name |-> page[files[i]].name]]

(* -------------------------------- saving ------------------------------ *)

\* GET and, later, PUT with a permutation of what was shown, or a reset.
Browse(e) ==
  /\ EditorAt(e, "idle") /\ OnePageAct
  /\ \E wanted \in SetToSeqs(DOMAIN page), reset \in BOOLEAN :
       /\ reset => wanted = Listed(page)
       /\ editor' = [editor EXCEPT
                       ![e] = [at |-> "put", version |-> page,
                               wanted |-> wanted, reset |-> reset]]
  /\ UNCHANGED <<page, orderLock, agreed, disputes>>

TakeOrderLock(e) ==
  /\ EditorAt(e, "put")
  /\ IF orderLock \in {"none", "expired"}
       THEN /\ orderLock' = e
            /\ editor' = [editor EXCEPT ![e].at = "check"]
       ELSE UNCHANGED orderLock /\ EditorGoes(e)
  /\ UNCHANGED <<page, agreed, disputes, pageActs>>

\* order_snapshot under the lock, against the version that was edited.  An
\* order equal to the list is not written.
Bug_Unchanged(e) == TRUE
Unchanged(e) == page = editor[e].version
CheckVersion(e) ==
  /\ EditorAt(e, "check")
  /\ editor' = [editor EXCEPT
       ![e] = IF Unchanged(e) /\ @.reset THEN [@ EXCEPT !.at = "reset"]
                ELSE IF ~ Unchanged(e) \/ @.wanted = Listed(page)
                THEN [at |-> "release"]
                ELSE [at |-> "write", next |-> 1, wanted |-> @.wanted]]
  /\ UNCHANGED <<page, orderLock, agreed, disputes, pageActs>>

ResetOrder(e) ==
  /\ EditorAt(e, "reset")
  /\ page' = [p \in DOMAIN page |->
                IF p \in DOMAIN editor[e].version
                  THEN [page[p] EXCEPT !.manual = 0] ELSE page[p]]
  /\ agreed' = Listed(page')
  /\ editor' = [editor EXCEPT ![e] = [at |-> "release"]]
  /\ UNCHANGED <<orderLock, disputes, pageActs>>

\* The bulk write, one image after the other.
WriteOrder(e) ==
  /\ EditorAt(e, "write")
  /\ LET i == editor[e].next  p == editor[e].wanted[i] IN
     /\ page' = IF p \in DOMAIN page THEN [page EXCEPT ![p].manual = i] ELSE page
     /\ IF i = Len(editor[e].wanted)
          THEN /\ editor' = [editor EXCEPT ![e] = [at |-> "release"]]
               /\ agreed' = SelectSeq(editor[e].wanted,
                                      LAMBDA q : q \in DOMAIN page)
          ELSE editor' = [editor EXCEPT ![e].next = i + 1] /\ agreed' = agreed
  /\ UNCHANGED <<orderLock, disputes, pageActs>>

ReleaseOrderLock(e) ==
  /\ EditorAt(e, "release")
  /\ orderLock' = IF orderLock = e THEN "none" ELSE orderLock
  /\ EditorGoes(e)
  /\ UNCHANGED <<page, agreed, disputes, pageActs>>

Saving(e) == editor[e].at \in {"check", "reset", "write"}

\* The lease runs out, of an editor that is slow or dead.
OrderLockExpires ==
  /\ orderLock \in Editors
  /\ orderLock' = "expired"
  /\ disputes' = (disputes \/ Saving(orderLock))
  /\ UNCHANGED <<page, editor, agreed, pageActs>>

EditorDies(e) ==
  /\ ~ EditorAt(e, "idle")
  /\ disputes' = (disputes \/ EditorAt(e, "write"))
  /\ EditorGoes(e)
  /\ UNCHANGED <<page, orderLock, agreed, pageActs>>

(* --------------------------- the directory ---------------------------- *)

LastOrder == IF page = <<>> THEN 0 ELSE Max({page[p].manual : p \in DOMAIN page})

\* create_file: an upload to an ordered directory goes last.
ReadLastOrder(e) ==
  /\ EditorAt(e, "idle") /\ OnePageAct
  /\ editor' = [editor EXCEPT
       ![e] = [at |-> "create",
               manual |-> IF Ordered(page) THEN LastOrder + 1 ELSE 0]]
  /\ disputes' = (disputes \/ \E d \in Editors : Saving(d))
  /\ UNCHANGED <<page, orderLock, agreed>>

NextPage == CHOOSE p \in Pages \ DOMAIN page :
              \A q \in Pages \ DOMAIN page : p <= q
Free(n) == \A p \in DOMAIN page : page[p].name # n

CreatePage(e) ==
  /\ EditorAt(e, "create") /\ Pages # DOMAIN page
  /\ \E n \in PageNames :
       /\ Free(n)
       /\ page' = [p \in DOMAIN page \cup {NextPage} |->
                     IF p = NextPage
                       THEN [name |-> n, manual |-> editor[e].manual]
                       ELSE page[p]]
  /\ agreed' = IF Ordered(page) THEN Append(agreed, NextPage) ELSE Listed(page')
  /\ disputes' = (disputes
       \/ (\E d \in Editors : Saving(d))
       \/ editor[e].manual # (IF Ordered(page) THEN LastOrder + 1 ELSE 0))
  /\ EditorGoes(e)
  /\ UNCHANGED <<orderLock, pageActs>>

\* Renaming and deleting leave the other images where they are.
RenamePage(p) ==
  /\ p \in DOMAIN page /\ OnePageAct
  /\ \E n \in PageNames : Free(n) /\ page' = [page EXCEPT ![p].name = n]
  /\ agreed' = IF Ordered(page) THEN agreed ELSE Listed(page')
  /\ disputes' = (disputes \/ \E d \in Editors : Saving(d))
  /\ UNCHANGED <<orderLock, editor>>

DeletePage(p) ==
  /\ p \in DOMAIN page /\ OnePageAct
  /\ page' = [q \in DOMAIN page \ {p} |-> page[q]]
  /\ agreed' = IF Ordered(page') \/ ~ Ordered(page)
                 THEN SelectSeq(agreed, LAMBDA q : q # p) ELSE Listed(page')
  /\ disputes' = (disputes \/ \E d \in Editors : Saving(d))
  /\ UNCHANGED <<orderLock, editor>>

save_order(e) ==
  \/ Browse(e) \/ TakeOrderLock(e) \/ CheckVersion(e) \/ ResetOrder(e)
  \/ WriteOrder(e) \/ ReleaseOrderLock(e) \/ EditorDies(e)

PageInit ==
  /\ page \in {[p \in {q \in Pages : q <= k} |-> [name |-> p, manual |-> 0]] :
                 k \in {q \in Pages : q + 1 \in Pages}}
  /\ agreed = Listed(page)
  /\ orderLock = "none"
  /\ editor = [e \in Editors |-> Away]
  /\ disputes = FALSE /\ pageActs = 0

PageNext ==
  \/ \E e \in Editors : save_order(e) \/ ReadLastOrder(e) \/ CreatePage(e)
  \/ \E p \in Pages : RenamePage(p) \/ DeletePage(p)
  \/ OrderLockExpires

(* ------------------------------ properties ---------------------------- *)

\* The list, the neighbours of every image and the exported names agree with
\* each other in every state, half-written orders included.  In a directory
\* nobody has ordered, images with one sort_name do not see each other.
ViewsAgree ==
  LET list == Listed(page)
      names == export_file_names(list) IN
  /\ (\/ Ordered(page)
      \/ \A p, q \in DOMAIN page : SortName(page[p].name) = SortName(page[q].name)
                                     => p = q) =>
       \A i \in DOMAIN list :
         image_neighbors(list[i]) =
           << IF i = 1 THEN {} ELSE {list[i - 1]},
              IF i = Len(list) THEN {} ELSE {list[i + 1]} >>
  /\ \A i, j \in DOMAIN list :
       (i < j /\ Ordered(page)) => names[i].number < names[j].number

\* Outside a save the list shows the order agreed on: what was saved last,
\* with later uploads at its end and deleted images taken out.  A save never
\* puts back an order made from a list that has changed.  Not after a save
\* that outlived its lease or died half way, and not when an upload, a rename
\* or a deletion ran into a save.
OrderIsAsAgreed ==
  (~ disputes /\ \A e \in Editors : ~ EditorAt(e, "write")) =>
    Listed(page) = agreed

\* The order of a project's pages is the one agreed on, and the list, the
\* neighbours and the export all show that one.
PagesInv == OrderIsAsAgreed /\ ViewsAgree
=============================================================================
