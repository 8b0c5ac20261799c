--------------------------- MODULE IdentityProofs ---------------------------
(***************************************************************************)
(* Proofs about migration 0004 (IdentityMigration), for any projects,      *)
(* users, names and processes, any legacy data, and any bounds on the      *)
(* documents inserted and on the processes killed or overtaken.            *)
(*                                                                         *)
(* IdentityInd is inductive with processes dying and running up() side by  *)
(* side: what a process remembers of a document may have been rewritten or *)
(* deleted by another, but a document of the same subject that is at least *)
(* as old is always left, so nobody loses the last one.                    *)
(* CalmInv holds while nobody was killed or overtaken: then the documents  *)
(* of a subject are one, and the evidence is complete.                     *)
(* MigInd follows the result: every document says what the legacy data     *)
(* want of its subject, so that a step repeated by a later run writes what *)
(* is there already.                                                       *)
(***************************************************************************)
EXTENDS IdentityMigration, FiniteSetTheorems, TLAPS

(* ------------------------- the places of up() ------------------------- *)

Finding == {"members", "external", "owner", "team"}
Reading == {"members", "status", "external", "owner", "bound", "team", "recount",
            "counted", "index", "report", "files", "write", "seal", "verify"}
Pcs == {"idle", "merge"} \cup Reading
KeyOf(d) == <<d.group, d.subject>>
Held(k) == \E d \in docs : KeyOf(d) = k

(* ------------------------------ documents ----------------------------- *)

\* A document with a name for a subject is active, and every key that has
\* documents has an oldest one.
NameActive(d) == d.subject \in Names => d.status = "active"
OldestOf(ds) == ds # {} => \E d \in ds : \A e \in ds : d.id <= e.id
DocsRight ==
  /\ docs \subseteq DocumentState /\ made \in 0..MaxDocs
  /\ \A d, e \in docs : d.id = e.id => d = e
  /\ \A d \in docs : d.id <= made /\ NameActive(d)
  /\ \A k \in Keys : OldestOf(Holding(k))

\* What a process remembers of a document it has read: another one may have
\* been written over it or have taken its place, but it has the same subject,
\* and there is one of this subject at least as old.
Remembered(old) ==
  /\ old \in DocumentState /\ old.id <= made /\ NameActive(old)
  /\ \A d \in docs : d.id = old.id => KeyOf(d) = KeyOf(old)
  /\ \E d \in docs : KeyOf(d) = KeyOf(old) /\ d.id <= old.id
MemoryRight(p) ==
  /\ \A old \in run[p].stale : Remembered(old)
  /\ \A d, e \in run[p].stale : d.id = e.id => d = e
  /\ \A k \in Keys : OldestOf(Seen(p, k))
  /\ run[p].found # NoDoc => Remembered(run[p].found)

(* ------------------------------ processes ----------------------------- *)

\* What is still to be done, at each place of up().
Tasks(pc, raw, stale) ==
  CASE pc = "merge"    -> {KeyOf(d) : d \in stale}
    [] pc = "members"  -> MemberKeys
    [] pc = "status"   -> Projects
    [] pc = "external" -> WorkerKeys(raw)
    [] pc \in {"owner", "bound"} -> Projects \X {NoUser}
    [] pc = "team"     -> TeamKeys
    [] pc \in {"recount", "counted"} -> Groups \X {NoUser}
    [] OTHER -> {}
RunType ==
  [pc : Pcs, todo : SUBSET (Projects \cup (Groups \X (Subjects \cup {NoUser}))),
   doing : Keys \cup {NoKey}, found : DocumentState \cup {NoDoc},
   stale : SUBSET DocumentState, owners : [Projects -> Users \cup {NoUser}],
   raw : SUBSET Projects, issues : BOOLEAN, number : 0..MaxDocs]
ProcessRight(p) ==
  LET r == run[p] IN
  /\ r.todo \subseteq Tasks(r.pc, r.raw, r.stale)
  /\ r.doing # NoKey =>
       \/ r.pc \in {"merge", "members", "external", "team"} /\ r.doing \in r.todo
       \/ r.pc \in {"owner", "bound"} /\ r.doing \in Projects \X {Fallback}
  /\ r.pc = "bound" => r.doing # NoKey
  /\ r.pc = "counted" => r.todo # {}
  /\ r.found # NoDoc => r.pc \in Finding /\ r.doing # NoKey /\ KeyOf(r.found) = r.doing
RunRight == run \in [Processes -> RunType] /\ \A p \in Processes : ProcessRight(p)

RestRight ==
  /\ legacy \in LegacyStates
  /\ owner \in [Projects -> Users \cup {NoUser}]
  /\ status \in [Projects -> {"NORMAL", "CLEARED", "COMPLETED", "FINISH_PLAN"}]
  /\ workers \subseteq Projects /\ count \in [Groups -> 0..MaxDocs]
  /\ policy \in BOOLEAN /\ indexed \in BOOLEAN /\ recorded \in BOOLEAN
  /\ summary \in {"none", "clean", "issues"}
  /\ bundle \in [sealed : BOOLEAN, raw : SUBSET Projects]
  /\ lock \in Processes \cup {Free}
  /\ deaths \in Nat /\ overruns \in Nat
MarksRight == miscounts \subseteq Groups /\ blind \in BOOLEAN

(* ------------------------------- credits ------------------------------ *)

\* The name of a worker is in the legacy field or has a document; who has read
\* the field has read every name still in it, and has given each a document
\* when it goes on to the owners.
NamesKept ==
  \A g \in Projects : \A n \in legacy.credits[g] : g \in workers \/ Held(<<g, n>>)
CreditsFor(pc, todo, raw) ==
  /\ pc \in Reading => workers \subseteq raw
  /\ pc = "external" => \A k \in WorkerKeys(raw) \ todo : Held(k)
  /\ pc \in {"owner", "bound", "team", "recount", "counted"} => \A k \in WorkerKeys(raw) : Held(k)
CreditsRight(p) == CreditsFor(run[p].pc, run[p].todo, run[p].raw)

IdentityTypes == DocsRight /\ RunRight /\ RestRight /\ \A p \in Processes : MemoryRight(p)
IdentityInd ==
  /\ IdentityTypes
  /\ NamesKept /\ \A p \in Processes : CreditsRight(p)

(* ------------------------------ evidence ------------------------------ *)

Calm == deaths = 0 /\ overruns = 0
Alone(p) == run[p].pc # "idle" => lock = p
Certain(p) == run[p].pc \in Finding /\ run[p].doing # NoKey /\ run[p].found = NoDoc
                => ~Held(run[p].doing)
Recounting == {"recount", "counted", "index", "report", "files", "write", "seal"}
EvidenceAt(p) ==
  /\ run[p].pc = "verify" => bundle.sealed
  /\ run[p].pc = "write" => ~bundle.sealed
  /\ run[p].pc = "seal" => bundle.raw = Full
  /\ run[p].pc \in Reading /\ ~bundle.sealed => run[p].raw = Full
EvidenceRight ==
  /\ bundle.sealed => bundle.raw = Full
  /\ \A p \in Processes : EvidenceAt(p)
  /\ \/ bundle.sealed \/ workers = Full
     \/ \E p \in Processes : run[p].pc \in Recounting
CalmInv ==
  Calm => /\ \A p \in Processes : Alone(p) /\ Certain(p)
          /\ OneEach /\ EvidenceRight

(* ---------------------------- the documents --------------------------- *)

LEMMA IdFacts ==
  /\ NoDoc \notin DocumentState /\ NoKey \notin Keys
  /\ \A d \in DocumentState : KeyOf(d) \in Keys /\ d.id \in 1..MaxDocs
  /\ \A g \in Groups, s \in Subjects : <<g, s>> \in Keys
BY UserAssumption, BoundAssumption
   DEF NoDoc, NoKey, DocumentState, Keys, KeyOf, Subjects

LEMMA TagFacts ==
  ASSUME NEW tags
  PROVE  Highest(tags) \in SUBSET {"creator", "admin", "member", "translator", "credited"}
BY DEF Highest

\* What a write of the two collections does for everybody who has read them.
StoreMoves ==
  /\ DocsRight' /\ made <= made'
  /\ \A d \in docs' : \/ d.id > made
                      \/ \E e \in docs : e.id = d.id /\ KeyOf(e) = KeyOf(d)
  /\ \A d \in docs : \E e \in docs' : KeyOf(e) = KeyOf(d) /\ e.id <= d.id

LEMMA StoreStays ==
  ASSUME DocsRight, UNCHANGED store
  PROVE  StoreMoves
<1>1. docs' = docs /\ made' = made
  BY DEF store
<1>2. DocsRight'
  BY <1>1 DEF DocsRight, Holding, OldestOf
<1>3. \A d \in docs : d.id <= d.id
  BY IdFacts, BoundAssumption DEF DocsRight
<1>4. made <= made'
  BY <1>1, BoundAssumption DEF DocsRight
<1> QED BY <1>1, <1>2, <1>3, <1>4 DEF StoreMoves

LEMMA UpdateMoves ==
  ASSUME DocsRight, NEW old, Remembered(old), NEW new \in DocumentState,
         new.id = old.id, KeyOf(new) = KeyOf(old), NameActive(new),
         Update(old, new), made' = made
  PROVE  StoreMoves
<1>n. /\ made \in Nat /\ \A d \in docs : d.id \in Nat /\ d \in DocumentState
      /\ old.id <= made
  BY IdFacts, BoundAssumption DEF DocsRight, Remembered
<1>1. \A d \in docs : \E e \in docs' : e.id = d.id /\ KeyOf(e) = KeyOf(d)
  <2> TAKE d \in docs
  <2>1. CASE d.id = old.id
    <3>1. new \in docs'
      BY <2>1 DEF Update
    <3>2. KeyOf(d) = KeyOf(old)
      BY <2>1 DEF Remembered
    <3> QED BY <2>1, <3>1, <3>2
  <2>2. CASE d.id # old.id
    BY <2>2 DEF Update
  <2> QED BY <2>1, <2>2
<1>2. \A d \in docs' : \E e \in docs : e.id = d.id /\ KeyOf(e) = KeyOf(d)
  <2> TAKE d \in docs'
  <2>1. PICK e \in docs : d = IF e.id = old.id THEN new ELSE e
    BY DEF Update
  <2>2. e.id = old.id => KeyOf(e) = KeyOf(old)
    BY DEF Remembered
  <2> QED BY <2>1, <2>2
<1>3. docs' \subseteq DocumentState /\ \A d \in docs' : NameActive(d)
  BY <1>n DEF Update, DocsRight
<1>4. \A d, e \in docs' : d.id = e.id => d = e
  BY DEF Update, DocsRight
<1>5. \A d \in docs' : d.id <= made
  BY <1>2 DEF DocsRight
<1>6. ASSUME NEW k \in Keys PROVE OldestOf(Holding(k))'
  <2> SUFFICES ASSUME Holding(k)' # {}
               PROVE  \E d \in Holding(k)' : \A e \in Holding(k)' : d.id <= e.id
    BY DEF OldestOf
  <2>1. PICK c \in Holding(k)' : TRUE
    OBVIOUS
  <2>2. c \in docs' /\ KeyOf(c) = k
    BY <2>1 DEF Holding, KeyOf
  <2>3. Holding(k) # {}
    BY <2>2, <1>2 DEF Holding, KeyOf
  <2>4. PICK d \in Holding(k) : \A e \in Holding(k) : d.id <= e.id
    BY <2>3 DEF DocsRight, OldestOf
  <2>5. PICK f \in docs' : f.id = d.id /\ KeyOf(f) = KeyOf(d)
    BY <1>1, <2>4 DEF Holding
  <2>6. f \in Holding(k)'
    BY <2>4, <2>5 DEF Holding, KeyOf
  <2>7. ASSUME NEW e \in Holding(k)' PROVE f.id <= e.id
    <3>1. PICK g \in docs : g.id = e.id /\ KeyOf(g) = KeyOf(e)
      BY <1>2 DEF Holding
    <3>2. g \in Holding(k)
      BY <3>1 DEF Holding, KeyOf
    <3> QED BY <3>1, <3>2, <2>4, <2>5
  <2> QED BY <2>6, <2>7
<1>7. DocsRight'
  BY <1>3, <1>4, <1>5, <1>6 DEF DocsRight
<1>8. \A d \in docs' : d.id \in Nat
  BY <1>3, IdFacts, BoundAssumption
<1>9. \A d \in docs : \E e \in docs' : KeyOf(e) = KeyOf(d) /\ e.id <= d.id
  <2> TAKE d \in docs
  <2>1. PICK e \in docs' : e.id = d.id /\ KeyOf(e) = KeyOf(d)
    BY <1>1
  <2>2. e.id <= d.id
    BY <2>1, <1>n
  <2> QED BY <2>1, <2>2
<1> QED BY <1>n, <1>2, <1>7, <1>9 DEF StoreMoves

LEMMA InsertMoves ==
  ASSUME DocsRight, NEW new \in DocumentState, new.id = made + 1, made < MaxDocs,
         NameActive(new), docs' = docs \cup {new}, made' = made + 1
  PROVE  StoreMoves
<1>n. /\ made \in Nat /\ \A d \in docs : d.id \in Nat /\ d.id <= made
  BY IdFacts, BoundAssumption DEF DocsRight
<1>1. ASSUME NEW k \in Keys PROVE OldestOf(Holding(k))'
  <2> SUFFICES ASSUME Holding(k)' # {}
               PROVE  \E d \in Holding(k)' : \A e \in Holding(k)' : d.id <= e.id
    BY DEF OldestOf
  <2>1. \A e \in Holding(k)' : e \in Holding(k) \/ e = new
    BY DEF Holding
  <2>2. CASE Holding(k) = {}
    <3>1. new \in Holding(k)' /\ \A e \in Holding(k)' : e = new
      BY <2>1, <2>2
    <3> QED BY <3>1, <1>n
  <2>3. CASE Holding(k) # {}
    <3>1. PICK d \in Holding(k) : \A e \in Holding(k) : d.id <= e.id
      BY <2>3 DEF DocsRight, OldestOf
    <3>2. d \in Holding(k)' /\ d \in docs
      BY DEF Holding
    <3>3. d.id <= new.id
      BY <3>2, <1>n
    <3> QED BY <3>1, <3>2, <3>3, <2>1
  <2> QED BY <2>2, <2>3
<1>2. DocsRight'
  <2>1. docs' \subseteq DocumentState /\ made' \in 0..MaxDocs
    BY BoundAssumption, <1>n DEF DocsRight
  <2>2. \A d, e \in docs' : d.id = e.id => d = e
    BY <1>n DEF DocsRight
  <2>3. \A d \in docs' : d.id <= made' /\ NameActive(d)
    BY <1>n DEF DocsRight
  <2> QED BY <2>1, <2>2, <2>3, <1>1 DEF DocsRight
<1>3. \A d \in docs' : \/ d.id > made
                       \/ \E e \in docs : e.id = d.id /\ KeyOf(e) = KeyOf(d)
  BY <1>n
<1>4. \A d \in docs : \E e \in docs' : KeyOf(e) = KeyOf(d) /\ e.id <= d.id
  BY <1>n
<1> QED BY <1>n, <1>2, <1>3, <1>4 DEF StoreMoves

LEMMA OldestIs ==
  ASSUME NEW ds, OldestOf(ds), ds # {}
  PROVE  Oldest(ds) \in ds /\ \A e \in ds : Oldest(ds).id <= e.id
BY DEF OldestOf, Oldest

LEMMA DropMoves ==
  ASSUME DocsRight, NEW p, MemoryRight(p), NEW k \in Keys, Seen(p, k) # {},
         docs' = {d \in docs : \A e \in Surplus(Seen(p, k)) : d.id # e.id},
         made' = made
  PROVE  StoreMoves
<1> DEFINE o == Oldest(Seen(p, k))
<1>o. o \in Seen(p, k) /\ \A e \in Seen(p, k) : o.id <= e.id
  BY OldestIs DEF MemoryRight
<1>s. \A e \in Seen(p, k) : /\ e \in run[p].stale /\ e \in DocumentState
                            /\ KeyOf(e) = k /\ e.id \in Nat
                            /\ \A d \in docs : d.id = e.id => KeyOf(d) = k
  BY IdFacts, BoundAssumption DEF Seen, KeyOf, MemoryRight, Remembered
<1>n. /\ made \in Nat /\ \A d \in docs : d.id \in Nat /\ d \in DocumentState
  BY IdFacts, BoundAssumption DEF DocsRight
<1>1. \A d \in docs : (\A e \in docs : KeyOf(e) = KeyOf(d) => d.id <= e.id) => d \in docs'
  <2> SUFFICES ASSUME NEW d \in docs,
                      \A e \in docs : KeyOf(e) = KeyOf(d) => d.id <= e.id,
                      NEW s \in Surplus(Seen(p, k)), d.id = s.id
               PROVE  FALSE
    OBVIOUS
  <2>1. s \in Seen(p, k) /\ s # o
    BY DEF Surplus
  <2>2. KeyOf(d) = k
    BY <2>1, <1>s
  <2>3. PICK e \in docs : KeyOf(e) = k /\ e.id <= o.id
    BY <1>o, <1>s DEF MemoryRight, Remembered
  <2>4. d.id <= e.id
    BY <2>2, <2>3
  <2>5. s.id <= o.id /\ o.id <= s.id
    BY <2>1, <2>3, <2>4, <1>o, <1>s, <1>n
  <2>6. s.id = o.id
    BY <2>1, <2>5, <1>o, <1>s
  <2> QED BY <2>1, <2>6, <1>o, <1>s DEF MemoryRight
<1>2. ASSUME NEW j \in Keys, NEW c \in Holding(j)
      PROVE  \E d \in Holding(j)' : \A e \in Holding(j) : d.id <= e.id
  <2>1. PICK d \in Holding(j) : \A e \in Holding(j) : d.id <= e.id
    BY <1>2 DEF DocsRight, OldestOf
  <2>2. d \in docs /\ \A e \in docs : KeyOf(e) = KeyOf(d) => d.id <= e.id
    BY <2>1 DEF Holding, KeyOf
  <2>3. d \in docs'
    BY <1>1, <2>2
  <2>4. d \in Holding(j)'
    BY <2>3, <2>1 DEF Holding
  <2> QED BY <2>1, <2>4
<1>3. \A j \in Keys : Holding(j)' \subseteq Holding(j)
  BY DEF Holding
<1>4. \A j \in Keys : OldestOf(Holding(j))'
  BY <1>2, <1>3 DEF OldestOf
<1>5. DocsRight'
  BY <1>4 DEF DocsRight
<1>6. \A d \in docs : \E e \in docs' : KeyOf(e) = KeyOf(d) /\ e.id <= d.id
  <2> TAKE d \in docs
  <2>1. KeyOf(d) \in Keys /\ d \in Holding(KeyOf(d))
    BY <1>n, IdFacts DEF Holding, KeyOf
  <2>2. PICK e \in Holding(KeyOf(d))' : e.id <= d.id
    BY <1>2, <2>1
  <2> QED BY <2>2 DEF Holding, KeyOf
<1>7. \A d \in docs' : \E e \in docs : e.id = d.id /\ KeyOf(e) = KeyOf(d)
  OBVIOUS
<1> QED BY <1>n, <1>5, <1>6, <1>7 DEF StoreMoves

LEMMA RememberedKept ==
  ASSUME StoreMoves, DocsRight, NEW old, Remembered(old)
  PROVE  Remembered(old)'
<1>n. /\ made \in Nat /\ made' \in Nat /\ old.id \in Nat
      /\ \A d \in docs : d.id \in Nat
      /\ \A d \in docs' : d.id \in Nat
  BY IdFacts, BoundAssumption DEF DocsRight, StoreMoves, Remembered
<1>1. old \in DocumentState /\ old.id <= made' /\ NameActive(old)
  BY <1>n DEF Remembered, StoreMoves
<1>2. \A d \in docs' : d.id = old.id => KeyOf(d) = KeyOf(old)
  BY <1>n DEF Remembered, StoreMoves
<1>3. \E d \in docs' : KeyOf(d) = KeyOf(old) /\ d.id <= old.id
  <2>1. PICK d \in docs : KeyOf(d) = KeyOf(old) /\ d.id <= old.id
    BY DEF Remembered
  <2>2. PICK e \in docs' : KeyOf(e) = KeyOf(d) /\ e.id <= d.id
    BY DEF StoreMoves
  <2>3. e.id <= old.id
    BY <2>1, <2>2, <1>n
  <2> QED BY <2>1, <2>2, <2>3
<1> QED BY <1>1, <1>2, <1>3 DEF Remembered, KeyOf

LEMMA ReadNow ==
  ASSUME DocsRight, NEW d \in docs
  PROVE  Remembered(d)
BY IdFacts, BoundAssumption DEF DocsRight, Remembered

LEMMA HeldKept ==
  ASSUME StoreMoves, NEW k, Held(k)
  PROVE  Held(k)'
BY DEF StoreMoves, Held, KeyOf

LEMMA HeldIs ==
  ASSUME NEW k
  PROVE  Held(k) <=> Holding(k) # {}
BY DEF Held, Holding, KeyOf

(* ---------------------------- the processes --------------------------- *)

LEMMA LegacyFacts ==
  ASSUME legacy' = legacy
  PROVE  /\ MemberKeys' = MemberKeys /\ TeamKeys' = TeamKeys /\ Fallback' = Fallback
         /\ \A raw : WorkerKeys(raw)' = WorkerKeys(raw)
<1>1. \A g, u : RelationTags(g, u)' = RelationTags(g, u)
  BY DEF RelationTags
<1>2. \A g, u : FromEvents(g, u)' = FromEvents(g, u)
  BY DEF FromEvents, LastEvent, EventStatus
<1>3. \A g, u : Projected(g, u)' = Projected(g, u)
  BY <1>1, <1>2 DEF Projected
<1>4. MemberKeys' = MemberKeys
  BY <1>3 DEF MemberKeys
<1>5. TeamKeys' = TeamKeys
  BY <1>1 DEF TeamKeys
<1>6. Candidates(Team)' = Candidates(Team)
  BY <1>1 DEF Candidates
<1>7. Fallback' = Fallback
  BY <1>6 DEF Fallback
<1>8. \A raw : WorkerKeys(raw)' = WorkerKeys(raw)
  BY DEF WorkerKeys
<1> QED BY <1>4, <1>5, <1>7, <1>8

LEMMA TasksStay ==
  ASSUME legacy' = legacy, NEW pc, NEW raw, NEW stale
  PROVE  Tasks(pc, raw, stale)' = Tasks(pc, raw, stale)
BY LegacyFacts DEF Tasks, KeyOf

LEMMA FallbackUser ==
  ASSUME RestRight
  PROVE  Fallback \in Users
<1>1. CASE Candidates(Team) = {}
  BY <1>1, UserAssumption DEF Fallback
<1>2. CASE Candidates(Team) # {}
  BY <1>2 DEF Fallback, Candidates
<1> QED BY <1>1, <1>2

\* What is to be done are keys, or projects.
LEMMA TasksType ==
  ASSUME NEW pc, NEW raw \in SUBSET Projects, NEW stale \in SUBSET DocumentState
  PROVE  /\ Tasks(pc, raw, stale) \subseteq Projects \cup (Groups \X (Subjects \cup {NoUser}))
         /\ pc \in {"merge", "members", "external", "team"} => Tasks(pc, raw, stale) \subseteq Keys
<1>1. /\ MemberKeys \subseteq Keys /\ TeamKeys \subseteq Keys
      /\ WorkerKeys(raw) \subseteq Keys /\ {KeyOf(d) : d \in stale} \subseteq Keys
  BY IdFacts DEF MemberKeys, TeamKeys, WorkerKeys, Keys, Groups, Subjects
<1>2. Keys \subseteq Groups \X (Subjects \cup {NoUser})
  BY DEF Keys
<1>3. Projects \X {NoUser} \subseteq Groups \X (Subjects \cup {NoUser})
  BY DEF Groups
<1>4. Groups \X {NoUser} \subseteq Groups \X (Subjects \cup {NoUser})
  OBVIOUS
<1> HIDE DEF Keys
<1> QED BY <1>1, <1>2, <1>3, <1>4 DEF Tasks

\* Whoever does not move keeps what holds of it.
LEMMA MemoryKept ==
  ASSUME StoreMoves, DocsRight, NEW p, MemoryRight(p),
         run'[p].stale = run[p].stale, run'[p].found \in {NoDoc, run[p].found}
  PROVE  MemoryRight(p)'
<1>1. \A old \in run[p].stale : Remembered(old)'
  BY RememberedKept DEF MemoryRight
<1>2. \A k \in Keys : Seen(p, k)' = Seen(p, k)
  BY DEF Seen
<1>3. \A k \in Keys : OldestOf(Seen(p, k))'
  BY <1>2 DEF MemoryRight, OldestOf
<1>4. \A old : old = run'[p].found /\ old # NoDoc => Remembered(old)'
  BY RememberedKept DEF MemoryRight
<1>5. \A d, e \in run'[p].stale : d.id = e.id => d = e
  BY DEF MemoryRight
<1> QED BY <1>1, <1>3, <1>4, <1>5 DEF MemoryRight, Remembered, KeyOf

LEMMA ProcessKept ==
  ASSUME legacy' = legacy, NEW p, ProcessRight(p), run'[p] = run[p]
  PROVE  ProcessRight(p)'
<1>1. Fallback' = Fallback
  BY LegacyFacts
<1>2. \A pc, raw, stale : Tasks(pc, raw, stale)' = Tasks(pc, raw, stale)
  BY TasksStay
<1> QED BY <1>1, <1>2 DEF ProcessRight, KeyOf

LEMMA CreditsKept ==
  ASSUME StoreMoves, legacy' = legacy, workers' \subseteq workers,
         NEW p, CreditsRight(p), run'[p] = run[p]
  PROVE  CreditsRight(p)'
<1>1. WorkerKeys(run[p].raw)' = WorkerKeys(run[p].raw)
  BY LegacyFacts
<1> QED BY <1>1, HeldKept DEF CreditsRight, CreditsFor

\* A step of one process: its own record is checked, the others keep theirs.
LEMMA Assemble ==
  ASSUME IdentityInd, NEW p \in Processes, NEW r \in RunType,
         run' = [run EXCEPT ![p] = r], legacy' = legacy, StoreMoves,
         workers' \subseteq workers, RestRight', NamesKept',
         ProcessRight(p)', MemoryRight(p)', CreditsRight(p)'
  PROVE  IdentityInd'
<1>1. run' \in [Processes -> RunType] /\ run'[p] = r
  BY DEF IdentityInd, IdentityTypes, RunRight
<1>2. \A q \in Processes : q # p => run'[q] = run[q]
  BY DEF IdentityInd, IdentityTypes, RunRight
<1>3. \A q \in Processes : ProcessRight(q)'
  <2> TAKE q \in Processes
  <2>1. CASE q = p
    BY <2>1
  <2>2. CASE q # p
    BY <2>2, <1>2, ProcessKept DEF IdentityInd, IdentityTypes, RunRight
  <2> QED BY <2>1, <2>2
<1>4. \A q \in Processes : MemoryRight(q)'
  <2> TAKE q \in Processes
  <2>1. CASE q = p
    BY <2>1
  <2>2. CASE q # p
    <3>1. run'[q].stale = run[q].stale /\ run'[q].found \in {NoDoc, run[q].found}
      BY <2>2, <1>2
    <3> QED BY <3>1, MemoryKept DEF IdentityInd, IdentityTypes
  <2> QED BY <2>1, <2>2
<1>5. \A q \in Processes : CreditsRight(q)'
  <2> TAKE q \in Processes
  <2>1. CASE q = p
    BY <2>1
  <2>2. CASE q # p
    BY <2>2, <1>2, CreditsKept DEF IdentityInd
  <2> QED BY <2>1, <2>2
<1> QED BY <1>1, <1>3, <1>4, <1>5 DEF IdentityInd, IdentityTypes, RunRight, StoreMoves

LEMMA NamesStay ==
  ASSUME NamesKept, StoreMoves, legacy' = legacy, workers' = workers
  PROVE  NamesKept'
<1> SUFFICES ASSUME NEW g \in Projects, NEW n \in legacy.credits[g], g \notin workers
             PROVE  Held(<<g, n>>)'
  BY Zenon DEF NamesKept
<1>1. Held(<<g, n>>)
  BY Zenon DEF NamesKept
<1> QED BY <1>1, HeldKept

\* A process goes on to another place of up(), or to its next task.
CreditsAfter(pc, todo, raw) ==
  /\ pc \in Reading => workers' \subseteq raw
  /\ pc = "external" => \A k \in WorkerKeys(raw) \ todo : Held(k)'
  /\ pc \in {"owner", "bound", "team", "recount", "counted"} => \A k \in WorkerKeys(raw) : Held(k)'

LEMMA GotoKeeps ==
  ASSUME IdentityInd, NEW p \in Processes, NEW pc \in Pcs \ {"bound", "counted"}, NEW todo,
         Goto(p, pc, todo), legacy' = legacy, StoreMoves,
         workers' \subseteq workers, RestRight', NamesKept',
         todo \subseteq Tasks(pc, run[p].raw, run[p].stale),
         CreditsAfter(pc, todo, run[p].raw)
  PROVE  IdentityInd'
<1> DEFINE r == [run[p] EXCEPT !.pc = pc, !.todo = todo, !.doing = NoKey, !.found = NoDoc,
                      !.number = 0]
<1>1. run[p] \in RunType /\ run \in [Processes -> RunType]
  BY DEF IdentityInd, IdentityTypes, RunRight
<1>2. todo \in SUBSET (Projects \cup (Groups \X (Subjects \cup {NoUser})))
  BY <1>1, TasksType DEF RunType
<1>3. r \in RunType
  <2>1. pc \in Pcs /\ 0 \in 0..MaxDocs
    BY BoundAssumption
  <2> QED BY ONLY <1>1, <1>2, <2>1 DEF RunType
<1>4. run' = [run EXCEPT ![p] = r]
  BY DEF Goto
<1>5. /\ run'[p].pc = pc /\ run'[p].todo = todo /\ run'[p].doing = NoKey
      /\ run'[p].found = NoDoc /\ run'[p].stale = run[p].stale
      /\ run'[p].raw = run[p].raw
  BY <1>1, <1>4 DEF RunType
<1>6. MemoryRight(p)'
  BY <1>5, MemoryKept DEF IdentityInd, IdentityTypes
<1>7. Tasks(run'[p].pc, run'[p].raw, run'[p].stale) = Tasks(pc, run[p].raw, run[p].stale)
  BY <1>5
<1>8. \A c, raw, stale : Tasks(c, raw, stale)' = Tasks(c, raw, stale)
  BY TasksStay
<1>9. ProcessRight(p)'
  BY <1>5, <1>8 DEF ProcessRight
<1>10. \A raw : WorkerKeys(raw)' = WorkerKeys(raw)
  BY LegacyFacts
<1>11. CreditsRight(p)'
  BY <1>5, <1>10 DEF CreditsRight, CreditsFor, CreditsAfter
<1> QED BY <1>3, <1>4, <1>6, <1>9, <1>11, Assemble

\* A process that ends, or is killed, forgets what it was doing.
LEMMA IdleKeeps ==
  ASSUME IdentityInd, NEW p \in Processes, run' = [run EXCEPT ![p] = Idle],
         legacy' = legacy, StoreMoves, workers' = workers, RestRight'
  PROVE  IdentityInd'
<1>1. Idle \in RunType
  BY BoundAssumption DEF Idle, RunType, Pcs
<1>2. run'[p] = Idle
  BY DEF IdentityInd, IdentityTypes, RunRight
<1>3. MemoryRight(p)'
  BY <1>2 DEF MemoryRight, Idle, Seen, OldestOf
<1>4. ProcessRight(p)'
  BY <1>2 DEF ProcessRight, Idle
<1>5. CreditsRight(p)'
  BY <1>2 DEF CreditsRight, CreditsFor, Idle, Reading
<1>6. NamesKept'
  BY NamesStay DEF IdentityInd
<1> QED BY <1>1, <1>3, <1>4, <1>5, <1>6, Assemble

\* Nobody moves, and the documents and the legacy fields stay.
LEMMA StillKeeps ==
  ASSUME IdentityInd, run' = run, legacy' = legacy, UNCHANGED <<store, workers>>, RestRight'
  PROVE  IdentityInd'
<1>1. StoreMoves
  BY StoreStays DEF IdentityInd, IdentityTypes
<1>2. NamesKept'
  BY <1>1, NamesStay DEF IdentityInd
<1>3. \A p \in Processes : ProcessRight(p)'
  BY ProcessKept DEF IdentityInd, IdentityTypes, RunRight
<1>4. \A p \in Processes : MemoryRight(p)'
  <2> TAKE p \in Processes
  <2>1. run'[p].stale = run[p].stale /\ run'[p].found \in {NoDoc, run[p].found}
    OBVIOUS
  <2> QED BY <1>1, <2>1, MemoryKept DEF IdentityInd, IdentityTypes
<1>5. \A p \in Processes : CreditsRight(p)'
  BY <1>1, CreditsKept DEF IdentityInd
<1> QED BY <1>1, <1>2, <1>3, <1>4, <1>5 DEF IdentityInd, IdentityTypes, RunRight, StoreMoves

(* ------------------------- what is wanted of a member ----------------- *)

Marks == {"creator", "admin", "member", "translator", "credited"}
Standings == {"active", "invited", "removed"}

LEMMA BestIs ==
  ASSUME NEW S \in SUBSET Standings, S # {}
  PROVE  Best(S) \in S
<1>1. \E s \in S : \A t \in S : Rank(s) >= Rank(t)
  <2>1. Rank("active") = 2 /\ Rank("invited") = 1 /\ Rank("removed") = 0
    BY DEF Rank
  <2>2. CASE "active" \in S
    BY <2>1, <2>2 DEF Standings
  <2>3. CASE "active" \notin S /\ "invited" \in S
    BY <2>1, <2>3 DEF Standings
  <2>4. CASE S = {"removed"}
    BY <2>1, <2>4
  <2> QED BY <2>2, <2>3, <2>4 DEF Standings
<1> QED BY <1>1 DEF Best

LEMMA ProjectedIs ==
  ASSUME RestRight, NEW g \in Projects, NEW u \in Users, NEW m \in Projected(g, u)
  PROVE  m.tags \subseteq Marks /\ m.status \in Standings
<1>1. CASE RelationTags(g, u) # {}
  <2>1. RelationTags(g, u) \subseteq Relations
    BY DEF RestRight, LegacyStates, RelationTags, Groups
  <2>2. m = [tags |-> RelationTags(g, u) \ {"unmapped"}, status |-> "active"]
    BY <1>1 DEF Projected
  <2> QED BY <2>1, <2>2 DEF Relations, Marks, Standings
<1>2. CASE RelationTags(g, u) = {}
  <2>1. legacy.events[g][u] \in Seq(Events)
    BY DEF RestRight, LegacyStates
  <2>2. legacy.events[g][u] # <<>> /\ m = [tags |-> {}, status |-> EventStatus(LastEvent(g, u))]
    BY <1>2 DEF Projected, FromEvents
  <2>3. LastEvent(g, u) \in Events
    BY <2>1, <2>2 DEF LastEvent
  <2>4. EventStatus(LastEvent(g, u)) \in Standings
    BY <2>3 DEF EventStatus, Events, Standings
  <2> QED BY <2>2, <2>4
<1> QED BY <1>1, <1>2

\* What a process wants of the subject it is at.
LEMMA DesiredIs ==
  ASSUME IdentityInd, NEW p \in Processes, run[p].pc \in Finding, run[p].doing # NoKey
  PROVE  LET k == run[p].doing
             m == Desired(p, k)
         IN  /\ k \in Keys /\ m.tags \subseteq Marks /\ m.status \in Standings
             /\ k[2] \in Names => m.status = "active"
<1> DEFINE k == run[p].doing
           m == Desired(p, k)
<1>1. ProcessRight(p) /\ run[p] \in RunType /\ RestRight
  BY DEF IdentityInd, IdentityTypes, RunRight
<1>2. k \in Keys
  BY <1>1 DEF RunType
<1>3. run[p].pc # "owner" => k \in Tasks(run[p].pc, run[p].raw, run[p].stale)
  BY <1>1 DEF ProcessRight, Finding
<1>4. CASE run[p].pc = "members"
  <2>1. k \in MemberKeys
    BY <1>3, <1>4 DEF Tasks
  <2>2. k[1] \in Projects /\ k[2] \in Users /\ m \in Projected(k[1], k[2])
    BY <2>1, <1>4 DEF MemberKeys, Desired
  <2>3. k[2] \notin Names
    BY <2>2, UserAssumption
  <2> QED BY <1>1, <1>2, <2>2, <2>3, ProjectedIs
<1>5. CASE run[p].pc = "external"
  BY <1>2, <1>5 DEF Desired, Marks, Standings
<1>6. CASE run[p].pc = "owner"
  BY <1>2, <1>6 DEF Desired, Marks, Standings
<1>7. CASE run[p].pc = "team"
  <2>1. m = [tags |-> Highest(RelationTags(Team, k[2])), status |-> "active"]
    BY <1>7 DEF Desired
  <2>2. m.tags \subseteq Marks
    BY <2>1, TagFacts DEF Marks
  <2> QED BY <1>2, <2>1, <2>2 DEF Standings
<1> QED BY <1>4, <1>5, <1>6, <1>7 DEF Finding

LEMMA UpsertedIs ==
  ASSUME NEW old \in DocumentState, NameActive(old), NEW wanted,
         wanted.tags \subseteq Marks, wanted.status \in Standings
  PROVE  LET new == Upserted(old, wanted)
         IN  /\ new \in DocumentState /\ new.id = old.id /\ KeyOf(new) = KeyOf(old)
             /\ NameActive(new)
<1> DEFINE tags == United(old.group, old.tags \cup wanted.tags)
           st == IF old.group = Team THEN old.status ELSE NewStatus(old, wanted)
<1>1. tags \in SUBSET Marks
  BY TagFacts DEF United, DocumentState, Marks
<1>2. st \in Standings /\ (old.status = "active" => st = "active")
  BY DEF NewStatus, DocumentState, Standings
<1>3. Upserted(old, wanted) = [old EXCEPT !.tags = tags, !.status = st]
  BY DEF Upserted
<1> HIDE DEF tags, st
<1> QED BY <1>1, <1>2, <1>3 DEF DocumentState, Marks, Standings, KeyOf, NameActive

LEMMA MergedIs ==
  ASSUME NEW ds \in SUBSET DocumentState, NEW k, ds # {}, OldestOf(ds),
         \A d \in ds : KeyOf(d) = k /\ NameActive(d)
  PROVE  LET old == Oldest(ds)
             new == Merged(ds)
         IN  /\ old \in ds /\ new \in DocumentState /\ new.id = old.id
             /\ KeyOf(new) = KeyOf(old) /\ NameActive(new)
<1> DEFINE old == Oldest(ds)
           tags == United(old.group, UNION {d.tags : d \in ds})
           S == {d.status : d \in ds}
           st == Best(S)
<1>1. old \in ds
  BY OldestIs
<1>2. UNION {d.tags : d \in ds} \in SUBSET Marks
  BY DEF DocumentState, Marks
<1>3. tags \in SUBSET Marks
  BY <1>2, TagFacts DEF United, Marks
<1>4. S \in SUBSET Standings /\ S # {}
  BY DEF DocumentState, Standings
<1>5. st \in S
  BY <1>4, BestIs
<1>6. old.subject \in Names => S = {"active"}
  BY <1>1 DEF NameActive, KeyOf
<1>7. Merged(ds) = [old EXCEPT !.tags = tags, !.status = st]
  BY DEF Merged
<1>8. old \in DocumentState /\ st \in Standings /\ (old.subject \in Names => st = "active")
  BY <1>1, <1>4, <1>5, <1>6
<1> HIDE DEF old, tags, S, st
<1>9. LET new == Merged(ds)
      IN  /\ new \in DocumentState /\ new.id = old.id
          /\ KeyOf(new) = KeyOf(old) /\ NameActive(new)
  BY <1>3, <1>7, <1>8 DEF DocumentState, Marks, Standings, KeyOf, NameActive
<1> QED BY <1>1, <1>9 DEF old

(* ------------------------- writes of the documents -------------------- *)

LEMMA PlaceFacts ==
  ASSUME IdentityInd, NEW p \in Processes
  PROVE  /\ run[p] \in RunType /\ run \in [Processes -> RunType]
         /\ ProcessRight(p) /\ MemoryRight(p) /\ CreditsRight(p)
         /\ DocsRight /\ RestRight /\ NamesKept
BY DEF IdentityInd, IdentityTypes, RunRight

LEMMA FirstIs ==
  ASSUME NEW todo, todo # {}
  PROVE  First(todo) \in todo
BY DEF First

\* A subject that is being merged has documents that were read.
LEMMA SeenSome ==
  ASSUME IdentityInd, NEW p \in Processes, run[p].pc = "merge", NEW k \in run[p].todo
  PROVE  /\ k \in Keys /\ Seen(p, k) # {} /\ OldestOf(Seen(p, k))
         /\ Seen(p, k) \in SUBSET DocumentState
         /\ \A d \in Seen(p, k) : Remembered(d) /\ KeyOf(d) = k /\ NameActive(d)
<1>1. k \in {KeyOf(d) : d \in run[p].stale} /\ run[p].stale \in SUBSET DocumentState
  BY PlaceFacts DEF ProcessRight, Tasks, RunType
<1>2. PICK d \in run[p].stale : k = KeyOf(d)
  BY <1>1
<1>3. k \in Keys
  BY <1>1, <1>2, IdFacts
<1>4. d \in Seen(p, k)
  BY <1>2 DEF Seen, KeyOf
<1>5. \A e \in Seen(p, k) : e \in run[p].stale /\ KeyOf(e) = k
  BY DEF Seen, KeyOf
<1>6. \A e \in Seen(p, k) : Remembered(e) /\ NameActive(e)
  BY <1>5, PlaceFacts DEF MemoryRight, Remembered
<1>7. OldestOf(Seen(p, k))
  BY <1>3, PlaceFacts DEF MemoryRight
<1> QED BY <1>1, <1>3, <1>4, <1>5, <1>6, <1>7

LEMMA MergeStore ==
  ASSUME IdentityInd, NEW p \in Processes, MergeDocuments(p)
  PROVE  StoreMoves /\ First(run[p].todo) \in run[p].todo
<1> DEFINE k == First(run[p].todo)
           old == Oldest(Seen(p, k))
           new == Merged(Seen(p, k))
<1>1. run[p].pc = "merge" /\ k \in run[p].todo /\ Update(old, new) /\ made' = made
  BY FirstIs DEF MergeDocuments, At
<1>2. /\ Seen(p, k) # {} /\ OldestOf(Seen(p, k)) /\ Seen(p, k) \in SUBSET DocumentState
      /\ \A d \in Seen(p, k) : Remembered(d) /\ KeyOf(d) = k /\ NameActive(d)
  BY <1>1, SeenSome
<1>3. /\ old \in Seen(p, k) /\ new \in DocumentState /\ new.id = old.id
      /\ KeyOf(new) = KeyOf(old) /\ NameActive(new)
  BY <1>2, MergedIs
<1>4. Remembered(old) /\ DocsRight
  BY <1>2, <1>3, PlaceFacts
<1> HIDE DEF old, new
<1> QED BY <1>1, <1>3, <1>4, UpdateMoves

LEMMA DropStore ==
  ASSUME IdentityInd, NEW p \in Processes, DropDuplicates(p)
  PROVE  StoreMoves /\ run[p].doing \in run[p].todo
<1> DEFINE k == run[p].doing
<1>1. run[p].pc = "merge" /\ k # NoKey /\ made' = made
      /\ docs' = {d \in docs : \A e \in Surplus(Seen(p, k)) : d.id # e.id}
  BY DEF DropDuplicates
<1>2. k \in run[p].todo
  BY <1>1, PlaceFacts DEF ProcessRight
<1>3. k \in Keys /\ Seen(p, k) # {}
  BY <1>1, <1>2, SeenSome
<1> QED BY <1>1, <1>2, <1>3, PlaceFacts, DropMoves

\* After a document was inserted for the subject, or found, it has one.
LEMMA InsertStore ==
  ASSUME IdentityInd, NEW p \in Processes, InsertMember(p), ~(indexed /\ Holding(run[p].doing) # {})
  PROVE  StoreMoves /\ \A j : j = run[p].doing => Held(j)'
<1> DEFINE k == run[p].doing
           m == Desired(p, k)
           new == [id |-> made + 1, group |-> k[1], subject |-> k[2], tags |-> m.tags,
                   status |-> m.status]
<1>1. /\ run[p].pc \in Finding /\ k # NoKey /\ made < MaxDocs
      /\ docs' = docs \cup {new} /\ made' = made + 1
  BY DEF InsertMember, Finding
<1>2. k \in Keys /\ m.tags \subseteq Marks /\ m.status \in Standings
      /\ (k[2] \in Names => m.status = "active")
  BY <1>1, DesiredIs
<1>3. DocsRight
  BY PlaceFacts
<1>4. k[1] \in Groups /\ k[2] \in Subjects /\ k = <<k[1], k[2]>>
  BY <1>2 DEF Keys
<1>5. made + 1 \in 1..MaxDocs
  BY <1>1, <1>3, BoundAssumption DEF DocsRight
<1> HIDE DEF m, k
<1>6. new \in DocumentState /\ NameActive(new) /\ KeyOf(new) = k /\ new.id = made + 1
  BY <1>2, <1>4, <1>5 DEF DocumentState, NameActive, KeyOf, Marks, Standings
<1> HIDE DEF new
<1>7. StoreMoves
  BY <1>1, <1>3, <1>6, InsertMoves
<1>8. new \in docs'
  BY <1>1
<1>9. \A j : j = k => Held(j)'
  BY <1>6, <1>8 DEF Held, KeyOf
<1> QED BY <1>7, <1>9 DEF k

LEMMA UpdateStore ==
  ASSUME IdentityInd, NEW p \in Processes, UpdateMember(p)
  PROVE  StoreMoves /\ \A j : j = run[p].doing => Held(j)'
<1> DEFINE k == run[p].doing
           m == Desired(p, k)
           old == run[p].found
           new == Upserted(old, m)
<1>1. /\ run[p].pc \in Finding /\ k # NoKey /\ old # NoDoc
      /\ Update(old, new) /\ made' = made
  BY DEF UpdateMember, Finding
<1>2. m.tags \subseteq Marks /\ m.status \in Standings
  BY <1>1, DesiredIs
<1>3. Remembered(old) /\ KeyOf(old) = k /\ DocsRight
  BY <1>1, PlaceFacts DEF MemoryRight, ProcessRight
<1>4. old \in DocumentState /\ NameActive(old)
  BY <1>3 DEF Remembered
<1> HIDE DEF m, old
<1>5. /\ new \in DocumentState /\ new.id = old.id /\ KeyOf(new) = KeyOf(old)
      /\ NameActive(new)
  BY <1>2, <1>4, UpsertedIs
<1> HIDE DEF new
<1>6. StoreMoves
  BY <1>1, <1>3, <1>5, UpdateMoves
<1>7. Held(k)
  BY <1>3 DEF Remembered, Held
<1> HIDE DEF k
<1>8. \A j : j = k => Held(j)'
  BY <1>6, <1>7, HeldKept
<1> QED BY <1>6, <1>8 DEF k

(* ------------------------------- the steps ---------------------------- *)

LEMMA RestStays ==
  ASSUME RestRight, UNCHANGED <<legacy, fields, outcome, lock, faults>>
  PROVE  RestRight'
BY DEF RestRight, fields, outcome, faults

\* What a process has seen of the credits is still so after its step.
LEMMA CreditsStay ==
  ASSUME IdentityInd, StoreMoves, workers' \subseteq workers, NEW p \in Processes
  PROVE  CreditsAfter(run[p].pc, run[p].todo, run[p].raw)
BY PlaceFacts, HeldKept DEF CreditsRight, CreditsFor, CreditsAfter

LEMMA IdleType == Idle \in RunType
<1>1. 0 \in 0..MaxDocs
  BY BoundAssumption
<1>2. [g \in Projects |-> NoUser] \in [Projects -> Users \cup {NoUser}]
  OBVIOUS
<1> QED BY <1>1, <1>2 DEF RunType, Idle, Pcs

LEMMA StartKeeps ==
  ASSUME IdentityInd, NEW p \in Processes, Start(p)
  PROVE  IdentityInd'
<1> DEFINE r == [Idle EXCEPT !.pc = "merge", !.stale = docs,
                             !.todo = {<<d.group, d.subject>> : d \in docs}]
<1>1. /\ run' = [run EXCEPT ![p] = r] /\ legacy' = legacy /\ workers' = workers
      /\ docs' = docs /\ StoreMoves /\ lock' = p
  BY PlaceFacts, StoreStays DEF Start, fields, store
<1>2. docs \subseteq DocumentState /\ \A d \in docs : <<d.group, d.subject>> \in Keys
  BY PlaceFacts, IdFacts DEF DocsRight, KeyOf
<1>3. {<<d.group, d.subject>> : d \in docs} \in
        SUBSET (Projects \cup (Groups \X (Subjects \cup {NoUser})))
  BY <1>2 DEF Keys
<1>4. r \in RunType
  <2> DEFINE todo == {<<d.group, d.subject>> : d \in docs}
  <2>1. /\ "merge" \in Pcs /\ todo \in SUBSET (Projects \cup (Groups \X (Subjects \cup {NoUser})))
        /\ docs \in SUBSET DocumentState
    BY <1>2, <1>3 DEF Pcs
  <2>2. Idle \in RunType
    BY IdleType
  <2>3. r = [Idle EXCEPT !.pc = "merge", !.stale = docs, !.todo = todo]
    OBVIOUS
  <2> HIDE DEF todo, r
  <2> QED BY ONLY <2>1, <2>2, <2>3 DEF RunType
<1>5. run'[p] = r
  BY <1>1, PlaceFacts
<1>6. r.pc = "merge" /\ r.stale = docs /\ r.doing = NoKey /\ r.found = NoDoc
      /\ r.todo = {<<d.group, d.subject>> : d \in docs}
  BY DEF Idle
<1> HIDE DEF r
<1>7. MemoryRight(p)'
  <2>1. \A d \in docs : Remembered(d)'
    BY <1>1, PlaceFacts, ReadNow, RememberedKept
  <2>2. \A k : Seen(p, k)' = Holding(k)
    BY <1>5, <1>6 DEF Seen, Holding
  <2>3. \A k \in Keys : OldestOf(Seen(p, k))'
    BY <2>2, PlaceFacts DEF DocsRight, OldestOf
  <2>4. \A d, e \in docs : d.id = e.id => d = e
    BY PlaceFacts DEF DocsRight
  <2> QED BY <2>1, <2>3, <2>4, <1>5, <1>6 DEF MemoryRight, Remembered, KeyOf
<1>8. ProcessRight(p)'
  BY <1>5, <1>6 DEF ProcessRight, Tasks, KeyOf
<1>9. CreditsRight(p)'
  BY <1>5, <1>6 DEF CreditsRight, CreditsFor, Reading
<1>10. RestRight'
  BY <1>1, PlaceFacts DEF RestRight, Start, fields, outcome, faults
<1>11. NamesKept'
  BY <1>1, PlaceFacts, NamesStay
<1> QED BY <1>1, <1>4, <1>7, <1>8, <1>9, <1>10, <1>11, Assemble

LEMMA DieKeeps ==
  ASSUME IdentityInd, NEW p \in Processes, Die(p)
  PROVE  IdentityInd'
<1>1. StoreMoves /\ workers' = workers
  BY PlaceFacts, StoreStays DEF Die, fields
<1>2. RestRight'
  BY PlaceFacts DEF Die, RestRight, fields, outcome
<1> QED BY <1>1, <1>2, IdleKeeps DEF Die

LEMMA LeaseKeeps ==
  ASSUME IdentityInd, ExpireLease \/ Overrun
  PROVE  IdentityInd'
<1>1. RestRight'
  BY DEF IdentityInd, IdentityTypes, RestRight, ExpireLease, Overrun, fields, outcome, faults
<1>2. run' = run /\ legacy' = legacy /\ UNCHANGED <<store, workers>>
  BY DEF ExpireLease, Overrun, fields
<1> QED BY <1>1, <1>2, StillKeeps

LEMMA MergeKeeps ==
  ASSUME IdentityInd, NEW p \in Processes, MergeDocuments(p)
  PROVE  IdentityInd'
<1> DEFINE k == First(run[p].todo)
           r == [run[p] EXCEPT !.doing = k]
<1>1. /\ StoreMoves /\ k \in run[p].todo /\ legacy' = legacy /\ workers' = workers
      /\ run[p].pc = "merge" /\ run' = [run EXCEPT ![p].doing = k]
  BY MergeStore DEF MergeDocuments, At, fields
<1>2. k \in Keys
  BY <1>1, SeenSome
<1> HIDE DEF k
<1>3. r \in RunType /\ run' = [run EXCEPT ![p] = r]
  BY <1>1, <1>2, PlaceFacts DEF RunType
<1>4. /\ run'[p].pc = "merge" /\ run'[p].doing = k /\ run'[p].found = run[p].found
      /\ run'[p].todo = run[p].todo /\ run'[p].stale = run[p].stale
      /\ run'[p].raw = run[p].raw
  BY <1>1, <1>3, PlaceFacts DEF RunType
<1> HIDE DEF r
<1>5. MemoryRight(p)'
  BY <1>1, <1>4, PlaceFacts, MemoryKept
<1>6. ProcessRight(p)'
  BY <1>1, <1>4, PlaceFacts DEF ProcessRight, Tasks, Finding, KeyOf
<1>7. CreditsRight(p)'
  BY <1>4 DEF CreditsRight, CreditsFor, Reading
<1>8. RestRight'
  BY PlaceFacts, RestStays DEF MergeDocuments
<1>9. NamesKept'
  BY <1>1, PlaceFacts, NamesStay
<1> QED BY <1>1, <1>3, <1>5, <1>6, <1>7, <1>8, <1>9, Assemble

LEMMA DropKeeps ==
  ASSUME IdentityInd, NEW p \in Processes, DropDuplicates(p)
  PROVE  IdentityInd'
<1> DEFINE todo == run[p].todo \ {run[p].doing}
<1>1. /\ StoreMoves /\ legacy' = legacy /\ workers' = workers
      /\ run[p].pc = "merge" /\ Goto(p, "merge", todo)
  BY DropStore DEF DropDuplicates, fields
<1>2. todo \subseteq Tasks("merge", run[p].raw, run[p].stale)
  BY <1>1, PlaceFacts DEF ProcessRight
<1> HIDE DEF todo
<1>3. CreditsAfter("merge", todo, run[p].raw)
  BY DEF CreditsAfter, Reading
<1>4. RestRight' /\ NamesKept'
  BY <1>1, PlaceFacts, RestStays, NamesStay DEF DropDuplicates
<1>5. "merge" \in Pcs \ {"bound", "counted"}
  BY DEF Pcs
<1> QED BY <1>1, <1>2, <1>3, <1>4, <1>5, GotoKeeps

LEMMA ReadKeeps ==
  ASSUME IdentityInd, NEW p \in Processes, ReadLegacy(p)
  PROVE  IdentityInd'
<1> DEFINE r == [run[p] EXCEPT !.pc = "members", !.todo = MemberKeys, !.stale = {},
                               !.owners = owner, !.raw = workers]
<1>1. /\ run[p].pc = "merge" /\ run[p].doing = NoKey /\ run' = [run EXCEPT ![p] = r]
      /\ legacy' = legacy /\ workers' = workers /\ StoreMoves
  BY PlaceFacts, StoreStays DEF ReadLegacy, At, fields
<1>2. MemberKeys \in SUBSET (Projects \cup (Groups \X (Subjects \cup {NoUser})))
  BY DEF MemberKeys, Groups, Subjects
<1>a. run[p] \in RunType /\ "members" \in Pcs /\ workers \in SUBSET Projects
      /\ owner \in [Projects -> Users \cup {NoUser}]
  BY PlaceFacts DEF RestRight, Pcs, Reading
<1> HIDE DEF MemberKeys
<1>3. r \in RunType
  BY ONLY <1>2, <1>a DEF RunType
<1>4. /\ run'[p].pc = "members" /\ run'[p].doing = NoKey /\ run'[p].found = NoDoc
      /\ run'[p].todo = MemberKeys /\ run'[p].stale = {} /\ run'[p].raw = workers
  BY <1>1, PlaceFacts DEF RunType, ProcessRight, Finding
<1> HIDE DEF r
<1>5. MemoryRight(p)'
  BY <1>4 DEF MemoryRight, Seen, OldestOf
<1>6. ProcessRight(p)'
  BY <1>1, <1>4, LegacyFacts DEF ProcessRight, Tasks
<1>7. CreditsRight(p)'
  BY <1>1, <1>4 DEF CreditsRight, CreditsFor
<1>8. RestRight' /\ NamesKept'
  BY <1>1, PlaceFacts, RestStays, NamesStay DEF ReadLegacy
<1> QED BY <1>1, <1>3, <1>5, <1>6, <1>7, <1>8, Assemble

\* A document found for a subject is one that is there.
LEMMA FoundIs ==
  ASSUME IdentityInd, NEW k, NEW found \in IF Holding(k) = {} THEN {NoDoc} ELSE Holding(k)
  PROVE  found # NoDoc => Remembered(found) /\ KeyOf(found) = k
<1>1. found # NoDoc => found \in docs /\ KeyOf(found) = k
  BY DEF Holding, KeyOf
<1> QED BY <1>1, ReadNow DEF IdentityInd, IdentityTypes

\* A process takes a subject and the document found for it.
Remembers(p, pc, k, found) ==
  /\ found \in IF Holding(k) = {} THEN {NoDoc} ELSE Holding(k)
  /\ run' = [run EXCEPT ![p] = [@ EXCEPT !.pc = pc, !.doing = k, !.found = found]]
LEMMA RememberKeeps ==
  ASSUME IdentityInd, NEW p \in Processes, NEW pc \in Finding, NEW k \in Keys,
         NEW found, Remembers(p, pc, k, found),
         run[p].pc # pc => run[p].pc = "bound" /\ pc = "owner",
         pc = "owner" => k \in Projects \X {Fallback},
         pc # "owner" => k \in run[p].todo,
         UNCHANGED <<legacy, store, fields, outcome, lock, faults>>
  PROVE  IdentityInd'
<1> DEFINE r == [run[p] EXCEPT !.pc = pc, !.doing = k, !.found = found]
<1>1. StoreMoves /\ workers' = workers
  BY PlaceFacts, StoreStays DEF fields
<1>2. found # NoDoc => Remembered(found) /\ KeyOf(found) = k
  BY FoundIs DEF Remembers
<1>3. found \in DocumentState \cup {NoDoc}
  BY <1>2 DEF Remembered
<1>a. run[p] \in RunType /\ pc \in Pcs
  BY PlaceFacts DEF Pcs, Reading, Finding
<1>4. r \in RunType
  BY ONLY <1>3, <1>a, k \in Keys DEF RunType
<1>5. /\ run'[p].pc = pc /\ run'[p].doing = k /\ run'[p].found = found
      /\ run'[p].todo = run[p].todo /\ run'[p].stale = run[p].stale
      /\ run'[p].raw = run[p].raw /\ run' = [run EXCEPT ![p] = r]
  BY PlaceFacts DEF RunType, Remembers
<1> HIDE DEF r
<1>6. MemoryRight(p)'
  <2>1. \A old \in run[p].stale : Remembered(old)'
    BY <1>1, PlaceFacts, RememberedKept DEF MemoryRight
  <2>2. \A old : old = found /\ old # NoDoc => Remembered(old)'
    BY <1>1, <1>2, PlaceFacts, RememberedKept
  <2>3. \A j \in Keys : Seen(p, j)' = Seen(p, j)
    BY <1>5 DEF Seen
  <2>4. \A j \in Keys : OldestOf(Seen(p, j))'
    BY <2>3, PlaceFacts DEF MemoryRight, OldestOf
  <2>5. \A d, e \in run[p].stale : d.id = e.id => d = e
    BY PlaceFacts DEF MemoryRight
  <2> QED BY <2>1, <2>2, <2>4, <2>5, <1>5 DEF MemoryRight, Remembered, KeyOf
<1>7. ProcessRight(p)'
  <2>1. run[p].todo \subseteq Tasks(pc, run[p].raw, run[p].stale)
    BY PlaceFacts DEF ProcessRight, Tasks
  <2>2. \A c, raw, stale : Tasks(c, raw, stale)' = Tasks(c, raw, stale)
    BY TasksStay
  <2>3. Fallback' = Fallback
    BY LegacyFacts
  <2>4. pc # "bound" /\ (pc # "owner" => pc \in {"members", "external", "team"})
    BY DEF Finding
  <2>5. run'[p].todo \subseteq Tasks(run[p].pc, run[p].raw, run[p].stale)' 
    BY <2>1, <2>2, <1>5
  <2>6. \/ pc \in {"merge", "members", "external", "team"} /\ k \in run[p].todo
        \/ pc \in {"owner", "bound"} /\ k \in Projects \X {Fallback'}
    BY <2>3, <2>4
  <2>7. found # NoDoc => pc \in Finding /\ k # NoKey /\ KeyOf(found) = k
    BY <1>2, IdFacts
  <2> QED BY ONLY <2>4, <2>5, <2>6, <2>7, <1>5 DEF ProcessRight, KeyOf
<1>8. CreditsRight(p)'
  <2>1. CreditsAfter(run[p].pc, run[p].todo, run[p].raw)
    BY <1>1, CreditsStay
  <2>2. \A raw : WorkerKeys(raw)' = WorkerKeys(raw)
    BY LegacyFacts
  <2>3. run[p].pc \in Reading
    BY DEF Finding, Reading
  <2> QED BY <2>1, <2>2, <2>3, <1>5 DEF CreditsRight, CreditsFor, CreditsAfter
<1>9. RestRight' /\ NamesKept'
  BY <1>1, PlaceFacts, RestStays, NamesStay
<1> QED BY <1>1, <1>4, <1>5, <1>6, <1>7, <1>8, <1>9, Assemble

LEMMA RememberFields ==
  ASSUME IdentityInd, NEW p \in Processes, NEW pc, NEW k, NEW found,
         Remembers(p, pc, k, found)
  PROVE  /\ run'[p].pc = pc /\ run'[p].doing = k /\ run'[p].found = found
         /\ run'[p].todo = run[p].todo /\ run'[p].stale = run[p].stale
         /\ run'[p].raw = run[p].raw /\ run'[p].owners = run[p].owners
         /\ run'[p].issues = run[p].issues
         /\ \A q \in Processes \ {p} : run'[q] = run[q]
BY PlaceFacts DEF RunType, Remembers

LEMMA MemberSought ==
  ASSUME IdentityInd, NEW p \in Processes, FindMember(p)
  PROVE  /\ run[p].pc \in {"members", "external", "team"} /\ run[p].doing = NoKey
         /\ run[p].todo # {}
         /\ UNCHANGED <<legacy, store, fields, outcome, lock, faults, marks>>
         /\ \E found, pc : pc = run[p].pc /\ Remembers(p, pc, First(run[p].todo), found)
<1> DEFINE k == First(run[p].todo)
<1>1. PICK found \in IF Holding(k) = {} THEN {NoDoc} ELSE Holding(k) :
        run' = [run EXCEPT ![p] = [@ EXCEPT !.doing = k, !.found = found]]
  BY Zenon DEF FindMember, Remember
<1> HIDE DEF k
<1>2. PICK pc : pc = run[p].pc
  OBVIOUS
<1>3. [run[p] EXCEPT !.doing = k, !.found = found] =
        [run[p] EXCEPT !.pc = pc, !.doing = k, !.found = found]
  BY <1>2, PlaceFacts DEF RunType
<1>4. Remembers(p, pc, k, found)
  BY <1>1, <1>3 DEF Remembers
<1>5. /\ run[p].pc \in {"members", "external", "team"} /\ run[p].doing = NoKey
      /\ run[p].todo # {}
      /\ UNCHANGED <<legacy, store, fields, outcome, lock, faults, marks>>
  BY Zenon DEF FindMember
<1> QED BY <1>2, <1>4, <1>5, Zenon DEF k

LEMMA FallbackSought ==
  ASSUME IdentityInd, NEW p \in Processes, FindFallback(p)
  PROVE  /\ run[p].pc = "bound" /\ \E found : Remembers(p, "owner", run[p].doing, found)
         /\ UNCHANGED <<legacy, store, fields, outcome, lock, faults, marks>>
<1> DEFINE k == run[p].doing
<1>1. PICK found \in IF Holding(k) = {} THEN {NoDoc} ELSE Holding(k) :
        run' = [run EXCEPT ![p] = [@ EXCEPT !.pc = "owner", !.found = found]]
  BY Zenon DEF FindFallback
<1>2. [run[p] EXCEPT !.pc = "owner", !.found = found] =
        [run[p] EXCEPT !.pc = "owner", !.doing = k, !.found = found]
  BY PlaceFacts DEF RunType
<1> HIDE DEF k
<1>3. Remembers(p, "owner", k, found)
  BY <1>1, <1>2 DEF Remembers
<1>4. run[p].pc = "bound" /\ UNCHANGED <<legacy, store, fields, outcome, lock, faults, marks>>
  BY Zenon DEF FindFallback
<1> QED BY <1>3, <1>4, Zenon DEF k

LEMMA FindKeeps ==
  ASSUME IdentityInd, NEW p \in Processes, FindMember(p)
  PROVE  IdentityInd'
<1> DEFINE k == First(run[p].todo)
<1>1. run[p].pc \in {"members", "external", "team"} /\ k \in run[p].todo
      /\ UNCHANGED <<legacy, store, fields, outcome, lock, faults>>
  BY FirstIs, MemberSought
<1>2. k \in Tasks(run[p].pc, run[p].raw, run[p].stale)
  BY <1>1, PlaceFacts DEF ProcessRight
<1>3. k \in Keys
  BY <1>1, <1>2, PlaceFacts, TasksType DEF RunType
<1>4. PICK found, pc : pc = run[p].pc /\ Remembers(p, pc, k, found)
  BY MemberSought
<1> HIDE DEF k
<1>5. pc \in Finding /\ pc # "owner" /\ run[p].pc = pc
  BY <1>1, <1>4 DEF Finding
<1> QED BY <1>1, <1>3, <1>4, <1>5, RememberKeeps

LEMMA FindFallbackKeeps ==
  ASSUME IdentityInd, NEW p \in Processes, FindFallback(p)
  PROVE  IdentityInd'
<1> DEFINE k == run[p].doing
<1>1. run[p].pc = "bound" /\ k \in Projects \X {Fallback}
      /\ UNCHANGED <<legacy, store, fields, outcome, lock, faults>>
  BY PlaceFacts, FallbackSought DEF ProcessRight
<1>2. k \in Keys
  BY <1>1, PlaceFacts, FallbackUser DEF Keys, Groups, Subjects
<1>3. PICK found : Remembers(p, "owner", k, found)
  BY FallbackSought
<1> HIDE DEF k
<1>4. "owner" \in Finding
  BY DEF Finding
<1> QED BY <1>1, <1>2, <1>3, <1>4, RememberKeeps

LEMMA InsertKeeps ==
  ASSUME IdentityInd, NEW p \in Processes, InsertMember(p)
  PROVE  IdentityInd'
<1>1. CASE indexed /\ Holding(run[p].doing) # {}
  <2>1. /\ run' = [run EXCEPT ![p] = Idle] /\ UNCHANGED <<legacy, store, fields, outcome, faults>>
        /\ lock' \in {lock, Free}
    BY <1>1 DEF InsertMember, Leave
  <2>2. StoreMoves /\ workers' = workers
    BY <2>1, PlaceFacts, StoreStays DEF fields
  <2>3. RestRight'
    BY <2>1, PlaceFacts DEF RestRight, fields, outcome, faults
  <2> QED BY <2>1, <2>2, <2>3, IdleKeeps
<1>2. CASE ~(indexed /\ Holding(run[p].doing) # {})
  <2> DEFINE todo == run[p].todo \ {run[p].doing}
  <2>1. /\ StoreMoves /\ \A j : j = run[p].doing => Held(j)'
    BY <1>2, InsertStore
  <2>2. /\ run[p].pc \in Finding /\ Goto(p, run[p].pc, todo)
        /\ UNCHANGED <<legacy, fields, outcome, lock, faults>>
    BY <1>2 DEF InsertMember, Finding
  <2>3. todo \subseteq Tasks(run[p].pc, run[p].raw, run[p].stale)
    BY PlaceFacts DEF ProcessRight
  <2>4. workers' = workers /\ legacy' = legacy
    BY <2>2 DEF fields
  <2>5. RestRight' /\ NamesKept'
    BY <2>1, <2>2, <2>4, PlaceFacts, RestStays, NamesStay
  <2>6. run[p].pc \in Pcs \ {"bound", "counted"}
    BY <2>2 DEF Pcs, Reading, Finding
  <2>7. CreditsAfter(run[p].pc, todo, run[p].raw)
    BY <2>1, <2>4, CreditsStay DEF CreditsAfter
  <2> HIDE DEF todo
  <2> QED BY <2>1, <2>2, <2>3, <2>4, <2>5, <2>6, <2>7, GotoKeeps
<1> QED BY <1>1, <1>2

LEMMA UpdateKeeps ==
  ASSUME IdentityInd, NEW p \in Processes, UpdateMember(p)
  PROVE  IdentityInd'
<1> DEFINE todo == run[p].todo \ {run[p].doing}
<1>1. StoreMoves /\ \A j : j = run[p].doing => Held(j)'
  BY UpdateStore
<1>2. /\ run[p].pc \in Finding /\ Goto(p, run[p].pc, todo)
      /\ UNCHANGED <<legacy, fields, outcome, lock, faults>>
  BY DEF UpdateMember, Finding
<1>3. todo \subseteq Tasks(run[p].pc, run[p].raw, run[p].stale)
  BY PlaceFacts DEF ProcessRight
<1>4. workers' = workers /\ legacy' = legacy
  BY <1>2 DEF fields
<1>5. RestRight' /\ NamesKept'
  BY <1>1, <1>2, <1>4, PlaceFacts, RestStays, NamesStay
<1>6. run[p].pc \in Pcs \ {"bound", "counted"}
  BY <1>2 DEF Pcs, Reading, Finding
<1>7. CreditsAfter(run[p].pc, todo, run[p].raw)
  BY <1>1, <1>4, CreditsStay DEF CreditsAfter
<1> HIDE DEF todo
<1> QED BY <1>1, <1>2, <1>3, <1>4, <1>5, <1>6, <1>7, GotoKeeps

\* A process goes on without a write of the documents or of the credits.
LEMMA MoveKeeps ==
  ASSUME IdentityInd, NEW p \in Processes, NEW pc \in Pcs \ {"bound", "counted"}, NEW todo,
         Goto(p, pc, todo), UNCHANGED <<legacy, store, workers>>, RestRight',
         run[p].pc \in Reading, todo \subseteq Tasks(pc, run[p].raw, run[p].stale),
         pc = "external" => \A k \in WorkerKeys(run[p].raw) \ todo : Held(k),
         pc \in {"owner", "bound", "team", "recount", "counted"} =>
           \A k \in WorkerKeys(run[p].raw) : Held(k)
  PROVE  IdentityInd'
<1>1. StoreMoves
  BY PlaceFacts, StoreStays
<1>2. workers' \subseteq run[p].raw
  BY PlaceFacts DEF CreditsRight, CreditsFor
<1>3. CreditsAfter(pc, todo, run[p].raw)
  BY <1>1, <1>2, HeldKept DEF CreditsAfter
<1>4. NamesKept'
  BY <1>1, PlaceFacts, NamesStay
<1> QED BY <1>1, <1>3, <1>4, GotoKeeps

LEMMA MembersDone ==
  ASSUME IdentityInd, NEW p \in Processes, FinishMembers(p)
  PROVE  IdentityInd'
<1>1. /\ run[p].pc = "members" /\ Goto(p, "status", Projects)
      /\ UNCHANGED <<legacy, store, fields, outcome, lock, faults>>
  BY DEF FinishMembers, At
<1>2. RestRight' /\ UNCHANGED workers
  BY <1>1, PlaceFacts, RestStays DEF fields
<1>3. Projects \subseteq Tasks("status", run[p].raw, run[p].stale)
  BY DEF Tasks
<1>4. "status" \in Pcs \ {"bound", "counted"} /\ run[p].pc \in Reading
  BY <1>1 DEF Pcs, Reading
<1> QED BY <1>1, <1>2, <1>3, <1>4, MoveKeeps

LEMMA StatusKeeps ==
  ASSUME IdentityInd, NEW p \in Processes, MigrateStatus(p)
  PROVE  IdentityInd'
<1> DEFINE g == First(run[p].todo)
<1>1. /\ run[p].pc = "status" /\ g \in run[p].todo
      /\ status' = [status EXCEPT ![g] = Normal(@)]
      /\ UNCHANGED <<legacy, store, owner, workers, count, policy, outcome, lock, faults>>
      /\ IF run[p].todo = {g} THEN Goto(p, "external", WorkerKeys(run[p].raw))
                              ELSE Goto(p, "status", run[p].todo \ {g})
  BY FirstIs DEF MigrateStatus, At
<1>2. run[p].todo \subseteq Projects
  BY <1>1, PlaceFacts DEF ProcessRight, Tasks
<1>3. RestRight'
  <2>1. \A s \in {"NORMAL", "CLEARED", "COMPLETED", "FINISH_PLAN"} :
          Normal(s) \in {"NORMAL", "CLEARED", "COMPLETED", "FINISH_PLAN"}
    BY DEF Normal
  <2>2. status' \in [Projects -> {"NORMAL", "CLEARED", "COMPLETED", "FINISH_PLAN"}]
    BY <1>1, <2>1, PlaceFacts DEF RestRight
  <2> QED BY <1>1, <2>2, PlaceFacts DEF RestRight, outcome, faults
<1>4. "external" \in Pcs \ {"bound", "counted"} /\ "status" \in Pcs \ {"bound", "counted"} /\ run[p].pc \in Reading
  BY <1>1 DEF Pcs, Reading
<1>5. /\ WorkerKeys(run[p].raw) \subseteq Tasks("external", run[p].raw, run[p].stale)
      /\ run[p].todo \ {g} \subseteq Tasks("status", run[p].raw, run[p].stale)
  BY <1>2 DEF Tasks
<1> HIDE DEF g
<1>6. UNCHANGED <<legacy, store, workers>>
  BY <1>1
<1>7. CASE run[p].todo = {g}
  <2>1. Goto(p, "external", WorkerKeys(run[p].raw))
    BY <1>1, <1>7
  <2> QED BY <1>3, <1>4, <1>5, <1>6, <2>1, MoveKeeps
<1>8. CASE run[p].todo # {g}
  <2>1. Goto(p, "status", run[p].todo \ {g})
    BY <1>1, <1>8
  <2> QED BY <1>3, <1>4, <1>5, <1>6, <2>1, MoveKeeps
<1> QED BY <1>7, <1>8

LEMMA ExternalDone ==
  ASSUME IdentityInd, NEW p \in Processes, FinishExternal(p)
  PROVE  IdentityInd'
<1>1. /\ run[p].pc = "external" /\ run[p].todo = {} /\ Goto(p, "owner", Projects \X {NoUser})
      /\ UNCHANGED <<legacy, store, fields, outcome, lock, faults>>
  BY DEF FinishExternal, At
<1>2. RestRight' /\ UNCHANGED workers
  BY <1>1, PlaceFacts, RestStays DEF fields
<1>3. Projects \X {NoUser} \subseteq Tasks("owner", run[p].raw, run[p].stale)
  BY DEF Tasks
<1>4. "owner" \in Pcs \ {"bound", "counted"} /\ run[p].pc \in Reading
  BY <1>1 DEF Pcs, Reading
<1>5. \A k \in WorkerKeys(run[p].raw) : Held(k)
  BY <1>1, PlaceFacts DEF CreditsRight, CreditsFor
<1> QED BY <1>1, <1>2, <1>3, <1>4, <1>5, MoveKeeps

\* Whoever is at the owners keeps its place there, or binds the fallback.
LEMMA OwnerKeeps ==
  ASSUME IdentityInd, NEW p \in Processes, run[p].pc = "owner", run[p].doing = NoKey,
         NEW r \in RunType, run' = [run EXCEPT ![p] = r], r.raw = run[p].raw,
         r.stale = run[p].stale, r.found = run[p].found, r.todo \subseteq run[p].todo,
         \/ r.pc = "owner" /\ r.doing = NoKey
         \/ r.pc = "bound" /\ r.doing # NoKey /\ r.doing \in Projects \X {Fallback},
         UNCHANGED <<legacy, store, workers>>, RestRight'
  PROVE  IdentityInd'
<1>1. StoreMoves /\ run'[p] = r
  BY PlaceFacts, StoreStays
<1>2. run[p].found = NoDoc
  BY PlaceFacts DEF ProcessRight
<1>3. MemoryRight(p)'
  BY <1>1, PlaceFacts, MemoryKept
<1>4. ProcessRight(p)'
  <2>1. r.todo \subseteq Projects \X {NoUser}
    BY PlaceFacts DEF ProcessRight, Tasks
  <2> QED BY <1>1, <1>2, <2>1, LegacyFacts DEF ProcessRight, Tasks
<1>5. CreditsRight(p)'
  <2>1. CreditsAfter("owner", run[p].todo, run[p].raw)
    BY <1>1, CreditsStay
  <2>2. \A raw : WorkerKeys(raw)' = WorkerKeys(raw)
    BY LegacyFacts
  <2> QED BY <1>1, <2>1, <2>2 DEF CreditsRight, CreditsFor, CreditsAfter, Reading
<1>6. NamesKept'
  BY <1>1, PlaceFacts, NamesStay
<1> QED BY <1>1, <1>3, <1>4, <1>5, <1>6, Assemble

LEMMA KeepOwnerKeeps ==
  ASSUME IdentityInd, NEW p \in Processes, KeepOwner(p)
  PROVE  IdentityInd'
<1> DEFINE k == First(run[p].todo)
           q == Questionable(k[1], run[p].owners[k[1]])
           r == [run[p] EXCEPT !.todo = @ \ {k}, !.issues = @ \/ q]
<1>a. /\ run[p].pc = "owner" /\ run[p].doing = NoKey
      /\ UNCHANGED <<legacy, store, fields, outcome, lock, faults>>
  BY DEF KeepOwner, At
<1>b. run' = [run EXCEPT ![p] = r]
  BY Zenon DEF KeepOwner
<1>1. /\ run[p].pc = "owner" /\ run[p].doing = NoKey /\ run' = [run EXCEPT ![p] = r]
      /\ UNCHANGED <<legacy, store, fields, outcome, lock, faults>>
  BY <1>a, <1>b
<1>2. q \in BOOLEAN
  BY DEF Questionable
<1> HIDE DEF q, k
<1>3. run[p] \in RunType
  BY PlaceFacts
<1>4. r \in RunType
  BY ONLY <1>2, <1>3 DEF RunType
<1>5. /\ r.raw = run[p].raw /\ r.stale = run[p].stale /\ r.found = run[p].found
      /\ r.todo \subseteq run[p].todo /\ r.pc = "owner" /\ r.doing = NoKey
  BY <1>1, <1>3 DEF RunType
<1>6. RestRight' /\ UNCHANGED <<legacy, store, workers>>
  BY <1>1, PlaceFacts, RestStays DEF fields
<1> HIDE DEF r
<1> QED BY <1>1, <1>4, <1>5, <1>6, OwnerKeeps

LEMMA CandidateKeeps ==
  ASSUME IdentityInd, NEW p \in Processes, BindCandidate(p)
  PROVE  IdentityInd'
<1> DEFINE k == First(run[p].todo)
           u == CHOOSE c \in Candidates(k[1]) : TRUE
<1>1. /\ run[p].pc = "owner" /\ run[p].doing = NoKey
      /\ owner' = [owner EXCEPT ![k[1]] = u] /\ Cardinality(Candidates(k[1])) = 1
      /\ Goto(p, "owner", run[p].todo \ {k})
      /\ UNCHANGED <<legacy, store, status, workers, count, policy, outcome, lock, faults>>
  BY DEF BindCandidate, At
<1>2. Candidates(k[1]) # {}
  BY <1>1, FS_EmptySet
<1>3. u \in Users
  BY <1>2 DEF Candidates
<1> HIDE DEF u, k
<1>4. RestRight'
  BY <1>1, <1>3, PlaceFacts DEF RestRight, outcome, faults
<1>5. run[p].todo \ {k} \subseteq Tasks("owner", run[p].raw, run[p].stale)
  BY <1>1, PlaceFacts DEF ProcessRight
<1>6. \A j \in WorkerKeys(run[p].raw) : Held(j)
  BY <1>1, PlaceFacts DEF CreditsRight, CreditsFor
<1>7. "owner" \in Pcs \ {"bound", "counted"} /\ run[p].pc \in Reading /\ UNCHANGED <<legacy, store, workers>>
  BY <1>1 DEF Pcs, Reading
<1> QED BY <1>1, <1>4, <1>5, <1>6, <1>7, MoveKeeps

LEMMA FallbackKeeps ==
  ASSUME IdentityInd, NEW p \in Processes, BindFallback(p)
  PROVE  IdentityInd'
<1> DEFINE k == First(run[p].todo)
           r == [run[p] EXCEPT !.pc = "bound", !.todo = @ \ {k}, !.doing = <<k[1], Fallback>>]
<1>a. run' = [run EXCEPT ![p] = r]
  BY Zenon DEF BindFallback
<1>b. k \in run[p].todo
  BY FirstIs DEF BindFallback
<1>1. /\ run[p].pc = "owner" /\ run[p].doing = NoKey /\ k \in run[p].todo
      /\ owner' = [owner EXCEPT ![k[1]] = Fallback] /\ run' = [run EXCEPT ![p] = r]
      /\ UNCHANGED <<legacy, store, status, workers, count, policy, outcome, lock, faults>>
  BY <1>a, <1>b DEF BindFallback, At
<1>2. k \in Projects \X {NoUser} /\ Fallback \in Users
  BY <1>1, PlaceFacts, FallbackUser DEF ProcessRight, Tasks
<1>3. <<k[1], Fallback>> \in Projects \X {Fallback} /\ <<k[1], Fallback>> \in Keys
  BY <1>2 DEF Keys, Groups, Subjects
<1> HIDE DEF k
<1>4. run[p] \in RunType /\ "bound" \in Pcs
  BY PlaceFacts DEF Pcs, Reading
<1>5. r \in RunType
  BY ONLY <1>3, <1>4 DEF RunType
<1>6. /\ r.raw = run[p].raw /\ r.stale = run[p].stale /\ r.found = run[p].found
      /\ r.todo \subseteq run[p].todo /\ r.pc = "bound" /\ r.doing = <<k[1], Fallback>>
  BY <1>1, <1>4 DEF RunType
<1>7. RestRight'
  BY <1>1, <1>2, PlaceFacts DEF RestRight, outcome, faults
<1>8. r.doing # NoKey /\ UNCHANGED <<legacy, store, workers>>
  BY <1>1, <1>3, <1>6, IdFacts
<1> HIDE DEF r
<1> QED BY <1>1, <1>3, <1>5, <1>6, <1>7, <1>8, OwnerKeeps

LEMMA PolicyKeeps ==
  ASSUME IdentityInd, NEW p \in Processes, CreatePolicy(p)
  PROVE  IdentityInd'
<1>1. /\ run[p].pc = "owner" /\ Goto(p, "team", TeamKeys) /\ policy' = TRUE
      /\ UNCHANGED <<legacy, store, owner, status, workers, count, outcome, lock, faults>>
  BY DEF CreatePolicy, At
<1>2. RestRight' /\ UNCHANGED <<legacy, store, workers>>
  BY <1>1, PlaceFacts DEF RestRight, outcome, faults
<1>3. TeamKeys \subseteq Tasks("team", run[p].raw, run[p].stale)
  BY DEF Tasks
<1>4. "team" \in Pcs \ {"bound", "counted"} /\ run[p].pc \in Reading
  BY <1>1 DEF Pcs, Reading
<1>5. \A k \in WorkerKeys(run[p].raw) : Held(k)
  BY <1>1, PlaceFacts DEF CreditsRight, CreditsFor
<1> QED BY <1>1, <1>2, <1>3, <1>4, <1>5, MoveKeeps

LEMMA TeamDone ==
  ASSUME IdentityInd, NEW p \in Processes, FinishTeam(p)
  PROVE  IdentityInd'
<1>1. /\ run[p].pc = "team" /\ Goto(p, "recount", Groups \X {NoUser})
      /\ UNCHANGED <<legacy, store, fields, outcome, lock, faults>>
  BY DEF FinishTeam, At
<1>2. RestRight' /\ UNCHANGED <<legacy, store, workers>>
  BY <1>1, PlaceFacts, RestStays DEF fields
<1>3. Groups \X {NoUser} \subseteq Tasks("recount", run[p].raw, run[p].stale)
  BY DEF Tasks
<1>4. "recount" \in Pcs \ {"bound", "counted"} /\ run[p].pc \in Reading
  BY <1>1 DEF Pcs, Reading
<1>5. \A k \in WorkerKeys(run[p].raw) : Held(k)
  BY <1>1, PlaceFacts DEF CreditsRight, CreditsFor
<1> QED BY <1>1, <1>2, <1>3, <1>4, <1>5, MoveKeeps

\* Documents have different ids, so there are at most MaxDocs of them.
LEMMA CountIs ==
  ASSUME DocsRight, NEW g
  PROVE  Cardinality(Active(g)) \in 0..MaxDocs
<1> DEFINE f == [d \in Active(g) |-> d.id]
<1>1. Active(g) \subseteq docs
  BY DEF Active
<1>2. f \in [Active(g) -> 1..MaxDocs]
  BY <1>1, IdFacts DEF DocsRight
<1>3. \A d, e \in Active(g) : f[d] = f[e] => d = e
  BY <1>1 DEF DocsRight
<1>4. f \in Injection(Active(g), 1..MaxDocs)
  BY <1>2, <1>3 DEF Injection, IsInjective
<1>5. IsFiniteSet(1..MaxDocs) /\ Cardinality(1..MaxDocs) = MaxDocs
  BY FS_Interval, BoundAssumption
<1> HIDE DEF f
<1>7. IsFiniteSet(Active(g)) /\ Cardinality(Active(g)) <= Cardinality(1..MaxDocs)
  BY ONLY <1>4, <1>5, FS_Injection
<1>8. Cardinality(Active(g)) \in Nat
  BY <1>7, FS_CardinalityType
<1> QED BY <1>5, <1>7, <1>8, BoundAssumption

\* What the two steps of a counter write in the record of the process.
Counting(p) ==
  /\ run[p].pc = "recount" /\ run[p].doing = NoKey /\ run[p].todo # {}
  /\ run' = [run EXCEPT ![p] = run'[p]] /\ run'[p] \in RunType
  /\ run'[p] = [run[p] EXCEPT !.pc = "counted", !.number = run'[p].number]
  /\ run'[p].number = Cardinality(Active(First(run[p].todo)[1]))
  /\ UNCHANGED <<legacy, store, fields, outcome, lock, faults, marks>>
LEMMA CountRun ==
  ASSUME IdentityInd, NEW p \in Processes, CountMembers(p)
  PROVE  Counting(p)
<1> DEFINE n == Cardinality(Active(First(run[p].todo)[1]))
<1>1. n \in 0..MaxDocs
  BY CountIs, PlaceFacts
<1> HIDE DEF n
<1>2. "counted" \in Pcs
  BY DEF Pcs, Reading
<1>3. /\ run[p].pc = "recount" /\ run[p].doing = NoKey /\ run[p].todo # {}
      /\ run' = [run EXCEPT ![p] = [run[p] EXCEPT !.pc = "counted", !.number = n]]
      /\ UNCHANGED <<legacy, store, fields, outcome, lock, faults, marks>>
  BY DEF CountMembers, At, n
<1>4. run[p] \in RunType /\ run \in [Processes -> RunType]
  BY PlaceFacts
<1>5. run'[p] = [run[p] EXCEPT !.pc = "counted", !.number = n]
  BY <1>3, <1>4
<1>6. run'[p] \in RunType /\ run'[p].number = n
  BY ONLY <1>1, <1>2, <1>4, <1>5 DEF RunType
<1>7. run' = [run EXCEPT ![p] = run'[p]]
  BY <1>3, <1>5
<1> QED BY <1>3, <1>5, <1>6, <1>7 DEF n, Counting

LEMMA CountFields ==
  ASSUME IdentityInd, NEW p \in Processes, Counting(p)
  PROVE  /\ run'[p].pc = "counted" /\ run'[p].todo = run[p].todo /\ run'[p].doing = NoKey
         /\ run'[p].found = run[p].found /\ run'[p].stale = run[p].stale
         /\ run'[p].raw = run[p].raw /\ run'[p].owners = run[p].owners
         /\ run'[p].issues = run[p].issues
         /\ run' = [run EXCEPT ![p] = run'[p]] /\ run'[p] \in RunType
         /\ \A q \in Processes \ {p} : run'[q] = run[q]
<1>1. run[p] \in RunType /\ run \in [Processes -> RunType]
  BY PlaceFacts
<1> QED BY ONLY <1>1, p \in Processes, Counting(p) DEF RunType, Counting

LEMMA CountKeeps ==
  ASSUME IdentityInd, NEW p \in Processes, CountMembers(p)
  PROVE  IdentityInd'
<1>1. /\ run[p].pc = "recount" /\ run[p].doing = NoKey /\ run[p].todo # {}
      /\ UNCHANGED <<legacy, store, fields, outcome, lock, faults, marks>>
  <2>1. Counting(p)
    BY CountRun
  <2> QED BY ONLY <2>1 DEF Counting
<1>2. legacy' = legacy
  BY <1>1
<1>3. /\ run'[p].pc = "counted" /\ run'[p].todo = run[p].todo /\ run'[p].doing = NoKey
      /\ run'[p].found = run[p].found /\ run'[p].stale = run[p].stale
      /\ run'[p].raw = run[p].raw
  BY CountRun, CountFields
<1>r. run' = [run EXCEPT ![p] = run'[p]] /\ run'[p] \in RunType
  BY CountRun, CountFields
<1>4. StoreMoves /\ workers' = workers
  BY <1>1, PlaceFacts, StoreStays DEF fields
<1>5. RestRight'
  BY <1>1, RestStays, PlaceFacts
<1>6. run'[p].todo \subseteq Tasks(run'[p].pc, run'[p].raw, run'[p].stale)
  BY <1>1, <1>3, PlaceFacts DEF ProcessRight, Tasks
<1>7. run'[p].found = NoDoc
  BY <1>1, <1>3, PlaceFacts DEF ProcessRight, Finding
<1>8. ProcessRight(p)'
  <2>1. \A c, raw, stale : Tasks(c, raw, stale)' = Tasks(c, raw, stale)
    BY <1>2, TasksStay
  <2>2. Tasks(run'[p].pc, run'[p].raw, run'[p].stale) =
          Tasks(run[p].pc, run[p].raw, run[p].stale)'
    BY <2>1
  <2> QED BY ONLY <1>1, <1>3, <1>6, <1>7, <2>2 DEF ProcessRight
<1>9. MemoryRight(p)'
  BY <1>3, <1>4, PlaceFacts, MemoryKept
<1>10. \A raw : WorkerKeys(raw)' = WorkerKeys(raw)
  BY <1>2, LegacyFacts
<1>11. CreditsRight(p)'
  BY <1>1, <1>3, <1>4, <1>10, PlaceFacts, HeldKept DEF CreditsRight, CreditsFor, Reading
<1>12. NamesKept'
  BY <1>1, <1>4, NamesStay, PlaceFacts
<1> QED BY <1>r, <1>2, <1>4, <1>5, <1>8, <1>9, <1>11, <1>12, Assemble

\* The credits of a project go when every name in them has a document.
LEMMA RecountKeeps ==
  ASSUME IdentityInd, NEW p \in Processes, WriteCount(p)
  PROVE  IdentityInd'
<1> DEFINE k == First(run[p].todo)
<1>1. /\ run[p].pc = "counted" /\ k \in run[p].todo
      /\ count' = [count EXCEPT ![k[1]] = run[p].number]
      /\ workers' = workers \ {k[1]}
      /\ UNCHANGED <<legacy, store, owner, status, policy, outcome, lock, faults>>
      /\ IF run[p].todo = {k} THEN Goto(p, "index", {})
                              ELSE Goto(p, "recount", run[p].todo \ {k})
  <2>1. run[p].pc = "counted" /\ run[p].todo # {}
    BY PlaceFacts DEF WriteCount, At, ProcessRight
  <2> QED BY <2>1, FirstIs DEF WriteCount
<1>2. run[p].todo \subseteq Groups \X {NoUser}
  BY <1>1, PlaceFacts DEF ProcessRight, Tasks
<1> HIDE DEF k
<1>3. StoreMoves /\ workers' \subseteq workers
  BY <1>1, PlaceFacts, StoreStays
<1>4. workers \subseteq run[p].raw /\ \A j \in WorkerKeys(run[p].raw) : Held(j)
  BY <1>1, PlaceFacts DEF CreditsRight, CreditsFor, Reading
<1>5. NamesKept'
  <2>0. legacy' = legacy
    BY <1>1
  <2> SUFFICES ASSUME NEW g \in Projects, NEW n \in legacy.credits[g], g \notin workers'
               PROVE  Held(<<g, n>>)'
    BY Zenon, <2>0 DEF NamesKept
  <2>1. CASE g \in workers
    <3>1. n \in Names
      BY PlaceFacts DEF RestRight, LegacyStates
    <3>2. <<g, n>> \in WorkerKeys(run[p].raw)
      BY <1>4, <2>1, <3>1 DEF WorkerKeys
    <3> QED BY <1>3, <1>4, <3>2, HeldKept
  <2>2. CASE g \notin workers
    <3>1. Held(<<g, n>>)
      BY <2>2, PlaceFacts DEF NamesKept
    <3> QED BY <1>3, <3>1, HeldKept
  <2> QED BY <2>1, <2>2
<1>6. RestRight'
  <2>1. count' \in [Groups -> 0..MaxDocs]
    BY <1>1, PlaceFacts DEF RestRight, RunType
  <2> QED BY <1>1, <2>1, PlaceFacts DEF RestRight, outcome, faults
<1>7. \A pc \in {"index", "recount"} : \A todo : CreditsAfter(pc, todo, run[p].raw)
  BY <1>3, <1>4, HeldKept DEF CreditsAfter
<1>8. "index" \in Pcs \ {"bound", "counted"} /\ "recount" \in Pcs \ {"bound", "counted"}
  BY DEF Pcs, Reading
<1>9. run[p].todo \ {k} \subseteq Tasks("recount", run[p].raw, run[p].stale)
  BY <1>2 DEF Tasks
<1>10. {} \subseteq Tasks("index", run[p].raw, run[p].stale)
  OBVIOUS
<1>11. CASE run[p].todo = {k}
  <2>1. Goto(p, "index", {}) /\ legacy' = legacy
    BY <1>1, <1>11
  <2> QED BY <1>3, <1>5, <1>6, <1>7, <1>8, <1>10, <2>1, GotoKeeps
<1>12. CASE run[p].todo # {k}
  <2>1. Goto(p, "recount", run[p].todo \ {k}) /\ legacy' = legacy
    BY <1>1, <1>12
  <2> QED BY <1>3, <1>5, <1>6, <1>7, <1>8, <1>9, <2>1, GotoKeeps
<1> QED BY <1>11, <1>12

\* The end of up(): nothing is left to be done at its places.
LEMMA EndKeeps ==
  ASSUME IdentityInd, NEW p \in Processes,
         NEW pc \in {"report", "files", "verify", "write", "seal"},
         Goto(p, pc, {}), UNCHANGED <<legacy, store, workers>>, RestRight', run[p].pc \in Reading
  PROVE  IdentityInd'
<1>1. pc \in Pcs \ {"bound", "counted"} /\ pc # "external"
      /\ pc \notin {"owner", "bound", "team", "recount", "counted"}
  BY DEF Pcs, Reading
<1>2. {} \subseteq Tasks(pc, run[p].raw, run[p].stale)
  OBVIOUS
<1> QED BY <1>1, <1>2, MoveKeeps

LEMMA LeaveKeeps ==
  ASSUME IdentityInd, NEW p \in Processes, Leave(p), UNCHANGED <<legacy, store, fields>>,
         RestRight'
  PROVE  IdentityInd'
<1>1. StoreMoves /\ workers' = workers
  BY PlaceFacts, StoreStays DEF fields
<1> QED BY <1>1, IdleKeeps DEF Leave

LEMMA IndexesKeep ==
  ASSUME IdentityInd, NEW p \in Processes, EnsureIndexes(p)
  PROVE  IdentityInd'
<1>1. /\ run[p].pc = "index" /\ UNCHANGED <<legacy, store, fields, summary, bundle, recorded, faults>>
      /\ \/ Goto(p, "report", {}) /\ indexed' = TRUE /\ lock' = lock
         \/ Leave(p) /\ indexed' = indexed
  BY DEF EnsureIndexes, At
<1>2. RestRight'
  BY <1>1, PlaceFacts DEF RestRight, fields, faults, Leave
<1>3. run[p].pc \in Reading /\ UNCHANGED workers
  BY <1>1 DEF Reading, fields
<1>4. CASE Goto(p, "report", {})
  BY <1>1, <1>2, <1>3, <1>4, EndKeeps
<1>5. CASE Leave(p)
  BY <1>1, <1>2, <1>5, LeaveKeeps
<1> QED BY <1>1, <1>4, <1>5

LEMMA ReportsKeep ==
  ASSUME IdentityInd, NEW p \in Processes,
         SaveReports(p) \/ LookForBundle(p) \/ WriteFiles(p) \/ SealBundle(p)
  PROVE  IdentityInd'
<1>1. /\ UNCHANGED <<legacy, store, fields>> /\ run[p].pc \in Reading
      /\ \E pc \in {"report", "files", "verify", "write", "seal"} : Goto(p, pc, {})
  BY DEF SaveReports, LookForBundle, WriteFiles, SealBundle, At, Reading
<1>2. RestRight'
  <2>1. CASE SaveReports(p)
    BY <2>1, PlaceFacts DEF RestRight, fields, faults, SaveReports
  <2>2. CASE LookForBundle(p)
    BY <2>2, PlaceFacts, RestStays DEF LookForBundle
  <2>3. CASE WriteFiles(p)
    <3>1. run[p].raw \in SUBSET Projects
      BY PlaceFacts DEF RunType
    <3>2. bundle' \in [sealed : BOOLEAN, raw : SUBSET Projects]
      BY <2>3, <3>1 DEF WriteFiles
    <3> QED BY <2>3, <3>2, PlaceFacts DEF RestRight, fields, faults, WriteFiles
  <2>4. CASE SealBundle(p)
    BY <2>4, PlaceFacts DEF RestRight, fields, faults, SealBundle
  <2> QED BY <2>1, <2>2, <2>3, <2>4
<1>3. UNCHANGED workers
  BY <1>1 DEF fields
<1> QED BY <1>1, <1>2, <1>3, EndKeeps

LEMMA VerifyKeeps ==
  ASSUME IdentityInd, NEW p \in Processes, Verify(p)
  PROVE  IdentityInd'
<1>1. Accepted \in BOOLEAN
  BY DEF Accepted
<1>2. RestRight'
  BY <1>1, PlaceFacts DEF RestRight, fields, faults, Leave, Verify
<1> QED BY <1>2, LeaveKeeps DEF Verify

LEMMA IdentityInit ==
  ASSUME Init
  PROVE  IdentityInd
<1>1. DocsRight
  BY BoundAssumption DEF Init, DocsRight, Holding, OldestOf
<1>2. RestRight
  <2>1. legacy \in LegacyStates
    BY LegacyAssumption DEF Init, LegacyStates
  <2>2. workers \subseteq Projects /\ lock \in Processes \cup {Free}
    BY DEF Init, Full
  <2>3. count \in [Groups -> 0..MaxDocs]
    BY BoundAssumption DEF Init
  <2>4. bundle \in [sealed : BOOLEAN, raw : SUBSET Projects]
    BY DEF Init
  <2>5. /\ owner \in [Projects -> Users \cup {NoUser}]
        /\ status \in [Projects -> {"NORMAL", "CLEARED", "COMPLETED", "FINISH_PLAN"}]
    BY <2>1 DEF Init, LegacyStates
  <2> QED BY <2>1, <2>2, <2>3, <2>4, <2>5 DEF Init, RestRight
<1>3. \A p \in Processes : run[p] = Idle
  BY DEF Init
<1>4. Idle \in RunType
  BY BoundAssumption DEF Idle, RunType, Pcs
<1>5. \A p \in Processes : ProcessRight(p)
  BY <1>3 DEF ProcessRight, Idle
<1>6. \A p \in Processes : MemoryRight(p)
  BY <1>3 DEF MemoryRight, Idle, Seen, OldestOf
<1>7. \A p \in Processes : CreditsRight(p)
  BY <1>3 DEF CreditsRight, CreditsFor, Idle, Reading
<1>8. run \in [Processes -> RunType]
  BY <1>4 DEF Init
<1>9. NamesKept
  BY DEF Init, NamesKept, Full
<1> QED BY <1>1, <1>2, <1>5, <1>6, <1>7, <1>8, <1>9
        DEF IdentityInd, IdentityTypes, RunRight

LEMMA UpKeeps ==
  ASSUME IdentityInd, NEW p \in Processes, UpStep(p)
  PROVE  IdentityInd'
<1>1. CASE MergeDocuments(p) \/ DropDuplicates(p) \/ ReadLegacy(p)
  BY <1>1, MergeKeeps, DropKeeps, ReadKeeps
<1>2. CASE FindMember(p) \/ InsertMember(p) \/ UpdateMember(p)
  BY <1>2, FindKeeps, InsertKeeps, UpdateKeeps
<1>3. CASE FinishMembers(p) \/ MigrateStatus(p) \/ FinishExternal(p)
  BY <1>3, MembersDone, StatusKeeps, ExternalDone
<1>4. CASE KeepOwner(p) \/ BindCandidate(p) \/ BindFallback(p) \/ FindFallback(p)
  BY <1>4, KeepOwnerKeeps, CandidateKeeps, FallbackKeeps, FindFallbackKeeps
<1>5. CASE CreatePolicy(p) \/ FinishTeam(p)
  BY <1>5, PolicyKeeps, TeamDone
<1>6. CASE CountMembers(p) \/ WriteCount(p) \/ EnsureIndexes(p)
  BY <1>6, CountKeeps, RecountKeeps, IndexesKeep
<1>7. CASE SaveReports(p) \/ LookForBundle(p) \/ WriteFiles(p) \/ SealBundle(p)
  BY <1>7, ReportsKeep
<1>8. CASE Verify(p)
  BY <1>8, VerifyKeeps
<1> QED BY <1>1, <1>2, <1>3, <1>4, <1>5, <1>6, <1>7, <1>8 DEF UpStep

LEMMA IdentityStep ==
  ASSUME IdentityInd, [Next]_vars
  PROVE  IdentityInd'
<1>1. ASSUME NEW p \in Processes, Start(p) \/ UpStep(p) \/ Die(p) PROVE IdentityInd'
  BY <1>1, StartKeeps, UpKeeps, DieKeeps
<1>2. CASE ExpireLease \/ Overrun
  BY <1>2, LeaseKeeps
<1>3. CASE UNCHANGED vars
  <2>1. /\ run' = run /\ legacy' = legacy /\ UNCHANGED <<store, workers>>
        /\ UNCHANGED <<legacy, fields, outcome, lock, faults>>
    BY <1>3 DEF vars, fields
  <2>2. RestRight'
    BY <2>1, RestStays DEF IdentityInd, IdentityTypes
  <2> QED BY <2>1, <2>2, StillKeeps
<1> QED BY <1>1, <1>2, <1>3 DEF Next

LEMMA GotoIs ==
  ASSUME IdentityInd, NEW p \in Processes, NEW pc, NEW todo, Goto(p, pc, todo)
  PROVE  /\ run'[p].pc = pc /\ run'[p].raw = run[p].raw /\ run'[p].doing = NoKey
         /\ run'[p].issues = run[p].issues
         /\ \A q \in Processes \ {p} : run'[q] = run[q]
BY PlaceFacts DEF Goto, RunType

\* What a step of up() does to the record of its process and to the evidence.
Onwards(p) ==
  /\ \A q \in Processes \ {p} : run'[q] = run[q]
  /\ \/ run'[p].pc = "idle"
     \/ /\ run'[p].raw = run[p].raw
        /\ run'[p].pc \in Reading => run[p].pc \in Reading
     \/ ReadLegacy(p)
  /\ run'[p].pc = "counted" => CountMembers(p)
  /\ run'[p].pc = "seal" => WriteFiles(p)

LEMMA GotoOnwards ==
  ASSUME IdentityInd, NEW p \in Processes, NEW pc, NEW todo, Goto(p, pc, todo),
         pc # "counted", pc = "seal" => WriteFiles(p),
         pc \in Reading => run[p].pc \in Reading
  PROVE  Onwards(p)
BY GotoIs DEF Onwards

LEMMA LeaveOnwards ==
  ASSUME IdentityInd, NEW p \in Processes, Leave(p)
  PROVE  Onwards(p)
<1>1. run' = [run EXCEPT ![p] = Idle]
  BY DEF Leave
<1> QED BY <1>1, PlaceFacts DEF Onwards, Idle

LEMMA UpOnwards ==
  ASSUME IdentityInd, NEW p \in Processes, UpStep(p)
  PROVE  Onwards(p)
<1>1. CASE MergeDocuments(p)
  <2>1. run'[p] = [run[p] EXCEPT !.doing = First(run[p].todo)] /\ run[p].pc = "merge"
        /\ \A q \in Processes \ {p} : run'[q] = run[q]
    BY <1>1, PlaceFacts DEF MergeDocuments, At
  <2>2. run'[p].pc = "merge"
    BY <2>1, PlaceFacts DEF RunType
  <2> QED BY <2>1, <2>2, PlaceFacts DEF Onwards, Reading, RunType
<1>2. CASE DropDuplicates(p)
  <2>1. Goto(p, "merge", run[p].todo \ {run[p].doing})
    BY <1>2 DEF DropDuplicates
  <2> QED BY <2>1, GotoOnwards DEF Reading
<1>3. CASE ReadLegacy(p)
  <2>1. run'[p].pc = "members" /\ \A q \in Processes \ {p} : run'[q] = run[q]
    BY <1>3, PlaceFacts DEF ReadLegacy, RunType
  <2> QED BY <1>3, <2>1 DEF Onwards
<1>4. CASE FindMember(p)
  <2>1. PICK found, pc : pc = run[p].pc /\ Remembers(p, pc, First(run[p].todo), found)
    BY <1>4, MemberSought
  <2>2. run'[p].pc = run[p].pc /\ run'[p].raw = run[p].raw
        /\ \A q \in Processes \ {p} : run'[q] = run[q]
    BY <2>1, RememberFields
  <2> QED BY <1>4, <2>2, MemberSought DEF Onwards
<1>5. CASE InsertMember(p)
  <2>1. /\ run[p].pc \in {"members", "external", "owner", "team"}
        /\ Leave(p) \/ Goto(p, run[p].pc, run[p].todo \ {run[p].doing})
    BY <1>5 DEF InsertMember
  <2> QED BY <2>1, GotoOnwards, LeaveOnwards
<1>6. CASE UpdateMember(p)
  <2>1. /\ run[p].pc \in {"members", "external", "owner", "team"}
        /\ Goto(p, run[p].pc, run[p].todo \ {run[p].doing})
    BY <1>6 DEF UpdateMember
  <2> QED BY <2>1, GotoOnwards
<1>7. CASE FinishMembers(p)
  BY <1>7, GotoOnwards DEF FinishMembers, At, Reading
<1>8. CASE MigrateStatus(p)
  <2>1. /\ run[p].pc = "status"
        /\ \/ Goto(p, "external", WorkerKeys(run[p].raw))
           \/ Goto(p, "status", run[p].todo \ {First(run[p].todo)})
    BY <1>8 DEF MigrateStatus, At
  <2> QED BY <2>1, GotoOnwards DEF Reading
<1>9. CASE FinishExternal(p)
  BY <1>9, GotoOnwards DEF FinishExternal, At, Reading
<1>10. CASE KeepOwner(p)
  <2> DEFINE k == First(run[p].todo)
             q == Questionable(k[1], run[p].owners[k[1]])
  <2>1. run' = [run EXCEPT ![p] = [run[p] EXCEPT !.todo = run[p].todo \ {k},
                                                !.issues = run[p].issues \/ q]]
        /\ run[p].pc = "owner"
    BY <1>10, Zenon DEF KeepOwner, At
  <2> HIDE DEF k, q
  <2>2. run'[p].pc = "owner" /\ run'[p].raw = run[p].raw
        /\ \A r \in Processes \ {p} : run'[r] = run[r]
    BY <2>1, PlaceFacts DEF RunType
  <2> QED BY <2>1, <2>2 DEF Onwards
<1>11. CASE BindCandidate(p)
  <2>1. run[p].pc = "owner" /\ Goto(p, "owner", run[p].todo \ {First(run[p].todo)})
    BY <1>11 DEF BindCandidate, At
  <2> QED BY <2>1, GotoOnwards
<1>12. CASE BindFallback(p)
  <2> DEFINE k == First(run[p].todo)
  <2>1. run' = [run EXCEPT ![p] = [run[p] EXCEPT !.pc = "bound", !.todo = run[p].todo \ {k},
                                                !.doing = <<k[1], Fallback>>]]
        /\ run[p].pc = "owner"
    BY <1>12, Zenon DEF BindFallback, At
  <2> HIDE DEF k
  <2>2. run'[p].pc = "bound" /\ run'[p].raw = run[p].raw
        /\ \A r \in Processes \ {p} : run'[r] = run[r]
    BY <2>1, PlaceFacts DEF RunType
  <2> QED BY <2>1, <2>2 DEF Onwards, Reading
<1>13. CASE FindFallback(p)
  <2>1. PICK found : Remembers(p, "owner", run[p].doing, found)
    BY <1>13, FallbackSought
  <2>2. run'[p].pc = "owner" /\ run'[p].raw = run[p].raw
        /\ \A q \in Processes \ {p} : run'[q] = run[q]
    BY <2>1, RememberFields
  <2> QED BY <1>13, <2>2, FallbackSought DEF Onwards, Reading
<1>14. CASE CreatePolicy(p)
  BY <1>14, GotoOnwards DEF CreatePolicy, At, Reading
<1>15. CASE FinishTeam(p)
  BY <1>15, GotoOnwards DEF FinishTeam, At, Reading
<1>16. CASE CountMembers(p)
  <2>1. Counting(p)
    BY <1>16, CountRun
  <2>2. run[p].pc = "recount"
    BY ONLY <2>1 DEF Counting
  <2>3. run'[p].pc = "counted" /\ run'[p].raw = run[p].raw
        /\ \A q \in Processes \ {p} : run'[q] = run[q]
    BY <2>1, CountFields
  <2> QED BY <1>16, <2>2, <2>3 DEF Onwards, Reading
<1>17. CASE WriteCount(p)
  <2>1. /\ run[p].pc = "counted"
        /\ \/ Goto(p, "index", {})
           \/ Goto(p, "recount", run[p].todo \ {First(run[p].todo)})
    BY <1>17 DEF WriteCount, At
  <2> QED BY <2>1, GotoOnwards DEF Reading
<1>18. CASE EnsureIndexes(p)
  <2>1. run[p].pc = "index" /\ (Goto(p, "report", {}) \/ Leave(p))
    BY <1>18 DEF EnsureIndexes, At
  <2> QED BY <2>1, GotoOnwards, LeaveOnwards DEF Reading
<1>19. CASE SaveReports(p)
  BY <1>19, GotoOnwards DEF SaveReports, At, Reading
<1>20. CASE LookForBundle(p)
  <2>1. run[p].pc = "files" /\ (Goto(p, "verify", {}) \/ Goto(p, "write", {}))
    BY <1>20 DEF LookForBundle, At
  <2> QED BY <2>1, GotoOnwards DEF Reading
<1>21. CASE WriteFiles(p)
  BY <1>21, GotoOnwards DEF WriteFiles, At, Reading
<1>22. CASE SealBundle(p)
  BY <1>22, GotoOnwards DEF SealBundle, At, Reading
<1>23. CASE Verify(p)
  BY <1>23, LeaveOnwards DEF Verify
<1> QED BY <1>1, <1>2, <1>3, <1>4, <1>5, <1>6, <1>7, <1>8, <1>9, <1>10, <1>11, <1>12, <1>13,
           <1>14, <1>15, <1>16, <1>17, <1>18, <1>19, <1>20, <1>21, <1>22, <1>23 DEF UpStep

\* What it leaves alone.
LEMMA UpLeaves ==
  ASSUME NEW p \in Processes, UpStep(p)
  PROVE  /\ legacy' = legacy /\ UNCHANGED faults /\ run[p].pc # "idle"
         /\ WriteCount(p) \/ miscounts' = miscounts
         /\ ReadLegacy(p) \/ WriteFiles(p) \/ blind' = blind
         /\ WriteFiles(p) \/ SealBundle(p) \/ bundle' = bundle
<1>1. CASE MergeDocuments(p) \/ DropDuplicates(p) \/ ReadLegacy(p) \/ FindMember(p)
  BY <1>1 DEF MergeDocuments, DropDuplicates, ReadLegacy, FindMember, At, outcome, marks
<1>2. CASE InsertMember(p) \/ UpdateMember(p) \/ FinishMembers(p) \/ MigrateStatus(p)
  BY <1>2 DEF InsertMember, UpdateMember, FinishMembers, MigrateStatus, At, outcome, marks
<1>3. CASE FinishExternal(p) \/ KeepOwner(p) \/ BindCandidate(p) \/ BindFallback(p)
  BY <1>3 DEF FinishExternal, KeepOwner, BindCandidate, BindFallback, At, outcome, marks
<1>4. CASE FindFallback(p)
  <2>1. run[p].pc = "bound" /\ UNCHANGED <<legacy, store, fields, outcome, lock, faults, marks>>
    BY <1>4, Zenon DEF FindFallback
  <2> QED BY ONLY <2>1 DEF outcome, marks
<1>7. CASE CreatePolicy(p) \/ FinishTeam(p)
  BY <1>7 DEF CreatePolicy, FinishTeam, At, outcome, marks
<1>5. CASE CountMembers(p) \/ WriteCount(p) \/ EnsureIndexes(p) \/ SaveReports(p)
  BY <1>5 DEF CountMembers, WriteCount, EnsureIndexes, SaveReports, At, outcome, marks
<1>6. CASE LookForBundle(p) \/ WriteFiles(p) \/ SealBundle(p) \/ Verify(p)
  BY <1>6 DEF LookForBundle, WriteFiles, SealBundle, Verify, At, outcome, marks
<1> QED BY <1>1, <1>2, <1>3, <1>4, <1>5, <1>6, <1>7 DEF UpStep

\* The groups whose count was written late are groups.
LEMMA MarksStep ==
  ASSUME IdentityInd, MarksRight, [Next]_vars
  PROVE  MarksRight'
<1>1. ASSUME NEW p \in Processes, UpStep(p) PROVE MarksRight'
  <2>1. blind' \in BOOLEAN
    <3>1. blind \in BOOLEAN
      BY DEF MarksRight
    <3>2. CASE ReadLegacy(p)
      BY <3>2 DEF ReadLegacy
    <3>3. CASE WriteFiles(p)
      BY <3>3 DEF WriteFiles
    <3> QED BY <1>1, <3>1, <3>2, <3>3, UpLeaves
  <2>2. CASE WriteCount(p)
    <3> DEFINE k == First(run[p].todo)
    <3>1. run[p].pc = "counted" /\ k \in run[p].todo
      BY <2>2, PlaceFacts, FirstIs DEF WriteCount, At, ProcessRight
    <3>2. k[1] \in Groups
      BY <3>1, PlaceFacts DEF ProcessRight, Tasks
    <3>3. miscounts' \subseteq miscounts \cup {k[1]}
      BY <2>2 DEF WriteCount
    <3> QED BY <2>1, <3>2, <3>3 DEF MarksRight
  <2> QED BY <1>1, <2>1, <2>2, UpLeaves DEF MarksRight
<1>2. CASE UNCHANGED marks
  BY <1>2 DEF MarksRight, marks
<1>3. CASE \E p \in Processes : Start(p) \/ Die(p)
  BY <1>2, <1>3 DEF Start, Die
<1>4. CASE ExpireLease \/ Overrun
  BY <1>2, <1>4 DEF ExpireLease, Overrun
<1>5. CASE UNCHANGED vars
  BY <1>2, <1>5 DEF vars
<1> QED BY <1>1, <1>3, <1>4, <1>5 DEF Next

LEMMA IdentityGoal ==
  ASSUME IdentityInd, MarksRight
  PROVE  IdentityInv
<1>1. TypeOK
  BY DEF IdentityInd, IdentityTypes, DocsRight, RestRight, TypeOK, MarksRight
<1>2. ASSUME NEW g \in Projects, NEW n \in legacy.credits[g], g \notin workers
      PROVE  \E d \in Holding(<<g, n>>) : d.status = "active"
  <2>1. n \in Names
    BY DEF IdentityInd, IdentityTypes, RestRight, LegacyStates
  <2>2. PICK d \in docs : KeyOf(d) = <<g, n>>
    BY <1>2 DEF IdentityInd, NamesKept, Held
  <2>3. d.status = "active" /\ d \in Holding(<<g, n>>)
    BY <2>1, <2>2 DEF IdentityInd, IdentityTypes, DocsRight, NameActive, KeyOf, Holding
  <2> QED BY <2>3
<1> QED BY <1>1, <1>2 DEF IdentityInv

\* Migration 0004 loses no worker its mapping reads: at every moment, whatever
\* process was killed or overtaken between which two writes, the name is still in
\* the legacy field `workers' or an active member of the project; and documents
\* and fields hold values of their types.
THEOREM IdentityHolds == Spec => []IdentityInv
<1>1. Init => IdentityInd /\ MarksRight
  BY IdentityInit DEF Init, MarksRight
<1>2. IdentityInd /\ MarksRight /\ [Next]_vars => (IdentityInd /\ MarksRight)'
  BY IdentityStep, MarksStep
<1>3. IdentityInd /\ MarksRight => IdentityInv
  BY IdentityGoal
<1> QED BY <1>1, <1>2, <1>3, PTL DEF Spec

(* ------------------------------ the evidence -------------------------- *)

\* Without a death or an overrun the holder of the lock is the only one at work.
LEMMA OnlyOne ==
  ASSUME CalmInv, Calm, NEW p \in Processes, run[p].pc # "idle"
  PROVE  /\ lock = p /\ OneEach /\ Certain(p) /\ EvidenceRight
         /\ \A q \in Processes \ {p} : run[q].pc = "idle"
BY DEF CalmInv, Alone

LEMMA CalmAssemble ==
  ASSUME NEW p \in Processes,
         \A q \in Processes \ {p} : run[q].pc = "idle" /\ run'[q] = run[q],
         OneEach', run'[p].pc # "idle" => lock' = p, Certain(p)',
         bundle'.sealed => bundle'.raw = Full', EvidenceAt(p)',
         bundle'.sealed \/ workers' = Full' \/ run'[p].pc \in Recounting
  PROVE  CalmInv'
<1>1. \A q \in Processes : (Alone(q) /\ Certain(q) /\ EvidenceAt(q))'
  BY DEF Alone, Certain, EvidenceAt, Finding, Reading
<1>2. EvidenceRight'
  BY <1>1 DEF EvidenceRight
<1> QED BY <1>1, <1>2 DEF CalmInv

LEMMA FullStays ==
  ASSUME legacy' = legacy
  PROVE  Full' = Full
BY DEF Full

\* A step that leaves the evidence and the credits alone.
LEMMA QuietKeeps ==
  ASSUME CalmInv, Calm, NEW p \in Processes, run[p].pc # "idle",
         \A q \in Processes \ {p} : run'[q] = run[q],
         legacy' = legacy, bundle' = bundle, workers' = workers,
         lock' = lock \/ run'[p].pc = "idle", OneEach', Certain(p)',
         run'[p].pc \notin {"verify", "write", "seal"},
         run'[p].pc \in Reading => run[p].pc \in Reading /\ run'[p].raw = run[p].raw,
         run[p].pc \in Recounting => run'[p].pc \in Recounting
  PROVE  CalmInv'
<1>1. /\ lock = p /\ EvidenceRight
      /\ \A q \in Processes \ {p} : run[q].pc = "idle"
  BY OnlyOne
<1>2. EvidenceAt(p)'
  BY <1>1, FullStays DEF EvidenceAt, EvidenceRight
<1>3. bundle'.sealed => bundle'.raw = Full'
  BY <1>1, FullStays DEF EvidenceRight
<1>4. bundle.sealed \/ workers = Full \/ run[p].pc \in Recounting
  BY <1>1 DEF EvidenceRight, Recounting
<1>5. bundle'.sealed \/ workers' = Full' \/ run'[p].pc \in Recounting
  BY <1>4, FullStays
<1> QED BY <1>1, <1>2, <1>3, <1>5, CalmAssemble

LEMMA QuietGoto ==
  ASSUME IdentityInd, CalmInv, Calm, NEW p \in Processes, run[p].pc # "idle",
         NEW pc, NEW todo, Goto(p, pc, todo), legacy' = legacy, bundle' = bundle,
         workers' = workers, lock' = lock, OneEach',
         pc \notin {"verify", "write", "seal"},
         pc \in Reading => run[p].pc \in Reading,
         run[p].pc \in Recounting => pc \in Recounting
  PROVE  CalmInv'
<1>1. /\ run'[p].pc = pc /\ run'[p].raw = run[p].raw /\ run'[p].doing = NoKey
      /\ \A q \in Processes \ {p} : run'[q] = run[q]
  BY GotoIs
<1>2. Certain(p)'
  BY <1>1 DEF Certain
<1> QED BY <1>1, <1>2, QuietKeeps

LEMMA QuietOne ==
  ASSUME OneEach, UNCHANGED store
  PROVE  OneEach'
BY DEF OneEach, store

\* Documents stay one for each subject.
LEMMA UpdateOne ==
  ASSUME OneEach, NEW old, Remembered(old), NEW new, new.id = old.id, KeyOf(new) = KeyOf(old),
         Update(old, new)
  PROVE  OneEach'
<1> SUFFICES ASSUME NEW d \in docs', NEW e \in docs', d.group = e.group, d.subject = e.subject
             PROVE  d = e
  BY DEF OneEach
<1>1. PICK c \in docs : d = IF c.id = old.id THEN new ELSE c
  BY DEF Update
<1>2. PICK f \in docs : e = IF f.id = old.id THEN new ELSE f
  BY DEF Update
<1>3. KeyOf(c) = KeyOf(d) /\ KeyOf(f) = KeyOf(e)
  BY <1>1, <1>2 DEF Remembered
<1>4. KeyOf(d) = KeyOf(e)
  BY DEF KeyOf
<1>5. c.group = f.group /\ c.subject = f.subject
  BY <1>3, <1>4 DEF KeyOf
<1>6. c = f
  BY <1>5 DEF OneEach
<1> QED BY <1>1, <1>2, <1>6

LEMMA CalmStart ==
  ASSUME IdentityInd, CalmInv, Calm, NEW p \in Processes, Start(p)
  PROVE  CalmInv'
<1> DEFINE r == [Idle EXCEPT !.pc = "merge", !.stale = docs,
                             !.todo = {<<d.group, d.subject>> : d \in docs}]
<1>1. /\ lock = Free /\ run' = [run EXCEPT ![p] = r] /\ lock' = p
      /\ legacy' = legacy /\ UNCHANGED store /\ bundle' = bundle /\ workers' = workers
  BY DEF Start, fields, outcome
<1>2. \A q \in Processes : run[q].pc = "idle"
  BY <1>1, LockAssumption DEF CalmInv, Alone
<1>3. run'[p].pc = "merge" /\ \A q \in Processes \ {p} : run'[q] = run[q]
  BY <1>1, PlaceFacts DEF Idle
<1>4. OneEach' /\ EvidenceRight
  BY <1>1, QuietOne DEF CalmInv
<1>5. Certain(p)' /\ EvidenceAt(p)'
  BY <1>3 DEF Certain, EvidenceAt, Finding, Reading
<1>6. bundle.sealed \/ workers = Full
  BY <1>2, <1>4 DEF EvidenceRight, Recounting
<1>7. bundle'.sealed => bundle'.raw = Full'
  BY <1>1, <1>4, FullStays DEF EvidenceRight
<1>8. bundle'.sealed \/ workers' = Full' \/ run'[p].pc \in Recounting
  BY <1>1, <1>6, FullStays
<1>9. \A q \in Processes \ {p} : run[q].pc = "idle" /\ run'[q] = run[q]
  BY <1>2, <1>3
<1>10. run'[p].pc # "idle" => lock' = p
  BY <1>1
<1> QED BY <1>4, <1>5, <1>7, <1>8, <1>9, <1>10, CalmAssemble

LEMMA CalmLease ==
  ASSUME IdentityInd, CalmInv, Calm, ExpireLease
  PROVE  CalmInv'
<1>1. /\ lock \in Processes /\ run[lock].pc = "idle" /\ run' = run
      /\ legacy' = legacy /\ UNCHANGED store /\ bundle' = bundle /\ workers' = workers
  BY DEF IdentityInd, IdentityTypes, RestRight, ExpireLease, fields, outcome
<1>2. \A q \in Processes : run[q].pc = "idle"
  BY <1>1 DEF CalmInv, Alone
<1>3. \A q \in Processes : (Alone(q) /\ Certain(q))'
  BY <1>1, <1>2 DEF Alone, Certain, Finding
<1>4. OneEach'
  BY <1>1, QuietOne DEF CalmInv
<1>5. EvidenceRight'
  BY <1>1, FullStays DEF CalmInv, EvidenceRight, EvidenceAt
<1> QED BY <1>3, <1>4, <1>5 DEF CalmInv

LEMMA CalmMerge ==
  ASSUME IdentityInd, CalmInv, Calm, NEW p \in Processes, MergeDocuments(p) \/ DropDuplicates(p)
  PROVE  CalmInv'
<1>1. /\ run[p].pc = "merge" /\ legacy' = legacy /\ bundle' = bundle /\ workers' = workers
      /\ lock' = lock
  BY DEF MergeDocuments, DropDuplicates, At, fields, outcome
<1>2. OneEach
  BY <1>1, OnlyOne
<1>3. CASE MergeDocuments(p)
  <2> DEFINE k == First(run[p].todo)
             old == Oldest(Seen(p, k))
             new == Merged(Seen(p, k))
  <2>1. k \in run[p].todo /\ Update(old, new) /\ run' = [run EXCEPT ![p].doing = k]
    BY <1>3, FirstIs DEF MergeDocuments
  <2>2. /\ Seen(p, k) # {} /\ OldestOf(Seen(p, k)) /\ Seen(p, k) \in SUBSET DocumentState
        /\ \A d \in Seen(p, k) : Remembered(d) /\ KeyOf(d) = k /\ NameActive(d)
    BY <1>1, <2>1, SeenSome
  <2>3. old \in Seen(p, k) /\ new.id = old.id /\ KeyOf(new) = KeyOf(old)
    BY <2>2, MergedIs
  <2>4. Remembered(old)
    BY <2>2, <2>3
  <2>5. run'[p].pc = "merge" /\ \A q \in Processes \ {p} : run'[q] = run[q]
    BY <1>1, <2>1, PlaceFacts DEF RunType
  <2> HIDE DEF old, new
  <2>6. OneEach'
    BY <1>2, <2>1, <2>3, <2>4, UpdateOne
  <2>7. Certain(p)'
    BY <2>5 DEF Certain, Finding
  <2>8. "merge" \notin Reading /\ "merge" \notin Recounting
    BY DEF Reading, Recounting
  <2> QED BY <1>1, <2>5, <2>6, <2>7, <2>8, QuietKeeps
<1>4. CASE DropDuplicates(p)
  <2>1. Goto(p, "merge", run[p].todo \ {run[p].doing}) /\ docs' \subseteq docs
    BY <1>4 DEF DropDuplicates
  <2>2. OneEach'
    BY <1>2, <2>1 DEF OneEach
  <2>3. "merge" \notin Reading /\ "merge" \notin Recounting
    BY DEF Reading, Recounting
  <2> QED BY <1>1, <2>1, <2>2, <2>3, QuietGoto
<1> QED BY <1>3, <1>4

\* What is read is complete: the fields go only after the evidence was sealed,
\* or at the end of a run that has read them all.
LEMMA CalmRead ==
  ASSUME IdentityInd, CalmInv, Calm, NEW p \in Processes, ReadLegacy(p)
  PROVE  CalmInv'
<1>1. /\ run[p].pc = "merge" /\ run[p].doing = NoKey
      /\ legacy' = legacy /\ bundle' = bundle /\ workers' = workers
      /\ lock' = lock /\ UNCHANGED store
      /\ run' = [run EXCEPT ![p] = [@ EXCEPT !.pc = "members", !.todo = MemberKeys,
                                             !.stale = {}, !.owners = owner,
                                             !.raw = workers]]
  BY DEF ReadLegacy, At, fields, outcome
<1>2. /\ lock = p /\ OneEach /\ EvidenceRight
      /\ \A q \in Processes \ {p} : run[q].pc = "idle"
  BY <1>1, OnlyOne
<1>3. /\ run'[p].pc = "members" /\ run'[p].raw = workers /\ run'[p].doing = NoKey
      /\ \A q \in Processes \ {p} : run'[q] = run[q]
  BY <1>1, PlaceFacts DEF RunType
<1>4. bundle.sealed \/ workers = Full
  BY <1>1, <1>2 DEF EvidenceRight, Recounting
<1>5. EvidenceAt(p)' /\ Certain(p)'
  BY <1>1, <1>3, <1>4, FullStays DEF EvidenceAt, Certain
<1>6. OneEach'
  BY <1>1, <1>2, QuietOne
<1>7. bundle'.sealed => bundle'.raw = Full'
  BY <1>1, <1>2, FullStays DEF EvidenceRight
<1>8. bundle'.sealed \/ workers' = Full' \/ run'[p].pc \in Recounting
  BY <1>1, <1>4, FullStays
<1> QED BY <1>1, <1>2, <1>3, <1>5, <1>6, <1>7, <1>8, CalmAssemble

LEMMA CalmFind ==
  ASSUME IdentityInd, CalmInv, Calm, NEW p \in Processes, FindMember(p) \/ FindFallback(p)
  PROVE  CalmInv'
<1>1. /\ run[p].pc \in Reading \ Recounting /\ run[p].pc # "idle"
      /\ legacy' = legacy /\ bundle' = bundle /\ workers' = workers
      /\ lock' = lock /\ UNCHANGED store
  <2>1. run[p].pc \in {"members", "external", "team", "bound"}
        /\ UNCHANGED <<legacy, store, fields, outcome, lock>>
    BY MemberSought, FallbackSought
  <2> QED BY <2>1 DEF fields, outcome, Reading, Recounting
<1>2. \E k, found : \E pc \in Finding : Remembers(p, pc, k, found)
  BY MemberSought, FallbackSought DEF Finding
<1>3. PICK k, found, pc : pc \in Finding /\ Remembers(p, pc, k, found)
  BY <1>2
<1>4. /\ run'[p].pc = pc /\ run'[p].doing = k /\ run'[p].found = found
      /\ run'[p].raw = run[p].raw /\ \A q \in Processes \ {p} : run'[q] = run[q]
  BY <1>3, RememberFields
<1>5. found = NoDoc => Holding(k) = {}
  BY <1>3, IdFacts, PlaceFacts DEF Holding, DocsRight, Remembers
<1>6. found = NoDoc => ~Held(k)
  BY <1>5, HeldIs
<1>7. Certain(p)'
  BY <1>1, <1>4, <1>6 DEF Certain, Held, KeyOf, store
<1>8. OneEach'
  BY <1>1, OnlyOne, QuietOne
<1>9. pc \notin {"verify", "write", "seal"}
  BY <1>3 DEF Finding
<1> QED BY <1>1, <1>4, <1>7, <1>8, <1>9, QuietKeeps

\* An insert follows a search that found nothing, and nobody else writes.
LEMMA CalmWrite ==
  ASSUME IdentityInd, CalmInv, Calm, NEW p \in Processes, InsertMember(p) \/ UpdateMember(p)
  PROVE  CalmInv'
<1> DEFINE k == run[p].doing
           todo == run[p].todo \ {k}
<1>1. /\ run[p].pc \in Finding /\ k # NoKey
      /\ legacy' = legacy /\ bundle' = bundle /\ workers' = workers
  BY DEF InsertMember, UpdateMember, fields, outcome, Finding
<1>2. /\ run[p].pc \in Reading \ Recounting /\ run[p].pc # "idle"
      /\ run[p].pc \notin {"verify", "write", "seal"}
  BY <1>1 DEF Finding, Reading, Recounting
<1>3. OneEach /\ Certain(p)
  BY <1>2, OnlyOne
<1>4. CASE UpdateMember(p)
  <2> DEFINE m == Desired(p, k)
             old == run[p].found
             new == Upserted(old, m)
  <2>1. old # NoDoc /\ Update(old, new) /\ Goto(p, run[p].pc, todo) /\ lock' = lock
    BY <1>4 DEF UpdateMember
  <2>2. m.tags \subseteq Marks /\ m.status \in Standings
    BY <1>1, DesiredIs
  <2>3. Remembered(old) /\ old \in DocumentState /\ NameActive(old)
    BY <2>1, PlaceFacts DEF MemoryRight, Remembered
  <2> HIDE DEF m, old
  <2>4. new.id = old.id /\ KeyOf(new) = KeyOf(old)
    BY <2>2, <2>3, UpsertedIs
  <2> HIDE DEF new
  <2>5. OneEach'
    BY <1>3, <2>1, <2>3, <2>4, UpdateOne
  <2> HIDE DEF todo
  <2> QED BY <1>1, <1>2, <2>1, <2>5, QuietGoto
<1>5. CASE InsertMember(p)
  <2>1. run[p].found = NoDoc /\ ~Held(k)
    BY <1>1, <1>3, <1>5 DEF InsertMember, Certain
  <2>2. Holding(k) = {}
    BY <2>1, HeldIs
  <2> DEFINE m == Desired(p, k)
             new == [id |-> made + 1, group |-> k[1], subject |-> k[2], tags |-> m.tags,
                     status |-> m.status]
  <2>3. docs' = docs \cup {new} /\ Goto(p, run[p].pc, todo) /\ lock' = lock
    BY <1>5, <2>2 DEF InsertMember
  <2>4. k \in Keys
    BY <1>1, DesiredIs
  <2>5. KeyOf(new) = k /\ new.group = k[1] /\ new.subject = k[2]
    BY <2>4 DEF KeyOf, Keys
  <2> HIDE DEF new
  <2>6. \A d \in docs : ~(d.group = new.group /\ d.subject = new.subject)
    BY <2>1, <2>5 DEF Held, KeyOf
  <2>7. OneEach'
    BY <1>3, <2>3, <2>6 DEF OneEach
  <2> HIDE DEF todo, k
  <2> QED BY <1>1, <1>2, <2>3, <2>7, QuietGoto
<1> QED BY <1>4, <1>5

\* The steps that only go on to another place.
LEMMA CalmGo ==
  ASSUME IdentityInd, CalmInv, Calm, NEW p \in Processes,
         \/ FinishMembers(p) \/ MigrateStatus(p) \/ FinishExternal(p)
         \/ BindCandidate(p) \/ CreatePolicy(p) \/ FinishTeam(p) \/ SaveReports(p)
  PROVE  CalmInv'
<1>1. /\ run[p].pc \in Reading \ {"index", "files", "write", "seal", "verify"}
      /\ legacy' = legacy /\ UNCHANGED store /\ bundle' = bundle /\ workers' = workers
      /\ lock' = lock
  BY DEF FinishMembers, MigrateStatus, FinishExternal, BindCandidate, CreatePolicy, FinishTeam,
         SaveReports, At, Reading, fields, outcome
<1>2. \E pc, todo : /\ Goto(p, pc, todo) /\ pc \in Reading \ {"verify", "write", "seal"}
                    /\ run[p].pc \in Recounting => pc \in Recounting
  <2>1. CASE FinishMembers(p)
    BY <2>1 DEF FinishMembers, At, Reading, Recounting
  <2>2. CASE MigrateStatus(p)
    <3>1. /\ run[p].pc = "status"
          /\ \/ Goto(p, "external", WorkerKeys(run[p].raw))
             \/ Goto(p, "status", run[p].todo \ {First(run[p].todo)})
      BY <2>2 DEF MigrateStatus, At
    <3> QED BY <3>1 DEF Reading, Recounting
  <2>3. CASE FinishExternal(p)
    BY <2>3 DEF FinishExternal, At, Reading, Recounting
  <2>4. CASE BindCandidate(p)
    <3>1. run[p].pc = "owner" /\ Goto(p, "owner", run[p].todo \ {First(run[p].todo)})
      BY <2>4 DEF BindCandidate, At
    <3> QED BY <3>1 DEF Reading, Recounting
  <2>5. CASE CreatePolicy(p)
    BY <2>5 DEF CreatePolicy, At, Reading, Recounting
  <2>6. CASE FinishTeam(p)
    BY <2>6 DEF FinishTeam, At, Reading, Recounting
  <2>7. CASE SaveReports(p)
    BY <2>7 DEF SaveReports, At, Reading, Recounting
  <2> QED BY <2>1, <2>2, <2>3, <2>4, <2>5, <2>6, <2>7
<1>3. run[p].pc # "idle"
  BY <1>1 DEF Reading
<1>4. OneEach'
  BY <1>1, <1>3, OnlyOne, QuietOne
<1> QED BY <1>1, <1>2, <1>3, <1>4, QuietGoto

LEMMA CalmOwner ==
  ASSUME IdentityInd, CalmInv, Calm, NEW p \in Processes, KeepOwner(p) \/ BindFallback(p)
  PROVE  CalmInv'
<1>1. /\ run[p].pc = "owner" /\ run[p].doing = NoKey
      /\ legacy' = legacy /\ UNCHANGED store /\ bundle' = bundle /\ workers' = workers
      /\ lock' = lock
  BY DEF KeepOwner, BindFallback, At, fields, outcome
<1>2. /\ run'[p].raw = run[p].raw /\ \A q \in Processes \ {p} : run'[q] = run[q]
      /\ \/ run'[p].pc = "owner" /\ run'[p].doing = NoKey
         \/ run'[p].pc = "bound"
  <2>1. CASE KeepOwner(p)
    <3> DEFINE k == First(run[p].todo)
               q == Questionable(k[1], run[p].owners[k[1]])
    <3>1. run' = [run EXCEPT ![p] = [run[p] EXCEPT !.todo = run[p].todo \ {k},
                                                  !.issues = run[p].issues \/ q]]
      BY <2>1, Zenon DEF KeepOwner
    <3> HIDE DEF k, q
    <3> QED BY <1>1, <3>1, PlaceFacts DEF RunType
  <2>2. CASE BindFallback(p)
    <3> DEFINE k == First(run[p].todo)
    <3>1. run' = [run EXCEPT ![p] = [run[p] EXCEPT !.pc = "bound", !.todo = run[p].todo \ {k},
                                                  !.doing = <<k[1], Fallback>>]]
      BY <2>2, Zenon DEF BindFallback
    <3> HIDE DEF k
    <3> QED BY <1>1, <3>1, PlaceFacts DEF RunType
  <2> QED BY <2>1, <2>2
<1>3. Certain(p)'
  BY <1>2 DEF Certain, Finding
<1>4. OneEach'
  BY <1>1, OnlyOne, QuietOne
<1>5. "owner" \in Reading /\ "owner" \notin Recounting /\ "bound" \in Reading
  BY DEF Reading, Recounting
<1> QED BY <1>1, <1>2, <1>3, <1>4, <1>5, QuietKeeps

\* The fields go while a run is at its counters, and nothing fails from there
\* to the evidence.
LEMMA CalmRecount ==
  ASSUME IdentityInd, CalmInv, Calm, NEW p \in Processes, WriteCount(p)
  PROVE  CalmInv'
<1>1. /\ run[p].pc = "counted" /\ legacy' = legacy /\ UNCHANGED store /\ bundle' = bundle
      /\ lock' = lock
      /\ \/ Goto(p, "index", {})
         \/ Goto(p, "recount", run[p].todo \ {First(run[p].todo)})
  BY DEF WriteCount, At, outcome
<1>2. /\ lock = p /\ OneEach /\ EvidenceRight
      /\ \A q \in Processes \ {p} : run[q].pc = "idle"
  BY <1>1, OnlyOne
<1>3. /\ run'[p].pc \in {"index", "recount"} /\ run'[p].raw = run[p].raw
      /\ run'[p].doing = NoKey /\ \A q \in Processes \ {p} : run'[q] = run[q]
  BY <1>1, GotoIs
<1>4. EvidenceAt(p)' /\ Certain(p)'
  BY <1>1, <1>2, <1>3, FullStays DEF EvidenceRight, EvidenceAt, Certain, Reading
<1>5. OneEach'
  BY <1>1, <1>2, QuietOne
<1>6. bundle'.sealed => bundle'.raw = Full'
  BY <1>1, <1>2, FullStays DEF EvidenceRight
<1>7. run'[p].pc \in Recounting
  BY <1>3 DEF Recounting
<1> QED BY <1>1, <1>2, <1>3, <1>4, <1>5, <1>6, <1>7, CalmAssemble

LEMMA CalmCount ==
  ASSUME IdentityInd, CalmInv, Calm, NEW p \in Processes, CountMembers(p)
  PROVE  CalmInv'
<1>0. Counting(p)
  BY CountRun
<1>1. /\ run[p].pc = "recount" /\ run[p].doing = NoKey
      /\ legacy' = legacy /\ UNCHANGED store /\ bundle' = bundle /\ workers' = workers
      /\ lock' = lock
  BY ONLY <1>0 DEF Counting, fields, outcome
<1>2. /\ run'[p].pc = "counted" /\ run'[p].raw = run[p].raw /\ run'[p].doing = NoKey
      /\ \A q \in Processes \ {p} : run'[q] = run[q]
  BY <1>0, CountFields
<1>3. OneEach' /\ Certain(p)'
  BY <1>1, <1>2, OnlyOne, QuietOne DEF Certain
<1>4. "counted" \in Recounting /\ run[p].pc \in Reading
  BY <1>1 DEF Recounting, Reading
<1> QED BY <1>1, <1>2, <1>3, <1>4, QuietKeeps

LEMMA CalmIndexes ==
  ASSUME IdentityInd, CalmInv, Calm, NEW p \in Processes, EnsureIndexes(p)
  PROVE  CalmInv'
<1>1. /\ run[p].pc = "index" /\ legacy' = legacy /\ UNCHANGED store /\ bundle' = bundle
      /\ workers' = workers
  BY DEF EnsureIndexes, At, fields
<1>2. OneEach
  BY <1>1, OnlyOne
<1>3. Goto(p, "report", {}) /\ lock' = lock
  BY <1>2 DEF EnsureIndexes
<1>4. OneEach'
  BY <1>1, <1>2, QuietOne
<1>5. "report" \in Recounting /\ run[p].pc \in Reading
  BY <1>1 DEF Recounting, Reading
<1> QED BY <1>1, <1>3, <1>4, <1>5, QuietGoto

LEMMA CalmFiles ==
  ASSUME IdentityInd, CalmInv, Calm, NEW p \in Processes,
         LookForBundle(p) \/ WriteFiles(p) \/ SealBundle(p)
  PROVE  CalmInv'
<1>1. /\ run[p].pc \in {"files", "write", "seal"} /\ legacy' = legacy /\ UNCHANGED store
      /\ workers' = workers /\ lock' = lock
  BY DEF LookForBundle, WriteFiles, SealBundle, At, fields
<1>2. /\ lock = p /\ OneEach /\ EvidenceRight
      /\ \A q \in Processes \ {p} : run[q].pc = "idle"
  BY <1>1, OnlyOne
<1>3. run[p].pc \in Reading /\ run[p].pc \in Recounting
  BY <1>1 DEF Reading, Recounting
<1>4. OneEach'
  BY <1>1, <1>2, QuietOne
<1>5. CASE LookForBundle(p)
  <2>1. /\ bundle' = bundle
        /\ IF bundle.sealed THEN Goto(p, "verify", {}) ELSE Goto(p, "write", {})
    BY <1>5 DEF LookForBundle, Sealed, outcome
  <2>2. /\ run'[p].pc = IF bundle.sealed THEN "verify" ELSE "write"
        /\ run'[p].raw = run[p].raw /\ run'[p].doing = NoKey
        /\ \A q \in Processes \ {p} : run'[q] = run[q]
    BY <2>1, GotoIs
  <2>3. EvidenceAt(p)' /\ Certain(p)'
    BY <1>1, <1>2, <1>3, <2>1, <2>2, FullStays DEF EvidenceAt, EvidenceRight, Certain
  <2>4. bundle'.sealed => bundle'.raw = Full'
    BY <1>1, <1>2, <2>1, FullStays DEF EvidenceRight
  <2>5. bundle'.sealed \/ run'[p].pc \in Recounting
    BY <2>1, <2>2 DEF Recounting
  <2> QED BY <1>1, <1>2, <1>4, <2>2, <2>3, <2>4, <2>5, CalmAssemble
<1>6. CASE WriteFiles(p)
  <2>1. Goto(p, "seal", {}) /\ bundle' = [sealed |-> FALSE, raw |-> run[p].raw]
        /\ run[p].pc = "write"
    BY <1>6 DEF WriteFiles, At
  <2>2. run[p].raw = Full
    BY <1>2, <1>3, <2>1 DEF EvidenceRight, EvidenceAt
  <2>3. /\ run'[p].pc = "seal" /\ run'[p].raw = run[p].raw /\ run'[p].doing = NoKey
        /\ \A q \in Processes \ {p} : run'[q] = run[q]
    BY <2>1, GotoIs
  <2>4. /\ bundle'.sealed = FALSE /\ bundle'.raw = Full' /\ run'[p].raw = Full'
    BY <1>1, <2>1, <2>2, <2>3, FullStays
  <2>5. EvidenceAt(p)' /\ Certain(p)'
    BY <2>3, <2>4 DEF EvidenceAt, Certain
  <2>6. run'[p].pc \in Recounting
    BY <2>3 DEF Recounting
  <2> QED BY <1>1, <1>2, <1>4, <2>3, <2>4, <2>5, <2>6, CalmAssemble
<1>7. CASE SealBundle(p)
  <2>1. run[p].pc = "seal" /\ Goto(p, "verify", {}) /\ bundle' = [bundle EXCEPT !.sealed = TRUE]
    BY <1>7 DEF SealBundle, At
  <2>2. bundle.raw = Full
    BY <1>2, <2>1 DEF EvidenceRight, EvidenceAt
  <2>3. bundle'.sealed = TRUE /\ bundle'.raw = Full
    BY <2>1, <2>2, PlaceFacts DEF RestRight
  <2>4. /\ run'[p].pc = "verify" /\ run'[p].doing = NoKey
        /\ \A q \in Processes \ {p} : run'[q] = run[q]
    BY <2>1, GotoIs
  <2>5. EvidenceAt(p)' /\ Certain(p)'
    BY <2>3, <2>4 DEF EvidenceAt, Certain
  <2> QED BY <1>1, <1>2, <1>4, <2>3, <2>4, <2>5, FullStays, CalmAssemble
<1> QED BY <1>5, <1>6, <1>7

LEMMA CalmVerify ==
  ASSUME IdentityInd, CalmInv, Calm, NEW p \in Processes, Verify(p)
  PROVE  CalmInv'
<1>1. /\ run[p].pc = "verify" /\ legacy' = legacy /\ UNCHANGED store /\ bundle' = bundle
      /\ workers' = workers /\ run' = [run EXCEPT ![p] = Idle]
  BY DEF Verify, Leave, At, fields
<1>2. /\ run'[p].pc = "idle" /\ \A q \in Processes \ {p} : run'[q] = run[q]
  BY <1>1, PlaceFacts DEF Idle
<1>3. OneEach' /\ Certain(p)'
  BY <1>1, <1>2, OnlyOne, QuietOne DEF Certain, Finding
<1>4. "verify" \notin Recounting /\ "idle" \notin Reading
  BY DEF Recounting, Reading
<1> QED BY <1>1, <1>2, <1>3, <1>4, QuietKeeps

LEMMA CalmStep ==
  ASSUME IdentityInd, CalmInv, [Next]_vars
  PROVE  CalmInv'
<1> SUFFICES ASSUME Calm' PROVE CalmInv'
  BY DEF CalmInv, Calm, Alone, Certain, EvidenceRight, EvidenceAt
<1>1. deaths \in Nat /\ overruns \in Nat
  BY DEF IdentityInd, IdentityTypes, RestRight
<1>2. ASSUME NEW p \in Processes PROVE ~Die(p)
  BY <1>1 DEF Die, Calm
<1>3. ~Overrun
  BY <1>1 DEF Overrun, Calm
<1>4. CASE UNCHANGED vars
  BY <1>4, QuietOne
     DEF vars, outcome, faults, fields, store, Calm, CalmInv, Alone, Certain, Held, KeyOf, OneEach,
         EvidenceRight, EvidenceAt, Full
<1>5. CASE ExpireLease
  <2>1. Calm
    BY <1>5 DEF ExpireLease, faults, Calm
  <2> QED BY <1>5, <2>1, CalmLease
<1>6. ASSUME NEW p \in Processes, Start(p) PROVE CalmInv'
  <2>1. Calm
    BY <1>6 DEF Start, faults, Calm
  <2> QED BY <1>6, <2>1, CalmStart
<1>7. ASSUME NEW p \in Processes, UpStep(p) PROVE CalmInv'
  <2>1. Calm
    BY <1>7, UpLeaves DEF faults, Calm
  <2> QED BY <1>7, <2>1, CalmMerge, CalmRead, CalmFind, CalmWrite, CalmGo, CalmOwner,
             CalmCount, CalmRecount, CalmIndexes, CalmFiles, CalmVerify DEF UpStep
<1> QED BY <1>2, <1>3, <1>4, <1>5, <1>6, <1>7 DEF Next

\* Without a death or an overlap no run reads late or writes over a sealed bundle.
Sighted == blind => Interrupted

LEMMA SightedStep ==
  ASSUME IdentityInd, CalmInv, Sighted, [Next]_vars
  PROVE  Sighted'
<1>1. deaths \in Nat /\ overruns \in Nat
  BY DEF IdentityInd, IdentityTypes, RestRight
<1>2. ASSUME NEW p \in Processes, UpStep(p) PROVE Sighted'
  <2>1. deaths' = deaths /\ overruns' = overruns /\ run[p].pc # "idle"
    BY <1>2, UpLeaves DEF faults
  <2>2. CASE ReadLegacy(p) /\ Calm
    <3>1. run[p].pc = "merge" /\ blind' = (blind \/ (workers # Full /\ ~bundle.sealed))
      BY <2>2 DEF ReadLegacy, At
    <3>2. EvidenceRight /\ \A q \in Processes \ {p} : run[q].pc = "idle"
      BY <2>1, <2>2, OnlyOne
    <3>3. bundle.sealed \/ workers = Full
      BY <3>1, <3>2 DEF EvidenceRight, Recounting
    <3> QED BY <2>1, <2>2, <3>1, <3>3 DEF Sighted, Interrupted
  <2>3. CASE WriteFiles(p) /\ Calm
    <3>1. run[p].pc = "write" /\ blind' = (blind \/ bundle.sealed)
      BY <2>3 DEF WriteFiles, At
    <3>2. ~bundle.sealed
      BY <2>1, <2>3, <3>1, OnlyOne DEF EvidenceRight, EvidenceAt
    <3> QED BY <2>1, <2>3, <3>1, <3>2 DEF Sighted, Interrupted
  <2>4. CASE ~Calm
    BY <1>1, <2>1, <2>4 DEF Calm, Sighted, Interrupted
  <2>5. CASE blind' = blind
    BY <2>1, <2>5 DEF Sighted, Interrupted
  <2> QED BY <1>2, <2>2, <2>3, <2>4, <2>5, UpLeaves
<1>4. ASSUME NEW p \in Processes, Start(p) \/ Die(p) PROVE Sighted'
  <2>1. blind' = blind /\ (UNCHANGED faults \/ (deaths' = deaths + 1 /\ overruns' = overruns))
    BY <1>4 DEF Start, Die, marks, faults
  <2> QED BY <1>1, <2>1 DEF faults, Sighted, Interrupted
<1>5. CASE ExpireLease \/ Overrun
  <2>1. blind' = blind /\ (UNCHANGED faults \/ (overruns' = overruns + 1 /\ deaths' = deaths))
    BY <1>5 DEF ExpireLease, Overrun, marks, faults
  <2> QED BY <1>1, <2>1 DEF faults, Sighted, Interrupted
<1>6. CASE UNCHANGED vars
  BY <1>6 DEF vars, faults, marks, Sighted, Interrupted
<1> QED BY <1>2, <1>4, <1>5, <1>6 DEF Next

\* While nobody is blind, whoever has read the projects has read them all or finds
\* a sealed bundle, and what is written before the checksums is complete.
EvidenceSeen(p) ==
  /\ run[p].pc \in Reading => run[p].raw = Full \/ bundle.sealed
  /\ run[p].pc = "seal" => bundle.raw = Full
SightInv ==
  ~blind => /\ bundle.sealed => bundle.raw = Full
            /\ \A p \in Processes : EvidenceSeen(p)

LEMMA SightUp ==
  ASSUME IdentityInd, SightInv, NEW p \in Processes, UpStep(p), ~blind'
  PROVE  SightInv'
<1>1. legacy' = legacy /\ ~blind /\ Full' = Full
  <2>1. legacy' = legacy
    BY UpLeaves
  <2>2. ~blind
    <3>1. CASE ReadLegacy(p)
      BY <3>1 DEF ReadLegacy
    <3>2. CASE WriteFiles(p)
      BY <3>2 DEF WriteFiles
    <3> QED BY <3>1, <3>2, UpLeaves
  <2> QED BY <2>1, <2>2, FullStays
<1>2. /\ bundle.sealed => bundle.raw = Full
      /\ \A q \in Processes : EvidenceSeen(q)
  BY <1>1 DEF SightInv
<1>3. /\ \A q \in Processes \ {p} : run'[q] = run[q]
      /\ run'[p].pc = "seal" => WriteFiles(p)
  BY UpOnwards DEF Onwards
<1>4. CASE WriteFiles(p)
  <2>1. /\ run[p].pc = "write" /\ Goto(p, "seal", {}) /\ ~bundle.sealed
        /\ bundle' = [sealed |-> FALSE, raw |-> run[p].raw]
    BY <1>4 DEF WriteFiles, At
  <2>2. run[p].raw = Full
    BY <1>2, <2>1 DEF EvidenceSeen, Reading
  <2>3. bundle'.sealed = FALSE /\ bundle'.raw = Full
    BY <2>1, <2>2
  <2>4. EvidenceSeen(p)'
    BY <1>1, <2>1, <2>2, <2>3, GotoIs DEF EvidenceSeen
  <2>5. \A q \in Processes \ {p} : EvidenceSeen(q)'
    BY <1>1, <1>2, <1>3, <2>1, <2>3 DEF EvidenceSeen
  <2> QED BY <2>3, <2>4, <2>5 DEF SightInv
<1>5. CASE SealBundle(p)
  <2>1. /\ run[p].pc = "seal" /\ Goto(p, "verify", {})
        /\ bundle' = [bundle EXCEPT !.sealed = TRUE]
    BY <1>5 DEF SealBundle, At
  <2>2. bundle'.sealed = TRUE /\ bundle'.raw = Full
    BY <1>2, <2>1, PlaceFacts DEF EvidenceSeen, RestRight
  <2>3. \A q \in Processes : EvidenceSeen(q)'
    BY <1>1, <2>2 DEF EvidenceSeen
  <2> QED BY <1>1, <2>2, <2>3 DEF SightInv
<1>6. CASE ~WriteFiles(p) /\ ~SealBundle(p)
  <2>1. bundle' = bundle
    BY <1>6, UpLeaves
  <2>2. run'[p].pc \in Reading => run'[p].raw = Full \/ bundle.sealed
    <3>1. CASE ReadLegacy(p)
      <4>1. run'[p].raw = workers /\ (workers = Full \/ bundle.sealed)
        BY <3>1, PlaceFacts DEF ReadLegacy, RunType
      <4> QED BY <4>1
    <3>2. CASE ~ReadLegacy(p)
      BY <1>2, <3>2, UpOnwards DEF Onwards, EvidenceSeen, Reading
    <3> QED BY <3>1, <3>2
  <2>3. EvidenceSeen(p)'
    BY <1>1, <1>3, <1>6, <2>1, <2>2 DEF EvidenceSeen
  <2>4. \A q \in Processes \ {p} : EvidenceSeen(q)'
    BY <1>1, <1>2, <1>3, <2>1 DEF EvidenceSeen
  <2> QED BY <1>1, <1>2, <2>1, <2>3, <2>4 DEF SightInv
<1> QED BY <1>4, <1>5, <1>6

LEMMA SightStep ==
  ASSUME IdentityInd, SightInv, [Next]_vars
  PROVE  SightInv'
<1>1. ASSUME NEW p \in Processes, UpStep(p) PROVE SightInv'
  BY <1>1, SightUp DEF SightInv
<1>2. ASSUME NEW p \in Processes, Start(p) \/ Die(p) PROVE SightInv'
  <2>1. /\ legacy' = legacy /\ bundle' = bundle /\ blind' = blind
        /\ run'[p].pc \notin Reading /\ \A q \in Processes \ {p} : run'[q] = run[q]
    <3>1. CASE Start(p)
      <4> DEFINE r == [Idle EXCEPT !.pc = "merge", !.stale = docs,
                                   !.todo = {<<d.group, d.subject>> : d \in docs}]
      <4>1. r.pc = "merge"
        BY DEF Idle
      <4>2. run' = [run EXCEPT ![p] = r]
            /\ UNCHANGED <<legacy, store, fields, outcome, faults, marks>>
        BY <3>1, Zenon DEF Start
      <4> HIDE DEF r
      <4> QED BY <4>1, <4>2, PlaceFacts DEF outcome, marks, Reading
    <3>2. CASE Die(p)
      BY <3>2, PlaceFacts DEF Die, outcome, marks, Idle, Reading
    <3> QED BY <1>2, <3>1, <3>2
  <2>2. Full' = Full /\ run'[p].pc # "seal"
    BY <2>1, FullStays DEF Reading
  <2> QED BY <2>1, <2>2 DEF SightInv, EvidenceSeen
<1>3. CASE ExpireLease \/ Overrun \/ UNCHANGED vars
  <2>1. legacy' = legacy /\ bundle' = bundle /\ blind' = blind /\ run' = run
    BY <1>3 DEF ExpireLease, Overrun, vars, outcome, marks
  <2>2. Full' = Full
    BY <2>1, FullStays
  <2> QED BY <2>1, <2>2 DEF SightInv, EvidenceSeen
<1> QED BY <1>1, <1>2, <1>3 DEF Next

\* Through any number of runs killed or overtaken, a sealed bundle accounts for
\* every project that had workers, until a run reads what another has begun to
\* drop while no sealed bundle is left, or writes over a bundle sealed since it
\* looked; and without a killed or overtaken run nobody does.
THEOREM EvidenceHolds == Spec => []EvidenceSurvives
<1>1. Init => IdentityInd /\ CalmInv /\ Sighted /\ SightInv
  <2>1. Init => CalmInv
    BY DEF Init, CalmInv, Alone, Certain, OneEach, EvidenceRight, EvidenceAt, Full, Idle,
           Finding, Reading
  <2>2. Init => Sighted /\ SightInv
    BY DEF Init, Sighted, SightInv, EvidenceSeen, Idle, Reading
  <2> QED BY <2>1, <2>2, IdentityInit
<1>2. IdentityInd /\ CalmInv /\ Sighted /\ SightInv /\ [Next]_vars
        => (IdentityInd /\ CalmInv /\ Sighted /\ SightInv)'
  BY IdentityStep, CalmStep, SightedStep, SightStep
<1>3. Sighted /\ SightInv => EvidenceSurvives
  BY DEF Sighted, SightInv, EvidenceSurvives
<1> QED BY <1>1, <1>2, <1>3, PTL DEF Spec

(* ---------------------------- what is right --------------------------- *)

\* What a document of a subject may say, by the legacy data: the projected
\* state, what stands for a name or for the team's member, or the fallback's
\* share.  Only a fallback who was projected has two of them.
State(d) == [tags |-> d.tags, status |-> d.status]
Plain(g, u) == CHOOSE m \in Projected(g, u) : TRUE
Credited == [tags |-> {"credited"}, status |-> "active"]
InTeam(u) == [tags |-> Highest(RelationTags(Team, u)), status |-> "active"]
Bound(g) == [tags |-> {"creator"} \cup UNION {m.tags : m \in Projected(g, Fallback)},
             status |-> "active"]
Bindable(k) == k[1] \in Projects /\ k[2] = Fallback /\ NeedsFallback(k[1])
Wanted(k, m) ==
  \/ k \in MemberKeys /\ m = Plain(k[1], k[2])
  \/ k \in WorkerKeys(Projects) /\ m = Credited
  \/ k \in TeamKeys /\ m = InTeam(k[2])
  \/ Bindable(k) /\ m = Bound(k[1])
RightDoc(d) == Wanted(KeyOf(d), State(d))
DocsWanted ==
  /\ \A d \in docs : RightDoc(d)
  /\ \A p \in Processes : /\ \A d \in run[p].stale : RightDoc(d)
                          /\ run[p].found # NoDoc => RightDoc(run[p].found)

\* Without an overrun the holder of the lock is alone, so that what it has read
\* is what there is.
Current(p) ==
  /\ run[p].stale \subseteq docs
  /\ run[p].found # NoDoc => run[p].found \in docs
OnlyRun ==
  /\ OneEach /\ \A p \in Processes : Alone(p) /\ Certain(p) /\ Current(p)
  /\ recorded => \A p \in Processes : run[p].pc = "idle"

\* The owner is settled, and a fallback is a member as well.
FallbackDone(g) == \E d \in docs : KeyOf(d) = <<g, Fallback>> /\ "creator" \in d.tags
Done(g) ==
  /\ owner[g] = OwnerByRight(g)
  /\ Serial /\ NeedsFallback(g) => FallbackDone(g)
AtHand(p, g) ==
  /\ run[p].pc \in {"owner", "bound"} /\ run[p].doing # NoKey /\ run[p].doing[1] = g
  /\ owner[g] = OwnerByRight(g)

Ending == {"recount", "counted", "index", "report", "files", "write", "seal", "verify"}
Progress(p) ==
  LET r == run[p] IN
  /\ r.pc # "merge" => r.stale = {}
  /\ r.pc = "members" => \A k \in MemberKeys \ r.todo : Held(k)
  /\ r.pc \in Reading \ {"members"} => \A k \in MemberKeys : Held(k)
  /\ r.pc = "team" => \A k \in TeamKeys \ r.todo : Held(k)
  /\ r.pc \in Ending => \A k \in TeamKeys : Held(k)
  /\ r.pc \in {"team"} \cup Ending => policy
  /\ r.pc \in Reading => \A g \in Projects : r.owners[g] \in {legacy.owner[g], owner[g]}
  /\ r.pc \in {"owner", "bound"} /\ r.doing # NoKey => Bindable(r.doing)
  /\ r.pc \in {"owner", "bound"} /\ ~r.issues =>
       \A g \in Projects : <<g, NoUser>> \in r.todo \/ AtHand(p, g) \/ Done(g)
  /\ r.pc \in {"team"} \cup Ending /\ ~r.issues => \A g \in Projects : Done(g)

FieldsRight ==
  \A g \in Projects : /\ owner[g] \in {legacy.owner[g], OwnerByRight(g)}
                      /\ status[g] \in {legacy.status[g], Normal(legacy.status[g])}

\* What is recorded stays: there is a document for every subject, and whoever
\* still runs up() writes what is there.
Complete == \A k \in MemberKeys \cup TeamKeys \cup WorkerKeys(Projects) : Held(k)
RecordRight ==
  /\ indexed /\ policy /\ workers = {} /\ Complete
  /\ \A g \in Projects : Done(g) /\ status[g] = Normal(legacy.status[g])
  /\ Serial => \A g \in Groups : CountRight(g)

MigInd ==
  /\ Serial => DocsWanted
  /\ overruns = 0 => OnlyRun
  /\ indexed => OneEach
  /\ \A p \in Processes : Progress(p)
  /\ FieldsRight
  /\ summary = "clean" => \A g \in Projects : Done(g)
  /\ recorded => RecordRight

LEMMA RightFacts ==
  ASSUME legacy' = legacy
  PROVE  /\ \A k, m : Wanted(k, m)' = Wanted(k, m)
         /\ \A g : /\ OwnerByRight(g)' = OwnerByRight(g) /\ NeedsFallback(g)' = NeedsFallback(g)
                   /\ Candidates(g)' = Candidates(g)
         /\ \A k : Bindable(k)' = Bindable(k)
<1>1. \A g, u : RelationTags(g, u)' = RelationTags(g, u)
  BY DEF RelationTags
<1>2. \A g, u : FromEvents(g, u)' = FromEvents(g, u)
  BY DEF FromEvents, LastEvent, EventStatus
<1>3. \A g, u : Projected(g, u)' = Projected(g, u)
  BY <1>1, <1>2 DEF Projected
<1>4. \A g : Candidates(g)' = Candidates(g)
  BY <1>1 DEF Candidates
<1>5. Fallback' = Fallback /\ MemberKeys' = MemberKeys /\ TeamKeys' = TeamKeys
      /\ WorkerKeys(Projects)' = WorkerKeys(Projects)
  BY LegacyFacts
<1>6. \A g : NeedsFallback(g)' = NeedsFallback(g)
  BY <1>4 DEF NeedsFallback
<1>7. \A g : OwnerByRight(g)' = OwnerByRight(g)
  <2> TAKE g
  <2>1. (CHOOSE u \in Candidates(g) : TRUE)' = CHOOSE u \in Candidates(g) : TRUE
    BY <1>4
  <2> QED BY <1>4, <1>5, <2>1 DEF OwnerByRight
<1>8. \A k : Bindable(k)' = Bindable(k)
  BY <1>5, <1>6 DEF Bindable
<1>9. \A g, u : Plain(g, u)' = Plain(g, u) /\ Bound(g)' = Bound(g)
  BY <1>3, <1>5 DEF Plain, Bound
<1>10. \A u : InTeam(u)' = InTeam(u)
  BY <1>1 DEF InTeam
<1>11. \A k, m : Wanted(k, m)' = Wanted(k, m)
  BY <1>5, <1>8, <1>9, <1>10 DEF Wanted, Credited
<1> QED BY <1>4, <1>6, <1>7, <1>8, <1>11

\* What no step undoes.
Steady ==
  /\ legacy' = legacy /\ (Serial' => Serial) /\ StoreMoves
  /\ policy => policy'
  /\ \A g \in Projects :
       /\ owner'[g] \in {owner[g], OwnerByRight(g)}
       /\ status'[g] \in {status[g], Normal(status[g])}
       /\ Serial /\ NeedsFallback(g) /\ FallbackDone(g) => FallbackDone(g)'

LEMMA DoneKept ==
  ASSUME Steady, NEW g \in Projects, Done(g)
  PROVE  Done(g)'
BY RightFacts DEF Steady, Done

LEMMA ProgressKept ==
  ASSUME Steady, FieldsRight, NEW p, Progress(p), run'[p] = run[p]
  PROVE  Progress(p)'
<1>1. MemberKeys' = MemberKeys /\ TeamKeys' = TeamKeys
  BY LegacyFacts DEF Steady
<1>2. \A k : Held(k) => Held(k)'
  BY HeldKept DEF Steady
<1>3. \A g \in Projects : (Done(g) => Done(g)') /\ OwnerByRight(g)' = OwnerByRight(g)
  BY DoneKept, RightFacts DEF Steady
<1>4. \A g \in Projects : AtHand(p, g) => AtHand(p, g)'
  BY <1>3 DEF AtHand, Steady
<1>5. legacy' = legacy /\ (policy => policy')
  BY DEF Steady
<1>6. \A o : \A g \in Projects : o \in {legacy.owner[g], owner[g]} =>
        o \in {legacy'.owner[g], owner'[g]}
  BY DEF Steady, FieldsRight
<1>7. \A k : Bindable(k)' = Bindable(k)
  BY <1>5, RightFacts
<1> HIDE DEF Steady
<1> QED BY <1>1, <1>2, <1>3, <1>4, <1>5, <1>6, <1>7 DEF Progress

LEMMA FieldsKept ==
  ASSUME Steady, FieldsRight
  PROVE  FieldsRight'
<1>1. \A s : Normal(Normal(s)) = Normal(s)
  BY DEF Normal
<1> QED BY <1>1, RightFacts DEF Steady, FieldsRight, Normal

LEMMA RecordKept ==
  ASSUME Steady, RecordRight, indexed' = indexed, workers' \subseteq workers,
         Serial' => \A g \in Groups : CountRight(g)'
  PROVE  RecordRight'
<1>1. MemberKeys' = MemberKeys /\ TeamKeys' = TeamKeys
      /\ WorkerKeys(Projects)' = WorkerKeys(Projects)
  BY LegacyFacts DEF Steady
<1>2. Complete'
  BY <1>1, HeldKept DEF Steady, Complete, RecordRight
<1>3. \A s : Normal(Normal(s)) = Normal(s)
  BY DEF Normal
<1>4. \A g \in Projects : Done(g)' /\ status'[g] = Normal(legacy'.status[g])
  BY <1>3, DoneKept DEF Steady, RecordRight, Normal
<1>5. indexed' /\ policy' /\ workers' = {}
  BY DEF RecordRight, Steady
<1> QED BY <1>2, <1>4, <1>5 DEF RecordRight

\* A step of one process.
LEMMA MigAssemble ==
  ASSUME IdentityInd, MigInd, Steady, NEW p \in Processes,
         \A q \in Processes \ {p} : run'[q] = run[q], overruns' = overruns,
         Serial => /\ \A d \in docs' : RightDoc(d)
                   /\ \A d \in run'[p].stale : RightDoc(d)
                   /\ run'[p].found # NoDoc => RightDoc(run'[p].found),
         overruns = 0 => /\ \A q \in Processes \ {p} : run[q].pc = "idle"
                         /\ OneEach' /\ Alone(p)' /\ Certain(p)' /\ Current(p)'
                         /\ recorded' => run'[p].pc = "idle",
         indexed' => OneEach', Progress(p)',
         summary' = "clean" => \A g \in Projects : Done(g)',
         recorded' => RecordRight'
  PROVE  MigInd'
<1>1. Serial' => DocsWanted'
  <2> SUFFICES ASSUME Serial' PROVE DocsWanted'
    OBVIOUS
  <2>1. Serial /\ DocsWanted
    BY DEF Steady, MigInd
  <2>a. \A k, m : Wanted(k, m)' = Wanted(k, m)
    BY RightFacts DEF Steady
  <2>2. \A d : RightDoc(d)' = RightDoc(d)
    BY <2>a, Zenon DEF RightDoc, KeyOf, State
  <2>3. \A d \in docs' : RightDoc(d)'
    BY <2>1, <2>2
  <2>4. \A d \in run'[p].stale : RightDoc(d)'
    BY <2>1, <2>2
  <2>5. \A d : d = run'[p].found /\ d # NoDoc => RightDoc(d)'
    BY <2>1, <2>2
  <2>6. \A q \in Processes \ {p} : \A d \in run'[q].stale : RightDoc(d)'
    BY <2>1, <2>2 DEF DocsWanted
  <2>7. \A q \in Processes \ {p} : \A d : d = run'[q].found /\ d # NoDoc => RightDoc(d)'
    BY <2>1, <2>2 DEF DocsWanted
  <2> QED BY <2>3, <2>4, <2>5, <2>6, <2>7 DEF DocsWanted, RightDoc, KeyOf, State
<1>2. overruns' = 0 => OnlyRun'
  <2> SUFFICES ASSUME overruns = 0 PROVE OnlyRun'
    OBVIOUS
  <2>1. ASSUME NEW q \in Processes \ {p}
        PROVE  run'[q].pc = "idle" /\ run'[q].stale = {} /\ run'[q].found = NoDoc
    BY PlaceFacts DEF MigInd, Progress, ProcessRight, Finding
  <2>2. \A q \in Processes \ {p} : (Alone(q) /\ Certain(q) /\ Current(q))'
    BY <2>1 DEF Alone, Certain, Current, Finding
  <2> QED BY <2>1, <2>2 DEF OnlyRun
<1>3. \A q \in Processes : Progress(q)'
  BY ProgressKept DEF MigInd
<1>4. FieldsRight'
  BY FieldsKept DEF MigInd
<1> QED BY <1>1, <1>2, <1>3, <1>4 DEF MigInd

LEMMA SerialStays ==
  ASSUME legacy' = legacy, overruns' = overruns \/ overruns' # 0
  PROVE  Serial' => Serial
<1>1. \A g : NeedsFallback(g)' = NeedsFallback(g)
  BY RightFacts
<1> QED BY <1>1 DEF Serial

\* Without an overrun whoever is at work holds the lock and is the only one.
LEMMA AtWork ==
  ASSUME MigInd, overruns = 0, NEW p \in Processes, run[p].pc # "idle"
  PROVE  /\ lock = p /\ \A q \in Processes \ {p} : run[q].pc = "idle"
         /\ ~recorded /\ OneEach /\ Certain(p) /\ Current(p)
BY DEF MigInd, OnlyRun, Alone

\* A counter stays, is right, or is written late by a process that was overtaken.
CountMove(g) ==
  \/ count'[g] = count[g] /\ miscounts' = miscounts
  \/ count'[g] = count[g] /\ (g \in miscounts => g \in miscounts')
  \/ count'[g] = Cardinality(Active(g))
  \/ overruns > 0 /\ g \in miscounts'

\* The fields move to what is right, and an owner that is settled stays.
FieldsMove ==
  /\ workers' \subseteq workers /\ (policy => policy')
  /\ \A g \in Projects : /\ owner'[g] \in {owner[g], OwnerByRight(g)}
                         /\ status'[g] \in {status[g], Normal(status[g])}
  /\ \A g \in Groups : CountMove(g)

LEMMA FieldsStay ==
  ASSUME UNCHANGED fields, miscounts' = miscounts
  PROVE  FieldsMove
BY DEF fields, FieldsMove, CountMove

\* A step of somebody at work that leaves the documents alone.
LEMMA MigQuiet ==
  ASSUME IdentityInd, MigInd, NEW p \in Processes, run[p].pc # "idle",
         \A q \in Processes \ {p} : run'[q] = run[q],
         legacy' = legacy, UNCHANGED store, overruns' = overruns,
         lock' = lock \/ run'[p].pc = "idle", workers' \subseteq workers,
         indexed' = indexed \/ (OneEach /\ indexed'), policy => policy',
         \A g \in Projects : /\ owner'[g] \in {owner[g], OwnerByRight(g)}
                             /\ status'[g] \in {status[g], Normal(status[g])},
         \A g \in Groups : CountMove(g),
         summary' = "clean" => \A g \in Projects : Done(g),
         recorded' => RecordRight, recorded' => recorded \/ run'[p].pc = "idle",
         run'[p].stale \in {run[p].stale, {}},
         \A d : d = run'[p].found => d \in docs \cup {NoDoc, run[p].found},
         Certain(p)', Progress(p)'
  PROVE  MigInd'
<1>1. docs' = docs /\ made' = made /\ StoreMoves
  BY PlaceFacts, StoreStays DEF store
<1>2. \A g : FallbackDone(g) => FallbackDone(g)'
  BY <1>1, LegacyFacts DEF FallbackDone, KeyOf
<1>3. Steady
  BY <1>1, <1>2, SerialStays DEF Steady
<1>4. ASSUME Serial
      PROVE  /\ \A d \in docs' : RightDoc(d)
             /\ \A d \in run'[p].stale : RightDoc(d)
             /\ run'[p].found # NoDoc => RightDoc(run'[p].found)
  <2>1. DocsWanted
    BY <1>4 DEF MigInd
  <2>2. \A d : d = run'[p].found /\ d # NoDoc => RightDoc(d)
    BY <2>1 DEF DocsWanted
  <2>3. \A d \in docs' : RightDoc(d)
    BY <1>1, <2>1 DEF DocsWanted
  <2>4. \A d \in run'[p].stale : RightDoc(d)
    BY <2>1 DEF DocsWanted
  <2> QED BY <2>2, <2>3, <2>4
<1>5. OneEach => OneEach'
  BY QuietOne
<1>6. ASSUME overruns = 0
      PROVE  /\ \A q \in Processes \ {p} : run[q].pc = "idle"
             /\ OneEach' /\ Alone(p)' /\ Certain(p)' /\ Current(p)'
             /\ recorded' => run'[p].pc = "idle"
  <2>1. /\ lock = p /\ \A q \in Processes \ {p} : run[q].pc = "idle"
        /\ ~recorded /\ OneEach /\ Current(p)
    BY <1>6, AtWork
  <2>2. Current(p)'
    BY <1>1, <2>1 DEF Current
  <2>3. Alone(p)'
    BY <2>1 DEF Alone
  <2> QED BY <1>5, <2>1, <2>2, <2>3
<1>7. indexed' => OneEach'
  BY <1>5 DEF MigInd
<1>8. ASSUME recorded' PROVE RecordRight'
  <2>1. RecordRight
    BY <1>8
  <2>2. indexed' = indexed
    BY <2>1, PlaceFacts DEF RecordRight, RestRight
  <2>a. \A g \in Groups : Active(g)' = Active(g)
    BY <1>1 DEF Active
  <2>3. Serial' => \A g \in Groups : CountRight(g)'
    BY <1>3, <2>1, <2>a DEF Steady, RecordRight, CountRight, CountMove
  <2> QED BY <1>3, <2>1, <2>2, <2>3, RecordKept
<1>9. Progress(p)' /\ (summary' = "clean" => \A g \in Projects : Done(g)')
  BY <1>3, DoneKept
<1> QED BY <1>3, <1>4, <1>6, <1>7, <1>8, <1>9, MigAssemble

(* ------------------- writing what is there already -------------------- *)

\* A user has at most one projected state.
LEMMA PlainIs ==
  ASSUME NEW g, NEW u, Projected(g, u) # {}
  PROVE  Projected(g, u) = {Plain(g, u)}
<1>1. \E m : Projected(g, u) = {m}
  BY DEF Projected, FromEvents
<1> QED BY <1>1 DEF Plain

LEMMA HighestTwice ==
  ASSUME NEW tags
  PROVE  Highest(Highest(tags)) = Highest(tags)
BY DEF Highest

\* Subjects are members, names or of the team, and only a user is bindable.
LEMMA KindFacts ==
  ASSUME RestRight
  PROVE  /\ \A k \in MemberKeys : k \notin TeamKeys /\ k[2] \in Users /\ k[1] \in Projects
         /\ \A raw : \A k \in WorkerKeys(raw) : k[2] \in Names /\ k[2] \notin Users
         /\ \A k \in TeamKeys : k[2] \in Users /\ k[1] = Team
         /\ \A k : Bindable(k) => k[2] \in Users /\ k[1] \in Projects
         /\ \A k \in WorkerKeys(Projects) : k[1] \in Projects
BY TeamAssumption, UserAssumption, FallbackUser
   DEF MemberKeys, TeamKeys, WorkerKeys, Bindable

\* One state is wanted of a subject, unless it is a fallback to be bound.
LEMMA SameState ==
  ASSUME RestRight, NEW k, ~Bindable(k), NEW m, Wanted(k, m), NEW n, Wanted(k, n)
  PROVE  m = n
<1> USE KindFacts, TeamAssumption DEF Wanted
<1>1. CASE k \in MemberKeys
  BY <1>1
<1>2. CASE k \in WorkerKeys(Projects)
  BY <1>2
<1>3. CASE k \in TeamKeys
  BY <1>3
<1> QED BY <1>1, <1>2, <1>3

LEMMA TeamState ==
  ASSUME RestRight, NEW d, RightDoc(d), d.group = Team
  PROVE  Highest(d.tags) = d.tags
<1>1. KeyOf(d) \in TeamKeys /\ State(d) = InTeam(d.subject)
  BY KindFacts, TeamAssumption DEF RightDoc, Wanted, KeyOf
<1>2. d.tags = Highest(RelationTags(Team, d.subject))
  BY <1>1 DEF State, InTeam
<1> QED BY <1>2, HighestTwice

LEMMA SameDoc ==
  ASSUME NEW d \in DocumentState, NEW e \in DocumentState, d.id = e.id,
         KeyOf(d) = KeyOf(e), State(d) = State(e)
  PROVE  d = e
<1>1. d.group = e.group /\ d.subject = e.subject /\ d.tags = e.tags /\ d.status = e.status
  BY DEF KeyOf, State
<1> QED BY <1>1 DEF DocumentState

\* Documents of one subject and one state are merged into the oldest of them.
LEMMA MergedSame ==
  ASSUME RestRight, NEW ds \in SUBSET DocumentState, OldestOf(ds), ds # {},
         \A d \in ds : RightDoc(d) /\ State(d) = State(Oldest(ds))
  PROVE  Merged(ds) = Oldest(ds)
<1> DEFINE o == Oldest(ds)
<1>1. o \in ds
  BY OldestIs
<1>2. \A d \in ds : d.tags = o.tags /\ d.status = o.status
  BY DEF State
<1>3. UNION {d.tags : d \in ds} = o.tags
  BY <1>1, <1>2
<1>4. {d.status : d \in ds} = {o.status}
  BY <1>1, <1>2
<1>5. United(o.group, o.tags) = o.tags
  BY <1>1, TeamState DEF United
<1>6. Best({o.status}) = o.status
  BY <1>1, BestIs DEF DocumentState, Standings
<1>7. Merged(ds) = [o EXCEPT !.tags = o.tags, !.status = o.status]
  BY <1>3, <1>4, <1>5, <1>6 DEF Merged
<1> HIDE DEF o
<1> QED BY <1>1, <1>7 DEF DocumentState, o

\* What a process remembers is in the collection, or its subject has one state.
LEMMA ThereNow ==
  ASSUME IdentityInd, MigInd, Serial, NEW p \in Processes, run[p].pc # "idle", NEW old,
         old \in run[p].stale \/ (old = run[p].found /\ old # NoDoc)
  PROVE  /\ RightDoc(old) /\ Remembered(old)
         /\ overruns = 0 => old \in docs /\ OneEach
         /\ overruns # 0 => \A k : ~Bindable(k)
         /\ \A d \in docs : d.id = old.id => d = old
<1>1. RightDoc(old) /\ DocsWanted
  BY DEF MigInd, DocsWanted
<1>2. Remembered(old)
  BY PlaceFacts DEF MemoryRight
<1>3. overruns = 0 => old \in docs /\ OneEach
  BY AtWork DEF Current
<1>4. overruns # 0 => \A k : ~Bindable(k)
  BY DEF Serial, Bindable
<1>5. ASSUME NEW d \in docs, d.id = old.id PROVE d = old
  <2>1. CASE overruns = 0
    BY <1>3, <1>5, <2>1, PlaceFacts DEF DocsRight
  <2>2. CASE overruns # 0
    <3>1. KeyOf(d) = KeyOf(old) /\ d \in DocumentState /\ old \in DocumentState
      BY <1>2, <1>5, PlaceFacts DEF Remembered, DocsRight
    <3>2. RightDoc(d)
      BY <1>1 DEF DocsWanted
    <3>3. State(d) = State(old)
      BY <1>1, <1>4, <2>2, <3>1, <3>2, PlaceFacts, SameState DEF RightDoc
    <3> QED BY <1>5, <3>1, <3>3, SameDoc
  <2> QED BY <2>1, <2>2
<1> QED BY <1>1, <1>2, <1>3, <1>4, <1>5

LEMMA WriteSame ==
  ASSUME NEW old, Update(old, old), \A d \in docs : d.id = old.id => d = old
  PROVE  docs' = docs
BY DEF Update

\* A step of somebody at work that writes documents.
LEMMA MigWrite ==
  ASSUME IdentityInd, MigInd, NEW p \in Processes, run[p].pc # "idle",
         \A q \in Processes \ {p} : run'[q] = run[q],
         UNCHANGED <<legacy, fields, outcome, lock, faults, marks>>, StoreMoves,
         Serial => \A d \in docs' : RightDoc(d),
         \A g \in Projects : Serial /\ NeedsFallback(g) /\ FallbackDone(g) => FallbackDone(g)',
         OneEach /\ (indexed \/ overruns = 0) => OneEach',
         recorded /\ Serial => docs' = docs,
         run'[p].stale \in {run[p].stale, {}}, run'[p].found \in {NoDoc, run[p].found},
         overruns = 0 => Certain(p)' /\ Current(p)', Progress(p)'
  PROVE  MigInd'
<1>1. /\ legacy' = legacy /\ overruns' = overruns /\ lock' = lock /\ indexed' = indexed
      /\ summary' = summary /\ recorded' = recorded /\ workers' = workers
      /\ owner' = owner /\ status' = status /\ policy' = policy /\ count' = count
      /\ miscounts' = miscounts
  BY DEF fields, outcome, faults, marks
<1>2. Steady
  BY <1>1, SerialStays DEF Steady
<1>3. ASSUME Serial
      PROVE  /\ \A d \in docs' : RightDoc(d)
             /\ \A d \in run'[p].stale : RightDoc(d)
             /\ run'[p].found # NoDoc => RightDoc(run'[p].found)
  <2>1. DocsWanted
    BY <1>3 DEF MigInd
  <2>2. \A d : d = run'[p].found /\ d # NoDoc => RightDoc(d)
    BY <2>1 DEF DocsWanted
  <2>3. \A d \in run'[p].stale : RightDoc(d)
    BY <2>1 DEF DocsWanted
  <2> QED BY <1>3, <2>2, <2>3
<1>4. ASSUME overruns = 0
      PROVE  /\ \A q \in Processes \ {p} : run[q].pc = "idle"
             /\ OneEach' /\ Alone(p)' /\ Certain(p)' /\ Current(p)'
             /\ recorded' => run'[p].pc = "idle"
  <2>1. /\ lock = p /\ \A q \in Processes \ {p} : run[q].pc = "idle"
        /\ ~recorded /\ OneEach
    BY <1>4, AtWork
  <2>2. Alone(p)'
    BY <1>1, <2>1 DEF Alone
  <2>3. OneEach'
    BY <1>4, <2>1
  <2>4. Certain(p)' /\ Current(p)'
    BY <1>4
  <2>5. ~recorded'
    BY <1>1, <2>1
  <2> QED BY <2>1, <2>2, <2>3, <2>4, <2>5
<1>5. indexed' => OneEach'
  BY <1>1 DEF MigInd
<1>6. ASSUME recorded' PROVE RecordRight'
  <2>1. RecordRight
    BY <1>1, <1>6 DEF MigInd
  <2>2. Serial' => \A g \in Groups : CountRight(g)'
    BY <1>1, <1>2, <1>6, <2>1 DEF Steady, RecordRight, CountRight, Active
  <2> QED BY <1>1, <1>2, <2>1, <2>2, RecordKept
<1>7. summary' = "clean" => \A g \in Projects : Done(g)'
  BY <1>1, <1>2, DoneKept DEF MigInd
<1> QED BY <1>1, <1>2, <1>3, <1>4, <1>5, <1>6, <1>7, MigAssemble

\* What has no double is not dropped.
LEMMA DropSame ==
  ASSUME IdentityInd, NEW p \in Processes, DropDuplicates(p), OneEach
  PROVE  docs' = docs
<1>1. StoreMoves /\ docs' \subseteq docs
  BY DropStore DEF DropDuplicates
<1>2. ASSUME NEW d \in docs PROVE d \in docs'
  <2>1. PICK e \in docs' : KeyOf(e) = KeyOf(d)
    BY <1>1 DEF StoreMoves
  <2>2. e = d
    BY <1>1, <2>1 DEF OneEach, KeyOf
  <2> QED BY <2>2
<1> QED BY <1>1, <1>2

\* Merging rewrites what is there already.
LEMMA MergeSame ==
  ASSUME IdentityInd, MigInd, Serial, NEW p \in Processes, MergeDocuments(p)
  PROVE  docs' = docs
<1> DEFINE k == First(run[p].todo)
           ds == Seen(p, k)
           old == Oldest(ds)
<1>1. run[p].pc = "merge" /\ k \in run[p].todo /\ Update(old, Merged(ds))
  BY FirstIs DEF MergeDocuments, At
<1>a. /\ k \in Keys /\ ds # {} /\ OldestOf(ds) /\ ds \in SUBSET DocumentState
      /\ \A d \in ds : KeyOf(d) = k
  BY <1>1, SeenSome
<1>b. \A d \in ds : d \in run[p].stale
  BY DEF Seen
<1>2. /\ k \in Keys /\ ds # {} /\ OldestOf(ds) /\ ds \in SUBSET DocumentState
      /\ \A d \in ds : d \in run[p].stale /\ KeyOf(d) = k
  BY <1>a, <1>b
<1>3. \A d \in ds : /\ RightDoc(d) /\ (overruns = 0 => d \in docs /\ OneEach)
                    /\ (overruns # 0 => ~Bindable(k))
                    /\ \A e \in docs : e.id = d.id => e = d
  BY <1>1, <1>2, ThereNow
<1>4. old \in ds
  BY <1>2, OldestIs
<1> HIDE DEF k, ds, old
<1>5. ASSUME NEW d \in ds PROVE State(d) = State(old)
  <2>1. CASE overruns = 0
    <3>1. d.group = old.group /\ d.subject = old.subject
      BY <1>2, <1>4 DEF KeyOf
    <3> QED BY <1>3, <1>4, <2>1, <3>1 DEF OneEach
  <2>2. CASE overruns # 0
    BY <1>2, <1>3, <1>4, <2>2, PlaceFacts, SameState DEF RightDoc
  <2> QED BY <2>1, <2>2
<1>6. Merged(ds) = old
  BY <1>2, <1>3, <1>5, PlaceFacts, MergedSame DEF old
<1> QED BY <1>1, <1>3, <1>4, <1>6, WriteSame

LEMMA MigMerge ==
  ASSUME IdentityInd, MigInd, NEW p \in Processes, MergeDocuments(p)
  PROVE  MigInd'
<1> DEFINE k == First(run[p].todo)
<1>1. /\ StoreMoves /\ run[p].pc = "merge" /\ run' = [run EXCEPT ![p].doing = k]
      /\ UNCHANGED <<legacy, fields, outcome, lock, faults, marks>>
  BY MergeStore DEF MergeDocuments, At
<1> HIDE DEF k
<1>2. /\ run'[p].pc = "merge" /\ run'[p].stale = run[p].stale /\ run'[p].found = run[p].found
      /\ \A q \in Processes \ {p} : run'[q] = run[q]
  BY <1>1, PlaceFacts DEF RunType
<1>3. Serial => docs' = docs
  BY MergeSame
<1>4. Serial => \A d \in docs' : RightDoc(d)
  BY <1>3 DEF MigInd, DocsWanted
<1>5. \A g : Serial /\ FallbackDone(g) => FallbackDone(g)'
  BY <1>1, <1>3, LegacyFacts DEF FallbackDone, KeyOf
<1>6. OneEach => OneEach'
  <2> DEFINE j == First(run[p].todo)
             old == Oldest(Seen(p, j))
             new == Merged(Seen(p, j))
  <2>1. j \in run[p].todo /\ Update(old, new)
    BY FirstIs DEF MergeDocuments
  <2>2. /\ Seen(p, j) # {} /\ OldestOf(Seen(p, j)) /\ Seen(p, j) \in SUBSET DocumentState
        /\ \A d \in Seen(p, j) : Remembered(d) /\ KeyOf(d) = j /\ NameActive(d)
    BY <1>1, <2>1, SeenSome
  <2>3. old \in Seen(p, j) /\ new.id = old.id /\ KeyOf(new) = KeyOf(old)
    BY <2>2, MergedIs
  <2>4. Remembered(old)
    BY <2>2, <2>3
  <2> HIDE DEF old, new
  <2> QED BY <2>1, <2>3, <2>4, UpdateOne
<1>7. overruns = 0 => Certain(p)' /\ Current(p)'
  <2> SUFFICES ASSUME overruns = 0 PROVE Certain(p)' /\ Current(p)'
    OBVIOUS
  <2>1. Current(p) /\ docs' = docs
    BY <1>1, <1>3, AtWork DEF Serial
  <2> QED BY <1>2, <2>1 DEF Certain, Current, Finding
<1>8. Progress(p)'
  BY <1>2 DEF Progress, Reading, Ending
<1> QED BY <1>1, <1>2, <1>3, <1>4, <1>5, <1>6, <1>7, <1>8, MigWrite

LEMMA MigDrop ==
  ASSUME IdentityInd, MigInd, NEW p \in Processes, DropDuplicates(p)
  PROVE  MigInd'
<1>1. /\ StoreMoves /\ run[p].pc = "merge" /\ Goto(p, "merge", run[p].todo \ {run[p].doing})
      /\ UNCHANGED <<legacy, fields, outcome, lock, faults, marks>> /\ docs' \subseteq docs
  BY DropStore DEF DropDuplicates
<1>2. /\ run'[p].pc = "merge" /\ run'[p].stale = run[p].stale /\ run'[p].found = NoDoc
      /\ \A q \in Processes \ {p} : run'[q] = run[q]
  BY <1>1, PlaceFacts DEF RunType, Goto
<1>3. OneEach => docs' = docs
  BY DropSame
<1>4. Serial => \A d \in docs' : RightDoc(d)
  BY <1>1 DEF MigInd, DocsWanted
<1>5. overruns = 0 => docs' = docs /\ Current(p)
  BY <1>1, <1>3, AtWork
<1>6. \A g \in Projects : Serial /\ NeedsFallback(g) /\ FallbackDone(g) => FallbackDone(g)'
  BY <1>1, <1>5, LegacyFacts DEF FallbackDone, KeyOf, Serial
<1>7. overruns = 0 => Certain(p)' /\ Current(p)'
  BY <1>2, <1>5 DEF Certain, Current, Finding
<1>8. Progress(p)'
  BY <1>2 DEF Progress, Reading, Ending
<1>9. recorded => docs' = docs
  BY <1>3 DEF MigInd, RecordRight
<1>10. OneEach => OneEach'
  BY <1>1 DEF OneEach
<1> QED BY <1>1, <1>2, <1>4, <1>6, <1>7, <1>8, <1>9, <1>10, MigWrite

(* ------------------- what is wanted is what is right ------------------ *)

\* What a process wants of the subject it is at; the owners are for bindable ones.
LEMMA DesiredRight ==
  ASSUME IdentityInd, MigInd, NEW p \in Processes, run[p].pc \in Finding, run[p].doing # NoKey
  PROVE  LET k == run[p].doing
             m == Desired(p, k)
         IN  /\ k \in Keys
             /\ run[p].pc = "members" => k \in MemberKeys /\ m = Plain(k[1], k[2])
             /\ run[p].pc = "external" => k \in WorkerKeys(Projects) /\ m = Credited
             /\ run[p].pc = "team" => k \in TeamKeys /\ m = InTeam(k[2])
             /\ run[p].pc = "owner" => Bindable(k) /\ m = [tags |-> {"creator"}, status |-> "active"]
<1> DEFINE k == run[p].doing
           m == Desired(p, k)
<1>1. run[p].pc # "owner" => k \in Tasks(run[p].pc, run[p].raw, run[p].stale)
  BY PlaceFacts DEF ProcessRight, Finding
<1>2. k \in Keys /\ run[p].raw \subseteq Projects
  BY PlaceFacts DEF RunType
<1>3. run[p].pc = "members" => k \in MemberKeys /\ m = Plain(k[1], k[2])
  BY <1>1 DEF Tasks, Desired, Plain
<1>4. run[p].pc = "external" => k \in WorkerKeys(Projects) /\ m = Credited
  BY <1>1, <1>2 DEF Tasks, Desired, Credited, WorkerKeys
<1>5. run[p].pc = "team" => k \in TeamKeys /\ m = InTeam(k[2])
  BY <1>1 DEF Tasks, Desired, InTeam
<1>6. run[p].pc = "owner" => Bindable(k) /\ m = [tags |-> {"creator"}, status |-> "active"]
  BY DEF MigInd, Progress, Desired
<1> QED BY <1>2, <1>3, <1>4, <1>5, <1>6

\* A projected state has these two fields.
LEMMA PlainState ==
  ASSUME NEW g, NEW u, Projected(g, u) # {}
  PROVE  \A t, s : t = Plain(g, u).tags /\ s = Plain(g, u).status =>
           Plain(g, u) = [tags |-> t, status |-> s]
<1>1. Plain(g, u) \in Projected(g, u)
  BY PlainIs
<1>2. \E t, s : Plain(g, u) = [tags |-> t, status |-> s]
  BY <1>1 DEF Projected, FromEvents
<1> QED BY <1>2

\* A fallback to be bound has no other share than its projected one.
LEMMA BoundIs ==
  ASSUME NEW g
  PROVE  /\ "creator" \in Bound(g).tags /\ Bound(g) = [tags |-> Bound(g).tags, status |-> "active"]
         /\ Projected(g, Fallback) = {} => Bound(g) = [tags |-> {"creator"}, status |-> "active"]
         /\ Projected(g, Fallback) # {} =>
              Bound(g) = [tags |-> Plain(g, Fallback).tags \cup {"creator"}, status |-> "active"]
<1>1. Projected(g, Fallback) = {} => UNION {m.tags : m \in Projected(g, Fallback)} = {}
  OBVIOUS
<1>2. Projected(g, Fallback) # {} =>
        UNION {m.tags : m \in Projected(g, Fallback)} = Plain(g, Fallback).tags
  BY PlainIs
<1> DEFINE T == UNION {m.tags : m \in Projected(g, Fallback)}
<1>3. Bound(g) = [tags |-> {"creator"} \cup T, status |-> "active"]
  BY DEF Bound
<1>4. /\ Projected(g, Fallback) = {} => T = {}
      /\ Projected(g, Fallback) # {} => T = Plain(g, Fallback).tags
  BY <1>1, <1>2
<1> HIDE DEF T
<1> QED BY <1>3, <1>4

\* What is inserted is right.
LEMMA InsertRight ==
  ASSUME IdentityInd, MigInd, Serial, NEW p \in Processes, InsertMember(p)
  PROVE  LET k == run[p].doing
             m == Desired(p, k)
         IN  Wanted(k, [tags |-> m.tags, status |-> m.status])
<1> DEFINE k == run[p].doing
           m == Desired(p, k)
<1> SUFFICES Wanted(k, [tags |-> m.tags, status |-> m.status])
  OBVIOUS
<1>1. run[p].pc \in Finding /\ k # NoKey /\ run[p].found = NoDoc
  BY DEF InsertMember, Finding
<1>2. /\ k \in Keys
      /\ run[p].pc = "members" => k \in MemberKeys /\ m = Plain(k[1], k[2])
      /\ run[p].pc = "external" => k \in WorkerKeys(Projects) /\ m = Credited
      /\ run[p].pc = "team" => k \in TeamKeys /\ m = InTeam(k[2])
      /\ run[p].pc = "owner" => Bindable(k) /\ m = [tags |-> {"creator"}, status |-> "active"]
  BY <1>1, DesiredRight
<1> HIDE DEF m, k
<1>3. CASE run[p].pc = "members"
  <2>1. Projected(k[1], k[2]) # {}
    BY <1>2, <1>3 DEF MemberKeys
  <2> QED BY <1>2, <1>3, <2>1, PlainState DEF Wanted
<1>4. CASE run[p].pc = "external"
  BY <1>2, <1>4 DEF Wanted, Credited
<1>5. CASE run[p].pc = "team"
  BY <1>2, <1>5 DEF Wanted, InTeam
<1>6. CASE run[p].pc = "owner"
  <2>1. overruns = 0 /\ k[1] \in Projects /\ k[2] = Fallback /\ NeedsFallback(k[1])
    BY <1>2, <1>6 DEF Bindable, Serial
  <2>2. ~Held(k)
    BY <1>1, <2>1, AtWork DEF Finding, Certain, k
  <2>3. \A j \in MemberKeys : Held(j)
    BY <1>6 DEF MigInd, Progress, Reading
  <2>4. Projected(k[1], k[2]) = {}
    BY <1>2, <2>1, <2>2, <2>3, PlaceFacts, FallbackUser DEF MemberKeys, Keys
  <2>5. m = Bound(k[1]) /\ m = [tags |-> m.tags, status |-> m.status]
    BY <1>2, <1>6, <2>1, <2>4, BoundIs
  <2> QED BY <1>2, <1>6, <2>5 DEF Wanted
<1> QED BY <1>1, <1>3, <1>4, <1>5, <1>6 DEF Finding

\* What is there already is not changed by what is wanted of it.
LEMMA UpsertedSame ==
  ASSUME NEW old \in DocumentState, NEW m, m.tags \subseteq old.tags,
         old.group = Team => Highest(old.tags) = old.tags,
         old.status = "active" \/ m.status = old.status
  PROVE  Upserted(old, m) = old
<1>1. United(old.group, old.tags \cup m.tags) = old.tags
  <2>1. old.tags \cup m.tags = old.tags
    OBVIOUS
  <2> QED BY <2>1 DEF United
<1>2. NewStatus(old, m) = old.status
  BY DEF NewStatus
<1>3. Upserted(old, m) = [old EXCEPT !.tags = old.tags, !.status = old.status]
  BY <1>1, <1>2 DEF Upserted
<1> QED BY <1>3 DEF DocumentState

LEMMA UpdateSame ==
  ASSUME IdentityInd, MigInd, Serial, NEW p \in Processes, UpdateMember(p), run[p].pc # "owner"
  PROVE  docs' = docs
<1> DEFINE k == run[p].doing
           m == Desired(p, k)
           old == run[p].found
<1>1. run[p].pc \in Finding /\ k # NoKey /\ old # NoDoc /\ Update(old, Upserted(old, m))
  BY DEF UpdateMember, Finding
<1>2. /\ run[p].pc = "members" => k \in MemberKeys /\ m = Plain(k[1], k[2])
      /\ run[p].pc = "external" => k \in WorkerKeys(Projects) /\ m = Credited
      /\ run[p].pc = "team" => k \in TeamKeys /\ m = InTeam(k[2])
  BY <1>1, DesiredRight
<1>3. RightDoc(old) /\ Remembered(old) /\ \A d \in docs : d.id = old.id => d = old
  BY <1>1, ThereNow DEF Finding
<1>4. KeyOf(old) = k /\ old \in DocumentState
  BY <1>1, <1>3, PlaceFacts DEF ProcessRight, Remembered
<1> HIDE DEF m, old, k
<1>5. CASE State(old) = m
  <2>1. m.tags = old.tags /\ m.status = old.status
    BY <1>5 DEF State
  <2> QED BY <1>1, <1>3, <1>4, <2>1, PlaceFacts, TeamState, UpsertedSame, WriteSame
<1>6. CASE State(old) # m
  <2>1. run[p].pc = "members" /\ k \in MemberKeys
    BY <1>1, <1>2, <1>3, <1>4, <1>6, PlaceFacts, KindFacts, TeamAssumption
       DEF Finding, RightDoc, Wanted
  <2>2. Bindable(k) /\ State(old) = Bound(k[1])
    BY <1>2, <1>3, <1>4, <1>6, <2>1, PlaceFacts, KindFacts DEF RightDoc, Wanted
  <2>3. k[2] = Fallback /\ Projected(k[1], Fallback) # {} /\ m = Plain(k[1], Fallback)
    BY <1>2, <2>1, <2>2 DEF Bindable, MemberKeys
  <2>4. old.tags = m.tags \cup {"creator"} /\ old.status = "active"
    BY <2>2, <2>3, BoundIs DEF State
  <2>5. old.group # Team
    BY <1>4, <2>2, TeamAssumption DEF Bindable, KeyOf
  <2> QED BY <1>1, <1>3, <1>4, <2>4, <2>5, UpsertedSame, WriteSame
<1> QED BY <1>5, <1>6

\* The fallback is bound in the document it has.
LEMMA UpdateBinds ==
  ASSUME IdentityInd, MigInd, Serial, NEW p \in Processes, UpdateMember(p), run[p].pc = "owner"
  PROVE  LET old == run[p].found
             new == Upserted(old, Desired(p, run[p].doing))
         IN  /\ overruns = 0 /\ old \in docs /\ Update(old, new)
             /\ RightDoc(new) /\ KeyOf(new) = KeyOf(old) /\ KeyOf(old) = run[p].doing
             /\ new.id = old.id /\ new.tags = old.tags \cup {"creator"}
<1> DEFINE k == run[p].doing
           m == Desired(p, k)
           old == run[p].found
           new == Upserted(old, m)
<1>1. run[p].pc \in Finding /\ k # NoKey /\ old # NoDoc /\ Update(old, new)
  BY DEF UpdateMember, Finding
<1>2. Bindable(k) /\ m = [tags |-> {"creator"}, status |-> "active"]
  BY <1>1, DesiredRight
<1>3. overruns = 0
  BY <1>2 DEF Bindable, Serial
<1>4. RightDoc(old) /\ Remembered(old) /\ old \in docs
  BY <1>1, <1>3, ThereNow DEF Finding
<1>5. KeyOf(old) = k /\ old \in DocumentState
  BY <1>1, <1>4, PlaceFacts DEF ProcessRight, Remembered
<1> HIDE DEF m, old, k
<1>6. old.group # Team /\ k[2] = Fallback
  BY <1>2, <1>5, TeamAssumption DEF Bindable, KeyOf
<1>7. new = [old EXCEPT !.tags = old.tags \cup {"creator"}, !.status = "active"]
  BY <1>2, <1>6 DEF Upserted, United, NewStatus
<1>8. /\ new.tags = old.tags \cup {"creator"} /\ new.status = "active" /\ new.id = old.id
      /\ KeyOf(new) = k
  BY <1>5, <1>7 DEF DocumentState, KeyOf
<1>9. \/ State(old) = Plain(k[1], Fallback) /\ k \in MemberKeys
      \/ State(old) = Bound(k[1])
  BY <1>2, <1>4, <1>5, <1>6, PlaceFacts, KindFacts, TeamAssumption DEF RightDoc, Wanted
<1>10. new.tags = Bound(k[1]).tags
  <2>1. CASE State(old) = Plain(k[1], Fallback) /\ k \in MemberKeys
    BY <1>6, <1>8, <2>1, BoundIs DEF MemberKeys, State
  <2>2. CASE State(old) = Bound(k[1])
    <3>1. "creator" \in Bound(k[1]).tags /\ old.tags = Bound(k[1]).tags
      BY <2>2, BoundIs DEF State
    <3> QED BY <1>8, <3>1
  <2> QED BY <1>9, <2>1, <2>2
<1>11. State(new) = Bound(k[1])
  BY <1>8, <1>10, BoundIs DEF State
<1>12. RightDoc(new)
  BY <1>2, <1>8, <1>11 DEF RightDoc, Wanted
<1> HIDE DEF new
<1> QED BY <1>1, <1>3, <1>4, <1>5, <1>8, <1>12 DEF new, m, old, k

\* Whoever has written the document it was at goes on to the next.
LEMMA WroteProgress ==
  ASSUME IdentityInd, MigInd, Steady, NEW p \in Processes, run[p].pc \in Finding,
         run[p].doing # NoKey, Goto(p, run[p].pc, run[p].todo \ {run[p].doing}),
         UNCHANGED fields, \A j : j = run[p].doing => Held(j)',
         \A g \in Projects : Serial /\ run[p].pc = "owner" /\ g = run[p].doing[1] => FallbackDone(g)'
  PROVE  Progress(p)'
<1> DEFINE k == run[p].doing
<1>1. /\ run'[p].pc = run[p].pc /\ run'[p].todo = run[p].todo \ {k} /\ run'[p].doing = NoKey
      /\ run'[p].stale = run[p].stale /\ run'[p].owners = run[p].owners
      /\ run'[p].issues = run[p].issues
  BY PlaceFacts DEF Goto, RunType
<1>2. run[p].pc \in Finding /\ run[p].pc \notin Ending /\ Progress(p)
  BY DEF MigInd, Finding, Ending
<1>3. MemberKeys' = MemberKeys /\ TeamKeys' = TeamKeys /\ legacy' = legacy
      /\ owner' = owner /\ policy' = policy
  BY LegacyFacts DEF Steady, fields
<1>4. \A j : Held(j) => Held(j)'
  BY HeldKept DEF Steady
<1>5. \A j \in MemberKeys \cup TeamKeys : j \notin run[p].todo \ {k} =>
        j \notin run[p].todo \/ Held(j)'
  OBVIOUS
<1>6. \A g \in Projects : Done(g) => Done(g)'
  BY DoneKept
<1>7. ASSUME run[p].pc = "owner", ~run[p].issues, NEW g \in Projects
      PROVE  <<g, NoUser>> \in run[p].todo \ {k} \/ Done(g)'
  <2>1. Bindable(k)
    BY <1>2, <1>7 DEF Progress
  <2>2. k # <<g, NoUser>>
    BY <2>1, PlaceFacts, FallbackUser, UserAssumption DEF Bindable
  <2>3. CASE <<g, NoUser>> \in run[p].todo \/ Done(g)
    BY <1>6, <2>2, <2>3
  <2>4. CASE AtHand(p, g)
    <3>1. owner'[g] = OwnerByRight(g)' /\ (Serial' => Serial)
      BY <1>3, <2>4, RightFacts DEF AtHand, Steady
    <3>2. Serial => FallbackDone(g)'
      BY <1>7, <2>4 DEF AtHand
    <3> QED BY <3>1, <3>2 DEF Done
  <2> QED BY <1>2, <1>7, <2>3, <2>4 DEF Progress
<1> HIDE DEF k
<1>8. run[p].pc \in Reading /\ run[p].pc # "merge" /\ run[p].pc # "bound"
  BY <1>2 DEF Finding, Reading
<1>9. CASE run[p].pc = "members"
  BY <1>1, <1>2, <1>3, <1>4, <1>5, <1>8, <1>9 DEF Progress
<1>10. CASE run[p].pc = "external"
  BY <1>1, <1>2, <1>3, <1>4, <1>8, <1>10 DEF Progress
<1>11. CASE run[p].pc = "owner"
  BY <1>1, <1>2, <1>3, <1>4, <1>7, <1>8, <1>11 DEF Progress
<1>12. CASE run[p].pc = "team"
  BY <1>1, <1>2, <1>3, <1>4, <1>5, <1>6, <1>8, <1>12 DEF Progress
<1> QED BY <1>2, <1>9, <1>10, <1>11, <1>12 DEF Finding

LEMMA WroteSteady ==
  ASSUME StoreMoves, UNCHANGED <<legacy, fields, faults>>,
         \A g \in Projects : Serial /\ NeedsFallback(g) /\ FallbackDone(g) => FallbackDone(g)'
  PROVE  Steady
<1>1. overruns' = overruns /\ policy' = policy /\ owner' = owner /\ status' = status
  BY DEF fields, faults
<1> QED BY <1>1, SerialStays DEF Steady

LEMMA MigUpdate ==
  ASSUME IdentityInd, MigInd, NEW p \in Processes, UpdateMember(p)
  PROVE  MigInd'
<1> DEFINE old == run[p].found
           new == Upserted(old, Desired(p, run[p].doing))
<1>1. /\ run[p].pc \in Finding /\ run[p].doing # NoKey /\ old # NoDoc /\ Update(old, new)
      /\ Goto(p, run[p].pc, run[p].todo \ {run[p].doing})
      /\ UNCHANGED <<legacy, fields, outcome, lock, faults, marks>>
  BY DEF UpdateMember, Finding
<1>2. StoreMoves /\ \A j : j = run[p].doing => Held(j)'
  BY UpdateStore
<1>3. Remembered(old) /\ old \in DocumentState /\ NameActive(old)
  BY <1>1, PlaceFacts DEF MemoryRight, Remembered
<1>4. new.id = old.id /\ KeyOf(new) = KeyOf(old)
  <2>1. \A m : m = Desired(p, run[p].doing) => m.tags \subseteq Marks /\ m.status \in Standings
    BY <1>1, DesiredIs
  <2> QED BY <1>3, <2>1, UpsertedIs
<1>5. Serial /\ run[p].pc # "owner" => docs' = docs
  BY UpdateSame
<1>6. Serial /\ run[p].pc = "owner" =>
        /\ overruns = 0 /\ old \in docs /\ RightDoc(new) /\ KeyOf(old) = run[p].doing
        /\ new.tags = old.tags \cup {"creator"}
  BY UpdateBinds
<1>7. OneEach => OneEach'
  BY <1>1, <1>3, <1>4, UpdateOne
<1> HIDE DEF new
<1>8. Serial => \A d \in docs' : RightDoc(d)
  <2>1. Serial => \A d \in docs : RightDoc(d)
    BY DEF MigInd, DocsWanted
  <2> QED BY <1>1, <1>5, <1>6, <2>1 DEF Update
<1>9. Serial /\ run[p].pc = "owner" => new \in docs'
  BY <1>1, <1>6 DEF Update
<1>10. Fallback' = Fallback
  BY <1>1, LegacyFacts
<1>11. ASSUME NEW g \in Projects, Serial, FallbackDone(g) PROVE FallbackDone(g)'
  <2>1. PICK d \in docs : KeyOf(d) = <<g, Fallback>> /\ "creator" \in d.tags
    BY <1>11 DEF FallbackDone
  <2>2. CASE docs' = docs
    BY <1>10, <2>1, <2>2 DEF FallbackDone, KeyOf
  <2>3. CASE run[p].pc = "owner" /\ d.id # old.id
    <3>1. d \in docs'
      BY <1>1, <2>1, <2>3 DEF Update
    <3> QED BY <1>10, <2>1, <3>1 DEF FallbackDone, KeyOf
  <2>4. CASE run[p].pc = "owner" /\ d.id = old.id
    <3>1. d = old
      BY <1>6, <1>11, <2>1, <2>4, PlaceFacts DEF DocsRight
    <3>2. new \in docs' /\ KeyOf(new) = <<g, Fallback>> /\ "creator" \in new.tags
      BY <1>4, <1>6, <1>9, <1>11, <2>1, <2>4, <3>1
    <3> QED BY <1>10, <3>2 DEF FallbackDone, KeyOf
  <2> QED BY <1>5, <1>11, <2>2, <2>3, <2>4
<1>12. Steady
  BY <1>1, <1>2, <1>11, WroteSteady
<1>13. ASSUME NEW g \in Projects, Serial, run[p].pc = "owner", g = run[p].doing[1]
       PROVE  FallbackDone(g)'
  <2>1. Bindable(run[p].doing) /\ run[p].doing \in Keys
    BY <1>1, <1>13, DesiredRight
  <2>2. KeyOf(new) = <<g, Fallback>> /\ "creator" \in new.tags /\ new \in docs'
    BY <1>4, <1>6, <1>9, <1>13, <2>1 DEF Bindable, Keys
  <2> QED BY <1>10, <2>2 DEF FallbackDone, KeyOf
<1>14. Progress(p)'
  BY <1>1, <1>2, <1>12, <1>13, WroteProgress DEF fields
<1>15. /\ run'[p].found = NoDoc /\ run'[p].stale = run[p].stale /\ run'[p].doing = NoKey
       /\ \A q \in Processes \ {p} : run'[q] = run[q]
  BY <1>1, PlaceFacts DEF Goto, RunType
<1>16. run[p].stale = {} /\ run[p].pc # "idle"
  BY <1>1 DEF MigInd, Progress, Finding
<1>17. Certain(p)' /\ Current(p)'
  BY <1>15, <1>16 DEF Certain, Current
<1>18. recorded /\ Serial => docs' = docs
  BY <1>5, <1>6, <1>16, AtWork
<1> QED BY <1>1, <1>2, <1>7, <1>8, <1>11, <1>14, <1>15, <1>16, <1>17, <1>18, MigWrite

LEMMA MigInsert ==
  ASSUME IdentityInd, MigInd, NEW p \in Processes, InsertMember(p)
  PROVE  MigInd'
<1> DEFINE k == run[p].doing
           m == Desired(p, k)
           new == [id |-> made + 1, group |-> k[1], subject |-> k[2], tags |-> m.tags,
                   status |-> m.status]
<1>1. /\ run[p].pc \in Finding /\ k # NoKey /\ run[p].found = NoDoc
      /\ UNCHANGED <<legacy, fields, outcome, faults, marks>>
  BY DEF InsertMember, Finding
<1>2. run[p].stale = {} /\ run[p].pc # "idle"
  BY <1>1 DEF MigInd, Progress, Finding
<1>3. k \in Keys
  BY <1>1, DesiredRight
<1>4. CASE indexed /\ Holding(k) # {}
  <2>1. run' = [run EXCEPT ![p] = Idle] /\ UNCHANGED store
    BY <1>4 DEF InsertMember, Leave
  <2>2. /\ run'[p].pc = "idle" /\ run'[p].stale = {} /\ run'[p].found = NoDoc
        /\ \A q \in Processes \ {p} : run'[q] = run[q]
    BY <2>1, PlaceFacts DEF Idle
  <2>3. Certain(p)' /\ Progress(p)'
    BY <2>2 DEF Certain, Progress, Finding, Reading, Ending
  <2>4. (summary = "clean" => \A g \in Projects : Done(g)) /\ (recorded => RecordRight)
    BY DEF MigInd
  <2>5. FieldsMove /\ UNCHANGED <<indexed, summary, recorded, overruns>>
    BY <1>1, FieldsStay DEF outcome, faults, marks
  <2> QED BY <1>1, <1>2, <2>1, <2>2, <2>3, <2>4, <2>5, MigQuiet DEF FieldsMove
<1>5. CASE ~(indexed /\ Holding(k) # {})
  <2>1. docs' = docs \cup {new} /\ Goto(p, run[p].pc, run[p].todo \ {k}) /\ lock' = lock
    BY <1>5 DEF InsertMember
  <2>2. StoreMoves /\ \A j : j = k => Held(j)'
    BY <1>5, InsertStore
  <2>3. KeyOf(new) = k /\ State(new) = [tags |-> m.tags, status |-> m.status]
    BY <1>3 DEF Keys, KeyOf, State
  <2>4. Serial => RightDoc(new)
    <3>1. Serial => Wanted(k, [tags |-> m.tags, status |-> m.status])
      BY InsertRight
    <3> QED BY <2>3, <3>1 DEF RightDoc
  <2>5. run[p].pc = "owner" => Bindable(k) /\ "creator" \in new.tags
    BY <1>1, DesiredRight
  <2> HIDE DEF new, m
  <2>6. Serial => \A d \in docs' : RightDoc(d)
    BY <2>1, <2>4 DEF MigInd, DocsWanted
  <2>7. Fallback' = Fallback
    BY <1>1, LegacyFacts
  <2>8. \A g : FallbackDone(g) => FallbackDone(g)'
    BY <2>1, <2>7 DEF FallbackDone, KeyOf
  <2>9. Steady
    BY <1>1, <2>2, <2>8, WroteSteady
  <2>10. ASSUME NEW g \in Projects, run[p].pc = "owner", g = k[1] PROVE FallbackDone(g)'
    <3>1. KeyOf(new) = <<g, Fallback>> /\ "creator" \in new.tags /\ new \in docs'
      BY <1>3, <2>1, <2>3, <2>5, <2>10 DEF Bindable, Keys
    <3> QED BY <2>7, <3>1 DEF FallbackDone, KeyOf
  <2>11. Progress(p)'
    BY <1>1, <2>1, <2>2, <2>9, <2>10, WroteProgress DEF fields
  <2>12. /\ run'[p].found = NoDoc /\ run'[p].stale = {} /\ run'[p].doing = NoKey
         /\ \A q \in Processes \ {p} : run'[q] = run[q]
    BY <1>2, <2>1, PlaceFacts DEF Goto, RunType
  <2>13. Certain(p)' /\ Current(p)'
    BY <2>12 DEF Certain, Current
  <2>14. ~recorded \/ ~Serial
    <3> SUFFICES ASSUME recorded, Serial PROVE FALSE
      OBVIOUS
    <3>1. overruns # 0 /\ RecordRight
      BY <1>2, AtWork DEF MigInd
    <3>2. \A j : ~Bindable(j)
      BY <3>1 DEF Serial, Bindable
    <3>3. k \in MemberKeys \cup TeamKeys \cup WorkerKeys(Projects)
      BY <1>1, <2>5, <3>2, DesiredRight DEF Finding
    <3>4. Held(k) /\ indexed
      BY <3>1, <3>3 DEF RecordRight, Complete
    <3> QED BY <1>5, <3>4, HeldIs
  <2>15. OneEach /\ (indexed \/ overruns = 0) => OneEach'
    <3> SUFFICES ASSUME OneEach, indexed \/ overruns = 0 PROVE OneEach'
      OBVIOUS
    <3>1. ~Held(k)
      <4>1. CASE indexed
        BY <1>5, <4>1, HeldIs
      <4>2. CASE overruns = 0
        BY <1>1, <1>2, <4>2, AtWork DEF Certain
      <4> QED BY <4>1, <4>2
    <3>2. \A d \in docs : ~(d.group = new.group /\ d.subject = new.subject)
      BY <2>3, <3>1 DEF Held, KeyOf
    <3> QED BY <2>1, <3>2 DEF OneEach
  <2> QED BY <1>1, <1>2, <2>1, <2>2, <2>6, <2>8, <2>11, <2>12, <2>13, <2>14, <2>15, MigWrite
<1> QED BY <1>4, <1>5

(* ------------------- steps that write no document --------------------- *)

LEMMA QuietSteady ==
  ASSUME IdentityInd, FieldsMove, legacy' = legacy, UNCHANGED store, overruns' = overruns
  PROVE  Steady /\ \A k : Held(k)' = Held(k)
<1>1. docs' = docs /\ made' = made
  BY DEF store
<1>2. StoreMoves
  BY StoreStays DEF IdentityInd, IdentityTypes
<1>3. \A g : FallbackDone(g) => FallbackDone(g)'
  BY <1>1, LegacyFacts DEF FallbackDone, KeyOf
<1>4. \A k : Held(k)' = Held(k)
  BY <1>1 DEF Held, KeyOf
<1> QED BY <1>2, <1>3, <1>4, SerialStays DEF Steady, FieldsMove

\* A process at work goes on to another place, or to its next task there.
LEMMA MigGoto ==
  ASSUME IdentityInd, MigInd, NEW p \in Processes, run[p].pc \in Reading,
         NEW pc \in Reading \ {"members", "bound"}, NEW todo, Goto(p, pc, todo),
         legacy' = legacy, UNCHANGED store, overruns' = overruns, lock' = lock, FieldsMove,
         indexed' = indexed \/ (OneEach /\ indexed'), recorded' = recorded,
         summary' = "clean" => \A g \in Projects : Done(g),
         run[p].pc = "members" => run[p].todo = {},
         pc \in {"team"} \cup Ending => policy',
         pc = "team" => \A k \in TeamKeys \ todo : Held(k),
         pc \in Ending => \A k \in TeamKeys : Held(k),
         pc = "owner" /\ ~run[p].issues =>
           \A g \in Projects : <<g, NoUser>> \in todo \/ Done(g)',
         pc \in {"team"} \cup Ending /\ ~run[p].issues => \A g \in Projects : Done(g)
  PROVE  MigInd'
<1>1. /\ run'[p].pc = pc /\ run'[p].todo = todo /\ run'[p].doing = NoKey
      /\ run'[p].found = NoDoc /\ run'[p].stale = run[p].stale
      /\ run'[p].owners = run[p].owners /\ run'[p].issues = run[p].issues
      /\ \A q \in Processes \ {p} : run'[q] = run[q]
  BY PlaceFacts DEF Goto, RunType
<1>2. Steady /\ \A k : Held(k)' = Held(k)
  BY QuietSteady
<1>3. Progress(p) /\ run[p].stale = {} /\ run[p].pc # "idle" /\ FieldsRight
  BY DEF MigInd, Progress, Reading
<1>4. \A k \in MemberKeys : Held(k)
  BY <1>3 DEF Progress
<1>5. MemberKeys' = MemberKeys /\ TeamKeys' = TeamKeys
  BY LegacyFacts
<1>6. \A g \in Projects : Done(g) => Done(g)'
  BY <1>2, DoneKept
<1>7. \A g \in Projects : run[p].owners[g] \in {legacy'.owner[g], owner'[g]}
  BY <1>3 DEF Progress, FieldsMove, FieldsRight
<1>8. Progress(p)'
  BY <1>1, <1>2, <1>3, <1>4, <1>5, <1>6, <1>7 DEF Progress
<1>9. Certain(p)'
  BY <1>1 DEF Certain
<1>10. recorded => RecordRight
  BY DEF MigInd
<1> QED BY <1>1, <1>3, <1>8, <1>9, <1>10, MigQuiet DEF FieldsMove

\* Who ends, or is killed, leaves what it has written.
LEMMA MigIdle ==
  ASSUME IdentityInd, MigInd, NEW p \in Processes, run[p].pc # "idle",
         run' = [run EXCEPT ![p] = Idle], legacy' = legacy, UNCHANGED <<store, fields>>,
         UNCHANGED <<indexed, summary, overruns, miscounts>>, recorded' => RecordRight
  PROVE  MigInd'
<1>1. /\ run'[p].pc = "idle" /\ run'[p].stale = {} /\ run'[p].found = NoDoc
      /\ \A q \in Processes \ {p} : run'[q] = run[q]
  BY PlaceFacts DEF Idle
<1>2. Certain(p)' /\ Progress(p)'
  BY <1>1 DEF Certain, Progress, Finding, Reading, Ending
<1>3. summary = "clean" => \A g \in Projects : Done(g)
  BY DEF MigInd
<1>4. FieldsMove
  BY FieldsStay
<1> QED BY <1>1, <1>2, <1>3, <1>4, MigQuiet DEF FieldsMove

LEMMA MigStart ==
  ASSUME IdentityInd, MigInd, NEW p \in Processes, Start(p)
  PROVE  MigInd'
<1> DEFINE r == [Idle EXCEPT !.pc = "merge", !.stale = docs,
                             !.todo = {<<d.group, d.subject>> : d \in docs}]
<1>1. /\ run[p].pc = "idle" /\ lock = Free /\ ~recorded /\ run' = [run EXCEPT ![p] = r]
      /\ lock' = p /\ UNCHANGED <<legacy, store, fields, outcome, faults, marks>>
  BY Zenon DEF Start
<1>2. /\ run'[p].pc = "merge" /\ run'[p].stale = docs /\ run'[p].found = NoDoc
      /\ run'[p].doing = NoKey /\ \A q \in Processes \ {p} : run'[q] = run[q]
  BY <1>1, PlaceFacts DEF Idle
<1>3. /\ indexed' = indexed /\ summary' = summary /\ recorded' = recorded /\ docs' = docs
      /\ overruns' = overruns /\ legacy' = legacy /\ UNCHANGED store /\ FieldsMove
  BY <1>1, FieldsStay DEF outcome, faults, store, marks
<1>4. Steady
  BY <1>3, QuietSteady
<1>5. Serial => \A d \in docs : RightDoc(d)
  BY DEF MigInd, DocsWanted
<1>6. OneEach => OneEach'
  BY <1>3, QuietOne
<1>7. ASSUME overruns = 0
      PROVE  /\ \A q \in Processes \ {p} : run[q].pc = "idle"
             /\ OneEach' /\ Alone(p)' /\ Certain(p)' /\ Current(p)'
             /\ recorded' => run'[p].pc = "idle"
  <2>1. OneEach /\ \A q \in Processes : run[q].pc = "idle"
    BY <1>1, <1>7, LockAssumption DEF MigInd, OnlyRun, Alone
  <2>2. Alone(p)' /\ Certain(p)' /\ Current(p)'
    BY <1>1, <1>2, <1>3 DEF Alone, Certain, Current
  <2> QED BY <1>1, <1>3, <1>6, <2>1, <2>2
<1>8. indexed' => OneEach'
  BY <1>3, <1>6 DEF MigInd
<1>9. Progress(p)'
  BY <1>2 DEF Progress, Reading, Ending
<1>10. summary' = "clean" => \A g \in Projects : Done(g)'
  BY <1>3, <1>4, DoneKept DEF MigInd
<1> HIDE DEF r
<1> QED BY <1>1, <1>2, <1>3, <1>4, <1>5, <1>7, <1>8, <1>9, <1>10, MigAssemble

\* Nobody moves: a lease runs out, under the holder or after it.
LEMMA MigStill ==
  ASSUME IdentityInd, MigInd, run' = run,
         UNCHANGED <<legacy, store, fields, outcome, marks>>,
         \/ overruns' = overruns /\ \A p \in Processes : Alone(p) => Alone(p)'
         \/ overruns' = overruns + 1
  PROVE  MigInd'
<1>1. /\ indexed' = indexed /\ summary' = summary /\ recorded' = recorded /\ docs' = docs
      /\ owner' = owner /\ status' = status /\ policy' = policy /\ workers' = workers
      /\ count' = count /\ legacy' = legacy
      /\ miscounts' = miscounts /\ overruns \in Nat
  BY PlaceFacts DEF outcome, store, fields, marks, IdentityInd, IdentityTypes, RestRight
<1>2. StoreMoves /\ \A g : FallbackDone(g) => FallbackDone(g)'
  BY <1>1, StoreStays, LegacyFacts DEF IdentityInd, IdentityTypes, FallbackDone, KeyOf
<1>3. Steady
  BY <1>1, <1>2, SerialStays DEF Steady
<1>4. Serial' => DocsWanted'
  <2> SUFFICES ASSUME Serial' PROVE DocsWanted'
    OBVIOUS
  <2>1. DocsWanted
    BY <1>3 DEF Steady, MigInd
  <2>2. \A d : RightDoc(d)' = RightDoc(d)
    BY <1>1, RightFacts DEF RightDoc, KeyOf, State
  <2>3. \A p \in Processes : \A d : d = run[p].found /\ d # NoDoc => RightDoc(d)'
    BY <2>1, <2>2 DEF DocsWanted
  <2> QED BY <1>1, <2>1, <2>2, <2>3 DEF DocsWanted, RightDoc, KeyOf, State
<1>5. OneEach' = OneEach
  BY <1>1 DEF OneEach
<1>6. overruns' = 0 => OnlyRun'
  <2> SUFFICES ASSUME overruns' = 0 PROVE OnlyRun'
    OBVIOUS
  <2>1. OnlyRun /\ \A p \in Processes : Alone(p)'
    BY <1>1 DEF MigInd, OnlyRun
  <2>2. \A p \in Processes : Certain(p)' /\ Current(p)'
    BY <1>1, <2>1 DEF OnlyRun, Certain, Current, Held, KeyOf
  <2> QED BY <1>1, <1>5, <2>1, <2>2 DEF OnlyRun
<1>7. \A p \in Processes : Progress(p)'
  BY <1>3, ProgressKept DEF MigInd
<1>8. FieldsRight'
  BY <1>3, FieldsKept DEF MigInd
<1>9. summary' = "clean" => \A g \in Projects : Done(g)'
  BY <1>1, <1>3, DoneKept DEF MigInd
<1>10. ASSUME recorded' PROVE RecordRight'
  <2>1. RecordRight
    BY <1>1, <1>10 DEF MigInd
  <2>2. Serial' => \A g \in Groups : CountRight(g)'
    <3> SUFFICES ASSUME Serial' PROVE \A g \in Groups : CountRight(g)'
      OBVIOUS
    <3>1. \A g \in Groups : CountRight(g)
      BY <1>3, <2>1 DEF Steady, RecordRight
    <3>2. \A g \in Groups : Active(g)' = Active(g)
      BY <1>1 DEF Active
    <3>3. overruns > 0 => overruns' > 0
      BY <1>1
    <3> QED BY <1>1, <3>1, <3>2, <3>3 DEF CountRight
  <2> QED BY <1>1, <1>3, <2>1, <2>2, RecordKept
<1> QED BY <1>1, <1>4, <1>5, <1>6, <1>7, <1>8, <1>9, <1>10 DEF MigInd

LEMMA MigRead ==
  ASSUME IdentityInd, MigInd, NEW p \in Processes, ReadLegacy(p)
  PROVE  MigInd'
<1> DEFINE r == [run[p] EXCEPT !.pc = "members", !.todo = MemberKeys, !.stale = {},
                               !.owners = owner, !.raw = workers]
<1>1. /\ run[p].pc = "merge" /\ run[p].doing = NoKey /\ run' = [run EXCEPT ![p] = r]
      /\ UNCHANGED <<legacy, store, fields, outcome, lock, faults, miscounts>>
  BY DEF ReadLegacy, At
<1>2. run[p] \in RunType /\ run \in [Processes -> RunType]
  BY PlaceFacts
<1> HIDE DEF MemberKeys
<1>3. /\ run'[p].pc = "members" /\ run'[p].doing = NoKey /\ run'[p].stale = {}
      /\ run'[p].todo = MemberKeys /\ run'[p].owners = owner /\ run'[p].found = run[p].found
      /\ \A q \in Processes \ {p} : run'[q] = run[q]
  BY <1>1, <1>2 DEF RunType
<1> HIDE DEF r
<1>4. MemberKeys' = MemberKeys /\ owner' = owner /\ FieldsMove /\ legacy' = legacy
  BY <1>1, LegacyFacts, FieldsStay DEF fields
<1>5. Progress(p)'
  BY <1>3, <1>4 DEF Progress, Reading, Ending
<1>6. Certain(p)'
  BY <1>3 DEF Certain
<1>7. (summary = "clean" => \A g \in Projects : Done(g)) /\ (recorded => RecordRight)
  BY DEF MigInd
<1>8. /\ UNCHANGED store /\ overruns' = overruns /\ lock' = lock /\ indexed' = indexed
      /\ summary' = summary /\ recorded' = recorded /\ run[p].pc # "idle"
  BY <1>1 DEF outcome, faults
<1>9. \A d : d = run'[p].found => d \in docs \cup {NoDoc, run[p].found}
  BY <1>3
<1>10. run'[p].stale \in {run[p].stale, {}}
  BY <1>3
<1>11. \A q \in Processes \ {p} : run'[q] = run[q]
  BY <1>3
<1> HIDE DEF r
<1> QED BY <1>4, <1>5, <1>6, <1>7, <1>8, <1>9, <1>10, <1>11, MigQuiet DEF FieldsMove

\* A search for a document, or for the fallback's.
LEMMA MigSearch ==
  ASSUME IdentityInd, MigInd, NEW p \in Processes, run[p].pc \in Reading,
         NEW pc \in Finding, NEW k, NEW found, Remembers(p, pc, k, found),
         UNCHANGED <<legacy, store, fields, outcome, lock, faults, marks>>,
         \/ pc = run[p].pc /\ pc # "owner" /\ run[p].doing = NoKey
         \/ pc = "owner" /\ run[p].pc = "bound" /\ k = run[p].doing
  PROVE  MigInd'
<1>1. /\ run'[p].pc = pc /\ run'[p].doing = k /\ run'[p].found = found
      /\ run'[p].todo = run[p].todo /\ run'[p].stale = run[p].stale
      /\ run'[p].owners = run[p].owners /\ run'[p].issues = run[p].issues
      /\ \A q \in Processes \ {p} : run'[q] = run[q]
  BY RememberFields
<1>a. /\ FieldsMove /\ legacy' = legacy /\ owner' = owner /\ policy' = policy
      /\ UNCHANGED store /\ overruns' = overruns /\ lock' = lock /\ indexed' = indexed
      /\ summary' = summary /\ recorded' = recorded
  BY FieldsStay DEF fields, faults, outcome, marks
<1>2. Steady /\ (\A j : Held(j)' = Held(j)) /\ legacy' = legacy /\ owner' = owner /\ policy' = policy
  BY <1>a, QuietSteady
<1>3. Progress(p) /\ run[p].stale = {} /\ run[p].pc # "idle"
  BY DEF MigInd, Progress, Reading
<1>4. MemberKeys' = MemberKeys /\ TeamKeys' = TeamKeys
  BY LegacyFacts
<1>5. \A g \in Projects : (Done(g) => Done(g)') /\ OwnerByRight(g)' = OwnerByRight(g)
  BY <1>2, DoneKept, RightFacts
<1>6. \A j : Bindable(j)' = Bindable(j)
  BY RightFacts
<1>7. Progress(p)'
  <2>1. CASE pc = run[p].pc /\ pc # "owner"
    BY <1>1, <1>2, <1>3, <1>4, <1>5, <2>1 DEF Progress, Finding, Ending, Reading
  <2>2. CASE pc = "owner" /\ run[p].pc = "bound" /\ k = run[p].doing
    <3>1. \A g \in Projects : AtHand(p, g) => AtHand(p, g)'
      BY <1>1, <1>2, <1>5, <2>2 DEF AtHand
    <3> QED BY <1>1, <1>2, <1>3, <1>4, <1>5, <1>6, <2>2, <3>1 DEF Progress, Ending, Reading
  <2> QED BY <2>1, <2>2
<1>8. found = NoDoc => ~Held(k)
  BY IdFacts, PlaceFacts, HeldIs DEF Holding, DocsRight, Remembers
<1>9. Certain(p)'
  BY <1>1, <1>2, <1>8 DEF Certain
<1>10. (summary = "clean" => \A g \in Projects : Done(g)) /\ (recorded => RecordRight)
  BY DEF MigInd
<1>11. found \in docs \cup {NoDoc}
  BY DEF Holding, Remembers
<1> QED BY <1>1, <1>a, <1>3, <1>7, <1>9, <1>10, <1>11, MigQuiet DEF FieldsMove

LEMMA MigFind ==
  ASSUME IdentityInd, MigInd, NEW p \in Processes, FindMember(p)
  PROVE  MigInd'
<1>1. /\ run[p].pc \in {"members", "external", "team"} /\ run[p].doing = NoKey
      /\ UNCHANGED <<legacy, store, fields, outcome, lock, faults, marks>>
  BY MemberSought
<1>2. PICK k, found, pc : pc = run[p].pc /\ Remembers(p, pc, k, found)
  BY MemberSought
<1>3. pc \in Finding /\ run[p].pc \in Reading /\ pc # "owner"
  BY <1>1, <1>2 DEF Finding, Reading
<1> QED BY <1>1, <1>2, <1>3, MigSearch

LEMMA MigFindFallback ==
  ASSUME IdentityInd, MigInd, NEW p \in Processes, FindFallback(p)
  PROVE  MigInd'
<1>1. run[p].pc = "bound" /\ UNCHANGED <<legacy, store, fields, outcome, lock, faults, marks>>
  BY FallbackSought
<1>2. PICK k, found : k = run[p].doing /\ Remembers(p, "owner", k, found)
  BY FallbackSought
<1>3. "owner" \in Finding /\ run[p].pc \in Reading
  BY <1>1 DEF Finding, Reading
<1> QED BY <1>1, <1>2, <1>3, MigSearch

\* The steps that only go on.
LEMMA MigGo ==
  ASSUME IdentityInd, MigInd, NEW p \in Processes,
         \/ FinishMembers(p) \/ FinishExternal(p) \/ FinishTeam(p)
         \/ LookForBundle(p) \/ WriteFiles(p) \/ SealBundle(p)
  PROVE  MigInd'
<1>1. /\ legacy' = legacy /\ UNCHANGED <<store, fields, indexed, recorded, lock, faults, summary>>
      /\ run[p].pc \in Reading /\ miscounts' = miscounts
  BY DEF FinishMembers, FinishExternal, FinishTeam, LookForBundle, WriteFiles, SealBundle, At,
         Reading, outcome, marks
<1>2. overruns' = overruns /\ FieldsMove /\ policy' = policy
  BY <1>1, FieldsStay DEF faults, fields
<1>3. Progress(p) /\ (summary = "clean" => \A g \in Projects : Done(g))
  BY DEF MigInd
<1>4. CASE FinishMembers(p)
  <2>1. run[p].pc = "members" /\ run[p].todo = {} /\ Goto(p, "status", Projects)
    BY <1>4 DEF FinishMembers, At
  <2>2. "status" \in Reading \ {"members", "bound"} /\ "status" \notin Ending
    BY DEF Reading, Ending
  <2> QED BY <1>1, <1>2, <1>3, <2>1, <2>2, MigGoto
<1>5. CASE FinishExternal(p)
  <2>1. run[p].pc = "external" /\ Goto(p, "owner", Projects \X {NoUser})
    BY <1>5 DEF FinishExternal, At
  <2>2. "owner" \in Reading \ {"members", "bound"} /\ "owner" \notin Ending
    BY DEF Reading, Ending
  <2> QED BY <1>1, <1>2, <1>3, <2>1, <2>2, MigGoto
<1>6. CASE FinishTeam(p)
  <2>1. run[p].pc = "team" /\ run[p].todo = {} /\ Goto(p, "recount", Groups \X {NoUser})
    BY <1>6 DEF FinishTeam, At
  <2>2. "recount" \in Reading \ {"members", "bound"}
    BY DEF Reading
  <2> QED BY <1>1, <1>2, <1>3, <2>1, <2>2, MigGoto DEF Progress
<1>7. CASE LookForBundle(p) \/ WriteFiles(p) \/ SealBundle(p)
  <2>1. run[p].pc \in Ending /\ \E pc \in {"verify", "write", "seal"} : Goto(p, pc, {})
    BY <1>7 DEF LookForBundle, WriteFiles, SealBundle, At, Ending
  <2>2. {"verify", "write", "seal"} \subseteq Reading \ {"members", "bound", "team", "owner"}
        /\ run[p].pc # "members"
    BY <2>1 DEF Reading, Ending
  <2> QED BY <1>1, <1>2, <1>3, <2>1, <2>2, MigGoto DEF Progress
<1> QED BY <1>4, <1>5, <1>6, <1>7

LEMMA MigStatus ==
  ASSUME IdentityInd, MigInd, NEW p \in Processes, MigrateStatus(p)
  PROVE  MigInd'
<1> DEFINE g == First(run[p].todo)
<1>1. /\ run[p].pc = "status" /\ status' = [status EXCEPT ![g] = Normal(@)]
      /\ UNCHANGED <<legacy, store, owner, workers, count, policy, outcome, lock, faults, marks>>
      /\ \/ Goto(p, "external", WorkerKeys(run[p].raw))
         \/ Goto(p, "status", run[p].todo \ {g})
  BY DEF MigrateStatus, At
<1> HIDE DEF g
<1>2. FieldsMove
  BY <1>1, PlaceFacts DEF FieldsMove, RestRight, CountMove, marks
<1>3. \A pc \in {"external", "status"} : pc \in Reading \ {"members", "bound"}
         /\ pc \notin Ending /\ pc \notin {"team", "owner"}
  BY DEF Reading, Ending
<1>4. run[p].pc \in Reading /\ run[p].pc # "members"
      /\ (summary = "clean" => \A h \in Projects : Done(h))
  BY <1>1 DEF Reading, MigInd
<1>5. indexed' = indexed /\ recorded' = recorded /\ summary' = summary /\ overruns' = overruns
  BY <1>1 DEF outcome, faults
<1>6. CASE Goto(p, "external", WorkerKeys(run[p].raw))
  BY <1>1, <1>2, <1>3, <1>4, <1>5, <1>6, MigGoto
<1>7. CASE Goto(p, "status", run[p].todo \ {g})
  BY <1>1, <1>2, <1>3, <1>4, <1>5, <1>7, MigGoto
<1> QED BY <1>1, <1>6, <1>7

(* ------------------------------ the owners ---------------------------- *)

LEMMA RightIsUser ==
  ASSUME RestRight, NEW g \in Projects
  PROVE  OwnerByRight(g) \in Users
<1>1. Fallback \in Users /\ Candidates(g) \subseteq Users
  BY FallbackUser DEF Candidates
<1>2. legacy.owner[g] \in Users \cup {NoUser}
  BY DEF RestRight, LegacyStates
<1>3. Candidates(g) # {} => (CHOOSE u \in Candidates(g) : TRUE) \in Candidates(g)
  OBVIOUS
<1> QED BY <1>1, <1>2, <1>3 DEF OwnerByRight

\* Whoever is at an owner has read what it was before, or what is right.
LEMMA OwnerSeen ==
  ASSUME IdentityInd, MigInd, NEW p \in Processes, run[p].pc = "owner", NEW k \in run[p].todo
  PROVE  LET g == k[1]
             seen == run[p].owners[g]
         IN  /\ g \in Projects /\ k = <<g, NoUser>>
             /\ seen = NoUser => legacy.owner[g] = NoUser
             /\ seen # NoUser => owner[g] = OwnerByRight(g) /\ seen = owner[g]
<1> DEFINE g == k[1]
           seen == run[p].owners[g]
<1>1. k \in Projects \X {NoUser}
  BY PlaceFacts DEF ProcessRight, Tasks
<1>2. g \in Projects /\ k = <<g, NoUser>>
  BY <1>1
<1>3. seen \in {legacy.owner[g], owner[g]} /\ owner[g] \in {legacy.owner[g], OwnerByRight(g)}
  BY <1>2 DEF MigInd, Progress, FieldsRight, Reading
<1>4. OwnerByRight(g) # NoUser
  BY <1>2, PlaceFacts, RightIsUser, UserAssumption
<1>5. legacy.owner[g] # NoUser => OwnerByRight(g) = legacy.owner[g]
  BY DEF OwnerByRight
<1> HIDE DEF g, seen
<1>6. seen = NoUser => legacy.owner[g] = NoUser
  BY <1>3, <1>4
<1>7. seen # NoUser => owner[g] = OwnerByRight(g) /\ seen = owner[g]
  BY <1>3, <1>4, <1>5
<1> QED BY <1>2, <1>6, <1>7 DEF g, seen

\* Nobody is at hand while a process looks for the next owner.
LEMMA OwnersSettled ==
  ASSUME MigInd, NEW p \in Processes, run[p].pc = "owner", run[p].doing = NoKey, ~run[p].issues
  PROVE  \A g \in Projects : <<g, NoUser>> \in run[p].todo \/ Done(g)
BY DEF MigInd, Progress, AtHand

LEMMA MigKeepOwner ==
  ASSUME IdentityInd, MigInd, NEW p \in Processes, KeepOwner(p)
  PROVE  MigInd'
<1> DEFINE k == First(run[p].todo)
           seen == run[p].owners[k[1]]
           q == Questionable(k[1], seen)
           r == [run[p] EXCEPT !.todo = run[p].todo \ {k}, !.issues = run[p].issues \/ q]
<1>1. /\ run[p].pc = "owner" /\ run[p].doing = NoKey /\ k \in run[p].todo
      /\ seen # NoUser \/ Cardinality(Candidates(k[1])) > 1
      /\ UNCHANGED <<legacy, store, fields, outcome, lock, faults, marks>>
  BY FirstIs DEF KeepOwner, At
<1>2. run' = [run EXCEPT ![p] = r]
  BY Zenon DEF KeepOwner
<1>3. /\ k[1] \in Projects /\ k = <<k[1], NoUser>>
      /\ seen # NoUser => owner[k[1]] = OwnerByRight(k[1]) /\ seen = owner[k[1]]
  BY <1>1, OwnerSeen
<1>4. ~q => Done(k[1])
  <2> SUFFICES ASSUME ~q PROVE Done(k[1])
    OBVIOUS
  <2>1. seen # NoUser /\ seen \in Candidates(k[1])
    BY <1>1 DEF Questionable
  <2> QED BY <1>3, <2>1 DEF Done, NeedsFallback
<1> HIDE DEF q, k
<1>5. run[p] \in RunType
  BY PlaceFacts
<1>6. /\ run'[p].pc = "owner" /\ run'[p].todo = run[p].todo \ {k} /\ run'[p].doing = NoKey
      /\ run'[p].found = run[p].found /\ run'[p].stale = run[p].stale
      /\ run'[p].owners = run[p].owners /\ run'[p].issues = (run[p].issues \/ q)
      /\ \A h \in Processes \ {p} : run'[h] = run[h]
  BY <1>1, <1>2, PlaceFacts DEF RunType
<1> HIDE DEF r
<1>a. /\ FieldsMove /\ legacy' = legacy /\ owner' = owner /\ UNCHANGED store
      /\ overruns' = overruns /\ lock' = lock /\ indexed' = indexed
      /\ summary' = summary /\ recorded' = recorded
  BY <1>1, FieldsStay DEF fields, faults, outcome, marks
<1>7. Steady /\ legacy' = legacy /\ owner' = owner /\ (\A j : Held(j)' = Held(j))
  BY <1>a, QuietSteady
<1>8. Progress(p) /\ run[p].stale = {}
  BY <1>1 DEF MigInd, Progress
<1>9. MemberKeys' = MemberKeys
  BY <1>7, LegacyFacts
<1>10. ~(run[p].issues \/ q) =>
         \A g \in Projects : <<g, NoUser>> \in run[p].todo \ {k} \/ Done(g)'
  BY <1>1, <1>3, <1>4, <1>7, OwnersSettled, DoneKept
<1>11. Progress(p)'
  BY <1>1, <1>6, <1>7, <1>8, <1>9, <1>10 DEF Progress, Reading, Ending
<1>12. Certain(p)'
  BY <1>6 DEF Certain
<1>13. (summary = "clean" => \A g \in Projects : Done(g)) /\ (recorded => RecordRight)
  BY DEF MigInd
<1> QED BY <1>1, <1>a, <1>6, <1>11, <1>12, <1>13, MigQuiet DEF FieldsMove

LEMMA MigCandidate ==
  ASSUME IdentityInd, MigInd, NEW p \in Processes, BindCandidate(p)
  PROVE  MigInd'
<1>0. First(run[p].todo) \in run[p].todo
  BY FirstIs DEF BindCandidate
<1>a. PICK k \in run[p].todo : k = First(run[p].todo)
  BY <1>0
<1>b. PICK g : g = k[1]
  OBVIOUS
<1> DEFINE u == CHOOSE c \in Candidates(g) : TRUE
<1>1. /\ run[p].pc = "owner" /\ run[p].doing = NoKey /\ k \in run[p].todo
      /\ run[p].owners[g] = NoUser /\ owner' = [owner EXCEPT ![g] = u]
      /\ Cardinality(Candidates(g)) = 1 /\ Goto(p, "owner", run[p].todo \ {k})
      /\ UNCHANGED <<legacy, store, status, workers, count, policy, outcome, lock, faults, marks>>
  BY <1>a, <1>b DEF BindCandidate, At
<1>2. Candidates(g) # {}
  BY <1>1, FS_EmptySet
<1>3. g \in Projects /\ k = <<g, NoUser>> /\ legacy.owner[g] = NoUser
  BY <1>1, <1>b, OwnerSeen
<1>4. u = OwnerByRight(g) /\ ~NeedsFallback(g)
  BY <1>2, <1>3 DEF OwnerByRight, NeedsFallback
<1> HIDE DEF u
<1>5. FieldsMove /\ owner'[g] = OwnerByRight(g)
  BY <1>1, <1>3, <1>4, PlaceFacts DEF FieldsMove, RestRight, CountMove, marks
<1>6. overruns' = overruns /\ indexed' = indexed /\ recorded' = recorded /\ summary' = summary
  BY <1>1 DEF outcome, faults
<1>7. Steady
  BY <1>1, <1>5, <1>6, QuietSteady
<1>8. Done(g)'
  BY <1>1, <1>4, <1>5, RightFacts DEF Done
<1>9. ~run[p].issues => \A h \in Projects : <<h, NoUser>> \in run[p].todo \ {k} \/ Done(h)'
  BY <1>1, <1>3, <1>7, <1>8, OwnersSettled, DoneKept
<1>10. /\ "owner" \in Reading \ {"members", "bound"} /\ "owner" \notin Ending
       /\ (summary = "clean" => \A h \in Projects : Done(h))
  BY DEF Reading, Ending, MigInd
<1> QED BY <1>1, <1>5, <1>6, <1>9, <1>10, MigGoto

LEMMA MigFallback ==
  ASSUME IdentityInd, MigInd, NEW p \in Processes, BindFallback(p)
  PROVE  MigInd'
<1>0. First(run[p].todo) \in run[p].todo
  BY FirstIs DEF BindFallback
<1>a. PICK k \in run[p].todo : k = First(run[p].todo)
  BY <1>0
<1>b. PICK g : g = k[1]
  OBVIOUS
<1> DEFINE r == [run[p] EXCEPT !.pc = "bound", !.todo = run[p].todo \ {k}, !.doing = <<g, Fallback>>]
<1>1. /\ run[p].pc = "owner" /\ run[p].doing = NoKey /\ k \in run[p].todo
      /\ run[p].owners[g] = NoUser /\ owner' = [owner EXCEPT ![g] = Fallback]
      /\ Candidates(g) = {}
      /\ UNCHANGED <<legacy, store, status, workers, count, policy, outcome, lock, faults, marks>>
  BY <1>a, <1>b DEF BindFallback, At
<1>2. run' = [run EXCEPT ![p] = r]
  BY <1>a, <1>b, Zenon DEF BindFallback
<1>3. g \in Projects /\ k = <<g, NoUser>> /\ legacy.owner[g] = NoUser
  BY <1>1, <1>b, OwnerSeen
<1>4. Fallback = OwnerByRight(g) /\ NeedsFallback(g) /\ Fallback \in Users
  BY <1>1, <1>3, PlaceFacts, FallbackUser DEF OwnerByRight, NeedsFallback
<1>5. FieldsMove /\ owner'[g] = OwnerByRight(g)
  BY <1>1, <1>3, <1>4, PlaceFacts DEF FieldsMove, RestRight, CountMove, marks
<1>6. /\ overruns' = overruns /\ indexed' = indexed /\ recorded' = recorded
      /\ summary' = summary /\ legacy' = legacy /\ lock' = lock
  BY <1>1 DEF outcome, faults
<1>7. Steady /\ \A j : Held(j)' = Held(j)
  BY <1>1, <1>5, <1>6, QuietSteady
<1>8. run[p] \in RunType /\ run \in [Processes -> RunType]
  BY PlaceFacts
<1>9. /\ run'[p].pc = "bound" /\ run'[p].todo = run[p].todo \ {k} /\ run'[p].doing = <<g, Fallback>>
      /\ run'[p].found = run[p].found /\ run'[p].stale = run[p].stale
      /\ run'[p].owners = run[p].owners /\ run'[p].issues = run[p].issues
      /\ \A h \in Processes \ {p} : run'[h] = run[h]
  BY <1>2, <1>8 DEF RunType
<1> HIDE DEF r
<1>10. Progress(p) /\ run[p].stale = {} /\ FieldsRight
  BY <1>1 DEF MigInd, Progress
<1>11. Fallback' = Fallback /\ Bindable(<<g, Fallback>>)' /\ <<g, Fallback>> # NoKey
  BY <1>3, <1>4, <1>6, RightFacts, LegacyFacts, TeamAssumption DEF Bindable, NoKey
<1>12. ~run[p].issues =>
         \A h \in Projects : <<h, NoUser>> \in run'[p].todo \/ AtHand(p, h)' \/ Done(h)'
  <2>1. AtHand(p, g)'
    BY <1>5, <1>6, <1>9, <1>11, RightFacts DEF AtHand
  <2> QED BY <1>1, <1>3, <1>7, <1>9, <2>1, OwnersSettled, DoneKept
<1>13. \A h \in Projects : run[p].owners[h] \in {legacy'.owner[h], owner'[h]}
  BY <1>1, <1>5, <1>6, <1>10 DEF Progress, FieldsMove, FieldsRight, Reading
<1>14. MemberKeys' = MemberKeys
  BY <1>6, LegacyFacts
<1>15. Progress(p)'
  BY <1>1, <1>7, <1>9, <1>10, <1>11, <1>12, <1>13, <1>14 DEF Progress, Reading, Ending
<1>16. Certain(p)'
  BY <1>9 DEF Certain, Finding
<1>17. (summary = "clean" => \A h \in Projects : Done(h)) /\ (recorded => RecordRight)
  BY DEF MigInd
<1> QED BY <1>1, <1>5, <1>6, <1>9, <1>15, <1>16, <1>17, MigQuiet DEF FieldsMove

LEMMA MigPolicy ==
  ASSUME IdentityInd, MigInd, NEW p \in Processes, CreatePolicy(p)
  PROVE  MigInd'
<1>1. /\ run[p].pc = "owner" /\ run[p].todo = {} /\ run[p].doing = NoKey
      /\ policy' = TRUE /\ Goto(p, "team", TeamKeys)
      /\ UNCHANGED <<legacy, store, owner, status, workers, count, outcome, lock, faults, marks>>
  BY DEF CreatePolicy, At
<1>2. FieldsMove
  BY <1>1 DEF FieldsMove, CountMove, marks
<1>3. ~run[p].issues => \A g \in Projects : Done(g)
  BY <1>1, OwnersSettled
<1>4. overruns' = overruns /\ indexed' = indexed /\ recorded' = recorded /\ summary' = summary
  BY <1>1 DEF outcome, faults
<1>5. /\ "team" \in Reading \ {"members", "bound"} /\ "team" \notin Ending
      /\ run[p].pc \in Reading /\ (summary = "clean" => \A g \in Projects : Done(g))
  BY <1>1 DEF Reading, Ending, MigInd
<1> QED BY <1>1, <1>2, <1>3, <1>4, <1>5, MigGoto

\* Without an overrun the number that was counted still holds.
NumberRight ==
  overruns = 0 => \A p \in Processes : run[p].pc = "counted" =>
    run[p].number = Cardinality(Active(First(run[p].todo)[1]))

LEMMA NumberStep ==
  ASSUME IdentityInd, MigInd, NumberRight, [Next]_vars
  PROVE  NumberRight'
<1> SUFFICES ASSUME overruns' = 0, NEW q \in Processes, run'[q].pc = "counted"
             PROVE  (run[q].number = Cardinality(Active(First(run[q].todo)[1])))'
  BY DEF NumberRight
<1>1. ASSUME NEW p \in Processes, UpStep(p)
      PROVE  (run[q].number = Cardinality(Active(First(run[q].todo)[1])))'
  <2>1. overruns = 0 /\ run[p].pc # "idle"
    BY <1>1, UpLeaves DEF faults
  <2>2. \A r \in Processes \ {p} : run[r].pc = "idle" /\ run'[r] = run[r]
    BY <1>1, <2>1, AtWork, UpOnwards DEF Onwards
  <2>3. q = p /\ CountMembers(p)
    BY <1>1, <2>2, UpOnwards DEF Onwards
  <2>4. Counting(p)
    BY <2>3, CountRun
  <2>5. run'[p].number = Cardinality(Active(First(run[p].todo)[1])) /\ docs' = docs
    BY ONLY <2>4 DEF Counting, store
  <2>6. run'[p].todo = run[p].todo
    BY <2>4, CountFields
  <2> QED BY <2>3, <2>5, <2>6 DEF Active
<1>2. ASSUME NEW p \in Processes, Start(p) \/ Die(p)
      PROVE  (run[q].number = Cardinality(Active(First(run[q].todo)[1])))'
  <2>1. /\ run'[p].pc # "counted" /\ \A r \in Processes \ {p} : run'[r] = run[r]
        /\ docs' = docs /\ overruns' = overruns
    <3>1. CASE Start(p)
      <4> DEFINE r == [Idle EXCEPT !.pc = "merge", !.stale = docs,
                                   !.todo = {<<d.group, d.subject>> : d \in docs}]
      <4>1. r.pc = "merge"
        BY DEF Idle
      <4>2. run' = [run EXCEPT ![p] = r]
            /\ UNCHANGED <<legacy, store, fields, outcome, faults, marks>>
        BY <3>1, Zenon DEF Start
      <4> HIDE DEF r
      <4> QED BY <4>1, <4>2, PlaceFacts DEF store, faults
    <3>2. CASE Die(p)
      BY <3>2, PlaceFacts DEF Die, store, Idle
    <3> QED BY <1>2, <3>1, <3>2
  <2> QED BY <2>1 DEF NumberRight, Active
<1>3. CASE ExpireLease \/ UNCHANGED vars
  <2>1. run' = run /\ docs' = docs /\ overruns' = overruns
    BY <1>3 DEF ExpireLease, vars, store, faults
  <2> QED BY <2>1 DEF NumberRight, Active
<1>4. CASE Overrun
  BY <1>4 DEF Overrun, IdentityInd, IdentityTypes, RestRight
<1> QED BY <1>1, <1>2, <1>3, <1>4 DEF Next

LEMMA MigCount ==
  ASSUME IdentityInd, MigInd, NEW p \in Processes, CountMembers(p)
  PROVE  MigInd'
<1>0. Counting(p)
  BY CountRun
<1>1. /\ run[p].pc = "recount" /\ run[p].doing = NoKey
      /\ UNCHANGED <<legacy, store, fields, outcome, lock, faults, marks>>
  BY ONLY <1>0 DEF Counting
<1>3. /\ run'[p].pc = "counted" /\ run'[p].todo = run[p].todo /\ run'[p].doing = NoKey
      /\ run'[p].found = run[p].found /\ run'[p].stale = run[p].stale
      /\ run'[p].owners = run[p].owners /\ run'[p].issues = run[p].issues
      /\ \A q \in Processes \ {p} : run'[q] = run[q]
  BY <1>0, CountFields
<1>4. FieldsMove
  BY <1>1, FieldsStay DEF marks
<1>5. /\ indexed' = indexed /\ summary' = summary /\ recorded' = recorded
      /\ overruns' = overruns /\ legacy' = legacy /\ lock' = lock /\ UNCHANGED store
      /\ owner' = owner /\ policy' = policy
  BY <1>1 DEF outcome, faults, fields
<1>6. Steady /\ \A k : Held(k)' = Held(k)
  BY <1>4, <1>5, QuietSteady
<1>7. MemberKeys' = MemberKeys /\ TeamKeys' = TeamKeys
  BY <1>5, LegacyFacts
<1>8. \A g \in Projects : Done(g) => Done(g)'
  BY <1>6, DoneKept
<1>9. Progress(p) /\ (summary = "clean" => \A g \in Projects : Done(g))
      /\ (recorded => RecordRight)
  BY DEF MigInd
<1>10. Progress(p)'
  BY <1>1, <1>3, <1>5, <1>6, <1>7, <1>8, <1>9 DEF Progress, Reading, Ending
<1>11. Certain(p)'
  BY <1>3 DEF Certain
<1> QED BY <1>1, <1>3, <1>4, <1>5, <1>9, <1>10, <1>11, MigQuiet DEF FieldsMove

LEMMA MigRecount ==
  ASSUME IdentityInd, MigInd, NumberRight, NEW p \in Processes, WriteCount(p)
  PROVE  MigInd'
<1> DEFINE k == First(run[p].todo)
<1>1. /\ run[p].pc = "counted"
      /\ count' = [count EXCEPT ![k[1]] = run[p].number]
      /\ workers' = workers \ {k[1]}
      /\ miscounts' = IF run[p].number = Cardinality(Active(k[1]))
                      THEN miscounts \ {k[1]} ELSE miscounts \cup {k[1]}
      /\ UNCHANGED <<legacy, store, owner, status, policy, outcome, lock, faults>>
      /\ \/ Goto(p, "index", {})
         \/ Goto(p, "recount", run[p].todo \ {k})
  BY DEF WriteCount, At
<1>a. overruns = 0 => run[p].number = Cardinality(Active(k[1]))
  BY <1>1 DEF NumberRight
<1> HIDE DEF k
<1>b. overruns \in Nat /\ count \in [Groups -> 0..MaxDocs]
  BY PlaceFacts DEF RestRight
<1>c. ASSUME NEW g \in Groups PROVE CountMove(g)
  <2>1. CASE g # k[1]
    BY <1>1, <1>b, <2>1 DEF CountMove
  <2>2. CASE g = k[1] /\ run[p].number = Cardinality(Active(k[1]))
    BY <1>1, <1>b, <2>2 DEF CountMove
  <2>3. CASE g = k[1] /\ run[p].number # Cardinality(Active(k[1]))
    BY <1>1, <1>a, <1>b, <2>3 DEF CountMove
  <2> QED BY <2>1, <2>2, <2>3
<1>2. FieldsMove
  BY <1>1, <1>c, PlaceFacts DEF FieldsMove, RestRight, CountMove, marks
<1>3. /\ policy /\ (\A j \in TeamKeys : Held(j))
      /\ (~run[p].issues => \A g \in Projects : Done(g))
      /\ (summary = "clean" => \A g \in Projects : Done(g))
  BY <1>1 DEF MigInd, Progress, Ending
<1>4. /\ overruns' = overruns /\ indexed' = indexed /\ recorded' = recorded
      /\ summary' = summary /\ policy' = policy
  BY <1>1 DEF outcome, faults
<1>5. /\ run[p].pc \in Reading /\ run[p].pc # "members"
      /\ \A pc \in {"index", "recount"} : /\ pc \in Reading \ {"members", "bound"}
                                          /\ pc \notin {"team", "owner"}
  BY <1>1 DEF Reading
<1>6. CASE Goto(p, "index", {})
  BY <1>1, <1>2, <1>3, <1>4, <1>5, <1>6, MigGoto
<1>7. CASE Goto(p, "recount", run[p].todo \ {k})
  BY <1>1, <1>2, <1>3, <1>4, <1>5, <1>7, MigGoto
<1> QED BY <1>1, <1>6, <1>7

LEMMA MigIndexes ==
  ASSUME IdentityInd, MigInd, NEW p \in Processes, EnsureIndexes(p) \/ SaveReports(p)
  PROVE  MigInd'
<1>1. /\ run[p].pc \in Ending
      /\ UNCHANGED <<legacy, store, fields, recorded, faults, marks>>
  BY DEF EnsureIndexes, SaveReports, At, Ending
<1>2. /\ policy /\ (\A j \in TeamKeys : Held(j))
      /\ (~run[p].issues => \A g \in Projects : Done(g))
      /\ (summary = "clean" => \A g \in Projects : Done(g))
      /\ (recorded => RecordRight)
  BY <1>1 DEF MigInd, Progress
<1>3. FieldsMove /\ overruns' = overruns /\ policy' = policy
  BY <1>1, FieldsStay DEF faults, fields, marks
<1>4. /\ run[p].pc \in Reading /\ run[p].pc # "members" /\ run[p].pc # "idle"
      /\ \A pc \in {"report", "files"} : /\ pc \in Reading \ {"members", "bound"}
                                         /\ pc \notin {"team", "owner"}
  BY <1>1 DEF Reading, Ending
<1>5. CASE EnsureIndexes(p) /\ OneEach
  <2>1. Goto(p, "report", {}) /\ lock' = lock /\ indexed' = TRUE /\ summary' = summary
    BY <1>5 DEF EnsureIndexes
  <2> QED BY <1>1, <1>2, <1>3, <1>4, <1>5, <2>1, MigGoto
<1>6. CASE EnsureIndexes(p) /\ ~OneEach
  <2>1. run' = [run EXCEPT ![p] = Idle] /\ indexed' = indexed /\ summary' = summary
    BY <1>6 DEF EnsureIndexes, Leave
  <2>2. overruns' = overruns /\ miscounts' = miscounts
    BY <1>1 DEF faults, marks
  <2> QED BY <1>1, <1>2, <1>3, <1>4, <2>1, <2>2, MigIdle
<1>7. CASE SaveReports(p)
  <2>1. /\ Goto(p, "files", {}) /\ lock' = lock /\ indexed' = indexed
        /\ summary' = "clean" => ~run[p].issues
    BY <1>7 DEF SaveReports
  <2> QED BY <1>1, <1>2, <1>3, <1>4, <2>1, MigGoto
<1> QED BY <1>5, <1>6, <1>7

\* What verify() accepts is right.
LEMMA MigVerify ==
  ASSUME IdentityInd, MigInd, NEW p \in Processes, Verify(p)
  PROVE  MigInd'
<1>1. /\ run[p].pc = "verify" /\ run' = [run EXCEPT ![p] = Idle]
      /\ UNCHANGED <<legacy, store, fields, indexed, summary, faults, marks>>
      /\ recorded' = (recorded \/ Accepted)
  BY DEF Verify, Leave, At
<1>2. Accepted => RecordRight
  <2> SUFFICES ASSUME Accepted PROVE RecordRight
    OBVIOUS
  <2>1. Progress(p) /\ FieldsRight /\ \A g \in Projects : Done(g)
    BY DEF Accepted, MigInd
  <2>2. /\ policy /\ \A k \in MemberKeys \cup TeamKeys : Held(k)
    BY <1>1, <2>1 DEF Progress, Ending, Reading
  <2>3. \A k \in WorkerKeys(Projects) : Held(k)
    BY PlaceFacts DEF Accepted, NamesKept, WorkerKeys
  <2>4. \A g \in Projects : status[g] = Normal(legacy.status[g])
    BY <2>1 DEF Accepted, FieldsRight
  <2> QED BY <2>1, <2>2, <2>3, <2>4 DEF Accepted, RecordRight, Complete, CountRight
<1>3. recorded' => RecordRight
  BY <1>1, <1>2 DEF MigInd
<1> QED BY <1>1, <1>3, MigIdle DEF faults, marks

LEMMA MigDie ==
  ASSUME IdentityInd, MigInd, NEW p \in Processes, Die(p)
  PROVE  MigInd'
<1>1. recorded => RecordRight
  BY DEF MigInd
<1> QED BY <1>1, MigIdle DEF Die, outcome, marks

LEMMA MigLease ==
  ASSUME IdentityInd, MigInd, ExpireLease \/ Overrun
  PROVE  MigInd'
<1>1. run' = run /\ UNCHANGED <<legacy, store, fields, outcome, marks>>
  BY DEF ExpireLease, Overrun
<1>2. CASE ExpireLease
  <2>1. overruns' = overruns /\ run[lock].pc = "idle"
    BY <1>2 DEF ExpireLease, faults
  <2>2. \A p \in Processes : Alone(p) => Alone(p)'
    BY <1>1, <2>1 DEF Alone
  <2> QED BY <1>1, <2>1, <2>2, MigStill
<1>3. CASE Overrun
  <2>1. overruns' = overruns + 1
    BY <1>3 DEF Overrun
  <2> QED BY <1>1, <2>1, MigStill
<1> QED BY <1>2, <1>3

LEMMA MigInit ==
  ASSUME Init
  PROVE  MigInd
<1>1. /\ docs = {} /\ recorded = FALSE /\ summary = "none" /\ indexed = FALSE
      /\ owner = legacy.owner /\ status = legacy.status
      /\ \A p \in Processes : run[p] = Idle
  BY DEF Init
<1>2. /\ Idle.pc = "idle" /\ Idle.stale = {} /\ Idle.found = NoDoc
  BY DEF Idle
<1>3. DocsWanted
  BY <1>1, <1>2 DEF DocsWanted
<1>4. OnlyRun
  BY <1>1, <1>2 DEF OnlyRun, OneEach, Alone, Certain, Current, Finding
<1>5. \A p \in Processes : Progress(p)
  BY <1>1, <1>2 DEF Progress, Reading, Ending
<1>6. FieldsRight
  BY <1>1 DEF FieldsRight
<1> QED BY <1>1, <1>3, <1>4, <1>5, <1>6 DEF MigInd

LEMMA MigStep ==
  ASSUME IdentityInd, MigInd, NumberRight, [Next]_vars
  PROVE  MigInd'
<1>1. ASSUME NEW p \in Processes, UpStep(p) PROVE MigInd'
  <2>1. CASE MergeDocuments(p) \/ DropDuplicates(p) \/ ReadLegacy(p)
    BY <2>1, MigMerge, MigDrop, MigRead
  <2>2. CASE FindMember(p) \/ InsertMember(p) \/ UpdateMember(p)
    BY <2>2, MigFind, MigInsert, MigUpdate
  <2>3. CASE FinishMembers(p) \/ MigrateStatus(p) \/ FinishExternal(p)
    BY <2>3, MigGo, MigStatus
  <2>4. CASE KeepOwner(p) \/ BindCandidate(p) \/ BindFallback(p) \/ FindFallback(p)
    BY <2>4, MigKeepOwner, MigCandidate, MigFallback, MigFindFallback
  <2>5. CASE CreatePolicy(p) \/ FinishTeam(p) \/ CountMembers(p) \/ WriteCount(p)
    BY <2>5, MigPolicy, MigGo, MigCount, MigRecount
  <2>6. CASE EnsureIndexes(p) \/ SaveReports(p) \/ LookForBundle(p) \/ WriteFiles(p)
             \/ SealBundle(p)
    BY <2>6, MigIndexes, MigGo
  <2>7. CASE Verify(p)
    BY <2>7, MigVerify
  <2> QED BY <1>1, <2>1, <2>2, <2>3, <2>4, <2>5, <2>6, <2>7 DEF UpStep
<1>2. ASSUME NEW p \in Processes, Start(p) \/ Die(p) PROVE MigInd'
  BY <1>2, MigStart, MigDie
<1>3. CASE ExpireLease \/ Overrun
  BY <1>3, MigLease
<1>4. CASE UNCHANGED vars
  <2>1. /\ run' = run /\ UNCHANGED <<legacy, store, fields, outcome, marks>>
        /\ overruns' = overruns /\ lock' = lock
    BY <1>4 DEF vars, faults
  <2> QED BY <2>1, MigStill DEF Alone
<1> QED BY <1>1, <1>2, <1>3, <1>4 DEF Next

(* ------------------------- what is recorded is right ------------------ *)

\* What the documents of a project say, by the legacy data.
ByRight(g, u) ==
  IF NeedsFallback(g) /\ u = Fallback THEN Bound(g) ELSE Plain(g, u)

LEMMA DocByRight ==
  ASSUME IdentityInd, RecordRight, OneEach, Serial, NEW d \in docs, RightDoc(d), d.group \in Projects
  PROVE  \/ /\ d.subject \in Users /\ State(d) = ByRight(d.group, d.subject)
            /\ \/ Projected(d.group, d.subject) # {}
               \/ NeedsFallback(d.group) /\ d.subject = Fallback
         \/ /\ d.subject \in legacy.credits[d.group] /\ d.subject \in Names
            /\ State(d) = Credited
<1> DEFINE g == d.group
           u == d.subject
           k == <<g, u>>
<1>1. Wanted(k, State(d)) /\ k[1] = g /\ k[2] = u /\ RestRight
  BY PlaceFacts DEF RightDoc, KeyOf, IdentityInd, IdentityTypes
<1>2. CASE Bindable(k)
  <2>1. u = Fallback /\ NeedsFallback(g) /\ u \in Users /\ Candidates(g) = {}
    BY <1>1, <1>2, FallbackUser DEF Bindable, NeedsFallback
  <2>2. FallbackDone(g)
    BY <2>1 DEF RecordRight, Done
  <2>3. PICK e \in docs : KeyOf(e) = <<g, Fallback>> /\ "creator" \in e.tags
    BY <2>2 DEF FallbackDone
  <2>4. e = d
    BY <2>1, <2>3 DEF OneEach, KeyOf
  <2>5. "creator" \in State(d).tags
    BY <2>3, <2>4 DEF State
  <2>6. ASSUME k \in MemberKeys, State(d) = Plain(g, u) PROVE FALSE
    <3>1. State(d) \in Projected(g, u)
      BY <1>1, <2>6, PlainIs DEF MemberKeys
    <3>2. "creator" \notin RelationTags(g, u)
      BY <2>1 DEF Candidates
    <3>3. "creator" \notin State(d).tags
      BY <3>1, <3>2 DEF Projected, FromEvents
    <3> QED BY <2>5, <3>3
  <2>7. State(d) = Bound(g)
    BY <1>1, <1>2, <2>6, KindFacts, TeamAssumption DEF Wanted
  <2> QED BY <2>1, <2>7 DEF ByRight
<1>3. CASE k \in MemberKeys /\ State(d) = Plain(g, u) /\ ~Bindable(k)
  <2>1. u \in Users /\ Projected(g, u) # {}
    BY <1>1, <1>3 DEF MemberKeys
  <2>2. ~(NeedsFallback(g) /\ u = Fallback)
    BY <1>1, <1>3 DEF Bindable
  <2> QED BY <1>3, <2>1, <2>2 DEF ByRight
<1>4. CASE k \in WorkerKeys(Projects) /\ State(d) = Credited
  BY <1>1, <1>4 DEF WorkerKeys
<1>5. CASE k \in TeamKeys
  BY <1>1, <1>5, KindFacts, TeamAssumption
<1> QED BY <1>1, <1>2, <1>3, <1>4, <1>5 DEF Wanted

\* The state by right, as the result is written down.
LEMMA ByRightIs ==
  ASSUME NEW g, NEW u, (NeedsFallback(g) /\ u = Fallback) \/ Projected(g, u) # {}
  PROVE  LET bound == IF NeedsFallback(g) THEN {Fallback} ELSE {}
         IN  /\ ByRight(g, u).tags = (IF u \in bound THEN {"creator"} ELSE {}) \cup
                                      UNION {m.tags : m \in Projected(g, u)}
             /\ ByRight(g, u).status = IF u \in bound THEN "active"
                                       ELSE (CHOOSE m \in Projected(g, u) : TRUE).status
<1>1. CASE NeedsFallback(g) /\ u = Fallback
  BY <1>1 DEF ByRight, Bound
<1>2. CASE ~(NeedsFallback(g) /\ u = Fallback)
  <2>1. Projected(g, u) = {Plain(g, u)}
    BY <1>2, PlainIs
  <2>2. UNION {m.tags : m \in Projected(g, u)} = Plain(g, u).tags
    BY <2>1
  <2>3. ByRight(g, u) = Plain(g, u) /\ u \notin (IF NeedsFallback(g) THEN {Fallback} ELSE {})
    BY <1>2 DEF ByRight
  <2> QED BY <2>2, <2>3 DEF Plain
<1> QED BY <1>1, <1>2

LEMMA MembersRight ==
  ASSUME IdentityInd, RecordRight, OneEach, Serial, DocsWanted, NEW g \in Projects
  PROVE  Documents(g) = MembersByRight(g)
<1> DEFINE bound == IF NeedsFallback(g) THEN {Fallback} ELSE {}
           U == {v \in Users : Projected(g, v) # {}} \cup bound
           st(u) == [subject |-> u,
                     tags |-> (IF u \in bound THEN {"creator"} ELSE {}) \cup
                              UNION {m.tags : m \in Projected(g, u)},
                     status |-> IF u \in bound THEN "active"
                                ELSE (CHOOSE m \in Projected(g, u) : TRUE).status]
           nm(n) == [subject |-> n, tags |-> {"credited"}, status |-> "active"]
           say(d) == [subject |-> d.subject, tags |-> d.tags, status |-> d.status]
<1>1. /\ MembersByRight(g) = {st(u) : u \in U} \cup {nm(n) : n \in legacy.credits[g]}
      /\ Documents(g) = {say(d) : d \in {e \in docs : e.group = g}}
  BY DEF MembersByRight, Documents
<1>2. \A u \in U : st(u) = [subject |-> u, tags |-> ByRight(g, u).tags,
                            status |-> ByRight(g, u).status]
  BY ByRightIs
<1>3. ASSUME NEW d \in docs, d.group = g
      PROVE  \/ d.subject \in U /\ d.subject \in Users /\ say(d) = st(d.subject)
             \/ d.subject \in legacy.credits[g] /\ d.subject \in Names /\ say(d) = nm(d.subject)
  <2>1. RightDoc(d)
    BY DEF DocsWanted
  <2>2. CASE /\ d.subject \in Users /\ State(d) = ByRight(g, d.subject)
             /\ \/ Projected(g, d.subject) # {}
                \/ NeedsFallback(g) /\ d.subject = Fallback
    <3>1. d.subject \in U
      BY <2>2
    <3>2. d.tags = ByRight(g, d.subject).tags /\ d.status = ByRight(g, d.subject).status
      BY <2>2 DEF State
    <3> QED BY <1>2, <2>2, <3>1, <3>2
  <2>3. CASE d.subject \in legacy.credits[g] /\ d.subject \in Names /\ State(d) = Credited
    BY <2>3 DEF State, Credited
  <2> QED BY <1>3, <2>1, <2>2, <2>3, DocByRight
<1>4. ASSUME NEW u \in U PROVE \E d \in docs : d.group = g /\ say(d) = st(u)
  <2>1. PICK d \in docs : KeyOf(d) = <<g, u>>
    <3>1. CASE Projected(g, u) # {} /\ u \in Users
      <4>1. <<g, u>> \in MemberKeys
        BY <3>1 DEF MemberKeys
      <4> QED BY <4>1 DEF RecordRight, Complete, Held
    <3>2. CASE u \in bound
      <4>1. NeedsFallback(g) /\ u = Fallback
        BY <3>2
      <4>2. FallbackDone(g)
        BY <4>1 DEF RecordRight, Done
      <4> QED BY <4>1, <4>2 DEF FallbackDone
    <3> QED BY <3>1, <3>2
  <2>2. d.group = g /\ d.subject = u
    BY <2>1 DEF KeyOf
  <2>3. u \in Users
    BY PlaceFacts, FallbackUser DEF IdentityInd, IdentityTypes
  <2>4. u \notin Names
    BY <2>3, UserAssumption
  <2> QED BY <1>3, <2>2, <2>4
<1>5. ASSUME NEW n \in legacy.credits[g] PROVE \E d \in docs : d.group = g /\ say(d) = nm(n)
  <2>1. n \in Names
    BY DEF IdentityInd, IdentityTypes, RestRight, LegacyStates
  <2>2. <<g, n>> \in WorkerKeys(Projects)
    BY <2>1 DEF WorkerKeys
  <2>3. PICK d \in docs : KeyOf(d) = <<g, n>>
    BY <2>2 DEF RecordRight, Complete, Held
  <2>4. d.group = g /\ d.subject = n /\ n \notin Users
    BY <2>1, <2>3, UserAssumption DEF KeyOf
  <2> QED BY <1>3, <2>4
<1> HIDE DEF st, nm, say, U
<1> QED BY <1>1, <1>3, <1>4, <1>5

LEMMA TeamRight ==
  ASSUME IdentityInd, RecordRight, DocsWanted
  PROVE  Documents(Team) = TeamByRight
<1> DEFINE ru(u) == [subject |-> u, tags |-> Highest(RelationTags(Team, u)), status |-> "active"]
           say(d) == [subject |-> d.subject, tags |-> d.tags, status |-> d.status]
<1>1. /\ TeamByRight = {ru(k[2]) : k \in TeamKeys}
      /\ Documents(Team) = {say(d) : d \in {e \in docs : e.group = Team}}
  BY DEF TeamByRight, Documents
<1>2. RestRight
  BY DEF IdentityInd, IdentityTypes
<1>3. ASSUME NEW d \in docs, d.group = Team
      PROVE  KeyOf(d) \in TeamKeys /\ say(d) = ru(KeyOf(d)[2]) /\ KeyOf(d)[2] = d.subject
  <2>1. Wanted(KeyOf(d), State(d)) /\ KeyOf(d)[1] = Team /\ KeyOf(d)[2] = d.subject
    BY <1>3 DEF DocsWanted, RightDoc, KeyOf
  <2>2. KeyOf(d) \in TeamKeys /\ State(d) = InTeam(d.subject)
    BY <1>2, <2>1, KindFacts, TeamAssumption DEF Wanted
  <2>3. d.tags = Highest(RelationTags(Team, d.subject)) /\ d.status = "active"
    BY <2>2 DEF State, InTeam
  <2> QED BY <2>1, <2>2, <2>3
<1>4. ASSUME NEW k \in TeamKeys PROVE \E d \in docs : d.group = Team /\ say(d) = ru(k[2])
  <2>1. PICK d \in docs : KeyOf(d) = k
    BY DEF RecordRight, Complete, Held
  <2>2. d.group = Team
    BY <1>2, <2>1, KindFacts DEF KeyOf
  <2> QED BY <1>3, <2>1, <2>2
<1> HIDE DEF ru, say
<1> QED BY <1>1, <1>3, <1>4

LEMMA MigGoal ==
  ASSUME IdentityInd, MigInd
  PROVE  MigratedIsRight
<1> SUFFICES ASSUME recorded, Serial PROVE Right
  BY DEF MigratedIsRight
<1>1. RecordRight /\ OneEach /\ DocsWanted
  BY DEF MigInd, RecordRight
<1>2. \A g \in Projects : /\ owner[g] = OwnerByRight(g)
                          /\ status[g] = Normal(legacy.status[g])
  BY <1>1 DEF RecordRight, Done
<1>3. policy /\ \A g \in Groups : CountRight(g)
  BY <1>1 DEF RecordRight
<1> QED BY <1>1, <1>2, <1>3, MembersRight, TeamRight DEF Right

\* A migration that is recorded and over has produced, from every legacy
\* database, exactly what its data say: the documents of every project and of
\* the team, the owners, the states and the counters; however often up() was
\* killed between two writes and started again, and also when two processes ran
\* it side by side, unless an owner had to be bound by fallback, and but for a
\* counter that an overtaken process wrote late.
THEOREM MigratedHolds == Spec => []MigratedIsRight
<1>1. Init => IdentityInd /\ MigInd /\ NumberRight
  <2>1. ASSUME Init PROVE NumberRight
    <3>1. \A p \in Processes : run[p] = Idle
      BY <2>1 DEF Init
    <3>2. Idle.pc = "idle"
      BY DEF Idle
    <3> QED BY <3>1, <3>2 DEF NumberRight
  <2> QED BY <2>1, IdentityInit, MigInit
<1>2. IdentityInd /\ MigInd /\ NumberRight /\ [Next]_vars
        => (IdentityInd /\ MigInd /\ NumberRight)'
  BY IdentityStep, MigStep, NumberStep
<1>3. IdentityInd /\ MigInd => MigratedIsRight
  BY MigGoal
<1> QED BY <1>1, <1>2, <1>3, PTL DEF Spec
=============================================================================
