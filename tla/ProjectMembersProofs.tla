---- MODULE ProjectMembersProofs ----
(***************************************************************************)
(* MembersInv and OwnerBreaksOnlyByScars for any users, aliases, handlers,*)
(* team and policy.                                                      *)
(*                                                                       *)
(* A merge or a transfer that has written its first document may still   *)
(* undo it.  Until that is settled the row is frozen: its committed value,*)
(* Base, is the one the handler remembers.  In terms of Base every request*)
(* takes effect in one step, and a transfer of ownership takes effect when*)
(* the project document is written.                                      *)
(*                                                                       *)
(* The parts of the invariant are operators on rows R, handlers Q, the   *)
(* committed rows B and the owner o, so that a lemma can compare the two *)
(* sides of a step.                                                      *)
(*                                                                       *)
(* The second part proves LatestMailWorks of MailCodes, which MCMembers  *)
(* checks beside ProjectMembers, for any addresses and requests.         *)
(***************************************************************************)
EXTENDS ProjectMembers, MailCodes, SequenceTheorems, TLAPS

\* A handler's memory as it really is: only a registered user gets a new
\* row, or an alias's.
Memory == [pc : Pcs, op : Ops \cup {"undo"}, by : Users, a : Rows, b : Rows,
        expA : Nat, expB : Nat, oldA : Row, oldB : Row,
        owner : Users \cup {Nobody}, over : Nat,
        tags : SUBSET Tags, tagsB : SUBSET Tags]
Fit(q) ==
    /\ q.pc = "write" /\ q.oldA.status = "absent" => q.a \in Users
    /\ q.pc = "bindWrite" => q.b \in Users
Job == {q \in Memory : Fit(q)}
TypeInv == MembersTypeOK /\ req \in [Workers -> Job]

\* The rows a handler has written and may still put back, with the values
\* it would put back and the tags it has written.
Froze(q) ==
    {r \in Rows : \/ r = q.a /\ q.pc \in {"second", "commit", "undoA"}
                  \/ r = q.b /\ q.pc \in {"commit", "undoB"}
                  \/ r = q.b /\ q.pc = "undoA" /\ q.op = "undo"}
Snap(q, r) == IF r = q.a THEN q.oldA ELSE q.oldB
NewTags(q, r) == IF r = q.a THEN q.tags ELSE q.tagsB
Half(q, r) == [Snap(q, r) EXCEPT !.tags = NewTags(q, r), !.ver = @ + 1]

Frozen(Q, r) == \E k \in Workers : r \in Froze(Q[k])
Freezer(Q, r) == CHOOSE k \in Workers : r \in Froze(Q[k])
Base(R, Q) == [r \in Rows |-> IF Frozen(Q, r) THEN Snap(Q[Freezer(Q, r)], r) ELSE R[r]]

There(x) == x.status # "absent"

\* A user's row has the user's id or an alias's, a user has one row, and
\* only aliases are without a user.
RowsRight(R) ==
    /\ \A r \in Rows : ~There(R[r]) => R[r] = Absent
    /\ \A u \in Users : There(R[u]) => R[u].user = u
    /\ \A r, s \in Rows : There(R[r]) /\ There(R[s]) /\ R[r].user = R[s].user
                            => r = s \/ R[r].user = Nobody

\* A frozen row is as its one handler has written it, and is a user's.
FrozenRight(R, Q) ==
    /\ \A k \in Workers : \A r \in Froze(Q[k]) :
         /\ There(Snap(Q[k], r)) /\ Snap(Q[k], r).user # Nobody
         /\ R[r] = Half(Q[k], r)
    /\ \A k, j \in Workers : k # j => \A r \in Froze(Q[k]) : r \notin Froze(Q[j])

\* The committed rows: the owner has an active one, and the creator tag
\* belongs to him alone.
OwnerRight(B, o) ==
    /\ o \in Users
    /\ \E r \in Rows : B[r].user = o /\ B[r].status = "active"
    /\ \A r \in Rows : There(B[r]) => ("creator" \in B[r].tags <=> B[r].user = o)

\* A version a handler has been told or has read is at most the committed
\* one; if it is that one, the row it has read is the committed row.
Knows(B, r, v) == r \in Users \/ There(B[r]) => v <= B[r].ver
Remembers(B, r, v, old) ==
    /\ old.ver = v
    /\ There(old) /\ There(B[r]) /\ B[r].ver = v => B[r] = old
    /\ There(old) /\ r \in Users => There(B[r])

\* The handler is right about who owns the project, as far as the row is
\* the one it was told of.
KnowsOwner(B, o, q) ==
    There(B[q.a]) /\ B[q.a].ver = q.expA => (B[q.a].user = q.owner <=> B[q.a].user = o)

\* What a handler at each step knows, and what it is about to write.
VersionsRight(B, o, q) ==
    /\ q.pc \in {"load", "check", "write", "bindWrite", "first"} => Knows(B, q.a, q.expA)
    /\ q.pc \in {"load", "check", "first", "second"} => Knows(B, q.b, q.expB)
    /\ q.pc = "bindMerge" => Knows(B, q.b, q.oldB.ver)
    /\ q.pc \in {"write", "bindWrite", "first"} => Remembers(B, q.a, q.expA, q.oldA)
    /\ q.pc \in {"first", "second"} => Remembers(B, q.b, q.expB, q.oldB)
    /\ q.pc \in {"load", "check"} /\ q.op \in {"tags", "remove", "merge"} /\ q.a \in Users
         => There(B[q.a])
    /\ q.pc \in {"check", "write", "first"} /\ q.op \in {"tags", "remove", "merge"}
         => KnowsOwner(B, o, q)

WriteRight(q) ==
    /\ q.op \in {"add", "restore", "rename", "tags", "remove"}
    /\ q.op = "add" => "creator" \notin q.tags /\ q.oldA.status \in {"absent", "removed"}
    /\ q.op \in {"restore", "rename", "remove"} => q.tags = q.oldA.tags
    /\ q.op = "tags" => ("creator" \in q.tags <=> q.oldA.user = q.owner)
    /\ q.op = "remove" => q.oldA.user # q.owner
    /\ ~There(q.oldA) => q.op = "add" /\ q.a \in Users

BindRight(q) ==
    /\ q.op = "bind" /\ There(q.oldA) /\ q.oldA.user = Nobody
    /\ q.pc = "bindWrite" => "creator" \notin q.tags /\ q.b \in Users
    /\ q.pc = "bindMerge" => /\ There(q.oldB) /\ q.oldB.user # Nobody
                             /\ "creator" \in q.tagsB <=> "creator" \in q.oldB.tags

PairRight(o, q) ==
    /\ q.a # q.b /\ There(q.oldA) /\ There(q.oldB) /\ q.oldA.user # Nobody
    /\ q.op \in {"merge", "transfer", "undo"}
    /\ q.op = "undo" => q.pc \in {"undoA", "undoB"}
    /\ q.pc \in {"commit", "undoB"} => q.op # "merge"
    /\ q.pc = "undoB" => q.op = "undo"
    /\ q.op = "merge" =>
         /\ q.oldA.user # q.owner /\ "creator" \notin q.tags
         /\ q.oldB.user = Nobody /\ q.tagsB = q.oldB.tags
    /\ q.op = "merge" /\ q.pc # "first" => q.oldA.user # o
    /\ q.op # "merge" =>
         /\ q.oldA.user = q.owner
         /\ q.oldB.user \in Users /\ q.oldB.user # q.owner /\ q.oldB.status = "active"
         /\ "creator" \in q.oldA.tags /\ "creator" \notin q.tags /\ "creator" \in q.tagsB
    /\ q.op # "merge" /\ q.pc \in {"second", "commit", "undoA"} => q.owner = o

Pairing == {"first", "second", "commit", "undoA", "undoB"}
PlanRight(o, q) ==
    /\ q.pc = "write" => WriteRight(q)
    /\ q.pc \in {"bindWrite", "bindMerge"} => BindRight(q)
    /\ q.pc = "erase" => There(q.oldA) /\ q.oldA.user = Nobody
    /\ q.pc \in Pairing => PairRight(o, q)

JobRight(B, o, q) == VersionsRight(B, o, q) /\ PlanRight(o, q)

Unscarred(R, Q, o) ==
    /\ RowsRight(R) /\ FrozenRight(R, Q) /\ OwnerRight(Base(R, Q), o)
    /\ \A k \in Workers : JobRight(Base(R, Q), o, Q[k])

Committed == scars = {} => Unscarred(row, req, project.owner)
IndInv == TypeInv /\ Committed

(***************************************************************************)
(* Types                                                                 *)
(***************************************************************************)
LEMMA AbsentRow == Absent \in Row
BY DEF Absent, Row

LEMMA JobType == TypeInv =>
    /\ req \in [Workers -> Job] /\ row \in [Rows -> Row]
    /\ project \in [owner : Users \cup {Nobody}, over : Nat, clearing : BOOLEAN]
    /\ made \in Nat /\ scars \subseteq {"torn", "blind", "died"}
BY DEF TypeInv, MembersTypeOK, Job, Memory

LEMMA TypeJob ==
    ASSUME req \in [Workers -> Job], row \in [Rows -> Row],
           project \in [owner : Users \cup {Nobody}, over : Nat, clearing : BOOLEAN],
           made \in Nat, scars \subseteq {"torn", "blind", "died"}
    PROVE  TypeInv
BY DEF TypeInv, MembersTypeOK, Job, Memory

LEMMA RowOfRows == ASSUME NEW u, HasRow(u)
                   PROVE  RowOf(u) \in Rows /\ Exists(RowOf(u)) /\ row[RowOf(u)].user = u
BY DEF HasRow, RowOf

LEMMA NoJobType == NoJob \in Job
BY MembersAssumption, AbsentRow DEF NoJob, Job, Memory, Fit, Rows, Ops, Pcs, Row, Absent

LEMMA InitType == MembersInit => TypeInv
<1> SUFFICES ASSUME MembersInit PROVE TypeInv
  OBVIOUS
<1>1. PICK joined \in SUBSET (Users \ {Owner0}) :
         row = [r \in Rows |->
                  IF r \in Users \ joined /\ r # Owner0 THEN Absent
                  ELSE [status |-> "active", user |-> IF r \in Users THEN r ELSE Nobody,
                        tags |-> IF r = Owner0 THEN {"creator"} ELSE
                                 IF r \in Users THEN {} ELSE {"translator"},
                        ver |-> 0]]
  BY DEF MembersInit
<1>2. row \in [Rows -> Row]
  <2> SUFFICES ASSUME NEW r \in Rows PROVE row[r] \in Row
    BY <1>1
  <2>1. CASE r \in Users \ joined /\ r # Owner0
    BY <1>1, <2>1, AbsentRow
  <2>2. CASE ~(r \in Users \ joined /\ r # Owner0)
    BY <1>1, <2>2 DEF Row, Tags, ProjectTags, ManagerTags, WorkerTags
  <2> QED BY <2>1, <2>2
<1>3. req \in [Workers -> Job]
  BY NoJobType DEF MembersInit
<1>4. project \in [owner : Users \cup {Nobody}, over : Nat, clearing : BOOLEAN]
  BY MembersAssumption DEF MembersInit
<1> QED BY <1>2, <1>3, <1>4, TypeJob DEF MembersInit

\* A step changes one handler's memory, and leaves the rows typed.
LEMMA StepType ==
    ASSUME TypeInv, NEW k \in Workers, NEW q \in Job,
           req' = [req EXCEPT ![k] = q], row' \in [Rows -> Row],
           project' \in [owner : Users \cup {Nobody}, over : Nat, clearing : BOOLEAN],
           made' \in Nat, scars' \subseteq {"torn", "blind", "died"}
    PROVE  TypeInv'
BY JobType DEF TypeInv, MembersTypeOK, Job, Memory

LEMMA AdvanceType ==
    ASSUME TypeInv, NEW k \in Workers, NEW pc \in Pcs,
           pc = "write" => row[req[k].a].status # "absent",
           pc = "bindWrite" => req[k].b \in Users,
           NEW tags \in SUBSET Tags, NEW tagsB \in SUBSET Tags,
           req' = Advance(k, pc, tags, tagsB), UNCHANGED <<row, project, made>>,
           scars' \subseteq {"torn", "blind", "died"}
    PROVE  TypeInv'
<1> DEFINE q == [req[k] EXCEPT !.pc = pc, !.oldA = row[req[k].a], !.oldB = row[req[k].b],
                               !.tags = tags, !.tagsB = tagsB]
<1>1. q \in Job
  <2>1. req[k] \in Memory /\ row[req[k].a] \in Row /\ row[req[k].b] \in Row
    BY JobType DEF Job, Memory
  <2>2. q \in Memory
    BY <2>1 DEF Memory
  <2>3. q.pc = pc /\ q.a = req[k].a /\ q.b = req[k].b /\ q.oldA = row[req[k].a]
    BY <2>1 DEF Memory
  <2> QED BY <2>2, <2>3 DEF Job, Fit
<1>2. req' = [req EXCEPT ![k] = q]
  BY DEF Advance
<1> QED BY <1>1, <1>2, JobType, StepType

LEMMA DoneType ==
    ASSUME TypeInv, NEW k \in Workers, req' = Done(k), row' \in [Rows -> Row],
           UNCHANGED <<project, made>>, scars' \subseteq {"torn", "blind", "died"}
    PROVE  TypeInv'
BY NoJobType, StepType, JobType DEF Done

LEMMA MoveType ==
    ASSUME TypeInv, NEW k \in Workers, NEW pc \in Pcs \ {"write", "bindWrite"},
           req' = [req EXCEPT ![k].pc = pc], row' \in [Rows -> Row],
           UNCHANGED <<project, made>>, scars' \subseteq {"torn", "blind", "died"}
    PROVE  TypeInv'
<1> DEFINE q == [req[k] EXCEPT !.pc = pc]
<1>1. q \in Job
  BY JobType DEF Job, Memory, Fit
<1>2. req' = [req EXCEPT ![k] = q]
  OBVIOUS
<1> QED BY <1>1, <1>2, JobType, StepType

LEMMA ChecksTyped ==
    ASSUME TypeInv, NEW k \in Workers,
           \/ CheckRename(k) \/ CheckTags(k) \/ CheckRemove(k) \/ CheckRestore(k)
           \/ CheckAdd(k) \/ CheckDelete(k) \/ CheckBind(k) \/ CheckMerge(k)
           \/ CheckTransfer(k)
    PROVE  TypeInv'
<1> USE JobType
<1>a. req[k] \in Job /\ \A r \in Rows : row[r] \in Row /\ row[r].tags \in SUBSET Tags
  BY DEF Row
<1>b. req[k].a \in Rows /\ req[k].b \in Rows /\ "write" \in Pcs /\ "erase" \in Pcs
      /\ "first" \in Pcs /\ "bindWrite" \in Pcs
  BY <1>a DEF Job, Memory, Fit, Pcs
<1>c. \A rs : AfterReading(rs) \subseteq {"torn", "blind", "died"}
  BY DEF AfterReading
<1>1. CASE CheckRename(k)
  BY <1>1, <1>a, <1>b, AdvanceType DEF CheckRename, Named, Exists
<1>2. CASE CheckTags(k)
  BY <1>2, <1>a, <1>b, AdvanceType DEF CheckTags, Named, Exists
<1>3. CASE CheckRemove(k)
  BY <1>3, <1>a, <1>b, AdvanceType DEF CheckRemove, Named, Exists
<1>4. CASE CheckRestore(k)
  BY <1>4, <1>a, <1>b, AdvanceType DEF CheckRestore, Named, Exists
<1>5. CASE CheckAdd(k)
  <2> DEFINE u == req[k].a
             r == IF HasRow(u) THEN RowOf(u) ELSE u
  <2>1. PICK tags \in SUBSET WorkerTags :
          req' = [req EXCEPT ![k] = [@ EXCEPT !.pc = "write", !.a = r, !.b = r,
                     !.expA = row[r].ver, !.oldA = row[r], !.oldB = row[r], !.tags = tags]]
    BY <1>5 DEF CheckAdd
  <2>2. r \in Rows
    BY <1>b, RowOfRows
  <2> DEFINE q == [req[k] EXCEPT !.pc = "write", !.a = r, !.b = r,
                     !.expA = row[r].ver, !.oldA = row[r], !.oldB = row[r], !.tags = tags]
  <2>3. row[r] \in Row /\ row[r].ver \in Nat
    BY <2>2, <1>a DEF Row
  <2>4. tags \in SUBSET Tags
    BY DEF Tags, ProjectTags
  <2> HIDE DEF r
  <2>6. row[r].status = "absent" => r \in Users
    BY <1>5, RowOfRows DEF CheckAdd, Exists, r
  <2>5. q \in Job
    BY <1>a, <1>b, <2>2, <2>3, <2>4, <2>6 DEF Job, Memory, Fit
  <2> QED BY <1>5, <1>c, <2>1, <2>5, StepType DEF CheckAdd
<1>6. CASE CheckDelete(k)
  BY <1>6, <1>a, <1>b, AdvanceType DEF CheckDelete
<1>7. CASE CheckBind(k)
  <2>1. CASE HasRow(req[k].b)
    <3> DEFINE b == RowOf(req[k].b)
               merged == row[b].tags \cup row[req[k].a].tags
               q == [req[k] EXCEPT !.pc = "bindMerge", !.b = b,
                          !.oldA = row[req[k].a], !.oldB = row[b], !.tagsB = merged]
    <3>1. b \in Rows
      BY <2>1, RowOfRows
    <3>2. merged \in SUBSET Tags /\ row[b] \in Row /\ row[req[k].a] \in Row
      BY <3>1, <1>a, <1>b
    <3>3. req' = [req EXCEPT ![k] = q]
      BY <1>7, <2>1 DEF CheckBind
    <3> HIDE DEF b, merged
    <3>4. q \in Job
      BY <1>a, <3>1, <3>2 DEF Job, Memory, Fit, Pcs
    <3> QED BY <1>7, <1>c, <3>3, <3>4, StepType DEF CheckBind
  <2>2. CASE ~HasRow(req[k].b)
    BY <1>7, <2>2, <1>a, <1>b, <1>c, AdvanceType DEF CheckBind
  <2> QED BY <2>1, <2>2
<1>8. CASE CheckMerge(k)
  BY <1>8, <1>a, <1>b, AdvanceType DEF CheckMerge
<1>9. CASE CheckTransfer(k)
  <2> DEFINE a == RowOf(req[k].owner)
             b == RowOf(req[k].b)
  <2>1. PICK keep \in {{}, {"admin"}} :
         req' = [req EXCEPT ![k] = [@ EXCEPT !.pc = "first", !.a = a, !.b = b,
                   !.expA = row[a].ver, !.expB = row[b].ver,
                   !.oldA = row[a], !.oldB = row[b],
                   !.tags = (row[a].tags \ {"creator"}) \cup keep,
                   !.tagsB = row[b].tags \cup {"creator"}]]
    BY <1>9 DEF CheckTransfer
  <2>2. a \in Rows /\ b \in Rows
    BY <1>9, RowOfRows DEF CheckTransfer
  <2> DEFINE tags == (row[a].tags \ {"creator"}) \cup keep
             tagsB == row[b].tags \cup {"creator"}
             q == [req[k] EXCEPT !.pc = "first", !.a = a, !.b = b,
                   !.expA = row[a].ver, !.expB = row[b].ver,
                   !.oldA = row[a], !.oldB = row[b], !.tags = tags, !.tagsB = tagsB]
  <2>3. /\ row[a] \in Row /\ row[a].ver \in Nat /\ row[b] \in Row /\ row[b].ver \in Nat
        /\ tags \in SUBSET Tags /\ tagsB \in SUBSET Tags
    BY <2>2, <1>a DEF Row, Tags, ProjectTags, ManagerTags
  <2> HIDE DEF a, b, tags, tagsB
  <2>4. q \in Job
    BY <1>a, <1>b, <2>2, <2>3 DEF Job, Memory, Fit
  <2>5. req' = [req EXCEPT ![k] = q]
    BY <2>1 DEF tags, tagsB
  <2> QED BY <1>9, <1>c, <2>4, <2>5, StepType DEF CheckTransfer
<1> QED BY <1>1, <1>2, <1>3, <1>4, <1>5, <1>6, <1>7, <1>8, <1>9

LEMMA WritesTyped ==
    ASSUME TypeInv, NEW k \in Workers,
           \/ Write(k) \/ Insert(k) \/ BindWrite(k) \/ BindMerge(k) \/ Erase(k)
           \/ WriteFirst(k) \/ WriteSecond(k) \/ Commit(k) \/ UndoFirst(k) \/ UndoSecond(k)
    PROVE  TypeInv'
<1> DEFINE q == req[k]
<1> USE JobType
<1>a. q \in Job /\ \A r \in Rows : row[r] \in Row
  OBVIOUS
<1>g. Fit(q)
  BY DEF Job
<1>b. q.a \in Rows /\ q.b \in Rows /\ q.oldA \in Row /\ q.oldB \in Row
      /\ q.tags \in SUBSET Tags /\ q.tagsB \in SUBSET Tags
  BY <1>a DEF Job, Memory, Fit
<1>c. \A r \in Rows, x \in Row : [row EXCEPT ![r] = x] \in [Rows -> Row]
  OBVIOUS
<1>d. ASSUME NEW u \in Users \cup {Nobody}
      PROVE  Written(q, u) \in Row /\ [Written(q, u) EXCEPT !.status = "active"] \in Row
  <2> DEFINE status == CASE q.op = "remove" -> "removed"
                         [] q.op \in {"add", "restore"} -> "active"
                         [] OTHER -> q.oldA.status
  <2>1. status \in {"absent", "active", "invited", "removed"} /\ q.oldA.ver + 1 \in Nat
    BY <1>b DEF Row
  <2>2. Written(q, u) = [q.oldA EXCEPT !.user = u, !.tags = q.tags, !.ver = q.oldA.ver + 1,
                                      !.status = status]
    BY <1>b DEF Written, Row
  <2> HIDE DEF status
  <2>3. Written(q, u) \in Row
    BY <1>b, <2>1, <2>2 DEF Row
  <2> QED BY <2>3 DEF Row
<1>e. ASSUME NEW x \in Row, NEW t \in SUBSET Tags,
             NEW s \in {"absent", "active", "invited", "removed"}
      PROVE  /\ [x EXCEPT !.tags = t, !.ver = x.ver + 1] \in Row
             /\ [x EXCEPT !.tags = t, !.ver = x.ver + 1, !.status = s] \in Row
  <2>1. x.ver + 1 \in Nat
    BY DEF Row
  <2>2. /\ [x EXCEPT !.tags = t, !.ver = x.ver + 1] \in Row
        /\ [x EXCEPT !.tags = t, !.ver = x.ver + 1, !.status = s] \in Row
    BY <2>1 DEF Row
  <2> QED BY <2>2
<1>f. \A old \in Row : \A r \in Rows : Undo(r, old) \in [Rows -> Row]
  BY <1>a DEF Undo, Row
<1> HIDE DEF q
<1>1. CASE Write(k)
  <2>1. Written(q, q.oldA.user) \in Row
    BY <1>b, <1>d DEF Row
  <2>2. row' \in [Rows -> Row]
    BY <1>1, <1>b, <1>c, <2>1 DEF Write, q
  <2> QED BY <1>1, <2>2, DoneType DEF Write
<1>2. CASE Insert(k)
  <2>1. q.pc = "write" /\ q.oldA.status = "absent" /\ req' = Done(k) /\ UNCHANGED <<project, made, scars>>
    BY <1>2 DEF Insert, q
  <2>2. row' \in [Rows -> Row]
    <3> DEFINE x == [status |-> "active", user |-> q.a, tags |-> q.tags, ver |-> 0]
    <3>1. CASE HasRow(q.a)
      BY <1>2, <3>1 DEF Insert, q
    <3>2. CASE ~HasRow(q.a) /\ q.a \in Users
      <4>1. x \in Row
        BY <1>b, <3>2 DEF Row
      <4>2. row' = [row EXCEPT ![q.a] = x]
        BY <1>2, <3>2 DEF Insert, q
      <4> QED BY <1>b, <1>c, <4>1, <4>2
    <3> QED BY <2>1, <3>1, <3>2, <1>g DEF Fit
  <2> QED BY <2>1, <2>2, DoneType
<1>3. CASE BindWrite(k)
  <2>1. row' \in [Rows -> Row]
    <3>1. CASE q.b \in Users
      <4>1. [Written(q, q.b) EXCEPT !.status = "active"] \in Row
        BY <1>d, <3>1
      <4> QED BY <1>3, <1>b, <1>c, <4>1 DEF BindWrite, q
    <3> QED BY <1>3, <1>g, <3>1 DEF Fit, BindWrite, q
  <2> QED BY <1>3, <2>1, DoneType DEF BindWrite
<1>4. CASE BindMerge(k)
  <2>1. row' \in [Rows -> Row]
    <3>1. row[q.b] \in Row /\ q.oldB.ver + 1 \in Nat
      BY <1>a, <1>b DEF Row
    <3>2. [row[q.b] EXCEPT !.tags = q.tagsB, !.ver = q.oldB.ver + 1] \in Row
      BY <1>b, <3>1 DEF Row
    <3>3. row' = [row EXCEPT ![q.b] = [row[q.b] EXCEPT !.tags = q.tagsB, !.ver = q.oldB.ver + 1]]
      BY <1>4 DEF BindMerge, q
    <3> QED BY <1>b, <1>c, <3>2, <3>3
  <2> QED BY <1>4, <2>1, MoveType DEF BindMerge, Pcs
<1>5. CASE Erase(k)
  <2>1. row' \in [Rows -> Row]
    BY <1>5, <1>b, <1>c, AbsentRow DEF Erase, q
  <2> QED BY <1>5, <2>1, DoneType DEF Erase
<1>6. CASE WriteFirst(k)
  <2>1. row' \in [Rows -> Row]
    <3>1. [row[q.a] EXCEPT !.tags = q.tags, !.ver = row[q.a].ver + 1] \in Row
      BY <1>a, <1>b, <1>e
    <3>2. CASE Current(q.a, q.expA)
      <4>1. row' = [row EXCEPT ![q.a] = [row[q.a] EXCEPT !.tags = q.tags, !.ver = row[q.a].ver + 1]]
        BY <1>6, <3>2, <1>a, <1>b DEF WriteFirst, q, Row
      <4> QED BY <1>b, <1>c, <3>1, <4>1
    <3>3. CASE ~Current(q.a, q.expA)
      BY <1>6, <3>3 DEF WriteFirst, q
    <3> QED BY <3>2, <3>3
  <2> QED BY <1>6, <2>1, DoneType, MoveType DEF WriteFirst, Pcs
<1>7. CASE WriteSecond(k)
  <2>1. row' \in [Rows -> Row]
    <3> DEFINE status == IF q.op = "merge" THEN "removed" ELSE row[q.b].status
    <3>1. status \in {"absent", "active", "invited", "removed"} /\ row[q.b] \in Row
      BY <1>a, <1>b DEF Row
    <3>2. CASE Current(q.b, q.expB)
      <4>1. row' = [row EXCEPT ![q.b] = [row[q.b] EXCEPT !.tags = q.tagsB, !.ver = row[q.b].ver + 1, !.status = status]]
        BY <1>7, <3>2, <3>1 DEF WriteSecond, q, Row
      <4> HIDE DEF status
      <4>2. [row[q.b] EXCEPT !.tags = q.tagsB, !.ver = row[q.b].ver + 1, !.status = status] \in Row
        BY <1>b, <1>e, <3>1
      <4> QED BY <1>b, <1>c, <4>1, <4>2
    <3>3. CASE ~Current(q.b, q.expB)
      BY <1>7, <3>3 DEF WriteSecond, q
    <3> QED BY <3>2, <3>3
  <2> QED BY <1>7, <2>1, DoneType, MoveType DEF WriteSecond, Pcs
<1>8. CASE Commit(k)
  <2>1. CASE project.owner = q.owner /\ project.over = q.over /\ ~project.clearing
    <3>1. row[q.b].user \in Users \cup {Nobody} /\ project.over + 1 \in Nat
      BY <1>a, <1>b DEF Row
    <3>2. project' = [project EXCEPT !.owner = row[q.b].user, !.over = project.over + 1]
      BY <1>8, <2>1 DEF Commit, q
    <3>3. project' \in [owner : Users \cup {Nobody}, over : Nat, clearing : BOOLEAN]
      BY <3>1, <3>2
    <3> QED BY <1>8, <2>1, <3>3, NoJobType, StepType DEF Commit, q, Done
  <2>2. CASE ~(project.owner = q.owner /\ project.over = q.over /\ ~project.clearing)
    <3>1. [q EXCEPT !.pc = "undoA", !.op = "undo"] \in Job
      BY <1>a DEF Job, Memory, Fit, Pcs
    <3>2. req' = [req EXCEPT ![k] = [q EXCEPT !.pc = "undoA", !.op = "undo"]]
      BY <1>8, <2>2 DEF Commit, q
    <3> QED BY <1>8, <2>2, <3>1, <3>2, StepType DEF Commit, q
  <2> QED BY <2>1, <2>2
<1>9. CASE UndoFirst(k)
  <2>1. row' \in [Rows -> Row]
    BY <1>9, <1>b, <1>f DEF UndoFirst, q
  <2> QED BY <1>9, <2>1, DoneType, MoveType DEF UndoFirst, Pcs
<1>10. CASE UndoSecond(k)
  <2>1. row' \in [Rows -> Row]
    BY <1>10, <1>b, <1>f DEF UndoSecond, q
  <2> QED BY <1>10, <2>1, DoneType DEF UndoSecond
<1> QED BY <1>1, <1>2, <1>3, <1>4, <1>5, <1>6, <1>7, <1>8, <1>9, <1>10

LEMMA NextType == TypeInv /\ [MembersNext]_memberVars => TypeInv'
<1> SUFFICES ASSUME TypeInv, [MembersNext]_memberVars PROVE TypeInv'
  OBVIOUS
<1> USE JobType
<1>1. CASE UNCHANGED memberVars
  BY <1>1 DEF memberVars, TypeInv, MembersTypeOK
<1>2. CASE ClearStarts \/ ClearFails
  <2>1. /\ project' \in [owner : Users \cup {Nobody}, over : Nat, clearing : BOOLEAN]
        /\ made' \in Nat /\ UNCHANGED <<row, req, scars>>
    <3>1. project' = [project EXCEPT !.clearing = TRUE] \/ project' = [project EXCEPT !.clearing = FALSE]
      BY <1>2 DEF ClearStarts, ClearFails
    <3>2. made' = made + 1 \/ made' = made
      BY <1>2 DEF ClearStarts, ClearFails
    <3>3. UNCHANGED <<row, req, scars>>
      BY <1>2 DEF ClearStarts, ClearFails
    <3>4. project' \in [owner : Users \cup {Nobody}, over : Nat, clearing : BOOLEAN]
      BY <3>1
    <3> QED BY <3>2, <3>3, <3>4
  <2> QED BY <2>1 DEF TypeInv, MembersTypeOK
<1>3. ASSUME NEW k \in Workers, Step(k) PROVE TypeInv'
  <2>1. CASE Start(k)
    <3>1. PICK op \in Ops, by \in Users, a \in Rows, b \in Rows :
            /\ Sensible(op, a, b)
            /\ req' = [req EXCEPT ![k] =
                 [NoJob EXCEPT !.pc = "load", !.op = op, !.by = by, !.a = a, !.b = b,
                              !.expA = row[a].ver, !.expB = row[b].ver]]
            /\ scars' = AfterReading({a, b})
      BY <2>1 DEF Start
    <3> DEFINE q == [NoJob EXCEPT !.pc = "load", !.op = op, !.by = by, !.a = a, !.b = b,
                           !.expA = row[a].ver, !.expB = row[b].ver]
    <3>2. q \in Job
      <4>1. row[a].ver \in Nat /\ row[b].ver \in Nat /\ NoJob \in Memory
        BY NoJobType DEF Job, Row
      <4>2. q \in Memory
        BY <4>1 DEF Memory, Pcs
      <4>3. q.pc = "load"
        BY <4>1 DEF Memory
      <4> QED BY <4>2, <4>3 DEF Job, Fit
    <3>3. row' \in [Rows -> Row] /\ made' \in Nat /\ scars' \subseteq {"torn", "blind", "died"}
          /\ project' = project
      BY <2>1, <3>1 DEF Start, AfterReading
    <3>4. req' = [req EXCEPT ![k] = q]
      BY <3>1
    <3> HIDE DEF q
    <3> QED BY <3>2, <3>3, <3>4, StepType
  <2>2. CASE Load(k)
    <3>1. [req[k] EXCEPT !.pc = "check", !.owner = project.owner, !.over = project.over] \in Job
      <4>1. req[k] \in Memory /\ project.owner \in Users \cup {Nobody} /\ project.over \in Nat
        BY DEF Job
      <4> QED BY <4>1 DEF Job, Memory, Fit, Pcs
    <3> QED BY <2>2, <3>1, StepType DEF Load
  <2>3. CASE Refuse(k)
    BY <2>3, DoneType DEF Refuse
  <2>4. CASE Die(k)
    BY <2>4, DoneType DEF Die
  <2> QED BY <1>3, <2>1, <2>2, <2>3, <2>4, ChecksTyped, WritesTyped DEF Step
<1> QED BY <1>1, <1>2, <1>3 DEF MembersNext

(***************************************************************************)
(* The committed rows                                                    *)
(***************************************************************************)
LEMMA FrozenTwo == \A q : Froze(q) \subseteq Rows /\ Froze(q) \subseteq {q.a, q.b}
BY DEF Froze

\* What Base is, of rows and handlers whose frozen rows are right.
LEMMA BaseFacts ==
    ASSUME NEW R \in [Rows -> Row], NEW Q \in [Workers -> Job], FrozenRight(R, Q)
    PROVE  /\ Base(R, Q) \in [Rows -> Row]
           /\ \A k \in Workers : \A r \in Froze(Q[k]) : Base(R, Q)[r] = Snap(Q[k], r)
           /\ \A r \in Rows : ~Frozen(Q, r) => Base(R, Q)[r] = R[r]
           /\ \A r \in Rows : Base(R, Q)[r].user = R[r].user /\ Base(R, Q)[r].status = R[r].status
           /\ \A r \in Rows : Frozen(Q, r) => R[r].ver = Base(R, Q)[r].ver + 1
<1>1. \A k \in Workers : \A r \in Rows : Snap(Q[k], r) \in Row
  BY DEF Snap, Job, Memory
<1>2. ASSUME NEW k \in Workers, NEW r \in Froze(Q[k])
      PROVE  r \in Rows /\ Base(R, Q)[r] = Snap(Q[k], r)
  <2>1. r \in Rows /\ Frozen(Q, r)
    BY <1>2 DEF Frozen, Froze
  <2>2. Freezer(Q, r) \in Workers /\ r \in Froze(Q[Freezer(Q, r)])
    BY <2>1 DEF Frozen, Freezer
  <2>3. Freezer(Q, r) = k
    BY <1>2, <2>2 DEF FrozenRight
  <2> QED BY <2>1, <2>3 DEF Base
<1>3. \A r \in Rows : ~Frozen(Q, r) => Base(R, Q)[r] = R[r]
  BY DEF Base
<1>4. ASSUME NEW r \in Rows, Frozen(Q, r)
      PROVE  /\ Base(R, Q)[r] \in Row
             /\ Base(R, Q)[r].user = R[r].user /\ Base(R, Q)[r].status = R[r].status
             /\ R[r].ver = Base(R, Q)[r].ver + 1
  <2>1. PICK k \in Workers : r \in Froze(Q[k])
    BY <1>4 DEF Frozen
  <2>2. Base(R, Q)[r] = Snap(Q[k], r) /\ Snap(Q[k], r) \in Row /\ R[r] = Half(Q[k], r)
    BY <1>1, <1>2, <2>1 DEF FrozenRight
  <2>3. Half(Q[k], r) = [Snap(Q[k], r) EXCEPT !.tags = NewTags(Q[k], r), !.ver = Snap(Q[k], r).ver + 1]
    BY <2>2 DEF Half, Row
  <2> QED BY <2>2, <2>3 DEF Row
<1>5. Base(R, Q) \in [Rows -> Row]
  <2>1. \A r \in Rows : Base(R, Q)[r] \in Row
    BY <1>3, <1>4
  <2> QED BY <2>1 DEF Base
<1> QED BY <1>2, <1>3, <1>4, <1>5

\* Handler k, whose memory becomes q, leaves alone what others have frozen;
\* what q freezes is written as it says and frozen by nobody else.
Alone(Q, k, r) == \A j \in Workers \ {k} : r \notin Froze(Q[j])
LeavesOthers(R, R2, Q, k) == \A j \in Workers \ {k} : \A r \in Froze(Q[j]) : R2[r] = R[r]
FreezesRight(R2, Q, k, q) ==
    \A r \in Froze(q) : /\ There(Snap(q, r)) /\ Snap(q, r).user # Nobody
                        /\ R2[r] = Half(q, r) /\ Alone(Q, k, r)

\* What such a step makes of the committed rows B.
BaseAfter(B, C, R2, Q, k, q) ==
    /\ \A r \in Froze(q) : C[r] = Snap(q, r)
    /\ \A j \in Workers \ {k} : \A r \in Froze(Q[j]) : C[r] = B[r]
    /\ \A r \in Rows : r \notin Froze(q) /\ Alone(Q, k, r) => C[r] = R2[r]

LEMMA Settled ==
    ASSUME NEW R \in [Rows -> Row], NEW Q \in [Workers -> Job], FrozenRight(R, Q),
           NEW R2 \in [Rows -> Row], NEW k \in Workers, NEW q \in Job, NEW Q2,
           Q2 = [Q EXCEPT ![k] = q], LeavesOthers(R, R2, Q, k), FreezesRight(R2, Q, k, q)
    PROVE  /\ Q2 \in [Workers -> Job] /\ FrozenRight(R2, Q2) /\ Base(R2, Q2) \in [Rows -> Row]
           /\ BaseAfter(Base(R, Q), Base(R2, Q2), R2, Q, k, q)
<1> USE DEF Alone
<1>1. Q2 \in [Workers -> Job] /\ Q2[k] = q /\ \A j \in Workers \ {k} : Q2[j] = Q[j]
  OBVIOUS
<1>2. FrozenRight(R2, Q2)
  <2>1. ASSUME NEW j \in Workers, NEW r \in Froze(Q2[j])
        PROVE  /\ There(Snap(Q2[j], r)) /\ Snap(Q2[j], r).user # Nobody
               /\ R2[r] = Half(Q2[j], r)
    BY <1>1, <2>1 DEF FrozenRight, LeavesOthers, FreezesRight
  <2>2. ASSUME NEW i \in Workers, NEW j \in Workers, i # j, NEW r \in Froze(Q2[i])
        PROVE  r \notin Froze(Q2[j])
    BY <1>1, <2>2 DEF FrozenRight, FreezesRight
  <2> QED BY <2>1, <2>2 DEF FrozenRight
<1>3. /\ Base(R2, Q2) \in [Rows -> Row]
      /\ \A j \in Workers : \A r \in Froze(Q2[j]) : Base(R2, Q2)[r] = Snap(Q2[j], r)
      /\ \A r \in Rows : ~Frozen(Q2, r) => Base(R2, Q2)[r] = R2[r]
  BY <1>1, <1>2, BaseFacts
<1>4. \A j \in Workers : \A r \in Froze(Q[j]) : Base(R, Q)[r] = Snap(Q[j], r)
  BY BaseFacts
<1>5. \A r \in Froze(q) : Base(R2, Q2)[r] = Snap(q, r)
  BY <1>1, <1>3
<1>6. \A j \in Workers \ {k} : \A r \in Froze(Q[j]) : Base(R2, Q2)[r] = Base(R, Q)[r]
  <2> TAKE j \in Workers \ {k}
  <2> TAKE r \in Froze(Q[j])
  <2>1. Q2[j] = Q[j]
    BY <1>1
  <2>2. Base(R2, Q2)[r] = Snap(Q[j], r)
    BY <1>3, <2>1
  <2>3. Base(R, Q)[r] = Snap(Q[j], r)
    BY <1>4
  <2> QED BY <2>2, <2>3
<1>7. \A r \in Rows : r \notin Froze(q) /\ Alone(Q, k, r) => Base(R2, Q2)[r] = R2[r]
  <2> TAKE r \in Rows
  <2> HAVE r \notin Froze(q) /\ Alone(Q, k, r)
  <2>1. ~Frozen(Q2, r)
    BY <1>1 DEF Frozen
  <2> QED BY <1>3, <2>1
<1> QED BY <1>1, <1>2, <1>3, <1>5, <1>6, <1>7 DEF BaseAfter

\* How a committed row may have moved when the owner went from o to p: not
\* at all, to a higher version, away (an alias), or into being (a user's).
Moved(B, C, o, p, r) ==
    \/ C[r] = B[r] /\ (There(B[r]) => (B[r].user = o <=> B[r].user = p))
    \/ There(B[r]) /\ There(C[r]) /\ C[r].ver > B[r].ver
    \/ r \notin Users /\ ~There(C[r])
    \/ r \in Users /\ B[r] = Absent /\ C[r].ver = 0 /\ There(C[r])

LEMMA KnowsMoved ==
    ASSUME NEW B \in [Rows -> Row], NEW C \in [Rows -> Row], NEW o, NEW p, NEW r \in Rows,
           Moved(B, C, o, p, r), NEW v \in Nat, Knows(B, r, v)
    PROVE  Knows(C, r, v)
BY DEF Moved, Knows, Row, There, Absent

LEMMA RemembersMoved ==
    ASSUME NEW B \in [Rows -> Row], NEW C \in [Rows -> Row], NEW o, NEW p, NEW r \in Rows,
           Moved(B, C, o, p, r), NEW v \in Nat, NEW old \in Row, Knows(B, r, v),
           Remembers(B, r, v, old)
    PROVE  Remembers(C, r, v, old)
<1>1. B[r].ver \in Nat /\ C[r].ver \in Nat
  BY DEF Row
<1> QED BY <1>1 DEF Moved, Knows, Remembers, There, Absent

LEMMA KnowsOwnerMoved ==
    ASSUME NEW B \in [Rows -> Row], NEW C \in [Rows -> Row], NEW o, NEW p, NEW q \in Job,
           Moved(B, C, o, p, q.a), Knows(B, q.a, q.expA), KnowsOwner(B, o, q),
           q.a \in Users => There(B[q.a])
    PROVE  KnowsOwner(C, p, q)
<1>1. q.a \in Rows /\ q.expA \in Nat /\ B[q.a].ver \in Nat /\ C[q.a].ver \in Nat
  BY DEF Job, Memory, Row
<1> QED BY <1>1 DEF Moved, Knows, KnowsOwner, There, Absent

\* Handlers that do not move themselves stay right.
LEMMA VersionsMoved ==
    ASSUME NEW B \in [Rows -> Row], NEW C \in [Rows -> Row], NEW o, NEW p, NEW q \in Job,
           \A r \in Rows : Moved(B, C, o, p, r), JobRight(B, o, q)
    PROVE  VersionsRight(C, p, q)
<1>1. /\ q.a \in Rows /\ q.b \in Rows /\ q.expA \in Nat /\ q.expB \in Nat
      /\ q.oldA \in Row /\ q.oldB \in Row /\ q.oldB.ver \in Nat
  BY DEF Job, Memory, Row
<1>2. q.pc \in {"load", "check", "write", "bindWrite", "first"} => Knows(C, q.a, q.expA)
  BY <1>1, KnowsMoved DEF JobRight, VersionsRight
<1>3. q.pc \in {"load", "check", "first", "second"} => Knows(C, q.b, q.expB)
  BY <1>1, KnowsMoved DEF JobRight, VersionsRight
<1>4. q.pc = "bindMerge" => Knows(C, q.b, q.oldB.ver)
  BY <1>1, KnowsMoved DEF JobRight, VersionsRight
<1>5. q.pc \in {"write", "bindWrite", "first"} => Remembers(C, q.a, q.expA, q.oldA)
  BY <1>1, RemembersMoved DEF JobRight, VersionsRight
<1>6. q.pc \in {"first", "second"} => Remembers(C, q.b, q.expB, q.oldB)
  BY <1>1, RemembersMoved DEF JobRight, VersionsRight
<1>7. q.pc \in {"load", "check"} /\ q.op \in {"tags", "remove", "merge"} /\ q.a \in Users
         => There(C[q.a])
  BY <1>1 DEF JobRight, VersionsRight, Moved
<1>8. ASSUME q.pc \in {"check", "write", "first"}, q.op \in {"tags", "remove", "merge"}
      PROVE  KnowsOwner(C, p, q)
  <2>1. Knows(B, q.a, q.expA) /\ KnowsOwner(B, o, q)
    BY <1>8 DEF JobRight, VersionsRight
  <2>2. q.a \in Users => There(B[q.a])
    <3>1. CASE q.pc = "check"
      BY <1>8, <3>1 DEF JobRight, VersionsRight
    <3>2. CASE q.pc = "write"
      <4>1. There(q.oldA) /\ Remembers(B, q.a, q.expA, q.oldA)
        BY <1>8, <3>2 DEF JobRight, VersionsRight, PlanRight, WriteRight
      <4> QED BY <4>1 DEF Remembers
    <3>3. CASE q.pc = "first"
      <4>1. There(q.oldA) /\ Remembers(B, q.a, q.expA, q.oldA)
        BY <1>8, <3>3 DEF JobRight, VersionsRight, PlanRight, PairRight, Pairing
      <4> QED BY <4>1 DEF Remembers
    <3> QED BY <1>8, <3>1, <3>2, <3>3
  <2> QED BY <1>1, <2>1, <2>2, KnowsOwnerMoved
<1> QED BY <1>2, <1>3, <1>4, <1>5, <1>6, <1>7, <1>8 DEF VersionsRight

\* The invariant after a step of handler k: what its lemmas have to show.
LEMMA Unscathed ==
    ASSUME NEW R \in [Rows -> Row], NEW Q \in [Workers -> Job], NEW o, Unscarred(R, Q, o),
           NEW R2, NEW k \in Workers, NEW q \in Job, NEW Q2, Q2 = [Q EXCEPT ![k] = q], NEW p,
           Base(R2, Q2) \in [Rows -> Row],
           RowsRight(R2), FrozenRight(R2, Q2), OwnerRight(Base(R2, Q2), p),
           \A r \in Rows : Moved(Base(R, Q), Base(R2, Q2), o, p, r),
           JobRight(Base(R2, Q2), p, q),
           \A j \in Workers \ {k} : Q[j].pc \in Pairing => PairRight(p, Q[j])
    PROVE  Unscarred(R2, Q2, p)
<1> DEFINE B == Base(R, Q)
           C == Base(R2, Q2)
<1>1. B \in [Rows -> Row]
  BY BaseFacts DEF Unscarred
<1>2. Q2[k] = q /\ \A j \in Workers \ {k} : Q2[j] = Q[j] /\ Q[j] \in Job /\ JobRight(B, o, Q[j])
  BY DEF Unscarred
<1> HIDE DEF B, C
<1>3. ASSUME NEW j \in Workers PROVE JobRight(C, p, Q2[j])
  <2>1. CASE j = k
    BY <1>2, <2>1 DEF C
  <2>2. CASE j # k
    <3>1. Q[j] \in Job /\ JobRight(B, o, Q[j]) /\ Q2[j] = Q[j]
      BY <1>2, <2>2
    <3>2. VersionsRight(C, p, Q[j])
      BY <1>1, <3>1, VersionsMoved DEF B, C
    <3>3. PlanRight(p, Q[j])
      BY <2>2, <3>1 DEF JobRight, PlanRight
    <3> QED BY <3>1, <3>2, <3>3 DEF JobRight
  <2> QED BY <2>1, <2>2
<1> QED BY <1>3 DEF Unscarred, C

\* A step that touches no row, and freezes what its handler had frozen.
SameFroze(q, x) ==
    /\ Froze(q) = Froze(x)
    /\ \A r \in Froze(q) : Snap(q, r) = Snap(x, r) /\ NewTags(q, r) = NewTags(x, r)

LEMMA Quiet ==
    ASSUME NEW R \in [Rows -> Row], NEW Q \in [Workers -> Job], NEW o, Unscarred(R, Q, o),
           NEW k \in Workers, NEW q \in Job, NEW Q2, Q2 = [Q EXCEPT ![k] = q],
           SameFroze(q, Q[k]), JobRight(Base(R, Q), o, q)
    PROVE  Unscarred(R, Q2, o)
<1>1. FrozenRight(R, Q)
  BY DEF Unscarred
<1>2. FreezesRight(R, Q, k, q)
  <2> SUFFICES ASSUME NEW r \in Froze(q)
               PROVE  There(Snap(q, r)) /\ Snap(q, r).user # Nobody
                      /\ R[r] = Half(q, r) /\ Alone(Q, k, r)
    BY DEF FreezesRight
  <2>1. r \in Froze(Q[k]) /\ Snap(q, r) = Snap(Q[k], r) /\ NewTags(q, r) = NewTags(Q[k], r)
    BY DEF SameFroze
  <2>2. Half(q, r) = Half(Q[k], r)
    BY <2>1 DEF Half
  <2>3. There(Snap(Q[k], r)) /\ Snap(Q[k], r).user # Nobody /\ R[r] = Half(Q[k], r)
    BY <1>1, <2>1 DEF FrozenRight
  <2>4. Alone(Q, k, r)
    BY <1>1, <2>1 DEF FrozenRight, Alone
  <2> QED BY <2>1, <2>2, <2>3, <2>4
<1> DEFINE B == Base(R, Q)
           C == Base(R, Q2)
<1>3. FrozenRight(R, Q2) /\ C \in [Rows -> Row] /\ BaseAfter(B, C, R, Q, k, q)
  <2>1. LeavesOthers(R, R, Q, k)
    BY DEF LeavesOthers
  <2> QED BY <1>1, <1>2, <2>1, Settled
<1>4. /\ B \in [Rows -> Row]
      /\ \A r \in Froze(Q[k]) : B[r] = Snap(Q[k], r)
      /\ \A r \in Rows : ~Frozen(Q, r) => B[r] = R[r]
  BY <1>1, BaseFacts
<1> HIDE DEF B, C
<1>5. C = B
  <2>1. ASSUME NEW r \in Rows PROVE C[r] = B[r]
    <3>1. CASE r \in Froze(q)
      BY <1>3, <1>4, <3>1 DEF BaseAfter, SameFroze
    <3>2. CASE \E j \in Workers \ {k} : r \in Froze(Q[j])
      BY <1>3, <3>2 DEF BaseAfter
    <3>3. CASE r \notin Froze(q) /\ Alone(Q, k, r)
      <4>1. ~Frozen(Q, r)
        BY <3>3 DEF Frozen, Alone, SameFroze
      <4> QED BY <1>3, <1>4, <3>3, <4>1 DEF BaseAfter
    <3> QED BY <3>1, <3>2, <3>3 DEF Alone
  <2> QED BY <1>3, <1>4, <2>1
<1>6. RowsRight(R) /\ OwnerRight(C, o) /\ JobRight(C, o, q)
  BY <1>5 DEF Unscarred, B
<1>7. \A r \in Rows : Moved(B, C, o, o, r)
  BY <1>5 DEF Moved
<1>8. \A j \in Workers \ {k} : Q[j].pc \in Pairing => PairRight(o, Q[j])
  BY DEF Unscarred, JobRight, PlanRight
<1> QED BY <1>3, <1>6, <1>7, <1>8, Unscathed DEF B, C

\* A step that writes a row nobody has frozen, and freezes none.
LEMMA OneRow ==
    ASSUME NEW R \in [Rows -> Row], NEW Q \in [Workers -> Job], NEW o, Unscarred(R, Q, o),
           NEW k \in Workers, NEW q \in Job, NEW Q2, Q2 = [Q EXCEPT ![k] = q],
           Froze(q) = {}, Froze(Q[k]) = {}, NEW r \in Rows, ~Frozen(Q, r),
           NEW x \in Row, NEW C, C = [Base(R, Q) EXCEPT ![r] = x],
           NEW R2, R2 = [R EXCEPT ![r] = x], RowsRight(R2),
           OwnerRight(C, o), Moved(Base(R, Q), C, o, o, r), JobRight(C, o, q)
    PROVE  Unscarred(R2, Q2, o)
<1>1. FrozenRight(R, Q) /\ R2 \in [Rows -> Row] /\ R2[r] = x /\ \A s \in Rows \ {r} : R2[s] = R[s]
  BY DEF Unscarred
<1> DEFINE B == Base(R, Q)
           D == Base(R2, Q2)
<1>3. FrozenRight(R2, Q2) /\ D \in [Rows -> Row] /\ BaseAfter(B, D, R2, Q, k, q)
  <2>1. LeavesOthers(R, R2, Q, k)
    BY <1>1 DEF LeavesOthers, Frozen, Froze
  <2>2. FreezesRight(R2, Q, k, q)
    BY DEF FreezesRight
  <2> QED BY <1>1, <2>1, <2>2, Settled
<1>4. B \in [Rows -> Row] /\ \A s \in Rows : ~Frozen(Q, s) => B[s] = R[s]
  BY <1>1, BaseFacts
<1> HIDE DEF B, D
<1>5. D = C
  <2>0. C \in [Rows -> Row] /\ C[r] = x /\ \A s \in Rows \ {r} : C[s] = B[s]
    BY <1>4 DEF B
  <2>1. ASSUME NEW s \in Rows PROVE D[s] = C[s]
    <3>1. CASE s = r
      <4>1. Alone(Q, k, s)
        BY <3>1 DEF Frozen, Alone
      <4> QED BY <1>1, <1>3, <2>0, <3>1, <4>1 DEF BaseAfter
    <3>2. CASE s # r /\ \E j \in Workers \ {k} : s \in Froze(Q[j])
      BY <1>3, <2>0, <3>2 DEF BaseAfter
    <3>3. CASE s # r /\ Alone(Q, k, s)
      <4>1. ~Frozen(Q, s)
        BY <3>3 DEF Frozen, Alone
      <4> QED BY <1>1, <1>3, <1>4, <2>0, <3>3, <4>1 DEF BaseAfter
    <3> QED BY <3>1, <3>2, <3>3 DEF Alone
  <2> QED BY <1>3, <2>0, <2>1
<1>7. \A s \in Rows : Moved(B, D, o, o, s)
  <2> TAKE s \in Rows
  <2>1. CASE s = r
    BY <1>5, <2>1 DEF B
  <2>2. CASE s # r
    BY <1>4, <1>5, <2>2 DEF Moved, B
  <2> QED BY <2>1, <2>2
<1>8. \A j \in Workers \ {k} : Q[j].pc \in Pairing => PairRight(o, Q[j])
  BY DEF Unscarred, JobRight, PlanRight
<1>9. OwnerRight(D, o) /\ JobRight(D, o, q)
  BY <1>5
<1> QED BY <1>1, <1>3, <1>7, <1>8, <1>9, Unscathed DEF B, D

(***************************************************************************)
(* The checks: what a handler remembers when it has looked               *)
(***************************************************************************)
LEMMA FrozeNothing ==
    \A q : q.pc \notin {"second", "commit", "undoA", "undoB"} => Froze(q) = {}
BY DEF Froze

\* A row that still has a version a handler has been told is frozen by nobody.
LEMMA Untouched ==
    ASSUME NEW R \in [Rows -> Row], NEW Q \in [Workers -> Job], FrozenRight(R, Q),
           NEW r \in Rows, NEW v \in Nat, Knows(Base(R, Q), r, v), R[r].ver = v
    PROVE  ~Frozen(Q, r) /\ Base(R, Q)[r] = R[r]
<1>1. SUFFICES ASSUME Frozen(Q, r) PROVE FALSE
  BY BaseFacts
<1>2. PICK k \in Workers : r \in Froze(Q[k])
  BY <1>1 DEF Frozen
<1>3. There(Base(R, Q)[r])
  BY <1>2, BaseFacts DEF FrozenRight
<1>4. R[r].ver = Base(R, Q)[r].ver + 1 /\ Base(R, Q)[r].ver \in Nat
  BY <1>1, BaseFacts DEF Row
<1> QED BY <1>3, <1>4 DEF Knows

LEMMA FreeKnown ==
    ASSUME NEW R \in [Rows -> Row], NEW Q \in [Workers -> Job], FrozenRight(R, Q),
           NEW r \in Rows, ~Frozen(Q, r)
    PROVE  /\ Base(R, Q)[r] = R[r] /\ Knows(Base(R, Q), r, R[r].ver)
           /\ Remembers(Base(R, Q), r, R[r].ver, R[r])
<1>1. Base(R, Q)[r] = R[r] /\ R[r].ver \in Nat
  BY BaseFacts DEF Row
<1> QED BY <1>1 DEF Knows, Remembers

\* The committed rows and what holds of them before a step.
LEMMA Before ==
    ASSUME TypeInv, Unscarred(row, req, project.owner)
    PROVE  /\ row \in [Rows -> Row] /\ req \in [Workers -> Job]
           /\ Base(row, req) \in [Rows -> Row]
           /\ RowsRight(row) /\ FrozenRight(row, req) /\ OwnerRight(Base(row, req), project.owner)
           /\ \A k \in Workers : JobRight(Base(row, req), project.owner, req[k])
           /\ \A r \in Rows : Base(row, req)[r].user = row[r].user
                              /\ Base(row, req)[r].status = row[r].status
BY JobType, BaseFacts DEF Unscarred

\* A row no half-written handler works on is not frozen.
LEMMA SettledRow ==
    ASSUME NEW r \in Rows, ~Provisional(r) PROVE ~Frozen(req, r)
BY DEF Provisional, HalfWritten, Frozen, Froze

LEMMA ReadSettled ==
    ASSUME NEW rs, scars' = AfterReading(rs), scars' = {}
    PROVE  \A r \in rs : ~Provisional(r)
BY DEF AfterReading

LEMMA AdvanceFields ==
    ASSUME TypeInv, NEW k \in Workers, NEW pc, NEW tags, NEW tagsB,
           req' = Advance(k, pc, tags, tagsB)
    PROVE  /\ req' = [req EXCEPT ![k] = req'[k]]
           /\ req'[k].pc = pc /\ req'[k].op = req[k].op
           /\ req'[k].a = req[k].a /\ req'[k].b = req[k].b
           /\ req'[k].expA = req[k].expA /\ req'[k].expB = req[k].expB
           /\ req'[k].oldA = row[req[k].a] /\ req'[k].oldB = row[req[k].b]
           /\ req'[k].owner = req[k].owner /\ req'[k].tags = tags /\ req'[k].tagsB = tagsB
<1>1. req \in [Workers -> Job] /\ req[k] \in Memory
  BY JobType DEF Job
<1> QED BY <1>1 DEF Advance, Memory

\* What a handler that names a row knows when the version is still the same.
LEMMA NamedRow ==
    ASSUME TypeInv, Unscarred(row, req, project.owner), NEW k \in Workers,
           req[k].pc = "check", Named(k)
    PROVE  LET q == req[k]
               B == Base(row, req) IN
           /\ There(row[q.a]) /\ B[q.a] = row[q.a] /\ row[q.a].ver = q.expA
           /\ Knows(B, q.a, q.expA) /\ Remembers(B, q.a, q.expA, row[q.a])
           /\ q.op \in {"tags", "remove", "merge"} =>
                /\ KnowsOwner(B, project.owner, q)
                /\ row[q.a].user = q.owner <=> row[q.a].user = project.owner
<1> DEFINE q == req[k]
           B == Base(row, req)
<1>1. /\ row \in [Rows -> Row] /\ req \in [Workers -> Job] /\ q \in Job
      /\ FrozenRight(row, req) /\ JobRight(B, project.owner, q)
  BY Before
<1>2. q.a \in Rows /\ q.expA \in Nat
  BY <1>1 DEF Job, Memory
<1>3. There(row[q.a]) /\ row[q.a].ver = q.expA
  BY DEF Named, Exists, There
<1>4. Knows(B, q.a, q.expA)
  BY <1>1 DEF JobRight, VersionsRight
<1>5. ~Frozen(req, q.a) /\ B[q.a] = row[q.a]
  BY <1>1, <1>2, <1>3, <1>4, Untouched
<1>6. Remembers(B, q.a, q.expA, row[q.a])
  BY <1>1, <1>2, <1>3, <1>5, FreeKnown
<1>7. ASSUME q.op \in {"tags", "remove", "merge"}
      PROVE  /\ KnowsOwner(B, project.owner, q)
             /\ row[q.a].user = q.owner <=> row[q.a].user = project.owner
  <2>1. KnowsOwner(B, project.owner, q)
    BY <1>1, <1>7 DEF JobRight, VersionsRight
  <2> QED BY <1>3, <1>5, <2>1 DEF KnowsOwner
<1> QED BY <1>3, <1>4, <1>5, <1>6, <1>7

\* A check writes nothing; it is enough that what it remembers is right.
LEMMA CheckSettles ==
    ASSUME TypeInv, TypeInv', Unscarred(row, req, project.owner), NEW k \in Workers,
           UNCHANGED <<row, project>>, req' = [req EXCEPT ![k] = req'[k]],
           Froze(req[k]) = {}, Froze(req'[k]) = {},
           JobRight(Base(row, req), project.owner, req'[k])
    PROVE  Unscarred(row', req', project.owner')
<1>1. row \in [Rows -> Row] /\ req \in [Workers -> Job] /\ req'[k] \in Job
  BY JobType DEF TypeInv
<1>2. SameFroze(req'[k], req[k])
  BY DEF SameFroze
<1>3. Unscarred(row, req', project.owner)
  BY <1>1, <1>2, Quiet
<1> QED BY <1>3

LEMMA WriteChecks ==
    ASSUME TypeInv, TypeInv', Unscarred(row, req, project.owner), NEW k \in Workers,
           CheckRename(k) \/ CheckTags(k) \/ CheckRemove(k) \/ CheckRestore(k)
    PROVE  Unscarred(row', req', project.owner')
<1> DEFINE q == req[k]
           n == req'[k]
           m == row[q.a]
           B == Base(row, req)
<1>1. q.pc = "check" /\ Named(k) /\ UNCHANGED <<row, project>>
  BY DEF CheckRename, CheckTags, CheckRemove, CheckRestore, Checking
<1>2. PICK tags \in SUBSET Tags : req' = Advance(k, "write", tags, {})
  <2>1. m.tags \in SUBSET Tags
    BY JobType DEF Job, Memory, Row
  <2> QED BY <2>1 DEF CheckRename, CheckTags, CheckRemove, CheckRestore
<1>0. m.tags \in SUBSET Tags
  BY JobType DEF Job, Memory, Row
<1>3. /\ n.pc = "write" /\ n.op = q.op /\ n.a = q.a /\ n.b = q.b /\ n.expA = q.expA
      /\ n.oldA = m /\ n.owner = q.owner /\ n.tags = tags
      /\ req' = [req EXCEPT ![k] = n]
  BY <1>2, AdvanceFields
<1>4. /\ There(m) /\ Knows(B, q.a, q.expA) /\ Remembers(B, q.a, q.expA, m) /\ B[q.a] = m
      /\ q.op \in {"tags", "remove", "merge"} =>
           KnowsOwner(B, project.owner, q) /\ (m.user = q.owner <=> m.user = project.owner)
  BY <1>1, NamedRow
<1>5. OwnerRight(B, project.owner)
  BY Before
<1>6. WriteRight(n)
  <2>1. CASE CheckRename(k)
    <3>1. q.op = "rename"
      BY <2>1 DEF CheckRename, Checking
    <3>2. PICK t \in SUBSET Tags : t = m.tags /\ req' = Advance(k, "write", t, {})
      BY <1>0, <2>1 DEF CheckRename
    <3>4. req' = Advance(k, "write", t, {})
      BY <3>2
    <3>3. n.tags = t
      BY <3>4, AdvanceFields
    <3> QED BY <1>3, <1>4, <3>1, <3>2, <3>3 DEF WriteRight
  <2>2. CASE CheckTags(k)
    <3>1. q.op = "tags"
      BY <2>2 DEF CheckTags, Checking
    <3>2. PICK t \in SUBSET Tags :
            /\ IF IsAlias(m) THEN MayTagAlias(q.by, t)
               ELSE /\ IsOwnerRow(k, q.a) => "creator" \in t
                    /\ MayTag(q.by, m.user, t, IsOwnerRow(k, q.a))
            /\ req' = Advance(k, "write", t, {})
      BY <2>2 DEF CheckTags
    <3>3. n.tags = t
      BY <3>2, AdvanceFields
    <3>4. CASE IsAlias(m)
      <4>1. "creator" \notin t
        BY <3>2, <3>4 DEF MayTagAlias, ValidAliasTags, WorkerTags
      <4>2. m.user # q.owner
        BY <1>4, <1>5, <3>1, <3>4, MembersAssumption DEF IsAlias, OwnerRight
      <4> QED BY <1>3, <1>4, <3>1, <3>3, <4>1, <4>2 DEF WriteRight
    <3>5. CASE ~IsAlias(m)
      <4>1. "creator" \in t <=> m.user = q.owner
        BY <3>2, <3>5 DEF MayTag, ValidProjectTags, IsOwnerRow
      <4> QED BY <1>3, <1>4, <3>1, <3>3, <4>1 DEF WriteRight
    <3> QED BY <3>4, <3>5
  <2>3. CASE CheckRemove(k)
    <3>1. q.op = "remove" /\ m.user # q.owner
      BY <2>3 DEF CheckRemove, Checking, IsOwnerRow
    <3>2. PICK t \in SUBSET Tags : t = m.tags /\ req' = Advance(k, "write", t, {})
      BY <1>0, <2>3 DEF CheckRemove
    <3>4. req' = Advance(k, "write", t, {})
      BY <3>2
    <3>3. n.tags = t
      BY <3>4, AdvanceFields
    <3> QED BY <1>3, <1>4, <3>1, <3>2, <3>3 DEF WriteRight
  <2>4. CASE CheckRestore(k)
    <3>1. q.op = "restore"
      BY <2>4 DEF CheckRestore, Checking
    <3>2. PICK t \in SUBSET Tags : t = m.tags /\ req' = Advance(k, "write", t, {})
      BY <1>0, <2>4 DEF CheckRestore
    <3>4. req' = Advance(k, "write", t, {})
      BY <3>2
    <3>3. n.tags = t
      BY <3>4, AdvanceFields
    <3> QED BY <1>3, <1>4, <3>1, <3>2, <3>3 DEF WriteRight
  <2> QED BY <2>1, <2>2, <2>3, <2>4
<1>7. VersionsRight(B, project.owner, n)
  BY <1>3, <1>4 DEF VersionsRight, KnowsOwner
<1>8. JobRight(B, project.owner, n)
  BY <1>3, <1>6, <1>7 DEF JobRight, PlanRight, Pairing
<1> QED BY <1>1, <1>3, <1>8, FrozeNothing, CheckSettles

LEMMA AddChecks ==
    ASSUME TypeInv, TypeInv', Unscarred(row, req, project.owner), NEW k \in Workers,
           CheckAdd(k), scars' = {}
    PROVE  Unscarred(row', req', project.owner')
<1> DEFINE q == req[k]
           n == req'[k]
           u == q.a
           r == IF HasRow(u) THEN RowOf(u) ELSE u
           B == Base(row, req)
<1>1. /\ q.pc = "check" /\ q.op = "add" /\ u \in Users /\ UNCHANGED <<row, project>>
      /\ MemberOf(u).status \in {"absent", "removed"}
  BY DEF CheckAdd, Checking
<1>2. PICK tags \in SUBSET WorkerTags :
         req' = [req EXCEPT ![k] = [@ EXCEPT !.pc = "write", !.a = r, !.b = r,
                     !.expA = row[r].ver, !.oldA = row[r], !.oldB = row[r], !.tags = tags]]
  BY DEF CheckAdd
<1>3. r \in Rows /\ (HasRow(u) => row[r].user = u /\ Exists(r))
  BY <1>1, RowOfRows DEF Rows
<1>4. row[r].status \in {"absent", "removed"} /\ (row[r].status = "absent" => r = u)
  <2>1. CASE HasRow(u)
    BY <1>1, <1>3, <2>1 DEF MemberOf, Exists
  <2>2. CASE ~HasRow(u)
    <3>1. ~There(row[u])
      BY <1>1, <2>2, Before DEF HasRow, Exists, There, RowsRight, Rows
    <3> QED BY <2>2, <3>1 DEF There
  <2> QED BY <2>1, <2>2
<1>5. ~Frozen(req, r)
  <2>1. CASE HasRow(u)
    <3>1. scars' = AfterReading({s \in Rows : row[s].user = u})
      BY DEF CheckAdd
    <3>2. r \in {s \in Rows : row[s].user = u}
      BY <1>3, <2>1
    <3>3. ~Provisional(r)
      BY <3>1, <3>2, ReadSettled
    <3> QED BY <1>3, <3>3, SettledRow
  <2>2. CASE ~HasRow(u)
    <3>1. ~There(row[r])
      BY <1>1, <2>2, Before DEF HasRow, Exists, There, RowsRight, Rows
    <3>2. ~There(B[r])
      BY <1>3, <3>1, Before DEF There
    <3> QED BY <1>3, <3>2, BaseFacts, Before DEF Frozen, FrozenRight
  <2> QED BY <2>1, <2>2
<1> HIDE DEF r
<1>6. /\ n.pc = "write" /\ n.op = "add" /\ n.a = r /\ n.b = r /\ n.expA = row[r].ver
      /\ n.oldA = row[r] /\ n.tags = tags /\ req' = [req EXCEPT ![k] = n]
  <2>1. req \in [Workers -> Job] /\ q \in Memory
    BY JobType DEF Job
  <2> QED BY <1>1, <1>2, <2>1 DEF Memory
<1>7. Knows(B, r, row[r].ver) /\ Remembers(B, r, row[r].ver, row[r])
  BY <1>3, <1>5, FreeKnown, Before
<1>8. VersionsRight(B, project.owner, n)
  BY <1>6, <1>7 DEF VersionsRight
<1>9. WriteRight(n)
  BY <1>1, <1>4, <1>6 DEF WriteRight, WorkerTags, There
<1>10. JobRight(B, project.owner, n)
  BY <1>6, <1>8, <1>9 DEF JobRight, PlanRight, Pairing
<1> QED BY <1>1, <1>6, <1>10, FrozeNothing, CheckSettles

LEMMA DeleteChecks ==
    ASSUME TypeInv, TypeInv', Unscarred(row, req, project.owner), NEW k \in Workers,
           CheckDelete(k)
    PROVE  Unscarred(row', req', project.owner')
<1> DEFINE q == req[k]
           n == req'[k]
<1>1. q.pc = "check" /\ UNCHANGED <<row, project>> /\ There(row[q.a]) /\ row[q.a].user = Nobody
  BY DEF CheckDelete, Checking, Exists, There, IsAlias
<1>2. req' = Advance(k, "erase", {}, {})
  BY DEF CheckDelete
<1>3. n.pc = "erase" /\ n.oldA = row[q.a] /\ req' = [req EXCEPT ![k] = n]
  BY <1>2, AdvanceFields
<1>4. JobRight(Base(row, req), project.owner, n)
  BY <1>1, <1>3 DEF JobRight, VersionsRight, PlanRight, Pairing
<1> QED BY <1>1, <1>3, <1>4, FrozeNothing, CheckSettles

LEMMA BindChecks ==
    ASSUME TypeInv, TypeInv', Unscarred(row, req, project.owner), NEW k \in Workers,
           CheckBind(k), scars' = {}
    PROVE  Unscarred(row', req', project.owner')
<1> DEFINE q == req[k]
           n == req'[k]
           m == row[q.a]
           u == q.b
           B == Base(row, req)
<1>1. /\ q.pc = "check" /\ q.op = "bind" /\ Named(k) /\ m.user = Nobody /\ u \in Users
      /\ UNCHANGED <<row, project>>
  BY DEF CheckBind, Checking, IsAlias
<1>2. There(m) /\ B[q.a] = m /\ Knows(B, q.a, q.expA) /\ Remembers(B, q.a, q.expA, m)
  BY <1>1, NamedRow
<1>3. "creator" \notin m.tags
  <2>1. q.a \in Rows /\ There(B[q.a]) /\ B[q.a].user # project.owner
    BY <1>1, <1>2, Before, MembersAssumption DEF OwnerRight, Job, Memory
  <2> QED BY <1>2, <2>1, Before DEF OwnerRight
<1>4. CASE HasRow(u)
  <2> DEFINE b == RowOf(u)
             merged == row[b].tags \cup m.tags
  <2>1. b \in Rows /\ Exists(b) /\ row[b].user = u
    BY <1>4, RowOfRows
  <2>2. /\ req' = [req EXCEPT ![k] = [@ EXCEPT !.pc = "bindMerge", !.b = b,
                          !.oldA = m, !.oldB = row[b], !.tagsB = merged]]
        /\ scars' = AfterReading({s \in Rows : row[s].user = u})
    BY <1>4 DEF CheckBind
  <2>3. ~Frozen(req, b)
    <3>1. ~Provisional(b)
      BY <2>1, <2>2, ReadSettled
    <3> QED BY <2>1, <3>1, SettledRow
  <2> HIDE DEF b, merged
  <2>4. /\ n.pc = "bindMerge" /\ n.op = "bind" /\ n.b = b /\ n.oldA = m /\ n.oldB = row[b]
        /\ n.tagsB = merged /\ req' = [req EXCEPT ![k] = n]
    <3>1. req \in [Workers -> Job] /\ q \in Memory
      BY JobType DEF Job
    <3> QED BY <1>1, <2>2, <3>1 DEF Memory
  <2>5. Knows(B, b, row[b].ver)
    BY <2>1, <2>3, FreeKnown, Before
  <2>6. VersionsRight(B, project.owner, n)
    BY <2>4, <2>5 DEF VersionsRight
  <2>7. "creator" \in merged <=> "creator" \in row[b].tags
    BY <1>3 DEF merged
  <2>8. BindRight(n)
    BY <1>1, <1>2, <2>1, <2>4, <2>7, MembersAssumption DEF BindRight, Exists, There
  <2>9. JobRight(B, project.owner, n)
    BY <2>4, <2>6, <2>8 DEF JobRight, PlanRight, Pairing
  <2> QED BY <1>1, <2>4, <2>9, FrozeNothing, CheckSettles
<1>5. CASE ~HasRow(u)
  <2>0. m.tags \in SUBSET Tags
    BY JobType DEF Job, Memory, Row
  <2>1. PICK t \in SUBSET Tags : t = m.tags /\ req' = Advance(k, "bindWrite", t, {})
    BY <1>5, <2>0 DEF CheckBind
  <2>2. /\ n.pc = "bindWrite" /\ n.op = "bind" /\ n.a = q.a /\ n.b = u /\ n.expA = q.expA
        /\ n.oldA = m /\ n.tags = t /\ req' = [req EXCEPT ![k] = n]
    <3>1. req' = Advance(k, "bindWrite", t, {})
      BY <2>1
    <3>2. /\ n.pc = "bindWrite" /\ n.op = q.op /\ n.a = q.a /\ n.b = u /\ n.expA = q.expA
          /\ n.oldA = m /\ n.tags = t /\ req' = [req EXCEPT ![k] = n]
      BY <3>1, AdvanceFields
    <3> QED BY <1>1, <3>2
  <2>3. VersionsRight(B, project.owner, n)
    BY <1>2, <2>2 DEF VersionsRight
  <2>4. BindRight(n)
    BY <1>1, <1>2, <1>3, <2>1, <2>2 DEF BindRight
  <2>5. JobRight(B, project.owner, n)
    BY <2>2, <2>3, <2>4 DEF JobRight, PlanRight, Pairing
  <2> QED BY <1>1, <2>2, <2>5, FrozeNothing, CheckSettles
<1> QED BY <1>4, <1>5

LEMMA MergeChecks ==
    ASSUME TypeInv, TypeInv', Unscarred(row, req, project.owner), NEW k \in Workers,
           CheckMerge(k)
    PROVE  Unscarred(row', req', project.owner')
<1> DEFINE q == req[k]
           n == req'[k]
           m == row[q.a]
           B == Base(row, req)
<1>1. /\ q.pc = "check" /\ q.op = "merge" /\ Named(k) /\ q.a # q.b
      /\ row[q.b].ver = q.expB /\ row[q.b].status = "active" /\ row[q.b].user = Nobody
      /\ m.user # Nobody /\ UNCHANGED <<row, project>>
  BY DEF CheckMerge, Checking, IsAlias
<1>0. row[q.b].tags \in SUBSET Tags
  BY JobType DEF Job, Memory, Row
<1>2. PICK t \in SUBSET Tags, t2 \in SUBSET Tags :
                   /\ t2 = row[q.b].tags /\ req' = Advance(k, "first", t, t2)
                   /\ MayTag(q.by, m.user, t, FALSE)
                   /\ IsOwnerRow(k, q.a) => "creator" \in t
  BY <1>0 DEF CheckMerge
<1>3. /\ n.pc = "first" /\ n.op = "merge" /\ n.a = q.a /\ n.b = q.b /\ n.expA = q.expA
      /\ n.expB = q.expB /\ n.oldA = m /\ n.oldB = row[q.b] /\ n.owner = q.owner
      /\ n.tags = t /\ n.tagsB = t2 /\ req' = [req EXCEPT ![k] = n]
  <2>1. req' = Advance(k, "first", t, t2)
    BY <1>2
  <2>2. /\ n.pc = "first" /\ n.op = q.op /\ n.a = q.a /\ n.b = q.b /\ n.expA = q.expA
        /\ n.expB = q.expB /\ n.oldA = m /\ n.oldB = row[q.b] /\ n.owner = q.owner
        /\ n.tags = t /\ n.tagsB = t2 /\ req' = [req EXCEPT ![k] = n]
    BY <2>1, AdvanceFields
  <2> QED BY <1>1, <2>2
<1>4. /\ There(m) /\ Knows(B, q.a, q.expA) /\ Remembers(B, q.a, q.expA, m)
      /\ KnowsOwner(B, project.owner, q)
  BY <1>1, NamedRow
<1>5. Knows(B, q.b, q.expB) /\ Remembers(B, q.b, q.expB, row[q.b])
  <2>1. q.b \in Rows /\ q.expB \in Nat
    BY Before DEF Job, Memory
  <2>2. Knows(B, q.b, q.expB)
    BY <1>1, Before DEF JobRight, VersionsRight
  <2>3. ~Frozen(req, q.b)
    BY <1>1, <2>1, <2>2, Untouched, Before
  <2> QED BY <1>1, <2>1, <2>2, <2>3, FreeKnown, Before
<1>6. VersionsRight(B, project.owner, n)
  BY <1>3, <1>4, <1>5 DEF VersionsRight, KnowsOwner
<1>7. "creator" \notin t /\ m.user # q.owner
  BY <1>2 DEF MayTag, ValidProjectTags, IsOwnerRow
<1>8. PairRight(project.owner, n)
  BY <1>1, <1>2, <1>3, <1>4, <1>7 DEF PairRight, There
<1>9. JobRight(B, project.owner, n)
  BY <1>3, <1>6, <1>8 DEF JobRight, PlanRight, Pairing
<1> QED BY <1>1, <1>3, <1>9, FrozeNothing, CheckSettles

LEMMA TransferChecks ==
    ASSUME TypeInv, TypeInv', Unscarred(row, req, project.owner), NEW k \in Workers,
           CheckTransfer(k), scars' = {}
    PROVE  Unscarred(row', req', project.owner')
<1> DEFINE q == req[k]
           n == req'[k]
           a == RowOf(q.owner)
           b == RowOf(q.b)
           B == Base(row, req)
<1>1. /\ q.pc = "check" /\ q.op = "transfer" /\ q.b \in Users /\ HasRow(q.b) /\ q.b # q.owner
      /\ HasRow(q.owner) /\ "creator" \in row[a].tags /\ MemberOf(q.b).status = "active"
      /\ scars' = AfterReading({a, b}) /\ UNCHANGED <<row, project>>
  BY DEF CheckTransfer, Checking, IsActive
<1>2. PICK keep \in {{}, {"admin"}} :
         req' = [req EXCEPT ![k] = [@ EXCEPT !.pc = "first", !.a = a, !.b = b,
                   !.expA = row[a].ver, !.expB = row[b].ver,
                   !.oldA = row[a], !.oldB = row[b],
                   !.tags = (row[a].tags \ {"creator"}) \cup keep,
                   !.tagsB = row[b].tags \cup {"creator"}]]
  BY DEF CheckTransfer
<1>3. /\ a \in Rows /\ b \in Rows /\ Exists(a) /\ Exists(b)
      /\ row[a].user = q.owner /\ row[b].user = q.b /\ row[b].status = "active"
  BY <1>1, RowOfRows DEF MemberOf
<1>4. ~Frozen(req, a) /\ ~Frozen(req, b)
  <2>1. ~Provisional(a) /\ ~Provisional(b)
    BY <1>1, ReadSettled
  <2> QED BY <1>3, <2>1, SettledRow
<1> HIDE DEF a, b
<1>5. /\ n.pc = "first" /\ n.op = "transfer" /\ n.a = a /\ n.b = b /\ n.expA = row[a].ver
      /\ n.expB = row[b].ver /\ n.oldA = row[a] /\ n.oldB = row[b] /\ n.owner = q.owner
      /\ n.tags = (row[a].tags \ {"creator"}) \cup keep
      /\ n.tagsB = row[b].tags \cup {"creator"} /\ req' = [req EXCEPT ![k] = n]
  <2>1. req \in [Workers -> Job] /\ q \in Memory
    BY JobType DEF Job
  <2> QED BY <1>1, <1>2, <2>1 DEF Memory
<1>6. /\ Knows(B, a, row[a].ver) /\ Remembers(B, a, row[a].ver, row[a]) /\ B[a] = row[a]
      /\ Knows(B, b, row[b].ver) /\ Remembers(B, b, row[b].ver, row[b])
  BY <1>3, <1>4, FreeKnown, Before
<1>7. VersionsRight(B, project.owner, n)
  BY <1>5, <1>6 DEF VersionsRight
<1>8. row[a].user = project.owner /\ project.owner \in Users
  BY <1>1, <1>3, <1>6, Before DEF OwnerRight, Exists, There
<1>9. PairRight(project.owner, n)
  <2>1. "creator" \notin n.tags /\ "creator" \in n.tagsB
    BY <1>5
  <2>2. a # b /\ There(row[a]) /\ There(row[b]) /\ row[a].user # Nobody
    BY <1>1, <1>3, <1>8, MembersAssumption DEF Exists, There
  <2> QED BY <1>1, <1>3, <1>5, <2>1, <2>2 DEF PairRight
<1>10. JobRight(B, project.owner, n)
  BY <1>5, <1>7, <1>9 DEF JobRight, PlanRight, Pairing
<1> QED BY <1>1, <1>5, <1>10, FrozeNothing, CheckSettles

(***************************************************************************)
(* The first steps of a handler, its end, and the clears                 *)
(***************************************************************************)
LEMMA Starts ==
    ASSUME TypeInv, TypeInv', Unscarred(row, req, project.owner), NEW k \in Workers,
           Start(k), scars' = {}
    PROVE  Unscarred(row', req', project.owner')
<1> DEFINE n == req'[k]
           B == Base(row, req)
<1>1. PICK op \in Ops, by \in Users, a \in Rows, b \in Rows :
         /\ Sensible(op, a, b)
         /\ req' = [req EXCEPT ![k] =
              [NoJob EXCEPT !.pc = "load", !.op = op, !.by = by, !.a = a, !.b = b,
                           !.expA = row[a].ver, !.expB = row[b].ver]]
         /\ scars' = AfterReading({a, b})
  BY DEF Start
<1>2. req[k].pc = "idle" /\ UNCHANGED <<row, project>>
  BY DEF Start
<1>3. /\ n.pc = "load" /\ n.op = op /\ n.a = a /\ n.b = b /\ n.expA = row[a].ver
      /\ n.expB = row[b].ver /\ req' = [req EXCEPT ![k] = n]
  <2>1. req \in [Workers -> Job] /\ NoJob \in Memory
    BY JobType, NoJobType DEF Job
  <2> QED BY <1>1, <2>1 DEF Memory
<1>4. ~Frozen(req, a) /\ ~Frozen(req, b)
  BY <1>1, ReadSettled, SettledRow
<1>5. Knows(B, a, row[a].ver) /\ Knows(B, b, row[b].ver) /\ B[a] = row[a]
  BY <1>4, FreeKnown, Before
<1>6. op \in {"tags", "remove", "merge"} => There(B[a])
  <2>1. op \in {"tags", "remove"} => Exists(a)
    BY <1>1 DEF Sensible
  <2>2. op = "merge" => There(row[a])
    BY <1>1, Before DEF Sensible, IsAlias, RowsRight, Absent
  <2> QED BY <1>5, <2>1, <2>2 DEF Exists, There
<1>7. JobRight(B, project.owner, n)
  BY <1>3, <1>5, <1>6 DEF JobRight, VersionsRight, PlanRight, Pairing
<1> QED BY <1>2, <1>3, <1>7, FrozeNothing, CheckSettles

LEMMA Loads ==
    ASSUME TypeInv, TypeInv', Unscarred(row, req, project.owner), NEW k \in Workers, Load(k)
    PROVE  Unscarred(row', req', project.owner')
<1> DEFINE q == req[k]
           n == req'[k]
           B == Base(row, req)
<1>1. q.pc = "load" /\ UNCHANGED <<row, project>>
  BY DEF Load
<1>2. /\ n.pc = "check" /\ n.op = q.op /\ n.a = q.a /\ n.b = q.b /\ n.expA = q.expA
      /\ n.expB = q.expB /\ n.owner = project.owner /\ req' = [req EXCEPT ![k] = n]
  <2>1. req \in [Workers -> Job] /\ q \in Memory
    BY JobType DEF Job
  <2> QED BY <2>1 DEF Memory, Load
<1>3. VersionsRight(B, project.owner, q)
  BY Before DEF JobRight
<1>4. JobRight(B, project.owner, n)
  BY <1>1, <1>2, <1>3 DEF JobRight, VersionsRight, KnowsOwner, PlanRight, Pairing
<1> QED BY <1>1, <1>2, <1>4, FrozeNothing, CheckSettles

LEMMA IdleRight == \A B, o : JobRight(B, o, NoJob) /\ Froze(NoJob) = {}
<1>1. NoJob.pc = "idle"
  BY DEF NoJob
<1> QED BY <1>1, FrozeNothing DEF JobRight, VersionsRight, PlanRight, Pairing

\* A handler that has frozen nothing may forget its request at any time.
LEMMA Forgets ==
    ASSUME TypeInv, TypeInv', Unscarred(row, req, project.owner), NEW k \in Workers,
           Froze(req[k]) = {}, req' = Done(k), UNCHANGED <<row, project>>
    PROVE  Unscarred(row', req', project.owner')
<1>1. req'[k] = NoJob /\ req' = [req EXCEPT ![k] = req'[k]]
  BY JobType DEF Done
<1> QED BY <1>1, IdleRight, CheckSettles

LEMMA Ends ==
    ASSUME TypeInv, TypeInv', Unscarred(row, req, project.owner), NEW k \in Workers,
           Refuse(k) \/ Die(k), scars' = {}
    PROVE  Unscarred(row', req', project.owner')
<1>1. req[k].pc \notin {"second", "commit", "undoA", "undoB"}
  BY DEF Refuse, Die, HalfWritten
<1>2. req' = Done(k) /\ UNCHANGED <<row, project>>
  BY DEF Refuse, Die
<1> QED BY <1>1, <1>2, FrozeNothing, Forgets

LEMMA Clears ==
    ASSUME TypeInv, Unscarred(row, req, project.owner), ClearStarts \/ ClearFails
    PROVE  Unscarred(row', req', project.owner')
<1>1. project'.owner = project.owner /\ UNCHANGED <<row, req>>
  BY JobType DEF ClearStarts, ClearFails
<1> QED BY <1>1

(***************************************************************************)
(* The writes                                                            *)
(***************************************************************************)
\* A row that keeps its user.
LEMMA UserKept ==
    ASSUME NEW R \in [Rows -> Row], RowsRight(R), NEW r \in Rows, NEW x \in Row,
           There(R[r]), There(x), x.user = R[r].user
    PROVE  RowsRight([R EXCEPT ![r] = x])
BY DEF RowsRight, Rows

\* A row whose tags say who the owner is, and that stays the owner's if it was.
LEMMA OwnerKept ==
    ASSUME NEW B \in [Rows -> Row], NEW o, OwnerRight(B, o), NEW r \in Rows, NEW x \in Row,
           There(x) => ("creator" \in x.tags <=> x.user = o),
           B[r].user = o /\ B[r].status = "active" => x.user = o /\ x.status = "active"
    PROVE  OwnerRight([B EXCEPT ![r] = x], o)
<1> DEFINE C == [B EXCEPT ![r] = x]
<1>1. C[r] = x /\ \A s \in Rows \ {r} : C[s] = B[s]
  OBVIOUS
<1> HIDE DEF C
<1>2. PICK s \in Rows : B[s].user = o /\ B[s].status = "active"
  BY DEF OwnerRight
<1>3. C[s].user = o /\ C[s].status = "active"
  BY <1>1, <1>2
<1>4. \A t \in Rows : There(C[t]) => ("creator" \in C[t].tags <=> C[t].user = o)
  BY <1>1 DEF OwnerRight
<1>5. OwnerRight(C, o)
  BY <1>3, <1>4 DEF OwnerRight
<1> QED BY <1>5 DEF C

\* The owner's only row is an active one.
LEMMA OwnersRow ==
    ASSUME TypeInv, Unscarred(row, req, project.owner), NEW r \in Rows, There(row[r]),
           row[r].user = project.owner
    PROVE  row[r].status = "active"
<1>1. PICK s \in Rows : /\ Base(row, req)[s].user = project.owner
                        /\ Base(row, req)[s].status = "active"
  BY Before DEF OwnerRight
<1>2. row[s].user = project.owner /\ row[s].status = "active"
  BY <1>1, Before
<1>3. s = r
  BY <1>2, Before, MembersAssumption DEF RowsRight, OwnerRight, There
<1> QED BY <1>2, <1>3

LEMMA WrittenFields ==
    ASSUME NEW q \in Job, NEW u \in Users \cup {Nobody}
    PROVE  /\ Written(q, u).user = u /\ Written(q, u).tags = q.tags
           /\ Written(q, u).ver = q.oldA.ver + 1
           /\ Written(q, u).status = IF q.op = "remove" THEN "removed"
                                     ELSE IF q.op \in {"add", "restore"} THEN "active"
                                     ELSE q.oldA.status
           /\ Written(q, u) \in Row
<1>1. q.oldA \in Row /\ q.tags \in SUBSET Tags /\ q.oldA.ver + 1 \in Nat
  BY DEF Job, Memory, Row
<1> DEFINE status == IF q.op = "remove" THEN "removed"
                     ELSE IF q.op \in {"add", "restore"} THEN "active" ELSE q.oldA.status
<1>2. Written(q, u) = [q.oldA EXCEPT !.user = u, !.tags = q.tags, !.ver = q.oldA.ver + 1,
                                    !.status = status]
  BY <1>1 DEF Written, Row
<1>3. status \in {"absent", "active", "invited", "removed"}
  BY <1>1 DEF Row
<1> HIDE DEF status
<1>4. /\ Written(q, u).user = u /\ Written(q, u).tags = q.tags
      /\ Written(q, u).ver = q.oldA.ver + 1 /\ Written(q, u).status = status
      /\ Written(q, u) \in Row
  BY <1>1, <1>2, <1>3 DEF Row
<1> QED BY <1>4 DEF status

\* The row a handler is about to write has not moved since it has read it.
LEMMA WriteCurrent ==
    ASSUME TypeInv, Unscarred(row, req, project.owner), NEW k \in Workers,
           req[k].pc \in {"write", "bindWrite", "first"}, There(req[k].oldA),
           Current(req[k].a, req[k].expA)
    PROVE  /\ ~Frozen(req, req[k].a) /\ row[req[k].a] = req[k].oldA
           /\ Base(row, req)[req[k].a] = req[k].oldA
<1> DEFINE q == req[k]
           B == Base(row, req)
<1>1. /\ q.a \in Rows /\ q.expA \in Nat /\ row \in [Rows -> Row] /\ req \in [Workers -> Job]
      /\ FrozenRight(row, req)
  BY Before DEF Job, Memory
<1>2. Knows(B, q.a, q.expA) /\ Remembers(B, q.a, q.expA, q.oldA)
  BY Before DEF JobRight, VersionsRight
<1>3. ~Frozen(req, q.a) /\ B[q.a] = row[q.a]
  BY <1>1, <1>2, Untouched DEF Current
<1>4. There(row[q.a]) /\ row[q.a].ver = q.expA
  BY DEF Current, Exists, There
<1> QED BY <1>2, <1>3, <1>4 DEF Remembers

LEMMA Writes ==
    ASSUME TypeInv, TypeInv', Unscarred(row, req, project.owner), NEW k \in Workers, Write(k)
    PROVE  Unscarred(row', req', project.owner')
<1> DEFINE q == req[k]
           B == Base(row, req)
           o == project.owner
           x == Written(q, q.oldA.user)
<1>1. q.pc = "write" /\ There(q.oldA) /\ req' = Done(k) /\ project' = project
  BY DEF Write, There
<1>2. CASE ~Current(q.a, q.expA)
  <2>1. row' = row
    BY <1>2 DEF Write
  <2> QED BY <1>1, <2>1, FrozeNothing, Forgets
<1>3. CASE Current(q.a, q.expA)
  <2>1. row' = [row EXCEPT ![q.a] = x]
    BY <1>3 DEF Write
  <2>2. ~Frozen(req, q.a) /\ row[q.a] = q.oldA /\ B[q.a] = q.oldA
    BY <1>1, <1>3, WriteCurrent
  <2>3. q \in Job /\ q.a \in Rows /\ q.oldA \in Row /\ q.oldA.user \in Users \cup {Nobody}
        /\ q.oldA.ver \in Nat
    BY Before DEF Job, Memory, Row
  <2>4. WriteRight(q) /\ VersionsRight(B, o, q) /\ OwnerRight(B, o) /\ B \in [Rows -> Row]
    BY <1>1, Before DEF JobRight, PlanRight
  <2>5. /\ x \in Row /\ x.user = q.oldA.user /\ x.tags = q.tags /\ x.ver = q.oldA.ver + 1
        /\ x.status = IF q.op = "remove" THEN "removed"
                      ELSE IF q.op \in {"add", "restore"} THEN "active" ELSE q.oldA.status
    BY <2>3, WrittenFields
  <2> HIDE DEF x
  <2>6. There(x)
    BY <1>1, <2>5 DEF There
  <2>7. q.op \in {"tags", "remove"} => (q.oldA.user = q.owner <=> q.oldA.user = o)
    <3>1. B[q.a].ver = q.expA /\ There(B[q.a])
      BY <1>1, <1>3, <2>2 DEF Current
    <3> QED BY <1>1, <2>2, <2>4, <3>1 DEF VersionsRight, KnowsOwner
  <2>8. "creator" \in q.oldA.tags <=> q.oldA.user = o
    BY <1>1, <2>2, <2>3, <2>4 DEF OwnerRight
  <2>9. q.op = "add" => q.oldA.user # o
    BY <1>1, <2>2, <2>3, <2>4, OwnersRow DEF WriteRight, There
  <2>10. "creator" \in x.tags <=> x.user = o
    BY <2>4, <2>5, <2>7, <2>8, <2>9 DEF WriteRight
  <2>11. B[q.a].user = o /\ B[q.a].status = "active" => x.user = o /\ x.status = "active"
    BY <2>2, <2>4, <2>5, <2>7 DEF WriteRight
  <2> DEFINE C == [B EXCEPT ![q.a] = x]
  <2>12. OwnerRight(C, o)
    BY <2>3, <2>4, <2>5, <2>10, <2>11, OwnerKept
  <2>13. RowsRight(row')
    BY <1>1, <2>1, <2>2, <2>3, <2>5, <2>6, UserKept, Before
  <2>14. C[q.a] = x
    BY <2>3, <2>4
  <2>15. Moved(B, C, o, o, q.a)
    BY <1>1, <2>2, <2>3, <2>5, <2>6, <2>14 DEF Moved
  <2>16. req' = [req EXCEPT ![k] = NoJob] /\ Froze(q) = {} /\ Froze(NoJob) = {}
         /\ JobRight(C, o, NoJob)
    BY <1>1, FrozeNothing, IdleRight DEF Done
  <2>17. Unscarred(row', req', o)
    BY <2>1, <2>2, <2>3, <2>5, <2>12, <2>13, <2>15, <2>16, Before, NoJobType, OneRow
  <2> QED BY <1>1, <2>17
<1> QED BY <1>2, <1>3

LEMMA Inserts ==
    ASSUME TypeInv, TypeInv', Unscarred(row, req, project.owner), NEW k \in Workers, Insert(k)
    PROVE  Unscarred(row', req', project.owner')
<1> DEFINE q == req[k]
           B == Base(row, req)
           o == project.owner
           x == [status |-> "active", user |-> q.a, tags |-> q.tags, ver |-> 0]
<1>1. q.pc = "write" /\ q.oldA.status = "absent" /\ req' = Done(k) /\ project' = project
  BY DEF Insert
<1>2. CASE HasRow(q.a)
  <2>1. row' = row
    BY <1>2 DEF Insert
  <2> QED BY <1>1, <2>1, FrozeNothing, Forgets
<1>3. CASE ~HasRow(q.a)
  <2>1. row' = [row EXCEPT ![q.a] = x]
    BY <1>3 DEF Insert
  <2>2. q \in Job /\ q.a \in Users /\ q.a \in Rows /\ q.tags \in SUBSET Tags
    BY <1>1, Before DEF Job, Memory, Fit
  <2>3. /\ x \in Row /\ There(x) /\ x.user = q.a /\ x.tags = q.tags /\ x.ver = 0
    BY <2>2 DEF Row, There
  <2> HIDE DEF x
  <2>4. "creator" \notin q.tags
    BY <1>1, Before DEF JobRight, PlanRight, WriteRight, There
  <2>5. \A r \in Rows : There(row[r]) => row[r].user # q.a
    BY <1>3 DEF HasRow, Exists, There
  <2>6. row[q.a] = Absent /\ ~There(row[q.a])
    BY <2>2, <2>5, Before DEF RowsRight
  <2>7. ~Frozen(req, q.a) /\ B[q.a] = Absent
    <3>1. ~There(B[q.a])
      BY <2>2, <2>6, Before DEF There
    <3>2. ~Frozen(req, q.a)
      BY <2>2, <3>1, BaseFacts, Before DEF Frozen, FrozenRight
    <3> QED BY <2>2, <2>6, <3>2, BaseFacts, Before
  <2>8. q.a # o
    <3>1. PICK s \in Rows : B[s].user = o /\ B[s].status = "active"
      BY Before DEF OwnerRight
    <3> QED BY <2>5, <3>1, Before DEF There
  <2> DEFINE C == [B EXCEPT ![q.a] = x]
  <2>9. OwnerRight(C, o)
    <3>1. B[q.a].status # "active"
      BY <2>7 DEF Absent
    <3>2. "creator" \in x.tags <=> x.user = o
      BY <2>3, <2>4, <2>8
    <3>3. B \in [Rows -> Row] /\ OwnerRight(B, o)
      BY Before
    <3> QED BY <2>2, <2>3, <3>1, <3>2, <3>3, OwnerKept
  <2>10. RowsRight(row')
    BY <2>1, <2>2, <2>3, <2>5, Before DEF RowsRight
  <2>11. C[q.a] = x
    BY <2>2, Before
  <2>12. Moved(B, C, o, o, q.a)
    BY <2>2, <2>3, <2>7, <2>11 DEF Moved
  <2>13. req' = [req EXCEPT ![k] = NoJob] /\ Froze(q) = {} /\ Froze(NoJob) = {}
         /\ JobRight(C, o, NoJob)
    BY <1>1, FrozeNothing, IdleRight DEF Done
  <2>14. Unscarred(row', req', o)
    BY <2>1, <2>2, <2>3, <2>7, <2>9, <2>10, <2>12, <2>13, Before, NoJobType, OneRow
  <2> QED BY <1>1, <2>14
<1> QED BY <1>2, <1>3

LEMMA BindWrites ==
    ASSUME TypeInv, TypeInv', Unscarred(row, req, project.owner), NEW k \in Workers, BindWrite(k)
    PROVE  Unscarred(row', req', project.owner')
<1> DEFINE q == req[k]
           B == Base(row, req)
           o == project.owner
           x == [Written(q, q.b) EXCEPT !.status = "active"]
<1>1. /\ q.pc = "bindWrite" /\ There(q.oldA) /\ q.oldA.user = Nobody /\ "creator" \notin q.tags
      /\ q.b \in Users /\ req' = Done(k) /\ project' = project
  <2>1. q.pc = "bindWrite" /\ req' = Done(k) /\ project' = project
    BY DEF BindWrite
  <2> QED BY <2>1, Before DEF JobRight, PlanRight, BindRight
<1>2. CASE ~(Current(q.a, q.expA) /\ ~HasRow(q.b))
  <2>1. row' = row
    BY <1>2 DEF BindWrite
  <2> QED BY <1>1, <2>1, FrozeNothing, Forgets
<1>3. CASE Current(q.a, q.expA) /\ ~HasRow(q.b)
  <2>1. row' = [row EXCEPT ![q.a] = x]
    BY <1>3 DEF BindWrite
  <2>2. ~Frozen(req, q.a) /\ row[q.a] = q.oldA /\ B[q.a] = q.oldA
    BY <1>1, <1>3, WriteCurrent
  <2>3. q \in Job /\ q.a \in Rows /\ q.oldA.ver \in Nat
    BY Before DEF Job, Memory, Row
  <2>4. /\ x \in Row /\ There(x) /\ x.user = q.b /\ x.tags = q.tags /\ x.ver = q.oldA.ver + 1
    <3>1. /\ Written(q, q.b) \in Row /\ Written(q, q.b).user = q.b
          /\ Written(q, q.b).tags = q.tags /\ Written(q, q.b).ver = q.oldA.ver + 1
      BY <1>1, <2>3, WrittenFields
    <3> QED BY <3>1 DEF Row, There
  <2> HIDE DEF x
  <2>5. \A r \in Rows : There(row[r]) => row[r].user # q.b
    BY <1>3 DEF HasRow, Exists, There
  <2>6. q.a \notin Users
    BY <1>1, <2>2, Before, MembersAssumption DEF RowsRight
  <2>7. q.b # o /\ o # Nobody
    <3>1. PICK s \in Rows : B[s].user = o /\ B[s].status = "active"
      BY Before DEF OwnerRight
    <3> QED BY <2>5, <3>1, Before, MembersAssumption DEF There, OwnerRight
  <2> DEFINE C == [B EXCEPT ![q.a] = x]
  <2>8. OwnerRight(C, o)
    BY <1>1, <2>2, <2>3, <2>4, <2>7, OwnerKept, Before
  <2>9. RowsRight(row')
    BY <2>1, <2>3, <2>4, <2>5, <2>6, Before DEF RowsRight
  <2>10. C[q.a] = x
    BY <2>3, Before
  <2>11. Moved(B, C, o, o, q.a)
    BY <1>1, <2>2, <2>3, <2>4, <2>10 DEF Moved
  <2>12. req' = [req EXCEPT ![k] = NoJob] /\ Froze(q) = {} /\ Froze(NoJob) = {}
         /\ JobRight(C, o, NoJob)
    BY <1>1, FrozeNothing, IdleRight DEF Done
  <2>13. Unscarred(row', req', o)
    BY <2>1, <2>2, <2>3, <2>4, <2>8, <2>9, <2>11, <2>12, Before, NoJobType, OneRow
  <2> QED BY <1>1, <2>13
<1> QED BY <1>2, <1>3

LEMMA BindMerges ==
    ASSUME TypeInv, TypeInv', Unscarred(row, req, project.owner), NEW k \in Workers,
           BindMerge(k), scars' = {}
    PROVE  Unscarred(row', req', project.owner')
<1> DEFINE q == req[k]
           n == req'[k]
           B == Base(row, req)
           o == project.owner
           x == [row[q.b] EXCEPT !.tags = q.tagsB, !.ver = q.oldB.ver + 1]
<1>1. /\ q.pc = "bindMerge" /\ There(q.oldA) /\ q.oldA.user = Nobody
      /\ There(q.oldB) /\ ("creator" \in q.tagsB <=> "creator" \in q.oldB.tags)
      /\ project' = project /\ Knows(B, q.b, q.oldB.ver)
  <2>1. q.pc = "bindMerge" /\ project' = project
    BY DEF BindMerge
  <2> QED BY <2>1, Before DEF JobRight, VersionsRight, PlanRight, BindRight
<1>2. row[q.b] = q.oldB
  BY DEF BindMerge
<1>3. row' = [row EXCEPT ![q.b] = x]
  BY DEF BindMerge
<1>4. q \in Job /\ q.b \in Rows /\ q.oldB \in Row /\ q.oldB.ver \in Nat /\ q.tagsB \in SUBSET Tags
  BY Before DEF Job, Memory, Row
<1>5. ~Frozen(req, q.b) /\ B[q.b] = q.oldB
  BY <1>1, <1>2, <1>4, Untouched, Before
<1>6. /\ x \in Row /\ There(x) /\ x.user = q.oldB.user /\ x.tags = q.tagsB
      /\ x.ver = q.oldB.ver + 1 /\ x.status = q.oldB.status
  <2>1. x = [q.oldB EXCEPT !.tags = q.tagsB, !.ver = q.oldB.ver + 1]
    BY <1>2
  <2>2. q.oldB.ver + 1 \in Nat
    BY <1>4
  <2> HIDE DEF x
  <2>3. /\ x \in Row /\ x.user = q.oldB.user /\ x.tags = q.tagsB
        /\ x.ver = q.oldB.ver + 1 /\ x.status = q.oldB.status
    BY <1>4, <2>1, <2>2 DEF Row
  <2> QED BY <1>1, <2>3 DEF There
<1>7. n.pc = "erase" /\ n.oldA = q.oldA /\ req' = [req EXCEPT ![k] = n] /\ n \in Job
  <2>1. req \in [Workers -> Job] /\ q \in Memory /\ req' \in [Workers -> Job]
    BY JobType DEF Job, TypeInv
  <2> QED BY <2>1 DEF Memory, BindMerge
<1> HIDE DEF x
<1> DEFINE C == [B EXCEPT ![q.b] = x]
<1>8. OwnerRight(C, o)
  <2>1. "creator" \in x.tags <=> x.user = o
    BY <1>1, <1>4, <1>5, <1>6, Before DEF OwnerRight
  <2>2. B[q.b].user = o /\ B[q.b].status = "active" => x.user = o /\ x.status = "active"
    BY <1>5, <1>6
  <2>3. B \in [Rows -> Row] /\ OwnerRight(B, o)
    BY Before
  <2> QED BY <1>4, <1>6, <2>1, <2>2, <2>3, OwnerKept
<1>9. RowsRight(row')
  BY <1>1, <1>2, <1>3, <1>4, <1>6, UserKept, Before
<1>10. C[q.b] = x
  BY <1>4, Before
<1>11. Moved(B, C, o, o, q.b)
  BY <1>1, <1>4, <1>5, <1>6, <1>10 DEF Moved
<1>12. JobRight(C, o, n)
  BY <1>1, <1>7 DEF JobRight, VersionsRight, PlanRight, Pairing
<1>13. Froze(q) = {} /\ Froze(n) = {}
  BY <1>1, <1>7, FrozeNothing
<1>14. Unscarred(row', req', o)
  BY <1>3, <1>4, <1>5, <1>6, <1>7, <1>8, <1>9, <1>11, <1>12, <1>13, Before, OneRow
<1> QED BY <1>1, <1>14

LEMMA Erases ==
    ASSUME TypeInv, TypeInv', Unscarred(row, req, project.owner), NEW k \in Workers,
           Erase(k), scars' = {}
    PROVE  Unscarred(row', req', project.owner')
<1> DEFINE q == req[k]
           B == Base(row, req)
           o == project.owner
<1>1. /\ q.pc = "erase" /\ There(q.oldA) /\ q.oldA.user = Nobody
      /\ project' = project /\ req' = Done(k)
  <2>1. q.pc = "erase" /\ project' = project /\ req' = Done(k)
    BY DEF Erase
  <2> QED BY <2>1, Before DEF JobRight, PlanRight
<1>2. row[q.a] = q.oldA /\ row' = [row EXCEPT ![q.a] = Absent]
  BY DEF Erase
<1>3. q.a \in Rows
  BY Before DEF Job, Memory
<1>4. q.a \notin Users
  BY <1>1, <1>2, Before, MembersAssumption DEF RowsRight
<1>5. ~Frozen(req, q.a) /\ B[q.a] = q.oldA
  <2>1. B[q.a].user = Nobody
    BY <1>1, <1>2, <1>3, Before
  <2>2. ~Frozen(req, q.a)
    BY <1>3, <2>1, BaseFacts, Before DEF Frozen, FrozenRight
  <2> QED BY <1>2, <1>3, <2>2, BaseFacts, Before
<1>6. Absent \in Row /\ ~There(Absent) /\ Absent.user = Nobody
  BY AbsentRow DEF There, Absent
<1> DEFINE C == [B EXCEPT ![q.a] = Absent]
<1>7. OwnerRight(C, o)
  <2>1. B[q.a].user # o
    BY <1>1, <1>5, Before, MembersAssumption DEF OwnerRight
  <2> QED BY <1>3, <1>6, <2>1, OwnerKept, Before
<1>8. RowsRight(row')
  BY <1>2, <1>3, <1>4, <1>6, Before DEF RowsRight
<1>9. Moved(B, C, o, o, q.a)
  <2>1. C[q.a] = Absent
    BY <1>3, Before
  <2> QED BY <1>4, <1>6, <2>1 DEF Moved
<1>10. req' = [req EXCEPT ![k] = NoJob] /\ Froze(q) = {} /\ Froze(NoJob) = {}
       /\ JobRight(C, o, NoJob)
  BY <1>1, FrozeNothing, IdleRight DEF Done
<1>11. Unscarred(row', req', o)
  BY <1>2, <1>3, <1>5, <1>6, <1>7, <1>8, <1>9, <1>10, Before, NoJobType, OneRow
<1> QED BY <1>1, <1>11

(***************************************************************************)
(* The writes of a merge and of a transfer                               *)
(***************************************************************************)
\* A step on one row t, nobody else's, that changes no committed row: it
\* freezes the row or puts it back.
StaysPut(B, Q, k, q, t, x) ==
    /\ Froze(Q[k]) \subseteq Froze(q) \cup {t}
    /\ \A r \in Froze(q) : Snap(q, r) = B[r]
    /\ t \notin Froze(q) => x = B[t]

LEMMA StandStill ==
    ASSUME NEW R \in [Rows -> Row], NEW Q \in [Workers -> Job], NEW o, Unscarred(R, Q, o),
           NEW k \in Workers, NEW q \in Job, NEW Q2, Q2 = [Q EXCEPT ![k] = q],
           NEW t \in Rows, Alone(Q, k, t), NEW x \in Row, NEW R2, R2 = [R EXCEPT ![t] = x],
           StaysPut(Base(R, Q), Q, k, q, t, x), FreezesRight(R2, Q, k, q),
           RowsRight(R2), JobRight(Base(R, Q), o, q)
    PROVE  Unscarred(R2, Q2, o)
<1>0. /\ Froze(Q[k]) \subseteq Froze(q) \cup {t}
      /\ \A r \in Froze(q) : Snap(q, r) = Base(R, Q)[r]
      /\ t \notin Froze(q) => x = Base(R, Q)[t]
  BY DEF StaysPut
<1> DEFINE B == Base(R, Q)
           C == Base(R2, Q2)
<1>1. FrozenRight(R, Q) /\ R2 \in [Rows -> Row] /\ R2[t] = x /\ \A r \in Rows \ {t} : R2[r] = R[r]
  BY DEF Unscarred
<1>2. FrozenRight(R2, Q2) /\ C \in [Rows -> Row] /\ BaseAfter(B, C, R2, Q, k, q)
  <2>1. LeavesOthers(R, R2, Q, k)
    BY <1>1 DEF LeavesOthers, Froze, Alone
  <2> QED BY <1>1, <2>1, Settled
<1>3. B \in [Rows -> Row] /\ \A r \in Rows : ~Frozen(Q, r) => B[r] = R[r]
  BY <1>1, BaseFacts
<1> HIDE DEF B, C
<1>4. C = B
  <2>1. ASSUME NEW r \in Rows PROVE C[r] = B[r]
    <3>1. CASE r \in Froze(q)
      BY <1>0, <1>2, <3>1 DEF BaseAfter, B
    <3>2. CASE \E j \in Workers \ {k} : r \in Froze(Q[j])
      BY <1>2, <3>2 DEF BaseAfter
    <3>3. CASE r \notin Froze(q) /\ Alone(Q, k, r) /\ r = t
      BY <1>0, <1>1, <1>2, <3>3 DEF BaseAfter, B
    <3>4. CASE r \notin Froze(q) /\ Alone(Q, k, r) /\ r # t
      <4>1. ~Frozen(Q, r)
        BY <1>0, <3>4 DEF Frozen, Alone
      <4> QED BY <1>0, <1>1, <1>2, <1>3, <3>4, <4>1 DEF BaseAfter
    <3> QED BY <3>1, <3>2, <3>3, <3>4 DEF Alone
  <2>2. B \in [Rows -> Row] /\ C \in [Rows -> Row]
    BY <1>2, <1>3
  <2> QED BY ONLY <2>1, <2>2
<1>5. OwnerRight(C, o) /\ JobRight(C, o, q)
  BY <1>4 DEF Unscarred, B
<1>6. \A r \in Rows : Moved(B, C, o, o, r)
  BY <1>4 DEF Moved
<1>7. \A j \in Workers \ {k} : Q[j].pc \in Pairing => PairRight(o, Q[j])
  BY DEF Unscarred, JobRight, PlanRight
<1> QED BY <1>2, <1>5, <1>6, <1>7, Unscathed DEF B, C

\* A handler that has only moved on in its program.
LEMMA MoveFields ==
    ASSUME TypeInv, TypeInv', NEW k \in Workers, NEW pc, req' = [req EXCEPT ![k].pc = pc]
    PROVE  /\ req' = [req EXCEPT ![k] = req'[k]] /\ req'[k] \in Job
           /\ req'[k].pc = pc /\ req'[k].op = req[k].op
           /\ req'[k].a = req[k].a /\ req'[k].b = req[k].b
           /\ req'[k].expA = req[k].expA /\ req'[k].expB = req[k].expB
           /\ req'[k].oldA = req[k].oldA /\ req'[k].oldB = req[k].oldB
           /\ req'[k].owner = req[k].owner
           /\ req'[k].tags = req[k].tags /\ req'[k].tagsB = req[k].tagsB
<1>1. req \in [Workers -> Job] /\ req[k] \in Memory /\ req' \in [Workers -> Job]
  BY JobType DEF Job, TypeInv
<1> QED BY <1>1 DEF Memory

\* What a merge or a transfer knows of its two rows.
LEMMA PairFacts ==
    ASSUME TypeInv, Unscarred(row, req, project.owner), NEW k \in Workers,
           req[k].pc \in Pairing
    PROVE  LET q == req[k] IN
           /\ q \in Job /\ q.a \in Rows /\ q.b \in Rows /\ q.oldA \in Row /\ q.oldB \in Row
           /\ q.oldA.ver \in Nat /\ q.oldB.ver \in Nat
           /\ q.tags \in SUBSET Tags /\ q.tagsB \in SUBSET Tags
           /\ PairRight(project.owner, q)
           /\ Snap(q, q.a) = q.oldA /\ Snap(q, q.b) = q.oldB
           /\ NewTags(q, q.a) = q.tags /\ NewTags(q, q.b) = q.tagsB
           /\ \A r \in Froze(q) : /\ row[r] = Half(q, r) /\ Base(row, req)[r] = Snap(q, r)
                                  /\ Alone(req, k, r)
<1> DEFINE q == req[k]
<1>1. /\ q \in Job /\ q.a \in Rows /\ q.b \in Rows /\ q.oldA \in Row /\ q.oldB \in Row
      /\ q.oldA.ver \in Nat /\ q.oldB.ver \in Nat
      /\ q.tags \in SUBSET Tags /\ q.tagsB \in SUBSET Tags
  BY Before DEF Job, Memory, Row
<1>2. PairRight(project.owner, q)
  BY Before DEF JobRight, PlanRight
<1>3. /\ Snap(q, q.a) = q.oldA /\ Snap(q, q.b) = q.oldB
      /\ NewTags(q, q.a) = q.tags /\ NewTags(q, q.b) = q.tagsB
  BY <1>2 DEF Snap, NewTags, PairRight
<1>4. \A r \in Froze(q) : row[r] = Half(q, r) /\ Alone(req, k, r)
  BY Before DEF FrozenRight, Alone
<1>5. \A r \in Froze(q) : Base(row, req)[r] = Snap(q, r)
  BY Before, BaseFacts
<1> QED BY <1>1, <1>2, <1>3, <1>4, <1>5

LEMMA HalfFields ==
    ASSUME NEW q, NEW r, Snap(q, r) \in Row, NewTags(q, r) \in SUBSET Tags
    PROVE  /\ Half(q, r) \in Row
           /\ Half(q, r).user = Snap(q, r).user /\ Half(q, r).status = Snap(q, r).status
           /\ Half(q, r).tags = NewTags(q, r) /\ Half(q, r).ver = Snap(q, r).ver + 1
<1>1. Snap(q, r).ver + 1 \in Nat
  BY DEF Row
<1>2. Half(q, r) = [Snap(q, r) EXCEPT !.tags = NewTags(q, r), !.ver = Snap(q, r).ver + 1]
  BY DEF Half, Row
<1> QED BY <1>1, <1>2 DEF Row

LEMMA FirstWrites ==
    ASSUME TypeInv, TypeInv', Unscarred(row, req, project.owner), NEW k \in Workers,
           WriteFirst(k)
    PROVE  Unscarred(row', req', project.owner')
<1> DEFINE q == req[k]
           n == req'[k]
           B == Base(row, req)
           o == project.owner
           x == [row[q.a] EXCEPT !.tags = q.tags, !.ver = row[q.a].ver + 1]
<1>1. q.pc = "first" /\ project' = project
  BY DEF WriteFirst
<1>2. CASE ~Current(q.a, q.expA)
  <2>1. row' = row /\ req' = Done(k)
    BY <1>2 DEF WriteFirst
  <2> QED BY <1>1, <2>1, FrozeNothing, Forgets
<1>3. CASE Current(q.a, q.expA)
  <2>1. row' = [row EXCEPT ![q.a] = x] /\ req' = [req EXCEPT ![k].pc = "second"]
    BY <1>3 DEF WriteFirst
  <2>2. /\ q.a \in Rows /\ q.oldA \in Row /\ q.tags \in SUBSET Tags /\ q.oldA.ver \in Nat
        /\ PairRight(o, q)
    BY <1>1, PairFacts DEF Pairing
  <2>3. ~Frozen(req, q.a) /\ row[q.a] = q.oldA /\ B[q.a] = q.oldA
    BY <1>1, <1>3, <2>2, WriteCurrent DEF PairRight
  <2>4. /\ n.pc = "second" /\ n.op = q.op /\ n.a = q.a /\ n.b = q.b /\ n.expA = q.expA
        /\ n.expB = q.expB /\ n.oldA = q.oldA /\ n.oldB = q.oldB /\ n.owner = q.owner
        /\ n.tags = q.tags /\ n.tagsB = q.tagsB
        /\ req' = [req EXCEPT ![k] = n] /\ n \in Job
    BY <2>1, MoveFields
  <2>5. Snap(n, q.a) = q.oldA /\ NewTags(n, q.a) = q.tags
    BY <2>4 DEF Snap, NewTags
  <2>6. Froze(n) = {q.a} /\ Froze(q) = {}
    BY <1>1, <2>2, <2>4, FrozeNothing DEF Froze
  <2>7. /\ x = Half(n, q.a) /\ x \in Row /\ x.user = q.oldA.user /\ x.status = q.oldA.status
    <3>1. x = [q.oldA EXCEPT !.tags = q.tags, !.ver = q.oldA.ver + 1]
      BY <2>3
    <3>2. Half(n, q.a) = [q.oldA EXCEPT !.tags = q.tags, !.ver = q.oldA.ver + 1]
      BY <2>2, <2>5 DEF Half, Row
    <3> HIDE DEF x, n
    <3> QED BY <2>2, <2>5, <3>1, <3>2, HalfFields
  <2> HIDE DEF x
  <2>8. Alone(req, k, q.a)
    BY <2>3 DEF Frozen, Alone
  <2>9. There(q.oldA) /\ q.oldA.user # Nobody
    BY <2>2 DEF PairRight
  <2>10. FreezesRight(row', req, k, n)
    <3>1. row'[q.a] = x
      BY <2>1, <2>2, Before
    <3> QED BY <2>5, <2>6, <2>7, <2>8, <2>9, <3>1 DEF FreezesRight
  <2>11. RowsRight(row')
    BY <2>1, <2>2, <2>3, <2>7, <2>9, UserKept, Before DEF There
  <2>12. JobRight(B, o, n)
    <3>1. VersionsRight(B, o, q)
      BY Before DEF JobRight
    <3>2. VersionsRight(B, o, n)
      BY <1>1, <2>4, <3>1 DEF VersionsRight
    <3>3. q.op = "merge" => q.oldA.user # o
      <4>1. There(B[q.a]) /\ B[q.a].ver = q.expA
        BY <1>3, <2>3, <2>9 DEF Current
      <4> QED BY <1>1, <2>2, <2>3, <3>1, <4>1 DEF VersionsRight, KnowsOwner, PairRight
    <3>4. q.op # "merge" => q.owner = o
      BY <2>2, <2>3, <2>9, Before DEF PairRight, OwnerRight
    <3>5. PairRight(o, n)
      BY <1>1, <2>2, <2>4, <3>3, <3>4 DEF PairRight
    <3> QED BY <2>4, <3>2, <3>5 DEF JobRight, PlanRight, Pairing
  <2>13. StaysPut(B, req, k, n, q.a, x)
    BY <2>3, <2>5, <2>6 DEF StaysPut
  <2>14. row' = [row EXCEPT ![q.a] = x] /\ x \in Row /\ q.a \in Rows
    BY <2>1, <2>2, <2>7
  <2>15. n \in Job /\ req' = [req EXCEPT ![k] = n]
    BY <2>4
  <2>16. row \in [Rows -> Row] /\ req \in [Workers -> Job] /\ k \in Workers
    BY Before
  <2>17. Unscarred(row, req, o)
    OBVIOUS
  <2> HIDE DEF n, o
  <2>18. Unscarred(row', req', o)
    BY ONLY <2>8, <2>10, <2>11, <2>12, <2>13, <2>14, <2>15, <2>16, <2>17, StandStill
  <2> QED BY <1>1, <2>18 DEF o
<1> QED BY <1>2, <1>3

\* The second document is refused: the first will be put back.
LEMMA SecondRefused ==
    ASSUME TypeInv, TypeInv', Unscarred(row, req, project.owner), NEW k \in Workers,
           req[k].pc = "second", UNCHANGED <<row, project>>,
           req' = [req EXCEPT ![k].pc = "undoA"]
    PROVE  Unscarred(row', req', project.owner')
<1> DEFINE q == req[k]
           n == req'[k]
           B == Base(row, req)
           o == project.owner
<1>1. /\ n.pc = "undoA" /\ n.op = q.op /\ n.a = q.a /\ n.b = q.b /\ n.oldA = q.oldA
      /\ n.oldB = q.oldB /\ n.owner = q.owner /\ n.tags = q.tags /\ n.tagsB = q.tagsB
      /\ req' = [req EXCEPT ![k] = n] /\ n \in Job
  BY MoveFields
<1>2. PairRight(o, q) /\ q.a \in Rows
  BY PairFacts DEF Pairing
<1>3. PairRight(o, n)
  BY <1>1, <1>2 DEF PairRight
<1>4. JobRight(B, o, n)
  BY <1>1, <1>3 DEF JobRight, VersionsRight, PlanRight, Pairing
<1>5. Froze(n) = {q.a} /\ Froze(q) = {q.a}
  BY <1>1, <1>2 DEF Froze, PairRight
<1>6. SameFroze(n, q)
  BY <1>1, <1>5 DEF SameFroze, Snap, NewTags
<1>7. row \in [Rows -> Row] /\ req \in [Workers -> Job]
  BY Before
<1>8. Unscarred(row, req', o)
  BY <1>1, <1>4, <1>6, <1>7, Quiet
<1> QED BY <1>8

\* The second row is the one the handler has read, and nobody has frozen it.
LEMMA SecondCurrent ==
    ASSUME TypeInv, Unscarred(row, req, project.owner), NEW k \in Workers,
           req[k].pc \in {"first", "second"}, Current(req[k].b, req[k].expB)
    PROVE  /\ ~Frozen(req, req[k].b) /\ row[req[k].b] = req[k].oldB
           /\ Base(row, req)[req[k].b] = req[k].oldB
<1> DEFINE q == req[k]
           B == Base(row, req)
<1>1. /\ q.b \in Rows /\ q.expB \in Nat /\ row \in [Rows -> Row] /\ req \in [Workers -> Job]
      /\ FrozenRight(row, req)
  BY Before DEF Job, Memory
<1>2. Knows(B, q.b, q.expB) /\ Remembers(B, q.b, q.expB, q.oldB)
  BY Before DEF JobRight, VersionsRight
<1>3. ~Frozen(req, q.b) /\ B[q.b] = row[q.b]
  BY <1>1, <1>2, Untouched DEF Current
<1>4. There(row[q.b]) /\ row[q.b].ver = q.expB
  BY DEF Current, Exists, There
<1>5. There(q.oldB)
  BY PairFacts DEF Pairing, PairRight
<1> QED BY <1>2, <1>3, <1>4, <1>5 DEF Remembers

\* A transfer freezes the new owner's row as well.
LEMMA TransferWrites ==
    ASSUME TypeInv, TypeInv', Unscarred(row, req, project.owner), NEW k \in Workers,
           WriteSecond(k), req[k].op # "merge", Current(req[k].b, req[k].expB)
    PROVE  Unscarred(row', req', project.owner')
<1> DEFINE q == req[k]
           n == req'[k]
           B == Base(row, req)
           o == project.owner
           x == [row[q.b] EXCEPT !.tags = q.tagsB, !.ver = row[q.b].ver + 1]
<1>1. q.pc = "second" /\ project' = project /\ req' = [req EXCEPT ![k].pc = "commit"]
  BY DEF WriteSecond
<1>2. /\ q \in Job /\ q.a \in Rows /\ q.b \in Rows /\ q.oldA \in Row /\ q.oldB \in Row
      /\ q.oldB.ver \in Nat /\ q.tags \in SUBSET Tags /\ q.tagsB \in SUBSET Tags
      /\ PairRight(o, q)
      /\ Snap(q, q.a) = q.oldA /\ Snap(q, q.b) = q.oldB
      /\ NewTags(q, q.a) = q.tags /\ NewTags(q, q.b) = q.tagsB
      /\ \A r \in Froze(q) : row[r] = Half(q, r) /\ B[r] = Snap(q, r) /\ Alone(req, k, r)
  BY <1>1, PairFacts DEF Pairing
<1>3. ~Frozen(req, q.b) /\ row[q.b] = q.oldB /\ B[q.b] = q.oldB
  BY <1>1, SecondCurrent
<1>4. row' = [row EXCEPT ![q.b] = x]
  <2>1. row' = [row EXCEPT ![q.b] = [row[q.b] EXCEPT !.tags = q.tagsB, !.ver = row[q.b].ver + 1,
                                                    !.status = row[q.b].status]]
    BY <1>2 DEF WriteSecond
  <2>2. [row[q.b] EXCEPT !.tags = q.tagsB, !.ver = row[q.b].ver + 1, !.status = row[q.b].status] = x
    BY <1>2, <1>3 DEF Row
  <2> QED BY <2>1, <2>2
<1>5. /\ n.pc = "commit" /\ n.op = q.op /\ n.a = q.a /\ n.b = q.b /\ n.oldA = q.oldA
      /\ n.oldB = q.oldB /\ n.owner = q.owner /\ n.tags = q.tags /\ n.tagsB = q.tagsB
      /\ req' = [req EXCEPT ![k] = n] /\ n \in Job
  BY <1>1, MoveFields
<1>6. q.a # q.b /\ There(q.oldB) /\ q.oldB.user # Nobody /\ There(q.oldA) /\ q.oldA.user # Nobody
  BY <1>2, MembersAssumption DEF PairRight
<1>7. /\ Snap(n, q.a) = q.oldA /\ NewTags(n, q.a) = q.tags
      /\ Snap(n, q.b) = q.oldB /\ NewTags(n, q.b) = q.tagsB
  BY <1>5, <1>6 DEF Snap, NewTags
<1>8. Froze(n) = {q.a, q.b} /\ Froze(q) = {q.a}
  BY <1>1, <1>2, <1>5, <1>6 DEF Froze, PairRight
<1>9. x = Half(n, q.b) /\ x \in Row /\ x.user = q.oldB.user /\ x.status = q.oldB.status
  <2>1. x = [q.oldB EXCEPT !.tags = q.tagsB, !.ver = q.oldB.ver + 1]
    BY <1>3
  <2>2. Half(n, q.b) = [q.oldB EXCEPT !.tags = q.tagsB, !.ver = q.oldB.ver + 1]
    BY ONLY <1>7 DEF Half
  <2> HIDE DEF x, n
  <2> QED BY <1>2, <1>7, <2>1, <2>2, HalfFields
<1> HIDE DEF x
<1>10. Alone(req, k, q.b) /\ Alone(req, k, q.a) /\ row[q.a] = Half(q, q.a) /\ B[q.a] = q.oldA
  BY <1>2, <1>3, <1>8 DEF Frozen, Alone
<1>11. Half(q, q.a) = Half(n, q.a)
  <2>1. Snap(q, q.a) = Snap(n, q.a) /\ NewTags(q, q.a) = NewTags(n, q.a)
    BY <1>2, <1>7
  <2> QED BY ONLY <2>1 DEF Half
<1>12. FreezesRight(row', req, k, n)
  <2>1. row'[q.b] = x /\ row'[q.a] = row[q.a]
    BY <1>2, <1>4, <1>6, Before
  <2>2. row'[q.a] = Half(n, q.a)
    BY <1>10, <1>11, <2>1
  <2>3. There(Snap(n, q.a)) /\ Snap(n, q.a).user # Nobody
    BY <1>6, <1>7
  <2>4. There(Snap(n, q.b)) /\ Snap(n, q.b).user # Nobody /\ row'[q.b] = Half(n, q.b)
    BY <1>6, <1>7, <1>9, <2>1
  <2> QED BY ONLY <1>8, <1>10, <2>2, <2>3, <2>4 DEF FreezesRight
<1>13. RowsRight(row')
  BY <1>2, <1>3, <1>4, <1>6, <1>9, UserKept, Before DEF There
<1>14. JobRight(B, o, n)
  <2>1. PairRight(o, n)
    BY <1>1, <1>2, <1>5 DEF PairRight
  <2> QED BY <1>5, <2>1 DEF JobRight, VersionsRight, PlanRight, Pairing
<1>15. StaysPut(B, req, k, n, q.b, x)
  BY <1>3, <1>7, <1>8, <1>10 DEF StaysPut
<1>16. row \in [Rows -> Row] /\ req \in [Workers -> Job] /\ k \in Workers /\ Unscarred(row, req, o)
  BY Before
<1>17. req' = [req EXCEPT ![k] = n] /\ n \in Job /\ q.b \in Rows /\ x \in Row
  BY <1>2, <1>5, <1>9
<1> HIDE DEF n, o
<1>18. Unscarred(row', req', o)
  BY ONLY <1>4, <1>10, <1>12, <1>13, <1>14, <1>15, <1>16, <1>17, StandStill
<1> QED BY <1>1, <1>18 DEF o

\* A merge is done: its target keeps the tags it has got, its alias goes.
LEMMA MergeWrites ==
    ASSUME TypeInv, TypeInv', Unscarred(row, req, project.owner), NEW k \in Workers,
           WriteSecond(k), req[k].op = "merge", Current(req[k].b, req[k].expB)
    PROVE  Unscarred(row', req', project.owner')
<1> DEFINE q == req[k]
           B == Base(row, req)
           C == Base(row', req')
           o == project.owner
           x == [row[q.b] EXCEPT !.tags = q.tagsB, !.ver = row[q.b].ver + 1, !.status = "removed"]
<1>1. /\ q.pc = "second" /\ project' = project /\ req' = [req EXCEPT ![k] = NoJob]
      /\ row' = [row EXCEPT ![q.b] = x]
  BY DEF WriteSecond, Done
<1>2. /\ q \in Job /\ q.a \in Rows /\ q.b \in Rows /\ q.oldA \in Row /\ q.oldB \in Row
      /\ q.oldA.ver \in Nat /\ q.oldB.ver \in Nat /\ q.tags \in SUBSET Tags
      /\ q.tagsB \in SUBSET Tags /\ PairRight(o, q)
      /\ Snap(q, q.a) = q.oldA /\ NewTags(q, q.a) = q.tags
      /\ \A r \in Froze(q) : row[r] = Half(q, r) /\ B[r] = Snap(q, r) /\ Alone(req, k, r)
  BY <1>1, PairFacts DEF Pairing
<1>3. ~Frozen(req, q.b) /\ row[q.b] = q.oldB /\ B[q.b] = q.oldB
  BY <1>1, SecondCurrent
<1>4. /\ q.a # q.b /\ There(q.oldB) /\ There(q.oldA) /\ q.oldA.user # o
      /\ q.oldB.user = Nobody /\ "creator" \notin q.tags /\ q.tagsB = q.oldB.tags
  BY <1>1, <1>2 DEF PairRight
<1>5. Froze(q) = {q.a}
  BY <1>1, <1>2 DEF Froze
<1>6. /\ x \in Row /\ There(x) /\ x.user = Nobody /\ x.tags = q.oldB.tags /\ x.ver = q.oldB.ver + 1
  <2>1. x = [q.oldB EXCEPT !.tags = q.tagsB, !.ver = q.oldB.ver + 1, !.status = "removed"]
    BY <1>3
  <2>2. q.oldB.ver + 1 \in Nat
    BY <1>2
  <2> HIDE DEF x
  <2>3. /\ x \in Row /\ x.status = "removed" /\ x.user = q.oldB.user /\ x.tags = q.tagsB
        /\ x.ver = q.oldB.ver + 1
    BY <1>2, <2>1, <2>2 DEF Row
  <2> QED BY <1>4, <2>3 DEF There
<1> HIDE DEF x
<1>7. /\ row \in [Rows -> Row] /\ req \in [Workers -> Job] /\ FrozenRight(row, req)
      /\ OwnerRight(B, o) /\ B \in [Rows -> Row] /\ RowsRight(row) /\ NoJob \in Job
      /\ Froze(NoJob) = {} /\ row' \in [Rows -> Row]
  BY <1>1, <1>2, <1>6, Before, IdleRight, NoJobType
<1>8. row'[q.b] = x /\ \A r \in Rows \ {q.b} : row'[r] = row[r]
  BY <1>1, <1>2, <1>7
<1>9. FrozenRight(row', req') /\ C \in [Rows -> Row] /\ BaseAfter(B, C, row', req, k, NoJob)
  <2>1. LeavesOthers(row, row', req, k)
    BY <1>3, <1>8 DEF LeavesOthers, Frozen, Froze
  <2>2. FreezesRight(row', req, k, NoJob)
    BY <1>7 DEF FreezesRight
  <2>3. k \in Workers
    OBVIOUS
  <2> HIDE DEF q, B, C, o
  <2>4. FrozenRight(row', req') /\ C \in [Rows -> Row] /\ BaseAfter(B, C, row', req, k, NoJob)
    BY ONLY <1>1, <1>7, <2>1, <2>2, <2>3, Settled DEF B, C
  <2> QED BY <2>4
<1>10. Alone(req, k, q.a) /\ Alone(req, k, q.b) /\ row[q.a] = Half(q, q.a) /\ B[q.a] = q.oldA
  BY <1>2, <1>3, <1>5 DEF Frozen, Alone
<1>11. /\ Half(q, q.a).user = q.oldA.user /\ Half(q, q.a).tags = q.tags
       /\ Half(q, q.a).ver = q.oldA.ver + 1 /\ Half(q, q.a).status = q.oldA.status
  BY <1>2, HalfFields
<1> HIDE DEF C, B
<1>12. C[q.a] = Half(q, q.a) /\ C[q.b] = x
  <2>1. C[q.a] = row'[q.a] /\ C[q.b] = row'[q.b]
    BY <1>2, <1>7, <1>9, <1>10 DEF BaseAfter
  <2> QED BY <1>2, <1>4, <1>8, <1>10, <2>1
<1>13. \A r \in Rows \ {q.a, q.b} : C[r] = B[r]
  <2> TAKE r \in Rows \ {q.a, q.b}
  <2>1. CASE \E j \in Workers \ {k} : r \in Froze(req[j])
    BY <1>9, <2>1 DEF BaseAfter
  <2>2. CASE Alone(req, k, r)
    <3>1. ~Frozen(req, r)
      BY <1>5, <2>2 DEF Frozen, Alone
    <3>2. B[r] = row[r]
      BY <1>7, <3>1, BaseFacts DEF B
    <3>3. C[r] = row'[r]
      BY <1>7, <1>9, <2>2 DEF BaseAfter
    <3> QED BY <1>8, <3>2, <3>3
  <2> QED BY <2>1, <2>2 DEF Alone
<1>14. OwnerRight(C, o)
  <2>1. PICK s \in Rows : B[s].user = o /\ B[s].status = "active"
    BY <1>7 DEF OwnerRight
  <2>2. o \in Users /\ o # Nobody
    BY <1>7, MembersAssumption DEF OwnerRight
  <2>3. s # q.a /\ s # q.b
    BY <1>3, <1>4, <1>10, <2>1, <2>2
  <2>4. C[s].user = o /\ C[s].status = "active"
    BY <1>13, <2>1, <2>3
  <2>5. "creator" \notin q.oldB.tags
    BY <1>2, <1>3, <1>4, <1>7, <2>2 DEF OwnerRight
  <2>6. ASSUME NEW r \in Rows, There(C[r]) PROVE "creator" \in C[r].tags <=> C[r].user = o
    <3>1. CASE r = q.a
      BY <1>4, <1>11, <1>12, <3>1
    <3>2. CASE r = q.b
      BY <1>6, <1>12, <2>2, <2>5, <3>2
    <3>3. CASE r \notin {q.a, q.b}
      BY <1>7, <1>13, <2>6, <3>3 DEF OwnerRight
    <3> QED BY <3>1, <3>2, <3>3
  <2> QED BY <2>2, <2>4, <2>6 DEF OwnerRight
<1>15. \A r \in Rows : Moved(B, C, o, o, r)
  <2> TAKE r \in Rows
  <2>1. CASE r = q.a
    BY <1>2, <1>4, <1>10, <1>11, <1>12, <2>1 DEF Moved, There
  <2>2. CASE r = q.b
    BY <1>2, <1>3, <1>4, <1>6, <1>12, <2>2 DEF Moved
  <2>3. CASE r \notin {q.a, q.b}
    BY <1>13, <2>3 DEF Moved
  <2> QED BY <2>1, <2>2, <2>3
<1>16. RowsRight(row')
  BY <1>1, <1>2, <1>3, <1>4, <1>6, <1>7, UserKept
<1>17. \A j \in Workers \ {k} : req[j].pc \in Pairing => PairRight(o, req[j])
  BY Before DEF JobRight, PlanRight
<1>18. JobRight(C, o, NoJob)
  BY IdleRight
<1>19. k \in Workers /\ Unscarred(row, req, o)
  OBVIOUS
<1> HIDE DEF q, o
<1>20. Unscarred(row', req', o)
  BY ONLY <1>1, <1>7, <1>9, <1>14, <1>15, <1>16, <1>17, <1>18, <1>19, Unscathed DEF B, C
<1> QED BY <1>1, <1>20 DEF o

LEMMA SecondWrites ==
    ASSUME TypeInv, TypeInv', Unscarred(row, req, project.owner), NEW k \in Workers,
           WriteSecond(k)
    PROVE  Unscarred(row', req', project.owner')
<1>1. CASE ~Current(req[k].b, req[k].expB)
  BY <1>1, SecondRefused DEF WriteSecond
<1> QED BY <1>1, TransferWrites, MergeWrites

\* The project document is refused: both rows will be put back.
LEMMA CommitRefused ==
    ASSUME TypeInv, TypeInv', Unscarred(row, req, project.owner), NEW k \in Workers,
           req[k].pc = "commit", UNCHANGED <<row, project>>,
           req' = [req EXCEPT ![k].pc = "undoA", ![k].op = "undo"]
    PROVE  Unscarred(row', req', project.owner')
<1> DEFINE q == req[k]
           n == req'[k]
           B == Base(row, req)
           o == project.owner
<1>1. /\ n.pc = "undoA" /\ n.op = "undo" /\ n.a = q.a /\ n.b = q.b /\ n.oldA = q.oldA
      /\ n.oldB = q.oldB /\ n.owner = q.owner /\ n.tags = q.tags /\ n.tagsB = q.tagsB
      /\ req' = [req EXCEPT ![k] = n] /\ n \in Job
  <2>1. req \in [Workers -> Job] /\ q \in Memory /\ req' \in [Workers -> Job]
    BY JobType DEF Job, TypeInv
  <2> QED BY <2>1 DEF Memory
<1>2. PairRight(o, q) /\ q.a \in Rows /\ q.b \in Rows
  BY PairFacts DEF Pairing
<1>3. PairRight(o, n)
  BY <1>1, <1>2 DEF PairRight
<1>4. JobRight(B, o, n)
  BY <1>1, <1>3 DEF JobRight, VersionsRight, PlanRight, Pairing
<1>5. Froze(n) = {q.a, q.b} /\ Froze(q) = {q.a, q.b}
  BY <1>1, <1>2 DEF Froze
<1>6. SameFroze(n, q)
  BY <1>1, <1>5 DEF SameFroze, Snap, NewTags
<1>7. row \in [Rows -> Row] /\ req \in [Workers -> Job]
  BY Before
<1>8. Unscarred(row, req', o)
  BY <1>1, <1>4, <1>6, <1>7, Quiet
<1> QED BY <1>8

\* The project document is written: both rows are committed as they are, and
\* the second one's user is the owner.
LEMMA CommitDone ==
    ASSUME TypeInv, TypeInv', Unscarred(row, req, project.owner), NEW k \in Workers,
           req[k].pc = "commit", row' = row, req' = Done(k),
           project'.owner = row[req[k].b].user
    PROVE  Unscarred(row', req', project'.owner)
<1> DEFINE q == req[k]
           B == Base(row, req)
           C == Base(row, req')
           o == project.owner
           p == row[q.b].user
<1>1. req' = [req EXCEPT ![k] = NoJob]
  BY DEF Done
<1>2. /\ q \in Job /\ q.a \in Rows /\ q.b \in Rows /\ q.oldA \in Row /\ q.oldB \in Row
      /\ q.oldA.ver \in Nat /\ q.oldB.ver \in Nat /\ q.tags \in SUBSET Tags
      /\ q.tagsB \in SUBSET Tags /\ PairRight(o, q)
      /\ Snap(q, q.a) = q.oldA /\ Snap(q, q.b) = q.oldB
      /\ NewTags(q, q.a) = q.tags /\ NewTags(q, q.b) = q.tagsB
      /\ \A r \in Froze(q) : row[r] = Half(q, r) /\ B[r] = Snap(q, r) /\ Alone(req, k, r)
  BY PairFacts DEF Pairing
<1>3. /\ q.a # q.b /\ There(q.oldA) /\ There(q.oldB) /\ q.oldA.user = o /\ q.oldB.user \in Users
      /\ q.oldB.user # o /\ q.oldB.status = "active"
      /\ "creator" \notin q.tags /\ "creator" \in q.tagsB
  BY <1>2 DEF PairRight
<1>4. Froze(q) = {q.a, q.b}
  BY <1>2 DEF Froze
<1>5. /\ Alone(req, k, q.a) /\ row[q.a] = Half(q, q.a) /\ B[q.a] = q.oldA
      /\ Alone(req, k, q.b) /\ row[q.b] = Half(q, q.b) /\ B[q.b] = q.oldB
  BY <1>2, <1>4
<1>6. /\ row[q.a].user = o /\ There(row[q.a]) /\ row[q.a].tags = q.tags
      /\ row[q.a].ver = q.oldA.ver + 1
  BY <1>2, <1>3, <1>5, HalfFields DEF There
<1>7. /\ p = q.oldB.user /\ row[q.b].status = "active" /\ There(row[q.b])
      /\ row[q.b].tags = q.tagsB /\ row[q.b].ver = q.oldB.ver + 1
  BY <1>2, <1>3, <1>5, HalfFields DEF There
<1>8. /\ row \in [Rows -> Row] /\ req \in [Workers -> Job] /\ FrozenRight(row, req)
      /\ OwnerRight(B, o) /\ B \in [Rows -> Row] /\ RowsRight(row) /\ NoJob \in Job
      /\ Froze(NoJob) = {}
      /\ \A r \in Rows : B[r].user = row[r].user /\ B[r].status = row[r].status
  BY Before, IdleRight, NoJobType
<1>9. FrozenRight(row, req') /\ C \in [Rows -> Row] /\ BaseAfter(B, C, row, req, k, NoJob)
  <2>1. LeavesOthers(row, row, req, k)
    BY DEF LeavesOthers
  <2>2. FreezesRight(row, req, k, NoJob)
    BY <1>8 DEF FreezesRight
  <2>3. k \in Workers
    OBVIOUS
  <2> HIDE DEF q, B, C, o
  <2>4. FrozenRight(row, req') /\ C \in [Rows -> Row] /\ BaseAfter(B, C, row, req, k, NoJob)
    BY ONLY <1>1, <1>8, <2>1, <2>2, <2>3, Settled DEF B, C
  <2> QED BY <2>4
<1> HIDE DEF C
<1>10. C[q.a] = row[q.a] /\ C[q.b] = row[q.b]
  BY <1>2, <1>5, <1>8, <1>9 DEF BaseAfter
<1>11. \A r \in Rows \ {q.a, q.b} : C[r] = B[r]
  <2> TAKE r \in Rows \ {q.a, q.b}
  <2>1. CASE \E j \in Workers \ {k} : r \in Froze(req[j])
    BY <1>9, <2>1 DEF BaseAfter
  <2>2. CASE Alone(req, k, r)
    <3>1. ~Frozen(req, r)
      BY <1>4, <2>2 DEF Frozen, Alone
    <3>2. B[r] = row[r]
      BY <1>8, <3>1, BaseFacts
    <3>3. C[r] = row[r]
      BY <1>8, <1>9, <2>2 DEF BaseAfter
    <3> QED BY <3>2, <3>3
  <2> QED BY <2>1, <2>2 DEF Alone
<1> HIDE DEF B
<1>12. o # Nobody /\ p # Nobody /\ p # o /\ p \in Users
  BY <1>3, <1>7, <1>8, MembersAssumption DEF OwnerRight
<1>13. \A r \in Rows : /\ There(row[r]) /\ row[r].user = o => r = q.a
                       /\ There(row[r]) /\ row[r].user = p => r = q.b
  BY <1>2, <1>6, <1>7, <1>8, <1>12 DEF RowsRight
<1>14. \A r \in Rows \ {q.a, q.b} : There(B[r]) => B[r].user # o /\ B[r].user # p
  BY <1>8, <1>13 DEF There
<1>15. OwnerRight(C, p)
  <2>1. C[q.b].user = p /\ C[q.b].status = "active"
    BY <1>7, <1>10
  <2>2. ASSUME NEW r \in Rows, There(C[r]) PROVE "creator" \in C[r].tags <=> C[r].user = p
    <3>1. CASE r = q.a
      BY <1>3, <1>6, <1>10, <1>12, <3>1
    <3>2. CASE r = q.b
      BY <1>3, <1>7, <1>10, <3>2
    <3>3. CASE r \notin {q.a, q.b}
      BY <1>8, <1>11, <1>14, <2>2, <3>3 DEF OwnerRight
    <3> QED BY <3>1, <3>2, <3>3
  <2> QED BY <1>2, <1>12, <2>1, <2>2 DEF OwnerRight
<1>16. \A r \in Rows : Moved(B, C, o, p, r)
  <2> TAKE r \in Rows
  <2>1. CASE r = q.a
    BY <1>2, <1>3, <1>5, <1>6, <1>10, <2>1 DEF Moved
  <2>2. CASE r = q.b
    BY <1>2, <1>3, <1>5, <1>7, <1>10, <2>2 DEF Moved
  <2>3. CASE r \notin {q.a, q.b}
    BY <1>11, <1>14, <2>3 DEF Moved
  <2> QED BY <2>1, <2>2, <2>3
<1>17. ASSUME NEW j \in Workers \ {k}, req[j].pc \in Pairing PROVE PairRight(p, req[j])
  <2> DEFINE x == req[j]
  <2>1. /\ PairRight(o, x) /\ x.a \in Rows /\ x.oldA \in Row /\ x.tags \in SUBSET Tags
        /\ Snap(x, x.a) = x.oldA /\ NewTags(x, x.a) = x.tags
        /\ \A r \in Froze(x) : row[r] = Half(x, r)
    BY <1>17, PairFacts
  <2>2. ASSUME x.pc \in {"second", "commit", "undoA"}
        PROVE  x.oldA.user # o /\ x.oldA.user # p
    <3>1. x.a \in Froze(x)
      BY <2>1, <2>2 DEF Froze
    <3>2. row[x.a].user = x.oldA.user /\ There(row[x.a])
      BY <2>1, <3>1, HalfFields DEF There, PairRight
    <3>3. x.a # q.a /\ x.a # q.b
      BY <1>5, <3>1 DEF Alone
    <3> QED BY <1>13, <2>1, <3>2, <3>3
  <2>3. x.op # "merge" => x.pc \notin {"second", "commit", "undoA"}
    BY <2>1, <2>2 DEF PairRight
  <2>4. x.op = "merge" /\ x.pc # "first" => x.oldA.user # p
    BY <1>17, <2>1, <2>2 DEF PairRight, Pairing
  <2>5. PairRight(o, x)
    BY <2>1
  <2> HIDE DEF x, p
  <2>6. PairRight(p, x)
    BY ONLY <2>3, <2>4, <2>5 DEF PairRight
  <2> QED BY <2>6 DEF x
<1>18. JobRight(C, p, NoJob)
  BY IdleRight
<1>19. k \in Workers /\ Unscarred(row, req, o) /\ NoJob \in Job
  BY <1>8
<1>20. \A j \in Workers \ {k} : req[j].pc \in Pairing => PairRight(p, req[j])
  BY <1>17
<1> HIDE DEF q, o, p
<1>21. Unscarred(row, req', p)
  BY ONLY <1>1, <1>8, <1>9, <1>15, <1>16, <1>18, <1>19, <1>20, Unscathed DEF B, C
<1> QED BY <1>21 DEF p, q

LEMMA Commits ==
    ASSUME TypeInv, TypeInv', Unscarred(row, req, project.owner), NEW k \in Workers, Commit(k)
    PROVE  Unscarred(row', req', project'.owner)
<1> DEFINE q == req[k]
<1>1. CASE project.owner = q.owner /\ project.over = q.over /\ ~project.clearing
  <2>1. req[k].pc = "commit" /\ row' = row /\ req' = Done(k)
    BY <1>1 DEF Commit
  <2>2. project'.owner = row[req[k].b].user
    <3>1. project' = [project EXCEPT !.owner = row[q.b].user, !.over = project.over + 1]
      BY <1>1 DEF Commit
    <3> QED BY <3>1, JobType
  <2> QED BY <2>1, <2>2, CommitDone
<1>2. CASE ~(project.owner = q.owner /\ project.over = q.over /\ ~project.clearing)
  BY <1>2, CommitRefused DEF Commit
<1> QED BY <1>1, <1>2

\* A frozen row is put back as it was.
LEMMA PutBack ==
    ASSUME TypeInv, Unscarred(row, req, project.owner), NEW k \in Workers,
           req[k].pc \in Pairing, NEW t \in Froze(req[k]), NEW old, old = Snap(req[k], t)
    PROVE  /\ t \in Rows /\ old \in Row /\ Alone(req, k, t) /\ Base(row, req)[t] = old
           /\ Undo(t, old) = [row EXCEPT ![t] = old] /\ RowsRight(Undo(t, old))
<1> DEFINE q == req[k]
           B == Base(row, req)
<1>1. /\ q.a \in Rows /\ q.b \in Rows /\ q.oldA \in Row /\ q.oldB \in Row
      /\ q.tags \in SUBSET Tags /\ q.tagsB \in SUBSET Tags
      /\ Snap(q, q.a) = q.oldA /\ Snap(q, q.b) = q.oldB
      /\ NewTags(q, q.a) = q.tags /\ NewTags(q, q.b) = q.tagsB
      /\ row[t] = Half(q, t) /\ B[t] = Snap(q, t) /\ Alone(req, k, t)
  BY PairFacts
<1>2. t \in {q.a, q.b} /\ t \in Rows
  BY <1>1 DEF Froze
<1>3. old \in Row /\ NewTags(q, t) \in SUBSET Tags
  BY <1>1, <1>2
<1>4. There(old) /\ row \in [Rows -> Row] /\ RowsRight(row)
  BY Before DEF FrozenRight
<1>5. row[t].user = old.user /\ row[t].status = old.status /\ row[t].ver = old.ver + 1
      /\ row[t] \in Row
  BY <1>1, <1>3, HalfFields
<1>6. Current(t, old.ver + 1)
  BY <1>4, <1>5 DEF Current, Exists, There
<1>7. [row[t] EXCEPT !.tags = old.tags, !.ver = old.ver] = old
  <2> HIDE DEF q
  <2> QED BY ONLY <1>3, <1>5 DEF Row
<1>8. Undo(t, old) = [row EXCEPT ![t] = old]
  BY <1>6, <1>7 DEF Undo
<1>9. RowsRight([row EXCEPT ![t] = old])
  BY <1>2, <1>3, <1>4, <1>5, UserKept DEF There
<1> QED BY <1>1, <1>2, <1>3, <1>8, <1>9

LEMMA FirstUndone ==
    ASSUME TypeInv, TypeInv', Unscarred(row, req, project.owner), NEW k \in Workers,
           UndoFirst(k)
    PROVE  Unscarred(row', req', project.owner')
<1> DEFINE q == req[k]
           n == req'[k]
           B == Base(row, req)
           o == project.owner
<1>1. q.pc = "undoA" /\ project' = project /\ row' = Undo(q.a, q.oldA)
  BY DEF UndoFirst
<1>2. /\ q.a \in Rows /\ q.b \in Rows /\ PairRight(o, q)
      /\ Snap(q, q.a) = q.oldA /\ Snap(q, q.b) = q.oldB
      /\ NewTags(q, q.a) = q.tags /\ NewTags(q, q.b) = q.tagsB
      /\ \A r \in Froze(q) : row[r] = Half(q, r) /\ B[r] = Snap(q, r) /\ Alone(req, k, r)
  BY <1>1, PairFacts DEF Pairing
<1>3. q.a \in Froze(q)
  BY <1>1, <1>2 DEF Froze
<1>4. /\ q.oldA \in Row /\ Alone(req, k, q.a) /\ B[q.a] = q.oldA
      /\ row' = [row EXCEPT ![q.a] = q.oldA] /\ RowsRight(row')
  BY <1>1, <1>2, <1>3, PutBack DEF Pairing
<1>5. /\ n \in Job /\ req' = [req EXCEPT ![k] = n] /\ JobRight(B, o, n)
      /\ FreezesRight(row', req, k, n) /\ StaysPut(B, req, k, n, q.a, q.oldA)
  <2>1. CASE q.op = "undo"
    <3>1. /\ n.pc = "undoB" /\ n.op = q.op /\ n.a = q.a /\ n.b = q.b /\ n.oldA = q.oldA
          /\ n.oldB = q.oldB /\ n.owner = q.owner /\ n.tags = q.tags /\ n.tagsB = q.tagsB
          /\ req' = [req EXCEPT ![k] = n] /\ n \in Job
      <4>1. req' = [req EXCEPT ![k].pc = "undoB"]
        BY <2>1 DEF UndoFirst
      <4> QED BY <4>1, MoveFields
    <3>2. Froze(n) = {q.b} /\ Froze(q) = {q.a, q.b}
      BY <1>1, <1>2, <2>1, <3>1 DEF Froze
    <3>3. q.a # q.b /\ There(q.oldB) /\ q.oldB.user # Nobody
      BY <1>2, <2>1, MembersAssumption DEF PairRight
    <3>4. Snap(n, q.b) = Snap(q, q.b) /\ NewTags(n, q.b) = NewTags(q, q.b)
      BY <3>1 DEF Snap, NewTags
    <3>5. Half(n, q.b) = Half(q, q.b)
      BY ONLY <3>4 DEF Half
    <3>6. FreezesRight(row', req, k, n)
      <4>1. row'[q.b] = row[q.b] /\ row[q.b] = Half(q, q.b) /\ Alone(req, k, q.b)
        BY <1>2, <1>4, <3>2, <3>3, Before
      <4> QED BY <1>2, <3>2, <3>3, <3>4, <3>5, <4>1 DEF FreezesRight
    <3>7. StaysPut(B, req, k, n, q.a, q.oldA)
      BY <1>2, <1>4, <3>2, <3>4 DEF StaysPut
    <3>8. PairRight(o, n)
      BY <1>2, <2>1, <3>1 DEF PairRight
    <3>9. JobRight(B, o, n)
      BY <3>1, <3>8 DEF JobRight, VersionsRight, PlanRight, Pairing
    <3> QED BY <3>1, <3>6, <3>7, <3>9
  <2>2. CASE q.op # "undo"
    <3>1. req' = [req EXCEPT ![k] = NoJob] /\ n = NoJob
      BY <2>2, JobType DEF UndoFirst, Done
    <3>2. Froze(q) = {q.a} /\ Froze(n) = {}
      BY <1>1, <1>2, <2>2, <3>1, IdleRight DEF Froze
    <3>3. StaysPut(B, req, k, n, q.a, q.oldA) /\ FreezesRight(row', req, k, n)
      BY <1>4, <3>2 DEF StaysPut, FreezesRight
    <3> QED BY <3>1, <3>3, IdleRight, NoJobType
  <2> QED BY <2>1, <2>2
<1>6. row \in [Rows -> Row] /\ req \in [Workers -> Job] /\ k \in Workers /\ Unscarred(row, req, o)
  BY Before
<1>7. q.a \in Rows
  BY <1>2
<1> HIDE DEF q, n, o
<1>8. Unscarred(row', req', o)
  BY ONLY <1>4, <1>5, <1>6, <1>7, StandStill DEF B
<1> QED BY <1>1, <1>8 DEF o

LEMMA SecondUndone ==
    ASSUME TypeInv, TypeInv', Unscarred(row, req, project.owner), NEW k \in Workers,
           UndoSecond(k)
    PROVE  Unscarred(row', req', project.owner')
<1> DEFINE q == req[k]
           B == Base(row, req)
           o == project.owner
<1>1. /\ q.pc = "undoB" /\ project' = project /\ row' = Undo(q.b, q.oldB)
      /\ req' = [req EXCEPT ![k] = NoJob]
  BY DEF UndoSecond, Done
<1>2. q.b \in Rows /\ PairRight(o, q) /\ Snap(q, q.b) = q.oldB
  BY <1>1, PairFacts DEF Pairing
<1>3. Froze(q) = {q.b} /\ Froze(NoJob) = {}
  BY <1>1, <1>2, IdleRight DEF Froze
<1>4. /\ q.oldB \in Row /\ Alone(req, k, q.b) /\ B[q.b] = q.oldB
      /\ row' = [row EXCEPT ![q.b] = q.oldB] /\ RowsRight(row')
  BY <1>1, <1>2, <1>3, PutBack DEF Pairing
<1>5. StaysPut(B, req, k, NoJob, q.b, q.oldB) /\ FreezesRight(row', req, k, NoJob)
  BY <1>3, <1>4 DEF StaysPut, FreezesRight
<1>6. /\ row \in [Rows -> Row] /\ req \in [Workers -> Job] /\ k \in Workers
      /\ Unscarred(row, req, o) /\ NoJob \in Job /\ JobRight(B, o, NoJob)
  BY Before, NoJobType, IdleRight
<1>7. q.b \in Rows /\ q.oldB \in Row /\ Alone(req, k, q.b)
      /\ row' = [row EXCEPT ![q.b] = q.oldB] /\ req' = [req EXCEPT ![k] = NoJob]
  BY <1>1, <1>2, <1>4
<1>8. RowsRight(row')
  BY <1>4
<1> HIDE DEF q, o
<1>9. Unscarred(row', req', o)
  BY ONLY <1>5, <1>6, <1>7, <1>8, StandStill DEF B
<1> QED BY <1>1, <1>9 DEF o

(***************************************************************************)
(* The inductive invariant                                               *)
(***************************************************************************)
LEMMA InitRight == MembersInit => Unscarred(row, req, project.owner)
<1> SUFFICES ASSUME MembersInit PROVE Unscarred(row, req, project.owner)
  OBVIOUS
<1>1. PICK joined \in SUBSET (Users \ {Owner0}) :
         row = [r \in Rows |->
                  IF r \in Users \ joined /\ r # Owner0 THEN Absent
                  ELSE [status |-> "active", user |-> IF r \in Users THEN r ELSE Nobody,
                        tags |-> IF r = Owner0 THEN {"creator"} ELSE
                                 IF r \in Users THEN {} ELSE {"translator"},
                        ver |-> 0]]
  BY DEF MembersInit
<1>2. /\ row \in [Rows -> Row] /\ req \in [Workers -> Job] /\ req = [k \in Workers |-> NoJob]
      /\ project.owner = Owner0 /\ Owner0 \in Users /\ Owner0 \in Rows
  BY InitType, JobType, MembersAssumption DEF MembersInit, Rows
<1>3. \A r \in Rows : ~Frozen(req, r)
  BY <1>2, IdleRight DEF Frozen
<1>4. FrozenRight(row, req)
  BY <1>2, IdleRight DEF FrozenRight
<1>5. Base(row, req) = row
  <2>1. \A r \in Rows : Base(row, req)[r] = row[r]
    BY <1>3 DEF Base
  <2>2. Base(row, req) \in [Rows -> Row]
    BY <1>2, <1>4, BaseFacts
  <2> QED BY <1>2, <2>1, <2>2
<1>6. \A r \in Rows : There(row[r]) =>
        /\ row[r].user = (IF r \in Users THEN r ELSE Nobody)
        /\ row[r].tags = IF r = Owner0 THEN {"creator"} ELSE
                         IF r \in Users THEN {} ELSE {"translator"}
  BY <1>1 DEF There, Absent
<1>7. \A r \in Rows : ~There(row[r]) => row[r] = Absent
  BY <1>1 DEF There
<1>8. RowsRight(row)
  BY <1>6, <1>7, MembersAssumption DEF RowsRight, Rows
<1>9. OwnerRight(row, Owner0)
  <2>1. row[Owner0].user = Owner0 /\ row[Owner0].status = "active"
    BY <1>1, <1>2
  <2>2. \A r \in Rows : There(row[r]) => ("creator" \in row[r].tags <=> row[r].user = Owner0)
    BY <1>6, MembersAssumption
  <2> QED BY <1>2, <2>1, <2>2 DEF OwnerRight
<1>10. \A k \in Workers : JobRight(row, Owner0, req[k])
  BY <1>2, IdleRight
<1> QED BY <1>2, <1>4, <1>5, <1>8, <1>9, <1>10 DEF Unscarred

LEMMA ScarsGrow == [MembersNext]_memberVars /\ scars' = {} => scars = {}
<1> SUFFICES ASSUME [MembersNext]_memberVars, scars' = {} PROVE scars = {}
  OBVIOUS
<1>1. \A rs : AfterReading(rs) = {} => scars = {}
  BY DEF AfterReading
<1>2. CASE UNCHANGED memberVars \/ ClearStarts \/ ClearFails
  BY <1>2 DEF memberVars, ClearStarts, ClearFails
<1>3. ASSUME NEW k \in Workers, Step(k) PROVE scars = {}
  <2>1. CASE Start(k) \/ CheckAdd(k) \/ CheckBind(k)
    <3>1. CASE Start(k)
      <4>1. \E a, b \in Rows : scars' = AfterReading({a, b})
        BY <3>1 DEF Start
      <4> QED BY <1>1, <4>1
    <3>2. CASE CheckAdd(k)
      BY <1>1, <3>2 DEF CheckAdd
    <3>3. CASE CheckBind(k)
      BY <1>1, <3>3 DEF CheckBind
    <3> QED BY <2>1, <3>1, <3>2, <3>3
  <2>2. CASE CheckTransfer(k)
    BY <1>1, <2>2 DEF CheckTransfer
  <2>3. CASE Load(k) \/ Refuse(k) \/ CheckRename(k) \/ CheckTags(k) \/ CheckRemove(k)
             \/ CheckRestore(k) \/ CheckDelete(k) \/ CheckMerge(k)
    BY <2>3 DEF Load, Refuse, CheckRename, CheckTags, CheckRemove, CheckRestore, CheckDelete,
                CheckMerge
  <2>4. CASE BindMerge(k) \/ Erase(k) \/ Die(k)
    BY <2>4 DEF BindMerge, Erase, Die
  <2>5. CASE Write(k) \/ Insert(k) \/ BindWrite(k) \/ WriteFirst(k) \/ WriteSecond(k)
             \/ Commit(k) \/ UndoFirst(k) \/ UndoSecond(k)
    BY <2>5 DEF Write, Insert, BindWrite, WriteFirst, WriteSecond, Commit, UndoFirst, UndoSecond
  <2> QED BY <1>3, <2>1, <2>2, <2>3, <2>4, <2>5 DEF Step
<1> QED BY <1>2, <1>3 DEF MembersNext

LEMMA StepUnscarred ==
    ASSUME TypeInv, TypeInv', Unscarred(row, req, project.owner), NEW k \in Workers,
           Step(k), scars' = {}
    PROVE  Unscarred(row', req', project'.owner)
<1>1. CASE Start(k) \/ Load(k) \/ Refuse(k) \/ Die(k)
  BY <1>1, Starts, Loads, Ends
<1>2. CASE CheckRename(k) \/ CheckTags(k) \/ CheckRemove(k) \/ CheckRestore(k)
  BY <1>2, WriteChecks
<1>3. CASE CheckAdd(k) \/ CheckDelete(k) \/ CheckBind(k) \/ CheckMerge(k) \/ CheckTransfer(k)
  BY <1>3, AddChecks, DeleteChecks, BindChecks, MergeChecks, TransferChecks
<1>4. CASE Write(k) \/ Insert(k) \/ BindWrite(k) \/ BindMerge(k) \/ Erase(k)
  BY <1>4, Writes, Inserts, BindWrites, BindMerges, Erases
<1>5. CASE WriteFirst(k) \/ WriteSecond(k) \/ Commit(k) \/ UndoFirst(k) \/ UndoSecond(k)
  BY <1>5, FirstWrites, SecondWrites, Commits, FirstUndone, SecondUndone
<1> QED BY <1>1, <1>2, <1>3, <1>4, <1>5 DEF Step

\* IndInv is inductive.
LEMMA Inductive == IndInv /\ [MembersNext]_memberVars => IndInv'
<1> SUFFICES ASSUME IndInv, [MembersNext]_memberVars PROVE IndInv'
  OBVIOUS
<1>1. TypeInv /\ TypeInv'
  BY NextType DEF IndInv
<1>2. ASSUME scars' = {} PROVE Unscarred(row', req', project'.owner)
  <2>1. Unscarred(row, req, project.owner)
    BY <1>2, ScarsGrow DEF IndInv, Committed
  <2>2. CASE UNCHANGED memberVars
    BY <2>1, <2>2 DEF memberVars
  <2>3. CASE ClearStarts \/ ClearFails
    BY <1>1, <2>1, <2>3, Clears
  <2>4. ASSUME NEW k \in Workers, Step(k) PROVE Unscarred(row', req', project'.owner)
    BY <1>1, <1>2, <2>1, <2>4, StepUnscarred
  <2> QED BY <2>2, <2>3, <2>4 DEF MembersNext
<1> QED BY <1>1, <1>2 DEF IndInv, Committed

LEMMA InitInductive == MembersInit => IndInv
BY InitType, InitRight DEF IndInv, Committed

(***************************************************************************)
(* What it implies                                                       *)
(***************************************************************************)
LEMMA NothingLost == IndInv => MembersInv
<1> SUFFICES ASSUME IndInv, scars = {}, NEW k \in Workers
             PROVE  LET q == req[k] IN
                    /\ q.pc \in {"write", "bindWrite", "first"} /\ Exists(q.a)
                         /\ q.oldA.status # "absent" => (Current(q.a, q.expA) => row[q.a] = q.oldA)
                    /\ q.pc \in {"first", "second"} /\ Current(q.b, q.expB) => row[q.b] = q.oldB
  BY DEF IndInv, TypeInv, MembersInv, NoLostUpdate
<1>1. TypeInv /\ Unscarred(row, req, project.owner)
  BY DEF IndInv, Committed
<1> QED BY <1>1, WriteCurrent, SecondCurrent DEF There

\* A row that is frozen by no transfer says who the owner is.
LEMMA TagOfOwner ==
    ASSUME IndInv, scars = {}, ~Transferring, NEW r \in Rows
    PROVE  "creator" \in row[r].tags <=> IsActive(row[r]) /\ row[r].user = project.owner
<1> DEFINE B == Base(row, req)
           o == project.owner
<1>1. TypeInv /\ Unscarred(row, req, o)
  BY DEF IndInv, Committed
<1>2. RowsRight(row) /\ OwnerRight(B, o) /\ FrozenRight(row, req)
  BY <1>1, Before
<1>3. There(row[r]) /\ row[r].user = o => row[r].status = "active"
  BY <1>1, OwnersRow
<1>4. CASE ~Frozen(req, r)
  <2>1. B[r] = row[r]
    BY <1>1, <1>4, BaseFacts, Before
  <2>2. CASE There(row[r])
    BY <1>2, <1>3, <2>1, <2>2 DEF OwnerRight, IsActive, There
  <2>3. CASE ~There(row[r])
    BY <1>2, <2>3 DEF RowsRight, Absent, IsActive
  <2> QED BY <2>2, <2>3
<1>5. CASE Frozen(req, r)
  <2>1. PICK k \in Workers : r \in Froze(req[k])
    BY <1>5 DEF Frozen
  <2> DEFINE q == req[k]
  <2>2. q.pc \in {"second", "commit", "undoA", "undoB"}
    BY <2>1, FrozeNothing
  <2>3. /\ PairRight(o, q) /\ q.oldA \in Row /\ q.tags \in SUBSET Tags
        /\ Snap(q, q.a) = q.oldA /\ NewTags(q, q.a) = q.tags
        /\ row[r] = Half(q, r)
    BY <1>1, <2>1, <2>2, PairFacts DEF Pairing
  <2>4. q.op = "merge"
    BY <2>2, <2>3 DEF Transferring, HalfWritten, PairRight
  <2>5. r = q.a
    BY <2>1, <2>2, <2>3, <2>4 DEF Froze, PairRight
  <2>6. "creator" \notin q.tags /\ q.oldA.user # o
    BY <2>2, <2>3, <2>4 DEF PairRight
  <2>7. row[r].tags = q.tags /\ row[r].user = q.oldA.user
    BY <2>3, <2>5, HalfFields
  <2> QED BY <2>6, <2>7
<1> QED BY <1>4, <1>5

LEMMA OwnerStands == IndInv => OwnerBreaksOnlyByScars
<1> SUFFICES ASSUME IndInv, scars = {} PROVE OwnerHolds /\ HasRow(project.owner)
  BY DEF OwnerBreaksOnlyByScars
<1>1. OwnerHolds
  BY TagOfOwner DEF OwnerHolds
<1>2. HasRow(project.owner)
  <2>1. TypeInv /\ Unscarred(row, req, project.owner)
    BY DEF IndInv, Committed
  <2>2. PICK s \in Rows : /\ Base(row, req)[s].user = project.owner
                          /\ Base(row, req)[s].status = "active"
    BY <2>1, Before DEF OwnerRight
  <2> QED BY <2>1, <2>2, Before DEF HasRow, Exists
<1> QED BY <1>1, <1>2

\* What the two theorems rest on: the committed rows are right, and every
\* handler is right about them, until one of the three scars appears.
THEOREM CommittedRowsRight == MembersSpec => []IndInv
BY InitInductive, Inductive, PTL DEF MembersSpec

\* Optimistic locking loses no update in any project: as long as no request
\* has acted on a half-written row, written without a condition or died
\* between two writes, a row that still has the version a request named is
\* the row the request has read.
THEOREM NoUpdateLost == MembersSpec => []MembersInv
BY CommittedRowsRight, NothingLost, PTL

\* Until then the owner of the project is an active member and the only one
\* with the creator tag, whenever no transfer is half written.
THEOREM OwnerKeepsProject == MembersSpec => []OwnerBreaksOnlyByScars
BY CommittedRowsRight, OwnerStands, PTL

(***************************************************************************)
(* The codes in the mail.  For a box none of whose windows has been hit: *)
(* one request at a time asks for a code (OneAsker); it has found the    *)
(* record there is, and nobody else replaces it (KnowsRecord); a mail that*)
(* is being sent has the code on record or one that is used up           *)
(* (SendsCurrent), which needs that a record is stamped after its mail is*)
(* queued (SentBeforeStamp).  So the mail that arrived last is the code on*)
(* record, or another mail is still to come or to be refused (LatestKnown).*)
(***************************************************************************)
Codes == [id : Nat, content : Nat, cold : BOOLEAN, mailed : BOOLEAN, valid : BOOLEAN, wrong : Nat]
Verdicts == [does : {"keep", "delete", "count"}, passes : BOOLEAN, seen : Codes]
Mails == [box : Boxes, id : Nat, content : Nat]
AskPlaces == {"idle", "save", "send", "stamp", "check", "judge"}
AllGoals == {None} \cup {<<p, a>> : p \in {"confirm", "password"}, a \in Addresses}
              \cup {<<"move", a, m>> : a \in Addresses, m \in Addresses}
Asks == [at : AskPlaces, box : Boxes \cup {None}, id : Nat, content : Nat, checks : Seq(Boxes),
         passed : BOOLEAN, goal : AllGoals, verdict : Verdicts]

MailTypeOK ==
  /\ registered \subseteq Addresses
  /\ code \in [Boxes -> Seq(Codes)]
  /\ queued \subseteq Mails /\ sending \in Mails \cup {NoMail}
  /\ inbox \in [Boxes -> Nat]
  /\ ask \in [Requests -> Asks]
  /\ told \in [codes : Nat, answers : Nat]
  /\ \A r \in Requests : ask[r].at # "idle" /\ ask[r].at # "check" => ask[r].box \in Boxes

AsksCode(r) == ask[r].at \in {"save", "send", "stamp"}
AsksFor(r, b) == ask[r].box = b /\ AsksCode(r)
Letters == queued \cup {sending}

\* Every number given so far is one of told.codes.
Numbered ==
  /\ \A r \in Requests : ask[r].id <= told.codes /\ ask[r].content <= told.codes
  /\ \A b \in Boxes : \A i \in DOMAIN code[b] : code[b][i].id <= told.codes /\ code[b][i].id # 0
  /\ \A m \in Letters : m.id <= told.codes /\ m.content <= told.codes

\* What a request is about to save, or has saved and not sent, nobody else has.
Fresh(r) ==
  /\ ask[r].content # 0
  /\ \A m \in Letters : m.content # ask[r].content
  /\ \A q \in Requests \ {r} : AsksCode(q) => ask[q].content # ask[r].content
UnusedId(r) ==
  /\ \A m \in Letters : m.id # ask[r].content
  /\ \A q \in Requests \ {r} : AsksCode(q) => ask[q].id # ask[r].content
  /\ \A b \in Boxes : \A i \in DOMAIN code[b] : code[b][i].id # ask[r].content
Freshness ==
  \A r \in Requests :
    /\ ask[r].at \in {"save", "send"} => Fresh(r)
    /\ ask[r].at = "save" => UnusedId(r)

HasCode(b) == code[b] # <<>>
Holds(b, id, content) == HasCode(b) /\ code[b][1].id = id /\ code[b][1].content = content
OneAsker(b) ==
  /\ Len(code[b]) <= 1
  /\ \A r, q \in Requests : AsksFor(r, b) /\ AsksFor(q, b) => r = q

\* A request that is about to save has found the record there is, whose minute
\* is over; one that has saved is the last one to have done so.
KnowsRecord(b) ==
  \A r \in Requests : ask[r].box = b /\ HasCode(b) =>
    /\ ask[r].at = "save" =>
         code[b][1].id = ask[r].id /\ ask[r].id # 0 /\ ~ code[b][1].cold
    /\ ask[r].at \in {"send", "stamp"} => Holds(b, ask[r].id, ask[r].content)

\* The mail with the code on record goes out before the record is stamped.
Stamping(b) == \E r \in Requests : ask[r].box = b /\ ask[r].at = "stamp"
SentBeforeStamp(b) ==
  \A m \in Letters : m.box = b /\ Holds(b, m.id, m.content) => code[b][1].mailed \/ Stamping(b)

\* A mail being sent has the code on record, or one that is used up.
SendsCurrent(b) ==
  sending.box = b /\ sending.content \notin spent =>
    /\ Holds(b, sending.id, sending.content)
    /\ code[b][1].cold \/ ~ code[b][1].mailed
    /\ \A r \in Requests : ask[r].box = b => ask[r].at # "save"

\* A mail will arrive, or be reported as unsent.
Sending(b) == \E r \in Requests : ask[r].box = b /\ ask[r].at = "send"
Concerns(m, b) == m.box = b /\ (HasCode(b) /\ code[b][1].id = m.id => code[b][1].content = m.content)
Pending(b) == Sending(b) \/ \E m \in Letters : Concerns(m, b)
Works(b) == HasCode(b) /\ code[b][1].content = inbox[b]
LatestKnown(b) == b \notin unsent => inbox[b] \in {0} \cup spent \/ Works(b) \/ Pending(b)

Sharp(b) == OneAsker(b) /\ KnowsRecord(b) /\ SentBeforeStamp(b) /\ SendsCurrent(b) /\ LatestKnown(b)
MailIInv == MailTypeOK /\ Numbered /\ Freshness /\ \A b \in Boxes \ blurred : Sharp(b)

\* Sequences with one element at the most, and what the steps do to records.
LEMMA OneRecord ==
  ASSUME NEW s \in Seq(Codes), Len(s) <= 1
  PROVE  /\ s # <<>> => DOMAIN s = {1} /\ s[1] \in Codes /\ Len(s) = 1
         /\ \A id : (\E i \in DOMAIN s : s[i].id = id) <=> (s # <<>> /\ s[1].id = id)
         /\ \A id : s # <<>> /\ s[1].id = id => (CHOOSE d \in Range(s) : d.id = id) = s[1]
<1>1. DOMAIN s = 1 .. Len(s) /\ Len(s) \in Nat
  OBVIOUS
<1>2. s # <<>> => Len(s) = 1
  <2> SUFFICES ASSUME s # <<>> PROVE Len(s) = 1
    OBVIOUS
  <2>1. Len(s) # 0
    BY EmptySeq
  <2> QED
    BY <1>1, <2>1
<1>3. s # <<>> => DOMAIN s = {1} /\ s[1] \in Codes
  BY <1>1, <1>2
<1>4. s = <<>> => DOMAIN s = {}
  OBVIOUS
<1>5. s # <<>> => Range(s) = {s[1]}
  BY <1>3 DEF Range
<1>6. \A id : s # <<>> /\ s[1].id = id => (CHOOSE d \in Range(s) : d.id = id) = s[1]
  BY <1>5
<1> QED
  BY <1>2, <1>3, <1>4, <1>6

LEMMA RevisedRecords ==
  ASSUME NEW s \in Seq(Codes), NEW d \in Codes, NEW id
  PROVE  LET t == [i \in DOMAIN s |-> IF s[i].id = id THEN d ELSE s[i]]
         IN /\ t \in Seq(Codes) /\ Len(t) = Len(s) /\ DOMAIN t = DOMAIN s
            /\ \A i \in DOMAIN s : t[i] = IF s[i].id = id THEN d ELSE s[i]
            /\ t = <<>> <=> s = <<>>
<1> DEFINE t == [i \in DOMAIN s |-> IF s[i].id = id THEN d ELSE s[i]]
<1>1. DOMAIN s = 1 .. Len(s) /\ Len(s) \in Nat /\ \A i \in DOMAIN s : s[i] \in Codes
  OBVIOUS
<1>2. t \in [1 .. Len(s) -> Codes]
  BY <1>1
<1>3. t \in Seq(Codes) /\ Len(t) = Len(s) /\ DOMAIN t = DOMAIN s
  BY <1>1, <1>2
<1>4. t = <<>> <=> s = <<>>
  BY <1>3, EmptySeq
<1> QED
  BY <1>3, <1>4

LEMMA RemovedRecord ==
  ASSUME NEW s \in Seq(Codes), NEW i \in DOMAIN s
  PROVE  /\ RemoveAt(s, i) \in Seq(Codes)
         /\ \A k \in DOMAIN RemoveAt(s, i) : \E j \in DOMAIN s : RemoveAt(s, i)[k] = s[j]
         /\ Len(RemoveAt(s, i)) = Len(s) - 1
<1> DEFINE a == SubSeq(s, 1, i-1)
           z == SubSeq(s, i+1, Len(s))
<1>1. DOMAIN s = 1 .. Len(s) /\ Len(s) \in Nat /\ i \in 1 .. Len(s)
  OBVIOUS
<1>2. a \in Seq(Codes) /\ Len(a) = i - 1 /\ \A k \in 1 .. i-1 : a[k] = s[k]
  BY <1>1, SubSeqProperties
<1>3. z \in Seq(Codes) /\ Len(z) = Len(s) - i /\ \A k \in 1 .. (Len(s) - i) : z[k] = s[i + k]
  BY <1>1, SubSeqProperties
<1> HIDE DEF a, z
<1>4. /\ a \o z \in Seq(Codes) /\ Len(a \o z) = Len(a) + Len(z)
      /\ \A k \in 1 .. Len(a) + Len(z) : (a \o z)[k] = IF k <= Len(a) THEN a[k] ELSE z[k - Len(a)]
  BY <1>2, <1>3, ConcatProperties
<1>5. ASSUME NEW k \in 1 .. Len(a) + Len(z) PROVE \E j \in DOMAIN s : (a \o z)[k] = s[j]
  <2>1. CASE k <= Len(a)
    <3>1. k \in 1 .. i-1 /\ k \in DOMAIN s
      BY <2>1, <1>1, <1>2, <1>3
    <3> QED
      BY <2>1, <3>1, <1>2, <1>4
  <2>2. CASE ~ (k <= Len(a))
    <3>1. k - Len(a) \in 1 .. (Len(s) - i) /\ i + (k - Len(a)) \in DOMAIN s
      BY <2>2, <1>1, <1>2, <1>3
    <3> QED
      BY <2>2, <3>1, <1>3, <1>4
  <2> QED
    BY <2>1, <2>2
<1>6. RemoveAt(s, i) = a \o z
  BY DEF RemoveAt, a, z
<1>7. Len(a) + Len(z) = Len(s) - 1
  BY <1>1, <1>2, <1>3
<1>8. DOMAIN (a \o z) = 1 .. Len(a) + Len(z)
  BY <1>4
<1> QED
  BY <1>4, <1>5, <1>6, <1>7, <1>8

LEMMA AddedRecord ==
  ASSUME NEW s \in Seq(Codes), NEW d \in Codes
  PROVE  /\ Append(s, d) \in Seq(Codes) /\ Len(Append(s, d)) = Len(s) + 1
         /\ DOMAIN Append(s, d) = 1 .. Len(s) + 1 /\ DOMAIN s = 1 .. Len(s)
         /\ Append(s, d)[Len(s) + 1] = d /\ Append(s, d) # <<>>
         /\ \A i \in DOMAIN s : Append(s, d)[i] = s[i]
BY AppendProperties, EmptySeq

\* One field of the first record.
LEMMA FirstRecord ==
  ASSUME NEW s \in Seq(Codes), s # <<>>, NEW d \in Codes
  PROVE  LET t == [s EXCEPT ![1] = d]
         IN /\ s[1] \in Codes /\ 1 \in DOMAIN s
            /\ t \in Seq(Codes) /\ Len(t) = Len(s) /\ DOMAIN t = DOMAIN s
            /\ t[1] = d /\ t # <<>> /\ \A i \in DOMAIN s : i # 1 => t[i] = s[i]
<1> DEFINE t == [s EXCEPT ![1] = d]
<1>1. DOMAIN s = 1 .. Len(s) /\ Len(s) \in Nat /\ Len(s) # 0
  BY EmptySeq
<1>2. 1 \in DOMAIN s /\ s[1] \in Codes
  BY <1>1
<1>3. t \in Seq(Codes) /\ Len(t) = Len(s) /\ DOMAIN t = DOMAIN s
  BY <1>1, <1>2
<1>4. t # <<>>
  BY <1>1, <1>3
<1> QED
  BY <1>2, <1>3, <1>4

LEMMA NoCodes ==
  /\ NoRecord \in Codes /\ NoVerdict \in Verdicts /\ Waiting \in Asks
  /\ Waiting.at = "idle" /\ Waiting.id = 0 /\ Waiting.content = 0 /\ Waiting.box = None
  /\ None \notin Boxes /\ NoMail.box = None /\ NoMail.id = 0 /\ NoMail.content = 0
<1>1. NoRecord \in Codes
  BY DEF NoRecord, Codes
<1>2. NoVerdict \in Verdicts
  BY <1>1 DEF NoVerdict, Verdicts
<1>3. <<>> \in Seq(Boxes) /\ None \in AllGoals /\ "idle" \in AskPlaces
  BY DEF AllGoals, AskPlaces
<1>4. Waiting \in Asks
  BY <1>2, <1>3 DEF Waiting, Asks
<1>5. None \notin Boxes
  BY DEF None, Boxes
<1> QED
  BY <1>1, <1>2, <1>4, <1>5 DEF Waiting, NoMail

LEMMA AskFacts ==
  ASSUME MailTypeOK, NEW r \in Requests
  PROVE  /\ ask[r] \in Asks /\ ask[r].id \in Nat /\ ask[r].content \in Nat
         /\ ask[r].at \in AskPlaces /\ ask[r].box \in Boxes \cup {None}
         /\ ask[r].checks \in Seq(Boxes) /\ ask[r].passed \in BOOLEAN
         /\ ask[r].goal \in AllGoals /\ ask[r].verdict \in Verdicts
         /\ ask[r].verdict.seen \in Codes
         /\ ask[r].at # "idle" /\ ask[r].at # "check" => ask[r].box \in Boxes
BY DEF MailTypeOK, Asks, Verdicts

\* What a request remembers, one field or several at a time.
LEMMA AskTypes ==
  ASSUME NEW a \in Asks
  PROVE  /\ \A at \in AskPlaces : [a EXCEPT !.at = at] \in Asks
         /\ \A at \in AskPlaces, b \in Boxes, id \in Nat, c \in Nat :
              [a EXCEPT !.at = at, !.box = b, !.id = id, !.content = c] \in Asks
         /\ \A at \in AskPlaces, id \in Nat : [a EXCEPT !.at = at, !.id = id] \in Asks
         /\ \A at \in AskPlaces, checks \in Seq(Boxes), goal \in AllGoals :
              [a EXCEPT !.at = at, !.checks = checks, !.goal = goal] \in Asks
         /\ \A at \in AskPlaces, checks \in Seq(Boxes), goal \in AllGoals, p \in BOOLEAN :
              [a EXCEPT !.at = at, !.checks = checks, !.goal = goal, !.passed = p] \in Asks
         /\ \A checks \in Seq(Boxes), p \in BOOLEAN : [a EXCEPT !.checks = checks, !.passed = p] \in Asks
         /\ \A at \in AskPlaces, b \in Boxes, v \in Verdicts :
              [a EXCEPT !.at = at, !.box = b, !.verdict = v] \in Asks
BY DEF Asks

LEMMA AskUpdates ==
  ASSUME MailTypeOK, NEW r \in Requests, NEW a \in Asks, ask' = [ask EXCEPT ![r] = a],
         a.at # "idle" /\ a.at # "check" => a.box \in Boxes
  PROVE  /\ ask' \in [Requests -> Asks] /\ ask'[r] = a
         /\ \A q \in Requests \ {r} : ask'[q] = ask[q]
         /\ \A q \in Requests : ask'[q].at # "idle" /\ ask'[q].at # "check" => ask'[q].box \in Boxes
BY DEF MailTypeOK

\* The record a request looks for.
LEMMA StoredFacts ==
  ASSUME MailTypeOK, NEW b \in Boxes, NEW id, Stored(b, id)
  PROVE  Record(b, id) \in Codes /\ Record(b, id).id = id
<1>1. PICK i \in DOMAIN code[b] : code[b][i].id = id
  BY DEF Stored
<1>2. code[b][i] \in Range(code[b]) /\ code[b] \in Seq(Codes)
  BY <1>1 DEF Range, MailTypeOK
<1>3. Record(b, id) \in Range(code[b]) /\ Record(b, id).id = id
  BY <1>1, <1>2 DEF Record
<1>4. \A d \in Range(code[b]) : d \in Codes
  BY <1>2 DEF Range
<1> QED
  BY <1>3, <1>4

LEMMA OneStored ==
  ASSUME MailTypeOK, NEW b \in Boxes, Len(code[b]) <= 1
  PROVE  /\ \A id : Stored(b, id) <=> HasCode(b) /\ code[b][1].id = id
         /\ \A id : Stored(b, id) => Record(b, id) = code[b][1]
         /\ HasCode(b) => code[b][1] \in Codes /\ DOMAIN code[b] = {1}
         /\ \A m : m.box = b => (Newest(m) <=> Holds(b, m.id, m.content))
<1>1. code[b] \in Seq(Codes)
  BY DEF MailTypeOK
<1>2. \A id : Stored(b, id) <=> HasCode(b) /\ code[b][1].id = id
  BY <1>1, OneRecord DEF Stored, HasCode
<1>3. \A id : Stored(b, id) => Record(b, id) = code[b][1]
  BY <1>1, <1>2, OneRecord DEF Record, HasCode
<1>4. HasCode(b) => code[b][1] \in Codes /\ DOMAIN code[b] = {1}
  BY <1>1, OneRecord DEF HasCode
<1>5. \A m : m.box = b => (Newest(m) <=> Holds(b, m.id, m.content))
  BY <1>2, <1>3 DEF Newest, Holds
<1> QED
  BY <1>2, <1>3, <1>4, <1>5

\* A record that has been found is written again.
LEMMA Revised ==
  ASSUME MailTypeOK, NEW b \in Boxes, NEW id, NEW d \in Codes
  PROVE  /\ Revise(b, id, d) \in [Boxes -> Seq(Codes)]
         /\ \A o \in Boxes \ {b} : Revise(b, id, d)[o] = code[o]
         /\ Len(Revise(b, id, d)[b]) = Len(code[b])
         /\ DOMAIN Revise(b, id, d)[b] = DOMAIN code[b]
         /\ \A i \in DOMAIN code[b] :
              Revise(b, id, d)[b][i] = IF code[b][i].id = id THEN d ELSE code[b][i]
         /\ Revise(b, id, d)[b] = <<>> <=> code[b] = <<>>
<1> DEFINE t == [i \in DOMAIN code[b] |-> IF code[b][i].id = id THEN d ELSE code[b][i]]
<1>1. code \in [Boxes -> Seq(Codes)] /\ code[b] \in Seq(Codes)
  BY DEF MailTypeOK
<1>2. Revise(b, id, d) = [code EXCEPT ![b] = t]
  BY DEF Revise
<1>3. /\ t \in Seq(Codes) /\ Len(t) = Len(code[b]) /\ DOMAIN t = DOMAIN code[b]
      /\ \A i \in DOMAIN code[b] : t[i] = IF code[b][i].id = id THEN d ELSE code[b][i]
      /\ t = <<>> <=> code[b] = <<>>
  BY <1>1, RevisedRecords
<1> HIDE DEF t
<1> QED
  BY <1>1, <1>2, <1>3

LEMMA Forgotten ==
  ASSUME MailTypeOK, NEW b \in Boxes, NEW id, Stored(b, id)
  PROVE  /\ Forget(b, id) \in [Boxes -> Seq(Codes)]
         /\ \A o \in Boxes \ {b} : Forget(b, id)[o] = code[o]
         /\ Len(Forget(b, id)[b]) = Len(code[b]) - 1
         /\ \A i \in DOMAIN Forget(b, id)[b] : \E j \in DOMAIN code[b] : Forget(b, id)[b][i] = code[b][j]
<1> DEFINE k == CHOOSE i \in DOMAIN code[b] : code[b][i].id = id
           t == RemoveAt(code[b], k)
<1>1. code \in [Boxes -> Seq(Codes)] /\ code[b] \in Seq(Codes)
  BY DEF MailTypeOK
<1>2. k \in DOMAIN code[b]
  BY DEF Stored
<1>3. Forget(b, id) = [code EXCEPT ![b] = t]
  BY DEF Forget
<1> HIDE DEF k
<1>4. /\ t \in Seq(Codes) /\ Len(t) = Len(code[b]) - 1
      /\ \A i \in DOMAIN t : \E j \in DOMAIN code[b] : t[i] = code[b][j]
  BY <1>1, <1>2, RemovedRecord
<1> HIDE DEF t
<1> QED
  BY <1>1, <1>3, <1>4

LEMMA MailInitInv == MailInit => MailIInv
<1> SUFFICES ASSUME MailInit PROVE MailIInv
  OBVIOUS
<1>1. \A b \in Boxes : code[b] = <<>> /\ inbox[b] = 0
  BY DEF MailInit
<1>2. \A r \in Requests : ask[r] = Waiting
  BY DEF MailInit
<1>3. /\ sending = NoMail /\ queued = {} /\ told = [codes |-> 0, answers |-> 0]
      /\ registered \subseteq Addresses
  BY DEF MailInit
<1>4. MailTypeOK
  <2>1. code \in [Boxes -> Seq(Codes)]
    BY DEF MailInit
  <2> QED
    BY <2>1, <1>2, <1>3, NoCodes DEF MailTypeOK, MailInit
<1>5. Numbered
  BY <1>1, <1>2, <1>3, NoCodes DEF Numbered, Letters
<1>6. Freshness
  BY <1>2, NoCodes DEF Freshness
<1>7. ASSUME NEW b \in Boxes PROVE Sharp(b)
  <2>1. OneAsker(b)
    BY <1>1, <1>2, NoCodes DEF OneAsker, AsksFor, AsksCode
  <2>2. KnowsRecord(b) /\ SentBeforeStamp(b)
    BY <1>1 DEF KnowsRecord, SentBeforeStamp, Holds, HasCode
  <2>3. SendsCurrent(b)
    BY <1>3, NoCodes DEF SendsCurrent
  <2>4. LatestKnown(b)
    BY <1>1 DEF LatestKnown
  <2> QED
    BY <2>1, <2>2, <2>3, <2>4 DEF Sharp
<1> QED
  BY <1>4, <1>5, <1>6, <1>7 DEF MailIInv

\* The steps that look at a code or leave the mail alone, seen from the codes:
\* only one request's memory changes, and it asks for no code.
Looks(r) ==
  /\ r \in Requests /\ ask' = [ask EXCEPT ![r] = ask'[r]]
  /\ ask'[r] \in Asks /\ ask'[r].id \in {0, ask[r].id} /\ ask'[r].content \in {0, ask[r].content}
  /\ ask'[r].at \in {"idle", "check", "judge"} /\ ask[r].at \in {"idle", "check", "judge"}
  /\ ask'[r].at = "judge" => ask'[r].box \in Boxes
  /\ told' \in [codes : Nat, answers : Nat] /\ told'.codes = told.codes
  /\ UNCHANGED <<queued, sending, inbox, unsent>>

LEMMA GoalChecks ==
  ASSUME MailTypeOK, NEW goal \in Goals
  PROVE  goal \in AllGoals /\ Checks(goal) \in Seq(Boxes)
<1>1. CASE goal \in {<<"confirm", a>> : a \in Addresses \ registered}
  <2>1. PICK a \in Addresses : goal = <<"confirm", a>>
    BY <1>1
  <2>2. <<goal[1], goal[2]>> \in Boxes /\ goal[1] # "move"
    BY <2>1 DEF Boxes
  <2>3. Checks(goal) = <<<<goal[1], goal[2]>>>>
    BY <2>2 DEF Checks
  <2>4. goal \in AllGoals
    BY <2>1 DEF AllGoals
  <2> QED
    BY <2>2, <2>3, <2>4
<1>2. CASE goal \in {<<"password", a>> : a \in registered}
  <2>1. PICK a \in Addresses : goal = <<"password", a>>
    BY <1>2 DEF MailTypeOK
  <2>2. <<goal[1], goal[2]>> \in Boxes /\ goal[1] # "move"
    BY <2>1 DEF Boxes
  <2>3. Checks(goal) = <<<<goal[1], goal[2]>>>>
    BY <2>2 DEF Checks
  <2>4. goal \in AllGoals
    BY <2>1 DEF AllGoals
  <2> QED
    BY <2>2, <2>3, <2>4
<1>3. CASE goal \in {<<"move", a, m>> : a \in registered, m \in Addresses \ registered}
  <2>1. PICK a \in Addresses, m \in Addresses : goal = <<"move", a, m>>
    BY <1>3 DEF MailTypeOK
  <2>2. <<"reset", goal[2]>> \in Boxes /\ <<"confirm", goal[3]>> \in Boxes /\ goal[1] = "move"
    BY <2>1 DEF Boxes
  <2>3. Checks(goal) = <<<<"reset", goal[2]>>, <<"confirm", goal[3]>>>>
    BY <2>2 DEF Checks
  <2>4. goal \in AllGoals
    BY <2>1 DEF AllGoals
  <2> QED
    BY <2>2, <2>3, <2>4
<1> QED
  BY <1>1, <1>2, <1>3 DEF Goals

LEMMA SubmitLooks ==
  ASSUME MailTypeOK, NEW r \in Requests, NEW goal \in Goals, Submit(r, goal)
  PROVE  Looks(r) /\ UNCHANGED <<registered, code, spent, blurred>>
<1>1. goal \in AllGoals /\ Checks(goal) \in Seq(Boxes)
  BY GoalChecks
<1> DEFINE a == [Waiting EXCEPT !.at = "check", !.checks = Checks(goal), !.goal = goal]
<1>2. a \in Asks
  BY <1>1, NoCodes, AskTypes DEF AskPlaces
<1>3. a.at = "check" /\ a.id = 0 /\ a.content = 0
  BY DEF Waiting
<1>4. ask' = [ask EXCEPT ![r] = a] /\ ask'[r] = a
  BY DEF Submit, MailTypeOK
<1>5. told' \in [codes : Nat, answers : Nat] /\ told'.codes = told.codes
  BY DEF Submit, MailTypeOK
<1> QED
  BY <1>2, <1>3, <1>4, <1>5 DEF Submit, Looks

LEMMA NothingLooks ==
  ASSUME MailTypeOK, NEW r \in Requests, NothingStored(r)
  PROVE  Looks(r) /\ UNCHANGED <<registered, code, spent, blurred>>
<1> DEFINE a == [ask[r] EXCEPT !.checks = Tail(ask[r].checks), !.passed = FALSE]
<1>1. ask[r] \in Asks /\ ask[r].checks \in Seq(Boxes) /\ ask[r].checks # <<>> /\ ask[r].at = "check"
  BY AskFacts DEF NothingStored, CodeChecking
<1>2. Tail(ask[r].checks) \in Seq(Boxes)
  BY <1>1
<1>3. a \in Asks
  BY <1>1, <1>2, AskTypes
<1>4. a.at = ask[r].at /\ a.id = ask[r].id /\ a.content = ask[r].content
  BY <1>1 DEF Asks
<1>5. ask' = [ask EXCEPT ![r] = a] /\ ask'[r] = a
  BY DEF NothingStored, MailTypeOK
<1>6. told' \in [codes : Nat, answers : Nat] /\ told'.codes = told.codes
  BY DEF NothingStored, MailTypeOK
<1> QED
  BY <1>1, <1>3, <1>4, <1>5, <1>6 DEF NothingStored, Looks

LEMMA ReadLooks ==
  ASSUME MailTypeOK, NEW r \in Requests, NEW typed, ReadCode(r, typed)
  PROVE  Looks(r) /\ UNCHANGED <<registered, code, spent, blurred>>
<1> DEFINE b == Head(ask[r].checks)
           d == code[b][1]
           v == IF ~ d.valid THEN Deletion(d)
                ELSE IF typed = d.content THEN Correct(ask[r].goal, d)
                ELSE Mistaken(d)
           a == [ask[r] EXCEPT !.at = "judge", !.box = b, !.verdict = v]
<1>1. ask[r] \in Asks /\ ask[r].checks \in Seq(Boxes) /\ ask[r].checks # <<>> /\ ask[r].at = "check"
  BY AskFacts DEF ReadCode, CodeChecking
<1>2. b \in Boxes
  BY <1>1
<1>3. code[b] \in Seq(Codes) /\ code[b] # <<>>
  BY <1>2 DEF ReadCode, MailTypeOK
<1>4. d \in Codes
  BY <1>3
<1>5. v \in Verdicts
  BY <1>4 DEF Deletion, Correct, Mistaken, Verdicts
<1>6. a \in Asks /\ a.at = "judge" /\ a.id = ask[r].id /\ a.content = ask[r].content /\ a.box = b
  <2> HIDE DEF v
  <2>1. a \in Asks
    BY <1>1, <1>2, <1>5, AskTypes DEF AskPlaces
  <2> QED
    BY <1>1, <2>1 DEF Asks
<1>7. ask' = [ask EXCEPT ![r] = a] /\ ask'[r] = a
  BY DEF ReadCode, MailTypeOK
<1>8. told' \in [codes : Nat, answers : Nat] /\ told'.codes = told.codes
  BY DEF ReadCode, MailTypeOK
<1> HIDE DEF a, v
<1>9. UNCHANGED <<registered, code, queued, sending, inbox, spent, unsent, told, blurred>>
  BY DEF ReadCode
<1> QED
  BY <1>1, <1>2, <1>6, <1>7, <1>8, <1>9 DEF Looks

LEMMA EndLooks ==
  ASSUME MailTypeOK, NEW r \in Requests, EndCheck(r)
  PROVE  /\ Looks(r) /\ UNCHANGED <<code, spent, blurred>>
         /\ registered' \subseteq Addresses
<1>1. ask' = [ask EXCEPT ![r] = Waiting] /\ ask'[r] = Waiting /\ ask[r].at = "check"
  BY DEF EndCheck, MailTypeOK
<1>2. told' \in [codes : Nat, answers : Nat] /\ told'.codes = told.codes
  BY DEF EndCheck, MailTypeOK
<1>3. Looks(r) /\ UNCHANGED <<code, spent, blurred>>
  BY <1>1, <1>2, NoCodes DEF EndCheck, Looks
<1>4. ask[r].goal \in AllGoals
  BY AskFacts
<1>5. Registered(ask[r].goal) \subseteq Addresses
  <2> DEFINE goal == ask[r].goal
  <2>1. goal[1] = "confirm" => goal[2] \in Addresses
    BY <1>4 DEF AllGoals, None
  <2>2. goal[1] = "move" => goal[3] \in Addresses
    BY <1>4 DEF AllGoals, None
  <2>3. registered \subseteq Addresses
    BY DEF MailTypeOK
  <2>4. CASE goal[1] = "confirm"
    BY <2>1, <2>3, <2>4 DEF Registered
  <2>5. CASE goal[1] = "move" /\ goal[3] \notin registered
    BY <2>2, <2>3, <2>5 DEF Registered
  <2>6. CASE goal[1] # "confirm" /\ ~ (goal[1] = "move" /\ goal[3] \notin registered)
    BY <2>3, <2>6 DEF Registered
  <2> QED
    BY <2>4, <2>5, <2>6
<1> QED
  BY <1>3, <1>5 DEF EndCheck, MailTypeOK

\* What the asking requests remember is as before.
LEMMA LooksFrame ==
  ASSUME MailTypeOK, NEW r, Looks(r)
  PROVE  /\ \A q \in Requests : \A p \in {"save", "send", "stamp"} :
              (ask'[q].at = p <=> ask[q].at = p) /\ (ask[q].at = p => ask'[q] = ask[q])
         /\ \A q \in Requests : AsksCode(q)' <=> AsksCode(q)
         /\ \A q \in Requests, b \in Boxes : AsksFor(q, b)' <=> AsksFor(q, b)
         /\ ask' \in [Requests -> Asks]
         /\ \A q \in Requests : ask'[q].id \in {0, ask[q].id} /\ ask'[q].content \in {0, ask[q].content}
         /\ \A q \in Requests : ask'[q].at # "idle" /\ ask'[q].at # "check" => ask'[q].box \in Boxes
         /\ Letters' = Letters
<1>1. r \in Requests /\ ask \in [Requests -> Asks] /\ ask' = [ask EXCEPT ![r] = ask'[r]] /\ ask'[r] \in Asks
  BY DEF Looks, MailTypeOK
<1>2. \A q \in Requests \ {r} : ask'[q] = ask[q]
  BY <1>1
<1>3. \A q \in Requests : \A p \in {"save", "send", "stamp"} :
              (ask'[q].at = p <=> ask[q].at = p) /\ (ask[q].at = p => ask'[q] = ask[q])
  BY <1>1, <1>2 DEF Looks
<1>4. \A q \in Requests : AsksCode(q)' <=> AsksCode(q)
  BY <1>3 DEF AsksCode
<1>5. \A q \in Requests, b \in Boxes : AsksFor(q, b)' <=> AsksFor(q, b)
  BY <1>3, <1>4 DEF AsksFor, AsksCode
<1>6. ask' \in [Requests -> Asks]
  BY <1>1
<1>7. \A q \in Requests : ask'[q].id \in {0, ask[q].id} /\ ask'[q].content \in {0, ask[q].content}
  BY <1>2 DEF Looks
<1>8. \A q \in Requests : ask'[q].at # "idle" /\ ask'[q].at # "check" => ask'[q].box \in Boxes
  BY <1>2 DEF Looks, MailTypeOK
<1>9. Letters' = Letters
  BY DEF Looks, Letters
<1> QED
  BY <1>3, <1>4, <1>5, <1>6, <1>7, <1>8, <1>9

NoNewIds == \A b \in Boxes : \A i \in DOMAIN code'[b] : \E j \in DOMAIN code[b] : code'[b][i].id = code[b][j].id

LEMMA LooksKeepNumbers ==
  ASSUME MailTypeOK, Numbered, Freshness, NEW r, Looks(r), NoNewIds,
         code' \in [Boxes -> Seq(Codes)], registered' \subseteq Addresses
  PROVE  MailTypeOK' /\ Numbered' /\ Freshness'
<1>1. MailTypeOK'
  BY LooksFrame DEF MailTypeOK, Looks
<1>2. Numbered'
  <2>1. \A q \in Requests : ask'[q].id <= told'.codes /\ ask'[q].content <= told'.codes
    <3> SUFFICES ASSUME NEW q \in Requests
                 PROVE  ask'[q].id <= told'.codes /\ ask'[q].content <= told'.codes
      OBVIOUS
    <3>1. ask[q].id <= told.codes /\ ask[q].content <= told.codes
      BY DEF Numbered
    <3>2. ask'[q].id \in {0, ask[q].id} /\ ask'[q].content \in {0, ask[q].content}
      BY LooksFrame
    <3>3. told'.codes = told.codes /\ told.codes \in Nat
      BY DEF Looks, MailTypeOK
    <3>4. 0 <= told.codes
      BY <3>3
    <3> QED
      BY <3>1, <3>2, <3>3, <3>4
  <2>2. \A b \in Boxes : \A i \in DOMAIN code'[b] : code'[b][i].id <= told'.codes /\ code'[b][i].id # 0
    BY DEF Numbered, Looks, NoNewIds
  <2>3. \A m \in Letters' : m.id <= told'.codes /\ m.content <= told'.codes
    BY LooksFrame DEF Numbered, Looks
  <2> QED
    BY <2>1, <2>2, <2>3 DEF Numbered
<1>3. Freshness'
  <2> SUFFICES ASSUME NEW q \in Requests
               PROVE  /\ ask'[q].at \in {"save", "send"} => Fresh(q)'
                      /\ ask'[q].at = "save" => UnusedId(q)'
    BY DEF Freshness
  <2>1. ASSUME ask'[q].at \in {"save", "send"} PROVE Fresh(q)'
    <3>1. ask'[q] = ask[q] /\ Fresh(q)
      BY <2>1, LooksFrame DEF Freshness
    <3>2. \A p \in Requests \ {q} : AsksCode(p)' => AsksCode(p) /\ ask'[p] = ask[p]
      BY LooksFrame DEF AsksCode
    <3> QED
      BY <3>1, <3>2, LooksFrame DEF Fresh
  <2>2. ASSUME ask'[q].at = "save" PROVE UnusedId(q)'
    <3>1. ask'[q] = ask[q] /\ UnusedId(q)
      BY <2>2, LooksFrame DEF Freshness
    <3>2. \A p \in Requests \ {q} : AsksCode(p)' => AsksCode(p) /\ ask'[p] = ask[p]
      BY LooksFrame DEF AsksCode
    <3>3. \A b \in Boxes : \A i \in DOMAIN code'[b] : code'[b][i].id # ask[q].content
      BY <3>1 DEF UnusedId, NoNewIds
    <3> QED
      BY <3>1, <3>2, <3>3, LooksFrame DEF UnusedId
  <2> QED
    BY <2>1, <2>2
<1> QED
  BY <1>1, <1>2, <1>3

\* The first record is the same but for what is counted on it, or it has been
\* used up.
Kept(b) ==
  /\ HasCode(b)' = HasCode(b) /\ Len(code'[b]) <= 1
  /\ HasCode(b) => /\ code'[b][1].id = code[b][1].id /\ code'[b][1].content = code[b][1].content
                   /\ code'[b][1].cold = code[b][1].cold /\ code'[b][1].mailed = code[b][1].mailed
UsedUp(b) == HasCode(b) /\ ~ HasCode(b)' /\ Len(code'[b]) <= 1 /\ code[b][1].content \in spent'

LEMMA LooksKeepSharp ==
  ASSUME MailTypeOK, NEW r, Looks(r), NEW b \in Boxes, Sharp(b), spent \subseteq spent', Kept(b) \/ UsedUp(b)
  PROVE  Sharp(b)'
<1>0. \A id, c : Holds(b, id, c)' => Holds(b, id, c)
  BY DEF Kept, UsedUp, Holds
<1>1. OneAsker(b)'
  BY LooksFrame DEF Sharp, OneAsker, Kept, UsedUp
<1>2. KnowsRecord(b)'
  <2> SUFFICES ASSUME NEW q \in Requests, ask'[q].box = b, HasCode(b)', ask'[q].at \in {"save", "send", "stamp"}
               PROVE  /\ ask'[q].at = "save" =>
                            code'[b][1].id = ask'[q].id /\ ask'[q].id # 0 /\ ~ code'[b][1].cold
                      /\ ask'[q].at \in {"send", "stamp"} => Holds(b, ask[q].id, ask[q].content)'
    BY DEF KnowsRecord
  <2>1. ask'[q] = ask[q] /\ Kept(b) /\ HasCode(b)
    BY LooksFrame DEF Kept, UsedUp
  <2> QED
    BY <2>1 DEF Sharp, KnowsRecord, Kept, Holds
<1>3. SentBeforeStamp(b)'
  <2> SUFFICES ASSUME NEW m \in Letters, m.box = b, Holds(b, m.id, m.content)'
               PROVE  code'[b][1].mailed \/ Stamping(b)'
    BY LooksFrame DEF SentBeforeStamp, Holds
  <2>1. Holds(b, m.id, m.content) /\ Kept(b)
    BY <1>0 DEF Kept, UsedUp, Holds
  <2>2. code[b][1].mailed \/ Stamping(b)
    BY <2>1 DEF Sharp, SentBeforeStamp
  <2>3. Stamping(b) => Stamping(b)'
    BY LooksFrame DEF Stamping
  <2> QED
    BY <2>1, <2>2, <2>3 DEF Kept, Holds
<1>4. SendsCurrent(b)'
  <2> SUFFICES ASSUME sending'.box = b, sending'.content \notin spent'
               PROVE  /\ Holds(b, sending.id, sending.content)'
                      /\ code'[b][1].cold \/ ~ code'[b][1].mailed
                      /\ \A q \in Requests : ask'[q].box = b => ask'[q].at # "save"
    BY DEF SendsCurrent, Holds
  <2>1. sending' = sending
    BY DEF Looks
  <2>2. /\ Holds(b, sending.id, sending.content)
        /\ code[b][1].cold \/ ~ code[b][1].mailed
        /\ \A q \in Requests : ask[q].box = b => ask[q].at # "save"
    BY <2>1 DEF Sharp, SendsCurrent
  <2>3. Kept(b)
    BY <2>1, <2>2 DEF Kept, UsedUp, Holds
  <2>4. \A q \in Requests : ask'[q].box = b => ask'[q].at # "save"
    BY <2>2, LooksFrame
  <2> QED
    BY <2>1, <2>2, <2>3, <2>4 DEF Kept, Holds
<1>5. LatestKnown(b)'
  <2> SUFFICES ASSUME b \notin unsent PROVE inbox[b] \in {0} \cup spent' \/ Works(b)' \/ Pending(b)'
    BY DEF LatestKnown, Looks
  <2>1. inbox[b] \in {0} \cup spent \/ Works(b) \/ Pending(b)
    BY DEF Sharp, LatestKnown
  <2>2. CASE Works(b)
    BY <2>2 DEF Works, Kept, UsedUp, Looks
  <2>3. CASE Sending(b)
    BY <2>3, LooksFrame DEF Sending, Pending
  <2>4. CASE \E m \in Letters : Concerns(m, b)
    <3>1. PICK m \in Letters : Concerns(m, b)
      BY <2>4
    <3>2. Concerns(m, b)'
      BY <3>1 DEF Concerns, Kept, UsedUp
    <3> QED
      BY <3>2, LooksFrame DEF Pending
  <2> QED
    BY <2>1, <2>2, <2>3, <2>4 DEF Pending
<1> QED
  BY <1>1, <1>2, <1>3, <1>4, <1>5 DEF Sharp

LEMMA LooksKeeps ==
  ASSUME MailIInv, NEW r, Looks(r), UNCHANGED <<code, spent, blurred>>, registered' \subseteq Addresses
  PROVE  MailIInv'
<1>1. NoNewIds
  BY DEF NoNewIds
<1>2. MailTypeOK' /\ Numbered' /\ Freshness'
  BY <1>1, LooksKeepNumbers DEF MailIInv, MailTypeOK
<1>3. ASSUME NEW b \in Boxes \ blurred PROVE Sharp(b)'
  <2>1. Sharp(b) /\ MailTypeOK
    BY DEF MailIInv
  <2>2. Kept(b)
    BY <2>1 DEF Kept, HasCode, Sharp, OneAsker
  <2> QED
    BY <2>1, <2>2, LooksKeepSharp
<1> QED
  BY <1>2, <1>3 DEF MailIInv

LEMMA JudgeKeeps ==
  ASSUME MailIInv, NEW r \in Requests, JudgeCode(r)
  PROVE  MailIInv'
<1>a. PICK b : b = ask[r].box
  OBVIOUS
<1>b. PICK v : v = ask[r].verdict
  OBVIOUS
<1> DEFINE id == v.seen.id
           a == [Waiting EXCEPT !.at = "check", !.checks = Tail(ask[r].checks), !.goal = ask[r].goal,
                                !.passed = ask[r].passed /\ v.passes]
<1>0. MailTypeOK /\ ask[r].at = "judge" /\ b \in Boxes /\ v \in Verdicts /\ v.seen \in Codes
  BY <1>a, <1>b, AskFacts DEF MailIInv, JudgeCode
<1>1. Looks(r)
  <2>0. ask[r].checks \in Seq(Boxes) /\ Tail(ask[r].checks) \in Seq(Boxes)
    <3>1. ask[r].checks \in Seq(Boxes)
      BY <1>0, AskFacts
    <3>2. CASE ask[r].checks = <<>>
      <4>1. Tail(<<>>) = <<>>
        OBVIOUS
      <4> QED
        BY <3>2, <4>1
    <3>3. CASE ask[r].checks # <<>>
      BY <3>1, <3>3
    <3> QED
      BY <3>1, <3>2, <3>3
  <2>1. (ask[r].passed /\ v.passes) \in BOOLEAN /\ ask[r].goal \in AllGoals
    BY <1>0, AskFacts
  <2>2. a \in Asks /\ a.at = "check" /\ a.id = 0 /\ a.content = 0
    <3> DEFINE p == ask[r].passed /\ v.passes
               checks == Tail(ask[r].checks)
               goal == ask[r].goal
    <3>1. p \in BOOLEAN /\ checks \in Seq(Boxes) /\ goal \in AllGoals /\ "check" \in AskPlaces
      BY <2>0, <2>1 DEF AskPlaces
    <3> HIDE DEF p, checks, goal
    <3>2. [Waiting EXCEPT !.at = "check", !.checks = checks, !.goal = goal, !.passed = p] \in Asks
      BY <3>1, NoCodes, AskTypes
    <3>3. a = [Waiting EXCEPT !.at = "check", !.checks = checks, !.goal = goal, !.passed = p]
      BY DEF p, checks, goal
    <3>4. a.at = "check" /\ a.id = 0 /\ a.content = 0
      BY DEF Waiting
    <3> QED
      BY <3>2, <3>3, <3>4
  <2>3. ask' = [ask EXCEPT ![r] = a] /\ ask'[r] = a
    BY <1>0, <1>a, <1>b DEF JudgeCode, MailTypeOK
  <2>4. told' \in [codes : Nat, answers : Nat] /\ told'.codes = told.codes
    BY <1>0 DEF JudgeCode, MailTypeOK
  <2> HIDE DEF a
  <2> QED
    BY <1>0, <2>2, <2>3, <2>4 DEF JudgeCode, Looks
<1>2. spent \subseteq spent' /\ blurred \subseteq blurred' /\ registered' \subseteq Addresses
  BY <1>0 DEF JudgeCode, MailTypeOK
<1> DEFINE d == [Record(b, id) EXCEPT !.wrong = v.seen.wrong + 1]
<1>3. CASE v.does = "keep" \/ ~ Stored(b, id)
  <2>1. code' = code
    BY <1>a, <1>b, <1>3 DEF JudgeCode
  <2>2. NoNewIds
    BY <2>1 DEF NoNewIds
  <2>3. ASSUME NEW o \in Boxes \ blurred PROVE Kept(o) /\ Sharp(o)
    BY <2>1 DEF MailIInv, Kept, HasCode, Sharp, OneAsker
  <2>4. MailTypeOK' /\ Numbered' /\ Freshness'
    BY <1>0, <1>1, <1>2, <2>1, <2>2, LooksKeepNumbers DEF MailIInv, MailTypeOK
  <2>5. ASSUME NEW o \in Boxes \ blurred PROVE Sharp(o)'
    BY <1>0, <1>1, <1>2, <2>3, LooksKeepSharp
  <2> QED
    BY <1>2, <2>4, <2>5 DEF MailIInv
<1>4. CASE v.does = "delete" /\ Stored(b, id)
  <2>1. code' = Forget(b, id) /\ spent' = spent \cup {v.seen.content}
        /\ (Blind(b, v) => b \in blurred')
    BY <1>a, <1>b, <1>4 DEF JudgeCode
  <2>2. /\ code' \in [Boxes -> Seq(Codes)]
        /\ \A o \in Boxes \ {b} : code'[o] = code[o]
        /\ Len(code'[b]) = Len(code[b]) - 1
        /\ \A i \in DOMAIN code'[b] : \E j \in DOMAIN code[b] : code'[b][i] = code[b][j]
    BY <1>0, <1>4, <2>1, Forgotten
  <2>3. NoNewIds
    <3> SUFFICES ASSUME NEW o \in Boxes, NEW i \in DOMAIN code'[o]
                 PROVE  \E j \in DOMAIN code[o] : code'[o][i].id = code[o][j].id
      BY DEF NoNewIds
    <3> QED
      BY <2>2
  <2>4. MailTypeOK' /\ Numbered' /\ Freshness'
    BY <1>0, <1>1, <1>2, <2>2, <2>3, LooksKeepNumbers DEF MailIInv
  <2>5. ASSUME NEW o \in Boxes \ blurred' PROVE Sharp(o)'
    <3>1. Sharp(o) /\ Len(code[o]) <= 1
      BY <1>2 DEF MailIInv, Sharp, OneAsker
    <3>2. CASE o # b
      <4>1. Kept(o)
        BY <2>2, <3>1, <3>2 DEF Kept, HasCode
      <4> QED
        BY <1>0, <1>1, <1>2, <3>1, <4>1, LooksKeepSharp
    <3>3. CASE o = b
      <4>1. HasCode(b) /\ Record(b, id) = code[b][1]
        BY <1>0, <1>4, <3>1, <3>3, OneStored
      <4>2. code[b][1].content = v.seen.content
        BY <1>4, <2>1, <3>3, <4>1 DEF Blind
      <4>3. Len(code'[b]) <= 1 /\ code'[b] = <<>>
        <5>1. code[b] \in Seq(Codes) /\ code'[b] \in Seq(Codes) /\ Len(code'[b]) \in Nat /\ Len(code[b]) \in Nat
          BY <1>0, <2>2 DEF MailTypeOK
        <5>2. Len(code'[b]) = Len(code[b]) - 1 /\ Len(code[b]) <= 1
          BY <2>2, <3>1, <3>3
        <5>3. \A m, n \in Nat : n = m - 1 /\ m <= 1 => n = 0
          OBVIOUS
        <5>4. Len(code'[b]) = 0
          BY <5>1, <5>2, <5>3
        <5> QED
          BY <5>1, <5>4, EmptySeq
      <4>4. UsedUp(b)
        <5>1. code[b][1].content \in spent'
          BY <2>1, <4>2
        <5>2. ~ HasCode(b)'
          BY <4>3 DEF HasCode
        <5> QED
          BY <4>1, <4>3, <5>1, <5>2 DEF UsedUp
      <4> QED
        BY <1>0, <1>1, <1>2, <3>1, <3>3, <4>4, LooksKeepSharp
    <3> QED
      BY <3>2, <3>3
  <2> QED
    BY <2>4, <2>5 DEF MailIInv
<1>5. CASE v.does = "count" /\ Stored(b, id)
  <2>0. d \in Codes /\ d.id = id /\ Record(b, id) \in Codes /\ Record(b, id).id = id
        /\ d.content = Record(b, id).content
        /\ d.cold = Record(b, id).cold /\ d.mailed = Record(b, id).mailed
    BY <1>0, <1>5, StoredFacts DEF Codes
  <2>1. code' = Revise(b, id, d)
    BY <1>a, <1>b, <1>5 DEF JudgeCode
  <2> HIDE DEF d
  <2>2. /\ code' \in [Boxes -> Seq(Codes)]
        /\ \A o \in Boxes \ {b} : code'[o] = code[o]
        /\ Len(code'[b]) = Len(code[b]) /\ DOMAIN code'[b] = DOMAIN code[b]
        /\ \A i \in DOMAIN code[b] : code'[b][i] = IF code[b][i].id = id THEN d ELSE code[b][i]
        /\ code'[b] = <<>> <=> code[b] = <<>>
    BY <1>0, <2>0, <2>1, Revised
  <2>3. NoNewIds
    <3> SUFFICES ASSUME NEW o \in Boxes, NEW i \in DOMAIN code'[o]
                 PROVE  \E j \in DOMAIN code[o] : code'[o][i].id = code[o][j].id
      BY DEF NoNewIds
    <3> QED
      BY <2>0, <2>2
  <2>4. MailTypeOK' /\ Numbered' /\ Freshness'
    BY <1>0, <1>1, <1>2, <2>2, <2>3, LooksKeepNumbers DEF MailIInv
  <2>5. ASSUME NEW o \in Boxes \ blurred' PROVE Sharp(o)'
    <3>1. Sharp(o) /\ Len(code[o]) <= 1
      BY <1>2 DEF MailIInv, Sharp, OneAsker
    <3>2. Kept(o)
      <4>1. CASE o # b
        BY <2>2, <3>1, <4>1 DEF Kept, HasCode
      <4>2. CASE o = b
        <5>1. HasCode(b) /\ Record(b, id) = code[b][1] /\ DOMAIN code[b] = {1}
          BY <1>0, <1>5, <3>1, <4>2, OneStored
        <5>2. code'[b][1] = d
          BY <2>0, <2>2, <5>1
        <5> QED
          BY <2>0, <2>2, <3>1, <4>2, <5>1, <5>2 DEF Kept, HasCode
      <4> QED
        BY <4>1, <4>2
    <3> QED
      BY <1>0, <1>1, <1>2, <3>1, <3>2, LooksKeepSharp
  <2> QED
    BY <2>4, <2>5 DEF MailIInv
<1>6. v.does \in {"keep", "delete", "count"}
  BY <1>0 DEF Verdicts
<1> QED
  BY <1>3, <1>4, <1>5, <1>6

\* Another box than the one a request asks for, as long as neither its records
\* nor the mails change.
LEMMA OtherBox ==
  ASSUME MailTypeOK, NEW b \in Boxes, Sharp(b), code'[b] = code[b], NEW r \in Requests,
         ask' \in [Requests -> Asks], \A q \in Requests \ {r} : ask'[q] = ask[q],
         ask[r].box # b \/ ask[r].at \in {"idle", "check", "judge"},
         ask'[r].box # b \/ ask'[r].at \in {"idle", "check", "judge"},
         UNCHANGED <<sending, inbox, spent>>, b \notin unsent' => b \notin unsent,
         queued \subseteq queued', \A m \in queued' \ queued : m.box # b
  PROVE  Sharp(b)'
<1>1. \A q \in Requests : \A p \in {"save", "send", "stamp"} :
           (ask'[q].box = b /\ ask'[q].at = p) <=> (ask[q].box = b /\ ask[q].at = p)
  OBVIOUS
<1>2. \A q \in Requests : ask[q].box = b /\ AsksCode(q) => ask'[q] = ask[q]
  BY DEF AsksCode
<1>3. \A m \in Letters' : m.box = b => m \in Letters
  BY DEF Letters
<1>4. Letters \subseteq Letters'
  BY DEF Letters
<1>5. HasCode(b)' = HasCode(b)
  BY DEF HasCode
<1>6. OneAsker(b)'
  <2>1. \A q \in Requests : AsksFor(q, b)' => AsksFor(q, b)
    BY <1>1 DEF AsksFor, AsksCode
  <2> QED
    BY <2>1 DEF Sharp, OneAsker
<1>7. KnowsRecord(b)'
  BY <1>1, <1>2, <1>5 DEF Sharp, KnowsRecord, Holds, AsksCode
<1>8. SentBeforeStamp(b)'
  BY <1>1, <1>3, <1>5 DEF Sharp, SentBeforeStamp, Stamping, Holds
<1>9. SendsCurrent(b)'
  BY <1>1, <1>5 DEF Sharp, SendsCurrent, Holds
<1>10. LatestKnown(b)'
  BY <1>1, <1>4, <1>5 DEF Sharp, LatestKnown, Works, Pending, Sending, Concerns
<1> QED
  BY <1>6, <1>7, <1>8, <1>9, <1>10 DEF Sharp

LEMMA AskKeepsNumbers ==
  ASSUME MailIInv, NEW r \in Requests, NEW b \in Boxes, AskCode(r, b)
  PROVE  /\ MailTypeOK' /\ Numbered' /\ Freshness'
         /\ ask'[r].at = "save" /\ ask'[r].box = b /\ ask'[r].id = FirstId(b)
         /\ \A q \in Requests \ {r} : ask'[q] = ask[q]
<1> DEFINE n == told.codes + 1
           a == [Waiting EXCEPT !.at = "save", !.box = b, !.id = FirstId(b), !.content = n]
<1>1. MailTypeOK /\ Numbered /\ Freshness
  BY DEF MailIInv
<1>2. told.codes \in Nat /\ n \in Nat
  BY <1>1 DEF MailTypeOK
<1>3. told' \in [codes : Nat, answers : Nat] /\ told'.codes = n
  <2>1. told \in [codes : Nat, answers : Nat] /\ told' = [told EXCEPT !.codes = n]
    BY <1>1 DEF AskCode, MailTypeOK
  <2> QED
    BY <1>2, <2>1
<1>4. FirstId(b) \in Nat /\ FirstId(b) <= told.codes
  <2>1. code[b] \in Seq(Codes)
    BY <1>1 DEF MailTypeOK
  <2>2. CASE code[b] = <<>>
    BY <1>2, <2>2 DEF FirstId
  <2>3. CASE code[b] # <<>>
    <3>1. code[b][1] \in Codes /\ 1 \in DOMAIN code[b]
      BY <2>1, <2>3, FirstRecord
    <3> QED
      BY <1>1, <2>3, <3>1 DEF FirstId, Codes, Numbered
  <2> QED
    BY <2>2, <2>3
<1>5. a \in Asks /\ a.at = "save" /\ a.box = b /\ a.id = FirstId(b) /\ a.content = n
  <2>1. a \in Asks
    BY <1>2, <1>4, NoCodes, AskTypes DEF AskPlaces
  <2>2. a.at = "save" /\ a.box = b /\ a.id = FirstId(b) /\ a.content = n
    BY DEF Waiting
  <2> QED
    BY <2>1, <2>2
<1>6. ask' = [ask EXCEPT ![r] = a]
  BY <1>3 DEF AskCode
<1> HIDE DEF a
<1>7. /\ ask' \in [Requests -> Asks] /\ ask'[r] = a /\ \A q \in Requests \ {r} : ask'[q] = ask[q]
      /\ \A q \in Requests : ask'[q].at # "idle" /\ ask'[q].at # "check" => ask'[q].box \in Boxes
  BY <1>1, <1>5, <1>6, AskUpdates
<1>8. MailTypeOK'
  BY <1>1, <1>3, <1>7 DEF AskCode, MailTypeOK
<1>9. Letters' = Letters /\ code' = code
  BY DEF AskCode, Letters
<1>10. \A q \in Requests : ask[q].id \in Nat /\ ask[q].content \in Nat
  BY <1>1, AskFacts
<1>11. /\ \A m \in Letters : m.id \in Nat /\ m.content \in Nat
       /\ \A o \in Boxes : \A i \in DOMAIN code[o] : code[o][i].id \in Nat
  <2>1. \A m \in Letters : m.id \in Nat /\ m.content \in Nat
    BY <1>1, NoCodes DEF MailTypeOK, Mails, Letters
  <2>2. \A o \in Boxes : \A i \in DOMAIN code[o] : code[o][i] \in Codes
    BY <1>1 DEF MailTypeOK
  <2> QED
    BY <2>1, <2>2 DEF Codes
<1>12. \A k \in Nat : k <= told.codes => k <= n /\ k # n
  BY <1>2
<1> HIDE DEF n
<1>13. Numbered'
  BY <1>1, <1>2, <1>3, <1>4, <1>5, <1>7, <1>9, <1>10, <1>11, <1>12 DEF Numbered
<1>14. Freshness'
  <2> SUFFICES ASSUME NEW q \in Requests
               PROVE  /\ ask'[q].at \in {"save", "send"} => Fresh(q)'
                      /\ ask'[q].at = "save" => UnusedId(q)'
    BY DEF Freshness
  <2>1. CASE q = r
    <3>1. \A m \in Letters : m.content # n /\ m.id # n
      BY <1>1, <1>11, <1>12 DEF Numbered
    <3>2. \A p \in Requests \ {r} : ask[p].content # n /\ ask[p].id # n
      BY <1>1, <1>10, <1>12 DEF Numbered
    <3>3. \A o \in Boxes : \A i \in DOMAIN code[o] : code[o][i].id # n
      BY <1>1, <1>11, <1>12 DEF Numbered
    <3>4. n # 0
      BY <1>2 DEF n
    <3> QED
      BY <1>5, <1>7, <1>9, <2>1, <3>1, <3>2, <3>3, <3>4 DEF Fresh, UnusedId
  <2>2. CASE q # r
    <3>1. ask'[q] = ask[q] /\ ask[q].content # n
      BY <1>1, <1>7, <1>10, <1>12, <2>2 DEF Numbered
    <3>2. ask[q].content # FirstId(b) \/ ask[q].at # "save"
      <4>1. CASE code[b] # <<>> /\ ask[q].at = "save"
        <5>1. 1 \in DOMAIN code[b] /\ FirstId(b) = code[b][1].id
          BY <1>1, <4>1, FirstRecord DEF MailTypeOK, FirstId
        <5> QED
          BY <1>1, <4>1, <5>1 DEF Freshness, UnusedId
      <4>2. CASE code[b] = <<>> /\ ask[q].at = "save"
        BY <1>1, <4>2 DEF FirstId, Freshness, Fresh
      <4> QED
        BY <4>1, <4>2
    <3> QED
      BY <1>1, <1>5, <1>7, <1>9, <3>1, <3>2 DEF Freshness, Fresh, UnusedId, AsksCode
  <2> QED
    BY <2>1, <2>2
<1> QED
  BY <1>5, <1>7, <1>8, <1>13, <1>14

LEMMA AskKeeps ==
  ASSUME MailIInv, NEW r \in Requests, NEW b \in Boxes, AskCode(r, b)
  PROVE  MailIInv'
<1>0. /\ MailTypeOK' /\ Numbered' /\ Freshness' /\ MailTypeOK /\ Numbered
      /\ ask'[r].at = "save" /\ ask'[r].box = b /\ ask'[r].id = FirstId(b)
      /\ \A q \in Requests \ {r} : ask'[q] = ask[q]
  BY AskKeepsNumbers DEF MailIInv
<1>1. ask[r].at = "idle" /\ ~ Cooling(b)
      /\ UNCHANGED <<registered, code, queued, sending, inbox, spent, unsent>>
      /\ blurred' = IF Asking(b) THEN blurred \cup {b} ELSE blurred
  BY DEF AskCode
<1>2. blurred \subseteq blurred' /\ (b \notin blurred' => ~ Asking(b))
  BY <1>1
<1>3. ASSUME NEW o \in Boxes \ blurred' PROVE Sharp(o)'
  <2>0. Sharp(o)
    BY <1>2 DEF MailIInv
  <2>1. CASE o # b
    BY <1>0, <1>1, <2>0, <2>1, OtherBox DEF MailTypeOK
  <2>2. CASE o = b
    <3>0. \A q \in Requests : ~ AsksFor(q, b)
      BY <1>2, <2>2 DEF Asking, AsksFor, AsksCode
    <3>1. HasCode(b)' = HasCode(b) /\ Letters' = Letters
      BY <1>1 DEF HasCode, Letters
    <3>2. OneAsker(b)'
      <4>1. \A q \in Requests : AsksFor(q, b)' => q = r
        BY <1>0, <3>0 DEF AsksFor, AsksCode
      <4> QED
        BY <1>1, <2>0, <2>2, <4>1 DEF Sharp, OneAsker
    <3>3. KnowsRecord(b)'
      <4>1. HasCode(b) => code[b][1].id = FirstId(b) /\ code[b][1].id # 0 /\ ~ code[b][1].cold
        <5> SUFFICES ASSUME HasCode(b)
                     PROVE  code[b][1].id = FirstId(b) /\ code[b][1].id # 0 /\ ~ code[b][1].cold
          OBVIOUS
        <5>1. 1 \in DOMAIN code[b]
          BY <1>0, FirstRecord DEF MailTypeOK, HasCode
        <5> QED
          BY <1>0, <1>1, <5>1 DEF HasCode, FirstId, Cooling, Numbered
      <4> SUFFICES ASSUME NEW q \in Requests, ask'[q].box = b, HasCode(b),
                          ask'[q].at \in {"save", "send", "stamp"}
                   PROVE  q = r
        BY <1>0, <1>1, <3>1, <4>1 DEF KnowsRecord, Holds
      <4> QED
        BY <1>0, <3>0 DEF AsksFor, AsksCode
    <3>4. SentBeforeStamp(b)'
      <4>1. ~ Stamping(b)
        BY <3>0 DEF Stamping, AsksFor, AsksCode
      <4> QED
        BY <1>1, <2>0, <2>2, <3>1, <4>1 DEF Sharp, SentBeforeStamp, Holds
    <3>5. SendsCurrent(b)'
      <4> SUFFICES ASSUME sending.box = b, sending.content \notin spent PROVE FALSE
        BY <1>1 DEF SendsCurrent
      <4>1. Holds(b, sending.id, sending.content) /\ (code[b][1].cold \/ ~ code[b][1].mailed)
        BY <2>0, <2>2 DEF Sharp, SendsCurrent
      <4>2. ~ code[b][1].cold
        BY <1>1, <4>1 DEF Cooling, Holds, HasCode
      <4>3. Stamping(b)
        BY <2>0, <2>2, <4>1, <4>2 DEF Sharp, SentBeforeStamp, Letters
      <4> QED
        BY <3>0, <4>3 DEF Stamping, AsksFor, AsksCode
    <3>6. LatestKnown(b)'
      <4>1. ~ Sending(b)
        BY <3>0 DEF Sending, AsksFor, AsksCode
      <4> QED
        BY <1>1, <2>0, <2>2, <3>1, <4>1 DEF Sharp, LatestKnown, Pending, Concerns, Works
    <3> QED
      BY <2>2, <3>2, <3>3, <3>4, <3>5, <3>6 DEF Sharp
  <2> QED
    BY <2>1, <2>2
<1> QED
  BY <1>0, <1>3 DEF MailIInv

LEMMA WrittenRecord ==
  ASSUME MailTypeOK, NEW b \in Boxes, NEW found, NEW new \in Codes,
         code' = IF found = 0 THEN [code EXCEPT ![b] = Append(code[b], new)] ELSE Revise(b, found, new)
  PROVE  /\ code' \in [Boxes -> Seq(Codes)]
         /\ \A o \in Boxes \ {b} : code'[o] = code[o]
         /\ \A i \in DOMAIN code'[b] : code'[b][i] = new \/ \E j \in DOMAIN code[b] : code'[b][i] = code[b][j]
<1>1. code \in [Boxes -> Seq(Codes)] /\ code[b] \in Seq(Codes)
  BY DEF MailTypeOK
<1>2. CASE found = 0
  <2> DEFINE t == Append(code[b], new)
  <2>1. /\ t \in Seq(Codes) /\ DOMAIN t = 1 .. Len(code[b]) + 1 /\ DOMAIN code[b] = 1 .. Len(code[b])
        /\ t[Len(code[b]) + 1] = new /\ \A i \in DOMAIN code[b] : t[i] = code[b][i]
        /\ Len(code[b]) \in Nat
    BY <1>1, AddedRecord
  <2>2. \A i \in DOMAIN t : i \in DOMAIN code[b] \/ i = Len(code[b]) + 1
    BY <2>1
  <2> HIDE DEF t
  <2>3. code' = [code EXCEPT ![b] = t]
    BY <1>2 DEF t
  <2> QED
    BY <1>1, <2>1, <2>2, <2>3
<1>3. CASE found # 0
  <2>1. code' = Revise(b, found, new)
    BY <1>3
  <2> QED
    BY <2>1, Revised
<1> QED
  BY <1>2, <1>3

\* What saving a code makes of the box: the record new under the number id.
Saved(r, b, id, new) ==
  /\ b = ask[r].box /\ b \in Boxes
  /\ new \in Codes /\ new.id = id /\ new.content = ask[r].content /\ ~ new.cold
  /\ id \in Nat /\ id <= told.codes /\ id # 0 /\ id \in {ask[r].id, ask[r].content}
  /\ code' = IF ask[r].id = 0 THEN [code EXCEPT ![b] = Append(code[b], new)]
                              ELSE Revise(b, ask[r].id, new)
  /\ ask' \in [Requests -> Asks] /\ ask'[r].at = "send" /\ ask'[r].id = id
  /\ ask'[r].box = b /\ ask'[r].content = ask[r].content
  /\ \A q \in Requests \ {r} : ask'[q] = ask[q]

LEMMA SavedRecord ==
  ASSUME MailIInv, NEW r \in Requests, SaveCode(r)
  PROVE  \E b, id, new : Saved(r, b, id, new)
<1> DEFINE b == ask[r].box
           id == IF ask[r].id = 0 THEN ask[r].content ELSE ask[r].id
           new == [id |-> id, content |-> ask[r].content, cold |-> FALSE, mailed |-> FALSE,
                   valid |-> TRUE, wrong |-> 0]
           a == [ask[r] EXCEPT !.at = "send", !.id = id]
<1>0. MailTypeOK /\ Numbered /\ Freshness /\ ask[r].at = "save" /\ ask[r].content # 0
  BY DEF MailIInv, SaveCode, Freshness, Fresh
<1>1. /\ b \in Boxes /\ ask[r].content \in Nat /\ ask[r] \in Asks /\ ask[r].id \in Nat
  BY <1>0, AskFacts
<1>2. id \in Nat /\ id <= told.codes /\ id # 0 /\ id \in {ask[r].id, ask[r].content}
  BY <1>0, <1>1 DEF Numbered
<1>3. code' = IF ask[r].id = 0 THEN [code EXCEPT ![b] = Append(code[b], new)]
                               ELSE Revise(b, ask[r].id, new)
  BY DEF SaveCode
<1>4. ask' = [ask EXCEPT ![r] = a]
  BY <1>0 DEF SaveCode, MailTypeOK
<1> HIDE DEF id
<1>5. new \in Codes /\ new.id = id /\ new.content = ask[r].content /\ ~ new.cold
  BY <1>1, <1>2 DEF Codes
<1>6. a \in Asks /\ a.at = "send" /\ a.id = id /\ a.box = b /\ a.content = ask[r].content
  <2>1. a \in Asks
    BY <1>1, <1>2, AskTypes DEF AskPlaces
  <2> QED
    BY <1>1, <2>1 DEF Asks
<1> HIDE DEF a, new
<1>7. ask' \in [Requests -> Asks] /\ ask'[r] = a /\ \A q \in Requests \ {r} : ask'[q] = ask[q]
  BY <1>0, <1>4, <1>6 DEF MailTypeOK
<1>8. Saved(r, b, id, new)
  BY <1>1, <1>2, <1>3, <1>5, <1>6, <1>7 DEF Saved
<1> QED
  BY <1>8

LEMMA SaveKeepsNumbers ==
  ASSUME MailIInv, NEW r \in Requests, SaveCode(r)
  PROVE  MailTypeOK' /\ Numbered' /\ Freshness'
<1>a. PICK b, id, new : Saved(r, b, id, new)
  BY SavedRecord
<1>0. MailTypeOK /\ Numbered /\ Freshness /\ ask[r].at = "save"
  BY DEF MailIInv, SaveCode
<1>1. UNCHANGED <<registered, queued, sending, inbox, spent, unsent, told, blurred>> /\ Letters' = Letters
  BY DEF SaveCode, Letters
<1>2. /\ b \in Boxes /\ new \in Codes /\ id \in Nat /\ id <= told.codes /\ id # 0
      /\ id \in {ask[r].id, ask[r].content} /\ new.id = id
      /\ code' = IF ask[r].id = 0 THEN [code EXCEPT ![b] = Append(code[b], new)]
                                  ELSE Revise(b, ask[r].id, new)
      /\ ask' \in [Requests -> Asks] /\ ask'[r].at = "send" /\ ask'[r].id = id
      /\ ask'[r].box = b /\ ask'[r].content = ask[r].content
      /\ \A q \in Requests \ {r} : ask'[q] = ask[q]
  BY <1>a DEF Saved
<1>b. /\ code' \in [Boxes -> Seq(Codes)]
      /\ \A o \in Boxes \ {b} : code'[o] = code[o]
      /\ \A i \in DOMAIN code'[b] : code'[b][i] = new \/ \E j \in DOMAIN code[b] : code'[b][i] = code[b][j]
  BY <1>0, <1>2, WrittenRecord
<1>3. \A o \in Boxes : \A i \in DOMAIN code'[o] :
         code'[o][i].id = id \/ \E j \in DOMAIN code[o] : code'[o][i].id = code[o][j].id
  <2> SUFFICES ASSUME NEW o \in Boxes, NEW i \in DOMAIN code'[o]
               PROVE  code'[o][i].id = id \/ \E j \in DOMAIN code[o] : code'[o][i].id = code[o][j].id
    OBVIOUS
  <2> QED
    BY <1>b, <1>2
<1>4. MailTypeOK'
  BY <1>0, <1>1, <1>2, <1>b DEF MailTypeOK
<1>5. Numbered'
  <2>1. \A q \in Requests : ask'[q].id <= told.codes /\ ask'[q].content <= told.codes
    BY <1>0, <1>2 DEF Numbered
  <2>2. \A o \in Boxes : \A i \in DOMAIN code'[o] : code'[o][i].id <= told.codes /\ code'[o][i].id # 0
    BY <1>0, <1>2, <1>3 DEF Numbered
  <2> QED
    BY <1>0, <1>1, <2>1, <2>2 DEF Numbered
<1>6. Freshness'
  <2> SUFFICES ASSUME NEW q \in Requests
               PROVE  /\ ask'[q].at \in {"save", "send"} => Fresh(q)'
                      /\ ask'[q].at = "save" => UnusedId(q)'
    BY DEF Freshness
  <2>1. ask'[q].content = ask[q].content /\ (ask'[q].at = "save" => q # r /\ ask[q].at = "save")
        /\ (ask'[q].at \in {"save", "send"} => ask[q].at \in {"save", "send"})
    BY <1>0, <1>2
  <2>2. \A p \in Requests : ask'[p].content = ask[p].content /\ (AsksCode(p)' => AsksCode(p))
    BY <1>0, <1>2 DEF AsksCode
  <2>3. ASSUME ask'[q].at \in {"save", "send"} PROVE Fresh(q)'
    BY <1>0, <1>1, <2>1, <2>2, <2>3 DEF Freshness, Fresh
  <2>4. ASSUME ask'[q].at = "save" PROVE UnusedId(q)'
    <3>1. q # r /\ UnusedId(q) /\ Fresh(q) /\ AsksCode(r)
      BY <1>0, <2>1, <2>4 DEF Freshness, AsksCode
    <3>2. id # ask[q].content
      BY <1>2, <3>1 DEF UnusedId, Fresh
    <3>3. \A p \in Requests \ {q} : AsksCode(p)' => ask'[p].id # ask[q].content
      BY <1>2, <2>2, <3>1, <3>2 DEF UnusedId
    <3>4. \A o \in Boxes : \A i \in DOMAIN code'[o] : code'[o][i].id # ask[q].content
      BY <1>3, <3>1, <3>2 DEF UnusedId
    <3> QED
      BY <1>1, <2>1, <3>1, <3>3, <3>4 DEF UnusedId
  <2> QED
    BY <2>3, <2>4
<1> QED
  BY <1>4, <1>5, <1>6

LEMMA SaveKeeps ==
  ASSUME MailIInv, NEW r \in Requests, SaveCode(r)
  PROVE  MailIInv'
<1>a. PICK b, id, new : Saved(r, b, id, new)
  BY SavedRecord
<1>0. MailTypeOK /\ Numbered /\ Freshness /\ ask[r].at = "save"
  BY DEF MailIInv, SaveCode
<1>1. UNCHANGED <<registered, queued, sending, inbox, spent, unsent, told, blurred>> /\ Letters' = Letters
  BY DEF SaveCode, Letters
<1>2. /\ b \in Boxes /\ new \in Codes /\ id \in Nat /\ id # 0 /\ b = ask[r].box
      /\ new.id = id /\ new.content = ask[r].content /\ ~ new.cold
      /\ code' = IF ask[r].id = 0 THEN [code EXCEPT ![b] = Append(code[b], new)]
                                  ELSE Revise(b, ask[r].id, new)
      /\ ask' \in [Requests -> Asks] /\ ask'[r].at = "send" /\ ask'[r].id = id
      /\ ask'[r].box = b /\ ask'[r].content = ask[r].content
      /\ \A q \in Requests \ {r} : ask'[q] = ask[q]
  BY <1>a DEF Saved
<1>b. /\ code' \in [Boxes -> Seq(Codes)]
      /\ \A o \in Boxes \ {b} : code'[o] = code[o]
  BY <1>0, <1>2, WrittenRecord
<1>3. ASSUME NEW o \in Boxes \ blurred PROVE Sharp(o)'
  <2>0. Sharp(o)
    BY DEF MailIInv
  <2>1. CASE o # b
    BY <1>0, <1>1, <1>2, <1>b, <2>0, <2>1, OtherBox
  <2>2. CASE o = b
    <3>1. Len(code[b]) <= 1 /\ code[b] \in Seq(Codes)
      BY <1>0, <1>2, <2>0, <2>2 DEF Sharp, OneAsker, MailTypeOK
    <3>2. (~ HasCode(b) /\ code'[b] = <<>>) \/ (HasCode(b)' /\ Len(code'[b]) = 1 /\ code'[b][1] = new)
      <4>1. CASE ask[r].id = 0
        <5>1. code[b] = <<>>
          BY <1>0, <1>2, <2>0, <2>2, <4>1 DEF Sharp, KnowsRecord, HasCode
        <5>2. code'[b] = Append(<<>>, new)
          BY <1>0, <1>2, <4>1, <5>1 DEF MailTypeOK
        <5>3. code'[b] = <<new>>
          BY <5>2
        <5> QED
          BY <5>3 DEF HasCode
      <4>2. CASE ask[r].id # 0
        <5>1. code' = Revise(b, ask[r].id, new)
          BY <1>2, <4>2
        <5>2. /\ Len(code'[b]) = Len(code[b])
              /\ \A i \in DOMAIN code[b] :
                   code'[b][i] = IF code[b][i].id = ask[r].id THEN new ELSE code[b][i]
              /\ code'[b] = <<>> <=> code[b] = <<>>
          BY <1>0, <1>2, <5>1, Revised
        <5>3. CASE HasCode(b)
          <6>1. code[b][1].id = ask[r].id /\ DOMAIN code[b] = {1} /\ Len(code[b]) = 1
            BY <1>0, <1>2, <2>0, <2>2, <3>1, <5>3, OneRecord DEF Sharp, KnowsRecord, HasCode
          <6> QED
            BY <5>2, <5>3, <6>1 DEF HasCode
        <5>4. CASE ~ HasCode(b)
          BY <5>2, <5>4 DEF HasCode
        <5> QED
          BY <5>3, <5>4
      <4> QED
        BY <4>1, <4>2
    <3>3. OneAsker(b)'
      <4>1. \A q \in Requests : AsksFor(q, b)' => AsksFor(q, b)
        BY <1>0, <1>2 DEF AsksFor, AsksCode
      <4>2. Len(code'[b]) <= 1
        <5>1. CASE code'[b] = <<>>
          <6>1. Len(<<>>) = 0
            OBVIOUS
          <6> QED
            BY <5>1, <6>1
        <5>2. CASE Len(code'[b]) = 1
          BY <5>2
        <5> QED
          BY <3>2, <5>1, <5>2
      <4> QED
        BY <2>0, <2>2, <4>1, <4>2 DEF Sharp, OneAsker
    <3>4. \A q \in Requests : ask'[q].box = b /\ ask'[q].at \in {"save", "send", "stamp"} => q = r
      <4>1. AsksFor(r, b)'
        BY <1>2 DEF AsksFor, AsksCode
      <4> QED
        BY <3>3, <4>1 DEF OneAsker, AsksFor, AsksCode
    <3>5. HasCode(b)' => Holds(b, id, ask[r].content)'
      BY <1>2, <3>2 DEF Holds, HasCode
    <3>6. KnowsRecord(b)'
      <4> SUFFICES ASSUME NEW q \in Requests, ask'[q].box = b, HasCode(b)'
                   PROVE  /\ ask'[q].at = "save" =>
                                code'[b][1].id = ask'[q].id /\ ask'[q].id # 0 /\ ~ code'[b][1].cold
                          /\ ask'[q].at \in {"send", "stamp"} => Holds(b, ask[q].id, ask[q].content)'
        BY DEF KnowsRecord
      <4> QED
        BY <1>2, <3>2, <3>4 DEF Holds, HasCode
    <3>7. SentBeforeStamp(b)'
      <4> SUFFICES ASSUME NEW m \in Letters, m.box = b, HasCode(b)', code'[b][1].content = m.content
                   PROVE  FALSE
        BY <1>1 DEF SentBeforeStamp, Holds
      <4>1. code'[b][1].content = ask[r].content
        BY <1>2, <3>2 DEF HasCode
      <4> QED
        BY <1>0, <4>1 DEF Freshness, Fresh
    <3>8. SendsCurrent(b)'
      BY <1>0, <1>1, <1>2, <2>0, <2>2 DEF Sharp, SendsCurrent
    <3>9. LatestKnown(b)'
      BY <1>2 DEF LatestKnown, Pending, Sending
    <3> QED
      BY <2>2, <3>3, <3>6, <3>7, <3>8, <3>9 DEF Sharp
  <2> QED
    BY <2>1, <2>2
<1> QED
  BY <1>1, <1>3, SaveKeepsNumbers DEF MailIInv

\* A request moves on or ends, and the records stay as they are: types,
\* numbers and freshness.
LEMMA AskMoves ==
  ASSUME MailTypeOK, Numbered, Freshness, NEW r \in Requests, NEW a \in Asks, ask' = [ask EXCEPT ![r] = a],
         a.at \in {"idle", "stamp"}, a.at = "stamp" => a = [ask[r] EXCEPT !.at = "stamp"],
         ask[r].at \in {"send", "stamp"}, a.at = "idle" => a = Waiting,
         code' \in [Boxes -> Seq(Codes)], NoNewIds, UNCHANGED <<registered, sending, inbox, told>>,
         queued' \subseteq queued \cup {[box |-> ask[r].box, id |-> ask[r].id, content |-> ask[r].content]},
         queued' \subseteq queued \/ ask[r].at = "send"
  PROVE  MailTypeOK' /\ Numbered' /\ Freshness'
<1>0. /\ ask[r].box \in Boxes /\ ask[r].id \in Nat /\ ask[r].content \in Nat /\ ask[r] \in Asks
      /\ ask[r].id <= told.codes /\ ask[r].content <= told.codes /\ told.codes \in Nat
  BY AskFacts DEF Numbered, MailTypeOK
<1>1. a.at = "stamp" => a.box \in Boxes /\ a.id = ask[r].id /\ a.content = ask[r].content
  BY <1>0 DEF Asks
<1>2. /\ ask' \in [Requests -> Asks] /\ ask'[r] = a /\ \A q \in Requests \ {r} : ask'[q] = ask[q]
      /\ \A q \in Requests : ask'[q].at # "idle" /\ ask'[q].at # "check" => ask'[q].box \in Boxes
  BY <1>1, AskUpdates
<1> DEFINE m == [box |-> ask[r].box, id |-> ask[r].id, content |-> ask[r].content]
<1>3. m \in Mails /\ m.id = ask[r].id /\ m.content = ask[r].content
  BY <1>0 DEF Mails
<1>4. queued' \subseteq queued \cup {m}
  OBVIOUS
<1> HIDE DEF m
<1>5. MailTypeOK'
  <2>1. queued' \subseteq Mails
    BY <1>3, <1>4 DEF MailTypeOK
  <2> QED
    BY <1>2, <2>1 DEF MailTypeOK
<1>6. \A k \in Letters' : k \in Letters \/ (k = m /\ ask[r].at = "send")
  BY <1>4 DEF Letters
<1>7. a.id <= told.codes /\ a.content <= told.codes
  BY <1>0, <1>1, NoCodes
<1>8. Numbered'
  <2>1. \A q \in Requests : ask'[q].id <= told.codes /\ ask'[q].content <= told.codes
    BY <1>2, <1>7 DEF Numbered
  <2>2. \A b \in Boxes : \A i \in DOMAIN code'[b] : code'[b][i].id <= told.codes /\ code'[b][i].id # 0
    BY DEF Numbered, NoNewIds
  <2>3. \A k \in Letters' : k.id <= told.codes /\ k.content <= told.codes
    BY <1>0, <1>3, <1>6 DEF Numbered
  <2> QED
    BY <2>1, <2>2, <2>3 DEF Numbered
<1>9. Freshness'
  <2> SUFFICES ASSUME NEW q \in Requests, ask'[q].at \in {"save", "send"}
               PROVE  Fresh(q)' /\ (ask'[q].at = "save" => UnusedId(q)')
    BY DEF Freshness
  <2>1. q # r /\ ask'[q] = ask[q] /\ Fresh(q) /\ (ask[q].at = "save" => UnusedId(q))
    BY <1>2 DEF Freshness
  <2>2. \A p \in Requests \ {q} : AsksCode(p)' =>
           AsksCode(p) /\ ask'[p].id = ask[p].id /\ ask'[p].content = ask[p].content
    BY <1>1, <1>2 DEF AsksCode
  <2>3. AsksCode(r)
    BY DEF AsksCode
  <2>4. Fresh(q)'
    <3>1. \A k \in Letters' : k.content # ask[q].content
      BY <1>3, <1>6, <2>1, <2>3 DEF Fresh
    <3> QED
      BY <2>1, <2>2, <3>1 DEF Fresh
  <2>5. ASSUME ask'[q].at = "save" PROVE UnusedId(q)'
    <3>0. UnusedId(q)
      BY <2>1, <2>5
    <3>1. \A k \in Letters' : k.id # ask[q].content
      BY <1>3, <1>6, <2>1, <2>3, <3>0 DEF UnusedId
    <3>2. \A b \in Boxes : \A i \in DOMAIN code'[b] : code'[b][i].id # ask[q].content
      BY <3>0 DEF UnusedId, NoNewIds
    <3> QED
      BY <2>1, <2>2, <3>0, <3>1, <3>2 DEF UnusedId
  <2> QED
    BY <2>4, <2>5
<1> QED
  BY <1>5, <1>8, <1>9

LEMMA SendKeeps ==
  ASSUME MailIInv, NEW r \in Requests, SendCode(r)
  PROVE  MailIInv'
<1>a. PICK b : b = ask[r].box
  OBVIOUS
<1>m. PICK m : m = [box |-> ask[r].box, id |-> ask[r].id, content |-> ask[r].content]
  OBVIOUS
<1> DEFINE a == [ask[r] EXCEPT !.at = "stamp"]
<1>0. MailTypeOK /\ Numbered /\ Freshness /\ ask[r].at = "send" /\ ask[r] \in Asks /\ b \in Boxes
  BY <1>a, AskFacts DEF MailIInv, SendCode
<1>1. /\ queued' = queued \cup {m} /\ ask' = [ask EXCEPT ![r] = a]
      /\ UNCHANGED <<registered, code, sending, inbox, spent, unsent, told, blurred>>
  BY <1>0, <1>m DEF SendCode, MailTypeOK
<1>2. a \in Asks /\ a.at = "stamp" /\ a.box = b /\ a.id = ask[r].id /\ a.content = ask[r].content
  <2>1. a \in Asks
    BY <1>0, AskTypes DEF AskPlaces
  <2> QED
    BY <1>0, <1>a, <2>1 DEF Asks
<1>3. /\ ask' \in [Requests -> Asks] /\ ask'[r] = a /\ \A q \in Requests \ {r} : ask'[q] = ask[q]
  BY <1>0, <1>1, <1>2 DEF MailTypeOK
<1>4. MailTypeOK' /\ Numbered' /\ Freshness'
  <2>1. NoNewIds /\ code' \in [Boxes -> Seq(Codes)]
    BY <1>0, <1>1 DEF NoNewIds, MailTypeOK
  <2> QED
    BY <1>0, <1>1, <1>2, <1>m, <2>1, AskMoves
<1>5. m \in Letters' /\ m.box = b /\ m.id = ask[r].id /\ m.content = ask[r].content
  BY <1>1, <1>a, <1>m DEF Letters
<1> HIDE DEF a
<1>6. ASSUME NEW o \in Boxes \ blurred PROVE Sharp(o)'
  <2>0. Sharp(o)
    BY DEF MailIInv
  <2>1. CASE o # b
    <3>1. \A k \in queued' \ queued : k.box # o
      BY <1>1, <1>5, <2>1
    <3>2. /\ o \in Boxes /\ code'[o] = code[o] /\ ask[r].box # o /\ ask'[r].box # o
          /\ (o \notin unsent' => o \notin unsent) /\ queued \subseteq queued'
      BY <1>1, <1>2, <1>3, <1>a, <2>1
    <3> QED
      BY <1>0, <1>1, <1>3, <2>0, <3>1, <3>2, OtherBox
  <2>2. CASE o = b
    <3>0. Letters' = Letters \cup {m} /\ HasCode(b)' = HasCode(b) /\ Stamping(b)'
      BY <1>1, <1>2, <1>3 DEF Letters, HasCode, Stamping
    <3>1. \A q \in Requests : ask'[q].box = ask[q].box /\ ask'[q].id = ask[q].id
                              /\ ask'[q].content = ask[q].content
                              /\ (AsksCode(q)' <=> AsksCode(q)) /\ (ask'[q].at = "save" <=> ask[q].at = "save")
      BY <1>0, <1>2, <1>3, <1>a DEF AsksCode
    <3>2. OneAsker(b)'
      BY <1>1, <2>0, <2>2, <3>1 DEF Sharp, OneAsker, AsksFor
    <3>3. KnowsRecord(b)'
      <4> SUFFICES ASSUME NEW q \in Requests, ask'[q].box = b, HasCode(b), AsksCode(q)
                   PROVE  /\ ask'[q].at = "save" =>
                                code[b][1].id = ask[q].id /\ ask[q].id # 0 /\ ~ code[b][1].cold
                          /\ ask'[q].at \in {"send", "stamp"} =>
                                code[b][1].id = ask[q].id /\ code[b][1].content = ask[q].content
        BY <1>1, <3>0, <3>1 DEF KnowsRecord, Holds, AsksCode
      <4>1. CASE q = r
        BY <1>0, <1>2, <1>3, <1>a, <2>0, <2>2, <4>1 DEF Sharp, KnowsRecord, Holds
      <4>2. CASE q # r
        BY <1>3, <2>0, <2>2, <4>2 DEF Sharp, KnowsRecord, Holds
      <4> QED
        BY <4>1, <4>2
    <3>4. SentBeforeStamp(b)'
      BY <3>0 DEF SentBeforeStamp
    <3>5. SendsCurrent(b)'
      BY <1>1, <2>0, <2>2, <3>0, <3>1 DEF Sharp, SendsCurrent, Holds
    <3>6. LatestKnown(b)'
      <4>1. Concerns(m, b)'
        <5>1. HasCode(b) => code[b][1].content = ask[r].content
          BY <1>0, <1>a, <2>0, <2>2 DEF Sharp, KnowsRecord, Holds
        <5> QED
          BY <1>1, <1>5, <3>0, <5>1 DEF Concerns
      <4> QED
        BY <1>5, <4>1 DEF LatestKnown, Pending
    <3> QED
      BY <2>2, <3>2, <3>3, <3>4, <3>5, <3>6 DEF Sharp
  <2> QED
    BY <2>1, <2>2
<1> QED
  BY <1>1, <1>4, <1>6 DEF MailIInv

LEMMA RefusedKeeps ==
  ASSUME MailIInv, NEW r \in Requests, MailRefused(r)
  PROVE  MailIInv'
<1>a. PICK b : b = ask[r].box
  OBVIOUS
<1>0. MailTypeOK /\ Numbered /\ Freshness /\ ask[r].at = "send" /\ ask[r] \in Asks /\ b \in Boxes
  BY <1>a, AskFacts DEF MailIInv, MailRefused
<1>1. /\ unsent' = unsent \cup {b} /\ ask' = [ask EXCEPT ![r] = Waiting]
      /\ UNCHANGED <<registered, code, queued, sending, inbox, spent, told, blurred>>
  BY <1>a DEF MailRefused
<1>2. /\ ask' \in [Requests -> Asks] /\ ask'[r] = Waiting /\ \A q \in Requests \ {r} : ask'[q] = ask[q]
  BY <1>0, <1>1, NoCodes DEF MailTypeOK
<1>3. MailTypeOK' /\ Numbered' /\ Freshness'
  <2>1. NoNewIds /\ code' \in [Boxes -> Seq(Codes)]
    BY <1>0, <1>1 DEF NoNewIds, MailTypeOK
  <2> QED
    BY <1>0, <1>1, <2>1, AskMoves, NoCodes
<1>4. ASSUME NEW o \in Boxes \ blurred PROVE Sharp(o)'
  <2>0. Sharp(o)
    BY DEF MailIInv
  <2>1. CASE o # b
    <3>2. /\ o \in Boxes /\ code'[o] = code[o] /\ ask[r].box # o /\ ask'[r].box # o
          /\ (o \notin unsent' => o \notin unsent) /\ queued' = queued
      BY <1>1, <1>2, <1>a, <2>1, NoCodes
    <3> QED
      BY <1>0, <1>1, <1>2, <2>0, <3>2, OtherBox
  <2>2. CASE o = b
    <3>0. Letters' = Letters /\ HasCode(b)' = HasCode(b)
      BY <1>1 DEF Letters, HasCode
    <3>1. \A q \in Requests : ask'[q].at \in {"save", "send", "stamp"} => ask'[q] = ask[q]
      BY <1>2, NoCodes
    <3>2. OneAsker(b)'
      BY <1>1, <2>0, <2>2, <3>1 DEF Sharp, OneAsker, AsksFor, AsksCode
    <3>3. KnowsRecord(b)'
      BY <1>1, <2>0, <2>2, <3>0, <3>1 DEF Sharp, KnowsRecord, Holds
    <3>4. SentBeforeStamp(b)'
      <4>1. Stamping(b) => Stamping(b)'
        BY <1>0, <1>2 DEF Stamping
      <4> QED
        BY <1>1, <2>0, <2>2, <3>0, <4>1 DEF Sharp, SentBeforeStamp, Holds
    <3>5. SendsCurrent(b)'
      BY <1>1, <2>0, <2>2, <3>0, <3>1 DEF Sharp, SendsCurrent, Holds
    <3>6. LatestKnown(b)'
      BY <1>1 DEF LatestKnown
    <3> QED
      BY <2>2, <3>2, <3>3, <3>4, <3>5, <3>6 DEF Sharp
  <2> QED
    BY <2>1, <2>2
<1> QED
  BY <1>1, <1>3, <1>4 DEF MailIInv

LEMMA StampKeeps ==
  ASSUME MailIInv, NEW r \in Requests, StampCode(r)
  PROVE  MailIInv'
<1>a. PICK b : b = ask[r].box
  OBVIOUS
<1>b. PICK id : id = ask[r].id
  OBVIOUS
<1>0. MailTypeOK /\ Numbered /\ Freshness /\ ask[r].at = "stamp" /\ ask[r] \in Asks /\ b \in Boxes
  BY <1>a, AskFacts DEF MailIInv, StampCode
<1>1. /\ ask' = [ask EXCEPT ![r] = Waiting]
      /\ UNCHANGED <<registered, queued, sending, inbox, spent, unsent, told, blurred>>
  BY DEF StampCode
<1>2. /\ ask' \in [Requests -> Asks] /\ ask'[r] = Waiting /\ \A q \in Requests \ {r} : ask'[q] = ask[q]
  BY <1>0, <1>1, NoCodes DEF MailTypeOK
<1>3. /\ code' \in [Boxes -> Seq(Codes)] /\ NoNewIds
      /\ \A o \in Boxes \ {b} : code'[o] = code[o]
      /\ Len(code'[b]) = Len(code[b]) /\ HasCode(b)' = HasCode(b)
      /\ HasCode(b) /\ code[b][1].id = id =>
           /\ code'[b][1].id = id /\ code'[b][1].cold /\ code'[b][1].mailed
           /\ Len(code[b]) <= 1 => code'[b][1].content = code[b][1].content
  <2>1. CASE ~ Stored(b, id)
    <3>1. code' = code
      BY <1>a, <1>b, <2>1 DEF StampCode
    <3>2. ~ (HasCode(b) /\ code[b][1].id = id)
      <4> SUFFICES ASSUME HasCode(b), code[b][1].id = id PROVE FALSE
        OBVIOUS
      <4>1. 1 \in DOMAIN code[b]
        BY <1>0, FirstRecord DEF HasCode, MailTypeOK
      <4> QED
        BY <2>1, <4>1 DEF Stored
    <3> QED
      BY <1>0, <3>1, <3>2 DEF NoNewIds, MailTypeOK, HasCode
  <2>2. CASE Stored(b, id)
    <3> DEFINE d == [Record(b, id) EXCEPT !.cold = TRUE, !.mailed = TRUE]
    <3>1. Record(b, id) \in Codes /\ Record(b, id).id = id
      BY <1>0, <2>2, StoredFacts
    <3>2. d \in Codes /\ d.id = id /\ d.cold /\ d.mailed /\ d.content = Record(b, id).content
      BY <3>1 DEF Codes
    <3>3. code' = Revise(b, id, d)
      BY <1>a, <1>b, <2>2 DEF StampCode
    <3> HIDE DEF d
    <3>4. /\ code' \in [Boxes -> Seq(Codes)]
          /\ \A o \in Boxes \ {b} : code'[o] = code[o]
          /\ Len(code'[b]) = Len(code[b]) /\ DOMAIN code'[b] = DOMAIN code[b]
          /\ \A i \in DOMAIN code[b] : code'[b][i] = IF code[b][i].id = id THEN d ELSE code[b][i]
          /\ code'[b] = <<>> <=> code[b] = <<>>
      BY <1>0, <3>2, <3>3, Revised
    <3>5. NoNewIds
      <4> SUFFICES ASSUME NEW o \in Boxes, NEW i \in DOMAIN code'[o]
                   PROVE  \E j \in DOMAIN code[o] : code'[o][i].id = code[o][j].id
        BY DEF NoNewIds
      <4> QED
        BY <3>2, <3>4
    <3>6. ASSUME HasCode(b), code[b][1].id = id PROVE code'[b][1] = d
      <4>1. 1 \in DOMAIN code[b]
        BY <1>0, <3>6, FirstRecord DEF HasCode, MailTypeOK
      <4> QED
        BY <3>4, <3>6, <4>1
    <3>7. ASSUME HasCode(b), Len(code[b]) <= 1 PROVE Record(b, id) = code[b][1]
      BY <1>0, <2>2, <3>7, OneStored
    <3>8. HasCode(b)' = HasCode(b)
      BY <3>4 DEF HasCode
    <3> QED
      BY <3>2, <3>4, <3>5, <3>6, <3>7, <3>8
  <2> QED
    BY <2>1, <2>2
<1>4. MailTypeOK' /\ Numbered' /\ Freshness'
  BY <1>0, <1>1, <1>3, AskMoves, NoCodes
<1>5. ASSUME NEW o \in Boxes \ blurred PROVE Sharp(o)'
  <2>0. Sharp(o)
    BY DEF MailIInv
  <2>1. CASE o # b
    <3>2. /\ o \in Boxes /\ code'[o] = code[o] /\ ask[r].box # o /\ ask'[r].box # o
          /\ (o \notin unsent' => o \notin unsent) /\ queued' = queued
      BY <1>1, <1>2, <1>3, <1>a, <2>1, NoCodes
    <3> QED
      BY <1>0, <1>1, <1>2, <2>0, <3>2, OtherBox
  <2>2. CASE o = b
    <3>1. Len(code[b]) <= 1 /\ Letters' = Letters
      BY <1>1, <2>0, <2>2 DEF Sharp, OneAsker, Letters
    <3>2. HasCode(b) => /\ code'[b][1].id = code[b][1].id /\ code'[b][1].cold /\ code'[b][1].mailed
                        /\ code'[b][1].content = code[b][1].content
      BY <1>0, <1>3, <1>a, <1>b, <2>0, <2>2, <3>1 DEF Sharp, KnowsRecord, Holds
    <3>3. \A q \in Requests : ~ AsksFor(q, b)'
      <4>1. \A q \in Requests \ {r} : ~ AsksFor(q, b)
        BY <1>0, <1>a, <2>0, <2>2 DEF Sharp, OneAsker, AsksFor, AsksCode
      <4> QED
        BY <1>2, <4>1, NoCodes DEF AsksFor, AsksCode
    <3>4. OneAsker(b)'
      BY <1>3, <3>1, <3>3 DEF OneAsker
    <3>5. KnowsRecord(b)'
      BY <3>3 DEF KnowsRecord, AsksFor, AsksCode
    <3>6. SentBeforeStamp(b)'
      BY <1>3, <3>2 DEF SentBeforeStamp, Holds
    <3>7. SendsCurrent(b)'
      BY <1>1, <1>3, <2>0, <2>2, <3>2, <3>3 DEF Sharp, SendsCurrent, Holds, AsksFor, AsksCode
    <3>8. LatestKnown(b)'
      <4>1. ~ Sending(b)
        BY <1>0, <1>a, <2>0, <2>2 DEF Sharp, OneAsker, Sending, AsksFor, AsksCode
      <4> QED
        BY <1>1, <1>3, <2>0, <2>2, <3>1, <3>2, <4>1 DEF Sharp, LatestKnown, Works, Pending, Concerns
    <3> QED
      BY <2>2, <3>4, <3>5, <3>6, <3>7, <3>8 DEF Sharp
  <2> QED
    BY <2>1, <2>2
<1> QED
  BY <1>1, <1>4, <1>5 DEF MailIInv

\* The mail worker: requests and records stay as they are.
LEMMA MailMoves ==
  ASSUME MailIInv, UNCHANGED <<registered, code, ask, spent, told>>,
         queued' \subseteq Mails, sending' \in Mails \cup {NoMail}, inbox' \in [Boxes -> Nat],
         Letters' \subseteq Letters \cup {NoMail}, blurred \subseteq blurred',
         \A b \in Boxes \ blurred' : SendsCurrent(b)' /\ LatestKnown(b)'
  PROVE  MailIInv'
<1>0. MailTypeOK /\ Numbered /\ Freshness /\ told.codes \in Nat
  BY DEF MailIInv, MailTypeOK
<1>1. MailTypeOK'
  BY <1>0 DEF MailTypeOK
<1>2. Numbered'
  <2>1. \A m \in Letters' : m.id <= told.codes /\ m.content <= told.codes
    <3>1. NoMail.id <= told.codes /\ NoMail.content <= told.codes
      BY <1>0, NoCodes
    <3> QED
      BY <1>0, <3>1 DEF Numbered
  <2> QED
    BY <1>0, <2>1 DEF Numbered
<1>3. Freshness'
  <2> SUFFICES ASSUME NEW q \in Requests, ask[q].at \in {"save", "send"}
               PROVE  Fresh(q)' /\ (ask[q].at = "save" => UnusedId(q)')
    BY DEF Freshness
  <2>1. Fresh(q) /\ (ask[q].at = "save" => UnusedId(q)) /\ NoMail.content = 0 /\ NoMail.id = 0
    BY <1>0, NoCodes DEF Freshness
  <2>2. Fresh(q)' /\ (ask[q].at = "save" => UnusedId(q)')
    <3>1. \A m \in Letters' : m.content # ask[q].content
      BY <2>1 DEF Fresh
    <3>2. ask[q].at = "save" => \A m \in Letters' : m.id # ask[q].content
      BY <2>1 DEF Fresh, UnusedId
    <3>3. \A p \in Requests : AsksCode(p)' <=> AsksCode(p)
      BY DEF AsksCode
    <3> QED
      BY <2>1, <3>1, <3>2, <3>3 DEF Fresh, UnusedId
  <2> QED
    BY <2>2
<1>4. ASSUME NEW b \in Boxes \ blurred' PROVE Sharp(b)'
  <2>0. Sharp(b) /\ HasCode(b)' = HasCode(b)
    BY DEF MailIInv, HasCode
  <2>1. OneAsker(b)'
    BY <2>0 DEF Sharp, OneAsker, AsksFor, AsksCode
  <2>2. KnowsRecord(b)'
    BY <2>0 DEF Sharp, KnowsRecord, Holds
  <2>3. SentBeforeStamp(b)'
    BY <2>0, NoCodes DEF Sharp, SentBeforeStamp, Holds, Stamping
  <2> QED
    BY <2>1, <2>2, <2>3 DEF Sharp
<1> QED
  BY <1>1, <1>2, <1>3, <1>4 DEF MailIInv

LEMMA TakeKeeps ==
  ASSUME MailIInv, NEW m \in queued, TakeMail(m)
  PROVE  MailIInv'
<1>0. /\ MailTypeOK /\ m \in Mails /\ m.box \in Boxes /\ m # NoMail /\ sending = NoMail
      /\ m \in Letters /\ NoMail \in Letters
  BY NoCodes DEF MailIInv, MailTypeOK, Mails, TakeMail, Letters
<1>1. /\ queued' = queued \ {m} /\ sending' = IF Renderable(m) THEN m ELSE NoMail
      /\ unsent' = IF Renderable(m) \/ Replaced(m) THEN unsent ELSE unsent \cup {m.box}
      /\ blurred' = IF Late(m) THEN blurred \cup {m.box} ELSE blurred
      /\ UNCHANGED <<registered, code, inbox, ask, spent, told>>
  BY DEF TakeMail
<1>2. Letters' \subseteq Letters
  BY <1>0, <1>1 DEF Letters
<1>3. ASSUME NEW b \in Boxes \ blurred' PROVE SendsCurrent(b)' /\ LatestKnown(b)'
  <2>0. Sharp(b) /\ Len(code[b]) <= 1 /\ HasCode(b)' = HasCode(b)
    BY <1>1 DEF MailIInv, Sharp, OneAsker, HasCode
  <2>1. CASE m.box # b
    <3>1. SendsCurrent(b)'
      BY <1>1, <2>1, NoCodes DEF SendsCurrent
    <3>2. \A k \in Letters : k.box = b => k \in Letters'
      BY <1>0, <1>1, <2>1, NoCodes DEF Letters
    <3>3. b \notin unsent' => b \notin unsent
      BY <1>1
    <3>4. LatestKnown(b)'
      BY <1>1, <2>0, <3>2, <3>3 DEF Sharp, LatestKnown, Works, Pending, Sending, Concerns
    <3> QED
      BY <3>1, <3>4
  <2>2. CASE m.box = b
    <3>0. /\ Newest(m) <=> Holds(b, m.id, m.content)
          /\ Stored(b, m.id) <=> HasCode(b) /\ code[b][1].id = m.id
          /\ Stored(b, m.id) => Record(b, m.id) = code[b][1]
      BY <1>0, <2>0, <2>2, OneStored
    <3>1. SendsCurrent(b)'
      <4> SUFFICES ASSUME sending' = m, Renderable(m)
                   PROVE  /\ Holds(b, m.id, m.content)
                          /\ code[b][1].cold \/ ~ code[b][1].mailed
                          /\ \A r \in Requests : ask[r].box = b => ask[r].at # "save"
        BY <1>0, <1>1, <2>0, <2>2, NoCodes DEF SendsCurrent, Holds
      <4>1. Newest(m) /\ Holds(b, m.id, m.content)
        BY <3>0 DEF Renderable
      <4>2. code[b][1].cold \/ ~ code[b][1].mailed
        BY <1>1, <2>2, <3>0, <4>1 DEF Late, Newest
      <4>3. ASSUME NEW r \in Requests, ask[r].box = b, ask[r].at = "save" PROVE FALSE
        <5>1. ~ code[b][1].cold
          BY <2>0, <4>1, <4>3 DEF Sharp, KnowsRecord, Holds
        <5>2. Stamping(b)
          BY <1>0, <2>0, <2>2, <4>1, <4>2, <5>1 DEF Sharp, SentBeforeStamp
        <5> QED
          BY <2>0, <4>3, <5>2 DEF Stamping, Sharp, OneAsker, AsksFor, AsksCode
      <4> QED
        BY <4>1, <4>2, <4>3
    <3>2. LatestKnown(b)'
      <4> SUFFICES ASSUME b \notin unsent'
                   PROVE  inbox[b] \in {0} \cup spent \/ Works(b)' \/ Pending(b)'
        BY <1>1 DEF LatestKnown
      <4>1. b \notin unsent /\ (Renderable(m) \/ Replaced(m))
        BY <1>1, <2>2
      <4>2. inbox[b] \in {0} \cup spent \/ Works(b) \/ Sending(b) \/ \E k \in Letters : Concerns(k, b)
        BY <2>0, <4>1 DEF Sharp, LatestKnown, Pending
      <4>3. ASSUME NEW k \in Letters, Concerns(k, b) PROVE Pending(b)'
        <5>1. k # NoMail /\ k \in queued
          BY <1>0, <4>3, NoCodes DEF Concerns, Letters
        <5>2. CASE k # m
          BY <1>1, <2>0, <4>3, <5>1, <5>2 DEF Pending, Letters, Concerns
        <5>3. CASE k = m
          <6>1. ~ Replaced(m)
            BY <2>2, <3>0, <4>3, <5>3 DEF Replaced, Concerns, Holds
          <6>2. sending' = m
            BY <1>1, <4>1, <6>1
          <6> QED
            BY <1>1, <2>0, <4>3, <5>3, <6>2 DEF Pending, Letters, Concerns
        <5> QED
          BY <5>2, <5>3
      <4> QED
        BY <1>1, <2>0, <4>2, <4>3 DEF Works, Sending, Pending
    <3> QED
      BY <3>1, <3>2
  <2> QED
    BY <2>1, <2>2
<1>4. queued' \subseteq Mails /\ sending' \in Mails \cup {NoMail} /\ inbox' \in [Boxes -> Nat] /\ blurred \subseteq blurred'
  BY <1>0, <1>1 DEF MailTypeOK
<1> QED
  BY <1>1, <1>2, <1>3, <1>4, MailMoves

LEMMA MailServerKeeps ==
  ASSUME MailIInv, MailArrives \/ MailRetried \/ MailFails
  PROVE  MailIInv'
<1>0. /\ MailTypeOK /\ sending # NoMail /\ sending \in Mails /\ sending.box \in Boxes
      /\ sending.content \in Nat /\ sending \in Letters
  BY NoCodes DEF MailIInv, MailTypeOK, Mails, MailArrives, MailRetried, MailFails, Letters
<1>1. /\ sending' = NoMail /\ queued' \subseteq queued \cup {sending} /\ queued \subseteq queued'
      /\ UNCHANGED <<registered, code, ask, spent, told, blurred>>
  BY DEF MailArrives, MailRetried, MailFails
<1>2. Letters' \subseteq Letters \cup {NoMail} /\ \A k \in Letters : k # sending => k \in Letters'
  BY <1>0, <1>1 DEF Letters
<1>3. \A b \in Boxes : SendsCurrent(b)'
  BY <1>1, NoCodes DEF SendsCurrent
<1>4. queued' \subseteq Mails /\ sending' \in Mails \cup {NoMail} /\ inbox' \in [Boxes -> Nat]
  BY <1>0, <1>1 DEF MailTypeOK, MailArrives, MailRetried, MailFails
<1>5. ASSUME NEW b \in Boxes \ blurred PROVE LatestKnown(b)'
  <2>0. Sharp(b) /\ HasCode(b)' = HasCode(b) /\ Sending(b)' = Sending(b)
    BY <1>1 DEF MailIInv, HasCode, Sending
  <2>1. CASE sending.box # b
    <3>1. inbox'[b] = inbox[b] /\ (b \notin unsent' => b \notin unsent)
      BY <1>0, <2>1 DEF MailArrives, MailRetried, MailFails, MailTypeOK
    <3>2. \A k \in Letters : Concerns(k, b) => k \in Letters' /\ Concerns(k, b)'
      BY <1>1, <1>2, <2>0, <2>1 DEF Concerns
    <3> QED
      BY <1>1, <2>0, <3>1, <3>2 DEF Sharp, LatestKnown, Works, Pending
  <2>2. CASE sending.box = b /\ MailArrives
    <3>1. inbox'[b] = sending.content
      BY <1>0, <2>2 DEF MailArrives, MailTypeOK
    <3>2. sending.content \in spent \/ Holds(b, sending.id, sending.content)
      BY <2>0, <2>2 DEF Sharp, SendsCurrent
    <3> QED
      BY <1>1, <2>0, <3>1, <3>2 DEF LatestKnown, Works, Holds
  <2>3. CASE sending.box = b /\ MailRetried
    <3>1. UNCHANGED <<inbox, unsent>> /\ queued' = queued \cup {sending}
      BY <2>3 DEF MailRetried
    <3>2. \A k \in Letters : Concerns(k, b) => k \in Letters' /\ Concerns(k, b)'
      BY <1>1, <2>0, <3>1 DEF Concerns, Letters
    <3> QED
      BY <1>1, <2>0, <3>1, <3>2 DEF Sharp, LatestKnown, Works, Pending
  <2>4. CASE sending.box = b /\ MailFails
    BY <2>4 DEF MailFails, LatestKnown
  <2> QED
    BY <2>1, <2>2, <2>3, <2>4
<1> QED
  BY <1>1, <1>2, <1>3, <1>4, <1>5, MailMoves

\* Time passes for the first record of a box.
LEMMA FirstChanges ==
  ASSUME MailIInv, NEW b \in Boxes, HasCode(b), NEW d \in Codes, code' = [code EXCEPT ![b] = [code[b] EXCEPT ![1] = d]],
         d.id = code[b][1].id, d.content = code[b][1].content, d.mailed = code[b][1].mailed,
         UNCHANGED <<registered, queued, sending, inbox, ask, spent, unsent, told>>,
         blurred \subseteq blurred', d.cold => code[b][1].cold \/ ~ UnderWay(b),
         code[b][1].cold => d.cold \/ b \in blurred' \/ sending.box # b
  PROVE  MailIInv'
<1>0. MailTypeOK /\ Numbered /\ Freshness /\ code[b] \in Seq(Codes) /\ Letters' = Letters
  BY DEF MailIInv, MailTypeOK, Letters
<1> DEFINE t == [code[b] EXCEPT ![1] = d]
<1>1. /\ t \in Seq(Codes) /\ Len(t) = Len(code[b]) /\ DOMAIN t = DOMAIN code[b]
      /\ t[1] = d /\ t # <<>> /\ \A i \in DOMAIN code[b] : i # 1 => t[i] = code[b][i]
  BY <1>0, FirstRecord DEF HasCode
<1>2. code' = [code EXCEPT ![b] = t]
  OBVIOUS
<1> HIDE DEF t
<1>3. code' \in [Boxes -> Seq(Codes)] /\ code'[b] = t /\ \A o \in Boxes \ {b} : code'[o] = code[o]
  BY <1>0, <1>1, <1>2 DEF MailTypeOK
<1>4. NoNewIds
  <2> SUFFICES ASSUME NEW o \in Boxes, NEW i \in DOMAIN code'[o]
               PROVE  i \in DOMAIN code[o] /\ code'[o][i].id = code[o][i].id
    BY DEF NoNewIds
  <2> QED
    BY <1>1, <1>3
<1>5. MailTypeOK'
  BY <1>0, <1>3 DEF MailTypeOK
<1>6. Numbered'
  BY <1>0, <1>4 DEF Numbered, NoNewIds
<1>7. Freshness'
  <2> SUFFICES ASSUME NEW q \in Requests, ask[q].at \in {"save", "send"}
               PROVE  Fresh(q)' /\ (ask[q].at = "save" => UnusedId(q)')
    BY DEF Freshness
  <2>1. Fresh(q) /\ (ask[q].at = "save" => UnusedId(q))
    BY <1>0 DEF Freshness
  <2>2. Fresh(q)'
    BY <1>0, <2>1 DEF Fresh, AsksCode
  <2>3. ask[q].at = "save" => UnusedId(q)'
    BY <1>0, <1>4, <2>1 DEF UnusedId, AsksCode, NoNewIds
  <2> QED
    BY <2>2, <2>3
<1>8. ASSUME NEW o \in Boxes \ blurred' PROVE Sharp(o)'
  <2>0. Sharp(o)
    BY DEF MailIInv
  <2>1. /\ Len(code'[o]) = Len(code[o]) /\ HasCode(o)' = HasCode(o)
        /\ HasCode(o) => /\ code'[o][1].id = code[o][1].id /\ code'[o][1].content = code[o][1].content
                         /\ code'[o][1].mailed = code[o][1].mailed
                         /\ code'[o][1].cold => code[o][1].cold \/ ~ UnderWay(o)
                         /\ code[o][1].cold => code'[o][1].cold \/ sending.box # o
    BY <1>1, <1>3 DEF HasCode
  <2>2. OneAsker(o)'
    BY <2>0, <2>1 DEF Sharp, OneAsker, AsksFor, AsksCode
  <2>3. KnowsRecord(o)'
    <3> SUFFICES ASSUME NEW q \in Requests, ask[q].box = o, HasCode(o)
                 PROVE  /\ ask[q].at = "save" =>
                              code'[o][1].id = ask[q].id /\ ask[q].id # 0 /\ ~ code'[o][1].cold
                        /\ ask[q].at \in {"send", "stamp"} =>
                              code'[o][1].id = ask[q].id /\ code'[o][1].content = ask[q].content
      BY <2>1 DEF KnowsRecord, Holds
    <3>1. ask[q].at # "idle" => UnderWay(o)
      BY DEF UnderWay
    <3> QED
      BY <2>0, <2>1, <3>1 DEF Sharp, KnowsRecord, Holds
  <2>4. SentBeforeStamp(o)'
    BY <1>0, <2>0, <2>1 DEF Sharp, SentBeforeStamp, Holds, Stamping
  <2>5. SendsCurrent(o)'
    BY <2>0, <2>1 DEF Sharp, SendsCurrent, Holds
  <2>6. LatestKnown(o)'
    BY <1>0, <2>0, <2>1 DEF Sharp, LatestKnown, Works, Pending, Sending, Concerns
  <2> QED
    BY <2>2, <2>3, <2>4, <2>5, <2>6 DEF Sharp
<1> QED
  BY <1>5, <1>6, <1>7, <1>8 DEF MailIInv

LEMMA TimeKeeps ==
  ASSUME MailIInv, NEW b \in Boxes, MinutePasses(b) \/ DayPasses(b) \/ CodeExpires(b)
  PROVE  MailIInv'
<1>1. HasCode(b) /\ code[b][1] \in Codes
  <2>1. HasCode(b)
    BY DEF HasCode, MinutePasses, DayPasses, CodeExpires
  <2>2. code[b] \in Seq(Codes)
    BY DEF MailIInv, MailTypeOK
  <2> QED
    BY <2>1, <2>2, FirstRecord DEF HasCode
<1>2. CASE MinutePasses(b)
  <2> DEFINE d == [code[b][1] EXCEPT !.cold = FALSE]
  <2>1. d \in Codes /\ d.id = code[b][1].id /\ d.content = code[b][1].content /\ d.mailed = code[b][1].mailed /\ ~ d.cold
    BY <1>1 DEF Codes
  <2>2. code' = [code EXCEPT ![b] = [code[b] EXCEPT ![1] = d]]
    BY <1>2 DEF MinutePasses
  <2>3. /\ UNCHANGED <<registered, queued, sending, inbox, ask, spent, unsent, told>>
        /\ blurred \subseteq blurred' /\ (b \in blurred' \/ sending.box # b)
    BY <1>2 DEF MinutePasses
  <2> HIDE DEF d
  <2> QED
    BY <1>1, <2>1, <2>2, <2>3, FirstChanges
<1>3. CASE DayPasses(b)
  <2> DEFINE d == [code[b][1] EXCEPT !.cold = TRUE]
  <2>1. d \in Codes /\ d.id = code[b][1].id /\ d.content = code[b][1].content /\ d.mailed = code[b][1].mailed /\ d.cold
    BY <1>1 DEF Codes
  <2>2. code' = [code EXCEPT ![b] = [code[b] EXCEPT ![1] = d]]
    BY <1>3 DEF DayPasses
  <2>3. /\ UNCHANGED <<registered, queued, sending, inbox, ask, spent, unsent, told>>
        /\ blurred \subseteq blurred' /\ ~ UnderWay(b)
    BY <1>3 DEF DayPasses
  <2> HIDE DEF d
  <2> QED
    BY <1>1, <2>1, <2>2, <2>3, FirstChanges
<1>4. CASE CodeExpires(b)
  <2> DEFINE d == [code[b][1] EXCEPT !.valid = FALSE]
  <2>1. d \in Codes /\ d.id = code[b][1].id /\ d.content = code[b][1].content /\ d.mailed = code[b][1].mailed /\ d.cold = code[b][1].cold
    BY <1>1 DEF Codes
  <2>2. code' = [code EXCEPT ![b] = [code[b] EXCEPT ![1] = d]]
    BY <1>4 DEF CodeExpires
  <2>3. /\ UNCHANGED <<registered, queued, sending, inbox, ask, spent, unsent, told>>
        /\ blurred \subseteq blurred'
    BY <1>4 DEF CodeExpires
  <2> HIDE DEF d
  <2> QED
    BY <1>1, <2>1, <2>2, <2>3, FirstChanges
<1> QED
  BY <1>2, <1>3, <1>4

LEMMA MailStepKeeps == MailIInv /\ [MailNext]_mailVars => MailIInv'
<1> SUFFICES ASSUME MailIInv, [MailNext]_mailVars PROVE MailIInv'
  OBVIOUS
<1>0. MailTypeOK
  BY DEF MailIInv
<1>1. ASSUME NEW r \in Requests, CodeRequest(r) PROVE MailIInv'
  <2>1. ASSUME NEW b \in Boxes, AskCode(r, b) PROVE MailIInv'
    BY <2>1, AskKeeps
  <2>2. ASSUME NEW goal \in Goals, Submit(r, goal) PROVE MailIInv'
    BY <1>0, <2>2, SubmitLooks, LooksKeeps DEF MailTypeOK
  <2>3. ASSUME NothingStored(r) PROVE MailIInv'
    BY <1>0, <2>3, NothingLooks, LooksKeeps DEF MailTypeOK
  <2>4. ASSUME NEW typed, ReadCode(r, typed) PROVE MailIInv'
    BY <1>0, <2>4, ReadLooks, LooksKeeps DEF MailTypeOK
  <2>5. ASSUME EndCheck(r) PROVE MailIInv'
    BY <1>0, <2>5, EndLooks, LooksKeeps
  <2> QED
    BY <1>1, <2>1, <2>2, <2>3, <2>4, <2>5, SaveKeeps, SendKeeps, RefusedKeeps, StampKeeps, JudgeKeeps
    DEF CodeRequest
<1>2. CASE UNCHANGED mailVars
  BY <1>2 DEF mailVars, MailIInv, MailTypeOK, Numbered, Freshness, Fresh, UnusedId, Letters, AsksCode,
              Sharp, OneAsker, AsksFor, KnowsRecord, HasCode, Holds, SentBeforeStamp, Stamping, SendsCurrent,
              LatestKnown, Works, Pending, Sending, Concerns
<1> QED
  BY <1>1, <1>2, TakeKeeps, MailServerKeeps, TimeKeeps DEF MailNext

LEMMA LatestFollows == MailIInv => LatestMailWorks
<1> SUFFICES ASSUME MailIInv, NEW b \in Boxes \ (blurred \cup unsent), ~ UnderWay(b),
                    inbox[b] \notin {0} \cup spent
             PROVE  code[b] # <<>> /\ code[b][1].content = inbox[b]
  BY DEF LatestMailWorks
<1>1. Works(b) \/ Pending(b)
  BY DEF MailIInv, Sharp, LatestKnown
<1>2. ~ Pending(b)
  BY DEF Pending, Sending, Concerns, Letters, UnderWay
<1> QED
  BY <1>1, <1>2 DEF Works, HasCode

\* For any addresses, requests, codes and mistakes: once nothing is under way
\* for an address, the code in the mail that arrived last is the one on record,
\* unless a check has used it up, the latest mail was refused, or one of the
\* three windows of the code was hit.
THEOREM LatestMailHolds == MailSpec => []LatestMailWorks
<1>1. MailSpec => []MailIInv
  BY MailInitInv, MailStepKeeps, PTL DEF MailSpec
<1> QED
  BY <1>1, LatestFollows, PTL
=============================================================================
