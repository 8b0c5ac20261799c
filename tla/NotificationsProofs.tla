------------------------- MODULE NotificationsProofs -------------------------
(***************************************************************************)
(* Proofs about Notifications, for any number of users and scanners, any   *)
(* batch size, budget and number of crashes, and any events: the documents *)
(* keep their types, no user is mailed twice, and a delivery that has come *)
(* to an end stays there.  Without stalls, moreover: a draft waits for its *)
(* author, and a published notification has reached all its recipients.    *)
(* The second part is about ProofreadDraft, the draft of the feedback that *)
(* such a mail tells of, for any number of senders, bakers, scopes and     *)
(* requests; the last about Joining, how a user becomes a member who is    *)
(* told, for any users, any number of handlers and documents, and any      *)
(* bounds on requests and deaths.                                          *)
(***************************************************************************)
EXTENDS Notifications, ProofreadDraft, Joining, FiniteSetTheorems, TLAPS

Pcs == {"idle"} \cup Dispatch \cup Sending

\* The places and states the actions name are places and states.
LEMMA Names ==
  /\ {"draft", "scheduled", "preparing", "dispatching", "published",
      "cancelled"} \subseteq States
  /\ {"idle", "audit", "gate", "list", "chunk", "checkpoint", "open", "fan",
      "receipt", "delivery", "publish", "release", "check", "send",
      "record"} \subseteq Pcs
  /\ {"none", "leased", "pending", "retry_wait", "accepted", "skipped",
      "failed", "unknown", "cancelled"}
        \subseteq {"none", "leased"} \cup Waiting \cup Final
BY DEF States, Pcs, Dispatch, Sending, Waiting, Final

\* There are finitely many users, so every audience has a size.
LEMMA AudienceSize ==
  ASSUME NEW S \in SUBSET Users
  PROVE  Cardinality(S) \in Nat
<1>1. IsFiniteSet(Users)
  BY SizeAssumption, FS_Interval DEF Users
<1>2. IsFiniteSet(S)
  BY <1>1, FS_Subset
<1> QED BY <1>2, FS_CardinalityType

\* A process that has forgotten what it knew is well typed.
LEMMA IdleTyped ==
  /\ Idle \in ScannerState
  /\ \A pc \in Pcs : [Idle EXCEPT !.pc = pc] \in ScannerState
BY Names DEF Idle, ScannerState, Pcs, Final

\* A process that only moves on stays well typed, and so do all.
LEMMA GotoTyped ==
  ASSUME TypeOK, NEW s \in Scanners, NEW pc \in Pcs, Goto(s, pc)
  PROVE  scanner' \in [Scanners -> ScannerState]
<1>1. scanner[s] \in ScannerState
  BY DEF TypeOK
<1>2. [scanner[s] EXCEPT !.pc = pc] \in ScannerState
  BY <1>1 DEF ScannerState, Pcs
<1> QED BY <1>2 DEF TypeOK, Goto

LEMMA ReturnTyped ==
  ASSUME TypeOK, NEW s \in Scanners, Return(s)
  PROVE  scanner' \in [Scanners -> ScannerState]
BY IdleTyped, Names DEF TypeOK, Return

LEMMA GuardedTyped ==
  ASSUME TypeOK, NEW s \in Scanners, NEW holds \in BOOLEAN, NEW state \in States,
         GuardedState(s, holds, state)
  PROVE  note' \in NoteState
BY DEF TypeOK, GuardedState, SetState, NoteState

\* The initial documents are well typed.
LEMMA TypeInit == Init => TypeOK /\ PlacesKnown
<1> SUFFICES ASSUME Init PROVE TypeOK /\ PlacesKnown
  OBVIOUS
<1>1. note \in NoteState /\ steady \subseteq Users /\ note.next = 0
  BY Names DEF Init, NoteState
<1>2. NoDelivery \in DeliveryState
  BY Names DEF NoDelivery, DeliveryState
<1>3. PlacesKnown
  BY <1>1 DEF Init, PlacesKnown, Idle, Sending
<1> QED
  BY <1>1, <1>2, <1>3, IdleTyped DEF Init, TypeOK

\* The author, the moderator, the audience and time keep the types.
LEMMA TypePeople ==
  ASSUME TypeOK, People \/ Housekeeping
  PROVE  TypeOK'
<1> USE DEF TypeOK, fanoutVars, audienceVars
<1>1. CASE AuditSubmission
  <2>1. note' \in NoteState
    BY <1>1 DEF AuditSubmission, NoteState
  <2> QED BY <1>1, <2>1 DEF AuditSubmission
<1>2. ASSUME NEW audience \in SUBSET Users,
             NEW state \in {"draft", "scheduled", "preparing"},
             EditDraft(audience, state)
      PROVE  TypeOK'
  <2>1. note' \in NoteState
    <3>1. state \in States /\ note.version + 1 \in Nat
      BY Names DEF NoteState
    <3> QED BY <1>2, <3>1 DEF EditDraft, NoteState
  <2> QED BY <1>2, <2>1 DEF EditDraft
<1>3. CASE Revoke
  <2>1. note' \in NoteState
    <3>1. "cancelled" \in States /\ note.version + 1 \in Nat
      BY Names DEF NoteState
    <3> QED BY <1>3, <3>1 DEF Revoke, NoteState
  <2> QED BY <1>3, <2>1 DEF Revoke
<1>4. CASE AuditRevocation
  BY <1>4 DEF AuditRevocation, NoteState
<1>5. CASE CancelDeliveries
  <2>1. delivery' \in [Users -> DeliveryState]
    <3>1. ASSUME NEW u \in Users
          PROVE  [delivery[u] EXCEPT !.state = "cancelled"] \in DeliveryState
      BY Names DEF DeliveryState
    <3> QED BY <1>5, <3>1 DEF CancelDeliveries
  <2> QED BY <1>5, <2>1 DEF CancelDeliveries
<1>6. CASE RevocationDies
  BY <1>6 DEF RevocationDies
<1>7. ASSUME NEW u \in Users, Leave(u) \/ Join(u) PROVE TypeOK'
  BY <1>7 DEF Leave, Join
<1>8. ASSUME NEW what \in {"expired", "author"}, Lapse(what) PROVE TypeOK'
  BY <1>8 DEF Lapse
<1>9. ASSUME NEW u \in Users, ReapDelivery(u) \/ DeliveryLeaseEnds(u)
      PROVE  TypeOK'
  <2>1. delivery' \in [Users -> DeliveryState]
    <3>1. /\ [delivery[u] EXCEPT !.state = Reaped] \in DeliveryState
          /\ [delivery[u] EXCEPT !.leased = FALSE] \in DeliveryState
      BY Names DEF DeliveryState, Reaped
    <3> QED BY <1>9, <3>1 DEF ReapDelivery, DeliveryLeaseEnds
  <2> QED BY <1>9, <2>1 DEF ReapDelivery, DeliveryLeaseEnds
<1>10. CASE NoteLeaseEnds
  BY <1>10 DEF NoteLeaseEnds, NoteState
<1>11. CASE RecoverAudit
  BY <1>11 DEF RecoverAudit, NoteState
<1> QED
  BY <1>1, <1>2, <1>3, <1>4, <1>5, <1>6, <1>7, <1>8, <1>9, <1>10, <1>11
  DEF People, Housekeeping

\* A scan that prepares, up to the checkpoint, keeps the types.
LEMMA TypePrepare ==
  ASSUME TypeOK, PlacesKnown, NEW s \in Scanners,
         \/ Claim(s) \/ AuditPublication(s) \/ Gate(s) \/ ListRecipients(s)
         \/ SaveChunk(s) \/ AdvanceCheckpoint(s)
  PROVE  TypeOK'
<1> USE DEF fanoutVars, audienceVars
<1>a. note \in NoteState /\ scanner[s] \in ScannerState
  BY DEF TypeOK
<1>b. SUFFICES /\ note' \in NoteState
               /\ scanner' \in [Scanners -> ScannerState]
               /\ chunks' \in Seq([users : SUBSET Users, done : BOOLEAN])
  BY DEF TypeOK, Claim, AuditPublication, Gate, ListRecipients, SaveChunk,
         AdvanceCheckpoint
<1>1. CASE Claim(s)
  <2>1. note' \in NoteState
    BY <1>1, <1>a DEF Claim, NoteState
  <2>2. [Idle EXCEPT !.pc = "audit", !.state = note.state,
                     !.audience = note.audience, !.cursor = note.cursor,
                     !.next = note.next, !.budget = ChunkBudget] \in ScannerState
    BY <1>a, IdleTyped, Names, SizeAssumption DEF NoteState, ScannerState, Pcs
  <2> QED BY <1>1, <2>1, <2>2 DEF Claim, TypeOK
<1>2. CASE AuditPublication(s)
  <2>1. note' \in NoteState
    BY <1>2, <1>a DEF AuditPublication, PublicationAudited, NoteState
  <2> QED BY <1>2, <2>1, GotoTyped, Names DEF AuditPublication, TypeOK
<1>3. CASE Gate(s)
  <2>1. note' \in NoteState
    BY <1>3, <1>a, GuardedTyped, Names DEF Gate
  <2>2. [scanner[s] EXCEPT !.pc = "list", !.state = "preparing"] \in ScannerState
    BY <1>a, Names DEF ScannerState, Pcs
  <2>3. scanner' \in [Scanners -> ScannerState]
    BY <1>3, <2>2, GotoTyped, ReturnTyped, Names DEF Gate, TypeOK
  <2> QED BY <1>3, <2>1, <2>3 DEF Gate, TypeOK
<1>4. CASE ListRecipients(s)
  <2>1. note' \in NoteState
    BY <1>4, <1>a, GuardedTyped, Names DEF ListRecipients
  <2>2. ASSUME NEW pc \in {"chunk", "open"}, NEW valid \in SUBSET Users
        PROVE  [scanner[s] EXCEPT !.pc = pc, !.audience = {}, !.valid = valid]
                 \in ScannerState
    BY <1>a, Names DEF ScannerState, Pcs
  <2>3. members \cap scanner[s].audience \in SUBSET Users
    BY DEF TypeOK
  <2>4. scanner' \in [Scanners -> ScannerState]
    <3>1. CASE "author" \notin lapsed
      BY <1>4, <3>1, <2>2, <2>3 DEF ListRecipients, TypeOK
    <3>2. CASE ~("author" \notin lapsed)
      BY <1>4, <3>2, ReturnTyped DEF ListRecipients
    <3> QED BY <3>1, <3>2
  <2> QED BY <1>4, <2>1, <2>4 DEF ListRecipients, TypeOK
<1>5. CASE SaveChunk(s)
  <2>1. note' \in NoteState
    BY <1>5, <1>a, GuardedTyped, Names DEF SaveChunk
  <2>2. scanner' \in [Scanners -> ScannerState]
    BY <1>5, GotoTyped, ReturnTyped, Names DEF SaveChunk
  <2>3. [users |-> FirstBatch(Beyond(s)), done |-> FALSE]
          \in [users : SUBSET Users, done : BOOLEAN]
    BY <1>a DEF FirstBatch, Beyond, ScannerState
  <2>4. chunks' \in Seq([users : SUBSET Users, done : BOOLEAN])
    <3> DEFINE T == [users : SUBSET Users, done : BOOLEAN]
               new == [users |-> FirstBatch(Beyond(s)), done |-> FALSE]
    <3>1. chunks \in Seq(T) /\ new \in T
      BY <2>3 DEF TypeOK
    <3>2. chunks' = chunks \/ chunks' = Append(chunks, new)
      BY <1>5 DEF SaveChunk
    <3> HIDE DEF T, new
    <3>3. chunks' \in Seq(T)
      BY <3>1, <3>2
    <3> QED BY <3>3 DEF T
  <2> QED BY <2>1, <2>2, <2>4
<1>6. CASE AdvanceCheckpoint(s)
  <2> DEFINE saved == chunks[scanner[s].next + 1].users
  <2>1. saved \in SUBSET Users
    <3> DEFINE T == [users : SUBSET Users, done : BOOLEAN]
    <3>1. chunks \in Seq(T)
      BY DEF TypeOK
    <3>2. scanner[s].next \in Nat /\ scanner[s].next < Len(chunks)
      BY <1>6, <1>a DEF AdvanceCheckpoint, PlacesKnown, ScannerState
    <3>3. chunks[scanner[s].next + 1] \in T
      <4> HIDE DEF T
      <4> QED BY <3>1, <3>2
    <3> QED BY <3>3
  <2>2. Cardinality(saved) \in Nat
    BY <2>1, AudienceSize
  <2>3. ASSUME NEW last \in Users
        PROVE  [note EXCEPT !.cursor = last, !.next = @ + 1,
                            !.count = @ + Cardinality(saved)] \in NoteState
    <3>1. /\ last \in Nat /\ note.next + 1 \in Nat
          /\ note.count + Cardinality(saved) \in Nat
      BY <1>a, <2>2, SizeAssumption DEF NoteState, Users
    <3> HIDE DEF saved
    <3> QED BY <1>a, <3>1 DEF NoteState
  <2>4. ASSUME NEW last \in Users, ~(scanner[s].budget <= 1)
        PROVE  [scanner[s] EXCEPT !.pc = "chunk", !.cursor = last,
                                  !.next = @ + 1, !.budget = @ - 1]
                 \in ScannerState
    <3>1. /\ last \in Nat /\ scanner[s].next + 1 \in Nat
          /\ scanner[s].budget - 1 \in Nat
      BY <1>a, <2>4, SizeAssumption DEF ScannerState, Users
    <3> QED BY <1>a, <3>1, Names DEF ScannerState, Pcs
  <2>5. note' \in NoteState
    <3> HIDE DEF saved
    <3> QED BY <1>6, <1>a, <2>3 DEF AdvanceCheckpoint, saved
  <2>6. scanner' \in [Scanners -> ScannerState]
    <3>1. CASE Return(s)
      BY <3>1, ReturnTyped
    <3>2. CASE ~Return(s)
      <4> DEFINE On(last) ==
                   [scanner[s] EXCEPT !.pc = "chunk", !.cursor = last,
                                      !.next = @ + 1, !.budget = @ - 1]
      <4>1. PICK last \in Users : /\ scanner' = [scanner EXCEPT ![s] = On(last)]
                                  /\ ~(scanner[s].budget <= 1)
        BY <1>6, <3>2 DEF AdvanceCheckpoint
      <4>2. On(last) \in ScannerState
        BY <2>4, <4>1
      <4> HIDE DEF On
      <4> QED BY <4>1, <4>2 DEF TypeOK
    <3> QED BY <3>1, <3>2
  <2> QED BY <1>6, <2>5, <2>6 DEF AdvanceCheckpoint, TypeOK
<1> QED BY <1>1, <1>2, <1>3, <1>4, <1>5, <1>6

\* Opening the first of some chunks keeps the types.
LEMMA OpenTyped ==
  ASSUME TypeOK, NEW s \in Scanners, NEW todo \in SUBSET DOMAIN chunks,
         OpenFirst(s, todo)
  PROVE  scanner' \in [Scanners -> ScannerState]
<1> DEFINE T == [users : SUBSET Users, done : BOOLEAN]
           Open(n) == [Idle EXCEPT !.pc = "fan", !.valid = scanner[s].valid,
                                   !.todo = todo, !.left = chunks[n].users]
<1>1. ASSUME NEW n \in todo PROVE Open(n) \in ScannerState
  <2>1. scanner[s].valid \in SUBSET Users /\ todo \in SUBSET Nat
    BY DEF TypeOK, ScannerState
  <2>2. chunks \in Seq(T)
    BY DEF TypeOK
  <2>3. chunks[n] \in T
    <3> HIDE DEF T
    <3> QED BY <2>2
  <2> QED BY <2>1, <2>3, IdleTyped, Names DEF ScannerState, Pcs
<1>2. [Idle EXCEPT !.pc = "publish"] \in ScannerState
  BY IdleTyped, Names
<1>3. CASE todo = {} /\ scanner' = [scanner EXCEPT ![s] =
                                      [Idle EXCEPT !.pc = "publish"]]
  BY <1>2, <1>3 DEF TypeOK
<1>4. ASSUME NEW n \in todo, scanner' = [scanner EXCEPT ![s] = Open(n)]
      PROVE  scanner' \in [Scanners -> ScannerState]
  <2> HIDE DEF Open
  <2> QED BY <1>1, <1>4 DEF TypeOK
<1> QED BY <1>3, <1>4 DEF OpenFirst

\* A scan that fans out and publishes keeps the types.
LEMMA TypeFanOut ==
  ASSUME TypeOK, PlacesKnown, NEW s \in Scanners,
         \/ OpenChunks(s) \/ FanOut(s) \/ WriteReceipt(s) \/ WriteDelivery(s)
         \/ FinishChunk(s) \/ Publish(s) \/ Release(s)
  PROVE  TypeOK'
<1> USE DEF fanoutVars, audienceVars
<1>a. note \in NoteState /\ scanner[s] \in ScannerState
  BY DEF TypeOK
<1>1. CASE OpenChunks(s)
  <2>1. scanner' \in [Scanners -> ScannerState]
    BY <1>1, OpenTyped DEF OpenChunks, Unfinished
  <2> QED BY <1>1, <2>1 DEF OpenChunks, TypeOK
<1>2. CASE FanOut(s)
  <2> DEFINE On(u) == [scanner[s] EXCEPT !.pc = "receipt", !.left = @ \ {u},
                                         !.user = u]
             Pass(u) == [scanner[s] EXCEPT !.left = @ \ {u}]
             Then(u) == IF ~(Guard(s) /\ note.state = "dispatching")
                        THEN [Idle EXCEPT !.pc = "release"]
                        ELSE IF u \notin scanner[s].valid THEN Pass(u) ELSE On(u)
  <2>1. PICK u \in scanner[s].left : scanner' = [scanner EXCEPT ![s] = Then(u)]
    BY <1>2 DEF FanOut
  <2>2. u \in Nat
    BY <1>a, SizeAssumption DEF ScannerState, Users
  <2>3. /\ [Idle EXCEPT !.pc = "release"] \in ScannerState
        /\ Pass(u) \in ScannerState /\ On(u) \in ScannerState
    BY <1>a, <2>2, IdleTyped, Names DEF ScannerState, Pcs
  <2>4. Then(u) \in ScannerState
    <3> HIDE DEF On, Pass
    <3> QED BY <2>3
  <2>5. scanner' \in [Scanners -> ScannerState]
    <3> HIDE DEF Then
    <3> QED BY <2>1, <2>4 DEF TypeOK
  <2> QED BY <1>2, <2>5 DEF FanOut, TypeOK
<1>3. CASE WriteReceipt(s)
  <2>1. scanner' \in [Scanners -> ScannerState]
    BY <1>3, GotoTyped, Names DEF WriteReceipt
  <2>2. scanner[s].user \in Users
    BY <1>3 DEF WriteReceipt, PlacesKnown
  <2> QED BY <1>3, <2>1, <2>2 DEF WriteReceipt, TypeOK
<1>4. CASE WriteDelivery(s)
  <2>1. scanner' \in [Scanners -> ScannerState]
    BY <1>4, GotoTyped, Names DEF WriteDelivery
  <2>2. ASSUME NEW u \in Users PROVE Upserted(u) \in DeliveryState
    <3>1. delivery[u] \in DeliveryState
      BY DEF TypeOK
    <3> QED BY <3>1, Names DEF Upserted, NoDelivery, DeliveryState
  <2>3. delivery' \in [Users -> DeliveryState]
    BY <1>4, <2>2 DEF WriteDelivery, PlacesKnown, TypeOK
  <2> QED BY <1>4, <2>1, <2>3 DEF WriteDelivery, TypeOK
<1>5. CASE FinishChunk(s)
  <2> DEFINE T == [users : SUBSET Users, done : BOOLEAN]
  <2>1. PICK n \in scanner[s].todo :
          /\ chunks' = [chunks EXCEPT ![n].done = TRUE]
          /\ OpenFirst(s, scanner[s].todo \ {n})
    BY <1>5 DEF FinishChunk
  <2>2. scanner[s].todo \in SUBSET DOMAIN chunks
    BY DEF PlacesKnown
  <2>3. scanner' \in [Scanners -> ScannerState]
    BY <2>1, <2>2, OpenTyped
  <2>4. chunks \in Seq(T) /\ n \in DOMAIN chunks
    BY <2>2 DEF TypeOK
  <2>5. chunks[n] \in T
    <3> HIDE DEF T
    <3> QED BY <2>4
  <2>6. [chunks[n] EXCEPT !.done = TRUE] \in T
    BY <2>5
  <2>7. chunks' \in Seq(T)
    <3> HIDE DEF T
    <3> QED BY <2>1, <2>4, <2>6
  <2> QED BY <1>5, <2>3, <2>7 DEF FinishChunk, TypeOK
<1>6. CASE Publish(s)
  <2>1. Cardinality(receipts) \in Nat
    BY AudienceSize DEF TypeOK
  <2>2. [note EXCEPT !.state = "published", !.count = Cardinality(receipts)]
          \in NoteState
    BY <1>a, <2>1, Names DEF NoteState
  <2>3. note' \in NoteState
    BY <1>6, <1>a, <2>2 DEF Publish
  <2> QED BY <1>6, <2>3, ReturnTyped DEF Publish, TypeOK
<1>7. CASE Release(s)
  <2>1. note' \in NoteState
    BY <1>7, <1>a DEF Release, NoteState
  <2> QED BY <1>7, <2>1, IdleTyped DEF Release, TypeOK
<1> QED BY <1>1, <1>2, <1>3, <1>4, <1>5, <1>6, <1>7

\* A delivery on its way, and a killed process, keep the types.
LEMMA TypeDeliver ==
  ASSUME TypeOK, PlacesKnown, NEW s \in Scanners,
         \/ \E u \in Users : LeaseDelivery(s, u)
         \/ CheckDelivery(s) \/ SendMail(s) \/ RecordDelivery(s) \/ Crash(s)
  PROVE  TypeOK'
<1> USE DEF fanoutVars, audienceVars
<1>a. scanner[s] \in ScannerState
  BY DEF TypeOK
<1>b. ASSUME NEW outcome \in Final \cup {"retry_wait"}, Verdict(s, outcome)
      PROVE  scanner' \in [Scanners -> ScannerState]
  <2>1. [scanner[s] EXCEPT !.pc = "record", !.outcome = outcome] \in ScannerState
    BY <1>a, Names DEF ScannerState, Pcs
  <2> QED BY <1>b, <2>1 DEF Verdict, TypeOK
<1>1. ASSUME NEW u \in Users, LeaseDelivery(s, u) PROVE TypeOK'
  <2>1. delivery[u] \in DeliveryState /\ u \in Nat
    BY SizeAssumption DEF TypeOK, Users
  <2>2. [delivery[u] EXCEPT !.state = "leased", !.token = s, !.leased = TRUE,
                            !.attempts = delivery[u].attempts + 1]
          \in DeliveryState
    <3>1. delivery[u].attempts + 1 \in Nat
      BY <2>1 DEF DeliveryState
    <3> QED BY <2>1, <3>1, Names DEF DeliveryState
  <2>3. [Idle EXCEPT !.pc = "check", !.user = u] \in ScannerState
    BY <2>1, IdleTyped, Names DEF ScannerState, Pcs
  <2> QED BY <1>1, <2>2, <2>3 DEF LeaseDelivery, TypeOK
<1>2. CASE CheckDelivery(s)
  <2>1. scanner' \in [Scanners -> ScannerState]
    BY <1>2, <1>b, GotoTyped, Names DEF CheckDelivery, Final
  <2> QED BY <1>2, <2>1 DEF CheckDelivery, TypeOK
<1>3. CASE SendMail(s)
  <2>1. scanner' \in [Scanners -> ScannerState]
    BY <1>3, <1>b DEF SendMail, Final
  <2>2. mails' \in [Users -> Nat]
    BY <1>3 DEF SendMail, TypeOK
  <2> QED BY <1>3, <2>1, <2>2 DEF SendMail, TypeOK
<1>4. CASE RecordDelivery(s)
  <2> DEFINE u == scanner[s].user
  <2>1. delivery[u] \in DeliveryState
    BY <1>4 DEF RecordDelivery, PlacesKnown, Sending, TypeOK
  <2>2. Recorded(u, scanner[s].outcome) \in {"none", "leased"} \cup Waiting \cup Final
    BY <1>a DEF Recorded, ScannerState, Waiting, Final
  <2>3. [delivery[u] EXCEPT !.state = Recorded(u, scanner[s].outcome),
                            !.token = NoOne, !.leased = FALSE] \in DeliveryState
    BY <2>1, <2>2 DEF DeliveryState
  <2>4. delivery' \in [Users -> DeliveryState]
    BY <1>4, <2>3 DEF RecordDelivery, TypeOK
  <2>5. scanner' \in [Scanners -> ScannerState]
    BY <1>4, IdleTyped DEF RecordDelivery, TypeOK
  <2> QED BY <1>4, <2>4, <2>5 DEF RecordDelivery, TypeOK
<1>5. CASE Crash(s)
  <2>1. scanner' \in [Scanners -> ScannerState] /\ crashes' \in Nat
    BY <1>5, IdleTyped DEF Crash, TypeOK
  <2> QED BY <1>5, <2>1 DEF Crash, TypeOK
<1> QED BY <1>1, <1>2, <1>3, <1>4, <1>5

\* Every step keeps the types.
LEMMA TypeNext == TypeOK /\ PlacesKnown /\ [Next]_vars => TypeOK'
<1> SUFFICES ASSUME TypeOK, PlacesKnown, [Next]_vars PROVE TypeOK'
  OBVIOUS
<1>1. ASSUME NEW s \in Scanners, Claim(s) \/ DispatchStep(s) PROVE TypeOK'
  BY <1>1, TypePrepare, TypeFanOut DEF DispatchStep
<1>2. ASSUME NEW s \in Scanners, DeliverStep(s) \/ Crash(s) PROVE TypeOK'
  BY <1>2, TypeDeliver DEF DeliverStep
<1>3. ASSUME NEW s \in Scanners, NEW u \in Users, LeaseDelivery(s, u)
      PROVE  TypeOK'
  BY <1>3, TypeDeliver
<1>4. CASE People \/ Housekeeping
  BY <1>4, TypePeople
<1>5. CASE UNCHANGED vars
  BY <1>5 DEF vars, fanoutVars, audienceVars, TypeOK
<1> QED BY <1>1, <1>2, <1>3, <1>4, <1>5 DEF Next

-----------------------------------------------------------------------------
(* The places of the processes                                             *)

\* One process's part of PlacesKnown, when there are n chunks.
PlaceOf(p, n) ==
  /\ p.next <= n
  /\ p.pc = "checkpoint" => p.next < n
  /\ p.todo \subseteq 1..n
  /\ p.pc \in {"receipt", "delivery"} \cup Sending => p.user \in Users

LEMMA PlacesOneByOne ==
  ASSUME TypeOK
  PROVE  PlacesKnown <=>
           /\ note.next <= Len(chunks)
           /\ \A s \in Scanners : PlaceOf(scanner[s], Len(chunks))
BY DEF TypeOK, PlacesKnown, PlaceOf

\* Chunks are only added: a place stays known.
LEMMA PlaceStays ==
  ASSUME NEW p \in ScannerState, NEW n \in Nat, NEW m \in Nat, n <= m,
         PlaceOf(p, n)
  PROVE  PlaceOf(p, m)
BY DEF PlaceOf, ScannerState

LEMMA ChunksGrow ==
  ASSUME TypeOK, NEW s \in Scanners, SaveChunk(s) \/ FinishChunk(s)
  PROVE  Len(chunks') >= Len(chunks) /\ Len(chunks') \in Nat
<1> DEFINE T == [users : SUBSET Users, done : BOOLEAN]
<1>1. chunks \in Seq(T)
  BY DEF TypeOK
<1> HIDE DEF T
<1>2. CASE SaveChunk(s)
  BY <1>1, <1>2 DEF SaveChunk
<1>3. CASE FinishChunk(s)
  BY <1>1, <1>3 DEF FinishChunk
<1> QED BY <1>2, <1>3

\* A step that leaves the chunks and the document alone and moves one process to
\* a known place keeps the places known.
LEMMA PlaceMoves ==
  ASSUME TypeOK, PlacesKnown, TypeOK', NEW s \in Scanners, NEW p,
         scanner' = [scanner EXCEPT ![s] = p],
         NEW m \in Nat, Len(chunks') = m, Len(chunks) <= m, Len(chunks) \in Nat,
         PlaceOf(p, m), note'.next <= m
  PROVE  PlacesKnown'
<1>1. ASSUME NEW t \in Scanners PROVE PlaceOf(scanner'[t], m)
  <2>1. PlaceOf(scanner[t], Len(chunks)) /\ scanner[t] \in ScannerState
    BY PlacesOneByOne DEF TypeOK
  <2>2. CASE t = s
    BY <2>2 DEF TypeOK
  <2>3. CASE t # s
    BY <2>1, <2>3, PlaceStays DEF TypeOK
  <2> QED BY <2>2, <2>3
<1>2. PlacesKnown' <=> /\ note'.next <= m
                       /\ \A t \in Scanners : PlaceOf(scanner'[t], m)
  BY DEF TypeOK, PlacesKnown, PlaceOf
<1> QED BY <1>1, <1>2

\* A process that forgets what it knew is at a known place.
LEMMA IdlePlace ==
  \A n \in Nat : /\ PlaceOf(Idle, n)
                 /\ PlaceOf([Idle EXCEPT !.pc = "release"], n)
                 /\ PlaceOf([Idle EXCEPT !.pc = "publish"], n)
BY DEF PlaceOf, Idle, Sending

\* Every step of a dispatch keeps the places known.
LEMMA PlacesDispatch ==
  ASSUME TypeOK, PlacesKnown, TypeOK', NEW s \in Scanners,
         Claim(s) \/ DispatchStep(s)
  PROVE  PlacesKnown'
<1> DEFINE n == Len(chunks)
<1> USE DEF fanoutVars, audienceVars
<1>a. /\ n \in Nat /\ PlaceOf(scanner[s], n) /\ scanner[s] \in ScannerState
      /\ note.next \in Nat /\ note.next <= n /\ note \in NoteState
  BY PlacesOneByOne DEF TypeOK, NoteState
<1>b. ASSUME NEW p, scanner' = [scanner EXCEPT ![s] = p], PlaceOf(p, n),
             note'.next <= n, chunks' = chunks
      PROVE  PlacesKnown'
  <2>1. Len(chunks') = n /\ n <= n
    BY <1>a, <1>b
  <2> HIDE DEF n
  <2> QED BY <1>a, <1>b, <2>1, PlaceMoves DEF n
<1>c. ASSUME Return(s), note'.next <= n, chunks' = chunks PROVE PlacesKnown'
  <2>1. PlaceOf([Idle EXCEPT !.pc = "release"], n)
    BY <1>a, IdlePlace
  <2> QED BY <1>b, <1>c, <2>1 DEF Return
<1>d. ASSUME NEW pc \in Pcs \ ({"checkpoint", "receipt", "delivery"} \cup Sending),
             Goto(s, pc), note'.next <= n, chunks' = chunks
      PROVE  PlacesKnown'
  <2>1. PlaceOf([scanner[s] EXCEPT !.pc = pc], n)
    BY <1>a DEF PlaceOf, ScannerState
  <2> QED BY <1>b, <1>d, <2>1 DEF Goto
<1>e. ASSUME NEW state, NEW holds, GuardedState(s, holds, state)
      PROVE  note'.next <= n
  BY <1>a, <1>e DEF GuardedState, SetState, NoteState
<1>f. ASSUME NEW todo \in SUBSET 1..n, OpenFirst(s, todo), note' = note,
             Len(chunks') = n
      PROVE  PlacesKnown'
  <2>1. PICK p : /\ scanner' = [scanner EXCEPT ![s] = p]
                 /\ PlaceOf(p, n)
    <3>1. CASE todo = {} /\ scanner' = [scanner EXCEPT ![s] =
                                          [Idle EXCEPT !.pc = "publish"]]
      BY <1>a, <3>1, IdlePlace
    <3>2. ASSUME NEW m \in todo,
                 scanner' = [scanner EXCEPT ![s] =
                   [Idle EXCEPT !.pc = "fan", !.valid = scanner[s].valid,
                                !.todo = todo, !.left = chunks[m].users]]
          PROVE  \E p : /\ scanner' = [scanner EXCEPT ![s] = p]
                        /\ PlaceOf(p, n)
      <4>1. PlaceOf([Idle EXCEPT !.pc = "fan", !.valid = scanner[s].valid,
                            !.todo = todo, !.left = chunks[m].users], n)
        BY <1>a, <1>f DEF PlaceOf, Idle, Sending
      <4> QED BY <3>2, <4>1
    <3> QED BY <1>f, <3>1, <3>2 DEF OpenFirst
  <2>2. Len(chunks') = n /\ n <= n /\ note'.next <= n
    BY <1>a, <1>f
  <2> HIDE DEF n
  <2> QED BY <1>a, <2>1, <2>2, PlaceMoves DEF n
<1>1. CASE Claim(s)
  <2> DEFINE p == [Idle EXCEPT !.pc = "audit", !.state = note.state,
                               !.audience = note.audience, !.cursor = note.cursor,
                               !.next = note.next, !.budget = ChunkBudget]
  <2>1. PlaceOf(p, n)
    BY <1>a DEF PlaceOf, Idle, Sending
  <2>2. note'.next = note.next
    BY <1>1, <1>a DEF Claim, NoteState
  <2>3. scanner' = [scanner EXCEPT ![s] = p] /\ chunks' = chunks
    BY <1>1 DEF Claim
  <2> QED BY <1>a, <1>b, <2>1, <2>2, <2>3
<1>2. CASE AuditPublication(s)
  <2>1. note'.next = note.next
    BY <1>2, <1>a DEF AuditPublication, NoteState
  <2> QED BY <1>2, <1>a, <1>d, <2>1, Names DEF AuditPublication, Sending
<1>3. CASE Gate(s)
  <2> DEFINE p == [scanner[s] EXCEPT !.pc = "list", !.state = "preparing"]
  <2>1. PlaceOf(p, n)
    BY <1>a DEF PlaceOf, ScannerState, Sending
  <2>2. note'.next <= n /\ chunks' = chunks
    BY <1>3, <1>a, <1>e DEF Gate
  <2>3. \/ Return(s) \/ scanner' = [scanner EXCEPT ![s] = p] \/ Goto(s, "list")
    BY <1>3 DEF Gate
  <2>4. CASE Goto(s, "list")
    BY <1>d, <2>2, <2>4, Names DEF Sending
  <2> QED BY <1>b, <1>c, <2>1, <2>2, <2>3, <2>4
<1>4. CASE ListRecipients(s)
  <2>1. note'.next <= n /\ chunks' = chunks
    BY <1>4, <1>a, <1>e DEF ListRecipients
  <2>2. CASE "author" \notin lapsed
    <3> DEFINE p == [scanner[s] EXCEPT
                       !.pc = IF scanner[s].state = "preparing"
                              THEN "chunk" ELSE "open",
                       !.audience = {},
                       !.valid = members \cap scanner[s].audience]
    <3>1. PlaceOf(p, n)
      BY <1>a DEF PlaceOf, ScannerState, Sending
    <3>2. scanner' = [scanner EXCEPT ![s] = p]
      BY <1>4, <2>2 DEF ListRecipients
    <3> QED BY <1>b, <2>1, <3>1, <3>2
  <2>3. CASE ~("author" \notin lapsed)
    BY <1>4, <1>c, <2>1, <2>3 DEF ListRecipients
  <2> QED BY <2>2, <2>3
<1>5. CASE SaveChunk(s)
  <2>1. note'.next <= n
    BY <1>5, <1>a, <1>e DEF SaveChunk
  <2>2. CASE Goto(s, "checkpoint")
    <3> DEFINE p == [scanner[s] EXCEPT !.pc = "checkpoint"]
    <3>1. PICK m \in Nat : Len(chunks') = m /\ n <= m
      BY <1>a, <1>5, ChunksGrow
    <3>2. scanner[s].next < m
      <4>1. CASE scanner[s].next < n
        BY <1>a, <3>1, <4>1 DEF ScannerState
      <4>2. CASE ~(scanner[s].next < n)
        <5> DEFINE T == [users : SUBSET Users, done : BOOLEAN]
                   new == [users |-> FirstBatch(Beyond(s)), done |-> FALSE]
        <5>1. chunks' = Append(chunks, new)
          <6>1. Goto(s, "checkpoint") => scanner'[s].pc = "checkpoint"
            BY <1>a DEF Goto, TypeOK, ScannerState
          <6>2. /\ Goto(s, "open") => scanner'[s].pc = "open"
                /\ Return(s) => scanner'[s].pc = "release"
            BY <1>a DEF Goto, Return, Idle, TypeOK, ScannerState
          <6>3. ~Goto(s, "open") /\ ~Return(s)
            BY <2>2, <6>1, <6>2
          <6> QED BY <1>5, <4>2, <6>3 DEF SaveChunk
        <5>2. chunks \in Seq(T)
          BY DEF TypeOK
        <5>3. Len(chunks') = n + 1
          <6> HIDE DEF T, new
          <6> QED BY <5>1, <5>2
        <5> QED BY <1>a, <3>1, <5>3 DEF ScannerState, PlaceOf
      <4> QED BY <4>1, <4>2
    <3>3. PlaceOf(p, m)
      BY <1>a, <3>1, <3>2 DEF PlaceOf, ScannerState, Sending
    <3>4. note'.next <= m /\ note'.next \in Nat
      BY <1>a, <2>1, <3>1 DEF TypeOK, NoteState
    <3>5. scanner' = [scanner EXCEPT ![s] = p]
      BY <2>2 DEF Goto
    <3> HIDE DEF n, p
    <3> QED BY <1>a, <3>1, <3>3, <3>4, <3>5, PlaceMoves DEF n
  <2>3. CASE ~Goto(s, "checkpoint")
    <3>1. chunks' = chunks /\ (Goto(s, "open") \/ Return(s))
      BY <1>5, <2>3 DEF SaveChunk
    <3>2. "open" \in Pcs \ ({"checkpoint", "receipt", "delivery"} \cup Sending)
      BY Names DEF Sending
    <3> QED BY <1>c, <1>d, <2>1, <3>1, <3>2
  <2> QED BY <2>2, <2>3
<1>6. CASE AdvanceCheckpoint(s)
  <2>1. chunks' = chunks
    BY <1>6 DEF AdvanceCheckpoint
  <2>2. scanner[s].next < n
    BY <1>6, <1>a DEF AdvanceCheckpoint, PlaceOf
  <2>3. note'.next = note.next \/
          (note'.next = note.next + 1 /\ note.next = scanner[s].next)
    BY <1>6, <1>a DEF AdvanceCheckpoint, NoteState
  <2>4. note'.next <= n
    BY <1>a, <2>2, <2>3 DEF ScannerState
  <2>5. CASE ~Return(s)
    <3> DEFINE On(last) == [scanner[s] EXCEPT !.pc = "chunk", !.cursor = last,
                                              !.next = scanner[s].next + 1,
                                              !.budget = scanner[s].budget - 1]
    <3>1. PICK last \in Users : scanner' = [scanner EXCEPT ![s] = On(last)]
      BY <1>6, <2>5 DEF AdvanceCheckpoint
    <3>2. PlaceOf(On(last), n)
      BY <1>a, <2>2 DEF PlaceOf, ScannerState, Sending
    <3> HIDE DEF On
    <3> QED BY <1>b, <2>1, <2>4, <3>1, <3>2
  <2> QED BY <1>c, <2>1, <2>4, <2>5
<1>7. CASE OpenChunks(s)
  <2>1. {m \in Unfinished : Cardinality({k \in Unfinished : k < m}) < ChunkBudget}
          \in SUBSET 1..n
    BY DEF Unfinished, TypeOK
  <2> QED BY <1>7, <1>f, <2>1 DEF OpenChunks
<1>8. CASE FanOut(s)
  <2> DEFINE On(u) == [scanner[s] EXCEPT !.pc = "receipt",
                         !.left = scanner[s].left \ {u}, !.user = u]
             Pass(u) == [scanner[s] EXCEPT !.left = scanner[s].left \ {u}]
  <2>1. note'.next <= n /\ chunks' = chunks
    BY <1>8, <1>a DEF FanOut
  <2>2. PICK u \in scanner[s].left :
          \/ scanner' = [scanner EXCEPT ![s] = [Idle EXCEPT !.pc = "release"]]
          \/ scanner' = [scanner EXCEPT ![s] = Pass(u)]
          \/ scanner' = [scanner EXCEPT ![s] = On(u)]
    BY <1>8 DEF FanOut
  <2>3. PlaceOf(Pass(u), n)
    BY <1>8, <1>a DEF FanOut, PlaceOf, ScannerState, Sending
  <2>4. PlaceOf(On(u), n)
    BY <1>a DEF PlaceOf, ScannerState, Sending
  <2> HIDE DEF On, Pass
  <2> QED BY <1>a, <1>b, <2>1, <2>2, <2>3, <2>4, IdlePlace
<1>9. CASE WriteReceipt(s)
  <2> DEFINE p == [scanner[s] EXCEPT !.pc = IF Email THEN "delivery" ELSE "fan"]
  <2>1. PlaceOf(p, n)
    BY <1>9, <1>a DEF WriteReceipt, PlaceOf, ScannerState, Sending
  <2>2. scanner' = [scanner EXCEPT ![s] = p] /\ note' = note /\ chunks' = chunks
    BY <1>9 DEF WriteReceipt, Goto
  <2> HIDE DEF p
  <2> QED BY <1>a, <1>b, <2>1, <2>2
<1>10. CASE WriteDelivery(s)
  BY <1>10, <1>a, <1>d, Names DEF WriteDelivery, Sending
<1>11. CASE FinishChunk(s)
  <2>1. PICK m \in scanner[s].todo : /\ chunks' = [chunks EXCEPT ![m].done = TRUE]
                                     /\ OpenFirst(s, scanner[s].todo \ {m})
                                     /\ note' = note
    BY <1>11 DEF FinishChunk
  <2>2. Len(chunks') = n
    <3> DEFINE T == [users : SUBSET Users, done : BOOLEAN]
    <3>1. chunks \in Seq(T)
      BY DEF TypeOK
    <3> HIDE DEF T
    <3> QED BY <2>1, <3>1
  <2>3. scanner[s].todo \ {m} \in SUBSET 1..n
    BY <1>a DEF PlaceOf
  <2> QED BY <1>f, <2>1, <2>2, <2>3
<1>12. CASE Publish(s)
  <2>1. note'.next <= n
    BY <1>12, <1>a DEF Publish, NoteState
  <2> QED BY <1>12, <1>c, <2>1 DEF Publish
<1>13. CASE Release(s)
  <2>1. note'.next <= n
    BY <1>13, <1>a DEF Release, NoteState
  <2> QED BY <1>13, <1>a, <1>b, <2>1, IdlePlace DEF Release
<1> QED
  BY <1>1, <1>2, <1>3, <1>4, <1>5, <1>6, <1>7, <1>8, <1>9, <1>10, <1>11, <1>12,
     <1>13 DEF DispatchStep

\* Every step keeps the places known.
LEMMA PlacesNext ==
  ASSUME TypeOK, PlacesKnown, TypeOK', [Next]_vars
  PROVE  PlacesKnown'
<1> USE DEF fanoutVars, audienceVars
<1>a. /\ Len(chunks) \in Nat /\ note \in NoteState
      /\ note.next \in Nat /\ note.next <= Len(chunks)
  BY DEF TypeOK, NoteState, PlacesKnown
<1>b. ASSUME note'.next = note.next, chunks' = chunks, scanner' = scanner
      PROVE  PlacesKnown'
  BY <1>b DEF PlacesKnown
<1>c. ASSUME NEW s \in Scanners, note' = note, chunks' = chunks, NEW p,
             scanner' = [scanner EXCEPT ![s] = p], PlaceOf(p, Len(chunks))
      PROVE  PlacesKnown'
  <2> DEFINE n == Len(chunks)
  <2>1. n \in Nat /\ Len(chunks') = n /\ n <= n /\ note'.next <= n
    BY <1>a, <1>c
  <2>2. PlaceOf(p, n) /\ Len(chunks) = n
    BY <1>c
  <2> HIDE DEF n
  <2> QED BY <1>c, <2>1, <2>2, PlaceMoves
<1>1. ASSUME NEW s \in Scanners, Claim(s) \/ DispatchStep(s) PROVE PlacesKnown'
  BY <1>1, PlacesDispatch
<1>2. ASSUME NEW s \in Scanners, NEW u \in Users, LeaseDelivery(s, u)
      PROVE  PlacesKnown'
  <2>1. PlaceOf([Idle EXCEPT !.pc = "check", !.user = u], Len(chunks))
    BY <1>a DEF PlaceOf, Idle
  <2> QED BY <1>2, <1>c, <2>1 DEF LeaseDelivery
<1>3. ASSUME NEW s \in Scanners, DeliverStep(s) PROVE PlacesKnown'
  <2>a. /\ PlaceOf(scanner[s], Len(chunks)) /\ scanner[s] \in ScannerState
        /\ scanner[s].pc \in Sending
    BY <1>3, PlacesOneByOne
    DEF DeliverStep, CheckDelivery, SendMail, RecordDelivery, Sending, TypeOK
  <2>1. PlaceOf([scanner[s] EXCEPT !.pc = "send"], Len(chunks))
    BY <2>a DEF PlaceOf, ScannerState, Sending
  <2>2. ASSUME NEW outcome, Verdict(s, outcome), note' = note, chunks' = chunks
        PROVE  PlacesKnown'
    <3>1. PlaceOf([scanner[s] EXCEPT !.pc = "record", !.outcome = outcome],
                  Len(chunks))
      BY <2>a DEF PlaceOf, ScannerState, Sending
    <3> QED BY <1>c, <2>2, <3>1 DEF Verdict
  <2>3. CASE CheckDelivery(s)
    BY <1>c, <2>1, <2>2, <2>3 DEF CheckDelivery, Goto
  <2>4. CASE SendMail(s)
    BY <2>2, <2>4 DEF SendMail
  <2>5. CASE RecordDelivery(s)
    BY <1>a, <1>c, <2>5, IdlePlace DEF RecordDelivery
  <2> QED BY <1>3, <2>3, <2>4, <2>5 DEF DeliverStep
<1>4. ASSUME NEW s \in Scanners, Crash(s) PROVE PlacesKnown'
  BY <1>4, <1>a, <1>c, IdlePlace DEF Crash
<1>5. CASE People \/ Housekeeping
  <2>1. note'.next = note.next /\ chunks' = chunks /\ scanner' = scanner
    BY <1>5, <1>a
    DEF People, Housekeeping, AuditSubmission, EditDraft, Revoke,
        AuditRevocation, CancelDeliveries, RevocationDies, Leave, Join, Lapse,
        ReapDelivery, DeliveryLeaseEnds, NoteLeaseEnds, RecoverAudit, NoteState
  <2> QED BY <1>b, <2>1
<1>6. CASE UNCHANGED vars
  BY <1>6, <1>b DEF vars
<1> QED BY <1>1, <1>2, <1>3, <1>4, <1>5, <1>6 DEF Next

-----------------------------------------------------------------------------
(* No user is mailed twice                                                 *)

MailFacts == ServedAlone /\ ServedIsLeased /\ MailedIsOver /\ MailedOnce

\* A step that mails nobody, takes no delivery to serve, and only ends
\* deliveries or touches those that nobody serves and nobody was mailed for.
LEMMA QuietStep ==
  ASSUME TypeOK, MailFacts, mails' = mails,
         \A s \in Scanners, u \in Users :
           Serving(s, u)' => scanner'[s] = scanner[s],
         \A u \in Users :
           \/ /\ delivery'[u].state = delivery[u].state
              /\ delivery'[u].token = delivery[u].token
           \/ delivery'[u].state \in Final
           \/ delivery[u].state \notin {"leased"} \cup Final
  PROVE  MailFacts'
<1>a. ASSUME NEW s \in Scanners, NEW u \in Users, Serving(s, u)'
      PROVE  Serving(s, u) /\ scanner'[s] = scanner[s]
  BY <1>a DEF Serving
<1>1. ServedAlone'
  BY <1>a DEF MailFacts, ServedAlone
<1>2. ServedIsLeased'
  BY <1>a DEF MailFacts, ServedIsLeased
<1>3. MailedIsOver'
  BY <1>a DEF MailFacts, MailedIsOver
<1>4. MailedOnce'
  BY DEF MailFacts, MailedOnce
<1> QED BY <1>1, <1>2, <1>3, <1>4 DEF MailFacts

\* A waiting delivery is served by nobody, and nobody was mailed for it.
LEMMA WaitingIsUnserved ==
  ASSUME TypeOK, MailFacts, NEW u \in Users, delivery[u].state \in Waiting
  PROVE  mails[u] = 0 /\ \A s \in Scanners : ~Serving(s, u)
BY DEF TypeOK, MailFacts, ServedIsLeased, MailedIsOver, Waiting, Final

\* Steps of a dispatch mail nobody.
LEMMA MailDispatch ==
  ASSUME TypeOK, MailFacts, NEW s \in Scanners, Claim(s) \/ DispatchStep(s),
         TypeOK'
  PROVE  MailFacts'
<1> USE DEF fanoutVars, audienceVars
<1>1. mails' = mails
  BY DEF Claim, DispatchStep, AuditPublication, Gate, ListRecipients, SaveChunk,
         AdvanceCheckpoint, OpenChunks, FanOut, WriteReceipt, WriteDelivery,
         FinishChunk, Publish, Release
<1>a. scanner \in [Scanners -> ScannerState]
  BY DEF TypeOK
<1>b. ASSUME NEW pc \in Dispatch, Goto(s, pc) PROVE scanner'[s].pc \notin Sending
  BY <1>a, <1>b DEF Goto, ScannerState, Dispatch, Sending
<1>c. ASSUME Return(s) PROVE scanner'[s].pc \notin Sending
  BY <1>a, <1>c DEF Return, Idle, Sending
<1>d. ASSUME NEW todo, OpenFirst(s, todo) PROVE scanner'[s].pc \notin Sending
  BY <1>a, <1>d DEF OpenFirst, Idle, Sending
<1>2. scanner'[s].pc \notin Sending
  <2>1. CASE Claim(s)
    BY <1>a, <2>1 DEF Claim, Idle, Sending
  <2>2. CASE AuditPublication(s) \/ WriteReceipt(s) \/ WriteDelivery(s)
    BY <1>b, <2>2 DEF AuditPublication, WriteReceipt, WriteDelivery, Dispatch
  <2>3. CASE Gate(s)
    BY <1>a, <1>b, <1>c, <2>3 DEF Gate, ScannerState, Dispatch, Sending
  <2>4. CASE ListRecipients(s)
    <3>1. CASE "author" \notin lapsed
      <4>1. scanner'[s].pc \in {"chunk", "open"}
        <5> DEFINE p == [scanner[s] EXCEPT
                           !.pc = IF scanner[s].state = "preparing"
                                  THEN "chunk" ELSE "open",
                           !.audience = {},
                           !.valid = members \cap scanner[s].audience]
        <5>1. scanner' = [scanner EXCEPT ![s] = p]
          BY <2>4, <3>1 DEF ListRecipients
        <5>2. p.pc \in {"chunk", "open"}
          BY <1>a DEF ScannerState
        <5> HIDE DEF p
        <5> QED BY <1>a, <5>1, <5>2
      <4> QED BY <4>1 DEF Sending
    <3>2. CASE ~("author" \notin lapsed)
      BY <1>c, <2>4, <3>2 DEF ListRecipients
    <3> QED BY <3>1, <3>2
  <2>5. CASE SaveChunk(s)
    BY <1>b, <1>c, <2>5 DEF SaveChunk, Dispatch
  <2>6. CASE AdvanceCheckpoint(s)
    <3>1. ASSUME NEW p, p.pc = "chunk", scanner' = [scanner EXCEPT ![s] = p]
          PROVE  scanner'[s].pc \notin Sending
      BY <1>a, <3>1 DEF Sending
    <3>2. \A last : [scanner[s] EXCEPT !.pc = "chunk", !.cursor = last,
                       !.next = scanner[s].next + 1,
                       !.budget = scanner[s].budget - 1].pc = "chunk"
      BY <1>a DEF ScannerState
    <3> QED BY <1>c, <2>6, <3>1, <3>2 DEF AdvanceCheckpoint
  <2>7. CASE OpenChunks(s) \/ FinishChunk(s)
    BY <1>d, <2>7 DEF OpenChunks, FinishChunk
  <2>8. CASE FanOut(s)
    BY <1>a, <2>8 DEF FanOut, ScannerState, Idle, Sending
  <2>9. CASE Publish(s)
    BY <1>c, <2>9 DEF Publish
  <2>10. CASE Release(s)
    BY <1>a, <2>10 DEF Release, Idle, Sending
  <2> QED
    BY <2>1, <2>2, <2>3, <2>4, <2>5, <2>6, <2>7, <2>8, <2>9, <2>10
    DEF DispatchStep
<1>3. \A t \in Scanners \ {s} : scanner'[t] = scanner[t]
  BY DEF Claim, DispatchStep, AuditPublication, Gate, ListRecipients, SaveChunk,
         AdvanceCheckpoint, OpenChunks, OpenFirst, FanOut, WriteReceipt,
         WriteDelivery, FinishChunk, Publish, Release, Goto, Return, TypeOK
<1>4. ASSUME NEW u \in Users
      PROVE  delivery'[u] = delivery[u] \/ delivery[u].state = "none"
  <2>1. CASE WriteDelivery(s)
    BY <2>1 DEF WriteDelivery, Upserted, TypeOK
  <2>2. CASE ~WriteDelivery(s)
    BY <2>2 DEF Claim, DispatchStep, AuditPublication, Gate, ListRecipients,
      SaveChunk, AdvanceCheckpoint, OpenChunks, FanOut, WriteReceipt,
      FinishChunk, Publish, Release
  <2> QED BY <2>1, <2>2
<1>5. \A t \in Scanners, u \in Users :
        Serving(t, u)' => scanner'[t] = scanner[t]
  BY <1>2, <1>3 DEF Serving
<1> QED BY <1>1, <1>4, <1>5, QuietStep DEF Final

\* Steps of a delivery, in the order in which one process takes them.
LEMMA MailDeliver ==
  ASSUME TypeOK, PlacesKnown, MailFacts, NEW s \in Scanners, TypeOK',
         \/ \E u \in Users : LeaseDelivery(s, u)
         \/ DeliverStep(s) \/ Crash(s)
  PROVE  MailFacts'
<1> USE DEF fanoutVars, audienceVars
<1>a. \A t \in Scanners \ {s} : scanner'[t] = scanner[t]
  BY DEF LeaseDelivery, DeliverStep, CheckDelivery, SendMail, RecordDelivery,
         Crash, Verdict, Goto, TypeOK
<1>b. \A t \in Scanners \ {s}, u \in Users : Serving(t, u)' <=> Serving(t, u)
  BY <1>a DEF Serving
<1>1. ASSUME NEW u \in Users, LeaseDelivery(s, u) PROVE MailFacts'
  <2>1. mails[u] = 0 /\ \A t \in Scanners : ~Serving(t, u)
    BY <1>1, WaitingIsUnserved DEF LeaseDelivery, Deliverable
  <2>2. /\ delivery'[u].state = "leased" /\ delivery'[u].token = s
        /\ \A v \in Users \ {u} : delivery'[v] = delivery[v]
        /\ mails' = mails
    <3>1. delivery \in [Users -> DeliveryState]
      BY DEF TypeOK
    <3> QED BY <1>1, <3>1 DEF LeaseDelivery, DeliveryState
  <2>3. \A v \in Users : Serving(s, v)' <=> v = u
    BY <1>1 DEF LeaseDelivery, Serving, Sending, Idle, TypeOK
  <2>4. ServedAlone'
    BY <1>b, <2>1, <2>3 DEF MailFacts, ServedAlone
  <2>5. ServedIsLeased'
    BY <1>b, <2>1, <2>2, <2>3 DEF MailFacts, ServedIsLeased
  <2>6. MailedIsOver'
    BY <1>a, <1>b, <2>1, <2>2, <2>3 DEF MailFacts, MailedIsOver
  <2> QED BY <2>2, <2>4, <2>5, <2>6 DEF MailFacts, MailedOnce
<1> DEFINE u == scanner[s].user
<1>c. ASSUME DeliverStep(s)
      PROVE  u \in Users /\ Serving(s, u) /\ scanner[s].pc \in Sending
  BY <1>c DEF DeliverStep, CheckDelivery, SendMail, RecordDelivery, Serving,
              PlacesKnown, Sending
<1>d. ASSUME DeliverStep(s), NEW v \in Users, Serving(s, v)'
      PROVE  v = u
  <2>a. scanner \in [Scanners -> ScannerState]
    BY DEF TypeOK
  <2>1. \/ scanner' = [scanner EXCEPT ![s].pc = "send"]
        \/ \E outcome : scanner' = [scanner EXCEPT ![s] =
             [@ EXCEPT !.pc = "record", !.outcome = outcome]]
        \/ scanner' = [scanner EXCEPT ![s] = Idle]
    <3>1. CASE CheckDelivery(s)
      BY <3>1 DEF CheckDelivery, Goto, Verdict
    <3>2. CASE SendMail(s)
      BY <3>2 DEF SendMail, Verdict
    <3>3. CASE RecordDelivery(s)
      BY <3>3 DEF RecordDelivery
    <3> QED BY <1>d, <3>1, <3>2, <3>3 DEF DeliverStep
  <2>2. scanner'[s] = Idle \/ scanner'[s].user = u
    <3>1. scanner[s] \in ScannerState
      BY <2>a
    <3>2. /\ [scanner[s] EXCEPT !.pc = "send"].user = u
          /\ \A outcome : [scanner[s] EXCEPT !.pc = "record",
                                             !.outcome = outcome].user = u
      BY <3>1 DEF ScannerState
    <3> QED BY <2>a, <2>1, <3>2
  <2> QED BY <1>d, <2>2 DEF Serving, Idle, Sending
<1>e. ASSUME DeliverStep(s), delivery' = delivery
      PROVE  ServedAlone' /\ ServedIsLeased'
  BY <1>b, <1>c, <1>d, <1>e DEF MailFacts, ServedAlone, ServedIsLeased
<1>2. CASE CheckDelivery(s)
  <2>1. u \in Users /\ mails[u] = 0 /\ mails' = mails /\ delivery' = delivery
    BY <1>2, <1>c, SMTT(20) DEF DeliverStep, CheckDelivery, MailFacts, MailedIsOver, TypeOK
  <2>2. MailedIsOver'
    BY <1>2, <1>a, <1>b, <1>d, <2>1 DEF DeliverStep, MailFacts, MailedIsOver
  <2> QED BY <1>2, <1>e, <2>1, <2>2 DEF DeliverStep, MailFacts, MailedOnce
<1>3. CASE SendMail(s)
  <2>1. u \in Users /\ mails[u] = 0 /\ Serving(s, u) /\ delivery' = delivery
    <3>1. scanner[s].pc = "send" /\ delivery' = delivery
      BY <1>3 DEF SendMail
    <3>2. u \in Users /\ Serving(s, u) /\ mails[u] \in Nat
      BY <1>3, <1>c DEF DeliverStep, TypeOK
    <3> QED BY <3>1, <3>2 DEF MailFacts, MailedIsOver
  <2>2. \/ /\ mails' = [mails EXCEPT ![u] = @ + 1]
           /\ Verdict(s, "accepted") \/ Verdict(s, "unknown")
        \/ mails' = mails
    BY <1>3 DEF SendMail
  <2>3. /\ \A v \in Users \ {u} : mails'[v] = mails[v]
        /\ mails'[u] \in {0, 1}
    <3>1. mails \in [Users -> Nat]
      BY DEF TypeOK
    <3>2. CASE mails' = mails
      BY <2>1, <3>2
    <3>3. CASE mails' = [mails EXCEPT ![u] = @ + 1]
      <4>1. mails'[u] = mails[u] + 1 /\ \A v \in Users \ {u} : mails'[v] = mails[v]
        BY <2>1, <3>1, <3>3
      <4> QED BY <2>1, <4>1
    <3> QED BY <2>2, <3>2, <3>3
  <2>4. mails'[u] > 0 => /\ scanner'[s].pc = "record"
                         /\ scanner'[s].outcome # "retry_wait"
    <3>1. scanner \in [Scanners -> ScannerState]
      BY DEF TypeOK
    <3>2. \A outcome : Verdict(s, outcome) =>
            scanner'[s].pc = "record" /\ scanner'[s].outcome = outcome
      BY <3>1 DEF Verdict, ScannerState
    <3> QED BY <2>1, <2>2, <3>2
  <2>5. delivery[u].state \in {"leased"} \cup Final
    BY <2>1 DEF MailFacts, ServedIsLeased
  <2>6. \A t \in Scanners \ {s} : ~Serving(t, u)
    BY <2>1 DEF MailFacts, ServedAlone
  <2>7. MailedIsOver'
    BY <1>3, <1>a, <1>b, <1>d, <2>1, <2>3, <2>4, <2>5, <2>6
    DEF DeliverStep, MailFacts, MailedIsOver
  <2>8. MailedOnce'
    BY <2>3 DEF MailFacts, MailedOnce
  <2> QED BY <1>3, <1>e, <2>1, <2>7, <2>8 DEF DeliverStep, MailFacts
<1>4. CASE RecordDelivery(s)
  <2>1. u \in Users /\ Serving(s, u) /\ mails' = mails
    BY <1>4, <1>c DEF DeliverStep, RecordDelivery
  <2>2. \A v \in Users : ~Serving(s, v)'
    BY <1>4 DEF RecordDelivery, Serving, Idle, Sending, TypeOK
  <2>3. \A v \in Users \ {u} : delivery'[v] = delivery[v]
    BY <1>4 DEF RecordDelivery, TypeOK
  <2>4. \A t \in Scanners \ {s} : ~Serving(t, u)
    BY <2>1 DEF MailFacts, ServedAlone
  <2>5. mails[u] > 0 => delivery'[u].state \in {"leased"} \cup Final
    <3>1. SUFFICES ASSUME mails[u] > 0
                   PROVE  delivery'[u].state \in {"leased"} \cup Final
      OBVIOUS
    <3>2. /\ delivery[u].state \in {"leased"} \cup Final
          /\ scanner[s].outcome \in Final
      BY <2>1, <3>1 DEF MailFacts, MailedIsOver, TypeOK, ScannerState
    <3> QED BY <1>4, <2>1, <3>2
        DEF RecordDelivery, Recorded, TypeOK, DeliveryState, Final
  <2>6. ServedAlone' /\ ServedIsLeased'
    BY <1>b, <2>2, <2>3, <2>4 DEF MailFacts, ServedAlone, ServedIsLeased
  <2>7. MailedIsOver'
    BY <1>a, <1>b, <2>1, <2>2, <2>3, <2>5, <2>4 DEF MailFacts, MailedIsOver
  <2> QED BY <2>1, <2>6, <2>7 DEF MailFacts, MailedOnce
<1>5. CASE Crash(s)
  <2>1. \A v \in Users : ~Serving(s, v)'
    BY <1>5 DEF Crash, Serving, Idle, Sending, TypeOK
  <2>2. \A t \in Scanners, v \in Users :
          Serving(t, v)' => scanner'[t] = scanner[t]
    BY <1>a, <2>1
  <2> QED BY <1>5, <2>2, QuietStep DEF Crash
<1> QED BY <1>1, <1>2, <1>3, <1>4, <1>5 DEF DeliverStep

\* What people do and what time does mails nobody.
LEMMA MailElsewhere ==
  ASSUME TypeOK, MailFacts, People \/ Housekeeping \/ UNCHANGED vars
  PROVE  MailFacts'
<1> USE DEF fanoutVars, audienceVars
<1>1. mails' = mails /\ scanner' = scanner
  BY DEF People, Housekeeping, AuditSubmission, EditDraft, Revoke,
         AuditRevocation, CancelDeliveries, RevocationDies, Leave, Join, Lapse,
         ReapDelivery, DeliveryLeaseEnds, NoteLeaseEnds, RecoverAudit, vars
<1>2. ASSUME NEW u \in Users
      PROVE  \/ /\ delivery'[u].state = delivery[u].state
                /\ delivery'[u].token = delivery[u].token
             \/ delivery'[u].state \in Final
  <2>a. delivery \in [Users -> DeliveryState]
    BY DEF TypeOK
  <2>1. CASE CancelDeliveries
    BY <2>a, <2>1 DEF CancelDeliveries, DeliveryState, Final
  <2>2. ASSUME NEW v \in Users, ReapDelivery(v) \/ DeliveryLeaseEnds(v)
        PROVE  \/ /\ delivery'[u].state = delivery[u].state
                  /\ delivery'[u].token = delivery[u].token
               \/ delivery'[u].state \in Final
    BY <2>a, <2>2
    DEF ReapDelivery, DeliveryLeaseEnds, Reaped, DeliveryState, Final
  <2>3. CASE delivery' = delivery
    BY <2>3
  <2> QED BY <2>1, <2>2, <2>3
      DEF People, Housekeeping, AuditSubmission, EditDraft, Revoke,
          AuditRevocation, RevocationDies, Leave, Join, Lapse, NoteLeaseEnds,
          RecoverAudit, vars
<1> QED BY <1>1, <1>2, QuietStep

LEMMA MailInit == Init => MailFacts
BY DEF Init, MailFacts, ServedAlone, ServedIsLeased, MailedIsOver, MailedOnce,
       Serving, Idle, Sending

\* The invariant is inductive.
LEMMA MailNext == MailInv /\ [Next]_vars => MailInv'
<1> SUFFICES ASSUME MailInv, [Next]_vars PROVE MailInv'
  OBVIOUS
<1>1. TypeOK /\ PlacesKnown /\ MailFacts
  BY DEF MailInv, MailFacts
<1>2. TypeOK' /\ PlacesKnown'
  BY <1>1, TypeNext, PlacesNext
<1>3. MailFacts'
  <2>1. ASSUME NEW s \in Scanners, Claim(s) \/ DispatchStep(s)
        PROVE  MailFacts'
    BY <1>1, <1>2, <2>1, MailDispatch
  <2>2. ASSUME NEW s \in Scanners,
               \/ \E u \in Users : LeaseDelivery(s, u)
               \/ DeliverStep(s) \/ Crash(s)
        PROVE  MailFacts'
    BY <1>1, <1>2, <2>2, MailDeliver
  <2>3. CASE People \/ Housekeeping \/ UNCHANGED vars
    BY <1>1, <2>3, MailElsewhere
  <2> QED BY <2>1, <2>2, <2>3 DEF Next
<1> QED BY <1>2, <1>3 DEF MailInv, MailFacts

\* The inductive invariant of the mail: every document is well typed, every
\* process is at a known place of its loop, and a delivery is served by at most
\* one process, on its lease, until it is over.
THEOREM MailInvariant == Spec => []MailInv
<1>1. Init => MailInv
  BY TypeInit, MailInit DEF MailInv, MailFacts
<1>2. MailInv /\ [Next]_vars => MailInv'
  BY MailNext
<1> QED BY <1>1, <1>2, PTL DEF Spec

\* Whatever scans overlap, die, stall or outlive their leases, the mail server
\* accepts at most one message of the notification for a user.
THEOREM NoDoubleMail == Spec => []MailedOnce
<1>1. MailInv => MailedOnce
  BY DEF MailInv
<1> QED BY <1>1, MailInvariant, PTL

\* A delivery that has come to an end is never touched again: neither by a late
\* result nor by a scan that fans out again nor by a revocation.
THEOREM EndedForGood == Spec => EndedDeliveryStays
<1>1. ASSUME TypeOK, [Next]_vars, NEW u \in Users, delivery[u].state \in Final
      PROVE  delivery'[u].state = delivery[u].state
  <2> USE DEF fanoutVars, audienceVars
  <2>a. delivery \in [Users -> DeliveryState] /\ delivery[u].state \notin
          {"none", "leased"} \cup Waiting
    BY <1>1 DEF TypeOK, Waiting, Final
  <2>1. ASSUME NEW s \in Scanners, Claim(s) \/ DispatchStep(s)
        PROVE  delivery'[u] = delivery[u]
    <3>1. CASE WriteDelivery(s)
      BY <2>a, <3>1 DEF WriteDelivery, Upserted
    <3>2. CASE ~WriteDelivery(s)
      BY <2>1, <3>2 DEF Claim, DispatchStep, AuditPublication, Gate,
        ListRecipients, SaveChunk, AdvanceCheckpoint, OpenChunks, FanOut,
        WriteReceipt, FinishChunk, Publish, Release
    <3> QED BY <3>1, <3>2
  <2>2. ASSUME NEW s \in Scanners, NEW v \in Users, LeaseDelivery(s, v)
        PROVE  delivery'[u] = delivery[u]
    BY <2>a, <2>2 DEF LeaseDelivery, Deliverable
  <2>3. ASSUME NEW s \in Scanners, DeliverStep(s) \/ Crash(s)
        PROVE  delivery'[u] = delivery[u]
    BY <2>a, <2>3
    DEF DeliverStep, CheckDelivery, SendMail, RecordDelivery, Crash
  <2>4. CASE CancelDeliveries
    BY <2>a, <2>4 DEF CancelDeliveries
  <2>5. ASSUME NEW v \in Users, ReapDelivery(v) \/ DeliveryLeaseEnds(v)
        PROVE  delivery'[u].state = delivery[u].state
    BY <2>a, <2>5 DEF ReapDelivery, DeliveryLeaseEnds, DeliveryState
  <2>6. CASE delivery' = delivery
    BY <2>6
  <2>7. CASE People \/ Housekeeping \/ UNCHANGED vars
    BY <2>4, <2>5, <2>6, <2>7
    DEF People, Housekeeping, AuditSubmission, EditDraft, Revoke,
        AuditRevocation, RevocationDies, Leave, Join, Lapse, NoteLeaseEnds,
        RecoverAudit, vars
  <2> QED BY <1>1, <2>1, <2>2, <2>3, <2>7 DEF Next
<1>2. TypeOK /\ [Next]_vars
        => [\A u \in Users : delivery[u].state \in Final
              => delivery'[u].state = delivery[u].state]_vars
  BY <1>1
<1>3. MailInv => TypeOK
  BY DEF MailInv
<1> QED BY <1>2, <1>3, MailInvariant, PTL DEF Spec, EndedDeliveryStays

\* No scan, however stale, takes a revoked notification out of "cancelled": each
\* of its writes of a state asks the document for the revocation.
THEOREM RevocationHolds == Spec => []RevokedStaysCancelled
<1>1. Init => RevokedStaysCancelled
  BY DEF Init, RevokedStaysCancelled
<1>2. ASSUME TypeOK, RevokedStaysCancelled, [Next]_vars
      PROVE  RevokedStaysCancelled'
  <2> USE DEF fanoutVars, audienceVars
  <2>a. note \in NoteState
    BY <1>2 DEF TypeOK
  <2>b. ASSUME note'.revoked = note.revoked,
               note'.state = note.state \/ ~note.revoked
        PROVE  RevokedStaysCancelled'
    BY <1>2, <2>b DEF RevokedStaysCancelled
  <2>c. ASSUME NEW s, NEW holds, NEW state, GuardedState(s, holds, state)
        PROVE  RevokedStaysCancelled'
    BY <2>a, <2>b, <2>c DEF GuardedState, SetState, Guard, NoteState
  <2>1. ASSUME NEW s \in Scanners, Claim(s) \/ DispatchStep(s)
        PROVE  RevokedStaysCancelled'
    <3>1. CASE Gate(s)
      BY <2>b, <2>c, <3>1 DEF Gate
    <3>2. CASE ListRecipients(s)
      BY <2>b, <2>c, <3>2 DEF ListRecipients
    <3>3. CASE SaveChunk(s)
      BY <2>b, <2>c, <3>3 DEF SaveChunk
    <3>4. CASE Claim(s) \/ AuditPublication(s)
      BY <2>a, <2>b, <3>4 DEF Claim, AuditPublication, NoteState
    <3>5. CASE AdvanceCheckpoint(s) \/ Publish(s) \/ Release(s)
      BY <2>a, <2>b, <3>5
      DEF AdvanceCheckpoint, Publish, Release, Guard, NoteState
    <3>6. CASE \/ OpenChunks(s) \/ FanOut(s) \/ WriteReceipt(s)
               \/ WriteDelivery(s) \/ FinishChunk(s)
      BY <2>b, <3>6
      DEF OpenChunks, FanOut, WriteReceipt, WriteDelivery, FinishChunk
    <3> QED BY <2>1, <3>1, <3>2, <3>3, <3>4, <3>5, <3>6 DEF DispatchStep
  <2>2. ASSUME NEW s \in Scanners,
               \/ \E u \in Users : LeaseDelivery(s, u)
               \/ DeliverStep(s) \/ Crash(s)
        PROVE  RevokedStaysCancelled'
    BY <2>2, <2>b DEF LeaseDelivery, DeliverStep, CheckDelivery, SendMail,
                      RecordDelivery, Crash
  <2>3. CASE Revoke
    BY <2>a, <2>3 DEF Revoke, RevokedStaysCancelled, NoteState
  <2>4. ASSUME NEW audience, NEW state, EditDraft(audience, state)
        PROVE  RevokedStaysCancelled'
    BY <2>a, <2>b, <2>4 DEF EditDraft, NoteState
  <2>5. CASE AuditSubmission \/ AuditRevocation \/ RecoverAudit \/ NoteLeaseEnds
    BY <2>a, <2>b, <2>5 DEF AuditSubmission, AuditRevocation, RecoverAudit,
                            NoteLeaseEnds, NoteState
  <2>6. CASE note' = note
    BY <2>b, <2>6
  <2>7. CASE People \/ Housekeeping \/ UNCHANGED vars
    BY <2>3, <2>4, <2>5, <2>6, <2>7
    DEF People, Housekeeping, CancelDeliveries, RevocationDies, Leave, Join,
        Lapse, ReapDelivery, DeliveryLeaseEnds, vars
  <2> QED BY <1>2, <2>1, <2>2, <2>7 DEF Next
<1>3. MailInv => TypeOK
  BY DEF MailInv
<1>4. TypeOK /\ RevokedStaysCancelled /\ [Next]_vars => RevokedStaysCancelled'
  BY <1>2
<1> QED BY <1>1, <1>3, <1>4, MailInvariant, PTL DEF Spec

-----------------------------------------------------------------------------
(* Without stalls: a draft waits, and nobody is passed over                *)
(*                                                                         *)
(* As long as no lease ends under a process that is still at work, one     *)
(* process at a time dispatches, and what it has read of the notification  *)
(* stays true.  The invariant then follows a recipient along the way:      *)
(* behind the checkpoint everybody is in a chunk (Prepared), at the end of *)
(* the preparation everybody is (AllCovered), and a chunk is done when     *)
(* everybody in it has been reached (DoneReached).                         *)

\* Having a receipt, and a delivery if e-mail is asked for.
HasBeenReached(u) == u \in receipts /\ (Email => delivery[u].state # "none")

\* The process that dispatches has the lease, and its copy of the document is
\* right as long as the notification is not revoked.
Knows(s) ==
  /\ scanner[s].pc \in Dispatch => note.token = s /\ note.leased
  /\ scanner[s].pc \in {"audit", "gate", "list"} =>
       /\ scanner[s].audience = note.audience
       /\ scanner[s].state \in Scannable
       /\ scanner[s].pc = "list" => scanner[s].state # "scheduled"
       /\ note.revoked \/ scanner[s].state = note.state
  /\ scanner[s].pc \in {"audit", "gate", "list", "chunk", "checkpoint"} =>
       scanner[s].cursor = note.cursor /\ scanner[s].next = note.next
  /\ scanner[s].pc \in {"chunk", "checkpoint", "open", "fan", "receipt", "delivery"} =>
       steady \subseteq scanner[s].valid
  /\ scanner[s].pc \in {"chunk", "checkpoint"} =>
       note.revoked \/ note.state = "preparing"
  /\ scanner[s].pc \in {"open", "fan", "receipt", "delivery", "publish"} =>
       note.revoked \/ note.state = "dispatching"

\* Of the chunk it has opened, everybody is still on its list, reached, or in
\* its hands.
FanProgress(s) ==
  scanner[s].pc \in {"fan", "receipt", "delivery"} =>
    \A n \in scanner[s].todo : IsFirst(n, scanner[s].todo) =>
      \A u \in steady \cap chunks[n].users :
        \/ u \in scanner[s].left
        \/ HasBeenReached(u)
        \/ scanner[s].pc # "fan" /\ scanner[s].user = u
             /\ (scanner[s].pc = "delivery" => u \in receipts)

\* Nothing is prepared before the notification is being prepared.
Unprepared ==
  note.state \in {"draft", "scheduled"} /\ ~note.revoked =>
    chunks = <<>> /\ note.next = 0 /\ note.cursor = 0

\* Up to the checkpoint everybody is in a chunk; a chunk beyond it, left by a
\* process that was killed, has everybody up to its last.
Prepared ==
  note.state = "preparing" /\ ~note.revoked =>
    /\ Len(chunks) <= note.next + 1
    /\ \A u \in steady : u <= note.cursor =>
         \E n \in 1..note.next : u \in chunks[n].users
    /\ Len(chunks) = note.next + 1 =>
         \A v \in chunks[note.next + 1].users, u \in steady :
           note.cursor < u /\ u <= v => u \in chunks[note.next + 1].users

AllCovered ==
  note.state \in {"dispatching", "published"} =>
    \A u \in steady : \E n \in DOMAIN chunks : u \in chunks[n].users

DoneReached ==
  \A n \in DOMAIN chunks : chunks[n].done =>
    \A u \in steady \cap chunks[n].users : HasBeenReached(u)

PublishedDone ==
  note.state = "published" => \A n \in DOMAIN chunks : chunks[n].done

NoteInv ==
  /\ steady \subseteq members \cap note.audience
  /\ Unprepared /\ Prepared /\ AllCovered /\ DoneReached /\ PublishedDone

CompleteInv == NoteInv /\ \A s \in Scanners : Knows(s) /\ FanProgress(s)

\* One process dispatches, and nobody does while the lease is free.
LEMMA OneDispatches ==
  ASSUME CompleteInv, NEW s \in Scanners,
         scanner[s].pc \in Dispatch \/ ~note.leased
  PROVE  \A t \in Scanners \ {s} : scanner[t].pc \notin Dispatch
BY DEF CompleteInv, Knows

\* A process outside dispatch() has nothing to know.
LEMMA OutsideKnows ==
  ASSUME NEW s \in Scanners, scanner[s].pc \notin Dispatch
  PROVE  Knows(s) /\ FanProgress(s)
BY DEF Knows, FanProgress, Dispatch

\* A step of the dispatching process has to be looked at for that process and
\* for the notification only.
LEMMA OneStep ==
  ASSUME CompleteInv, NEW s \in Scanners,
         scanner[s].pc \in Dispatch \/ ~note.leased,
         \A t \in Scanners \ {s} : scanner'[t] = scanner[t],
         NoteInv', Knows(s)', FanProgress(s)'
  PROVE  CompleteInv'
<1>1. ASSUME NEW t \in Scanners, t # s PROVE Knows(t)' /\ FanProgress(t)'
  <2>1. scanner'[t].pc \notin Dispatch
    BY <1>1, OneDispatches
  <2> QED BY <2>1 DEF Knows, FanProgress, Dispatch
<1> QED BY <1>1 DEF CompleteInv

\* A step that leaves the chunks, the receipts and the audience alone, and the
\* state unless it cancels.
LEMMA NoteStays ==
  ASSUME NoteInv, UNCHANGED <<chunks, receipts, members, steady>>,
         \A u \in Users : delivery[u].state # "none" => delivery'[u].state # "none",
         steady \subseteq Users,
         note'.audience = note.audience, note'.cursor = note.cursor,
         note'.next = note.next,
         \/ note'.state = note.state /\ note'.revoked = note.revoked
         \/ note'.state = "cancelled"
  PROVE  NoteInv'
<1>1. \A u \in steady : HasBeenReached(u) => HasBeenReached(u)'
  BY DEF HasBeenReached
<1>2. DoneReached'
  BY <1>1 DEF NoteInv, DoneReached
<1>3. Unprepared' /\ Prepared' /\ AllCovered' /\ PublishedDone'
  BY DEF NoteInv, Unprepared, Prepared, AllCovered, PublishedDone
<1> QED BY <1>2, <1>3 DEF NoteInv

\* Steps of people, of time and of senders: recipients leave, a revocation
\* cancels, a dispatching process may die.
LEMMA OthersComplete ==
  ASSUME TypeOK, CompleteInv, UNCHANGED <<chunks, receipts>>,
         steady' \subseteq steady, steady' \subseteq members',
         \A u \in Users : delivery[u].state # "none" => delivery'[u].state # "none",
         note'.audience = note.audience, note'.cursor = note.cursor,
         note'.next = note.next,
         \/ note'.state = note.state /\ note'.revoked = note.revoked
         \/ note'.state = "cancelled" /\ note'.revoked,
         \A s \in Scanners : scanner'[s].pc \in Dispatch =>
           /\ scanner'[s] = scanner[s]
           /\ note'.token = note.token /\ note'.leased = note.leased
  PROVE  CompleteInv'
<1>1. \A u \in steady : HasBeenReached(u) => HasBeenReached(u)'
  BY DEF HasBeenReached, TypeOK
<1>2. DoneReached'
  BY <1>1 DEF CompleteInv, NoteInv, DoneReached
<1>3. Unprepared' /\ Prepared' /\ AllCovered' /\ PublishedDone'
  BY DEF CompleteInv, NoteInv, Unprepared, Prepared, AllCovered, PublishedDone
<1>4. ASSUME NEW s \in Scanners, scanner'[s].pc \in Dispatch
      PROVE  Knows(s)' /\ FanProgress(s)'
  <2>1. Knows(s)'
    BY <1>4 DEF CompleteInv, Knows
  <2>2. FanProgress(s)'
    BY <1>1, <1>4 DEF CompleteInv, FanProgress
  <2> QED BY <2>1, <2>2
<1>5. ASSUME NEW s \in Scanners, scanner'[s].pc \notin Dispatch
      PROVE  Knows(s)' /\ FanProgress(s)'
  BY <1>5 DEF Knows, FanProgress, Dispatch
<1> QED BY <1>2, <1>3, <1>4, <1>5 DEF CompleteInv, NoteInv

\* What a step of dispatch() leaves of the other processes.
LEMMA OnlyItself ==
  ASSUME TypeOK, NEW s \in Scanners
  PROVE  /\ \A pc : Goto(s, pc) =>
              /\ scanner'[s] = [scanner[s] EXCEPT !.pc = pc]
              /\ \A t \in Scanners \ {s} : scanner'[t] = scanner[t]
         /\ Return(s) =>
              /\ scanner'[s] = [Idle EXCEPT !.pc = "release"]
              /\ \A t \in Scanners \ {s} : scanner'[t] = scanner[t]
BY DEF TypeOK, Goto, Return

\* A process that returns from dispatch() still has the lease.
LEMMA ReturnKnows ==
  ASSUME NEW s \in Scanners, scanner'[s] = [Idle EXCEPT !.pc = "release"],
         note'.token = s, note'.leased
  PROVE  Knows(s)' /\ FanProgress(s)'
BY DEF Knows, FanProgress, Idle

\* The claim up to the list of the recipients.
LEMMA CompleteClaim ==
  ASSUME TypeOK, CompleteInv, RevokedStaysCancelled', NEW s \in Scanners,
         Claim(s) \/ AuditPublication(s) \/ Gate(s) \/ ListRecipients(s)
  PROVE  CompleteInv'
<1> USE DEF fanoutVars, audienceVars
<1>a. note \in NoteState /\ scanner[s] \in ScannerState /\ steady \subseteq Users
  BY DEF TypeOK
<1>b. NoteInv /\ Knows(s) /\ FanProgress(s)
  BY DEF CompleteInv
<1>1. CASE Claim(s)
  <2>1. /\ note.state \in Scannable /\ ~note.revoked /\ ~note.leased
        /\ note' = [note EXCEPT !.token = s, !.leased = TRUE]
        /\ scanner' = [scanner EXCEPT ![s] =
             [Idle EXCEPT !.pc = "audit", !.state = note.state,
                    !.audience = note.audience, !.cursor = note.cursor,
                    !.next = note.next, !.budget = ChunkBudget]]
        /\ UNCHANGED <<chunks, receipts, members, steady, delivery>>
    BY <1>1 DEF Claim
  <2>2. /\ note'.token = s /\ note'.leased /\ note'.state = note.state
        /\ note'.revoked = note.revoked /\ note'.audience = note.audience
        /\ note'.cursor = note.cursor /\ note'.next = note.next
    BY <1>a, <2>1 DEF NoteState
  <2>3. /\ scanner'[s].pc = "audit" /\ scanner'[s].state = note.state
        /\ scanner'[s].audience = note.audience
        /\ scanner'[s].cursor = note.cursor /\ scanner'[s].next = note.next
        /\ \A t \in Scanners \ {s} : scanner'[t] = scanner[t]
    BY <2>1 DEF TypeOK, Idle
  <2>4. NoteInv'
    BY <1>a, <1>b, <2>1, <2>2, NoteStays
  <2>5. Knows(s)' /\ FanProgress(s)'
    BY <2>1, <2>2, <2>3 DEF Knows, FanProgress
  <2> QED BY <2>1, <2>3, <2>4, <2>5, OneStep
<1>2. CASE AuditPublication(s)
  <2>1. /\ scanner[s].pc = "audit"
        /\ note' = [note EXCEPT !.audited = PublicationAudited]
        /\ Goto(s, "gate")
        /\ UNCHANGED <<chunks, receipts, members, steady, delivery>>
    BY <1>2 DEF AuditPublication
  <2>2. /\ note'.token = note.token /\ note'.leased = note.leased
        /\ note'.state = note.state /\ note'.revoked = note.revoked
        /\ note'.audience = note.audience
        /\ note'.cursor = note.cursor /\ note'.next = note.next
    BY <1>a, <2>1 DEF NoteState
  <2>3. /\ scanner'[s].pc = "gate" /\ scanner'[s].state = scanner[s].state
        /\ scanner'[s].audience = scanner[s].audience
        /\ scanner'[s].cursor = scanner[s].cursor
        /\ scanner'[s].next = scanner[s].next
        /\ \A t \in Scanners \ {s} : scanner'[t] = scanner[t]
    <3>1. /\ scanner'[s] = [scanner[s] EXCEPT !.pc = "gate"]
          /\ \A t \in Scanners \ {s} : scanner'[t] = scanner[t]
      BY <2>1, OnlyItself
    <3> QED BY <1>a, <3>1 DEF ScannerState
  <2>4. NoteInv'
    BY <1>a, <1>b, <2>1, <2>2, NoteStays
  <2>5. Knows(s)' /\ FanProgress(s)'
    BY <1>b, <2>1, <2>2, <2>3 DEF Knows, FanProgress, Dispatch
  <2> QED BY <2>1, <2>3, <2>4, <2>5, OneStep DEF Dispatch
<1>3. CASE Gate(s)
  <2>1. /\ scanner[s].pc = "gate" /\ note.token = s /\ note.leased
        /\ UNCHANGED <<chunks, receipts, members, steady, delivery>>
    BY <1>3, <1>b DEF Gate, Knows, Dispatch
  <2>2. ASSUME NEW state \in States, GuardedState(s, TRUE, state)
        PROVE  /\ note'.token = s /\ note'.leased /\ note'.revoked = note.revoked
               /\ note'.audience = note.audience
               /\ note'.cursor = note.cursor /\ note'.next = note.next
               /\ note'.state = IF note.revoked THEN note.state ELSE state
    BY <1>a, <2>1, <2>2 DEF GuardedState, SetState, Guard, NoteState
  <2>3. CASE GuardedState(s, TRUE, "cancelled") /\ Return(s)
    <3>1. NoteInv'
      BY <1>a, <1>b, <2>1, <2>2, <2>3, NoteStays, Names
    <3> QED BY <2>1, <2>2, <2>3, <3>1, OnlyItself, ReturnKnows, OneStep, Names DEF Dispatch
  <2>4. CASE GuardedState(s, TRUE, "draft") /\ Return(s)
             /\ scanner[s].state = "scheduled"
    <3>1. note.revoked \/ note.state = "scheduled"
      BY <1>b, <2>1, <2>4 DEF Knows
    <3>2. NoteInv'
      BY <1>a, <1>b, <2>1, <2>2, <2>4, <3>1, Names
      DEF NoteInv, Unprepared, Prepared, AllCovered, DoneReached, PublishedDone,
          HasBeenReached
    <3> QED BY <2>1, <2>2, <2>4, <3>2, OnlyItself, ReturnKnows, OneStep, Names DEF Dispatch
  <2>5. CASE /\ scanner[s].state = "scheduled"
             /\ GuardedState(s, TRUE, "preparing")
             /\ scanner' = [scanner EXCEPT ![s] =
                              [scanner[s] EXCEPT !.pc = "list", !.state = "preparing"]]
    <3>1. note.revoked \/ note.state = "scheduled"
      BY <1>b, <2>1, <2>5 DEF Knows
    <3>2. NoteInv'
      <4>1. CASE note.revoked
        BY <1>a, <1>b, <2>1, <2>2, <2>5, <4>1, NoteStays, Names
      <4>2. CASE ~note.revoked
        <5>1. /\ chunks = <<>> /\ note.next = 0 /\ note.cursor = 0
              /\ note'.state = "preparing"
          BY <1>b, <2>2, <2>5, <3>1, <4>2, Names DEF NoteInv, Unprepared
        <5>2. Prepared'
          <6>1. Len(chunks) = 0 /\ \A u \in steady : ~(u <= 0)
            BY <1>a, <5>1, SizeAssumption DEF Users
          <6>2. /\ UNCHANGED <<chunks, steady>> /\ note'.next = 0
                /\ note'.cursor = 0
            BY <2>1, <2>2, <2>5, <5>1, Names
          <6> QED BY ONLY <6>1, <6>2 DEF Prepared
        <5>3. Unprepared' /\ AllCovered' /\ PublishedDone'
          BY <5>1 DEF Unprepared, AllCovered, PublishedDone
        <5>4. DoneReached'
          BY <1>b, <2>1 DEF NoteInv, DoneReached, HasBeenReached
        <5>5. steady' \subseteq members' \cap note'.audience
          BY <1>b, <2>1, <2>2, <2>5, Names DEF NoteInv
        <5> QED BY <5>2, <5>3, <5>4, <5>5 DEF NoteInv
      <4> QED BY <4>1, <4>2
    <3>3. /\ scanner'[s].pc = "list" /\ scanner'[s].state = "preparing"
          /\ scanner'[s].audience = scanner[s].audience
          /\ scanner'[s].cursor = scanner[s].cursor
          /\ scanner'[s].next = scanner[s].next
          /\ \A t \in Scanners \ {s} : scanner'[t] = scanner[t]
      BY <1>a, <2>5 DEF TypeOK, ScannerState
    <3>4. Knows(s)' /\ FanProgress(s)'
      BY <1>b, <2>1, <2>2, <2>5, <3>3, Names DEF Knows, FanProgress, Scannable
    <3> QED BY <2>1, <3>2, <3>3, <3>4, OneStep DEF Dispatch
  <2>6. CASE scanner[s].state # "scheduled" /\ Goto(s, "list") /\ UNCHANGED note
    <3>1. NoteInv'
      BY <1>a, <1>b, <2>1, <2>6, NoteStays
    <3>2. /\ scanner'[s].pc = "list" /\ scanner'[s].state = scanner[s].state
          /\ scanner'[s].audience = scanner[s].audience
          /\ scanner'[s].cursor = scanner[s].cursor
          /\ scanner'[s].next = scanner[s].next
          /\ \A t \in Scanners \ {s} : scanner'[t] = scanner[t]
      <4>1. /\ scanner'[s] = [scanner[s] EXCEPT !.pc = "list"]
            /\ \A t \in Scanners \ {s} : scanner'[t] = scanner[t]
        BY <2>6, OnlyItself
      <4> QED BY <1>a, <4>1 DEF ScannerState
    <3>3. Knows(s)' /\ FanProgress(s)'
      BY <1>b, <2>1, <2>6, <3>2 DEF Knows, FanProgress
    <3> QED BY <2>1, <3>1, <3>2, <3>3, OneStep DEF Dispatch
  <2> QED BY <1>3, <2>3, <2>4, <2>5, <2>6 DEF Gate
<1>4. CASE ListRecipients(s)
  <2>1. /\ scanner[s].pc = "list" /\ note.token = s /\ note.leased
        /\ UNCHANGED <<chunks, receipts, members, steady, delivery>>
    BY <1>4, <1>b DEF ListRecipients, Knows, Dispatch
  <2>2. CASE "author" \notin lapsed
    <3>1. /\ UNCHANGED note
          /\ scanner' = [scanner EXCEPT ![s] =
               [scanner[s] EXCEPT !.pc = IF scanner[s].state = "preparing"
                                THEN "chunk" ELSE "open",
                         !.audience = {},
                         !.valid = members \cap scanner[s].audience]]
      BY <1>4, <2>2 DEF ListRecipients
    <3>2. /\ scanner'[s].pc = IF scanner[s].state = "preparing" THEN "chunk" ELSE "open"
          /\ scanner'[s].valid = members \cap scanner[s].audience
          /\ scanner'[s].cursor = scanner[s].cursor
          /\ scanner'[s].next = scanner[s].next
          /\ \A t \in Scanners \ {s} : scanner'[t] = scanner[t]
      BY <1>a, <3>1 DEF TypeOK, ScannerState
    <3>3. NoteInv'
      BY <1>a, <1>b, <2>1, <3>1, NoteStays
    <3>4. steady \subseteq scanner'[s].valid
      BY <1>b, <2>1, <3>2 DEF Knows, NoteInv
    <3>5. Knows(s)' /\ FanProgress(s)'
      BY <1>b, <2>1, <3>1, <3>2, <3>4 DEF Knows, FanProgress, Scannable
    <3> QED BY <2>1, <3>2, <3>3, <3>5, OneStep DEF Dispatch
  <2>3. CASE "author" \in lapsed
    <3>1. GuardedState(s, TRUE, "cancelled") /\ Return(s)
      BY <1>4, <2>3 DEF ListRecipients
    <3>2. /\ note'.token = s /\ note'.leased /\ note'.revoked = note.revoked
          /\ note'.audience = note.audience
          /\ note'.cursor = note.cursor /\ note'.next = note.next
          /\ note'.state \in {note.state, "cancelled"}
      BY <1>a, <2>1, <3>1 DEF GuardedState, SetState, Guard, NoteState
    <3>3. NoteInv'
      BY <1>a, <1>b, <2>1, <3>2, NoteStays
    <3> QED BY <2>1, <3>1, <3>2, <3>3, OnlyItself, ReturnKnows, OneStep DEF Dispatch
  <2> QED BY <2>2, <2>3
<1> QED BY <1>1, <1>2, <1>3, <1>4

\* FirstBatch takes the first of a list: everybody before one of them is one of
\* them.
LEMMA BatchIsFirst ==
  ASSUME NEW S \in SUBSET Users, NEW v \in FirstBatch(S), NEW u \in S, u <= v
  PROVE  u \in FirstBatch(S)
<1> DEFINE Before(x) == {w \in S : w < x}
<1>1. IsFiniteSet(S)
  <2>1. IsFiniteSet(Users)
    BY SizeAssumption, FS_Interval DEF Users
  <2> QED BY <2>1, FS_Subset
<1>2. v \in S /\ u \in Nat /\ v \in Nat
  BY SizeAssumption DEF FirstBatch, Users
<1>3. Before(u) \subseteq Before(v)
  <2>1. \A w \in S : w \in Nat
    BY SizeAssumption DEF Users
  <2>2. ASSUME NEW w \in S, w < u PROVE w < v
    BY <1>2, <2>1, <2>2
  <2> QED BY <2>2
<1>4. IsFiniteSet(Before(v)) /\ IsFiniteSet(Before(u))
  BY <1>1, FS_Subset
<1>5. Cardinality(Before(u)) <= Cardinality(Before(v))
  BY <1>3, <1>4, FS_Subset
<1>6. Cardinality(Before(u)) \in Nat /\ Cardinality(Before(v)) \in Nat
  BY <1>4, FS_CardinalityType
<1>7. Cardinality(Before(v)) < BatchSize
  BY DEF FirstBatch
<1>8. Cardinality(Before(u)) < BatchSize
  BY <1>5, <1>6, <1>7, SizeAssumption
<1> QED BY <1>8 DEF FirstBatch

\* Preparing: a chunk is stored, then the checkpoint moves past it.
LEMMA CompletePrepare ==
  ASSUME TypeOK, PlacesKnown, CompleteInv, RevokedStaysCancelled,
         NEW s \in Scanners, SaveChunk(s) \/ AdvanceCheckpoint(s)
  PROVE  CompleteInv'
<1> DEFINE T == [users : SUBSET Users, done : BOOLEAN]
           p == scanner[s]
<1> USE DEF fanoutVars, audienceVars
<1>a. /\ note \in NoteState /\ p \in ScannerState /\ steady \subseteq Users
      /\ chunks \in Seq(T) /\ Len(chunks) \in Nat
      /\ note.next \in Nat /\ note.cursor \in Nat /\ note.next <= Len(chunks)
  BY DEF TypeOK, NoteState, PlacesKnown
<1>b. NoteInv /\ Knows(s) /\ FanProgress(s)
  BY DEF CompleteInv
<1>c. /\ p.pc \in {"chunk", "checkpoint"} /\ p.pc \in Dispatch
      /\ note.token = s /\ note.leased
      /\ p.cursor = note.cursor /\ p.next = note.next
      /\ steady \subseteq p.valid
      /\ note.revoked \/ note.state = "preparing"
  BY <1>b DEF Knows, SaveChunk, AdvanceCheckpoint, Dispatch
<1>1. CASE SaveChunk(s) /\ p.next < Len(chunks)
  <2>1. /\ Goto(s, "checkpoint") /\ UNCHANGED note
        /\ UNCHANGED <<chunks, receipts, members, steady, delivery>>
    BY <1>1 DEF SaveChunk
  <2>2. /\ scanner'[s] = [scanner[s] EXCEPT !.pc = "checkpoint"]
        /\ \A t \in Scanners \ {s} : scanner'[t] = scanner[t]
    BY <2>1, OnlyItself
  <2>3. /\ scanner'[s].pc = "checkpoint" /\ scanner'[s].cursor = p.cursor
        /\ scanner'[s].next = p.next /\ scanner'[s].valid = p.valid
    BY <1>a, <2>2 DEF ScannerState
  <2>4. NoteInv'
    BY <1>a, <1>b, <2>1, NoteStays
  <2>5. Knows(s)' /\ FanProgress(s)'
    BY <1>c, <2>1, <2>3 DEF Knows, FanProgress
  <2> QED BY <1>c, <2>2, <2>4, <2>5, OneStep
<1>2. CASE SaveChunk(s) /\ ~(p.next < Len(chunks)) /\ Beyond(s) # {}
  <2> DEFINE c == [users |-> FirstBatch(Beyond(s)), done |-> FALSE]
             n == note.next
  <2>1. /\ Goto(s, "checkpoint") /\ UNCHANGED note
        /\ chunks' = Append(chunks, c)
        /\ UNCHANGED <<receipts, members, steady, delivery>>
    BY <1>2 DEF SaveChunk
  <2>2. /\ scanner'[s] = [scanner[s] EXCEPT !.pc = "checkpoint"]
        /\ \A t \in Scanners \ {s} : scanner'[t] = scanner[t]
    BY <2>1, OnlyItself
  <2>3. /\ scanner'[s].pc = "checkpoint" /\ scanner'[s].cursor = p.cursor
        /\ scanner'[s].next = p.next /\ scanner'[s].valid = p.valid
    BY <1>a, <2>2 DEF ScannerState
  <2>4. Len(chunks) = n
    BY <1>2, <1>a, <1>c
  <2>5. c \in T
    BY DEF FirstBatch, Beyond, TypeOK, ScannerState
  <2>6. /\ Len(chunks') = n + 1 /\ chunks'[n + 1] = c
        /\ \A i \in 1..n : chunks'[i] = chunks[i]
        /\ DOMAIN chunks = 1..n /\ DOMAIN chunks' = 1..(n + 1)
    <3> HIDE DEF T, c
    <3> QED BY <1>a, <2>1, <2>4, <2>5
  <2>7. Prepared'
    <3> SUFFICES ASSUME note.state = "preparing", ~note.revoked PROVE Prepared'
      BY <2>1 DEF Prepared
    <3>1. \A u \in steady : u <= note.cursor => \E i \in 1..n : u \in chunks[i].users
      BY <1>b DEF NoteInv, Prepared
    <3>2. \A u \in steady : u <= note.cursor => \E i \in 1..n : u \in chunks'[i].users
      BY <2>6, <3>1
    <3>3. ASSUME NEW v \in c.users, NEW u \in steady, note.cursor < u, u <= v
          PROVE  u \in c.users
      <4>1. u \in Beyond(s)
        BY <1>c, <3>3 DEF Beyond
      <4>2. Beyond(s) \in SUBSET Users
        BY DEF Beyond, TypeOK, ScannerState
      <4> QED BY <3>3, <4>1, <4>2, BatchIsFirst
    <3> HIDE DEF c
    <3> QED BY <2>1, <2>6, <3>2, <3>3, <1>a DEF Prepared
  <2>8. DoneReached'
    <3>1. ASSUME NEW i \in 1..(n + 1), chunks'[i].done PROVE i \in 1..n
      BY <2>6, <3>1, <1>a
    <3> QED BY <1>b, <2>1, <2>6, <3>1 DEF NoteInv, DoneReached, HasBeenReached
  <2>9. Unprepared' /\ AllCovered' /\ PublishedDone'
    BY <1>c, <2>1 DEF Unprepared, AllCovered, PublishedDone, RevokedStaysCancelled
  <2>10. NoteInv'
    BY <1>b, <2>1, <2>7, <2>8, <2>9 DEF NoteInv
  <2>11. Knows(s)' /\ FanProgress(s)'
    BY <1>c, <2>1, <2>3 DEF Knows, FanProgress
  <2> QED BY <1>c, <2>2, <2>10, <2>11, OneStep
<1>3. CASE SaveChunk(s) /\ ~(p.next < Len(chunks)) /\ Beyond(s) = {}
  <2>1. /\ GuardedState(s, note.state = "preparing", "dispatching")
        /\ IF Guard(s) /\ note.state = "preparing" THEN Goto(s, "open") ELSE Return(s)
        /\ UNCHANGED <<chunks, receipts, members, steady, delivery>>
    BY <1>3 DEF SaveChunk
  <2>2. Len(chunks) = note.next
    BY <1>3, <1>a, <1>c
  <2>3. CASE note.revoked
    <3>1. UNCHANGED note /\ Return(s)
      BY <2>1, <2>3 DEF Guard, GuardedState
    <3>2. NoteInv'
      BY <1>a, <1>b, <2>1, <3>1, NoteStays
    <3> QED BY <1>c, <3>1, <3>2, OnlyItself, ReturnKnows, OneStep
  <2>4. CASE ~note.revoked
    <3>1. /\ note' = [note EXCEPT !.state = "dispatching"] /\ Goto(s, "open")
          /\ note.state = "preparing"
      BY <1>c, <2>1, <2>4 DEF Guard, GuardedState, SetState
    <3>2. /\ note'.state = "dispatching" /\ note'.token = s /\ note'.leased
          /\ note'.revoked = note.revoked /\ note'.audience = note.audience
      BY <1>a, <1>c, <3>1 DEF NoteState
    <3>3. /\ scanner'[s] = [scanner[s] EXCEPT !.pc = "open"]
          /\ \A t \in Scanners \ {s} : scanner'[t] = scanner[t]
      BY <3>1, OnlyItself
    <3>4. scanner'[s].pc = "open" /\ scanner'[s].valid = p.valid
      BY <1>a, <3>3 DEF ScannerState
    <3>5. ASSUME NEW u \in steady PROVE \E i \in DOMAIN chunks : u \in chunks[i].users
      <4>1. u <= note.cursor
        <5>1. u \notin Beyond(s)
          BY <1>3
        <5> QED BY <1>a, <1>c, <5>1, SizeAssumption DEF Beyond, Users
      <4>2. DOMAIN chunks = 1..note.next
        BY <1>a, <2>2
      <4> QED BY <1>b, <2>4, <3>1, <4>1, <4>2 DEF NoteInv, Prepared
    <3>6. AllCovered'
      BY <2>1, <3>5 DEF AllCovered
    <3>7. DoneReached'
      BY <1>b, <2>1 DEF NoteInv, DoneReached, HasBeenReached
    <3>8. NoteInv'
      BY <1>b, <2>1, <3>2, <3>6, <3>7
      DEF NoteInv, Unprepared, Prepared, PublishedDone
    <3>9. Knows(s)' /\ FanProgress(s)'
      BY <1>c, <2>1, <3>2, <3>4 DEF Knows, FanProgress
    <3> QED BY <1>c, <3>3, <3>8, <3>9, OneStep
  <2> QED BY <2>3, <2>4
<1>4. CASE AdvanceCheckpoint(s)
  <2> DEFINE saved == chunks[p.next + 1].users
             holds == Guard(s) /\ note.state = "preparing" /\ note.next = p.next
  <2>1. /\ p.pc = "checkpoint"
        /\ UNCHANGED <<chunks, receipts, members, steady, delivery>>
    BY <1>4 DEF AdvanceCheckpoint
  <2>2. CASE ~holds
    <3>1. UNCHANGED note /\ Return(s)
      BY <1>4, <2>2 DEF AdvanceCheckpoint
    <3>2. NoteInv'
      BY <1>a, <1>b, <2>1, <3>1, NoteStays
    <3> QED BY <1>c, <3>1, <3>2, OnlyItself, ReturnKnows, OneStep
  <2>3. CASE holds
    <3>1. PICK last \in Users :
            /\ IsLast(last, saved)
            /\ note' = [note EXCEPT !.cursor = last, !.next = note.next + 1,
                                    !.count = note.count + Cardinality(saved)]
            /\ IF p.budget <= 1 THEN Return(s)
               ELSE scanner' = [scanner EXCEPT ![s] =
                      [p EXCEPT !.pc = "chunk", !.cursor = last,
                                !.next = p.next + 1, !.budget = p.budget - 1]]
      BY <1>4, <2>3 DEF AdvanceCheckpoint
    <3>2. /\ note'.state = note.state /\ note'.token = s /\ note'.leased
          /\ note'.revoked = note.revoked /\ note'.audience = note.audience
          /\ note'.cursor = last /\ note'.next = note.next + 1
          /\ note.state = "preparing" /\ ~note.revoked
      BY <1>a, <1>c, <2>3, <3>1 DEF NoteState, Guard
    <3>3. Len(chunks) = note.next + 1
      <4>1. note.next < Len(chunks)
        BY <1>c, <2>1 DEF PlacesKnown
      <4> QED BY <1>a, <1>b, <3>2, <4>1 DEF NoteInv, Prepared
    <3>4. ASSUME NEW u \in steady, u <= last
          PROVE  \E i \in 1..(note.next + 1) : u \in chunks[i].users
      <4>1. CASE u <= note.cursor
        <5>1. PICK i \in 1..note.next : u \in chunks[i].users
          BY <1>b, <3>2, <4>1 DEF NoteInv, Prepared
        <5> QED BY <1>a, <5>1
      <4>2. CASE ~(u <= note.cursor)
        <5>1. note.cursor < u
          BY <1>a, <4>2, SizeAssumption DEF Users
        <5>2. last \in chunks[note.next + 1].users
          BY <1>c, <3>1 DEF IsLast
        <5>3. u \in chunks[note.next + 1].users
          BY <1>b, <3>2, <3>3, <3>4, <5>1, <5>2 DEF NoteInv, Prepared
        <5> QED BY <1>a, <5>3
      <4> QED BY <4>1, <4>2
    <3>5. Prepared'
      BY <1>a, <2>1, <3>2, <3>3, <3>4 DEF Prepared
    <3>6. DoneReached'
      BY <1>b, <2>1 DEF NoteInv, DoneReached, HasBeenReached
    <3>7. NoteInv'
      BY <1>b, <2>1, <3>2, <3>5, <3>6 DEF NoteInv, Unprepared, AllCovered, PublishedDone
    <3>8. CASE p.budget <= 1
      BY <1>c, <3>1, <3>2, <3>7, <3>8, OnlyItself, ReturnKnows, OneStep
    <3>9. CASE ~(p.budget <= 1)
      <4>1. scanner' = [scanner EXCEPT ![s] =
                      [p EXCEPT !.pc = "chunk", !.cursor = last,
                                !.next = p.next + 1, !.budget = p.budget - 1]]
        BY <3>1, <3>9
      <4>2. /\ scanner'[s].pc = "chunk" /\ scanner'[s].cursor = last
            /\ scanner'[s].next = p.next + 1 /\ scanner'[s].valid = p.valid
            /\ \A t \in Scanners \ {s} : scanner'[t] = scanner[t]
        BY <1>a, <4>1 DEF TypeOK, ScannerState
      <4>3. Knows(s)' /\ FanProgress(s)'
        BY <1>c, <2>1, <3>2, <4>2 DEF Knows, FanProgress
      <4> QED BY <1>c, <3>7, <4>2, <4>3, OneStep
    <3> QED BY <3>8, <3>9
  <2> QED BY <2>2, <2>3
<1> QED BY <1>1, <1>2, <1>3, <1>4

\* A process that opens a chunk has everybody in it on its list.
LEMMA OpenKnows ==
  ASSUME TypeOK, NEW s \in Scanners, NEW todo \in SUBSET DOMAIN chunks,
         OpenFirst(s, todo), steady \subseteq scanner[s].valid,
         note.revoked \/ note.state = "dispatching",
         note.token = s, note.leased, UNCHANGED <<note, steady>>,
         \A n \in todo : chunks'[n].users = chunks[n].users
  PROVE  /\ Knows(s)' /\ FanProgress(s)'
         /\ \A t \in Scanners \ {s} : scanner'[t] = scanner[t]
<1>1. CASE scanner' = [scanner EXCEPT ![s] = [Idle EXCEPT !.pc = "publish"]]
  <2>1. /\ scanner'[s].pc = "publish"
        /\ \A t \in Scanners \ {s} : scanner'[t] = scanner[t]
    BY <1>1 DEF TypeOK, Idle
  <2> QED BY <2>1 DEF Knows, FanProgress
<1>2. ASSUME NEW n \in todo, IsFirst(n, todo),
             scanner' = [scanner EXCEPT ![s] =
               [Idle EXCEPT !.pc = "fan", !.valid = scanner[s].valid,
                            !.todo = todo, !.left = chunks[n].users]]
      PROVE  /\ Knows(s)' /\ FanProgress(s)'
             /\ \A t \in Scanners \ {s} : scanner'[t] = scanner[t]
  <2>1. /\ scanner'[s].pc = "fan" /\ scanner'[s].valid = scanner[s].valid
        /\ scanner'[s].todo = todo /\ scanner'[s].left = chunks[n].users
        /\ \A t \in Scanners \ {s} : scanner'[t] = scanner[t]
    BY <1>2 DEF TypeOK, Idle
  <2>2. todo \subseteq Nat
    BY DEF TypeOK
  <2>3. \A m \in todo : IsFirst(m, todo) => m = n
    BY <1>2, <2>2 DEF IsFirst
  <2>4. FanProgress(s)'
    BY <2>1, <2>3 DEF FanProgress
  <2>5. Knows(s)'
    BY <2>1 DEF Knows
  <2> QED BY <2>1, <2>4, <2>5
<1> QED BY <1>1, <1>2 DEF OpenFirst

\* Fanning out: one recipient after the other, one chunk after the other.
LEMMA CompleteFanOut ==
  ASSUME TypeOK, PlacesKnown, CompleteInv, RevokedStaysCancelled,
         NEW s \in Scanners,
         \/ OpenChunks(s) \/ FanOut(s) \/ WriteReceipt(s) \/ WriteDelivery(s)
         \/ FinishChunk(s) \/ Publish(s) \/ Release(s)
  PROVE  CompleteInv'
<1> DEFINE p == scanner[s]
<1> USE DEF fanoutVars, audienceVars
<1>a. /\ note \in NoteState /\ p \in ScannerState /\ steady \subseteq Users
      /\ delivery \in [Users -> DeliveryState]
      /\ chunks \in Seq([users : SUBSET Users, done : BOOLEAN])
      /\ p.todo \subseteq DOMAIN chunks
      /\ p.pc \in {"receipt", "delivery"} => p.user \in Users
  BY DEF TypeOK, PlacesKnown
<1>b. NoteInv /\ Knows(s) /\ FanProgress(s)
  BY DEF CompleteInv
<1>c. p.pc \in Dispatch /\ note.token = s /\ note.leased
  BY <1>b DEF Knows, OpenChunks, FanOut, WriteReceipt, WriteDelivery,
              FinishChunk, Publish, Release, Dispatch
<1>1. CASE OpenChunks(s)
  <2> DEFINE todo == {n \in Unfinished :
                     Cardinality({m \in Unfinished : m < n}) < ChunkBudget}
  <2>1. /\ p.pc = "open" /\ OpenFirst(s, todo)
        /\ UNCHANGED <<note, chunks, receipts, members, steady, delivery>>
    BY <1>1 DEF OpenChunks
  <2>2. todo \in SUBSET DOMAIN chunks
    BY DEF Unfinished
  <2>3. NoteInv'
    BY <1>a, <1>b, <2>1, NoteStays
  <2> HIDE DEF todo
  <2>4. steady \subseteq p.valid /\ (note.revoked \/ note.state = "dispatching")
    BY <1>b, <2>1 DEF Knows
  <2>5. /\ Knows(s)' /\ FanProgress(s)'
        /\ \A t \in Scanners \ {s} : scanner'[t] = scanner[t]
    BY <1>c, <2>1, <2>2, <2>4, OpenKnows
  <2> QED BY <1>c, <2>3, <2>5, OneStep
<1>2. CASE FanOut(s)
  <2>1. /\ p.pc = "fan" /\ p.left # {}
        /\ UNCHANGED <<note, chunks, receipts, members, steady, delivery>>
    BY <1>2 DEF FanOut
  <2>2. NoteInv'
    BY <1>a, <1>b, <2>1, NoteStays
  <2>3. PICK u \in p.left : scanner' = [scanner EXCEPT ![s] =
            IF ~(Guard(s) /\ note.state = "dispatching")
            THEN [Idle EXCEPT !.pc = "release"]
            ELSE IF u \notin p.valid THEN [p EXCEPT !.left = p.left \ {u}]
            ELSE [p EXCEPT !.pc = "receipt", !.left = p.left \ {u}, !.user = u]]
    BY <1>2 DEF FanOut
  <2>4. \A t \in Scanners \ {s} : scanner'[t] = scanner[t]
    BY <2>3 DEF TypeOK
  <2>5. CASE ~(Guard(s) /\ note.state = "dispatching")
    <3>1. scanner'[s] = [Idle EXCEPT !.pc = "release"]
      BY <2>3, <2>5 DEF TypeOK
    <3> QED BY <1>c, <2>1, <2>2, <2>4, <3>1, ReturnKnows, OneStep
  <2>6. CASE (Guard(s) /\ note.state = "dispatching") /\ u \notin p.valid
    <3>1. scanner'[s] = [p EXCEPT !.left = p.left \ {u}]
      BY <2>3, <2>6 DEF TypeOK
    <3>2. /\ scanner'[s].pc = "fan" /\ scanner'[s].valid = p.valid
          /\ scanner'[s].todo = p.todo /\ scanner'[s].left = p.left \ {u}
      BY <1>a, <2>1, <3>1 DEF ScannerState
    <3>3. u \notin steady
      BY <1>b, <2>1, <2>6 DEF Knows
    <3>4. FanProgress(s)'
      BY <1>b, <2>1, <3>2, <3>3 DEF FanProgress, HasBeenReached
    <3>5. Knows(s)'
      BY <1>b, <1>c, <2>1, <3>2 DEF Knows
    <3> QED BY <1>c, <2>2, <2>4, <3>4, <3>5, OneStep
  <2>7. CASE (Guard(s) /\ note.state = "dispatching") /\ u \in p.valid
    <3>1. scanner'[s] = [p EXCEPT !.pc = "receipt", !.left = p.left \ {u}, !.user = u]
      BY <2>3, <2>7 DEF TypeOK
    <3>2. /\ scanner'[s].pc = "receipt" /\ scanner'[s].valid = p.valid
          /\ scanner'[s].todo = p.todo /\ scanner'[s].left = p.left \ {u}
          /\ scanner'[s].user = u
      BY <1>a, <3>1 DEF ScannerState
    <3>3. FanProgress(s)'
      BY <1>b, <2>1, <3>2 DEF FanProgress, HasBeenReached
    <3>4. Knows(s)'
      BY <1>b, <1>c, <2>1, <3>2 DEF Knows
    <3> QED BY <1>c, <2>2, <2>4, <3>3, <3>4, OneStep
  <2> QED BY <2>5, <2>6, <2>7
<1>3. CASE WriteReceipt(s)
  <2>1. /\ p.pc = "receipt" /\ receipts' = receipts \cup {p.user}
        /\ Goto(s, IF Email THEN "delivery" ELSE "fan")
        /\ UNCHANGED <<note, chunks, members, steady, delivery>>
    BY <1>3 DEF WriteReceipt
  <2>2. /\ scanner'[s] = [p EXCEPT !.pc = IF Email THEN "delivery" ELSE "fan"]
        /\ \A t \in Scanners \ {s} : scanner'[t] = scanner[t]
    BY <2>1, OnlyItself
  <2>3. /\ scanner'[s].pc = IF Email THEN "delivery" ELSE "fan"
        /\ scanner'[s].valid = p.valid /\ scanner'[s].todo = p.todo
        /\ scanner'[s].left = p.left /\ scanner'[s].user = p.user
    BY <1>a, <2>2 DEF ScannerState
  <2>4. \A u \in Users : HasBeenReached(u) => HasBeenReached(u)'
    BY <2>1 DEF HasBeenReached
  <2>5. NoteInv'
    BY <1>a, <1>b, <2>1, <2>4
    DEF NoteInv, Unprepared, Prepared, AllCovered, DoneReached, PublishedDone
  <2>6. FanProgress(s)'
    BY <1>a, <1>b, <2>1, <2>3, <2>4, SizeAssumption DEF FanProgress, HasBeenReached
  <2>7. Knows(s)'
    BY <1>b, <1>c, <2>1, <2>3 DEF Knows
  <2> QED BY <1>c, <2>2, <2>5, <2>6, <2>7, OneStep
<1>4. CASE WriteDelivery(s)
  <2>1. /\ p.pc = "delivery"
        /\ delivery' = [delivery EXCEPT ![p.user] = Upserted(p.user)]
        /\ Goto(s, "fan")
        /\ UNCHANGED <<note, chunks, receipts, members, steady>>
    BY <1>4 DEF WriteDelivery
  <2>2. /\ scanner'[s] = [p EXCEPT !.pc = "fan"]
        /\ \A t \in Scanners \ {s} : scanner'[t] = scanner[t]
    BY <2>1, OnlyItself
  <2>3. /\ scanner'[s].pc = "fan"
        /\ scanner'[s].valid = p.valid /\ scanner'[s].todo = p.todo
        /\ scanner'[s].left = p.left
    BY <1>a, <2>2 DEF ScannerState
  <2>4. /\ delivery'[p.user].state # "none"
        /\ \A u \in Users : delivery[u].state # "none" => delivery'[u].state # "none"
    BY <1>a, <2>1 DEF Upserted, NoDelivery
  <2>5. NoteInv'
    BY <1>a, <1>b, <2>1, <2>4, NoteStays
  <2>6. FanProgress(s)'
    BY <1>a, <1>b, <2>1, <2>3, <2>4 DEF FanProgress, HasBeenReached
  <2>7. Knows(s)'
    BY <1>b, <1>c, <2>1, <2>3 DEF Knows
  <2> QED BY <1>c, <2>2, <2>5, <2>6, <2>7, OneStep
<1>5. CASE FinishChunk(s)
  <2>1. /\ p.pc = "fan" /\ p.left = {}
        /\ UNCHANGED <<note, receipts, members, steady, delivery>>
    BY <1>5 DEF FinishChunk
  <2>2. PICK n \in p.todo :
          /\ IsFirst(n, p.todo)
          /\ chunks' = [chunks EXCEPT ![n].done = TRUE]
          /\ OpenFirst(s, p.todo \ {n})
    BY <1>5 DEF FinishChunk
  <2>3. /\ DOMAIN chunks' = DOMAIN chunks /\ Len(chunks') = Len(chunks)
        /\ \A m \in DOMAIN chunks : chunks'[m].users = chunks[m].users
        /\ \A m \in DOMAIN chunks : chunks'[m].done => m = n \/ chunks[m].done
        /\ \A m \in DOMAIN chunks : chunks[m].done => chunks'[m].done
    BY <1>a, <2>2
  <2>4. \A u \in steady \cap chunks[n].users : HasBeenReached(u)
    BY <1>b, <2>1, <2>2 DEF FanProgress
  <2>5. DoneReached'
    BY <1>b, <2>1, <2>3, <2>4 DEF NoteInv, DoneReached, HasBeenReached
  <2>6. note.revoked \/ note.state = "dispatching"
    BY <1>b, <2>1 DEF Knows
  <2>7. AllCovered'
    BY <1>b, <2>1, <2>3 DEF NoteInv, AllCovered
  <2>8. NoteInv'
    BY <1>b, <2>1, <2>5, <2>6, <2>7
    DEF NoteInv, Unprepared, Prepared, PublishedDone, RevokedStaysCancelled
  <2>9. steady \subseteq p.valid
    BY <1>b, <2>1 DEF Knows
  <2>10. /\ Knows(s)' /\ FanProgress(s)'
         /\ \A t \in Scanners \ {s} : scanner'[t] = scanner[t]
    BY <1>a, <1>c, <2>1, <2>2, <2>3, <2>6, <2>9, OpenKnows
  <2> QED BY <1>c, <2>8, <2>10, OneStep
<1>6. CASE Publish(s)
  <2>1. /\ p.pc = "publish" /\ Return(s)
        /\ UNCHANGED <<chunks, receipts, members, steady, delivery>>
    BY <1>6 DEF Publish
  <2>2. note.revoked \/ note.state = "dispatching"
    BY <1>b, <2>1 DEF Knows
  <2>3. CASE AllFannedOut /\ Guard(s) /\ note.state = "dispatching"
    <3>1. note' = [note EXCEPT !.state = "published", !.count = Cardinality(receipts)]
      BY <1>6, <2>3 DEF Publish
    <3>2. /\ note'.state = "published" /\ note'.token = s /\ note'.leased
          /\ note'.audience = note.audience
      BY <1>a, <1>c, <3>1 DEF NoteState
    <3>3. \A n \in DOMAIN chunks : chunks[n].done
      BY <2>3 DEF AllFannedOut, Unfinished
    <3>4. DoneReached'
      BY <1>b, <2>1 DEF NoteInv, DoneReached, HasBeenReached
    <3>5. NoteInv'
      BY <1>b, <2>1, <2>3, <3>2, <3>3, <3>4
      DEF NoteInv, Unprepared, Prepared, AllCovered, PublishedDone
    <3> QED BY <1>c, <2>1, <3>2, <3>5, OnlyItself, ReturnKnows, OneStep
  <2>4. CASE ~(AllFannedOut /\ Guard(s) /\ note.state = "dispatching")
    <3>1. UNCHANGED note
      BY <1>6, <2>4 DEF Publish
    <3>2. NoteInv'
      BY <1>a, <1>b, <2>1, <3>1, NoteStays
    <3> QED BY <1>c, <2>1, <3>1, <3>2, OnlyItself, ReturnKnows, OneStep
  <2> QED BY <2>3, <2>4
<1>7. CASE Release(s)
  <2>1. /\ note' = [note EXCEPT !.token = NoOne, !.leased = FALSE]
        /\ scanner' = [scanner EXCEPT ![s] = Idle]
        /\ UNCHANGED <<chunks, receipts, members, steady, delivery>>
    BY <1>7, <1>c DEF Release
  <2>2. /\ note'.state = note.state /\ note'.revoked = note.revoked
        /\ note'.audience = note.audience
        /\ note'.cursor = note.cursor /\ note'.next = note.next
    BY <1>a, <2>1 DEF NoteState
  <2>3. /\ scanner'[s].pc = "idle"
        /\ \A t \in Scanners \ {s} : scanner'[t] = scanner[t]
    BY <2>1 DEF TypeOK, Idle
  <2>4. NoteInv'
    BY <1>a, <1>b, <2>1, <2>2, NoteStays
  <2>5. Knows(s)' /\ FanProgress(s)'
    BY <2>3 DEF Knows, FanProgress, Dispatch
  <2> QED BY <1>c, <2>3, <2>4, <2>5, OneStep
<1> QED BY <1>1, <1>2, <1>3, <1>4, <1>5, <1>6, <1>7

\* People, time and senders.
LEMMA CompleteElsewhere ==
  ASSUME "stall" \notin Events, TypeOK, CompleteInv, RevokedStaysCancelled,
         \/ People \/ Housekeeping \/ UNCHANGED vars
         \/ \E s \in Scanners : DeliverStep(s) \/ Crash(s)
         \/ \E s \in Scanners, u \in Users : LeaseDelivery(s, u)
  PROVE  CompleteInv'
<1> USE DEF fanoutVars, audienceVars
<1>a. /\ note \in NoteState /\ steady \subseteq members /\ members \subseteq Users
      /\ delivery \in [Users -> DeliveryState]
      /\ scanner \in [Scanners -> ScannerState]
  BY DEF TypeOK, CompleteInv, NoteInv
<1>b. ASSUME UNCHANGED <<chunks, receipts, scanner, delivery, members, steady>>,
             note'.audience = note.audience, note'.cursor = note.cursor,
             note'.next = note.next, note'.state = note.state,
             note'.revoked = note.revoked, note'.token = note.token,
             note'.leased = note.leased
      PROVE  CompleteInv'
  BY <1>a, <1>b, OthersComplete
<1>1. ASSUME NEW audience \in SUBSET Users,
             NEW state \in {"draft", "scheduled", "preparing"},
             EditDraft(audience, state)
      PROVE  CompleteInv'
  <2>1. /\ note.state \in {"draft", "scheduled"} /\ ~note.leased /\ ~note.revoked
        /\ note' = [note EXCEPT !.audience = audience, !.state = state,
                                !.version = note.version + 1]
        /\ steady' = audience \cap members
        /\ UNCHANGED <<chunks, receipts, delivery, scanner, members>>
    BY <1>1 DEF EditDraft, Editable
  <2>2. /\ note'.audience = audience /\ note'.state = state
        /\ note'.cursor = note.cursor /\ note'.next = note.next
    BY <1>a, <2>1 DEF NoteState
  <2>3. chunks = <<>> /\ note.next = 0 /\ note.cursor = 0
    BY <2>1 DEF CompleteInv, NoteInv, Unprepared
  <2>4. Prepared'
    <3>1. Len(chunks) = 0 /\ \A u \in Users : ~(u <= 0)
      BY <2>3, SizeAssumption DEF Users
    <3>2. steady' \subseteq Users
      BY <1>a, <2>1
    <3>3. chunks' = chunks /\ note'.next = 0 /\ note'.cursor = 0
      BY <2>1, <2>2, <2>3
    <3> QED BY ONLY <3>1, <3>2, <3>3 DEF Prepared
  <2>5. Unprepared' /\ AllCovered' /\ PublishedDone' /\ DoneReached'
    BY <2>1, <2>2, <2>3 DEF Unprepared, AllCovered, PublishedDone, DoneReached
  <2>6. NoteInv'
    BY <2>1, <2>2, <2>4, <2>5 DEF NoteInv
  <2>7. ASSUME NEW s \in Scanners PROVE Knows(s)' /\ FanProgress(s)'
    <3>1. scanner'[s].pc \notin Dispatch
      BY <2>1 DEF CompleteInv, Knows
    <3> QED BY <3>1 DEF Knows, FanProgress, Dispatch
  <2> QED BY <2>6, <2>7 DEF CompleteInv
<1>2. CASE Revoke
  <2>1. /\ note' = [note EXCEPT !.revoked = TRUE, !.state = "cancelled",
                          !.moderated = FALSE, !.version = note.version + 1]
        /\ UNCHANGED <<chunks, receipts, delivery, scanner, members, steady>>
    BY <1>2 DEF Revoke
  <2>2. /\ note'.audience = note.audience /\ note'.cursor = note.cursor
        /\ note'.next = note.next /\ note'.state = "cancelled" /\ note'.revoked
        /\ note'.token = note.token /\ note'.leased = note.leased
    BY <1>a, <2>1 DEF NoteState
  <2> QED BY <1>a, <2>1, <2>2, OthersComplete
<1>3. CASE AuditSubmission \/ AuditRevocation \/ RecoverAudit
  <2>1. /\ UNCHANGED <<chunks, receipts, scanner, delivery, members, steady>>
        /\ \/ note' = [note EXCEPT !.audited = TRUE]
           \/ note' = [note EXCEPT !.moderated = TRUE]
    BY <1>3 DEF AuditSubmission, AuditRevocation, RecoverAudit
  <2> QED BY <1>a, <1>b, <2>1 DEF NoteState
<1>4. CASE RevocationDies \/ UNCHANGED vars \/ \E what \in {"expired", "author"} : Lapse(what)
  BY <1>4, <1>b DEF RevocationDies, vars, Lapse
<1>5. CASE CancelDeliveries
  <2>1. \A u \in Users : delivery[u].state # "none" => delivery'[u].state # "none"
    BY <1>a, <1>5 DEF CancelDeliveries, DeliveryState
  <2> QED BY <1>a, <1>5, <2>1, OthersComplete DEF CancelDeliveries
<1>6. ASSUME NEW u \in Users, Leave(u) \/ Join(u) PROVE CompleteInv'
  <2>1. /\ steady' \subseteq steady /\ steady' \subseteq members'
        /\ UNCHANGED <<note, chunks, receipts, delivery, scanner>>
    BY <1>a, <1>6 DEF Leave, Join
  <2> QED BY <1>a, <2>1, OthersComplete
<1>7. ASSUME NEW u \in Users, ReapDelivery(u) \/ DeliveryLeaseEnds(u)
      PROVE  CompleteInv'
  <2>1. /\ \A v \in Users : delivery[v].state # "none" => delivery'[v].state # "none"
        /\ UNCHANGED <<note, chunks, receipts, scanner, members, steady>>
    BY <1>a, <1>7 DEF ReapDelivery, DeliveryLeaseEnds, DeliveryState, Reaped
  <2> QED BY <1>a, <2>1, OthersComplete
<1>8. CASE NoteLeaseEnds
  <2>1. /\ note' = [note EXCEPT !.leased = FALSE]
        /\ UNCHANGED <<chunks, receipts, delivery, scanner, members, steady>>
        /\ note.token \in Scanners => scanner[note.token].pc \notin Dispatch
    BY <1>8 DEF NoteLeaseEnds
  <2>2. \A s \in Scanners : scanner'[s].pc \notin Dispatch
    BY <2>1 DEF CompleteInv, Knows
  <2>3. /\ note'.audience = note.audience /\ note'.cursor = note.cursor
        /\ note'.next = note.next /\ note'.state = note.state
        /\ note'.revoked = note.revoked
    BY <1>a, <2>1 DEF NoteState
  <2> QED BY <1>a, <2>1, <2>2, <2>3, OthersComplete
<1>9. ASSUME NEW s \in Scanners,
             DeliverStep(s) \/ Crash(s) \/ \E u \in Users : LeaseDelivery(s, u)
      PROVE  CompleteInv'
  <2>1. /\ UNCHANGED <<note, chunks, receipts, members, steady>>
        /\ \A v \in Users : delivery[v].state # "none" => delivery'[v].state # "none"
    <3>1. ASSUME NEW u \in Users, LeaseDelivery(s, u)
          PROVE  \A v \in Users : delivery[v].state # "none" => delivery'[v].state # "none"
      <4>1. delivery' = [delivery EXCEPT ![u] =
              [delivery[u] EXCEPT !.state = "leased", !.token = s, !.leased = TRUE,
                                  !.attempts = delivery[u].attempts + 1]]
        BY <3>1 DEF LeaseDelivery
      <4>2. delivery'[u].state = "leased"
        BY <1>a, <4>1 DEF DeliveryState
      <4> QED BY <1>a, <4>1, <4>2
    <3>2. ASSUME RecordDelivery(s)
          PROVE  \A v \in Users : delivery[v].state # "none" => delivery'[v].state # "none"
      <4>1. Recorded(scanner[s].user, scanner[s].outcome) # "none"
        BY <1>a DEF ScannerState, Recorded, Final
      <4> QED BY <1>a, <3>2, <4>1 DEF RecordDelivery, DeliveryState
    <3>3. UNCHANGED <<note, chunks, receipts, members, steady>>
      BY <1>9 DEF DeliverStep, CheckDelivery, SendMail, RecordDelivery, Crash,
                  LeaseDelivery
    <3>4. UNCHANGED delivery \/ RecordDelivery(s) \/ \E u \in Users : LeaseDelivery(s, u)
      BY <1>9 DEF DeliverStep, CheckDelivery, SendMail, Crash
    <3> QED BY <3>1, <3>2, <3>3, <3>4
  <2>2. /\ scanner'[s].pc \notin Dispatch
        /\ \A t \in Scanners \ {s} : scanner'[t] = scanner[t]
    <3>1. \A pc : [scanner[s] EXCEPT !.pc = pc].pc = pc
      BY <1>a DEF ScannerState
    <3>2. CASE CheckDelivery(s)
      <4>1. Goto(s, "send") \/ \E outcome : Verdict(s, outcome)
        BY <3>2 DEF CheckDelivery
      <4>2. CASE Goto(s, "send")
        BY <1>a, <4>2 DEF Goto, ScannerState, Dispatch
      <4>3. ASSUME NEW outcome, Verdict(s, outcome)
            PROVE  /\ scanner'[s].pc \notin Dispatch
                   /\ \A t \in Scanners \ {s} : scanner'[t] = scanner[t]
        BY <1>a, <4>3 DEF Verdict, ScannerState, Dispatch
      <4> QED BY <4>1, <4>2, <4>3
    <3>3. CASE SendMail(s)
      <4>1. PICK outcome : Verdict(s, outcome)
        BY <3>3 DEF SendMail
      <4> QED BY <1>a, <4>1 DEF Verdict, ScannerState, Dispatch
    <3>4. CASE RecordDelivery(s) \/ Crash(s)
      BY <1>a, <3>4 DEF RecordDelivery, Crash, Idle, Dispatch
    <3>5. ASSUME NEW u \in Users, LeaseDelivery(s, u)
          PROVE  /\ scanner'[s].pc \notin Dispatch
                 /\ \A t \in Scanners \ {s} : scanner'[t] = scanner[t]
      BY <1>a, <3>5 DEF LeaseDelivery, Idle, Dispatch
    <3> QED BY <1>9, <3>2, <3>3, <3>4, <3>5 DEF DeliverStep
  <2> QED BY <1>a, <2>1, <2>2, OthersComplete
<1> QED BY <1>1, <1>2, <1>3, <1>4, <1>5, <1>6, <1>7, <1>8, <1>9
    DEF People, Housekeeping

LEMMA CompleteNext ==
  ASSUME "stall" \notin Events, TypeOK, PlacesKnown, CompleteInv,
         RevokedStaysCancelled, RevokedStaysCancelled', [Next]_vars
  PROVE  CompleteInv'
BY CompleteClaim, CompletePrepare, CompleteFanOut, CompleteElsewhere
DEF Next, DispatchStep

LEMMA CompleteInit == Init => CompleteInv
<1> SUFFICES ASSUME Init PROVE CompleteInv
  OBVIOUS
<1>1. /\ steady = note.audience /\ steady \subseteq Users /\ members = Users
      /\ note.next = 0 /\ note.cursor = 0 /\ chunks = <<>>
      /\ note.state \in {"draft", "scheduled", "preparing"}
      /\ \A s \in Scanners : scanner[s].pc = "idle"
  BY DEF Init, Idle
<1>2. Len(chunks) = 0 /\ \A u \in Users : ~(u <= 0)
  BY <1>1, SizeAssumption DEF Users
<1>3. Prepared
  BY ONLY <1>1, <1>2 DEF Prepared
<1>4. NoteInv
  BY <1>1, <1>3 DEF NoteInv, Unprepared, AllCovered, DoneReached, PublishedDone
<1> QED BY <1>1, <1>4 DEF CompleteInv, Knows, FanProgress, Dispatch

LEMMA CompleteHolds ==
  ASSUME "stall" \notin Events
  PROVE  Spec => []CompleteInv
<1>1. TypeOK /\ PlacesKnown /\ RevokedStaysCancelled /\ RevokedStaysCancelled'
        /\ CompleteInv /\ [Next]_vars => CompleteInv'
  BY CompleteNext
<1>2. MailInv => TypeOK /\ PlacesKnown
  BY DEF MailInv
<1> QED BY <1>1, <1>2, CompleteInit, MailInvariant, RevocationHolds, PTL DEF Spec

\* If no process outlives its lease: once the notification is published,
\* everybody who has been a recipient since it was submitted has a receipt, and
\* a delivery if it asks for e-mail, whatever scans were killed on the way.
THEOREM NobodyPassedOver ==
  ASSUME "stall" \notin Events
  PROVE  Spec => []PublishedIsComplete
<1>1. CompleteInv => PublishedIsComplete
  <2> SUFFICES ASSUME CompleteInv, note.state = "published", NEW u \in steady
               PROVE  HasBeenReached(u)
    BY DEF PublishedIsComplete, HasBeenReached
  <2>1. PICK n \in DOMAIN chunks : u \in chunks[n].users
    BY DEF CompleteInv, NoteInv, AllCovered
  <2>2. chunks[n].done
    BY DEF CompleteInv, NoteInv, PublishedDone
  <2> QED BY <2>1, <2>2 DEF CompleteInv, NoteInv, DoneReached
<1> QED BY <1>1, CompleteHolds, PTL

\* If no process outlives its lease: a draft becomes something else only by its
\* author or a moderator, who both leave a new version.
THEOREM DraftIsTheAuthors ==
  ASSUME "stall" \notin Events
  PROVE  Spec => DraftWaitsForAuthor
<1>1. ASSUME TypeOK, CompleteInv, [Next]_vars, note.state = "draft"
      PROVE  note'.state = "draft" \/ note'.version # note.version
  <2> USE DEF fanoutVars, audienceVars
  <2>a. note \in NoteState
    BY <1>1 DEF TypeOK
  <2>b. CASE note'.state = note.state
    BY <1>1, <2>b
  <2>1. ASSUME NEW s \in Scanners, Gate(s) \/ ListRecipients(s)
        PROVE  note' = note
    <3>1. note.revoked
      BY <1>1, <2>1 DEF CompleteInv, Knows, Gate, ListRecipients, Scannable
    <3> QED BY <2>1, <3>1 DEF Gate, ListRecipients, GuardedState, Guard
  <2>2. ASSUME NEW s \in Scanners, SaveChunk(s) \/ AdvanceCheckpoint(s) \/ Publish(s)
        PROVE  note' = note
    BY <1>1, <2>2 DEF SaveChunk, AdvanceCheckpoint, Publish, GuardedState
  <2>3. ASSUME NEW s \in Scanners, Claim(s) \/ AuditPublication(s) \/ Release(s)
        PROVE  note'.state = note.state
    BY <2>a, <2>3 DEF Claim, AuditPublication, Release, NoteState
  <2>4. ASSUME NEW s \in Scanners,
               \/ OpenChunks(s) \/ FanOut(s) \/ WriteReceipt(s)
               \/ WriteDelivery(s) \/ FinishChunk(s) \/ DeliverStep(s) \/ Crash(s)
               \/ \E u \in Users : LeaseDelivery(s, u)
        PROVE  note' = note
    BY <2>4 DEF OpenChunks, FanOut, WriteReceipt, WriteDelivery, FinishChunk,
      DeliverStep, CheckDelivery, SendMail, RecordDelivery, Crash, LeaseDelivery
  <2>5. ASSUME \/ Revoke
               \/ \E audience \in SUBSET Users \ {{}},
                     state \in {"draft", "scheduled", "preparing"} :
                       EditDraft(audience, state)
        PROVE  note'.version # note.version
    <3>1. note'.version = note.version + 1
      BY <2>a, <2>5 DEF Revoke, EditDraft, NoteState
    <3> QED BY <2>a, <3>1 DEF NoteState
  <2>6. CASE AuditSubmission \/ AuditRevocation \/ RecoverAudit \/ NoteLeaseEnds
    BY <2>a, <2>b, <2>6 DEF AuditSubmission, AuditRevocation, RecoverAudit,
                            NoteLeaseEnds, NoteState
  <2>7. CASE People \/ Housekeeping \/ UNCHANGED vars
    BY <2>b, <2>5, <2>6, <2>7
    DEF People, Housekeeping, CancelDeliveries, RevocationDies, Leave, Join,
        Lapse, ReapDelivery, DeliveryLeaseEnds, vars
  <2> QED BY <1>1, <2>b, <2>1, <2>2, <2>3, <2>4, <2>7 DEF Next, DispatchStep
<1>2. TypeOK /\ CompleteInv /\ [Next]_vars
        => [note.state = "draft" /\ note'.state # "draft"
              => note'.version # note.version]_vars
  BY <1>1
<1>3. MailInv => TypeOK
  BY DEF MailInv
<1> QED BY <1>2, <1>3, CompleteHolds, MailInvariant, PTL DEF Spec, DraftWaitsForAuthor

(***************************************************************************)
(* ProofreadDraft: the draft of a key.                                     *)
(***************************************************************************)
DraftStates == {"none", "draft", "preparing", "published", "cancelled"}
SenderPlaces == {"idle", "key", "collect", "publish", "delay"}

Feedbacks == [state : DraftStates, scope : Scopes \cup {""}, edition : Nat, rendered : BOOLEAN,
              mailed : {"not", "whole", "empty"}]
Desks == [Senders -> [at : SenderPlaces, scope : Scopes \cup {""}, edition : Nat]]
BakerStates == [Bakers -> {"idle", "draw", "release", "dispatch"}]
Tallies == [sent : Nat, mishaps : Nat, edited : BOOLEAN]

DraftTypeOK ==
  /\ feedback \in Feedbacks /\ desk \in Desks /\ baker \in BakerStates /\ tally \in Tallies
  /\ edition \in Nat /\ bakes \in Nat

\* Nobody has been told anything of a notification that does not exist, and
\* who is about to be told has asked for the one that does.
ToldTheTruth ==
  /\ accepted \subseteq {feedback.scope}
  /\ feedback.state = "none" => accepted = {}
  /\ \A r \in Senders : SenderAt(r, "delay") =>
       feedback.state # "none" /\ desk[r].scope = feedback.scope

\* What is not rendered leaves the state draft by the sender's hand only.
RenderedFirst ==
  /\ feedback.state = "preparing" /\ ~ feedback.rendered => tally.edited
  /\ feedback.mailed = "empty" => tally.edited

DraftInv == DraftTypeOK /\ ToldTheTruth /\ RenderedFirst

LEMMA DraftInitInv == DraftInit => DraftInv
<1> SUFFICES ASSUME DraftInit PROVE DraftInv
  OBVIOUS
<1>1. NoFeedback \in Feedbacks
  BY DEF NoFeedback, DraftStates, Feedbacks
<1>2. [at |-> "idle", scope |-> "", edition |-> 0]
        \in [at : SenderPlaces, scope : Scopes \cup {""}, edition : Nat]
  BY DEF SenderPlaces
<1>3. desk \in Desks /\ baker \in BakerStates /\ tally \in Tallies
  BY <1>2 DEF DraftInit, Desks, BakerStates, Tallies
<1>4. ToldTheTruth /\ RenderedFirst
  BY DEF DraftInit, ToldTheTruth, RenderedFirst, NoFeedback, SenderAt
<1> QED
  BY <1>1, <1>3, <1>4 DEF DraftInit, DraftInv, DraftTypeOK

\* What the steps make of each of the documents and memories.
LEMMA FeedbackTypes ==
  ASSUME feedback \in Feedbacks
  PROVE  /\ \A state \in DraftStates : [feedback EXCEPT !.state = state] \in Feedbacks
         /\ [feedback EXCEPT !.state = "preparing", !.rendered = TRUE] \in Feedbacks
         /\ Mailed \in Feedbacks /\ feedback.scope \in Scopes \cup {""}
         /\ \A scope \in Scopes \cup {""}, n \in Nat :
              [NoFeedback EXCEPT !.state = FirstState, !.scope = scope, !.edition = n] \in Feedbacks
BY DEF Feedbacks, DraftStates, Mailed, NoFeedback, FirstState

LEMMA DeskTypes ==
  ASSUME desk \in Desks, NEW r \in Senders
  PROVE  /\ \A at \in SenderPlaces : SenderGoto(r, at) => desk' \in Desks
         /\ \A n \in Nat : [desk EXCEPT ![r].at = "publish", ![r].edition = n] \in Desks
         /\ \A scope \in Scopes :
              [desk EXCEPT ![r] = [at |-> "key", scope |-> scope, edition |-> 0]] \in Desks
         /\ desk[r].scope \in Scopes \cup {""} /\ desk[r].edition \in Nat
         /\ {"idle", "key", "collect", "publish", "delay"} \subseteq SenderPlaces
BY DEF Desks, SenderPlaces, SenderGoto

LEMMA BakerTypes ==
  ASSUME baker \in BakerStates, NEW w \in Bakers
  PROVE  \A at \in {"idle", "draw", "release", "dispatch"} : BakerGoto(w, at) => baker' \in BakerStates
BY DEF BakerStates, BakerGoto

LEMMA TallyTypes ==
  ASSUME tally \in Tallies
  PROVE  /\ [tally EXCEPT !.sent = @ + 1] \in Tallies /\ [tally EXCEPT !.mishaps = @ + 1] \in Tallies
         /\ [tally EXCEPT !.edited = TRUE] \in Tallies
<1>1. [tally EXCEPT !.sent = @ + 1] \in Tallies
  BY DEF Tallies
<1>2. [tally EXCEPT !.mishaps = @ + 1] \in Tallies
  BY DEF Tallies
<1>3. [tally EXCEPT !.edited = TRUE] \in Tallies
  BY DEF Tallies
<1> QED
  BY <1>1, <1>2, <1>3

LEMMA DraftTypes == DraftTypeOK /\ [DraftNext]_draftVars => DraftTypeOK'
<1> SUFFICES ASSUME DraftTypeOK, DraftNext PROVE DraftTypeOK'
  BY DEF draftVars, DraftTypeOK
<1>0. /\ feedback \in Feedbacks /\ desk \in Desks /\ baker \in BakerStates /\ tally \in Tallies
      /\ edition + 1 \in Nat /\ bakes + 1 \in Nat /\ edition \in Nat /\ bakes \in Nat
      /\ bakes > 0 => bakes - 1 \in Nat
  BY DEF DraftTypeOK
<1>1. ASSUME NEW r \in Senders, SenderWorks(r) \/ SenderDies(r) PROVE DraftTypeOK'
  <2>1. CASE LookUpKey(r)
    BY ONLY <1>0, <2>1, DeskTypes DEF LookUpKey, Accept, DraftTypeOK
  <2>2. CASE CollectPages(r) \/ NothingToSend(r)
    BY ONLY <1>0, <2>2, DeskTypes DEF CollectPages, NothingToSend, DraftTypeOK
  <2>3. CASE PublishDraft(r)
    <3>1. desk[r].scope \in Scopes \cup {""} /\ desk[r].edition \in Nat
          /\ \A at \in {"delay", "idle"} : SenderGoto(r, at) => desk' \in Desks
      BY ONLY <1>0, r \in Senders, DeskTypes
    <3>2. [NoFeedback EXCEPT !.state = FirstState, !.scope = desk[r].scope, !.edition = desk[r].edition]
            \in Feedbacks
      BY ONLY <1>0, <3>1, FeedbackTypes
    <3>3. feedback' \in Feedbacks
      BY ONLY <1>0, <2>3, <3>2 DEF PublishDraft
    <3>4. desk' \in Desks
      BY ONLY <2>3, <3>1 DEF PublishDraft
    <3> QED
      BY ONLY <1>0, <2>3, <3>3, <3>4 DEF PublishDraft, DraftTypeOK
  <2>4. CASE DelayBake(r)
    BY ONLY <1>0, <2>4, DeskTypes DEF DelayBake, Accept, DraftTypeOK
  <2>5. CASE SenderDies(r)
    BY ONLY <1>0, <2>5, DeskTypes, TallyTypes DEF SenderDies, DraftTypeOK
  <2> QED
    BY <1>1, <2>1, <2>2, <2>3, <2>4, <2>5 DEF SenderWorks
<1>2. ASSUME NEW r \in Senders, NEW scope \in Scopes, SendDraft(r, scope) PROVE DraftTypeOK'
  BY ONLY <1>0, <1>2, DeskTypes, TallyTypes, r \in Senders, scope \in Scopes DEF SendDraft, DraftTypeOK
<1>3. ASSUME NEW w \in Bakers, BakerWorks(w) \/ BakeFails(w) PROVE DraftTypeOK'
  <2>1. CASE TakeBake(w) \/ DrawPages(w)
    BY ONLY <1>0, <2>1, BakerTypes DEF TakeBake, DrawPages, DraftTypeOK
  <2>2. CASE CancelTooLarge(w) \/ ReleaseDraft(w)
    BY ONLY <1>0, <2>2, BakerTypes, FeedbackTypes DEF CancelTooLarge, ReleaseDraft, DraftStates, DraftTypeOK
  <2>3. CASE DispatchNow(w)
    BY ONLY <1>0, <2>3, BakerTypes, FeedbackTypes DEF DispatchNow, DraftTypeOK
  <2>4. CASE BakeFails(w)
    BY ONLY <1>0, <2>4, BakerTypes, TallyTypes DEF BakeFails, DraftTypeOK
  <2> QED
    BY <1>3, <2>1, <2>2, <2>3, <2>4 DEF BakerWorks
<1>4. CASE ScanSends \/ RevokeFeedback \/ PagesChange
  BY <1>0, <1>4, FeedbackTypes DEF ScanSends, RevokeFeedback, PagesChange, DraftStates, DraftTypeOK
<1>5. ASSUME NEW state \in {"draft", "preparing"}, EditFeedback(state) PROVE DraftTypeOK'
  BY <1>0, <1>5, FeedbackTypes, TallyTypes DEF EditFeedback, DraftStates, DraftTypeOK
<1> QED
  BY <1>1, <1>2, <1>3, <1>4, <1>5 DEF DraftNext

\* What moving a request leaves of the others, and of what it asked for.
OnlyMoved(r, at) == \A q \in Senders : /\ desk'[q].scope = desk[q].scope
                                      /\ desk'[q].at = IF q = r THEN at ELSE desk[q].at

LEMMA DeskMoves ==
  ASSUME desk \in Desks, NEW r \in Senders, NEW at
  PROVE  /\ SenderGoto(r, at) => OnlyMoved(r, at)
         /\ \A n : desk' = [desk EXCEPT ![r].at = at, ![r].edition = n] => OnlyMoved(r, at)
<1>1. DOMAIN desk = Senders /\ \A q \in Senders : DOMAIN desk[q] = {"at", "scope", "edition"}
  BY DEF Desks
<1>2. ASSUME SenderGoto(r, at) PROVE OnlyMoved(r, at)
  BY <1>1, <1>2 DEF SenderGoto, OnlyMoved
<1>3. ASSUME NEW n, desk' = [desk EXCEPT ![r].at = at, ![r].edition = n] PROVE OnlyMoved(r, at)
  BY <1>1, <1>3 DEF OnlyMoved
<1> QED
  BY <1>2, <1>3

\* The request.
LEMMA SenderSteps ==
  ASSUME DraftInv, NEW r \in Senders, SenderWorks(r) \/ SenderDies(r)
  PROVE  ToldTheTruth' /\ RenderedFirst'
<1>0. desk \in Desks /\ edition \in Nat /\ ToldTheTruth /\ RenderedFirst /\ r \in Senders
      /\ {"idle", "key", "collect", "publish", "delay"} \subseteq SenderPlaces
  BY DEF DraftInv, DraftTypeOK, SenderPlaces
<1> USE DEF DraftInv, DraftTypeOK, Feedbacks, DraftStates, Desks, Tallies, SenderAt, SenderGoto, ToldTheTruth, RenderedFirst
<1>1. CASE LookUpKey(r)
  <2>1. SenderGoto(r, "idle") \/ SenderGoto(r, "collect")
    BY ONLY <1>1 DEF LookUpKey, Accept
  <2>2. \A q \in Senders : desk'[q].scope = desk[q].scope /\ (desk'[q].at = "delay" => desk[q].at = "delay")
    <3>1. OnlyMoved(r, "idle") \/ OnlyMoved(r, "collect")
      BY ONLY <1>0, <2>1, DeskMoves
    <3> QED
      BY ONLY <3>1 DEF OnlyMoved
  <2>3. /\ feedback' = feedback /\ tally' = tally
        /\ \/ accepted' = accepted
           \/ accepted' = accepted \cup {feedback.scope} /\ feedback.state # "none"
    <3>1. CASE feedback.state = "none"
      BY ONLY <1>1, <3>1 DEF LookUpKey
    <3>2. CASE feedback.state # "none"
      BY ONLY <1>1, <3>2 DEF LookUpKey, Accept
    <3> QED
      BY ONLY <3>1, <3>2
  <2> QED
    BY ONLY <1>0, <2>2, <2>3 DEF ToldTheTruth, RenderedFirst, SenderAt
<1>2. CASE CollectPages(r) \/ NothingToSend(r)
  <2>1. \A q \in Senders : desk'[q].scope = desk[q].scope /\ (desk'[q].at = "delay" => desk[q].at = "delay")
    <3>1. OnlyMoved(r, "publish") \/ OnlyMoved(r, "idle")
      BY ONLY <1>0, <1>2, DeskMoves DEF CollectPages, NothingToSend
    <3> QED
      BY ONLY <3>1 DEF OnlyMoved
  <2>2. feedback' = feedback /\ tally' = tally /\ accepted' = accepted
    BY ONLY <1>2 DEF CollectPages, NothingToSend
  <2> QED
    BY ONLY <1>0, <2>1, <2>2 DEF ToldTheTruth, RenderedFirst, SenderAt
<1>3. CASE PublishDraft(r)
  <2>1. CASE feedback.state = "none"
    <3>1. \A q \in Senders : desk'[q].scope = desk[q].scope /\ (desk'[q].at = "delay" => q = r \/ desk[q].at = "delay")
      BY ONLY <1>0, <1>3, <2>1, DeskMoves DEF PublishDraft, OnlyMoved
    <3>2. /\ feedback'.state # "none" /\ feedback'.state # "preparing" /\ feedback'.mailed # "empty"
          /\ feedback'.scope = desk[r].scope /\ accepted' = accepted /\ tally' = tally
      BY ONLY <1>3, <2>1 DEF PublishDraft, NoFeedback, FirstState
    <3> QED
      BY ONLY <1>0, <2>1, <3>1, <3>2 DEF ToldTheTruth, RenderedFirst, SenderAt
  <2>2. CASE feedback.state # "none"
    <3>1. /\ feedback' = feedback /\ accepted' = accepted /\ tally' = tally
          /\ \/ SenderGoto(r, "idle")
             \/ SenderGoto(r, "delay") /\ feedback.scope = desk[r].scope
      <4>1. CASE SameFingerprint(r)
        BY ONLY <1>3, <2>2, <4>1 DEF PublishDraft, SameFingerprint
      <4>2. CASE ~ SameFingerprint(r)
        BY ONLY <1>3, <2>2, <4>2 DEF PublishDraft
      <4> QED
        BY ONLY <4>1, <4>2
    <3>2. \A q \in Senders :
            /\ desk'[q].scope = desk[q].scope
            /\ desk'[q].at = "delay" => desk[q].at = "delay" \/ (q = r /\ feedback.scope = desk[r].scope)
      <4>1. CASE SenderGoto(r, "idle")
        <5>1. OnlyMoved(r, "idle")
          BY ONLY <1>0, <4>1, DeskMoves
        <5> QED
          BY ONLY <5>1 DEF OnlyMoved
      <4>2. CASE SenderGoto(r, "delay") /\ feedback.scope = desk[r].scope
        BY ONLY <1>0, <4>2, DeskMoves DEF OnlyMoved
      <4> QED
        BY ONLY <3>1, <4>1, <4>2
    <3> QED
      BY ONLY <1>0, <2>2, <3>1, <3>2 DEF ToldTheTruth, RenderedFirst, SenderAt
  <2> QED
    BY <2>1, <2>2
<1>4. CASE DelayBake(r)
  BY <1>4 DEF DelayBake, Accept
<1>5. CASE SenderDies(r)
  BY <1>5 DEF SenderDies
<1> QED
  BY <1>1, <1>2, <1>3, <1>4, <1>5 DEF SenderWorks

\* The worker.
LEMMA BakerSteps ==
  ASSUME DraftInv, NEW w \in Bakers, BakerWorks(w) \/ BakeFails(w)
  PROVE  ToldTheTruth' /\ RenderedFirst'
<1> USE DEF DraftInv, DraftTypeOK, Feedbacks, DraftStates, Tallies, BakerAt, BakerGoto, SenderAt, ToldTheTruth,
            RenderedFirst
<1>1. CASE TakeBake(w) \/ DrawPages(w)
  BY <1>1 DEF TakeBake, DrawPages
<1>2. CASE CancelTooLarge(w)
  BY <1>2 DEF CancelTooLarge
<1>3. CASE ReleaseDraft(w)
  BY <1>3 DEF ReleaseDraft, StillDraft
<1>4. CASE DispatchNow(w)
  BY <1>4 DEF DispatchNow, Sendable, Mailed
<1>5. CASE BakeFails(w)
  BY <1>5 DEF BakeFails
<1> QED
  BY <1>1, <1>2, <1>3, <1>4, <1>5 DEF BakerWorks

LEMMA DraftKept == DraftInv /\ [DraftNext]_draftVars => DraftInv'
<1> SUFFICES ASSUME DraftInv, [DraftNext]_draftVars PROVE ToldTheTruth' /\ RenderedFirst'
  BY DraftTypes DEF DraftInv
<1>a. DraftInv
  OBVIOUS
<1> USE DEF DraftInv, DraftTypeOK, Feedbacks, DraftStates, Tallies, Desks, SenderAt, ToldTheTruth, RenderedFirst
<1>1. ASSUME NEW r \in Senders, NEW scope \in Scopes, SendDraft(r, scope)
      PROVE  ToldTheTruth' /\ RenderedFirst'
  BY <1>1 DEF SendDraft
<1>2. CASE ScanSends
  BY <1>2 DEF ScanSends, Sendable, Mailed
<1>3. CASE RevokeFeedback \/ PagesChange
  BY <1>3 DEF RevokeFeedback, PagesChange
<1>4. ASSUME NEW state \in {"draft", "preparing"}, EditFeedback(state)
      PROVE  ToldTheTruth' /\ RenderedFirst'
  BY <1>4 DEF EditFeedback
<1>5. CASE UNCHANGED draftVars
  BY <1>5 DEF draftVars
<1>6. ASSUME NEW r \in Senders, SenderWorks(r) \/ SenderDies(r) PROVE ToldTheTruth' /\ RenderedFirst'
  BY ONLY <1>a, <1>6, SenderSteps
<1>7. ASSUME NEW w \in Bakers, BakerWorks(w) \/ BakeFails(w) PROVE ToldTheTruth' /\ RenderedFirst'
  BY ONLY <1>a, <1>7, BakerSteps
<1> QED
  BY <1>1, <1>2, <1>3, <1>4, <1>5, <1>6, <1>7 DEF DraftNext

\* Whoever repeats a request under one key, at whatever moment and however
\* often, is told that it was accepted only if the notification of the key is
\* what it asked for; and no mail goes out before the pages have been drawn
\* into it, except after the sender released the draft by hand.
THEOREM KeyHolds == DraftInit /\ [][DraftNext]_draftVars => []KeyMeansOneThing
<1>1. DraftInv => KeyMeansOneThing
  BY DEF DraftInv, ToldTheTruth, RenderedFirst, KeyMeansOneThing
<1> QED
  BY <1>1, DraftInitInv, DraftKept, PTL

\* However many workers bake the draft, and whoever edits or revokes it
\* meanwhile, the notification is released once, and one that was cancelled is
\* never sent again.
THEOREM ReleasedOnceHolds == DraftInit /\ [][DraftNext]_draftVars => ReleasedOnce
<1> DEFINE Moves == feedback'.state # feedback.state => <<feedback.state, feedback'.state>> \in Onward
<1>1. DraftInv /\ [DraftNext]_draftVars => Moves
  <2> SUFFICES ASSUME DraftInv, DraftNext PROVE Moves
    BY DEF draftVars
  <2> USE DEF DraftInv, DraftTypeOK, Feedbacks, DraftStates, Onward
  <2>1. ASSUME NEW r \in Senders, SenderWorks(r) \/ SenderDies(r) PROVE Moves
    BY <2>1 DEF SenderWorks, SenderDies, LookUpKey, CollectPages, NothingToSend, PublishDraft, DelayBake,
                NoFeedback, FirstState
  <2>2. ASSUME NEW w \in Bakers, BakerWorks(w) \/ BakeFails(w) PROVE Moves
    BY <2>2 DEF BakerWorks, BakeFails, TakeBake, DrawPages, CancelTooLarge, ReleaseDraft, StillDraft,
                DispatchNow, Sendable, Mailed
  <2>3. ASSUME NEW r \in Senders, NEW scope \in Scopes, SendDraft(r, scope) PROVE Moves
    BY <2>3 DEF SendDraft
  <2>4. CASE ScanSends \/ RevokeFeedback \/ PagesChange
    BY <2>4 DEF ScanSends, RevokeFeedback, PagesChange, Sendable, Mailed
  <2>5. ASSUME NEW state \in {"draft", "preparing"}, EditFeedback(state) PROVE Moves
    BY <2>5 DEF EditFeedback
  <2> QED
    BY <2>1, <2>2, <2>3, <2>4, <2>5 DEF DraftNext
<1> HIDE DEF Moves
<1>2. DraftInit /\ [][DraftNext]_draftVars => [][Moves]_draftVars
  BY <1>1, DraftInitInv, DraftKept, PTL
<1> QED
  BY <1>2 DEF ReleasedOnce, Moves

(***************************************************************************)
(* Joining: the members of a group.                                        *)
(***************************************************************************)
RowStatuses == {"none", "invited", "active", "removed"}
Tags == {"none", "creator", "admin", "member", "chosen"}
MemberRows == [status : RowStatuses, tag : Tags, ver : Nat]
DocRecords == [kind : {"none", "inv", "app"}, user : Everybody, role : {"admin", "member"},
               status : {"none", "pending", "allow", "deny", "deleted"}]
Ops == {"none", "invite", "reuse", "apply", "allow", "deny", "cancel", "retag", "add", "update",
        "aliases", "remove"}
JoinPlaces == {"idle", "invite", "reuse", "apply", "capture", "deny", "unproject", "erase", "retag",
           "add", "edit", "refetch", "after", "load", "join", "newinv", "newapp", "dropApp",
           "dropInv", "settle", "save", "reserve", "again", "count", "repair", "sync", "publish",
           "write", "end"}
Memory == [pc : JoinPlaces, op : Ops, u : Everybody, tag : Tags \cup {"unset"}, doc : Docs \cup {0},
           row : MemberRows, then : {"end", "refetch", "dropApp", "dropInv"},
           want : RowStatuses \cup Tags \cup {"unset"}, n : Nat, alone : BOOLEAN]

\* Where the tag in memory is going to be written, or a role to be made of it.
Tagging == {"capture", "join", "reserve", "count", "repair", "again", "save", "add", "edit",
            "write", "retag", "invite", "newinv", "apply", "newapp", "reuse"}
InProjects == {"reuse", "refetch", "after", "load", "unproject", "retag", "dropApp", "dropInv"}
Edits == {"update", "aliases", "remove"}
EditPlaces == {"edit", "write", "sync", "publish"}

\* The document at hand is one of the user.
HasDoc(r) == r.doc # 0 => doc[r.doc].kind # "none" /\ doc[r.doc].user = r.u

\* Who has read the row as active, or will settle the document, is sure that
\* the user has been a member.
HasJoined(r) ==
    r.row.status = "active" \/ r.pc = "settle" \/ (r.pc \in {"sync", "publish"} /\ r.doc # 0)
        => r.u \in joined

\* A row read is an earlier version of the one there is, unless a version has
\* been used twice.
HasRead(r) ==
    r.u \notin blind /\ r.row # NoRow =>
        /\ memberRow[r.u] # NoRow /\ r.row.ver <= memberRow[r.u].ver
        /\ r.row.ver = memberRow[r.u].ver => r.row = memberRow[r.u]

\* What a handler is about to write.
Intends(r) ==
    /\ r.pc # "end"
    /\ r.pc \in Tagging => r.tag \in Tags
    /\ r.pc \notin {"load", "write"} => r.want \in Tags \cup {"unset"}
    /\ r.pc \in {"invite", "newinv"} /\ r.op # "reuse" => r.tag \in {"admin", "member"}
    /\ r.pc = "edit" => r.op \in Edits
    /\ r.pc = "reuse" => r.op = "reuse"
    /\ r.op \in Edits => r.pc \in EditPlaces /\ r.doc = 0 /\ r.then = "end"
    /\ r.pc = "load" => r.want \in {"active", "invited", "removed"}
    /\ r.pc = "write" =>
         /\ r.want \in RowStatuses
         /\ r.op \in {"update", "aliases"} => r.want = r.row.status
         /\ r.op = "remove" => r.want = "removed"
         /\ r.op \notin Edits => r.want = "active" \/ (r.want # "none" /\ r.row.status # "active")

\* The handlers of a team project nothing, and what they have counted fits.
OfTeam(r) ==
    IsTeam =>
        /\ r.pc \notin InProjects /\ r.op # "reuse" /\ r.then = "end"
        /\ r.pc = "write" => r.op \in Edits
        /\ r.pc \in {"repair", "publish"} /\ "seats" \notin raced => r.n <= MaxSeats

KnowsOfJoining(r) == HasDoc(r) /\ HasJoined(r) /\ HasRead(r) /\ Intends(r) /\ OfTeam(r)

ActiveHasJoined == \A u \in Everybody : memberRow[u].status = "active" => u \in joined

UsedDocs == \A i \in Docs : doc[i].status # "none" => doc[i].kind # "none"

\* Everybody who is a member has a seat, and so has every handler that has
\* reserved one and not written the row yet.
SeatsSuffice ==
    IsTeam /\ "seats" \notin raced =>
        Cardinality(Active) + Cardinality(Holding) <= seats /\ seats <= MaxSeats

JoinIInv ==
    /\ JoiningTypeOK /\ blind \subseteq Everybody /\ errand \in [JoinHandlers -> Memory]
    /\ \A h \in JoinHandlers : KnowsOfJoining(errand[h])
    /\ ActiveHasJoined /\ AllowedHasJoined /\ UsedDocs /\ SeatsSuffice

(***************************************************************************)
(* A handler's memory, and what the steps of others do to its knowledge.   *)
(***************************************************************************)
LEMMA NoErrandFact ==
    /\ NoErrand \in Memory /\ NoErrand.pc = "idle" /\ NoErrand.row = NoRow /\ NoErrand.doc = 0
    /\ NoErrand.then = "end" /\ NoErrand.op = "none" /\ NoErrand.n = 0 /\ NoErrand.want = "none"
    /\ NoRow \in MemberRows /\ NoRow.status = "none" /\ NoRow.ver = 0
<1>1. NoRow \in MemberRows /\ NoRow.status = "none" /\ NoRow.ver = 0
  BY DEF NoRow, MemberRows, RowStatuses, Tags
<1>2. /\ Creator \in Everybody /\ "none" \in Tags \cup {"unset"} /\ 0 \in Docs \cup {0}
      /\ "none" \in RowStatuses \cup Tags \cup {"unset"} /\ "idle" \in JoinPlaces /\ "none" \in Ops
  BY DEF Everybody, Tags, JoinPlaces, Ops
<1>3. NoErrand \in Memory
  BY ONLY <1>1, <1>2 DEF NoErrand, Memory
<1> QED
  BY <1>1, <1>3 DEF NoErrand

LEMMA NoErrandKnows == KnowsOfJoining(NoErrand)
<1>1. HasDoc(NoErrand) /\ HasJoined(NoErrand) /\ HasRead(NoErrand)
  BY NoErrandFact DEF HasDoc, HasJoined, HasRead
<1>2. Intends(NoErrand)
  BY NoErrandFact DEF Intends, Tagging, Edits, Tags
<1>3. OfTeam(NoErrand)
  BY NoErrandFact DEF OfTeam, InProjects
<1> QED
  BY <1>1, <1>2, <1>3 DEF KnowsOfJoining

LEMMA HoldFacts ==
    ASSUME errand \in [JoinHandlers -> Memory], NEW h \in JoinHandlers, NEW r \in Memory, Hold(h, r)
    PROVE  /\ errand' \in [JoinHandlers -> Memory]
           /\ errand'[h] = IF r.pc = "end" THEN NoErrand ELSE r
           /\ \A g \in JoinHandlers : g # h => errand'[g] = errand[g]
BY NoErrandFact DEF Hold

\* Documents keep their users, versions go up, and what is noted stays noted.
GoesOn ==
    /\ kind' = kind /\ joined \subseteq joined' /\ blind \subseteq blind' /\ raced \subseteq raced'
    /\ \A i \in Docs : doc[i].kind # "none" => doc'[i].kind # "none" /\ doc'[i].user = doc[i].user
    /\ \A u \in Everybody : u \notin blind' =>
         \/ memberRow'[u] = memberRow[u]
         \/ memberRow'[u] # NoRow /\ (memberRow[u] = NoRow \/ memberRow[u].ver < memberRow'[u].ver)

\* All but HasJoined.
Keeping(r) == HasDoc(r) /\ HasRead(r) /\ Intends(r) /\ OfTeam(r)

LEMMA RestKept ==
    ASSUME JoiningTypeOK, JoiningTypeOK', GoesOn, NEW r \in Memory, Keeping(r)
    PROVE  Keeping(r)'
<1>1. HasDoc(r)'
  BY DEF Keeping, HasDoc, GoesOn, Memory
<1>2. HasRead(r)'
  <2>1. SUFFICES ASSUME r.u \notin blind', r.row # NoRow
                 PROVE  /\ memberRow'[r.u] # NoRow /\ r.row.ver <= memberRow'[r.u].ver
                        /\ r.row.ver = memberRow'[r.u].ver => r.row = memberRow'[r.u]
    BY DEF HasRead
  <2>2. /\ memberRow[r.u] # NoRow /\ r.row.ver <= memberRow[r.u].ver
        /\ r.row.ver = memberRow[r.u].ver => r.row = memberRow[r.u]
    BY <2>1 DEF Keeping, HasRead, GoesOn
  <2>3. r.u \in Everybody /\ r.row.ver \in Nat
    BY DEF Memory, MemberRows
  <2>4. memberRow[r.u].ver \in Nat /\ memberRow'[r.u].ver \in Nat
    BY <2>3 DEF JoiningTypeOK
  <2>5. \/ memberRow'[r.u] = memberRow[r.u]
        \/ memberRow'[r.u] # NoRow /\ memberRow[r.u].ver < memberRow'[r.u].ver
    BY <2>1, <2>2, <2>3 DEF GoesOn
  <2> QED
    BY <2>2, <2>3, <2>4, <2>5
<1>3. Intends(r)'
  BY DEF Keeping, Intends
<1>4. OfTeam(r)'
  BY DEF Keeping, OfTeam, GoesOn, IsTeam
<1> QED
  BY <1>1, <1>2, <1>3, <1>4 DEF Keeping

LEMMA KnowsKept ==
    ASSUME JoiningTypeOK, JoiningTypeOK', GoesOn, NEW r \in Memory, KnowsOfJoining(r)
    PROVE  KnowsOfJoining(r)'
<1>1. Keeping(r)'
  BY RestKept DEF KnowsOfJoining, Keeping
<1>2. HasJoined(r)'
  BY DEF KnowsOfJoining, HasJoined, GoesOn
<1> QED
  BY <1>1, <1>2 DEF KnowsOfJoining, Keeping

\* A step of one handler.
LEMMA HandlerStep ==
    ASSUME JoinIInv, JoiningTypeOK', blind' \subseteq Everybody, GoesOn,
           NEW h \in JoinHandlers, NEW r \in Memory, Hold(h, r),
           r.pc # "end" => KnowsOfJoining(r)',
           ActiveHasJoined', AllowedHasJoined', UsedDocs', SeatsSuffice'
    PROVE  JoinIInv'
<1>0. errand \in [JoinHandlers -> Memory] /\ JoiningTypeOK
  BY DEF JoinIInv
<1>1. /\ errand' \in [JoinHandlers -> Memory]
      /\ errand'[h] = IF r.pc = "end" THEN NoErrand ELSE r
      /\ \A g \in JoinHandlers : g # h => errand'[g] = errand[g]
  BY <1>0, HoldFacts
<1>2. ASSUME NEW g \in JoinHandlers PROVE KnowsOfJoining(errand[g])'
  <2>1. CASE g = h /\ r.pc = "end"
    <3>1. KnowsOfJoining(NoErrand)'
      BY <1>0, KnowsKept, NoErrandFact, NoErrandKnows
    <3> QED
      BY <1>1, <2>1, <3>1 DEF KnowsOfJoining, HasDoc, HasJoined, HasRead, Intends, OfTeam
  <2>2. CASE g = h /\ r.pc # "end"
    BY <1>1, <2>2 DEF KnowsOfJoining, HasDoc, HasJoined, HasRead, Intends, OfTeam
  <2>3. CASE g # h
    <3>1. errand[g] \in Memory /\ KnowsOfJoining(errand[g]) /\ errand'[g] = errand[g]
      BY <1>0, <1>1, <2>3 DEF JoinIInv
    <3> DEFINE m == errand[g]
    <3>2. \A q \in Memory : KnowsOfJoining(q) => KnowsOfJoining(q)'
      BY <1>0, KnowsKept
    <3> QED
      BY <3>1, <3>2 DEF KnowsOfJoining, HasDoc, HasJoined, HasRead, Intends, OfTeam
  <2> QED
    BY <2>1, <2>2, <2>3
<1> QED
  BY <1>1, <1>2 DEF JoinIInv

(***************************************************************************)
(* The seats.                                                              *)
(***************************************************************************)
LEMMA FiniteCounts ==
    /\ IsFiniteSet(Active) /\ Cardinality(Active) \in Nat
    /\ IsFiniteSet(Holding) /\ Cardinality(Holding) \in Nat
<1>1. IsFiniteSet(Everybody)
  BY JoiningAssumption, FS_AddElement DEF Everybody
<1>2. Active \subseteq Everybody /\ Holding \subseteq JoinHandlers
  BY DEF Active, Holding
<1>3. IsFiniteSet(Active) /\ IsFiniteSet(Holding)
  BY <1>1, <1>2, JoiningAssumption, FS_Subset
<1> QED
  BY <1>3, FS_CardinalityType

\* A handler that goes elsewhere than to save a new member gives up its seat.
LEMMA Releases ==
    ASSUME JoinIInv, NEW h \in JoinHandlers, NEW r \in Memory, Hold(h, r),
           r.pc = "save" => r.row.status = "active"
    PROVE  Holding' = Holding \ {h} /\ Cardinality(Holding') <= Cardinality(Holding)
<1>1. /\ errand'[h] = IF r.pc = "end" THEN NoErrand ELSE r
      /\ \A g \in JoinHandlers : g # h => errand'[g] = errand[g]
  BY HoldFacts DEF JoinIInv
<1>2. Holding' = Holding \ {h}
  BY <1>1, NoErrandFact DEF Holding, At
<1> QED
  BY <1>2, FiniteCounts, FS_Subset

LEMMA SeatsKept ==
    ASSUME JoinIInv, NEW h \in JoinHandlers, NEW r \in Memory, Hold(h, r),
           r.pc = "save" => ~IsTeam \/ r.row.status = "active",
           Active' = Active, kind' = kind, seats' = seats, raced \subseteq raced'
    PROVE  SeatsSuffice'
<1>1. CASE ~IsTeam
  BY <1>1 DEF SeatsSuffice, IsTeam
<1>2. CASE IsTeam
  <2>1. Cardinality(Holding') <= Cardinality(Holding)
    BY <1>2, Releases
  <2>2. Cardinality(Holding') \in Nat
    <3>1. Holding' = Holding \ {h}
      BY <1>2, Releases
    <3> QED
      BY <3>1, FiniteCounts, FS_Subset, FS_CardinalityType
  <2>3. seats \in Nat
    BY DEF JoinIInv, JoiningTypeOK
  <2> QED
    BY <1>2, <2>1, <2>2, <2>3, FiniteCounts, JoiningAssumption DEF JoinIInv, SeatsSuffice, IsTeam
<1> QED
  BY <1>1, <1>2

LEMMA OnwardReads == Reads => GoesOn
BY DEF Reads, GoesOn

\* A step that changes nothing but the memory of a handler.
LEMMA ReadStep ==
    ASSUME JoinIInv, NEW h \in JoinHandlers, NEW r \in Memory, Hold(h, r), Reads,
           r.pc # "end" => KnowsOfJoining(r),
           r.pc = "save" => ~IsTeam \/ r.row.status = "active"
    PROVE  JoinIInv'
<1>1. JoiningTypeOK /\ JoiningTypeOK' /\ blind' \subseteq Everybody
  BY DEF Reads, JoinIInv, JoiningTypeOK
<1>2. r.pc # "end" => KnowsOfJoining(r)'
  BY <1>1, KnowsKept, OnwardReads
<1>3. ActiveHasJoined' /\ AllowedHasJoined' /\ UsedDocs'
  BY DEF Reads, JoinIInv, ActiveHasJoined, AllowedHasJoined, UsedDocs
<1>4. SeatsSuffice'
  BY SeatsKept DEF Reads, Active
<1> QED
  BY <1>1, <1>2, <1>3, <1>4, HandlerStep, OnwardReads

LEMMA EndStep ==
    ASSUME JoinIInv, NEW h \in JoinHandlers, EndRequest(h), Reads
    PROVE  JoinIInv'
BY ReadStep, NoErrandFact, NoErrandKnows DEF EndRequest

(***************************************************************************)
(* Requests.                                                               *)
(***************************************************************************)
\* Who no longer works alone knows what he knew.
LEMMA AloneAside ==
    ASSUME NEW r \in Memory, KnowsOfJoining(r)
    PROVE  /\ [r EXCEPT !.alone = FALSE] \in Memory /\ KnowsOfJoining([r EXCEPT !.alone = FALSE])
           /\ [r EXCEPT !.alone = FALSE].pc = r.pc /\ [r EXCEPT !.alone = FALSE].row = r.row
<1> DEFINE q == [r EXCEPT !.alone = FALSE]
<1>1. /\ q.pc = r.pc /\ q.op = r.op /\ q.u = r.u /\ q.tag = r.tag /\ q.doc = r.doc /\ q.row = r.row
      /\ q.then = r.then /\ q.want = r.want /\ q.n = r.n /\ q \in Memory
  BY DEF Memory
<1> HIDE DEF q
<1>2. HasDoc(q) /\ HasJoined(q) /\ HasRead(q)
  BY <1>1 DEF KnowsOfJoining, HasDoc, HasJoined, HasRead
<1>3. Intends(q)
  BY <1>1 DEF KnowsOfJoining, Intends
<1>4. OfTeam(q)
  BY <1>1 DEF KnowsOfJoining, OfTeam
<1>5. q \in Memory /\ KnowsOfJoining(q) /\ q.pc = r.pc /\ q.row = r.row
  BY <1>1, <1>2, <1>3, <1>4 DEF KnowsOfJoining
<1> QED
  BY <1>5 DEF q

\* Where a request starts.
Starts == {"invite", "reuse", "apply", "capture", "deny", "unproject", "erase", "retag", "add", "edit"}

LEMMA BeginStep ==
    ASSUME JoinIInv, NEW h \in JoinHandlers, NEW op \in Ops, NEW pc \in Starts, NEW u \in Everybody,
           NEW tag \in Tags, NEW i \in Docs \cup {0}, Begin(h, op, pc, u, tag, i),
           i # 0 => doc[i].kind # "none" /\ doc[i].user = u,
           pc = "invite" => tag \in {"admin", "member"},
           pc = "edit" <=> op \in Edits, op \in Edits => i = 0, pc = "reuse" => op = "reuse",
           IsTeam => pc \notin InProjects /\ op # "reuse"
    PROVE  JoinIInv'
<1> DEFINE alone == ~ \E g \in JoinHandlers : ~At(g, "idle")
           r == [NoErrand EXCEPT !.pc = pc, !.op = op, !.u = u, !.tag = tag, !.doc = i, !.alone = alone]
<1>0. /\ errand \in [JoinHandlers -> Memory] /\ JoiningTypeOK /\ alone \in BOOLEAN
      /\ UNCHANGED <<kind, memberRow, seats, doc, deaths, joined, blind>> /\ raced \subseteq raced'
      /\ raced' \subseteq raced \cup {"requests"} /\ At(h, "idle")
      /\ begun' = begun + 1 /\ begun < MaxErrands
      /\ errand' = [g \in JoinHandlers |->
                      IF g = h THEN r
                      ELSE IF At(g, "idle") THEN errand[g] ELSE [errand[g] EXCEPT !.alone = FALSE]]
  BY DEF JoinIInv, Begin
<1> HIDE DEF alone
<1>1. /\ r \in Memory /\ r.pc = pc /\ r.op = op /\ r.u = u /\ r.tag = tag /\ r.doc = i
      /\ r.row = NoRow /\ r.then = "end" /\ r.want = "none"
  <2>1. pc \in JoinPlaces
    BY DEF Starts, JoinPlaces
  <2> QED
    BY <1>0, <2>1, NoErrandFact DEF Memory
<1> HIDE DEF r
<1>2. KnowsOfJoining(r)
  <2>1. HasDoc(r) /\ HasJoined(r) /\ HasRead(r)
    BY <1>1, NoErrandFact DEF HasDoc, HasJoined, HasRead, Starts
  <2>2. Intends(r)
    BY <1>1 DEF Intends, Starts, EditPlaces, Tags
  <2>3. OfTeam(r)
    BY <1>1 DEF OfTeam, Starts
  <2> QED
    BY <2>1, <2>2, <2>3 DEF KnowsOfJoining
<1>3. ASSUME NEW g \in JoinHandlers
      PROVE  /\ errand'[g] \in Memory /\ KnowsOfJoining(errand'[g])
             /\ g # h => errand'[g].pc = errand[g].pc /\ errand'[g].row = errand[g].row
  BY <1>0, <1>1, <1>2, AloneAside DEF JoinIInv
<1>4. JoiningTypeOK' /\ blind' \subseteq Everybody
  BY <1>0, JoiningAssumption DEF JoiningTypeOK, JoinIInv
<1>5. GoesOn
  BY <1>0 DEF GoesOn
<1>6. errand' \in [JoinHandlers -> Memory]
  BY <1>0, <1>3
<1>7. ASSUME NEW g \in JoinHandlers PROVE KnowsOfJoining(errand[g])'
  <2>1. \A q \in Memory : KnowsOfJoining(q) => KnowsOfJoining(q)'
    BY <1>0, <1>4, <1>5, KnowsKept
  <2>2. errand'[g] \in Memory /\ KnowsOfJoining(errand'[g])
    BY <1>3
  <2> DEFINE q == errand'[g]
  <2> QED
    BY <2>1, <2>2 DEF KnowsOfJoining, HasDoc, HasJoined, HasRead, Intends, OfTeam
<1>8. Holding' = Holding /\ Active' = Active
  BY <1>0, <1>1, <1>3 DEF Holding, Active, At, Starts
<1>9. SeatsSuffice'
  BY <1>0, <1>8 DEF JoinIInv, SeatsSuffice, IsTeam
<1>10. ActiveHasJoined' /\ AllowedHasJoined' /\ UsedDocs'
  BY <1>0 DEF JoinIInv, ActiveHasJoined, AllowedHasJoined, UsedDocs
<1> QED
  BY <1>4, <1>6, <1>7, <1>9, <1>10 DEF JoinIInv

LEMMA RequestSteps == ASSUME JoinIInv, NEW h \in JoinHandlers, Requests(h) PROVE JoinIInv'
<1>0. /\ {"admin", "member", "chosen", "none"} \subseteq Tags /\ 0 \in Docs \cup {0}
      /\ Joiners \subseteq Everybody /\ Docs \subseteq Docs \cup {0}
      /\ \A u \in Everybody : memberRow[u].tag \in Tags
      /\ \A i \in Docs : doc[i] \in DocRecords
      /\ \A op \in {"invite", "reuse", "apply", "allow", "deny", "cancel", "retag", "add",
                    "update", "aliases", "remove"} : op \in Ops
      /\ \A pc \in {"invite", "reuse", "apply", "capture", "deny", "unproject", "erase", "retag",
                    "add", "edit"} : pc \in Starts
  BY DEF Tags, Everybody, JoinIInv, JoiningTypeOK, DocRecords, Ops, Starts
<1>1. ASSUME NEW u \in Joiners, Apply(h, u) PROVE JoinIInv'
  BY <1>0, <1>1, BeginStep DEF Apply, InProjects, Edits
<1>2. ASSUME NEW u \in Joiners, InviteWithTags(h, u) PROVE JoinIInv'
  BY <1>0, <1>2, BeginStep DEF InviteWithTags, Edits
<1>3. ASSUME NEW u \in Joiners, EditAliases(h, u) PROVE JoinIInv'
  BY <1>0, <1>3, BeginStep DEF EditAliases, InProjects, Edits
<1>4. ASSUME NEW u \in Joiners, RemoveMember(h, u) PROVE JoinIInv'
  BY <1>0, <1>4, BeginStep DEF RemoveMember, InProjects, Edits
<1>5. ASSUME NEW u \in Joiners, NEW b \in {"admin", "member"}, InviteUser(h, u, b) PROVE JoinIInv'
  BY <1>0, <1>5, BeginStep DEF InviteUser, InProjects, Edits
<1>6. ASSUME NEW u \in Joiners, NEW b \in {"admin", "member"}, AddMember(h, u, b) PROVE JoinIInv'
  BY <1>0, <1>6, BeginStep DEF AddMember, InProjects, Edits
<1>7. ASSUME NEW u \in Joiners, NEW b \in {"admin", "member"}, UpdateMember(h, u, b) PROVE JoinIInv'
  BY <1>0, <1>7, BeginStep DEF UpdateMember, InProjects, Edits
<1>8. ASSUME NEW i \in Docs PROVE doc[i].user \in Everybody /\ doc[i].role \in Tags
  BY <1>0 DEF DocRecords
<1>9. ASSUME NEW i \in Docs, AnswerDoc(h, i) PROVE JoinIInv'
  <2>1. doc[i].kind # "none"
    BY <1>9 DEF JoinIInv, UsedDocs, AnswerDoc, Unanswered
  <2> QED
    BY <1>0, <1>8, <1>9, <2>1, BeginStep DEF AnswerDoc, InProjects, Edits
<1>10. ASSUME NEW i \in Docs, Cancel(h, i) PROVE JoinIInv'
  <2>1. doc[i].kind # "none"
    BY <1>10 DEF Cancel
  <2> QED
    BY <1>0, <1>8, <1>10, <2>1, BeginStep DEF Cancel, InProjects, Edits
<1>11. ASSUME NEW i \in Docs, Retag(h, i) PROVE JoinIInv'
  BY <1>0, <1>8, <1>11, BeginStep DEF Retag, Edits
<1> QED
  BY <1>1, <1>2, <1>3, <1>4, <1>5, <1>6, <1>7, <1>9, <1>10, <1>11 DEF Requests

(***************************************************************************)
(* Steps that read.                                                        *)
(***************************************************************************)
LEMMA MemoryFacts ==
    ASSUME JoinIInv, NEW h \in JoinHandlers
    PROVE  /\ errand[h] \in Memory /\ KnowsOfJoining(errand[h]) /\ Me(h) \in Everybody
           /\ Mine(h) \in MemberRows /\ Mine(h) = memberRow[errand[h].u]
           /\ \A i \in Docs : doc[i] \in DocRecords
BY DEF JoinIInv, JoiningTypeOK, Memory, Me, Mine, MemberRows, RowStatuses, Tags, DocRecords

\* A set of documents has an earliest one: the smallest of the sets of those
\* that are no later than one of them belongs to it.
LEMMA EarliestIsOne == ASSUME NEW S \in SUBSET Docs, S # {} PROVE Earliest(S) \in S
<1>0. Docs = 1..MaxDocs /\ MaxDocs \in Nat /\ S \subseteq Nat
  BY JoiningAssumption DEF Docs
<1>1. IsFiniteSet(S)
  <2>1. IsFiniteSet(1..MaxDocs)
    BY ONLY <1>0, FS_Interval
  <2> QED
    BY ONLY <1>0, <2>1, S \in SUBSET Docs, FS_Subset
<1> DEFINE upto(i) == {j \in S : j <= i}
           T == {upto(i) : i \in S}
<1>2. IsWellFoundedOn(StrictSubsetOrdering(S), FiniteSubsetsOf(S))
  BY FS_StrictSubsetOrderingWellFounded
<1>3. T \subseteq FiniteSubsetsOf(S) /\ T # {}
  <2>1. FiniteSubsetsOf(S) = SUBSET S
    BY ONLY <1>1, FS_FiniteSubsetsOfFinite
  <2>2. T \subseteq SUBSET S
    OBVIOUS
  <2>3. PICK i \in S : TRUE
    OBVIOUS
  <2>4. upto(i) \in T
    BY <2>3
  <2> QED
    BY ONLY <2>1, <2>2, <2>4
<1>4. PICK t \in T : \A y \in T : <<y, t>> \notin StrictSubsetOrdering(S)
  BY ONLY <1>2, <1>3, WFMin
<1>5. PICK i \in S : t = upto(i)
  BY <1>4
<1>6. ASSUME NEW j \in S PROVE i <= j
  <2>1. SUFFICES ASSUME j < i PROVE FALSE
    BY <1>0
  <2>2. upto(j) \subseteq t /\ i \in t /\ i \notin upto(j) /\ upto(j) \in T
    <3>1. \A k \in S : k \in Nat
      BY <1>0
    <3>2. \A k \in S : k <= j => k <= i
      BY ONLY <3>1, <2>1, i \in S, j \in S
    <3>3. i <= i /\ ~(i <= j)
      BY ONLY <3>1, <2>1, i \in S, j \in S
    <3> QED
      BY <1>5, <3>2, <3>3
  <2>3. <<upto(j), t>> \in StrictSubsetOrdering(S)
    BY <1>5, <2>2 DEF StrictSubsetOrdering
  <2> QED
    BY <1>4, <2>2, <2>3
<1> QED
  BY <1>6 DEF Earliest

LEMMA PendingFacts ==
    ASSUME JoinIInv, NEW u \in Everybody, NEW k \in {"inv", "app"}, Pending(u, k) # {}
    PROVE  /\ Earliest(Pending(u, k)) \in Docs
           /\ doc[Earliest(Pending(u, k))].kind # "none" /\ doc[Earliest(Pending(u, k))].user = u
           /\ doc[Earliest(Pending(u, k))].role \in {"admin", "member"}
<1>1. Pending(u, k) \in SUBSET Docs
  BY DEF Pending
<1>2. Earliest(Pending(u, k)) \in Pending(u, k)
  BY <1>1, EarliestIsOne
<1> QED
  BY <1>1, <1>2 DEF Pending, JoinIInv, JoiningTypeOK

\* What a handler carries on of what it has, or has just read.
LEMMA Carries ==
    ASSUME JoinIInv, NEW h \in JoinHandlers, NEW r \in Memory, r.u = errand[h].u,
           \/ r.doc \in {errand[h].doc, 0}
           \/ r.doc \in Docs /\ doc[r.doc].kind # "none" /\ doc[r.doc].user = r.u,
           r.row \in {errand[h].row, NoRow, Mine(h)}
    PROVE  HasDoc(r) /\ HasRead(r) /\ (r.row.status = "active" => r.u \in joined)
<1>0. /\ KnowsOfJoining(errand[h]) /\ errand[h] \in Memory /\ Mine(h) \in MemberRows
      /\ r.u \in Everybody /\ Mine(h) = memberRow[r.u]
  BY MemoryFacts DEF Me
<1>1. HasDoc(r)
  BY <1>0 DEF KnowsOfJoining, HasDoc
<1>2. HasRead(r)
  <2>1. CASE r.row = Mine(h)
    <3>1. Mine(h).ver \in Nat
      BY <1>0 DEF MemberRows
    <3> QED
      BY <1>0, <2>1, <3>1 DEF HasRead
  <2>2. CASE r.row = errand[h].row
    BY <1>0, <2>2 DEF KnowsOfJoining, HasRead
  <2>3. CASE r.row = NoRow
    BY <2>3 DEF HasRead
  <2> QED
    BY <2>1, <2>2, <2>3
<1>3. r.row.status = "active" => r.u \in joined
  BY <1>0, NoErrandFact DEF KnowsOfJoining, HasJoined, JoinIInv, ActiveHasJoined
<1> QED
  BY <1>1, <1>2, <1>3

\* Where nothing in particular is known.
Plain == JoinPlaces \ {"end", "edit", "reuse", "load", "write", "settle", "sync", "publish", "repair",
                   "invite", "newinv", "save"}

LEMMA PlainStep ==
    ASSUME JoinIInv, NEW h \in JoinHandlers, NEW r \in Memory, Hold(h, r), Reads,
           r.u = errand[h].u, r.op = errand[h].op, r.pc = "end" \/ errand[h].pc \notin EditPlaces,
           \/ r.doc \in {errand[h].doc, 0}
           \/ r.doc \in Docs /\ doc[r.doc].kind # "none" /\ doc[r.doc].user = r.u,
           r.row \in {errand[h].row, NoRow, Mine(h)},
           r.want \in Tags \cup {"unset"} \/ (r.want = errand[h].want /\ errand[h].pc # "load"),
           r.pc \in Plain \cup {"end", "invite", "newinv"}, r.pc \in Tagging => r.tag \in Tags,
           r.pc \in {"invite", "newinv"} /\ r.op # "reuse" => r.tag \in {"admin", "member"},
           IsTeam => r.pc \notin InProjects /\ r.op # "reuse" /\ r.then = "end"
    PROVE  JoinIInv'
<1>1. HasDoc(r) /\ HasRead(r) /\ (r.row.status = "active" => r.u \in joined)
  BY Carries
<1>2. HasJoined(r)
  BY <1>1 DEF HasJoined, Plain
<1>3. r.pc # "end" => Intends(r)
  <2>1. r.pc # "end" => r.op \notin Edits /\ r.want \in Tags \cup {"unset"}
    BY MemoryFacts DEF KnowsOfJoining, Intends, EditPlaces
  <2> QED
    BY <2>1 DEF Intends, Plain
<1>4. OfTeam(r)
  BY DEF OfTeam, Plain
<1>5. r.pc # "end" => KnowsOfJoining(r)
  BY <1>1, <1>2, <1>3, <1>4 DEF KnowsOfJoining
<1> QED
  BY <1>5, ReadStep DEF Plain

\* A handler goes on to a place where its memory is as it was.
LEMMA GoesTo ==
    ASSUME JoinIInv, NEW h \in JoinHandlers, NEW pc \in Plain \cup {"end", "newinv"}, GoTo(h, pc), Reads,
           errand[h].pc \notin EditPlaces \cup {"load"}, pc \in Tagging => errand[h].tag \in Tags,
           pc = "newinv" /\ errand[h].op # "reuse" => errand[h].tag \in {"admin", "member"},
           IsTeam => pc \notin InProjects
    PROVE  JoinIInv'
<1> DEFINE r == [errand[h] EXCEPT !.pc = pc]
<1>0. errand[h] \in Memory /\ KnowsOfJoining(errand[h])
  BY MemoryFacts
<1>1. /\ r \in Memory /\ r.pc = pc /\ r.op = errand[h].op /\ r.u = errand[h].u /\ r.tag = errand[h].tag
      /\ r.doc = errand[h].doc /\ r.row = errand[h].row /\ r.then = errand[h].then
      /\ r.want = errand[h].want
  BY <1>0 DEF Memory, Plain, JoinPlaces
<1>2. Hold(h, r)
  BY DEF GoTo
<1> HIDE DEF r
<1>3. IsTeam => r.op # "reuse" /\ r.then = "end"
  BY <1>0, <1>1 DEF KnowsOfJoining, OfTeam
<1>4. r.pc # "invite"
  BY <1>1 DEF Plain
<1> QED
  BY <1>1, <1>2, <1>3, <1>4, PlainStep

LEMMA ReuseSteps ==
    ASSUME JoinIInv, NEW h \in JoinHandlers, LookReuse(h) \/ Refetch(h) PROVE JoinIInv'
<1>0. errand[h] \in Memory /\ KnowsOfJoining(errand[h]) /\ Reads
  BY MemoryFacts DEF LookReuse, Refetch
<1>1. ~IsTeam /\ errand[h].pc \notin EditPlaces \cup {"load"}
  BY <1>0 DEF LookReuse, Refetch, At, KnowsOfJoining, OfTeam, InProjects, EditPlaces
<1>2. ASSUME NEW n \in {0, 1}, Hold(h, [errand[h] EXCEPT !.pc = "after", !.n = n]) PROVE JoinIInv'
  <2> DEFINE r == [errand[h] EXCEPT !.pc = "after", !.n = n]
  <2>1. /\ r \in Memory /\ r.pc = "after" /\ r.u = errand[h].u /\ r.op = errand[h].op
        /\ r.doc = errand[h].doc /\ r.row = errand[h].row /\ r.want = errand[h].want
    <3>1. "after" \in JoinPlaces /\ n \in Nat
      BY DEF JoinPlaces
    <3> QED
      BY <1>0, <3>1 DEF Memory
  <2>2. r.pc \in Plain /\ r.pc \notin Tagging /\ r.pc \notin {"invite", "newinv"}
    BY <2>1 DEF Plain, JoinPlaces, Tagging
  <2> HIDE DEF r
  <2>3. Hold(h, r)
    BY <1>2 DEF r
  <2> QED
    BY <1>0, <1>1, <2>1, <2>2, <2>3, PlainStep
<1>3. CASE Refetch(h)
  BY <1>2, <1>3 DEF Refetch
<1>4. CASE LookReuse(h)
  <2>1. ASSUME Hold(h, [errand[h] EXCEPT !.pc = "invite", !.then = "refetch"]) PROVE JoinIInv'
    <3> DEFINE r == [errand[h] EXCEPT !.pc = "invite", !.then = "refetch"]
    <3>1. /\ r \in Memory /\ r.pc = "invite" /\ r.u = errand[h].u /\ r.tag = errand[h].tag
          /\ r.doc = errand[h].doc /\ r.row = errand[h].row /\ r.op = errand[h].op
          /\ r.want = errand[h].want
      BY <1>0 DEF Memory, JoinPlaces
    <3>2. errand[h].op = "reuse" /\ errand[h].tag \in Tags
      BY <1>0, <1>4 DEF LookReuse, At, KnowsOfJoining, Intends, Tagging
    <3> HIDE DEF r
    <3>3. Hold(h, r)
      BY <2>1 DEF r
    <3> QED
      BY <1>0, <1>1, <3>1, <3>2, <3>3, PlainStep
  <2> QED
    BY <1>0, <1>2, <1>4, <2>1, EndStep DEF LookReuse
<1> QED
  BY <1>3, <1>4

\* A projection is begun with a status that is its to write.
LEMMA LoadStep ==
    ASSUME JoinIInv, NEW h \in JoinHandlers, NEW r \in Memory, Hold(h, r), Reads, ~IsTeam,
           r.u = errand[h].u, r.pc = "load", r.doc \in {errand[h].doc, 0}, r.row = errand[h].row,
           r.want \in {"active", "invited", "removed"}, r.op \notin Edits
    PROVE  JoinIInv'
<1>1. HasDoc(r) /\ HasRead(r) /\ (r.row.status = "active" => r.u \in joined)
  BY Carries
<1>2. HasJoined(r)
  BY <1>1 DEF HasJoined
<1>3. Intends(r)
  BY DEF Intends, Tagging
<1>4. OfTeam(r)
  BY DEF OfTeam
<1> QED
  BY <1>1, <1>2, <1>3, <1>4, ReadStep DEF KnowsOfJoining

LEMMA AfterStep == ASSUME JoinIInv, NEW h \in JoinHandlers, LookAfter(h) PROVE JoinIInv'
<1>0. errand[h] \in Memory /\ KnowsOfJoining(errand[h]) /\ Reads /\ At(h, "after")
  BY MemoryFacts DEF LookAfter
<1>1. ~IsTeam /\ errand[h].op \notin Edits
  BY <1>0 DEF At, KnowsOfJoining, OfTeam, InProjects, Intends, EditPlaces
<1>2. ASSUME NEW want \in {"active", "invited"},
             Hold(h, [errand[h] EXCEPT !.pc = "load", !.tag = "chosen", !.then = "end", !.doc = 0,
                                       !.n = 0, !.want = want])
      PROVE  JoinIInv'
  <2> DEFINE r == [errand[h] EXCEPT !.pc = "load", !.tag = "chosen", !.then = "end", !.doc = 0,
                                    !.n = 0, !.want = want]
  <2>1. /\ "load" \in JoinPlaces /\ "chosen" \in Tags \cup {"unset"} /\ 0 \in Docs \cup {0}
        /\ want \in RowStatuses \cup Tags \cup {"unset"}
    BY DEF JoinPlaces, Tags, RowStatuses
  <2>2. /\ r \in Memory /\ r.pc = "load" /\ r.u = errand[h].u /\ r.op = errand[h].op
        /\ r.doc = 0 /\ r.row = errand[h].row /\ r.want = want
    BY <1>0, <2>1 DEF Memory
  <2>3. Hold(h, r)
    BY <1>2
  <2> HIDE DEF r
  <2> QED
    BY <1>0, <1>1, <2>2, <2>3, LoadStep
<1>3. CASE Mine(h).status = "active"
  BY <1>2, <1>3 DEF LookAfter
<1>4. CASE Mine(h).status # "active" /\ errand[h].n = 1
  BY <1>2, <1>4 DEF LookAfter
<1> QED
  BY <1>0, <1>3, <1>4, EndStep DEF LookAfter

LEMMA InviteStep == ASSUME JoinIInv, NEW h \in JoinHandlers, LookInvite(h) PROVE JoinIInv'
<1> DEFINE m == errand[h]
<1>0. /\ m \in Memory /\ KnowsOfJoining(m) /\ Reads /\ m.pc = "invite" /\ Me(h) \in Everybody /\ Me(h) = m.u
      /\ m.pc \notin EditPlaces \cup {"load"}
  BY MemoryFacts DEF LookInvite, At, Me, EditPlaces
<1>1. Role(h) \in {"admin", "member"}
  BY <1>0 DEF Role, KnowsOfJoining, Intends
<1>2. ASSUME NEW pc \in {"capture", "join"}, NEW i \in Docs \cup {0},
             i = m.doc \/ (i \in Docs /\ doc[i].kind # "none" /\ doc[i].user = m.u),
             Hold(h, [m EXCEPT !.pc = pc, !.tag = Role(h), !.doc = i])
      PROVE  JoinIInv'
  <2> DEFINE r == [m EXCEPT !.pc = pc, !.tag = Role(h), !.doc = i]
  <2>1. pc \in JoinPlaces /\ Role(h) \in Tags /\ pc \in Plain /\ pc \notin InProjects
    BY <1>1 DEF JoinPlaces, Tags, Plain, InProjects
  <2>2. /\ r \in Memory /\ r.pc = pc /\ r.u = m.u /\ r.op = m.op /\ r.tag \in Tags
        /\ r.doc = i /\ r.row = m.row /\ r.then = m.then /\ r.want = m.want
    BY <1>0, <2>1 DEF Memory
  <2>3. Hold(h, r)
    BY <1>2
  <2>4. IsTeam => r.op # "reuse" /\ r.then = "end"
    BY <1>0, <2>2 DEF KnowsOfJoining, OfTeam
  <2>5. r.pc \notin {"invite", "newinv"}
    BY <2>2
  <2> HIDE DEF r, m
  <2> QED
    BY <1>0, <1>2, <2>1, <2>2, <2>3, <2>4, <2>5, PlainStep DEF m
<1>3. CASE EndRequest(h)
  BY <1>0, <1>3, EndStep
<1>4. CASE GoTo(h, m.then)
  <2>1. /\ m.then \in {"end", "refetch", "dropApp", "dropInv"} /\ m.then \notin Tagging
        /\ m.then \in Plain \cup {"end"} /\ m.then # "newinv"
    BY <1>0 DEF Memory, Tagging, Plain, JoinPlaces
  <2>2. IsTeam => m.then \notin InProjects
    BY <1>0 DEF KnowsOfJoining, OfTeam, InProjects
  <2> QED
    BY <1>0, <1>4, <2>1, <2>2, GoesTo
<1>5. CASE GoTo(h, "newinv")
  <2>1. m.tag \in Tags /\ (m.op # "reuse" => m.tag \in {"admin", "member"}) /\ "newinv" \notin InProjects
    BY <1>0 DEF KnowsOfJoining, Intends, Tagging, InProjects
  <2> QED
    BY <1>0, <1>5, <2>1, GoesTo
<1>6. CASE /\ Pending(Me(h), "app") # {}
           /\ Hold(h, [m EXCEPT !.pc = "capture", !.tag = Role(h), !.doc = Earliest(Pending(Me(h), "app"))])
  BY <1>0, <1>2, <1>6, PendingFacts
<1>7. CASE Hold(h, [m EXCEPT !.pc = "join", !.tag = Role(h)])
  <2>1. [m EXCEPT !.pc = "join", !.tag = Role(h)] = [m EXCEPT !.pc = "join", !.tag = Role(h), !.doc = m.doc]
    BY <1>0 DEF Memory
  <2>2. m.doc \in Docs \cup {0}
    BY <1>0 DEF Memory
  <2> HIDE DEF m
  <2> QED
    BY <1>2, <1>7, <2>1, <2>2
<1> QED
  BY <1>3, <1>4, <1>5, <1>6, <1>7 DEF LookInvite

LEMMA ApplyStep == ASSUME JoinIInv, NEW h \in JoinHandlers, LookApply(h) PROVE JoinIInv'
<1> DEFINE m == errand[h]
<1>0. /\ m \in Memory /\ KnowsOfJoining(m) /\ Reads /\ m.pc = "apply" /\ Me(h) \in Everybody /\ Me(h) = m.u
      /\ m.pc \notin EditPlaces \cup {"load"} /\ m.tag \in Tags
  BY MemoryFacts DEF LookApply, At, Me, EditPlaces, KnowsOfJoining, Intends, Tagging
<1>1. CASE EndRequest(h)
  BY <1>0, <1>1, EndStep
<1>2. CASE ~IsTeam /\ Hold(h, [m EXCEPT !.pc = "join", !.tag = "admin", !.then = "dropApp"])
  <2> DEFINE r == [m EXCEPT !.pc = "join", !.tag = "admin", !.then = "dropApp"]
  <2>1. "join" \in JoinPlaces /\ "join" \in Plain /\ "admin" \in Tags
    BY DEF JoinPlaces, Plain, Tags
  <2>2. /\ r \in Memory /\ r.pc = "join" /\ r.u = m.u /\ r.op = m.op /\ r.tag \in Tags
        /\ r.doc = m.doc /\ r.row = m.row /\ r.want = m.want
    BY <1>0, <2>1 DEF Memory
  <2>3. Hold(h, r)
    BY <1>2
  <2> HIDE DEF r, m
  <2> QED
    BY <1>0, <1>2, <2>1, <2>2, <2>3, PlainStep DEF m
<1>3. CASE /\ Pending(Me(h), "inv") # {}
           /\ LET i == Earliest(Pending(Me(h), "inv")) IN
              Hold(h, [m EXCEPT !.pc = "capture", !.doc = i, !.tag = doc[i].role])
  <2> DEFINE i == Earliest(Pending(Me(h), "inv"))
             r == [m EXCEPT !.pc = "capture", !.doc = i, !.tag = doc[i].role]
  <2>0. i \in Docs /\ doc[i].kind # "none" /\ doc[i].user = m.u /\ doc[i].role \in {"admin", "member"}
    BY <1>0, <1>3, PendingFacts
  <2> HIDE DEF i
  <2>1. "capture" \in JoinPlaces /\ "capture" \in Plain \ InProjects /\ doc[i].role \in Tags
    BY <2>0 DEF JoinPlaces, Plain, Tags, InProjects
  <2>2. /\ r \in Memory /\ r.pc = "capture" /\ r.u = m.u /\ r.op = m.op /\ r.tag \in Tags
        /\ r.doc = i /\ r.row = m.row /\ r.want = m.want /\ r.then = m.then
    BY <1>0, <2>0, <2>1 DEF Memory
  <2>3. Hold(h, r)
    BY <1>3 DEF i
  <2>4. IsTeam => r.op # "reuse" /\ r.then = "end"
    BY <1>0, <2>2 DEF KnowsOfJoining, OfTeam
  <2> HIDE DEF r, m
  <2> QED
    BY <1>0, <2>0, <2>1, <2>2, <2>3, <2>4, PlainStep DEF m
<1>4. CASE GoTo(h, "newapp")
  <2>1. "newapp" \in Plain \ InProjects
    BY DEF Plain, JoinPlaces, InProjects
  <2> QED
    BY <1>0, <1>4, <2>1, GoesTo
<1> QED
  BY <1>1, <1>2, <1>3, <1>4 DEF LookApply

LEMMA DropStep == ASSUME JoinIInv, NEW h \in JoinHandlers, DropOld(h) PROVE JoinIInv'
<1> DEFINE m == errand[h]
<1>0. /\ m \in Memory /\ KnowsOfJoining(m) /\ Reads /\ m.pc \in {"dropApp", "dropInv"} /\ Me(h) \in Everybody
      /\ Me(h) = m.u /\ m.pc \notin EditPlaces \cup {"load"} /\ ~IsTeam
  BY MemoryFacts DEF DropOld, At, Me, EditPlaces, KnowsOfJoining, OfTeam, InProjects
<1>1. ASSUME NEW next \in {"dropInv", "end"}, NEW k \in {"inv", "app"}, Pending(Me(h), k) # {},
             Hold(h, [m EXCEPT !.pc = "unproject", !.doc = Earliest(Pending(Me(h), k)), !.then = next])
      PROVE  JoinIInv'
  <2> DEFINE i == Earliest(Pending(Me(h), k))
             r == [m EXCEPT !.pc = "unproject", !.doc = i, !.then = next]
  <2>0. i \in Docs /\ doc[i].kind # "none" /\ doc[i].user = m.u
    BY <1>0, <1>1, PendingFacts
  <2> HIDE DEF i
  <2>1. "unproject" \in JoinPlaces /\ "unproject" \in Plain /\ "unproject" \notin Tagging
    BY DEF JoinPlaces, Plain, Tagging
  <2>2. /\ r \in Memory /\ r.pc = "unproject" /\ r.u = m.u /\ r.op = m.op
        /\ r.doc = i /\ r.row = m.row /\ r.want = m.want
    BY <1>0, <2>0, <2>1 DEF Memory
  <2>3. Hold(h, r)
    BY <1>1 DEF i
  <2> HIDE DEF r, m
  <2> QED
    BY <1>0, <2>0, <2>1, <2>2, <2>3, PlainStep DEF m
<1>2. CASE GoTo(h, "dropInv")
  <2>1. "dropInv" \in Plain /\ "dropInv" \notin Tagging
    BY DEF Plain, JoinPlaces, Tagging
  <2> QED
    BY <1>0, <1>2, <2>1, GoesTo
<1> QED
  BY <1>0, <1>1, <1>2, EndStep DEF DropOld

LEMMA CaptureStep == ASSUME JoinIInv, NEW h \in JoinHandlers, Capture(h) PROVE JoinIInv'
<1> DEFINE m == errand[h]
           want == IF IsTeam \/ Mine(h) = NoRow THEN "unset" ELSE Mine(h).tag
           r == [m EXCEPT !.pc = "join", !.want = want]
<1>0. /\ m \in Memory /\ KnowsOfJoining(m) /\ Reads /\ m.pc = "capture" /\ Mine(h) \in MemberRows
      /\ m.pc \notin EditPlaces \cup {"load"} /\ m.tag \in Tags
  BY MemoryFacts DEF Capture, At, EditPlaces, KnowsOfJoining, Intends, Tagging
<1>1. "join" \in JoinPlaces /\ "join" \in Plain \ InProjects /\ want \in Tags \cup {"unset"}
  BY <1>0 DEF JoinPlaces, Plain, MemberRows, InProjects
<1>2. Hold(h, r)
  BY DEF Capture
<1> HIDE DEF want
<1>3. /\ r \in Memory /\ r.pc = "join" /\ r.u = m.u /\ r.op = m.op /\ r.tag = m.tag
      /\ r.doc = m.doc /\ r.row = m.row /\ r.want = want /\ r.then = m.then
  BY <1>0, <1>1 DEF Memory
<1>4. IsTeam => r.op # "reuse" /\ r.then = "end"
  BY <1>0, <1>3 DEF KnowsOfJoining, OfTeam
<1> HIDE DEF r, m
<1> QED
  BY <1>0, <1>1, <1>2, <1>3, <1>4, PlainStep DEF m

\* User.join is done: a document at hand is settled, or the caller goes on.
LEMMA JoinedFacts ==
    ASSUME JoinIInv, NEW h \in JoinHandlers, NEW r \in Memory, Joined(h, r), Keeping(r),
           r.pc \notin {"load", "write"}, r.op \in Edits => r.doc = 0 /\ r.then = "end",
           IsTeam => r.then = "end"
    PROVE  \E q \in Memory : /\ Hold(h, q) /\ q.u = r.u /\ q.row = r.row /\ q.pc # "save"
                             /\ q.doc = r.doc /\ (q.doc = 0 => q.pc # "settle")
                             /\ q.pc \notin {"sync", "publish"}
                             /\ (q.pc # "end" => Keeping(q))
<1> DEFINE pc == IF r.doc # 0 THEN "settle" ELSE r.then
           q == [r EXCEPT !.pc = pc]
<1>1. /\ pc \in JoinPlaces /\ pc \in {"settle", "end", "refetch", "dropApp", "dropInv"}
      /\ (r.doc = 0 => pc # "settle" /\ pc = r.then) /\ (pc = "settle" => r.doc # 0)
      /\ (IsTeam => pc \in {"settle", "end"})
  BY DEF JoinPlaces, Memory
<1>2. Hold(h, q)
  BY DEF Joined
<1> HIDE DEF pc
<1>3. /\ q \in Memory /\ q.pc = pc /\ q.u = r.u /\ q.op = r.op /\ q.tag = r.tag /\ q.doc = r.doc
      /\ q.row = r.row /\ q.then = r.then /\ q.want = r.want
  BY <1>1 DEF Memory
<1> HIDE DEF q
<1>4. HasDoc(q) /\ HasRead(q)
  BY <1>3 DEF Keeping, HasDoc, HasRead
<1>5. pc # "end" => Intends(q)
  <2>1. pc # "end" => r.op \notin Edits
    BY <1>1
  <2> QED
    BY <1>1, <1>3, <2>1 DEF Keeping, Intends, Tagging
<1>6. OfTeam(q)
  BY <1>1, <1>3 DEF Keeping, OfTeam, InProjects
<1> QED
  BY <1>1, <1>2, <1>3, <1>4, <1>5, <1>6 DEF Keeping

LEMMA JoinStep == ASSUME JoinIInv, NEW h \in JoinHandlers, JoinGroup(h) PROVE JoinIInv'
<1> DEFINE m == errand[h]
           r == [m EXCEPT !.row = Mine(h)]
<1>0. /\ m \in Memory /\ KnowsOfJoining(m) /\ Reads /\ m.pc = "join" /\ Mine(h) \in MemberRows
      /\ m.pc \notin EditPlaces \cup {"load"} /\ m.tag \in Tags /\ m.op \notin Edits
  BY MemoryFacts DEF JoinGroup, At, EditPlaces, KnowsOfJoining, Intends, Tagging
<1>1. /\ r \in Memory /\ r.pc = m.pc /\ r.u = m.u /\ r.op = m.op /\ r.tag = m.tag
      /\ r.doc = m.doc /\ r.row = Mine(h) /\ r.want = m.want /\ r.then = m.then
  BY <1>0 DEF Memory
<1>2. HasDoc(r) /\ HasRead(r) /\ (r.row.status = "active" => r.u \in joined)
  BY <1>1, Carries
<1>3. ASSUME NEW pc \in {"save", "reserve"}, Hold(h, [r EXCEPT !.pc = pc]),
             pc = "save" => ~IsTeam \/ r.row.status = "active"
      PROVE  JoinIInv'
  <2> DEFINE q == [r EXCEPT !.pc = pc]
  <2>1. pc \in JoinPlaces /\ pc \notin InProjects /\ pc \notin EditPlaces
    BY DEF JoinPlaces, InProjects, EditPlaces
  <2> HIDE DEF r
  <2>2. /\ q \in Memory /\ q.pc = pc /\ q.u = m.u /\ q.op = m.op /\ q.tag = m.tag
        /\ q.doc = m.doc /\ q.row = r.row /\ q.want = m.want /\ q.then = m.then
    BY <1>1, <2>1 DEF Memory
  <2>3. Hold(h, q)
    BY <1>3
  <2> HIDE DEF q, m
  <2>4. HasDoc(q) /\ HasRead(q) /\ HasJoined(q)
    BY <1>1, <1>2, <2>2 DEF HasDoc, HasRead, HasJoined
  <2>5. Intends(q)
    BY <1>0, <2>1, <2>2 DEF Intends, KnowsOfJoining
  <2>6. OfTeam(q)
    BY <1>0, <2>1, <2>2 DEF OfTeam, KnowsOfJoining
  <2>7. KnowsOfJoining(q)
    BY <2>4, <2>5, <2>6 DEF KnowsOfJoining
  <2> QED
    BY <1>0, <1>3, <2>2, <2>3, <2>7, ReadStep
<1>4. CASE Mine(h).status = "active" /\ Joined(h, r)
  <2> HIDE DEF r, m
  <2>1. Intends(r) /\ OfTeam(r)
    BY <1>0, <1>1 DEF Intends, OfTeam, KnowsOfJoining, InProjects
  <2>2. /\ r.pc \notin {"load", "write"} /\ (r.op \in Edits => r.doc = 0 /\ r.then = "end")
        /\ (IsTeam => r.then = "end") /\ Keeping(r)
    BY <1>0, <1>1, <1>2, <2>1 DEF OfTeam, Keeping
  <2>3. PICK q \in Memory : /\ Hold(h, q) /\ q.u = r.u /\ q.row = r.row /\ q.pc # "save"
                            /\ (q.pc # "end" => Keeping(q))
    BY <1>1, <1>4, <2>2, JoinedFacts
  <2>4. r.u \in joined
    BY <1>1, <1>2, <1>4
  <2>5. q.pc # "end" => KnowsOfJoining(q)
    BY <2>3, <2>4 DEF KnowsOfJoining, Keeping, HasJoined
  <2> QED
    BY <1>0, <2>3, <2>5, ReadStep
<1>5. /\ IF Mine(h).status # "active" THEN Hold(h, [r EXCEPT !.pc = IF IsTeam THEN "reserve" ELSE "save"])
         ELSE IF IsTeam /\ Mine(h).tag # r.tag THEN Hold(h, [r EXCEPT !.pc = "save"])
         ELSE Joined(h, r)
  BY DEF JoinGroup
<1> HIDE DEF r, m
<1>6. CASE Mine(h).status # "active"
  <2>1. CASE IsTeam
    BY <1>3, <1>5, <1>6, <2>1
  <2>2. CASE ~IsTeam
    BY <1>3, <1>5, <1>6, <2>2
  <2> QED
    BY <2>1, <2>2
<1> QED
  BY <1>1, <1>3, <1>4, <1>5, <1>6

LEMMA AddStep == ASSUME JoinIInv, NEW h \in JoinHandlers, LookAdd(h) PROVE JoinIInv'
<1> DEFINE m == errand[h]
           r == [m EXCEPT !.pc = "reserve", !.row = Mine(h)]
<1>0. /\ m \in Memory /\ KnowsOfJoining(m) /\ Reads /\ m.pc = "add" /\ Mine(h) \in MemberRows
      /\ m.pc \notin EditPlaces \cup {"load"} /\ m.tag \in Tags
  BY MemoryFacts DEF LookAdd, At, EditPlaces, KnowsOfJoining, Intends, Tagging
<1>1. "reserve" \in JoinPlaces /\ "reserve" \in Plain \ InProjects
  BY DEF JoinPlaces, Plain, InProjects
<1>2. /\ r \in Memory /\ r.pc = "reserve" /\ r.u = m.u /\ r.op = m.op /\ r.tag = m.tag
      /\ r.doc = m.doc /\ r.row = Mine(h) /\ r.want = m.want /\ r.then = m.then
  BY <1>0, <1>1 DEF Memory
<1>3. IsTeam => r.op # "reuse" /\ r.then = "end"
  BY <1>0, <1>2 DEF KnowsOfJoining, OfTeam
<1>4. EndRequest(h) \/ Hold(h, r)
  BY DEF LookAdd
<1> HIDE DEF r, m
<1>5. CASE EndRequest(h)
  BY <1>0, <1>5, EndStep
<1>6. CASE Hold(h, r)
  BY <1>0, <1>1, <1>2, <1>3, <1>6, PlainStep DEF m
<1> QED
  BY <1>4, <1>5, <1>6

LEMMA CountStep == ASSUME JoinIInv, NEW h \in JoinHandlers, Count(h) PROVE JoinIInv'
<1> DEFINE m == errand[h]
           n == Cardinality(Active)
           pc == IF At(h, "count") THEN "repair" ELSE "publish"
           r == [m EXCEPT !.n = n, !.pc = pc]
<1>0. /\ m \in Memory /\ KnowsOfJoining(m) /\ Reads /\ m.pc \in {"count", "sync"}
      /\ (m.pc = "count" <=> pc = "repair")
  BY MemoryFacts DEF Count, At
<1>1. Hold(h, r)
  BY DEF Count
<1>2. n \in Nat /\ (IsTeam /\ "seats" \notin raced => n <= MaxSeats)
  <2>1. Cardinality(Holding) \in Nat /\ n \in Nat
    BY FiniteCounts
  <2> HIDE DEF n
  <2>2. IsTeam /\ "seats" \notin raced => n + Cardinality(Holding) <= seats /\ seats <= MaxSeats
    BY DEF JoinIInv, SeatsSuffice, n
  <2>3. seats \in Nat /\ MaxSeats \in Nat
    BY JoiningAssumption DEF JoinIInv, JoiningTypeOK
  <2> QED
    BY <2>1, <2>2, <2>3
<1>3. pc \in {"repair", "publish"} /\ pc \in JoinPlaces
  BY DEF JoinPlaces
<1> HIDE DEF pc, n
<1>4. /\ r \in Memory /\ r.pc = pc /\ r.u = m.u /\ r.op = m.op /\ r.tag = m.tag
      /\ r.doc = m.doc /\ r.row = m.row /\ r.want = m.want /\ r.then = m.then /\ r.n = n
  BY <1>0, <1>2, <1>3 DEF Memory
<1> HIDE DEF r, m
<1>5. HasDoc(r) /\ HasRead(r)
  BY <1>0, <1>4 DEF KnowsOfJoining, HasDoc, HasRead
<1>6. HasJoined(r)
  BY <1>0, <1>3, <1>4 DEF KnowsOfJoining, HasJoined
<1>7. Intends(r)
  <2>1. pc \notin {"load", "write", "invite", "newinv", "edit", "reuse", "end"}
    BY <1>3
  <2>2. r.pc \in Tagging => r.tag \in Tags
    BY <1>0, <1>3, <1>4 DEF KnowsOfJoining, Intends, Tagging
  <2>3. r.op \in Edits => r.pc \in EditPlaces /\ r.doc = 0 /\ r.then = "end"
    BY <1>0, <1>3, <1>4 DEF KnowsOfJoining, Intends, EditPlaces
  <2>4. r.want \in Tags \cup {"unset"}
    BY <1>0, <1>4 DEF KnowsOfJoining, Intends
  <2> QED
    BY <1>4, <2>1, <2>2, <2>3, <2>4 DEF Intends
<1>8. OfTeam(r)
  BY <1>0, <1>2, <1>3, <1>4 DEF KnowsOfJoining, OfTeam, InProjects
<1>9. KnowsOfJoining(r) /\ r.pc # "save"
  BY <1>3, <1>4, <1>5, <1>6, <1>7, <1>8 DEF KnowsOfJoining
<1> QED
  BY <1>0, <1>1, <1>4, <1>9, ReadStep

\* A row has been read that is now to be written.
LEMMA ToWrite ==
    ASSUME JoinIInv, NEW h \in JoinHandlers, NEW r \in Memory, Hold(h, r), Reads,
           r.u = errand[h].u, r.op = errand[h].op, r.doc = errand[h].doc, r.then = errand[h].then,
           r.pc = "write", r.row = Mine(h), r.tag \in Tags, r.want \in RowStatuses,
           r.op \in {"update", "aliases"} => r.want = r.row.status,
           r.op = "remove" => r.want = "removed",
           r.op \notin Edits =>
             ~IsTeam /\ (r.want = "active" \/ (r.want # "none" /\ r.row.status # "active"))
    PROVE  JoinIInv'
<1>0. errand[h] \in Memory /\ KnowsOfJoining(errand[h])
  BY MemoryFacts
<1>1. HasDoc(r) /\ HasRead(r) /\ (r.row.status = "active" => r.u \in joined)
  BY Carries
<1>2. HasJoined(r)
  BY <1>1 DEF HasJoined
<1>3. Intends(r)
  <2>1. r.op \in Edits => r.pc \in EditPlaces /\ r.doc = 0 /\ r.then = "end"
    BY <1>0 DEF KnowsOfJoining, Intends, EditPlaces
  <2> QED
    BY <2>1 DEF Intends
<1>4. OfTeam(r)
  BY <1>0 DEF KnowsOfJoining, OfTeam, InProjects, Edits
<1> QED
  BY <1>1, <1>2, <1>3, <1>4, ReadStep DEF KnowsOfJoining

LEMMA EditStep == ASSUME JoinIInv, NEW h \in JoinHandlers, Edit(h) PROVE JoinIInv'
<1> DEFINE m == errand[h]
           want == IF m.op = "remove" THEN "removed" ELSE Mine(h).status
           r == [m EXCEPT !.pc = "write", !.row = Mine(h), !.want = want]
<1>0. /\ m \in Memory /\ KnowsOfJoining(m) /\ Reads /\ m.pc = "edit" /\ Mine(h) \in MemberRows /\ m.tag \in Tags
      /\ m.op \in Edits
  BY MemoryFacts DEF Edit, At, KnowsOfJoining, Intends, Tagging
<1>1. /\ "write" \in JoinPlaces /\ want \in RowStatuses /\ want \in RowStatuses \cup Tags \cup {"unset"}
      /\ (m.op = "remove" => want = "removed") /\ (m.op # "remove" => want = Mine(h).status)
  BY <1>0 DEF JoinPlaces, RowStatuses, MemberRows
<1>2. EndRequest(h) \/ Hold(h, r)
  BY DEF Edit
<1> HIDE DEF want
<1>3. /\ r \in Memory /\ r.pc = "write" /\ r.u = m.u /\ r.op = m.op /\ r.tag = m.tag
      /\ r.doc = m.doc /\ r.row = Mine(h) /\ r.want = want /\ r.then = m.then
  BY <1>0, <1>1 DEF Memory
<1> HIDE DEF r, m
<1>4. CASE EndRequest(h)
  BY <1>0, <1>4, EndStep
<1>5. CASE Hold(h, r)
  BY <1>0, <1>1, <1>3, <1>5, ToWrite DEF m
<1> QED
  BY <1>2, <1>4, <1>5

LEMMA UnprojectStep == ASSUME JoinIInv, NEW h \in JoinHandlers, Unproject(h) PROVE JoinIInv'
<1> DEFINE m == errand[h]
           r == [m EXCEPT !.pc = "load", !.want = "removed", !.tag = Mine(h).tag]
<1>0. /\ m \in Memory /\ KnowsOfJoining(m) /\ Reads /\ m.pc = "unproject" /\ Mine(h) \in MemberRows
      /\ m.pc \notin EditPlaces \cup {"load"} /\ m.op \notin Edits /\ ~IsTeam
  BY MemoryFacts DEF Unproject, At, EditPlaces, KnowsOfJoining, Intends, OfTeam, InProjects
<1>1. CASE GoTo(h, "end") \/ GoTo(h, "erase")
  <2>1. {"end", "erase"} \subseteq Plain \cup {"end", "newinv"}
    BY DEF Plain, JoinPlaces
  <2>2. "end" \notin Tagging /\ "erase" \notin Tagging
    BY DEF Tagging
  <2> QED
    BY <1>0, <1>1, <2>1, <2>2, GoesTo
<1>2. CASE Hold(h, r)
  <2>1. /\ "load" \in JoinPlaces /\ "removed" \in RowStatuses \cup Tags \cup {"unset"}
        /\ Mine(h).tag \in Tags \cup {"unset"}
    BY <1>0 DEF JoinPlaces, RowStatuses, MemberRows
  <2>2. /\ r \in Memory /\ r.pc = "load" /\ r.u = m.u /\ r.op = m.op
        /\ r.doc = m.doc /\ r.row = m.row /\ r.want = "removed"
    BY <1>0, <2>1 DEF Memory
  <2> HIDE DEF r, m
  <2> QED
    BY <1>0, <1>2, <2>2, LoadStep DEF m
<1> QED
  BY <1>1, <1>2 DEF Unproject

LEMMA RetagStep == ASSUME JoinIInv, NEW h \in JoinHandlers, LookRetag(h) PROVE JoinIInv'
<1> DEFINE m == errand[h]
           q == [m EXCEPT !.pc = "load", !.want = "invited"]
           r == [m EXCEPT !.pc = "write", !.want = "active", !.row = Mine(h)]
<1>0. /\ m \in Memory /\ KnowsOfJoining(m) /\ Reads /\ m.pc = "retag" /\ Mine(h) \in MemberRows
      /\ m.op \notin Edits /\ ~IsTeam /\ m.tag \in Tags
  BY MemoryFacts DEF LookRetag, At, EditPlaces, KnowsOfJoining, Intends, OfTeam, InProjects, Tagging
<1>1. EndRequest(h) \/ Hold(h, q) \/ Hold(h, r)
  BY DEF LookRetag
<1>2. /\ "load" \in JoinPlaces /\ "write" \in JoinPlaces
      /\ {"invited", "active"} \subseteq RowStatuses \cup Tags \cup {"unset"} /\ "active" \in RowStatuses
  BY DEF JoinPlaces, RowStatuses
<1>3. /\ q \in Memory /\ q.pc = "load" /\ q.u = m.u /\ q.op = m.op
      /\ q.doc = m.doc /\ q.row = m.row /\ q.want = "invited"
  BY <1>0, <1>2 DEF Memory
<1>4. /\ r \in Memory /\ r.pc = "write" /\ r.u = m.u /\ r.op = m.op /\ r.tag = m.tag
      /\ r.doc = m.doc /\ r.row = Mine(h) /\ r.want = "active" /\ r.then = m.then
  BY <1>0, <1>2 DEF Memory
<1> HIDE DEF q, r, m
<1>5. CASE EndRequest(h)
  BY <1>0, <1>5, EndStep
<1>6. CASE Hold(h, q)
  BY <1>0, <1>3, <1>6, LoadStep DEF m
<1>7. CASE Hold(h, r)
  BY <1>0, <1>2, <1>4, <1>7, ToWrite DEF m, Edits
<1> QED
  BY <1>1, <1>5, <1>6, <1>7

LEMMA LoadRowStep == ASSUME JoinIInv, NEW h \in JoinHandlers, LoadRow(h) PROVE JoinIInv'
<1> DEFINE m == errand[h]
           tag == IF m.tag = "unset" THEN Mine(h).tag ELSE m.tag
           q == [m EXCEPT !.pc = After(h), !.want = "none"]
           r == [m EXCEPT !.pc = "write", !.row = Mine(h), !.tag = tag]
           spared == \/ m.want \in {"invited", "removed"} /\ Mine(h).status = "active"
                     \/ Mine(h).status = m.want /\ Mine(h).tag = tag
<1>0. /\ m \in Memory /\ KnowsOfJoining(m) /\ Reads /\ m.pc = "load" /\ Mine(h) \in MemberRows
      /\ m.op \notin Edits /\ ~IsTeam /\ m.want \in {"active", "invited", "removed"}
      /\ m.pc \notin EditPlaces
  BY MemoryFacts DEF LoadRow, At, EditPlaces, KnowsOfJoining, Intends, OfTeam, InProjects
<1>1. IF spared THEN Hold(h, q) ELSE Hold(h, r)
  BY DEF LoadRow
<1>2. CASE Hold(h, q)
  <2>1. After(h) \in {"erase", "end", "refetch", "dropApp", "dropInv"}
    BY <1>0 DEF After, Memory
  <2>2. /\ After(h) \in JoinPlaces /\ After(h) \in Plain \cup {"end"} /\ After(h) \notin Tagging
        /\ "none" \in Tags /\ "none" \in RowStatuses
    BY <2>1 DEF JoinPlaces, Plain, Tagging, Tags, RowStatuses
  <2>3. /\ q \in Memory /\ q.pc = After(h) /\ q.u = m.u /\ q.op = m.op
        /\ q.doc = m.doc /\ q.row = m.row /\ q.want = "none"
    BY <1>0, <2>2 DEF Memory
  <2>4. q.pc \notin {"invite", "newinv"}
    BY <2>1, <2>3
  <2> HIDE DEF q, r, m
  <2> QED
    BY <1>0, <1>2, <2>2, <2>3, <2>4, PlainStep DEF m
<1>3. CASE ~spared /\ Hold(h, r)
  <2>1. tag \in Tags /\ "write" \in JoinPlaces /\ m.want \in RowStatuses
    BY <1>0 DEF Memory, MemberRows, JoinPlaces, RowStatuses
  <2>2. m.want = "active" \/ (m.want # "none" /\ Mine(h).status # "active")
    BY <1>0, <1>3
  <2> HIDE DEF tag
  <2>3. /\ r \in Memory /\ r.pc = "write" /\ r.u = m.u /\ r.op = m.op /\ r.tag = tag
        /\ r.doc = m.doc /\ r.row = Mine(h) /\ r.want = m.want /\ r.then = m.then
    BY <1>0, <2>1 DEF Memory
  <2> HIDE DEF q, r, m, spared
  <2> QED
    BY <1>0, <1>3, <2>1, <2>2, <2>3, ToWrite DEF m, Edits
<1> QED
  BY <1>1, <1>2, <1>3

(***************************************************************************)
(* Steps that write an invitation or an application.                       *)
(***************************************************************************)
LEMMA DocStep ==
    ASSUME JoinIInv, NEW h \in JoinHandlers, NEW r \in Memory, Hold(h, r), SameRows, OthersKeep,
           seats' = seats, doc' \in [Docs -> DocRecords],
           \A i \in Docs : doc[i].kind # "none" => doc'[i].kind # "none" /\ doc'[i].user = doc[i].user,
           r.pc # "save", r.pc # "end" => KnowsOfJoining(r) \/ KnowsOfJoining(r)', AllowedHasJoined', UsedDocs'
    PROVE  JoinIInv'
<1>1. JoiningTypeOK /\ JoiningTypeOK' /\ blind' \subseteq Everybody
  BY DEF JoinIInv, JoiningTypeOK, SameRows, OthersKeep, DocRecords
<1>2. GoesOn
  BY DEF GoesOn, SameRows, OthersKeep
<1>3. r.pc # "end" => KnowsOfJoining(r)'
  BY <1>1, <1>2, KnowsKept
<1>4. ActiveHasJoined'
  BY DEF SameRows, JoinIInv, ActiveHasJoined
<1>5. SeatsSuffice'
  BY SeatsKept DEF SameRows, OthersKeep, Active
<1> QED
  BY <1>1, <1>2, <1>3, <1>4, <1>5, HandlerStep

\* A new document takes the place of none.
LEMMA NewDoc ==
    ASSUME JoinIInv, UnusedDocs # {}, NEW d \in DocRecords, d.kind # "none", d.status = "pending",
           doc' = [doc EXCEPT ![Earliest(UnusedDocs)] = d], joined' = joined
    PROVE  /\ doc' \in [Docs -> DocRecords] /\ AllowedHasJoined' /\ UsedDocs'
           /\ Earliest(UnusedDocs) \in Docs /\ doc'[Earliest(UnusedDocs)] = d
           /\ \A j \in Docs : doc[j].kind # "none" => doc'[j] = doc[j]
<1> DEFINE i == Earliest(UnusedDocs)
<1>1. i \in Docs /\ doc[i].kind = "none"
  <2>1. UnusedDocs \in SUBSET Docs
    BY DEF UnusedDocs
  <2>2. i \in UnusedDocs
    BY <2>1, EarliestIsOne
  <2> QED
    BY <2>2 DEF UnusedDocs
<1> HIDE DEF i
<1>2. doc \in [Docs -> DocRecords] /\ doc' = [doc EXCEPT ![i] = d]
  BY DEF JoinIInv, JoiningTypeOK, DocRecords, i
<1>3. doc' \in [Docs -> DocRecords] /\ doc'[i] = d /\ \A j \in Docs : j # i => doc'[j] = doc[j]
  BY <1>1, <1>2
<1>4. AllowedHasJoined' /\ UsedDocs'
  BY <1>3 DEF JoinIInv, AllowedHasJoined, UsedDocs
<1> QED
  BY <1>1, <1>3, <1>4 DEF i

LEMMA NewInvitationStep == ASSUME JoinIInv, NEW h \in JoinHandlers, NewInvitation(h) PROVE JoinIInv'
<1> DEFINE m == errand[h]
           d == [kind |-> "inv", user |-> Me(h), status |-> "pending", role |-> Role(h)]
           r == [m EXCEPT !.pc = m.then]
<1>0. /\ m \in Memory /\ KnowsOfJoining(m) /\ m.pc = "newinv" /\ Me(h) \in Everybody /\ m.op \notin Edits
      /\ UnusedDocs # {} /\ SameRows /\ OthersKeep /\ seats' = seats
      /\ doc' = [doc EXCEPT ![Earliest(UnusedDocs)] = d]
  BY MemoryFacts DEF NewInvitation, At, KnowsOfJoining, Intends, EditPlaces
<1>1. Role(h) \in {"admin", "member"}
  BY <1>0 DEF Role, KnowsOfJoining, Intends
<1>2. d \in DocRecords /\ d.kind # "none" /\ d.status = "pending"
  BY <1>0, <1>1 DEF DocRecords
<1> HIDE DEF d
<1>3. /\ doc' \in [Docs -> DocRecords] /\ AllowedHasJoined' /\ UsedDocs'
      /\ \A j \in Docs : doc[j].kind # "none" => doc'[j] = doc[j]
  BY <1>0, <1>2, NewDoc DEF SameRows
<1>4. m.then \in JoinPlaces /\ m.then \in {"end", "refetch", "dropApp", "dropInv"}
  BY <1>0 DEF Memory, JoinPlaces
<1>5. /\ r \in Memory /\ r.pc = m.then /\ r.u = m.u /\ r.op = m.op /\ r.tag = m.tag
      /\ r.doc = m.doc /\ r.row = m.row /\ r.want = m.want /\ r.then = m.then
  BY <1>0, <1>4 DEF Memory
<1>6. Hold(h, r)
  BY DEF NewInvitation, GoTo
<1> HIDE DEF r, m
<1>7. HasDoc(r) /\ HasRead(r) /\ HasJoined(r)
  BY <1>0, <1>4, <1>5 DEF KnowsOfJoining, HasDoc, HasRead, HasJoined
<1>8. r.pc # "end" => Intends(r)
  BY <1>0, <1>4, <1>5 DEF KnowsOfJoining, Intends, Tagging
<1>9. OfTeam(r)
  BY <1>0, <1>4, <1>5 DEF KnowsOfJoining, OfTeam, InProjects
<1>10. (r.pc # "end" => KnowsOfJoining(r)) /\ r.pc # "save"
  BY <1>4, <1>5, <1>7, <1>8, <1>9 DEF KnowsOfJoining
<1> QED
  BY <1>0, <1>3, <1>5, <1>6, <1>10, DocStep

LEMMA NewApplicationStep == ASSUME JoinIInv, NEW h \in JoinHandlers, NewApplication(h) PROVE JoinIInv'
<1> DEFINE m == errand[h]
           i == Earliest(UnusedDocs)
           d == [kind |-> "app", user |-> Me(h), status |-> "pending", role |-> "member"]
           r == [m EXCEPT !.pc = "capture", !.doc = i]
<1>0. /\ m \in Memory /\ KnowsOfJoining(m) /\ m.pc = "newapp" /\ Me(h) \in Everybody /\ m.op \notin Edits
      /\ UnusedDocs # {} /\ SameRows /\ OthersKeep /\ seats' = seats
      /\ doc' = [doc EXCEPT ![i] = d] /\ (EndRequest(h) \/ Hold(h, r)) /\ Me(h) = m.u
  BY MemoryFacts DEF NewApplication, At, KnowsOfJoining, Intends, EditPlaces, Me
<1>1. d \in DocRecords /\ d.kind # "none" /\ d.status = "pending" /\ d.user = m.u
  BY <1>0 DEF DocRecords
<1> HIDE DEF d
<1>2. /\ doc' \in [Docs -> DocRecords] /\ AllowedHasJoined' /\ UsedDocs' /\ i \in Docs /\ doc'[i] = d
      /\ \A j \in Docs : doc[j].kind # "none" => doc'[j] = doc[j]
  BY <1>0, <1>1, NewDoc DEF SameRows
<1>3. CASE EndRequest(h)
  BY <1>0, <1>2, <1>3, DocStep, NoErrandFact, NoErrandKnows DEF EndRequest
<1>4. CASE Hold(h, r)
  <2>1. "capture" \in JoinPlaces
    BY DEF JoinPlaces
  <2> HIDE DEF i
  <2>2. /\ r \in Memory /\ r.pc = "capture" /\ r.u = m.u /\ r.op = m.op /\ r.tag = m.tag
        /\ r.doc = i /\ r.row = m.row /\ r.want = m.want /\ r.then = m.then
    BY <1>0, <1>2, <2>1 DEF Memory
  <2>3. PICK q \in Memory : q = r
    BY <2>2
  <2> HIDE DEF r
  <2>4. HasDoc(q)' /\ HasRead(q)' /\ HasJoined(q)'
    BY <1>0, <1>1, <1>2, <2>2, <2>3 DEF KnowsOfJoining, HasDoc, HasRead, HasJoined, SameRows
  <2>5. Intends(q)'
    BY <1>0, <2>2, <2>3 DEF KnowsOfJoining, Intends, Tagging
  <2>6. OfTeam(q)'
    BY <1>0, <2>2, <2>3 DEF KnowsOfJoining, OfTeam, InProjects, OthersKeep, IsTeam
  <2>7. KnowsOfJoining(q)' /\ q.pc # "save" /\ Hold(h, q)
    BY <1>4, <2>2, <2>3, <2>4, <2>5, <2>6 DEF KnowsOfJoining
  <2> QED
    BY <1>0, <1>2, <2>7, DocStep
<1> QED
  BY <1>0, <1>3, <1>4

\* The status of the document at hand, if any, is changed.
LEMMA StatusStep ==
    ASSUME JoinIInv, NEW h \in JoinHandlers, NEW r \in Memory, Hold(h, r), SameRows, OthersKeep,
           seats' = seats, NEW to \in {"allow", "deny", "deleted"},
           \/ doc' = [doc EXCEPT ![errand[h].doc].status = to]
           \/ doc' = [doc EXCEPT ![errand[h].doc].status = IF @ = "deleted" THEN @ ELSE to],
           to = "allow" => errand[h].u \in joined,
           r.pc # "save", r.pc # "end" => KnowsOfJoining(r)
    PROVE  JoinIInv'
<1> DEFINE i == errand[h].doc
<1>1. i \in Docs => doc[i].kind # "none" /\ doc[i].user = errand[h].u
  <2>1. 0 \notin Docs
    BY JoiningAssumption DEF Docs
  <2> QED
    BY <2>1, MemoryFacts DEF KnowsOfJoining, HasDoc
<1>2. doc \in [Docs -> DocRecords]
  BY DEF JoinIInv, JoiningTypeOK, DocRecords
<1>3. PICK s \in {to, "deleted"} : doc' = [doc EXCEPT ![i].status = s] \/ doc' = doc
  <2>1. CASE doc' = [doc EXCEPT ![i].status = to]
    BY <2>1
  <2>2. CASE doc' = [doc EXCEPT ![i].status = IF @ = "deleted" THEN @ ELSE to]
    <3>1. CASE doc[i].status = "deleted"
      BY <2>2, <3>1
    <3>2. CASE doc[i].status # "deleted"
      BY <2>2, <3>2
    <3> QED
      BY <3>1, <3>2
  <2> QED
    BY <2>1, <2>2
<1> HIDE DEF i
<1>4. \A j \in Docs : /\ doc'[j] \in DocRecords
                      /\ doc'[j].kind = doc[j].kind /\ doc'[j].user = doc[j].user
                      /\ doc'[j].status = doc[j].status \/ (j = i /\ doc'[j].status = s)
  BY <1>2, <1>3 DEF DocRecords
<1>5. doc' \in [Docs -> DocRecords]
  BY <1>2, <1>3, <1>4
<1>6. AllowedHasJoined'
  BY <1>1, <1>3, <1>4 DEF JoinIInv, AllowedHasJoined, SameRows
<1>7. UsedDocs'
  BY <1>1, <1>4 DEF JoinIInv, UsedDocs
<1> QED
  BY <1>4, <1>5, <1>6, <1>7, DocStep

LEMMA SettleStep == ASSUME JoinIInv, NEW h \in JoinHandlers, Settle(h) PROVE JoinIInv'
<1> DEFINE m == errand[h]
           r == [m EXCEPT !.pc = m.then]
           q == [m EXCEPT !.pc = "load", !.tag = m.want, !.want = "active"]
<1>0. /\ m \in Memory /\ KnowsOfJoining(m) /\ m.pc = "settle" /\ m.u \in joined /\ m.op \notin Edits
      /\ m.want \in Tags \cup {"unset"} /\ SameRows /\ OthersKeep /\ seats' = seats
      /\ doc' = [doc EXCEPT ![m.doc].status = IF @ = "deleted" THEN @ ELSE "allow"]
  BY MemoryFacts DEF Settle, At, KnowsOfJoining, HasJoined, Intends, EditPlaces
<1>1. CASE IsTeam
  <2>1. m.then = "end" /\ Hold(h, r)
    BY <1>0, <1>1 DEF Settle, KnowsOfJoining, OfTeam
  <2>2. "end" \in JoinPlaces
    BY DEF JoinPlaces
  <2>3. r \in Memory /\ r.pc = "end"
    BY <1>0, <2>1, <2>2 DEF Memory
  <2> HIDE DEF r, q, m
  <2> QED
    BY <1>0, <2>1, <2>3, StatusStep DEF m
<1>2. CASE ~IsTeam
  <2>1. Hold(h, q)
    BY <1>2 DEF Settle
  <2>2. "load" \in JoinPlaces /\ "active" \in RowStatuses
    BY DEF JoinPlaces, RowStatuses
  <2>3. /\ q \in Memory /\ q.pc = "load" /\ q.u = m.u /\ q.op = m.op
        /\ q.doc = m.doc /\ q.row = m.row /\ q.want = "active"
    BY <1>0, <2>2 DEF Memory
  <2> HIDE DEF r, q, m
  <2>4. HasDoc(q) /\ HasRead(q) /\ HasJoined(q) /\ OfTeam(q)
    BY <1>0, <1>2, <2>3 DEF KnowsOfJoining, HasDoc, HasRead, HasJoined, OfTeam
  <2>5. Intends(q)
    BY <1>0, <2>3 DEF Intends, Tagging
  <2>6. KnowsOfJoining(q) /\ q.pc # "save"
    BY <2>3, <2>4, <2>5 DEF KnowsOfJoining
  <2> QED
    BY <1>0, <2>1, <2>3, <2>6, StatusStep DEF m
<1> QED
  BY <1>1, <1>2

LEMMA DenyStep == ASSUME JoinIInv, NEW h \in JoinHandlers, Deny(h) PROVE JoinIInv'
<1> DEFINE m == errand[h]
           q == [m EXCEPT !.pc = "unproject"]
<1>0. /\ m \in Memory /\ KnowsOfJoining(m) /\ m.pc = "deny" /\ m.op \notin Edits
      /\ SameRows /\ OthersKeep /\ seats' = seats
      /\ doc' = [doc EXCEPT ![m.doc].status = IF @ = "deleted" THEN @ ELSE "deny"]
  BY MemoryFacts DEF Deny, At, KnowsOfJoining, Intends, EditPlaces
<1>1. CASE IsTeam
  BY <1>0, <1>1, StatusStep, NoErrandFact, NoErrandKnows DEF Deny, EndRequest
<1>2. CASE ~IsTeam
  <2>1. Hold(h, q)
    BY <1>2 DEF Deny, GoTo
  <2>2. "unproject" \in JoinPlaces
    BY DEF JoinPlaces
  <2>3. /\ q \in Memory /\ q.pc = "unproject" /\ q.u = m.u /\ q.op = m.op
        /\ q.doc = m.doc /\ q.row = m.row /\ q.want = m.want
    BY <1>0, <2>2 DEF Memory
  <2> HIDE DEF q, m
  <2>4. HasDoc(q) /\ HasRead(q) /\ HasJoined(q) /\ OfTeam(q)
    BY <1>0, <1>2, <2>3 DEF KnowsOfJoining, HasDoc, HasRead, HasJoined, OfTeam
  <2>5. Intends(q)
    BY <1>0, <2>3 DEF Intends, Tagging, KnowsOfJoining
  <2>6. KnowsOfJoining(q) /\ q.pc # "save"
    BY <2>3, <2>4, <2>5 DEF KnowsOfJoining
  <2> QED
    BY <1>0, <2>1, <2>3, <2>6, StatusStep DEF m
<1> QED
  BY <1>1, <1>2

LEMMA EraseStep == ASSUME JoinIInv, NEW h \in JoinHandlers, EraseDoc(h) PROVE JoinIInv'
<1> DEFINE m == errand[h]
           q == [m EXCEPT !.pc = m.then, !.doc = 0]
<1>0. /\ m \in Memory /\ KnowsOfJoining(m) /\ m.pc = "erase" /\ m.op \notin Edits
      /\ SameRows /\ OthersKeep /\ seats' = seats
      /\ doc' = [doc EXCEPT ![m.doc].status = "deleted"] /\ Hold(h, q)
  BY MemoryFacts DEF EraseDoc, At, KnowsOfJoining, Intends, EditPlaces
<1>1. m.then \in {"end", "refetch", "dropApp", "dropInv"} /\ m.then \in JoinPlaces
  BY <1>0 DEF Memory, JoinPlaces
<1>2. /\ q \in Memory /\ q.pc = m.then /\ q.u = m.u /\ q.op = m.op
      /\ q.doc = 0 /\ q.row = m.row /\ q.want = m.want /\ q.then = m.then
  BY <1>0, <1>1 DEF Memory
<1> HIDE DEF q, m
<1>3. HasDoc(q) /\ HasRead(q) /\ HasJoined(q)
  BY <1>0, <1>1, <1>2 DEF KnowsOfJoining, HasDoc, HasRead, HasJoined
<1>4. OfTeam(q)
  BY <1>0, <1>1, <1>2 DEF KnowsOfJoining, OfTeam, InProjects
<1>5. q.pc # "end" => Intends(q)
  BY <1>0, <1>1, <1>2 DEF Intends, Tagging, KnowsOfJoining
<1>6. (q.pc # "end" => KnowsOfJoining(q)) /\ q.pc # "save"
  BY <1>1, <1>2, <1>3, <1>4, <1>5 DEF KnowsOfJoining
<1> QED
  BY <1>0, <1>2, <1>6, StatusStep DEF m

(***************************************************************************)
(* Steps that write the count of the seats.                                *)
(***************************************************************************)
LEMMA ReserveStep == ASSUME JoinIInv, NEW h \in JoinHandlers, Reserve(h) PROVE JoinIInv'
<1> DEFINE m == errand[h]
<1>0. /\ m \in Memory /\ KnowsOfJoining(m) /\ m.pc \in {"reserve", "again"} /\ m.tag \in Tags /\ seats \in Nat
      /\ m.pc \notin EditPlaces \cup {"load"} /\ m.op \notin Edits
      /\ SameRows /\ OthersKeep /\ doc' = doc
  BY MemoryFacts DEF Reserve, At, KnowsOfJoining, Intends, Tagging, EditPlaces, JoinIInv, JoiningTypeOK
<1>1. CASE seats < MaxSeats
  <2> DEFINE q == [m EXCEPT !.pc = "save"]
  <2>1. seats' = seats + 1 /\ Hold(h, q)
    BY <1>1 DEF Reserve, GoTo
  <2>2. "save" \in JoinPlaces
    BY DEF JoinPlaces
  <2>3. /\ q \in Memory /\ q.pc = "save" /\ q.u = m.u /\ q.op = m.op /\ q.tag = m.tag
        /\ q.doc = m.doc /\ q.row = m.row /\ q.want = m.want /\ q.then = m.then
    BY <1>0, <2>2 DEF Memory
  <2> HIDE DEF m
  <2>4. HasDoc(q) /\ HasRead(q) /\ HasJoined(q) /\ OfTeam(q)
    BY <1>0, <2>3 DEF KnowsOfJoining, HasDoc, HasRead, HasJoined, OfTeam, InProjects
  <2>5. Intends(q)
    BY <1>0, <2>3 DEF Intends, Tagging, KnowsOfJoining
  <2>6. PICK r \in Memory : r = q
    BY <2>3
  <2>7. KnowsOfJoining(r) /\ r.pc # "end" /\ Hold(h, r)
    BY <2>1, <2>3, <2>4, <2>5, <2>6 DEF KnowsOfJoining
  <2>8. JoiningTypeOK /\ JoiningTypeOK' /\ blind' \subseteq Everybody /\ GoesOn
    BY <1>0, <2>1 DEF JoinIInv, JoiningTypeOK, SameRows, OthersKeep, GoesOn
  <2>9. KnowsOfJoining(r)'
    BY <2>7, <2>8, KnowsKept
  <2>10. ActiveHasJoined' /\ AllowedHasJoined' /\ UsedDocs'
    BY <1>0 DEF SameRows, OthersKeep, JoinIInv, ActiveHasJoined, AllowedHasJoined, UsedDocs
  <2>11. SeatsSuffice'
    <3>1. \A g \in JoinHandlers : g # h => errand'[g] = errand[g]
      BY <2>7, HoldFacts DEF JoinIInv
    <3>2. Holding' \subseteq Holding \cup {h} /\ Active' = Active
      BY <1>0, <3>1 DEF Holding, At, Active, SameRows
    <3>3. /\ Cardinality(Holding \cup {h}) <= Cardinality(Holding) + 1
          /\ IsFiniteSet(Holding \cup {h}) /\ Cardinality(Holding \cup {h}) \in Nat
      <4>1. IsFiniteSet(Holding) /\ Cardinality(Holding) \in Nat
        BY FiniteCounts
      <4>2. /\ IsFiniteSet(Holding \cup {h})
            /\ \/ Cardinality(Holding \cup {h}) = Cardinality(Holding)
               \/ Cardinality(Holding \cup {h}) = Cardinality(Holding) + 1
        BY <4>1, FS_AddElement, Zenon
      <4> QED
        BY <4>1, <4>2
    <3>4. Cardinality(Holding') <= Cardinality(Holding \cup {h}) /\ Cardinality(Holding') \in Nat
      BY <3>2, <3>3, FS_Subset, FS_CardinalityType
    <3>5. Cardinality(Active') = Cardinality(Active) /\ Cardinality(Active) \in Nat
          /\ Cardinality(Holding) \in Nat
      BY <3>2, FiniteCounts
    <3> QED
      BY <1>0, <1>1, <2>1, <3>3, <3>4, <3>5, JoiningAssumption DEF JoinIInv, SeatsSuffice, IsTeam, OthersKeep
  <2> QED
    BY <2>7, <2>8, <2>9, <2>10, <2>11, HandlerStep
<1>2. CASE ~(seats < MaxSeats)
  <2>1. Reads /\ (GoTo(h, "count") \/ EndRequest(h))
    BY <1>0, <1>2 DEF Reserve, Reads, SameRows, OthersKeep
  <2>2. "count" \in Plain \ InProjects
    BY DEF Plain, JoinPlaces, InProjects
  <2> QED
    BY <1>0, <2>1, <2>2, GoesTo, EndStep
<1> QED
  BY <1>1, <1>2

LEMMA PublishStep == ASSUME JoinIInv, NEW h \in JoinHandlers, PublishCount(h) PROVE JoinIInv'
<1> DEFINE m == errand[h]
<1>0. /\ m \in Memory /\ KnowsOfJoining(m) /\ m.pc \in {"repair", "publish"} /\ m.n \in Nat
      /\ SameRows /\ UNCHANGED <<kind, doc, begun, deaths>> /\ seats' = m.n
      /\ raced' = IF m.n < Cardinality(Active) + Cardinality(Holding) THEN raced \cup {"seats"} ELSE raced
  BY MemoryFacts DEF PublishCount, At, Memory
<1>1. JoiningTypeOK /\ JoiningTypeOK' /\ blind' \subseteq Everybody /\ GoesOn
  BY <1>0 DEF JoinIInv, JoiningTypeOK, SameRows, GoesOn
<1>2. ActiveHasJoined' /\ AllowedHasJoined' /\ UsedDocs'
  BY <1>0 DEF SameRows, JoinIInv, ActiveHasJoined, AllowedHasJoined, UsedDocs
<1>3. ASSUME NEW q \in Memory, Hold(h, q), q.pc # "save" PROVE SeatsSuffice'
  <2>1. Cardinality(Holding') <= Cardinality(Holding) /\ Holding' = Holding \ {h}
    BY <1>3, Releases
  <2>2. Cardinality(Holding') \in Nat
    BY <2>1, FiniteCounts, FS_Subset, FS_CardinalityType
  <2>3. Active' = Active /\ Cardinality(Active) \in Nat /\ Cardinality(Holding) \in Nat
    BY <1>0, FiniteCounts DEF Active, SameRows
  <2>4. IsTeam /\ "seats" \notin raced' =>
          m.n >= Cardinality(Active) + Cardinality(Holding) /\ m.n <= MaxSeats
    BY <1>0, <2>3 DEF KnowsOfJoining, OfTeam
  <2> QED
    BY <1>0, <2>1, <2>2, <2>3, <2>4 DEF SeatsSuffice, IsTeam
<1>4. CASE m.pc = "repair"
  <2> DEFINE q == [m EXCEPT !.pc = "again", !.n = 0]
  <2>1. Hold(h, q)
    BY <1>4 DEF PublishCount, At
  <2>2. "again" \in JoinPlaces /\ "again" \notin EditPlaces \cup InProjects
    BY DEF JoinPlaces, EditPlaces, InProjects
  <2>3. /\ q \in Memory /\ q.pc = "again" /\ q.u = m.u /\ q.op = m.op /\ q.tag = m.tag
        /\ q.doc = m.doc /\ q.row = m.row /\ q.want = m.want /\ q.then = m.then
    BY <1>0, <2>2 DEF Memory
  <2> HIDE DEF m
  <2>4. HasDoc(q) /\ HasRead(q) /\ HasJoined(q) /\ OfTeam(q)
    BY <1>0, <2>2, <2>3 DEF KnowsOfJoining, HasDoc, HasRead, HasJoined, OfTeam
  <2>5. Intends(q)
    BY <1>0, <1>4, <2>3 DEF Intends, Tagging, KnowsOfJoining, EditPlaces
  <2>6. PICK r \in Memory : r = q
    BY <2>3
  <2>7. KnowsOfJoining(r) /\ r.pc # "save" /\ Hold(h, r)
    BY <2>1, <2>3, <2>4, <2>5, <2>6 DEF KnowsOfJoining
  <2>8. KnowsOfJoining(r)'
    BY <1>1, <2>7, KnowsKept
  <2> QED
    BY <1>1, <1>2, <1>3, <2>7, <2>8, HandlerStep
<1>5. CASE m.pc = "publish"
  <2> DEFINE q == [m EXCEPT !.n = 0, !.row = NoRow]
  <2>1. Joined(h, q)
    BY <1>5 DEF PublishCount, At
  <2>3. /\ q \in Memory /\ q.pc = "publish" /\ q.u = m.u /\ q.op = m.op /\ q.tag = m.tag
        /\ q.doc = m.doc /\ q.row = NoRow /\ q.want = m.want /\ q.then = m.then /\ q.n = 0
    BY <1>0, <1>5, NoErrandFact DEF Memory
  <2> HIDE DEF m, q
  <2>4. HasDoc(q) /\ HasRead(q)
    BY <1>0, <2>3 DEF KnowsOfJoining, HasDoc, HasRead
  <2>5. Intends(q)
    BY <1>0, <1>5, <2>3 DEF Intends, Tagging, KnowsOfJoining, EditPlaces
  <2>6. OfTeam(q)
    BY <1>0, <1>5, <2>3, JoiningAssumption DEF OfTeam, KnowsOfJoining
  <2>7. /\ q.pc \notin {"load", "write"} /\ (q.op \in Edits => q.doc = 0 /\ q.then = "end")
        /\ (IsTeam => q.then = "end") /\ Keeping(q)
    BY <2>3, <2>4, <2>5, <2>6 DEF OfTeam, Intends, Keeping
  <2>8. PICK r \in Memory : /\ Hold(h, r) /\ r.u = q.u /\ r.row = q.row /\ r.pc # "save"
                            /\ r.doc = q.doc /\ (r.doc = 0 => r.pc # "settle")
                            /\ r.pc \notin {"sync", "publish"} /\ (r.pc # "end" => Keeping(r))
    BY <2>1, <2>3, <2>7, JoinedFacts
  <2>9. HasJoined(r)
    BY <1>0, <1>5, <2>3, <2>8, NoErrandFact DEF KnowsOfJoining, HasJoined
  <2>10. r.pc # "end" => KnowsOfJoining(r)'
    BY <1>1, <2>8, <2>9, KnowsKept DEF KnowsOfJoining, Keeping
  <2> QED
    BY <1>1, <1>2, <1>3, <2>8, <2>10, HandlerStep
<1> QED
  BY <1>0, <1>4, <1>5

(***************************************************************************)
(* Steps that write a row.                                                 *)
(***************************************************************************)
LEMMA RowStep ==
    ASSUME JoinIInv, NEW h \in JoinHandlers, NEW r \in Memory, Hold(h, r), OthersKeep,
           doc' = doc, seats' = seats, NEW u \in Everybody, NEW row \in MemberRows,
           memberRow' = [memberRow EXCEPT ![u] = row],
           joined' = (IF row.status = "active" THEN joined \cup {u} ELSE joined),
           blind' = blind \/ blind' = blind \cup {u},
           u \notin blind' =>
             row = memberRow[u] \/ (row # NoRow /\ (memberRow[u] = NoRow \/ memberRow[u].ver < row.ver)),
           r.pc # "end" => Keeping(r) /\ HasJoined(r)', SeatsSuffice'
    PROVE  JoinIInv'
<1>1. JoiningTypeOK /\ JoiningTypeOK' /\ blind' \subseteq Everybody
  BY DEF JoinIInv, JoiningTypeOK, OthersKeep, MemberRows, RowStatuses, Tags
<1>2. memberRow'[u] = row /\ \A v \in Everybody : v # u => memberRow'[v] = memberRow[v]
  BY DEF JoinIInv, JoiningTypeOK
<1>3. GoesOn
  BY <1>2 DEF GoesOn, OthersKeep
<1>4. r.pc # "end" => KnowsOfJoining(r)'
  BY <1>1, <1>3, RestKept DEF KnowsOfJoining, Keeping
<1>5. ActiveHasJoined' /\ AllowedHasJoined' /\ UsedDocs'
  BY <1>2 DEF JoinIInv, ActiveHasJoined, AllowedHasJoined, UsedDocs
<1> QED
  BY <1>1, <1>3, <1>4, <1>5, HandlerStep

LEMMA SaveStep == ASSUME JoinIInv, NEW h \in JoinHandlers, Save(h) PROVE JoinIInv'
<1> DEFINE m == errand[h]
           u == Me(h)
           lost == \/ m.row = NoRow /\ Mine(h) # NoRow
                   \/ m.op = "add" /\ Mine(h).ver # m.row.ver
           ver == IF m.row = NoRow THEN 0 ELSE m.row.ver + 1
           row == [status |-> IF "active" = m.row.status THEN memberRow[u].status ELSE "active",
                   tag |-> IF m.tag = m.row.tag THEN memberRow[u].tag ELSE m.tag, ver |-> ver]
<1>0. /\ m \in Memory /\ KnowsOfJoining(m) /\ m.pc = "save" /\ m.tag \in Tags /\ m.op \notin Edits
      /\ OthersKeep /\ doc' = doc /\ seats' = seats /\ u \in Everybody /\ u = m.u
      /\ m.row \in MemberRows /\ Mine(h) \in MemberRows /\ Mine(h) = memberRow[u] /\ At(h, "save")
  BY MemoryFacts DEF Save, At, KnowsOfJoining, Intends, Tagging, EditPlaces, Me, Memory
<1>1. CASE lost
  <2> DEFINE q == [m EXCEPT !.pc = "sync", !.doc = 0, !.then = "end"]
  <2>1. Reads /\ IF IsTeam THEN Hold(h, q) ELSE EndRequest(h)
    BY <1>0, <1>1 DEF Save, Reads, SameRows, OthersKeep
  <2>2. "sync" \in JoinPlaces
    BY DEF JoinPlaces
  <2>3. /\ q \in Memory /\ q.pc = "sync" /\ q.u = m.u /\ q.op = m.op /\ q.tag = m.tag
        /\ q.doc = 0 /\ q.row = m.row /\ q.want = m.want /\ q.then = "end"
    BY <1>0, <2>2 DEF Memory
  <2> HIDE DEF m, q, lost, row
  <2>4. HasDoc(q) /\ HasRead(q) /\ HasJoined(q) /\ OfTeam(q)
    BY <1>0, <2>3 DEF KnowsOfJoining, HasDoc, HasRead, HasJoined, OfTeam, InProjects
  <2>5. Intends(q)
    BY <1>0, <2>3 DEF Intends, Tagging, KnowsOfJoining
  <2>6. KnowsOfJoining(q) /\ q.pc # "save"
    BY <2>3, <2>4, <2>5 DEF KnowsOfJoining
  <2>7. CASE IsTeam
    BY <2>1, <2>3, <2>6, <2>7, ReadStep
  <2>8. CASE ~IsTeam
    BY <2>1, <2>8, EndStep
  <2> QED
    BY <2>7, <2>8
<1>2. CASE ~lost
  <2>1. /\ memberRow' = [memberRow EXCEPT ![u] = row]
        /\ joined' = (IF row.status = "active" THEN joined \cup {u} ELSE joined)
        /\ blind' = IF m.row.ver # Mine(h).ver THEN blind \cup {u} ELSE blind
        /\ IF IsTeam /\ m.row.status # "active" THEN GoTo(h, "sync") ELSE Joined(h, m)
    BY <1>2 DEF Save, SetRow
  <2>2. ver \in Nat /\ (m.row = NoRow => ver = 0) /\ (m.row # NoRow => ver = m.row.ver + 1)
    BY <1>0 DEF MemberRows
  <2>3. /\ row \in MemberRows /\ row.ver = ver
        /\ (m.row.status = "active" => row.status = memberRow[u].status)
        /\ (m.row.status # "active" => row.status = "active")
    <3>1. "active" \in RowStatuses
      BY DEF RowStatuses
    <3> HIDE DEF ver
    <3> QED
      BY <1>0, <2>2, <3>1 DEF MemberRows
  <2>4. m.row = NoRow => Mine(h) = NoRow
    BY <1>2
  <2> HIDE DEF lost, row, ver
  <2>5. u \notin blind' => row # NoRow /\ (memberRow[u] = NoRow \/ memberRow[u].ver < row.ver)
    <3>1. CASE m.row = NoRow
      BY <1>0, <2>3, <2>4, <3>1, NoErrandFact
    <3>2. CASE m.row # NoRow
      BY <1>0, <2>1, <2>2, <2>3, <3>2, NoErrandFact DEF MemberRows
    <3> QED
      BY <3>1, <3>2
  <2>6. blind' = blind \/ blind' = blind \cup {u}
    BY <2>1
  <2>7. memberRow'[u] = row /\ \A v \in Everybody : v # u => memberRow'[v] = memberRow[v]
    BY <1>0, <2>1 DEF JoinIInv, JoiningTypeOK
  <2>8. u \in joined'
    BY <1>0, <2>1, <2>3 DEF KnowsOfJoining, HasJoined
  <2>9. Keeping(m)
    BY <1>0 DEF Keeping, KnowsOfJoining
  <2>10. CASE IsTeam /\ m.row.status # "active"
    <3> DEFINE q == [m EXCEPT !.pc = "sync"]
    <3>1. Hold(h, q)
      BY <2>1, <2>10 DEF GoTo
    <3>2. "sync" \in JoinPlaces
      BY DEF JoinPlaces
    <3>3. /\ q \in Memory /\ q.pc = "sync" /\ q.u = m.u /\ q.op = m.op /\ q.tag = m.tag
          /\ q.doc = m.doc /\ q.row = m.row /\ q.want = m.want /\ q.then = m.then
      BY <1>0, <3>2 DEF Memory
    <3>4. HasDoc(q) /\ HasRead(q) /\ OfTeam(q)
      BY <1>0, <2>10, <3>3 DEF KnowsOfJoining, HasDoc, HasRead, OfTeam, InProjects
    <3>5. Intends(q)
      BY <1>0, <3>3 DEF Intends, Tagging, KnowsOfJoining
    <3>6. PICK r \in Memory : r = q
      BY <3>3
    <3>7. Keeping(r) /\ HasJoined(r)' /\ Hold(h, r) /\ r.pc # "save"
      BY <1>0, <2>8, <3>1, <3>3, <3>4, <3>5, <3>6 DEF Keeping, HasJoined
    <3>8. SeatsSuffice'
      <4>1. Holding' = Holding \ {h} /\ h \in Holding
        BY <1>0, <2>10, <3>7, Releases DEF Holding
      <4>2. Active' \subseteq Active \cup {u}
        BY <2>7 DEF Active
      <4>3. /\ IsFiniteSet(Active) /\ Cardinality(Active) \in Nat
            /\ IsFiniteSet(Holding) /\ Cardinality(Holding) \in Nat
        BY FiniteCounts
      <4>4. Cardinality(Holding') = Cardinality(Holding) - 1
        BY <4>1, <4>3, FS_RemoveElement
      <4>5. /\ IsFiniteSet(Active \cup {u})
            /\ \/ Cardinality(Active \cup {u}) = Cardinality(Active)
               \/ Cardinality(Active \cup {u}) = Cardinality(Active) + 1
        BY <4>3, FS_AddElement, Zenon
      <4>6. Cardinality(Active') \in Nat /\ Cardinality(Active') <= Cardinality(Active \cup {u})
        BY <4>2, <4>5, FS_Subset, FS_CardinalityType
      <4>7. seats \in Nat /\ kind' = kind /\ raced' = raced
        BY <1>0 DEF JoinIInv, JoiningTypeOK, OthersKeep
      <4> QED
        BY <1>0, <4>3, <4>4, <4>5, <4>6, <4>7 DEF JoinIInv, SeatsSuffice, IsTeam
    <3> HIDE DEF m, q
    <3> QED
      BY <1>0, <2>1, <2>3, <2>5, <2>6, <3>7, <3>8, RowStep
  <2>11. CASE Joined(h, m) /\ (~IsTeam \/ m.row.status = "active")
    <3>1. /\ m.pc \notin {"load", "write"} /\ (m.op \in Edits => m.doc = 0 /\ m.then = "end")
          /\ (IsTeam => m.then = "end")
      BY <1>0 DEF KnowsOfJoining, OfTeam
    <3>2. PICK r \in Memory : /\ Hold(h, r) /\ r.u = m.u /\ r.row = m.row /\ r.pc # "save"
                              /\ (r.pc # "end" => Keeping(r))
      BY <1>0, <2>9, <2>11, <3>1, JoinedFacts
    <3>3. HasJoined(r)'
      BY <1>0, <2>8, <3>2 DEF HasJoined
    <3>4. SeatsSuffice'
      <4>1. CASE ~IsTeam
        BY <1>0, <4>1 DEF SeatsSuffice, IsTeam, OthersKeep
      <4>2. CASE IsTeam
        <5>1. Active' = Active
          BY <2>3, <2>7, <2>11, <4>2 DEF Active
        <5> QED
          BY <1>0, <3>2, <5>1, SeatsKept DEF OthersKeep
      <4> QED
        BY <4>1, <4>2
    <3> HIDE DEF m
    <3> QED
      BY <1>0, <2>1, <2>3, <2>5, <2>6, <3>2, <3>3, <3>4, RowStep
  <2> QED
    BY <2>1, <2>10, <2>11
<1> QED
  BY <1>1, <1>2

\* What a handler that writes under the version read finds, and leaves.
SameVersion(h) == IF errand[h].row = NoRow THEN Mine(h) = NoRow ELSE Mine(h).ver = errand[h].row.ver

LEMMA WrittenFacts ==
    ASSUME JoinIInv, NEW h \in JoinHandlers, WriteRow(h), SameVersion(h)
    PROVE  \E row \in MemberRows :
             /\ memberRow' = [memberRow EXCEPT ![Me(h)] = row] /\ blind' = blind
             /\ joined' = (IF row.status = "active" THEN joined \cup {Me(h)} ELSE joined)
             /\ row.status = IF errand[h].want = errand[h].row.status THEN Mine(h).status ELSE errand[h].want
             /\ Me(h) \notin blind =>
                  row = Mine(h) \/ (row # NoRow /\ (Mine(h) = NoRow \/ Mine(h).ver < row.ver))
<1> DEFINE m == errand[h]
           u == Me(h)
           ver == IF m.row = NoRow THEN 0 ELSE m.row.ver + 1
           row == [status |-> IF m.want = m.row.status THEN memberRow[u].status ELSE m.want,
                   tag |-> IF m.tag = m.row.tag THEN memberRow[u].tag ELSE m.tag, ver |-> ver]
<1>0. /\ m \in Memory /\ KnowsOfJoining(m) /\ m.pc = "write" /\ m.tag \in Tags /\ m.want \in RowStatuses
      /\ u \in Everybody /\ m.row \in MemberRows /\ Mine(h) \in MemberRows /\ Mine(h) = memberRow[u]
  BY MemoryFacts DEF WriteRow, At, KnowsOfJoining, Intends, Tagging, Me, Memory
<1>1. /\ memberRow' = [memberRow EXCEPT ![u] = row] /\ blind' = blind
      /\ joined' = (IF row.status = "active" THEN joined \cup {u} ELSE joined)
  BY DEF WriteRow, SetRow, SameVersion
<1>2. ver \in Nat /\ (m.row # NoRow => ver = m.row.ver + 1)
  BY <1>0 DEF MemberRows
<1>3. /\ row \in MemberRows /\ row.ver = ver
      /\ row.status = IF m.want = m.row.status THEN memberRow[u].status ELSE m.want
  BY <1>0, <1>2 DEF MemberRows
<1>4. row = Mine(h) \/ (row # NoRow /\ (Mine(h) = NoRow \/ Mine(h).ver < row.ver))
  <2> HIDE DEF row, ver
  <2>1. CASE m.row = NoRow
    BY <2>1 DEF SameVersion
  <2>2. CASE m.row # NoRow
    BY <1>0, <1>2, <1>3, <2>2, NoErrandFact DEF SameVersion, MemberRows
  <2> QED
    BY <2>1, <2>2
<1> HIDE DEF row
<1> QED
  BY <1>0, <1>1, <1>3, <1>4

LEMMA WriteStep == ASSUME JoinIInv, NEW h \in JoinHandlers, WriteRow(h) PROVE JoinIInv'
<1> DEFINE m == errand[h]
           u == Me(h)
           next == IF m.op \in {"update", "aliases", "remove", "retag"}
                   THEN IF m.op = "remove" /\ IsTeam /\ SameVersion(h) THEN "sync" ELSE "end"
                   ELSE After(h)
           q == [m EXCEPT !.pc = next, !.want = "none", !.row = NoRow]
<1>0. /\ m \in Memory /\ KnowsOfJoining(m) /\ m.pc = "write" /\ m.tag \in Tags /\ m.want \in RowStatuses
      /\ OthersKeep /\ doc' = doc /\ seats' = seats /\ u \in Everybody /\ u = m.u
      /\ m.row \in MemberRows /\ Mine(h) \in MemberRows /\ Mine(h) = memberRow[u]
  BY MemoryFacts DEF WriteRow, At, KnowsOfJoining, Intends, Tagging, Me, Memory
<1>1. Hold(h, q)
  BY DEF WriteRow, SameVersion
<1>2. /\ next \in {"sync", "erase", "end", "refetch", "dropApp", "dropInv"}
      /\ next = "sync" => m.op = "remove"
      /\ m.op \in Edits => next \in {"sync", "end"}
      /\ IsTeam => next \in {"sync", "end"}
  <2>1. After(h) \in {"erase", "end", "refetch", "dropApp", "dropInv"}
    BY <1>0 DEF After, Memory
  <2>2. IsTeam => m.op \in Edits
    BY <1>0 DEF KnowsOfJoining, OfTeam
  <2> HIDE DEF m
  <2>3. CASE m.op \in {"update", "aliases", "remove", "retag"}
    BY <2>3
  <2>4. CASE m.op \notin {"update", "aliases", "remove", "retag"}
    <3>1. m.op \notin Edits
      BY <2>4 DEF Edits
    <3> QED
      BY <2>1, <2>2, <2>4, <3>1
  <2> QED
    BY <2>3, <2>4
<1>3. next \in JoinPlaces /\ "none" \in Tags /\ NoRow \in MemberRows
  BY <1>2, NoErrandFact DEF JoinPlaces, Tags
<1> HIDE DEF next
<1>4. /\ q \in Memory /\ q.pc = next /\ q.u = m.u /\ q.op = m.op /\ q.tag = m.tag
      /\ q.doc = m.doc /\ q.row = NoRow /\ q.want = "none" /\ q.then = m.then
  BY <1>0, <1>3 DEF Memory
<1> HIDE DEF m, q
<1>5. HasDoc(q) /\ HasRead(q)
  BY <1>0, <1>4 DEF KnowsOfJoining, HasDoc, HasRead
<1>6. HasJoined(q)
  BY <1>0, <1>2, <1>4, NoErrandFact DEF KnowsOfJoining, Intends, Edits, HasJoined
<1>7. q.pc # "end" => Intends(q)
  <2>1. q.pc \notin Tagging /\ q.pc \notin {"invite", "newinv", "edit", "reuse", "load", "write"}
    BY <1>2, <1>4 DEF Tagging
  <2>2. q.pc # "end" /\ q.op \in Edits => q.pc \in EditPlaces /\ q.doc = 0 /\ q.then = "end"
    BY <1>0, <1>2, <1>4 DEF KnowsOfJoining, Intends, EditPlaces
  <2> QED
    BY <1>3, <1>4, <2>1, <2>2 DEF Intends
<1>8. OfTeam(q)
  BY <1>0, <1>2, <1>4 DEF KnowsOfJoining, OfTeam, InProjects
<1>9. PICK r \in Memory : r = q
  BY <1>4
<1>10. /\ Hold(h, r) /\ r.pc # "save" /\ (r.pc # "end" => KnowsOfJoining(r) /\ Keeping(r)) /\ r.row = NoRow
       /\ r.pc # "settle" /\ (r.pc = "sync" => r.doc = 0) /\ r.pc # "publish"
  <2>1. r.pc = "sync" => r.doc = 0
    BY <1>0, <1>2, <1>4, <1>9 DEF KnowsOfJoining, Intends, Edits
  <2> QED
    BY <1>1, <1>2, <1>4, <1>5, <1>6, <1>7, <1>8, <1>9, <2>1 DEF KnowsOfJoining, Keeping
<1>11. CASE ~SameVersion(h)
  <2>1. Reads
    BY <1>0, <1>11 DEF WriteRow, SameVersion, Reads, SameRows, OthersKeep
  <2> QED
    BY <1>10, <2>1, ReadStep
<1>12. CASE SameVersion(h)
  <2>1. PICK row \in MemberRows :
          /\ memberRow' = [memberRow EXCEPT ![u] = row] /\ blind' = blind
          /\ joined' = (IF row.status = "active" THEN joined \cup {u} ELSE joined)
          /\ row.status = IF m.want = m.row.status THEN Mine(h).status ELSE m.want
          /\ u \notin blind => row = Mine(h) \/ (row # NoRow /\ (Mine(h) = NoRow \/ Mine(h).ver < row.ver))
    BY <1>12, WrittenFacts DEF m
  <2>2. HasJoined(r)'
    BY <1>10, NoErrandFact DEF HasJoined
  <2>3. SeatsSuffice'
    <3>1. CASE ~IsTeam
      BY <1>0, <3>1 DEF SeatsSuffice, IsTeam, OthersKeep
    <3>2. CASE IsTeam
      <4>1. memberRow'[u] = row /\ \A v \in Everybody : v # u => memberRow'[v] = memberRow[v]
        BY <1>0, <2>1 DEF JoinIInv, JoiningTypeOK
      <4>2. row.status = memberRow[u].status \/ row.status = "removed"
        BY <1>0, <2>1, <3>2 DEF KnowsOfJoining, OfTeam, Intends, Edits
      <4>3. Active' \subseteq Active
        BY <4>1, <4>2 DEF Active
      <4>4. Cardinality(Active') <= Cardinality(Active) /\ Cardinality(Active') \in Nat
        BY <4>3, FiniteCounts, FS_Subset, FS_CardinalityType
      <4>5. Cardinality(Holding') <= Cardinality(Holding) /\ Holding' = Holding \ {h}
        BY <1>10, Releases
      <4>6. Cardinality(Holding') \in Nat
        BY <4>5, FiniteCounts, FS_Subset, FS_CardinalityType
      <4>7. /\ seats \in Nat /\ kind' = kind /\ raced' = raced
            /\ Cardinality(Active) \in Nat /\ Cardinality(Holding) \in Nat
        BY <1>0, FiniteCounts DEF JoinIInv, JoiningTypeOK, OthersKeep
      <4> QED
        BY <1>0, <4>4, <4>5, <4>6, <4>7 DEF JoinIInv, SeatsSuffice, IsTeam
    <3> QED
      BY <3>1, <3>2
  <2> QED
    BY <1>0, <1>10, <2>1, <2>2, <2>3, RowStep
<1> QED
  BY <1>11, <1>12

(***************************************************************************)
(* The invariant.                                                          *)
(***************************************************************************)
LEMMA DeathStep == ASSUME JoinIInv, NEW h \in JoinHandlers, HandlerDies(h) PROVE JoinIInv'
<1>0. /\ UNCHANGED <<kind, memberRow, seats, doc, begun, joined, raced, blind>> /\ Hold(h, NoErrand)
      /\ deaths' = deaths + 1 /\ deaths < MaxDeaths
  BY DEF HandlerDies, EndRequest
<1>1. JoiningTypeOK /\ JoiningTypeOK' /\ blind' \subseteq Everybody /\ GoesOn
  BY <1>0, JoiningAssumption DEF JoinIInv, JoiningTypeOK, GoesOn
<1>2. ActiveHasJoined' /\ AllowedHasJoined' /\ UsedDocs'
  BY <1>0 DEF JoinIInv, ActiveHasJoined, AllowedHasJoined, UsedDocs
<1>3. KnowsOfJoining(NoErrand)'
  BY <1>1, NoErrandFact, NoErrandKnows, KnowsKept
<1>4. SeatsSuffice'
  BY <1>0, NoErrandFact, SeatsKept DEF Active
<1>5. PICK r \in Memory : r = NoErrand
  BY NoErrandFact
<1>6. Hold(h, r) /\ KnowsOfJoining(r)'
  BY <1>0, <1>3, <1>5, NoErrandFact DEF KnowsOfJoining, HasDoc, HasJoined, HasRead, Intends, OfTeam
<1> QED
  BY <1>1, <1>2, <1>4, <1>6, HandlerStep

LEMMA JoinInitInv == JoinInit => JoinIInv
<1> SUFFICES ASSUME JoinInit PROVE JoinIInv
  OBVIOUS
<1>1. JoiningTypeOK /\ blind \subseteq Everybody /\ seats = 1
  <2>1. memberRow \in [Everybody -> MemberRows]
    <3>1. [status |-> "active", tag |-> "creator", ver |-> 0] \in MemberRows
      BY DEF MemberRows, RowStatuses, Tags
    <3> QED
      BY <3>1, NoErrandFact DEF JoinInit
  <2>2. NoDoc \in DocRecords
    BY DEF NoDoc, DocRecords, Everybody
  <2> QED
    BY <2>1, <2>2, JoiningAssumption
       DEF JoinInit, JoiningTypeOK, MemberRows, RowStatuses, Tags, DocRecords, Everybody
<1>2. errand \in [JoinHandlers -> Memory] /\ \A h \in JoinHandlers : errand[h] = NoErrand
  BY NoErrandFact DEF JoinInit
<1>3. \A h \in JoinHandlers : KnowsOfJoining(errand[h])
  BY <1>2, NoErrandKnows
<1>4. ActiveHasJoined /\ AllowedHasJoined /\ UsedDocs
  BY DEF JoinInit, ActiveHasJoined, AllowedHasJoined, UsedDocs, NoDoc, NoRow, Everybody
<1>5. SeatsSuffice
  <2>1. Active = {Creator}
    BY DEF JoinInit, Active, NoRow, Everybody
  <2>2. Holding = {}
    BY <1>2, NoErrandFact DEF Holding, At
  <2>3. Cardinality(Active) = 1 /\ Cardinality(Holding) = 0
    BY <2>1, <2>2, FS_Singleton, FS_EmptySet
  <2> QED
    BY <1>1, <2>3, JoiningAssumption DEF SeatsSuffice
<1> QED
  BY <1>1, <1>2, <1>3, <1>4, <1>5 DEF JoinIInv

LEMMA StepsKeep == ASSUME JoinIInv, NEW h \in JoinHandlers, Steps(h) PROVE JoinIInv'
BY ReuseSteps, AfterStep, InviteStep, NewInvitationStep, ApplyStep, NewApplicationStep, DropStep,
   CaptureStep, JoinStep, AddStep, SaveStep, SettleStep, ReserveStep, CountStep, PublishStep,
   EditStep, DenyStep, UnprojectStep, EraseStep, RetagStep, LoadRowStep, WriteStep DEF Steps

LEMMA JoinIInvKept == JoinIInv /\ [JoinNext]_joinVars => JoinIInv'
<1> SUFFICES ASSUME JoinIInv, [JoinNext]_joinVars PROVE JoinIInv'
  OBVIOUS
<1>1. CASE JoinNext
  BY <1>1, RequestSteps, StepsKeep, DeathStep DEF JoinNext
<1>2. CASE UNCHANGED joinVars
  BY <1>2 DEF joinVars, JoinIInv, JoiningTypeOK, KnowsOfJoining, HasDoc, HasJoined, HasRead, Intends, OfTeam,
              IsTeam, ActiveHasJoined, AllowedHasJoined, UsedDocs, SeatsSuffice, Active, Holding, At
<1> QED
  BY <1>1, <1>2

LEMMA JoinIInvHolds == JoinSpec => []JoinIInv
<1>1. JoinInit => JoinIInv
  BY JoinInitInv
<1>2. JoinIInv /\ [JoinNext]_joinVars => JoinIInv'
  BY JoinIInvKept
<1> QED
  BY <1>1, <1>2, PTL DEF JoinSpec

\* Invitations and applications are well typed, one on record as allowed has
\* a user who has joined, and a team has no more members than max_user unless
\* a count has been published that lacked somebody with a seat: for any users,
\* handlers and seats, and any requests and deaths.
THEOREM JoiningHolds == JoinSpec => []JoiningInv
<1>1. JoinIInv => JoiningInv
  <2> SUFFICES ASSUME JoinIInv PROVE JoiningInv
    OBVIOUS
  <2>1. WithinCapacity
    <3>1. Cardinality(Active) \in Nat /\ Cardinality(Holding) \in Nat
      BY FiniteCounts
    <3>2. seats \in Nat /\ MaxSeats \in Nat
      BY JoiningAssumption DEF JoinIInv, JoiningTypeOK
    <3> QED
      BY <3>1, <3>2 DEF JoinIInv, SeatsSuffice, WithinCapacity
  <2> QED
    BY <2>1 DEF JoinIInv, JoiningInv
<1> QED
  BY <1>1, JoinIInvHolds, PTL

(***************************************************************************)
(* Who leaves.                                                             *)
(***************************************************************************)
Loses(u) == memberRow[u].status = "active" /\ memberRow'[u].status # "active"

LEMMA OnlyRowsChange ==
    ASSUME NEW h \in JoinHandlers, Requests(h) \/ Steps(h) \/ HandlerDies(h), ~Save(h), ~WriteRow(h)
    PROVE  memberRow' = memberRow
<1>1. CASE Requests(h)
  BY <1>1 DEF Requests, Apply, InviteWithTags, EditAliases, RemoveMember, InviteUser, AddMember,
              UpdateMember, AnswerDoc, Cancel, Retag, Begin
<1>2. CASE HandlerDies(h)
  BY <1>2 DEF HandlerDies
<1>3. CASE Steps(h)
  BY <1>3 DEF Steps, LookReuse, Refetch, LookAfter, LookInvite, NewInvitation, LookApply,
              NewApplication, DropOld, Capture, JoinGroup, LookAdd, Settle, Reserve, Count,
              PublishCount, Edit, Deny, Unproject, EraseDoc, LookRetag, LoadRow, Reads, SameRows
<1> QED
  BY <1>1, <1>2, <1>3

LEMMA NobodyLosesBySave ==
    ASSUME JoinIInv, NEW h \in JoinHandlers, Save(h), NEW u \in Joiners PROVE ~Loses(u)
<1> DEFINE m == errand[h]
<1>1. CASE memberRow' = memberRow
  BY <1>1 DEF Loses
<1>2. ASSUME NEW ver, SetRow(Me(h), m.row, "active", m.tag, ver) PROVE ~Loses(u)
  <2>1. Me(h) \in Everybody /\ u \in Everybody
    BY MemoryFacts DEF Everybody
  <2> DEFINE row == [status |-> IF "active" = m.row.status THEN memberRow[Me(h)].status ELSE "active",
                     tag |-> IF m.tag = m.row.tag THEN memberRow[Me(h)].tag ELSE m.tag, ver |-> ver]
  <2>2. memberRow' = [memberRow EXCEPT ![Me(h)] = row]
    BY <1>2 DEF SetRow
  <2>3. row.status \in {memberRow[Me(h)].status, "active"}
    OBVIOUS
  <2> HIDE DEF row
  <2> QED
    BY <2>1, <2>2, <2>3 DEF Loses, JoinIInv, JoiningTypeOK
<1> QED
  BY <1>1, <1>2 DEF Save, SameRows

LEMMA OnlyRemoved ==
    ASSUME JoinIInv, NEW h \in JoinHandlers, WriteRow(h), NEW u \in Joiners \ blind, Loses(u)
    PROVE  errand[h].op = "remove" /\ Me(h) = u
<1> DEFINE m == errand[h]
<1>0. /\ m \in Memory /\ KnowsOfJoining(m) /\ m.pc = "write" /\ Me(h) \in Everybody /\ Me(h) = m.u
      /\ m.row \in MemberRows /\ Mine(h) \in MemberRows /\ Mine(h) = memberRow[Me(h)] /\ u \in Everybody
  BY MemoryFacts DEF WriteRow, At, Me, Memory, Everybody
<1>1. SameVersion(h)
  <2>1. memberRow' # memberRow
    BY DEF Loses
  <2> QED
    BY <2>1 DEF WriteRow, SameVersion, SameRows
<1>2. PICK row \in MemberRows :
        /\ memberRow' = [memberRow EXCEPT ![Me(h)] = row]
        /\ row.status = IF m.want = m.row.status THEN Mine(h).status ELSE m.want
  BY <1>1, WrittenFacts
<1>3. Me(h) = u /\ row.status # "active" /\ Mine(h).status = "active"
  BY <1>0, <1>2 DEF Loses, JoinIInv, JoiningTypeOK
<1>4. m.want # m.row.status /\ m.want # "active"
  BY <1>2, <1>3
<1>5. m.op \notin {"update", "aliases"}
  BY <1>0, <1>4 DEF KnowsOfJoining, Intends
<1>6. ASSUME m.op \notin Edits PROVE FALSE
  <2>1. m.row.status # "active"
    BY <1>0, <1>4, <1>6 DEF KnowsOfJoining, Intends
  <2>2. m.row # NoRow
    BY <1>0, <1>1, <1>3, NoErrandFact DEF SameVersion
  <2>3. m.row = Mine(h)
    BY <1>0, <1>1, <1>3, <2>2 DEF SameVersion, KnowsOfJoining, HasRead
  <2> QED
    BY <1>3, <2>1, <2>3
<1> QED
  BY <1>3, <1>5, <1>6 DEF Edits

\* No projection that was decided before a user joined turns him from an
\* active member into an invited or a removed one: but by a removal of the
\* user nobody ever stops being a member, unless his row has been saved over a
\* version that was not read.
THEOREM NobodyDowngraded == JoinSpec => NeverDowngraded
<1> DEFINE Spared == \A u \in Joiners \ blind :
             memberRow[u].status = "active" /\ memberRow'[u].status # "active"
               => \E h \in JoinHandlers : errand[h].op = "remove" /\ Me(h) = u
<1>1. JoinIInv /\ [JoinNext]_joinVars => Spared \/ UNCHANGED joinVars
  <2> SUFFICES ASSUME JoinIInv, JoinNext, NEW u \in Joiners \ blind, Loses(u)
               PROVE  \E h \in JoinHandlers : errand[h].op = "remove" /\ Me(h) = u
    BY DEF Loses
  <2>1. PICK h \in JoinHandlers : Requests(h) \/ Steps(h) \/ HandlerDies(h)
    BY DEF JoinNext
  <2>2. Save(h) \/ WriteRow(h)
    BY <2>1, OnlyRowsChange DEF Loses
  <2>3. WriteRow(h)
    BY <2>2, NobodyLosesBySave
  <2> QED
    BY <2>3, OnlyRemoved
<1> HIDE DEF Spared
<1>2. JoinSpec => [][Spared]_joinVars
  BY <1>1, JoinIInvHolds, PTL DEF JoinSpec
<1> QED
  BY <1>2 DEF NeverDowngraded, Spared
=============================================================================
