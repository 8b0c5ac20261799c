---------------------------- MODULE Notifications ----------------------------
(***************************************************************************)
(* One notification of src/app/services/notifications.py from its          *)
(* submission to the last e-mail, as notification_scan of                  *)
(* src/app/tasks/notification.py carries it out.                           *)
(*                                                                         *)
(* A scan leases the notification, seals the list of its recipients chunk  *)
(* by chunk, gives every recipient a receipt and a delivery, and publishes *)
(* it.  Deliveries are leased one by one and handed to the mail server.    *)
(* Scans overlap, die and stall; the author edits, moderators revoke,      *)
(* members come and go.                                                    *)
(***************************************************************************)
EXTENDS Naturals, Sequences, FiniteSets

CONSTANTS
  UserCount,    \* users, numbered in the order of their ids
  Scanners,     \* processes running notification_scan
  NoOne,        \* the empty lease token
  BatchSize,    \* BATCH: recipients per chunk
  ChunkBudget,  \* chunks prepared, and chunks fanned out, per dispatch
  MaxAttempts,  \* attempts before a delivery fails
  MaxVersion,   \* bound: edits and revocations of the notification
  MaxCrashes,   \* bound: scanners killed
  Email,        \* the notification asks for e-mail
  Events        \* the EventKinds that may happen

\* stall: a lease runs out under a process that is still at work;
\* late: a schedule is found more than an hour overdue;
\* smtp: the mail server answers anything but acceptance;
\* busy: the mail server turns a message away for the time being;
\* moves: users cease to be recipients and become recipients again;
\* lapse: the author loses the permission, the notification expires;
\* edit, revoke: the author edits it, somebody revokes it.
EventKinds ==
  {"stall", "late", "smtp", "busy", "moves", "lapse", "edit", "revoke"}

ASSUME SizeAssumption ==
  /\ UserCount \in Nat /\ BatchSize \in Nat \ {0} /\ ChunkBudget \in Nat \ {0}
  /\ MaxAttempts \in Nat \ {0} /\ MaxVersion \in Nat /\ MaxCrashes \in Nat
  /\ Email \in BOOLEAN /\ Events \subseteq EventKinds
ASSUME TokenAssumption == NoOne \notin Scanners

Users == 1..UserCount

VARIABLES
  note,        \* the Notification document
  chunks,      \* its NotificationAudienceChunk documents, by number
  receipts,    \* users with a NotificationReceipt
  delivery,    \* NotificationDelivery per user
  scanner,     \* what each scanning process is doing
  revoking,    \* how far the revocation request has got
  members,     \* users who may receive the notification now
  steady,      \* users who have been recipients ever since it was submitted
  lapsed,      \* what has lapsed: its term, the author's permission
  mails,       \* messages the mail server has accepted, per user
  crashes      \* scanners killed so far

audienceVars == <<members, steady, lapsed>>
fanoutVars   == <<chunks, receipts>>
vars == <<note, fanoutVars, delivery, scanner, revoking, audienceVars, mails,
          crashes>>

-----------------------------------------------------------------------------
States    == {"draft", "scheduled", "preparing", "dispatching", "published",
              "cancelled"}
Scannable == {"scheduled", "preparing", "dispatching"}
Live      == {"dispatching", "published"}
Waiting   == {"pending", "retry_wait"}
Final     == {"accepted", "skipped", "failed", "unknown", "cancelled"}
Dispatch  == {"audit", "gate", "list", "chunk", "checkpoint", "open", "fan",
              "receipt", "delivery", "publish", "release"}
Sending   == {"check", "send", "record"}

\* What a process knows: its copy of the document and its place in the loops.
Idle == [pc |-> "idle", state |-> "draft", audience |-> {}, cursor |-> 0,
         next |-> 0, budget |-> 0, valid |-> {}, todo |-> {}, left |-> {},
         user |-> 0, outcome |-> "cancelled"]

NoDelivery == [state |-> "none", attempts |-> 0, token |-> NoOne,
               leased |-> FALSE]

\* The first BATCH members of the list.
FirstBatch(S) == {u \in S : Cardinality({v \in S : v < u}) < BatchSize}

\* The order in which lists are walked through.
IsFirst(x, S) == x \in S /\ \A y \in S : x <= y
IsLast(x, S)  == x \in S /\ \A y \in S : x >= y

\* guard(): the document, if this process holds its lease and it is not revoked.
Bug_GuardForgetsRevocation(s) == note.token = s
Guard(s) == note.token = s /\ ~note.revoked

Goto(s, pc) == scanner' = [scanner EXCEPT ![s].pc = pc]

\* The process leaves dispatch(); what it knew is forgotten.
Return(s) == scanner' = [scanner EXCEPT ![s] = [Idle EXCEPT !.pc = "release"]]
SetState(state) == note' = [note EXCEPT !.state = state]

\* guard().filter(...).update_one(set__state=...).
GuardedState(s, holds, state) ==
  IF Guard(s) /\ holds THEN SetState(state) ELSE UNCHANGED note

Init ==
  /\ members = Users
  /\ \E audience \in SUBSET Users \ {{}},
        state \in {"draft", "scheduled", "preparing"} :
       /\ note = [state |-> state, revoked |-> FALSE, version |-> 0,
                  audience |-> audience, cursor |-> 0, next |-> 0, count |-> 0,
                  audited |-> FALSE, moderated |-> FALSE, token |-> NoOne,
                  leased |-> FALSE]
       /\ steady = audience
  /\ chunks = <<>>
  /\ receipts = {}
  /\ delivery = [u \in Users |-> NoDelivery]
  /\ scanner = [s \in Scanners |-> Idle]
  /\ revoking = "no"
  /\ lapsed = {}
  /\ mails = [u \in Users |-> 0]
  /\ crashes = 0

-----------------------------------------------------------------------------
(* The author, the moderator and the audience                              *)

\* publish() after the insert: the audit entry and its flag.  The process may
\* die before it, so this may never happen.
AuditSubmission ==
  /\ ~note.audited
  /\ note' = [note EXCEPT !.audited = TRUE]
  /\ UNCHANGED <<fanoutVars, delivery, scanner, revoking, audienceVars, mails,
                 crashes>>

Bug_EditAnytime == note.state \in {"draft", "scheduled"}
Editable == note.state \in {"draft", "scheduled"} /\ ~note.leased

\* edit_draft: content, audience and state are replaced together, when nobody
\* has the notification on lease.  The request names the version it has seen;
\* one with an older version changes nothing.
EditDraft(audience, state) ==
  /\ "edit" \in Events
  /\ Editable /\ ~note.revoked
  /\ note.version < MaxVersion
  /\ audience \cap members # {}
  /\ note' = [note EXCEPT !.audience = audience, !.state = state,
                          !.version = @ + 1]
  /\ steady' = audience \cap members
  /\ UNCHANGED <<fanoutVars, delivery, scanner, revoking, members, lapsed,
                 mails, crashes>>

\* revoke(), in its three writes.
Revoke ==
  /\ "revoke" \in Events
  /\ ~note.revoked
  /\ note.version < MaxVersion
  /\ note' = [note EXCEPT !.revoked = TRUE, !.state = "cancelled",
                          !.moderated = FALSE, !.version = @ + 1]
  /\ revoking' = "audit"
  /\ UNCHANGED <<fanoutVars, delivery, scanner, audienceVars, mails, crashes>>

AuditRevocation ==
  /\ revoking = "audit"
  /\ note' = [note EXCEPT !.moderated = TRUE]
  /\ revoking' = "cancel"
  /\ UNCHANGED <<fanoutVars, delivery, scanner, audienceVars, mails, crashes>>

CancelDeliveries ==
  /\ revoking = "cancel"
  /\ delivery' = [u \in Users |->
       IF delivery[u].state \in Waiting
       THEN [delivery[u] EXCEPT !.state = "cancelled"] ELSE delivery[u]]
  /\ revoking' = "no"
  /\ UNCHANGED <<note, fanoutVars, scanner, audienceVars, mails, crashes>>

\* The request dies between two writes.
RevocationDies ==
  /\ revoking # "no"
  /\ revoking' = "no"
  /\ UNCHANGED <<note, fanoutVars, delivery, scanner, audienceVars, mails,
                 crashes>>

\* Bound: one recipient leaves, once, and may come back, or something lapses.
Leave(u) ==
  /\ "moves" \in Events
  /\ members = Users /\ steady = note.audience /\ u \in steady /\ lapsed = {}
  /\ members' = members \ {u} /\ steady' = steady \ {u}
  /\ UNCHANGED <<note, fanoutVars, delivery, scanner, revoking, lapsed,
                 mails, crashes>>

Join(u) ==
  /\ "moves" \in Events
  /\ u \in Users \ members
  /\ members' = members \cup {u}
  /\ UNCHANGED <<note, fanoutVars, delivery, scanner, revoking, steady,
                 lapsed, mails, crashes>>

\* Bound: one of the two lapses, or a recipient has left.
Lapse(what) ==
  /\ "lapse" \in Events /\ steady = note.audience
  /\ lapsed = {}
  /\ lapsed' = {what}
  /\ UNCHANGED <<note, fanoutVars, delivery, scanner, revoking, members,
                 steady, mails, crashes>>

-----------------------------------------------------------------------------
(* dispatch()                                                              *)

\* The claim returns the document as it is then.  A schedule is claimed once
\* it is due.
Claim(s) ==
  /\ scanner[s].pc = "idle"
  /\ note.state \in Scannable /\ ~note.revoked /\ ~note.leased
  /\ note' = [note EXCEPT !.token = s, !.leased = TRUE]
  /\ scanner' = [scanner EXCEPT ![s] =
       [Idle EXCEPT !.pc = "audit", !.state = note.state,
                    !.audience = note.audience, !.cursor = note.cursor,
                    !.next = note.next, !.budget = ChunkBudget]]
  /\ UNCHANGED <<fanoutVars, delivery, revoking, audienceVars, mails, crashes>>

\* A dispatch writes the audit entry when the request has not.
PublicationAudited == TRUE

AuditPublication(s) ==
  /\ scanner[s].pc = "audit"
  /\ note' = [note EXCEPT !.audited = PublicationAudited]
  /\ Goto(s, "gate")
  /\ UNCHANGED <<fanoutVars, delivery, revoking, audienceVars, mails, crashes>>

\* An expired notification is cancelled, a late one goes back to its author, a
\* scheduled one becomes preparing.  Whether the last update did anything is
\* not looked at.
Gate(s) ==
  /\ scanner[s].pc = "gate"
  /\ \/ /\ "expired" \in lapsed
        /\ GuardedState(s, TRUE, "cancelled")
        /\ Return(s)
     \/ /\ "expired" \notin lapsed
        /\ scanner[s].state = "scheduled" /\ "late" \in Events
        /\ GuardedState(s, TRUE, "draft")
        /\ Return(s)
     \/ /\ "expired" \notin lapsed /\ scanner[s].state = "scheduled"
        /\ GuardedState(s, TRUE, "preparing")
        /\ scanner' = [scanner EXCEPT ![s] =
                         [@ EXCEPT !.pc = "list", !.state = "preparing"]]
     \/ /\ "expired" \notin lapsed /\ scanner[s].state # "scheduled"
        /\ Goto(s, "list")
        /\ UNCHANGED note
  /\ UNCHANGED <<fanoutVars, delivery, revoking, audienceVars, mails, crashes>>

\* author_allowed and recipient_ids.  An audience that has outgrown the limit,
\* which recipient_ids refuses to the same end, is left out.
ListRecipients(s) ==
  /\ scanner[s].pc = "list"
  /\ IF "author" \notin lapsed
     THEN /\ scanner' = [scanner EXCEPT ![s] =
               [@ EXCEPT !.pc = IF scanner[s].state = "preparing"
                                THEN "chunk" ELSE "open",
                         !.audience = {},
                         !.valid = members \cap scanner[s].audience]]
          /\ UNCHANGED note
     ELSE /\ GuardedState(s, TRUE, "cancelled")
          /\ Return(s)
  /\ UNCHANGED <<fanoutVars, delivery, revoking, audienceVars, mails, crashes>>

Beyond(s) == {u \in scanner[s].valid : u > scanner[s].cursor}

\* The chunk at this process's checkpoint: found, inserted, or not needed.  The
\* insert asks neither for the lease nor for the state.
SaveChunk(s) ==
  /\ scanner[s].pc = "chunk"
  /\ IF scanner[s].next < Len(chunks) \/ Beyond(s) # {}
     THEN /\ chunks' = IF scanner[s].next < Len(chunks) THEN chunks
                       ELSE Append(chunks, [users |-> FirstBatch(Beyond(s)),
                                            done |-> FALSE])
          /\ Goto(s, "checkpoint")
          /\ UNCHANGED note
     ELSE /\ GuardedState(s, note.state = "preparing", "dispatching")
          /\ IF Guard(s) /\ note.state = "preparing"
             THEN Goto(s, "open") ELSE Return(s)
          /\ UNCHANGED chunks
  /\ UNCHANGED <<receipts, delivery, revoking, audienceVars, mails, crashes>>

\* The checkpoint moves past the chunk that is stored, whoever stored it.
AdvanceCheckpoint(s) ==
  LET saved == chunks[scanner[s].next + 1].users IN
  /\ scanner[s].pc = "checkpoint"
  /\ IF Guard(s) /\ note.state = "preparing" /\ note.next = scanner[s].next
     THEN \E last \in Users :
          /\ IsLast(last, saved)
          /\ note' = [note EXCEPT !.cursor = last, !.next = @ + 1,
                                  !.count = @ + Cardinality(saved)]
          /\ IF scanner[s].budget <= 1 THEN Return(s)
             ELSE scanner' = [scanner EXCEPT ![s] =
                    [@ EXCEPT !.pc = "chunk", !.cursor = last,
                              !.next = scanner[s].next + 1,
                              !.budget = scanner[s].budget - 1]]
     ELSE Return(s) /\ UNCHANGED note
  /\ UNCHANGED <<fanoutVars, delivery, revoking, audienceVars, mails, crashes>>

Bug_EveryChunk == DOMAIN chunks
Unfinished == {n \in DOMAIN chunks : ~chunks[n].done}

\* The first unfinished chunks, opened one after the other.
OpenFirst(s, todo) ==
  \/ /\ todo = {}
     /\ scanner' = [scanner EXCEPT ![s] = [Idle EXCEPT !.pc = "publish"]]
  \/ \E n \in todo :
       /\ IsFirst(n, todo)
       /\ scanner' = [scanner EXCEPT ![s] =
            [Idle EXCEPT !.pc = "fan", !.valid = scanner[s].valid,
                         !.todo = todo, !.left = chunks[n].users]]

OpenChunks(s) ==
  /\ scanner[s].pc = "open"
  /\ OpenFirst(s, {n \in Unfinished :
                     Cardinality({m \in Unfinished : m < n}) < ChunkBudget})
  /\ UNCHANGED <<note, fanoutVars, delivery, revoking, audienceVars, mails,
                 crashes>>

\* Before every recipient the lease, the revocation and the state are asked.
FanOut(s) ==
  LET left == scanner[s].left IN
  /\ scanner[s].pc = "fan"
  /\ \E u \in left :
       /\ IsFirst(u, left)
       /\ scanner' = [scanner EXCEPT ![s] =
            IF ~(Guard(s) /\ note.state = "dispatching")
            THEN [Idle EXCEPT !.pc = "release"]
            ELSE IF u \notin scanner[s].valid THEN [@ EXCEPT !.left = left \ {u}]
            ELSE [@ EXCEPT !.pc = "receipt", !.left = left \ {u}, !.user = u]]
  /\ UNCHANGED <<note, fanoutVars, delivery, revoking, audienceVars, mails,
                 crashes>>

WriteReceipt(s) ==
  /\ scanner[s].pc = "receipt"
  /\ receipts' = receipts \cup {scanner[s].user}
  /\ Goto(s, IF Email THEN "delivery" ELSE "fan")
  /\ UNCHANGED <<note, chunks, delivery, revoking, audienceVars, mails, crashes>>

\* set_on_insert: an existing delivery is left as it is.
Upserted(u) ==
  IF delivery[u].state = "none" THEN [NoDelivery EXCEPT !.state = "pending"]
                                ELSE delivery[u]

WriteDelivery(s) ==
  /\ scanner[s].pc = "delivery"
  /\ delivery' = [delivery EXCEPT ![scanner[s].user] = Upserted(scanner[s].user)]
  /\ Goto(s, "fan")
  /\ UNCHANGED <<note, fanoutVars, revoking, audienceVars, mails, crashes>>

FinishChunk(s) ==
  /\ scanner[s].pc = "fan" /\ scanner[s].left = {}
  /\ \E n \in scanner[s].todo :
       /\ IsFirst(n, scanner[s].todo)
       /\ chunks' = [chunks EXCEPT ![n].done = TRUE]
       /\ OpenFirst(s, scanner[s].todo \ {n})
  /\ UNCHANGED <<note, receipts, delivery, revoking, audienceVars, mails, crashes>>

\* Chunks beyond this dispatch's budget keep the notification dispatching.
Bug_BudgetSpent == TRUE
AllFannedOut == Unfinished = {}

Publish(s) ==
  /\ scanner[s].pc = "publish"
  /\ note' = IF AllFannedOut /\ Guard(s) /\ note.state = "dispatching"
             THEN [note EXCEPT !.state = "published",
                               !.count = Cardinality(receipts)]
             ELSE note
  /\ Return(s)
  /\ UNCHANGED <<fanoutVars, delivery, revoking, audienceVars, mails, crashes>>

\* finally: the lease is given back by the process whose token it still has.
Release(s) ==
  /\ scanner[s].pc = "release"
  /\ note' = IF note.token = s
             THEN [note EXCEPT !.token = NoOne, !.leased = FALSE] ELSE note
  /\ scanner' = [scanner EXCEPT ![s] = Idle]
  /\ UNCHANGED <<fanoutVars, delivery, revoking, audienceVars, mails, crashes>>

-----------------------------------------------------------------------------
(* deliver()                                                               *)

Bug_FirstTryOnly(u) == delivery[u].state = "pending"
Deliverable(u) == delivery[u].state \in Waiting

LeaseDelivery(s, u) ==
  /\ scanner[s].pc = "idle"
  /\ Deliverable(u)
  /\ delivery' = [delivery EXCEPT ![u] =
       [@ EXCEPT !.state = "leased", !.token = s, !.leased = TRUE,
                 !.attempts = delivery[u].attempts + 1]]
  /\ scanner' = [scanner EXCEPT ![s] =
       [Idle EXCEPT !.pc = "check", !.user = u]]
  /\ UNCHANGED <<note, fanoutVars, revoking, audienceVars, mails, crashes>>

Verdict(s, outcome) ==
  scanner' = [scanner EXCEPT ![s] =
                [@ EXCEPT !.pc = "record", !.outcome = outcome]]

\* The checks up to the last one before the mail server is spoken to.
CheckDelivery(s) ==
  LET u == scanner[s].user
      live == note.state \in Live /\ ~note.revoked /\ lapsed = {}
  IN
  /\ scanner[s].pc = "check"
  /\ IF ~live THEN Verdict(s, "cancelled")
     ELSE IF u \notin members \cap note.audience THEN Verdict(s, "skipped")
     ELSE Goto(s, "send")
  /\ UNCHANGED <<note, fanoutVars, delivery, revoking, audienceVars, mails,
                 crashes>>

\* send_notification_mail: after "unknown" the message may have been taken.
\* Switched-off channels and unverified addresses are among the "skipped".
SendMail(s) ==
  LET u == scanner[s].user IN
  /\ scanner[s].pc = "send"
  /\ \/ Verdict(s, "accepted") /\ mails' = [mails EXCEPT ![u] = @ + 1]
     \/ "busy" \in Events /\ Verdict(s, "retry_wait") /\ UNCHANGED mails
     \/ /\ "smtp" \in Events
        /\ \/ Verdict(s, "unknown") /\ mails' = [mails EXCEPT ![u] = @ + 1]
           \/ /\ \E outcome \in {"unknown", "retry_wait", "failed", "skipped"} :
                   Verdict(s, outcome)
              /\ UNCHANGED mails
  /\ UNCHANGED <<note, fanoutVars, delivery, revoking, audienceVars, crashes>>

\* A fifth attempt that would be retried has failed.
Recorded(u, outcome) ==
  IF outcome = "retry_wait" /\ delivery[u].attempts >= MaxAttempts
  THEN "failed" ELSE outcome

\* The result counts only while the delivery is on this process's lease.  The
\* end of the lease is looked at in "leased" deliveries only.
RecordDelivery(s) ==
  LET u == scanner[s].user IN
  /\ scanner[s].pc = "record"
  /\ delivery' = IF delivery[u].token = s /\ delivery[u].state = "leased"
                 THEN [delivery EXCEPT ![u] =
                   [@ EXCEPT !.state = Recorded(u, scanner[s].outcome),
                             !.token = NoOne, !.leased = FALSE]]
                 ELSE delivery
  /\ scanner' = [scanner EXCEPT ![s] = Idle]
  /\ UNCHANGED <<note, fanoutVars, revoking, audienceVars, mails, crashes>>

-----------------------------------------------------------------------------
(* The rest of notification_scan, and time                                 *)

\* A sender that died may have been past acceptance: its delivery is unknown.
Bug_ReapForRetry == "retry_wait"
Reaped == "unknown"

ReapDelivery(u) ==
  /\ delivery[u].state = "leased" /\ ~delivery[u].leased
  /\ delivery' = [delivery EXCEPT ![u].state = Reaped]
  /\ UNCHANGED <<note, fanoutVars, scanner, revoking, audienceVars, mails,
                 crashes>>

\* The audit entry of a revocation whose request has died.
RecoverAudit ==
  /\ note.revoked /\ ~note.moderated
  /\ note' = [note EXCEPT !.moderated = TRUE]
  /\ UNCHANGED <<fanoutVars, delivery, scanner, revoking, audienceVars, mails,
                 crashes>>

NoteLeaseEnds ==
  /\ note.leased
  /\ \/ "stall" \in Events
     \/ note.token \in Scanners => scanner[note.token].pc \notin Dispatch
  /\ note' = [note EXCEPT !.leased = FALSE]
  /\ UNCHANGED <<fanoutVars, delivery, scanner, revoking, audienceVars, mails,
                 crashes>>

Serving(s, u) == scanner[s].pc \in Sending /\ scanner[s].user = u

DeliveryLeaseEnds(u) ==
  /\ delivery[u].leased
  /\ "stall" \in Events \/ \A s \in Scanners : ~Serving(s, u)
  /\ delivery' = [delivery EXCEPT ![u].leased = FALSE]
  /\ UNCHANGED <<note, fanoutVars, scanner, revoking, audienceVars, mails,
                 crashes>>

Crash(s) ==
  /\ scanner[s].pc # "idle"
  /\ crashes < MaxCrashes
  /\ crashes' = crashes + 1
  /\ scanner' = [scanner EXCEPT ![s] = Idle]
  /\ UNCHANGED <<note, fanoutVars, delivery, revoking, audienceVars, mails>>

-----------------------------------------------------------------------------
DispatchStep(s) ==
  \/ AuditPublication(s) \/ Gate(s) \/ ListRecipients(s)
  \/ SaveChunk(s) \/ AdvanceCheckpoint(s)
  \/ OpenChunks(s) \/ FanOut(s) \/ WriteReceipt(s) \/ WriteDelivery(s)
  \/ FinishChunk(s) \/ Publish(s) \/ Release(s)

DeliverStep(s) == CheckDelivery(s) \/ SendMail(s) \/ RecordDelivery(s)

Housekeeping ==
  \/ \E u \in Users : ReapDelivery(u) \/ DeliveryLeaseEnds(u)
  \/ NoteLeaseEnds \/ RecoverAudit

People ==
  \/ AuditSubmission
  \/ \E audience \in SUBSET Users \ {{}},
        state \in {"draft", "scheduled", "preparing"} : EditDraft(audience, state)
  \/ Revoke \/ AuditRevocation \/ CancelDeliveries \/ RevocationDies
  \/ \E u \in Users : Leave(u) \/ Join(u)
  \/ \E what \in {"expired", "author"} : Lapse(what)

Next ==
  \/ \E s \in Scanners : Claim(s) \/ DispatchStep(s) \/ DeliverStep(s) \/ Crash(s)
  \/ \E s \in Scanners, u \in Users : LeaseDelivery(s, u)
  \/ Housekeeping
  \/ People

Spec == Init /\ [][Next]_vars

\* Beat starts a scan every ten seconds and a scan runs on; leases run out.
Fairness ==
  /\ \A s \in Scanners : WF_vars(DispatchStep(s) \/ DeliverStep(s))
  /\ SF_vars(\E s \in Scanners : Claim(s))
  /\ \A u \in Users : SF_vars(\E s \in Scanners : LeaseDelivery(s, u))
  /\ WF_vars(NoteLeaseEnds) /\ WF_vars(RecoverAudit)
  /\ \A u \in Users : WF_vars(ReapDelivery(u)) /\ WF_vars(DeliveryLeaseEnds(u))

FairSpec == Spec /\ Fairness

-----------------------------------------------------------------------------
NoteState == [state : States, revoked : BOOLEAN, version : Nat,
              audience : SUBSET Users, cursor : Nat, next : Nat, count : Nat,
              audited : BOOLEAN, moderated : BOOLEAN,
              token : Scanners \cup {NoOne}, leased : BOOLEAN]
DeliveryState == [state : {"none", "leased"} \cup Waiting \cup Final,
                  attempts : Nat, token : Scanners \cup {NoOne},
                  leased : BOOLEAN]
ScannerState == [pc : {"idle"} \cup Dispatch \cup Sending, state : States,
                 audience : SUBSET Users, cursor : Nat, next : Nat,
                 budget : Nat, valid : SUBSET Users, todo : SUBSET Nat,
                 left : SUBSET Users, user : Nat,
                 outcome : Final \cup {"retry_wait"}]

\* The fields of every document hold values of their type.
TypeOK ==
  /\ note \in NoteState
  /\ chunks \in Seq([users : SUBSET Users, done : BOOLEAN])
  /\ receipts \subseteq Users
  /\ delivery \in [Users -> DeliveryState]
  /\ scanner \in [Scanners -> ScannerState]
  /\ revoking \in {"no", "audit", "cancel"}
  /\ members \subseteq Users /\ steady \subseteq Users
  /\ lapsed \subseteq {"expired", "author"}
  /\ mails \in [Users -> Nat]
  /\ crashes \in Nat

\* However many scans overlap, die or outlive their leases, the mail server
\* accepts at most one message of the notification for a user.
MailedOnce == \A u \in Users : mails[u] <= 1

\* The places of the processes in their loops: no checkpoint is ahead of the
\* chunks, open chunks exist, and the user being served is a user.
PlacesKnown ==
  /\ note.next <= Len(chunks)
  /\ \A s \in Scanners :
       /\ scanner[s].next <= Len(chunks)
       /\ scanner[s].pc = "checkpoint" => scanner[s].next < Len(chunks)
       /\ scanner[s].todo \subseteq DOMAIN chunks
       /\ scanner[s].pc \in {"receipt", "delivery"} \cup Sending
            => scanner[s].user \in Users

\* The inductive invariant behind it: a delivery is served by one process, is on
\* that process's lease or over while it is, and is neither waiting nor on its
\* way to be sent again once the server has accepted it.
ServedAlone ==
  \A s, t \in Scanners, u \in Users : Serving(s, u) /\ Serving(t, u) => s = t
ServedIsLeased ==
  \A s \in Scanners, u \in Users : Serving(s, u) =>
    \/ delivery[u].state = "leased" /\ delivery[u].token = s
    \/ delivery[u].state \in Final
MailedIsOver ==
  \A u \in Users : mails[u] > 0 =>
    /\ delivery[u].state \in {"leased"} \cup Final
    /\ \A s \in Scanners : Serving(s, u) =>
         scanner[s].pc = "record" /\ scanner[s].outcome # "retry_wait"
MailInv ==
  /\ TypeOK /\ PlacesKnown
  /\ ServedAlone /\ ServedIsLeased /\ MailedIsOver /\ MailedOnce

\* A published notification has reached everybody who has been a recipient
\* since it was submitted: no chunk and nobody in a chunk was passed over.
PublishedIsComplete ==
  note.state = "published" =>
    /\ steady \subseteq receipts
    /\ Email => \A u \in steady : delivery[u].state # "none"

\* A revocation is not undone by a scan that had claimed the notification
\* before: no later write moves it out of "cancelled".
RevokedStaysCancelled == note.revoked => note.state = "cancelled"

\* Nobody has a receipt before the publication is in the audit log.
AuditedBeforeReceipts == receipts # {} => note.audited

\* A delivery that has come to an end stays there: a late result, a late
\* fan-out or a revocation does not touch it.
EndedDeliveryStays ==
  [][\A u \in Users : delivery[u].state \in Final
       => delivery'[u].state = delivery[u].state]_vars

\* A draft becomes something else only through its author or a moderator, who
\* both leave a new version.
DraftWaitsForAuthor ==
  [][note.state = "draft" /\ note'.state # "draft"
       => note'.version # note.version]_vars

\* A notification that is being prepared is published or cancelled in the end.
PublicationEnds ==
  note.state \in {"preparing", "dispatching"}
    ~> note.state \in {"published", "cancelled"}

\* After a revocation every delivery comes to an end and the audit log has it,
\* even when the request died half-way.
RevocationTakesHold ==
  note.revoked ~>
    [](note.moderated /\ \A u \in Users : delivery[u].state \in Final \cup {"none"})

=============================================================================
