---- MODULE OperationLedger ----
(***************************************************************************)
(* The idempotency ledger of member operations: IdentityOperation          *)
(* documents, ProjectMemberService._claim_operation, _finish_operation and *)
(* apply_changes, with the two effects it guards: adding a member without  *)
(* an account (_add_external) and changing a row under the version the     *)
(* client named (update).                                                  *)
(*                                                                         *)
(* A request carries the operations of Envelope in order.  Requests are    *)
(* retried as a whole; two of them may run at once; a process may die      *)
(* anywhere; the lease of 300 seconds may end while its holder still runs. *)
(***************************************************************************)
EXTENDS Naturals, Sequences

CONSTANTS
    Workers,     \* request handlers
    Envelope,    \* the operation ids of the request, in order
    Kind,        \* operation -> "add" or "update"
    Tokens,      \* claim tokens (uuids in the code)
    NoToken,     \* no claim
    MaxFaults    \* bound: deaths, and leases that end under a running holder

Operations == {Envelope[i] : i \in DOMAIN Envelope}

ASSUME LedgerAssumption ==
    /\ Envelope \in Seq(Operations) /\ Len(Envelope) > 0
    /\ \A i, j \in DOMAIN Envelope : Envelope[i] = Envelope[j] => i = j
    /\ Kind \in [Operations -> {"add", "update"}]
    /\ NoToken \notin Tokens /\ MaxFaults \in Nat

VARIABLES
    ledger,   \* operation -> status, claim_token and whether its lease has ended
    effect,   \* operation -> how often it has been applied to the rows
    row,      \* operation -> the row it is about, as a lookup finds it
    robbed,   \* operations whose alias others took while they were under way
    full,     \* the project has max_user active members
    hand,     \* what each handler holds
    told,     \* operation -> the outcomes clients have been told
    faults

vars == <<ledger, effect, row, robbed, full, hand, told, faults>>

\* A fresh token is one that nobody holds.
Fresh == {t \in Tokens : /\ \A k \in Workers : t \notin {hand[k].token, hand[k].seen.token}
                         /\ \A o \in Operations : ledger[o].token # t}

NoRecord == [status |-> "none", token |-> NoToken, over |-> FALSE]
Idle == [pc |-> "idle", i |-> 1, token |-> NoToken, seen |-> NoRecord, outcome |-> "none"]

Init ==
    /\ ledger = [o \in Operations |-> NoRecord]
    /\ effect = [o \in Operations |-> 0]
    /\ row = [o \in Operations |-> IF Kind[o] = "add" THEN "absent" ELSE "named"]
    /\ robbed = {}
    /\ full \in BOOLEAN
    /\ hand = [k \in Workers |-> Idle]
    /\ told = [o \in Operations |-> {}]
    /\ faults = 0

Op(k) == Envelope[hand[k].i]
At(k, pc) == hand[k].pc = pc
Goto(k, pc) == hand' = [hand EXCEPT ![k].pc = pc]
Quiet == UNCHANGED <<effect, row, robbed, full, faults>>

\* The client is told an outcome of the operation at hand; the request goes
\* on with the next one, or is over.
Answer(k, status, goOn) ==
    /\ told' = [told EXCEPT ![Op(k)] = @ \cup {status}]
    /\ hand' = [hand EXCEPT ![k] = IF goOn /\ hand[k].i < Len(Envelope)
                                   THEN [Idle EXCEPT !.pc = "read", !.i = hand[k].i + 1]
                                   ELSE Idle]
\* IdentityOperationInProgressError ends the request without an outcome.
InProgress(k) == hand' = [hand EXCEPT ![k] = Idle] /\ UNCHANGED told

Start(k) == At(k, "idle") /\ Goto(k, "read") /\ UNCHANGED <<ledger, told>> /\ Quiet

(***************************************************************************)
(* _claim_operation                                                        *)
(***************************************************************************)
\* What a handler that took every running claim for a live one would do.
Bug_ReadNoLease(k) ==
    LET r == ledger[Op(k)] IN
    /\ At(k, "read")
    /\ CASE r.status = "succeeded" -> Answer(k, "succeeded", TRUE)
         [] r.status = "processing" -> InProgress(k)
         [] OTHER -> /\ hand' = [hand EXCEPT ![k] = [@ EXCEPT !.pc = "claim", !.seen = r]]
                     /\ UNCHANGED told
    /\ UNCHANGED ledger /\ Quiet

\* The record of the operation as it is found.
Read(k) ==
    LET r == ledger[Op(k)] IN
    /\ At(k, "read")
    /\ CASE r.status = "succeeded" -> Answer(k, "succeeded", TRUE)
         [] r.status = "processing" /\ ~r.over -> InProgress(k)
         [] OTHER -> /\ hand' = [hand EXCEPT ![k] = [@ EXCEPT !.pc = "claim", !.seen = r]]
                     /\ UNCHANGED told
    /\ UNCHANGED ledger /\ Quiet

\* What an update of the record by its id alone would accept.
Bug_ClaimById(r, seen) == seen.status = "none" => r.status = "none"

\* The record is inserted, or taken over under the very values read: a stale
\* claim by its token and lease, a failed one by its status.  Who loses looks
\* again, once.
Claimable(r, seen) ==
    CASE seen.status = "none"   -> r.status = "none"
      [] seen.status = "failed" -> r.status = "failed"
      [] OTHER -> r = seen

Claim(k) ==
    LET r == ledger[Op(k)]
        t == CHOOSE f \in Fresh : TRUE IN
    /\ At(k, "claim") /\ Fresh # {}
    /\ IF Claimable(r, hand[k].seen)
       THEN /\ ledger' = [ledger EXCEPT ![Op(k)] =
                             [status |-> "processing", token |-> t, over |-> FALSE]]
            /\ hand' = [hand EXCEPT ![k] = [@ EXCEPT !.pc = "look", !.token = t, !.seen = NoRecord]]
            /\ UNCHANGED told
       ELSE /\ UNCHANGED ledger
            /\ IF hand[k].seen.status = "none" THEN Goto(k, "read") /\ UNCHANGED told
               ELSE IF r.status = "succeeded" THEN Answer(k, "succeeded", TRUE)
               ELSE InProgress(k)
    /\ Quiet

(***************************************************************************)
(* The effect: checked, then saved.                                        *)
(***************************************************************************)
Decide(k, pc, outcome) == hand' = [hand EXCEPT ![k] = [@ EXCEPT !.pc = pc, !.outcome = outcome]]

\* _add_external reuses the alias an earlier attempt of the same operation
\* has left, found by the id derived from the operation, if it still has it.
LookAdd(k) ==
    /\ At(k, "look") /\ Kind[Op(k)] = "add"
    /\ IF row[Op(k)] = "there" THEN Decide(k, "finish", "succeeded")
       ELSE IF full THEN Decide(k, "finish", "failed") ELSE Goto(k, "save")
    /\ UNCHANGED <<ledger, told>> /\ Quiet

Apply(k, state) ==
    /\ effect' = [effect EXCEPT ![Op(k)] = @ + 1]
    /\ row' = [row EXCEPT ![Op(k)] = state]
    /\ Decide(k, "finish", "succeeded")
Refuse(k) == UNCHANGED <<effect, row>> /\ Decide(k, "finish", "failed")

\* What a row under an id of its own would do.
Bug_SaveTwice(k) ==
    /\ At(k, "save") /\ Kind[Op(k)] = "add"
    /\ Apply(k, "there")
    /\ UNCHANGED <<ledger, told, robbed, full, faults>>

\* The row is saved under a key derived from the operation: a second save of
\* it is refused by the unique index, while the first has the key.
SaveAdd(k) ==
    /\ At(k, "save") /\ Kind[Op(k)] = "add"
    /\ IF row[Op(k)] # "there" THEN Apply(k, "there") ELSE Refuse(k)
    /\ UNCHANGED <<ledger, told, robbed, full, faults>>

\* update: the row must still have the version the client named, when it is
\* read and again when it is saved.  Applied once, it has another.
LookUpdate(k) ==
    /\ At(k, "look") /\ Kind[Op(k)] = "update"
    /\ IF row[Op(k)] = "named" THEN Goto(k, "save") ELSE Decide(k, "finish", "failed")
    /\ UNCHANGED <<ledger, told>> /\ Quiet

SaveUpdate(k) ==
    /\ At(k, "save") /\ Kind[Op(k)] = "update"
    /\ IF row[Op(k)] = "named" THEN Apply(k, "changed") ELSE Refuse(k)
    /\ UNCHANGED <<ledger, told, robbed, full, faults>>

(***************************************************************************)
(* _finish_operation, and what apply_changes makes of its result: a        *)
(* failure stops the request, unless another worker's success is on        *)
(* record; a success goes on with whatever is on record.                   *)
(***************************************************************************)
Owns(k) == ledger[Op(k)].status = "processing" /\ ledger[Op(k)].token = hand[k].token

Finish(k) ==
    LET mine == hand[k].outcome
        r == ledger[Op(k)] IN
    /\ At(k, "finish")
    /\ IF Owns(k)
       THEN /\ ledger' = [ledger EXCEPT ![Op(k)] = [status |-> mine, token |-> NoToken, over |-> FALSE]]
            /\ Answer(k, mine, mine = "succeeded")
       ELSE /\ UNCHANGED ledger
            /\ IF r.status \in {"succeeded", "failed"}
               THEN Answer(k, r.status, mine = "succeeded" \/ r.status = "succeeded")
               ELSE InProgress(k)
    /\ Quiet

(***************************************************************************)
(* The environment.                                                        *)
(***************************************************************************)
Held(o) == \E k \in Workers : ~At(k, "idle") /\ hand[k].token = ledger[o].token

\* The lease ends: after its holder has gone, or (a fault) while it still runs.
Expire(o) ==
    /\ ledger[o].status = "processing" /\ ~ledger[o].over
    /\ IF Held(o) THEN faults < MaxFaults /\ faults' = faults + 1 ELSE UNCHANGED faults
    /\ ledger' = [ledger EXCEPT ![o].over = TRUE]
    /\ UNCHANGED <<effect, row, robbed, full, hand, told>>

Die(k) ==
    /\ ~At(k, "idle") /\ faults < MaxFaults
    /\ faults' = faults + 1
    /\ hand' = [hand EXCEPT ![k] = Idle]
    /\ UNCHANGED <<ledger, effect, row, robbed, full, told>>

\* Other members come and go.
Others ==
    /\ full' = ~full
    /\ UNCHANGED <<ledger, effect, row, robbed, hand, told, faults>>

\* An operation that is not on record as succeeded will be tried again, and a
\* handler that has claimed it goes on whatever the record says.
Pending(o) ==
    \/ ledger[o].status # "succeeded"
    \/ \E k \in Workers : Op(k) = o /\ hand[k].pc \in {"look", "save"}

\* bind gives the alias an account and clears its external_id;
\* hard_delete_external and the merges delete its row.  Neither asks the
\* ledger whether the operation that added it is over.
TakeAlias(o) ==
    /\ Kind[o] = "add" /\ row[o] = "there"
    /\ row' = [row EXCEPT ![o] = "gone"]
    /\ robbed' = IF Pending(o) THEN robbed \cup {o} ELSE robbed
    /\ UNCHANGED <<ledger, effect, full, hand, told, faults>>

\* Somebody else's edit takes the version an update has named.
EditRow(o) ==
    /\ Kind[o] = "update" /\ row[o] = "named"
    /\ row' = [row EXCEPT ![o] = "changed"]
    /\ UNCHANGED <<ledger, effect, robbed, full, hand, told, faults>>

Work(k) ==
    \/ Read(k) \/ Claim(k) \/ LookAdd(k) \/ SaveAdd(k)
    \/ LookUpdate(k) \/ SaveUpdate(k) \/ Finish(k)

LedgerNext ==
    \/ \E k \in Workers : Start(k) \/ Work(k) \/ Die(k)
    \/ \E o \in Operations : Expire(o) \/ TakeAlias(o) \/ EditRow(o)
    \/ Others

Spec == Init /\ [][LedgerNext]_vars

\* A started request goes on, a client without an outcome asks again, and
\* time passes.
Fairness ==
    /\ \A k \in Workers : WF_vars(Work(k)) /\ WF_vars(Start(k))
    /\ \A o \in Operations : WF_vars(Expire(o))
LedgerSpec == Spec /\ Fairness

(***************************************************************************)
(* Properties                                                              *)
(***************************************************************************)
Statuses == {"none", "processing", "succeeded", "failed"}
Record == [status : Statuses, token : Tokens \cup {NoToken}, over : BOOLEAN]

LedgerTypeOK ==
    /\ ledger \in [Operations -> Record]
    /\ effect \in [Operations -> Nat]
    /\ row \in [Operations -> {"absent", "there", "gone", "named", "changed"}]
    /\ robbed \subseteq Operations
    /\ full \in BOOLEAN
    /\ hand \in [Workers -> [pc : {"idle", "read", "claim", "look", "save", "finish"},
                             i : DOMAIN Envelope, token : Tokens \cup {NoToken}, seen : Record,
                             outcome : {"none", "succeeded", "failed"}]]
    /\ told \in [Operations -> SUBSET {"succeeded", "failed"}]
    /\ faults \in Nat

\* However often a request is retried, whoever dies and whichever lease ends
\* under a running holder: an operation is applied at most once, an operation
\* on record as succeeded has been applied, and a client told that it
\* succeeded can read so ever after.  One thing is excepted: an alias that
\* others bind, merge or delete between the effect and the record of the
\* operation that added it is not found by the next attempt, which adds it
\* again (_add_external, project_member.py:297-307).
AppliedOnce == \A o \in Operations :
    /\ effect[o] <= 1 \/ o \in robbed
    /\ ledger[o].status = "succeeded" => effect[o] >= 1
    /\ "succeeded" \in told[o] => ledger[o].status = "succeeded"

\* A result on record as succeeded is never taken back, and a claim that is
\* running under its lease is never taken away.
ClaimsRespected == [][\A o \in Operations :
    /\ ledger[o].status = "succeeded" => ledger'[o] = ledger[o]
    /\ ledger[o].status = "processing" /\ ~ledger[o].over /\ ledger'[o].status = "processing"
         => ledger'[o].token = ledger[o].token]_vars

\* No operation stays in progress for ever, whoever died holding it, unless
\* an operation before it in the request fails: a request stops there, and a
\* handler that had gone on, because to it that operation had succeeded, may
\* have left a claim behind that nobody looks at again.
Blocked(o) == \E i, j \in DOMAIN Envelope :
    i < j /\ o = Envelope[j] /\ ledger[Envelope[i]].status = "failed"
ClaimsEnd == \A o \in Operations :
    ledger[o].status = "processing" ~> (ledger[o].status # "processing" \/ Blocked(o))
====
