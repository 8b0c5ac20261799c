----------------------------- MODULE ClaimProofs -----------------------------
(***************************************************************************)
(* Proofs about the two machines in which a request or a worker claims a   *)
(* piece of work under a lease: OperationLedger, for any envelope, number  *)
(* of request handlers and bound on faults; PartnerCheck, for any titles,  *)
(* catalogue, number of requests and workers.                              *)
(***************************************************************************)
EXTENDS OperationLedger, PartnerCheck, TLAPS

(***************************************************************************)
(* The claims of operations.                                               *)
(***************************************************************************)
\* What a handler knows: a record it will claim was not succeeded and, when
\* it was processing, its lease had ended; an outcome "succeeded" is that of
\* an effect that has been applied.
HandInv == \A k \in Workers :
    /\ At(k, "claim") => /\ hand[k].seen.status # "succeeded"
                         /\ hand[k].seen.status = "processing" => hand[k].seen.over
    /\ At(k, "finish") => hand[k].outcome \in {"succeeded", "failed"}
    /\ hand[k].outcome = "succeeded" => effect[Op(k)] >= 1

\* What is on record as succeeded has been applied, and so has what a lookup
\* finds.
Recorded == \A o \in Operations :
    /\ ledger[o].status = "succeeded" => effect[o] >= 1
    /\ "succeeded" \in told[o] => ledger[o].status = "succeeded"
    /\ row[o] \in {"there", "gone"} => effect[o] >= 1

LedgerInv == LedgerTypeOK /\ HandInv /\ Recorded

Hand == [pc : {"idle", "read", "claim", "look", "save", "finish"},
         i : DOMAIN Envelope, token : Tokens \cup {NoToken}, seen : Record,
         outcome : {"none", "succeeded", "failed"}]

LEMMA EnvelopeFacts ==
    ASSUME LedgerTypeOK, NEW k \in Workers
    PROVE  /\ Op(k) \in Operations
           /\ 1 \in DOMAIN Envelope
           /\ hand[k].i < Len(Envelope) => hand[k].i + 1 \in DOMAIN Envelope
BY LedgerAssumption DEF LedgerTypeOK, Op, Operations

LEMMA IdleIsHand == NoRecord \in Record /\ Idle \in Hand
<1>1. 1 \in DOMAIN Envelope
  BY LedgerAssumption
<1> QED
  BY <1>1 DEF NoRecord, Record, Statuses, Idle, Hand

LEMMA IdleAtRest == Idle.pc = "idle" /\ Idle.outcome = "none"
BY DEF Idle

\* The initial states.
LEMMA LedgerInitInv == Init => LedgerInv
<1> SUFFICES ASSUME Init PROVE LedgerInv
  OBVIOUS
<1>1. LedgerTypeOK
  BY IdleIsHand, LedgerAssumption DEF Init, LedgerTypeOK, Hand
<1>2. HandInv
  BY DEF Init, HandInv, At, Idle
<1>3. Recorded
  BY DEF Init, Recorded, NoRecord
<1> QED
  BY <1>1, <1>2, <1>3 DEF LedgerInv

\* A handler's next memory h keeps HandInv if h itself is in order.
LEMMA HandStep ==
    ASSUME LedgerInv, NEW k \in Workers, NEW h \in Hand,
           hand' = [hand EXCEPT ![k] = h],
           h.pc = "claim" => h.seen.status # "succeeded" /\ (h.seen.status = "processing" => h.seen.over),
           h.pc = "finish" => h.outcome \in {"succeeded", "failed"},
           h.outcome = "succeeded" => effect'[Envelope[h.i]] >= 1,
           \A o \in Operations : effect[o] >= 1 => effect'[o] >= 1
    PROVE  hand' \in [Workers -> Hand] /\ HandInv'
<1>0. hand \in [Workers -> Hand]
  BY DEF LedgerInv, LedgerTypeOK, Hand
<1>1. hand'[k] = h /\ \A w \in Workers : w # k => hand'[w] = hand[w]
  BY <1>0
<1>2. ASSUME NEW w \in Workers
      PROVE  /\ (At(w, "claim"))' => /\ hand'[w].seen.status # "succeeded"
                                     /\ hand'[w].seen.status = "processing" => hand'[w].seen.over
             /\ (At(w, "finish"))' => hand'[w].outcome \in {"succeeded", "failed"}
             /\ hand'[w].outcome = "succeeded" => effect'[Envelope[hand'[w].i]] >= 1
  <2>1. CASE w = k
    BY <1>1, <2>1 DEF At
  <2>2. CASE w # k
    <3>1. hand'[w] = hand[w] /\ Op(w) \in Operations
      BY <1>1, <2>2, EnvelopeFacts DEF LedgerInv
    <3>2. hand[w].outcome = "succeeded" => effect[Op(w)] >= 1
      BY DEF LedgerInv, HandInv
    <3>3. /\ At(w, "claim") => /\ hand[w].seen.status # "succeeded"
                               /\ hand[w].seen.status = "processing" => hand[w].seen.over
          /\ At(w, "finish") => hand[w].outcome \in {"succeeded", "failed"}
      BY DEF LedgerInv, HandInv
    <3> QED
      BY <3>1, <3>2, <3>3 DEF At, Op
  <2> QED
    BY <2>1, <2>2
<1>3. HandInv'
  BY <1>2 DEF HandInv, Op
<1> QED
  BY <1>0, <1>3

\* A step that changes nothing but what one handler holds.
LEMMA HandOnly ==
    ASSUME LedgerInv, NEW k \in Workers, NEW h \in Hand,
           hand' = [hand EXCEPT ![k] = h],
           h.pc = "claim" => h.seen.status # "succeeded" /\ (h.seen.status = "processing" => h.seen.over),
           h.pc = "finish" => h.outcome \in {"succeeded", "failed"},
           h.outcome = "succeeded" => effect[Envelope[h.i]] >= 1,
           UNCHANGED <<ledger, told, effect, row, robbed, full>>, faults' \in Nat
    PROVE  LedgerInv'
<1>1. hand' \in [Workers -> Hand] /\ HandInv'
  BY HandStep
<1>2. LedgerTypeOK'
  BY <1>1 DEF LedgerInv, LedgerTypeOK, Hand
<1>3. Recorded'
  BY DEF LedgerInv, Recorded
<1> QED
  BY <1>1, <1>2, <1>3 DEF LedgerInv

\* Telling an outcome: the request goes on idle or reading, with nothing
\* in hand, and a success told must be on record.
LEMMA AnswerInv ==
    ASSUME LedgerInv, NEW k \in Workers, NEW s \in {"succeeded", "failed"}, NEW g \in BOOLEAN,
           Answer(k, s, g), effect' = effect
    PROVE  /\ hand' \in [Workers -> Hand] /\ HandInv'
           /\ told' \in [Operations -> SUBSET {"succeeded", "failed"}]
           /\ \A o \in Operations : "succeeded" \in told'[o] =>
                "succeeded" \in told[o] \/ (o = Op(k) /\ s = "succeeded")
<1> DEFINE next == [Idle EXCEPT !.pc = "read", !.i = hand[k].i + 1]
           new == IF g /\ hand[k].i < Len(Envelope) THEN next ELSE Idle
<1>1. hand' = [hand EXCEPT ![k] = new]
  BY DEF Answer
<1>2. new \in Hand /\ new.pc \in {"idle", "read"} /\ new.outcome = "none"
  <2>1. CASE g /\ hand[k].i < Len(Envelope)
    <3>1. hand[k].i + 1 \in DOMAIN Envelope
      BY <2>1, EnvelopeFacts DEF LedgerInv
    <3> QED
      BY <2>1, <3>1, IdleIsHand DEF Hand, Idle
  <2>2. CASE ~(g /\ hand[k].i < Len(Envelope))
    BY <2>2, IdleIsHand DEF Idle
  <2> QED
    BY <2>1, <2>2
<1>3. hand \in [Workers -> Hand] /\ told \in [Operations -> SUBSET {"succeeded", "failed"}]
  BY DEF LedgerInv, LedgerTypeOK, Hand
<1> HIDE DEF new
<1>4. told' = [told EXCEPT ![Op(k)] = told[Op(k)] \cup {s}]
  BY DEF Answer
<1>5. hand' \in [Workers -> Hand] /\ HandInv'
  BY <1>1, <1>2, HandStep
<1> QED
  BY <1>3, <1>4, <1>5

\* One lemma a step; each is about one handler k.
LEMMA ReadInv == ASSUME LedgerInv, NEW k \in Workers, Read(k) PROVE LedgerInv'
<1> DEFINE r == ledger[Op(k)]
<1>0. Op(k) \in Operations /\ hand \in [Workers -> Hand] /\ r \in Record
  BY EnvelopeFacts DEF LedgerInv, LedgerTypeOK, Hand
<1>1. CASE r.status = "succeeded"
  <2>1. Answer(k, "succeeded", TRUE) /\ UNCHANGED <<ledger, effect, row, robbed, full, faults>>
    BY <1>1 DEF Read, Quiet
  <2>2. LedgerTypeOK'
    BY <2>1, AnswerInv DEF LedgerInv, LedgerTypeOK, Hand
  <2>3. HandInv'
    BY <2>1, AnswerInv
  <2>4. Recorded'
    BY <1>1, <2>1, AnswerInv DEF LedgerInv, Recorded
  <2> QED
    BY <2>2, <2>3, <2>4 DEF LedgerInv
<1>2. CASE r.status = "processing" /\ ~r.over
  <2>1. hand' = [hand EXCEPT ![k] = Idle] /\ UNCHANGED <<ledger, told, effect, row, robbed, full, faults>>
    BY <1>2 DEF Read, InProgress, Quiet
  <2> QED
    BY <2>1, IdleIsHand, IdleAtRest, HandOnly DEF LedgerInv, LedgerTypeOK
<1>3. CASE r.status # "succeeded" /\ ~(r.status = "processing" /\ ~r.over)
  <2>1. /\ hand' = [hand EXCEPT ![k] = [hand[k] EXCEPT !.pc = "claim", !.seen = r]]
        /\ UNCHANGED <<ledger, effect, row, robbed, full, faults, told>>
    BY <1>3 DEF Read, Quiet
  <2> DEFINE h == [hand[k] EXCEPT !.pc = "claim", !.seen = r]
  <2>2. h \in Hand /\ h.pc = "claim" /\ h.seen = r /\ h.i = hand[k].i /\ h.outcome = hand[k].outcome
    BY <1>0 DEF Hand
  <2>3. h.outcome = "succeeded" => effect[Envelope[h.i]] >= 1
    BY <2>2 DEF LedgerInv, HandInv, Op
  <2>4. hand' = [hand EXCEPT ![k] = h]
    BY <2>1
  <2>5. faults' \in Nat
    BY <2>1 DEF LedgerInv, LedgerTypeOK
  <2>6. h.seen.status # "succeeded" /\ (h.seen.status = "processing" => h.seen.over)
    BY <1>3, <2>2
  <2>7. h.pc # "finish"
    BY <2>2
  <2> HIDE DEF h, r
  <2> QED
    BY <2>1, <2>2, <2>3, <2>4, <2>5, <2>6, <2>7, HandOnly
<1> QED
  BY <1>1, <1>2, <1>3

LEMMA ClaimInv == ASSUME LedgerInv, NEW k \in Workers, Claim(k) PROVE LedgerInv'
<1> DEFINE r == ledger[Op(k)]
           t == CHOOSE f \in Fresh : TRUE
<1>0. Op(k) \in Operations /\ hand \in [Workers -> Hand] /\ r \in Record /\ t \in Tokens
  BY EnvelopeFacts DEF LedgerInv, LedgerTypeOK, Hand, Claim, Fresh
<1>u. UNCHANGED <<effect, row, robbed, full, faults>>
  BY DEF Claim, Quiet
<1>c. At(k, "claim") /\ hand[k].seen.status # "succeeded"
      /\ (hand[k].seen.status = "processing" => hand[k].seen.over)
  BY DEF Claim, LedgerInv, HandInv
<1>1. CASE Claimable(r, hand[k].seen)
  <2>1. /\ ledger' = [ledger EXCEPT ![Op(k)] =
                         [status |-> "processing", token |-> t, over |-> FALSE]]
        /\ hand' = [hand EXCEPT ![k] = [hand[k] EXCEPT !.pc = "look", !.token = t,
                                                       !.seen = NoRecord]]
        /\ told' = told
    BY <1>1 DEF Claim
  <2>2. r.status # "succeeded"
    BY <1>1, <1>c DEF Claimable
  <2> HIDE DEF t
  <2> DEFINE h == [hand[k] EXCEPT !.pc = "look", !.token = t, !.seen = NoRecord]
  <2>a. h \in Hand /\ h.pc = "look" /\ h.i = hand[k].i /\ h.outcome = hand[k].outcome
    BY <1>0, IdleIsHand DEF Hand
  <2>b. h.outcome = "succeeded" => effect'[Envelope[h.i]] >= 1
    BY <1>u, <2>a DEF LedgerInv, HandInv, Op
  <2>d. hand' = [hand EXCEPT ![k] = h]
    BY <2>1
  <2>4. hand' \in [Workers -> Hand] /\ HandInv'
    <3> HIDE DEF h
    <3> QED
      BY <1>u, <2>a, <2>b, <2>d, HandStep
  <2>3. LedgerTypeOK'
    BY <1>0, <1>u, <2>1, <2>4, IdleIsHand DEF LedgerInv, LedgerTypeOK, Record, Statuses, Hand
  <2>5. Recorded'
    BY <1>0, <1>u, <2>1, <2>2 DEF LedgerInv, Recorded, LedgerTypeOK
  <2> QED
    BY <2>3, <2>4, <2>5 DEF LedgerInv
<1>2. CASE ~Claimable(r, hand[k].seen) /\ hand[k].seen.status = "none"
  <2>1. hand' = [hand EXCEPT ![k].pc = "read"] /\ UNCHANGED <<ledger, told>>
    BY <1>2 DEF Claim, Goto
  <2> DEFINE h == [hand[k] EXCEPT !.pc = "read"]
  <2>2. h \in Hand /\ h.pc = "read" /\ h.i = hand[k].i /\ h.outcome = hand[k].outcome
    BY <1>0 DEF Hand
  <2>3. h.outcome = "succeeded" => effect[Envelope[h.i]] >= 1
    BY <2>2 DEF LedgerInv, HandInv, Op
  <2>4. hand' = [hand EXCEPT ![k] = h]
    BY <1>0, <2>1 DEF Hand
  <2>5. faults' \in Nat
    BY <1>u DEF LedgerInv, LedgerTypeOK
  <2> HIDE DEF h
  <2> QED
    BY <1>u, <2>1, <2>2, <2>3, <2>4, <2>5, HandOnly
<1>3. CASE ~Claimable(r, hand[k].seen) /\ hand[k].seen.status # "none" /\ r.status = "succeeded"
  <2>1. Answer(k, "succeeded", TRUE) /\ UNCHANGED <<ledger, effect, row, robbed, full, faults>>
    BY <1>3, <1>u DEF Claim
  <2>2. LedgerTypeOK'
    BY <2>1, AnswerInv DEF LedgerInv, LedgerTypeOK, Hand
  <2>3. HandInv'
    BY <2>1, AnswerInv
  <2>4. Recorded'
    BY <1>3, <2>1, AnswerInv DEF LedgerInv, Recorded
  <2> QED
    BY <2>2, <2>3, <2>4 DEF LedgerInv
<1>4. CASE ~Claimable(r, hand[k].seen) /\ hand[k].seen.status # "none" /\ r.status # "succeeded"
  <2>1. hand' = [hand EXCEPT ![k] = Idle] /\ UNCHANGED <<ledger, told>>
    BY <1>4 DEF Claim, InProgress
  <2> QED
    BY <1>u, <2>1, IdleIsHand, IdleAtRest, HandOnly DEF LedgerInv, LedgerTypeOK
<1> QED
  BY <1>1, <1>2, <1>3, <1>4

LEMMA LookInv == ASSUME LedgerInv, NEW k \in Workers, LookAdd(k) \/ LookUpdate(k) PROVE LedgerInv'
<1>0. Op(k) \in Operations /\ hand \in [Workers -> Hand] /\ effect[Op(k)] \in Nat
  BY EnvelopeFacts DEF LedgerInv, LedgerTypeOK, Hand
<1>1. UNCHANGED <<ledger, told, effect, row, robbed, full, faults>>
  BY DEF LookAdd, LookUpdate, Quiet
<1>2. \/ hand' = [hand EXCEPT ![k].pc = "save"]
      \/ hand' = [hand EXCEPT ![k] = [hand[k] EXCEPT !.pc = "finish", !.outcome = "failed"]]
      \/ /\ hand' = [hand EXCEPT ![k] = [hand[k] EXCEPT !.pc = "finish", !.outcome = "succeeded"]]
         /\ row[Op(k)] = "there"
  BY DEF LookAdd, LookUpdate, Decide, Goto
<1>3. row[Op(k)] = "there" => effect[Op(k)] >= 1
  BY <1>0 DEF LedgerInv, Recorded
<1>4. ASSUME NEW p \in {"save", "finish"}, NEW v \in {"none", "succeeded", "failed"},
             hand' = [hand EXCEPT ![k] = [hand[k] EXCEPT !.pc = p, !.outcome = v]],
             p = "finish" => v # "none", v = "succeeded" => effect[Op(k)] >= 1
      PROVE  LedgerInv'
  <2> DEFINE h == [hand[k] EXCEPT !.pc = p, !.outcome = v]
  <2>1. h \in Hand /\ h.pc = p /\ h.outcome = v /\ h.i = hand[k].i
    BY <1>0 DEF Hand
  <2>2. hand' = [hand EXCEPT ![k] = h] /\ faults' \in Nat
    BY <1>1, <1>4 DEF LedgerInv, LedgerTypeOK
  <2>3. h.outcome = "succeeded" => effect[Envelope[h.i]] >= 1
    BY <1>4, <2>1 DEF Op
  <2> HIDE DEF h
  <2> QED
    BY <1>1, <1>4, <2>1, <2>2, <2>3, HandOnly
<1>5. CASE hand' = [hand EXCEPT ![k].pc = "save"]
  <2>1. hand[k].outcome \in {"none", "succeeded", "failed"} /\
        (hand[k].outcome = "succeeded" => effect[Op(k)] >= 1)
    BY <1>0 DEF LedgerInv, HandInv, Hand
  <2>2. [hand[k] EXCEPT !.pc = "save"] = [hand[k] EXCEPT !.pc = "save", !.outcome = hand[k].outcome]
    BY <1>0 DEF Hand
  <2>3. hand' = [hand EXCEPT ![k] = [hand[k] EXCEPT !.pc = "save", !.outcome = hand[k].outcome]]
    BY <1>0, <1>5, <2>2
  <2> QED
    BY <1>4, <2>1, <2>3
<1> QED
  BY <1>2, <1>3, <1>4, <1>5

LEMMA SaveInv == ASSUME LedgerInv, NEW k \in Workers, SaveAdd(k) \/ SaveUpdate(k) PROVE LedgerInv'
<1>0. Op(k) \in Operations /\ hand \in [Workers -> Hand] /\ effect \in [Operations -> Nat]
      /\ row \in [Operations -> {"absent", "there", "gone", "named", "changed"}]
  BY EnvelopeFacts DEF LedgerInv, LedgerTypeOK, Hand
<1>1. UNCHANGED <<ledger, told, robbed, full, faults>>
  BY DEF SaveAdd, SaveUpdate
<1>2. \/ /\ effect' = [effect EXCEPT ![Op(k)] = @ + 1]
         /\ \E x \in {"there", "changed"} : row' = [row EXCEPT ![Op(k)] = x]
         /\ hand' = [hand EXCEPT ![k] = [hand[k] EXCEPT !.pc = "finish", !.outcome = "succeeded"]]
      \/ /\ effect' = effect /\ row' = row
         /\ hand' = [hand EXCEPT ![k] = [hand[k] EXCEPT !.pc = "finish", !.outcome = "failed"]]
  BY <1>0 DEF SaveAdd, SaveUpdate, Apply, Refuse, Decide
<1>3. PICK v \in {"succeeded", "failed"} :
        /\ hand' = [hand EXCEPT ![k] = [hand[k] EXCEPT !.pc = "finish", !.outcome = v]]
        /\ v = "succeeded" => /\ effect' = [effect EXCEPT ![Op(k)] = @ + 1]
                              /\ \E x \in {"there", "changed"} : row' = [row EXCEPT ![Op(k)] = x]
        /\ v = "failed" => effect' = effect /\ row' = row
  BY <1>2
<1>4. /\ effect' \in [Operations -> Nat]
      /\ row' \in [Operations -> {"absent", "there", "gone", "named", "changed"}]
      /\ \A o \in Operations : effect[o] >= 1 => effect'[o] >= 1
      /\ \A o \in Operations : row'[o] = row[o] \/ effect'[o] >= 1
      /\ v = "succeeded" => effect'[Op(k)] >= 1
  BY <1>0, <1>3
<1> DEFINE h == [hand[k] EXCEPT !.pc = "finish", !.outcome = v]
<1>5. h \in Hand /\ h.pc = "finish" /\ h.outcome = v /\ h.i = hand[k].i
  BY <1>0 DEF Hand
<1>6. hand' \in [Workers -> Hand] /\ HandInv'
  <2>1. hand' = [hand EXCEPT ![k] = h]
    BY <1>3
  <2>2. h.outcome = "succeeded" => effect'[Envelope[h.i]] >= 1
    BY <1>4, <1>5 DEF Op
  <2> HIDE DEF h
  <2> QED
    BY <1>4, <1>5, <2>1, <2>2, HandStep
<1>7. LedgerTypeOK'
  BY <1>1, <1>4, <1>6 DEF LedgerInv, LedgerTypeOK, Hand
<1>8. Recorded'
  BY <1>1, <1>4 DEF LedgerInv, Recorded
<1> QED
  BY <1>6, <1>7, <1>8 DEF LedgerInv

LEMMA FinishInv == ASSUME LedgerInv, NEW k \in Workers, Finish(k) PROVE LedgerInv'
<1> DEFINE mine == hand[k].outcome
           r == ledger[Op(k)]
           done == [status |-> mine, token |-> NoToken, over |-> FALSE]
<1>0. Op(k) \in Operations /\ hand \in [Workers -> Hand] /\ r \in Record
      /\ mine \in {"succeeded", "failed"}
  BY EnvelopeFacts DEF LedgerInv, LedgerTypeOK, Hand, HandInv, Finish
<1>u. UNCHANGED <<effect, row, robbed, full, faults>>
  BY DEF Finish, Quiet
<1>1. CASE Owns(k)
  <2>1. ledger' = [ledger EXCEPT ![Op(k)] = done] /\ Answer(k, mine, mine = "succeeded")
    BY <1>1 DEF Finish
  <2>2. done \in Record
    BY <1>0 DEF Record, Statuses
  <2>3. LedgerTypeOK'
    <3>1. hand' \in [Workers -> Hand] /\ told' \in [Operations -> SUBSET {"succeeded", "failed"}]
      BY <1>0, <1>u, <2>1, AnswerInv
    <3>2. ledger' \in [Operations -> Record]
      BY <1>0, <2>1, <2>2 DEF LedgerInv, LedgerTypeOK
    <3> QED
      BY <1>u, <3>1, <3>2 DEF LedgerInv, LedgerTypeOK, Hand
  <2>4. HandInv'
    BY <1>0, <1>u, <2>1, AnswerInv
  <2>5. mine = "succeeded" => effect[Op(k)] >= 1
    BY DEF LedgerInv, HandInv
  <2>6. Recorded'
    <3>1. SUFFICES ASSUME NEW o \in Operations
                   PROVE  /\ ledger'[o].status = "succeeded" => effect'[o] >= 1
                          /\ "succeeded" \in told'[o] => ledger'[o].status = "succeeded"
                          /\ row'[o] \in {"there", "gone"} => effect'[o] >= 1
      BY DEF Recorded
    <3>2. "succeeded" \in told'[o] => "succeeded" \in told[o] \/ (o = Op(k) /\ mine = "succeeded")
      BY <1>0, <1>u, <2>1, AnswerInv
    <3>3. CASE o = Op(k)
      <4>1. r.status # "succeeded"
        BY <1>1 DEF Owns
      <4>2. ledger'[o] = done
        BY <1>0, <2>1, <3>3 DEF LedgerInv, LedgerTypeOK
      <4> QED
        BY <1>0, <1>u, <2>5, <3>2, <3>3, <4>1, <4>2 DEF LedgerInv, Recorded
    <3>4. CASE o # Op(k)
      BY <1>0, <1>u, <2>1, <3>2, <3>4 DEF LedgerInv, Recorded, LedgerTypeOK
    <3> QED
      BY <3>3, <3>4
  <2> QED
    BY <2>3, <2>4, <2>6 DEF LedgerInv
<1>2. CASE ~Owns(k) /\ r.status \in {"succeeded", "failed"}
  <2>1. UNCHANGED ledger /\ Answer(k, r.status, mine = "succeeded" \/ r.status = "succeeded")
    BY <1>2 DEF Finish
  <2>3. LedgerTypeOK'
    <3>1. hand' \in [Workers -> Hand] /\ told' \in [Operations -> SUBSET {"succeeded", "failed"}]
      BY <1>2, <1>u, <2>1, AnswerInv
    <3> QED
      BY <1>u, <2>1, <3>1 DEF LedgerInv, LedgerTypeOK, Hand
  <2>4. HandInv'
    BY <1>2, <1>u, <2>1, AnswerInv
  <2>5. Recorded'
    BY <1>2, <1>u, <2>1, AnswerInv DEF LedgerInv, Recorded
  <2> QED
    BY <2>3, <2>4, <2>5 DEF LedgerInv
<1>3. CASE ~Owns(k) /\ r.status \notin {"succeeded", "failed"}
  <2>1. hand' = [hand EXCEPT ![k] = Idle] /\ UNCHANGED <<ledger, told>>
    BY <1>3 DEF Finish, InProgress
  <2> QED
    BY <1>u, <2>1, IdleIsHand, IdleAtRest, HandOnly DEF LedgerInv, LedgerTypeOK
<1> QED
  BY <1>1, <1>2, <1>3

LEMMA WorldInv ==
    ASSUME LedgerInv,
           \/ \E k \in Workers : Start(k) \/ Die(k)
           \/ \E o \in Operations : Expire(o) \/ TakeAlias(o) \/ EditRow(o)
           \/ Others
    PROVE  LedgerInv'
<1>0. hand \in [Workers -> Hand] /\ ledger \in [Operations -> Record] /\ faults \in Nat
  BY DEF LedgerInv, LedgerTypeOK, Hand
<1>1. CASE \E k \in Workers : Start(k)
  BY <1>0, <1>1 DEF Start, Goto, Quiet, LedgerInv, LedgerTypeOK, HandInv, Recorded, Hand, At, Op
<1>2. CASE \E k \in Workers : Die(k)
  BY <1>0, <1>2, IdleIsHand DEF Die, LedgerInv, LedgerTypeOK, HandInv, Recorded, Hand, At, Op,
     Idle
<1>3. CASE \E o \in Operations : Expire(o)
  <2> PICK o \in Operations : Expire(o)
    BY <1>3
  <2>1. ledger' = [ledger EXCEPT ![o].over = TRUE] /\ faults' \in Nat
        /\ UNCHANGED <<effect, row, robbed, full, hand, told>>
    BY <1>0 DEF Expire
  <2>2. \A p \in Operations : ledger'[p].status = ledger[p].status
    BY <1>0, <2>1 DEF Record
  <2>4. ledger' \in [Operations -> Record]
    <3>1. [ledger[o] EXCEPT !.over = TRUE] \in Record
      BY <1>0 DEF Record
    <3>2. ledger' = [ledger EXCEPT ![o] = [ledger[o] EXCEPT !.over = TRUE]]
      BY <2>1
    <3> QED
      BY <1>0, <3>1, <3>2
  <2>3. LedgerTypeOK'
    BY <2>1, <2>4 DEF LedgerInv, LedgerTypeOK
  <2> QED
    BY <2>1, <2>2, <2>3 DEF LedgerInv, HandInv, Recorded, At, Op
<1>4. CASE Others
  BY <1>0, <1>4 DEF Others, LedgerInv, LedgerTypeOK, HandInv, Recorded, At, Op
<1>5. ASSUME NEW o \in Operations, TakeAlias(o) \/ EditRow(o) PROVE LedgerInv'
  <2>1. UNCHANGED <<ledger, effect, full, hand, told, faults>> /\ robbed' \subseteq Operations
    BY <1>5 DEF TakeAlias, EditRow, LedgerInv, LedgerTypeOK
  <2>2. /\ row' \in [Operations -> {"absent", "there", "gone", "named", "changed"}]
        /\ \A p \in Operations : row'[p] \in {"there", "gone"} => row[p] \in {"there", "gone"}
    BY <1>5 DEF TakeAlias, EditRow, LedgerInv, LedgerTypeOK
  <2> QED
    BY <2>1, <2>2 DEF LedgerInv, LedgerTypeOK, HandInv, Recorded, At, Op
<1> QED
  BY <1>1, <1>2, <1>3, <1>4, <1>5

LEMMA LedgerStepInv == LedgerInv /\ [LedgerNext]_vars => LedgerInv'
<1> SUFFICES ASSUME LedgerInv, [LedgerNext]_vars PROVE LedgerInv'
  OBVIOUS
<1>1. CASE \E k \in Workers : Work(k)
  BY <1>1, ReadInv, ClaimInv, LookInv, SaveInv, FinishInv DEF Work
<1>2. CASE (\E k \in Workers : Start(k) \/ Die(k)) \/ (\E o \in Operations : Expire(o) \/ TakeAlias(o) \/ EditRow(o))
             \/ Others
  BY <1>2, WorldInv
<1>3. CASE UNCHANGED vars
  BY <1>3 DEF vars, LedgerInv, LedgerTypeOK, HandInv, Recorded, At, Op
<1> QED
  BY <1>1, <1>2, <1>3 DEF LedgerNext

Respected(o) ==
    /\ ledger[o].status = "succeeded" => ledger'[o] = ledger[o]
    /\ ledger[o].status = "processing" /\ ~ledger[o].over /\ ledger'[o].status = "processing"
         => ledger'[o].token = ledger[o].token

LEMMA StepRespects ==
    ASSUME LedgerInv, LedgerNext, NEW o \in Operations PROVE Respected(o)
<1>0. ledger \in [Operations -> Record]
  BY DEF LedgerInv, LedgerTypeOK
<1>1. CASE ledger' = ledger
  BY <1>1 DEF Respected
<1>2. ASSUME NEW k \in Workers, Claim(k), ledger' # ledger PROVE Respected(o)
  <2>1. Claimable(ledger[Op(k)], hand[k].seen) /\ At(k, "claim")
        /\ \E x : ledger' = [ledger EXCEPT ![Op(k)] = x]
    BY <1>2 DEF Claim
  <2>2. hand[k].seen.status # "succeeded" /\ (hand[k].seen.status = "processing" => hand[k].seen.over)
    BY <2>1 DEF LedgerInv, HandInv
  <2>3. ledger[Op(k)].status # "succeeded"
        /\ (ledger[Op(k)].status = "processing" => ledger[Op(k)].over)
    BY <2>1, <2>2 DEF Claimable
  <2> QED
    BY <1>0, <2>1, <2>3 DEF Respected
<1>3. ASSUME NEW k \in Workers, Finish(k), ledger' # ledger PROVE Respected(o)
  <2>1. Owns(k) /\ ledger' = [ledger EXCEPT ![Op(k)] =
                                [status |-> hand[k].outcome, token |-> NoToken, over |-> FALSE]]
    BY <1>3 DEF Finish
  <2>2. hand[k].outcome \in {"succeeded", "failed"}
    BY <1>3 DEF LedgerInv, HandInv, Finish
  <2> QED
    BY <1>0, <2>1, <2>2 DEF Respected, Owns
<1>4. ASSUME NEW p \in Operations, Expire(p) PROVE Respected(o)
  <2>1. ledger[p].status = "processing" /\ ledger' = [ledger EXCEPT ![p].over = TRUE]
    BY <1>4 DEF Expire
  <2> QED
    BY <1>0, <2>1 DEF Respected, Record
<1>5. ASSUME NEW k \in Workers, Start(k) \/ Die(k) \/ Read(k) \/ LookAdd(k) \/ LookUpdate(k)
                                \/ SaveAdd(k) \/ SaveUpdate(k)
      PROVE  ledger' = ledger
  BY <1>5 DEF Start, Die, Read, LookAdd, LookUpdate, SaveAdd, SaveUpdate
<1>6. Others \/ (\E p \in Operations : TakeAlias(p) \/ EditRow(p)) => ledger' = ledger
  BY DEF Others, TakeAlias, EditRow
<1> QED
  BY <1>1, <1>2, <1>3, <1>4, <1>5, <1>6 DEF LedgerNext, Work

\* The rows and the count of effects: a row nobody has made or changed is one
\* the operation has not been applied to, and an alias others took can be
\* added again only if they took it while the operation was under way.
RowInv == \A o \in Operations :
    /\ row[o] \in (IF Kind[o] = "add" THEN {"absent", "there", "gone"} ELSE {"named", "changed"})
    /\ row[o] \in {"absent", "named"} => effect[o] = 0
    /\ effect[o] <= 1 \/ o \in robbed
    /\ row[o] = "gone" /\ o \notin robbed => ~Pending(o)

LEMMA InitRows == Init => RowInv
BY LedgerAssumption DEF Init, RowInv, Pending, NoRecord

\* Steps that touch neither rows nor effects: nobody starts on an operation
\* that is on record as succeeded.
LEMMA RowsStay ==
    ASSUME LedgerInv, RowInv, UNCHANGED <<effect, row, robbed>>,
           \A o \in Operations : Pending(o)' => Pending(o)
    PROVE  RowInv'
BY DEF RowInv

LEMMA PendingStays ==
    ASSUME LedgerInv, NEW k \in Workers,
           \A o \in Operations : ledger[o].status = "succeeded" => ledger'[o] = ledger[o],
           \A w \in Workers : w # k => hand'[w] = hand[w],
           hand'[k].pc \in {"look", "save"} =>
             \/ hand[k].pc \in {"look", "save"} /\ hand'[k].i = hand[k].i
             \/ ledger[Envelope[hand'[k].i]].status # "succeeded"
    PROVE  \A o \in Operations : Pending(o)' => Pending(o)
<1> SUFFICES ASSUME NEW o \in Operations, Pending(o)', ledger[o].status = "succeeded" PROVE Pending(o)
  BY DEF Pending
<1>1. PICK w \in Workers : Op(w)' = o /\ hand'[w].pc \in {"look", "save"}
  BY DEF Pending
<1>2. CASE w = k
  BY <1>1, <1>2 DEF Pending, Op
<1>3. CASE w # k
  BY <1>1, <1>3 DEF Pending, Op
<1> QED
  BY <1>2, <1>3

\* What a handler holds after an answer, or after none.
LEMMA AtRest ==
    ASSUME LedgerInv, NEW k \in Workers,
           Goto(k, "read") \/ InProgress(k) \/ hand' = [hand EXCEPT ![k] = Idle]
             \/ \E v \in {"succeeded", "failed"}, g \in BOOLEAN : Answer(k, v, g)
    PROVE  /\ \A w \in Workers : w # k => hand'[w] = hand[w]
           /\ hand'[k].pc \notin {"look", "save"}
<1>0. hand \in [Workers -> Hand]
  BY DEF LedgerInv, LedgerTypeOK, Hand
<1>1. CASE Goto(k, "read")
  BY <1>0, <1>1 DEF Goto, Hand
<1>2. CASE InProgress(k) \/ hand' = [hand EXCEPT ![k] = Idle]
  BY <1>0, <1>2, IdleAtRest DEF InProgress
<1>3. ASSUME NEW v \in {"succeeded", "failed"}, NEW g \in BOOLEAN, Answer(k, v, g)
      PROVE  /\ \A w \in Workers : w # k => hand'[w] = hand[w]
             /\ hand'[k].pc \notin {"look", "save"}
  <2> DEFINE next == [Idle EXCEPT !.pc = "read", !.i = hand[k].i + 1]
  <2>1. next.pc = "read" /\ Idle.pc = "idle"
    BY DEF Idle
  <2>2. hand' = [hand EXCEPT ![k] = IF g /\ hand[k].i < Len(Envelope) THEN next ELSE Idle]
    BY <1>3 DEF Answer
  <2> HIDE DEF next
  <2> QED
    BY <1>0, <2>1, <2>2
<1> QED
  BY <1>1, <1>2, <1>3

LEMMA RowsStep == LedgerInv /\ RowInv /\ [LedgerNext]_vars => RowInv'
<1> SUFFICES ASSUME LedgerInv, RowInv, [LedgerNext]_vars PROVE RowInv'
  OBVIOUS
<1>0. /\ hand \in [Workers -> Hand] /\ effect \in [Operations -> Nat] /\ robbed \subseteq Operations
      /\ row \in [Operations -> {"absent", "there", "gone", "named", "changed"}]
  BY DEF LedgerInv, LedgerTypeOK, Hand
<1>1. ASSUME LedgerNext PROVE \A o \in Operations : ledger[o].status = "succeeded" => ledger'[o] = ledger[o]
  BY <1>1, StepRespects DEF Respected
<1>2. CASE UNCHANGED vars
  BY <1>2 DEF vars, RowInv, Pending, Op
<1>3. ASSUME NEW k \in Workers, Start(k) \/ Die(k) \/ Read(k) \/ Finish(k) PROVE RowInv'
  <2>1. UNCHANGED <<effect, row, robbed>>
    BY <1>3 DEF Start, Die, Read, Finish, Quiet
  <2>2. /\ \A w \in Workers : w # k => hand'[w] = hand[w]
        /\ hand'[k].pc \notin {"look", "save"}
    <3>1. CASE Start(k) \/ Die(k)
      BY <3>1, AtRest DEF Start, Die
    <3>2. CASE Read(k)
      <4> DEFINE r == ledger[Op(k)]
                 h == [hand[k] EXCEPT !.pc = "claim", !.seen = r]
      <4>1. \/ Answer(k, "succeeded", TRUE) \/ InProgress(k)
            \/ hand' = [hand EXCEPT ![k] = h]
        BY <3>2 DEF Read
      <4>2. h.pc = "claim"
        BY <1>0 DEF Hand
      <4> HIDE DEF h
      <4> QED
        BY <1>0, <4>1, <4>2, AtRest
    <3>3. CASE Finish(k)
      <4>1. hand[k].outcome \in {"succeeded", "failed"}
        BY <3>3 DEF Finish, LedgerInv, HandInv
      <4> QED
        BY <3>3, <4>1, AtRest DEF Finish
    <3> QED
      BY <1>3, <3>1, <3>2, <3>3
  <2>3. \A o \in Operations : ledger[o].status = "succeeded" => ledger'[o] = ledger[o]
    BY <1>1, <1>3 DEF LedgerNext, Work
  <2> QED
    BY <2>1, <2>2, <2>3, PendingStays, RowsStay
<1>4. ASSUME NEW k \in Workers, Claim(k) PROVE RowInv'
  <2>1. UNCHANGED <<effect, row, robbed>>
    BY <1>4 DEF Claim, Quiet
  <2>2. \A w \in Workers : w # k => hand'[w] = hand[w]
    BY <1>0, <1>4 DEF Claim, Goto, Answer, InProgress
  <2>3. CASE Claimable(ledger[Op(k)], hand[k].seen)
    <3> DEFINE t == CHOOSE f \in Fresh : TRUE
               h == [hand[k] EXCEPT !.pc = "look", !.token = t, !.seen = NoRecord]
    <3>a. hand' = [hand EXCEPT ![k] = h]
      BY <1>4, <2>3 DEF Claim
    <3>b. h.i = hand[k].i
      BY <1>0 DEF Hand
    <3> HIDE DEF h
    <3>1. hand'[k].i = hand[k].i
      BY <1>0, <3>a, <3>b
    <3>2. ledger[Op(k)].status # "succeeded"
      BY <1>4, <2>3 DEF Claim, Claimable, LedgerInv, HandInv
    <3>3. \A o \in Operations : ledger[o].status = "succeeded" => ledger'[o] = ledger[o]
      BY <1>1, <1>4 DEF LedgerNext, Work
    <3> QED
      BY <2>1, <2>2, <3>1, <3>2, <3>3, PendingStays, RowsStay DEF Op
  <2>4. CASE ~ Claimable(ledger[Op(k)], hand[k].seen)
    <3>1. hand'[k].pc \notin {"look", "save"} /\ ledger' = ledger
      BY <1>4, <2>4, AtRest DEF Claim
    <3> QED
      BY <2>1, <2>2, <3>1, PendingStays, RowsStay
  <2> QED
    BY <2>3, <2>4
<1>5. ASSUME NEW k \in Workers, LookAdd(k) \/ LookUpdate(k) PROVE RowInv'
  <2>1. UNCHANGED <<effect, row, robbed, ledger>> /\ hand[k].pc = "look"
    BY <1>5 DEF LookAdd, LookUpdate, Quiet, At
  <2>2. /\ \A w \in Workers : w # k => hand'[w] = hand[w]
        /\ hand'[k].i = hand[k].i
    BY <1>0, <1>5 DEF LookAdd, LookUpdate, Decide, Goto, Hand
  <2> QED
    BY <2>1, <2>2, PendingStays, RowsStay
<1>6. ASSUME NEW k \in Workers, SaveAdd(k) \/ SaveUpdate(k) PROVE RowInv'
  <2>0. Op(k) \in Operations /\ hand[k].pc = "save"
    BY <1>6, EnvelopeFacts DEF LedgerInv, SaveAdd, SaveUpdate, At
  <2>1. UNCHANGED <<ledger, robbed>> /\ Kind[Op(k)] \in {"add", "update"}
    BY <1>6 DEF SaveAdd, SaveUpdate
  <2>2. /\ \A w \in Workers : w # k => hand'[w] = hand[w]
        /\ hand'[k].pc = "finish"
    BY <1>0, <1>6 DEF SaveAdd, SaveUpdate, Apply, Refuse, Decide, Hand
  <2>3. \A o \in Operations : Pending(o)' => Pending(o)
    BY <2>1, <2>2, PendingStays
  <2>4. CASE UNCHANGED <<effect, row>>
    BY <2>1, <2>3, <2>4, RowsStay
  <2>5. CASE ~ UNCHANGED <<effect, row>>
    <3>1. /\ effect' = [effect EXCEPT ![Op(k)] = @ + 1]
          /\ row' = [row EXCEPT ![Op(k)] = IF Kind[Op(k)] = "add" THEN "there" ELSE "changed"]
          /\ Kind[Op(k)] = "add" => row[Op(k)] # "there"
          /\ Kind[Op(k)] = "update" => row[Op(k)] = "named"
      BY <1>6, <2>5 DEF SaveAdd, SaveUpdate, Apply, Refuse
    <3>2. Pending(Op(k))
      BY <2>0 DEF Pending
    <3>3. effect[Op(k)] = 0 \/ Op(k) \in robbed
      BY <2>0, <2>1, <3>1, <3>2 DEF RowInv
    <3>4. ASSUME NEW o \in Operations, o # Op(k) PROVE effect'[o] = effect[o] /\ row'[o] = row[o]
      BY <1>0, <3>1, <3>4
    <3>5. effect'[Op(k)] = effect[Op(k)] + 1 /\ row'[Op(k)] = IF Kind[Op(k)] = "add" THEN "there" ELSE "changed"
      BY <1>0, <2>0, <3>1
    <3>6. ASSUME NEW o \in Operations
          PROVE  /\ row'[o] \in (IF Kind[o] = "add" THEN {"absent", "there", "gone"} ELSE {"named", "changed"})
                 /\ row'[o] \in {"absent", "named"} => effect'[o] = 0
                 /\ effect'[o] <= 1 \/ o \in robbed'
                 /\ row'[o] = "gone" /\ o \notin robbed' => ~ Pending(o)'
      <4>1. CASE o = Op(k)
        BY <1>0, <2>1, <3>3, <3>5, <4>1
      <4>2. CASE o # Op(k)
        BY <2>1, <2>3, <3>4, <4>2 DEF RowInv
      <4> QED
        BY <4>1, <4>2
    <3> QED
      BY <3>6 DEF RowInv
  <2> QED
    BY <2>4, <2>5
<1>7. ASSUME NEW o \in Operations, Expire(o) PROVE RowInv'
  <2>1. UNCHANGED <<effect, row, robbed, hand>>
    BY <1>7 DEF Expire
  <2>2. \A p \in Operations : ledger[p].status = "succeeded" => ledger'[p] = ledger[p]
    BY <1>1, <1>7 DEF LedgerNext
  <2> QED
    BY <2>1, <2>2, RowsStay DEF Pending, Op
<1>8. ASSUME NEW o \in Operations, TakeAlias(o) \/ EditRow(o) PROVE RowInv'
  <2>1. /\ UNCHANGED <<ledger, effect, hand>>
        /\ \/ Kind[o] = "add" /\ row[o] = "there" /\ row' = [row EXCEPT ![o] = "gone"]
              /\ robbed' = IF Pending(o) THEN robbed \cup {o} ELSE robbed
           \/ Kind[o] = "update" /\ row' = [row EXCEPT ![o] = "changed"] /\ robbed' = robbed
    BY <1>8 DEF TakeAlias, EditRow
  <2>2. \A p \in Operations : Pending(p)' <=> Pending(p)
    BY <2>1 DEF Pending, Op
  <2> QED
    BY <1>0, <2>1, <2>2 DEF RowInv
<1>9. CASE Others
  BY <1>9, RowsStay DEF Others, Pending, Op
<1> QED
  BY <1>2, <1>3, <1>4, <1>5, <1>6, <1>7, <1>8, <1>9 DEF LedgerNext, Work

\* LedgerInv and RowInv hold in every reachable state.
THEOREM LedgerInvariant == Spec => [](LedgerInv /\ RowInv)
BY LedgerInitInv, LedgerStepInv, InitRows, RowsStep, PTL DEF Spec

\* However often a request is retried, an operation is applied at most once,
\* unless others took its alias while it was under way, and what is on record
\* and told as succeeded has been (AppliedOnce).
THEOREM AppliedOnceHolds == Spec => []AppliedOnce
<1>1. LedgerInv /\ RowInv => AppliedOnce
  BY DEF LedgerInv, Recorded, RowInv, AppliedOnce
<1> QED
  BY <1>1, LedgerInvariant, PTL

\* A result on record as succeeded is never taken back, and a claim under its
\* lease is never taken away (ClaimsRespected).
THEOREM ClaimsRespectedHolds == Spec => ClaimsRespected
<1>1. LedgerInv /\ [LedgerNext]_vars => [\A o \in Operations : Respected(o)]_vars
  BY StepRespects
<1>2. [\A o \in Operations : Respected(o)]_vars =>
      [\A o \in Operations :
         /\ ledger[o].status = "succeeded" => ledger'[o] = ledger[o]
         /\ ledger[o].status = "processing" /\ ~ledger[o].over /\ ledger'[o].status = "processing"
              => ledger'[o].token = ledger[o].token]_vars
  BY DEF Respected
<1> QED
  BY <1>1, <1>2, LedgerInvariant, PTL DEF Spec, ClaimsRespected

-----------------------------------------------------------------------------
(***************************************************************************)
(* The check of a title by the partner's search.                           *)
(***************************************************************************)
Agents == Askers \cup Checkers

\* What a request or a worker may still have to do.
Asked == {AskAgain, <<"make", "reset", "name", "look", "send">>,
          <<"retitle", "reset", "name", "look", "send">>,
          <<"reset", "name", "look", "send">>}
Sent == {Enqueue, <<"look", "send">>, <<"make", "send">>, <<"retitle", "send">>,
         <<"send">>}
Checked == {RunCheck, <<"read">>, <<"dull">>, <<"fail">>, <<"ask", "store", "judge">>,
            <<"store", "judge">>, <<"judge">>, <<"record">>}
Chores == {<<>>} \cup Asked \cup Sent \cup Checked

SearchAnswer == [round : {0, 1}, attempt : {0, 1}, page : Nat \ {0}, revision : Nat,
                 hit : BOOLEAN]
Duty == [todo : Chores, title : Titles, keyword : Keywords, answer : SearchAnswer]
CheckStatuses == {"absent", "queued", "running", "succeeded", "failed"}

CheckTypeOK ==
  /\ title \in Titles
  /\ catalog \in [revision : Nat \ {0}, page : Placed, past : SUBSET Placed]
  /\ check \in [status : CheckStatuses, keyword : Keywords,
                verdict : {"", "clear", "suspected", "failed"},
                title : Titles, about : Keywords]
  /\ cached \in [Searchable -> [state : {"none", "fresh", "stale"}, hit : BOOLEAN]]
  /\ messages \in Nat
  /\ duty \in [Agents -> Duty]

\* Some revision of the catalogue answers a whole search for k so.
Earned(k, hit) == \E pages \in catalog.past : hit <=> pages[k] \in 1..MaxPages

\* The pages read so far are those of one revision, the one the partner has
\* now if it still accepts the revision named.
ReadSoFar(a, k) ==
  /\ a.page <= MaxPages /\ a.page <= CatalogPages
  /\ a.revision <= catalog.revision
  /\ a.revision = 0 => a.page = 1
  /\ \E pages \in catalog.past :
       /\ a.hit <=> pages[k] \in 1..(a.page - 1)
       /\ a.revision = catalog.revision => pages = catalog.page

\* What a process with these duties knows.
Facing(d, step) == d.todo # <<>> /\ Head(d.todo) = step
Sound(d) ==
  /\ Facing(d, "ask") => d.keyword \in Searchable /\ ReadSoFar(d.answer, d.keyword)
  /\ (\E step \in {"store", "judge", "record"} : Facing(d, step)) =>
       d.keyword \in Searchable /\ Earned(d.keyword, d.answer.hit)
  /\ Facing(d, "dull") => d.keyword \notin Searchable

SearchInv == \A x \in Agents : Sound(duty[x])

CacheInv == \A k \in Searchable :
  cached[k].state = "fresh" => Earned(k, cached[k].hit)

EarnedInv ==
  /\ CheckTypeOK /\ catalog.page \in catalog.past
  /\ SearchInv /\ CacheInv /\ VerdictIsEarned

(* ------------------------------- duties ------------------------------- *)

\* The steps of a search proper; what is known of its answer is about them.
Grave == {"ask", "store", "judge", "record", "dull"}

LEMMA AskedTails ==
    \A s \in Asked : Tail(s) \in {<<"reset", "name", "look", "send">>, Enqueue}
<1>1. /\ Tail(<<"look", "reset", "name", "look", "send">>) = <<"reset", "name", "look", "send">>
      /\ Tail(<<"make", "reset", "name", "look", "send">>) = <<"reset", "name", "look", "send">>
      /\ Tail(<<"retitle", "reset", "name", "look", "send">>) = <<"reset", "name", "look", "send">>
      /\ Tail(<<"reset", "name", "look", "send">>) = <<"name", "look", "send">>
  OBVIOUS
<1> QED
  BY <1>1 DEF Asked, AskAgain, Enqueue

LEMMA SentTails ==
    \A s \in Sent : Tail(s) \in {<<>>, <<"send">>, <<"look", "send">>}
<1>1. /\ Tail(<<"name", "look", "send">>) = <<"look", "send">>
      /\ Tail(<<"look", "send">>) = <<"send">>
      /\ Tail(<<"make", "send">>) = <<"send">>
      /\ Tail(<<"retitle", "send">>) = <<"send">>
      /\ Tail(<<"send">>) = <<>>
  OBVIOUS
<1> QED
  BY <1>1 DEF Sent, Enqueue

LEMMA CheckedTails ==
    \A s \in Checked : Tail(s) = IF s = RunCheck THEN <<"read">>
                                 ELSE IF s = <<"ask", "store", "judge">> THEN <<"store", "judge">>
                                 ELSE IF s = <<"store", "judge">> THEN <<"judge">>
                                 ELSE <<>>
<1>1. /\ Tail(<<"claim", "read">>) = <<"read">>
      /\ Tail(<<"ask", "store", "judge">>) = <<"store", "judge">>
      /\ Tail(<<"store", "judge">>) = <<"judge">>
  OBVIOUS
<1>2. /\ Tail(<<"read">>) = <<>> /\ Tail(<<"dull">>) = <<>> /\ Tail(<<"fail">>) = <<>>
      /\ Tail(<<"judge">>) = <<>> /\ Tail(<<"record">>) = <<>>
  OBVIOUS
<1> QED
  BY <1>1, <1>2 DEF Checked, RunCheck

LEMMA ChoreTails ==
    ASSUME NEW s \in Chores, s # <<>>
    PROVE  /\ Tail(s) \in Chores
           /\ Head(s) \notin {"ask", "store"} /\ Tail(s) # <<>> => Head(Tail(s)) \notin Grave
<1>0. Grave = {"ask", "store", "judge", "record", "dull"}
  BY DEF Grave
<1>1. CASE s \in Asked
  <2>1. Tail(s) \in {<<"reset", "name", "look", "send">>, <<"name", "look", "send">>}
    BY <1>1, AskedTails DEF Enqueue
  <2>2. Tail(s) \in Chores
    BY <2>1 DEF Chores, Asked, Sent, Enqueue
  <2>3. Head(Tail(s)) \in {"reset", "name"}
    <3>1. Head(<<"reset", "name", "look", "send">>) = "reset" /\ Head(<<"name", "look", "send">>) = "name"
      OBVIOUS
    <3> QED
      BY ONLY <2>1, <3>1
  <2> QED
    BY ONLY <2>2, <2>3, <1>0
<1>2. CASE s \in Sent
  <2>1. Tail(s) \in {<<>>, <<"send">>, <<"look", "send">>}
    BY <1>2, SentTails
  <2>2. Tail(s) \in Chores
    BY <2>1 DEF Chores, Sent
  <2>3. Tail(s) # <<>> => Head(Tail(s)) \in {"send", "look"}
    <3>1. Head(<<"send">>) = "send" /\ Head(<<"look", "send">>) = "look"
      OBVIOUS
    <3> QED
      BY ONLY <2>1, <3>1
  <2> QED
    BY ONLY <2>2, <2>3, <1>0
<1>3. CASE s \in Checked
  <2>1. Tail(s) \in Checked \cup {<<>>}
    BY <1>3, CheckedTails DEF Checked
  <2>2. Head(s) \notin {"ask", "store"} => Tail(s) \in {<<"read">>, <<>>}
    <3>1. s # <<"ask", "store", "judge">> /\ s # <<"store", "judge">> => Tail(s) \in {<<"read">>, <<>>}
      BY <1>3, CheckedTails
    <3>2. Head(<<"ask", "store", "judge">>) = "ask" /\ Head(<<"store", "judge">>) = "store"
      OBVIOUS
    <3> QED
      BY ONLY <3>1, <3>2
  <2>3. Head(s) \notin {"ask", "store"} /\ Tail(s) # <<>> => Head(Tail(s)) = "read"
    <3>1. Head(<<"read">>) = "read"
      OBVIOUS
    <3> QED
      BY ONLY <2>2, <3>1
  <2> QED
    BY <2>1, <2>3, <1>0 DEF Chores
<1> QED
  BY <1>1, <1>2, <1>3 DEF Chores

LEMMA ChoreLooks ==
    ASSUME NEW s \in Chores, s # <<>>, Head(s) = "look"
    PROVE  [s EXCEPT ![1] = "make"] \in Chores /\ [s EXCEPT ![1] = "retitle"] \in Chores
<1>1. s \in {AskAgain, <<"look", "send">>}
  BY DEF Chores, Asked, Sent, Checked, AskAgain, Enqueue, RunCheck
<1> QED
  BY <1>1 DEF Chores, Asked, Sent, AskAgain

LEMMA ChoreSearches ==
    ASSUME NEW s \in Chores, s # <<>>
    PROVE  /\ Head(s) = "ask" => s = <<"ask", "store", "judge">>
           /\ Head(s) = "store" => s = <<"store", "judge">>
           /\ Head(s) = "judge" => s = <<"judge">>
BY DEF Chores, Asked, Sent, Checked, AskAgain, Enqueue, RunCheck

(* --------------------------- the initial state ------------------------ *)

LEMMA NoDutyFact ==
    ASSUME title \in Titles
    PROVE  NoDuty \in Duty /\ NoDuty.todo = <<>>
<1>1. Keywords # {}
  BY DEF Keywords
<1> QED
  BY <1>1 DEF NoDuty, Duty, Chores, NoAnswer, SearchAnswer

LEMMA InitEarned == CheckInit => EarnedInv
<1> SUFFICES ASSUME CheckInit PROVE EarnedInv
  OBVIOUS
<1>1. title \in Titles /\ KeywordOf[title] \in Keywords
  BY DEF CheckInit, Keywords
<1>2. PICK pages \in Placed : catalog = [revision |-> 1, page |-> pages, past |-> {pages}]
  BY DEF CheckInit
<1>3. CheckTypeOK
  <2>1. catalog \in [revision : Nat \ {0}, page : Placed, past : SUBSET Placed]
    BY <1>2
  <2>2. check \in [status : CheckStatuses, keyword : Keywords,
                   verdict : {"", "clear", "suspected", "failed"},
                   title : Titles, about : Keywords]
    BY <1>1 DEF CheckInit, CheckStatuses
  <2>3. duty \in [Agents -> Duty]
    BY <1>1, NoDutyFact DEF CheckInit, Agents
  <2> QED
    BY <1>1, <2>1, <2>2, <2>3 DEF CheckInit, CheckTypeOK
<1>4. SearchInv
  BY <1>1, NoDutyFact DEF CheckInit, SearchInv, Agents, Facing, Sound
<1> QED
  BY <1>2, <1>3, <1>4 DEF CheckInit, EarnedInv, CacheInv, VerdictIsEarned

(* ----------------------------- single steps --------------------------- *)

\* The steps of a search proper are the only ones of which anything is known.
Calm(d) == d.todo = <<>> \/ Head(d.todo) \notin Grave

LEMMA CalmIsSound == \A d : Calm(d) => Sound(d)
BY DEF Calm, Sound, Facing, Grave

LEMMA SoundKept ==
    ASSUME NEW d \in Duty, Sound(d), UNCHANGED catalog
    PROVE  Sound(d)'
BY DEF Sound, ReadSoFar, Earned, Facing

\* One process takes up d, and its catalogue stays as it is.
LEMMA DutyMoves ==
    ASSUME CheckTypeOK, SearchInv, NEW x \in Agents, NEW d \in Duty, Sound(d),
           duty' = [duty EXCEPT ![x] = d], UNCHANGED catalog
    PROVE  duty' \in [Agents -> Duty] /\ SearchInv'
<1>1. duty \in [Agents -> Duty]
  BY DEF CheckTypeOK
<1>2. duty'[x] = d /\ \A y \in Agents : y # x => duty'[y] = duty[y]
  BY <1>1
<1>3. ASSUME NEW y \in Agents PROVE Sound(duty[y])' 
  <2>1. CASE y = x
    <3>1. Sound(d)'
      BY SoundKept
    <3> QED
      BY <1>2, <2>1, <3>1 DEF Sound, Facing
  <2>2. CASE y # x
    <3>1. duty'[y] = duty[y] /\ duty[y] \in Duty /\ Sound(duty[y])
      BY <1>1, <1>2, <2>2 DEF SearchInv
    <3> QED
      BY <3>1 DEF Sound, ReadSoFar, Earned, Facing
  <2> QED
    BY <2>1, <2>2
<1> QED
  BY <1>1, <1>3 DEF SearchInv

LEMMA DismissIsCalm ==
    ASSUME CheckTypeOK, NEW x \in Agents, Dismiss(x)
    PROVE  \E d \in Duty : Calm(d) /\ duty' = [duty EXCEPT ![x] = d]
BY NoDutyFact DEF CheckTypeOK, Dismiss, Calm

LEMMA DoingIsDuty ==
    ASSUME CheckTypeOK, NEW x \in Agents, NEW todo \in Chores, Doing(x, todo)
    PROVE  \E d \in Duty : /\ duty' = [duty EXCEPT ![x] = d]
                           /\ d.todo = todo /\ d.keyword = duty[x].keyword
                           /\ d.answer = duty[x].answer
<1>1. duty[x] \in Duty
  BY DEF CheckTypeOK
<1> DEFINE d == [duty[x] EXCEPT !.todo = todo]
<1>2. d \in Duty /\ d.todo = todo /\ d.keyword = duty[x].keyword /\ d.answer = duty[x].answer
  BY <1>1 DEF Duty
<1>3. duty' = [duty EXCEPT ![x] = d]
  BY DEF Doing
<1> QED
  BY ONLY <1>2, <1>3

LEMMA ThenIsCalm ==
    ASSUME CheckTypeOK, NEW x \in Agents, duty[x].todo # <<>>,
           Head(duty[x].todo) \notin {"ask", "store"}, Then(x)
    PROVE  \E d \in Duty : Calm(d) /\ duty' = [duty EXCEPT ![x] = d]
<1>0. duty[x].todo \in Chores
  BY DEF CheckTypeOK, Duty
<1>1. CASE Dismiss(x)
  BY <1>1, DismissIsCalm
<1>2. CASE Doing(x, Tail(duty[x].todo))
  <2>1. /\ Tail(duty[x].todo) \in Chores
        /\ Tail(duty[x].todo) # <<>> => Head(Tail(duty[x].todo)) \notin Grave
    BY <1>0, ChoreTails
  <2>2. PICK d \in Duty : duty' = [duty EXCEPT ![x] = d] /\ d.todo = Tail(duty[x].todo)
    BY <1>2, <2>1, DoingIsDuty
  <2> QED
    BY <2>1, <2>2 DEF Calm
<1> QED
  BY <1>1, <1>2 DEF Then

\* A step in which a process only takes up other duties.
LEMMA QuietStep ==
    ASSUME EarnedInv, NEW x \in Agents, NEW d \in Duty, Sound(d),
           duty' = [duty EXCEPT ![x] = d], messages' \in Nat,
           UNCHANGED <<title, catalog, check, cached>>
    PROVE  EarnedInv'
<1>1. duty' \in [Agents -> Duty] /\ SearchInv'
  BY DutyMoves DEF EarnedInv
<1>2. CheckTypeOK'
  BY <1>1 DEF EarnedInv, CheckTypeOK
<1> QED
  BY <1>1, <1>2 DEF EarnedInv, CacheInv, Earned, VerdictIsEarned, Stood

LEMMA CalmStep ==
    ASSUME EarnedInv, NEW x \in Agents, messages' \in Nat,
           UNCHANGED <<title, catalog, check, cached>>,
           \E d \in Duty : Calm(d) /\ duty' = [duty EXCEPT ![x] = d]
    PROVE  EarnedInv'
BY QuietStep, CalmIsSound

\* ... or also changes a check that is not succeeded after it, or a verdict
\* about which nothing else is new.
LEMMA CheckStep ==
    ASSUME EarnedInv, NEW x \in Agents,
           \E d \in Duty : Calm(d) /\ duty' = [duty EXCEPT ![x] = d],
           check' \in [status : CheckStatuses, keyword : Keywords,
                       verdict : {"", "clear", "suspected", "failed"},
                       title : Titles, about : Keywords],
           UNCHANGED <<title, catalog, cached, messages>>, VerdictIsEarned'
    PROVE  EarnedInv'
<1>1. duty' \in [Agents -> Duty] /\ SearchInv'
  BY DutyMoves, CalmIsSound DEF EarnedInv
<1>2. CheckTypeOK'
  BY <1>1 DEF EarnedInv, CheckTypeOK
<1> QED
  BY <1>1, <1>2 DEF EarnedInv, CacheInv, Earned

LEMMA DueFacts ==
    ASSUME EarnedInv, NEW x \in Agents, NEW step, Due(x, step)
    PROVE  /\ duty[x] \in Duty /\ Sound(duty[x]) /\ duty[x].todo \in Chores
           /\ duty[x].todo # <<>> /\ Head(duty[x].todo) = step
           /\ Facing(duty[x], step)
BY DEF EarnedInv, CheckTypeOK, SearchInv, Due, Off, Facing, Duty

(* ----------------------------- the requests --------------------------- *)

LEMMA AskingSteps ==
    ASSUME EarnedInv, NEW x \in Agents, ProjectCreated(x) \/ AskForCheck(x)
    PROVE  EarnedInv'
<1>0. title \in Titles /\ messages \in Nat
  BY DEF EarnedInv, CheckTypeOK
<1>1. CASE ProjectCreated(x)
  <2> DEFINE d == [NoDuty EXCEPT !.todo = Enqueue]
  <2>1. d \in Duty /\ d.todo = Enqueue
    BY <1>0, NoDutyFact DEF Duty, Chores, Sent
  <2>2. Calm(d)
    BY <2>1 DEF Calm, Enqueue, Grave
  <2>3. duty' = [duty EXCEPT ![x] = d]
    BY <1>1 DEF ProjectCreated
  <2> HIDE DEF d
  <2> QED
    BY <1>0, <1>1, <2>1, <2>2, <2>3, CalmStep DEF ProjectCreated
<1>2. CASE AskForCheck(x)
  <2> DEFINE d == [NoDuty EXCEPT !.todo = AskAgain, !.title = title]
  <2>1. d \in Duty /\ d.todo = AskAgain
    BY <1>0, NoDutyFact DEF Duty, Chores, Asked
  <2>2. Calm(d)
    BY <2>1 DEF Calm, AskAgain, Grave
  <2>3. duty' = [duty EXCEPT ![x] = d]
    BY <1>2 DEF AskForCheck
  <2> HIDE DEF d
  <2> QED
    BY <1>0, <1>2, <2>1, <2>2, <2>3, CalmStep DEF AskForCheck
<1> QED
  BY <1>1, <1>2

LEMMA NameStep == ASSUME EarnedInv, NEW x \in Agents, NameProject(x) PROVE EarnedInv'
<1>0. title \in Titles /\ messages \in Nat
  BY DEF EarnedInv, CheckTypeOK
<1>1. Due(x, "name")
  BY DEF NameProject
<1>2. duty[x] \in Duty /\ duty[x].todo \in Chores /\ duty[x].todo # <<>> /\ Head(duty[x].todo) = "name"
  BY <1>1, DueFacts
<1> DEFINE d == [duty[x] EXCEPT !.title = title, !.todo = Tail(duty[x].todo)]
<1>3. /\ Tail(duty[x].todo) \in Chores
      /\ Tail(duty[x].todo) # <<>> => Head(Tail(duty[x].todo)) \notin Grave
  BY <1>2, ChoreTails
<1>4. d \in Duty /\ d.todo = Tail(duty[x].todo)
  BY <1>0, <1>2, <1>3 DEF Duty
<1>5. Calm(d)
  BY <1>3, <1>4 DEF Calm
<1>6. duty' = [duty EXCEPT ![x] = d]
  BY DEF NameProject
<1> HIDE DEF d
<1> QED
  BY <1>0, <1>4, <1>5, <1>6, CalmStep DEF NameProject

LEMMA LookStep == ASSUME EarnedInv, NEW x \in Agents, EnsureLook(x) PROVE EarnedInv'
<1>0. messages' \in Nat /\ UNCHANGED <<title, catalog, check, cached>> /\ CheckTypeOK
  BY DEF EarnedInv, CheckTypeOK, EnsureLook
<1>1. Due(x, "look")
  BY DEF EnsureLook
<1>2. duty[x] \in Duty /\ duty[x].todo \in Chores /\ duty[x].todo # <<>> /\ Head(duty[x].todo) = "look"
  BY <1>1, DueFacts
<1>3. ASSUME NEW step \in {"make", "retitle"}, duty' = [duty EXCEPT ![x].todo[1] = step]
      PROVE  EarnedInv'
  <2> DEFINE d == [duty[x] EXCEPT !.todo = [duty[x].todo EXCEPT ![1] = step]]
  <2>1. [duty[x].todo EXCEPT ![1] = step] \in Chores
    BY <1>2, ChoreLooks
  <2>2. d \in Duty /\ d.todo = [duty[x].todo EXCEPT ![1] = step]
    BY <1>2, <2>1 DEF Duty
  <2>3. duty' = [duty EXCEPT ![x] = d]
    BY <1>3
  <2>4. Calm(d)
    <3>1. duty[x].todo \in {<<"look", "reset", "name", "look", "send">>, <<"look", "send">>}
      BY <1>2 DEF Chores, Asked, Sent, Checked, AskAgain, Enqueue, RunCheck
    <3>2. Head([duty[x].todo EXCEPT ![1] = step]) = step
      BY <3>1
    <3> QED
      BY <2>2, <3>2 DEF Calm, Grave
  <2> HIDE DEF d
  <2> QED
    BY <1>0, <2>2, <2>3, <2>4, CalmStep
<1>4. CASE Doing(x, Tail(duty[x].todo))
  <2>1. /\ Tail(duty[x].todo) \in Chores
        /\ Tail(duty[x].todo) # <<>> => Head(Tail(duty[x].todo)) \notin Grave
    BY <1>2, ChoreTails
  <2>2. PICK d \in Duty : duty' = [duty EXCEPT ![x] = d] /\ d.todo = Tail(duty[x].todo)
    BY <1>0, <1>4, <2>1, DoingIsDuty
  <2> QED
    BY <1>0, <2>1, <2>2, CalmStep DEF Calm
<1> QED
  BY <1>3, <1>4 DEF EnsureLook

LEMMA SendSteps ==
    ASSUME EarnedInv, NEW x \in Agents,
           Send(x) \/ SendRefusedHere(x) \/ ReceiveCheck(x) \/ Lost(x)
    PROVE  EarnedInv'
<1>0. messages' \in Nat /\ UNCHANGED <<title, catalog, check, cached>> /\ CheckTypeOK
  <2>1. CheckTypeOK /\ messages \in Nat
    BY DEF EarnedInv, CheckTypeOK
  <2>2. /\ messages' \in {messages, messages + 1} \/ (messages > 0 /\ messages' = messages - 1)
        /\ UNCHANGED <<title, catalog, check, cached>>
    BY DEF Send, SendRefusedHere, ReceiveCheck, Lost
  <2> QED
    BY <2>1, <2>2
<1>1. CASE Send(x)
  <2>1. Due(x, "send") /\ Then(x)
    BY <1>1 DEF Send
  <2>2. duty[x].todo # <<>> /\ Head(duty[x].todo) = "send"
    BY <2>1, DueFacts
  <2> QED
    BY <1>0, <2>1, <2>2, ThenIsCalm, CalmStep
<1>2. CASE Doing(x, RunCheck)
  <2>1. RunCheck \in Chores
    BY DEF Chores, Checked
  <2>2. PICK d \in Duty : duty' = [duty EXCEPT ![x] = d] /\ d.todo = RunCheck
    BY <1>0, <1>2, <2>1, DoingIsDuty
  <2>3. Calm(d)
    BY <2>2 DEF Calm, RunCheck, Grave
  <2> QED
    BY <1>0, <2>2, <2>3, CalmStep
<1>3. CASE Lost(x)
  BY <1>0, <1>3, DismissIsCalm, CalmStep DEF Lost
<1> QED
  BY <1>1, <1>2, <1>3 DEF SendRefusedHere, ReceiveCheck

(* ------------------------------ the check ----------------------------- *)

LEMMA NoAnswerFact ==
    /\ NoAnswer \in SearchAnswer /\ NoAnswer.page = 1 /\ NoAnswer.revision = 0
    /\ NoAnswer.hit = FALSE
BY DEF NoAnswer, SearchAnswer

LEMMA ReadStep == ASSUME EarnedInv, NEW x \in Agents, ReadKeyword(x) PROVE EarnedInv'
<1> DEFINE k == check.keyword
           fresh == k \in Searchable /\ cached[k].state = "fresh"
           todo == IF k \in Unsearchable THEN <<"dull">>
                   ELSE IF fresh THEN <<"judge">> ELSE <<"ask", "store", "judge">>
           hit == fresh /\ cached[k].hit
           answer == [NoAnswer EXCEPT !.hit = hit]
           d == [duty[x] EXCEPT !.keyword = k, !.todo = todo, !.answer = answer]
<1>1. duty[x] \in Duty /\ k \in Keywords /\ messages \in Nat
  BY DEF EarnedInv, CheckTypeOK
<1>2. duty' = [duty EXCEPT ![x] = d]
  BY DEF ReadKeyword
<1>3. todo \in Chores
  BY DEF Chores, Checked
<1>4. hit \in BOOLEAN
  BY DEF EarnedInv, CheckTypeOK
<1> HIDE DEF hit
<1>5. /\ answer \in SearchAnswer /\ answer.hit = hit
      /\ answer.page = 1 /\ answer.revision = 0
  BY <1>4, NoAnswerFact DEF SearchAnswer
<1> HIDE DEF answer, todo
<1>6. d \in Duty /\ d.todo = todo /\ d.keyword = k /\ d.answer = answer
  BY <1>1, <1>3, <1>5 DEF Duty
<1> HIDE DEF d
<1>7. Sound(d)
  <2>1. CASE k \in Unsearchable
    <3>1. d.todo = <<"dull">> /\ k \notin Searchable
      BY <1>6, <2>1 DEF todo, Searchable
    <3> QED
      BY <1>6, <3>1 DEF Sound, Facing
  <2>2. CASE k \notin Unsearchable /\ fresh
    <3>1. d.todo = <<"judge">> /\ k \in Searchable
      BY <1>6, <2>2 DEF todo
    <3>2. Earned(k, cached[k].hit) /\ cached[k].hit \in BOOLEAN
      BY <2>2 DEF EarnedInv, CacheInv, CheckTypeOK
    <3>3. Earned(k, answer.hit)
      BY <1>5, <2>2, <3>2 DEF Earned, hit
    <3> QED
      BY <1>6, <3>1, <3>3 DEF Sound, Facing
  <2>3. CASE k \notin Unsearchable /\ ~ fresh
    <3>1. d.todo = <<"ask", "store", "judge">> /\ k \in Searchable
      BY <1>1, <1>6, <2>3 DEF todo, Searchable
    <3>2. answer.hit = FALSE
      BY <1>5, <2>3 DEF hit
    <3>3. catalog.page \in catalog.past /\ catalog.revision \in Nat \ {0}
      BY DEF EarnedInv, CheckTypeOK
    <3>4. ReadSoFar(answer, k)
      BY <1>5, <3>2, <3>3, CheckAssumption DEF ReadSoFar
    <3> QED
      BY <1>6, <3>1, <3>4 DEF Sound, Facing
  <2> QED
    BY <2>1, <2>2, <2>3
<1> QED
  BY <1>1, <1>2, <1>6, <1>7, QuietStep DEF ReadKeyword

\* A process that goes on asking, with another answer so far.
LEMMA AskOn ==
    ASSUME EarnedInv, NEW x \in Agents, Due(x, "ask"), NEW a \in SearchAnswer,
           ReadSoFar(a, duty[x].keyword),
           duty' = [duty EXCEPT ![x].answer = a],
           UNCHANGED <<title, catalog, check, cached, messages>>
    PROVE  EarnedInv'
<1> DEFINE d == [duty[x] EXCEPT !.answer = a]
<1>1. /\ duty[x] \in Duty /\ Sound(duty[x]) /\ Facing(duty[x], "ask")
      /\ duty[x].todo # <<>> /\ Head(duty[x].todo) = "ask"
  BY DueFacts
<1>2. duty[x].keyword \in Searchable
  BY <1>1 DEF Sound
<1>3. d \in Duty /\ d.todo = duty[x].todo /\ d.keyword = duty[x].keyword /\ d.answer = a
  BY <1>1 DEF Duty
<1>4. duty' = [duty EXCEPT ![x] = d]
  OBVIOUS
<1> HIDE DEF d
<1>5. Sound(d)
  BY <1>1, <1>2, <1>3 DEF Sound, Facing
<1>6. messages' \in Nat
  BY DEF EarnedInv, CheckTypeOK
<1> QED
  BY <1>3, <1>4, <1>5, <1>6, QuietStep

LEMMA GiveUp ==
    ASSUME EarnedInv, NEW x \in Agents, Doing(x, Unanswered(x)),
           UNCHANGED <<title, catalog, check, cached, messages>>
    PROVE  EarnedInv'
<1>1. CheckTypeOK /\ messages' \in Nat
  BY DEF EarnedInv, CheckTypeOK
<1>2. <<"fail">> \in Chores
  BY DEF Chores, Checked
<1>3. PICK d \in Duty : duty' = [duty EXCEPT ![x] = d] /\ d.todo = <<"fail">>
  BY <1>1, <1>2, DoingIsDuty DEF Unanswered
<1>4. Calm(d)
  BY <1>3 DEF Calm, Grave
<1> QED
  BY <1>1, <1>3, <1>4, CalmStep

LEMMA RefusedSteps ==
    ASSUME EarnedInv, NEW x \in Agents,
           AskedTooOften(x) \/ CatalogChanged(x) \/ Unreachable(x)
    PROVE  EarnedInv'
<1>1. /\ Due(x, "ask")
      /\ UNCHANGED <<title, catalog, check, cached, messages>>
  BY DEF AskedTooOften, CatalogChanged, Unreachable
<1>2. /\ duty[x].answer \in SearchAnswer
      /\ ReadSoFar(duty[x].answer, duty[x].keyword)
  BY <1>1, DueFacts DEF Duty, Sound
<1>3. CASE Doing(x, Unanswered(x))
  BY <1>1, <1>3, GiveUp
<1>4. CASE duty' = [duty EXCEPT ![x].answer.attempt = 1]
  <2> DEFINE a == [duty[x].answer EXCEPT !.attempt = 1]
  <2>1. a \in SearchAnswer /\ ReadSoFar(a, duty[x].keyword)
    BY <1>2 DEF SearchAnswer, ReadSoFar
  <2>2. duty' = [duty EXCEPT ![x].answer = a]
    BY <1>4
  <2> HIDE DEF a
  <2> QED
    BY <1>1, <2>1, <2>2, AskOn
<1>5. CASE duty' = [duty EXCEPT ![x].answer = [NoAnswer EXCEPT !.round = 1]]
  <2> DEFINE a == [NoAnswer EXCEPT !.round = 1]
  <2>1. a \in SearchAnswer /\ a.page = 1 /\ a.revision = 0 /\ a.hit = FALSE
    BY NoAnswerFact DEF SearchAnswer
  <2>2. catalog.page \in catalog.past /\ catalog.revision \in Nat \ {0}
    BY DEF EarnedInv, CheckTypeOK
  <2>3. ReadSoFar(a, duty[x].keyword)
    BY <2>1, <2>2, CheckAssumption DEF ReadSoFar
  <2>4. duty' = [duty EXCEPT ![x].answer = a]
    BY <1>5
  <2> HIDE DEF a
  <2> QED
    BY <1>1, <2>1, <2>3, <2>4, AskOn
<1> QED
  BY <1>3, <1>4, <1>5 DEF AskedTooOften, CatalogChanged, Unreachable

\* A page extends what has been read of one revision, and the last one
\* completes a search of it.
LEMMA PageStep == ASSUME EarnedInv, NEW x \in Agents, PageAnswered(x) PROVE EarnedInv'
<1> DEFINE a == duty[x].answer
           k == duty[x].keyword
           seen == a.hit \/ catalog.page[k] = a.page
           last == a.page = MaxPages \/ a.page = CatalogPages
<1>1. /\ Due(x, "ask") /\ ~ Outdated(x)
      /\ UNCHANGED <<title, catalog, check, cached, messages>>
  BY DEF PageAnswered
<1>2. /\ duty[x] \in Duty /\ a \in SearchAnswer /\ Sound(duty[x]) /\ Facing(duty[x], "ask")
      /\ duty[x].todo \in Chores /\ duty[x].todo # <<>> /\ Head(duty[x].todo) = "ask"
  BY <1>1, DueFacts DEF Duty
<1>3. k \in Searchable /\ ReadSoFar(a, k)
  BY <1>2 DEF Sound
<1>4. /\ catalog.revision \in Nat \ {0} /\ catalog.page \in catalog.past
      /\ catalog.page[k] \in 0..CatalogPages
  BY <1>3 DEF EarnedInv, CheckTypeOK, Placed
<1>5. a.revision \in {0, catalog.revision}
  BY <1>1 DEF Outdated
<1>6. /\ a.page \in Nat \ {0} /\ a.hit \in BOOLEAN /\ a.page <= MaxPages /\ a.page <= CatalogPages
  BY <1>2, <1>3 DEF SearchAnswer, ReadSoFar
<1>7. a.hit <=> catalog.page[k] \in 1..(a.page - 1)
  <2>1. CASE a.revision = 0
    <3>1. a.page = 1 /\ ~ a.hit
      BY <1>3, <2>1 DEF ReadSoFar
    <3> QED
      BY <1>4, <3>1
  <2>2. CASE a.revision = catalog.revision
    BY <1>3, <2>2 DEF ReadSoFar
  <2> QED
    BY <1>5, <2>1, <2>2
<1>8. seen <=> catalog.page[k] \in 1..a.page
  BY <1>4, <1>6, <1>7
<1>9. CASE last
  <2> DEFINE d == [duty[x] EXCEPT !.answer.hit = seen, !.todo = Tail(duty[x].todo)]
  <2>1. seen \in BOOLEAN
    OBVIOUS
  <2>2. duty' = [duty EXCEPT ![x] = d]
    BY <1>9 DEF PageAnswered
  <2>3. duty[x].todo = <<"ask", "store", "judge">>
    BY <1>2, ChoreSearches
  <2>4. Tail(duty[x].todo) = <<"store", "judge">>
    BY <2>3
  <2>5. <<"store", "judge">> \in Chores
    BY DEF Chores, Checked
  <2>6. seen <=> catalog.page[k] \in 1..MaxPages
    BY <1>4, <1>6, <1>8, <1>9, CheckAssumption
  <2> HIDE DEF seen
  <2>7. /\ d \in Duty /\ d.todo = <<"store", "judge">> /\ d.keyword = k
        /\ d.answer.hit = seen
    BY <1>2, <2>1, <2>4, <2>5 DEF Duty, SearchAnswer
  <2> HIDE DEF d
  <2>8. Earned(k, seen)
    BY <1>4, <2>6 DEF Earned
  <2>9. Sound(d)
    <3>1. Head(d.todo) = "store"
      BY <2>7
    <3>2. ~ Facing(d, "ask") /\ ~ Facing(d, "dull")
      BY <3>1 DEF Facing
    <3> QED
      BY <1>3, <2>7, <2>8, <3>2 DEF Sound
  <2>10. messages' \in Nat
    BY <1>1 DEF EarnedInv, CheckTypeOK
  <2> QED
    BY <1>1, <2>2, <2>7, <2>9, <2>10, QuietStep
<1>10. CASE ~ last
  <2> DEFINE b == [a EXCEPT !.hit = seen, !.page = a.page + 1, !.attempt = 0,
                            !.revision = catalog.revision]
  <2>1. seen \in BOOLEAN
    OBVIOUS
  <2>2. duty' = [duty EXCEPT ![x].answer = b]
    BY <1>10 DEF PageAnswered
  <2> HIDE DEF seen
  <2>3. /\ b \in SearchAnswer /\ b.hit = seen /\ b.page = a.page + 1
        /\ b.revision = catalog.revision
    <3>1. a.page + 1 \in Nat \ {0} /\ catalog.revision \in Nat
      BY <1>4, <1>6
    <3> QED
      BY <1>2, <2>1, <3>1 DEF SearchAnswer
  <2> HIDE DEF b
  <2>4. ReadSoFar(b, k)
    <3>1. a.page + 1 <= MaxPages /\ a.page + 1 <= CatalogPages
      BY <1>6, <1>10, CheckAssumption
    <3>2. seen <=> catalog.page[k] \in 1..(b.page - 1)
      BY <1>6, <1>8, <2>3
    <3> QED
      BY <1>4, <2>3, <3>1, <3>2 DEF ReadSoFar
  <2> QED
    BY <1>1, <2>2, <2>3, <2>4, AskOn
<1> QED
  BY <1>9, <1>10

LEMMA StoreStep == ASSUME EarnedInv, NEW x \in Agents, StoreQuery(x) PROVE EarnedInv'
<1> DEFINE k == duty[x].keyword
           hit == duty[x].answer.hit
<1>1. Due(x, "store") /\ CheckTypeOK /\ Then(x) /\ UNCHANGED <<title, catalog, check, messages>>
  BY DEF StoreQuery, EarnedInv
<1>2. /\ duty[x] \in Duty /\ Sound(duty[x]) /\ Facing(duty[x], "store")
      /\ duty[x].todo = <<"store", "judge">>
  BY <1>1, DueFacts, ChoreSearches
<1>3. k \in Searchable /\ Earned(k, hit) /\ hit \in BOOLEAN
  BY <1>2 DEF Sound, Duty, SearchAnswer
<1>4. Tail(duty[x].todo) = <<"judge">> /\ Len(duty[x].todo) = 2 /\ <<"judge">> \in Chores
  BY <1>2 DEF Chores, Checked
<1>5. Doing(x, <<"judge">>)
  <2>1. Doing(x, Tail(duty[x].todo))
    BY <1>1, <1>4 DEF Then
  <2> QED
    BY <1>4, <2>1 DEF Doing
<1>6. PICK d \in Duty : /\ duty' = [duty EXCEPT ![x] = d]
                        /\ d.todo = <<"judge">> /\ d.keyword = k
                        /\ d.answer = duty[x].answer
  BY <1>1, <1>4, <1>5, DoingIsDuty
<1>7. Sound(d)
  <2>1. ~ Facing(d, "ask") /\ ~ Facing(d, "dull")
    BY <1>6 DEF Facing
  <2> QED
    BY <1>3, <1>6, <2>1 DEF Sound
<1>8. duty' \in [Agents -> Duty] /\ SearchInv'
  BY <1>1, <1>6, <1>7, DutyMoves DEF EarnedInv
<1>9. cached' = [cached EXCEPT ![k] = [state |-> "fresh", hit |-> hit]]
  BY DEF StoreQuery
<1> HIDE DEF k, hit
<1>10. /\ cached' \in [Searchable -> [state : {"none", "fresh", "stale"}, hit : BOOLEAN]]
       /\ CacheInv'
  <2>1. cached \in [Searchable -> [state : {"none", "fresh", "stale"}, hit : BOOLEAN]]
    BY DEF EarnedInv, CheckTypeOK
  <2>2. cached'[k].state = "fresh" /\ cached'[k].hit = hit
    BY <1>3, <1>9, <2>1
  <2>3. \A j \in Searchable : j # k => cached'[j] = cached[j]
    BY <1>9, <2>1
  <2>4. ASSUME NEW j \in Searchable, cached'[j].state = "fresh"
        PROVE  Earned(j, cached[j].hit)'
    <3>1. CASE j = k
      BY <1>1, <1>3, <2>2, <3>1 DEF Earned
    <3>2. CASE j # k
      BY <1>1, <2>3, <2>4, <3>2 DEF EarnedInv, CacheInv, Earned
    <3> QED
      BY <3>1, <3>2
  <2>5. [state |-> "fresh", hit |-> hit] \in [state : {"none", "fresh", "stale"}, hit : BOOLEAN]
    BY <1>3
  <2>6. cached' \in [Searchable -> [state : {"none", "fresh", "stale"}, hit : BOOLEAN]]
    BY ONLY <1>9, <2>1, <2>5
  <2> QED
    BY <2>4, <2>6 DEF CacheInv
<1>11. CheckTypeOK'
  BY <1>1, <1>8, <1>10 DEF CheckTypeOK
<1> QED
  BY <1>1, <1>8, <1>10, <1>11 DEF EarnedInv, VerdictIsEarned, Stood

LEMMA JudgeStep == ASSUME EarnedInv, NEW x \in Agents, Judge(x) PROVE EarnedInv'
<1> DEFINE d == [duty[x] EXCEPT !.title = title, !.todo = <<"record">>]
<1>1. /\ Due(x, "judge") /\ title \in Titles /\ messages' \in Nat
      /\ UNCHANGED <<title, catalog, check, cached>>
  BY DEF Judge, EarnedInv, CheckTypeOK
<1>2. duty[x] \in Duty /\ Sound(duty[x]) /\ Facing(duty[x], "judge")
  BY <1>1, DueFacts
<1>3. duty[x].keyword \in Searchable /\ Earned(duty[x].keyword, duty[x].answer.hit)
  BY <1>2 DEF Sound
<1>4. <<"record">> \in Chores
  BY DEF Chores, Checked
<1>5. /\ d \in Duty /\ d.todo = <<"record">> /\ d.keyword = duty[x].keyword
      /\ d.answer = duty[x].answer
  BY <1>1, <1>2, <1>4 DEF Duty
<1>6. duty' = [duty EXCEPT ![x] = d]
  BY DEF Judge
<1> HIDE DEF d
<1>7. Sound(d)
  <2>1. ~ Facing(d, "ask") /\ ~ Facing(d, "dull")
    BY <1>5 DEF Facing
  <2> QED
    BY <1>3, <1>5, <2>1 DEF Sound
<1> QED
  BY <1>1, <1>5, <1>6, <1>7, QuietStep

(* --------------------- steps that change the check -------------------- *)

CheckDocs == [status : CheckStatuses, keyword : Keywords,
              verdict : {"", "clear", "suspected", "failed"},
              title : Titles, about : Keywords]

\* Whatever changes no verdict leaves the verdicts earned.
LEMMA NoVerdict ==
    ASSUME EarnedInv, UNCHANGED catalog,
           \/ check'.status # "succeeded"
           \/ /\ check'.status = check.status /\ check'.verdict = check.verdict
              /\ check'.title = check.title /\ check'.about = check.about
    PROVE  VerdictIsEarned'
BY DEF EarnedInv, VerdictIsEarned, Stood

LEMMA WantedIsKeyword ==
    ASSUME EarnedInv, NEW x \in Agents
    PROVE  Wanted(x) \in Keywords /\ duty[x].title \in Titles /\ duty[x].keyword \in Keywords
BY DEF EarnedInv, CheckTypeOK, Duty, Wanted, Keywords

LEMMA EnsureSteps ==
    ASSUME EarnedInv, NEW x \in Agents,
           EnsureMake(x) \/ EnsureRetitle(x) \/ Reset(x) \/ ClaimCheck(x)
    PROVE  EarnedInv'
<1>1. PICK step \in {"make", "retitle", "reset", "claim"} : Due(x, step)
  BY DEF EnsureMake, EnsureRetitle, Reset, ClaimCheck
<1>2. duty[x].todo # <<>> /\ Head(duty[x].todo) = step
  BY <1>1, DueFacts
<1>3. /\ UNCHANGED <<title, catalog, cached, messages>> /\ messages' \in Nat
      /\ Then(x) \/ Dismiss(x)
  BY DEF EnsureMake, EnsureRetitle, Reset, ClaimCheck, EarnedInv, CheckTypeOK
<1>4. \E d \in Duty : Calm(d) /\ duty' = [duty EXCEPT ![x] = d]
  BY <1>2, <1>3, ThenIsCalm, DismissIsCalm DEF EarnedInv
<1>5. check \in CheckDocs /\ Wanted(x) \in Keywords
  BY WantedIsKeyword DEF EarnedInv, CheckTypeOK, CheckDocs
<1>6. /\ check' \in CheckDocs
      /\ \/ check'.status # "succeeded"
         \/ /\ check'.status = check.status /\ check'.verdict = check.verdict
            /\ check'.title = check.title /\ check'.about = check.about
  <2>1. CASE UNCHANGED check
    BY <1>5, <2>1
  <2>2. CASE check' = [check EXCEPT !.status = "queued", !.keyword = Wanted(x)]
    BY <1>5, <2>2 DEF CheckDocs, CheckStatuses
  <2>3. CASE check' = [check EXCEPT !.keyword = Wanted(x)]
    BY <1>5, <2>3 DEF CheckDocs
  <2>4. CASE check' = [check EXCEPT !.status = "queued", !.verdict = ""]
    BY <1>5, <2>4 DEF CheckDocs, CheckStatuses
  <2>5. CASE check' = [check EXCEPT !.status = "running"]
    BY <1>5, <2>5 DEF CheckDocs, CheckStatuses
  <2> QED
    BY <2>1, <2>2, <2>3, <2>4, <2>5 DEF EnsureMake, EnsureRetitle, Reset, ClaimCheck
<1>7. VerdictIsEarned'
  BY <1>3, <1>6, NoVerdict
<1> QED
  BY <1>3, <1>4, <1>6, <1>7, CheckStep DEF CheckDocs

\* A recorded verdict is that of the answer the worker holds, if the title it
\* has judged is one of the keyword it has searched.
LEMMA RecordSteps ==
    ASSUME EarnedInv, NEW x \in Agents,
           RecordUnsearched(x) \/ RecordVerdict(x) \/ RecordFailure(x)
    PROVE  EarnedInv'
<1>1. PICK step \in {"dull", "record", "fail"} : Due(x, step)
  BY DEF RecordUnsearched, RecordVerdict, RecordFailure
<1>2. duty[x].todo # <<>> /\ Head(duty[x].todo) = step
  BY <1>1, DueFacts
<1>3. /\ UNCHANGED <<title, catalog, cached, messages>> /\ Then(x)
  BY DEF RecordUnsearched, RecordVerdict, RecordFailure
<1>4. \E d \in Duty : Calm(d) /\ duty' = [duty EXCEPT ![x] = d]
  BY <1>2, <1>3, ThenIsCalm DEF EarnedInv
<1>5. /\ check \in CheckDocs /\ duty[x].title \in Titles /\ duty[x].keyword \in Keywords
  BY WantedIsKeyword DEF EarnedInv, CheckTypeOK, CheckDocs
<1>6. ASSUME NEW hit \in BOOLEAN, NEW of \in Titles, SetResult(x, hit, of)
      PROVE  /\ check' \in CheckDocs /\ check'.status = "succeeded"
             /\ check'.verdict = Finding(hit)
             /\ check'.title = of /\ check'.about = duty[x].keyword
  BY <1>5, <1>6 DEF CheckDocs, SetResult, Finding, CheckStatuses
<1>7. CASE RecordUnsearched(x)
  <2>1. SetResult(x, FALSE, duty[x].title) /\ Due(x, "dull")
    BY <1>7 DEF RecordUnsearched
  <2>2. duty[x].keyword \notin Searchable
    BY <2>1, DueFacts DEF Sound
  <2>3. check' \in CheckDocs /\ check'.about = duty[x].keyword
    BY <1>5, <1>6, <2>1
  <2>4. VerdictIsEarned'
    BY <2>2, <2>3 DEF VerdictIsEarned
  <2> QED
    BY <1>3, <1>4, <2>3, <2>4, CheckStep DEF CheckDocs
<1>8. CASE RecordVerdict(x)
  <2> DEFINE hit == duty[x].answer.hit /\ Wanted(x) = duty[x].keyword
  <2>1. SetResult(x, hit, duty[x].title) /\ Due(x, "record") /\ hit \in BOOLEAN
    BY <1>8 DEF RecordVerdict, Due
  <2>2. /\ duty[x].keyword \in Searchable /\ duty[x].answer.hit \in BOOLEAN
        /\ Earned(duty[x].keyword, duty[x].answer.hit)
    BY <2>1, DueFacts DEF Sound, Duty, SearchAnswer
  <2>3. /\ check' \in CheckDocs /\ check'.verdict = Finding(hit)
        /\ check'.title = duty[x].title /\ check'.about = duty[x].keyword
    BY <1>5, <1>6, <2>1
  <2>4. KeywordOf[check'.title] = check'.about => hit = duty[x].answer.hit
    BY <2>2, <2>3 DEF Wanted
  <2> HIDE DEF hit
  <2>5. VerdictIsEarned'
    BY <1>3, <2>1, <2>2, <2>3, <2>4 DEF VerdictIsEarned, Stood, Earned, Finding
  <2> QED
    BY <1>3, <1>4, <2>3, <2>5, CheckStep DEF CheckDocs
<1>9. CASE RecordFailure(x)
  <2>1. check' \in CheckDocs /\ check'.status = "failed"
    BY <1>5, <1>9 DEF RecordFailure, SetFailed, CheckDocs, CheckStatuses
  <2>2. VerdictIsEarned'
    BY <2>1 DEF VerdictIsEarned
  <2> QED
    BY <1>3, <1>4, <2>1, <2>2, CheckStep DEF CheckDocs
<1> QED
  BY <1>7, <1>8, <1>9

(* --------------------------- the environment -------------------------- *)

LEMMA Unmoved ==
    ASSUME EarnedInv, title' \in Titles, UNCHANGED <<catalog, check, messages, duty>>,
           cached' \in [Searchable -> [state : {"none", "fresh", "stale"}, hit : BOOLEAN]],
           CacheInv'
    PROVE  EarnedInv'
<1>1. CheckTypeOK'
  BY DEF EarnedInv, CheckTypeOK
<1>2. SearchInv'
  <2>1. ASSUME NEW x \in Agents PROVE Sound(duty[x])'
    <3>1. duty'[x] = duty[x] /\ Sound(duty[x])
      BY DEF EarnedInv, SearchInv
    <3> QED
      BY <3>1 DEF Sound, Facing, ReadSoFar, Earned
  <2> QED
    BY <2>1 DEF SearchInv
<1>3. VerdictIsEarned'
  BY NoVerdict
<1> QED
  BY <1>1, <1>2, <1>3 DEF EarnedInv

LEMMA RenameStep == ASSUME EarnedInv, Rename PROVE EarnedInv'
<1>1. title' \in Titles /\ UNCHANGED <<catalog, check, cached, messages, duty>>
  BY DEF Rename
<1>2. CacheInv'
  BY <1>1 DEF EarnedInv, CacheInv, Earned
<1> QED
  BY <1>1, <1>2, Unmoved DEF EarnedInv, CheckTypeOK

\* Who has read pages of the old revision holds them to it; what was earned
\* stays earned, as the revision stays in the past of the catalogue.
LEMMA RevisionStep == ASSUME EarnedInv, NewRevision PROVE EarnedInv'
<1>1. PICK k \in Searchable, p \in 0..CatalogPages :
        catalog' = [revision |-> catalog.revision + 1,
                    page |-> [catalog.page EXCEPT ![k] = p],
                    past |-> catalog.past \cup {[catalog.page EXCEPT ![k] = p]}]
  BY DEF NewRevision
<1>2. /\ catalog.revision \in Nat \ {0} /\ catalog.page \in Placed /\ catalog.past \in SUBSET Placed
  BY DEF EarnedInv, CheckTypeOK
<1>3. [catalog.page EXCEPT ![k] = p] \in Placed
  BY <1>2 DEF Placed
<1> DEFINE new == [catalog.page EXCEPT ![k] = p]
<1> HIDE DEF new
<1>4. /\ catalog'.revision = catalog.revision + 1 /\ catalog'.page = new
      /\ catalog'.past = catalog.past \cup {new} /\ new \in Placed
      /\ catalog' \in [revision : Nat \ {0}, page : Placed, past : SUBSET Placed]
  BY <1>1, <1>2, <1>3 DEF new
<1>5. UNCHANGED <<title, check, cached, messages, duty>>
  BY DEF NewRevision
<1>6. CheckTypeOK' /\ catalog'.page \in catalog'.past
  BY <1>4, <1>5 DEF EarnedInv, CheckTypeOK
<1>7. ASSUME NEW x \in Agents PROVE Sound(duty[x])'
  <2>1. Sound(duty[x]) /\ duty[x] \in Duty /\ duty'[x] = duty[x]
    BY <1>5 DEF EarnedInv, SearchInv, CheckTypeOK
  <2>2. ASSUME ReadSoFar(duty[x].answer, duty[x].keyword)
        PROVE  ReadSoFar(duty[x].answer, duty[x].keyword)'
    <3>1. duty[x].answer.revision \in Nat
      BY <2>1 DEF Duty, SearchAnswer
    <3>2. duty[x].answer.revision <= catalog.revision
      BY <2>2 DEF ReadSoFar
    <3>3. duty[x].answer.revision <= catalog'.revision /\ duty[x].answer.revision # catalog'.revision
      BY <1>2, <1>4, <3>1, <3>2
    <3> QED
      BY <1>4, <2>1, <2>2, <3>3 DEF ReadSoFar
  <2> QED
    BY <1>4, <2>1, <2>2 DEF Sound, Facing, Earned
<1>8. CacheInv'
  BY <1>4, <1>5 DEF EarnedInv, CacheInv, Earned
<1>9. VerdictIsEarned'
  BY <1>4, <1>5 DEF EarnedInv, VerdictIsEarned, Stood
<1> QED
  BY <1>6, <1>7, <1>8, <1>9 DEF EarnedInv, SearchInv

LEMMA StaleStep ==
    ASSUME EarnedInv, NEW k \in Searchable, GrowStale(k)
    PROVE  EarnedInv'
<1>1. cached \in [Searchable -> [state : {"none", "fresh", "stale"}, hit : BOOLEAN]]
  BY DEF EarnedInv, CheckTypeOK
<1>2. cached' = [cached EXCEPT ![k].state = "stale"] /\ UNCHANGED <<title, catalog, check, messages, duty>>
  BY DEF GrowStale
<1>3. /\ cached' \in [Searchable -> [state : {"none", "fresh", "stale"}, hit : BOOLEAN]]
      /\ \A j \in Searchable : cached'[j].state = "fresh" => cached'[j] = cached[j]
  BY <1>1, <1>2
<1>4. CacheInv'
  BY <1>2, <1>3 DEF EarnedInv, CacheInv, Earned
<1> QED
  BY <1>2, <1>3, <1>4, Unmoved DEF EarnedInv, CheckTypeOK

(* ------------------------------ the theorem --------------------------- *)

LEMMA StutterEarned == ASSUME EarnedInv, UNCHANGED checkVars PROVE EarnedInv'
<1>1. CacheInv' /\ cached' = cached
  BY DEF checkVars, EarnedInv, CacheInv, Earned
<1> QED
  BY <1>1, Unmoved DEF checkVars, EarnedInv, CheckTypeOK

LEMMA NextEarned == EarnedInv /\ [CheckNext]_checkVars => EarnedInv'
<1> SUFFICES ASSUME EarnedInv, [CheckNext]_checkVars PROVE EarnedInv'
  OBVIOUS
<1>1. ASSUME NEW x \in Askers, ProjectCreated(x) \/ AskForCheck(x) PROVE EarnedInv'
  BY <1>1, AskingSteps DEF Agents
<1>2. ASSUME NEW x \in Agents, Ensuring(x) PROVE EarnedInv'
  BY <1>2, NameStep, LookStep, EnsureSteps DEF Ensuring
<1>3. ASSUME NEW x \in Agents, Searching(x) PROVE EarnedInv'
  BY <1>3, EnsureSteps, ReadStep, PageStep, RefusedSteps, StoreStep, JudgeStep, RecordSteps
     DEF Searching
<1>4. ASSUME NEW x \in Agents, CheckGoesOn(x) \/ Lost(x) PROVE EarnedInv'
  BY <1>2, <1>3, <1>4, SendSteps DEF CheckGoesOn
<1> QED
  BY <1>1, <1>4, RenameStep, RevisionStep, StaleStep, StutterEarned DEF CheckNext, Agents

\* A verdict is earned: no failed, interrupted, limited or cached query of the
\* partner is recorded as an answer that no revision of its catalogue gives,
\* whatever titles, catalogues, pages and retries there are, and whoever asks,
\* renames, dies or runs the same check a second time meanwhile.
THEOREM VerdictsAreEarned == CheckSpec => []VerdictIsEarned
<1>1. EarnedInv => VerdictIsEarned
  BY DEF EarnedInv
<1> QED
  BY InitEarned, NextEarned, <1>1, PTL DEF CheckSpec

=============================================================================
