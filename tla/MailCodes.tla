------------------------------ MODULE MailCodes ------------------------------
(* Verification codes sent by mail: one record for each purpose and address, *)
(* replaced by every new request, mailed by a task that only knows the       *)
(* record's id and version, and compared with what the user types when he    *)
(* registers, moves to another address or resets a password.  Notifications  *)
(* are enabled, so mails go through the queue for security mails.            *)
EXTENDS Naturals, SequencesExt

CONSTANTS
  Addresses,  \* lower-case mail addresses
  Requests,   \* requests served at the same time
  MaxWrong,   \* wrong answers a record survives; 4 in the code
  MaxCodes,   \* bound: codes in a behaviour
  MaxCalls    \* bound: codes asked for and typed in a behaviour

VARIABLES
  registered, \* addresses with an account
  code,       \* purpose and address -> records, the oldest first
  queued,     \* messages for the mail worker: [box, id, content]
  sending,    \* the mail a worker has rendered, or none
  inbox,      \* content of the mail that arrived last, 0 if none
  ask,        \* what a request is doing: [at, box, id, content, checks,
              \*                           passed, goal, verdict]
  spent,      \* contents whose record a check has deleted
  unsent,     \* boxes whose latest mail was refused or given up
  told,       \* bounds: [codes, answers] so far
  blurred     \* boxes in which a window of the code has been hit

mailVars == <<registered, code, queued, sending, inbox, ask, spent, unsent,
              told, blurred>>

Boxes == {"confirm", "reset", "password"} \X Addresses
Purpose(b) == b[1]
Address(b) == b[2]
None == <<"none", "none">>
NoRecord == [id |-> 0, content |-> 0, cold |-> FALSE, mailed |-> FALSE,
             valid |-> FALSE, wrong |-> 0]
NoVerdict == [does |-> "keep", passes |-> FALSE, seen |-> NoRecord]
NoMail == [box |-> None, id |-> 0, content |-> 0]
Waiting == [at |-> "idle", box |-> None, id |-> 0, content |-> 0,
            checks |-> <<>>, passed |-> TRUE, goal |-> None,
            verdict |-> NoVerdict]
Calls == told.codes + told.answers

MailInit ==
  /\ \E a \in Addresses : registered = {a}
  /\ code = [b \in Boxes |-> <<>>]
  /\ queued = {} /\ sending = NoMail
  /\ inbox = [b \in Boxes |-> 0]
  /\ ask = [r \in Requests |-> Waiting]
  /\ spent = {} /\ unsent = {} /\ blurred = {}
  /\ told = [codes |-> 0, answers |-> 0]

(* --------------------------- asking for a code -------------------------- *)

\* VCode.objects(type, info).first(): nothing makes the record unique.
FirstId(b) == IF code[b] = <<>> THEN 0 ELSE code[b][1].id
Stored(b, id) == \E i \in DOMAIN code[b] : code[b][i].id = id
Record(b, id) == CHOOSE d \in Range(code[b]) : d.id = id
Revise(b, id, d) ==
  [code EXCEPT ![b] = [i \in DOMAIN @ |-> IF @[i].id = id THEN d ELSE @[i]]]
Forget(b, id) ==
  [code EXCEPT ![b] = RemoveAt(@, CHOOSE i \in DOMAIN @ : @[i].id = id)]

Bug_Cooling(b) == FALSE
Cooling(b) == code[b] # <<>> /\ code[b][1].cold

\* A new address is confirmed; an account's own address is used to reset.
MayAsk(b) == (Purpose(b) = "confirm") = (Address(b) \notin registered)

Asking(b) ==
  \E r \in Requests :
    ask[r].box = b /\ ask[r].at \in {"save", "send", "stamp"}

UnderWay(b) ==
  \/ \E r \in Requests : ask[r].box = b /\ ask[r].at # "idle"
  \/ sending.box = b \/ \E m \in queued : m.box = b

\* The string is drawn before the record is looked for.
AskCode(r, b) ==
  /\ ask[r].at = "idle" /\ told.codes < MaxCodes /\ Calls < MaxCalls
  /\ MayAsk(b) /\ ~ Cooling(b)
  /\ told' = [told EXCEPT !.codes = @ + 1]
  /\ ask' = [ask EXCEPT ![r] = [Waiting EXCEPT
       !.at = "save", !.box = b, !.id = FirstId(b), !.content = told'.codes]]
  /\ blurred' = IF Asking(b) THEN blurred \cup {b} ELSE blurred
  /\ UNCHANGED <<registered, code, queued, sending, inbox, spent, unsent>>

\* The record found is written again, a missing one inserted.  A record
\* deleted since it was found comes back without purpose and address.
SaveCode(r) ==
  LET b   == ask[r].box
      new == [id |-> IF ask[r].id = 0 THEN ask[r].content ELSE ask[r].id,
              content |-> ask[r].content, cold |-> FALSE, mailed |-> FALSE,
              valid |-> TRUE, wrong |-> 0]
  IN /\ ask[r].at = "save"
     /\ code' = IF ask[r].id = 0 THEN [code EXCEPT ![b] = Append(@, new)]
                                 ELSE Revise(b, ask[r].id, new)
     /\ ask' = [ask EXCEPT ![r].at = "send", ![r].id = new.id]
     /\ UNCHANGED <<registered, queued, sending, inbox, spent, unsent, told,
                    blurred>>

\* to_email: the task first, the time of sending last.
SendCode(r) ==
  LET m == [box |-> ask[r].box, id |-> ask[r].id, content |-> ask[r].content]
  IN /\ ask[r].at = "send"
     /\ queued' = queued \cup {m}
     /\ ask' = [ask EXCEPT ![r].at = "stamp"]
     /\ UNCHANGED <<registered, code, sending, inbox, spent, unsent, told,
                    blurred>>

MailRefused(r) ==
  /\ ask[r].at = "send"
  /\ unsent' = unsent \cup {ask[r].box}
  /\ ask' = [ask EXCEPT ![r] = Waiting]
  /\ UNCHANGED <<registered, code, queued, sending, inbox, spent, told,
                 blurred>>

StampCode(r) ==
  LET b == ask[r].box IN
  /\ ask[r].at = "stamp"
  /\ code' = IF Stored(b, ask[r].id)
               THEN Revise(b, ask[r].id, [Record(b, ask[r].id) EXCEPT
                                            !.cold = TRUE, !.mailed = TRUE])
               ELSE code
  /\ ask' = [ask EXCEPT ![r] = Waiting]
  /\ UNCHANGED <<registered, queued, sending, inbox, spent, unsent, told,
                 blurred>>

\* Sending takes 35 seconds at the most: a mail that is being sent once the
\* minute is over has been picked up late.
MinutePasses(b) ==
  /\ code[b] # <<>> /\ code[b][1].cold
  /\ code' = [code EXCEPT ![b][1].cold = FALSE]
  /\ blurred' = IF sending.box = b THEN blurred \cup {b} ELSE blurred
  /\ UNCHANGED <<registered, queued, sending, inbox, ask, spent, unsent, told>>

\* As .seconds leaves out the days, the minute begins again a day later.
DayPasses(b) ==
  /\ ~ UnderWay(b)
  /\ code[b] # <<>> /\ code[b][1].mailed /\ ~ code[b][1].cold
  /\ code' = [code EXCEPT ![b][1].cold = TRUE]
  /\ UNCHANGED <<registered, queued, sending, inbox, ask, spent, unsent, told,
                 blurred>>

CodeExpires(b) ==
  /\ code[b] # <<>> /\ code[b][1].valid /\ code[b][1].mailed
  /\ code' = [code EXCEPT ![b][1].valid = FALSE]
  /\ UNCHANGED <<registered, queued, sending, inbox, ask, spent, unsent, told,
                 blurred>>

(* ---------------------------- the mail worker --------------------------- *)

\* security_email: a message for a replaced or an expired code is dropped.
Newest(m) == Stored(m.box, m.id) /\ Record(m.box, m.id).content = m.content
Replaced(m) == Stored(m.box, m.id) /\ ~ Newest(m)
Renderable(m) == Newest(m) /\ Record(m.box, m.id).valid
Late(m) ==
  Newest(m) /\ Record(m.box, m.id).mailed /\ ~ Record(m.box, m.id).cold
TakeMail(m) ==
  /\ sending = NoMail /\ m \in queued
  /\ queued' = queued \ {m}
  /\ sending' = IF Renderable(m) THEN m ELSE NoMail
  /\ unsent' = IF Renderable(m) \/ Replaced(m) THEN unsent
                                               ELSE unsent \cup {m.box}
  /\ blurred' = IF Late(m) THEN blurred \cup {m.box} ELSE blurred
  /\ UNCHANGED <<registered, code, inbox, ask, spent, told>>

MailArrives ==
  /\ sending # NoMail
  /\ inbox' = [inbox EXCEPT ![sending.box] = sending.content]
  /\ unsent' = unsent \ {sending.box}
  /\ sending' = NoMail
  /\ UNCHANGED <<registered, code, queued, ask, spent, told, blurred>>

\* Refused for now, and asked for again from the record; or for good, the
\* last attempt included.
MailRetried ==
  /\ sending # NoMail
  /\ queued' = queued \cup {sending} /\ sending' = NoMail
  /\ UNCHANGED <<registered, code, inbox, ask, spent, unsent, told, blurred>>
MailFails ==
  /\ sending # NoMail
  /\ unsent' = unsent \cup {sending.box} /\ sending' = NoMail
  /\ UNCHANGED <<registered, code, queued, inbox, ask, spent, told, blurred>>

(* ---------------------------- typing the code --------------------------- *)

\* What is checked, and what it is for: a registration and a password take
\* one code, a change of address a code from either address.  Only the first
\* two delete a code that is right.
Checks(goal) ==
  IF goal[1] = "move" THEN <<<<"reset", goal[2]>>, <<"confirm", goal[3]>>>>
                      ELSE <<<<goal[1], goal[2]>>>>
Goals ==
  {<<"confirm", a>> : a \in Addresses \ registered}
  \cup {<<"password", a>> : a \in registered}
  \cup {<<"move", a, m>> : a \in registered, m \in Addresses \ registered}
Deletes(goal) == goal[1] # "move"

\* The user copies the latest mail, or makes a mistake.
Submit(r, goal) ==
  /\ ask[r].at = "idle" /\ Calls < MaxCalls
  /\ ask' = [ask EXCEPT ![r] = [Waiting EXCEPT
       !.at = "check", !.checks = Checks(goal), !.goal = goal]]
  /\ told' = [told EXCEPT !.answers = @ + 1]
  /\ UNCHANGED <<registered, code, queued, sending, inbox, spent, unsent,
                 blurred>>

CodeChecking(r) == ask[r].at = "check" /\ ask[r].checks # <<>>
NothingStored(r) ==
  /\ CodeChecking(r) /\ code[Head(ask[r].checks)] = <<>>
  /\ ask' = [ask EXCEPT ![r].checks = Tail(@), ![r].passed = FALSE]
  /\ UNCHANGED <<registered, code, queued, sending, inbox, spent, unsent, told,
                 blurred>>

\* VCode.verify decides on the record as it was read.
Deletion(d) == [does |-> "delete", passes |-> FALSE, seen |-> d]
Correct(goal, d) ==
  [does |-> IF Deletes(goal) THEN "delete" ELSE "keep", passes |-> TRUE,
   seen |-> d]
Mistaken(d) ==
  [does |-> IF d.wrong >= MaxWrong THEN "delete" ELSE "count",
   passes |-> FALSE, seen |-> d]
ReadCode(r, typed) ==
  LET b == Head(ask[r].checks)
      d == code[b][1]
      v == IF ~ d.valid THEN Deletion(d)
           ELSE IF typed = d.content THEN Correct(ask[r].goal, d)
           ELSE Mistaken(d)
  IN /\ CodeChecking(r) /\ code[b] # <<>> /\ typed \in {0, inbox[b]}
     /\ ask' = [ask EXCEPT ![r].at = "judge", ![r].box = b,
                           ![r].verdict = v]
     /\ UNCHANGED <<registered, code, queued, sending, inbox, spent, unsent,
                    told, blurred>>

\* By the record's id: what has become of the record since is not looked at.
Blind(b, v) ==
  /\ Stored(b, v.seen.id) /\ Record(b, v.seen.id).content # v.seen.content
JudgeCode(r) ==
  LET b == ask[r].box
      v == ask[r].verdict
  IN /\ ask[r].at = "judge"
     /\ code' = IF v.does = "keep" \/ ~ Stored(b, v.seen.id) THEN code
                ELSE IF v.does = "delete" THEN Forget(b, v.seen.id)
                ELSE Revise(b, v.seen.id, [Record(b, v.seen.id) EXCEPT
                                             !.wrong = v.seen.wrong + 1])
     /\ spent' = IF v.does = "delete" THEN spent \cup {v.seen.content}
                                      ELSE spent
     /\ blurred' = IF v.does = "delete" /\ Blind(b, v) THEN blurred \cup {b}
                                                       ELSE blurred
     /\ ask' = [ask EXCEPT ![r] = [Waiting EXCEPT !.at = "check",
          !.checks = Tail(ask[r].checks), !.goal = ask[r].goal,
          !.passed = ask[r].passed /\ v.passes]]
     /\ UNCHANGED <<registered, queued, sending, inbox, unsent, told>>

\* The unique index has the last word on an address.
Registered(goal) ==
  CASE goal[1] = "confirm" -> registered \cup {goal[2]}
    [] goal[1] = "move" /\ goal[3] \notin registered ->
         (registered \ {goal[2]}) \cup {goal[3]}
    [] OTHER -> registered
EndCheck(r) ==
  /\ ask[r].at = "check" /\ ask[r].checks = <<>>
  /\ registered' = IF ask[r].passed THEN Registered(ask[r].goal)
                                    ELSE registered
  /\ ask' = [ask EXCEPT ![r] = Waiting]
  /\ UNCHANGED <<code, queued, sending, inbox, spent, unsent, told, blurred>>

CodeRequest(r) ==
  \/ \E b \in Boxes : AskCode(r, b)
  \/ SaveCode(r) \/ SendCode(r) \/ MailRefused(r) \/ StampCode(r)
  \/ \E goal \in Goals : Submit(r, goal)
  \/ NothingStored(r) \/ JudgeCode(r) \/ EndCheck(r)
  \/ \E typed \in 0 .. MaxCodes : ReadCode(r, typed)

MailNext ==
  \/ \E r \in Requests : CodeRequest(r)
  \/ \E m \in queued : TakeMail(m)
  \/ MailArrives \/ MailRetried \/ MailFails
  \/ \E b \in Boxes : MinutePasses(b) \/ DayPasses(b) \/ CodeExpires(b)

MailSpec == MailInit /\ [][MailNext]_mailVars

(* ------------------------------ properties ------------------------------ *)

\* Once nothing is under way for an address, the code in the mail the user
\* received last is the one that is compared, unless a check has used it up
\* or the latest mail was refused.  Excepted are two requests for a code at
\* the same time, a mail still being sent a minute after it was asked for,
\* and a check that deletes the record a new request has just written.
LatestMailWorks ==
  \A b \in Boxes \ (blurred \cup unsent) :
    (~ UnderWay(b) /\ inbox[b] \notin {0} \cup spent) =>
      code[b] # <<>> /\ code[b][1].content = inbox[b]
=============================================================================
