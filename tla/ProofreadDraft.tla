---------------------------- MODULE ProofreadDraft ----------------------------
(* Sending a proofread draft: the request collects the changed pages and     *)
(* publishes a notification in state draft, which no scan picks up; a worker *)
(* draws the pages, renders the mail, and only then releases the             *)
(* notification.  Requests carry an idempotency key and may be repeated; the *)
(* sender may edit or revoke the notification at any time.                   *)
(*                                                                           *)
(* What dispatch and deliver do with a released notification is the subject  *)
(* of Notifications; here they send it in one step.                          *)
EXTENDS Naturals

CONSTANTS
  Senders,     \* requests under one idempotency key
  Scopes,      \* what a request may ask for: a file_id, or none
  Bakers,      \* workers of bake_and_dispatch
  MaxSent,     \* bound: requests sent
  MaxEditions, \* bound: changes of the pages (or of the minute in send_time)
  MaxMishaps   \* bound: deaths and errors

VARIABLES
  feedback,  \* the Notification of the key
  edition,   \* what the changed pages look like by now
  desk,      \* what each request remembers
  bakes,     \* bake_and_dispatch messages waiting
  baker,     \* what each worker remembers
  accepted,  \* what clients have been told their request is: (scope) 202
  tally      \* [sent, mishaps], and whether the sender has edited the draft

draftVars == <<feedback, edition, desk, bakes, baker, accepted, tally>>

NoFeedback == [state |-> "none", scope |-> "", edition |-> 0, rendered |-> FALSE,
               mailed |-> "not"]

DraftInit ==
  /\ feedback = NoFeedback /\ edition = 1
  /\ desk = [r \in Senders |-> [at |-> "idle", scope |-> "", edition |-> 0]]
  /\ bakes = 0
  /\ baker = [w \in Bakers |-> "idle"]
  /\ accepted = {}
  /\ tally = [sent |-> 0, mishaps |-> 0, edited |-> FALSE]

SenderAt(r, at) == desk[r].at = at
SenderGoto(r, at) == desk' = [desk EXCEPT ![r].at = at]
Accept(r) ==
  /\ accepted' = accepted \cup {desk[r].scope}
  /\ SenderGoto(r, "idle")

(* ------------------------- send-proofread-draft ----------------------- *)

SendDraft(r, scope) ==
  /\ SenderAt(r, "idle") /\ tally.sent < MaxSent
  /\ tally' = [tally EXCEPT !.sent = @ + 1]
  /\ desk' = [desk EXCEPT ![r] = [at |-> "key", scope |-> scope, edition |-> 0]]
  /\ UNCHANGED <<feedback, edition, bakes, baker, accepted>>

\* A key in use answers with the notification it has led to, for the same
\* operation; for another one it is a conflict.
LookUpKey(r) ==
  /\ SenderAt(r, "key")
  /\ IF feedback.state = "none" THEN SenderGoto(r, "collect") /\ UNCHANGED accepted
     ELSE IF feedback.scope = desk[r].scope THEN Accept(r)
     ELSE SenderGoto(r, "idle") /\ UNCHANGED accepted
  /\ UNCHANGED <<feedback, edition, bakes, baker, tally>>

CollectPages(r) ==
  /\ SenderAt(r, "collect")
  /\ desk' = [desk EXCEPT ![r].at = "publish", ![r].edition = edition]
  /\ UNCHANGED <<feedback, edition, bakes, baker, accepted, tally>>

\* No page has changed, or nobody would receive it.
NothingToSend(r) ==
  /\ SenderAt(r, "collect")
  /\ SenderGoto(r, "idle")
  /\ UNCHANGED <<feedback, edition, bakes, baker, accepted, tally>>

\* publish: the key is unique, and a second request under it must have the
\* same fingerprint, which covers the scope and the pages.
Bug_SameFingerprint(r) == TRUE
SameFingerprint(r) ==
  feedback.scope = desk[r].scope /\ feedback.edition = desk[r].edition

FirstState == "draft"

PublishDraft(r) ==
  /\ SenderAt(r, "publish")
  /\ IF feedback.state = "none"
     THEN /\ feedback' = [NoFeedback EXCEPT !.state = FirstState,
                            !.scope = desk[r].scope, !.edition = desk[r].edition]
          /\ SenderGoto(r, "delay")
     ELSE /\ UNCHANGED feedback
          /\ SenderGoto(r, IF SameFingerprint(r) THEN "delay" ELSE "idle")
  /\ UNCHANGED <<edition, bakes, baker, accepted, tally>>

DelayBake(r) ==
  /\ SenderAt(r, "delay")
  /\ bakes' = bakes + 1
  /\ Accept(r)
  /\ UNCHANGED <<feedback, edition, baker, tally>>

(* ---------------------------- bake_and_dispatch ----------------------- *)

BakerAt(w, at) == baker[w] = at
BakerGoto(w, at) == baker' = [baker EXCEPT ![w] = at]

\* Only a draft is taken.
TakeBake(w) ==
  /\ BakerAt(w, "idle") /\ bakes > 0
  /\ bakes' = bakes - 1
  /\ IF feedback.state = "draft" THEN BakerGoto(w, "draw") ELSE UNCHANGED baker
  /\ UNCHANGED <<feedback, edition, desk, accepted, tally>>

\* The marked images of all pages (progress goes into the title only).
DrawPages(w) ==
  /\ BakerAt(w, "draw")
  /\ BakerGoto(w, "release")
  /\ UNCHANGED <<feedback, edition, desk, bakes, accepted, tally>>

\* Too large a mail: cancelled, if it is still a draft.
CancelTooLarge(w) ==
  /\ BakerAt(w, "release")
  /\ feedback' = IF feedback.state = "draft" THEN [feedback EXCEPT !.state = "cancelled"]
                                             ELSE feedback
  /\ BakerGoto(w, "idle")
  /\ UNCHANGED <<edition, desk, bakes, accepted, tally>>

\* The rendered mail replaces the pages as the draft is released.
StillDraft == feedback.state = "draft"

ReleaseDraft(w) ==
  /\ BakerAt(w, "release")
  /\ IF StillDraft
     THEN /\ feedback' = [feedback EXCEPT !.state = "preparing", !.rendered = TRUE]
          /\ BakerGoto(w, "dispatch")
     ELSE UNCHANGED feedback /\ BakerGoto(w, "idle")
  /\ UNCHANGED <<edition, desk, bakes, accepted, tally>>

\* An error anywhere is swallowed: a draft stays one, with another title.
BakeFails(w) ==
  /\ ~ BakerAt(w, "idle") /\ tally.mishaps < MaxMishaps
  /\ tally' = [tally EXCEPT !.mishaps = @ + 1]
  /\ BakerGoto(w, "idle")
  /\ UNCHANGED <<feedback, edition, desk, bakes, accepted>>

Sendable == feedback.state = "preparing"
Mailed == [feedback EXCEPT !.state = "published",
                           !.mailed = IF feedback.rendered THEN "whole" ELSE "empty"]

\* dispatch and deliver, at once by the worker ...
DispatchNow(w) ==
  /\ BakerAt(w, "dispatch")
  /\ feedback' = IF Sendable THEN Mailed ELSE feedback
  /\ BakerGoto(w, "idle")
  /\ UNCHANGED <<edition, desk, bakes, accepted, tally>>

\* ... or by notification_scan, which does not look at drafts.
ScanSends ==
  /\ Sendable
  /\ feedback' = Mailed
  /\ UNCHANGED <<edition, desk, bakes, baker, accepted, tally>>

(* ------------------------------ the people ---------------------------- *)

RevokeFeedback ==
  /\ feedback.state \notin {"none", "cancelled"}
  /\ feedback' = [feedback EXCEPT !.state = "cancelled"]
  /\ UNCHANGED <<edition, desk, bakes, baker, accepted, tally>>

\* edit_draft: by a sender who may also publish announcements; the payload is
\* none of its fields.
EditFeedback(state) ==
  /\ feedback.state = "draft"
  /\ feedback' = [feedback EXCEPT !.state = state]
  /\ tally' = [tally EXCEPT !.edited = TRUE]
  /\ UNCHANGED <<edition, desk, bakes, baker, accepted>>

PagesChange ==
  /\ edition < MaxEditions
  /\ edition' = edition + 1
  /\ UNCHANGED <<feedback, desk, bakes, baker, accepted, tally>>

\* A request dies, or cannot reach the broker: no answer, and perhaps a draft
\* that nobody will bake.
SenderDies(r) ==
  /\ ~ SenderAt(r, "idle") /\ tally.mishaps < MaxMishaps
  /\ tally' = [tally EXCEPT !.mishaps = @ + 1]
  /\ SenderGoto(r, "idle")
  /\ UNCHANGED <<feedback, edition, bakes, baker, accepted>>

SenderWorks(r) ==
  LookUpKey(r) \/ CollectPages(r) \/ NothingToSend(r) \/ PublishDraft(r) \/ DelayBake(r)
BakerWorks(w) ==
  TakeBake(w) \/ DrawPages(w) \/ CancelTooLarge(w) \/ ReleaseDraft(w) \/ DispatchNow(w)

DraftNext ==
  \/ \E r \in Senders : SenderWorks(r) \/ SenderDies(r)
  \/ \E r \in Senders, scope \in Scopes : SendDraft(r, scope)
  \/ \E w \in Bakers : BakerWorks(w) \/ BakeFails(w)
  \/ ScanSends \/ RevokeFeedback \/ PagesChange
  \/ \E state \in {"draft", "preparing"} : EditFeedback(state)

(* ----------------------------- properties ----------------------------- *)

\* Whoever repeats a request under one key, at whatever moment, is told that
\* it was accepted only if the notification of the key is what it asked for;
\* and no mail goes out before the pages have been drawn into it, except after
\* the sender released the draft by hand.
KeyMeansOneThing ==
  /\ accepted \subseteq {feedback.scope}
  /\ feedback.mailed = "empty" => tally.edited

\* However many workers bake the draft, and whoever revokes it meanwhile, the
\* notification only moves on: it is released once, and a cancelled one is
\* never sent again.
Onward == {<<"none", "draft">>, <<"draft", "preparing">>, <<"draft", "cancelled">>,
           <<"preparing", "published">>, <<"preparing", "cancelled">>,
           <<"published", "cancelled">>}
ReleasedOnce ==
  [][feedback'.state # feedback.state =>
       <<feedback.state, feedback'.state>> \in Onward]_draftVars
=============================================================================
