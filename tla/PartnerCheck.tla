----------------------------- MODULE PartnerCheck -----------------------------
(* modules/ziteng_partner: whether a project repeats a work that a partner   *)
(* site already has.  One ZitengCheck document per project is queued when    *)
(* the project is created and again by whoever asks for a new check; a       *)
(* worker claims it, takes the works of its keyword from the cache or from   *)
(* the partner, page by page, and records a verdict.                         *)
(*                                                                           *)
(* The partner is external: a catalogue in which the work that matches a     *)
(* keyword stands on some page (0: on none), of which it may bring out new   *)
(* revisions, and answers of the kinds the client tells apart.               *)
EXTENDS Naturals, Sequences

CONSTANTS
  Titles,       \* names the project may have
  KeywordOf,    \* extract_title: title -> keyword
  Unsearchable, \* keywords that is_searchable refuses
  CatalogPages, \* pages of every answer of the partner
  MaxPages,     \* config.max_pages
  Askers,       \* requests: the creation of the project, checks asked for
  Checkers,     \* Celery workers
  MaxAsked,     \* bound: checks asked for
  MaxEvents     \* bound: renames, new revisions of the catalogue, deaths

ASSUME CheckAssumption == MaxPages \in Nat \ {0} /\ CatalogPages \in Nat \ {0}

VARIABLES
  title,     \* Project.name
  catalog,   \* the partner's: [revision, page], and every page function so far
  check,     \* ZitengCheck, with the title and keyword its verdict is about
  cached,    \* ZitengQuery: keyword -> "none", "fresh" or "stale", and the hit
  messages,  \* check_project messages waiting
  duty,      \* what requests and workers still have to do
  spent      \* [asked, events], and whether somebody has died

checkVars == <<title, catalog, check, cached, messages, duty, spent>>

Keywords == {KeywordOf[t] : t \in Titles}
Searchable == Keywords \ Unsearchable
Placed == [Searchable -> 0..CatalogPages]
NoAnswer == [round |-> 0, attempt |-> 0, page |-> 1, revision |-> 0, hit |-> FALSE]
NoDuty == [todo |-> <<>>, title |-> CHOOSE t \in Titles : TRUE,
           keyword |-> CHOOSE k \in Keywords : TRUE, answer |-> NoAnswer]

CheckInit ==
  /\ title \in Titles
  /\ \E pages \in Placed :
       catalog = [revision |-> 1, page |-> pages, past |-> {pages}]
  /\ check = [status |-> "absent", keyword |-> KeywordOf[title], verdict |-> "",
              title |-> title, about |-> KeywordOf[title]]
  /\ cached = [k \in Searchable |-> [state |-> "none", hit |-> FALSE]]
  /\ messages = 0
  /\ duty = [x \in Askers \cup Checkers |-> NoDuty]
  /\ spent = [asked |-> 0, events |-> 0, died |-> FALSE]

(* ------------------------------- duties ------------------------------- *)

Off(x) == duty[x].todo = <<>>
Due(x, step) == ~ Off(x) /\ Head(duty[x].todo) = step
Doing(x, steps) == duty' = [duty EXCEPT ![x].todo = steps]
Dismiss(x) == duty' = [duty EXCEPT ![x] = NoDuty]
Then(x) == IF Len(duty[x].todo) = 1 THEN Dismiss(x) ELSE Doing(x, Tail(duty[x].todo))

\* enqueue_check, and ZitengCheckAPI.post: ensure_check with the name the
\* request has loaded, reset_for_retry, then enqueue_check, which ensures again.
Enqueue == <<"name", "look", "send">>
Bug_AskAgain == <<"look", "name", "look", "send", "reset">>
AskAgain == <<"look", "reset", "name", "look", "send">>
RunCheck == <<"claim", "read">>

\* _on_project_created, on the path of the request that creates the project.
ProjectCreated(x) ==
  /\ Off(x) /\ spent.asked = 0
  /\ duty' = [duty EXCEPT ![x] = [NoDuty EXCEPT !.todo = Enqueue]]
  /\ spent' = [spent EXCEPT !.asked = 1]
  /\ UNCHANGED <<title, catalog, check, cached, messages>>

AskForCheck(x) ==
  /\ Off(x) /\ spent.asked \in 1..(MaxAsked - 1)
  /\ duty' = [duty EXCEPT ![x] = [NoDuty EXCEPT !.todo = AskAgain, !.title = title]]
  /\ spent' = [spent EXCEPT !.asked = @ + 1]
  /\ UNCHANGED <<title, catalog, check, cached, messages>>

NameProject(x) ==
  /\ Due(x, "name")
  /\ duty' = [duty EXCEPT ![x].title = title, ![x].todo = Tail(@)]
  /\ UNCHANGED <<title, catalog, check, cached, messages, spent>>

(* ----------------------------- ensure_check --------------------------- *)

Wanted(x) == KeywordOf[duty[x].title]

\* Who finds no document makes one; who finds another keyword replaces it.
EnsureLook(x) ==
  /\ Due(x, "look")
  /\ IF check.status = "absent" THEN duty' = [duty EXCEPT ![x].todo[1] = "make"]
     ELSE IF check.keyword # Wanted(x)
     THEN duty' = [duty EXCEPT ![x].todo[1] = "retitle"]
     ELSE Doing(x, Tail(duty[x].todo))
  /\ UNCHANGED <<title, catalog, check, cached, messages, spent>>

\* project_id is unique: the second of two makers fails.
EnsureMake(x) ==
  /\ Due(x, "make")
  /\ IF check.status = "absent"
     THEN /\ check' = [check EXCEPT !.status = "queued", !.keyword = Wanted(x)]
          /\ Then(x)
     ELSE Dismiss(x) /\ UNCHANGED check
  /\ UNCHANGED <<title, catalog, cached, messages, spent>>

EnsureRetitle(x) ==
  /\ Due(x, "retitle")
  /\ check' = [check EXCEPT !.keyword = Wanted(x)]
  /\ Then(x)
  /\ UNCHANGED <<title, catalog, cached, messages, spent>>

\* reset_for_retry: whatever the status is, running included.
Reset(x) ==
  /\ Due(x, "reset")
  /\ check' = [check EXCEPT !.status = "queued", !.verdict = ""]
  /\ Then(x)
  /\ UNCHANGED <<title, catalog, cached, messages, spent>>

Send(x) ==
  /\ Due(x, "send")
  /\ messages' = messages + 1
  /\ Then(x)
  /\ UNCHANGED <<title, catalog, check, cached, spent>>

\* Without a broker the request, for which this is the end, runs the check.
SendRefusedHere(x) ==
  /\ Due(x, "send")
  /\ Doing(x, RunCheck)
  /\ UNCHANGED <<title, catalog, check, cached, messages, spent>>

(* ------------------------------ the check ----------------------------- *)

ReceiveCheck(x) ==
  /\ x \in Checkers /\ Off(x) /\ messages > 0
  /\ messages' = messages - 1
  /\ Doing(x, RunCheck)
  /\ UNCHANGED <<title, catalog, check, cached, spent>>

ClaimCheck(x) ==
  /\ Due(x, "claim")
  /\ IF check.status = "queued"
     THEN check' = [check EXCEPT !.status = "running"] /\ Then(x)
     ELSE Dismiss(x) /\ UNCHANGED check
  /\ UNCHANGED <<title, catalog, cached, messages, spent>>

Finding(hit) == IF hit THEN "suspected" ELSE "clear"
SetResult(x, hit, of) ==
  check' = [check EXCEPT !.status = "succeeded", !.verdict = Finding(hit),
                         !.title = of, !.about = duty[x].keyword]
SetFailed == check' = [check EXCEPT !.status = "failed", !.verdict = "failed"]

\* run_check reads the keyword, and the cache of it.
ReadKeyword(x) ==
  /\ Due(x, "read")
  /\ LET k == check.keyword
         fresh == k \in Searchable /\ cached[k].state = "fresh"
         todo == IF k \in Unsearchable THEN <<"dull">>
                 ELSE IF fresh THEN <<"judge">> ELSE <<"ask", "store", "judge">> IN
     duty' = [duty EXCEPT ![x] =
                [duty[x] EXCEPT !.keyword = k, !.todo = todo,
                          !.answer = [NoAnswer EXCEPT !.hit = fresh /\ cached[k].hit]]]
  /\ UNCHANGED <<title, catalog, check, cached, messages, spent>>

\* A keyword that cannot be searched counts as one without works.
RecordUnsearched(x) ==
  /\ Due(x, "dull")
  /\ SetResult(x, FALSE, duty[x].title)
  /\ Then(x)
  /\ UNCHANGED <<title, catalog, cached, messages, spent>>

\* The partner refuses a later page of an older revision (409).
Outdated(x) == duty[x].answer.revision \notin {0, catalog.revision}

\* A page: the revision of the first one is named in the requests that follow.
PageAnswered(x) ==
  /\ Due(x, "ask") /\ ~ Outdated(x)
  /\ LET a == duty[x].answer
         seen == a.hit \/ catalog.page[duty[x].keyword] = a.page
         last == a.page = MaxPages \/ a.page = CatalogPages IN
     IF last
     THEN duty' = [duty EXCEPT ![x].answer.hit = seen, ![x].todo = Tail(@)]
     ELSE duty' = [duty EXCEPT ![x].answer =
                     [a EXCEPT !.hit = seen, !.page = a.page + 1, !.attempt = 0,
                               !.revision = catalog.revision]]
  /\ UNCHANGED <<title, catalog, check, cached, messages, spent>>

\* What a client would do that took a failed query for one without works.
Bug_Unanswered(x) == Tail(duty[x].todo)
Unanswered(x) == <<"fail">>

\* 429: the request is repeated once.
AskedTooOften(x) ==
  /\ Due(x, "ask")
  /\ IF duty[x].answer.attempt = 0
     THEN duty' = [duty EXCEPT ![x].answer.attempt = 1]
     ELSE Doing(x, Unanswered(x))
  /\ UNCHANGED <<title, catalog, check, cached, messages, spent>>

\* 409: what has been read is dropped and the first page read again, once.
CatalogChanged(x) ==
  /\ Due(x, "ask") /\ Outdated(x)
  /\ IF duty[x].answer.round = 0
     THEN duty' = [duty EXCEPT ![x].answer = [NoAnswer EXCEPT !.round = 1]]
     ELSE Doing(x, Unanswered(x))
  /\ UNCHANGED <<title, catalog, check, cached, messages, spent>>

\* No key, no connection, a status from 400 on, no JSON.
Unreachable(x) ==
  /\ Due(x, "ask")
  /\ Doing(x, Unanswered(x))
  /\ UNCHANGED <<title, catalog, check, cached, messages, spent>>

StoreQuery(x) ==
  /\ Due(x, "store")
  /\ cached' = [cached EXCEPT ![duty[x].keyword] =
                  [state |-> "fresh", hit |-> duty[x].answer.hit]]
  /\ Then(x)
  /\ UNCHANGED <<title, catalog, check, messages, spent>>

\* find_suspects compares the works with the title the project has by now.
Judge(x) ==
  /\ Due(x, "judge")
  /\ duty' = [duty EXCEPT ![x].title = title, ![x].todo = <<"record">>]
  /\ UNCHANGED <<title, catalog, check, cached, messages, spent>>

RecordVerdict(x) ==
  /\ Due(x, "record")
  /\ SetResult(x, duty[x].answer.hit /\ Wanted(x) = duty[x].keyword, duty[x].title)
  /\ Then(x)
  /\ UNCHANGED <<title, catalog, cached, messages, spent>>

RecordFailure(x) ==
  /\ Due(x, "fail")
  /\ SetFailed
  /\ Then(x)
  /\ UNCHANGED <<title, catalog, cached, messages, spent>>

(* ---------------------------- the environment ------------------------- *)

Event(died) ==
  /\ spent.events < MaxEvents
  /\ spent' = [spent EXCEPT !.events = @ + 1, !.died = @ \/ died]

\* Renaming a project leaves its check alone.
Rename ==
  /\ Event(FALSE)
  /\ title' \in Titles \ {title}
  /\ UNCHANGED <<catalog, check, cached, messages, duty>>

NewRevision ==
  /\ Event(FALSE)
  /\ \E k \in Searchable, p \in 0..CatalogPages :
       LET pages == [catalog.page EXCEPT ![k] = p] IN
       catalog' = [revision |-> catalog.revision + 1, page |-> pages,
                   past |-> catalog.past \cup {pages}]
  /\ UNCHANGED <<title, check, cached, messages, duty>>

\* cache_ttl ends.
GrowStale(k) ==
  /\ cached[k].state = "fresh"
  /\ cached' = [cached EXCEPT ![k].state = "stale"]
  /\ UNCHANGED <<title, catalog, check, messages, duty, spent>>

\* A message is acknowledged when it is taken: the check dies with its worker.
Lost(x) ==
  /\ ~ Off(x) /\ Event(TRUE)
  /\ Dismiss(x)
  /\ UNCHANGED <<title, catalog, check, cached, messages>>

Ensuring(x) ==
  NameProject(x) \/ EnsureLook(x) \/ EnsureMake(x) \/ EnsureRetitle(x) \/ Reset(x)

Searching(x) ==
  \/ ClaimCheck(x) \/ ReadKeyword(x) \/ RecordUnsearched(x)
  \/ PageAnswered(x) \/ AskedTooOften(x) \/ CatalogChanged(x) \/ Unreachable(x)
  \/ StoreQuery(x) \/ Judge(x) \/ RecordVerdict(x) \/ RecordFailure(x)

\* What goes on by itself.
CheckGoesOn(x) ==
  Ensuring(x) \/ Send(x) \/ SendRefusedHere(x) \/ ReceiveCheck(x) \/ Searching(x)

CheckNext ==
  \/ \E x \in Askers : ProjectCreated(x) \/ AskForCheck(x)
  \/ \E x \in Askers \cup Checkers : CheckGoesOn(x) \/ Lost(x)
  \/ Rename \/ NewRevision
  \/ \E k \in Searchable : GrowStale(k)

CheckFairness == \A x \in Askers \cup Checkers : WF_checkVars(CheckGoesOn(x))
CheckSpec == CheckInit /\ [][CheckNext]_checkVars /\ CheckFairness

(* ----------------------------- properties ----------------------------- *)

\* Where the work of a keyword has stood, in some revision of the catalogue.
Stood(k) == {pages[k] : pages \in catalog.past}

\* A verdict is earned: a query that failed half way, was interrupted by a new
\* revision or by its limit, or came from the cache never ends as "clear"
\* (nor as "suspected") unless some revision of the catalogue really answers
\* so, whenever the title was the same before and after the search.
VerdictIsEarned ==
  check.status = "succeeded" /\ KeywordOf[check.title] = check.about
    /\ check.about \in Searchable =>
      IF check.verdict = "clear" THEN \E p \in Stood(check.about) : p \notin 1..MaxPages
                                 ELSE \E p \in Stood(check.about) : p \in 1..MaxPages

\* A check that is queued or running is answered, however often it is asked
\* for again meanwhile, unless a process died on the way.
CheckIsAnswered ==
  check.status \in {"queued", "running"} ~>
    (check.status \in {"succeeded", "failed"} \/ spent.died)

\* claim() promises that "only one worker runs at a time", because the partner
\* answers one request a second: between taking a check and recording its
\* outcome there is one worker.
AtWork(x) ==
  \E step \in {"read", "ask", "store", "judge", "record", "dull", "fail"} : Due(x, step)
OneWorkerRuns == \A x, y \in Askers \cup Checkers : AtWork(x) /\ AtWork(y) => x = y
=============================================================================
