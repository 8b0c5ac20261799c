---------------------------- MODULE DerivedImages ----------------------------
(* The cover and the resampled copy of one image: uploading and replacing   *)
(* the image, the task that draws them, the bytes they add to the project,  *)
(* deletion, clearing, and the script that counts old ones afterwards.      *)
(* Every upload stores its object under a fresh name, a number here; 0 is   *)
(* the empty name.  Cover and copy are written by the same steps and are    *)
(* one object, whose size depends on the name.  A runner of the task is a   *)
(* worker, or a request whose broker has refused the message.               *)
EXTENDS Integers

CONSTANTS
  Uploads,      \* requests: uploads, rebuilds, deletion, clearing
  Painters,     \* workers of create_thumbnail_task
  Script,       \* scripts/backfill_storage_usage.py
  MaxRetries,   \* max_retries of the task
  MaxNames,     \* bound: uploads in a behaviour
  MaxExtras     \* bound: rebuilds asked for, kills, refusals and errors

\* Requests, workers and the script are different processes.
ASSUME RunnersDiffer == Uploads \cap (Painters \cup {Script}) = {} /\ Script \notin Painters
ASSUME RetriesAssumption == MaxRetries \in Nat

VARIABLES
  image,      \* the document: [there, name, status, bytes]
  charged,    \* the project's cover_bytes + resample_bytes
  originals, derived,     \* names with a stored original, with derived images
  waiting,    \* messages of the task: number of attempts -> how many wait
  request, brush,         \* what a request does, what a runner of the task does
  drawn,      \* names given; rebuilds and accidents so far
  marks       \* what has happened that the accounting does not survive

imageVars == <<image, charged, originals, derived, waiting, request, brush,
               drawn, marks>>

Runners == Uploads \cup Painters \cup {Script}
Bytes(n) == 2 * n
Resting == [at |-> "idle", name |-> 0, prev |-> 0, tries |-> 0]
NoRequest == [at |-> "idle", old |-> 0, name |-> 0]

\* A legacy image: derived images that nobody has counted.
ImageInit ==
  /\ image = [there |-> TRUE, name |-> 1, status |-> "UNKNOWN", bytes |-> 0]
  /\ charged = 0
  /\ originals = {1} /\ derived = {1}
  /\ waiting = [t \in 0..MaxRetries |-> 0]
  /\ request = [r \in Uploads |-> NoRequest]
  /\ brush = [x \in Runners |-> Resting]
  /\ drawn = [names |-> 1, extras |-> 0]
  /\ marks = {}

\* Document.update: the document may be gone, then nothing is written.
Written(fields) == IF image.there THEN fields ELSE image
WriteState(s) == image' = Written([image EXCEPT !.status = s])
\* _set_thumbnail_state: only while the document points at the same object.
Fenced(x) == image.name = brush[x].name
Bug_ReportState(x, s) == WriteState(s)
ReportState(x, s) ==
  image' = IF Fenced(x) THEN Written([image EXCEPT !.status = s]) ELSE image

RequestAt(r, at) == request[r].at = at
RequestGoto(r, at) == request' = [request EXCEPT ![r].at = at]
BrushAt(x, at) == brush[x].at = at
BrushGoto(x, at) == brush' = [brush EXCEPT ![x].at = at]
Rest(x) == brush' = [brush EXCEPT ![x] = Resting]
Sent(t) == waiting' = [waiting EXCEPT ![t] = @ + 1]
Accident ==
  /\ drawn.extras < MaxExtras
  /\ drawn' = [drawn EXCEPT !.extras = @ + 1]

\* Between reading the bytes of a document and charging the difference.
Counting(x) == brush[x].at \in {"probe", "bytes", "charge"}
Overlapped(x) ==
  IF \E y \in Runners \ {x} : Counting(y) THEN marks \cup {"overlap"}
  ELSE marks

(* ------------------------------ the request --------------------------- *)

\* upload_real_file: the new object first; the old one is deleted last.
StoreOriginal(r) ==
  /\ RequestAt(r, "idle") /\ image.there /\ drawn.names < MaxNames
  /\ LET n == drawn.names + 1 IN
     /\ request' = [request EXCEPT
                      ![r] = [at |-> "point", old |-> image.name, name |-> n]]
     /\ originals' = originals \cup {n}
     /\ drawn' = [drawn EXCEPT !.names = n]
  /\ UNCHANGED <<image, charged, derived, waiting, brush, marks>>

PointToOriginal(r) ==
  /\ RequestAt(r, "point")
  /\ image' = Written([image EXCEPT !.name = request[r].name])
  /\ RequestGoto(r, "queue")
  /\ UNCHANGED <<charged, originals, derived, waiting, brush, drawn, marks>>

\* FileThumbnailAPI and ProjectThumbnailAPI queue the task and nothing else.
Rebuild(r) ==
  /\ RequestAt(r, "idle") /\ image.there /\ drawn.extras < MaxExtras
  /\ request' = [request EXCEPT ![r] = [NoRequest EXCEPT !.at = "queue"]]
  /\ drawn' = [drawn EXCEPT !.extras = @ + 1]
  /\ UNCHANGED <<image, charged, originals, derived, waiting, brush, marks>>

MarkQueuing(r) ==
  /\ RequestAt(r, "queue")
  /\ WriteState("QUEUING")
  /\ RequestGoto(r, "send")
  /\ UNCHANGED <<charged, originals, derived, waiting, brush, drawn, marks>>

IsUpload(r) == request[r].name # 0
AfterSending(r) ==
  request' = [request EXCEPT
                ![r] = IF IsUpload(r) THEN [@ EXCEPT !.at = "drop"]
                                      ELSE NoRequest]

SendTask(r) ==
  /\ RequestAt(r, "send")
  /\ Sent(0)
  /\ AfterSending(r)
  /\ UNCHANGED <<image, charged, originals, derived, brush, drawn, marks>>

\* The broker refuses: a rebuild fails, an upload draws in the request.
SendRefused(r) ==
  /\ RequestAt(r, "send") /\ Accident
  /\ WriteState("FAILED")
  /\ request' = [request EXCEPT
                   ![r] = IF IsUpload(r) THEN [@ EXCEPT !.at = "inline"]
                                         ELSE NoRequest]
  /\ UNCHANGED <<charged, originals, derived, waiting, brush, marks>>

DrawInline(r) ==
  /\ RequestAt(r, "inline")
  /\ WriteState("QUEUING")
  /\ RequestGoto(r, "drawing")
  /\ BrushGoto(r, "read")
  /\ UNCHANGED <<charged, originals, derived, waiting, drawn, marks>>

DrawnInline(r) ==
  /\ RequestAt(r, "drawing") /\ BrushAt(r, "idle")
  /\ RequestGoto(r, "drop")
  /\ UNCHANGED <<image, charged, originals, derived, waiting, brush, drawn,
                 marks>>

\* _delete_stored_objects of the replaced name; a failure is only logged.
DropReplaced(r) ==
  /\ RequestAt(r, "drop")
  /\ request' = [request EXCEPT ![r] = NoRequest]
  /\ \/ /\ originals' = originals \ {request[r].old}
        /\ derived' = derived \ {request[r].old}
        /\ drawn' = drawn
     \/ Accident /\ UNCHANGED <<originals, derived>>
  /\ UNCHANGED <<image, charged, waiting, brush, marks>>

\* File.clear deletes the objects and then the document; it does not take
\* the derived bytes back from the project.  clear_contents also empties the
\* document, and sets the project's books to zero at the end.
DeleteObjects(r, next) ==
  /\ RequestAt(r, "idle") /\ image.there
  /\ originals' = originals \ {image.name}
  /\ derived' = derived \ {image.name}
  /\ request' = [request EXCEPT ![r] = [NoRequest EXCEPT !.at = next]]
  /\ UNCHANGED <<image, charged, waiting, brush, drawn, marks>>
DeleteImage(r) == DeleteObjects(r, "delete")
ClearImage(r) == DeleteObjects(r, "clear")

DropDocument(r) ==
  /\ request[r].at \in {"delete", "clear"}
  /\ image' = [image EXCEPT !.there = FALSE]
  /\ IF RequestAt(r, "clear")
       THEN RequestGoto(r, "zero")
       ELSE request' = [request EXCEPT ![r] = NoRequest]
  /\ marks' = marks
       \cup (IF \E x \in Runners : Counting(x) THEN {"overlap"} ELSE {})
       \cup (IF RequestAt(r, "delete") /\ image.there /\ image.bytes # 0
               THEN {"deleted"} ELSE {})
  /\ UNCHANGED <<charged, originals, derived, waiting, brush, drawn>>

ZeroBooks(r) ==
  /\ RequestAt(r, "zero")
  /\ charged' = 0
  /\ request' = [request EXCEPT ![r] = NoRequest]
  /\ UNCHANGED <<image, originals, derived, waiting, brush, drawn, marks>>

\* The request is killed; what it has not done is never done.
Cut == {"queue", "delete", "clear", "zero"}
RequestDies(r) ==
  /\ ~ RequestAt(r, "idle") /\ Accident
  /\ marks' = marks \cup (IF request[r].at \in Cut THEN {"cut"} ELSE {})
                    \cup (IF Counting(r) THEN {"uncounted"} ELSE {})
  /\ request' = [request EXCEPT ![r] = NoRequest]
  /\ Rest(r)
  /\ UNCHANGED <<image, charged, originals, derived, waiting>>

(* ------------------------------- the task ----------------------------- *)

TakeTask(w) ==
  /\ BrushAt(w, "idle")
  /\ \E t \in 0..MaxRetries :
       /\ waiting[t] > 0
       /\ waiting' = [waiting EXCEPT ![t] = @ - 1]
       /\ brush' = [brush EXCEPT ![w] = [Resting EXCEPT !.at = "read",
                                                        !.tries = t]]
  /\ UNCHANGED <<image, charged, originals, derived, request, drawn, marks>>

ReadImage(x) ==
  /\ BrushAt(x, "read")
  /\ IF image.there
       THEN brush' = [brush EXCEPT ![x].at = "mark", ![x].name = image.name]
       ELSE Rest(x)
  /\ UNCHANGED <<image, charged, originals, derived, waiting, request, drawn,
                 marks>>

MarkGenerating(x) ==
  /\ BrushAt(x, "mark")
  /\ ReportState(x, "GENERATING")
  /\ BrushGoto(x, "load")
  /\ UNCHANGED <<charged, originals, derived, waiting, request, drawn, marks>>

\* Downloading the original; a missing one ends the task for good.
LoadOriginal(x) ==
  /\ BrushAt(x, "load")
  /\ IF brush[x].name \in originals
       THEN BrushGoto(x, "publish") /\ image' = image
       ELSE Rest(x) /\ ReportState(x, "FAILED")
  /\ UNCHANGED <<charged, originals, derived, waiting, request, drawn, marks>>

PublishDerived(x) ==
  /\ BrushAt(x, "publish")
  /\ derived' = derived \cup {brush[x].name}
  /\ BrushGoto(x, "account")
  /\ UNCHANGED <<image, charged, originals, waiting, request, drawn, marks>>

\* Another error: retry sends the message again.  When the attempts are used
\* up, and in a request, retry raises the error it was given, so FAILED is
\* not written and the document stays GENERATING.
TaskFails(x) ==
  /\ brush[x].at \in {"load", "publish"} /\ Accident
  /\ IF x \in Painters /\ brush[x].tries < MaxRetries
       THEN Sent(brush[x].tries + 1) ELSE waiting' = waiting
  /\ Rest(x)
  /\ UNCHANGED <<image, charged, originals, derived, request, marks>>

\* The books, not fenced: the difference to what the document said.
ReadBytes(x) ==
  /\ BrushAt(x, "account")
  /\ IF image.there /\ image.bytes # Bytes(brush[x].name)
       THEN /\ brush' = [brush EXCEPT ![x].at = "bytes",
                                      ![x].prev = image.bytes]
            /\ marks' = Overlapped(x)
       ELSE BrushGoto(x, "finish") /\ marks' = marks
  /\ UNCHANGED <<image, charged, originals, derived, waiting, request, drawn>>

WriteBytes(x) ==
  /\ BrushAt(x, "bytes")
  /\ image' = Written([image EXCEPT !.bytes = Bytes(brush[x].name)])
  /\ BrushGoto(x, "charge")
  /\ UNCHANGED <<charged, originals, derived, waiting, request, drawn, marks>>

\* apply_derived_bytes: the project moves by the difference.
Bug_Difference(x) == Bytes(brush[x].name)
Difference(x) == Bytes(brush[x].name) - brush[x].prev
apply_derived_bytes(x) ==
  /\ BrushAt(x, "charge")
  /\ charged' = charged + Difference(x)
  /\ IF x = Script THEN Rest(x) ELSE BrushGoto(x, "finish")
  /\ UNCHANGED <<image, originals, derived, waiting, request, drawn, marks>>

\* An error while accounting is swallowed.
AccountingFails(x) ==
  /\ x # Script /\ brush[x].at \in {"bytes", "charge"} /\ Accident
  /\ marks' = marks \cup {"uncounted"}
  /\ BrushGoto(x, "finish")
  /\ UNCHANGED <<image, charged, originals, derived, waiting, request>>

FinishTask(x) ==
  /\ BrushAt(x, "finish")
  /\ ReportState(x, "SUCCEEDED")
  /\ Rest(x)
  /\ UNCHANGED <<charged, originals, derived, waiting, request, drawn, marks>>

\* A worker is killed: acks_late gives the message back, or it is lost.
PainterDies(w) ==
  /\ ~ BrushAt(w, "idle") /\ Accident
  /\ marks' = marks \cup (IF Counting(w) THEN {"uncounted"} ELSE {})
  /\ Rest(w)
  /\ Sent(brush[w].tries) \/ waiting' = waiting
  /\ UNCHANGED <<image, charged, originals, derived, request>>

(* ------------------------------ the script ---------------------------- *)

\* _pending_files lists images without bytes; each is probed much later, and
\* what was listed is the "previous" of the difference.
ListPending ==
  /\ BrushAt(Script, "idle")
  /\ image.there /\ image.name # 0 /\ image.bytes = 0
  /\ brush' = [brush EXCEPT ![Script] = [Resting EXCEPT !.at = "probe",
                                                        !.name = image.name]]
  /\ marks' = Overlapped(Script)
  /\ UNCHANGED <<image, charged, originals, derived, waiting, request, drawn>>

ProbeDerived ==
  /\ BrushAt(Script, "probe")
  /\ IF brush[Script].name \in derived THEN BrushGoto(Script, "bytes")
                                       ELSE Rest(Script)
  /\ UNCHANGED <<image, charged, originals, derived, waiting, request, drawn,
                 marks>>

Ask(r) ==
  \/ StoreOriginal(r) \/ Rebuild(r) \/ DeleteImage(r) \/ ClearImage(r)

Answer(r) ==
  \/ PointToOriginal(r) \/ MarkQueuing(r) \/ SendTask(r) \/ SendRefused(r)
  \/ DrawInline(r) \/ DrawnInline(r) \/ DropReplaced(r) \/ DropDocument(r)
  \/ ZeroBooks(r) \/ RequestDies(r)

Draw(x) ==
  \/ ReadImage(x) \/ MarkGenerating(x) \/ LoadOriginal(x) \/ PublishDerived(x)
  \/ TaskFails(x) \/ ReadBytes(x) \/ WriteBytes(x) \/ apply_derived_bytes(x)
  \/ AccountingFails(x) \/ FinishTask(x)

ImageNext ==
  \/ \E r \in Uploads : Ask(r) \/ Answer(r)
  \/ \E w \in Painters : TakeTask(w) \/ PainterDies(w)
  \/ \E x \in Runners : Draw(x)
  \/ ListPending \/ ProbeDerived

(* ------------------------------ properties ---------------------------- *)

\* _processed_image_url: the address is given without looking when the task
\* has said so or the record is older than the status, and otherwise when a
\* probe finds the object.
Signed ==
  /\ image.there /\ image.name # 0
  /\ image.status \in {"SUCCEEDED", "UNKNOWN"} \/ image.name \in derived

\* An image whose cover has an address has the cover: a late task of a
\* replaced object, a second delivery or a rebuild cannot vouch for objects
\* that do not exist.  The exceptions are the two windows the code has, in
\* which a request may also die: an upload has changed the name and not yet
\* the state, a deletion has removed the objects and not yet the document.
CoverUrlResolves ==
  (/\ "cut" \notin marks
   /\ \A r \in Uploads : request[r].at \notin Cut) =>
     (Signed => image.name \in derived)

\* The project's derived bytes are those of its image whenever nobody is
\* counting: drawing again, replacing, retrying, clearing and the backfill
\* script count nothing twice.  Not after two overlapping counts, a count
\* given up half way, or a deletion, which leaves the bytes on the project.
DerivedBytesAddUp ==
  (/\ marks \cap {"overlap", "uncounted", "deleted", "cut"} = {}
   /\ \A x \in Runners : ~ Counting(x)
   /\ \A r \in Uploads : request[r].at \notin Cut) =>
     charged = IF image.there THEN image.bytes ELSE 0
=============================================================================
