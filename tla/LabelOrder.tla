----------------------------- MODULE LabelOrder -----------------------------
(* The order of the labels (sources) of one image: new labels go last, and  *)
(* Source.move_ahead moves one in front of another or to the end by         *)
(* shifting ranks under the flag source_moving, which is read long before   *)
(* it is set.  `asked` is the order the requests have asked for; it changes *)
(* when a request has finished.                                             *)
EXTENDS Integers, FiniteSets, FiniteSetsExt, SequencesExt

CONSTANTS
  LabelIds,      \* identities a label may get
  Movers,      \* requests running at the same time
  End,         \* next_source_id "end"
  MaxMoves     \* bound: requests started

VARIABLES
  rank,        \* the labels that exist and their ranks
  sourceMoving,\* the flag on the file
  mover,       \* what each request remembers
  asked,       \* history: the order asked for
  clashes,     \* history: requests that disturbed each other, see Steady
  moves

labelVars == <<rank, sourceMoving, mover, asked, clashes, moves>>

Still == [at |-> "idle"]
MoverAt(h, at) == mover[h].at = at
MoverGoto(h, at) == mover' = [mover EXCEPT ![h].at = at]
MoverStops(h) == mover' = [mover EXCEPT ![h] = Still]

LastLabel == CHOOSE s \in DOMAIN rank : \A t \in DOMAIN rank : rank[t] <= rank[s]
NextRank == IF rank = <<>> THEN 0 ELSE rank[LastLabel] + 1
Shifted(ranks, step) ==
  [s \in DOMAIN rank |-> IF rank[s] \in ranks THEN rank[s] + step ELSE rank[s]]
OneMove == moves < MaxMoves /\ moves' = moves + 1

\* Somebody is between setting the flag and taking it away.
Shifting == \E h \in Movers : mover[h].at \in {"shift", "place", "unlock"}
Steady(ok) == clashes' = IF ok THEN clashes ELSE TRUE

Given == SetToSeq(LabelIds)
LabelInit ==
  /\ \E n \in 0..(Cardinality(LabelIds) - 1) :
       /\ rank = [s \in {Given[i] : i \in 1..n} |->
                    (CHOOSE i \in 1..n : Given[i] = s) - 1]
       /\ asked = SubSeq(Given, 1, n)
  /\ sourceMoving = FALSE
  /\ mover = [h \in Movers |-> Still]
  /\ clashes = FALSE /\ moves = 0

(* --------------------------- adding, deleting ------------------------- *)

\* next_source_rank, then the label is saved.
ReadLastRank(h) ==
  /\ MoverAt(h, "idle") /\ OneMove
  /\ mover' = [mover EXCEPT ![h] = [at |-> "add", rank |-> NextRank]]
  /\ Steady(~ Shifting)
  /\ UNCHANGED <<rank, sourceMoving, asked>>

SaveLabel(h) ==
  /\ MoverAt(h, "add")
  /\ \E s \in LabelIds \ DOMAIN rank :
       /\ rank' = [t \in DOMAIN rank \cup {s} |->
                     IF t = s THEN mover[h].rank ELSE rank[t]]
       /\ asked' = Append(asked, s)
  /\ MoverStops(h)
  /\ Steady(~ Shifting /\ mover[h].rank = NextRank)
  /\ UNCHANGED <<sourceMoving, moves>>

DeleteLabel(s) ==
  /\ s \in DOMAIN rank /\ OneMove
  /\ rank' = [t \in DOMAIN rank \ {s} |-> rank[t]]
  /\ asked' = SelectSeq(asked, LAMBDA t : t # s)
  /\ Steady(~ Shifting)
  /\ UNCHANGED <<sourceMoving, mover>>

(* ------------------------------- moving ------------------------------- *)

\* reload: the label with its rank, and the file with its flag.
ReadLabel(h) ==
  /\ MoverAt(h, "idle") /\ OneMove
  /\ \E s \in DOMAIN rank :
       mover' = [mover EXCEPT ![h] = [at |-> "look", self |-> s,
                                      rank |-> rank[s], held |-> sourceMoving]]
  /\ UNCHANGED <<rank, sourceMoving, asked, clashes>>

\* The label it is moved before, or the last one.  Nothing is done when it
\* is there already; a set flag refuses the request.
ReadNext(h) ==
  /\ MoverAt(h, "look")
  /\ LET m == mover[h] IN
     \E n \in DOMAIN rank \cup {End} :
       LET goal == IF n = End THEN LastLabel ELSE n IN
       /\ rank # <<>>
       /\ IF \/ goal = m.self
             \/ n # End /\ m.rank + 1 = rank[goal]
             \/ m.held
            THEN MoverStops(h)
            ELSE mover' = [mover EXCEPT
                   ![h] = [at |-> "lock", self |-> m.self, rank |-> m.rank,
                           next |-> n, goal |-> rank[goal], seen |-> rank]]
  /\ UNCHANGED <<rank, sourceMoving, asked, clashes, moves>>

LockMoving(h) ==
  /\ MoverAt(h, "lock")
  /\ Steady(~ sourceMoving /\ rank = mover[h].seen
            /\ mover[h].self \in DOMAIN rank
            /\ rank[mover[h].self] = mover[h].rank)
  /\ sourceMoving' = TRUE
  /\ MoverGoto(h, "shift")
  /\ UNCHANGED <<rank, asked, moves>>

\* The labels between the two places make room, then the label takes its
\* place: the rank of the last, of the next, or the one before the next.
ShiftRanks(h) ==
  /\ MoverAt(h, "shift")
  /\ LET m == mover[h] IN
     rank' = IF m.next = End THEN Shifted({k \in Range(rank) : k > m.rank}, -1)
             ELSE IF m.rank > m.goal
                    THEN Shifted(m.goal..m.rank - 1, 1)
                    ELSE Shifted(m.rank + 1..m.goal - 1, -1)
  /\ MoverGoto(h, "place")
  /\ UNCHANGED <<sourceMoving, asked, clashes, moves>>

Bug_Place(m) == m.goal
Place(m) == IF m.next # End /\ m.rank < m.goal THEN m.goal - 1 ELSE m.goal

PlaceLabel(h) ==
  /\ MoverAt(h, "place")
  /\ rank' = IF mover[h].self \in DOMAIN rank
               THEN [rank EXCEPT ![mover[h].self] = Place(mover[h])] ELSE rank
  /\ MoverGoto(h, "unlock")
  /\ UNCHANGED <<sourceMoving, asked, clashes, moves>>

\* What was asked for: taken out, and put in front of the next or last.
MovedBefore(order, s, n) ==
  LET rest == SelectSeq(order, LAMBDA t : t # s) IN
  IF n \in ToSet(rest)
    THEN LET i == CHOOSE j \in DOMAIN rest : rest[j] = n IN
         InsertAt(rest, i, s)
    ELSE Append(rest, s)

UnlockMoving(h) ==
  /\ MoverAt(h, "unlock")
  /\ sourceMoving' = FALSE
  /\ asked' = MovedBefore(asked, mover[h].self, mover[h].next)
  /\ MoverStops(h)
  /\ UNCHANGED <<rank, clashes, moves>>

\* A request dies; a flag it has set stays, and every later move is refused.
MoverDies(h) ==
  /\ ~ MoverAt(h, "idle")
  /\ Steady(mover[h].at \notin {"shift", "place", "unlock"})
  /\ MoverStops(h)
  /\ UNCHANGED <<rank, sourceMoving, asked, moves>>

MoveLabel(h) ==
  \/ ReadLabel(h) \/ ReadNext(h) \/ LockMoving(h) \/ ShiftRanks(h)
  \/ PlaceLabel(h) \/ UnlockMoving(h)

LabelNext ==
  \/ \E h \in Movers : ReadLastRank(h) \/ SaveLabel(h) \/ MoveLabel(h) \/ MoverDies(h)
  \/ \E s \in LabelIds : DeleteLabel(s)

(* ------------------------------ properties ---------------------------- *)

\* After any sequence of additions, moves and deletions the ranks sort the
\* labels as the requests asked, also over the gaps that deletions and moves
\* leave, and no two labels share a rank.  Not while a move shifts, nor after
\* requests that disturbed each other: the flag is checked before it is set.
MovedAsAsked ==
  (~ clashes /\ ~ Shifting) =>
    /\ DOMAIN rank = ToSet(asked)
    /\ \A i, j \in DOMAIN asked : i < j => rank[asked[i]] < rank[asked[j]]
=============================================================================
