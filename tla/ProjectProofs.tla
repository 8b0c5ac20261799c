---------------------------- MODULE ProjectProofs ----------------------------
(***************************************************************************)
(* Proofs about ProjectJobs: what a clear, the exports and the imports     *)
(* leave, for any number of requests and workers and any bounds.           *)
(***************************************************************************)
EXTENDS ProjectJobs, FiniteSetTheorems, WellFoundedInduction, TLAPS

(* Induction over a finite set, and the sums that it gives. *)
\* Of some subsets of a finite set one contains no other.
LEMMA SmallestSet ==
    ASSUME NEW S, IsFiniteSet(S), NEW T \in SUBSET SUBSET S, T # {}
    PROVE  \E t \in T : \A y \in T : y \subseteq t => y = t
<1>1. IsWellFoundedOn(StrictSubsetOrdering(S), FiniteSubsetsOf(S))
  BY FS_StrictSubsetOrderingWellFounded
<1>2. T \subseteq FiniteSubsetsOf(S)
  <2>1. FiniteSubsetsOf(S) = SUBSET S
    BY ONLY IsFiniteSet(S), FS_FiniteSubsetsOfFinite
  <2> QED
    BY ONLY <2>1, T \in SUBSET SUBSET S
<1>3. PICK t \in T : \A y \in T : <<y, t>> \notin StrictSubsetOrdering(S)
  BY ONLY <1>1, <1>2, T # {}, WFMin
<1>4. ASSUME NEW y \in T, y \subseteq t, y # t PROVE FALSE
  <2>1. <<y, t>> \in StrictSubsetOrdering(S)
    BY <1>4 DEF StrictSubsetOrdering
  <2> QED
    BY <1>3, <2>1
<1> QED
  BY <1>4

\* What holds of nothing, and of X with one element more when it holds of X,
\* holds of a finite set.
LEMMA SetInduction ==
    ASSUME NEW S, IsFiniteSet(S), NEW G \in SUBSET SUBSET S, {} \in G,
           \A X \in G : \A y \in S \ X : X \cup {y} \in G
    PROVE  S \in G
<1> SUFFICES ASSUME S \notin G PROVE FALSE
  OBVIOUS
<1> DEFINE T == {X \in SUBSET S : X \notin G}
<1>1. PICK t \in T : \A y \in T : y \subseteq t => y = t
  <2>1. S \in T /\ T \in SUBSET SUBSET S
    OBVIOUS
  <2> HIDE DEF T
  <2>2. T # {}
    BY <2>1
  <2> QED
    BY ONLY <2>1, <2>2, IsFiniteSet(S), SmallestSet
<1>2. PICK y \in t : TRUE
  OBVIOUS
<1>3. t \ {y} \in G
  BY <1>1
<1>4. (t \ {y}) \cup {y} = t /\ y \in S \ (t \ {y})
  OBVIOUS
<1> QED
  BY <1>3, <1>4

\* The sum of w over a finite set, as the fold of the library computes it.
SumOver(w, S) == MapThenSumSet(LAMBDA n : w[n], S)
Adds(w, S, g) ==
  /\ g \in [SUBSET S -> Int] /\ g[{}] = 0
  /\ \A s \in SUBSET S : \A z \in s : g[s] = w[z] + g[s \ {z}]

\* One such function there is, and it is the one the fold chooses.
LEMMA SumExists ==
    ASSUME NEW S, IsFiniteSet(S), NEW w, \A x \in S : w[x] \in Int
    PROVE  \E g : Adds(w, S, g)
<1> DEFINE G == {X \in SUBSET S : \E g : Adds(w, X, g)}
<1>1. {} \in G
  <2>1. Adds(w, {}, [s \in SUBSET {} |-> 0])
    BY DEF Adds
  <2> QED
    BY <2>1
<1>2. ASSUME NEW X \in G, NEW y \in S \ X PROVE X \cup {y} \in G
  <2>1. PICK g : Adds(w, X, g)
    OBVIOUS
  <2> DEFINE Y == X \cup {y}
             f == [s \in SUBSET Y |-> IF y \in s THEN w[y] + g[s \ {y}] ELSE g[s]]
  <2>2. w[y] \in Int
    OBVIOUS
  <2>3. \A s \in SUBSET Y : s \ {y} \in SUBSET X /\ (y \notin s => s \in SUBSET X)
    OBVIOUS
  <2>4. f \in [SUBSET Y -> Int] /\ f[{}] = 0
    BY <2>1, <2>2, <2>3 DEF Adds
  <2>5. ASSUME NEW s \in SUBSET Y, NEW z \in s PROVE f[s] = w[z] + f[s \ {z}]
    <3>1. s \ {z} \in SUBSET Y /\ w[z] \in Int
      OBVIOUS
    <3>2. CASE z = y
      BY <3>1, <3>2, <2>3
    <3>3. CASE z # y /\ y \in s
      <4>1. g[s \ {y}] = w[z] + g[(s \ {y}) \ {z}] /\ g[(s \ {y}) \ {z}] \in Int
        BY <2>1, <2>3, <3>3 DEF Adds
      <4>2. (s \ {y}) \ {z} = (s \ {z}) \ {y} /\ y \in s \ {z}
        BY <3>3
      <4>3. f[s] = w[y] + g[s \ {y}] /\ f[s \ {z}] = w[y] + g[(s \ {z}) \ {y}]
        BY <3>1, <3>3, <4>2
      <4>4. f[s] = w[y] + (w[z] + g[(s \ {y}) \ {z}]) /\ f[s \ {z}] = w[y] + g[(s \ {y}) \ {z}]
        BY ONLY <4>1, <4>2, <4>3
      <4> QED
        BY ONLY <4>1, <4>4, <3>1, <2>2
    <3>4. CASE z # y /\ y \notin s
      <4>1. g[s] = w[z] + g[s \ {z}]
        BY <2>1, <2>3, <3>4 DEF Adds
      <4> QED
        BY <3>1, <3>4, <4>1
    <3> QED
      BY <3>2, <3>3, <3>4
  <2>6. Adds(w, Y, f)
    BY <2>4, <2>5 DEF Adds
  <2> QED
    BY <2>6
<1> HIDE DEF G
<1>3. S \in G
  <2>1. G \in SUBSET SUBSET S
    BY DEF G
  <2> QED
    BY ONLY <2>1, <1>1, <1>2, IsFiniteSet(S), SetInduction
<1> QED
  BY <1>3 DEF G

Folded(w, S, g) ==
  g = [s \in SUBSET S |-> IF s = {} THEN 0
                          ELSE w[CHOOSE x \in s : TRUE] + g[s \ {CHOOSE x \in s : TRUE}]]

\* The fold is the function of its defining equation.
LEMMA FoldIs == ASSUME NEW w, NEW S PROVE SumOver(w, S) = (CHOOSE g : Folded(w, S, g))[S]
BY DEF SumOver, MapThenSumSet, MapThenFoldSet, Folded

\* A function that adds up satisfies the equation of the fold,
LEMMA AddsFolds ==
    ASSUME NEW S, NEW w, NEW g, Adds(w, S, g)
    PROVE  Folded(w, S, g)
<1>1. g = [s \in SUBSET S |-> g[s]]
  BY DEF Adds
<1>2. \A s \in SUBSET S : s # {} => (CHOOSE x \in s : TRUE) \in s
  OBVIOUS
<1>3. \A s \in SUBSET S : g[s] = IF s = {} THEN 0 ELSE w[CHOOSE x \in s : TRUE] + g[s \ {CHOOSE x \in s : TRUE}]
  BY <1>2 DEF Adds
<1> QED
  BY <1>1, <1>3 DEF Folded

\* and any other that satisfies it agrees with it on the whole set,
LEMMA FoldsAgree ==
    ASSUME NEW S, IsFiniteSet(S), NEW w, NEW g, Adds(w, S, g), NEW f, Folded(w, S, f)
    PROVE  f[S] = g[S]
<1>1. Folded(w, S, g)
  BY AddsFolds
<1> DEFINE T == {s \in SUBSET S : f[s] # g[s]}
<1>2. T = {}
  <2> SUFFICES ASSUME T # {} PROVE FALSE
    OBVIOUS
  <2>1. PICK t \in T : \A y \in T : y \subseteq t => y = t
    <3>1. T \in SUBSET SUBSET S
      OBVIOUS
    <3> HIDE DEF T
    <3> QED
      BY ONLY <3>1, T # {}, IsFiniteSet(S), SmallestSet
  <2> DEFINE c == CHOOSE x \in t : TRUE
  <2>2. t # {}
    BY <1>1 DEF Folded
  <2>3. c \in t /\ f[t] = w[c] + f[t \ {c}] /\ g[t] = w[c] + g[t \ {c}]
    BY <1>1, <2>2 DEF Folded
  <2>4. f[t \ {c}] = g[t \ {c}]
    BY <2>1, <2>3
  <2> QED
    BY <2>3, <2>4
<1> QED
  BY <1>2

\* so the fold is what a function that adds up says.
LEMMA SumIs ==
    ASSUME NEW S, IsFiniteSet(S), NEW w, NEW g, Adds(w, S, g)
    PROVE  SumOver(w, S) = g[S]
<1>1. Folded(w, S, g)
  BY AddsFolds
<1>2. PICK f : f = CHOOSE h : Folded(w, S, h)
  OBVIOUS
<1>3. Folded(w, S, f)
  BY <1>1, <1>2
<1>4. f[S] = g[S]
  BY <1>3, FoldsAgree
<1> QED
  BY <1>2, <1>4, FoldIs

\* An element more: its weight more.
LEMMA SumAdds ==
    ASSUME NEW S, IsFiniteSet(S), NEW w, \A x \in S : w[x] \in Int
    PROVE  /\ SumOver(w, S) \in Int /\ SumOver(w, {}) = 0
           /\ \A z \in S : SumOver(w, S) = w[z] + SumOver(w, S \ {z})
<1>1. PICK g : Adds(w, S, g)
  BY SumExists
<1>2. ASSUME NEW s \in SUBSET S PROVE SumOver(w, s) = g[s]
  <2> DEFINE f == [q \in SUBSET s |-> g[q]]
  <2>1. Adds(w, s, f)
    BY <1>1 DEF Adds
  <2>2. IsFiniteSet(s)
    BY FS_Subset
  <2> HIDE DEF f
  <2>3. SumOver(w, s) = f[s]
    BY <2>1, <2>2, SumIs
  <2> QED
    BY <2>3 DEF f
<1> QED
  BY <1>1, <1>2 DEF Adds

\* Sums of weights that agree on the set agree.
LEMMA SumSame ==
    ASSUME NEW S, IsFiniteSet(S), NEW w, NEW v, \A x \in S : w[x] \in Int /\ v[x] = w[x]
    PROVE  SumOver(v, S) = SumOver(w, S)
<1>1. PICK g : Adds(w, S, g)
  BY SumExists
<1>2. Adds(v, S, g)
  BY <1>1 DEF Adds
<1> QED
  BY <1>1, <1>2, SumIs

\* The sum over two sets with nothing in common.
LEMMA SumUnion ==
    ASSUME NEW S, IsFiniteSet(S), NEW R, IsFiniteSet(R), S \cap R = {},
           NEW w, \A x \in S \cup R : w[x] \in Int
    PROVE  SumOver(w, S \cup R) = SumOver(w, S) + SumOver(w, R)
<1> DEFINE G == {X \in SUBSET R : SumOver(w, S \cup X) = SumOver(w, S) + SumOver(w, X)}
<1>0. ASSUME NEW X \in SUBSET R
      PROVE  /\ IsFiniteSet(X) /\ IsFiniteSet(S \cup X)
             /\ SumOver(w, X) \in Int /\ SumOver(w, S) \in Int /\ SumOver(w, S \cup X) \in Int
  <2>1. IsFiniteSet(X)
    BY FS_Subset
  <2>2. IsFiniteSet(S \cup X)
    BY <2>1, FS_Union
  <2> QED
    BY <2>1, <2>2, SumAdds
<1>1. {} \in G
  <2>1. S \cup {} = S
    OBVIOUS
  <2> QED
    BY <2>1, <1>0, SumAdds
<1>2. ASSUME NEW X \in G, NEW y \in R \ X PROVE X \cup {y} \in G
  <2> DEFINE Y == X \cup {y}
  <2>1. Y \in SUBSET R /\ X \in SUBSET R /\ Y \ {y} = X /\ (S \cup Y) \ {y} = S \cup X /\ y \in Y /\ y \in S \cup Y
    OBVIOUS
  <2> HIDE DEF Y
  <2>a. IsFiniteSet(Y) /\ IsFiniteSet(S \cup Y) /\ \A x \in S \cup Y : w[x] \in Int
    BY <2>1, <1>0
  <2>2. SumOver(w, Y) = w[y] + SumOver(w, X)
    <3>1. \A z \in Y : SumOver(w, Y) = w[z] + SumOver(w, Y \ {z})
      BY ONLY <2>1, <2>a, SumAdds
    <3> QED
      BY ONLY <2>1, <3>1
  <2>3. SumOver(w, S \cup Y) = w[y] + SumOver(w, S \cup X)
    <3>1. \A z \in S \cup Y : SumOver(w, S \cup Y) = w[z] + SumOver(w, (S \cup Y) \ {z})
      BY ONLY <2>a, SumAdds
    <3> QED
      BY ONLY <2>1, <3>1
  <2>4. SumOver(w, S \cup X) = SumOver(w, S) + SumOver(w, X)
    OBVIOUS
  <2>5. w[y] \in Int
    OBVIOUS
  <2>7. SumOver(w, X) \in Int /\ SumOver(w, S) \in Int
    BY <1>0
  <2>6. SumOver(w, S \cup Y) = SumOver(w, S) + SumOver(w, Y)
    BY ONLY <2>2, <2>3, <2>4, <2>5, <2>7
  <2> QED
    BY <2>1, <2>6 DEF Y
<1> HIDE DEF G
<1>3. R \in G
  <2>1. G \in SUBSET SUBSET R
    BY DEF G
  <2> QED
    BY ONLY <2>1, <1>1, <1>2, IsFiniteSet(R), SetInduction
<1> QED
  BY <1>3 DEF G

\* One weight changed: the sum of every set it is in changes by as much.
LEMMA SumMoves ==
    ASSUME NEW S, IsFiniteSet(S), NEW w, NEW v, NEW n, NEW d \in Int,
           \A x \in S : w[x] \in Int /\ v[x] = IF x = n THEN w[x] + d ELSE w[x]
    PROVE  SumOver(v, S) = SumOver(w, S) + (IF n \in S THEN d ELSE 0)
<1>1. CASE n \notin S
  BY <1>1, SumSame, SumAdds
<1>2. CASE n \in S
  <2>1. IsFiniteSet(S \ {n})
    BY FS_RemoveElement
  <2>2. SumOver(v, S \ {n}) = SumOver(w, S \ {n}) /\ SumOver(w, S \ {n}) \in Int
    BY <2>1, SumSame, SumAdds
  <2>3. SumOver(v, S) = v[n] + SumOver(v, S \ {n})
    BY <1>2, SumAdds
  <2>4. SumOver(w, S) = w[n] + SumOver(w, S \ {n}) /\ w[n] \in Int /\ v[n] = w[n] + d
    BY <1>2, SumAdds
  <2> QED
    BY <1>2, <2>2, <2>3, <2>4
<1> QED
  BY <1>1, <1>2

(* The types of the model, and the invariant. *)
Ids == 1..MaxMade
\* What a cleaner may have read: bytes of some of the exports.
Readings == UNION {[D -> Nat] : D \in SUBSET Ids}
JobRecords ==
  [kind : {"complete", "reopen", "clear", "upload", "export"},
   pc : {"write", "lock", "files", "outputs", "unbook", "drop", "zero", "commit",
         "save", "count", "delete", "create"},
   version : Nat, files : SUBSET Ids, outputs : Readings]
TaskRecords ==
  [kind : {"export", "import"}, id : Ids,
   pc : {"record", "charge", "claim", "preparing", "importing", "counting"}, bytes : Int]
Marked == {"late", "twice", "zeroed", "killed", "stuck"}

ProjectStatuses == {"NORMAL", "COMPLETED", "CLEARED"}
ProjectDocs ==
  [status : ProjectStatuses, version : Nat, clearing : BOOLEAN, files : Int, output : Int]

JobsTypeOK ==
  /\ project \in ProjectDocs
  /\ files \in SUBSET Ids
  /\ output \in Readings
  /\ DOMAIN task \in SUBSET Ids /\ task \in [DOMAIN task -> Underway \cup Final]
  /\ queue \in SUBSET [kind : {"export", "import"}, id : Ids, copy : {1, 2}]
  /\ request \in [Requests -> JobRecords \cup {NoJob}]
  /\ worker \in [Workers -> TaskRecords \cup {NoJob}]
  /\ made \in 0..MaxMade /\ races \in SUBSET Marked

\* What is still to be made is mentioned nowhere.
NothingAhead ==
  /\ \A t \in DOMAIN task : t <= made
  /\ \A m \in queue : m.id <= made
  /\ \A w \in Workers : worker[w] /= NoJob => worker[w].id <= made

\* An export is delivered once and read before it holds anything, so that what
\* a worker has yet to charge is all that it has recorded.
Exporting(w) == worker[w] /= NoJob /\ worker[w].kind = "export"
ExportsOnce ==
  /\ \A w \in Workers : worker[w] /= NoJob =>
       worker[w].bytes \in Nat /\ (worker[w].pc = "record" => worker[w].bytes = 0)
  /\ \A m \in queue : m.kind = "export" =>
       /\ m.copy = 1
       /\ m.id \in DOMAIN output => output[m.id] = 0
       /\ \A w \in Workers : Exporting(w) => worker[w].id /= m.id

\* One request at most holds the flag, and what it has emptied stays empty
\* unless somebody was late.
ClearPhases == {"files", "outputs", "unbook", "drop", "zero", "commit"}
Clearing(r) ==
  request[r] /= NoJob /\ request[r].kind = "clear" /\ request[r].pc \in ClearPhases
FlagHeld ==
  /\ \A r \in Requests : Clearing(r) => project.clearing
  /\ \A r, s \in Requests : Clearing(r) /\ Clearing(s) => r = s
  /\ project.clearing => project.status \in {"NORMAL", "COMPLETED"}
\* What the clear has emptied by the phase it is in.
EmptiedBy(r) ==
  /\ At(r, "clear", "files") => files \subseteq request[r].files
  /\ (\E p \in {"outputs", "unbook", "drop"} : At(r, "clear", p)) => files = {}
  /\ At(r, "clear", "zero") => files = {} /\ output = <<>>
  /\ At(r, "clear", "commit") =>
       files = {} /\ output = <<>> /\ project.files = 0 /\ project.output = 0
Emptying == "late" \notin races => \A r \in Requests : EmptiedBy(r)

\* A task that has been claimed has one worker, who is where the task is.
Importing(w) ==
  worker[w] /= NoJob /\ worker[w].kind = "import" /\ worker[w].pc /= "claim"
ImportsKnown ==
  /\ \A m \in queue : m.kind = "import" => m.id \in DOMAIN task
  /\ \A w \in Workers : worker[w] /= NoJob /\ worker[w].kind = "import" =>
       worker[w].id \in DOMAIN task
ImportsOwned ==
  /\ \A w \in Workers : Importing(w) =>
       task[worker[w].id] = IF worker[w].pc = "preparing" THEN "preparing" ELSE "importing"
  /\ \A v, w \in Workers :
       Importing(v) /\ Importing(w) /\ worker[v].id = worker[w].id => v = w

JobsIInv ==
  /\ JobsTypeOK /\ NothingAhead /\ ExportsOnce /\ NeverUndercounts
  /\ FlagHeld /\ Emptying /\ ClearedHoldsNothing
  /\ ImportsKnown /\ ImportsOwned

LEMMA NothingRead == \A f, S : f \in [{} -> S] => f = <<>>
OBVIOUS

LEMMA EmptyReading == <<>> \in Readings /\ DOMAIN <<>> = {}
BY DEF Readings

LEMMA ReadingFacts ==
  ASSUME NEW seen \in Readings
  PROVE  /\ DOMAIN seen \in SUBSET Ids /\ seen \in [DOMAIN seen -> Nat]
BY DEF Readings

LEMMA ReadIsReading ==
  ASSUME JobsTypeOK, NEW outs \in SUBSET DOMAIN output
  PROVE  Read(outs) \in Readings /\ DOMAIN Read(outs) = outs
BY DEF JobsTypeOK, Read, Readings


LEMMA DocFields ==
  \A p \in ProjectDocs :
    /\ p.output \in Int /\ p.files \in Int /\ p.version \in Nat /\ p.version + 1 \in Nat
    /\ p.status \in ProjectStatuses /\ p.clearing \in BOOLEAN
BY DEF ProjectDocs, ProjectStatuses

LEMMA DocFlagged ==
  \A p \in ProjectDocs : \A c \in BOOLEAN : [p EXCEPT !.clearing = c] \in ProjectDocs
BY DEF ProjectDocs, ProjectStatuses

LEMMA DocCounts ==
  \A p \in ProjectDocs : \A n, m \in Int :
    /\ [p EXCEPT !.files = n] \in ProjectDocs /\ [p EXCEPT !.output = n] \in ProjectDocs
    /\ [p EXCEPT !.files = n, !.output = m] \in ProjectDocs
<1> SUFFICES ASSUME NEW p \in ProjectDocs, NEW n \in Int, NEW m \in Int
             PROVE  /\ [p EXCEPT !.files = n] \in ProjectDocs /\ [p EXCEPT !.output = n] \in ProjectDocs
                    /\ [p EXCEPT !.files = n, !.output = m] \in ProjectDocs
  OBVIOUS
<1>1. [p EXCEPT !.files = n] \in ProjectDocs
  BY DEF ProjectDocs, ProjectStatuses
<1>2. [p EXCEPT !.output = n] \in ProjectDocs
  BY DEF ProjectDocs, ProjectStatuses
<1>3. [p EXCEPT !.files = n, !.output = m] \in ProjectDocs
  BY DEF ProjectDocs, ProjectStatuses
<1> QED
  BY <1>1, <1>2, <1>3

DocStep(p, q) ==
  \/ q = p
  \/ \E s \in ProjectStatuses : q = [p EXCEPT !.status = s, !.version = p.version + 1]
  \/ \E s \in ProjectStatuses, c \in BOOLEAN :
       q = [p EXCEPT !.status = s, !.clearing = c, !.version = p.version + 1]
  \/ q = [p EXCEPT !.version = p.version + 1]
  \/ \E c \in BOOLEAN : q = [p EXCEPT !.clearing = c]
  \/ \E n \in Int : q = [p EXCEPT !.files = n] \/ q = [p EXCEPT !.output = n]
  \/ q = [p EXCEPT !.files = 0, !.output = 0]

LEMMA DocSteps ==
  ASSUME NEW p \in ProjectDocs, NEW q, DocStep(p, q)
  PROVE  q \in ProjectDocs
<1>1. ASSUME q = [p EXCEPT !.version = p.version + 1] PROVE q \in ProjectDocs
  BY <1>1 DEF ProjectDocs
<1>2. p.version + 1 \in Nat
  BY DocFields
<1>3. ASSUME NEW s \in ProjectStatuses,
             q = [p EXCEPT !.status = s, !.version = p.version + 1]
      PROVE  q \in ProjectDocs
  <2>1. PICK v \in Nat : v = p.version + 1
    BY <1>2
  <2> QED
    BY <1>3, <2>1 DEF ProjectDocs, ProjectStatuses
<1>4. ASSUME NEW s \in ProjectStatuses, NEW c \in BOOLEAN,
             q = [p EXCEPT !.status = s, !.clearing = c, !.version = p.version + 1]
      PROVE  q \in ProjectDocs
  <2>1. PICK v \in Nat : v = p.version + 1
    BY <1>2
  <2> QED
    BY <1>4, <2>1 DEF ProjectDocs, ProjectStatuses
<1>5. \A c \in BOOLEAN : q = [p EXCEPT !.clearing = c] => q \in ProjectDocs
  BY DocFlagged
<1>6. \A n \in Int : q = [p EXCEPT !.files = n] \/ q = [p EXCEPT !.output = n] => q \in ProjectDocs
  BY DocCounts
<1>7. ASSUME NEW n \in Int, n = 0, q = [p EXCEPT !.files = n, !.output = n]
      PROVE  q \in ProjectDocs
  BY <1>7 DEF ProjectDocs
<1>8. CASE q = [p EXCEPT !.files = 0, !.output = 0]
  <2>0. 0 \in Int
    BY ONLY SMT
  <2>1. PICK n \in Int : n = 0
    BY ONLY <2>0
  <2>2. q = [p EXCEPT !.files = n, !.output = n]
    BY <1>8, <2>1
  <2> QED
    BY <1>7, <2>1, <2>2
<1>9. CASE \E s \in ProjectStatuses :
             q = [p EXCEPT !.status = s, !.version = p.version + 1]
  BY <1>3, <1>9
<1>10. CASE \E s \in ProjectStatuses, c \in BOOLEAN :
              q = [p EXCEPT !.status = s, !.clearing = c, !.version = p.version + 1]
  BY <1>4, <1>10
<1> QED
  BY ONLY <1>1, <1>5, <1>6, <1>8, <1>9, <1>10, p \in ProjectDocs, DocStep(p, q) DEF DocStep

\* The sum over the exports that a reading makes.
LEMMA TotalIs == ASSUME NEW seen PROVE Total(seen) = SumOver(seen, DOMAIN seen)
BY DEF Total, SumOver, MapThenSumSet, MapThenFoldSet

LEMMA IdsFinite == IsFiniteSet(Ids)
BY FS_Interval, JobsAssumption DEF Ids

\* The same reading with none for the exports it leaves out.
Padded(seen) == [o \in Ids |-> IF o \in DOMAIN seen THEN seen[o] ELSE 0]

\* When two weights are together below a third one, their sums are too.
LEMMA SumsWithin ==
    ASSUME NEW S, IsFiniteSet(S), NEW a, NEW b, NEW c,
           \A x \in S : a[x] \in Int /\ b[x] \in Int /\ c[x] \in Int /\ a[x] + b[x] <= c[x]
    PROVE  SumOver(a, S) + SumOver(b, S) <= SumOver(c, S)
<1> DEFINE G == {X \in SUBSET S : SumOver(a, X) + SumOver(b, X) <= SumOver(c, X)}
<1>1. {} \in G
  BY SumAdds
<1>2. ASSUME NEW X \in G, NEW y \in S \ X PROVE X \cup {y} \in G
  <2> DEFINE Y == X \cup {y}
  <2>1. Y \in SUBSET S /\ X \in SUBSET S /\ Y \ {y} = X /\ y \in Y
    OBVIOUS
  <2>2. IsFiniteSet(Y) /\ IsFiniteSet(X)
    BY <2>1, FS_Subset
  <2>7. \A x \in Y : a[x] \in Int /\ b[x] \in Int /\ c[x] \in Int
    BY <2>1
  <2>8. \A x \in X : a[x] \in Int /\ b[x] \in Int /\ c[x] \in Int
    BY <2>1
  <2> HIDE DEF Y
  <2>3. SumOver(a, Y) = a[y] + SumOver(a, X) /\ SumOver(a, X) \in Int
    BY ONLY <2>1, <2>2, <2>7, <2>8, SumAdds
  <2>4. SumOver(b, Y) = b[y] + SumOver(b, X) /\ SumOver(b, X) \in Int
    BY ONLY <2>1, <2>2, <2>7, <2>8, SumAdds
  <2>5. SumOver(c, Y) = c[y] + SumOver(c, X) /\ SumOver(c, X) \in Int
    BY ONLY <2>1, <2>2, <2>7, <2>8, SumAdds
  <2>6. SumOver(a, X) + SumOver(b, X) <= SumOver(c, X) /\ a[y] + b[y] <= c[y]
    OBVIOUS
  <2>9. SumOver(a, Y) + SumOver(b, Y) <= SumOver(c, Y)
    BY ONLY <2>1, <2>3, <2>4, <2>5, <2>6, <2>7
  <2> QED
    BY <2>1, <2>9 DEF Y
<1> HIDE DEF G
<1>3. S \in G
  <2>1. G \in SUBSET SUBSET S
    BY DEF G
  <2> QED
    BY ONLY <2>1, <1>1, <1>2, IsFiniteSet(S), SetInduction
<1> QED
  BY <1>3 DEF G

\* Nothing weighed, nothing summed.
LEMMA SumZero ==
    ASSUME NEW S, IsFiniteSet(S), NEW a, \A x \in S : a[x] = 0
    PROVE  SumOver(a, S) = 0
<1>1. Adds(a, S, [s \in SUBSET S |-> 0])
  BY DEF Adds
<1> QED
  BY <1>1, SumIs

LEMMA TotalPadded ==
    ASSUME NEW seen \in Readings
    PROVE  Total(seen) = SumOver(Padded(seen), Ids) /\ Total(seen) \in Int
<1> DEFINE D == DOMAIN seen
           R == Ids \ D
           v == Padded(seen)
<1>1. D \in SUBSET Ids /\ seen \in [D -> Nat]
  BY DEF Readings
<1>2. IsFiniteSet(D) /\ IsFiniteSet(R)
  BY <1>1, IdsFinite, FS_Subset
<1>3. /\ \A x \in D : seen[x] \in Int /\ v[x] \in Int /\ v[x] = seen[x]
      /\ \A x \in R : v[x] = 0 /\ v[x] \in Int
  BY <1>1 DEF Padded
<1>4. D \cap R = {} /\ D \cup R = Ids /\ \A x \in D \cup R : v[x] \in Int
  BY <1>1, <1>3
<1>5. Total(seen) = SumOver(seen, D)
  BY TotalIs
<1> HIDE DEF D, R, v
<1>6. SumOver(v, D) = SumOver(seen, D) /\ SumOver(seen, D) \in Int
  BY ONLY <1>2, <1>3, SumSame, SumAdds
<1>7. SumOver(v, R) = 0
  BY ONLY <1>2, <1>3, SumZero
<1>8. SumOver(v, Ids) = SumOver(v, D) + SumOver(v, R)
  BY ONLY <1>2, <1>4, SumUnion
<1>9. Total(seen) = SumOver(v, Ids) /\ Total(seen) \in Int
  BY <1>5, <1>6, <1>7, <1>8
<1> QED
  BY <1>9 DEF v

LEMMA PaddedFacts ==
    ASSUME NEW seen \in Readings, NEW o \in Ids
    PROVE  /\ Padded(seen)[o] \in Nat
           /\ Padded(seen)[o] = IF o \in DOMAIN seen THEN seen[o] ELSE 0
BY DEF Padded, Readings

\* Readings that add up to no more, export by export.
LEMMA TotalsWithin ==
    ASSUME NEW a \in Readings, NEW b \in Readings, NEW c \in Readings,
           \A o \in Ids : Padded(a)[o] + Padded(b)[o] <= Padded(c)[o]
    PROVE  Total(a) + Total(b) <= Total(c)
<1>1. \A x \in Ids : /\ Padded(a)[x] \in Int /\ Padded(b)[x] \in Int
                     /\ Padded(c)[x] \in Int
  BY PaddedFacts
<1>2. SumOver(Padded(a), Ids) + SumOver(Padded(b), Ids) <= SumOver(Padded(c), Ids)
  BY ONLY <1>1, IdsFinite, SumsWithin,
          \A o \in Ids : Padded(a)[o] + Padded(b)[o] <= Padded(c)[o]
<1> QED
  BY <1>2, TotalPadded

LEMMA TotalOfNone == \A seen \in Readings :
                       (\A o \in DOMAIN seen : seen[o] = 0) => Total(seen) = 0
<1> SUFFICES ASSUME NEW seen \in Readings, \A o \in DOMAIN seen : seen[o] = 0
             PROVE  Total(seen) = 0
  OBVIOUS
<1>1. \A o \in Ids : Padded(seen)[o] = 0
  BY PaddedFacts
<1>2. SumOver(Padded(seen), Ids) = 0
  BY ONLY <1>1, IdsFinite, SumZero
<1> QED
  BY <1>2, TotalPadded

LEMMA TotalFacts == \A seen \in Readings : Total(seen) \in Nat
<1> SUFFICES ASSUME NEW seen \in Readings PROVE Total(seen) \in Nat
  OBVIOUS
<1>1. PICK none : none = <<>>
  OBVIOUS
<1>2. none \in Readings /\ DOMAIN none = {}
  BY <1>1, EmptyReading
<1>3. \A o \in Ids : Padded(none)[o] = 0 /\ Padded(seen)[o] \in Nat
  BY <1>2, PaddedFacts
<1>4. Total(none) = 0
  BY <1>2, TotalOfNone
<1>5. \A o \in Ids : Padded(none)[o] + Padded(none)[o] <= Padded(seen)[o]
  BY <1>3
<1>6. Total(none) + Total(none) <= Total(seen)
  BY ONLY <1>2, <1>5, TotalsWithin
<1> QED
  BY <1>4, <1>6, TotalPadded

LEMMA JobsTypeInit == JobsInit => JobsTypeOK
<1> SUFFICES ASSUME JobsInit PROVE JobsTypeOK
  OBVIOUS
<1>1. output \in Readings
  BY EmptyReading DEF JobsInit
<1>2. task \in [DOMAIN task -> Underway \cup Final] /\ DOMAIN task \in SUBSET Ids
  BY DEF JobsInit
<1> QED
  BY <1>1, <1>2, JobsAssumption DEF JobsInit, JobsTypeOK, ProjectDocs, ProjectStatuses

\* A step that gives one request another job, or none, keeps the types.
LEMMA StepTyped ==
  ASSUME JobsTypeOK, NEW r \in Requests, NEW j \in JobRecords \cup {NoJob}, Step(r, j)
  PROVE  request' \in [Requests -> JobRecords \cup {NoJob}]
BY DEF JobsTypeOK, Step

LEMMA TakeTyped ==
  ASSUME JobsTypeOK, NEW r \in Requests, NEW j \in JobRecords \cup {NoJob}, Take(r, j)
  PROVE  request' \in [Requests -> JobRecords \cup {NoJob}]
BY DEF JobsTypeOK, Take

LEMMA AssignTyped ==
  ASSUME JobsTypeOK, NEW w \in Workers, NEW j \in TaskRecords \cup {NoJob}, Assign(w, j)
  PROVE  worker' \in [Workers -> TaskRecords \cup {NoJob}]
BY DEF JobsTypeOK, Assign

LEMMA NewJobTyped ==
  /\ NewJob("upload", "save") \in JobRecords
  /\ JobsTypeOK => /\ Versioned("complete", "write") \in JobRecords
                   /\ Versioned("reopen", "write") \in JobRecords
                   /\ Versioned("clear", "lock") \in JobRecords
  /\ \A seen \in Readings :
       [NewJob("export", "delete") EXCEPT !.outputs = seen] \in JobRecords
<1>1. PICK none \in Readings : none = <<>>
  BY EmptyReading
<1>2. NewJob("upload", "save") \in JobRecords
  BY <1>1 DEF NewJob, JobRecords
<1>3. ASSUME JobsTypeOK
      PROVE  /\ Versioned("complete", "write") \in JobRecords
             /\ Versioned("reopen", "write") \in JobRecords
             /\ Versioned("clear", "lock") \in JobRecords
  <2>1. project.version \in Nat
    BY <1>3, DocFields DEF JobsTypeOK
  <2> QED
    BY <1>1, <2>1 DEF Versioned, NewJob, JobRecords
<1>4. \A seen \in Readings :
        [NewJob("export", "delete") EXCEPT !.outputs = seen] \in JobRecords
  BY <1>1 DEF NewJob, JobRecords
<1> QED
  BY <1>2, <1>3, <1>4

LEMMA AtTyped ==
  ASSUME JobsTypeOK, NEW r \in Requests, request[r] /= NoJob
  PROVE  request[r] \in JobRecords
BY DEF JobsTypeOK

LEMMA WorksTyped ==
  ASSUME JobsTypeOK, NEW w \in Workers, worker[w] /= NoJob
  PROVE  worker[w] \in TaskRecords
BY DEF JobsTypeOK

\* An import that is begun.
LEMMA MakeTyped ==
  ASSUME JobsTypeOK, Make
  PROVE  made' \in 1..MaxMade /\ made' = made + 1 /\ made' \in Ids /\ made' \in 0..MaxMade
BY JobsAssumption DEF JobsTypeOK, Make, Ids

\* A file that is stored, and one that is counted.
LEMMA FileTyped ==
  ASSUME JobsTypeOK, NewFile
  PROVE  files' \in SUBSET Ids /\ made' \in 0..MaxMade /\ races' \in SUBSET Marked
BY MakeTyped DEF NewFile, Late, JobsTypeOK, Marked

LEMMA CountTyped ==
  ASSUME JobsTypeOK, Counted
  PROVE  project' \in ProjectDocs /\ races' \in SUBSET Marked
<1>1. project.files + 1 \in Int
  BY DocFields DEF JobsTypeOK
<1> QED
  BY <1>1, DocSteps DEF DocStep, ProjectStatuses, Counted, Late, JobsTypeOK, Marked

\* Exports that are zeroed, and those that are made or dropped.
LEMMA ZeroTyped ==
  ASSUME JobsTypeOK, NEW seen \in Readings, Zero(seen)
  PROVE  output' \in Readings /\ races' \in SUBSET Marked
BY DEF Zero, Touched, Readings, JobsTypeOK, Marked

LEMMA AddTyped ==
  ASSUME JobsTypeOK, NEW n \in Int, Add(n)
  PROVE  project' \in ProjectDocs /\ project' = [project EXCEPT !.output = project.output + n]
<1>1. project.output + n \in Int
  BY DocFields DEF JobsTypeOK
<1> QED
  BY <1>1, DocCounts DEF Add, JobsTypeOK

LEMMA SubtractTyped ==
  ASSUME JobsTypeOK, NEW seen \in Readings, Subtract(seen)
  PROVE  project' \in ProjectDocs
<1>1. - Total(seen) \in Int
  BY TotalFacts
<1> QED
  BY <1>1, AddTyped DEF Subtract

LEMMA RaisedTyped ==
  ASSUME JobsTypeOK, NEW r \in Requests, Raised(r)
  PROVE  project' \in ProjectDocs /\ request' \in [Requests -> JobRecords \cup {NoJob}]
BY DocSteps, StepTyped DEF DocStep, ProjectStatuses, Raised, JobsTypeOK

\* A request at a phase, and what it may become.
LEMMA JobTyped ==
  ASSUME JobsTypeOK, NEW r \in Requests, request[r] /= NoJob
  PROVE  /\ request[r] \in JobRecords /\ request[r].outputs \in Readings
         /\ \A p \in {"unbook", "zero", "commit", "count", "create"} :
              [request[r] EXCEPT !.pc = p] \in JobRecords
         /\ \A p \in {"drop", "create"} :
              [request[r] EXCEPT !.pc = p, !.outputs = <<>>] \in JobRecords
         /\ [request[r] EXCEPT !.pc = "files", !.files = files] \in JobRecords
         /\ \A seen \in Readings :
              [request[r] EXCEPT !.pc = "outputs", !.files = {}, !.outputs = seen] \in JobRecords
<1>1. request[r] \in JobRecords
  BY AtTyped
<1>2. PICK none \in Readings : none = <<>>
  BY EmptyReading
<1>3. files \in SUBSET Ids
  BY DEF JobsTypeOK
<1>4. \A p \in {"unbook", "zero", "commit", "count", "create"} :
        [request[r] EXCEPT !.pc = p] \in JobRecords
  BY <1>1 DEF JobRecords
<1>5. \A p \in {"drop", "create"}, seen \in Readings :
        [request[r] EXCEPT !.pc = p, !.outputs = seen] \in JobRecords
  BY <1>1 DEF JobRecords
<1>6. \A listed \in SUBSET Ids : [request[r] EXCEPT !.pc = "files", !.files = listed] \in JobRecords
  BY <1>1 DEF JobRecords
<1>7. \A seen \in Readings :
        [request[r] EXCEPT !.pc = "outputs", !.files = {}, !.outputs = seen] \in JobRecords
  BY <1>1 DEF JobRecords
<1>8. request[r].outputs \in Readings
  BY <1>1 DEF JobRecords
<1> QED
  BY <1>1, <1>2, <1>3, <1>4, <1>5, <1>6, <1>7, <1>8

LEMMA CallsTyped ==
  ASSUME JobsTypeOK, NEW r \in Requests, Calls(r) PROVE JobsTypeOK'
<1> USE DEF Underway, Final
<1>1. CASE CallComplete(r) \/ CallReopen(r) \/ CallClear(r) \/ CallUpload(r)
  BY <1>1, NewJobTyped, TakeTyped
     DEF JobsTypeOK, CallComplete, CallReopen, CallClear, CallUpload
<1>2. CASE CallExport(r)
  <2>1. Older(KeptOutputs) \in SUBSET DOMAIN output
    BY DEF Older
  <2>2. request' \in [Requests -> JobRecords \cup {NoJob}]
    BY <1>2, <2>1, ReadIsReading, NewJobTyped, TakeTyped DEF CallExport
  <2> QED
    BY <1>2, <2>2 DEF JobsTypeOK, CallExport
<1>3. CASE CallImport(r)
  <2>1. made' \in Ids /\ made' \in 0..MaxMade
    BY <1>3, MakeTyped DEF CallImport
  <2>2. queue' \in SUBSET [kind : {"export", "import"}, id : Ids, copy : {1, 2}]
    BY <1>3, <2>1 DEF CallImport, JobsTypeOK, Message
  <2>3. DOMAIN task' \in SUBSET Ids /\ task' \in [DOMAIN task' -> Underway \cup Final]
    BY <1>3, <2>1 DEF CallImport, JobsTypeOK
  <2> QED
    BY <1>3, <2>1, <2>2, <2>3 DEF CallImport, JobsTypeOK
<1> QED
  BY <1>1, <1>2, <1>3 DEF Calls

LEMMA ClearsTyped ==
  ASSUME JobsTypeOK, NEW r \in Requests, Lifecycle(r) PROVE JobsTypeOK'
<1>1. CASE complete(r) \/ reopen(r)
  <2>1. request' \in [Requests -> JobRecords \cup {NoJob}]
    BY <1>1, StepTyped DEF complete, reopen, Moves
  <2>2. project' \in ProjectDocs
    BY <1>1, DocSteps DEF DocStep, ProjectStatuses, complete, reopen, Moves, JobsTypeOK
  <2> QED
    BY <1>1, <2>1, <2>2 DEF complete, reopen, Moves, JobsTypeOK
<1>2. CASE LockClear(r)
  <2>1. request' \in [Requests -> JobRecords \cup {NoJob}]
    BY <1>2, JobTyped, StepTyped DEF LockClear, At
  <2>2. project' \in ProjectDocs
    BY <1>2, DocSteps DEF DocStep, ProjectStatuses, LockClear, JobsTypeOK
  <2> QED
    BY <1>2, <2>1, <2>2 DEF LockClear, JobsTypeOK
<1>3. CASE clear_files(r)
  <2>1. Read(DOMAIN output) \in Readings
    BY ReadIsReading
  <2>2. request' \in [Requests -> JobRecords \cup {NoJob}] /\ project' \in ProjectDocs
    <3>1. [request[r] EXCEPT !.pc = "outputs", !.files = {}, !.outputs = Read(DOMAIN output)]
            \in JobRecords
      BY <1>3, <2>1, JobTyped DEF clear_files, At
    <3> QED
      BY <1>3, <3>1, StepTyped, RaisedTyped DEF clear_files, JobsTypeOK
  <2> QED
    BY <1>3, <2>2 DEF clear_files, JobsTypeOK
<1>4. CASE clear_outputs(r)
  <2>1. request' \in [Requests -> JobRecords \cup {NoJob}] /\ project' \in ProjectDocs
    BY <1>4, JobTyped, StepTyped, RaisedTyped, SubtractTyped DEF clear_outputs, At
  <2> QED
    BY <1>4, <2>1 DEF clear_outputs, JobsTypeOK
<1>5. CASE clear_unbook(r)
  <2>1. request' \in [Requests -> JobRecords \cup {NoJob}]
    BY <1>5, JobTyped, StepTyped DEF clear_unbook, At
  <2>2. output' \in Readings /\ races' \in SUBSET Marked
    BY <1>5, JobTyped, ZeroTyped DEF clear_unbook, At
  <2> QED
    BY <1>5, <2>1, <2>2 DEF clear_unbook, JobsTypeOK
<1>6. CASE clear_drop(r)
  <2>1. request' \in [Requests -> JobRecords \cup {NoJob}]
    BY <1>6, JobTyped, StepTyped DEF clear_drop, At
  <2> QED
    BY <1>6, <2>1, EmptyReading DEF clear_drop, JobsTypeOK
<1>7. CASE clear_zero(r)
  <2>1. request' \in [Requests -> JobRecords \cup {NoJob}]
    BY <1>7, JobTyped, StepTyped DEF clear_zero, At
  <2>2. project' \in ProjectDocs
    BY <1>7, DocSteps DEF DocStep, ProjectStatuses, clear_zero, Emptied, JobsTypeOK
  <2> QED
    BY <1>7, <2>1, <2>2 DEF clear_zero, JobsTypeOK, Marked
<1>8. CASE commit_clear(r)
  <2>1. request' \in [Requests -> JobRecords \cup {NoJob}]
    BY <1>8, StepTyped DEF commit_clear
  <2>2. project' \in ProjectDocs
    BY <1>8, DocSteps DEF DocStep, ProjectStatuses, commit_clear, JobsTypeOK
  <2> QED
    BY <1>8, <2>1, <2>2 DEF commit_clear, JobsTypeOK
<1> QED
  BY <1>1, <1>2, <1>3, <1>4, <1>5, <1>6, <1>7, <1>8 DEF Lifecycle

LEMMA ServesTyped ==
  ASSUME JobsTypeOK, NEW r \in Requests, Serve(r), ~ Lifecycle(r) PROVE JobsTypeOK'
<1>1. CASE save_upload(r)
  <2>1. request' \in [Requests -> JobRecords \cup {NoJob}]
    BY <1>1, JobTyped, StepTyped DEF save_upload, At
  <2> QED
    BY <1>1, <2>1, FileTyped DEF save_upload, JobsTypeOK
<1>2. CASE count_upload(r)
  BY <1>2, StepTyped, CountTyped DEF count_upload, JobsTypeOK
<1>3. CASE DeleteOld(r)
  <2>1. request' \in [Requests -> JobRecords \cup {NoJob}]
    BY <1>3, JobTyped, StepTyped DEF DeleteOld, At
  <2>2. project' \in ProjectDocs
    BY <1>3, JobTyped, SubtractTyped DEF DeleteOld, At, JobsTypeOK
  <2> QED
    BY <1>3, <2>1, <2>2 DEF DeleteOld, Late, JobsTypeOK, Marked
<1>4. CASE ZeroOld(r)
  <2>1. request' \in [Requests -> JobRecords \cup {NoJob}]
    BY <1>4, JobTyped, StepTyped DEF ZeroOld, At
  <2>2. output' \in Readings /\ races' \in SUBSET Marked
    BY <1>4, JobTyped, ZeroTyped DEF ZeroOld, At
  <2> QED
    BY <1>4, <2>1, <2>2 DEF ZeroOld, JobsTypeOK
<1>5. CASE CreateOutput(r)
  <2>1. made' \in Ids /\ made' \in 0..MaxMade
    BY <1>5, MakeTyped DEF CreateOutput
  <2>2. queue' \in SUBSET [kind : {"export", "import"}, id : Ids, copy : {1, 2}]
    BY <1>5, <2>1 DEF CreateOutput, JobsTypeOK, Message
  <2>3. request' \in [Requests -> JobRecords \cup {NoJob}]
    BY <1>5, StepTyped DEF CreateOutput
  <2>4. output' \in Readings
    BY <1>5, <2>1 DEF CreateOutput, JobsTypeOK, Readings
  <2> QED
    BY <1>5, <2>1, <2>2, <2>3, <2>4 DEF CreateOutput, JobsTypeOK, Late, Marked
<1> QED
  BY <1>1, <1>2, <1>3, <1>4, <1>5 DEF Serve

LEMMA WorkTyped ==
  ASSUME JobsTypeOK, NEW w \in Workers, Work(w) PROVE JobsTypeOK'
<1> USE DEF Underway, Final
<1>1. CASE BeginExport(w)
  <2>1. PICK m \in queue :
          /\ m.kind = "export" /\ Received(w, m)
          /\ IF m.id \in DOMAIN output THEN Assign(w, Task(m, "record", output[m.id]))
                                       ELSE UNCHANGED worker
    BY <1>1 DEF BeginExport
  <2>2. m.id \in DOMAIN output => Task(m, "record", output[m.id]) \in TaskRecords
    BY <2>1 DEF Task, TaskRecords, JobsTypeOK, Readings
  <2>3. worker' \in [Workers -> TaskRecords \cup {NoJob}]
    BY <2>1, <2>2, AssignTyped DEF JobsTypeOK
  <2>4. queue' \in SUBSET [kind : {"export", "import"}, id : Ids, copy : {1, 2}]
    BY <2>1 DEF Received, JobsTypeOK
  <2> QED
    BY <1>1, <2>3, <2>4 DEF BeginExport, JobsTypeOK
<1>2. CASE RecordOutput(w)
  <2>1. worker[w] \in TaskRecords
    BY <1>2, WorksTyped DEF RecordOutput, Works
  <2>2. \A size \in ArchiveSizes : Charge(worker[w], size - worker[w].bytes) \in TaskRecords
    <3>1. \A b \in Int : Charge(worker[w], b) \in TaskRecords
      BY <2>1 DEF TaskRecords, Charge
    <3>2. \A size \in ArchiveSizes : size - worker[w].bytes \in Int
      <4>1. PICK b \in Int : b = worker[w].bytes
        BY <2>1 DEF TaskRecords
      <4>2. \A size \in ArchiveSizes : size \in Int
        BY JobsAssumption
      <4> QED
        BY ONLY <4>1, <4>2
    <3> QED
      BY <3>1, <3>2
  <2>3. worker' \in [Workers -> TaskRecords \cup {NoJob}]
    BY <1>2, <2>2, AssignTyped DEF RecordOutput
  <2>4. output' \in Readings
    <3>1. \A size \in ArchiveSizes : size \in Nat
      BY JobsAssumption
    <3>2. DOMAIN output \in SUBSET Ids /\ output \in [DOMAIN output -> Nat]
      BY DEF JobsTypeOK, Readings
    <3>3. output' \in [DOMAIN output -> Nat]
      BY <1>2, <3>1, <3>2 DEF RecordOutput
    <3> QED
      BY <3>2, <3>3 DEF Readings
  <2> QED
    BY <1>2, <2>3, <2>4 DEF RecordOutput, JobsTypeOK
<1>3. CASE ChargeOutput(w)
  <2>1. worker[w] \in TaskRecords
    BY <1>3, WorksTyped DEF ChargeOutput, Works
  <2>2. worker[w].bytes \in Int
    BY <2>1 DEF TaskRecords
  <2>3. project' \in ProjectDocs
    BY <1>3, <2>2, AddTyped DEF ChargeOutput
  <2> QED
    BY <1>3, <2>3, AssignTyped DEF ChargeOutput, Late, JobsTypeOK, Marked
<1>4. CASE TakeImport(w)
  <2>1. PICK m \in queue :
          /\ m.kind = "import" /\ Received(w, m)
          /\ IF task[m.id] = "queued" THEN Assign(w, Task(m, "claim", 0))
                                      ELSE UNCHANGED worker
    BY <1>4 DEF TakeImport
  <2>2. Task(m, "claim", 0) \in TaskRecords
    BY <2>1 DEF Task, TaskRecords, JobsTypeOK
  <2>3. worker' \in [Workers -> TaskRecords \cup {NoJob}]
    BY <2>1, <2>2, AssignTyped DEF JobsTypeOK
  <2>4. queue' \in SUBSET [kind : {"export", "import"}, id : Ids, copy : {1, 2}]
    BY <2>1 DEF Received, JobsTypeOK
  <2> QED
    BY <1>4, <2>3, <2>4 DEF TakeImport, JobsTypeOK
<1>5. ASSUME NEW j \in TaskRecords \cup {NoJob}, Assign(w, j), NEW s \in Underway \cup Final,
             task' = [task EXCEPT ![worker[w].id] = s] \/ task' = task,
             UNCHANGED <<project, files, output, queue, request, made, races, booked>>
      PROVE  JobsTypeOK'
  <2>1. worker' \in [Workers -> TaskRecords \cup {NoJob}]
    BY <1>5, AssignTyped
  <2> QED
    BY <1>5, <2>1 DEF JobsTypeOK
<1>6. ASSUME NEW s \in {"preparing", "importing", "counting"}, worker[w] /= NoJob
      PROVE  [worker[w] EXCEPT !.pc = s] \in TaskRecords
  BY <1>6, WorksTyped DEF TaskRecords
<1>7. CASE claim(w)
  BY <1>5, <1>6, <1>7 DEF claim, Works
<1>8. CASE Prepare(w)
  BY <1>5, <1>6, <1>8 DEF Prepare, Works
<1>9. CASE ImportPage(w)
  BY <1>6, <1>9, FileTyped, AssignTyped DEF ImportPage, Works, JobsTypeOK
<1>10. CASE CountPage(w)
  BY <1>6, <1>10, CountTyped, AssignTyped DEF CountPage, Works, JobsTypeOK
<1>11. CASE EndImport(w)
  BY <1>5, <1>11 DEF EndImport, Works
<1> QED
  BY <1>1, <1>2, <1>3, <1>4, <1>7, <1>8, <1>9, <1>10, <1>11 DEF Work

LEMMA JobsTypeNext == JobsTypeOK /\ [JobsNext]_jobsVars => JobsTypeOK'
<1> SUFFICES ASSUME JobsTypeOK, [JobsNext]_jobsVars PROVE JobsTypeOK'
  OBVIOUS
<1>1. CASE transfer_owner
  <2>1. DocStep(project, project')
    BY <1>1 DEF DocStep, transfer_owner
  <2> QED
    BY <1>1, <2>1, DocSteps DEF transfer_owner, JobsTypeOK
<1>2. CASE Killed
  <2>1. request' \in [Requests -> JobRecords \cup {NoJob}]
    BY <1>2, StepTyped DEF Killed, JobsTypeOK
  <2>2. worker' \in [Workers -> TaskRecords \cup {NoJob}]
    BY <1>2, AssignTyped DEF Killed, JobsTypeOK
  <2>3. races' \in SUBSET Marked
    BY <1>2 DEF Killed, Marks, Marked, JobsTypeOK
  <2> QED
    BY <1>2, <2>1, <2>2, <2>3 DEF Killed, JobsTypeOK
<1>3. CASE UNCHANGED jobsVars
  BY <1>3 DEF jobsVars, JobsTypeOK
<1> QED
  BY <1>1, <1>2, <1>3, CallsTyped, ClearsTyped, ServesTyped, WorkTyped DEF JobsNext

\* What most steps leave alone: messages, tasks, and the jobs of workers that
\* are not killed.
Quiet ==
  \/ \E r \in Requests : Calls(r) /\ ~ CallImport(r)
  \/ \E r \in Requests : Serve(r) /\ ~ CreateOutput(r)
  \/ transfer_owner \/ Killed \/ UNCHANGED jobsVars

LEMMA QuietSteps ==
  ASSUME JobsTypeOK, Quiet
  PROVE  /\ UNCHANGED <<task, queue>> /\ made' \in Nat /\ made <= made'
         /\ \A w \in Workers : worker'[w] \in {worker[w], NoJob}
<1>1. UNCHANGED <<task, queue>> /\ (UNCHANGED made \/ Make)
  <2>1. CASE \/ (\E r \in Requests : Calls(r) /\ ~ CallImport(r))
             \/ transfer_owner \/ Killed \/ UNCHANGED jobsVars
    BY <2>1 DEF jobsVars, Calls, CallComplete, CallReopen, CallClear, CallUpload, CallExport,
                transfer_owner, Killed
  <2>2. CASE \E r \in Requests : Lifecycle(r)
    BY <2>2 DEF Lifecycle, complete, reopen, Moves, LockClear, clear_files, clear_outputs,
                clear_unbook, clear_drop, clear_zero, commit_clear
  <2>3. CASE \E r \in Requests : save_upload(r) \/ count_upload(r) \/ DeleteOld(r) \/ ZeroOld(r)
    BY <2>3 DEF save_upload, NewFile, count_upload, DeleteOld, ZeroOld
  <2> QED
    BY <2>1, <2>2, <2>3 DEF Quiet, Serve
<1>2. made \in Nat
  BY DEF JobsTypeOK
<1>3. CASE Killed
  <2>1. \A w \in Workers : worker'[w] \in {worker[w], NoJob}
    BY <1>3 DEF Killed, Assign, JobsTypeOK
  <2> QED
    BY <2>1, <1>1, <1>2, MakeTyped DEF Ids
<1>4. CASE ~ Killed
  <2>1. UNCHANGED worker
    <3>1. CASE \/ (\E r \in Requests : Calls(r) /\ ~ CallImport(r))
               \/ transfer_owner \/ UNCHANGED jobsVars
      BY <3>1 DEF jobsVars, Calls, CallComplete, CallReopen, CallClear, CallUpload, CallExport,
                  transfer_owner
    <3>2. CASE \E r \in Requests : Lifecycle(r)
      BY <3>2 DEF Lifecycle, complete, reopen, Moves, LockClear, clear_files, clear_outputs,
                  clear_unbook, clear_drop, clear_zero, commit_clear
    <3>3. CASE \E r \in Requests : save_upload(r) \/ count_upload(r) \/ DeleteOld(r) \/ ZeroOld(r)
      BY <3>3 DEF save_upload, count_upload, DeleteOld, ZeroOld
    <3> QED
      BY <1>4, <3>1, <3>2, <3>3 DEF Quiet, Serve
  <2> QED
    BY <2>1, <1>1, <1>2, MakeTyped DEF Ids
<1> QED
  BY <1>3, <1>4

\* The cases of a step that matter to messages and tasks.
LEMMA JobsCases ==
  ASSUME [JobsNext]_jobsVars, NEW P \in BOOLEAN, Quiet => P,
         \A r \in Requests : CreateOutput(r) \/ CallImport(r) => P,
         \A w \in Workers : Work(w) => P
  PROVE  P
BY DEF JobsNext, Quiet

\* What a worker turns to is none of its jobs, the one it has, or a message's.
LEMMA WorkSteps ==
  ASSUME JobsTypeOK, NEW w \in Workers, Work(w)
  PROVE  /\ \A v \in Workers : v /= w => worker'[v] = worker[v]
         /\ \/ worker'[w] = worker[w] \/ worker'[w] = NoJob
            \/ worker[w] /= NoJob /\ worker'[w].id = worker[w].id
                                  /\ worker'[w].kind = worker[w].kind
            \/ \E m \in queue : worker'[w].id = m.id /\ worker'[w].kind = m.kind
<1>1. ASSUME NEW j, Assign(w, j)
      PROVE  worker'[w] = j /\ \A v \in Workers : v /= w => worker'[v] = worker[v]
  BY <1>1 DEF Assign, JobsTypeOK
<1>2. CASE BeginExport(w) \/ TakeImport(w)
  <2>1. PICK m \in queue :
          UNCHANGED worker \/ \E p, b : Assign(w, Task(m, p, b))
    BY <1>2 DEF BeginExport, TakeImport
  <2>2. \A p, b : Task(m, p, b).id = m.id /\ Task(m, p, b).kind = m.kind
    BY DEF Task
  <2> QED
    BY ONLY <1>1, <2>1, <2>2
<1>3. ASSUME worker[w] /= NoJob
      PROVE  /\ \A p : /\ [worker[w] EXCEPT !.pc = p].id = worker[w].id
                       /\ [worker[w] EXCEPT !.pc = p].kind = worker[w].kind
             /\ \A b : /\ Charge(worker[w], b).id = worker[w].id
                       /\ Charge(worker[w], b).kind = worker[w].kind
  BY <1>3, WorksTyped DEF TaskRecords, Charge
<1>4. CASE RecordOutput(w)
  <2>1. worker[w] /= NoJob
    BY <1>4 DEF RecordOutput, Works
  <2>2. \/ \E b : Assign(w, Charge(worker[w], b))
        \/ Assign(w, NoJob)
    BY <1>4 DEF RecordOutput
  <2> QED
    BY <1>1, <1>3, <2>1, <2>2
<1>5. CASE ChargeOutput(w) \/ EndImport(w)
  BY <1>1, <1>5 DEF ChargeOutput, EndImport
<1>6. CASE claim(w) \/ Prepare(w) \/ ImportPage(w) \/ CountPage(w)
  <2>1. worker[w] /= NoJob
    BY <1>6 DEF claim, Prepare, ImportPage, CountPage, Works
  <2>2. (\E p : Assign(w, [worker[w] EXCEPT !.pc = p])) \/ Assign(w, NoJob)
    BY <1>6 DEF claim, Prepare, ImportPage, CountPage
  <2> QED
    BY <1>1, <1>3, <2>1, <2>2
<1> QED
  BY <1>2, <1>4, <1>5, <1>6 DEF Work

LEMMA QuietSpares ==
  Quiet => UNCHANGED output \/ \E r \in Requests : clear_unbook(r) \/ clear_drop(r) \/ ZeroOld(r)
<1>1. ASSUME NEW r \in Requests, Calls(r) PROVE UNCHANGED output
  BY <1>1 DEF Calls, CallComplete, CallReopen, CallClear, CallUpload, CallExport, CallImport
<1>2. ASSUME NEW r \in Requests, Serve(r),
             ~ clear_unbook(r), ~ clear_drop(r), ~ ZeroOld(r), ~ CreateOutput(r)
      PROVE  UNCHANGED output
  BY <1>2 DEF Serve, Lifecycle, complete, reopen, Moves, LockClear, clear_files, clear_outputs,
              clear_zero, commit_clear, save_upload, count_upload, DeleteOld
<1>4. transfer_owner \/ Killed \/ UNCHANGED jobsVars => UNCHANGED output
  BY DEF transfer_owner, Killed, jobsVars
<1> QED
  BY <1>1, <1>2, <1>4 DEF Quiet

\* The steps that change the exports.
LEMMA OutputSteps ==
  ASSUME [JobsNext]_jobsVars
  PROVE  \/ UNCHANGED output
         \/ \E r \in Requests : clear_unbook(r) \/ clear_drop(r) \/ ZeroOld(r) \/ CreateOutput(r)
         \/ \E w \in Workers : RecordOutput(w)
<1>1. ASSUME NEW r \in Requests, CallImport(r) PROVE UNCHANGED output
  BY <1>1 DEF CallImport
<1>2. ASSUME NEW w \in Workers, Work(w), ~ RecordOutput(w) PROVE UNCHANGED output
  BY <1>2 DEF Work, BeginExport, ChargeOutput, TakeImport, claim, Prepare, ImportPage, CountPage,
              EndImport
<1> QED
  BY <1>1, <1>2, QuietSpares DEF JobsNext, Quiet

LEMMA AheadNext ==
  ASSUME JobsTypeOK, NothingAhead, [JobsNext]_jobsVars
  PROVE  NothingAhead'
<1>0. /\ made \in Nat /\ \A w \in Workers : worker[w] /= NoJob => worker[w].id \in Nat
      /\ (\A t \in DOMAIN task : t \in Nat) /\ \A m \in queue : m.id \in Nat
  BY WorksTyped DEF JobsTypeOK, TaskRecords, Ids
<1>1. CASE Quiet
  <2>1. /\ UNCHANGED <<task, queue>> /\ made' \in Nat /\ made <= made'
        /\ \A w \in Workers : worker'[w] \in {worker[w], NoJob}
    BY ONLY <1>1, JobsTypeOK, QuietSteps
  <2> QED
    BY ONLY <2>1, <1>0, NothingAhead DEF NothingAhead
<1>2. ASSUME NEW r \in Requests, CreateOutput(r) \/ CallImport(r) PROVE NothingAhead'
  <2>1. made' = made + 1 /\ made' \in Nat /\ UNCHANGED worker
    BY <1>2, MakeTyped DEF CreateOutput, CallImport, Ids
  <2>2. \A m \in queue' : m \in queue \/ m.id = made'
    BY <1>2 DEF CreateOutput, CallImport, Message
  <2>3. \A t \in DOMAIN task' : t \in DOMAIN task \/ t = made'
    BY <1>2 DEF CreateOutput, CallImport
  <2> QED
    BY ONLY <2>1, <2>2, <2>3, <1>0, NothingAhead DEF NothingAhead
<1>3. ASSUME NEW w \in Workers, Work(w) PROVE NothingAhead'
  <2>1. queue' \subseteq queue /\ DOMAIN task' = DOMAIN task /\ made' \in Nat /\ made <= made'
    <3>1. queue' \subseteq queue /\ DOMAIN task' = DOMAIN task /\ (UNCHANGED made \/ Make)
      <4>1. CASE BeginExport(w) \/ RecordOutput(w) \/ ChargeOutput(w) \/ TakeImport(w) \/ claim(w)
        BY <4>1 DEF BeginExport, RecordOutput, ChargeOutput, TakeImport, claim, Received
      <4>2. CASE Prepare(w) \/ ImportPage(w) \/ CountPage(w) \/ EndImport(w)
        BY <4>2 DEF Prepare, ImportPage, CountPage, NewFile, EndImport
      <4> QED
        BY <1>3, <4>1, <4>2 DEF Work
    <3> QED
      BY <3>1, <1>0, MakeTyped DEF Ids
  <2>2. \A v \in Workers : worker'[v] /= NoJob =>
          \/ worker[v] /= NoJob /\ worker'[v].id = worker[v].id
          \/ \E m \in queue : worker'[v].id = m.id
    BY <1>3, WorkSteps
  <2> QED
    BY ONLY <2>1, <2>2, <1>0, NothingAhead DEF NothingAhead
<1> QED
  BY ONLY <1>1, <1>2, <1>3, [JobsNext]_jobsVars, JobsCases

LEMMA ExportsNext ==
  ASSUME JobsTypeOK, NothingAhead, ExportsOnce, [JobsNext]_jobsVars
  PROVE  ExportsOnce'
<1>0. /\ made \in Nat /\ \A m \in queue : m.id \in Nat /\ m.id <= made
      /\ \A w \in Workers : worker[w] /= NoJob => worker[w].id \in Nat /\ worker[w].id <= made
  BY WorksTyped DEF JobsTypeOK, TaskRecords, Ids, NothingAhead
\* Bytes only fall, but for the export that a worker records.
<1>1. CASE Quiet
  <2>1. UNCHANGED <<task, queue>> /\ \A w \in Workers : worker'[w] \in {worker[w], NoJob}
    BY ONLY <1>1, JobsTypeOK, QuietSteps
  <2>2. \A o \in DOMAIN output' : o \in DOMAIN output /\ (output'[o] = output[o] \/ output'[o] = 0)
    <3>1. CASE UNCHANGED output
      BY <3>1
    <3>2. CASE output' = <<>>
      BY <3>2, EmptyReading
    <3>3. CASE \E seen : Zero(seen)
      BY <3>3 DEF Zero
    <3>4. UNCHANGED output \/ output' = <<>> \/ \E seen : Zero(seen)
      <4>1. ASSUME NEW r \in Requests, clear_unbook(r) \/ clear_drop(r) \/ ZeroOld(r)
            PROVE  output' = <<>> \/ \E seen : Zero(seen)
        BY <4>1 DEF clear_unbook, clear_drop, ZeroOld
      <4> QED
        BY ONLY <1>1, <4>1, QuietSpares
    <3> QED
      BY <3>1, <3>2, <3>3, <3>4
  <2> QED
    BY ONLY <2>1, <2>2, ExportsOnce DEF ExportsOnce, Exporting
<1>2. ASSUME NEW r \in Requests, CreateOutput(r) \/ CallImport(r) PROVE ExportsOnce'
  <2>1. made' = made + 1 /\ made' \in Nat /\ UNCHANGED worker
    BY <1>2, MakeTyped DEF CreateOutput, CallImport, Ids
  <2>2. \A m \in queue' : m.kind = "export" => m \in queue \/ (m.id = made' /\ m.copy = 1)
    BY <1>2 DEF CreateOutput, CallImport, Message
  <2>3. \A o \in DOMAIN output' :
          IF o = made' THEN (CreateOutput(r) => output'[o] = 0)
                       ELSE o \in DOMAIN output /\ output'[o] = output[o]
    BY <1>2 DEF CreateOutput, CallImport
  <2>4. \A m \in queue' : m.kind = "export" /\ m.id = made' => CreateOutput(r)
    <3>1. CASE CallImport(r)
      BY <3>1, <2>1, <1>0 DEF CallImport, Message
    <3> QED
      BY <1>2, <3>1
  <2>5. \A m \in queue : m.id /= made'
    BY <2>1, <1>0
  <2>6. \A w \in Workers : Exporting(w) => worker[w].id /= made'
    BY <2>1, <1>0 DEF Exporting
  <2> QED
    BY ONLY <2>1, <2>2, <2>3, <2>4, <2>5, <2>6, ExportsOnce DEF ExportsOnce, Exporting
<1>3. ASSUME NEW w \in Workers, Work(w) PROVE ExportsOnce'
  <2>0. \A j : Assign(w, j) => worker'[w] = j /\ \A v \in Workers : v /= w => worker'[v] = worker[v]
    BY DEF Assign, JobsTypeOK
  <2>1. CASE BeginExport(w)
    <3>1. PICK m \in queue :
            /\ m.kind = "export" /\ Received(w, m) /\ UNCHANGED output
            /\ IF m.id \in DOMAIN output THEN Assign(w, Task(m, "record", output[m.id]))
                                         ELSE UNCHANGED worker
      BY <2>1 DEF BeginExport
    <3>2. \A n \in queue' : n \in queue /\ (n.kind = "export" => n.id /= m.id)
      BY <3>1 DEF Received, ExportsOnce, JobsTypeOK
    <3>4. \A v \in Workers : worker'[v] /= NoJob =>
            \/ worker'[v] = worker[v]
            \/ worker'[v].id = m.id /\ worker'[v].bytes = 0
      BY <3>1, <2>0 DEF Task, ExportsOnce
    <3> QED
      BY ONLY <3>1, <3>2, <3>4, ExportsOnce DEF ExportsOnce, Exporting
  <2>2. CASE RecordOutput(w)
    <3>1. Exporting(w) /\ UNCHANGED queue /\ worker[w].bytes = 0 /\ worker[w] \in TaskRecords
      BY <2>2, WorksTyped DEF RecordOutput, Works, Exporting, ExportsOnce
    <3>2. \A o \in DOMAIN output' :
            o \in DOMAIN output /\ (o /= worker[w].id => output'[o] = output[o])
      BY <2>2 DEF RecordOutput
    <3>3. \A size \in ArchiveSizes : size \in Nat /\ size - worker[w].bytes = size
      <4>1. PICK b \in Nat : b = worker[w].bytes /\ b = 0
        BY <3>1
      <4>2. \A size \in ArchiveSizes : size \in Nat
        BY JobsAssumption
      <4>3. \A size \in Nat : size - b = size
        BY <4>1
      <4> QED
        BY <4>1, <4>2, <4>3
    <3>4. worker'[w] = NoJob \/ \E size \in Nat :
            worker'[w] = Charge(worker[w], size)
      BY <2>0, <2>2, <3>3 DEF RecordOutput
    <3>5. worker'[w] = NoJob \/ (/\ worker'[w].pc = "charge" /\ worker'[w].bytes \in Nat
                                 /\ worker'[w].id = worker[w].id)
      <4>1. \A size \in Nat : Charge(worker[w], size).pc = "charge"
        BY <3>1 DEF TaskRecords, Charge
      <4>2. \A size \in Nat : Charge(worker[w], size).bytes = size
        BY <3>1 DEF TaskRecords, Charge
      <4>3. \A size \in Nat : Charge(worker[w], size).id = worker[w].id
        BY <3>1 DEF TaskRecords, Charge
      <4> QED
        BY ONLY <3>4, <4>1, <4>2, <4>3
    <3>6. \A v \in Workers : v /= w => worker'[v] = worker[v]
      BY <2>0, <2>2 DEF RecordOutput
    <3> QED
      BY ONLY <3>1, <3>2, <3>5, <3>6, ExportsOnce DEF ExportsOnce, Exporting
  <2>3. CASE ~ BeginExport(w) /\ ~ RecordOutput(w)
    <3>1. queue' \subseteq queue /\ UNCHANGED output
      BY <1>3, <2>3 DEF Work, ChargeOutput, TakeImport, claim, Prepare, ImportPage, CountPage,
                        NewFile, EndImport, Received
    <3>2. \A v \in Workers : worker'[v] /= NoJob /\ worker'[v].kind = "export" => worker'[v] = worker[v]
      <4>1. ASSUME NEW j, Assign(w, j), j = NoJob \/ j.kind = "import"
            PROVE  \A v \in Workers :
                     worker'[v] /= NoJob /\ worker'[v].kind = "export" => worker'[v] = worker[v]
        BY <4>1, <2>0
      <4>2. ASSUME NEW s, Works(w, "import", s), NEW p
            PROVE  [worker[w] EXCEPT !.pc = p].kind = "import"
        BY <4>2, WorksTyped DEF TaskRecords, Works
      <4>3. CASE TakeImport(w)
        BY <4>1, <4>3 DEF TakeImport, Task
      <4>4. CASE claim(w) \/ Prepare(w)
        BY <4>1, <4>2, <4>4 DEF claim, Prepare
      <4>5. CASE ImportPage(w) \/ CountPage(w)
        BY <4>1, <4>2, <4>5 DEF ImportPage, CountPage
      <4>6. CASE ChargeOutput(w) \/ EndImport(w)
        BY <4>1, <4>6 DEF ChargeOutput, EndImport
      <4> QED
        BY <1>3, <2>3, <4>3, <4>4, <4>5, <4>6 DEF Work
    <3>3. \A v \in Workers : worker'[v] /= NoJob =>
            worker'[v] = worker[v] \/ (worker'[v].bytes \in Nat /\ worker'[v].pc /= "record")
      <4>1. ASSUME NEW j, Assign(w, j), j = NoJob \/ (j.bytes \in Nat /\ j.pc /= "record")
            PROVE  \A v \in Workers : worker'[v] /= NoJob =>
                     worker'[v] = worker[v] \/ (worker'[v].bytes \in Nat /\ worker'[v].pc /= "record")
        BY <4>1, <2>0
      <4>2. ASSUME NEW s, Works(w, "import", s), NEW p, p /= "record"
            PROVE  /\ [worker[w] EXCEPT !.pc = p].bytes \in Nat
                   /\ [worker[w] EXCEPT !.pc = p].pc /= "record"
        BY <4>2, WorksTyped DEF TaskRecords, Works, ExportsOnce
      <4>3. CASE TakeImport(w)
        BY <4>1, <4>3 DEF TakeImport, Task
      <4>4. CASE claim(w) \/ Prepare(w)
        BY <4>1, <4>2, <4>4 DEF claim, Prepare
      <4>5. CASE ImportPage(w) \/ CountPage(w)
        BY <4>1, <4>2, <4>5 DEF ImportPage, CountPage
      <4>6. CASE ChargeOutput(w) \/ EndImport(w)
        BY <4>1, <4>6 DEF ChargeOutput, EndImport
      <4> QED
        BY <1>3, <2>3, <4>3, <4>4, <4>5, <4>6 DEF Work
    <3> QED
      BY ONLY <3>1, <3>2, <3>3, ExportsOnce DEF ExportsOnce, Exporting
  <2> QED
    BY <2>1, <2>2, <2>3
<1> QED
  BY ONLY <1>1, <1>2, <1>3, [JobsNext]_jobsVars, JobsCases

\* The steps of a clear, from the flag to the commit.
Clears(r) ==
  \/ LockClear(r) \/ clear_files(r) \/ clear_outputs(r) \/ clear_unbook(r)
  \/ clear_drop(r) \/ clear_zero(r) \/ commit_clear(r)

LEMMA RacesGrow == [JobsNext]_jobsVars => races \subseteq races'
<1>1. ASSUME NEW r \in Requests, Calls(r) PROVE UNCHANGED races
  BY <1>1 DEF Calls, CallComplete, CallReopen, CallClear, CallUpload, CallExport, CallImport
<1>2. ASSUME NEW r \in Requests, Lifecycle(r) PROVE races \subseteq races'
  BY <1>2 DEF Lifecycle, complete, reopen, Moves, LockClear, clear_files, clear_outputs,
              clear_unbook, Zero, clear_drop, clear_zero, commit_clear
<1>3. ASSUME NEW r \in Requests, Serve(r), ~ Lifecycle(r) PROVE races \subseteq races'
  BY <1>3 DEF Serve, save_upload, NewFile, count_upload, Counted, DeleteOld, ZeroOld, Zero,
              CreateOutput
<1>4. ASSUME NEW w \in Workers, Work(w) PROVE races \subseteq races'
  BY <1>4 DEF Work, BeginExport, RecordOutput, ChargeOutput, TakeImport, claim, Prepare,
              ImportPage, NewFile, CountPage, Counted, EndImport
<1>5. transfer_owner \/ Killed \/ UNCHANGED jobsVars => races \subseteq races'
  BY DEF transfer_owner, Killed, jobsVars
<1> QED
  BY <1>1, <1>2, <1>3, <1>4, <1>5 DEF JobsNext

\* What jobs owe, one by one and together.
LEMMA OwedFacts ==
  ASSUME JobsTypeOK, ExportsOnce
  PROVE  /\ Owed(NoJob) = 0
         /\ \A r \in Requests : Owed(request[r]) \in Nat
         /\ \A w \in Workers : Owed(worker[w]) \in Nat
<1>1. Owed(NoJob) = 0
  BY DEF Owed, NoJob
<1>2. ASSUME NEW r \in Requests PROVE Owed(request[r]) \in Nat
  <2>1. CASE request[r] = NoJob
    BY <1>1, <2>1
  <2>2. CASE request[r] /= NoJob
    <3>1. request[r].pc /= "charge" /\ Total(request[r].outputs) \in Nat
      BY <2>2, AtTyped, TotalFacts DEF JobRecords
    <3> QED
      BY <2>2, <3>1 DEF Owed
  <2> QED
    BY <2>1, <2>2
<1>3. ASSUME NEW w \in Workers PROVE Owed(worker[w]) \in Nat
  <2>1. CASE worker[w] = NoJob
    BY <1>1, <2>1
  <2>2. CASE worker[w] /= NoJob
    <3>1. worker[w].pc /= "unbook"
      BY <2>2, WorksTyped DEF TaskRecords
    <3>2. worker[w].bytes \in Nat
      BY <2>2 DEF ExportsOnce
    <3> QED
      BY <2>2, <3>1, <3>2 DEF Owed
  <2> QED
    BY <2>1, <2>2
<1> QED
  BY <1>1, <1>2, <1>3

\* All that is owed, when one job becomes another.
Owes(jobs) == [x \in DOMAIN jobs |-> Owed(jobs[x])]

LEMMA OwingMoves ==
  ASSUME NEW jobs, NEW S, S = DOMAIN jobs, IsFiniteSet(S),
         \A x \in S : Owed(jobs[x]) \in Nat, NEW a \in S, NEW j, Owed(j) \in Nat,
         NEW changed, DOMAIN changed = S,
         \A x \in S : changed[x] = IF x = a THEN j ELSE jobs[x]
  PROVE  /\ Owing(jobs) \in Int
         /\ Owing(changed) = Owing(jobs) - Owed(jobs[a]) + Owed(j)
<1> DEFINE v == Owes(jobs)
           u == Owes(changed)
           d == Owed(j) - Owed(jobs[a])
<1>1. DOMAIN v = S /\ DOMAIN u = S /\ \A x \in S : v[x] = Owed(jobs[x])
  BY DEF Owes
<1>2. \A x \in S : u[x] = IF x = a THEN Owed(j) ELSE v[x]
  BY DEF Owes
<1>3. Owing(jobs) = SumOver(v, S) /\ Owing(changed) = SumOver(u, S)
  BY <1>1, TotalIs DEF Owing, Owes
<1> HIDE DEF v, u
<1>4. PICK old \in Nat, new \in Nat, e \in Int : old = Owed(jobs[a]) /\ new = Owed(j) /\ e = new - old
  OBVIOUS
<1>5. \A x \in S : v[x] \in Int /\ u[x] = IF x = a THEN v[x] + e ELSE v[x]
  <2>1. \A x \in S : v[x] \in Nat
    BY <1>1
  <2>2. v[a] = old /\ u[a] = new
    BY <1>1, <1>2, <1>4
  <2>3. \A x \in S : x /= a => u[x] = v[x]
    BY <1>2
  <2>4. u[a] = v[a] + e
    BY ONLY <1>4, <2>2
  <2> QED
    BY ONLY <2>1, <2>3, <2>4
<1>6. SumOver(u, S) = SumOver(v, S) + (IF a \in S THEN e ELSE 0)
  BY ONLY <1>5, IsFiniteSet(S), e \in Int, SumMoves
<1>7. SumOver(v, S) \in Int
  BY ONLY <1>5, IsFiniteSet(S), SumAdds
<1> QED
  BY <1>3, <1>4, <1>6, <1>7

\* Nobody owes less than nothing.
LEMMA OwingIsNat ==
  ASSUME NEW S, IsFiniteSet(S), NEW jobs, DOMAIN jobs = S,
         \A x \in S : Owed(jobs[x]) \in Nat
  PROVE  Owing(jobs) \in Nat
<1> DEFINE v == Owes(jobs)
           z == [x \in S |-> 0]
<1>1. DOMAIN v = S /\ \A x \in S : v[x] \in Nat
  BY DEF Owes
<1>2. Owing(jobs) = SumOver(v, S)
  BY <1>1, TotalIs DEF Owing, Owes
<1>3. \A x \in S : z[x] \in Int /\ v[x] \in Int /\ z[x] + z[x] <= v[x] /\ z[x] = 0
  BY <1>1
<1> HIDE DEF v, z
<1>4. SumOver(z, S) = 0
  BY ONLY <1>3, IsFiniteSet(S), SumZero
<1>5. SumOver(z, S) + SumOver(z, S) <= SumOver(v, S)
  BY ONLY <1>3, IsFiniteSet(S), SumsWithin
<1>6. SumOver(v, S) \in Int
  BY ONLY <1>3, IsFiniteSet(S), SumAdds
<1> QED
  BY <1>2, <1>4, <1>5, <1>6

\* When one request, or one worker, changes its job.
LEMMA InBetweenMoves ==
  ASSUME JobsTypeOK, ExportsOnce, NEW j, Owed(j) \in Nat
  PROVE  /\ InBetween \in Nat
         /\ \A r \in Requests : Step(r, j) /\ UNCHANGED worker =>
              InBetween' = InBetween - Owed(request[r]) + Owed(j)
         /\ \A w \in Workers : Assign(w, j) /\ UNCHANGED request =>
              InBetween' = InBetween - Owed(worker[w]) + Owed(j)
<1>1. /\ IsFiniteSet(Requests) /\ IsFiniteSet(Workers)
      /\ DOMAIN request = Requests /\ DOMAIN worker = Workers
  BY JobsAssumption DEF JobsTypeOK
<1>2. /\ \A x \in Requests : Owed(request[x]) \in Nat
      /\ \A x \in Workers : Owed(worker[x]) \in Nat
  BY OwedFacts
<1>3. Owing(request) \in Nat /\ Owing(worker) \in Nat
  BY <1>1, <1>2, OwingIsNat
<1>4. ASSUME NEW r \in Requests, Step(r, j), UNCHANGED worker
      PROVE  InBetween' = InBetween - Owed(request[r]) + Owed(j)
  <2>1. Owing([request EXCEPT ![r] = j]) = Owing(request) - Owed(request[r]) + Owed(j)
    <3>1. PICK jobs : jobs = request
      OBVIOUS
    <3>2. /\ IsFiniteSet(Requests) /\ DOMAIN jobs = Requests /\ r \in Requests /\ Owed(j) \in Nat
          /\ \A x \in Requests : Owed(jobs[x]) \in Nat
      BY <1>1, <1>2, <3>1
    <3>3. PICK changed : changed = [jobs EXCEPT ![r] = j]
      OBVIOUS
    <3>4. /\ DOMAIN changed = Requests
          /\ \A x \in Requests : changed[x] = IF x = r THEN j ELSE jobs[x]
      BY <3>2, <3>3
    <3>5. Owing(changed) = Owing(jobs) - Owed(jobs[r]) + Owed(j)
      BY ONLY <3>2, <3>4, OwingMoves
    <3> QED
      BY <3>1, <3>3, <3>5
  <2>2. Owing(request') = Owing([request EXCEPT ![r] = j]) /\ Owing(worker') = Owing(worker)
    BY <1>4 DEF Step
  <2>3. InBetween' = Owing(request') + Owing(worker')
    BY DEF InBetween, Owing, Owed
  <2>4. InBetween = Owing(request) + Owing(worker)
    BY DEF InBetween
  <2>5. Owed(request[r]) \in Nat
    BY <1>2
  <2> QED
    BY ONLY <2>1, <2>2, <2>3, <2>4, <2>5, <1>3, Owed(j) \in Nat
<1>5. ASSUME NEW w \in Workers, Assign(w, j), UNCHANGED request
      PROVE  InBetween' = InBetween - Owed(worker[w]) + Owed(j)
  <2>1. Owing([worker EXCEPT ![w] = j]) = Owing(worker) - Owed(worker[w]) + Owed(j)
    <3>1. PICK jobs : jobs = worker
      OBVIOUS
    <3>2. /\ IsFiniteSet(Workers) /\ DOMAIN jobs = Workers /\ w \in Workers /\ Owed(j) \in Nat
          /\ \A x \in Workers : Owed(jobs[x]) \in Nat
      BY <1>1, <1>2, <3>1
    <3>3. PICK changed : changed = [jobs EXCEPT ![w] = j]
      OBVIOUS
    <3>4. /\ DOMAIN changed = Workers
          /\ \A x \in Workers : changed[x] = IF x = w THEN j ELSE jobs[x]
      BY <3>2, <3>3
    <3>5. Owing(changed) = Owing(jobs) - Owed(jobs[w]) + Owed(j)
      BY ONLY <3>2, <3>4, OwingMoves
    <3> QED
      BY <3>1, <3>3, <3>5
  <2>2. Owing(worker') = Owing([worker EXCEPT ![w] = j]) /\ Owing(request') = Owing(request)
    BY <1>5 DEF Assign
  <2>3. InBetween' = Owing(request') + Owing(worker')
    BY DEF InBetween, Owing, Owed
  <2>4. InBetween = Owing(request) + Owing(worker)
    BY DEF InBetween
  <2>5. Owed(worker[w]) \in Nat
    BY <1>2
  <2> QED
    BY ONLY <2>1, <2>2, <2>3, <2>4, <2>5, <1>3, Owed(j) \in Nat
<1> QED
  BY <1>3, <1>4, <1>5 DEF InBetween

\* Nothing is lost by booking less of something, or by dropping it.
LEMMA BooksFall ==
  ASSUME NEW a \in Readings, NEW b \in Readings,
         \A o \in DOMAIN a : a[o] = 0 \/ (o \in DOMAIN b /\ a[o] <= b[o])
  PROVE  Total(a) <= Total(b)
<1>1. PICK none \in Readings : none = <<>> /\ DOMAIN none = {}
  BY EmptyReading
<1>2. Total(none) = 0
  BY <1>1, TotalOfNone
<1>3. \A o \in Ids : Padded(a)[o] + Padded(none)[o] <= Padded(b)[o]
  BY <1>1, PaddedFacts
<1>4. Total(a) + Total(none) <= Total(b)
  BY ONLY <1>1, <1>3, a \in Readings, b \in Readings, TotalsWithin
<1> QED
  BY <1>2, <1>4, TotalFacts

\* Zeroing what was read frees as much, unless another cleaner was there.
LEMMA ZeroFrees ==
  ASSUME JobsTypeOK, JobsTypeOK', NEW seen \in Readings, Zero(seen), "twice" \notin races'
  PROVE  Total(seen) + Total(output') <= Total(output)
<1>1. output \in Readings /\ output' \in Readings
  BY DEF JobsTypeOK
<1>2. \A o \in DOMAIN seen : seen[o] = 0 \/ (o \in DOMAIN output /\ output[o] = seen[o])
  BY DEF Zero, Touched
<1>3. /\ DOMAIN output' = DOMAIN output
      /\ \A o \in DOMAIN output :
           output'[o] = IF o \in DOMAIN seen /\ seen[o] /= 0 THEN 0 ELSE output[o]
  BY DEF Zero, Touched
<1>4. \A o \in Ids : Padded(seen)[o] + Padded(output')[o] <= Padded(output)[o]
  <2> SUFFICES ASSUME NEW o \in Ids
               PROVE  Padded(seen)[o] + Padded(output')[o] <= Padded(output)[o]
    OBVIOUS
  <2>1. /\ Padded(seen)[o] = (IF o \in DOMAIN seen THEN seen[o] ELSE 0)
        /\ Padded(output')[o] = (IF o \in DOMAIN output' THEN output'[o] ELSE 0)
        /\ Padded(output)[o] = (IF o \in DOMAIN output THEN output[o] ELSE 0)
        /\ Padded(seen)[o] \in Nat /\ Padded(output')[o] \in Nat /\ Padded(output)[o] \in Nat
    BY <1>1, PaddedFacts
  <2> QED
    BY ONLY <2>1, <1>2, <1>3
<1> QED
  BY ONLY <1>1, <1>4, seen \in Readings, TotalsWithin

\* Recording an export books its size at most.
LEMMA RecordAdds ==
  ASSUME JobsTypeOK, JobsTypeOK', NEW o, NEW size \in Nat,
         output' = [x \in DOMAIN output |-> IF x = o THEN size ELSE output[x]]
  PROVE  Total(output') <= Total(output) + size
<1> DEFINE B == output
           C == output'
<1>1. B \in Readings /\ C \in Readings /\ Total(B) \in Nat /\ Total(C) \in Nat
  BY TotalFacts DEF JobsTypeOK
<1>2. DOMAIN C = DOMAIN B /\ \A x \in DOMAIN B : C[x] = IF x = o THEN size ELSE B[x]
  OBVIOUS
<1>3. \A x \in DOMAIN B : B[x] \in Nat
  BY <1>1, ReadingFacts
<1> HIDE DEF B, C
<1>4. CASE o \notin DOMAIN B
  <2>1. \A x \in DOMAIN C : C[x] = 0 \/ (x \in DOMAIN B /\ C[x] <= B[x])
    BY <1>2, <1>3, <1>4
  <2>2. Total(C) <= Total(B)
    BY <1>1, <2>1, BooksFall
  <2>3. Total(C) <= Total(B) + size
    BY ONLY <2>2, <1>1, size \in Nat
  <2> QED
    BY <2>3 DEF B, C
<1>5. CASE o \in DOMAIN B
  <2>1. PICK e \in Int : e = size - B[o] /\ e <= size
    BY <1>3, <1>5
  <2>2. PICK v, u, n : v = Padded(B) /\ u = Padded(C) /\ n = o
    OBVIOUS
  <2>3. \A x \in Ids : v[x] \in Int /\ u[x] = IF x = n THEN v[x] + e ELSE v[x]
    <3> SUFFICES ASSUME NEW x \in Ids
                 PROVE  v[x] \in Int /\ u[x] = IF x = n THEN v[x] + e ELSE v[x]
      OBVIOUS
    <3>1. /\ u[x] = (IF x \in DOMAIN C THEN C[x] ELSE 0)
          /\ v[x] = (IF x \in DOMAIN B THEN B[x] ELSE 0)
          /\ v[x] \in Nat
      BY <1>1, <2>2, PaddedFacts
    <3>2. B[o] \in Nat /\ n = o /\ e = size - B[o]
      BY <1>3, <1>5, <2>1, <2>2
    <3> QED
      BY ONLY <3>1, <3>2, <1>2, <1>5, size \in Nat
  <2>4. SumOver(u, Ids) = SumOver(v, Ids) + (IF n \in Ids THEN e ELSE 0)
    BY ONLY e \in Int, <2>3, IdsFinite, SumMoves
  <2>5. Total(C) = SumOver(u, Ids) /\ Total(B) = SumOver(v, Ids)
    BY <1>1, <2>2, TotalPadded
  <2>6. Total(C) <= Total(B) + size
    BY ONLY <2>1, <2>4, <2>5, <1>1, size \in Nat
  <2> QED
    BY <2>6 DEF B, C
<1> QED
  BY <1>4, <1>5

\* A job at none of the two phases owes nothing.
LEMMA OwesNothing == \A j : j = NoJob \/ j.pc \notin {"charge", "unbook"} => Owed(j) = 0
BY DEF Owed, NoJob

LEMMA JobFields ==
  ASSUME JobsTypeOK, NEW r \in Requests, request[r] /= NoJob
  PROVE  /\ \A p : /\ [request[r] EXCEPT !.pc = p].pc = p
                   /\ [request[r] EXCEPT !.pc = p].kind = request[r].kind
                   /\ [request[r] EXCEPT !.pc = p].files = request[r].files
                   /\ [request[r] EXCEPT !.pc = p].outputs = request[r].outputs
         /\ \A p, o : /\ [request[r] EXCEPT !.pc = p, !.outputs = o].pc = p
                      /\ [request[r] EXCEPT !.pc = p, !.outputs = o].kind = request[r].kind
         /\ \A p, f : /\ [request[r] EXCEPT !.pc = p, !.files = f].pc = p
                      /\ [request[r] EXCEPT !.pc = p, !.files = f].files = f
         /\ \A p, f, o : [request[r] EXCEPT !.pc = p, !.files = f, !.outputs = o].pc = p
<1>1. request[r] \in JobRecords
  BY AtTyped
<1>2. \A p : /\ [request[r] EXCEPT !.pc = p].pc = p
             /\ [request[r] EXCEPT !.pc = p].kind = request[r].kind
             /\ [request[r] EXCEPT !.pc = p].files = request[r].files
             /\ [request[r] EXCEPT !.pc = p].outputs = request[r].outputs
  BY <1>1 DEF JobRecords
<1>3. \A p, o : /\ [request[r] EXCEPT !.pc = p, !.outputs = o].pc = p
                /\ [request[r] EXCEPT !.pc = p, !.outputs = o].kind = request[r].kind
  BY <1>1 DEF JobRecords
<1>4. \A p, f : /\ [request[r] EXCEPT !.pc = p, !.files = f].pc = p
                /\ [request[r] EXCEPT !.pc = p, !.files = f].files = f
  BY <1>1 DEF JobRecords
<1>5. \A p, f, o : [request[r] EXCEPT !.pc = p, !.files = f, !.outputs = o].pc = p
  BY <1>1 DEF JobRecords
<1> QED
  BY ONLY <1>2, <1>3, <1>4, <1>5

LEMMA WorkerFields ==
  ASSUME JobsTypeOK, NEW w \in Workers, worker[w] /= NoJob
  PROVE  /\ \A p : /\ [worker[w] EXCEPT !.pc = p].pc = p
                   /\ [worker[w] EXCEPT !.pc = p].id = worker[w].id
                   /\ [worker[w] EXCEPT !.pc = p].kind = worker[w].kind
         /\ \A b : Charge(worker[w], b).pc = "charge" /\ Charge(worker[w], b).bytes = b
<1>1. worker[w] \in TaskRecords
  BY WorksTyped
<1>2. \A p : /\ [worker[w] EXCEPT !.pc = p].pc = p
             /\ [worker[w] EXCEPT !.pc = p].id = worker[w].id
             /\ [worker[w] EXCEPT !.pc = p].kind = worker[w].kind
  BY <1>1 DEF TaskRecords
<1>3. \A b : Charge(worker[w], b).pc = "charge" /\ Charge(worker[w], b).bytes = b
  BY <1>1 DEF TaskRecords, Charge
<1> QED
  BY ONLY <1>2, <1>3

\* The steps that touch no books at all.
LEMMA BooksQuiet ==
  ASSUME JobsTypeOK, NEW r \in Requests,
         \/ Calls(r) \/ complete(r) \/ reopen(r) \/ LockClear(r) \/ clear_files(r)
         \/ commit_clear(r) \/ save_upload(r) \/ count_upload(r)
         \/ clear_outputs(r) /\ Raised(r)
         \/ DeleteOld(r) /\ Step(r, [request[r] EXCEPT !.pc = "create"]) /\ UNCHANGED project
  PROVE  /\ UNCHANGED <<output, worker>> /\ project'.output = project.output
         /\ \/ UNCHANGED request
            \/ /\ Owed(request[r]) = 0
               /\ \E j : Step(r, j) /\ Owed(j) = 0
<1>0. project \in ProjectDocs
  BY DEF JobsTypeOK
<1>1. CASE Calls(r)
  <2>1. UNCHANGED <<project, output, worker>>
    BY <1>1 DEF Calls, CallComplete, CallReopen, CallClear, CallUpload, CallExport, CallImport
  <2>2. \/ UNCHANGED request
        \/ Take(r, Versioned("complete", "write")) \/ Take(r, Versioned("reopen", "write"))
        \/ Take(r, Versioned("clear", "lock")) \/ Take(r, NewJob("upload", "save"))
        \/ \E seen : Take(r, [NewJob("export", "delete") EXCEPT !.outputs = seen])
    BY <1>1 DEF Calls, CallComplete, CallReopen, CallClear, CallUpload, CallExport, CallImport
  <2>3. /\ Owed(Versioned("complete", "write")) = 0 /\ Owed(Versioned("reopen", "write")) = 0
        /\ Owed(Versioned("clear", "lock")) = 0 /\ Owed(NewJob("upload", "save")) = 0
        /\ \A seen : Owed([NewJob("export", "delete") EXCEPT !.outputs = seen]) = 0
    BY OwesNothing DEF Versioned, NewJob
  <2>4. ASSUME NEW j, Take(r, j) PROVE Step(r, j) /\ Owed(request[r]) = 0
    BY <2>4, OwesNothing DEF Take, Step
  <2> QED
    BY ONLY <2>1, <2>2, <2>3, <2>4
<1>2. CASE complete(r) \/ reopen(r)
  <2>1. Owed(request[r]) = 0 /\ Step(r, NoJob) /\ UNCHANGED <<output, worker>>
    BY <1>2, OwesNothing DEF complete, reopen, Moves, At
  <2>2. project'.output = project.output
    BY <1>2, <1>0 DEF complete, reopen, Moves, ProjectDocs
  <2> QED
    BY <2>1, <2>2, OwesNothing
<1>3. CASE LockClear(r)
  <2>1. /\ Owed(request[r]) = 0 /\ UNCHANGED <<output, worker>> /\ request[r] /= NoJob
        /\ Step(r, NoJob) \/ Step(r, [request[r] EXCEPT !.pc = "files", !.files = files])
    BY <1>3, OwesNothing DEF LockClear, At
  <2>2. project'.output = project.output
    BY <1>3, <1>0 DEF LockClear, ProjectDocs
  <2>3. Owed([request[r] EXCEPT !.pc = "files", !.files = files]) = 0
    <3>1. PICK h : h = [request[r] EXCEPT !.pc = "files", !.files = files]
      OBVIOUS
    <3>2. h.pc = "files"
      BY <2>1, <3>1, JobFields
    <3> QED
      BY <3>1, <3>2, OwesNothing
  <2> QED
    BY <2>1, <2>2, <2>3, OwesNothing
<1>4. ASSUME Raised(r) PROVE Step(r, NoJob) /\ project'.output = project.output
  BY <1>4, <1>0 DEF Raised, ProjectDocs
<1>5. CASE clear_files(r)
  <2>1. /\ Owed(request[r]) = 0 /\ UNCHANGED <<output, worker>> /\ request[r] /= NoJob
        /\ \/ Raised(r)
           \/ /\ UNCHANGED project
              /\ Step(r, [request[r] EXCEPT !.pc = "outputs", !.files = {},
                                            !.outputs = Read(DOMAIN output)])
    BY <1>5, OwesNothing DEF clear_files, At
  <2>3. Owed([request[r] EXCEPT !.pc = "outputs", !.files = {}, !.outputs = Read(DOMAIN output)]) = 0
    <3>1. PICK h : h = [request[r] EXCEPT !.pc = "outputs", !.files = {}, !.outputs = Read(DOMAIN output)]
      OBVIOUS
    <3>2. h.pc = "outputs"
      BY <2>1, <3>1, JobFields
    <3> QED
      BY <3>1, <3>2, OwesNothing
  <2> QED
    BY ONLY <2>1, <2>3, <1>4, OwesNothing
<1>6. CASE commit_clear(r)
  <2>1. Owed(request[r]) = 0 /\ Step(r, NoJob) /\ UNCHANGED <<output, worker>>
    BY <1>6, OwesNothing DEF commit_clear, At
  <2>2. project'.output = project.output
    BY <1>6, <1>0 DEF commit_clear, ProjectDocs
  <2> QED
    BY <2>1, <2>2, OwesNothing
<1>7. CASE save_upload(r) \/ count_upload(r)
  <2>1. /\ Owed(request[r]) = 0 /\ UNCHANGED <<output, worker>> /\ request[r] /= NoJob
        /\ Step(r, NoJob) \/ Step(r, [request[r] EXCEPT !.pc = "count"])
    BY <1>7, OwesNothing DEF save_upload, count_upload, At
  <2>2. project'.output = project.output
    BY <1>7, <1>0 DEF save_upload, count_upload, Counted, ProjectDocs
  <2>3. Owed([request[r] EXCEPT !.pc = "count"]) = 0
    <3>1. PICK h : h = [request[r] EXCEPT !.pc = "count"]
      OBVIOUS
    <3>2. h.pc = "count"
      BY <2>1, <3>1, JobFields
    <3> QED
      BY <3>1, <3>2, OwesNothing
  <2> QED
    BY ONLY <2>1, <2>2, <2>3, OwesNothing
<1>8. CASE clear_outputs(r) /\ Raised(r)
  <2>1. Owed(request[r]) = 0 /\ UNCHANGED <<output, worker>> /\ Raised(r)
    BY <1>8, OwesNothing DEF clear_outputs, At
  <2> QED
    BY ONLY <2>1, <1>4, OwesNothing
<1>9. CASE DeleteOld(r) /\ Step(r, [request[r] EXCEPT !.pc = "create"]) /\ UNCHANGED project
  <2>1. /\ Owed(request[r]) = 0 /\ UNCHANGED <<project, output, worker>> /\ request[r] /= NoJob
        /\ Step(r, [request[r] EXCEPT !.pc = "create"])
    BY <1>9, OwesNothing DEF DeleteOld, At
  <2>3. Owed([request[r] EXCEPT !.pc = "create"]) = 0
    <3>1. PICK h : h = [request[r] EXCEPT !.pc = "create"]
      OBVIOUS
    <3>2. h.pc = "create"
      BY <2>1, <3>1, JobFields
    <3> QED
      BY <3>1, <3>2, OwesNothing
  <2> QED
    BY ONLY <2>1, <2>3
<1> QED
  BY <1>1, <1>2, <1>3, <1>5, <1>6, <1>7, <1>8, <1>9

LEMMA BooksNext ==
  ASSUME JobsTypeOK, ExportsOnce, NeverUndercounts, [JobsNext]_jobsVars, JobsTypeOK'
  PROVE  NeverUndercounts'
<1> DEFINE B == Total(output)
           C == Total(output')
           Good == project'.output + InBetween' >= C
<1>0. Booked = B /\ Booked' = C
  BY DEF Booked
<1> SUFFICES ASSUME races' \cap {"twice", "zeroed", "killed"} = {} PROVE Good
  BY <1>0 DEF NeverUndercounts
<1>1. /\ output \in Readings /\ output' \in Readings /\ B \in Nat /\ C \in Nat
      /\ project.output \in Int /\ project'.output \in Int /\ project \in ProjectDocs
      /\ InBetween \in Nat
  <2>1. InBetween \in Nat
    BY OwedFacts, InBetweenMoves
  <2> QED
    BY <2>1, TotalFacts, DocFields DEF JobsTypeOK
<1>2. project.output + InBetween >= B
  BY <1>0, RacesGrow DEF NeverUndercounts
<1> HIDE DEF B, C
\* What a step adds to the account and to the debts it adds to the exports.
<1>3. ASSUME NEW r \in Requests, NEW j, Step(r, j), UNCHANGED worker,
             NEW was \in Nat, NEW is \in Nat, was = Owed(request[r]), is = Owed(j),
             NEW a \in Int, NEW b \in Int,
             project'.output = project.output + a, C <= B + b, b <= a + is - was
      PROVE  Good
  <2>1. InBetween' = InBetween - was + is
    BY <1>3, InBetweenMoves
  <2> QED
    BY ONLY <2>1, <1>1, <1>2, <1>3 DEF Good
<1>4. ASSUME NEW w \in Workers, NEW j, Assign(w, j), UNCHANGED request,
             NEW was \in Nat, NEW is \in Nat, was = Owed(worker[w]), is = Owed(j),
             NEW a \in Int, NEW b \in Int,
             project'.output = project.output + a, C <= B + b, b <= a + is - was
      PROVE  Good
  <2>1. InBetween' = InBetween - was + is
    BY <1>4, InBetweenMoves
  <2> QED
    BY ONLY <2>1, <1>1, <1>2, <1>4 DEF Good
<1>5. ASSUME UNCHANGED <<request, worker>>, project'.output = project.output, C <= B PROVE Good
  <2>1. InBetween' = Owing(request') + Owing(worker') /\ InBetween = Owing(request) + Owing(worker)
    BY DEF InBetween, Owing, Owed
  <2>2. InBetween' = InBetween
    BY <1>5, <2>1
  <2> QED
    BY ONLY <2>2, <1>1, <1>2, <1>5 DEF Good
<1>6. UNCHANGED output => C = B
  BY DEF B, C
<1>7. ASSUME NEW r \in Requests, NEW j, Step(r, j), Owed(request[r]) = 0, Owed(j) = 0,
             UNCHANGED worker, project'.output = project.output, C <= B
      PROVE  Good
  <2>1. project'.output = project.output + 0 /\ C <= B + 0 /\ 0 <= 0 + 0 - 0
    BY <1>1, <1>7
  <2> QED
    BY ONLY <1>3, <1>7, <2>1
<1>8. ASSUME NEW w \in Workers, NEW j, Assign(w, j), Owed(worker[w]) = 0, Owed(j) = 0,
             UNCHANGED request, project'.output = project.output, C <= B
      PROVE  Good
  <2>1. project'.output = project.output + 0 /\ C <= B + 0 /\ 0 <= 0 + 0 - 0
    BY <1>1, <1>8
  <2> QED
    BY ONLY <1>4, <1>8, <2>1
<1>9. C = B => C <= B
  BY <1>1
<1>10. ASSUME NEW n \in Int, Add(n) PROVE project'.output = project.output + n
  BY <1>1, <1>10, AddTyped DEF ProjectDocs
<1>11. ASSUME NEW r \in Requests,
              \/ Calls(r) \/ complete(r) \/ reopen(r) \/ LockClear(r) \/ clear_files(r)
              \/ commit_clear(r) \/ save_upload(r) \/ count_upload(r)
              \/ clear_outputs(r) /\ Raised(r)
              \/ DeleteOld(r) /\ Step(r, [request[r] EXCEPT !.pc = "create"]) /\ UNCHANGED project
       PROVE  Good
  <2>1. /\ UNCHANGED <<output, worker>> /\ project'.output = project.output
        /\ \/ UNCHANGED request
           \/ /\ Owed(request[r]) = 0
              /\ \E j : Step(r, j) /\ Owed(j) = 0
    BY ONLY <1>11, JobsTypeOK, BooksQuiet
  <2> QED
    BY ONLY <2>1, <1>5, <1>6, <1>7, <1>9
\* Taken off the account, and owed until it is off the exports.
<1>12. ASSUME NEW r \in Requests, clear_outputs(r) \/ DeleteOld(r), Subtract(request[r].outputs),
              Step(r, [request[r] EXCEPT !.pc = "unbook"])
       PROVE  Good
  <2> DEFINE seen == request[r].outputs
  <2>1. /\ request[r] /= NoJob /\ Owed(request[r]) = 0 /\ UNCHANGED <<output, worker>>
    BY <1>12, OwesNothing DEF clear_outputs, DeleteOld, At
  <2>2. seen \in Readings /\ Total(seen) \in Nat
    BY <2>1, JobTyped, TotalFacts
  <2>3. PICK j : j = [request[r] EXCEPT !.pc = "unbook"]
    OBVIOUS
  <2>4. j.pc = "unbook" /\ j.outputs = seen
    BY <2>1, <2>3, JobFields
  <2>5. Owed(j) = Total(seen)
    BY <2>4 DEF Owed
  <2>6. - Total(seen) \in Int /\ Add(- Total(seen))
    BY <1>12, <2>2 DEF Subtract
  <2>7. project'.output = project.output + (- Total(seen))
    BY <1>10, <2>6
  <2> HIDE DEF seen
  <2>8. PICK t \in Nat : t = Total(seen)
    BY <2>2
  <2>9. PICK e \in Int : e = - t
    BY <2>8
  <2>10. C <= B + 0 /\ 0 <= e + t - 0 /\ Step(r, j) /\ t = Owed(j) /\ project'.output = project.output + e
    BY <1>1, <1>6, <1>12, <2>1, <2>3, <2>5, <2>7, <2>8, <2>9
  <2>11. PICK z : z = 0 /\ z \in Nat /\ z \in Int
    OBVIOUS
  <2>12. z = Owed(request[r]) /\ C <= B + z /\ z <= e + t - z /\ UNCHANGED worker
    BY <2>1, <2>10, <2>11
  <2> QED
    BY ONLY <1>3, <2>8, <2>9, <2>10, <2>11, <2>12
<1>13. ASSUME NEW r \in Requests, clear_outputs(r) \/ DeleteOld(r) PROVE Good
  <2>1. CASE clear_outputs(r)
    BY <1>11, <1>12, <2>1 DEF clear_outputs
  <2>2. CASE DeleteOld(r)
    BY <1>11, <1>12, <2>2 DEF DeleteOld
  <2> QED
    BY <1>13, <2>1, <2>2
<1>14. ASSUME NEW r \in Requests, clear_unbook(r) \/ ZeroOld(r) PROVE Good
  <2> DEFINE seen == request[r].outputs
  <2>1. /\ request[r] /= NoJob /\ request[r].pc = "unbook" /\ Zero(seen)
        /\ UNCHANGED <<project, worker>>
        /\ \E p \in {"drop", "create"} : Step(r, [request[r] EXCEPT !.pc = p, !.outputs = <<>>])
    BY <1>14 DEF clear_unbook, ZeroOld, At
  <2>2. seen \in Readings /\ Total(seen) \in Nat
    BY <2>1, JobTyped, TotalFacts
  <2>3. Owed(request[r]) = Total(seen)
    BY <2>1 DEF Owed
  <2>4. "twice" \notin races'
    OBVIOUS
  <2>5. Total(seen) + Total(output') <= Total(output)
    BY ONLY <2>1, <2>2, <2>4, JobsTypeOK, JobsTypeOK', ZeroFrees
  <2>6. PICK p \in {"drop", "create"} : Step(r, [request[r] EXCEPT !.pc = p, !.outputs = <<>>])
    BY <2>1
  <2>7. PICK j : j = [request[r] EXCEPT !.pc = p, !.outputs = <<>>]
    OBVIOUS
  <2>8. j.pc = p
    BY <2>1, <2>7, JobFields
  <2>9. Owed(j) = 0
    BY <2>6, <2>8, OwesNothing
  <2> HIDE DEF seen
  <2>10. PICK t \in Nat : t = Total(seen)
    BY <2>2
  <2>11. C <= B + (- t) /\ - t <= 0 + 0 - t /\ - t \in Int
    BY <1>1, <2>5, <2>10 DEF B, C
  <2>12. project'.output = project.output + 0
    BY <1>1, <2>1
  <2> QED
    BY ONLY <1>3, <2>1, <2>3, <2>6, <2>7, <2>9, <2>10, <2>11, <2>12
<1>15. ASSUME NEW r \in Requests, clear_drop(r) PROVE Good
  <2>1. /\ request[r] /= NoJob /\ Owed(request[r]) = 0 /\ UNCHANGED <<project, worker>>
        /\ output' = <<>> /\ Step(r, [request[r] EXCEPT !.pc = "zero"])
    BY <1>15, OwesNothing DEF clear_drop, At
  <2>2. PICK j : j = [request[r] EXCEPT !.pc = "zero"]
    OBVIOUS
  <2>3. Owed(j) = 0
    <3>1. j.pc = "zero"
      BY <2>1, <2>2, JobFields
    <3> QED
      BY <3>1, OwesNothing
  <2>4. C = 0
    BY <1>1, <2>1, EmptyReading, TotalOfNone DEF C
  <2>5. C <= B /\ Step(r, j) /\ project'.output = project.output
    BY <1>1, <2>1, <2>2, <2>4
  <2> QED
    BY ONLY <1>7, <2>1, <2>3, <2>5
\* Nothing that an export holds was written over.
<1>16. ASSUME NEW r \in Requests, clear_zero(r) PROVE Good
  <2>1. /\ UNCHANGED output /\ project' = Emptied(project)
        /\ \A o \in DOMAIN output : output[o] = 0
    BY <1>16 DEF clear_zero
  <2>2. C = 0
    <3>1. \A o \in DOMAIN output' : output'[o] = 0
      BY <2>1
    <3>2. Total(output') <= Total(<<>>)
      BY <1>1, <3>1, EmptyReading, BooksFall
    <3>3. Total(<<>>) = 0
      BY EmptyReading, TotalOfNone
    <3> QED
      BY <1>1, <3>2, <3>3 DEF C
  <2>3. project'.output = 0
    BY <1>1, <2>1 DEF Emptied, ProjectDocs
  <2>4. request[r] /= NoJob /\ UNCHANGED worker /\ Step(r, [request[r] EXCEPT !.pc = "commit"])
    BY <1>16 DEF clear_zero, At
  <2>5. PICK j : j = [request[r] EXCEPT !.pc = "commit"]
    OBVIOUS
  <2>6. Owed(j) = 0
    <3>1. j.pc = "commit"
      BY <2>4, <2>5, JobFields
    <3> QED
      BY <3>1, OwesNothing
  <2>7. Owed(request[r]) = 0
    BY <1>16, OwesNothing DEF clear_zero, At
  <2>8. InBetween' = InBetween - 0 + 0
    BY <2>4, <2>5, <2>6, <2>7, InBetweenMoves
  <2> QED
    BY ONLY <1>1, <2>2, <2>3, <2>8 DEF Good
<1>17. ASSUME NEW r \in Requests, CreateOutput(r) PROVE Good
  <2>1. /\ Owed(request[r]) = 0 /\ UNCHANGED <<project, worker>> /\ Step(r, NoJob)
        /\ \A o \in DOMAIN output' :
             output'[o] = 0 \/ (o \in DOMAIN output /\ output'[o] = output[o])
    BY <1>17, OwesNothing DEF CreateOutput, At
  <2>2. \A o \in DOMAIN output : output[o] \in Nat
    BY <1>1, ReadingFacts
  <2>3. \A o \in DOMAIN output' : output'[o] = 0 \/ (o \in DOMAIN output /\ output'[o] <= output[o])
    BY ONLY <2>1, <2>2
  <2>4. C <= B
    BY <1>1, <2>3, BooksFall DEF B, C
  <2> QED
    BY <1>7, <2>1, <2>4, OwesNothing
<1>18. ASSUME NEW w \in Workers, RecordOutput(w) PROVE Good
  <2>1. /\ worker[w] /= NoJob /\ worker[w].bytes = 0 /\ Owed(worker[w]) = 0
        /\ UNCHANGED <<project, request>>
    BY <1>18, OwesNothing DEF RecordOutput, Works, ExportsOnce
  <2>2. CASE Assign(w, NoJob) /\ UNCHANGED output
    BY <1>6, <1>8, <1>9, <2>1, <2>2, OwesNothing
  <2>3. ASSUME NEW size \in ArchiveSizes, Assign(w, Charge(worker[w], size - worker[w].bytes)),
               output' = [x \in DOMAIN output |-> IF x = worker[w].id THEN size ELSE output[x]]
        PROVE  Good
    <3>1. size \in Nat /\ size - worker[w].bytes = size
      <4>1. PICK b \in Nat : b = worker[w].bytes /\ b = 0
        BY <2>1
      <4>2. size \in Nat
        BY JobsAssumption
      <4>3. size - b = size
        BY <4>1, <4>2
      <4> QED
        BY <4>1, <4>2, <4>3
    <3>2. PICK j : j = Charge(worker[w], size)
      OBVIOUS
    <3>3. j.pc = "charge" /\ j.bytes = size
      BY <2>1, <3>2, WorkerFields
    <3>4. Owed(j) = size
      BY <3>3 DEF Owed
    <3>5. Total(output') <= Total(output) + size
      BY <2>3, <3>1, RecordAdds
    <3>6. Assign(w, j) /\ C <= B + size
      BY <2>3, <3>1, <3>2, <3>5 DEF B, C
    <3>7. project'.output = project.output + 0 /\ size <= 0 + size - 0
      BY <1>1, <2>1, <3>1
    <3> QED
      BY ONLY <1>4, <2>1, <3>1, <3>4, <3>6, <3>7
  <2> QED
    BY <1>18, <2>2, <2>3 DEF RecordOutput
<1>19. ASSUME NEW w \in Workers, ChargeOutput(w) PROVE Good
  <2>1. /\ worker[w] /= NoJob /\ worker[w].bytes \in Nat /\ Owed(worker[w]) = worker[w].bytes
        /\ Add(worker[w].bytes) /\ UNCHANGED <<output, request>> /\ Assign(w, NoJob)
    BY <1>19 DEF ChargeOutput, Works, ExportsOnce, Owed
  <2>2. PICK t \in Nat : t = worker[w].bytes
    BY <2>1
  <2>3. project'.output = project.output + t /\ C <= B + 0 /\ 0 <= t + 0 - t /\ t \in Int
    BY <1>1, <1>6, <1>10, <2>1, <2>2
  <2> QED
    BY ONLY <1>4, <2>1, <2>2, <2>3, OwesNothing
<1>20. ASSUME NEW w \in Workers, Work(w), ~ RecordOutput(w), ~ ChargeOutput(w) PROVE Good
  <2>1. UNCHANGED <<output, request>> /\ project'.output = project.output
    <3>1. ASSUME Counted PROVE project'.output = project.output
      BY <1>1, <3>1 DEF Counted, ProjectDocs
    <3> QED
      BY <1>20, <3>1 DEF Work, BeginExport, TakeImport, claim, Prepare, ImportPage, NewFile,
                         CountPage, EndImport
  <2>2. UNCHANGED worker \/ (Owed(worker[w]) = 0 /\ \E j : Assign(w, j) /\ Owed(j) = 0)
    <3>1. CASE BeginExport(w) \/ TakeImport(w)
      <4>1. Owed(worker[w]) = 0
        BY <3>1, OwesNothing DEF BeginExport, TakeImport, Received
      <4>2. UNCHANGED worker \/ \E m, b : \E p \in {"record", "claim"} : Assign(w, Task(m, p, b))
        BY <3>1 DEF BeginExport, TakeImport
      <4>3. \A m, b : \A p \in {"record", "claim"} : Owed(Task(m, p, b)) = 0
        BY OwesNothing DEF Task
      <4> QED
        BY ONLY <4>1, <4>2, <4>3
    <3>2. CASE claim(w) \/ Prepare(w) \/ ImportPage(w) \/ CountPage(w) \/ EndImport(w)
      <4>1. worker[w] /= NoJob /\ Owed(worker[w]) = 0
        BY <3>2, OwesNothing DEF claim, Prepare, ImportPage, CountPage, EndImport, Works
      <4>2. \/ Assign(w, NoJob)
            \/ \E p \in {"preparing", "importing", "counting"} :
                 Assign(w, [worker[w] EXCEPT !.pc = p])
        BY <3>2 DEF claim, Prepare, ImportPage, CountPage, EndImport
      <4>3. ASSUME NEW p \in {"preparing", "importing", "counting"}
            PROVE  Owed([worker[w] EXCEPT !.pc = p]) = 0
        <5>1. PICK h : h = [worker[w] EXCEPT !.pc = p]
          OBVIOUS
        <5>2. h.pc = p
          BY <4>1, <5>1, WorkerFields
        <5> QED
          BY <5>1, <5>2, OwesNothing
      <4> QED
        BY ONLY <4>1, <4>2, <4>3, OwesNothing
    <3> QED
      BY <1>20, <3>1, <3>2 DEF Work
  <2> QED
    BY ONLY <1>5, <1>6, <1>8, <1>9, <2>1, <2>2
<1>21. CASE transfer_owner \/ UNCHANGED jobsVars
  <2>1. UNCHANGED <<output, request, worker>> /\ project'.output = project.output
    BY <1>1, <1>21 DEF transfer_owner, jobsVars, ProjectDocs
  <2> QED
    BY ONLY <1>5, <1>6, <1>9, <2>1
\* Who is killed owes nothing, or the books are marked.
<1>22. CASE Killed
  <2>1. UNCHANGED <<output, project>>
    BY <1>22 DEF Killed
  <2>2. ASSUME NEW j, j = NoJob \/ ~ Booking(j) PROVE Owed(j) = 0
    BY <2>2, OwesNothing DEF Booking
  <2>3. ASSUME NEW j, races' = races \cup Marks(j) PROVE ~ Booking(j)
    BY <2>3 DEF Marks
  <2>4. \/ \E r \in Requests : Step(r, NoJob) /\ Owed(request[r]) = 0 /\ UNCHANGED worker
        \/ \E w \in Workers : Assign(w, NoJob) /\ Owed(worker[w]) = 0 /\ UNCHANGED request
    BY <1>22, <2>2, <2>3 DEF Killed
  <2>5. project'.output = project.output /\ Owed(NoJob) = 0
    BY <2>1, OwesNothing
  <2> QED
    BY ONLY <1>6, <1>7, <1>8, <1>9, <2>1, <2>4, <2>5
<1> QED
  BY <1>11, <1>13, <1>14, <1>15, <1>16, <1>17, <1>18, <1>19, <1>20, <1>21, <1>22
     DEF JobsNext, Serve, Lifecycle

LEMMA RequestSteps ==
  ASSUME JobsTypeOK, NEW r \in Requests, Calls(r) \/ Serve(r)
  PROVE  \A s \in Requests : s /= r => request'[s] = request[s]
<1>1. UNCHANGED request \/ \E j : request' = [request EXCEPT ![r] = j]
  <2>1. CASE Calls(r)
    BY <2>1 DEF Calls, CallComplete, CallReopen, CallClear, CallUpload, CallExport, CallImport, Take
  <2>2. CASE Lifecycle(r)
    BY <2>2 DEF Lifecycle, complete, reopen, Moves, LockClear, clear_files, clear_outputs,
                clear_unbook, clear_drop, clear_zero, commit_clear, Step, Raised
  <2>3. CASE save_upload(r) \/ count_upload(r) \/ DeleteOld(r) \/ ZeroOld(r) \/ CreateOutput(r)
    BY <2>3 DEF save_upload, count_upload, DeleteOld, ZeroOld, CreateOutput, Step
  <2> QED
    BY <2>1, <2>2, <2>3 DEF Serve
<1> QED
  BY <1>1 DEF JobsTypeOK

LEMMA RequestKept ==
  ASSUME JobsTypeOK, (\E w \in Workers : Work(w)) \/ transfer_owner \/ Killed \/ UNCHANGED jobsVars
  PROVE  \A s \in Requests : request'[s] = request[s] \/ request'[s] = NoJob
<1>1. CASE Killed
  BY <1>1 DEF Killed, Step, JobsTypeOK
<1>2. CASE transfer_owner \/ UNCHANGED jobsVars
  BY <1>2 DEF transfer_owner, jobsVars
<1>3. CASE \E w \in Workers : Work(w)
  BY <1>3 DEF Work, BeginExport, RecordOutput, ChargeOutput, TakeImport, claim, Prepare,
              ImportPage, CountPage, EndImport
<1> QED
  BY <1>1, <1>2, <1>3

\* A job that is taken or left is at none of the phases of a clear.
LEMMA NotClearing ==
  ASSUME JobsTypeOK, NEW r \in Requests, Calls(r) \/ Serve(r), ~ Clears(r)
  PROVE  Clearing(r)' => Clearing(r) /\ request'[r] = request[r]
<1>1. ASSUME NEW j, request' = [request EXCEPT ![r] = j],
             \/ j = NoJob
             \/ j.pc \notin ClearPhases
             \/ j.kind /= "clear"
      PROVE  ~ Clearing(r)'
  BY <1>1 DEF JobsTypeOK, Clearing
<1>2. CASE CallComplete(r) \/ CallReopen(r) \/ CallClear(r) \/ CallUpload(r)
  BY <1>1, <1>2 DEF CallComplete, CallReopen, CallClear, CallUpload, Take, NewJob, Versioned,
                    ClearPhases
<1>3. CASE CallExport(r)
  BY <1>1, <1>3 DEF CallExport, Take, NewJob
<1>4. CASE CallImport(r)
  BY <1>4 DEF CallImport, Clearing
<1>5. CASE complete(r) \/ reopen(r) \/ count_upload(r) \/ CreateOutput(r)
  BY <1>1, <1>5 DEF complete, reopen, Moves, count_upload, CreateOutput, Step
<1>6. CASE DeleteOld(r) \/ ZeroOld(r) \/ save_upload(r)
  <2>1. request[r] /= NoJob /\ request[r] \in JobRecords /\ request[r].kind /= "clear"
    BY <1>6, AtTyped DEF DeleteOld, ZeroOld, save_upload, At
  <2>2. \/ \E p : request' = [request EXCEPT ![r] = [request[r] EXCEPT !.pc = p]]
        \/ \E p, o : request' = [request EXCEPT ![r] = [request[r] EXCEPT !.pc = p, !.outputs = o]]
        \/ request' = [request EXCEPT ![r] = NoJob]
    BY <1>6 DEF DeleteOld, ZeroOld, save_upload, Step
  <2>3. /\ \A p : [request[r] EXCEPT !.pc = p].kind /= "clear"
        /\ \A p, o : [request[r] EXCEPT !.pc = p, !.outputs = o].kind /= "clear"
    BY <2>1, JobFields
  <2> QED
    BY ONLY <1>1, <2>2, <2>3
<1> QED
  BY <1>2, <1>3, <1>4, <1>5, <1>6 DEF Calls, Serve, Lifecycle, Clears

\* Clears is a step of Serve at a phase of its own.
LEMMA ClearsAt ==
  ASSUME JobsTypeOK, NEW r \in Requests, Clears(r)
  PROVE  /\ request[r] /= NoJob /\ request[r] \in JobRecords /\ request[r].kind = "clear"
         /\ ~ LockClear(r) => request[r].pc \in ClearPhases
         /\ Calls(r) \/ Serve(r)
<1>1. request[r] /= NoJob /\ request[r].kind = "clear" /\ (~ LockClear(r) => request[r].pc \in ClearPhases)
  BY DEF Clears, LockClear, clear_files, clear_outputs, clear_unbook, clear_drop, clear_zero,
         commit_clear, At, ClearPhases
<1> QED
  BY <1>1, AtTyped DEF Clears, Serve, Lifecycle

\* What the flag is raised for.
LEMMA FlagKept ==
  ASSUME JobsTypeOK, [JobsNext]_jobsVars, \A r \in Requests : ~ Clears(r)
  PROVE  /\ project'.clearing = project.clearing /\ project.clearing \in BOOLEAN
         /\ project.clearing \/ project.status = "CLEARED" => project'.status = project.status
         /\ project'.status = "CLEARED" => project.status = "CLEARED"
<1>1. \/ \E r \in Requests : complete(r) \/ reopen(r)
      \/ transfer_owner
      \/ project' = project \/ Counted \/ \E n : Add(n)
  <2>1. ASSUME NEW r \in Requests, Calls(r) PROVE UNCHANGED project
    BY <2>1 DEF Calls, CallComplete, CallReopen, CallClear, CallUpload, CallExport, CallImport
  <2>2. ASSUME NEW r \in Requests, Serve(r)
        PROVE  complete(r) \/ reopen(r) \/ UNCHANGED project \/ Counted \/ \E n : Add(n)
    <3>1. complete(r) \/ reopen(r) \/ save_upload(r) \/ count_upload(r) \/ DeleteOld(r)
          \/ ZeroOld(r) \/ CreateOutput(r)
      BY <2>2 DEF Serve, Lifecycle, Clears
    <3> QED
      BY <3>1 DEF save_upload, count_upload, DeleteOld, Subtract, ZeroOld, CreateOutput
  <2>3. ASSUME NEW w \in Workers, Work(w) PROVE UNCHANGED project \/ Counted \/ \E n : Add(n)
    BY <2>3 DEF Work, BeginExport, RecordOutput, ChargeOutput, TakeImport, claim, Prepare,
                ImportPage, CountPage, EndImport
  <2>4. Killed \/ UNCHANGED jobsVars => UNCHANGED project
    BY DEF Killed, jobsVars
  <2> QED
    BY <2>1, <2>2, <2>3, <2>4 DEF JobsNext
<1>2. CASE \E r \in Requests : complete(r) \/ reopen(r)
  BY <1>2 DEF complete, reopen, Moves, Matches, JobsTypeOK, ProjectDocs
<1>3. CASE transfer_owner
  BY <1>3 DEF transfer_owner, JobsTypeOK, ProjectDocs
<1>4. CASE project' = project \/ Counted \/ \E n : Add(n)
  BY <1>4 DEF Counted, Add, JobsTypeOK, ProjectDocs
<1> QED
  BY <1>1, <1>2, <1>3, <1>4

LEMMA ClearingKept ==
  ASSUME JobsTypeOK, [JobsNext]_jobsVars, \A r \in Requests : ~ Clears(r)
  PROVE  \A s \in Requests : Clearing(s)' => Clearing(s) /\ request'[s] = request[s]
<1>1. CASE \E r \in Requests : Calls(r) \/ Serve(r)
  BY <1>1, RequestSteps, NotClearing DEF Clearing
<1>2. CASE (\E w \in Workers : Work(w)) \/ transfer_owner \/ Killed \/ UNCHANGED jobsVars
  BY <1>2, RequestKept DEF Clearing
<1> QED
  BY <1>1, <1>2 DEF JobsNext

LEMMA FlagNext ==
  ASSUME JobsTypeOK, FlagHeld, [JobsNext]_jobsVars
  PROVE  FlagHeld'
<1>1. CASE \A r \in Requests : ~ Clears(r)
  <2>1. \A s \in Requests : Clearing(s)' => Clearing(s)
    BY <1>1, ClearingKept
  <2>2. /\ project'.clearing = project.clearing /\ project.clearing \in BOOLEAN
        /\ project.clearing \/ project.status = "CLEARED" => project'.status = project.status
    BY ONLY <1>1, JobsTypeOK, [JobsNext]_jobsVars, FlagKept
  <2> QED
    BY ONLY <2>1, <2>2, FlagHeld DEF FlagHeld
<1>2. ASSUME NEW r \in Requests, Clears(r) PROVE FlagHeld'
  <2>0. /\ request[r] /= NoJob /\ request[r] \in JobRecords /\ request[r].kind = "clear"
        /\ ~ LockClear(r) => request[r].pc \in ClearPhases
    BY <1>2, ClearsAt
  <2>1. \A s \in Requests : s /= r => request'[s] = request[s]
    BY <1>2, RequestSteps, ClearsAt
  <2>2. ASSUME \A s \in Requests : s /= r => ~ Clearing(s),
               request'[r] = NoJob \/ project'.clearing, project'.clearing \in BOOLEAN,
               project'.clearing => project'.status \in {"NORMAL", "COMPLETED"}
        PROVE  FlagHeld'
    BY <2>1, <2>2 DEF FlagHeld, Clearing
  <2>3. ASSUME UNCHANGED project, request'[r] = NoJob PROVE FlagHeld'
    BY <2>1, <2>3 DEF FlagHeld, Clearing
  <2>4. CASE LockClear(r)
    <3>1. CASE Matches(r, {"NORMAL", "COMPLETED"})
      <4>1. \A s \in Requests : ~ Clearing(s)
        BY <3>1 DEF Matches, FlagHeld
      <4>2. project'.clearing = TRUE /\ project'.status = project.status
        BY <2>4, <3>1 DEF LockClear, JobsTypeOK, ProjectDocs
      <4> QED
        BY <2>2, <3>1, <4>1, <4>2 DEF Matches
    <3>2. CASE ~ Matches(r, {"NORMAL", "COMPLETED"})
      <4>1. UNCHANGED project /\ request'[r] = NoJob
        BY <2>4, <3>2 DEF LockClear, Step, JobsTypeOK
      <4> QED
        BY <2>3, <4>1
    <3> QED
      BY <3>1, <3>2
  <2>5. CASE ~ LockClear(r)
    <3>1. Clearing(r) /\ project.clearing /\ project.status \in {"NORMAL", "COMPLETED"}
      BY <2>0, <2>5 DEF Clearing, FlagHeld
    <3>2. \A s \in Requests : s /= r => ~ Clearing(s)
      BY <3>1 DEF FlagHeld
    <3>3. CASE commit_clear(r)
      <4>1. project'.clearing = FALSE /\ request'[r] = NoJob
        BY <3>3 DEF commit_clear, Step, JobsTypeOK, ProjectDocs
      <4> QED
        BY <2>2, <3>2, <4>1
    <3>4. CASE ~ commit_clear(r)
      <4>0. UNCHANGED project \/ Raised(r) \/ (\E n : Add(n)) \/ project' = Emptied(project)
        BY <1>2, <2>5, <3>4 DEF Clears, clear_files, clear_outputs, Subtract, clear_unbook,
                                clear_drop, clear_zero
      <4>1. \/ project'.clearing = FALSE /\ request'[r] = NoJob
            \/ project'.clearing = project.clearing /\ project'.status = project.status
        BY <4>0 DEF Add, Raised, Step, Emptied, JobsTypeOK, ProjectDocs
      <4> QED
        BY <2>2, <3>1, <3>2, <4>1
    <3> QED
      BY <3>3, <3>4
  <2> QED
    BY <2>4, <2>5
<1> QED
  BY <1>1, <1>2

\* While the flag is up, and after the clear, nobody but the clear changes
\* the contents without being late.
LEMMA NobodyLate ==
  ASSUME JobsTypeOK, [JobsNext]_jobsVars, \A r \in Requests : ~ Clears(r),
         "late" \notin races', project.clearing \/ project.status = "CLEARED"
  PROVE  /\ UNCHANGED files /\ project'.files = project.files
         /\ project'.output = project.output /\ (output = <<>> => output' = <<>>)
<1>1. Late = {"late"}
  BY DEF Late
<1>2. /\ ~ NewFile /\ ~ Counted
      /\ \A r \in Requests : ~ CreateOutput(r)
      /\ \A w \in Workers : ~ ChargeOutput(w)
  BY <1>1 DEF NewFile, Counted, CreateOutput, ChargeOutput
<1>3. ASSUME NEW r \in Requests, Serve(r)
      PROVE  /\ UNCHANGED files
             /\ complete(r) \/ reopen(r) \/ UNCHANGED project
             /\ UNCHANGED output \/ ZeroOld(r)
  <2>1. complete(r) \/ reopen(r) \/ save_upload(r) \/ DeleteOld(r) \/ ZeroOld(r)
    BY <1>2, <1>3 DEF Serve, Lifecycle, Clears, count_upload
  <2>2. CASE DeleteOld(r)
    BY <1>1, <2>2 DEF DeleteOld
  <2> QED
    BY <1>2, <2>1, <2>2 DEF complete, reopen, Moves, save_upload, ZeroOld
<1>4. ASSUME NEW r \in Requests, Calls(r) PROVE UNCHANGED <<files, project, output>>
  BY <1>4 DEF Calls, CallComplete, CallReopen, CallClear, CallUpload, CallExport, CallImport
<1>5. ASSUME NEW w \in Workers, Work(w)
      PROVE  UNCHANGED <<files, project>> /\ (UNCHANGED output \/ RecordOutput(w))
  BY <1>2, <1>5 DEF Work, BeginExport, RecordOutput, TakeImport, claim, Prepare, ImportPage,
                    CountPage, EndImport
<1>6. Killed \/ UNCHANGED jobsVars => UNCHANGED <<files, project, output>>
  BY DEF Killed, jobsVars
<1>7. transfer_owner => UNCHANGED <<files, output>>
  BY DEF transfer_owner
<1>8. UNCHANGED files
  BY <1>3, <1>4, <1>5, <1>6, <1>7 DEF JobsNext
<1>9. UNCHANGED project \/ transfer_owner \/ \E r \in Requests : complete(r) \/ reopen(r)
  BY <1>3, <1>4, <1>5, <1>6 DEF JobsNext
<1>10. project'.files = project.files /\ project'.output = project.output
  BY <1>9 DEF transfer_owner, complete, reopen, Moves, JobsTypeOK, ProjectDocs
<1>11. \/ UNCHANGED output \/ (\E r \in Requests : ZeroOld(r)) \/ \E w \in Workers : RecordOutput(w)
  BY <1>3, <1>4, <1>5, <1>6, <1>7 DEF JobsNext
<1>12. DOMAIN output' = DOMAIN output /\ output' = [o \in DOMAIN output' |-> output'[o]]
  BY <1>11, EmptyReading DEF ZeroOld, Zero, RecordOutput, JobsTypeOK, Readings
<1>13. output = <<>> => output' = <<>>
  BY <1>12, EmptyReading, NothingRead
<1> QED
  BY <1>8, <1>10, <1>13

LEMMA EmptiedAll ==
  ASSUME JobsTypeOK, FlagHeld, Emptying, ClearedHoldsNothing, [JobsNext]_jobsVars, JobsTypeOK'
  PROVE  Emptying' /\ ClearedHoldsNothing'
<1> SUFFICES ASSUME "late" \notin races'
             PROVE  /\ \A r \in Requests : EmptiedBy(r)'
                    /\ project'.status = "CLEARED" =>
                         files' = {} /\ output' = <<>> /\ project'.files = 0 /\ project'.output = 0
  BY DEF Emptying, ClearedHoldsNothing, EmptiedBy
<1>1. "late" \notin races
  BY RacesGrow
<1>2. /\ \A r \in Requests : EmptiedBy(r)
      /\ project.status = "CLEARED" =>
           files = {} /\ output = <<>> /\ project.files = 0 /\ project.output = 0
  BY <1>1 DEF Emptying, ClearedHoldsNothing, EmptiedBy
<1>3. \A r \in Requests : ~ Clearing(r)' => EmptiedBy(r)'
  BY DEF Clearing, EmptiedBy, At, ClearPhases
<1>4. CASE \A r \in Requests : ~ Clears(r)
  <2>1. \A s \in Requests : Clearing(s)' => Clearing(s) /\ request'[s] = request[s]
    BY <1>4, ClearingKept
  <2>2. project'.status = "CLEARED" => project.status = "CLEARED"
    BY <1>4, FlagKept
  <2>3. ASSUME project.clearing \/ project.status = "CLEARED"
        PROVE  /\ UNCHANGED files /\ project'.files = project.files
               /\ project'.output = project.output /\ (output = <<>> => output' = <<>>)
    BY <1>4, <2>3, NobodyLate
  <2>4. ASSUME NEW s \in Requests, Clearing(s)' PROVE EmptiedBy(s)'
    <3>1. Clearing(s) /\ project.clearing /\ request'[s] = request[s]
      BY <2>1, <2>4 DEF FlagHeld
    <3> QED
      BY <1>2, <2>3, <3>1 DEF EmptiedBy, At
  <2> QED
    BY <1>2, <1>3, <2>2, <2>3, <2>4
<1>5. ASSUME NEW r \in Requests, Clears(r)
      PROVE  /\ \A s \in Requests : EmptiedBy(s)'
             /\ project'.status = "CLEARED" =>
                  files' = {} /\ output' = <<>> /\ project'.files = 0 /\ project'.output = 0
  <2>0. /\ request[r] /= NoJob /\ request[r] \in JobRecords /\ request[r].kind = "clear"
        /\ ~ LockClear(r) => request[r].pc \in ClearPhases
    BY <1>5, ClearsAt
  <2>1. \A s \in Requests : s /= r => request'[s] = request[s]
    BY <1>5, RequestSteps, ClearsAt
  <2>2. CASE LockClear(r) /\ ~ Matches(r, {"NORMAL", "COMPLETED"})
    <3>1. UNCHANGED <<project, files, output>> /\ request'[r] = NoJob
      BY <2>2 DEF LockClear, Step, JobsTypeOK
    <3>2. \A s \in Requests : EmptiedBy(s)'
      BY <1>2, <2>1, <3>1 DEF EmptiedBy, At
    <3> QED
      BY <1>2, <3>1, <3>2
  <2>3. \A s \in Requests : s /= r /\ ~ Clearing(s) => EmptiedBy(s)'
    BY <1>3, <2>1 DEF Clearing
  <2>4. CASE LockClear(r) /\ Matches(r, {"NORMAL", "COMPLETED"})
    <3>1. \A s \in Requests : ~ Clearing(s)
      BY <2>4 DEF Matches, FlagHeld
    <3>2. request'[r] = [request[r] EXCEPT !.pc = "files", !.files = files] /\ UNCHANGED files
      BY <2>4 DEF LockClear, Step, JobsTypeOK
    <3>3. request'[r].pc = "files" /\ request'[r].files = files
      BY <2>0, <3>2, JobFields
    <3>4. EmptiedBy(r)'
      BY <3>2, <3>3 DEF EmptiedBy, At
    <3>5. project'.status /= "CLEARED"
      BY <2>4 DEF LockClear, Matches, JobsTypeOK, ProjectDocs
    <3> QED
      BY <2>3, <3>1, <3>4, <3>5
  <2>5. ASSUME ~ LockClear(r)
        PROVE  project.clearing /\ project.status \in {"NORMAL", "COMPLETED"}
               /\ \A s \in Requests : s /= r => ~ Clearing(s)
    BY <2>0, <2>5 DEF Clearing, FlagHeld
  <2>6. ASSUME project' = [project EXCEPT !.clearing = FALSE], request'[r] = NoJob, ~ LockClear(r)
        PROVE  EmptiedBy(r)' /\ project'.status /= "CLEARED"
    BY <2>5, <2>6 DEF EmptiedBy, At, JobsTypeOK, ProjectDocs
  \* A phase that ends well leaves the status alone.
  <2>7. ASSUME ~ LockClear(r), EmptiedBy(r)', project'.status = project.status
        PROVE  /\ \A s \in Requests : EmptiedBy(s)'
               /\ project'.status = "CLEARED" =>
                    files' = {} /\ output' = <<>> /\ project'.files = 0 /\ project'.output = 0
    BY <2>3, <2>5, <2>7
  <2>8. ASSUME Raised(r), ~ LockClear(r)
        PROVE  /\ \A s \in Requests : EmptiedBy(s)'
               /\ project'.status = "CLEARED" =>
                    files' = {} /\ output' = <<>> /\ project'.files = 0 /\ project'.output = 0
    BY <2>3, <2>5, <2>6, <2>8 DEF Raised, Step, JobsTypeOK
  <2>9. ASSUME NEW j, Step(r, j) PROVE request'[r] = j
    BY <2>9 DEF Step, JobsTypeOK
  <2>10. CASE clear_files(r)
    <3>0. ~ LockClear(r)
      BY <2>10 DEF clear_files, LockClear, At
    <3>1. files \subseteq request[r].files
      BY <1>2, <2>10 DEF clear_files, EmptiedBy
    <3>2. CASE /\ files' = files \ request[r].files /\ UNCHANGED project
               /\ Step(r, [request[r] EXCEPT !.pc = "outputs", !.files = {},
                                             !.outputs = Read(DOMAIN output)])
      <4>1. files' = {}
        BY <3>1, <3>2
      <4>2. request'[r].pc = "outputs"
        <5>1. PICK h : h = [request[r] EXCEPT !.pc = "outputs", !.files = {}, !.outputs = Read(DOMAIN output)]
          OBVIOUS
        <5>2. h.pc = "outputs"
          BY <2>0, <5>1, JobFields
        <5>3. Step(r, h)
          BY <3>2, <5>1
        <5> QED
          BY <2>9, <5>2, <5>3
      <4>3. EmptiedBy(r)'
        BY <4>1, <4>2 DEF EmptiedBy, At
      <4> QED
        BY <2>7, <3>0, <3>2, <4>3
    <3> QED
      BY <2>8, <2>10, <3>0, <3>2 DEF clear_files
  <2>11. CASE clear_outputs(r)
    <3>0. ~ LockClear(r)
      BY <2>11 DEF clear_outputs, LockClear, At
    <3>1. files = {} /\ UNCHANGED files
      BY <1>2, <2>11 DEF clear_outputs, EmptiedBy
    <3>2. CASE Subtract(request[r].outputs) /\ Step(r, [request[r] EXCEPT !.pc = "unbook"])
      <4>1. request'[r].pc = "unbook"
        <5>1. PICK h : h = [request[r] EXCEPT !.pc = "unbook"]
          OBVIOUS
        <5>2. h.pc = "unbook"
          BY <2>0, <5>1, JobFields
        <5>3. Step(r, h)
          BY <3>2, <5>1
        <5> QED
          BY <2>9, <5>2, <5>3
      <4>2. EmptiedBy(r)'
        BY <3>1, <4>1 DEF EmptiedBy, At
      <4>3. project'.status = project.status
        BY <3>2 DEF Subtract, Add, JobsTypeOK, ProjectDocs
      <4> QED
        BY <2>7, <3>0, <4>2, <4>3
    <3> QED
      BY <2>8, <2>11, <3>0, <3>2 DEF clear_outputs
  <2>12. CASE clear_unbook(r)
    <3>1. files = {} /\ UNCHANGED <<files, project>> /\ ~ LockClear(r)
      BY <1>2, <2>12 DEF clear_unbook, LockClear, EmptiedBy, At
    <3>2. request'[r].pc = "drop"
      <4>1. PICK h : h = [request[r] EXCEPT !.pc = "drop", !.outputs = <<>>]
        OBVIOUS
      <4>2. h.pc = "drop"
        BY <2>0, <4>1, JobFields
      <4>3. Step(r, h)
        BY <2>12, <4>1 DEF clear_unbook
      <4> QED
        BY <2>9, <4>2, <4>3
    <3>3. EmptiedBy(r)'
      BY <3>1, <3>2 DEF EmptiedBy, At
    <3> QED
      BY <2>7, <3>1, <3>3
  <2>13. CASE clear_drop(r)
    <3>1. files = {} /\ UNCHANGED <<files, project>> /\ ~ LockClear(r) /\ output' = <<>>
      BY <1>2, <2>13 DEF clear_drop, LockClear, EmptiedBy, At
    <3>2. request'[r].pc = "zero"
      <4>1. PICK h : h = [request[r] EXCEPT !.pc = "zero"]
        OBVIOUS
      <4>2. h.pc = "zero"
        BY <2>0, <4>1, JobFields
      <4>3. Step(r, h)
        BY <2>13, <4>1 DEF clear_drop
      <4> QED
        BY <2>9, <4>2, <4>3
    <3>3. EmptiedBy(r)'
      BY <3>1, <3>2 DEF EmptiedBy, At
    <3> QED
      BY <2>7, <3>1, <3>3
  <2>14. CASE clear_zero(r)
    <3>1. files = {} /\ output = <<>> /\ UNCHANGED <<files, output>> /\ ~ LockClear(r)
      BY <1>2, <2>14 DEF clear_zero, LockClear, EmptiedBy, At
    <3>2. project'.files = 0 /\ project'.output = 0 /\ project'.status = project.status
      BY <2>14 DEF clear_zero, Emptied, JobsTypeOK, ProjectDocs
    <3>3. request'[r].pc = "commit"
      <4>1. PICK h : h = [request[r] EXCEPT !.pc = "commit"]
        OBVIOUS
      <4>2. h.pc = "commit"
        BY <2>0, <4>1, JobFields
      <4>3. Step(r, h)
        BY <2>14, <4>1 DEF clear_zero
      <4> QED
        BY <2>9, <4>2, <4>3
    <3>4. EmptiedBy(r)'
      BY <3>1, <3>2, <3>3 DEF EmptiedBy, At
    <3> QED
      BY <2>7, <3>1, <3>2, <3>4
  <2>15. CASE commit_clear(r)
    <3>0. ~ LockClear(r)
      BY <2>15 DEF commit_clear, LockClear, At
    <3>1. /\ files = {} /\ output = <<>> /\ project.files = 0 /\ project.output = 0
          /\ UNCHANGED <<files, output>>
      BY <1>2, <2>15 DEF commit_clear, EmptiedBy
    <3>2. project'.files = project.files /\ project'.output = project.output
      BY <2>15 DEF commit_clear, JobsTypeOK, ProjectDocs, ProjectStatuses
    <3>3. request'[r] = NoJob
      BY <2>15 DEF commit_clear, Step, JobsTypeOK
    <3>4. EmptiedBy(r)'
      BY <3>3 DEF EmptiedBy, At
    <3> QED
      BY <2>3, <2>5, <3>0, <3>1, <3>2, <3>4
  <2> QED
    BY <1>5, <2>2, <2>4, <2>10, <2>11, <2>12, <2>13, <2>14, <2>15 DEF Clears
<1> QED
  BY <1>4, <1>5

LEMMA ImportsNext ==
  ASSUME JobsTypeOK, NothingAhead, ImportsKnown, ImportsOwned, [JobsNext]_jobsVars
  PROVE  /\ ImportsKnown' /\ ImportsOwned'
         /\ \A t \in DOMAIN task : task[t] \in Final => task'[t] = task[t]
<1> DEFINE Goal == /\ ImportsKnown' /\ ImportsOwned'
                   /\ \A t \in DOMAIN task : task[t] \in Final => task'[t] = task[t]
<1>1. CASE Quiet
  <2>1. UNCHANGED <<task, queue>> /\ \A w \in Workers : worker'[w] \in {worker[w], NoJob}
    BY ONLY <1>1, JobsTypeOK, QuietSteps
  <2> QED
    BY ONLY <2>1, ImportsKnown, ImportsOwned DEF ImportsKnown, ImportsOwned, Importing
<1>2. ASSUME NEW r \in Requests, CreateOutput(r) \/ CallImport(r) PROVE Goal
  <2>1. made' = made + 1 /\ made \in Nat /\ UNCHANGED worker
    BY <1>2, MakeTyped DEF CreateOutput, CallImport, JobsTypeOK
  <2>2. \A m \in queue' : m.kind = "import" => m \in queue \/ (m.id = made' /\ CallImport(r))
    BY <1>2 DEF CreateOutput, CallImport, Message
  <2>3. /\ DOMAIN task \subseteq DOMAIN task' /\ (CallImport(r) => made' \in DOMAIN task')
        /\ \A t \in DOMAIN task : t /= made' => task'[t] = task[t]
    BY <1>2 DEF CreateOutput, CallImport
  <2>4. \A t \in DOMAIN task : t /= made'
    BY <2>1 DEF NothingAhead, JobsTypeOK, Ids
  <2> QED
    BY ONLY <2>1, <2>2, <2>3, <2>4, ImportsKnown, ImportsOwned DEF ImportsKnown, ImportsOwned, Importing
<1>3. ASSUME NEW w \in Workers, Work(w) PROVE Goal
  <2>1. ASSUME UNCHANGED task, queue' \subseteq queue,
               \A v \in Workers : v /= w => worker'[v] = worker[v],
               \/ worker'[w] = worker[w] \/ worker'[w] = NoJob
               \/ worker'[w].kind = "export"
               \/ worker'[w].pc = "claim" /\ worker'[w].id \in DOMAIN task
        PROVE  Goal
    BY ONLY <2>1, ImportsKnown, ImportsOwned DEF ImportsKnown, ImportsOwned, Importing
  <2>2. ASSUME NEW j, Assign(w, j) PROVE (\A v \in Workers : v /= w => worker'[v] = worker[v]) /\ worker'[w] = j
    BY <2>2 DEF Assign, JobsTypeOK
  <2>3. CASE BeginExport(w) \/ TakeImport(w)
    <3>1. PICK m \in queue :
            /\ queue' = queue \ {m} /\ UNCHANGED task
            /\ \/ UNCHANGED worker
               \/ \E b : m.kind = "export" /\ Assign(w, Task(m, "record", b))
               \/ m.kind = "import" /\ Assign(w, Task(m, "claim", 0))
      BY <2>3 DEF BeginExport, TakeImport, Received
    <3>2. CASE UNCHANGED worker
      BY <2>1, <3>1, <3>2
    <3>3. CASE \E b : m.kind = "export" /\ Assign(w, Task(m, "record", b))
      BY <2>1, <2>2, <3>1, <3>3 DEF Task
    <3>4. CASE m.kind = "import" /\ Assign(w, Task(m, "claim", 0))
      BY <2>1, <2>2, <3>1, <3>4 DEF Task, ImportsKnown
    <3> QED
      BY <3>1, <3>2, <3>3, <3>4
  <2>4. CASE RecordOutput(w) \/ ChargeOutput(w)
    <3>1. worker[w] /= NoJob /\ worker[w].kind = "export" /\ UNCHANGED <<task, queue>>
      BY <2>4 DEF RecordOutput, ChargeOutput, Works
    <3>2. \A b : Charge(worker[w], b).kind = "export"
      BY <3>1, WorksTyped DEF Charge, TaskRecords
    <3>3. Assign(w, NoJob) \/ \E b : Assign(w, Charge(worker[w], b))
      BY <2>4 DEF RecordOutput, ChargeOutput
    <3> QED
      BY ONLY <2>1, <2>2, <3>1, <3>2, <3>3
  \* A worker that holds the task moves it on, and may leave it.
  <2> DEFINE t == worker[w].id
  <2>6. ASSUME worker[w] /= NoJob, worker[w].kind = "import", UNCHANGED queue, NEW s, NEW j,
               Importing(w) \/ task[t] = "queued", task' = [task EXCEPT ![t] = s], Assign(w, j),
               \/ j = NoJob
               \/ /\ j.id = t /\ j.pc /= "claim"
                  /\ s = IF j.pc = "preparing" THEN "preparing" ELSE "importing"
        PROVE  Goal
    <3>1. t \in DOMAIN task /\ worker[w] \in TaskRecords
      BY <2>6, WorksTyped DEF ImportsKnown
    <3>2. DOMAIN task' = DOMAIN task /\ \A x \in DOMAIN task : task'[x] = IF x = t THEN s ELSE task[x]
      BY <2>6, <3>1
    <3>3. \A v \in Workers : v /= w /\ Importing(v) => worker[v].id /= t
      <4> SUFFICES ASSUME NEW v \in Workers, v /= w, Importing(v), worker[v].id = t PROVE FALSE
        OBVIOUS
      <4>1. task[t] \in {"preparing", "importing"}
        BY DEF ImportsOwned
      <4> QED
        BY <2>6, <4>1 DEF ImportsOwned
    <3>4. task[t] \notin Final
      <4>1. CASE Importing(w)
        BY <4>1 DEF ImportsOwned, Final
      <4> QED
        BY <2>6, <4>1 DEF Final
    <3>5. (\A v \in Workers : v /= w => worker'[v] = worker[v]) /\ worker'[w] = j
      BY <2>2, <2>6
    <3> HIDE DEF t
    <3>6. ImportsKnown'
      BY ONLY <2>6, <3>1, <3>2, <3>5, ImportsKnown DEF ImportsKnown
    <3>7. ImportsOwned'
      <4>1. ASSUME NEW v \in Workers, Importing(v)'
            PROVE  task'[worker'[v].id] = IF worker'[v].pc = "preparing" THEN "preparing" ELSE "importing"
        <5>1. CASE v = w
          BY <2>6, <3>1, <3>2, <3>5, <4>1, <5>1 DEF Importing
        <5>2. CASE v /= w
          <6>1. Importing(v) /\ worker'[v] = worker[v] /\ worker[v].id /= t
            BY <3>3, <3>5, <4>1, <5>2 DEF Importing
          <6>2. /\ task[worker[v].id] = (IF worker[v].pc = "preparing" THEN "preparing" ELSE "importing")
                /\ worker[v].id \in DOMAIN task
            BY <6>1 DEF ImportsOwned, ImportsKnown, Importing
          <6> QED
            BY <3>2, <6>1, <6>2
        <5> QED
          BY <5>1, <5>2
      <4>2. ASSUME NEW u \in Workers, NEW v \in Workers, Importing(u)', Importing(v)',
                   worker'[u].id = worker'[v].id
            PROVE  u = v
        BY <2>6, <3>3, <3>5, <4>2 DEF Importing, ImportsOwned
      <4> QED
        BY <4>1, <4>2 DEF ImportsOwned
    <3> QED
      BY <3>2, <3>4, <3>6, <3>7
  <2>7. ASSUME NEW p, worker[w] /= NoJob
        PROVE  [worker[w] EXCEPT !.pc = p].id = t /\ [worker[w] EXCEPT !.pc = p].pc = p
    BY <2>7, WorksTyped DEF TaskRecords
  <2>8. CASE claim(w)
    <3>1. CASE Claimable(t)
      BY <2>6, <2>7, <2>8, <3>1 DEF claim, Works, Claimable
    <3>2. CASE ~ Claimable(t)
      BY <2>1, <2>2, <2>8, <3>2 DEF claim
    <3> QED
      BY <3>1, <3>2
  <2>9. CASE Prepare(w) \/ EndImport(w)
    <3>1. Importing(w) /\ worker[w] /= NoJob /\ worker[w].kind = "import" /\ UNCHANGED queue
      BY <2>9 DEF Prepare, EndImport, Works, Importing
    <3> QED
      BY <2>6, <2>7, <2>9, <3>1 DEF Prepare, EndImport
  \* Pages are added and counted while the task is where it is.
  <2>10. CASE ImportPage(w) \/ CountPage(w)
    <3>1. /\ Importing(w) /\ worker[w] /= NoJob /\ worker[w].pc \in {"importing", "counting"}
          /\ UNCHANGED <<task, queue>>
          /\ \E p \in {"importing", "counting"} : Assign(w, [worker[w] EXCEPT !.pc = p])
      BY <2>10 DEF ImportPage, CountPage, Works, Importing
    <3>2. PICK p \in {"importing", "counting"} : Assign(w, [worker[w] EXCEPT !.pc = p])
      BY <3>1
    <3>3. PICK j : j = [worker[w] EXCEPT !.pc = p]
      OBVIOUS
    <3>4. j.id = worker[w].id /\ j.pc = p /\ j.kind = worker[w].kind
      BY <3>1, <3>3, WorkerFields
    <3>5. (\A v \in Workers : v /= w => worker'[v] = worker[v]) /\ worker'[w] = j
      BY <2>2, <3>2, <3>3
    <3>6. ImportsKnown'
      BY ONLY <3>1, <3>4, <3>5, ImportsKnown DEF ImportsKnown, Importing
    <3>7. \A v \in Workers : Importing(v)' => Importing(v) /\ worker'[v].id = worker[v].id
                 /\ (worker'[v].pc = "preparing" <=> worker[v].pc = "preparing")
      BY ONLY <3>1, <3>2, <3>4, <3>5 DEF Importing
    <3>8. ImportsOwned'
      BY ONLY <3>1, <3>7, ImportsOwned DEF ImportsOwned
    <3> QED
      BY <3>1, <3>6, <3>8
  <2> QED
    BY <1>3, <2>3, <2>4, <2>8, <2>9, <2>10 DEF Work
<1> QED
  BY ONLY <1>1, <1>2, <1>3, [JobsNext]_jobsVars, JobsCases

\* The first state, and every step.
LEMMA JobsInitInv == JobsInit => JobsIInv
<1> SUFFICES ASSUME JobsInit PROVE JobsIInv
  OBVIOUS
<1>1. JobsTypeOK
  BY JobsTypeInit
<1>2. \A r \in Requests : request[r] = NoJob
  BY DEF JobsInit
<1>3. \A w \in Workers : worker[w] = NoJob
  BY DEF JobsInit
<1>4. DOMAIN output = {} /\ DOMAIN task = {} /\ queue = {}
  BY EmptyReading DEF JobsInit
<1>5. NothingAhead /\ ExportsOnce /\ ImportsKnown /\ ImportsOwned
  BY <1>3, <1>4 DEF NothingAhead, ExportsOnce, ImportsKnown, ImportsOwned, Exporting, Importing
<1>6. FlagHeld /\ Emptying /\ ClearedHoldsNothing
  BY <1>2 DEF JobsInit, FlagHeld, Emptying, EmptiedBy, ClearedHoldsNothing, Clearing, At
<1>7. NeverUndercounts
  <2>1. Booked = 0
    BY <1>1, <1>4, TotalOfNone DEF Booked, JobsTypeOK
  <2>2. InBetween \in Nat /\ project.output = 0
    BY <1>1, <1>5, OwedFacts, InBetweenMoves DEF JobsInit
  <2> QED
    BY <2>1, <2>2 DEF NeverUndercounts
<1> QED
  BY <1>1, <1>5, <1>6, <1>7 DEF JobsIInv

LEMMA JobsNextInv == JobsIInv /\ [JobsNext]_jobsVars => JobsIInv'
BY JobsTypeNext, AheadNext, ExportsNext, BooksNext, FlagNext, EmptiedAll, ImportsNext DEF JobsIInv

LEMMA JobsInvHolds == JobsSpec => []JobsIInv
BY JobsInitInv, JobsNextInv, PTL DEF JobsSpec

\* The account of a project is never below what its exports hold, but for what
\* running jobs are about to write, unless two cleaners released the same
\* export, a clear wrote zero over a new one, or a process was killed between
\* its two writes to the books.
THEOREM BooksNeverTooLow == JobsSpec => []NeverUndercounts
BY JobsInvHolds, PTL DEF JobsIInv

\* A cleared project is empty, whatever was tried before, killed or run beside
\* it, unless a job that had read the project earlier was late.
THEOREM ClearedIsEmpty == JobsSpec => []ClearedHoldsNothing
BY JobsInvHolds, PTL DEF JobsIInv

\* A finished archive import stays as it ended, however often its message is
\* delivered.
THEOREM FinishedHolds == JobsSpec => FinishedImportStays
<1>1. JobsIInv /\ [JobsNext]_jobsVars =>
        [\A t \in DOMAIN task : task[t] \in Final => task'[t] = task[t]]_jobsVars
  BY ImportsNext DEF JobsIInv
<1> QED
  BY <1>1, JobsInvHolds, PTL DEF JobsSpec, FinishedImportStays
=============================================================================
