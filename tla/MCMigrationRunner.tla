--------------------------- MODULE MCMigrationRunner ---------------------------
(* A small instance of machines that share no state: the runner of            *)
(* migrations, the names of users with the migration that fills in their      *)
(* searchable copies, and the sources of the storage pool.  A behaviour is    *)
(* about one of them, its `focus`: interleaving machines that cannot see each *)
(* other shows nothing.                                                       *)
EXTENDS MigrationRunner, Profiles, PoolSources, TLC

CONSTANTS f1, f2

VARIABLE focus

allVars == <<vars, profileVars, poolVars, focus>>

MCFold == [n \in Names |-> IF n \in {"Ann", "ann"} THEN "a" ELSE "b"]
MCAliasLists == {{}, {"ann"}, {"Bob"}}

\* The spare places have the names of the runners, and the requests of
\* administrators and of users the same ones.
Permuted ==
  Permutations(Runners) \cup Permutations(Pools) \cup Permutations(Admins)

FocusInit ==
  /\ focus \in {"migrations", "profiles", "sources"}
  /\ Init
  /\ ProfileInit
  /\ focus = "profiles" \/ \A u \in People : user[u].name = "Ann"
  /\ PoolInit /\ listed = {f1}

FocusNext ==
  /\ focus' = focus
  /\ \/ focus = "migrations" /\ Next /\ UNCHANGED <<profileVars, poolVars>>
     \/ focus = "profiles" /\ ProfileNext /\ UNCHANGED <<vars, poolVars>>
     \/ focus = "sources" /\ PoolNext /\ UNCHANGED <<vars, profileVars>>

FocusSpec == FocusInit /\ [][FocusNext]_allVars

\* What follows a window of PoolSources is of no interest to its property.
BeforeWindows == windows = {}

SourcesInit == FocusInit /\ focus = "sources"
SourcesSpec == SourcesInit /\ [][FocusNext]_allVars

ProfilesInit == FocusInit /\ focus = "profiles"
ProfilesSpec == ProfilesInit /\ [][FocusNext]_allVars
=============================================================================
