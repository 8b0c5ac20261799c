------------------------------- MODULE MCProject -------------------------------
(* A small instance of the machines around one project that share no state: *)
(* FileTree, DerivedImages, LabelOrder, PageOrder, Joining, ProofreadDraft    *)
(* and Notifications with overlapping scans.  A behaviour is about one of     *)
(* them, its `focus`, because interleaving machines that cannot see each      *)
(* other shows nothing.  Notifications has two: the mail server answers what  *)
(* it likes, or the recipients come and go.  FileTree is started either with an empty project or  *)
(* in the state reached by create_folder, upload, create_source and two       *)
(* translations of the label.                                                 *)
EXTENDS FileTree, DerivedImages, LabelOrder, PageOrder, Joining,
        ProofreadDraft, Notifications

CONSTANTS f1, f2, s1, n1, u1, u2, en

VARIABLE focus

roomVars == <<imageVars, labelVars, pageVars, joinVars>>
mailVars == <<draftVars, vars>>
allVars == <<treeVars, roomVars, mailVars, focus>>

\* The requests of all machines are h1 and h2.
Permuted == Permutations(Handlers)

Filled == [Zero EXCEPT !.sources = 1, !.size = 1, !.done[en] = 1, !.all_done = 1]

Begun ==
  /\ file = f1 :> [type |-> "folder", name |-> n1, parent |-> Top,
                   ancestors |-> <<>>]
            @@ f2 :> [type |-> "image", name |-> n1, parent |-> f1,
                      ancestors |-> <<f1>>]
  /\ count = f2 :> Filled @@ f1 :> [Filled EXCEPT !.files = 1]
             @@ Top :> [Filled EXCEPT !.files = 1, !.folders = 1]
  /\ targets = {en}
  /\ source = s1 :> f2
  /\ trans = [x \in {1, 2} |->
                [source |-> s1, target |-> en,
                 user |-> IF x = 1 THEN u1 ELSE u2, selected |-> FALSE]]
  /\ scars = {} /\ acts = 0
  /\ job = [h \in Handlers |-> NoTask]

FocusInit ==
  /\ focus \in {"tree", "images", "labels", "pages", "joining", "scans",
                "moves", "draft"}
  /\ IF focus = "tree" THEN TreeInit \/ Begun ELSE TreeInit /\ targets = {}
  /\ ImageInit
  /\ LabelInit /\ (focus = "labels" \/ rank = <<>>)
  /\ PageInit /\ (focus = "pages" \/ Cardinality(DOMAIN page) = 1)
  /\ JoinInit /\ (focus = "joining" \/ kind = "team")
  /\ DraftInit
  /\ Init /\ (focus \in {"scans", "moves"} \/
              (note.state = "draft" /\ note.audience = {1}))

FocusNext ==
  /\ focus' = focus
  /\ \/ /\ focus = "tree" /\ TreeNext /\ UNCHANGED <<roomVars, mailVars>>
     \/ /\ focus = "images" /\ ImageNext
        /\ UNCHANGED <<treeVars, labelVars, pageVars, joinVars, mailVars>>
     \/ /\ focus = "labels" /\ LabelNext
        /\ UNCHANGED <<treeVars, imageVars, pageVars, joinVars, mailVars>>
     \/ /\ focus = "pages" /\ PageNext
        /\ UNCHANGED <<treeVars, imageVars, labelVars, joinVars, mailVars>>
     \/ /\ focus = "joining" /\ JoinNext
        /\ UNCHANGED <<treeVars, imageVars, labelVars, pageVars, mailVars>>
     \/ /\ focus = "draft" /\ DraftNext
        /\ UNCHANGED <<treeVars, roomVars, vars>>
     \/ /\ focus = "scans" /\ Next /\ members' = members
        /\ UNCHANGED <<treeVars, roomVars, draftVars>>
     \/ /\ focus = "moves" /\ Next
        /\ \A s \in Scanners : scanner'[s].outcome \notin
              {"unknown", "retry_wait", "failed"}
        /\ UNCHANGED <<treeVars, roomVars, draftVars>>

\* A behaviour of the files is followed up to its first race.
BeforeRaces == Races = {}

ProjectSpec == FocusInit /\ [][FocusNext]_allVars
=============================================================================
