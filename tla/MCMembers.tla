------------------------------- MODULE MCMembers -------------------------------
(* A small instance of ProjectMembers, and of MailCodes, with which it shares *)
(* no state: a behaviour is about one of them, its `focus`.                  *)
EXTENDS ProjectMembers, MailCodes

CONSTANTS o, member, x, h1, h2, nobody, m1, m2

VARIABLE focus

peopleVars == <<memberVars, mailVars, focus>>

MCTeam == [t \in {o, member} |->
             [status |-> "active", base |-> IF t = o THEN "creator" ELSE "member",
              quals |-> {"translator"}]]
MCLocked == LockedTags(NoPolicy, TRUE, {"scanner"})
MCPolicy == NoPolicy

\* The requests of all machines are h1 and h2.
Permuted == Permutations(Workers)

\* The properties speak of unscarred states only: a scarred one is checked
\* and not explored further.
Sighted == scars = {}

\* The other user has no row at the start: he is added, or an alias is bound
\* to him.
PeopleInit ==
  /\ focus \in {"members", "mail"}
  /\ MembersInit /\ row[member] = Absent
  /\ MailInit /\ registered = {m1}

PeopleNext ==
  /\ focus' = focus
  /\ \/ focus = "members" /\ MembersNext /\ UNCHANGED mailVars
     \/ focus = "mail" /\ MailNext /\ UNCHANGED memberVars

PeopleSpec == PeopleInit /\ [][PeopleNext]_peopleVars
=============================================================================
