----------------------------- MODULE MCIdentity -----------------------------
(* Small legacy databases for IdentityMigration.                            *)
EXTENDS IdentityMigration

CONSTANTS p1, u1, u2, n1, n2

Roles(a, b) == [u \in Users |-> IF u = u1 THEN a ELSE b]
Invited == [kind |-> "invitation", state |-> "pending"]
Asked   == [kind |-> "application", state |-> "pending"]
Joined  == [kind |-> "application", state |-> "allowed"]
Removed == [kind |-> "invitation", state |-> "denied"]

Legacy(r, t, e, o, c, l) ==
  [roles |-> [g \in Groups |-> IF g = Team THEN Roles({"member"}, t) ELSE r],
   events |-> [g \in Projects |-> Roles(e, <<Removed, Asked>>)],
   owner |-> [g \in Projects |-> o],
   status |-> [g \in Projects |-> "FINISH_PLAN"],
   credits |-> [g \in Projects |-> c],
   unread |-> [g \in Projects |-> {n2}],
   overlong |-> l]

\* A creator with a second relation; two creators; an owner nobody's relation
\* names; nobody, so that the site's or the team's creator is bound, who may
\* have left the project before.  Workers nobody can read, or too long a name.
Cases == {
  Legacy(Roles({}, {"creator", "translator"}), {}, <<Invited>>, NoUser, {n1}, {}),
  Legacy(Roles({"creator"}, {"creator"}), {}, <<>>, NoUser, {}, {}),
  Legacy(Roles({}, {"unmapped"}), {"creator"}, <<>>, u2, {}, {}),
  Legacy(Roles({}, {"creator"}), {}, <<>>, NoUser, {n1}, {n1}),
  Legacy(Roles({}, {"translator"}), {}, <<Joined, Removed>>, NoUser, {n1}, {}),
  Legacy(Roles({}, {"translator"}), {"member", "creator"}, <<Joined>>, NoUser, {}, {})}
=============================================================================
