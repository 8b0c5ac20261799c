---- MODULE IdentityRules ----
(***************************************************************************)
(* The permission rules of app/services/identity_permission.py, as         *)
(* operators on the rows they read: the operator's row of the team, the    *)
(* operator's row of the project, the team's tag policy and switches.      *)
(* They hold no state; ProjectMembers uses them as guards.                 *)
(*                                                                         *)
(* Abstraction.  The seven worker tags are the two of WorkerTags, the      *)
(* twenty-four permission names the seven that the rules treat apart.      *)
(* A row that does not exist has status "absent".                          *)
(***************************************************************************)
EXTENDS FiniteSets

WorkerTags == {"translator", "scanner"}
ManagerTags == {"creator", "admin"}
ProjectTags == ManagerTags \cup WorkerTags

ProjectPermissionNames ==
    {"ACCESS", "ADD_FILE", "ADD_TRA", "CHANGE", "COMPLETE_PROJECT",
     "CHECK_USER", "MANAGE_MEMBERS"}

\* What a site tag grants: creator and admin everything, a worker the files,
\* a translator the translations too.
ProjectTagPermissions ==
    [t \in ProjectTags |->
        CASE t \in ManagerTags -> ProjectPermissionNames
          [] t = "translator"  -> {"ACCESS", "ADD_FILE", "ADD_TRA"}
          [] OTHER             -> {"ACCESS", "ADD_FILE"}]

\* Permissions that only a WORKING project gives.
NormalOnly == {"ADD_FILE", "ADD_TRA"}
\* Permissions a team policy may not give to a tag of its own.
ProtectedPermissions == {"COMPLETE_PROJECT", "MANAGE_MEMBERS"}

\* A policy is a function from the tags it overrides or adds to what it says of them.
PolicyEntry == [permissions : SUBSET ProjectPermissionNames, assignable : BOOLEAN]
NoPolicy == [t \in {} |-> {}]

\* An entry IdentityTagPolicyService.update accepts.
PolicyAccepts(tag, entry) ==
    tag \in ProjectTags \/ entry.permissions \cap ProtectedPermissions = {}

\* The permissions of a tag under a policy; an unknown tag gives none.
TagPermissions(policy, tag) ==
    IF tag \in DOMAIN policy THEN policy[tag].permissions
    ELSE IF tag \in ProjectTags THEN ProjectTagPermissions[tag] ELSE {}

IsActive(r) == r.status = "active"
IsTeamManager(t) == IsActive(t) /\ t.base \in ManagerTags
IsTeamCreator(t) == IsActive(t) /\ t.base = "creator"

(***************************************************************************)
(* The project snapshot.  A soft-removed project member loses what the     *)
(* team would give him, a team manager's level included; an invited one    *)
(* may look but holds no tag yet.                                          *)
(***************************************************************************)
FromTeam(t, m) ==
    IF IsActive(t) /\ m.status # "removed"
    THEN {"ACCESS"} \cup (IF t.base \in ManagerTags
                          THEN ProjectTagPermissions[t.base] ELSE {})
    ELSE {}

FromMembership(policy, m) ==
    (IF m.status \in {"active", "invited"} THEN {"ACCESS"} ELSE {})
    \cup (IF IsActive(m) THEN UNION {TagPermissions(policy, g) : g \in m.tags} ELSE {})

EffectivePermissions(policy, t, m) == FromTeam(t, m) \cup FromMembership(policy, m)

IsProjectManager(policy, t, m) == "MANAGE_MEMBERS" \in EffectivePermissions(policy, t, m)
IsProjectCreator(m) == IsActive(m) /\ "creator" \in m.tags
IsOwnerSnapshot(owner, u, m) == owner = u /\ IsProjectCreator(m)

CanProject(policy, t, m, permission, working) ==
    /\ permission \in EffectivePermissions(policy, t, m)
    /\ permission \in NormalOnly => working

CanProjectAction(policy, t, m, action) ==
    IF action = "clear" THEN IsTeamCreator(t)
    ELSE /\ action \in {"complete", "reopen"}
         /\ "COMPLETE_PROJECT" \in EffectivePermissions(policy, t, m)

(***************************************************************************)
(* Which tags an operator may give.  `open' is the team's switch that      *)
(* turns the worker-qualification check off, `self' says that operator and *)
(* target are the same user.                                               *)
(***************************************************************************)
AssignableTags(policy, t, m, self, open) ==
    LET custom == {g \in DOMAIN policy : policy[g].assignable}
    IN IF IsProjectManager(policy, t, m) \/ IsTeamManager(t)
       THEN WorkerTags \cup custom \cup {"admin"}
       ELSE IF open \/ self THEN WorkerTags \cup (custom \ ManagerTags) ELSE {}

\* Tags for a member without an account: worker tags only.
ValidAliasTags(tags) == tags \subseteq WorkerTags

\* Worker tags need the qualification of the target's team row, unless the
\* team is open or a manager gives them to himself.
Qualified(policy, t, m, tt, self, tags, open) ==
    LET privilegedSelf == self /\ IsProjectManager(policy, t, m)
        workers == tags \cap WorkerTags
    IN workers # {} =>
         /\ IsActive(tt) \/ privilegedSelf
         /\ open \/ privilegedSelf \/ workers \subseteq tt.quals

\* validate_project_tags for a registered target; tt is the target's team row.
ValidProjectTags(policy, t, m, tt, self, tags, allowCreator, open) ==
    /\ tags \subseteq ProjectTags \cup DOMAIN policy
    /\ "creator" \in tags => allowCreator
    /\ \A g \in tags \ ManagerTags : g \in DOMAIN policy => policy[g].assignable
    /\ "admin" \in tags =>
           IsProjectManager(policy, t, m) \/ IsTeamManager(t) \/ IsProjectCreator(m)
    /\ tags \subseteq AssignableTags(policy, t, m, self, open)
                      \cup (IF allowCreator THEN {"creator"} ELSE {})
    /\ Qualified(policy, t, m, tt, self, tags, open)

\* The positions only the team creator may give or take while the project's
\* lock is on: admin, the team's own tags and those the project lists.
LockedTags(policy, lockOn, listed) ==
    IF lockOn THEN {"admin"} \cup (DOMAIN policy \ ProjectTags) \cup listed ELSE {}

LockAllows(locked, t, tags) == locked \cap tags = {} \/ IsTeamCreator(t)
====
