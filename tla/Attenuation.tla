----------------------------- MODULE Attenuation -----------------------------
(***************************************************************************)
(* The power structure of the record (kernel/authority.py): a tree of      *)
(* spaces, grants over (actions x info x space), roles that grants may     *)
(* name as their subject, and the attenuation leash under which accounts   *)
(* write it (kernel/gate.py _authority_step, _attenuation_family_leash).   *)
(*                                                                         *)
(* The record itself is left out: a variable is the latest-wins fold the   *)
(* code recomputes from it at every read.  A refused act leaves every fold *)
(* as it was and is no step here.  A dimension of a grant is the set of    *)
(* values it covers; the wildcard is the whole of Actions or Infos, each   *)
(* of which holds a value no caller can list (AnyOther), so that a list is *)
(* never as wide as the wildcard (_as_set, dim_covers, _dim_subset).       *)
(***************************************************************************)
EXTENDS Naturals, FiniteSets

CONSTANTS
  Accounts,   \* the accounts that are neither the root nor SYSTEM
  Root,       \* the chain-end (SYSTEM is exempt from the leash alike)
  Everyone,   \* the wildcard as a grant's subject
  RoleIds,    \* ids a CREATE-ROLE may found
  SpaceIds,   \* ids of spaces, founded or not
  Mother,     \* the founding's own space, root of the tree
  GrantIds,   \* ids a GRANT may carry
  Openness,   \* the id of the founding openness grant
  Actions,    \* actions, with AnyOther
  Infos,      \* info kinds and role ids, with AnyOther
  Covers,     \* the (actions x info) a caller may propose
  Grantees,   \* the subjects a caller may propose
  AnyOther,   \* stands for every value no list names
  None        \* no parent, no grant, no role

ASSUME TreeAssumption == Mother \in SpaceIds /\ None \notin SpaceIds
ASSUME GrantsAssumption == Openness \in GrantIds
ASSUME NamesAssumption ==
  /\ Root \notin Accounts /\ Everyone \notin Accounts \cup RoleIds
  /\ Accounts \cap RoleIds = {} /\ Root # Everyone
  /\ {"CREATE-SPACE", "CREATE-ROLE", "hold"} \subseteq Actions
ASSUME CoversAssumption == Covers \subseteq [actions : SUBSET Actions, info : SUBSET Infos]

Subjects == Accounts \cup {Root, Everyone} \cup RoleIds

ASSUME GranteesAssumption == Grantees \subseteq Subjects

Grant == [grantee : Subjects, actions : SUBSET Actions, info : SUBSET Infos,
          space : SpaceIds]

Cover == [actions : SUBSET Actions, info : SUBSET Infos, space : SpaceIds]

ASSUME NoneAssumption == None \notin Grant

VARIABLES
  parent,    \* spaces(): the parent of each founded space
  grants,    \* grants(): the live grant under each id
  roles,     \* roles(): the space of each founded role
  standing,  \* history: the covers of the grants the root last left standing
  moved      \* history: an account gave a founded space a new parent since

vars == <<parent, grants, roles, standing, moved>>

-----------------------------------------------------------------------------
(* The space tree *)

Founded == {Mother} \cup {s \in SpaceIds : parent[s] # None}

ClosedUnderParents(S) == \A s \in S : parent[s] # None => parent[s] \in S

(* outer is inner or on inner's chain of parents (_ancestors_incl): it is  *)
(* in every set that holds inner and the parent of each of its members.    *)
SpaceReaches(outer, inner) ==
  \A S \in SUBSET SpaceIds : inner \in S /\ ClosedUnderParents(S) => outer \in S

(* Giving s the parent p would loop: s is p or above it. *)
WouldCycle(s, p) == SpaceReaches(s, p)

-----------------------------------------------------------------------------
(* The grant fold and the two questions asked of it *)

Live == {g \in GrantIds : grants[g] # None}

CoveringGrants(account) == {g \in Live : grants[g].grantee \in {account, Everyone}}

(* Mutant: dimension by dimension, each within some grant of the maker's.  *)
WithinUnionOfReach(maker, grantee, cover) ==
  /\ grantee = Everyone => \E g \in CoveringGrants(maker) : grants[g].grantee = Everyone
  /\ \E g \in CoveringGrants(maker) : cover.actions \subseteq grants[g].actions
  /\ \E g \in CoveringGrants(maker) :
       cover.info \subseteq grants[g].info /\ SpaceReaches(grants[g].space, cover.space)

(* A grant is never wider than its maker: it fits whole inside one of the  *)
(* maker's grants, and only a maker covered as "everyone" grants to        *)
(* everyone.                                                               *)
WithinMakersReach(maker, grantee, cover) ==
  /\ grantee = Everyone => \E g \in CoveringGrants(maker) : grants[g].grantee = Everyone
  /\ \E g \in CoveringGrants(maker) :
       /\ cover.actions \subseteq grants[g].actions
       /\ cover.info \subseteq grants[g].info
       /\ SpaceReaches(grants[g].space, cover.space)

ReachesSpaceStructural(account, target, action) ==
  \E g \in CoveringGrants(account) :
    SpaceReaches(grants[g].space, target) /\ action \in grants[g].actions

FoundedRoles == {r \in RoleIds : roles[r] # None}

HoldsRole(account, role, space) ==
  \E h \in CoveringGrants(account) :
    /\ "hold" \in grants[h].actions /\ role \in grants[h].info
    /\ SpaceReaches(grants[h].space, space)

GrantCovers(g, action, info, space) ==
  /\ action \in grants[g].actions /\ info \in grants[g].info
  /\ SpaceReaches(grants[g].space, space)

(* covers(): the one question - by a direct grant, or by a grant whose     *)
(* subject is a role the account holds there.                              *)
CoversAct(account, action, info, space) ==
  \/ \E g \in CoveringGrants(account) : GrantCovers(g, action, info, space)
  \/ \E g \in Live :
       /\ grants[g].grantee \in FoundedRoles
       /\ GrantCovers(g, action, info, space)
       /\ HoldsRole(account, grants[g].grantee, space)

-----------------------------------------------------------------------------
(* The founding: one space, open to everyone, as explicit law. *)
OpenCover == [actions |-> Actions, info |-> Infos, space |-> Mother]

CoverOf(g) == [actions |-> g.actions, info |-> g.info, space |-> g.space]

Init ==
  /\ parent = [s \in SpaceIds |-> None]
  /\ grants = [g \in GrantIds |->
                 IF g = Openness
                   THEN [grantee |-> Everyone, actions |-> Actions, info |-> Infos,
                         space |-> Mother]
                   ELSE None]
  /\ roles = [r \in RoleIds |-> None]
  /\ standing = {OpenCover}
  /\ moved = FALSE

(* What the root leaves standing is the measure of what follows. *)
Measured(actor) ==
  IF actor = Root
    THEN standing' = {CoverOf(grants'[g]) : g \in {h \in GrantIds : grants'[h] # None}}
    ELSE UNCHANGED standing

(* Mutant: the payload leaves the space out. *)
GrantWithoutSpace(actor, id, grantee, cover, space) ==
  /\ actor # Root => WithinMakersReach(actor, grantee, [actions |-> cover.actions, info |-> cover.info,
                                                       space |-> space])
  /\ SpaceReaches(Mother, space)
  /\ grants' = [grants EXCEPT ![id] =
                  [grantee |-> grantee, actions |-> cover.actions, info |-> cover.info,
                   space |-> None]]
  /\ UNCHANGED <<parent, roles>>
  /\ Measured(actor)
  /\ moved' = (moved /\ actor # Root)

(* GRANT: the leash binds everyone but the root, the orphan bar of the     *)
(* constitution guard binds the root too.  A grant under a live id takes   *)
(* its place.                                                              *)
GrantTo(actor, id, grantee, cover, space) ==
  LET proposed == [actions |-> cover.actions, info |-> cover.info, space |-> space] IN
  /\ actor # Root => WithinMakersReach(actor, grantee, proposed)
  /\ SpaceReaches(Mother, space)
  /\ grants' = [grants EXCEPT ![id] = [grantee |-> grantee, actions |-> cover.actions,
                                       info |-> cover.info, space |-> space]]
  /\ UNCHANGED <<parent, roles>>
  /\ Measured(actor)
  /\ moved' = (moved /\ actor # Root)

(* REVOKE of a live grant: you may take away only what you could give.     *)
(* (Revoking an id that is not live changes nothing.)                      *)
Revoke(actor, id) ==
  /\ grants[id] # None
  /\ actor # Root => WithinMakersReach(actor, grants[id].grantee, CoverOf(grants[id]))
  /\ grants' = [grants EXCEPT ![id] = None]
  /\ UNCHANGED <<parent, roles>>
  /\ Measured(actor)
  /\ moved' = (moved /\ actor # Root)

(* Mutant: referential integrity without the cycle bar. *)
CreateSpaceUnlooped(actor, s, p) ==
  /\ p \in Founded /\ s # Mother
  /\ actor # Root => ReachesSpaceStructural(actor, p, "CREATE-SPACE")
  /\ parent' = [parent EXCEPT ![s] = p]
  /\ UNCHANGED <<grants, roles>>
  /\ Measured(actor)
  /\ moved' = (actor # Root /\ (moved \/ s \in Founded))

(* CREATE-SPACE founds a space, or gives a founded one a new parent: the   *)
(* space_tree check, then the leash, which looks at the new parent only.   *)
CreateSpace(actor, s, p) ==
  /\ ~WouldCycle(s, p) /\ p \in Founded
  /\ actor # Root => ReachesSpaceStructural(actor, p, "CREATE-SPACE")
  /\ parent' = [parent EXCEPT ![s] = p]
  /\ UNCHANGED <<grants, roles>>
  /\ Measured(actor)
  /\ moved' = (actor # Root /\ (moved \/ s \in Founded))

CreateRole(actor, r, space) ==
  /\ actor # Root => ReachesSpaceStructural(actor, space, "CREATE-ROLE")
  /\ SpaceReaches(Mother, space)
  /\ roles' = [roles EXCEPT ![r] = space]
  /\ UNCHANGED <<parent, grants>>
  /\ Measured(actor)
  /\ moved' = (moved /\ actor # Root)

Act(actor) ==
  \/ \E id \in GrantIds, grantee \in Grantees, cover \in Covers, space \in SpaceIds :
       GrantTo(actor, id, grantee, cover, space)
  \/ \E id \in GrantIds : Revoke(actor, id)
  \/ \E s \in SpaceIds, p \in SpaceIds : CreateSpace(actor, s, p)
  \/ \E r \in RoleIds, space \in SpaceIds : CreateRole(actor, r, space)

Next == \E actor \in Accounts \cup {Root} : Act(actor)

Spec == Init /\ [][Next]_vars

-----------------------------------------------------------------------------
(* Properties *)

(* Every fold has its type. *)
TypeOK ==
  /\ parent \in [SpaceIds -> SpaceIds \cup {None}]
  /\ grants \in [GrantIds -> Grant \cup {None}]
  /\ roles \in [RoleIds -> SpaceIds \cup {None}]
  /\ standing \subseteq Cover
  /\ moved \in BOOLEAN

(* No chain of parents loops or ends anywhere but at the mother space      *)
(* (space_tree, the orphan bar): through any sequence of foundings and     *)
(* re-parentings, each space, and the space of each live grant and each    *)
(* role, is reached from the root.                                         *)
EveryChainEndsAtMother ==
  /\ \A s \in Founded : SpaceReaches(Mother, s)
  /\ \A g \in Live : grants[g].space \in Founded
  /\ \A r \in FoundedRoles : roles[r] \in Founded

(* Attenuation (within_makers_reach): whatever an account may do, directly *)
(* or through a role, however long the chain of grants it came by, the     *)
(* root left standing in one grant when it last acted - over that very     *)
(* territory, as long as no account has moved a space.                     *)
PowerDescends ==
  \A account \in Accounts, action \in Actions, info \in Infos, space \in Founded :
    CoversAct(account, action, info, space) =>
      \E c \in standing :
        /\ action \in c.actions /\ info \in c.info
        /\ ~moved => SpaceReaches(c.space, space)

(* Each live grant lies whole inside one cover the root left standing. *)
GrantsDescend ==
  \A g \in Live : \E c \in standing :
    /\ grants[g].actions \subseteq c.actions /\ grants[g].info \subseteq c.info
    /\ ~moved => SpaceReaches(c.space, grants[g].space)
=============================================================================
