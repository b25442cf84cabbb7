------------------------------- MODULE Access -------------------------------
(***************************************************************************)
(* Who may do what, and where: the permissions of custom roles             *)
(* (modules/roles/roles.service.ts), the roles each user holds and where   *)
(* (modules/users/users.service.ts), and the effective access that is      *)
(* computed from them and from the tree of territories and kept in Redis   *)
(* (auth/services/access.service.ts).  Every request is judged by the      *)
(* cached access.                                                          *)
(*                                                                         *)
(* A change checks before its transaction, replaces rows by deleting those *)
(* it sees and inserting its own, commits, and then drops what is cached;  *)
(* a lookup reads the database and then writes the cache.                  *)
(***************************************************************************)
EXTENDS Territories

CONSTANTS Users,
          CustomRoles,
          Permissions,
          Separated,    \* SEGREGATION_OF_DUTIES: sets of two permissions
          Assignments,  \* what may be assigned: a role, and a territory or Everywhere
          SuperAdmin,   \* the role that holds every permission; nobody edits it
          Everywhere,
          Admins,       \* those with a change of users or roles in flight
          Lookups,      \* requests that compute an access
          NoChange, NoLookup, NotCached

ASSUME AccessAssumption ==
    /\ SuperAdmin \notin CustomRoles
    /\ Everywhere \notin Territories
    /\ Assignments \subseteq
           [role : CustomRoles, root : Territories] \cup [role : {SuperAdmin}, root : {Everywhere}]
    /\ \A pair \in Separated : pair # {}

VARIABLES role,      \* each custom role: deleted or not, and its permissions
          user,      \* each user: status, and the assignments held
          cached,    \* access:user:<id>
          change,    \* what each administrator's request has read and will write
          lookup,    \* the access a request has computed and not yet cached
          excused,   \* history: the users whose cached access nothing will drop
          merged,    \* history: roles two updates of which were mixed up
          abdicated  \* history: two withdrawals of super administrators overlapped

accessVars == <<role, user, cached, change, lookup, excused, merged, abdicated>>

(* What findSegregationViolations() has nothing to say of.                 *)
Grants == {grants \in SUBSET Permissions : \A pair \in Separated : ~(pair \subseteq grants)}

Role == [gone : BOOLEAN, grants : SUBSET Permissions]
User == [status : {"ACTIVE", "SUSPENDED", "DELETED"}, has : SUBSET Assignments]

EffectiveAccess ==
    [permissions : SUBSET Permissions, global : BOOLEAN, territories : SUBSET Territories]

Steps == {"ASKED", "CLEARED", "COMMITTED"}

RoleChange == [kind : {"GRANTS", "DROP"}, step : Steps, of : CustomRoles, rows : Grants,
               saw : SUBSET Permissions, crossed : BOOLEAN]
UserChange == [kind : {"ROLES", "ACTIVE", "SUSPENDED", "DELETED"}, step : Steps, of : Users,
               rows : SUBSET Assignments, saw : SUBSET Assignments, crossed : BOOLEAN]
Change     == RoleChange \cup UserChange

ASSUME NoChangeAssumption == NoChange \notin Change

IsSuper(u)  == \E h \in user[u].has : h.role = SuperAdmin
Rules(u)    == IsSuper(u) /\ user[u].status = "ACTIVE"

(* There is no territory yet, and the seed has made a super administrator. *)
AccessInit ==
    /\ role \in [CustomRoles -> [gone : {FALSE}, grants : Grants]]
    /\ user \in [Users -> [status : {"ACTIVE"},
                           has : SUBSET {h \in Assignments : h.root = Everywhere}]]
    /\ \E u \in Users : Rules(u)
    /\ cached = [u \in Users |-> NotCached]
    /\ change = [a \in Admins |-> NoChange]
    /\ lookup = [l \in Lookups |-> NoLookup]
    /\ excused = {}
    /\ merged = {}
    /\ abdicated = FALSE

(***************************************************************************)
(* The effective access                                                    *)
(***************************************************************************)
(* What of a user's assignments counts: "if (assignment.role.deletedAt)    *)
(* continue".                                                              *)
Counting(u) == {h \in user[u].has : h.role = SuperAdmin \/ ~role[h.role].gone}

GrantedBy(r) == IF r = SuperAdmin THEN Permissions ELSE role[r].grants

(* expandTerritorySubtrees(): if every root is gone, the roots themselves. *)
Expand(roots) ==
    LET standing == {t \in roots : Exists(t)} IN
        IF standing = {} THEN roots ELSE UNION {SubtreeAt(node[t].path) : t \in standing}

(* computeFromDatabase().                                                  *)
AccessOf(u) ==
    [permissions |-> UNION {GrantedBy(h.role) : h \in Counting(u)},
     global      |-> \E h \in Counting(u) : h.role = SuperAdmin,
     territories |-> Expand({h.root : h \in Counting(u)} \ {Everywhere})]

IsCached(u) == cached[u] # NotCached
Outdated(u) == IsCached(u) /\ cached[u] # AccessOf(u)

(* What becomes outdated now, and what still is, has no one to drop it.    *)
NobodyDrops == excused' = excused \cup {u \in Users : Outdated(u)'}

Drops(users) ==
    /\ cached' = [u \in Users |-> IF u \in users THEN NotCached ELSE cached[u]]
    /\ excused' = excused \ users

(***************************************************************************)
(* Lookups: resolve() after a miss, and resolveFresh() in any case         *)
(***************************************************************************)
Compute(l, u) ==
    /\ lookup[l] = NoLookup
    /\ user[u].status # "DELETED"
    /\ lookup' = [lookup EXCEPT ![l] = [of |-> u, access |-> AccessOf(u)]]
    /\ UNCHANGED <<role, user, cached, change, excused, merged, abdicated>>

(* What a change has overtaken is stored after it was dropped, and stays.  *)
Store(l) ==
    LET u == lookup[l].of IN
        /\ lookup[l] # NoLookup
        /\ cached' = [cached EXCEPT ![u] = lookup[l].access]
        /\ excused' = IF lookup[l].access = AccessOf(u) THEN excused \ {u} ELSE excused \cup {u}
        /\ lookup' = [lookup EXCEPT ![l] = NoLookup]
        /\ UNCHANGED <<role, user, change, merged, abdicated>>

(* CACHE_TTL_REFERENCE has passed.                                         *)
LapseCached(u) ==
    /\ IsCached(u)
    /\ Drops({u})
    /\ UNCHANGED <<role, user, change, lookup, merged, abdicated>>

(***************************************************************************)
(* Changes, before their transaction                                       *)
(***************************************************************************)
Changing(a) == change[a] # NoChange

Deciding(a, c) ==
    /\ ~Changing(a)
    /\ change' = [change EXCEPT ![a] = c]
    /\ UNCHANGED <<role, user, cached, lookup, excused, merged, abdicated>>

(* Mutant: any other super administrator will do, suspended or not.        *)
AnyOther(u, has) ==
    IsSuper(u) /\ ~(\E h \in has : h.role = SuperAdmin) => \E v \in Users \ {u} : IsSuper(v)

(* assertNotLastSuperAdmin().                                              *)
AnotherRules(u, has) ==
    IsSuper(u) /\ ~(\E h \in has : h.role = SuperAdmin) => \E v \in Users \ {u} : Rules(v)

NewChange(kind, of, rows) ==
    [kind |-> kind, step |-> "ASKED", of |-> of, rows |-> rows, saw |-> {}, crossed |-> FALSE]

(* setRoles(): every role must be there, with the scope it is made for.    *)
AskRoles(a, u, has) ==
    /\ user[u].status # "DELETED"
    /\ has \subseteq Assignments
    /\ \A h \in has : h.role # SuperAdmin => ~role[h.role].gone /\ node[h.root].state # "NONE"
    /\ AnotherRules(u, has)
    /\ Deciding(a, NewChange("ROLES", u, has))

(* suspend(), reactivate() and remove().                                   *)
AskStatus(a, u, status) ==
    /\ user[u].status # "DELETED"
    /\ status # "ACTIVE" => AnotherRules(u, {})
    /\ Deciding(a, NewChange(status, u, {}))

(* update() of a role: "breaks segregation of duties" is refused.          *)
AskGrants(a, r, grants) ==
    /\ ~role[r].gone
    /\ grants \in Grants
    /\ Deciding(a, NewChange("GRANTS", r, grants))

(* remove() of a role that nobody holds.                                   *)
AskDrop(a, r) ==
    /\ ~role[r].gone
    /\ \A u \in Users : \A h \in user[u].has : h.role # r
    /\ Deciding(a, NewChange("DROP", r, {}))

(***************************************************************************)
(* Changes, in their transaction                                           *)
(***************************************************************************)
Replacing(c) == c.kind \in {"ROLES", "GRANTS"}
RowsOf(c)    == IF c.kind = "ROLES" THEN user[c.of].has ELSE role[c.of].grants

(* deleteMany() deletes the rows that were committed when it began: those  *)
(* another transaction has inserted and not committed are not among them.  *)
ClearRows(a) ==
    LET c == change[a] IN
        /\ Changing(a) /\ c.step = "ASKED" /\ Replacing(c)
        /\ change' = [change EXCEPT ![a].step = "CLEARED", ![a].saw = RowsOf(c)]
        /\ UNCHANGED <<role, user, cached, lookup, excused, merged, abdicated>>

(* What was committed since by another is still there.                     *)
Survivors(c) == RowsOf(c) \ c.saw

(* The target is not deleted, and no row is there twice: the NULL in a     *)
(* global assignment's scope equals no other.                              *)
Appliable(c) ==
    IF Replacing(c)
    THEN /\ c.step = "CLEARED"
         /\ IF c.kind = "ROLES" THEN user[c.of].status # "DELETED" ELSE ~role[c.of].gone
         /\ \A h \in Survivors(c) \cap c.rows : c.kind = "ROLES" /\ h.root = Everywhere
    ELSE /\ c.step = "ASKED"
         /\ IF c.kind = "DROP" THEN ~role[c.of].gone ELSE user[c.of].status # "DELETED"

Withdraws(c) ==
    \/ c.kind \in {"SUSPENDED", "DELETED"}
    \/ c.kind = "ROLES" /\ ~\E h \in c.rows : h.role = SuperAdmin

(* The changes in flight after one of them: a super administrator less is  *)
(* not what the others have counted on, and the rows it deleted are not    *)
(* theirs to delete.                                                       *)
Overtaking(a) ==
    LET c == change[a]
        fewer == Withdraws(c) /\ Rules(c.of)
    IN [b \in Admins |->
           IF b = a THEN IF c.kind = "DROP" THEN NoChange ELSE [c EXCEPT !.step = "COMMITTED"]
           ELSE IF ~Changing(b) \/ change[b].step = "COMMITTED" THEN change[b]
           ELSE [change[b] EXCEPT
                    !.crossed = @ \/ (fewer /\ Withdraws(change[b])),
                    !.saw = IF change[b].kind = c.kind /\ change[b].of = c.of THEN @ \ c.saw
                            ELSE @]]

(* COMMIT.  Removing a role drops nothing of what is cached.               *)
CommitChange(a) ==
    LET c == change[a]
        rows == Survivors(c) \cup c.rows
    IN  /\ Changing(a)
        /\ Appliable(c)
        /\ role' = CASE c.kind = "GRANTS" -> [role EXCEPT ![c.of].grants = rows]
                     [] c.kind = "DROP"   -> [role EXCEPT ![c.of].gone = TRUE]
                     [] OTHER             -> role
        /\ user' = CASE c.kind = "ROLES"  -> [user EXCEPT ![c.of].has = rows]
                     [] c.kind \in {"GRANTS", "DROP"} -> user
                     [] OTHER             -> [user EXCEPT ![c.of].status = c.kind]
        /\ change' = Overtaking(a)
        /\ merged' = IF c.kind = "GRANTS" /\ Survivors(c) # {} THEN merged \cup {c.of} ELSE merged
        /\ abdicated' = (abdicated \/ c.crossed)
        /\ UNCHANGED <<cached, lookup>>
        /\ IF c.kind = "DROP" THEN NobodyDrops ELSE UNCHANGED excused

(* A statement fails, or the process stops, before COMMIT.                 *)
DropChange(a) ==
    /\ Changing(a) /\ change[a].step # "COMMITTED"
    /\ change' = [change EXCEPT ![a] = NoChange]
    /\ UNCHANGED <<role, user, cached, lookup, excused, merged, abdicated>>

(* invalidate() of the user, or invalidateAll() for a role.                *)
Affected(c) == IF c.kind = "GRANTS" THEN Users ELSE {c.of}

(* Redis cannot be reached, or the process has stopped.                    *)
NotInvalidated == UNCHANGED cached /\ NobodyDrops

EndChange(a) ==
    /\ Changing(a) /\ change[a].step = "COMMITTED"
    /\ change' = [change EXCEPT ![a] = NoChange]
    /\ UNCHANGED <<role, user, lookup, merged, abdicated>>
    /\ Drops(Affected(change[a])) \/ NotInvalidated

(***************************************************************************)
(* The tree, on which the scopes stand                                     *)
(***************************************************************************)
(* create() drops nothing of what is cached.                               *)
EditTree(e) ==
    /\ EditStep(e)
    /\ UNCHANGED <<role, user, cached, change, lookup, merged, abdicated>>
    /\ IF node' # node /\ edit'[e] = NoEdit THEN NobodyDrops ELSE UNCHANGED excused

EndTree(e) ==
    /\ EndEdit(e)
    /\ UNCHANGED <<role, user, change, lookup, merged, abdicated>>
    /\ Drops(Users) \/ NotInvalidated

ChangeStep(a) ==
    \/ \E u \in Users, has \in SUBSET Assignments : AskRoles(a, u, has)
    \/ \E u \in Users, status \in {"ACTIVE", "SUSPENDED", "DELETED"} : AskStatus(a, u, status)
    \/ \E r \in CustomRoles, grants \in Grants : AskGrants(a, r, grants)
    \/ \E r \in CustomRoles : AskDrop(a, r)
    \/ ClearRows(a) \/ CommitChange(a) \/ DropChange(a) \/ EndChange(a)

CacheStep ==
    \/ \E l \in Lookups : Store(l) \/ \E u \in Users : Compute(l, u)
    \/ \E u \in Users : LapseCached(u)

AccessNext ==
    \/ UNCHANGED treeVars /\ (CacheStep \/ \E a \in Admins : ChangeStep(a))
    \/ \E e \in Editors : EditTree(e) \/ EndTree(e)

AccessSpec == TreeInit /\ AccessInit /\ [][AccessNext]_<<treeVars, accessVars>>

(***************************************************************************)
(* Properties                                                              *)
(***************************************************************************)
(* Every variable holds a value of its kind.                               *)
AccessTypeOK ==
    /\ role \in [CustomRoles -> Role]
    /\ user \in [Users -> User]
    /\ cached \in [Users -> EffectiveAccess \cup {NotCached}]
    /\ change \in [Admins -> Change \cup {NoChange}]
    /\ lookup \in [Lookups -> [of : Users, access : EffectiveAccess] \cup {NoLookup}]
    /\ excused \subseteq Users
    /\ merged \subseteq CustomRoles
    /\ abdicated \in BOOLEAN

(* "Two permissions that must not be held by the same role": checked on    *)
(* what each request asks for, it is true of what the rows grant, unless   *)
(* two updates of the role have been mixed into one.                       *)
DutiesAreSeparated ==
    \A r \in CustomRoles \ merged : \A pair \in Separated : ~(pair \subseteq role[r].grants)

(* "one careless role change locks everyone out of the system              *)
(* permanently": whatever is suspended, deleted and reassigned, an active  *)
(* super administrator is left, unless two withdrawals overlapped.         *)
SomebodyRules == abdicated \/ \E u \in Users : Rules(u)

(* What will drop the cached access of this user.                          *)
WillDrop(u) ==
    \/ \E a \in Admins : /\ Changing(a) /\ change[a].step = "COMMITTED"
                         /\ u \in Affected(change[a])
    \/ \E e \in Editors : At(e, "COMMITTED")

(* "a revoked permission would keep working": the access a request is      *)
(* judged by is what the roles and the tree give now, or is about to be    *)
(* dropped; unless a lookup overtaken by a change has stored it, what      *)
(* would have dropped it was lost, or it misses a territory just created   *)
(* or a role just removed.                                                 *)
AccessIsCurrent ==
    \A u \in Users \ excused : Outdated(u) => WillDrop(u)

(* Who may do what: the roles keep the duties apart, somebody can still    *)
(* administer, and what is cached agrees with them.                        *)
AuthorityHolds ==
    /\ AccessTypeOK
    /\ DutiesAreSeparated
    /\ SomebodyRules
    /\ AccessIsCurrent
=============================================================================
