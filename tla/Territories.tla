---------------------------- MODULE Territories ----------------------------
(***************************************************************************)
(* The tree of territories (modules/territories/territories.service.ts and *)
(* territory-path.ts) and, by the same code, of categories                 *)
(* (modules/catalog/categories.service.ts).  Each row names its parent and *)
(* carries the path of ids from its root down to itself, by which every    *)
(* scope check finds a subtree.                                            *)
(*                                                                         *)
(* An edit reads what it needs before its transaction; a move then finds   *)
(* the rows to rewrite by one statement and writes them by id, each with   *)
(* the path it was found with.  Nothing locks the parent or the tree.      *)
(***************************************************************************)
EXTENDS Naturals, SequencesExt

CONSTANTS Territories,
          Editors,   \* those with an edit of the tree in flight
          NoParent,  \* the parent of a root
          NoEdit

ASSUME TerritoriesAssumption == NoParent \notin Territories

VARIABLES node,   \* one row per territory
          edit,   \* what each edit in flight has read
          misled  \* history: an edit was committed that had read what no longer held

treeVars == <<node, edit, misled>>

EditKinds == {"CREATE", "MOVE", "REMOVE"}

TreeInit ==
    /\ node = [t \in Territories |-> [state |-> "NONE", parent |-> NoParent, path |-> <<>>]]
    /\ edit = [e \in Editors |-> NoEdit]
    /\ misled = FALSE

Exists(t)  == node[t].state = "LIVE"
Editing(e) == edit[e] # NoEdit
At(e, step) == Editing(e) /\ edit[e].step = step

(* buildPath(): below the parent's path, the node itself.                  *)
PathOf(p) == IF p = NoParent THEN <<>> ELSE node[p].path
BuildPath(above, t) == Append(above, t)

(* The separators make one id no prefix of another, so that a path begins  *)
(* with another as sequences of ids do.                                    *)
WouldCreateCycle(path, target) == IsPrefix(path, target)

(* rewritePath(), of a path that begins with the old one.                  *)
RewritePath(path, old, new) == new \o SubSeq(path, Len(old) + 1, Len(path))

(* Mutant: the node is rewritten, and not what is below it.                *)
NodeOnly(path) == {t \in Territories : Exists(t) /\ node[t].path = path}

(* What findMany({path: {startsWith}}) returns of the rows not deleted.    *)
SubtreeAt(path) == {t \in Territories : Exists(t) /\ IsPrefix(path, node[t].path)}

(* _count.children: the filter of deleted rows does not reach into it.     *)
Children(t) == {c \in Territories : node[c].state # "NONE" /\ node[c].parent = t}

(***************************************************************************)
(* Before the transaction                                                  *)
(***************************************************************************)
Begin(e, kind, t, p) ==
    /\ ~Editing(e)
    /\ edit' = [edit EXCEPT ![e] =
           [kind |-> kind, step |-> "LOADED", id |-> t, parent |-> p,
            above |-> PathOf(p), old |-> node[t].path, found |-> <<>>]]
    /\ UNCHANGED <<node, misled>>

(* The id is drawn at the insert: two creations never have the same.       *)
AskCreate(e, t, p) ==
    /\ node[t].state = "NONE"
    /\ \A f \in Editors : Editing(f) => edit[f].id # t
    /\ p # NoParent => Exists(p)
    /\ Begin(e, "CREATE", t, p)

AskMove(e, t, p) ==
    /\ Exists(t)
    /\ p # t
    /\ p # NoParent => Exists(p) /\ ~WouldCreateCycle(node[t].path, node[p].path)
    /\ Begin(e, "MOVE", t, p)

(* A territory that has warehouses, or a category with products, is        *)
(* refused as well: who is left to ask has none.                           *)
AskRemove(e, t) ==
    /\ Exists(t)
    /\ Children(t) = {}
    /\ Begin(e, "REMOVE", t, NoParent)

(***************************************************************************)
(* The transaction                                                         *)
(***************************************************************************)
(* move(): the subtree is read by the path the node had before it began.   *)
FindSubtree(e) ==
    /\ At(e, "LOADED")
    /\ edit[e].kind = "MOVE"
    /\ edit' = [edit EXCEPT ![e].step = "FOUND",
                            ![e].found = [t \in SubtreeAt(edit[e].old) |-> node[t].path]]
    /\ UNCHANGED <<node, misled>>

(* What the edit has read holds still, as if nobody had come between.      *)
StillTrue(x) ==
    /\ x.kind # "REMOVE" /\ x.parent # NoParent =>
           Exists(x.parent) /\ node[x.parent].path = x.above
    /\ x.kind = "MOVE" =>
           /\ node[x.id].path = x.old
           /\ x.found = [t \in SubtreeAt(x.old) |-> node[t].path]
    /\ x.kind = "REMOVE" => \A c \in Children(x.id) : ~Exists(c)

Created(x) ==
    [node EXCEPT ![x.id] = [state |-> "LIVE", parent |-> x.parent,
                            path |-> BuildPath(x.above, x.id)]]

(* Every row that was found is written by its id, and the node's parent.   *)
Moved(x) ==
    [t \in Territories |->
        [node[t] EXCEPT
            !.path = IF t \in DOMAIN x.found
                     THEN RewritePath(x.found[t], x.old, BuildPath(x.above, x.id)) ELSE @,
            !.parent = IF t = x.id THEN x.parent ELSE @]]

Removed(x) == [node EXCEPT ![x.id].state = "GONE"]

(* An update of a row that has been deleted throws, and all is undone.     *)
Writable(x) ==
    CASE x.kind = "CREATE" -> x.step = "LOADED"
      [] x.kind = "MOVE"   -> x.step = "FOUND" /\ \A t \in {x.id} \cup DOMAIN x.found : Exists(t)
      [] x.kind = "REMOVE" -> x.step = "LOADED" /\ Exists(x.id)

(* The transaction commits; but for a creation, every cached access is     *)
(* then dropped by invalidateAll().                                        *)
CommitEdit(e) ==
    LET x == edit[e] IN
        /\ Editing(e)
        /\ Writable(x)
        /\ node' = CASE x.kind = "CREATE" -> Created(x)
                     [] x.kind = "MOVE"   -> Moved(x)
                     [] x.kind = "REMOVE" -> Removed(x)
        /\ edit' = [edit EXCEPT ![e] =
               IF x.kind = "CREATE" THEN NoEdit ELSE [@ EXCEPT !.step = "COMMITTED"]]
        /\ misled' = (misled \/ ~StillTrue(x))

(* The process stops, or a statement fails, before COMMIT.                 *)
DropEdit(e) ==
    /\ At(e, "LOADED") \/ At(e, "FOUND")
    /\ edit' = [edit EXCEPT ![e] = NoEdit]
    /\ UNCHANGED <<node, misled>>

(* The caches have been dropped, or could not be.                          *)
EndEdit(e) ==
    /\ At(e, "COMMITTED")
    /\ edit' = [edit EXCEPT ![e] = NoEdit]
    /\ UNCHANGED <<node, misled>>

EditStep(e) ==
    \/ \E t \in Territories, p \in Territories \cup {NoParent} :
           AskCreate(e, t, p) \/ AskMove(e, t, p)
    \/ \E t \in Territories : AskRemove(e, t)
    \/ FindSubtree(e) \/ CommitEdit(e) \/ DropEdit(e)

TreeNext == \E e \in Editors : EditStep(e) \/ EndEdit(e)

TreeSpec == TreeInit /\ [][TreeNext]_treeVars

(***************************************************************************)
(* Properties                                                              *)
(***************************************************************************)
(* Every variable holds a value of its kind.                               *)
TreeTypeOK ==
    /\ \A t \in Territories :
           /\ node[t].state \in {"NONE", "LIVE", "GONE"}
           /\ node[t].parent \in Territories \cup {NoParent}
           /\ \A i \in DOMAIN node[t].path : node[t].path[i] \in Territories
    /\ \A e \in Editors : Editing(e) =>
           /\ edit[e].kind \in EditKinds
           /\ edit[e].step \in {"LOADED", "FOUND", "COMMITTED"}
    /\ misled \in BOOLEAN

(* Whatever overlaps, a path leads to the node that carries it.            *)
PathsEndInTheirNode ==
    \A t \in Territories : Exists(t) => node[t].path # <<>> /\ Last(node[t].path) = t

(* The path is the parent's path and the node: so there is no cycle, and   *)
(* nothing hangs on what was removed.                                      *)
PathsFollowParents ==
    \A t \in Territories : Exists(t) =>
        LET p == node[t].parent IN
            /\ p # NoParent => Exists(p)
            /\ node[t].path = BuildPath(PathOf(p), t)

(* "Assigning someone the West zone must mean the zone AND every territory *)
(* under it": the prefix finds what the links of the rows lead to.         *)
ScopesAreSubtrees ==
    \A t \in Territories : Exists(t) =>
        LET scope == SubtreeAt(node[t].path) IN
            scope = {s \in Territories : Exists(s) /\ (s = t \/ node[s].parent \in scope)}

(* "A partially-rewritten tree [...] corrupts every scope check that       *)
(* consults it": the tree is whole, unless an edit was committed on        *)
(* readings another had made untrue.                                       *)
TreeHolds ==
    /\ TreeTypeOK
    /\ PathsEndInTheirNode
    /\ ~misled => PathsFollowParents /\ ScopesAreSubtrees
=============================================================================
