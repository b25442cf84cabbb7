------------------------------- MODULE Products ------------------------------
(***************************************************************************)
(* Products (apps/api/src/modules/catalog/products.service.ts): what a     *)
(* line of a quotation was priced on is kept as a revision when it         *)
(* changes; and kits, the bill of materials of product-relations.service.ts*)
(* with the walk that refuses a cycle.                                     *)
(*                                                                         *)
(* A task has read what it checks before its transaction, which then       *)
(* writes by id; unique indexes and the CHECKs of migration 0006 are       *)
(* guards of the commit they refuse.                                       *)
(***************************************************************************)
EXTENDS Integers, FiniteSetsExt, SequencesExt

CONSTANTS Products,
          Editors,       \* concurrent API requests
          Terms,         \* values of what is not the type or a tax code
          MaxRevisions,  \* bound on the revisions of a product
          MaxDepth,      \* MAX_BOM_DEPTH
          Portions,      \* quantities of a component
          MaxEntries,    \* bound on the rows of product_bom
          NoTask,
          Unstated       \* a field that a request leaves alone

ASSUME ProductsAssumption ==
    /\ MaxRevisions \in Nat \ {0}
    /\ MaxDepth \in Nat \ {0}
    /\ Portions \subseteq Nat \ {0}
    /\ MaxEntries \in Nat

VARIABLES product,   \* product rows
          snapshot,  \* product_revision: per product, before-images by revision
          bom,       \* product_bom rows
          task,      \* what each request has read and is about to commit
          worn,      \* history: what a product was while it had a revision
          restored,  \* history: products set back to what was loaded, unnoticed
          mixed,     \* history: products two edits of which overlapped
          unseen     \* history: entries that an overtaken check did not see

productVars == <<product, snapshot, bom, task, worn, restored, mixed, unseen>>

Types    == {"GOODS", "SERVICE"}
CodeOf   == [GOODS |-> "HSN", SERVICE |-> "SAC"]
Fields   == {"type", "codes", "terms", "tags"}
Triggers == Fields \ {"tags"}

(* No code can be taken away again; what a request states fits together.   *)
Edits == {e \in [type  : Types \cup {Unstated},
                 code  : {"HSN", "SAC", Unstated},
                 terms : Terms \cup {Unstated},
                 tags  : Terms \cup {Unstated}] :
             \/ Unstated \in {e.type, e.code}
             \/ e.code = CodeOf[e.type]}

Stated(value, old) == IF value = Unstated THEN old ELSE value

Written(data, e) ==
    [type  |-> Stated(e.type, data.type),
     codes |-> data.codes \cup ({e.code} \ {Unstated}),
     terms |-> Stated(e.terms, data.terms),
     tags  |-> Stated(e.tags, data.tags)]

(* assertTaxClassification().                                              *)
Classified(data) == data.codes \subseteq {CodeOf[data.type]}

(* The CHECKs on a row.                                                    *)
Storable(status, data) ==
    status # "DRAFT" => /\ Cardinality(data.codes) = 1
                        /\ data.type = "SERVICE" => "SAC" \in data.codes

MayBecome(from, to) ==
    \/ from = "DRAFT" /\ to \in {"ACTIVE", "ARCHIVED"}
    \/ from = "ACTIVE" /\ to \in {"DISCONTINUED", "ARCHIVED"}
    \/ from = "DISCONTINUED" /\ to \in {"ACTIVE", "ARCHIVED"}

Significant(data) == [f \in Triggers |-> data[f]]

NewProduct(type, terms) ==
    [status |-> "DRAFT", gone |-> FALSE, revision |-> 1,
     data |-> [type |-> type, codes |-> {}, terms |-> terms, tags |-> terms]]

ProductInit ==
    /\ product \in [Products -> {NewProduct(type, terms) : type \in Types, terms \in Terms}]
    /\ snapshot = [p \in Products |-> << >>]
    /\ bom = {}
    /\ task = [t \in Editors |-> NoTask]
    /\ worn = [p \in Products |-> {<<1, Significant(product[p].data)>>}]
    /\ restored = {}
    /\ mixed = {}
    /\ unseen = {}

Idle(t)       == task[t] = NoTask
Doing(t, act) == ~Idle(t) /\ task[t].act = act
Others(act, ps) ==
    {t \in Editors : Doing(t, act) /\ task[t].on \cap ps # {}}

Begin(t, r) == Idle(t) /\ task' = [task EXCEPT ![t] = r]

(* The task is over, and has overtaken others.                             *)
Finish(t, overtaken) ==
    task' = [u \in Editors |->
                IF u = t THEN NoTask
                ELSE IF u \in overtaken THEN [task[u] EXCEPT !.overtaken = TRUE]
                ELSE task[u]]

(***************************************************************************)
(* Products and their revisions                                            *)
(***************************************************************************)
LoadEdit(t, p, e) ==
    /\ ~product[p].gone
    /\ Classified(Written(product[p].data, e))
    /\ Begin(t, [act |-> "EDIT", on |-> {p}, edit |-> e, before |-> product[p].data,
                 revision |-> product[p].revision, overtaken |-> FALSE])
    /\ UNCHANGED <<product, snapshot, bom, worn, restored, mixed, unseen>>

(* Told by comparison with what was loaded.                                *)
Changed(t, data) == {f \in Fields : data[f] # task[t].before[f]}

BeforeImage(t, data) == [f \in Changed(t, data) |-> task[t].before[f]]

(* Mutant: no unique index on (product_id, revision).                      *)
NumberUnguarded(t, p) == TRUE

NumberIsFree(t, p) == task[t].revision \notin DOMAIN snapshot[p]

Edit(t, p) ==
    LET data == Written(product[p].data, task[t].edit)
        cuts == Changed(t, data) \cap Triggers # {}
        next == product[p].revision + (IF cuts THEN 1 ELSE 0)
    IN /\ Storable(product[p].status, data)
       /\ cuts => NumberIsFree(t, p) /\ next <= MaxRevisions
       /\ product' = [product EXCEPT ![p].data = data, ![p].revision = next]
       /\ snapshot' = IF cuts
                      THEN [snapshot EXCEPT ![p] =
                               [r \in DOMAIN @ \cup {task[t].revision} |->
                                   IF r = task[t].revision THEN BeforeImage(t, data) ELSE @[r]]]
                      ELSE snapshot
       /\ worn' = [worn EXCEPT ![p] = @ \cup {<<next, Significant(data)>>}]
       /\ restored' = restored \cup
              {q \in {p} : ~cuts /\ Significant(data) # Significant(product[p].data)}
       /\ mixed' = mixed \cup {q \in {p} : task[t].overtaken}

CommitEdit(t) ==
    /\ Doing(t, "EDIT")
    /\ \E p \in task[t].on : Edit(t, p) /\ Finish(t, Others("EDIT", {p}))
    /\ UNCHANGED <<bom, unseen>>

(* changeStatus().                                                         *)
LoadStatus(t, p, to) ==
    /\ ~product[p].gone
    /\ MayBecome(product[p].status, to)
    /\ to = "ACTIVE" => product[p].data.codes # {} /\ Classified(product[p].data)
    /\ Begin(t, [act |-> "STATUS", on |-> {p}, to |-> to, overtaken |-> FALSE])
    /\ UNCHANGED <<product, snapshot, bom, worn, restored, mixed, unseen>>

ChangeStatus(t) ==
    /\ Doing(t, "STATUS")
    /\ \E p \in task[t].on :
           /\ Storable(task[t].to, product[p].data)
           /\ product' = [product EXCEPT ![p].status = task[t].to]
    /\ Finish(t, {})
    /\ UNCHANGED <<snapshot, bom, worn, restored, mixed, unseen>>

(***************************************************************************)
(* Kits                                                                    *)
(***************************************************************************)
PartsOf(ps)  == {e \in bom : e.parent \in ps}
UsesOf(c)    == {e \in bom : e.component = c}
Key(e)       == <<e.parent, e.component>>

(* What lies n levels below a product.                                     *)
LevelsBelow(entries, p) ==
    LET level[n \in 0..MaxDepth + 1] ==
            IF n = 0 THEN {p}
            ELSE {e.component : e \in {f \in entries : f.parent \in level[n - 1]}}
    IN level

(* Mutant: the walk looks at one level.                                    *)
DirectlyBuiltFrom(c, p) == p \in LevelsBelow(bom, c)[1]

(* assertNoCycle(): the walk goes MaxDepth levels down.                    *)
BuiltFrom(c, p) == \E n \in 1..MaxDepth : p \in LevelsBelow(bom, c)[n]

LoadComponent(t, p, c, portion) ==
    /\ p # c /\ ~product[p].gone /\ ~product[c].gone
    /\ ~BuiltFrom(c, p)
    /\ \A e \in bom : Key(e) # <<p, c>>
    /\ Begin(t, [act |-> "ADD", on |-> {p, c}, overtaken |-> FALSE,
                 entry |-> [parent |-> p, component |-> c, portion |-> portion]])
    /\ UNCHANGED <<product, snapshot, bom, worn, restored, mixed, unseen>>

CommitComponent(t) ==
    /\ Doing(t, "ADD")
    /\ Cardinality(bom) < MaxEntries
    /\ \A e \in bom : Key(e) # Key(task[t].entry)
    /\ bom' = bom \cup {task[t].entry}
    /\ unseen' = unseen \cup {Key(e) : e \in {f \in {task[t].entry} : task[t].overtaken}}
    /\ Finish(t, Others("ADD", Products) \cup Others("REMOVE", {task[t].entry.component}))
    /\ UNCHANGED <<product, snapshot, worn, restored, mixed>>

RemoveComponent(e) ==
    /\ bom' = bom \ {e}
    /\ unseen' = unseen \ {Key(e)}
    /\ UNCHANGED <<product, snapshot, task, worn, restored, mixed>>

(* remove(): not while the product is a component.                         *)
LoadRemove(t, p) ==
    /\ ~product[p].gone
    /\ UsesOf(p) = {}
    /\ Begin(t, [act |-> "REMOVE", on |-> {p}, overtaken |-> FALSE])
    /\ UNCHANGED <<product, snapshot, bom, worn, restored, mixed, unseen>>

CommitRemove(t) ==
    /\ Doing(t, "REMOVE")
    /\ \E p \in task[t].on :
           /\ product' = [product EXCEPT ![p].gone = TRUE]
           /\ unseen' = unseen \cup {Key(e) : e \in {f \in UsesOf(p) : task[t].overtaken}}
           /\ Finish(t, Others("ADD", {p}))
    /\ UNCHANGED <<snapshot, bom, worn, restored, mixed>>

(* A check under the commit refuses, or the process dies.                  *)
Withdraw(t) ==
    /\ ~Idle(t)
    /\ Finish(t, {})
    /\ UNCHANGED <<product, snapshot, bom, worn, restored, mixed, unseen>>

ProductStep(t) ==
    \/ \E p \in Products :
           \/ \E e \in Edits : LoadEdit(t, p, e)
           \/ \E to \in {"ACTIVE", "DISCONTINUED", "ARCHIVED"} : LoadStatus(t, p, to)
    \/ CommitEdit(t) \/ ChangeStatus(t)

KitStep(t) ==
    \/ \E p, c \in Products, portion \in Portions : LoadComponent(t, p, c, portion)
    \/ \E p \in Products : LoadRemove(t, p)
    \/ CommitComponent(t) \/ CommitRemove(t)

ProductNext ==
    \/ \E t \in Editors : ProductStep(t) \/ KitStep(t) \/ Withdraw(t)
    \/ \E e \in bom : RemoveComponent(e)

ProductSpec == ProductInit /\ [][ProductNext]_productVars

(***************************************************************************)
(* explode()                                                               *)
(***************************************************************************)
(* The lines at each depth, the quantity multiplied on the way down.       *)
Explosion(p) ==
    LET lines[n \in 0..MaxDepth] ==
            IF n = 0 THEN {[path |-> <<p>>, total |-> 1]}
            ELSE UNION {{[path  |-> Append(l.path, e.component),
                          total |-> l.total * e.portion] : e \in PartsOf({Last(l.path)})} :
                            l \in lines[n - 1]}
    IN lines

(* A chain is refused at MaxDepth, one short of what the message says.     *)
Refused(lines) ==
    \E n \in 1..MaxDepth : \E l \in lines[n] : n = MaxDepth \/ ~IsInjective(l.path)

Total(lines, c) ==
    LET found == {l \in UNION {lines[n] : n \in 1..MaxDepth} : Last(l.path) = c}
    IN SumFunctionOnSet([l \in found |-> l.total], found)

(***************************************************************************)
(* Properties                                                              *)
(***************************************************************************)
(* What each revision was, told from the row and the before-images: a      *)
(* field was what the next change of it found.                             *)
ChangesFrom(p, r, f) ==
    {s \in r..(product[p].revision - 1) : f \in DOMAIN snapshot[p][s]}

Told(p) ==
    [r \in 1..product[p].revision |->
        [f \in Triggers |-> IF ChangesFrom(p, r, f) = {} THEN product[p].data[f]
                            ELSE snapshot[p][Min(ChangesFrom(p, r, f))][f]]]

(* "a quotation raised earlier can still be explained against what the     *)
(* product was" (products.service.ts:439): the revisions of a product have *)
(* no gap, and the one a line was priced on tells all that the product was *)
(* at that time, whatever edits overlapped - unless one put back just what *)
(* it had loaded, which is taken for no change.  What is in force has one  *)
(* tax code, of the kind of the product unless two edits overlapped.       *)
RevisionsExplain ==
    \A p \in Products :
        /\ DOMAIN snapshot[p] = 1..(product[p].revision - 1)
        /\ p \notin restored => \A w \in worn[p] : w[2] = Told(p)[w[1]]
        /\ product[p].status # "DRAFT" =>
               /\ Cardinality(product[p].data.codes) = 1
               /\ p \notin mixed => Classified(product[p].data)

(* What a kit needs of a component, counted from below.                    *)
Needed(p, c) ==
    LET Of(below, e) == e.portion * (below[e.component] + (IF e.component = c THEN 1 ELSE 0))
        need[n \in 0..MaxDepth] ==
            [q \in Products |->
                IF n = 0 THEN 0
                ELSE SumFunctionOnSet([e \in PartsOf({q}) |-> Of(need[n - 1], e)], PartsOf({q}))]
    IN need[MaxDepth][p]

(* "only a full graph walk can catch A -> B -> A"                          *)
(* (product-relations.service.ts:224): every cycle within its reach has an entry whose walk another one  *)
(* overtook, no product that is gone is a component except by such an      *)
(* overlap, a product is a component of another once, and what explode()   *)
(* answers is what the kit needs.                                          *)
KitsHold ==
    LET seen == {e \in bom : Key(e) \notin unseen}
        kits == {e.parent : e \in bom}
    IN /\ \A p \in kits : LET below == LevelsBelow(seen, p)
                         IN \A n \in 1..MaxDepth + 1 : p \notin below[n]
       /\ \A e \in seen : ~product[e.component].gone
       /\ Cardinality({Key(e) : e \in bom}) = Cardinality(bom)
       /\ \A p \in kits :
              LET lines == Explosion(p)
              IN ~Refused(lines) => \A c \in Products : Total(lines, c) = Needed(p, c)
=============================================================================
