---------------------------- MODULE MCReceivables ----------------------------
(* Small instances for TLC.  Two slices of Receivables: every operation on *)
(* one invoice, and a receipt that is divided between all the invoices.    *)
(* And four of who may act, which share no state with them: the tree of    *)
(* territories under two edits at once; the super administrators, and the  *)
(* duties of a role, under two changes at once; and what is cached, under  *)
(* one change or edit at a time.                                           *)
(* Requests, territories and editors are interchangeable; no liveness is   *)
(* checked.                                                                *)
EXTENDS Receivables, Access, TLC

CONSTANTS Single,   \* the invoice of the first slice
          Division  \* the operations of the second

VARIABLE slice

(* Neither grant may go with the other.                                    *)
MCSeparated == {Permissions}

MCAssignments ==
    [role : CustomRoles, root : Territories] \cup [role : {SuperAdmin}, root : {Everywhere}]

OfMoney     == slice \in {"ONE_INVOICE", "DIVIDED"}
OfAuthority == slice \in {"ADMINS", "DUTIES", "ACCESS"}

(* In the last slice one user rules, and one administrator is at work on   *)
(* what the other user may do, with one of the permissions.                *)
Ruler   == CHOOSE u \in Users : TRUE
Actor   == CHOOSE a \in Admins : TRUE
Granted == {CHOOSE p \in Permissions : TRUE}

MCInit ==
    /\ slice \in {"ONE_INVOICE", "DIVIDED", "TREE", "ADMINS", "DUTIES", "ACCESS"}
    /\ Init
    /\ TreeInit
    /\ AccessInit
    /\ slice # "ADMINS" => \A u \in Users : IsSuper(u) <=> u = Ruler
    /\ slice # "DUTIES" => \A r \in CustomRoles : role[r].grants = {}

Within ==
    \/ slice = "ONE_INVOICE" /\ \A i \in Invoices \ {Single} : invoice[i].status = "DRAFT"
    \/ slice = "DIVIDED" /\ \A n \in Notes : note[n].status = "NONE"

Chosen(req) ==
    \/ slice = "ONE_INVOICE" /\ Touches(req) \cap Invoices \subseteq {Single}
    \/ slice = "DIVIDED" /\ req.kind \in Division

(* Once an edit was misled, no further one begins.                         *)
TreeWithin == misled => \A e \in Editors : edit'[e] # NoEdit => Editing(e)

(* In the last slice a role is assigned one at a time.                     *)
ChangeWithin(a) ==
    LET c == change'[a] IN
        c # NoChange /\ ~Changing(a) =>
            \/ slice = "ADMINS" /\ c.kind \notin {"GRANTS", "DROP"}
            \/ slice = "DUTIES" /\ c.kind = "GRANTS"
            \/ /\ slice = "ACCESS"
               /\ a = Actor
               /\ \/ c.kind = "ROLES"
                  \/ c.kind = "GRANTS" /\ c.rows \subseteq Granted
                  \/ c.kind = "DROP"
               /\ c.kind = "ROLES" => /\ c.of # Ruler
                                      /\ Cardinality(c.rows) <= 1
                                      /\ \A h \in c.rows : h.role # SuperAdmin

InFlight == Cardinality({a \in Admins : Changing(a)}) + Cardinality({e \in Editors : Editing(e)})

AccessWithin ==
    /\ \A a \in Admins : ChangeWithin(a)
    /\ IF slice = "ACCESS"
       THEN /\ \A l \in Lookups : lookup'[l] # NoLookup => lookup'[l].of # Ruler
            /\ InFlight' <= 1
            /\ Cardinality({t \in Territories : node'[t].state # "NONE"}) <= 2
       ELSE UNCHANGED <<treeVars, lookup>>

MCNext ==
    /\ UNCHANGED slice
    /\ \/ /\ OfMoney
          /\ Next
          /\ Within'
          /\ \A r \in Requests : request'[r] # NoRequest => Chosen(request'[r])
          /\ UNCHANGED <<treeVars, accessVars>>
       \/ /\ slice = "TREE"
          /\ TreeNext
          /\ TreeWithin
          /\ UNCHANGED <<vars, accessVars>>
       \/ /\ OfAuthority
          /\ AccessNext
          /\ AccessWithin
          /\ UNCHANGED vars

MCSpec == MCInit /\ [][MCNext]_<<vars, treeVars, accessVars, slice>>

Symmetry == Permutations(Requests) \cup Permutations(Territories) \cup Permutations(Editors)
=============================================================================
