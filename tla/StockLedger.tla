----------------------------- MODULE StockLedger -----------------------------
(***************************************************************************)
(* StockLedgerService as PostgreSQL runs it: READ COMMITTED transactions   *)
(* that take a bin's row with SELECT ... FOR UPDATE before they look at    *)
(* it, work on their own uncommitted version, and publish everything at    *)
(* COMMIT or nothing at ROLLBACK.                                          *)
(*                                                                         *)
(* A transaction is one call of a service that goes through move(),        *)
(* adjustReserved() and reserveUpTo(); the sequence of those calls is its  *)
(* plan.  Transactions lock bins in the order of their plans, which no     *)
(* code sorts, so two of them can deadlock: PostgreSQL then ends one.      *)
(*                                                                         *)
(* A bin with no row yet is a bin whose row is EmptyRow: the INSERT ... ON *)
(* CONFLICT DO NOTHING of the first movement holds the unique index entry  *)
(* until its transaction ends, exactly as FOR UPDATE holds the row.        *)
(***************************************************************************)
EXTENDS StockBalance, Sequences

CONSTANTS Txs,    \* transactions that may be open at the same time
          Bins,   \* the (warehouse, product, variant, batch) keys
          Plans   \* the operation sequences a caller's transaction may run

Operation == [kind : OperationKinds, bin : Bins, quantity : Int]

ASSUME PlansAssumption == Plans \subseteq Seq(Operation)

VARIABLES rows,     \* stock_balance as committed: one row per bin
          posted,   \* per bin, SUM(quantity) over the committed ledger entries
          open,     \* the transactions between BEGIN and COMMIT or ROLLBACK
          todo,     \* per transaction, the operations it has still to perform
          held,     \* per transaction, the bins whose row lock it holds
          work,     \* per transaction, its own version of the rows it holds
          pending   \* per transaction and bin, SUM of its uncommitted entries

vars == <<rows, posted, open, todo, held, work, pending>>

(***************************************************************************)
(* Transactions                                                            *)
(***************************************************************************)
NoWork    == [b \in Bins |-> EmptyRow]
NoEntries == [b \in Bins |-> 0]

Init ==
    /\ rows = [b \in Bins |-> EmptyRow]
    /\ posted = [b \in Bins |-> 0]
    /\ open = {}
    /\ todo = [t \in Txs |-> <<>>]
    /\ held = [t \in Txs |-> {}]
    /\ work = [t \in Txs |-> NoWork]
    /\ pending = [t \in Txs |-> NoEntries]

(* Ending a transaction drops its locks and its private versions.          *)
Closed(t) ==
    /\ open' = open \ {t}
    /\ todo' = [todo EXCEPT ![t] = <<>>]
    /\ held' = [held EXCEPT ![t] = {}]
    /\ work' = [work EXCEPT ![t] = NoWork]
    /\ pending' = [pending EXCEPT ![t] = NoEntries]

RolledBack(t) == Closed(t) /\ UNCHANGED <<rows, posted>>

(* The operation a transaction is at, and the bin that operation needs.    *)
AtOperation(t) == t \in open /\ todo[t] # <<>>
Operand(t)     == Head(todo[t])

HasLock(t, b) == b \in held[t]
LockFree(b)   == \A u \in Txs : b \notin held[u]

(* Mutant: a plain SELECT, which never waits for another transaction.      *)
SelectWithoutForUpdate(t) == TRUE

LockAvailable(t) == LockFree(Operand(t).bin)

Begin(t, plan) ==
    /\ t \notin open
    /\ open' = open \cup {t}
    /\ todo' = [todo EXCEPT ![t] = plan]
    /\ UNCHANGED <<rows, posted, held, work, pending>>

(* lockBalance(): wait for the row lock, then read the committed row.      *)
LockBalance(t) ==
    LET b == Operand(t).bin IN
        /\ AtOperation(t)
        /\ ~HasLock(t, b)
        /\ LockAvailable(t)
        /\ held' = [held EXCEPT ![t] = @ \cup {b}]
        /\ work' = [work EXCEPT ![t][b] = rows[b]]
        /\ UNCHANGED <<rows, posted, open, todo, pending>>

(* The check and the write under the lock.                                 *)
Perform(t) ==
    LET b == Operand(t).bin IN
        /\ AtOperation(t)
        /\ HasLock(t, b)
        /\ Accepts(work[t][b], Operand(t))
        /\ work' = [work EXCEPT ![t][b] = Performed(@, Operand(t))]
        /\ pending' = [pending EXCEPT ![t][b] = @ + LedgerQuantity(Operand(t))]
        /\ todo' = [todo EXCEPT ![t] = Tail(@)]
        /\ UNCHANGED <<rows, posted, open, held>>

Refused(t) ==
    /\ AtOperation(t)
    /\ HasLock(t, Operand(t).bin)
    /\ ~Accepts(work[t][Operand(t).bin], Operand(t))

(* Mutant: the caller swallows the error of one line and goes on.          *)
RefusalSwallowed(t) ==
    /\ Refused(t)
    /\ todo' = [todo EXCEPT ![t] = Tail(@)]
    /\ UNCHANGED <<rows, posted, open, held, work, pending>>

(* Mutant: the caller catches the error and tries the same line again.     *)
RefusalRetried(t) == Refused(t) /\ UNCHANGED vars

(* The check fails: the method throws and the whole transaction goes.      *)
Refuse(t) == Refused(t) /\ RolledBack(t)

Finished(t) == t \in open /\ todo[t] = <<>>

Commit(t) ==
    /\ Finished(t)
    /\ rows' = [b \in Bins |-> IF HasLock(t, b) THEN work[t][b] ELSE rows[b]]
    /\ posted' = [b \in Bins |-> posted[b] + pending[t][b]]
    /\ Closed(t)

(* The worker dies, the client goes away or the 15-second limit passes.    *)
Abort(t) == t \in open /\ RolledBack(t)

(* Every member of a deadlocked set waits for a row another member holds.  *)
WaitsFor(t, u) ==
    /\ AtOperation(t)
    /\ ~HasLock(t, Operand(t).bin)
    /\ HasLock(u, Operand(t).bin)

Deadlocked(S) == \A t \in S : \E u \in S : WaitsFor(t, u)

DeadlockVictim(t) ==
    /\ \E S \in SUBSET Txs : t \in S /\ Deadlocked(S)
    /\ RolledBack(t)

Step(t) ==
    \/ \E plan \in Plans : Begin(t, plan)
    \/ LockBalance(t)
    \/ Perform(t)
    \/ Refuse(t)
    \/ Commit(t)
    \/ Abort(t)
    \/ DeadlockVictim(t)

Next == \E t \in Txs : Step(t)

Spec == Init /\ [][Next]_vars

(***************************************************************************)
(* Fairness.  An open transaction keeps issuing its statements; PostgreSQL *)
(* grants a contended row lock in the order of arrival, so a waiter is not *)
(* passed over for ever; its deadlock detector always runs.  Nothing is    *)
(* assumed of Begin or of Abort.                                           *)
(***************************************************************************)
Fairness == \A t \in Txs :
    /\ SF_vars(LockBalance(t))
    /\ WF_vars(Perform(t))
    /\ WF_vars(Refuse(t))
    /\ WF_vars(Commit(t))
    /\ WF_vars(DeadlockVictim(t))

FairSpec == Spec /\ Fairness

(***************************************************************************)
(* Properties                                                              *)
(***************************************************************************)
(* Every variable holds a value of its kind, and no locked or committed    *)
(* row leaves the range of its columns.                                    *)
TypeOK ==
    /\ rows \in [Bins -> Row]
    /\ posted \in [Bins -> Int]
    /\ open \in SUBSET Txs
    /\ todo \in [Txs -> Seq(Operation)]
    /\ held \in [Txs -> SUBSET Bins]
    /\ work \in [Txs -> [Bins -> Row]]
    /\ pending \in [Txs -> [Bins -> Int]]

(* The derived balance equals the sum of the ledger, whatever transactions *)
(* overlap: invariant 1 of the reconciliation job.                         *)
OnHandMatchesLedger == \A b \in Bins : rows[b].onHand = posted[b]

(* No bin promises more than it holds: two orders never both get the last  *)
(* unit, and no issue takes stock from under a promise.                    *)
NeverOversold == \A b \in Bins : rows[b].reserved <= rows[b].onHand

(* "The lock is the control": what a transaction sees of a bin it has      *)
(* locked is the committed row plus its own uncommitted work, so its       *)
(* commit overwrites nobody else's.                                        *)
LockedViewIsCurrent ==
    \A t \in Txs : \A b \in held[t] :
        work[t][b].onHand = rows[b].onHand + pending[t][b]

(* A transaction that was started ends: it commits, is refused, or is the  *)
(* victim of a deadlock, but never waits for ever.                         *)
EveryTransactionEnds == \A t \in Txs : t \in open ~> t \notin open

(* All that any interleaving of locks, commits and rollbacks does to the   *)
(* balances and the ledger is run whole plans, one after another.          *)
Book == INSTANCE StockBook WITH rows <- rows, posted <- posted

ImplementsBook == Book!Spec
=============================================================================
