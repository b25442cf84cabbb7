-------------------------- MODULE StockLedgerProofs --------------------------
(***************************************************************************)
(* Safety of StockLedger for any set of transactions, any bins and any     *)
(* plans.  The inductive invariant IInv says what the row locks buy: one   *)
(* holder per bin, and a holder whose view of the bin is the committed row *)
(* plus its own entries.  That the derived balance equals the ledger, and  *)
(* that nothing is ever oversold, follow at every commit.                  *)
(*                                                                         *)
(* The second half proves that StockLedger implements StockBook.  There,   *)
(* FollowsPlans says that a transaction's locked rows are what the book    *)
(* would be, had the operations it has done been entered at once now.  Its *)
(* hard step is the commit of another transaction, which changes the book  *)
(* a plan starts from: PagesShift shows that the plan does not notice.     *)
(***************************************************************************)
EXTENDS StockLedger, Sums

(* Two open transactions never hold the same row.                          *)
OneHolder == \A t, u \in Txs : \A b \in held[t] : b \in held[u] => t = u

(* Uncommitted ledger entries are only ever for rows the transaction holds.*)
EntriesOnlyWhereHeld ==
    \A t \in Txs : \A b \in Bins : b \notin held[t] => pending[t][b] = 0

(* A transaction's own version of a row is one it could commit.            *)
WorkNeverOversold ==
    \A t \in Txs : \A b \in Bins : work[t][b].reserved <= work[t][b].onHand

IInv ==
    /\ TypeOK
    /\ OneHolder
    /\ EntriesOnlyWhereHeld
    /\ LockedViewIsCurrent
    /\ WorkNeverOversold
    /\ OnHandMatchesLedger
    /\ NeverOversold

-----------------------------------------------------------------------------
(* One operation on one row: an accepted operation leaves a row within its *)
(* columns and not oversold, and moves on-hand by exactly what it posts.   *)
LEMMA AcceptedOperation ==
    ASSUME NEW row \in Row, row.reserved <= row.onHand,
           NEW kind \in OperationKinds, NEW quantity \in Int, NEW bin,
           Accepts(row, [kind |-> kind, bin |-> bin, quantity |-> quantity])
    PROVE  LET op == [kind |-> kind, bin |-> bin, quantity |-> quantity] IN
           /\ LedgerQuantity(op) \in Int
           /\ Performed(row, op) \in Row
           /\ Performed(row, op).onHand = row.onHand + LedgerQuantity(op)
           /\ Performed(row, op).reserved <= Performed(row, op).onHand
<1> DEFINE op == [kind |-> kind, bin |-> bin, quantity |-> quantity]
<1>0. MaxQuantity \in Nat
  BY MaxQuantityAssumption
<1>1. row.onHand \in 0..MaxQuantity /\ row.reserved \in 0..MaxQuantity
  BY DEF Row
<1>2. CASE kind \in MovementTypes
  <2>1. kind # "ADJUST_RESERVED" /\ kind # "RESERVE_UP_TO"
    BY <1>2 DEF MovementTypes, InboundMovements, OutboundMovements
  <2>2. MayMove(row, kind, quantity)
    BY <2>1 DEF Accepts
  <2>3. SignedQuantity(kind, quantity) \in Int
    BY DEF SignedQuantity, SignForMovement
  <2>4. /\ LedgerQuantity(op) = SignedQuantity(kind, quantity)
        /\ ReservedChange(row, op) = 0
    BY <1>2, <2>1 DEF LedgerQuantity, ReservedChange
  <2>5. /\ row.onHand + SignedQuantity(kind, quantity) >= 0
        /\ row.onHand + SignedQuantity(kind, quantity) >= row.reserved
        /\ row.onHand + SignedQuantity(kind, quantity) <= MaxQuantity
    BY <2>2 DEF MayMove
  <2> QED
    BY <1>0, <1>1, <2>3, <2>4, <2>5 DEF Performed, Row
<1>3. CASE kind = "ADJUST_RESERVED"
  <2>1. kind \notin MovementTypes
    BY <1>3 DEF MovementTypes, InboundMovements, OutboundMovements
  <2>2. LedgerQuantity(op) = 0 /\ ReservedChange(row, op) = quantity
    BY <1>3, <2>1 DEF LedgerQuantity, ReservedChange
  <2>3. MayAdjustReserved(row, quantity)
    BY <1>3, <2>1 DEF Accepts
  <2> QED
    BY <1>0, <1>1, <2>2, <2>3 DEF Performed, Row, MayAdjustReserved
<1>4. CASE kind = "RESERVE_UP_TO"
  <2>1. kind \notin MovementTypes
    BY <1>4 DEF MovementTypes, InboundMovements, OutboundMovements
  <2>2. /\ LedgerQuantity(op) = 0
        /\ ReservedChange(row, op) = Reservable(row, quantity)
    BY <1>4, <2>1 DEF LedgerQuantity, ReservedChange
  <2>3. quantity >= 0
    BY <1>4, <2>1 DEF Accepts
  <2>4. /\ Reservable(row, quantity) \in Nat
        /\ row.reserved + Reservable(row, quantity) <= row.onHand
    BY <1>0, <1>1, <2>3 DEF Reservable, Available
  <2> QED
    BY <1>0, <1>1, <2>2, <2>4 DEF Performed, Row
<1> QED
  BY <1>2, <1>3, <1>4 DEF OperationKinds

(* Ending a transaction, by commit or by rollback, leaves its private      *)
(* state as it was before it began.                                        *)
LEMMA ClosingKeepsOthers ==
    ASSUME IInv, NEW t \in Txs, Closed(t)
    PROVE  /\ open' \in SUBSET Txs
           /\ todo' \in [Txs -> Seq(Operation)]
           /\ held' \in [Txs -> SUBSET Bins]
           /\ work' \in [Txs -> [Bins -> Row]]
           /\ pending' \in [Txs -> [Bins -> Int]]
           /\ held'[t] = {}
           /\ \A u \in Txs \ {t} : /\ held'[u] = held[u]
                                   /\ work'[u] = work[u]
                                   /\ pending'[u] = pending[u]
           /\ OneHolder' /\ EntriesOnlyWhereHeld' /\ WorkNeverOversold'
<1>1. EmptyRow \in Row /\ EmptyRow.reserved <= EmptyRow.onHand
  BY MaxQuantityAssumption DEF EmptyRow, Row
<1>2. NoWork \in [Bins -> Row] /\ NoEntries \in [Bins -> Int]
  BY <1>1 DEF NoWork, NoEntries
<1>3. /\ open' \in SUBSET Txs
      /\ todo' \in [Txs -> Seq(Operation)]
      /\ held' \in [Txs -> SUBSET Bins]
      /\ work' \in [Txs -> [Bins -> Row]]
      /\ pending' \in [Txs -> [Bins -> Int]]
  BY <1>2 DEF IInv, TypeOK, Closed
<1>4. /\ held'[t] = {} /\ work'[t] = NoWork /\ pending'[t] = NoEntries
      /\ \A u \in Txs \ {t} : /\ held'[u] = held[u]
                              /\ work'[u] = work[u]
                              /\ pending'[u] = pending[u]
  BY DEF IInv, TypeOK, Closed
<1>5. OneHolder'
  BY <1>4 DEF IInv, OneHolder
<1>6. EntriesOnlyWhereHeld'
  BY <1>4 DEF IInv, EntriesOnlyWhereHeld, NoEntries
<1>7. WorkNeverOversold'
  BY <1>1, <1>4 DEF IInv, WorkNeverOversold, NoWork
<1> QED
  BY <1>3, <1>4, <1>5, <1>6, <1>7

LEMMA RollbackKeepsInvariant ==
    ASSUME IInv, NEW t \in Txs, RolledBack(t)
    PROVE  IInv'
<1>1. Closed(t) /\ UNCHANGED <<rows, posted>>
  BY DEF RolledBack
<1>2. LockedViewIsCurrent'
  <2>1. /\ held'[t] = {}
        /\ \A u \in Txs \ {t} : /\ held'[u] = held[u]
                                /\ work'[u] = work[u]
                                /\ pending'[u] = pending[u]
    BY <1>1, ClosingKeepsOthers
  <2>2. LockedViewIsCurrent
    BY DEF IInv
  <2> QED
    BY <1>1, <2>1, <2>2 DEF LockedViewIsCurrent
<1>3. TypeOK'
  BY <1>1, ClosingKeepsOthers DEF IInv, TypeOK
<1>4. OnHandMatchesLedger' /\ NeverOversold'
  BY <1>1 DEF IInv, OnHandMatchesLedger, NeverOversold
<1> QED
  BY <1>1, <1>2, <1>3, <1>4, ClosingKeepsOthers DEF IInv

-----------------------------------------------------------------------------
LEMMA InitEstablishesInvariant == Init => IInv
<1> SUFFICES ASSUME Init PROVE IInv
  OBVIOUS
<1>1. EmptyRow \in Row /\ EmptyRow.reserved = 0 /\ EmptyRow.onHand = 0
  BY MaxQuantityAssumption DEF EmptyRow, Row
<1>2. TypeOK
  BY <1>1 DEF Init, TypeOK, NoWork, NoEntries
<1>3. OneHolder /\ EntriesOnlyWhereHeld /\ LockedViewIsCurrent
  BY DEF Init, OneHolder, EntriesOnlyWhereHeld, LockedViewIsCurrent, NoEntries
<1>4. WorkNeverOversold /\ OnHandMatchesLedger /\ NeverOversold
  BY <1>1 DEF Init, WorkNeverOversold, OnHandMatchesLedger, NeverOversold, NoWork
<1> QED
  BY <1>2, <1>3, <1>4 DEF IInv

LEMMA LockKeepsInvariant ==
    ASSUME IInv, NEW t \in Txs, LockBalance(t)
    PROVE  IInv'
<1> DEFINE b == Operand(t).bin
<1>1. b \in Bins /\ b \notin held[t] /\ \A u \in Txs : b \notin held[u]
  <2>1. Operand(t) \in Operation
    BY DEF LockBalance, AtOperation, Operand, IInv, TypeOK
  <2> QED
    BY <2>1 DEF Operation, LockBalance, LockAvailable, LockFree, HasLock
<1>2. /\ held' = [held EXCEPT ![t] = @ \cup {b}]
      /\ work' = [work EXCEPT ![t][b] = rows[b]]
      /\ UNCHANGED <<rows, posted, open, todo, pending>>
  BY DEF LockBalance
<1>3. TypeOK'
  BY <1>1, <1>2 DEF IInv, TypeOK
<1>4. OneHolder'
  BY <1>1, <1>2 DEF IInv, TypeOK, OneHolder
<1>5. EntriesOnlyWhereHeld'
  BY <1>1, <1>2 DEF IInv, TypeOK, EntriesOnlyWhereHeld
<1>6. LockedViewIsCurrent'
  <2> SUFFICES ASSUME NEW u \in Txs, NEW c \in held'[u]
               PROVE  work'[u][c].onHand = rows[c].onHand + pending[u][c]
    BY <1>2 DEF LockedViewIsCurrent
  <2>1. CASE u = t /\ c = b
    BY <1>1, <1>2, <2>1
       DEF IInv, TypeOK, EntriesOnlyWhereHeld, Row
  <2>2. CASE ~(u = t /\ c = b)
    BY <1>1, <1>2, <2>2 DEF IInv, TypeOK, LockedViewIsCurrent
  <2> QED
    BY <2>1, <2>2
<1>7. WorkNeverOversold'
  BY <1>1, <1>2 DEF IInv, TypeOK, WorkNeverOversold, NeverOversold
<1>8. OnHandMatchesLedger' /\ NeverOversold'
  BY <1>2 DEF IInv, OnHandMatchesLedger, NeverOversold
<1> QED
  BY <1>3, <1>4, <1>5, <1>6, <1>7, <1>8 DEF IInv

LEMMA PerformKeepsInvariant ==
    ASSUME IInv, NEW t \in Txs, Perform(t)
    PROVE  IInv'
<1> DEFINE op == Operand(t)
           b  == op.bin
<1>1. op \in Operation
  BY DEF Perform, AtOperation, Operand, IInv, TypeOK
<1>2. b \in Bins /\ b \in held[t]
  BY <1>1 DEF Operation, Perform, HasLock
<1>3. PICK kind \in OperationKinds, quantity \in Int :
        op = [kind |-> kind, bin |-> b, quantity |-> quantity]
  BY <1>1 DEF Operation
<1>4. work[t][b] \in Row /\ work[t][b].reserved <= work[t][b].onHand
  BY <1>2 DEF IInv, TypeOK, WorkNeverOversold
<1>5. Accepts(work[t][b], op)
  BY DEF Perform
<1>6. /\ LedgerQuantity(op) \in Int
      /\ Performed(work[t][b], op) \in Row
      /\ Performed(work[t][b], op).onHand = work[t][b].onHand + LedgerQuantity(op)
      /\ Performed(work[t][b], op).reserved <= Performed(work[t][b], op).onHand
  BY <1>3, <1>4, <1>5, AcceptedOperation
<1>7. /\ work' = [work EXCEPT ![t][b] = Performed(@, op)]
      /\ pending' = [pending EXCEPT ![t][b] = @ + LedgerQuantity(op)]
      /\ todo' = [todo EXCEPT ![t] = Tail(@)]
      /\ UNCHANGED <<rows, posted, open, held>>
  BY DEF Perform
<1> HIDE DEF op, b
<1>8. TypeOK'
  <2>1. todo' \in [Txs -> Seq(Operation)]
    <3>1. todo[t] \in Seq(Operation) /\ todo[t] # <<>>
      BY DEF IInv, TypeOK, Perform, AtOperation
    <3>2. Tail(todo[t]) \in Seq(Operation)
      BY <3>1
    <3> QED
      BY <1>7, <3>2 DEF IInv, TypeOK
  <2>2. work' \in [Txs -> [Bins -> Row]] /\ pending' \in [Txs -> [Bins -> Int]]
    BY <1>2, <1>6, <1>7 DEF IInv, TypeOK
  <2> QED
    BY <1>7, <2>1, <2>2 DEF IInv, TypeOK
<1>9. OneHolder' /\ OnHandMatchesLedger' /\ NeverOversold'
  BY <1>7 DEF IInv, OneHolder, OnHandMatchesLedger, NeverOversold
<1>10. EntriesOnlyWhereHeld'
  BY <1>2, <1>7 DEF IInv, TypeOK, EntriesOnlyWhereHeld
<1>11. LockedViewIsCurrent'
  <2> SUFFICES ASSUME NEW u \in Txs, NEW c \in held[u]
               PROVE  work'[u][c].onHand = rows[c].onHand + pending'[u][c]
    BY <1>7 DEF LockedViewIsCurrent
  <2>0. work[u][c].onHand = rows[c].onHand + pending[u][c] /\ c \in Bins
    BY DEF IInv, TypeOK, LockedViewIsCurrent
  <2>1. CASE u = t /\ c = b
    <3>1. /\ work'[u][c] = Performed(work[t][b], op)
          /\ pending'[u][c] = pending[t][b] + LedgerQuantity(op)
      BY <1>2, <1>7, <2>1 DEF IInv, TypeOK
    <3>2. /\ work[t][b].onHand \in Int /\ rows[b].onHand \in Int
          /\ pending[t][b] \in Int
      BY <1>2, <1>4 DEF IInv, TypeOK, Row
    <3> QED
      BY <1>6, <2>0, <2>1, <3>1, <3>2
  <2>2. CASE ~(u = t /\ c = b)
    BY <1>2, <1>7, <2>0, <2>2 DEF IInv, TypeOK
  <2> QED
    BY <2>1, <2>2
<1>12. WorkNeverOversold'
  BY <1>2, <1>6, <1>7 DEF IInv, TypeOK, WorkNeverOversold
<1> QED
  BY <1>8, <1>9, <1>10, <1>11, <1>12 DEF IInv

LEMMA CommitKeepsInvariant ==
    ASSUME IInv, NEW t \in Txs, Commit(t)
    PROVE  IInv'
<1>1. Closed(t)
  BY DEF Commit
<1>2. /\ rows' = [b \in Bins |-> IF b \in held[t] THEN work[t][b] ELSE rows[b]]
      /\ posted' = [b \in Bins |-> posted[b] + pending[t][b]]
  BY DEF Commit, HasLock
<1>3. TypeOK'
  <2>1. rows' \in [Bins -> Row] /\ posted' \in [Bins -> Int]
    BY <1>2 DEF IInv, TypeOK
  <2> QED
    BY <1>1, <2>1, ClosingKeepsOthers DEF IInv, TypeOK
<1>4. OnHandMatchesLedger'
  <2> SUFFICES ASSUME NEW b \in Bins PROVE rows'[b].onHand = posted'[b]
    BY DEF OnHandMatchesLedger
  <2>1. rows[b].onHand = posted[b] /\ posted[b] \in Int
    BY DEF IInv, TypeOK, OnHandMatchesLedger
  <2>2. CASE b \in held[t]
    BY <1>2, <2>1, <2>2 DEF IInv, TypeOK, LockedViewIsCurrent
  <2>3. CASE b \notin held[t]
    BY <1>2, <2>1, <2>3 DEF IInv, TypeOK, EntriesOnlyWhereHeld
  <2> QED
    BY <2>2, <2>3
<1>5. NeverOversold'
  BY <1>2 DEF IInv, TypeOK, NeverOversold, WorkNeverOversold
<1>6. LockedViewIsCurrent'
  <2> SUFFICES ASSUME NEW u \in Txs, NEW b \in held'[u]
               PROVE  work'[u][b].onHand = rows'[b].onHand + pending'[u][b]
    BY DEF LockedViewIsCurrent
  <2>1. u # t
    BY <1>1, ClosingKeepsOthers
  <2>2. /\ b \in held[u] /\ b \in Bins
        /\ work'[u] = work[u] /\ pending'[u] = pending[u]
    BY <1>1, <2>1, ClosingKeepsOthers DEF IInv, TypeOK
  <2>3. b \notin held[t]
    BY <2>1, <2>2 DEF IInv, OneHolder
  <2> QED
    BY <1>2, <2>2, <2>3 DEF IInv, LockedViewIsCurrent
<1> QED
  BY <1>1, <1>3, <1>4, <1>5, <1>6, ClosingKeepsOthers DEF IInv

LEMMA NextKeepsInvariant == IInv /\ [Next]_vars => IInv'
<1> SUFFICES ASSUME IInv, [Next]_vars PROVE IInv'
  OBVIOUS
<1>1. ASSUME NEW t \in Txs, NEW plan \in Plans, Begin(t, plan)
      PROVE  IInv'
  <2>1. plan \in Seq(Operation)
    BY PlansAssumption
  <2>2. TypeOK'
    BY <1>1, <2>1 DEF IInv, TypeOK, Begin
  <2> QED
    BY <1>1, <2>2 DEF IInv, Begin, OneHolder, EntriesOnlyWhereHeld,
         LockedViewIsCurrent, WorkNeverOversold, OnHandMatchesLedger, NeverOversold
<1>2. ASSUME NEW t \in Txs, LockBalance(t) PROVE IInv'
  BY <1>2, LockKeepsInvariant
<1>3. ASSUME NEW t \in Txs, Perform(t) PROVE IInv'
  BY <1>3, PerformKeepsInvariant
<1>4. ASSUME NEW t \in Txs, Refuse(t) PROVE IInv'
  BY <1>4, RollbackKeepsInvariant DEF Refuse
<1>5. ASSUME NEW t \in Txs, Commit(t) PROVE IInv'
  BY <1>5, CommitKeepsInvariant
<1>6. ASSUME NEW t \in Txs, Abort(t) PROVE IInv'
  BY <1>6, RollbackKeepsInvariant DEF Abort
<1>7. ASSUME NEW t \in Txs, DeadlockVictim(t) PROVE IInv'
  BY <1>7, RollbackKeepsInvariant DEF DeadlockVictim
<1>8. ASSUME UNCHANGED vars PROVE IInv'
  BY <1>8 DEF vars, IInv, TypeOK, OneHolder, EntriesOnlyWhereHeld,
       LockedViewIsCurrent, WorkNeverOversold, OnHandMatchesLedger, NeverOversold
<1> QED
  BY <1>1, <1>2, <1>3, <1>4, <1>5, <1>6, <1>7, <1>8 DEF Next, Step

-----------------------------------------------------------------------------
(* Whatever transactions overlap, the strengthened invariant holds.        *)
THEOREM InvariantHolds == Spec => []IInv
<1>1. Init => IInv
  BY InitEstablishesInvariant
<1>2. IInv /\ [Next]_vars => IInv'
  BY NextKeepsInvariant
<1> QED
  BY <1>1, <1>2, PTL DEF Spec

(* Type correctness: rows stay within the columns of stock_balance.        *)
THEOREM TypeCorrectness == Spec => []TypeOK
BY InvariantHolds, PTL DEF IInv

(* The derived balance is the sum of the ledger after every commit.        *)
THEOREM BalanceIsTheLedger == Spec => []OnHandMatchesLedger
BY InvariantHolds, PTL DEF IInv

(* No bin ever promises more than it holds.                                *)
THEOREM StockIsNeverOversold == Spec => []NeverOversold
BY InvariantHolds, PTL DEF IInv

(* A transaction's view of a row it has locked is never stale.             *)
THEOREM LockIsTheControl == Spec => []LockedViewIsCurrent
BY InvariantHolds, PTL DEF IInv

-----------------------------------------------------------------------------
(* What a commit of t would publish now, and the ledger that explains it.  *)
Published(t) == [b \in Bins |-> IF HasLock(t, b) THEN work[t][b] ELSE rows[b]]
Explained(t) == [b \in Bins |-> posted[b] + pending[t][b]]

(* t has done the first k operations of the plan and has the others to do. *)
(* Had those k been entered in the book as it stands, the book would be    *)
(* what t would publish.                                                   *)
OnPlan(t, plan, k) ==
    /\ Len(todo[t]) = Len(plan) - k
    /\ \A i \in 1..Len(todo[t]) : todo[t][i] = plan[k + i]
    /\ \A i \in 1..k : plan[i].bin \in held[t]
    /\ Book!Pages(Book!Opened, plan)[k] =
           [ok |-> TRUE, rows |-> Published(t), posted |-> Explained(t)]

RunsAPlan == \A t \in open : \E plan \in Plans : \E k \in 0..Len(plan) : OnPlan(t, plan, k)

ClosedHoldsNothing == \A t \in Txs \ open : held[t] = {}

FollowsPlans == RunsAPlan /\ ClosedHoldsNothing

-----------------------------------------------------------------------------
(* The recursion over a plan's operations is well defined.                 *)
LEMMA PagesFollow ==
    ASSUME NEW plan \in Seq(Operation), NEW book
    PROVE  Book!Pages(book, plan) =
               [i \in 0..Len(plan) |->
                   IF i = 0 THEN book
                   ELSE Book!Entered(Book!Pages(book, plan)[i - 1], plan[i])]
<1> DEFINE n == Len(plan)
           PageAt(g, i) == IF i = 0 THEN book ELSE Book!Entered(g[i - 1], plan[i])
           F == {m \in 0..n : \E g : g = [i \in 0..m |-> PageAt(g, i)]}
<1>1. n \in Nat
  OBVIOUS
<1>2. 0 \in F
  <2> DEFINE g == [i \in 0..0 |-> book]
  <2>1. g = [i \in 0..0 |-> PageAt(g, i)]
    OBVIOUS
  <2>2. \E h : h = [i \in 0..0 |-> PageAt(h, i)]
    <3> HIDE DEF g, PageAt
    <3> QED
      BY <2>1
  <2> QED
    BY <2>2, <1>1
<1>3. ASSUME NEW m \in 0..n, m + 1 \in 0..n, m \in F PROVE m + 1 \in F
  <2>1. PICK g : g = [i \in 0..m |-> PageAt(g, i)]
    BY <1>3
  <2> DEFINE h == [i \in 0..m + 1 |-> IF i = m + 1 THEN PageAt(g, i) ELSE g[i]]
  <2>2. ASSUME NEW i \in 0..m + 1 PROVE h[i] = PageAt(h, i)
    <3>1. CASE i = 0
      <4>1. h[i] = g[0] /\ 0 \in 0..m
        BY <3>1
      <4> QED
        BY <4>1, <2>1, <3>1
    <3>2. CASE i # 0
      <4>1. i - 1 \in 0..m /\ i - 1 \in 0..m + 1 /\ i - 1 # m + 1
        BY <3>2
      <4>2. h[i - 1] = g[i - 1]
        BY <4>1
      <4>3. h[i] = PageAt(g, i)
        <5>1. CASE i = m + 1
          BY <5>1
        <5>2. CASE i # m + 1
          <6>1. i \in 0..m
            BY <5>2
          <6>2. h[i] = g[i]
            BY <5>2
          <6>3. g[i] = PageAt(g, i)
            <7> HIDE DEF PageAt
            <7> QED
              BY <2>1, <6>1
          <6> QED
            BY <6>2, <6>3
        <5> QED
          BY <5>1, <5>2
      <4> QED
        BY <3>2, <4>2, <4>3
    <3> QED
      BY <3>1, <3>2
  <2>3. h = [i \in 0..m + 1 |-> PageAt(h, i)]
    <3> HIDE DEF PageAt
    <3> QED
      BY <2>2
  <2> QED
    BY <2>3, <1>3
<1>4. n \in F
  <2> HIDE DEF F
  <2>1. \A i \in 0..n : i \in F
    BY <1>1, <1>2, <1>3, PrefixInduction
  <2> QED
    BY <1>1, <2>1
<1>5. PICK g : g = [i \in 0..n |-> PageAt(g, i)]
  BY <1>4
<1> QED
  BY <1>5 DEF Book!Pages

(* The abstract specification judges an operation as the service does.     *)
LEMMA SameRules ==
    ASSUME NEW row, NEW op
    PROVE  /\ Book!Accepts(row, op) = Accepts(row, op)
           /\ Book!Performed(row, op) = Performed(row, op)
           /\ Book!LedgerQuantity(op) = LedgerQuantity(op)
<1>1. /\ Book!MovementTypes = MovementTypes
      /\ \A type, quantity : Book!SignedQuantity(type, quantity) = SignedQuantity(type, quantity)
  BY DEF Book!MovementTypes, MovementTypes, Book!InboundMovements, InboundMovements,
         Book!OutboundMovements, OutboundMovements, Book!SignedQuantity, SignedQuantity,
         Book!SignForMovement, SignForMovement
<1>2. Book!LedgerQuantity(op) = LedgerQuantity(op)
  BY <1>1 DEF Book!LedgerQuantity, LedgerQuantity
<1>3. Book!ReservedChange(row, op) = ReservedChange(row, op)
  BY DEF Book!ReservedChange, ReservedChange, Book!Reservable, Reservable,
         Book!Available, Available
<1>4. Book!Performed(row, op) = Performed(row, op)
  BY <1>2, <1>3 DEF Book!Performed, Performed
<1>5. Book!MayMove(row, op.kind, op.quantity) = MayMove(row, op.kind, op.quantity)
  BY <1>1 DEF Book!MayMove, MayMove, Book!WellSigned, WellSigned,
         Book!SignForMovement, SignForMovement, Book!InboundMovements, InboundMovements,
         Book!OutboundMovements, OutboundMovements
<1>6. Book!MayAdjustReserved(row, op.quantity) = MayAdjustReserved(row, op.quantity)
  BY DEF Book!MayAdjustReserved, MayAdjustReserved
<1>7. Book!Accepts(row, op) = Accepts(row, op)
  BY <1>1, <1>5, <1>6 DEF Book!Accepts, Accepts
<1> QED
  BY <1>2, <1>4, <1>7

(* An operation entered in the abstract book, in the service's terms.      *)
LEMMA EnteredDefinition ==
    ASSUME NEW book, NEW op
    PROVE  Book!Entered(book, op) =
             IF book.ok /\ Accepts(book.rows[op.bin], op)
             THEN [ok     |-> TRUE,
                   rows   |-> [book.rows   EXCEPT ![op.bin] = Performed(book.rows[op.bin], op)],
                   posted |-> [book.posted EXCEPT ![op.bin] = book.posted[op.bin] + LedgerQuantity(op)]]
             ELSE [book EXCEPT !.ok = FALSE]
<1>1. Book!Accepts(book.rows[op.bin], op) = Accepts(book.rows[op.bin], op)
  BY SameRules
<1>2. Book!Performed(book.rows[op.bin], op) = Performed(book.rows[op.bin], op)
  BY SameRules
<1>3. Book!LedgerQuantity(op) = LedgerQuantity(op)
  BY SameRules
<1> QED
  BY <1>1, <1>2, <1>3 DEF Book!Entered

(* A page is a book over Bins.                                             *)
Entries == [ok : BOOLEAN, rows : [Bins -> [onHand : Int, reserved : Int]], posted : [Bins -> Int]]

(* Whatever an operation is, what it makes of a row of integers is one,    *)
(* and what it posts is an integer.                                        *)
LEMMA EntryOfOperation ==
    ASSUME NEW op \in Operation, NEW row \in [onHand : Int, reserved : Int]
    PROVE  /\ LedgerQuantity(op) \in Int
           /\ Performed(row, op) \in [onHand : Int, reserved : Int]
<1>1. op.quantity \in Int
  BY DEF Operation
<1>2. LedgerQuantity(op) \in Int
  BY <1>1 DEF LedgerQuantity, SignedQuantity, SignForMovement
<1>3. ReservedChange(row, op) \in Int
  BY <1>1 DEF ReservedChange, Reservable, Available
<1> QED
  BY <1>2, <1>3 DEF Performed

(* Entering an operation in a book leaves a book.                          *)
LEMMA EnteredIsABook ==
    ASSUME NEW op \in Operation, NEW book \in Entries
    PROVE  Book!Entered(book, op) \in Entries
<1>1. CASE book.ok /\ Accepts(book.rows[op.bin], op)
  <2> DEFINE b == op.bin
  <2>1. b \in Bins
    BY DEF Operation
  <2>2. book.rows[b] \in [onHand : Int, reserved : Int] /\ book.posted[b] \in Int
    BY <2>1 DEF Entries
  <2>3. /\ LedgerQuantity(op) \in Int
        /\ Performed(book.rows[b], op) \in [onHand : Int, reserved : Int]
    BY <2>2, EntryOfOperation
  <2>4. Book!Entered(book, op) =
          [ok     |-> TRUE,
           rows   |-> [book.rows   EXCEPT ![b] = Performed(book.rows[b], op)],
           posted |-> [book.posted EXCEPT ![b] = book.posted[b] + LedgerQuantity(op)]]
    BY <1>1, EnteredDefinition
  <2>5. [book.rows EXCEPT ![b] = Performed(book.rows[b], op)]
          \in [Bins -> [onHand : Int, reserved : Int]]
    BY <2>1, <2>3 DEF Entries
  <2>6. [book.posted EXCEPT ![b] = book.posted[b] + LedgerQuantity(op)] \in [Bins -> Int]
    BY <2>1, <2>2, <2>3 DEF Entries
  <2> QED
    BY <2>4, <2>5, <2>6 DEF Entries
<1>2. CASE ~(book.ok /\ Accepts(book.rows[op.bin], op))
  BY <1>2, EnteredDefinition DEF Entries
<1> QED
  BY <1>1, <1>2

(* Every page of a plan begun on a book is a book.                         *)
LEMMA PagesAreBooks ==
    ASSUME NEW plan \in Seq(Operation), NEW book \in Entries
    PROVE  \A i \in 0..Len(plan) : Book!Pages(book, plan)[i] \in Entries
<1> DEFINE n == Len(plan)
           page == Book!Pages(book, plan)
           F == {i \in 0..n : page[i] \in Entries}
<1>1. page = [i \in 0..n |-> IF i = 0 THEN book ELSE Book!Entered(page[i - 1], plan[i])]
  BY PagesFollow
<1> HIDE DEF page
<1>2. n \in Nat /\ 0 \in F
  BY <1>1
<1>3. ASSUME NEW i \in 0..n, i + 1 \in 0..n, i \in F PROVE i + 1 \in F
  <2>1. page[i + 1] = Book!Entered(page[i], plan[i + 1])
    BY <1>1, <1>3
  <2>2. plan[i + 1] \in Operation
    BY <1>3
  <2>3. page[i] \in Entries
    BY <1>3
  <2> QED
    BY <1>3, <2>1, <2>2, <2>3, EnteredIsABook
<1> HIDE DEF F
<1>4. \A i \in 0..n : i \in F
  BY <1>2, <1>3, PrefixInduction
<1> QED
  BY <1>4 DEF F, page

(* A book that differs in other bins only, or by what is already posted.   *)
Shifted(page, book, other, H) ==
    [ok     |-> TRUE,
     rows   |-> [b \in Bins |-> IF b \in H THEN page.rows[b] ELSE other.rows[b]],
     posted |-> [b \in Bins |-> other.posted[b] + (page.posted[b] - book.posted[b])]]

(* An operation on a bin of H has the same effect in a book shifted        *)
(* outside H.                                                              *)
LEMMA EnteredShifts ==
    ASSUME NEW H \in SUBSET Bins, NEW op \in Operation, op.bin \in H,
           NEW book \in Entries, NEW other \in Entries, NEW page \in Entries,
           page.ok, Accepts(page.rows[op.bin], op)
    PROVE  Book!Entered(Shifted(page, book, other, H), op)
               = Shifted(Book!Entered(page, op), book, other, H)
<1> DEFINE c == op.bin
           s == Shifted(page, book, other, H)
           e == Book!Entered(page, op)
           q == LedgerQuantity(op)
<1>1. c \in Bins /\ c \in H
  OBVIOUS
<1>2. page.rows[c] \in [onHand : Int, reserved : Int]
  BY DEF Entries
<1>3. q \in Int
  BY <1>2, EntryOfOperation
<1>4. s.ok /\ s.rows[c] = page.rows[c]
  BY <1>1 DEF Shifted
<1> DEFINE row == Performed(page.rows[c], op)
<1>5. Book!Entered(s, op) =
        [ok     |-> TRUE,
         rows   |-> [s.rows   EXCEPT ![c] = row],
         posted |-> [s.posted EXCEPT ![c] = s.posted[c] + q]]
  <2>1. s.ok /\ Accepts(s.rows[c], op) /\ Performed(s.rows[c], op) = row
    BY <1>4
  <2> HIDE DEF s, row
  <2> QED
    BY <2>1, EnteredDefinition
<1>6. e = [ok     |-> TRUE,
           rows   |-> [page.rows   EXCEPT ![c] = row],
           posted |-> [page.posted EXCEPT ![c] = page.posted[c] + q]]
  BY EnteredDefinition
<1> HIDE DEF row, q, c
<1>7. \A b \in Bins : /\ page.posted[b] \in Int /\ book.posted[b] \in Int
                      /\ other.posted[b] \in Int
  BY DEF Entries
<1>10. /\ s.rows = [b \in Bins |-> IF b \in H THEN page.rows[b] ELSE other.rows[b]]
       /\ s.posted = [b \in Bins |-> other.posted[b] + (page.posted[b] - book.posted[b])]
  BY DEF Shifted
<1>11. /\ e.rows = [page.rows EXCEPT ![c] = row]
       /\ e.posted = [page.posted EXCEPT ![c] = page.posted[c] + q]
       /\ e.ok
  BY <1>6
<1>12. page.rows \in [Bins -> [onHand : Int, reserved : Int]] /\ page.posted \in [Bins -> Int]
  BY DEF Entries
<1> HIDE DEF s, e
<1>8. [s.rows EXCEPT ![c] = row] =
        [b \in Bins |-> IF b \in H THEN e.rows[b] ELSE other.rows[b]]
  BY <1>1, <1>10, <1>11, <1>12
<1>9. [s.posted EXCEPT ![c] = s.posted[c] + q] =
        [b \in Bins |-> other.posted[b] + (e.posted[b] - book.posted[b])]
  <2> DEFINE new == [b \in Bins |-> other.posted[b] + (e.posted[b] - book.posted[b])]
  <2>1. s.posted[c] + q = new[c]
    BY <1>1, <1>3, <1>7, <1>10, <1>11, <1>12
  <2>2. \A b \in Bins \ {c} : s.posted[b] = new[b]
    BY <1>1, <1>10, <1>11, <1>12
  <2>3. DOMAIN s.posted = Bins /\ DOMAIN new = Bins
    BY <1>10
  <2> QED
    BY <1>1, <1>10, <2>1, <2>2, <2>3
<1>13. Shifted(e, book, other, H) = Book!Entered(s, op)
  BY <1>5, <1>8, <1>9, <1>11 DEF Shifted
<1> QED
  BY <1>13 DEF s, e

(* A plan that touches only the bins of H goes on in the same way whatever *)
(* happens to the other bins.                                              *)
LEMMA PagesShift ==
    ASSUME NEW H \in SUBSET Bins, NEW plan \in Seq(Operation), NEW k \in 0..Len(plan),
           \A i \in 1..k : plan[i].bin \in H,
           NEW book \in Entries, NEW other \in Entries, book.ok, other.ok,
           \A b \in H : book.rows[b] = other.rows[b],
           Book!Pages(book, plan)[k].ok
    PROVE  Book!Pages(other, plan)[k] = Shifted(Book!Pages(book, plan)[k], book, other, H)
<1> DEFINE page == Book!Pages(book, plan)
           leaf == Book!Pages(other, plan)
           F == {i \in 0..k : page[i].ok => leaf[i] = Shifted(page[i], book, other, H)}
<1>1. k \in Nat /\ Len(plan) \in Nat
  OBVIOUS
<1>2. /\ page = [i \in 0..Len(plan) |-> IF i = 0 THEN book ELSE Book!Entered(page[i - 1], plan[i])]
      /\ leaf = [i \in 0..Len(plan) |-> IF i = 0 THEN other ELSE Book!Entered(leaf[i - 1], plan[i])]
      /\ \A i \in 0..Len(plan) : page[i] \in Entries
  BY PagesFollow, PagesAreBooks
<1> HIDE DEF page, leaf
<1>3. 0 \in F
  <2>1. page[0] = book /\ leaf[0] = other
    BY <1>1, <1>2
  <2>2. \A b \in Bins : book.posted[b] \in Int /\ other.posted[b] \in Int
    BY DEF Entries
  <2>3. other = [ok |-> other.ok, rows |-> other.rows, posted |-> other.posted]
    BY DEF Entries
  <2>4. other.rows = [b \in Bins |-> IF b \in H THEN book.rows[b] ELSE other.rows[b]]
    BY DEF Entries
  <2>5. other.posted = [b \in Bins |-> other.posted[b] + (book.posted[b] - book.posted[b])]
    <3>1. \A b \in Bins : other.posted[b] + (book.posted[b] - book.posted[b]) = other.posted[b]
      BY <2>2
    <3>2. other.posted = [b \in Bins |-> other.posted[b]]
      BY DEF Entries
    <3> QED
      BY <3>1, <3>2
  <2>6. other = Shifted(book, book, other, H)
    BY <2>3, <2>4, <2>5 DEF Shifted
  <2> QED
    BY <1>1, <2>1, <2>6
<1>4. ASSUME NEW i \in 0..k, i + 1 \in 0..k, i \in F PROVE i + 1 \in F
  <2>1. /\ page[i + 1] = Book!Entered(page[i], plan[i + 1])
        /\ leaf[i + 1] = Book!Entered(leaf[i], plan[i + 1])
    BY <1>2, <1>4
  <2>2. plan[i + 1] \in Operation /\ plan[i + 1].bin \in H /\ page[i] \in Entries
    BY <1>2, <1>4
  <2>3. SUFFICES ASSUME page[i + 1].ok
                 PROVE  leaf[i + 1] = Shifted(page[i + 1], book, other, H)
    BY <1>4
  <2>4. page[i].ok /\ Accepts(page[i].rows[plan[i + 1].bin], plan[i + 1])
    <3>1. [page[i] EXCEPT !.ok = FALSE].ok = FALSE
      BY <2>2 DEF Entries
    <3> QED
      BY <2>1, <2>3, <3>1, EnteredDefinition
  <2>5. leaf[i] = Shifted(page[i], book, other, H)
    BY <1>4, <2>4
  <2> QED
    BY <2>1, <2>2, <2>4, <2>5, EnteredShifts
<1> HIDE DEF F
<1>5. \A i \in 0..k : i \in F
  BY <1>1, <1>3, <1>4, PrefixInduction
<1>6. k \in F
  BY <1>1, <1>5
<1> QED
  BY <1>6 DEF F, page, leaf

(* The committed rows and ledger are a book.                               *)
LEMMA OpenedIsABook ==
    ASSUME TypeOK
    PROVE  Book!Opened \in Entries /\ Book!Opened.ok
<1>1. MaxQuantity \in Nat
  BY MaxQuantityAssumption
<1>2. Row \subseteq [onHand : Int, reserved : Int]
  BY <1>1 DEF Row
<1>3. rows \in [Bins -> [onHand : Int, reserved : Int]]
  BY <1>2 DEF TypeOK
<1> QED
  BY <1>3 DEF TypeOK, Book!Opened, Entries

(* They still are after a step.                                            *)
LEMMA OpenedNextIsABook ==
    ASSUME TypeOK'
    PROVE  Book!Opened' \in Entries /\ Book!Opened'.ok
<1>1. MaxQuantity \in Nat
  BY MaxQuantityAssumption
<1>2. Row \subseteq [onHand : Int, reserved : Int]
  BY <1>1 DEF Row
<1>3. rows' \in [Bins -> [onHand : Int, reserved : Int]]
  BY <1>2 DEF TypeOK
<1> QED
  BY <1>3 DEF TypeOK, Book!Opened, Entries

(* A step that leaves a transaction and the committed rows alone leaves it *)
(* where it is on its plan.                                                *)
LEMMA OnPlanStays ==
    ASSUME NEW u \in Txs, NEW plan, NEW k, OnPlan(u, plan, k),
           UNCHANGED <<rows, posted>>, todo'[u] = todo[u], held'[u] = held[u],
           work'[u] = work[u], pending'[u] = pending[u]
    PROVE  OnPlan(u, plan, k)'
<1>1. Published(u)' = Published(u) /\ Explained(u)' = Explained(u)
  BY DEF Published, Explained, HasLock
<1>2. Book!Opened' = Book!Opened
  BY DEF Book!Opened
<1>3. Book!Pages(Book!Opened, plan)' = Book!Pages(Book!Opened, plan)
  BY <1>2 
<1> QED
  BY <1>1, <1>3 DEF OnPlan

-----------------------------------------------------------------------------
(* Before anything is begun there is nothing to follow.                    *)
LEMMA InitFollowsPlans == Init => FollowsPlans
BY DEF Init, FollowsPlans, RunsAPlan, ClosedHoldsNothing

(* A transaction that stays as it was goes on with its plan.               *)
LEMMA OthersFollowPlans ==
    ASSUME NEW u \in open, open \subseteq Txs, RunsAPlan,
           UNCHANGED <<rows, posted>>, todo'[u] = todo[u], held'[u] = held[u],
           work'[u] = work[u], pending'[u] = pending[u]
    PROVE  \E plan \in Plans : \E k \in 0..Len(plan) : OnPlan(u, plan, k)'
<1>1a. PICK plan \in Plans : \E k \in 0..Len(plan) : OnPlan(u, plan, k)
  BY DEF RunsAPlan
<1>1. PICK k \in 0..Len(plan) : OnPlan(u, plan, k)
  BY <1>1a
<1>2. OnPlan(u, plan, k)'
  BY <1>1, OnPlanStays
<1> QED
  BY <1>2

(* A transaction that begins has none of its plan behind it.               *)
LEMMA BeginFollowsPlans ==
    ASSUME IInv, FollowsPlans, NEW t \in Txs, NEW plan \in Plans, Begin(t, plan)
    PROVE  FollowsPlans'
<1>1. /\ t \notin open /\ open' = open \cup {t}
      /\ todo' = [todo EXCEPT ![t] = plan]
      /\ UNCHANGED <<rows, posted, held, work, pending>>
  BY DEF Begin
<1>2. TypeOK /\ plan \in Seq(Operation)
  BY PlansAssumption DEF IInv
<1>3. held[t] = {} /\ \A b \in Bins : pending[t][b] = 0
  BY <1>1 DEF FollowsPlans, ClosedHoldsNothing, IInv, EntriesOnlyWhereHeld
<1>4. todo'[t] = plan /\ \A u \in Txs \ {t} : todo'[u] = todo[u]
  BY <1>1, <1>2 DEF TypeOK
<1>5. Book!Pages(Book!Opened, plan)[0] = Book!Opened
  BY <1>2, PagesFollow
<1>6. Book!Opened = [ok |-> TRUE, rows |-> Published(t), posted |-> Explained(t)]
  <2>1. Published(t) = rows
    BY <1>2, <1>3 DEF Published, HasLock, TypeOK
  <2>2. Explained(t) = posted
    BY <1>2, <1>3 DEF Explained, TypeOK
  <2> QED
    BY <2>1, <2>2 DEF Book!Opened
<1>7. OnPlan(t, plan, 0)'
  <2>1. Book!Opened' = Book!Opened /\ Published(t)' = Published(t) /\ Explained(t)' = Explained(t)
    BY <1>1 DEF Book!Opened, Published, Explained, HasLock
  <2>2. Len(plan) \in Nat /\ \A i \in 1..Len(plan) : plan[0 + i] = plan[i]
    BY <1>2
  <2> QED
    BY <1>4, <1>5, <1>6, <2>1, <2>2 DEF OnPlan
<1>8. 0 \in 0..Len(plan)
  BY <1>2
<1>9. ASSUME NEW u \in open
      PROVE  \E p \in Plans : \E k \in 0..Len(p) : OnPlan(u, p, k)'
  BY <1>1, <1>2, <1>4, OthersFollowPlans DEF FollowsPlans, TypeOK
<1>10. RunsAPlan'
  <2> SUFFICES ASSUME NEW u \in open'
               PROVE  \E p \in Plans : \E k \in 0..Len(p) : OnPlan(u, p, k)'
    BY DEF RunsAPlan
  <2>1. CASE u = t
    BY <1>7, <1>8, <2>1
  <2>2. CASE u # t
    BY <1>1, <1>9, <2>2
  <2> QED
    BY <2>1, <2>2
<1>11. ClosedHoldsNothing'
  BY <1>1 DEF FollowsPlans, ClosedHoldsNothing
<1> QED
  BY <1>10, <1>11 DEF FollowsPlans

(* Reading a row under its lock publishes nothing new.                     *)
LEMMA LockFollowsPlans ==
    ASSUME IInv, FollowsPlans, NEW t \in Txs, LockBalance(t)
    PROVE  FollowsPlans'
<1> DEFINE b == Operand(t).bin
<1>1. TypeOK /\ t \in open /\ b \in Bins /\ b \notin held[t]
  <2>1. TypeOK /\ Operand(t) \in Operation
    BY DEF LockBalance, AtOperation, Operand, IInv, TypeOK
  <2> QED
    BY <2>1 DEF Operation, LockBalance, AtOperation, HasLock
<1>2. /\ held' = [held EXCEPT ![t] = @ \cup {b}]
      /\ work' = [work EXCEPT ![t][b] = rows[b]]
      /\ UNCHANGED <<rows, posted, open, todo, pending>>
  BY DEF LockBalance
<1> HIDE DEF b
<1>3a. PICK plan \in Plans : \E k \in 0..Len(plan) : OnPlan(t, plan, k)
  BY <1>1 DEF FollowsPlans, RunsAPlan
<1>3. PICK k \in 0..Len(plan) : OnPlan(t, plan, k)
  BY <1>3a
<1>4. OnPlan(t, plan, k)'
  <2>1. Published(t)' = Published(t)
    BY <1>1, <1>2 DEF Published, HasLock, TypeOK
  <2>2. Explained(t)' = Explained(t) /\ Book!Opened' = Book!Opened
    BY <1>2 DEF Explained, Book!Opened
  <2>3. held[t] \subseteq held'[t] /\ todo' = todo
    BY <1>1, <1>2 DEF TypeOK
  <2> QED
    BY <1>3, <2>1, <2>2, <2>3 DEF OnPlan
<1>5. ASSUME NEW u \in open, u # t
      PROVE  \E p \in Plans : \E j \in 0..Len(p) : OnPlan(u, p, j)'
  <2>1. held'[u] = held[u] /\ work'[u] = work[u]
    BY <1>1, <1>2, <1>5 DEF TypeOK
  <2> QED
    BY <1>1, <1>2, <2>1, OthersFollowPlans DEF FollowsPlans, TypeOK
<1>6. RunsAPlan'
  BY <1>2, <1>4, <1>5 DEF RunsAPlan
<1>7. ClosedHoldsNothing'
  BY <1>1, <1>2 DEF FollowsPlans, ClosedHoldsNothing, TypeOK
<1> QED
  BY <1>6, <1>7 DEF FollowsPlans

(* An operation performed is the next page of the plan.                    *)
LEMMA PerformFollowsPlans ==
    ASSUME IInv, FollowsPlans, NEW t \in Txs, Perform(t)
    PROVE  FollowsPlans'
<1> DEFINE op == Operand(t)
           b  == op.bin
<1>1. TypeOK /\ t \in open /\ op \in Operation /\ todo[t] # <<>> /\ todo[t] \in Seq(Operation)
  BY DEF Perform, AtOperation, Operand, IInv, TypeOK
<1>2. b \in Bins /\ b \in held[t] /\ Accepts(work[t][b], op)
  BY <1>1 DEF Operation, Perform, HasLock
<1>3. /\ work' = [work EXCEPT ![t][b] = Performed(work[t][b], op)]
      /\ pending' = [pending EXCEPT ![t][b] = pending[t][b] + LedgerQuantity(op)]
      /\ todo' = [todo EXCEPT ![t] = Tail(todo[t])]
      /\ UNCHANGED <<rows, posted, open, held>>
  BY <1>1, <1>2 DEF Perform, TypeOK
<1>4. op = todo[t][1]
  BY <1>1 DEF Operand
<1>5. LedgerQuantity(op) \in Int
  <2>1. MaxQuantity \in Nat
    BY MaxQuantityAssumption
  <2>2. EmptyRow \in [onHand : Int, reserved : Int]
    BY DEF EmptyRow
  <2> QED
    BY <1>1, <2>2, EntryOfOperation
<1> HIDE DEF op, b
<1>6a. PICK plan \in Plans : \E k \in 0..Len(plan) : OnPlan(t, plan, k)
  BY <1>1 DEF FollowsPlans, RunsAPlan
<1>6. PICK k \in 0..Len(plan) : OnPlan(t, plan, k)
  BY <1>6a
<1>7. plan \in Seq(Operation)
  BY PlansAssumption
<1>8. /\ k + 1 \in 0..Len(plan) /\ plan[k + 1] = op /\ todo'[t] = Tail(todo[t])
      /\ Len(todo'[t]) = Len(plan) - (k + 1)
      /\ \A i \in 1..Len(todo'[t]) : todo'[t][i] = plan[(k + 1) + i]
  <2>1. Len(plan) \in Nat /\ Len(todo[t]) \in Nat /\ Len(todo[t]) > 0 /\ k \in Nat
    BY <1>1, <1>7
  <2>2. Len(todo[t]) = Len(plan) - k /\ \A i \in 1..Len(todo[t]) : todo[t][i] = plan[k + i]
    BY <1>6 DEF OnPlan
  <2>3. todo'[t] = Tail(todo[t])
    BY <1>1, <1>3 DEF TypeOK
  <2>4. /\ Len(Tail(todo[t])) = Len(todo[t]) - 1
        /\ \A i \in 1..Len(todo[t]) - 1 : Tail(todo[t])[i] = todo[t][i + 1]
    BY <1>1
  <2>5. k + 1 \in 0..Len(plan) /\ plan[k + 1] = op
    BY <1>4, <2>1, <2>2
  <2>6. Len(todo'[t]) = Len(plan) - (k + 1)
    BY <2>1, <2>2, <2>3, <2>4
  <2>7. ASSUME NEW i \in 1..Len(todo'[t]) PROVE todo'[t][i] = plan[(k + 1) + i]
    <3>1. i \in 1..Len(todo[t]) - 1 /\ i + 1 \in 1..Len(todo[t])
      BY <2>1, <2>3, <2>4
    <3>2. todo'[t][i] = todo[t][i + 1]
      BY <2>3, <2>4, <3>1
    <3>3. todo[t][i + 1] = plan[k + (i + 1)]
      BY <2>2, <3>1
    <3>4. k + (i + 1) = (k + 1) + i
      BY <2>1, <3>1
    <3> QED
      BY <3>2, <3>3, <3>4
  <2> QED
    BY <2>3, <2>5, <2>6, <2>7
<1>9. OnPlan(t, plan, k + 1)'
  <2> DEFINE page == Book!Pages(Book!Opened, plan)
  <2>1. page[k] = [ok |-> TRUE, rows |-> Published(t), posted |-> Explained(t)]
    BY <1>6 DEF OnPlan
  <2>2. page[k + 1] = Book!Entered(page[k], op)
    <3>1. page = [i \in 0..Len(plan) |-> IF i = 0 THEN Book!Opened ELSE Book!Entered(page[i - 1], plan[i])]
      BY <1>7, PagesFollow
    <3>2. k \in Nat /\ (k + 1) - 1 = k /\ k + 1 # 0
      BY <1>7
    <3> HIDE DEF page
    <3> QED
      BY <1>8, <3>1, <3>2
  <2> HIDE DEF page
  <2>3. page[k].ok /\ page[k].rows[b] = work[t][b]
    BY <1>2, <2>1 DEF Published, HasLock
  <2>4. page[k + 1] =
          [ok     |-> TRUE,
           rows   |-> [Published(t) EXCEPT ![b] = Performed(work[t][b], op)],
           posted |-> [Explained(t) EXCEPT ![b] = Explained(t)[b] + LedgerQuantity(op)]]
    <3>1. page[k].rows = Published(t) /\ page[k].posted = Explained(t)
      BY <2>1
    <3>2. op.bin = b
      BY DEF b
    <3>3. page[k + 1] =
            [ok     |-> TRUE,
             rows   |-> [page[k].rows EXCEPT ![op.bin] = Performed(page[k].rows[op.bin], op)],
             posted |-> [page[k].posted EXCEPT ![op.bin] = page[k].posted[op.bin] + LedgerQuantity(op)]]
      BY <1>2, <2>2, <2>3, <3>2, EnteredDefinition
    <3> QED
      BY <2>3, <3>1, <3>2, <3>3
  <2>5. Published(t)' = [Published(t) EXCEPT ![b] = Performed(work[t][b], op)]
    BY <1>1, <1>2, <1>3 DEF Published, HasLock, TypeOK
  <2>6. Explained(t)' = [Explained(t) EXCEPT ![b] = Explained(t)[b] + LedgerQuantity(op)]
    <3>1. /\ posted \in [Bins -> Int] /\ pending[t] \in [Bins -> Int]
          /\ pending'[t] = [pending[t] EXCEPT ![b] = pending[t][b] + LedgerQuantity(op)]
      BY <1>1, <1>3 DEF TypeOK
    <3>2. posted[b] + (pending[t][b] + LedgerQuantity(op))
            = (posted[b] + pending[t][b]) + LedgerQuantity(op)
      BY <1>2, <1>5, <3>1
    <3>3. Explained(t) = [c \in Bins |-> posted[c] + pending[t][c]]
      BY DEF Explained
    <3>4. Explained(t)' = [c \in Bins |-> posted[c] + pending'[t][c]]
      BY <1>3 DEF Explained
    <3> QED
      BY <1>2, <3>1, <3>2, <3>3, <3>4
  <2>7. page' = page
    <3>1. Book!Opened' = Book!Opened
      BY <1>3 DEF Book!Opened
    <3> QED
      BY <3>1 DEF page
  <2>8. \A i \in 1..(k + 1) : plan[i].bin \in held[t]
    <3>1. \A i \in 1..k : plan[i].bin \in held[t]
      BY <1>6 DEF OnPlan
    <3>2. plan[k + 1].bin \in held[t]
      BY <1>2, <1>8 DEF b
    <3>3. k \in Nat
      BY <1>7
    <3> QED
      BY <3>1, <3>2, <3>3
  <2>9. Book!Pages(Book!Opened, plan)'[k + 1] =
          [ok |-> TRUE, rows |-> Published(t)', posted |-> Explained(t)']
    BY <2>4, <2>5, <2>6, <2>7 DEF page
  <2> QED
    BY <1>3, <1>8, <2>8, <2>9 DEF OnPlan
<1>10. ASSUME NEW u \in open, u # t
       PROVE  \E p \in Plans : \E j \in 0..Len(p) : OnPlan(u, p, j)'
  <2>1. todo'[u] = todo[u] /\ work'[u] = work[u] /\ pending'[u] = pending[u]
    BY <1>1, <1>3, <1>10 DEF TypeOK
  <2> QED
    BY <1>1, <1>3, <2>1, OthersFollowPlans DEF FollowsPlans, TypeOK
<1>11. RunsAPlan'
  BY <1>3, <1>8, <1>9, <1>10 DEF RunsAPlan
<1>12. ClosedHoldsNothing'
  BY <1>3 DEF FollowsPlans, ClosedHoldsNothing
<1> QED
  BY <1>11, <1>12 DEF FollowsPlans

(* Ending a transaction changes no other.                                  *)
LEMMA ClosingKeepsOthersPlans ==
    ASSUME TypeOK, ClosedHoldsNothing, NEW t \in Txs, Closed(t)
    PROVE  /\ open' = open \ {t}
           /\ \A u \in open' : /\ u \in open /\ u \in Txs \ {t} /\ todo'[u] = todo[u]
                               /\ held'[u] = held[u] /\ work'[u] = work[u]
                               /\ pending'[u] = pending[u]
           /\ ClosedHoldsNothing'
BY DEF TypeOK, Closed, ClosedHoldsNothing

(* A rollback leaves the book to the others as it was.                     *)
LEMMA RollbackFollowsPlans ==
    ASSUME IInv, FollowsPlans, NEW t \in Txs, RolledBack(t)
    PROVE  FollowsPlans'
<1>1. TypeOK /\ RunsAPlan /\ ClosedHoldsNothing
  BY DEF IInv, FollowsPlans
<1>2. Closed(t) /\ UNCHANGED <<rows, posted>>
  BY DEF RolledBack
<1>3. /\ ClosedHoldsNothing'
      /\ \A u \in open' : /\ u \in open /\ todo'[u] = todo[u] /\ held'[u] = held[u]
                          /\ work'[u] = work[u] /\ pending'[u] = pending[u]
  BY <1>1, <1>2, ClosingKeepsOthersPlans
<1>4. ASSUME NEW u \in open'
      PROVE  \E p \in Plans : \E j \in 0..Len(p) : OnPlan(u, p, j)'
  <2>1. open \subseteq Txs /\ u \in open
    BY <1>1, <1>3 DEF TypeOK
  <2> QED
    BY <1>1, <1>2, <1>3, <2>1, OthersFollowPlans
<1> QED
  BY <1>3, <1>4 DEF FollowsPlans, RunsAPlan

(* A commit changes the rows that others see, never those they hold.       *)
LEMMA CommitFollowsPlans ==
    ASSUME IInv, FollowsPlans, NEW t \in Txs, Commit(t)
    PROVE  FollowsPlans'
<1>1. TypeOK /\ RunsAPlan /\ ClosedHoldsNothing /\ OneHolder /\ TypeOK'
  BY CommitKeepsInvariant DEF IInv, FollowsPlans
<1>2. /\ Closed(t) /\ t \in open
      /\ rows' = [b \in Bins |-> IF b \in held[t] THEN work[t][b] ELSE rows[b]]
      /\ posted' = [b \in Bins |-> posted[b] + pending[t][b]]
  BY DEF Commit, Finished, HasLock
<1>3. /\ ClosedHoldsNothing'
      /\ \A u \in open' : /\ u \in open /\ u \in Txs \ {t} /\ todo'[u] = todo[u]
                          /\ held'[u] = held[u] /\ work'[u] = work[u]
                          /\ pending'[u] = pending[u]
  BY <1>1, <1>2, ClosingKeepsOthersPlans
<1>4. ASSUME NEW u \in open'
      PROVE  \E p \in Plans : \E j \in 0..Len(p) : OnPlan(u, p, j)'
  <2>1. /\ u \in open /\ u \in Txs /\ u # t /\ todo'[u] = todo[u]
        /\ held'[u] = held[u] /\ work'[u] = work[u] /\ pending'[u] = pending[u]
    BY <1>3
  <2>2a. PICK plan \in Plans : \E k \in 0..Len(plan) : OnPlan(u, plan, k)
    BY <1>1, <2>1 DEF RunsAPlan
  <2>2. PICK k \in 0..Len(plan) : OnPlan(u, plan, k)
    BY <2>2a
  <2> DEFINE book  == Book!Opened
             other == Book!Opened'
             H     == held[u]
             page  == Book!Pages(book, plan)[k]
  <2>3. book \in Entries /\ book.ok /\ other \in Entries /\ other.ok
    BY <1>1, OpenedIsABook, OpenedNextIsABook
  <2>4. H \in SUBSET Bins /\ \A b \in H : b \in Bins /\ b \notin held[t]
    BY <1>1, <2>1 DEF TypeOK, OneHolder
  <2>5. \A b \in H : rows'[b] = rows[b]
    BY <1>2, <2>4
  <2>6. book.rows = rows /\ other.rows = rows' /\ book.posted = posted /\ other.posted = posted'
    BY DEF Book!Opened
  <2>7. plan \in Seq(Operation) /\ \A i \in 1..k : plan[i].bin \in H
    BY <2>2, PlansAssumption DEF OnPlan
  <2>8. page = [ok |-> TRUE, rows |-> Published(u), posted |-> Explained(u)]
    BY <2>2 DEF OnPlan
  <2>9. page.ok
    BY <2>8
  <2>10. \A b \in H : book.rows[b] = other.rows[b]
    BY <2>5, <2>6
  <2> HIDE DEF book, other, H
  <2>11. Book!Pages(other, plan)[k] = Shifted(page, book, other, H)
    BY <2>3, <2>4, <2>7, <2>9, <2>10, PagesShift
  <2> HIDE DEF page
  <2>12. Published(u)' = [b \in Bins |-> IF b \in H THEN page.rows[b] ELSE other.rows[b]]
    <3>1. \A b \in Bins : HasLock(u, b)' <=> b \in H
      BY <2>1 DEF HasLock, H
    <3>2. \A b \in H : page.rows[b] = work[u][b]
      BY <2>4, <2>8 DEF Published, HasLock, H
    <3>3. Published(u)' = [b \in Bins |-> IF HasLock(u, b)' THEN work'[u][b] ELSE rows'[b]]
      BY DEF Published
    <3> QED
      BY <2>1, <2>6, <3>1, <3>2, <3>3
  <2>13. Explained(u)' = [b \in Bins |-> other.posted[b] + (page.posted[b] - book.posted[b])]
    <3>1. posted \in [Bins -> Int] /\ pending[u] \in [Bins -> Int]
      BY <1>1, <2>1 DEF TypeOK
    <3>2. \A b \in Bins : page.posted[b] - book.posted[b] = pending[u][b]
      BY <2>6, <2>8, <3>1 DEF Explained
    <3>3. Explained(u)' = [b \in Bins |-> posted'[b] + pending'[u][b]]
      BY DEF Explained
    <3> QED
      BY <2>1, <2>6, <3>2, <3>3
  <2>14. Book!Pages(Book!Opened, plan)'[k] =
           [ok |-> TRUE, rows |-> Published(u)', posted |-> Explained(u)']
    <3>1. Book!Pages(other, plan)[k] =
            [ok |-> TRUE, rows |-> Published(u)', posted |-> Explained(u)']
      BY <2>11, <2>12, <2>13 DEF Shifted
    <3> QED
      BY <3>1 DEF other
  <2>15. OnPlan(u, plan, k)'
    BY <2>1, <2>2, <2>14 DEF OnPlan
  <2> QED
    BY <2>15
<1> QED
  BY <1>3, <1>4 DEF FollowsPlans, RunsAPlan

(* Each step keeps every open transaction on its plan.                     *)
LEMMA NextFollowsPlans ==
    IInv /\ FollowsPlans /\ [Next]_vars => FollowsPlans'
<1> SUFFICES ASSUME IInv, FollowsPlans, [Next]_vars PROVE FollowsPlans'
  OBVIOUS
<1>1. ASSUME NEW t \in Txs, Step(t) PROVE FollowsPlans'
  <2>1. ASSUME NEW plan \in Plans, Begin(t, plan) PROVE FollowsPlans'
    BY <2>1, BeginFollowsPlans
  <2>2. CASE LockBalance(t)
    BY <2>2, LockFollowsPlans
  <2>3. CASE Perform(t)
    BY <2>3, PerformFollowsPlans
  <2>4. CASE Commit(t)
    BY <2>4, CommitFollowsPlans
  <2>5. CASE Refuse(t) \/ Abort(t) \/ DeadlockVictim(t)
    BY <2>5, RollbackFollowsPlans DEF Refuse, Abort, DeadlockVictim
  <2> QED
    BY <1>1, <2>1, <2>2, <2>3, <2>4, <2>5 DEF Step
<1>2. CASE UNCHANGED vars
  <2>1. ASSUME NEW u \in open
        PROVE  \E p \in Plans : \E k \in 0..Len(p) : OnPlan(u, p, k)'
    BY <1>2, <2>1, OthersFollowPlans DEF vars, FollowsPlans, IInv, TypeOK
  <2> QED
    BY <1>2, <2>1 DEF vars, FollowsPlans, RunsAPlan, ClosedHoldsNothing
<1> QED
  BY <1>1, <1>2 DEF Next

(* A commit posts the whole plan at once; no other step shows.             *)
LEMMA StepImplementsBook ==
    IInv /\ FollowsPlans /\ [Next]_vars => [Book!Next]_Book!bookVars
<1> SUFFICES ASSUME IInv, FollowsPlans, [Next]_vars
             PROVE  Book!Next \/ UNCHANGED <<rows, posted>>
  BY DEF Book!bookVars
<1>1. ASSUME NEW t \in Txs, Commit(t) PROVE Book!Next
  <2>1. TypeOK /\ t \in open /\ todo[t] = <<>>
    BY <1>1 DEF Commit, Finished, IInv
  <2>2a. PICK plan \in Plans : \E k \in 0..Len(plan) : OnPlan(t, plan, k)
    BY <2>1 DEF FollowsPlans, RunsAPlan
  <2>2. PICK k \in 0..Len(plan) : OnPlan(t, plan, k)
    BY <2>2a
  <2>3. plan \in Seq(Operation)
    BY PlansAssumption
  <2>4. k = Len(plan)
    <3>1. Len(plan) \in Nat /\ k \in Nat /\ Len(todo[t]) = 0
      BY <2>1, <2>3
    <3> QED
      BY <2>2, <3>1 DEF OnPlan
  <2>5. Book!Outcome(plan) = [ok |-> TRUE, rows |-> Published(t), posted |-> Explained(t)]
    BY <2>2, <2>4 DEF OnPlan, Book!Outcome
  <2>6. rows' = Published(t) /\ posted' = Explained(t)
    BY <1>1 DEF Commit, Published, Explained
  <2>7. Book!Post(plan)
    BY <2>5, <2>6 DEF Book!Post
  <2> QED
    BY <2>7 DEF Book!Next
<1>2. ASSUME NEW t \in Txs, Step(t), ~Commit(t) PROVE UNCHANGED <<rows, posted>>
  BY <1>2 DEF Step, Begin, LockBalance, Perform, Refuse, Abort, DeadlockVictim, RolledBack
<1>3. CASE UNCHANGED vars
  BY <1>3 DEF vars
<1> QED
  BY <1>1, <1>2, <1>3 DEF Next

(* At all times what an open transaction would publish is its plan so far. *)
LEMMA PlansAreFollowed == Spec => []FollowsPlans
<1>1. Init => FollowsPlans
  BY InitFollowsPlans
<1>2. IInv /\ FollowsPlans /\ [Next]_vars => FollowsPlans'
  BY NextFollowsPlans
<1> QED
  BY <1>1, <1>2, InvariantHolds, PTL DEF Spec

(* Whatever transactions overlap, wait, deadlock or roll back: all that    *)
(* shows of them in the balances and the ledger is whole plans, entered    *)
(* one after another, each on the rows the one before it left.             *)
THEOREM LedgerImplementsBook == Spec => ImplementsBook
<1>1. Init => Book!Init
  BY DEF Init, Book!Init, EmptyRow, Book!EmptyRow
<1>2. IInv /\ FollowsPlans /\ [Next]_vars => [Book!Next]_Book!bookVars
  BY StepImplementsBook
<1> QED
  BY <1>1, <1>2, InvariantHolds, PlansAreFollowed, PTL DEF Spec, ImplementsBook, Book!Spec
=============================================================================
