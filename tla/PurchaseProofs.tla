--------------------------- MODULE PurchaseProofs ---------------------------
(***************************************************************************)
(* Proofs about Purchase, for any users, books, sessions and prices.       *)
(*                                                                         *)
(* The inductive invariant is TypeOK /\ SnapshotCurrent /\                 *)
(* NoDoublePurchase: the last one is preserved by CommitPurchase only      *)
(* because the transaction's snapshot is still current when it writes.     *)
(***************************************************************************)
EXTENDS Purchase, TLAPS

(* What the queries read is unchanged while the tables they read are. *)
LEMMA QueriesUnchanged ==
  ASSUME UNCHANGED <<active, deleted, price, cart, library>>, NEW u \in User
  PROVE  /\ ValidRows(u)' = ValidRows(u)
         /\ CartTotal(u)' = CartTotal(u)
         /\ Owned(u)' = Owned(u)
<1>1. ValidRows(u)' = ValidRows(u)
  BY DEF ValidRows, Listed
<1>2. CartTotal(u)' = CartTotal(u)
  BY <1>1 DEF CartTotal
<1>3. Owned(u)' = Owned(u)
  BY DEF Owned
<1>4. QED
  BY <1>1, <1>2, <1>3

(* The valid rows of a cart are rows. *)
LEMMA ValidRowsType ==
  ASSUME TypeOK, NEW u \in User
  PROVE  ValidRows(u) \in Rows
BY DEF TypeOK, Rows, ValidRows

(* The flags a commit raises are Booleans. *)
LEMMA CommittedType == Committed => stale' \in [Session -> BOOLEAN]
BY Zenon DEF Committed

-----------------------------------------------------------------------------
(* Type correctness. *)

LEMMA InitType == Init => TypeOK
BY SessionAssumption DEF Init, TypeOK, Rows, NoRows, NoSnap

(* A step preserves the types. *)
LEMMA NextType == TypeOK /\ [Next]_vars => TypeOK'
<1> SUFFICES ASSUME TypeOK, [Next]_vars PROVE TypeOK'
  OBVIOUS
<1> USE SessionAssumption
<1>0. NoRows \in Rows /\ NoSnap \in [rows : Rows, owned : SUBSET Book]
  BY DEF NoRows, NoSnap, Rows
<1>1. ASSUME NEW s \in Session, NEW b \in Book, AddToCart(s, b) PROVE TypeOK'
  <2>1. CASE active[b]
    <3>1. cart' = [cart EXCEPT ![UserOf[s]][b] = @ + 1] /\ Committed
      BY <1>1, <2>1 DEF AddToCart
    <3>2. cart' \in [User -> Rows]
      BY <3>1 DEF TypeOK, Rows
    <3>3. QED
      BY <1>1, <3>1, <3>2, CommittedType DEF AddToCart, TypeOK, bookVars, workVars
  <2>2. CASE ~active[b]
    BY <1>1, <2>2 DEF AddToCart, TypeOK, bookVars, workVars
  <2>3. QED
    BY <2>1, <2>2
<1>2. ASSUME NEW s \in Session, NEW b \in Book, RemoveFromCart(s, b) PROVE TypeOK'
  <2>1. cart' \in [User -> Rows]
    BY <1>2 DEF RemoveFromCart, TypeOK, Rows
  <2>2. QED
    BY <1>2, <2>1, CommittedType
    DEF RemoveFromCart, TypeOK, bookVars, workVars, boundVars
<1>3. ASSUME NEW s \in Session, GetCart(s) PROVE TypeOK'
  BY <1>3 DEF GetCart, TypeOK, bookVars, workVars, boundVars
<1>4. ASSUME NEW s \in Session, ListSoldItems(s) PROVE TypeOK'
  <2>1. ValidRows(UserOf[s]) \in Rows
    BY ValidRowsType
  <2>2. QED
    BY <1>4, <2>1 DEF ListSoldItems, TypeOK, bookVars, boundVars
<1>5. ASSUME NEW s \in Session, BeginPurchase(s) PROVE TypeOK'
  <2>1. ValidRows(UserOf[s]) \in Rows /\ Owned(UserOf[s]) \in SUBSET Book
    BY ValidRowsType DEF Owned
  <2>2. [rows |-> ValidRows(UserOf[s]), owned |-> Owned(UserOf[s])]
          \in [rows : Rows, owned : SUBSET Book]
    BY <2>1
  <2>3. CASE CartTotal(UserOf[s]) = asked[s]
    BY <1>5, <2>2, <2>3 DEF BeginPurchase, TypeOK, bookVars, boundVars
  <2>4. CASE CartTotal(UserOf[s]) # asked[s]
    <3>1. GiveUp(s)
      BY <1>5, <2>4 DEF BeginPurchase
    <3>2. QED
      BY <1>0, <1>5, <3>1 DEF BeginPurchase, GiveUp, TypeOK, bookVars, boundVars
  <2>5. QED
    BY <2>3, <2>4
<1>6. ASSUME NEW s \in Session, CommitPurchase(s) PROVE TypeOK'
  <2>1. library' \in [User -> Rows] /\ cart' \in [User -> Rows]
    BY <1>0, <1>6 DEF CommitPurchase, TypeOK, Rows
  <2>2. QED
    BY <1>0, <1>6, <2>1, CommittedType
    DEF CommitPurchase, TypeOK, bookVars, boundVars
<1>7. ASSUME NEW s \in Session, RollBackPurchase(s) PROVE TypeOK'
  BY <1>0, <1>7 DEF RollBackPurchase, GiveUp, TypeOK, bookVars, boundVars
<1>8. ASSUME NEW s \in Session, NEW b \in Book, NotifyPublisher(s, b) PROVE TypeOK'
  <2>1. notes' \in Rows /\ soldItems' \in [Session -> Rows]
    BY <1>8 DEF NotifyPublisher, TypeOK, Rows
  <2>2. QED
    BY <1>8, <2>1, CommittedType
    DEF NotifyPublisher, TypeOK, bookVars, boundVars
<1>9. ASSUME NEW b \in Book, NEW p \in Price, ChangePrice(b, p) PROVE TypeOK'
  BY <1>9, CommittedType DEF ChangePrice, TypeOK, workVars, boundVars
<1>10. ASSUME NEW b \in Book, NEW on \in BOOLEAN, SetBookActiveState(b, on) PROVE TypeOK'
  BY <1>10, CommittedType DEF SetBookActiveState, TypeOK, workVars, boundVars
<1>11. ASSUME NEW b \in Book, DeleteBook(b) PROVE TypeOK'
  BY <1>11, CommittedType DEF DeleteBook, TypeOK, workVars, boundVars
<1>12. CASE OtherWrite
  BY <1>12, CommittedType DEF OtherWrite, TypeOK, bookVars, workVars, boundVars
<1>13. CASE Crash
  BY <1>0, <1>13 DEF Crash, TypeOK, bookVars
<1>14. CASE UNCHANGED vars
  BY <1>14 DEF vars, TypeOK
<1>15. QED
  BY <1>1, <1>2, <1>3, <1>4, <1>5, <1>6, <1>7, <1>8, <1>9, <1>10, <1>11,
     <1>12, <1>13, <1>14, BoundAssumption DEF Next, Finalize

(* Every reachable state is well typed. *)
THEOREM TypeCorrect == Spec => []TypeOK
BY InitType, NextType, PTL DEF Spec

-----------------------------------------------------------------------------
(* Snapshots. *)

(* After a commit no open snapshot counts as current. *)
LEMMA CommitInvalidates == Committed => SnapshotCurrent'
BY DEF Committed, SnapshotCurrent

(* A step of s that leaves the tables alone and the transactions of the other *)
(* sessions as they are keeps their snapshots current.                        *)
LEMMA OthersUndisturbed ==
  ASSUME TypeOK, SnapshotCurrent,
         UNCHANGED <<active, deleted, price, cart, library>>,
         NEW t \in Session,
         pc'[t] = pc[t], stale'[t] = stale[t],
         snap'[t] = snap[t], asked'[t] = asked[t],
         pc'[t] = "tx", ~stale'[t]
  PROVE  /\ snap'[t] = [rows |-> ValidRows(UserOf[t])', owned |-> Owned(UserOf[t])']
         /\ asked'[t] = CartTotal(UserOf[t])'
<1>1. UserOf[t] \in User
  BY SessionAssumption
<1>2. QED
  BY <1>1, QueriesUnchanged DEF SnapshotCurrent

LEMMA NextSnapshot == TypeOK /\ SnapshotCurrent /\ [Next]_vars => SnapshotCurrent'
<1> SUFFICES ASSUME TypeOK, SnapshotCurrent, [Next]_vars,
                    NEW t \in Session, pc'[t] = "tx", ~stale'[t]
             PROVE  /\ snap'[t] = [rows |-> ValidRows(UserOf[t])', owned |-> Owned(UserOf[t])']
                    /\ asked'[t] = CartTotal(UserOf[t])'
  BY DEF SnapshotCurrent
<1> DEFINE Goal == /\ snap'[t] = [rows |-> ValidRows(UserOf[t])', owned |-> Owned(UserOf[t])']
                   /\ asked'[t] = CartTotal(UserOf[t])'
<1>0. Committed => Goal
  BY CommitInvalidates DEF SnapshotCurrent
<1>1. ASSUME NEW s \in Session, NEW b \in Book, AddToCart(s, b) PROVE Goal
  <2>1. CASE active[b]
    BY <1>0, <1>1, <2>1 DEF AddToCart
  <2>2. CASE ~active[b]
    <3>1. UNCHANGED <<active, deleted, price, cart, library, workVars, stale>>
      BY <1>1, <2>2 DEF AddToCart, bookVars
    <3>2. QED
      BY <3>1, OthersUndisturbed DEF workVars
  <2>3. QED
    BY <2>1, <2>2
<1>2. ASSUME NEW s \in Session, GetCart(s) PROVE Goal
  BY <1>2, OthersUndisturbed DEF GetCart, bookVars, workVars
<1>3. ASSUME NEW s \in Session, ListSoldItems(s) PROVE Goal
  <2>1. s # t /\ pc'[t] = pc[t] /\ asked'[t] = asked[t]
    BY <1>3 DEF ListSoldItems, TypeOK
  <2>2. QED
    BY <1>3, <2>1, OthersUndisturbed DEF ListSoldItems, bookVars
<1>4. ASSUME NEW s \in Session, BeginPurchase(s) PROVE Goal
  <2>0. UNCHANGED <<active, deleted, price, cart, library>>
    BY <1>4 DEF BeginPurchase, bookVars
  <2>1. CASE s = t
    <3>1. CASE CartTotal(UserOf[s]) = asked[s]
      <4>1. /\ snap'[t] = [rows |-> ValidRows(UserOf[t]), owned |-> Owned(UserOf[t])]
            /\ asked'[t] = CartTotal(UserOf[t])
        BY <1>4, <2>1, <3>1 DEF BeginPurchase, TypeOK
      <4>2. QED
        BY <2>0, <4>1, QueriesUnchanged, SessionAssumption
    <3>2. CASE CartTotal(UserOf[s]) # asked[s]
      <4>1. pc'[t] = "idle"
        BY <1>4, <2>1, <3>2 DEF BeginPurchase, GiveUp, TypeOK
      <4>2. QED
        BY <4>1
    <3>3. QED
      BY <3>1, <3>2
  <2>2. CASE s # t
    <3>1. /\ pc'[t] = pc[t] /\ snap'[t] = snap[t]
          /\ stale'[t] = stale[t] /\ asked'[t] = asked[t]
      BY <1>4, <2>2 DEF BeginPurchase, GiveUp, TypeOK
    <3>2. QED
      BY <2>0, <3>1, OthersUndisturbed
  <2>3. QED
    BY <2>1, <2>2
<1>5. ASSUME NEW s \in Session, RollBackPurchase(s) PROVE Goal
  <2>1. s # t
    BY <1>5 DEF RollBackPurchase, GiveUp, TypeOK
  <2>2. /\ pc'[t] = pc[t] /\ snap'[t] = snap[t]
        /\ stale'[t] = stale[t] /\ asked'[t] = asked[t]
    BY <1>5, <2>1 DEF RollBackPurchase, GiveUp, TypeOK
  <2>3. QED
    BY <1>5, <2>2, OthersUndisturbed DEF RollBackPurchase, bookVars
<1>6. CASE Crash
  BY <1>6 DEF Crash
<1>7. CASE UNCHANGED vars
  BY <1>7, OthersUndisturbed DEF vars
<1>8. ASSUME NEW s \in Session, NEW b \in Book, RemoveFromCart(s, b) PROVE Goal
  BY <1>0, <1>8 DEF RemoveFromCart
<1>9. ASSUME NEW s \in Session, CommitPurchase(s) PROVE Goal
  BY <1>0, <1>9 DEF CommitPurchase
<1>10. ASSUME NEW s \in Session, NEW b \in Book, NotifyPublisher(s, b) PROVE Goal
  BY <1>0, <1>10 DEF NotifyPublisher
<1>11. ASSUME NEW b \in Book, NEW p \in Price, ChangePrice(b, p) PROVE Goal
  BY <1>0, <1>11 DEF ChangePrice
<1>12. ASSUME NEW b \in Book, NEW on \in BOOLEAN, SetBookActiveState(b, on) PROVE Goal
  BY <1>0, <1>12 DEF SetBookActiveState
<1>13. ASSUME NEW b \in Book, DeleteBook(b) PROVE Goal
  BY <1>0, <1>13 DEF DeleteBook
<1>14. CASE OtherWrite
  BY <1>0, <1>14 DEF OtherWrite
<1>15. QED
  BY <1>1, <1>2, <1>3, <1>4, <1>5, <1>6, <1>7, <1>8, <1>9, <1>10, <1>11,
     <1>12, <1>13, <1>14, BoundAssumption DEF Next, Finalize

(* An open transaction whose snapshot nobody has overtaken sees the tables as *)
(* they are.                                                                  *)
THEOREM SnapshotsAreCurrent == Spec => []SnapshotCurrent
<1>1. Init => SnapshotCurrent
  BY DEF Init, SnapshotCurrent
<1>2. QED
  BY <1>1, NextSnapshot, TypeCorrect, PTL DEF Spec

-----------------------------------------------------------------------------
(* Purchases. *)

(* What a committing purchase delivers is what Bookshop's Buy delivers. *)
LEMMA CommitDelivers ==
  ASSUME TypeOK, SnapshotCurrent, NEW s \in Session, CommitPurchase(s)
  PROVE  {b \in Book : snap[s].rows[b] > 0 /\ b \notin snap[s].owned}
           = Shop!Deliverable(UserOf[s])
<1> DEFINE u == UserOf[s]
<1>1. u \in User
  BY SessionAssumption
<1>2. snap[s] = [rows |-> ValidRows(u), owned |-> Owned(u)]
  BY DEF CommitPurchase, SnapshotCurrent
<1>3. ASSUME NEW b \in Book
      PROVE  (snap[s].rows[b] > 0 /\ b \notin snap[s].owned)
               <=> (cart[u][b] > 0 /\ Shop!Listed(b) /\ library[u][b] = 0)
  <2>1. snap[s].rows[b] = (IF Listed(b) THEN cart[u][b] ELSE 0)
    BY <1>2 DEF ValidRows
  <2>2. b \in snap[s].owned <=> library[u][b] > 0
    BY <1>2 DEF Owned
  <2>3. library[u][b] \in Nat
    BY <1>1 DEF TypeOK, Rows
  <2>4. Shop!Listed(b) <=> Listed(b)
    BY DEF Listed, Shop!Listed
  <2>5. QED
    BY <2>1, <2>2, <2>3, <2>4
<1>4. QED
  BY <1>3 DEF Shop!Deliverable

(* A user's library changes only when a purchase of that user commits. *)
LEMMA LibraryChanges ==
  ASSUME TypeOK, [Next]_vars, NEW u \in User, library'[u] # library[u]
  PROVE  \E s \in Session : CommitPurchase(s) /\ UserOf[s] = u
<1>1. ASSUME NEW s \in Session, CommitPurchase(s), UserOf[s] # u PROVE FALSE
  BY <1>1, SessionAssumption DEF CommitPurchase, TypeOK
<1>2. \E s \in Session : CommitPurchase(s)
  BY DEF Next, Finalize, vars, AddToCart, RemoveFromCart, GetCart, ListSoldItems,
     BeginPurchase, RollBackPurchase, NotifyPublisher, ChangePrice,
     SetBookActiveState, DeleteBook, OtherWrite, Crash
<1>3. QED
  BY <1>1, <1>2

LEMMA NextNoDouble ==
  TypeOK /\ SnapshotCurrent /\ NoDoublePurchase /\ [Next]_vars => NoDoublePurchase'
<1> SUFFICES ASSUME TypeOK, SnapshotCurrent, NoDoublePurchase, [Next]_vars,
                    NEW u \in User, NEW b \in Book
             PROVE  library'[u][b] <= 1
  BY DEF NoDoublePurchase
<1>1. CASE library'[u] = library[u]
  BY <1>1 DEF NoDoublePurchase
<1>2. CASE library'[u] # library[u]
  <2>1. PICK s \in Session : CommitPurchase(s) /\ UserOf[s] = u
    BY <1>2, LibraryChanges
  <2>2. library'[u][b] = IF b \in Shop!Deliverable(u) THEN library[u][b] + 1 ELSE library[u][b]
    BY <2>1, CommitDelivers DEF CommitPurchase, TypeOK
  <2>3. b \in Shop!Deliverable(u) => library[u][b] = 0
    BY DEF Shop!Deliverable
  <2>4. QED
    BY <2>2, <2>3 DEF NoDoublePurchase
<1>3. QED
  BY <1>1, <1>2

(* No user ever has two library rows for one book, however many sessions pay *)
(* at the same time and however often the book is in the cart.               *)
THEOREM NobodyBuysTwice == Spec => []NoDoublePurchase
<1>1. Init => NoDoublePurchase
  BY DEF Init, NoDoublePurchase, NoRows
<1>2. QED
  BY <1>1, NextNoDouble, SnapshotsAreCurrent, TypeCorrect, PTL DEF Spec

(* A library grows only in a purchase whose total is that of the cart. *)
THEOREM TotalsAreAgreed == Spec => AgreedTotal
<1> DEFINE Agreed == \A u \in User : library'[u] # library[u] =>
                       \E s \in Session : /\ UserOf[s] = u
                                          /\ pc[s] = "tx"
                                          /\ asked[s] = CartTotal(u)
<1>1. TypeOK /\ SnapshotCurrent /\ [Next]_vars => [Agreed]_vars
  <2> SUFFICES ASSUME TypeOK, SnapshotCurrent, [Next]_vars,
                      NEW u \in User, library'[u] # library[u]
               PROVE  \E s \in Session : /\ UserOf[s] = u
                                         /\ pc[s] = "tx"
                                         /\ asked[s] = CartTotal(u)
    OBVIOUS
  <2>1. PICK s \in Session : CommitPurchase(s) /\ UserOf[s] = u
    BY LibraryChanges
  <2>2. pc[s] = "tx" /\ asked[s] = CartTotal(u)
    BY <2>1 DEF CommitPurchase, SnapshotCurrent
  <2>3. QED
    BY <2>1, <2>2
<1>2. QED
  BY <1>1, TypeCorrect, SnapshotsAreCurrent, PTL DEF Spec, AgreedTotal

-----------------------------------------------------------------------------
(* Deleted books. *)

(* Deletion is final, whatever it races with: no deleted book is active. *)
THEOREM DeletedStaysOut == Spec => []DeletedIsInactive
<1>1. Init => DeletedIsInactive
  BY DEF Init, DeletedIsInactive
<1>2. TypeOK /\ DeletedIsInactive /\ [Next]_vars => DeletedIsInactive'
  <2> SUFFICES ASSUME TypeOK, DeletedIsInactive, [Next]_vars PROVE DeletedIsInactive'
    OBVIOUS
  <2>1. ASSUME NEW b \in Book, NEW on \in BOOLEAN, SetBookActiveState(b, on)
        PROVE DeletedIsInactive'
    BY <2>1 DEF SetBookActiveState, DeletedIsInactive, TypeOK
  <2>2. ASSUME NEW b \in Book, DeleteBook(b) PROVE DeletedIsInactive'
    BY <2>2 DEF DeleteBook, DeletedIsInactive, TypeOK
  <2>3. CASE UNCHANGED <<active, deleted>>
    BY <2>3 DEF DeletedIsInactive
  <2>4. QED
    BY <2>1, <2>2, <2>3, BoundAssumption DEF Next, Finalize, vars, bookVars, AddToCart, RemoveFromCart,
       GetCart, ListSoldItems, BeginPurchase, CommitPurchase, RollBackPurchase,
       NotifyPublisher, ChangePrice, OtherWrite, Crash
<1>3. QED
  BY <1>1, <1>2, TypeCorrect, PTL DEF Spec
-----------------------------------------------------------------------------
(* Refinement. *)

(* The step that commits is the purchase of Bookshop; it is here that reading *)
(* early is seen to be the same as reading at the moment of the commit.       *)
LEMMA CommitIsBuy ==
  ASSUME TypeOK, SnapshotCurrent, NEW s \in Session, CommitPurchase(s)
  PROVE  Shop!Buy(UserOf[s])
<1> DEFINE u == UserOf[s]
           new == {b \in Book : snap[s].rows[b] > 0 /\ b \notin snap[s].owned}
<1>1. u \in User
  BY SessionAssumption
<1>2. new = Shop!Deliverable(u)
  BY CommitDelivers
<1>3. library' = [library EXCEPT ![u] =
                    [b \in Book |-> IF b \in new THEN @[b] + 1 ELSE @[b]]]
  BY DEF CommitPurchase
<1>4. [b \in Book |-> IF b \in new THEN library[u][b] + 1 ELSE library[u][b]]
        = [b \in Book |-> IF b \in Shop!Deliverable(u) THEN 1 ELSE library[u][b]]
  BY <1>2 DEF Shop!Deliverable
<1>5. library' = [library EXCEPT ![u] =
                    [b \in Book |-> IF b \in Shop!Deliverable(u) THEN 1 ELSE @[b]]]
  BY <1>1, <1>3, <1>4 DEF TypeOK
<1>6. cart' = [cart EXCEPT ![u] = Shop!NoRows] /\ UNCHANGED <<active, deleted, price>>
  BY DEF CommitPurchase, bookVars, NoRows, Shop!NoRows
<1>7. QED
  BY <1>5, <1>6 DEF Shop!Buy, Shop!bookVars

LEMMA StepImplements ==
  TypeOK /\ SnapshotCurrent /\ DeletedIsInactive /\ [Next]_vars
    => [Shop!Next]_(Shop!shopVars)
<1> SUFFICES ASSUME TypeOK, SnapshotCurrent, DeletedIsInactive, [Next]_vars
             PROVE  Shop!Next \/ UNCHANGED Shop!shopVars
  OBVIOUS
<1> DEFINE Goal == Shop!Next \/ UNCHANGED Shop!shopVars
<1>0. UNCHANGED <<active, deleted, price, cart, library>> => Goal
  BY DEF Shop!shopVars
<1>1. ASSUME NEW s \in Session, NEW b \in Book, AddToCart(s, b) PROVE Goal
  <2>1. CASE active[b]
    <3>1. Shop!Put(UserOf[s], b)
      BY <1>1, <2>1 DEF AddToCart, DeletedIsInactive, bookVars,
         Shop!Put, Shop!Listed, Shop!bookVars
    <3>2. QED
      BY <3>1, SessionAssumption DEF Shop!Next
  <2>2. CASE ~active[b]
    BY <1>0, <1>1, <2>2 DEF AddToCart, bookVars
  <2>3. QED
    BY <2>1, <2>2
<1>2. ASSUME NEW s \in Session, NEW b \in Book, RemoveFromCart(s, b) PROVE Goal
  <2>1. Shop!TakeOut(UserOf[s], b)
    BY <1>2 DEF RemoveFromCart, bookVars, Shop!TakeOut, Shop!bookVars
  <2>2. QED
    BY <2>1, SessionAssumption DEF Shop!Next
<1>3. ASSUME NEW s \in Session, GetCart(s) \/ ListSoldItems(s) PROVE Goal
  BY <1>0, <1>3 DEF GetCart, ListSoldItems, bookVars
<1>4. ASSUME NEW s \in Session, BeginPurchase(s) \/ RollBackPurchase(s) PROVE Goal
  BY <1>0, <1>4 DEF BeginPurchase, RollBackPurchase, bookVars
<1>5. ASSUME NEW s \in Session, CommitPurchase(s) PROVE Goal
  BY <1>5, CommitIsBuy, SessionAssumption DEF Shop!Next
<1>6. ASSUME NEW s \in Session, NEW b \in Book, NotifyPublisher(s, b) PROVE Goal
  BY <1>0, <1>6 DEF NotifyPublisher, bookVars
<1>7. ASSUME NEW b \in Book, NEW p \in Price, ChangePrice(b, p) PROVE Goal
  <2>1. Shop!Reprice(b, p)
    BY <1>7 DEF ChangePrice, Shop!Reprice
  <2>2. QED
    BY <2>1 DEF Shop!Next
<1>8. ASSUME NEW b \in Book, NEW on \in BOOLEAN, SetBookActiveState(b, on) PROVE Goal
  <2>1. Shop!SwitchTo(b, on)
    BY <1>8 DEF SetBookActiveState, Shop!SwitchTo
  <2>2. QED
    BY <2>1 DEF Shop!Next
<1>9. ASSUME NEW b \in Book, DeleteBook(b) PROVE Goal
  <2>1. Shop!Withdraw(b)
    BY <1>9 DEF DeleteBook, Shop!Withdraw
  <2>2. QED
    BY <2>1 DEF Shop!Next
<1>10. CASE OtherWrite \/ Crash
  BY <1>0, <1>10 DEF OtherWrite, Crash, bookVars
<1>11. CASE UNCHANGED vars
  BY <1>0, <1>11 DEF vars
<1>12. QED
  BY <1>1, <1>2, <1>3, <1>4, <1>5, <1>6, <1>7, <1>8, <1>9, <1>10, <1>11,
     BoundAssumption
  DEF Next, Finalize

(* FINALIZE_PURCHASE, interleaved with everything the other workers do, is the *)
(* single indivisible operation of Bookshop.                                   *)
THEOREM PurchaseIsAtomic == Spec => ImplementsBookshop
<1>1. Init => Shop!Init
  BY DEF Init, Shop!Init, NoRows, Shop!NoRows
<1>2. QED
  BY <1>1, StepImplements, TypeCorrect, SnapshotsAreCurrent, DeletedStaysOut, PTL
  DEF Spec, ImplementsBookshop, Shop!Spec
=============================================================================
