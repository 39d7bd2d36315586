------------------------------ MODULE Purchase ------------------------------
(***************************************************************************)
(* The shopping cart and FINALIZE_PURCHASE of the server, as the worker    *)
(* threads run them.  Every connection is served by a NetworkWorker in a   *)
(* thread of its own with its own SQLite connection, so the handlers of    *)
(* different sessions interleave between any two statements; a statement   *)
(* outside a transaction is one atomic step of the shared database.        *)
(*                                                                         *)
(* finalizePurchase is the only multi-statement transaction.  It is opened *)
(* with a plain BEGIN on a database in WAL mode: its first SELECT fixes a  *)
(* snapshot, and its first write succeeds only if nobody has committed     *)
(* since; otherwise the statement fails and the function rolls back.       *)
(***************************************************************************)
EXTENDS Naturals, FiniteSets, FiniteSetsExt

CONSTANTS
  User,       \* users that buy books
  Book,       \* books
  Session,    \* connections, each served by one worker thread
  UserOf,     \* UserOf[s]: the user logged in on session s; several may share one
  Price,      \* what a book can cost, the discount taken off
  Edited,     \* bound: the books priced, switched on or off or deleted
  MaxAdds,    \* bound: ADD_TO_CART requests in a behaviour
  MaxCrashes, \* bound: crashes of the server process
  NoCart      \* what a client shows whose cart page lists nothing to pay for

ASSUME SessionAssumption == UserOf \in [Session -> User]
ASSUME PriceAssumption == Price \subseteq Nat
ASSUME BoundAssumption == Edited \subseteq Book /\ MaxAdds \in Nat /\ MaxCrashes \in Nat
ASSUME NoCartAssumption == NoCart \notin Nat

VARIABLES
  active,     \* books.isActive
  deleted,    \* books.is_deleted
  price,      \* books.price with books.discountPercent taken off
  cart,       \* cart[u][b]: rows of cart; nothing keeps them unique
  library,    \* library[u][b]: rows of library; nothing keeps them unique
  notes,      \* notes[b]: rows of notifications of type BOOK_SOLD for b's publisher
  pc,         \* pc[s]: where the worker of s stands in handleFinalizePurchase
  asked,      \* asked[s]: client_final_price of the request being handled
  soldItems,  \* soldItems[s][b]: entries of the handler's list still to be notified
  snap,       \* snap[s]: what the open transaction of s has read
  stale,      \* stale[s]: somebody committed after the snapshot of s
  shown,      \* shown[s]: m_finalPrice of the cart page of the client on s
  adds,       \* ADD_TO_CART requests so far
  crashes     \* crashes so far

bookVars == <<active, deleted, price>>
workVars == <<pc, asked, soldItems, snap>>
boundVars == <<adds, crashes>>
vars == <<active, deleted, price, cart, library, notes,
          pc, asked, soldItems, snap, stale, shown, adds, crashes>>

-----------------------------------------------------------------------------
(* The queries. *)

NoRows == [b \in Book |-> 0]

Listed(b) == active[b] /\ ~deleted[b]

(* The valid rows of a cart, as every query of the cart selects them. *)
ValidRows(u) == [b \in Book |-> IF Listed(b) THEN cart[u][b] ELSE 0]

(* Their total, one price for every row. *)
TotalOf(p, rows) == MapThenSumSet(LAMBDA b : p[b] * rows[b], Book)
CartTotal(u) == TotalOf(price, ValidRows(u))

Owned(u) == {b \in Book : library[u][b] > 0}

NoSnap == [rows |-> NoRows, owned |-> {}]

(* A commit that wrote something invalidates every open snapshot. *)
Committed == stale' = [s \in Session |-> pc'[s] = "tx"]

-----------------------------------------------------------------------------
Init ==
  /\ active = [b \in Book |-> TRUE]
  /\ deleted = [b \in Book |-> FALSE]
  /\ price \in [Book -> Price]
  /\ cart = [u \in User |-> NoRows]
  /\ library = [u \in User |-> NoRows]
  /\ notes = NoRows
  /\ pc = [s \in Session |-> "idle"]
  /\ asked = [s \in Session |-> 0]
  /\ soldItems = [s \in Session |-> NoRows]
  /\ snap = [s \in Session |-> NoSnap]
  /\ stale = [s \in Session |-> FALSE]
  /\ shown = [s \in Session |-> NoCart]
  /\ adds = 0
  /\ crashes = 0

-----------------------------------------------------------------------------
(* Requests answered by a single statement. *)

(* ADD_TO_CART inserts one more row whatever the cart or the library holds;  *)
(* of the book it looks only at isActive.                                    *)
AddToCart(s, b) ==
  /\ pc[s] = "idle"
  /\ adds < MaxAdds
  /\ adds' = adds + 1
  /\ UNCHANGED <<bookVars, library, notes, workVars, shown, crashes>>
  /\ IF active[b]
     THEN cart' = [cart EXCEPT ![UserOf[s]][b] = @ + 1] /\ Committed
     ELSE UNCHANGED <<cart, stale>>

(* REMOVE_FROM_CART deletes all the rows of the book. *)
RemoveFromCart(s, b) ==
  /\ pc[s] = "idle"
  /\ cart[UserOf[s]][b] > 0
  /\ cart' = [cart EXCEPT ![UserOf[s]][b] = 0]
  /\ UNCHANGED <<bookVars, library, notes, workVars, shown, boundVars>>
  /\ Committed

(* GET_CART; the client keeps the total, and no pay button if nothing is listed. *)
GetCart(s) ==
  /\ pc[s] = "idle"
  /\ shown' = [shown EXCEPT ![s] =
                 IF \E b \in Book : ValidRows(UserOf[s])[b] > 0
                 THEN CartTotal(UserOf[s])
                 ELSE NoCart]
  /\ UNCHANGED <<bookVars, cart, library, notes, workVars, stale, boundVars>>

-----------------------------------------------------------------------------
(* FINALIZE_PURCHASE, step by step. *)

(* The client pays what it shows, and the handler lists publishers and titles *)
(* of the cart: a query of its own, before the transaction.                   *)
ListSoldItems(s) ==
  /\ pc[s] = "idle"
  /\ shown[s] # NoCart
  /\ asked' = [asked EXCEPT ![s] = shown[s]]
  /\ soldItems' = [soldItems EXCEPT ![s] = ValidRows(UserOf[s])]
  /\ pc' = [pc EXCEPT ![s] = "listed"]
  /\ UNCHANGED <<bookVars, cart, library, notes, snap, stale, shown, boundVars>>

(* The end of a handler that sold nothing: the list is dropped. *)
GiveUp(s) ==
  /\ pc' = [pc EXCEPT ![s] = "idle"]
  /\ asked' = [asked EXCEPT ![s] = 0]
  /\ soldItems' = [soldItems EXCEPT ![s] = NoRows]
  /\ snap' = [snap EXCEPT ![s] = NoSnap]
  /\ stale' = [stale EXCEPT ![s] = FALSE]

(* Mutant: the client's total is not compared. *)
BeginUnpriced(s) ==
  /\ pc[s] = "listed"
  /\ pc' = [pc EXCEPT ![s] = "tx"]
  /\ snap' = [snap EXCEPT ![s] = [rows |-> ValidRows(UserOf[s]),
                                  owned |-> Owned(UserOf[s])]]
  /\ UNCHANGED <<bookVars, cart, library, notes, asked, soldItems, stale, shown, boundVars>>

(* Mutant: the rows to sell are those of the list read before the transaction. *)
BeginWithOldList(s) ==
  /\ pc[s] = "listed"
  /\ IF CartTotal(UserOf[s]) = asked[s]
     THEN /\ pc' = [pc EXCEPT ![s] = "tx"]
          /\ snap' = [snap EXCEPT ![s] = [rows |-> soldItems[s],
                                          owned |-> Owned(UserOf[s])]]
          /\ UNCHANGED <<asked, soldItems, stale>>
     ELSE GiveUp(s)
  /\ UNCHANGED <<bookVars, cart, library, notes, shown, boundVars>>

(* BEGIN, and the two SELECTs on one snapshot; on a total that differs from *)
(* the client's the transaction is rolled back.                             *)
BeginPurchase(s) ==
  /\ pc[s] = "listed"
  /\ IF CartTotal(UserOf[s]) = asked[s]
     THEN /\ pc' = [pc EXCEPT ![s] = "tx"]
          /\ snap' = [snap EXCEPT ![s] = [rows |-> ValidRows(UserOf[s]),
                                          owned |-> Owned(UserOf[s])]]
          /\ UNCHANGED <<asked, soldItems, stale>>
     ELSE GiveUp(s)
  /\ UNCHANGED <<bookVars, cart, library, notes, shown, boundVars>>

(* Mutant: without a transaction around them the writes go through whatever   *)
(* was committed after the reads.                                             *)
CommitUnisolated(s) ==
  LET u == UserOf[s]
      new == {b \in Book : snap[s].rows[b] > 0 /\ b \notin snap[s].owned}
  IN  /\ pc[s] = "tx"
      /\ library' = [library EXCEPT ![u] =
                       [b \in Book |-> IF b \in new THEN @[b] + 1 ELSE @[b]]]
      /\ cart' = [cart EXCEPT ![u] = NoRows]
      /\ pc' = [pc EXCEPT ![s] = IF soldItems[s] = NoRows THEN "idle" ELSE "notify"]
      /\ asked' = [asked EXCEPT ![s] = 0]
      /\ snap' = [snap EXCEPT ![s] = NoSnap]
      /\ UNCHANGED <<bookVars, notes, soldItems, shown, boundVars>>
      /\ Committed

(* The first write of the transaction is allowed while its snapshot is the    *)
(* current state; it then holds the write lock up to COMMIT, so that the      *)
(* inserts, clearCart and COMMIT are one step.  Books the user owned in the   *)
(* snapshot, or has just been given, are skipped.                             *)
CommitPurchase(s) ==
  LET u == UserOf[s]
      new == {b \in Book : snap[s].rows[b] > 0 /\ b \notin snap[s].owned}
  IN  /\ pc[s] = "tx"
      /\ ~stale[s]
      /\ library' = [library EXCEPT ![u] =
                       [b \in Book |-> IF b \in new THEN @[b] + 1 ELSE @[b]]]
      /\ cart' = [cart EXCEPT ![u] = NoRows]
      /\ pc' = [pc EXCEPT ![s] = IF soldItems[s] = NoRows THEN "idle" ELSE "notify"]
      /\ asked' = [asked EXCEPT ![s] = 0]
      /\ snap' = [snap EXCEPT ![s] = NoSnap]
      /\ UNCHANGED <<bookVars, notes, soldItems, shown, boundVars>>
      /\ Committed

(* Mutant: the refusal of a write on a stale snapshot is not handled. *)
RollBackUnlessStale(s) ==
  /\ pc[s] = "tx"
  /\ ~stale[s]
  /\ GiveUp(s)
  /\ UNCHANGED <<bookVars, cart, library, notes, shown, boundVars>>

(* A write fails, for a stale snapshot or because the lock was not free in    *)
(* time: ROLLBACK, and an error to the client.                                *)
RollBackPurchase(s) ==
  /\ pc[s] = "tx"
  /\ GiveUp(s)
  /\ UNCHANGED <<bookVars, cart, library, notes, shown, boundVars>>

(* Mutant: one notification too many. *)
NotifyOnceMore(s, b) ==
  LET rest == [soldItems[s] EXCEPT ![b] = @ - 1]
  IN  /\ pc[s] = "notify"
      /\ notes' = [notes EXCEPT ![b] = @ + 1]
      /\ soldItems' = [soldItems EXCEPT ![s] = rest]
      /\ pc' = [pc EXCEPT ![s] = IF rest = NoRows THEN "idle" ELSE "notify"]
      /\ UNCHANGED <<bookVars, cart, library, asked, snap, shown, boundVars>>
      /\ Committed

(* One BOOK_SOLD notification per entry of the list read before the transaction. *)
NotifyPublisher(s, b) ==
  LET rest == [soldItems[s] EXCEPT ![b] = @ - 1]
  IN  /\ pc[s] = "notify"
      /\ soldItems[s][b] > 0
      /\ notes' = [notes EXCEPT ![b] = @ + 1]
      /\ soldItems' = [soldItems EXCEPT ![s] = rest]
      /\ pc' = [pc EXCEPT ![s] = IF rest = NoRows THEN "idle" ELSE "notify"]
      /\ UNCHANGED <<bookVars, cart, library, asked, snap, shown, boundVars>>
      /\ Committed

-----------------------------------------------------------------------------
(* What other sessions do to the books; each ends in one UPDATE. *)

(* UPDATE_BOOK, ADMIN_UPDATE_BOOK and SET_BOOK_DISCOUNT. *)
ChangePrice(b, p) ==
  /\ ~deleted[b]
  /\ price' = [price EXCEPT ![b] = p]
  /\ UNCHANGED <<active, deleted, cart, library, notes, workVars, shown, boundVars>>
  /\ Committed

(* SET_BOOK_ACTIVE_STATE. *)
SetBookActiveState(b, on) ==
  /\ ~deleted[b]
  /\ active' = [active EXCEPT ![b] = on]
  /\ UNCHANGED <<deleted, price, cart, library, notes, workVars, shown, boundVars>>
  /\ Committed

(* PUBLISHER_DELETE_BOOK and ADMIN_DELETE_BOOK. *)
DeleteBook(b) ==
  /\ active' = [active EXCEPT ![b] = FALSE]
  /\ deleted' = [deleted EXCEPT ![b] = TRUE]
  /\ UNCHANGED <<price, cart, library, notes, workVars, shown, boundVars>>
  /\ Committed

(* A write of any other handler, to tables this module leaves out. *)
OtherWrite ==
  /\ UNCHANGED <<bookVars, cart, library, notes, workVars, shown, boundVars>>
  /\ Committed

(* The server process dies: open transactions are rolled back by the journal, *)
(* the lists of items still to be notified are gone.                          *)
Crash ==
  /\ crashes < MaxCrashes
  /\ crashes' = crashes + 1
  /\ pc' = [s \in Session |-> "idle"]
  /\ asked' = [s \in Session |-> 0]
  /\ soldItems' = [s \in Session |-> NoRows]
  /\ snap' = [s \in Session |-> NoSnap]
  /\ stale' = [s \in Session |-> FALSE]
  /\ UNCHANGED <<bookVars, cart, library, notes, shown, adds>>

-----------------------------------------------------------------------------
Finalize(s) ==
  \/ BeginPurchase(s)
  \/ CommitPurchase(s)
  \/ RollBackPurchase(s)
  \/ \E b \in Book : NotifyPublisher(s, b)

Next ==
  \/ \E s \in Session : GetCart(s) \/ ListSoldItems(s) \/ Finalize(s)
  \/ \E s \in Session, b \in Book : AddToCart(s, b) \/ RemoveFromCart(s, b)
  \/ \E b \in Edited, p \in Price : ChangePrice(b, p)
  \/ \E b \in Edited, on \in BOOLEAN : SetBookActiveState(b, on)
  \/ \E b \in Edited : DeleteBook(b)
  \/ OtherWrite
  \/ Crash

(* A worker thread that has begun a request runs on to its end. *)
Fairness == \A s \in Session : WF_vars(Finalize(s))

Spec == Init /\ [][Next]_vars /\ Fairness
-----------------------------------------------------------------------------
(* Properties. *)

Rows == [Book -> Nat]

(* Every variable has its type: above all, no list of sold items and no cart  *)
(* ever counts below zero.  Of the amounts of money (asked, shown) only the   *)
(* domain is stated.                                                          *)
TypeOK ==
  /\ active \in [Book -> BOOLEAN]
  /\ deleted \in [Book -> BOOLEAN]
  /\ price \in [Book -> Price]
  /\ cart \in [User -> Rows]
  /\ library \in [User -> Rows]
  /\ notes \in Rows
  /\ pc \in [Session -> {"idle", "listed", "tx", "notify"}]
  /\ DOMAIN asked = Session
  /\ soldItems \in [Session -> Rows]
  /\ snap \in [Session -> [rows : Rows, owned : SUBSET Book]]
  /\ stale \in [Session -> BOOLEAN]
  /\ DOMAIN shown = Session
  /\ adds \in Nat
  /\ crashes \in Nat

(* A deleted book is never active.  addToCart and all the catalogue queries   *)
(* look only at isActive, so this is what keeps deleted books out of the shop: *)
(* setBookActiveState racing a deletion must not switch the book on again.     *)
DeletedIsInactive == \A b \in Book : deleted[b] => ~active[b]

(* While nobody has committed since its snapshot, what an open transaction has *)
(* read is what the tables hold.                                               *)
SnapshotCurrent ==
  \A s \in Session : pc[s] = "tx" /\ ~stale[s] =>
    /\ snap[s] = [rows |-> ValidRows(UserOf[s]), owned |-> Owned(UserOf[s])]
    /\ asked[s] = CartTotal(UserOf[s])

(* Nobody gets the same book twice, although the table library has no unique  *)
(* key and the check for a former purchase is a query of its own: two sessions *)
(* of one user that pay at the same time, or a cart with a book in two rows.   *)
NoDoublePurchase == \A u \in User, b \in Book : library[u][b] <= 1

(* Books are handed over only in a purchase of their user, for a total the    *)
(* client asked to pay and that is the total of the cart at that very moment: *)
(* no price change, deactivation or change of the cart slips in between.      *)
AgreedTotal ==
  [][\A u \in User : library'[u] # library[u] =>
       \E s \in Session : /\ UserOf[s] = u
                          /\ pc[s] = "tx"
                          /\ asked[s] = CartTotal(u)]_vars

(* With all its steps and interleavings, a purchase is the one atomic         *)
(* operation of Bookshop.                                                     *)
Shop == INSTANCE Bookshop
ImplementsBookshop == Shop!Spec

(* A purchase request that has begun comes to an end, through a rollback or   *)
(* through the last notification, unless the server dies.                     *)
FinalizeAnswered == \A s \in Session : pc[s] # "idle" ~> pc[s] = "idle"
=============================================================================
