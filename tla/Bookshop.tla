------------------------------ MODULE Bookshop ------------------------------
(***************************************************************************)
(* What the purchasing part of the server promises to everybody else: the  *)
(* rows of the tables books, cart and library, changed by one indivisible  *)
(* operation at a time.  In particular a purchase happens at one instant:  *)
(* the cart is read, the library filled and the cart emptied in one step.  *)
(*                                                                         *)
(* Purchase.tla is the program as it runs, with finalizePurchase spread    *)
(* over several steps of several sessions, and Catalogue.tla the editing   *)
(* of rows and files; each of them implements this module.                 *)
(***************************************************************************)
EXTENDS Naturals

CONSTANTS
  User,    \* rows of users that buy books
  Book,    \* rows of books
  Price    \* the prices a book can have

VARIABLES
  active,  \* books.isActive
  deleted, \* books.is_deleted
  price,   \* what one copy costs now, the discount taken off
  cart,    \* cart[u][b]: the number of rows of cart for user u and book b
  library  \* library[u][b]: the number of rows of library for u and b

bookVars == <<active, deleted, price>>
shopVars == <<active, deleted, price, cart, library>>

NoRows == [b \in Book |-> 0]

Init ==
  /\ active \in [Book -> BOOLEAN]
  /\ deleted = [b \in Book |-> FALSE]
  /\ price \in [Book -> Price]
  /\ cart = [u \in User |-> NoRows]
  /\ library = [u \in User |-> NoRows]

Listed(b) == active[b] /\ ~deleted[b]

(* The books of u's cart that a purchase delivers now. *)
Deliverable(u) == {b \in Book : cart[u][b] > 0 /\ Listed(b) /\ library[u][b] = 0}

Put(u, b) ==
  /\ Listed(b)
  /\ cart' = [cart EXCEPT ![u][b] = @ + 1]
  /\ UNCHANGED <<bookVars, library>>

TakeOut(u, b) ==
  /\ cart' = [cart EXCEPT ![u][b] = 0]
  /\ UNCHANGED <<bookVars, library>>

Buy(u) ==
  /\ library' = [library EXCEPT ![u] =
                   [b \in Book |-> IF b \in Deliverable(u) THEN 1 ELSE @[b]]]
  /\ cart' = [cart EXCEPT ![u] = NoRows]
  /\ UNCHANGED bookVars

(* The publisher's and the administrator's operations.  None of them applies *)
(* to a deleted book: deletion is final.                                      *)
Offer(b, p) ==
  /\ ~active[b] /\ ~deleted[b]
  /\ active' = [active EXCEPT ![b] = TRUE]
  /\ price' = [price EXCEPT ![b] = p]
  /\ UNCHANGED <<deleted, cart, library>>

Reprice(b, p) ==
  /\ ~deleted[b]
  /\ price' = [price EXCEPT ![b] = p]
  /\ UNCHANGED <<active, deleted, cart, library>>

SwitchTo(b, on) ==
  /\ ~deleted[b]
  /\ active' = [active EXCEPT ![b] = on]
  /\ UNCHANGED <<deleted, price, cart, library>>

Withdraw(b) ==
  /\ active' = [active EXCEPT ![b] = FALSE]
  /\ deleted' = [deleted EXCEPT ![b] = TRUE]
  /\ UNCHANGED <<price, cart, library>>

Next ==
  \/ \E u \in User : Buy(u)
  \/ \E u \in User, b \in Book : Put(u, b) \/ TakeOut(u, b)
  \/ \E b \in Book, p \in Price : Offer(b, p) \/ Reprice(b, p)
  \/ \E b \in Book, on \in BOOLEAN : SwitchTo(b, on)
  \/ \E b \in Book : Withdraw(b)

Spec == Init /\ [][Next]_shopVars
=============================================================================
