------------------------------ MODULE CardPages ------------------------------
(***************************************************************************)
(* The pages of cards a publisher or an administrator manages: the books   *)
(* of the publisher, all the books, all the users.  A card has a check box *)
(* that shows what was clicked before the server has agreed to it, and     *)
(* answers name neither the card nor the request they are for.  There is   *)
(* one page here, of any of the three kinds, and whatever others do to the *)
(* rows meanwhile.                                                         *)
(***************************************************************************)
EXTENDS Integers, Sequences, FiniteSets

CONSTANTS
  Item,      \* rows: books, or users
  Discount,  \* discounts in percent; 0 is none
  MaxActs,   \* bound: clicks
  MaxFaults, \* bound: statements failing, connections lost or not to be had
  MaxOthers, \* bound: changes others make
  NoItem     \* no discount has been asked for

ASSUME CardsDataAssumption == 0 \in Discount /\ NoItem \notin Item
ASSUME CardsBoundAssumption == MaxActs \in Nat /\ MaxFaults \in Nat /\ MaxOthers \in Nat

VARIABLES
  kind,    \* which of the pages it is
  rows,    \* rows[i]: the row of i
  cards,   \* the cards: a function of the items that have one
  found,   \* the cards are the results of a search
  failed,  \* previous_failure: a click of a check box was not sent
  asked,   \* m_bookID and m_discount
  conn,    \* the client is connected
  line,    \* requests on their way
  down,    \* answers on their way
  acts,    \* clicks so far
  faults,  \* faults so far
  others,  \* changes of others so far
  \* What the page cannot know.
  since,   \* rows have been changed by others since the last list was read
  why      \* what has put the cards wrong

page == <<cards, found, failed, asked>>
wires == <<conn, line, down>>
bounds == <<acts, faults, others>>
cardsVars == <<kind, rows, page, wires, bounds, since, why>>

Kinds == {"publisher", "admin", "users"}
Causes == {"others", "overlap", "mistaken", "lost", "failed"}
-----------------------------------------------------------------------------
Present == {i \in Item : ~rows[i].deleted}
Card(i) == [active |-> rows[i].active, discount |-> rows[i].discount]
Cards(S) == [i \in S |-> Card(i)]

CardsInit ==
  /\ kind \in Kinds
  /\ rows \in [Item -> [active : BOOLEAN, discount : {0}, deleted : {FALSE}]]
  /\ cards = Cards(Item)
  /\ found = FALSE
  /\ failed = FALSE
  /\ asked = [item |-> NoItem, percent |-> 0]
  /\ conn = TRUE
  /\ line = <<>>
  /\ down = <<>>
  /\ acts = 0 /\ faults = 0 /\ others = 0
  /\ since = FALSE
  /\ why = {}

-----------------------------------------------------------------------------
(* The handlers, one statement each. *)

Takes(type) == line # <<>> /\ Head(line).type = type

Answer(m) ==
  /\ line' = Tail(line)
  /\ down' = Append(down, m)
  /\ UNCHANGED <<kind, page, conn, acts, others>>

Fault == faults < MaxFaults /\ faults' = faults + 1

(* The lists have all rows not deleted; so has a search, of those that fit.   *)
(* A query that fails gives an empty list, and is a success.                  *)
GetAll ==
  /\ Takes("LIST")
  /\ \/ /\ Answer([type |-> "LIST", cards |-> Cards(Present), found |-> FALSE, failed |-> FALSE])
        /\ UNCHANGED faults
     \/ Fault /\ Answer([type |-> "LIST", cards |-> <<>>, found |-> FALSE, failed |-> TRUE])
  /\ since' = FALSE
  /\ UNCHANGED <<rows, why>>

SearchUsers ==
  /\ Takes("SEARCH")
  /\ LET fit == {i \in Present : rows[i].active = Head(line).active}
     IN  Answer([type |-> "LIST", cards |-> Cards(fit), found |-> TRUE, failed |-> FALSE])
  /\ since' = FALSE
  /\ UNCHANGED <<rows, faults, why>>

(* A deleted book is a success, a deleted user is none.                       *)
SetActiveState ==
  LET r == Head(line)
  IN  /\ Takes("SET")
      /\ \/ /\ ~rows[r.item].deleted
            /\ rows' = [rows EXCEPT ![r.item].active = r.active]
            /\ Answer([type |-> "SET", ok |-> TRUE])
            /\ UNCHANGED faults
         \/ /\ rows[r.item].deleted
            /\ Answer([type |-> "SET", ok |-> kind = "publisher"])
            /\ UNCHANGED <<rows, faults>>
         \/ Fault /\ Answer([type |-> "SET", ok |-> FALSE]) /\ UNCHANGED rows
      /\ UNCHANGED <<since, why>>

(* The price is read first: a deleted book is no success.  One deleted        *)
(* between the two statements is like one deleted after them.                 *)
SetBookDiscount ==
  LET r == Head(line)
  IN  /\ Takes("DISCOUNT")
      /\ \/ /\ ~rows[r.item].deleted
            /\ rows' = [rows EXCEPT ![r.item].discount = r.percent]
            /\ Answer([type |-> "DISCOUNT", ok |-> TRUE])
            /\ UNCHANGED faults
         \/ /\ rows[r.item].deleted
            /\ Answer([type |-> "DISCOUNT", ok |-> FALSE])
            /\ UNCHANGED <<rows, faults>>
         \/ Fault /\ Answer([type |-> "DISCOUNT", ok |-> FALSE]) /\ UNCHANGED rows
      /\ UNCHANGED <<since, why>>

(* Mutant: the row stays active.                                              *)
DeleteActive ==
  /\ Takes("DELETE")
  /\ rows' = [rows EXCEPT ![Head(line).item].deleted = TRUE]
  /\ Answer([type |-> "DELETE", ok |-> TRUE])
  /\ UNCHANGED <<faults, since, why>>

(* Deleting again is a success.                                               *)
Delete ==
  LET i == Head(line).item
  IN  /\ Takes("DELETE")
      /\ \/ /\ rows' = [rows EXCEPT ![i].deleted = TRUE, ![i].active = FALSE]
            /\ Answer([type |-> "DELETE", ok |-> TRUE])
            /\ UNCHANGED faults
         \/ Fault /\ Answer([type |-> "DELETE", ok |-> FALSE]) /\ UNCHANGED rows
      /\ UNCHANGED <<since, why>>

(* Other pages, or other clients of the same publisher.                       *)
ChangeElsewhere(i, active, percent, deleted) ==
  /\ others < MaxOthers /\ others' = others + 1
  /\ ~rows[i].deleted
  /\ deleted => ~active
  /\ kind = "users" => percent = 0
  /\ rows' = [rows EXCEPT ![i] = [active |-> active, discount |-> percent, deleted |-> deleted]]
  /\ since' = TRUE
  /\ why' = why \cup {"others"}
  /\ UNCHANGED <<kind, page, wires, acts, faults>>

-----------------------------------------------------------------------------
(* The page. *)

Pending(type) ==
  Cardinality({k \in DOMAIN line : line[k].type = type})
    + Cardinality({k \in DOMAIN down : down[k].type = type})

Click == acts < MaxActs /\ acts' = acts + 1

(* connectToServer connects again if it can.                                  *)
Send(r) ==
  /\ conn' = TRUE
  /\ line' = Append(line, r)
  /\ UNCHANGED <<rows, kind, down, cards, others, since>>

NoConnection ==
  /\ ~conn /\ Fault
  /\ UNCHANGED <<rows, kind, wires, cards, others, since>>

(* showEvent, and the button for all users.                                   *)
Load ==
  /\ Click
  /\ \/ Send([type |-> "LIST"]) /\ UNCHANGED faults
     \/ NoConnection
  /\ UNCHANGED <<found, failed, asked, why>>

Search(active) ==
  /\ kind = "users" /\ Click
  /\ \/ Send([type |-> "SEARCH", active |-> active]) /\ UNCHANGED faults
     \/ NoConnection
  /\ UNCHANGED <<found, failed, asked, why>>

(* Toggling; the box is not disabled for longer than ten seconds, whenever    *)
(* the answer comes, and a new card is never disabled.                        *)
ChangeActive(i) ==
  /\ kind # "admin" /\ i \in DOMAIN cards /\ Click
  /\ cards' = [cards EXCEPT ![i].active = ~@]
  /\ \/ /\ conn' = TRUE
        /\ line' = Append(line, [type |-> "SET", item |-> i, active |-> ~cards[i].active])
        /\ UNCHANGED <<down, faults, failed>>
     \/ /\ ~conn /\ Fault
        /\ failed' = TRUE
        /\ UNCHANGED wires
  /\ UNCHANGED <<rows, kind, found, asked, others, since, why>>

(* The answer will be taken for this book.                                    *)
AskDiscount(i, percent) ==
  /\ kind = "publisher" /\ i \in DOMAIN cards /\ Click
  /\ \/ /\ Send([type |-> "DISCOUNT", item |-> i, percent |-> percent])
        /\ asked' = [item |-> i, percent |-> percent]
        /\ why' = IF Pending("DISCOUNT") > 0 THEN why \cup {"mistaken"} ELSE why
        /\ UNCHANGED faults
     \/ NoConnection /\ UNCHANGED <<asked, why>>
  /\ UNCHANGED <<found, failed>>

AskDelete(i) ==
  /\ i \in DOMAIN cards /\ Click
  /\ \/ Send([type |-> "DELETE", item |-> i]) /\ UNCHANGED faults
     \/ NoConnection
  /\ UNCHANGED <<found, failed, asked, why>>

-----------------------------------------------------------------------------
(* processNetworkData. *)

Take(reload) ==
  /\ down' = Tail(down)
  /\ line' = IF reload THEN Append(line, [type |-> "LIST"]) ELSE line
  /\ UNCHANGED <<rows, kind, conn, bounds, since>>

Arrives(type) == down # <<>> /\ Head(down).type = type

(* New cards.  Those clicked already on the old ones, or taken for the wrong  *)
(* book in a moment, are not among them.                                      *)
HandleList ==
  /\ Arrives("LIST")
  /\ Take(FALSE)
  /\ cards' = Head(down).cards
  /\ found' = Head(down).found
  /\ why' = (IF since THEN {"others"} ELSE {})
              \cup (IF Head(down).failed THEN {"failed"} ELSE {})
              \cup (IF Pending("SET") > 0 THEN {"overlap"} ELSE {})
              \cup (IF Pending("DISCOUNT") > 1 THEN {"mistaken"} ELSE {})
  /\ UNCHANGED <<failed, asked>>

(* Mutant: after a failure the click is left standing.                        *)
HandleSetTrusting ==
  /\ Arrives("SET")
  /\ Take(failed)
  /\ failed' = FALSE
  /\ UNCHANGED <<cards, found, asked, why>>

HandleSet ==
  /\ Arrives("SET")
  /\ Take(~Head(down).ok \/ failed)
  /\ failed' = FALSE
  /\ UNCHANGED <<cards, found, asked, why>>

HandleDelete ==
  /\ Arrives("DELETE")
  /\ Take(kind = "admin" => Head(down).ok)
  /\ failed' = (failed /\ kind # "publisher")
  /\ UNCHANGED <<cards, found, asked, why>>

HandleDiscount ==
  /\ Arrives("DISCOUNT")
  /\ Take(FALSE)
  /\ cards' = IF Head(down).ok /\ asked.item \in DOMAIN cards
              THEN [cards EXCEPT ![asked.item].discount = asked.percent] ELSE cards
  /\ UNCHANGED <<found, failed, asked, why>>

(* With the connection goes all that is on its way.                           *)
Lose ==
  /\ conn /\ Fault
  /\ conn' = FALSE
  /\ line' = <<>>
  /\ down' = <<>>
  /\ why' = IF line # <<>> \/ down # <<>> THEN why \cup {"lost"} ELSE why
  /\ UNCHANGED <<rows, kind, page, acts, others, since>>

-----------------------------------------------------------------------------
CardsNext ==
  \/ GetAll \/ SearchUsers \/ SetActiveState \/ SetBookDiscount \/ Delete
  \/ \E i \in Item, a, d \in BOOLEAN, p \in Discount : ChangeElsewhere(i, a, p, d)
  \/ Load
  \/ \E a \in BOOLEAN : Search(a)
  \/ \E i \in Item : ChangeActive(i) \/ AskDelete(i) \/ \E p \in Discount : AskDiscount(i, p)
  \/ HandleList \/ HandleSet \/ HandleDelete \/ HandleDiscount
  \/ Lose

CardsSpec == CardsInit /\ [][CardsNext]_cardsVars
-----------------------------------------------------------------------------
(* Properties. *)

(* A deleted row is not active; what is on its way is on a connection; an     *)
(* administrator's page of books never has a click outstanding.               *)
CardsTypeOK ==
  /\ kind \in Kinds
  /\ \A i \in Item : rows[i].deleted => ~rows[i].active
  /\ DOMAIN cards \subseteq Item
  /\ \A i \in DOMAIN cards : cards[i].active \in BOOLEAN /\ cards[i].discount \in Discount
  /\ failed \in BOOLEAN /\ (failed => kind # "admin")
  /\ line # <<>> \/ down # <<>> => conn
  /\ why \subseteq Causes

(* With nothing on its way and no click unsent, the cards are as the rows     *)
(* are, although boxes show clicks in advance and answers do not say what     *)
(* they are for.  The page is wrong only after changes of others, after a     *)
(* click while a list was on its way, with two discounts at once, after an    *)
(* answer lost, or after a list that could not be read.                       *)
CardsCurrent ==
  line = <<>> /\ down = <<>> /\ ~failed /\ why = {} =>
    /\ DOMAIN cards \subseteq Present
    /\ \A i \in DOMAIN cards : cards[i] = Card(i)
    /\ found \/ DOMAIN cards = Present
=============================================================================
