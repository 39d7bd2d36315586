------------------------------- MODULE Ratings -------------------------------
(***************************************************************************)
(* The comments on books and the average rating kept with each book.       *)
(*                                                                         *)
(* A worker checks that a comment may be added or changed in one statement *)
(* and changes it in a second; then recalculateBookRating selects the      *)
(* ratings of the book in a third and writes their average in a fourth.    *)
(* Nothing keeps other workers out in between.                             *)
(*                                                                         *)
(* How the clients come to send these requests, and what they show, is the *)
(* matter of module CommentsPage.                                          *)
(***************************************************************************)
EXTENDS Naturals, FiniteSets, FiniteSetsExt

CONSTANTS
  User,     \* users that write comments
  Book,
  Session,  \* connections, each with a worker of its own
  Rating,   \* what a client offers
  Id,       \* bound: the ids of the table comments, never given twice
  Banned,   \* bound: the users the administrator blocks or deletes
  Switched, \* bound: the books that are switched on and off
  Failing,  \* bound: the sessions whose statements may fail
  NoRow,    \* an id with no row
  NoRequest

ASSUME RatingAssumption == Rating \subseteq Nat
ASSUME IdAssumption == IsFiniteSet(Id)
ASSUME BoundAssumption == Banned \subseteq User /\ Switched \subseteq Book /\ Failing \subseteq Session

Comment == [book : Book, user : User, rating : Rating]

(* Requests, with the book they are found to be about. *)
Request ==
  [type : {"ADD_COMMENT"}, id : Id, book : Book, user : User, rating : Rating]
    \cup [type : {"EDIT_COMMENT"}, id : Id, book : Book, rating : Rating]
    \cup [type : {"DELETE_COMMENT"}, id : Id, book : Book]

ASSUME NullAssumption == NoRow \notin Comment /\ NoRequest \notin Request

VARIABLES
  comments, \* comments[i]: the row with id i
  fresh,    \* the ids not given yet
  average,  \* average[b]: books.averageRating and ratingCount, as sum and count
  active,   \* books.isActive
  blocked,  \* users.is_blocked
  removed,  \* users.is_deleted
  told,     \* told[b]: notifications of type NEW_COMMENT for b's publisher
  pc,       \* pc[s]: the statement the worker of s comes to next
  req,      \* req[s]: the request it handles
  got,      \* got[s]: the sum and the number of the ratings it has selected
  behind,   \* behind[s]: the ratings s has selected have changed since
  torn      \* books whose average was last written from ratings out of date, or
            \* whose ratings have changed without a recalculation

userVars == <<blocked, removed>>
vars == <<comments, fresh, average, active, blocked, removed, told,
          pc, req, got, behind, torn>>

-----------------------------------------------------------------------------
(* The ratings that count for b: those of users who are not deleted. *)
Counted(b) ==
  {i \in Id : /\ comments[i] # NoRow
              /\ comments[i].book = b
              /\ ~removed[comments[i].user]}
Marks(b) == [i \in Counted(b) |-> comments[i].rating]

Summary(marks) == [sum |-> MapThenSumSet(LAMBDA i : marks[i], DOMAIN marks),
                   count |-> Cardinality(DOMAIN marks)]
Nothing == [sum |-> 0, count |-> 0]

(* s has changed a comment of b, but not yet the average. *)
Midway(s, b) == pc[s] \in {"select", "update"} /\ req[s].book = b

(* What is marked when ratings of the books bs change. *)
Overtake(bs) ==
  behind' = [s \in Session |->
               behind[s] \/ (pc[s] = "update" /\ req[s].book \in bs)]

Init ==
  /\ comments = [i \in Id |-> NoRow]
  /\ fresh = Id
  /\ average = [b \in Book |-> Nothing]
  /\ active = [b \in Book |-> TRUE]
  /\ blocked = [u \in User |-> FALSE]
  /\ removed = [u \in User |-> FALSE]
  /\ told = [b \in Book |-> 0]
  /\ pc = [s \in Session |-> "idle"]
  /\ req = [s \in Session |-> NoRequest]
  /\ got = [s \in Session |-> Nothing]
  /\ behind = [s \in Session |-> FALSE]
  /\ torn = {}

-----------------------------------------------------------------------------
(* The requests.  A check that fails is answered with an error and changes    *)
(* nothing: only those that succeed are actions.                              *)

Begin(s, r) ==
  /\ pc[s] = "idle"
  /\ pc' = [pc EXCEPT ![s] = "write"]
  /\ req' = [req EXCEPT ![s] = r]
  /\ UNCHANGED <<comments, average, active, userVars, told, got, behind, torn>>

(* Mutant: without AUTOINCREMENT an id whose row has gone is given again. *)
AddCommentAgain(s, i, b, u, x) ==
  /\ active[b] /\ ~blocked[u] /\ ~removed[u]
  /\ comments[i] = NoRow
  /\ ~\E t \in Session : pc[t] = "write" /\ req[t].type = "ADD_COMMENT" /\ req[t].id = i
  /\ fresh' = fresh \ {i}
  /\ Begin(s, [type |-> "ADD_COMMENT", id |-> i, book |-> b, user |-> u, rating |-> x])

AddComment(s, i, b, u, x) ==
  /\ active[b] /\ ~blocked[u] /\ ~removed[u]
  /\ i \in fresh
  /\ fresh' = fresh \ {i}
  /\ Begin(s, [type |-> "ADD_COMMENT", id |-> i, book |-> b, user |-> u, rating |-> x])

EditComment(s, i, x) ==
  LET c == comments[i]
  IN  /\ c # NoRow
      /\ active[c.book] /\ ~blocked[c.user] /\ ~removed[c.user]
      /\ Begin(s, [type |-> "EDIT_COMMENT", id |-> i, book |-> c.book, rating |-> x])
      /\ UNCHANGED fresh

DeleteComment(s, i) ==
  /\ comments[i] # NoRow
  /\ Begin(s, [type |-> "DELETE_COMMENT", id |-> i, book |-> comments[i].book])
  /\ UNCHANGED fresh

(* INSERT, UPDATE or DELETE; an UPDATE or DELETE of a row that has gone in the *)
(* meantime succeeds.                                                          *)
Written(r) ==
  CASE r.type = "ADD_COMMENT" ->
         [comments EXCEPT ![r.id] = [book |-> r.book, user |-> r.user, rating |-> r.rating]]
    [] r.type = "EDIT_COMMENT" ->
         IF comments[r.id] = NoRow THEN comments
         ELSE [comments EXCEPT ![r.id].rating = r.rating]
    [] r.type = "DELETE_COMMENT" -> [comments EXCEPT ![r.id] = NoRow]

(* Mutant: no recalculation after an edit. *)
WriteEditOnly(s) ==
  /\ pc[s] = "write"
  /\ comments' = Written(req[s])
  /\ pc' = [pc EXCEPT ![s] = IF req[s].type = "EDIT_COMMENT" THEN "idle" ELSE "select"]
  /\ Overtake(IF comments' = comments THEN {} ELSE {req[s].book})
  /\ UNCHANGED <<fresh, average, active, userVars, told, req, got, torn>>

Write(s) ==
  /\ pc[s] = "write"
  /\ comments' = Written(req[s])
  /\ pc' = [pc EXCEPT ![s] = "select"]
  /\ Overtake(IF comments' = comments THEN {} ELSE {req[s].book})
  /\ UNCHANGED <<fresh, average, active, userVars, told, req, got, torn>>

Select(s) ==
  /\ pc[s] = "select"
  /\ got' = [got EXCEPT ![s] = Summary(Marks(req[s].book))]
  /\ pc' = [pc EXCEPT ![s] = "update"]
  /\ UNCHANGED <<comments, fresh, average, active, userVars, told, req, behind, torn>>

Answer(s) ==
  /\ pc' = [pc EXCEPT ![s] = "idle"]
  /\ req' = [req EXCEPT ![s] = NoRequest]
  /\ got' = [got EXCEPT ![s] = Nothing]
  /\ behind' = [behind EXCEPT ![s] = FALSE]

(* The UPDATE, the answer and, for a new comment, the publisher's notification. *)
Update(s) ==
  LET b == req[s].book
  IN  /\ pc[s] = "update"
      /\ average' = [average EXCEPT ![b] = got[s]]
      /\ torn' = IF behind[s] THEN torn \cup {b} ELSE torn \ {b}
      /\ told' = IF req[s].type = "ADD_COMMENT" THEN [told EXCEPT ![b] = @ + 1] ELSE told
      /\ Answer(s)
      /\ UNCHANGED <<comments, fresh, active, userVars>>

(* A statement fails, the database being locked for too long: an error is     *)
(* answered, although the comment may have been changed already.  To a crash  *)
(* the tables look the same.                                                  *)
StatementFails(s) ==
  /\ s \in Failing
  /\ pc[s] # "idle"
  /\ torn' = torn \cup {b \in Book : Midway(s, b)}
  /\ Answer(s)
  /\ UNCHANGED <<comments, fresh, average, active, userVars, told>>

-----------------------------------------------------------------------------
(* The administrator and the publishers; each request is one UPDATE. *)

SetUserActiveState(u, on) ==
  /\ ~removed[u]
  /\ blocked' = [blocked EXCEPT ![u] = ~on]
  /\ UNCHANGED <<comments, fresh, average, active, removed, told, pc, req, got, behind, torn>>

(* The averages stay as they are, although the user's comments count no more. *)
DeleteUser(u) ==
  LET bs == {b \in Book : \E i \in Counted(b) : comments[i].user = u}
  IN  /\ removed' = [removed EXCEPT ![u] = TRUE]
      /\ blocked' = [blocked EXCEPT ![u] = TRUE]
      /\ torn' = torn \cup bs
      /\ Overtake(bs)
      /\ UNCHANGED <<comments, fresh, average, active, told, pc, req, got>>

SetBookActiveState(b, on) ==
  /\ active' = [active EXCEPT ![b] = on]
  /\ UNCHANGED <<comments, fresh, average, userVars, told, pc, req, got, behind, torn>>

-----------------------------------------------------------------------------
Handle(s) == Write(s) \/ Select(s) \/ Update(s) \/ StatementFails(s)

Next ==
  \/ \E s \in Session, i \in Id, b \in Book, u \in User, x \in Rating : AddComment(s, i, b, u, x)
  \/ \E s \in Session, i \in Id, x \in Rating : EditComment(s, i, x)
  \/ \E s \in Session, i \in Id : DeleteComment(s, i)
  \/ \E s \in Session : Handle(s)
  \/ \E u \in Banned : DeleteUser(u)
  \/ \E u \in Banned, on \in BOOLEAN : SetUserActiveState(u, on)
  \/ \E b \in Switched, on \in BOOLEAN : SetBookActiveState(b, on)

(* A worker thread that has begun a request runs on to its end. *)
Fairness == \A s \in Session : WF_vars(Handle(s))

Spec == Init /\ [][Next]_vars /\ Fairness
-----------------------------------------------------------------------------
(* Properties. *)

Amount == [sum : Nat, count : Nat]

(* Every variable has its type; a worker that is not idle has a request. *)
TypeOK ==
  /\ comments \in [Id -> Comment \cup {NoRow}]
  /\ fresh \in SUBSET Id
  /\ DOMAIN average = Book
  /\ active \in [Book -> BOOLEAN]
  /\ blocked \in [User -> BOOLEAN]
  /\ removed \in [User -> BOOLEAN]
  /\ told \in [Book -> Nat]
  /\ pc \in [Session -> {"idle", "write", "select", "update"}]
  /\ req \in [Session -> Request \cup {NoRequest}]
  /\ \A s \in Session : pc[s] # "idle" => req[s] \in Request
  /\ DOMAIN got = Session
  /\ behind \in [Session -> BOOLEAN]
  /\ torn \in SUBSET Book

(* One id, one book: all that is ever said of an id, by its row or by the     *)
(* requests being handled, is of the same book, although requests about rows  *)
(* that have gone are carried out.                                            *)
Handled(i) == {s \in Session : pc[s] # "idle" /\ req[s].id = i}
IdsOnce ==
  \A i \in Id :
    /\ i \in fresh => comments[i] = NoRow /\ Handled(i) = {}
    /\ \A s, t \in Handled(i) : req[s].book = req[t].book
    /\ \A s \in Handled(i) : comments[i] # NoRow => comments[i].book = req[s].book

(* While s has not been overtaken, the sum and the number it has selected are *)
(* those of the ratings that count.                                           *)
SelectionCurrent ==
  \A s \in Session : pc[s] = "update" /\ ~behind[s] =>
    got[s] = Summary(Marks(req[s].book))

(* The average kept with a book is that of the comments of users who are not  *)
(* deleted, as soon as no request is between changing the one and the other.  *)
(* It is left wrong only by a request that is overtaken by another between    *)
(* its SELECT and its UPDATE, or that stops half-way, or by the deletion of a *)
(* user, and then only until the next UPDATE that is not overtaken.           *)
RatingExact ==
  \A b \in Book \ torn : (\A s \in Session : ~Midway(s, b)) =>
    average[b] = Summary(Marks(b))

(* What the comments in the code say and the code does not keep; see the README. *)

(* The averages are those of the comments of users who are not deleted, when no *)
(* request is being handled.                                                    *)
RatingSettled ==
  (\A s \in Session : pc[s] = "idle") => \A b \in Book : average[b] = Summary(Marks(b))
=============================================================================
