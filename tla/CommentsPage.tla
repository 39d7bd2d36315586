---------------------------- MODULE CommentsPage -----------------------------
(***************************************************************************)
(* The comments page of the clients, and how the pages of all clients keep *)
(* up with one another.                                                    *)
(*                                                                         *)
(* A page asks for the comments of its book when it is opened, when one of *)
(* its own requests has gone well and when a broadcast says that comments  *)
(* of its book have changed.  Requests and answers travel in order.  A     *)
(* broadcast takes another way: from the worker that has handled a request *)
(* to the main thread, which asks the worker of each client to write it.   *)
(* An answer does not say which book it is about.                          *)
(*                                                                         *)
(* What the server does to comments and averages, statement by statement,  *)
(* is the matter of module Ratings; here a comment changes in one step.    *)
(***************************************************************************)
EXTENDS Integers, Sequences

CONSTANTS
  User,     \* users that write comments
  Admin,    \* the administrator, whose client has the user id -1
  Session,  \* connections, each with its worker and its comments page
  Logins,   \* bound: who may be logged in on the sessions
  Book,
  Written,  \* the comments that are there at first, in the order of their ids
  MaxActs,  \* bound: what is done at the pages in a behaviour
  Banned,   \* bound: the users the administrator deletes
  Failing,  \* bound: the sessions whose statements may fail
  NoRow     \* an id of the table comments with no row

ASSUME SessionAssumption ==
  Logins \subseteq [Session -> User \cup {Admin}] /\ Admin \notin User
ASSUME BoundAssumption ==
  /\ MaxActs \in Nat
  /\ Banned \subseteq User
  /\ Failing \subseteq Session

(* comments.id is AUTOINCREMENT; each click adds one comment at most.  Of the *)
(* text and the rating only their version is kept: how often they have been   *)
(* edited.                                                                    *)
Id == 1..(Len(Written) + MaxActs)
Comment == [book : Book, user : User, version : Nat]

ASSUME RowAssumption == NoRow \notin Comment /\ Written \in Seq(Comment)

VARIABLES
  \* The tables.
  comments, \* comments[i]: the row with id i
  lastId,   \* the greatest id given so far
  removed,  \* users.is_deleted
  \* The workers and the main thread.
  work,     \* work[s]: what the event loop of s's worker has still to do
  events,   \* events[s]: broadcasts on their way to that worker: their books
  \* The clients.
  userOf,   \* userOf[s]: userID, the same throughout
  down,     \* down[s]: messages on their way to the client
  at,       \* at[s]: bookID
  list,     \* list[s]: the comments shown
  editing,  \* editing[s]: m_editingCommentId; 0 for -1
  acts,     \* what has been done at the pages so far
  failed    \* books about which a request has stopped half-way

tables == <<comments, lastId, removed>>
pages == <<userOf, at, list, editing, acts>>
vars == <<comments, lastId, removed, work, events, down,
          userOf, at, list, editing, acts, failed>>

-----------------------------------------------------------------------------
(* getCommentsForBook: the author must not be deleted. *)
Visible(b) ==
  [i \in {j \in Id : /\ comments[j] # NoRow
                     /\ comments[j].book = b
                     /\ ~removed[comments[j].user]} |-> comments[i]]

(* What a worker has to do. *)
Get(b) == [type |-> "GET_COMMENTS", book |-> b]
Add(b, u) == [type |-> "ADD_COMMENT", book |-> b, user |-> u]
Edit(i) == [type |-> "EDIT_COMMENT", id |-> i]
Delete(i) == [type |-> "DELETE_COMMENT", id |-> i]

(* What the client is sent. *)
Listing(l) == [type |-> "GET_COMMENTS_RESPONSE", comments |-> l]
Updated(b) == [type |-> "COMMENT_UPDATED", book |-> b]
Answer(ok) == [type |-> "RESPONSE", ok |-> ok]

Init ==
  /\ comments = [i \in Id |-> IF i \in DOMAIN Written THEN Written[i] ELSE NoRow]
  /\ lastId = Len(Written)
  /\ removed = [u \in User |-> FALSE]
  /\ work = [s \in Session |-> <<>>]
  /\ events = [s \in Session |-> <<>>]
  /\ down = [s \in Session |-> <<>>]
  /\ userOf \in Logins
  /\ at \in [Session -> Book]
  /\ list = [s \in Session |-> Visible(at[s])]
  /\ editing = [s \in Session |-> 0]
  /\ acts = 0
  /\ failed = {}

-----------------------------------------------------------------------------
(* The workers. *)

Req(s) == Head(work[s])
Takes(s, type) == work[s] # <<>> /\ Req(s).type = type

Done(s, m) ==
  /\ work' = [work EXCEPT ![s] = Tail(@)]
  /\ down' = [down EXCEPT ![s] = Append(@, m)]

GetComments(s) ==
  /\ Takes(s, "GET_COMMENTS")
  /\ Done(s, Listing(Visible(Req(s).book)))
  /\ UNCHANGED <<tables, events, pages, failed>>

(* A broadcast reaches the thread of the socket, which writes it. *)
WritePush(s) ==
  /\ events[s] # <<>>
  /\ down' = [down EXCEPT ![s] = Append(@, Updated(Head(events[s])))]
  /\ events' = [events EXCEPT ![s] = Tail(@)]
  /\ UNCHANGED <<tables, work, pages, failed>>

(* A comment request is refused: the book is not active, the user blocked or  *)
(* deleted, the comment not there.                                            *)
Refuse(s) ==
  /\ \E type \in {"ADD_COMMENT", "EDIT_COMMENT", "DELETE_COMMENT"} : Takes(s, type)
  /\ Done(s, Answer(FALSE))
  /\ UNCHANGED <<tables, events, pages, failed>>

(* Mutant: nobody is told but the client that asked. *)
FinishQuietly(s, b) ==
  /\ Done(s, Answer(TRUE))
  /\ UNCHANGED <<events, failed>>

(* A comment of b has changed: the request is answered, and the main thread   *)
(* will have the workers of all clients tell them.                            *)
Finish(s, b) ==
  /\ Done(s, Answer(TRUE))
  /\ events' = [t \in Session |-> Append(events[t], b)]
  /\ UNCHANGED failed

(* A comment of b has changed but the average cannot be written: an error is  *)
(* answered and nobody is told.                                               *)
StopHalfWay(s, b) ==
  /\ s \in Failing
  /\ Done(s, Answer(FALSE))
  /\ failed' = failed \cup {b}
  /\ UNCHANGED events

AddComment(s) ==
  LET r == Req(s)
  IN  /\ Takes(s, "ADD_COMMENT")
      /\ ~removed[r.user]
      /\ lastId' = lastId + 1
      /\ comments' = [comments EXCEPT ![lastId + 1] =
                        [book |-> r.book, user |-> r.user, version |-> 0]]
      /\ Finish(s, r.book) \/ StopHalfWay(s, r.book)
      /\ UNCHANGED <<removed, pages>>

EditComment(s) ==
  LET i == Req(s).id
  IN  /\ Takes(s, "EDIT_COMMENT")
      /\ comments[i] # NoRow
      /\ ~removed[comments[i].user]
      /\ comments' = [comments EXCEPT ![i].version = @ + 1]
      /\ Finish(s, comments[i].book) \/ StopHalfWay(s, comments[i].book)
      /\ UNCHANGED <<lastId, removed, pages>>

DeleteComment(s) ==
  LET i == Req(s).id
  IN  /\ Takes(s, "DELETE_COMMENT")
      /\ comments[i] # NoRow
      /\ comments' = [comments EXCEPT ![i] = NoRow]
      /\ Finish(s, comments[i].book) \/ StopHalfWay(s, comments[i].book)
      /\ UNCHANGED <<lastId, removed, pages>>

(* DELETE_USER hides the user's comments; nobody is told. *)
DeleteUser(u) ==
  /\ removed' = [removed EXCEPT ![u] = TRUE]
  /\ UNCHANGED <<comments, lastId, work, events, down, pages, failed>>

-----------------------------------------------------------------------------
(* The pages. *)

Ask(s, r) == work' = [work EXCEPT ![s] = Append(@, r)]
Act == acts < MaxActs /\ acts' = acts + 1

(* Mutant: whatever is shown can be changed. *)
MineAll(s) == DOMAIN list[s]

(* The comments of the user of s among those shown.  The page offers to       *)
(* change the last of them only, which is one of those offered here.          *)
Mine(s) == {i \in DOMAIN list[s] : list[s][i].user = userOf[s]}

(* loadComments: the old list stays until the new one arrives. *)
Open(s, b) ==
  /\ at[s] # b
  /\ Act
  /\ at' = [at EXCEPT ![s] = b]
  /\ Ask(s, Get(b))
  /\ UNCHANGED <<tables, events, down, userOf, list, editing, failed>>

StartEdit(s, i) ==
  /\ i \in Mine(s)
  /\ editing' = [editing EXCEPT ![s] = i]
  /\ UNCHANGED <<tables, work, events, down, userOf, at, list, acts, failed>>

(* The frame to write in is shown to users without a comment, and for an edit. *)
Submit(s) ==
  /\ userOf[s] # Admin
  /\ Mine(s) = {} \/ editing[s] # 0
  /\ Act
  /\ Ask(s, IF editing[s] = 0 THEN Add(at[s], userOf[s]) ELSE Edit(editing[s]))
  /\ UNCHANGED <<tables, events, down, userOf, at, list, editing, failed>>

ClickDelete(s, i) ==
  /\ i \in DOMAIN list[s]
  /\ userOf[s] # Admin => i \in Mine(s)
  /\ Act
  /\ Ask(s, Delete(i))
  /\ UNCHANGED <<tables, events, down, userOf, at, list, editing, failed>>

(* processNetworkData and updateListUi: a list is taken for that of the book  *)
(* shown, whichever it is of, and an edit begun is dropped.                   *)
Receive(s) ==
  LET m == Head(down[s])
  IN  /\ down[s] # <<>>
      /\ down' = [down EXCEPT ![s] = Tail(@)]
      /\ IF m.type = "GET_COMMENTS_RESPONSE"
         THEN /\ list' = [list EXCEPT ![s] = m.comments]
              /\ editing' = [editing EXCEPT ![s] = 0]
         ELSE UNCHANGED <<list, editing>>
      /\ IF \/ m.type = "COMMENT_UPDATED" /\ m.book = at[s]
            \/ m.type = "RESPONSE" /\ m.ok
         THEN Ask(s, Get(at[s]))
         ELSE UNCHANGED work
      /\ UNCHANGED <<tables, events, userOf, at, acts, failed>>

-----------------------------------------------------------------------------
WorkerNext(s) ==
  \/ GetComments(s)
  \/ WritePush(s)
  \/ Refuse(s)
  \/ AddComment(s)
  \/ EditComment(s)
  \/ DeleteComment(s)

UserNext(s) ==
  \/ Submit(s)
  \/ \E b \in Book : Open(s, b)
  \/ \E i \in Id : StartEdit(s, i) \/ ClickDelete(s, i)

Next ==
  \/ \E s \in Session : WorkerNext(s) \/ UserNext(s) \/ Receive(s)
  \/ \E u \in Banned : DeleteUser(u)

Spec == Init /\ [][Next]_vars
-----------------------------------------------------------------------------
(* Properties. *)

Lists == UNION {[is -> Comment] : is \in SUBSET Id}
Request ==
  [type : {"GET_COMMENTS"}, book : Book]
    \cup [type : {"ADD_COMMENT"}, book : Book, user : User]
    \cup [type : {"EDIT_COMMENT", "DELETE_COMMENT"}, id : Id]
Message ==
  [type : {"GET_COMMENTS_RESPONSE"}, comments : Lists]
    \cup [type : {"COMMENT_UPDATED"}, book : Book]
    \cup [type : {"RESPONSE"}, ok : BOOLEAN]

(* Every variable has its type. *)
TypeOK ==
  /\ comments \in [Id -> Comment \cup {NoRow}]
  /\ lastId \in Nat
  /\ removed \in [User -> BOOLEAN]
  /\ work \in [Session -> Seq(Request)]
  /\ events \in [Session -> Seq(Book)]
  /\ down \in [Session -> Seq(Message)]
  /\ userOf \in Logins
  /\ at \in [Session -> Book]
  /\ list \in [Session -> Lists]
  /\ editing \in [Session -> Id \cup {0}]
  /\ acts \in 0..MaxActs
  /\ failed \in SUBSET Book

Quiet ==
  \A s \in Session : work[s] = <<>> /\ events[s] = <<>> /\ down[s] = <<>>

(* Once everything has been handled and delivered, each page shows the        *)
(* comments of its book as they are: whatever the order in which answers and  *)
(* broadcasts have come, and although a list does not say which book it is    *)
(* of.  Left out are the comments of deleted users, and books about which a   *)
(* request has stopped half-way.                                              *)
PagesCurrent ==
  Quiet => \A s \in Session : at[s] \notin failed =>
    [i \in {j \in DOMAIN list[s] : ~removed[list[s][j].user]} |-> list[s][i]]
      = Visible(at[s])

(* A user's client never changes or deletes somebody else's comment.  The     *)
(* server does not look at who asks: it rests on the page offering only the   *)
(* user's own comments, and on ids that are never given again.                *)
EditsOwn ==
  [][\A s \in Session, i \in Id :
       /\ userOf[s] # Admin
       /\ work[s] # <<>> /\ work'[s] = Tail(work[s])
       /\ comments[i] # NoRow /\ comments'[i] # comments[i]
       => comments[i].user = userOf[s]]_vars
=============================================================================
