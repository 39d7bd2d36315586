------------------------------ MODULE Library ------------------------------
(***************************************************************************)
(* The shelves of a user: the tables shelves and shelf_books, the handlers *)
(* that change them statement by statement, and the library page of the    *)
(* clients.  No handler uses a transaction and no table has a unique key:  *)
(* that a name is taken once, that a book stands once on a shelf and that  *)
(* a move does not lose the book rests on a query made before the write.   *)
(* A user may have several clients open, each with a worker of its own.    *)
(*                                                                         *)
(* The page keeps the id of the active shelf and shows the last list that  *)
(* arrived.  Requests of a client are handled, and answered, in order; an  *)
(* answer does not say which shelf it is about.                            *)
(***************************************************************************)
EXTENDS Integers, Sequences, FiniteSets

CONSTANTS
  Client,     \* clients of one user, each with its connection and worker
  Book,       \* books the user has bought
  Name,       \* names of shelves
  First,      \* the names of the shelves there at first
  MaxActs,    \* bound: what is done at the pages
  MaxCrashes, \* bound: crashes of the server, after which the clients start anew
  NoName,     \* in place of the name of a shelf that is not in the table
  NoShelf     \* m_active_shelfID before a shelf has been clicked

ASSUME NameAssumption == First \in Seq(Name) /\ NoName \notin Name
(* The names there at first are of different shelves: no race made them. *)
ASSUME FirstAssumption == \A s, t \in DOMAIN First : First[s] = First[t] => s = t
ASSUME ShelfAssumption == NoShelf \notin Nat
ASSUME BoundAssumption == MaxActs \in Nat /\ MaxCrashes \in Nat

(* shelves.id is AUTOINCREMENT; a click makes one shelf at most. *)
Shelf == 1..(Len(First) + MaxActs)

VARIABLES
  \* The tables.
  name,    \* name[s]: shelves.name
  lastId,  \* the greatest id of a shelf given so far
  place,   \* place[s][b]: rows of shelf_books
  \* The workers.
  line,    \* line[c]: requests sent and not answered yet, the first one in work
  stage,   \* stage[c]: the statement its handler runs next
  \* The clients.
  down,    \* down[c]: answers on their way
  onShelves, \* onShelves[c]: the tab of the shelves is open, not that of the books bought
  active,  \* active[c]: m_active_shelfID
  shelves, \* shelves[c]: m_shelves
  shown,   \* shown[c]: the cards of the list of a shelf's books
  acts,    \* what has been done at the pages so far
  crashes, \* crashes so far
  \* What came in between.
  late,    \* late[c]: another worker has written since the handler of c looked
  placed,  \* books put on a shelf that has not been deleted with them since
  raced,   \* names and places written by a handler that was late
  lost,    \* books dropped by a move that was late, or cut short by a crash
  behind   \* behind[c]: another worker has written since the lists of c were read

tables == <<name, lastId, place>>
pages == <<onShelves, active, shelves, shown, acts>>
marks == <<late, placed, raced, lost, behind>>
vars == <<name, lastId, place, line, stage, down, onShelves, active, shelves, shown,
          acts, crashes, late, placed, raced, lost, behind>>

-----------------------------------------------------------------------------
(* The queries. *)

InTable(s) == name[s] # NoName
Shelves == [s \in {t \in Shelf : InTable(t)} |-> name[s]]
BooksIn(s) == IF s \in Shelf THEN place[s] ELSE [b \in Book |-> 0]
NoBooks == [b \in Book |-> 0]

Somewhere(pl) == {b \in Book : \E s \in Shelf : pl[s][b] > 0}

Init ==
  /\ name = [s \in Shelf |-> IF s \in DOMAIN First THEN First[s] ELSE NoName]
  /\ lastId = Len(First)
  /\ \E on \in [DOMAIN First -> SUBSET Book] :
       place = [s \in Shelf |-> [b \in Book |->
                  IF s \in DOMAIN First /\ b \in on[s] THEN 1 ELSE 0]]
  /\ line = [c \in Client |-> <<>>]
  /\ stage = [c \in Client |-> "look"]
  /\ down = [c \in Client |-> <<>>]
  /\ onShelves \in [Client -> BOOLEAN]
  /\ active \in [Client -> DOMAIN First \cup {NoShelf}]
  /\ shelves = [c \in Client |-> Shelves]
  /\ shown = [c \in Client |-> BooksIn(active[c])]
  /\ acts = 0
  /\ crashes = 0
  /\ late = [c \in Client |-> FALSE]
  /\ placed = Somewhere(place)
  /\ raced = {}
  /\ lost = {}
  /\ behind = [c \in Client |-> FALSE]

-----------------------------------------------------------------------------
(* The workers. *)

Takes(c, type, st) == line[c] # <<>> /\ Head(line[c]).type = type /\ stage[c] = st

Answer(c, m) ==
  /\ line' = [line EXCEPT ![c] = Tail(@)]
  /\ stage' = [stage EXCEPT ![c] = "look"]
  /\ down' = [down EXCEPT ![c] = Append(@, m)]

Success == [type |-> "SUCCESS"]
Error == [type |-> "ERROR"]

GoOn(c, st) ==
  /\ stage' = [stage EXCEPT ![c] = st]
  /\ UNCHANGED <<line, down>>

(* A query on which a later write rests, and a write. *)
Looked(c) ==
  /\ late' = [late EXCEPT ![c] = FALSE]
  /\ UNCHANGED <<tables, pages, crashes, placed, raced, lost, behind>>

Wrote(c) ==
  /\ late' = [d \in Client |-> d # c \/ late[d]]
  /\ behind' = [d \in Client |-> d # c \/ behind[d]]
  /\ UNCHANGED <<pages, crashes>>

RaceIf(c, what) == raced' = IF late[c] THEN raced \cup {what} ELSE raced

(* GET_SHELVES and GET_SHELF_BOOKS. *)
GetShelves(c) ==
  /\ Takes(c, "GET_SHELVES", "look")
  /\ Answer(c, [type |-> "GET_SHELVES_RESPONSE", shelves |-> Shelves])
  /\ behind' = [behind EXCEPT ![c] = FALSE]
  /\ UNCHANGED <<tables, pages, crashes, late, placed, raced, lost>>

(* Mutant: a shelf that is not in the table is an error. *)
GetShelfBooksStrict(c) ==
  /\ Takes(c, "GET_SHELF_BOOKS", "look")
  /\ IF Head(line[c]).shelf \in DOMAIN Shelves
     THEN Answer(c, [type |-> "GET_SHELF_BOOKS_RESPONSE", books |-> BooksIn(Head(line[c]).shelf)])
     ELSE Answer(c, Error)
  /\ UNCHANGED <<tables, pages, crashes, marks>>

GetShelfBooks(c) ==
  /\ Takes(c, "GET_SHELF_BOOKS", "look")
  /\ Answer(c, [type |-> "GET_SHELF_BOOKS_RESPONSE", books |-> BooksIn(Head(line[c]).shelf)])
  /\ UNCHANGED <<tables, pages, crashes, marks>>

(* CREATE_SHELF: is the name taken?  Then the row. *)
CreateShelfLook(c) ==
  /\ Takes(c, "CREATE_SHELF", "look")
  /\ IF \E s \in Shelf : name[s] = Head(line[c]).name
     THEN Answer(c, Error)
     ELSE GoOn(c, "write")
  /\ Looked(c)

CreateShelf(c) ==
  LET n == Head(line[c]).name
  IN  /\ Takes(c, "CREATE_SHELF", "write")
      /\ lastId' = lastId + 1
      /\ name' = [name EXCEPT ![lastId + 1] = n]
      /\ Answer(c, Success)
      /\ RaceIf(c, n)
      /\ Wrote(c)
      /\ UNCHANGED <<place, placed, lost>>

(* Mutant: the query asks for shelves made later only. *)
RenameShelfLookAhead(c) ==
  LET r == Head(line[c])
  IN  /\ Takes(c, "RENAME_SHELF", "look")
      /\ IF ~InTable(r.shelf) \/ \E s \in Shelf : s > r.shelf /\ name[s] = r.name
         THEN Answer(c, Error)
         ELSE GoOn(c, "write")
      /\ Looked(c)

(* RENAME_SHELF: does another shelf have the name? *)
RenameShelfLook(c) ==
  LET r == Head(line[c])
  IN  /\ Takes(c, "RENAME_SHELF", "look")
      /\ IF ~InTable(r.shelf) \/ \E s \in Shelf \ {r.shelf} : name[s] = r.name
         THEN Answer(c, Error)
         ELSE GoOn(c, "write")
      /\ Looked(c)

(* An UPDATE of a shelf deleted meanwhile changes nothing and is a success. *)
RenameShelf(c) ==
  LET r == Head(line[c])
  IN  /\ Takes(c, "RENAME_SHELF", "write")
      /\ name' = IF InTable(r.shelf) THEN [name EXCEPT ![r.shelf] = r.name] ELSE name
      /\ Answer(c, Success)
      /\ RaceIf(c, r.name)
      /\ Wrote(c)
      /\ UNCHANGED <<lastId, place, placed, lost>>

(* A move under way holds its book between DELETE and INSERT. *)
InHand == {Head(line[c]).book : c \in {d \in Client :
             \E st \in {"relook", "insert"} : Takes(d, "MOVE_BOOK_BETWEEN_SHELVES", st)}}

(* DELETE_SHELF empties the shelf and then deletes it.  The foreign key keeps *)
(* it if a book has been put on it in between.                                *)
EmptyShelf(c) ==
  LET s == Head(line[c]).shelf
      empty == [place EXCEPT ![s] = NoBooks]
  IN  /\ Takes(c, "DELETE_SHELF", "look")
      /\ place' = empty
      /\ placed' = placed \ ((Somewhere(place) \ Somewhere(empty)) \ InHand)
      /\ GoOn(c, "write")
      /\ Wrote(c)
      /\ UNCHANGED <<name, lastId, raced, lost>>

DeleteShelf(c) ==
  LET s == Head(line[c]).shelf
  IN  /\ Takes(c, "DELETE_SHELF", "write")
      /\ IF place[s] = NoBooks
         THEN name' = [name EXCEPT ![s] = NoName] /\ Answer(c, Success)
         ELSE UNCHANGED name /\ Answer(c, Error)
      /\ Wrote(c)
      /\ UNCHANGED <<lastId, place, placed, raced, lost>>

(* Mutant: a move does not ask again. *)
AddBookLookOnce(c) ==
  LET r == Head(line[c])
  IN  /\ \/ Takes(c, "ADD_BOOK_TO_SHELF", "look")
         \/ Takes(c, "MOVE_BOOK_BETWEEN_SHELVES", "relook")
      /\ IF r.type = "ADD_BOOK_TO_SHELF" /\ place[r.shelf][r.book] > 0
         THEN Answer(c, Error)
         ELSE GoOn(c, "insert")
      /\ Looked(c)

(* addBookToShelf, on its own or as the end of a move: is the book there?     *)
(* Then the row; the foreign key refuses it if the shelf is gone.             *)
AddBookLook(c) ==
  LET r == Head(line[c])
  IN  /\ \/ Takes(c, "ADD_BOOK_TO_SHELF", "look")
         \/ Takes(c, "MOVE_BOOK_BETWEEN_SHELVES", "relook")
      /\ IF place[r.shelf][r.book] > 0
         THEN Answer(c, Error)
         ELSE GoOn(c, "insert")
      /\ Looked(c)

(* Mutant: foreign keys are not enforced. *)
AddBookUnkeyed(c) ==
  LET r == Head(line[c])
  IN  /\ \E type \in {"ADD_BOOK_TO_SHELF", "MOVE_BOOK_BETWEEN_SHELVES"} : Takes(c, type, "insert")
      /\ place' = [place EXCEPT ![r.shelf][r.book] = @ + 1]
      /\ placed' = placed \cup {r.book}
      /\ Answer(c, Success)
      /\ RaceIf(c, <<r.shelf, r.book>>)
      /\ Wrote(c)
      /\ UNCHANGED <<name, lastId, lost>>

AddBook(c) ==
  LET r == Head(line[c])
      move == r.type = "MOVE_BOOK_BETWEEN_SHELVES"
  IN  /\ \E type \in {"ADD_BOOK_TO_SHELF", "MOVE_BOOK_BETWEEN_SHELVES"} : Takes(c, type, "insert")
      /\ IF InTable(r.shelf)
         THEN /\ place' = [place EXCEPT ![r.shelf][r.book] = @ + 1]
              /\ placed' = placed \cup {r.book}
              /\ Answer(c, Success)
              /\ RaceIf(c, <<r.shelf, r.book>>)
              /\ UNCHANGED lost
         ELSE /\ Answer(c, Error)
              /\ lost' = IF move THEN lost \cup {r.book} ELSE lost
              /\ UNCHANGED <<place, placed, raced>>
      /\ Wrote(c)
      /\ UNCHANGED <<name, lastId>>

(* MOVE_BOOK_BETWEEN_SHELVES: is the book on the other shelf already?  Either *)
(* way it is taken off the first one.                                         *)
MoveBookLook(c) ==
  LET r == Head(line[c])
  IN  /\ Takes(c, "MOVE_BOOK_BETWEEN_SHELVES", "look")
      /\ GoOn(c, IF place[r.shelf][r.book] > 0 THEN "drop" ELSE "take")
      /\ Looked(c)

TakeBook(c) ==
  LET r == Head(line[c])
  IN  /\ Takes(c, "MOVE_BOOK_BETWEEN_SHELVES", "take")
      /\ place' = [place EXCEPT ![r.from][r.book] = 0]
      /\ GoOn(c, "relook")
      /\ Wrote(c)
      /\ UNCHANGED <<name, lastId, placed, raced, lost>>

(* Mutant: the DELETE does not ask for the shelf. *)
DropBookEverywhere(c) ==
  LET r == Head(line[c])
  IN  /\ Takes(c, "MOVE_BOOK_BETWEEN_SHELVES", "drop")
      /\ place' = [s \in Shelf |-> [place[s] EXCEPT ![r.book] = 0]]
      /\ lost' = IF late[c] THEN lost \cup {r.book} ELSE lost
      /\ Answer(c, Error)
      /\ Wrote(c)
      /\ UNCHANGED <<name, lastId, placed, raced>>

DropBook(c) ==
  LET r == Head(line[c])
  IN  /\ Takes(c, "MOVE_BOOK_BETWEEN_SHELVES", "drop")
      /\ place' = [place EXCEPT ![r.from][r.book] = 0]
      /\ lost' = IF late[c] THEN lost \cup {r.book} ELSE lost
      /\ Answer(c, Error)
      /\ Wrote(c)
      /\ UNCHANGED <<name, lastId, placed, raced>>

(* The last statement of a handler fails, because of a lock held too long.    *)
StatementFails(c) ==
  /\ line[c] # <<>>
  /\ stage[c] \in {"write", "insert"}
  /\ lost' = IF Head(line[c]).type = "MOVE_BOOK_BETWEEN_SHELVES"
             THEN lost \cup {Head(line[c]).book} ELSE lost
  /\ Answer(c, Error)
  /\ UNCHANGED <<tables, pages, crashes, late, placed, raced, behind>>

(* The server dies, the clients are started again. *)
Crash ==
  /\ crashes < MaxCrashes
  /\ crashes' = crashes + 1
  /\ lost' = lost \cup InHand
  /\ line' = [c \in Client |-> <<>>]
  /\ stage' = [c \in Client |-> "look"]
  /\ down' = [c \in Client |-> <<>>]
  /\ active' = [c \in Client |-> NoShelf]
  /\ shelves' = [c \in Client |-> Shelves]
  /\ shown' = [c \in Client |-> NoBooks]
  /\ late' = [c \in Client |-> FALSE]
  /\ behind' = [c \in Client |-> FALSE]
  /\ UNCHANGED <<tables, onShelves, acts, placed, raced>>

-----------------------------------------------------------------------------
(* The pages. *)

Ask(c, r) == line' = [line EXCEPT ![c] = Append(@, r)]

AskShelves(c) == Ask(c, [type |-> "GET_SHELVES"])
AskBooks(c, s) == Ask(c, [type |-> "GET_SHELF_BOOKS", shelf |-> s])

Act ==
  /\ acts < MaxActs
  /\ acts' = acts + 1
  /\ UNCHANGED <<tables, stage, down, crashes, marks>>

(* A tab is opened: on_tabWidget_currentChanged. *)
OpenTab(c) ==
  /\ Act
  /\ onShelves' = [onShelves EXCEPT ![c] = ~@]
  /\ AskShelves(c)
  /\ UNCHANGED <<active, shelves, shown>>

(* on_shelf_clicked: the old list stays until the new one arrives. *)
ClickShelf(c, s) ==
  /\ Act
  /\ onShelves[c] /\ s \in DOMAIN shelves[c]
  /\ active' = [active EXCEPT ![c] = s]
  /\ AskBooks(c, s)
  /\ UNCHANGED <<onShelves, shelves, shown>>

(* The dialogs and menus. *)
AskCreate(c, n) == onShelves[c] /\ Ask(c, [type |-> "CREATE_SHELF", name |-> n])

AskRename(c, s, n) ==
  /\ onShelves[c] /\ s \in DOMAIN shelves[c] /\ n # shelves[c][s]
  /\ Ask(c, [type |-> "RENAME_SHELF", shelf |-> s, name |-> n])

AskDelete(c, s) ==
  /\ onShelves[c] /\ s \in DOMAIN shelves[c]
  /\ Ask(c, [type |-> "DELETE_SHELF", shelf |-> s])

AskAdd(c, b, s) ==
  /\ ~onShelves[c] /\ s \in DOMAIN shelves[c]
  /\ Ask(c, [type |-> "ADD_BOOK_TO_SHELF", shelf |-> s, book |-> b])

(* A move is from the active shelf, whether or not its list has arrived yet.  *)
AskMove(c, b, s) ==
  /\ onShelves[c] /\ s \in DOMAIN shelves[c] \ {active[c]}
  /\ shown[c][b] > 0
  /\ Ask(c, [type |-> "MOVE_BOOK_BETWEEN_SHELVES", from |-> active[c], shelf |-> s, book |-> b])

AskChange(c) ==
  /\ Act
  /\ \/ \E n \in Name : AskCreate(c, n)
     \/ \E s \in Shelf, n \in Name : AskRename(c, s, n)
     \/ \E s \in Shelf : AskDelete(c, s)
     \/ \E s \in Shelf, b \in Book : AskAdd(c, b, s) \/ AskMove(c, b, s)
  /\ UNCHANGED <<onShelves, active, shelves, shown>>

(* processNetworkData.  A change that went well clears the list and asks for  *)
(* the shelves anew; an error asks for the books of the active shelf.         *)
Arrived(c, type) == down[c] # <<>> /\ Head(down[c]).type = type

Received(c) ==
  /\ down' = [down EXCEPT ![c] = Tail(@)]
  /\ UNCHANGED <<tables, stage, onShelves, active, acts, crashes, marks>>

ReceiveSuccess(c) ==
  /\ Arrived(c, "SUCCESS")
  /\ Received(c)
  /\ shown' = [shown EXCEPT ![c] = NoBooks]
  /\ AskShelves(c)
  /\ UNCHANGED shelves

ReceiveError(c) ==
  /\ Arrived(c, "ERROR")
  /\ Received(c)
  /\ AskBooks(c, active[c])
  /\ UNCHANGED <<shelves, shown>>

(* Mutant: the books of the active shelf are not asked for again. *)
HandleGetShelvesAlone(c) ==
  /\ Arrived(c, "GET_SHELVES_RESPONSE")
  /\ Received(c)
  /\ shelves' = [shelves EXCEPT ![c] = Head(down[c]).shelves]
  /\ UNCHANGED <<line, shown>>

HandleGetShelves(c) ==
  /\ Arrived(c, "GET_SHELVES_RESPONSE")
  /\ Received(c)
  /\ shelves' = [shelves EXCEPT ![c] = Head(down[c]).shelves]
  /\ IF active[c] \in DOMAIN Head(down[c]).shelves
     THEN AskBooks(c, active[c])
     ELSE UNCHANGED line
  /\ UNCHANGED shown

HandleGetShelfBooks(c) ==
  /\ Arrived(c, "GET_SHELF_BOOKS_RESPONSE")
  /\ Received(c)
  /\ shown' = [shown EXCEPT ![c] = Head(down[c]).books]
  /\ UNCHANGED <<line, shelves>>

-----------------------------------------------------------------------------
Work(c) ==
  \/ GetShelves(c) \/ GetShelfBooks(c)
  \/ CreateShelfLook(c) \/ CreateShelf(c)
  \/ RenameShelfLook(c) \/ RenameShelf(c)
  \/ EmptyShelf(c) \/ DeleteShelf(c)
  \/ AddBookLook(c) \/ AddBook(c)
  \/ MoveBookLook(c) \/ TakeBook(c) \/ DropBook(c)
  \/ StatementFails(c)

Receive(c) ==
  ReceiveSuccess(c) \/ ReceiveError(c) \/ HandleGetShelves(c) \/ HandleGetShelfBooks(c)

Next ==
  \/ \E c \in Client : Work(c) \/ Receive(c) \/ OpenTab(c) \/ AskChange(c)
  \/ \E c \in Client, s \in Shelf : ClickShelf(c, s)
  \/ Crash

(* A worker goes on with its request, a client reads what it is sent. *)
Fairness == \A c \in Client : WF_vars(Work(c)) /\ WF_vars(Receive(c))

Spec == Init /\ [][Next]_vars /\ Fairness
-----------------------------------------------------------------------------
(* Properties. *)

Quiet(c) == line[c] = <<>> /\ down[c] = <<>>

(* What a page sends, a list of shelves, and what a worker answers. *)
Request ==
  [type : {"GET_SHELVES"}]
    \cup [type : {"GET_SHELF_BOOKS"}, shelf : Shelf \cup {NoShelf}]
    \cup [type : {"CREATE_SHELF"}, name : Name]
    \cup [type : {"RENAME_SHELF"}, shelf : Shelf, name : Name]
    \cup [type : {"DELETE_SHELF"}, shelf : Shelf]
    \cup [type : {"ADD_BOOK_TO_SHELF"}, shelf : Shelf, book : Book]
    \cup [type : {"MOVE_BOOK_BETWEEN_SHELVES"}, from : Shelf \cup {NoShelf},
                                                shelf : Shelf, book : Book]

ShelfList == UNION {[S -> Name] : S \in SUBSET Shelf}

Response ==
  [type : {"SUCCESS", "ERROR"}]
    \cup [type : {"GET_SHELVES_RESPONSE"}, shelves : ShelfList]
    \cup [type : {"GET_SHELF_BOOKS_RESPONSE"}, books : [Book -> Nat]]

(* Rows, requests, answers and lists have their types; above all, no book     *)
(* stands on a shelf that is not in the table, which the foreign key is there *)
(* for, and no shelf has an id still to be given.                             *)
TypeOK ==
  /\ name \in [Shelf -> Name \cup {NoName}]
  /\ lastId \in Nat
  /\ \A s \in Shelf : InTable(s) => s <= lastId
  /\ place \in [Shelf -> [Book -> Nat]]
  /\ \A s \in Shelf : ~InTable(s) => place[s] = NoBooks
  /\ line \in [Client -> Seq(Request)]
  /\ stage \in [Client -> {"look", "write", "relook", "insert", "take", "drop"}]
  /\ down \in [Client -> Seq(Response)]
  /\ onShelves \in [Client -> BOOLEAN]
  /\ active \in [Client -> Shelf \cup {NoShelf}]
  /\ shelves \in [Client -> ShelfList]
  /\ shown \in [Client -> [Book -> Nat]]
  /\ acts \in Nat /\ crashes \in Nat
  /\ late \in [Client -> BOOLEAN] /\ behind \in [Client -> BOOLEAN]
  /\ placed \cup lost \subseteq Book

(* No two shelves of the user have one name, although nothing but a query     *)
(* before the write sees to it; only a write of another client between the    *)
(* query and the write can give a name twice.                                 *)
NamesOnce ==
  \A s, t \in Shelf : InTable(s) /\ name[s] = name[t] /\ s # t => name[s] \in raced

(* A book stands once on a shelf, with the same exception. *)
PlacedOnce == \A s \in Shelf, b \in Book : place[s][b] > 1 => <<s, b>> \in raced

(* A book put on a shelf stays on one until a shelf is deleted with it: the   *)
(* moves, which take it off first and put it on afterwards, hold it in        *)
(* between.  It is lost only when the server dies then, when the last         *)
(* statement fails, or when another client has deleted the shelf or taken the *)
(* book off it since the query.                                               *)
BooksKept == placed \subseteq Somewhere(place) \cup InHand \cup lost

(* A page that waits for nothing shows the shelves of the table and the books *)
(* of the active shelf, after errors as well as after changes, unless another *)
(* client has changed something since.                                        *)
PageCurrent ==
  \A c \in Client : Quiet(c) /\ ~behind[c] =>
    /\ shelves[c] = Shelves
    /\ active[c] \in DOMAIN Shelves => shown[c] = BooksIn(active[c])

(* What a page asks for is answered, and what the answers make it ask for     *)
(* again: errors make it ask for a list, which must not be an error in turn.  *)
PagesSettle == \A c \in Client : []<>Quiet(c)
=============================================================================
