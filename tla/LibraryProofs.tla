--------------------------- MODULE LibraryProofs ---------------------------
(* Theorems about Library, for any clients, books, names and bounds. *)
EXTENDS Library, TLAPS

-----------------------------------------------------------------------------
(* Sequences, whatever is in them. *)

LEMMA AppendSeq ==
  ASSUME NEW S, NEW q \in Seq(S), NEW m \in S
  PROVE /\ Append(q, m) \in Seq(S)
        /\ Append(q, m) # <<>>
        /\ Len(q) \in Nat
        /\ Len(Append(q, m)) = Len(q) + 1
        /\ Append(q, m)[Len(q) + 1] = m
        /\ \A i \in 1..Len(q) : Append(q, m)[i] = q[i]
        /\ q # <<>> => Head(Append(q, m)) = Head(q)
        /\ q = <<>> => Head(Append(q, m)) = m
OBVIOUS

LEMMA TailSeq ==
  ASSUME NEW S, NEW q \in Seq(S), q # <<>>
  PROVE /\ Tail(q) \in Seq(S)
        /\ Head(q) \in S
        /\ Head(q) = q[1]
        /\ Len(q) \in Nat \ {0}
        /\ Len(Tail(q)) = Len(q) - 1
        /\ \A i \in 1..(Len(q) - 1) : Tail(q)[i] = q[i + 1]
OBVIOUS

-----------------------------------------------------------------------------
(* Requests and answers. *)

LEMMA RequestFields ==
  ASSUME NEW r \in Request
  PROVE /\ r.type \in {"GET_SHELVES", "GET_SHELF_BOOKS", "CREATE_SHELF", "RENAME_SHELF",
                       "DELETE_SHELF", "ADD_BOOK_TO_SHELF", "MOVE_BOOK_BETWEEN_SHELVES"}
        /\ r.type = "GET_SHELF_BOOKS" => r.shelf \in Shelf \cup {NoShelf}
        /\ r.type = "CREATE_SHELF" => r.name \in Name
        /\ r.type = "RENAME_SHELF" => r.shelf \in Shelf /\ r.name \in Name
        /\ r.type = "DELETE_SHELF" => r.shelf \in Shelf
        /\ r.type = "ADD_BOOK_TO_SHELF" => r.shelf \in Shelf /\ r.book \in Book
        /\ r.type = "MOVE_BOOK_BETWEEN_SHELVES" =>
             r.from \in Shelf \cup {NoShelf} /\ r.shelf \in Shelf /\ r.book \in Book
BY DEF Request

LEMMA ResponseFields ==
  ASSUME NEW m \in Response
  PROVE /\ m.type \in {"SUCCESS", "ERROR", "GET_SHELVES_RESPONSE", "GET_SHELF_BOOKS_RESPONSE"}
        /\ m.type = "GET_SHELVES_RESPONSE" => m.shelves \in ShelfList
        /\ m.type = "GET_SHELF_BOOKS_RESPONSE" => m.books \in [Book -> Nat]
BY DEF Response

LEMMA Requests ==
  /\ [type |-> "GET_SHELVES"] \in Request
  /\ \A s \in Shelf \cup {NoShelf} : [type |-> "GET_SHELF_BOOKS", shelf |-> s] \in Request
  /\ \A n \in Name : [type |-> "CREATE_SHELF", name |-> n] \in Request
  /\ \A s \in Shelf, n \in Name : [type |-> "RENAME_SHELF", shelf |-> s, name |-> n] \in Request
  /\ \A s \in Shelf : [type |-> "DELETE_SHELF", shelf |-> s] \in Request
  /\ \A s \in Shelf, b \in Book :
       [type |-> "ADD_BOOK_TO_SHELF", shelf |-> s, book |-> b] \in Request
  /\ \A f \in Shelf \cup {NoShelf}, s \in Shelf, b \in Book :
       [type |-> "MOVE_BOOK_BETWEEN_SHELVES", from |-> f, shelf |-> s, book |-> b] \in Request
BY DEF Request

LEMMA Responses ==
  /\ Success \in Response
  /\ Error \in Response
  /\ \A l \in ShelfList : [type |-> "GET_SHELVES_RESPONSE", shelves |-> l] \in Response
  /\ \A l \in [Book -> Nat] : [type |-> "GET_SHELF_BOOKS_RESPONSE", books |-> l] \in Response
BY DEF Response, Success, Error

(* The ids of shelves are numbers, those there at first the least ones. *)
LEMMA ShelfIds ==
  /\ Shelf \subseteq Nat
  /\ DOMAIN First \subseteq Shelf
  /\ \A s \in DOMAIN First : First[s] \in Name
  /\ Len(First) \in Nat
  /\ NoShelf \notin Shelf
BY NameAssumption, ShelfAssumption, BoundAssumption DEF Shelf

(* The queries return lists of their kind. *)
LEMMA QueriesOK ==
  ASSUME TypeOK
  PROVE /\ Shelves \in ShelfList
        /\ DOMAIN Shelves = {s \in Shelf : InTable(s)}
        /\ \A s \in DOMAIN Shelves : Shelves[s] = name[s] /\ s \in Shelf
        /\ \A s : BooksIn(s) \in [Book -> Nat]
        /\ NoBooks \in [Book -> Nat]
<1> DEFINE S == {s \in Shelf : InTable(s)}
<1>1. Shelves = [s \in S |-> name[s]]
  BY DEF Shelves
<1>2. Shelves \in [S -> Name] /\ S \in SUBSET Shelf
  BY <1>1 DEF TypeOK, InTable
<1>3. Shelves \in ShelfList
  BY <1>2 DEF ShelfList
<1>4. DOMAIN Shelves = {s \in Shelf : InTable(s)}
  BY <1>1
<1>5. \A s : BooksIn(s) \in [Book -> Nat]
  BY DEF BooksIn, TypeOK
<1>6. NoBooks \in [Book -> Nat]
  BY DEF NoBooks
<1>7. QED
  BY <1>1, <1>3, <1>4, <1>5, <1>6

LEMMA ListFields ==
  ASSUME NEW l \in ShelfList
  PROVE DOMAIN l \subseteq Shelf
BY DEF ShelfList

-----------------------------------------------------------------------------
(* The parts the actions are made of. *)

LEMMA AnswerOK ==
  ASSUME TypeOK, NEW c \in Client, line[c] # <<>>, NEW m \in Response, Answer(c, m)
  PROVE /\ line' \in [Client -> Seq(Request)]
        /\ stage' \in [Client -> {"look", "write", "relook", "insert", "take", "drop"}]
        /\ down' \in [Client -> Seq(Response)]
<1>1. line[c] \in Seq(Request) /\ down[c] \in Seq(Response)
  BY DEF TypeOK
<1>2. Tail(line[c]) \in Seq(Request)
  BY <1>1, TailSeq
<1>3. Append(down[c], m) \in Seq(Response)
  BY <1>1, AppendSeq
<1>4. QED
  BY <1>2, <1>3 DEF TypeOK, Answer

LEMMA AskOK ==
  ASSUME TypeOK, NEW c \in Client, NEW r \in Request, Ask(c, r)
  PROVE line' \in [Client -> Seq(Request)]
<1>1. line[c] \in Seq(Request)
  BY DEF TypeOK
<1>2. Append(line[c], r) \in Seq(Request)
  BY <1>1, AppendSeq
<1>3. QED
  BY <1>2 DEF TypeOK, Ask

LEMMA HeadOK ==
  ASSUME TypeOK, NEW c \in Client
  PROVE /\ line[c] # <<>> => Head(line[c]) \in Request
        /\ down[c] # <<>> => Head(down[c]) \in Response /\ Tail(down[c]) \in Seq(Response)
BY TailSeq DEF TypeOK

LEMMA ReceivedOK ==
  ASSUME TypeOK, NEW c \in Client, down[c] # <<>>, Received(c),
         line' \in [Client -> Seq(Request)],
         shelves' \in [Client -> ShelfList],
         shown' \in [Client -> [Book -> Nat]]
  PROVE TypeOK'
<1>1. down' \in [Client -> Seq(Response)]
  BY HeadOK DEF TypeOK, Received
<1>2. QED
  BY <1>1 DEF TypeOK, Received, tables, marks, InTable, NoBooks

-----------------------------------------------------------------------------
(* Type correctness. *)

LEMMA InitTypes == Init => TypeOK
<1> SUFFICES ASSUME Init PROVE TypeOK
  OBVIOUS
<1>1. name \in [Shelf -> Name \cup {NoName}] /\ lastId \in Nat
  BY ShelfIds DEF Init
<1>2. \A s \in Shelf : InTable(s) <=> s \in DOMAIN First
  BY ShelfIds, NameAssumption DEF Init, InTable
<1>3. \A s \in Shelf : InTable(s) => s <= lastId
  BY <1>2, ShelfIds, NameAssumption DEF Init
<1>4. PICK on \in [DOMAIN First -> SUBSET Book] :
        place = [s \in Shelf |-> [b \in Book |-> IF s \in DOMAIN First /\ b \in on[s] THEN 1 ELSE 0]]
  BY DEF Init
<1>5. place \in [Shelf -> [Book -> Nat]] /\ \A s \in Shelf : ~InTable(s) => place[s] = NoBooks
  BY <1>2, <1>4 DEF NoBooks
<1>6. line \in [Client -> Seq(Request)] /\ down \in [Client -> Seq(Response)]
  BY DEF Init
<1>7. Shelves \in ShelfList
  <2> DEFINE S == {s \in Shelf : InTable(s)}
  <2>1. Shelves = [s \in S |-> name[s]]
    BY DEF Shelves
  <2>2. Shelves \in [S -> Name] /\ S \in SUBSET Shelf
    BY <1>1, <2>1 DEF InTable
  <2>3. QED
    BY <2>2 DEF ShelfList
<1>8. \A s : BooksIn(s) \in [Book -> Nat]
  BY <1>5 DEF BooksIn
<1>9. onShelves \in [Client -> BOOLEAN] /\ active \in [Client -> Shelf \cup {NoShelf}]
  BY ShelfIds DEF Init
<1>10. shelves \in [Client -> ShelfList] /\ shown \in [Client -> [Book -> Nat]]
  BY <1>7, <1>8 DEF Init
<1>11. placed \cup lost \subseteq Book
  BY DEF Init, Somewhere
<1>12. /\ stage \in [Client -> {"look", "write", "relook", "insert", "take", "drop"}]
       /\ late \in [Client -> BOOLEAN] /\ behind \in [Client -> BOOLEAN]
       /\ acts \in Nat /\ crashes \in Nat
  BY DEF Init
<1>13. QED
  BY <1>1, <1>3, <1>5, <1>6, <1>9, <1>10, <1>11, <1>12 DEF TypeOK

(* What the statements do to the rows. *)
Rows ==
  /\ name \in [Shelf -> Name \cup {NoName}]
  /\ lastId \in Nat
  /\ \A s \in Shelf : InTable(s) => s <= lastId
  /\ place \in [Shelf -> [Book -> Nat]]
  /\ \A s \in Shelf : ~InTable(s) => place[s] = NoBooks

Queues ==
  /\ line \in [Client -> Seq(Request)]
  /\ stage \in [Client -> {"look", "write", "relook", "insert", "take", "drop"}]
  /\ down \in [Client -> Seq(Response)]

LEMMA LookTypes ==
  ASSUME TypeOK, NEW c \in Client, Looked(c), Queues'
  PROVE TypeOK'
BY DEF TypeOK, Queues, Looked, tables, pages, InTable, NoBooks

LEMMA WriteTypes ==
  ASSUME TypeOK, NEW c \in Client, Wrote(c), Queues', Rows', (placed \cup lost \subseteq Book)'
  PROVE TypeOK'
<1>1. late' \in [Client -> BOOLEAN] /\ behind' \in [Client -> BOOLEAN]
  BY DEF Wrote, TypeOK
<1>2. UNCHANGED <<onShelves, active, shelves, shown, acts, crashes>>
  BY DEF Wrote, pages
<1>3. QED
  BY <1>1, <1>2 DEF TypeOK, Queues, Rows

LEMMA GoOnTypes ==
  ASSUME TypeOK, NEW c \in Client,
         NEW st \in {"look", "write", "relook", "insert", "take", "drop"}, GoOn(c, st)
  PROVE Queues'
BY DEF TypeOK, Queues, GoOn

LEMMA AnswerTypes ==
  ASSUME TypeOK, NEW c \in Client, line[c] # <<>>, NEW m \in Response, Answer(c, m)
  PROVE Queues'
BY AnswerOK DEF Queues

LEMMA SameRows ==
  ASSUME TypeOK, UNCHANGED tables
  PROVE Rows'
BY DEF TypeOK, Rows, tables, InTable, NoBooks

LEMMA NameRows ==
  ASSUME TypeOK, UNCHANGED <<lastId, place>>, NEW s \in Shelf, NEW n \in Name,
         name' = IF InTable(s) THEN [name EXCEPT ![s] = n] ELSE name
  PROVE Rows'
<1>1. \A t \in Shelf : InTable(t)' <=> InTable(t)
  BY NameAssumption DEF TypeOK, InTable
<1>2. QED
  BY <1>1 DEF TypeOK, Rows, NoBooks

LEMMA NewRow ==
  ASSUME TypeOK, UNCHANGED place, NEW n \in Name, lastId' = lastId + 1,
         name' = [name EXCEPT ![lastId + 1] = n]
  PROVE Rows'
<1>1. \A t \in Shelf : InTable(t)' <=> InTable(t) \/ t = lastId + 1
  BY NameAssumption DEF TypeOK, InTable
<1>2. \A t \in Shelf : InTable(t)' => t <= lastId'
  BY <1>1, ShelfIds DEF TypeOK
<1>3. \A t \in Shelf : ~InTable(t)' => place'[t] = NoBooks
  BY <1>1 DEF TypeOK
<1>4. lastId' \in Nat
  BY DEF TypeOK
<1> DEFINE new == lastId + 1
<1>6. name \in [Shelf -> Name \cup {NoName}] /\ name' = [name EXCEPT ![new] = n]
  BY DEF TypeOK
<1> HIDE DEF new
<1>7. name' \in [Shelf -> Name \cup {NoName}]
  BY <1>6
<1>8. QED
  BY <1>2, <1>3, <1>4, <1>7 DEF TypeOK, Rows, NoBooks

LEMMA NoRowOf ==
  ASSUME TypeOK, UNCHANGED <<lastId, place>>, NEW s \in Shelf, place[s] = NoBooks,
         name' = [name EXCEPT ![s] = NoName]
  PROVE Rows'
<1>1. \A t \in Shelf : InTable(t)' <=> InTable(t) /\ t # s
  BY DEF TypeOK, InTable
<1>2. QED
  BY <1>1 DEF TypeOK, Rows, NoBooks

LEMMA BookRows ==
  ASSUME TypeOK, UNCHANGED <<name, lastId>>, place' \in [Shelf -> [Book -> Nat]],
         \A s \in Shelf : InTable(s) \/ place'[s] = place[s] \/ place'[s] = NoBooks
  PROVE Rows'
BY DEF TypeOK, Rows, InTable, NoBooks

(* Taking a book off a shelf, if there is such a shelf. *)
LEMMA OffRows ==
  ASSUME TypeOK, UNCHANGED <<name, lastId>>, NEW f, NEW b,
         place' = [place EXCEPT ![f][b] = 0]
  PROVE Rows'
<1>1. place' \in [Shelf -> [Book -> Nat]]
  BY DEF TypeOK
<1>2. ASSUME NEW s \in Shelf
      PROVE InTable(s) \/ place'[s] = place[s] \/ place'[s] = NoBooks
  <2>1. ~InTable(s) => place[s] = NoBooks
    BY DEF TypeOK
  <2>2. NoBooks = [NoBooks EXCEPT ![b] = 0]
    BY DEF NoBooks
  <2>3. place'[s] = place[s] \/ place'[s] = [place[s] EXCEPT ![b] = 0]
    BY DEF TypeOK
  <2>4. QED
    BY <2>1, <2>2, <2>3
<1>3. QED
  BY <1>1, <1>2, BookRows

LEMMA WorkTypes ==
  ASSUME TypeOK, NEW c \in Client, Work(c)
  PROVE TypeOK'
<1> DEFINE r == Head(line[c])
<1>1. line[c] # <<>> => r \in Request
  BY HeadOK
<1>2. line[c] # <<>>
  BY DEF Work, GetShelves, GetShelfBooks, CreateShelfLook, CreateShelf, RenameShelfLook,
         RenameShelf, EmptyShelf, DeleteShelf, AddBookLook, AddBook, MoveBookLook, TakeBook,
         DropBook, StatementFails, Takes
<1>3. r \in Request
  BY <1>1, <1>2
<1> USE <1>2, <1>3
<1> HIDE DEF r
<1>4. CASE GetShelves(c)
  <2> DEFINE m == [type |-> "GET_SHELVES_RESPONSE", shelves |-> Shelves]
  <2>1. m \in Response
    BY QueriesOK, Responses
  <2>2. Answer(c, m)
    BY <1>4 DEF GetShelves
  <2> HIDE DEF m
  <2>3. Queues'
    BY <2>1, <2>2, AnswerTypes
  <2>4. QED
    BY <1>4, <2>3 DEF TypeOK, Queues, GetShelves, tables, pages, InTable, NoBooks
<1>5. CASE GetShelfBooks(c)
  <2> DEFINE m == [type |-> "GET_SHELF_BOOKS_RESPONSE", books |-> BooksIn(Head(line[c]).shelf)]
  <2>1. m \in Response
    BY QueriesOK, Responses
  <2>2. Answer(c, m)
    BY <1>5 DEF GetShelfBooks
  <2> HIDE DEF m
  <2>3. Queues'
    BY <2>1, <2>2, AnswerTypes
  <2>4. QED
    BY <1>5, <2>3 DEF TypeOK, Queues, GetShelfBooks, tables, pages, marks, InTable, NoBooks
<1>6. CASE CreateShelfLook(c) \/ RenameShelfLook(c) \/ AddBookLook(c) \/ MoveBookLook(c)
  <2>1. PICK st \in {"write", "insert", "drop", "take"} : Answer(c, Error) \/ GoOn(c, st)
    BY <1>6 DEF CreateShelfLook, RenameShelfLook, AddBookLook, MoveBookLook
  <2>2. Queues'
    BY <2>1, AnswerTypes, GoOnTypes, Responses
  <2>3. Looked(c)
    BY <1>6 DEF CreateShelfLook, RenameShelfLook, AddBookLook, MoveBookLook
  <2>4. QED
    BY <2>2, <2>3, LookTypes
<1>7. CASE CreateShelf(c)
  <2>1. Answer(c, Success) /\ Wrote(c) /\ UNCHANGED <<place, placed, lost>>
    BY <1>7 DEF CreateShelf
  <2>2. Queues'
    BY <2>1, AnswerTypes, Responses
  <2>3. r.name \in Name /\ lastId' = lastId + 1 /\ name' = [name EXCEPT ![lastId + 1] = r.name]
    BY <1>7, RequestFields DEF CreateShelf, Takes, r
  <2>4. Rows'
    BY <2>1, <2>3, NewRow
  <2>5. QED
    BY <2>1, <2>2, <2>4, WriteTypes DEF TypeOK
<1>8. CASE RenameShelf(c)
  <2>1. Answer(c, Success) /\ Wrote(c) /\ UNCHANGED <<lastId, place, placed, lost>>
    BY <1>8 DEF RenameShelf
  <2>2. Queues'
    BY <2>1, AnswerTypes, Responses
  <2>3. /\ r.shelf \in Shelf /\ r.name \in Name
        /\ name' = IF InTable(r.shelf) THEN [name EXCEPT ![r.shelf] = r.name] ELSE name
    BY <1>8, RequestFields DEF RenameShelf, Takes, r
  <2>4. Rows'
    BY <2>1, <2>3, NameRows
  <2>5. QED
    BY <2>1, <2>2, <2>4, WriteTypes DEF TypeOK
<1>9. CASE EmptyShelf(c)
  <2>1. GoOn(c, "write") /\ Wrote(c) /\ UNCHANGED <<name, lastId, lost>>
    BY <1>9 DEF EmptyShelf
  <2>2. Queues'
    BY <2>1, GoOnTypes
  <2>3. r.shelf \in Shelf /\ place' = [place EXCEPT ![r.shelf] = NoBooks]
    BY <1>9, RequestFields DEF EmptyShelf, Takes, r
  <2>4. Rows'
    BY <2>1, <2>3, BookRows, QueriesOK DEF TypeOK
  <2>5. placed' \subseteq placed
    BY <1>9 DEF EmptyShelf
  <2>6. QED
    BY <2>1, <2>2, <2>4, <2>5, WriteTypes DEF TypeOK
<1>10. CASE DeleteShelf(c)
  <2>1. /\ Answer(c, Success) \/ Answer(c, Error)
        /\ Wrote(c) /\ UNCHANGED <<lastId, place, placed, lost>>
    BY <1>10 DEF DeleteShelf
  <2>2. Queues'
    BY <2>1, AnswerTypes, Responses
  <2>3. /\ r.shelf \in Shelf
        /\ \/ place[r.shelf] = NoBooks /\ name' = [name EXCEPT ![r.shelf] = NoName]
           \/ UNCHANGED name
    BY <1>10, RequestFields DEF DeleteShelf, Takes, r
  <2>4. Rows'
    BY <2>1, <2>3, NoRowOf, SameRows DEF tables
  <2>5. QED
    BY <2>1, <2>2, <2>4, WriteTypes DEF TypeOK
<1>11. CASE AddBook(c)
  <2>1. /\ Answer(c, Success) \/ Answer(c, Error)
        /\ Wrote(c) /\ UNCHANGED <<name, lastId>>
    BY <1>11 DEF AddBook
  <2>2. Queues'
    BY <2>1, AnswerTypes, Responses
  <2>3. r.shelf \in Shelf /\ r.book \in Book
    BY <1>11, RequestFields DEF AddBook, Takes, r
  <2>4. \/ InTable(r.shelf) /\ place' = [place EXCEPT ![r.shelf][r.book] = @ + 1]
        \/ UNCHANGED place
    BY <1>11 DEF AddBook, r
  <2>5. place' \in [Shelf -> [Book -> Nat]]
    <3>1. place \in [Shelf -> [Book -> Nat]]
      BY DEF TypeOK
    <3>2. place[r.shelf] \in [Book -> Nat] /\ place[r.shelf][r.book] + 1 \in Nat
      BY <2>3, <3>1
    <3>3. [place[r.shelf] EXCEPT ![r.book] = @ + 1] \in [Book -> Nat]
      BY <3>2
    <3>4. QED
      BY <2>4, <3>1, <3>3
  <2>6. Rows'
    BY <2>1, <2>3, <2>4, <2>5, BookRows DEF TypeOK
  <2>7. (placed \cup lost \subseteq Book)'
    BY <1>11, <2>3 DEF AddBook, r, TypeOK
  <2>8. QED
    BY <2>1, <2>2, <2>6, <2>7, WriteTypes
<1>12. CASE TakeBook(c) \/ DropBook(c)
  <2>1. Wrote(c) /\ UNCHANGED <<name, lastId>>
    BY <1>12 DEF TakeBook, DropBook
  <2>2. Queues'
    BY <1>12, AnswerTypes, GoOnTypes, Responses DEF TakeBook, DropBook
  <2>3. place' = [place EXCEPT ![r.from][r.book] = 0] /\ r.book \in Book
    BY <1>12, RequestFields DEF TakeBook, DropBook, Takes, r
  <2>4. Rows'
    BY <2>1, <2>3, OffRows
  <2>5. (placed \cup lost \subseteq Book)'
    BY <1>12, <2>3 DEF TakeBook, DropBook, TypeOK, r
  <2>6. QED
    BY <2>1, <2>2, <2>4, <2>5, WriteTypes
<1>13. CASE StatementFails(c)
  <2>1. Answer(c, Error) /\ UNCHANGED <<tables, pages, crashes, late, placed, raced, behind>>
    BY <1>13 DEF StatementFails
  <2>2. Queues'
    BY <2>1, AnswerTypes, Responses
  <2>3. lost' \subseteq Book
    BY <1>13, RequestFields DEF StatementFails, TypeOK, r
  <2>4. QED
    BY <2>1, <2>2, <2>3 DEF TypeOK, Queues, tables, pages, InTable, NoBooks
<1>14. QED
  BY <1>4, <1>5, <1>6, <1>7, <1>8, <1>9, <1>10, <1>11, <1>12, <1>13 DEF Work

LEMMA PageTypes ==
  ASSUME TypeOK, NEW c \in Client,
         Receive(c) \/ OpenTab(c) \/ AskChange(c) \/ \E s \in Shelf : ClickShelf(c, s)
  PROVE TypeOK'
<1>1. ASSUME NEW r \in Request, Ask(c, r) PROVE line' \in [Client -> Seq(Request)]
  BY <1>1, AskOK
<1>2. CASE Receive(c)
  <2>1. CASE ReceiveSuccess(c)
    <3>1. line' \in [Client -> Seq(Request)]
      BY <1>1, <2>1, Requests DEF ReceiveSuccess, AskShelves
    <3>2. shelves' \in [Client -> ShelfList] /\ shown' \in [Client -> [Book -> Nat]]
      BY <2>1, QueriesOK DEF ReceiveSuccess, TypeOK
    <3>3. QED
      BY <2>1, <3>1, <3>2, ReceivedOK DEF ReceiveSuccess, Arrived
  <2>2. CASE ReceiveError(c)
    <3>1. line' \in [Client -> Seq(Request)]
      BY <1>1, <2>2, Requests DEF ReceiveError, AskBooks, TypeOK
    <3>2. QED
      BY <2>2, <3>1, ReceivedOK DEF ReceiveError, Arrived, TypeOK
  <2>3. CASE HandleGetShelves(c)
    <3>1. Head(down[c]).shelves \in ShelfList
      BY <2>3, HeadOK, ResponseFields DEF HandleGetShelves, Arrived
    <3>2. active[c] \in Shelf \cup {NoShelf}
      BY DEF TypeOK
    <3>3. line' \in [Client -> Seq(Request)]
      BY <1>1, <2>3, <3>2, Requests DEF HandleGetShelves, AskBooks, TypeOK
    <3>4. shelves' \in [Client -> ShelfList] /\ shown' \in [Client -> [Book -> Nat]]
      BY <2>3, <3>1 DEF HandleGetShelves, TypeOK
    <3>5. QED
      BY <2>3, <3>3, <3>4, ReceivedOK DEF HandleGetShelves, Arrived
  <2>4. CASE HandleGetShelfBooks(c)
    <3>1. Head(down[c]).books \in [Book -> Nat]
      BY <2>4, HeadOK, ResponseFields DEF HandleGetShelfBooks, Arrived
    <3>2. /\ line' \in [Client -> Seq(Request)]
          /\ shelves' \in [Client -> ShelfList] /\ shown' \in [Client -> [Book -> Nat]]
      BY <2>4, <3>1 DEF HandleGetShelfBooks, TypeOK
    <3>3. QED
      BY <2>4, <3>2, ReceivedOK DEF HandleGetShelfBooks, Arrived
  <2>5. QED
    BY <1>2, <2>1, <2>2, <2>3, <2>4 DEF Receive
<1>3. ASSUME Act,
             line' \in [Client -> Seq(Request)],
             onShelves' \in [Client -> BOOLEAN],
             active' \in [Client -> Shelf \cup {NoShelf}],
             UNCHANGED <<shelves, shown>>
      PROVE TypeOK'
  <2>1. UNCHANGED <<tables, stage, down, crashes, marks>> /\ acts' \in Nat
    BY <1>3 DEF Act, TypeOK
  <2>2. QED
    BY <1>3, <2>1 DEF TypeOK, tables, marks, InTable, NoBooks
<1>4. CASE OpenTab(c)
  <2>1. line' \in [Client -> Seq(Request)]
    BY <1>1, <1>4, Requests DEF OpenTab, AskShelves
  <2>2. onShelves' \in [Client -> BOOLEAN]
    BY <1>4 DEF OpenTab, TypeOK
  <2>3. QED
    BY <1>3, <1>4, <2>1, <2>2 DEF OpenTab, TypeOK
<1>5. ASSUME NEW s \in Shelf, ClickShelf(c, s) PROVE TypeOK'
  <2>1. line' \in [Client -> Seq(Request)]
    BY <1>1, <1>5, Requests DEF ClickShelf, AskBooks
  <2>2. active' \in [Client -> Shelf \cup {NoShelf}]
    BY <1>5 DEF ClickShelf, TypeOK
  <2>3. QED
    BY <1>3, <1>5, <2>1, <2>2 DEF ClickShelf, TypeOK
<1>6. CASE AskChange(c)
  <2>1. PICK r \in Request : Ask(c, r)
    <3>1. active[c] \in Shelf \cup {NoShelf}
      BY DEF TypeOK
    <3>2. CASE \E n \in Name : AskCreate(c, n)
      BY <3>2, Requests DEF AskCreate
    <3>3. CASE \E s \in Shelf, n \in Name : AskRename(c, s, n)
      BY <3>3, Requests DEF AskRename
    <3>4. CASE \E s \in Shelf : AskDelete(c, s)
      BY <3>4, Requests DEF AskDelete
    <3>5. CASE \E s \in Shelf, b \in Book : AskAdd(c, b, s) \/ AskMove(c, b, s)
      BY <3>1, <3>5, Requests DEF AskAdd, AskMove
    <3>6. QED
      BY <1>6, <3>2, <3>3, <3>4, <3>5 DEF AskChange
  <2>2. line' \in [Client -> Seq(Request)]
    BY <1>1, <2>1
  <2>3. QED
    BY <1>3, <1>6, <2>2 DEF AskChange, TypeOK
<1>7. QED
  BY <1>2, <1>4, <1>5, <1>6

LEMMA CrashTypes ==
  ASSUME TypeOK, Crash
  PROVE TypeOK'
<1>1. line' \in [Client -> Seq(Request)] /\ down' \in [Client -> Seq(Response)]
  BY DEF Crash
<1>2. shelves' \in [Client -> ShelfList] /\ shown' \in [Client -> [Book -> Nat]]
  BY QueriesOK DEF Crash
<1>3. InHand \subseteq Book
  BY HeadOK, RequestFields DEF InHand, Takes
<1>4. Rows'
  BY SameRows DEF Crash
<1>5. QED
  BY <1>1, <1>2, <1>3, <1>4 DEF Crash, TypeOK, Rows

LEMMA TypeStep == TypeOK /\ [Next]_vars => TypeOK'
<1> SUFFICES ASSUME TypeOK, [Next]_vars PROVE TypeOK'
  OBVIOUS
<1>1. CASE UNCHANGED vars
  BY <1>1 DEF vars, TypeOK, InTable, NoBooks
<1>2. CASE Next
  BY <1>2, WorkTypes, PageTypes, CrashTypes DEF Next
<1>3. QED
  BY <1>1, <1>2

(* Rows, requests, answers and lists have their types; the foreign key keeps  *)
(* every book on a shelf that is in the table, and ids are given once.        *)
THEOREM TypeCorrect == Spec => []TypeOK
BY InitTypes, TypeStep, PTL DEF Spec

-----------------------------------------------------------------------------
(***************************************************************************)
(* The inductive invariant of the workers.                                 *)
(***************************************************************************)

(* Which statements a request goes through. *)
Staged(c) ==
  LET type == Head(line[c]).type
  IN  /\ line[c] = <<>> => stage[c] = "look"
      /\ line[c] # <<>> =>
           /\ stage[c] = "write" => type \in {"CREATE_SHELF", "RENAME_SHELF", "DELETE_SHELF"}
           /\ stage[c] = "insert" => type \in {"ADD_BOOK_TO_SHELF", "MOVE_BOOK_BETWEEN_SHELVES"}
           /\ stage[c] \in {"take", "relook", "drop"} => type = "MOVE_BOOK_BETWEEN_SHELVES"

(* What a handler has found out is still so, unless another has written. *)
Found(c) ==
  LET r == Head(line[c])
  IN  line[c] # <<>> /\ ~late[c] =>
        /\ stage[c] = "write" /\ r.type = "CREATE_SHELF" => \A s \in Shelf : name[s] # r.name
        /\ stage[c] = "write" /\ r.type = "RENAME_SHELF" =>
             \A s \in Shelf \ {r.shelf} : name[s] # r.name
        /\ stage[c] = "insert" => place[r.shelf][r.book] = 0
        /\ stage[c] = "drop" => place[r.shelf][r.book] > 0

(* A book is moved to another shelf. *)
Apart == {r \in Request : r.type = "MOVE_BOOK_BETWEEN_SHELVES" => r.from # r.shelf}

WorkInv ==
  /\ TypeOK
  /\ line \in [Client -> Seq(Apart)]
  /\ \A c \in Client : Staged(c) /\ Found(c)

LEMMA FreshStage ==
  ASSUME NEW d \in Client, stage'[d] = "look"
  PROVE Staged(d)' /\ Found(d)'
BY DEF Staged, Found

(* The request in work stays, and nobody has written, or the handler is late. *)
LEMMA SameStage ==
  ASSUME NEW d \in Client, Staged(d), Found(d), stage'[d] = stage[d],
         \/ line'[d] = line[d]
         \/ line[d] # <<>> /\ line'[d] # <<>> /\ Head(line'[d]) = Head(line[d])
         \/ line[d] = <<>>,
         \/ late'[d] = TRUE
         \/ late'[d] = late[d] /\ UNCHANGED <<name, place>>
  PROVE Staged(d)' /\ Found(d)'
<1>1. CASE line[d] = <<>>
  <2>1. stage'[d] = "look"
    BY <1>1 DEF Staged
  <2>2. QED
    BY <2>1, FreshStage
<1>2. CASE line[d] # <<>>
  <2>1. line'[d] # <<>> /\ Head(line'[d]) = Head(line[d])
    BY <1>2
  <2>2. Staged(d)'
    BY <1>2, <2>1 DEF Staged
  <2>3. Found(d)'
    BY <1>2, <2>1 DEF Found
  <2>4. QED
    BY <2>2, <2>3
<1>3. QED
  BY <1>1, <1>2

LEMMA OthersStay ==
  ASSUME TypeOK, NEW c \in Client, Work(c), NEW d \in Client \ {c}
  PROVE /\ line'[d] = line[d] /\ stage'[d] = stage[d]
        /\ \/ late'[d] = TRUE
           \/ late'[d] = late[d] /\ UNCHANGED <<name, place>>
<1>1. line'[d] = line[d] /\ stage'[d] = stage[d]
  <2>1. PICK m, st : Answer(c, m) \/ GoOn(c, st)
    BY DEF Work, GetShelves, GetShelfBooks, CreateShelfLook, CreateShelf, RenameShelfLook,
           RenameShelf, EmptyShelf, DeleteShelf, AddBookLook, AddBook, MoveBookLook, TakeBook,
           DropBook, StatementFails
  <2>2. QED
    BY <2>1 DEF Answer, GoOn, TypeOK
<1>2. CASE Looked(c)
  BY <1>1, <1>2 DEF Looked, tables, TypeOK
<1>3. CASE Wrote(c)
  BY <1>1, <1>3 DEF Wrote
<1>4. CASE UNCHANGED <<tables, late>>
  BY <1>1, <1>4 DEF tables
<1>5. Looked(c) \/ Wrote(c) \/ UNCHANGED <<tables, late>>
  BY DEF Work, GetShelves, GetShelfBooks, CreateShelfLook, CreateShelf, RenameShelfLook,
         RenameShelf, EmptyShelf, DeleteShelf, AddBookLook, AddBook, MoveBookLook, TakeBook,
         DropBook, StatementFails, marks
<1>6. QED
  BY <1>2, <1>3, <1>4, <1>5

LEMMA OwnStage ==
  ASSUME WorkInv, NEW c \in Client, Work(c)
  PROVE Staged(c)' /\ Found(c)'
<1> DEFINE r == Head(line[c])
<1>0. TypeOK
  BY DEF WorkInv
<1>1. line[c] # <<>>
  BY DEF Work, GetShelves, GetShelfBooks, CreateShelfLook, CreateShelf, RenameShelfLook,
         RenameShelf, EmptyShelf, DeleteShelf, AddBookLook, AddBook, MoveBookLook, TakeBook,
         DropBook, StatementFails, Takes
<1>2. r \in Request
  BY <1>0, <1>1, HeadOK
<1>3. ASSUME NEW m, Answer(c, m) PROVE Staged(c)' /\ Found(c)'
  BY <1>0, <1>3, FreshStage DEF Answer, TypeOK
<1>4. ASSUME NEW st, GoOn(c, st)
      PROVE line' = line /\ stage'[c] = st /\ Head(line'[c]) = r /\ line'[c] # <<>>
  BY <1>0, <1>1, <1>4 DEF GoOn, TypeOK
<1>5. CASE CreateShelfLook(c)
  <2>1. CASE GoOn(c, "write") /\ ~\E s \in Shelf : name[s] = r.name
    <3>1. UNCHANGED <<name, place>> /\ r.type = "CREATE_SHELF"
      BY <1>5 DEF CreateShelfLook, Looked, tables, Takes
    <3>2. QED
      BY <1>4, <2>1, <3>1 DEF Staged, Found
  <2>2. QED
    BY <1>3, <1>5, <2>1 DEF CreateShelfLook
<1>6. CASE RenameShelfLook(c)
  <2>1. CASE GoOn(c, "write") /\ ~\E s \in Shelf \ {r.shelf} : name[s] = r.name
    <3>1. UNCHANGED <<name, place>> /\ r.type = "RENAME_SHELF"
      BY <1>6 DEF RenameShelfLook, Looked, tables, Takes
    <3>2. QED
      BY <1>4, <2>1, <3>1 DEF Staged, Found
  <2>2. QED
    BY <1>3, <1>6, <2>1 DEF RenameShelfLook
<1>7. CASE EmptyShelf(c)
  <2>1. GoOn(c, "write") /\ r.type = "DELETE_SHELF"
    BY <1>7 DEF EmptyShelf, Takes
  <2>2. QED
    BY <1>4, <2>1 DEF Staged, Found
<1>8. CASE AddBookLook(c)
  <2>1. CASE GoOn(c, "insert") /\ ~(place[r.shelf][r.book] > 0)
    <3>1. /\ UNCHANGED <<name, place>>
          /\ r.type \in {"ADD_BOOK_TO_SHELF", "MOVE_BOOK_BETWEEN_SHELVES"}
      BY <1>8 DEF AddBookLook, Looked, tables, Takes
    <3>2. place[r.shelf][r.book] \in Nat
      BY <1>0, <1>2, <3>1, RequestFields DEF TypeOK
    <3>3. place[r.shelf][r.book] = 0
      BY <2>1, <3>2
    <3>4. QED
      BY <1>4, <2>1, <3>1, <3>3 DEF Staged, Found
  <2>2. QED
    BY <1>3, <1>8, <2>1 DEF AddBookLook
<1>9. CASE MoveBookLook(c)
  <2>1. PICK st \in {"drop", "take"} :
          GoOn(c, st) /\ (st = "drop" => place[r.shelf][r.book] > 0)
    BY <1>9 DEF MoveBookLook
  <2>2. UNCHANGED <<name, place>> /\ r.type = "MOVE_BOOK_BETWEEN_SHELVES"
    BY <1>9 DEF MoveBookLook, Looked, tables, Takes
  <2>3. QED
    BY <1>4, <2>1, <2>2 DEF Staged, Found
<1>10. CASE TakeBook(c)
  <2>1. GoOn(c, "relook") /\ r.type = "MOVE_BOOK_BETWEEN_SHELVES"
    BY <1>10 DEF TakeBook, Takes
  <2>2. QED
    BY <1>4, <2>1 DEF Staged, Found
<1>11. CASE \E m : Answer(c, m)
  BY <1>3, <1>11
<1>12. QED
  BY <1>5, <1>6, <1>7, <1>8, <1>9, <1>10, <1>11
     DEF Work, GetShelves, GetShelfBooks, CreateShelf, RenameShelf, DeleteShelf, AddBook,
         DropBook, StatementFails

LEMMA InitWork == Init => WorkInv
<1> SUFFICES ASSUME Init PROVE WorkInv
  OBVIOUS
<1>1. TypeOK
  BY InitTypes
<1>2. line = [c \in Client |-> <<>>] /\ stage = [c \in Client |-> "look"]
  BY DEF Init
<1>3. line \in [Client -> Seq(Apart)]
  BY <1>2
<1>4. \A c \in Client : Staged(c) /\ Found(c)
  BY <1>2 DEF Staged, Found
<1>5. QED
  BY <1>1, <1>3, <1>4 DEF WorkInv

(* A page asks for something, or not. *)
LEMMA AskStage ==
  ASSUME WorkInv, TypeOK', NEW c \in Client, UNCHANGED <<stage, late, name, place>>,
         line' = line \/ \E r \in Apart : Ask(c, r)
  PROVE WorkInv'
<1>1. line \in [Client -> Seq(Apart)]
  BY DEF WorkInv
<1>2. ASSUME NEW d \in Client
      PROVE /\ line'[d] \in Seq(Apart)
            /\ \/ line'[d] = line[d]
               \/ line[d] # <<>> /\ line'[d] # <<>> /\ Head(line'[d]) = Head(line[d])
               \/ line[d] = <<>>
  <2>1. CASE line'[d] = line[d]
    BY <1>1, <2>1
  <2>2. CASE \E r \in Apart : line'[d] = Append(line[d], r)
    BY <1>1, <2>2, AppendSeq
  <2>3. QED
    BY <1>1, <2>1, <2>2 DEF Ask
<1>3. line' \in [Client -> Seq(Apart)]
  <2>1. line' = [d \in Client |-> line'[d]]
    BY DEF TypeOK
  <2>2. QED
    BY <1>2, <2>1
<1>4. ASSUME NEW d \in Client PROVE Staged(d)' /\ Found(d)'
  BY <1>2, SameStage DEF WorkInv
<1>5. QED
  BY <1>3, <1>4 DEF WorkInv

(* What a page asks for. *)
LEMMA PageAsks ==
  ASSUME TypeOK, NEW c \in Client,
         Receive(c) \/ OpenTab(c) \/ AskChange(c) \/ \E s \in Shelf : ClickShelf(c, s)
  PROVE /\ UNCHANGED <<tables, stage, crashes, marks>>
        /\ line' = line \/ \E r \in Apart : Ask(c, r)
<1>1. active[c] \in Shelf \cup {NoShelf}
  BY DEF TypeOK
<1>2. CASE Receive(c)
  <2>1. Received(c)
    BY <1>2 DEF Receive, ReceiveSuccess, ReceiveError, HandleGetShelves, HandleGetShelfBooks
  <2>2. line' = line \/ AskShelves(c) \/ AskBooks(c, active[c])
    BY <1>2 DEF Receive, ReceiveSuccess, ReceiveError, HandleGetShelves, HandleGetShelfBooks
  <2>3. QED
    BY <1>1, <2>1, <2>2, Requests DEF Received, AskShelves, AskBooks, Apart
<1>3. CASE OpenTab(c)
  BY <1>3, Requests DEF OpenTab, Act, AskShelves, Apart
<1>4. CASE \E s \in Shelf : ClickShelf(c, s)
  BY <1>4, Requests DEF ClickShelf, Act, AskBooks, Apart
<1>5. CASE AskChange(c)
  <2>1. UNCHANGED <<tables, stage, crashes, marks>>
    BY <1>5 DEF AskChange, Act
  <2>2. CASE \E n \in Name : AskCreate(c, n)
    BY <2>1, <2>2, Requests DEF AskCreate, Apart
  <2>3. CASE \E s \in Shelf, n \in Name : AskRename(c, s, n)
    BY <2>1, <2>3, Requests DEF AskRename, Apart
  <2>4. CASE \E s \in Shelf : AskDelete(c, s)
    BY <2>1, <2>4, Requests DEF AskDelete, Apart
  <2>5. CASE \E s \in Shelf, b \in Book : AskAdd(c, b, s)
    BY <2>1, <2>5, Requests DEF AskAdd, Apart
  <2>6. CASE \E s \in Shelf, b \in Book : AskMove(c, b, s)
    <3>1. PICK s \in Shelf, b \in Book : AskMove(c, b, s)
      BY <2>6
    <3>2. s # active[c]
      BY <3>1 DEF AskMove
    <3>3. QED
      BY <1>1, <2>1, <3>1, <3>2, Requests DEF AskMove, Apart
  <2>7. QED
    BY <1>5, <2>2, <2>3, <2>4, <2>5, <2>6 DEF AskChange
<1>6. QED
  BY <1>2, <1>3, <1>4, <1>5

LEMMA WorkStep == WorkInv /\ [Next]_vars => WorkInv'
<1> SUFFICES ASSUME WorkInv, [Next]_vars PROVE WorkInv'
  OBVIOUS
<1>1. TypeOK /\ TypeOK'
  BY TypeStep DEF WorkInv
<1>2. ASSUME NEW c \in Client, Work(c) PROVE WorkInv'
  <2>1. ASSUME NEW d \in Client PROVE Staged(d)' /\ Found(d)'
    <3>1. CASE d = c
      BY <1>2, <3>1, OwnStage
    <3>2. CASE d # c
      BY <1>1, <1>2, <3>2, OthersStay, SameStage DEF WorkInv
    <3>3. QED
      BY <3>1, <3>2
  <2>2. line[c] # <<>>
    BY <1>2 DEF Work, GetShelves, GetShelfBooks, CreateShelfLook, CreateShelf,
           RenameShelfLook, RenameShelf, EmptyShelf, DeleteShelf, AddBookLook, AddBook,
           MoveBookLook, TakeBook, DropBook, StatementFails, Takes
  <2>3. PICK m, st : Answer(c, m) \/ GoOn(c, st)
    BY <1>2 DEF Work, GetShelves, GetShelfBooks, CreateShelfLook, CreateShelf,
           RenameShelfLook, RenameShelf, EmptyShelf, DeleteShelf, AddBookLook, AddBook,
           MoveBookLook, TakeBook, DropBook, StatementFails
  <2>4. line[c] \in Seq(Apart)
    BY DEF WorkInv
  <2>5. Tail(line[c]) \in Seq(Apart)
    BY <2>2, <2>4, TailSeq
  <2>6. line' \in [Client -> Seq(Apart)]
    BY <2>3, <2>5 DEF Answer, GoOn, WorkInv
  <2>7. QED
    BY <1>1, <2>1, <2>6 DEF WorkInv
<1>3. ASSUME NEW c \in Client,
             Receive(c) \/ OpenTab(c) \/ AskChange(c) \/ \E s \in Shelf : ClickShelf(c, s)
      PROVE WorkInv'
  BY <1>1, <1>3, PageAsks, AskStage DEF tables, marks
<1>4. CASE Crash
  <2>1. line' = [c \in Client |-> <<>>] /\ stage' = [c \in Client |-> "look"]
    BY <1>4 DEF Crash
  <2>2. line' \in [Client -> Seq(Apart)]
    BY <2>1
  <2>3. \A d \in Client : Staged(d)' /\ Found(d)'
    BY <2>1, FreshStage
  <2>4. QED
    BY <1>1, <2>2, <2>3 DEF WorkInv
<1>5. CASE UNCHANGED vars
  BY <1>1, <1>5 DEF vars, WorkInv, Staged, Found
<1>6. QED
  BY <1>2, <1>3, <1>4, <1>5 DEF Next

LEMMA WorkHolds == Spec => []WorkInv
BY InitWork, WorkStep, PTL DEF Spec

-----------------------------------------------------------------------------
(* Names and places. *)

LEMMA InitOnce == Init => PlacedOnce
<1> SUFFICES ASSUME Init PROVE PlacedOnce
  OBVIOUS
<1>1. \A s \in Shelf, b \in Book : place[s][b] \in {0, 1}
  BY DEF Init
<1>2. QED
  BY <1>1 DEF PlacedOnce

(* A write of a name or a place that was not there, or is marked. *)
LEMMA OnceStep ==
  ASSUME WorkInv, [Next]_vars
  PROVE /\ NamesOnce => NamesOnce'
        /\ PlacedOnce => PlacedOnce'
<1> USE DEF WorkInv
<1>1. ASSUME UNCHANGED <<name, place, raced>>
      PROVE (NamesOnce => NamesOnce') /\ (PlacedOnce => PlacedOnce')
  BY <1>1 DEF NamesOnce, PlacedOnce, InTable
<1>2. ASSUME NEW c \in Client, Work(c)
      PROVE (NamesOnce => NamesOnce') /\ (PlacedOnce => PlacedOnce')
  <2> DEFINE r == Head(line[c])
  <2>0. line[c] # <<>> => r \in Request
    BY HeadOK
  <2>1. CASE CreateShelf(c)
    <3>1. /\ line[c] # <<>> /\ stage[c] = "write" /\ r.type = "CREATE_SHELF"
          /\ name' = [name EXCEPT ![lastId + 1] = r.name]
          /\ raced' = IF late[c] THEN raced \cup {r.name} ELSE raced
          /\ UNCHANGED place
      BY <2>1 DEF CreateShelf, Takes, RaceIf
    <3>2. late[c] \in BOOLEAN /\ Found(c)
      BY DEF TypeOK
    <3>3. ~late[c] => \A s \in Shelf : name[s] # r.name
      BY <3>1, <3>2 DEF Found
    <3>4. ASSUME NamesOnce PROVE NamesOnce'
      BY <3>1, <3>3, <3>4 DEF NamesOnce, InTable, TypeOK
    <3>5. ASSUME PlacedOnce PROVE PlacedOnce'
      BY <3>1, <3>5 DEF PlacedOnce
    <3>6. QED
      BY <3>4, <3>5
  <2>2. CASE RenameShelf(c)
    <3>1. /\ line[c] # <<>> /\ stage[c] = "write" /\ r.type = "RENAME_SHELF"
          /\ name' = IF InTable(r.shelf) THEN [name EXCEPT ![r.shelf] = r.name] ELSE name
          /\ raced' = IF late[c] THEN raced \cup {r.name} ELSE raced
          /\ UNCHANGED place
      BY <2>2 DEF RenameShelf, Takes, RaceIf
    <3>2. Found(c)
      OBVIOUS
    <3>3. ~late[c] => \A s \in Shelf \ {r.shelf} : name[s] # r.name
      BY <3>1, <3>2 DEF Found
    <3>4. ASSUME NamesOnce PROVE NamesOnce'
      BY <3>1, <3>3, <3>4 DEF NamesOnce, InTable, TypeOK
    <3>5. ASSUME PlacedOnce PROVE PlacedOnce'
      BY <3>1, <3>5 DEF PlacedOnce
    <3>6. QED
      BY <3>4, <3>5
  <2>3. CASE DeleteShelf(c)
    <3>1. /\ UNCHANGED <<place, raced>>
          /\ \/ name' = [name EXCEPT ![r.shelf] = NoName]
             \/ UNCHANGED name
      BY <2>3 DEF DeleteShelf
    <3>2. ASSUME NamesOnce PROVE NamesOnce'
      BY <3>1, <3>2 DEF NamesOnce, InTable, TypeOK
    <3>3. ASSUME PlacedOnce PROVE PlacedOnce'
      BY <3>1, <3>3 DEF PlacedOnce
    <3>4. QED
      BY <3>2, <3>3
  <2>4. CASE AddBook(c)
    <3>1. CASE InTable(r.shelf)
      <4>1. /\ line[c] # <<>> /\ stage[c] = "insert"
            /\ r.type \in {"ADD_BOOK_TO_SHELF", "MOVE_BOOK_BETWEEN_SHELVES"}
            /\ place' = [place EXCEPT ![r.shelf][r.book] = @ + 1]
            /\ raced' = IF late[c] THEN raced \cup {<<r.shelf, r.book>>} ELSE raced
            /\ UNCHANGED name
        BY <2>4, <3>1 DEF AddBook, Takes, RaceIf
      <4>2. Found(c) /\ r.shelf \in Shelf /\ r.book \in Book
        BY <2>0, <4>1, RequestFields
      <4>3. ~late[c] => place[r.shelf][r.book] = 0
        BY <4>1, <4>2 DEF Found
      <4>4. ASSUME NEW s \in Shelf, NEW b \in Book
            PROVE place'[s][b] = IF s = r.shelf /\ b = r.book THEN place[s][b] + 1 ELSE place[s][b]
        BY <4>1 DEF TypeOK
      <4>5. ASSUME PlacedOnce PROVE PlacedOnce'
        <5>1. ASSUME NEW s \in Shelf, NEW b \in Book, place'[s][b] > 1
              PROVE <<s, b>> \in raced'
          <6>1. CASE s = r.shelf /\ b = r.book
            <7>1. late[c]
              BY <4>3, <4>4, <5>1, <6>1 DEF TypeOK
            <7>2. QED
              BY <4>1, <6>1, <7>1
          <6>2. CASE ~(s = r.shelf /\ b = r.book)
            BY <4>1, <4>4, <4>5, <5>1, <6>2 DEF PlacedOnce
          <6>3. QED
            BY <6>1, <6>2
        <5>2. QED
          BY <5>1 DEF PlacedOnce
      <4>6. ASSUME NamesOnce PROVE NamesOnce'
        BY <4>1, <4>6 DEF NamesOnce, InTable
      <4>7. QED
        BY <4>5, <4>6
    <3>2. CASE ~InTable(r.shelf)
      BY <1>1, <2>4, <3>2 DEF AddBook
    <3>3. QED
      BY <3>1, <3>2
  <2>5. CASE EmptyShelf(c) \/ TakeBook(c) \/ DropBook(c)
    <3>1. /\ UNCHANGED <<name, raced>>
          /\ \/ place' = [place EXCEPT ![r.shelf] = NoBooks]
             \/ place' = [place EXCEPT ![r.from][r.book] = 0]
      BY <2>5 DEF EmptyShelf, TakeBook, DropBook
    <3>2. ASSUME NEW s \in Shelf, NEW b \in Book
          PROVE place'[s][b] = place[s][b] \/ place'[s][b] = 0
      <4>1. place'[s] = place[s] \/ place'[s] = NoBooks
              \/ place'[s] = [place[s] EXCEPT ![r.book] = 0]
        BY <3>1 DEF TypeOK
      <4>2. NoBooks[b] = 0
        BY DEF NoBooks
      <4>3. place[s] \in [Book -> Nat]
        BY DEF TypeOK
      <4>4. QED
        BY <4>1, <4>2, <4>3
    <3>3. ASSUME PlacedOnce PROVE PlacedOnce'
      BY <3>1, <3>2, <3>3 DEF PlacedOnce
    <3>4. ASSUME NamesOnce PROVE NamesOnce'
      BY <3>1, <3>4 DEF NamesOnce, InTable
    <3>5. QED
      BY <3>3, <3>4
  <2>6. CASE \/ GetShelves(c) \/ GetShelfBooks(c) \/ CreateShelfLook(c) \/ RenameShelfLook(c)
             \/ AddBookLook(c) \/ MoveBookLook(c) \/ StatementFails(c)
    BY <1>1, <2>6 DEF GetShelves, GetShelfBooks, CreateShelfLook, RenameShelfLook,
       AddBookLook, MoveBookLook, StatementFails, Looked, tables, marks
  <2>7. QED
    BY <1>2, <2>1, <2>2, <2>3, <2>4, <2>5, <2>6 DEF Work
<1>3. CASE UNCHANGED vars
  BY <1>1, <1>3 DEF vars
<1>4. CASE Crash
  BY <1>1, <1>4 DEF Crash, tables
<1>5. ASSUME NEW c \in Client,
             Receive(c) \/ OpenTab(c) \/ AskChange(c) \/ \E s \in Shelf : ClickShelf(c, s)
      PROVE UNCHANGED <<name, place, raced>>
  BY <1>5, PageAsks DEF tables, marks
<1>6. QED
  BY <1>1, <1>2, <1>3, <1>4, <1>5 DEF Next

(* A book stands once on a shelf, although no key says so: only a worker that *)
(* looked before another one wrote puts it there twice.                       *)
THEOREM BooksOnce == Spec => []PlacedOnce
<1>1. WorkInv /\ PlacedOnce /\ [Next]_vars => PlacedOnce'
  BY OnceStep
<1>2. QED
  BY <1>1, InitOnce, WorkHolds, PTL DEF Spec

(* Two shelves have one name only if a worker that looked before another one  *)
(* wrote has given it.                                                        *)
THEOREM NamesAreTaken == Spec => []NamesOnce
<1>1. Init => NamesOnce
  BY NameAssumption, FirstAssumption DEF Init, NamesOnce, InTable
<1>2. WorkInv /\ NamesOnce /\ [Next]_vars => NamesOnce'
  BY OnceStep
<1>3. QED
  BY <1>1, <1>2, WorkHolds, PTL DEF Spec

-----------------------------------------------------------------------------
(* Books put on a shelf. *)

(* The client c holds the book b between the two statements of a move. *)
Holds(c, b) ==
  /\ line[c] # <<>> /\ stage[c] \in {"relook", "insert"}
  /\ Head(line[c]).type = "MOVE_BOOK_BETWEEN_SHELVES" /\ Head(line[c]).book = b

LEMMA HandHolds == \A b : b \in InHand <=> \E c \in Client : Holds(c, b)
BY DEF InHand, Holds, Takes

(* A request in work that stays, at the same statement, holds what it held. *)
LEMMA HandStays ==
  ASSUME NEW d \in Client, NEW b, Holds(d, b), stage'[d] = stage[d],
         \/ line'[d] = line[d]
         \/ line[d] # <<>> /\ line'[d] # <<>> /\ Head(line'[d]) = Head(line[d])
  PROVE Holds(d, b)'
BY DEF Holds

(* A worker lays down no book but its own. *)
LEMMA HandOfOthers ==
  ASSUME TypeOK, NEW c \in Client, Work(c), NEW b \in InHand, b \notin InHand'
  PROVE Holds(c, b) /\ ~Holds(c, b)'
<1>1. PICK d \in Client : Holds(d, b)
  BY HandHolds
<1>2. \A e \in Client : ~Holds(e, b)'
  BY HandHolds DEF Holds, InHand, Takes
<1>3. d = c
  BY <1>1, <1>2, OthersStay, HandStays
<1>4. QED
  BY <1>1, <1>2, <1>3

(* A book with a row is on a shelf. *)
LEMMA OnShelf ==
  ASSUME NEW b \in Book
  PROVE b \in Somewhere(place) <=> \E s \in Shelf : place[s][b] > 0
BY DEF Somewhere

LEMMA OnShelfNext ==
  ASSUME NEW b \in Book
  PROVE b \in Somewhere(place') <=> \E s \in Shelf : place'[s][b] > 0
BY DEF Somewhere

LEMMA KeptByWork ==
  ASSUME WorkInv, BooksKept, NEW c \in Client, Work(c)
  PROVE BooksKept'
<1> DEFINE r == Head(line[c])
<1>0. TypeOK /\ TypeOK'
  BY WorkTypes DEF WorkInv
<1>1. placed \subseteq Book /\ placed' \subseteq Book
  BY <1>0 DEF TypeOK
<1>2. line[c] # <<>> => r \in Request
  BY <1>0, HeadOK
<1>3. ASSUME UNCHANGED <<place, placed>>, lost \subseteq lost',
             \A b \in Book : Holds(c, b) => Holds(c, b)' \/ b \in Somewhere(place) \cup lost'
      PROVE BooksKept'
  BY <1>0, <1>1, <1>3, HandOfOthers DEF BooksKept
<1>4. ASSUME \A b : ~Holds(c, b) PROVE InHand \subseteq InHand'
  BY <1>0, <1>4, HandOfOthers
<1>5. CASE \/ GetShelves(c) \/ GetShelfBooks(c) \/ CreateShelfLook(c) \/ CreateShelf(c)
           \/ RenameShelfLook(c) \/ RenameShelf(c) \/ DeleteShelf(c) \/ MoveBookLook(c)
  <2>1. \A b : ~Holds(c, b)
    BY <1>5 DEF Holds, GetShelves, GetShelfBooks, CreateShelfLook, CreateShelf,
       RenameShelfLook, RenameShelf, DeleteShelf, MoveBookLook, Takes
  <2>2. UNCHANGED <<place, placed, lost>>
    BY <1>5 DEF GetShelves, GetShelfBooks, CreateShelfLook, CreateShelf, RenameShelfLook,
       RenameShelf, DeleteShelf, MoveBookLook, Looked, Wrote, tables, marks
  <2>3. QED
    BY <1>3, <2>1, <2>2
<1>6. CASE StatementFails(c)
  <2>1. UNCHANGED <<place, placed>>
    BY <1>6 DEF StatementFails, tables
  <2>2. lost \subseteq lost' /\ \A b : Holds(c, b) => b \in lost'
    BY <1>6 DEF StatementFails, Holds
  <2>3. QED
    BY <1>3, <2>1, <2>2
<1>7. CASE EmptyShelf(c)
  <2>1. r.type = "DELETE_SHELF" /\ UNCHANGED lost
    BY <1>7 DEF EmptyShelf, Takes
  <2>2. InHand \subseteq InHand'
    BY <1>4, <2>1 DEF Holds
  <2>3. placed' = placed \ ((Somewhere(place) \ Somewhere(place')) \ InHand)
    BY <1>7 DEF EmptyShelf
  <2>4. QED
    BY <2>1, <2>2, <2>3 DEF BooksKept
<1>8. CASE AddBookLook(c)
  <2>1. UNCHANGED <<place, placed, lost>>
    BY <1>8 DEF AddBookLook, Looked, tables
  <2>2. /\ line[c] # <<>>
        /\ \/ place[r.shelf][r.book] > 0
           \/ GoOn(c, "insert")
    BY <1>8 DEF AddBookLook, Takes
  <2>3. r.type \in {"ADD_BOOK_TO_SHELF", "MOVE_BOOK_BETWEEN_SHELVES"}
    BY <1>8 DEF AddBookLook, Takes
  <2>4. r.shelf \in Shelf /\ r.book \in Book
    BY <1>2, <2>2, <2>3, RequestFields
  <2>5. ASSUME NEW b \in Book, Holds(c, b) PROVE Holds(c, b)' \/ b \in Somewhere(place)
    <3>1. CASE place[r.shelf][r.book] > 0
      BY <2>4, <2>5, <3>1, OnShelf DEF Holds
    <3>2. CASE GoOn(c, "insert")
      BY <1>0, <2>5, <3>2 DEF GoOn, Holds, TypeOK
    <3>3. QED
      BY <2>2, <3>1, <3>2
  <2>6. QED
    BY <1>3, <2>1, <2>5
<1>9. CASE AddBook(c)
  <2>1. /\ line[c] # <<>> /\ stage[c] = "insert"
        /\ r.type \in {"ADD_BOOK_TO_SHELF", "MOVE_BOOK_BETWEEN_SHELVES"}
    BY <1>9 DEF AddBook, Takes
  <2>2. r.shelf \in Shelf /\ r.book \in Book
    BY <1>2, <2>1, RequestFields
  <2>3. CASE InTable(r.shelf)
    <3>1. /\ place' = [place EXCEPT ![r.shelf][r.book] = @ + 1]
          /\ placed' = placed \cup {r.book}
          /\ UNCHANGED lost
      BY <1>9, <2>3 DEF AddBook
    <3>2. place \in [Shelf -> [Book -> Nat]]
      BY <1>0 DEF TypeOK
    <3>3. \A s \in Shelf, b \in Book : place'[s][b] >= place[s][b]
      BY <3>1, <3>2
    <3>4. place'[r.shelf][r.book] > 0
      BY <2>2, <3>1, <3>2
    <3>5. r.book \in Somewhere(place')
      BY <2>2, <3>4, OnShelfNext
    <3>6. ASSUME NEW b \in Somewhere(place) PROVE b \in Somewhere(place')
      <4>1. b \in Book
        BY DEF Somewhere
      <4>2. PICK s \in Shelf : place[s][b] > 0
        BY <4>1, OnShelf
      <4>3. place'[s][b] >= place[s][b] /\ place[s][b] \in Nat /\ place'[s][b] \in Nat
        BY <1>0, <3>3, <4>1 DEF TypeOK
      <4>4. place'[s][b] > 0
        BY <4>2, <4>3
      <4>5. QED
        BY <4>1, <4>4, OnShelfNext
    <3>7. ASSUME NEW b \in InHand, b \notin InHand' PROVE b \in Somewhere(place')
      <4>1. Holds(c, b)
        BY <1>0, <3>7, HandOfOthers
      <4>2. QED
        BY <3>5, <4>1 DEF Holds
    <3>8. QED
      BY <3>1, <3>5, <3>6, <3>7 DEF BooksKept
  <2>4. CASE ~InTable(r.shelf)
    <3>1. UNCHANGED <<place, placed>>
      BY <1>9, <2>4 DEF AddBook
    <3>2. lost' = IF r.type = "MOVE_BOOK_BETWEEN_SHELVES" THEN lost \cup {r.book} ELSE lost
      BY <1>9, <2>4 DEF AddBook
    <3>3. lost \subseteq lost' /\ \A b : Holds(c, b) => b \in lost'
      BY <3>2 DEF Holds
    <3>4. QED
      BY <1>3, <3>1, <3>3
  <2>5. QED
    BY <2>3, <2>4
<1>10. CASE TakeBook(c)
  <2>1. /\ line[c] # <<>> /\ r.type = "MOVE_BOOK_BETWEEN_SHELVES" /\ stage[c] = "take"
        /\ place' = [place EXCEPT ![r.from][r.book] = 0]
        /\ GoOn(c, "relook")
        /\ UNCHANGED <<placed, lost>>
    BY <1>10 DEF TakeBook, Takes
  <2>2. r.book \in InHand'
    <3>1. line'[c] # <<>> /\ stage'[c] = "relook" /\ Head(line'[c]) = r
      BY <1>0, <2>1 DEF GoOn, TypeOK
    <3>2. Takes(c, "MOVE_BOOK_BETWEEN_SHELVES", "relook")'
      BY <2>1, <3>1 DEF Takes
    <3>3. Head(line'[c]).book = r.book
      BY <3>1
    <3>4. QED
      BY <3>2, <3>3 DEF InHand
  <2>3. InHand \subseteq InHand'
    BY <1>4, <2>1 DEF Holds
  <2>4. ASSUME NEW b \in Somewhere(place), b # r.book PROVE b \in Somewhere(place')
    <3>1. b \in Book
      BY DEF Somewhere
    <3>2. PICK s \in Shelf : place[s][b] > 0
      BY <3>1, OnShelf
    <3>3. place'[s][b] = place[s][b]
      BY <1>0, <2>1, <2>4, <3>1 DEF TypeOK
    <3>4. QED
      BY <3>1, <3>2, <3>3, OnShelfNext
  <2>5. QED
    BY <2>1, <2>2, <2>3, <2>4 DEF BooksKept
<1>11. CASE DropBook(c)
  <2>1. /\ line[c] # <<>> /\ r.type = "MOVE_BOOK_BETWEEN_SHELVES" /\ stage[c] = "drop"
        /\ place' = [place EXCEPT ![r.from][r.book] = 0]
        /\ lost' = IF late[c] THEN lost \cup {r.book} ELSE lost
        /\ UNCHANGED placed
    BY <1>11 DEF DropBook, Takes
  <2>2. r.shelf \in Shelf /\ r.book \in Book /\ r.from # r.shelf
    <3>1. r \in Apart
      BY <2>1, TailSeq DEF WorkInv
    <3>2. QED
      BY <1>2, <2>1, <3>1, RequestFields DEF Apart
  <2>3. r.book \in Somewhere(place') \cup lost'
    <3>1. CASE late[c]
      BY <2>1, <3>1
    <3>2. CASE ~late[c]
      <4>1. place[r.shelf][r.book] > 0
        BY <2>1, <3>2 DEF WorkInv, Found
      <4>2. place'[r.shelf] = place[r.shelf]
        BY <1>0, <2>1, <2>2 DEF TypeOK
      <4>3. QED
        BY <2>2, <4>1, <4>2, OnShelfNext
    <3>3. QED
      BY <3>1, <3>2
  <2>4. InHand \subseteq InHand'
    BY <1>4, <2>1 DEF Holds
  <2>5. ASSUME NEW b \in Somewhere(place), b # r.book PROVE b \in Somewhere(place')
    <3>1. b \in Book
      BY DEF Somewhere
    <3>2. PICK s \in Shelf : place[s][b] > 0
      BY <3>1, OnShelf
    <3>3. place'[s][b] = place[s][b]
      BY <1>0, <2>1, <2>5, <3>1 DEF TypeOK
    <3>4. QED
      BY <3>1, <3>2, <3>3, OnShelfNext
  <2>6. lost \subseteq lost'
    BY <2>1
  <2>7. QED
    BY <2>1, <2>3, <2>4, <2>5, <2>6 DEF BooksKept
<1>12. QED
  BY <1>5, <1>6, <1>7, <1>8, <1>9, <1>10, <1>11 DEF Work

LEMMA KeptStep == WorkInv /\ BooksKept /\ [Next]_vars => BooksKept'
<1> SUFFICES ASSUME WorkInv, BooksKept, [Next]_vars PROVE BooksKept'
  OBVIOUS
<1>1. TypeOK
  BY DEF WorkInv
<1>2. ASSUME NEW c \in Client,
             Receive(c) \/ OpenTab(c) \/ AskChange(c) \/ \E s \in Shelf : ClickShelf(c, s)
      PROVE BooksKept'
  <2>1. /\ UNCHANGED <<place, placed, lost, stage>>
        /\ line' = line \/ \E r \in Apart : Ask(c, r)
    BY <1>1, <1>2, PageAsks DEF tables, marks
  <2>2. ASSUME NEW b \in InHand PROVE b \in InHand'
    <3>1. PICK d \in Client : Holds(d, b)
      BY HandHolds
    <3>2. \/ line'[d] = line[d]
          \/ line[d] # <<>> /\ line'[d] # <<>> /\ Head(line'[d]) = Head(line[d])
      <4>1. line[d] \in Seq(Request) /\ line[d] # <<>>
        BY <1>1, <3>1 DEF TypeOK, Holds
      <4>2. CASE line' = line
        BY <4>2
      <4>3. CASE \E r \in Apart : Ask(c, r)
        <5>1. PICK r \in Request : Ask(c, r)
          BY <4>3 DEF Apart
        <5>2. line'[d] = line[d] \/ line'[d] = Append(line[d], r)
          BY <1>1, <5>1 DEF Ask, TypeOK
        <5>3. QED
          BY <4>1, <5>2, AppendSeq
      <4>4. QED
        BY <2>1, <4>2, <4>3
    <3>3. Holds(d, b)'
      BY <2>1, <3>1, <3>2, HandStays
    <3>4. QED
      BY <3>3 DEF Holds, InHand, Takes
  <2>3. QED
    BY <2>1, <2>2 DEF BooksKept, Somewhere
<1>3. CASE Crash
  BY <1>3 DEF Crash, BooksKept, tables, Somewhere
<1>4. CASE UNCHANGED vars
  BY <1>4 DEF vars, BooksKept, Somewhere, InHand, Takes
<1>5. QED
  BY <1>2, <1>3, <1>4, KeptByWork DEF Next

(* A book put on a shelf stays on one, or in the hand of a move, until a      *)
(* shelf is deleted with it; what loses it is marked: a crash or a failed     *)
(* statement within the move, or a write of another worker since the query.   *)
THEOREM BooksStay == Spec => []BooksKept
<1>1. Init => BooksKept
  BY DEF Init, BooksKept
<1>2. QED
  BY <1>1, KeptStep, WorkHolds, PTL DEF Spec

-----------------------------------------------------------------------------
(***************************************************************************)
(* The pages.  What a page shows is right, or what will make it right is   *)
(* on its way: a request of the page, or an answer of its worker.          *)
(***************************************************************************)

Has(q, type) == \E i \in 1..Len(q) : q[i].type = type

(* m is in q, and nothing later of its type is. *)
Latest(q, m) ==
  \E i \in 1..Len(q) : q[i] = m /\ \A j \in (i + 1)..Len(q) : q[j].type # m.type

LEMMA HasAppend ==
  ASSUME NEW S, NEW q \in Seq(S), NEW m \in S, NEW type
  PROVE Has(Append(q, m), type) <=> Has(q, type) \/ m.type = type
<1> DEFINE p == Append(q, m)
<1>1. /\ Len(q) \in Nat /\ Len(p) = Len(q) + 1 /\ p[Len(q) + 1] = m
      /\ \A i \in 1..Len(q) : p[i] = q[i]
  BY AppendSeq
<1> HIDE DEF p
<1>2. Has(p, type) <=> Has(q, type) \/ m.type = type
  BY <1>1 DEF Has
<1>3. QED
  BY <1>2 DEF p

LEMMA HasTail ==
  ASSUME NEW S, NEW q \in Seq(S), q # <<>>, NEW type
  PROVE Has(q, type) <=> Head(q).type = type \/ Has(Tail(q), type)
<1> DEFINE p == Tail(q)
<1> DEFINE h == Head(q)
<1>1. /\ Len(q) \in Nat \ {0} /\ Len(p) = Len(q) - 1 /\ h = q[1]
      /\ \A i \in 1..(Len(q) - 1) : p[i] = q[i + 1]
  BY TailSeq
<1> HIDE DEF p, h
<1>2. ASSUME Has(q, type) PROVE h.type = type \/ Has(p, type)
  <2>1. PICK i \in 1..Len(q) : q[i].type = type
    BY <1>2 DEF Has
  <2>2. CASE i = 1
    BY <1>1, <2>1, <2>2
  <2>3. CASE i # 1
    <3>1. i - 1 \in 1..Len(p) /\ p[i - 1] = q[i]
      BY <1>1, <2>3
    <3>2. QED
      BY <2>1, <3>1 DEF Has
  <2>4. QED
    BY <2>2, <2>3
<1>3. ASSUME h.type = type PROVE Has(q, type)
  BY <1>1, <1>3 DEF Has
<1>4. ASSUME Has(p, type) PROVE Has(q, type)
  <2>1. PICK i \in 1..Len(p) : p[i].type = type
    BY <1>4 DEF Has
  <2>2. i + 1 \in 1..Len(q) /\ q[i + 1] = p[i]
    BY <1>1, <2>1
  <2>3. QED
    BY <2>1, <2>2 DEF Has
<1>5. QED
  BY <1>2, <1>3, <1>4 DEF p, h

LEMMA LatestAppend ==
  ASSUME NEW S, NEW q \in Seq(S), NEW m \in S, NEW x
  PROVE /\ Latest(Append(q, m), m)
        /\ Latest(q, x) /\ m.type # x.type => Latest(Append(q, m), x)
<1> DEFINE p == Append(q, m)
<1>1. /\ Len(q) \in Nat /\ Len(p) = Len(q) + 1 /\ p[Len(q) + 1] = m
      /\ \A i \in 1..Len(q) : p[i] = q[i]
  BY AppendSeq
<1> HIDE DEF p
<1>2. Latest(p, m)
  BY <1>1 DEF Latest
<1>3. ASSUME Latest(q, x), m.type # x.type PROVE Latest(p, x)
  <2>1. PICK i \in 1..Len(q) : q[i] = x /\ \A j \in (i + 1)..Len(q) : q[j].type # x.type
    BY <1>3 DEF Latest
  <2>2. i \in 1..Len(p) /\ p[i] = x
    BY <1>1, <2>1
  <2>3. ASSUME NEW j \in (i + 1)..Len(p) PROVE p[j].type # x.type
    <3>1. CASE j = Len(q) + 1
      BY <1>1, <1>3, <3>1
    <3>2. CASE j \in (i + 1)..Len(q)
      BY <1>1, <2>1, <3>2
    <3>3. QED
      BY <1>1, <3>1, <3>2
  <2>4. QED
    BY <2>2, <2>3 DEF Latest
<1>4. QED
  BY <1>2, <1>3 DEF p

LEMMA LatestTail ==
  ASSUME NEW S, NEW q \in Seq(S), q # <<>>, NEW x, Latest(q, x)
  PROVE Latest(Tail(q), x) \/ (Head(q) = x /\ ~Has(Tail(q), x.type))
<1> DEFINE p == Tail(q)
<1> DEFINE h == Head(q)
<1>1. /\ Len(q) \in Nat \ {0} /\ Len(p) = Len(q) - 1 /\ h = q[1]
      /\ \A i \in 1..(Len(q) - 1) : p[i] = q[i + 1]
  BY TailSeq
<1> HIDE DEF p, h
<1>2. PICK i \in 1..Len(q) : q[i] = x /\ \A j \in (i + 1)..Len(q) : q[j].type # x.type
  BY DEF Latest
<1>3. ASSUME NEW j \in i..Len(p), j >= 1 PROVE p[j].type # x.type
  <2>1. j + 1 \in (i + 1)..Len(q) /\ p[j] = q[j + 1]
    BY <1>1, <1>3
  <2>2. QED
    BY <1>2, <2>1
<1>4. CASE i = 1
  <2>1. ~Has(p, x.type)
    BY <1>3, <1>4 DEF Has
  <2>2. QED
    BY <1>1, <1>2, <1>4, <2>1 DEF p, h
<1>5. CASE i # 1
  <2>1. i - 1 \in 1..Len(p) /\ p[i - 1] = x
    BY <1>1, <1>2, <1>5
  <2>2. \A j \in ((i - 1) + 1)..Len(p) : p[j].type # x.type
    BY <1>1, <1>3
  <2>3. Latest(p, x)
    BY <2>1, <2>2 DEF Latest
  <2>4. QED
    BY <2>3 DEF p
<1>6. QED
  BY <1>4, <1>5

LEMMA NothingIn == /\ \A type : ~Has(<<>>, type)
                   /\ \A m : ~Latest(<<>>, m)
BY DEF Has, Latest

(* Answers and requests of a page by what they carry. *)
ShelvesAnswer(now) == [type |-> "GET_SHELVES_RESPONSE", shelves |-> now]
BooksAnswer(books) == [type |-> "GET_SHELF_BOOKS_RESPONSE", books |-> books]
BooksRequest(s) == [type |-> "GET_SHELF_BOOKS", shelf |-> s]

(* A change is answered by SUCCESS or ERROR, and either way the list of books *)
(* is asked for again in the end.                                             *)
Changes == {"CREATE_SHELF", "RENAME_SHELF", "DELETE_SHELF",
            "ADD_BOOK_TO_SHELF", "MOVE_BOOK_BETWEEN_SHELVES"}

(* The page with requests l, answers d and the list list will show the shelves now. *)
ShelvesComing(l, d, list, now) ==
  \/ Has(l, "GET_SHELVES")
  \/ Has(d, "SUCCESS")
  \/ Latest(d, ShelvesAnswer(now))
  \/ list = now /\ ~Has(d, "GET_SHELVES_RESPONSE")

(* ... and the books of the active shelf s, with the cards cards. *)
BooksComing(l, d, s, cards, now, books) ==
  \/ \E type \in Changes \cup {"GET_SHELVES"} : Has(l, type)
  \/ Has(d, "SUCCESS")
  \/ Has(d, "ERROR")
  \/ Latest(d, ShelvesAnswer(now))
  \/ Latest(l, BooksRequest(s))
  \/ /\ ~Has(l, "GET_SHELF_BOOKS")
     /\ \/ Latest(d, BooksAnswer(books))
        \/ cards = books /\ ~Has(d, "GET_SHELF_BOOKS_RESPONSE")

(* An answer other than a list of shelves, to a request other than for one. *)
LEMMA ShelvesAfterAnswer ==
  ASSUME NEW l \in Seq(Request), NEW d \in Seq(Response), NEW m \in Response, l # <<>>,
         Head(l).type # "GET_SHELVES", m.type # "GET_SHELVES_RESPONSE",
         NEW list, NEW now, ShelvesComing(l, d, list, now)
  PROVE ShelvesComing(Tail(l), Append(d, m), list, now)
<1>1. ShelvesAnswer(now).type = "GET_SHELVES_RESPONSE"
  BY DEF ShelvesAnswer
<1>2. QED
  BY <1>1, HasTail, HasAppend, LatestAppend DEF ShelvesComing

LEMMA ShelvesAfterAsk ==
  ASSUME NEW l \in Seq(Request), NEW r \in Request, NEW d,
         NEW list, NEW now, ShelvesComing(l, d, list, now)
  PROVE ShelvesComing(Append(l, r), d, list, now)
BY HasAppend DEF ShelvesComing

(* Any answer but SUCCESS is read; a list of shelves is shown. *)
LEMMA ShelvesAfterReceipt ==
  ASSUME NEW l, NEW d \in Seq(Response), d # <<>>, NEW list, NEW now, NEW list2,
         Head(d).type # "SUCCESS",
         list2 = IF Head(d).type = "GET_SHELVES_RESPONSE" THEN Head(d).shelves ELSE list,
         ShelvesComing(l, d, list, now)
  PROVE ShelvesComing(l, Tail(d), list2, now)
<1>1. /\ ShelvesAnswer(now).type = "GET_SHELVES_RESPONSE"
      /\ ShelvesAnswer(now).shelves = now
  BY DEF ShelvesAnswer
<1>2. CASE Latest(d, ShelvesAnswer(now))
  BY <1>1, <1>2, LatestTail DEF ShelvesComing
<1>3. CASE ~Latest(d, ShelvesAnswer(now))
  BY <1>3, HasTail DEF ShelvesComing
<1>4. QED
  BY <1>2, <1>3

(* The books are answered. *)
LEMMA BooksAfterBooks ==
  ASSUME NEW l \in Seq(Request), NEW d \in Seq(Response), l # <<>>,
         Head(l).type = "GET_SHELF_BOOKS", NEW s, NEW cards, NEW now, NEW books, NEW given,
         BooksAnswer(given) \in Response, Head(l).shelf = s => given = books,
         BooksComing(l, d, s, cards, now, books)
  PROVE BooksComing(Tail(l), Append(d, BooksAnswer(given)), s, cards, now, books)
<1> DEFINE m == BooksAnswer(given)
<1>1. /\ m.type = "GET_SHELF_BOOKS_RESPONSE"
      /\ ShelvesAnswer(now).type = "GET_SHELVES_RESPONSE"
      /\ BooksRequest(s).type = "GET_SHELF_BOOKS" /\ BooksRequest(s).shelf = s
  BY DEF ShelvesAnswer, BooksAnswer, BooksRequest
<1>2. \A type : Has(d, type) => Has(Append(d, m), type)
  BY HasAppend
<1>3. \A type : type # "GET_SHELF_BOOKS" /\ Has(l, type) => Has(Tail(l), type)
  BY HasTail
<1>4. Latest(d, ShelvesAnswer(now)) => Latest(Append(d, m), ShelvesAnswer(now))
  BY <1>1, LatestAppend
<1>5. Has(l, "GET_SHELF_BOOKS")
  BY HasTail
<1>6. CASE Latest(l, BooksRequest(s)) /\ ~Latest(Tail(l), BooksRequest(s))
  <2>1. Head(l) = BooksRequest(s) /\ ~Has(Tail(l), "GET_SHELF_BOOKS")
    BY <1>1, <1>6, LatestTail
  <2>2. m = BooksAnswer(books)
    BY <1>1, <2>1
  <2>3. Latest(Append(d, m), BooksAnswer(books))
    BY <2>2, LatestAppend
  <2>4. QED
    BY <2>1, <2>3 DEF BooksComing
<1>7. CASE Latest(l, BooksRequest(s)) /\ Latest(Tail(l), BooksRequest(s))
  BY <1>7 DEF BooksComing
<1>8. CASE \E type \in Changes \cup {"GET_SHELVES"} : Has(l, type)
  BY <1>3, <1>8 DEF BooksComing, Changes
<1>9. QED
  BY <1>2, <1>4, <1>5, <1>6, <1>7, <1>8 DEF BooksComing

(* An answer that the page reads without asking for the books again. *)
LEMMA BooksAfterReceipt ==
  ASSUME NEW l, NEW d \in Seq(Response), d # <<>>, NEW s, NEW cards, NEW now, NEW books,
         NEW cards2, s \in DOMAIN now,
         \/ Head(d).type = "GET_SHELVES_RESPONSE" /\ s \notin DOMAIN Head(d).shelves /\ cards2 = cards
         \/ Head(d).type = "GET_SHELF_BOOKS_RESPONSE" /\ cards2 = Head(d).books,
         BooksComing(l, d, s, cards, now, books)
  PROVE BooksComing(l, Tail(d), s, cards2, now, books)
<1>1. /\ ShelvesAnswer(now).type = "GET_SHELVES_RESPONSE" /\ ShelvesAnswer(now).shelves = now
      /\ BooksAnswer(books).type = "GET_SHELF_BOOKS_RESPONSE" /\ BooksAnswer(books).books = books
  BY DEF ShelvesAnswer, BooksAnswer
<1>2. \A type \in {"SUCCESS", "ERROR"} : Has(d, type) => Has(Tail(d), type)
  BY HasTail
<1>3. CASE Latest(d, ShelvesAnswer(now))
  <2>1. Latest(Tail(d), ShelvesAnswer(now))
    BY <1>1, <1>3, LatestTail
  <2>2. QED
    BY <2>1 DEF BooksComing
<1>4. CASE ~Has(l, "GET_SHELF_BOOKS") /\ Latest(d, BooksAnswer(books))
  <2>1. CASE Latest(Tail(d), BooksAnswer(books))
    BY <1>4, <2>1 DEF BooksComing
  <2>2. CASE ~Latest(Tail(d), BooksAnswer(books))
    <3>1. Head(d) = BooksAnswer(books) /\ ~Has(Tail(d), "GET_SHELF_BOOKS_RESPONSE")
      BY <1>1, <1>4, <2>2, LatestTail
    <3>2. cards2 = books
      BY <1>1, <3>1
    <3>3. QED
      BY <1>4, <3>1, <3>2 DEF BooksComing
  <2>3. QED
    BY <2>1, <2>2
<1>5. CASE /\ ~Has(l, "GET_SHELF_BOOKS")
           /\ cards = books /\ ~Has(d, "GET_SHELF_BOOKS_RESPONSE")
  <2>1. /\ Head(d).type # "GET_SHELF_BOOKS_RESPONSE"
        /\ ~Has(Tail(d), "GET_SHELF_BOOKS_RESPONSE")
    BY <1>5, HasTail
  <2>2. cards2 = books
    BY <1>5, <2>1
  <2>3. QED
    BY <1>5, <2>1, <2>2 DEF BooksComing
<1>6. QED
  BY <1>2, <1>3, <1>4, <1>5 DEF BooksComing

ShelvesRight(c) == ShelvesComing(line[c], down[c], shelves[c], Shelves)
BooksRight(c) ==
  active[c] \in DOMAIN Shelves =>
    BooksComing(line[c], down[c], active[c], shown[c], Shelves, BooksIn(active[c]))

PageInv == \A c \in Client : ~behind[c] => ShelvesRight(c) /\ BooksRight(c)

(* Nobody has written, and the page and its connection are as they were. *)
LEMMA SamePage ==
  ASSUME NEW d \in Client, ShelvesRight(d), BooksRight(d), UNCHANGED <<name, place>>,
         line'[d] = line[d], down'[d] = down[d], active'[d] = active[d],
         shelves'[d] = shelves[d], shown'[d] = shown[d]
  PROVE ShelvesRight(d)' /\ BooksRight(d)'
<1>1. Shelves' = Shelves /\ \A s : BooksIn(s)' = BooksIn(s)
  BY DEF Shelves, InTable, BooksIn
<1>2. QED
  BY <1>1 DEF ShelvesRight, BooksRight

(* The work of others leaves the page behind or changes nothing of it. *)
LEMMA PageOfOthers ==
  ASSUME TypeOK, PageInv, NEW c \in Client, Work(c), NEW d \in Client \ {c}, ~behind'[d]
  PROVE ShelvesRight(d)' /\ BooksRight(d)'
<1>1. line'[d] = line[d]
  BY OthersStay
<1>2. down'[d] = down[d]
  <2>1. PICK m, st : Answer(c, m) \/ GoOn(c, st)
    BY DEF Work, GetShelves, GetShelfBooks, CreateShelfLook, CreateShelf, RenameShelfLook,
           RenameShelf, EmptyShelf, DeleteShelf, AddBookLook, AddBook, MoveBookLook, TakeBook,
           DropBook, StatementFails
  <2>2. QED
    BY <2>1 DEF Answer, GoOn, TypeOK
<1>3. ~Wrote(c)
  BY DEF Wrote
<1>4. UNCHANGED <<name, place, active, shelves, shown>> /\ behind'[d] = behind[d]
  BY <1>3 DEF Work, GetShelves, GetShelfBooks, CreateShelfLook, CreateShelf,
     RenameShelfLook, RenameShelf, EmptyShelf, DeleteShelf, AddBookLook, AddBook,
     MoveBookLook, TakeBook, DropBook, StatementFails, Looked, tables, pages, marks, TypeOK
<1>5. ShelvesRight(d) /\ BooksRight(d)
  BY <1>4 DEF PageInv
<1>6. QED
  BY <1>1, <1>2, <1>4, <1>5, SamePage

(* A page's own worker. *)
LEMMA PageOfOwn ==
  ASSUME WorkInv, PageInv, NEW c \in Client, Work(c), ~behind'[c]
  PROVE ShelvesRight(c)' /\ BooksRight(c)'
<1> DEFINE r == Head(line[c])
<1>0. TypeOK
  BY DEF WorkInv
<1>1. line[c] # <<>>
  BY DEF Work, GetShelves, GetShelfBooks, CreateShelfLook, CreateShelf, RenameShelfLook,
         RenameShelf, EmptyShelf, DeleteShelf, AddBookLook, AddBook, MoveBookLook, TakeBook,
         DropBook, StatementFails, Takes
<1>2. line[c] \in Seq(Request) /\ down[c] \in Seq(Response) /\ r \in Request
  BY <1>0, <1>1, HeadOK DEF TypeOK
<1>3. UNCHANGED <<active, shelves, shown>>
  BY DEF Work, GetShelves, GetShelfBooks, CreateShelfLook, CreateShelf, RenameShelfLook,
         RenameShelf, EmptyShelf, DeleteShelf, AddBookLook, AddBook, MoveBookLook, TakeBook,
         DropBook, StatementFails, Looked, Wrote, pages, marks
<1>4. ASSUME NEW m, Answer(c, m)
      PROVE line'[c] = Tail(line[c]) /\ down'[c] = Append(down[c], m)
  BY <1>0, <1>4 DEF Answer, TypeOK
<1>15. ASSUME NEW m \in Response, Answer(c, m) PROVE Has(down'[c], m.type)
  <2>1. down'[c] = Append(down[c], m) /\ down[c] \in Seq(Response)
    BY <1>2, <1>4, <1>15
  <2>2. Has(Append(down[c], m), m.type)
    BY <2>1, HasAppend
  <2>3. QED
    BY <2>1, <2>2
<1>5. CASE GetShelves(c)
  <2> DEFINE m == ShelvesAnswer(Shelves)
  <2>1. m \in Response
    BY <1>0, QueriesOK, Responses DEF ShelvesAnswer
  <2>2. down'[c] = Append(down[c], m)
    BY <1>4, <1>5 DEF GetShelves, ShelvesAnswer
  <2>3. Shelves' = Shelves
    BY <1>5 DEF GetShelves, tables, Shelves, InTable
  <2> HIDE DEF m
  <2>4. Latest(down'[c], m)
    BY <1>2, <2>1, <2>2, LatestAppend
  <2>5. QED
    BY <2>3, <2>4 DEF ShelvesRight, BooksRight, ShelvesComing, BooksComing, m
<1>6. CASE GetShelfBooks(c)
  <2> DEFINE given == BooksIn(r.shelf)
  <2> DEFINE m == BooksAnswer(given)
  <2>1. m \in Response
    BY <1>0, QueriesOK, Responses DEF BooksAnswer
  <2>2. line'[c] = Tail(line[c]) /\ down'[c] = Append(down[c], m) /\ r.type = "GET_SHELF_BOOKS"
    BY <1>4, <1>6 DEF GetShelfBooks, BooksAnswer, Takes
  <2>3. Shelves' = Shelves /\ \A s : BooksIn(s)' = BooksIn(s)
    BY <1>6 DEF GetShelfBooks, tables, Shelves, InTable, BooksIn
  <2>4. ~behind[c]
    BY <1>6 DEF GetShelfBooks, marks
  <2>5. ShelvesRight(c) /\ BooksRight(c)
    BY <2>4 DEF PageInv
  <2>6. ShelvesRight(c)'
    <3>1. m.type # "GET_SHELVES_RESPONSE"
      BY DEF BooksAnswer
    <3>2. QED
      BY <1>1, <1>2, <1>3, <2>1, <2>2, <2>3, <2>5, <3>1, ShelvesAfterAnswer DEF ShelvesRight
  <2>7. BooksRight(c)'
    <3>1. r.shelf = active[c] => given = BooksIn(active[c])
      OBVIOUS
    <3> HIDE DEF given
    <3>2. QED
      BY <1>1, <1>2, <1>3, <2>1, <2>2, <2>3, <2>5, <3>1, BooksAfterBooks DEF BooksRight
  <2>8. QED
    BY <2>6, <2>7
<1>7. ASSUME r.type \in Changes, behind'[c] = behind[c],
             \/ Answer(c, Success)
             \/ UNCHANGED name /\ Answer(c, Error)
             \/ UNCHANGED name /\ \E st : GoOn(c, st)
      PROVE ShelvesRight(c)' /\ BooksRight(c)'
  <2>1. ShelvesRight(c)
    BY <1>7 DEF PageInv
  <2>2. CASE Answer(c, Success)
    <3>1. Success.type = "SUCCESS" /\ Success \in Response
      BY Responses DEF Success
    <3>2. Has(down'[c], "SUCCESS")
      BY <1>15, <2>2, <3>1
    <3>3. QED
      BY <3>2 DEF ShelvesRight, BooksRight, ShelvesComing, BooksComing
  <2>3. CASE UNCHANGED name /\ Answer(c, Error)
    <3>1. Shelves' = Shelves
      BY <2>3 DEF Shelves, InTable
    <3>2. Error.type = "ERROR" /\ Error \in Response /\ r.type # "GET_SHELVES"
      BY <1>7, Responses DEF Changes, Error
    <3>4. Has(down'[c], "ERROR")
      BY <1>15, <2>3, <3>2
    <3>3. BooksRight(c)'
      BY <3>4 DEF BooksRight, BooksComing
    <3>5. line'[c] = Tail(line[c]) /\ down'[c] = Append(down[c], Error)
      BY <1>4, <2>3
    <3>6. ShelvesRight(c)'
      BY <1>1, <1>2, <1>3, <2>1, <3>1, <3>2, <3>5, ShelvesAfterAnswer DEF ShelvesRight
    <3>7. QED
      BY <3>3, <3>6
  <2>4. CASE UNCHANGED name /\ \E st : GoOn(c, st)
    <3>1. Shelves' = Shelves /\ line' = line /\ down' = down
      BY <2>4 DEF Shelves, InTable, GoOn
    <3>2. Has(line[c], r.type)
      BY <1>1, <1>2, HasTail
    <3>3. BooksRight(c)'
      BY <1>7, <3>1, <3>2 DEF BooksRight, BooksComing
    <3>4. QED
      BY <1>3, <2>1, <3>1, <3>3 DEF ShelvesRight
  <2>5. QED
    BY <1>7, <2>2, <2>3, <2>4
<1>8. r.type \in Changes /\ behind'[c] = behind[c]
        /\ \/ Answer(c, Success)
           \/ UNCHANGED name /\ Answer(c, Error)
           \/ UNCHANGED name /\ \E st : GoOn(c, st)
      => ShelvesRight(c)' /\ BooksRight(c)'
  BY <1>7
<1>9. Wrote(c) \/ Looked(c) => behind'[c] = behind[c]
  BY <1>0 DEF Wrote, Looked, TypeOK
<1>10. CASE CreateShelfLook(c) \/ RenameShelfLook(c) \/ AddBookLook(c) \/ MoveBookLook(c)
  <2>1. r.type \in Changes
    BY <1>10 DEF CreateShelfLook, RenameShelfLook, AddBookLook, MoveBookLook, Takes, Changes
  <2>2. Looked(c) /\ (Answer(c, Error) \/ \E st : GoOn(c, st))
    BY <1>10 DEF CreateShelfLook, RenameShelfLook, AddBookLook, MoveBookLook
  <2>3. QED
    BY <1>8, <1>9, <2>1, <2>2 DEF Looked, tables
<1>11. CASE CreateShelf(c) \/ RenameShelf(c) \/ DeleteShelf(c)
  <2>1. r.type \in Changes
    BY <1>11 DEF CreateShelf, RenameShelf, DeleteShelf, Takes, Changes
  <2>2. Wrote(c) /\ (Answer(c, Success) \/ (UNCHANGED name /\ Answer(c, Error)))
    BY <1>11 DEF CreateShelf, RenameShelf, DeleteShelf
  <2>3. QED
    BY <1>8, <1>9, <2>1, <2>2
<1>12. CASE EmptyShelf(c) \/ AddBook(c) \/ TakeBook(c) \/ DropBook(c)
  <2>1. r.type \in Changes
    BY <1>12 DEF EmptyShelf, AddBook, TakeBook, DropBook, Takes, Changes
  <2>2. /\ Wrote(c) /\ UNCHANGED name
        /\ Answer(c, Success) \/ Answer(c, Error) \/ \E st : GoOn(c, st)
    BY <1>12 DEF EmptyShelf, AddBook, TakeBook, DropBook
  <2>3. QED
    BY <1>8, <1>9, <2>1, <2>2
<1>13. CASE StatementFails(c)
  <2>1. stage[c] \in {"write", "insert"} /\ Staged(c)
    BY <1>13 DEF StatementFails, WorkInv
  <2>2. r.type \in Changes
    BY <1>1, <2>1 DEF Staged, Changes
  <2>3. UNCHANGED <<name, behind>> /\ Answer(c, Error)
    BY <1>13 DEF StatementFails, tables
  <2>4. QED
    BY <1>8, <2>2, <2>3
<1>14. QED
  BY <1>5, <1>6, <1>10, <1>11, <1>12, <1>13 DEF Work

(* A page reads, or asks. *)
LEMMA PageOfPage ==
  ASSUME TypeOK, PageInv, NEW c \in Client, ~behind[c],
         Receive(c) \/ OpenTab(c) \/ AskChange(c) \/ \E s \in Shelf : ClickShelf(c, s)
  PROVE ShelvesRight(c)' /\ BooksRight(c)'
<1>1. UNCHANGED tables
  BY PageAsks
<1>2. Shelves' = Shelves /\ \A s : BooksIn(s)' = BooksIn(s)
  BY <1>1 DEF tables, Shelves, InTable, BooksIn
<1>3. ShelvesRight(c) /\ BooksRight(c)
  BY DEF PageInv
<1>4. /\ line[c] \in Seq(Request) /\ down[c] \in Seq(Response)
      /\ down[c] # <<>> => Tail(down[c]) \in Seq(Response)
      /\ active[c] \in Shelf \cup {NoShelf}
  BY HeadOK DEF TypeOK
<1>5. ASSUME NEW r \in Request, Ask(c, r)
      PROVE line'[c] = Append(line[c], r) /\ Has(line'[c], r.type) /\ Latest(line'[c], r)
  <2>1. line'[c] = Append(line[c], r)
    BY <1>5 DEF Ask, TypeOK
  <2>2. QED
    BY <1>4, <2>1, HasAppend, LatestAppend
<1>6. AskShelves(c) => Has(line'[c], "GET_SHELVES")
  BY <1>5, Requests DEF AskShelves
<1>7. ASSUME NEW s \in Shelf \cup {NoShelf}, AskBooks(c, s)
      PROVE BooksRequest(s) \in Request /\ Ask(c, BooksRequest(s)) /\ Latest(line'[c], BooksRequest(s))
  <2>1. BooksRequest(s) \in Request /\ Ask(c, BooksRequest(s))
    BY <1>7, Requests DEF AskBooks, BooksRequest
  <2>2. QED
    BY <1>5, <2>1
<1>8. ASSUME NEW r \in Request, Ask(c, r), down'[c] = down[c], shelves'[c] = shelves[c]
      PROVE ShelvesRight(c)'
  BY <1>2, <1>3, <1>4, <1>5, <1>8, ShelvesAfterAsk DEF ShelvesRight
<1>9. ASSUME Received(c) PROVE down'[c] = Tail(down[c]) /\ active' = active
  BY <1>9 DEF Received, TypeOK
<1>10. CASE ReceiveSuccess(c)
  <2>1. Has(line'[c], "GET_SHELVES")
    BY <1>6, <1>10 DEF ReceiveSuccess
  <2>2. QED
    BY <2>1 DEF ShelvesRight, BooksRight, ShelvesComing, BooksComing
<1>11. CASE ReceiveError(c)
  <2>1. /\ down[c] # <<>> /\ Head(down[c]).type = "ERROR" /\ AskBooks(c, active[c])
        /\ Received(c) /\ UNCHANGED <<shelves, shown>>
    BY <1>11 DEF ReceiveError, Arrived
  <2>2. /\ BooksRequest(active[c]) \in Request /\ Ask(c, BooksRequest(active[c]))
        /\ Latest(line'[c], BooksRequest(active[c]))
    BY <1>4, <1>7, <2>1
  <2>3. BooksRight(c)'
    BY <1>9, <2>1, <2>2 DEF BooksRight, BooksComing
  <2>4. ShelvesComing(line[c], Tail(down[c]), shelves[c], Shelves)
    BY <1>3, <1>4, <2>1, ShelvesAfterReceipt DEF ShelvesRight
  <2>5. ShelvesComing(line'[c], Tail(down[c]), shelves[c], Shelves)
    BY <1>4, <1>5, <2>2, <2>4, ShelvesAfterAsk
  <2>6. ShelvesRight(c)'
    BY <1>2, <1>9, <2>1, <2>5 DEF ShelvesRight
  <2>7. QED
    BY <2>3, <2>6
<1>12. CASE HandleGetShelves(c)
  <2>1. /\ down[c] # <<>> /\ Head(down[c]).type = "GET_SHELVES_RESPONSE"
        /\ Received(c) /\ UNCHANGED shown
        /\ shelves' = [shelves EXCEPT ![c] = Head(down[c]).shelves]
        /\ IF active[c] \in DOMAIN Head(down[c]).shelves
           THEN AskBooks(c, active[c]) ELSE UNCHANGED line
    BY <1>12 DEF HandleGetShelves, Arrived
  <2>2. shelves'[c] = Head(down[c]).shelves
    BY <2>1 DEF TypeOK
  <2>3. ShelvesComing(line[c], Tail(down[c]), shelves'[c], Shelves)
    BY <1>3, <1>4, <2>1, <2>2, ShelvesAfterReceipt DEF ShelvesRight
  <2>4. CASE active[c] \in DOMAIN Head(down[c]).shelves
    <3>1. /\ BooksRequest(active[c]) \in Request /\ Ask(c, BooksRequest(active[c]))
          /\ Latest(line'[c], BooksRequest(active[c]))
      BY <1>4, <1>7, <2>1, <2>4
    <3>2. BooksRight(c)'
      BY <1>9, <2>1, <3>1 DEF BooksRight, BooksComing
    <3>3. ShelvesComing(line'[c], Tail(down[c]), shelves'[c], Shelves)
      BY <1>4, <1>5, <2>3, <3>1, ShelvesAfterAsk
    <3>4. QED
      BY <1>2, <1>9, <2>1, <3>2, <3>3 DEF ShelvesRight
  <2>5. CASE active[c] \notin DOMAIN Head(down[c]).shelves
    <3>1. line' = line
      BY <2>1, <2>5
    <3>2. ShelvesRight(c)'
      BY <1>2, <1>9, <2>1, <2>3, <3>1 DEF ShelvesRight
    <3>3. active[c] \in DOMAIN Shelves =>
            BooksComing(line[c], Tail(down[c]), active[c], shown[c], Shelves, BooksIn(active[c]))
      BY <1>3, <1>4, <2>1, <2>5, BooksAfterReceipt DEF BooksRight
    <3>4. BooksRight(c)'
      BY <1>2, <1>9, <2>1, <3>1, <3>3 DEF BooksRight
    <3>5. QED
      BY <3>2, <3>4
  <2>6. QED
    BY <2>4, <2>5
<1>13. CASE HandleGetShelfBooks(c)
  <2>1. /\ down[c] # <<>> /\ Head(down[c]).type = "GET_SHELF_BOOKS_RESPONSE"
        /\ Received(c) /\ UNCHANGED <<line, shelves>>
        /\ shown' = [shown EXCEPT ![c] = Head(down[c]).books]
    BY <1>13 DEF HandleGetShelfBooks, Arrived
  <2>2. shown'[c] = Head(down[c]).books
    BY <2>1 DEF TypeOK
  <2>3. ShelvesComing(line[c], Tail(down[c]), shelves[c], Shelves)
    BY <1>3, <1>4, <2>1, ShelvesAfterReceipt DEF ShelvesRight
  <2>4. active[c] \in DOMAIN Shelves =>
          BooksComing(line[c], Tail(down[c]), active[c], shown'[c], Shelves, BooksIn(active[c]))
    BY <1>3, <1>4, <2>1, <2>2, BooksAfterReceipt DEF BooksRight
  <2>5. ShelvesRight(c)'
    BY <1>2, <1>9, <2>1, <2>3 DEF ShelvesRight
  <2>6. BooksRight(c)'
    BY <1>2, <1>9, <2>1, <2>4 DEF BooksRight
  <2>7. QED
    BY <2>5, <2>6
<1>14. CASE OpenTab(c)
  <2>1. Has(line'[c], "GET_SHELVES")
    BY <1>6, <1>14 DEF OpenTab
  <2>2. QED
    BY <2>1 DEF ShelvesRight, BooksRight, ShelvesComing, BooksComing
<1>15. CASE \E s \in Shelf : ClickShelf(c, s)
  <2>1. PICK s \in Shelf : ClickShelf(c, s)
    BY <1>15
  <2>2. /\ active' = [active EXCEPT ![c] = s] /\ AskBooks(c, s)
        /\ UNCHANGED <<down, shelves>>
    BY <2>1 DEF ClickShelf, Act
  <2>3. /\ BooksRequest(s) \in Request /\ Ask(c, BooksRequest(s))
        /\ Latest(line'[c], BooksRequest(s)) /\ active'[c] = s
    BY <1>7, <2>2 DEF TypeOK
  <2>4. QED
    BY <1>8, <2>2, <2>3 DEF BooksRight, BooksComing
<1>16. CASE AskChange(c)
  <2>1. UNCHANGED <<down, shelves, active, shown>>
    BY <1>16 DEF AskChange, Act
  <2>2. PICK r \in Request : Ask(c, r) /\ r.type \in Changes
    <3>1. CASE \E n \in Name : AskCreate(c, n)
      BY <3>1, Requests DEF AskCreate, Changes
    <3>2. CASE \E s \in Shelf, n \in Name : AskRename(c, s, n)
      BY <3>2, Requests DEF AskRename, Changes
    <3>3. CASE \E s \in Shelf : AskDelete(c, s)
      BY <3>3, Requests DEF AskDelete, Changes
    <3>4. CASE \E s \in Shelf, b \in Book : AskAdd(c, b, s)
      BY <3>4, Requests DEF AskAdd, Changes
    <3>5. CASE \E s \in Shelf, b \in Book : AskMove(c, b, s)
      BY <1>4, <3>5, Requests DEF AskMove, Changes
    <3>6. QED
      BY <1>16, <3>1, <3>2, <3>3, <3>4, <3>5 DEF AskChange
  <2>3. BooksRight(c)'
    BY <1>5, <2>2 DEF BooksRight, BooksComing
  <2>4. QED
    BY <1>8, <2>1, <2>2, <2>3
<1>17. QED
  BY <1>10, <1>11, <1>12, <1>13, <1>14, <1>15, <1>16 DEF Receive

LEMMA InitPage == Init => PageInv
<1> SUFFICES ASSUME Init, NEW c \in Client PROVE ShelvesRight(c) /\ BooksRight(c)
  BY DEF PageInv
<1>1. /\ line[c] = <<>> /\ down[c] = <<>> /\ shelves[c] = Shelves
      /\ shown[c] = BooksIn(active[c])
  BY DEF Init
<1>2. QED
  BY <1>1, NothingIn DEF ShelvesRight, BooksRight, ShelvesComing, BooksComing

LEMMA PageStep == WorkInv /\ PageInv /\ [Next]_vars => PageInv'
<1> SUFFICES ASSUME WorkInv, PageInv, [Next]_vars, NEW d \in Client, ~behind'[d]
             PROVE ShelvesRight(d)' /\ BooksRight(d)'
  BY DEF PageInv
<1>0. TypeOK
  BY DEF WorkInv
<1>1. ASSUME NEW c \in Client, Work(c) PROVE ShelvesRight(d)' /\ BooksRight(d)'
  BY <1>0, <1>1, PageOfOwn, PageOfOthers
<1>2. ASSUME NEW c \in Client,
             Receive(c) \/ OpenTab(c) \/ AskChange(c) \/ \E s \in Shelf : ClickShelf(c, s)
      PROVE ShelvesRight(d)' /\ BooksRight(d)'
  <2>1. UNCHANGED <<name, place, behind>>
    BY <1>0, <1>2, PageAsks DEF tables, marks
  <2>2. CASE c = d
    BY <1>0, <1>2, <2>1, <2>2, PageOfPage
  <2>3. CASE c # d
    <3>1. line'[d] = line[d]
      <4>1. line' = line \/ \E r \in Apart : Ask(c, r)
        BY <1>0, <1>2, PageAsks
      <4>2. QED
        BY <1>0, <2>3, <4>1 DEF Ask, TypeOK
    <3>2. down'[d] = down[d] /\ active'[d] = active[d]
      BY <1>0, <1>2, <2>3 DEF Receive, ReceiveSuccess, ReceiveError, HandleGetShelves,
         HandleGetShelfBooks, Received, OpenTab, AskChange, ClickShelf, Act, TypeOK
    <3>3. shelves'[d] = shelves[d] /\ shown'[d] = shown[d]
      BY <1>0, <1>2, <2>3 DEF Receive, ReceiveSuccess, ReceiveError, HandleGetShelves,
         HandleGetShelfBooks, OpenTab, AskChange, ClickShelf, TypeOK
    <3>4. ShelvesRight(d) /\ BooksRight(d)
      BY <2>1 DEF PageInv
    <3>5. QED
      BY <2>1, <3>1, <3>2, <3>3, <3>4, SamePage
  <2>4. QED
    BY <2>2, <2>3
<1>3. CASE Crash
  <2>1. /\ shelves'[d] = Shelves' /\ down'[d] = <<>> /\ active'[d] = NoShelf
    BY <1>3 DEF Crash, tables, Shelves, InTable
  <2>2. DOMAIN Shelves' \subseteq Shelf
    BY DEF Shelves
  <2>3. QED
    BY <2>1, <2>2, ShelfIds, NothingIn DEF ShelvesRight, BooksRight, ShelvesComing
<1>4. CASE UNCHANGED vars
  BY <1>4, SamePage DEF vars, PageInv
<1>5. QED
  BY <1>1, <1>2, <1>3, <1>4 DEF Next

LEMMA QuietPage == PageInv => PageCurrent
<1> SUFFICES ASSUME PageInv, NEW c \in Client, Quiet(c), ~behind[c]
             PROVE /\ shelves[c] = Shelves
                   /\ active[c] \in DOMAIN Shelves => shown[c] = BooksIn(active[c])
  BY DEF PageCurrent
<1>1. line[c] = <<>> /\ down[c] = <<>> /\ ShelvesRight(c) /\ BooksRight(c)
  BY DEF Quiet, PageInv
<1>2. QED
  BY <1>1, NothingIn DEF ShelvesRight, BooksRight, ShelvesComing, BooksComing

(* A page that waits for nothing shows the shelves of the table and the books *)
(* of the active shelf, unless another client has written since.              *)
THEOREM PagesAreCurrent == Spec => []PageCurrent
BY InitPage, PageStep, QuietPage, WorkHolds, PTL DEF Spec
=============================================================================
