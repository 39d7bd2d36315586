----------------------------- MODULE Catalogue -----------------------------
(***************************************************************************)
(* The rows of the table books and the files they name, as the handlers of *)
(* publishers and administrators change them.  Adding or editing a book is *)
(* a chain of steps on two stores that no transaction joins: the row is    *)
(* read, the files sent are copied into the storage directory under fresh  *)
(* names, the whole row is written back, the files read at the start are   *)
(* removed.  Setting a discount reads the price in one statement and       *)
(* writes percent and amount in the next.  Workers interleave between any  *)
(* two of these steps, and the server may die between them.                *)
(*                                                                         *)
(* A file is a pair of its kind and the time stamp of its name.  Amounts   *)
(* are counted in hundredths, so that price * percent needs no division.   *)
(***************************************************************************)
EXTENDS Integers, Records

CONSTANTS
  Book,       \* ids of books, given out one by one
  Worker,     \* threads that serve publishers and administrators
  Title,      \* the texts of a book, title, author, genre and description in one
  Price,      \* list prices
  Percent,    \* discounts
  Form,       \* what is submitted to add a book: records of all the fields
  Edit,       \* what is submitted to edit one: some of the fields, and new files
  MaxStamp,   \* bound: file names given out
  MaxCrashes, \* bound: crashes of the server
  NoRow,      \* in place of a row not inserted yet
  NoWork      \* the worker is not in one of these handlers

Kind == {"pdf", "cover"}
File(k) == {k} \X (1..MaxStamp)
AnyFile == File("pdf") \cup File("cover")

(* What a form has, what add and edit write, and what a row has. *)
FullForm == [title : Title, price : Price, percent : Percent]
Fields == [title : Title, price : Price, percent : Percent, amount : Int,
           pdf : File("pdf"), cover : File("cover")]
Row == [title : Title, price : Price, percent : Percent, amount : Int,
        pdf : File("pdf"), cover : File("cover"), active : BOOLEAN, deleted : BOOLEAN]

(* What a handler has read and prepared. *)
NewFiles == UNION {[kinds -> AnyFile] : kinds \in SUBSET Kind}
Sent == {e.fields : e \in Edit} \cup {[percent |-> q] : q \in Percent} \cup {<<>>}
WriteJob == [op : {"add", "update"}, book : Book \cup {NoRow}, sent : Sent, new : NewFiles,
             old : SUBSET AnyFile, write : Fields]
DiscountJob == [op : {"discount"}, book : Book, sent : Sent, new : NewFiles,
                old : SUBSET AnyFile, write : [percent : Percent, amount : Int]]
RemoveJob == [op : {"remove"}, book : Book, new : NewFiles, old : SUBSET AnyFile]
Job == WriteJob \cup DiscountJob \cup RemoveJob

ASSUME MoneyAssumption == Price \subseteq Nat /\ Percent \subseteq 0..100 /\ 0 \in Percent
ASSUME FormAssumption == Form \subseteq FullForm
ASSUME EditAssumption ==
  \A e \in Edit : e.files \subseteq Kind /\ \E f \in FullForm : e.fields ++ f = f
ASSUME BoundAssumption == MaxStamp \in Nat /\ MaxCrashes \in Nat
ASSUME NoneAssumption == NoRow \notin Row \cup Book /\ NoWork \notin Job

VARIABLES
  row,        \* row[b]: the row of book b
  disk,       \* the files of the storage directory
  stamp,      \* time stamps used up
  work,       \* work[w]: what the handler that w runs has read and prepared
  late,       \* late[w]: the fields others have changed since w read the row
  torn,       \* books edited once deleted, or given back a file replaced meanwhile
  skewed,     \* books whose discount was computed from a price changed meanwhile
  leftovers,  \* files left behind by a handler that came too late, or by a crash
  crashes     \* crashes so far

vars == <<row, disk, stamp, work, late, torn, skewed, leftovers, crashes>>
marks == <<torn, skewed, leftovers>>

-----------------------------------------------------------------------------
(* The amount of a discount, computed by the program that writes the row. *)
WithAmount(fields) == [amount |-> fields.price * fields.percent] ++ fields

(* What getBookDetails reads, whether or not the book is deleted. *)
Details(b) == [f \in {"title", "price", "percent", "pdf", "cover"} |-> row[b][f]]

Inserted(b) == row[b] # NoRow
Offered(b) == Inserted(b) /\ ~row[b].deleted

FilesOf(b) == {row[b][k] : k \in Kind}

(* Copies of the files a client sends, under names of the moment. *)
Copies(kinds) == [k \in kinds |-> <<k, stamp + 1>>]
FileSet(files) == {files[k] : k \in DOMAIN files}

(* Mutant: the old files are removed when the new ones are copied. *)
StartReplacing(w, job) ==
  /\ work[w] = NoWork
  /\ work' = [work EXCEPT ![w] = job]
  /\ stamp' = IF DOMAIN job.new = {} THEN stamp ELSE stamp + 1
  /\ stamp' <= MaxStamp
  /\ disk' = (disk \ job.old) \cup FileSet(job.new)
  /\ UNCHANGED <<row, late, marks, crashes>>

Start(w, job) ==
  /\ work[w] = NoWork
  /\ work' = [work EXCEPT ![w] = job]
  /\ stamp' = IF DOMAIN job.new = {} THEN stamp ELSE stamp + 1
  /\ stamp' <= MaxStamp
  /\ disk' = disk \cup FileSet(job.new)
  /\ UNCHANGED <<row, late, marks, crashes>>

Stop(w) ==
  /\ work' = [work EXCEPT ![w] = NoWork]
  /\ late' = [late EXCEPT ![w] = {}]

(* The fields of b that w changes, for every other handler that has read them. *)
Overtake(w, b) ==
  LET changed == {f \in DOMAIN row[b] : row'[b][f] # row[b][f]}
  IN  late' = [v \in Worker |->
                 CASE v = w -> {}
                   [] v # w /\ work[v] # NoWork /\ work[v].book = b -> late[v] \cup changed
                   [] OTHER -> late[v]]

-----------------------------------------------------------------------------
Init ==
  /\ row = [b \in Book |-> NoRow]
  /\ disk = {}
  /\ stamp = 0
  /\ work = [w \in Worker |-> NoWork]
  /\ late = [w \in Worker |-> {}]
  /\ torn = {}
  /\ skewed = {}
  /\ leftovers = {}
  /\ crashes = 0

-----------------------------------------------------------------------------
(* The first steps: what a handler reads, and the copies it makes.  A copy    *)
(* that cannot be made ends the handler with the copies made so far removed,  *)
(* which is as if the request had not come.                                   *)

(* ADD_BOOK: the client sends every field and both files. *)
BeginAdd(w, form) ==
  LET files == Copies(Kind)
  IN  Start(w, [op |-> "add", book |-> NoRow, sent |-> <<>>, new |-> files, old |-> {},
                write |-> WithAmount(files ++ form)])

(* Mutant: the old amount is written back with the old fields. *)
BeginUpdateSameAmount(w, b, edit) ==
  LET files == Copies(edit.files)
  IN  /\ Inserted(b)
      /\ Start(w, [op |-> "update", book |-> b, sent |-> edit.fields,
                   new |-> files, old |-> {row[b][k] : k \in edit.files},
                   write |-> files ++ edit.fields ++ Details(b) ++ [amount |-> row[b].amount]])

(* Mutant: a discount left empty in the form is taken for none. *)
BeginUpdateNoDiscount(w, b, edit) ==
  LET files == Copies(edit.files)
  IN  /\ Inserted(b)
      /\ Start(w, [op |-> "update", book |-> b, sent |-> edit.fields,
                   new |-> files, old |-> {row[b][k] : k \in edit.files},
                   write |-> WithAmount(files ++ edit.fields ++ [percent |-> 0]
                                          ++ Details(b))])

(* UPDATE_BOOK and ADMIN_UPDATE_BOOK: the fields left empty in the form are   *)
(* taken from the row as it is now, and so are the names of the old files.    *)
BeginUpdate(w, b, edit) ==
  LET files == Copies(edit.files)
  IN  /\ Inserted(b)
      /\ Start(w, [op |-> "update", book |-> b, sent |-> edit.fields,
                   new |-> files, old |-> {row[b][k] : k \in edit.files},
                   write |-> WithAmount(files ++ edit.fields ++ Details(b))])

(* Mutant: an amount of money is taken for a percentage. *)
BeginDiscountAmount(w, b, q) ==
  /\ Offered(b)
  /\ Start(w, [op |-> "discount", book |-> b, sent |-> [percent |-> q], new |-> <<>>,
               old |-> {},
               write |-> [percent |-> q + 100, amount |-> row[b].price * q]])

(* SET_BOOK_DISCOUNT: the price is read, unless the book is deleted. *)
BeginDiscount(w, b, q) ==
  /\ Offered(b)
  /\ Start(w, [op |-> "discount", book |-> b, sent |-> [percent |-> q], new |-> <<>>,
               old |-> {},
               write |-> [percent |-> q, amount |-> row[b].price * q]])

-----------------------------------------------------------------------------
(* The last steps: one INSERT or UPDATE, then the old files. *)

(* The INSERT gives the book an id that no book has had. *)
Insert(w, b) ==
  /\ work[w] # NoWork
  /\ work[w].op = "add"
  /\ ~Inserted(b)
  /\ row' = [row EXCEPT ![b] = work[w].write ++ [active |-> TRUE, deleted |-> FALSE]]
  /\ Stop(w)
  /\ UNCHANGED <<disk, stamp, marks, crashes>>

(* What an UPDATE that comes too late does is put on record: the new files of *)
(* a book deleted meanwhile, and the files of the row that it no longer names. *)
MarkDeleted(w, b) ==
  /\ torn' = IF work[w].op = "update" THEN torn \cup {b} ELSE torn
  /\ leftovers' = leftovers \cup FileSet(work[w].new)
  /\ UNCHANGED skewed

MarkLate(w, b) ==
  LET new == DOMAIN work[w].new
      update == work[w].op = "update"
  IN  /\ torn' = IF update /\ (late[w] \cap Kind) \ new # {} THEN torn \cup {b} ELSE torn
      /\ skewed' = IF ~update /\ "price" \in late[w] THEN skewed \cup {b} ELSE skewed \ {b}
      /\ leftovers' = IF update
                      THEN leftovers \cup {row[b][k] : k \in late[w] \cap Kind}
                      ELSE leftovers

(* Mutant: the UPDATE does not ask for is_deleted = 0. *)
UpdateAny(w) ==
  LET b == work[w].book
  IN  /\ work[w] # NoWork
      /\ work[w].op \in {"update", "discount"}
      /\ row' = [row EXCEPT ![b] = work[w].write ++ @]
      /\ MarkLate(w, b)
      /\ Overtake(w, b)
      /\ work' = [work EXCEPT ![w] =
                    IF @.old = {} THEN NoWork
                    ELSE [op |-> "remove", book |-> b, new |-> <<>>, old |-> @.old]]
      /\ UNCHANGED <<disk, stamp, crashes>>

(* The UPDATE asks for is_deleted = 0; that it matched no row is taken for a  *)
(* success.  A handler that has old files to remove goes on with them.        *)
Update(w) ==
  LET b == work[w].book
  IN  /\ work[w] # NoWork
      /\ work[w].op \in {"update", "discount"}
      /\ IF row[b].deleted
         THEN MarkDeleted(w, b) /\ UNCHANGED row /\ late' = [late EXCEPT ![w] = {}]
         ELSE /\ row' = [row EXCEPT ![b] = work[w].write ++ @]
              /\ MarkLate(w, b)
              /\ Overtake(w, b)
      /\ work' = [work EXCEPT ![w] =
                    IF @.old = {} THEN NoWork
                    ELSE [op |-> "remove", book |-> b, new |-> <<>>, old |-> @.old]]
      /\ UNCHANGED <<disk, stamp, crashes>>

(* Mutant: the new copies are kept when the statement fails. *)
WriteFailsKeeping(w) ==
  /\ work[w] # NoWork
  /\ work[w].op # "remove"
  /\ Stop(w)
  /\ UNCHANGED <<row, disk, stamp, marks, crashes>>

(* The statement fails: the new copies are removed, the client gets an error. *)
WriteFails(w) ==
  /\ work[w] # NoWork
  /\ work[w].op # "remove"
  /\ disk' = disk \ FileSet(work[w].new)
  /\ Stop(w)
  /\ UNCHANGED <<row, stamp, marks, crashes>>

(* The old files go once the row names the new ones. *)
RemoveOld(w) ==
  /\ work[w] # NoWork
  /\ work[w].op = "remove"
  /\ disk' = disk \ work[w].old
  /\ Stop(w)
  /\ UNCHANGED <<row, stamp, marks, crashes>>

-----------------------------------------------------------------------------
(* Requests of a single statement. *)

(* SET_BOOK_ACTIVE_STATE. *)
SetBookActiveState(b, on) ==
  /\ Offered(b)
  /\ row' = [row EXCEPT ![b].active = on]
  /\ UNCHANGED <<disk, stamp, work, late, marks, crashes>>

(* PUBLISHER_DELETE_BOOK and ADMIN_DELETE_BOOK keep the row and the files:    *)
(* whoever has bought the book reads on.                                      *)
DeleteBook(b) ==
  /\ Inserted(b)
  /\ row' = [row EXCEPT ![b].active = FALSE, ![b].deleted = TRUE]
  /\ UNCHANGED <<disk, stamp, work, late, marks, crashes>>

(* The server dies: copies not yet named and old files not yet removed stay. *)
Crash ==
  /\ crashes < MaxCrashes
  /\ crashes' = crashes + 1
  /\ leftovers' = leftovers \cup
       UNION {IF work[w].op = "remove" THEN work[w].old ELSE FileSet(work[w].new) :
                w \in {v \in Worker : work[v] # NoWork}}
  /\ work' = [w \in Worker |-> NoWork]
  /\ late' = [w \in Worker |-> {}]
  /\ UNCHANGED <<row, disk, stamp, torn, skewed>>

-----------------------------------------------------------------------------
Handler(w) ==
  \/ \E form \in Form : BeginAdd(w, form)
  \/ \E b \in Book, e \in Edit : BeginUpdate(w, b, e)
  \/ \E b \in Book, q \in Percent : BeginDiscount(w, b, q)
  \/ \E b \in Book : Insert(w, b)
  \/ Update(w)
  \/ WriteFails(w)
  \/ RemoveOld(w)

Next ==
  \/ \E w \in Worker : Handler(w)
  \/ \E b \in Book, on \in BOOLEAN : SetBookActiveState(b, on)
  \/ \E b \in Book : DeleteBook(b)
  \/ Crash

Spec == Init /\ [][Next]_vars
-----------------------------------------------------------------------------
(* Properties. *)

(* Every row is whole and every handler holds what its next step writes. *)
TypeOK ==
  /\ row \in [Book -> Row \cup {NoRow}]
  /\ disk \in SUBSET AnyFile
  /\ stamp \in 0..MaxStamp
  /\ work \in [Worker -> Job \cup {NoWork}]
  /\ late \in [Worker -> SUBSET {"title", "price", "percent", "amount", "pdf", "cover"}]
  /\ torn \in SUBSET Book /\ skewed \in SUBSET Book
  /\ leftovers \in SUBSET AnyFile
  /\ crashes \in 0..MaxCrashes

(* The files a row names are there, also those of deleted books, which their  *)
(* buyers still read: "delete the old files only after the success of the     *)
(* database" (handleUpdateBook).  Two causes break it: an edit of a book that *)
(* is deleted when the UPDATE runs, which matches no row and is taken for a   *)
(* success; and an edit that gives back the name of a file replaced since.    *)
FilesThere == \A b \in Book \ torn : Inserted(b) => FilesOf(b) \subseteq disk

(* Every file of the storage directory is named by a row or still in the      *)
(* hands of a handler.  Edits that came too late and crashes alone leave      *)
(* files behind; failed statements and failed copies do not.                  *)
NoStrays ==
  disk \subseteq leftovers \cup (UNION {FilesOf(b) : b \in {c \in Book : Inserted(c)}})
                \cup (UNION {FileSet(work[w].new) \cup work[w].old :
                              w \in {v \in Worker : work[v] # NoWork}})

(* The amount of the discount is that of the price in the row: the price to   *)
(* pay is price minus amount, and nothing recomputes it.  It is wrong only if *)
(* the price was changed between the two statements of setBookDiscount.       *)
AmountExact ==
  \A b \in Book \ skewed : Inserted(b) => row[b].amount = row[b].price * row[b].percent

(* A write changes the fields its request names, the amount that follows from *)
(* them, and nothing else, although it writes all the columns back.  Only     *)
(* what others changed since the row was read is undone.                      *)
OthersKept ==
  [][\A b \in Book : Inserted(b) /\ row'[b] # row[b] =>
       \/ row'[b] = [row[b] EXCEPT !.active = row'[b].active, !.deleted = row'[b].deleted]
       \/ \E w \in Worker :
            /\ work[w] # NoWork
            /\ work[w].op \in {"update", "discount"}
            /\ work[w].book = b
            /\ \A f \in DOMAIN row[b] \ {"amount"} : row'[b][f] # row[b][f] =>
                 f \in DOMAIN work[w].sent \cup DOMAIN work[w].new \cup late[w]]_vars

(* With all its steps, the catalogue is that of Bookshop: books are put on    *)
(* offer, repriced, switched and withdrawn at one instant, and deletion is    *)
(* final whatever was begun before it.                                        *)
Payable(b) == 100 * row[b].price - row[b].amount
Money == {100 * p - r * q : p \in Price, r \in Price, q \in Percent} \cup {0}

Shop == INSTANCE Bookshop WITH
          User <- {}, Book <- Book, Price <- Money, cart <- [u \in {} |-> 0], library <- [u \in {} |-> 0],
          active <- [b \in Book |-> Inserted(b) /\ row[b].active],
          deleted <- [b \in Book |-> Inserted(b) /\ row[b].deleted],
          price <- [b \in Book |-> IF Inserted(b) THEN Payable(b) ELSE 0]
ImplementsBookshop == Shop!Spec
=============================================================================
