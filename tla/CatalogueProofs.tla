-------------------------- MODULE CatalogueProofs --------------------------
(***************************************************************************)
(* Proofs about the catalogue: first about Catalogue, for any books,       *)
(* workers, prices and edits; then about CardPages, the pages that show    *)
(* it.                                                                     *)
(***************************************************************************)
EXTENDS Catalogue, CardPages, FiniteSetTheorems, TLAPS

(***************************************************************************)
(* Definitions of the proof: whose a file is.  The files of a handler are  *)
(* the copies it has made, New, and those of the row it has read: Held are *)
(* the ones it will remove and the ones whose names it will write back.    *)
(***************************************************************************)
Busy(w) == work[w] # NoWork
New(w) == IF Busy(w) THEN FileSet(work[w].new) ELSE {}
WrittenBack(w) == {work[w].write[k] : k \in Kind \ DOMAIN work[w].new}
Held(w) == work[w].old \cup (IF work[w].op = "update" THEN WrittenBack(w) ELSE {})

(* f is or was a file of b, and may be named or removed again because of it. *)
Of(f, b) ==
  \/ Inserted(b) /\ f \in FilesOf(b)
  \/ \E w \in Worker : Busy(w) /\ work[w].book = b /\ f \in Held(w)

(***************************************************************************)
(* The inductive invariant, part by part.                                  *)
(***************************************************************************)

(* What each kind of handler has prepared. *)
Prepared ==
  \A w \in Worker : Busy(w) =>
    LET job == work[w]
    IN  /\ job.op # "add" => Inserted(job.book) /\ job.book \in Book
        /\ job.op = "add" => DOMAIN job.new = Kind /\ job.old = {} /\ job.book = NoRow
        /\ job.op \in {"discount", "remove"} => DOMAIN job.new = {}
        /\ job.op = "discount" => job.old = {} /\ job.sent = [percent |-> job.write.percent]
        /\ job.op \in {"add", "update"} =>
             \A k \in DOMAIN job.new : job.new[k] = job.write[k]
        /\ job.op = "update" => \A k \in Kind \ DOMAIN job.new : job.old \cap File(k) = {}

(* No file in use has a time stamp that is still to come. *)
StampsUsed ==
  \A f \in AnyFile : f \in disk \/ (\E b \in Book : Of(f, b)) => f[2] <= stamp

(* The copies of a handler are there and nobody else's. *)
NewOwn ==
  \A w \in Worker : \A f \in New(w) :
    /\ f \in disk
    /\ \A b \in Book : ~Of(f, b)
    /\ \A v \in Worker \ {w} : f \notin New(v)

(* No file is of two books. *)
OneBook == \A b, c \in Book, f \in AnyFile : Of(f, b) /\ Of(f, c) => b = c

(* A handler writes back what is in the row, unless another one has changed   *)
(* it meanwhile, and removes what it replaces, with the same exception.       *)
Copied ==
  \A w \in Worker : Busy(w) /\ work[w].op = "update" =>
    LET job == work[w]
        now == row[job.book]
    IN  /\ \A f \in {"title", "price", "percent", "pdf", "cover"} :
             f \notin DOMAIN job.sent \cup DOMAIN job.new \cup late[w] =>
               job.write[f] = now[f]
        /\ \A k \in DOMAIN job.new \ late[w] : now[k] \in job.old

(* What a handler removes is no longer named by the book it was taken from. *)
Replaced ==
  \A w \in Worker : Busy(w) /\ work[w].op = "remove" /\ work[w].book \notin torn =>
    work[w].old \cap FilesOf(work[w].book) = {}

(* NoStrays, and more: of a handler that has not written yet only the copies  *)
(* are needed to account for a file.                                          *)
StraysNamed ==
  \A f \in disk :
    \/ f \in leftovers
    \/ \E b \in Book : Inserted(b) /\ f \in FilesOf(b)
    \/ \E w \in Worker : f \in New(w)
    \/ \E w \in Worker : Busy(w) /\ work[w].op = "remove" /\ f \in work[w].old

(* The amount a handler writes is that of the price it writes or leaves. *)
AmountsFollow ==
  \A w \in Worker : Busy(w) =>
    LET job == work[w]
    IN  /\ job.op \in {"add", "update"} =>
             job.write.amount = job.write.price * job.write.percent
        /\ job.op = "discount" =>
             \/ job.write.amount = row[job.book].price * job.write.percent
             \/ "price" \in late[w]

Amounts == {p * q : p \in Price, q \in Percent}

(* Amounts are those of some price and some discount. *)
AmountsKnown ==
  /\ \A b \in Book : Inserted(b) => row[b].amount \in Amounts
  /\ \A w \in Worker : Busy(w) /\ work[w].op # "remove" => work[w].write.amount \in Amounts

FilesInv ==
  /\ Prepared
  /\ StampsUsed
  /\ NewOwn
  /\ OneBook
  /\ Copied
  /\ Replaced
  /\ FilesThere
  /\ StraysNamed

AmountInv == AmountsFollow /\ AmountsKnown /\ AmountExact
-----------------------------------------------------------------------------
(***************************************************************************)
(* What handlers prepare.                                                  *)
(***************************************************************************)

LEMMA MoneyNat == \A p \in Price, q \in Percent : p \in Nat /\ q \in Nat
  BY MoneyAssumption

(* An edit names some of the fields, with values that a book may have. *)
LEMMA EditFields ==
  ASSUME NEW e \in Edit
  PROVE  /\ DOMAIN e.fields \subseteq {"title", "price", "percent"}
         /\ "title" \in DOMAIN e.fields => e.fields.title \in Title
         /\ "price" \in DOMAIN e.fields => e.fields.price \in Price
         /\ "percent" \in DOMAIN e.fields => e.fields.percent \in Percent
         /\ e.files \subseteq Kind
<1>1. PICK f \in FullForm : e.fields ++ f = f
  BY EditAssumption
<1>2. DOMAIN (e.fields ++ f) = DOMAIN e.fields \cup DOMAIN f
  BY DEF ++
<1>3. DOMAIN f = {"title", "price", "percent"}
  BY DEF FullForm
<1>4. \A x \in DOMAIN e.fields : e.fields[x] = f[x]
  <2>1. \A x \in DOMAIN e.fields : (e.fields ++ f)[x] = e.fields[x]
    BY DEF ++
  <2> QED
    BY <1>1, <2>1
<1> QED
  BY <1>1, <1>2, <1>3, <1>4, EditAssumption DEF FullForm

(* What ADD_BOOK will insert. *)
LEMMA AddWritten ==
  ASSUME TypeOK, NEW form \in Form, stamp + 1 \in 1..MaxStamp
  PROVE  LET x == WithAmount(Copies(Kind) ++ form)
         IN  /\ x \in Fields
             /\ x.amount = x.price * x.percent
             /\ \A k \in Kind : x[k] = <<k, stamp + 1>>
<1> DEFINE files == Copies(Kind)
           y == files ++ form
           x == WithAmount(y)
<1>1. DOMAIN files = Kind /\ \A k \in Kind : files[k] = <<k, stamp + 1>>
  BY DEF Copies
<1>2. form \in FullForm
  BY FormAssumption
<1> HIDE DEF files
<1>3. /\ DOMAIN y = {"title", "price", "percent", "pdf", "cover"}
      /\ y.title = form.title /\ y.price = form.price /\ y.percent = form.percent
      /\ \A k \in Kind : y[k] = <<k, stamp + 1>>
  BY <1>1, <1>2 DEF ++, FullForm, Kind
<1> HIDE DEF y
<1>4. /\ DOMAIN x = {"title", "price", "percent", "pdf", "cover", "amount"}
      /\ x.amount = y.price * y.percent
      /\ \A f \in DOMAIN y : x[f] = y[f]
      /\ x = [f \in DOMAIN x |-> x[f]]
  BY <1>3 DEF WithAmount, ++
<1> HIDE DEF x
<1>5. x.price \in Nat /\ x.percent \in Nat /\ x.amount = x.price * x.percent
  BY <1>2, <1>3, <1>4, MoneyNat DEF FullForm
<1>6. x.amount \in Int
  BY <1>5
<1>7. \A k \in Kind : x[k] = <<k, stamp + 1>> /\ x[k] \in File(k)
  <2>1. \A k \in Kind : x[k] = <<k, stamp + 1>>
    BY <1>3, <1>4 DEF Kind
  <2>2. \A k \in Kind : <<k, stamp + 1>> \in File(k)
    BY DEF File
  <2> QED
    BY <2>1, <2>2
<1>8. x \in Fields
  BY <1>2, <1>3, <1>4, <1>6, <1>7 DEF Fields, FullForm, Kind
<1> QED
  BY <1>5, <1>7, <1>8 DEF files, y, x

(* What UPDATE_BOOK will write: the fields and files sent, the rest as read. *)
LEMMA EditWritten ==
  ASSUME TypeOK, NEW b \in Book, NEW e \in Edit, Inserted(b),
         e.files # {} => stamp + 1 \in 1..MaxStamp
  PROVE  LET x == WithAmount(Copies(e.files) ++ e.fields ++ Details(b))
         IN  /\ x \in Fields
             /\ x.amount = x.price * x.percent
             /\ \A k \in e.files : x[k] = <<k, stamp + 1>>
             /\ \A f \in {"title", "price", "percent", "pdf", "cover"} :
                  f \notin DOMAIN e.fields \cup e.files => x[f] = row[b][f]
<1> DEFINE files == Copies(e.files)
           z == files ++ e.fields
           d == Details(b)
           y == z ++ d
           x == WithAmount(y)
           All == {"title", "price", "percent", "pdf", "cover"}
<1>1. DOMAIN files = e.files /\ \A k \in e.files : files[k] = <<k, stamp + 1>>
  BY DEF Copies
<1>2. row[b] \in Row
  BY DEF TypeOK, Inserted
<1>3. DOMAIN d = All /\ \A f \in All : d[f] = row[b][f]
  BY DEF Details
<1> HIDE DEF files, d
<1>4. /\ DOMAIN z = e.files \cup DOMAIN e.fields
      /\ \A k \in e.files : z[k] = <<k, stamp + 1>>
      /\ \A f \in DOMAIN e.fields : z[f] = e.fields[f]
  BY <1>1, EditFields DEF ++, Kind
<1> HIDE DEF z
<1>5. DOMAIN y = All /\ \A f \in All : y[f] = IF f \in DOMAIN z THEN z[f] ELSE row[b][f]
  BY <1>3, <1>4, EditFields DEF ++, Kind
<1> HIDE DEF y
<1>6. /\ DOMAIN x = All \cup {"amount"}
      /\ x.amount = y.price * y.percent
      /\ \A f \in All : x[f] = y[f]
      /\ x = [f \in DOMAIN x |-> x[f]]
  BY <1>5 DEF WithAmount, ++
<1> HIDE DEF x
<1>7. x.title \in Title /\ x.price \in Price /\ x.percent \in Percent
  BY <1>2, <1>4, <1>5, <1>6, EditFields DEF Row, Kind
<1>8. \A k \in e.files : x[k] = <<k, stamp + 1>>
  BY <1>4, <1>5, <1>6, EditFields DEF Kind
<1>9. \A f \in All : f \notin DOMAIN e.fields \cup e.files => x[f] = row[b][f]
  BY <1>4, <1>5, <1>6
<1>10. \A k \in Kind : x[k] \in File(k)
  <2> TAKE k \in Kind
  <2>1. CASE k \in e.files
    BY <1>8, <2>1 DEF File
  <2>2. CASE k \notin e.files
    BY <1>2, <1>9, <2>2, EditFields DEF Row, Kind
  <2> QED
    BY <2>1, <2>2
<1>11. x.amount = x.price * x.percent
  BY <1>6
<1>12. x.amount \in Int
  <2>1. x.price \in Nat /\ x.percent \in Nat
    BY <1>7, MoneyNat
  <2> QED
    BY <1>11, <2>1
<1>13. x \in Fields
  BY <1>6, <1>7, <1>10, <1>12 DEF Fields, Kind
<1> QED
  BY <1>8, <1>9, <1>11, <1>13 DEF files, z, d, y, x
(***************************************************************************)
(* Types.                                                                  *)
(***************************************************************************)

(* The copies of a request are files of their kinds, named by the next stamp. *)
LEMMA CopiesAreFiles ==
  ASSUME NEW kinds \in SUBSET Kind, TypeOK, kinds # {} => stamp + 1 \in 1..MaxStamp
  PROVE  /\ DOMAIN Copies(kinds) = kinds
         /\ \A k \in kinds : Copies(kinds)[k] = <<k, stamp + 1>>
         /\ Copies(kinds) \in NewFiles
         /\ FileSet(Copies(kinds)) = {<<k, stamp + 1>> : k \in kinds}
         /\ FileSet(Copies(kinds)) \subseteq AnyFile
<1>1. \A k \in kinds : <<k, stamp + 1>> \in AnyFile
  BY DEF AnyFile, File, Kind
<1>2. Copies(kinds) \in [kinds -> AnyFile]
  BY <1>1 DEF Copies
<1>3. FileSet(Copies(kinds)) = {<<k, stamp + 1>> : k \in kinds}
  BY DEF FileSet, Copies
<1> QED
  BY <1>1, <1>2, <1>3 DEF Copies, NewFiles

LEMMA FilesOfRow ==
  ASSUME TypeOK, NEW b \in Book, Inserted(b)
  PROVE  row[b] \in Row /\ FilesOf(b) \subseteq AnyFile
BY DEF TypeOK, Inserted, FilesOf, Row, AnyFile, Kind

LEMMA StartTypes ==
  ASSUME TypeOK, NEW w \in Worker, NEW job \in Job, Start(w, job)
  PROVE  TypeOK'
<1>1. job.new \in NewFiles
  BY DEF Job, WriteJob, DiscountJob, RemoveJob
<1>2. FileSet(job.new) \subseteq AnyFile
  BY <1>1 DEF NewFiles, FileSet
<1>3. stamp' \in 0..MaxStamp
  BY BoundAssumption DEF Start, TypeOK
<1> QED
  BY <1>2, <1>3 DEF Start, TypeOK, marks

(* The stamp of a handler that copies files is within the bound. *)
LEMMA StartStamp ==
  ASSUME TypeOK, NEW w \in Worker, NEW job, Start(w, job)
  PROVE  DOMAIN job.new # {} => stamp' = stamp + 1 /\ stamp + 1 \in 1..MaxStamp
BY BoundAssumption DEF TypeOK, Start

LEMMA AddJob ==
  ASSUME TypeOK, NEW w \in Worker, NEW form \in Form, BeginAdd(w, form)
  PROVE  LET job == [op |-> "add", book |-> NoRow, sent |-> <<>>, new |-> Copies(Kind),
                     old |-> {}, write |-> WithAmount(Copies(Kind) ++ form)]
         IN  Start(w, job) /\ job \in WriteJob /\ stamp + 1 \in 1..MaxStamp /\ stamp' = stamp + 1
<1> DEFINE job == [op |-> "add", book |-> NoRow, sent |-> <<>>, new |-> Copies(Kind),
                   old |-> {}, write |-> WithAmount(Copies(Kind) ++ form)]
<1>1. Start(w, job)
  BY DEF BeginAdd
<1>2. DOMAIN job.new = Kind
  BY DEF Copies
<1>3. stamp + 1 \in 1..MaxStamp /\ stamp' = stamp + 1
  BY <1>1, <1>2, StartStamp DEF Kind
<1>4. job.new \in NewFiles
  BY <1>3, CopiesAreFiles
<1>5. job.write \in Fields
  BY <1>3, AddWritten
<1> QED
  BY <1>1, <1>3, <1>4, <1>5 DEF WriteJob, Sent

LEMMA UpdateJob ==
  ASSUME TypeOK, NEW w \in Worker, NEW b \in Book, NEW e \in Edit, BeginUpdate(w, b, e)
  PROVE  LET job == [op |-> "update", book |-> b, sent |-> e.fields, new |-> Copies(e.files),
                     old |-> {row[b][k] : k \in e.files},
                     write |-> WithAmount(Copies(e.files) ++ e.fields ++ Details(b))]
         IN  /\ Start(w, job) /\ job \in WriteJob /\ Inserted(b)
             /\ e.files # {} => stamp + 1 \in 1..MaxStamp
<1> DEFINE job == [op |-> "update", book |-> b, sent |-> e.fields, new |-> Copies(e.files),
                   old |-> {row[b][k] : k \in e.files},
                   write |-> WithAmount(Copies(e.files) ++ e.fields ++ Details(b))]
<1>1. Start(w, job) /\ Inserted(b) /\ e.files \in SUBSET Kind
  BY EditAssumption DEF BeginUpdate
<1>2. DOMAIN job.new = e.files
  BY DEF Copies
<1>3. e.files # {} => stamp + 1 \in 1..MaxStamp
  BY <1>1, <1>2, StartStamp
<1>4. job.new \in NewFiles
  BY <1>1, <1>3, CopiesAreFiles
<1>5. job.write \in Fields
  BY <1>1, <1>3, EditWritten
<1>6. job.old \in SUBSET AnyFile
  BY <1>1, FilesOfRow DEF FilesOf
<1> QED
  BY <1>1, <1>3, <1>4, <1>5, <1>6 DEF WriteJob, Sent

LEMMA NoNewFiles == <<>> \in NewFiles /\ DOMAIN <<>> = {}
<1>1. <<>> \in [{} -> AnyFile]
  OBVIOUS
<1>2. {} \in SUBSET Kind
  OBVIOUS
<1> QED
  BY <1>1, <1>2 DEF NewFiles

LEMMA SetDiscountJob ==
  ASSUME TypeOK, NEW w \in Worker, NEW b \in Book, NEW q \in Percent, BeginDiscount(w, b, q)
  PROVE  LET job == [op |-> "discount", book |-> b, sent |-> [percent |-> q], new |-> <<>>,
                     old |-> {}, write |-> [percent |-> q, amount |-> row[b].price * q]]
         IN  /\ Start(w, job) /\ job \in DiscountJob /\ Offered(b)
<1> DEFINE job == [op |-> "discount", book |-> b, sent |-> [percent |-> q], new |-> <<>>,
                   old |-> {}, write |-> [percent |-> q, amount |-> row[b].price * q]]
<1>1. Start(w, job) /\ Offered(b)
  BY DEF BeginDiscount
<1>2. row[b].price \in Nat /\ q \in Nat
  BY <1>1, MoneyNat, FilesOfRow DEF Offered, Row
<1>3. row[b].price * q \in Int
  BY <1>2
<1> QED
  BY <1>1, <1>3, NoNewFiles DEF DiscountJob, Sent
(* What the handlers under way hold, by kind. *)
LEMMA JobFields ==
  ASSUME TypeOK, Prepared, NEW w \in Worker, Busy(w)
  PROVE  /\ work[w] \in Job
         /\ work[w].op \in {"add", "update", "discount", "remove"}
         /\ work[w].op \in {"add", "update"} => work[w] \in WriteJob
         /\ work[w].op = "discount" => work[w] \in DiscountJob
         /\ work[w].op = "remove" => work[w] \in RemoveJob
         /\ work[w].new \in NewFiles /\ work[w].old \subseteq AnyFile
         /\ DOMAIN work[w].new \subseteq Kind
         /\ work[w].op # "add" => work[w].book \in Book /\ Inserted(work[w].book)
         /\ work[w].op = "add" => work[w].book \notin Book
<1>1. work[w] \in Job
  BY DEF TypeOK, Busy
<1>2. /\ work[w].op \in {"add", "update", "discount", "remove"}
      /\ work[w].op \in {"add", "update"} => work[w] \in WriteJob
      /\ work[w].op = "discount" => work[w] \in DiscountJob
      /\ work[w].op = "remove" => work[w] \in RemoveJob
      /\ work[w].new \in NewFiles /\ work[w].old \subseteq AnyFile
  BY <1>1 DEF Job, WriteJob, DiscountJob, RemoveJob
<1>3. DOMAIN work[w].new \subseteq Kind
  BY <1>2 DEF NewFiles
<1> QED
  BY <1>1, <1>2, <1>3, NoneAssumption DEF Prepared

(* The row that ADD_BOOK inserts. *)
LEMMA InsertedRow ==
  ASSUME NEW x \in Fields
  PROVE  LET r == x ++ [active |-> TRUE, deleted |-> FALSE]
         IN  /\ r \in Row /\ r # NoRow
             /\ r.active = TRUE /\ r.deleted = FALSE
             /\ r.amount = x.amount /\ r.price = x.price /\ r.percent = x.percent
             /\ r.pdf = x.pdf /\ r.cover = x.cover
<1> DEFINE r == x ++ [active |-> TRUE, deleted |-> FALSE]
<1>1. /\ r \in Row
      /\ r.active = TRUE /\ r.deleted = FALSE
      /\ r.amount = x.amount /\ r.price = x.price /\ r.percent = x.percent
      /\ r.pdf = x.pdf /\ r.cover = x.cover
  BY DEF ++, Fields, Row
<1> QED
  BY <1>1, NoneAssumption

(* The row that an UPDATE leaves: every column from what was prepared, those *)
(* of offer and deletion as they are.                                        *)
LEMMA UpdatedRow ==
  ASSUME TypeOK, Prepared, NEW w \in Worker, Busy(w), work[w].op \in {"update", "discount"}
  PROVE  LET old == row[work[w].book]
             r == work[w].write ++ old
         IN  /\ r \in Row /\ r # NoRow
             /\ old \in Row
             /\ r.active = old.active /\ r.deleted = old.deleted
             /\ r.amount = work[w].write.amount
             /\ r.percent = work[w].write.percent
             /\ work[w].op = "update" =>
                  \A f \in {"title", "price", "percent", "amount", "pdf", "cover"} :
                    r[f] = work[w].write[f]
             /\ work[w].op = "discount" =>
                  \A f \in {"title", "price", "pdf", "cover"} : r[f] = old[f]
<1> DEFINE old == row[work[w].book]
           x == work[w].write
           r == x ++ old
           Claim == /\ r \in Row
                    /\ r.active = old.active /\ r.deleted = old.deleted
                    /\ r.amount = work[w].write.amount
                    /\ r.percent = work[w].write.percent
                    /\ work[w].op = "update" =>
                         \A f \in {"title", "price", "percent", "amount", "pdf", "cover"} :
                           r[f] = work[w].write[f]
                    /\ work[w].op = "discount" =>
                         \A f \in {"title", "price", "pdf", "cover"} : r[f] = old[f]
<1> SUFFICES Claim
  BY JobFields, FilesOfRow, NoneAssumption
<1>1. old \in Row
  BY JobFields, FilesOfRow
<1>2. ASSUME work[w].op = "update" PROVE Claim
  <2>1. x \in Fields
    BY <1>2, JobFields DEF WriteJob
  <2> HIDE DEF x, old
  <2>2. /\ r \in Row /\ r.active = old.active /\ r.deleted = old.deleted
        /\ \A f \in {"title", "price", "percent", "amount", "pdf", "cover"} : r[f] = x[f]
    BY <1>1, <2>1 DEF ++, Fields, Row
  <2> HIDE DEF r
  <2> QED
    BY <1>2, <2>2 DEF x
<1>3. ASSUME work[w].op = "discount" PROVE Claim
  <2>1. x \in [percent : Percent, amount : Int]
    BY <1>3, JobFields DEF DiscountJob
  <2> HIDE DEF x, old
  <2>2. /\ r \in Row /\ r.active = old.active /\ r.deleted = old.deleted
        /\ r.percent = x.percent /\ r.amount = x.amount
        /\ \A f \in {"title", "price", "pdf", "cover"} : r[f] = old[f]
    BY <1>1, <2>1 DEF ++, Row
  <2> HIDE DEF r
  <2> QED
    BY <1>3, <2>2 DEF x
<1> QED
  BY <1>2, <1>3
LEMMA NextTypes == TypeOK /\ Prepared /\ [Next]_vars => TypeOK'
<1> SUFFICES ASSUME TypeOK, Prepared, [Next]_vars PROVE TypeOK'
  OBVIOUS
<1> USE DEF TypeOK
<1>1. ASSUME NEW w \in Worker, NEW form \in Form, BeginAdd(w, form) PROVE TypeOK'
  BY <1>1, AddJob, StartTypes DEF Job
<1>2. ASSUME NEW w \in Worker, NEW b \in Book, NEW e \in Edit, BeginUpdate(w, b, e)
      PROVE  TypeOK'
  BY <1>2, UpdateJob, StartTypes DEF Job
<1>3. ASSUME NEW w \in Worker, NEW b \in Book, NEW q \in Percent, BeginDiscount(w, b, q)
      PROVE  TypeOK'
  BY <1>3, SetDiscountJob, StartTypes DEF Job
<1>4. ASSUME NEW w \in Worker, NEW b \in Book, Insert(w, b) PROVE TypeOK'
  <2> DEFINE r == work[w].write ++ [active |-> TRUE, deleted |-> FALSE]
  <2>1. r \in Row
    BY <1>4, JobFields, InsertedRow DEF Insert, Busy, WriteJob
  <2> HIDE DEF r
  <2>2. row' = [row EXCEPT ![b] = r] /\ Stop(w) /\ UNCHANGED <<disk, stamp, marks, crashes>>
    BY <1>4 DEF Insert, r
  <2> QED
    BY <2>1, <2>2 DEF Stop, marks
<1>5. ASSUME NEW w \in Worker, Update(w) PROVE TypeOK'
  <2> DEFINE b == work[w].book
             r == work[w].write ++ row[b]
             rest == [op |-> "remove", book |-> b, new |-> <<>>, old |-> work[w].old]
  <2>1. Busy(w) /\ work[w].op \in {"update", "discount"}
    BY <1>5 DEF Update, Busy
  <2>2. b \in Book /\ row[b] \in Row /\ r \in Row /\ work[w] \in Job
    BY <2>1, JobFields, UpdatedRow
  <2>3. rest \in RemoveJob
    BY <2>1, <2>2, NoNewFiles, JobFields DEF RemoveJob
  <2>4. work[w].new \in NewFiles /\ FilesOf(b) \subseteq AnyFile
    BY <2>1, JobFields, FilesOfRow
  <2>5. FileSet(work[w].new) \subseteq AnyFile
    BY <2>4 DEF NewFiles, FileSet
  <2>6. work' \in [Worker -> Job \cup {NoWork}]
    BY <1>5, <2>3 DEF Update, Job
  <2>7. UNCHANGED <<disk, stamp, crashes>>
    BY <1>5 DEF Update
  <2>8. CASE row[b].deleted
    <3>1. MarkDeleted(w, b) /\ UNCHANGED row /\ late' = [late EXCEPT ![w] = {}]
      BY <1>5, <2>8 DEF Update
    <3> QED
      BY <2>2, <2>5, <2>6, <2>7, <3>1 DEF MarkDeleted
  <2>9. CASE ~row[b].deleted
    <3>1. row' = [row EXCEPT ![b] = r] /\ MarkLate(w, b) /\ Overtake(w, b)
      BY <1>5, <2>9 DEF Update
    <3>2. row' \in [Book -> Row \cup {NoRow}]
      BY <2>2, <3>1
    <3>3. torn' \in SUBSET Book /\ skewed' \in SUBSET Book
      BY <2>2, <3>1 DEF MarkLate
    <3>4. leftovers' \in SUBSET AnyFile
      BY <2>4, <3>1 DEF MarkLate, FilesOf
    <3>5. late' \in [Worker -> SUBSET {"title", "price", "percent", "amount", "pdf", "cover"}]
      <4> DEFINE All == {"title", "price", "percent", "amount", "pdf", "cover"}
                 changed == {f \in DOMAIN row[b] : row'[b][f] # row[b][f]}
      <4>1. DOMAIN row[b] = All \cup {"active", "deleted"}
        BY <2>2 DEF Row
      <4>2. row'[b] = r /\ r.active = row[b].active /\ r.deleted = row[b].deleted
        BY <2>1, <2>2, <3>1, UpdatedRow
      <4>3. changed \subseteq All
        BY <4>1, <4>2
      <4> HIDE DEF changed
      <4>4. late' = [v \in Worker |->
                      CASE v = w -> {}
                        [] v # w /\ work[v] # NoWork /\ work[v].book = b -> late[v] \cup changed
                        [] OTHER -> late[v]]
        BY <3>1 DEF Overtake, changed
      <4>5. \A v \in Worker : late'[v] \in SUBSET All
        BY <4>3, <4>4
      <4> QED
        BY <4>4, <4>5
    <3> QED
      BY <2>6, <2>7, <3>2, <3>3, <3>4, <3>5
  <2> QED
    BY <2>8, <2>9
<1>6. ASSUME NEW w \in Worker, WriteFails(w) PROVE TypeOK'
  BY <1>6 DEF WriteFails, Stop, marks
<1>7. ASSUME NEW w \in Worker, RemoveOld(w) PROVE TypeOK'
  BY <1>7 DEF RemoveOld, Stop, marks
<1>8. ASSUME NEW b \in Book, NEW on \in BOOLEAN, SetBookActiveState(b, on) PROVE TypeOK'
  <2>1. row[b] \in Row
    BY <1>8, FilesOfRow DEF SetBookActiveState, Offered
  <2>2. [row[b] EXCEPT !.active = on] \in Row
    BY <2>1 DEF Row
  <2> QED
    BY <1>8, <2>2 DEF SetBookActiveState, marks
<1>9. ASSUME NEW b \in Book, DeleteBook(b) PROVE TypeOK'
  <2>1. row[b] \in Row
    BY <1>9, FilesOfRow DEF DeleteBook
  <2>2. [row[b] EXCEPT !.active = FALSE, !.deleted = TRUE] \in Row
    BY <2>1 DEF Row
  <2>3. row' = [row EXCEPT ![b] = [row[b] EXCEPT !.active = FALSE, !.deleted = TRUE]]
    BY <1>9 DEF DeleteBook
  <2> QED
    BY <1>9, <2>2, <2>3 DEF DeleteBook, marks
<1>10. CASE Crash
  <2>1. \A w \in Worker : work[w] # NoWork =>
          /\ work[w].old \subseteq AnyFile
          /\ FileSet(work[w].new) \subseteq AnyFile
    BY JobFields DEF Busy, NewFiles, FileSet
  <2>2. leftovers' \in SUBSET AnyFile
    BY <1>10, <2>1 DEF Crash
  <2> QED
    BY <1>10, <2>2, BoundAssumption DEF Crash
<1>11. CASE UNCHANGED vars
  BY <1>11 DEF vars, marks
<1> QED
  BY <1>1, <1>2, <1>3, <1>4, <1>5, <1>6, <1>7, <1>8, <1>9, <1>10, <1>11 DEF Next, Handler
(***************************************************************************)
(* What the last steps do to rows and files.                               *)
(***************************************************************************)

(* A handler whose record stays holds the same files. *)
LEMMA Elsewhere ==
  ASSUME NEW v \in Worker, work'[v] = work[v]
  PROVE  /\ Busy(v)' <=> Busy(v)
         /\ New(v)' = New(v)
         /\ Held(v)' = Held(v)
BY DEF Busy, New, Held, WrittenBack

LEMMA RowElsewhere ==
  ASSUME NEW b \in Book, row'[b] = row[b]
  PROVE  (Inserted(b)' <=> Inserted(b)) /\ FilesOf(b)' = FilesOf(b)
BY DEF Inserted, FilesOf

(* INSERT: the files of the row are the copies of the handler. *)
LEMMA InsertStep ==
  ASSUME TypeOK, Prepared, NEW w \in Worker, NEW b \in Book, Insert(w, b)
  PROVE  /\ Busy(w) /\ work[w].op = "add" /\ ~Inserted(b)
         /\ Inserted(b)' /\ FilesOf(b)' = New(w)
         /\ row'[b].active = TRUE /\ row'[b].deleted = FALSE
         /\ row'[b].amount = work[w].write.amount
         /\ row'[b].price = work[w].write.price
         /\ row'[b].percent = work[w].write.percent
         /\ \A c \in Book \ {b} : row'[c] = row[c]
         /\ work'[w] = NoWork /\ \A v \in Worker \ {w} : work'[v] = work[v]
         /\ late'[w] = {} /\ \A v \in Worker \ {w} : late'[v] = late[v]
         /\ UNCHANGED <<disk, stamp, torn, skewed, leftovers, crashes>>
<1> DEFINE r == work[w].write ++ [active |-> TRUE, deleted |-> FALSE]
<1>1. Busy(w) /\ work[w].op = "add" /\ ~Inserted(b)
  BY DEF Insert, Busy
<1>2. work[w] \in WriteJob
  BY <1>1, JobFields
<1>3. /\ r # NoRow /\ r.active = TRUE /\ r.deleted = FALSE
      /\ r.amount = work[w].write.amount /\ r.price = work[w].write.price
      /\ r.percent = work[w].write.percent
      /\ r.pdf = work[w].write.pdf /\ r.cover = work[w].write.cover
  BY <1>2, InsertedRow DEF WriteJob
<1> HIDE DEF r
<1>4. row' = [row EXCEPT ![b] = r]
  BY DEF Insert, r
<1>5. row'[b] = r /\ \A c \in Book \ {b} : row'[c] = row[c]
  BY <1>4 DEF TypeOK
<1>6. FilesOf(b)' = {work[w].write[k] : k \in Kind}
  BY <1>3, <1>5 DEF FilesOf, Kind
<1>7. New(w) = {work[w].write[k] : k \in Kind}
  <2>1. DOMAIN work[w].new = Kind /\ \A k \in Kind : work[w].new[k] = work[w].write[k]
    BY <1>1 DEF Prepared
  <2> QED
    BY <1>1, <2>1 DEF New, FileSet
<1>8. work'[w] = NoWork /\ \A v \in Worker \ {w} : work'[v] = work[v]
  BY DEF Insert, Stop, TypeOK
<1>9. late'[w] = {} /\ \A v \in Worker \ {w} : late'[v] = late[v]
  BY DEF Insert, Stop, TypeOK
<1>10. UNCHANGED <<disk, stamp, torn, skewed, leftovers, crashes>>
  BY DEF Insert, marks
<1> QED
  BY <1>1, <1>3, <1>5, <1>6, <1>7, <1>8, <1>9, <1>10 DEF Inserted

(* UPDATE: what becomes of the handler and of the files it has read. *)
LEMMA UpdateStep ==
  ASSUME TypeOK, Prepared, NEW w \in Worker, Update(w)
  PROVE  /\ Busy(w) /\ work[w].op \in {"update", "discount"}
         /\ work[w].book \in Book /\ Inserted(work[w].book)
         /\ \A v \in Worker \ {w} : work'[v] = work[v]
         /\ work[w].old = {} => work'[w] = NoWork
         /\ work[w].old # {} =>
              work'[w] = [op |-> "remove", book |-> work[w].book, new |-> <<>>, old |-> work[w].old]
         /\ New(w)' = {} /\ (Busy(w)' => Held(w)' = work[w].old)
         /\ (Busy(w)' => work'[w].op = "remove" /\ work'[w].book = work[w].book)
         /\ late'[w] = {}
         /\ \A c \in Book \ {work[w].book} : row'[c] = row[c]
         /\ UNCHANGED <<disk, stamp, crashes>>
<1> DEFINE b == work[w].book
           rest == [op |-> "remove", book |-> b, new |-> <<>>, old |-> work[w].old]
<1>1. Busy(w) /\ work[w].op \in {"update", "discount"}
  BY DEF Update, Busy
<1>2. b \in Book /\ Inserted(b)
  BY <1>1, JobFields
<1>3. work' = [work EXCEPT ![w] = IF work[w].old = {} THEN NoWork ELSE rest]
  BY DEF Update
<1>4. rest # NoWork
  <2>1. rest \in Job
    BY <1>1, <1>2, NoNewFiles, JobFields DEF RemoveJob, Job
  <2> QED
    BY <2>1, NoneAssumption
<1>5. \A v \in Worker \ {w} : work'[v] = work[v]
  BY <1>3 DEF TypeOK
<1>6. work'[w] = IF work[w].old = {} THEN NoWork ELSE rest
  BY <1>3 DEF TypeOK
<1>7. New(w)' = {} /\ (Busy(w)' => Held(w)' = work[w].old)
  BY <1>4, <1>6 DEF New, Busy, Held, FileSet
<1>8. Busy(w)' => work'[w].op = "remove" /\ work'[w].book = work[w].book
  BY <1>6 DEF Busy
<1>9. late'[w] = {}
  BY DEF Update, Overtake, TypeOK
<1>10. \A c \in Book \ {b} : row'[c] = row[c]
  BY DEF Update, TypeOK
<1>11. UNCHANGED <<disk, stamp, crashes>>
  BY DEF Update
<1> QED
  BY <1>1, <1>2, <1>5, <1>6, <1>7, <1>8, <1>9, <1>10, <1>11

(* UPDATE of a book that is not deleted: the row and the marks. *)
LEMMA UpdateWrites ==
  ASSUME TypeOK, Prepared, NEW w \in Worker, Update(w),
         NEW b \in Book, b = work[w].book, ~row[b].deleted
  PROVE  /\ row'[b] = work[w].write ++ row[b]
         /\ row'[b] \in Row /\ Inserted(b)' /\ row[b] \in Row
         /\ MarkLate(w, b)
         /\ Overtake(w, b)
         /\ work[w].op = "update" =>
              /\ \A k \in DOMAIN work[w].new : row'[b][k] = work[w].new[k]
              /\ \A k \in Kind \ DOMAIN work[w].new : row'[b][k] = work[w].write[k]
         /\ work[w].op = "discount" =>
              /\ \A k \in Kind : row'[b][k] = row[b][k]
              /\ New(w) = {}
<1> DEFINE r == work[w].write ++ row[b]
<1>1. /\ Busy(w) /\ work[w].op \in {"update", "discount"}
      /\ b \in Book /\ Inserted(b)
  BY UpdateStep
<1>2. r \in Row /\ r # NoRow /\ row[b] \in Row
  BY <1>1, UpdatedRow
<1>3. row' = [row EXCEPT ![b] = r] /\ MarkLate(w, b) /\ Overtake(w, b)
  BY DEF Update
<1>4. row'[b] = r
  BY <1>1, <1>3 DEF TypeOK
<1>5. work[w].op = "update" => \A k \in Kind : r[k] = work[w].write[k]
  BY <1>1, UpdatedRow DEF Kind
<1>6. work[w].op = "discount" => \A k \in Kind : r[k] = row[b][k]
  BY <1>1, UpdatedRow DEF Kind
<1>7. work[w].op = "update" =>
        /\ DOMAIN work[w].new \subseteq Kind
        /\ \A k \in DOMAIN work[w].new : work[w].new[k] = work[w].write[k]
  BY <1>1, JobFields DEF Prepared
<1>8. work[w].op = "discount" => New(w) = {}
  BY <1>1 DEF Prepared, New, FileSet
<1> HIDE DEF r
<1>9. work[w].op = "update" =>
        /\ \A k \in DOMAIN work[w].new : row'[b][k] = work[w].new[k]
        /\ \A k \in Kind \ DOMAIN work[w].new : row'[b][k] = work[w].write[k]
  BY <1>4, <1>5, <1>7
<1>10. work[w].op = "discount" => \A k \in Kind : row'[b][k] = row[b][k]
  BY <1>4, <1>6
<1>11. row'[b] \in Row /\ Inserted(b)' /\ row[b] \in Row
  BY <1>2, <1>4 DEF Inserted
<1>12. row'[b] = work[w].write ++ row[b]
  BY <1>4 DEF r
<1> QED
  BY <1>3, <1>8, <1>9, <1>10, <1>11, <1>12

(* UPDATE of a deleted book changes no row. *)
LEMMA UpdateDeleted ==
  ASSUME TypeOK, Prepared, NEW w \in Worker, Update(w),
         NEW b \in Book, b = work[w].book, row[b].deleted
  PROVE  /\ UNCHANGED <<row, skewed>>
         /\ torn' = IF work[w].op = "update" THEN torn \cup {b} ELSE torn
         /\ leftovers' = leftovers \cup FileSet(work[w].new)
         /\ \A v \in Worker \ {w} : late'[v] = late[v]
BY DEF Update, MarkDeleted, TypeOK
(* The other steps. *)
LEMMA StartStep ==
  ASSUME TypeOK, NEW w \in Worker, NEW job \in Job, Start(w, job)
  PROVE  /\ ~Busy(w) /\ Busy(w)' /\ work'[w] = job
         /\ \A v \in Worker \ {w} : work'[v] = work[v]
         /\ New(w) = {} /\ New(w)' = FileSet(job.new)
         /\ disk' = disk \cup New(w)'
         /\ UNCHANGED <<row, late, torn, skewed, leftovers, crashes>>
         /\ stamp \in Nat /\ stamp' \in Nat /\ stamp <= stamp'
<1>1. /\ ~Busy(w) /\ Busy(w)' /\ work'[w] = job
      /\ \A v \in Worker \ {w} : work'[v] = work[v]
  BY NoneAssumption DEF Start, TypeOK, Busy
<1>2. New(w) = {} /\ New(w)' = FileSet(job.new)
  BY <1>1 DEF New, Busy, FileSet
<1>3. disk' = disk \cup FileSet(job.new) /\ UNCHANGED <<row, late, marks, crashes>>
  BY DEF Start
<1>4. stamp \in Nat /\ stamp' \in Nat /\ stamp <= stamp'
  BY BoundAssumption DEF Start, TypeOK
<1> QED
  BY <1>1, <1>2, <1>3, <1>4 DEF marks

LEMMA StopStep ==
  ASSUME TypeOK, NEW w \in Worker, Stop(w)
  PROVE  /\ ~Busy(w)' /\ New(w)' = {}
         /\ \A v \in Worker \ {w} : work'[v] = work[v]
         /\ late'[w] = {} /\ \A v \in Worker \ {w} : late'[v] = late[v]
BY DEF Stop, TypeOK, New, Busy

LEMMA SwitchStep ==
  ASSUME TypeOK, NEW b \in Book,
         DeleteBook(b) \/ \E on \in BOOLEAN : SetBookActiveState(b, on)
  PROVE  /\ UNCHANGED <<disk, stamp, work, late, torn, skewed, leftovers, crashes>>
         /\ \A c \in Book : Inserted(c)' <=> Inserted(c)
         /\ \A c \in Book : FilesOf(c)' = FilesOf(c)
         /\ \A c \in Book : Inserted(c) =>
              /\ row'[c] = [row[c] EXCEPT !.active = row'[c].active, !.deleted = row'[c].deleted]
              /\ \A f \in {"title", "price", "percent", "amount", "pdf", "cover"} :
                   row'[c][f] = row[c][f]
<1>1. Inserted(b) /\ UNCHANGED <<disk, stamp, work, late, torn, skewed, leftovers, crashes>>
  BY DEF DeleteBook, SetBookActiveState, Offered, marks
<1>2. row[b] \in Row
  BY <1>1, FilesOfRow
<1>3. PICK on \in BOOLEAN, gone \in BOOLEAN :
        row' = [row EXCEPT ![b] = [row[b] EXCEPT !.active = on, !.deleted = gone]]
  <2>1. CASE DeleteBook(b)
    BY <2>1 DEF DeleteBook
  <2>2. ASSUME NEW x \in BOOLEAN, SetBookActiveState(b, x)
        PROVE  row' = [row EXCEPT ![b] = [row[b] EXCEPT !.active = x, !.deleted = row[b].deleted]]
    <3>1. [row[b] EXCEPT !.active = x, !.deleted = row[b].deleted] = [row[b] EXCEPT !.active = x]
      BY <1>2 DEF Row
    <3> QED
      BY <2>2, <3>1 DEF SetBookActiveState
  <2>3. row[b].deleted \in BOOLEAN
    BY <1>2 DEF Row
  <2> QED
    BY <2>1, <2>2, <2>3
<1> DEFINE r == [row[b] EXCEPT !.active = on, !.deleted = gone]
<1>4. /\ r \in Row /\ r = [row[b] EXCEPT !.active = r.active, !.deleted = r.deleted]
      /\ \A f \in {"title", "price", "percent", "amount", "pdf", "cover"} : r[f] = row[b][f]
  BY <1>2 DEF Row
<1>5. r # NoRow
  BY <1>4, NoneAssumption
<1> HIDE DEF r
<1>6. row'[b] = r /\ \A c \in Book \ {b} : row'[c] = row[c]
  BY <1>3 DEF TypeOK, r
<1>7. \A c \in Book : Inserted(c)' <=> Inserted(c)
  BY <1>1, <1>5, <1>6 DEF Inserted
<1>8. \A c \in Book : FilesOf(c)' = FilesOf(c)
  BY <1>4, <1>6 DEF FilesOf, Kind
<1>9. \A c \in Book \ {b} : Inserted(c) =>
        row'[c] = [row[c] EXCEPT !.active = row'[c].active, !.deleted = row'[c].deleted]
  BY <1>6, FilesOfRow DEF Row
<1> QED
  BY <1>1, <1>4, <1>6, <1>7, <1>8, <1>9

LEMMA CrashStep ==
  ASSUME TypeOK, Crash
  PROVE  /\ \A w \in Worker : ~Busy(w)' /\ New(w)' = {}
         /\ \A w \in Worker : Busy(w) =>
              IF work[w].op = "remove" THEN work[w].old \subseteq leftovers'
                                       ELSE New(w) \subseteq leftovers'
         /\ leftovers \subseteq leftovers'
         /\ UNCHANGED <<row, disk, stamp, torn, skewed>>
BY DEF Crash, Busy, New

(***************************************************************************)
(* Whose a file becomes.                                                   *)
(***************************************************************************)

(* Of a step: nobody gets a file it had not, but a book gets the copies of *)
(* the handler that writes its row, which gives them up.                   *)
Kept == \A f : \A b \in Book : Of(f, b)' => Of(f, b)
Given(w, b) ==
  /\ New(w)' = {}
  /\ \A f : \A c \in Book : Of(f, c)' => Of(f, c) \/ (c = b /\ f \in New(w))

LEMMA StartKeeps ==
  ASSUME TypeOK, NEW w \in Worker, NEW job \in Job, Start(w, job),
         job.book \in Book => \A f \in Held(w)' : Of(f, job.book)
  PROVE  Kept
<1>1. SUFFICES ASSUME NEW f, NEW b \in Book, Of(f, b)' PROVE Of(f, b)
  BY DEF Kept
<1>2. CASE Inserted(b)' /\ f \in FilesOf(b)'
  BY <1>2, RowElsewhere, StartStep DEF Of
<1>3. ASSUME NEW v \in Worker, Busy(v)', work'[v].book = b, f \in Held(v)'
      PROVE  Of(f, b)
  <2>1. CASE v = w
    BY <1>3, <2>1, StartStep
  <2>2. CASE v # w
    BY <1>3, <2>2, Elsewhere, StartStep DEF Of
  <2> QED
    BY <2>1, <2>2
<1> QED
  BY <1>1, <1>2, <1>3 DEF Of

(* The first step of a handler: its copies have names never used. *)
Fresh(w) ==
  /\ Kept
  /\ New(w) = {} /\ \A v \in Worker \ {w} : New(v)' = New(v)
  /\ disk' = disk \cup New(w)'
  /\ \A f \in New(w)' : f \in AnyFile /\ f[2] = stamp + 1 /\ stamp' = stamp + 1

LEMMA CopiesFresh ==
  ASSUME TypeOK, NEW w \in Worker, NEW job \in Job, Start(w, job), Kept,
         NEW kinds \in SUBSET Kind, job.new = Copies(kinds)
  PROVE  Fresh(w)
<1>1. kinds # {} => stamp + 1 \in 1..MaxStamp /\ stamp' = stamp + 1
  BY StartStamp DEF Copies
<1>2. FileSet(Copies(kinds)) = {<<k, stamp + 1>> : k \in kinds}
      /\ FileSet(Copies(kinds)) \subseteq AnyFile
  BY <1>1, CopiesAreFiles
<1>3. New(w)' = {<<k, stamp + 1>> : k \in kinds}
  BY <1>2, StartStep
<1>4. \A f \in New(w)' : f \in AnyFile /\ f[2] = stamp + 1 /\ stamp' = stamp + 1
  BY <1>1, <1>2, <1>3
<1>5. \A v \in Worker \ {w} : New(v)' = New(v)
  BY StartStep, Elsewhere
<1> QED
  BY <1>4, <1>5, StartStep DEF Fresh

LEMMA BeginStep ==
  ASSUME TypeOK, NEW w \in Worker,
         \/ \E form \in Form : BeginAdd(w, form)
         \/ \E b \in Book, e \in Edit : BeginUpdate(w, b, e)
         \/ \E b \in Book, q \in Percent : BeginDiscount(w, b, q)
  PROVE  Fresh(w)
<1>1. ASSUME NEW form \in Form, BeginAdd(w, form) PROVE Fresh(w)
  <2> DEFINE job == [op |-> "add", book |-> NoRow, sent |-> <<>>, new |-> Copies(Kind),
                     old |-> {}, write |-> WithAmount(Copies(Kind) ++ form)]
  <2>1. Start(w, job) /\ job \in Job /\ job.book \notin Book /\ job.new = Copies(Kind)
    BY <1>1, AddJob, NoneAssumption DEF Job
  <2> HIDE DEF job
  <2> QED
    BY <2>1, StartKeeps, CopiesFresh
<1>2. ASSUME NEW b \in Book, NEW e \in Edit, BeginUpdate(w, b, e) PROVE Fresh(w)
  <2> DEFINE job == [op |-> "update", book |-> b, sent |-> e.fields, new |-> Copies(e.files),
                     old |-> {row[b][k] : k \in e.files},
                     write |-> WithAmount(Copies(e.files) ++ e.fields ++ Details(b))]
  <2>1. /\ Start(w, job) /\ job \in Job /\ Inserted(b) /\ e.files \in SUBSET Kind
        /\ e.files # {} => stamp + 1 \in 1..MaxStamp
        /\ job.book = b /\ job.new = Copies(e.files)
    BY <1>2, UpdateJob, EditAssumption DEF Job
  <2>2. DOMAIN job.new = e.files
    BY DEF Copies
  <2>3. \A k \in Kind \ e.files : job.write[k] = row[b][k]
    BY <2>1, EditWritten, EditFields DEF Kind
  <2>4. work'[w] = job
    BY <2>1, StartStep
  <2>5. \A f \in Held(w)' : f \in FilesOf(b)
    <3>1. work'[w].op = "update" /\ work'[w].old = {row[b][k] : k \in e.files}
      BY <2>4
    <3>2. {work'[w].write[k] : k \in Kind \ DOMAIN work'[w].new}
            = {row[b][k] : k \in Kind \ e.files}
      BY <2>2, <2>3, <2>4
    <3> HIDE DEF job
    <3> QED
      BY <2>1, <3>1, <3>2 DEF Held, WrittenBack, FilesOf
  <2> HIDE DEF job
  <2>6. Kept
    BY <2>1, <2>5, StartKeeps DEF Of
  <2> QED
    BY <2>1, <2>6, CopiesFresh
<1>3. ASSUME NEW b \in Book, NEW q \in Percent, BeginDiscount(w, b, q) PROVE Fresh(w)
  <2> DEFINE job == [op |-> "discount", book |-> b, sent |-> [percent |-> q], new |-> <<>>,
                     old |-> {}, write |-> [percent |-> q, amount |-> row[b].price * q]]
  <2>1. Start(w, job) /\ job \in Job
    BY <1>3, SetDiscountJob DEF Job
  <2>2. work'[w] = job
    BY <2>1, StartStep
  <2>3. Held(w)' = {}
    BY <2>2 DEF Held
  <2>4. New(w)' = {}
    BY <2>1, StartStep, NoNewFiles DEF FileSet
  <2> HIDE DEF job
  <2>5. \A v \in Worker \ {w} : New(v)' = New(v)
    BY <2>1, StartStep, Elsewhere
  <2> QED
    BY <2>1, <2>3, <2>4, <2>5, StartKeeps, StartStep DEF Fresh
<1> QED
  BY <1>1, <1>2, <1>3

LEMMA OfStep ==
  ASSUME TypeOK, Prepared, [Next]_vars
  PROVE  Kept \/ \E w \in Worker, b \in Book : Given(w, b)
<1>1. ASSUME NEW w \in Worker, Fresh(w) PROVE Kept
  BY <1>1 DEF Fresh
<1>4. ASSUME NEW w \in Worker, NEW b \in Book, Insert(w, b) PROVE Given(w, b)
  <2>1. New(w)' = {}
    BY <1>4, InsertStep DEF New, Busy
  <2>2. SUFFICES ASSUME NEW f, NEW c \in Book, Of(f, c)'
                 PROVE  Of(f, c) \/ (c = b /\ f \in New(w))
    BY <2>1 DEF Given
  <2>3. CASE Inserted(c)' /\ f \in FilesOf(c)'
    <3>1. CASE c = b
      BY <1>4, <2>3, <3>1, InsertStep
    <3>2. CASE c # b
      BY <1>4, <2>3, <3>2, InsertStep, RowElsewhere DEF Of
    <3> QED
      BY <3>1, <3>2
  <2>4. ASSUME NEW v \in Worker, Busy(v)', work'[v].book = c, f \in Held(v)'
        PROVE  Of(f, c)
    <3>1. v # w /\ work'[v] = work[v]
      BY <1>4, <2>4, InsertStep DEF Busy
    <3> QED
      BY <2>4, <3>1, Elsewhere DEF Of
  <2> QED
    BY <2>2, <2>3, <2>4 DEF Of
<1>5. ASSUME NEW w \in Worker, Update(w) PROVE \E b \in Book : Given(w, b)
  <2>1. PICK b \in Book : b = work[w].book
    BY <1>5, UpdateStep
  <2>2. SUFFICES ASSUME NEW f, NEW c \in Book, Of(f, c)'
                 PROVE  Of(f, c) \/ (c = b /\ f \in New(w))
    BY <1>5, UpdateStep DEF Given
  <2>3. CASE Inserted(c)' /\ f \in FilesOf(c)'
    <3>1. CASE row'[c] = row[c]
      BY <2>3, <3>1, RowElsewhere DEF Of
    <3>2. CASE row'[c] # row[c]
      <4>1. c = b /\ ~row[b].deleted
        BY <1>5, <2>1, <3>2, UpdateStep, UpdateDeleted
      <4>2. PICK k \in Kind : f = row'[c][k]
        BY <2>3 DEF FilesOf
      <4>3. CASE work[w].op = "update"
        <5>1. CASE k \in DOMAIN work[w].new
          <6>1. f = work[w].new[k]
            BY <1>5, <2>1, <4>1, <4>2, <4>3, <5>1, UpdateWrites
          <6> QED
            BY <1>5, <4>1, <5>1, <6>1, UpdateStep DEF New, FileSet
        <5>2. CASE k \notin DOMAIN work[w].new
          <6>1. f = work[w].write[k]
            BY <1>5, <2>1, <4>1, <4>2, <4>3, <5>2, UpdateWrites
          <6>2. f \in Held(w)
            BY <4>3, <5>2, <6>1 DEF Held, WrittenBack
          <6> QED
            BY <1>5, <2>1, <4>1, <6>2, UpdateStep DEF Of
        <5> QED
          BY <5>1, <5>2
      <4>4. CASE work[w].op = "discount"
        <5>1. f = row[b][k]
          BY <1>5, <2>1, <4>1, <4>2, <4>4, UpdateWrites
        <5> QED
          BY <1>5, <2>1, <4>1, <5>1, UpdateStep DEF Of, FilesOf
      <4> QED
        BY <1>5, <4>3, <4>4, UpdateStep
    <3> QED
      BY <3>1, <3>2
  <2>4. ASSUME NEW v \in Worker, Busy(v)', work'[v].book = c, f \in Held(v)'
        PROVE  Of(f, c)
    <3>1. CASE v = w
      BY <1>5, <2>4, <3>1, UpdateStep DEF Of, Held
    <3>2. CASE v # w
      BY <1>5, <2>4, <3>2, UpdateStep, Elsewhere DEF Of
    <3> QED
      BY <3>1, <3>2
  <2> QED
    BY <2>2, <2>3, <2>4 DEF Of
<1>6. ASSUME NEW w \in Worker, Stop(w), UNCHANGED row PROVE Kept
  BY <1>6, StopStep, Elsewhere, RowElsewhere DEF Kept, Of
<1>7. ASSUME NEW b \in Book, DeleteBook(b) \/ \E on \in BOOLEAN : SetBookActiveState(b, on)
      PROVE  Kept
  BY <1>7, SwitchStep, Elsewhere DEF Kept, Of
<1>8. CASE Crash
  BY <1>8, CrashStep, RowElsewhere DEF Kept, Of
<1>9. CASE UNCHANGED vars
  BY <1>9, Elsewhere, RowElsewhere DEF Kept, Of, vars
<1> QED
  BY <1>1, <1>4, <1>5, <1>6, <1>7, <1>8, <1>9, BeginStep
     DEF Next, Handler, WriteFails, RemoveOld

(* Of files in storage and copies: none comes but by a first step. *)
NoFresh == disk' \subseteq disk /\ \A w \in Worker : New(w)' \subseteq New(w)

LEMMA NewStep ==
  ASSUME TypeOK, Prepared, [Next]_vars
  PROVE  /\ stamp \in Nat /\ stamp' \in Nat /\ stamp <= stamp'
         /\ NoFresh \/ \E w \in Worker : Fresh(w)
<1> DEFINE Goal == /\ stamp \in Nat /\ stamp' \in Nat /\ stamp <= stamp'
                   /\ NoFresh \/ \E w \in Worker : Fresh(w)
<1>1. stamp \in Nat
  BY BoundAssumption DEF TypeOK
<1>2. ASSUME NEW w \in Worker, NEW job, Start(w, job), Fresh(w) PROVE Goal
  BY <1>1, <1>2 DEF Start
<1>3. ASSUME NEW w \in Worker, NEW b \in Book, Insert(w, b) PROVE Goal
  <2>1. New(w)' = {} /\ UNCHANGED <<disk, stamp>>
    BY <1>3, InsertStep DEF New, Busy
  <2>2. \A v \in Worker \ {w} : New(v)' = New(v)
    BY <1>3, InsertStep, Elsewhere
  <2> QED
    BY <1>1, <2>1, <2>2 DEF NoFresh
<1>4. ASSUME NEW w \in Worker, Update(w) PROVE Goal
  <2>1. New(w)' = {} /\ UNCHANGED <<disk, stamp>>
    BY <1>4, UpdateStep
  <2>2. \A v \in Worker \ {w} : New(v)' = New(v)
    BY <1>4, UpdateStep, Elsewhere
  <2> QED
    BY <1>1, <2>1, <2>2 DEF NoFresh
<1>5. ASSUME NEW w \in Worker, WriteFails(w) \/ RemoveOld(w) PROVE Goal
  BY <1>1, <1>5, StopStep, Elsewhere DEF NoFresh, WriteFails, RemoveOld
<1>6. ASSUME NEW b \in Book, DeleteBook(b) \/ \E on \in BOOLEAN : SetBookActiveState(b, on)
      PROVE  Goal
  <2>1. \A v \in Worker : New(v)' = New(v)
    BY <1>6, SwitchStep, Elsewhere
  <2>2. UNCHANGED <<disk, stamp>>
    BY <1>6, SwitchStep
  <2> QED
    BY <1>1, <2>1, <2>2 DEF NoFresh
<1>7. CASE Crash
  BY <1>1, <1>7, CrashStep DEF NoFresh
<1>8. CASE UNCHANGED vars
  BY <1>1, <1>8, Elsewhere DEF NoFresh, vars
<1> QED
  BY <1>2, <1>3, <1>4, <1>5, <1>6, <1>7, <1>8, BeginStep
     DEF Next, Handler, BeginAdd, BeginUpdate, BeginDiscount
(***************************************************************************)
(* The inductive invariant of the files, part by part.                     *)
(***************************************************************************)

LEMMA PreparedStep ==
  ASSUME TypeOK, Prepared, [Next]_vars
  PROVE  Prepared'
<1> DEFINE Good(w) ==
             Busy(w) =>
               LET job == work[w]
               IN  /\ job.op # "add" => Inserted(job.book) /\ job.book \in Book
                   /\ job.op = "add" => DOMAIN job.new = Kind /\ job.old = {} /\ job.book = NoRow
                   /\ job.op \in {"discount", "remove"} => DOMAIN job.new = {}
                   /\ job.op = "discount" => job.old = {} /\ job.sent = [percent |-> job.write.percent]
                   /\ job.op \in {"add", "update"} =>
                        \A k \in DOMAIN job.new : job.new[k] = job.write[k]
                   /\ job.op = "update" => \A k \in Kind \ DOMAIN job.new : job.old \cap File(k) = {}
<1>1. SUFFICES \A w \in Worker : Good(w)'
  BY DEF Prepared
<1>2. \A w \in Worker : Good(w)
  BY DEF Prepared
<1>3. ASSUME NEW v \in Worker, work'[v] = work[v], \A b \in Book : Inserted(b) => Inserted(b)'
      PROVE  Good(v)'
  BY <1>2, <1>3 DEF Busy, Inserted
<1>4. \A b \in Book : row'[b] = row[b] => (Inserted(b) => Inserted(b)')
  BY RowElsewhere
<1>5. ASSUME NEW w \in Worker, NEW form \in Form, BeginAdd(w, form) PROVE \A v \in Worker : Good(v)'
  <2> DEFINE job == [op |-> "add", book |-> NoRow, sent |-> <<>>, new |-> Copies(Kind),
                     old |-> {}, write |-> WithAmount(Copies(Kind) ++ form)]
  <2>1. Start(w, job) /\ job \in Job /\ stamp + 1 \in 1..MaxStamp
    BY <1>5, AddJob DEF Job
  <2>2. work'[w] = job
    BY <2>1, StartStep
  <2>3. DOMAIN job.new = Kind /\ \A k \in Kind : job.new[k] = job.write[k]
    BY <2>1, AddWritten DEF Copies
  <2>4. job.op = "add" /\ job.old = {} /\ job.book = NoRow
    OBVIOUS
  <2>5. \A v \in Worker \ {w} : work'[v] = work[v]
    BY <2>1, StartStep
  <2>6. UNCHANGED row
    BY <2>1, StartStep
  <2> HIDE DEF job
  <2>7. Good(w)'
    BY <2>2, <2>3, <2>4
  <2> QED
    BY <1>3, <1>4, <2>5, <2>6, <2>7
<1>6. ASSUME NEW w \in Worker, NEW b \in Book, NEW e \in Edit, BeginUpdate(w, b, e)
      PROVE  \A v \in Worker : Good(v)'
  <2> DEFINE job == [op |-> "update", book |-> b, sent |-> e.fields, new |-> Copies(e.files),
                     old |-> {row[b][k] : k \in e.files},
                     write |-> WithAmount(Copies(e.files) ++ e.fields ++ Details(b))]
  <2>1. /\ Start(w, job) /\ job \in Job /\ Inserted(b) /\ e.files \in SUBSET Kind
        /\ e.files # {} => stamp + 1 \in 1..MaxStamp
    BY <1>6, UpdateJob, EditAssumption DEF Job
  <2>2. work'[w] = job
    BY <2>1, StartStep
  <2>3. DOMAIN job.new = e.files /\ \A k \in e.files : job.new[k] = job.write[k]
    BY <2>1, EditWritten DEF Copies
  <2>4. \A k \in Kind \ e.files : job.old \cap File(k) = {}
    <3>1. \A k \in Kind : row[b][k] \in File(k)
      BY <2>1, FilesOfRow DEF Row, Kind
    <3>2. \A k, j \in Kind : k # j => File(k) \cap File(j) = {}
      BY DEF File
    <3> QED
      BY <2>1, <3>1, <3>2
  <2>5. job.op = "update" /\ job.book = b
    OBVIOUS
  <2>6. \A v \in Worker \ {w} : work'[v] = work[v]
    BY <2>1, StartStep
  <2>7. UNCHANGED row
    BY <2>1, StartStep
  <2> HIDE DEF job
  <2>8. Inserted(b)'
    BY <2>1, <2>7, <1>4
  <2>9. Good(w)'
    BY <2>2, <2>3, <2>4, <2>5, <2>8 DEF Inserted
  <2> QED
    BY <1>3, <1>4, <2>6, <2>7, <2>9
<1>7. ASSUME NEW w \in Worker, NEW b \in Book, NEW q \in Percent, BeginDiscount(w, b, q)
      PROVE  \A v \in Worker : Good(v)'
  <2> DEFINE job == [op |-> "discount", book |-> b, sent |-> [percent |-> q], new |-> <<>>,
                     old |-> {}, write |-> [percent |-> q, amount |-> row[b].price * q]]
  <2>1. Start(w, job) /\ job \in Job /\ Inserted(b)
    BY <1>7, SetDiscountJob DEF Job, Offered
  <2>2. work'[w] = job
    BY <2>1, StartStep
  <2>3. \A v \in Worker \ {w} : work'[v] = work[v]
    BY <2>1, StartStep
  <2>4. UNCHANGED row
    BY <2>1, StartStep
  <2>5. /\ job.op = "discount" /\ job.book = b /\ DOMAIN job.new = {} /\ job.old = {}
        /\ job.sent = [percent |-> job.write.percent]
    OBVIOUS
  <2> HIDE DEF job
  <2>6. Good(w)'
    BY <2>1, <2>2, <2>4, <2>5 DEF Inserted
  <2> QED
    BY <1>3, <1>4, <2>3, <2>4, <2>6
<1>8. ASSUME NEW w \in Worker, NEW b \in Book, Insert(w, b) PROVE \A v \in Worker : Good(v)'
  <2>1. \A c \in Book : Inserted(c) => Inserted(c)'
    BY <1>4, <1>8, InsertStep
  <2>2. Good(w)'
    BY <1>8, InsertStep DEF Busy
  <2>3. \A v \in Worker \ {w} : work'[v] = work[v]
    BY <1>8, InsertStep
  <2> HIDE DEF Good
  <2> QED
    BY <1>3, <2>1, <2>2, <2>3
<1>9. ASSUME NEW w \in Worker, Update(w) PROVE \A v \in Worker : Good(v)'
  <2>1. PICK b \in Book : b = work[w].book /\ Inserted(b)
    BY <1>9, UpdateStep
  <2>2. Inserted(b)'
    BY <1>4, <1>9, <2>1, UpdateWrites, UpdateDeleted
  <2>3. \A v \in Worker \ {w} : work'[v] = work[v]
    BY <1>9, UpdateStep
  <2>4. \A c \in Book : Inserted(c) => Inserted(c)'
    <3>1. \A c \in Book \ {b} : row'[c] = row[c]
      BY <1>9, <2>1, UpdateStep
    <3> QED
      BY <1>4, <2>2, <3>1
  <2>5. Good(w)'
    <3> DEFINE rest == [op |-> "remove", book |-> b, new |-> <<>>, old |-> work[w].old]
    <3>1. work'[w] = NoWork \/ work'[w] = rest
      BY <1>9, <2>1, UpdateStep
    <3>2. rest.op = "remove" /\ rest.book = b /\ DOMAIN rest.new = {}
      BY NoNewFiles
    <3> HIDE DEF rest
    <3> QED
      BY <2>2, <3>1, <3>2 DEF Busy, Inserted
  <2> HIDE DEF Good
  <2> QED
    BY <1>3, <2>3, <2>4, <2>5
<1>10. ASSUME NEW w \in Worker, Stop(w), UNCHANGED row PROVE \A v \in Worker : Good(v)'
  BY <1>3, <1>4, <1>10, StopStep
<1>11. ASSUME NEW b \in Book, DeleteBook(b) \/ \E on \in BOOLEAN : SetBookActiveState(b, on)
       PROVE  \A v \in Worker : Good(v)'
  BY <1>3, <1>11, SwitchStep
<1>12. CASE Crash
  BY <1>12, CrashStep
<1>13. CASE UNCHANGED vars
  BY <1>3, <1>4, <1>13 DEF vars
<1> QED
  BY <1>5, <1>6, <1>7, <1>8, <1>9, <1>10, <1>11, <1>12, <1>13
     DEF Next, Handler, WriteFails, RemoveOld

LEMMA StampsUsedStep ==
  ASSUME TypeOK, Prepared, StampsUsed, NewOwn, [Next]_vars
  PROVE  StampsUsed'
<1>1. SUFFICES ASSUME NEW f \in AnyFile, f \in disk' \/ (\E b \in Book : Of(f, b)')
               PROVE  f[2] <= stamp'
  BY DEF StampsUsed
<1>2. stamp \in Nat /\ stamp' \in Nat /\ stamp <= stamp' /\ f[2] \in Nat
  BY NewStep, BoundAssumption DEF AnyFile, File
<1>3. f \in disk \/ (\E b \in Book : Of(f, b)) => f[2] <= stamp
  BY DEF StampsUsed
<1>4. CASE NoFresh
  <2>1. f \in disk \/ \E b \in Book : Of(f, b)
    BY <1>1, <1>4, OfStep DEF NoFresh, Kept, Given, NewOwn
  <2> QED
    BY <1>2, <1>3, <2>1
<1>5. ASSUME NEW w \in Worker, Fresh(w) PROVE f[2] <= stamp'
  <2>1. f \in disk \/ (\E b \in Book : Of(f, b)) \/ f[2] = stamp'
    BY <1>1, <1>5 DEF Fresh, Kept
  <2> QED
    BY <1>2, <1>3, <2>1
<1> QED
  BY <1>4, <1>5, NewStep

(* Files go by a failed statement or by the last step of an edit. *)
LEMMA DiskStep ==
  ASSUME [Next]_vars, NEW f \in disk, f \notin disk'
  PROVE  \E w \in Worker :
           \/ WriteFails(w) /\ Busy(w) /\ f \in New(w)
           \/ RemoveOld(w) /\ Busy(w) /\ work[w].op = "remove" /\ f \in work[w].old
<1>1. ASSUME NEW w \in Worker, NEW job, Start(w, job) PROVE FALSE
  BY <1>1 DEF Start
<1>2. ASSUME NEW w \in Worker, NEW b \in Book, Insert(w, b) PROVE FALSE
  BY <1>2 DEF Insert
<1>3. ASSUME NEW w \in Worker, Update(w) PROVE FALSE
  BY <1>3 DEF Update
<1>4. ASSUME NEW w \in Worker, WriteFails(w) PROVE Busy(w) /\ f \in New(w)
  BY <1>4 DEF WriteFails, New, Busy
<1>5. ASSUME NEW w \in Worker, RemoveOld(w)
      PROVE  Busy(w) /\ work[w].op = "remove" /\ f \in work[w].old
  BY <1>5 DEF RemoveOld, Busy
<1>6. CASE UNCHANGED disk
  BY <1>6
<1> QED
  BY <1>1, <1>2, <1>3, <1>4, <1>5, <1>6
     DEF Next, Handler, BeginAdd, BeginUpdate, BeginDiscount,
         SetBookActiveState, DeleteBook, Crash, vars

LEMMA NewOwnStep ==
  ASSUME TypeOK, Prepared, StampsUsed, NewOwn, [Next]_vars
  PROVE  NewOwn'
<1>1. CASE NoFresh
  <2>1. SUFFICES ASSUME NEW w \in Worker, NEW f \in New(w)'
                 PROVE  /\ f \in disk'
                        /\ \A b \in Book : ~Of(f, b)'
                        /\ \A v \in Worker \ {w} : f \notin New(v)'
    BY DEF NewOwn
  <2>2. f \in New(w) /\ f \in disk /\ \A b \in Book : ~Of(f, b)
    BY <1>1, <2>1 DEF NoFresh, NewOwn
  <2>3. \A v \in Worker \ {w} : f \notin New(v) /\ f \notin New(v)'
    BY <1>1, <2>2 DEF NoFresh, NewOwn
  <2>4. \A b \in Book : ~Of(f, b)'
    BY <2>1, <2>2, <2>3, OfStep DEF Kept, Given
  <2>5. f \in disk'
    <3>1. ASSUME NEW v \in Worker, RemoveOld(v), Busy(v), work[v].op = "remove", f \in work[v].old
          PROVE  FALSE
      <4>1. Of(f, work[v].book) /\ work[v].book \in Book
        BY <3>1, JobFields DEF Of, Held
      <4> QED
        BY <2>2, <4>1
    <3>2. ASSUME NEW v \in Worker, WriteFails(v), f \in New(v) PROVE FALSE
      BY <2>1, <2>3, <3>2, StopStep DEF WriteFails
    <3> QED
      BY <2>2, <3>1, <3>2, DiskStep
  <2> QED
    BY <2>3, <2>4, <2>5
<1>2. ASSUME NEW w \in Worker, Fresh(w) PROVE NewOwn'
  <2>1. SUFFICES ASSUME NEW v \in Worker, NEW f \in New(v)'
                 PROVE  /\ f \in disk'
                        /\ \A b \in Book : ~Of(f, b)'
                        /\ \A x \in Worker \ {v} : f \notin New(x)'
    BY DEF NewOwn
  <2>2. stamp \in Nat
    BY NewStep
  <2>3. \A g \in New(w)' : g \notin disk /\ (\A b \in Book : ~Of(g, b))
    BY <1>2, <2>2 DEF Fresh, StampsUsed
  <2>4. CASE v = w
    <3>1. \A x \in Worker \ {w} : f \notin New(x)'
      BY <1>2, <2>1, <2>3, <2>4 DEF Fresh, NewOwn
    <3> QED
      BY <1>2, <2>1, <2>3, <2>4, <3>1 DEF Fresh, Kept
  <2>5. CASE v # w
    <3>1. f \in New(v) /\ f \in disk /\ \A b \in Book : ~Of(f, b)
      BY <1>2, <2>1, <2>5 DEF Fresh, NewOwn
    <3>2. f \notin New(w)'
      BY <2>3, <3>1
    <3>3. \A x \in Worker \ {v} : f \notin New(x)'
      BY <1>2, <3>1, <3>2 DEF Fresh, NewOwn
    <3> QED
      BY <1>2, <3>1, <3>3 DEF Fresh, Kept
  <2> QED
    BY <2>4, <2>5
<1> QED
  BY <1>1, <1>2, NewStep

LEMMA OneBookStep ==
  ASSUME TypeOK, Prepared, NewOwn, OneBook, [Next]_vars
  PROVE  OneBook'
<1>1. SUFFICES ASSUME NEW b \in Book, NEW c \in Book, NEW f \in AnyFile, Of(f, b)', Of(f, c)'
               PROVE  b = c
  BY DEF OneBook
<1>2. CASE Kept
  BY <1>1, <1>2 DEF Kept, OneBook
<1>3. ASSUME NEW w \in Worker, NEW d \in Book, Given(w, d) PROVE b = c
  BY <1>1, <1>3 DEF Given, OneBook, NewOwn
<1> QED
  BY <1>2, <1>3, OfStep
(* Whoever goes on with what it has read: what others have changed since is *)
(* on its list.                                                             *)
Columns == {"title", "price", "percent", "amount", "pdf", "cover"}
Noticed(v) ==
  Busy(v) /\ work[v].op # "add" /\ work'[v] = work[v] =>
    /\ late[v] \subseteq late'[v]
    /\ \A f \in Columns \ late'[v] : row'[work[v].book][f] = row[work[v].book][f]

LEMMA LateStep ==
  ASSUME TypeOK, Prepared, [Next]_vars
  PROVE  \A v \in Worker : Noticed(v)
<1> SUFFICES ASSUME NEW v \in Worker, Busy(v), work[v].op # "add", work'[v] = work[v],
                    NEW b \in Book, b = work[v].book, Inserted(b)
             PROVE  /\ late[v] \subseteq late'[v]
                    /\ \A f \in Columns \ late'[v] : row'[b][f] = row[b][f]
  BY JobFields DEF Noticed
<1> DEFINE Goal == /\ late[v] \subseteq late'[v]
                   /\ \A f \in Columns \ late'[v] : row'[b][f] = row[b][f]
<1>1. CASE late'[v] = late[v] /\ row'[b] = row[b]
  BY <1>1
<1>2. ASSUME NEW w \in Worker, NEW job, Start(w, job) PROVE Goal
  BY <1>2 DEF Start
<1>3. ASSUME NEW w \in Worker, NEW c \in Book, Insert(w, c) PROVE Goal
  <2>1. v # w /\ c # b
    BY <1>3, InsertStep DEF Busy
  <2> QED
    BY <1>1, <1>3, <2>1, InsertStep
<1>4. ASSUME NEW w \in Worker, Update(w) PROVE Goal
  <2>1. PICK c \in Book : c = work[w].book
    BY <1>4, UpdateStep
  <2>2. v # w
    <3>1. work'[w] # work[w]
      BY <1>4, UpdateStep DEF Busy
    <3> QED
      BY <3>1
  <2>3. CASE row[c].deleted
    BY <1>1, <1>4, <2>1, <2>2, <2>3, UpdateDeleted
  <2>4. CASE ~row[c].deleted
    <3> DEFINE changed == {f \in DOMAIN row[c] : row'[c][f] # row[c][f]}
    <3>1. late' = [x \in Worker |->
                    CASE x = w -> {}
                      [] x # w /\ work[x] # NoWork /\ work[x].book = c -> late[x] \cup changed
                      [] OTHER -> late[x]]
      BY <1>4, <2>1, <2>4, UpdateWrites DEF Overtake
    <3>2. Columns \subseteq DOMAIN row[c]
      BY <1>4, <2>1, <2>4, UpdateWrites DEF Row, Columns
    <3>3. \A f \in Columns \ changed : row'[c][f] = row[c][f]
      BY <3>2
    <3> HIDE DEF changed
    <3>4. CASE b = c
      <4>1. late'[v] = late[v] \cup changed
        BY <2>2, <3>1, <3>4 DEF Busy
      <4> QED
        BY <3>3, <3>4, <4>1
    <3>5. CASE b # c
      <4>1. late'[v] = late[v]
        BY <2>2, <3>1, <3>5
      <4>2. row'[b] = row[b]
        BY <1>4, <2>1, <3>5, UpdateStep
      <4> QED
        BY <1>1, <4>1, <4>2
    <3> QED
      BY <3>4, <3>5
  <2> QED
    BY <2>3, <2>4
<1>5. ASSUME NEW w \in Worker, Stop(w), UNCHANGED row PROVE Goal
  BY <1>1, <1>5, StopStep DEF Busy
<1>6. ASSUME NEW c \in Book, DeleteBook(c) \/ \E on \in BOOLEAN : SetBookActiveState(c, on)
      PROVE  Goal
  BY <1>6, SwitchStep DEF Columns
<1>7. CASE Crash
  BY <1>7, CrashStep DEF Busy
<1>8. CASE UNCHANGED vars
  BY <1>8 DEF vars
<1> QED
  BY <1>2, <1>3, <1>4, <1>5, <1>6, <1>7, <1>8
     DEF Next, Handler, BeginAdd, BeginUpdate, BeginDiscount, WriteFails, RemoveOld

(* What a handler is about to do, it has prepared in this step or before. *)
LEMMA WorkStep ==
  ASSUME TypeOK, Prepared, [Next]_vars, NEW v \in Worker, Busy(v)'
  PROVE  \/ Busy(v) /\ work'[v] = work[v]
         \/ \E form \in Form : BeginAdd(v, form)
         \/ \E b \in Book, e \in Edit : BeginUpdate(v, b, e)
         \/ \E b \in Book, q \in Percent : BeginDiscount(v, b, q)
         \/ Update(v) /\ work'[v].op = "remove"
<1> DEFINE Goal == \/ Busy(v) /\ work'[v] = work[v]
                   \/ \E form \in Form : BeginAdd(v, form)
                   \/ \E b \in Book, e \in Edit : BeginUpdate(v, b, e)
                   \/ \E b \in Book, q \in Percent : BeginDiscount(v, b, q)
                   \/ Update(v) /\ work'[v].op = "remove"
<1>1. CASE work'[v] = work[v]
  BY <1>1 DEF Busy
<1>2. ASSUME NEW w \in Worker, NEW job, Start(w, job), w # v PROVE Goal
  BY <1>1, <1>2 DEF Start, TypeOK
<1>3. ASSUME NEW w \in Worker, NEW b \in Book, Insert(w, b) PROVE Goal
  BY <1>1, <1>3, InsertStep DEF Busy
<1>4. ASSUME NEW w \in Worker, Update(w) PROVE Goal
  BY <1>1, <1>4, UpdateStep
<1>5. ASSUME NEW w \in Worker, Stop(w) PROVE Goal
  BY <1>1, <1>5, StopStep
<1>6. ASSUME NEW b \in Book, DeleteBook(b) \/ \E on \in BOOLEAN : SetBookActiveState(b, on)
      PROVE  Goal
  BY <1>1, <1>6, SwitchStep
<1>7. CASE Crash
  BY <1>7, CrashStep
<1>8. CASE UNCHANGED vars
  BY <1>1, <1>8 DEF vars
<1>9. ASSUME NEW w \in Worker, Handler(w) PROVE Goal
  <2>1. CASE w = v /\ \E job : Start(w, job)
    BY <1>3, <1>4, <1>5, <1>9, <2>1 DEF Handler, WriteFails, RemoveOld
  <2>2. CASE w # v
    BY <1>2, <1>3, <1>4, <1>5, <1>9, <2>2
       DEF Handler, WriteFails, RemoveOld, BeginAdd, BeginUpdate, BeginDiscount
  <2> QED
    BY <1>3, <1>4, <1>5, <1>9, <2>2 DEF Handler, WriteFails, RemoveOld
<1> QED
  BY <1>6, <1>7, <1>8, <1>9 DEF Next

LEMMA CopiedStep ==
  ASSUME TypeOK, Prepared, Copied, [Next]_vars
  PROVE  Copied'
<1> SUFFICES ASSUME NEW v \in Worker, Busy(v)', work'[v].op = "update"
             PROVE  LET job == work'[v]
                        now == row'[job.book]
                    IN  /\ \A f \in {"title", "price", "percent", "pdf", "cover"} :
                             f \notin DOMAIN job.sent \cup DOMAIN job.new \cup late'[v] =>
                               job.write[f] = now[f]
                        /\ \A k \in DOMAIN job.new \ late'[v] : now[k] \in job.old
  BY DEF Copied
<1> DEFINE job == work'[v]
           now == row'[job.book]
           Goal == /\ \A f \in {"title", "price", "percent", "pdf", "cover"} :
                        f \notin DOMAIN job.sent \cup DOMAIN job.new \cup late'[v] =>
                          job.write[f] = now[f]
                   /\ \A k \in DOMAIN job.new \ late'[v] : now[k] \in job.old
<1>1. CASE Busy(v) /\ work'[v] = work[v]
  <2>1. /\ late[v] \subseteq late'[v]
        /\ \A f \in Columns \ late'[v] : now[f] = row[job.book][f]
    BY <1>1, LateStep DEF Noticed
  <2>2. /\ \A f \in {"title", "price", "percent", "pdf", "cover"} :
             f \notin DOMAIN job.sent \cup DOMAIN job.new \cup late[v] =>
               job.write[f] = row[job.book][f]
        /\ \A k \in DOMAIN job.new \ late[v] : row[job.book][k] \in job.old
    BY <1>1 DEF Copied
  <2>3. DOMAIN job.new \subseteq Columns
    BY <1>1, JobFields DEF Columns, Kind
  <2> QED
    BY <2>1, <2>2, <2>3 DEF Columns
<1>2. ASSUME NEW b \in Book, NEW e \in Edit, BeginUpdate(v, b, e) PROVE Goal
  <2> DEFINE j == [op |-> "update", book |-> b, sent |-> e.fields, new |-> Copies(e.files),
                   old |-> {row[b][k] : k \in e.files},
                   write |-> WithAmount(Copies(e.files) ++ e.fields ++ Details(b))]
  <2>1. /\ Start(v, j) /\ j \in Job /\ Inserted(b)
        /\ e.files # {} => stamp + 1 \in 1..MaxStamp
    BY <1>2, UpdateJob DEF Job
  <2>2. job = j /\ row' = row
    BY <2>1, StartStep
  <2>3. DOMAIN j.new = e.files /\ j.sent = e.fields
    BY DEF Copies
  <2>4. \A f \in {"title", "price", "percent", "pdf", "cover"} :
          f \notin DOMAIN e.fields \cup e.files => j.write[f] = row[b][f]
    BY <2>1, EditWritten
  <2>5. \A k \in e.files : row[b][k] \in j.old
    OBVIOUS
  <2>6. j.book = b
    OBVIOUS
  <2> HIDE DEF j
  <2> QED
    BY <2>2, <2>3, <2>4, <2>5, <2>6
<1>3. ASSUME NEW jb, Start(v, jb), jb \in Job, jb.op # "update" PROVE FALSE
  BY <1>3, StartStep
<1>4. ~\E form \in Form : BeginAdd(v, form)
  BY <1>3, AddJob DEF Job
<1>5. ~\E b \in Book, q \in Percent : BeginDiscount(v, b, q)
  BY <1>3, SetDiscountJob DEF Job
<1> QED
  BY <1>1, <1>2, <1>4, <1>5, WorkStep
LEMMA SentFields ==
  ASSUME TypeOK, Prepared, NEW w \in Worker, Busy(w), work[w].op = "update"
  PROVE  DOMAIN work[w].sent \cap Kind = {}
<1>1. work[w].sent \in Sent
  BY JobFields DEF WriteJob
<1>2. DOMAIN work[w].sent \subseteq {"title", "price", "percent"}
  BY <1>1, EditFields, NoNewFiles DEF Sent
<1> QED
  BY <1>2 DEF Kind

(* An UPDATE writes back the file it has read or puts its copy in place; if   *)
(* neither, the book is on record as torn.                                    *)
LEMMA UpdateKinds ==
  ASSUME TypeOK, Prepared, Copied, NEW w \in Worker, Update(w),
         NEW b \in Book, b = work[w].book, ~row[b].deleted, NEW k \in Kind
  PROVE  \/ row'[b][k] = row[b][k]
         \/ work[w].op = "update" /\ k \in DOMAIN work[w].new /\ row'[b][k] \in New(w)
         \/ work[w].op = "update" /\ k \in late[w] \ DOMAIN work[w].new
<1>1. Busy(w) /\ work[w].op \in {"update", "discount"}
  BY UpdateStep
<1>2. CASE work[w].op = "discount"
  BY <1>2, UpdateWrites
<1>3. CASE work[w].op = "update" /\ k \in DOMAIN work[w].new
  <2>1. row'[b][k] = work[w].new[k]
    BY <1>3, UpdateWrites
  <2> QED
    BY <1>1, <1>3, <2>1 DEF New, FileSet
<1>4. CASE work[w].op = "update" /\ k \notin DOMAIN work[w].new /\ k \notin late[w]
  <2>1. row'[b][k] = work[w].write[k]
    BY <1>4, UpdateWrites
  <2>2. k \notin DOMAIN work[w].sent
    BY <1>1, <1>4, SentFields
  <2>3. work[w].write[k] = row[b][k]
    BY <1>1, <1>4, <2>2 DEF Copied, Kind
  <2> QED
    BY <2>1, <2>3
<1> QED
  BY <1>1, <1>2, <1>3, <1>4

(* The files of a row change for copies only, unless the book is torn. *)
LEMMA FilesStep ==
  ASSUME TypeOK, Prepared, Copied, [Next]_vars, NEW b \in Book \ torn', Inserted(b)
  PROVE  /\ b \notin torn
         /\ \A f \in FilesOf(b)' : f \in FilesOf(b) \/ \E w \in Worker : f \in New(w)
<1> DEFINE Goal == /\ b \notin torn
                   /\ \A f \in FilesOf(b)' : f \in FilesOf(b) \/ \E w \in Worker : f \in New(w)
<1>1. CASE torn' = torn /\ row'[b] = row[b]
  BY <1>1, RowElsewhere
<1>2. ASSUME NEW w \in Worker, NEW job, Start(w, job) PROVE Goal
  BY <1>1, <1>2 DEF Start, marks
<1>3. ASSUME NEW w \in Worker, NEW c \in Book, Insert(w, c) PROVE Goal
  BY <1>1, <1>3, InsertStep
<1>4. ASSUME NEW w \in Worker, Update(w) PROVE Goal
  <2>1. PICK c \in Book : c = work[w].book
    BY <1>4, UpdateStep
  <2>2. CASE row[c].deleted
    <3>1. row' = row /\ b \notin torn
      BY <1>4, <2>1, <2>2, UpdateDeleted
    <3> QED
      BY <3>1, RowElsewhere
  <2>3. CASE ~row[c].deleted
    <3>1. torn' = IF work[w].op = "update" /\ (late[w] \cap Kind) \ DOMAIN work[w].new # {}
                  THEN torn \cup {c} ELSE torn
      BY <1>4, <2>1, <2>3, UpdateWrites DEF MarkLate
    <3>2. b \notin torn
      BY <3>1
    <3>3. CASE b # c
      <4>1. row'[b] = row[b]
        BY <1>4, <2>1, <3>3, UpdateStep
      <4> QED
        BY <3>2, <4>1, RowElsewhere
    <3>4. CASE b = c
      <4>1. ASSUME NEW k \in Kind PROVE row'[b][k] = row[b][k] \/ row'[b][k] \in New(w)
        <5>1. ~(work[w].op = "update" /\ k \in late[w] \ DOMAIN work[w].new)
          BY <3>1, <3>4
        <5> QED
          BY <1>4, <2>1, <2>3, <3>4, <5>1, UpdateKinds
      <4> QED
        BY <3>2, <4>1 DEF FilesOf
    <3> QED
      BY <3>3, <3>4
  <2> QED
    BY <2>2, <2>3
<1>5. ASSUME NEW w \in Worker, WriteFails(w) \/ RemoveOld(w) PROVE Goal
  BY <1>1, <1>5 DEF WriteFails, RemoveOld, marks
<1>6. ASSUME NEW c \in Book, DeleteBook(c) \/ \E on \in BOOLEAN : SetBookActiveState(c, on)
      PROVE  Goal
  BY <1>6, SwitchStep
<1>7. CASE Crash
  BY <1>1, <1>7, CrashStep
<1>8. CASE UNCHANGED vars
  BY <1>1, <1>8 DEF vars, marks
<1> QED
  BY <1>2, <1>3, <1>4, <1>5, <1>6, <1>7, <1>8
     DEF Next, Handler, BeginAdd, BeginUpdate, BeginDiscount

LEMMA ReplacedStep ==
  ASSUME TypeOK, FilesInv, [Next]_vars
  PROVE  Replaced'
<1> USE DEF FilesInv
<1> SUFFICES ASSUME NEW v \in Worker, Busy(v)', work'[v].op = "remove",
                    work'[v].book \notin torn',
                    NEW b \in Book, b = work'[v].book,
                    NEW f \in work'[v].old, f \in FilesOf(b)'
             PROVE  FALSE
  <2>1. \A v \in Worker : Busy(v)' /\ work'[v].op = "remove" => work'[v].book \in Book
    BY PreparedStep DEF Prepared
  <2> QED
    BY <2>1 DEF Replaced, FilesOf
<1>1. CASE Busy(v) /\ work'[v] = work[v]
  <2>1. Inserted(b) /\ f \in AnyFile /\ Of(f, b)
    BY <1>1, JobFields DEF Of, Held
  <2>2. b \notin torn /\ (f \in FilesOf(b) \/ \E w \in Worker : f \in New(w))
    BY <2>1, FilesStep
  <2>3. f \notin FilesOf(b)
    BY <1>1, <2>2 DEF Replaced
  <2> QED
    BY <2>1, <2>2, <2>3 DEF NewOwn
<1>2. CASE Update(v)
  <2>1. /\ Busy(v) /\ b = work[v].book /\ f \in work[v].old
        /\ work[v].op \in {"update", "discount"}
    <3>1. work[v].old # {}
      BY <1>2, UpdateStep DEF Busy
    <3>2. work'[v] = [op |-> "remove", book |-> work[v].book, new |-> <<>>, old |-> work[v].old]
      BY <1>2, <3>1, UpdateStep
    <3> QED
      BY <1>2, <3>2, UpdateStep
  <2>2. work[v].op = "update"
    BY <2>1 DEF Prepared
  <2>3. ~row[b].deleted
    BY <1>2, <2>1, <2>2, UpdateDeleted
  <2>4. PICK k \in Kind : f = row'[b][k]
    BY DEF FilesOf
  <2>5. Of(f, b)
    BY <2>1 DEF Of, Held
  <2>6. CASE k \in DOMAIN work[v].new
    <3>1. f \in New(v)
      BY <1>2, <2>1, <2>2, <2>3, <2>4, <2>6, UpdateWrites DEF New, FileSet
    <3> QED
      BY <2>5, <3>1 DEF NewOwn
  <2>7. CASE k \notin DOMAIN work[v].new
    <3>1. row'[b] \in Row
      BY <1>2, <2>1, <2>3, UpdateWrites
    <3>2. f \in File(k)
      BY <2>4, <3>1 DEF Row, Kind
    <3> QED
      BY <2>1, <2>2, <2>7, <3>2 DEF Prepared
  <2> QED
    BY <2>6, <2>7
<1>3. ASSUME NEW jb \in Job, Start(v, jb), jb.op # "remove" PROVE FALSE
  BY <1>3, StartStep
<1>4. ~\E form \in Form : BeginAdd(v, form)
  BY <1>3, AddJob DEF Job
<1>5. ~\E c \in Book, e \in Edit : BeginUpdate(v, c, e)
  BY <1>3, UpdateJob DEF Job
<1>6. ~\E c \in Book, q \in Percent : BeginDiscount(v, c, q)
  BY <1>3, SetDiscountJob DEF Job
<1> QED
  BY <1>1, <1>2, <1>4, <1>5, <1>6, WorkStep

LEMMA FilesThereStep ==
  ASSUME TypeOK, FilesInv, [Next]_vars
  PROVE  FilesThere'
<1> USE DEF FilesInv
<1> SUFFICES ASSUME NEW b \in Book \ torn', Inserted(b)', NEW f \in FilesOf(b)', f \notin disk'
             PROVE  FALSE
  BY DEF FilesThere
<1>1. CASE f \in disk
  <2>1. PICK w \in Worker :
          \/ WriteFails(w) /\ Busy(w) /\ f \in New(w)
          \/ RemoveOld(w) /\ Busy(w) /\ work[w].op = "remove" /\ f \in work[w].old
    BY <1>1, DiskStep
  <2>2. row' = row /\ torn' = torn
    BY <2>1 DEF WriteFails, RemoveOld, marks
  <2>3. Inserted(b) /\ f \in FilesOf(b) /\ b \notin torn
    BY <2>2, RowElsewhere
  <2>4. Of(f, b) /\ f \in AnyFile
    BY <2>3, FilesOfRow DEF Of
  <2>5. CASE f \in New(w)
    BY <2>4, <2>5 DEF NewOwn
  <2>6. CASE Busy(w) /\ work[w].op = "remove" /\ f \in work[w].old
    <3>1. Of(f, work[w].book) /\ work[w].book \in Book
      BY <2>6, JobFields DEF Of, Held
    <3>2. work[w].book = b
      BY <2>4, <3>1 DEF OneBook
    <3> QED
      BY <2>3, <2>6, <3>2 DEF Replaced
  <2> QED
    BY <2>1, <2>5, <2>6
<1>2. CASE Inserted(b)
  BY <1>1, <1>2, FilesStep DEF FilesThere, NewOwn
<1>3. CASE ~Inserted(b)
  <2>1. row'[b] # row[b]
    BY <1>3, RowElsewhere
  <2>2. ASSUME NEW w \in Worker, NEW c \in Book, Insert(w, c) PROVE FALSE
    <3>1. c = b
      <4>1. \A x \in Book \ {c} : row'[x] = row[x]
        BY <2>2, InsertStep
      <4> QED
        BY <2>1, <4>1
    <3>2. f \in New(w)
      BY <2>2, <3>1, InsertStep
    <3> QED
      BY <1>1, <3>2 DEF NewOwn
  <2>3. ASSUME NEW w \in Worker, Update(w) PROVE FALSE
    BY <1>3, <2>1, <2>3, UpdateStep
  <2>4. ASSUME NEW c \in Book, DeleteBook(c) \/ \E on \in BOOLEAN : SetBookActiveState(c, on)
        PROVE  FALSE
    BY <1>3, <2>4, SwitchStep
  <2>5. row' # row
    BY <2>1
  <2> QED
    BY <2>2, <2>3, <2>4, <2>5
       DEF Next, Handler, BeginAdd, BeginUpdate, BeginDiscount, Start,
           WriteFails, RemoveOld, Crash, vars
<1> QED
  BY <1>2, <1>3
LEMMA StraysNamedStep ==
  ASSUME TypeOK, FilesInv, [Next]_vars
  PROVE  StraysNamed'
<1> USE DEF FilesInv
<1> DEFINE Named(f) ==
             \/ f \in leftovers
             \/ \E b \in Book : Inserted(b) /\ f \in FilesOf(b)
             \/ \E w \in Worker : f \in New(w)
             \/ \E w \in Worker : Busy(w) /\ work[w].op = "remove" /\ f \in work[w].old
<1> SUFFICES ASSUME NEW f \in disk' PROVE Named(f)'
  BY DEF StraysNamed
<1>1. f \in disk => Named(f)
  BY DEF StraysNamed
<1>2. ASSUME NEW v \in Worker, work'[v] = work[v]
      PROVE  /\ f \in New(v) => f \in New(v)'
             /\ Busy(v) /\ work[v].op = "remove" /\ f \in work[v].old =>
                  Busy(v)' /\ work'[v].op = "remove" /\ f \in work'[v].old
  BY <1>2, Elsewhere DEF Busy
<1>3. ASSUME NEW b \in Book, row'[b] = row[b], Inserted(b), f \in FilesOf(b)
      PROVE  Inserted(b)' /\ f \in FilesOf(b)'
  BY <1>3, RowElsewhere
<1>4. ASSUME NEW w \in Worker, Fresh(w), ~Busy(w), UNCHANGED <<row, leftovers>>,
             \A v \in Worker \ {w} : work'[v] = work[v]
      PROVE  Named(f)'
  <2>1. CASE f \in New(w)'
    BY <2>1
  <2>2. CASE f \notin New(w)'
    <3>1. f \in disk /\ f \notin New(w)
      BY <1>4, <2>2 DEF Fresh
    <3> QED
      BY <1>1, <1>2, <1>3, <1>4, <3>1
  <2> QED
    BY <2>1, <2>2
<1>5. ASSUME NEW w \in Worker, NEW b \in Book, Insert(w, b) PROVE Named(f)'
  <2>1. f \in disk /\ UNCHANGED leftovers
    BY <1>5, InsertStep
  <2>2. f \in New(w) => Inserted(b)' /\ f \in FilesOf(b)'
    BY <1>5, InsertStep
  <2>3. \A c \in Book : Inserted(c) => row'[c] = row[c]
    BY <1>5, InsertStep
  <2>4. \A v \in Worker \ {w} : work'[v] = work[v]
    BY <1>5, InsertStep
  <2>5. work[w].op # "remove"
    BY <1>5, InsertStep
  <2> QED
    BY <1>1, <1>2, <1>3, <2>1, <2>2, <2>3, <2>4, <2>5
<1>6. ASSUME NEW w \in Worker, Update(w) PROVE Named(f)'
  <2>1. PICK b \in Book : b = work[w].book /\ Inserted(b)
    BY <1>6, UpdateStep
  <2>2. f \in disk /\ Busy(w) /\ work[w].op \in {"update", "discount"}
    BY <1>6, UpdateStep
  <2>3. \A v \in Worker \ {w} : work'[v] = work[v]
    BY <1>6, UpdateStep
  <2>4. leftovers \subseteq leftovers'
    BY <1>6, <2>1, UpdateDeleted, UpdateWrites DEF MarkLate
  <2>5. ASSUME f \in New(w) PROVE Named(f)'
    <3>1. CASE row[b].deleted
      BY <1>6, <2>1, <2>2, <2>5, <3>1, UpdateDeleted DEF New
    <3>2. CASE ~row[b].deleted
      <4>1. work[w].op = "update"
        BY <1>6, <2>1, <2>2, <2>5, <3>2, UpdateWrites
      <4>2. PICK k \in DOMAIN work[w].new : f = work[w].new[k]
        BY <2>2, <2>5 DEF New, FileSet
      <4>3. f = row'[b][k] /\ k \in Kind /\ Inserted(b)'
        BY <1>6, <2>1, <2>2, <3>2, <4>1, <4>2, UpdateWrites, JobFields
      <4> QED
        BY <4>3 DEF FilesOf
    <3> QED
      BY <3>1, <3>2
  <2>6. ASSUME NEW c \in Book, Inserted(c), f \in FilesOf(c) PROVE Named(f)'
    <3>1. CASE row'[c] = row[c]
      BY <1>3, <2>6, <3>1
    <3>2. CASE row'[c] # row[c]
      <4>1. c = b /\ ~row[b].deleted
        BY <1>6, <2>1, <3>2, UpdateStep, UpdateDeleted
      <4>2. PICK k \in Kind : f = row[b][k]
        BY <2>6, <4>1 DEF FilesOf
      <4>3. Inserted(b)'
        BY <1>6, <2>1, <4>1, UpdateWrites
      <4>4. CASE row'[b][k] = f
        BY <4>3, <4>4 DEF FilesOf
      <4>5. CASE work[w].op = "update" /\ k \in late[w]
        <5>1. leftovers' = leftovers \cup {row[b][x] : x \in late[w] \cap Kind}
          BY <1>6, <2>1, <4>1, <4>5, UpdateWrites DEF MarkLate
        <5> QED
          BY <4>2, <4>5, <5>1
      <4>6. CASE work[w].op = "update" /\ k \in DOMAIN work[w].new \ late[w]
        <5>1. f \in work[w].old
          BY <2>1, <2>2, <4>2, <4>6 DEF Copied
        <5>2. work'[w] = [op |-> "remove", book |-> work[w].book, new |-> <<>>, old |-> work[w].old]
          BY <1>6, <5>1, UpdateStep
        <5>3. Busy(w)' /\ work'[w].op = "remove" /\ f \in work'[w].old
          <6> DEFINE rest == [op |-> "remove", book |-> work[w].book, new |-> <<>>,
                              old |-> work[w].old]
          <6>1. rest \in Job
            BY <2>1, <2>2, NoNewFiles, JobFields DEF RemoveJob, Job
          <6>2. rest.op = "remove" /\ f \in rest.old
            BY <5>1
          <6>3. work'[w] = rest
            BY <5>2
          <6> HIDE DEF rest
          <6> QED
            BY <6>1, <6>2, <6>3, NoneAssumption DEF Busy
        <5> QED
          BY <5>3
      <4> QED
        BY <1>6, <2>1, <4>1, <4>2, <4>4, <4>5, <4>6, UpdateKinds
    <3> QED
      BY <3>1, <3>2
  <2>7. \A v \in Worker : Busy(v) /\ work[v].op = "remove" => v # w
    BY <2>2
  <2> QED
    BY <1>1, <1>2, <2>2, <2>3, <2>4, <2>5, <2>6, <2>7
<1>7. ASSUME NEW w \in Worker, WriteFails(w) \/ RemoveOld(w) PROVE Named(f)'
  <2>1. /\ Busy(w) /\ f \in disk /\ UNCHANGED <<row, leftovers>>
        /\ \A v \in Worker \ {w} : work'[v] = work[v]
    BY <1>7, StopStep DEF WriteFails, RemoveOld, marks, Busy
  <2>2. f \notin New(w)
    BY <1>7, <2>1 DEF WriteFails, RemoveOld, New, Prepared, FileSet
  <2>3. ~(work[w].op = "remove" /\ f \in work[w].old)
    BY <1>7 DEF WriteFails, RemoveOld
  <2> QED
    BY <1>1, <1>2, <1>3, <2>1, <2>2, <2>3
<1>8. ASSUME NEW b \in Book, DeleteBook(b) \/ \E on \in BOOLEAN : SetBookActiveState(b, on)
      PROVE  Named(f)'
  BY <1>1, <1>2, <1>8, SwitchStep
<1>9. CASE Crash
  <2>1. f \in disk /\ leftovers \subseteq leftovers' /\ UNCHANGED row
    BY <1>9, CrashStep
  <2>2. \A w \in Worker : f \in New(w) => f \in leftovers'
    BY <1>9, CrashStep DEF New, Prepared, FileSet
  <2>3. \A w \in Worker : Busy(w) /\ work[w].op = "remove" /\ f \in work[w].old => f \in leftovers'
    BY <1>9, CrashStep
  <2> QED
    BY <1>1, <1>3, <2>1, <2>2, <2>3
<1>10. CASE UNCHANGED vars
  BY <1>1, <1>2, <1>3, <1>10 DEF vars, marks
<1>11. ASSUME NEW w \in Worker, NEW job, Start(w, job), Fresh(w) PROVE Named(f)'
  BY <1>4, <1>11 DEF Start, TypeOK, marks, Busy
<1> QED
  BY <1>5, <1>6, <1>7, <1>8, <1>9, <1>10, <1>11, BeginStep
     DEF Next, Handler, BeginAdd, BeginUpdate, BeginDiscount

(***************************************************************************)
(* Theorems about files.                                                   *)
(***************************************************************************)

LEMMA FilesInvariant == Spec => [](TypeOK /\ FilesInv)
<1>1. Init => TypeOK /\ FilesInv
  BY BoundAssumption
     DEF Init, TypeOK, FilesInv, Prepared, StampsUsed, NewOwn, OneBook, Copied, Replaced,
         FilesThere, StraysNamed, Busy, New, Of, Inserted
<1>2. TypeOK /\ FilesInv /\ [Next]_vars => TypeOK' /\ FilesInv'
  BY NextTypes, PreparedStep, StampsUsedStep, NewOwnStep, OneBookStep, CopiedStep,
     ReplacedStep, FilesThereStep, StraysNamedStep DEF FilesInv
<1> QED
  BY <1>1, <1>2, PTL DEF Spec

(* Rows, files and the work of the handlers are always whole: a row never     *)
(* loses a column, a handler never holds a half-read book.                    *)
THEOREM TypeCorrect == Spec => []TypeOK
BY FilesInvariant, PTL

(* Every file that a row names is in the storage directory, however handlers  *)
(* of handleUpdateBook interleave and wherever the server dies, but for books *)
(* edited once deleted or given back a file that another edit replaced.       *)
THEOREM FilesStay == Spec => []FilesThere
<1>1. FilesInv => FilesThere
  BY DEF FilesInv
<1> QED
  BY <1>1, FilesInvariant, PTL

(* No file stays in the storage directory that neither a row nor a handler    *)
(* knows of, but those of crashes and of edits that came too late.            *)
THEOREM StraysAccounted == Spec => []NoStrays
<1>1. FilesInv => NoStrays
  <2> DEFINE inRows == UNION {FilesOf(b) : b \in {c \in Book : Inserted(c)}}
             inHands == UNION {FileSet(work[w].new) \cup work[w].old :
                                 w \in {v \in Worker : work[v] # NoWork}}
  <2>0. NoStrays <=> disk \subseteq leftovers \cup inRows \cup inHands
    BY DEF NoStrays
  <2> HIDE DEF inRows, inHands
  <2> SUFFICES ASSUME StraysNamed, NEW f \in disk, f \notin leftovers
               PROVE  f \in inRows \/ f \in inHands
    BY <2>0 DEF FilesInv
  <2>1. ASSUME NEW b \in Book, Inserted(b), f \in FilesOf(b) PROVE f \in inRows
    BY <2>1 DEF inRows
  <2>2. ASSUME NEW w \in Worker, work[w] # NoWork, f \in FileSet(work[w].new) \cup work[w].old
        PROVE  f \in inHands
    BY <2>2 DEF inHands
  <2>3. \/ \E b \in Book : Inserted(b) /\ f \in FilesOf(b)
        \/ \E w \in Worker : f \in New(w)
        \/ \E w \in Worker : Busy(w) /\ f \in work[w].old
    BY DEF StraysNamed
  <2> QED
    BY <2>1, <2>2, <2>3 DEF New, Busy
<1> QED
  BY <1>1, FilesInvariant, PTL
(***************************************************************************)
(* Amounts.                                                                *)
(***************************************************************************)

LEMMA AmountsFollowStep ==
  ASSUME TypeOK, Prepared, AmountsFollow, [Next]_vars
  PROVE  AmountsFollow'
<1> SUFFICES ASSUME NEW v \in Worker, Busy(v)'
             PROVE  /\ work'[v].op \in {"add", "update"} =>
                         work'[v].write.amount = work'[v].write.price * work'[v].write.percent
                    /\ work'[v].op = "discount" =>
                         \/ work'[v].write.amount = row'[work'[v].book].price * work'[v].write.percent
                         \/ "price" \in late'[v]
  BY DEF AmountsFollow
<1> DEFINE Goal == /\ work'[v].op \in {"add", "update"} =>
                         work'[v].write.amount = work'[v].write.price * work'[v].write.percent
                   /\ work'[v].op = "discount" =>
                         \/ work'[v].write.amount = row'[work'[v].book].price * work'[v].write.percent
                         \/ "price" \in late'[v]
<1>1. CASE Busy(v) /\ work'[v] = work[v]
  <2>1. /\ work[v].op \in {"add", "update"} =>
             work[v].write.amount = work[v].write.price * work[v].write.percent
        /\ work[v].op = "discount" =>
             \/ work[v].write.amount = row[work[v].book].price * work[v].write.percent
             \/ "price" \in late[v]
    BY <1>1 DEF AmountsFollow
  <2>2. work[v].op = "discount" /\ "price" \notin late'[v] =>
          /\ row'[work[v].book].price = row[work[v].book].price
          /\ "price" \notin late[v]
    BY <1>1, LateStep DEF Noticed, Columns
  <2> QED
    BY <1>1, <2>1, <2>2
<1>2. ASSUME NEW form \in Form, BeginAdd(v, form) PROVE Goal
  <2> DEFINE job == [op |-> "add", book |-> NoRow, sent |-> <<>>, new |-> Copies(Kind),
                     old |-> {}, write |-> WithAmount(Copies(Kind) ++ form)]
  <2>1. Start(v, job) /\ job \in Job /\ stamp + 1 \in 1..MaxStamp
    BY <1>2, AddJob DEF Job
  <2>2. work'[v] = job
    BY <2>1, StartStep
  <2>3. job.op = "add" /\ job.write.amount = job.write.price * job.write.percent
    BY <2>1, AddWritten
  <2> HIDE DEF job
  <2> QED
    BY <2>2, <2>3
<1>3. ASSUME NEW b \in Book, NEW e \in Edit, BeginUpdate(v, b, e) PROVE Goal
  <2> DEFINE job == [op |-> "update", book |-> b, sent |-> e.fields, new |-> Copies(e.files),
                     old |-> {row[b][k] : k \in e.files},
                     write |-> WithAmount(Copies(e.files) ++ e.fields ++ Details(b))]
  <2>1. /\ Start(v, job) /\ job \in Job /\ Inserted(b)
        /\ e.files # {} => stamp + 1 \in 1..MaxStamp
    BY <1>3, UpdateJob DEF Job
  <2>2. work'[v] = job
    BY <2>1, StartStep
  <2>3. job.op = "update" /\ job.write.amount = job.write.price * job.write.percent
    BY <2>1, EditWritten
  <2> HIDE DEF job
  <2> QED
    BY <2>2, <2>3
<1>4. ASSUME NEW b \in Book, NEW q \in Percent, BeginDiscount(v, b, q) PROVE Goal
  <2> DEFINE job == [op |-> "discount", book |-> b, sent |-> [percent |-> q], new |-> <<>>,
                     old |-> {}, write |-> [percent |-> q, amount |-> row[b].price * q]]
  <2>1. Start(v, job) /\ job \in Job
    BY <1>4, SetDiscountJob DEF Job
  <2>2. work'[v] = job /\ row' = row
    BY <2>1, StartStep
  <2>3. /\ job.op = "discount" /\ job.book = b
        /\ job.write.amount = row[b].price * job.write.percent
    OBVIOUS
  <2> HIDE DEF job
  <2> QED
    BY <2>2, <2>3
<1> QED
  BY <1>1, <1>2, <1>3, <1>4, WorkStep

(* What a written row says of the amount. *)
LEMMA AmountExactStep ==
  ASSUME TypeOK, Prepared, AmountsFollow, AmountExact, [Next]_vars
  PROVE  AmountExact'
<1> DEFINE Exact(r) == r.amount = r.price * r.percent
<1> SUFFICES ASSUME NEW b \in Book, b \notin skewed', Inserted(b)' PROVE Exact(row'[b])
  BY DEF AmountExact
<1>1. CASE row'[b] = row[b] /\ b \notin skewed
  BY <1>1, RowElsewhere DEF AmountExact
<1>2. ASSUME NEW w \in Worker, NEW job, Start(w, job) PROVE Exact(row'[b])
  BY <1>1, <1>2 DEF Start, marks
<1>3. ASSUME NEW w \in Worker, NEW c \in Book, Insert(w, c) PROVE Exact(row'[b])
  <2>1. CASE c = b
    <3>1. work[w].write.amount = work[w].write.price * work[w].write.percent
      BY <1>3, InsertStep DEF AmountsFollow
    <3> QED
      BY <1>3, <2>1, <3>1, InsertStep
  <2>2. CASE c # b
    BY <1>1, <1>3, <2>2, InsertStep
  <2> QED
    BY <2>1, <2>2
<1>4. ASSUME NEW w \in Worker, Update(w) PROVE Exact(row'[b])
  <2>1. PICK c \in Book : c = work[w].book
    BY <1>4, UpdateStep
  <2>2. CASE row[c].deleted
    BY <1>1, <1>4, <2>1, <2>2, UpdateDeleted
  <2>3. CASE ~row[c].deleted /\ b # c
    <3>1. row'[b] = row[b]
      BY <1>4, <2>1, <2>3, UpdateStep
    <3>2. b \notin skewed
      BY <1>4, <2>1, <2>3, UpdateWrites DEF MarkLate
    <3> QED
      BY <1>1, <3>1, <3>2
  <2>4. CASE ~row[c].deleted /\ b = c
    <3> DEFINE x == work[w].write
    <3>1. Busy(w) /\ work[w].op \in {"update", "discount"}
      BY <1>4, UpdateStep
    <3>2. row'[b] = x ++ row[b]
      BY <1>4, <2>1, <2>4, UpdateWrites
    <3>3. row'[b].amount = x.amount /\ row'[b].percent = x.percent
      BY <2>1, <2>4, <3>1, <3>2, UpdatedRow
    <3>4. CASE work[w].op = "update"
      <4>1. row'[b].price = x.price
        BY <2>1, <2>4, <3>1, <3>2, <3>4, UpdatedRow
      <4>2. x.amount = x.price * x.percent
        BY <3>1, <3>4 DEF AmountsFollow
      <4> QED
        BY <3>3, <4>1, <4>2
    <3>5. CASE work[w].op = "discount"
      <4>1. row'[b].price = row[b].price
        BY <2>1, <2>4, <3>1, <3>2, <3>5, UpdatedRow
      <4>2. "price" \notin late[w]
        BY <1>4, <2>1, <2>4, <3>5, UpdateWrites DEF MarkLate
      <4>3. x.amount = row[b].price * x.percent
        BY <2>1, <2>4, <3>1, <3>5, <4>2 DEF AmountsFollow
      <4> QED
        BY <3>3, <4>1, <4>3
    <3> QED
      BY <3>1, <3>4, <3>5
  <2> QED
    BY <2>2, <2>3, <2>4
<1>5. ASSUME NEW w \in Worker, WriteFails(w) \/ RemoveOld(w) PROVE Exact(row'[b])
  BY <1>1, <1>5 DEF WriteFails, RemoveOld, marks
<1>6. ASSUME NEW c \in Book, DeleteBook(c) \/ \E on \in BOOLEAN : SetBookActiveState(c, on)
      PROVE  Exact(row'[b])
  <2>1. Inserted(b) /\ b \notin skewed
    BY <1>6, SwitchStep
  <2>2. /\ row'[b].amount = row[b].amount /\ row'[b].price = row[b].price
        /\ row'[b].percent = row[b].percent
    BY <1>6, <2>1, SwitchStep
  <2> QED
    BY <2>1, <2>2 DEF AmountExact
<1>7. CASE Crash
  BY <1>1, <1>7, CrashStep
<1>8. CASE UNCHANGED vars
  BY <1>1, <1>8 DEF vars, marks
<1> QED
  BY <1>2, <1>3, <1>4, <1>5, <1>6, <1>7, <1>8
     DEF Next, Handler, BeginAdd, BeginUpdate, BeginDiscount
LEMMA AmountsKnownStep ==
  ASSUME TypeOK, Prepared, AmountsFollow, AmountsKnown, [Next]_vars
  PROVE  AmountsKnown'
<1>1. ASSUME NEW v \in Worker, Busy(v)', work'[v].op # "remove"
      PROVE  work'[v].write.amount \in Amounts
  <2>1. CASE Busy(v) /\ work'[v] = work[v]
    BY <1>1, <2>1 DEF AmountsKnown
  <2>2. ASSUME NEW form \in Form, BeginAdd(v, form) PROVE work'[v].write.amount \in Amounts
    <3> DEFINE x == WithAmount(Copies(Kind) ++ form)
    <3>1. PICK job \in Job : Start(v, job) /\ job.write = x /\ stamp + 1 \in 1..MaxStamp
      BY <2>2, AddJob DEF Job
    <3>2. x \in Fields /\ x.amount = x.price * x.percent
      BY <3>1, AddWritten
    <3> HIDE DEF x
    <3>3. x.amount \in Amounts
      BY <3>2 DEF Fields, Amounts
    <3> QED
      BY <3>1, <3>3, StartStep
  <2>3. ASSUME NEW b \in Book, NEW e \in Edit, BeginUpdate(v, b, e)
        PROVE  work'[v].write.amount \in Amounts
    <3> DEFINE x == WithAmount(Copies(e.files) ++ e.fields ++ Details(b))
    <3>1. PICK job \in Job : /\ Start(v, job) /\ job.write = x /\ Inserted(b)
                             /\ e.files # {} => stamp + 1 \in 1..MaxStamp
      BY <2>3, UpdateJob DEF Job
    <3>2. x \in Fields /\ x.amount = x.price * x.percent
      BY <3>1, EditWritten
    <3> HIDE DEF x
    <3>3. x.amount \in Amounts
      BY <3>2 DEF Fields, Amounts
    <3> QED
      BY <3>1, <3>3, StartStep
  <2>4. ASSUME NEW b \in Book, NEW q \in Percent, BeginDiscount(v, b, q)
        PROVE  work'[v].write.amount \in Amounts
    <3>1. PICK job \in Job : /\ Start(v, job) /\ job.write.amount = row[b].price * q
                             /\ Inserted(b)
      BY <2>4, SetDiscountJob DEF Job, Offered
    <3>2. row[b].price \in Price
      BY <3>1, FilesOfRow DEF Row
    <3> QED
      BY <3>1, <3>2, StartStep DEF Amounts
  <2> QED
    BY <1>1, <2>1, <2>2, <2>3, <2>4, WorkStep
<1>2. ASSUME NEW b \in Book, Inserted(b)' PROVE row'[b].amount \in Amounts
  <2> DEFINE Goal == row'[b].amount \in Amounts
  <2>1. CASE row'[b] = row[b]
    BY <1>2, <2>1, RowElsewhere DEF AmountsKnown
  <2>2. ASSUME NEW w \in Worker, NEW c \in Book, Insert(w, c) PROVE Goal
    <3>1. CASE c = b
      <4>1. row'[b].amount = work[w].write.amount /\ Busy(w) /\ work[w].op = "add"
        BY <2>2, <3>1, InsertStep
      <4> QED
        BY <4>1 DEF AmountsKnown
    <3>2. CASE c # b
      BY <2>1, <2>2, <3>2, InsertStep
    <3> QED
      BY <3>1, <3>2
  <2>3. ASSUME NEW w \in Worker, Update(w) PROVE Goal
    <3>1. PICK c \in Book : c = work[w].book
      BY <2>3, UpdateStep
    <3>2. CASE row[c].deleted \/ b # c
      BY <2>1, <2>3, <3>1, <3>2, UpdateStep, UpdateDeleted
    <3>3. CASE ~row[c].deleted /\ b = c
      <4>1. Busy(w) /\ work[w].op \in {"update", "discount"}
        BY <2>3, UpdateStep
      <4>2. row'[b] = work[w].write ++ row[b]
        BY <2>3, <3>1, <3>3, UpdateWrites
      <4>3. row'[b].amount = work[w].write.amount
        BY <3>1, <3>3, <4>1, <4>2, UpdatedRow
      <4> QED
        BY <4>1, <4>3 DEF AmountsKnown
    <3> QED
      BY <3>2, <3>3
  <2>4. ASSUME NEW c \in Book, DeleteBook(c) \/ \E on \in BOOLEAN : SetBookActiveState(c, on)
        PROVE  Goal
    <3>1. Inserted(b)
      BY <1>2, <2>4, SwitchStep
    <3>2. row'[b].amount = row[b].amount
      BY <2>4, <3>1, SwitchStep
    <3> QED
      BY <3>1, <3>2 DEF AmountsKnown
  <2>5. CASE row' = row
    BY <2>1, <2>5
  <2> QED
    BY <2>2, <2>3, <2>4, <2>5
       DEF Next, Handler, BeginAdd, BeginUpdate, BeginDiscount, Start,
           WriteFails, RemoveOld, Crash, vars
<1> QED
  BY <1>1, <1>2 DEF AmountsKnown

LEMMA AmountInvariant == Spec => [](TypeOK /\ Prepared /\ AmountInv)
<1>1. Init => TypeOK /\ Prepared /\ AmountInv
  BY BoundAssumption
     DEF Init, TypeOK, Prepared, AmountInv, AmountsFollow, AmountsKnown, AmountExact, Busy, Inserted
<1>2. TypeOK /\ Prepared /\ AmountInv /\ [Next]_vars => TypeOK' /\ Prepared' /\ AmountInv'
  BY NextTypes, PreparedStep, AmountsFollowStep, AmountsKnownStep, AmountExactStep DEF AmountInv
<1> QED
  BY <1>1, <1>2, PTL DEF Spec

(* The amount of a discount is always the one of the price in the row, whoever *)
(* edits the book, but when the price was changed between the two statements   *)
(* of setBookDiscount.                                                         *)
THEOREM AmountsStay == Spec => []AmountExact
<1>1. AmountInv => AmountExact
  BY DEF AmountInv
<1> QED
  BY <1>1, AmountInvariant, PTL
(***************************************************************************)
(* What a write changes.                                                   *)
(***************************************************************************)

LEMMA WritesKeep ==
  ASSUME TypeOK, FilesInv, [Next]_vars, NEW b \in Book, Inserted(b), row'[b] # row[b]
  PROVE  \/ row'[b] = [row[b] EXCEPT !.active = row'[b].active, !.deleted = row'[b].deleted]
         \/ \E w \in Worker :
              /\ work[w] # NoWork
              /\ work[w].op \in {"update", "discount"}
              /\ work[w].book = b
              /\ \A f \in DOMAIN row[b] \ {"amount"} : row'[b][f] # row[b][f] =>
                   f \in DOMAIN work[w].sent \cup DOMAIN work[w].new \cup late[w]
<1> USE DEF FilesInv
<1> DEFINE Goal ==
      \/ row'[b] = [row[b] EXCEPT !.active = row'[b].active, !.deleted = row'[b].deleted]
      \/ \E w \in Worker :
           /\ work[w] # NoWork
           /\ work[w].op \in {"update", "discount"}
           /\ work[w].book = b
           /\ \A f \in DOMAIN row[b] \ {"amount"} : row'[b][f] # row[b][f] =>
                f \in DOMAIN work[w].sent \cup DOMAIN work[w].new \cup late[w]
<1>1. ASSUME NEW w \in Worker, NEW c \in Book, Insert(w, c) PROVE FALSE
  BY <1>1, InsertStep
<1>2. ASSUME NEW c \in Book, DeleteBook(c) \/ \E on \in BOOLEAN : SetBookActiveState(c, on)
      PROVE  Goal
  BY <1>2, SwitchStep
<1>3. ASSUME NEW w \in Worker, Update(w) PROVE Goal
  <2>1. /\ Busy(w) /\ work[w].op \in {"update", "discount"}
        /\ work[w].book = b /\ ~row[b].deleted
    <3>1. PICK c \in Book : c = work[w].book
      BY <1>3, UpdateStep
    <3>2. c = b
      BY <1>3, <3>1, UpdateStep
    <3>3. ~row[c].deleted
      BY <1>3, <3>1, UpdateDeleted
    <3> QED
      BY <1>3, <3>1, <3>2, <3>3, UpdateStep
  <2>2. row'[b] = work[w].write ++ row[b] /\ row[b] \in Row
    BY <1>3, <2>1, UpdateWrites
  <2>3. row'[b].active = row[b].active /\ row'[b].deleted = row[b].deleted
    BY <2>1, <2>2, UpdatedRow
  <2>4. DOMAIN row[b] = {"title", "price", "percent", "amount", "pdf", "cover", "active", "deleted"}
    BY <2>2 DEF Row
  <2>5. ASSUME NEW f \in {"title", "price", "percent", "pdf", "cover"}, row'[b][f] # row[b][f]
        PROVE  f \in DOMAIN work[w].sent \cup DOMAIN work[w].new \cup late[w]
    <3>1. CASE work[w].op = "update" /\ f \notin DOMAIN work[w].new
      <4>1. row'[b][f] = work[w].write[f]
        BY <2>1, <2>2, <3>1, UpdatedRow
      <4> QED
        BY <2>1, <2>5, <3>1, <4>1 DEF FilesInv, Copied
    <3>2. CASE work[w].op = "discount"
      <4>1. f = "percent"
        BY <2>1, <2>2, <2>5, <3>2, UpdatedRow
      <4>2. work[w].sent = [percent |-> work[w].write.percent]
        BY <2>1, <3>2 DEF FilesInv, Prepared
      <4> QED
        BY <4>1, <4>2
    <3> QED
      BY <2>1, <3>1, <3>2
  <2>6. \A f \in DOMAIN row[b] \ {"amount"} : row'[b][f] # row[b][f] =>
          f \in DOMAIN work[w].sent \cup DOMAIN work[w].new \cup late[w]
    BY <2>3, <2>4, <2>5
  <2> QED
    BY <2>1, <2>6 DEF Busy
<1>4. row' # row
  OBVIOUS
<1> QED
  BY <1>1, <1>2, <1>3, <1>4
     DEF Next, Handler, BeginAdd, BeginUpdate, BeginDiscount, Start,
         WriteFails, RemoveOld, Crash, vars

(* Although setBookDiscount and updateBook write whole rows, a write changes  *)
(* what its request names and undoes only what others changed in between.     *)
THEOREM WritesAreNarrow == Spec => OthersKept
<1> DEFINE Narrow ==
      \A b \in Book : Inserted(b) /\ row'[b] # row[b] =>
        \/ row'[b] = [row[b] EXCEPT !.active = row'[b].active, !.deleted = row'[b].deleted]
        \/ \E w \in Worker :
             /\ work[w] # NoWork
             /\ work[w].op \in {"update", "discount"}
             /\ work[w].book = b
             /\ \A f \in DOMAIN row[b] \ {"amount"} : row'[b][f] # row[b][f] =>
                  f \in DOMAIN work[w].sent \cup DOMAIN work[w].new \cup late[w]
<1>1. TypeOK /\ FilesInv /\ [Next]_vars => [Narrow]_vars
  BY WritesKeep
<1> QED
  BY <1>1, FilesInvariant, PTL DEF Spec, OthersKept

(***************************************************************************)
(* The catalogue of Bookshop.                                              *)
(***************************************************************************)
OnOffer == [b \in Book |-> Inserted(b) /\ row[b].active]
Gone == [b \in Book |-> Inserted(b) /\ row[b].deleted]
ToPay == [b \in Book |-> IF Inserted(b) THEN Payable(b) ELSE 0]

(* A step that changes the row of b alone, seen from Bookshop. *)
LEMMA OneRow ==
  ASSUME TypeOK, TypeOK', NEW b \in Book, Inserted(b)', \A c \in Book \ {b} : row'[c] = row[c]
  PROVE  /\ OnOffer' = [OnOffer EXCEPT ![b] = row'[b].active]
         /\ Gone' = [Gone EXCEPT ![b] = row'[b].deleted]
         /\ ToPay' = [ToPay EXCEPT ![b] = 100 * row'[b].price - row'[b].amount]
<1>1. row'[b] \in Row
  BY DEF TypeOK, Inserted
<1>2. row'[b].active \in BOOLEAN /\ row'[b].deleted \in BOOLEAN
  BY <1>1 DEF Row
<1>3. \A c \in Book \ {b} : /\ OnOffer'[c] = OnOffer[c] /\ Gone'[c] = Gone[c]
                            /\ ToPay'[c] = ToPay[c]
  BY DEF OnOffer, Gone, ToPay, Inserted, Payable
<1>4. /\ OnOffer'[b] = row'[b].active /\ Gone'[b] = row'[b].deleted
      /\ ToPay'[b] = 100 * row'[b].price - row'[b].amount
  BY <1>2 DEF OnOffer, Gone, ToPay, Payable, Inserted
<1> QED
  BY <1>3, <1>4 DEF OnOffer, Gone, ToPay

LEMMA PayableIsMoney ==
  ASSUME NEW x \in Price, NEW a \in Amounts
  PROVE  100 * x - a \in Money
BY DEF Amounts, Money
LEMMA StepImplements ==
  ASSUME TypeOK, Prepared, AmountInv, [Next]_vars
  PROVE  [Shop!Next]_(Shop!shopVars)
<1> DEFINE Same == UNCHANGED <<OnOffer, Gone, ToPay>>
           Goal == [Shop!Next]_(Shop!shopVars)
<1> TypeOK' /\ AmountsKnown'
  BY NextTypes, AmountsKnownStep DEF AmountInv
<1>1. Same => Goal
  BY DEF Shop!shopVars, OnOffer, Gone, ToPay
<1>2. row' = row => Same
  BY DEF OnOffer, Gone, ToPay, Inserted, Payable
<1>3. ASSUME NEW w \in Worker, NEW job, Start(w, job) PROVE Goal
  BY <1>1, <1>2, <1>3 DEF Start
<1>4. ASSUME NEW w \in Worker, NEW b \in Book, Insert(w, b) PROVE Goal
  <2>1. /\ ~Inserted(b) /\ Inserted(b)' /\ row'[b].active = TRUE /\ row'[b].deleted = FALSE
        /\ \A c \in Book \ {b} : row'[c] = row[c]
    BY <1>4, InsertStep
  <2>2. PICK p \in Money : p = 100 * row'[b].price - row'[b].amount
    <3>1. row'[b].price \in Price /\ row'[b].amount \in Amounts
      BY <2>1 DEF TypeOK, Inserted, Row, AmountsKnown
    <3> QED
      BY <3>1, PayableIsMoney
  <2>3. /\ OnOffer' = [OnOffer EXCEPT ![b] = TRUE]
        /\ Gone' = [Gone EXCEPT ![b] = FALSE]
        /\ ToPay' = [ToPay EXCEPT ![b] = p]
    BY <2>1, <2>2, OneRow
  <2>4. Gone' = Gone /\ ~OnOffer[b] /\ ~Gone[b]
    BY <2>1, <2>3 DEF Gone, OnOffer
  <2>5. Shop!Offer(b, p)
    BY <2>3, <2>4 DEF Shop!Offer, OnOffer, Gone, ToPay
  <2> QED
    BY <2>2, <2>5 DEF Shop!Next
<1>5. ASSUME NEW w \in Worker, Update(w) PROVE Goal
  <2>1. PICK b \in Book : b = work[w].book /\ Inserted(b)
    BY <1>5, UpdateStep
  <2>2. CASE row[b].deleted
    BY <1>1, <1>2, <1>5, <2>1, <2>2, UpdateDeleted
  <2>3. CASE ~row[b].deleted
    <3> DEFINE p == 100 * row'[b].price - row'[b].amount
    <3>1. Busy(w) /\ work[w].op \in {"update", "discount"}
      BY <1>5, UpdateStep
    <3>2. Inserted(b)' /\ row'[b] = work[w].write ++ row[b] /\ row[b] \in Row
      BY <1>5, <2>1, <2>3, UpdateWrites
    <3>3. row'[b].active = row[b].active /\ row'[b].deleted = row[b].deleted
      BY <2>1, <3>1, <3>2, UpdatedRow
    <3>4. \A c \in Book \ {b} : row'[c] = row[c]
      BY <1>5, <2>1, UpdateStep
    <3>5. /\ OnOffer' = [OnOffer EXCEPT ![b] = row[b].active]
          /\ Gone' = [Gone EXCEPT ![b] = row[b].deleted]
          /\ ToPay' = [ToPay EXCEPT ![b] = p]
      BY <3>2, <3>3, <3>4, OneRow
    <3>6. p \in Money
      <4>1. row'[b].price \in Price /\ row'[b].amount \in Amounts
        BY <3>2 DEF TypeOK, Inserted, Row, AmountsKnown
      <4> QED
        BY <4>1, PayableIsMoney
    <3>7. /\ row[b].active \in BOOLEAN /\ row[b].deleted \in BOOLEAN
      BY <3>2 DEF Row
    <3>8. OnOffer' = OnOffer /\ Gone' = Gone /\ ~Gone[b]
      <4>1. OnOffer[b] = row[b].active /\ Gone[b] = row[b].deleted
        BY <2>1, <3>7 DEF OnOffer, Gone
      <4>2. OnOffer = [OnOffer EXCEPT ![b] = OnOffer[b]] /\ Gone = [Gone EXCEPT ![b] = Gone[b]]
        BY DEF OnOffer, Gone
      <4> QED
        BY <2>3, <3>5, <4>1, <4>2
    <3>9. Shop!Reprice(b, p)
      BY <3>5, <3>8 DEF Shop!Reprice, OnOffer, Gone, ToPay
    <3> HIDE DEF p
    <3> QED
      BY <3>6, <3>9 DEF Shop!Next
  <2> QED
    BY <2>2, <2>3
<1>6. ASSUME NEW w \in Worker, WriteFails(w) \/ RemoveOld(w) PROVE Goal
  BY <1>1, <1>2, <1>6 DEF WriteFails, RemoveOld
<1>7. ASSUME NEW b \in Book, NEW on \in BOOLEAN, SetBookActiveState(b, on) PROVE Goal
  <2>1. row' = [row EXCEPT ![b].active = on] /\ Inserted(b) /\ ~row[b].deleted
    BY <1>7 DEF SetBookActiveState, Offered
  <2>2. row[b] \in Row
    BY <2>1, FilesOfRow
  <2>3. row'[b] = [row[b] EXCEPT !.active = on] /\ \A c \in Book \ {b} : row'[c] = row[c]
    BY <2>1 DEF TypeOK
  <2>4. /\ row'[b].active = on /\ row'[b].deleted = row[b].deleted
        /\ row'[b].price = row[b].price /\ row'[b].amount = row[b].amount
    BY <2>2, <2>3 DEF Row
  <2>5. Inserted(b)'
    BY <1>7, <2>1, SwitchStep
  <2>6. /\ OnOffer' = [OnOffer EXCEPT ![b] = on]
        /\ Gone' = [Gone EXCEPT ![b] = FALSE]
        /\ ToPay' = [ToPay EXCEPT ![b] = 100 * row[b].price - row[b].amount]
    <3>1. row'[b].deleted = FALSE
      BY <2>1, <2>2, <2>4 DEF Row
    <3> QED
      BY <2>3, <2>4, <2>5, <3>1, OneRow
  <2>7. ~Gone[b] /\ Gone' = Gone /\ ToPay' = ToPay
    <3>1. Gone[b] = FALSE /\ ToPay[b] = 100 * row[b].price - row[b].amount
      BY <2>1 DEF Gone, ToPay, Payable
    <3>2. Gone = [Gone EXCEPT ![b] = Gone[b]] /\ ToPay = [ToPay EXCEPT ![b] = ToPay[b]]
      BY DEF Gone, ToPay
    <3> QED
      BY <2>6, <3>1, <3>2
  <2>8. Shop!SwitchTo(b, on)
    BY <2>6, <2>7 DEF Shop!SwitchTo, OnOffer, Gone, ToPay
  <2> QED
    BY <2>8 DEF Shop!Next
<1>8. ASSUME NEW b \in Book, DeleteBook(b) PROVE Goal
  <2>1. /\ row' = [row EXCEPT ![b] = [row[b] EXCEPT !.active = FALSE, !.deleted = TRUE]]
        /\ Inserted(b)
    BY <1>8 DEF DeleteBook
  <2>2. row[b] \in Row
    BY <2>1, FilesOfRow
  <2>3. /\ row'[b] = [row[b] EXCEPT !.active = FALSE, !.deleted = TRUE]
        /\ \A c \in Book \ {b} : row'[c] = row[c]
    BY <2>1 DEF TypeOK
  <2>4. /\ row'[b].active = FALSE /\ row'[b].deleted = TRUE
        /\ row'[b].price = row[b].price /\ row'[b].amount = row[b].amount
    BY <2>2, <2>3 DEF Row
  <2>5. Inserted(b)'
    BY <1>8, <2>1, SwitchStep
  <2>6. /\ OnOffer' = [OnOffer EXCEPT ![b] = FALSE]
        /\ Gone' = [Gone EXCEPT ![b] = TRUE]
        /\ ToPay' = [ToPay EXCEPT ![b] = 100 * row[b].price - row[b].amount]
    BY <2>3, <2>4, <2>5, OneRow
  <2>7. ToPay' = ToPay
    BY <2>1, <2>6 DEF ToPay, Payable
  <2>8. Shop!Withdraw(b)
    BY <2>6, <2>7 DEF Shop!Withdraw, OnOffer, Gone, ToPay
  <2> QED
    BY <2>8 DEF Shop!Next
<1>9. CASE Crash
  BY <1>1, <1>2, <1>9 DEF Crash
<1>10. CASE UNCHANGED vars
  BY <1>1, <1>2, <1>10 DEF vars
<1> QED
  BY <1>3, <1>4, <1>5, <1>6, <1>7, <1>8, <1>9, <1>10
     DEF Next, Handler, BeginAdd, BeginUpdate, BeginDiscount

(* The editing of books, spread over rows, files and steps, is that of         *)
(* Bookshop: a book is offered, repriced, switched and withdrawn at one        *)
(* instant, and what handleUpdateBook began before a deletion never undoes it. *)
THEOREM EditingIsAtomic == Spec => ImplementsBookshop
<1>1. Init => Shop!Init
  <2> SUFFICES ASSUME Init PROVE Shop!Init
    OBVIOUS
  <2>1. \A b \in Book : ~Inserted(b)
    BY DEF Init, Inserted
  <2>2. [b \in Book |-> Inserted(b) /\ row[b].active] \in [Book -> BOOLEAN]
    BY <2>1
  <2>3. [b \in Book |-> Inserted(b) /\ row[b].deleted] = [b \in Book |-> FALSE]
    BY <2>1
  <2>4. [b \in Book |-> IF Inserted(b) THEN Payable(b) ELSE 0] \in [Book -> Money]
    BY <2>1 DEF Money
  <2>5. [u \in {} |-> 0] = [u \in {} |-> Shop!NoRows]
    OBVIOUS
  <2> QED
    BY <2>2, <2>3, <2>4, <2>5 DEF Shop!Init
<1>2. TypeOK /\ Prepared /\ AmountInv /\ [Next]_vars => [Shop!Next]_(Shop!shopVars)
  BY StepImplements
<1> QED
  BY <1>1, <1>2, AmountInvariant, PTL DEF Spec, ImplementsBookshop, Shop!Spec

-----------------------------------------------------------------------------
(***************************************************************************)
(* Proofs about CardPages, for any books, and any number of clicks, faults *)
(* and changes from elsewhere.                                             *)
(*                                                                         *)
(* Each part of the type has its invariant: the queues hold requests and   *)
(* answers of the forms that the handlers make, and the cards are of the   *)
(* rows.  CardsCurrent speaks of the moments when nothing is on its way.   *)
(* CardsInv says of every moment which of the lists on its way, or on the  *)
(* page, will be the last one to fill it, and that this one is right but   *)
(* for the clicks that are still to be answered.                           *)
(***************************************************************************)

(* What is on its way, whichever it is. *)

(* Something of M is in the queue q; something of M with nothing of N after   *)
(* it; two of M with nothing of N after the first.                            *)
Has(q, M) == \E k \in 1..Len(q) : q[k] \in M
Left(q, M, N) == \E k \in 1..Len(q) : q[k] \in M /\ \A i \in (k + 1)..Len(q) : q[i] \notin N
LeftTwice(q, M, N) ==
  \E j, k \in 1..Len(q) :
    j < k /\ q[j] \in M /\ q[k] \in M /\ \A i \in (j + 1)..Len(q) : q[i] \notin N

LEMMA AppendSeq ==
  ASSUME NEW S, NEW q \in Seq(S), NEW m \in S
  PROVE /\ Append(q, m) \in Seq(S)
        /\ Append(q, m) # <<>>
        /\ Len(q) \in Nat
        /\ Len(Append(q, m)) = Len(q) + 1
        /\ Append(q, m)[Len(q) + 1] = m
        /\ \A i \in 1..Len(q) : Append(q, m)[i] = q[i]
        /\ q # <<>> => Head(Append(q, m)) = Head(q)
        /\ q = <<>> => Head(Append(q, m)) = m
OBVIOUS

LEMMA TailSeq ==
  ASSUME NEW S, NEW q \in Seq(S), q # <<>>
  PROVE /\ Tail(q) \in Seq(S)
        /\ Head(q) \in S
        /\ Head(q) = q[1]
        /\ Len(q) \in Nat \ {0}
        /\ Len(Tail(q)) = Len(q) - 1
        /\ \A i \in 1..(Len(q) - 1) : Tail(q)[i] = q[i + 1]
OBVIOUS

LEMMA InAppend ==
  ASSUME NEW S, NEW q \in Seq(S), NEW m \in S, NEW M, NEW N
  PROVE /\ Has(Append(q, m), M) <=> Has(q, M) \/ m \in M
        /\ Left(Append(q, m), M, N) <=> m \in M \/ (Left(q, M, N) /\ m \notin N)
<1> DEFINE r == Append(q, m)
           n == Len(q)
<1>1. /\ n \in Nat
      /\ Len(r) = n + 1
      /\ r[n + 1] = m
      /\ \A i \in 1..n : r[i] = q[i]
  BY AppendSeq
<1> HIDE DEF r, n
<1>2. (\E k \in 1..(n + 1) : r[k] \in M) <=> (\E k \in 1..n : q[k] \in M) \/ m \in M
  BY <1>1
<1>3. Has(r, M) <=> Has(q, M) \/ m \in M
  BY <1>1, <1>2 DEF Has, n
<1>4. ASSUME Left(r, M, N) PROVE m \in M \/ (Left(q, M, N) /\ m \notin N)
  <2>1. PICK k \in 1..(n + 1) : r[k] \in M /\ \A i \in (k + 1)..(n + 1) : r[i] \notin N
    BY <1>1, <1>4 DEF Left
  <2>2. CASE k = n + 1
    BY <1>1, <2>1, <2>2
  <2>3. CASE k # n + 1
    <3>1. k \in 1..n /\ q[k] \in M /\ n + 1 \in (k + 1)..(n + 1)
      BY <1>1, <2>1, <2>3
    <3>2. \A i \in (k + 1)..n : q[i] \notin N
      BY <1>1, <2>1, <3>1
    <3>3. Left(q, M, N)
      BY <3>1, <3>2 DEF Left, n
    <3>4. m \notin N
      BY <1>1, <2>1, <3>1
    <3>5. QED
      BY <3>3, <3>4
  <2>4. QED
    BY <2>2, <2>3
<1>5. ASSUME m \in M PROVE Left(r, M, N)
  <2>1. n + 1 \in 1..Len(r) /\ r[n + 1] \in M
    BY <1>1, <1>5
  <2>2. \A i \in (n + 1 + 1)..Len(r) : r[i] \notin N
    BY <1>1
  <2>3. QED
    BY <2>1, <2>2 DEF Left
<1>6. ASSUME Left(q, M, N), m \notin N PROVE Left(r, M, N)
  <2>1. PICK k \in 1..n : q[k] \in M /\ \A i \in (k + 1)..n : q[i] \notin N
    BY <1>6 DEF Left, n
  <2>2. \A i \in (k + 1)..(n + 1) : r[i] \notin N
    <3>1. \A i \in (k + 1)..(n + 1) : i = n + 1 \/ (i \in (k + 1)..n /\ i \in 1..n)
      BY <1>1
    <3>2. QED
      BY <1>1, <1>6, <2>1, <3>1
  <2>3. k \in 1..Len(r) /\ r[k] \in M
    BY <1>1, <2>1
  <2>4. QED
    BY <1>1, <2>2, <2>3 DEF Left
<1>7. QED
  BY <1>3, <1>4, <1>5, <1>6 DEF r

LEMMA InTail ==
  ASSUME NEW S, NEW q \in Seq(S), q # <<>>, NEW M, NEW N
  PROVE /\ Has(q, M) <=> Head(q) \in M \/ Has(Tail(q), M)
        /\ Left(q, M, N) <=> (Head(q) \in M /\ ~Has(Tail(q), N)) \/ Left(Tail(q), M, N)
<1> DEFINE r == Tail(q)
           n == Len(r)
           h == Head(q)
<1>1. /\ n \in Nat
      /\ Len(q) = n + 1
      /\ q[1] = h
      /\ \A i \in 1..n : r[i] = q[i + 1]
  BY TailSeq
<1> HIDE DEF r, n, h
<1>2. \A k \in 1..(n + 1) : k = 1 \/ (k - 1 \in 1..n /\ r[k - 1] = q[k])
  BY <1>1
<1>3. \A k \in 1..n : k + 1 \in 1..(n + 1) /\ r[k] = q[k + 1]
  BY <1>1
<1>4. 1 \in 1..(n + 1)
  BY <1>1
<1>5. Has(q, M) <=> h \in M \/ Has(r, M)
  BY <1>1, <1>2, <1>3, <1>4 DEF Has, n
<1>6. ASSUME Left(q, M, N) PROVE (h \in M /\ ~Has(r, N)) \/ Left(r, M, N)
  <2>1. PICK k \in 1..(n + 1) : q[k] \in M /\ \A i \in (k + 1)..(n + 1) : q[i] \notin N
    BY <1>1, <1>6 DEF Left
  <2>2. CASE k = 1
    <3>1. \A i \in 1..n : r[i] \notin N
      BY <1>3, <2>1, <2>2
    <3>2. QED
      BY <1>1, <2>1, <2>2, <3>1 DEF Has, n
  <2>3. CASE k # 1
    <3>1. k - 1 \in 1..n /\ r[k - 1] \in M
      BY <1>2, <2>1, <2>3
    <3>2. \A i \in ((k - 1) + 1)..n : r[i] \notin N
      <4>1. \A i \in ((k - 1) + 1)..n : i \in 1..n /\ i + 1 \in (k + 1)..(n + 1)
        BY <1>1
      <4>2. QED
        BY <1>3, <2>1, <4>1
    <3>3. QED
      BY <3>1, <3>2 DEF Left, n
  <2>4. QED
    BY <2>2, <2>3
<1>7. ASSUME h \in M, ~Has(r, N) PROVE Left(q, M, N)
  <2>1. \A i \in (1 + 1)..Len(q) : q[i] \notin N
    <3>1. \A i \in (1 + 1)..Len(q) : i - 1 \in 1..n /\ r[i - 1] = q[i]
      BY <1>1, <1>2
    <3>2. QED
      BY <1>7, <3>1 DEF Has, n
  <2>2. QED
    BY <1>1, <1>4, <1>7, <2>1 DEF Left
<1>8. ASSUME Left(r, M, N) PROVE Left(q, M, N)
  <2>1. PICK k \in 1..n : r[k] \in M /\ \A i \in (k + 1)..n : r[i] \notin N
    BY <1>8 DEF Left, n
  <2>2. k + 1 \in 1..Len(q) /\ q[k + 1] \in M
    BY <1>1, <1>3, <2>1
  <2>3. \A i \in ((k + 1) + 1)..Len(q) : q[i] \notin N
    <3>1. \A i \in ((k + 1) + 1)..Len(q) : i - 1 \in (k + 1)..n /\ i - 1 \in 1..n /\ r[i - 1] = q[i]
      BY <1>1, <1>2
    <3>2. QED
      BY <2>1, <3>1
  <2>4. QED
    BY <2>2, <2>3 DEF Left
<1>9. QED
  BY <1>5, <1>6, <1>7, <1>8 DEF r, h

LEMMA HasAppend ==
  ASSUME NEW S, NEW q \in Seq(S), NEW m \in S, NEW M
  PROVE Has(Append(q, m), M) <=> Has(q, M) \/ m \in M
BY InAppend

LEMMA HasTail ==
  ASSUME NEW S, NEW q \in Seq(S), q # <<>>, NEW M
  PROVE Has(q, M) <=> Head(q) \in M \/ Has(Tail(q), M)
BY InTail

LEMMA InEmpty ==
  ASSUME NEW M, NEW N
  PROVE ~Has(<<>>, M) /\ ~Left(<<>>, M, N)
BY DEF Has, Left


-----------------------------------------------------------------------------
(* Types. *)

Shown == [active : BOOLEAN, discount : Discount]
Listing == UNION {[S -> Shown] : S \in SUBSET Item}
Request ==
  [type : {"LIST"}] \cup [type : {"SEARCH"}, active : BOOLEAN]
    \cup [type : {"SET"}, item : Item, active : BOOLEAN]
    \cup [type : {"DISCOUNT"}, item : Item, percent : Discount]
    \cup [type : {"DELETE"}, item : Item]
Response ==
  [type : {"LIST"}, cards : Listing, found : BOOLEAN, failed : BOOLEAN]
    \cup [type : {"SET", "DISCOUNT", "DELETE"}, ok : BOOLEAN]

Typed ==
  /\ CardsTypeOK
  /\ rows \in [Item -> [active : BOOLEAN, discount : Discount, deleted : BOOLEAN]]
  /\ cards \in Listing
  /\ found \in BOOLEAN
  /\ asked \in [item : Item \cup {NoItem}, percent : Discount]
  /\ conn \in BOOLEAN
  /\ line \in Seq(Request)
  /\ down \in Seq(Response)
  /\ since \in BOOLEAN
  /\ since => "others" \in why

-----------------------------------------------------------------------------
(* The invariant. *)

Lists == {m \in Response : m.type = "LIST"}
Sets == {m \in Response : m.type = "SET"}
SetNot == {m \in Sets : ~m.ok}
Discounts == {m \in Response : m.type = "DISCOUNT"}
DiscountDone == {m \in Discounts : m.ok}
DeleteDone == {m \in Response : m.type = "DELETE" /\ m.ok}

Reloads == {r \in Request : r.type \in {"LIST", "SEARCH"}}
SetOf(i) == {r \in Request : r.type = "SET" /\ r.item = i}
SetTo(i, a) == {r \in SetOf(i) : r.active = a}
Asks == {r \in Request : r.type = "DISCOUNT"}
AsksFor(a) == {r \in Asks : r.item = a.item /\ r.percent = a.percent}

(* The page as if a list had brought it; the last list there is, on its way   *)
(* or else shown; something of X comes after it.                              *)
Page == [type |-> "LIST", cards |-> cards, found |-> found, failed |-> FALSE]
LastIn(q, p, x) == IF Has(q, Lists) THEN Left(q, {x}, Lists) ELSE x = p
IsLast(x) == LastIn(down, Page, x)
After(X) == Left(down, X, Lists)
Two ==
  \/ LeftTwice(line, Asks, {})
  \/ Has(line, Asks) /\ After(Discounts)
  \/ LeftTwice(down, Discounts, Lists)

(* What is wrong with a list. *)
Vanished(x) == \E i \in DOMAIN x.cards : rows[i].deleted
Short(x) == ~x.found /\ \E i \in Present : i \notin DOMAIN x.cards
OffActive(x) == \E i \in DOMAIN x.cards \cap Present : x.cards[i].active # rows[i].active
OffDiscount(x) ==
  \E i \in DOMAIN x.cards \cap Present :
    x.cards[i].discount # rows[i].discount /\ ~(After(DiscountDone) /\ asked.item = i)

Sound(x) == IF Has(down, Lists) THEN ~since /\ ~x.failed ELSE why = {}

ClicksShown ==
  \A i \in DOMAIN cards :
    /\ Has(line, SetOf(i)) => Left(line, SetTo(i, cards[i].active), SetOf(i))
    /\ ~Has(line, SetOf(i)) /\ ~rows[i].deleted /\ ~failed /\ ~Has(down, SetNot)
         => cards[i].active = rows[i].active

RightRows(x) == (Vanished(x) => After(DeleteDone)) /\ ~Short(x)
RightDiscounts(x) ==
  Two \/ /\ ~OffDiscount(x)
         /\ After(DiscountDone) => asked.item \in Item /\ rows[asked.item].discount = asked.percent
RightActive(x) ==
  IF Has(down, Lists) THEN OffActive(x) => After(Sets) ELSE ~Two /\ ClicksShown

LastAsked == Has(line, Asks) => Left(line, AsksFor(asked), Asks)
Right(x) == RightRows(x) /\ RightDiscounts(x) /\ RightActive(x)
Coming == \E x \in Lists : IsLast(x) /\ (Has(line, Reloads) \/ ~Sound(x) \/ Right(x))
CardsInv == LastAsked /\ Coming

-----------------------------------------------------------------------------
LEMMA TwiceAppend ==
  ASSUME NEW S, NEW q \in Seq(S), NEW m \in S, NEW M, NEW N
  PROVE LeftTwice(Append(q, m), M, N)
          <=> m \notin N /\ (LeftTwice(q, M, N) \/ (m \in M /\ Left(q, M, N)))
<1> DEFINE r == Append(q, m)
           n == Len(q)
<1>1. /\ n \in Nat
      /\ Len(r) = n + 1
      /\ r[n + 1] = m
      /\ \A i \in 1..n : r[i] = q[i]
  BY AppendSeq
<1> HIDE DEF r, n
<1>2. ASSUME LeftTwice(r, M, N)
      PROVE m \notin N /\ (LeftTwice(q, M, N) \/ (m \in M /\ Left(q, M, N)))
  <2>1. PICK j, k \in 1..(n + 1) : /\ j < k /\ r[j] \in M /\ r[k] \in M
                                   /\ \A i \in (j + 1)..(n + 1) : r[i] \notin N
    BY <1>1, <1>2 DEF LeftTwice
  <2>2. j \in 1..n /\ q[j] \in M /\ n + 1 \in (j + 1)..(n + 1)
    BY <1>1, <2>1
  <2>3. \A i \in (j + 1)..n : i \in (j + 1)..(n + 1) /\ i \in 1..n
    BY <1>1, <2>2
  <2>4. m \notin N /\ \A i \in (j + 1)..n : q[i] \notin N
    BY <1>1, <2>1, <2>2, <2>3
  <2>5. CASE k = n + 1
    BY <1>1, <2>1, <2>2, <2>4, <2>5 DEF Left, n
  <2>6. CASE k # n + 1
    <3>1. k \in 1..n /\ q[k] \in M
      BY <1>1, <2>1, <2>6
    <3>2. QED
      BY <2>1, <2>2, <2>4, <3>1 DEF LeftTwice, n
  <2>7. QED
    BY <2>5, <2>6
<1>3. \A j \in 1..n : j \in 1..(n + 1) /\ \A i \in (j + 1)..(n + 1) : i = n + 1 \/ (i \in (j + 1)..n /\ i \in 1..n)
  BY <1>1
<1>4. ASSUME m \notin N, LeftTwice(q, M, N) PROVE LeftTwice(r, M, N)
  <2>1. PICK j, k \in 1..n : /\ j < k /\ q[j] \in M /\ q[k] \in M
                             /\ \A i \in (j + 1)..n : q[i] \notin N
    BY <1>4 DEF LeftTwice, n
  <2>2. \A i \in (j + 1)..(n + 1) : r[i] \notin N
    BY <1>1, <1>3, <1>4, <2>1
  <2>3. j \in 1..Len(r) /\ k \in 1..Len(r) /\ r[j] \in M /\ r[k] \in M
    BY <1>1, <1>3, <2>1
  <2>4. QED
    BY <1>1, <2>1, <2>2, <2>3 DEF LeftTwice
<1>5. ASSUME m \notin N, m \in M, Left(q, M, N) PROVE LeftTwice(r, M, N)
  <2>1. PICK j \in 1..n : q[j] \in M /\ \A i \in (j + 1)..n : q[i] \notin N
    BY <1>5 DEF Left, n
  <2>2. \A i \in (j + 1)..(n + 1) : r[i] \notin N
    BY <1>1, <1>3, <1>5, <2>1
  <2>3. j \in 1..Len(r) /\ n + 1 \in 1..Len(r) /\ j < n + 1 /\ r[j] \in M /\ r[n + 1] \in M
    BY <1>1, <1>3, <1>5, <2>1
  <2>4. QED
    BY <1>1, <2>2, <2>3 DEF LeftTwice
<1>6. QED
  BY <1>2, <1>4, <1>5 DEF r

LEMMA TwiceTail ==
  ASSUME NEW S, NEW q \in Seq(S), q # <<>>, NEW M, NEW N
  PROVE LeftTwice(q, M, N)
          <=> LeftTwice(Tail(q), M, N) \/ (Head(q) \in M /\ Has(Tail(q), M) /\ ~Has(Tail(q), N))
<1> DEFINE r == Tail(q)
           n == Len(r)
           h == Head(q)
<1>1. /\ n \in Nat
      /\ Len(q) = n + 1
      /\ q[1] = h
      /\ \A i \in 1..n : r[i] = q[i + 1]
  BY TailSeq
<1> HIDE DEF r, n, h
<1>2. \A k \in 2..(n + 1) : k - 1 \in 1..n /\ r[k - 1] = q[k]
  BY <1>1
<1>3. \A k \in 1..n : k + 1 \in 2..(n + 1) /\ k + 1 \in 1..(n + 1) /\ r[k] = q[k + 1]
  BY <1>1
<1>4. ASSUME LeftTwice(q, M, N)
      PROVE LeftTwice(r, M, N) \/ (h \in M /\ Has(r, M) /\ ~Has(r, N))
  <2>1. PICK j, k \in 1..(n + 1) : /\ j < k /\ q[j] \in M /\ q[k] \in M
                                   /\ \A i \in (j + 1)..(n + 1) : q[i] \notin N
    BY <1>1, <1>4 DEF LeftTwice
  <2>2. k \in 2..(n + 1)
    BY <1>1, <2>1
  <2>3. k - 1 \in 1..n /\ r[k - 1] \in M
    BY <1>2, <2>1, <2>2
  <2>4. CASE j = 1
    <3>1. \A i \in 1..n : r[i] \notin N
      BY <1>3, <2>1, <2>4
    <3>2. QED
      BY <1>1, <2>1, <2>3, <2>4, <3>1 DEF Has, n
  <2>5. CASE j # 1
    <3>1. j \in 2..(n + 1)
      BY <1>1, <2>1, <2>5
    <3>2. j - 1 \in 1..n /\ r[j - 1] \in M /\ j - 1 < k - 1
      BY <1>1, <1>2, <2>1, <3>1
    <3>3. \A i \in ((j - 1) + 1)..n : r[i] \notin N
      <4>1. \A i \in ((j - 1) + 1)..n : i \in 1..n /\ i + 1 \in (j + 1)..(n + 1)
        BY <1>1, <3>1
      <4>2. QED
        BY <1>3, <2>1, <4>1
    <3>4. QED
      BY <2>3, <3>2, <3>3 DEF LeftTwice, n
  <2>6. QED
    BY <2>4, <2>5
<1>5. ASSUME LeftTwice(r, M, N) PROVE LeftTwice(q, M, N)
  <2>1. PICK j, k \in 1..n : /\ j < k /\ r[j] \in M /\ r[k] \in M
                             /\ \A i \in (j + 1)..n : r[i] \notin N
    BY <1>5 DEF LeftTwice, n
  <2>2. \A i \in ((j + 1) + 1)..(n + 1) : i \in 2..(n + 1) /\ i - 1 \in (j + 1)..n
    BY <1>1
  <2>3. \A i \in ((j + 1) + 1)..(n + 1) : q[i] \notin N
    BY <1>2, <2>1, <2>2
  <2>4. j + 1 \in 1..Len(q) /\ k + 1 \in 1..Len(q) /\ q[j + 1] \in M /\ q[k + 1] \in M /\ j + 1 < k + 1
    BY <1>1, <1>3, <2>1
  <2>5. QED
    BY <1>1, <2>3, <2>4 DEF LeftTwice
<1>6. ASSUME h \in M, Has(r, M), ~Has(r, N) PROVE LeftTwice(q, M, N)
  <2>1. PICK k \in 1..n : r[k] \in M
    BY <1>6 DEF Has, n
  <2>2. \A i \in (1 + 1)..(n + 1) : q[i] \notin N
    <3>1. \A i \in (1 + 1)..(n + 1) : i \in 2..(n + 1)
      OBVIOUS
    <3>2. QED
      BY <1>2, <1>6, <3>1 DEF Has, n
  <2>3. 1 \in 1..Len(q) /\ k + 1 \in 1..Len(q) /\ q[1] \in M /\ q[k + 1] \in M /\ 1 < k + 1
    BY <1>1, <1>3, <1>6, <2>1
  <2>4. QED
    BY <1>1, <2>2, <2>3 DEF LeftTwice
<1>7. QED
  BY <1>4, <1>5, <1>6 DEF r, h

LEMMA TwiceEmpty == ASSUME NEW M, NEW N PROVE ~LeftTwice(<<>>, M, N)
BY DEF LeftTwice

LEMMA LeftHas ==
  ASSUME NEW q, NEW M, NEW N
  PROVE Left(q, M, N) => Has(q, M)
BY DEF Left, Has

-----------------------------------------------------------------------------
(* Types. *)

LEMMA RequestFields ==
  ASSUME NEW r \in Request
  PROVE /\ r.type \in {"LIST", "SEARCH", "SET", "DISCOUNT", "DELETE"}
        /\ r.type \in {"SET", "DISCOUNT", "DELETE"} => r.item \in Item
        /\ r.type \in {"SEARCH", "SET"} => r.active \in BOOLEAN
        /\ r.type = "DISCOUNT" => r.percent \in Discount
BY DEF Request

LEMMA ResponseFields ==
  ASSUME NEW m \in Response
  PROVE /\ m.type \in {"LIST", "SET", "DISCOUNT", "DELETE"}
        /\ m.type = "LIST" => /\ m.cards \in Listing /\ m.found \in BOOLEAN
                              /\ m.failed \in BOOLEAN
                              /\ m = [type |-> "LIST", cards |-> m.cards, found |-> m.found,
                                      failed |-> m.failed]
        /\ m.type # "LIST" => m.ok \in BOOLEAN
BY DEF Response

LEMMA Requests ==
  /\ [type |-> "LIST"] \in Request
  /\ \A a \in BOOLEAN : [type |-> "SEARCH", active |-> a] \in Request
  /\ \A i \in Item : [type |-> "DELETE", item |-> i] \in Request
  /\ \A i \in Item, a \in BOOLEAN : [type |-> "SET", item |-> i, active |-> a] \in Request
  /\ \A i \in Item, p \in Discount : [type |-> "DISCOUNT", item |-> i, percent |-> p] \in Request
BY DEF Request

LEMMA Responses ==
  /\ \A c \in Listing, f, g \in BOOLEAN :
       [type |-> "LIST", cards |-> c, found |-> f, failed |-> g] \in Response
  /\ \A t \in {"SET", "DISCOUNT", "DELETE"}, ok \in BOOLEAN : [type |-> t, ok |-> ok] \in Response
BY DEF Response

LEMMA ListingFields ==
  ASSUME NEW c \in Listing
  PROVE /\ DOMAIN c \subseteq Item
        /\ c = [i \in DOMAIN c |-> c[i]]
        /\ \A i \in DOMAIN c : c[i] \in Shown
<1>1. PICK S \in SUBSET Item : c \in [S -> Shown]
  BY DEF Listing
<1>2. QED
  BY <1>1

LEMMA ListingMade ==
  ASSUME NEW S \in SUBSET Item, NEW c \in [S -> Shown]
  PROVE c \in Listing
BY DEF Listing

LEMMA NoCards == <<>> \in Listing /\ DOMAIN <<>> = {}
<1>1. <<>> \in [{} -> Shown]
  OBVIOUS
<1>2. QED
  BY <1>1, ListingMade

LEMMA CardsListed ==
  ASSUME rows \in [Item -> [active : BOOLEAN, discount : Discount, deleted : BOOLEAN]],
         NEW S \in SUBSET Item
  PROVE /\ Cards(S) \in Listing
        /\ DOMAIN Cards(S) = S
        /\ \A i \in S : Cards(S)[i] = Card(i)
<1>1. \A i \in S : Card(i) \in Shown
  BY DEF Card, Shown
<1>2. Cards(S) \in [S -> Shown]
  BY <1>1 DEF Cards
<1>3. QED
  BY <1>2, ListingMade DEF Cards

LEMMA InitTyped == CardsInit => Typed
<1> SUFFICES ASSUME CardsInit PROVE Typed
  OBVIOUS
<1> USE CardsDataAssumption
<1>1. rows \in [Item -> [active : BOOLEAN, discount : Discount, deleted : BOOLEAN]]
  BY DEF CardsInit
<1>2. cards = Cards(Item) /\ Cards(Item) \in Listing
  BY <1>1, CardsListed DEF CardsInit
<1>3. \A i \in DOMAIN cards : i \in Item /\ cards[i].active \in BOOLEAN /\ cards[i].discount \in Discount
  BY <1>2, ListingFields DEF Shown
<1>4. CardsTypeOK
  BY <1>1, <1>3 DEF CardsInit, CardsTypeOK
<1>5. found = FALSE /\ conn = TRUE /\ since = FALSE /\ line = <<>> /\ down = <<>>
  BY DEF CardsInit
<1>6. asked \in [item : Item \cup {NoItem}, percent : Discount]
  BY DEF CardsInit
<1>7. line \in Seq(Request) /\ down \in Seq(Response)
  BY <1>5
<1>8. found \in BOOLEAN /\ conn \in BOOLEAN /\ since \in BOOLEAN /\ ~since
  BY <1>5
<1>9. QED
  BY <1>1, <1>2, <1>4, <1>6, <1>7, <1>8 DEF Typed

(* The card of an item changes, or none does. *)
LEMMA CardType ==
  ASSUME cards \in Listing, NEW i \in Item, NEW a \in BOOLEAN, NEW p \in Discount
  PROVE /\ [cards EXCEPT ![i].active = a] \in Listing
        /\ DOMAIN [cards EXCEPT ![i].active = a] = DOMAIN cards
        /\ [cards EXCEPT ![i].discount = p] \in Listing
        /\ DOMAIN [cards EXCEPT ![i].discount = p] = DOMAIN cards
<1>1. PICK S \in SUBSET Item : cards \in [S -> Shown]
  BY DEF Listing
<1>2. [cards EXCEPT ![i].active = a] \in [S -> Shown]
  BY <1>1 DEF Shown
<1>3. [cards EXCEPT ![i].discount = p] \in [S -> Shown]
  BY <1>1 DEF Shown
<1>4. QED
  BY <1>1, <1>2, <1>3, ListingMade

(* Typed has parts of the server and of the page, and they are kept apart.    *)
RowsTyped ==
  /\ rows \in [Item -> [active : BOOLEAN, discount : Discount, deleted : BOOLEAN]]
  /\ \A i \in Item : rows[i].deleted => ~rows[i].active
PageTyped ==
  /\ kind \in Kinds
  /\ cards \in Listing
  /\ found \in BOOLEAN
  /\ failed \in BOOLEAN /\ (failed => kind # "admin")
  /\ asked \in [item : Item \cup {NoItem}, percent : Discount]
WiresTyped ==
  /\ conn \in BOOLEAN
  /\ line \in Seq(Request)
  /\ down \in Seq(Response)
  /\ line # <<>> \/ down # <<>> => conn
GhostsTyped ==
  /\ since \in BOOLEAN
  /\ why \subseteq Causes
  /\ since => "others" \in why

LEMMA TypedParts == Typed <=> RowsTyped /\ PageTyped /\ WiresTyped /\ GhostsTyped
<1>1. ASSUME cards \in Listing
      PROVE /\ DOMAIN cards \subseteq Item
            /\ \A i \in DOMAIN cards : cards[i].active \in BOOLEAN /\ cards[i].discount \in Discount
  BY <1>1, ListingFields DEF Shown
<1>2. QED
  BY <1>1 DEF Typed, CardsTypeOK, RowsTyped, PageTyped, WiresTyped, GhostsTyped

(* What is on its way after a step of each kind. *)
LEMMA PassWires ==
  ASSUME WiresTyped, line # <<>>, NEW m \in Response, Answer(m)
  PROVE WiresTyped' /\ Head(line) \in Request
<1>1. line' \in Seq(Request) /\ down' \in Seq(Response) /\ Head(line) \in Request
  BY AppendSeq, TailSeq DEF WiresTyped, Answer
<1>2. QED
  BY <1>1 DEF WiresTyped, Answer

LEMMA TakeWires ==
  ASSUME WiresTyped, down # <<>>, NEW reload, Take(reload)
  PROVE WiresTyped' /\ Head(down) \in Response
<1>1. line' \in Seq(Request) /\ down' \in Seq(Response) /\ Head(down) \in Response
  BY AppendSeq, TailSeq, Requests DEF WiresTyped, Take
<1>2. QED
  BY <1>1 DEF WiresTyped, Take

LEMMA SendWires ==
  ASSUME WiresTyped, NEW r \in Request, conn' = TRUE, line' = Append(line, r), down' = down
  PROVE WiresTyped'
<1>1. line' \in Seq(Request)
  BY AppendSeq DEF WiresTyped
<1>2. QED
  BY <1>1 DEF WiresTyped

Parts == RowsTyped /\ PageTyped /\ WiresTyped /\ GhostsTyped

LEMMA PresentIs == Present \in SUBSET Item
BY DEF Present

(* What the server answers, and whether it writes a row. *)
LEMMA Answers ==
  ASSUME Parts
  PROVE /\ GetAll => \E m \in Response : Answer(m) /\ m.type = "LIST"
        /\ SearchUsers => \E m \in Response : Answer(m) /\ m.type = "LIST"
        /\ SetActiveState => \E m \in Response : Answer(m) /\ m.type = "SET"
        /\ SetBookDiscount => \E m \in Response : Answer(m) /\ m.type = "DISCOUNT"
        /\ Delete => \E m \in Response : Answer(m) /\ m.type = "DELETE"
<1>1. ASSUME GetAll PROVE \E m \in Response : Answer(m) /\ m.type = "LIST"
  <2>1. Cards(Present) \in Listing
    BY PresentIs, CardsListed DEF Parts, RowsTyped
  <2>2. [type |-> "LIST", cards |-> Cards(Present), found |-> FALSE, failed |-> FALSE] \in Response
    BY <2>1, Responses
  <2>3. [type |-> "LIST", cards |-> <<>>, found |-> FALSE, failed |-> TRUE] \in Response
    BY NoCards, Responses
  <2>4. QED
    BY <1>1, <2>2, <2>3 DEF GetAll
<1>2. ASSUME SearchUsers PROVE \E m \in Response : Answer(m) /\ m.type = "LIST"
  <2> DEFINE fit == {i \in Present : rows[i].active = Head(line).active}
  <2>1. Cards(fit) \in Listing
    BY PresentIs, CardsListed DEF Parts, RowsTyped
  <2>2. [type |-> "LIST", cards |-> Cards(fit), found |-> TRUE, failed |-> FALSE] \in Response
    BY <2>1, Responses
  <2>3. Answer([type |-> "LIST", cards |-> Cards(fit), found |-> TRUE, failed |-> FALSE])
    BY <1>2 DEF SearchUsers
  <2>4. QED
    BY <2>2, <2>3
<1>3. \A t \in {"SET", "DISCOUNT", "DELETE"}, ok \in BOOLEAN :
        [type |-> t, ok |-> ok] \in Response /\ [type |-> t, ok |-> ok].type = t
  BY Responses
<1>4. ASSUME SetActiveState PROVE \E m \in Response : Answer(m) /\ m.type = "SET"
  <2>1. (kind = "publisher") \in BOOLEAN
    OBVIOUS
  <2>2. \E ok \in BOOLEAN : Answer([type |-> "SET", ok |-> ok])
    BY <1>4, <2>1 DEF SetActiveState
  <2>3. QED
    BY <1>3, <2>2
<1>5. ASSUME SetBookDiscount PROVE \E m \in Response : Answer(m) /\ m.type = "DISCOUNT"
  <2>1. \E ok \in BOOLEAN : Answer([type |-> "DISCOUNT", ok |-> ok])
    BY <1>5 DEF SetBookDiscount
  <2>2. QED
    BY <1>3, <2>1
<1>6. ASSUME Delete PROVE \E m \in Response : Answer(m) /\ m.type = "DELETE"
  <2>1. \E ok \in BOOLEAN : Answer([type |-> "DELETE", ok |-> ok])
    BY <1>6 DEF Delete
  <2>2. QED
    BY <1>3, <2>1
<1>7. QED
  BY <1>1, <1>2, <1>4, <1>5, <1>6

Work == GetAll \/ SearchUsers \/ SetActiveState \/ SetBookDiscount \/ Delete

LEMMA WorkTyped == Parts /\ Work => Parts'
<1> SUFFICES ASSUME Parts, Work PROVE Parts'
  OBVIOUS
<1>0. GetAll \/ SearchUsers \/ SetActiveState \/ SetBookDiscount \/ Delete
  BY DEF Work
<1>1. PICK m \in Response : Answer(m)
  BY <1>0, Answers
<1>2. line # <<>> /\ Head(line) \in Request
  BY TailSeq DEF Work, GetAll, SearchUsers, SetActiveState, SetBookDiscount, Delete, Takes,
                 Parts, WiresTyped
<1>3. WiresTyped'
  BY <1>1, <1>2, PassWires DEF Parts
<1>4. PageTyped'
  BY <1>1 DEF Answer, page, Parts, PageTyped
<1>5. RowsTyped'
  <2>1. CASE GetAll \/ SearchUsers
    BY <2>1 DEF GetAll, SearchUsers, Parts, RowsTyped
  <2>2. CASE SetActiveState
    BY <1>2, <2>2, RequestFields DEF SetActiveState, Takes, Parts, RowsTyped
  <2>3. CASE SetBookDiscount
    BY <1>2, <2>3, RequestFields DEF SetBookDiscount, Takes, Parts, RowsTyped
  <2>4. CASE Delete
    <3> DEFINE i == Head(line).item
    <3>1. i \in Item
      BY <1>2, <2>4, RequestFields DEF Delete, Takes
    <3>2. \/ rows' = rows
          \/ rows' = [rows EXCEPT ![i].deleted = TRUE, ![i].active = FALSE]
      BY <2>4 DEF Delete
    <3>3. QED
      BY <3>1, <3>2 DEF Parts, RowsTyped
  <2>5. QED
    BY <1>0, <2>1, <2>2, <2>3, <2>4
<1>6. GhostsTyped'
  <2>1. why' = why /\ (since' = since \/ since' = FALSE)
    BY <1>0 DEF GetAll, SearchUsers, SetActiveState, SetBookDiscount, Delete
  <2>2. CASE since' = since
    BY <2>1, <2>2 DEF Parts, GhostsTyped
  <2>3. CASE since' = FALSE
    BY <2>1, <2>3 DEF Parts, GhostsTyped
  <2>4. QED
    BY <2>1, <2>2, <2>3
<1>7. QED
  BY <1>3, <1>4, <1>5, <1>6 DEF Parts

LEMMA ElsewhereTyped ==
  ASSUME Parts, NEW i \in Item, NEW a \in BOOLEAN, NEW p \in Discount, NEW d \in BOOLEAN,
         ChangeElsewhere(i, a, p, d)
  PROVE Parts'
<1>1. RowsTyped'
  BY DEF ChangeElsewhere, Parts, RowsTyped
<1>2. PageTyped' /\ WiresTyped'
  BY DEF ChangeElsewhere, page, wires, Parts, PageTyped, WiresTyped
<1>3. GhostsTyped'
  BY DEF ChangeElsewhere, Parts, GhostsTyped, Causes
<1>4. QED
  BY <1>1, <1>2, <1>3 DEF Parts

LEMMA AnyCard == Parts => \A i \in DOMAIN cards : i \in Item /\ cards[i] \in Shown
BY ListingFields DEF Parts, PageTyped

Clicks ==
  \/ Load
  \/ \E a \in BOOLEAN : Search(a)
  \/ \E i \in Item : ChangeActive(i) \/ AskDelete(i) \/ \E p \in Discount : AskDiscount(i, p)

LEMMA SendTyped ==
  ASSUME Parts, NEW r \in Request, Send(r)
  PROVE WiresTyped'
BY SendWires DEF Send, Parts

LEMMA ClicksTyped == Parts /\ Clicks => Parts'
<1> SUFFICES ASSUME Parts, Clicks PROVE Parts'
  OBVIOUS
<1>1. ASSUME NEW r \in Request, Send(r) \/ NoConnection
      PROVE RowsTyped' /\ WiresTyped' /\ kind' = kind /\ cards' = cards /\ since' = since
  <2>1. WiresTyped'
    BY <1>1, SendTyped DEF NoConnection, wires, Parts, WiresTyped
  <2>2. QED
    BY <1>1, <2>1 DEF Send, NoConnection, Parts, RowsTyped
<1>2. CASE Load \/ \E a \in BOOLEAN : Search(a)
  <2>1. \E r \in Request : Send(r) \/ NoConnection
    BY <1>2, Requests DEF Load, Search
  <2>2. found' = found /\ failed' = failed /\ asked' = asked /\ why' = why
    BY <1>2 DEF Load, Search
  <2>3. QED
    BY <1>1, <2>1, <2>2 DEF Parts, PageTyped, GhostsTyped
<1>3. ASSUME NEW i \in Item, AskDelete(i) PROVE Parts'
  <2>1. \E r \in Request : Send(r) \/ NoConnection
    BY <1>3, Requests DEF AskDelete
  <2>2. found' = found /\ failed' = failed /\ asked' = asked /\ why' = why
    BY <1>3 DEF AskDelete
  <2>3. QED
    BY <1>1, <2>1, <2>2 DEF Parts, PageTyped, GhostsTyped
<1>4. ASSUME NEW i \in Item, NEW p \in Discount, AskDiscount(i, p) PROVE Parts'
  <2>1. \E r \in Request : Send(r) \/ NoConnection
    BY <1>4, Requests DEF AskDiscount
  <2>2. found' = found /\ failed' = failed
    BY <1>4 DEF AskDiscount
  <2>3. asked' \in [item : Item \cup {NoItem}, percent : Discount]
    BY <1>4 DEF AskDiscount, Parts, PageTyped
  <2>4. why' \subseteq Causes /\ ("others" \in why => "others" \in why')
    BY <1>4 DEF AskDiscount, Parts, GhostsTyped, Causes
  <2>5. PageTyped'
    BY <1>1, <2>1, <2>2, <2>3 DEF Parts, PageTyped
  <2>6. QED
    BY <1>1, <2>1, <2>4, <2>5 DEF Parts, GhostsTyped
<1>5. ASSUME NEW i \in Item, ChangeActive(i) PROVE Parts'
  <2>0. cards[i] \in Shown
    BY <1>5, AnyCard DEF ChangeActive
  <2>1. cards[i].active \in BOOLEAN /\ (~cards[i].active) \in BOOLEAN
    BY <2>0 DEF Shown
  <2>2. cards' = [cards EXCEPT ![i].active = ~cards[i].active]
    BY <1>5 DEF ChangeActive
  <2>3. cards' \in Listing
    BY <2>1, <2>2, CardType DEF Parts, PageTyped, CardsDataAssumption
  <2>4. [type |-> "SET", item |-> i, active |-> ~cards[i].active] \in Request
    BY <2>1, Requests
  <2>5. WiresTyped'
    BY <1>5, <2>4, SendWires DEF ChangeActive, wires, Parts, WiresTyped
  <2>6. PageTyped'
    BY <1>5, <2>3 DEF ChangeActive, Parts, PageTyped
  <2>7. RowsTyped' /\ GhostsTyped'
    BY <1>5 DEF ChangeActive, Parts, RowsTyped, GhostsTyped
  <2>8. QED
    BY <2>5, <2>6, <2>7 DEF Parts
<1>6. QED
  BY <1>2, <1>3, <1>4, <1>5 DEF Clicks

Handles == HandleList \/ HandleSet \/ HandleDelete \/ HandleDiscount

LEMMA HandlesTyped == Parts /\ Handles => Parts'
<1> SUFFICES ASSUME Parts, Handles PROVE Parts'
  OBVIOUS
<1>0. PICK reload : Take(reload)
  BY DEF Handles, HandleList, HandleSet, HandleDelete, HandleDiscount
<1>1. down # <<>>
  BY DEF Handles, HandleList, HandleSet, HandleDelete, HandleDiscount, Arrives
<1>2. WiresTyped' /\ Head(down) \in Response
  BY <1>0, <1>1, TakeWires DEF Parts
<1>3. RowsTyped' /\ kind' = kind /\ since' = since
  BY <1>0 DEF Take, Parts, RowsTyped
<1>4. CASE HandleList
  <2>1. Head(down).cards \in Listing /\ Head(down).found \in BOOLEAN
    BY <1>2, <1>4, ResponseFields DEF HandleList, Arrives
  <2>2. PageTyped'
    BY <1>3, <1>4, <2>1 DEF HandleList, Parts, PageTyped
  <2>3. why' \subseteq Causes /\ (since => "others" \in why')
    BY <1>4 DEF HandleList, Causes
  <2>4. QED
    BY <1>2, <1>3, <2>2, <2>3 DEF Parts, GhostsTyped
<1>5. CASE HandleSet \/ HandleDelete
  <2>1. PageTyped'
    BY <1>3, <1>5 DEF HandleSet, HandleDelete, Parts, PageTyped
  <2>2. QED
    BY <1>2, <1>3, <1>5, <2>1 DEF HandleSet, HandleDelete, Parts, GhostsTyped
<1>6. CASE HandleDiscount
  <2>1. cards' \in Listing
    BY <1>6, CardType, AnyCard DEF HandleDiscount, Parts, PageTyped
  <2>2. PageTyped'
    BY <1>3, <1>6, <2>1 DEF HandleDiscount, Parts, PageTyped
  <2>3. QED
    BY <1>2, <1>3, <1>6, <2>2 DEF HandleDiscount, Parts, GhostsTyped
<1>7. QED
  BY <1>4, <1>5, <1>6 DEF Handles

LEMMA LoseTyped == Parts /\ Lose => Parts'
<1> SUFFICES ASSUME Parts, Lose PROVE Parts'
  OBVIOUS
<1>1. WiresTyped'
  <2>1. line' \in Seq(Request) /\ down' \in Seq(Response)
    BY DEF Lose
  <2>2. conn' = FALSE /\ line' = <<>> /\ down' = <<>>
    BY DEF Lose
  <2>3. QED
    BY <2>1, <2>2 DEF WiresTyped
<1>2. RowsTyped' /\ PageTyped'
  BY DEF Lose, page, Parts, RowsTyped, PageTyped
<1>3. GhostsTyped'
  BY DEF Lose, Parts, GhostsTyped, Causes
<1>4. QED
  BY <1>1, <1>2, <1>3 DEF Parts

LEMMA CardsSteps ==
  CardsNext => \/ Work \/ Clicks \/ Handles \/ Lose
               \/ \E i \in Item, a, d \in BOOLEAN, p \in Discount : ChangeElsewhere(i, a, p, d)
BY DEF CardsNext, Work, Clicks, Handles

LEMMA StillTyped == Parts /\ UNCHANGED cardsVars => Parts'
BY DEF Parts, RowsTyped, PageTyped, WiresTyped, GhostsTyped, cardsVars, page, wires, bounds

LEMMA NextTyped == Parts /\ [CardsNext]_cardsVars => Parts'
BY CardsSteps, StillTyped, WorkTyped, ClicksTyped, HandlesTyped, LoseTyped, ElsewhereTyped

(* On the pages of cards, of whichever kind, a deleted row is not active,     *)
(* what is on its way is on a connection, and an administrator's page of      *)
(* books has no failed click to remember.                                     *)
THEOREM CardsTypeCorrect == CardsSpec => []CardsTypeOK
<1>1. CardsInit => Parts
  BY InitTyped, TypedParts DEF Parts
<1>2. Parts /\ [CardsNext]_cardsVars => Parts'
  BY NextTyped
<1>3. Parts => CardsTypeOK
  BY TypedParts DEF Typed, Parts
<1>4. QED
  BY <1>1, <1>2, <1>3, PTL DEF CardsSpec

-----------------------------------------------------------------------------
(* What is what, on its way. *)

LEMMA RequestKinds ==
  ASSUME NEW r \in Request
  PROVE /\ r \in Reloads <=> r.type \in {"LIST", "SEARCH"}
        /\ r \in Asks <=> r.type = "DISCOUNT"
        /\ \A i : r \in SetOf(i) <=> r.type = "SET" /\ r.item = i
        /\ \A i, a : r \in SetTo(i, a) <=> r.type = "SET" /\ r.item = i /\ r.active = a
        /\ \A a : r \in AsksFor(a) <=> r.type = "DISCOUNT" /\ r.item = a.item /\ r.percent = a.percent
BY DEF Reloads, Asks, SetOf, SetTo, AsksFor

LEMMA ResponseKinds ==
  ASSUME NEW m \in Response
  PROVE /\ m \in Lists <=> m.type = "LIST"
        /\ m \in Sets <=> m.type = "SET"
        /\ m \in SetNot <=> m.type = "SET" /\ ~m.ok
        /\ m \in Discounts <=> m.type = "DISCOUNT"
        /\ m \in DiscountDone <=> m.type = "DISCOUNT" /\ m.ok
        /\ m \in DeleteDone <=> m.type = "DELETE" /\ m.ok
BY DEF Lists, Sets, SetNot, Discounts, DiscountDone, DeleteDone

LEMMA KindsWithin ==
  /\ \A i, a : SetTo(i, a) \subseteq SetOf(i)
  /\ \A a : AsksFor(a) \subseteq Asks
  /\ SetNot \subseteq Sets
  /\ DiscountDone \subseteq Discounts
BY DEF SetTo, AsksFor, SetNot, DiscountDone

(* The last list, when something follows, and when something is taken.        *)
LEMMA LastAppend ==
  ASSUME NEW q \in Seq(Response), NEW p, NEW x, NEW m \in Response
  PROVE /\ m \in Lists => LastIn(Append(q, m), p, m)
        /\ m \notin Lists /\ LastIn(q, p, x) => LastIn(Append(q, m), p, x)
<1>1. /\ Has(Append(q, m), Lists) <=> Has(q, Lists) \/ m \in Lists
      /\ Left(Append(q, m), {m}, Lists)
      /\ m \notin Lists /\ Left(q, {x}, Lists) => Left(Append(q, m), {x}, Lists)
  BY InAppend
<1>2. QED
  BY <1>1 DEF LastIn

LEMMA LastTail ==
  ASSUME NEW q \in Seq(Response), q # <<>>, NEW p, NEW x \in Lists, LastIn(q, p, x)
  PROVE /\ Head(q) \in Lists => LastIn(Tail(q), Head(q), x)
        /\ Head(q) \notin Lists => LastIn(Tail(q), p, x)
        /\ Has(Tail(q), Lists) => \A a : LastIn(Tail(q), a, x)
<1>1. /\ Has(q, Lists) <=> Head(q) \in Lists \/ Has(Tail(q), Lists)
      /\ Left(q, {x}, Lists) <=> (x = Head(q) /\ ~Has(Tail(q), Lists)) \/ Left(Tail(q), {x}, Lists)
  BY InTail
<1>2. Left(Tail(q), {x}, Lists) => Has(Tail(q), Lists)
  BY DEF Left, Has
<1>3. CASE ~Has(q, Lists)
  BY <1>1, <1>3 DEF LastIn
<1>4. CASE Has(q, Lists)
  <2>1. Has(Tail(q), Lists) => Left(Tail(q), {x}, Lists)
    BY <1>1, <1>4 DEF LastIn
  <2>2. ~Has(Tail(q), Lists) => x = Head(q) /\ Head(q) \in Lists
    BY <1>1, <1>2, <1>4 DEF LastIn
  <2>3. QED
    BY <2>1, <2>2 DEF LastIn
<1>5. QED
  BY <1>3, <1>4

-----------------------------------------------------------------------------
(* What a step does to what is on its way. *)

LEMMA Passed ==
  ASSUME Parts, line # <<>>, NEW m \in Response, Answer(m)
  PROVE /\ Head(line) \in Request
        /\ \A M : Has(line, M) <=> Head(line) \in M \/ Has(line', M)
        /\ \A M, N : Left(line, M, N) <=> (Head(line) \in M /\ ~Has(line', N)) \/ Left(line', M, N)
        /\ LeftTwice(line, Asks, {})
             <=> LeftTwice(line', Asks, {}) \/ (Head(line) \in Asks /\ Has(line', Asks))
        /\ \A M : Has(down', M) <=> Has(down, M) \/ m \in M
        /\ \A M : Left(down', M, Lists) <=> m \in M \/ (Left(down, M, Lists) /\ m \notin Lists)
        /\ LeftTwice(down', Discounts, Lists)
             <=> /\ m \notin Lists
                 /\ LeftTwice(down, Discounts, Lists) \/ (m \in Discounts /\ After(Discounts))
        /\ Page' = Page
        /\ m \in Lists => IsLast(m)'
        /\ m \notin Lists => \A x : IsLast(x) => IsLast(x)'
<1> USE DEF Parts, WiresTyped
<1>1. line \in Seq(Request) /\ down \in Seq(Response)
  OBVIOUS
<1>2. line' = Tail(line) /\ down' = Append(down, m)
  BY DEF Answer
<1>3. Page' = Page
  BY DEF Answer, page, Page
<1>4. Head(line) \in Request
  BY <1>1, TailSeq
<1>5. \A M : Has(line, M) <=> Head(line) \in M \/ Has(line', M)
  BY <1>1, <1>2, HasTail
<1>6. \A M, N : Left(line, M, N) <=> (Head(line) \in M /\ ~Has(line', N)) \/ Left(line', M, N)
  BY <1>1, <1>2, InTail
<1>7. LeftTwice(line, Asks, {})
        <=> LeftTwice(line', Asks, {}) \/ (Head(line) \in Asks /\ Has(line', Asks))
  <2>1. ~Has(line', {})
    BY DEF Has
  <2>2. QED
    BY <1>1, <1>2, <2>1, TwiceTail
<1>8. \A M : Has(down', M) <=> Has(down, M) \/ m \in M
  BY <1>1, <1>2, HasAppend
<1>9. \A M : Left(down', M, Lists) <=> m \in M \/ (Left(down, M, Lists) /\ m \notin Lists)
  BY <1>1, <1>2, InAppend
<1>10. LeftTwice(down', Discounts, Lists)
         <=> /\ m \notin Lists
             /\ LeftTwice(down, Discounts, Lists) \/ (m \in Discounts /\ After(Discounts))
  BY <1>1, <1>2, TwiceAppend DEF After
<1>11. m \in Lists => IsLast(m)'
  BY <1>1, <1>2, <1>3, LastAppend DEF IsLast
<1>12. m \notin Lists => \A x : IsLast(x) => IsLast(x)'
  BY <1>1, <1>2, <1>3, LastAppend DEF IsLast
<1>13. QED
  BY <1>3, <1>4, <1>5, <1>6, <1>7, <1>8, <1>9, <1>10, <1>11, <1>12

LEMMA Taken ==
  ASSUME Parts, down # <<>>, NEW reload, Take(reload)
  PROVE /\ Head(down) \in Response
        /\ IF reload THEN line' = Append(line, [type |-> "LIST"]) ELSE line' = line
        /\ \A M : Has(down, M) <=> Head(down) \in M \/ Has(down', M)
        /\ \A M : Left(down, M, Lists)
                    <=> (Head(down) \in M /\ ~Has(down', Lists)) \/ Left(down', M, Lists)
        /\ LeftTwice(down, Discounts, Lists)
             <=> \/ LeftTwice(down', Discounts, Lists)
                 \/ Head(down) \in Discounts /\ Has(down', Discounts) /\ ~Has(down', Lists)
        /\ \A x \in Lists : IsLast(x) =>
             /\ Head(down) \in Lists => LastIn(down', Head(down), x)
             /\ Head(down) \notin Lists => LastIn(down', Page, x)
             /\ Has(down', Lists) => IsLast(x)'
<1> USE DEF Parts, WiresTyped
<1>1. line \in Seq(Request) /\ down \in Seq(Response)
  OBVIOUS
<1>2. /\ down' = Tail(down)
      /\ IF reload THEN line' = Append(line, [type |-> "LIST"]) ELSE line' = line
  BY DEF Take
<1>3. Head(down) \in Response
  BY <1>1, TailSeq
<1>4. \A M : Has(down, M) <=> Head(down) \in M \/ Has(down', M)
  BY <1>1, <1>2, HasTail
<1>5. \A M : Left(down, M, Lists)
               <=> (Head(down) \in M /\ ~Has(down', Lists)) \/ Left(down', M, Lists)
  BY <1>1, <1>2, InTail
<1>6. LeftTwice(down, Discounts, Lists)
        <=> \/ LeftTwice(down', Discounts, Lists)
            \/ Head(down) \in Discounts /\ Has(down', Discounts) /\ ~Has(down', Lists)
  BY <1>1, <1>2, TwiceTail
<1>7. \A x \in Lists : IsLast(x) =>
        /\ Head(down) \in Lists => LastIn(down', Head(down), x)
        /\ Head(down) \notin Lists => LastIn(down', Page, x)
        /\ Has(down', Lists) => IsLast(x)'
  BY <1>1, <1>2, LastTail DEF IsLast
<1>8. QED
  BY <1>2, <1>3, <1>4, <1>5, <1>6, <1>7

LEMMA Asked ==
  ASSUME Parts, NEW r \in Request, line' = Append(line, r), down' = down
  PROVE /\ \A M : Has(line', M) <=> Has(line, M) \/ r \in M
        /\ \A M, N : Left(line', M, N) <=> r \in M \/ (Left(line, M, N) /\ r \notin N)
        /\ LeftTwice(line', Asks, {})
             <=> LeftTwice(line, Asks, {}) \/ (r \in Asks /\ Has(line, Asks))
        /\ Page' = Page \/ Has(down, Lists) => \A x : IsLast(x) => IsLast(x)'
        /\ ~Has(down, Lists) => IsLast(Page)'
<1>1. line \in Seq(Request)
  BY DEF Parts, WiresTyped
<1>2. \A M : Has(line', M) <=> Has(line, M) \/ r \in M
  BY <1>1, HasAppend
<1>3. \A M, N : Left(line', M, N) <=> r \in M \/ (Left(line, M, N) /\ r \notin N)
  BY <1>1, InAppend
<1>4. Left(line, Asks, {}) <=> Has(line, Asks)
  BY DEF Left, Has
<1>5. LeftTwice(line', Asks, {}) <=> LeftTwice(line, Asks, {}) \/ (r \in Asks /\ Has(line, Asks))
  BY <1>1, <1>4, TwiceAppend
<1>6. /\ Page' = Page \/ Has(down, Lists) => \A x : IsLast(x) => IsLast(x)'
      /\ ~Has(down, Lists) => IsLast(Page)'
  BY DEF IsLast, LastIn
<1>7. QED
  BY <1>2, <1>3, <1>5, <1>6

LEMMA PageListed ==
  /\ Parts => Page \in Lists
  /\ Parts' => Page' \in Lists
BY Responses DEF Parts, PageTyped, Page, Lists

-----------------------------------------------------------------------------
(* The server answers. *)

(* Other answers than lists: there are two discounts as there were.           *)
LEMMA TwoPassed ==
  ASSUME Parts, line # <<>>, NEW m \in Response, Answer(m), m.type = Head(line).type, m.type # "LIST"
  PROVE Two' <=> Two
<1>1. /\ m \notin Lists
      /\ m \in Discounts <=> Head(line) \in Asks
  BY Passed, ResponseKinds, RequestKinds
<1>2. /\ LeftTwice(line, Asks, {})
           <=> LeftTwice(line', Asks, {}) \/ (Head(line) \in Asks /\ Has(line', Asks))
      /\ Has(line, Asks) <=> Head(line) \in Asks \/ Has(line', Asks)
      /\ After(Discounts)' <=> m \in Discounts \/ After(Discounts)
      /\ LeftTwice(down', Discounts, Lists)
           <=> LeftTwice(down, Discounts, Lists) \/ (m \in Discounts /\ After(Discounts))
  BY <1>1, Passed DEF After
<1>3. Two' <=> \/ LeftTwice(line', Asks, {})
               \/ Has(line', Asks) /\ After(Discounts)'
               \/ LeftTwice(down', Discounts, Lists)
  BY DEF Two
<1>4. QED
  BY <1>1, <1>2, <1>3 DEF Two

LEMMA AnswerKeeps ==
  ASSUME Parts, CardsInv, line # <<>>, NEW m \in Response, Answer(m),
         m.type = Head(line).type, m.type # "LIST", since' = since, why' = why,
         \A x \in Lists : IsLast(x) /\ Sound(x) /\ Right(x) => Right(x)'
  PROVE CardsInv'
<1>1. /\ m \notin Lists
      /\ Head(line) \notin Reloads
      /\ Head(line) \in Request
  BY Passed, ResponseKinds, RequestKinds, ResponseFields
<1>2. Has(line', Reloads) <=> Has(line, Reloads)
  BY <1>1, Passed
<1>3. Has(down', Lists) <=> Has(down, Lists)
  BY <1>1, Passed
<1>4. LastAsked'
  <2>1. asked' = asked
    BY DEF Answer, page
  <2>2. /\ Has(line', Asks) => Has(line, Asks)
        /\ Left(line, AsksFor(asked), Asks)
             <=> (Head(line) \in AsksFor(asked) /\ ~Has(line', Asks)) \/ Left(line', AsksFor(asked), Asks)
    BY Passed
  <2>3. QED
    BY <2>1, <2>2 DEF CardsInv, LastAsked
<1>5. PICK x \in Lists : IsLast(x) /\ (Has(line, Reloads) \/ ~Sound(x) \/ Right(x))
  BY DEF CardsInv, Coming
<1>6. IsLast(x)'
  BY <1>1, <1>5, Passed
<1>7. Sound(x)' <=> Sound(x)
  BY <1>3 DEF Sound
<1>8. Has(line', Reloads) \/ ~Sound(x)' \/ Right(x)'
  BY <1>2, <1>5, <1>7
<1>9. QED
  BY <1>4, <1>5, <1>6, <1>8 DEF CardsInv, Coming

(* A list read. *)
LEMMA ListKeeps ==
  ASSUME Parts, Parts', CardsInv, line # <<>>, Head(line).type \in {"LIST", "SEARCH"},
         NEW m \in Lists, Answer(m), since' = FALSE, why' = why, rows' = rows,
         m.failed \/ (DOMAIN m.cards \subseteq Present /\ \A i \in DOMAIN m.cards : m.cards[i] = Card(i)),
         m.failed \/ m.found \/ DOMAIN m.cards = Present
  PROVE CardsInv'
<1>1. /\ m \in Response
      /\ Head(line) \notin Asks
      /\ m \notin Discounts /\ m \notin DiscountDone /\ m \notin DeleteDone
  BY Passed, ResponseKinds, RequestKinds DEF Lists
<1>2. LastAsked'
  <2>1. asked' = asked
    BY DEF Answer, page
  <2>2. Head(line) \notin AsksFor(asked)
    BY <1>1, KindsWithin
  <2>3. /\ Has(line', Asks) => Has(line, Asks)
        /\ Left(line, AsksFor(asked), Asks) <=> Left(line', AsksFor(asked), Asks)
    BY <1>1, <2>2, Passed
  <2>4. QED
    BY <2>1, <2>3 DEF CardsInv, LastAsked
<1>3. IsLast(m)' /\ Has(down', Lists)
  BY <1>1, Passed
<1>4. ASSUME ~m.failed PROVE Right(m)'
  <2>1. Present' = Present
    BY DEF Present
  <2>2. /\ \A i \in DOMAIN m.cards : ~rows[i].deleted /\ m.cards[i] = Card(i)
        /\ m.found \/ DOMAIN m.cards = Present
    BY <1>4 DEF Present
  <2>3. RightRows(m)'
    BY <2>1, <2>2 DEF RightRows, Vanished, Short
  <2>4. ~OffDiscount(m)' /\ ~OffActive(m)'
    <3>1. \A i \in DOMAIN m.cards :
            m.cards[i].active = rows'[i].active /\ m.cards[i].discount = rows'[i].discount
      <4>1. \A i : Card(i).active = rows'[i].active /\ Card(i).discount = rows'[i].discount
        BY DEF Card
      <4>2. QED
        BY <2>2, <4>1
    <3>2. ~OffDiscount(m)'
      BY <3>1 DEF OffDiscount
    <3>3. ~OffActive(m)'
      BY <3>1 DEF OffActive
    <3>4. QED
      BY <3>2, <3>3
  <2>5. ~After(DiscountDone)'
    BY <1>1, Passed DEF After
  <2>6. RightDiscounts(m)'
    BY <2>4, <2>5 DEF RightDiscounts
  <2>7. RightActive(m)'
    BY <1>3, <2>4 DEF RightActive
  <2>8. QED
    BY <2>3, <2>6, <2>7 DEF Right
<1>5. ~Sound(m)' \/ Right(m)'
  BY <1>3, <1>4 DEF Sound
<1>6. QED
  BY <1>2, <1>3, <1>5 DEF CardsInv, Coming

LEMMA GetKeeps ==
  ASSUME Parts, Parts', CardsInv, GetAll \/ SearchUsers
  PROVE CardsInv'
<1>1. line # <<>> /\ Head(line).type \in {"LIST", "SEARCH"} /\ since' = FALSE /\ why' = why /\ rows' = rows
  BY DEF GetAll, SearchUsers, Takes
<1>2. \A S \in SUBSET Present :
        /\ Cards(S) \in Listing /\ DOMAIN Cards(S) = S
        /\ \A i \in S : Cards(S)[i] = Card(i)
  BY CardsListed, PresentIs DEF Parts, RowsTyped
<1>3. ASSUME NEW S \in SUBSET Present, NEW f \in BOOLEAN, f \/ S = Present,
             Answer([type |-> "LIST", cards |-> Cards(S), found |-> f, failed |-> FALSE])
      PROVE CardsInv'
  <2> DEFINE m == [type |-> "LIST", cards |-> Cards(S), found |-> f, failed |-> FALSE]
  <2>1. m \in Lists
    BY <1>2, Responses DEF Lists
  <2>2. m.cards = Cards(S) /\ m.found = f
    OBVIOUS
  <2> HIDE DEF m
  <2>3. Answer(m)
    BY <1>3 DEF m
  <2>4. DOMAIN m.cards = S /\ \A i \in DOMAIN m.cards : m.cards[i] = Card(i)
    BY <1>2, <2>2
  <2>5. QED
    BY <1>1, <1>3, <2>1, <2>2, <2>3, <2>4, ListKeeps
<1>4. ASSUME Answer([type |-> "LIST", cards |-> <<>>, found |-> FALSE, failed |-> TRUE])
      PROVE CardsInv'
  <2> DEFINE m == [type |-> "LIST", cards |-> <<>>, found |-> FALSE, failed |-> TRUE]
  <2>1. m \in Lists
    BY NoCards, Responses DEF Lists
  <2>2. QED
    BY <1>1, <1>4, <2>1, ListKeeps
<1>5. CASE GetAll
  BY <1>3, <1>4, <1>5 DEF GetAll
<1>6. CASE SearchUsers
  <2> DEFINE fit == {i \in Present : rows[i].active = Head(line).active}
  <2>1. Answer([type |-> "LIST", cards |-> Cards(fit), found |-> TRUE, failed |-> FALSE])
    BY <1>6 DEF SearchUsers
  <2>2. QED
    BY <1>3, <2>1
<1>7. QED
  BY <1>5, <1>6

(* A row is active or not, as asked; the last one asked for is shown.         *)
LEMMA SetKeeps ==
  ASSUME Parts, CardsInv, SetActiveState
  PROVE CardsInv'
<1> DEFINE r == Head(line)
<1>1. line # <<>> /\ r \in Request /\ r.type = "SET" /\ since' = since /\ why' = why
  BY TailSeq DEF SetActiveState, Takes, Parts, WiresTyped
<1>2. r.item \in Item /\ r.active \in BOOLEAN
  BY <1>1, RequestFields
<1>3. PICK ok \in BOOLEAN :
        /\ Answer([type |-> "SET", ok |-> ok])
        /\ \/ /\ ~rows[r.item].deleted /\ ok
              /\ rows' = [rows EXCEPT ![r.item].active = r.active]
           \/ rows' = rows /\ (ok => rows[r.item].deleted)
  <2>1. (kind = "publisher") \in BOOLEAN
    OBVIOUS
  <2>2. QED
    BY <2>1 DEF SetActiveState
<1> DEFINE m == [type |-> "SET", ok |-> ok]
<1>4. m \in Response /\ m.type = "SET" /\ m.ok = ok
  BY Responses
<1>5. Answer(m)
  BY <1>3
<1> HIDE DEF m, r
<1>6. /\ m \in Sets /\ m \notin Lists /\ m \notin Discounts /\ m \notin DiscountDone /\ m \notin DeleteDone
      /\ m \in SetNot <=> ~ok
  BY <1>4, ResponseKinds
<1>7. \A i \in Item : /\ rows'[i].deleted = rows[i].deleted
                      /\ rows'[i].discount = rows[i].discount
                      /\ i # r.item => rows'[i] = rows[i]
                      /\ i = r.item /\ ok /\ ~rows[i].deleted => rows'[i].active = r.active
  BY <1>2, <1>3 DEF Parts, RowsTyped
<1>8. Present' = Present
  BY <1>7 DEF Present
<1>9. kind' = kind /\ cards' = cards /\ failed' = failed /\ asked' = asked
  BY <1>5 DEF Answer, page
<1>10. ASSUME NEW x \in Lists, IsLast(x), Sound(x), Right(x)
       PROVE Right(x)'
  <2>1. DOMAIN x.cards \subseteq Item
    BY ListingFields, ResponseFields DEF Lists
  <2>2. /\ After(DeleteDone)' <=> After(DeleteDone)
        /\ After(DiscountDone)' <=> After(DiscountDone)
        /\ After(Sets)'
        /\ Has(down', Lists) <=> Has(down, Lists)
        /\ Two' <=> Two
    BY <1>1, <1>4, <1>5, <1>6, Passed, TwoPassed DEF After, r
  <2>3. RightRows(x)'
    BY <1>7, <1>8, <1>10, <2>1, <2>2 DEF Right, RightRows, Vanished, Short
  <2>4. RightDiscounts(x)'
    <3>1. OffDiscount(x)' => OffDiscount(x)
      BY <1>7, <1>8, <1>9, <2>1, <2>2 DEF OffDiscount
    <3>2. asked.item \in Item => rows'[asked.item].discount = rows[asked.item].discount
      BY <1>7
    <3>3. QED
      BY <1>9, <1>10, <2>2, <3>1, <3>2 DEF Right, RightDiscounts
  <2>5. RightActive(x)'
    <3>1. CASE Has(down, Lists)
      BY <2>2, <3>1 DEF RightActive
    <3>2. CASE ~Has(down, Lists)
      <4>1. ~Two /\ ClicksShown
        BY <1>10, <3>2 DEF Right, RightActive
      <4>2. ASSUME NEW i \in DOMAIN cards, Has(line', SetOf(i))
            PROVE Left(line', SetTo(i, cards[i].active), SetOf(i))
        <5>1. Has(line, SetOf(i))
          BY <1>1, <1>4, <1>5, <4>2, Passed
        <5>2. Left(line, SetTo(i, cards[i].active), SetOf(i))
          BY <4>1, <5>1 DEF ClicksShown
        <5>3. QED
          BY <1>1, <1>4, <1>5, <4>2, <5>2, Passed
      <4>3. ASSUME NEW i \in DOMAIN cards, ~Has(line', SetOf(i)), ~rows'[i].deleted, ~failed,
                   ~Has(down', SetNot)
            PROVE cards[i].active = rows'[i].active
        <5>0. i \in Item
          BY AnyCard
        <5>1. ok /\ ~Has(down, SetNot)
          BY <1>1, <1>4, <1>5, <1>6, <4>3, Passed
        <5>2. CASE r.item = i
          <6>1. r \in SetOf(i)
            BY <1>1, <5>2, RequestKinds
          <6>2. Has(line, SetOf(i))
            BY <1>1, <1>4, <1>5, <6>1, Passed DEF r
          <6>3. Left(line, SetTo(i, cards[i].active), SetOf(i))
            BY <4>1, <6>2 DEF ClicksShown
          <6>4. r \in SetTo(i, cards[i].active) \/ Left(line', SetTo(i, cards[i].active), SetOf(i))
            BY <1>1, <1>4, <1>5, <6>3, Passed DEF r
          <6>5. ~Left(line', SetTo(i, cards[i].active), SetOf(i))
            BY <4>3, KindsWithin DEF Left, Has
          <6>6. r.active = cards[i].active
            BY <1>1, <6>4, <6>5, RequestKinds
          <6>7. QED
            BY <1>7, <4>3, <5>0, <5>1, <5>2, <6>6
        <5>3. CASE r.item # i
          <6>1. r \notin SetOf(i)
            BY <1>1, <5>3, RequestKinds
          <6>2. ~Has(line, SetOf(i))
            BY <1>1, <1>4, <1>5, <4>3, <6>1, Passed DEF r
          <6>3. ~rows[i].deleted /\ rows'[i] = rows[i]
            BY <1>7, <4>3, <5>0, <5>3
          <6>4. QED
            BY <4>1, <4>3, <5>1, <6>2, <6>3 DEF ClicksShown
        <5>4. QED
          BY <5>2, <5>3
      <4>4. ClicksShown'
        BY <1>9, <4>2, <4>3 DEF ClicksShown
      <4>5. QED
        BY <2>2, <3>2, <4>1, <4>4 DEF RightActive
    <3>3. QED
      BY <3>1, <3>2
  <2>6. QED
    BY <2>3, <2>4, <2>5 DEF Right
<1>11. QED
  BY <1>1, <1>4, <1>5, <1>10, AnswerKeeps DEF r

(* The boxes of the page, when no click of them is on its way or answered.    *)
LEMMA ClicksPassed ==
  ASSUME Parts, line # <<>>, NEW m \in Response, Answer(m), m.type = Head(line).type,
         m.type \in {"DISCOUNT", "DELETE"}, ClicksShown,
         \A i \in Item : rows[i].deleted \/ ~rows'[i].deleted =>
           rows'[i].active = rows[i].active /\ rows'[i].deleted = rows[i].deleted
  PROVE ClicksShown'
<1>1. /\ \A i, a : Head(line) \notin SetOf(i) /\ Head(line) \notin SetTo(i, a)
      /\ m \notin SetNot
  BY Passed, RequestKinds, ResponseKinds
<1>2. \A i, a : /\ Has(line', SetOf(i)) <=> Has(line, SetOf(i))
                /\ Left(line', SetTo(i, a), SetOf(i)) <=> Left(line, SetTo(i, a), SetOf(i))
  BY <1>1, Passed
<1>3. Has(down', SetNot) <=> Has(down, SetNot)
  BY <1>1, Passed
<1>4. cards' = cards /\ failed' = failed
  BY DEF Answer, page
<1>5. \A i \in DOMAIN cards : i \in Item
  BY AnyCard
<1>6. QED
  BY <1>2, <1>3, <1>4, <1>5 DEF ClicksShown

(* A discount is given to the book last asked for, if there is one only.      *)
LEMMA DiscountKeeps ==
  ASSUME Parts, CardsInv, SetBookDiscount
  PROVE CardsInv'
<1> DEFINE r == Head(line)
<1>1. line # <<>> /\ r \in Request /\ r.type = "DISCOUNT" /\ since' = since /\ why' = why
  BY TailSeq DEF SetBookDiscount, Takes, Parts, WiresTyped
<1>2. r.item \in Item /\ r.percent \in Discount
  BY <1>1, RequestFields
<1>3. PICK ok \in BOOLEAN :
        /\ Answer([type |-> "DISCOUNT", ok |-> ok])
        /\ \/ ok /\ rows' = [rows EXCEPT ![r.item].discount = r.percent]
           \/ ~ok /\ rows' = rows
  BY DEF SetBookDiscount
<1> DEFINE m == [type |-> "DISCOUNT", ok |-> ok]
<1>4. m \in Response /\ m.type = "DISCOUNT" /\ m.ok = ok
  BY Responses
<1>5. Answer(m)
  BY <1>3
<1> HIDE DEF m, r
<1>6. /\ m \notin Sets /\ m \notin Lists /\ m \in Discounts /\ m \notin DeleteDone
      /\ m \in DiscountDone <=> ok
  BY <1>4, ResponseKinds
<1>7. \A i \in Item : /\ rows'[i].deleted = rows[i].deleted
                      /\ rows'[i].active = rows[i].active
                      /\ i # r.item \/ ~ok => rows'[i] = rows[i]
                      /\ i = r.item /\ ok => rows'[i].discount = r.percent
  BY <1>2, <1>3 DEF Parts, RowsTyped
<1>8. Present' = Present
  BY <1>7 DEF Present
<1>9. kind' = kind /\ cards' = cards /\ failed' = failed /\ asked' = asked
  BY <1>5 DEF Answer, page
<1>10. ASSUME NEW x \in Lists, IsLast(x), Sound(x), Right(x)
       PROVE Right(x)'
  <2>1. DOMAIN x.cards \subseteq Item
    BY ListingFields, ResponseFields DEF Lists
  <2>2. /\ After(DeleteDone)' <=> After(DeleteDone)
        /\ After(DiscountDone)' <=> After(DiscountDone) \/ ok
        /\ After(Sets)' <=> After(Sets)
        /\ Has(down', Lists) <=> Has(down, Lists)
        /\ Two' <=> Two
    BY <1>1, <1>4, <1>5, <1>6, Passed, TwoPassed DEF After, r
  <2>3. RightRows(x)'
    BY <1>7, <1>8, <1>10, <2>1, <2>2 DEF Right, RightRows, Vanished, Short
  <2>4. ASSUME ~Two PROVE RightDiscounts(x)'
    <3>1. Has(line, Asks)
      BY <1>1, <1>4, <1>5, Passed, RequestKinds DEF r
    <3>2. ~After(Discounts) /\ ~LeftTwice(line, Asks, {})
      BY <2>4, <3>1 DEF Two
    <3>3. ~Has(line', Asks)
      BY <1>1, <1>4, <1>5, <3>2, Passed, RequestKinds DEF r
    <3>4. ~After(DiscountDone)
      BY <3>2, KindsWithin DEF After, Left
    <3>5. Left(line, AsksFor(asked), Asks)
      BY <3>1 DEF CardsInv, LastAsked
    <3>6. r \in AsksFor(asked) \/ Left(line', AsksFor(asked), Asks)
      BY <1>1, <1>4, <1>5, <3>5, Passed DEF r
    <3>7. ~Left(line', AsksFor(asked), Asks)
      BY <3>3, KindsWithin DEF Left, Has
    <3>8. r.item = asked.item /\ r.percent = asked.percent
      BY <1>1, <3>6, <3>7, RequestKinds
    <3>9. \A i \in DOMAIN x.cards \cap Present : x.cards[i].discount = rows[i].discount
      BY <1>10, <2>4, <3>4 DEF Right, RightDiscounts, OffDiscount
    <3>10. ~OffDiscount(x)'
      <4>1. \A i \in DOMAIN x.cards \cap Present' :
              x.cards[i].discount = rows'[i].discount \/ (ok /\ asked.item = i)
        BY <1>7, <1>8, <2>1, <3>8, <3>9
      <4>2. QED
        BY <1>9, <2>2, <4>1 DEF OffDiscount
    <3>11. After(DiscountDone)' => asked.item \in Item /\ rows'[asked.item].discount = asked.percent
      BY <1>2, <1>7, <2>2, <3>4, <3>8
    <3>12. QED
      BY <1>9, <3>10, <3>11 DEF RightDiscounts
  <2>5. RightDiscounts(x)'
    BY <2>2, <2>4 DEF RightDiscounts
  <2>6. RightActive(x)'
    <3>1. OffActive(x)' => OffActive(x)
      BY <1>7, <1>8, <2>1 DEF OffActive
    <3>2. CASE Has(down, Lists)
      BY <1>10, <2>2, <3>1, <3>2 DEF Right, RightActive
    <3>3. CASE ~Has(down, Lists)
      <4>1. ~Two /\ ClicksShown
        BY <1>10, <3>3 DEF Right, RightActive
      <4>2. ClicksShown'
        BY <1>1, <1>4, <1>5, <1>7, <4>1, ClicksPassed DEF r
      <4>3. QED
        BY <2>2, <3>3, <4>1, <4>2 DEF RightActive
    <3>4. QED
      BY <3>2, <3>3
  <2>7. QED
    BY <2>3, <2>5, <2>6 DEF Right
<1>11. QED
  BY <1>1, <1>4, <1>5, <1>10, AnswerKeeps DEF r

LEMMA DeleteKeeps ==
  ASSUME Parts, CardsInv, Delete
  PROVE CardsInv'
<1> DEFINE r == Head(line)
<1>1. line # <<>> /\ r \in Request /\ r.type = "DELETE" /\ since' = since /\ why' = why
  BY TailSeq DEF Delete, Takes, Parts, WiresTyped
<1>2. r.item \in Item
  BY <1>1, RequestFields
<1>3. PICK ok \in BOOLEAN :
        /\ Answer([type |-> "DELETE", ok |-> ok])
        /\ \/ ok /\ rows' = [rows EXCEPT ![r.item].deleted = TRUE, ![r.item].active = FALSE]
           \/ ~ok /\ rows' = rows
  BY DEF Delete
<1> DEFINE m == [type |-> "DELETE", ok |-> ok]
<1>4. m \in Response /\ m.type = "DELETE" /\ m.ok = ok
  BY Responses
<1>5. Answer(m)
  BY <1>3
<1> HIDE DEF m, r
<1>6. /\ m \notin Sets /\ m \notin Lists /\ m \notin Discounts /\ m \notin DiscountDone
      /\ m \in DeleteDone <=> ok
  BY <1>4, ResponseKinds
<1>7. \A i \in Item : /\ rows'[i].discount = rows[i].discount
                      /\ i # r.item \/ ~ok => rows'[i] = rows[i]
                      /\ i = r.item /\ ok => rows'[i].deleted = TRUE /\ rows'[i].active = FALSE
  BY <1>2, <1>3 DEF Parts, RowsTyped
<1>8. Present' \subseteq Present /\ \A i \in Present' : rows'[i] = rows[i]
  BY <1>7 DEF Present
<1>9. \A i \in Item : rows[i].deleted \/ ~rows'[i].deleted =>
        rows'[i].active = rows[i].active /\ rows'[i].deleted = rows[i].deleted
  <2>1. \A i \in Item : /\ rows[i].deleted \in BOOLEAN /\ rows[i].active \in BOOLEAN
                        /\ rows[i].deleted => ~rows[i].active
    BY DEF Parts, RowsTyped
  <2>2. QED
    BY <1>7, <2>1
<1>10. kind' = kind /\ cards' = cards /\ failed' = failed /\ asked' = asked
  BY <1>5 DEF Answer, page
<1>11. ASSUME NEW x \in Lists, IsLast(x), Sound(x), Right(x)
       PROVE Right(x)'
  <2>1. DOMAIN x.cards \subseteq Item
    BY ListingFields, ResponseFields DEF Lists
  <2>2. /\ After(DeleteDone)' <=> After(DeleteDone) \/ ok
        /\ After(DiscountDone)' <=> After(DiscountDone)
        /\ After(Sets)' <=> After(Sets)
        /\ Has(down', Lists) <=> Has(down, Lists)
        /\ Two' <=> Two
    BY <1>1, <1>4, <1>5, <1>6, Passed, TwoPassed DEF After, r
  <2>3. RightRows(x)'
    <3>1. Vanished(x)' => ok \/ Vanished(x)
      BY <1>7, <2>1 DEF Vanished
    <3>2. ~Short(x)'
      BY <1>8, <1>11 DEF Right, RightRows, Short
    <3>3. QED
      BY <1>11, <2>2, <3>1, <3>2 DEF Right, RightRows
  <2>4. RightDiscounts(x)'
    <3>1. OffDiscount(x)' => OffDiscount(x)
      BY <1>7, <1>8, <1>10, <2>1, <2>2 DEF OffDiscount
    <3>2. asked.item \in Item => rows'[asked.item].discount = rows[asked.item].discount
      BY <1>7
    <3>3. QED
      BY <1>10, <1>11, <2>2, <3>1, <3>2 DEF Right, RightDiscounts
  <2>5. RightActive(x)'
    <3>1. OffActive(x)' => OffActive(x)
      BY <1>8 DEF OffActive
    <3>2. CASE Has(down, Lists)
      BY <1>11, <2>2, <3>1, <3>2 DEF Right, RightActive
    <3>3. CASE ~Has(down, Lists)
      <4>1. ~Two /\ ClicksShown
        BY <1>11, <3>3 DEF Right, RightActive
      <4>2. ClicksShown'
        BY <1>1, <1>4, <1>5, <1>9, <4>1, ClicksPassed DEF r
      <4>3. QED
        BY <2>2, <3>3, <4>1, <4>2 DEF RightActive
    <3>4. QED
      BY <3>2, <3>3
  <2>6. QED
    BY <2>3, <2>4, <2>5 DEF Right
<1>12. QED
  BY <1>1, <1>4, <1>5, <1>11, AnswerKeeps DEF r

(* After a change of others nothing is certain. *)
LEMMA ElsewhereKeeps ==
  ASSUME Parts, CardsInv, NEW i \in Item, NEW a \in BOOLEAN, NEW p \in Discount, NEW d \in BOOLEAN,
         ChangeElsewhere(i, a, p, d)
  PROVE CardsInv'
<1>1. line' = line /\ down' = down /\ cards' = cards /\ found' = found /\ asked' = asked
  BY DEF ChangeElsewhere, page, wires
<1>2. since' /\ why' # {}
  BY DEF ChangeElsewhere
<1>3. \A x : ~Sound(x)' /\ (IsLast(x) => IsLast(x)')
  BY <1>1, <1>2 DEF Sound, IsLast, Page
<1>4. QED
  BY <1>1, <1>3 DEF CardsInv, LastAsked, Coming

-----------------------------------------------------------------------------
(* The clicks. *)

(* How many are on their way. *)
LEMMA SomePending ==
  ASSUME Parts, NEW t
  PROVE /\ Cardinality({k \in DOMAIN line : line[k].type = t}) \in Nat
        /\ Cardinality({k \in DOMAIN down : down[k].type = t}) \in Nat
        /\ Pending(t) \in Nat
        /\ \A k \in DOMAIN line : line[k].type = t =>
             Cardinality({j \in DOMAIN line : line[j].type = t}) > 0
        /\ \A k \in DOMAIN down : down[k].type = t =>
             Cardinality({j \in DOMAIN down : down[j].type = t}) > 0
        /\ \A j, k \in DOMAIN line : j # k /\ line[j].type = t /\ line[k].type = t =>
             Cardinality({i \in DOMAIN line : line[i].type = t}) > 1
        /\ \A j, k \in DOMAIN down : j # k /\ down[j].type = t /\ down[k].type = t =>
             Cardinality({i \in DOMAIN down : down[i].type = t}) > 1
<1>1. ASSUME NEW S, NEW q \in Seq(S)
      PROVE LET K == {k \in DOMAIN q : q[k].type = t}
            IN  /\ IsFiniteSet(K)
                /\ Cardinality(K) \in Nat
                /\ \A k \in K : Cardinality(K) > 0
                /\ \A j, k \in K : j # k => Cardinality(K) > 1
  <2> DEFINE K == {k \in DOMAIN q : q[k].type = t}
  <2>1. K \subseteq 1..Len(q) /\ Len(q) \in Nat
    OBVIOUS
  <2>2. IsFiniteSet(K)
    BY <2>1, FS_Interval, FS_Subset
  <2>3. Cardinality(K) \in Nat
    BY <2>2, FS_CardinalityType
  <2>4. ASSUME NEW k \in K PROVE Cardinality(K) > 0
    BY <2>2, <2>3, FS_EmptySet
  <2>5. ASSUME NEW j \in K, NEW k \in K, j # k PROVE Cardinality(K) > 1
    <3>1. k \in K \ {j} /\ IsFiniteSet(K \ {j}) /\ Cardinality(K \ {j}) = Cardinality(K) - 1
      BY <2>2, <2>5, FS_RemoveElement
    <3>2. Cardinality(K \ {j}) \in Nat /\ Cardinality(K \ {j}) # 0
      BY <3>1, FS_CardinalityType, FS_EmptySet
    <3>3. QED
      BY <2>3, <3>1, <3>2
  <2>6. QED
    BY <2>2, <2>3, <2>4, <2>5
<1>2. line \in Seq(Request) /\ down \in Seq(Response)
  BY DEF Parts, WiresTyped
<1> DEFINE A == {k \in DOMAIN line : line[k].type = t}
           B == {k \in DOMAIN down : down[k].type = t}
<1>3. /\ Cardinality(A) \in Nat
      /\ \A k \in A : Cardinality(A) > 0
      /\ \A j, k \in A : j # k => Cardinality(A) > 1
  BY <1>1, <1>2
<1>4. /\ Cardinality(B) \in Nat
      /\ \A k \in B : Cardinality(B) > 0
      /\ \A j, k \in B : j # k => Cardinality(B) > 1
  BY <1>1, <1>2
<1>5. Pending(t) = Cardinality(A) + Cardinality(B)
  BY DEF Pending
<1> HIDE DEF A, B
<1>6. Pending(t) \in Nat
  BY <1>3, <1>4, <1>5
<1>7. QED
  BY <1>3, <1>4, <1>6 DEF A, B

LEMMA NonePending ==
  ASSUME Parts
  PROVE /\ ~(Pending("SET") > 0) => ~Has(down, Sets) /\ \A i : ~Has(line, SetOf(i))
        /\ ~(Pending("DISCOUNT") > 0) => ~Has(line, Asks) /\ ~Has(down, Discounts)
        /\ ~(Pending("DISCOUNT") > 1) => ~Two
<1>1. line \in Seq(Request) /\ down \in Seq(Response)
  BY DEF Parts, WiresTyped
<1>2. \A k \in 1..Len(line) : /\ k \in DOMAIN line /\ line[k] \in Request
                              /\ \A i : line[k] \in SetOf(i) => line[k].type = "SET"
                              /\ line[k] \in Asks => line[k].type = "DISCOUNT"
  BY <1>1 DEF SetOf, Asks
<1>3. \A k \in 1..Len(down) : /\ k \in DOMAIN down /\ down[k] \in Response
                              /\ down[k] \in Sets => down[k].type = "SET"
                              /\ down[k] \in Discounts => down[k].type = "DISCOUNT"
  BY <1>1 DEF Sets, Discounts
<1> DEFINE A(t) == Cardinality({k \in DOMAIN line : line[k].type = t})
           B(t) == Cardinality({k \in DOMAIN down : down[k].type = t})
<1>4. \A t : A(t) \in Nat /\ B(t) \in Nat /\ Pending(t) = A(t) + B(t)
  BY SomePending DEF Pending
<1>5. \A i : Has(line, SetOf(i)) => A("SET") > 0
  BY <1>2, SomePending DEF Has
<1>6. Has(down, Sets) => B("SET") > 0
  BY <1>3, SomePending DEF Has
<1>7. Has(line, Asks) => A("DISCOUNT") > 0
  BY <1>2, SomePending DEF Has
<1>8. Has(down, Discounts) => B("DISCOUNT") > 0
  BY <1>3, SomePending DEF Has
<1>9. LeftTwice(line, Asks, {}) => A("DISCOUNT") > 1
  <2>1. SUFFICES ASSUME NEW j \in 1..Len(line), NEW k \in 1..Len(line), j < k,
                        line[j] \in Asks, line[k] \in Asks
                 PROVE A("DISCOUNT") > 1
    BY DEF LeftTwice
  <2>2. j # k
    BY <2>1
  <2>3. QED
    BY <1>2, <2>1, <2>2, SomePending
<1>10. LeftTwice(down, Discounts, Lists) => B("DISCOUNT") > 1
  <2>1. SUFFICES ASSUME NEW j \in 1..Len(down), NEW k \in 1..Len(down), j < k,
                        down[j] \in Discounts, down[k] \in Discounts
                 PROVE B("DISCOUNT") > 1
    BY DEF LeftTwice
  <2>2. j # k
    BY <2>1
  <2>3. QED
    BY <1>3, <2>1, <2>2, SomePending
<1>11. After(Discounts) => B("DISCOUNT") > 0
  BY <1>8, LeftHas DEF After
<1> HIDE DEF A, B
<1>12. ~(Pending("SET") > 0) => A("SET") = 0 /\ B("SET") = 0
  BY <1>4
<1>13. ~(Pending("DISCOUNT") > 0) => A("DISCOUNT") = 0 /\ B("DISCOUNT") = 0
  BY <1>4
<1>14. ~(Pending("DISCOUNT") > 1) =>
         /\ ~(A("DISCOUNT") > 1) /\ ~(B("DISCOUNT") > 1)
         /\ ~(A("DISCOUNT") > 0 /\ B("DISCOUNT") > 0)
  BY <1>4
<1>15. ~(Pending("SET") > 0) => ~Has(down, Sets) /\ \A i : ~Has(line, SetOf(i))
  BY <1>5, <1>6, <1>12
<1>16. ~(Pending("DISCOUNT") > 0) => ~Has(line, Asks) /\ ~Has(down, Discounts)
  BY <1>7, <1>8, <1>13
<1>17. ~(Pending("DISCOUNT") > 1) => ~Two
  BY <1>7, <1>9, <1>10, <1>11, <1>14 DEF Two
<1>18. QED
  BY <1>15, <1>16, <1>17

LEMMA StillKeeps ==
  ASSUME CardsInv, rows' = rows, cards' = cards, found' = found, failed' = failed, asked' = asked,
         line' = line, down' = down, since' = since, why' = why
  PROVE CardsInv'
<1>1. Page' = Page /\ Present' = Present
  BY DEF Page, Present
<1>2. \A x : /\ IsLast(x)' <=> IsLast(x)
             /\ Sound(x)' <=> Sound(x)
  BY <1>1 DEF IsLast, Sound
<1>3. \A X : After(X)' <=> After(X)
  BY DEF After
<1>4. Two' <=> Two
  BY DEF Two, After
<1>5. \A x : RightRows(x)' <=> RightRows(x)
  BY <1>1 DEF RightRows, Vanished, Short, After
<1>6. \A x : OffDiscount(x)' <=> OffDiscount(x)
  BY <1>1 DEF OffDiscount, After
<1>7. \A x : RightDiscounts(x)' <=> RightDiscounts(x)
  BY <1>4, <1>6 DEF RightDiscounts, After
<1>8. ClicksShown' <=> ClicksShown
  BY DEF ClicksShown
<1>9. \A x : OffActive(x)' <=> OffActive(x)
  BY <1>1 DEF OffActive
<1>10. \A x : RightActive(x)' <=> RightActive(x)
  BY <1>4, <1>8, <1>9 DEF RightActive, After
<1>11. \A x : Right(x)' <=> Right(x)
  BY <1>5, <1>7, <1>10 DEF Right
<1>12. LastAsked'
  BY DEF CardsInv, LastAsked
<1>13. Coming'
  BY <1>2, <1>11 DEF CardsInv, Coming
<1>14. QED
  BY <1>12, <1>13 DEF CardsInv

(* What can be shown of a list when rows, and what is to come, are the same.  *)
LEMMA SameList ==
  ASSUME rows' = rows, asked' = asked, NEW x, NEW y,
         y.cards = x.cards, y.found = x.found,
         After(DeleteDone)' <=> After(DeleteDone),
         After(DiscountDone)' <=> After(DiscountDone)
  PROVE /\ RightRows(x) => RightRows(y)'
        /\ OffDiscount(y)' <=> OffDiscount(x)
        /\ OffActive(y)' <=> OffActive(x)
<1>1. Present' = Present
  BY DEF Present
<1>2. RightRows(x) => RightRows(y)'
  BY <1>1 DEF RightRows, Vanished, Short
<1>3. OffDiscount(y)' <=> OffDiscount(x)
  BY <1>1 DEF OffDiscount
<1>4. OffActive(y)' <=> OffActive(x)
  BY <1>1 DEF OffActive
<1>5. QED
  BY <1>2, <1>3, <1>4

(* A list asked for will put all right; a deletion asked for is nothing yet.  *)
LEMMA SendKeeps ==
  ASSUME Parts, CardsInv, NEW r \in Request, r.type \in {"LIST", "SEARCH", "DELETE"}, Send(r),
         UNCHANGED <<found, failed, asked, why>>
  PROVE CardsInv'
<1>1. /\ line' = Append(line, r) /\ down' = down /\ rows' = rows /\ cards' = cards /\ since' = since
      /\ found' = found /\ failed' = failed /\ asked' = asked /\ why' = why
  BY DEF Send
<1>2. /\ r \notin Asks /\ \A i, a : r \notin SetOf(i) /\ r \notin SetTo(i, a)
      /\ \A a : r \notin AsksFor(a)
  BY RequestKinds
<1>3. LastAsked'
  BY <1>1, <1>2, Asked DEF CardsInv, LastAsked
<1>4. PICK x \in Lists : IsLast(x) /\ (Has(line, Reloads) \/ ~Sound(x) \/ Right(x))
  BY DEF CardsInv, Coming
<1>5. Page' = Page
  BY <1>1 DEF Page
<1>6. IsLast(x)'
  BY <1>1, <1>4, <1>5, Asked
<1>7. Sound(x)' <=> Sound(x)
  BY <1>1 DEF Sound
<1>8. Has(line, Reloads) => Has(line', Reloads)
  BY <1>1, Asked
<1>9. ASSUME Right(x) PROVE Right(x)'
  <2>1. \A X : After(X)' <=> After(X)
    BY <1>1 DEF After
  <2>2. Two' <=> Two
    BY <1>1, <1>2, <2>1, Asked DEF Two
  <2>3. /\ RightRows(x) => RightRows(x)'
        /\ OffDiscount(x)' <=> OffDiscount(x)
        /\ OffActive(x)' <=> OffActive(x)
    BY <1>1, <2>1, SameList
  <2>4. RightDiscounts(x)'
    BY <1>1, <1>9, <2>1, <2>2, <2>3 DEF Right, RightDiscounts
  <2>5. ClicksShown => ClicksShown'
    <3>1. \A i, a : /\ Has(line', SetOf(i)) <=> Has(line, SetOf(i))
                    /\ Left(line', SetTo(i, a), SetOf(i)) <=> Left(line, SetTo(i, a), SetOf(i))
      BY <1>1, <1>2, Asked
    <3>2. QED
      BY <1>1, <3>1 DEF ClicksShown
  <2>6. RightActive(x)'
    BY <1>1, <1>9, <2>1, <2>2, <2>3, <2>5 DEF Right, RightActive
  <2>7. QED
    BY <1>9, <2>3, <2>4, <2>6 DEF Right
<1>10. QED
  BY <1>3, <1>4, <1>6, <1>7, <1>8, <1>9 DEF CardsInv, Coming

(* A box of the page is clicked. *)
LEMMA BoxRights ==
  ASSUME Parts, NEW i \in DOMAIN cards, cards' = [cards EXCEPT ![i].active = ~@],
         rows' = rows, asked' = asked, found' = found, down' = down, NEW y, y = Page'
  PROVE /\ RightRows(Page) => RightRows(y)'
        /\ OffDiscount(y)' => OffDiscount(Page)
        /\ DOMAIN cards' = DOMAIN cards
        /\ cards'[i].active = ~cards[i].active
        /\ \A j \in DOMAIN cards : j # i => cards'[j] = cards[j]
<1>1. cards = [j \in DOMAIN cards |-> cards[j]] /\ \A j \in DOMAIN cards : cards[j] \in Shown
  BY ListingFields DEF Parts, PageTyped
<1>2. /\ DOMAIN cards' = DOMAIN cards
      /\ \A j \in DOMAIN cards : j # i => cards'[j] = cards[j]
  BY <1>1
<1>3. cards'[i].active = ~cards[i].active /\ cards'[i].discount = cards[i].discount
  BY <1>1 DEF Shown
<1>4. Present' = Present /\ (After(DeleteDone)' <=> After(DeleteDone))
      /\ (After(DiscountDone)' <=> After(DiscountDone))
  BY DEF Present, After
<1>5. y.cards = cards' /\ Page.cards = cards /\ y.found = found /\ Page.found = found
  BY DEF Page
<1>6. RightRows(Page) => RightRows(y)'
  BY <1>2, <1>4, <1>5 DEF RightRows, Vanished, Short
<1>7. \A j \in DOMAIN cards : cards'[j].discount = cards[j].discount
  BY <1>2, <1>3
<1>8. OffDiscount(y)' => OffDiscount(Page)
  BY <1>2, <1>4, <1>5, <1>7 DEF OffDiscount
<1>9. QED
  BY <1>2, <1>3, <1>6, <1>8

LEMMA ClickKeeps ==
  ASSUME Parts, Parts', CardsInv, NEW i \in Item, ChangeActive(i)
  PROVE CardsInv'
<1> DEFINE r == [type |-> "SET", item |-> i, active |-> ~cards[i].active]
<1>1. /\ i \in DOMAIN cards /\ cards' = [cards EXCEPT ![i].active = ~@]
      /\ rows' = rows /\ asked' = asked /\ found' = found /\ since' = since /\ why' = why
      /\ down' = down
      /\ \/ line' = Append(line, r) /\ failed' = failed
         \/ ~conn /\ line' = line /\ failed'
  BY DEF ChangeActive, wires
<1>2. r \in Request /\ r.type = "SET" /\ r.item = i /\ r.active = ~cards[i].active
  <2>1. cards[i] \in Shown
    BY <1>1, AnyCard
  <2>2. (~cards[i].active) \in BOOLEAN
    BY <2>1 DEF Shown
  <2>3. QED
    BY <2>2, Requests
<1> HIDE DEF r
<1>3. /\ r \notin Asks /\ r \notin Reloads
      /\ \A a : r \notin AsksFor(a)
      /\ \A j : r \in SetOf(j) <=> i = j
      /\ r \in SetTo(i, ~cards[i].active)
  BY <1>2, RequestKinds
<1>4. /\ Has(line', Reloads) <=> Has(line, Reloads)
      /\ Has(line', Asks) <=> Has(line, Asks)
      /\ Left(line, AsksFor(asked), Asks) => Left(line', AsksFor(asked), Asks)
      /\ LeftTwice(line', Asks, {}) <=> LeftTwice(line, Asks, {})
  BY <1>1, <1>2, <1>3, Asked
<1>5. LastAsked'
  BY <1>1, <1>4 DEF CardsInv, LastAsked
<1>6. PICK x \in Lists : IsLast(x) /\ (Has(line, Reloads) \/ ~Sound(x) \/ Right(x))
  BY DEF CardsInv, Coming
<1>7. \A X : After(X)' <=> After(X)
  BY <1>1 DEF After
<1>8. Two' <=> Two
  BY <1>1, <1>4, <1>7 DEF Two
<1>9. CASE Has(down, Lists)
  <2>1. IsLast(x)'
    BY <1>1, <1>6, <1>9 DEF IsLast, LastIn
  <2>2. Sound(x)' <=> Sound(x)
    BY <1>1 DEF Sound
  <2>3. /\ RightRows(x) => RightRows(x)'
        /\ OffDiscount(x)' <=> OffDiscount(x)
        /\ OffActive(x)' <=> OffActive(x)
    BY <1>1, <1>7, SameList
  <2>4. RightDiscounts(x) => RightDiscounts(x)'
    BY <1>1, <1>7, <1>8, <2>3 DEF RightDiscounts
  <2>5. RightActive(x) => RightActive(x)'
    BY <1>1, <1>7, <1>9, <2>3 DEF RightActive
  <2>6. Right(x) => Right(x)'
    BY <2>3, <2>4, <2>5 DEF Right
  <2>7. QED
    BY <1>4, <1>5, <1>6, <2>1, <2>2, <2>6 DEF CardsInv, Coming
<1>10. CASE ~Has(down, Lists)
  <2>0. PICK y : y = Page'
    OBVIOUS
  <2>1. x = Page
    BY <1>6, <1>10 DEF IsLast, LastIn
  <2>2. y \in Lists /\ IsLast(y)'
    BY <2>0, <1>1, <1>10, PageListed DEF IsLast, LastIn
  <2>3. Sound(y)' => Sound(Page)
    BY <1>1, <1>10 DEF Sound
  <2>4. /\ RightRows(Page) => RightRows(y)'
        /\ OffDiscount(y)' => OffDiscount(Page)
        /\ DOMAIN cards' = DOMAIN cards
        /\ cards'[i].active = ~cards[i].active
        /\ \A j \in DOMAIN cards : j # i => cards'[j] = cards[j]
    BY <1>1, <2>0, BoxRights
  <2>5. RightDiscounts(Page) => RightDiscounts(y)'
    BY <1>1, <1>7, <1>8, <2>4 DEF RightDiscounts
  <2>6. ASSUME ClicksShown PROVE ClicksShown'
    <3>1. CASE line' = Append(line, r) /\ failed' = failed
      <4>1. ASSUME NEW j \in DOMAIN cards, Has(line', SetOf(j))
            PROVE Left(line', SetTo(j, cards'[j].active), SetOf(j))
        <5>1. CASE j = i
          BY <1>1, <1>2, <1>3, <2>4, <3>1, <5>1, Asked
        <5>2. CASE j # i
          <6>1. Has(line, SetOf(j)) /\ cards'[j] = cards[j] /\ r \notin SetOf(j)
            BY <1>1, <1>2, <1>3, <2>4, <3>1, <4>1, <5>2, Asked
          <6>2. Left(line, SetTo(j, cards[j].active), SetOf(j))
            BY <2>6, <6>1 DEF ClicksShown
          <6>3. QED
            BY <1>1, <1>2, <3>1, <6>1, <6>2, Asked
        <5>3. QED
          BY <5>1, <5>2
      <4>2. ASSUME NEW j \in DOMAIN cards, ~Has(line', SetOf(j)), ~rows'[j].deleted, ~failed',
                   ~Has(down', SetNot)
            PROVE cards'[j].active = rows'[j].active
        <5>1. j # i /\ ~Has(line, SetOf(j))
          BY <1>1, <1>2, <1>3, <3>1, <4>2, Asked
        <5>2. QED
          BY <1>1, <2>4, <2>6, <3>1, <4>2, <5>1 DEF ClicksShown
      <4>3. QED
        BY <2>4, <4>1, <4>2 DEF ClicksShown
    <3>2. CASE ~conn /\ line' = line /\ failed'
      <4>1. line = <<>>
        BY <3>2 DEF Parts, WiresTyped
      <4>2. \A j : ~Has(line', SetOf(j))
        BY <3>2, <4>1, InEmpty
      <4>3. QED
        BY <3>2, <4>2 DEF ClicksShown
    <3>3. QED
      BY <1>1, <3>1, <3>2
  <2>7. RightActive(Page) => RightActive(y)'
    BY <1>1, <1>8, <1>10, <2>6 DEF RightActive
  <2>8. Right(Page) => Right(y)'
    BY <2>4, <2>5, <2>7 DEF Right
  <2>9. QED
    BY <1>4, <1>5, <1>6, <2>1, <2>2, <2>3, <2>8 DEF CardsInv, Coming
<1>11. QED
  BY <1>9, <1>10

(* The answer to a discount is taken for the book last asked for: that is     *)
(* right while there is one.                                                  *)
LEMMA AskKeeps ==
  ASSUME Parts, Parts', CardsInv, NEW i \in Item, NEW p \in Discount, AskDiscount(i, p)
  PROVE CardsInv'
<1> DEFINE r == [type |-> "DISCOUNT", item |-> i, percent |-> p]
<1>1. CASE NoConnection /\ UNCHANGED <<asked, why>>
  BY <1>1, StillKeeps DEF AskDiscount, NoConnection, wires
<1>2. CASE /\ Send(r)
           /\ asked' = [item |-> i, percent |-> p]
           /\ why' = IF Pending("DISCOUNT") > 0 THEN why \cup {"mistaken"} ELSE why
  <2>1. /\ line' = Append(line, r) /\ down' = down /\ rows' = rows /\ cards' = cards /\ since' = since
        /\ found' = found /\ failed' = failed
    BY <1>2 DEF AskDiscount, Send
  <2>2. r \in Request /\ r.type = "DISCOUNT" /\ r.item = i /\ r.percent = p
    BY Requests
  <2> HIDE DEF r
  <2>3. /\ r \in Asks /\ r \notin Reloads /\ r \in AsksFor(asked')
        /\ \A j, a : r \notin SetOf(j) /\ r \notin SetTo(j, a)
    BY <1>2, <2>2, RequestKinds
  <2>4. /\ Has(line', Reloads) <=> Has(line, Reloads)
        /\ Has(line', Asks)
        /\ Left(line', AsksFor(asked'), Asks)
        /\ LeftTwice(line', Asks, {}) <=> LeftTwice(line, Asks, {}) \/ Has(line, Asks)
    BY <2>1, <2>2, <2>3, Asked
  <2>5. LastAsked'
    BY <2>4 DEF LastAsked
  <2>6. PICK x \in Lists : IsLast(x) /\ (Has(line, Reloads) \/ ~Sound(x) \/ Right(x))
    BY DEF CardsInv, Coming
  <2>7. \A X : After(X)' <=> After(X)
    BY <2>1 DEF After
  <2>8. Page' = Page /\ Present' = Present
    BY <2>1 DEF Page, Present
  <2>9. IsLast(x)'
    BY <2>1, <2>2, <2>6, <2>8, Asked
  <2>10. Sound(x)' => Sound(x)
    BY <1>2, <2>1 DEF Sound
  <2>11. ASSUME Right(x), ~Two' PROVE RightDiscounts(x)'
    <3>1. ~After(Discounts) /\ ~Two
      BY <2>4, <2>7, <2>11, <2>1 DEF Two
    <3>2. ~After(DiscountDone)
      BY <3>1, KindsWithin DEF After, Left
    <3>3. ~OffDiscount(x)
      BY <2>11, <3>1 DEF Right, RightDiscounts
    <3>4. ~OffDiscount(x)'
      BY <2>1, <2>7, <2>8, <3>2, <3>3 DEF OffDiscount
    <3>5. QED
      BY <2>7, <3>2, <3>4 DEF RightDiscounts
  <2>12. ASSUME Right(x), Sound(x)' PROVE RightActive(x)'
    <3>1. OffActive(x)' <=> OffActive(x)
      BY <2>1, <2>8 DEF OffActive
    <3>2. CASE Has(down, Lists)
      BY <2>1, <2>7, <2>12, <3>1, <3>2 DEF Right, RightActive
    <3>3. CASE ~Has(down, Lists)
      <4>1. ~Two /\ ClicksShown
        BY <2>12, <3>3 DEF Right, RightActive
      <4>2. ~(Pending("DISCOUNT") > 0)
        BY <1>2, <2>1, <2>12, <3>3 DEF Sound
      <4>3. ~Has(line, Asks) /\ ~Has(down, Discounts)
        BY <4>2, NonePending
      <4>4. ~After(Discounts)
        BY <4>3, LeftHas DEF After
      <4>5. ~Two'
        BY <2>1, <2>4, <2>7, <4>1, <4>3, <4>4 DEF Two
      <4>6. \A j, a : /\ Has(line', SetOf(j)) <=> Has(line, SetOf(j))
                      /\ Left(line', SetTo(j, a), SetOf(j)) <=> Left(line, SetTo(j, a), SetOf(j))
        BY <2>1, <2>2, <2>3, Asked
      <4>7. ClicksShown'
        BY <2>1, <4>1, <4>6 DEF ClicksShown
      <4>8. QED
        BY <2>1, <3>3, <4>5, <4>7 DEF RightActive
    <3>4. QED
      BY <3>2, <3>3
  <2>13. ASSUME Right(x) PROVE RightRows(x)'
    BY <2>1, <2>7, <2>8, <2>13 DEF Right, RightRows, Vanished, Short
  <2>14. Sound(x)' /\ Right(x) => Right(x)'
    <3>1. Two' => RightDiscounts(x)'
      BY DEF RightDiscounts
    <3>2. QED
      BY <2>11, <2>12, <2>13, <3>1 DEF Right
  <2>15. QED
    BY <2>4, <2>5, <2>6, <2>9, <2>10, <2>14 DEF CardsInv, Coming
<1>3. QED
  BY <1>1, <1>2 DEF AskDiscount

-----------------------------------------------------------------------------
(* The page takes an answer. *)

LEMMA LastAskedTaken ==
  ASSUME Parts, CardsInv, down # <<>>, NEW reload, Take(reload), asked' = asked
  PROVE /\ LastAsked'
        /\ reload => Has(line', Reloads)
        /\ ~reload => line' = line
<1>1. CASE ~reload
  BY <1>1, Taken DEF CardsInv, LastAsked
<1>2. CASE reload
  <2> DEFINE r == [type |-> "LIST"]
  <2>1. r \in Request /\ r.type = "LIST" /\ line' = Append(line, r)
    BY <1>2, Requests, Taken
  <2> HIDE DEF r
  <2>2. r \in Reloads /\ r \notin Asks /\ \A a : r \notin AsksFor(a)
    BY <2>1, RequestKinds
  <2>3. line \in Seq(Request)
    BY DEF Parts, WiresTyped
  <2>4. /\ Has(line', Reloads)
        /\ Has(line', Asks) <=> Has(line, Asks)
        /\ Left(line, AsksFor(asked), Asks) => Left(line', AsksFor(asked), Asks)
    BY <2>1, <2>2, <2>3, InAppend
  <2>5. QED
    BY <1>2, <2>4 DEF CardsInv, LastAsked
<1>3. QED
  BY <1>1, <1>2

(* The last list is shown if none follows, and stays to come otherwise.       *)
LEMMA ListTakenKeeps ==
  ASSUME Parts, Parts', CardsInv, HandleList
  PROVE CardsInv'
<1> DEFINE m == Head(down)
<1>1. /\ down # <<>> /\ m.type = "LIST" /\ Take(FALSE) /\ rows' = rows /\ since' = since
      /\ failed' = failed /\ asked' = asked /\ cards' = m.cards /\ found' = m.found
      /\ why' = (IF since THEN {"others"} ELSE {})
                  \cup (IF m.failed THEN {"failed"} ELSE {})
                  \cup (IF Pending("SET") > 0 THEN {"overlap"} ELSE {})
                  \cup (IF Pending("DISCOUNT") > 1 THEN {"mistaken"} ELSE {})
  BY DEF HandleList, Arrives, Take
<1>2. m \in Response /\ line' = line
  BY <1>1, Taken
<1> HIDE DEF m
<1>3. /\ m \in Lists /\ m \notin Discounts /\ m \notin DiscountDone /\ m \notin DeleteDone
      /\ m \notin Sets
  BY <1>1, <1>2, ResponseKinds
<1>4. LastAsked'
  BY <1>1, LastAskedTaken
<1>5. PICK x \in Lists : IsLast(x) /\ (Has(line, Reloads) \/ ~Sound(x) \/ Right(x))
  BY DEF CardsInv, Coming
<1>6. Has(down, Lists)
  BY <1>1, <1>3, Taken DEF m
<1>7. /\ After(Discounts)' <=> After(Discounts)
      /\ After(DiscountDone)' <=> After(DiscountDone)
      /\ After(DeleteDone)' <=> After(DeleteDone)
      /\ After(Sets)' <=> After(Sets)
      /\ Two' <=> Two
  <2>1. /\ After(Discounts)' <=> After(Discounts)
        /\ After(DiscountDone)' <=> After(DiscountDone)
        /\ After(DeleteDone)' <=> After(DeleteDone)
        /\ After(Sets)' <=> After(Sets)
    BY <1>1, <1>3, Taken DEF m, After
  <2>2. LeftTwice(down, Discounts, Lists) <=> LeftTwice(down', Discounts, Lists)
    BY <1>1, <1>3, Taken DEF m
  <2>3. QED
    BY <1>2, <2>1, <2>2 DEF Two
<1>8. Present' = Present
  BY <1>1 DEF Present
<1>9. ASSUME Right(x) PROVE RightRows(x)' /\ RightDiscounts(x)' /\ (OffActive(x)' <=> OffActive(x))
  <2>1. RightRows(x)' /\ (OffDiscount(x)' <=> OffDiscount(x)) /\ (OffActive(x)' <=> OffActive(x))
    BY <1>1, <1>7, <1>9, SameList DEF Right
  <2>2. RightDiscounts(x)'
    BY <1>1, <1>7, <1>9, <2>1 DEF Right, RightDiscounts
  <2>3. QED
    BY <2>1, <2>2
<1>10. CASE Has(down', Lists)
  <2>1. IsLast(x)'
    BY <1>1, <1>5, <1>10, Taken
  <2>2. Sound(x)' <=> Sound(x)
    BY <1>1, <1>6, <1>10 DEF Sound
  <2>3. Right(x) => Right(x)'
    BY <1>6, <1>7, <1>9, <1>10 DEF Right, RightActive
  <2>4. QED
    BY <1>2, <1>4, <1>5, <2>1, <2>2, <2>3 DEF CardsInv, Coming
<1>11. CASE ~Has(down', Lists)
  <2>1. x = m
    BY <1>1, <1>3, <1>5, <1>11, Taken DEF m, LastIn
  <2>2. CASE why' # {}
    <3>1. PICK y : y = Page'
      OBVIOUS
    <3>2. y \in Lists /\ IsLast(y)' /\ ~Sound(y)'
      BY <1>11, <2>2, <3>1, PageListed DEF IsLast, LastIn, Sound
    <3>3. QED
      BY <1>4, <3>2 DEF CardsInv, Coming
  <2>3. CASE why' = {}
    <3>1. ~since /\ ~m.failed /\ ~(Pending("SET") > 0) /\ ~(Pending("DISCOUNT") > 1)
      BY <1>1, <2>3
    <3>2. Page' = m
      <4>1. m.failed = FALSE
        BY <1>1, <1>2, <3>1, ResponseFields
      <4>2. m = [type |-> "LIST", cards |-> m.cards, found |-> m.found, failed |-> FALSE]
        BY <1>1, <1>2, <4>1, ResponseFields
      <4>3. QED
        BY <1>1, <4>2 DEF Page
    <3>3. IsLast(x)'
      BY <1>11, <2>1, <3>2 DEF IsLast, LastIn
    <3>4. Sound(x)
      BY <1>6, <2>1, <3>1 DEF Sound
    <3>5. ASSUME Right(x) PROVE Right(x)'
      <4>1. ~Two' /\ ~Has(down, Sets) /\ \A i : ~Has(line, SetOf(i))
        BY <1>7, <3>1, NonePending
      <4>2. ~After(Sets)
        BY <4>1, LeftHas DEF After
      <4>3. ~OffActive(m)
        BY <1>6, <2>1, <3>5, <4>2 DEF Right, RightActive
      <4>4. DOMAIN m.cards \subseteq Item
        BY <1>1, <1>2, ListingFields, ResponseFields
      <4>5. ClicksShown'
        BY <1>1, <1>2, <4>1, <4>3, <4>4 DEF ClicksShown, OffActive, Present
      <4>6. QED
        BY <1>9, <1>11, <3>5, <4>1, <4>5 DEF Right, RightActive
    <3>6. QED
      BY <1>2, <1>4, <1>5, <3>3, <3>4, <3>5 DEF CardsInv, Coming
  <2>4. QED
    BY <2>2, <2>3
<1>12. QED
  BY <1>10, <1>11

(* An answer that leaves the cards, and asks for no list.                     *)
LEMMA QuietKeeps ==
  ASSUME Parts, Parts', CardsInv, down # <<>>, Take(FALSE), Head(down).type \in {"SET", "DELETE"},
         Head(down) \notin SetNot, Head(down) \notin DeleteDone,
         cards' = cards, found' = found, asked' = asked, why' = why, failed' = failed
  PROVE CardsInv'
<1> DEFINE m == Head(down)
<1>1. /\ m \in Response /\ line' = line /\ m.type \in {"SET", "DELETE"}
      /\ m \notin SetNot /\ m \notin DeleteDone
  BY Taken
<1>2. rows' = rows /\ since' = since
  BY DEF Take
<1> HIDE DEF m
<1>3. m \notin Lists /\ m \notin Discounts /\ m \notin DiscountDone
  BY <1>1, ResponseKinds
<1>4. LastAsked'
  BY LastAskedTaken
<1>5. PICK x \in Lists : IsLast(x) /\ (Has(line, Reloads) \/ ~Sound(x) \/ Right(x))
  BY DEF CardsInv, Coming
<1>6. Has(down, Lists) <=> Has(down', Lists)
  BY <1>3, Taken DEF m
<1>7. /\ After(Discounts)' <=> After(Discounts)
      /\ After(DiscountDone)' <=> After(DiscountDone)
      /\ After(DeleteDone)' <=> After(DeleteDone)
      /\ Has(down, Lists) => (After(Sets)' <=> After(Sets))
      /\ Two' <=> Two
  <2>1. /\ After(Discounts)' <=> After(Discounts)
        /\ After(DiscountDone)' <=> After(DiscountDone)
        /\ After(DeleteDone)' <=> After(DeleteDone)
        /\ Has(down, Lists) => (After(Sets)' <=> After(Sets))
    BY <1>1, <1>3, <1>6, Taken DEF m, After
  <2>2. LeftTwice(down, Discounts, Lists) <=> LeftTwice(down', Discounts, Lists)
    BY <1>3, Taken DEF m
  <2>3. QED
    BY <1>1, <2>1, <2>2 DEF Two
<1>8. IsLast(x)'
  <2>1. LastIn(down', Page, x)
    BY <1>3, <1>5, Taken DEF m
  <2>2. QED
    BY <2>1 DEF IsLast, Page
<1>9. Sound(x)' <=> Sound(x)
  BY <1>2, <1>6 DEF Sound
<1>10. ASSUME Right(x) PROVE Right(x)'
  <2>1. RightRows(x)' /\ (OffDiscount(x)' <=> OffDiscount(x)) /\ (OffActive(x)' <=> OffActive(x))
    BY <1>2, <1>7, <1>10, SameList DEF Right
  <2>2. RightDiscounts(x)'
    BY <1>2, <1>7, <1>10, <2>1 DEF Right, RightDiscounts
  <2>3. Has(down, SetNot) <=> Has(down', SetNot)
    BY <1>1, Taken DEF m
  <2>4. ClicksShown => ClicksShown'
    BY <1>1, <1>2, <2>3 DEF ClicksShown
  <2>5. RightActive(x)'
    BY <1>6, <1>7, <1>10, <2>1, <2>4 DEF Right, RightActive
  <2>6. QED
    BY <2>1, <2>2, <2>5 DEF Right
<1>11. QED
  BY <1>1, <1>4, <1>5, <1>8, <1>9, <1>10 DEF CardsInv, Coming

(* An answer that asks for a list. *)
LEMMA ReloadKeeps ==
  ASSUME Parts, CardsInv, down # <<>>, Take(TRUE), Head(down) \notin Lists,
         cards' = cards, found' = found, asked' = asked
  PROVE CardsInv'
<1>1. LastAsked' /\ Has(line', Reloads)
  BY LastAskedTaken
<1>2. PICK x \in Lists : IsLast(x)
  BY DEF CardsInv, Coming
<1>3. LastIn(down', Page, x)
  BY <1>2, Taken
<1>4. IsLast(x)'
  BY <1>3 DEF IsLast, Page
<1>5. QED
  BY <1>1, <1>2, <1>4 DEF CardsInv, Coming

LEMMA SetTakenKeeps ==
  ASSUME Parts, Parts', CardsInv, HandleSet \/ HandleDelete
  PROVE CardsInv'
<1>1. /\ down # <<>> /\ Head(down).type \in {"SET", "DELETE"}
      /\ cards' = cards /\ found' = found /\ asked' = asked /\ why' = why
  BY DEF HandleSet, HandleDelete, Arrives
<1>2. Head(down) \in Response
  BY <1>1, TailSeq DEF Parts, WiresTyped
<1>3. Head(down) \notin Lists
  BY <1>1, <1>2, ResponseKinds
<1>4. Take(TRUE) => CardsInv'
  BY <1>1, <1>3, ReloadKeeps
<1>5. failed \in BOOLEAN
  BY DEF Parts, PageTyped
<1>6. CASE HandleSet
  <2>1. CASE ~Head(down).ok \/ failed
    <3>1. Take(TRUE)
      BY <1>6, <2>1 DEF HandleSet, Take
    <3>2. QED
      BY <1>4, <3>1
  <2>2. CASE Head(down).ok /\ ~failed
    <3>1. Take(FALSE) /\ failed' = FALSE /\ Head(down).type = "SET"
      BY <1>6, <2>2 DEF HandleSet, Take, Arrives
    <3>2. failed' = failed
      BY <1>5, <2>2, <3>1
    <3>3. Head(down) \notin SetNot /\ Head(down) \notin DeleteDone
      BY <1>2, <2>2, <3>1, ResponseKinds
    <3>4. QED
      BY <1>1, <3>1, <3>2, <3>3, QuietKeeps
  <2>3. QED
    BY <2>1, <2>2
<1>7. CASE HandleDelete
  <2>1. CASE kind = "admin" => Head(down).ok
    <3>1. Take(TRUE)
      BY <1>7, <2>1 DEF HandleDelete, Take
    <3>2. QED
      BY <1>4, <3>1
  <2>2. CASE kind = "admin" /\ ~Head(down).ok
    <3>1. Take(FALSE) /\ failed' = (failed /\ kind # "publisher") /\ Head(down).type = "DELETE"
      BY <1>7, <2>2 DEF HandleDelete, Take, Arrives
    <3>2. failed' = failed
      BY <1>5, <2>2, <3>1
    <3>3. Head(down) \notin SetNot /\ Head(down) \notin DeleteDone
      BY <1>2, <2>2, <3>1, ResponseKinds
    <3>4. QED
      BY <1>1, <3>1, <3>2, <3>3, QuietKeeps
  <2>3. QED
    BY <2>1, <2>2
<1>8. QED
  BY <1>6, <1>7

(* The discount is shown on the card of the book last asked for.              *)
LEMMA DiscountTakenKeeps ==
  ASSUME Parts, Parts', CardsInv, HandleDiscount
  PROVE CardsInv'
<1> DEFINE m == Head(down)
<1>1. /\ down # <<>> /\ m.type = "DISCOUNT" /\ Take(FALSE)
      /\ found' = found /\ failed' = failed /\ asked' = asked /\ why' = why
      /\ cards' = IF m.ok /\ asked.item \in DOMAIN cards
                  THEN [cards EXCEPT ![asked.item].discount = asked.percent] ELSE cards
  BY DEF HandleDiscount, Arrives
<1>2. m \in Response /\ line' = line /\ rows' = rows /\ since' = since
  BY <1>1, Taken DEF Take
<1> HIDE DEF m
<1>3. /\ m \notin Lists /\ m \in Discounts
      /\ m \in DiscountDone <=> m.ok
      /\ m \notin DeleteDone /\ m \notin Sets /\ m \notin SetNot
  BY <1>1, <1>2, ResponseKinds
<1>4. LastAsked'
  BY <1>1, LastAskedTaken
<1>5. PICK x \in Lists : IsLast(x) /\ (Has(line, Reloads) \/ ~Sound(x) \/ Right(x))
  BY DEF CardsInv, Coming
<1>6. Has(down, Lists) <=> Has(down', Lists)
  BY <1>1, <1>3, Taken DEF m
<1>7. Sound(x)' <=> Sound(x)
  BY <1>1, <1>2, <1>6 DEF Sound
<1>8. Present' = Present
  BY <1>2 DEF Present
<1>9. /\ After(Discounts)' => After(Discounts)
      /\ After(DeleteDone)' <=> After(DeleteDone)
      /\ Has(down', Lists) =>
           /\ After(Discounts)' <=> After(Discounts)
           /\ After(DiscountDone)' <=> After(DiscountDone)
           /\ After(Sets)' <=> After(Sets)
      /\ ~Has(down', Lists) => (After(DiscountDone) <=> m.ok \/ After(DiscountDone)')
  BY <1>1, <1>3, Taken DEF m, After
<1>10. CASE Has(down', Lists)
  <2>1. IsLast(x)'
    BY <1>1, <1>5, <1>10, Taken
  <2>2. LeftTwice(down, Discounts, Lists) <=> LeftTwice(down', Discounts, Lists)
    BY <1>1, <1>10, Taken
  <2>3. Two' <=> Two
    BY <1>2, <1>9, <1>10, <2>2 DEF Two
  <2>4. ASSUME Right(x) PROVE Right(x)'
    <3>1. RightRows(x)' /\ (OffDiscount(x)' <=> OffDiscount(x)) /\ (OffActive(x)' <=> OffActive(x))
      BY <1>1, <1>2, <1>9, <1>10, <2>4, SameList DEF Right
    <3>2. RightDiscounts(x)'
      BY <1>1, <1>2, <1>9, <1>10, <2>3, <2>4, <3>1 DEF Right, RightDiscounts
    <3>3. RightActive(x)'
      BY <1>6, <1>9, <1>10, <2>4, <3>1 DEF Right, RightActive
    <3>4. QED
      BY <3>1, <3>2, <3>3 DEF Right
  <2>5. QED
    BY <1>2, <1>4, <1>5, <1>7, <2>1, <2>4 DEF CardsInv, Coming
<1>11. CASE ~Has(down', Lists)
  <2>1. x = Page
    BY <1>5, <1>6, <1>11 DEF IsLast, LastIn
  <2>2. PICK y : y = Page'
    OBVIOUS
  <2>3. y \in Lists /\ IsLast(y)'
    BY <1>11, <2>2, PageListed DEF IsLast, LastIn
  <2>4. Sound(y)' <=> Sound(x)
    BY <1>1, <1>6, <1>11 DEF Sound
  <2>5. cards = [j \in DOMAIN cards |-> cards[j]] /\ \A j \in DOMAIN cards : cards[j] \in Shown
    BY ListingFields DEF Parts, PageTyped
  <2>6. /\ DOMAIN cards' = DOMAIN cards
        /\ \A j \in DOMAIN cards : cards'[j].active = cards[j].active
        /\ \A j \in DOMAIN cards : j # asked.item \/ ~m.ok => cards'[j] = cards[j]
        /\ \A j \in DOMAIN cards : j = asked.item /\ m.ok => cards'[j].discount = asked.percent
    <3>1. CASE m.ok /\ asked.item \in DOMAIN cards
      <4>1. cards' = [cards EXCEPT ![asked.item].discount = asked.percent]
        BY <1>1, <3>1
      <4>2. QED
        BY <2>5, <3>1, <4>1 DEF Shown
    <3>2. CASE ~(m.ok /\ asked.item \in DOMAIN cards)
      BY <1>1, <3>2
    <3>3. QED
      BY <3>1, <3>2
  <2>7. y.cards = cards' /\ y.found = found /\ Page.cards = cards /\ Page.found = found
    BY <1>1, <2>2 DEF Page
  <2>8. ASSUME Right(Page) PROVE Right(y)'
    <3>1. ~Two /\ ClicksShown
      BY <1>6, <1>11, <2>8 DEF Right, RightActive
    <3>2. ~LeftTwice(down, Discounts, Lists) /\ ~LeftTwice(line, Asks, {})
          /\ ~(Has(line, Asks) /\ After(Discounts))
      BY <3>1 DEF Two
    <3>3. ~LeftTwice(down', Discounts, Lists) /\ ~Has(down', Discounts)
      BY <1>1, <1>3, <1>11, <3>2, Taken DEF m
    <3>4. ~Two'
      BY <1>2, <1>9, <3>2, <3>3 DEF Two
    <3>5. ~After(DiscountDone)'
      BY <3>3, KindsWithin DEF After, Left, Has
    <3>6. RightRows(y)'
      BY <1>2, <1>8, <1>9, <2>6, <2>7, <2>8 DEF Right, RightRows, Vanished, Short
    <3>7. ~OffDiscount(Page) /\ (m.ok => asked.item \in Item /\ rows[asked.item].discount = asked.percent)
      BY <1>9, <1>11, <2>8, <3>1 DEF Right, RightDiscounts
    <3>8. \A j \in DOMAIN cards \cap Present :
            cards[j].discount = rows[j].discount \/ (m.ok /\ asked.item = j)
      BY <1>9, <1>11, <2>7, <3>5, <3>7 DEF OffDiscount
    <3>9. \A j \in DOMAIN cards \cap Present : cards'[j].discount = rows[j].discount
      BY <2>6, <3>7, <3>8
    <3>10. ~OffDiscount(y)'
      BY <1>2, <1>8, <2>6, <2>7, <3>9 DEF OffDiscount
    <3>11. RightDiscounts(y)'
      BY <3>5, <3>10 DEF RightDiscounts
    <3>12. Has(down, SetNot) <=> Has(down', SetNot)
      BY <1>1, <1>3, Taken DEF m
    <3>13. ClicksShown'
      BY <1>1, <1>2, <2>6, <3>1, <3>12 DEF ClicksShown
    <3>14. RightActive(y)'
      BY <1>11, <3>4, <3>13 DEF RightActive
    <3>15. QED
      BY <3>6, <3>11, <3>14 DEF Right
  <2>9. QED
    BY <1>2, <1>4, <1>5, <2>1, <2>3, <2>4, <2>8 DEF CardsInv, Coming
<1>12. QED
  BY <1>10, <1>11

(* All that is on its way is lost. *)
LEMMA LoseKeeps ==
  ASSUME Parts, Parts', CardsInv, Lose
  PROVE CardsInv'
<1>1. /\ line' = <<>> /\ down' = <<>> /\ rows' = rows /\ since' = since
      /\ cards' = cards /\ found' = found /\ failed' = failed /\ asked' = asked
      /\ why' = IF line # <<>> \/ down # <<>> THEN why \cup {"lost"} ELSE why
  BY DEF Lose, page
<1>2. CASE line = <<>> /\ down = <<>>
  BY <1>1, <1>2, StillKeeps
<1>3. CASE line # <<>> \/ down # <<>>
  <2>1. PICK y : y = Page'
    OBVIOUS
  <2>2. ~Has(down', Lists) /\ ~Has(line', Asks)
    BY <1>1, InEmpty
  <2>3. y \in Lists /\ IsLast(y)'
    BY <2>1, <2>2, PageListed DEF IsLast, LastIn
  <2>4. ~Sound(y)'
    BY <1>1, <1>3, <2>2 DEF Sound
  <2>5. QED
    BY <2>2, <2>3, <2>4 DEF CardsInv, LastAsked, Coming
<1>4. QED
  BY <1>2, <1>3

LEMMA InitCards == CardsInit => CardsInv
<1> SUFFICES ASSUME CardsInit PROVE CardsInv
  OBVIOUS
<1>1. Parts
  BY InitTyped, TypedParts DEF Parts
<1>2. line = <<>> /\ down = <<>> /\ why = {} /\ cards = Cards(Item) /\ found = FALSE
  BY DEF CardsInit
<1>3. /\ \A M : ~Has(line, M) /\ ~Has(down, M)
      /\ \A M : ~After(M)
      /\ ~Two
  BY <1>2, InEmpty, TwiceEmpty DEF After, Two
<1>4. LastAsked
  BY <1>3 DEF LastAsked
<1>5. Page \in Lists /\ IsLast(Page)
  BY <1>1, <1>3, PageListed DEF IsLast, LastIn
<1>6. /\ Present = Item
      /\ \A i \in Item : ~rows[i].deleted
  BY DEF CardsInit, Present
<1>7. DOMAIN cards = Item /\ \A i \in Item : cards[i] = Card(i)
  BY <1>2 DEF Cards
<1>8. \A i : Card(i).active = rows[i].active /\ Card(i).discount = rows[i].discount
  BY DEF Card
<1>9. Page.cards = cards /\ Page.found = found
  BY DEF Page
<1>10. RightRows(Page)
  BY <1>6, <1>7, <1>9 DEF RightRows, Vanished, Short
<1>11. RightDiscounts(Page)
  BY <1>3, <1>7, <1>8, <1>9 DEF RightDiscounts, OffDiscount
<1>12. RightActive(Page)
  BY <1>3, <1>7, <1>8 DEF RightActive, ClicksShown
<1>13. QED
  BY <1>4, <1>5, <1>10, <1>11, <1>12 DEF CardsInv, Coming, Right

LEMMA CardsKept == Parts /\ Parts' /\ CardsInv /\ [CardsNext]_cardsVars => CardsInv'
<1> SUFFICES ASSUME Parts, Parts', CardsInv, [CardsNext]_cardsVars PROVE CardsInv'
  OBVIOUS
<1>1. CASE UNCHANGED cardsVars
  BY <1>1, StillKeeps DEF cardsVars, page, wires, bounds
<1>2. ASSUME Work PROVE CardsInv'
  BY <1>2, GetKeeps, SetKeeps, DiscountKeeps, DeleteKeeps DEF Work
<1>3. ASSUME Clicks PROVE CardsInv'
  <2>1. ASSUME NEW r \in Request, r.type \in {"LIST", "SEARCH", "DELETE"}, Send(r) \/ NoConnection,
               UNCHANGED <<found, failed, asked, why>>
        PROVE CardsInv'
    <3>1. CASE Send(r)
      BY <2>1, <3>1, SendKeeps
    <3>2. CASE NoConnection
      BY <2>1, <3>2, StillKeeps DEF NoConnection, wires
    <3>3. QED
      BY <2>1, <3>1, <3>2
  <2>2. CASE Load
    <3>1. Send([type |-> "LIST"]) \/ NoConnection
      BY <2>2 DEF Load
    <3>2. UNCHANGED <<found, failed, asked, why>>
      BY <2>2 DEF Load
    <3>3. QED
      BY <2>1, <3>1, <3>2, Requests
  <2>3. ASSUME NEW a \in BOOLEAN, Search(a) PROVE CardsInv'
    <3>1. Send([type |-> "SEARCH", active |-> a]) \/ NoConnection
      BY <2>3 DEF Search
    <3>2. UNCHANGED <<found, failed, asked, why>>
      BY <2>3 DEF Search
    <3>3. QED
      BY <2>1, <3>1, <3>2, Requests
  <2>4. ASSUME NEW i \in Item, AskDelete(i) PROVE CardsInv'
    <3>1. Send([type |-> "DELETE", item |-> i]) \/ NoConnection
      BY <2>4 DEF AskDelete
    <3>2. UNCHANGED <<found, failed, asked, why>>
      BY <2>4 DEF AskDelete
    <3>3. QED
      BY <2>1, <3>1, <3>2, Requests
  <2>5. QED
    BY <1>3, <2>2, <2>3, <2>4, ClickKeeps, AskKeeps DEF Clicks
<1>4. ASSUME Handles PROVE CardsInv'
  BY <1>4, ListTakenKeeps, SetTakenKeeps, DiscountTakenKeeps DEF Handles
<1>5. QED
  BY <1>1, <1>2, <1>3, <1>4, CardsSteps, LoseKeeps, ElsewhereKeeps

LEMMA CardsThen == Parts /\ CardsInv => CardsCurrent
<1> SUFFICES ASSUME Parts, CardsInv, line = <<>>, down = <<>>, ~failed, why = {}
             PROVE /\ DOMAIN cards \subseteq Present
                   /\ \A i \in DOMAIN cards : cards[i] = Card(i)
                   /\ found \/ DOMAIN cards = Present
  BY DEF CardsCurrent
<1>1. /\ \A M : ~Has(line, M) /\ ~Has(down, M)
      /\ \A M : ~After(M)
      /\ ~Two
  BY InEmpty, TwiceEmpty DEF After, Two
<1>2. Right(Page)
  BY <1>1 DEF CardsInv, Coming, IsLast, LastIn, Sound
<1>3. Page.cards = cards /\ Page.found = found
  BY DEF Page
<1>4. \A i \in DOMAIN cards : i \in Item /\ cards[i] \in Shown
  BY AnyCard
<1>5. DOMAIN cards \subseteq Present
  BY <1>1, <1>2, <1>3, <1>4 DEF Right, RightRows, Vanished, Present
<1>6. found \/ DOMAIN cards = Present
  BY <1>2, <1>3, <1>5 DEF Right, RightRows, Short
<1>7. \A i \in DOMAIN cards : cards[i].discount = rows[i].discount
  BY <1>1, <1>2, <1>3, <1>5 DEF Right, RightDiscounts, OffDiscount
<1>8. \A i \in DOMAIN cards : cards[i].active = rows[i].active
  BY <1>1, <1>2, <1>5 DEF Right, RightActive, ClicksShown, Present
<1>9. \A i \in DOMAIN cards : cards[i] = Card(i)
  BY <1>4, <1>7, <1>8 DEF Shown, Card
<1>10. QED
  BY <1>5, <1>6, <1>9

(* On the pages of cards, with nothing on its way and no click unsent, the    *)
(* cards are as the rows are: although boxes show clicks in advance and       *)
(* answers name neither a card nor a request, no order of clicks, answers and *)
(* lists leaves the page wrong without one of the causes.                     *)
THEOREM CardsAreCurrent == CardsSpec => []CardsCurrent
<1>1. CardsInit => Parts /\ CardsInv
  BY InitTyped, TypedParts, InitCards DEF Parts
<1>2. Parts /\ CardsInv /\ [CardsNext]_cardsVars => (Parts /\ CardsInv)'
  BY NextTyped, CardsKept
<1>3. Parts /\ CardsInv => CardsCurrent
  BY CardsThen
<1>4. QED
  BY <1>1, <1>2, <1>3, PTL DEF CardsSpec
=============================================================================
