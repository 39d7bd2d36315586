------------------------------ MODULE BookPages ------------------------------
(***************************************************************************)
(* Two pages of one reader's client: the details of a book, with buttons   *)
(* for the cart, the saved books and reading; and the document, with the   *)
(* page read last.  They share one connection, whose answers say what they *)
(* answer but are taken to be for the book now open.  The reader may have  *)
(* another client, and publishers switch books off.                        *)
(***************************************************************************)
EXTENDS Integers, Sequences, Records

CONSTANTS
  Book,      \* books
  Page,      \* page numbers, from 1 on
  MaxActs,   \* bound: clicks
  MaxFaults, \* bound: statements failing, connections lost or not to be had
  MaxOthers, \* bound: what others do
  NoBook     \* no book is open

ASSUME DataAssumption == NoBook \notin Book /\ Page \subseteq Nat /\ 1 \in Page
ASSUME BoundAssumption == MaxActs \in Nat /\ MaxFaults \in Nat /\ MaxOthers \in Nat

VARIABLES
  row,      \* row[b]: the book, and how often it is in the cart and saved
  progress, \* progress[b]: last_page in the rows of reading_progress
  conn,     \* the client is connected
  line,     \* requests on their way, the first one in work
  stage,    \* the statement of updateLastReadPage that is next
  there,    \* it has found a row
  down,     \* answers on their way
  curBook,  \* cur_book of the details
  buttons,  \* buttons shown there
  bookId,   \* m_bookId of the document page
  document, \* the book whose file is loaded
  current,  \* m_currentPage + 1
  otherJob, \* the book another client of the user is to write progress of
  otherHas, \* that client's worker has found a row
  acts,     \* clicks so far
  faults,   \* faults so far
  others,   \* what others have done so far
  \* What the pages cannot know.
  whyDetails, \* what has put the buttons wrong
  whyReader,  \* what has put the document or its page wrong
  twice,      \* books put into the cart or saved by clicks on wrong or slow buttons
  last,       \* last[b]: the page written last
  raced       \* books for which a row was inserted beside another one

worker == <<stage, there>>
details == <<curBook, buttons>>
reader == <<bookId, document, current>>
other == <<otherJob, otherHas>>
ghosts == <<whyDetails, whyReader, twice, last, raced>>
vars == <<row, progress, conn, line, worker, down, details, reader, other, acts, faults, others,
          ghosts>>

Buttons == {"study", "add", "remove", "save", "saved"}
Causes == {"mixed", "elsewhere", "lost", "failed", "early"}
-----------------------------------------------------------------------------
Saved(b) == IF progress[b] = <<>> THEN 1 ELSE Head(progress[b])

(* What the details show of b.                                                *)
Offered(b) ==
  IF ~row[b].active THEN {}
  ELSE {IF row[b].bought THEN "study" ELSE IF row[b].cart > 0 THEN "remove" ELSE "add",
        IF row[b].saved > 0 THEN "saved" ELSE "save"}

(* The client is at the home page or in the library.  A book's file may be    *)
(* gone.                                                                      *)
Init ==
  /\ row \in [Book -> [bought : BOOLEAN, active : {TRUE}, file : BOOLEAN, cart : {0}, saved : {0, 1}]]
  /\ \A b \in Book : row[b].bought \/ (row[b].file /\ row[b].saved = 0)
  /\ progress \in [Book -> {<<>>, <<1>>}]
  /\ \A b \in Book : progress[b] # <<>> => row[b].bought
  /\ conn = TRUE
  /\ line = <<>>
  /\ stage = "look" /\ there = FALSE
  /\ down = <<>>
  /\ curBook = NoBook /\ buttons = {}
  /\ bookId = NoBook /\ document = NoBook /\ current = 1
  /\ otherJob = NoBook /\ otherHas = FALSE
  /\ acts = 0 /\ faults = 0 /\ others = 0
  /\ whyDetails = {} /\ whyReader = {}
  /\ twice = {}
  /\ last = [b \in Book |-> Saved(b)]
  /\ raced = {}

-----------------------------------------------------------------------------
(* The handlers of the details. *)

Takes(type) == line # <<>> /\ Head(line).type = type

Fault == faults < MaxFaults /\ faults' = faults + 1

Answer(m) ==
  /\ line' = Tail(line)
  /\ down' = Append(down, m ++ [type |-> Head(line).type, book |-> Head(line).book])
  /\ UNCHANGED <<conn, details, reader, other, acts, others>>

(* Four queries; a change between two of them is like one after the last.  A  *)
(* failure of the first is taken for a book switched off.                     *)
CheckBookOwnership ==
  /\ Takes("CHECK")
  /\ \/ Answer([show |-> Offered(Head(line).book)]) /\ UNCHANGED <<faults, whyDetails>>
     \/ Fault /\ Answer([show |-> {}]) /\ whyDetails' = whyDetails \cup {"failed"}
  /\ UNCHANGED <<row, progress, worker, whyReader, twice, last, raced>>

AtMostTwo(n) == IF n > 2 THEN 2 ELSE n

(* One statement each, without a look at what is there.                       *)
Write(type, new) ==
  LET b == Head(line).book
  IN  /\ Takes(type)
      /\ \/ row' = [row EXCEPT ![b] = new] /\ Answer([ok |-> TRUE]) /\ UNCHANGED faults
         \/ Fault /\ Answer([ok |-> FALSE]) /\ UNCHANGED row
      /\ UNCHANGED <<progress, worker, ghosts>>

(* A book switched off is not put in, which is a success.                     *)
AddToCart ==
  LET r == row[Head(line).book]
  IN  Write("ADD", IF r.active THEN [r EXCEPT !.cart = AtMostTwo(@ + 1)] ELSE r)

RemoveFromCart == Write("REMOVE", [row[Head(line).book] EXCEPT !.cart = 0])
SaveBook == Write("SAVE", [row[Head(line).book] EXCEPT !.saved = AtMostTwo(@ + 1)])
RemoveSavedBook == Write("UNSAVE", [row[Head(line).book] EXCEPT !.saved = 0])

-----------------------------------------------------------------------------
(* The handlers of the document page. *)

(* The path of a book that is bought; whether a file is there, nobody looks.  *)
(* A failure of either query is taken for a book not bought or without a path.*)
GetBookPdfPath ==
  /\ Takes("PATH")
  /\ \/ Answer([ok |-> row[Head(line).book].bought]) /\ UNCHANGED faults
     \/ Fault /\ Answer([ok |-> FALSE])
  /\ UNCHANGED <<row, progress, worker, ghosts>>

(* Mutant: pages are counted from 0.                                          *)
GetLastReadPageFromZero ==
  /\ Takes("LAST")
  /\ Answer([page |-> Saved(Head(line).book) - 1])
  /\ UNCHANGED <<row, progress, worker, faults, ghosts>>

(* The first row, if there are several; a failure is the first page.          *)
GetLastReadPage ==
  /\ Takes("LAST")
  /\ \/ Answer([page |-> Saved(Head(line).book)]) /\ UNCHANGED <<faults, whyReader>>
     \/ Fault /\ Answer([page |-> 1]) /\ whyReader' = whyReader \cup {"failed"}
  /\ UNCHANGED <<row, progress, worker, whyDetails, twice, last, raced>>

LookForProgress ==
  /\ Takes("UPDATE") /\ stage = "look"
  /\ stage' = "write"
  /\ there' = (progress[Head(line).book] # <<>>)
  /\ UNCHANGED <<row, progress, conn, line, down, details, reader, other, acts, faults, others,
                 ghosts>>

(* All rows are updated if one was found; otherwise one is inserted.          *)
Put(b, p, found) ==
  /\ progress' = [progress EXCEPT ![b] = IF found THEN [k \in DOMAIN @ |-> p] ELSE Append(@, p)]
  /\ last' = [last EXCEPT ![b] = p]
  /\ raced' = CASE found -> raced \ {b}
                [] ~found /\ progress[b] # <<>> -> raced \cup {b}
                [] OTHER -> raced

(* Mutant: whatever was found, a row is inserted.                             *)
UpdateLastReadPageInserting ==
  LET r == Head(line)
  IN  /\ Takes("UPDATE") /\ stage = "write"
      /\ stage' = "look" /\ there' = FALSE
      /\ progress' = [progress EXCEPT ![r.book] = Append(@, r.page)]
      /\ last' = [last EXCEPT ![r.book] = r.page]
      /\ Answer([ok |-> TRUE])
      /\ UNCHANGED <<row, faults, whyDetails, whyReader, twice, raced>>

UpdateLastReadPage ==
  LET r == Head(line)
  IN  /\ Takes("UPDATE") /\ stage = "write"
      /\ stage' = "look" /\ there' = FALSE
      /\ \/ /\ Put(r.book, r.page, there)
            /\ Answer([ok |-> TRUE])
            /\ UNCHANGED <<faults, whyReader>>
         \/ /\ Fault
            /\ Answer([ok |-> FALSE])
            /\ whyReader' = IF r.book = bookId THEN whyReader \cup {"failed"} ELSE whyReader
            /\ UNCHANGED <<progress, last, raced>>
      /\ UNCHANGED <<row, whyDetails, twice>>

-----------------------------------------------------------------------------
(* Others: publishers, and another client of the user, which buys, saves and  *)
(* reads.                                                                     *)

Other == others < MaxOthers /\ others' = others + 1

(* The details will still hear of it if they have asked and not been answered *)
(* yet.                                                                       *)
Unheard(b) ==
  /\ b = curBook
  /\ ~(/\ \E k \in DOMAIN line : line[k].type = "CHECK" /\ line[k].book = b
       /\ \A k \in DOMAIN down : down[k].type # "CHECK"
       /\ buttons = {})

ChangeElsewhere(b, new) ==
  /\ Other
  /\ row[b].bought => new.bought
  /\ new.bought => new.cart = 0
  /\ row' = [row EXCEPT ![b] = [new EXCEPT !.file = row[b].file]]
  /\ whyDetails' = IF Unheard(b) THEN whyDetails \cup {"elsewhere"} ELSE whyDetails
  /\ twice' = twice \cup {b}
  /\ UNCHANGED <<progress, conn, line, worker, down, details, reader, other, acts, faults,
                 whyReader, last, raced>>

LookElsewhere(b) ==
  /\ Other /\ otherJob = NoBook /\ row[b].bought
  /\ otherJob' = b
  /\ otherHas' = (progress[b] # <<>>)
  /\ UNCHANGED <<row, progress, conn, line, worker, down, details, reader, acts, faults, ghosts>>

ReadElsewhere(p) ==
  /\ otherJob # NoBook
  /\ otherJob' = NoBook /\ otherHas' = FALSE
  /\ Put(otherJob, p, otherHas)
  /\ whyReader' = IF otherJob = bookId THEN whyReader \cup {"elsewhere"} ELSE whyReader
  /\ UNCHANGED <<row, conn, line, worker, down, details, reader, acts, faults, others, whyDetails,
                 twice>>

-----------------------------------------------------------------------------
(* The details. *)

Click == acts < MaxActs /\ acts' = acts + 1

Pending(types) ==
  \/ \E k \in DOMAIN line : line[k].type \in types
  \/ \E k \in DOMAIN down : down[k].type \in types

Checked(b) ==
  \/ \E k \in DOMAIN line : line[k].type = "CHECK" /\ line[k].book = b
  \/ \E k \in DOMAIN down : down[k].type = "CHECK" /\ down[k].book = b

Send(request) == conn' = TRUE /\ line' = Append(line, request)
NoConnection == ~conn /\ Fault /\ UNCHANGED <<conn, line>>

(* What is still to come for another book, or from a click, will be mixed up  *)
(* with the answer.                                                           *)
Mixed(b) == Pending({"ADD", "REMOVE"}) \/ \E d \in Book \ {b} : Checked(d)

(* A new request mends what was wrong, unless an answer from before is still  *)
(* to come.                                                                   *)
WhyNow(b) ==
  (IF Pending({"CHECK"}) THEN whyDetails ELSE {}) \cup (IF Mixed(b) THEN {"mixed"} ELSE {})

Ask(b) == [type |-> "CHECK", book |-> b]

(* Mutant: buttons of the book before stay.                                   *)
LoadDetailsKeepingButtons(b) ==
  /\ Click
  /\ curBook' = b
  /\ Send(Ask(b))
  /\ whyDetails' = WhyNow(b)
  /\ UNCHANGED <<row, progress, worker, down, buttons, reader, other, faults, others, whyReader,
                 twice, last, raced>>

(* loadBook, from a list of books.                                            *)
LoadDetails(b) ==
  /\ Click
  /\ curBook' = b
  /\ buttons' = {}
  /\ \/ /\ Send(Ask(b))
        /\ whyDetails' = WhyNow(b)
        /\ UNCHANGED faults
     \/ NoConnection /\ whyDetails' = {"lost"}
  /\ UNCHANGED <<row, progress, worker, down, reader, other, others, whyReader, twice, last, raced>>

(* A button; it stays until the answer comes, and can be clicked again.       *)
ClickButton(button, type) ==
  /\ button \in buttons /\ Click
  /\ \/ /\ Send([type |-> type, book |-> curBook])
        /\ twice' = IF type \in {"ADD", "SAVE"} /\ (Pending({"ADD", "REMOVE", "SAVE", "UNSAVE"})
                                                      \/ whyDetails # {})
                    THEN twice \cup {curBook} ELSE twice
        /\ UNCHANGED faults
     \/ NoConnection /\ UNCHANGED twice
  /\ UNCHANGED <<row, progress, worker, down, details, reader, other, others, whyDetails, whyReader,
                 last, raced>>

ClickAdd == ClickButton("add", "ADD")
ClickRemove == ClickButton("remove", "REMOVE")
ClickSave == ClickButton("save", "SAVE")
ClickSaved == ClickButton("saved", "UNSAVE")

Arrives(type) == down # <<>> /\ Head(down).type = type

Take ==
  /\ down' = Tail(down)
  /\ UNCHANGED <<row, progress, worker, other, acts, faults, others, twice, last, raced>>

(* Buttons are shown, and none is hidden.                                     *)
HandleOwnership ==
  /\ Arrives("CHECK") /\ Take
  /\ buttons' = buttons \cup Head(down).show
  /\ UNCHANGED <<conn, line, curBook, reader, whyDetails, whyReader>>

(* Mutant: the button for putting the book in stays.                          *)
HandleCartKeepingAdd ==
  /\ Arrives("ADD") \/ Arrives("REMOVE")
  /\ Take
  /\ buttons' = CASE ~Head(down).ok -> buttons
                  [] Head(down).ok /\ Arrives("ADD") -> buttons \cup {"remove"}
                  [] OTHER -> (buttons \ {"remove"}) \cup {"add"}
  /\ UNCHANGED <<conn, line, curBook, reader, whyDetails, whyReader>>

HandleCart ==
  /\ Arrives("ADD") \/ Arrives("REMOVE")
  /\ Take
  /\ buttons' = CASE ~Head(down).ok -> buttons
                  [] Head(down).ok /\ Arrives("ADD") -> (buttons \ {"add"}) \cup {"remove"}
                  [] OTHER -> (buttons \ {"remove"}) \cup {"add"}
  /\ UNCHANGED <<conn, line, curBook, reader, whyDetails, whyReader>>

(* The book now open is loaded again.                                         *)
HandleSaved ==
  /\ Arrives("SAVE") \/ Arrives("UNSAVE")
  /\ Take
  /\ IF Head(down).ok
     THEN /\ buttons' = {}
          /\ Send(Ask(curBook))
          /\ whyDetails' = WhyNow(curBook)
     ELSE UNCHANGED <<conn, line, buttons, whyDetails>>
  /\ UNCHANGED <<curBook, reader, whyReader>>

-----------------------------------------------------------------------------
(* The document page. *)

(* loadBook, from the details or from the library, which lists what is bought.*)
LoadBook(b) ==
  /\ Click
  /\ row[b].bought \/ (b = curBook /\ "study" \in buttons)
  /\ bookId' = b
  /\ document' = NoBook
  /\ current' = 1
  /\ whyReader' = {}
  /\ \/ Send([type |-> "PATH", book |-> b]) /\ UNCHANGED faults
     \/ NoConnection
  /\ UNCHANGED <<row, progress, worker, down, details, other, others, whyDetails, twice, last, raced>>

(* The file is loaded, then the page of the book now open is asked for.  To   *)
(* load a file that is gone closes the one that was open.                     *)
HandlePath ==
  LET m == Head(down)
  IN  /\ Arrives("PATH") /\ Take
      /\ \/ ~m.ok /\ UNCHANGED <<conn, line, document, whyReader>>
         \/ /\ m.ok /\ ~row[m.book].file
            /\ document' = NoBook
            /\ UNCHANGED <<conn, line, whyReader>>
         \/ /\ m.ok /\ row[m.book].file
            /\ document' = m.book
            /\ Send([type |-> "LAST", book |-> bookId])
            /\ whyReader' = IF m.book = bookId THEN whyReader \ {"mixed"}
                            ELSE whyReader \cup {"mixed"}
      /\ UNCHANGED <<details, bookId, current, whyDetails>>

HandleLastReadPage ==
  /\ Arrives("LAST") /\ Take
  /\ current' = Head(down).page
  /\ UNCHANGED <<conn, line, details, bookId, document, whyDetails, whyReader>>

HandleUpdated ==
  /\ Arrives("UPDATE") /\ Take
  /\ UNCHANGED <<conn, line, details, reader, whyDetails, whyReader>>

(* The next page, the one before, or one by its number; a file is open.       *)
TurnTo(p) ==
  /\ document # NoBook /\ Click
  /\ current' = p
  /\ \/ /\ Send([type |-> "UPDATE", book |-> bookId, page |-> p])
        /\ whyReader' = IF Pending({"PATH", "LAST"}) THEN whyReader \cup {"early"} ELSE whyReader
        /\ UNCHANGED faults
     \/ NoConnection /\ whyReader' = whyReader \cup {"lost"}
  /\ UNCHANGED <<row, progress, worker, down, details, bookId, document, other, others, whyDetails,
                 twice, last, raced>>

-----------------------------------------------------------------------------
(* With the connection goes all that is on its way.  The handler in work has  *)
(* written or has not.                                                        *)
Lose ==
  /\ conn /\ Fault
  /\ conn' = FALSE
  /\ line' = <<>> /\ down' = <<>>
  /\ stage' = "look" /\ there' = FALSE
  /\ whyDetails' = IF Pending({"CHECK", "ADD", "REMOVE", "SAVE", "UNSAVE"})
                   THEN whyDetails \cup {"lost"} ELSE whyDetails
  /\ whyReader' = IF Pending({"PATH", "LAST", "UPDATE"}) THEN whyReader \cup {"lost"} ELSE whyReader
  /\ UNCHANGED <<row, progress, details, reader, other, acts, others, twice, last, raced>>

Next ==
  \/ CheckBookOwnership \/ AddToCart \/ RemoveFromCart \/ SaveBook \/ RemoveSavedBook
  \/ GetBookPdfPath \/ GetLastReadPage \/ LookForProgress \/ UpdateLastReadPage
  \/ \E b \in Book :
       \/ \E bought, active \in BOOLEAN, cart, saved \in {0, 1} :
            ChangeElsewhere(b, [bought |-> bought, active |-> active, file |-> TRUE,
                                cart |-> cart, saved |-> saved])
       \/ LookElsewhere(b) \/ LoadDetails(b) \/ LoadBook(b)
  \/ \E p \in Page : ReadElsewhere(p) \/ TurnTo(p)
  \/ ClickAdd \/ ClickRemove \/ ClickSave \/ ClickSaved
  \/ HandleOwnership \/ HandleCart \/ HandleSaved
  \/ HandlePath \/ HandleLastReadPage \/ HandleUpdated
  \/ Lose

Spec == Init /\ [][Next]_vars
-----------------------------------------------------------------------------
(* Properties. *)

Row == [bought : BOOLEAN, active : BOOLEAN, file : BOOLEAN, cart : 0..2, saved : 0..2]

Request ==
  [type : {"CHECK", "ADD", "REMOVE", "SAVE", "UNSAVE", "PATH", "LAST"}, book : Book]
    \cup [type : {"UPDATE"}, book : Book, page : Page]

Response ==
  [type : {"CHECK"}, book : Book, show : SUBSET Buttons]
    \cup [type : {"ADD", "REMOVE", "SAVE", "UNSAVE", "PATH", "UPDATE"}, book : Book, ok : BOOLEAN]
    \cup [type : {"LAST"}, book : Book, page : Page]

Typed ==
  /\ row \in [Book -> Row]
  /\ progress \in [Book -> Seq(Page)]
  /\ conn \in BOOLEAN
  /\ line \in Seq(Request)
  /\ stage \in {"look", "write"} /\ there \in BOOLEAN
  /\ down \in Seq(Response)
  /\ curBook \in Book \cup {NoBook} /\ buttons \subseteq Buttons
  /\ bookId \in Book \cup {NoBook} /\ document \in Book \cup {NoBook} /\ current \in Page
  /\ otherJob \in Book \cup {NoBook} /\ otherHas \in BOOLEAN
  /\ acts \in 0..MaxActs /\ faults \in 0..MaxFaults /\ others \in 0..MaxOthers
  /\ whyDetails \subseteq Causes /\ whyReader \subseteq Causes
  /\ twice \subseteq Book /\ last \in [Book -> Page] /\ raced \subseteq Book

(* A book is in the cart once and saved once, which no key of the tables sees *)
(* to: buttons do, unless they are clicked again before the answer or are     *)
(* wrong.                                                                     *)
TypeOK == Typed /\ \A b \in Book \ twice : row[b].cart \leq 1 /\ row[b].saved \leq 1

(* With no answer to come, the details offer what can be done with the book   *)
(* they show.  Buttons of another book, or one beside its contrary, are there *)
(* only if another book was opened, or a click was on its way, when this one  *)
(* was loaded; or for what others did, or what was lost.                      *)
ButtonsRight ==
  /\ curBook # NoBook
  /\ ~Pending({"CHECK", "ADD", "REMOVE", "SAVE", "UNSAVE"})
  /\ whyDetails = {}
  => buttons = Offered(curBook)

(* With no answer to come, the document is that of the book whose progress is *)
(* written, opened at the page saved.  A document of another book stays open  *)
(* only if it came late and the path of the right one was refused; a page     *)
(* turned before the saved one has come is saved in its place.                *)
ReaderRight ==
  /\ document # NoBook
  /\ ~Pending({"PATH", "LAST", "UPDATE"})
  /\ whyReader = {}
  => document = bookId /\ current = Saved(bookId)

(* The page found when a book is opened is the one written last, by whichever *)
(* client: only of two first pages written at once does the first one win,    *)
(* until the next page is turned.                                             *)
ProgressLast == \A b \in Book \ raced : Saved(b) = last[b]
=============================================================================
