# Lumina: a model of the server and what is shown of it

Lumina is a client/server e-book shop written with Qt. One server process keeps
a SQLite database and the books' files; clients (readers, publishers, the
administrator) talk to it over TCP with one JSON object per line. This directory
holds TLA+ models of the program in `src/`, the configurations that check them
with TLC, and proofs checked by TLAPS. `PROJECT.json` maps every definition to
the lines it models.

## The system

| Part | Where | State | Operations |
|---|---|---|---|
| Server, main thread | `Server/server.cpp` | the maps `onlineUsers`, `socketToUser`, `socketToName` (mutex) | accept a connection, handle the workers' signals, push and broadcast |
| Workers, one thread per connection | `Server/networkworker.cpp` | socket, own SQLite connection | about 55 request handlers, each synchronous |
| Database | `Server/database_manager.cpp` | 10 tables: users, notifications, books, comments, cart, library, saved_books, shelves, shelf_books, reading_progress | queries, each one statement; `finalizePurchase` is the only transaction |
| Files | `Server/networkworker.cpp` (add and update of books) | PDFs and covers under `BookClub_Storage` | copy, remove |
| Client connection | `Client/clientnetworkmanager.cpp` | socket, receive buffer | connect, send, cut the stream into responses |
| Client pages | `Client/user`, `Client/publisher`, `Client/admin`, `Client/notification` | what each page shows and expects | requests, reactions to responses and pushes |
| Server window | `Server/mainwindow.cpp` | log, list of clients | display only |

How they interact. A client's request is handled to its end by the worker of its
connection. Handlers of different connections run in parallel and meet only in
the database (any two statements may be interleaved) and in the file system.
What concerns other users (a notification for one, a broadcast for all) is
emitted as a signal and waits in the event queue of the main thread, which looks
up sockets in its maps and posts the message to the thread of the socket. A
client acts on a response whenever it arrives; most pages do not remember which
request it answers.

What is hard, and what would make each part correct:

* **Purchases.** Two clients of one account pay at once; prices, the activity of
  books and the cart change between the steps of a purchase; a write fails; the
  server dies. Correct: a purchase is one atomic operation, nobody gets a book
  twice or pays a total that is not the cart's, and publishers hear of exactly
  what was sold.
* **Session registry.** Logins, disconnections and notifications of several
  threads arrive in one queue while sockets are deleted and their addresses used
  again. Correct: the maps follow the connections, no socket is used after its
  deletion, a notification reaches its user and nobody else.
* **Comments and ratings.** The average is read and written in two statements.
  Correct: once all requests are answered it is the average of the comments.
* **Catalogue and files.** Read, merge and write of whole rows; files copied
  before and removed after the write. Correct: no update undoes what it does not
  name, every book has its file, no file is left over, the amount of a discount
  is that of the price.
* **Library.** Check, then act, without a transaction and without a unique key.
  Correct: one shelf per name, a book once on a shelf and not lost in a move,
  pages that come to rest and show the tables.
* **Accounts.** Lookups by username and writes by id, or the other way round,
  with renames, blocking and deletion in between. Correct: one user per username
  and address, a password changes only by who knew it, forms keep to their
  fields.
* **Notifications.** The same row reaches a client by a push and by a count.
  Correct: the badge is the number of unread rows, cards offer what can be read.
* **Pages.** Answers do not say what they answer; buttons and boxes change in
  advance. Correct: a quiet page shows what the database holds.

`PROJECT.json` lists the hazards line by line, with the property that covers
each.

## Modules

| Module | Models | Of the code |
|---|---|---|
| `Bookshop` | the promise: books, carts and libraries, one indivisible operation at a time | what both of the next two implement |
| `Purchase` | the cart requests and `FINALIZE_PURCHASE` as the workers run them | `finalizePurchase`, `handleFinalizePurchase`, `cartwidget.cpp` |
| `Catalogue` | adding and editing books, discounts, deletion, and the files | `handleAddBook`, `handleUpdateBook`, `handleAdminUpdateBook`, `setBookDiscount` and others |
| `Sessions` | the registry of connections, the event queue, pushes and broadcasts | `server.cpp`, signals of `networkworker.cpp` |
| `Accounts` | registration, login, passwords, profiles, genres, blocking, deletion | the handlers of users, the forms of the client |
| `Ratings` | comments, average ratings and the three comment requests, statement by statement | `addComment`, `editComment`, `deleteComment`, `recalculateBookRating` |
| `CommentsPage` | the comments pages of the clients, fed by answers and broadcasts | `commentswidget.cpp` and its handlers |
| `Library` | shelves, books on them, the library page | the seven shelf handlers, `librarywidget.cpp` |
| `Notifications` | rows, pushes, counts, lists, and the badge and cards of the clients | `createNotification` to `getUnreadNotificationsCount`, `notificationbar.cpp`, `notificationswidget.cpp` |
| `BookPages` | the details and the document of a book, reading progress | `bookdetailswidget.cpp`, `bookreaderwidget.cpp` and their handlers |
| `CardPages` | the pages of cards of publishers and administrators | `publisherbookwidget.cpp`, `adminbookswidget.cpp`, `alluserswidget.cpp` and their handlers |
| `Records` | records put together from parts | |
| `Clients` | users and clients, common to `Sessions` and `Notifications` | |
| `MC*`, `*_*.cfg` | their instances for TLC | |
| `PurchaseProofs`, `CatalogueProofs`, `SessionsProofs`, `AccountsProofs`, `RatingsProofs`, `CommentsPageProofs`, `LibraryProofs`, `BookPagesProofs` | theorems about the module they are named after; those about `CardPages` are in `CatalogueProofs`, those about `Notifications` in `SessionsProofs` | |

How they fit together. `Bookshop` is the seam between the two modules that write
books, carts and libraries: `Purchase` shows that buying is atomic in it
whatever publishers do, `Catalogue` that what publishers do, in many steps, is
one of its operations at each. The other modules share no written state with
these but what each names as an action of its own: a module that needs more of
another component than its results has it in short (`OtherWrite` in `Purchase`,
`PushNotification` in `Notifications`, `Finish` in `CommentsPage`,
`ChangeElsewhere` in the pages), where the component's own module has it in
detail.

One convention is common to the newer modules. Much of what can go wrong here
does go wrong in some interleaving, since the handlers use no transactions. A
property that only excluded those interleavings would say nothing. So the
modules carry marks the program does not have, which record a *cause*: `late`
(another handler has written between the query and the write), `torn`, `lost`,
`raced`, `why`. The properties say that nothing is wrong without one of the
causes, which are few, narrow, and named in the comment of the property; and a
mark is taken back as soon as the program itself puts things right (the next
list, the next count, the next recalculation).

`CardPages` and `Notifications` carry a prefix on the names that every module
has (`CardsInit`, `NotesTypeOK`, ...): the proofs about what the catalogue's
pages show stand beside those about the catalogue, and the proofs about what is
pushed over sessions beside those about sessions, each pair in one module that
extends both components.

In these modules an operator whose comment begins with "Mutant" is a variant of
the next definition with a plausible mistake in it. It is no part of the
specification; it serves to see that a property notices the mistake.

### Purchase

The variables `active`, `deleted`, `price` are columns of `books` (the price
with the discount taken off); `cart[u][b]` and `library[u][b]` count rows, since
neither table has a unique key. `notes[b]` counts the `BOOK_SOLD` notifications
about `b`. A session is a connection with a user logged in; `pc[s]` is where its
worker stands in `handleFinalizePurchase`:

    idle --ListSoldItems--> listed --BeginPurchase--> tx --CommitPurchase--> notify --NotifyPublisher*--> idle
                              |  total differs         |  RollBackPurchase
                              +------> idle            +------> idle

* `ListSoldItems` is the pay button and the query at networkworker.cpp:953, made
  before the transaction. The client asks to pay what its cart page showed
  (`shown`, set by `GetCart`), which may be old.
* `BeginPurchase` is `BEGIN` and the two `SELECT`s. The database is in WAL mode,
  so the transaction reads from a snapshot (`snap`). The first write succeeds
  only if nobody has committed since: `Committed` sets `stale` for all open
  transactions in every step that commits a write, and `OtherWrite` stands for
  the commits of all handlers this module leaves out.
* `CommitPurchase` takes the inserts, `clearCart` and `COMMIT` as one step: from
  its first write the transaction holds the only write lock, and nothing it has
  written can be seen before `COMMIT`. `RollBackPurchase` is any failed write;
  it is possible at any time because a lock can be held for longer than the busy
  timeout.
* `NotifyPublisher` handles one entry of the list, in any order.
* `Crash` loses what the workers hold and leaves the tables to the journal.

The handlers never look at who sends a request, so that any session may act at
any time. Amounts are small naturals; the tolerance of 0.01 in the comparison is
below any difference of prices. Titles, dates and the answers' texts are left
out. A crash is that of the process: with `synchronous=NORMAL` a loss of power
could also lose commits, which is not modelled.

### Sessions

`Socket` is the set of addresses of `QTcpSocket` objects: the maps of the server
are keyed by them. `status[k]` says whether an object lives at `k` and is open.
The objects' threads append events to `queue`, the main thread removes them:

* client: `Connect` (to an address where nothing lives, which may have been used
  before), `Leave` (with or without a restart of the client), `Rename`;
* worker: `HandleLogin`, `OnDisconnected` (emits, then deletes later),
  `DeleteSocket` (later has come), `Notify` and `Broadcast` (any handler that
  emits `notificationTriggered` or `broadcastRequested`);
* main thread: `ProcessLogin`, `ProcessGone`, `ProcessNotify`,
  `ProcessBroadcast`, one event each. `posted` is what the step has handed to
  sockets; the write that follows has no further effect here.

Two actions rest on what Qt and C++ do. `HandleLoginWriteFails`: when `flush()`
finds the connection broken, `QAbstractSocket` aborts and emits `disconnected`
before `flush` returns, so that `onDisconnected` runs inside `handleLogin`,
ahead of its `userLoggedIn`. `Die`: calling `isOpen()` on a deleted socket is
undefined behaviour; the model allows that the object is passed over, that the
new object at the same address is taken for it, and that the process dies.

`cut` collects the addresses where the first of these has happened. There the
socket is entered in the maps after its removal and stays. The properties that
hold do so for all other addresses, and say so.

`masked` records, without a counterpart in the program, the users whose entry in
`onlineUsers` one of their sockets has taken along while another was on record;
the next login of the user takes the mark back. `RegistryExact` is about
`socketToUser`, `OnlineExact` about the reverse map: an entry is an open
connection of its user's, and missing only for who is `masked`. `PushToOwner`
follows a push through all three maps. A push carries a name and finds the
account that has logged in under it; it may be the wrong one where a rename has
come between, and only there: at the moment of the push that account, or the
addressee, no longer has the name.

Left out: failed logins and `setSocketDescriptor` errors (they change nothing);
the administrator's own id -1 (no notification is for it); the role broadcast
(nothing emits it); the log and the operator's list.

### Ratings

`comments[i]` is the row with id `i`, `fresh` the ids `AUTOINCREMENT` may still
give, `average[b]` the columns `averageRating` and `ratingCount` of a book, kept
as sum and count. A worker stands at `pc[s]`:

    idle --AddComment, EditComment, DeleteComment--> write --Write--> select --Select--> update --Update--> idle

The first step is the check or the lookup of the book, then come the `INSERT`,
`UPDATE` or `DELETE`, the `SELECT` of `recalculateBookRating`, and its `UPDATE`
with the answer and the publisher's notification. A check that fails answers an
error and changes nothing; there is no action for it. `StatementFails` answers
an error at any of these points; since nothing of a request is in the tables but
what its statements have written, it stands for a crash as well. `DeleteUser`
hides the user's ratings without a recalculation, as the code does. An edit or a
deletion keeps the book it has found, whatever becomes of the row; `IdsOnce`
says that this is still the book of the id, since no id is given twice.

Two marks, which the program does not have, name what can make an average wrong:
`behind[s]` says that ratings of the book have changed since `s` selected them,
and `torn` holds the books whose last recalculation was behind, failed or was
not made (deletion of a user). They are cleared by the next recalculation that
is not behind. `RatingExact` says that these are the only causes: outside of
them the average is that of the comments that count. `RatingSettled` is what the
comment in the code promises, with no exception for requests that overtake one
another.

### CommentsPage

`work[s]` are the requests on their way to the worker of `s`, `down[s]` what is
on its way back, both in order; `events[s]` are broadcasts on their way through
the main thread, which may be written before or after any answer. A page has its
book (`at`), its list, which stays until another arrives, and the comment being
edited. `Receive` is `processNetworkData`: a list is taken as it is, a success
or a broadcast about the page's book asks for a new one. On the server a comment
request takes one step here (`Finish`), or changes the comment and stops before
the average is written (`StopHalfWay`): then nobody is told. The order of
statements and the averages are the matter of `Ratings`, connections and the
registry that of `Sessions`. `Refuse` leaves open why a request is refused. One
thing is lost by taking one step: an edit that finds its comment gone when it
looks up the book for the broadcast sends one about no book; the deletion's own
broadcast is on its way then.

The page of a publisher, which writes nothing, is that of a reader who never
acts. `userOf` never changes; that it is a variable lets one run cover a second
reader and the administrator.

### Catalogue

`row[b]` is the row of `books` with what the handlers write of it, `disk` the
files of the storage directory. A file is a pair of its kind and the time stamp
of its name, and no two copies have one name. A worker holds in `work[w]` what
its handler has read and prepared, and goes through

    BeginAdd --Insert-->             BeginUpdate --Update--> RemoveOld -->        BeginDiscount --Update-->
        |                                 |                                           |
        +---------- WriteFails -----------+-------------------------------------------+

`BeginUpdate` reads the row with `getBookDetails`, which does not ask whether
the book is deleted, copies the files sent and merges; `Update` writes all
columns back where `is_deleted = 0`. An `UPDATE` that matches no row is a
success for the driver, and the old files are then removed although the row
still names them: `FilesThere` and `NoStrays` name this case (`torn`,
`leftovers`). `BeginDiscount` reads the price, `Update` writes percent and
amount. `adminUpdateBook` and `updateBook` are one action: they differ in who is
asked to own the book. Amounts are in hundredths.

### Accounts

`row[u]` is the row of `users`; the security answer of `u` is `u`. A request
waits in `line[c]`, its handler runs statement by statement (`stage[c]`) with
what it has read in `job[c]`. `UPDATE_PUBLISHER_PROFILE` reads the row first
(`ReadProfile`), `UPDATE_PROFILE` does not; both then look for the username and
the address in other rows (`CheckName`, `CheckEmail`) and write
(`UpdateProfile`), where the unique key of the username still counts. `REGISTER`
looks for the name (`RegisterLook`) and inserts (`Register`, which gives the
id); requests of several clients for one name may all have looked before the
first one inserts, and the unique key then refuses the others (`UsernamesOnce`).
A form is disabled from the click to the answer (`Waits`), that of its own
client only. `formName[c]` is the username
the genre page was made with: a rename does not reach it: `GenresOwn` says that
genres are still written to the page's user, but for those whom the ghost
`renamed` names. Sessions of users who
are blocked or deleted go on, as they do in the code. The display name, which
the publisher's form also looks for in other rows, is treated like the address
and left out.

### Library

`name` and `place` are the tables `shelves` and `shelf_books` of one user. A
handler stands at `stage[c]`: it looks, then writes; a move deletes, looks again
and inserts. `DeleteShelf` and `AddBook` meet the foreign keys. The page keeps
the active shelf (`active`), the list of shelves (`shelves`) and the cards shown
(`shown`); a success clears the cards and asks for the shelves, an error asks
for the books of the active shelf, and a list of shelves that has the active one
asks for its books. `PagesSettle` says this comes to an end, which rests on
`GET_SHELF_BOOKS` never being answered with an error.

### Notifications

`CreateNotification` inserts the row and emits the push; `PushNotification` is
the main thread, which finds the socket by the name and by the id (`named`,
`record`); `Lose` strikes the user off, whichever socket is on record.
`created_at` has whole seconds, so that a list cut at its limit may leave out
any of the rows of its last second. A client that asks for something after a
loss is connected again and not on record. `off[c]` and `sure[c]` say why a
badge, or a card, may be wrong until the next count, or list.

### BookPages

`row[b]` says of a book whether it is bought, active, has its file, and how
often it is in the cart and saved; `progress[b]` are the rows of
`reading_progress`, in order. The requests of the two pages share a connection.
`HandleOwnership` shows buttons and hides none, as the code does; `HandleSaved`
loads the book now open again, and hides them first. `GetBookPdfPath` answers
the path of any book that is bought; if its file is gone, it is the client that
fails to load it, which closes the document that was open, and asks for no page
(`HandlePath`). `UpdateLastReadPage`
updates all rows if it has found one and inserts one otherwise; `LookElsewhere`
and `ReadElsewhere` are the same of another client of the user.

### CardPages

One page, of any `kind`: a publisher's books, all books, all users.
`ChangeActive` shows the click at once and, if it cannot be sent, remembers a
failure (`failed`), so that the next answer asks for the list. `AskDiscount`
overwrites the one field (`asked`) that tells which book an answer is for.
`HandleDelete` asks for the list after every answer on two of the pages and only
after a success on the third.

## Checks

Passing runs check deadlock as well, but for those where users need not act:
there the `cfg` says so.

| Run | Checks | Instance |
|---|---|---|
| `purchase_basket` | `TypeOK`, `NoDoublePurchase`, `AgreedTotal`, `ImplementsBookshop`, `FinalizeAnswered` | one user on two clients, two books at 0 or 1, one of them changed by its publisher, 2 additions, 1 crash |
| `catalogue_editors` | `TypeOK`, `FilesThere`, `NoStrays`, `AmountExact`, `OthersKept`, `ImplementsBookshop` | a book, two workers, edits of a text, of a price with a cover, of both files; 3 stamps, 1 crash |
| `sessions_pushes` | `RegistryExact`, `OnlineExact`, `DeletedLeave` | two accounts, two addresses, 2 events in the queue, broadcasts, notifications for one account |
| `sessions_renames` | `PushToOwner` | the same with three names: one account changes to the other's, that one to the third and to the first; notifications for one account, no broadcasts |
| `accounts_forms` | `UsernamesOnce`, `EmailsOnce`, `FirstLoginOnce`, `PasswordsGuarded`, `ProfileKept`, `GenresOwn` | a reader and a publisher, registered or not, two clients logged in as anybody, three usernames, one address, two passwords, 3 forms or acts, 1 crash |
| `ratings_books` | `IdsOnce`, `RatingExact` | two workers, a user who may be deleted or blocked, two books, two ratings, two ids |
| `commentspage_readers` | `PagesCurrent`, `EditsOwn` | a reader with a comment, and a second one or the administrator, two books, 2 acts, one session whose requests may stop half-way |
| `library_shelves` | `TypeOK`, `NamesOnce`, `PlacedOnce`, `BooksKept`, `PageCurrent`, `PagesSettle` | two clients, two shelves and room for two more, one book anywhere, three names, 2 acts, 1 crash |
| `notifications_badge` | `NotesTypeOK`, `BadgeExact`, `CardsExact` | two clients of a user, 2 rows, lists of 1, 3 requests of the user, 1 fault |
| `bookpages_reader` | `TypeOK`, `ButtonsRight`, `ReaderRight`, `ProgressLast` | two books, two page numbers, 3 clicks, 1 fault, 1 act of others |
| `cardpages_managers` | `CardsTypeOK`, `CardsCurrent` | a page of any kind, two rows, two discounts, 3 clicks, 2 faults, 1 change by others |

Why these bounds are enough to meet the hard cases. A double purchase needs two
sessions and a book in two rows; a stale decision needs one price change, one
switch or deletion and one commit between two steps, and all of these are
unbounded in the model: only the additions to the cart (`MaxAdds`) and the
crashes (`MaxCrashes`) are counted. That one book of the two keeps its price and
is not withdrawn (`Edited`) leaves every sale with a change in it or without;
the theorems hold for any `Edited`. In `Sessions` two addresses and two clients
are enough for one client's entry to be met by the other's connection through
reuse of the address; two events are enough for a disconnection and the login
that follows it at the same address, or for either and a notification behind it.
`Addressee` and `NewNames` restrict whom events are about and who is renamed to
what. In `sessions_renames` each account may leave its own name and take the
other's, so that pushes do go astray there. An account has two sockets in these runs
when its client comes back before the server has noticed that it was gone; two
clients of one account are left to `RegistryIsExact` and `OnlineIsExact`, which
hold for any assignment of accounts. In `Ratings` the number of comments ever
written is the only bound (`Id`); two are enough for an average to be overtaken
by an addition, an edit or a deletion. The second book is there because ids are
shared by all books: one worker can begin to comment on it while a request about
a comment of the first goes on after that comment has gone. Comments of a second
user, which the deletion of the first leaves standing, are left to
`AveragesAreExact`. In `CommentsPage` an act is a request a user makes; two,
beside the comment that is there at first, let an edit meet a deletion, or
either meet the opening of another book, with all answers, lists and broadcasts
they cause in any order.

In `Catalogue` only stamps and crashes are counted. Three stamps are the adding
and two edits with files, which is what it takes for one edit to give back a
file that the other has replaced; edits without files, discounts, switches and
deletions go on for ever. Books share nothing. Races in `Library` and `Accounts`
are between two handlers: two acts (three forms) let each meet each other, two
registrations of one name included, on tables that start in any state they can
be in, so that what led there need not be counted. In `Notifications` two rows
and lists of one let a row fall off the list, and three requests are a count, a
list and a reading in any order on two clients. In `BookPages` the races are
between answers for one book and the opening of another, which takes two clicks,
and the third one is made on what came of it; the same holds for `CardPages`.

Symmetry is used where the `cfg` names it: of workers, clients, sessions,
addresses, books, rows or comment ids that the module tells apart in nothing;
never in a run with a liveness property.

Fairness. `Purchase` assumes that a worker goes on with a request it has begun
(`Finalize`, per session): it is straight-line code in a thread of its own.
Nothing is assumed of users, of other sessions or of the lock. `Sessions`
assumes that the main thread's event loop goes on (`MainNext`) and that a worker
hears of a lost connection (`OnDisconnected`). `Ratings` assumes that a request
is worked off (`Handle`). `Library` assumes that a worker goes on with its
request and that a client reads what it is sent, both event loops with nothing
to wait for. The other modules assume nothing.

### Where the program differs from what is said of it

`ratings_lost` checks `RatingSettled`, which a comment in the code promises, and
TLC finds it violated: two users comment at once, and the average selected first
is written last and leaves out the other comment. `PROJECT.json` quotes the
comment.

The models show more differences that no run states, because each is an
exception that the property of its module names, or lies outside the instance
checked:

* A free book that another client of the user removes from the cart after the
  list was read (networkworker.cpp:953) is notified and not sold; one added then
  is sold and not notified. README.md:191 promises a notification of purchases.
* `socketToName` keeps the username of the login (server.cpp:129): after two
  renames a notification goes to the account that had the name before.
* When one of two clients of an account leaves, `onlineUsers` forgets the other
  one as well (server.cpp:168). `BadgeExact` has this as the cause "missed".
* A socket is deleted (networkworker.cpp:57) while it is still in the maps,
  contrary to the comment at networkworker.cpp:51.
* A client that retries its connection (clientnetworkmanager.cpp:23) does not
  log in and gets no pushes.
* An edit of a book deleted meanwhile removes the files its buyers still read
  (networkworker.cpp:1460-1513).
* The genre page sends the username of the login (userdashboardwidget.cpp:27):
  after a rename genres are saved for nobody, or for whoever has taken the name,
  and the answer is a success.
* A password reset writes to whoever has the username when it writes
  (database_manager.cpp:315).
* An answer to a discount is applied to the book asked for last
  (publisherbookwidget.cpp:200).
* Opening a second book before the first one's answer has come shows the buttons
  of both.

## Proofs

For all values of the constants: any number of users, clients, workers, books
and requests, any bounds. The assumptions are named in the modules. They say
that `UserOf` and `Logins` assign a user to every session, that prices,
discounts, ratings and bounds are naturals, that there is a discount of 0 (none)
for a card to fall back to, that the null values are outside the sets they stand
beside, that what is in the tables at first has the types of the tables, and
that usernames, and the names of a user's shelves, differ at first (no key sees
to the latter, but only a race gives two shelves one name). An edit in
`Catalogue` names some of the fields of a full form (`EditAssumption`).

Type invariants, but for those of `BookPages` and `Notifications`, are inductive
or nearly so and are proved first. The safety invariants are not, and each needs
an idea of its own, given here.

* `PurchaseProofs`. A commit could add a second row if what it read were out of
  date. The invariant is `SnapshotCurrent`: while `stale[s]` is false, the rows,
  the library and the total the transaction of `s` has read are those of the
  tables. A step that commits makes it hold trivially (`CommitInvalidates`), a
  step that does not leaves the tables alone (`OthersUndisturbed`). From it
  follow `NobodyBuysTwice`, `TotalsAreAgreed` and `PurchaseIsAtomic`: the step
  of the refinement that matters is `CommitIsBuy`, all others are a step of
  `Bookshop` or leave it alone. That `AddToCart` refines `Put`, although it
  looks at `isActive` only, needs `DeletedStaysOut`.
* `CatalogueProofs`. `FilesStay` and `StraysAccounted` rest on `FilesInv`. A
  file is *of* a book (`Of`) if its row names it, or if a handler may yet write
  it back or remove it on its behalf; no file is of two books (`OneBook`), the
  copies a handler has made are its own (`NewOwn`), all stamps in use have
  been given out (`StampsUsed`), what a handler writes back is what is in the
  row unless `late` says otherwise (`Copied`), and what it removes after its
  write is named no more (`Replaced`). `AmountsStay` needs that the amount a
  handler is about to write is that of the price it writes or leaves
  (`AmountsFollow`). `WritesAreNarrow` follows from `Copied`. `EditingIsAtomic`
  maps rows to offers, prices and what is gone: the step that counts is the
  `UPDATE` or `INSERT`, copying and removing files are stutters.
* `SessionsProofs`. `RegistryIsExact`: with the queue empty, exactly the open
  sockets with a login are on record, each for its user. The invariant is
  `Settled`: for every address, either no event about it waits and its entry is
  right, or the last event about it says what is right (`Leads`). Four lemmas
  say how this fares when an event about an address, or about another one, is
  appended or removed. Beside it, `ConnAttached`: the socket a client is
  connected to is open and was accepted from that client.
  `OnlineIsExact` and `PushesReachTheirOwner` need more than the last event: a
  login always finds the entry of its address empty (`Ordered`), whatever waits
  before it, so that the maps agree with one another at every moment
  (`OnlineOwns`, `NamesBelong`), and a user on record has an entry unless
  `masked` (`Entered`). That names are unique (`UniqueNames`) tells which
  account a push was meant for.
* `AccountsProofs`. Three parts. `BaseInv` says at which statement a request can
  be and what its job holds then, that a user known to a client has a row, and
  that usernames are unique: any number of registrations and renames may have
  found the same name free, and `NamesAreUnique` rests on the key alone, at each
  statement that writes a name. `FormsInv` adds that what a
  handler has read is still so or is in `late` (`ReadAll`): the owner of the
  name (`StillNamed`), the fields a publisher left empty (`StillCurrent`), the
  addresses of the others (`StillFree`), who has genres (`StillChosen`).
  `PasswordsAreGuarded`, `ProfilesAreKept`, `EmailsAreUnique` and
  `FirstLoginIsOnce` each rest on one of these four. `PagesOwn` says that the
  name a genre page keeps, and every name on its way to or from one, is that of
  the page's user unless it is `renamed`, where `LinesStep` and `TrueAnswers`
  say what the step of a worker puts on the way; `GenresAreOwn` follows, since
  nobody else has that name.
* `RatingsProofs`. `AveragesAreExact` needs to know that what a recalculation is
  about to write is right unless it is `behind` (`SelectionsAreCurrent`), and
  that a step on one book leaves the ratings of the others alone, for which a
  request must be about the book of its comment even after the row has gone
  (`IdsAreGivenOnce`: ids are not given again, and all that is said of one is of
  one book). The invariant is the conjunction of these three and `TypeOK`.
  `WrittenRows`, `WriteMarks` and `DeletionMarks` say whose ratings a statement
  can change.
* `CommentsPageProofs`. `EditsAreOwn`: the server does not compare who asks with
  whose comment it is. `OwnInv` says that wherever a comment is listed, in a
  page or on its way to one, and wherever an id is, in an edit begun or a
  request on its way, the row with that id is gone or still of the user said
  (`Sound`), which no step undoes since ids are not given again (`SoundKept`).
  `PagesAreCurrent` rests on `PagesInv`: the last list a page has asked for is
  that of its book (`Latest`), and a page whose list is out of date has
  something to come that will bring the right one (`Fresh`): a request, a push
  or a success that makes it ask, or the list itself, with no other behind it.
* `LibraryProofs`. `WorkInv` says what a handler has found out at each statement
  and that it is still so unless the handler is `late` (`Found`);
  `NamesAreTaken`, `BooksOnce` and `BooksStay` are then a matter of one
  statement each. `PagesAreCurrent` needs the same kind of invariant as above,
  for two lists of which one makes the page ask for the other (`ShelvesComing`,
  `BooksComing`), and for errors as well as successes.
* `BookPagesProofs`. `ProgressIsKept`: a worker that has found a row still finds
  it when it writes (`Looked`). `ReaderIsRight`: the page saved will be asked
  for behind all that may change it, or has been answered, or has been shown and
  the page turned to last will be written last (`Awaited`). `ButtonsAreRight`:
  what the answers on their way will make of the buttons shown is what the
  server would offer now (`Right`), which takes the order of questions and
  changes of the cart (`CheckedFirst`) and the effect of the last answer about
  the cart (`Effect`).
  `TypeCorrect` says here that a book is in the cart, and saved, once: nothing
  on the server sees to it, so that it needs `ButtonsInv` (a button that inserts
  a row is shown only while there is none) and that no two requests that insert
  a row are on their way at once (`Once`).

* `CatalogueProofs`, on `CardPages`. `CardsAreCurrent` rests on `CardsInv`.
  `LastAsked`: of the discounts asked for and not yet answered by the server the
  last one is the one the page remembers, which is what the next answer will be
  taken for. `Coming`: among the lists there is a last one (`IsLast`), on its
  way to the page or, if none is, the page as it stands, which is treated as a
  list that has come; and unless a request or an answer on its way will make the
  page ask for another, or a cause has been noted (`Sound`), that list is
  `Right`: it has the rows that are there (a row gone has the answer to its
  deletion behind the list), their discounts, but for the one that an answer
  behind it will bring, and their states, but for a click that waits for its
  answer. Right is not the same as equal to the rows: a box may show what the
  server has not heard of yet. The invariant was first checked with TLC on the
  whole instance of the run, as that of `Notifications` was.
* `SessionsProofs`, on `Notifications`. What is shown now tells nothing of the
  badge while answers are on their way. `NotesInv` therefore speaks of the end:
  for every client there is a course (`Run`) from what it shows, through the
  effects of all that is on its way to it, to what it will show, and of that
  `BadgeDue` says that the badge is the number of unread rows less those whose
  push is still `Owed` to the client (emitted, not posted, not counted), and
  `CardsDue` that the buttons are those of unread rows, but for rows whose
  reading waits at the server (`Waiting`). An announcement adds one to both
  numbers; posting its push takes it from what is owed and adds it to the end of
  the course (`OneMore`); a count sets the end to the number of unread rows and
  leaves nothing owed; a reading takes one from both sides; what the client
  receives only moves the beginning (`OneCome`); a loss makes the beginning the
  end, which is the same unless something that counts was lost (`Kept`). For
  `NotesTypeCorrect` the badges on the whole course lie between minus the rows
  read and the bound plus the rows pushed (`Badges`). An induction along the
  queue, which the prover cannot make, is avoided: the definition of `Run` says
  of each step of the course how it bears on the end (`Traced`), and the
  lemmas extend or shorten courses by one step.

The pages but for that of notifications have one thing in common. What is on its
way is described by predicates on a queue: something of `M` is in it (`Has`),
something of `M` is in it with nothing of `N` behind (`Left`, or `Latest`),
something of `N` comes behind something of `M` (`Follows`). A few lemmas say how
they fare when a message is sent or taken (`InAppend` and `InTail` in three of
the modules); the proofs use little else about sequences.

The inductive invariants proved and in no run of their own are `SnapshotCurrent`
and `DeletedIsInactive` (`PurchaseProofs`), `SelectionCurrent`
(`RatingsProofs`), `Settled` and `MapsInv` (`SessionsProofs`), `FilesInv` and
`AmountInv` beyond the properties in them, `FormsInv`, `WorkInv` and `PageInv`
(`LibraryProofs`), `ReaderInv`, `ButtonsInv` and `OnceInv`, `OwnInv` and
`PagesInv`, `CardsInv`, `NotesTyped` and `NotesInv`. `TypeOK` of `CommentsPage`,
`Ratings`, `Sessions` and `Accounts` is proved and in no run.

Model-checked only:

* `FinalizeAnswered`, `DeletedLeave` and `PagesSettle`: liveness under fairness
  is beyond this prover.
* The theorems leave out the types of amounts of money in `Purchase` (`asked`,
  `shown`): the sum over a cart is a fold, of which the provers know nothing; no
  proof needs more than that equal tables give equal sums.

## Plan

The modules planned are there, and every invariant and action property that a
passing run checks is proved. What would come next is more of the program: a
client that reads its stream in pieces, and a server that loses power. What is
only model-checked stays so, for the reasons above.

## Not modelled

* The storefront, searches and statistics: one query each, displayed as it is.
* The framing of the stream at the client (`onReadyRead`): it depends on which
  error Qt's parser reports for a text cut at a given character.
* Layout, the stack of pages, sounds and pop-ups; the server window; hashing;
  the value classes in `Shared`.
* A loss of power, after which `synchronous=NORMAL` may lose commits.
