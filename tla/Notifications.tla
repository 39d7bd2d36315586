---------------------------- MODULE Notifications ----------------------------
(***************************************************************************)
(* The table notifications, the pushes beside it, and what a client makes  *)
(* of the two: the badge, which a count sets, a push raises and a reading  *)
(* lowers, and the page of cards.  A worker inserts the row and emits the  *)
(* push; the main thread looks for the user's socket and posts the push to *)
(* the thread of that socket; a count asked meanwhile sees the row before  *)
(* the push has come.                                                      *)
(*                                                                         *)
(* Sessions has the registry in detail; here a user has the one socket     *)
(* registered last, and none once any of its sockets has gone.             *)
(***************************************************************************)
EXTENDS Integers, Sequences, FiniteSets, TLC, Clients

CONSTANTS
  MaxNotes,  \* bound: rows
  Limit,     \* rows a list holds; 50 in the code
  MaxAsks,   \* bound: counts, lists and readings asked for
  MaxFaults, \* bound: statements failing and connections lost
  NoNote     \* in place of a row not there yet

ASSUME NotesBoundAssumption ==
  MaxNotes \in Nat /\ Limit \in Nat /\ MaxAsks \in Nat /\ MaxFaults \in Nat

Id == 1..MaxNotes
Note == [to : User, read : BOOLEAN, at : Nat]

ASSUME NoNoteAssumption == NoNote \notin Note

VARIABLES
  note,      \* note[i]: the i-th row
  owner,     \* owner[c]: who has logged in on c
  events,    \* rows emitted, on their way to the main thread
  record,    \* record[u]: the client of the socket in onlineUsers
  named,     \* named[c]: its socket is in socketToUser
  connected, \* connected[c]: the socket is connected
  line,      \* line[c]: requests on their way
  down,      \* down[c]: answers and pushes on their way
  badge,     \* badge[c]: unreadCount
  page,      \* page[c]: the page of notifications is open
  buttons,   \* buttons[c]: cards that still have their button
  asks,      \* requests so far
  faults,    \* faults so far
  \* What the pages cannot know.
  seen,      \* seen[c]: rows there at the last count
  off,       \* off[c]: what has put the badge wrong since, first of all
  sure       \* sure[c]: rows whose cards must be right

server == <<note, events, record, named>>
wires == <<connected, line, down>>
pages == <<badge, page, buttons>>
ghosts == <<seen, off, sure>>
notesVars == <<server, owner, wires, pages, asks, faults, ghosts>>

-----------------------------------------------------------------------------
There(u) == {i \in Id : note[i] # NoNote /\ note[i].to = u}
Unread(u) == {i \in There(u) : ~note[i].read}
Mine(c) == There(owner[c])

Causes == {"none", "twice", "missed", "elsewhere", "failed"}

(* Logged in, and the count that the dashboard asks for as it is made has     *)
(* come.                                                                      *)
NotesInit ==
  /\ owner \in [Client -> User]
  /\ record \in {r \in [User -> Client \cup {NoClient}] : \A u \in User :
                   IF \E c \in Client : owner[c] = u
                   THEN r[u] # NoClient /\ owner[r[u]] = u ELSE r[u] = NoClient}
  /\ note = [i \in Id |-> NoNote]
  /\ events = <<>>
  /\ named = [c \in Client |-> TRUE]
  /\ connected = [c \in Client |-> TRUE]
  /\ line = [c \in Client |-> <<>>]
  /\ down = [c \in Client |-> <<>>]
  /\ badge = [c \in Client |-> 0]
  /\ page = [c \in Client |-> FALSE]
  /\ buttons = [c \in Client |-> {}]
  /\ asks = 0
  /\ faults = 0
  /\ seen = [c \in Client |-> {}]
  /\ off = [c \in Client |-> "none"]
  /\ sure = [c \in Client |-> {}]

-----------------------------------------------------------------------------
(* Announcing. *)

Rows == Cardinality({i \in Id : note[i] # NoNote})
Newest == IF Rows = 0 THEN 0 ELSE note[Rows].at

(* Mutant: created_at is in local time, which is set back.                    *)
CreateNotificationLocal(u) ==
  /\ Rows < MaxNotes
  /\ \E t \in {Newest - 1, Newest} :
       note' = [note EXCEPT ![Rows + 1] = [to |-> u, read |-> FALSE, at |-> t]]
  /\ events' = Append(events, Rows + 1)
  /\ UNCHANGED <<record, named, owner, wires, pages, asks, faults, ghosts>>

(* After a comment, a purchase, a new book or a discount, for each of those   *)
(* to be told: the row, and the push emitted.  created_at has whole seconds:  *)
(* the next row may have the same one.                                        *)
CreateNotification(u) ==
  /\ Rows < MaxNotes
  /\ \E t \in {Newest, Newest + 1} :
       note' = [note EXCEPT ![Rows + 1] = [to |-> u, read |-> FALSE, at |-> t]]
  /\ events' = Append(events, Rows + 1)
  /\ UNCHANGED <<record, named, owner, wires, pages, asks, faults, ghosts>>

(* Badges go wrong; what a client has counted before is of no more use.       *)
Upset(cause) ==
  /\ off' = [c \in Client |-> IF off[c] = "none" THEN cause[c] ELSE off[c]]
  /\ seen' = [c \in Client |-> IF off'[c] = "none" THEN seen[c] ELSE {}]

Among(C, why) == [c \in Client |-> IF c \in C THEN why ELSE "none"]

(* Of the clients of u only c, if any, gets a push for i: another one that    *)
(* has not counted it will miss it, and c has it twice if it has.             *)
Pushed(u, c, i) ==
  Upset([d \in Client |-> CASE d = c /\ i \in seen[d] -> "twice"
                            [] d # c /\ owner[d] = u /\ i \notin seen[d] -> "missed"
                            [] OTHER -> "none"])

(* A socket with the name leads to the id, and that to the socket on record.  *)
(* The write, in the thread of the socket and never inside a handler, is      *)
(* taken together with the look-up: a client cannot tell whether a push       *)
(* waits for the one or for the other.                                        *)
PushNotification ==
  LET i == Head(events)
      u == note[i].to
      c == record[u]
      reached == c # NoClient /\ \E d \in Client : named[d] /\ owner[d] = u
  IN  /\ events # <<>>
      /\ events' = Tail(events)
      /\ IF reached
         THEN /\ down' = [down EXCEPT ![c] = Append(@, [type |-> "NEW", id |-> i])]
              /\ Pushed(u, c, i)
         ELSE /\ Pushed(u, NoClient, i)
              /\ UNCHANGED down
      /\ UNCHANGED <<note, record, named, owner, connected, line, pages, asks, faults, sure>>

-----------------------------------------------------------------------------
(* The handlers, one statement each. *)

Takes(c, type) == line[c] # <<>> /\ Head(line[c]).type = type

Answer(c, m) ==
  /\ line' = [line EXCEPT ![c] = Tail(@)]
  /\ down' = [down EXCEPT ![c] = Append(@, m)]
  /\ UNCHANGED <<events, record, named, owner, connected, pages, asks>>

(* A query that fails counts as none unread, and is answered as a success.    *)
GetUnreadNotificationsCount(c) ==
  /\ Takes(c, "COUNT")
  /\ \/ /\ Answer(c, [type |-> "COUNT", count |-> Cardinality(Unread(owner[c]))])
        /\ off' = [off EXCEPT ![c] = "none"]
        /\ seen' = [seen EXCEPT ![c] = Mine(c)]
        /\ UNCHANGED faults
     \/ /\ faults < MaxFaults /\ faults' = faults + 1
        /\ Answer(c, [type |-> "COUNT", count |-> 0])
        /\ off' = [off EXCEPT ![c] = "failed"]
        /\ seen' = [seen EXCEPT ![c] = {}]
  /\ UNCHANGED <<note, sure>>

(* The newest Limit rows, and any of those with the same second.              *)
Lists(u) ==
  {L \in SUBSET There(u) :
     /\ Cardinality(L) = IF Cardinality(There(u)) < Limit THEN Cardinality(There(u)) ELSE Limit
     /\ \A i \in L, j \in There(u) \ L : note[j].at <= note[i].at}

(* Mutant: all cards have their button.                                       *)
GetNotificationsUnread(c) ==
  /\ Takes(c, "LIST")
  /\ \E L \in Lists(owner[c]) :
       /\ Answer(c, [type |-> "LIST", unread |-> L])
       /\ sure' = [sure EXCEPT ![c] = L]
  /\ UNCHANGED <<note, faults, seen, off>>

GetNotifications(c) ==
  /\ Takes(c, "LIST")
  /\ \E L \in Lists(owner[c]) :
       /\ Answer(c, [type |-> "LIST", unread |-> L \cap Unread(owner[c])])
       /\ sure' = [sure EXCEPT ![c] = L]
  /\ UNCHANGED <<note, faults, seen, off>>

(* A list asked for before the reading brings the button back.                *)
Offered(c, i) ==
  \/ i \in buttons[c]
  \/ \E k \in DOMAIN down[c] : down[c][k].type = "LIST" /\ i \in down[c][k].unread

(* A row already read is an error, as a failure is.                           *)
MarkNotificationRead(c) ==
  LET i == Head(line[c]).id
      others == {d \in Client \ {c} : owner[d] = owner[c]}
  IN  /\ Takes(c, "MARK")
      /\ \/ /\ ~note[i].read
            /\ note' = [note EXCEPT ![i].read = TRUE]
            /\ Answer(c, [type |-> "MARK", ok |-> TRUE])
            /\ Upset(Among(others, "elsewhere"))
            /\ sure' = [d \in Client |-> IF d \in others \/ Offered(d, i) THEN sure[d] \ {i}
                                        ELSE sure[d]]
            /\ UNCHANGED faults
         \/ /\ note[i].read
            /\ Answer(c, [type |-> "MARK", ok |-> FALSE])
            /\ UNCHANGED <<note, faults, ghosts>>
         \/ /\ faults < MaxFaults /\ faults' = faults + 1
            /\ Answer(c, [type |-> "MARK", ok |-> FALSE])
            /\ sure' = [sure EXCEPT ![c] = @ \ {i}]
            /\ UNCHANGED <<note, seen, off>>

-----------------------------------------------------------------------------
(* The client. *)

(* connectToServer connects again, without logging in.                        *)
Ask(c, requests) ==
  /\ asks < MaxAsks /\ asks' = asks + 1
  /\ connected' = [connected EXCEPT ![c] = TRUE]
  /\ line' = [line EXCEPT ![c] = @ \o requests]
  /\ UNCHANGED <<server, owner, down, badge, faults, ghosts>>

DisplayNotifs(c) ==
  /\ Ask(c, <<[type |-> "LIST"], [type |-> "COUNT"]>>)
  /\ page' = [page EXCEPT ![c] = TRUE]
  /\ UNCHANGED buttons

Refresh(c) ==
  /\ page[c]
  /\ Ask(c, <<[type |-> "LIST"]>>)
  /\ UNCHANGED <<page, buttons>>

Back(c) ==
  /\ page[c]
  /\ Ask(c, <<[type |-> "COUNT"]>>)
  /\ page' = [page EXCEPT ![c] = FALSE]
  /\ UNCHANGED buttons

(* The button goes at once, whatever becomes of the request.                  *)
Read(c, i) ==
  /\ page[c] /\ i \in buttons[c]
  /\ Ask(c, <<[type |-> "MARK", id |-> i]>>)
  /\ buttons' = [buttons EXCEPT ![c] = @ \ {i}]
  /\ UNCHANGED page

(* Mutant: a failed reading lowers the badge as well.                         *)
ReceiveAnyMark(c) ==
  LET m == Head(down[c])
  IN  /\ down[c] # <<>>
      /\ down' = [down EXCEPT ![c] = Tail(@)]
      /\ badge' = CASE m.type = "COUNT" -> [badge EXCEPT ![c] = m.count]
                    [] m.type = "NEW" -> [badge EXCEPT ![c] = @ + 1]
                    [] m.type = "MARK" -> [badge EXCEPT ![c] = @ - 1]
                    [] OTHER -> badge
      /\ buttons' = IF m.type = "LIST" THEN [buttons EXCEPT ![c] = m.unread] ELSE buttons
      /\ UNCHANGED <<server, owner, connected, line, page, asks, faults, ghosts>>

(* getNotification of the bar, processNetworkData of the page.                *)
Receive(c) ==
  LET m == Head(down[c])
  IN  /\ down[c] # <<>>
      /\ down' = [down EXCEPT ![c] = Tail(@)]
      /\ badge' = CASE m.type = "COUNT" -> [badge EXCEPT ![c] = m.count]
                    [] m.type = "NEW" -> [badge EXCEPT ![c] = @ + 1]
                    [] m.type = "MARK" /\ m.ok -> [badge EXCEPT ![c] = @ - 1]
                    [] OTHER -> badge
      /\ buttons' = IF m.type = "LIST" THEN [buttons EXCEPT ![c] = m.unread] ELSE buttons
      /\ UNCHANGED <<server, owner, connected, line, page, asks, faults, ghosts>>

(* A connection is lost with all that is on it.  The server finds out, and    *)
(* strikes the user off, whichever of its sockets is on record.               *)
Lose(c) ==
  LET asked == {line[c][k].id : k \in {j \in DOMAIN line[c] : line[c][j].type = "MARK"}}
      lost == \E k \in DOMAIN down[c] : down[c][k].type \in {"NEW", "MARK", "COUNT"}
  IN  /\ connected[c]
      /\ faults < MaxFaults /\ faults' = faults + 1
      /\ connected' = [connected EXCEPT ![c] = FALSE]
      /\ line' = [line EXCEPT ![c] = <<>>]
      /\ down' = [down EXCEPT ![c] = <<>>]
      /\ named' = [named EXCEPT ![c] = FALSE]
      /\ record' = IF named[c] THEN [record EXCEPT ![owner[c]] = NoClient] ELSE record
      /\ Upset(Among(IF lost THEN {c} ELSE {}, "missed"))
      /\ sure' = [sure EXCEPT ![c] =
                    IF \E k \in DOMAIN down[c] : down[c][k].type = "LIST" THEN {} ELSE @ \ asked]
      /\ UNCHANGED <<note, events, owner, pages, asks>>

-----------------------------------------------------------------------------
NotesNext ==
  \/ \E u \in User : CreateNotification(u)
  \/ PushNotification
  \/ \E c \in Client :
       \/ GetUnreadNotificationsCount(c) \/ GetNotifications(c) \/ MarkNotificationRead(c)
       \/ DisplayNotifs(c) \/ Refresh(c) \/ Back(c) \/ \E i \in Id : Read(c, i)
       \/ Receive(c) \/ Lose(c)

NotesSpec == NotesInit /\ [][NotesNext]_notesVars
-----------------------------------------------------------------------------
(* Properties. *)

(* Rows fill the table from the first id on, in the order of their seconds;   *)
(* a button is that of a row of the user of the page, and only a socket of    *)
(* the user is on record for it.                                              *)
NotesTypeOK ==
  /\ \A i \in Id : note[i] # NoNote =>
       /\ note[i].to \in User /\ note[i].read \in BOOLEAN
       /\ i > 1 => note[i - 1] # NoNote /\ note[i - 1].at <= note[i].at
  /\ \A u \in User : record[u] = NoClient \/ (record[u] \in Client /\ owner[record[u]] = u)
  /\ \A c \in Client : /\ buttons[c] \subseteq Mine(c)
                       /\ badge[c] \in -MaxNotes..(2 * MaxNotes)
                       /\ off[c] \in Causes

Quiet(c) ==
  /\ line[c] = <<>> /\ down[c] = <<>>
  /\ \A k \in DOMAIN events : note[events[k]].to # owner[c]

(* A client with nothing on its way shows the number of unread rows.  It is   *)
(* wrong only when a row was counted and pushed as well, when a push or an    *)
(* answer missed the client, when another client of the user has read a row,  *)
(* or when a count failed; and right again with the next count.               *)
BadgeExact ==
  \A c \in Client : Quiet(c) /\ off[c] = "none" => badge[c] = Cardinality(Unread(owner[c]))

(* Of the cards listed those of unread rows offer to be read, and no other,   *)
(* but for rows that another client has read since, those whose reading       *)
(* failed, and those read while another list was on its way.  Rows beyond the *)
(* limit of the list are counted and have no card.                            *)
CardsExact ==
  \A c \in Client : Quiet(c) =>
    \A i \in sure[c] : i \in buttons[c] <=> ~note[i].read
=============================================================================
