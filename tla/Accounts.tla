------------------------------ MODULE Accounts ------------------------------
(***************************************************************************)
(* The table users and the forms that change it: registering, logging in,  *)
(* resetting a forgotten password, changing it, editing the profile,       *)
(* choosing genres; and the administrator, who blocks and deletes.  Every  *)
(* handler is a chain of statements outside any transaction, and only the  *)
(* username has a unique key.  Some statements find the row by its id,     *)
(* others by the username, which the profile form may have changed since.  *)
(*                                                                         *)
(* The display name is left out: its column is treated as that of the      *)
(* e-mail is, except that only publishers' are compared.                   *)
(***************************************************************************)
EXTENDS Integers, Sequences, FiniteSets, Records

CONSTANTS
  User,       \* bound: ids of users, in the table or to be given out
  Publisher,  \* those who register as publishers; the others are readers
  Client,     \* clients, each with its connection and worker
  UserName,   \* usernames
  FirstName,  \* FirstName[u]: the username of u if it has registered already
  Email,      \* addresses
  Password,   \* passwords
  FirstPass,  \* the password everybody has at first
  MaxActs,    \* bound: forms submitted, and acts of the administrator
  MaxCrashes, \* bound: crashes of the server
  NoRow,      \* in place of the row of a user not registered yet
  NoEmail,    \* the empty address of a row
  NoUser,     \* nobody is logged in
  NoJob       \* the handler has read nothing

ASSUME UserAssumption == Publisher \subseteq User /\ NoUser \notin User
ASSUME NameAssumption ==
  /\ FirstName \in [User -> UserName]
  /\ \A u, v \in User : FirstName[u] = FirstName[v] => u = v
ASSUME DataAssumption == FirstPass \in Password /\ NoEmail \notin Email
ASSUME BoundAssumption == MaxActs \in Nat /\ MaxCrashes \in Nat

(* The rows of the table. *)
Row ==
  [username : UserName, password : Password, email : Email \cup {NoEmail},
   blocked : BOOLEAN, deleted : BOOLEAN, firstLogin : BOOLEAN, genres : BOOLEAN]

ASSUME RowAssumption == NoRow \notin Row

VARIABLES
  row,     \* row[u]: the row of u; its security answer is u itself
  line,    \* line[c]: requests sent and not answered yet, the first one in work
  stage,   \* stage[c]: the statement its handler runs next
  job,     \* job[c]: what the handler has read
  down,    \* down[c]: answers on their way
  user,    \* user[c]: who is logged in
  formName,\* formName[c]: the username its genre page was made with, at the login
  first,   \* first[c]: the first login, with nothing but the genre page open
  acts,    \* forms submitted and acts of the administrator so far
  crashes, \* crashes so far
  \* What came in between.
  late,    \* late[c]: columns of rows others have changed since c's handler began
  raced,   \* addresses written by a handler that was late
  torn,    \* users whose genres and first_login were not written together
  renamed  \* users whose usernames have been changed

tables == <<row>>
pages == <<user, formName, first>>
vars == <<row, line, stage, job, down, user, formName, first, acts, crashes, late,
          raced, torn, renamed>>

-----------------------------------------------------------------------------
Inserted(u) == row[u] # NoRow
Named(n) == {u \in User : Inserted(u) /\ row[u].username = n}

(* A new row: not blocked, at its first login, without genres or address. *)
NewRow(n, p) ==
  [username |-> n, password |-> p, email |-> NoEmail, blocked |-> FALSE, deleted |-> FALSE,
   firstLogin |-> TRUE, genres |-> FALSE]

(* Some have registered; readers among them have chosen genres, or are about  *)
(* to.                                                                        *)
Init ==
  /\ \E there \in SUBSET User : \E chosen \in SUBSET (there \ Publisher) :
       /\ row = [u \in User |->
                   IF u \in there
                   THEN [NewRow(FirstName[u], FirstPass) EXCEPT
                           !.firstLogin = u \notin chosen, !.genres = u \in chosen]
                   ELSE NoRow]
       /\ user \in [Client -> there \cup {NoUser}]
  /\ line = [c \in Client |-> <<>>]
  /\ stage = [c \in Client |-> "look"]
  /\ job = [c \in Client |-> NoJob]
  /\ down = [c \in Client |-> <<>>]
  /\ formName = [c \in Client |-> IF user[c] = NoUser THEN "" ELSE FirstName[user[c]]]
  /\ first = [c \in Client |-> user[c] \in User \ Publisher /\ row[user[c]].firstLogin]
  /\ acts = 0
  /\ crashes = 0
  /\ late = [c \in Client |-> {}]
  /\ raced = {}
  /\ torn = {}
  /\ renamed = {}

-----------------------------------------------------------------------------
(* The workers. *)

Takes(c, type, st) == line[c] # <<>> /\ Head(line[c]).type = type /\ stage[c] = st

(* The form remembers what it has sent. *)
Answer(c, ok, more) ==
  /\ line' = [line EXCEPT ![c] = Tail(@)]
  /\ stage' = [stage EXCEPT ![c] = "look"]
  /\ job' = [job EXCEPT ![c] = NoJob]
  /\ down' = [down EXCEPT ![c] =
                Append(@, more ++ [type |-> Head(line[c]).type, ok |-> ok, to |-> Head(line[c])])]
Fail(c) == Answer(c, FALSE, <<>>)

GoOn(c, st, read) ==
  /\ stage' = [stage EXCEPT ![c] = st]
  /\ job' = [job EXCEPT ![c] = read]
  /\ UNCHANGED <<line, down>>

(* The first query of a handler, a later one, and a write. *)
Looked(c) ==
  /\ late' = [late EXCEPT ![c] = {}]
  /\ UNCHANGED <<tables, pages, acts, crashes, raced, torn, renamed>>

LookedAgain == UNCHANGED <<tables, pages, acts, crashes, late, raced, torn, renamed>>

Wrote(c) ==
  LET changed == {x \in User \X {"username", "email"} :
                    LET u == x[1] IN
                    /\ row'[u] # NoRow
                    /\ ~Inserted(u) \/ row'[u][x[2]] # row[u][x[2]]}
  IN  /\ late' = [d \in Client |-> IF d = c \/ stage[d] = "look" THEN {} ELSE late[d] \cup changed]
      /\ UNCHANGED <<pages, acts, crashes>>

(* LOGIN: one query, by the username; blocked users are refused. *)
Login(c) ==
  LET r == Head(line[c])
      fit == {u \in Named(r.name) : ~row[u].blocked /\ row[u].password = r.pass}
  IN  /\ Takes(c, "LOGIN", "look")
      /\ \/ \E u \in fit : Answer(c, TRUE, [user |-> u, first |-> row[u].firstLogin])
         \/ fit = {} /\ Fail(c)
      /\ UNCHANGED <<tables, pages, acts, crashes, late, raced, torn, renamed>>

(* REGISTER: is the name taken?  Then the INSERT, which the unique key may    *)
(* still refuse: nothing else keeps two clients from registering one name.    *)
RegisterLook(c) ==
  /\ Takes(c, "REGISTER", "look")
  /\ IF Named(Head(line[c]).name) # {} THEN Fail(c) ELSE GoOn(c, "write", NoJob)
  /\ Looked(c)

(* The row gets the next id; the ids here are of the one role or the other.   *)
InsertUser(r) ==
  \E u \in User :
    /\ ~Inserted(u)
    /\ u \in Publisher <=> r.publisher
    /\ row' = [row EXCEPT ![u] = NewRow(r.name, r.pass)]

(* Mutant: the username has no unique key. *)
RegisterUnkeyed(c) ==
  /\ Takes(c, "REGISTER", "write")
  /\ InsertUser(Head(line[c]))
  /\ Answer(c, TRUE, <<>>)
  /\ Wrote(c)
  /\ UNCHANGED <<raced, torn, renamed>>

(* Another client may have got the name since: registered with it as well, or *)
(* changed its own.                                                           *)
Register(c) ==
  LET r == Head(line[c])
  IN  /\ Takes(c, "REGISTER", "write")
      /\ \/ Named(r.name) # {} /\ Fail(c) /\ UNCHANGED row
         \/ Named(r.name) = {} /\ InsertUser(r) /\ Answer(c, TRUE, <<>>)
      /\ Wrote(c)
      /\ UNCHANGED <<raced, torn, renamed>>

(* FORGOT_PASSWORD, second step: the answer of the user of that name is       *)
(* compared, then the password of whoever has the name is written.            *)
ResetLook(c) ==
  LET r == Head(line[c])
  IN  /\ Takes(c, "RESET", "look")
      /\ IF r.answer \in Named(r.name)
         THEN GoOn(c, "write", [user |-> r.answer, knew |-> TRUE])
         ELSE Fail(c)
      /\ Looked(c)

Reset(c) ==
  LET r == Head(line[c])
  IN  /\ Takes(c, "RESET", "write")
      /\ row' = [u \in User |-> IF u \in Named(r.name) THEN [row[u] EXCEPT !.password = r.new]
                                ELSE row[u]]
      /\ Answer(c, TRUE, <<>>)
      /\ Wrote(c)
      /\ UNCHANGED <<raced, torn, renamed>>

(* Mutant: the old password is not compared. *)
ChangeLookAny(c) ==
  LET r == Head(line[c])
  IN  /\ Takes(c, "CHANGE", "look")
      /\ GoOn(c, "write", [user |-> r.user, knew |-> row[r.user].password = r.old])
      /\ Looked(c)

(* CHANGE_PASSWORD: the same by the id. *)
ChangeLook(c) ==
  LET r == Head(line[c])
      knew == row[r.user].password = r.old
  IN  /\ Takes(c, "CHANGE", "look")
      /\ IF knew THEN GoOn(c, "write", [user |-> r.user, knew |-> knew]) ELSE Fail(c)
      /\ Looked(c)

ChangePassword(c) ==
  LET r == Head(line[c])
  IN  /\ Takes(c, "CHANGE", "write")
      /\ row' = [row EXCEPT ![r.user].password = r.new]
      /\ Answer(c, TRUE, <<>>)
      /\ Wrote(c)
      /\ UNCHANGED <<raced, torn, renamed>>

-----------------------------------------------------------------------------
(* UPDATE_PROFILE and UPDATE_PUBLISHER_PROFILE. *)

Columns == {"username", "email"}

(* Mutant: what a publisher leaves empty is written as it is. *)
ReadProfileNot(c) ==
  LET r == Head(line[c])
      blank == [username |-> row[r.user].username, email |-> NoEmail]
  IN  /\ Takes(c, "UPDATE", "look")
      /\ r.user \in Publisher
      /\ GoOn(c, "name", [write |-> r.sent ++ blank,
                          asked |-> {f \in DOMAIN r.sent : r.sent[f] # row[r.user][f]}])
      /\ Looked(c)

(* A publisher's fields left empty are taken from the row as it is now, and   *)
(* only those that differ from it are looked for in other rows.               *)
ReadProfile(c) ==
  LET r == Head(line[c])
      now == [f \in Columns |-> row[r.user][f]]
  IN  /\ Takes(c, "UPDATE", "look")
      /\ r.user \in Publisher
      /\ GoOn(c, "name", [write |-> r.sent ++ now,
                          asked |-> {f \in DOMAIN r.sent : r.sent[f] # now[f]}])
      /\ Looked(c)

(* A reader's fields left empty stay out of the statement. *)
Prepared(c) ==
  LET r == Head(line[c])
  IN  IF r.user \in Publisher THEN job[c] ELSE [write |-> r.sent, asked |-> DOMAIN r.sent]

(* Is the value asked for f in the row of another user? *)
Taken(c, f, todo) ==
  /\ f \in todo.asked
  /\ \E v \in User \ {Head(line[c]).user} : Inserted(v) /\ row[v][f] = todo.write[f]

CheckName(c) ==
  /\ Takes(c, "UPDATE", IF line[c] # <<>> /\ Head(line[c]).type = "UPDATE"
                           /\ Head(line[c]).user \in Publisher THEN "name" ELSE "look")
  /\ IF Taken(c, "username", Prepared(c)) THEN Fail(c) ELSE GoOn(c, "email", Prepared(c))
  /\ IF Head(line[c]).user \in Publisher THEN LookedAgain ELSE Looked(c)

(* Mutant: an address already in use is taken for the user's own. *)
CheckEmailNot(c) ==
  /\ Takes(c, "UPDATE", "email")
  /\ GoOn(c, "write", job[c])
  /\ LookedAgain

CheckEmail(c) ==
  /\ Takes(c, "UPDATE", "email")
  /\ IF Taken(c, "email", job[c]) THEN Fail(c) ELSE GoOn(c, "write", job[c])
  /\ LookedAgain

(* The UPDATE; the unique key of the username may still refuse it. *)
UpdateProfile(c) ==
  LET u == Head(line[c]).user
      new == job[c].write ++ row[u]
  IN  /\ Takes(c, "UPDATE", "write")
      /\ IF Named(new.username) \ {u} # {}
         THEN Fail(c) /\ UNCHANGED <<row, raced, renamed>>
         ELSE /\ row' = [row EXCEPT ![u] = new]
              /\ raced' = IF \E v \in User : <<v, "email">> \in late[c]
                          THEN raced \cup {new.email} ELSE raced
              /\ renamed' = IF new.username # row[u].username THEN renamed \cup {u} ELSE renamed
              /\ Answer(c, TRUE, <<>>)
      /\ Wrote(c)
      /\ UNCHANGED torn

-----------------------------------------------------------------------------
(* SET_FAVORITE_GENRES: two UPDATEs, each of whoever has the username sent.   *)
(* That they match no row is a success.                                       *)

(* Mutant: the UPDATE is made without its condition. *)
SetFavoriteGenresOfAll(c) ==
  LET S == {u \in User : Inserted(u)}
  IN  /\ Takes(c, "GENRES", "look")
      /\ row' = [u \in User |-> IF u \in S THEN [row[u] EXCEPT !.genres = TRUE] ELSE row[u]]
      /\ GoOn(c, "first", [saved |-> S])
      /\ late' = [late EXCEPT ![c] = {}]
      /\ UNCHANGED <<pages, acts, crashes, raced, torn, renamed>>

SetFavoriteGenres(c) ==
  LET S == Named(Head(line[c]).name)
  IN  /\ Takes(c, "GENRES", "look")
      /\ row' = [u \in User |-> IF u \in S THEN [row[u] EXCEPT !.genres = TRUE] ELSE row[u]]
      /\ GoOn(c, "first", [saved |-> S])
      /\ late' = [late EXCEPT ![c] = {}]
      /\ UNCHANGED <<pages, acts, crashes, raced, torn, renamed>>

(* Mutant: the second UPDATE is not made. *)
SetFirstLoginNever(c) ==
  /\ Takes(c, "GENRES", "first")
  /\ Answer(c, TRUE, <<>>)
  /\ UNCHANGED row
  /\ Wrote(c)
  /\ UNCHANGED <<raced, torn, renamed>>

(* The result of the second UPDATE is not looked at. *)
SetFirstLoginFalse(c) ==
  LET S == Named(Head(line[c]).name)
  IN  /\ Takes(c, "GENRES", "first")
      /\ row' = [u \in User |-> IF u \in S THEN [row[u] EXCEPT !.firstLogin = FALSE] ELSE row[u]]
      /\ torn' = torn \cup (S \ job[c].saved) \cup (job[c].saved \ S)
      /\ Answer(c, TRUE, <<>>)
      /\ Wrote(c)
      /\ UNCHANGED <<raced, renamed>>

(* A write fails, because of a lock held too long. *)
StatementFails(c) ==
  /\ line[c] # <<>>
  /\ \/ stage[c] = "write" /\ Fail(c) /\ UNCHANGED torn
     \/ /\ stage[c] = "first"
        /\ Answer(c, TRUE, <<>>)
        /\ torn' = torn \cup job[c].saved
  /\ UNCHANGED <<tables, pages, acts, crashes, late, raced, renamed>>

-----------------------------------------------------------------------------
(* The administrator, one statement each. *)

Act == acts < MaxActs /\ acts' = acts + 1

SetUserActiveState(u, active) ==
  /\ Inserted(u) /\ ~row[u].deleted
  /\ row' = [row EXCEPT ![u].blocked = ~active]
  /\ Act
  /\ UNCHANGED <<line, stage, job, down, pages, crashes, late, raced, torn, renamed>>

(* The row stays, and with it the name and the address. *)
DeleteUser(u) ==
  /\ Inserted(u)
  /\ row' = [row EXCEPT ![u].deleted = TRUE, ![u].blocked = TRUE]
  /\ Act
  /\ UNCHANGED <<line, stage, job, down, pages, crashes, late, raced, torn, renamed>>

-----------------------------------------------------------------------------
(* The clients.  A form is disabled from the click to the answer. *)

Waits(c, types) ==
  \/ \E i \in DOMAIN line[c] : line[c][i].type \in types
  \/ \E i \in DOMAIN down[c] : down[c][i].type \in types

Submit(c, r) ==
  /\ Act
  /\ line' = [line EXCEPT ![c] = Append(@, r)]
  /\ UNCHANGED <<tables, stage, job, down, pages, crashes, late, raced, torn, renamed>>

(* The pages before the login. *)
Guest(c) == user[c] = NoUser /\ ~Waits(c, {"LOGIN", "REGISTER", "RESET"})

SubmitLogin(c, n, p) == Guest(c) /\ Submit(c, [type |-> "LOGIN", name |-> n, pass |-> p])

SubmitRegister(c, n, publisher) ==
  /\ Guest(c)
  /\ Submit(c, [type |-> "REGISTER", name |-> n, pass |-> FirstPass, publisher |-> publisher])

SubmitReset(c, n, u, p) ==
  /\ Guest(c)
  /\ Submit(c, [type |-> "RESET", name |-> n, answer |-> u, new |-> p])

(* The pages after it. *)
SubmitPassword(c, old, new) ==
  /\ user[c] # NoUser /\ ~first[c] /\ ~Waits(c, {"CHANGE"})
  /\ Submit(c, [type |-> "CHANGE", user |-> user[c], old |-> old, new |-> new])

SubmitProfile(c, sent) ==
  /\ user[c] # NoUser /\ ~first[c] /\ ~Waits(c, {"UPDATE"})
  /\ Submit(c, [type |-> "UPDATE", user |-> user[c], sent |-> sent])

(* The genre page sends the username it was made with; whose page it is, is   *)
(* there for the properties.                                                  *)
SubmitGenres(c) ==
  /\ user[c] \in User \ Publisher /\ ~Waits(c, {"GENRES"})
  /\ Submit(c, [type |-> "GENRES", name |-> formName[c], user |-> user[c]])

Sent == UNION {[D -> UserName \cup Email] : D \in (SUBSET Columns) \ {{}}}
ProfileForms == {s \in Sent : /\ "username" \in DOMAIN s => s.username \in UserName
                              /\ "email" \in DOMAIN s => s.email \in Email}

(* processNetworkData of the pages; a rename does not reach the genre page. *)
Receive(c) ==
  LET m == Head(down[c])
  IN  /\ down[c] # <<>>
      /\ down' = [down EXCEPT ![c] = Tail(@)]
      /\ CASE m.type = "LOGIN" /\ m.ok ->
              /\ user' = [user EXCEPT ![c] = m.user]
              /\ formName' = [formName EXCEPT ![c] = m.to.name]
              /\ first' = [first EXCEPT ![c] = m.first /\ m.user \notin Publisher]
           [] m.type = "GENRES" /\ m.ok ->
              /\ first' = [first EXCEPT ![c] = FALSE]
              /\ UNCHANGED <<user, formName>>
           [] OTHER -> UNCHANGED pages
      /\ UNCHANGED <<tables, line, stage, job, acts, crashes, late, raced, torn, renamed>>

(* A client that waits for nothing is closed and started again. *)
Restart(c) ==
  /\ user[c] # NoUser /\ line[c] = <<>> /\ down[c] = <<>>
  /\ user' = [user EXCEPT ![c] = NoUser]
  /\ formName' = [formName EXCEPT ![c] = ""]
  /\ first' = [first EXCEPT ![c] = FALSE]
  /\ UNCHANGED <<tables, line, stage, job, down, acts, crashes, late, raced, torn, renamed>>

(* The server dies, the clients are started again. *)
Crash ==
  /\ crashes < MaxCrashes
  /\ crashes' = crashes + 1
  /\ torn' = torn \cup UNION {job[c].saved : c \in {d \in Client : Takes(d, "GENRES", "first")}}
  /\ line' = [c \in Client |-> <<>>]
  /\ stage' = [c \in Client |-> "look"]
  /\ job' = [c \in Client |-> NoJob]
  /\ down' = [c \in Client |-> <<>>]
  /\ user' = [c \in Client |-> NoUser]
  /\ formName' = [c \in Client |-> ""]
  /\ first' = [c \in Client |-> FALSE]
  /\ late' = [c \in Client |-> {}]
  /\ UNCHANGED <<tables, acts, raced, renamed>>

-----------------------------------------------------------------------------
Work(c) ==
  \/ Login(c)
  \/ RegisterLook(c) \/ Register(c)
  \/ ResetLook(c) \/ Reset(c)
  \/ ChangeLook(c) \/ ChangePassword(c)
  \/ ReadProfile(c) \/ CheckName(c) \/ CheckEmail(c) \/ UpdateProfile(c)
  \/ SetFavoriteGenres(c) \/ SetFirstLoginFalse(c)
  \/ StatementFails(c)

SubmitForm(c) ==
  \/ \E n \in UserName, p \in Password : SubmitLogin(c, n, p)
  \/ \E n \in UserName, publisher \in BOOLEAN : SubmitRegister(c, n, publisher)
  \/ \E n \in UserName, u \in User, p \in Password : SubmitReset(c, n, u, p)
  \/ \E p, q \in Password : SubmitPassword(c, p, q)
  \/ \E sent \in ProfileForms : SubmitProfile(c, sent)
  \/ SubmitGenres(c)

Next ==
  \/ \E c \in Client : Work(c) \/ Receive(c) \/ SubmitForm(c) \/ Restart(c)
  \/ \E u \in User, active \in BOOLEAN : SetUserActiveState(u, active)
  \/ \E u \in User : DeleteUser(u)
  \/ Crash

Spec == Init /\ [][Next]_vars
-----------------------------------------------------------------------------
(* Properties. *)

(* Requests, answers and what a handler has read. *)
LoginRequest == [type : {"LOGIN"}, name : UserName, pass : Password]

Request ==
  LoginRequest
    \cup [type : {"REGISTER"}, name : UserName, pass : Password, publisher : BOOLEAN]
    \cup [type : {"RESET"}, name : UserName, answer : User, new : Password]
    \cup [type : {"CHANGE"}, user : User, old : Password, new : Password]
    \cup [type : {"UPDATE"}, user : User, sent : ProfileForms]
    \cup [type : {"GENRES"}, name : UserName, user : User]

Types == {"LOGIN", "REGISTER", "RESET", "CHANGE", "UPDATE", "GENRES"}

Response ==
  [type : Types, ok : {FALSE}, to : Request]
    \cup [type : Types \ {"LOGIN"}, ok : {TRUE}, to : Request]
    \cup [type : {"LOGIN"}, ok : {TRUE}, to : LoginRequest, user : User, first : BOOLEAN]

(* What UPDATE writes: a publisher's address may be empty still. *)
Written ==
  {w \in UNION {[D -> UserName \cup Email \cup {NoEmail}] : D \in SUBSET Columns} :
     /\ "username" \in DOMAIN w => w.username \in UserName
     /\ "email" \in DOMAIN w => w.email \in Email \cup {NoEmail}}

Job ==
  [user : User, knew : BOOLEAN]
    \cup [write : Written, asked : SUBSET Columns]
    \cup [saved : SUBSET User]

(* All have their types, and who is deleted is blocked for good, so that the  *)
(* login need not ask for both.                                               *)
TypeOK ==
  /\ row \in [User -> Row \cup {NoRow}]
  /\ \A u \in User : Inserted(u) /\ row[u].deleted => row[u].blocked
  /\ line \in [Client -> Seq(Request)]
  /\ stage \in [Client -> {"look", "name", "email", "write", "first"}]
  /\ job \in [Client -> Job \cup {NoJob}]
  /\ down \in [Client -> Seq(Response)]
  /\ user \in [Client -> User \cup {NoUser}]
  /\ formName \in [Client -> UserName \cup {""}]
  /\ first \in [Client -> BOOLEAN]
  /\ acts \in Nat /\ crashes \in Nat
  /\ late \in [Client -> SUBSET (User \X Columns)]
  /\ raced \subseteq Email \cup {NoEmail} /\ torn \subseteq User /\ renamed \subseteq User

(* No two users have one username, however the registrations and renames of   *)
(* several clients come between one another's look at the table and write: a  *)
(* login, a reset and a notification find one row or none.                    *)
UsernamesOnce ==
  \A u \in User : Inserted(u) => Named(row[u].username) = {u}

(* No two users have one address, although nothing but a query before the     *)
(* write sees to it; only a change of another client between the two can give *)
(* an address twice.                                                          *)
EmailsOnce ==
  \A u, v \in User : u # v /\ Inserted(u) /\ Inserted(v) /\ row[u].email = row[v].email =>
    row[u].email \in raced \cup {NoEmail}

(* A password changes only by a request that knew the old one, or the answer, *)
(* of that very user: only if the name has passed to another user between the *)
(* comparison and the write does a reset reach the wrong row.                 *)
PasswordsGuarded ==
  [][\A u \in User : Inserted(u) /\ row'[u].password # row[u].password =>
       \E c \in Client :
         /\ Takes(c, "CHANGE", "write") \/ Takes(c, "RESET", "write")
         /\ job[c].knew
         /\ job[c].user = u \/ <<job[c].user, "username">> \in late[c]]_vars

(* An edited profile differs in the fields of the form and in nothing else,   *)
(* although a publisher's row is written with all its fields: only what other *)
(* clients changed since it was read is undone.                               *)
ProfileKept ==
  [][\A u \in User, f \in Columns : Inserted(u) /\ row'[u][f] # row[u][f] =>
       \E c \in Client :
         /\ Takes(c, "UPDATE", "write")
         /\ Head(line[c]).user = u
         /\ f \in DOMAIN Head(line[c]).sent \/ <<u, f>> \in late[c]]_vars

(* Who has chosen genres is not asked again at the next login, and who has    *)
(* not is: the two columns are written by two statements, which only a crash, *)
(* a failure or a rename between them tears apart.                            *)
FirstLoginOnce ==
  \A u \in User \ torn : Inserted(u) =>
    \/ row[u].firstLogin = ~row[u].genres
    \/ \E c \in Client : Takes(c, "GENRES", "first") /\ u \in job[c].saved

(* The genres chosen at a client, and the end of the first login, are written *)
(* to the row of the user its genre page was made for, although the page      *)
(* sends a username kept since the login: only after that user has taken      *)
(* another name do they reach nobody, or whoever has the name by then.        *)
GenresOwn ==
  [][\A u \in User, f \in {"genres", "firstLogin"} : Inserted(u) /\ row'[u][f] # row[u][f] =>
       \E c \in Client :
         /\ Takes(c, "GENRES", "look") \/ Takes(c, "GENRES", "first")
         /\ Head(line[c]).user \in {u} \cup renamed]_vars
=============================================================================
