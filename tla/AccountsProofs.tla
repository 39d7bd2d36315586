--------------------------- MODULE AccountsProofs ---------------------------
(* Theorems about Accounts, for any users, clients, names and bounds. *)
EXTENDS Accounts, TLAPS

-----------------------------------------------------------------------------
(* Sequences, whatever is in them. *)

LEMMA AppendSeq ==
  ASSUME NEW S, NEW q \in Seq(S), NEW m \in S
  PROVE /\ Append(q, m) \in Seq(S)
        /\ Append(q, m) # <<>>
        /\ Len(q) \in Nat
        /\ Len(Append(q, m)) = Len(q) + 1
        /\ Append(q, m)[Len(q) + 1] = m
        /\ \A i \in 1..Len(q) : Append(q, m)[i] = q[i]
        /\ q # <<>> => Head(Append(q, m)) = Head(q)
        /\ q = <<>> => Head(Append(q, m)) = m
OBVIOUS

LEMMA TailSeq ==
  ASSUME NEW S, NEW q \in Seq(S), q # <<>>
  PROVE /\ Tail(q) \in Seq(S)
        /\ Head(q) \in S
        /\ Head(q) = q[1]
        /\ Len(q) \in Nat \ {0}
        /\ Len(Tail(q)) = Len(q) - 1
        /\ \A i \in 1..(Len(q) - 1) : Tail(q)[i] = q[i + 1]
OBVIOUS

LEMMA EmptySeq ==
  ASSUME NEW S
  PROVE <<>> \in Seq(S)
OBVIOUS

LEMMA SeqOfMore ==
  ASSUME NEW S, NEW T, S \subseteq T, NEW q \in Seq(S)
  PROVE q \in Seq(T)
OBVIOUS

-----------------------------------------------------------------------------
(* Requests, answers, what is read, rows. *)

LEMMA RequestFields ==
  ASSUME NEW r \in Request
  PROVE /\ r.type \in Types
        /\ r.type = "LOGIN" => r \in LoginRequest /\ r.name \in UserName /\ r.pass \in Password
        /\ r.type = "REGISTER" => r.name \in UserName /\ r.pass \in Password
        /\ r.type = "RESET" => r.name \in UserName /\ r.answer \in User /\ r.new \in Password
        /\ r.type = "CHANGE" => r.user \in User /\ r.old \in Password /\ r.new \in Password
        /\ r.type = "UPDATE" => r.user \in User /\ r.sent \in ProfileForms
        /\ r.type = "GENRES" => r.name \in UserName /\ r.user \in User
BY DEF Request, LoginRequest, Types

LEMMA ResponseFields ==
  ASSUME NEW m \in Response
  PROVE /\ m.type \in Types /\ m.ok \in BOOLEAN
        /\ m.type = "LOGIN" /\ m.ok =>
             m.user \in User /\ m.first \in BOOLEAN /\ m.to.name \in UserName
BY DEF Response, LoginRequest, Types

(* An answer with nothing more in it, and that of a login that went well. *)
LEMMA PlainAnswer ==
  ASSUME NEW r \in Request, NEW ok \in BOOLEAN, r.type = "LOGIN" => ~ok
  PROVE <<>> ++ [type |-> r.type, ok |-> ok, to |-> r] \in Response
<1> DEFINE m == [type |-> r.type, ok |-> ok, to |-> r]
<1>1. m = [x \in DOMAIN m |-> m[x]]
  OBVIOUS
<1>2. <<>> ++ m = m
  BY <1>1 DEF ++
<1>3. m \in Response
  BY RequestFields DEF Response
<1>4. QED
  BY <1>2, <1>3

LEMMA LoginAnswer ==
  ASSUME NEW r \in LoginRequest, NEW u \in User, NEW f \in BOOLEAN
  PROVE [user |-> u, first |-> f] ++ [type |-> r.type, ok |-> TRUE, to |-> r] \in Response
<1> DEFINE m == [user |-> u, first |-> f] ++ [type |-> r.type, ok |-> TRUE, to |-> r]
<1>1. r.type = "LOGIN"
  BY DEF LoginRequest
<1>2. /\ m = [x \in DOMAIN m |-> m[x]]
      /\ DOMAIN m = {"user", "first"} \cup {"type", "ok", "to"}
      /\ m["user"] = u /\ m["first"] = f /\ m["type"] = r.type /\ m["ok"] = TRUE /\ m["to"] = r
  BY DEF ++
<1> HIDE DEF m
<1>3. m = [type |-> "LOGIN", ok |-> TRUE, to |-> r, user |-> u, first |-> f]
  BY <1>1, <1>2
<1>4. m \in Response
  BY <1>3 DEF Response
<1>5. QED
  BY <1>4 DEF m

LEMMA ProfileFields ==
  ASSUME NEW s \in ProfileForms
  PROVE /\ s \in Written
        /\ DOMAIN s \subseteq Columns
        /\ "username" \in DOMAIN s => s.username \in UserName
        /\ "email" \in DOMAIN s => s.email \in Email
<1>1. PICK D \in (SUBSET Columns) \ {{}} : s \in [D -> UserName \cup Email]
  BY DEF ProfileForms, Sent
<1>2. s \in [D -> UserName \cup Email \cup {NoEmail}] /\ D \in SUBSET Columns
  BY <1>1
<1>3. /\ "username" \in DOMAIN s => s.username \in UserName
      /\ "email" \in DOMAIN s => s.email \in Email
  BY DEF ProfileForms
<1>4. s \in UNION {[E -> UserName \cup Email \cup {NoEmail}] : E \in SUBSET Columns}
  BY <1>2
<1>5. QED
  BY <1>2, <1>3, <1>4 DEF Written

LEMMA WrittenFields ==
  ASSUME NEW w \in Written
  PROVE /\ DOMAIN w \subseteq {"username", "email"}
        /\ w = [x \in DOMAIN w |-> w[x]]
        /\ "username" \in DOMAIN w => w["username"] \in UserName
        /\ "email" \in DOMAIN w => w["email"] \in Email \cup {NoEmail}
<1>1. PICK D \in SUBSET Columns : w \in [D -> UserName \cup Email \cup {NoEmail}]
  BY DEF Written
<1>2. QED
  BY <1>1 DEF Written, Columns

LEMMA RowFields ==
  ASSUME NEW x \in Row
  PROVE /\ x.username \in UserName /\ x.password \in Password /\ x.email \in Email \cup {NoEmail}
        /\ x.blocked \in BOOLEAN /\ x.deleted \in BOOLEAN
        /\ x.firstLogin \in BOOLEAN /\ x.genres \in BOOLEAN
        /\ DOMAIN x = {"username", "password", "email", "blocked", "deleted", "firstLogin", "genres"}
        /\ x # NoRow
BY RowAssumption DEF Row

LEMMA NewRowOK ==
  ASSUME NEW n \in UserName, NEW p \in Password
  PROVE NewRow(n, p) \in Row
BY DEF NewRow, Row

(* A profile written over a row. *)
LEMMA WriteOver ==
  ASSUME NEW w \in Written, NEW x \in Row
  PROVE /\ w ++ x \in Row
        /\ (w ++ x).password = x.password /\ (w ++ x).blocked = x.blocked
        /\ (w ++ x).deleted = x.deleted /\ (w ++ x).firstLogin = x.firstLogin
        /\ (w ++ x).genres = x.genres
        /\ (w ++ x).username = IF "username" \in DOMAIN w THEN w["username"] ELSE x.username
        /\ (w ++ x).email = IF "email" \in DOMAIN w THEN w["email"] ELSE x.email
<1> DEFINE y == w ++ x
<1>1. /\ DOMAIN w \subseteq {"username", "email"}
      /\ DOMAIN x = {"username", "password", "email", "blocked", "deleted", "firstLogin", "genres"}
  BY WrittenFields, RowFields
<1>2. y = [f \in {"username", "password", "email", "blocked", "deleted", "firstLogin", "genres"} |->
             IF f \in DOMAIN w THEN w[f] ELSE x[f]]
  BY <1>1 DEF ++
<1> HIDE DEF y
<1>3. /\ y.password = x.password /\ y.blocked = x.blocked
      /\ y.deleted = x.deleted /\ y.firstLogin = x.firstLogin
      /\ y.genres = x.genres
  BY <1>1, <1>2
<1>4. /\ y.username = IF "username" \in DOMAIN w THEN w["username"] ELSE x.username
      /\ y.email = IF "email" \in DOMAIN w THEN w["email"] ELSE x.email
  BY <1>2
<1>5. y = [username |-> y.username, password |-> y.password, email |-> y.email,
           blocked |-> y.blocked, deleted |-> y.deleted, firstLogin |-> y.firstLogin,
           genres |-> y.genres]
  BY <1>2
<1>6. y.username \in UserName /\ y.email \in Email \cup {NoEmail}
  BY <1>4, WrittenFields, RowFields
<1>7. y \in Row
  BY <1>3, <1>5, <1>6, RowFields DEF Row
<1>8. QED
  BY <1>3, <1>4, <1>7 DEF y

LEMMA JobFields ==
  ASSUME NEW j \in [write : Written, asked : SUBSET Columns]
  PROVE j \in Job /\ j.write \in Written /\ j.asked \subseteq Columns
BY DEF Job

-----------------------------------------------------------------------------
(* The parts the actions are made of. *)

Queues ==
  /\ line \in [Client -> Seq(Request)]
  /\ stage \in [Client -> {"look", "name", "email", "write", "first"}]
  /\ job \in [Client -> Job \cup {NoJob}]
  /\ down \in [Client -> Seq(Response)]

Rows ==
  /\ row \in [User -> Row \cup {NoRow}]
  /\ \A u \in User : Inserted(u) =>
       /\ row[u].deleted => row[u].blocked
       /\ Named(row[u].username) = {u}

Pages ==
  /\ user \in [Client -> User \cup {NoUser}]
  /\ formName \in [Client -> UserName \cup {""}]
  /\ first \in [Client -> BOOLEAN]

Marks ==
  /\ acts \in Nat /\ crashes \in Nat
  /\ late \in [Client -> SUBSET (User \X Columns)]
  /\ raced \subseteq Email \cup {NoEmail} /\ torn \subseteq User /\ renamed \subseteq User

LEMMA TypeParts == TypeOK /\ UsernamesOnce <=> Rows /\ Queues /\ Pages /\ Marks
BY DEF TypeOK, UsernamesOnce, Rows, Queues, Pages, Marks

LEMMA TypePartsNext == TypeOK' /\ UsernamesOnce' <=> Rows' /\ Queues' /\ Pages' /\ Marks'
BY DEF TypeOK, UsernamesOnce, Rows, Queues, Pages, Marks

LEMMA HeadOK ==
  ASSUME Queues, NEW c \in Client
  PROVE /\ line[c] # <<>> => Head(line[c]) \in Request /\ Tail(line[c]) \in Seq(Request)
        /\ down[c] # <<>> => Head(down[c]) \in Response /\ Tail(down[c]) \in Seq(Response)
BY TailSeq DEF Queues

LEMMA AnswerQueues ==
  ASSUME Queues, NEW c \in Client, line[c] # <<>>, NEW ok \in BOOLEAN, NEW more,
         more ++ [type |-> Head(line[c]).type, ok |-> ok, to |-> Head(line[c])] \in Response,
         Answer(c, ok, more)
  PROVE Queues'
<1> DEFINE m == more ++ [type |-> Head(line[c]).type, ok |-> ok, to |-> Head(line[c])]
<1>1. /\ line' = [line EXCEPT ![c] = Tail(@)] /\ stage' = [stage EXCEPT ![c] = "look"]
      /\ job' = [job EXCEPT ![c] = NoJob] /\ down' = [down EXCEPT ![c] = Append(@, m)]
  BY DEF Answer
<1>2. m \in Response
  OBVIOUS
<1> HIDE DEF m
<1>3. Append(down[c], m) \in Seq(Response)
  BY <1>2, AppendSeq DEF Queues
<1>4. Tail(line[c]) \in Seq(Request)
  BY HeadOK
<1>5. QED
  BY <1>1, <1>3, <1>4 DEF Queues

LEMMA PlainQueues ==
  ASSUME Queues, NEW c \in Client, line[c] # <<>>, NEW ok \in BOOLEAN,
         Head(line[c]).type = "LOGIN" => ~ok, Answer(c, ok, <<>>)
  PROVE Queues'
<1>1. Head(line[c]) \in Request
  BY HeadOK
<1>2. <<>> ++ [type |-> Head(line[c]).type, ok |-> ok, to |-> Head(line[c])] \in Response
  BY <1>1, PlainAnswer
<1>3. QED
  BY <1>2, AnswerQueues

LEMMA FailQueues ==
  ASSUME Queues, NEW c \in Client, line[c] # <<>>, Fail(c)
  PROVE Queues'
BY PlainQueues DEF Fail

LEMMA GoOnQueues ==
  ASSUME Queues, NEW c \in Client, NEW st \in {"look", "name", "email", "write", "first"},
         NEW read \in Job \cup {NoJob}, GoOn(c, st, read)
  PROVE Queues'
BY DEF Queues, GoOn

(* A write that leaves usernames, and who is there, as they are. *)
LEMMA SameNames ==
  ASSUME Rows, row' \in [User -> Row \cup {NoRow}],
         \A u \in User :
           /\ Inserted(u)' <=> Inserted(u)
           /\ Inserted(u) => /\ row'[u].username = row[u].username
                             /\ row'[u].deleted => row'[u].blocked
  PROVE Rows'
<1>1. \A n : Named(n)' = Named(n)
  BY DEF Named
<1>2. QED
  BY <1>1 DEF Rows

(* A name is written that no other row has. *)
LEMMA FreeName ==
  ASSUME Rows, NEW u \in User, NEW x \in Row, x.deleted => x.blocked,
         Named(x.username) \subseteq {u}, row' = [row EXCEPT ![u] = x]
  PROVE Rows'
<1>1. row' \in [User -> Row \cup {NoRow}] /\ row'[u] = x /\ x # NoRow
  BY RowFields DEF Rows
<1>2. \A v \in User \ {u} : row'[v] = row[v]
  BY DEF Rows
<1>3. Inserted(u)' /\ \A v \in User \ {u} : Inserted(v)' <=> Inserted(v)
  BY <1>1, <1>2 DEF Inserted
<1>4. Named(x.username)' = {u}
  BY <1>1, <1>2, <1>3 DEF Named
<1>5. ASSUME NEW v \in User \ {u}, Inserted(v) PROVE Named(row[v].username)' = {v}
  <2>1. Named(row[v].username) = {v} /\ row'[v] = row[v]
    BY <1>2, <1>5 DEF Rows
  <2>2. row[v].username # x.username
    BY <1>5, <2>1 DEF Named
  <2>3. \A w \in User : w \in Named(row[v].username)' <=> w = v
    <3>1. TAKE w \in User
    <3>2. CASE w = u
      BY <1>1, <2>1, <2>2, <3>2 DEF Named
    <3>3. CASE w # u
      BY <1>2, <1>3, <2>1, <3>3 DEF Named
    <3>4. QED
      BY <3>2, <3>3
  <2>4. QED
    BY <2>3 DEF Named
<1>6. QED
  BY <1>1, <1>2, <1>3, <1>4, <1>5 DEF Rows

LEMMA WroteMarks ==
  ASSUME Marks, NEW c \in Client, Wrote(c), raced' \subseteq Email \cup {NoEmail},
         torn' \subseteq User, renamed' \subseteq User
  PROVE Marks'
BY DEF Marks, Wrote, Columns

-----------------------------------------------------------------------------
(***************************************************************************)
(* The inductive invariant, first part: what is asked and read.            *)
(***************************************************************************)

ProfileJob == [write : Written, asked : SUBSET Columns]

(* Which statements a request goes through, and what has been read by then. *)
Staged(c) ==
  LET r == Head(line[c])
  IN  /\ line[c] = <<>> => stage[c] = "look"
      /\ stage[c] = "look" => job[c] = NoJob
      /\ line[c] # <<>> =>
           /\ stage[c] \in {"name", "email"} => r.type = "UPDATE"
           /\ stage[c] = "first" => r.type = "GENRES"
           /\ stage[c] = "write" => r.type \in {"REGISTER", "RESET", "CHANGE", "UPDATE"}
           /\ stage[c] # "look" /\ r.type = "UPDATE" => job[c] \in ProfileJob
           /\ stage[c] # "look" /\ r.type = "GENRES" => job[c] \in [saved : SUBSET User]
           /\ stage[c] = "write" /\ r.type = "CHANGE" => job[c] = [user |-> r.user, knew |-> TRUE]
           /\ stage[c] = "write" /\ r.type = "RESET" => job[c] = [user |-> r.answer, knew |-> TRUE]

(* Who is logged in, or said to be, or asks for a change, has a row. *)
Good == {r \in Request : r.type \in {"CHANGE", "UPDATE"} => Inserted(r.user)}
GoodAnswers == {m \in Response : m.type = "LOGIN" /\ m.ok => Inserted(m.user)}

Known ==
  /\ line \in [Client -> Seq(Good)]
  /\ down \in [Client -> Seq(GoodAnswers)]
  /\ \A c \in Client : user[c] # NoUser => Inserted(user[c]) /\ formName[c] \in UserName

StagedAll == \A c \in Client : Staged(c)

BaseInv == TypeOK /\ UsernamesOnce /\ StagedAll /\ Known

(* Rows stay. *)
Grows == \A u \in User : Inserted(u) => Inserted(u)'

-----------------------------------------------------------------------------
(* What a worker's step does to its queue. *)

LEMMA SentOver ==
  ASSUME NEW s \in ProfileForms, NEW x \in Row
  PROVE s ++ [f \in Columns |-> x[f]] \in Written
<1> DEFINE now == [f \in Columns |-> x[f]]
<1> DEFINE w == s ++ now
<1>1. /\ now["username"] \in UserName /\ now["email"] \in Email \cup {NoEmail}
      /\ DOMAIN now = Columns
  BY RowFields DEF Columns
<1> HIDE DEF now
<1>2. w = [f \in Columns |-> IF f \in DOMAIN s THEN s[f] ELSE now[f]]
  BY <1>1, ProfileFields DEF ++
<1>3. /\ "username" \in DOMAIN s => s["username"] \in UserName
      /\ "email" \in DOMAIN s => s["email"] \in Email
  BY ProfileFields
<1>4. w["username"] \in UserName /\ w["email"] \in Email \cup {NoEmail}
  BY <1>1, <1>2, <1>3 DEF Columns
<1>5. w \in [Columns -> UserName \cup Email \cup {NoEmail}]
  <2>1. w = [f \in Columns |-> w[f]]
    BY <1>2
  <2>2. \A f \in Columns : w[f] \in UserName \cup Email \cup {NoEmail}
    BY <1>4 DEF Columns
  <2>3. QED
    BY <2>1, <2>2
<1> HIDE DEF w
<1>6. w \in Written
  BY <1>4, <1>5 DEF Written
<1>7. QED
  BY <1>6 DEF w, now

LEMMA FreshStage ==
  ASSUME NEW d \in Client, stage'[d] = "look", job'[d] = NoJob
  PROVE Staged(d)'
BY DEF Staged

LEMMA SameStage ==
  ASSUME NEW d \in Client, Staged(d), stage'[d] = stage[d], job'[d] = job[d],
         \/ line'[d] = line[d]
         \/ line[d] # <<>> /\ line'[d] # <<>> /\ Head(line'[d]) = Head(line[d])
         \/ line[d] = <<>>
  PROVE Staged(d)'
<1>1. CASE line[d] = <<>>
  BY <1>1, FreshStage DEF Staged
<1>2. CASE line[d] # <<>>
  BY <1>2 DEF Staged
<1>3. QED
  BY <1>1, <1>2

LEMMA Answered ==
  ASSUME Queues, NEW c \in Client, NEW ok, NEW more, Answer(c, ok, more)
  PROVE /\ Staged(c)'
        /\ line'[c] = Tail(line[c])
        /\ \A d \in Client \ {c} : /\ line'[d] = line[d] /\ stage'[d] = stage[d]
                                   /\ job'[d] = job[d] /\ down'[d] = down[d]
BY FreshStage DEF Answer, Queues

LEMMA WentOn ==
  ASSUME Queues, NEW c \in Client, NEW st, NEW read, GoOn(c, st, read)
  PROVE /\ line' = line /\ down' = down /\ stage'[c] = st /\ job'[c] = read
        /\ \A d \in Client \ {c} : stage'[d] = stage[d] /\ job'[d] = job[d]
BY DEF GoOn, Queues

LEMMA OwnStep ==
  ASSUME BaseInv, NEW c \in Client, Work(c)
  PROVE Queues' /\ Staged(c)'
<1> DEFINE r == Head(line[c])
<1>0. Queues /\ Staged(c) /\ \A u \in User : Inserted(u) => row[u] \in Row
  BY TypeParts DEF BaseInv, StagedAll, Rows, Inserted
<1>1. line[c] # <<>>
  BY DEF Work, Login, RegisterLook, Register, ResetLook, Reset, ChangeLook, ChangePassword,
         ReadProfile, CheckName, CheckEmail, UpdateProfile, SetFavoriteGenres,
         SetFirstLoginFalse, StatementFails, Takes
<1>2. r \in Request /\ (r.type \in {"CHANGE", "UPDATE"} => Inserted(r.user))
  <2>1. line[c] \in Seq(Good)
    BY DEF BaseInv, Known
  <2>2. r \in Good
    BY <1>1, <2>1, TailSeq
  <2>3. QED
    BY <2>2 DEF Good
<1> HIDE DEF r
<1>3. ASSUME \/ Fail(c)
             \/ Answer(c, TRUE, <<>>) /\ r.type # "LOGIN"
      PROVE Queues' /\ Staged(c)'
  <2>1. Queues'
    BY <1>0, <1>1, <1>3, FailQueues, PlainQueues DEF r
  <2>2. QED
    BY <1>0, <1>3, <2>1, Answered DEF Fail
<1>4. CASE Login(c)
  <2>1. r \in LoginRequest /\ r.type = "LOGIN"
    BY <1>2, <1>4, RequestFields DEF Login, Takes, r
  <2>2. CASE \E u \in User : Inserted(u) /\ Answer(c, TRUE, [user |-> u, first |-> row[u].firstLogin])
    <3>1. PICK u \in User :
            Inserted(u) /\ Answer(c, TRUE, [user |-> u, first |-> row[u].firstLogin])
      BY <2>2
    <3>2. row[u].firstLogin \in BOOLEAN
      BY <1>0, <3>1, RowFields
    <3>3. [user |-> u, first |-> row[u].firstLogin] ++ [type |-> r.type, ok |-> TRUE, to |-> r]
            \in Response
      BY <2>1, <3>2, LoginAnswer
    <3>4. Queues'
      BY <1>0, <1>1, <3>1, <3>3, AnswerQueues DEF r
    <3>5. QED
      BY <1>0, <3>1, <3>4, Answered
  <2>3. QED
    BY <1>3, <1>4, <2>2 DEF Login, Named
<1>5. CASE RegisterLook(c)
  <2>1. CASE GoOn(c, "write", NoJob)
    <3>1. Queues'
      BY <1>0, <2>1, GoOnQueues
    <3>2. r.type = "REGISTER"
      BY <1>5 DEF RegisterLook, Takes, r
    <3>3. QED
      BY <1>0, <1>1, <2>1, <3>1, <3>2, WentOn DEF Staged, r
  <2>2. QED
    BY <1>3, <1>5, <2>1 DEF RegisterLook
<1>6. CASE ResetLook(c)
  <2> DEFINE read == [user |-> r.answer, knew |-> TRUE]
  <2>0. r.type = "RESET"
    BY <1>6 DEF ResetLook, Takes, r
  <2>1. CASE GoOn(c, "write", read)
    <3>1. read \in Job
      BY <1>2, <2>0, RequestFields DEF Job
    <3>2. Queues'
      BY <1>0, <2>1, <3>1, GoOnQueues
    <3>3. line'[c] # <<>> /\ Head(line'[c]) = r /\ stage'[c] = "write" /\ job'[c] = read
      BY <1>0, <1>1, <2>1, WentOn DEF r
    <3>4. Staged(c)'
      BY <2>0, <3>3 DEF Staged
    <3>5. QED
      BY <3>2, <3>4
  <2>2. QED
    BY <1>3, <1>6, <2>1 DEF ResetLook, r
<1>7. CASE ChangeLook(c)
  <2> DEFINE read == [user |-> r.user, knew |-> TRUE]
  <2>0. r.type = "CHANGE"
    BY <1>7 DEF ChangeLook, Takes, r
  <2>1. CASE GoOn(c, "write", read)
    <3>1. read \in Job
      BY <1>2, <2>0, RequestFields DEF Job
    <3>2. Queues'
      BY <1>0, <2>1, <3>1, GoOnQueues
    <3>3. line'[c] # <<>> /\ Head(line'[c]) = r /\ stage'[c] = "write" /\ job'[c] = read
      BY <1>0, <1>1, <2>1, WentOn DEF r
    <3>4. Staged(c)'
      BY <2>0, <3>3 DEF Staged
    <3>5. QED
      BY <3>2, <3>4
  <2>2. Fail(c) \/ GoOn(c, "write", read)
    <3>1. row[r.user].password = r.old <=> (row[r.user].password = r.old) = TRUE
      OBVIOUS
    <3>2. QED
      BY <1>7, <3>1 DEF ChangeLook, r
  <2>3. QED
    BY <1>3, <2>1, <2>2
<1>8. ASSUME NEW st \in {"name", "email", "write"}, NEW read \in ProfileJob,
             GoOn(c, st, read), r.type = "UPDATE"
      PROVE Queues' /\ Staged(c)'
  <2>1. read \in Job
    BY JobFields DEF ProfileJob
  <2>2. Queues'
    BY <1>0, <1>8, <2>1, GoOnQueues
  <2>3. Staged(c)'
    BY <1>0, <1>1, <1>8, WentOn DEF Staged, r
  <2>4. QED
    BY <2>2, <2>3
<1>9. CASE ReadProfile(c)
  <2> DEFINE now == [f \in Columns |-> row[r.user][f]]
  <2> DEFINE asked == {f \in DOMAIN r.sent : r.sent[f] # now[f]}
  <2>1. r.type = "UPDATE" /\ GoOn(c, "name", [write |-> r.sent ++ now, asked |-> asked])
    BY <1>9 DEF ReadProfile, Takes, r
  <2>2. r.user \in User /\ r.sent \in ProfileForms /\ row[r.user] \in Row
    BY <1>0, <1>2, <2>1, RequestFields
  <2>3. r.sent ++ now \in Written
    BY <2>2, SentOver
  <2>4. asked \subseteq Columns
    BY <2>2, ProfileFields
  <2> HIDE DEF asked, now
  <2>5. [write |-> r.sent ++ now, asked |-> asked] \in ProfileJob
    BY <2>3, <2>4 DEF ProfileJob
  <2>6. QED
    BY <1>8, <2>1, <2>5
<1>10. CASE CheckName(c)
  <2>1. r.type = "UPDATE" /\ stage[c] = IF r.user \in Publisher THEN "name" ELSE "look"
    BY <1>1, <1>10 DEF CheckName, Takes, r
  <2>2. Prepared(c) \in ProfileJob
    <3>1. CASE r.user \in Publisher
      BY <1>0, <1>1, <2>1, <3>1 DEF Staged, Prepared, r
    <3>2. CASE r.user \notin Publisher
      <4>1. r.sent \in Written /\ DOMAIN r.sent \subseteq Columns
        BY <1>2, <2>1, RequestFields, ProfileFields
      <4>2. Prepared(c) = [write |-> r.sent, asked |-> DOMAIN r.sent]
        BY <3>2 DEF Prepared, r
      <4>3. QED
        BY <4>1, <4>2 DEF ProfileJob
    <3>3. QED
      BY <3>1, <3>2
  <2>3. Fail(c) \/ GoOn(c, "email", Prepared(c))
    BY <1>10 DEF CheckName
  <2>4. QED
    BY <1>3, <1>8, <2>1, <2>2, <2>3
<1>11. CASE CheckEmail(c)
  <2>1. r.type = "UPDATE" /\ stage[c] = "email" /\ (Fail(c) \/ GoOn(c, "write", job[c]))
    BY <1>11 DEF CheckEmail, Takes, r
  <2>2. job[c] \in ProfileJob
    BY <1>0, <1>1, <2>1 DEF Staged, r
  <2>3. QED
    BY <1>3, <1>8, <2>1, <2>2
<1>12. CASE SetFavoriteGenres(c)
  <2> DEFINE S == Named(r.name)
  <2>1. r.type = "GENRES" /\ GoOn(c, "first", [saved |-> S])
    BY <1>12 DEF SetFavoriteGenres, Takes, r
  <2>2. [saved |-> S] \in [saved : SUBSET User]
    BY DEF Named
  <2>3. Queues'
    BY <1>0, <2>1, <2>2, GoOnQueues DEF Job
  <2>4. Staged(c)'
    BY <1>0, <1>1, <2>1, <2>2, WentOn DEF Staged, r
  <2>5. QED
    BY <2>3, <2>4
<1>13. CASE StatementFails(c)
  <2>1. Fail(c) \/ (stage[c] = "first" /\ Answer(c, TRUE, <<>>))
    BY <1>13 DEF StatementFails
  <2>2. stage[c] = "first" => r.type = "GENRES"
    BY <1>0, <1>1 DEF Staged, r
  <2>3. QED
    BY <1>3, <2>1, <2>2
<1>14. CASE Register(c) \/ Reset(c) \/ ChangePassword(c) \/ UpdateProfile(c) \/ SetFirstLoginFalse(c)
  <2>1. r.type # "LOGIN"
    BY <1>14 DEF Register, Reset, ChangePassword, UpdateProfile, SetFirstLoginFalse, Takes, r
  <2>2. Fail(c) \/ Answer(c, TRUE, <<>>)
    BY <1>14 DEF Register, Reset, ChangePassword, UpdateProfile, SetFirstLoginFalse
  <2>3. QED
    BY <1>3, <2>1, <2>2
<1>15. QED
  BY <1>4, <1>5, <1>6, <1>7, <1>9, <1>10, <1>11, <1>12, <1>13, <1>14 DEF Work

-----------------------------------------------------------------------------
(* What the actions do to the rows. *)

(* The rows are all right, and nobody's goes. *)
RowsGrow == Rows' /\ Grows

LEMMA RowsStay ==
  ASSUME Rows, row' = row
  PROVE RowsGrow
<1>1. \A n : Named(n)' = Named(n)
  BY DEF Named, Inserted
<1>2. QED
  BY <1>1 DEF RowsGrow, Rows, Grows, Inserted

(* One column of some rows is written, other than the username. *)
LEMMA ColumnWritten ==
  ASSUME Rows, row' \in [User -> Row \cup {NoRow}],
         \A u \in User : \/ row'[u] = row[u]
                         \/ /\ Inserted(u) /\ row'[u] \in Row
                            /\ row'[u].username = row[u].username
                            /\ row'[u].deleted => row'[u].blocked
  PROVE RowsGrow
<1>1. \A u \in User : Inserted(u)' <=> Inserted(u)
  BY RowFields DEF Inserted
<1>2. \A u \in User : Inserted(u) => /\ row'[u].username = row[u].username
                                     /\ row'[u].deleted => row'[u].blocked
  BY DEF Rows
<1>3. Rows'
  BY <1>1, <1>2, SameNames
<1>4. QED
  BY <1>1, <1>3 DEF RowsGrow, Grows

LEMMA PasswordWritten ==
  ASSUME NEW x \in Row, NEW p \in Password
  PROVE LET y == [x EXCEPT !.password = p]
        IN  /\ y \in Row /\ y.username = x.username /\ y.deleted = x.deleted
            /\ y.blocked = x.blocked /\ y.email = x.email /\ y.firstLogin = x.firstLogin
            /\ y.genres = x.genres /\ y.password = p
BY DEF Row

LEMMA FlagWritten ==
  ASSUME NEW x \in Row, NEW f \in {"genres", "firstLogin"}, NEW v \in BOOLEAN
  PROVE LET y == [x EXCEPT ![f] = v]
        IN  /\ y \in Row /\ y.username = x.username /\ y.deleted = x.deleted
            /\ y.blocked = x.blocked /\ y.email = x.email /\ y.password = x.password
            /\ f = "genres" => y.genres = v /\ y.firstLogin = x.firstLogin
            /\ f = "firstLogin" => y.firstLogin = v /\ y.genres = x.genres
BY DEF Row

LEMMA StateWritten ==
  ASSUME NEW x \in Row, NEW v \in BOOLEAN
  PROVE /\ LET y == [x EXCEPT !.blocked = v]
           IN  /\ y \in Row /\ y.username = x.username /\ y.deleted = x.deleted
               /\ y.email = x.email /\ y.password = x.password
               /\ y.firstLogin = x.firstLogin /\ y.genres = x.genres
        /\ LET y == [x EXCEPT !.deleted = TRUE, !.blocked = TRUE]
           IN  /\ y \in Row /\ y.username = x.username /\ y.blocked = TRUE
               /\ y.email = x.email /\ y.password = x.password
               /\ y.firstLogin = x.firstLogin /\ y.genres = x.genres
BY DEF Row

(* The request in work. *)
LEMMA InWork ==
  ASSUME BaseInv, NEW c \in Client, Work(c)
  PROVE /\ line[c] # <<>> /\ Head(line[c]) \in Request /\ Staged(c)
        /\ Head(line[c]).type \in {"CHANGE", "UPDATE"} => Inserted(Head(line[c]).user)
        /\ Rows /\ Queues /\ Pages /\ Marks
        /\ \A u \in User : Inserted(u) => row[u] \in Row
<1>1. Rows /\ Queues /\ Pages /\ Marks /\ Staged(c)
  BY TypeParts DEF BaseInv, StagedAll
<1>2. line[c] # <<>>
  BY DEF Work, Login, RegisterLook, Register, ResetLook, Reset, ChangeLook, ChangePassword,
         ReadProfile, CheckName, CheckEmail, UpdateProfile, SetFavoriteGenres,
         SetFirstLoginFalse, StatementFails, Takes
<1>3. line[c] \in Seq(Good)
  BY DEF BaseInv, Known
<1>4. Head(line[c]) \in Good
  BY <1>2, <1>3, TailSeq
<1>5. QED
  BY <1>1, <1>2, <1>4 DEF Good, Rows, Inserted

LEMMA RowStep ==
  ASSUME BaseInv, NEW c \in Client, Work(c)
  PROVE RowsGrow
<1> DEFINE r == Head(line[c])
<1>1. /\ line[c] # <<>> /\ r \in Request /\ Staged(c)
      /\ r.type \in {"CHANGE", "UPDATE"} => Inserted(r.user)
      /\ Rows
      /\ \A u \in User : Inserted(u) => row[u] \in Row
  BY InWork
<1> HIDE DEF r
<1>2. row \in [User -> Row \cup {NoRow}]
  BY <1>1 DEF Rows
<1>3. CASE UNCHANGED row
  BY <1>1, <1>3, RowsStay
<1>4. CASE Register(c)
  <2>1. CASE Named(r.name) = {} /\ InsertUser(r)
    <3>1. r.name \in UserName /\ r.pass \in Password
      BY <1>1, <1>4, RequestFields DEF Register, Takes, r
    <3> DEFINE x == NewRow(r.name, r.pass)
    <3>2. x \in Row /\ x.username = r.name /\ x.deleted = FALSE
      BY <3>1, NewRowOK DEF NewRow
    <3>3. PICK u \in User : row' = [row EXCEPT ![u] = x]
      BY <2>1 DEF InsertUser
    <3> HIDE DEF x
    <3>4. Rows'
      BY <1>1, <2>1, <3>2, <3>3, FreeName
    <3>5. Grows
      BY <1>2, <3>2, <3>3, RowFields DEF Grows, Inserted
    <3>6. QED
      BY <3>4, <3>5 DEF RowsGrow
  <2>2. QED
    BY <1>3, <1>4, <2>1 DEF Register, r
<1>5. CASE Reset(c)
  <2>1. r.new \in Password
    BY <1>1, <1>5, RequestFields DEF Reset, Takes, r
  <2>2. row' = [u \in User |-> IF u \in Named(r.name) THEN [row[u] EXCEPT !.password = r.new]
                               ELSE row[u]]
    BY <1>5 DEF Reset, r
  <2>3. ASSUME NEW u \in User
        PROVE /\ row'[u] \in Row \cup {NoRow}
              /\ \/ row'[u] = row[u]
                 \/ /\ Inserted(u) /\ row'[u] \in Row
                    /\ row'[u].username = row[u].username
                    /\ row'[u].deleted => row'[u].blocked
    <3>1. CASE u \in Named(r.name)
      <4>1. Inserted(u) /\ row[u] \in Row /\ (row[u].deleted => row[u].blocked)
        BY <1>1, <3>1 DEF Named, Rows
      <4>2. row'[u] = [row[u] EXCEPT !.password = r.new]
        BY <2>2, <3>1
      <4>3. QED
        BY <2>1, <4>1, <4>2, PasswordWritten
    <3>2. CASE u \notin Named(r.name)
      BY <1>2, <2>2, <3>2
    <3>3. QED
      BY <3>1, <3>2
  <2>4. row' \in [User -> Row \cup {NoRow}]
    BY <2>2, <2>3
  <2>5. QED
    BY <1>1, <2>3, <2>4, ColumnWritten
<1>6. CASE ChangePassword(c)
  <2>1. /\ r.type = "CHANGE" /\ row' = [row EXCEPT ![r.user].password = r.new]
        /\ r.new \in Password /\ r.user \in User
    BY <1>1, <1>6, RequestFields DEF ChangePassword, Takes, r
  <2>2. /\ Inserted(r.user) /\ row[r.user] \in Row
        /\ row[r.user].deleted => row[r.user].blocked
    BY <1>1, <2>1 DEF Rows
  <2> DEFINE x == [row[r.user] EXCEPT !.password = r.new]
  <2>3. /\ x \in Row /\ x.username = row[r.user].username
        /\ x.deleted => x.blocked
    BY <2>1, <2>2, PasswordWritten
  <2>4. row' = [row EXCEPT ![r.user] = x]
    BY <2>1
  <2> HIDE DEF x
  <2>5. row' \in [User -> Row \cup {NoRow}]
    BY <1>2, <2>3, <2>4
  <2>6. QED
    BY <1>1, <1>2, <2>1, <2>2, <2>3, <2>4, <2>5, ColumnWritten
<1>7. CASE UpdateProfile(c)
  <2>1. CASE Named((job[c].write ++ row[r.user]).username) \ {r.user} = {}
    <3> DEFINE x == job[c].write ++ row[r.user]
    <3>1. /\ r.type = "UPDATE" /\ stage[c] = "write" /\ r.user \in User
          /\ row' = [row EXCEPT ![r.user] = x]
      BY <1>1, <1>7, <2>1, RequestFields DEF UpdateProfile, Takes, r
    <3>2. /\ Inserted(r.user) /\ row[r.user] \in Row
          /\ row[r.user].deleted => row[r.user].blocked
      BY <1>1, <3>1 DEF Rows
    <3>3. job[c].write \in Written
      BY <1>1, <3>1, JobFields DEF Staged, ProfileJob, r
    <3>4. x \in Row /\ (x.deleted => x.blocked)
      BY <3>2, <3>3, WriteOver
    <3>5. Named(x.username) \subseteq {r.user}
      BY <2>1
    <3> HIDE DEF x
    <3>6. Rows'
      BY <1>1, <3>1, <3>4, <3>5, FreeName
    <3>7. Grows
      BY <1>2, <3>1, <3>4, RowFields DEF Grows, Inserted
    <3>8. QED
      BY <3>6, <3>7 DEF RowsGrow
  <2>2. QED
    BY <1>3, <1>7, <2>1 DEF UpdateProfile, r
<1>8. CASE SetFavoriteGenres(c) \/ SetFirstLoginFalse(c)
  <2>1. PICK f \in {"genres", "firstLogin"}, v \in BOOLEAN :
          row' = [u \in User |-> IF u \in Named(r.name) THEN [row[u] EXCEPT ![f] = v] ELSE row[u]]
    BY <1>8 DEF SetFavoriteGenres, SetFirstLoginFalse, r
  <2>2. ASSUME NEW u \in User
        PROVE /\ row'[u] \in Row \cup {NoRow}
              /\ \/ row'[u] = row[u]
                 \/ /\ Inserted(u) /\ row'[u] \in Row
                    /\ row'[u].username = row[u].username
                    /\ row'[u].deleted => row'[u].blocked
    <3>1. CASE u \in Named(r.name)
      <4>1. Inserted(u) /\ row[u] \in Row /\ (row[u].deleted => row[u].blocked)
        BY <1>1, <3>1 DEF Named, Rows
      <4>2. row'[u] = [row[u] EXCEPT ![f] = v]
        BY <2>1, <3>1
      <4>3. QED
        BY <4>1, <4>2, FlagWritten
    <3>2. CASE u \notin Named(r.name)
      BY <1>2, <2>1, <3>2
    <3>3. QED
      BY <3>1, <3>2
  <2>3. row' \in [User -> Row \cup {NoRow}]
    BY <2>1, <2>2
  <2>4. QED
    BY <1>1, <2>2, <2>3, ColumnWritten
<1>9. CASE \/ Login(c) \/ RegisterLook(c) \/ ResetLook(c) \/ ChangeLook(c) \/ ReadProfile(c)
           \/ CheckName(c) \/ CheckEmail(c) \/ StatementFails(c)
  <2>1. UNCHANGED row
    BY <1>9 DEF Login, RegisterLook, ResetLook, ChangeLook, ReadProfile, CheckName, CheckEmail,
       StatementFails, Looked, LookedAgain, tables
  <2>2. QED
    BY <1>3, <2>1
<1>10. QED
  BY <1>4, <1>5, <1>6, <1>7, <1>8, <1>9 DEF Work

LEMMA MarkStep ==
  ASSUME BaseInv, NEW c \in Client, Work(c)
  PROVE UNCHANGED pages /\ Marks'
<1> DEFINE r == Head(line[c])
<1>1. Marks /\ Rows /\ Staged(c) /\ line[c] # <<>> /\ r \in Request
  BY InWork
<1> HIDE DEF r
<1>2. \A n : Named(n) \subseteq User
  BY DEF Named
<1>3. CASE \/ Looked(c) \/ LookedAgain
           \/ UNCHANGED <<pages, acts, crashes, late, raced, torn, renamed>>
  BY <1>1, <1>3 DEF Marks, Looked, LookedAgain
<1>4. stage[c] = "first" => job[c].saved \subseteq User
  BY <1>1 DEF Staged, r
<1>5. CASE Register(c) \/ Reset(c) \/ ChangePassword(c)
  BY <1>1, <1>5, WroteMarks DEF Register, Reset, ChangePassword, Marks, Wrote
<1>6. CASE UpdateProfile(c)
  <2> DEFINE x == job[c].write ++ row[r.user]
  <2>1. r.type = "UPDATE" /\ stage[c] = "write" /\ r.user \in User /\ Wrote(c) /\ UNCHANGED torn
    BY <1>1, <1>6, RequestFields DEF UpdateProfile, Takes, r
  <2>2. x.email \in Email \cup {NoEmail}
    <3>1. job[c].write \in Written
      BY <1>1, <2>1, JobFields DEF Staged, ProfileJob, r
    <3>2. row[r.user] \in Row
      BY <2>1, InWork DEF r
    <3>3. QED
      BY <3>1, <3>2, WriteOver, RowFields
  <2>3. raced' \subseteq raced \cup {x.email}
    BY <1>6 DEF UpdateProfile, r
  <2> HIDE DEF x
  <2>4. raced' \subseteq Email \cup {NoEmail}
    BY <1>1, <2>2, <2>3 DEF Marks
  <2>5. renamed' \subseteq User
    BY <1>1, <1>6, <2>1 DEF UpdateProfile, Marks, r
  <2>6. QED
    BY <1>1, <2>1, <2>4, <2>5, WroteMarks DEF Marks, Wrote
<1>7. CASE SetFavoriteGenres(c)
  BY <1>1, <1>7 DEF SetFavoriteGenres, Marks
<1>8. CASE SetFirstLoginFalse(c)
  <2>1. torn' \subseteq User
    BY <1>1, <1>2, <1>4, <1>8 DEF SetFirstLoginFalse, Takes, Marks
  <2>2. QED
    BY <1>1, <1>8, <2>1, WroteMarks DEF SetFirstLoginFalse, Marks, Wrote
<1>9. CASE StatementFails(c)
  <2>1. torn' \subseteq User
    BY <1>1, <1>4, <1>9 DEF StatementFails, Marks
  <2>2. QED
    BY <1>1, <1>9, <2>1 DEF StatementFails, Marks
<1>10. CASE \/ Login(c) \/ RegisterLook(c) \/ ResetLook(c) \/ ChangeLook(c) \/ ReadProfile(c)
            \/ CheckName(c) \/ CheckEmail(c)
  <2>1. \/ Looked(c) \/ LookedAgain
        \/ UNCHANGED <<pages, acts, crashes, late, raced, torn, renamed>>
    BY <1>10 DEF Login, RegisterLook, ResetLook, ChangeLook, ReadProfile, CheckName, CheckEmail
  <2>2. QED
    BY <1>3, <2>1
<1>11. QED
  BY <1>5, <1>6, <1>7, <1>8, <1>9, <1>10 DEF Work

LEMMA OthersStay ==
  ASSUME BaseInv, NEW c \in Client, Work(c), NEW d \in Client \ {c}
  PROVE line'[d] = line[d] /\ stage'[d] = stage[d] /\ job'[d] = job[d] /\ down'[d] = down[d]
<1>1. Queues
  BY InWork
<1>2. CASE \E ok, more : Answer(c, ok, more)
  BY <1>1, <1>2, Answered
<1>3. CASE \E st, read : GoOn(c, st, read)
  BY <1>1, <1>3, WentOn
<1>4. QED
  BY <1>2, <1>3 DEF Work, Login, RegisterLook, Register, ResetLook, Reset, ChangeLook,
     ChangePassword, ReadProfile, CheckName, CheckEmail, UpdateProfile, SetFavoriteGenres,
     SetFirstLoginFalse, StatementFails, Fail

(* Who is told that the login went well has the name it was made with. *)
TrueAnswers ==
  {m \in Response : m.type = "LOGIN" /\ m.ok => m.user \in Named(m.to.name)}

(* What a worker's step does to the lines of requests and answers. *)
LEMMA LinesStep ==
  ASSUME BaseInv, NEW c \in Client, Work(c)
  PROVE /\ line[c] # <<>> /\ Queues /\ Queues'
        /\ \A d \in Client : line'[d] = line[d] \/ (d = c /\ line'[d] = Tail(line[d]))
        /\ \A d \in Client : \/ down'[d] = down[d]
                             \/ \E m \in TrueAnswers : d = c /\ down'[d] = Append(down[d], m)
<1>1. line[c] # <<>> /\ Queues /\ Queues'
  BY InWork, OwnStep
<1>2. /\ \A d \in Client : line'[d] = line[d] \/ (d = c /\ line'[d] = Tail(line[d]))
      /\ \A d \in Client : \/ down'[d] = down[d]
                           \/ \E m \in TrueAnswers : d = c /\ down'[d] = Append(down[d], m)
  <2>1. CASE \E st, read : GoOn(c, st, read)
    BY <1>1, <2>1, WentOn
  <2>2. ASSUME NEW ok \in BOOLEAN, NEW more, Answer(c, ok, more),
               more ++ [type |-> Head(line[c]).type, ok |-> ok, to |-> Head(line[c])]
                 \in TrueAnswers
        PROVE /\ \A d \in Client : line'[d] = line[d] \/ (d = c /\ line'[d] = Tail(line[d]))
              /\ \A d \in Client : \/ down'[d] = down[d]
                                   \/ \E m \in TrueAnswers : d = c /\ down'[d] = Append(down[d], m)
    BY <1>1, <2>2 DEF Answer, Queues
  <2>3. ASSUME NEW ok \in BOOLEAN, Answer(c, ok, <<>>), Head(line[c]).type = "LOGIN" => ~ok
        PROVE <<>> ++ [type |-> Head(line[c]).type, ok |-> ok, to |-> Head(line[c])] \in TrueAnswers
    <3> DEFINE m == [type |-> Head(line[c]).type, ok |-> ok, to |-> Head(line[c])]
    <3>1. m = [x \in DOMAIN m |-> m[x]]
      OBVIOUS
    <3>2. <<>> ++ m = m
      BY <3>1 DEF ++
    <3>3. <<>> ++ m \in Response
      BY <2>3, InWork, PlainAnswer
    <3>4. ~(m.type = "LOGIN" /\ m.ok)
      BY <2>3
    <3>5. m \in TrueAnswers
      BY <3>2, <3>3, <3>4 DEF TrueAnswers
    <3>6. QED
      BY <3>2, <3>5
  <2>4. CASE Login(c)
    <3>1. CASE Fail(c)
      BY <2>2, <2>3, <3>1 DEF Fail
    <3>2. CASE \E u \in Named(Head(line[c]).name) :
                 Answer(c, TRUE, [user |-> u, first |-> row[u].firstLogin])
      <4>1. PICK u \in Named(Head(line[c]).name) :
              Answer(c, TRUE, [user |-> u, first |-> row[u].firstLogin])
        BY <3>2
      <4> DEFINE r == Head(line[c])
      <4>2. u \in User /\ r \in LoginRequest /\ row[u].firstLogin \in BOOLEAN
        BY <2>4, <4>1, InWork, RequestFields, RowFields DEF Login, Takes, Named
      <4> DEFINE m == [user |-> u, first |-> row[u].firstLogin]
                        ++ [type |-> r.type, ok |-> TRUE, to |-> r]
      <4>3. m \in Response
        BY <4>2, LoginAnswer
      <4>4. m.user = u /\ m.to = r
        BY DEF ++
      <4>5. m \in TrueAnswers
        BY <4>1, <4>3, <4>4 DEF TrueAnswers
      <4>6. QED
        BY <2>2, <4>1, <4>5
    <3>3. QED
      BY <2>4, <3>1, <3>2 DEF Login
  <2>5. CASE Fail(c)
    BY <2>2, <2>3, <2>5 DEF Fail
  <2>6. CASE Answer(c, TRUE, <<>>) /\ ~Login(c)
    <3>1. Head(line[c]).type # "LOGIN"
      BY <2>6, InWork DEF Work, RegisterLook, Register, ResetLook, Reset, ChangeLook,
         ChangePassword, ReadProfile, CheckName, CheckEmail, UpdateProfile, SetFavoriteGenres,
         SetFirstLoginFalse, StatementFails, Takes, Staged, Fail
    <3>2. QED
      BY <2>2, <2>3, <2>6, <3>1
  <2>7. QED
    BY <2>1, <2>4, <2>5, <2>6 DEF Work, RegisterLook, Register, ResetLook, Reset, ChangeLook,
       ChangePassword, ReadProfile, CheckName, CheckEmail, UpdateProfile, SetFavoriteGenres,
       SetFirstLoginFalse, StatementFails
<1>3. QED
  BY <1>1, <1>2

LEMMA KnownStep ==
  ASSUME BaseInv, NEW c \in Client, Work(c)
  PROVE Known'
<1>1. line[c] # <<>> /\ Queues /\ Queues' /\ Grows /\ UNCHANGED pages
  BY LinesStep, RowStep, MarkStep DEF RowsGrow
<1>2. Good \subseteq Good' /\ GoodAnswers \subseteq GoodAnswers'
  BY <1>1, RequestFields, ResponseFields DEF Good, GoodAnswers, Grows
<1>3. TrueAnswers \subseteq GoodAnswers
  BY DEF TrueAnswers, GoodAnswers, Named
<1>4. /\ \A d \in Client : line'[d] = line[d] \/ (d = c /\ line'[d] = Tail(line[d]))
      /\ \A d \in Client : \/ down'[d] = down[d]
                           \/ \E m \in GoodAnswers : d = c /\ down'[d] = Append(down[d], m)
  BY <1>3, LinesStep
<1>5. ASSUME NEW d \in Client PROVE line'[d] \in Seq(Good') /\ down'[d] \in Seq(GoodAnswers')
  <2>1. line[d] \in Seq(Good) /\ down[d] \in Seq(GoodAnswers)
    BY DEF BaseInv, Known
  <2>2. line'[d] \in Seq(Good)
    <3>1. CASE line'[d] = line[d]
      BY <2>1, <3>1
    <3>2. CASE d = c /\ line'[d] = Tail(line[d])
      <4>1. line[d] # <<>>
        BY <1>1, <3>2
      <4>2. Tail(line[d]) \in Seq(Good)
        BY <2>1, <4>1, TailSeq
      <4>3. QED
        BY <3>2, <4>2
    <3>3. QED
      BY <1>4, <3>1, <3>2
  <2>3. down'[d] \in Seq(GoodAnswers)
    <3>1. CASE down'[d] = down[d]
      BY <2>1, <3>1
    <3>2. ASSUME NEW m \in GoodAnswers, down'[d] = Append(down[d], m)
          PROVE down'[d] \in Seq(GoodAnswers)
      <4>1. Append(down[d], m) \in Seq(GoodAnswers)
        BY <2>1, AppendSeq
      <4>2. QED
        BY <3>2, <4>1
    <3>3. QED
      BY <1>4, <3>1, <3>2
  <2>4. QED
    BY <1>2, <2>2, <2>3, SeqOfMore
<1>6. line' = [d \in Client |-> line'[d]] /\ down' = [d \in Client |-> down'[d]]
  BY <1>1 DEF Queues
<1>7. line' \in [Client -> Seq(Good')] /\ down' \in [Client -> Seq(GoodAnswers')]
  BY <1>5, <1>6
<1>8. \A d \in Client : user'[d] # NoUser => Inserted(user[d])' /\ formName'[d] \in UserName
  BY <1>1 DEF BaseInv, Known, TypeOK, Grows, pages, Inserted
<1>9. QED
  BY <1>7, <1>8 DEF Known, Inserted

-----------------------------------------------------------------------------
(* The clients, the administrator, a crash. *)

LEMMA ProfileSent ==
  ASSUME NEW c \in Client, SubmitForm(c), BaseInv
  PROVE \E r \in Good : Submit(c, r) /\ (r.type = "GENRES" => SubmitGenres(c))
<1>1. \A n \in UserName, p \in Password : [type |-> "LOGIN", name |-> n, pass |-> p] \in Request
  BY DEF Request, LoginRequest
<1>2. FirstPass \in Password
  BY DataAssumption
<1>3. CASE \E n \in UserName, p \in Password : SubmitLogin(c, n, p)
  BY <1>1, <1>3 DEF SubmitLogin, Good
<1>4. CASE \E n \in UserName, b \in BOOLEAN : SubmitRegister(c, n, b)
  <2>1. PICK n \in UserName, b \in BOOLEAN : SubmitRegister(c, n, b)
    BY <1>4
  <2>2. [type |-> "REGISTER", name |-> n, pass |-> FirstPass, publisher |-> b] \in Request
    BY <1>2 DEF Request
  <2>3. QED
    BY <2>1, <2>2 DEF SubmitRegister, Good
<1>5. CASE \E n \in UserName, u \in User, p \in Password : SubmitReset(c, n, u, p)
  <2>1. PICK n \in UserName, u \in User, p \in Password : SubmitReset(c, n, u, p)
    BY <1>5
  <2>2. [type |-> "RESET", name |-> n, answer |-> u, new |-> p] \in Request
    BY DEF Request
  <2>3. QED
    BY <2>1, <2>2 DEF SubmitReset, Good
<1>6. CASE \E p, q \in Password : SubmitPassword(c, p, q)
  <2>1. PICK p \in Password, q \in Password : SubmitPassword(c, p, q)
    BY <1>6
  <2>2. user[c] \in User /\ Inserted(user[c])
    BY <2>1 DEF SubmitPassword, BaseInv, TypeOK, Known
  <2>3. [type |-> "CHANGE", user |-> user[c], old |-> p, new |-> q] \in Request
    BY <2>2 DEF Request
  <2>4. QED
    BY <2>1, <2>2, <2>3 DEF SubmitPassword, Good
<1>7. CASE \E sent \in ProfileForms : SubmitProfile(c, sent)
  <2>1. PICK sent \in ProfileForms : SubmitProfile(c, sent)
    BY <1>7
  <2>2. user[c] \in User /\ Inserted(user[c])
    BY <2>1 DEF SubmitProfile, BaseInv, TypeOK, Known
  <2>3. [type |-> "UPDATE", user |-> user[c], sent |-> sent] \in Request
    BY <2>2 DEF Request
  <2>4. QED
    BY <2>1, <2>2, <2>3 DEF SubmitProfile, Good
<1>8. CASE SubmitGenres(c)
  <2>1. formName[c] \in UserName /\ user[c] \in User
    BY <1>8, UserAssumption DEF SubmitGenres, BaseInv, Known
  <2>2. [type |-> "GENRES", name |-> formName[c], user |-> user[c]] \in Request
    BY <2>1 DEF Request
  <2>3. QED
    BY <1>8, <2>2 DEF SubmitGenres, Good
<1>9. QED
  BY <1>3, <1>4, <1>5, <1>6, <1>7, <1>8 DEF SubmitForm

LEMMA SubmitStep ==
  ASSUME BaseInv, NEW c \in Client, NEW r \in Good, Submit(c, r)
  PROVE BaseInv'
<1>1. line' = [line EXCEPT ![c] = Append(@, r)] /\ acts' = acts + 1
      /\ UNCHANGED <<row, stage, job, down, user, formName, first, crashes, late, raced, torn,
                     renamed>>
  BY DEF Submit, Act, tables, pages
<1>2. line \in [Client -> Seq(Good)] /\ r \in Request
  BY DEF BaseInv, Known, Good
<1>3. Append(line[c], r) \in Seq(Good) /\ Append(line[c], r) # <<>>
      /\ (line[c] # <<>> => Head(Append(line[c], r)) = Head(line[c]))
  BY <1>2, AppendSeq
<1>4. line' \in [Client -> Seq(Good)]
  BY <1>1, <1>2, <1>3
<1>5. Good' = Good /\ GoodAnswers' = GoodAnswers
  BY <1>1 DEF Good, GoodAnswers, Inserted
<1>6. Known'
  BY <1>1, <1>4, <1>5 DEF Known, BaseInv, Inserted
<1>7. ASSUME NEW d \in Client PROVE Staged(d)'
  <2>1. \/ line'[d] = line[d]
        \/ line[d] # <<>> /\ line'[d] # <<>> /\ Head(line'[d]) = Head(line[d])
        \/ line[d] = <<>>
    BY <1>1, <1>2, <1>3
  <2>2. Staged(d)
    BY DEF BaseInv, StagedAll
  <2>3. QED
    BY <1>1, <2>1, <2>2, SameStage
<1>8. line' \in [Client -> Seq(Request)]
  <2>1. \A d \in Client : line'[d] \in Seq(Request)
    BY <1>4, SeqOfMore DEF Good
  <2>2. QED
    BY <1>4, <2>1
<1>9. Rows'
  BY <1>1, RowsStay, TypeParts DEF BaseInv, RowsGrow
<1>10. Rows /\ Queues /\ Pages /\ Marks
  BY TypeParts DEF BaseInv
<1>11. Queues'
  BY <1>1, <1>8, <1>10 DEF Queues
<1>12. Pages'
  BY <1>1, <1>10 DEF Pages
<1>13. acts' \in Nat
  BY <1>1, <1>10 DEF Marks
<1>14. Marks'
  BY <1>1, <1>10, <1>13 DEF Marks
<1>15. TypeOK' /\ UsernamesOnce'
  BY <1>9, <1>11, <1>12, <1>14, TypePartsNext
<1>16. QED
  BY <1>6, <1>7, <1>15 DEF BaseInv, StagedAll

LEMMA ReceiveStep ==
  ASSUME BaseInv, NEW c \in Client, Receive(c)
  PROVE BaseInv'
<1> DEFINE m == Head(down[c])
<1>1. /\ down[c] # <<>> /\ down' = [down EXCEPT ![c] = Tail(@)]
      /\ UNCHANGED <<row, line, stage, job, acts, crashes, late, raced, torn, renamed>>
  BY DEF Receive, tables
<1>2. TypeOK /\ Rows /\ Queues /\ Pages /\ Marks
  BY TypeParts DEF BaseInv
<1>3. m \in GoodAnswers /\ Tail(down[c]) \in Seq(GoodAnswers)
  BY <1>1, TailSeq DEF BaseInv, Known
<1>4. m \in Response /\ Tail(down[c]) \in Seq(Response)
  BY <1>1, <1>2, HeadOK
<1>5. \/ /\ m.type = "LOGIN" /\ m.ok
         /\ user' = [user EXCEPT ![c] = m.user]
         /\ formName' = [formName EXCEPT ![c] = m.to.name]
         /\ first' = [first EXCEPT ![c] = m.first /\ m.user \notin Publisher]
      \/ first' = [first EXCEPT ![c] = FALSE] /\ UNCHANGED <<user, formName>>
      \/ UNCHANGED <<user, formName, first>>
  BY DEF Receive, pages
<1>6. m.type = "LOGIN" /\ m.ok =>
        m.user \in User /\ Inserted(m.user) /\ m.to.name \in UserName
  BY <1>3, <1>4, ResponseFields DEF GoodAnswers
<1> HIDE DEF m
<1>7. Pages'
  <2>1. user' \in [Client -> User \cup {NoUser}] /\ formName' \in [Client -> UserName \cup {""}]
    BY <1>2, <1>5, <1>6 DEF Pages
  <2>2. first' \in [Client -> BOOLEAN]
    <3>1. first' = first \/ \E v \in BOOLEAN : first' = [first EXCEPT ![c] = v]
      BY <1>5
    <3>2. QED
      BY <1>2, <3>1 DEF Pages
  <2>3. QED
    BY <2>1, <2>2 DEF Pages
<1>8. \A d \in Client : user'[d] # NoUser => Inserted(user'[d]) /\ formName'[d] \in UserName
  BY <1>2, <1>5, <1>6 DEF Pages, BaseInv, Known
<1>9. Good' = Good /\ GoodAnswers' = GoodAnswers /\ \A u : Inserted(u)' <=> Inserted(u)
  BY <1>1 DEF Good, GoodAnswers, Inserted
<1>10. down' \in [Client -> Seq(GoodAnswers)] /\ down' \in [Client -> Seq(Response)]
  BY <1>1, <1>2, <1>3, <1>4 DEF BaseInv, Known, Queues
<1>11. Known'
  BY <1>1, <1>8, <1>9, <1>10 DEF Known, BaseInv, Inserted
<1>12. Rows'
  BY <1>1, <1>2, RowsStay DEF RowsGrow
<1>13. TypeOK' /\ UsernamesOnce'
  BY <1>1, <1>2, <1>7, <1>10, <1>12, TypePartsNext DEF Queues, Marks
<1>14. StagedAll'
  BY <1>1, SameStage DEF StagedAll, BaseInv
<1>15. QED
  BY <1>11, <1>13, <1>14 DEF BaseInv

(* Whatever a step changes of the rows only. *)
LEMMA RowsOnly ==
  ASSUME BaseInv, RowsGrow, acts' \in Nat,
         UNCHANGED <<line, stage, job, down, user, formName, first, crashes, late, raced, torn,
                     renamed>>
  PROVE BaseInv'
<1>1. Rows /\ Queues /\ Pages /\ Marks /\ Rows' /\ Grows
  BY TypeParts DEF BaseInv, RowsGrow
<1>2. Queues' /\ Pages'
  BY <1>1 DEF Queues, Pages
<1>3. Marks'
  BY <1>1 DEF Marks
<1>4. TypeOK' /\ UsernamesOnce'
  BY <1>1, <1>2, <1>3, TypePartsNext
<1>5. StagedAll'
  BY SameStage DEF BaseInv, StagedAll
<1>6. Good \subseteq Good' /\ GoodAnswers \subseteq GoodAnswers'
  BY <1>1, RequestFields, ResponseFields DEF Good, GoodAnswers, Grows
<1>7. \A d \in Client : line'[d] \in Seq(Good') /\ down'[d] \in Seq(GoodAnswers')
  BY <1>6, SeqOfMore DEF BaseInv, Known
<1>8. line' \in [Client -> Seq(Good')] /\ down' \in [Client -> Seq(GoodAnswers')]
  BY <1>7 DEF BaseInv, Known
<1>9. \A d \in Client : user'[d] # NoUser => Inserted(user[d])' /\ formName'[d] \in UserName
  BY <1>1 DEF BaseInv, Known, Grows, Pages, Inserted
<1>10. Known'
  BY <1>8, <1>9 DEF Known, Inserted
<1>11. QED
  BY <1>4, <1>5, <1>10 DEF BaseInv

LEMMA AdminStep ==
  ASSUME BaseInv, NEW u \in User,
         DeleteUser(u) \/ \E active \in BOOLEAN : SetUserActiveState(u, active)
  PROVE BaseInv' /\ RowsGrow
<1>1. Rows /\ Marks /\ Inserted(u)
  BY TypeParts DEF BaseInv, DeleteUser, SetUserActiveState
<1>2. row[u] \in Row /\ row \in [User -> Row \cup {NoRow}]
  BY <1>1 DEF Rows, Inserted
<1>3. PICK x \in Row : /\ row' = [row EXCEPT ![u] = x] /\ x.username = row[u].username
                       /\ x.deleted => x.blocked
  <2>1. CASE DeleteUser(u)
    <3> DEFINE x == [row[u] EXCEPT !.deleted = TRUE, !.blocked = TRUE]
    <3>1. x \in Row /\ x.username = row[u].username /\ x.blocked = TRUE
      BY <1>2, StateWritten
    <3>2. row' = [row EXCEPT ![u] = x]
      BY <1>2, <2>1 DEF DeleteUser
    <3>3. QED
      BY <3>1, <3>2
  <2>2. ASSUME NEW active \in BOOLEAN, SetUserActiveState(u, active)
        PROVE \E x \in Row : /\ row' = [row EXCEPT ![u] = x] /\ x.username = row[u].username
                             /\ x.deleted => x.blocked
    <3> DEFINE v == ~active
    <3> DEFINE x == [row[u] EXCEPT !.blocked = v]
    <3>1. v \in BOOLEAN
      OBVIOUS
    <3>2. row' = [row EXCEPT ![u] = x] /\ row[u].deleted = FALSE
      BY <1>2, <2>2, RowFields DEF SetUserActiveState
    <3> HIDE DEF v
    <3>3. x \in Row /\ x.username = row[u].username /\ x.deleted = row[u].deleted
      BY <1>2, <3>1, StateWritten
    <3>4. QED
      BY <3>2, <3>3
  <2>3. QED
    BY <2>1, <2>2
<1>4. row' \in [User -> Row \cup {NoRow}]
  BY <1>2, <1>3
<1>5. RowsGrow
  BY <1>1, <1>2, <1>3, <1>4, ColumnWritten
<1>6. /\ acts' \in Nat
      /\ UNCHANGED <<line, stage, job, down, user, formName, first, crashes, late, raced, torn,
                     renamed>>
  BY <1>1 DEF DeleteUser, SetUserActiveState, Act, pages, Marks
<1>7. QED
  BY <1>5, <1>6, RowsOnly

LEMMA RestartStep ==
  ASSUME BaseInv, NEW c \in Client, Restart(c)
  PROVE BaseInv'
<1>1. /\ user' = [user EXCEPT ![c] = NoUser] /\ formName' = [formName EXCEPT ![c] = ""]
      /\ first' = [first EXCEPT ![c] = FALSE]
      /\ UNCHANGED <<row, line, stage, job, down, acts, crashes, late, raced, torn, renamed>>
  BY DEF Restart, tables
<1>2. Rows /\ Queues /\ Pages /\ Marks
  BY TypeParts DEF BaseInv
<1>3. Pages'
  BY <1>1, <1>2 DEF Pages
<1>4. Queues' /\ Marks' /\ Rows'
  BY <1>1, <1>2, RowsStay DEF Queues, Marks, RowsGrow
<1>5. TypeOK' /\ UsernamesOnce'
  BY <1>3, <1>4, TypePartsNext
<1>6. StagedAll'
  BY <1>1, SameStage DEF BaseInv, StagedAll
<1>7. Good' = Good /\ GoodAnswers' = GoodAnswers
  BY <1>1 DEF Good, GoodAnswers, Inserted
<1>8. Known'
  BY <1>1, <1>2, <1>7 DEF Known, BaseInv, Inserted, Pages
<1>9. QED
  BY <1>5, <1>6, <1>8 DEF BaseInv

LEMMA CrashStep ==
  ASSUME BaseInv, Crash
  PROVE BaseInv'
<1>1. /\ line' = [c \in Client |-> <<>>] /\ stage' = [c \in Client |-> "look"]
      /\ job' = [c \in Client |-> NoJob] /\ down' = [c \in Client |-> <<>>]
      /\ user' = [c \in Client |-> NoUser] /\ formName' = [c \in Client |-> ""]
      /\ first' = [c \in Client |-> FALSE] /\ late' = [c \in Client |-> {}]
      /\ crashes' = crashes + 1 /\ UNCHANGED <<row, acts, raced, renamed>>
  BY DEF Crash, tables
<1>2. Rows /\ Queues /\ Pages /\ Marks
  BY TypeParts DEF BaseInv
<1>3. ASSUME NEW c \in Client, Takes(c, "GENRES", "first") PROVE job[c].saved \subseteq User
  BY <1>3 DEF BaseInv, StagedAll, Staged, Takes
<1>4. torn' \subseteq User
  BY <1>2, <1>3 DEF Crash, Marks
<1>5. crashes' \in Nat
  <2>1. crashes \in Nat /\ crashes' = crashes + 1
    BY <1>1, <1>2 DEF Marks
  <2>2. QED
    BY <2>1
<1>6. acts' \in Nat /\ raced' \subseteq Email \cup {NoEmail} /\ renamed' \subseteq User
  BY <1>1, <1>2 DEF Marks
<1>7. late' \in [Client -> SUBSET (User \X Columns)]
  BY <1>1
<1>8. Marks'
  BY <1>4, <1>5, <1>6, <1>7 DEF Marks
<1>9. Queues'
  BY <1>1, EmptySeq DEF Queues
<1>10. Pages'
  BY <1>1 DEF Pages
<1>11. Rows'
  BY <1>1, <1>2, RowsStay DEF RowsGrow
<1>12. TypeOK' /\ UsernamesOnce'
  BY <1>8, <1>9, <1>10, <1>11, TypePartsNext
<1>13. StagedAll'
  BY <1>1, FreshStage DEF StagedAll
<1>14. Known'
  BY <1>1, EmptySeq DEF Known
<1>15. QED
  BY <1>12, <1>13, <1>14 DEF BaseInv

LEMMA BaseStep == BaseInv /\ [Next]_vars => BaseInv'
<1> SUFFICES ASSUME BaseInv, [Next]_vars PROVE BaseInv'
  OBVIOUS
<1>1. ASSUME NEW c \in Client, Work(c) PROVE BaseInv'
  <2>1. Queues' /\ Rows' /\ Marks' /\ UNCHANGED pages
    BY <1>1, OwnStep, RowStep, MarkStep DEF RowsGrow
  <2>2. Pages'
    BY <2>1, TypeParts DEF BaseInv, Pages, pages
  <2>3. TypeOK' /\ UsernamesOnce'
    BY <2>1, <2>2, TypePartsNext
  <2>4. ASSUME NEW d \in Client PROVE Staged(d)'
    <3>1. CASE d = c
      BY <1>1, <3>1, OwnStep
    <3>2. CASE d # c
      BY <1>1, <3>2, OthersStay, SameStage DEF BaseInv, StagedAll
    <3>3. QED
      BY <3>1, <3>2
  <2>5. Known'
    BY <1>1, KnownStep
  <2>6. QED
    BY <2>3, <2>4, <2>5 DEF BaseInv, StagedAll
<1>2. ASSUME NEW c \in Client, SubmitForm(c) PROVE BaseInv'
  BY <1>2, ProfileSent, SubmitStep
<1>3. CASE UNCHANGED vars
  <2>1. RowsGrow /\ acts' \in Nat
    BY <1>3, RowsStay, TypeParts DEF BaseInv, vars, Marks
  <2>2. QED
    BY <1>3, <2>1, RowsOnly DEF vars
<1>4. QED
  BY <1>1, <1>2, <1>3, ReceiveStep, AdminStep, RestartStep, CrashStep DEF Next

LEMMA InitBase == Init => BaseInv
<1> SUFFICES ASSUME Init PROVE BaseInv
  OBVIOUS
<1>0. PICK there \in SUBSET User : \E chosen \in SUBSET (there \ Publisher) :
        /\ row = [u \in User |->
                    IF u \in there
                    THEN [NewRow(FirstName[u], FirstPass) EXCEPT
                            !.firstLogin = u \notin chosen, !.genres = u \in chosen]
                    ELSE NoRow]
        /\ user \in [Client -> there \cup {NoUser}]
  BY DEF Init
<1>1. PICK chosen \in SUBSET (there \ Publisher) :
        /\ row = [u \in User |->
                    IF u \in there
                    THEN [NewRow(FirstName[u], FirstPass) EXCEPT
                            !.firstLogin = u \notin chosen, !.genres = u \in chosen]
                    ELSE NoRow]
        /\ user \in [Client -> there \cup {NoUser}]
  BY <1>0
<1>2. ASSUME NEW u \in there
      PROVE /\ row[u] \in Row /\ Inserted(u)
            /\ row[u].username = FirstName[u] /\ row[u].deleted = FALSE
  <2> DEFINE a == u \notin chosen
  <2> DEFINE b == u \in chosen
  <2>1. row[u] = [NewRow(FirstName[u], FirstPass) EXCEPT !.firstLogin = a, !.genres = b]
    BY <1>1, <1>2
  <2>2. a \in BOOLEAN /\ b \in BOOLEAN
    OBVIOUS
  <2> HIDE DEF a, b
  <2>3. FirstName[u] \in UserName /\ FirstPass \in Password
    BY <1>1, <1>2, NameAssumption, DataAssumption
  <2>4. /\ row[u] \in Row /\ row[u].username = FirstName[u] /\ row[u].deleted = FALSE
    BY <2>1, <2>2, <2>3 DEF NewRow, Row
  <2>5. QED
    BY <2>4, RowFields DEF Inserted
<1>3. \A u \in User : Inserted(u) <=> u \in there
  BY <1>1, <1>2 DEF Inserted
<1>4. row \in [User -> Row \cup {NoRow}]
  <2>1. \A u \in User : row[u] \in Row \cup {NoRow}
    BY <1>1, <1>2
  <2>2. QED
    BY <1>1, <2>1
<1>5. ASSUME NEW u \in there PROVE Named(row[u].username) = {u}
  <2>1. \A v \in there : row[v].username = row[u].username => u = v
    BY <1>2, <1>5, NameAssumption
  <2>2. \A v \in User : v \in Named(row[u].username) <=> v \in there /\ row[v].username = row[u].username
    BY <1>3 DEF Named
  <2>3. Named(row[u].username) \subseteq User
    BY DEF Named
  <2>4. QED
    BY <1>5, <2>1, <2>2, <2>3
<1>6. Rows
  BY <1>2, <1>3, <1>4, <1>5 DEF Rows
<1>7. Queues
  BY EmptySeq DEF Init, Queues
<1>8. \A c \in Client : user[c] # NoUser => user[c] \in there
  BY <1>1
<1>9. \A c \in Client : formName[c] = IF user[c] = NoUser THEN "" ELSE FirstName[user[c]]
  BY DEF Init
<1>10. \A c \in Client : user[c] # NoUser => Inserted(user[c]) /\ formName[c] \in UserName
  BY <1>1, <1>3, <1>8, <1>9, NameAssumption
<1>11. Pages
  <2>1. user \in [Client -> User \cup {NoUser}]
    BY <1>1
  <2>2. formName \in [Client -> UserName \cup {""}]
    BY <1>9, <1>10 DEF Init
  <2>3. \A c \in Client : (user[c] \in User \ Publisher /\ row[user[c]].firstLogin) \in BOOLEAN
    OBVIOUS
  <2>4. first \in [Client -> BOOLEAN]
    BY <2>3 DEF Init
  <2>5. QED
    BY <2>1, <2>2, <2>4 DEF Pages
<1>12. Marks
  BY DEF Init, Marks
<1>13. StagedAll
  BY DEF Init, StagedAll, Staged
<1>14. Known
  BY <1>10, EmptySeq DEF Init, Known
<1>15. QED
  BY <1>6, <1>7, <1>11, <1>12, <1>13, <1>14, TypeParts DEF BaseInv

LEMMA BaseHolds == Spec => []BaseInv
BY InitBase, BaseStep, PTL DEF Spec

(* Rows, requests and answers have their types, and who is deleted is blocked *)
(* for good: the guard of the administrator's switch sees to it.              *)
THEOREM TypeCorrect == Spec => []TypeOK
<1>1. BaseInv => TypeOK
  BY DEF BaseInv
<1>2. QED
  BY <1>1, BaseHolds, PTL

(* No two users have one username, whatever the clients register and rename   *)
(* at once: of all the statements that write a name, only those find a row to *)
(* write it to that the unique key lets through.                              *)
THEOREM NamesAreUnique == Spec => []UsernamesOnce
<1>1. BaseInv => UsernamesOnce
  BY DEF BaseInv
<1>2. QED
  BY <1>1, BaseHolds, PTL

-----------------------------------------------------------------------------
(***************************************************************************)
(* The inductive invariant, second part: what a handler has read still     *)
(* holds unless late says what has changed since.                          *)
(***************************************************************************)

(* The owner of the name, the fields of a publisher left empty, the addresses *)
(* of others, and who has genres by the first of the two statements.          *)
StillNamed(c) ==
  Head(line[c]).type = "RESET" =>
    job[c].user \in Named(Head(line[c]).name) \/ <<job[c].user, "username">> \in late[c]

StillCurrent(c) ==
  Head(line[c]).type = "UPDATE" =>
    /\ job[c].asked \subseteq DOMAIN Head(line[c]).sent
    /\ \A f \in DOMAIN job[c].write \ job[c].asked :
         \/ job[c].write[f] = row[Head(line[c]).user][f]
         \/ <<Head(line[c]).user, f>> \in late[c]

StillFree(c) ==
  Head(line[c]).type = "UPDATE" /\ stage[c] = "write" /\ "email" \in job[c].asked =>
    \A v \in User \ {Head(line[c]).user} :
      Inserted(v) /\ row[v].email = job[c].write.email => <<v, "email">> \in late[c]

StillChosen(c) ==
  Head(line[c]).type = "GENRES" => \A u \in job[c].saved : Inserted(u) /\ row[u].genres

Read(c) ==
  line[c] # <<>> /\ stage[c] # "look" =>
    StillNamed(c) /\ StillCurrent(c) /\ StillFree(c) /\ StillChosen(c)

ReadAll == \A c \in Client : Read(c)

FormsInv == BaseInv /\ ReadAll

-----------------------------------------------------------------------------
(* Which statement changes what of a row. *)

LEMMA RowChanges ==
  ASSUME BaseInv, NEW c \in Client, Work(c), NEW u \in User, row'[u] # row[u]
  PROVE LET r == Head(line[c])
        IN  \/ /\ ~Inserted(u) /\ Register(c)
               /\ row'[u] = NewRow(r.name, r.pass)
            \/ /\ Inserted(u) /\ Reset(c) /\ u \in Named(r.name)
               /\ row'[u] = [row[u] EXCEPT !.password = r.new]
            \/ /\ Inserted(u) /\ ChangePassword(c) /\ u = r.user
               /\ row'[u] = [row[u] EXCEPT !.password = r.new]
            \/ /\ Inserted(u) /\ UpdateProfile(c) /\ u = r.user
               /\ row'[u] = job[c].write ++ row[u]
            \/ /\ Inserted(u) /\ SetFavoriteGenres(c) /\ u \in Named(r.name)
               /\ row'[u] = [row[u] EXCEPT !.genres = TRUE]
            \/ /\ Inserted(u) /\ SetFirstLoginFalse(c) /\ u \in Named(r.name)
               /\ row'[u] = [row[u] EXCEPT !.firstLogin = FALSE]
<1> DEFINE r == Head(line[c])
<1>1. /\ line[c] # <<>> /\ r \in Request /\ Rows /\ Queues
      /\ r.type \in {"CHANGE", "UPDATE"} => Inserted(r.user)
  BY InWork
<1>2. row \in [User -> Row \cup {NoRow}]
  BY <1>1 DEF Rows
<1>3. CASE Register(c)
  <2>1. InsertUser(r)
    BY <1>3 DEF Register
  <2>2. PICK v \in User : ~Inserted(v) /\ row' = [row EXCEPT ![v] = NewRow(r.name, r.pass)]
    BY <2>1 DEF InsertUser
  <2>3. v = u
    BY <1>2, <2>2
  <2>4. QED
    BY <1>2, <1>3, <2>2, <2>3
<1>4. CASE Reset(c)
  <2>1. row' = [v \in User |-> IF v \in Named(r.name) THEN [row[v] EXCEPT !.password = r.new]
                               ELSE row[v]]
    BY <1>4 DEF Reset
  <2>2. u \in Named(r.name)
    BY <1>2, <2>1
  <2>3. Inserted(u)
    BY <2>2 DEF Named
  <2>4. QED
    BY <1>4, <2>1, <2>2, <2>3
<1>5. CASE ChangePassword(c)
  <2>1. row' = [row EXCEPT ![r.user].password = r.new] /\ r.type = "CHANGE"
    BY <1>5 DEF ChangePassword, Takes
  <2>2. u = r.user
    BY <1>2, <2>1
  <2>3. QED
    BY <1>1, <1>2, <1>5, <2>1, <2>2
<1>6. CASE UpdateProfile(c)
  <2>1. row' = [row EXCEPT ![r.user] = job[c].write ++ row[r.user]] /\ r.type = "UPDATE"
    BY <1>6 DEF UpdateProfile, Takes
  <2>2. u = r.user
    BY <1>2, <2>1
  <2>3. QED
    BY <1>1, <1>2, <1>6, <2>1, <2>2
<1>7. CASE SetFavoriteGenres(c)
  <2>1. row' = [v \in User |-> IF v \in Named(r.name) THEN [row[v] EXCEPT !.genres = TRUE]
                               ELSE row[v]]
    BY <1>7 DEF SetFavoriteGenres
  <2>2. u \in Named(r.name)
    BY <1>2, <2>1
  <2>3. Inserted(u)
    BY <2>2 DEF Named
  <2>4. QED
    BY <1>7, <2>1, <2>2, <2>3
<1>8. CASE SetFirstLoginFalse(c)
  <2>1. row' = [v \in User |-> IF v \in Named(r.name) THEN [row[v] EXCEPT !.firstLogin = FALSE]
                               ELSE row[v]]
    BY <1>8 DEF SetFirstLoginFalse
  <2>2. u \in Named(r.name)
    BY <1>2, <2>1
  <2>3. Inserted(u)
    BY <2>2 DEF Named
  <2>4. QED
    BY <1>8, <2>1, <2>2, <2>3
<1>9. CASE \/ Login(c) \/ RegisterLook(c) \/ ResetLook(c) \/ ChangeLook(c) \/ ReadProfile(c)
           \/ CheckName(c) \/ CheckEmail(c) \/ StatementFails(c)
  <2>1. UNCHANGED row
    BY <1>9 DEF Login, RegisterLook, ResetLook, ChangeLook, ReadProfile, CheckName, CheckEmail,
       StatementFails, Looked, LookedAgain, tables
  <2>2. QED
    BY <2>1
<1>10. QED
  BY <1>3, <1>4, <1>5, <1>6, <1>7, <1>8, <1>9 DEF Work

(* The columns that matter, of a row that is there. *)
LEMMA ColumnChanges ==
  ASSUME BaseInv, NEW c \in Client, Work(c), NEW u \in User, Inserted(u)
  PROVE LET r == Head(line[c])
        IN  /\ row'[u].password # row[u].password =>
                 \/ Reset(c) /\ u \in Named(r.name)
                 \/ ChangePassword(c) /\ u = r.user
            /\ row'[u].username # row[u].username \/ row'[u].email # row[u].email =>
                 UpdateProfile(c) /\ u = r.user /\ row'[u] = job[c].write ++ row[u]
            /\ row[u].genres => row'[u].genres
            /\ row'[u].genres # row[u].genres => SetFavoriteGenres(c) /\ u \in Named(r.name)
            /\ row'[u].firstLogin # row[u].firstLogin =>
                 SetFirstLoginFalse(c) /\ u \in Named(r.name)
<1> DEFINE r == Head(line[c])
<1>1. row[u] \in Row /\ r \in Request /\ line[c] # <<>> /\ Staged(c)
  BY InWork
<1>2. CASE row'[u] = row[u]
  BY <1>2
<1>3. ASSUME NEW p \in Password, row'[u] = [row[u] EXCEPT !.password = p]
      PROVE /\ row'[u].username = row[u].username /\ row'[u].email = row[u].email
            /\ row'[u].genres = row[u].genres /\ row'[u].firstLogin = row[u].firstLogin
  BY <1>1, <1>3, PasswordWritten
<1>4. CASE Reset(c) /\ u \in Named(r.name) /\ row'[u] = [row[u] EXCEPT !.password = r.new]
  <2>1. r.new \in Password
    BY <1>1, <1>4, RequestFields DEF Reset, Takes
  <2>2. QED
    BY <1>3, <1>4, <2>1
<1>5. CASE ChangePassword(c) /\ u = r.user /\ row'[u] = [row[u] EXCEPT !.password = r.new]
  <2>1. r.new \in Password
    BY <1>1, <1>5, RequestFields DEF ChangePassword, Takes
  <2>2. QED
    BY <1>3, <1>5, <2>1
<1>6. CASE UpdateProfile(c) /\ u = r.user /\ row'[u] = job[c].write ++ row[u]
  <2>1. job[c].write \in Written
    BY <1>1, <1>6, JobFields DEF UpdateProfile, Takes, Staged, ProfileJob
  <2>2. /\ row'[u].password = row[u].password /\ row'[u].genres = row[u].genres
        /\ row'[u].firstLogin = row[u].firstLogin
    BY <1>1, <1>6, <2>1, WriteOver
  <2>3. QED
    BY <1>6, <2>2
<1>7. CASE SetFavoriteGenres(c) /\ u \in Named(r.name) /\ row'[u] = [row[u] EXCEPT !.genres = TRUE]
  <2>1. /\ row'[u].password = row[u].password /\ row'[u].username = row[u].username
        /\ row'[u].firstLogin = row[u].firstLogin /\ row'[u].email = row[u].email
        /\ row'[u].genres = TRUE
    BY <1>1, <1>7, FlagWritten
  <2>2. QED
    BY <1>7, <2>1
<1>8. CASE /\ SetFirstLoginFalse(c) /\ u \in Named(r.name)
           /\ row'[u] = [row[u] EXCEPT !.firstLogin = FALSE]
  <2>1. /\ row'[u].password = row[u].password /\ row'[u].username = row[u].username
        /\ row'[u].genres = row[u].genres /\ row'[u].email = row[u].email
    BY <1>1, <1>8, FlagWritten
  <2>2. QED
    BY <1>8, <2>1
<1>9. QED
  BY <1>2, <1>4, <1>5, <1>6, <1>7, <1>8, RowChanges

(* No step of another client changes a name or an address unmarked while a    *)
(* handler is at work.                                                        *)
LEMMA Marked ==
  ASSUME BaseInv, NEW c \in Client, Work(c), NEW d \in Client \ {c},
         stage[d] # "look"
  PROVE /\ late[d] \subseteq late'[d]
        /\ \A v \in User, f \in Columns :
             Inserted(v)' /\ (Inserted(v) => row'[v][f] # row[v][f]) => <<v, f>> \in late'[d]
<1>1. CASE Wrote(c)
  <2> DEFINE changed == {x \in User \X {"username", "email"} :
                           /\ row'[x[1]] # NoRow
                           /\ ~Inserted(x[1]) \/ row'[x[1]][x[2]] # row[x[1]][x[2]]}
  <2>1. late'[d] = late[d] \cup changed
    BY <1>1 DEF Wrote
  <2>2. ASSUME NEW v \in User, NEW f \in Columns, Inserted(v)',
               Inserted(v) => row'[v][f] # row[v][f]
        PROVE <<v, f>> \in changed
    BY <2>2 DEF Columns, Inserted
  <2>3. QED
    BY <2>1, <2>2
<1>2. CASE ~Wrote(c)
  <2>1. late'[d] = late[d]
    <3>1. late \in [Client -> SUBSET (User \X Columns)]
      BY DEF BaseInv, TypeOK
    <3>2. Looked(c) \/ LookedAgain \/ late' = late \/ late' = [late EXCEPT ![c] = {}]
      BY <1>2 DEF Work, Login, RegisterLook, Register, ResetLook, Reset, ChangeLook,
         ChangePassword, ReadProfile, CheckName, CheckEmail, UpdateProfile, SetFavoriteGenres,
         SetFirstLoginFalse, StatementFails
    <3>3. QED
      BY <3>1, <3>2 DEF Looked, LookedAgain
  <2>2. ~(Register(c) \/ UpdateProfile(c))
    BY <1>2 DEF Register, UpdateProfile
  <2>3. ASSUME NEW v \in User, Inserted(v)'
        PROVE Inserted(v) /\ row'[v].username = row[v].username /\ row'[v].email = row[v].email
    <3>1. Inserted(v)
      BY <2>2, <2>3, RowChanges DEF Inserted
    <3>2. QED
      BY <2>2, <3>1, ColumnChanges
  <2>4. QED
    BY <2>1, <2>3 DEF Columns
<1>3. QED
  BY <1>1, <1>2

(* What others do leaves what a handler has read as true as it was. *)
LEMMA StillRead ==
  ASSUME BaseInv, NEW d \in Client, Read(d), Grows,
         line[d] # <<>> => line'[d] # <<>> /\ Head(line'[d]) = Head(line[d]),
         stage'[d] = stage[d], job'[d] = job[d],
         stage[d] # "look" =>
           /\ late[d] \subseteq late'[d]
           /\ \A v \in User, f \in Columns :
                Inserted(v)' /\ (Inserted(v) => row'[v][f] # row[v][f]) => <<v, f>> \in late'[d],
         \A v \in User : Inserted(v) /\ row[v].genres => row'[v].genres
  PROVE Read(d)'
<1> DEFINE r == Head(line[d])
<1>1. Staged(d) /\ (line[d] = <<>> => stage[d] = "look")
  BY DEF BaseInv, StagedAll, Staged
<1>2. SUFFICES ASSUME stage[d] # "look" PROVE Read(d)'
  BY DEF Read
<1>3. /\ line[d] # <<>> /\ line'[d] # <<>> /\ Head(line'[d]) = r
      /\ StillNamed(d) /\ StillCurrent(d) /\ StillFree(d) /\ StillChosen(d)
  BY <1>1, <1>2 DEF Read
<1>4. r \in Good /\ r \in Request
  <2>1. line[d] \in Seq(Good)
    BY DEF BaseInv, Known
  <2>2. QED
    BY <1>3, <2>1, TailSeq DEF Good
<1> HIDE DEF r
<1>5. /\ late[d] \subseteq late'[d]
      /\ \A v \in User, f \in Columns :
           Inserted(v)' /\ (Inserted(v) => row'[v][f] # row[v][f]) => <<v, f>> \in late'[d]
  BY <1>2
<1>6. StillNamed(d)'
  <2>1. ASSUME r.type = "RESET", NEW n, n = r.name, NEW u \in Named(n)
        PROVE u \in Named(n)' \/ <<u, "username">> \in late'[d]
    <3>1. u \in User /\ Inserted(u) /\ row[u].username = n
      BY DEF Named
    <3>2. Inserted(u)'
      BY <3>1 DEF Grows
    <3>3. CASE row'[u].username = n
      BY <3>1, <3>2, <3>3 DEF Named
    <3>4. CASE row'[u].username # n
      BY <1>5, <3>1, <3>2, <3>4 DEF Columns
    <3>5. QED
      BY <3>3, <3>4
  <2>2. QED
    BY <1>3, <1>5, <2>1 DEF StillNamed, r
<1>7. StillCurrent(d)'
  <2>1. SUFFICES ASSUME r.type = "UPDATE" PROVE StillCurrent(d)'
    BY <1>3 DEF StillCurrent
  <2>2. r.user \in User /\ Inserted(r.user) /\ row'[r.user] # NoRow
    BY <1>4, <2>1, RequestFields DEF Good, Grows, Inserted
  <2>3. DOMAIN job[d].write \subseteq Columns
    BY <1>1, <1>2, <1>3, <2>1, JobFields, WrittenFields DEF Staged, ProfileJob, r, Columns
  <2>4. ASSUME NEW f \in DOMAIN job[d].write \ job[d].asked
        PROVE job[d].write[f] = row'[r.user][f] \/ <<r.user, f>> \in late'[d]
    <3>1. job[d].write[f] = row[r.user][f] \/ <<r.user, f>> \in late[d]
      BY <1>3, <2>1 DEF StillCurrent, r
    <3>2. row'[r.user][f] = row[r.user][f] \/ <<r.user, f>> \in late'[d]
      BY <1>5, <2>2, <2>3 DEF Inserted
    <3>3. QED
      BY <1>5, <3>1, <3>2
  <2>5. job[d].asked \subseteq DOMAIN r.sent
    BY <1>3, <2>1 DEF StillCurrent, r
  <2>6. QED
    BY <1>3, <2>4, <2>5 DEF StillCurrent
<1>8. StillFree(d)'
  <2>1. ASSUME r.type = "UPDATE", stage[d] = "write", "email" \in job[d].asked,
               NEW v \in User \ {r.user}, Inserted(v)', row'[v].email = job[d].write.email
        PROVE <<v, "email">> \in late'[d]
    <3>1. CASE Inserted(v) /\ row'[v].email = row[v].email
      BY <1>3, <1>5, <2>1, <3>1 DEF StillFree, r
    <3>2. CASE Inserted(v) => row'[v].email # row[v].email
      BY <1>5, <2>1, <3>2 DEF Columns
    <3>3. QED
      BY <3>1, <3>2
  <2>2. QED
    BY <1>3, <2>1 DEF StillFree, Inserted
<1>9. StillChosen(d)'
  <2>1. r.type = "GENRES" => job[d].saved \subseteq User
    BY <1>1, <1>2, <1>3 DEF Staged, r
  <2>2. QED
    BY <1>3, <2>1 DEF StillChosen, Grows, r
<1>10. QED
  BY <1>6, <1>7, <1>8, <1>9 DEF Read

(* What a handler reads is true when it has read it. *)
LEMMA OwnRead ==
  ASSUME BaseInv, NEW c \in Client, Work(c), Read(c)
  PROVE Read(c)'
<1> DEFINE r == Head(line[c])
<1>1. /\ line[c] # <<>> /\ r \in Request /\ Staged(c) /\ Rows /\ Queues /\ Marks
      /\ r.type \in {"CHANGE", "UPDATE"} => Inserted(r.user)
  BY InWork
<1>2. CASE \E ok, more : Answer(c, ok, more)
  <2>1. stage'[c] = "look"
    BY <1>1, <1>2 DEF Answer, Queues
  <2>2. QED
    BY <2>1 DEF Read
<1>3. ASSUME NEW st, NEW read, GoOn(c, st, read)
      PROVE line' = line /\ stage'[c] = st /\ job'[c] = read
  BY <1>1, <1>3, WentOn
<1>4. CASE RegisterLook(c) \/ ChangeLook(c)
  <2>1. r.type \in {"REGISTER", "CHANGE"}
    BY <1>4 DEF RegisterLook, ChangeLook, Takes
  <2>2. Fail(c) \/ \E st, read : GoOn(c, st, read)
    BY <1>4 DEF RegisterLook, ChangeLook
  <2>3. CASE \E st, read : GoOn(c, st, read)
    BY <1>3, <2>1, <2>3 DEF Read, StillNamed, StillCurrent, StillFree, StillChosen
  <2>4. QED
    BY <1>2, <2>2, <2>3 DEF Fail
<1>5. CASE ResetLook(c)
  <2>1. CASE r.answer \in Named(r.name) /\ GoOn(c, "write", [user |-> r.answer, knew |-> TRUE])
    <3>1. line' = line /\ job'[c].user = r.answer /\ r.type = "RESET" /\ row' = row
      BY <1>3, <1>5, <2>1 DEF ResetLook, Takes, Looked, tables
    <3>2. r.answer \in Named(r.name)'
      BY <2>1, <3>1 DEF Named, Inserted
    <3>3. QED
      BY <3>1, <3>2 DEF Read, StillNamed, StillCurrent, StillFree, StillChosen
  <2>2. QED
    BY <1>2, <1>5, <2>1 DEF ResetLook, Fail
<1>6. CASE ReadProfile(c)
  <2> DEFINE now == [f \in Columns |-> row[r.user][f]]
  <2> DEFINE asked == {f \in DOMAIN r.sent : r.sent[f] # now[f]}
  <2> DEFINE write == r.sent ++ now
  <2>1. /\ r.type = "UPDATE" /\ GoOn(c, "name", [write |-> write, asked |-> asked]) /\ row' = row
    BY <1>6 DEF ReadProfile, Takes, Looked, tables
  <2>2. DOMAIN r.sent \subseteq Columns
    BY <1>1, <2>1, RequestFields, ProfileFields
  <2>3. /\ DOMAIN write = Columns
        /\ \A f \in Columns : write[f] = IF f \in DOMAIN r.sent THEN r.sent[f] ELSE now[f]
    BY <2>2 DEF ++
  <2>4. \A f \in DOMAIN write \ asked : write[f] = row[r.user][f]
    BY <2>3
  <2>5. asked \subseteq DOMAIN r.sent
    OBVIOUS
  <2> HIDE DEF asked, write
  <2>6. /\ line' = line /\ stage'[c] = "name" /\ job'[c].write = write /\ job'[c].asked = asked
    BY <1>3, <2>1
  <2>7. QED
    BY <2>1, <2>4, <2>5, <2>6 DEF Read, StillNamed, StillCurrent, StillFree, StillChosen
<1>7. CASE CheckName(c)
  <2>1. /\ r.type = "UPDATE" /\ stage[c] = IF r.user \in Publisher THEN "name" ELSE "look"
        /\ row' = row
    BY <1>1, <1>7 DEF CheckName, Takes, Looked, LookedAgain, tables
  <2>2. CASE GoOn(c, "email", Prepared(c))
    <3>1. line' = line /\ stage'[c] = "email" /\ job'[c] = Prepared(c)
      BY <1>3, <2>2
    <3>2. CASE r.user \in Publisher
      <4>1. job'[c] = job[c] /\ late' = late /\ stage[c] = "name"
        BY <1>7, <2>1, <3>1, <3>2 DEF CheckName, LookedAgain, Prepared
      <4>2. StillCurrent(c)
        BY <1>1, <4>1 DEF Read
      <4>3. QED
        BY <2>1, <3>1, <4>1, <4>2 DEF Read, StillNamed, StillCurrent, StillFree, StillChosen
    <3>3. CASE r.user \notin Publisher
      <4>1. job'[c] = [write |-> r.sent, asked |-> DOMAIN r.sent]
        BY <3>1, <3>3 DEF Prepared
      <4>2. QED
        BY <2>1, <3>1, <4>1 DEF Read, StillNamed, StillCurrent, StillFree, StillChosen
    <3>4. QED
      BY <3>2, <3>3
  <2>3. QED
    BY <1>2, <1>7, <2>2 DEF CheckName, Fail
<1>8. CASE CheckEmail(c)
  <2>1. r.type = "UPDATE" /\ stage[c] = "email" /\ row' = row /\ late' = late
    BY <1>8 DEF CheckEmail, Takes, LookedAgain, tables
  <2>2. CASE ~Taken(c, "email", job[c]) /\ GoOn(c, "write", job[c])
    <3>1. line' = line /\ stage'[c] = "write" /\ job'[c] = job[c]
      BY <1>3, <2>2
    <3>2. StillCurrent(c)
      BY <1>1, <2>1 DEF Read
    <3>3. "email" \in job[c].asked =>
            \A v \in User \ {r.user} : ~(Inserted(v) /\ row[v].email = job[c].write.email)
      BY <2>2 DEF Taken
    <3>4. StillFree(c)' /\ StillCurrent(c)'
      BY <2>1, <3>1, <3>2, <3>3 DEF StillFree, StillCurrent, Inserted
    <3>5. QED
      BY <2>1, <3>1, <3>4 DEF Read, StillNamed, StillChosen
  <2>3. QED
    BY <1>2, <1>8, <2>2 DEF CheckEmail, Fail
<1>9. CASE SetFavoriteGenres(c)
  <2>1. /\ r.type = "GENRES" /\ GoOn(c, "first", [saved |-> Named(r.name)])
        /\ row' = [u \in User |-> IF u \in Named(r.name) THEN [row[u] EXCEPT !.genres = TRUE]
                                  ELSE row[u]]
    BY <1>9 DEF SetFavoriteGenres, Takes
  <2>2. line' = line /\ job'[c].saved = Named(r.name)
    BY <1>3, <2>1
  <2>3. ASSUME NEW u \in Named(r.name) PROVE Inserted(u)' /\ row'[u].genres
    <3>1. u \in User /\ Inserted(u) /\ row[u] \in Row
      BY InWork DEF Named
    <3>2. row'[u] = [row[u] EXCEPT !.genres = TRUE]
      BY <2>1, <3>1
    <3>3. row'[u] \in Row /\ row'[u].genres = TRUE
      <4> DEFINE y == [row[u] EXCEPT !["genres"] = TRUE]
      <4>1. y \in Row /\ y.genres = TRUE
        BY <3>1, FlagWritten
      <4>2. QED
        BY <3>2, <4>1
    <3>4. QED
      BY <3>3, RowFields DEF Inserted
  <2>4. QED
    BY <2>1, <2>2, <2>3 DEF Read, StillNamed, StillCurrent, StillFree, StillChosen, Inserted
<1>10. CASE \/ Login(c) \/ Register(c) \/ Reset(c) \/ ChangePassword(c) \/ UpdateProfile(c)
            \/ SetFirstLoginFalse(c) \/ StatementFails(c)
  BY <1>2, <1>10 DEF Login, Register, Reset, ChangePassword, UpdateProfile, SetFirstLoginFalse,
     StatementFails, Fail
<1>11. QED
  BY <1>4, <1>5, <1>6, <1>7, <1>8, <1>9, <1>10 DEF Work

-----------------------------------------------------------------------------
(* The whole invariant. *)

(* The administrator touches neither names nor addresses nor passwords nor    *)
(* the marks of the first login.                                              *)
LEMMA AdminColumns ==
  ASSUME BaseInv, NEW u \in User, NEW v \in User,
         DeleteUser(u) \/ \E active \in BOOLEAN : SetUserActiveState(u, active)
  PROVE /\ Inserted(v)' <=> Inserted(v)
        /\ Inserted(v) => /\ row'[v].username = row[v].username /\ row'[v].email = row[v].email
                          /\ row'[v].password = row[v].password
                          /\ row'[v].genres = row[v].genres
                          /\ row'[v].firstLogin = row[v].firstLogin
<1>1. Rows /\ Inserted(u) /\ Grows
  BY AdminStep, TypeParts DEF BaseInv, DeleteUser, SetUserActiveState, RowsGrow
<1>2. row[u] \in Row /\ row \in [User -> Row \cup {NoRow}]
  BY <1>1 DEF Rows, Inserted
<1>3. CASE v # u
  <2>1. row'[v] = row[v]
    BY <1>2, <1>3 DEF DeleteUser, SetUserActiveState
  <2>2. QED
    BY <2>1 DEF Inserted
<1>4. CASE v = u
  <2>1. CASE DeleteUser(u)
    <3> DEFINE x == [row[u] EXCEPT !.deleted = TRUE, !.blocked = TRUE]
    <3>1. /\ x.username = row[u].username /\ x.email = row[u].email
          /\ x.password = row[u].password /\ x.genres = row[u].genres
          /\ x.firstLogin = row[u].firstLogin
      BY <1>2, StateWritten
    <3>2. row'[u] = x
      BY <1>2, <2>1 DEF DeleteUser
    <3>3. Inserted(u)'
      BY <1>1 DEF Grows
    <3>4. QED
      BY <1>1, <1>4, <3>1, <3>2, <3>3
  <2>2. CASE \E active \in BOOLEAN : SetUserActiveState(u, active)
    <3>1. PICK b \in BOOLEAN : row' = [row EXCEPT ![u].blocked = b]
      <4>1. PICK active \in BOOLEAN : SetUserActiveState(u, active)
        BY <2>2
      <4> DEFINE b == ~active
      <4>2. row' = [row EXCEPT ![u].blocked = b]
        BY <4>1 DEF SetUserActiveState
      <4>3. b \in BOOLEAN
        OBVIOUS
      <4> HIDE DEF b
      <4>4. QED
        BY <4>2, <4>3
    <3> DEFINE x == [row[u] EXCEPT !.blocked = b]
    <3>2. /\ x.username = row[u].username /\ x.email = row[u].email
          /\ x.password = row[u].password /\ x.genres = row[u].genres
          /\ x.firstLogin = row[u].firstLogin
      BY <1>2, StateWritten
    <3>3. row'[u] = x
      BY <1>2, <3>1
    <3>4. Inserted(u)'
      BY <1>1 DEF Grows
    <3>5. QED
      BY <1>1, <1>4, <3>2, <3>3, <3>4
  <2>3. QED
    BY <2>1, <2>2
<1>5. QED
  BY <1>3, <1>4

(* Steps that are not a worker's. *)
LEMMA ReadKept ==
  ASSUME BaseInv, ReadAll,
         \A d \in Client : line[d] # <<>> => line'[d] # <<>> /\ Head(line'[d]) = Head(line[d]),
         UNCHANGED <<stage, job, late>>,
         \A v \in User : /\ Inserted(v)' <=> Inserted(v)
                         /\ Inserted(v) => /\ row'[v].username = row[v].username
                                           /\ row'[v].email = row[v].email
                                           /\ row'[v].genres = row[v].genres
  PROVE ReadAll'
<1>1. Grows
  BY DEF Grows
<1>2. ASSUME NEW d \in Client PROVE Read(d)'
  <2>1. Read(d)
    BY DEF ReadAll
  <2>2. \A v \in User, f \in Columns :
          Inserted(v)' /\ (Inserted(v) => row'[v][f] # row[v][f]) => <<v, f>> \in late'[d]
    BY DEF Columns
  <2>3. QED
    BY <1>1, <2>1, <2>2, StillRead
<1>3. QED
  BY <1>2 DEF ReadAll

LEMMA FormsStep == FormsInv /\ [Next]_vars => FormsInv'
<1> SUFFICES ASSUME FormsInv, [Next]_vars PROVE FormsInv'
  OBVIOUS
<1>1. BaseInv /\ ReadAll /\ BaseInv'
  BY BaseStep DEF FormsInv
<1>2. ASSUME NEW c \in Client, Work(c) PROVE ReadAll'
  <2>1. ASSUME NEW d \in Client PROVE Read(d)'
    <3>1. Read(d)
      BY <1>1 DEF ReadAll
    <3>2. CASE d = c
      BY <1>1, <1>2, <3>1, <3>2, OwnRead
    <3>3. CASE d # c
      <4>1. line'[d] = line[d] /\ stage'[d] = stage[d] /\ job'[d] = job[d]
        BY <1>1, <1>2, <3>3, OthersStay
      <4>2. Grows
        BY <1>1, <1>2, RowStep DEF RowsGrow
      <4>3. \A v \in User : Inserted(v) /\ row[v].genres => row'[v].genres
        BY <1>1, <1>2, ColumnChanges
      <4>4. stage[d] # "look" =>
              /\ late[d] \subseteq late'[d]
              /\ \A v \in User, f \in Columns :
                   Inserted(v)' /\ (Inserted(v) => row'[v][f] # row[v][f]) => <<v, f>> \in late'[d]
        BY <1>1, <1>2, <3>3, Marked
      <4>5. QED
        BY <1>1, <3>1, <4>1, <4>2, <4>3, <4>4, StillRead
    <3>4. QED
      BY <3>2, <3>3
  <2>2. QED
    BY <2>1 DEF ReadAll
<1>3. ASSUME NEW c \in Client, SubmitForm(c) PROVE ReadAll'
  <2>1. PICK r \in Good : Submit(c, r)
    BY <1>1, <1>3, ProfileSent
  <2>2. /\ line \in [Client -> Seq(Good)] /\ line' = [line EXCEPT ![c] = Append(@, r)]
        /\ UNCHANGED <<row, stage, job, late>>
    BY <1>1, <2>1 DEF BaseInv, Known, Submit, tables
  <2>3. \A d \in Client : line[d] # <<>> => line'[d] # <<>> /\ Head(line'[d]) = Head(line[d])
    BY <2>2, AppendSeq
  <2>4. QED
    BY <1>1, <2>2, <2>3, ReadKept DEF Inserted
<1>4. CASE UNCHANGED vars \/ \E c \in Client : Receive(c) \/ Restart(c)
  <2>1. UNCHANGED <<row, line, stage, job, late>>
    BY <1>4 DEF vars, Receive, Restart, tables
  <2>2. ReadAll'
    BY <1>1, <2>1, ReadKept DEF Inserted
  <2>3. QED
    BY <1>1, <2>2 DEF FormsInv
<1>5. ASSUME NEW u \in User, DeleteUser(u) \/ \E active \in BOOLEAN : SetUserActiveState(u, active)
      PROVE ReadAll'
  <2>1. UNCHANGED <<line, stage, job, late>>
    BY <1>5 DEF DeleteUser, SetUserActiveState
  <2>2. QED
    BY <1>1, <1>5, <2>1, ReadKept, AdminColumns
<1>6. ASSUME Crash PROVE ReadAll'
  BY <1>6 DEF Crash, ReadAll, Read
<1>7. QED
  BY <1>1, <1>2, <1>3, <1>4, <1>5, <1>6 DEF Next, FormsInv

LEMMA FormsHold == Spec => []FormsInv
<1>1. Init => FormsInv
  BY InitBase DEF Init, FormsInv, ReadAll, Read
<1>2. QED
  BY <1>1, FormsStep, PTL DEF Spec

(* Only a worker writes these columns, or gives anybody a row. *)
LEMMA RowWork ==
  ASSUME FormsInv, [Next]_vars, NEW u \in User,
         NEW f \in {"username", "email", "password", "genres", "firstLogin"},
         IF Inserted(u) THEN row'[u][f] # row[u][f] ELSE row'[u] # row[u]
  PROVE \E c \in Client : Work(c)
<1>1. BaseInv /\ row' # row
  BY DEF FormsInv
<1>2. ASSUME NEW c \in Client PROVE ~SubmitForm(c)
  BY <1>1, ProfileSent DEF Submit, tables
<1>3. ASSUME NEW v \in User, DeleteUser(v) \/ \E active \in BOOLEAN : SetUserActiveState(v, active)
      PROVE FALSE
  <2>1. /\ Inserted(u)' <=> Inserted(u)
        /\ Inserted(u) => row'[u][f] = row[u][f]
    BY <1>1, <1>3, AdminColumns
  <2>2. QED
    BY <2>1 DEF Inserted
<1>4. QED
  BY <1>1, <1>2, <1>3 DEF Next, vars, Receive, Restart, Crash, tables

(* A password changes only by a request that knew the old one, or the answer: *)
(* what a reset has compared still belongs to whoever has the name, unless    *)
(* the name has passed on since.                                              *)
THEOREM PasswordsAreGuarded == Spec => PasswordsGuarded
<1> DEFINE Guarded(u) ==
      Inserted(u) /\ row'[u].password # row[u].password =>
        \E c \in Client :
          /\ Takes(c, "CHANGE", "write") \/ Takes(c, "RESET", "write")
          /\ job[c].knew
          /\ job[c].user = u \/ <<job[c].user, "username">> \in late[c]
<1>1. ASSUME FormsInv, [Next]_vars, NEW u \in User PROVE Guarded(u)
  <2>1. BaseInv /\ ReadAll
    BY <1>1 DEF FormsInv
  <2>2. SUFFICES ASSUME Inserted(u), row'[u].password # row[u].password PROVE Guarded(u)
    OBVIOUS
  <2>3. PICK c \in Client : Work(c)
    BY <1>1, <2>2, RowWork
  <2>4. \/ Reset(c) /\ u \in Named(Head(line[c]).name)
        \/ ChangePassword(c) /\ u = Head(line[c]).user
    BY <2>1, <2>2, <2>3, ColumnChanges
  <2>5. Staged(c) /\ line[c] # <<>> /\ Rows /\ Read(c)
    BY <2>1, <2>3, InWork DEF ReadAll
  <2>6. CASE ChangePassword(c) /\ u = Head(line[c]).user
    <3>1. Takes(c, "CHANGE", "write")
      BY <2>6 DEF ChangePassword
    <3>2. job[c] = [user |-> u, knew |-> TRUE]
      BY <2>5, <2>6, <3>1 DEF Staged, Takes
    <3>3. QED
      BY <3>1, <3>2
  <2>7. CASE Reset(c) /\ u \in Named(Head(line[c]).name)
    <3>1. Takes(c, "RESET", "write")
      BY <2>7 DEF Reset
    <3>2. job[c].knew
      BY <2>5, <3>1 DEF Staged, Takes
    <3>3. \/ job[c].user \in Named(Head(line[c]).name)
          \/ <<job[c].user, "username">> \in late[c]
      BY <2>5, <3>1 DEF Read, StillNamed, Takes
    <3>4. Named(Head(line[c]).name) = {u}
      BY <2>2, <2>5, <2>7 DEF Rows, Named
    <3>5. QED
      BY <3>1, <3>2, <3>3, <3>4
  <2>8. QED
    BY <2>4, <2>6, <2>7
<1>2. FormsInv /\ [Next]_vars =>
        [\A u \in User : Inserted(u) /\ row'[u].password # row[u].password =>
           \E c \in Client :
             /\ Takes(c, "CHANGE", "write") \/ Takes(c, "RESET", "write")
             /\ job[c].knew
             /\ job[c].user = u \/ <<job[c].user, "username">> \in late[c]]_vars
  BY <1>1
<1>3. QED
  BY <1>2, FormsHold, PTL DEF Spec, PasswordsGuarded

(* An edited profile differs in the fields of the form and in nothing else:   *)
(* what a publisher left empty is written as it was read, and as it is unless *)
(* another client has changed it since.                                       *)
THEOREM ProfilesAreKept == Spec => ProfileKept
<1>1. ASSUME FormsInv, [Next]_vars, NEW u \in User, NEW f \in Columns, Inserted(u),
             row'[u][f] # row[u][f]
      PROVE \E c \in Client :
              /\ Takes(c, "UPDATE", "write")
              /\ Head(line[c]).user = u
              /\ f \in DOMAIN Head(line[c]).sent \/ <<u, f>> \in late[c]
  <2>1. BaseInv /\ ReadAll
    BY <1>1 DEF FormsInv
  <2>2. PICK c \in Client : Work(c)
    BY <1>1, RowWork DEF Columns
  <2>3. UpdateProfile(c) /\ u = Head(line[c]).user /\ row'[u] = job[c].write ++ row[u]
    BY <1>1, <2>1, <2>2, ColumnChanges DEF Columns
  <2>4. Takes(c, "UPDATE", "write")
    BY <2>3 DEF UpdateProfile
  <2>5. /\ job[c].asked \subseteq DOMAIN Head(line[c]).sent
        /\ \A g \in DOMAIN job[c].write \ job[c].asked :
             job[c].write[g] = row[u][g] \/ <<u, g>> \in late[c]
    BY <2>1, <2>3, <2>4 DEF ReadAll, Read, StillCurrent, Takes
  <2>6. job[c].write \in Written /\ row[u] \in Row
    BY <1>1, <2>1, <2>2, <2>4, InWork, JobFields DEF Staged, ProfileJob, Takes
  <2>7. row'[u][f] = IF f \in DOMAIN job[c].write THEN job[c].write[f] ELSE row[u][f]
    BY <2>3, <2>6, WriteOver DEF Columns
  <2>8. f \in DOMAIN Head(line[c]).sent \/ <<u, f>> \in late[c]
    BY <1>1, <2>5, <2>7
  <2>9. QED
    BY <2>3, <2>4, <2>8
<1>2. FormsInv /\ [Next]_vars =>
        [\A u \in User, f \in Columns : Inserted(u) /\ row'[u][f] # row[u][f] =>
           \E c \in Client :
             /\ Takes(c, "UPDATE", "write")
             /\ Head(line[c]).user = u
             /\ f \in DOMAIN Head(line[c]).sent \/ <<u, f>> \in late[c]]_vars
  BY <1>1
<1>3. QED
  BY <1>2, FormsHold, PTL DEF Spec, ProfileKept

-----------------------------------------------------------------------------
(* Addresses. *)

(* An address written anew is nobody else's, or its writer was late. *)
LEMMA NewEmail ==
  ASSUME FormsInv, NEW c \in Client, Work(c), NEW u \in User, NEW v \in User \ {u},
         Inserted(u)', Inserted(v)', Inserted(u) => row'[u].email # row[u].email,
         row'[v].email = row'[u].email
  PROVE row'[u].email \in raced' \cup {NoEmail}
<1>1. BaseInv /\ ReadAll
  BY DEF FormsInv
<1>2. CASE ~Inserted(u)
  <2>1. row'[u] # row[u]
    BY <1>2 DEF Inserted
  <2>2. row'[u] = NewRow(Head(line[c]).name, Head(line[c]).pass)
    BY <1>1, <1>2, <2>1, RowChanges
  <2>3. row'[u].email = NoEmail
    BY <2>2 DEF NewRow
  <2>4. QED
    BY <2>3
<1>3. CASE Inserted(u)
  <2>1. UpdateProfile(c) /\ u = Head(line[c]).user /\ row'[u] = job[c].write ++ row[u]
    BY <1>1, <1>3, ColumnChanges
  <2>2. /\ Takes(c, "UPDATE", "write") /\ Head(line[c]).type = "UPDATE"
        /\ line[c] # <<>> /\ stage[c] = "write"
    BY <2>1 DEF UpdateProfile, Takes
  <2>3. /\ row' = [row EXCEPT ![u] = job[c].write ++ row[u]]
        /\ raced' = IF \E w \in User : <<w, "email">> \in late[c]
                    THEN raced \cup {(job[c].write ++ row[u]).email} ELSE raced
    BY <1>3, <2>1 DEF UpdateProfile
  <2>4. row'[v] = row[v] /\ Inserted(v)
    BY <1>1, <2>3 DEF BaseInv, TypeOK, Inserted
  <2>5. job[c].write \in Written /\ row[u] \in Row
    BY <1>1, <1>3, <2>2, InWork, JobFields DEF Staged, ProfileJob
  <2>6. "email" \in DOMAIN job[c].write /\ row'[u].email = job[c].write["email"]
    BY <1>3, <2>1, <2>5, WriteOver
  <2>7. StillCurrent(c) /\ StillFree(c)
    BY <1>1, <2>2 DEF ReadAll, Read
  <2>8. CASE "email" \in job[c].asked
    <3>1. <<v, "email">> \in late[c]
      BY <2>1, <2>2, <2>4, <2>6, <2>7, <2>8 DEF StillFree
    <3>2. QED
      BY <2>1, <2>3, <3>1
  <2>9. CASE "email" \notin job[c].asked
    <3>1. <<u, "email">> \in late[c]
      BY <1>3, <2>1, <2>2, <2>6, <2>7, <2>9 DEF StillCurrent
    <3>2. QED
      BY <2>1, <2>3, <3>1
  <2>10. QED
    BY <2>8, <2>9
<1>4. QED
  BY <1>2, <1>3

LEMMA RacedGrows ==
  ASSUME [Next]_vars
  PROVE raced \subseteq raced'
<1>1. ASSUME NEW c \in Client, Work(c) PROVE raced \subseteq raced'
  BY <1>1 DEF Work, Login, RegisterLook, Register, ResetLook, Reset, ChangeLook, ChangePassword,
     ReadProfile, CheckName, CheckEmail, UpdateProfile, SetFavoriteGenres, SetFirstLoginFalse,
     StatementFails, Looked, LookedAgain
<1>2. ASSUME NEW c \in Client, SubmitForm(c) PROVE raced' = raced
  BY <1>2 DEF SubmitForm, SubmitLogin, SubmitRegister, SubmitReset, SubmitPassword, SubmitProfile,
     SubmitGenres, Submit
<1>3. QED
  BY <1>1, <1>2 DEF Next, vars, Receive, Restart, Crash, DeleteUser, SetUserActiveState

(* No two users have one address but by a race: the query before the write    *)
(* is enough as long as nobody else changes an address between the two.       *)
THEOREM EmailsAreUnique == Spec => []EmailsOnce
<1>1. Init => EmailsOnce
  <2> SUFFICES ASSUME Init, NEW u \in User, Inserted(u) PROVE row[u].email = NoEmail
    BY DEF EmailsOnce
  <2>1. PICK there \in SUBSET User : \E chosen \in SUBSET (there \ Publisher) :
          row = [v \in User |->
                   IF v \in there
                   THEN [NewRow(FirstName[v], FirstPass) EXCEPT
                           !.firstLogin = v \notin chosen, !.genres = v \in chosen]
                   ELSE NoRow]
    BY DEF Init
  <2>2. PICK chosen \in SUBSET (there \ Publisher) :
          row = [v \in User |->
                   IF v \in there
                   THEN [NewRow(FirstName[v], FirstPass) EXCEPT
                           !.firstLogin = v \notin chosen, !.genres = v \in chosen]
                   ELSE NoRow]
    BY <2>1
  <2> DEFINE a == u \notin chosen
  <2> DEFINE b == u \in chosen
  <2>3. row[u] = [NewRow(FirstName[u], FirstPass) EXCEPT !.firstLogin = a, !.genres = b]
    BY <2>2 DEF Inserted
  <2> HIDE DEF a, b
  <2>4. QED
    BY <2>3 DEF NewRow
<1>2. FormsInv /\ EmailsOnce /\ [Next]_vars => EmailsOnce'
  <2> SUFFICES ASSUME FormsInv, EmailsOnce, [Next]_vars, NEW u \in User, NEW v \in User, u # v,
                      Inserted(u)', Inserted(v)', row'[u].email = row'[v].email
               PROVE row'[u].email \in raced' \cup {NoEmail}
    BY DEF EmailsOnce
  <2>1. CASE Inserted(u) => row'[u].email # row[u].email
    BY <2>1, RowWork, NewEmail DEF Inserted
  <2>2. CASE Inserted(v) => row'[v].email # row[v].email
    BY <2>2, RowWork, NewEmail DEF Inserted
  <2>3. CASE /\ Inserted(u) /\ row'[u].email = row[u].email
             /\ Inserted(v) /\ row'[v].email = row[v].email
    BY <2>3, RacedGrows DEF EmailsOnce
  <2>4. QED
    BY <2>1, <2>2, <2>3
<1>3. QED
  BY <1>1, <1>2, FormsHold, PTL DEF Spec

-----------------------------------------------------------------------------
(* The first login. *)

(* Between the two statements of the genre page, what it has chosen waits for *)
(* the second.                                                                *)
Choosing(c, u) == Takes(c, "GENRES", "first") /\ u \in job[c].saved

LEMMA ChoosingStays ==
  ASSUME FormsInv, [Next]_vars, ~Crash, NEW d \in Client, NEW u \in User, Choosing(d, u),
         ~Work(d)
  PROVE Choosing(d, u)'
<1>1. BaseInv /\ line[d] # <<>> /\ line \in [Client -> Seq(Good)]
  BY DEF FormsInv, Choosing, Takes, BaseInv, Known
<1>2. ASSUME line'[d] = line[d], stage'[d] = stage[d], job'[d] = job[d]
      PROVE Choosing(d, u)'
  BY <1>2 DEF Choosing, Takes
<1>3. ASSUME NEW c \in Client, Work(c) PROVE Choosing(d, u)'
  BY <1>1, <1>2, <1>3, OthersStay
<1>4. ASSUME NEW c \in Client, SubmitForm(c) PROVE Choosing(d, u)'
  <2>1. PICK r \in Good : Submit(c, r)
    BY <1>1, <1>4, ProfileSent
  <2>2. line' = [line EXCEPT ![c] = Append(@, r)] /\ UNCHANGED <<stage, job>>
    BY <2>1 DEF Submit
  <2>3. line'[d] # <<>> /\ Head(line'[d]) = Head(line[d])
    BY <1>1, <2>2, AppendSeq
  <2>4. QED
    BY <2>2, <2>3 DEF Choosing, Takes
<1>5. QED
  BY <1>2, <1>3, <1>4 DEF Next, vars, Receive, Restart, DeleteUser, SetUserActiveState

LEMMA TornGrows ==
  ASSUME FormsInv, [Next]_vars
  PROVE torn \subseteq torn'
<1>1. ASSUME NEW c \in Client, Work(c) PROVE torn \subseteq torn'
  BY <1>1 DEF Work, Login, RegisterLook, Register, ResetLook, Reset, ChangeLook, ChangePassword,
     ReadProfile, CheckName, CheckEmail, UpdateProfile, SetFavoriteGenres, SetFirstLoginFalse,
     StatementFails, Looked, LookedAgain
<1>2. ASSUME NEW c \in Client, SubmitForm(c) PROVE torn' = torn
  BY <1>2, ProfileSent DEF Submit, FormsInv
<1>3. QED
  BY <1>1, <1>2 DEF Next, vars, Receive, Restart, Crash, DeleteUser, SetUserActiveState

(* What a worker's step leaves of a row whose two columns are as they were,   *)
(* or were being written.                                                     *)
LEMMA GenresStep ==
  ASSUME FormsInv, NEW c \in Client, Work(c), NEW u \in User \ torn', Inserted(u),
         \/ row[u].firstLogin = ~row[u].genres
         \/ Choosing(c, u)
  PROVE \/ row'[u].firstLogin = ~row'[u].genres
        \/ Choosing(c, u)'
<1> DEFINE r == Head(line[c])
<1>1. /\ BaseInv /\ Read(c) /\ Staged(c) /\ line[c] # <<>>
      /\ row[u] \in Row /\ Queues /\ row \in [User -> Row \cup {NoRow}]
  BY InWork DEF FormsInv, ReadAll, BaseInv, TypeOK
<1>2. CASE SetFavoriteGenres(c)
  <2>1. /\ GoOn(c, "first", [saved |-> Named(r.name)]) /\ r.type = "GENRES"
        /\ stage[c] = "look"
    BY <1>2 DEF SetFavoriteGenres, Takes
  <2>2. line' = line /\ stage'[c] = "first" /\ job'[c].saved = Named(r.name)
    BY <1>1, <2>1, WentOn
  <2>3. ~Choosing(c, u)
    BY <2>1 DEF Choosing, Takes
  <2>4. CASE u \in Named(r.name)
    BY <1>1, <2>1, <2>2, <2>4 DEF Choosing, Takes
  <2>5. CASE u \notin Named(r.name)
    <3>1. row'[u] = row[u]
      BY <1>2, <2>5 DEF SetFavoriteGenres
    <3>2. QED
      BY <2>3, <3>1
  <2>6. QED
    BY <2>4, <2>5
<1>3. CASE SetFirstLoginFalse(c)
  <2>1. /\ r.type = "GENRES" /\ stage[c] = "first"
        /\ torn' = torn \cup (Named(r.name) \ job[c].saved) \cup (job[c].saved \ Named(r.name))
    BY <1>3 DEF SetFirstLoginFalse, Takes
  <2>2. u \in Named(r.name) <=> u \in job[c].saved
    BY <2>1
  <2>3. CASE u \in Named(r.name)
    <3>1. row[u].genres = TRUE
      BY <1>1, <2>1, <2>2, <2>3, RowFields DEF Read, StillChosen
    <3>2. row'[u] = [row[u] EXCEPT !.firstLogin = FALSE]
      BY <1>3, <2>3 DEF SetFirstLoginFalse
    <3> DEFINE y == [row[u] EXCEPT !["firstLogin"] = FALSE]
    <3>3. y.firstLogin = FALSE /\ y.genres = row[u].genres
      BY <1>1, FlagWritten
    <3>4. QED
      BY <3>1, <3>2, <3>3
  <2>4. CASE u \notin Named(r.name)
    <3>1. row'[u] = row[u]
      BY <1>3, <2>4 DEF SetFirstLoginFalse
    <3>2. QED
      BY <2>2, <2>4, <3>1 DEF Choosing
  <2>5. QED
    BY <2>3, <2>4
<1>4. CASE StatementFails(c)
  <2>1. row' = row /\ (stage[c] = "first" => torn' = torn \cup job[c].saved)
    BY <1>4 DEF StatementFails, tables
  <2>2. ~Choosing(c, u)
    BY <2>1 DEF Choosing, Takes
  <2>3. QED
    BY <2>1, <2>2
<1>5. CASE ~(SetFavoriteGenres(c) \/ SetFirstLoginFalse(c) \/ StatementFails(c))
  <2>1. row'[u].firstLogin = row[u].firstLogin /\ row'[u].genres = row[u].genres
    BY <1>1, <1>5, ColumnChanges
  <2>2. ~Choosing(c, u)
    BY <1>1, <1>5 DEF Work, Login, RegisterLook, Register, ResetLook, Reset, ChangeLook,
       ChangePassword, ReadProfile, CheckName, CheckEmail, UpdateProfile, Choosing, Takes
  <2>3. QED
    BY <2>1, <2>2
<1>6. QED
  BY <1>2, <1>3, <1>4, <1>5

(* Whoever has chosen genres is not asked again and whoever has not is, but   *)
(* for a crash, a failure or a rename between the two statements of the genre *)
(* page.                                                                      *)
THEOREM FirstLoginIsOnce == Spec => []FirstLoginOnce
<1>1. Init => FirstLoginOnce
  <2> SUFFICES ASSUME Init, NEW u \in User, Inserted(u) PROVE row[u].firstLogin = ~row[u].genres
    BY DEF FirstLoginOnce
  <2>1. PICK there \in SUBSET User : \E chosen \in SUBSET (there \ Publisher) :
          row = [v \in User |->
                   IF v \in there
                   THEN [NewRow(FirstName[v], FirstPass) EXCEPT
                           !.firstLogin = v \notin chosen, !.genres = v \in chosen]
                   ELSE NoRow]
    BY DEF Init
  <2>2. PICK chosen \in SUBSET (there \ Publisher) :
          row = [v \in User |->
                   IF v \in there
                   THEN [NewRow(FirstName[v], FirstPass) EXCEPT
                           !.firstLogin = v \notin chosen, !.genres = v \in chosen]
                   ELSE NoRow]
    BY <2>1
  <2>3. row[u] = [NewRow(FirstName[u], FirstPass) EXCEPT
                    !.firstLogin = u \notin chosen, !.genres = u \in chosen]
    BY <2>2 DEF Inserted
  <2>4. (row[u].firstLogin <=> u \notin chosen) /\ (row[u].genres <=> u \in chosen)
    BY <2>3 DEF NewRow
  <2>5. row[u] \in Row
    BY InitBase DEF BaseInv, TypeOK, Inserted
  <2>6. row[u].firstLogin \in BOOLEAN /\ row[u].genres \in BOOLEAN
    BY <2>5, RowFields
  <2>7. QED
    BY <2>4, <2>6
<1>2. FormsInv /\ FirstLoginOnce /\ [Next]_vars => FirstLoginOnce'
  <2> SUFFICES ASSUME FormsInv, FirstLoginOnce, [Next]_vars, NEW u \in User \ torn', Inserted(u)'
               PROVE \/ row'[u].firstLogin = ~row'[u].genres
                     \/ \E d \in Client : Choosing(d, u)'
    BY DEF FirstLoginOnce, Choosing
  <2>1. BaseInv /\ u \notin torn
    BY TornGrows DEF FormsInv
  <2>2. CASE ~Inserted(u)
    <3>1. PICK c \in Client : Work(c)
      BY <2>2, RowWork DEF Inserted
    <3>2. \E n, p : row'[u] = NewRow(n, p)
      BY <2>1, <2>2, <3>1, RowChanges DEF Inserted
    <3>3. row'[u].firstLogin = TRUE /\ row'[u].genres = FALSE
      BY <3>2 DEF NewRow
    <3>4. QED
      BY <3>3
  <2>3. CASE Inserted(u)
    <3>1. \/ row[u].firstLogin = ~row[u].genres
          \/ \E d \in Client : Choosing(d, u)
      BY <2>1, <2>3 DEF FirstLoginOnce, Choosing
    <3>2. CASE \E c \in Client : Work(c)
      <4>1. PICK c \in Client : Work(c)
        BY <3>2
      <4>2. CASE \E d \in Client \ {c} : Choosing(d, u)
        <5>1. PICK d \in Client \ {c} : Choosing(d, u)
          BY <4>2
        <5>2. line'[d] = line[d] /\ stage'[d] = stage[d] /\ job'[d] = job[d]
          BY <2>1, <4>1, OthersStay
        <5>3. Choosing(d, u)'
          BY <5>1, <5>2 DEF Choosing, Takes
        <5>4. QED
          BY <5>3
      <4>3. CASE ~\E d \in Client \ {c} : Choosing(d, u)
        BY <2>3, <3>1, <4>1, <4>3, GenresStep
      <4>4. QED
        BY <4>2, <4>3
    <3>3. CASE Crash
      <4>1. /\ row' = row
            /\ torn' = torn \cup UNION {job[c].saved : c \in {d \in Client : Takes(d, "GENRES", "first")}}
        BY <3>3 DEF Crash, tables
      <4>2. ~\E d \in Client : Choosing(d, u)
        BY <4>1 DEF Choosing
      <4>3. QED
        BY <3>1, <4>1, <4>2
    <3>4. CASE ~Crash /\ ~\E c \in Client : Work(c)
      <4>1. row'[u].firstLogin = row[u].firstLogin /\ row'[u].genres = row[u].genres
        BY <2>3, <3>4, RowWork
      <4>2. QED
        BY <3>1, <3>4, <4>1, ChoosingStays
    <3>5. QED
      BY <3>2, <3>3, <3>4
  <2>4. QED
    BY <2>2, <2>3
<1>3. QED
  BY <1>1, <1>2, FormsHold, PTL DEF Spec

-----------------------------------------------------------------------------
(***************************************************************************)
(* The inductive invariant, third part: whose name a genre page has.       *)
(***************************************************************************)

(* u has the name n still, or has had it before it took another. *)
Of(n, u) == Inserted(u) /\ (row[u].username = n \/ u \in renamed)

Asked == {r \in Request : r.type = "GENRES" => Of(r.name, r.user)}
Told == {m \in Response : m.type = "LOGIN" /\ m.ok => Of(m.to.name, m.user)}

PagesOwn ==
  /\ line \in [Client -> Seq(Asked)]
  /\ down \in [Client -> Seq(Told)]
  /\ \A c \in Client : user[c] # NoUser => Of(formName[c], user[c])

(* Who takes another name is remembered. *)
Remembers ==
  \A u \in User, n \in UserName : Of(n, u) => Of(n, u)'

LEMMA RenamesStay ==
  ASSUME BaseInv, NEW c \in Client, Work(c)
  PROVE Remembers
<1>1. Grows
  BY RowStep DEF RowsGrow
<1>2. renamed \subseteq renamed'
  BY DEF Work, Login, RegisterLook, Register, ResetLook, Reset, ChangeLook, ChangePassword,
     ReadProfile, CheckName, CheckEmail, UpdateProfile, SetFavoriteGenres, SetFirstLoginFalse,
     StatementFails, Looked, LookedAgain
<1>3. ASSUME NEW u \in User, Inserted(u), row'[u].username # row[u].username
      PROVE u \in renamed'
  <2>1. UpdateProfile(c) /\ u = Head(line[c]).user /\ row'[u] = job[c].write ++ row[u]
    BY <1>3, ColumnChanges
  <2>2. row' # row
    BY <1>3
  <2>3. renamed' = IF (job[c].write ++ row[u]).username # row[u].username
                   THEN renamed \cup {u} ELSE renamed
    BY <2>1, <2>2 DEF UpdateProfile
  <2>4. QED
    BY <1>3, <2>1, <2>3
<1>4. QED
  BY <1>1, <1>2, <1>3 DEF Remembers, Of, Grows

LEMMA NamesKept ==
  ASSUME Remembers
  PROVE Asked \subseteq Asked' /\ Told \subseteq Told'
<1>1. \A r \in Request : r.type = "GENRES" => r.name \in UserName /\ r.user \in User
  BY RequestFields
<1>2. \A m \in Response : m.type = "LOGIN" /\ m.ok => m.to.name \in UserName /\ m.user \in User
  BY ResponseFields
<1>3. QED
  BY <1>1, <1>2 DEF Remembers, Asked, Told

(* A request or an answer more, or one less. *)
LEMMA SeqOneMoreOrLess ==
  ASSUME NEW S, NEW T, S \subseteq T, NEW q \in Seq(S), NEW p,
         \/ p = q
         \/ q # <<>> /\ p = Tail(q)
         \/ \E x \in T : p = Append(q, x)
  PROVE p \in Seq(T)
<1>1. q \in Seq(T)
  BY SeqOfMore
<1>2. q # <<>> => Tail(q) \in Seq(T)
  BY <1>1, TailSeq
<1>3. \A x \in T : Append(q, x) \in Seq(T)
  BY <1>1, AppendSeq
<1>4. QED
  BY <1>1, <1>2, <1>3

LEMMA PagesOwnStep == BaseInv /\ PagesOwn /\ [Next]_vars => PagesOwn'
<1> SUFFICES ASSUME BaseInv, PagesOwn, [Next]_vars PROVE PagesOwn'
  OBVIOUS
<1>1. /\ user \in [Client -> User \cup {NoUser}] /\ formName \in [Client -> UserName \cup {""}]
      /\ \A c \in Client : user[c] # NoUser => formName[c] \in UserName /\ user[c] \in User
      /\ \A c \in Client : line[c] \in Seq(Asked) /\ down[c] \in Seq(Told)
      /\ line \in [Client -> Seq(Asked)] /\ down \in [Client -> Seq(Told)]
  BY DEF BaseInv, TypeOK, Known, PagesOwn
<1>2. ASSUME NEW c \in Client, Work(c) PROVE PagesOwn'
  <2>1. Remembers /\ Asked \subseteq Asked' /\ Told \subseteq Told' /\ UNCHANGED pages
    BY <1>2, RenamesStay, NamesKept, MarkStep
  <2>2. TrueAnswers \subseteq Told
    BY DEF TrueAnswers, Told, Of, Named
  <2>3. ASSUME NEW d \in Client PROVE line'[d] \in Seq(Asked') /\ down'[d] \in Seq(Told')
    <3>1. line'[d] = line[d] \/ (line[d] # <<>> /\ line'[d] = Tail(line[d]))
      BY <1>2, LinesStep
    <3>2. down'[d] = down[d] \/ \E m \in Told' : down'[d] = Append(down[d], m)
      BY <1>2, <2>1, <2>2, LinesStep
    <3>3. line'[d] \in Seq(Asked')
      BY <1>1, <2>1, <3>1, SeqOneMoreOrLess
    <3>4. down'[d] \in Seq(Told')
      BY <1>1, <2>1, <3>2, SeqOneMoreOrLess
    <3>5. QED
      BY <3>3, <3>4
  <2>4. line' \in [Client -> Seq(Asked')] /\ down' \in [Client -> Seq(Told')]
    <3>1. line' = [d \in Client |-> line'[d]] /\ down' = [d \in Client |-> down'[d]]
      BY <1>2, LinesStep DEF Queues
    <3>2. QED
      BY <2>3, <3>1
  <2>5. \A d \in Client : user[d] # NoUser => Of(formName[d], user[d])'
    BY <1>1, <2>1 DEF PagesOwn, Remembers, pages
  <2>6. QED
    BY <2>1, <2>4, <2>5 DEF PagesOwn, pages
<1>3. ASSUME UNCHANGED <<renamed, row>>
      PROVE Asked' = Asked /\ Told' = Told /\ \A n, u : Of(n, u)' <=> Of(n, u)
  BY <1>3 DEF Asked, Told, Of, Inserted
<1>4. ASSUME NEW c \in Client, SubmitForm(c) PROVE PagesOwn'
  <2>1. PICK r \in Good : Submit(c, r) /\ (r.type = "GENRES" => SubmitGenres(c))
    BY <1>4, ProfileSent
  <2>2. /\ line' = [line EXCEPT ![c] = Append(@, r)]
        /\ UNCHANGED <<row, renamed, down, user, formName>>
    BY <2>1 DEF Submit, tables, pages
  <2>3. r \in Asked
    <3>1. r \in Request
      BY DEF Good
    <3>2. ASSUME r.type = "GENRES" PROVE Of(r.name, r.user)
      <4> DEFINE q == [type |-> "GENRES", name |-> formName[c], user |-> user[c]]
      <4>1. user[c] # NoUser /\ Submit(c, q)
        BY <2>1, <3>2, UserAssumption DEF SubmitGenres
      <4>2. line'[c] = Append(line[c], r) /\ line'[c] = Append(line[c], q)
        BY <1>1, <2>1, <4>1 DEF Submit
      <4> HIDE DEF q
      <4>3. r = q
        <5>1. line[c] \in Seq(Asked \cup {q, r})
          BY <1>1, SeqOfMore
        <5>2. /\ Append(line[c], r)[Len(line[c]) + 1] = r
              /\ Append(line[c], q)[Len(line[c]) + 1] = q
          BY <5>1, AppendSeq
        <5>3. QED
          BY <4>2, <5>2
      <4>4. QED
        BY <4>1, <4>3 DEF PagesOwn, q
    <3>3. QED
      BY <3>1, <3>2 DEF Asked
  <2>4. Append(line[c], r) \in Seq(Asked)
    BY <1>1, <2>3, AppendSeq
  <2>5. line' \in [Client -> Seq(Asked)]
    BY <1>1, <2>2, <2>4
  <2>6. QED
    BY <1>3, <2>2, <2>5 DEF PagesOwn
<1>5. ASSUME NEW c \in Client, Receive(c) PROVE PagesOwn'
  <2> DEFINE m == Head(down[c])
  <2>1. /\ down[c] # <<>> /\ down' = [down EXCEPT ![c] = Tail(@)]
        /\ UNCHANGED <<row, renamed, line>>
    BY <1>5 DEF Receive, tables
  <2>2. m \in Told /\ Tail(down[c]) \in Seq(Told)
    BY <1>1, <2>1, TailSeq
  <2>3. \/ /\ m.type = "LOGIN" /\ m.ok
           /\ user' = [user EXCEPT ![c] = m.user]
           /\ formName' = [formName EXCEPT ![c] = m.to.name]
        \/ UNCHANGED <<user, formName>>
    BY <1>5 DEF Receive, pages
  <2> HIDE DEF m
  <2>4. \A d \in Client : user'[d] # NoUser => Of(formName'[d], user'[d])
    BY <1>1, <2>2, <2>3 DEF PagesOwn, Told
  <2>5. down' \in [Client -> Seq(Told)]
    BY <1>1, <2>1, <2>2
  <2>6. QED
    BY <1>1, <1>3, <2>1, <2>4, <2>5 DEF PagesOwn
<1>6. ASSUME NEW c \in Client, Restart(c) PROVE PagesOwn'
  <2>1. user' = [user EXCEPT ![c] = NoUser] /\ formName' = [formName EXCEPT ![c] = ""]
        /\ UNCHANGED <<row, renamed, line, down>>
    BY <1>6 DEF Restart, tables
  <2>2. \A d \in Client : user'[d] # NoUser =>
          d # c /\ user'[d] = user[d] /\ formName'[d] = formName[d]
    BY <1>1, <2>1
  <2>3. QED
    BY <1>3, <2>1, <2>2 DEF PagesOwn
<1>7. ASSUME NEW u \in User, DeleteUser(u) \/ \E active \in BOOLEAN : SetUserActiveState(u, active)
      PROVE PagesOwn'
  <2>1. UNCHANGED <<line, down, user, formName, renamed>>
    BY <1>7 DEF DeleteUser, SetUserActiveState, pages
  <2>2. Remembers
    BY <1>7, <2>1, AdminColumns DEF Remembers, Of
  <2>3. Asked \subseteq Asked' /\ Told \subseteq Told'
    BY <2>2, NamesKept
  <2>4. \A d \in Client : line[d] \in Seq(Asked') /\ down[d] \in Seq(Told')
    BY <1>1, <2>3, SeqOfMore
  <2>5. line' \in [Client -> Seq(Asked')] /\ down' \in [Client -> Seq(Told')]
    BY <1>1, <2>1, <2>4
  <2>6. \A d \in Client : user[d] # NoUser => Of(formName[d], user[d])'
    BY <1>1, <2>1, <2>2 DEF PagesOwn, Remembers
  <2>7. QED
    BY <2>1, <2>5, <2>6 DEF PagesOwn
<1>8. CASE Crash
  BY <1>8, EmptySeq DEF Crash, PagesOwn
<1>9. CASE UNCHANGED vars
  BY <1>3, <1>9 DEF vars, PagesOwn
<1>10. QED
  BY <1>2, <1>4, <1>5, <1>6, <1>7, <1>8, <1>9 DEF Next

LEMMA InitPagesOwn == Init => PagesOwn
<1> SUFFICES ASSUME Init PROVE PagesOwn
  OBVIOUS
<1>1. PICK there \in SUBSET User : \E chosen \in SUBSET (there \ Publisher) :
        /\ row = [u \in User |->
                    IF u \in there
                    THEN [NewRow(FirstName[u], FirstPass) EXCEPT
                            !.firstLogin = u \notin chosen, !.genres = u \in chosen]
                    ELSE NoRow]
        /\ user \in [Client -> there \cup {NoUser}]
  BY DEF Init
<1>2. ASSUME NEW c \in Client, user[c] # NoUser PROVE Of(formName[c], user[c])
  <2>1. user[c] \in there /\ Inserted(user[c])
    BY <1>1, <1>2, InitBase DEF BaseInv, Known
  <2>2. row[user[c]].username = FirstName[user[c]]
    BY <1>1, <2>1 DEF NewRow
  <2>3. formName[c] = FirstName[user[c]]
    BY <1>2 DEF Init
  <2>4. QED
    BY <2>1, <2>2, <2>3 DEF Of
<1>3. QED
  BY <1>2, EmptySeq DEF Init, PagesOwn

(* The genres chosen at a client are written to the row of the user its page  *)
(* was made for, unless that user has taken another name meanwhile: as long   *)
(* as it has not, the name sent is its own and nobody else's.                 *)
THEOREM GenresAreOwn == Spec => GenresOwn
<1>1. ASSUME FormsInv, PagesOwn, [Next]_vars, NEW u \in User, NEW f \in {"genres", "firstLogin"},
             Inserted(u), row'[u][f] # row[u][f]
      PROVE \E c \in Client :
              /\ Takes(c, "GENRES", "look") \/ Takes(c, "GENRES", "first")
              /\ Head(line[c]).user \in {u} \cup renamed
  <2>1. PICK c \in Client : Work(c)
    BY <1>1, RowWork
  <2> DEFINE r == Head(line[c])
  <2>2. SetFavoriteGenres(c) \/ SetFirstLoginFalse(c)
    BY <1>1, <2>1, ColumnChanges DEF FormsInv
  <2>3. u \in Named(r.name)
    BY <1>1, <2>1, ColumnChanges DEF FormsInv
  <2>4. Takes(c, "GENRES", "look") \/ Takes(c, "GENRES", "first")
    BY <2>2 DEF SetFavoriteGenres, SetFirstLoginFalse
  <2>5. Of(r.name, r.user) /\ r.user \in User
    <3>1. line[c] \in Seq(Asked) /\ line[c] # <<>> /\ r.type = "GENRES"
      BY <1>1, <2>4 DEF PagesOwn, Takes
    <3>2. r \in Asked
      BY <3>1, TailSeq
    <3>3. QED
      BY <3>1, <3>2, RequestFields DEF Asked
  <2>6. Named(r.name) = {u}
    BY <1>1, <2>3 DEF FormsInv, BaseInv, UsernamesOnce, Named
  <2>7. r.user \in {u} \cup renamed
    BY <2>5, <2>6 DEF Of, Named
  <2>8. QED
    BY <2>4, <2>7
<1>2. FormsInv /\ PagesOwn /\ [Next]_vars =>
        [\A u \in User, f \in {"genres", "firstLogin"} : Inserted(u) /\ row'[u][f] # row[u][f] =>
           \E c \in Client :
             /\ Takes(c, "GENRES", "look") \/ Takes(c, "GENRES", "first")
             /\ Head(line[c]).user \in {u} \cup renamed]_vars
  BY <1>1
<1>3. FormsInv => BaseInv
  BY DEF FormsInv
<1>4. Spec => []PagesOwn
  BY <1>3, FormsHold, InitPagesOwn, PagesOwnStep, PTL DEF Spec
<1>5. QED
  BY <1>2, <1>4, FormsHold, PTL DEF Spec, GenresOwn
=============================================================================
