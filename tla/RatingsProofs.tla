---------------------------- MODULE RatingsProofs ----------------------------
(* Theorems about Ratings, for any users, books, sessions and ids. *)
EXTENDS Ratings, FiniteSetTheorems, TLAPS

(***************************************************************************)
(* A written row belongs to the book of its request; all others stay.      *)
(***************************************************************************)
LEMMA WrittenRows ==
  ASSUME TypeOK, NEW s \in Session, pc[s] = "write"
  PROVE  /\ Written(req[s]) \in [Id -> Comment \cup {NoRow}]
         /\ \A i \in Id \ {req[s].id} : Written(req[s])[i] = comments[i]
         /\ req[s].id \in Id
         /\ req[s].book \in Book
         /\ LET c == Written(req[s])[req[s].id]
            IN  \/ c = NoRow
                \/ req[s].type = "ADD_COMMENT" /\ c # NoRow /\ c.book = req[s].book
                \/ /\ req[s].type = "EDIT_COMMENT"
                   /\ comments[req[s].id] # NoRow
                   /\ c.book = comments[req[s].id].book
<1> DEFINE r == req[s]
<1>1. r \in Request
  BY DEF TypeOK
<1>2. comments \in [Id -> Comment \cup {NoRow}]
  BY DEF TypeOK
<1>3. CASE r.type = "ADD_COMMENT"
  <2> DEFINE c == [book |-> r.book, user |-> r.user, rating |-> r.rating]
  <2>1. r.id \in Id /\ c \in Comment
    BY <1>1, <1>3 DEF Request, Comment
  <2>2. Written(r) = [comments EXCEPT ![r.id] = c]
    BY <1>3 DEF Written
  <2>3. c # NoRow /\ c.book = r.book
    BY <2>1, NullAssumption
  <2> QED
    BY <1>1, <1>2, <1>3, <2>1, <2>2, <2>3 DEF Request
<1>4. CASE r.type = "EDIT_COMMENT"
  <2>1. r.id \in Id /\ r.rating \in Rating /\ r.book \in Book
    BY <1>1, <1>4 DEF Request
  <2>2. CASE comments[r.id] = NoRow
    <3>1. Written(r) = comments
      BY <1>4, <2>2 DEF Written
    <3> QED
      BY <1>2, <2>1, <2>2, <3>1
  <2>3. CASE comments[r.id] # NoRow
    <3> DEFINE old == comments[r.id]
               new == [old EXCEPT !.rating = r.rating]
    <3>1. old \in Comment
      BY <1>2, <2>1, <2>3
    <3>2. new \in Comment /\ new.book = old.book
      BY <2>1, <3>1 DEF Comment
    <3>3. Written(r) = [comments EXCEPT ![r.id] = new]
      BY <1>2, <1>4, <2>1, <2>3 DEF Written
    <3> HIDE DEF new, old
    <3>4. Written(r)[r.id] = new
      BY <1>2, <2>1, <3>3
    <3> QED
      BY <1>2, <1>4, <2>1, <2>3, <3>2, <3>3, <3>4 DEF old
  <2> QED
    BY <2>2, <2>3
<1>5. CASE r.type = "DELETE_COMMENT"
  <2>1. Written(r) = [comments EXCEPT ![r.id] = NoRow]
    BY <1>5 DEF Written
  <2> QED
    BY <1>1, <1>2, <1>5, <2>1 DEF Request
<1> QED
  BY <1>1, <1>3, <1>4, <1>5 DEF Request

(***************************************************************************)
(* Types.                                                                  *)
(***************************************************************************)

LEMMA NextTypes == TypeOK /\ [Next]_vars => TypeOK'
<1> SUFFICES ASSUME TypeOK, [Next]_vars PROVE TypeOK'
  OBVIOUS
<1> USE DEF TypeOK
<1>1. ASSUME NEW s \in Session, NEW i \in Id, NEW b \in Book, NEW u \in User,
             NEW x \in Rating, AddComment(s, i, b, u, x)
      PROVE  TypeOK'
  <2> DEFINE r == [type |-> "ADD_COMMENT", id |-> i, book |-> b, user |-> u, rating |-> x]
  <2>1. r \in Request
    BY DEF Request
  <2> HIDE DEF r
  <2>2. fresh' = fresh \ {i} /\ Begin(s, r)
    BY <1>1 DEF AddComment, r
  <2> QED
    BY <2>1, <2>2 DEF Begin, userVars
<1>2. ASSUME NEW s \in Session, NEW i \in Id, NEW x \in Rating, EditComment(s, i, x)
      PROVE  TypeOK'
  <2> DEFINE r == [type |-> "EDIT_COMMENT", id |-> i, book |-> comments[i].book, rating |-> x]
  <2>1. r \in Request
    BY <1>2 DEF Request, EditComment, Comment
  <2> HIDE DEF r
  <2>2. UNCHANGED fresh /\ Begin(s, r)
    BY <1>2 DEF EditComment, r
  <2> QED
    BY <2>1, <2>2 DEF Begin, userVars
<1>3. ASSUME NEW s \in Session, NEW i \in Id, DeleteComment(s, i)
      PROVE  TypeOK'
  <2> DEFINE r == [type |-> "DELETE_COMMENT", id |-> i, book |-> comments[i].book]
  <2>1. r \in Request
    BY <1>3 DEF Request, DeleteComment, Comment
  <2> HIDE DEF r
  <2>2. UNCHANGED fresh /\ Begin(s, r)
    BY <1>3 DEF DeleteComment, r
  <2> QED
    BY <2>1, <2>2 DEF Begin, userVars
<1>4. ASSUME NEW s \in Session, Write(s) PROVE TypeOK'
  BY <1>4, WrittenRows DEF Write, Overtake, userVars
<1>5. ASSUME NEW s \in Session, Select(s) PROVE TypeOK'
  BY <1>5 DEF Select, userVars
<1>6. ASSUME NEW s \in Session, Update(s) PROVE TypeOK'
  <2>1. req[s].book \in Book
    BY <1>6 DEF Update, Request
  <2> QED
    BY <1>6, <2>1 DEF Update, Answer, userVars
<1>7. ASSUME NEW s \in Session, StatementFails(s) PROVE TypeOK'
  BY <1>7 DEF StatementFails, Answer, userVars
<1>8. ASSUME NEW u \in Banned, DeleteUser(u) PROVE TypeOK'
  BY <1>8, BoundAssumption DEF DeleteUser, Overtake
<1>9. ASSUME NEW u \in Banned, NEW on \in BOOLEAN, SetUserActiveState(u, on) PROVE TypeOK'
  BY <1>9, BoundAssumption DEF SetUserActiveState
<1>10. ASSUME NEW b \in Switched, NEW on \in BOOLEAN, SetBookActiveState(b, on) PROVE TypeOK'
  BY <1>10, BoundAssumption DEF SetBookActiveState, userVars
<1>11. CASE UNCHANGED vars
  BY <1>11 DEF vars
<1> QED
  BY <1>1, <1>2, <1>3, <1>4, <1>5, <1>6, <1>7, <1>8, <1>9, <1>10, <1>11 DEF Next, Handle

(* Every reachable state is well typed: the state of database, workers and *)
(* marks as Ratings.tla declares it.                                       *)
THEOREM TypeCorrect == Spec => []TypeOK
<1>1. Init => TypeOK
  BY DEF Init, TypeOK
<1> QED
  BY <1>1, NextTypes, PTL DEF Spec

(***************************************************************************)
(* Ids.                                                                    *)
(***************************************************************************)

(* A request enters with the book of its row. *)
LEMMA BegunIds ==
  ASSUME TypeOK, IdsOnce, NEW s \in Session, NEW i \in Id, NEW r, r.id = i,
         comments[i] # NoRow, r.book = comments[i].book, Begin(s, r), UNCHANGED fresh
  PROVE  IdsOnce'
<1>1. /\ pc' = [pc EXCEPT ![s] = "write"]
      /\ req' = [req EXCEPT ![s] = r]
      /\ comments' = comments
  BY DEF Begin
<1>2. \A t \in Session \ {s} : pc'[t] = pc[t] /\ req'[t] = req[t]
  BY <1>1 DEF TypeOK
<1>3. req'[s] = r
  BY <1>1 DEF TypeOK
<1>4. ASSUME NEW j \in Id PROVE Handled(j)' \subseteq Handled(j) \cup {s}
  BY <1>2 DEF Handled
<1>5. ASSUME NEW j \in Id, NEW t \in Handled(j)', t # s
      PROVE  t \in Handled(j) /\ req'[t] = req[t]
  BY <1>2, <1>5 DEF Handled
<1>6. ASSUME NEW j \in Id, s \in Handled(j)' PROVE j = i
  BY <1>3, <1>6 DEF Handled
<1>7. i \notin fresh /\ \A t \in Handled(i) : req[t].book = r.book
  BY DEF IdsOnce
<1>8. ASSUME NEW j \in Id, j \in fresh' PROVE comments'[j] = NoRow /\ Handled(j)' = {}
  BY <1>1, <1>4, <1>5, <1>6, <1>7, <1>8 DEF IdsOnce
<1>9. ASSUME NEW j \in Id, NEW t \in Handled(j)', NEW w \in Handled(j)'
      PROVE  req'[t].book = req'[w].book
  BY <1>3, <1>5, <1>6, <1>7, <1>9 DEF IdsOnce
<1>10. ASSUME NEW j \in Id, NEW t \in Handled(j)', comments'[j] # NoRow
       PROVE  comments'[j].book = req'[t].book
  BY <1>1, <1>3, <1>5, <1>6, <1>10 DEF IdsOnce
<1> QED
  BY <1>8, <1>9, <1>10 DEF IdsOnce

LEMMA NextIds == TypeOK /\ IdsOnce /\ [Next]_vars => IdsOnce'
<1> SUFFICES ASSUME TypeOK, IdsOnce, [Next]_vars PROVE IdsOnce'
  OBVIOUS
<1>1. ASSUME NEW s \in Session, NEW i \in Id, NEW b \in Book, NEW u \in User,
             NEW x \in Rating, AddComment(s, i, b, u, x)
      PROVE  IdsOnce'
  <2> DEFINE r == [type |-> "ADD_COMMENT", id |-> i, book |-> b, user |-> u, rating |-> x]
  <2>1. /\ i \in fresh /\ fresh' = fresh \ {i}
        /\ pc' = [pc EXCEPT ![s] = "write"]
        /\ req' = [req EXCEPT ![s] = r]
        /\ comments' = comments
    BY <1>1 DEF AddComment, Begin
  <2>2. r.id = i
    OBVIOUS
  <2> HIDE DEF r
  <2>3. comments[i] = NoRow /\ Handled(i) = {}
    BY <2>1 DEF IdsOnce
  <2>4. \A t \in Session \ {s} : pc'[t] = pc[t] /\ req'[t] = req[t]
    BY <2>1 DEF TypeOK
  <2>5. pc'[s] = "write" /\ req'[s] = r
    BY <2>1 DEF TypeOK
  <2>6. Handled(i)' = {s}
    BY <2>2, <2>3, <2>4, <2>5 DEF Handled
  <2>7. ASSUME NEW j \in Id, j # i, NEW t \in Handled(j)'
        PROVE  t \in Handled(j) /\ req'[t] = req[t]
    BY <2>2, <2>4, <2>5, <2>7 DEF Handled
  <2> QED
    BY <2>1, <2>3, <2>6, <2>7 DEF IdsOnce
<1>2. ASSUME NEW s \in Session, NEW i \in Id, NEW x \in Rating, EditComment(s, i, x)
      PROVE  IdsOnce'
  BY <1>2, BegunIds DEF EditComment
<1>3. ASSUME NEW s \in Session, NEW i \in Id, DeleteComment(s, i)
      PROVE  IdsOnce'
  BY <1>3, BegunIds DEF DeleteComment
<1>4. ASSUME NEW s \in Session, Write(s) PROVE IdsOnce'
  <2> DEFINE r == req[s]
  <2>1. /\ pc[s] = "write" /\ pc' = [pc EXCEPT ![s] = "select"]
        /\ comments' = Written(r)
        /\ UNCHANGED <<fresh, req>>
    BY <1>4 DEF Write
  <2>2. r.id \in Id /\ s \in Handled(r.id)
    BY <2>1, WrittenRows DEF Handled
  <2>3. \A i \in Id : Handled(i)' = Handled(i)
    BY <2>1 DEF Handled, TypeOK
  <2>4. \A i \in Id \ {r.id} : comments'[i] = comments[i]
    BY <2>1, WrittenRows
  <2>5. comments'[r.id] # NoRow => comments'[r.id].book = r.book
    BY <2>1, <2>2, WrittenRows DEF IdsOnce
  <2>6. r.id \notin fresh
    BY <2>2 DEF IdsOnce
  <2> QED
    BY <2>1, <2>2, <2>3, <2>4, <2>5, <2>6 DEF IdsOnce
<1>5. ASSUME UNCHANGED <<comments, fresh, req>>,
             \A s \in Session : pc'[s] # "idle" => pc[s] # "idle"
      PROVE  IdsOnce'
  BY <1>5 DEF IdsOnce, Handled
<1>6. ASSUME NEW s \in Session, Answer(s), UNCHANGED <<comments, fresh>>
      PROVE  IdsOnce'
  <2>1. /\ pc' = [pc EXCEPT ![s] = "idle"]
        /\ req' = [req EXCEPT ![s] = NoRequest]
    BY <1>6 DEF Answer
  <2>2. ASSUME NEW i \in Id, NEW t \in Handled(i)'
        PROVE  t \in Handled(i) /\ req'[t] = req[t]
    BY <2>1, <2>2 DEF Handled, TypeOK
  <2> QED
    BY <1>6, <2>2 DEF IdsOnce
<1>7. ASSUME NEW s \in Session, Select(s) PROVE IdsOnce'
  BY <1>5, <1>7 DEF Select, TypeOK
<1>8. ASSUME NEW s \in Session, Update(s) \/ StatementFails(s) PROVE IdsOnce'
  BY <1>6, <1>8 DEF Update, StatementFails
<1>9. ASSUME NEW u, DeleteUser(u) PROVE IdsOnce'
  BY <1>5, <1>9 DEF DeleteUser
<1>10. ASSUME NEW u, NEW on, SetUserActiveState(u, on) PROVE IdsOnce'
  BY <1>5, <1>10 DEF SetUserActiveState
<1>11. ASSUME NEW b, NEW on, SetBookActiveState(b, on) PROVE IdsOnce'
  BY <1>5, <1>11 DEF SetBookActiveState
<1>12. CASE UNCHANGED vars
  BY <1>5, <1>12 DEF vars
<1> QED
  BY <1>1, <1>2, <1>3, <1>4, <1>7, <1>8, <1>9, <1>10, <1>11, <1>12 DEF Next, Handle

(***************************************************************************)
(* The ratings that count.                                                 *)
(***************************************************************************)

(* The ratings of a book stay what they are if its rows and the users       *)
(* deleted among their authors do.                                          *)
LEMMA MarksStay ==
  ASSUME NEW b \in Book,
         \A i \in Id : \/ comments'[i] = comments[i]
                       \/ /\ comments[i] # NoRow => comments[i].book # b
                          /\ comments'[i] # NoRow => comments'[i].book # b,
         \A i \in Id : (comments'[i] # NoRow /\ comments'[i].book = b) =>
                        removed'[comments'[i].user] = removed[comments'[i].user]
  PROVE  Marks(b)' = Marks(b)
<1>1. Counted(b)' = Counted(b)
  BY DEF Counted
<1>2. \A i \in Counted(b) : comments'[i].rating = comments[i].rating
  BY DEF Counted
<1> QED
  BY <1>1, <1>2 DEF Marks

(* A write changes the ratings of one book at most, and that one is marked. *)
LEMMA WriteMarks ==
  ASSUME TypeOK, IdsOnce, NEW s \in Session, Write(s), NEW b \in Book,
         b # req[s].book \/ comments' = comments
  PROVE  Marks(b)' = Marks(b)
<1> DEFINE r == req[s]
<1>1. /\ pc[s] = "write"
      /\ comments' = Written(r)
      /\ UNCHANGED removed
  BY DEF Write, userVars
<1>2. r.id \in Id /\ s \in Handled(r.id)
  BY <1>1, WrittenRows DEF Handled
<1>3. \A i \in Id \ {r.id} : comments'[i] = comments[i]
  BY <1>1, WrittenRows
<1>4. /\ comments[r.id] # NoRow => comments[r.id].book = r.book
      /\ comments'[r.id] # NoRow => comments'[r.id].book = r.book
  BY <1>1, <1>2, WrittenRows DEF IdsOnce
<1>5. CASE b # r.book
  BY <1>1, <1>3, <1>4, <1>5, MarksStay
<1>6. CASE comments' = comments
  BY <1>1, <1>6, MarksStay
<1> QED
  BY <1>5, <1>6

(* A deletion changes the ratings of the marked books only. *)
LEMMA DeletionMarks ==
  ASSUME TypeOK, NEW u \in User, DeleteUser(u), NEW b \in Book,
         ~ \E i \in Counted(b) : comments[i].user = u
  PROVE  Marks(b)' = Marks(b)
<1>1. /\ removed' = [removed EXCEPT ![u] = TRUE]
      /\ UNCHANGED comments
  BY DEF DeleteUser
<1>2. ASSUME NEW i \in Id, comments[i] # NoRow, comments[i].book = b
      PROVE  removed'[comments[i].user] = removed[comments[i].user]
  <2>1. comments[i].user \in User
    BY <1>2 DEF TypeOK, Comment
  <2>2. CASE comments[i].user # u
    BY <1>1, <2>1, <2>2 DEF TypeOK
  <2>3. CASE comments[i].user = u
    <3>1. removed[u]
      BY <1>2, <2>3 DEF Counted
    <3> QED
      BY <1>1, <2>1, <2>3, <3>1 DEF TypeOK
  <2> QED
    BY <2>2, <2>3
<1> QED
  BY <1>1, <1>2, MarksStay

(***************************************************************************)
(* The averages.                                                           *)
(***************************************************************************)
IInv == TypeOK /\ IdsOnce /\ SelectionCurrent /\ RatingExact

(* Steps that change no table of ratings and no worker. *)
LEMMA RatingsIdle ==
  ASSUME SelectionCurrent, RatingExact, UNCHANGED <<comments, removed, average, torn, got, behind>>,
         \A s \in Session : \/ pc'[s] = pc[s] /\ req'[s] = req[s]
                            \/ pc[s] = "idle" /\ pc'[s] = "write"
  PROVE  SelectionCurrent' /\ RatingExact'
<1>1. \A b \in Book : Marks(b)' = Marks(b)
  BY DEF Marks, Counted
<1>2. \A s \in Session, b \in Book : Midway(s, b)' <=> Midway(s, b)
  BY DEF Midway
<1>3. \A s \in Session : pc'[s] = "update" => pc[s] = "update" /\ req'[s] = req[s]
  OBVIOUS
<1>4. SelectionCurrent'
  BY <1>3 DEF SelectionCurrent, Marks, Counted
<1>5. RatingExact'
  BY <1>1, <1>2 DEF RatingExact
<1> QED
  BY <1>4, <1>5

LEMMA NextSelection == IInv /\ [Next]_vars => SelectionCurrent' /\ RatingExact'
<1> SUFFICES ASSUME IInv, [Next]_vars PROVE SelectionCurrent' /\ RatingExact'
  OBVIOUS
<1> USE DEF IInv
<1>1. ASSUME NEW s \in Session, NEW r, Begin(s, r) PROVE SelectionCurrent' /\ RatingExact'
  <2>1. \A t \in Session : \/ pc'[t] = pc[t] /\ req'[t] = req[t]
                           \/ pc[t] = "idle" /\ pc'[t] = "write"
    BY <1>1 DEF Begin, TypeOK
  <2> QED
    BY <1>1, <2>1, RatingsIdle DEF Begin, userVars
<1>2. ASSUME NEW s \in Session, Write(s) PROVE SelectionCurrent' /\ RatingExact'
  <2> DEFINE c == req[s].book
  <2>1. /\ pc[s] = "write" /\ pc' = [pc EXCEPT ![s] = "select"]
        /\ behind' = [t \in Session |->
                        behind[t] \/ (pc[t] = "update" /\
                          req[t].book \in IF comments' = comments THEN {} ELSE {c})]
        /\ UNCHANGED <<average, req, got, torn>>
    BY <1>2 DEF Write, Overtake
  <2>2. \A b \in Book : b # c \/ comments' = comments => Marks(b)' = Marks(b)
    BY <1>2, WriteMarks
  <2>3. ASSUME NEW t \in Session, pc'[t] = "update", ~behind'[t]
        PROVE  got'[t] = Summary(Marks(req[t].book))'
    <3>1. pc[t] = "update" /\ ~behind[t]
      BY <2>1, <2>3 DEF TypeOK
    <3>2. req[t].book \in Book
      BY <3>1 DEF TypeOK, Request
    <3>3. req[t].book # c \/ comments' = comments
      BY <2>1, <2>3, <3>1
    <3> QED
      BY <2>1, <2>2, <3>1, <3>2, <3>3 DEF SelectionCurrent
  <2>4. ASSUME NEW b \in Book \ torn', \A t \in Session : ~Midway(t, b)'
        PROVE  average'[b] = Summary(Marks(b))'
    <3>1. Midway(s, c)'
      BY <2>1 DEF Midway, TypeOK
    <3>2. \A t \in Session : ~Midway(t, b)
      BY <2>1, <2>4 DEF Midway, TypeOK
    <3> QED
      BY <2>1, <2>2, <2>4, <3>1, <3>2 DEF RatingExact
  <2> QED
    BY <2>1, <2>3, <2>4 DEF SelectionCurrent, RatingExact
<1>3. ASSUME NEW s \in Session, Select(s) PROVE SelectionCurrent' /\ RatingExact'
  <2>1. /\ pc[s] = "select" /\ pc' = [pc EXCEPT ![s] = "update"]
        /\ got' = [got EXCEPT ![s] = Summary(Marks(req[s].book))]
        /\ UNCHANGED <<comments, average, removed, req, behind, torn>>
    BY <1>3 DEF Select, userVars
  <2>2. \A b : Marks(b)' = Marks(b)
    BY <2>1 DEF Marks, Counted
  <2>3. \A t \in Session, b \in Book : Midway(t, b)' <=> Midway(t, b)
    BY <2>1 DEF Midway, TypeOK
  <2>4. ASSUME NEW t \in Session, pc'[t] = "update", ~behind'[t]
        PROVE  got'[t] = Summary(Marks(req[t].book))'
    <3>1. CASE t = s
      BY <2>1, <2>2, <3>1 DEF TypeOK
    <3>2. CASE t # s
      BY <2>1, <2>2, <2>4, <3>2 DEF TypeOK, SelectionCurrent
    <3> QED
      BY <3>1, <3>2
  <2>5. SelectionCurrent'
    BY <2>1, <2>4 DEF SelectionCurrent
  <2>6. RatingExact'
    BY <2>1, <2>2, <2>3 DEF RatingExact
  <2> QED
    BY <2>5, <2>6
<1>4. ASSUME NEW s \in Session, Answer(s), UNCHANGED <<comments, removed>>
      PROVE  /\ SelectionCurrent'
             /\ \A b : Marks(b)' = Marks(b)
             /\ \A t \in Session \ {s}, b \in Book : Midway(t, b)' <=> Midway(t, b)
             /\ \A b \in Book : ~Midway(s, b)'
  <2>1. \A b : Marks(b)' = Marks(b)
    BY <1>4 DEF Marks, Counted
  <2>2. /\ pc'[s] = "idle"
        /\ \A t \in Session \ {s} : /\ pc'[t] = pc[t] /\ req'[t] = req[t]
                                   /\ got'[t] = got[t] /\ behind'[t] = behind[t]
    BY <1>4 DEF Answer, TypeOK
  <2>3. SelectionCurrent'
    BY <2>1, <2>2 DEF SelectionCurrent
  <2> QED
    BY <2>1, <2>2, <2>3 DEF Midway
<1>5. ASSUME NEW s \in Session, Update(s) PROVE SelectionCurrent' /\ RatingExact'
  <2> DEFINE c == req[s].book
  <2>1. /\ pc[s] = "update"
        /\ average' = [average EXCEPT ![c] = got[s]]
        /\ torn' = IF behind[s] THEN torn \cup {c} ELSE torn \ {c}
        /\ Answer(s) /\ UNCHANGED <<comments, removed>>
    BY <1>5 DEF Update, userVars
  <2>2. c \in Book
    BY <2>1 DEF TypeOK, Request
  <2>3. ASSUME NEW b \in Book \ torn', \A t \in Session : ~Midway(t, b)'
        PROVE  average'[b] = Summary(Marks(b))'
    <3>1. CASE b = c
      <4>1. ~behind[s]
        BY <2>1, <2>3, <3>1
      <4>2. got[s] = Summary(Marks(c))
        BY <2>1, <4>1 DEF SelectionCurrent
      <4>3. average'[c] = got[s]
        BY <2>1, <2>2 DEF TypeOK
      <4> QED
        BY <1>4, <2>1, <3>1, <4>2, <4>3
    <3>2. CASE b # c
      <4>1. b \notin torn /\ average'[b] = average[b]
        BY <2>1, <2>3, <3>2 DEF TypeOK
      <4>2. \A t \in Session : ~Midway(t, b)
        BY <1>4, <2>1, <2>3, <3>2 DEF Midway
      <4> QED
        BY <1>4, <2>1, <4>1, <4>2 DEF RatingExact
    <3> QED
      BY <3>1, <3>2
  <2> QED
    BY <1>4, <2>1, <2>3 DEF RatingExact
<1>6. ASSUME NEW s \in Session, StatementFails(s) PROVE SelectionCurrent' /\ RatingExact'
  <2>1. /\ torn' = torn \cup {b \in Book : Midway(s, b)}
        /\ Answer(s) /\ UNCHANGED <<comments, removed, average>>
    BY <1>6 DEF StatementFails, userVars
  <2>2. ASSUME NEW b \in Book \ torn', \A t \in Session : ~Midway(t, b)'
        PROVE  average'[b] = Summary(Marks(b))'
    <3>1. b \notin torn /\ \A t \in Session : ~Midway(t, b)
      BY <1>4, <2>1, <2>2
    <3> QED
      BY <1>4, <2>1, <3>1 DEF RatingExact
  <2> QED
    BY <1>4, <2>1, <2>2 DEF RatingExact
<1>7. ASSUME NEW u \in User, DeleteUser(u) PROVE SelectionCurrent' /\ RatingExact'
  <2> DEFINE bs == {b \in Book : \E i \in Counted(b) : comments[i].user = u}
  <2>1. /\ torn' = torn \cup bs
        /\ behind' = [t \in Session |-> behind[t] \/ (pc[t] = "update" /\ req[t].book \in bs)]
        /\ UNCHANGED <<average, pc, req, got>>
    BY <1>7 DEF DeleteUser, Overtake
  <2>2. \A b \in Book \ bs : Marks(b)' = Marks(b)
    BY <1>7, DeletionMarks
  <2>3. ASSUME NEW t \in Session, pc'[t] = "update", ~behind'[t]
        PROVE  got'[t] = Summary(Marks(req[t].book))'
    <3>1. pc[t] = "update" /\ ~behind[t] /\ req[t].book \notin bs
      BY <2>1, <2>3
    <3>2. req[t].book \in Book
      BY <3>1 DEF TypeOK, Request
    <3> QED
      BY <2>1, <2>2, <3>1, <3>2 DEF SelectionCurrent
  <2>4. ASSUME NEW b \in Book \ torn', \A t \in Session : ~Midway(t, b)'
        PROVE  average'[b] = Summary(Marks(b))'
    <3>1. b \notin torn /\ b \notin bs /\ \A t \in Session : ~Midway(t, b)
      BY <2>1, <2>4 DEF Midway
    <3> QED
      BY <2>1, <2>2, <3>1 DEF RatingExact
  <2> QED
    BY <2>1, <2>3, <2>4 DEF SelectionCurrent, RatingExact
<1>8. ASSUME NEW u, NEW on, SetUserActiveState(u, on) PROVE SelectionCurrent' /\ RatingExact'
  BY <1>8, RatingsIdle DEF SetUserActiveState
<1>9. ASSUME NEW b, NEW on, SetBookActiveState(b, on) PROVE SelectionCurrent' /\ RatingExact'
  BY <1>9, RatingsIdle DEF SetBookActiveState, userVars
<1>10. CASE UNCHANGED vars
  BY <1>10, RatingsIdle DEF vars
<1>11. ASSUME NEW s \in Session, NEW i \in Id, NEW b \in Book, NEW u \in User,
              NEW x \in Rating, AddComment(s, i, b, u, x)
       PROVE  SelectionCurrent' /\ RatingExact'
  BY <1>1, <1>11 DEF AddComment
<1>12. ASSUME NEW s \in Session, NEW i \in Id, NEW x \in Rating, EditComment(s, i, x)
       PROVE  SelectionCurrent' /\ RatingExact'
  BY <1>1, <1>12 DEF EditComment
<1>13. ASSUME NEW s \in Session, NEW i \in Id, DeleteComment(s, i)
       PROVE  SelectionCurrent' /\ RatingExact'
  BY <1>1, <1>13 DEF DeleteComment
<1> QED
  BY <1>2, <1>3, <1>5, <1>6, <1>7, <1>8, <1>9, <1>10, <1>11, <1>12, <1>13, BoundAssumption
  DEF Next, Handle

LEMMA InitExact == Init => IInv
<1> SUFFICES ASSUME Init PROVE IInv
  OBVIOUS
<1>1. TypeOK
  BY DEF Init, TypeOK
<1>2. \A i \in Id : Handled(i) = {}
  BY DEF Init, Handled
<1>3. IdsOnce
  BY <1>2 DEF Init, IdsOnce
<1>4. SelectionCurrent
  BY DEF Init, SelectionCurrent
<1>5. ASSUME NEW b \in Book PROVE average[b] = Summary(Marks(b))
  <2>1. Counted(b) = {}
    BY DEF Init, Counted
  <2> DEFINE m == Marks(b)
  <2>2. DOMAIN m = {}
    BY <2>1 DEF Marks
  <2>3. average[b] = Nothing
    BY DEF Init
  <2>4. Cardinality(DOMAIN m) = 0
    BY <2>2, FS_EmptySet
  <2>5. MapThenSumSet(LAMBDA i : m[i], DOMAIN m) = 0
    BY <2>2 DEF MapThenSumSet, MapThenFoldSet
  <2> QED
    BY <2>3, <2>4, <2>5 DEF Summary, Nothing
<1>6. RatingExact
  BY <1>5 DEF RatingExact
<1> QED
  BY <1>1, <1>3, <1>4, <1>6 DEF IInv

(* One id, one book: what is said of an id by its row and by the requests  *)
(* about it never disagrees.                                               *)
THEOREM IdsAreGivenOnce == Spec => []IdsOnce
<1>1. IInv /\ [Next]_vars => IInv'
  BY NextTypes, NextIds, NextSelection DEF IInv
<1>2. IInv => IdsOnce
  BY DEF IInv
<1> QED
  BY InitExact, <1>1, <1>2, PTL DEF Spec

(* A request that nobody has overtaken has selected the ratings as they are. *)
THEOREM SelectionsAreCurrent == Spec => []SelectionCurrent
<1>1. IInv /\ [Next]_vars => IInv'
  BY NextTypes, NextIds, NextSelection DEF IInv
<1>2. IInv => SelectionCurrent
  BY DEF IInv
<1> QED
  BY InitExact, <1>1, <1>2, PTL DEF Spec

(* The average of a book is that of its comments unless a request is at    *)
(* work on it, or it was last written by one that had been overtaken or    *)
(* stopped half-way, or one of its authors has been deleted since.         *)
THEOREM AveragesAreExact == Spec => []RatingExact
<1>1. IInv /\ [Next]_vars => IInv'
  BY NextTypes, NextIds, NextSelection DEF IInv
<1>2. IInv => RatingExact
  BY DEF IInv
<1> QED
  BY InitExact, <1>1, <1>2, PTL DEF Spec
=============================================================================
