------------------------- MODULE CommentsPageProofs -------------------------
(* Theorems about CommentsPage, for any users, sessions, books and bounds. *)
EXTENDS CommentsPage, TLAPS

-----------------------------------------------------------------------------
(* What is on its way, whichever it is. *)

(* Something of M is in the queue q; something of M with nothing of N after   *)
(* it.                                                                        *)
Has(q, M) == \E k \in 1..Len(q) : q[k] \in M
Left(q, M, N) == \E k \in 1..Len(q) : q[k] \in M /\ \A i \in (k + 1)..Len(q) : q[i] \notin N

LEMMA AppendSeq ==
  ASSUME NEW S, NEW q \in Seq(S), NEW m \in S
  PROVE /\ Append(q, m) \in Seq(S)
        /\ Append(q, m) # <<>>
        /\ Len(q) \in Nat
        /\ Len(Append(q, m)) = Len(q) + 1
        /\ Append(q, m)[Len(q) + 1] = m
        /\ \A i \in 1..Len(q) : Append(q, m)[i] = q[i]
        /\ q # <<>> => Head(Append(q, m)) = Head(q)
        /\ q = <<>> => Head(Append(q, m)) = m
OBVIOUS

LEMMA TailSeq ==
  ASSUME NEW S, NEW q \in Seq(S), q # <<>>
  PROVE /\ Tail(q) \in Seq(S)
        /\ Head(q) \in S
        /\ Head(q) = q[1]
        /\ Len(q) \in Nat \ {0}
        /\ Len(Tail(q)) = Len(q) - 1
        /\ \A i \in 1..(Len(q) - 1) : Tail(q)[i] = q[i + 1]
OBVIOUS

LEMMA InAppend ==
  ASSUME NEW S, NEW q \in Seq(S), NEW m \in S, NEW M, NEW N
  PROVE /\ Has(Append(q, m), M) <=> Has(q, M) \/ m \in M
        /\ Left(Append(q, m), M, N) <=> m \in M \/ (Left(q, M, N) /\ m \notin N)
<1> DEFINE r == Append(q, m)
           n == Len(q)
<1>1. /\ n \in Nat
      /\ Len(r) = n + 1
      /\ r[n + 1] = m
      /\ \A i \in 1..n : r[i] = q[i]
  BY AppendSeq
<1> HIDE DEF r, n
<1>2. (\E k \in 1..(n + 1) : r[k] \in M) <=> (\E k \in 1..n : q[k] \in M) \/ m \in M
  BY <1>1
<1>3. Has(r, M) <=> Has(q, M) \/ m \in M
  BY <1>1, <1>2 DEF Has, n
<1>4. ASSUME Left(r, M, N) PROVE m \in M \/ (Left(q, M, N) /\ m \notin N)
  <2>1. PICK k \in 1..(n + 1) : r[k] \in M /\ \A i \in (k + 1)..(n + 1) : r[i] \notin N
    BY <1>1, <1>4 DEF Left
  <2>2. CASE k = n + 1
    BY <1>1, <2>1, <2>2
  <2>3. CASE k # n + 1
    <3>1. k \in 1..n /\ q[k] \in M /\ n + 1 \in (k + 1)..(n + 1)
      BY <1>1, <2>1, <2>3
    <3>2. \A i \in (k + 1)..n : q[i] \notin N
      BY <1>1, <2>1, <3>1
    <3>3. Left(q, M, N)
      BY <3>1, <3>2 DEF Left, n
    <3>4. m \notin N
      BY <1>1, <2>1, <3>1
    <3>5. QED
      BY <3>3, <3>4
  <2>4. QED
    BY <2>2, <2>3
<1>5. ASSUME m \in M PROVE Left(r, M, N)
  <2>1. n + 1 \in 1..Len(r) /\ r[n + 1] \in M
    BY <1>1, <1>5
  <2>2. \A i \in (n + 1 + 1)..Len(r) : r[i] \notin N
    BY <1>1
  <2>3. QED
    BY <2>1, <2>2 DEF Left
<1>6. ASSUME Left(q, M, N), m \notin N PROVE Left(r, M, N)
  <2>1. PICK k \in 1..n : q[k] \in M /\ \A i \in (k + 1)..n : q[i] \notin N
    BY <1>6 DEF Left, n
  <2>2. \A i \in (k + 1)..(n + 1) : r[i] \notin N
    <3>1. \A i \in (k + 1)..(n + 1) : i = n + 1 \/ (i \in (k + 1)..n /\ i \in 1..n)
      BY <1>1
    <3>2. QED
      BY <1>1, <1>6, <2>1, <3>1
  <2>3. k \in 1..Len(r) /\ r[k] \in M
    BY <1>1, <2>1
  <2>4. QED
    BY <1>1, <2>2, <2>3 DEF Left
<1>7. QED
  BY <1>3, <1>4, <1>5, <1>6 DEF r

LEMMA InTail ==
  ASSUME NEW S, NEW q \in Seq(S), q # <<>>, NEW M, NEW N
  PROVE /\ Has(q, M) <=> Head(q) \in M \/ Has(Tail(q), M)
        /\ Left(q, M, N) <=> (Head(q) \in M /\ ~Has(Tail(q), N)) \/ Left(Tail(q), M, N)
<1> DEFINE r == Tail(q)
           n == Len(r)
           h == Head(q)
<1>1. /\ n \in Nat
      /\ Len(q) = n + 1
      /\ q[1] = h
      /\ \A i \in 1..n : r[i] = q[i + 1]
  BY TailSeq
<1> HIDE DEF r, n, h
<1>2. \A k \in 1..(n + 1) : k = 1 \/ (k - 1 \in 1..n /\ r[k - 1] = q[k])
  BY <1>1
<1>3. \A k \in 1..n : k + 1 \in 1..(n + 1) /\ r[k] = q[k + 1]
  BY <1>1
<1>4. 1 \in 1..(n + 1)
  BY <1>1
<1>5. Has(q, M) <=> h \in M \/ Has(r, M)
  BY <1>1, <1>2, <1>3, <1>4 DEF Has, n
<1>6. ASSUME Left(q, M, N) PROVE (h \in M /\ ~Has(r, N)) \/ Left(r, M, N)
  <2>1. PICK k \in 1..(n + 1) : q[k] \in M /\ \A i \in (k + 1)..(n + 1) : q[i] \notin N
    BY <1>1, <1>6 DEF Left
  <2>2. CASE k = 1
    <3>1. \A i \in 1..n : r[i] \notin N
      BY <1>3, <2>1, <2>2
    <3>2. QED
      BY <1>1, <2>1, <2>2, <3>1 DEF Has, n
  <2>3. CASE k # 1
    <3>1. k - 1 \in 1..n /\ r[k - 1] \in M
      BY <1>2, <2>1, <2>3
    <3>2. \A i \in ((k - 1) + 1)..n : r[i] \notin N
      <4>1. \A i \in ((k - 1) + 1)..n : i \in 1..n /\ i + 1 \in (k + 1)..(n + 1)
        BY <1>1
      <4>2. QED
        BY <1>3, <2>1, <4>1
    <3>3. QED
      BY <3>1, <3>2 DEF Left, n
  <2>4. QED
    BY <2>2, <2>3
<1>7. ASSUME h \in M, ~Has(r, N) PROVE Left(q, M, N)
  <2>1. \A i \in (1 + 1)..Len(q) : q[i] \notin N
    <3>1. \A i \in (1 + 1)..Len(q) : i - 1 \in 1..n /\ r[i - 1] = q[i]
      BY <1>1, <1>2
    <3>2. QED
      BY <1>7, <3>1 DEF Has, n
  <2>2. QED
    BY <1>1, <1>4, <1>7, <2>1 DEF Left
<1>8. ASSUME Left(r, M, N) PROVE Left(q, M, N)
  <2>1. PICK k \in 1..n : r[k] \in M /\ \A i \in (k + 1)..n : r[i] \notin N
    BY <1>8 DEF Left, n
  <2>2. k + 1 \in 1..Len(q) /\ q[k + 1] \in M
    BY <1>1, <1>3, <2>1
  <2>3. \A i \in ((k + 1) + 1)..Len(q) : q[i] \notin N
    <3>1. \A i \in ((k + 1) + 1)..Len(q) : i - 1 \in (k + 1)..n /\ i - 1 \in 1..n /\ r[i - 1] = q[i]
      BY <1>1, <1>2
    <3>2. QED
      BY <2>1, <3>1
  <2>4. QED
    BY <2>2, <2>3 DEF Left
<1>9. QED
  BY <1>5, <1>6, <1>7, <1>8 DEF r, h

LEMMA HasAppend ==
  ASSUME NEW S, NEW q \in Seq(S), NEW m \in S, NEW M
  PROVE Has(Append(q, m), M) <=> Has(q, M) \/ m \in M
BY InAppend

LEMMA HasTail ==
  ASSUME NEW S, NEW q \in Seq(S), q # <<>>, NEW M
  PROVE Has(q, M) <=> Head(q) \in M \/ Has(Tail(q), M)
BY InTail

LEMMA InEmpty ==
  ASSUME NEW M, NEW N
  PROVE ~Has(<<>>, M) /\ ~Left(<<>>, M, N)
BY DEF Has, Left

-----------------------------------------------------------------------------
(* Types. *)

LEMMA IdType == Id \subseteq Nat \ {0} /\ 0 \notin Id
BY RowAssumption, BoundAssumption DEF Id

LEMMA RequestFields ==
  ASSUME NEW r \in Request
  PROVE /\ r.type \in {"GET_COMMENTS", "ADD_COMMENT", "EDIT_COMMENT", "DELETE_COMMENT"}
        /\ r.type = "GET_COMMENTS" => r.book \in Book
        /\ r.type = "ADD_COMMENT" => r.book \in Book /\ r.user \in User
        /\ r.type \in {"EDIT_COMMENT", "DELETE_COMMENT"} => r.id \in Id
BY DEF Request

LEMMA MessageFields ==
  ASSUME NEW m \in Message
  PROVE /\ m.type \in {"GET_COMMENTS_RESPONSE", "COMMENT_UPDATED", "RESPONSE"}
        /\ m.type = "GET_COMMENTS_RESPONSE" => m.comments \in Lists
        /\ m.type = "COMMENT_UPDATED" => m.book \in Book
        /\ m.type = "RESPONSE" => m.ok \in BOOLEAN
BY DEF Message

LEMMA RequestKinds ==
  /\ \A b \in Book : Get(b) \in Request /\ Get(b).type = "GET_COMMENTS" /\ Get(b).book = b
  /\ \A b \in Book, u \in User : Add(b, u) \in Request /\ Add(b, u).type = "ADD_COMMENT"
  /\ \A i \in Id : Edit(i) \in Request /\ Edit(i).type = "EDIT_COMMENT" /\ Edit(i).id = i
  /\ \A i \in Id : Delete(i) \in Request /\ Delete(i).type = "DELETE_COMMENT" /\ Delete(i).id = i
BY DEF Request, Get, Add, Edit, Delete

LEMMA MessageKinds ==
  /\ \A l \in Lists : /\ Listing(l) \in Message
                      /\ Listing(l).type = "GET_COMMENTS_RESPONSE"
                      /\ Listing(l).comments = l
  /\ \A b \in Book : /\ Updated(b) \in Message
                     /\ Updated(b).type = "COMMENT_UPDATED"
                     /\ Updated(b).book = b
  /\ \A ok \in BOOLEAN : /\ Answer(ok) \in Message
                         /\ Answer(ok).type = "RESPONSE"
                         /\ Answer(ok).ok <=> ok
<1>1. ASSUME NEW l \in Lists
      PROVE /\ Listing(l) \in Message
            /\ Listing(l).type = "GET_COMMENTS_RESPONSE"
            /\ Listing(l).comments = l
  BY DEF Message, Listing
<1>2. ASSUME NEW b \in Book
      PROVE /\ Updated(b) \in Message
            /\ Updated(b).type = "COMMENT_UPDATED"
            /\ Updated(b).book = b
  BY DEF Message, Updated
<1>3. ASSUME NEW ok \in BOOLEAN
      PROVE /\ Answer(ok) \in Message
            /\ Answer(ok).type = "RESPONSE"
            /\ Answer(ok).ok <=> ok
  BY DEF Message, Answer
<1>4. QED
  BY <1>1, <1>2, <1>3

LEMMA ListFields ==
  ASSUME NEW l \in Lists
  PROVE /\ l = [i \in DOMAIN l |-> l[i]]
        /\ DOMAIN l \subseteq Id
        /\ \A i \in DOMAIN l : l[i] \in Comment
<1>1. PICK is \in SUBSET Id : l \in [is -> Comment]
  BY DEF Lists
<1>2. QED
  BY <1>1

LEMMA ListMade ==
  ASSUME NEW is \in SUBSET Id, NEW l \in [is -> Comment]
  PROVE l \in Lists
BY DEF Lists

LEMMA VisibleType ==
  ASSUME comments \in [Id -> Comment \cup {NoRow}], NEW b
  PROVE /\ Visible(b) \in Lists
        /\ DOMAIN Visible(b) = {j \in Id : /\ comments[j] # NoRow
                                           /\ comments[j].book = b
                                           /\ ~removed[comments[j].user]}
        /\ \A i \in DOMAIN Visible(b) : Visible(b)[i] = comments[i]
<1> DEFINE is == {j \in Id : /\ comments[j] # NoRow
                             /\ comments[j].book = b
                             /\ ~removed[comments[j].user]}
<1>1. Visible(b) = [i \in is |-> comments[i]]
  BY DEF Visible
<1>2. is \in SUBSET Id /\ \A i \in is : comments[i] \in Comment
  OBVIOUS
<1> HIDE DEF is
<1>3. Visible(b) \in [is -> Comment]
  BY <1>1, <1>2
<1>4. QED
  BY <1>1, <1>2, <1>3, ListMade DEF is

LEMMA InitType == Init => TypeOK
<1> SUFFICES ASSUME Init PROVE TypeOK
  OBVIOUS
<1> USE DEF Init
<1>1. comments \in [Id -> Comment \cup {NoRow}]
  <2>1. \A i \in DOMAIN Written : Written[i] \in Comment
    BY RowAssumption
  <2>2. QED
    BY <2>1
<1>2. lastId \in Nat
  BY RowAssumption
<1>3. removed \in [User -> BOOLEAN]
  OBVIOUS
<1>4. /\ work \in [Session -> Seq(Request)]
      /\ events \in [Session -> Seq(Book)]
      /\ down \in [Session -> Seq(Message)]
  <2>1. \A S : <<>> \in Seq(S)
    OBVIOUS
  <2>2. QED
    BY <2>1
<1>5. at \in [Session -> Book] /\ list \in [Session -> Lists]
  BY <1>1, VisibleType
<1>6. userOf \in Logins /\ editing \in [Session -> Id \cup {0}]
  OBVIOUS
<1>7. acts \in 0..MaxActs
  BY BoundAssumption
<1>8. failed \in SUBSET Book
  OBVIOUS
<1>9. QED
  BY <1>1, <1>2, <1>3, <1>4, <1>5, <1>6, <1>7, <1>8 DEF TypeOK

(* The first request of s is answered with m. *)
LEMMA DoneType ==
  ASSUME TypeOK, NEW s \in Session, NEW m \in Message, work[s] # <<>>, Done(s, m)
  PROVE /\ work' \in [Session -> Seq(Request)] /\ down' \in [Session -> Seq(Message)]
        /\ Req(s) \in Request
        /\ work[s] \in Seq(Request) /\ down[s] \in Seq(Message)
        /\ work'[s] = Tail(work[s]) /\ down'[s] = Append(down[s], m)
        /\ \A t \in Session : t # s => work'[t] = work[t] /\ down'[t] = down[t]
<1>1. work[s] \in Seq(Request) /\ down[s] \in Seq(Message)
  BY DEF TypeOK
<1>2. Tail(work[s]) \in Seq(Request) /\ Head(work[s]) \in Request
  BY <1>1, TailSeq
<1>3. Append(down[s], m) \in Seq(Message)
  BY <1>1, AppendSeq
<1>4. QED
  BY <1>1, <1>2, <1>3 DEF TypeOK, Done, Req

(* The client of s sends r. *)
LEMMA AskType ==
  ASSUME TypeOK, NEW s \in Session, NEW r \in Request, Ask(s, r)
  PROVE /\ work' \in [Session -> Seq(Request)]
        /\ work[s] \in Seq(Request)
        /\ work'[s] = Append(work[s], r)
        /\ \A t \in Session : t # s => work'[t] = work[t]
<1>1. work[s] \in Seq(Request)
  BY DEF TypeOK
<1>2. Append(work[s], r) \in Seq(Request)
  BY <1>1, AppendSeq
<1>3. QED
  BY <1>1, <1>2 DEF TypeOK, Ask

LEMMA TakenType ==
  ASSUME TypeOK, NEW s \in Session, NEW type, Takes(s, type)
  PROVE Req(s) \in Request /\ Req(s).type = type /\ work[s] \in Seq(Request) /\ work[s] # <<>>
<1>1. work[s] \in Seq(Request) /\ work[s] # <<>>
  BY DEF TypeOK, Takes
<1>2. QED
  BY <1>1, TailSeq DEF Takes, Req

(* A comment of b has changed: what is answered, who is told. *)
Ended(s, b) == Finish(s, b) \/ StopHalfWay(s, b)

LEMMA EndedType ==
  ASSUME TypeOK, NEW s \in Session, NEW b \in Book, work[s] # <<>>, Ended(s, b)
  PROVE /\ \E ok \in BOOLEAN : Done(s, Answer(ok))
        /\ work' \in [Session -> Seq(Request)] /\ down' \in [Session -> Seq(Message)]
        /\ events' \in [Session -> Seq(Book)] /\ failed' \in SUBSET Book
<1>1. PICK ok \in BOOLEAN : Done(s, Answer(ok))
  BY DEF Ended, Finish, StopHalfWay
<1>2. work' \in [Session -> Seq(Request)] /\ down' \in [Session -> Seq(Message)]
  BY <1>1, MessageKinds, DoneType
<1>3. CASE Finish(s, b)
  <2>1. \A t \in Session : Append(events[t], b) \in Seq(Book)
    BY AppendSeq DEF TypeOK
  <2>2. QED
    BY <1>1, <1>2, <1>3, <2>1 DEF TypeOK, Finish
<1>4. CASE StopHalfWay(s, b)
  BY <1>1, <1>2, <1>4 DEF TypeOK, StopHalfWay
<1>5. QED
  BY <1>3, <1>4 DEF Ended

LEMMA CommentFields ==
  ASSUME NEW c \in Comment
  PROVE c.book \in Book /\ c.user \in User /\ c.version \in Nat
BY DEF Comment

(* The table after a comment is added, edited or deleted by the first request *)
(* of s; b is the book it is of.                                              *)
Added(s, b) ==
  /\ Takes(s, "ADD_COMMENT") /\ Req(s).book = b
  /\ lastId' = lastId + 1
  /\ comments' = [comments EXCEPT ![lastId + 1] =
                    [book |-> b, user |-> Req(s).user, version |-> 0]]

Edited(s, b) ==
  /\ Takes(s, "EDIT_COMMENT") /\ comments[Req(s).id] # NoRow /\ comments[Req(s).id].book = b
  /\ comments' = [comments EXCEPT ![Req(s).id].version = @ + 1]
  /\ lastId' = lastId

Deleted(s, b) ==
  /\ Takes(s, "DELETE_COMMENT") /\ comments[Req(s).id] # NoRow /\ comments[Req(s).id].book = b
  /\ comments' = [comments EXCEPT ![Req(s).id] = NoRow]
  /\ lastId' = lastId

(* A request about a comment of b that is done. *)
Change(s, b) ==
  /\ Added(s, b) \/ Edited(s, b) \/ Deleted(s, b)
  /\ Ended(s, b)
  /\ UNCHANGED <<removed, pages>>

LEMMA Changes ==
  ASSUME TypeOK, NEW s \in Session, AddComment(s) \/ EditComment(s) \/ DeleteComment(s)
  PROVE \E b \in Book : Change(s, b)
<1>1. CASE AddComment(s)
  <2>1. Req(s).book \in Book
    BY <1>1, TakenType, RequestFields DEF AddComment
  <2>2. Change(s, Req(s).book)
    BY <1>1 DEF AddComment, Change, Added, Ended
  <2>3. QED
    BY <2>1, <2>2
<1>2. CASE EditComment(s)
  <2>1. Req(s).id \in Id
    BY <1>2, TakenType, RequestFields DEF EditComment
  <2>2. comments[Req(s).id].book \in Book
    BY <1>2, <2>1, CommentFields DEF EditComment, TypeOK
  <2>3. Change(s, comments[Req(s).id].book)
    BY <1>2 DEF EditComment, Change, Edited, Ended
  <2>4. QED
    BY <2>2, <2>3
<1>3. CASE DeleteComment(s)
  <2>1. Req(s).id \in Id
    BY <1>3, TakenType, RequestFields DEF DeleteComment
  <2>2. comments[Req(s).id].book \in Book
    BY <1>3, <2>1, CommentFields DEF DeleteComment, TypeOK
  <2>3. Change(s, comments[Req(s).id].book)
    BY <1>3 DEF DeleteComment, Change, Deleted, Ended
  <2>4. QED
    BY <2>2, <2>3
<1>4. QED
  BY <1>1, <1>2, <1>3

(* What a change does to the rows: only one of book b, which it adds, edits   *)
(* or deletes, and it does not change whose it is.                            *)
LEMMA Rows ==
  ASSUME TypeOK, NEW s \in Session, NEW b \in Book, Change(s, b)
  PROVE /\ comments' \in [Id -> Comment \cup {NoRow}] /\ lastId' \in Nat
        /\ lastId' \in {lastId, lastId + 1}
        /\ \A i \in Id : comments'[i] # comments[i] =>
             \/ i = lastId + 1 /\ lastId' = lastId + 1 /\ comments'[i].book = b
             \/ /\ Req(s).type \in {"EDIT_COMMENT", "DELETE_COMMENT"}
                /\ i = Req(s).id /\ comments[i] # NoRow /\ comments[i].book = b
                /\ comments'[i] # NoRow => /\ comments'[i].book = b
                                           /\ comments'[i].user = comments[i].user
<1>1. lastId \in Nat /\ comments \in [Id -> Comment \cup {NoRow}]
  BY DEF TypeOK
<1>2. CASE Added(s, b)
  <2> DEFINE c == [book |-> b, user |-> Req(s).user, version |-> 0]
  <2>1. c \in Comment /\ c.book = b
    BY <1>2, TakenType, RequestFields DEF Added, Comment
  <2>2. comments' = [comments EXCEPT ![lastId + 1] = c] /\ lastId' = lastId + 1
    BY <1>2 DEF Added
  <2> HIDE DEF c
  <2>3. comments' = [i \in Id |-> IF i = lastId + 1 THEN c ELSE comments[i]]
    BY <1>1, <2>2
  <2>4. \A i \in Id : comments'[i] = IF i = lastId + 1 THEN c ELSE comments[i]
    BY <2>3
  <2>5. \A i \in Id : comments'[i] # comments[i] => i = lastId + 1 /\ comments'[i].book = b
    BY <2>1, <2>4
  <2>6. comments' \in [Id -> Comment \cup {NoRow}]
    BY <1>1, <2>1, <2>3
  <2>7. QED
    BY <1>1, <2>2, <2>5, <2>6
<1>3. CASE Edited(s, b)
  <2> DEFINE k == Req(s).id
             c == comments[k]
             d == [c EXCEPT !.version = @ + 1]
  <2>1. k \in Id /\ Req(s).type = "EDIT_COMMENT"
    BY <1>3, TakenType, RequestFields DEF Edited
  <2>2. c \in Comment /\ c.book = b
    BY <1>1, <1>3, <2>1 DEF Edited
  <2>3. c = [book |-> c.book, user |-> c.user, version |-> c.version]
    BY <2>2 DEF Comment
  <2>4. d = [book |-> c.book, user |-> c.user, version |-> c.version + 1]
    BY <2>2 DEF Comment
  <2>5. d \in Comment /\ d.book = b /\ d.user = c.user
    BY <2>2, <2>4, CommentFields DEF Comment
  <2>6. comments' = [comments EXCEPT ![k] = d] /\ lastId' = lastId
    BY <1>3 DEF Edited
  <2>7. c # NoRow
    BY <1>3 DEF Edited
  <2> HIDE DEF c, d
  <2>8. comments[k] = c
    BY DEF c
  <2> HIDE DEF k
  <2>9. QED
    BY <1>1, <2>1, <2>2, <2>5, <2>6, <2>7, <2>8 DEF k
<1>4. CASE Deleted(s, b)
  <2>1. Req(s).id \in Id /\ Req(s).type = "DELETE_COMMENT"
    BY <1>4, TakenType, RequestFields DEF Deleted
  <2>2. QED
    BY <1>1, <1>4, <2>1 DEF Deleted
<1>5. QED
  BY <1>2, <1>3, <1>4 DEF Change

-----------------------------------------------------------------------------
(* Every step leaves every variable its type. *)

LEMMA WorkerType ==
  ASSUME TypeOK, NEW s \in Session, GetComments(s) \/ Refuse(s) \/ WritePush(s)
  PROVE TypeOK'
<1>1. CASE GetComments(s)
  <2> DEFINE m == Listing(Visible(Req(s).book))
  <2>1. m \in Message
    BY VisibleType, MessageKinds DEF TypeOK
  <2>2. Done(s, m) /\ work[s] # <<>>
    BY <1>1 DEF GetComments, Takes
  <2> HIDE DEF m
  <2>3. work' \in [Session -> Seq(Request)] /\ down' \in [Session -> Seq(Message)]
    BY <2>1, <2>2, DoneType
  <2>4. QED
    BY <1>1, <2>3 DEF GetComments, TypeOK, tables, pages
<1>2. CASE Refuse(s)
  <2>1. Done(s, Answer(FALSE)) /\ work[s] # <<>>
    BY <1>2 DEF Refuse, Takes
  <2>2. work' \in [Session -> Seq(Request)] /\ down' \in [Session -> Seq(Message)]
    BY <2>1, MessageKinds, DoneType
  <2>3. QED
    BY <1>2, <2>2 DEF Refuse, TypeOK, tables, pages
<1>3. CASE WritePush(s)
  <2>1. events[s] \in Seq(Book) /\ down[s] \in Seq(Message) /\ events[s] # <<>>
    BY <1>3 DEF WritePush, TypeOK
  <2>2. Head(events[s]) \in Book /\ Tail(events[s]) \in Seq(Book)
    BY <2>1, TailSeq
  <2>3. Append(down[s], Updated(Head(events[s]))) \in Seq(Message)
    BY <2>1, <2>2, MessageKinds, AppendSeq
  <2>4. events' \in [Session -> Seq(Book)] /\ down' \in [Session -> Seq(Message)]
    BY <1>3, <2>2, <2>3 DEF WritePush, TypeOK
  <2>5. QED
    BY <1>3, <2>4 DEF WritePush, TypeOK, tables, pages
<1>4. QED
  BY <1>1, <1>2, <1>3

LEMMA ChangeType ==
  ASSUME TypeOK, NEW s \in Session, NEW b \in Book, Change(s, b)
  PROVE TypeOK'
<1>1. work[s] # <<>> /\ Ended(s, b)
  BY DEF Change, Added, Edited, Deleted, Takes
<1>2. /\ work' \in [Session -> Seq(Request)] /\ down' \in [Session -> Seq(Message)]
      /\ events' \in [Session -> Seq(Book)] /\ failed' \in SUBSET Book
  BY <1>1, EndedType
<1>3. comments' \in [Id -> Comment \cup {NoRow}] /\ lastId' \in Nat
  BY Rows
<1>4. QED
  BY <1>2, <1>3 DEF Change, TypeOK, pages

(* What the page can ask for. *)
LEMMA AskedType ==
  ASSUME TypeOK, NEW s \in Session
  PROVE /\ at[s] \in Book
        /\ DOMAIN list[s] \subseteq Id
        /\ Mine(s) \subseteq DOMAIN list[s]
        /\ userOf[s] # Admin => userOf[s] \in User
        /\ editing[s] \in Id \cup {0}
<1>1. list[s] \in Lists
  BY DEF TypeOK
<1>2. DOMAIN list[s] \subseteq Id
  BY <1>1, ListFields
<1>3. QED
  BY <1>2, SessionAssumption DEF TypeOK, Mine

LEMMA SubmitType ==
  ASSUME TypeOK, NEW s \in Session, Submit(s)
  PROVE \E r \in Request : /\ Ask(s, r)
                           /\ r.type # "GET_COMMENTS"
                           /\ r.type # "DELETE_COMMENT"
                           /\ r.type = "EDIT_COMMENT" => editing[s] # 0 /\ r.id = editing[s]
<1>1. CASE editing[s] = 0
  <2>1. Ask(s, Add(at[s], userOf[s]))
    BY <1>1 DEF Submit
  <2>2. Add(at[s], userOf[s]) \in Request /\ Add(at[s], userOf[s]).type = "ADD_COMMENT"
    BY AskedType, RequestKinds DEF Submit
  <2>3. QED
    BY <2>1, <2>2
<1>2. CASE editing[s] # 0
  <2>1. Ask(s, Edit(editing[s]))
    BY <1>2 DEF Submit
  <2>2. /\ Edit(editing[s]) \in Request /\ Edit(editing[s]).type = "EDIT_COMMENT"
        /\ Edit(editing[s]).id = editing[s]
    BY <1>2, AskedType, RequestKinds
  <2>3. QED
    BY <1>2, <2>1, <2>2
<1>3. QED
  BY <1>1, <1>2

LEMMA UserType ==
  ASSUME TypeOK, NEW s \in Session, UserNext(s)
  PROVE TypeOK'
<1>1. Act => acts' \in 0..MaxActs
  BY BoundAssumption DEF Act, TypeOK
<1>2. CASE Submit(s)
  <2>1. PICK r \in Request : Ask(s, r)
    BY <1>2, SubmitType
  <2>2. work' \in [Session -> Seq(Request)]
    BY <2>1, AskType
  <2>3. QED
    BY <1>1, <1>2, <2>2 DEF Submit, TypeOK, tables
<1>3. ASSUME NEW b \in Book, Open(s, b) PROVE TypeOK'
  <2>1. work' \in [Session -> Seq(Request)]
    BY <1>3, AskType, RequestKinds DEF Open
  <2>2. at' \in [Session -> Book]
    BY <1>3 DEF Open, TypeOK
  <2>3. QED
    BY <1>1, <1>3, <2>1, <2>2 DEF Open, TypeOK, tables
<1>4. ASSUME NEW i \in Id, StartEdit(s, i) PROVE TypeOK'
  <2>1. editing' \in [Session -> Id \cup {0}]
    BY <1>4 DEF StartEdit, TypeOK
  <2>2. QED
    BY <1>4, <2>1 DEF StartEdit, TypeOK, tables
<1>5. ASSUME NEW i \in Id, ClickDelete(s, i) PROVE TypeOK'
  <2>1. work' \in [Session -> Seq(Request)]
    BY <1>5, AskType, RequestKinds DEF ClickDelete
  <2>2. QED
    BY <1>1, <1>5, <2>1 DEF ClickDelete, TypeOK, tables
<1>6. QED
  BY <1>2, <1>3, <1>4, <1>5 DEF UserNext

LEMMA ReceiveType ==
  ASSUME TypeOK, NEW s \in Session, Receive(s)
  PROVE /\ TypeOK'
        /\ down[s] \in Seq(Message) /\ Head(down[s]) \in Message
        /\ down'[s] = Tail(down[s])
        /\ \A t \in Session : t # s => /\ down'[t] = down[t] /\ work'[t] = work[t]
                                       /\ list'[t] = list[t] /\ editing'[t] = editing[t]
<1> DEFINE m == Head(down[s])
<1>1. down[s] \in Seq(Message) /\ down[s] # <<>> /\ down' = [down EXCEPT ![s] = Tail(@)]
  BY DEF TypeOK, Receive
<1>2. m \in Message /\ Tail(down[s]) \in Seq(Message)
  BY <1>1, TailSeq
<1>3. /\ down' \in [Session -> Seq(Message)]
      /\ down'[s] = Tail(down[s])
      /\ \A t \in Session : t # s => down'[t] = down[t]
  BY <1>1, <1>2 DEF TypeOK
<1>4. /\ list' \in [Session -> Lists] /\ editing' \in [Session -> Id \cup {0}]
      /\ \A t \in Session : t # s => list'[t] = list[t] /\ editing'[t] = editing[t]
  <2>1. CASE m.type = "GET_COMMENTS_RESPONSE"
    <3>1. m.comments \in Lists
      BY <1>2, <2>1, MessageFields
    <3>2. list' = [list EXCEPT ![s] = m.comments] /\ editing' = [editing EXCEPT ![s] = 0]
      BY <2>1 DEF Receive
    <3>3. QED
      BY <3>1, <3>2 DEF TypeOK
  <2>2. CASE m.type # "GET_COMMENTS_RESPONSE"
    BY <2>2 DEF Receive, TypeOK
  <2>3. QED
    BY <2>1, <2>2
<1>5. work' \in [Session -> Seq(Request)] /\ \A t \in Session : t # s => work'[t] = work[t]
  <2>1. CASE Ask(s, Get(at[s]))
    BY <2>1, AskedType, AskType, RequestKinds
  <2>2. CASE UNCHANGED work
    BY <2>2 DEF TypeOK
  <2>3. QED
    BY <2>1, <2>2 DEF Receive
<1>6. TypeOK'
  BY <1>3, <1>4, <1>5 DEF Receive, TypeOK, tables
<1>7. QED
  BY <1>1, <1>2, <1>3, <1>4, <1>5, <1>6

LEMMA DeleteUserType ==
  ASSUME TypeOK, NEW u \in Banned, DeleteUser(u)
  PROVE TypeOK'
<1>1. removed' \in [User -> BOOLEAN]
  BY DEF DeleteUser, TypeOK
<1>2. QED
  BY <1>1 DEF DeleteUser, TypeOK, pages

(* The steps, as the proofs below go through them. *)
LEMMA NextSteps ==
  ASSUME TypeOK, Next
  PROVE \/ \E s \in Session : \/ GetComments(s) \/ Refuse(s) \/ WritePush(s)
                              \/ \E b \in Book : Change(s, b)
                              \/ UserNext(s)
                              \/ Receive(s)
        \/ \E u \in Banned : DeleteUser(u)
<1>1. CASE \E u \in Banned : DeleteUser(u)
  BY <1>1
<1>2. ASSUME NEW s \in Session, WorkerNext(s)
      PROVE \/ GetComments(s) \/ Refuse(s) \/ WritePush(s)
            \/ \E b \in Book : Change(s, b)
  BY <1>2, Changes DEF WorkerNext
<1>3. QED
  BY <1>1, <1>2 DEF Next

LEMMA NextType == TypeOK /\ [Next]_vars => TypeOK'
<1> SUFFICES ASSUME TypeOK, [Next]_vars PROVE TypeOK'
  OBVIOUS
<1>1. CASE Next
  BY <1>1, NextSteps, WorkerType, ChangeType, UserType, ReceiveType, DeleteUserType
<1>2. CASE UNCHANGED vars
  BY <1>2 DEF vars, TypeOK
<1>3. QED
  BY <1>1, <1>2

(* Every variable keeps its type, whatever clients, workers and the           *)
(* administrator do.                                                          *)
THEOREM TypeCorrect == Spec => []TypeOK
BY InitType, NextType, PTL DEF Spec

-----------------------------------------------------------------------------
(* Whose comments the clients change.  An id, once given, stays with its      *)
(* comment: wherever a comment is listed, in the page or on its way, the row  *)
(* with that id is gone or still of the user the list says.                   *)

Sound(i, u) == i <= lastId /\ (comments[i] # NoRow => comments[i].user = u)

SoundLists == {l \in Lists : \A i \in DOMAIN l : Sound(i, l[i].user)}
SoundMessages == {m \in Message : m.type = "GET_COMMENTS_RESPONSE" => m.comments \in SoundLists}
SoundRequests(u) ==
  {r \in Request : r.type \in {"EDIT_COMMENT", "DELETE_COMMENT"} => Sound(r.id, u)}

NewIds == \A i \in Id : i > lastId => comments[i] = NoRow
ShownSound == \A s \in Session : list[s] \in SoundLists
HeardSound == \A s \in Session : down[s] \in Seq(SoundMessages)
BegunSound == \A s \in Session : userOf[s] # Admin /\ editing[s] # 0 => Sound(editing[s], userOf[s])
AskedSound == \A s \in Session : userOf[s] # Admin => work[s] \in Seq(SoundRequests(userOf[s]))

OwnInv == NewIds /\ ShownSound /\ HeardSound /\ BegunSound /\ AskedSound

LEMMA SeqSub ==
  ASSUME NEW S, NEW T, S \subseteq T, NEW q \in Seq(S)
  PROVE q \in Seq(T)
OBVIOUS

(* No step lets an id pass to somebody else. *)
SoundKept == \A i \in Id : \A u : Sound(i, u) => Sound(i, u)'

LEMMA KeptSame ==
  ASSUME UNCHANGED <<comments, lastId>>
  PROVE SoundKept /\ (NewIds => NewIds')
BY DEF SoundKept, Sound, NewIds

LEMMA KeptChange ==
  ASSUME TypeOK, NewIds, NEW s \in Session, NEW b \in Book, Change(s, b)
  PROVE SoundKept /\ NewIds'
<1>1. lastId \in Nat /\ lastId' \in {lastId, lastId + 1} /\ Id \subseteq Nat
  BY Rows, IdType DEF TypeOK
<1>2. ASSUME NEW i \in Id, NEW u, Sound(i, u) PROVE Sound(i, u)'
  <2>1. i <= lastId'
    BY <1>1, <1>2 DEF Sound
  <2>2. ASSUME comments'[i] # NoRow PROVE comments'[i].user = u
    <3>1. CASE comments'[i] = comments[i]
      BY <1>2, <2>2, <3>1 DEF Sound
    <3>2. CASE comments'[i] # comments[i]
      <4>1. i # lastId + 1
        BY <1>1, <1>2 DEF Sound
      <4>2. comments[i] # NoRow /\ comments'[i].user = comments[i].user
        BY <2>2, <3>2, <4>1, Rows
      <4>3. QED
        BY <1>2, <4>2 DEF Sound
    <3>3. QED
      BY <3>1, <3>2
  <2>3. QED
    BY <2>1, <2>2 DEF Sound
<1>3. ASSUME NEW i \in Id, i > lastId' PROVE comments'[i] = NoRow
  <2>1. i > lastId /\ ~(i = lastId + 1 /\ lastId' = lastId + 1)
    BY <1>1, <1>3
  <2>2. comments[i] = NoRow
    BY <2>1 DEF NewIds
  <2>3. QED
    BY <2>1, <2>2, Rows
<1>4. QED
  BY <1>2, <1>3 DEF SoundKept, NewIds

LEMMA KeptAll ==
  ASSUME SoundKept
  PROVE /\ SoundLists \subseteq SoundLists'
        /\ SoundMessages \subseteq SoundMessages'
        /\ \A u : SoundRequests(u) \subseteq SoundRequests(u)'
<1>1. ASSUME NEW l \in SoundLists PROVE l \in SoundLists'
  <2>1. l \in Lists /\ DOMAIN l \subseteq Id
    BY ListFields DEF SoundLists
  <2>2. \A i \in DOMAIN l : Sound(i, l[i].user)'
    BY <2>1 DEF SoundLists, SoundKept
  <2>3. QED
    BY <2>1, <2>2 DEF SoundLists
<1>2. ASSUME NEW m \in SoundMessages PROVE m \in SoundMessages'
  BY <1>1 DEF SoundMessages
<1>3. ASSUME NEW u, NEW r \in SoundRequests(u) PROVE r \in SoundRequests(u)'
  <2>1. r \in Request
    BY DEF SoundRequests
  <2>2. CASE r.type \in {"EDIT_COMMENT", "DELETE_COMMENT"}
    <3>1. r.id \in Id /\ Sound(r.id, u)
      BY <2>1, <2>2, RequestFields DEF SoundRequests
    <3>2. Sound(r.id, u)'
      BY <3>1 DEF SoundKept
    <3>3. QED
      BY <2>1, <3>2 DEF SoundRequests
  <2>3. CASE r.type \notin {"EDIT_COMMENT", "DELETE_COMMENT"}
    BY <2>1, <2>3 DEF SoundRequests
  <2>4. QED
    BY <2>2, <2>3
<1>4. QED
  BY <1>1, <1>2, <1>3

(* What is untouched by a step stays sound. *)
LEMMA SoundRest ==
  ASSUME TypeOK, OwnInv, SoundKept, userOf' = userOf, NEW t \in Session
  PROVE /\ list'[t] = list[t] => list'[t] \in SoundLists'
        /\ down'[t] = down[t] => down'[t] \in Seq(SoundMessages')
        /\ userOf[t] # Admin /\ editing'[t] = editing[t] /\ editing[t] # 0
             => Sound(editing[t], userOf[t])'
        /\ userOf[t] # Admin /\ work'[t] = work[t]
             => work'[t] \in Seq(SoundRequests(userOf[t])')
<1>1. list'[t] = list[t] => list'[t] \in SoundLists'
  BY KeptAll DEF OwnInv, ShownSound
<1>2. down[t] \in Seq(SoundMessages')
  BY KeptAll, SeqSub DEF OwnInv, HeardSound
<1>3. ASSUME userOf[t] # Admin, editing'[t] = editing[t], editing[t] # 0
      PROVE Sound(editing[t], userOf[t])'
  <2>1. editing[t] \in Id
    BY <1>3 DEF TypeOK
  <2>2. PICK i \in Id : i = editing[t]
    BY <2>1
  <2>3. PICK u : u = userOf[t]
    OBVIOUS
  <2>4. Sound(i, u)
    BY <1>3, <2>2, <2>3 DEF OwnInv, BegunSound
  <2>5. Sound(i, u)'
    BY <2>4 DEF SoundKept
  <2>6. QED
    BY <1>3, <2>2, <2>3, <2>5 DEF Sound
<1>4. ASSUME userOf[t] # Admin PROVE work[t] \in Seq(SoundRequests(userOf[t])')
  BY <1>4, KeptAll, SeqSub DEF OwnInv, AskedSound
<1>5. QED
  BY <1>1, <1>2, <1>3, <1>4

LEMMA OwnDone ==
  ASSUME TypeOK, OwnInv, SoundKept, NewIds', UNCHANGED pages,
         NEW s \in Session, NEW m \in SoundMessages', work[s] # <<>>, Done(s, m)
  PROVE OwnInv'
<1>1. m \in Message
  BY DEF SoundMessages
<1>2. /\ work[s] \in Seq(Request) /\ down[s] \in Seq(Message)
      /\ work'[s] = Tail(work[s]) /\ down'[s] = Append(down[s], m)
      /\ \A t \in Session : t # s => work'[t] = work[t] /\ down'[t] = down[t]
  BY <1>1, DoneType
<1>3. list' = list /\ editing' = editing /\ userOf' = userOf
  BY DEF pages
<1>4. ShownSound'
  BY <1>3, SoundRest DEF ShownSound
<1>5. BegunSound'
  BY <1>3, SoundRest DEF BegunSound
<1>6. ASSUME NEW t \in Session PROVE down'[t] \in Seq(SoundMessages')
  <2>1. CASE t # s
    BY <1>2, <1>3, <2>1, SoundRest
  <2>2. CASE t = s
    <3>1. down[s] \in Seq(SoundMessages')
      BY KeptAll, SeqSub DEF OwnInv, HeardSound
    <3>2. QED
      BY <1>2, <2>2, <3>1, AppendSeq
  <2>3. QED
    BY <2>1, <2>2
<1>7. ASSUME NEW t \in Session, userOf[t] # Admin
      PROVE work'[t] \in Seq(SoundRequests(userOf[t])')
  <2>1. CASE t # s
    BY <1>2, <1>3, <1>7, <2>1, SoundRest
  <2>2. CASE t = s
    <3>1. work[t] \in Seq(SoundRequests(userOf[t]))
      BY <1>7 DEF OwnInv, AskedSound
    <3>2. Tail(work[t]) \in Seq(SoundRequests(userOf[t]))
      BY <2>2, <3>1, TailSeq
    <3>3. SoundRequests(userOf[t]) \subseteq SoundRequests(userOf[t])'
      BY <1>3, KeptAll DEF SoundRequests
    <3>4. QED
      BY <1>2, <2>2, <3>2, <3>3, SeqSub
  <2>3. QED
    BY <2>1, <2>2
<1>8. HeardSound' /\ AskedSound'
  BY <1>3, <1>6, <1>7 DEF HeardSound, AskedSound
<1>9. QED
  BY <1>4, <1>5, <1>8 DEF OwnInv

(* The comments a worker lists are as the rows are. *)
LEMMA VisibleSound ==
  ASSUME TypeOK, NewIds, NEW b
  PROVE Visible(b) \in SoundLists
<1> DEFINE l == Visible(b)
           is == {j \in Id : /\ comments[j] # NoRow
                             /\ comments[j].book = b
                             /\ ~removed[comments[j].user]}
<1>1. l \in Lists /\ DOMAIN l = is /\ \A i \in DOMAIN l : l[i] = comments[i]
  BY VisibleType DEF TypeOK
<1> HIDE DEF l
<1>2. l \in Lists /\ \A i \in DOMAIN l : i \in Id /\ comments[i] # NoRow /\ l[i] = comments[i]
  BY <1>1
<1>3. lastId \in Nat /\ Id \subseteq Nat
  BY IdType DEF TypeOK
<1>4. ASSUME NEW i \in DOMAIN l PROVE Sound(i, l[i].user)
  <2>1. i \in Nat /\ lastId \in Nat /\ ~(i > lastId)
    BY <1>2, <1>3 DEF NewIds
  <2>2. i <= lastId
    BY <2>1
  <2>3. comments[i].user = l[i].user
    BY <1>2
  <2>4. QED
    BY <2>2, <2>3 DEF Sound
<1>5. QED
  BY <1>2, <1>4 DEF SoundLists, l

LEMMA OtherSound ==
  ASSUME NEW m \in Message, m.type # "GET_COMMENTS_RESPONSE"
  PROVE m \in SoundMessages
BY DEF SoundMessages

LEMMA WorkerOwn ==
  ASSUME TypeOK, OwnInv, NEW s \in Session, GetComments(s) \/ Refuse(s) \/ WritePush(s)
  PROVE OwnInv'
<1>1. UNCHANGED <<comments, lastId>> /\ UNCHANGED pages
  BY DEF GetComments, Refuse, WritePush, tables
<1>2. SoundKept /\ NewIds'
  BY <1>1, KeptSame DEF OwnInv
<1>3. CASE GetComments(s)
  <2> DEFINE m == Listing(Visible(Req(s).book))
  <2>1. m.comments \in SoundLists /\ m \in Message
    BY VisibleSound, MessageKinds DEF SoundLists, OwnInv
  <2>2. Done(s, m) /\ work[s] # <<>>
    BY <1>3 DEF GetComments, Takes
  <2> HIDE DEF m
  <2>3. m \in SoundMessages
    BY <2>1 DEF SoundMessages
  <2>4. m \in SoundMessages'
    BY <1>2, <2>3, KeptAll
  <2>5. QED
    BY <1>1, <1>2, <2>2, <2>4, OwnDone
<1>4. CASE Refuse(s)
  <2>1. Answer(FALSE) \in SoundMessages
    BY MessageKinds, OtherSound
  <2>2. Answer(FALSE) \in SoundMessages'
    BY <1>2, <2>1, KeptAll
  <2>3. Done(s, Answer(FALSE)) /\ work[s] # <<>>
    BY <1>4 DEF Refuse, Takes
  <2>4. QED
    BY <1>1, <1>2, <2>2, <2>3, OwnDone
<1>5. CASE WritePush(s)
  <2> DEFINE m == Updated(Head(events[s]))
  <2>1. Head(events[s]) \in Book
    BY <1>5, TailSeq DEF WritePush, TypeOK
  <2>2. m \in SoundMessages
    BY <2>1, MessageKinds, OtherSound
  <2>3. m \in SoundMessages'
    BY <1>2, <2>2, KeptAll
  <2>4. down' = [down EXCEPT ![s] = Append(@, m)]
    BY <1>5 DEF WritePush
  <2> HIDE DEF m
  <2>5. list' = list /\ editing' = editing /\ userOf' = userOf /\ work' = work
    BY <1>5 DEF WritePush, pages
  <2>6. ASSUME NEW t \in Session PROVE down'[t] \in Seq(SoundMessages')
    <3>1. down[t] \in Seq(SoundMessages')
      BY <1>2, KeptAll, SeqSub DEF OwnInv, HeardSound
    <3>2. down'[t] = IF t = s THEN Append(down[t], m) ELSE down[t]
      BY <2>4 DEF TypeOK
    <3>3. QED
      BY <2>3, <3>1, <3>2, AppendSeq
  <2>7. ShownSound' /\ BegunSound'
    BY <1>2, <2>5, SoundRest DEF ShownSound, BegunSound
  <2>8. AskedSound'
    BY <1>2, <2>5, SoundRest DEF AskedSound
  <2>9. HeardSound'
    BY <2>6 DEF HeardSound
  <2>10. QED
    BY <1>2, <2>7, <2>8, <2>9 DEF OwnInv
<1>6. QED
  BY <1>3, <1>4, <1>5

LEMMA ChangeOwn ==
  ASSUME TypeOK, OwnInv, NEW s \in Session, NEW b \in Book, Change(s, b)
  PROVE OwnInv'
<1>1. SoundKept /\ NewIds'
  BY KeptChange DEF OwnInv
<1>2. work[s] # <<>> /\ Ended(s, b) /\ UNCHANGED pages
  BY DEF Change, Added, Edited, Deleted, Takes
<1>3. PICK ok \in BOOLEAN : Done(s, Answer(ok))
  BY <1>2, EndedType
<1>4. Answer(ok) \in SoundMessages'
  BY <1>1, MessageKinds, OtherSound, KeptAll
<1>5. QED
  BY <1>1, <1>2, <1>3, <1>4, OwnDone

(* The client of s has sent r. *)
LEMMA OwnAsk ==
  ASSUME TypeOK, OwnInv, SoundKept, userOf' = userOf, UNCHANGED <<comments, lastId>>,
         NEW s \in Session, NEW r \in Request, Ask(s, r),
         userOf[s] # Admin => r \in SoundRequests(userOf[s])
  PROVE AskedSound'
<1> SUFFICES ASSUME NEW t \in Session, userOf[t] # Admin
             PROVE work'[t] \in Seq(SoundRequests(userOf[t])')
  BY DEF AskedSound
<1>1. /\ work'[s] = Append(work[s], r)
      /\ \A v \in Session : v # s => work'[v] = work[v]
  BY AskType
<1>2. CASE t # s
  BY <1>1, <1>2, SoundRest
<1>3. CASE t = s
  <2>1. work[t] \in Seq(SoundRequests(userOf[t]))
    BY DEF OwnInv, AskedSound
  <2>2. Append(work[t], r) \in Seq(SoundRequests(userOf[t]))
    BY <1>3, <2>1, AppendSeq
  <2>3. SoundRequests(userOf[t]) = SoundRequests(userOf[t])'
    BY DEF SoundRequests, Sound
  <2>4. QED
    BY <1>1, <1>3, <2>2, <2>3
<1>4. QED
  BY <1>2, <1>3

(* The page offers the comments of its user only. *)
LEMMA MineSound ==
  ASSUME TypeOK, OwnInv, NEW s \in Session, NEW i \in Mine(s)
  PROVE i \in Id /\ Sound(i, userOf[s])
<1>1. i \in DOMAIN list[s] /\ list[s][i].user = userOf[s]
  BY DEF Mine
<1>2. Sound(i, list[s][i].user)
  BY <1>1 DEF OwnInv, ShownSound, SoundLists
<1>3. QED
  BY <1>1, <1>2, AskedType

LEMMA UserOwn ==
  ASSUME TypeOK, OwnInv, NEW s \in Session, UserNext(s)
  PROVE OwnInv'
<1>1. /\ UNCHANGED <<comments, lastId>> /\ userOf' = userOf
      /\ list' = list /\ down' = down
  BY DEF UserNext, Submit, Open, StartEdit, ClickDelete, tables
<1>2. SoundKept /\ NewIds'
  BY <1>1, KeptSame DEF OwnInv
<1>3. ShownSound' /\ HeardSound'
  BY <1>1, <1>2, SoundRest DEF ShownSound, HeardSound
<1>4. CASE Submit(s)
  <2>1. PICK r \in Request : /\ Ask(s, r)
                             /\ r.type # "DELETE_COMMENT"
                             /\ r.type = "EDIT_COMMENT" => editing[s] # 0 /\ r.id = editing[s]
    BY <1>4, SubmitType
  <2>2. userOf[s] # Admin => r \in SoundRequests(userOf[s])
    BY <2>1 DEF OwnInv, BegunSound, SoundRequests
  <2>3. AskedSound'
    BY <1>1, <1>2, <2>1, <2>2, OwnAsk
  <2>4. editing' = editing
    BY <1>4 DEF Submit
  <2>5. BegunSound'
    BY <1>1, <1>2, <2>4, SoundRest DEF BegunSound
  <2>6. QED
    BY <1>2, <1>3, <2>3, <2>5 DEF OwnInv
<1>5. ASSUME NEW b \in Book, Open(s, b) PROVE OwnInv'
  <2>1. Ask(s, Get(b)) /\ Get(b) \in Request /\ Get(b).type = "GET_COMMENTS"
    BY <1>5, RequestKinds DEF Open
  <2>2. \A u : Get(b) \in SoundRequests(u)
    BY <2>1 DEF SoundRequests
  <2>3. AskedSound'
    BY <1>1, <1>2, <2>1, <2>2, OwnAsk
  <2>4. editing' = editing
    BY <1>5 DEF Open
  <2>5. BegunSound'
    BY <1>1, <1>2, <2>4, SoundRest DEF BegunSound
  <2>6. QED
    BY <1>2, <1>3, <2>3, <2>5 DEF OwnInv
<1>6. ASSUME NEW i \in Id, StartEdit(s, i) PROVE OwnInv'
  <2>1. i \in Mine(s) /\ editing' = [editing EXCEPT ![s] = i] /\ work' = work
    BY <1>6 DEF StartEdit
  <2>2. AskedSound'
    BY <1>1, <1>2, <2>1, SoundRest DEF AskedSound
  <2>3. ASSUME NEW t \in Session, userOf'[t] # Admin, editing'[t] # 0
        PROVE Sound(editing[t], userOf[t])'
    <3>1. CASE t # s
      <4>1. editing'[t] = editing[t]
        BY <2>1, <3>1 DEF TypeOK
      <4>2. editing[t] # 0 /\ userOf[t] # Admin
        BY <1>1, <2>3, <4>1
      <4>3. Sound(editing[t], userOf[t])
        BY <4>2 DEF OwnInv, BegunSound
      <4>4. QED
        BY <1>1, <4>1, <4>3 DEF Sound
    <3>2. CASE t = s
      <4>1. editing'[t] = i
        BY <2>1, <3>2 DEF TypeOK
      <4>2. Sound(i, userOf[t])
        BY <2>1, <3>2, MineSound
      <4>3. QED
        BY <1>1, <4>1, <4>2 DEF Sound
    <3>3. QED
      BY <3>1, <3>2
  <2>4. BegunSound'
    BY <2>3 DEF BegunSound
  <2>5. QED
    BY <1>2, <1>3, <2>2, <2>4 DEF OwnInv
<1>7. ASSUME NEW i \in Id, ClickDelete(s, i) PROVE OwnInv'
  <2>1. Ask(s, Delete(i)) /\ Delete(i) \in Request /\ Delete(i).id = i
    BY <1>7, RequestKinds DEF ClickDelete
  <2>2. userOf[s] # Admin => Delete(i) \in SoundRequests(userOf[s])
    <3>1. userOf[s] # Admin => i \in Mine(s)
      BY <1>7 DEF ClickDelete
    <3>2. QED
      BY <2>1, <3>1, MineSound DEF SoundRequests
  <2>3. AskedSound'
    BY <1>1, <1>2, <2>1, <2>2, OwnAsk
  <2>4. editing' = editing
    BY <1>7 DEF ClickDelete
  <2>5. BegunSound'
    BY <1>1, <1>2, <2>4, SoundRest DEF BegunSound
  <2>6. QED
    BY <1>2, <1>3, <2>3, <2>5 DEF OwnInv
<1>8. QED
  BY <1>4, <1>5, <1>6, <1>7 DEF UserNext

LEMMA ReceiveOwn ==
  ASSUME TypeOK, OwnInv, NEW s \in Session, Receive(s)
  PROVE OwnInv'
<1> DEFINE m == Head(down[s])
<1>1. UNCHANGED <<comments, lastId>> /\ userOf' = userOf /\ at' = at
  BY DEF Receive, tables
<1>2. SoundKept /\ NewIds'
  BY <1>1, KeptSame DEF OwnInv
<1>3. /\ down'[s] = Tail(down[s])
      /\ \A t \in Session : t # s => /\ down'[t] = down[t] /\ work'[t] = work[t]
                                     /\ list'[t] = list[t] /\ editing'[t] = editing[t]
  BY ReceiveType
<1>4. down[s] \in Seq(SoundMessages) /\ down[s] # <<>>
  BY DEF OwnInv, HeardSound, Receive
<1>5. m \in SoundMessages /\ Tail(down[s]) \in Seq(SoundMessages)
  BY <1>4, TailSeq
<1>6. HeardSound'
  <2>1. down'[s] \in Seq(SoundMessages')
    BY <1>2, <1>3, <1>5, KeptAll, SeqSub
  <2>2. \A t \in Session : down'[t] \in Seq(SoundMessages')
    BY <1>1, <1>2, <1>3, <2>1, SoundRest
  <2>3. QED
    BY <2>2 DEF HeardSound
<1>7. ShownSound' /\ BegunSound'
  <2>1. CASE m.type = "GET_COMMENTS_RESPONSE"
    <3>1. list' = [list EXCEPT ![s] = m.comments] /\ editing' = [editing EXCEPT ![s] = 0]
      BY <2>1 DEF Receive
    <3>2. list'[s] = m.comments /\ editing'[s] = 0
      BY <3>1 DEF TypeOK
    <3>3. list'[s] \in SoundLists
      BY <1>5, <2>1, <3>2 DEF SoundMessages
    <3>4. list'[s] \in SoundLists'
      BY <1>2, <3>3, KeptAll
    <3>5. \A t \in Session : list'[t] \in SoundLists'
      BY <1>1, <1>2, <1>3, <3>4, SoundRest
    <3>6. ASSUME NEW t \in Session, userOf'[t] # Admin, editing'[t] # 0
          PROVE Sound(editing[t], userOf[t])'
      <4>1. t # s /\ editing'[t] = editing[t]
        BY <1>3, <3>2, <3>6
      <4>2. QED
        BY <1>1, <1>2, <3>6, <4>1, SoundRest
    <3>7. QED
      BY <3>5, <3>6 DEF ShownSound, BegunSound
  <2>2. CASE m.type # "GET_COMMENTS_RESPONSE"
    <3>1. list' = list /\ editing' = editing
      BY <2>2 DEF Receive
    <3>2. QED
      BY <1>1, <1>2, <3>1, SoundRest DEF ShownSound, BegunSound
  <2>3. QED
    BY <2>1, <2>2
<1>8. AskedSound'
  <2>1. CASE Ask(s, Get(at[s]))
    <3>1. Get(at[s]) \in Request /\ Get(at[s]).type = "GET_COMMENTS"
      BY AskedType, RequestKinds
    <3>2. \A u : Get(at[s]) \in SoundRequests(u)
      BY <3>1 DEF SoundRequests
    <3>3. QED
      BY <1>1, <1>2, <2>1, <3>1, <3>2, OwnAsk
  <2>2. CASE UNCHANGED work
    BY <1>1, <1>2, <2>2, SoundRest DEF AskedSound
  <2>3. QED
    BY <2>1, <2>2 DEF Receive
<1>9. QED
  BY <1>2, <1>6, <1>7, <1>8 DEF OwnInv

LEMMA RestOwn ==
  ASSUME TypeOK, OwnInv, UNCHANGED <<comments, lastId, work, down, pages>>
  PROVE OwnInv'
<1>1. userOf' = userOf /\ list' = list /\ editing' = editing /\ work' = work /\ down' = down
  BY DEF pages
<1>2. SoundKept /\ NewIds'
  BY KeptSame DEF OwnInv
<1>3. ShownSound' /\ HeardSound' /\ BegunSound' /\ AskedSound'
  BY <1>1, <1>2, SoundRest DEF ShownSound, HeardSound, BegunSound, AskedSound
<1>4. QED
  BY <1>2, <1>3 DEF OwnInv

LEMMA InitOwn == Init => OwnInv
<1> SUFFICES ASSUME Init PROVE OwnInv
  OBVIOUS
<1>1. TypeOK
  BY InitType
<1>2. NewIds
  BY RowAssumption, IdType DEF Init, NewIds
<1>3. HeardSound /\ AskedSound /\ BegunSound
  <2>1. \A S : <<>> \in Seq(S)
    OBVIOUS
  <2>2. QED
    BY <2>1 DEF Init, HeardSound, AskedSound, BegunSound
<1>4. \A b : Visible(b) \in SoundLists
  BY <1>1, <1>2, VisibleSound
<1>5. ShownSound
  BY <1>4 DEF Init, ShownSound
<1>6. QED
  BY <1>2, <1>3, <1>5 DEF OwnInv

LEMMA NextOwn == TypeOK /\ OwnInv /\ [Next]_vars => OwnInv'
<1> SUFFICES ASSUME TypeOK, OwnInv, [Next]_vars PROVE OwnInv'
  OBVIOUS
<1>1. CASE Next
  <2>1. ASSUME NEW u \in Banned, DeleteUser(u) PROVE OwnInv'
    <3>1. UNCHANGED <<comments, lastId, work, down, pages>>
      BY <2>1 DEF DeleteUser
    <3>2. QED
      BY <3>1, RestOwn
  <2>2. QED
    BY <1>1, <2>1, NextSteps, WorkerOwn, ChangeOwn, UserOwn, ReceiveOwn
<1>2. CASE UNCHANGED vars
  <2>1. UNCHANGED <<comments, lastId, work, down, pages>>
    BY <1>2 DEF vars, pages
  <2>2. QED
    BY <2>1, RestOwn
<1>3. QED
  BY <1>1, <1>2

LEMMA EditStep ==
  ASSUME TypeOK, OwnInv, [Next]_vars,
         NEW s \in Session, NEW i \in Id, userOf[s] # Admin,
         work[s] # <<>>, work'[s] = Tail(work[s]),
         comments[i] # NoRow, comments'[i] # comments[i]
  PROVE comments[i].user = userOf[s]
<1>1. PICK t \in Session, b \in Book : Change(t, b)
  <2>1. comments' # comments
    OBVIOUS
  <2>2. Next
    BY <2>1 DEF vars
  <2>3. ASSUME NEW t \in Session, GetComments(t) \/ Refuse(t) \/ WritePush(t) \/ UserNext(t) \/ Receive(t)
        PROVE comments' = comments
    BY <2>3 DEF GetComments, Refuse, WritePush, UserNext, Submit, Open, StartEdit, ClickDelete,
                Receive, tables
  <2>4. ASSUME NEW u \in Banned, DeleteUser(u) PROVE comments' = comments
    BY <2>4 DEF DeleteUser
  <2>5. QED
    BY <2>1, <2>2, <2>3, <2>4, NextSteps
<1>2. /\ Req(t).type \in {"EDIT_COMMENT", "DELETE_COMMENT"} /\ i = Req(t).id
  <2>1. i # lastId + 1
    BY IdType DEF OwnInv, NewIds, TypeOK
  <2>2. QED
    BY <1>1, <2>1, Rows
<1>3. work[s] \in Seq(Request) /\ Tail(work[s]) # work[s]
  <2>1. work[s] \in Seq(Request)
    BY DEF TypeOK
  <2>2. Len(Tail(work[s])) = Len(work[s]) - 1 /\ Len(work[s]) \in Nat
    BY <2>1, TailSeq
  <2>3. ASSUME Tail(work[s]) = work[s] PROVE FALSE
    <3>1. Len(work[s]) = Len(work[s]) - 1
      BY <2>2, <2>3
    <3>2. QED
      BY <2>2, <3>1
  <2>4. QED
    BY <2>1, <2>3
<1>4. work[t] # <<>> /\ Ended(t, b)
  BY <1>1 DEF Change, Added, Edited, Deleted, Takes
<1>5. s = t
  <2>1. PICK ok \in BOOLEAN : Done(t, Answer(ok))
    BY <1>4, EndedType
  <2>2. s # t => work'[s] = work[s]
    BY <1>4, <2>1, MessageKinds, DoneType
  <2>3. QED
    BY <1>3, <2>2
<1>6. work[s] \in Seq(SoundRequests(userOf[s]))
  BY DEF OwnInv, AskedSound
<1>7. Req(s) \in SoundRequests(userOf[s])
  BY <1>6, TailSeq DEF Req
<1>8. QED
  BY <1>2, <1>5, <1>7 DEF SoundRequests, Sound

LEMMA OwnHolds == Spec => [](TypeOK /\ OwnInv)
<1>1. Init => TypeOK /\ OwnInv
  BY InitType, InitOwn
<1>2. TypeOK /\ OwnInv /\ [Next]_vars => (TypeOK /\ OwnInv)'
  BY NextType, NextOwn
<1>3. QED
  BY <1>1, <1>2, PTL DEF Spec

(* A comment is edited or deleted on behalf of its author only, or of the     *)
(* administrator, although the server never compares the two: what a client   *)
(* asks to change is what it was shown as its user's own, and no id is given  *)
(* twice.                                                                     *)
THEOREM EditsAreOwn == Spec => EditsOwn
<1> DEFINE Own ==
      \A s \in Session, i \in Id :
        /\ userOf[s] # Admin
        /\ work[s] # <<>> /\ work'[s] = Tail(work[s])
        /\ comments[i] # NoRow /\ comments'[i] # comments[i]
        => comments[i].user = userOf[s]
<1>1. TypeOK /\ OwnInv /\ [Next]_vars => [Own]_vars
  BY EditStep
<1>2. QED
  BY <1>1, OwnHolds, PTL DEF EditsOwn, Spec

-----------------------------------------------------------------------------
(* What the pages show.  A page whose list is out of date has something on    *)
(* its way that will bring the right one: a request, a push that makes it     *)
(* ask, or the list itself.  Its requests are answered in their order, so     *)
(* that the last list to come is that of its book.                            *)

Gets == {r \in Request : r.type = "GET_COMMENTS"}
GetsOf(b) == {r \in Gets : r.book = b}

(* A list that is as the page should show it, up to comments whose users have *)
(* been deleted since.                                                        *)
Kept(l) == [i \in {j \in DOMAIN l : ~removed[l[j].user]} |-> l[i]]
Good(b) == {l \in Lists : Kept(l) = Visible(b)}

Listings == {m \in Message : m.type = "GET_COMMENTS_RESPONSE"}
Listed(G) == {m \in Listings : m.comments \in G}

(* What makes a page of b ask again. *)
Calls(b) == {m \in Message : \/ m.type = "COMMENT_UPDATED" /\ m.book = b
                             \/ m.type = "RESPONSE" /\ m.ok}

(* The last list asked for is that of b. *)
Latest(w, b) == ~Has(w, Gets) \/ Left(w, GetsOf(b), Gets)

(* With w in work, e and d on their way and l shown, the page of b is, or     *)
(* will come to be, up to date; G are the lists that are.                     *)
Fresh(w, e, d, l, b, G) ==
  \/ Has(w, Gets)
  \/ Has(e, {b})
  \/ Has(d, Calls(b))
  \/ Left(d, Listed(G), Listings)
  \/ ~Has(d, Listings) /\ l \in G

PagesInv ==
  \A s \in Session :
    /\ Latest(work[s], at[s])
    /\ at[s] \in failed \/ Fresh(work[s], events[s], down[s], list[s], at[s], Good(at[s]))

LEMMA FreshMore ==
  ASSUME NEW w, NEW e, NEW d, NEW l, NEW b, NEW G, NEW H, G \subseteq H, Fresh(w, e, d, l, b, G)
  PROVE Fresh(w, e, d, l, b, H)
<1>1. Left(d, Listed(G), Listings) => Left(d, Listed(H), Listings)
  BY DEF Left, Listed
<1>2. QED
  BY <1>1 DEF Fresh

(* A request is answered: a list asked for is sent, anything else is not a    *)
(* list.                                                                      *)
LEMMA FreshDone ==
  ASSUME NEW w \in Seq(Request), w # <<>>, NEW e, NEW d \in Seq(Message), NEW l, NEW b, NEW G,
         NEW m \in Message, Latest(w, b),
         Head(w) \in Gets => m \in Listings /\ (Head(w) \in GetsOf(b) => m \in Listed(G)),
         Head(w) \notin Gets => m \notin Listings
  PROVE /\ Latest(Tail(w), b)
        /\ Fresh(w, e, d, l, b, G) => Fresh(Tail(w), e, Append(d, m), l, b, G)
<1>1. /\ Has(w, Gets) <=> Head(w) \in Gets \/ Has(Tail(w), Gets)
      /\ Left(w, GetsOf(b), Gets) <=> \/ Head(w) \in GetsOf(b) /\ ~Has(Tail(w), Gets)
                                      \/ Left(Tail(w), GetsOf(b), Gets)
  BY InTail
<1>2. /\ Has(Append(d, m), Calls(b)) <=> Has(d, Calls(b)) \/ m \in Calls(b)
      /\ Has(Append(d, m), Listings) <=> Has(d, Listings) \/ m \in Listings
      /\ Left(Append(d, m), Listed(G), Listings) <=>
           m \in Listed(G) \/ (Left(d, Listed(G), Listings) /\ m \notin Listings)
  BY InAppend
<1>3. Left(Tail(w), GetsOf(b), Gets) => Has(Tail(w), Gets)
  BY DEF Left, Has, GetsOf
<1>4. Latest(Tail(w), b)
  BY <1>1 DEF Latest
<1>5. ASSUME Fresh(w, e, d, l, b, G) PROVE Fresh(Tail(w), e, Append(d, m), l, b, G)
  <2>1. CASE Has(Tail(w), Gets)
    BY <2>1 DEF Fresh
  <2>2. CASE Head(w) \in Gets /\ ~Has(Tail(w), Gets)
    BY <1>1, <1>2, <1>3, <2>2 DEF Fresh, Latest
  <2>3. CASE Head(w) \notin Gets /\ ~Has(Tail(w), Gets)
    BY <1>1, <1>2, <1>5, <2>3 DEF Fresh
  <2>4. QED
    BY <2>1, <2>2, <2>3
<1>6. QED
  BY <1>4, <1>5

LEMMA FreshSend ==
  ASSUME NEW w \in Seq(Request), NEW e, NEW d, NEW l, NEW b, NEW G, NEW r \in Request
  PROVE /\ r \in GetsOf(b) => /\ Latest(Append(w, r), b)
                              /\ Fresh(Append(w, r), e, d, l, b, G)
        /\ r \notin Gets => /\ Latest(w, b) => Latest(Append(w, r), b)
                            /\ Fresh(w, e, d, l, b, G) => Fresh(Append(w, r), e, d, l, b, G)
<1>1. /\ Has(Append(w, r), Gets) <=> Has(w, Gets) \/ r \in Gets
      /\ Left(Append(w, r), GetsOf(b), Gets) <=>
           r \in GetsOf(b) \/ (Left(w, GetsOf(b), Gets) /\ r \notin Gets)
  BY InAppend
<1>2. GetsOf(b) \subseteq Gets
  BY DEF GetsOf
<1>3. QED
  BY <1>1, <1>2 DEF Latest, Fresh

LEMMA FreshTold ==
  ASSUME NEW w, NEW e \in Seq(Book), NEW d, NEW l, NEW b, NEW G, NEW c \in Book
  PROVE /\ b = c => Fresh(w, Append(e, c), d, l, b, G)
        /\ Fresh(w, e, d, l, b, G) => Fresh(w, Append(e, c), d, l, b, G)
<1>1. Has(Append(e, c), {b}) <=> Has(e, {b}) \/ c \in {b}
  BY HasAppend
<1>2. QED
  BY <1>1 DEF Fresh

LEMMA FreshPush ==
  ASSUME NEW w, NEW e \in Seq(Book), e # <<>>, NEW d \in Seq(Message), NEW l, NEW b, NEW G,
         Fresh(w, e, d, l, b, G)
  PROVE Fresh(w, Tail(e), Append(d, Updated(Head(e))), l, b, G)
<1> DEFINE m == Updated(Head(e))
<1>1. Has(e, {b}) <=> Head(e) \in {b} \/ Has(Tail(e), {b})
  BY HasTail
<1>2. Head(e) \in Book
  BY TailSeq
<1>3. m \in Message /\ m \notin Listings /\ (Head(e) = b => m \in Calls(b))
  BY <1>2, MessageKinds DEF Listings, Calls
<1> HIDE DEF m
<1>4. /\ Has(Append(d, m), Calls(b)) <=> Has(d, Calls(b)) \/ m \in Calls(b)
      /\ Has(Append(d, m), Listings) <=> Has(d, Listings) \/ m \in Listings
      /\ Left(Append(d, m), Listed(G), Listings) <=>
           m \in Listed(G) \/ (Left(d, Listed(G), Listings) /\ m \notin Listings)
  BY <1>3, InAppend
<1>5. Fresh(w, Tail(e), Append(d, m), l, b, G)
  BY <1>1, <1>3, <1>4 DEF Fresh
<1>6. QED
  BY <1>5 DEF m

(* The page takes a message that does not make it ask: a list, or one that    *)
(* tells it nothing.                                                          *)
LEMMA FreshTake ==
  ASSUME NEW w, NEW e, NEW d \in Seq(Message), d # <<>>, NEW l, NEW k, NEW b, NEW G \in SUBSET Lists,
         Head(d) \notin Calls(b),
         Head(d) \in Listings => k = Head(d).comments,
         Head(d) \notin Listings => k = l,
         Fresh(w, e, d, l, b, G)
  PROVE Fresh(w, e, Tail(d), k, b, G)
<1>1. /\ Has(d, Calls(b)) <=> Head(d) \in Calls(b) \/ Has(Tail(d), Calls(b))
      /\ Has(d, Listings) <=> Head(d) \in Listings \/ Has(Tail(d), Listings)
      /\ Left(d, Listed(G), Listings) <=> \/ Head(d) \in Listed(G) /\ ~Has(Tail(d), Listings)
                                          \/ Left(Tail(d), Listed(G), Listings)
  BY InTail
<1>2. Head(d) \in Listed(G) => Head(d) \in Listings /\ k \in G
  BY DEF Listed
<1>3. QED
  BY <1>1, <1>2 DEF Fresh

(* The lists that are right for a book stay right, but those of the book a    *)
(* comment of which is added, edited or deleted.                              *)
LEMMA GoodSame ==
  ASSUME UNCHANGED <<comments, removed>>, NEW c
  PROVE Good(c)' = Good(c)
BY DEF Good, Kept, Visible

LEMMA GoodOther ==
  ASSUME TypeOK, NewIds, NEW s \in Session, NEW b \in Book, Change(s, b), NEW c \in Book, c # b
  PROVE Good(c)' = Good(c)
<1>1. removed' = removed
  BY DEF Change
<1> DEFINE In(j) == comments[j] # NoRow /\ comments[j].book = c /\ ~removed[comments[j].user]
           InThen(j) == comments'[j] # NoRow /\ comments'[j].book = c /\ ~removed[comments'[j].user]
<1>2. ASSUME NEW j \in Id, comments'[j] # comments[j] PROVE ~In(j) /\ ~InThen(j)
  <2>1. CASE j = lastId + 1 /\ comments'[j].book = b
    <3>1. comments[j] = NoRow
      BY <2>1, IdType DEF NewIds, TypeOK
    <3>2. QED
      BY <2>1, <3>1
  <2>2. CASE /\ comments[j] # NoRow /\ comments[j].book = b
             /\ comments'[j] # NoRow => comments'[j].book = b
    BY <2>2
  <2>3. QED
    BY <1>2, <2>1, <2>2, Rows
<1>3. \A j \in Id : (In(j) <=> InThen(j)) /\ (In(j) => comments'[j] = comments[j])
  BY <1>1, <1>2
<1>4. Visible(c) = [i \in {j \in Id : In(j)} |-> comments[i]]
  BY DEF Visible
<1>5. Visible(c)' = [i \in {j \in Id : InThen(j)} |-> comments'[i]]
  BY <1>1 DEF Visible
<1> HIDE DEF In, InThen
<1>6. Visible(c)' = Visible(c)
  BY <1>3, <1>4, <1>5
<1>7. \A l : Kept(l)' = Kept(l)
  BY <1>1 DEF Kept
<1>8. QED
  BY <1>6, <1>7 DEF Good

LEMMA GoodRemoved ==
  ASSUME TypeOK, NEW u \in Banned, DeleteUser(u), NEW c \in Book
  PROVE Good(c) \subseteq Good(c)'
<1> SUFFICES ASSUME NEW l \in Lists, Kept(l) = Visible(c) PROVE Kept(l)' = Visible(c)'
  BY DEF Good
<1>1. comments' = comments /\ \A v \in User : removed[v] => removed'[v]
  BY DEF DeleteUser, TypeOK
<1>2. \A i \in DOMAIN l : i \in Id /\ l[i].user \in User
  BY ListFields, CommentFields
<1>3. \A i \in Id : comments[i] # NoRow => comments[i].user \in User
  BY CommentFields DEF TypeOK
<1> DEFINE K == {j \in DOMAIN l : ~removed[l[j].user]}
           V == {j \in Id : /\ comments[j] # NoRow
                            /\ comments[j].book = c
                            /\ ~removed[comments[j].user]}
           KThen == {j \in DOMAIN l : ~removed'[l[j].user]}
           VThen == {j \in Id : /\ comments[j] # NoRow
                                /\ comments[j].book = c
                                /\ ~removed'[comments[j].user]}
<1>4. [i \in K |-> l[i]] = [i \in V |-> comments[i]]
  BY DEF Kept, Visible
<1>5. K = V /\ \A i \in K : l[i] = comments[i]
  <2>1. DOMAIN [i \in K |-> l[i]] = K /\ DOMAIN [i \in V |-> comments[i]] = V
    OBVIOUS
  <2> DEFINE f == [i \in K |-> l[i]]
             g == [i \in V |-> comments[i]]
  <2>2. \A i \in K : f[i] = l[i]
    OBVIOUS
  <2>3. \A i \in V : g[i] = comments[i]
    OBVIOUS
  <2>4. f = g /\ DOMAIN f = K /\ DOMAIN g = V
    BY <1>4, <2>1
  <2> HIDE DEF f, g, K, V
  <2>5. K = V
    BY <2>4
  <2>6. QED
    BY <2>2, <2>3, <2>4, <2>5
<1>6. KThen \subseteq K /\ VThen \subseteq V
  BY <1>1, <1>2, <1>3
<1>7. KThen = VThen
  <2>1. ASSUME NEW j \in KThen PROVE j \in VThen
    BY <1>5, <1>6
  <2>2. ASSUME NEW j \in VThen PROVE j \in KThen
    <3>1. j \in K /\ l[j] = comments[j]
      BY <1>5, <1>6
    <3>2. QED
      BY <3>1
  <2>3. QED
    BY <2>1, <2>2
<1>8. Kept(l)' = [i \in KThen |-> l[i]]
  BY DEF Kept
<1>9. Visible(c)' = [i \in VThen |-> comments[i]]
  BY <1>1 DEF Visible
<1>10. \A i \in KThen : l[i] = comments[i]
  BY <1>5, <1>6
<1> HIDE DEF KThen, VThen
<1>11. QED
  BY <1>7, <1>8, <1>9, <1>10

LEMMA PagesNext ==
  ASSUME \A t \in Session : \E c \in Book :
           /\ at'[t] = c
           /\ Latest(work'[t], c)
           /\ c \in failed' \/ Fresh(work'[t], events'[t], down'[t], list'[t], c, Good(c)')
  PROVE PagesInv'
<1> SUFFICES ASSUME NEW t \in Session
             PROVE /\ Latest(work'[t], at'[t])
                   /\ at'[t] \in failed' \/
                        Fresh(work'[t], events'[t], down'[t], list'[t], at'[t], Good(at[t])')
  BY DEF PagesInv
<1>1. PICK c \in Book :
           /\ at'[t] = c
           /\ Latest(work'[t], c)
           /\ c \in failed' \/ Fresh(work'[t], events'[t], down'[t], list'[t], c, Good(c)')
  OBVIOUS
<1>2. Good(c)' = Good(at[t])'
  BY <1>1 DEF Good, Visible
<1>3. QED
  BY <1>1, <1>2

(* The page of t and what is on its way to it are not touched by a step after *)
(* which what was right to show still is.                                     *)
LEMMA PageSame ==
  ASSUME TypeOK, PagesInv, NEW t \in Session, NEW c \in Book, c = at[t],
         at'[t] = at[t], work'[t] = work[t], events'[t] = events[t],
         down'[t] = down[t], list'[t] = list[t], failed \subseteq failed',
         Good(c) \subseteq Good(c)'
  PROVE /\ at'[t] = c
        /\ Latest(work'[t], c)
        /\ c \in failed' \/ Fresh(work'[t], events'[t], down'[t], list'[t], c, Good(c)')
<1>1. /\ Latest(work[t], c)
      /\ c \in failed \/ Fresh(work[t], events[t], down[t], list[t], c, Good(c))
  BY DEF PagesInv
<1>2. Good(c) \subseteq Good(c)'
  OBVIOUS
<1>3. Fresh(work[t], events[t], down[t], list[t], c, Good(c))
        => Fresh(work[t], events[t], down[t], list[t], c, Good(c)')
  BY <1>2, FreshMore
<1>4. QED
  BY <1>1, <1>3

(* The list a worker makes is right for its book when it is made. *)
LEMMA VisibleGood ==
  ASSUME TypeOK, NEW b
  PROVE Visible(b) \in Good(b)
<1> DEFINE l == Visible(b)
           is == {j \in Id : /\ comments[j] # NoRow
                             /\ comments[j].book = b
                             /\ ~removed[comments[j].user]}
<1>1. l \in Lists /\ DOMAIN l = is /\ \A i \in DOMAIN l : l[i] = comments[i]
  BY VisibleType DEF TypeOK
<1> HIDE DEF l
<1>2. l = [i \in DOMAIN l |-> l[i]]
  BY <1>1, ListFields
<1>3. {j \in DOMAIN l : ~removed[l[j].user]} = DOMAIN l
  BY <1>1
<1>4. Kept(l) = l
  BY <1>2, <1>3 DEF Kept
<1>5. QED
  BY <1>1, <1>4 DEF Good, l

(* A worker has answered: any page is as fresh as before, before anybody is   *)
(* told of what has changed.                                                  *)
LEMMA PageDone ==
  ASSUME TypeOK, PagesInv, NEW s \in Session, work[s] # <<>>, NEW m \in Message, Done(s, m),
         Head(work[s]) \in Gets => m = Listing(Visible(Req(s).book)),
         Head(work[s]) \notin Gets => m \notin Listings,
         NEW t \in Session, NEW c \in Book, c = at[t]
  PROVE /\ Latest(work'[t], c)
        /\ c \in failed \/ Fresh(work'[t], events[t], down'[t], list[t], c, Good(c))
<1>1. /\ work[s] \in Seq(Request) /\ down[s] \in Seq(Message)
      /\ work'[s] = Tail(work[s]) /\ down'[s] = Append(down[s], m)
      /\ \A v \in Session : v # s => work'[v] = work[v] /\ down'[v] = down[v]
  BY DoneType
<1>2. /\ Latest(work[t], c)
      /\ c \in failed \/ Fresh(work[t], events[t], down[t], list[t], c, Good(c))
  BY DEF PagesInv
<1>3. CASE t # s
  BY <1>1, <1>2, <1>3
<1>4. CASE t = s
  <2>1. ASSUME Head(work[s]) \in Gets
        PROVE m \in Listings /\ (Head(work[s]) \in GetsOf(c) => m \in Listed(Good(c)))
    <3>1. m = Listing(Visible(Req(s).book)) /\ \A b : Visible(b) \in Lists
      BY <2>1, VisibleType DEF TypeOK
    <3>2. m \in Listings /\ m.comments = Visible(Req(s).book)
      BY <3>1, MessageKinds DEF Listings
    <3>3. ASSUME Head(work[s]) \in GetsOf(c) PROVE m \in Listed(Good(c))
      <4>1. m.comments = Visible(c)
        BY <3>2, <3>3 DEF GetsOf, Req
      <4>2. Visible(c) \in Good(c)
        BY VisibleGood
      <4>3. QED
        BY <3>2, <4>1, <4>2 DEF Listed
    <3>4. QED
      BY <3>2, <3>3
  <2>2. /\ Latest(Tail(work[s]), c)
        /\ Fresh(work[s], events[t], down[s], list[t], c, Good(c))
             => Fresh(Tail(work[s]), events[t], Append(down[s], m), list[t], c, Good(c))
    BY <1>1, <1>2, <1>4, <2>1, FreshDone
  <2>3. QED
    BY <1>1, <1>2, <1>4, <2>2
<1>5. QED
  BY <1>3, <1>4

LEMMA WorkerPages ==
  ASSUME TypeOK, PagesInv, NEW s \in Session, GetComments(s) \/ Refuse(s) \/ WritePush(s)
  PROVE PagesInv'
<1>1. /\ UNCHANGED <<comments, removed>>
      /\ at' = at /\ list' = list /\ failed' = failed
  BY DEF GetComments, Refuse, WritePush, tables, pages
<1>2. ASSUME NEW t \in Session, NEW c \in Book, c = at[t]
      PROVE /\ at'[t] = c
            /\ Latest(work'[t], c)
            /\ c \in failed' \/ Fresh(work'[t], events'[t], down'[t], list'[t], c, Good(c)')
  <2>1. Good(c)' = Good(c)
    BY <1>1, GoodSame
  <2>2. CASE GetComments(s)
    <3> DEFINE m == Listing(Visible(Req(s).book))
    <3>1. Done(s, m) /\ work[s] # <<>> /\ events' = events
      BY <2>2 DEF GetComments, Takes
    <3>2. m \in Message
      BY VisibleType, MessageKinds DEF TypeOK
    <3>3. Head(work[s]) \in Gets
      BY <2>2, TakenType DEF GetComments, Gets, Req
    <3> HIDE DEF m
    <3>4. /\ Latest(work'[t], c)
          /\ c \in failed \/ Fresh(work'[t], events[t], down'[t], list[t], c, Good(c))
      BY <1>2, <3>1, <3>2, <3>3, PageDone DEF m
    <3>5. QED
      BY <1>1, <1>2, <2>1, <3>1, <3>4
  <2>3. CASE Refuse(s)
    <3>1. Done(s, Answer(FALSE)) /\ work[s] # <<>> /\ events' = events
      BY <2>3 DEF Refuse, Takes
    <3>2. Answer(FALSE) \in Message /\ Answer(FALSE) \notin Listings
      BY MessageKinds DEF Listings
    <3>3. Head(work[s]) \notin Gets
      BY <2>3, TakenType DEF Refuse, Gets, Takes, Req
    <3>4. /\ Latest(work'[t], c)
          /\ c \in failed \/ Fresh(work'[t], events[t], down'[t], list[t], c, Good(c))
      BY <1>2, <3>1, <3>2, <3>3, PageDone
    <3>5. QED
      BY <1>1, <1>2, <2>1, <3>1, <3>4
  <2>4. CASE WritePush(s)
    <3>1. /\ events[s] # <<>> /\ events[s] \in Seq(Book) /\ down[s] \in Seq(Message)
          /\ events'[s] = Tail(events[s])
          /\ down'[s] = Append(down[s], Updated(Head(events[s])))
          /\ \A v \in Session : v # s => events'[v] = events[v] /\ down'[v] = down[v]
          /\ work' = work
      BY <2>4 DEF WritePush, TypeOK
    <3>2. /\ Latest(work[t], c)
          /\ c \in failed \/ Fresh(work[t], events[t], down[t], list[t], c, Good(c))
      BY <1>2 DEF PagesInv
    <3>3. CASE t = s
      <4>1. Fresh(work[t], events[t], down[t], list[t], c, Good(c))
              => Fresh(work[t], Tail(events[t]), Append(down[t], Updated(Head(events[t]))),
                       list[t], c, Good(c))
        BY <3>1, <3>3, FreshPush
      <4>2. QED
        BY <1>1, <1>2, <2>1, <3>1, <3>2, <3>3, <4>1
    <3>4. CASE t # s
      BY <1>1, <1>2, <2>1, <3>1, <3>2, <3>4
    <3>5. QED
      BY <3>3, <3>4
  <2>5. QED
    BY <2>2, <2>3, <2>4
<1>3. \A t \in Session : at[t] \in Book
  BY DEF TypeOK
<1>4. QED
  BY <1>2, <1>3, PagesNext

LEMMA ChangePages ==
  ASSUME TypeOK, NewIds, PagesInv, NEW s \in Session, NEW b \in Book, Change(s, b)
  PROVE PagesInv'
<1>1. work[s] # <<>> /\ Ended(s, b) /\ at' = at /\ list' = list
  BY DEF Change, Added, Edited, Deleted, Takes, pages
<1>2. PICK ok \in BOOLEAN : Done(s, Answer(ok))
  BY <1>1, EndedType
<1>3. Answer(ok) \in Message /\ Answer(ok) \notin Listings
  BY MessageKinds DEF Listings
<1>4. Head(work[s]) \notin Gets
  BY DEF Change, Added, Edited, Deleted, Takes, Gets, Req
<1>5. ASSUME NEW t \in Session, NEW c \in Book, c = at[t]
      PROVE /\ at'[t] = c
            /\ Latest(work'[t], c)
            /\ c \in failed' \/ Fresh(work'[t], events'[t], down'[t], list'[t], c, Good(c)')
  <2>1. /\ Latest(work'[t], c)
        /\ c \in failed \/ Fresh(work'[t], events[t], down'[t], list[t], c, Good(c))
    BY <1>1, <1>2, <1>3, <1>4, <1>5, PageDone
  <2>2. CASE Finish(s, b)
    <3>1. events'[t] = Append(events[t], b) /\ failed' = failed /\ events[t] \in Seq(Book)
      BY <2>2 DEF Finish, TypeOK
    <3>2. CASE c = b
      <4>1. Fresh(work'[t], Append(events[t], b), down'[t], list[t], c, Good(c)')
        BY <3>1, <3>2, FreshTold
      <4>2. QED
        BY <1>1, <1>5, <2>1, <3>1, <4>1
    <3>3. CASE c # b
      <4>1. Good(c)' = Good(c)
        BY <3>3, GoodOther
      <4>2. Fresh(work'[t], events[t], down'[t], list[t], c, Good(c))
              => Fresh(work'[t], Append(events[t], b), down'[t], list[t], c, Good(c))
        BY <3>1, FreshTold
      <4>3. QED
        BY <1>1, <1>5, <2>1, <3>1, <4>1, <4>2
    <3>4. QED
      BY <3>2, <3>3
  <2>3. CASE StopHalfWay(s, b)
    <3>1. events' = events /\ failed' = failed \cup {b}
      BY <2>3 DEF StopHalfWay
    <3>2. CASE c = b
      BY <1>1, <1>5, <2>1, <3>1, <3>2
    <3>3. CASE c # b
      <4>1. Good(c)' = Good(c)
        BY <3>3, GoodOther
      <4>2. QED
        BY <1>1, <1>5, <2>1, <3>1, <4>1
    <3>4. QED
      BY <3>2, <3>3
  <2>4. QED
    BY <1>1, <2>2, <2>3 DEF Ended
<1>6. \A t \in Session : at[t] \in Book
  BY DEF TypeOK
<1>7. QED
  BY <1>5, <1>6, PagesNext

LEMMA DeleteUserPages ==
  ASSUME TypeOK, PagesInv, NEW u \in Banned, DeleteUser(u)
  PROVE PagesInv'
<1>1. /\ at' = at /\ list' = list /\ work' = work /\ events' = events
      /\ down' = down /\ failed' = failed
  BY DEF DeleteUser, pages
<1>2. ASSUME NEW t \in Session, NEW c \in Book, c = at[t]
      PROVE /\ at'[t] = c
            /\ Latest(work'[t], c)
            /\ c \in failed' \/ Fresh(work'[t], events'[t], down'[t], list'[t], c, Good(c)')
  <2>1. Good(c) \subseteq Good(c)'
    BY GoodRemoved
  <2>2. QED
    BY <1>1, <1>2, <2>1, PageSame
<1>3. \A t \in Session : at[t] \in Book
  BY DEF TypeOK
<1>4. QED
  BY <1>2, <1>3, PagesNext

(* A client has sent a request r that is not for a list. *)
LEMMA PageAsk ==
  ASSUME TypeOK, PagesInv, NEW s \in Session, NEW r \in Request, Ask(s, r),
         r \notin Gets, NEW t \in Session, NEW c \in Book, c = at[t]
  PROVE /\ Latest(work'[t], c)
        /\ c \in failed \/ Fresh(work'[t], events[t], down[t], list[t], c, Good(c))
<1>1. /\ work[s] \in Seq(Request)
      /\ work'[s] = Append(work[s], r)
      /\ \A v \in Session : v # s => work'[v] = work[v]
  BY AskType
<1>2. /\ Latest(work[t], c)
      /\ c \in failed \/ Fresh(work[t], events[t], down[t], list[t], c, Good(c))
  BY DEF PagesInv
<1>3. CASE t = s
  <2>1. /\ Latest(work[s], c) => Latest(Append(work[s], r), c)
        /\ Fresh(work[s], events[t], down[t], list[t], c, Good(c))
             => Fresh(Append(work[s], r), events[t], down[t], list[t], c, Good(c))
    BY <1>1, FreshSend
  <2>2. QED
    BY <1>1, <1>2, <1>3, <2>1
<1>4. CASE t # s
  BY <1>1, <1>2, <1>4
<1>5. QED
  BY <1>3, <1>4

LEMMA UserPages ==
  ASSUME TypeOK, PagesInv, NEW s \in Session, UserNext(s)
  PROVE PagesInv'
<1>1. /\ UNCHANGED <<comments, removed>>
      /\ events' = events /\ down' = down /\ list' = list /\ failed' = failed
  BY DEF UserNext, Submit, Open, StartEdit, ClickDelete, tables
<1>2. ASSUME NEW t \in Session, NEW c \in Book, c = at'[t]
      PROVE /\ at'[t] = c
            /\ Latest(work'[t], c)
            /\ c \in failed' \/ Fresh(work'[t], events'[t], down'[t], list'[t], c, Good(c)')
  <2>1. Good(c)' = Good(c)
    BY <1>1, GoodSame
  <2>2. ASSUME NEW r \in Request, Ask(s, r), r \notin Gets, at' = at
        PROVE /\ Latest(work'[t], c)
              /\ c \in failed' \/ Fresh(work'[t], events'[t], down'[t], list'[t], c, Good(c)')
    <3>1. c = at[t]
      BY <1>2, <2>2
    <3>2. /\ Latest(work'[t], c)
          /\ c \in failed \/ Fresh(work'[t], events[t], down[t], list[t], c, Good(c))
      BY <2>2, <3>1, PageAsk
    <3>3. QED
      BY <1>1, <2>1, <3>2
  <2>3. CASE Submit(s)
    <3>1. PICK r \in Request : Ask(s, r) /\ r.type # "GET_COMMENTS"
      BY <2>3, SubmitType
    <3>2. at' = at
      BY <2>3 DEF Submit
    <3>3. QED
      BY <1>2, <2>2, <3>1, <3>2 DEF Gets
  <2>4. ASSUME NEW i \in Id, ClickDelete(s, i)
        PROVE /\ at'[t] = c
              /\ Latest(work'[t], c)
              /\ c \in failed' \/ Fresh(work'[t], events'[t], down'[t], list'[t], c, Good(c)')
    <3>1. Ask(s, Delete(i)) /\ Delete(i) \in Request /\ Delete(i) \notin Gets
      BY <2>4, RequestKinds DEF ClickDelete, Gets
    <3>2. at' = at
      BY <2>4 DEF ClickDelete
    <3>3. QED
      BY <1>2, <2>2, <3>1, <3>2
  <2>5. ASSUME NEW i \in Id, StartEdit(s, i)
        PROVE /\ at'[t] = c
              /\ Latest(work'[t], c)
              /\ c \in failed' \/ Fresh(work'[t], events'[t], down'[t], list'[t], c, Good(c)')
    <3>1. at' = at /\ work' = work
      BY <2>5 DEF StartEdit
    <3>2. QED
      BY <1>1, <1>2, <2>1, <3>1, PageSame
  <2>6. ASSUME NEW b \in Book, Open(s, b)
        PROVE /\ at'[t] = c
              /\ Latest(work'[t], c)
              /\ c \in failed' \/ Fresh(work'[t], events'[t], down'[t], list'[t], c, Good(c)')
    <3>1. at' = [at EXCEPT ![s] = b] /\ Ask(s, Get(b)) /\ Get(b) \in Request
      BY <2>6, RequestKinds DEF Open
    <3>2. /\ work[s] \in Seq(Request)
          /\ work'[s] = Append(work[s], Get(b))
          /\ \A v \in Session : v # s => work'[v] = work[v]
      BY <3>1, AskType
    <3>3. CASE t = s
      <4>1. c = b
        BY <1>2, <3>1, <3>3 DEF TypeOK
      <4>2. Get(b) \in GetsOf(c)
        BY <4>1, RequestKinds DEF Gets, GetsOf
      <4>3. /\ Latest(Append(work[s], Get(b)), c)
            /\ Fresh(Append(work[s], Get(b)), events[t], down[t], list[t], c, Good(c))
        BY <3>1, <3>2, <4>2, FreshSend
      <4>4. QED
        BY <1>1, <1>2, <2>1, <3>2, <3>3, <4>3
    <3>4. CASE t # s
      <4>1. at'[t] = at[t]
        BY <3>1, <3>4 DEF TypeOK
      <4>2. QED
        BY <1>1, <1>2, <2>1, <3>2, <3>4, <4>1, PageSame
    <3>5. QED
      BY <3>3, <3>4
  <2>7. QED
    BY <2>3, <2>4, <2>5, <2>6 DEF UserNext
<1>3. \A t \in Session : at'[t] \in Book
  BY UserType DEF TypeOK
<1>4. QED
  BY <1>2, <1>3, PagesNext

LEMMA ReceivePages ==
  ASSUME TypeOK, PagesInv, NEW s \in Session, Receive(s)
  PROVE PagesInv'
<1> DEFINE m == Head(down[s])
<1>1. /\ UNCHANGED <<comments, removed>>
      /\ at' = at /\ events' = events /\ failed' = failed /\ down[s] # <<>>
  BY DEF Receive, tables
<1>2. /\ down[s] \in Seq(Message) /\ m \in Message
      /\ down'[s] = Tail(down[s])
      /\ \A t \in Session : t # s => /\ down'[t] = down[t] /\ work'[t] = work[t]
                                     /\ list'[t] = list[t] /\ editing'[t] = editing[t]
  BY ReceiveType
<1>3. ASSUME NEW t \in Session, NEW c \in Book, c = at[t]
      PROVE /\ at'[t] = c
            /\ Latest(work'[t], c)
            /\ c \in failed' \/ Fresh(work'[t], events'[t], down'[t], list'[t], c, Good(c)')
  <2>1. Good(c)' = Good(c)
    BY <1>1, GoodSame
  <2>2. CASE t # s
    BY <1>1, <1>2, <1>3, <2>1, <2>2, PageSame
  <2>3. CASE t = s /\ m \in Calls(c)
    <3>1. Ask(s, Get(at[s]))
      BY <1>3, <2>3 DEF Receive, Calls
    <3>2. Get(at[s]) \in Request /\ Get(at[s]) \in GetsOf(c)
      BY <1>3, <2>3, RequestKinds DEF Gets, GetsOf
    <3>3. work[s] \in Seq(Request) /\ work'[s] = Append(work[s], Get(at[s]))
      BY <3>1, <3>2, AskType
    <3>4. /\ Latest(Append(work[s], Get(at[s])), c)
          /\ Fresh(Append(work[s], Get(at[s])), events'[t], down'[t], list'[t], c, Good(c))
      BY <3>2, <3>3, FreshSend
    <3>5. QED
      BY <1>1, <1>3, <2>1, <2>3, <3>3, <3>4
  <2>4. CASE t = s /\ m \notin Calls(c)
    <3>1. work' = work
      BY <1>2, <1>3, <2>4 DEF Receive, Calls
    <3>2. /\ Latest(work[s], c)
          /\ c \in failed \/ Fresh(work[s], events[s], down[s], list[s], c, Good(c))
      BY <1>3, <2>4 DEF PagesInv
    <3>3. /\ m \in Listings => list'[s] = m.comments
          /\ m \notin Listings => list'[s] = list[s]
      BY <1>2 DEF Receive, Listings, TypeOK
    <3>4. Good(c) \in SUBSET Lists
      BY DEF Good
    <3>5. ASSUME Fresh(work[s], events[s], down[s], list[s], c, Good(c))
          PROVE Fresh(work[s], events[s], Tail(down[s]), list'[s], c, Good(c))
      <4> DEFINE d == down[s]
                 k == list'[s]
                 l == list[s]
                 w == work[s]
                 e == events[s]
                 G == Good(c)
      <4>1. /\ d \in Seq(Message) /\ d # <<>> /\ G \in SUBSET Lists
            /\ Head(d) \notin Calls(c)
            /\ Head(d) \in Listings => k = Head(d).comments
            /\ Head(d) \notin Listings => k = l
            /\ Fresh(w, e, d, l, c, G)
        BY <1>1, <1>2, <2>4, <3>3, <3>4, <3>5
      <4> HIDE DEF d, k, l, w, e, G
      <4>2. Fresh(w, e, Tail(d), k, c, G)
        BY <4>1, FreshTake
      <4>3. QED
        BY <4>2 DEF d, k, l, w, e, G
    <3>6. QED
      BY <1>1, <1>2, <1>3, <2>1, <2>4, <3>1, <3>2, <3>5
  <2>5. QED
    BY <2>2, <2>3, <2>4
<1>4. \A t \in Session : at[t] \in Book
  BY DEF TypeOK
<1>5. QED
  BY <1>3, <1>4, PagesNext

LEMMA InitPages == Init => PagesInv
<1> SUFFICES ASSUME Init, NEW s \in Session
             PROVE /\ Latest(work[s], at[s])
                   /\ Fresh(work[s], events[s], down[s], list[s], at[s], Good(at[s]))
  BY DEF PagesInv
<1>1. work[s] = <<>> /\ down[s] = <<>> /\ list[s] = Visible(at[s])
  BY DEF Init
<1>2. \A b : Visible(b) \in Good(b)
  BY InitType, VisibleGood
<1>3. Latest(work[s], at[s])
  BY <1>1, InEmpty DEF Latest
<1>4. ~Has(down[s], Listings)
  BY <1>1, InEmpty
<1>5. QED
  BY <1>1, <1>2, <1>3, <1>4 DEF Fresh

LEMMA NextPages == TypeOK /\ OwnInv /\ PagesInv /\ [Next]_vars => PagesInv'
<1> SUFFICES ASSUME TypeOK, OwnInv, PagesInv, [Next]_vars PROVE PagesInv'
  OBVIOUS
<1>1. NewIds
  BY DEF OwnInv
<1>2. CASE Next
  BY <1>1, <1>2, NextSteps, WorkerPages, ChangePages, UserPages, ReceivePages, DeleteUserPages
<1>3. CASE UNCHANGED vars
  BY <1>3 DEF vars, PagesInv, Good, Kept, Visible
<1>4. QED
  BY <1>2, <1>3

(* Once nothing is on its way, each page shows the comments of its book,      *)
(* whatever the order in which lists, answers and pushes have come: a page    *)
(* that does not yet has something left to come.                              *)
THEOREM PagesAreCurrent == Spec => []PagesCurrent
<1>1. TypeOK /\ PagesInv => PagesCurrent
  <2> SUFFICES ASSUME TypeOK, PagesInv, Quiet, NEW s \in Session, at[s] \notin failed
               PROVE Kept(list[s]) = Visible(at[s])
    BY DEF PagesCurrent, Kept
  <2>1. work[s] = <<>> /\ events[s] = <<>> /\ down[s] = <<>>
    BY DEF Quiet
  <2>2. Fresh(work[s], events[s], down[s], list[s], at[s], Good(at[s]))
    BY DEF PagesInv
  <2>3. list[s] \in Good(at[s])
    BY <2>1, <2>2, InEmpty DEF Fresh
  <2>4. QED
    BY <2>3 DEF Good
<1>2. Init => PagesInv
  BY InitPages
<1>3. QED
  BY <1>1, <1>2, NextPages, OwnHolds, PTL DEF Spec
=============================================================================
