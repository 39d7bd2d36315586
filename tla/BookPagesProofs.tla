--------------------------- MODULE BookPagesProofs ---------------------------
(* Theorems about BookPages, for any books, pages and bounds. *)
EXTENDS BookPages, TLAPS

-----------------------------------------------------------------------------
(* What is on its way, whichever it is. *)

(* Something of M is in the queue q; something of M with nothing of N after   *)
(* it; something of M with something of N after it.                           *)
Has(q, M) == \E k \in 1..Len(q) : q[k] \in M
Left(q, M, N) == \E k \in 1..Len(q) : q[k] \in M /\ \A i \in (k + 1)..Len(q) : q[i] \notin N
Follows(q, M, N) == \E i, k \in 1..Len(q) : i < k /\ q[i] \in M /\ q[k] \in N

LEMMA AppendSeq ==
  ASSUME NEW S, NEW q \in Seq(S), NEW m \in S
  PROVE /\ Append(q, m) \in Seq(S)
        /\ Append(q, m) # <<>>
        /\ Len(q) \in Nat
        /\ Len(Append(q, m)) = Len(q) + 1
        /\ Append(q, m)[Len(q) + 1] = m
        /\ \A i \in 1..Len(q) : Append(q, m)[i] = q[i]
        /\ q # <<>> => Head(Append(q, m)) = Head(q)
        /\ q = <<>> => Head(Append(q, m)) = m
OBVIOUS

LEMMA TailSeq ==
  ASSUME NEW S, NEW q \in Seq(S), q # <<>>
  PROVE /\ Tail(q) \in Seq(S)
        /\ Head(q) \in S
        /\ Head(q) = q[1]
        /\ Len(q) \in Nat \ {0}
        /\ Len(Tail(q)) = Len(q) - 1
        /\ \A i \in 1..(Len(q) - 1) : Tail(q)[i] = q[i + 1]
OBVIOUS

LEMMA InAppend ==
  ASSUME NEW S, NEW q \in Seq(S), NEW m \in S, NEW M, NEW N
  PROVE /\ Has(Append(q, m), M) <=> Has(q, M) \/ m \in M
        /\ Left(Append(q, m), M, N) <=> m \in M \/ (Left(q, M, N) /\ m \notin N)
        /\ Follows(Append(q, m), M, N) <=> Follows(q, M, N) \/ (Has(q, M) /\ m \in N)
<1> DEFINE r == Append(q, m)
           n == Len(q)
<1>1. /\ n \in Nat
      /\ Len(r) = n + 1
      /\ r[n + 1] = m
      /\ \A i \in 1..n : r[i] = q[i]
  BY AppendSeq
<1> HIDE DEF r, n
<1>2. (\E k \in 1..(n + 1) : r[k] \in M) <=> (\E k \in 1..n : q[k] \in M) \/ m \in M
  BY <1>1
<1>3. Has(r, M) <=> Has(q, M) \/ m \in M
  BY <1>1, <1>2 DEF Has, n
<1>4. ASSUME Left(r, M, N) PROVE m \in M \/ (Left(q, M, N) /\ m \notin N)
  <2>1. PICK k \in 1..(n + 1) : r[k] \in M /\ \A i \in (k + 1)..(n + 1) : r[i] \notin N
    BY <1>1, <1>4 DEF Left
  <2>2. CASE k = n + 1
    BY <1>1, <2>1, <2>2
  <2>3. CASE k # n + 1
    <3>1. k \in 1..n /\ q[k] \in M /\ n + 1 \in (k + 1)..(n + 1)
      BY <1>1, <2>1, <2>3
    <3>2. \A i \in (k + 1)..n : q[i] \notin N
      BY <1>1, <2>1, <3>1
    <3>3. Left(q, M, N)
      BY <3>1, <3>2 DEF Left, n
    <3>4. m \notin N
      BY <1>1, <2>1, <3>1
    <3>5. QED
      BY <3>3, <3>4
  <2>4. QED
    BY <2>2, <2>3
<1>5. ASSUME m \in M PROVE Left(r, M, N)
  <2>1. n + 1 \in 1..Len(r) /\ r[n + 1] \in M
    BY <1>1, <1>5
  <2>2. \A i \in (n + 1 + 1)..Len(r) : r[i] \notin N
    BY <1>1
  <2>3. QED
    BY <2>1, <2>2 DEF Left
<1>6. ASSUME Left(q, M, N), m \notin N PROVE Left(r, M, N)
  <2>1. PICK k \in 1..n : q[k] \in M /\ \A i \in (k + 1)..n : q[i] \notin N
    BY <1>6 DEF Left, n
  <2>2. \A i \in (k + 1)..(n + 1) : r[i] \notin N
    <3>1. \A i \in (k + 1)..(n + 1) : i = n + 1 \/ (i \in (k + 1)..n /\ i \in 1..n)
      BY <1>1
    <3>2. QED
      BY <1>1, <1>6, <2>1, <3>1
  <2>3. k \in 1..Len(r) /\ r[k] \in M
    BY <1>1, <2>1
  <2>4. QED
    BY <1>1, <2>2, <2>3 DEF Left
<1>7. ASSUME Follows(r, M, N) PROVE Follows(q, M, N) \/ (Has(q, M) /\ m \in N)
  <2>1. PICK i, k \in 1..(n + 1) : i < k /\ r[i] \in M /\ r[k] \in N
    BY <1>1, <1>7 DEF Follows
  <2>2. i \in 1..n /\ q[i] \in M
    BY <1>1, <2>1
  <2>3. CASE k = n + 1
    BY <1>1, <2>1, <2>2, <2>3 DEF Has, n
  <2>4. CASE k # n + 1
    <3>1. k \in 1..n /\ q[k] \in N
      BY <1>1, <2>1, <2>4
    <3>2. QED
      BY <2>1, <2>2, <3>1 DEF Follows, n
  <2>5. QED
    BY <2>3, <2>4
<1>8. ASSUME Follows(q, M, N) PROVE Follows(r, M, N)
  <2>1. PICK i, k \in 1..n : i < k /\ q[i] \in M /\ q[k] \in N
    BY <1>8 DEF Follows, n
  <2>2. i \in 1..Len(r) /\ k \in 1..Len(r) /\ r[i] \in M /\ r[k] \in N
    BY <1>1, <2>1
  <2>3. QED
    BY <2>1, <2>2 DEF Follows
<1>9. ASSUME Has(q, M), m \in N PROVE Follows(r, M, N)
  <2>1. PICK i \in 1..n : q[i] \in M
    BY <1>9 DEF Has, n
  <2>2. i \in 1..Len(r) /\ r[i] \in M /\ n + 1 \in 1..Len(r) /\ r[n + 1] \in N /\ i < n + 1
    BY <1>1, <1>9, <2>1
  <2>3. QED
    BY <2>2 DEF Follows
<1>10. QED
  BY <1>3, <1>4, <1>5, <1>6, <1>7, <1>8, <1>9 DEF r

LEMMA InTail ==
  ASSUME NEW S, NEW q \in Seq(S), q # <<>>, NEW M, NEW N
  PROVE /\ Has(q, M) <=> Head(q) \in M \/ Has(Tail(q), M)
        /\ Left(q, M, N) <=> (Head(q) \in M /\ ~Has(Tail(q), N)) \/ Left(Tail(q), M, N)
        /\ Follows(q, M, N) <=> Follows(Tail(q), M, N) \/ (Head(q) \in M /\ Has(Tail(q), N))
<1> DEFINE r == Tail(q)
           n == Len(r)
           h == Head(q)
<1>1. /\ n \in Nat
      /\ Len(q) = n + 1
      /\ q[1] = h
      /\ \A i \in 1..n : r[i] = q[i + 1]
  BY TailSeq
<1> HIDE DEF r, n, h
<1>2. \A k \in 1..(n + 1) : k = 1 \/ (k - 1 \in 1..n /\ r[k - 1] = q[k])
  BY <1>1
<1>3. \A k \in 1..n : k + 1 \in 1..(n + 1) /\ r[k] = q[k + 1]
  BY <1>1
<1>4. 1 \in 1..(n + 1)
  BY <1>1
<1>5. Has(q, M) <=> h \in M \/ Has(r, M)
  BY <1>1, <1>2, <1>3, <1>4 DEF Has, n
<1>6. ASSUME Left(q, M, N) PROVE (h \in M /\ ~Has(r, N)) \/ Left(r, M, N)
  <2>1. PICK k \in 1..(n + 1) : q[k] \in M /\ \A i \in (k + 1)..(n + 1) : q[i] \notin N
    BY <1>1, <1>6 DEF Left
  <2>2. CASE k = 1
    <3>1. \A i \in 1..n : r[i] \notin N
      BY <1>3, <2>1, <2>2
    <3>2. QED
      BY <1>1, <2>1, <2>2, <3>1 DEF Has, n
  <2>3. CASE k # 1
    <3>1. k - 1 \in 1..n /\ r[k - 1] \in M
      BY <1>2, <2>1, <2>3
    <3>2. \A i \in ((k - 1) + 1)..n : r[i] \notin N
      <4>1. \A i \in ((k - 1) + 1)..n : i \in 1..n /\ i + 1 \in (k + 1)..(n + 1)
        BY <1>1
      <4>2. QED
        BY <1>3, <2>1, <4>1
    <3>3. QED
      BY <3>1, <3>2 DEF Left, n
  <2>4. QED
    BY <2>2, <2>3
<1>7. ASSUME h \in M, ~Has(r, N) PROVE Left(q, M, N)
  <2>1. \A i \in (1 + 1)..Len(q) : q[i] \notin N
    <3>1. \A i \in (1 + 1)..Len(q) : i - 1 \in 1..n /\ r[i - 1] = q[i]
      BY <1>1, <1>2
    <3>2. QED
      BY <1>7, <3>1 DEF Has, n
  <2>2. QED
    BY <1>1, <1>4, <1>7, <2>1 DEF Left
<1>8. ASSUME Left(r, M, N) PROVE Left(q, M, N)
  <2>1. PICK k \in 1..n : r[k] \in M /\ \A i \in (k + 1)..n : r[i] \notin N
    BY <1>8 DEF Left, n
  <2>2. k + 1 \in 1..Len(q) /\ q[k + 1] \in M
    BY <1>1, <1>3, <2>1
  <2>3. \A i \in ((k + 1) + 1)..Len(q) : q[i] \notin N
    <3>1. \A i \in ((k + 1) + 1)..Len(q) : i - 1 \in (k + 1)..n /\ i - 1 \in 1..n /\ r[i - 1] = q[i]
      BY <1>1, <1>2
    <3>2. QED
      BY <2>1, <3>1
  <2>4. QED
    BY <2>2, <2>3 DEF Left
<1>9. ASSUME Follows(q, M, N) PROVE Follows(r, M, N) \/ (h \in M /\ Has(r, N))
  <2>1. PICK i, k \in 1..(n + 1) : i < k /\ q[i] \in M /\ q[k] \in N
    BY <1>1, <1>9 DEF Follows
  <2>2. k - 1 \in 1..n /\ r[k - 1] \in N
    BY <1>2, <2>1
  <2>3. CASE i = 1
    BY <1>1, <2>1, <2>2, <2>3 DEF Has, n
  <2>4. CASE i # 1
    <3>1. i - 1 \in 1..n /\ r[i - 1] \in M /\ i - 1 < k - 1
      BY <1>2, <2>1, <2>4
    <3>2. QED
      BY <2>2, <3>1 DEF Follows, n
  <2>5. QED
    BY <2>3, <2>4
<1>10. ASSUME Follows(r, M, N) PROVE Follows(q, M, N)
  <2>1. PICK i, k \in 1..n : i < k /\ r[i] \in M /\ r[k] \in N
    BY <1>10 DEF Follows, n
  <2>2. i + 1 \in 1..Len(q) /\ k + 1 \in 1..Len(q) /\ q[i + 1] \in M /\ q[k + 1] \in N /\ i + 1 < k + 1
    BY <1>1, <1>3, <2>1
  <2>3. QED
    BY <2>2 DEF Follows
<1>11. ASSUME h \in M, Has(r, N) PROVE Follows(q, M, N)
  <2>1. PICK k \in 1..n : r[k] \in N
    BY <1>11 DEF Has, n
  <2>2. k + 1 \in 1..Len(q) /\ q[k + 1] \in N /\ 1 < k + 1 /\ 1 \in 1..Len(q) /\ q[1] \in M
    BY <1>1, <1>3, <1>4, <1>11, <2>1
  <2>3. QED
    BY <2>2 DEF Follows
<1>12. QED
  BY <1>5, <1>6, <1>7, <1>8, <1>9, <1>10, <1>11 DEF r, h

LEMMA HasAppend ==
  ASSUME NEW S, NEW q \in Seq(S), NEW m \in S, NEW M
  PROVE Has(Append(q, m), M) <=> Has(q, M) \/ m \in M
BY InAppend

LEMMA HasTail ==
  ASSUME NEW S, NEW q \in Seq(S), q # <<>>, NEW M
  PROVE Has(q, M) <=> Head(q) \in M \/ Has(Tail(q), M)
BY InTail

LEMMA InEmpty ==
  ASSUME NEW M, NEW N
  PROVE ~Has(<<>>, M) /\ ~Left(<<>>, M, N) /\ ~Follows(<<>>, M, N)
BY DEF Has, Left, Follows

(* What is left is there. *)
LEMMA LeftHas ==
  ASSUME NEW q, NEW M, NEW N, Left(q, M, N)
  PROVE Has(q, M)
BY DEF Left, Has

-----------------------------------------------------------------------------
(* Requests and answers. *)

Types == {"CHECK", "ADD", "REMOVE", "SAVE", "UNSAVE", "PATH", "LAST"}

LEMMA RequestFields ==
  ASSUME NEW r \in Request
  PROVE /\ r.type \in Types \cup {"UPDATE"} /\ r.book \in Book
        /\ r.type = "UPDATE" => r.page \in Page
BY DEF Request, Types

LEMMA ResponseFields ==
  ASSUME NEW m \in Response
  PROVE /\ m.type \in Types \cup {"UPDATE"} /\ m.book \in Book
        /\ m.type = "CHECK" => m.show \subseteq Buttons
        /\ m.type = "LAST" => m.page \in Page
        /\ m.type \in {"ADD", "REMOVE", "SAVE", "UNSAVE", "PATH", "UPDATE"} => m.ok \in BOOLEAN
BY DEF Response, Types

LEMMA Requests ==
  ASSUME NEW b \in Book
  PROVE /\ \A t \in Types : [type |-> t, book |-> b] \in Request
        /\ \A p \in Page : [type |-> "UPDATE", book |-> b, page |-> p] \in Request
BY DEF Request, Types

(* The handler of the first request has answered with m. *)
Passed(m) ==
  /\ line # <<>> /\ m \in Response
  /\ m.type = Head(line).type /\ m.book = Head(line).book
  /\ line' = Tail(line)
  /\ down' = Append(down, m)

LEMMA AnswerShow ==
  ASSUME Typed, Takes("CHECK"), NEW s \in SUBSET Buttons, Answer([show |-> s])
  PROVE \E m \in Response : Passed(m) /\ m.show = s
<1> DEFINE r == Head(line)
           x == [show |-> s]
           m == x ++ [type |-> r.type, book |-> r.book]
<1>1. r \in Request /\ r.type = "CHECK" /\ line # <<>>
  BY TailSeq DEF Typed, Takes
<1>2. r.book \in Book
  BY <1>1, RequestFields
<1>3. line' = Tail(line) /\ down' = Append(down, m)
  BY DEF Answer
<1> HIDE DEF r
<1>4. /\ m = [f \in DOMAIN m |-> m[f]]
      /\ DOMAIN m = {"show"} \cup {"type", "book"}
      /\ m["show"] = s /\ m["type"] = r.type /\ m["book"] = r.book
  BY DEF ++
<1> HIDE DEF m, x
<1>5. m = [type |-> "CHECK", book |-> r.book, show |-> s]
  BY <1>1, <1>4
<1>6. m \in Response
  BY <1>2, <1>5 DEF Response
<1>7. QED
  BY <1>1, <1>3, <1>5, <1>6 DEF Passed, r

LEMMA AnswerOk ==
  ASSUME Typed, NEW t \in {"ADD", "REMOVE", "SAVE", "UNSAVE", "PATH", "UPDATE"}, Takes(t),
         NEW ok \in BOOLEAN, Answer([ok |-> ok])
  PROVE \E m \in Response : Passed(m) /\ m.ok = ok
<1> DEFINE r == Head(line)
           x == [ok |-> ok]
           m == x ++ [type |-> r.type, book |-> r.book]
<1>1. r \in Request /\ r.type = t /\ line # <<>>
  BY TailSeq DEF Typed, Takes
<1>2. r.book \in Book
  BY <1>1, RequestFields
<1>3. line' = Tail(line) /\ down' = Append(down, m)
  BY DEF Answer
<1> HIDE DEF r
<1>4. /\ m = [f \in DOMAIN m |-> m[f]]
      /\ DOMAIN m = {"ok"} \cup {"type", "book"}
      /\ m["ok"] = ok /\ m["type"] = r.type /\ m["book"] = r.book
  BY DEF ++
<1> HIDE DEF m, x
<1>5. m = [type |-> t, book |-> r.book, ok |-> ok]
  BY <1>1, <1>4
<1>6. m \in Response
  BY <1>2, <1>5 DEF Response
<1>7. QED
  BY <1>1, <1>3, <1>5, <1>6 DEF Passed, r

LEMMA AnswerPage ==
  ASSUME Typed, Takes("LAST"), NEW p \in Page, Answer([page |-> p])
  PROVE \E m \in Response : Passed(m) /\ m.page = p
<1> DEFINE r == Head(line)
           x == [page |-> p]
           m == x ++ [type |-> r.type, book |-> r.book]
<1>1. r \in Request /\ r.type = "LAST" /\ line # <<>>
  BY TailSeq DEF Typed, Takes
<1>2. r.book \in Book
  BY <1>1, RequestFields
<1>3. line' = Tail(line) /\ down' = Append(down, m)
  BY DEF Answer
<1> HIDE DEF r
<1>4. /\ m = [f \in DOMAIN m |-> m[f]]
      /\ DOMAIN m = {"page"} \cup {"type", "book"}
      /\ m["page"] = p /\ m["type"] = r.type /\ m["book"] = r.book
  BY DEF ++
<1> HIDE DEF m, x
<1>5. m = [type |-> "LAST", book |-> r.book, page |-> p]
  BY <1>1, <1>4
<1>6. m \in Response
  BY <1>2, <1>5 DEF Response
<1>7. QED
  BY <1>1, <1>3, <1>5, <1>6 DEF Passed, r

-----------------------------------------------------------------------------
(* The kinds of messages on their way. *)

Req(types) == {r \in Request : r.type \in types}
Rsp(types) == {m \in Response : m.type \in types}

ToDetails == {"CHECK", "ADD", "REMOVE", "SAVE", "UNSAVE"}
ToReader == {"PATH", "LAST", "UPDATE"}

LEMMA PendingIs ==
  ASSUME NEW q \in Seq(Request), NEW p \in Seq(Response), NEW T
  PROVE (\E k \in DOMAIN q : q[k].type \in T) \/ (\E k \in DOMAIN p : p[k].type \in T)
          <=> Has(q, Req(T)) \/ Has(p, Rsp(T))
BY DEF Has, Req, Rsp

LEMMA PendingNow ==
  ASSUME Typed, NEW T
  PROVE Pending(T) <=> Has(line, Req(T)) \/ Has(down, Rsp(T))
BY PendingIs DEF Typed, Pending

LEMMA PendingThen ==
  ASSUME line' \in Seq(Request), down' \in Seq(Response), NEW T
  PROVE Pending(T)' <=> Has(line', Req(T)) \/ Has(down', Rsp(T))
<1>1. Pending(T)' <=> (\E k \in DOMAIN line' : line'[k].type \in T)
                        \/ (\E k \in DOMAIN down' : down'[k].type \in T)
  BY DEF Pending
<1> DEFINE q == line'
           p == down'
<1>2. q \in Seq(Request) /\ p \in Seq(Response)
  OBVIOUS
<1>3. (\E k \in DOMAIN q : q[k].type \in T) \/ (\E k \in DOMAIN p : p[k].type \in T)
          <=> Has(q, Req(T)) \/ Has(p, Rsp(T))
  BY <1>2, PendingIs
<1>4. QED
  BY <1>1, <1>3

(* A request in work becomes an answer. *)
LEMMA PendingPassed ==
  ASSUME Typed, NEW m, Passed(m)
  PROVE /\ line' \in Seq(Request) /\ down' \in Seq(Response)
        /\ Head(line) \in Request
        /\ \A T : Pending(T)' <=> Pending(T)
<1>1. line' \in Seq(Request) /\ down' \in Seq(Response) /\ Head(line) \in Request /\ m \in Response
  BY TailSeq, AppendSeq DEF Typed, Passed
<1>2. ASSUME NEW T PROVE Pending(T)' <=> Pending(T)
  <2>1. Has(line, Req(T)) <=> Head(line) \in Req(T) \/ Has(line', Req(T))
    BY HasTail DEF Typed, Passed
  <2>2. Has(down', Rsp(T)) <=> Has(down, Rsp(T)) \/ m \in Rsp(T)
    BY HasAppend DEF Typed, Passed
  <2>3. m \in Rsp(T) <=> Head(line) \in Req(T)
    BY <1>1 DEF Req, Rsp, Passed
  <2>4. QED
    BY <1>1, <2>1, <2>2, <2>3, PendingNow, PendingThen
<1>3. QED
  BY <1>1, <1>2

LEMMA PendingSent ==
  ASSUME Typed, NEW r \in Request, line' = Append(line, r), down' = down
  PROVE /\ line' \in Seq(Request) /\ down' \in Seq(Response)
        /\ \A T : Pending(T)' <=> Pending(T) \/ r.type \in T
<1>1. line' \in Seq(Request) /\ down' \in Seq(Response)
  BY AppendSeq DEF Typed
<1>2. ASSUME NEW T PROVE Pending(T)' <=> Pending(T) \/ r.type \in T
  <2>1. Has(line', Req(T)) <=> Has(line, Req(T)) \/ r \in Req(T)
    BY HasAppend DEF Typed
  <2>2. r \in Req(T) <=> r.type \in T
    BY DEF Req
  <2>3. QED
    BY <1>1, <2>1, <2>2, PendingNow, PendingThen
<1>3. QED
  BY <1>1, <1>2

LEMMA PendingTaken ==
  ASSUME Typed, down # <<>>, down' = Tail(down), line' = line
  PROVE /\ line' \in Seq(Request) /\ down' \in Seq(Response)
        /\ Head(down) \in Response
        /\ \A T : Pending(T) <=> Pending(T)' \/ Head(down).type \in T
<1>1. line' \in Seq(Request) /\ down' \in Seq(Response) /\ Head(down) \in Response
  BY TailSeq DEF Typed
<1>2. ASSUME NEW T PROVE Pending(T) <=> Pending(T)' \/ Head(down).type \in T
  <2>1. Has(down, Rsp(T)) <=> Head(down) \in Rsp(T) \/ Has(down', Rsp(T))
    BY HasTail DEF Typed
  <2>2. Head(down) \in Rsp(T) <=> Head(down).type \in T
    BY <1>1 DEF Rsp
  <2>3. QED
    BY <1>1, <2>1, <2>2, PendingNow, PendingThen
<1>3. QED
  BY <1>1, <1>2

LEMMA PendingTakenSent ==
  ASSUME Typed, down # <<>>, down' = Tail(down), NEW r \in Request, line' = Append(line, r)
  PROVE /\ line' \in Seq(Request) /\ down' \in Seq(Response)
        /\ Head(down) \in Response
        /\ \A T : Pending(T) \/ r.type \in T <=> Pending(T)' \/ Head(down).type \in T \/ r.type \in T
        /\ \A T : r.type \in T => Pending(T)'
<1>1. line' \in Seq(Request) /\ down' \in Seq(Response) /\ Head(down) \in Response
  BY TailSeq, AppendSeq DEF Typed
<1>2. ASSUME NEW T
      PROVE /\ Pending(T) \/ r.type \in T <=> Pending(T)' \/ Head(down).type \in T \/ r.type \in T
            /\ r.type \in T => Pending(T)'
  <2>1. Has(down, Rsp(T)) <=> Head(down) \in Rsp(T) \/ Has(down', Rsp(T))
    BY HasTail DEF Typed
  <2>2. Head(down) \in Rsp(T) <=> Head(down).type \in T
    BY <1>1 DEF Rsp
  <2>3. Has(line', Req(T)) <=> Has(line, Req(T)) \/ r \in Req(T)
    BY HasAppend DEF Typed
  <2>4. r \in Req(T) <=> r.type \in T
    BY DEF Req
  <2>5. QED
    BY <1>1, <2>1, <2>2, <2>3, <2>4, PendingNow, PendingThen
<1>3. QED
  BY <1>1, <1>2

-----------------------------------------------------------------------------
(* Type correctness, and what every step relies on. *)

(* What the pages have asked is for a book that has been opened. *)
Opened ==
  /\ buttons # {} \/ Pending(ToDetails) => curBook # NoBook
  /\ document # NoBook \/ Pending(ToReader) => bookId # NoBook

(* A worker that writes has looked first, and the rows it has found stay. *)
Looked ==
  /\ stage = "write" => Takes("UPDATE")
  /\ there => stage = "write" /\ progress[Head(line).book] # <<>>
  /\ otherHas => otherJob # NoBook /\ progress[otherJob] # <<>>

BaseInv == Typed /\ Opened /\ Looked

LEMMA PageOne == 1 \in Page /\ Page \subseteq Nat
BY DataAssumption

LEMMA SavedType ==
  ASSUME Typed, NEW b \in Book
  PROVE Saved(b) \in Page
BY PageOne, TailSeq DEF Typed, Saved

LEMMA OfferedType ==
  ASSUME NEW b
  PROVE Offered(b) \in SUBSET Buttons
BY DEF Offered, Buttons

(* What writing a page does: rows that are there stay, and the first one has *)
(* the page unless it was inserted in between.                               *)
LEMMA PutType ==
  ASSUME progress \in [Book -> Seq(Page)], last \in [Book -> Page], raced \subseteq Book,
         NEW b \in Book, NEW p \in Page, NEW found \in BOOLEAN, Put(b, p, found)
  PROVE /\ progress' \in [Book -> Seq(Page)] /\ last' \in [Book -> Page] /\ raced' \subseteq Book
        /\ \A d \in Book : progress[d] # <<>> => progress'[d] # <<>>
        /\ \A d \in Book \ {b} : progress'[d] = progress[d]
        /\ \A d \in Book \ {b} : last'[d] = last[d] /\ (d \in raced' <=> d \in raced)
        /\ last'[b] = p
        /\ found = (progress[b] # <<>>) => Head(progress'[b]) = p /\ progress'[b] # <<>>
        /\ ~found /\ progress[b] # <<>> => b \in raced'
<1> DEFINE s == progress[b]
           t == IF found THEN [k \in DOMAIN s |-> p] ELSE Append(s, p)
<1>1. progress' = [progress EXCEPT ![b] = t]
  BY DEF Put
<1>2. s \in Seq(Page)
  OBVIOUS
<1> HIDE DEF s
<1>3. /\ [k \in DOMAIN s |-> p] \in Seq(Page)
      /\ s # <<>> => [k \in DOMAIN s |-> p] # <<>> /\ Head([k \in DOMAIN s |-> p]) = p
  <2> DEFINE f == [k \in DOMAIN s |-> p]
             n == Len(s)
  <2>1. n \in Nat /\ DOMAIN s = 1..n
    BY <1>2
  <2>2. f = [k \in 1..n |-> p]
    BY <2>1
  <2> HIDE DEF f, n
  <2>3. f \in Seq(Page) /\ Len(f) = n
    BY <2>1, <2>2
  <2>4. ASSUME s # <<>> PROVE f # <<>> /\ Head(f) = p
    <3>1. 1 \in 1..n /\ n # 0
      BY <1>2, <2>1, <2>4 DEF n
    <3>2. f # <<>>
      BY <2>3, <3>1
    <3>3. Head(f) = f[1]
      BY <2>3, <3>2
    <3>4. QED
      BY <2>2, <3>1, <3>2, <3>3
  <2>5. QED
    BY <2>3, <2>4 DEF f
<1>4. /\ Append(s, p) \in Seq(Page) /\ Append(s, p) # <<>>
      /\ s = <<>> => Head(Append(s, p)) = p
  BY <1>2, AppendSeq
<1>5. t \in Seq(Page) /\ (s # <<>> => t # <<>>) /\ (found = (s # <<>>) => Head(t) = p /\ t # <<>>)
  BY <1>3, <1>4
<1> HIDE DEF t
<1>6. /\ progress' \in [Book -> Seq(Page)]
      /\ progress'[b] = t
      /\ \A d \in Book \ {b} : progress'[d] = progress[d]
  BY <1>1, <1>5
<1>7. /\ last' \in [Book -> Page] /\ last'[b] = p
      /\ \A d \in Book \ {b} : last'[d] = last[d]
  BY DEF Put
<1>8. /\ raced' \subseteq Book
      /\ \A d \in Book \ {b} : d \in raced' <=> d \in raced
      /\ ~found /\ progress[b] # <<>> => b \in raced'
  BY DEF Put
<1>9. QED
  BY <1>5, <1>6, <1>7, <1>8 DEF s

LEMMA InitBase == Init => BaseInv
<1> SUFFICES ASSUME Init PROVE BaseInv
  OBVIOUS
<1>1. row \in [Book -> Row]
  <2> DEFINE R == [bought : BOOLEAN, active : {TRUE}, file : BOOLEAN, cart : {0}, saved : {0, 1}]
  <2>1. row \in [Book -> R]
    BY DEF Init
  <2>2. ASSUME NEW x \in R PROVE x \in Row
    <3>1. /\ x = [bought |-> x.bought, active |-> x.active, file |-> x.file, cart |-> x.cart,
                  saved |-> x.saved]
          /\ x.bought \in BOOLEAN /\ x.active \in {TRUE} /\ x.file \in BOOLEAN
          /\ x.cart \in {0} /\ x.saved \in {0, 1}
      OBVIOUS
    <3>2. x.active \in BOOLEAN
      <4>1. x.active \in {TRUE}
        BY <3>1
      <4>2. {TRUE} \subseteq BOOLEAN
        BY Zenon
      <4>3. QED
        BY <4>1, <4>2, Zenon
    <3>3. x.cart \in 0..2 /\ x.saved \in 0..2
      BY <3>1
    <3>4. QED
      BY <3>1, <3>2, <3>3 DEF Row
  <2> HIDE DEF R
  <2>3. QED
    BY <2>1, <2>2
<1>2. <<>> \in Seq(Page) /\ <<1>> \in Seq(Page)
  BY PageOne
<1>3. progress \in [Book -> Seq(Page)]
  BY <1>2 DEF Init
<1>4. \A b \in Book : Saved(b) \in Page
  BY <1>3, PageOne, TailSeq DEF Saved
<1>5. last \in [Book -> Page]
  BY <1>4 DEF Init
<1>6. Typed
  <2>1. /\ conn \in BOOLEAN
        /\ stage \in {"look", "write"} /\ there \in BOOLEAN
        /\ otherHas \in BOOLEAN
    BY DEF Init
  <2>2. /\ line \in Seq(Request) /\ down \in Seq(Response)
        /\ buttons \subseteq Buttons /\ whyDetails \subseteq Causes /\ whyReader \subseteq Causes
        /\ twice \subseteq Book /\ raced \subseteq Book
    BY DEF Init
  <2>3. /\ curBook \in Book \cup {NoBook} /\ bookId \in Book \cup {NoBook}
        /\ document \in Book \cup {NoBook} /\ otherJob \in Book \cup {NoBook}
        /\ current \in Page
    BY PageOne DEF Init
  <2>4. acts \in 0..MaxActs /\ faults \in 0..MaxFaults /\ others \in 0..MaxOthers
    BY BoundAssumption DEF Init
  <2>5. QED
    BY <1>1, <1>3, <1>5, <2>1, <2>2, <2>3, <2>4 DEF Typed
<1>7. Opened /\ Looked
  BY DEF Init, Opened, Looked, Pending
<1>8. QED
  BY <1>6, <1>7 DEF BaseInv

(* An answer, in which nothing but what the answers of a kind may change is *)
(* changed.                                                                 *)
LEMMA PassedBase ==
  ASSUME BaseInv, NEW m, Passed(m),
         UNCHANGED <<conn, details, reader, other, acts, others>>,
         row' \in [Book -> Row], progress' \in [Book -> Seq(Page)],
         \A b \in Book : progress[b] # <<>> => progress'[b] # <<>>,
         stage' = "look", there' = FALSE,
         faults' \in 0..MaxFaults, whyDetails' \subseteq Causes, whyReader' \subseteq Causes,
         twice' \subseteq Book, last' \in [Book -> Page], raced' \subseteq Book
  PROVE BaseInv'
<1>1. Typed'
  BY PendingPassed DEF BaseInv, Typed, details, reader, other
<1>2. Opened'
  <2>1. UNCHANGED <<buttons, curBook, document, bookId>>
    BY DEF details, reader
  <2>2. \A T : Pending(T)' <=> Pending(T)
    BY PendingPassed DEF BaseInv
  <2>3. QED
    BY <2>1, <2>2 DEF BaseInv, Opened
<1>3. Looked'
  BY DEF BaseInv, Looked, Typed, other
<1>4. QED
  BY <1>1, <1>2, <1>3 DEF BaseInv

LEMMA IdleWorker ==
  ASSUME BaseInv, line # <<>>, Head(line).type # "UPDATE", UNCHANGED worker
  PROVE stage' = "look" /\ there' = FALSE
BY DEF BaseInv, Looked, Takes, worker, Typed

LEMMA FaultType ==
  ASSUME faults \in 0..MaxFaults, Fault
  PROVE faults' \in 0..MaxFaults
BY BoundAssumption DEF Fault

(* Something the worker at the server is not concerned with. *)
LEMMA ElseLooked ==
  ASSUME BaseInv, UNCHANGED <<progress, worker, other>>,
         line # <<>> => line' # <<>> /\ Head(line') = Head(line)
  PROVE Looked'
BY DEF BaseInv, Looked, Takes, worker, other

LEMMA RowWritten ==
  ASSUME NEW x \in Row
  PROVE /\ [x EXCEPT !.cart = AtMostTwo(@ + 1)] \in Row
        /\ [x EXCEPT !.cart = 0] \in Row
        /\ [x EXCEPT !.saved = AtMostTwo(@ + 1)] \in Row
        /\ [x EXCEPT !.saved = 0] \in Row
<1>1. x.cart \in 0..2 /\ x.saved \in 0..2
  BY DEF Row
<1>2. \A n \in 0..2 : AtMostTwo(n + 1) \in 0..2
  BY DEF AtMostTwo
<1>3. \A n \in 0..2 : [x EXCEPT !.cart = n] \in Row /\ [x EXCEPT !.saved = n] \in Row
  BY DEF Row
<1>4. 0 \in 0..2 /\ AtMostTwo(x.cart + 1) \in 0..2 /\ AtMostTwo(x.saved + 1) \in 0..2
  BY <1>1, <1>2
<1>5. QED
  BY <1>3, <1>4

LEMMA WorkBase ==
  ASSUME BaseInv,
         \/ CheckBookOwnership \/ AddToCart \/ RemoveFromCart \/ SaveBook \/ RemoveSavedBook
         \/ GetBookPdfPath \/ GetLastReadPage \/ LookForProgress \/ UpdateLastReadPage
  PROVE BaseInv'
<1> USE DEF ghosts, Causes
<1>0. Typed /\ (line # <<>> => Head(line) \in Request)
  BY TailSeq DEF BaseInv, Typed
<1>1. CASE CheckBookOwnership
  <2>1. PICK s \in SUBSET Buttons : Answer([show |-> s])
    BY <1>1, OfferedType DEF CheckBookOwnership
  <2>2. PICK m : Passed(m)
    BY <1>0, <1>1, <2>1, AnswerShow DEF CheckBookOwnership
  <2>3. stage' = "look" /\ there' = FALSE
    BY <1>1, IdleWorker DEF CheckBookOwnership, Takes
  <2>4. faults' \in 0..MaxFaults /\ whyDetails' \subseteq {"mixed", "elsewhere", "lost", "failed", "early"}
    BY <1>0, <1>1, FaultType DEF CheckBookOwnership, Typed
  <2>5. UNCHANGED <<conn, details, reader, other, acts, others>>
    BY <2>1 DEF Answer
  <2>6. UNCHANGED <<row, progress, whyReader, twice, last, raced>>
    BY <1>1 DEF CheckBookOwnership
  <2>7. QED
    BY <1>0, <2>2, <2>3, <2>4, <2>5, <2>6, PassedBase DEF Typed
<1>2. ASSUME NEW t \in {"ADD", "REMOVE", "SAVE", "UNSAVE"}, NEW new \in Row, Write(t, new)
      PROVE  BaseInv'
  <2>1. PICK ok \in BOOLEAN : Answer([ok |-> ok])
    BY <1>2 DEF Write
  <2>2. Takes(t)
    BY <1>2 DEF Write
  <2>3. PICK m : Passed(m)
    BY <1>0, <2>1, <2>2, AnswerOk
  <2>4. stage' = "look" /\ there' = FALSE
    BY <1>2, <2>2, IdleWorker DEF Write, Takes
  <2>5. faults' \in 0..MaxFaults
    BY <1>0, <1>2, FaultType DEF Write, Typed
  <2>6. row' \in [Book -> Row]
    BY <1>0, <1>2 DEF Write, Typed
  <2>7. UNCHANGED <<conn, details, reader, other, acts, others>>
    BY <2>1 DEF Answer
  <2>8. UNCHANGED <<progress, whyDetails, whyReader, twice, last, raced>>
    BY <1>2 DEF Write
  <2>9. QED
    BY <1>0, <2>3, <2>4, <2>5, <2>6, <2>7, <2>8, PassedBase DEF Typed
<1>3. ASSUME NEW b \in Book
      PROVE /\ [row[b] EXCEPT !.cart = AtMostTwo(@ + 1)] \in Row
            /\ [row[b] EXCEPT !.cart = 0] \in Row
            /\ [row[b] EXCEPT !.saved = AtMostTwo(@ + 1)] \in Row
            /\ [row[b] EXCEPT !.saved = 0] \in Row
            /\ row[b] \in Row
  BY <1>0, RowWritten DEF Typed
<1>4. CASE AddToCart \/ RemoveFromCart \/ SaveBook \/ RemoveSavedBook
  <2>1. Head(line).book \in Book
    BY <1>0, <1>4, RequestFields DEF AddToCart, RemoveFromCart, SaveBook, RemoveSavedBook, Write, Takes
  <2>2. QED
    BY <1>2, <1>3, <1>4, <2>1 DEF AddToCart, RemoveFromCart, SaveBook, RemoveSavedBook
<1>5. CASE GetBookPdfPath
  <2>1. Takes("PATH") /\ Head(line).book \in Book
    BY <1>0, <1>5, RequestFields DEF GetBookPdfPath, Takes
  <2>2. PICK ok \in BOOLEAN : Answer([ok |-> ok])
    BY <1>0, <1>5, <2>1 DEF GetBookPdfPath, Typed, Row
  <2>3. PICK m : Passed(m)
    BY <1>0, <2>1, <2>2, AnswerOk
  <2>4. stage' = "look" /\ there' = FALSE
    BY <1>5, <2>1, IdleWorker DEF GetBookPdfPath, Takes
  <2>5. UNCHANGED <<conn, details, reader, other, acts, others>>
    BY <2>2 DEF Answer
  <2>6. UNCHANGED <<row, progress, whyDetails, whyReader, twice, last, raced>>
    BY <1>5 DEF GetBookPdfPath
  <2>7. faults' \in 0..MaxFaults
    BY <1>0, <1>5, FaultType DEF GetBookPdfPath, Typed
  <2>8. QED
    BY <1>0, <2>3, <2>4, <2>5, <2>6, <2>7, PassedBase DEF Typed
<1>6. CASE GetLastReadPage
  <2>1. Takes("LAST") /\ Head(line).book \in Book
    BY <1>0, <1>6, RequestFields DEF GetLastReadPage, Takes
  <2>2. PICK p \in Page : Answer([page |-> p])
    BY <1>0, <1>6, <2>1, SavedType, PageOne DEF GetLastReadPage
  <2>3. PICK m : Passed(m)
    BY <1>0, <2>1, <2>2, AnswerPage
  <2>4. stage' = "look" /\ there' = FALSE
    BY <1>6, <2>1, IdleWorker DEF GetLastReadPage, Takes
  <2>5. faults' \in 0..MaxFaults /\ whyReader' \subseteq {"mixed", "elsewhere", "lost", "failed", "early"}
    BY <1>0, <1>6, FaultType DEF GetLastReadPage, Typed
  <2>6. UNCHANGED <<conn, details, reader, other, acts, others>>
    BY <2>2 DEF Answer
  <2>7. UNCHANGED <<row, progress, whyDetails, twice, last, raced>>
    BY <1>6 DEF GetLastReadPage
  <2>8. QED
    BY <1>0, <2>3, <2>4, <2>5, <2>6, <2>7, PassedBase DEF Typed
<1>7. CASE LookForProgress
  <2>1. UNCHANGED <<row, progress, conn, line, down, curBook, buttons, bookId, document, current,
                    otherJob, otherHas, acts, faults, others, whyDetails, whyReader, twice, last, raced>>
    BY <1>7 DEF LookForProgress, details, reader, other
  <2>2. Opened'
    BY <2>1 DEF BaseInv, Opened, Pending
  <2>3. stage' = "write" /\ there' = (progress[Head(line).book] # <<>>) /\ Takes("UPDATE")
    BY <1>7 DEF LookForProgress
  <2>4. Looked'
    BY <2>1, <2>3 DEF BaseInv, Looked, Takes
  <2>5. Typed'
    BY <1>0, <2>1, <2>3 DEF Typed
  <2>6. QED
    BY <2>2, <2>4, <2>5 DEF BaseInv
<1>8. CASE UpdateLastReadPage
  <2> DEFINE r == Head(line)
  <2>1. Takes("UPDATE") /\ r.book \in Book /\ r.page \in Page
    BY <1>0, <1>8, RequestFields DEF UpdateLastReadPage, Takes
  <2>2. PICK ok \in BOOLEAN : Answer([ok |-> ok])
    BY <1>8 DEF UpdateLastReadPage
  <2>3. PICK m : Passed(m)
    BY <1>0, <2>1, <2>2, AnswerOk
  <2>4. stage' = "look" /\ there' = FALSE
    BY <1>8 DEF UpdateLastReadPage
  <2>5. faults' \in 0..MaxFaults /\ whyReader' \subseteq {"mixed", "elsewhere", "lost", "failed", "early"}
    BY <1>0, <1>8, FaultType DEF UpdateLastReadPage, Typed
  <2>6. UNCHANGED <<conn, details, reader, other, acts, others>>
    BY <2>2 DEF Answer
  <2>7. UNCHANGED <<row, whyDetails, twice>>
    BY <1>8 DEF UpdateLastReadPage
  <2>8. Put(r.book, r.page, there) \/ UNCHANGED <<progress, last, raced>>
    BY <1>8 DEF UpdateLastReadPage
  <2>9. there \in BOOLEAN /\ progress \in [Book -> Seq(Page)] /\ last \in [Book -> Page] /\ raced \subseteq Book
    BY <1>0 DEF Typed
  <2> HIDE DEF r
  <2>10. /\ progress' \in [Book -> Seq(Page)] /\ last' \in [Book -> Page] /\ raced' \subseteq Book
         /\ \A d \in Book : progress[d] # <<>> => progress'[d] # <<>>
    BY <2>1, <2>8, <2>9, PutType
  <2>11. row' \in [Book -> Row] /\ twice' \subseteq Book /\ whyDetails' \subseteq Causes
    BY <1>0, <2>7 DEF Typed
  <2>12. QED
    BY <2>3, <2>4, <2>5, <2>6, <2>10, <2>11, PassedBase
<1>9. QED
  BY <1>1, <1>4, <1>5, <1>6, <1>7, <1>8

LEMMA OtherBase ==
  ASSUME BaseInv,
         \/ \E b \in Book : LookElsewhere(b)
         \/ \E b \in Book, new \in Row : ChangeElsewhere(b, new)
         \/ \E p \in Page : ReadElsewhere(p)
  PROVE BaseInv'
<1>0. Typed /\ UNCHANGED <<conn, line, worker, down, curBook, buttons, bookId, document, current,
                           acts, faults>>
  BY DEF BaseInv, LookElsewhere, ChangeElsewhere, ReadElsewhere, details, reader
<1>1. Opened'
  BY <1>0 DEF BaseInv, Opened, Pending
<1>2. ASSUME NEW b \in Book, LookElsewhere(b) PROVE BaseInv'
  <2>1. UNCHANGED <<row, progress, whyDetails, whyReader, twice, last, raced>>
    BY <1>2 DEF LookElsewhere, ghosts
  <2>2. otherJob' = b /\ otherHas' = (progress[b] # <<>>)
    BY <1>2 DEF LookElsewhere
  <2>3. others' \in 0..MaxOthers
    BY <1>0, <1>2, BoundAssumption DEF LookElsewhere, Other, Typed
  <2>4. otherHas' \in BOOLEAN
    BY <2>2
  <2>5. Typed'
    BY <1>0, <2>1, <2>2, <2>3, <2>4 DEF Typed, worker
  <2>6. Looked'
    BY <1>0, <2>1, <2>2, DataAssumption DEF BaseInv, Looked, Takes, worker
  <2>7. QED
    BY <1>1, <2>5, <2>6 DEF BaseInv
<1>3. ASSUME NEW b \in Book, NEW new \in Row, ChangeElsewhere(b, new) PROVE BaseInv'
  <2>1. UNCHANGED <<progress, otherJob, otherHas, whyReader, last, raced>>
    BY <1>3 DEF ChangeElsewhere, other
  <2>2. others' \in 0..MaxOthers
    BY <1>0, <1>3, BoundAssumption DEF ChangeElsewhere, Other, Typed
  <2>3. row' \in [Book -> Row]
    <3>1. [new EXCEPT !.file = row[b].file] \in Row
      BY <1>0 DEF Typed, Row
    <3>2. QED
      BY <1>0, <1>3, <3>1 DEF ChangeElsewhere, Typed
  <2>4. whyDetails' \subseteq Causes /\ twice' \subseteq Book
    BY <1>0, <1>3 DEF ChangeElsewhere, Typed, Causes
  <2>5. Typed'
    BY <1>0, <2>1, <2>2, <2>3, <2>4 DEF Typed, worker
  <2>6. Looked'
    BY <1>0, <2>1 DEF BaseInv, Looked, Takes, worker
  <2>7. QED
    BY <1>1, <2>5, <2>6 DEF BaseInv
<1>4. ASSUME NEW p \in Page, ReadElsewhere(p) PROVE BaseInv'
  <2>1. UNCHANGED <<row, others, whyDetails, twice>> /\ otherJob' = NoBook /\ otherHas' = FALSE
    BY <1>4 DEF ReadElsewhere
  <2>2. otherJob \in Book /\ Put(otherJob, p, otherHas)
    BY <1>0, <1>4 DEF ReadElsewhere, Typed
  <2>3. otherHas \in BOOLEAN /\ progress \in [Book -> Seq(Page)] /\ last \in [Book -> Page] /\ raced \subseteq Book
    BY <1>0 DEF Typed
  <2>4. /\ progress' \in [Book -> Seq(Page)] /\ last' \in [Book -> Page] /\ raced' \subseteq Book
        /\ \A d \in Book : progress[d] # <<>> => progress'[d] # <<>>
    BY <2>2, <2>3, PutType
  <2>5. whyReader' \subseteq Causes
    BY <1>0, <1>4 DEF ReadElsewhere, Typed, Causes
  <2>6. Typed'
    BY <1>0, <2>1, <2>4, <2>5 DEF Typed, worker
  <2>7. line # <<>> => Head(line).book \in Book
    BY <1>0, TailSeq, RequestFields DEF Typed
  <2>8. Looked'
    BY <1>0, <2>1, <2>4, <2>7 DEF BaseInv, Looked, Takes, worker
  <2>9. QED
    BY <1>1, <2>6, <2>8 DEF BaseInv
<1>5. QED
  BY <1>2, <1>3, <1>4

LEMMA ClickType ==
  ASSUME Typed, Click
  PROVE acts' \in 0..MaxActs
BY BoundAssumption DEF Typed, Click

(* The client's steps: what they leave alone. *)
LEMMA ClientBase ==
  ASSUME BaseInv, UNCHANGED <<row, progress, worker, other, others, last, raced>>,
         line' \in Seq(Request), down' \in Seq(Response), conn' \in BOOLEAN,
         line # <<>> => line' # <<>> /\ Head(line') = Head(line),
         acts' \in 0..MaxActs, faults' \in 0..MaxFaults,
         curBook' \in Book \cup {NoBook}, buttons' \subseteq Buttons,
         bookId' \in Book \cup {NoBook}, document' \in Book \cup {NoBook}, current' \in Page,
         whyDetails' \subseteq Causes, whyReader' \subseteq Causes, twice' \subseteq Book,
         Opened'
  PROVE BaseInv'
<1>1. Typed'
  BY DEF BaseInv, Typed, worker, other
<1>2. Looked'
  BY ElseLooked DEF other
<1>3. QED
  BY <1>1, <1>2 DEF BaseInv

LEMMA WhyNowType ==
  ASSUME Typed, NEW b
  PROVE WhyNow(b) \subseteq Causes
BY DEF Typed, WhyNow, Causes

LEMMA SentQueue ==
  ASSUME Typed, NEW r \in Request, Send(r)
  PROVE /\ conn' \in BOOLEAN
        /\ line' \in Seq(Request)
        /\ line' # <<>>
        /\ line # <<>> => Head(line') = Head(line)
        /\ line' = Append(line, r)
BY AppendSeq DEF Typed, Send

LEMMA ClickBase ==
  ASSUME BaseInv,
         \/ \E b \in Book : LoadDetails(b) \/ LoadBook(b)
         \/ \E p \in Page : TurnTo(p)
         \/ ClickAdd \/ ClickRemove \/ ClickSave \/ ClickSaved
  PROVE BaseInv'
<1>0. /\ Typed /\ down' = down /\ acts' \in 0..MaxActs
      /\ UNCHANGED <<row, progress, worker, other, others, last, raced>>
      /\ down' \in Seq(Response)
  <2>1. Typed /\ down' = down /\ UNCHANGED <<row, progress, worker, other, others, last, raced>>
    BY DEF BaseInv, LoadDetails, LoadBook, TurnTo, ClickAdd, ClickRemove, ClickSave, ClickSaved,
           ClickButton
  <2>2. Click
    BY DEF LoadDetails, LoadBook, TurnTo, ClickAdd, ClickRemove, ClickSave, ClickSaved, ClickButton
  <2>3. QED
    BY <2>1, <2>2, ClickType DEF Typed
<1>1. ASSUME NEW b \in Book, LoadDetails(b) PROVE BaseInv'
  <2>1. curBook' = b /\ buttons' = {} /\ UNCHANGED <<bookId, document, current, whyReader, twice>>
    BY <1>1 DEF LoadDetails, reader
  <2>2. CASE Send(Ask(b)) /\ whyDetails' = WhyNow(b) /\ UNCHANGED faults
    <3>1. Ask(b) \in Request /\ Ask(b).type = "CHECK"
      BY Requests DEF Ask, Types
    <3> HIDE DEF Ask
    <3>2. \A T : Pending(T)' <=> Pending(T) \/ Ask(b).type \in T
      BY <1>0, <2>2, <3>1, SentQueue, PendingSent
    <3>3. Pending(ToReader)' => Pending(ToReader)
      BY <3>1, <3>2 DEF ToReader
    <3>4. Opened'
      BY <2>1, <3>3, DataAssumption DEF BaseInv, Opened
    <3>5. QED
      BY <1>0, <2>1, <2>2, <3>1, <3>4, SentQueue, WhyNowType, ClientBase DEF Typed
  <2>3. CASE NoConnection /\ whyDetails' = {"lost"}
    <3>1. UNCHANGED <<conn, line>> /\ faults' \in 0..MaxFaults
      BY <1>0, <2>3, FaultType DEF NoConnection, Typed
    <3>2. Opened'
      BY <1>0, <2>1, <3>1, DataAssumption DEF BaseInv, Opened, Pending
    <3>3. whyDetails' \subseteq Causes
      BY <2>3 DEF Causes
    <3>4. QED
      BY <1>0, <2>1, <3>1, <3>2, <3>3, ClientBase DEF Typed
  <2>4. QED
    BY <1>1, <2>2, <2>3 DEF LoadDetails
<1>2. ASSUME NEW b \in Book, LoadBook(b) PROVE BaseInv'
  <2> DEFINE r == [type |-> "PATH", book |-> b]
  <2>1. /\ bookId' = b /\ document' = NoBook /\ current' = 1 /\ whyReader' = {}
        /\ UNCHANGED <<curBook, buttons, whyDetails, twice>>
    BY <1>2 DEF LoadBook, details
  <2>2. r \in Request /\ r.type = "PATH"
    BY Requests DEF Types
  <2>3. (Send(r) /\ UNCHANGED faults) \/ NoConnection
    BY <1>2 DEF LoadBook
  <2> HIDE DEF r
  <2>4. CASE Send(r) /\ UNCHANGED faults
    <3>1. \A T : Pending(T)' <=> Pending(T) \/ r.type \in T
      BY <1>0, <2>2, <2>4, SentQueue, PendingSent
    <3>2. Pending(ToDetails)' => Pending(ToDetails)
      BY <2>2, <3>1 DEF ToDetails
    <3>3. Opened'
      BY <2>1, <3>2, DataAssumption DEF BaseInv, Opened
    <3>4. QED
      BY <1>0, <2>1, <2>2, <2>4, <3>3, SentQueue, PageOne, ClientBase DEF Typed
  <2>5. CASE NoConnection
    <3>1. UNCHANGED <<conn, line>> /\ faults' \in 0..MaxFaults
      BY <1>0, <2>5, FaultType DEF NoConnection, Typed
    <3>2. Opened'
      BY <1>0, <2>1, <3>1, DataAssumption DEF BaseInv, Opened, Pending
    <3>3. QED
      BY <1>0, <2>1, <3>1, <3>2, PageOne, ClientBase DEF Typed
  <2>6. QED
    BY <2>3, <2>4, <2>5
<1>3. ASSUME NEW p \in Page, TurnTo(p) PROVE BaseInv'
  <2> DEFINE r == [type |-> "UPDATE", book |-> bookId, page |-> p]
  <2>1. /\ document # NoBook /\ current' = p
        /\ UNCHANGED <<curBook, buttons, bookId, document, whyDetails, twice>>
        /\ whyReader' \subseteq Causes
    BY <1>0, <1>3 DEF TurnTo, details, Typed, Causes
  <2>2. bookId \in Book
    BY <1>0, <2>1 DEF BaseInv, Opened, Typed
  <2>3. r \in Request /\ r.type = "UPDATE"
    BY <2>2, Requests
  <2>4. (Send(r) /\ UNCHANGED faults) \/ NoConnection
    BY <1>3 DEF TurnTo
  <2> HIDE DEF r
  <2>5. CASE Send(r) /\ UNCHANGED faults
    <3>1. \A T : Pending(T)' <=> Pending(T) \/ r.type \in T
      BY <1>0, <2>3, <2>5, SentQueue, PendingSent
    <3>2. Pending(ToDetails)' => Pending(ToDetails)
      BY <2>3, <3>1 DEF ToDetails
    <3>3. Opened'
      BY <2>1, <2>2, <3>2, DataAssumption DEF BaseInv, Opened
    <3>4. QED
      BY <1>0, <2>1, <2>3, <2>5, <3>3, SentQueue, ClientBase DEF Typed
  <2>6. CASE NoConnection
    <3>1. UNCHANGED <<conn, line>> /\ faults' \in 0..MaxFaults
      BY <1>0, <2>6, FaultType DEF NoConnection, Typed
    <3>2. Opened'
      BY <1>0, <2>1, <3>1 DEF BaseInv, Opened, Pending
    <3>3. QED
      BY <1>0, <2>1, <3>1, <3>2, ClientBase DEF Typed
  <2>7. QED
    BY <2>4, <2>5, <2>6
<1>4. ASSUME NEW t \in {"ADD", "REMOVE", "SAVE", "UNSAVE"}, NEW button, ClickButton(button, t)
      PROVE  BaseInv'
  <2> DEFINE r == [type |-> t, book |-> curBook]
  <2>1. UNCHANGED <<curBook, buttons, bookId, document, current, whyDetails, whyReader>>
    BY <1>4 DEF ClickButton, details, reader
  <2>2. curBook \in Book
    BY <1>0, <1>4 DEF ClickButton, BaseInv, Opened, Typed
  <2>3. r \in Request /\ r.type = t
    BY <2>2, Requests DEF Types
  <2>4. (Send(r) /\ UNCHANGED faults) \/ NoConnection
    BY <1>4 DEF ClickButton
  <2>5. twice' \subseteq Book
    BY <1>0, <1>4, <2>2 DEF ClickButton, Typed
  <2> HIDE DEF r
  <2>6. CASE Send(r) /\ UNCHANGED faults
    <3>1. \A T : Pending(T)' <=> Pending(T) \/ r.type \in T
      BY <1>0, <2>3, <2>6, SentQueue, PendingSent
    <3>2. Pending(ToReader)' => Pending(ToReader)
      BY <2>3, <3>1 DEF ToReader
    <3>3. Opened'
      BY <2>1, <2>2, <3>2, DataAssumption DEF BaseInv, Opened
    <3>4. QED
      BY <1>0, <2>1, <2>3, <2>5, <2>6, <3>3, SentQueue, ClientBase DEF Typed
  <2>7. CASE NoConnection
    <3>1. UNCHANGED <<conn, line>> /\ faults' \in 0..MaxFaults
      BY <1>0, <2>7, FaultType DEF NoConnection, Typed
    <3>2. Opened'
      BY <1>0, <2>1, <3>1 DEF BaseInv, Opened, Pending
    <3>3. QED
      BY <1>0, <2>1, <2>5, <3>1, <3>2, ClientBase DEF Typed
  <2>8. QED
    BY <2>4, <2>6, <2>7
<1>5. QED
  BY <1>1, <1>2, <1>3, <1>4 DEF ClickAdd, ClickRemove, ClickSave, ClickSaved

LEMMA PendingHead ==
  ASSUME Typed, down # <<>>, NEW T, Head(down).type \in T
  PROVE Pending(T)
BY DEF Typed, Pending

LEMMA HandleBase ==
  ASSUME BaseInv,
         \/ HandleOwnership \/ HandleCart \/ HandleSaved
         \/ HandlePath \/ HandleLastReadPage \/ HandleUpdated
  PROVE BaseInv'
<1> DEFINE m == Head(down)
<1>0. /\ Typed /\ down # <<>> /\ m \in Response /\ down' = Tail(down)
      /\ UNCHANGED <<row, progress, worker, other, acts, faults, others, twice, last, raced>>
  <2>1. down # <<>> /\ Take
    BY DEF HandleOwnership, HandleCart, HandleSaved, HandlePath, HandleLastReadPage, HandleUpdated,
           Arrives
  <2>2. QED
    BY <2>1, TailSeq DEF BaseInv, Take, Typed
<1> HIDE DEF m
<1>1. ASSUME UNCHANGED <<conn, line, curBook, bookId, document, whyDetails, whyReader>>,
             buttons # {} \/ m.type \in ToDetails, buttons' \subseteq Buttons, current' \in Page
      PROVE  BaseInv'
  <2>1. line' \in Seq(Request) /\ down' \in Seq(Response) /\ \A T : Pending(T)' => Pending(T)
    BY <1>0, <1>1, PendingTaken
  <2>2. curBook # NoBook
    BY <1>0, <1>1, PendingHead DEF BaseInv, Opened, m
  <2>3. Opened'
    BY <1>1, <2>1, <2>2 DEF BaseInv, Opened
  <2>4. QED
    BY <1>0, <1>1, <2>1, <2>3, ClientBase DEF Typed
<1>2. ASSUME UNCHANGED <<conn, line, curBook, buttons, bookId, whyDetails, whyReader>>,
             document' \in {document, NoBook}, current' \in Page
      PROVE  BaseInv'
  <2>1. line' \in Seq(Request) /\ down' \in Seq(Response) /\ \A T : Pending(T)' => Pending(T)
    BY <1>0, <1>2, PendingTaken
  <2>2. Opened'
    BY <1>2, <2>1 DEF BaseInv, Opened
  <2>3. QED
    BY <1>0, <1>2, <2>1, <2>2, ClientBase DEF Typed
<1>3. CASE HandleOwnership
  <2>1. m.type = "CHECK" /\ buttons' = buttons \cup m.show
        /\ UNCHANGED <<conn, line, curBook, bookId, document, current, whyDetails, whyReader>>
    BY <1>3 DEF HandleOwnership, Arrives, reader, m
  <2>2. m.show \subseteq Buttons /\ m.type \in ToDetails
    BY <1>0, <2>1, ResponseFields DEF ToDetails
  <2>3. QED
    BY <1>0, <1>1, <2>1, <2>2 DEF Typed
<1>4. CASE HandleCart
  <2>1. m.type \in {"ADD", "REMOVE"}
        /\ UNCHANGED <<conn, line, curBook, bookId, document, current, whyDetails, whyReader>>
    BY <1>4 DEF HandleCart, Arrives, reader, m
  <2>2. buttons' \subseteq buttons \cup {"add", "remove"}
    BY <1>4 DEF HandleCart
  <2>3. buttons' \subseteq Buttons /\ m.type \in ToDetails
    BY <1>0, <2>1, <2>2 DEF Typed, Buttons, ToDetails
  <2>4. QED
    BY <1>0, <1>1, <2>1, <2>3 DEF Typed
<1>5. CASE HandleSaved
  <2>1. /\ m.type \in ToDetails /\ m.type \in {"SAVE", "UNSAVE"}
        /\ UNCHANGED <<curBook, bookId, document, current, whyReader>>
    BY <1>5 DEF HandleSaved, Arrives, reader, m, ToDetails
  <2>2. CASE m.ok
    <3>1. buttons' = {} /\ Send(Ask(curBook)) /\ whyDetails' = WhyNow(curBook)
      BY <1>5, <2>2 DEF HandleSaved, m
    <3>2. curBook \in Book
      BY <1>0, <2>1, PendingHead DEF BaseInv, Opened, Typed, m
    <3>3. Ask(curBook) \in Request /\ Ask(curBook).type = "CHECK"
      BY <3>2, Requests DEF Ask, Types
    <3> HIDE DEF Ask
    <3>4. line' = Append(line, Ask(curBook))
      BY <3>1 DEF Send
    <3>5. /\ down' \in Seq(Response)
          /\ \A T : Pending(T)' => Pending(T) \/ Ask(curBook).type \in T
      BY <1>0, <3>3, <3>4, PendingTakenSent
    <3>6. Pending(ToReader)' => Pending(ToReader)
      BY <3>3, <3>5 DEF ToReader
    <3>7. Opened'
      BY <2>1, <3>1, <3>2, <3>6, DataAssumption DEF BaseInv, Opened
    <3>8. QED
      BY <1>0, <2>1, <3>1, <3>3, <3>5, <3>7, SentQueue, WhyNowType, ClientBase DEF Typed
  <2>3. CASE ~m.ok
    <3>1. UNCHANGED <<conn, line, buttons, whyDetails>>
      BY <1>5, <2>3 DEF HandleSaved, m
    <3>2. QED
      BY <1>0, <1>2, <2>1, <3>1 DEF Typed
  <2>4. QED
    BY <2>2, <2>3
<1>6. CASE HandlePath
  <2>1. m.type = "PATH" /\ m.type \in ToReader /\ UNCHANGED <<curBook, buttons, bookId, current, whyDetails>>
    BY <1>6 DEF HandlePath, Arrives, details, m, ToReader
  <2>2. CASE m.ok /\ row[m.book].file
    <3> DEFINE r == [type |-> "LAST", book |-> bookId]
    <3>1. /\ document' = m.book /\ Send(r)
          /\ whyReader' \subseteq whyReader \cup {"mixed"}
      BY <1>6, <2>2 DEF HandlePath, m
    <3>2. bookId \in Book
      BY <1>0, <2>1, PendingHead DEF BaseInv, Opened, Typed, m
    <3>3. r \in Request /\ r.type = "LAST"
      BY <3>2, Requests DEF Types
    <3> HIDE DEF r
    <3>4. line' = Append(line, r)
      BY <3>1 DEF Send
    <3>5. /\ down' \in Seq(Response)
          /\ \A T : Pending(T)' => Pending(T) \/ r.type \in T
      BY <1>0, <3>3, <3>4, PendingTakenSent
    <3>6. Pending(ToDetails)' => Pending(ToDetails)
      BY <3>3, <3>5 DEF ToDetails
    <3>7. Opened'
      BY <2>1, <3>2, <3>6, DataAssumption DEF BaseInv, Opened
    <3>8. m.book \in Book /\ whyReader' \subseteq Causes
      BY <1>0, <3>1, ResponseFields DEF Typed, Causes
    <3>9. QED
      BY <1>0, <2>1, <3>1, <3>3, <3>5, <3>7, <3>8, SentQueue, ClientBase DEF Typed
  <2>3. CASE ~m.ok
    <3>1. UNCHANGED <<conn, line, document, whyReader>>
      BY <1>6, <2>3 DEF HandlePath, m
    <3>2. QED
      BY <1>0, <1>2, <2>1, <3>1 DEF Typed
  <2>4. CASE m.ok /\ ~row[m.book].file
    <3>1. document' = NoBook /\ UNCHANGED <<conn, line, whyReader>>
      BY <1>6, <2>4 DEF HandlePath, m
    <3>2. QED
      BY <1>0, <1>2, <2>1, <3>1 DEF Typed
  <2>5. QED
    BY <2>2, <2>3, <2>4
<1>7. CASE HandleLastReadPage
  <2>1. m.type = "LAST" /\ current' = m.page
        /\ UNCHANGED <<conn, line, curBook, buttons, bookId, document, whyDetails, whyReader>>
    BY <1>7 DEF HandleLastReadPage, Arrives, details, m
  <2>2. QED
    BY <1>0, <1>2, <2>1, ResponseFields
<1>8. CASE HandleUpdated
  <2>1. UNCHANGED <<conn, line, curBook, buttons, bookId, document, current, whyDetails, whyReader>>
    BY <1>8 DEF HandleUpdated, details, reader
  <2>2. QED
    BY <1>0, <1>2, <2>1 DEF Typed
<1>9. QED
  BY <1>3, <1>4, <1>5, <1>6, <1>7, <1>8

LEMMA LoseBase ==
  ASSUME BaseInv, Lose
  PROVE BaseInv'
<1>1. /\ Typed /\ conn' = FALSE /\ line' = <<>> /\ down' = <<>> /\ stage' = "look" /\ there' = FALSE
      /\ UNCHANGED <<row, progress, curBook, buttons, bookId, document, current, otherJob, otherHas,
                     acts, others, twice, last, raced>>
  BY DEF BaseInv, Lose, details, reader, other
<1>2. faults' \in 0..MaxFaults /\ whyDetails' \subseteq Causes /\ whyReader' \subseteq Causes
  BY <1>1, FaultType DEF Lose, Typed, Causes
<1>3. Typed'
  <2>1. line' = <<>> /\ down' = <<>>
    BY <1>1
  <2>2. line' \in Seq(Request) /\ down' \in Seq(Response)
    BY <2>1
  <2>3. conn' \in BOOLEAN
    BY <1>1
  <2>4. there' \in BOOLEAN
    BY <1>1
  <2>5. stage' \in {"look", "write"}
    BY <1>1
  <2>6. QED
    BY <1>1, <1>2, <2>2, <2>3, <2>4, <2>5 DEF Typed
<1>4. Opened'
  <2>1. \A T : ~Pending(T)'
    BY <1>1 DEF Pending
  <2>2. QED
    BY <1>1, <2>1 DEF BaseInv, Opened
<1>5. Looked'
  BY <1>1 DEF BaseInv, Looked
<1>6. QED
  BY <1>3, <1>4, <1>5 DEF BaseInv

(* The rows another client can leave behind. *)
LEMMA ElsewhereType ==
  ASSUME NEW bought \in BOOLEAN, NEW active \in BOOLEAN, NEW cart \in {0, 1}, NEW saved \in {0, 1}
  PROVE [bought |-> bought, active |-> active, file |-> TRUE, cart |-> cart, saved |-> saved] \in Row
<1>1. cart \in 0..2 /\ saved \in 0..2
  OBVIOUS
<1>2. QED
  BY <1>1 DEF Row

(* The disjuncts of Next, in groups. *)
WorkStep ==
  \/ CheckBookOwnership \/ AddToCart \/ RemoveFromCart \/ SaveBook \/ RemoveSavedBook
  \/ GetBookPdfPath \/ GetLastReadPage \/ LookForProgress \/ UpdateLastReadPage
OtherStep ==
  \/ \E b \in Book : LookElsewhere(b)
  \/ \E b \in Book, new \in Row :
       new.cart \in {0, 1} /\ new.saved \in {0, 1} /\ ChangeElsewhere(b, new)
  \/ \E p \in Page : ReadElsewhere(p)
ClickStep ==
  \/ \E b \in Book : LoadDetails(b) \/ LoadBook(b)
  \/ \E p \in Page : TurnTo(p)
  \/ ClickAdd \/ ClickRemove \/ ClickSave \/ ClickSaved
HandleStep ==
  \/ HandleOwnership \/ HandleCart \/ HandleSaved
  \/ HandlePath \/ HandleLastReadPage \/ HandleUpdated

LEMMA NextSteps == Next => WorkStep \/ OtherStep \/ ClickStep \/ HandleStep \/ Lose
<1> SUFFICES ASSUME Next PROVE WorkStep \/ OtherStep \/ ClickStep \/ HandleStep \/ Lose
  OBVIOUS
<1>1. ASSUME NEW b \in Book, NEW bought \in BOOLEAN, NEW active \in BOOLEAN,
             NEW cart \in {0, 1}, NEW saved \in {0, 1},
             ChangeElsewhere(b, [bought |-> bought, active |-> active, file |-> TRUE,
                                 cart |-> cart, saved |-> saved])
      PROVE  OtherStep
  <2> DEFINE new == [bought |-> bought, active |-> active, file |-> TRUE, cart |-> cart, saved |-> saved]
  <2>1. new \in Row /\ new.cart \in {0, 1} /\ new.saved \in {0, 1}
    BY ElsewhereType
  <2> HIDE DEF new
  <2>2. ChangeElsewhere(b, new)
    BY <1>1 DEF new
  <2>3. QED
    BY <2>1, <2>2 DEF OtherStep
<1>2. QED
  BY <1>1 DEF Next, WorkStep, OtherStep, ClickStep, HandleStep

LEMMA NextBase == BaseInv /\ [Next]_vars => BaseInv'
<1> SUFFICES ASSUME BaseInv, [Next]_vars PROVE BaseInv'
  OBVIOUS
<1>1. CASE WorkStep
  BY <1>1, WorkBase DEF WorkStep
<1>2. CASE OtherStep
  BY <1>2, OtherBase DEF OtherStep
<1>3. CASE ClickStep
  BY <1>3, ClickBase DEF ClickStep
<1>4. CASE HandleStep
  BY <1>4, HandleBase DEF HandleStep
<1>5. CASE Lose
  BY <1>5, LoseBase
<1>6. CASE UNCHANGED vars
  BY <1>6 DEF vars, worker, details, reader, other, ghosts, BaseInv, Typed, Opened, Looked, Pending, Takes
<1>7. QED
  BY <1>1, <1>2, <1>3, <1>4, <1>5, <1>6, NextSteps

(* Every reachable state has its types, before any claim about the rows. *)
LEMMA BaseHolds == Spec => []BaseInv
BY InitBase, NextBase, PTL DEF Spec

-----------------------------------------------------------------------------
(* The page saved. *)

LEMMA PutProgress ==
  ASSUME Typed, ProgressLast, NEW b \in Book, NEW p \in Page, NEW found \in BOOLEAN,
         found => progress[b] # <<>>, Put(b, p, found)
  PROVE ProgressLast'
<1>0. progress \in [Book -> Seq(Page)] /\ last \in [Book -> Page] /\ raced \subseteq Book
  BY DEF Typed
<1>1. /\ \A d \in Book \ {b} : progress'[d] = progress[d]
      /\ \A d \in Book \ {b} : last'[d] = last[d] /\ (d \in raced' <=> d \in raced)
      /\ last'[b] = p
      /\ found = (progress[b] # <<>>) => Head(progress'[b]) = p /\ progress'[b] # <<>>
      /\ ~found /\ progress[b] # <<>> => b \in raced'
  BY <1>0, PutType
<1>2. ASSUME NEW d \in Book, d \notin raced' PROVE Saved(d)' = last'[d]
  <2>1. CASE d = b
    <3>1. found = (progress[b] # <<>>)
      BY <1>1, <1>2, <2>1
    <3>2. QED
      BY <1>1, <2>1, <3>1 DEF Saved
  <2>2. CASE d # b
    <3>1. Saved(d) = last[d]
      BY <1>1, <1>2, <2>2 DEF ProgressLast
    <3>2. QED
      BY <1>1, <2>2, <3>1 DEF Saved
  <2>3. QED
    BY <2>1, <2>2
<1>3. QED
  BY <1>2 DEF ProgressLast

LEMMA NextProgress == BaseInv /\ ProgressLast /\ [Next]_vars => ProgressLast'
<1> SUFFICES ASSUME BaseInv, ProgressLast, [Next]_vars PROVE ProgressLast'
  OBVIOUS
<1>0. Typed
  BY DEF BaseInv
<1>1. CASE UpdateLastReadPage
  <2> DEFINE r == Head(line)
  <2>1. r \in Request /\ r.type = "UPDATE"
    BY <1>0, <1>1, TailSeq DEF Typed, UpdateLastReadPage, Takes
  <2>2. r.book \in Book /\ r.page \in Page
    BY <2>1, RequestFields
  <2>3. there \in BOOLEAN /\ (there => progress[r.book] # <<>>)
    BY <1>0 DEF BaseInv, Looked, Typed
  <2>4. Put(r.book, r.page, there) \/ UNCHANGED <<progress, last, raced>>
    BY <1>1 DEF UpdateLastReadPage
  <2> HIDE DEF r
  <2>5. CASE Put(r.book, r.page, there)
    BY <1>0, <2>2, <2>3, <2>5, PutProgress
  <2>6. CASE UNCHANGED <<progress, last, raced>>
    BY <2>6 DEF ProgressLast, Saved
  <2>7. QED
    BY <2>4, <2>5, <2>6
<1>2. ASSUME NEW p \in Page, ReadElsewhere(p) PROVE ProgressLast'
  <2>1. otherJob \in Book /\ Put(otherJob, p, otherHas) /\ otherHas \in BOOLEAN
    BY <1>0, <1>2 DEF ReadElsewhere, Typed
  <2>2. otherHas => progress[otherJob] # <<>>
    BY DEF BaseInv, Looked
  <2>3. QED
    BY <1>0, <2>1, <2>2, PutProgress
<1>3. CASE UNCHANGED <<progress, last, raced>>
  BY <1>3 DEF ProgressLast, Saved
<1>4. CASE Next
  <2>1. CASE WorkStep
    BY <1>1, <1>3, <2>1 DEF WorkStep, CheckBookOwnership, AddToCart, RemoveFromCart, SaveBook,
      RemoveSavedBook, Write, GetBookPdfPath, GetLastReadPage, LookForProgress, ghosts
  <2>2. CASE OtherStep
    BY <1>2, <1>3, <2>2 DEF OtherStep, LookElsewhere, ChangeElsewhere, ghosts
  <2>3. CASE ClickStep
    BY <1>3, <2>3 DEF ClickStep, LoadDetails, LoadBook, TurnTo, ClickAdd, ClickRemove, ClickSave,
      ClickSaved, ClickButton
  <2>4. CASE HandleStep
    BY <1>3, <2>4 DEF HandleStep, HandleOwnership, HandleCart, HandleSaved, HandlePath,
      HandleLastReadPage, HandleUpdated, Take
  <2>5. CASE Lose
    BY <1>3, <2>5 DEF Lose
  <2>6. QED
    BY <1>4, <2>1, <2>2, <2>3, <2>4, <2>5, NextSteps
<1>5. CASE UNCHANGED vars
  BY <1>3, <1>5 DEF vars, ghosts
<1>6. QED
  BY <1>4, <1>5

(* The page found when a book is opened is the one written last: updating all *)
(* rows that were found, or inserting one if none was, loses no page unless   *)
(* another row was inserted between the look and the write.                   *)
THEOREM ProgressIsKept == Spec => []ProgressLast
<1>1. Init => ProgressLast
  BY DEF Init, ProgressLast
<1>2. QED
  BY <1>1, BaseHolds, NextProgress, PTL DEF Spec

-----------------------------------------------------------------------------
(***************************************************************************)
(* The document page.  While the document open has come for the book whose *)
(* page is written, and nothing is known to have gone wrong, the page      *)
(* shown and the page saved will be the same once everything on its way    *)
(* has been dealt with.                                                    *)
(***************************************************************************)

AskFor(b) == {r \in Request : r.type = "LAST" /\ r.book = b}
PageIs(p) == {m \in Response : m.type = "LAST" /\ m.page = p}
Writes(b, p) == {r \in Request : r.type = "UPDATE" /\ r.book = b /\ r.page = p}

(* The page saved for b will be asked for, behind all that may change it...   *)
Asked(l, b) == Left(l, AskFor(b), Req(ToReader))
(* ... or has been answered, p...                                             *)
Answered(l, d, p) == ~Has(l, Req(ToReader)) /\ Left(d, PageIs(p), Rsp(ToReader))
(* ... or has been shown, and the page c turned to last will be written last. *)
Quiet(l, d) == ~Has(l, Req({"PATH", "LAST"})) /\ ~Has(d, Rsp({"PATH", "LAST"}))
Turned(l, d, b, c, p) ==
  /\ Quiet(l, d)
  /\ \/ ~Has(l, Req({"UPDATE"})) /\ c = p
     \/ Left(l, Writes(b, c), Req({"UPDATE"}))
Awaited(l, d, b, c, p) == Asked(l, b) \/ Answered(l, d, p) \/ Turned(l, d, b, c, p)

SameBook == document # NoBook /\ "mixed" \notin whyReader => document = bookId
SamePage ==
  document # NoBook /\ whyReader = {} => Awaited(line, down, bookId, current, Saved(bookId))
(* The worker has not missed a row of the book. *)
NoneMissed ==
  /\ document # NoBook /\ whyReader = {} /\ Quiet(line, down)
  /\ stage = "write" /\ ~there /\ Head(line).book = bookId
  => progress[bookId] = <<>>

ReaderInv == SameBook /\ SamePage /\ NoneMissed

LEMMA ReaderKinds ==
  /\ \A T : \A r \in Request : r \in Req(T) <=> r.type \in T
  /\ \A T : \A m \in Response : m \in Rsp(T) <=> m.type \in T
  /\ \A b : \A r \in Request : r \in AskFor(b) <=> r.type = "LAST" /\ r.book = b
  /\ \A p : \A m \in Response : m \in PageIs(p) <=> m.type = "LAST" /\ m.page = p
  /\ \A b, p : \A r \in Request : r \in Writes(b, p) <=> r.type = "UPDATE" /\ r.book = b /\ r.page = p
BY DEF Req, Rsp, AskFor, PageIs, Writes

LEMMA QuietPass ==
  ASSUME NEW l \in Seq(Request), l # <<>>, NEW d \in Seq(Response),
         NEW m \in Response, m.type = Head(l).type
  PROVE Quiet(Tail(l), Append(d, m)) <=> Quiet(l, d)
<1>1. Head(l) \in Request
  BY TailSeq
<1>2. Has(l, Req({"PATH", "LAST"})) <=> Head(l) \in Req({"PATH", "LAST"}) \/ Has(Tail(l), Req({"PATH", "LAST"}))
  BY HasTail
<1>3. Has(Append(d, m), Rsp({"PATH", "LAST"})) <=> Has(d, Rsp({"PATH", "LAST"})) \/ m \in Rsp({"PATH", "LAST"})
  BY HasAppend
<1>4. Head(l) \in Req({"PATH", "LAST"}) <=> m \in Rsp({"PATH", "LAST"})
  BY <1>1, ReaderKinds
<1>5. QED
  BY <1>2, <1>3, <1>4 DEF Quiet

LEMMA QuietSend ==
  ASSUME NEW l \in Seq(Request), NEW d, NEW r \in Request
  PROVE Quiet(Append(l, r), d) <=> Quiet(l, d) /\ r.type \notin {"PATH", "LAST"}
<1>1. Has(Append(l, r), Req({"PATH", "LAST"})) <=> Has(l, Req({"PATH", "LAST"})) \/ r \in Req({"PATH", "LAST"})
  BY HasAppend
<1>2. QED
  BY <1>1, ReaderKinds DEF Quiet

LEMMA QuietTake ==
  ASSUME NEW l, NEW d \in Seq(Response), d # <<>>
  PROVE Quiet(l, d) <=> Quiet(l, Tail(d)) /\ Head(d).type \notin {"PATH", "LAST"}
<1>1. Has(d, Rsp({"PATH", "LAST"})) <=> Head(d) \in Rsp({"PATH", "LAST"}) \/ Has(Tail(d), Rsp({"PATH", "LAST"}))
  BY HasTail
<1>2. Head(d) \in Response
  BY TailSeq
<1>3. QED
  BY <1>1, <1>2, ReaderKinds DEF Quiet

(* An answer to a request of the details. *)
LEMMA AwaitedPass ==
  ASSUME NEW l \in Seq(Request), l # <<>>, NEW d \in Seq(Response),
         NEW m \in Response, m.type = Head(l).type, m.type \notin ToReader,
         NEW b, NEW c, NEW p, Awaited(l, d, b, c, p)
  PROVE Awaited(Tail(l), Append(d, m), b, c, p)
<1> DEFINE h == Head(l)
           R == Req(ToReader)
           U == Req({"UPDATE"})
<1>1. h \in Request /\ h.type \notin ToReader /\ h.type # "UPDATE"
  BY TailSeq DEF ToReader
<1>2. h \notin R /\ h \notin U /\ h \notin AskFor(b) /\ h \notin Writes(b, c)
  BY <1>1, ReaderKinds DEF ToReader
<1>3. m \notin Rsp(ToReader) /\ m \notin PageIs(p)
  BY ReaderKinds DEF ToReader
<1> HIDE DEF h
<1>4. /\ Has(l, R) <=> Has(Tail(l), R)
      /\ Has(l, U) <=> Has(Tail(l), U)
      /\ Left(l, AskFor(b), R) <=> Left(Tail(l), AskFor(b), R)
      /\ Left(l, Writes(b, c), U) <=> Left(Tail(l), Writes(b, c), U)
  BY <1>2, InTail DEF h
<1>5. Left(Append(d, m), PageIs(p), Rsp(ToReader)) <=> Left(d, PageIs(p), Rsp(ToReader))
  BY <1>3, InAppend
<1>6. Quiet(Tail(l), Append(d, m)) <=> Quiet(l, d)
  BY QuietPass
<1>7. QED
  BY <1>4, <1>5, <1>6 DEF Awaited, Asked, Answered, Turned

LEMMA AwaitedSend ==
  ASSUME NEW l \in Seq(Request), NEW d, NEW r \in Request, r.type \notin ToReader,
         NEW b, NEW c, NEW p, Awaited(l, d, b, c, p)
  PROVE Awaited(Append(l, r), d, b, c, p)
<1> DEFINE R == Req(ToReader)
           U == Req({"UPDATE"})
<1>1. r \notin R /\ r \notin U /\ r \notin AskFor(b) /\ r \notin Writes(b, c)
  BY ReaderKinds DEF ToReader
<1>2. /\ Has(Append(l, r), R) <=> Has(l, R)
      /\ Has(Append(l, r), U) <=> Has(l, U)
  BY <1>1, HasAppend
<1>3. /\ Left(Append(l, r), AskFor(b), R) <=> Left(l, AskFor(b), R)
      /\ Left(Append(l, r), Writes(b, c), U) <=> Left(l, Writes(b, c), U)
  BY <1>1, InAppend
<1>4. Quiet(Append(l, r), d) <=> Quiet(l, d)
  BY QuietSend DEF ToReader
<1>5. QED
  BY <1>2, <1>3, <1>4 DEF Awaited, Asked, Answered, Turned

LEMMA AwaitedTake ==
  ASSUME NEW l, NEW d \in Seq(Response), d # <<>>, Head(d).type # "LAST",
         NEW b, NEW c, NEW p, Awaited(l, d, b, c, p)
  PROVE Awaited(l, Tail(d), b, c, p)
<1>1. Head(d) \in Response
  BY TailSeq
<1>2. Head(d) \notin PageIs(p)
  BY <1>1, ReaderKinds
<1>3. Left(d, PageIs(p), Rsp(ToReader)) => Left(Tail(d), PageIs(p), Rsp(ToReader))
  BY <1>2, InTail
<1>4. Quiet(l, d) => Quiet(l, Tail(d))
  BY QuietTake
<1>5. QED
  BY <1>3, <1>4 DEF Awaited, Asked, Answered, Turned

(* Nothing that concerns the page changes. *)
LEMMA ReaderSame ==
  ASSUME ReaderInv, UNCHANGED <<bookId, document, current, whyReader, stage, there>>,
         bookId # NoBook => progress'[bookId] = progress[bookId],
         document # NoBook => bookId # NoBook,
         \A b, c, p : Awaited(line, down, b, c, p) => Awaited(line', down', b, c, p),
         Quiet(line', down') => Quiet(line, down),
         stage = "write" => Head(line') = Head(line)
  PROVE ReaderInv'
<1>1. document # NoBook => Saved(bookId)' = Saved(bookId)
  BY DEF Saved
<1>2. SameBook'
  BY DEF ReaderInv, SameBook
<1>3. SamePage'
  BY <1>1 DEF ReaderInv, SamePage
<1>4. NoneMissed'
  BY DEF ReaderInv, NoneMissed
<1>5. QED
  BY <1>2, <1>3, <1>4 DEF ReaderInv

(* Where a book has been answered for, nothing is left to ask or write. *)
LEMMA AwaitedNotQuiet ==
  ASSUME NEW l \in Seq(Request), NEW d \in Seq(Response), NEW b, NEW c, NEW p
  PROVE /\ Asked(l, b) => ~Quiet(l, d)
        /\ Answered(l, d, p) => ~Quiet(l, d)
<1>1. \A k \in 1..Len(l) : l[k] \in Request
  OBVIOUS
<1>2. Asked(l, b) => Has(l, Req({"PATH", "LAST"}))
  BY <1>1, ReaderKinds DEF Asked, Left, Has
<1>3. \A k \in 1..Len(d) : d[k] \in Response
  OBVIOUS
<1>4. Answered(l, d, p) => Has(d, Rsp({"PATH", "LAST"}))
  BY <1>3, ReaderKinds DEF Answered, Left, Has
<1>5. QED
  BY <1>2, <1>4 DEF Quiet

(* The handlers of the details. *)
LEMMA ReaderPassed ==
  ASSUME BaseInv, ReaderInv, NEW m, Passed(m), m.type \notin ToReader,
         UNCHANGED <<reader, whyReader, worker, progress>>
  PROVE ReaderInv'
<1>1. /\ line \in Seq(Request) /\ line # <<>> /\ down \in Seq(Response) /\ m \in Response
      /\ m.type = Head(line).type /\ line' = Tail(line) /\ down' = Append(down, m)
  BY DEF BaseInv, Typed, Passed
<1>2. \A b, c, p : Awaited(line, down, b, c, p) => Awaited(line', down', b, c, p)
  BY <1>1, AwaitedPass
<1>3. Quiet(line', down') <=> Quiet(line, down)
  BY <1>1, QuietPass
<1>4. stage # "write"
  BY <1>1 DEF BaseInv, Looked, Takes, ToReader
<1>5. document # NoBook => bookId # NoBook
  BY DEF BaseInv, Opened
<1>6. QED
  BY <1>2, <1>3, <1>4, <1>5, ReaderSame DEF reader, worker

LEMMA WorkReader ==
  ASSUME BaseInv, ReaderInv, WorkStep
  PROVE ReaderInv'
<1>0. /\ Typed /\ line \in Seq(Request) /\ down \in Seq(Response)
      /\ (line # <<>> => Head(line) \in Request)
  BY TailSeq DEF BaseInv, Typed
<1>1. CASE CheckBookOwnership
  <2>1. PICK s \in SUBSET Buttons : Answer([show |-> s])
    BY <1>1, OfferedType DEF CheckBookOwnership
  <2>2. PICK m : Passed(m)
    BY <1>0, <1>1, <2>1, AnswerShow DEF CheckBookOwnership
  <2>3. UNCHANGED <<reader, whyReader, worker, progress>>
    BY <1>1, <2>1 DEF CheckBookOwnership, Answer
  <2>4. m.type \notin ToReader
    BY <1>1, <2>2 DEF CheckBookOwnership, Takes, Passed, ToReader
  <2>5. QED
    BY <2>2, <2>3, <2>4, ReaderPassed
<1>2. ASSUME NEW t \in {"ADD", "REMOVE", "SAVE", "UNSAVE"}, NEW new, Write(t, new)
      PROVE  ReaderInv'
  <2>1. PICK ok \in BOOLEAN : Answer([ok |-> ok])
    BY <1>2 DEF Write
  <2>2. PICK m : Passed(m)
    BY <1>0, <1>2, <2>1, AnswerOk DEF Write
  <2>3. UNCHANGED <<reader, whyReader, worker, progress>>
    BY <1>2, <2>1 DEF Write, Answer, ghosts
  <2>4. m.type \notin ToReader
    BY <1>2, <2>2 DEF Write, Takes, Passed, ToReader
  <2>5. QED
    BY <2>2, <2>3, <2>4, ReaderPassed
<1>3. CASE AddToCart \/ RemoveFromCart \/ SaveBook \/ RemoveSavedBook
  BY <1>2, <1>3 DEF AddToCart, RemoveFromCart, SaveBook, RemoveSavedBook
<1> DEFINE h == Head(line)
           R == Req(ToReader)
           U == Req({"UPDATE"})
<1>4. CASE GetBookPdfPath
  <2>1. Takes("PATH")
    BY <1>4 DEF GetBookPdfPath
  <2>2. PICK ok \in BOOLEAN : Answer([ok |-> ok])
    <3>1. Head(line) \in Request /\ Head(line).book \in Book
      BY <1>0, <2>1, RequestFields DEF Takes, BaseInv, Typed
    <3>2. row[Head(line).book].bought \in BOOLEAN
      BY <3>1 DEF BaseInv, Typed, Row
    <3>3. QED
      BY <1>4, <3>2 DEF GetBookPdfPath
  <2>3. PICK m : Passed(m)
    BY <1>0, <2>1, <2>2, AnswerOk
  <2>4. UNCHANGED <<bookId, document, current, whyReader, stage, there, progress>>
    BY <1>4, <2>2 DEF GetBookPdfPath, Answer, reader, worker, ghosts
  <2>5. /\ h \in Request /\ h.type = "PATH" /\ line # <<>>
        /\ m \in Response /\ m.type = h.type /\ line' = Tail(line) /\ down' = Append(down, m)
    BY <1>0, <2>1, <2>3 DEF Takes, Passed
  <2>6. \A b : h \notin AskFor(b) /\ h \in R /\ h \in Req({"PATH", "LAST"})
    BY <2>5, ReaderKinds DEF ToReader
  <2> HIDE DEF h
  <2>7. \A b : Left(line, AskFor(b), R) => Left(line', AskFor(b), R)
    BY <1>0, <2>5, <2>6, InTail DEF h
  <2>8. Has(line, R) /\ Has(line, Req({"PATH", "LAST"}))
    BY <1>0, <2>5, <2>6, HasTail DEF h
  <2>9. \A b, c, p : Awaited(line, down, b, c, p) => Awaited(line', down', b, c, p)
    BY <2>7, <2>8 DEF Awaited, Asked, Answered, Turned, Quiet
  <2>10. Quiet(line', down') <=> Quiet(line, down)
    BY <1>0, <2>5, QuietPass DEF h
  <2>11. stage # "write"
    BY <2>5 DEF BaseInv, Looked, Takes, h
  <2>12. document # NoBook => bookId # NoBook
    BY DEF BaseInv, Opened
  <2>13. QED
    BY <2>4, <2>9, <2>10, <2>11, <2>12, ReaderSame
<1>5. CASE GetLastReadPage
  <2>1. Takes("LAST") /\ h.book \in Book
    BY <1>0, <1>5, RequestFields DEF GetLastReadPage, Takes
  <2>2. PICK p \in Page : /\ Answer([page |-> p])
                          /\ \/ p = Saved(h.book) /\ UNCHANGED whyReader
                             \/ whyReader' = whyReader \cup {"failed"}
    BY <1>0, <1>5, <2>1, SavedType, PageOne DEF GetLastReadPage
  <2>3. PICK m : Passed(m) /\ m.page = p
    BY <1>0, <2>1, <2>2, AnswerPage
  <2>4. UNCHANGED <<bookId, document, current, progress>> /\ stage' = "look"
    BY <1>5, <2>1, <2>2, IdleWorker DEF GetLastReadPage, Answer, reader, Takes
  <2>5. /\ h \in Request /\ h.type = "LAST" /\ line # <<>>
        /\ m \in Response /\ m.type = "LAST" /\ line' = Tail(line) /\ down' = Append(down, m)
    BY <1>0, <2>1, <2>3 DEF Takes, Passed
  <2>6. h \in R /\ h \in Req({"PATH", "LAST"}) /\ (h \in AskFor(bookId) => h.book = bookId)
        /\ m \in PageIs(p)
    BY <2>3, <2>5, ReaderKinds DEF ToReader
  <2> HIDE DEF h
  <2>7. SameBook'
    BY <2>2, <2>4 DEF ReaderInv, SameBook
  <2>8. NoneMissed'
    BY <2>4 DEF NoneMissed
  <2>9. ASSUME document # NoBook, whyReader = {}, whyReader' = {}
        PROVE Awaited(line', down', bookId, current, Saved(bookId))
    <3>1. Awaited(line, down, bookId, current, Saved(bookId))
      BY <2>9 DEF ReaderInv, SamePage
    <3>2. Has(line, R) /\ Has(line, Req({"PATH", "LAST"}))
      BY <1>0, <2>5, <2>6, HasTail DEF h
    <3>3. Asked(line, bookId)
      BY <3>1, <3>2 DEF Awaited, Answered, Turned, Quiet
    <3>4. (h \in AskFor(bookId) /\ ~Has(line', R)) \/ Left(line', AskFor(bookId), R)
      BY <1>0, <2>5, <3>3, InTail DEF h, Asked
    <3>5. CASE Left(line', AskFor(bookId), R)
      BY <3>5 DEF Awaited, Asked
    <3>6. CASE h \in AskFor(bookId) /\ ~Has(line', R)
      <4>1. p = Saved(bookId)
        BY <2>2, <2>6, <2>9, <3>6
      <4>2. Left(down', PageIs(p), Rsp(ToReader))
        BY <1>0, <2>5, <2>6, InAppend
      <4>3. QED
        BY <3>6, <4>1, <4>2 DEF Awaited, Answered
    <3>7. QED
      BY <3>4, <3>5, <3>6
  <2>10. whyReader' = {} => whyReader = {}
    BY <2>2
  <2>11. Saved(bookId)' = Saved(bookId)
    BY <2>4 DEF Saved
  <2>12. SamePage'
    BY <2>4, <2>9, <2>10, <2>11 DEF SamePage
  <2>13. QED
    BY <2>7, <2>8, <2>12 DEF ReaderInv
<1>6. CASE LookForProgress
  <2>1. UNCHANGED <<progress, line, down, bookId, document, current, whyReader>>
    BY <1>6 DEF LookForProgress, reader, ghosts
  <2>2. there' = (progress[Head(line).book] # <<>>)
    BY <1>6 DEF LookForProgress
  <2>3. NoneMissed'
    BY <2>1, <2>2 DEF NoneMissed
  <2>4. SameBook' /\ SamePage'
    BY <2>1 DEF ReaderInv, SameBook, SamePage, Saved
  <2>5. QED
    BY <2>3, <2>4 DEF ReaderInv
<1>7. CASE UpdateLastReadPage
  <2>1. Takes("UPDATE") /\ h \in Request /\ line # <<>> /\ h.type = "UPDATE"
    BY <1>0, <1>7 DEF UpdateLastReadPage, Takes
  <2>2. h.book \in Book /\ h.page \in Page
    BY <2>1, RequestFields
  <2>3. PICK ok \in BOOLEAN : Answer([ok |-> ok])
    BY <1>7 DEF UpdateLastReadPage
  <2>4. PICK m : Passed(m)
    BY <1>0, <2>1, <2>3, AnswerOk
  <2>5. UNCHANGED <<bookId, document, current>> /\ stage' = "look" /\ stage = "write"
    BY <1>7, <2>3 DEF UpdateLastReadPage, Answer, reader
  <2>6. \/ Put(h.book, h.page, there) /\ UNCHANGED whyReader
        \/ /\ UNCHANGED progress
           /\ whyReader' = IF h.book = bookId THEN whyReader \cup {"failed"} ELSE whyReader
    BY <1>7 DEF UpdateLastReadPage
  <2>7. m \in Response /\ m.type = "UPDATE" /\ line' = Tail(line) /\ down' = Append(down, m)
    BY <2>1, <2>4 DEF Passed
  <2>8. /\ h \in R /\ h \in U /\ \A b : h \notin AskFor(b)
        /\ (h \in Writes(bookId, current) => h.book = bookId /\ h.page = current)
    BY <2>1, ReaderKinds DEF ToReader
  <2>9. there \in BOOLEAN /\ progress \in [Book -> Seq(Page)] /\ last \in [Book -> Page] /\ raced \subseteq Book
        /\ (there => progress[h.book] # <<>>)
    BY <1>0 DEF BaseInv, Looked, Typed
  <2> HIDE DEF h
  <2>10. SameBook'
    BY <2>5, <2>6 DEF ReaderInv, SameBook
  <2>11. NoneMissed'
    BY <2>5 DEF NoneMissed
  <2>12. ASSUME document # NoBook, whyReader = {}, whyReader' = {}
         PROVE Awaited(line', down', bookId, current, Saved(bookId)')
    <3>1. Awaited(line, down, bookId, current, Saved(bookId))
      BY <2>12 DEF ReaderInv, SamePage
    <3>2. Has(line, R) /\ Has(line, U)
      BY <1>0, <2>1, <2>8, HasTail DEF h
    <3>3. Left(line, AskFor(bookId), R) => Left(line', AskFor(bookId), R)
      BY <1>0, <2>1, <2>7, <2>8, InTail DEF h
    <3>4. CASE Asked(line, bookId)
      BY <3>3, <3>4 DEF Awaited, Asked
    <3>5. CASE ~Asked(line, bookId)
      <4>1. Quiet(line, down) /\ Left(line, Writes(bookId, current), U)
        BY <3>1, <3>2, <3>5 DEF Awaited, Answered, Turned
      <4>2. Quiet(line', down')
        BY <1>0, <2>1, <2>7, <4>1, QuietPass DEF h
      <4>3. (h \in Writes(bookId, current) /\ ~Has(line', U)) \/ Left(line', Writes(bookId, current), U)
        BY <1>0, <2>1, <2>7, <4>1, InTail DEF h
      <4>4. CASE Left(line', Writes(bookId, current), U)
        BY <4>2, <4>4 DEF Awaited, Turned
      <4>5. CASE h \in Writes(bookId, current) /\ ~Has(line', U)
        <5>1. h.book = bookId /\ h.page = current
          BY <2>8, <4>5
        <5>2. Put(bookId, current, there)
          BY <2>6, <2>12, <5>1
        <5>3. there = (progress[bookId] # <<>>)
          BY <2>5, <2>9, <2>12, <4>1, <5>1 DEF ReaderInv, NoneMissed, h
        <5>4. bookId \in Book /\ current \in Page
          BY <2>2, <5>1
        <5>5. Head(progress'[bookId]) = current /\ progress'[bookId] # <<>>
          BY <2>9, <5>2, <5>3, <5>4, PutType
        <5>6. Saved(bookId)' = current
          BY <2>5, <5>5 DEF Saved
        <5>7. QED
          BY <4>2, <4>5, <5>6 DEF Awaited, Turned
      <4>6. QED
        BY <4>3, <4>4, <4>5
    <3>6. QED
      BY <3>4, <3>5
  <2>13. whyReader' = {} => whyReader = {}
    BY <2>6
  <2>14. SamePage'
    BY <2>5, <2>12, <2>13 DEF SamePage
  <2>15. QED
    BY <2>10, <2>11, <2>14 DEF ReaderInv
<1>8. QED
  BY <1>1, <1>3, <1>4, <1>5, <1>6, <1>7 DEF WorkStep

LEMMA OtherReader ==
  ASSUME BaseInv, ReaderInv, OtherStep
  PROVE ReaderInv'
<1>0. UNCHANGED <<line, down, bookId, document, current, stage, there>>
  BY DEF OtherStep, LookElsewhere, ChangeElsewhere, ReadElsewhere, reader, worker
<1>1. document # NoBook => bookId \in Book
  BY DEF BaseInv, Opened, Typed
<1>2. CASE UNCHANGED <<progress, whyReader>>
  BY <1>0, <1>1, <1>2, ReaderSame, DataAssumption
<1>3. ASSUME NEW p \in Page, ReadElsewhere(p) PROVE ReaderInv'
  <2>1. CASE otherJob = bookId
    <3>1. "elsewhere" \in whyReader' /\ whyReader \subseteq whyReader'
      BY <1>3, <2>1 DEF ReadElsewhere
    <3>2. SameBook'
      BY <1>0, <3>1 DEF ReaderInv, SameBook
    <3>3. SamePage' /\ NoneMissed'
      BY <3>1 DEF SamePage, NoneMissed
    <3>4. QED
      BY <3>2, <3>3 DEF ReaderInv
  <2>2. CASE otherJob # bookId
    <3>1. otherJob \in Book /\ otherHas \in BOOLEAN /\ Put(otherJob, p, otherHas) /\ UNCHANGED whyReader
      BY <1>3, <2>2 DEF ReadElsewhere, BaseInv, Typed
    <3>2. progress \in [Book -> Seq(Page)] /\ last \in [Book -> Page] /\ raced \subseteq Book
      BY DEF BaseInv, Typed
    <3>3. \A d \in Book \ {otherJob} : progress'[d] = progress[d]
      BY <3>1, <3>2, PutType
    <3>4. bookId # NoBook => progress'[bookId] = progress[bookId]
      BY <2>2, <3>3 DEF BaseInv, Typed
    <3>5. QED
      BY <1>0, <1>1, <3>1, <3>4, ReaderSame, DataAssumption
  <2>3. QED
    BY <2>1, <2>2
<1>4. QED
  BY <1>2, <1>3 DEF OtherStep, LookElsewhere, ChangeElsewhere, ghosts

(* A request of the details is sent, or nothing is. *)
LEMMA ReaderSent ==
  ASSUME BaseInv, ReaderInv, UNCHANGED <<reader, whyReader, worker, progress, down>>,
         \/ UNCHANGED line
         \/ \E r \in Request : r.type \notin ToReader /\ line' = Append(line, r)
  PROVE ReaderInv'
<1>1. line \in Seq(Request)
  BY DEF BaseInv, Typed
<1>2. \A b, c, p : Awaited(line, down, b, c, p) => Awaited(line', down', b, c, p)
  BY <1>1, AwaitedSend
<1>3. Quiet(line', down') => Quiet(line, down)
  BY <1>1, QuietSend
<1>4. stage = "write" => Head(line') = Head(line)
  <2>1. stage = "write" => line # <<>>
    BY DEF BaseInv, Looked, Takes
  <2>2. QED
    BY <1>1, <2>1, AppendSeq
<1>5. document # NoBook => bookId # NoBook
  BY DEF BaseInv, Opened
<1>6. QED
  BY <1>2, <1>3, <1>4, <1>5, ReaderSame DEF reader, worker

LEMMA ClickReader ==
  ASSUME BaseInv, ReaderInv, ClickStep
  PROVE ReaderInv'
<1>0. /\ Typed /\ line \in Seq(Request) /\ down \in Seq(Response)
      /\ UNCHANGED <<down, progress, stage, there>>
  BY DEF BaseInv, Typed, ClickStep, LoadDetails, LoadBook, TurnTo, ClickAdd, ClickRemove, ClickSave,
         ClickSaved, ClickButton, worker
<1>1. ASSUME NEW b \in Book, LoadDetails(b) PROVE ReaderInv'
  <2>1. UNCHANGED <<reader, whyReader, worker, progress, down>>
    BY <1>1 DEF LoadDetails
  <2>2. Ask(b) \in Request /\ Ask(b).type \notin ToReader
    BY Requests DEF Ask, Types, ToReader
  <2>3. UNCHANGED line \/ line' = Append(line, Ask(b))
    BY <1>1 DEF LoadDetails, Send, NoConnection
  <2>4. QED
    BY <2>1, <2>2, <2>3, ReaderSent
<1>2. ASSUME NEW b \in Book, LoadBook(b) PROVE ReaderInv'
  <2>1. document' = NoBook
    BY <1>2 DEF LoadBook
  <2>2. QED
    BY <2>1 DEF ReaderInv, SameBook, SamePage, NoneMissed
<1>3. ASSUME NEW p \in Page, TurnTo(p) PROVE ReaderInv'
  <2> DEFINE r == [type |-> "UPDATE", book |-> bookId, page |-> p]
             U == Req({"UPDATE"})
  <2>1. document # NoBook /\ current' = p /\ UNCHANGED <<bookId, document>>
    BY <1>3 DEF TurnTo
  <2>2. bookId \in Book
    BY <1>0, <2>1 DEF BaseInv, Opened, Typed
  <2>3. r \in Request /\ r.type = "UPDATE" /\ r.book = bookId /\ r.page = p
    BY <2>2, Requests
  <2>4. whyReader \subseteq whyReader'
    BY <1>3 DEF TurnTo
  <2>5. whyReader' = {} => line' = Append(line, r) /\ ~Pending({"PATH", "LAST"})
    BY <1>3 DEF TurnTo, Send
  <2>6. r \in Writes(bookId, p) /\ r \in U
    BY <2>3, ReaderKinds
  <2> HIDE DEF r
  <2>7. SameBook'
    BY <2>1, <2>4 DEF ReaderInv, SameBook
  <2>8. ASSUME whyReader' = {}
        PROVE /\ Quiet(line, down) /\ Quiet(line', down')
              /\ Left(line', Writes(bookId, p), U)
              /\ stage = "write" => Head(line') = Head(line)
    <3>1. Quiet(line, down)
      BY <1>0, <2>5, <2>8, PendingNow DEF Quiet
    <3>2. Quiet(line', down')
      BY <1>0, <2>3, <2>5, <2>8, <3>1, QuietSend
    <3>3. Left(line', Writes(bookId, p), U)
      <4> DEFINE M == Writes(bookId, p)
      <4>1. line' = Append(line, r) /\ r \in M
        BY <2>5, <2>6, <2>8
      <4> HIDE DEF M, U
      <4>2. Left(Append(line, r), M, U) <=> r \in M \/ (Left(line, M, U) /\ r \notin U)
        BY <1>0, <2>3, InAppend
      <4>3. Left(line', M, U)
        BY <4>1, <4>2
      <4>4. QED
        BY <4>3 DEF M
    <3>4. stage = "write" => line # <<>>
      BY DEF BaseInv, Looked, Takes
    <3>5. stage = "write" => Head(line') = Head(line)
      BY <1>0, <2>3, <2>5, <2>8, <3>4, AppendSeq
    <3>6. QED
      BY <3>1, <3>2, <3>3, <3>5
  <2>9. SamePage'
    BY <2>1, <2>8 DEF SamePage, Awaited, Turned
  <2>10. NoneMissed'
    BY <1>0, <2>1, <2>4, <2>8 DEF ReaderInv, NoneMissed
  <2>11. QED
    BY <2>7, <2>9, <2>10 DEF ReaderInv
<1>4. ASSUME NEW t \in {"ADD", "REMOVE", "SAVE", "UNSAVE"}, NEW button, ClickButton(button, t)
      PROVE  ReaderInv'
  <2> DEFINE r == [type |-> t, book |-> curBook]
  <2>1. UNCHANGED <<reader, whyReader, worker, progress, down>>
    BY <1>4 DEF ClickButton
  <2>2. curBook \in Book
    BY <1>0, <1>4 DEF ClickButton, BaseInv, Opened, Typed
  <2>3. r \in Request /\ r.type \notin ToReader
    BY <2>2, Requests DEF Types, ToReader
  <2>4. UNCHANGED line \/ line' = Append(line, r)
    BY <1>4 DEF ClickButton, Send, NoConnection
  <2> HIDE DEF r
  <2>5. QED
    BY <2>1, <2>3, <2>4, ReaderSent
<1>5. QED
  BY <1>1, <1>2, <1>3, <1>4 DEF ClickStep, ClickAdd, ClickRemove, ClickSave, ClickSaved

(* An answer for the details, or that of a page written, arrives; the details *)
(* may be asked for again.                                                    *)
LEMMA ReaderTaken ==
  ASSUME BaseInv, ReaderInv, UNCHANGED <<reader, whyReader, worker, progress>>,
         down # <<>>, down' = Tail(down), Head(down).type \notin {"PATH", "LAST"},
         \/ UNCHANGED line
         \/ \E r \in Request : r.type \notin ToReader /\ line' = Append(line, r)
  PROVE ReaderInv'
<1>1. line \in Seq(Request) /\ down \in Seq(Response)
  BY DEF BaseInv, Typed
<1>2. \A b, c, p : Awaited(line, down, b, c, p) => Awaited(line, down', b, c, p)
  BY <1>1, AwaitedTake
<1>3. \A b, c, p : Awaited(line, down', b, c, p) => Awaited(line', down', b, c, p)
  BY <1>1, AwaitedSend
<1>4. Quiet(line', down') => Quiet(line, down')
  BY <1>1, QuietSend
<1>5. Quiet(line, down') => Quiet(line, down)
  BY <1>1, QuietTake
<1>6. stage = "write" => Head(line') = Head(line)
  <2>1. stage = "write" => line # <<>>
    BY DEF BaseInv, Looked, Takes
  <2>2. QED
    BY <1>1, <2>1, AppendSeq
<1>7. document # NoBook => bookId # NoBook
  BY DEF BaseInv, Opened
<1>8. QED
  BY <1>2, <1>3, <1>4, <1>5, <1>6, <1>7, ReaderSame DEF reader, worker

LEMMA HandleReader ==
  ASSUME BaseInv, ReaderInv, HandleStep
  PROVE ReaderInv'
<1> DEFINE m == Head(down)
<1>0. /\ Typed /\ line \in Seq(Request) /\ down \in Seq(Response)
      /\ down # <<>> /\ m \in Response /\ down' = Tail(down)
      /\ UNCHANGED <<progress, worker>>
  <2>1. down # <<>> /\ Take
    BY DEF HandleStep, HandleOwnership, HandleCart, HandleSaved, HandlePath, HandleLastReadPage,
           HandleUpdated, Arrives
  <2>2. QED
    BY <2>1, TailSeq DEF BaseInv, Take, Typed
<1>1. CASE HandleOwnership \/ HandleCart \/ HandleUpdated
  <2>1. UNCHANGED <<line, reader, whyReader>> /\ m.type \notin {"PATH", "LAST"}
    BY <1>1 DEF HandleOwnership, HandleCart, HandleUpdated, Arrives
  <2>2. QED
    BY <1>0, <2>1, ReaderTaken
<1>2. CASE HandleSaved
  <2>1. UNCHANGED <<reader, whyReader>> /\ m.type \notin {"PATH", "LAST"} /\ m.type \in ToDetails
    BY <1>2 DEF HandleSaved, Arrives, ToDetails
  <2>2. UNCHANGED line \/ line' = Append(line, Ask(curBook))
    BY <1>2 DEF HandleSaved, Send
  <2>3. curBook \in Book
    BY <1>0, <2>1, PendingHead DEF BaseInv, Opened, Typed
  <2>4. Ask(curBook) \in Request /\ Ask(curBook).type \notin ToReader
    BY <2>3, Requests DEF Ask, Types, ToReader
  <2>5. QED
    BY <1>0, <2>1, <2>2, <2>4, ReaderTaken
<1>3. CASE HandlePath
  <2>1. m.type = "PATH" /\ m.type \in ToReader /\ UNCHANGED <<bookId, current>>
    BY <1>3 DEF HandlePath, Arrives, ToReader
  <2>2. bookId \in Book
    BY <1>0, <2>1, PendingHead DEF BaseInv, Opened, Typed
  <2>3. CASE m.ok /\ row[m.book].file
    <3> DEFINE r == [type |-> "LAST", book |-> bookId]
    <3>1. /\ document' = m.book /\ line' = Append(line, r)
          /\ whyReader' = IF m.book = bookId THEN whyReader \ {"mixed"} ELSE whyReader \cup {"mixed"}
      BY <1>3, <2>3 DEF HandlePath, Send
    <3>2. r \in Request /\ r.type = "LAST" /\ r.book = bookId
      BY <2>2, Requests DEF Types
    <3>3. r \in AskFor(bookId)
      BY <3>2, ReaderKinds
    <3> HIDE DEF r, m
    <3>4. SameBook'
      BY <2>1, <3>1 DEF SameBook
    <3>5. Left(line', AskFor(bookId), Req(ToReader))
      BY <1>0, <3>1, <3>2, <3>3, InAppend
    <3>6. SamePage'
      BY <2>1, <3>5 DEF SamePage, Awaited, Asked
    <3>7. ~Quiet(line', down')
      BY <1>0, <3>1, <3>2, QuietSend
    <3>8. NoneMissed'
      BY <3>7 DEF NoneMissed
    <3>9. QED
      BY <3>4, <3>6, <3>8 DEF ReaderInv
  <2>4. CASE ~m.ok
    <3>1. UNCHANGED <<line, document, whyReader>>
      BY <1>3, <2>4 DEF HandlePath
    <3>2. SameBook'
      BY <2>1, <3>1 DEF ReaderInv, SameBook
    <3>3. ASSUME document # NoBook, whyReader = {}
          PROVE /\ Awaited(line, down', bookId, current, Saved(bookId))
                /\ ~Quiet(line, down')
      <4>1. Awaited(line, down, bookId, current, Saved(bookId))
        BY <3>3 DEF ReaderInv, SamePage
      <4>2. ~Quiet(line, down)
        BY <1>0, <2>1, QuietTake
      <4>3. m \notin PageIs(Saved(bookId))
        BY <1>0, <2>1, ReaderKinds
      <4> HIDE DEF m
      <4>4. Left(down, PageIs(Saved(bookId)), Rsp(ToReader)) => Left(down', PageIs(Saved(bookId)), Rsp(ToReader))
        BY <1>0, <4>3, InTail DEF m
      <4>5. Asked(line, bookId) \/ Answered(line, down', Saved(bookId))
        BY <4>1, <4>2, <4>4 DEF Awaited, Answered, Turned
      <4>6. down' \in Seq(Response)
        BY <1>0, TailSeq
      <4>7. ~Quiet(line, down')
        BY <1>0, <4>5, <4>6, AwaitedNotQuiet
      <4>8. QED
        BY <4>5, <4>7 DEF Awaited
    <3>4. Saved(bookId)' = Saved(bookId)
      BY <1>0, <2>1 DEF Saved
    <3>5. SamePage'
      BY <2>1, <3>1, <3>3, <3>4 DEF SamePage
    <3>6. NoneMissed'
      BY <2>1, <3>1, <3>3 DEF NoneMissed
    <3>7. QED
      BY <3>2, <3>5, <3>6 DEF ReaderInv
  <2>5. CASE m.ok /\ ~row[m.book].file
    <3>1. document' = NoBook
      BY <1>3, <2>5 DEF HandlePath
    <3>2. QED
      BY <3>1 DEF ReaderInv, SameBook, SamePage, NoneMissed
  <2>6. QED
    BY <2>3, <2>4, <2>5
<1>4. CASE HandleLastReadPage
  <2>1. m.type = "LAST" /\ current' = m.page /\ UNCHANGED <<line, bookId, document, whyReader>>
    BY <1>4 DEF HandleLastReadPage, Arrives
  <2>2. SameBook'
    BY <2>1 DEF ReaderInv, SameBook
  <2>3. UNCHANGED <<stage, there>>
    BY <1>0 DEF worker
  <2>4. m \in PageIs(Saved(bookId)) => m.page = Saved(bookId)
    BY <1>0, ReaderKinds
  <2>5. down' \in Seq(Response)
    BY <1>0, TailSeq
  <2>6. ASSUME document # NoBook, whyReader = {}
        PROVE /\ Awaited(line, down', bookId, current', Saved(bookId))
              /\ Quiet(line, down') => ~Has(line, Req(ToReader))
    <3>1. Awaited(line, down, bookId, current, Saved(bookId))
      BY <2>6 DEF ReaderInv, SamePage
    <3>2. ~Quiet(line, down)
      BY <1>0, <2>1, QuietTake
    <3> HIDE DEF m
    <3>3. CASE Asked(line, bookId)
      <4>1. ~Quiet(line, down')
        BY <1>0, <2>5, <3>3, AwaitedNotQuiet
      <4>2. QED
        BY <3>3, <4>1 DEF Awaited
    <3>4. CASE ~Asked(line, bookId)
      <4>1. ~Has(line, Req(ToReader)) /\ Left(down, PageIs(Saved(bookId)), Rsp(ToReader))
        BY <3>1, <3>2, <3>4 DEF Awaited, Answered, Turned
      <4>2. \/ m \in PageIs(Saved(bookId)) /\ ~Has(down', Rsp(ToReader))
            \/ Left(down', PageIs(Saved(bookId)), Rsp(ToReader))
        BY <1>0, <4>1, InTail DEF m
      <4>3. CASE Left(down', PageIs(Saved(bookId)), Rsp(ToReader))
        BY <4>1, <4>3 DEF Awaited, Answered
      <4>4. CASE m \in PageIs(Saved(bookId)) /\ ~Has(down', Rsp(ToReader))
        <5>1. current' = Saved(bookId)
          BY <2>1, <2>4, <4>4 DEF m
        <5>2. \A k \in 1..Len(line) : line[k] \in Request
          BY <1>0
        <5>3. ~Has(line, Req({"PATH", "LAST"})) /\ ~Has(line, Req({"UPDATE"}))
          BY <4>1, <5>2, ReaderKinds DEF Has, ToReader
        <5>4. \A k \in 1..Len(down') : down'[k] \in Response
          BY <2>5
        <5>5. ~Has(down', Rsp({"PATH", "LAST"}))
          BY <4>4, <5>4, ReaderKinds DEF Has, ToReader
        <5>6. Turned(line, down', bookId, current', Saved(bookId))
          BY <5>1, <5>3, <5>5 DEF Turned, Quiet
        <5>7. QED
          BY <4>1, <5>6 DEF Awaited
      <4>5. QED
        BY <4>2, <4>3, <4>4
    <3>5. QED
      BY <3>3, <3>4
  <2>7. Saved(bookId)' = Saved(bookId)
    BY <1>0, <2>1 DEF Saved
  <2>8. SamePage'
    BY <2>1, <2>6, <2>7 DEF SamePage
  <2>9. stage = "write" => Has(line, Req(ToReader))
    <3>1. stage = "write" => line # <<>> /\ Head(line) \in Request /\ Head(line).type = "UPDATE"
      BY <1>0, TailSeq DEF BaseInv, Looked, Takes
    <3>2. stage = "write" => Head(line) \in Req(ToReader)
      BY <3>1, ReaderKinds DEF ToReader
    <3>3. QED
      BY <1>0, <3>1, <3>2, HasTail
  <2>10. NoneMissed'
    BY <2>1, <2>3, <2>6, <2>9 DEF NoneMissed
  <2>11. QED
    BY <2>2, <2>8, <2>10 DEF ReaderInv
<1>5. QED
  BY <1>1, <1>2, <1>3, <1>4 DEF HandleStep

LEMMA LoseReader ==
  ASSUME BaseInv, ReaderInv, Lose
  PROVE ReaderInv'
<1>1. /\ Typed /\ line' = <<>> /\ down' = <<>> /\ stage' = "look"
      /\ UNCHANGED <<progress, bookId, document, current>>
      /\ whyReader' = IF Pending(ToReader) THEN whyReader \cup {"lost"} ELSE whyReader
  BY DEF BaseInv, Lose, reader, ToReader
<1>2. SameBook'
  BY <1>1 DEF ReaderInv, SameBook
<1>3. NoneMissed'
  BY <1>1 DEF NoneMissed
<1>4. ASSUME document # NoBook, whyReader' = {} PROVE current = Saved(bookId)
  <2>1. whyReader = {} /\ ~Pending(ToReader)
    BY <1>1, <1>4
  <2>2. ~Has(line, Req(ToReader)) /\ ~Has(down, Rsp(ToReader))
    BY <1>1, <2>1, PendingNow
  <2>3. Awaited(line, down, bookId, current, Saved(bookId))
    BY <1>4, <2>1 DEF ReaderInv, SamePage
  <2>4. line \in Seq(Request) /\ down \in Seq(Response)
    BY <1>1 DEF Typed
  <2>5. \A k \in 1..Len(line) : line[k] \in Request
    BY <2>4
  <2>6. \A k \in 1..Len(down) : down[k] \in Response
    BY <2>4
  <2>7. ~Asked(line, bookId)
    BY <2>2, <2>5, ReaderKinds DEF Asked, Left, Has, ToReader
  <2>8. ~Answered(line, down, Saved(bookId))
    BY <2>2, <2>6, ReaderKinds DEF Answered, Left, Has, ToReader
  <2>9. ~Left(line, Writes(bookId, current), Req({"UPDATE"}))
    BY <2>2, <2>5, ReaderKinds DEF Left, Has, ToReader
  <2>10. QED
    BY <2>3, <2>7, <2>8, <2>9 DEF Awaited, Turned
<1>5. Saved(bookId)' = Saved(bookId)
  BY <1>1 DEF Saved
<1>6. ASSUME NEW b, NEW c PROVE Awaited(<<>>, <<>>, b, c, c)
  BY InEmpty DEF Awaited, Turned, Quiet
<1>7. SamePage'
  BY <1>1, <1>4, <1>5, <1>6 DEF SamePage
<1>8. QED
  BY <1>2, <1>3, <1>7 DEF ReaderInv

LEMMA NextReader == BaseInv /\ ReaderInv /\ [Next]_vars => ReaderInv'
<1> SUFFICES ASSUME BaseInv, ReaderInv, [Next]_vars PROVE ReaderInv'
  OBVIOUS
<1>1. CASE UNCHANGED vars
  BY <1>1 DEF vars, worker, reader, ghosts, ReaderInv, SameBook, SamePage, NoneMissed, Saved
<1>2. QED
  BY <1>1, NextSteps, WorkReader, OtherReader, ClickReader, HandleReader, LoseReader

(* The document open is that of the book whose pages are written, and the page *)
(* shown the one saved, once everything asked for has been answered: unless    *)
(* something was lost, failed, mixed up, turned too early or written           *)
(* elsewhere since the book was opened.                                        *)
THEOREM ReaderIsRight == Spec => []ReaderRight
<1>1. Init => ReaderInv
  BY DEF Init, ReaderInv, SameBook, SamePage, NoneMissed
<1>2. BaseInv /\ ReaderInv => ReaderRight
  <2> SUFFICES ASSUME BaseInv, ReaderInv, document # NoBook, whyReader = {}, ~Pending(ToReader)
               PROVE document = bookId /\ current = Saved(bookId)
    BY DEF ReaderRight, ToReader
  <2>1. document = bookId
    BY DEF ReaderInv, SameBook
  <2>2. ~Has(line, Req(ToReader)) /\ ~Has(down, Rsp(ToReader))
    BY PendingNow DEF BaseInv
  <2>3. Awaited(line, down, bookId, current, Saved(bookId))
    BY DEF ReaderInv, SamePage
  <2>4. line \in Seq(Request) /\ down \in Seq(Response)
    BY DEF BaseInv, Typed
  <2>5. \A k \in 1..Len(line) : line[k] \in Request
    BY <2>4
  <2>6. \A k \in 1..Len(down) : down[k] \in Response
    BY <2>4
  <2>7. ~Asked(line, bookId)
    BY <2>2, <2>5, ReaderKinds DEF Asked, Left, Has, ToReader
  <2>8. ~Answered(line, down, Saved(bookId))
    BY <2>2, <2>6, ReaderKinds DEF Answered, Left, Has, ToReader
  <2>9. ~Left(line, Writes(bookId, current), Req({"UPDATE"}))
    BY <2>2, <2>5, ReaderKinds DEF Left, Has, ToReader
  <2>10. QED
    BY <2>1, <2>3, <2>7, <2>8, <2>9 DEF Awaited, Turned
<1>3. QED
  BY <1>1, <1>2, BaseHolds, NextReader, PTL DEF Spec

-----------------------------------------------------------------------------
(***************************************************************************)
(* The details.  While nothing is known to have gone wrong with the        *)
(* buttons of the book b, what is on its way will leave those that the     *)
(* server would offer now, o, of those that are shown now, s; f is that    *)
(* the book can be bought.                                                 *)
(***************************************************************************)

Carts == {"ADD", "REMOVE"}
CartDone == {m \in Response : m.type \in Carts /\ m.ok = TRUE}
AddDone == {m \in Response : m.type = "ADD" /\ m.ok = TRUE}
SaveDone == {m \in Response : m.type \in {"SAVE", "UNSAVE"} /\ m.ok = TRUE}

(* What the answer about the cart makes of the buttons; what the answers on   *)
(* their way will.                                                            *)
Apply(type, s) ==
  CASE type = "ADD" -> (s \ {"add"}) \cup {"remove"}
    [] type = "REMOVE" -> (s \ {"remove"}) \cup {"add"}
    [] OTHER -> s
Effect(d) ==
  IF ~Has(d, CartDone) THEN "none" ELSE IF Left(d, AddDone, CartDone) THEN "ADD" ELSE "REMOVE"

ForSale(b) == row[b].active /\ ~row[b].bought
OtherReq(b) == {r \in Request : r.type \in {"CHECK", "ADD", "REMOVE"} /\ r.book # b}
OtherRsp(b) == {m \in Response : m.type \in {"CHECK", "ADD", "REMOVE"} /\ m.book # b}
Trading == {m \in Response : m.type = "CHECK" /\ m.show \cap {"add", "remove"} # {}}
Wrong(type, o) == {m \in Response : m.type = "CHECK" /\ Apply(type, m.show) # o}

OnWay(l, d, types) == Has(l, Req(types)) \/ Has(d, Rsp(types))

(* What is asked about the book and its place in the cart is about this one.  *)
OwnOnly(l, d, b) == ~Has(l, OtherReq(b)) /\ ~Has(d, OtherRsp(b))
(* The book was asked about before anything was done with it.                 *)
CheckedFirst(l, d) ==
  /\ ~Follows(l, Req(Carts), Req({"CHECK"}))
  /\ ~Follows(d, Rsp(Carts), Rsp({"CHECK"}))
  /\ ~(Has(d, Rsp(Carts)) /\ Has(l, Req({"CHECK"})))
(* Only a book that can be bought has to do with the cart.                    *)
Sold(l, d, s, f) ==
  s \cap {"add", "remove"} # {} \/ OnWay(l, d, Carts) \/ Has(d, Trading) => f
(* Nothing is done with the cart without a button.                            *)
Pressed(l, d, s) == s = {} => ~OnWay(l, d, Carts)
(* What the server has answered will be right, unless it is asked again.      *)
ShowsRight(d, o) == ~Left(d, Wrong(Effect(d), o), SaveDone)
(* So will what is shown.                                                     *)
EndsRight(l, d, s, o) ==
  ~Has(d, SaveDone) =>
    IF s = {} THEN OnWay(l, d, {"CHECK"}) \/ o = {} ELSE Apply(Effect(d), s) = o

Right(l, d, b, s, o, f) ==
  /\ OwnOnly(l, d, b) /\ CheckedFirst(l, d)
  /\ Sold(l, d, s, f) /\ Pressed(l, d, s)
  /\ ShowsRight(d, o) /\ EndsRight(l, d, s, o)

ButtonsInv ==
  curBook # NoBook /\ whyDetails = {} =>
    Right(line, down, curBook, buttons, Offered(curBook), ForSale(curBook))

LEMMA DetailKinds ==
  /\ \A r \in Request : \A b :
       r \in OtherReq(b) <=> r.type \in {"CHECK", "ADD", "REMOVE"} /\ r.book # b
  /\ \A m \in Response : \A b :
       m \in OtherRsp(b) <=> m.type \in {"CHECK", "ADD", "REMOVE"} /\ m.book # b
  /\ \A m \in Response :
       /\ m \in CartDone <=> m.type \in Carts /\ m.ok = TRUE
       /\ m \in AddDone <=> m.type = "ADD" /\ m.ok = TRUE
       /\ m \in SaveDone <=> m.type \in {"SAVE", "UNSAVE"} /\ m.ok = TRUE
       /\ m \in Trading <=> m.type = "CHECK" /\ m.show \cap {"add", "remove"} # {}
  /\ \A m \in Response : \A t, o : m \in Wrong(t, o) <=> m.type = "CHECK" /\ Apply(t, m.show) # o
BY DEF OtherReq, OtherRsp, CartDone, AddDone, SaveDone, Trading, Wrong

(* Answers about the cart: the last one counts.                               *)
LEMMA Applied ==
  /\ \A t, s, o : t \in Carts => Apply(t, Apply(o, s)) = Apply(t, s)
  /\ \A s : Apply("none", s) = s
  /\ \A t, s : t \in Carts => Apply(t, s) # {}
BY DEF Apply, Carts

LEMMA AppliedBoth ==
  ASSUME NEW t, NEW s, NEW w, NEW o, Apply(t, s) = o, Apply(t, w) = o
  PROVE Apply(t, s \cup w) = o
BY DEF Apply

LEMMA LeftPart ==
  ASSUME NEW q, NEW M, NEW L, NEW N, \A k \in 1..Len(q) : q[k] \in M => q[k] \in L
  PROVE Left(q, M, N) => Left(q, L, N)
BY DEF Left

LEMMA HasPart ==
  ASSUME NEW q, NEW M, NEW L, \A k \in 1..Len(q) : q[k] \in M => q[k] \in L
  PROVE Has(q, M) => Has(q, L)
BY DEF Has

LEMMA HasParts ==
  ASSUME NEW d \in Seq(Response)
  PROVE /\ Has(d, CartDone) => Has(d, Rsp(Carts))
        /\ Has(d, Trading) => Has(d, Rsp({"CHECK"}))
        /\ Has(d, AddDone) => Has(d, CartDone)
        /\ Has(d, SaveDone) => Has(d, Rsp({"SAVE", "UNSAVE"}))
        /\ \A t, o : Left(d, Wrong(t, o), SaveDone) => Has(d, Rsp({"CHECK"}))
<1>1. \A k \in 1..Len(d) : d[k] \in Response
  OBVIOUS
<1>2. Has(d, CartDone) => Has(d, Rsp(Carts))
  BY <1>1, HasPart, DetailKinds, ReaderKinds
<1>3. Has(d, Trading) => Has(d, Rsp({"CHECK"}))
  BY <1>1, HasPart, DetailKinds, ReaderKinds
<1>4. Has(d, AddDone) => Has(d, CartDone)
  BY <1>1, HasPart, DetailKinds DEF Carts
<1>5. Has(d, SaveDone) => Has(d, Rsp({"SAVE", "UNSAVE"}))
  BY <1>1, HasPart, DetailKinds, ReaderKinds
<1>6. ASSUME NEW t, NEW o, Left(d, Wrong(t, o), SaveDone) PROVE Has(d, Rsp({"CHECK"}))
  <2>1. Has(d, Wrong(t, o))
    BY <1>6, LeftHas
  <2>2. \A k \in 1..Len(d) : d[k] \in Wrong(t, o) => d[k] \in Rsp({"CHECK"})
    BY <1>1, DetailKinds, ReaderKinds
  <2>3. QED
    BY <2>1, <2>2, HasPart
<1>7. QED
  BY <1>2, <1>3, <1>4, <1>5, <1>6

LEMMA EffectAppend ==
  ASSUME NEW d \in Seq(Response), NEW m \in Response
  PROVE Effect(Append(d, m)) = IF m \in CartDone THEN m.type ELSE Effect(d)
<1>1. Has(Append(d, m), CartDone) <=> Has(d, CartDone) \/ m \in CartDone
  BY HasAppend
<1>2. Left(Append(d, m), AddDone, CartDone) <=> m \in AddDone \/ (Left(d, AddDone, CartDone) /\ m \notin CartDone)
  BY InAppend
<1>3. m \in CartDone => m.type \in Carts /\ (m \in AddDone <=> m.type = "ADD")
  BY DetailKinds
<1>4. m \in AddDone => m \in CartDone
  BY DetailKinds DEF Carts
<1>5. QED
  BY <1>1, <1>2, <1>3, <1>4 DEF Effect, Carts

LEMMA EffectTail ==
  ASSUME NEW d \in Seq(Response), d # <<>>
  PROVE /\ Effect(Tail(d)) \in Carts => Effect(d) = Effect(Tail(d))
        /\ Effect(Tail(d)) \notin Carts =>
             Effect(d) = IF Head(d) \in CartDone THEN Head(d).type ELSE Effect(Tail(d))
        /\ Effect(Tail(d)) \notin Carts => Effect(Tail(d)) = "none"
<1>1. Has(d, CartDone) <=> Head(d) \in CartDone \/ Has(Tail(d), CartDone)
  BY HasTail
<1>2. Left(d, AddDone, CartDone)
        <=> (Head(d) \in AddDone /\ ~Has(Tail(d), CartDone)) \/ Left(Tail(d), AddDone, CartDone)
  BY InTail
<1>3. Head(d) \in Response /\ Tail(d) \in Seq(Response)
  BY TailSeq
<1>4. Head(d) \in CartDone => Head(d).type \in Carts /\ (Head(d) \in AddDone <=> Head(d).type = "ADD")
  BY <1>3, DetailKinds
<1>5. Head(d) \in AddDone => Head(d) \in CartDone
  BY <1>3, DetailKinds DEF Carts
<1>6. Left(Tail(d), AddDone, CartDone) => Has(Tail(d), CartDone)
  BY <1>3, LeftHas, HasParts
<1>7. QED
  BY <1>1, <1>2, <1>4, <1>5, <1>6 DEF Effect, Carts

LEMMA EffectNone ==
  ASSUME NEW d \in Seq(Response), ~Has(d, Rsp(Carts))
  PROVE Effect(d) = "none"
BY HasParts DEF Effect

(* What a message is for the details, kind by kind. *)
LEMMA DetailAnswer ==
  ASSUME NEW l \in Seq(Request), l # <<>>, NEW d \in Seq(Response),
         NEW m \in Response, m.type = Head(l).type, m.book = Head(l).book
  PROVE /\ \A b : OwnOnly(l, d, b) => OwnOnly(Tail(l), Append(d, m), b)
        /\ CheckedFirst(l, d) => CheckedFirst(Tail(l), Append(d, m))
        /\ \A T : OnWay(Tail(l), Append(d, m), T) <=> OnWay(l, d, T)
<1> DEFINE h == Head(l)
           C == Req({"CHECK"})
           K == Req(Carts)
           DC == Rsp({"CHECK"})
           DK == Rsp(Carts)
<1>1. h \in Request
  BY TailSeq
<1>2. /\ \A T : h \in Req(T) <=> m \in Rsp(T)
      /\ \A b : h \in OtherReq(b) <=> m \in OtherRsp(b)
  BY <1>1, ReaderKinds, DetailKinds
<1>3. ASSUME NEW T
      PROVE  /\ Has(l, Req(T)) <=> h \in Req(T) \/ Has(Tail(l), Req(T))
             /\ Has(Append(d, m), Rsp(T)) <=> Has(d, Rsp(T)) \/ m \in Rsp(T)
  BY HasTail, HasAppend
<1>4. ASSUME NEW b, OwnOnly(l, d, b) PROVE OwnOnly(Tail(l), Append(d, m), b)
  <2>1. Has(l, OtherReq(b)) <=> h \in OtherReq(b) \/ Has(Tail(l), OtherReq(b))
    BY HasTail
  <2>2. Has(Append(d, m), OtherRsp(b)) <=> Has(d, OtherRsp(b)) \/ m \in OtherRsp(b)
    BY HasAppend
  <2>3. QED
    BY <1>2, <1>4, <2>1, <2>2 DEF OwnOnly
<1>5. ASSUME CheckedFirst(l, d) PROVE CheckedFirst(Tail(l), Append(d, m))
  <2>1. h \in K <=> m \in DK
    BY <1>2
  <2>2. h \in C <=> m \in DC
    BY <1>2
  <2>3. ~(m \in DC /\ m \in DK)
    BY ReaderKinds DEF Carts
  <2>4. Has(l, C) <=> h \in C \/ Has(Tail(l), C)
    BY HasTail
  <2>5. Has(Append(d, m), DK) <=> Has(d, DK) \/ m \in DK
    BY HasAppend
  <2> HIDE DEF h, C, K, DC, DK
  <2>6. Follows(l, K, C) <=> Follows(Tail(l), K, C) \/ (h \in K /\ Has(Tail(l), C))
    BY InTail DEF h
  <2>7. Follows(Append(d, m), DK, DC) <=> Follows(d, DK, DC) \/ (Has(d, DK) /\ m \in DC)
    BY InAppend
  <2>8. ~Follows(l, K, C) /\ ~Follows(d, DK, DC) /\ ~(Has(d, DK) /\ Has(l, C))
    BY <1>5 DEF CheckedFirst, K, C, DK, DC
  <2>9. ~Follows(Tail(l), K, C) /\ ~Follows(Append(d, m), DK, DC)
        /\ ~(Has(Append(d, m), DK) /\ Has(Tail(l), C))
    BY <2>1, <2>2, <2>3, <2>4, <2>5, <2>6, <2>7, <2>8
  <2>10. QED
    BY <2>9 DEF CheckedFirst, K, C, DK, DC
<1>6. \A T : OnWay(Tail(l), Append(d, m), T) <=> OnWay(l, d, T)
  BY <1>2, <1>3 DEF OnWay
<1>7. QED
  BY <1>4, <1>5, <1>6

LEMMA AnswerEnds ==
  ASSUME NEW d \in Seq(Response), NEW m \in Response
  PROVE /\ Has(Append(d, m), SaveDone) <=> Has(d, SaveDone) \/ m \in SaveDone
        /\ Has(Append(d, m), Trading) <=> Has(d, Trading) \/ m \in Trading
        /\ \A t, o : Left(Append(d, m), Wrong(t, o), SaveDone)
                       <=> m \in Wrong(t, o) \/ (Left(d, Wrong(t, o), SaveDone) /\ m \notin SaveDone)
BY HasAppend, InAppend

(* The answer to the question about the book: what the server offers.         *)
LEMMA RightCheck ==
  ASSUME NEW l \in Seq(Request), l # <<>>, NEW d \in Seq(Response),
         NEW m \in Response, m.type = Head(l).type, m.book = Head(l).book,
         NEW b, NEW s, NEW f, m.type = "CHECK", m.show \cap {"add", "remove"} # {} => f,
         Right(l, d, b, s, m.show, f)
  PROVE Right(Tail(l), Append(d, m), b, s, m.show, f)
<1> DEFINE e == Append(d, m)
           k == Tail(l)
           o == m.show
<1>1. OwnOnly(k, e, b) /\ CheckedFirst(k, e) /\ \A T : OnWay(k, e, T) <=> OnWay(l, d, T)
  BY DetailAnswer DEF Right
<1>2. m \notin SaveDone /\ m \notin CartDone /\ m \in Rsp({"CHECK"})
  BY ReaderKinds, DetailKinds DEF Carts
<1>3. Effect(e) = Effect(d)
  BY <1>2, EffectAppend
<1>4. Has(l, Req({"CHECK"}))
  <2>1. Head(l) \in Request
    BY TailSeq
  <2>2. Head(l) \in Req({"CHECK"})
    BY <2>1, ReaderKinds
  <2>3. QED
    BY <2>2, HasTail
<1>5. ~Has(d, Rsp(Carts))
  BY <1>4 DEF Right, CheckedFirst
<1>6. Effect(d) = "none"
  BY <1>5, EffectNone
<1>7. m \notin Wrong(Effect(d), o)
  BY <1>6, DetailKinds, Applied
<1>8. ShowsRight(e, o)
  BY <1>2, <1>3, <1>7, AnswerEnds DEF Right, ShowsRight
<1>9. Sold(k, e, s, f)
  BY <1>1, AnswerEnds, DetailKinds DEF Right, Sold
<1>10. Pressed(k, e, s)
  BY <1>1 DEF Right, Pressed
<1>11. OnWay(k, e, {"CHECK"})
  <2>1. Has(l, Req({"CHECK"})) => OnWay(l, d, {"CHECK"})
    BY DEF OnWay
  <2>2. QED
    BY <1>1, <1>4, <2>1
<1>12. EndsRight(k, e, s, o)
  BY <1>2, <1>3, <1>11, AnswerEnds DEF Right, EndsRight
<1>13. QED
  BY <1>1, <1>8, <1>9, <1>10, <1>12 DEF Right

(* The answer about the cart.                                                 *)
LEMMA RightCart ==
  ASSUME NEW l \in Seq(Request), l # <<>>, NEW d \in Seq(Response),
         NEW m \in Response, m.type = Head(l).type, m.book = Head(l).book, m.type \in Carts,
         NEW b, NEW s, NEW o, NEW n, NEW f, Right(l, d, b, s, o, f),
         n = IF m.ok = TRUE THEN Apply(m.type, o) ELSE o
  PROVE Right(Tail(l), Append(d, m), b, s, n, f)
<1> DEFINE e == Append(d, m)
           k == Tail(l)
<1>1. OwnOnly(k, e, b) /\ CheckedFirst(k, e) /\ \A T : OnWay(k, e, T) <=> OnWay(l, d, T)
  BY DetailAnswer DEF Right
<1>2. m \notin SaveDone /\ m \notin Trading /\ (m \in CartDone <=> m.ok = TRUE)
      /\ \A t : m \notin Wrong(t, n)
  BY DetailKinds DEF Carts
<1>3. Effect(e) = IF m.ok = TRUE THEN m.type ELSE Effect(d)
  BY <1>2, EffectAppend
<1>4. Sold(k, e, s, f) /\ Pressed(k, e, s)
  BY <1>1, <1>2, AnswerEnds DEF Right, Sold, Pressed
<1>5. OnWay(l, d, Carts)
  <2>1. Head(l) \in Request
    BY TailSeq
  <2>2. Head(l) \in Req(Carts)
    BY <2>1, ReaderKinds
  <2>3. Has(l, Req(Carts))
    BY <2>2, HasTail
  <2>4. QED
    BY <2>3 DEF OnWay
<1>6. s # {}
  BY <1>5 DEF Right, Pressed
<1>7. ~Left(d, Wrong(Effect(d), o), SaveDone)
  BY DEF Right, ShowsRight
<1>8. ~Left(d, Wrong(Effect(e), n), SaveDone)
  <2>1. CASE m.ok = TRUE
    <3>1. Effect(e) = m.type /\ n = Apply(m.type, o)
      BY <1>3, <2>1
    <3>2. \A x \in Response : x \in Wrong(m.type, n) => x \in Wrong(Effect(d), o)
      BY <3>1, DetailKinds, Applied
    <3>3. \A i \in 1..Len(d) : d[i] \in Wrong(m.type, n) => d[i] \in Wrong(Effect(d), o)
      BY <3>2
    <3>4. Left(d, Wrong(m.type, n), SaveDone) => Left(d, Wrong(Effect(d), o), SaveDone)
      BY <3>3, LeftPart
    <3>5. QED
      BY <1>7, <3>1, <3>4
  <2>2. CASE m.ok # TRUE
    BY <1>3, <1>7, <2>2
  <2>3. QED
    BY <2>1, <2>2
<1>9. ShowsRight(e, n)
  BY <1>2, <1>8, AnswerEnds DEF ShowsRight
<1>10. EndsRight(k, e, s, n)
  <2>1. ASSUME ~Has(e, SaveDone) PROVE Apply(Effect(e), s) = n
    <3>1. Apply(Effect(d), s) = o
      BY <1>2, <1>6, <2>1, AnswerEnds DEF Right, EndsRight
    <3>2. QED
      BY <1>3, <3>1, Applied
  <2>2. QED
    BY <1>6, <2>1 DEF EndsRight
<1>11. QED
  BY <1>1, <1>4, <1>9, <1>10 DEF Right

(* The answer about the saved books, after which the server is asked again;   *)
(* and one to the document page.                                              *)
LEMMA RightPass ==
  ASSUME NEW l \in Seq(Request), l # <<>>, NEW d \in Seq(Response),
         NEW m \in Response, m.type = Head(l).type, m.book = Head(l).book,
         m.type \notin {"CHECK", "ADD", "REMOVE"},
         NEW b, NEW s, NEW o, NEW n, NEW f, Right(l, d, b, s, o, f), m \in SaveDone \/ n = o
  PROVE Right(Tail(l), Append(d, m), b, s, n, f)
<1> DEFINE e == Append(d, m)
           k == Tail(l)
<1>1. OwnOnly(k, e, b) /\ CheckedFirst(k, e) /\ \A T : OnWay(k, e, T) <=> OnWay(l, d, T)
  BY DetailAnswer DEF Right
<1>2. m \notin CartDone /\ m \notin Trading /\ \A t : m \notin Wrong(t, n)
  BY DetailKinds DEF Carts
<1>3. Effect(e) = Effect(d)
  BY <1>2, EffectAppend
<1>4. Sold(k, e, s, f) /\ Pressed(k, e, s)
  BY <1>1, <1>2, AnswerEnds DEF Right, Sold, Pressed
<1>5. ShowsRight(e, n)
  BY <1>2, <1>3, AnswerEnds DEF Right, ShowsRight
<1>6. EndsRight(k, e, s, n)
  BY <1>1, <1>3, AnswerEnds DEF Right, EndsRight
<1>7. QED
  BY <1>1, <1>4, <1>5, <1>6 DEF Right

(* A request of a button, or of the document page.                            *)
LEMMA RightSend ==
  ASSUME NEW l \in Seq(Request), NEW d \in Seq(Response), NEW r \in Request, r.type # "CHECK",
         NEW b, NEW s, NEW o, NEW f, Right(l, d, b, s, o, f),
         r.type \in Carts => r.book = b /\ s # {} /\ f
  PROVE Right(Append(l, r), d, b, s, o, f)
<1> DEFINE k == Append(l, r)
           C == Req({"CHECK"})
           K == Req(Carts)
<1>1. \A T : Has(k, Req(T)) <=> Has(l, Req(T)) \/ r \in Req(T)
  BY HasAppend
<1>2. r \notin C /\ r \notin OtherReq(b) /\ (r \in K <=> r.type \in Carts)
  BY ReaderKinds, DetailKinds DEF Carts
<1>3. OwnOnly(k, d, b)
  <2>1. Has(k, OtherReq(b)) <=> Has(l, OtherReq(b)) \/ r \in OtherReq(b)
    BY HasAppend
  <2>2. QED
    BY <1>2, <2>1 DEF Right, OwnOnly
<1>4. CheckedFirst(k, d)
  <2>1. Has(k, C) <=> Has(l, C)
    BY <1>1, <1>2
  <2> HIDE DEF C, K
  <2>2. Follows(k, K, C) <=> Follows(l, K, C) \/ (Has(l, K) /\ r \in C)
    BY InAppend
  <2>3. ~Follows(l, K, C) /\ ~(Has(d, Rsp(Carts)) /\ Has(l, C)) /\ ~Follows(d, Rsp(Carts), Rsp({"CHECK"}))
    BY DEF Right, CheckedFirst, C, K
  <2>4. ~Follows(k, K, C) /\ ~(Has(d, Rsp(Carts)) /\ Has(k, C))
    BY <1>2, <2>1, <2>2, <2>3
  <2>5. QED
    BY <2>3, <2>4 DEF CheckedFirst, C, K
<1>5. Sold(k, d, s, f) /\ Pressed(k, d, s)
  <2>1. OnWay(k, d, Carts) <=> OnWay(l, d, Carts) \/ r.type \in Carts
    BY <1>1, <1>2 DEF OnWay
  <2>2. QED
    BY <2>1 DEF Right, Sold, Pressed
<1>6. EndsRight(k, d, s, o)
  BY <1>1 DEF Right, EndsRight, OnWay
<1>7. QED
  BY <1>3, <1>4, <1>5, <1>6 DEF Right

(* The book is asked about, with no buttons and nothing that could be mixed   *)
(* up with the answer.                                                        *)
LEMMA RightAsk ==
  ASSUME NEW l \in Seq(Request), NEW d \in Seq(Response), NEW r \in Request, r.type = "CHECK",
         NEW b, r.book = b, NEW o, NEW f,
         OwnOnly(l, d, b), ~OnWay(l, d, Carts),
         Has(d, Rsp({"CHECK"})) => ShowsRight(d, o) /\ (Has(d, Trading) => f)
  PROVE Right(Append(l, r), d, b, {}, o, f)
<1> DEFINE k == Append(l, r)
           C == Req({"CHECK"})
           K == Req(Carts)
<1>1. \A T : Has(k, Req(T)) <=> Has(l, Req(T)) \/ r \in Req(T)
  BY HasAppend
<1>2. r \in C /\ r \notin OtherReq(b) /\ r \notin K
  BY ReaderKinds, DetailKinds DEF Carts
<1>3. OwnOnly(k, d, b)
  <2>1. Has(k, OtherReq(b)) <=> Has(l, OtherReq(b)) \/ r \in OtherReq(b)
    BY HasAppend
  <2>2. QED
    BY <1>2, <2>1 DEF OwnOnly
<1>4. ~OnWay(k, d, Carts) /\ ~Has(l, K) /\ ~Has(k, K) /\ ~Has(d, Rsp(Carts))
  BY <1>1, <1>2 DEF OnWay
<1>5. CheckedFirst(k, d)
  <2>1. ~Follows(k, K, C)
    BY <1>4 DEF Follows, Has
  <2>2. ~Follows(d, Rsp(Carts), Rsp({"CHECK"}))
    BY <1>4 DEF Follows, Has
  <2>3. QED
    BY <1>4, <2>1, <2>2 DEF CheckedFirst
<1>6. Has(d, Trading) => f
  BY HasParts
<1>7. Sold(k, d, {}, f) /\ Pressed(k, d, {})
  BY <1>4, <1>6 DEF Sold, Pressed
<1>8. ShowsRight(d, o)
  BY HasParts DEF ShowsRight
<1>9. EndsRight(k, d, {}, o)
  BY <1>1, <1>2 DEF EndsRight, OnWay
<1>10. QED
  BY <1>3, <1>5, <1>7, <1>8, <1>9 DEF Right

(* What changes for the book is still to be heard of.                         *)
LEMMA RightHeard ==
  ASSUME NEW l, NEW d \in Seq(Response), NEW b, NEW o, NEW f, NEW n, NEW g,
         Right(l, d, b, {}, o, f), Has(l, Req({"CHECK"})), ~Has(d, Rsp({"CHECK"}))
  PROVE Right(l, d, b, {}, n, g)
<1>1. ~OnWay(l, d, Carts)
  BY DEF Right, Pressed
<1>2. Sold(l, d, {}, g)
  BY <1>1, HasParts DEF Sold
<1>3. ShowsRight(d, n)
  BY HasParts DEF ShowsRight
<1>4. EndsRight(l, d, {}, n)
  BY DEF EndsRight, OnWay
<1>5. QED
  BY <1>2, <1>3, <1>4 DEF Right, Pressed

(* An answer is dealt with: what may be left of the claims about the others.  *)
LEMMA RightRest ==
  ASSUME NEW l, NEW d \in Seq(Response), d # <<>>, NEW b
  PROVE /\ OwnOnly(l, d, b) => OwnOnly(l, Tail(d), b)
        /\ CheckedFirst(l, d) => CheckedFirst(l, Tail(d))
        /\ \A T : Has(d, Rsp(T)) <=> Head(d).type \in T \/ Has(Tail(d), Rsp(T))
        /\ \A T : OnWay(l, Tail(d), T) => OnWay(l, d, T)
        /\ Has(d, Trading) <=> Head(d) \in Trading \/ Has(Tail(d), Trading)
        /\ Has(d, SaveDone) <=> Head(d) \in SaveDone \/ Has(Tail(d), SaveDone)
        /\ \A t, o : Left(d, Wrong(t, o), SaveDone)
                       <=> (Head(d) \in Wrong(t, o) /\ ~Has(Tail(d), SaveDone))
                             \/ Left(Tail(d), Wrong(t, o), SaveDone)
<1> DEFINE e == Tail(d)
           DC == Rsp({"CHECK"})
           DK == Rsp(Carts)
<1>1. Head(d) \in Response
  BY TailSeq
<1>2. OwnOnly(l, d, b) => OwnOnly(l, e, b)
  BY HasTail DEF OwnOnly
<1>3. \A T : Has(d, Rsp(T)) <=> Head(d).type \in T \/ Has(e, Rsp(T))
  BY <1>1, HasTail, ReaderKinds
<1>4. CheckedFirst(l, d) => CheckedFirst(l, e)
  <2>1. Follows(e, DK, DC) => Follows(d, DK, DC)
    BY InTail
  <2>2. Has(e, DK) => Has(d, DK)
    BY <1>3
  <2>3. QED
    BY <2>1, <2>2 DEF CheckedFirst
<1>5. \A T : OnWay(l, e, T) => OnWay(l, d, T)
  BY <1>3 DEF OnWay
<1>6. /\ Has(d, Trading) <=> Head(d) \in Trading \/ Has(e, Trading)
      /\ Has(d, SaveDone) <=> Head(d) \in SaveDone \/ Has(e, SaveDone)
  BY HasTail
<1>7. \A t, o : Left(d, Wrong(t, o), SaveDone)
                  <=> (Head(d) \in Wrong(t, o) /\ ~Has(e, SaveDone)) \/ Left(e, Wrong(t, o), SaveDone)
  BY InTail
<1>8. QED
  BY <1>2, <1>3, <1>4, <1>5, <1>6, <1>7

(* handleOwnership: what the answer offers is shown beside what is.           *)
LEMMA RightShow ==
  ASSUME NEW l \in Seq(Request), NEW d \in Seq(Response), d # <<>>, Head(d).type = "CHECK",
         NEW b, NEW s, NEW o, NEW f, Right(l, d, b, s, o, f)
  PROVE Right(l, Tail(d), b, s \cup Head(d).show, o, f)
<1> DEFINE e == Tail(d)
           m == Head(d)
           t == s \cup m.show
<1>1. m \in Response /\ e \in Seq(Response)
  BY TailSeq
<1>2. m \notin SaveDone /\ m \notin CartDone /\ (m \in Trading <=> m.show \cap {"add", "remove"} # {})
      /\ \A x, y : m \in Wrong(x, y) <=> Apply(x, m.show) # y
  BY <1>1, DetailKinds DEF Carts
<1>3. Effect(e) = Effect(d)
  BY <1>2, EffectTail
<1>4. OwnOnly(l, e, b) /\ CheckedFirst(l, e)
  BY RightRest DEF Right
<1>5. Sold(l, e, t, f)
  BY <1>2, RightRest DEF Right, Sold
<1>6. Pressed(l, e, t)
  BY RightRest DEF Right, Pressed
<1>7. ShowsRight(e, o)
  BY <1>3, RightRest DEF Right, ShowsRight
<1>8. ASSUME ~Has(e, SaveDone)
      PROVE  IF t = {} THEN o = {} ELSE Apply(Effect(e), t) = o
  <2>1. ~Has(d, SaveDone)
    BY <1>2, <1>8, RightRest
  <2>2. Apply(Effect(d), m.show) = o
    BY <1>2, <1>8, RightRest DEF Right, ShowsRight
  <2>3. CASE s = {}
    <3>1. ~Has(d, Rsp(Carts))
      BY <2>3 DEF Right, Pressed, OnWay
    <3>2. Effect(d) = "none"
      BY <3>1, EffectNone
    <3>3. m.show = o /\ t = o
      BY <2>2, <2>3, <3>2, Applied
    <3>4. Apply(Effect(e), t) = o
      BY <1>3, <3>2, <3>3, Applied
    <3>5. QED
      BY <3>3, <3>4
  <2>4. CASE s # {}
    <3>1. Apply(Effect(d), s) = o
      BY <2>1, <2>4 DEF Right, EndsRight
    <3> DEFINE i == Effect(d)
               w == m.show
    <3>2. Apply(i, w) = o /\ Apply(i, s) = o
      BY <2>2, <3>1
    <3> HIDE DEF i, w
    <3>3. Apply(i, s \cup w) = o
      BY <3>2, AppliedBoth
    <3>4. t # {}
      BY <2>4
    <3>5. QED
      BY <1>3, <3>3, <3>4 DEF i, w
  <2>5. QED
    BY <2>3, <2>4
<1>9. EndsRight(l, e, t, o)
  BY <1>8 DEF EndsRight
<1>10. QED
  BY <1>4, <1>5, <1>6, <1>7, <1>9 DEF Right

(* handleCart.                                                                *)
LEMMA RightCarted ==
  ASSUME NEW l \in Seq(Request), NEW d \in Seq(Response), d # <<>>, Head(d).type \in Carts,
         NEW b, NEW s, NEW o, NEW f, Right(l, d, b, s, o, f),
         NEW t, t = IF Head(d).ok = TRUE THEN Apply(Head(d).type, s) ELSE s
  PROVE Right(l, Tail(d), b, t, o, f)
<1> DEFINE e == Tail(d)
           m == Head(d)
<1>1. m \in Response /\ e \in Seq(Response)
  BY TailSeq
<1>2. m \notin SaveDone /\ (m \in CartDone <=> m.ok = TRUE)
  BY <1>1, DetailKinds DEF Carts
<1>3. OwnOnly(l, e, b) /\ CheckedFirst(l, e)
  BY RightRest DEF Right
<1>4. OnWay(l, d, Carts)
  BY RightRest DEF OnWay
<1>5. s # {} /\ f
  BY <1>4 DEF Right, Pressed, Sold
<1>6. t # {}
  BY <1>5, Applied
<1>7. ~Has(e, Rsp({"CHECK"}))
  <2> DEFINE DC == Rsp({"CHECK"})
             DK == Rsp(Carts)
  <2>1. m \in DK
    BY <1>1, ReaderKinds
  <2>2. ~Follows(d, DK, DC)
    BY DEF Right, CheckedFirst
  <2> HIDE DEF DC, DK, m
  <2>3. Follows(d, DK, DC) <=> Follows(e, DK, DC) \/ (m \in DK /\ Has(e, DC))
    BY InTail DEF m
  <2>4. ~Has(e, DC)
    BY <2>1, <2>2, <2>3
  <2>5. QED
    BY <2>4 DEF DC
<1>8. ShowsRight(e, o)
  BY <1>1, <1>7, HasParts DEF ShowsRight
<1>9. Sold(l, e, t, f) /\ Pressed(l, e, t)
  BY <1>5, <1>6 DEF Sold, Pressed
<1>10. EndsRight(l, e, t, o)
  <2>1. ASSUME ~Has(e, SaveDone) PROVE Apply(Effect(e), t) = o
    <3>1. Apply(Effect(d), s) = o
      BY <1>2, <1>5, <2>1, RightRest DEF Right, EndsRight
    <3>2. CASE Effect(e) \in Carts
      <4>1. Effect(d) = Effect(e)
        BY <3>2, EffectTail
      <4>2. QED
        BY <3>1, <3>2, <4>1, Applied
    <3>3. CASE Effect(e) \notin Carts
      <4>1. Effect(e) = "none" /\ Effect(d) = IF m.ok = TRUE THEN m.type ELSE "none"
        BY <1>2, <3>3, EffectTail
      <4>2. t = Apply(Effect(d), s)
        BY <4>1, Applied
      <4>3. QED
        BY <3>1, <4>1, <4>2, Applied
    <3>4. QED
      BY <3>2, <3>3
  <2>2. QED
    BY <1>6, <2>1 DEF EndsRight
<1>11. QED
  BY <1>3, <1>8, <1>9, <1>10 DEF Right

(* Another answer, that changes nothing of the details.                       *)
LEMMA RightTake ==
  ASSUME NEW l \in Seq(Request), NEW d \in Seq(Response), d # <<>>,
         Head(d).type \notin {"CHECK", "ADD", "REMOVE"}, Head(d) \notin SaveDone,
         NEW b, NEW s, NEW o, NEW f, Right(l, d, b, s, o, f)
  PROVE Right(l, Tail(d), b, s, o, f)
<1> DEFINE e == Tail(d)
           m == Head(d)
<1>1. m \in Response
  BY TailSeq
<1>2. m \notin CartDone /\ m \notin Trading
  BY <1>1, DetailKinds DEF Carts
<1>3. Effect(e) = Effect(d)
  BY <1>2, EffectTail
<1>4. OwnOnly(l, e, b) /\ CheckedFirst(l, e)
  BY RightRest DEF Right
<1>5. OnWay(l, e, Carts) <=> OnWay(l, d, Carts)
  BY RightRest DEF OnWay, Carts
<1>6. OnWay(l, e, {"CHECK"}) <=> OnWay(l, d, {"CHECK"})
  BY RightRest DEF OnWay
<1>7. Sold(l, e, s, f) /\ Pressed(l, e, s)
  BY <1>5, RightRest DEF Right, Sold, Pressed
<1>8. ShowsRight(e, o)
  BY <1>3, RightRest DEF Right, ShowsRight
<1>9. EndsRight(l, e, s, o)
  BY <1>3, <1>6, RightRest DEF Right, EndsRight
<1>10. QED
  BY <1>4, <1>7, <1>8, <1>9 DEF Right

(* The buttons of the book are for what it is offered for.                    *)
LEMMA RightNow ==
  ASSUME NEW l \in Seq(Request), NEW d \in Seq(Response), NEW b, NEW s, NEW o, NEW f,
         ~OnWay(l, d, ToDetails)
  PROVE /\ Right(l, d, b, s, o, f) => s = o
        /\ Right(l, d, b, s, o, f) \/ s = o => Right(<<>>, <<>>, b, s, o, o \cap {"add", "remove"} # {})
<1>1. \A k \in 1..Len(l) : l[k] \in Request
  OBVIOUS
<1>2. \A k \in 1..Len(d) : d[k] \in Response
  OBVIOUS
<1>3. /\ \A T : T \subseteq ToDetails => ~OnWay(l, d, T)
      /\ \A T : T \subseteq ToDetails => ~Has(d, Rsp(T))
  BY <1>1, <1>2, ReaderKinds DEF OnWay, Has
<1>4. ~Has(d, SaveDone) /\ Effect(d) = "none" /\ ~OnWay(l, d, {"CHECK"})
  BY <1>3, HasParts, EffectNone DEF ToDetails, Carts
<1>5. Right(l, d, b, s, o, f) => s = o
  BY <1>4, Applied DEF Right, EndsRight
<1>6. Right(<<>>, <<>>, b, o, o, o \cap {"add", "remove"} # {})
  <2>1. \A M, N : ~Has(<<>>, M) /\ ~Left(<<>>, M, N) /\ ~Follows(<<>>, M, N)
    BY InEmpty
  <2>2. Effect(<<>>) = "none" /\ Apply("none", o) = o
    BY <2>1, Applied DEF Effect
  <2>3. OwnOnly(<<>>, <<>>, b) /\ CheckedFirst(<<>>, <<>>)
    BY <2>1 DEF OwnOnly, CheckedFirst
  <2>4. Sold(<<>>, <<>>, o, o \cap {"add", "remove"} # {}) /\ Pressed(<<>>, <<>>, o)
    BY <2>1 DEF Sold, Pressed, OnWay
  <2>5. ShowsRight(<<>>, o) /\ EndsRight(<<>>, <<>>, o, o)
    BY <2>1, <2>2 DEF ShowsRight, EndsRight, OnWay
  <2>6. QED
    BY <2>3, <2>4, <2>5 DEF Right
<1>7. QED
  BY <1>5, <1>6

LEMMA OfferedSale ==
  ASSUME NEW b
  PROVE Offered(b) \cap {"add", "remove"} # {} <=> ForSale(b)
BY DEF Offered, ForSale

(* What putting into the cart and taking out do to the offer.                 *)
LEMMA OfferedPut ==
  ASSUME row \in [Book -> Row], NEW b \in Book, NEW new \in Row, row' = [row EXCEPT ![b] = new]
  PROVE /\ new = [row[b] EXCEPT !.cart = AtMostTwo(@ + 1)] /\ ForSale(b) =>
             Offered(b)' = Apply("ADD", Offered(b)) /\ ForSale(b)'
        /\ new = [row[b] EXCEPT !.cart = 0] /\ ForSale(b) =>
             Offered(b)' = Apply("REMOVE", Offered(b)) /\ ForSale(b)'
<1> DEFINE x == row[b]
<1>1. /\ x \in Row /\ x.cart \in 0..2
      /\ row'[b] = new
  BY DEF Row
<1>2. x.active \in BOOLEAN /\ x.bought \in BOOLEAN
  BY <1>1 DEF Row
<1>3. ASSUME new = [x EXCEPT !.cart = AtMostTwo(@ + 1)], ForSale(b)
      PROVE  Offered(b)' = Apply("ADD", Offered(b)) /\ ForSale(b)'
  <2>1. /\ new.cart = AtMostTwo(x.cart + 1) /\ new.saved = x.saved
        /\ new.bought = x.bought /\ new.active = x.active
    BY <1>1, <1>3 DEF Row
  <2>2. new.cart > 0
    BY <1>1, <2>1 DEF AtMostTwo
  <2>3. x.active = TRUE /\ x.bought = FALSE
    BY <1>2, <1>3 DEF ForSale
  <2>4. ForSale(b)'
    BY <1>1, <2>1, <2>3 DEF ForSale
  <2>5. Offered(b) = {IF x.cart > 0 THEN "remove" ELSE "add", IF x.saved > 0 THEN "saved" ELSE "save"}
    BY <2>3 DEF Offered
  <2>6. Offered(b)' = {"remove", IF x.saved > 0 THEN "saved" ELSE "save"}
    BY <1>1, <2>1, <2>2, <2>3 DEF Offered
  <2>7. QED
    BY <2>4, <2>5, <2>6 DEF Apply
<1>4. ASSUME new = [x EXCEPT !.cart = 0], ForSale(b)
      PROVE  Offered(b)' = Apply("REMOVE", Offered(b)) /\ ForSale(b)'
  <2>1. /\ new.cart = 0 /\ new.saved = x.saved
        /\ new.bought = x.bought /\ new.active = x.active
    BY <1>1, <1>4 DEF Row
  <2>2. x.active = TRUE /\ x.bought = FALSE
    BY <1>2, <1>4 DEF ForSale
  <2>3. ForSale(b)'
    BY <1>1, <2>1, <2>2 DEF ForSale
  <2>4. Offered(b) = {IF x.cart > 0 THEN "remove" ELSE "add", IF x.saved > 0 THEN "saved" ELSE "save"}
    BY <2>2 DEF Offered
  <2>5. Offered(b)' = {"add", IF x.saved > 0 THEN "saved" ELSE "save"}
    BY <1>1, <2>1, <2>2 DEF Offered
  <2>6. QED
    BY <2>3, <2>4, <2>5 DEF Apply
<1>5. QED
  BY <1>3, <1>4

(* Neither the book of the details nor what the server offers is touched.     *)
LEMMA ButtonsSame ==
  ASSUME BaseInv, ButtonsInv, UNCHANGED <<row, curBook, whyDetails>>,
         \A b, o, f : Right(line, down, b, buttons, o, f) => Right(line', down', b, buttons', o, f)
  PROVE ButtonsInv'
<1>1. Offered(curBook)' = Offered(curBook) /\ (ForSale(curBook)' <=> ForSale(curBook))
  BY DEF Offered, ForSale
<1>2. ASSUME curBook # NoBook, whyDetails = {}
      PROVE  Right(line', down', curBook, buttons', Offered(curBook), ForSale(curBook))
  BY <1>2 DEF ButtonsInv
<1>3. ASSUME curBook' # NoBook, whyDetails' = {}
      PROVE  Right(line', down', curBook', buttons', Offered(curBook)', ForSale(curBook)')
  <2>1. curBook # NoBook /\ whyDetails = {} /\ curBook' = curBook
    BY <1>3
  <2> DEFINE f == ForSale(curBook)
             g == ForSale(curBook)'
             o == Offered(curBook)
             p == Offered(curBook)'
  <2>2. o = p /\ (f <=> g) /\ Right(line', down', curBook, buttons', o, f)
    BY <1>1, <1>2, <2>1
  <2> HIDE DEF f, g, o, p
  <2>3. Right(line', down', curBook', buttons', p, g)
    BY <2>1, <2>2 DEF Right, Sold
  <2>4. QED
    BY <2>3 DEF g, p
<1>4. QED
  BY <1>3 DEF ButtonsInv

(* An answer to the document page.                                            *)
LEMMA ButtonsPassed ==
  ASSUME BaseInv, ButtonsInv, NEW m, Passed(m), m.type \in ToReader,
         UNCHANGED <<row, details, whyDetails>>
  PROVE ButtonsInv'
<1>1. /\ line \in Seq(Request) /\ line # <<>> /\ down \in Seq(Response) /\ m \in Response
      /\ m.type = Head(line).type /\ m.book = Head(line).book
      /\ m.type \notin {"CHECK", "ADD", "REMOVE"}
      /\ line' = Tail(line) /\ down' = Append(down, m)
  BY DEF BaseInv, Typed, Passed, ToReader
<1>2. \A b, o, f : Right(line, down, b, buttons, o, f) => Right(line', down', b, buttons, o, f)
  BY <1>1, RightPass
<1>3. UNCHANGED <<curBook, buttons>>
  BY DEF details
<1>4. QED
  BY <1>2, <1>3, ButtonsSame

(* What is in work about this book, and its place in the cart.                *)
LEMMA InWork ==
  ASSUME BaseInv, NEW o, NEW f, Right(line, down, curBook, buttons, o, f), line # <<>>
  PROVE /\ Head(line).type \in {"CHECK", "ADD", "REMOVE"} => Head(line).book = curBook
        /\ Head(line).type \in Carts => f
<1>1. line \in Seq(Request) /\ Head(line) \in Request
  BY TailSeq DEF BaseInv, Typed
<1>2. Head(line) \notin OtherReq(curBook)
  BY <1>1, HasTail DEF Right, OwnOnly
<1>3. Head(line).type \in Carts => OnWay(line, down, Carts)
  BY <1>1, HasTail, ReaderKinds DEF OnWay
<1>4. QED
  BY <1>1, <1>2, <1>3, DetailKinds DEF Right, Sold

LEMMA WorkButtons ==
  ASSUME BaseInv, ButtonsInv, WorkStep
  PROVE ButtonsInv'
<1>0. /\ Typed /\ line \in Seq(Request) /\ down \in Seq(Response) /\ row \in [Book -> Row]
      /\ (line # <<>> => Head(line) \in Request)
  BY TailSeq DEF BaseInv, Typed
<1> DEFINE h == Head(line)
<1>1. CASE CheckBookOwnership
  <2> SUFFICES ASSUME curBook' # NoBook, whyDetails' = {}
               PROVE  Right(line', down', curBook', buttons', Offered(curBook)', ForSale(curBook)')
    BY DEF ButtonsInv
  <2>1. Takes("CHECK") /\ UNCHANGED row
    BY <1>1 DEF CheckBookOwnership
  <2>2. Answer([show |-> Offered(h.book)]) /\ UNCHANGED whyDetails
    BY <1>1 DEF CheckBookOwnership
  <2>3. UNCHANGED <<curBook, buttons>>
    BY <2>2 DEF Answer, details
  <2>4. Right(line, down, curBook, buttons, Offered(curBook), ForSale(curBook))
    BY <2>2, <2>3 DEF ButtonsInv
  <2>5. h.type = "CHECK" /\ h.book = curBook /\ line # <<>>
    BY <2>1, <2>4, InWork DEF Takes
  <2>6. PICK m \in Response : Passed(m) /\ m.show = Offered(h.book)
    BY <1>0, <2>1, <2>2, AnswerShow, OfferedType
  <2>7. /\ m.type = "CHECK" /\ m.type = h.type /\ m.book = h.book /\ m.show = Offered(curBook)
        /\ line' = Tail(line) /\ down' = Append(down, m)
    BY <2>5, <2>6 DEF Passed
  <2>8. m.show \cap {"add", "remove"} # {} => ForSale(curBook)
    BY <2>7, OfferedSale
  <2> DEFINE f == ForSale(curBook)
             s == buttons
             b == curBook
  <2> HIDE DEF f, h
  <2>9. Right(line, down, b, s, m.show, f)
    BY <2>4, <2>7 DEF f
  <2>10. Right(Tail(line), Append(down, m), b, s, m.show, f)
    BY <1>0, <2>5, <2>7, <2>8, <2>9, RightCheck DEF f, h
  <2>11. ForSale(curBook)' <=> f
    BY <2>1, <2>3 DEF ForSale, f
  <2>12. Offered(curBook)' = m.show
    BY <2>1, <2>3, <2>7 DEF Offered
  <2> DEFINE g == ForSale(curBook)'
  <2> HIDE DEF g
  <2>13. Right(line', down', b, s, m.show, g)
    BY <2>7, <2>10, <2>11 DEF Right, Sold, g
  <2>14. QED
    BY <2>3, <2>12, <2>13 DEF g
<1>2. ASSUME NEW t \in Carts, NEW new \in Row, Write(t, new),
             \/ t = "ADD" /\ (row[h.book].active = TRUE => new = [row[h.book] EXCEPT !.cart = AtMostTwo(@ + 1)])
             \/ t = "REMOVE" /\ new = [row[h.book] EXCEPT !.cart = 0]
      PROVE  ButtonsInv'
  <2> SUFFICES ASSUME curBook' # NoBook, whyDetails' = {}
               PROVE  Right(line', down', curBook', buttons', Offered(curBook)', ForSale(curBook)')
    BY DEF ButtonsInv
  <2>1. Takes(t) /\ UNCHANGED whyDetails
    BY <1>2 DEF Write, ghosts
  <2>2. PICK ok \in BOOLEAN : /\ Answer([ok |-> ok])
                              /\ \/ ok = TRUE /\ row' = [row EXCEPT ![h.book] = new]
                                 \/ ok = FALSE /\ row' = row
    BY <1>2 DEF Write
  <2>3. UNCHANGED <<curBook, buttons>>
    BY <2>2 DEF Answer, details
  <2>4. Right(line, down, curBook, buttons, Offered(curBook), ForSale(curBook))
    BY <2>1, <2>3 DEF ButtonsInv
  <2>5. h.type = t /\ h.book = curBook /\ line # <<>> /\ ForSale(curBook)
    BY <1>2, <2>1, <2>4, InWork DEF Takes, Carts
  <2>6. t \in {"ADD", "REMOVE", "SAVE", "UNSAVE", "PATH", "UPDATE"}
    BY <1>2 DEF Carts
  <2>7. PICK m \in Response : Passed(m) /\ m.ok = ok
    BY <1>0, <2>1, <2>2, <2>6, AnswerOk
  <2>8. /\ m.type = t /\ m.type = h.type /\ m.book = h.book
        /\ line' = Tail(line) /\ down' = Append(down, m)
    BY <2>5, <2>7 DEF Passed
  <2>9. curBook \in Book
    BY <1>0, <2>5, RequestFields
  <2>10. CASE ok = TRUE
    <3>1. Offered(curBook)' = Apply(t, Offered(curBook)) /\ ForSale(curBook)'
      <4>1. row' = [row EXCEPT ![curBook] = new] /\ row[curBook].active = TRUE
        BY <1>0, <2>2, <2>5, <2>9, <2>10 DEF ForSale, Row
      <4>2. CASE t = "ADD" /\ new = [row[curBook] EXCEPT !.cart = AtMostTwo(@ + 1)]
        <5>1. PICK b \in Book : b = curBook
          BY <2>9
        <5>2. ForSale(b) /\ row' = [row EXCEPT ![b] = new]
          BY <2>5, <4>1, <5>1
        <5>3. Offered(b)' = Apply("ADD", Offered(b)) /\ ForSale(b)'
          BY <1>0, <4>1, <4>2, <5>1, <5>2, OfferedPut
        <5>4. Offered(curBook)' = Offered(b)' /\ (ForSale(curBook)' <=> ForSale(b)')
          BY <2>3, <5>1 DEF Offered, ForSale
        <5>5. QED
          BY <4>2, <5>1, <5>3, <5>4
      <4>3. CASE t = "REMOVE" /\ new = [row[curBook] EXCEPT !.cart = 0]
        <5>1. PICK b \in Book : b = curBook
          BY <2>9
        <5>2. ForSale(b) /\ row' = [row EXCEPT ![b] = new]
          BY <2>5, <4>1, <5>1
        <5>3. Offered(b)' = Apply("REMOVE", Offered(b)) /\ ForSale(b)'
          BY <1>0, <4>1, <4>3, <5>1, <5>2, OfferedPut
        <5>4. Offered(curBook)' = Offered(b)' /\ (ForSale(curBook)' <=> ForSale(b)')
          BY <2>3, <5>1 DEF Offered, ForSale
        <5>5. QED
          BY <4>3, <5>1, <5>3, <5>4
      <4>4. QED
        BY <1>2, <2>5, <4>1, <4>2, <4>3
    <3> DEFINE o == Offered(curBook)
               n == Offered(curBook)'
    <3>2. n = IF m.ok = TRUE THEN Apply(m.type, o) ELSE o
      BY <2>7, <2>8, <2>10, <3>1
    <3>3. Right(line, down, curBook, buttons, o, TRUE)
      BY <2>4, <2>5 DEF Right, Sold
    <3> HIDE DEF o, n, h
    <3>4. Right(Tail(line), Append(down, m), curBook, buttons, n, TRUE)
      BY <1>0, <1>2, <2>5, <2>8, <3>2, <3>3, RightCart DEF h
    <3>5. QED
      BY <2>3, <2>8, <3>1, <3>4 DEF Right, Sold, n
  <2>11. CASE ok = FALSE
    <3>1. row' = row
      BY <2>2, <2>11
    <3>2. Offered(curBook)' = Offered(curBook) /\ ForSale(curBook)'
      BY <2>3, <2>5, <3>1 DEF Offered, ForSale
    <3> DEFINE o == Offered(curBook)
               n == Offered(curBook)'
    <3>3. n = IF m.ok = TRUE THEN Apply(m.type, o) ELSE o
      BY <2>7, <2>11, <3>2
    <3>4. Right(line, down, curBook, buttons, o, TRUE)
      BY <2>4, <2>5 DEF Right, Sold
    <3> HIDE DEF o, n, h
    <3>5. Right(Tail(line), Append(down, m), curBook, buttons, n, TRUE)
      BY <1>0, <1>2, <2>5, <2>8, <3>3, <3>4, RightCart DEF h
    <3>6. QED
      BY <2>3, <2>8, <3>2, <3>5 DEF Right, Sold, n
  <2>12. QED
    BY <2>10, <2>11
<1>3. ASSUME NEW t \in {"SAVE", "UNSAVE"}, NEW new \in Row, Write(t, new),
             new.active = row[h.book].active, new.bought = row[h.book].bought
      PROVE  ButtonsInv'
  <2> SUFFICES ASSUME curBook' # NoBook, whyDetails' = {}
               PROVE  Right(line', down', curBook', buttons', Offered(curBook)', ForSale(curBook)')
    BY DEF ButtonsInv
  <2>1. Takes(t) /\ UNCHANGED whyDetails
    BY <1>3 DEF Write, ghosts
  <2>2. PICK ok \in BOOLEAN : /\ Answer([ok |-> ok])
                              /\ \/ ok = TRUE /\ row' = [row EXCEPT ![h.book] = new]
                                 \/ ok = FALSE /\ row' = row
    BY <1>3 DEF Write
  <2>3. UNCHANGED <<curBook, buttons>>
    BY <2>2 DEF Answer, details
  <2>4. Right(line, down, curBook, buttons, Offered(curBook), ForSale(curBook))
    BY <2>1, <2>3 DEF ButtonsInv
  <2>5. h.type = t /\ line # <<>> /\ h \in Request /\ h.book \in Book
    BY <1>0, <2>1, RequestFields DEF Takes
  <2>6. PICK m \in Response : Passed(m) /\ m.ok = ok
    BY <1>0, <2>1, <2>2, AnswerOk
  <2>7. /\ m.type = t /\ m.type = h.type /\ m.book = h.book
        /\ line' = Tail(line) /\ down' = Append(down, m)
    BY <2>5, <2>6 DEF Passed
  <2>8. curBook \in Book
    BY <1>0, <2>3 DEF Typed
  <2>9. ForSale(curBook)' <=> ForSale(curBook)
    <3>1. CASE row' = [row EXCEPT ![h.book] = new]
      <4>1. \A d \in Book : row'[d].active = row[d].active /\ row'[d].bought = row[d].bought
        BY <1>0, <1>3, <2>5, <3>1
      <4>2. QED
        BY <2>3, <2>8, <4>1 DEF ForSale
    <3>2. CASE row' = row
      BY <2>3, <3>2 DEF ForSale
    <3>3. QED
      BY <2>2, <3>1, <3>2
  <2>10. m \in SaveDone \/ Offered(curBook)' = Offered(curBook)
    <3>1. CASE ok = TRUE
      BY <1>3, <2>6, <2>7, <3>1, DetailKinds
    <3>2. CASE ok = FALSE
      BY <2>2, <2>3, <3>2 DEF Offered
    <3>3. QED
      BY <3>1, <3>2
  <2> DEFINE o == Offered(curBook)
             n == Offered(curBook)'
             f == ForSale(curBook)
             g == ForSale(curBook)'
  <2> HIDE DEF o, n, f, g, h
  <2>11. Right(line, down, curBook, buttons, o, f)
    BY <2>4 DEF o, f
  <2>12. m \in SaveDone \/ n = o
    BY <2>10 DEF n, o
  <2>13. m.type \notin {"CHECK", "ADD", "REMOVE"}
    BY <1>3, <2>7
  <2>14. Right(Tail(line), Append(down, m), curBook, buttons, n, f)
    BY <1>0, <2>5, <2>7, <2>11, <2>12, <2>13, RightPass DEF h
  <2>15. f <=> g
    BY <2>9 DEF f, g
  <2>16. Right(line', down', curBook', buttons', n, g)
    BY <2>3, <2>7, <2>14, <2>15 DEF Right, Sold
  <2>17. QED
    BY <2>16 DEF n, g
<1>4. CASE AddToCart
  <2>1. h.book \in Book
    BY <1>0, <1>4, RequestFields DEF AddToCart, Write, Takes
  <2> DEFINE new == IF row[h.book].active THEN [row[h.book] EXCEPT !.cart = AtMostTwo(@ + 1)]
                    ELSE row[h.book]
  <2>2. Write("ADD", new)
    BY <1>4 DEF AddToCart
  <2>3. new \in Row
    BY <1>0, <2>1, RowWritten
  <2>4. "ADD" \in Carts
    BY DEF Carts
  <2>5. row[h.book].active = TRUE => new = [row[h.book] EXCEPT !.cart = AtMostTwo(@ + 1)]
    OBVIOUS
  <2> HIDE DEF new, h
  <2>6. QED
    BY <1>2, <2>2, <2>3, <2>4, <2>5
<1>5. CASE RemoveFromCart
  <2>1. h.book \in Book
    BY <1>0, <1>5, RequestFields DEF RemoveFromCart, Write, Takes
  <2> DEFINE new == [row[h.book] EXCEPT !.cart = 0]
  <2>2. Write("REMOVE", new)
    BY <1>5 DEF RemoveFromCart
  <2>3. new \in Row
    BY <1>0, <2>1, RowWritten
  <2>4. "REMOVE" \in Carts
    BY DEF Carts
  <2>5. new = [row[h.book] EXCEPT !.cart = 0]
    OBVIOUS
  <2> HIDE DEF new, h
  <2>6. QED
    BY <1>2, <2>2, <2>3, <2>4, <2>5
<1>6. CASE SaveBook
  <2>1. h.book \in Book
    BY <1>0, <1>6, RequestFields DEF SaveBook, Write, Takes
  <2> DEFINE new == [row[h.book] EXCEPT !.saved = AtMostTwo(@ + 1)]
  <2>2. Write("SAVE", new)
    BY <1>6 DEF SaveBook
  <2>3. new \in Row
    BY <1>0, <2>1, RowWritten
  <2>4. new.active = row[h.book].active /\ new.bought = row[h.book].bought
    BY <1>0, <2>1 DEF Row
  <2> HIDE DEF new, h
  <2>5. QED
    BY <1>3, <2>2, <2>3, <2>4
<1>7. CASE RemoveSavedBook
  <2>1. h.book \in Book
    BY <1>0, <1>7, RequestFields DEF RemoveSavedBook, Write, Takes
  <2> DEFINE new == [row[h.book] EXCEPT !.saved = 0]
  <2>2. Write("UNSAVE", new)
    BY <1>7 DEF RemoveSavedBook
  <2>3. new \in Row
    BY <1>0, <2>1, RowWritten
  <2>4. new.active = row[h.book].active /\ new.bought = row[h.book].bought
    BY <1>0, <2>1 DEF Row
  <2> HIDE DEF new, h
  <2>5. QED
    BY <1>3, <2>2, <2>3, <2>4
<1>8. ASSUME NEW t \in ToReader, Takes(t), NEW m, Passed(m), UNCHANGED <<row, details, whyDetails>>
      PROVE  ButtonsInv'
  BY <1>8, ButtonsPassed DEF Passed, Takes
<1>9. CASE GetBookPdfPath
  <2>1. Takes("PATH") /\ h.book \in Book
    BY <1>0, <1>9, RequestFields DEF GetBookPdfPath, Takes
  <2>2. PICK ok \in BOOLEAN : Answer([ok |-> ok])
    BY <1>0, <1>9, <2>1 DEF GetBookPdfPath, Typed, Row
  <2>3. PICK m : Passed(m)
    BY <1>0, <2>1, <2>2, AnswerOk
  <2>4. UNCHANGED <<row, details, whyDetails>>
    BY <1>9, <2>2 DEF GetBookPdfPath, Answer, ghosts
  <2>5. QED
    BY <1>8, <2>1, <2>3, <2>4 DEF ToReader
<1>10. CASE GetLastReadPage
  <2>1. Takes("LAST") /\ h.book \in Book
    BY <1>0, <1>10, RequestFields DEF GetLastReadPage, Takes
  <2>2. PICK p \in Page : Answer([page |-> p])
    BY <1>0, <1>10, <2>1, SavedType, PageOne DEF GetLastReadPage
  <2>3. PICK m : Passed(m)
    BY <1>0, <2>1, <2>2, AnswerPage
  <2>4. UNCHANGED <<row, details, whyDetails>>
    BY <1>10, <2>2 DEF GetLastReadPage, Answer
  <2>5. QED
    BY <1>8, <2>1, <2>3, <2>4 DEF ToReader
<1>11. CASE LookForProgress
  BY <1>11, ButtonsSame DEF LookForProgress, details, ghosts
<1>12. CASE UpdateLastReadPage
  <2>1. Takes("UPDATE")
    BY <1>12 DEF UpdateLastReadPage
  <2>2. PICK ok \in BOOLEAN : Answer([ok |-> ok])
    BY <1>12 DEF UpdateLastReadPage
  <2>3. PICK m : Passed(m)
    BY <1>0, <2>1, <2>2, AnswerOk
  <2>4. UNCHANGED <<row, details, whyDetails>>
    BY <1>12, <2>2 DEF UpdateLastReadPage, Answer
  <2>5. QED
    BY <1>8, <2>1, <2>3, <2>4 DEF ToReader
<1>13. QED
  BY <1>1, <1>4, <1>5, <1>6, <1>7, <1>9, <1>10, <1>11, <1>12 DEF WorkStep

LEMMA OtherButtons ==
  ASSUME BaseInv, ButtonsInv, OtherStep
  PROVE ButtonsInv'
<1>0. UNCHANGED <<line, down, curBook, buttons>>
  BY DEF OtherStep, LookElsewhere, ChangeElsewhere, ReadElsewhere, details
<1>1. CASE UNCHANGED <<row, whyDetails>>
  BY <1>0, <1>1, ButtonsSame
<1>2. ASSUME NEW b \in Book, NEW new \in Row, ChangeElsewhere(b, new) PROVE ButtonsInv'
  <2>1. row' = [row EXCEPT ![b] = [new EXCEPT !.file = row[b].file]] /\ row \in [Book -> Row]
    BY <1>2 DEF ChangeElsewhere, BaseInv, Typed
  <2>2. whyDetails' = IF Unheard(b) THEN whyDetails \cup {"elsewhere"} ELSE whyDetails
    BY <1>2 DEF ChangeElsewhere
  <2>3. CASE b # curBook
    <3>1. UNCHANGED whyDetails
      BY <2>2, <2>3 DEF Unheard
    <3>2. curBook # NoBook => row'[curBook] = row[curBook]
      BY <2>1, <2>3 DEF BaseInv, Typed
    <3>3. curBook # NoBook =>
            Offered(curBook)' = Offered(curBook) /\ (ForSale(curBook)' <=> ForSale(curBook))
      BY <1>0, <3>2 DEF Offered, ForSale
    <3> DEFINE o == Offered(curBook)
               n == Offered(curBook)'
               f == ForSale(curBook)
               g == ForSale(curBook)'
    <3>4. curBook # NoBook => o = n /\ (f <=> g)
      BY <3>3
    <3>5. curBook # NoBook /\ whyDetails = {} => Right(line, down, curBook, buttons, o, f)
      BY DEF ButtonsInv
    <3> HIDE DEF o, n, f, g
    <3>6. curBook # NoBook /\ whyDetails = {} => Right(line, down, curBook, buttons, n, g)
      BY <3>4, <3>5 DEF Right, Sold
    <3>7. curBook' # NoBook /\ whyDetails' = {} => Right(line', down', curBook', buttons', n, g)
      BY <1>0, <3>1, <3>6
    <3>8. QED
      BY <3>7 DEF ButtonsInv, n, g
  <2>4. CASE b = curBook
    <3> DEFINE n == Offered(curBook)'
               g == ForSale(curBook)'
    <3> HIDE DEF n, g
    <3>1. ASSUME whyDetails' = {}, curBook # NoBook
          PROVE  Right(line, down, curBook, buttons, n, g)
      <4>1. ~Unheard(b) /\ whyDetails = {}
        BY <2>2, <3>1
      <4>2. buttons = {} /\ (\E k \in DOMAIN line : line[k].type = "CHECK")
            /\ \A k \in DOMAIN down : down[k].type # "CHECK"
        BY <2>4, <4>1 DEF Unheard
      <4>3. line \in Seq(Request) /\ down \in Seq(Response)
        BY DEF BaseInv, Typed
      <4>4. Has(line, Req({"CHECK"})) /\ ~Has(down, Rsp({"CHECK"}))
        BY <4>2, <4>3, ReaderKinds DEF Has
      <4>5. Right(line, down, curBook, {}, Offered(curBook), ForSale(curBook))
        BY <3>1, <4>1, <4>2 DEF ButtonsInv
      <4>6. QED
        BY <4>2, <4>3, <4>4, <4>5, RightHeard
    <3>2. curBook' # NoBook /\ whyDetails' = {} => Right(line', down', curBook', buttons', n, g)
      BY <1>0, <3>1
    <3>3. QED
      BY <3>2 DEF ButtonsInv, n, g
  <2>5. QED
    BY <2>3, <2>4
<1>3. CASE \E b \in Book : LookElsewhere(b)
  BY <1>1, <1>3 DEF LookElsewhere, ghosts
<1>4. CASE \E p \in Page : ReadElsewhere(p)
  BY <1>1, <1>4 DEF ReadElsewhere
<1>5. QED
  BY <1>2, <1>3, <1>4 DEF OtherStep

(* The book is asked about again: what is on its way then is about it.        *)
LEMMA AskedAgain ==
  ASSUME BaseInv, ButtonsInv, NEW b \in Book, WhyNow(b) = {},
         down' = down \/ (down # <<>> /\ Head(down).type \in {"SAVE", "UNSAVE"} /\ down' = Tail(down)),
         row' = row, line' = Append(line, Ask(b)), curBook' = b, buttons' = {}
  PROVE ButtonsInv'
<1> DEFINE r == Ask(b)
           o == Offered(b)
           f == ForSale(b)
<1>1. line \in Seq(Request) /\ down \in Seq(Response) /\ down' \in Seq(Response)
  <2>1. line \in Seq(Request) /\ down \in Seq(Response)
    BY DEF BaseInv, Typed
  <2>2. down # <<>> => Tail(down) \in Seq(Response)
    BY <2>1, TailSeq
  <2>3. QED
    BY <2>1, <2>2
<1>2. r \in Request /\ r.type = "CHECK" /\ r.book = b
  BY Requests DEF Ask, Types
<1>3. ~Pending(Carts) /\ (\A d \in Book \ {b} : ~Checked(d)) /\ (Pending({"CHECK"}) => whyDetails = {})
  BY DEF WhyNow, Mixed, Carts
<1>4. ~OnWay(line, down, Carts)
  BY <1>1, <1>3, PendingIs DEF Pending, OnWay
<1>5. /\ \A k \in 1..Len(line) : line[k] \in Request /\ line[k].book \in Book
      /\ \A k \in 1..Len(down) : down[k] \in Response /\ down[k].book \in Book
  <2>1. \A k \in 1..Len(line) : line[k] \in Request
    BY <1>1
  <2>2. \A k \in 1..Len(down) : down[k] \in Response
    BY <1>1
  <2>3. QED
    BY <2>1, <2>2, RequestFields, ResponseFields
<1>6. OwnOnly(line, down, b)
  <2>1. ASSUME NEW k \in 1..Len(line) PROVE line[k] \notin OtherReq(b)
    <3>1. line[k].type \notin Carts
      BY <1>1, <1>3 DEF Pending
    <3>2. line[k].type = "CHECK" => line[k].book = b
      BY <1>1, <1>3, <1>5 DEF Checked
    <3>3. QED
      BY <1>5, <3>1, <3>2, DetailKinds DEF Carts
  <2>2. ASSUME NEW k \in 1..Len(down) PROVE down[k] \notin OtherRsp(b)
    <3>1. down[k].type \notin Carts
      BY <1>1, <1>3 DEF Pending
    <3>2. down[k].type = "CHECK" => down[k].book = b
      BY <1>1, <1>3, <1>5 DEF Checked
    <3>3. QED
      BY <1>5, <3>1, <3>2, DetailKinds DEF Carts
  <2>3. QED
    BY <2>1, <2>2 DEF OwnOnly, Has
<1>7. ASSUME Has(down, Rsp({"CHECK"})) PROVE ShowsRight(down, o) /\ (Has(down, Trading) => f)
  <2>1. PICK k \in 1..Len(down) : down[k] \in Rsp({"CHECK"})
    BY <1>7 DEF Has
  <2>2. down[k].type = "CHECK" /\ down[k].book = b
    BY <1>1, <1>3, <1>5, <2>1, ReaderKinds DEF Checked
  <2>3. Pending({"CHECK"}) /\ Pending(ToDetails)
    BY <1>1, <2>2 DEF Pending, ToDetails
  <2>4. curBook # NoBook /\ whyDetails = {}
    BY <1>3, <2>3 DEF BaseInv, Opened
  <2>5. Right(line, down, curBook, buttons, Offered(curBook), ForSale(curBook))
    BY <2>4 DEF ButtonsInv
  <2>6. down[k] \notin OtherRsp(curBook)
    BY <2>5 DEF Right, OwnOnly, Has
  <2>7. curBook = b
    BY <1>5, <2>2, <2>6, DetailKinds
  <2>8. QED
    BY <2>5, <2>7 DEF Right, Sold
<1>8. OwnOnly(line, down', b) /\ ~OnWay(line, down', Carts)
  <2>1. CASE down # <<>> /\ down' = Tail(down)
    BY <1>1, <1>4, <1>6, <2>1, RightRest
  <2>2. QED
    BY <1>4, <1>6, <2>1
<1> HIDE DEF r, o, f
<1>9. Has(down', Rsp({"CHECK"})) => ShowsRight(down', o) /\ (Has(down', Trading) => f)
  <2>1. CASE down # <<>> /\ Head(down).type \in {"SAVE", "UNSAVE"} /\ down' = Tail(down)
    <3>1. Head(down) \in Response
      BY <1>1, <2>1, TailSeq
    <3>2. Head(down) \notin CartDone
      BY <2>1, <3>1, DetailKinds DEF Carts
    <3>3. Effect(Tail(down)) = Effect(down)
      BY <1>1, <2>1, <3>2, EffectTail
    <3>4. Has(Tail(down), Rsp({"CHECK"})) => Has(down, Rsp({"CHECK"}))
      BY <1>1, <2>1, RightRest
    <3>5. Has(Tail(down), Trading) => Has(down, Trading)
      BY <1>1, <2>1, RightRest
    <3>6. ShowsRight(down, o) => ShowsRight(Tail(down), o)
      BY <1>1, <2>1, <3>3, RightRest DEF ShowsRight
    <3>7. QED
      BY <1>7, <2>1, <3>4, <3>5, <3>6
  <2>2. QED
    BY <1>7, <2>1
<1>10. Right(Append(line, r), down', b, {}, o, f)
  <2> DEFINE d == down'
  <2>1. /\ d \in Seq(Response) /\ OwnOnly(line, d, b) /\ ~OnWay(line, d, Carts)
        /\ Has(d, Rsp({"CHECK"})) => ShowsRight(d, o) /\ (Has(d, Trading) => f)
    BY <1>1, <1>8, <1>9
  <2> HIDE DEF d
  <2>2. Right(Append(line, r), d, b, {}, o, f)
    BY <1>1, <1>2, <2>1, RightAsk
  <2>3. QED
    BY <2>2 DEF d
<1>11. Offered(curBook)' = o /\ (ForSale(curBook)' <=> f)
  BY DEF Offered, ForSale, o, f
<1> DEFINE n == Offered(curBook)'
           g == ForSale(curBook)'
<1>12. n = o /\ (g <=> f)
  BY <1>11
<1> HIDE DEF n, g
<1>13. Right(line', down', curBook', buttons', n, g)
  BY <1>10, <1>12 DEF Right, Sold, r
<1>14. QED
  BY <1>13 DEF ButtonsInv, n, g

LEMMA ClickButtons ==
  ASSUME BaseInv, ButtonsInv, ClickStep
  PROVE ButtonsInv'
<1>0. Typed /\ line \in Seq(Request) /\ down \in Seq(Response)
  BY DEF BaseInv, Typed
<1>1. ASSUME NEW b \in Book, LoadDetails(b) PROVE ButtonsInv'
  <2>1. curBook' = b /\ buttons' = {} /\ UNCHANGED <<row, down>>
    BY <1>1 DEF LoadDetails
  <2>2. CASE Send(Ask(b)) /\ whyDetails' = WhyNow(b)
    <3>1. CASE whyDetails' = {}
      BY <2>1, <2>2, <3>1, AskedAgain DEF Send
    <3>2. CASE whyDetails' # {}
      BY <3>2 DEF ButtonsInv
    <3>3. QED
      BY <3>1, <3>2
  <2>3. CASE whyDetails' = {"lost"}
    BY <2>3 DEF ButtonsInv
  <2>4. QED
    BY <1>1, <2>2, <2>3 DEF LoadDetails
<1>2. ASSUME NEW r \in Request, r.type \in ToReader, line' = Append(line, r),
             UNCHANGED <<row, down, details, whyDetails>>
      PROVE  ButtonsInv'
  <2>1. r.type # "CHECK" /\ r.type \notin Carts
    BY <1>2 DEF ToReader, Carts
  <2>2. \A b, o, f : Right(line, down, b, buttons, o, f) => Right(line', down', b, buttons', o, f)
    BY <1>0, <1>2, <2>1, RightSend DEF details
  <2>3. QED
    BY <1>2, <2>2, ButtonsSame DEF details
<1>3. ASSUME UNCHANGED <<row, line, down, details, whyDetails>> PROVE ButtonsInv'
  BY <1>3, ButtonsSame DEF details
<1>4. ASSUME NEW b \in Book, LoadBook(b) PROVE ButtonsInv'
  <2> DEFINE r == [type |-> "PATH", book |-> b]
  <2>1. r \in Request /\ r.type \in ToReader
    BY Requests DEF Types, ToReader
  <2>2. UNCHANGED <<row, down, details, whyDetails>> /\ (Send(r) \/ NoConnection)
    BY <1>4 DEF LoadBook
  <2> HIDE DEF r
  <2>3. QED
    BY <1>2, <1>3, <2>1, <2>2 DEF Send, NoConnection
<1>5. ASSUME NEW p \in Page, TurnTo(p) PROVE ButtonsInv'
  <2> DEFINE r == [type |-> "UPDATE", book |-> bookId, page |-> p]
  <2>1. bookId \in Book
    BY <1>0, <1>5 DEF TurnTo, BaseInv, Opened, Typed
  <2>2. r \in Request /\ r.type \in ToReader
    BY <2>1, Requests DEF Types, ToReader
  <2>3. UNCHANGED <<row, down, details, whyDetails>> /\ (Send(r) \/ NoConnection)
    BY <1>5 DEF TurnTo
  <2> HIDE DEF r
  <2>4. QED
    BY <1>2, <1>3, <2>2, <2>3 DEF Send, NoConnection
<1>6. ASSUME NEW t \in {"ADD", "REMOVE", "SAVE", "UNSAVE"}, NEW button, ClickButton(button, t),
             t \in Carts => button \in {"add", "remove"}
      PROVE  ButtonsInv'
  <2> DEFINE r == [type |-> t, book |-> curBook]
  <2>1. button \in buttons /\ UNCHANGED <<row, down, details, whyDetails>> /\ (Send(r) \/ NoConnection)
    BY <1>6 DEF ClickButton
  <2>2. curBook \in Book
    BY <1>0, <2>1 DEF BaseInv, Opened, Typed
  <2>3. r \in Request /\ r.type = t /\ r.book = curBook /\ r.type # "CHECK"
    BY <1>6, <2>2, Requests DEF Types
  <2> HIDE DEF r
  <2>4. CASE NoConnection
    BY <1>3, <2>1, <2>4 DEF NoConnection
  <2>5. CASE Send(r)
    <3> DEFINE o == Offered(curBook)
               f == ForSale(curBook)
               n == Offered(curBook)'
               g == ForSale(curBook)'
    <3>1. n = o /\ (g <=> f)
      BY <2>1 DEF Offered, ForSale, details
    <3>2. curBook # NoBook /\ whyDetails = {} => Right(line, down, curBook, buttons, o, f)
      BY DEF ButtonsInv
    <3> HIDE DEF o, f, n, g
    <3>3. ASSUME curBook # NoBook, whyDetails = {}
          PROVE  Right(Append(line, r), down, curBook, buttons, o, f)
      <4>1. t \in Carts => f
        BY <1>6, <2>1, <3>2, <3>3 DEF Right, Sold
      <4>2. buttons # {}
        BY <2>1
      <4>3. QED
        BY <1>0, <2>3, <3>2, <3>3, <4>1, <4>2, RightSend
    <3>4. UNCHANGED <<curBook, buttons, down, whyDetails>> /\ line' = Append(line, r)
      BY <2>1, <2>5 DEF details, Send
    <3>5. curBook' # NoBook /\ whyDetails' = {} => Right(line', down', curBook', buttons', n, g)
      BY <3>1, <3>3, <3>4 DEF Right, Sold
    <3>6. QED
      BY <3>5 DEF ButtonsInv, n, g
  <2>6. QED
    BY <2>1, <2>4, <2>5
<1>7. CASE ClickAdd \/ ClickRemove \/ ClickSave \/ ClickSaved
  BY <1>6, <1>7 DEF ClickAdd, ClickRemove, ClickSave, ClickSaved, Carts
<1>8. QED
  BY <1>1, <1>4, <1>5, <1>7 DEF ClickStep

LEMMA HandleButtons ==
  ASSUME BaseInv, ButtonsInv, HandleStep
  PROVE ButtonsInv'
<1>0. Typed /\ line \in Seq(Request) /\ down \in Seq(Response)
  BY DEF BaseInv, Typed
<1> DEFINE m == Head(down)
<1>1. down # <<>> /\ m \in Response /\ down' = Tail(down) /\ UNCHANGED row
  <2>1. down # <<>> /\ down' = Tail(down) /\ UNCHANGED row
    BY DEF HandleStep, HandleOwnership, HandleCart, HandleSaved, HandlePath, HandleLastReadPage,
           HandleUpdated, Arrives, Take
  <2>2. QED
    BY <1>0, <2>1, TailSeq
<1>2. CASE HandleOwnership
  <2>1. m.type = "CHECK" /\ buttons' = buttons \cup m.show /\ UNCHANGED <<line, curBook, whyDetails>>
    BY <1>2 DEF HandleOwnership, Arrives
  <2>2. \A b, o, f : Right(line, down, b, buttons, o, f) => Right(line', down', b, buttons', o, f)
    BY <1>0, <1>1, <2>1, RightShow
  <2>3. QED
    BY <1>1, <2>1, <2>2, ButtonsSame
<1>3. CASE HandleCart
  <2>1. m.type \in Carts /\ UNCHANGED <<line, curBook, whyDetails>>
    BY <1>3 DEF HandleCart, Arrives, Carts
  <2>2. buttons' = CASE ~m.ok -> buttons
                     [] m.ok /\ m.type = "ADD" -> (buttons \ {"add"}) \cup {"remove"}
                     [] OTHER -> (buttons \ {"remove"}) \cup {"add"}
    BY <1>1, <1>3 DEF HandleCart, Arrives
  <2>3. m.ok = TRUE \/ m.ok = FALSE
    BY <1>1, <2>1, ResponseFields DEF Carts
  <2> DEFINE t == buttons'
  <2>4. t = IF m.ok = TRUE THEN Apply(m.type, buttons) ELSE buttons
    <3>1. CASE m.ok = TRUE
      BY <2>1, <2>2, <3>1 DEF Apply, Carts
    <3>2. CASE m.ok = FALSE
      BY <2>2, <3>2
    <3>3. QED
      BY <2>3, <3>1, <3>2
  <2> HIDE DEF t, m
  <2>5. \A b, o, f : Right(line, down, b, buttons, o, f) => Right(line, Tail(down), b, t, o, f)
    BY <1>0, <1>1, <2>1, <2>4, RightCarted DEF m
  <2>6. QED
    BY <1>1, <2>1, <2>5, ButtonsSame DEF t
<1>4. ASSUME m.type \notin {"CHECK", "ADD", "REMOVE"}, m \notin SaveDone,
             UNCHANGED <<curBook, buttons, whyDetails>>,
             \/ UNCHANGED line
             \/ \E r \in Request : r.type \in ToReader /\ line' = Append(line, r)
      PROVE  ButtonsInv'
  <2>1. \A b, o, f : Right(line, down, b, buttons, o, f) => Right(line, Tail(down), b, buttons, o, f)
    BY <1>0, <1>1, <1>4, RightTake
  <2>2. CASE UNCHANGED line
    BY <1>1, <1>4, <2>1, <2>2, ButtonsSame
  <2>3. CASE \E r \in Request : r.type \in ToReader /\ line' = Append(line, r)
    <3>1. PICK r \in Request : r.type \in ToReader /\ line' = Append(line, r)
      BY <2>3
    <3>2. r.type # "CHECK" /\ r.type \notin Carts
      BY <3>1 DEF ToReader, Carts
    <3>3. Tail(down) \in Seq(Response)
      BY <1>0, <1>1, TailSeq
    <3>4. \A b, o, f : Right(line, Tail(down), b, buttons, o, f)
                         => Right(Append(line, r), Tail(down), b, buttons, o, f)
      BY <1>0, <3>2, <3>3, RightSend
    <3>5. QED
      BY <1>1, <1>4, <2>1, <3>1, <3>4, ButtonsSame
  <2>4. QED
    BY <1>4, <2>2, <2>3
<1>5. CASE HandleSaved
  <2>1. m.type \in {"SAVE", "UNSAVE"} /\ UNCHANGED curBook
    BY <1>5 DEF HandleSaved, Arrives
  <2>2. CASE m.ok
    <3>1. buttons' = {} /\ Send(Ask(curBook)) /\ whyDetails' = WhyNow(curBook)
      BY <1>1, <1>5, <2>2 DEF HandleSaved
    <3>2. Pending(ToDetails)
      BY <1>0, <1>1, <2>1 DEF Pending, ToDetails
    <3>3. curBook \in Book
      BY <1>0, <3>2 DEF BaseInv, Opened, Typed
    <3>4. CASE whyDetails' = {}
      <4>1. PICK b \in Book : b = curBook
        BY <3>3
      <4>2. WhyNow(b) = {} /\ line' = Append(line, Ask(b)) /\ curBook' = b
        BY <2>1, <3>1, <3>4, <4>1 DEF Send
      <4>3. QED
        BY <1>1, <2>1, <3>1, <4>2, AskedAgain
    <3>5. CASE whyDetails' # {}
      BY <3>5 DEF ButtonsInv
    <3>6. QED
      BY <3>4, <3>5
  <2>3. CASE ~m.ok
    <3>1. UNCHANGED <<line, buttons, whyDetails>>
      BY <1>1, <1>5, <2>3 DEF HandleSaved
    <3>2. m \notin SaveDone
      BY <1>1, <2>3, DetailKinds
    <3>3. QED
      BY <1>4, <2>1, <3>1, <3>2
  <2>4. QED
    BY <2>2, <2>3
<1>6. ASSUME m.type \in ToReader PROVE m.type \notin {"CHECK", "ADD", "REMOVE"} /\ m \notin SaveDone
  BY <1>1, <1>6, DetailKinds DEF ToReader
<1>7. CASE HandlePath
  <2> DEFINE r == [type |-> "LAST", book |-> bookId]
  <2>1. m.type = "PATH" /\ UNCHANGED <<curBook, buttons, whyDetails>> /\ (Send(r) \/ UNCHANGED line)
    BY <1>7 DEF HandlePath, Arrives, details
  <2>2. Pending(ToReader)
    BY <1>0, <1>1, <2>1 DEF Pending, ToReader
  <2>3. bookId \in Book
    BY <1>0, <2>2 DEF BaseInv, Opened, Typed
  <2>4. r \in Request /\ r.type \in ToReader
    BY <2>3, Requests DEF Types, ToReader
  <2> HIDE DEF r
  <2>5. UNCHANGED line \/ \E x \in Request : x.type \in ToReader /\ line' = Append(line, x)
    BY <2>1, <2>4 DEF Send
  <2>6. m.type \in ToReader
    BY <2>1 DEF ToReader
  <2> HIDE DEF m
  <2>7. QED
    BY <1>4, <1>6, <2>1, <2>5, <2>6
<1>8. CASE HandleLastReadPage \/ HandleUpdated
  <2>1. m.type \in ToReader /\ UNCHANGED <<line, curBook, buttons, whyDetails>>
    BY <1>8 DEF HandleLastReadPage, HandleUpdated, Arrives, details, ToReader
  <2> HIDE DEF m
  <2>2. QED
    BY <1>4, <1>6, <2>1
<1>9. QED
  BY <1>2, <1>3, <1>5, <1>7, <1>8 DEF HandleStep

LEMMA LoseButtons ==
  ASSUME BaseInv, ButtonsInv, Lose
  PROVE ButtonsInv'
<1>1. /\ line' = <<>> /\ down' = <<>> /\ UNCHANGED <<row, curBook, buttons>>
      /\ whyDetails' = IF Pending(ToDetails) THEN whyDetails \cup {"lost"} ELSE whyDetails
  BY DEF Lose, details, ToDetails
<1>2. line \in Seq(Request) /\ down \in Seq(Response) /\ (Pending(ToDetails) <=> OnWay(line, down, ToDetails))
  BY PendingNow DEF BaseInv, Typed, OnWay
<1> DEFINE o == Offered(curBook)
           f == ForSale(curBook)
           n == Offered(curBook)'
           g == ForSale(curBook)'
<1>3. n = o /\ (g <=> f) /\ (o \cap {"add", "remove"} # {} <=> f)
  BY <1>1, OfferedSale DEF Offered, ForSale
<1>4. curBook # NoBook /\ whyDetails = {} => Right(line, down, curBook, buttons, o, f)
  BY DEF ButtonsInv
<1> HIDE DEF o, f, n, g
<1>5. ASSUME curBook # NoBook, whyDetails' = {} PROVE Right(<<>>, <<>>, curBook, buttons, n, g)
  <2>1. whyDetails = {} /\ ~OnWay(line, down, ToDetails)
    BY <1>1, <1>2, <1>5
  <2>2. Right(<<>>, <<>>, curBook, buttons, o, o \cap {"add", "remove"} # {})
    BY <1>2, <1>4, <1>5, <2>1, RightNow
  <2>3. QED
    BY <1>3, <2>2 DEF Right, Sold
<1>6. curBook' # NoBook /\ whyDetails' = {} => Right(line', down', curBook', buttons', n, g)
  BY <1>1, <1>5
<1>7. QED
  BY <1>6 DEF ButtonsInv, n, g

LEMMA NextButtons == BaseInv /\ ButtonsInv /\ [Next]_vars => ButtonsInv'
<1> SUFFICES ASSUME BaseInv, ButtonsInv, [Next]_vars PROVE ButtonsInv'
  OBVIOUS
<1>1. CASE UNCHANGED vars
  BY <1>1, ButtonsSame DEF vars, details, ghosts
<1>2. QED
  BY <1>1, NextSteps, WorkButtons, OtherButtons, ClickButtons, HandleButtons, LoseButtons

LEMMA ButtonsHold == Spec => []ButtonsInv
<1>1. Init => ButtonsInv
  BY DEF Init, ButtonsInv
<1>2. QED
  BY <1>1, BaseHolds, NextButtons, PTL DEF Spec

(* With no answer to come and nothing known to have gone wrong, the buttons   *)
(* of the details are those for what can be done with the book: each answer   *)
(* about the cart turns one button into its contrary, and what the server is  *)
(* asked is asked before anything is done with the book.                      *)
THEOREM ButtonsAreRight == Spec => []ButtonsRight
<1>1. BaseInv /\ ButtonsInv => ButtonsRight
  <2> SUFFICES ASSUME BaseInv, ButtonsInv, curBook # NoBook, ~Pending(ToDetails), whyDetails = {}
               PROVE  buttons = Offered(curBook)
    BY DEF ButtonsRight, ToDetails
  <2>1. line \in Seq(Request) /\ down \in Seq(Response) /\ ~OnWay(line, down, ToDetails)
    BY PendingNow DEF BaseInv, Typed, OnWay
  <2>2. Right(line, down, curBook, buttons, Offered(curBook), ForSale(curBook))
    BY DEF ButtonsInv
  <2>3. QED
    BY <2>1, <2>2, RightNow
<1>2. QED
  BY <1>1, BaseHolds, ButtonsHold, PTL

-----------------------------------------------------------------------------
(***************************************************************************)
(* The rows of a book in the cart and among the saved ones.  Unless a      *)
(* button was wrong, or was clicked before an answer had come, a request   *)
(* that inserts one is on its way only while there is none, and no other   *)
(* is behind it.                                                           *)
(***************************************************************************)

AddOf(b) == {r \in Request : r.type = "ADD" /\ r.book = b}
SaveOf(b) == {r \in Request : r.type = "SAVE" /\ r.book = b}
PutOf(b) == {r \in Request : r.type \in {"ADD", "SAVE"} /\ r.book = b}

Once(l, b, x) ==
  /\ x.cart \leq 1 /\ x.saved \leq 1
  /\ Has(l, AddOf(b)) => x.cart = 0
  /\ Has(l, SaveOf(b)) => x.saved = 0
  /\ ~Follows(l, PutOf(b), PutOf(b))

OnceInv == \A b \in Book \ twice : Once(line, b, row[b])

LEMMA PutKinds ==
  \A r \in Request : \A b :
    /\ r \in AddOf(b) <=> r.type = "ADD" /\ r.book = b
    /\ r \in SaveOf(b) <=> r.type = "SAVE" /\ r.book = b
    /\ r \in PutOf(b) <=> r.type \in {"ADD", "SAVE"} /\ r.book = b
BY DEF AddOf, SaveOf, PutOf

LEMMA PutParts ==
  ASSUME NEW l \in Seq(Request), NEW b
  PROVE Has(l, AddOf(b)) \/ Has(l, SaveOf(b)) => Has(l, PutOf(b))
<1>1. \A k \in 1..Len(l) : l[k] \in Request
  OBVIOUS
<1>2. \A k \in 1..Len(l) : /\ l[k] \in AddOf(b) => l[k] \in PutOf(b)
                           /\ l[k] \in SaveOf(b) => l[k] \in PutOf(b)
  BY <1>1, PutKinds
<1>3. QED
  BY <1>2 DEF Has

(* Another request, or one of another book.                                   *)
LEMMA OnceSend ==
  ASSUME NEW l \in Seq(Request), NEW r \in Request, NEW b, NEW x, r \notin PutOf(b), Once(l, b, x)
  PROVE Once(Append(l, r), b, x)
<1>1. r \notin AddOf(b) /\ r \notin SaveOf(b)
  BY PutKinds
<1>2. /\ Has(Append(l, r), AddOf(b)) <=> Has(l, AddOf(b))
      /\ Has(Append(l, r), SaveOf(b)) <=> Has(l, SaveOf(b))
  BY <1>1, HasAppend
<1>3. Follows(Append(l, r), PutOf(b), PutOf(b)) <=> Follows(l, PutOf(b), PutOf(b))
  BY InAppend
<1>4. QED
  BY <1>2, <1>3 DEF Once

(* The first request to insert a row, while there is none.                    *)
LEMMA OncePut ==
  ASSUME NEW l \in Seq(Request), NEW r \in Request, NEW b, NEW x, ~Has(l, PutOf(b)), Once(l, b, x),
         r.type = "ADD" => x.cart = 0, r.type = "SAVE" => x.saved = 0
  PROVE Once(Append(l, r), b, x)
<1>1. /\ Has(Append(l, r), AddOf(b)) <=> Has(l, AddOf(b)) \/ r \in AddOf(b)
      /\ Has(Append(l, r), SaveOf(b)) <=> Has(l, SaveOf(b)) \/ r \in SaveOf(b)
  BY HasAppend
<1>2. Follows(Append(l, r), PutOf(b), PutOf(b)) <=> Follows(l, PutOf(b), PutOf(b))
  BY InAppend
<1>3. QED
  BY <1>1, <1>2, PutKinds DEF Once

(* A request has been dealt with, for better or worse.                        *)
LEMMA OncePass ==
  ASSUME NEW l \in Seq(Request), l # <<>>, NEW b, NEW x, Once(l, b, x)
  PROVE Once(Tail(l), b, x)
<1>1. /\ Has(Tail(l), AddOf(b)) => Has(l, AddOf(b))
      /\ Has(Tail(l), SaveOf(b)) => Has(l, SaveOf(b))
  BY HasTail
<1>2. Follows(Tail(l), PutOf(b), PutOf(b)) => Follows(l, PutOf(b), PutOf(b))
  BY InTail
<1>3. QED
  BY <1>1, <1>2 DEF Once

(* A row has been inserted: no request behind will insert another.            *)
LEMMA OnceDone ==
  ASSUME NEW l \in Seq(Request), l # <<>>, NEW b, Head(l) \in PutOf(b), NEW x, NEW y,
         Once(l, b, x), y.cart \leq 1, y.saved \leq 1
  PROVE Once(Tail(l), b, y)
<1>1. Tail(l) \in Seq(Request)
  BY TailSeq
<1>2. Follows(l, PutOf(b), PutOf(b))
        <=> Follows(Tail(l), PutOf(b), PutOf(b)) \/ (Head(l) \in PutOf(b) /\ Has(Tail(l), PutOf(b)))
  BY InTail
<1>3. ~Has(Tail(l), PutOf(b)) /\ ~Follows(Tail(l), PutOf(b), PutOf(b))
  BY <1>2 DEF Once
<1>4. QED
  BY <1>1, <1>3, PutParts DEF Once

(* No row is written, and no button clicked that inserts one.                 *)
LEMMA OnceSame ==
  ASSUME BaseInv, OnceInv, UNCHANGED row, twice \subseteq twice',
         \/ line' \in {line, <<>>}
         \/ line # <<>> /\ line' = Tail(line)
         \/ \E r \in Request : r.type \notin {"ADD", "SAVE"} /\ line' = Append(line, r)
  PROVE OnceInv'
<1>1. line \in Seq(Request)
  BY DEF BaseInv, Typed
<1>2. ASSUME NEW b \in Book \ twice' PROVE Once(line', b, row[b])
  <2>1. Once(line, b, row[b])
    BY <1>2 DEF OnceInv
  <2>2. CASE line' = line
    BY <2>1, <2>2
  <2>3. CASE line' = <<>>
    <3>1. Once(<<>>, b, row[b])
      BY <2>1, InEmpty DEF Once
    <3>2. QED
      BY <2>3, <3>1
  <2>4. CASE line # <<>> /\ line' = Tail(line)
    BY <1>1, <2>1, <2>4, OncePass
  <2>5. CASE \E r \in Request : r.type \notin {"ADD", "SAVE"} /\ line' = Append(line, r)
    BY <1>1, <2>1, <2>5, OnceSend, PutKinds
  <2>6. QED
    BY <2>2, <2>3, <2>4, <2>5
<1>3. QED
  BY <1>2 DEF OnceInv

LEMMA WorkOnce ==
  ASSUME BaseInv, OnceInv, WorkStep
  PROVE OnceInv'
<1>0. /\ Typed /\ line \in Seq(Request) /\ row \in [Book -> Row] /\ twice \subseteq Book
      /\ (line # <<>> => Head(line) \in Request)
  BY TailSeq DEF BaseInv, Typed
<1> DEFINE h == Head(line)
<1>1. ASSUME NEW t \in {"ADD", "REMOVE", "SAVE", "UNSAVE"}, NEW new, Write(t, new), NEW b \in Book, b = h.book,
             \/ t = "ADD" /\ new.cart \leq row[b].cart + 1 /\ new.saved = row[b].saved
             \/ t = "SAVE" /\ new.saved \leq row[b].saved + 1 /\ new.cart = row[b].cart
             \/ t = "REMOVE" /\ new.cart = 0 /\ new.saved = row[b].saved
             \/ t = "UNSAVE" /\ new.saved = 0 /\ new.cart = row[b].cart
      PROVE  OnceInv'
  <2>1. Takes(t) /\ UNCHANGED twice
    BY <1>1 DEF Write, ghosts
  <2>2. line # <<>> /\ h \in Request /\ h.type = t /\ h.book = b
    BY <1>0, <1>1, <2>1 DEF Takes
  <2>3. line' = Tail(line) /\ (UNCHANGED row \/ row' = [row EXCEPT ![b] = new])
    BY <1>1 DEF Write, Answer
  <2>4. CASE UNCHANGED row
    BY <2>1, <2>2, <2>3, <2>4, OnceSame
  <2>5. CASE row' = [row EXCEPT ![b] = new]
    <3>1. ASSUME NEW d \in Book \ twice PROVE Once(Tail(line), d, row'[d])
      <4>1. Once(line, d, row[d]) /\ Once(Tail(line), d, row[d])
        BY <1>0, <2>2, <3>1, OncePass DEF OnceInv
      <4>2. CASE d # b
        BY <1>0, <2>5, <3>1, <4>1, <4>2
      <4>3. CASE d = b
        <5>1. row'[b] = new /\ row[b].cart \in 0..2 /\ row[b].saved \in 0..2
          BY <1>0, <2>5 DEF Row
        <5>2. CASE t = "ADD"
          <6>1. h \in PutOf(b) /\ h \in AddOf(b)
            BY <2>2, <5>2, PutKinds
          <6>2. row[b].cart = 0
            BY <1>0, <2>2, <4>1, <4>3, <6>1, HasTail DEF Once
          <6>3. new.cart \leq 1 /\ new.saved \leq 1
            BY <1>1, <4>1, <4>3, <5>1, <5>2, <6>2 DEF Once
          <6> HIDE DEF h
          <6>4. Once(Tail(line), b, new)
            BY <1>0, <2>2, <4>1, <4>3, <6>1, <6>3, OnceDone DEF h
          <6>5. QED
            BY <4>3, <5>1, <6>4
        <5>3. CASE t = "SAVE"
          <6>1. h \in PutOf(b) /\ h \in SaveOf(b)
            BY <2>2, <5>3, PutKinds
          <6>2. row[b].saved = 0
            BY <1>0, <2>2, <4>1, <4>3, <6>1, HasTail DEF Once
          <6>3. new.cart \leq 1 /\ new.saved \leq 1
            BY <1>1, <4>1, <4>3, <5>1, <5>3, <6>2 DEF Once
          <6> HIDE DEF h
          <6>4. Once(Tail(line), b, new)
            BY <1>0, <2>2, <4>1, <4>3, <6>1, <6>3, OnceDone DEF h
          <6>5. QED
            BY <4>3, <5>1, <6>4
        <5>4. CASE t \in {"REMOVE", "UNSAVE"}
          BY <1>1, <4>1, <4>3, <5>1, <5>4 DEF Once
        <5>5. QED
          BY <1>1, <5>2, <5>3, <5>4
      <4>4. QED
        BY <4>2, <4>3
    <3>2. QED
      BY <2>1, <2>3, <3>1 DEF OnceInv
  <2>6. QED
    BY <2>3, <2>4, <2>5
<1>2. CASE AddToCart \/ RemoveFromCart \/ SaveBook \/ RemoveSavedBook
  <2>1. h.book \in Book
    BY <1>0, <1>2, RequestFields DEF AddToCart, RemoveFromCart, SaveBook, RemoveSavedBook, Write, Takes
  <2>2. PICK b \in Book : b = h.book
    BY <2>1
  <2> DEFINE x == row[b]
  <2>3. x \in Row /\ x.cart \in 0..2 /\ x.saved \in 0..2
    BY <1>0 DEF Row
  <2>4. \A n \in 0..2 : AtMostTwo(n + 1) \leq n + 1
    BY DEF AtMostTwo
  <2>5. CASE AddToCart
    <3> DEFINE new == IF x.active THEN [x EXCEPT !.cart = AtMostTwo(@ + 1)] ELSE x
    <3>1. Write("ADD", new)
      BY <2>2, <2>5 DEF AddToCart
    <3>2. new.cart \leq x.cart + 1 /\ new.saved = x.saved
      BY <2>3, <2>4 DEF Row
    <3> HIDE DEF new, h
    <3>3. QED
      BY <1>1, <2>2, <3>1, <3>2
  <2>6. CASE RemoveFromCart
    <3> DEFINE new == [x EXCEPT !.cart = 0]
    <3>1. Write("REMOVE", new)
      BY <2>2, <2>6 DEF RemoveFromCart
    <3>2. new.cart = 0 /\ new.saved = x.saved
      BY <2>3 DEF Row
    <3> HIDE DEF new, h
    <3>3. QED
      BY <1>1, <2>2, <3>1, <3>2
  <2>7. CASE SaveBook
    <3> DEFINE new == [x EXCEPT !.saved = AtMostTwo(@ + 1)]
    <3>1. Write("SAVE", new)
      BY <2>2, <2>7 DEF SaveBook
    <3>2. new.saved \leq x.saved + 1 /\ new.cart = x.cart
      BY <2>3, <2>4 DEF Row
    <3> HIDE DEF new, h
    <3>3. QED
      BY <1>1, <2>2, <3>1, <3>2
  <2>8. CASE RemoveSavedBook
    <3> DEFINE new == [x EXCEPT !.saved = 0]
    <3>1. Write("UNSAVE", new)
      BY <2>2, <2>8 DEF RemoveSavedBook
    <3>2. new.saved = 0 /\ new.cart = x.cart
      BY <2>3 DEF Row
    <3> HIDE DEF new, h
    <3>3. QED
      BY <1>1, <2>2, <3>1, <3>2
  <2>9. QED
    BY <1>2, <2>5, <2>6, <2>7, <2>8
<1>3. CASE CheckBookOwnership \/ GetBookPdfPath \/ GetLastReadPage \/ UpdateLastReadPage
  <2>1. line # <<>> /\ line' = Tail(line) /\ UNCHANGED <<row, twice>>
    BY <1>3 DEF CheckBookOwnership, GetBookPdfPath, GetLastReadPage, UpdateLastReadPage, Takes, Answer,
      ghosts
  <2>2. QED
    BY <2>1, OnceSame
<1>4. CASE LookForProgress
  BY <1>4, OnceSame DEF LookForProgress, ghosts
<1>5. QED
  BY <1>2, <1>3, <1>4 DEF WorkStep

(* Buttons that are shown while nothing is on its way but questions.          *)
LEMMA RightSoon ==
  ASSUME NEW l, NEW d \in Seq(Response), NEW b, NEW s, NEW o, NEW f, Right(l, d, b, s, o, f), s # {},
         ~OnWay(l, d, {"ADD", "REMOVE", "SAVE", "UNSAVE"})
  PROVE s = o
<1>1. \A k \in 1..Len(d) : d[k] \in Response
  OBVIOUS
<1>2. ~Has(d, Rsp(Carts)) /\ ~Has(d, Rsp({"SAVE", "UNSAVE"}))
  BY <1>1, ReaderKinds DEF OnWay, Has, Carts
<1>3. ~Has(d, SaveDone) /\ Effect(d) = "none"
  BY <1>2, HasParts, EffectNone
<1>4. QED
  BY <1>3, Applied DEF Right, EndsRight

LEMMA OfferedNone ==
  ASSUME NEW b, row[b].cart \in 0..2, row[b].saved \in 0..2
  PROVE /\ "add" \in Offered(b) => row[b].cart = 0
        /\ "save" \in Offered(b) => row[b].saved = 0
BY DEF Offered

LEMMA OtherOnce ==
  ASSUME BaseInv, OnceInv, OtherStep
  PROVE OnceInv'
<1>1. ASSUME NEW b \in Book, NEW new \in Row, ChangeElsewhere(b, new) PROVE OnceInv'
  <2>1. /\ line' = line /\ twice' = twice \cup {b}
        /\ row' = [row EXCEPT ![b] = [new EXCEPT !.file = row[b].file]] /\ row \in [Book -> Row]
    BY <1>1 DEF ChangeElsewhere, BaseInv, Typed
  <2>2. ASSUME NEW d \in Book \ twice' PROVE Once(line, d, row'[d])
    <3>1. d \in Book \ twice /\ d # b
      BY <2>1, <2>2
    <3>2. row'[d] = row[d]
      BY <2>1, <3>1
    <3>3. QED
      BY <3>1, <3>2 DEF OnceInv
  <2>3. QED
    BY <2>1, <2>2 DEF OnceInv
<1>2. CASE \E b \in Book : LookElsewhere(b)
  BY <1>2, OnceSame DEF LookElsewhere, ghosts
<1>3. CASE \E p \in Page : ReadElsewhere(p)
  BY <1>3, OnceSame DEF ReadElsewhere
<1>4. QED
  BY <1>1, <1>2, <1>3 DEF OtherStep

LEMMA ClickOnce ==
  ASSUME BaseInv, ButtonsInv, OnceInv, ClickStep
  PROVE OnceInv'
<1>0. /\ Typed /\ line \in Seq(Request) /\ down \in Seq(Response) /\ row \in [Book -> Row]
  BY DEF BaseInv, Typed
<1>1. ASSUME NEW b \in Book, LoadDetails(b) PROVE OnceInv'
  <2>1. Ask(b) \in Request /\ Ask(b).type = "CHECK"
    BY Requests DEF Ask, Types
  <2>2. UNCHANGED <<row, twice>> /\ (line' = line \/ line' = Append(line, Ask(b)))
    BY <1>1 DEF LoadDetails, Send, NoConnection
  <2> HIDE DEF Ask
  <2>3. line' = line \/ \E r \in Request : r.type \notin {"ADD", "SAVE"} /\ line' = Append(line, r)
    BY <2>1, <2>2
  <2>4. QED
    BY <2>2, <2>3, OnceSame
<1>2. ASSUME NEW b \in Book, LoadBook(b) PROVE OnceInv'
  <2> DEFINE r == [type |-> "PATH", book |-> b]
  <2>1. r \in Request /\ r.type = "PATH"
    BY Requests DEF Types
  <2>2. UNCHANGED <<row, twice>> /\ (line' = line \/ line' = Append(line, r))
    BY <1>2 DEF LoadBook, Send, NoConnection
  <2> HIDE DEF r
  <2>3. line' = line \/ \E x \in Request : x.type \notin {"ADD", "SAVE"} /\ line' = Append(line, x)
    BY <2>1, <2>2
  <2>4. QED
    BY <2>2, <2>3, OnceSame
<1>3. ASSUME NEW p \in Page, TurnTo(p) PROVE OnceInv'
  <2> DEFINE r == [type |-> "UPDATE", book |-> bookId, page |-> p]
  <2>1. bookId \in Book
    BY <1>0, <1>3 DEF TurnTo, BaseInv, Opened, Typed
  <2>2. r \in Request /\ r.type = "UPDATE"
    BY <2>1, Requests
  <2>3. UNCHANGED <<row, twice>> /\ (line' = line \/ line' = Append(line, r))
    BY <1>3 DEF TurnTo, Send, NoConnection
  <2> HIDE DEF r
  <2>4. line' = line \/ \E x \in Request : x.type \notin {"ADD", "SAVE"} /\ line' = Append(line, x)
    BY <2>2, <2>3
  <2>5. QED
    BY <2>3, <2>4, OnceSame
<1>4. ASSUME NEW t \in {"ADD", "REMOVE", "SAVE", "UNSAVE"}, NEW button, ClickButton(button, t),
             t = "ADD" => button = "add", t = "SAVE" => button = "save"
      PROVE  OnceInv'
  <2> DEFINE r == [type |-> t, book |-> curBook]
  <2>1. button \in buttons /\ UNCHANGED row
    BY <1>4 DEF ClickButton
  <2>2. curBook \in Book
    BY <1>0, <2>1 DEF BaseInv, Opened, Typed
  <2>3. r \in Request /\ r.type = t /\ r.book = curBook
    BY <1>4, <2>2, Requests DEF Types
  <2>4. \/ /\ Send(r)
           /\ twice' = IF t \in {"ADD", "SAVE"} /\ (Pending({"ADD", "REMOVE", "SAVE", "UNSAVE"})
                                                      \/ whyDetails # {})
                       THEN twice \cup {curBook} ELSE twice
        \/ UNCHANGED <<line, twice>>
    BY <1>4 DEF ClickButton, NoConnection
  <2> HIDE DEF r
  <2>5. CASE UNCHANGED <<line, twice>>
    BY <2>1, <2>5, OnceSame
  <2>6. CASE Send(r) /\ t \notin {"ADD", "SAVE"}
    <3>1. r.type \notin {"ADD", "SAVE"} /\ line' = Append(line, r) /\ twice \subseteq twice'
      BY <2>3, <2>4, <2>6 DEF Send
    <3>2. QED
      BY <2>1, <2>3, <3>1, OnceSame
  <2>7. CASE Send(r) /\ t \in {"ADD", "SAVE"}
    <3>1. line' = Append(line, r) /\ twice \subseteq twice'
      BY <2>4, <2>7 DEF Send
    <3>2. ASSUME NEW b \in Book \ twice' PROVE Once(Append(line, r), b, row[b])
      <4>1. Once(line, b, row[b])
        BY <3>1, <3>2 DEF OnceInv
      <4>2. CASE b # curBook
        <5>1. r \notin PutOf(b)
          BY <2>3, <4>2, PutKinds
        <5>2. QED
          BY <1>0, <2>3, <4>1, <5>1, OnceSend
      <4>3. CASE b = curBook
        <5>1. ~Pending({"ADD", "REMOVE", "SAVE", "UNSAVE"}) /\ whyDetails = {}
          <6>1. CASE Pending({"ADD", "REMOVE", "SAVE", "UNSAVE"}) \/ whyDetails # {}
            <7>1. curBook \in twice' \/ UNCHANGED <<line, twice>>
              BY <2>4, <2>7, <6>1
            <7>2. line' # line
              <8>1. Len(Append(line, r)) = Len(line) + 1 /\ Len(line) \in Nat
                BY <1>0, <2>3, AppendSeq
              <8>2. QED
                BY <3>1, <8>1
            <7>3. QED
              BY <3>2, <4>3, <7>1, <7>2
          <6>2. QED
            BY <6>1
        <5>2. ~OnWay(line, down, {"ADD", "REMOVE", "SAVE", "UNSAVE"})
          BY <1>0, <5>1, PendingNow DEF OnWay
        <5>3. \A k \in 1..Len(line) : line[k] \in Request
          BY <1>0
        <5>4. ~Has(line, PutOf(b))
          BY <5>2, <5>3, PutKinds, ReaderKinds DEF OnWay, Has
        <5>5. Right(line, down, curBook, buttons, Offered(curBook), ForSale(curBook))
          BY <2>2, <5>1, DataAssumption DEF ButtonsInv
        <5>6. row[b].cart \in 0..2 /\ row[b].saved \in 0..2
          BY <1>0 DEF Row
        <5>7. button \in Offered(b)
          BY <1>0, <2>1, <4>3, <5>2, <5>5, RightSoon
        <5>8. (t = "ADD" => row[b].cart = 0) /\ (t = "SAVE" => row[b].saved = 0)
          BY <1>4, <5>6, <5>7, OfferedNone
        <5>9. QED
          BY <1>0, <2>3, <4>1, <5>4, <5>8, OncePut
      <4>4. QED
        BY <4>2, <4>3
    <3>3. QED
      BY <2>1, <3>1, <3>2 DEF OnceInv
  <2>8. QED
    BY <1>4, <2>4, <2>5, <2>6, <2>7
<1>5. CASE ClickAdd \/ ClickRemove \/ ClickSave \/ ClickSaved
  BY <1>4, <1>5 DEF ClickAdd, ClickRemove, ClickSave, ClickSaved
<1>6. QED
  BY <1>1, <1>2, <1>3, <1>5 DEF ClickStep

LEMMA HandleOnce ==
  ASSUME BaseInv, OnceInv, HandleStep
  PROVE OnceInv'
<1>1. UNCHANGED <<row, twice>>
  BY DEF HandleStep, HandleOwnership, HandleCart, HandleSaved, HandlePath, HandleLastReadPage,
         HandleUpdated, Take
<1>2. CASE HandleOwnership \/ HandleCart \/ HandleLastReadPage \/ HandleUpdated
  BY <1>1, <1>2, OnceSame DEF HandleOwnership, HandleCart, HandleLastReadPage, HandleUpdated
<1>3. down # <<>> => 1 \in DOMAIN down /\ down[1] = Head(down)
  BY TailSeq DEF BaseInv, Typed
<1>4. CASE HandleSaved
  <2>1. line' = line \/ line' = Append(line, Ask(curBook))
    BY <1>4 DEF HandleSaved, Send
  <2>2. Pending(ToDetails)
    BY <1>3, <1>4 DEF HandleSaved, Arrives, Pending, ToDetails
  <2>3. curBook \in Book
    BY <2>2 DEF BaseInv, Opened, Typed
  <2>4. Ask(curBook) \in Request /\ Ask(curBook).type = "CHECK"
    BY <2>3, Requests DEF Ask, Types
  <2> HIDE DEF Ask
  <2>5. line' = line \/ \E r \in Request : r.type \notin {"ADD", "SAVE"} /\ line' = Append(line, r)
    BY <2>1, <2>4
  <2>6. QED
    BY <1>1, <2>5, OnceSame
<1>5. CASE HandlePath
  <2> DEFINE r == [type |-> "LAST", book |-> bookId]
  <2>1. line' = line \/ line' = Append(line, r)
    BY <1>5 DEF HandlePath, Send
  <2>2. Pending(ToReader)
    BY <1>3, <1>5 DEF HandlePath, Arrives, Pending, ToReader
  <2>3. bookId \in Book
    BY <2>2 DEF BaseInv, Opened, Typed
  <2>4. r \in Request /\ r.type = "LAST"
    BY <2>3, Requests DEF Types
  <2> HIDE DEF r
  <2>5. line' = line \/ \E x \in Request : x.type \notin {"ADD", "SAVE"} /\ line' = Append(line, x)
    BY <2>1, <2>4
  <2>6. QED
    BY <1>1, <2>5, OnceSame
<1>6. QED
  BY <1>2, <1>4, <1>5 DEF HandleStep

LEMMA NextOnce == BaseInv /\ ButtonsInv /\ OnceInv /\ [Next]_vars => OnceInv'
<1> SUFFICES ASSUME BaseInv, ButtonsInv, OnceInv, [Next]_vars PROVE OnceInv'
  OBVIOUS
<1>1. CASE Lose
  BY <1>1, OnceSame DEF Lose
<1>2. CASE UNCHANGED vars
  BY <1>2, OnceSame DEF vars, ghosts
<1>3. QED
  BY <1>1, <1>2, NextSteps, WorkOnce, OtherOnce, ClickOnce, HandleOnce

(* Every reachable state has its types; and no book is twice in the cart, or  *)
(* saved twice, unless a button was wrong, or clicked before an answer had    *)
(* come: the buttons are all that keeps a second row out.                     *)
THEOREM TypeCorrect == Spec => []TypeOK
<1>1. Init => OnceInv
  <2> SUFFICES ASSUME Init, NEW b \in Book PROVE Once(line, b, row[b])
    BY DEF OnceInv
  <2>1. row[b].cart = 0 /\ row[b].saved \in {0, 1} /\ line = <<>>
    BY DEF Init
  <2>2. QED
    BY <2>1, InEmpty DEF Once
<1>2. Spec => []OnceInv
  BY <1>1, BaseHolds, ButtonsHold, NextOnce, PTL DEF Spec
<1>3. BaseInv /\ OnceInv => TypeOK
  BY DEF BaseInv, OnceInv, Once, TypeOK
<1>4. QED
  BY <1>2, <1>3, BaseHolds, PTL
=============================================================================
