--------------------------- MODULE SessionsProofs ---------------------------
(***************************************************************************)
(* Proofs about sessions and what is pushed over them: first about         *)
(* Sessions, for any clients, accounts and addresses; then about           *)
(* Notifications.                                                          *)
(*                                                                         *)
(* RegistryExact speaks of the moments when the queue is empty.  It is     *)
(* strengthened to Settled, which says of every moment what the maps will  *)
(* be once the events in the queue are processed: of the events about one  *)
(* address only the last one counts.                                       *)
(***************************************************************************)
EXTENDS Sessions, Notifications, FiniteSetTheorems, TLAPS

(* The client at the end of a connection and the server's socket belong to *)
(* each other as long as the client is there.                              *)
ConnAttached ==
  \A c \in Client : conn[c] # NoSocket =>
    status[conn[c]] = "open" /\ peer[conn[c]] = c

(* What the map is to hold for k, and what an event makes of it. *)
Due(k) == IF LoggedIn(k) THEN UserOf[peer[k]] ELSE NoUser
About(e, k) == e.type \in {"userLoggedIn", "userDisconnected"} /\ e.sock = k
Says(e) == IF e.type = "userLoggedIn" THEN e.user ELSE NoUser

(* The queue q turns an entry m for k into d: if there is no event about k, m *)
(* is d already, else the last one says d.                                    *)
Leads(q, m, d, k) ==
  /\ (\A i \in 1..Len(q) : ~About(q[i], k)) => m = d
  /\ \A i \in 1..Len(q) :
       /\ About(q[i], k)
       /\ \A j \in i+1..Len(q) : ~About(q[j], k)
       => Says(q[i]) = d

Settled == \A k \in Socket \ cut : Leads(queue, socketToUser[k], Due(k), k)

-----------------------------------------------------------------------------
(* Sequences of events. *)

LEMMA LoginEventType ==
  ASSUME NEW k \in Socket, NEW u \in User, NEW n \in Name
  PROVE  LoginEvent(k, u, n) \in Event
BY DEF LoginEvent, Event

LEMMA GoneEventType == ASSUME NEW k \in Socket PROVE GoneEvent(k) \in Event
BY DEF GoneEvent, Event

LEMMA NotifyEventType ==
  ASSUME NEW u \in User, NEW n \in Name PROVE NotifyEvent(u, n) \in Event
BY DEF NotifyEvent, Event

LEMMA BroadcastEventType == BroadcastEvent \in Event
BY DEF BroadcastEvent, Event

LEMMA HeadType ==
  ASSUME NEW q \in Seq(Event), q # <<>>
  PROVE  Head(q) \in Event /\ Tail(q) \in Seq(Event)
OBVIOUS

(* Each type of event has its fields. *)
LEMMA EventFields ==
  ASSUME NEW e \in Event
  PROVE  /\ e.type = "userLoggedIn" => e.sock \in Socket /\ e.user \in User /\ e.name \in Name
         /\ e.type = "userDisconnected" => e.sock \in Socket
         /\ e.type = "notificationTriggered" => e.user \in User /\ e.name \in Name
BY DEF Event

-----------------------------------------------------------------------------
(* Type correctness. *)

LEMMA InitType == Init => TypeOK
BY NameAssumption DEF Init, TypeOK

LEMMA PostType ==
  ASSUME NEW ks, NEW to \in User \cup {Everyone}, Post(ks, to)
  PROVE  posted' \in SUBSET (Socket \X (User \cup {Everyone}))
BY DEF Post

LEMMA NextType == TypeOK /\ [Next]_vars => TypeOK'
<1> SUFFICES ASSUME TypeOK, [Next]_vars PROVE TypeOK'
  OBVIOUS
<1> USE ClientAssumption, NameAssumption
<1> USE DEF TypeOK, clientVars, socketVars, mapVars
<1>1. ASSUME NEW c \in Client, NEW k \in Socket, Connect(c, k) PROVE TypeOK'
  BY <1>1 DEF Connect
<1>2. ASSUME NEW c \in Client, NEW restart \in BOOLEAN, Leave(c, restart) PROVE TypeOK'
  BY <1>2 DEF Leave
<1>3. ASSUME NEW c \in Client, NEW n \in Name, Rename(c, n) PROVE TypeOK'
  BY <1>3 DEF Rename
<1>4. ASSUME NEW k \in Socket, HandleLogin(k) PROVE TypeOK'
  <2>1. peer[k] \in Client
    BY <1>4 DEF HandleLogin, Attached
  <2>2. LoginEvent(k, UserOf[peer[k]], name[UserOf[peer[k]]]) \in Event
    BY <2>1, LoginEventType
  <2>3. queue' \in Seq(Event)
    BY <1>4, <2>2 DEF HandleLogin
  <2>4. QED
    BY <1>4, <2>1, <2>3 DEF HandleLogin
<1>5. ASSUME NEW k \in Socket, HandleLoginWriteFails(k) PROVE TypeOK'
  <2>1. peer[k] \in Client
    BY <1>5 DEF HandleLoginWriteFails, Attached
  <2> DEFINE e == LoginEvent(k, UserOf[peer[k]], name[UserOf[peer[k]]])
  <2>2. e \in Event /\ GoneEvent(k) \in Event
    BY <2>1, LoginEventType, GoneEventType
  <2> HIDE DEF e
  <2>3. <<GoneEvent(k), e>> \in Seq(Event)
    BY <2>2
  <2>4. queue' = queue \o <<GoneEvent(k), e>>
    BY <1>5 DEF HandleLoginWriteFails, e
  <2>5. queue' \in Seq(Event)
    BY <2>3, <2>4
  <2>6. QED
    BY <1>5, <2>5 DEF HandleLoginWriteFails
<1>6. ASSUME NEW k \in Socket, OnDisconnected(k) PROVE TypeOK'
  BY <1>6, GoneEventType DEF OnDisconnected
<1>7. ASSUME NEW k \in Socket, DeleteSocket(k) PROVE TypeOK'
  BY <1>7 DEF DeleteSocket
<1>8. ASSUME NEW c \in Client, NEW u \in User, Notify(c, u) PROVE TypeOK'
  BY <1>8, NotifyEventType DEF Notify
<1>9. ASSUME NEW c \in Client, Broadcast(c) PROVE TypeOK'
  BY <1>9, BroadcastEventType DEF Broadcast
<1>10. CASE ProcessLogin
  BY <1>10, HeadType, EventFields DEF ProcessLogin, Next1
<1>11. CASE ProcessGone
  <2> DEFINE k == Head(queue).sock
             u == socketToUser[k]
  <2>1. k \in Socket /\ queue' \in Seq(Event)
    BY <1>11, HeadType, EventFields DEF ProcessGone, Next1
  <2>2. u # NoUser => Mask(k, u) \in SUBSET User
    BY <2>1 DEF Mask
  <2>3. /\ onlineUsers' \in [User -> Socket \cup {NoSocket}]
        /\ socketToUser' \in [Socket -> User \cup {NoUser}]
        /\ socketToName' \in [Socket -> Name \cup {NoName}]
        /\ masked' \in SUBSET User
    <3>1. CASE u = NoUser
      BY <1>11, <3>1 DEF ProcessGone
    <3>2. CASE u # NoUser
      BY <1>11, <2>2, <3>2 DEF ProcessGone
    <3>3. QED
      BY <3>1, <3>2
  <2>4. QED
    BY <1>11, <2>1, <2>3 DEF ProcessGone
<1>12. CASE ProcessNotify
  <2>1. Head(queue).user \in User /\ queue' \in Seq(Event)
    BY <1>12, HeadType, EventFields DEF ProcessNotify, Next1
  <2>2. posted' \in SUBSET (Socket \X (User \cup {Everyone}))
    BY <1>12, <2>1, PostType DEF ProcessNotify
  <2>3. QED
    BY <1>12, <2>1, <2>2 DEF ProcessNotify
<1>13. CASE ProcessBroadcast
  BY <1>13, HeadType, PostType DEF ProcessBroadcast, Next1
<1>14. CASE Die
  BY <1>14 DEF Die
<1>15. CASE UNCHANGED vars
  BY <1>15 DEF vars
<1>16. QED
  BY <1>1, <1>2, <1>3, <1>4, <1>5, <1>6, <1>7, <1>8, <1>9, <1>10, <1>11, <1>12,
     <1>13, <1>14, <1>15 DEF Next, ClientNext, WorkerNext, MainNext

(* Every reachable state is well typed. *)
THEOREM TypeCorrect == Spec => []TypeOK
BY InitType, NextType, PTL DEF Spec

-----------------------------------------------------------------------------
(* How the queue leads to an entry, as it grows and shrinks. *)

LEMMA AppendOther ==
  ASSUME NEW q \in Seq(Event), NEW e \in Event, NEW m, NEW d, NEW k,
         Leads(q, m, d, k), ~About(e, k)
  PROVE  Leads(Append(q, e), m, d, k)
<1> DEFINE r == Append(q, e)
<1>1. /\ Len(r) = Len(q) + 1 /\ Len(q) \in Nat
      /\ r[Len(q) + 1] = e
      /\ \A i \in 1..Len(q) : r[i] = q[i]
  OBVIOUS
<1> HIDE DEF r
<1>2. (\A i \in 1..Len(r) : ~About(r[i], k)) => m = d
  BY <1>1 DEF Leads
<1>3. ASSUME NEW i \in 1..Len(r), About(r[i], k),
             \A j \in i+1..Len(r) : ~About(r[j], k)
      PROVE  Says(r[i]) = d
  <2>1. i \in 1..Len(q)
    BY <1>1, <1>3
  <2>2. \A j \in i+1..Len(q) : ~About(q[j], k)
    BY <1>1, <1>3, <2>1
  <2>3. QED
    BY <1>1, <1>3, <2>1, <2>2 DEF Leads
<1>4. QED
  BY <1>2, <1>3 DEF Leads, r

LEMMA AppendAbout ==
  ASSUME NEW q \in Seq(Event), NEW e \in Event, NEW m, NEW k, About(e, k)
  PROVE  Leads(Append(q, e), m, Says(e), k)
<1> DEFINE r == Append(q, e)
<1>1. /\ Len(r) = Len(q) + 1 /\ Len(q) \in Nat
      /\ r[Len(q) + 1] = e
  OBVIOUS
<1> HIDE DEF r
<1>2. ASSUME NEW i \in 1..Len(r), \A j \in i+1..Len(r) : ~About(r[j], k)
      PROVE  r[i] = e
  BY <1>1, <1>2
<1>3. Len(r) \in 1..Len(r) /\ About(r[Len(r)], k)
  BY <1>1
<1>4. QED
  BY <1>2, <1>3 DEF Leads, r

LEMMA TailOther ==
  ASSUME NEW q \in Seq(Event), q # <<>>, NEW m, NEW d, NEW k,
         Leads(q, m, d, k), ~About(Head(q), k)
  PROVE  Leads(Tail(q), m, d, k)
<1> DEFINE r == Tail(q)
<1>1. /\ Len(q) = Len(r) + 1 /\ Len(r) \in Nat
      /\ q[1] = Head(q)
      /\ \A i \in 1..Len(r) : r[i] = q[i + 1]
  OBVIOUS
<1> HIDE DEF r
<1>2. ASSUME \A i \in 1..Len(r) : ~About(r[i], k) PROVE m = d
  <2>1. ASSUME NEW i \in 1..Len(q) PROVE ~About(q[i], k)
    <3>1. CASE i = 1
      BY <1>1, <3>1
    <3>2. CASE i # 1
      <4>1. i - 1 \in 1..Len(r) /\ r[i - 1] = q[i]
        BY <1>1, <3>2
      <4>2. QED
        BY <1>2, <4>1
    <3>3. QED
      BY <3>1, <3>2
  <2>2. QED
    BY <2>1 DEF Leads
<1>3. ASSUME NEW i \in 1..Len(r), About(r[i], k),
             \A j \in i+1..Len(r) : ~About(r[j], k)
      PROVE  Says(r[i]) = d
  <2>1. i + 1 \in 1..Len(q) /\ r[i] = q[i + 1]
    BY <1>1
  <2>2. ASSUME NEW j \in (i+1)+1..Len(q) PROVE ~About(q[j], k)
    <3>1. j - 1 \in i+1..Len(r) /\ r[j - 1] = q[j]
      BY <1>1, <2>2
    <3>2. QED
      BY <1>3, <3>1
  <2>3. QED
    BY <1>3, <2>1, <2>2 DEF Leads
<1>4. QED
  BY <1>2, <1>3 DEF Leads, r

LEMMA TailAbout ==
  ASSUME NEW q \in Seq(Event), q # <<>>, NEW m, NEW d, NEW k,
         Leads(q, m, d, k), About(Head(q), k)
  PROVE  Leads(Tail(q), Says(Head(q)), d, k)
<1> DEFINE r == Tail(q)
<1>1. /\ Len(q) = Len(r) + 1 /\ Len(r) \in Nat
      /\ q[1] = Head(q)
      /\ \A i \in 1..Len(r) : r[i] = q[i + 1]
  OBVIOUS
<1> HIDE DEF r
<1>2. ASSUME \A i \in 1..Len(r) : ~About(r[i], k) PROVE Says(Head(q)) = d
  <2>1. ASSUME NEW j \in 1+1..Len(q) PROVE ~About(q[j], k)
    <3>1. j - 1 \in 1..Len(r) /\ r[j - 1] = q[j]
      BY <1>1, <2>1
    <3>2. QED
      BY <1>2, <3>1
  <2>2. 1 \in 1..Len(q)
    BY <1>1
  <2>3. QED
    BY <1>1, <2>1, <2>2 DEF Leads
<1>3. ASSUME NEW i \in 1..Len(r), About(r[i], k),
             \A j \in i+1..Len(r) : ~About(r[j], k)
      PROVE  Says(r[i]) = d
  <2>1. i + 1 \in 1..Len(q) /\ r[i] = q[i + 1]
    BY <1>1
  <2>2. ASSUME NEW j \in (i+1)+1..Len(q) PROVE ~About(q[j], k)
    <3>1. j - 1 \in i+1..Len(r) /\ r[j - 1] = q[j]
      BY <1>1, <2>2
    <3>2. QED
      BY <1>3, <3>1
  <2>3. QED
    BY <1>3, <2>1, <2>2 DEF Leads
<1>4. QED
  BY <1>2, <1>3 DEF Leads, r

-----------------------------------------------------------------------------
(* The ends of a connection. *)

LEMMA NextAttached == TypeOK /\ ConnAttached /\ [Next]_vars => ConnAttached'
<1> SUFFICES ASSUME TypeOK, ConnAttached, [Next]_vars,
                    NEW c \in Client, conn'[c] # NoSocket
             PROVE  status'[conn'[c]] = "open" /\ peer'[conn'[c]] = c
  BY DEF ConnAttached
<1> DEFINE Goal == status'[conn'[c]] = "open" /\ peer'[conn'[c]] = c
<1> USE DEF ConnAttached, TypeOK, clientVars, socketVars
<1>1. ASSUME NEW d \in Client, NEW k \in Socket, Connect(d, k) PROVE Goal
  BY <1>1, NullAssumption DEF Connect
<1>2. ASSUME NEW d \in Client, NEW restart \in BOOLEAN, Leave(d, restart) PROVE Goal
  BY <1>2 DEF Leave
<1>3. ASSUME NEW k \in Socket, HandleLogin(k) PROVE Goal
  BY <1>3 DEF HandleLogin
<1>4. ASSUME NEW k \in Socket, HandleLoginWriteFails(k) PROVE Goal
  BY <1>4 DEF HandleLoginWriteFails, Attached
<1>5. ASSUME NEW k \in Socket, OnDisconnected(k) PROVE Goal
  BY <1>5, NoClientAssumption DEF OnDisconnected, Attached
<1>6. ASSUME NEW k \in Socket, DeleteSocket(k) PROVE Goal
  BY <1>6 DEF DeleteSocket
<1>7. CASE Die
  BY <1>7 DEF Die
<1>8. CASE UNCHANGED <<conn, status, peer>>
  BY <1>8
<1>9. QED
  BY <1>1, <1>2, <1>3, <1>4, <1>5, <1>6, <1>7, <1>8
  DEF Next, ClientNext, WorkerNext, MainNext, Rename, Notify, Broadcast,
      ProcessLogin, ProcessGone, ProcessNotify, ProcessBroadcast, vars

-----------------------------------------------------------------------------
(* The maps. *)

(* What is due for an address depends on the socket there alone. *)
LEMMA DueUnchanged ==
  ASSUME NEW k, status'[k] = status[k], login'[k] = login[k], peer'[k] = peer[k]
  PROVE  Due(k)' = Due(k)
BY DEF Due, LoggedIn

LEMMA NextSettled ==
  TypeOK /\ ConnAttached /\ Settled /\ [Next]_vars => Settled'
<1> SUFFICES ASSUME TypeOK, ConnAttached, Settled, [Next]_vars,
                    NEW k \in Socket, k \notin cut'
             PROVE  Leads(queue', socketToUser'[k], Due(k)', k)
  BY DEF Settled, Leads, About, Says
<1> DEFINE Goal == Leads(queue', socketToUser'[k], Due(k)', k)
<1>0. ASSUME k \notin cut PROVE Leads(queue, socketToUser[k], Due(k), k)
  BY <1>0 DEF Settled
<1>1. ASSUME UNCHANGED <<queue, socketToUser, cut>>, Due(k)' = Due(k) PROVE Goal
  BY <1>0, <1>1
<1>2. ASSUME NEW c \in Client, NEW l \in Socket, Connect(c, l) PROVE Goal
  <2>1. CASE l = k
    BY <1>1, <1>2, <2>1 DEF Connect, TypeOK, Due, LoggedIn, mapVars
  <2>2. CASE l # k
    BY <1>1, <1>2, <2>2, DueUnchanged DEF Connect, TypeOK, mapVars
  <2>3. QED
    BY <2>1, <2>2
<1>3. ASSUME NEW l \in Socket, HandleLogin(l) PROVE Goal
  <2> DEFINE u == UserOf[peer[l]]
             e == LoginEvent(l, u, name[u])
  <2>0. peer[l] \in Client /\ conn[peer[l]] = l
    BY <1>3 DEF HandleLogin, Attached, TypeOK
  <2>1. peer[l] \in Client /\ status[l] = "open" /\ u \in User
    BY <2>0, ClientAssumption, NullAssumption DEF ConnAttached
  <2>2. e \in Event /\ queue' = Append(queue, e)
    BY <1>3, <2>1, LoginEventType DEF HandleLogin, TypeOK
  <2>3. queue \in Seq(Event) /\ k \notin cut /\ socketToUser' = socketToUser
    BY <1>3 DEF HandleLogin, TypeOK, mapVars
  <2>4. CASE l = k
    <3>1. About(e, k) /\ Says(e) = u
      BY <2>4 DEF About, Says, LoginEvent
    <3>2. Due(k)' = u
      BY <1>3, <2>1, <2>4 DEF HandleLogin, TypeOK, Due, LoggedIn
    <3>3. QED
      BY <2>2, <2>3, <3>1, <3>2, AppendAbout
  <2>5. CASE l # k
    <3>1. ~About(e, k)
      BY <2>5 DEF About, LoginEvent
    <3>2. Due(k)' = Due(k)
      BY <1>3, <2>5, DueUnchanged DEF HandleLogin, TypeOK
    <3>3. QED
      BY <1>0, <2>2, <2>3, <3>1, <3>2, AppendOther
  <2>6. QED
    BY <2>4, <2>5
<1>4. ASSUME NEW l \in Socket, HandleLoginWriteFails(l) PROVE Goal
  <2> DEFINE u == UserOf[peer[l]]
             e == LoginEvent(l, u, name[u])
             g == GoneEvent(l)
  <2>1. peer[l] \in Client /\ u \in User
    BY <1>4, ClientAssumption, NullAssumption DEF HandleLoginWriteFails, Attached, TypeOK
  <2>2. e \in Event /\ g \in Event
    BY <2>1, LoginEventType, GoneEventType DEF TypeOK
  <2>3. l # k /\ k \notin cut
    BY <1>4 DEF HandleLoginWriteFails
  <2>4. ~About(e, k) /\ ~About(g, k)
    BY <2>3 DEF About, LoginEvent, GoneEvent
  <2>5. Due(k)' = Due(k) /\ socketToUser' = socketToUser
    BY <1>4, <2>3, DueUnchanged DEF HandleLoginWriteFails, TypeOK, mapVars
  <2>6. queue' = queue \o <<g, e>> /\ queue \in Seq(Event)
    BY <1>4 DEF HandleLoginWriteFails, TypeOK
  <2> HIDE DEF e, g
  <2>7. queue' = Append(Append(queue, g), e) /\ Append(queue, g) \in Seq(Event)
    BY <2>2, <2>6
  <2>8. QED
    BY <1>0, <2>2, <2>3, <2>4, <2>5, <2>6, <2>7, AppendOther
<1>5. ASSUME NEW l \in Socket, OnDisconnected(l) PROVE Goal
  <2> DEFINE g == GoneEvent(l)
  <2>1. g \in Event /\ queue' = Append(queue, g) /\ queue \in Seq(Event)
    BY <1>5, GoneEventType DEF OnDisconnected, TypeOK
  <2>2. k \notin cut /\ socketToUser' = socketToUser
    BY <1>5 DEF OnDisconnected, mapVars
  <2>3. CASE l = k
    <3>1. About(g, k) /\ Says(g) = NoUser
      BY <2>3 DEF About, Says, GoneEvent
    <3>2. Due(k)' = NoUser
      BY <1>5, <2>3 DEF OnDisconnected, TypeOK, Due, LoggedIn
    <3>3. QED
      BY <2>1, <2>2, <3>1, <3>2, AppendAbout
  <2>4. CASE l # k
    <3>1. ~About(g, k)
      BY <2>4 DEF About, GoneEvent
    <3>2. Due(k)' = Due(k)
      BY <1>5, <2>4, DueUnchanged DEF OnDisconnected, TypeOK
    <3>3. QED
      BY <1>0, <2>1, <2>2, <3>1, <3>2, AppendOther
  <2>5. QED
    BY <2>3, <2>4
<1>6. ASSUME NEW l \in Socket, DeleteSocket(l) PROVE Goal
  <2>1. CASE l = k
    BY <1>1, <1>6, <2>1 DEF DeleteSocket, TypeOK, Due, LoggedIn, mapVars
  <2>2. CASE l # k
    BY <1>1, <1>6, <2>2, DueUnchanged DEF DeleteSocket, TypeOK, mapVars
  <2>3. QED
    BY <2>1, <2>2
<1>7. ASSUME NEW e \in Event, queue' = Append(queue, e), \A l : ~About(e, l),
             UNCHANGED <<socketVars, mapVars>>
      PROVE  Goal
  BY <1>0, <1>7, AppendOther, DueUnchanged DEF TypeOK, socketVars, mapVars
<1>8. ASSUME NEW c \in Client, NEW u \in User, Notify(c, u) PROVE Goal
  BY <1>7, <1>8, NotifyEventType DEF Notify, NotifyEvent, About, TypeOK
<1>9. ASSUME NEW c \in Client, Broadcast(c) PROVE Goal
  BY <1>7, <1>9, BroadcastEventType DEF Broadcast, BroadcastEvent, About
<1>10. ASSUME queue # <<>>, queue' = Tail(queue), UNCHANGED socketVars,
              ~About(Head(queue), k), socketToUser'[k] = socketToUser[k]
       PROVE  Goal
  BY <1>0, <1>10, TailOther, DueUnchanged DEF TypeOK, socketVars
<1>11. ASSUME queue # <<>>, queue' = Tail(queue), UNCHANGED socketVars,
              About(Head(queue), k), socketToUser'[k] = Says(Head(queue))
       PROVE  Goal
  BY <1>0, <1>11, TailAbout, DueUnchanged DEF TypeOK, socketVars
<1>12. CASE ProcessLogin
  <2>1. queue # <<>> /\ queue' = Tail(queue) /\ UNCHANGED socketVars
    BY <1>12 DEF ProcessLogin, Next1
  <2>2. CASE Head(queue).sock = k
    BY <1>11, <1>12, <2>1, <2>2 DEF ProcessLogin, Next1, About, Says, TypeOK
  <2>3. CASE Head(queue).sock # k
    BY <1>10, <1>12, <2>1, <2>3 DEF ProcessLogin, About, TypeOK
  <2>4. QED
    BY <2>2, <2>3
<1>13. CASE ProcessGone
  <2>1. queue # <<>> /\ queue' = Tail(queue) /\ UNCHANGED socketVars
    BY <1>13 DEF ProcessGone, Next1
  <2>2. CASE Head(queue).sock = k
    <3>1. About(Head(queue), k) /\ Says(Head(queue)) = NoUser
      BY <1>13, <2>2 DEF ProcessGone, Next1, About, Says
    <3>2. socketToUser'[k] = NoUser
      BY <1>13, <2>2 DEF ProcessGone, TypeOK, mapVars
    <3>3. QED
      BY <1>11, <2>1, <3>1, <3>2
  <2>3. CASE Head(queue).sock # k
    <3>1. ~About(Head(queue), k)
      BY <2>3 DEF About
    <3>2. socketToUser'[k] = socketToUser[k]
      BY <1>13, <2>3 DEF ProcessGone, TypeOK, mapVars
    <3>3. QED
      BY <1>10, <2>1, <3>1, <3>2
  <2>4. QED
    BY <2>2, <2>3
<1>14. CASE ProcessNotify \/ ProcessBroadcast
  BY <1>10, <1>14 DEF ProcessNotify, ProcessBroadcast, Next1, About, mapVars
<1>15. CASE Die
  BY <1>15 DEF Die, Leads, Due, LoggedIn
<1>16. ASSUME UNCHANGED <<queue, socketVars, mapVars>> PROVE Goal
  BY <1>1, <1>16, DueUnchanged DEF socketVars, mapVars
<1>17. QED
  BY <1>2, <1>3, <1>4, <1>5, <1>6, <1>8, <1>9, <1>12, <1>13, <1>14, <1>15, <1>16
  DEF Next, ClientNext, WorkerNext, MainNext, Rename, Leave, vars, socketVars, mapVars

(* Whatever connections come and go, and whichever addresses they are given: *)
(* with its queue worked off, the server has on record exactly the sockets   *)
(* that are open and logged in, each with its own user.                      *)
THEOREM RegistryIsExact == Spec => []RegistryExact
<1>1. Init => ConnAttached /\ Settled
  BY DEF Init, ConnAttached, Settled, Leads, Due, LoggedIn
<1>2. TypeOK /\ Settled => RegistryExact
  BY DEF Settled, Leads, Due, RegistryExact, TypeOK
<1>3. QED
  BY <1>1, <1>2, TypeCorrect, NextAttached, NextSettled, PTL DEF Spec

-----------------------------------------------------------------------------
(***************************************************************************)
(* Pushes, and who is online.  A notification finds its socket in three look-ups: the name    *)
(* leads to an address, that to a user, and the user to the address of the *)
(* socket registered last.  That this one is the user's relies on the      *)
(* events being in an order in which no address is given to a user while   *)
(* it is still another's.                                                  *)
(***************************************************************************)

(* A login in the queue q finds the entry for k, now m, empty. *)
Free(q, m, k) ==
  \A i \in 1..Len(q) : q[i].type = "userLoggedIn" /\ q[i].sock = k =>
    /\ (\A j \in 1..(i - 1) : ~About(q[j], k)) => m = NoUser
    /\ \A j \in 1..(i - 1) :
         /\ About(q[j], k)
         /\ \A h \in (j + 1)..(i - 1) : ~About(q[h], k)
         => Says(q[j]) = NoUser

Ordered == \A k \in Socket \ cut : Free(queue, socketToUser[k], k)

(* The maps agree with one another. *)
OnlineOwns == \A u \in User, k \in Socket \ cut : onlineUsers[u] = k => socketToUser[k] = u
NamesBelong == \A k \in Socket : socketToUser[k] = NoUser => socketToName[k] = NoName

(* A user on record has an entry, unless one of its sockets has taken it along. *)
Entered ==
  \A u \in User \ masked, k \in Socket : socketToUser[k] = u => onlineUsers[u] # NoSocket

UniqueNames == \A u, v \in User : name[u] = name[v] => u = v

MapsInv == Ordered /\ OnlineOwns /\ NamesBelong /\ Entered /\ UniqueNames

LEMMA FreeAppend ==
  ASSUME NEW q \in Seq(Event), NEW e \in Event, NEW m, NEW k, Free(q, m, k),
         e.type = "userLoggedIn" /\ e.sock = k => Leads(q, m, NoUser, k)
  PROVE  Free(Append(q, e), m, k)
<1> DEFINE r == Append(q, e)
<1>1. /\ Len(r) = Len(q) + 1 /\ Len(q) \in Nat
      /\ r[Len(q) + 1] = e
      /\ \A i \in 1..Len(q) : r[i] = q[i]
  OBVIOUS
<1> HIDE DEF r
<1>2. SUFFICES ASSUME NEW i \in 1..Len(r), r[i].type = "userLoggedIn", r[i].sock = k
               PROVE /\ (\A j \in 1..(i - 1) : ~About(r[j], k)) => m = NoUser
                     /\ \A j \in 1..(i - 1) :
                          /\ About(r[j], k)
                          /\ \A h \in (j + 1)..(i - 1) : ~About(r[h], k)
                          => Says(r[j]) = NoUser
  BY DEF Free, r
<1>3. \A j \in 1..(i - 1) : r[j] = q[j] /\ j \in 1..Len(q)
  BY <1>1
<1>4. CASE i \in 1..Len(q)
  <2>1. q[i].type = "userLoggedIn" /\ q[i].sock = k
    BY <1>1, <1>2, <1>4
  <2>2. (\A j \in 1..(i - 1) : ~About(q[j], k)) => m = NoUser
    BY <1>4, <2>1 DEF Free
  <2>3. ASSUME NEW j \in 1..(i - 1), About(q[j], k), \A h \in (j + 1)..(i - 1) : ~About(q[h], k)
        PROVE Says(q[j]) = NoUser
    BY <1>4, <2>1, <2>3 DEF Free
  <2>4. ASSUME NEW j \in 1..(i - 1), About(r[j], k), \A h \in (j + 1)..(i - 1) : ~About(r[h], k)
        PROVE Says(r[j]) = NoUser
    <3>1. \A h \in (j + 1)..(i - 1) : h \in 1..(i - 1)
      BY <1>1
    <3>2. QED
      BY <1>3, <2>3, <2>4, <3>1
  <2>5. QED
    BY <1>3, <2>2, <2>4
<1>5. CASE i = Len(q) + 1
  <2>1. Leads(q, m, NoUser, k)
    BY <1>1, <1>2, <1>5
  <2>2. (\A j \in 1..(i - 1) : ~About(r[j], k)) => m = NoUser
    BY <1>1, <1>3, <1>5, <2>1 DEF Leads
  <2>3. ASSUME NEW j \in 1..(i - 1), About(r[j], k), \A h \in (j + 1)..(i - 1) : ~About(r[h], k)
        PROVE Says(r[j]) = NoUser
    <3>1. j \in 1..Len(q) /\ r[j] = q[j]
      BY <1>3
    <3>2. \A h \in (j + 1)..Len(q) : ~About(q[h], k)
      BY <1>1, <1>5, <2>3
    <3>3. QED
      BY <2>1, <2>3, <3>1, <3>2 DEF Leads
  <2>4. QED
    BY <2>2, <2>3
<1>6. QED
  BY <1>1, <1>4, <1>5

LEMMA FreeHead ==
  ASSUME NEW q \in Seq(Event), q # <<>>, NEW m, NEW k, Free(q, m, k),
         Head(q).type = "userLoggedIn", Head(q).sock = k
  PROVE  m = NoUser
<1>1. 1 \in 1..Len(q) /\ q[1] = Head(q)
  OBVIOUS
<1>2. \A j \in 1..(1 - 1) : ~About(q[j], k)
  OBVIOUS
<1>3. QED
  BY <1>1, <1>2 DEF Free

LEMMA FreeTail ==
  ASSUME NEW q \in Seq(Event), q # <<>>, NEW m, NEW n, NEW k, Free(q, m, k),
         IF About(Head(q), k) THEN n = Says(Head(q)) ELSE n = m
  PROVE  Free(Tail(q), n, k)
<1> DEFINE r == Tail(q)
<1>1. /\ Len(q) = Len(r) + 1 /\ Len(r) \in Nat
      /\ q[1] = Head(q)
      /\ \A i \in 1..Len(r) : r[i] = q[i + 1]
  OBVIOUS
<1> HIDE DEF r
<1>2. SUFFICES ASSUME NEW i \in 1..Len(r), r[i].type = "userLoggedIn", r[i].sock = k
               PROVE /\ (\A j \in 1..(i - 1) : ~About(r[j], k)) => n = NoUser
                     /\ \A j \in 1..(i - 1) :
                          /\ About(r[j], k)
                          /\ \A h \in (j + 1)..(i - 1) : ~About(r[h], k)
                          => Says(r[j]) = NoUser
  BY DEF Free, r
<1>3. i + 1 \in 1..Len(q) /\ q[i + 1].type = "userLoggedIn" /\ q[i + 1].sock = k
  BY <1>1, <1>2
<1>4. \A j \in 2..i : j - 1 \in 1..(i - 1) /\ r[j - 1] = q[j]
  BY <1>1
<1>5. ASSUME \A j \in 1..(i - 1) : ~About(r[j], k)
      PROVE n = NoUser
  <2>1. \A j \in 2..i : ~About(q[j], k)
    BY <1>4, <1>5
  <2>2. CASE About(Head(q), k)
    <3>1. 1 \in 1..((i + 1) - 1) /\ About(q[1], k)
      BY <1>1, <2>2
    <3>2. \A h \in (1 + 1)..((i + 1) - 1) : ~About(q[h], k)
      BY <2>1
    <3>3. Says(q[1]) = NoUser
      BY <1>3, <3>1, <3>2 DEF Free
    <3>4. QED
      BY <1>1, <2>2, <3>3
  <2>3. CASE ~About(Head(q), k)
    <3>1. \A j \in 1..((i + 1) - 1) : ~About(q[j], k)
      <4>1. \A j \in 1..((i + 1) - 1) : j = 1 \/ j \in 2..i
        OBVIOUS
      <4>2. QED
        BY <1>1, <2>1, <2>3, <4>1
    <3>2. m = NoUser
      BY <1>3, <3>1 DEF Free
    <3>3. QED
      BY <2>3, <3>2
  <2>4. QED
    BY <2>2, <2>3
<1>6. ASSUME NEW j \in 1..(i - 1), About(r[j], k), \A h \in (j + 1)..(i - 1) : ~About(r[h], k)
      PROVE Says(r[j]) = NoUser
  <2>1. j + 1 \in 1..((i + 1) - 1) /\ r[j] = q[j + 1]
    BY <1>1
  <2>2. ASSUME NEW h \in ((j + 1) + 1)..((i + 1) - 1) PROVE ~About(q[h], k)
    <3>1. h - 1 \in (j + 1)..(i - 1) /\ h \in 2..i
      OBVIOUS
    <3>2. QED
      BY <1>4, <1>6, <3>1
  <2>3. QED
    BY <1>3, <1>6, <2>1, <2>2 DEF Free
<1>7. QED
  BY <1>5, <1>6

(* The order of the events is kept: a login is answered only on a connection *)
(* without one, so that the events before it leave its entry empty.          *)
LEMMA NextOrdered ==
  TypeOK /\ ConnAttached /\ Settled /\ Ordered /\ [Next]_vars => Ordered'
<1> SUFFICES ASSUME TypeOK, ConnAttached, Settled, Ordered, [Next]_vars,
                    NEW k \in Socket, k \notin cut'
             PROVE  Free(queue', socketToUser'[k], k)
  BY DEF Ordered, Free, About, Says
<1> DEFINE Goal == Free(queue', socketToUser'[k], k)
<1>0. queue \in Seq(Event) /\ (k \notin cut => Free(queue, socketToUser[k], k))
  BY DEF Ordered, TypeOK
<1>1. ASSUME UNCHANGED <<queue, socketToUser, cut>> PROVE Goal
  BY <1>0, <1>1
<1>2. ASSUME NEW e \in Event, queue' = Append(queue, e), UNCHANGED <<socketToUser, cut>>,
             e.type = "userLoggedIn" /\ e.sock = k => login[k] = FALSE
      PROVE  Goal
  <2>1. ASSUME e.type = "userLoggedIn" /\ e.sock = k PROVE Leads(queue, socketToUser[k], NoUser, k)
    <3>1. Due(k) = NoUser /\ k \notin cut
      BY <1>2, <2>1 DEF Due, LoggedIn
    <3>2. QED
      BY <3>1 DEF Settled
  <2>2. QED
    BY <1>0, <1>2, <2>1, FreeAppend
<1>3. ASSUME NEW l \in Socket, HandleLogin(l) PROVE Goal
  <2> DEFINE u == UserOf[peer[l]]
             e == LoginEvent(l, u, name[u])
  <2>1. peer[l] \in Client
    BY <1>3 DEF HandleLogin, Attached, TypeOK
  <2>2. e \in Event
    BY <2>1, ClientAssumption, LoginEventType DEF TypeOK
  <2>3. e.sock = l
    BY DEF LoginEvent
  <2>4. queue' = Append(queue, e) /\ login[l] = FALSE
        /\ UNCHANGED <<socketToUser, cut>>
    BY <1>3 DEF HandleLogin, mapVars, TypeOK
  <2> HIDE DEF e
  <2>5. QED
    BY <1>2, <2>2, <2>3, <2>4
<1>4. ASSUME NEW l \in Socket, HandleLoginWriteFails(l) PROVE Goal
  <2> DEFINE u == UserOf[peer[l]]
             e == LoginEvent(l, u, name[u])
             g == GoneEvent(l)
             q == Append(queue, g)
  <2>1. peer[l] \in Client
    BY <1>4 DEF HandleLoginWriteFails, Attached, TypeOK
  <2>2. e \in Event /\ g \in Event
    BY <2>1, ClientAssumption, LoginEventType, GoneEventType DEF TypeOK
  <2>3. e.sock = l /\ g.sock = l
    BY DEF LoginEvent, GoneEvent
  <2>4. queue' = queue \o <<g, e>> /\ socketToUser' = socketToUser /\ l # k /\ k \notin cut
    BY <1>4 DEF HandleLoginWriteFails, mapVars
  <2> HIDE DEF e, g
  <2>5. queue' = Append(q, e) /\ q \in Seq(Event)
    BY <1>0, <2>2, <2>4
  <2>6. Free(q, socketToUser[k], k)
    BY <1>0, <2>2, <2>3, <2>4, FreeAppend
  <2> HIDE DEF q
  <2>7. Free(Append(q, e), socketToUser[k], k)
    BY <2>2, <2>3, <2>4, <2>5, <2>6, FreeAppend
  <2>8. QED
    BY <2>4, <2>5, <2>7
<1>5. ASSUME NEW l \in Socket, OnDisconnected(l) PROVE Goal
  <2>1. GoneEvent(l).type # "userLoggedIn"
    BY DEF GoneEvent
  <2>2. QED
    BY <1>2, <1>5, <2>1, GoneEventType DEF OnDisconnected, mapVars
<1>6. ASSUME NEW c \in Client, NEW u \in User, Notify(c, u) PROVE Goal
  <2>1. NotifyEvent(u, name[u]).type # "userLoggedIn"
    BY DEF NotifyEvent
  <2>2. QED
    BY <1>2, <1>6, <2>1, NotifyEventType DEF Notify, mapVars, socketVars, TypeOK
<1>7. ASSUME NEW c \in Client, Broadcast(c) PROVE Goal
  <2>1. BroadcastEvent.type # "userLoggedIn"
    BY DEF BroadcastEvent
  <2>2. QED
    BY <1>2, <1>7, <2>1, BroadcastEventType DEF Broadcast, mapVars, socketVars
<1>8. ASSUME queue # <<>>, queue' = Tail(queue), cut' = cut,
             socketToUser'[k] = IF About(Head(queue), k) THEN Says(Head(queue)) ELSE socketToUser[k]
      PROVE  Goal
  BY <1>0, <1>8, FreeTail
<1>9. CASE ProcessLogin
  <2>1. queue # <<>> /\ queue' = Tail(queue) /\ cut' = cut
    BY <1>9 DEF ProcessLogin, Next1, socketVars
  <2>2. socketToUser'[k] = IF About(Head(queue), k) THEN Says(Head(queue)) ELSE socketToUser[k]
    BY <1>9 DEF ProcessLogin, Next1, About, Says, TypeOK
  <2>3. QED
    BY <1>8, <2>1, <2>2
<1>10. CASE ProcessGone
  <2>1. queue # <<>> /\ queue' = Tail(queue) /\ cut' = cut
    BY <1>10 DEF ProcessGone, Next1, socketVars
  <2>2. socketToUser'[k] = IF About(Head(queue), k) THEN Says(Head(queue)) ELSE socketToUser[k]
    <3>1. About(Head(queue), k) <=> Head(queue).sock = k
      BY <1>10 DEF ProcessGone, Next1, About
    <3>2. Says(Head(queue)) = NoUser
      BY <1>10 DEF ProcessGone, Next1, Says
    <3>3. socketToUser'[k] = IF Head(queue).sock = k THEN NoUser ELSE socketToUser[k]
      BY <1>10 DEF ProcessGone, TypeOK, mapVars
    <3>4. QED
      BY <3>1, <3>2, <3>3
  <2>3. QED
    BY <1>8, <2>1, <2>2
<1>11. CASE ProcessNotify \/ ProcessBroadcast
  BY <1>8, <1>11 DEF ProcessNotify, ProcessBroadcast, Next1, About, mapVars, socketVars
<1>12. CASE Die
  <2>1. queue' = <<>>
    BY <1>12 DEF Die
  <2>2. QED
    BY <2>1 DEF Free
<1>13. QED
  BY <1>1, <1>3, <1>4, <1>5, <1>6, <1>7, <1>9, <1>10, <1>11, <1>12
  DEF Next, ClientNext, WorkerNext, MainNext, Connect, Rename, Leave, DeleteSocket,
      vars, socketVars, mapVars

(* The map of online users and that of the sockets agree: the address of a   *)
(* socket is registered for a user only while it is no other user's.         *)
LEMMA NextOwns == TypeOK /\ Ordered /\ OnlineOwns /\ [Next]_vars => OnlineOwns'
<1> SUFFICES ASSUME TypeOK, Ordered, OnlineOwns, [Next]_vars,
                    NEW u \in User, NEW k \in Socket, k \notin cut', onlineUsers'[u] = k
             PROVE  socketToUser'[k] = u
  BY DEF OnlineOwns
<1> DEFINE Goal == socketToUser'[k] = u
<1> USE DEF TypeOK
<1>1. ASSUME UNCHANGED <<onlineUsers, socketToUser>>, cut \subseteq cut' PROVE Goal
  BY <1>1 DEF OnlineOwns
<1>2. CASE ProcessLogin
  <2> DEFINE e == Head(queue)
  <2>1. queue # <<>> /\ e.type = "userLoggedIn" /\ cut' = cut
    BY <1>2 DEF ProcessLogin, Next1, socketVars
  <2>2. e.sock \in Socket /\ e.user \in User
    BY <2>1, HeadType, EventFields
  <2>3. /\ onlineUsers' = [onlineUsers EXCEPT ![e.user] = e.sock]
        /\ socketToUser' = [socketToUser EXCEPT ![e.sock] = e.user]
    BY <1>2 DEF ProcessLogin
  <2> HIDE DEF e
  <2>4. CASE k = e.sock
    <3>1. Free(queue, socketToUser[k], k)
      BY <2>1 DEF Ordered
    <3>2. socketToUser[k] = NoUser
      BY <2>1, <2>4, <3>1, FreeHead DEF e
    <3>3. onlineUsers[u] # k
      BY <2>1, <3>2, NullAssumption DEF OnlineOwns
    <3>4. u = e.user
      BY <2>3, <3>3
    <3>5. QED
      BY <2>2, <2>3, <2>4, <3>4
  <2>5. CASE k # e.sock
    <3>1. onlineUsers[u] = k
      BY <2>2, <2>3, <2>5
    <3>2. socketToUser[k] = u
      BY <2>1, <3>1 DEF OnlineOwns
    <3>3. QED
      BY <2>2, <2>3, <2>5, <3>2
  <2>6. QED
    BY <2>4, <2>5
<1>3. CASE ProcessGone
  <2> DEFINE l == Head(queue).sock
             v == socketToUser[l]
  <2>1. cut' = cut
    BY <1>3 DEF ProcessGone, socketVars
  <2>2. l \in Socket
    BY <1>3, HeadType, EventFields DEF ProcessGone, Next1
  <2> HIDE DEF l
  <2>3. CASE v = NoUser
    <3>1. UNCHANGED mapVars
      BY <1>3, <2>3 DEF ProcessGone, l
    <3>2. QED
      BY <1>1, <2>1, <3>1 DEF mapVars
  <2>4. CASE v # NoUser
    <3>1. /\ onlineUsers' = [onlineUsers EXCEPT ![v] = NoSocket]
          /\ socketToUser' = [socketToUser EXCEPT ![l] = NoUser]
          /\ v \in User
      BY <1>3, <2>2, <2>4 DEF ProcessGone, l
    <3>2. onlineUsers[u] = k /\ u # v
      BY <3>1, NullAssumption
    <3>3. socketToUser[k] = u
      BY <2>1, <3>2 DEF OnlineOwns
    <3>4. QED
      BY <2>2, <3>1, <3>2, <3>3
  <2>5. QED
    BY <2>3, <2>4
<1>4. CASE Die
  BY <1>4, NullAssumption DEF Die
<1>5. ASSUME NEW l \in Socket, HandleLoginWriteFails(l) PROVE Goal
  BY <1>1, <1>5 DEF HandleLoginWriteFails, mapVars
<1>6. QED
  BY <1>1, <1>2, <1>3, <1>4, <1>5
  DEF Next, ClientNext, WorkerNext, MainNext, Connect, Rename, Leave, DeleteSocket,
      HandleLogin, OnDisconnected, Notify, Broadcast, ProcessNotify, ProcessBroadcast,
      vars, socketVars, mapVars

(* An address without a user has no name on record. *)
LEMMA NextBelong == TypeOK /\ NamesBelong /\ [Next]_vars => NamesBelong'
<1> SUFFICES ASSUME TypeOK, NamesBelong, [Next]_vars PROVE NamesBelong'
  OBVIOUS
<1> USE DEF TypeOK, NamesBelong
<1>1. CASE UNCHANGED <<socketToUser, socketToName>>
  BY <1>1
<1>2. CASE ProcessLogin
  <2> DEFINE e == Head(queue)
  <2>1. e.sock \in Socket /\ e.user \in User
    BY <1>2, HeadType, EventFields DEF ProcessLogin, Next1
  <2>2. /\ socketToUser' = [socketToUser EXCEPT ![e.sock] = e.user]
        /\ socketToName' = [socketToName EXCEPT ![e.sock] = e.name]
    BY <1>2 DEF ProcessLogin
  <2> HIDE DEF e
  <2>3. QED
    BY <2>1, <2>2, NullAssumption
<1>3. CASE ProcessGone
  BY <1>3 DEF ProcessGone, mapVars
<1>4. CASE Die
  BY <1>4 DEF Die
<1>5. QED
  BY <1>1, <1>2, <1>3, <1>4
  DEF Next, ClientNext, WorkerNext, MainNext, Connect, Rename, Leave, DeleteSocket,
      HandleLogin, HandleLoginWriteFails, OnDisconnected, Notify, Broadcast,
      ProcessNotify, ProcessBroadcast, vars, mapVars

(* An entry goes only with a socket of its user, and then every other one of *)
(* that user's is masked.                                                    *)
LEMMA NextEntered == TypeOK /\ Entered /\ [Next]_vars => Entered'
<1> SUFFICES ASSUME TypeOK, Entered, [Next]_vars,
                    NEW u \in User, u \notin masked', NEW k \in Socket, socketToUser'[k] = u
             PROVE  onlineUsers'[u] # NoSocket
  BY DEF Entered
<1> DEFINE Goal == onlineUsers'[u] # NoSocket
<1> USE DEF TypeOK
<1>1. CASE UNCHANGED <<onlineUsers, socketToUser, masked>>
  BY <1>1 DEF Entered
<1>2. CASE ProcessLogin
  <2> DEFINE e == Head(queue)
  <2>1. e.sock \in Socket /\ e.user \in User
    BY <1>2, HeadType, EventFields DEF ProcessLogin, Next1
  <2>2. /\ onlineUsers' = [onlineUsers EXCEPT ![e.user] = e.sock]
        /\ socketToUser' = [socketToUser EXCEPT ![e.sock] = e.user]
        /\ masked' = masked \ {e.user}
    BY <1>2 DEF ProcessLogin
  <2> HIDE DEF e
  <2>3. CASE u = e.user
    BY <2>1, <2>2, <2>3, NullAssumption
  <2>4. CASE u # e.user
    <3>1. socketToUser[k] = u /\ u \notin masked /\ onlineUsers'[u] = onlineUsers[u]
      BY <2>1, <2>2, <2>4
    <3>2. QED
      BY <3>1 DEF Entered
  <2>5. QED
    BY <2>3, <2>4
<1>3. CASE ProcessGone
  <2> DEFINE l == Head(queue).sock
             v == socketToUser[l]
  <2>1. l \in Socket
    BY <1>3, HeadType, EventFields DEF ProcessGone, Next1
  <2>2. CASE v = NoUser
    BY <1>1, <1>3, <2>2 DEF ProcessGone, mapVars
  <2>3. CASE v # NoUser
    <3>1. /\ onlineUsers' = [onlineUsers EXCEPT ![v] = NoSocket]
          /\ socketToUser' = [socketToUser EXCEPT ![l] = NoUser]
          /\ masked' = Mask(l, v)
          /\ v \in User
      BY <1>3, <2>1, <2>3 DEF ProcessGone
    <3> HIDE DEF l
    <3>2. k # l /\ socketToUser[k] = u /\ u \notin masked
      BY <2>1, <3>1, NullAssumption DEF Mask
    <3>3. u # v
      BY <3>1, <3>2 DEF Mask
    <3>4. onlineUsers'[u] = onlineUsers[u]
      BY <3>1, <3>3
    <3>5. QED
      BY <3>2, <3>4 DEF Entered
  <2>4. QED
    BY <2>2, <2>3
<1>4. CASE Die
  BY <1>4, NullAssumption DEF Die
<1>5. QED
  BY <1>1, <1>2, <1>3, <1>4
  DEF Next, ClientNext, WorkerNext, MainNext, Connect, Rename, Leave, DeleteSocket,
      HandleLogin, HandleLoginWriteFails, OnDisconnected, Notify, Broadcast,
      ProcessNotify, ProcessBroadcast, vars, mapVars

(* Usernames stay unique, for only UPDATE_PROFILE changes one. *)
LEMMA NextUnique == TypeOK /\ UniqueNames /\ [Next]_vars => UniqueNames'
<1> SUFFICES ASSUME TypeOK, UniqueNames, [Next]_vars PROVE UniqueNames'
  OBVIOUS
<1>1. ASSUME NEW c \in Client, NEW n \in Name, Rename(c, n) PROVE UniqueNames'
  BY <1>1 DEF Rename, UniqueNames, TypeOK
<1>2. CASE UNCHANGED name
  BY <1>2 DEF UniqueNames
<1>3. QED
  BY <1>1, <1>2
  DEF Next, ClientNext, WorkerNext, MainNext, Connect, Leave, DeleteSocket,
      HandleLogin, HandleLoginWriteFails, OnDisconnected, Notify, Broadcast,
      ProcessLogin, ProcessGone, ProcessNotify, ProcessBroadcast, Die, vars

LEMMA MapsAlways == Spec => [](TypeOK /\ Settled /\ MapsInv)
<1>1. Init => ConnAttached /\ Settled /\ MapsInv
  BY NameAssumption, NullAssumption
  DEF Init, ConnAttached, Settled, Leads, Due, LoggedIn, MapsInv, Ordered, Free,
      OnlineOwns, NamesBelong, Entered, UniqueNames
<1>2. TypeOK /\ ConnAttached /\ Settled /\ MapsInv /\ [Next]_vars => MapsInv'
  BY NextOrdered, NextOwns, NextBelong, NextEntered, NextUnique DEF MapsInv
<1>3. QED
  BY <1>1, <1>2, TypeCorrect, NextAttached, NextSettled, PTL DEF Spec

(* With the queue worked off, an address on record for u is a connection of u's. *)
LEMMA RecordIsLogin ==
  ASSUME TypeOK, Settled, queue = <<>>,
         NEW k \in Socket \ cut, NEW u \in User
  PROVE  socketToUser[k] = u <=> k \in LoginsOf(u)
<1>1. socketToUser[k] = Due(k)
  BY DEF Settled, Leads
<1>2. QED
  BY <1>1, NullAssumption DEF Due, LoginsOf

(* The other map: a user's entry is a connection of the user's own, or none,  *)
(* and it is missing for a user who has one only where the disconnection of   *)
(* another socket of the same account has taken it away.                      *)
THEOREM OnlineIsExact == Spec => []OnlineExact
<1>1. TypeOK /\ Settled /\ MapsInv => OnlineExact
  <2> SUFFICES ASSUME TypeOK, Settled, MapsInv, queue = <<>>, NEW u \in User
               PROVE  \/ onlineUsers[u] \in LoginsOf(u) \cup cut
                      \/ /\ onlineUsers[u] = NoSocket
                         /\ u \in masked \/ LoginsOf(u) \subseteq cut
    BY DEF OnlineExact
  <2>1. CASE onlineUsers[u] # NoSocket /\ onlineUsers[u] \notin cut
    <3>1. onlineUsers[u] \in Socket \ cut
      BY <2>1 DEF TypeOK
    <3>2. socketToUser[onlineUsers[u]] = u
      BY <3>1 DEF MapsInv, OnlineOwns
    <3>3. QED
      BY <3>1, <3>2, RecordIsLogin
  <2>2. ASSUME onlineUsers[u] = NoSocket, u \notin masked
        PROVE  LoginsOf(u) \subseteq cut
    <3>1. \A k \in Socket : socketToUser[k] # u
      BY <2>2 DEF MapsInv, Entered
    <3>2. QED
      BY <3>1, RecordIsLogin DEF LoginsOf
  <2>3. QED
    BY <2>1, <2>2
<1>2. QED
  BY <1>1, MapsAlways, PTL

(* What is posted for one user is posted by ProcessNotify, and to the socket *)
(* that the owner of the name is online with.                                *)
LEMMA PushStep ==
  ASSUME TypeOK, MapsInv, Next,
         NEW k \in Socket \ cut, NEW u \in User, <<k, u>> \in posted'
  PROVE  /\ \E l \in Socket : /\ socketToUser[l] = socketToUser[k]
                             /\ socketToName[l] = Head(queue).name
         /\ socketToUser[k] \in User
<1>1. ASSUME NEW ks, Post(ks, Everyone) PROVE FALSE
  BY <1>1, NullAssumption DEF Post
<1>2. ProcessNotify
  BY <1>1 DEF Next, ClientNext, WorkerNext, MainNext, Connect, Rename, Leave,
    DeleteSocket, HandleLogin, HandleLoginWriteFails, OnDisconnected, Notify,
    Broadcast, ProcessLogin, ProcessGone, ProcessBroadcast, Die
<1> DEFINE n == Head(queue).name
<1>3. PICK l \in Named(n) : Post({onlineUsers[socketToUser[l]]}, Head(queue).user)
  BY <1>2 DEF ProcessNotify, Post
<1>4. l \in Socket /\ socketToName[l] = n /\ n \in Name
  <2>1. n \in Name
    BY <1>2, HeadType, EventFields DEF ProcessNotify, Next1, TypeOK
  <2>2. QED
    BY <1>3, <2>1 DEF Named
<1>5. socketToUser[l] \in User
  BY <1>4, NullAssumption DEF MapsInv, NamesBelong, TypeOK
<1>6. k = onlineUsers[socketToUser[l]]
  BY <1>3 DEF Post
<1>7. socketToUser[k] = socketToUser[l]
  BY <1>5, <1>6 DEF MapsInv, OnlineOwns
<1>8. QED
  BY <1>4, <1>5, <1>7

(* A push goes to the account that has logged in under the name it was sent   *)
(* to, or to nobody; if that is not the account it is for, one of the two no  *)
(* longer has that name.                                                      *)
THEOREM PushesReachTheirOwner == Spec => PushToOwner
<1> DEFINE Step == \A k \in Socket \ cut, u \in User : <<k, u>> \in posted' =>
             LET n == Head(queue).name
                 v == socketToUser[k]
             IN  /\ \E l \in Socket : socketToUser[l] = v /\ socketToName[l] = n
                 /\ v \in User
                 /\ v = u \/ name[v] # n \/ name[u] # n
<1>1. TypeOK /\ MapsInv /\ [Next]_vars => [Step]_vars
  BY PushStep DEF MapsInv, UniqueNames
<1>2. QED
  BY <1>1, MapsAlways, PTL DEF Spec, PushToOwner

-----------------------------------------------------------------------------
(***************************************************************************)
(* Proofs about Notifications, for any users and clients, and any number   *)
(* of rows, requests and faults.                                           *)
(*                                                                         *)
(* BadgeExact and CardsExact speak of a client with nothing on its way.    *)
(* NotesInv says of every moment what the client will show once all that   *)
(* is on its way to it has come: Run follows an answer or a push at a time *)
(* from what is shown to what will be.                                     *)
(***************************************************************************)

(* Types. *)

Request == [type : {"COUNT", "LIST"}] \cup [type : {"MARK"}, id : Id]
Response ==
  [type : {"COUNT"}, count : 0..MaxNotes] \cup [type : {"LIST"}, unread : SUBSET Id]
    \cup [type : {"MARK"}, ok : BOOLEAN] \cup [type : {"NEW"}, id : Id]

Stored == {i \in Id : note[i] # NoNote}

TableTyped ==
  /\ note \in [Id -> Note \cup {NoNote}]
  /\ Stored = 1..Rows
  /\ \A i \in Id : i > 1 /\ note[i] # NoNote => note[i - 1].at <= note[i].at
EventsTyped ==
  /\ events \in Seq(Id)
  /\ \A k \in 1..Len(events) : note[events[k]] # NoNote
  /\ \A j, k \in 1..Len(events) : j # k => events[j] # events[k]
RegistryTyped ==
  /\ owner \in [Client -> User]
  /\ record \in [User -> Client \cup {NoClient}]
  /\ \A u \in User : record[u] # NoClient => owner[record[u]] = u
(* Requests and answers are about rows of the user of the client.             *)
Asking(c) == {r \in Request : r.type = "MARK" => r.id \in Mine(c)}
Telling(c) == {m \in Response : m.type = "LIST" => m.unread \subseteq Mine(c)}
WiresTyped ==
  /\ line \in [Client -> Seq(Request)]
  /\ down \in [Client -> Seq(Response)]
  /\ \A c \in Client : line[c] \in Seq(Asking(c)) /\ down[c] \in Seq(Telling(c))
PagesTyped ==
  /\ badge \in [Client -> Int]
  /\ buttons \in [Client -> SUBSET Id]
  /\ \A c \in Client : buttons[c] \subseteq Mine(c)
GhostsTyped ==
  /\ seen \in [Client -> SUBSET Id]
  /\ sure \in [Client -> SUBSET Id]
  /\ off \in [Client -> Causes]
  /\ \A c \in Client : seen[c] \subseteq Mine(c) /\ sure[c] \subseteq Mine(c)

NotesTyped ==
  TableTyped /\ EventsTyped /\ RegistryTyped /\ WiresTyped /\ PagesTyped /\ GhostsTyped

-----------------------------------------------------------------------------
(* Sequences. *)

LEMMA AppendSeq ==
  ASSUME NEW S, NEW q \in Seq(S), NEW m \in S
  PROVE /\ Append(q, m) \in Seq(S)
        /\ Len(q) \in Nat
        /\ Len(Append(q, m)) = Len(q) + 1
        /\ Append(q, m)[Len(q) + 1] = m
        /\ \A i \in 1..Len(q) : Append(q, m)[i] = q[i]
OBVIOUS

LEMMA TailSeq ==
  ASSUME NEW S, NEW q \in Seq(S), q # <<>>
  PROVE /\ Tail(q) \in Seq(S)
        /\ Head(q) \in S
        /\ Head(q) = q[1]
        /\ Len(q) \in Nat \ {0}
        /\ Len(Tail(q)) = Len(q) - 1
        /\ \A i \in 1..(Len(q) - 1) : Tail(q)[i] = q[i + 1]
OBVIOUS

LEMMA SeqWider ==
  ASSUME NEW S, NEW T, S \subseteq T, NEW q \in Seq(S)
  PROVE q \in Seq(T)
OBVIOUS

-----------------------------------------------------------------------------
(* The table. *)

LEMMA ResponseFields ==
  ASSUME NEW m \in Response
  PROVE /\ m.type \in {"COUNT", "LIST", "MARK", "NEW"}
        /\ m.type = "COUNT" => m.count \in 0..MaxNotes
        /\ m.type = "LIST" => m.unread \in SUBSET Id
        /\ m.type = "MARK" => m.ok \in BOOLEAN
        /\ m.type = "NEW" => m.id \in Id
BY DEF Response

LEMMA Requests ==
  /\ [type |-> "COUNT"] \in Request /\ [type |-> "LIST"] \in Request
  /\ \A i \in Id : [type |-> "MARK", id |-> i] \in Request
BY DEF Request

LEMMA Responses ==
  /\ \A n \in 0..MaxNotes : [type |-> "COUNT", count |-> n] \in Response
  /\ \A L \in SUBSET Id : [type |-> "LIST", unread |-> L] \in Response
  /\ \A ok \in BOOLEAN : [type |-> "MARK", ok |-> ok] \in Response
  /\ \A i \in Id : [type |-> "NEW", id |-> i] \in Response
BY DEF Response

(* Sets of rows are small. *)
LEMMA FewRows ==
  ASSUME NEW S \in SUBSET Id
  PROVE IsFiniteSet(S) /\ Cardinality(S) \in 0..MaxNotes
<1>1. IsFiniteSet(Id) /\ Cardinality(Id) = MaxNotes
  BY NotesBoundAssumption, FS_Interval DEF Id
<1>2. IsFiniteSet(S) /\ Cardinality(S) <= MaxNotes
  BY <1>1, FS_Subset
<1>3. QED
  BY <1>2, NotesBoundAssumption, FS_CardinalityType

LEMMA RowsThere ==
  ASSUME TableTyped
  PROVE /\ Rows \in 0..MaxNotes
        /\ \A i \in Id : note[i] # NoNote <=> i <= Rows
        /\ \A i \in Id : note[i] # NoNote => note[i] \in Note
<1>1. Stored \in SUBSET Id /\ Rows = Cardinality(Stored)
  BY DEF Stored, Rows
<1>2. Rows \in 0..MaxNotes
  BY <1>1, FewRows
<1>3. \A i \in Id : note[i] # NoNote <=> i <= Rows
  <2>1. \A i \in Id : i \in Stored <=> i \in 1..Rows
    BY DEF TableTyped
  <2>2. QED
    BY <1>2, <2>1 DEF Stored, Id
<1>4. QED
  BY <1>2, <1>3 DEF TableTyped

LEMMA InitTyped == NotesInit => NotesTyped
<1> SUFFICES ASSUME NotesInit PROVE NotesTyped
  OBVIOUS
<1>1. TableTyped
  <2>1. Stored = {}
    BY DEF NotesInit, Stored
  <2>2. Rows = 0
    BY <2>1, FS_EmptySet DEF Rows, Stored
  <2>3. 1..0 = {}
    OBVIOUS
  <2>4. QED
    BY <2>1, <2>2, <2>3 DEF TableTyped, NotesInit
<1>2. EventsTyped
  BY DEF EventsTyped, NotesInit
<1>3. RegistryTyped
  BY NoClientAssumption DEF RegistryTyped, NotesInit
<1>4. WiresTyped
  BY DEF WiresTyped, NotesInit
<1>5. PagesTyped
  BY DEF PagesTyped, NotesInit
<1>6. GhostsTyped
  BY DEF GhostsTyped, NotesInit, Causes
<1>7. QED
  BY <1>1, <1>2, <1>3, <1>4, <1>5, <1>6 DEF NotesTyped

-----------------------------------------------------------------------------
(* Rows are added and read, and nothing else happens to them. *)

Stays == \A i \in Id : note[i] # NoNote => note'[i] # NoNote /\ note'[i].to = note[i].to

LEMMA MineGrows ==
  ASSUME Stays, owner' = owner
  PROVE \A c : /\ Mine(c) \subseteq Mine(c)'
               /\ Asking(c) \subseteq Asking(c)'
               /\ Telling(c) \subseteq Telling(c)'
<1>1. \A c : Mine(c) \subseteq Mine(c)'
  BY DEF Stays, Mine, There
<1>2. \A c : Asking(c) \subseteq Asking(c)'
  BY <1>1 DEF Asking
<1>3. \A c : Telling(c) \subseteq Telling(c)'
  BY <1>1 DEF Telling
<1>4. QED
  BY <1>1, <1>2, <1>3

LEMMA WiresStay ==
  ASSUME WiresTyped, Stays, owner' = owner, line' = line, down' = down
  PROVE WiresTyped'
<1>1. \A c \in Client : line[c] \in Seq(Asking(c)') /\ down[c] \in Seq(Telling(c)')
  BY MineGrows, SeqWider DEF WiresTyped
<1>2. QED
  BY <1>1 DEF WiresTyped

LEMMA PagesStay ==
  ASSUME PagesTyped, Stays, owner' = owner, badge' = badge, buttons' = buttons
  PROVE PagesTyped'
BY MineGrows DEF PagesTyped

LEMMA UpsetTyped ==
  ASSUME GhostsTyped, NEW cause, \A c \in Client : cause[c] \in Causes, Upset(cause)
  PROVE /\ off' \in [Client -> Causes] /\ seen' \in [Client -> SUBSET Id]
        /\ \A c \in Client : seen'[c] \subseteq seen[c]
<1>1. \A c \in Client : (IF off[c] = "none" THEN cause[c] ELSE off[c]) \in Causes
  BY DEF GhostsTyped
<1>2. off' \in [Client -> Causes]
  BY <1>1 DEF Upset
<1>3. \A c \in Client : (IF off'[c] = "none" THEN seen[c] ELSE {}) \in SUBSET seen[c]
  OBVIOUS
<1>4. seen' = [c \in Client |-> IF off'[c] = "none" THEN seen[c] ELSE {}]
  BY DEF Upset
<1>5. \A c \in Client : seen'[c] \subseteq seen[c]
  BY <1>3, <1>4
<1>6. seen' \in [Client -> SUBSET Id]
  BY <1>3, <1>4 DEF GhostsTyped
<1>7. QED
  BY <1>2, <1>5, <1>6

LEMMA AnswerTyped ==
  ASSUME NotesTyped, NEW c \in Client, NEW m \in Telling(c)', line[c] # <<>>, Answer(c, m), Stays
  PROVE EventsTyped' /\ RegistryTyped' /\ WiresTyped' /\ PagesTyped'
<1>1. owner' = owner /\ events' = events /\ record' = record /\ badge' = badge /\ buttons' = buttons
  BY DEF Answer, pages
<1>2. EventsTyped'
  BY <1>1 DEF NotesTyped, EventsTyped, Stays
<1>3. RegistryTyped'
  BY <1>1 DEF NotesTyped, RegistryTyped
<1>4. PagesTyped'
  BY <1>1, PagesStay DEF NotesTyped
<1>5. /\ line \in [Client -> Seq(Request)] /\ down \in [Client -> Seq(Response)]
      /\ m \in Response
  BY DEF NotesTyped, WiresTyped, Telling
<1>6. \A d \in Client : line[d] \in Seq(Asking(d)') /\ down[d] \in Seq(Telling(d)')
  BY <1>1, MineGrows, SeqWider DEF NotesTyped, WiresTyped
<1>7. /\ Tail(line[c]) \in Seq(Request) /\ Tail(line[c]) \in Seq(Asking(c)')
      /\ Append(down[c], m) \in Seq(Response) /\ Append(down[c], m) \in Seq(Telling(c)')
  BY <1>5, <1>6, TailSeq, AppendSeq
<1>8. line' = [line EXCEPT ![c] = Tail(line[c])] /\ down' = [down EXCEPT ![c] = Append(down[c], m)]
  BY DEF Answer
<1>9. line' \in [Client -> Seq(Request)] /\ down' \in [Client -> Seq(Response)]
  BY <1>5, <1>7, <1>8
<1>10. \A d \in Client : line'[d] \in Seq(Asking(d)') /\ down'[d] \in Seq(Telling(d)')
  BY <1>5, <1>6, <1>7, <1>8
<1>11. WiresTyped'
  BY <1>9, <1>10 DEF WiresTyped
<1>12. QED
  BY <1>2, <1>3, <1>4, <1>11

(* A row is announced. *)
LEMMA CreateTyped ==
  ASSUME NotesTyped, NEW u \in User, CreateNotification(u)
  PROVE /\ NotesTyped'
        /\ Stays
        /\ \E i \in Id : /\ note[i] = NoNote /\ events' = Append(events, i)
                         /\ note'[i].to = u /\ note'[i].read = FALSE
                         /\ \A j \in Id : j # i => note'[j] = note[j]
                         /\ note'[i] # NoNote
<1>1. Rows \in 0..MaxNotes /\ (\A i \in Id : note[i] # NoNote <=> i <= Rows)
      /\ \A i \in Id : note[i] # NoNote => note[i] \in Note
  BY RowsThere DEF NotesTyped
<1> DEFINE n == Rows
           i == n + 1
<1>2. i \in Id /\ n \in Nat /\ note[i] = NoNote /\ (n # 0 => n \in Id /\ note[n] # NoNote)
  <2>1. n < MaxNotes /\ n \in Nat
    BY <1>1 DEF CreateNotification
  <2>2. i \in Id /\ ~(i <= n) /\ (n # 0 => n \in Id /\ n <= n)
    BY <2>1, NotesBoundAssumption DEF Id
  <2>3. QED
    BY <1>1, <2>1, <2>2
<1>3. n # 0 => note[n].at \in Nat
  BY <1>1, <1>2 DEF Note
<1>4. Newest \in Nat /\ (n # 0 => Newest = note[n].at)
  BY <1>2, <1>3 DEF Newest
<1>5. PICK t \in {Newest, Newest + 1} :
        note' = [note EXCEPT ![i] = [to |-> u, read |-> FALSE, at |-> t]]
  BY DEF CreateNotification
<1>6. t \in Nat /\ t >= Newest
  BY <1>4, <1>5
<1> HIDE DEF n
<1> DEFINE new == [to |-> u, read |-> FALSE, at |-> t]
<1>7. new \in Note /\ new # NoNote
  <2>1. new \in Note
    BY <1>6 DEF Note
  <2>2. QED
    BY <2>1, NoNoteAssumption
<1>8. /\ note' \in [Id -> Note \cup {NoNote}]
      /\ note'[i] = new
      /\ \A j \in Id : j # i => note'[j] = note[j]
  BY <1>2, <1>5, <1>7 DEF NotesTyped, TableTyped
<1>9. Stays
  BY <1>2, <1>8 DEF Stays
<1>10. /\ events' = Append(events, i) /\ record' = record /\ owner' = owner
       /\ line' = line /\ down' = down /\ badge' = badge /\ buttons' = buttons
       /\ seen' = seen /\ off' = off /\ sure' = sure
  BY DEF CreateNotification, wires, pages, ghosts, n
<1>11. TableTyped'
  <2>1. Stored' = 1..(n + 1)
    <3>1. \A j \in Id : note'[j] # NoNote <=> j <= n + 1
      BY <1>1, <1>2, <1>7, <1>8 DEF n, Id
    <3>2. \A j \in 1..(n + 1) : j \in Id
      BY <1>2, NotesBoundAssumption DEF Id
    <3>3. \A j \in Id : j <= n + 1 <=> j \in 1..(n + 1)
      BY <1>2 DEF Id
    <3>4. QED
      BY <3>1, <3>2, <3>3 DEF Stored
  <2>2. Rows' = n + 1
    <3>1. Cardinality(1..(n + 1)) = n + 1
      BY <1>2, FS_Interval
    <3>2. QED
      BY <2>1, <3>1 DEF Rows, Stored
  <2>3. ASSUME NEW j \in Id, j > 1, note'[j] # NoNote PROVE note'[j - 1].at <= note'[j].at
    <3>1. j - 1 \in Id /\ j - 1 # j
      BY <2>3, NotesBoundAssumption DEF Id
    <3>2. CASE j = i
      BY <1>2, <1>4, <1>6, <1>8, <2>3, <3>1, <3>2 DEF Id
    <3>3. CASE j # i
      <4>1. note'[j] = note[j] /\ j <= n
        BY <1>1, <1>8, <2>3, <3>3 DEF n
      <4>2. j - 1 # i
        BY <1>2, <4>1 DEF Id
      <4>3. note'[j - 1] = note[j - 1]
        BY <1>8, <3>1, <4>2
      <4>4. QED
        BY <2>3, <4>1, <4>3 DEF NotesTyped, TableTyped
    <3>4. QED
      BY <3>2, <3>3
  <2>4. QED
    BY <1>8, <2>1, <2>2, <2>3 DEF TableTyped
<1>12. EventsTyped'
  <2>0. events \in Seq(Id)
    BY DEF NotesTyped, EventsTyped
  <2>1. /\ events' \in Seq(Id) /\ Len(events') = Len(events) + 1 /\ Len(events) \in Nat
        /\ events'[Len(events) + 1] = i
        /\ \A k \in 1..Len(events) : events'[k] = events[k] /\ events[k] \in Id
    BY <1>2, <1>10, <2>0, AppendSeq
  <2>2. \A k \in 1..(Len(events) + 1) : k = Len(events) + 1 \/ k \in 1..Len(events)
    BY <2>1
  <2>3. \A k \in 1..Len(events) : events[k] # i /\ note'[events[k]] # NoNote
    BY <1>2, <1>9, <2>1 DEF NotesTyped, EventsTyped, Stays
  <2>4. \A k \in 1..Len(events') : note'[events'[k]] # NoNote
    BY <1>7, <1>8, <2>1, <2>2, <2>3
  <2>5. \A j, k \in 1..Len(events') : j # k => events'[j] # events'[k]
    BY <2>1, <2>2, <2>3 DEF NotesTyped, EventsTyped
  <2>6. QED
    BY <2>1, <2>4, <2>5 DEF EventsTyped
<1>13. RegistryTyped'
  BY <1>10 DEF NotesTyped, RegistryTyped
<1>14. WiresTyped' /\ PagesTyped'
  BY <1>9, <1>10, WiresStay, PagesStay DEF NotesTyped
<1>15. GhostsTyped'
  BY <1>9, <1>10, MineGrows DEF NotesTyped, GhostsTyped
<1>16. NotesTyped'
  BY <1>11, <1>12, <1>13, <1>14, <1>15 DEF NotesTyped
<1>17. QED
  BY <1>2, <1>7, <1>8, <1>9, <1>10, <1>16

LEMMA TableStays ==
  ASSUME NotesTyped, note' = note
  PROVE TableTyped' /\ Stays
BY DEF NotesTyped, TableTyped, Stored, Rows, Stays

(* A row is read. *)
LEMMA ReadRow ==
  ASSUME NotesTyped, NEW i \in Id, note[i] # NoNote, note' = [note EXCEPT ![i].read = TRUE]
  PROVE /\ TableTyped' /\ Stays
        /\ note'[i].read = TRUE
        /\ \A j \in Id : j # i => note'[j] = note[j]
        /\ \A j \in Id : note'[j] # NoNote <=> note[j] # NoNote
<1>1. note[i] \in Note /\ note \in [Id -> Note \cup {NoNote}]
  BY RowsThere DEF NotesTyped, TableTyped
<1>2. note' = [note EXCEPT ![i] = [note[i] EXCEPT !.read = TRUE]]
  OBVIOUS
<1> DEFINE new == [note[i] EXCEPT !.read = TRUE]
<1>3. new \in Note /\ new.to = note[i].to /\ new.at = note[i].at /\ new.read = TRUE
  BY <1>1 DEF Note
<1>4. new # NoNote
  BY <1>3, NoNoteAssumption
<1> HIDE DEF new
<1>5. note' = [note EXCEPT ![i] = new]
  BY <1>2 DEF new
<1>6. /\ note' \in [Id -> Note \cup {NoNote}]
      /\ note'[i] = new
      /\ \A j \in Id : j # i => note'[j] = note[j]
  BY <1>1, <1>3, <1>5
<1>7. \A j \in Id : /\ note'[j] # NoNote <=> note[j] # NoNote
                    /\ note'[j].at = note[j].at /\ note'[j].to = note[j].to
  BY <1>3, <1>4, <1>6
<1>8. Stored' = Stored
  BY <1>7 DEF Stored
<1>9. Rows' = Rows
  <2>1. Rows = Cardinality(Stored) /\ Rows' = Cardinality(Stored')
    BY DEF Rows, Stored
  <2>2. QED
    BY <1>8, <2>1
<1>10. \A j \in Id : j > 1 => j - 1 \in Id
  BY NotesBoundAssumption DEF Id
<1>11. TableTyped'
  BY <1>6, <1>7, <1>8, <1>9, <1>10 DEF NotesTyped, TableTyped
<1>12. Stays
  BY <1>7 DEF Stays
<1>13. QED
  BY <1>3, <1>6, <1>7, <1>11, <1>12

(* The push of the first row emitted goes to one client of its user, or to    *)
(* none.                                                                      *)
LEMMA PushTyped ==
  ASSUME NotesTyped, PushNotification
  PROVE NotesTyped'
<1> DEFINE i == Head(events)
           u == note[i].to
           c == record[u]
<1>1. /\ events # <<>> /\ events' = Tail(events) /\ note' = note /\ owner' = owner /\ record' = record
      /\ line' = line /\ badge' = badge /\ buttons' = buttons /\ sure' = sure
  BY DEF PushNotification, pages
<1>2. /\ Tail(events) \in Seq(Id) /\ i \in Id /\ i = events[1] /\ Len(events) \in Nat \ {0}
      /\ Len(Tail(events)) = Len(events) - 1
      /\ \A k \in 1..(Len(events) - 1) : Tail(events)[k] = events[k + 1]
  BY <1>1, TailSeq DEF NotesTyped, EventsTyped
<1>3. EventsTyped'
  <2>1. \A k \in 1..(Len(events) - 1) : k + 1 \in 1..Len(events)
    BY <1>2
  <2>2. \A j, k \in 1..(Len(events) - 1) : j # k => j + 1 # k + 1
    BY <1>2
  <2>3. QED
    BY <1>1, <1>2, <2>1, <2>2 DEF NotesTyped, EventsTyped
<1>4. note[i] # NoNote
  BY <1>2 DEF NotesTyped, EventsTyped
<1>5. u \in User
  BY <1>2, <1>4, RowsThere DEF NotesTyped, Note
<1>6. TableTyped' /\ Stays
  BY <1>1, TableStays
<1>7. RegistryTyped' /\ PagesTyped'
  BY <1>1, <1>6, PagesStay DEF NotesTyped, RegistryTyped
<1>8. \/ down' = down
      \/ c # NoClient /\ down' = [down EXCEPT ![c] = Append(@, [type |-> "NEW", id |-> i])]
  BY DEF PushNotification
<1>9. WiresTyped'
  <2>1. CASE down' = down
    BY <1>1, <1>6, <2>1, WiresStay DEF NotesTyped
  <2>2. CASE c # NoClient /\ down' = [down EXCEPT ![c] = Append(@, [type |-> "NEW", id |-> i])]
    <3> DEFINE m == [type |-> "NEW", id |-> i]
    <3>1. c \in Client
      BY <1>5, <2>2 DEF NotesTyped, RegistryTyped
    <3>2. m \in Response /\ m.type = "NEW"
      BY <1>2, Responses
    <3>3. m \in Telling(c)
      BY <3>2 DEF Telling
    <3> HIDE DEF m
    <3>4. /\ Append(down[c], m) \in Seq(Response)
          /\ Append(down[c], m) \in Seq(Telling(c))
      BY <3>1, <3>2, <3>3, AppendSeq DEF NotesTyped, WiresTyped
    <3>5. down' = [down EXCEPT ![c] = Append(down[c], m)]
      BY <2>2 DEF m
    <3>6. \A d : Asking(d)' = Asking(d) /\ Telling(d)' = Telling(d)
      <4>1. \A d : Mine(d)' = Mine(d)
        BY <1>1 DEF Mine, There
      <4>2. \A d : Asking(d)' = Asking(d)
        BY <4>1 DEF Asking
      <4>3. \A d : Telling(d)' = Telling(d)
        BY <4>1 DEF Telling
      <4>4. QED
        BY <4>2, <4>3
    <3>7. /\ down' \in [Client -> Seq(Response)] /\ down'[c] = Append(down[c], m)
          /\ \A d \in Client : d # c => down'[d] = down[d]
      BY <3>1, <3>4, <3>5 DEF NotesTyped, WiresTyped
    <3>8. \A d \in Client : down'[d] \in Seq(Telling(d))
      BY <3>4, <3>7 DEF NotesTyped, WiresTyped
    <3>9. QED
      BY <1>1, <3>6, <3>7, <3>8 DEF NotesTyped, WiresTyped
  <2>3. QED
    BY <1>8, <2>1, <2>2
<1>10. GhostsTyped'
  <2>1. \E d : Pushed(u, d, i)
    BY DEF PushNotification
  <2>2. PICK cause : (\A d \in Client : cause[d] \in Causes) /\ Upset(cause)
    BY <2>1 DEF Pushed, Causes
  <2>3. /\ off' \in [Client -> Causes] /\ seen' \in [Client -> SUBSET Id]
        /\ \A d \in Client : seen'[d] \subseteq seen[d]
    BY <2>2, UpsetTyped DEF NotesTyped
  <2>4. QED
    BY <1>1, <1>6, <2>3, MineGrows DEF NotesTyped, GhostsTyped
<1>11. QED
  BY <1>3, <1>6, <1>7, <1>9, <1>10 DEF NotesTyped

LEMMA FirstAsked ==
  ASSUME NotesTyped, NEW c \in Client, line[c] # <<>>
  PROVE /\ Head(line[c]) \in Request /\ Head(line[c]) \in Asking(c)
        /\ Head(line[c]).type = "MARK" => Head(line[c]).id \in Mine(c)
<1>1. Head(line[c]) \in Asking(c)
  BY TailSeq DEF NotesTyped, WiresTyped
<1>2. QED
  BY <1>1 DEF Asking

LEMMA CountTyped ==
  ASSUME NotesTyped, NEW c \in Client, GetUnreadNotificationsCount(c)
  PROVE NotesTyped'
<1>1. line[c] # <<>> /\ note' = note /\ sure' = sure
  BY DEF GetUnreadNotificationsCount, Takes
<1>2. TableTyped' /\ Stays
  BY <1>1, TableStays
<1>3. Unread(owner[c]) \in SUBSET Id /\ Mine(c) \in SUBSET Id
  BY DEF Unread, There, Mine
<1>4. Cardinality(Unread(owner[c])) \in 0..MaxNotes /\ 0 \in 0..MaxNotes
  BY <1>3, FewRows, NotesBoundAssumption
<1>5. PICK n \in 0..MaxNotes : Answer(c, [type |-> "COUNT", count |-> n])
  BY <1>4 DEF GetUnreadNotificationsCount
<1>6. [type |-> "COUNT", count |-> n] \in Telling(c)'
  BY Responses DEF Telling
<1>7. EventsTyped' /\ RegistryTyped' /\ WiresTyped' /\ PagesTyped'
  BY <1>1, <1>2, <1>5, <1>6, AnswerTyped
<1>8. GhostsTyped'
  <2>1. owner' = owner
    BY <1>5 DEF Answer
  <2>2. \A d : Mine(d)' = Mine(d)
    BY <1>1, <2>1 DEF Mine, There
  <2>3. off' \in [Client -> Causes]
    BY DEF GetUnreadNotificationsCount, NotesTyped, GhostsTyped, Causes
  <2>4. \/ seen' = [seen EXCEPT ![c] = Mine(c)]
        \/ seen' = [seen EXCEPT ![c] = {}]
    BY DEF GetUnreadNotificationsCount
  <2>5. seen' \in [Client -> SUBSET Id] /\ \A d \in Client : seen'[d] \subseteq Mine(d)
    BY <1>3, <2>4 DEF NotesTyped, GhostsTyped
  <2>6. QED
    BY <1>1, <2>2, <2>3, <2>5 DEF NotesTyped, GhostsTyped
<1>9. QED
  BY <1>2, <1>7, <1>8 DEF NotesTyped

LEMMA ListTyped ==
  ASSUME NotesTyped, NEW c \in Client, GetNotifications(c)
  PROVE NotesTyped'
<1>1. line[c] # <<>> /\ note' = note /\ seen' = seen /\ off' = off
  BY DEF GetNotifications, Takes
<1>2. PICK L \in Lists(owner[c]) :
        /\ Answer(c, [type |-> "LIST", unread |-> L \cap Unread(owner[c])])
        /\ sure' = [sure EXCEPT ![c] = L]
  BY DEF GetNotifications
<1>3. L \subseteq Mine(c) /\ L \in SUBSET Id
  BY DEF Lists, Mine, There
<1>4. TableTyped' /\ Stays
  BY <1>1, TableStays
<1>5. owner' = owner
  BY <1>2 DEF Answer
<1>6. \A d : Mine(d)' = Mine(d)
  BY <1>1, <1>5 DEF Mine, There
<1>7. [type |-> "LIST", unread |-> L \cap Unread(owner[c])] \in Telling(c)'
  <2>1. L \cap Unread(owner[c]) \in SUBSET Id
    BY <1>3
  <2>2. [type |-> "LIST", unread |-> L \cap Unread(owner[c])] \in Response
    BY <2>1, Responses
  <2>3. QED
    BY <1>3, <1>6, <2>2 DEF Telling
<1>8. EventsTyped' /\ RegistryTyped' /\ WiresTyped' /\ PagesTyped'
  BY <1>1, <1>2, <1>4, <1>7, AnswerTyped
<1>9. GhostsTyped'
  BY <1>1, <1>2, <1>3, <1>6 DEF NotesTyped, GhostsTyped
<1>10. QED
  BY <1>4, <1>8, <1>9 DEF NotesTyped

(* What a reading does to the rows, and to what is known of them.             *)
LEMMA MarkParts ==
  ASSUME NotesTyped, NEW c \in Client, MarkNotificationRead(c)
  PROVE LET i == Head(line[c]).id
            others == {d \in Client \ {c} : owner[d] = owner[c]}
        IN  /\ line[c] # <<>> /\ Head(line[c]).type = "MARK"
            /\ i \in Id /\ i \in Mine(c) /\ note[i] # NoNote
            /\ \E ok \in BOOLEAN : Answer(c, [type |-> "MARK", ok |-> ok])
            /\ \/ /\ ~note[i].read /\ note' = [note EXCEPT ![i].read = TRUE]
                  /\ Answer(c, [type |-> "MARK", ok |-> TRUE])
                  /\ Upset(Among(others, "elsewhere"))
                  /\ sure' = [d \in Client |-> IF d \in others \/ Offered(d, i) THEN sure[d] \ {i}
                                              ELSE sure[d]]
               \/ /\ note[i].read /\ note' = note /\ Answer(c, [type |-> "MARK", ok |-> FALSE])
                  /\ seen' = seen /\ off' = off /\ sure' = sure
               \/ /\ note' = note /\ Answer(c, [type |-> "MARK", ok |-> FALSE])
                  /\ seen' = seen /\ off' = off /\ sure' = [sure EXCEPT ![c] = @ \ {i}]
<1>1. line[c] # <<>> /\ Head(line[c]).type = "MARK"
  BY DEF MarkNotificationRead, Takes
<1>2. Head(line[c]).id \in Mine(c)
  BY <1>1, FirstAsked
<1>3. Head(line[c]).id \in Id /\ note[Head(line[c]).id] # NoNote
  BY <1>2 DEF Mine, There
<1>4. \E ok \in BOOLEAN : Answer(c, [type |-> "MARK", ok |-> ok])
  BY DEF MarkNotificationRead
<1>5. QED
  BY <1>1, <1>2, <1>3, <1>4 DEF MarkNotificationRead, ghosts

LEMMA MarkTyped ==
  ASSUME NotesTyped, NEW c \in Client, MarkNotificationRead(c)
  PROVE NotesTyped' /\ Stays
<1> DEFINE i == Head(line[c]).id
           others == {d \in Client \ {c} : owner[d] = owner[c]}
<1>1. line[c] # <<>> /\ i \in Id /\ note[i] # NoNote
  BY MarkParts
<1>2. PICK ok \in BOOLEAN : Answer(c, [type |-> "MARK", ok |-> ok])
  BY MarkParts
<1>3. note' = note \/ note' = [note EXCEPT ![i].read = TRUE]
  BY MarkParts
<1>4. TableTyped' /\ Stays
  BY <1>1, <1>3, TableStays, ReadRow
<1>5. [type |-> "MARK", ok |-> ok] \in Telling(c)'
  BY Responses DEF Telling
<1>6. EventsTyped' /\ RegistryTyped' /\ WiresTyped' /\ PagesTyped'
  BY <1>1, <1>2, <1>4, <1>5, AnswerTyped
<1>7. off' \in [Client -> Causes] /\ seen' \in [Client -> SUBSET Id]
      /\ \A d \in Client : seen'[d] \subseteq seen[d]
  <2>1. CASE Upset(Among(others, "elsewhere"))
    <3>1. \A d \in Client : Among(others, "elsewhere")[d] \in Causes
      BY DEF Among, Causes
    <3>2. QED
      BY <2>1, <3>1, UpsetTyped DEF NotesTyped
  <2>2. CASE seen' = seen /\ off' = off
    BY <2>2 DEF NotesTyped, GhostsTyped
  <2>3. QED
    BY <2>1, <2>2, MarkParts
<1>8. sure' \in [Client -> SUBSET Id] /\ \A d \in Client : sure'[d] \subseteq sure[d]
  <2>1. \/ sure' = [d \in Client |-> IF d \in others \/ Offered(d, i) THEN sure[d] \ {i} ELSE sure[d]]
        \/ sure' = sure
        \/ sure' = [sure EXCEPT ![c] = @ \ {i}]
    BY MarkParts
  <2>2. QED
    BY <2>1 DEF NotesTyped, GhostsTyped
<1>9. owner' = owner
  BY <1>2 DEF Answer
<1>10. GhostsTyped'
  BY <1>4, <1>7, <1>8, <1>9, MineGrows DEF NotesTyped, GhostsTyped
<1>11. QED
  BY <1>4, <1>6, <1>10 DEF NotesTyped

-----------------------------------------------------------------------------
(* The client. *)

LEMMA AskTyped ==
  ASSUME NotesTyped, NEW c \in Client, NEW requests \in Seq(Asking(c)), Ask(c, requests),
         buttons' = buttons \/ \E i \in Id : buttons' = [buttons EXCEPT ![c] = @ \ {i}]
  PROVE NotesTyped'
<1>1. /\ note' = note /\ events' = events /\ record' = record /\ owner' = owner /\ down' = down
      /\ badge' = badge /\ seen' = seen /\ off' = off /\ sure' = sure
      /\ line' = [line EXCEPT ![c] = line[c] \o requests]
  BY DEF Ask, server, ghosts
<1>2. TableTyped' /\ Stays
  BY <1>1, TableStays
<1>3. EventsTyped' /\ RegistryTyped'
  BY <1>1 DEF NotesTyped, EventsTyped, RegistryTyped
<1>4. \A d : Mine(d)' = Mine(d)
  BY <1>1 DEF Mine, There
<1>5. GhostsTyped'
  BY <1>1, <1>4 DEF NotesTyped, GhostsTyped
<1>6. PagesTyped'
  <2>1. buttons' \in [Client -> SUBSET Id] /\ \A d \in Client : buttons'[d] \subseteq buttons[d]
    BY DEF NotesTyped, PagesTyped
  <2>2. QED
    BY <1>1, <1>4, <2>1 DEF NotesTyped, PagesTyped
<1>7. WiresTyped'
  <2>1. requests \in Seq(Request)
    BY SeqWider DEF Asking
  <2>2. /\ line[c] \o requests \in Seq(Request)
        /\ line[c] \o requests \in Seq(Asking(c))
    BY <2>1 DEF NotesTyped, WiresTyped
  <2>3. \A d : Asking(d)' = Asking(d)
    BY <1>4 DEF Asking
  <2>4. \A d : Telling(d)' = Telling(d)
    BY <1>4 DEF Telling
  <2>5. line' \in [Client -> Seq(Request)] /\ \A d \in Client : line'[d] \in Seq(Asking(d))
    BY <1>1, <2>2 DEF NotesTyped, WiresTyped
  <2>6. QED
    BY <1>1, <2>3, <2>4, <2>5 DEF NotesTyped, WiresTyped
<1>8. QED
  BY <1>2, <1>3, <1>5, <1>6, <1>7 DEF NotesTyped

(* The requests of the clicks. *)
LEMMA ClicksAsk ==
  ASSUME NotesTyped, NEW c \in Client,
         DisplayNotifs(c) \/ Refresh(c) \/ Back(c) \/ \E i \in Id : Read(c, i)
  PROVE \E requests \in Seq(Asking(c)) :
          /\ Ask(c, requests)
          /\ \/ buttons' = buttons
             \/ \E i \in Id : /\ buttons' = [buttons EXCEPT ![c] = @ \ {i}]
                              /\ requests = <<[type |-> "MARK", id |-> i]>>
<1>1. [type |-> "LIST"] \in Asking(c) /\ [type |-> "COUNT"] \in Asking(c)
  BY Requests DEF Asking
<1>2. \A i \in buttons[c] : i \in Id /\ [type |-> "MARK", id |-> i] \in Asking(c)
  BY Requests DEF NotesTyped, PagesTyped, Asking
<1>3. CASE DisplayNotifs(c)
  <2>1. <<[type |-> "LIST"], [type |-> "COUNT"]>> \in Seq(Asking(c))
    BY <1>1
  <2>2. Ask(c, <<[type |-> "LIST"], [type |-> "COUNT"]>>) /\ buttons' = buttons
    BY <1>3 DEF DisplayNotifs
  <2>3. QED
    BY <2>1, <2>2
<1>4. CASE Refresh(c)
  <2>1. <<[type |-> "LIST"]>> \in Seq(Asking(c))
    BY <1>1
  <2>2. Ask(c, <<[type |-> "LIST"]>>) /\ buttons' = buttons
    BY <1>4 DEF Refresh
  <2>3. QED
    BY <2>1, <2>2
<1>5. CASE Back(c)
  <2>1. <<[type |-> "COUNT"]>> \in Seq(Asking(c))
    BY <1>1
  <2>2. Ask(c, <<[type |-> "COUNT"]>>) /\ buttons' = buttons
    BY <1>5 DEF Back
  <2>3. QED
    BY <2>1, <2>2
<1>6. ASSUME NEW i \in Id, Read(c, i)
      PROVE \E requests \in Seq(Asking(c)) :
              /\ Ask(c, requests)
              /\ \/ buttons' = buttons
                 \/ \E j \in Id : /\ buttons' = [buttons EXCEPT ![c] = @ \ {j}]
                                  /\ requests = <<[type |-> "MARK", id |-> j]>>
  <2>1. <<[type |-> "MARK", id |-> i]>> \in Seq(Asking(c))
    <3> DEFINE r == [type |-> "MARK", id |-> i]
    <3>1. r \in Asking(c)
      BY <1>2, <1>6 DEF Read
    <3> HIDE DEF r
    <3>2. <<r>> \in Seq(Asking(c))
      BY <3>1
    <3>3. QED
      BY <3>2 DEF r
  <2>2. /\ Ask(c, <<[type |-> "MARK", id |-> i]>>)
        /\ buttons' = [buttons EXCEPT ![c] = @ \ {i}]
    BY <1>6 DEF Read
  <2>3. QED
    BY <2>1, <2>2
<1>7. QED
  BY <1>3, <1>4, <1>5, <1>6

LEMMA LoseTyped ==
  ASSUME NotesTyped, NEW c \in Client, Lose(c)
  PROVE NotesTyped'
<1>1. /\ note' = note /\ events' = events /\ owner' = owner
      /\ badge' = badge /\ buttons' = buttons
      /\ line' = [line EXCEPT ![c] = <<>>] /\ down' = [down EXCEPT ![c] = <<>>]
      /\ record' = record \/ record' = [record EXCEPT ![owner[c]] = NoClient]
  BY DEF Lose, pages
<1>2. TableTyped' /\ Stays
  BY <1>1, TableStays
<1>3. EventsTyped'
  BY <1>1 DEF NotesTyped, EventsTyped
<1>4. RegistryTyped'
  BY <1>1 DEF NotesTyped, RegistryTyped
<1>5. \A d : Mine(d)' = Mine(d)
  BY <1>1 DEF Mine, There
<1>6. PagesTyped'
  BY <1>1, <1>2, PagesStay DEF NotesTyped
<1>7. WiresTyped'
  <2>1. \A d : Asking(d)' = Asking(d)
    BY <1>5 DEF Asking
  <2>2. \A d : Telling(d)' = Telling(d)
    BY <1>5 DEF Telling
  <2>3. line' \in [Client -> Seq(Request)] /\ \A d \in Client : line'[d] \in Seq(Asking(d))
    BY <1>1 DEF NotesTyped, WiresTyped
  <2>4. down' \in [Client -> Seq(Response)] /\ \A d \in Client : down'[d] \in Seq(Telling(d))
    BY <1>1 DEF NotesTyped, WiresTyped
  <2>5. QED
    BY <2>1, <2>2, <2>3, <2>4 DEF WiresTyped
<1>8. GhostsTyped'
  <2>1. PICK cause : (\A d \in Client : cause[d] \in Causes) /\ Upset(cause)
    BY DEF Lose, Among, Causes
  <2>2. /\ off' \in [Client -> Causes] /\ seen' \in [Client -> SUBSET Id]
        /\ \A d \in Client : seen'[d] \subseteq seen[d]
    BY <2>1, UpsetTyped DEF NotesTyped
  <2>3. \E X \in SUBSET sure[c] : sure' = [sure EXCEPT ![c] = X]
    BY DEF Lose
  <2>4. sure' \in [Client -> SUBSET Id] /\ \A d \in Client : sure'[d] \subseteq sure[d]
    BY <2>3 DEF NotesTyped, GhostsTyped
  <2>5. QED
    BY <1>5, <2>2, <2>4 DEF NotesTyped, GhostsTyped
<1>9. QED
  BY <1>2, <1>3, <1>4, <1>6, <1>7, <1>8 DEF NotesTyped

-----------------------------------------------------------------------------
(* What a client shows, and what it will show once all that is on its way has *)
(* come.                                                                      *)

Shown == [badge : Int, buttons : SUBSET Id]
Counts == {"NEW", "MARK", "COUNT"}

Effect(s, m) ==
  [badge |-> CASE m.type = "COUNT" -> m.count
               [] m.type = "NEW" -> s.badge + 1
               [] m.type = "MARK" /\ m.ok -> s.badge - 1
               [] OTHER -> s.badge,
   buttons |-> IF m.type = "LIST" THEN m.unread ELSE s.buttons]

(* Since step j the badge is as it was, or one of q has changed it; and the   *)
(* buttons are as they were, or those of the last list of q.                  *)
Traced(q, f, j) ==
  LET t == f[Len(q) + 1]
  IN  /\ t.badge = f[j].badge \/ \E k \in j..Len(q) : q[k].type \in Counts
      /\ \/ t.buttons = f[j].buttons /\ \A k \in j..Len(q) : q[k].type # "LIST"
         \/ \E k \in j..Len(q) : q[k].type = "LIST" /\ t.buttons = q[k].unread

(* From s to t by way of q, with all badges on the way in B.                  *)
Run(q, s, t, B, f) ==
  /\ f \in [1..(Len(q) + 1) -> Shown]
  /\ f[1] = s /\ f[Len(q) + 1] = t
  /\ \A k \in 1..Len(q) : f[k + 1] = Effect(f[k], q[k])
  /\ \A j \in 1..(Len(q) + 1) : f[j].badge \in B /\ Traced(q, f, j)
Through(q, s, t, B) == \E f : Run(q, s, t, B, f)

LEMMA EffectParts ==
  ASSUME NEW s \in Shown, NEW m \in Response
  PROVE /\ Effect(s, m) \in Shown
        /\ m.type = "COUNT" => Effect(s, m).badge = m.count
        /\ m.type = "NEW" => Effect(s, m).badge = s.badge + 1
        /\ m.type = "MARK" => Effect(s, m).badge = IF m.ok THEN s.badge - 1 ELSE s.badge
        /\ m.type = "LIST" => Effect(s, m).badge = s.badge /\ Effect(s, m).buttons = m.unread
        /\ m.type # "LIST" => Effect(s, m).buttons = s.buttons
        /\ m.type \notin Counts => Effect(s, m).badge = s.badge
<1>1. s.badge \in Int /\ s.buttons \in SUBSET Id
  BY DEF Shown
<1>2. m.type = "COUNT" => m.count \in Int
  BY ResponseFields
<1>3. m.type = "LIST" => m.unread \in SUBSET Id
  BY ResponseFields
<1>4. m.type \in {"COUNT", "LIST", "MARK", "NEW"} /\ (m.type = "MARK" => m.ok \in BOOLEAN)
  BY ResponseFields
<1>5. /\ m.type = "COUNT" => Effect(s, m).badge = m.count
      /\ m.type = "NEW" => Effect(s, m).badge = s.badge + 1
      /\ m.type = "LIST" => Effect(s, m).badge = s.badge
      /\ m.type = "MARK" => Effect(s, m).badge = IF m.ok THEN s.badge - 1 ELSE s.badge
  BY <1>4 DEF Effect
<1>6. /\ m.type = "LIST" => Effect(s, m).buttons = m.unread
      /\ m.type # "LIST" => Effect(s, m).buttons = s.buttons
  BY DEF Effect
<1>7. Effect(s, m).badge \in Int
  BY <1>1, <1>2, <1>4, <1>5
<1>8. Effect(s, m).buttons \in SUBSET Id
  BY <1>1, <1>3, <1>6
<1>9. Effect(s, m) \in Shown
  BY <1>7, <1>8 DEF Effect, Shown
<1>10. m.type \notin Counts => m.type = "LIST"
  BY <1>4 DEF Counts
<1>11. QED
  BY <1>5, <1>6, <1>9, <1>10

LEMMA NothingComes ==
  ASSUME NEW s \in Shown, NEW B, s.badge \in B
  PROVE Through(<<>>, s, s, B)
<1> DEFINE f == [k \in 1..1 |-> s]
<1>1. Len(<<>>) = 0 /\ 0 + 1 = 1 /\ 1..0 = {}
  OBVIOUS
<1>2. f \in [1..1 -> Shown] /\ \A j \in 1..1 : f[j] = s
  OBVIOUS
<1> HIDE DEF f
<1>3. \A j \in 1..1 : j = 1
  OBVIOUS
<1>4. \A j \in 1..1 : Traced(<<>>, f, j)
  BY <1>1, <1>2, <1>3 DEF Traced
<1>5. Run(<<>>, s, s, B, f)
  BY <1>1, <1>2, <1>4 DEF Run
<1>6. QED
  BY <1>5 DEF Through

LEMMA WiderBounds ==
  ASSUME NEW q, NEW s, NEW t, NEW B, NEW C, B \subseteq C, Through(q, s, t, B)
  PROVE Through(q, s, t, C)
BY DEF Through, Run

(* One more is sent. *)
LEMMA OneMore ==
  ASSUME NEW q \in Seq(Response), NEW s, NEW t, NEW B, Through(q, s, t, B), NEW m \in Response,
         Effect(t, m).badge \in B
  PROVE Through(Append(q, m), s, Effect(t, m), B)
<1> DEFINE n == Len(q)
           r == Append(q, m)
<1>1. PICK f : Run(q, s, t, B, f)
  BY DEF Through
<1>2. /\ r \in Seq(Response) /\ n \in Nat /\ Len(r) = n + 1 /\ r[n + 1] = m
      /\ \A k \in 1..n : r[k] = q[k]
  BY AppendSeq
<1>3. /\ f \in [1..(n + 1) -> Shown] /\ f[1] = s /\ f[n + 1] = t
      /\ \A k \in 1..n : f[k + 1] = Effect(f[k], q[k])
      /\ \A j \in 1..(n + 1) : f[j].badge \in B /\ Traced(q, f, j)
  BY <1>1 DEF Run
<1> DEFINE e == Effect(t, m)
           g == [k \in 1..(n + 2) |-> IF k <= n + 1 THEN f[k] ELSE e]
<1>4. t \in Shown /\ e \in Shown
  BY <1>2, <1>3, EffectParts
<1> HIDE DEF n, r
<1>5. (n + 1) + 1 = n + 2 /\ 1 <= n + 1 /\ ~(n + 2 <= n + 1) /\ n + 2 \in 1..(n + 2)
      /\ 1 \in 1..(n + 2)
  BY <1>2
<1>6. /\ g \in [1..(n + 2) -> Shown]
      /\ g[n + 2] = e
      /\ \A k \in 1..(n + 1) : g[k] = f[k]
  <2>1. \A k \in 1..(n + 2) : k <= n + 1 => k \in 1..(n + 1)
    BY <1>2
  <2>2. \A k \in 1..(n + 1) : k \in 1..(n + 2) /\ k <= n + 1
    BY <1>2
  <2>3. \A k \in 1..(n + 2) : g[k] = IF k <= n + 1 THEN f[k] ELSE e
    OBVIOUS
  <2>4. \A k \in 1..(n + 2) : (IF k <= n + 1 THEN f[k] ELSE e) \in Shown
    BY <1>3, <1>4, <2>1
  <2>5. g \in [1..(n + 2) -> Shown]
    BY <2>4
  <2>6. QED
    BY <1>5, <2>2, <2>3, <2>5
<1> HIDE DEF g
<1>7. ASSUME NEW k \in 1..(n + 1) PROVE g[k + 1] = Effect(g[k], r[k])
  <2>1. CASE k = n + 1
    <3>1. g[k + 1] = e /\ g[k] = t /\ r[k] = m
      BY <1>2, <1>3, <1>5, <1>6, <2>1
    <3>2. QED
      BY <3>1
  <2>2. CASE k # n + 1
    <3>1. k \in 1..n /\ k + 1 \in 1..(n + 1)
      BY <1>2, <2>2
    <3>2. QED
      BY <1>2, <1>3, <1>6, <3>1
  <2>3. QED
    BY <2>1, <2>2
<1>8. ASSUME NEW j \in 1..(n + 2) PROVE g[j].badge \in B /\ Traced(r, g, j)
  <2>1. CASE j = n + 2
    <3>1. (n + 2)..(n + 1) = {}
      BY <1>2
    <3>2. QED
      BY <1>2, <1>5, <1>6, <2>1, <3>1 DEF Traced
  <2>2. CASE j # n + 2
    <3>1. j \in 1..(n + 1) /\ j <= n + 1
      BY <1>2, <2>2
    <3>2. g[j] = f[j] /\ f[j].badge \in B /\ Traced(q, f, j)
      BY <1>3, <1>6, <3>1
    <3>3. n + 1 \in j..(n + 1) /\ \A k \in j..n : k \in j..(n + 1) /\ k \in 1..n
      BY <1>2, <3>1
    <3>4. \A k \in j..(n + 1) : k = n + 1 \/ k \in j..n
      BY <1>2, <3>1
    <3>5. \A k \in j..n : r[k] = q[k]
      BY <1>2, <3>3
    <3>6. /\ t.badge = f[j].badge \/ \E k \in j..n : q[k].type \in Counts
          /\ \/ t.buttons = f[j].buttons /\ \A k \in j..n : q[k].type # "LIST"
             \/ \E k \in j..n : q[k].type = "LIST" /\ t.buttons = q[k].unread
      BY <1>3, <3>2 DEF Traced, n
    <3>7. e.badge = g[j].badge \/ \E k \in j..(n + 1) : r[k].type \in Counts
      <4>1. m.type \in Counts \/ e.badge = t.badge
        BY <1>4, EffectParts
      <4>2. QED
        BY <1>2, <3>2, <3>3, <3>5, <3>6, <4>1
    <3>8. \/ e.buttons = g[j].buttons /\ \A k \in j..(n + 1) : r[k].type # "LIST"
          \/ \E k \in j..(n + 1) : r[k].type = "LIST" /\ e.buttons = r[k].unread
      <4>1. CASE m.type = "LIST"
        BY <1>2, <1>4, <3>3, <4>1, EffectParts
      <4>2. CASE m.type # "LIST"
        <5>1. e.buttons = t.buttons
          BY <1>4, <4>2, EffectParts
        <5>2. QED
          BY <1>2, <3>2, <3>3, <3>4, <3>5, <3>6, <4>2, <5>1
      <4>3. QED
        BY <4>1, <4>2
    <3>9. Traced(r, g, j)
      BY <1>2, <1>5, <1>6, <3>7, <3>8 DEF Traced
    <3>10. QED
      BY <3>2, <3>9
  <2>3. QED
    BY <2>1, <2>2
<1>9. Run(r, s, e, B, g)
  <2>1. 1 \in 1..(n + 1)
    BY <1>2
  <2>2. QED
    BY <1>2, <1>3, <1>5, <1>6, <1>7, <1>8, <2>1 DEF Run
<1>10. QED
  BY <1>9 DEF Through, r

(* The first has come. *)
LEMMA OneCome ==
  ASSUME NEW q \in Seq(Response), q # <<>>, NEW s, NEW t, NEW B, Through(q, s, t, B)
  PROVE Through(Tail(q), Effect(s, Head(q)), t, B)
<1> DEFINE n == Len(q)
           r == Tail(q)
<1>1. PICK f : Run(q, s, t, B, f)
  BY DEF Through
<1>2. /\ r \in Seq(Response) /\ n \in Nat \ {0} /\ Len(r) = n - 1 /\ Head(q) = q[1]
      /\ \A k \in 1..(n - 1) : r[k] = q[k + 1]
  BY TailSeq
<1>3. /\ f \in [1..(n + 1) -> Shown] /\ f[1] = s /\ f[n + 1] = t
      /\ \A k \in 1..n : f[k + 1] = Effect(f[k], q[k])
      /\ \A j \in 1..(n + 1) : f[j].badge \in B /\ Traced(q, f, j)
  BY <1>1 DEF Run
<1> DEFINE g == [k \in 1..n |-> f[k + 1]]
<1> HIDE DEF n, r
<1>4. /\ (n - 1) + 1 = n /\ 1 \in 1..n /\ n \in 1..n /\ 1 + 1 \in 1..(n + 1)
      /\ \A k \in 1..n : k + 1 \in 1..(n + 1)
      /\ \A k \in 1..(n - 1) : k \in 1..n /\ k + 1 \in 1..n
  BY <1>2
<1>5. /\ g \in [1..n -> Shown]
      /\ \A k \in 1..n : g[k] = f[k + 1]
  BY <1>3, <1>4
<1> HIDE DEF g
<1>6. g[1] = Effect(s, Head(q)) /\ g[n] = t
  BY <1>2, <1>3, <1>4, <1>5
<1>7. \A k \in 1..(n - 1) : g[k + 1] = Effect(g[k], r[k])
  BY <1>2, <1>3, <1>4, <1>5
<1>8. ASSUME NEW j \in 1..n PROVE g[j].badge \in B /\ Traced(r, g, j)
  <2>1. g[j] = f[j + 1] /\ f[j + 1].badge \in B /\ Traced(q, f, j + 1)
    BY <1>3, <1>4, <1>5
  <2>2. \A k \in (j + 1)..n : k - 1 \in j..(n - 1) /\ r[k - 1] = q[k]
    <3>1. ASSUME NEW k \in (j + 1)..n PROVE k - 1 \in j..(n - 1) /\ r[k - 1] = q[k]
      <4>1. k - 1 \in j..(n - 1) /\ k - 1 \in 1..(n - 1) /\ (k - 1) + 1 = k
        BY <1>2
      <4>2. QED
        BY <1>2, <4>1
    <3>2. QED
      BY <3>1
  <2>3. \A k \in j..(n - 1) : k + 1 \in (j + 1)..n /\ r[k] = q[k + 1]
    <3>1. \A k \in j..(n - 1) : k + 1 \in (j + 1)..n /\ k \in 1..(n - 1)
      BY <1>2
    <3>2. QED
      BY <1>2, <3>1
  <2>4. /\ t.badge = f[j + 1].badge \/ \E k \in (j + 1)..n : q[k].type \in Counts
        /\ \/ t.buttons = f[j + 1].buttons /\ \A k \in (j + 1)..n : q[k].type # "LIST"
           \/ \E k \in (j + 1)..n : q[k].type = "LIST" /\ t.buttons = q[k].unread
    BY <1>3, <2>1 DEF Traced, n
  <2>5. t.badge = g[j].badge \/ \E k \in j..(n - 1) : r[k].type \in Counts
    BY <2>1, <2>2, <2>4
  <2>6. \/ t.buttons = g[j].buttons /\ \A k \in j..(n - 1) : r[k].type # "LIST"
        \/ \E k \in j..(n - 1) : r[k].type = "LIST" /\ t.buttons = r[k].unread
    BY <2>1, <2>2, <2>3, <2>4
  <2>7. Traced(r, g, j)
    BY <1>2, <1>4, <1>6, <2>5, <2>6 DEF Traced
  <2>8. QED
    BY <2>1, <2>7
<1>9. Run(r, Effect(s, Head(q)), t, B, g)
  BY <1>2, <1>4, <1>5, <1>6, <1>7, <1>8 DEF Run
<1>10. QED
  BY <1>9 DEF Through, r

(* What becomes of what is shown now. *)
LEMMA Kept ==
  ASSUME NEW q \in Seq(Response), NEW s, NEW t, NEW B, Through(q, s, t, B)
  PROVE /\ s \in Shown /\ t \in Shown /\ s.badge \in B /\ t.badge \in B
        /\ t.badge = s.badge \/ \E k \in 1..Len(q) : q[k].type \in Counts
        /\ \/ t.buttons = s.buttons /\ \A k \in 1..Len(q) : q[k].type # "LIST"
           \/ \E k \in 1..Len(q) : q[k].type = "LIST" /\ t.buttons = q[k].unread
<1>1. PICK f : Run(q, s, t, B, f)
  BY DEF Through
<1>2. Len(q) \in Nat /\ 1 \in 1..(Len(q) + 1) /\ Len(q) + 1 \in 1..(Len(q) + 1)
  OBVIOUS
<1>3. f \in [1..(Len(q) + 1) -> Shown] /\ f[1] = s /\ f[Len(q) + 1] = t
  BY <1>1 DEF Run
<1>4. f[1].badge \in B /\ f[Len(q) + 1].badge \in B /\ Traced(q, f, 1)
  BY <1>1, <1>2 DEF Run
<1>5. s \in Shown /\ t \in Shown /\ s.badge \in B /\ t.badge \in B
  BY <1>2, <1>3, <1>4
<1>6. QED
  BY <1>3, <1>4, <1>5 DEF Traced

LEMMA NothingLeft ==
  ASSUME NEW q, q = <<>>, NEW s, NEW t, NEW B, Through(q, s, t, B)
  PROVE t = s
<1>1. Len(q) + 1 = 1
  OBVIOUS
<1>2. QED
  BY <1>1 DEF Through, Run

(* A button pressed. *)
Pressed(s, x) == [badge |-> s.badge, buttons |-> s.buttons \ {x}]

LEMMA ButtonGone ==
  ASSUME NEW q \in Seq(Response), NEW s, NEW t, NEW B, Through(q, s, t, B), NEW x
  PROVE \E u \in Shown :
          /\ Through(q, Pressed(s, x), u, B)
          /\ u.badge = t.badge /\ (u.buttons = t.buttons \/ u.buttons = t.buttons \ {x})
<1> DEFINE n == Len(q)
           L(k) == \E l \in 1..(k - 1) : q[l].type = "LIST"
           W(k, z) == [badge |-> z.badge, buttons |-> IF L(k) THEN z.buttons ELSE z.buttons \ {x}]
<1>1. PICK f : Run(q, s, t, B, f)
  BY DEF Through
<1>2. n \in Nat /\ \A k \in 1..n : q[k] \in Response
  OBVIOUS
<1>3. /\ f \in [1..(n + 1) -> Shown] /\ f[1] = s /\ f[n + 1] = t
      /\ \A k \in 1..n : f[k + 1] = Effect(f[k], q[k])
      /\ \A j \in 1..(n + 1) : f[j].badge \in B /\ Traced(q, f, j)
  BY <1>1 DEF Run
<1> HIDE DEF n
<1>4. /\ 1 \in 1..(n + 1) /\ n + 1 \in 1..(n + 1)
      /\ \A k \in 1..n : k \in 1..(n + 1) /\ k + 1 \in 1..(n + 1)
  BY <1>2
<1>5. ~L(1)
  OBVIOUS
<1>6. \A k \in 1..n : L(k + 1) <=> L(k) \/ q[k].type = "LIST"
  <2>1. \A k \in 1..n : 1..((k + 1) - 1) = 1..(k - 1) \cup {k}
    BY <1>2
  <2>2. QED
    BY <2>1
<1>7. \A j \in 1..(n + 1) : L(n + 1) <=> L(j) \/ \E l \in j..n : q[l].type = "LIST"
  <2>1. \A j \in 1..(n + 1) : 1..((n + 1) - 1) = 1..(j - 1) \cup j..n
    BY <1>2
  <2>2. QED
    BY <2>1
<1> HIDE DEF L
<1>8. \A k \in 1..(n + 1), z \in Shown :
        /\ W(k, z) \in Shown /\ W(k, z).badge = z.badge
        /\ W(k, z).buttons = IF L(k) THEN z.buttons ELSE z.buttons \ {x}
  BY DEF Shown
<1>9. \A k \in 1..n, z \in Shown : W(k + 1, Effect(z, q[k])) = Effect(W(k, z), q[k])
  <2>1. SUFFICES ASSUME NEW k \in 1..n, NEW z \in Shown
                 PROVE W(k + 1, Effect(z, q[k])) = Effect(W(k, z), q[k])
    OBVIOUS
  <2>2. Effect(W(k, z), q[k]).badge = Effect(z, q[k]).badge
    BY DEF Effect
  <2>3. Effect(W(k, z), q[k]).buttons = W(k + 1, Effect(z, q[k])).buttons
    BY <1>6 DEF Effect
  <2>4. Effect(W(k, z), q[k]) = [badge |-> Effect(W(k, z), q[k]).badge,
                                 buttons |-> Effect(W(k, z), q[k]).buttons]
    BY DEF Effect
  <2>5. QED
    BY <2>2, <2>3, <2>4
<1> HIDE DEF W
<1> DEFINE g == [k \in 1..(n + 1) |-> W(k, f[k])]
<1>10. /\ g \in [1..(n + 1) -> Shown]
       /\ \A k \in 1..(n + 1) : /\ g[k] = W(k, f[k]) /\ f[k] \in Shown
                                /\ g[k].badge = f[k].badge
                                /\ g[k].buttons = IF L(k) THEN f[k].buttons ELSE f[k].buttons \ {x}
  BY <1>3, <1>8
<1> HIDE DEF g
<1>11. g[1] = Pressed(s, x)
  BY <1>3, <1>4, <1>5, <1>10 DEF W, Pressed
<1>12. \A k \in 1..n : g[k + 1] = Effect(g[k], q[k])
  <2>1. ASSUME NEW k \in 1..n PROVE g[k + 1] = Effect(g[k], q[k])
    <3>1. g[k] = W(k, f[k]) /\ f[k] \in Shown /\ g[k + 1] = W(k + 1, f[k + 1])
      BY <1>4, <1>10
    <3>2. f[k + 1] = Effect(f[k], q[k])
      BY <1>3
    <3>3. QED
      BY <1>9, <3>1, <3>2
  <2>2. QED
    BY <2>1
<1> DEFINE u == g[n + 1]
<1>13. /\ u \in Shown /\ u.badge = t.badge
       /\ u.buttons = IF L(n + 1) THEN t.buttons ELSE t.buttons \ {x}
  BY <1>3, <1>4, <1>10
<1>14. ASSUME NEW j \in 1..(n + 1) PROVE g[j].badge \in B /\ Traced(q, g, j)
  <2>1. /\ t.badge = f[j].badge \/ \E k \in j..n : q[k].type \in Counts
        /\ \/ t.buttons = f[j].buttons /\ \A k \in j..n : q[k].type # "LIST"
           \/ \E k \in j..n : q[k].type = "LIST" /\ t.buttons = q[k].unread
    BY <1>3 DEF Traced, n
  <2>2. u.badge = g[j].badge \/ \E k \in j..n : q[k].type \in Counts
    BY <1>10, <1>13, <2>1
  <2>3. \/ u.buttons = g[j].buttons /\ \A k \in j..n : q[k].type # "LIST"
        \/ \E k \in j..n : q[k].type = "LIST" /\ u.buttons = q[k].unread
    BY <1>7, <1>10, <1>13, <2>1
  <2>4. Traced(q, g, j)
    BY <2>2, <2>3 DEF Traced, n
  <2>5. QED
    BY <1>3, <1>10, <2>4
<1>15. Run(q, Pressed(s, x), u, B, g)
  BY <1>10, <1>11, <1>12, <1>14 DEF Run, n
<1>16. QED
  BY <1>13, <1>15 DEF Through

-----------------------------------------------------------------------------
(* What comes, and typing of all steps. *)

Face(c) == [badge |-> badge[c], buttons |-> buttons[c]]

LEMMA FaceShown ==
  ASSUME PagesTyped, NEW c \in Client
  PROVE Face(c) \in Shown
BY DEF PagesTyped, Face, Shown

LEMMA ReceiveParts ==
  ASSUME NotesTyped, NEW c \in Client, Receive(c)
  PROVE /\ down[c] # <<>> /\ down' = [down EXCEPT ![c] = Tail(@)]
        /\ Head(down[c]) \in Response /\ Head(down[c]) \in Telling(c)
        /\ Face(c)' = Effect(Face(c), Head(down[c]))
        /\ badge' \in [Client -> Int] /\ buttons' \in [Client -> SUBSET Id]
        /\ \A d \in Client : d # c => badge'[d] = badge[d] /\ buttons'[d] = buttons[d]
        /\ note' = note /\ events' = events /\ record' = record /\ owner' = owner /\ line' = line
        /\ seen' = seen /\ off' = off /\ sure' = sure
<1> DEFINE m == Head(down[c])
<1>1. /\ down[c] # <<>> /\ down' = [down EXCEPT ![c] = Tail(@)]
      /\ note' = note /\ events' = events /\ record' = record /\ owner' = owner /\ line' = line
      /\ seen' = seen /\ off' = off /\ sure' = sure
  BY DEF Receive, server, ghosts
<1>2. m \in Response /\ m \in Telling(c)
  BY <1>1, TailSeq DEF NotesTyped, WiresTyped
<1>3. Face(c) \in Shown /\ badge \in [Client -> Int] /\ buttons \in [Client -> SUBSET Id]
  BY FaceShown DEF NotesTyped, PagesTyped
<1>4. m.type \in {"COUNT", "LIST", "MARK", "NEW"} /\ (m.type = "MARK" => m.ok \in BOOLEAN)
  BY <1>2, ResponseFields
<1>5. /\ badge' = CASE m.type = "COUNT" -> [badge EXCEPT ![c] = m.count]
                    [] m.type = "NEW" -> [badge EXCEPT ![c] = @ + 1]
                    [] m.type = "MARK" /\ m.ok -> [badge EXCEPT ![c] = @ - 1]
                    [] OTHER -> badge
      /\ buttons' = IF m.type = "LIST" THEN [buttons EXCEPT ![c] = m.unread] ELSE buttons
  BY DEF Receive
<1> HIDE DEF m
<1> DEFINE b == CASE m.type = "COUNT" -> m.count
                  [] m.type = "NEW" -> badge[c] + 1
                  [] m.type = "MARK" /\ m.ok -> badge[c] - 1
                  [] OTHER -> badge[c]
           p == IF m.type = "LIST" THEN m.unread ELSE buttons[c]
<1>6. Effect(Face(c), m) = [badge |-> b, buttons |-> p]
  BY DEF Effect, Face
<1>7. Effect(Face(c), m) \in Shown
  BY <1>2, <1>3, EffectParts
<1>8. b \in Int /\ p \in SUBSET Id
  <2>1. [badge |-> b, buttons |-> p].badge = b /\ [badge |-> b, buttons |-> p].buttons = p
    OBVIOUS
  <2> HIDE DEF b, p
  <2>2. QED
    BY <1>6, <1>7, <2>1 DEF Shown
<1>9. badge' = [badge EXCEPT ![c] = b]
  <2>1. CASE m.type = "COUNT"
    BY <1>5, <2>1
  <2>2. CASE m.type = "NEW"
    BY <1>5, <2>2
  <2>3. CASE m.type = "MARK" /\ m.ok
    BY <1>5, <2>3
  <2>4. CASE m.type = "LIST" \/ (m.type = "MARK" /\ ~m.ok)
    <3>1. b = badge[c] /\ badge' = badge
      BY <1>5, <2>4
    <3>2. QED
      BY <1>3, <3>1
  <2>5. QED
    BY <1>4, <2>1, <2>2, <2>3, <2>4
<1>10. buttons' = [buttons EXCEPT ![c] = p]
  BY <1>3, <1>5
<1> HIDE DEF b, p
<1>11. /\ badge'[c] = b /\ buttons'[c] = p
       /\ badge' \in [Client -> Int] /\ buttons' \in [Client -> SUBSET Id]
       /\ \A d \in Client : d # c => badge'[d] = badge[d] /\ buttons'[d] = buttons[d]
  BY <1>3, <1>8, <1>9, <1>10
<1>12. Face(c)' = Effect(Face(c), m)
  BY <1>6, <1>11 DEF Face
<1>13. QED
  BY <1>1, <1>2, <1>11, <1>12 DEF m

LEMMA ReceiveTyped ==
  ASSUME NotesTyped, NEW c \in Client, Receive(c)
  PROVE NotesTyped'
<1> DEFINE m == Head(down[c])
<1>1. /\ note' = note /\ events' = events /\ record' = record /\ owner' = owner /\ line' = line
      /\ seen' = seen /\ off' = off /\ sure' = sure
  BY ReceiveParts
<1>2. TableTyped' /\ Stays
  BY <1>1, TableStays
<1>3. EventsTyped' /\ RegistryTyped'
  BY <1>1 DEF NotesTyped, EventsTyped, RegistryTyped
<1>4. \A d : Mine(d)' = Mine(d)
  BY <1>1 DEF Mine, There
<1>5. GhostsTyped'
  BY <1>1, <1>4 DEF NotesTyped, GhostsTyped
<1>6. PagesTyped'
  <2>1. m.type = "LIST" => m.unread \subseteq Mine(c)
    BY ReceiveParts DEF Telling
  <2>2. buttons' = buttons \/ (m.type = "LIST" /\ buttons' = [buttons EXCEPT ![c] = m.unread])
    BY DEF Receive
  <2>3. \A d \in Client : buttons'[d] \subseteq Mine(d)
    BY <2>1, <2>2 DEF NotesTyped, PagesTyped
  <2>4. QED
    BY <1>4, <2>3, ReceiveParts DEF PagesTyped
<1>7. WiresTyped'
  <2>1. down[c] # <<>> /\ down' = [down EXCEPT ![c] = Tail(down[c])]
    BY ReceiveParts
  <2>2. Tail(down[c]) \in Seq(Response) /\ Tail(down[c]) \in Seq(Telling(c))
    BY <2>1, TailSeq DEF NotesTyped, WiresTyped
  <2>3. \A d : Asking(d)' = Asking(d)
    BY <1>4 DEF Asking
  <2>4. \A d : Telling(d)' = Telling(d)
    BY <1>4 DEF Telling
  <2>5. down' \in [Client -> Seq(Response)] /\ \A d \in Client : down'[d] \in Seq(Telling(d))
    BY <2>1, <2>2 DEF NotesTyped, WiresTyped
  <2>6. QED
    BY <1>1, <2>3, <2>4, <2>5 DEF NotesTyped, WiresTyped
<1>8. QED
  BY <1>2, <1>3, <1>5, <1>6, <1>7 DEF NotesTyped

(* Each step, one of these. *)
LEMMA NotesSteps ==
  ASSUME NotesTyped, NotesNext
  PROVE \/ \E u \in User : CreateNotification(u)
        \/ PushNotification
        \/ \E c \in Client : \/ GetUnreadNotificationsCount(c) \/ GetNotifications(c)
                             \/ MarkNotificationRead(c) \/ Receive(c) \/ Lose(c)
        \/ \E c \in Client : \E requests \in Seq(Asking(c)) :
             /\ Ask(c, requests)
             /\ \/ buttons' = buttons
                \/ \E i \in Id : /\ buttons' = [buttons EXCEPT ![c] = @ \ {i}]
                                 /\ requests = <<[type |-> "MARK", id |-> i]>>
BY ClicksAsk DEF NotesNext

LEMMA NotesStepsTyped == NotesTyped /\ [NotesNext]_notesVars => NotesTyped'
<1> SUFFICES ASSUME NotesTyped, [NotesNext]_notesVars PROVE NotesTyped'
  OBVIOUS
<1>1. CASE UNCHANGED notesVars
  <2>1. /\ note' = note /\ events' = events /\ record' = record /\ owner' = owner
        /\ line' = line /\ down' = down /\ badge' = badge /\ buttons' = buttons
        /\ seen' = seen /\ off' = off /\ sure' = sure
    BY <1>1 DEF notesVars, server, wires, pages, ghosts
  <2>2. TableTyped' /\ Stays
    BY <2>1, TableStays
  <2>3. EventsTyped' /\ RegistryTyped'
    BY <2>1 DEF NotesTyped, EventsTyped, RegistryTyped
  <2>4. WiresTyped' /\ PagesTyped'
    BY <2>1, <2>2, WiresStay, PagesStay DEF NotesTyped
  <2>5. GhostsTyped'
    BY <2>1, <2>2, MineGrows DEF NotesTyped, GhostsTyped
  <2>6. QED
    BY <2>2, <2>3, <2>4, <2>5 DEF NotesTyped
<1>2. CASE NotesNext
  <2>1. ASSUME NEW u \in User, CreateNotification(u) PROVE NotesTyped'
    BY <2>1, CreateTyped
  <2>2. CASE PushNotification
    BY <2>2, PushTyped
  <2>3. ASSUME NEW c \in Client, GetUnreadNotificationsCount(c) PROVE NotesTyped'
    BY <2>3, CountTyped
  <2>4. ASSUME NEW c \in Client, GetNotifications(c) PROVE NotesTyped'
    BY <2>4, ListTyped
  <2>5. ASSUME NEW c \in Client, MarkNotificationRead(c) PROVE NotesTyped'
    BY <2>5, MarkTyped
  <2>6. ASSUME NEW c \in Client, Receive(c) PROVE NotesTyped'
    BY <2>6, ReceiveTyped
  <2>7. ASSUME NEW c \in Client, Lose(c) PROVE NotesTyped'
    BY <2>7, LoseTyped
  <2>8. ASSUME NEW c \in Client, NEW requests \in Seq(Asking(c)), Ask(c, requests),
               buttons' = buttons \/ \E i \in Id : buttons' = [buttons EXCEPT ![c] = @ \ {i}]
        PROVE NotesTyped'
    BY <2>8, AskTyped
  <2>9. QED
    BY <1>2, <2>1, <2>2, <2>3, <2>4, <2>5, <2>6, <2>7, <2>8, NotesSteps
<1>3. QED
  BY <1>1, <1>2

-----------------------------------------------------------------------------
(* The invariant: a client will show the right badge and the right buttons    *)
(* once all that is on its way to it has come, but for rows whose push has    *)
(* not been posted and for cards whose reading is on its way to the server;   *)
(* and until then the badge stays within what rows read and rows pushed can   *)
(* make of it.                                                                *)

Emitted == {events[k] : k \in 1..Len(events)}
ReadRows == {i \in Stored : note[i].read}
Gotten == Stored \ Emitted
Badges == (-Cardinality(ReadRows))..(MaxNotes + Cardinality(Gotten))

Owed(c) == (Emitted \cap Mine(c)) \ seen[c]
Expected(c) == Cardinality(Unread(owner[c])) - Cardinality(Owed(c))
Waiting(c, i) == \E k \in 1..Len(line[c]) : line[c][k].type = "MARK" /\ line[c][k].id = i

BadgeDue(c, t) == off[c] = "none" => t.badge = Expected(c)
CardsDue(c, t) ==
  \A i \in sure[c] : /\ i \in t.buttons => ~note[i].read
                     /\ ~note[i].read => i \in t.buttons \/ Waiting(c, i)
Held(c) ==
  \E t : Through(down[c], Face(c), t, Badges) /\ BadgeDue(c, t) /\ CardsDue(c, t)

NotesInv == \A c \in Client : Held(c)

-----------------------------------------------------------------------------
(* Numbers of rows. *)

LEMMA OneRowMore ==
  ASSUME NEW S \in SUBSET Id, NEW i \in Id, i \notin S
  PROVE S \cup {i} \in SUBSET Id /\ Cardinality(S \cup {i}) = Cardinality(S) + 1
BY FewRows, FS_AddElement

LEMMA OneRowLess ==
  ASSUME NEW S \in SUBSET Id, NEW i \in S
  PROVE S \ {i} \in SUBSET Id /\ Cardinality(S \ {i}) = Cardinality(S) - 1
BY FewRows, FS_RemoveElement

LEMMA MoreRows ==
  ASSUME NEW S \in SUBSET Id, NEW T \in SUBSET Id, S \subseteq T
  PROVE Cardinality(S) <= Cardinality(T)
BY FewRows, FS_Subset

LEMMA RowSets ==
  /\ ReadRows \in SUBSET Id /\ Gotten \in SUBSET Id
  /\ \A c : Unread(owner[c]) \in SUBSET Id /\ Owed(c) \in SUBSET Id /\ Mine(c) \in SUBSET Id
  /\ Cardinality(ReadRows) \in 0..MaxNotes /\ Cardinality(Gotten) \in 0..MaxNotes
  /\ \A c : Cardinality(Unread(owner[c])) \in 0..MaxNotes /\ Cardinality(Owed(c)) \in 0..MaxNotes
<1>1. ReadRows \in SUBSET Id /\ Gotten \in SUBSET Id
  BY DEF ReadRows, Gotten, Stored
<1>2. \A c : Unread(owner[c]) \in SUBSET Id /\ Owed(c) \in SUBSET Id /\ Mine(c) \in SUBSET Id
  BY DEF Unread, Owed, Mine, There
<1>3. QED
  BY <1>1, <1>2, FewRows

LEMMA BadgesWithin ==
  ASSUME NEW b \in Badges
  PROVE b \in Int /\ b \in -MaxNotes..(2 * MaxNotes)
BY RowSets, NotesBoundAssumption DEF Badges

LEMMA BadgesGrow ==
  ASSUME ReadRows \subseteq ReadRows', Gotten \subseteq Gotten'
  PROVE Badges \subseteq Badges'
<1>1. ReadRows' \in SUBSET Id /\ Gotten' \in SUBSET Id
  BY DEF ReadRows, Gotten, Stored
<1>2. PICK R \in SUBSET Id : R = ReadRows'
  BY <1>1
<1>3. PICK G \in SUBSET Id : G = Gotten'
  BY <1>1
<1>4. Cardinality(ReadRows) <= Cardinality(R) /\ Cardinality(Gotten) <= Cardinality(G)
  BY <1>2, <1>3, RowSets, MoreRows
<1>5. Badges' = (-Cardinality(R))..(MaxNotes + Cardinality(G))
  BY <1>2, <1>3 DEF Badges
<1>6. Cardinality(R) \in 0..MaxNotes /\ Cardinality(G) \in 0..MaxNotes
  BY FewRows
<1>7. \A a, b, x, y, n \in Nat : a <= b /\ x <= y => (-a)..(n + x) \subseteq (-b)..(n + y)
  OBVIOUS
<1>8. /\ Cardinality(ReadRows) \in Nat /\ Cardinality(Gotten) \in Nat
      /\ Cardinality(R) \in Nat /\ Cardinality(G) \in Nat
  BY <1>6, RowSets
<1>9. (-Cardinality(ReadRows))..(MaxNotes + Cardinality(Gotten))
        \subseteq (-Cardinality(R))..(MaxNotes + Cardinality(G))
  BY <1>4, <1>7, <1>8, NotesBoundAssumption
<1>10. Badges = (-Cardinality(ReadRows))..(MaxNotes + Cardinality(Gotten))
  BY DEF Badges
<1>11. QED
  BY <1>5, <1>9, <1>10

(* Neither rows nor pushes change. *)
LEMMA SameRows ==
  ASSUME note' = note, events' = events, owner' = owner
  PROVE /\ Badges' = Badges
        /\ \A c : Mine(c)' = Mine(c) /\ Unread(owner[c])' = Unread(owner[c])
        /\ \A c : seen'[c] = seen[c] => Expected(c)' = Expected(c)
<1>1. Emitted' = Emitted /\ Stored' = Stored
  BY DEF Emitted, Stored
<1>2. ReadRows' = ReadRows /\ Gotten' = Gotten
  BY <1>1 DEF ReadRows, Gotten
<1>3. \A c : Mine(c)' = Mine(c) /\ Unread(owner[c])' = Unread(owner[c])
  BY DEF Mine, Unread, There
<1>4. \A c : seen'[c] = seen[c] => Owed(c)' = Owed(c)
  BY <1>1, <1>3 DEF Owed
<1>5. QED
  BY <1>2, <1>3, <1>4 DEF Badges, Expected

(* A client that nothing happens to. *)
LEMMA HeldStays ==
  ASSUME NEW c \in Client, Held(c),
         down'[c] = down[c], badge'[c] = badge[c], buttons'[c] = buttons[c], Badges \subseteq Badges',
         off'[c] = "none" => off[c] = "none" /\ Expected(c)' = Expected(c),
         \A i \in sure'[c] : /\ i \in sure[c] /\ note'[i].read = note[i].read
                             /\ Waiting(c, i) => Waiting(c, i)'
  PROVE Held(c)'
<1>1. PICK t : Through(down[c], Face(c), t, Badges) /\ BadgeDue(c, t) /\ CardsDue(c, t)
  BY DEF Held
<1>2. Face(c)' = Face(c)
  BY DEF Face
<1>3. PICK B : B = Badges'
  OBVIOUS
<1>4. Through(down[c], Face(c), t, B)
  BY <1>1, <1>3, WiderBounds
<1>5. Through(down'[c], Face(c)', t, Badges')
  BY <1>2, <1>3, <1>4
<1>6. BadgeDue(c, t)'
  BY <1>1 DEF BadgeDue
<1>7. CardsDue(c, t)'
  BY <1>1 DEF CardsDue
<1>8. QED
  BY <1>5, <1>6, <1>7 DEF Held

(* A client with a new end of what is on its way. *)
LEMMA HeldBy ==
  ASSUME NEW c \in Client, NEW t, Through(down'[c], Face(c)', t, Badges'),
         off'[c] = "none" => t.badge = Expected(c)',
         \A i \in sure'[c] : /\ i \in t.buttons => ~note'[i].read
                             /\ ~note'[i].read => i \in t.buttons \/ Waiting(c, i)'
  PROVE Held(c)'
BY DEF Held, BadgeDue, CardsDue

LEMMA UpsetParts ==
  ASSUME NEW cause, Upset(cause), NEW c \in Client, off'[c] = "none"
  PROVE off[c] = "none" /\ cause[c] = "none" /\ seen'[c] = seen[c]
BY DEF Upset

-----------------------------------------------------------------------------
(* At first the badges are right. *)
LEMMA InitHeld == NotesInit => NotesInv
<1> SUFFICES ASSUME NotesInit, NEW c \in Client PROVE Held(c)
  BY DEF NotesInv
<1>1. NotesTyped
  BY InitTyped
<1>2. /\ down[c] = <<>> /\ badge[c] = 0 /\ buttons[c] = {} /\ sure[c] = {} /\ events = <<>>
      /\ \A i \in Id : note[i] = NoNote
  BY DEF NotesInit
<1>3. ReadRows = {} /\ Gotten = {} /\ Unread(owner[c]) = {} /\ Owed(c) = {}
  BY <1>2 DEF ReadRows, Gotten, Stored, Unread, There, Owed, Mine
<1>4. Cardinality({}) = 0
  BY FS_EmptySet
<1>5. 0 \in Badges /\ Expected(c) = 0
  BY <1>3, <1>4, NotesBoundAssumption DEF Badges, Expected
<1>6. Face(c) \in Shown /\ Face(c).badge = 0
  BY <1>1, <1>2, FaceShown DEF NotesTyped, Face
<1>7. Through(down[c], Face(c), Face(c), Badges)
  BY <1>2, <1>5, <1>6, NothingComes
<1>8. BadgeDue(c, Face(c)) /\ CardsDue(c, Face(c))
  BY <1>2, <1>5, <1>6 DEF BadgeDue, CardsDue
<1>9. QED
  BY <1>7, <1>8 DEF Held

(* A row announced is unread, and its push is owed to all clients of its      *)
(* user.                                                                      *)
LEMMA CreateHeld ==
  ASSUME NotesTyped, NotesInv, NEW u \in User, CreateNotification(u)
  PROVE NotesInv'
<1>1. /\ owner' = owner /\ line' = line /\ down' = down /\ badge' = badge /\ buttons' = buttons
      /\ seen' = seen /\ off' = off /\ sure' = sure
  BY DEF CreateNotification, wires, pages, ghosts
<1>2. PICK i \in Id : /\ note[i] = NoNote /\ events' = Append(events, i)
                      /\ note'[i].to = u /\ note'[i].read = FALSE
                      /\ \A j \in Id : j # i => note'[j] = note[j]
                      /\ note'[i] # NoNote
  BY CreateTyped
<1>3. Emitted' = Emitted \cup {i}
  <2>1. events \in Seq(Id)
    BY DEF NotesTyped, EventsTyped
  <2>2. /\ Len(events') = Len(events) + 1 /\ Len(events) \in Nat /\ events'[Len(events) + 1] = i
        /\ \A k \in 1..Len(events) : events'[k] = events[k]
    BY <1>2, <2>1, AppendSeq
  <2>3. 1..(Len(events) + 1) = 1..Len(events) \cup {Len(events) + 1}
    BY <2>2
  <2>4. QED
    BY <2>2, <2>3 DEF Emitted
<1>4. Stored' = Stored \cup {i}
  BY <1>2 DEF Stored
<1>5. Badges \subseteq Badges'
  <2>1. Gotten \subseteq Gotten'
    BY <1>2, <1>3, <1>4 DEF Gotten, Stored
  <2>2. ReadRows \subseteq ReadRows'
    BY <1>2, <1>4 DEF ReadRows, Stored
  <2>3. QED
    BY <2>1, <2>2, BadgesGrow
<1>6. ASSUME NEW c \in Client PROVE Expected(c)' = Expected(c)
  <2>1. CASE owner[c] = u
    <3>1. Mine(c)' = Mine(c) \cup {i} /\ Unread(owner[c])' = Unread(owner[c]) \cup {i}
      BY <1>1, <1>2, <2>1 DEF Mine, Unread, There
    <3>2. i \notin Mine(c) /\ i \notin Unread(owner[c]) /\ i \notin seen[c] /\ i \notin Owed(c)
      BY <1>2 DEF Mine, Unread, There, Owed, NotesTyped, GhostsTyped
    <3>3. Owed(c)' = Owed(c) \cup {i}
      <4>1. ASSUME NEW j \in Emitted, j \in Mine(c)' PROVE j \in Mine(c) \/ j = i
        BY <3>1, <4>1
      <4>2. Mine(c)' \cap (Emitted \cup {i}) = (Mine(c) \cap Emitted) \cup {i}
        <5>1. i \notin Emitted
          BY <1>2 DEF Emitted, NotesTyped, EventsTyped
        <5>2. QED
          BY <3>1, <5>1
      <4>3. QED
        BY <1>1, <1>3, <3>2, <4>2 DEF Owed
    <3>4. /\ Cardinality(Unread(owner[c]) \cup {i}) = Cardinality(Unread(owner[c])) + 1
          /\ Cardinality(Owed(c) \cup {i}) = Cardinality(Owed(c)) + 1
      BY <3>2, OneRowMore, RowSets
    <3>5. QED
      BY <3>1, <3>3, <3>4, RowSets DEF Expected
  <2>2. CASE owner[c] # u
    <3>1. Mine(c)' = Mine(c) /\ Unread(owner[c])' = Unread(owner[c]) /\ i \notin Mine(c)
      BY <1>1, <1>2, <2>2 DEF Mine, Unread, There
    <3>2. Owed(c)' = Owed(c)
      BY <1>1, <1>3, <3>1 DEF Owed
    <3>3. QED
      BY <3>1, <3>2 DEF Expected
  <2>3. QED
    BY <2>1, <2>2
<1>7. ASSUME NEW c \in Client PROVE Held(c)'
  <2>1. \A j \in sure[c] : note'[j].read = note[j].read
    BY <1>2 DEF NotesTyped, GhostsTyped, Mine, There
  <2>2. \A j : Waiting(c, j)' <=> Waiting(c, j)
    BY <1>1 DEF Waiting
  <2>3. Held(c)
    BY DEF NotesInv
  <2>4. QED
    BY <1>1, <1>5, <1>6, <2>1, <2>2, <2>3, HeldStays
<1>8. QED
  BY <1>7 DEF NotesInv

(* The push comes to the client on record, which has it owed; a client of the *)
(* user that the push does not come to has counted the row, or goes wrong.    *)
LEMMA PushHeld ==
  ASSUME NotesTyped, NotesInv, PushNotification
  PROVE NotesInv'
<1> DEFINE i == Head(events)
           u == note[i].to
           m == [type |-> "NEW", id |-> i]
<1>1. /\ events # <<>> /\ events' = Tail(events) /\ note' = note /\ owner' = owner
      /\ line' = line /\ badge' = badge /\ buttons' = buttons /\ sure' = sure
  BY DEF PushNotification, pages
<1>2. /\ i \in Id /\ i = events[1] /\ Len(events) \in Nat \ {0}
      /\ Len(Tail(events)) = Len(events) - 1
      /\ \A k \in 1..(Len(events) - 1) : Tail(events)[k] = events[k + 1]
  BY <1>1, TailSeq DEF NotesTyped, EventsTyped
<1>3. note[i] # NoNote /\ u \in User
  <2>1. note[i] # NoNote
    BY <1>2 DEF NotesTyped, EventsTyped
  <2>2. QED
    BY <1>2, <2>1, RowsThere DEF NotesTyped, Note
<1>4. i \in Emitted /\ Emitted' = Emitted \ {i}
  <2>1. \A k \in 2..Len(events) : events[k] # i
    BY <1>2 DEF NotesTyped, EventsTyped
  <2>2. \A k \in 1..(Len(events) - 1) : k + 1 \in 2..Len(events)
    BY <1>2
  <2>3. \A k \in 2..Len(events) : k - 1 \in 1..(Len(events) - 1) /\ (k - 1) + 1 = k
    BY <1>2
  <2>4. \A k \in 2..Len(events) : Tail(events)[k - 1] = events[k]
    BY <1>2, <2>3
  <2>5. 1..Len(events) = {1} \cup 2..Len(events)
    BY <1>2
  <2>6. Emitted = {i} \cup {events[k] : k \in 2..Len(events)}
    BY <1>2, <2>5 DEF Emitted
  <2>7. Emitted' = {events[k] : k \in 2..Len(events)}
    <3>1. Emitted' = {Tail(events)[k] : k \in 1..(Len(events) - 1)}
      BY <1>1, <1>2 DEF Emitted
    <3>2. \A x \in Emitted' : \E k \in 2..Len(events) : x = events[k]
      BY <1>2, <2>2, <3>1
    <3>3. \A k \in 2..Len(events) : events[k] \in Emitted'
      BY <2>3, <2>4, <3>1
    <3>4. QED
      BY <3>2, <3>3
  <2>8. QED
    BY <2>1, <2>6, <2>7
<1>5. Badges \subseteq Badges'
  <2>1. Stored' = Stored
    BY <1>1 DEF Stored
  <2>2. ReadRows \subseteq ReadRows' /\ Gotten \subseteq Gotten'
    BY <1>1, <1>4, <2>1 DEF ReadRows, Gotten
  <2>3. QED
    BY <2>2, BadgesGrow
<1>6. \A c : Mine(c)' = Mine(c) /\ Unread(owner[c])' = Unread(owner[c])
  BY <1>1 DEF Mine, Unread, There
<1>7. \A c \in Client, j \in Id : Waiting(c, j)' <=> Waiting(c, j)
  BY <1>1 DEF Waiting
<1>8. PICK to \in Client \cup {NoClient} :
        /\ Pushed(u, to, i)
        /\ IF to # NoClient
           THEN owner[to] = u /\ down' = [down EXCEPT ![to] = Append(@, m)]
           ELSE down' = down
  <2>1. record[u] # NoClient => record[u] \in Client /\ owner[record[u]] = u
    BY <1>3 DEF NotesTyped, RegistryTyped
  <2>2. \/ /\ record[u] # NoClient /\ Pushed(u, record[u], i)
           /\ down' = [down EXCEPT ![record[u]] = Append(@, m)]
        \/ down' = down /\ Pushed(u, NoClient, i)
    <3>1. IF record[u] # NoClient /\ \E d \in Client : named[d] /\ owner[d] = u
          THEN /\ down' = [down EXCEPT ![record[u]] = Append(@, m)]
               /\ Pushed(u, record[u], i)
          ELSE /\ Pushed(u, NoClient, i)
               /\ UNCHANGED down
      BY DEF PushNotification
    <3> HIDE DEF m, u, i
    <3>2. QED
      BY <3>1
  <2> HIDE DEF m, u, i
  <2>3. CASE record[u] # NoClient /\ down' = [down EXCEPT ![record[u]] = Append(@, m)]
               /\ Pushed(u, record[u], i)
    BY <2>1, <2>3
  <2>4. CASE down' = down /\ Pushed(u, NoClient, i)
    BY <2>4
  <2>5. QED
    BY <2>2, <2>3, <2>4
<1> DEFINE cause == [d \in Client |-> CASE d = to /\ i \in seen[d] -> "twice"
                                        [] d # to /\ owner[d] = u /\ i \notin seen[d] -> "missed"
                                        [] OTHER -> "none"]
<1>9. Upset(cause)
  BY <1>8 DEF Pushed
<1>10. ASSUME NEW d \in Client, off'[d] = "none"
       PROVE /\ off[d] = "none" /\ seen'[d] = seen[d]
             /\ d = to => i \notin seen[d]
             /\ d # to => owner[d] # u \/ i \in seen[d]
  <2>1. off[d] = "none" /\ cause[d] = "none" /\ seen'[d] = seen[d]
    BY <1>9, <1>10, UpsetParts
  <2>2. cause[d] = CASE d = to /\ i \in seen[d] -> "twice"
                     [] d # to /\ owner[d] = u /\ i \notin seen[d] -> "missed"
                     [] OTHER -> "none"
    OBVIOUS
  <2> HIDE DEF cause
  <2>3. QED
    BY <2>1, <2>2
<1> HIDE DEF cause
<1>11. ASSUME NEW d \in Client, d # to PROVE Held(d)'
  <2>1. down'[d] = down[d]
    BY <1>8, <1>11 DEF NotesTyped, WiresTyped
  <2>2. off'[d] = "none" => off[d] = "none" /\ Expected(d)' = Expected(d)
    <3>1. SUFFICES ASSUME off'[d] = "none" PROVE off[d] = "none" /\ Expected(d)' = Expected(d)
      OBVIOUS
    <3>2. off[d] = "none" /\ seen'[d] = seen[d] /\ (owner[d] # u \/ i \in seen[d])
      BY <1>10, <1>11, <3>1
    <3>3. i \notin Mine(d) \/ i \in seen[d]
      BY <3>2 DEF Mine, There
    <3>4. Owed(d)' = Owed(d)
      BY <1>4, <1>6, <3>2, <3>3 DEF Owed
    <3>5. QED
      BY <1>6, <3>2, <3>4 DEF Expected
  <2>3. Held(d)
    BY DEF NotesInv
  <2>4. \A j \in sure'[d] : j \in sure[d] /\ note'[j].read = note[j].read /\ j \in Id
    BY <1>1 DEF NotesTyped, GhostsTyped
  <2>5. QED
    BY <1>1, <1>5, <1>7, <2>1, <2>2, <2>3, <2>4, HeldStays
<1>12. ASSUME NEW d \in Client, d = to PROVE Held(d)'
  <2>1. owner[d] = u /\ down'[d] = Append(down[d], m)
    BY <1>8, <1>12, NoClientAssumption DEF NotesTyped, WiresTyped
  <2>2. PICK t : Through(down[d], Face(d), t, Badges) /\ BadgeDue(d, t) /\ CardsDue(d, t)
    BY DEF NotesInv, Held
  <2>3. down[d] \in Seq(Response) /\ m \in Response /\ m.type = "NEW"
    BY <1>2, Responses DEF NotesTyped, WiresTyped
  <2>4. t \in Shown /\ t.badge \in Badges
    BY <2>2, <2>3, Kept
  <2> HIDE DEF m
  <2>5. Effect(t, m).badge = t.badge + 1 /\ Effect(t, m).buttons = t.buttons
    BY <2>3, <2>4, EffectParts
  <2>6. t.badge + 1 \in Badges'
    <3>1. ReadRows' = ReadRows /\ Gotten' = Gotten \cup {i} /\ i \notin Gotten
      BY <1>1, <1>2, <1>3, <1>4 DEF ReadRows, Gotten, Stored
    <3>2. Cardinality(Gotten \cup {i}) = Cardinality(Gotten) + 1
      BY <1>2, <3>1, OneRowMore, RowSets
    <3>3. Badges' = (-Cardinality(ReadRows))..(MaxNotes + Cardinality(Gotten \cup {i}))
      BY <3>1 DEF Badges
    <3>4. t.badge \in (-Cardinality(ReadRows))..(MaxNotes + Cardinality(Gotten))
      BY <2>4 DEF Badges
    <3>5. QED
      BY <3>2, <3>3, <3>4, RowSets, NotesBoundAssumption
  <2>7. PICK B : B = Badges'
    OBVIOUS
  <2>8. Through(Append(down[d], m), Face(d), Effect(t, m), B)
    <3>1. Through(down[d], Face(d), t, B) /\ Effect(t, m).badge \in B
      BY <1>5, <2>2, <2>5, <2>6, <2>7, WiderBounds
    <3>2. QED
      BY <2>3, <3>1, OneMore
  <2>9. Through(down'[d], Face(d)', Effect(t, m), Badges')
    <3>1. Face(d)' = Face(d)
      BY <1>1 DEF Face
    <3>2. QED
      BY <2>1, <2>7, <2>8, <3>1
  <2>10. ASSUME off'[d] = "none" PROVE Effect(t, m).badge = Expected(d)'
    <3>1. off[d] = "none" /\ seen'[d] = seen[d] /\ i \notin seen[d]
      BY <1>10, <1>12, <2>10
    <3>2. t.badge = Expected(d)
      BY <2>2, <3>1 DEF BadgeDue
    <3>3. i \in Owed(d)
      BY <1>2, <1>3, <1>4, <2>1, <3>1 DEF Owed, Mine, There
    <3>4. Owed(d)' = Owed(d) \ {i}
      BY <1>4, <1>6, <3>1 DEF Owed
    <3>5. Cardinality(Owed(d) \ {i}) = Cardinality(Owed(d)) - 1
      BY <3>3, OneRowLess, RowSets
    <3>6. QED
      BY <1>6, <2>5, <3>2, <3>4, <3>5, RowSets DEF Expected
  <2>11. \A j \in sure'[d] : /\ j \in Effect(t, m).buttons => ~note'[j].read
                             /\ ~note'[j].read => j \in Effect(t, m).buttons \/ Waiting(d, j)'
    <3>1. sure'[d] = sure[d] /\ \A j \in sure[d] : j \in Id
      BY <1>1 DEF NotesTyped, GhostsTyped
    <3>2. QED
      BY <1>1, <1>7, <2>2, <2>5, <3>1 DEF CardsDue
  <2>12. QED
    BY <2>9, <2>10, <2>11, HeldBy
<1>13. QED
  BY <1>11, <1>12 DEF NotesInv

(* An answer: the request of c goes, and m comes last.                        *)
LEMMA AnswerHeld ==
  ASSUME NotesTyped, NotesInv, NEW c \in Client, NEW m \in Response, line[c] # <<>>, Answer(c, m),
         Badges \subseteq Badges', \A t \in Shown : t.badge \in Badges => Effect(t, m).badge \in Badges'
  PROVE /\ \A d \in Client : d # c =>
             /\ down'[d] = down[d] /\ badge'[d] = badge[d] /\ buttons'[d] = buttons[d]
             /\ \A j : Waiting(d, j)' <=> Waiting(d, j)
        /\ \A j : Waiting(c, j) =>
             Waiting(c, j)' \/ (Head(line[c]).type = "MARK" /\ Head(line[c]).id = j)
        /\ \E t \in Shown : /\ t.badge \in Badges /\ BadgeDue(c, t) /\ CardsDue(c, t)
                            /\ Through(down[c], Face(c), t, Badges)
                            /\ Through(down'[c], Face(c)', Effect(t, m), Badges')
<1>1. /\ line' = [line EXCEPT ![c] = Tail(line[c])] /\ down' = [down EXCEPT ![c] = Append(down[c], m)]
      /\ badge' = badge /\ buttons' = buttons
  BY DEF Answer, pages
<1>2. /\ line \in [Client -> Seq(Request)] /\ down \in [Client -> Seq(Response)]
  BY DEF NotesTyped, WiresTyped
<1>3. /\ line'[c] = Tail(line[c]) /\ down'[c] = Append(down[c], m)
      /\ \A d \in Client : d # c => line'[d] = line[d] /\ down'[d] = down[d]
  BY <1>1, <1>2
<1>4. \A d \in Client : d # c => \A j : Waiting(d, j)' <=> Waiting(d, j)
  BY <1>3 DEF Waiting
<1>5. ASSUME NEW j, Waiting(c, j)
      PROVE Waiting(c, j)' \/ (Head(line[c]).type = "MARK" /\ Head(line[c]).id = j)
  <2>1. PICK k \in 1..Len(line[c]) : line[c][k].type = "MARK" /\ line[c][k].id = j
    BY <1>5 DEF Waiting
  <2>2. /\ Head(line[c]) = line[c][1] /\ Len(line[c]) \in Nat \ {0}
        /\ Len(Tail(line[c])) = Len(line[c]) - 1
        /\ \A l \in 1..(Len(line[c]) - 1) : Tail(line[c])[l] = line[c][l + 1]
    BY <1>2, TailSeq
  <2>3. CASE k = 1
    BY <2>1, <2>2, <2>3
  <2>4. CASE k # 1
    <3>1. k - 1 \in 1..(Len(line[c]) - 1) /\ (k - 1) + 1 = k
      BY <2>2, <2>4
    <3>2. Tail(line[c])[k - 1] = line[c][k]
      BY <2>2, <3>1
    <3>3. QED
      BY <1>3, <2>1, <2>2, <3>1, <3>2 DEF Waiting
  <2>5. QED
    BY <2>3, <2>4
<1>6. PICK t : Through(down[c], Face(c), t, Badges) /\ BadgeDue(c, t) /\ CardsDue(c, t)
  BY DEF NotesInv, Held
<1>7. t \in Shown /\ t.badge \in Badges
  BY <1>2, <1>6, Kept
<1>8. PICK B : B = Badges'
  OBVIOUS
<1>9. Through(Append(down[c], m), Face(c), Effect(t, m), B)
  <2>1. Through(down[c], Face(c), t, B) /\ Effect(t, m).badge \in B
    BY <1>6, <1>7, <1>8, WiderBounds
  <2>2. QED
    BY <1>2, <2>1, OneMore
<1>10. Face(c)' = Face(c)
  BY <1>1 DEF Face
<1>11. Through(down'[c], Face(c)', Effect(t, m), Badges')
  BY <1>3, <1>8, <1>9, <1>10
<1>12. QED
  BY <1>1, <1>3, <1>4, <1>5, <1>6, <1>7, <1>11

(* A count makes up for all that was wrong, and for all pushes owed.          *)
LEMMA CountHeld ==
  ASSUME NotesTyped, NotesInv, NEW c \in Client, GetUnreadNotificationsCount(c)
  PROVE NotesInv'
<1>1. line[c] # <<>> /\ Head(line[c]).type = "COUNT" /\ note' = note /\ sure' = sure
  BY DEF GetUnreadNotificationsCount, Takes
<1>2. PICK n \in 0..MaxNotes :
        /\ Answer(c, [type |-> "COUNT", count |-> n])
        /\ \/ /\ n = Cardinality(Unread(owner[c]))
              /\ off' = [off EXCEPT ![c] = "none"] /\ seen' = [seen EXCEPT ![c] = Mine(c)]
           \/ off' = [off EXCEPT ![c] = "failed"] /\ seen' = [seen EXCEPT ![c] = {}]
  BY RowSets, NotesBoundAssumption DEF GetUnreadNotificationsCount
<1>3. events' = events /\ owner' = owner
  BY <1>2 DEF Answer
<1> DEFINE m == [type |-> "COUNT", count |-> n]
<1>4. m \in Response /\ m.type = "COUNT" /\ m.count = n
  BY Responses
<1> HIDE DEF m
<1>5. Badges' = Badges
  BY <1>1, <1>3, SameRows
<1>6. \A t \in Shown : Effect(t, m).badge = n /\ Effect(t, m).buttons = t.buttons
  BY <1>4, EffectParts
<1>7. n \in Badges
  BY RowSets, NotesBoundAssumption DEF Badges
<1>8. Answer(c, m) /\ \A t \in Shown : t.badge \in Badges => Effect(t, m).badge \in Badges'
  BY <1>2, <1>5, <1>6, <1>7 DEF m
<1>9. /\ \A d \in Client : d # c =>
           /\ down'[d] = down[d] /\ badge'[d] = badge[d] /\ buttons'[d] = buttons[d]
           /\ \A j : Waiting(d, j)' <=> Waiting(d, j)
      /\ \A j : Waiting(c, j) => Waiting(c, j)'
  BY <1>1, <1>4, <1>5, <1>8, AnswerHeld
<1>10. PICK t \in Shown : /\ CardsDue(c, t)
                          /\ Through(down'[c], Face(c)', Effect(t, m), Badges')
  BY <1>1, <1>4, <1>5, <1>8, AnswerHeld
<1>11. Held(c)'
  <2>1. ASSUME off'[c] = "none" PROVE n = Expected(c)'
    <3>1. n = Cardinality(Unread(owner[c])) /\ seen'[c] = Mine(c)
      BY <1>2, <2>1 DEF NotesTyped, GhostsTyped
    <3>2. Mine(c)' = Mine(c) /\ Unread(owner[c])' = Unread(owner[c])
      BY <1>1, <1>3, SameRows
    <3>3. Owed(c)' = {}
      BY <3>1, <3>2 DEF Owed
    <3>4. Cardinality({}) = 0
      BY FS_EmptySet
    <3>5. Expected(c)' = n - 0
      BY <3>1, <3>2, <3>3, <3>4 DEF Expected
    <3>6. QED
      BY <3>5
  <2>2. \A j \in sure'[c] : /\ j \in Effect(t, m).buttons => ~note'[j].read
                            /\ ~note'[j].read => j \in Effect(t, m).buttons \/ Waiting(c, j)'
    BY <1>1, <1>6, <1>9, <1>10 DEF CardsDue
  <2>3. QED
    BY <1>6, <1>10, <2>1, <2>2, HeldBy
<1>12. ASSUME NEW d \in Client, d # c PROVE Held(d)'
  <2>1. off'[d] = off[d] /\ seen'[d] = seen[d]
    BY <1>2, <1>12 DEF NotesTyped, GhostsTyped
  <2>2. Expected(d)' = Expected(d)
    BY <1>1, <1>3, <2>1, SameRows
  <2>3. Held(d)
    BY DEF NotesInv
  <2>4. QED
    BY <1>1, <1>5, <1>9, <1>12, <2>1, <2>2, <2>3, HeldStays
<1>13. QED
  BY <1>11, <1>12 DEF NotesInv

(* Of the rows of a list the unread ones have a button.                       *)
LEMMA ListHeld ==
  ASSUME NotesTyped, NotesInv, NEW c \in Client, GetNotifications(c)
  PROVE NotesInv'
<1>1. /\ line[c] # <<>> /\ Head(line[c]).type = "LIST" /\ note' = note /\ seen' = seen
      /\ off' = off
  BY DEF GetNotifications, Takes
<1>2. PICK L \in Lists(owner[c]) :
        /\ Answer(c, [type |-> "LIST", unread |-> L \cap Unread(owner[c])])
        /\ sure' = [sure EXCEPT ![c] = L]
  BY DEF GetNotifications
<1>3. events' = events /\ owner' = owner
  BY <1>2 DEF Answer
<1> DEFINE U == L \cap Unread(owner[c])
           m == [type |-> "LIST", unread |-> U]
<1>4. m \in Response /\ m.type = "LIST" /\ m.unread = U
  <2>1. U \in SUBSET Id
    BY RowSets
  <2> HIDE DEF U
  <2>2. QED
    BY <2>1, Responses
<1> HIDE DEF m
<1>5. Badges' = Badges
  BY <1>1, <1>3, SameRows
<1>6. \A t \in Shown : Effect(t, m).badge = t.badge /\ Effect(t, m).buttons = U
  BY <1>4, EffectParts
<1>7. Answer(c, m) /\ \A t \in Shown : t.badge \in Badges => Effect(t, m).badge \in Badges'
  BY <1>2, <1>5, <1>6 DEF m
<1>8. \A d \in Client : d # c =>
        /\ down'[d] = down[d] /\ badge'[d] = badge[d] /\ buttons'[d] = buttons[d]
        /\ \A j : Waiting(d, j)' <=> Waiting(d, j)
  BY <1>1, <1>4, <1>5, <1>7, AnswerHeld
<1>9. PICK t \in Shown : /\ BadgeDue(c, t)
                         /\ Through(down'[c], Face(c)', Effect(t, m), Badges')
  BY <1>1, <1>4, <1>5, <1>7, AnswerHeld
<1>10. \A d : Expected(d)' = Expected(d)
  BY <1>1, <1>3, SameRows
<1>11. Held(c)'
  <2>1. off'[c] = "none" => Effect(t, m).badge = Expected(c)'
    BY <1>1, <1>6, <1>9, <1>10 DEF BadgeDue
  <2>2. sure'[c] = L /\ L \subseteq There(owner[c])
    BY <1>2 DEF NotesTyped, GhostsTyped, Lists
  <2>3. \A j \in L : j \in U <=> ~note[j].read
    BY <2>2 DEF Unread
  <2>4. \A j \in sure'[c] : /\ j \in Effect(t, m).buttons => ~note'[j].read
                            /\ ~note'[j].read => j \in Effect(t, m).buttons \/ Waiting(c, j)'
    BY <1>1, <1>6, <2>2, <2>3
  <2>5. QED
    BY <1>9, <2>1, <2>4, HeldBy
<1>12. ASSUME NEW d \in Client, d # c PROVE Held(d)'
  <2>1. sure'[d] = sure[d]
    BY <1>2, <1>12 DEF NotesTyped, GhostsTyped
  <2>2. Held(d)
    BY DEF NotesInv
  <2>3. QED
    BY <1>1, <1>5, <1>8, <1>10, <1>12, <2>1, <2>2, HeldStays
<1>13. QED
  BY <1>11, <1>12 DEF NotesInv

(* A reading lowers the badge by the row read, and a card that still has its  *)
(* button then is one of another client, or of another list.                  *)
LEMMA MarkHeld ==
  ASSUME NotesTyped, NotesInv, NEW c \in Client, MarkNotificationRead(c)
  PROVE NotesInv'
<1> DEFINE i == Head(line[c]).id
           others == {d \in Client \ {c} : owner[d] = owner[c]}
           m(ok) == [type |-> "MARK", ok |-> ok]
<1>1. /\ line[c] # <<>> /\ Head(line[c]).type = "MARK"
      /\ i \in Id /\ i \in Mine(c) /\ note[i] # NoNote
  BY MarkParts
<1>2. \A ok \in BOOLEAN : m(ok) \in Response /\ m(ok).type = "MARK" /\ m(ok).ok = ok
  BY Responses
<1>3. \A ok \in BOOLEAN, t \in Shown :
        /\ Effect(t, m(ok)).badge = IF ok THEN t.badge - 1 ELSE t.badge
        /\ Effect(t, m(ok)).buttons = t.buttons
  <2>1. \A ok \in BOOLEAN : m(ok).type # "LIST"
    BY <1>2
  <2> HIDE DEF m
  <2>2. QED
    BY <1>2, <2>1, EffectParts
<1>4. CASE /\ ~note[i].read /\ note' = [note EXCEPT ![i].read = TRUE]
           /\ Answer(c, m(TRUE))
           /\ Upset(Among(others, "elsewhere"))
           /\ sure' = [d \in Client |-> IF d \in others \/ Offered(d, i) THEN sure[d] \ {i}
                                       ELSE sure[d]]
  <2>1. /\ note'[i].read = TRUE
        /\ \A j \in Id : j # i => note'[j] = note[j]
        /\ \A j \in Id : note'[j] # NoNote <=> note[j] # NoNote
        /\ \A j \in Id : note[j] # NoNote => note'[j].to = note[j].to
    BY <1>1, <1>4, ReadRow DEF Stays
  <2>2. owner' = owner /\ events' = events
    BY <1>4 DEF Answer
  <2>3. Emitted' = Emitted /\ Stored' = Stored
    BY <2>1, <2>2 DEF Emitted, Stored
  <2>4. ReadRows' = ReadRows \cup {i} /\ i \notin ReadRows /\ Gotten' = Gotten
    BY <1>1, <1>4, <2>1, <2>3 DEF ReadRows, Stored, Gotten
  <2>5. Badges \subseteq Badges' /\ \A t \in Shown : t.badge \in Badges => t.badge - 1 \in Badges'
    <3>1. Badges \subseteq Badges'
      BY <2>4, BadgesGrow
    <3>2. Cardinality(ReadRows \cup {i}) = Cardinality(ReadRows) + 1
      BY <1>1, <2>4, OneRowMore, RowSets
    <3>3. Badges' = (-Cardinality(ReadRows \cup {i}))..(MaxNotes + Cardinality(Gotten))
      BY <2>4 DEF Badges
    <3>4. \A a, n, x \in Nat : \A b \in (-a)..(n + x) : b - 1 \in (-(a + 1))..(n + x)
      OBVIOUS
    <3>5. Cardinality(ReadRows) \in Nat /\ Cardinality(Gotten) \in Nat
      BY RowSets
    <3>6. Badges = (-Cardinality(ReadRows))..(MaxNotes + Cardinality(Gotten))
      BY DEF Badges
    <3>7. Badges' = (-(Cardinality(ReadRows) + 1))..(MaxNotes + Cardinality(Gotten))
      BY <3>2, <3>3
    <3>8. QED
      BY <3>1, <3>4, <3>5, <3>6, <3>7, NotesBoundAssumption
  <2>6. \A t \in Shown : t.badge \in Badges => Effect(t, m(TRUE)).badge \in Badges'
    BY <1>3, <2>5
  <2>7. m(TRUE) \in Response
    BY <1>2
  <2> HIDE DEF m
  <2>8. /\ \A d \in Client : d # c =>
             /\ down'[d] = down[d] /\ badge'[d] = badge[d] /\ buttons'[d] = buttons[d]
             /\ \A j : Waiting(d, j)' <=> Waiting(d, j)
        /\ \A j : Waiting(c, j) => Waiting(c, j)' \/ i = j
    BY <1>1, <1>4, <2>5, <2>6, <2>7, AnswerHeld
  <2>9. PICK t \in Shown : /\ BadgeDue(c, t) /\ CardsDue(c, t)
                           /\ Through(down[c], Face(c), t, Badges)
                           /\ Through(down'[c], Face(c)', Effect(t, m(TRUE)), Badges')
    BY <1>1, <1>4, <2>5, <2>6, <2>7, AnswerHeld
  <2>10. \A d : Mine(d)' = Mine(d)
    BY <2>1, <2>2 DEF Mine, There
  <2>11. \A d \in Client : sure[d] \subseteq Mine(d)
    BY DEF NotesTyped, GhostsTyped
  <2>12. Held(c)'
    <3>1. ASSUME off'[c] = "none" PROVE Effect(t, m(TRUE)).badge = Expected(c)'
      <4>1. off[c] = "none" /\ seen'[c] = seen[c]
        BY <1>4, <3>1, UpsetParts
      <4>2. t.badge = Expected(c)
        BY <2>9, <4>1 DEF BadgeDue
      <4>3. Owed(c)' = Owed(c)
        BY <2>3, <2>10, <4>1 DEF Owed
      <4>4. i \in Unread(owner[c]) /\ Unread(owner[c])' = Unread(owner[c]) \ {i}
        BY <1>1, <1>4, <2>1, <2>2 DEF Unread, There, Mine
      <4>5. Cardinality(Unread(owner[c]) \ {i}) = Cardinality(Unread(owner[c])) - 1
        BY <4>4, OneRowLess, RowSets
      <4>6. Effect(t, m(TRUE)).badge = t.badge - 1
        BY <1>3
      <4>7. Expected(c)' = (Cardinality(Unread(owner[c])) - 1) - Cardinality(Owed(c))
        BY <4>3, <4>4, <4>5 DEF Expected
      <4>8. t.badge = Cardinality(Unread(owner[c])) - Cardinality(Owed(c))
        BY <4>2 DEF Expected
      <4>9. Cardinality(Unread(owner[c])) \in Nat /\ Cardinality(Owed(c)) \in Nat
        BY RowSets
      <4>10. PICK e : e = Effect(t, m(TRUE)).badge
        OBVIOUS
      <4>11. e = Expected(c)'
        <5>1. e = t.badge - 1
          BY <4>6, <4>10
        <5>2. QED
          BY <4>7, <4>8, <4>9, <5>1
      <4>12. QED
        BY <4>10, <4>11
    <3>2. ASSUME NEW j \in sure'[c]
          PROVE /\ j \in Effect(t, m(TRUE)).buttons => ~note'[j].read
                /\ ~note'[j].read => j \in Effect(t, m(TRUE)).buttons \/ Waiting(c, j)'
      <4>1. Effect(t, m(TRUE)).buttons = t.buttons
        BY <1>3
      <4>2. j \in sure[c] /\ j \in Id /\ (Offered(c, i) => j # i)
        BY <1>4, <3>2 DEF NotesTyped, GhostsTyped
      <4>3. CASE j = i
        <5>1. ~Offered(c, i)
          BY <4>2, <4>3
        <5>2. i \notin t.buttons
          <6>1. down[c] \in Seq(Response)
            BY DEF NotesTyped, WiresTyped
          <6>2. \/ t.buttons = Face(c).buttons
                \/ \E k \in 1..Len(down[c]) : down[c][k].type = "LIST" /\ t.buttons = down[c][k].unread
            BY <2>9, <6>1, Kept
          <6>3. Face(c).buttons = buttons[c] /\ DOMAIN down[c] = 1..Len(down[c])
            BY <6>1 DEF Face
          <6>4. QED
            BY <5>1, <6>2, <6>3 DEF Offered
        <5>3. QED
          BY <2>1, <4>1, <4>3, <5>2
      <4>4. CASE j # i
        BY <2>1, <2>8, <2>9, <4>1, <4>2, <4>4 DEF CardsDue
      <4>5. QED
        BY <4>3, <4>4
    <3>3. QED
      BY <2>9, <3>1, <3>2, HeldBy
  <2>13. ASSUME NEW d \in Client, d # c PROVE Held(d)'
    <3>1. off'[d] = "none" => off[d] = "none" /\ Expected(d)' = Expected(d)
      <4>1. SUFFICES ASSUME off'[d] = "none" PROVE off[d] = "none" /\ Expected(d)' = Expected(d)
        OBVIOUS
      <4>2. off[d] = "none" /\ seen'[d] = seen[d] /\ Among(others, "elsewhere")[d] = "none"
        BY <1>4, <4>1, UpsetParts
      <4>3. d \notin others
        BY <4>2 DEF Among
      <4>4. i \notin There(owner[d])
        BY <1>1, <2>13, <4>3 DEF There, Mine
      <4>5. Unread(owner[d])' = Unread(owner[d])
        BY <1>1, <2>1, <2>2, <4>4 DEF Unread, There
      <4>6. Owed(d)' = Owed(d)
        BY <2>3, <2>10, <4>2 DEF Owed
      <4>7. QED
        BY <4>2, <4>5, <4>6 DEF Expected
    <3>2. ASSUME NEW j \in sure'[d] PROVE j \in sure[d] /\ note'[j].read = note[j].read
      <4>1. j \in sure[d] /\ j \in Id /\ j \in Mine(d)
        BY <1>4, <2>11, <3>2 DEF NotesTyped, GhostsTyped
      <4>2. j # i
        <5>1. CASE d \in others
          BY <1>4, <3>2, <5>1
        <5>2. CASE d \notin others
          BY <1>1, <2>13, <4>1, <5>2 DEF Mine, There
        <5>3. QED
          BY <5>1, <5>2
      <4>3. QED
        BY <2>1, <4>1, <4>2
    <3>3. Held(d)
      BY DEF NotesInv
    <3>4. QED
      BY <2>5, <2>8, <2>13, <3>1, <3>2, <3>3, HeldStays
  <2>14. QED
    BY <2>12, <2>13 DEF NotesInv
<1>5. CASE /\ note' = note /\ Answer(c, m(FALSE)) /\ seen' = seen /\ off' = off
           /\ \/ note[i].read /\ sure' = sure
              \/ sure' = [sure EXCEPT ![c] = @ \ {i}]
  <2>1. owner' = owner /\ events' = events
    BY <1>5 DEF Answer
  <2>2. Badges' = Badges /\ \A d : Expected(d)' = Expected(d)
    BY <1>5, <2>1, SameRows
  <2>3. \A t \in Shown : t.badge \in Badges => Effect(t, m(FALSE)).badge \in Badges'
    BY <1>3, <2>2
  <2>4. m(FALSE) \in Response
    BY <1>2
  <2> HIDE DEF m
  <2>5. /\ \A d \in Client : d # c =>
             /\ down'[d] = down[d] /\ badge'[d] = badge[d] /\ buttons'[d] = buttons[d]
             /\ \A j : Waiting(d, j)' <=> Waiting(d, j)
        /\ \A j : Waiting(c, j) => Waiting(c, j)' \/ i = j
    BY <1>1, <1>5, <2>2, <2>3, <2>4, AnswerHeld
  <2>6. PICK t \in Shown : /\ BadgeDue(c, t) /\ CardsDue(c, t)
                           /\ Through(down'[c], Face(c)', Effect(t, m(FALSE)), Badges')
    BY <1>1, <1>5, <2>2, <2>3, <2>4, AnswerHeld
  <2>7. \A d \in Client : /\ sure'[d] \subseteq sure[d]
                          /\ d = c => note[i].read \/ i \notin sure'[d]
    BY <1>5 DEF NotesTyped, GhostsTyped
  <2>8. Held(c)'
    <3>1. off'[c] = "none" => Effect(t, m(FALSE)).badge = Expected(c)'
      BY <1>3, <1>5, <2>2, <2>6 DEF BadgeDue
    <3>2. Effect(t, m(FALSE)).buttons = t.buttons
      BY <1>3
    <3>3. \A j \in sure'[c] : /\ j \in Effect(t, m(FALSE)).buttons => ~note'[j].read
                              /\ ~note'[j].read => j \in Effect(t, m(FALSE)).buttons \/ Waiting(c, j)'
      BY <1>5, <2>5, <2>6, <2>7, <3>2 DEF CardsDue
    <3>4. QED
      BY <2>6, <3>1, <3>3, HeldBy
  <2>9. ASSUME NEW d \in Client, d # c PROVE Held(d)'
    <3>1. Held(d)
      BY DEF NotesInv
    <3>2. QED
      BY <1>5, <2>2, <2>5, <2>7, <2>9, <3>1, HeldStays
  <2>10. QED
    BY <2>8, <2>9 DEF NotesInv
<1>6. QED
  BY <1>4, <1>5, MarkParts

(* A click asks, and one of them takes a button off.                          *)
LEMMA AskHeld ==
  ASSUME NotesTyped, NotesInv, NEW c \in Client, NEW requests \in Seq(Asking(c)), Ask(c, requests),
         \/ buttons' = buttons
         \/ \E i \in Id : /\ buttons' = [buttons EXCEPT ![c] = @ \ {i}]
                          /\ requests = <<[type |-> "MARK", id |-> i]>>
  PROVE NotesInv'
<1>1. /\ note' = note /\ events' = events /\ owner' = owner /\ down' = down /\ badge' = badge
      /\ seen' = seen /\ off' = off /\ sure' = sure
      /\ line' = [line EXCEPT ![c] = line[c] \o requests]
  BY DEF Ask, server, ghosts
<1>2. /\ line \in [Client -> Seq(Request)] /\ requests \in Seq(Request)
      /\ buttons \in [Client -> SUBSET Id] /\ badge \in [Client -> Int]
  BY SeqWider DEF NotesTyped, WiresTyped, PagesTyped, Asking
<1>3. Badges' = Badges /\ \A d : Expected(d)' = Expected(d)
  BY <1>1, SameRows
<1>4. /\ line'[c] = line[c] \o requests
      /\ Len(line[c] \o requests) = Len(line[c]) + Len(requests)
      /\ Len(line[c]) \in Nat /\ Len(requests) \in Nat
      /\ \A k \in 1..Len(line[c]) : (line[c] \o requests)[k] = line[c][k]
      /\ \A k \in 1..Len(requests) : (line[c] \o requests)[Len(line[c]) + k] = requests[k]
  BY <1>1, <1>2
<1>5. \A d \in Client : \A j : Waiting(d, j) => Waiting(d, j)'
  <2>1. \A d \in Client : d # c => line'[d] = line[d]
    BY <1>1, <1>2
  <2>2. \A j : Waiting(c, j) => Waiting(c, j)'
    <3>1. \A k \in 1..Len(line[c]) : k \in 1..Len(line'[c])
      BY <1>4
    <3>2. QED
      BY <1>4, <3>1 DEF Waiting
  <2>3. \A d \in Client : \A j : d # c /\ Waiting(d, j) => Waiting(d, j)'
    BY <2>1 DEF Waiting
  <2>4. QED
    BY <2>2, <2>3
<1>6. ASSUME NEW d \in Client, buttons'[d] = buttons[d] PROVE Held(d)'
  <2>1. Held(d)
    BY DEF NotesInv
  <2>2. QED
    BY <1>1, <1>3, <1>5, <1>6, <2>1, HeldStays
<1>7. ASSUME NEW i \in Id, buttons' = [buttons EXCEPT ![c] = @ \ {i}],
             requests = <<[type |-> "MARK", id |-> i]>>
      PROVE Held(c)'
  <2>1. Waiting(c, i)'
    <3>1. Len(requests) = 1 /\ requests[1].type = "MARK" /\ requests[1].id = i
      BY <1>7
    <3>2. Len(line[c]) + 1 \in 1..Len(line'[c]) /\ 1 \in 1..Len(requests)
      BY <1>4, <3>1
    <3>3. line'[c][Len(line[c]) + 1] = requests[1]
      BY <1>4, <3>2
    <3>4. QED
      BY <3>1, <3>2, <3>3 DEF Waiting
  <2>2. PICK t : Through(down[c], Face(c), t, Badges) /\ BadgeDue(c, t) /\ CardsDue(c, t)
    BY DEF NotesInv, Held
  <2>3. down[c] \in Seq(Response)
    BY DEF NotesTyped, WiresTyped
  <2>4. PICK u \in Shown :
          /\ Through(down[c], Pressed(Face(c), i), u, Badges)
          /\ u.badge = t.badge /\ (u.buttons = t.buttons \/ u.buttons = t.buttons \ {i})
    BY <2>2, <2>3, ButtonGone
  <2>5. Face(c)' = Pressed(Face(c), i)
    BY <1>1, <1>2, <1>7 DEF Face, Pressed
  <2>6. Through(down'[c], Face(c)', u, Badges')
    BY <1>1, <1>3, <2>4, <2>5
  <2>7. off'[c] = "none" => u.badge = Expected(c)'
    BY <1>1, <1>3, <2>2, <2>4 DEF BadgeDue
  <2>8. \A j \in sure'[c] : /\ j \in u.buttons => ~note'[j].read
                            /\ ~note'[j].read => j \in u.buttons \/ Waiting(c, j)'
    <3>1. \A j : j \in u.buttons => j \in t.buttons
      BY <2>4
    <3>2. \A j : j \in t.buttons => j \in u.buttons \/ j = i
      BY <2>4
    <3>3. QED
      BY <1>1, <1>5, <2>1, <2>2, <3>1, <3>2 DEF CardsDue
  <2>9. QED
    BY <2>6, <2>7, <2>8, HeldBy
<1>8. ASSUME NEW i \in Id, buttons' = [buttons EXCEPT ![c] = @ \ {i}]
      PROVE \A d \in Client : d # c => buttons'[d] = buttons[d]
  BY <1>2, <1>8
<1>9. QED
  BY <1>6, <1>7, <1>8 DEF NotesInv

(* What has come is shown. *)
LEMMA ReceiveHeld ==
  ASSUME NotesTyped, NotesInv, NEW c \in Client, Receive(c)
  PROVE NotesInv'
<1>1. /\ note' = note /\ events' = events /\ owner' = owner /\ line' = line
      /\ seen' = seen /\ off' = off /\ sure' = sure
      /\ down[c] # <<>> /\ down' = [down EXCEPT ![c] = Tail(down[c])]
      /\ Face(c)' = Effect(Face(c), Head(down[c]))
      /\ \A d \in Client : d # c => badge'[d] = badge[d] /\ buttons'[d] = buttons[d]
  BY ReceiveParts
<1>2. down \in [Client -> Seq(Response)]
  BY DEF NotesTyped, WiresTyped
<1>3. /\ down'[c] = Tail(down[c])
      /\ \A d \in Client : d # c => down'[d] = down[d]
  BY <1>1, <1>2
<1>4. Badges' = Badges /\ \A d : Expected(d)' = Expected(d)
  BY <1>1, SameRows
<1>5. \A d, j : Waiting(d, j)' <=> Waiting(d, j)
  BY <1>1 DEF Waiting
<1>6. Held(c)'
  <2>1. PICK t : Through(down[c], Face(c), t, Badges) /\ BadgeDue(c, t) /\ CardsDue(c, t)
    BY DEF NotesInv, Held
  <2>2. Through(Tail(down[c]), Effect(Face(c), Head(down[c])), t, Badges)
    BY <1>1, <1>2, <2>1, OneCome
  <2>3. Through(down'[c], Face(c)', t, Badges')
    BY <1>1, <1>3, <1>4, <2>2
  <2>4. off'[c] = "none" => t.badge = Expected(c)'
    BY <1>1, <1>4, <2>1 DEF BadgeDue
  <2>5. \A j \in sure'[c] : /\ j \in t.buttons => ~note'[j].read
                            /\ ~note'[j].read => j \in t.buttons \/ Waiting(c, j)'
    BY <1>1, <1>5, <2>1 DEF CardsDue
  <2>6. QED
    BY <2>3, <2>4, <2>5, HeldBy
<1>7. ASSUME NEW d \in Client, d # c PROVE Held(d)'
  <2>1. Held(d)
    BY DEF NotesInv
  <2>2. QED
    BY <1>1, <1>3, <1>4, <1>5, <1>7, <2>1, HeldStays
<1>8. QED
  BY <1>6, <1>7 DEF NotesInv

(* A client that loses its connection is as it was, and wrong if it has       *)
(* missed something.                                                          *)
LEMMA LoseHeld ==
  ASSUME NotesTyped, NotesInv, NEW c \in Client, Lose(c)
  PROVE NotesInv'
<1> DEFINE lost == \E k \in DOMAIN down[c] : down[c][k].type \in {"NEW", "MARK", "COUNT"}
           cause == Among(IF lost THEN {c} ELSE {}, "missed")
           asked == {line[c][k].id : k \in {j \in DOMAIN line[c] : line[c][j].type = "MARK"}}
<1>1. /\ note' = note /\ events' = events /\ owner' = owner /\ badge' = badge /\ buttons' = buttons
      /\ line' = [line EXCEPT ![c] = <<>>] /\ down' = [down EXCEPT ![c] = <<>>]
      /\ Upset(cause)
      /\ sure' = [sure EXCEPT ![c] =
                    IF \E k \in DOMAIN down[c] : down[c][k].type = "LIST" THEN {} ELSE @ \ asked]
  BY DEF Lose, pages
<1>2. /\ down \in [Client -> Seq(Response)] /\ line \in [Client -> Seq(Request)]
      /\ sure \in [Client -> SUBSET Id]
  BY DEF NotesTyped, WiresTyped, GhostsTyped
<1>3. /\ down'[c] = <<>> /\ line'[c] = <<>>
      /\ \A d \in Client : d # c => down'[d] = down[d] /\ line'[d] = line[d] /\ sure'[d] = sure[d]
      /\ DOMAIN down[c] = 1..Len(down[c]) /\ DOMAIN line[c] = 1..Len(line[c])
  BY <1>1, <1>2
<1>4. Badges' = Badges
  BY <1>1, SameRows
<1>5. \A d \in Client : off'[d] = "none" =>
        off[d] = "none" /\ Expected(d)' = Expected(d) /\ (d = c => ~lost)
  <2>1. ASSUME NEW d \in Client, off'[d] = "none"
        PROVE off[d] = "none" /\ Expected(d)' = Expected(d) /\ (d = c => ~lost)
    <3>1. off[d] = "none" /\ cause[d] = "none" /\ seen'[d] = seen[d]
      BY <1>1, <2>1, UpsetParts
    <3>2. d = c => ~lost
      BY <3>1 DEF Among
    <3>3. Expected(d)' = Expected(d)
      BY <1>1, <3>1, SameRows
    <3>4. QED
      BY <3>1, <3>2, <3>3
  <2>2. QED
    BY <2>1
<1>6. Held(c)'
  <2>1. PICK t : Through(down[c], Face(c), t, Badges) /\ BadgeDue(c, t) /\ CardsDue(c, t)
    BY DEF NotesInv, Held
  <2>2. /\ Face(c) \in Shown /\ Face(c).badge \in Badges
        /\ t.badge = Face(c).badge \/ \E k \in 1..Len(down[c]) : down[c][k].type \in Counts
        /\ \/ t.buttons = Face(c).buttons /\ \A k \in 1..Len(down[c]) : down[c][k].type # "LIST"
           \/ \E k \in 1..Len(down[c]) : down[c][k].type = "LIST" /\ t.buttons = down[c][k].unread
    <3>1. down[c] \in Seq(Response)
      BY <1>2
    <3>2. QED
      BY <2>1, <3>1, Kept
  <2>3. Face(c)' = Face(c)
    BY <1>1 DEF Face
  <2>4. Through(<<>>, Face(c), Face(c), Badges)
    BY <2>2, NothingComes
  <2>5. Through(down'[c], Face(c)', Face(c), Badges')
    BY <1>3, <1>4, <2>3, <2>4
  <2>6. off'[c] = "none" => Face(c).badge = Expected(c)'
    BY <1>3, <1>5, <2>1, <2>2 DEF BadgeDue, Counts
  <2>7. ASSUME NEW j \in sure'[c]
        PROVE /\ j \in Face(c).buttons => ~note'[j].read
              /\ ~note'[j].read => j \in Face(c).buttons \/ Waiting(c, j)'
    <3>1. \A k \in 1..Len(down[c]) : down[c][k].type # "LIST"
      BY <1>1, <1>2, <1>3, <2>7
    <3>2. j \in sure[c] /\ j \notin asked
      BY <1>1, <1>2, <1>3, <2>7, <3>1
    <3>3. ~Waiting(c, j)
      BY <1>3, <3>2 DEF Waiting
    <3>4. t.buttons = Face(c).buttons
      BY <2>2, <3>1
    <3>5. QED
      BY <1>1, <2>1, <3>2, <3>3, <3>4 DEF CardsDue
  <2>8. QED
    BY <2>5, <2>6, <2>7, HeldBy
<1>7. ASSUME NEW d \in Client, d # c PROVE Held(d)'
  <2>1. Held(d)
    BY DEF NotesInv
  <2>2. \A j : Waiting(d, j)' <=> Waiting(d, j)
    BY <1>3, <1>7 DEF Waiting
  <2>3. QED
    BY <1>1, <1>3, <1>4, <1>5, <1>7, <2>1, <2>2, HeldStays
<1>8. QED
  BY <1>6, <1>7 DEF NotesInv

LEMMA NotesStepsHeld == NotesTyped /\ NotesInv /\ [NotesNext]_notesVars => NotesInv'
<1> SUFFICES ASSUME NotesTyped, NotesInv, [NotesNext]_notesVars PROVE NotesInv'
  OBVIOUS
<1>1. CASE UNCHANGED notesVars
  <2>1. /\ note' = note /\ events' = events /\ owner' = owner /\ line' = line /\ down' = down
        /\ badge' = badge /\ buttons' = buttons /\ seen' = seen /\ off' = off /\ sure' = sure
    BY <1>1 DEF notesVars, server, wires, pages, ghosts
  <2>2. Badges' = Badges /\ \A c : Expected(c)' = Expected(c)
    BY <2>1, SameRows
  <2>3. \A c, i : Waiting(c, i)' <=> Waiting(c, i)
    BY <2>1 DEF Waiting
  <2>4. ASSUME NEW c \in Client PROVE Held(c)'
    <3>1. Held(c)
      BY DEF NotesInv
    <3>2. QED
      BY <2>1, <2>2, <2>3, <3>1, HeldStays
  <2>5. QED
    BY <2>4 DEF NotesInv
<1>2. CASE NotesNext
  <2>1. ASSUME NEW u \in User, CreateNotification(u) PROVE NotesInv'
    BY <2>1, CreateHeld
  <2>2. CASE PushNotification
    BY <2>2, PushHeld
  <2>3. ASSUME NEW c \in Client, GetUnreadNotificationsCount(c) PROVE NotesInv'
    BY <2>3, CountHeld
  <2>4. ASSUME NEW c \in Client, GetNotifications(c) PROVE NotesInv'
    BY <2>4, ListHeld
  <2>5. ASSUME NEW c \in Client, MarkNotificationRead(c) PROVE NotesInv'
    BY <2>5, MarkHeld
  <2>6. ASSUME NEW c \in Client, Receive(c) PROVE NotesInv'
    BY <2>6, ReceiveHeld
  <2>7. ASSUME NEW c \in Client, Lose(c) PROVE NotesInv'
    BY <2>7, LoseHeld
  <2>8. ASSUME NEW c \in Client, NEW requests \in Seq(Asking(c)), Ask(c, requests),
               \/ buttons' = buttons
               \/ \E i \in Id : /\ buttons' = [buttons EXCEPT ![c] = @ \ {i}]
                                /\ requests = <<[type |-> "MARK", id |-> i]>>
        PROVE NotesInv'
    BY <2>8, AskHeld
  <2>9. QED
    BY <1>2, <2>1, <2>2, <2>3, <2>4, <2>5, <2>6, <2>7, <2>8, NotesSteps
<1>3. QED
  BY <1>1, <1>2

LEMMA NotesAlways == NotesSpec => [](NotesTyped /\ NotesInv)
<1>1. NotesInit => NotesTyped /\ NotesInv
  BY InitTyped, InitHeld
<1>2. NotesTyped /\ NotesInv /\ [NotesNext]_notesVars => (NotesTyped /\ NotesInv)'
  BY NotesStepsTyped, NotesStepsHeld
<1>3. QED
  BY <1>1, <1>2, PTL DEF NotesSpec

-----------------------------------------------------------------------------
(* Rows fill the table in the order of their seconds, whichever of the        *)
(* handlers announces them; only a socket of the user is on record for it; a  *)
(* button is that of a row of the user of the page; and the badge, which the  *)
(* bar only adds to and takes from, never leaves what the rows can make of    *)
(* it, whatever is lost on the way.                                           *)
THEOREM NotesTypeCorrect == NotesSpec => []NotesTypeOK
<1>1. NotesTyped /\ NotesInv => NotesTypeOK
  <2> SUFFICES ASSUME NotesTyped, NotesInv PROVE NotesTypeOK
    OBVIOUS
  <2>1. ASSUME NEW i \in Id, note[i] # NoNote
        PROVE /\ note[i].to \in User /\ note[i].read \in BOOLEAN
              /\ i > 1 => note[i - 1] # NoNote /\ note[i - 1].at <= note[i].at
    <3>1. note[i] \in Note
      BY <2>1, RowsThere DEF NotesTyped
    <3>2. i > 1 => note[i - 1] # NoNote
      <4>1. SUFFICES ASSUME i > 1 PROVE note[i - 1] # NoNote
        OBVIOUS
      <4>2. i - 1 \in Id /\ i - 1 <= i
        BY <4>1, NotesBoundAssumption DEF Id
      <4>3. Rows \in Nat /\ i <= Rows /\ (i - 1 <= Rows => note[i - 1] # NoNote)
        BY <2>1, <4>2, RowsThere DEF NotesTyped
      <4>4. QED
        BY <4>2, <4>3, NotesBoundAssumption DEF Id
    <3>3. i > 1 => note[i - 1].at <= note[i].at
      BY <2>1 DEF NotesTyped, TableTyped
    <3>4. QED
      BY <3>1, <3>2, <3>3 DEF Note
  <2>2. \A u \in User : record[u] = NoClient \/ (record[u] \in Client /\ owner[record[u]] = u)
    BY DEF NotesTyped, RegistryTyped
  <2>3. ASSUME NEW c \in Client PROVE badge[c] \in -MaxNotes..(2 * MaxNotes)
    <3>1. PICK t : Through(down[c], Face(c), t, Badges)
      BY DEF NotesInv, Held
    <3>2. down[c] \in Seq(Response)
      BY DEF NotesTyped, WiresTyped
    <3>3. Face(c).badge \in Badges
      BY <3>1, <3>2, Kept
    <3>4. QED
      BY <3>3, BadgesWithin DEF Face
  <2>4. \A c \in Client : buttons[c] \subseteq Mine(c) /\ off[c] \in Causes
    BY DEF NotesTyped, PagesTyped, GhostsTyped
  <2>5. QED
    BY <2>1, <2>2, <2>3, <2>4 DEF NotesTypeOK
<1>2. QED
  BY <1>1, NotesAlways, PTL

(* A badge at rest is the number of unread rows: a push that no count has     *)
(* seen adds one, a reading that the server has made takes one, and a count   *)
(* asked for in between sees the row or comes before its push, however they   *)
(* cross.  It is wrong only for the causes named.                             *)
THEOREM BadgeIsExact == NotesSpec => []BadgeExact
<1>1. NotesTyped /\ NotesInv => BadgeExact
  <2> SUFFICES ASSUME NotesTyped, NotesInv, NEW c \in Client, Quiet(c), off[c] = "none"
               PROVE badge[c] = Cardinality(Unread(owner[c]))
    BY DEF BadgeExact
  <2>1. PICK t : Through(down[c], Face(c), t, Badges) /\ BadgeDue(c, t)
    BY DEF NotesInv, Held
  <2>2. down[c] \in Seq(Response) /\ down[c] = <<>>
    BY DEF NotesTyped, WiresTyped, Quiet
  <2>3. badge[c] = Expected(c)
    <3>1. t = Face(c)
      BY <2>1, <2>2, NothingLeft
    <3>2. t.badge = Expected(c)
      BY <2>1 DEF BadgeDue
    <3>3. Face(c).badge = badge[c]
      BY DEF Face
    <3>4. QED
      BY <3>1, <3>2, <3>3
  <2>4. Owed(c) = {}
    <3>1. DOMAIN events = 1..Len(events)
      BY DEF NotesTyped, EventsTyped
    <3>2. \A i \in Emitted : i \notin Mine(c)
      BY <3>1 DEF Emitted, Quiet, Mine, There
    <3>3. QED
      BY <3>2 DEF Owed
  <2>5. Cardinality({}) = 0
    BY FS_EmptySet
  <2>6. Expected(c) = Cardinality(Unread(owner[c])) - 0
    BY <2>4, <2>5 DEF Expected
  <2>7. QED
    BY <2>3, <2>6, RowSets
<1>2. QED
  BY <1>1, NotesAlways, PTL

(* The cards of a page at rest offer the unread rows to be read, and no       *)
(* other: a button goes with the click, and comes back only with a list made  *)
(* before the reading.                                                        *)
THEOREM CardsAreExact == NotesSpec => []CardsExact
<1>1. NotesTyped /\ NotesInv => CardsExact
  <2> SUFFICES ASSUME NotesTyped, NotesInv, NEW c \in Client, Quiet(c), NEW i \in sure[c]
               PROVE i \in buttons[c] <=> ~note[i].read
    BY DEF CardsExact
  <2>1. PICK t : Through(down[c], Face(c), t, Badges) /\ CardsDue(c, t)
    BY DEF NotesInv, Held
  <2>2. down[c] \in Seq(Response) /\ down[c] = <<>> /\ line[c] = <<>>
    BY DEF NotesTyped, WiresTyped, Quiet
  <2>3. t = Face(c)
    BY <2>1, <2>2, NothingLeft
  <2>4. ~Waiting(c, i)
    BY <2>2 DEF Waiting
  <2>5. QED
    BY <2>1, <2>3, <2>4 DEF CardsDue, Face
<1>2. QED
  BY <1>1, NotesAlways, PTL
=============================================================================
