------------------------------ MODULE Sessions ------------------------------
(***************************************************************************)
(* Who is online, as the server knows it, and who gets its notifications.  *)
(*                                                                         *)
(* The socket of a connection lives in a worker thread of its own.  What   *)
(* happens there (a login, the loss of the connection, something the users *)
(* are to be told) is emitted as a signal and waits, as an event, in the   *)
(* queue of the main thread, which alone changes the maps onlineUsers,     *)
(* socketToUser and socketToName.  The maps are keyed by the address of    *)
(* the socket object; once that object is deleted, the allocator may give  *)
(* its address to the socket of a new connection.  Socket is the set of    *)
(* these addresses.                                                        *)
(***************************************************************************)
EXTENDS Naturals, Sequences, Clients

CONSTANTS
  UserOf,    \* UserOf[c]: the account the person at client c logs in with
  Name,      \* usernames
  FirstName, \* FirstName[u]: the username u has registered with
  Socket,    \* addresses of QTcpSocket objects of the server
  MaxQueue,  \* bound: events waiting for the main thread
  Addressee, \* bound: whom notifications and broadcasts are for
  NewNames,  \* bound: the usernames in NewNames[c] are those client c changes to
  NoSocket, NoUser, NoName,
  Everyone   \* the addressee of a broadcast

ASSUME ClientAssumption == UserOf \in [Client -> User]
ASSUME NameAssumption ==
  /\ FirstName \in [User -> Name]
  /\ \A u, v \in User : u # v => FirstName[u] # FirstName[v]
ASSUME BoundAssumption ==
  /\ MaxQueue \in Nat
  /\ Addressee \subseteq User \cup {Everyone}
  /\ NewNames \in [Client -> SUBSET Name]
ASSUME NullAssumption ==
  /\ NoSocket \notin Socket
  /\ NoUser \notin User
  /\ NoName \notin Name
  /\ Everyone \notin User

VARIABLES
  \* The clients and the connections.
  conn,         \* conn[c]: the socket at the other end of c's connection
  inside,       \* inside[c]: c has had a successful LOGIN_RESPONSE
  peer,         \* peer[k]: the client the socket at k was accepted from
  status,       \* status[k]: of the socket object at k, if there is one
  login,        \* login[k]: a LOGIN on that connection has been answered
  cut,          \* addresses where a login was answered into a dead connection
  posted,       \* what this step has handed to sockets' threads, and for whom
  \* The table users.
  name,         \* name[u]: users.username
  \* The server's main thread.
  queue,        \* the events it has not processed yet
  onlineUsers,  \* the three maps; No... stands for a missing key
  socketToUser,
  socketToName,
  \* For the properties.
  masked        \* users taken off by one of their sockets while they had another

clientVars == <<conn, inside>>
socketVars == <<peer, status, login, cut>>
mapVars == <<onlineUsers, socketToUser, socketToName, masked>>
vars == <<conn, inside, peer, status, login, cut, posted, name,
          queue, onlineUsers, socketToUser, socketToName, masked>>

-----------------------------------------------------------------------------
LoginEvent(k, u, n) == [type |-> "userLoggedIn", sock |-> k, user |-> u, name |-> n]
GoneEvent(k) == [type |-> "userDisconnected", sock |-> k]
(* The handler looks up the addressee's name; user is there for the properties. *)
NotifyEvent(u, n) == [type |-> "notificationTriggered", user |-> u, name |-> n]
BroadcastEvent == [type |-> "broadcastRequested"]

Room(n) == Len(queue) + n <= MaxQueue

(* The client at the other end of k is still there. *)
Attached(k) == peer[k] # NoClient /\ conn[peer[k]] = k

Init ==
  /\ conn = [c \in Client |-> NoSocket]
  /\ inside = [c \in Client |-> FALSE]
  /\ peer = [k \in Socket |-> NoClient]
  /\ status = [k \in Socket |-> "none"]
  /\ login = [k \in Socket |-> FALSE]
  /\ cut = {}
  /\ posted = {}
  /\ name = FirstName
  /\ queue = <<>>
  /\ onlineUsers = [u \in User |-> NoSocket]
  /\ socketToUser = [k \in Socket |-> NoUser]
  /\ socketToName = [k \in Socket |-> NoName]
  /\ masked = {}

-----------------------------------------------------------------------------
(* The clients. *)

(* connectToServer, and incomingConnection with startProcessing: a new socket *)
(* object at an address nothing lives at.  A client that was inside before    *)
(* connects again without a LOGIN.                                            *)
Connect(c, k) ==
  /\ conn[c] = NoSocket
  /\ status[k] = "none"
  /\ conn' = [conn EXCEPT ![c] = k]
  /\ peer' = [peer EXCEPT ![k] = c]
  /\ status' = [status EXCEPT ![k] = "open"]
  /\ login' = [login EXCEPT ![k] = FALSE]
  /\ posted' = {}
  /\ UNCHANGED <<inside, cut, name, queue, mapVars>>

(* The client loses its connection, or is closed and started again. *)
Leave(c, restart) ==
  /\ conn[c] # NoSocket
  /\ conn' = [conn EXCEPT ![c] = NoSocket]
  /\ inside' = [inside EXCEPT ![c] = @ /\ ~restart]
  /\ posted' = {}
  /\ UNCHANGED <<socketVars, name, queue, mapVars>>

(* Mutant: no two accounts share a name only as long as nobody changes it. *)
RenameToAny(c, n) ==
  LET u == UserOf[c]
  IN  /\ n \in NewNames[c]
      /\ inside[c]
      /\ conn[c] # NoSocket
      /\ name' = [name EXCEPT ![u] = n]
      /\ posted' = {}
      /\ UNCHANGED <<clientVars, socketVars, queue, mapVars>>

(* UPDATE_PROFILE and UPDATE_PUBLISHER_PROFILE: usernames are UNIQUE. *)
Rename(c, n) ==
  LET u == UserOf[c]
  IN  /\ n \in NewNames[c]
      /\ inside[c]
      /\ conn[c] # NoSocket
      /\ \A v \in User \ {u} : name[v] # n
      /\ name' = [name EXCEPT ![u] = n]
      /\ posted' = {}
      /\ UNCHANGED <<clientVars, socketVars, queue, mapVars>>

-----------------------------------------------------------------------------
(* The worker threads. *)

(* LOGIN with the right password: the answer is written, then the signal      *)
(* emitted.  A client that is inside never asks again.                        *)
HandleLogin(k) ==
  LET c == peer[k]
  IN  /\ Attached(k)
      /\ ~inside[c]
      /\ ~login[k]
      /\ Room(1)
      /\ login' = [login EXCEPT ![k] = TRUE]
      /\ inside' = [inside EXCEPT ![c] = TRUE]
      /\ queue' = Append(queue, LoginEvent(k, UserOf[c], name[UserOf[c]]))
      /\ posted' = {}
      /\ UNCHANGED <<conn, peer, status, cut, name, mapVars>>

(* The same when the client has gone before it is answered and the write of   *)
(* the answer fails: the socket then closes itself, so that onDisconnected    *)
(* has emitted its signal before sendJson returns and handleLogin emits its   *)
(* own.                                                                       *)
HandleLoginWriteFails(k) ==
  LET c == peer[k]
  IN  /\ Attached(k)
      /\ ~inside[c]
      /\ ~login[k]
      /\ Room(2)
      /\ conn' = [conn EXCEPT ![c] = NoSocket]
      /\ login' = [login EXCEPT ![k] = TRUE]
      /\ status' = [status EXCEPT ![k] = "closed"]
      /\ cut' = cut \cup {k}
      /\ queue' = queue \o <<GoneEvent(k), LoginEvent(k, UserOf[c], name[UserOf[c]])>>
      /\ posted' = {}
      /\ UNCHANGED <<inside, peer, name, mapVars>>

OnDisconnected(k) ==
  /\ status[k] = "open"
  /\ ~Attached(k)
  /\ Room(1)
  /\ status' = [status EXCEPT ![k] = "closed"]
  /\ queue' = Append(queue, GoneEvent(k))
  /\ posted' = {}
  /\ UNCHANGED <<clientVars, peer, login, cut, name, mapVars>>

(* deleteLater takes effect when the thread is back in its event loop. *)
DeleteSocket(k) ==
  /\ status[k] = "closed"
  /\ status' = [status EXCEPT ![k] = "none"]
  /\ peer' = [peer EXCEPT ![k] = NoClient]
  /\ login' = [login EXCEPT ![k] = FALSE]
  /\ posted' = {}
  /\ UNCHANGED <<clientVars, cut, name, queue, mapVars>>

(* A request of c that concerns u: ADD_COMMENT, FINALIZE_PURCHASE, ADD_BOOK, *)
(* SET_BOOK_DISCOUNT.                                                        *)
Notify(c, u) ==
  /\ inside[c]
  /\ conn[c] # NoSocket
  /\ Room(1)
  /\ queue' = Append(queue, NotifyEvent(u, name[u]))
  /\ posted' = {}
  /\ UNCHANGED <<clientVars, socketVars, name, mapVars>>

(* A request of c that concerns everybody: a comment, a discount. *)
Broadcast(c) ==
  /\ Everyone \in Addressee
  /\ inside[c]
  /\ conn[c] # NoSocket
  /\ Room(1)
  /\ queue' = Append(queue, BroadcastEvent)
  /\ posted' = {}
  /\ UNCHANGED <<clientVars, socketVars, name, mapVars>>

-----------------------------------------------------------------------------
(* The main thread. *)

Online == {onlineUsers[u] : u \in User} \ {NoSocket}

Next1(type) == queue # <<>> /\ Head(queue).type = type

(* A user's entry is the socket of the last login, if there is another already. *)
ProcessLogin ==
  /\ Next1("userLoggedIn")
  /\ LET e == Head(queue)
     IN  /\ onlineUsers' = [onlineUsers EXCEPT ![e.user] = e.sock]
         /\ socketToUser' = [socketToUser EXCEPT ![e.sock] = e.user]
         /\ socketToName' = [socketToName EXCEPT ![e.sock] = e.name]
         /\ masked' = masked \ {e.user}
  /\ queue' = Tail(queue)
  /\ posted' = {}
  /\ UNCHANGED <<clientVars, socketVars, name>>

(* With k, another socket of u loses the entry. *)
Mask(k, u) ==
  IF \E l \in Socket \ {k} : socketToUser[l] = u THEN masked \cup {u} ELSE masked

(* Mutant: the user's entry stays. *)
ProcessGoneKeepingUser ==
  /\ Next1("userDisconnected")
  /\ LET k == Head(queue).sock
     IN  /\ socketToUser' = [socketToUser EXCEPT ![k] = NoUser]
         /\ socketToName' = [socketToName EXCEPT ![k] = NoName]
  /\ queue' = Tail(queue)
  /\ posted' = {}
  /\ UNCHANGED <<clientVars, socketVars, name, onlineUsers, masked>>

(* Mutant: nothing is done unless the socket is the one its user is online with. *)
ProcessGoneIfOnline ==
  /\ Next1("userDisconnected")
  /\ LET k == Head(queue).sock
         u == socketToUser[k]
     IN  IF u # NoUser /\ onlineUsers[u] = k
         THEN /\ onlineUsers' = [onlineUsers EXCEPT ![u] = NoSocket]
              /\ socketToUser' = [socketToUser EXCEPT ![k] = NoUser]
              /\ socketToName' = [socketToName EXCEPT ![k] = NoName]
              /\ masked' = Mask(k, u)
         ELSE UNCHANGED mapVars
  /\ queue' = Tail(queue)
  /\ posted' = {}
  /\ UNCHANGED <<clientVars, socketVars, name>>

(* The user's entry goes, whichever socket it holds. *)
ProcessGone ==
  /\ Next1("userDisconnected")
  /\ LET k == Head(queue).sock
         u == socketToUser[k]
     IN  IF u # NoUser
         THEN /\ onlineUsers' = [onlineUsers EXCEPT ![u] = NoSocket]
              /\ socketToUser' = [socketToUser EXCEPT ![k] = NoUser]
              /\ socketToName' = [socketToName EXCEPT ![k] = NoName]
              /\ masked' = Mask(k, u)
         ELSE UNCHANGED mapVars
  /\ queue' = Tail(queue)
  /\ posted' = {}
  /\ UNCHANGED <<clientVars, socketVars, name>>

(* Handing a message to the threads of the sockets ks; a socket that is not *)
(* open is passed over.                                                     *)
Post(ks, to) ==
  posted' = {<<k, to>> : k \in {l \in Socket : l \in ks /\ status[l] = "open"}}

(* The sockets under the name of a notification; which of them comes first in *)
(* the map is up to their addresses.                                          *)
Named(n) == {k \in Socket : socketToName[k] = n}

ProcessNotify ==
  /\ Next1("notificationTriggered")
  /\ LET e == Head(queue)
     IN  IF Named(e.name) = {}
         THEN posted' = {}
         ELSE \E k \in Named(e.name) : Post({onlineUsers[socketToUser[k]]}, e.user)
  /\ queue' = Tail(queue)
  /\ UNCHANGED <<clientVars, socketVars, name, mapVars>>

ProcessBroadcast ==
  /\ Next1("broadcastRequested")
  /\ Post(Online, Everyone)
  /\ queue' = Tail(queue)
  /\ UNCHANGED <<clientVars, socketVars, name, mapVars>>

(* To ask a deleted socket whether it is open is undefined behaviour; one     *)
(* outcome is that the process dies and is started again, without connections. *)
Die ==
  /\ queue # <<>>
  /\ Head(queue).type \in {"broadcastRequested", "notificationTriggered"}
  /\ \E k \in Online : status[k] = "none"
  /\ conn' = [c \in Client |-> NoSocket]
  /\ status' = [k \in Socket |-> "none"]
  /\ login' = [k \in Socket |-> FALSE]
  /\ peer' = [k \in Socket |-> NoClient]
  /\ cut' = {}
  /\ posted' = {}
  /\ queue' = <<>>
  /\ onlineUsers' = [u \in User |-> NoSocket]
  /\ socketToUser' = [k \in Socket |-> NoUser]
  /\ socketToName' = [k \in Socket |-> NoName]
  /\ masked' = {}
  /\ UNCHANGED <<inside, name>>

-----------------------------------------------------------------------------
ClientNext ==
  \/ \E c \in Client, k \in Socket : Connect(c, k)
  \/ \E c \in Client : Broadcast(c)
  \/ \E c \in Client, restart \in BOOLEAN : Leave(c, restart)
  \/ \E c \in Client, n \in Name : Rename(c, n)
  \/ \E c \in Client, u \in User \cap Addressee : Notify(c, u)

WorkerNext(k) ==
  \/ HandleLogin(k)
  \/ HandleLoginWriteFails(k)
  \/ OnDisconnected(k)
  \/ DeleteSocket(k)

MainNext == ProcessLogin \/ ProcessGone \/ ProcessNotify \/ ProcessBroadcast \/ Die

Next == ClientNext \/ (\E k \in Socket : WorkerNext(k)) \/ MainNext

(* The event loops of the threads run on. *)
Fairness ==
  /\ WF_vars(MainNext)
  /\ \A k \in Socket : WF_vars(OnDisconnected(k))

Spec == Init /\ [][Next]_vars /\ Fairness
-----------------------------------------------------------------------------
(* Properties. *)

Event ==
  [type : {"userLoggedIn"}, sock : Socket, user : User, name : Name]
    \cup [type : {"userDisconnected"}, sock : Socket]
    \cup [type : {"notificationTriggered"}, user : User, name : Name]
    \cup [type : {"broadcastRequested"}]

(* Every variable has its type. *)
TypeOK ==
  /\ conn \in [Client -> Socket \cup {NoSocket}]
  /\ inside \in [Client -> BOOLEAN]
  /\ peer \in [Socket -> Client \cup {NoClient}]
  /\ status \in [Socket -> {"none", "open", "closed"}]
  /\ login \in [Socket -> BOOLEAN]
  /\ cut \in SUBSET Socket
  /\ posted \in SUBSET (Socket \X (User \cup {Everyone}))
  /\ name \in [User -> Name]
  /\ queue \in Seq(Event)
  /\ onlineUsers \in [User -> Socket \cup {NoSocket}]
  /\ socketToUser \in [Socket -> User \cup {NoUser}]
  /\ socketToName \in [Socket -> Name \cup {NoName}]
  /\ masked \in SUBSET User

(* k is a connection on which a login has been answered. *)
LoggedIn(k) == status[k] = "open" /\ login[k]

(* With the queue worked off, the sockets the server has on record are exactly *)
(* the open ones with a login, each with its own user, although addresses are  *)
(* used again and the events of several threads are mixed.  An address whose   *)
(* disconnection overtook its login is left out.                               *)
RegistryExact ==
  queue = <<>> => \A k \in Socket \ cut :
    socketToUser[k] = IF LoggedIn(k) THEN UserOf[peer[k]] ELSE NoUser

LoginsOf(u) == {k \in Socket : LoggedIn(k) /\ UserOf[peer[k]] = u}

(* The reverse map: with the queue worked off, the one entry of a user is an   *)
(* open connection of the user's own, whichever of several has logged in last; *)
(* a user who has a connection lacks the entry only if another socket of the   *)
(* same account has gone since the last login, and has taken it along.         *)
OnlineExact ==
  queue = <<>> => \A u \in User :
    \/ onlineUsers[u] \in LoginsOf(u) \cup cut
    \/ onlineUsers[u] = NoSocket /\ (u \in masked \/ LoginsOf(u) \subseteq cut)

(* A push for u goes to a socket of the account that has logged in under the   *)
(* name it was sent to.  It is u's, unless a rename has made that name out of  *)
(* date, for u or for the other account: it relies on the uniqueness of        *)
(* usernames and on the maps agreeing with one another.                        *)
PushToOwner ==
  [][\A k \in Socket \ cut, u \in User : <<k, u>> \in posted' =>
       LET n == Head(queue).name
           v == socketToUser[k]
       IN  /\ \E l \in Socket : socketToUser[l] = v /\ socketToName[l] = n
           /\ v \in User
           /\ v = u \/ name[v] # n \/ name[u] # n]_vars

(* A deleted socket does not stay among the online ones. *)
DeletedLeave ==
  \A k \in Socket :
    <>[](status[k] = "none" /\ k \notin cut) => <>[](k \notin Online)
=============================================================================
