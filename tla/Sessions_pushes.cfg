\* Two accounts whose sockets take over one another's addresses, with notifications for one
\* of them and broadcasts.
SPECIFICATION Spec
CONSTANTS
  c1 = c1  c2 = c2
  p1 = p1  p2 = p2
  n1 = n1  n2 = n2  n3 = n3
  Client = {c1, c2}
  User = {p1, p2}
  UserOf <- TwoAccounts
  Name = {n1, n2}
  FirstName <- Names
  Socket = {k1, k2}
  MaxQueue = 2
  Addressee = {p1, Everyone}
  NewNames <- NoNewNames
  NoSocket = NoSocket  NoUser = NoUser  NoName = NoName  NoClient = NoClient
  Everyone = Everyone
INVARIANTS
  RegistryExact
  OnlineExact
PROPERTIES
  DeletedLeave
