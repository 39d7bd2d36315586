\* Two accounts change their names, and take over one another's; notifications for one.
SPECIFICATION Spec
CONSTANTS
  c1 = c1  c2 = c2
  p1 = p1  p2 = p2
  n1 = n1  n2 = n2  n3 = n3
  Client = {c1, c2}
  User = {p1, p2}
  UserOf <- TwoAccounts
  Name = {n1, n2, n3}
  FirstName <- Names
  Socket = {k1, k2}
  MaxQueue = 2
  Addressee = {p2}
  NewNames <- TakenOver
  NoSocket = NoSocket  NoUser = NoUser  NoName = NoName  NoClient = NoClient
  Everyone = Everyone
SYMMETRY SocketSymmetry
PROPERTIES
  PushToOwner
