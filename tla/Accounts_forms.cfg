\* A reader and a publisher, two clients, whoever they log in as.
SPECIFICATION Spec
CONSTANTS
  u1 = u1  u2 = u2
  c1 = c1  c2 = c2
  n1 = n1  n2 = n2  n3 = n3
  User = {u1, u2}
  Publisher = {u2}
  Client = {c1, c2}
  UserName = {n1, n2, n3}
  FirstName <- Names
  Email = {e1}
  Password = {p1, p2}
  FirstPass = p1
  MaxActs = 3
  MaxCrashes = 1
  NoRow = NoRow  NoEmail = NoEmail  NoUser = NoUser  NoJob = NoJob
\* Nothing has to go on: no user need submit a form.
CHECK_DEADLOCK FALSE
SYMMETRY Clients
INVARIANTS
  UsernamesOnce
  EmailsOnce
  FirstLoginOnce
PROPERTIES
  PasswordsGuarded
  ProfileKept
  GenresOwn
