\* A user and another one, or the administrator, at the comments pages of two books.
SPECIFICATION Spec
CONSTANTS
  u1 = u1  u2 = u2
  s1 = s1  s2 = s2
  User = {u1, u2}
  Admin = Admin
  Session = {s1, s2}
  Logins <- TwoClients
  b1 = b1  b2 = b2
  Book = {b1, b2}
  MaxActs = 2
  Written <- OneComment
  Banned = {u2}
  Failing = {s1}
  NoRow = NoRow
INVARIANTS
  PagesCurrent
PROPERTIES
  EditsOwn
