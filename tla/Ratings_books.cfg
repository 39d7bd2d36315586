\* Two workers, two comment ids and two books, with the comments of a user that is blocked and deleted.
SPECIFICATION Spec
CONSTANTS
  User = {u1}
  Book = {b1, b2}
  Session = {s1, s2}
  Rating = {1, 2}
  Id = {i1, i2}
  Banned = {u1}
  Switched = {b1, b2}
  Failing = {s1, s2}
  NoRow = NoRow
  NoRequest = NoRequest
SYMMETRY BookSymmetry
INVARIANTS
  IdsOnce
  RatingExact
