\* Two comments on one book at the same time.
SPECIFICATION Spec
CONSTANTS
  User = {u1, u2}
  Book = {b1}
  Session = {s1, s2}
  Rating = {1, 2}
  Id = {i1, i2}
  Banned = {}
  Switched = {b1}
  Failing = {}
  NoRow = NoRow
  NoRequest = NoRequest
SYMMETRY Symmetry
INVARIANT
  RatingSettled
