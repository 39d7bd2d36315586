\* Two books in one cart, one of them changed meanwhile, paid for on two clients of one user,
\* and a crash.
SPECIFICATION Spec
CONSTANTS
  u1 = u1
  s1 = s1  s2 = s2
  User = {u1}
  Session = {s1, s2}
  Book = {b1, b2}
  UserOf <- OneUserTwice
  Price = {0, 1}
  Edited = {b1}
  MaxAdds = 2
  MaxCrashes = 1
  NoCart = NoCart
INVARIANTS
  TypeOK
  NoDoublePurchase
PROPERTIES
  AgreedTotal
  ImplementsBookshop
  FinalizeAnswered
