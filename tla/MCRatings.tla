----------------------------- MODULE MCRatings ------------------------------
(* Instances of Ratings for TLC. *)
EXTENDS Ratings, TLC

(* The ids and the sessions are interchangeable. *)
Symmetry == Permutations(Id) \cup Permutations(Session)

(* And the books, where none of them is treated apart. *)
BookSymmetry == Symmetry \cup Permutations(Book)
=============================================================================
