------------------------------ MODULE Records ------------------------------
(***************************************************************************)
(* Records put together from parts: rows of a table are written field by   *)
(* field, requests name some of the fields.                                *)
(***************************************************************************)

(* The fields of f, and those of g that f has not.  (@@ of the module TLC is  *)
(* the same, but of that one the provers know no definition.)                 *)
f ++ g == [x \in DOMAIN f \cup DOMAIN g |-> IF x \in DOMAIN f THEN f[x] ELSE g[x]]
=============================================================================
