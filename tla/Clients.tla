------------------------------ MODULE Clients ------------------------------
(***************************************************************************)
(* The users and the clients they use, as the modules about connections    *)
(* see them.                                                               *)
(***************************************************************************)

CONSTANTS
  User,    \* rows of the table users
  Client,  \* client programs on users' machines, each with its connection
  NoClient \* in place of a client

ASSUME NoClientAssumption == NoClient \notin Client
=============================================================================
