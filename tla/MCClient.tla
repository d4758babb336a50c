------------------------------ MODULE MCClient ------------------------------
(***************************************************************************)
(* A client that makes up to three calls, and servers that answer when     *)
(* they like: one server and a user who awaits every call, or two servers  *)
(* and a user who may drop its calls, where the answer to the second call  *)
(* is not UTF-8.  rmw keeps two responses.                                 *)
(***************************************************************************)
EXTENDS Client

CONSTANTS server1, server2
=============================================================================
