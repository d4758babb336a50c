-------------------------------- MODULE MCRpc --------------------------------
(***************************************************************************)
(* Two calls, two services of the same name, and rmw that keeps only the   *)
(* latest request and response: the answer to the first call can come      *)
(* late, meet the second call, and push its answer out.                    *)
(***************************************************************************)
EXTENDS Rpc

CONSTANTS server1, server2
==============================================================================
