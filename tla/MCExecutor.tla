----------------------------- MODULE MCExecutor -----------------------------
(***************************************************************************)
(* One node that may create two entities.  Two registrations fill the      *)
(* channel to the executor (one buffered, one in the slot of the Node), so *)
(* a burst overflows it; a worker that is one message behind refuses the   *)
(* next one.                                                               *)
(***************************************************************************)
EXTENDS Executor

CONSTANTS s1, t1, c1, v1    \* a subscription, a timer, a client, a service
=============================================================================
