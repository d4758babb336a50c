----------------------------- MODULE MCLifetimes -----------------------------
(***************************************************************************)
(* Instance of Lifetimes for TLC: two nodes of one context, the first with *)
(* a timer and an entity that is registered with the executor, the second  *)
(* with a publisher.                                                       *)
(***************************************************************************)
EXTENDS Lifetimes, TLC

CONSTANTS n1, n2, timer, registered, publisher

MCChoice == timer :> {"timer"} @@ registered :> {"subscription", "client", "service"}
              @@ publisher :> {"publisher"}
MCNodeOf == timer :> n1 @@ registered :> n1 @@ publisher :> n2
==============================================================================
