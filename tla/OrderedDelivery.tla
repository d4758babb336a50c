--------------------------- MODULE OrderedDelivery ---------------------------
(***************************************************************************)
(* What a Subscription, Timer, Client or Service promises its callback: it *)
(* runs for the messages handed to the worker, one at a time, in the order *)
(* in which they were handed over, each once, without a gap, until the     *)
(* worker is told to terminate; and it does run for each of them unless    *)
(* the callback itself panics.                                             *)
(***************************************************************************)
EXTENDS Naturals, Sequences

CONSTANT Messages     \* what can be handed over; Terminate is 0

VARIABLES
  log,      \* everything handed to the worker so far, Terminate (0) included
  handled,  \* the messages the callback was started for, in order
  ended     \* no callback will start any more

vars == <<log, handled, ended>>

Pending == Len(handled) < Len(log)
NextUp  == log[Len(handled) + 1]

Init == log = <<>> /\ handled = <<>> /\ ended = FALSE

Submit ==
  /\ \E m \in Messages : log' = Append(log, m)
  /\ UNCHANGED <<handled, ended>>

Run ==
  /\ ~ended /\ Pending /\ NextUp # 0
  /\ handled' = Append(handled, NextUp)
  /\ UNCHANGED <<log, ended>>

\* The end is either asked for, once everything before the request has been
\* handled, or brought about by the callback that was started last.
End ==
  /\ ~ended
  /\ (Pending /\ NextUp = 0) \/ handled # <<>>
  /\ ended' = TRUE
  /\ UNCHANGED <<log, handled>>

Next == Submit \/ Run \/ End

Spec == Init /\ [][Next]_vars /\ WF_vars(Run)
==============================================================================
