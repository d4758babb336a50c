--------------------------- MODULE MCReceiveWorker ---------------------------
(***************************************************************************)
(* One worker with a shared buffer of two messages instead of ten, and     *)
(* more messages than fit: buffer, slot of the invoker and slot of the     *)
(* owner are all used, and the queue can be full.                          *)
(***************************************************************************)
EXTENDS ReceiveWorker
==============================================================================
