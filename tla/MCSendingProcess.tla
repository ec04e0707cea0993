-------------------------- MODULE MCSendingProcess --------------------------
(* Small instances of SendingProcess. *)
EXTENDS SendingProcess
=============================================================================
