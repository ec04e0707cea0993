-------------------------- MODULE MCNorthService --------------------------
(* Small instances of NorthService. *)
EXTENDS NorthService
=============================================================================
