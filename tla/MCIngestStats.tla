--------------------------- MODULE MCIngestStats ---------------------------
(* A small instance of IngestStats: two assets whose names differ in case  *)
(* only, so that they share a row.                                         *)
EXTENDS IngestStats

MCUpper == [a \in Assets |-> "FAN"]
MCInitialFails == {-1, 1}
=============================================================================
