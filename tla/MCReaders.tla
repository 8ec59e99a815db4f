----------------------------- MODULE MCReaders ------------------------------
(* The readers of the tables: one filtered stream and the read endpoints.  *)
(* No symmetry, because of the liveness property.                          *)
EXTENDS Subscription, Queries
=============================================================================
