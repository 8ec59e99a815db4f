---------------------------- MODULE MCEventStream ---------------------------
(* A buffer of 2 rows, batches of 2, and more events than fit: a stream    *)
(* can be overtaken by the trim while it waits, while it holds a fetched   *)
(* batch, and while it is disconnected.                                    *)
EXTENDS EventStream
=============================================================================
