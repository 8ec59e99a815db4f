----------------------------- MODULE MCAidServer ----------------------------
(* Two requests with two answers between them, two clients, two files; the *)
(* runs differ in the settings they fix.                                   *)
EXTENDS AidServer, TLC

(* Ids are drawn at random and clients only compared, so each kind may be  *)
(* permuted.                                                               *)
Symmetry == Permutations(Requests) \cup Permutations(Answers)
              \cup Permutations(Files) \cup Permutations(Clients)
=============================================================================
