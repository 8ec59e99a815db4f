---------------------------- MODULE MCDashboard -----------------------------
(* One or two requests with one or two answers and one page; the server as *)
(* in MCAidServer.                                                         *)
EXTENDS Dashboard, TLC

(* Ids and clients are only compared.                                      *)
Symmetry == Permutations(Requests) \cup Permutations(Answers) \cup Permutations(Clients)
=============================================================================
