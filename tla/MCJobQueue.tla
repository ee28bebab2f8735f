------------------------------ MODULE MCJobQueue ------------------------------
(***************************************************************************)
(* JobQueue for TLC: the jobs are interchangeable, and so are the requests *)
(* (used by the runs that check no temporal property).                     *)
(***************************************************************************)
EXTENDS JobQueue, TLC

Symmetry == Permutations(Jobs) \cup Permutations(Clients)

===============================================================================
