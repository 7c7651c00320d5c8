------------------------- MODULE MCWorkerSupervisor -------------------------
(***************************************************************************)
(* Instances of WorkerSupervisor for TLC.                                  *)
(***************************************************************************)
EXTENDS WorkerSupervisor, TLC

CONSTANTS b1, b2, r1, r2

\* Retire tasks are interchangeable.
Symmetry == Permutations(Retirers)
=============================================================================
