---------------------------- MODULE MCBuildServer ----------------------------
(***************************************************************************)
(* Instances of BuildServer for TLC.                                       *)
(***************************************************************************)
EXTENDS ServerCustody, TLC

CONSTANTS w1, w2, c1, c2, s1, s2

\* Which worker each connection belongs to: all to one, or c1 apart.
OneWorker == [c \in Conns |-> w1]
TwoWorkers == [c \in Conns |-> IF c = c1 THEN w1 ELSE w2]

\* Even builds overtake odd ones.
AlternatingPriority == [b \in Builds |-> IF b % 2 = 0 THEN "high" ELSE "normal"]
EqualPriority == [b \in Builds |-> "normal"]

OneArchBuilds == [b \in Builds |-> "aarch64"]
OneArchWorkers == [w \in Workers |-> "aarch64"]

SlotSymmetry == Permutations(Slots)
=============================================================================
