--------------------------- MODULE MCCredentials ---------------------------
(* Instances of Credentials for TLC.                                        *)
EXTENDS Credentials, TLC

CONSTANTS s1, s2, h1, b1

CallSymmetry == Permutations(Calls)
=============================================================================
