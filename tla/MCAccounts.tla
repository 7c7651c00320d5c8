----------------------------- MODULE MCAccounts -----------------------------
(* Instances of Accounts for TLC.                                           *)
EXTENDS Accounts, TLC

CONSTANTS h1, h2, b1, s1, s2

\* The wildcard, a capability no guard asks for, and one the server does not know.
StarOrPlain == {{"*"}, {"builds:create"}, {"builds:delete"}}

Symmetry == Permutations(Humans) \cup Permutations(Slots)
=============================================================================
