----------------------------- MODULE MCChannels -----------------------------
(* Instances of Channels for TLC.                                           *)
EXTENDS Channels, TLC

CONSTANTS s1, s2, n1, n2, r1

\* Only one of the two names is within the submitters' scope.
OneCovered == {n1} \X TypeNames

SlotSymmetry == Permutations(Slots)
=============================================================================
