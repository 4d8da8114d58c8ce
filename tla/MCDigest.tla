------------------------------- MODULE MCDigest -------------------------------
\* Digest for TLC: two users with a message each.
EXTENDS Digest, TLC

CONSTANTS u1, u2, m1, m2

OwnerOf == (m1 :> u1) @@ (m2 :> u2)
EveryKind == FaultKinds
SlotSymmetry == Permutations(Slots)
=============================================================================
