------------------------------- MODULE MCSeed -------------------------------
EXTENDS Seed, TLC

CONSTANTS m1, m2, legit, a1, a2, blank

\* Two mules and a legitimate account of the matrix; three synthetic accounts, the donor of one of
\* which lacks a feature that live deltas are added to.
MCSample == {m1, m2, legit}
MCMules == {m1, m2}
MCAccounts == {a1, a2, blank}
MCDonor == [a \in MCAccounts |-> IF a = blank THEN "blank" ELSE "full"]
MCSymmetry == Permutations({m1, m2}) \cup Permutations({a1, a2})
=============================================================================
