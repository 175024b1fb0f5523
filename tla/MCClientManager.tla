-------------------------- MODULE MCClientManager --------------------------
EXTENDS ClientManager, TLC
CONSTANTS r1, r2, f, d, c1, c2, c3, l1, l2, l3, l4
MCRuns == {r1, r2}
MCRefreshes == {f}
MCDeletions == {d}
MCClients == {c1, c2, c3}
MCLocks == {l1, l2, l3, l4}
MCSymmetry == Permutations(MCRuns)
=============================================================================
