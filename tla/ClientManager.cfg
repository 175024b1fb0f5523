SPECIFICATION Spec
CONSTANTS
    r1 = r1 r2 = r2 f = f d = d c1 = c1 c2 = c2 c3 = c3 l1 = l1 l2 = l2 l3 = l3 l4 = l4
    Runs <- MCRuns
    Refreshes <- MCRefreshes
    Deletions <- MCDeletions
    Clients <- MCClients
    Locks <- MCLocks
    MaxEntries = 2
    Nobody = Nobody
INVARIANTS TypeOK NoneLost
PROPERTIES HandedOutAlive StoppedByItsOwn
CHECK_DEADLOCK FALSE
SYMMETRY MCSymmetry
