CONSTANTS
    j1 = j1
    k1 = k1
    k2 = k2
    dA = dA
    dB = dB
    None = None
    Keep = Keep
    Users = {u1}
    Journeys = {j1}
    Data = {dA, dB}
    CommandIds = {k1, k2}
    Commands <- MCCommands
    Requests = {r1, r2, r3}
SPECIFICATION Spec
SYMMETRY MCSymmetry
CHECK_DEADLOCK FALSE
INVARIANTS TypeOK ExactlyOnce NoLostUpdate AuditReplays AnswersMatchReceipts NobodyStuck
PROPERTIES AuthorityAtCommit DecidedOnce ImplementsLedger
