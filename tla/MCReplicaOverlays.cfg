SPECIFICATION Spec
CONSTANTS
    None = None
    Users = {"u1"}
    Replicas = {"r1"}
    Resources = {"x"}
    CommandContents <- MCContents
    MaxReplicasPerUser = 1
    MaxConcurrent = 1
    MaxPerWindow = 2
    SupportPeriod = 0
    RetentionPeriod = 0
    ChallengeLife = 0
    MaxTime = 1
    MaxTries = 2
    MaxOutstanding = 2
    MaxBytes = 3
    Reserved <- MCReserved
    QuarantineReserved <- MCQuarantineReserved
    MaxCrashes = 2
    MaxLosses = 1
    MaxSends = 2
    MaxEpoch = 1
    MaxChanges = 1
INVARIANT EveryOverlayIsQuarantined
CHECK_DEADLOCK FALSE
