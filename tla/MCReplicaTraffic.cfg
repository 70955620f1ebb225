SPECIFICATION TrafficSpec
CONSTANTS
    Users = {"u1"}
    Replicas = {"r1"}
    Resources = {"x"}
    CommandContents <- MCContents
    ResetRequests = {"q1", "q2"}
    MaxReplicasPerUser = 1
    MaxConcurrent = 1
    MaxPerWindow = 1
    SupportPeriod = 2
    RetentionPeriod = 2
    ChallengeLife = 1
    MaxTime = 3
    MaxSends = 2
    MaxEpoch = 2
    MaxIncarnation = 2
    MaxChanges = 1
    None = None
INVARIANT DeletionsStick
PROPERTIES AppliedOnce AppliesOnlyWhileEligible
CHECK_DEADLOCK FALSE
