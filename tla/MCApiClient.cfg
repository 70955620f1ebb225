SPECIFICATION FairSpec
CONSTANTS
    Calls = {1, 2}
    Advertised <- MCAdvertised
    Support <- MCSupport
    None = None
    MaxFailures = 2
    MaxUpgrades = 2
    MaxAttempts = 3
    Schemas <- MCSchemas
    Values <- MCValues
    Components <- MCComponents
INVARIANTS NoStaleFailure ValidatorMeansTheContract
PROPERTIES NeverStranded CallsEnd
CHECK_DEADLOCK FALSE
