SPECIFICATION Spec
CONSTANTS
    None = None
    MaxQuantity = 2
    FirstDocument <- MCDocument
    Tasks = {1, 2}
    Scenarios <- MCScenarios
INVARIANTS  RetryIsRecognised
PROPERTIES SavedAsAsked
CHECK_DEADLOCK FALSE
