SPECIFICATION GatesSpec
CONSTANTS
    Sources <- MCSources
    None = None
    MaxEdits = 2
    MaxReleases = 2
    FirstTree <- StartTree
    Editable <- MCEditable
    Internal <- InternalNames
    DefaultOwner = "* @owner"
    Ignored = {"dist", "node_modules"}
    PyPackage <- Trax
INVARIANTS OldClientsKeepWorking ImportsKeepBoundaries PythonLayersHold
CHECK_DEADLOCK FALSE
