SPECIFICATION FairSpec
CONSTANTS
    Tabs = {1, 2}
    Emails = {"a", "b"}
    None = None
    MaxRequests = 5
    MaxLosses = 1
    MaxExpiries = 1
    MaxReloads = 1
PROPERTIES PagesSettle OneAccountPerEmail LoggedOutStaysOut
CHECK_DEADLOCK FALSE
