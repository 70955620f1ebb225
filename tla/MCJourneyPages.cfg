SPECIFICATION PagesSpec
CONSTANTS
    None = None
    MaxQuantity = 2
    FirstDocument <- MCDocument
    JourneyIds = {"j1", "j2"}
    SegmentIds = {"s1", "s2", "s3"}
    ItemIds = {"p1", "p2"}
    JourneyInputs <- MCJourneyInputs
    SegmentInputs <- MCSegmentInputs
    ItemInputs <- MCItemInputs
    Elsewhere <- MCElsewhere
    MaxCommits = 2
    MaxEdits = 2
INVARIANTS DraftKeepsItsTarget DocumentStaysValid AsksOnlyForTheEdit
PROPERTIES EditsStayInTheirJourney
CHECK_DEADLOCK FALSE
