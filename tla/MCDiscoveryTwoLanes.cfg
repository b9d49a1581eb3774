SPECIFICATION Spec
CONSTANTS
    Lanes = {gz, butb}
    KeywordBlind = {}
    Limit = 1
    MaxPages = 2
    Margin = 0
    Bootstrap = 1
    CursorsDurable = FALSE
    MaxTime = 1
    MaxRows = 3
    MaxEdits = 1
    MaxFaults = 1
SYMMETRY LaneSymmetry
INVARIANTS
    TypeOK
    WatermarkHonest
PROPERTIES
    SilentLaneKeepsItsPlace
