SPECIFICATION Spec
CONSTANTS
    ds1 = ds1
    ds2 = ds2
    cpu = cpu
    ram = ram
    Absent = Absent
    Sources <- TwoSources
    Default = ds1
    Panels <- TwoPanels
    DefaultPanels <- OnlyCpu
    Periods <- Hours
    FirstPeriod = 1
    MaxEdits = 2
    MaxRuns = 2
INVARIANTS
    TypeOK
    ShowsActive
    KeepsLayouts
PROPERTIES
    GraphsCatchUp
CHECK_DEADLOCK FALSE
