SPECIFICATION Spec
CONSTANTS
    Unknown = Unknown
    Files <- AllFiles
    Periods = {8, 40}
    Ages <- MCAges
    DefaultStep = 3
    MinPoints = 3
    MaxPoints = 5
    MaxStep = 35
    MaxArchives = 4
INVARIANTS StepMeetsContract
