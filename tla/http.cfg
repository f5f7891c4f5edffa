SPECIFICATION Spec
CONSTANTS
    NotArray = NotArray  NotObject = NotObject
    Strings <- MCStrings
    Words <- MCStrings
    Leftovers <- MCLeftovers
    Templates <- MCTemplates
    JsonHead = 28
    JsonBase = 1024
    JsonRoom = 512
    EntryLens = {85, 512, 906, 1900}
    MaxSeries = 2
    Pages <- MCPages
    Endings <- MCEndings
    MaxCuts = 2
    Files <- MCFiles
    Requests <- MCRequests
    RrdFiles <- MCRrdFiles
    Descriptors = {3, 4, 5}
    MaxSignals = 2
    MaxOom = 1
INVARIANTS
    TypeOK NoDescriptorLeaks OnlyOwnersClose OnlyThemesLeak AnswersItsPath OnlyDeclaredMetrics
    SeriesAreSamples JsonFits
PROPERTIES StopsWhenTold ConnectionsEnd
