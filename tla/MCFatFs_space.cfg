CONSTANTS
    fa = fa
    fb = fb
    fc = fc
    bad = bad
    None = None
    Names <- TwoNames
    BadNames <- OneBadName
    Contents <- MCContents
    Slots = 2
    SlotsPerSector = 1
    FatEntries = 4
    FatPerSector = 3
    TotalClusters = 30
    Word = 8
    CrashPoints <- NoCrash
SPECIFICATION MCSpec
PROPERTY FullIsNoSpace
