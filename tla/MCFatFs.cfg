CONSTANTS
    fa = fa
    fb = fb
    fc = fc
    bad = bad
    None = None
    Names <- ThreeNames
    BadNames <- OneBadName
    Contents <- MCContents
    Slots = 2
    SlotsPerSector = 1
    FatEntries = 5
    FatPerSector = 3
    TotalClusters = 30
    Word = 8
    CrashPoints <- BuildPoints
SPECIFICATION MCSpec
INVARIANTS TypeOK FilesSound NoLeak
PROPERTIES IsFileStore CallsEnd
