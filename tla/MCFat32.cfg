CONSTANTS
    CellsPerCluster = 2
    DiskEnd = 7
    FatEntries = 8
    EntriesPerSector = 5
    NumFats = 2
    TotalSectors32 = 0
    DataStart = 20
    WordSize = 65536
    COUNT_RANGE = 256
    FAT32_END_CLUSTER = 4095
    FAT32_MAX_OPEN_FILES = 2
    Spelling <- Names
    Readme = "FAT32README"
    Paths <- TreePaths
    Texts <- ShortAndLong
    ReadSizes = {3}
    Positions = {2}
    MAX_FAULTS = 1
    MAX_CALLS = 4
SPECIFICATION Spec
VIEW View
INVARIANTS
    TypeOK
    BreaksOnlyBy
    MirrorsAgree
    NoLostClusters
    SearchStaysInTable
    AliasesAreUnique
    CursorIsPlaced
    ReadsBack
PROPERTY
    ImplementsStore
CHECK_DEADLOCK FALSE
