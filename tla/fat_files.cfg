SPECIFICATION MCSpec
CONSTANTS
    bytes_per_sector = 2
    sector_per_cluster = 2
    MaxCluster = 4
    FileWord = 20
    Zero = "0"
    Stale = "?"
    Sources <- FewSources
    Counts = {5}
    Positions = {0, 3, 9, 12, 17}
    MaxWrites = 2
    MaxErrors = 1
    Names = {"s", "l", "k"}
    dos_name <- MCdos_name
    lfn_entry_count <- MCentry_count
    lfn_checksum <- MCchecksum
    reclen <- MCentry_count
    Room = 2
    PerSector = 3
    Sectors = 2
    Chains = {c1, c2}
    MaxCuts = 1
    SECTORSIZE = 8
    FAT_ENTRY_SIZE = 4
    MAX_PARTITION = 2
    MaxUsed = 1
    Images <- MCImages
    Sizes = {0, 1, 7, 8, 9, 15, 16, 17, 31, 32, 33, 63, 64, 65, 120, 128, 242, 243, 255}
    SizeWord = 256
    Keys = {0, 1, 2}
    MaxElements = 7
    InsertionLength = 2
    PathTexts = {"p", "q"}
    AttrNames = {"n", "o"}
    Values = {"v", "w"}
    NoValue = none
    FAT_XATTR_MAX_ENTRIES = 2
SYMMETRY MCSymmetry
INVARIANTS
    FilesTypeOK
    CutKeepsFile
    SearchesAgree
    VolumeKeeps
PROPERTIES KeepsPromise DirectoryKeeps
CHECK_DEADLOCK FALSE
