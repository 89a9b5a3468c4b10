SPECIFICATION FairSpec
CONSTANTS
    Threads = {t1, t2}
    None = None
    Lengths = {3}
    Versioned <- FirstTwo
    Patched <- FirstTuple
    MaxTuples = 3
    MaxLogs = 1
    BUSTUB_PAGE_SIZE = 14
    TABLE_PAGE_HEADER_SIZE = 1
    TUPLE_INFO_SIZE = 2
    SizeRange = 256
    OffsetRange = 64
CHECK_DEADLOCK FALSE
INVARIANTS
    
    ScanExact
    VersionsSound
PROPERTY CallsReturn
