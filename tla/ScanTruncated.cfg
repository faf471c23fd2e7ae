CONSTANTS
    Pages <- HeapPages
    PoolSize = 2
    TableNames = {t1, t2}
    Rows <- HeapRows
    PageRoom = 5
    SlotSize = 1
    PointerSize = 1
    Threshold = 1
    Capacity = 2
    NoPage = NoPage
    Absent = Absent
    Tombstone = Tombstone
    CountModulus = 2
    LengthModulus = 16
    MaxPins = 1
SPECIFICATION HeapSpec
CHECK_DEADLOCK FALSE
INVARIANT ScanReturnsAll
