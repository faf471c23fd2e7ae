CONSTANTS
    Pages = {p1, p2, p3, p4}
    PoolSize = 2
    TableNames = {t1, t2}
    Rows <- TextRows
    PageRoom = 6
    SlotSize = 1
    PointerSize = 2
    Threshold = 1
    Capacity = 2
    NoPage = NoPage
    Absent = Absent
    Tombstone = Tombstone
    CountModulus = 32
    MaxPins = 1
SYMMETRY Symmetry
SPECIFICATION Spec
INVARIANT TypeOK
INVARIANT ChainsSound
INVARIANT RowCountExact
PROPERTY ImplementsTableStore
CHECK_DEADLOCK FALSE
