CONSTANTS
    PageSize = 12
    HeaderSize = 1
    Tuples <- MCTuples
    Tombstone = Tombstone
SPECIFICATION Spec
INVARIANT TypeOK
INVARIANT LayoutSound
PROPERTY ImplementsTuplePage
PROPERTY CompactReclaimsAll
