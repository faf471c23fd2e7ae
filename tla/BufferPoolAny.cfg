CONSTANTS
    MaxPages = 3
    PoolSize = 2
    Contents = {Zero, Fresh}
    Zero = Zero
    Fresh = Fresh
    None = None
    MaxPins = 2
SPECIFICATION SpecAny
INVARIANT PageTableSound
INVARIANT FramesPartitioned
INVARIANT EvictableExact
INVARIANT FailsOnlyWhenPinned
PROPERTY PinnedStays
