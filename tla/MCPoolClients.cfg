CONSTANTS
    MaxPages = 3
    PoolSize = 2
    Contents = {Zero, Fresh}
    Zero = Zero
    Fresh = Fresh
    None = None
    MaxPins = 2
    Handles = {h1, h2}
    Idle = Idle
SYMMETRY Symmetry
SPECIFICATION ClientSpec
INVARIANT HandleTypeOK
INVARIANT CachedAllocated
INVARIANT FramesMapped
INVARIANT HandlesValid
INVARIANT NoUnmarkedChange
PROPERTY ImplementsPageStore
PROPERTY FlushAllCleans
