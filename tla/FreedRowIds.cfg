CONSTANTS
    MaxPages = 3
    PoolSize = 3
    Contents = {Zero, Fresh}
    Zero = Zero
    Fresh = Fresh
    None = None
    MaxPins = 1
    Tables = {t1, t2}
SPECIFICATION EngineSpec
PROPERTY ScanReturns
