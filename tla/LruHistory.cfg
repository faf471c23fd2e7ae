CONSTANT Frames = {f1, f2, f3, f4}
SPECIFICATION HistorySpec
INVARIANT QueueIsHistory
PROPERTY ImplementsPolicy
PROPERTY EvictsLeastRecent
