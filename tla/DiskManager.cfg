CONSTANTS
    MaxPages = 4
    Contents = {Zero, data}
    Zero = Zero
SPECIFICATION Spec
INVARIANT TypeOK
INVARIANT FreeListSound
INVARIANT GrantsOneUnusedPage
