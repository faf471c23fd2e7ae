CONSTANTS
    Inputs <- RowInputs
    Numerals <- RowNumerals
    Floats <- RowFloats
    Error = Error
    Pages = {0, 300}
    Threshold = 2
SPECIFICATION Spec
INVARIANT SchemaAsTyped
INVARIANT RefusedRightly
INVARIANT RowAsTyped
INVARIANT PatchedAsEncoded
CHECK_DEADLOCK FALSE
