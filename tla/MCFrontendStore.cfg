CONSTANTS
    a = a
    b = b
    escaped = escaped
    quoting = quoting
    drive = drive
    plain1 = plain1
    plain2 = plain2
    escaped1 = escaped1
    drive1 = drive1
    Names = {a, b, escaped, quoting, drive}
    Schemas = {plain1, plain2, escaped1, drive1}
    Plain <- MCPlain
    Listings <- MCListings
    Printed <- MCPrinted
    Throws = Throws
    Pages = {0, 1}
    SlotsPerPage = 1
    Configs <- TypedConfigs
    MaxField = 9500
    Null = Null
SPECIFICATION Spec
INVARIANT ConfigLegal
INVARIANT TabsAreTables
INVARIANT SuccessIsCurrent
INVARIANT ColumnsOfSelection
