SPECIFICATION Spec
CONSTANTS
    Urls <- SmallUrls
    Bodies <- SmallBodies
    Lines <- SmallLines
    Values <- SmallValues
    HandledNames <- SmallNames
    Variables <- SmallVariables
    Sizes = {1, 2, 3}
    Budget = 6
    MaxRequestHeaders = 2
    MaxResponseHeaders = 2
    ResponseSize = 4
    Bytes = {0, 49, 200}
    Longest = 4
    Samples <- TestTexts
    BufSize = 2
    Transfers = 4
    NoImage = NoImage
CHECK_DEADLOCK FALSE
INVARIANT ChecksumsAreStandard
INVARIANT TextsKept
INVARIANT VariableIsFound
