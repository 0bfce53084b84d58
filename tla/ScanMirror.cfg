SPECIFICATION ScanSpec
CONSTANTS
    Types <- MCTypes
    TypeOf <- MCTypeOf
    MaxResults = 4
    MaxRestore = 3
    PageSize = 2
    None = None
INVARIANTS
    SummaryAgrees
    ListIsPrefix
PROPERTIES
    FetchBringsAll
    OnlyRefusalLosesScan
