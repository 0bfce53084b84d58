SPECIFICATION ScanSpec
CONSTANTS
    Types <- MCTypes
    TypeOf <- MCTypeOf
    MaxResults = 3
    MaxRestore = 3
    PageSize = 2
    None = None

PROPERTY NextMaterializes
