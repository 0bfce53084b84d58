SPECIFICATION Spec
CONSTANTS
    Targets <- MCTargets
    Width <- MCWidth
    Layouts <- MCLayouts
    Chains <- MCChains
    AddressIn <- MCAddressIn
    PageSize = 2
    Astray = Astray
    None = None
INVARIANTS
    TypeOK
    ChainsAgree
    NeverAstray
    MajorityRules
PROPERTY DropsOnlyMisses
