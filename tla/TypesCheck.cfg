SPECIFICATION FairSpec
CONSTANTS
    Declarations <- MCDeclarations
    Orders <- MCOrders
    MaxDepth = 3
    Bits = 4
    LowestConverts = FALSE
INVARIANTS
    RefsResolve
    DescribedOnce
    TransportIsExact
    OverwriteIsExact
    ArgumentIsExact
    SchemaAdmits
    SchemaDecides
PROPERTY Completes
