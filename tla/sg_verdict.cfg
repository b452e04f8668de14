SPECIFICATION FairSpec
CONSTANTS
    A1 = A1
    B1 = B1
    NoEntry = NoEntry
    NoItems = NoItems
    NoAnswer = NoAnswer
    LeafCount = 2
    PyLeaves = {1}
    SKUs = {A1, B1}
    Catalogues <- MCCatalogues
    Queries <- MCQueries
CHECK_DEADLOCK FALSE
INVARIANTS TypeOK  PartialIsExact AllocationIsBest
PROPERTY Answered
