SPECIFICATION FairSpec
CONSTANTS
    Buyers = {b1, b2}
    Loader = loader
    NumStalls = 2
    InitMin = 1
    InitMax = 1
    NeedMin = 3
    NeedMax = 4
    Load = 2
    Nobody = Nobody
    Unset = Unset
    MaxGoods = 4
CHECK_DEADLOCK FALSE
INVARIANTS
    LoaderLeavesLast
PROPERTIES
    ImplementsMarket
    MarketCloses
