SPECIFICATION Spec
CONSTANTS
    Symbols <- TwoSymbols
    Levels <- BestBidAndOffer
    Sizes = {0, 3, 4, 5, 7}
    Updates <- FewUpdates
    MaxSeq <- ThreeAndOne
INVARIANTS
    BooksAsPublished
    FreshIsCurrent
    EveryGapReported
PROPERTY
    ImplementsFeedView
CHECK_DEADLOCK FALSE
