SPECIFICATION Spec
CONSTANTS
    MATCH_MIN_LEN = 2
    MATCH_MAX_LEN = 6
    OPT_LEN = 5
    Further = 2
    Far = 3
    Far2 = 4
    Far3 = 5
    MaxInput = 8
    Inputs <- MCInputs
    Efforts <- MCEfforts
    Models <- MCModels
    Price <- MCPrice
    MaxPrice = 40
    Infinity = 1000000
INVARIANTS
    SearchedOnce
    MatchesCurrent
    OpsDescribeInput
    PricedAsCoded
    CheapestArrival
    CarriedIsTaken
CHECK_DEADLOCK FALSE
