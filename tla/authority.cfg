SPECIFICATION Spec
CONSTANTS
    old = old
    new = new
    other = other
    Nobody = Nobody
    Keep = Keep
    Votes = {v1}
    Keys <- MCKeys
    Insiders <- MCInsiders
    Bids <- MCBids
    Wanted = {0, 1, 3}
    Floors = {0, 2}
    MAX_BASIS_POINTS = 5
    MaxTokens = 1
INVARIANTS
    TypeOK
    OutsidersGainNothing
PROPERTIES
    StaleTokensUseless
    MinimumTakesHold
