CONSTANTS
    BITS_PER_BYTE = 8
    SETTLEMENT_CLAIMS_ANCHOR_HEADER_SIZE = 1
    MAX_PERMITTED_DATA_INCREASE = 2
    MAX_PERMITTED_DATA_LENGTH = 6
    Nodes <- BitmapNodes
    Indices <- BitmapIndices
SPECIFICATION FairSpec
INVARIANTS
    TypeOK
    ClaimsStayInBounds
    CounterMatchesBitmap
PROPERTIES
    RecordsSpec
    UpsizeCompletes
