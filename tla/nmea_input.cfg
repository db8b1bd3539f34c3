SPECIFICATION InputSpec
CONSTANTS
    NMEA_MAX_SIZE = 5
    MIN_SENTENCE = 2
    MaxLine = 7
    MAX_NMEA_TOKENS = 2
    Characters = {"$", ",", "*", "return", "x"}
INVARIANTS
    InSync
    LostOnlyAfterFull
    SentenceIsLine
    TokensAreFields
