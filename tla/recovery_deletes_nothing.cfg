SPECIFICATION Spec
CONSTANTS
    Facts <- MCFacts
    BadFacts <- MCBadFacts
    IdPrefixes = {"PAY", "PAY-ANOM-", "TCK-ANOM-"}
    ShortPrefixes = {"PAY"}
    NamePrefixes = {}
    Positions = {"pos1", "pos2", "pos3"}
    CommandLines <- PrefixOnly
    MaxWrites = 0
    None = None
INVARIANT
    MatchingFactsDeleted
CHECK_DEADLOCK FALSE
