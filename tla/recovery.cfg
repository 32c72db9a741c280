SPECIFICATION Spec
CONSTANTS
    Facts <- MCFacts
    BadFacts <- MCBadFacts
    IdPrefixes = {"PAY", "PAY-ANOM-", "TCK-ANOM-"}
    ShortPrefixes = {"PAY"}
    NamePrefixes = {}
    Positions = {"pos1", "pos2", "pos3"}
    CommandLines <- MCCommandLines
    MaxWrites = 2
    None = None
INVARIANTS
    TypeOK
    ScopeCleared
    QualityRestored
CHECK_DEADLOCK FALSE
