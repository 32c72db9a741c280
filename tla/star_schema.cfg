SPECIFICATION Spec
CONSTANTS
    Failed = Failed
    MaxDamaged = 2
INVARIANTS
    
    SoundRowsAccepted
    AcceptedRowsRaiseNoFinding
CHECK_DEADLOCK FALSE
