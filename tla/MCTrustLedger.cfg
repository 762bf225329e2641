SPECIFICATION Spec
CONSTANTS
    Bodies = {"good", "fair", "poor"}
    Genesis = Genesis
    Torn = Torn
    Altered = Altered
    DamageKinds = {"edit", "delete", "reorder"}
    MaxEntries = 5
INVARIANTS
    UndamagedVerifies
    DamageLocated
    VerifiedIsComplete
CHECK_DEADLOCK FALSE
