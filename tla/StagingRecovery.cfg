SPECIFICATION Spec
CONSTANTS
    N = 2
    LongNames = {1}
    Faults <- AllFaults
    MaxFile = 5
INVARIANTS
    TypeOK
    RefusedWhole
    NoSilentLeftover
PROPERTIES
    RemovalProven
