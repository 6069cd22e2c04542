SPECIFICATION Spec
CONSTANTS
    N = 2
    LongNames <- NoPart
    Faults <- OnlyHand
    MaxFile = 6
PROPERTY SurvivorRestored
