\* Each property of the last lines is refuted; check one of them at a time.
SPECIFICATION Spec
CONSTANTS
    N = 2
    LongNames <- NoPart
    Faults <- NoFault
    MaxFile = 4
PROPERTY OrphanKept
\* INVARIANT LeftoversNamed
\* INVARIANT DeletesAudited
\* PROPERTY NoClobber
