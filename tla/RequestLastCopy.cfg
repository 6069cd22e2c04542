SPECIFICATION Spec
CONSTANTS
    Groups <- MGroups
    Copies <- MCopies
    Parts <- MParts
    Paths <- MPaths
    Ids <- MIds
    None = None
    GroupOf <- MGroupOf
    CopyOf <- MCopyOf
    PathOf <- MPathOf
    PartId <- MPartId
    NameOf <- MNameOf
    KindOf <- MKindOf
    TitleOf <- MTitleOf
    ServiceOf <- MServiceOf
    Score <- MScore
    Place <- MPlace
    Merged = {"merged"}
    Protected = {"merged", "differing"}
    Shifting = {"pk"}
    MayTrack <- MMayTrack
    MaxChanges = 1
    MaxGen = 2
    Choices <- MChoices
PROPERTY LastCopyKept
CHECK_DEADLOCK FALSE
