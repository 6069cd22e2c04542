SPECIFICATION Spec
CONSTANTS
    Groups <- PGroups
    Copies <- PCopies
    Parts <- PParts
    Paths <- PPaths
    Ids <- PIds
    None = None
    GroupOf <- PGroupOf
    CopyOf <- PCopyOf
    PathOf <- PPathOf
    PartId <- PPartId
    NameOf <- PNameOf
    KindOf <- PKindOf
    TitleOf <- PTitleOf
    ServiceOf <- PServiceOf
    Score <- PScore
    Place <- PPlace
    Merged = {}
    Protected = {}
    Shifting = {}
    MayTrack <- PMayTrack
    MaxChanges = 0
    MaxGen = 1
    Choices <- PChoices
PROPERTY KeeperNeverDeleted
CHECK_DEADLOCK FALSE
