SPECIFICATION Spec
CONSTANTS
    Groups <- SGroups
    Copies <- SCopies
    Parts <- SParts
    Paths <- SPaths
    Ids <- SIds
    None = None
    GroupOf <- SGroupOf
    CopyOf <- SCopyOf
    PathOf <- SPathOf
    PartId <- SPartId
    NameOf <- SNameOf
    KindOf <- SKindOf
    TitleOf <- STitleOf
    ServiceOf <- SServiceOf
    Score <- SScore
    Place <- SPlace
    Merged = {}
    Protected = {}
    Shifting = {}
    MayTrack <- SMayTrack
    MaxChanges = 0
    MaxGen = 1
    Choices <- SChoices
PROPERTY KeeperNeverDeleted
CHECK_DEADLOCK FALSE
