SPECIFICATION Spec
CONSTANTS
    Players = {p1}
    Width = 10
    Height = 8
    SpawnSites <- SoloSpawn
    FoodSites <- SoloFood
    Commands <- AllCommands
    InputCap = 2
    MaxTicks = 6
    InitialFood = 1
    MaxFood = 3
INVARIANTS
    TypeOK
    FoodBounded
    Unbroken
    TurningIsSafe
PROPERTIES
    DeadFrozen
    ReversalTakesTwo
    FreshSurvives
CHECK_DEADLOCK FALSE
