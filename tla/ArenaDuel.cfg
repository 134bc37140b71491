SPECIFICATION Spec
CONSTANTS
    Players = {p1, p2}
    Width = 9
    Height = 7
    SpawnSites <- DuelSpawn
    FoodSites <- DuelFood
    Commands <- UpDown
    InputCap = 1
    MaxTicks = 3
    InitialFood = 1
    MaxFood = 3
SYMMETRY PlayerSymmetry
PROPERTIES
    CollisionsResolved
CHECK_DEADLOCK FALSE
