-------------------------------- MODULE Food --------------------------------
(***************************************************************************)
(* The food of an arena (services/gamenode/internal/engine/food.go).       *)
(* FoodManager.items maps ids to items; an id serves as the key of the map *)
(* only, so ids are used again here once they are free.                    *)
(***************************************************************************)
EXTENDS Snake, FiniteSets

Fn == INSTANCE Functions
Sets == INSTANCE FiniteSetsExt
Seqs == INSTANCE SequencesExt

CONSTANTS
    MaxFood,      \* upper limit of food items on the map
    InitialFood,  \* items that are there at the start
    FoodSites     \* bound: the places at which natural food appears

ASSUME FoodAssumption ==
    /\ InitialFood \in Nat /\ MaxFood \in Nat
    /\ InitialFood <= MaxFood
    /\ FoodSites \subseteq Position /\ FoodSites # {}

FoodValue == 1
DeathFoodValue == 2
FoodRadius == 6

Item == [pos : Position, value : {FoodValue, DeathFoodValue}]

Ids == 1..MaxFood

Count(items) == Cardinality(DOMAIN items)

NoFood == [id \in {} |-> 0]

\* A new item, under an id that is free.
Put(items, pos, value) ==
    LET new == CHOOSE id \in 1..(Count(items) + 1) : id \notin DOMAIN items
    IN  [id \in DOMAIN items \cup {new} |->
            IF id = new THEN [pos |-> pos, value |-> value] ELSE items[id]]

\* spawnOne, at each of a sequence of random sites.
SpawnAll(items, sites, value) ==
    Seqs!FoldLeft(LAMBDA map, pos : Put(map, pos, value), items, sites)

\* NewFoodManager: what the items may be at first.
NewFood == {SpawnAll(NoFood, sites, FoodValue) : sites \in [1..InitialFood -> FoodSites]}

\* Mutant of SpawnAtPositions: the limit is tested before the loop only.
SpawnRegardless(items, positions, value) ==
    IF Count(items) >= MaxFood THEN items ELSE SpawnAll(items, positions, value)

\* A snake's remains: as many as there is room for.
SpawnAtPositions(items, positions, value) ==
    Seqs!FoldLeft(LAMBDA map, pos : IF Count(map) >= MaxFood THEN map
                                    ELSE Put(map, pos, value),
                  items, positions)

\* What the items may be after Replenish: new ones at random sites.
Replenished(items) ==
    {SpawnAll(items, sites, FoodValue) :
        sites \in [1..(InitialFood - Count(items)) -> FoodSites]}

\* The items a head consumes, what is left and what they are worth.
InReach(items, head) ==
    {id \in DOMAIN items : Within(head, items[id].pos, HeadRadius + FoodRadius)}

Uneaten(items, head) == Fn!Restrict(items, DOMAIN items \ InReach(items, head))

Worth(items, head) ==
    Sets!MapThenSumSet(LAMBDA id : items[id].value, InReach(items, head))
=============================================================================
