------------------------------- MODULE Snake -------------------------------
(***************************************************************************)
(* One snake of the game engine                                            *)
(* (services/gamenode/internal/engine/snake.go): movement, growth, boost   *)
(* and the collision tests.  A snake is a record; every method of the Go   *)
(* type that changes it returns the changed record here.                   *)
(*                                                                         *)
(* Positions are float32 in the code.  Here they lie on a lattice whose    *)
(* Unit is the base speed: a snake moves by whole multiples of it and      *)
(* starts with its segments two of them apart, so from a spawn point on    *)
(* the lattice it never leaves it.                                         *)
(***************************************************************************)
EXTENDS Integers, Sequences

Unit == 5                     \* arena units per step of the lattice
BaseSpeed == 1
BoostMultiplier == 2
BoostScoreCost == 1
InitialSegments == 3
SegmentSpacing == 2
HeadRadius == 8               \* in arena units, like the next
SegmentRadius == 6

Headings == {"up", "down", "left", "right"}
\* The wire's enum is open: any other number reaches the engine as it is.
Directions == Headings \cup {"unknown"}
Unspecified == "unspecified"

Position == [x : Int, y : Int]

SnakeRecord == [segments : Seq(Position), direction : Directions, score : Nat,
                alive : BOOLEAN, boosting : BOOLEAN, growPending : Nat]

IsOpposite(a, b) == {a, b} \in {{"up", "down"}, {"left", "right"}}

\* A snake told to go nowhere stands still.
DirectionDelta ==
    [up   |-> [x |->  0, y |-> -1], down  |-> [x |-> 0, y |-> 1],
     left |-> [x |-> -1, y |->  0], right |-> [x |-> 1, y |-> 0],
     unknown |-> [x |-> 0, y |-> 0]]

\* dist(a, b) < radius, without the square root.
Within(a, b, radius) ==
    Unit * Unit * ((a.x - b.x) * (a.x - b.x) + (a.y - b.y) * (a.y - b.y))
        < radius * radius

Touch(a, b) == Within(a, b, HeadRadius + SegmentRadius)

HeadOf(s) == s.segments[1]

-----------------------------------------------------------------------------
\* A snake starts facing right, its body stretched out to the left.
NewSnake(pos) ==
    [segments |-> [i \in 1..InitialSegments |->
                      [x |-> pos.x - (i - 1) * SegmentSpacing, y |-> pos.y]],
     direction |-> "right", score |-> 0,
     alive |-> TRUE, boosting |-> FALSE, growPending |-> 0]

\* The mutants of the engine are plausible mistakes in its code; none is used by
\* a specification.  Mutant of SetInput: a snake may be turned around.
SetInputAny(s, dir, boost) ==
    [s EXCEPT !.direction = IF dir # Unspecified THEN dir ELSE @, !.boosting = boost]

SetInput(s, dir, boost) ==
    [s EXCEPT !.direction = IF dir # Unspecified /\ ~IsOpposite(@, dir) THEN dir ELSE @,
              !.boosting = boost]

\* Mutant of Boosts: on credit.
BoostsFree(s) == s.boosting

\* Boosting takes effect only while the score can pay for it.
Boosts(s) == s.boosting /\ s.score > BoostScoreCost

NewHead(s) ==
    LET speed == IF Boosts(s) THEN BaseSpeed * BoostMultiplier ELSE BaseSpeed
        d == DirectionDelta[s.direction]
    IN  [x |-> HeadOf(s).x + d.x * speed, y |-> HeadOf(s).y + d.y * speed]

\* Mutant of Moved: the loop that shifts the body stops one segment early.
MovedShort(s) ==
    [i \in 1..(Len(s.segments) + (IF s.growPending > 0 THEN 1 ELSE 0)) |->
        IF i = 1 THEN NewHead(s)
        ELSE IF i = 2 /\ s.growPending = 0 THEN s.segments[2] ELSE s.segments[i - 1]]

\* Each segment takes the place of the one ahead; a growing snake keeps its tail.
Moved(s) ==
    [i \in 1..(Len(s.segments) + (IF s.growPending > 0 THEN 1 ELSE 0)) |->
        IF i = 1 THEN NewHead(s) ELSE s.segments[i - 1]]

Tick(s) ==
    IF ~s.alive THEN s
    ELSE [s EXCEPT !.segments = Moved(s),
                   !.growPending = IF @ > 0 THEN @ - 1 ELSE @,
                   !.score = IF Boosts(s) THEN @ - BoostScoreCost ELSE @]

Grow(s, amount) == [s EXCEPT !.growPending = @ + amount]

-----------------------------------------------------------------------------
(* Collisions.                                                             *)

Inside(pos, width, height) == pos.x \in 0..width /\ pos.y \in 0..height

CheckWallCollision(s, width, height) ==
    [s EXCEPT !.alive = @ /\ Inside(HeadOf(s), width, height)]

\* Mutants of Skipped: one segment too few; the head alone.
SkippedThree == 3
SkippedHead == 1

\* The first segments are skipped, to let the snake turn.
Skipped == 4

BitesItself(s) ==
    \E i \in (Skipped + 1)..Len(s.segments) : Touch(HeadOf(s), s.segments[i])

CheckSelfCollision(s) == [s EXCEPT !.alive = @ /\ ~BitesItself(s)]

\* Against every segment of the other snake, its head included.
CheckHeadCollision(s, other) ==
    /\ s.alive /\ other.alive
    /\ \E i \in DOMAIN other.segments : Touch(HeadOf(s), other.segments[i])

\* A dead snake leaves food at every other segment.
DropFood(s) ==
    [k \in 1..((Len(s.segments) + 1) \div 2) |-> s.segments[2 * k - 1]]

-----------------------------------------------------------------------------
(* What a snake's shape tells.                                             *)

\* The step from segment i + 1 to segment i goes in direction d.
Goes(s, i, d) ==
    \E len \in 1..SegmentSpacing :
        /\ s.segments[i].x = s.segments[i + 1].x + len * DirectionDelta[d].x
        /\ s.segments[i].y = s.segments[i + 1].y + len * DirectionDelta[d].y

\* Two neighbouring segments are one step apart, along an axis, or coincide.
Linked(a, b) ==
    \E d \in Directions : \E len \in 1..SegmentSpacing :
        /\ a.x = b.x + len * DirectionDelta[d].x
        /\ a.y = b.y + len * DirectionDelta[d].y

Contiguous(s) ==
    \A i \in 1..(Len(s.segments) - 1) : Linked(s.segments[i], s.segments[i + 1])

\* Among its first m segments the snake goes one way and the opposite way.
TurnsBack(s, m) ==
    \E i, j \in 1..(m - 1) : \E d, e \in Headings :
        IsOpposite(d, e) /\ Goes(s, i, d) /\ Goes(s, j, e)

\* Among its first m segments are two neighbours in the same place.
StandsStill(s, m) == \E i \in 1..(m - 1) : s.segments[i] = s.segments[i + 1]
=============================================================================
