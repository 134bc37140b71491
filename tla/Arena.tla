------------------------------- MODULE Arena -------------------------------
(***************************************************************************)
(* A game room (services/gamenode/internal/engine/game.go): the snakes and *)
(* the food behind one lock, and the buffered channel through which the    *)
(* connections' readers submit inputs.  A tick holds the lock from its     *)
(* first to its last phase, so it is one action; the loops over the map of *)
(* snakes take them in any order.                                          *)
(***************************************************************************)
EXTENDS Food

CONSTANTS
    Players,
    Width, Height,  \* the arena, in lattice steps
    SpawnSites,     \* bound: the places at which snakes are spawned
    Commands,       \* bound: the inputs <<direction, boost>> players send
    InputCap,       \* capacity of inputCh
    MaxTicks        \* bound: ticks of a game

ASSUME ArenaAssumption ==
    /\ IsFiniteSet(Players)
    /\ Width \in Nat /\ Height \in Nat
    /\ SpawnSites \subseteq Position
    /\ \A pos \in SpawnSites :   \* padded from the walls, by a step at least
          pos.x \in 1..(Width - 1) /\ pos.y \in 1..(Height - 1)
    /\ Commands \subseteq (Directions \cup {Unspecified}) \X BOOLEAN
    /\ InputCap \in Nat /\ MaxTicks \in Nat

VARIABLES
    snakes,   \* Game.snakes: from players to snakes
    food,     \* Game.food: from ids to items
    inputs,   \* Game.inputCh
    tick      \* Game.tick

vars == <<snakes, food, inputs, tick>>

InputRecord == [player : Players, dir : Directions \cup {Unspecified}, boost : BOOLEAN]

TypeOK ==
    /\ DOMAIN snakes \subseteq Players
    /\ snakes \in [DOMAIN snakes -> SnakeRecord]
    /\ DOMAIN food \subseteq Ids /\ food \in [DOMAIN food -> Item]
    /\ inputs \in Seq(InputRecord) /\ Len(inputs) <= InputCap
    /\ tick \in 0..MaxTicks

Init ==
    /\ snakes = [p \in {} |-> 0]
    /\ food \in NewFood
    /\ inputs = <<>>
    /\ tick = 0

Living == {p \in DOMAIN snakes : snakes[p].alive}

-----------------------------------------------------------------------------
(* What the connections call.                                              *)

\* A snake of the player that is there already is replaced.
AddPlayer(p) ==
    /\ \E pos \in SpawnSites :
         snakes' = [q \in DOMAIN snakes \cup {p} |->
                       IF q = p THEN NewSnake(pos) ELSE snakes[q]]
    /\ UNCHANGED <<food, inputs, tick>>

RemovePlayer(p) ==
    /\ p \in DOMAIN snakes
    /\ snakes' = [q \in DOMAIN snakes \ {p} |-> snakes[q]]
    /\ UNCHANGED <<food, inputs, tick>>

\* An input is dropped when the channel is full.
SubmitInput(p, dir, boost) ==
    /\ Len(inputs) < InputCap
    /\ inputs' = Append(inputs, [player |-> p, dir |-> dir, boost |-> boost])
    /\ UNCHANGED <<snakes, food, tick>>

-----------------------------------------------------------------------------
(* The phases of a tick, each from one map of snakes to the next.          *)

\* Mutant of Obey: the dead obey too.
ObeyDead(ss, input) ==
    IF input.player \in DOMAIN ss
    THEN [ss EXCEPT ![input.player] = SetInput(@, input.dir, input.boost)]
    ELSE ss

\* drainInputs: living snakes obey, in the order of the channel.
Obey(ss, input) ==
    IF input.player \in DOMAIN ss /\ ss[input.player].alive
    THEN [ss EXCEPT ![input.player] = SetInput(@, input.dir, input.boost)]
    ELSE ss

AfterInputs == Seqs!FoldLeft(Obey, snakes, inputs)

AfterMoves == LET ss == AfterInputs IN [p \in DOMAIN ss |-> Tick(ss[p])]

\* Food counts, and makes grow, by what it is worth.
Digest(s, score) == Grow([s EXCEPT !.score = @ + score], score)

\* Each living snake in turn eats what its head reaches.
Feed(world, p) ==
    LET head == HeadOf(world.snakes[p])
    IN  IF world.snakes[p].alive
        THEN [snakes |-> [world.snakes EXCEPT ![p] = Digest(@, Worth(world.food, head))],
              food   |-> Uneaten(world.food, head)]
        ELSE world

AfterMeals(order) ==
    Seqs!FoldLeft(Feed, [snakes |-> AfterMoves, food |-> food], order)

\* Walls, then the snakes' own bodies.
AfterWalls(ss) ==
    [p \in DOMAIN ss |->
        CheckSelfCollision(CheckWallCollision(ss[p], Width, Height))]

\* checkInterSnakeCollisions: a head that hits dies, what it hit gets a reward.
Meet(ss, i, j) ==
    IF i # j /\ CheckHeadCollision(ss[i], ss[j])
    THEN [ss EXCEPT ![i].alive = FALSE, ![j].score = @ + ss[i].score \div 2]
    ELSE ss

\* Mutant of AfterFights: each pair is tested one way round only.
AfterHalfTheFights(ss, order) ==
    LET pairs == {ij \in (DOMAIN order) \X (DOMAIN order) : ij[1] < ij[2]}
    IN  Seqs!FoldLeft(LAMBDA s, ij : Meet(s, order[ij[1]], order[ij[2]]),
                      ss, Seqs!SetToSeq(pairs))

AfterFights(ss, order) ==
    Seqs!FoldLeft(LAMBDA s1, i : Seqs!FoldLeft(LAMBDA s2, j : Meet(s2, i, j), s1, order),
                  ss, order)

\* handleDeaths: whatever is dead drops food.
Bury(items, s) ==
    IF s.alive THEN items ELSE SpawnAtPositions(items, DropFood(s), DeathFoodValue)

AfterDeaths(items, ss, order) ==
    Seqs!FoldLeft(LAMBDA map, p : Bury(map, ss[p]), items, order)

ProcessTick ==
    /\ tick < MaxTicks
    /\ tick' = tick + 1
    /\ inputs' = <<>>
    /\ \E eat, fight, bury \in Seqs!SetToSeqs(DOMAIN snakes) :
         LET fed  == AfterMeals(eat)
             left == AfterFights(AfterWalls(fed.snakes), fight)
         IN  /\ snakes' = left
             /\ food' \in Replenished(AfterDeaths(fed.food, left, bury))

Next ==
    \/ \E p \in Players : AddPlayer(p) \/ RemovePlayer(p)
    \/ \E p \in Players : \E c \in Commands : SubmitInput(p, c[1], c[2])
    \/ ProcessTick

Spec == Init /\ [][Next]_vars

-----------------------------------------------------------------------------
(* Properties.                                                             *)

\* However snakes eat, die, drop their remains tick after tick and are replaced,
\* the map holds at least its initial food and never more than the limit
\* (food.go, SpawnAtPositions and Replenish; game.go, handleDeaths).
FoodBounded == Count(food) \in InitialFood..MaxFood

\* No body ever tears: whatever the inputs, boosts and growth, each segment is
\* within one step of the one ahead of it (snake.go, Tick and NewSnake).
Unbroken == \A p \in DOMAIN snakes : Contiguous(snakes[p])

\* "Skips the first few segments to avoid false positives when turning"
\* (snake.go:140): a head only touches a segment behind the skipped ones when,
\* somewhere between the two, the snake has turned back on itself or has stood
\* still, told a direction that is none.
TurningIsSafe ==
    \A p \in DOMAIN snakes : LET s == snakes[p] IN
        \A m \in (Skipped + 1)..Len(s.segments) :
            Touch(HeadOf(s), s.segments[m]) => TurnsBack(s, m) \/ StandsStill(s, m)

\* "Prevents 180 degree reversals" (snake.go:83) per input, not per tick: a snake
\* goes the opposite way of its last step only when at least two inputs of its
\* player were waiting for the tick (game.go, drainInputs).
ReversalTakesTwo ==
    [][tick' # tick =>
          \A p \in DOMAIN snakes : \A d, e \in Headings :
             IsOpposite(d, e) /\ Goes(snakes[p], 1, d) /\ Goes(snakes'[p], 1, e)
                => \E i, j \in DOMAIN inputs :
                      i < j /\ inputs[i].player = p /\ inputs[j].player = p]_vars

\* After a tick no living snake's head touches another living snake, although
\* snakes die, and are skipped from then on, in the middle of the pairwise check
\* (game.go, checkInterSnakeCollisions).
CollisionsResolved ==
    [][tick' # tick =>
          \A p, q \in Living' : p # q => ~CheckHeadCollision(snakes'[p], snakes'[q])]_vars

\* The dead stay as they are, until they are removed or replaced by a new snake:
\* no input, tick or kill changes or revives one (game.go, drainInputs and
\* processTick).
DeadFrozen ==
    [][\A p \in DOMAIN snakes \ Living :
          p \in DOMAIN snakes' =>
             \/ snakes'[p] = snakes[p]
             \/ \E pos \in SpawnSites : snakes'[p] = NewSnake(pos)]_vars

\* Inputs of a player's earlier connection wait in the channel when the player
\* joins again, and steer the new snake: whatever they are, a snake that was just
\* added is alive after its first tick, unless another snake is in its way (game.go,
\* SubmitInput, AddPlayer and drainInputs; snake.go, CheckSelfCollision).
JustAdded(s) == \E pos \in SpawnSites : s = NewSnake(pos)

FreshSurvives ==
    [][\A p \in DOMAIN snakes :
          tick' # tick /\ JustAdded(snakes[p])
              => \/ p \in Living'
                 \/ \E q \in DOMAIN snakes \ {p} :
                        \E i \in DOMAIN snakes'[q].segments :
                            Touch(HeadOf(snakes'[p]), snakes'[q].segments[i])]_vars
=============================================================================
