---------------------------- MODULE SnakeProofs ----------------------------
(***************************************************************************)
(* One snake, whatever its length, score, position and inputs: its body    *)
(* stays in one piece, one input never reverses it, and a turn does not    *)
(* kill it.                                                                *)
(***************************************************************************)
EXTENDS Snake, WellFoundedInduction, TLAPS

\* A snake as the engine keeps it: it has a head, and no gap.
Whole(s) == s \in SnakeRecord /\ Len(s.segments) >= 1 /\ Contiguous(s)

-----------------------------------------------------------------------------
(* The body.                                                               *)

LEMMA Delta ==
    ASSUME NEW d \in Directions
    PROVE  /\ DirectionDelta[d].x \in -1..1 /\ DirectionDelta[d].y \in -1..1
           /\ DirectionDelta[d] \in Position
BY DEF Directions, Headings, DirectionDelta, Position

\* The head goes one step, or two, from where it was, or stays there.
LEMMA NewHeadLinked ==
    ASSUME NEW s \in SnakeRecord, Len(s.segments) >= 1
    PROVE  NewHead(s) \in Position /\ Linked(NewHead(s), s.segments[1])
<1>1. s.direction \in Directions /\ s.segments[1] \in Position
  BY DEF SnakeRecord
<1>2. PICK speed \in 1..SegmentSpacing :
         NewHead(s) = [x |-> s.segments[1].x + DirectionDelta[s.direction].x * speed,
                       y |-> s.segments[1].y + DirectionDelta[s.direction].y * speed]
  BY DEF NewHead, HeadOf, BaseSpeed, BoostMultiplier, SegmentSpacing
<1>3. DirectionDelta[s.direction].x \in Int /\ DirectionDelta[s.direction].y \in Int
  BY <1>1, Delta
<1>4. /\ NewHead(s).x = s.segments[1].x + speed * DirectionDelta[s.direction].x
      /\ NewHead(s).y = s.segments[1].y + speed * DirectionDelta[s.direction].y
      /\ NewHead(s) \in Position
  BY SMTT(30), <1>1, <1>2, <1>3 DEF Position, SegmentSpacing
<1> QED
  BY <1>1, <1>4 DEF Linked

\* Every segment of a snake that has moved is where the one ahead of it was.
LEMMA MovedBody ==
    ASSUME NEW s, Whole(s)
    PROVE  /\ Moved(s) \in Seq(Position)
           /\ Len(Moved(s)) >= Len(s.segments) /\ Len(Moved(s)) <= Len(s.segments) + 1
           /\ Moved(s)[1] = NewHead(s)
           /\ \A i \in 2..Len(Moved(s)) : Moved(s)[i] = s.segments[i - 1]
<1> DEFINE len == Len(s.segments) + (IF s.growPending > 0 THEN 1 ELSE 0)
<1>1. /\ s.segments \in Seq(Position) /\ Len(s.segments) \in Nat
      /\ len \in Nat /\ len >= Len(s.segments) /\ len <= Len(s.segments) + 1 /\ len >= 1
  BY DEF Whole, SnakeRecord
<1>2. Moved(s) = [i \in 1..len |-> IF i = 1 THEN NewHead(s) ELSE s.segments[i - 1]]
  BY DEF Moved
<1> HIDE DEF len
<1>3. ASSUME NEW i \in 1..len, i # 1 PROVE s.segments[i - 1] \in Position
  <2>1. i - 1 \in 1..Len(s.segments)
    BY <1>1, <1>3
  <2> QED
    BY <1>1, <2>1
<1>4. NewHead(s) \in Position
  BY NewHeadLinked DEF Whole
<1>5. Moved(s) \in Seq(Position) /\ Len(Moved(s)) = len
  BY <1>1, <1>2, <1>3, <1>4
<1> QED
  BY <1>1, <1>2, <1>5

\* A tick never tears a body, whatever its length, its boost and what it has still
\* to grow, and never makes a score negative (snake.go, Tick).
THEOREM TickKeepsWhole == ASSUME NEW s, Whole(s) PROVE Whole(Tick(s))
<1>1. CASE ~s.alive
  BY <1>1 DEF Tick
<1>2. CASE s.alive
  <2>0. s \in SnakeRecord
    BY DEF Whole
  <2>1. /\ Tick(s).segments = Moved(s)
        /\ Tick(s).growPending = IF s.growPending > 0 THEN s.growPending - 1
                                                      ELSE s.growPending
        /\ Tick(s).score = IF Boosts(s) THEN s.score - BoostScoreCost ELSE s.score
    BY <1>2, <2>0 DEF Tick, SnakeRecord
  <2>2. Tick(s).growPending \in Nat /\ Tick(s).score \in Nat
    BY <2>0, <2>1 DEF Boosts, BoostScoreCost, SnakeRecord
  <2>3. Tick(s) \in SnakeRecord
    BY <1>2, <2>0, <2>1, <2>2, MovedBody DEF Tick, SnakeRecord
  <2>4. ASSUME NEW i \in 1..(Len(Moved(s)) - 1)
        PROVE  Linked(Moved(s)[i], Moved(s)[i + 1])
    <3>1. CASE i = 1
      BY <3>1, <2>0, MovedBody, NewHeadLinked DEF Whole
    <3>2. CASE i # 1
      <4>1. i \in 2..Len(Moved(s)) /\ i + 1 \in 2..Len(Moved(s)) /\ (i + 1) - 1 = i
        BY <3>2, MovedBody
      <4>2. Moved(s)[i] = s.segments[i - 1] /\ Moved(s)[i + 1] = s.segments[i]
        BY <4>1, MovedBody
      <4>3. i - 1 \in 1..(Len(s.segments) - 1) /\ (i - 1) + 1 = i
        BY <3>2, <2>0, MovedBody DEF SnakeRecord
      <4>4. Linked(s.segments[i - 1], s.segments[i])
        BY <4>3 DEF Whole, Contiguous
      <4> QED
        BY <4>2, <4>4
    <3> QED
      BY <3>1, <3>2
  <2>5. Contiguous(Tick(s))
    BY <2>1, <2>4 DEF Contiguous
  <2>6. Len(s.segments) \in Nat /\ Len(Tick(s).segments) \in Nat
    BY <2>0, <2>3 DEF SnakeRecord
  <2>7. Len(Tick(s).segments) >= 1
    BY <2>1, <2>6, MovedBody DEF Whole
  <2> QED
    BY <2>3, <2>5, <2>7 DEF Whole
<1> QED
  BY <1>1, <1>2 DEF Whole, SnakeRecord

\* A snake is whole from the start (snake.go, NewSnake).
THEOREM NewSnakeWhole == ASSUME NEW pos \in Position PROVE Whole(NewSnake(pos))
<1> DEFINE body == [i \in 1..InitialSegments |->
                      [x |-> pos.x - (i - 1) * SegmentSpacing, y |-> pos.y]]
<1>1. /\ body \in Seq(Position) /\ Len(body) = 3
      /\ body[1] = [x |-> pos.x, y |-> pos.y]
      /\ body[2] = [x |-> pos.x - 2, y |-> pos.y]
      /\ body[3] = [x |-> pos.x - 4, y |-> pos.y]
  BY DEF InitialSegments, SegmentSpacing, Position
<1>2. Linked(body[1], body[2]) /\ Linked(body[2], body[3])
  <2>1. /\ "right" \in Directions /\ 2 \in 1..SegmentSpacing
        /\ DirectionDelta["right"].x = 1 /\ DirectionDelta["right"].y = 0
    BY DEF Directions, Headings, SegmentSpacing, DirectionDelta
  <2>2. pos.x \in Int /\ pos.y \in Int
    BY DEF Position
  <2>3. /\ body[1].x = body[2].x + 2 * 1 /\ body[1].y = body[2].y + 2 * 0
        /\ body[2].x = body[3].x + 2 * 1 /\ body[2].y = body[3].y + 2 * 0
    BY <1>1, <2>2
  <2> HIDE DEF body
  <2> QED
    BY <2>1, <2>3 DEF Linked
<1>3. NewSnake(pos).segments = body
  BY DEF NewSnake
<1>4. NewSnake(pos) \in SnakeRecord
  BY <1>1 DEF NewSnake, SnakeRecord, Directions, Headings
<1> HIDE DEF body
<1>5. ASSUME NEW i \in 1..(Len(body) - 1) PROVE Linked(body[i], body[i + 1])
  <2>1. i = 1 \/ i = 2
    BY <1>1
  <2> QED
    BY <1>2, <2>1
<1>6. Contiguous(NewSnake(pos))
  BY <1>3, <1>5 DEF Contiguous
<1>7. Len(NewSnake(pos).segments) >= 1
  <2>1. Len(body) >= 1
    BY <1>1
  <2> QED
    BY <1>3, <2>1
<1> QED
  BY <1>4, <1>6, <1>7 DEF Whole

-----------------------------------------------------------------------------
(* Turning.                                                                *)

LEMMA NotItsOpposite == ASSUME NEW d PROVE ~IsOpposite(d, d)
BY DEF IsOpposite

\* One input never makes a snake go the opposite way of the direction it had last
\* been given, and leaves its body alone (snake.go, SetInput).
THEOREM InputNeverReverses ==
    ASSUME NEW s \in SnakeRecord, NEW dir \in Directions \cup {Unspecified},
           NEW boost \in BOOLEAN
    PROVE  /\ ~IsOpposite(s.direction, SetInput(s, dir, boost).direction)
           /\ SetInput(s, dir, boost) \in SnakeRecord
           /\ SetInput(s, dir, boost).segments = s.segments
<1> DEFINE d == IF dir # Unspecified /\ ~IsOpposite(s.direction, dir) THEN dir ELSE s.direction
<1>1. s.direction \in Directions
  BY DEF SnakeRecord
<1>2. d \in Directions
  BY <1>1
<1>3. ~IsOpposite(s.direction, s.direction)
  BY NotItsOpposite
<1>4. ~IsOpposite(s.direction, d)
  BY <1>3
<1>5. SetInput(s, dir, boost) = [s EXCEPT !.direction = d, !.boosting = boost]
  BY DEF SetInput
<1> HIDE DEF d
<1>6. /\ SetInput(s, dir, boost).direction = d
      /\ SetInput(s, dir, boost) \in SnakeRecord
      /\ SetInput(s, dir, boost).segments = s.segments
  BY <1>2, <1>5 DEF SnakeRecord
<1> QED
  BY <1>4, <1>6

\* A snake of no more segments than are skipped cannot bite itself.
LEMMA ShortNeverBites ==
    ASSUME NEW s \in SnakeRecord, Len(s.segments) <= Skipped
    PROVE  ~BitesItself(s)
<1>1. Len(s.segments) \in Nat
  BY DEF SnakeRecord
<1> QED
  BY <1>1 DEF BitesItself, Skipped

\* A step in a direction takes the segment at least one lattice step that way, along
\* one axis.
LEMMA StepTaken ==
    ASSUME NEW s \in SnakeRecord, NEW i \in 1..(Len(s.segments) - 1),
           NEW d \in Headings, Goes(s, i, d)
    PROVE  LET a == s.segments[i]  b == s.segments[i + 1] IN
           /\ d = "up" => a.x = b.x /\ a.y <= b.y - 1
           /\ d = "down" => a.x = b.x /\ a.y >= b.y + 1
           /\ d = "left" => a.y = b.y /\ a.x <= b.x - 1
           /\ d = "right" => a.y = b.y /\ a.x >= b.x + 1
<1> DEFINE a == s.segments[i]  b == s.segments[i + 1]
<1>1. /\ s.segments \in Seq(Position) /\ i \in 1..Len(s.segments)
      /\ i + 1 \in 1..Len(s.segments)
  BY DEF SnakeRecord
<1>2. a.x \in Int /\ a.y \in Int /\ b.x \in Int /\ b.y \in Int
  <2>1. a \in Position /\ b \in Position
    BY <1>1
  <2> HIDE DEF a, b
  <2> QED
    BY <2>1 DEF Position
<1>3. PICK len \in 1..SegmentSpacing : /\ a.x = b.x + len * DirectionDelta[d].x
                                       /\ a.y = b.y + len * DirectionDelta[d].y
  BY DEF Goes
<1>4. len \in 1..2
  BY DEF SegmentSpacing
<1> HIDE DEF a, b
<1>5. /\ d = "up" => a.x = b.x /\ a.y <= b.y - 1
      /\ d = "down" => a.x = b.x /\ a.y >= b.y + 1
      /\ d = "left" => a.y = b.y /\ a.x <= b.x - 1
      /\ d = "right" => a.y = b.y /\ a.x >= b.x + 1
  <2>1. CASE len = 1
    BY <1>2, <1>3, <2>1 DEF DirectionDelta
  <2>2. CASE len = 2
    BY SMTT(30), <1>2, <1>3, <2>2 DEF DirectionDelta
  <2> QED
    BY <1>4, <2>1, <2>2
<1> QED
  BY <1>5 DEF a, b

\* A step goes one way only.
LEMMA OneWay ==
    ASSUME NEW s \in SnakeRecord, NEW i \in 1..(Len(s.segments) - 1),
           NEW d \in Headings, NEW e \in Headings, Goes(s, i, d), Goes(s, i, e)
    PROVE  d = e
<1> DEFINE a == s.segments[i]  b == s.segments[i + 1]
<1>1. a \in Position /\ b \in Position
  <2>1. s.segments \in Seq(Position) /\ i \in 1..Len(s.segments) /\ i + 1 \in 1..Len(s.segments)
    BY DEF SnakeRecord
  <2> QED
    BY <2>1
<1>2. /\ d = "up" => a.x = b.x /\ a.y <= b.y - 1
      /\ d = "down" => a.x = b.x /\ a.y >= b.y + 1
      /\ d = "left" => a.y = b.y /\ a.x <= b.x - 1
      /\ d = "right" => a.y = b.y /\ a.x >= b.x + 1
  BY StepTaken
<1>3. /\ e = "up" => a.x = b.x /\ a.y <= b.y - 1
      /\ e = "down" => a.x = b.x /\ a.y >= b.y + 1
      /\ e = "left" => a.y = b.y /\ a.x <= b.x - 1
      /\ e = "right" => a.y = b.y /\ a.x >= b.x + 1
  BY StepTaken
<1> HIDE DEF a, b
<1> QED
  BY <1>1, <1>2, <1>3 DEF Position, Headings

\* The first step of a living snake that has ticked goes where it was told to.
LEMMA TickGoes ==
    ASSUME NEW s, Whole(s), Len(s.segments) >= 2, s.alive,
           NEW d \in Headings, Goes(Tick(s), 1, d)
    PROVE  s.direction = d
<1> DEFINE e == s.direction  t == Tick(s)  a == t.segments[1]  b == t.segments[2]
<1>1. /\ s \in SnakeRecord /\ t \in SnakeRecord /\ t.segments = Moved(s)
      /\ Len(s.segments) \in Nat /\ Len(t.segments) \in Nat /\ Len(t.segments) >= 2
  <2>1. s \in SnakeRecord /\ Tick(s) \in SnakeRecord
    BY TickKeepsWhole DEF Whole
  <2>2. Tick(s).segments = Moved(s)
    BY <2>1 DEF Tick, SnakeRecord
  <2>3. Len(s.segments) \in Nat /\ Len(t.segments) \in Nat
    BY <2>1 DEF SnakeRecord
  <2> QED
    BY <2>1, <2>2, <2>3, MovedBody
<1>2. /\ a = NewHead(s) /\ b = s.segments[1]
      /\ a \in Position /\ b \in Position /\ e \in Directions
  <2>1. 2 \in 2..Len(Moved(s)) /\ 2 - 1 = 1
    BY <1>1
  <2>2. s.segments[1] \in Position /\ e \in Directions
    BY <1>1 DEF SnakeRecord
  <2> QED
    BY <1>1, <2>1, <2>2, MovedBody, NewHeadLinked
<1>3. PICK speed \in 1..SegmentSpacing :
         /\ a.x = b.x + DirectionDelta[e].x * speed
         /\ a.y = b.y + DirectionDelta[e].y * speed
  BY <1>2 DEF NewHead, HeadOf, BaseSpeed, BoostMultiplier, SegmentSpacing
<1>4. /\ d = "up" => a.x = b.x /\ a.y <= b.y - 1
      /\ d = "down" => a.x = b.x /\ a.y >= b.y + 1
      /\ d = "left" => a.y = b.y /\ a.x <= b.x - 1
      /\ d = "right" => a.y = b.y /\ a.x >= b.x + 1
  <2>1. 1 \in 1..(Len(t.segments) - 1) /\ 1 + 1 = 2
    BY <1>1
  <2> HIDE DEF t
  <2> QED
    BY <1>1, <2>1, StepTaken DEF t
<1>5. speed \in 1..2
  BY DEF SegmentSpacing
<1> HIDE DEF a, b, e
<1>6. /\ e = "up" => a.x = b.x /\ a.y < b.y
      /\ e = "down" => a.x = b.x /\ a.y > b.y
      /\ e = "left" => a.y = b.y /\ a.x < b.x
      /\ e = "right" => a.y = b.y /\ a.x > b.x
      /\ e = "unknown" => a.x = b.x /\ a.y = b.y
  <2>1. CASE speed = 1
    BY <1>2, <1>3, <2>1 DEF DirectionDelta, Position
  <2>2. CASE speed = 2
    BY <1>2, <1>3, <2>2 DEF DirectionDelta, Position
  <2> QED
    BY <1>5, <2>1, <2>2
<1>7. a.x \in Int /\ a.y \in Int /\ b.x \in Int /\ b.y \in Int
  BY <1>2 DEF Position
<1>8. e = d
  BY <1>2, <1>4, <1>6, <1>7 DEF Directions, Headings
<1> QED
  BY <1>8 DEF e

\* Two coordinates that never go up, and one of which goes down in every step, end up
\* as far from where they began as there are steps.
LEMMA StepsAdd ==
    ASSUME NEW n \in Nat, NEW u \in [1..(n + 1) -> Int], NEW v \in [1..(n + 1) -> Int],
           \A i \in 1..n : /\ u[i] >= u[i + 1] /\ v[i] >= v[i + 1]
                           /\ u[i] + v[i] >= u[i + 1] + v[i + 1] + 1
    PROVE  /\ u[1] >= u[n + 1] /\ v[1] >= v[n + 1]
           /\ (u[1] - u[n + 1]) + (v[1] - v[n + 1]) >= n
<1> DEFINE Far(k) == /\ u[1] >= u[k + 1] /\ v[1] >= v[k + 1]
                     /\ (u[1] - u[k + 1]) + (v[1] - v[k + 1]) >= k
           Near == {k \in Nat : k <= n /\ ~Far(k)}
           R == OpToRel(<, Nat)
<1> SUFFICES ASSUME ~Far(n) PROVE FALSE
  BY DEF Far
<1>0. n \in Near
  <2>1. n <= n
    OBVIOUS
  <2> HIDE DEF Far
  <2> QED
    BY <2>1
\* The least k that has not gone far enough had a predecessor that had.
<1>1. PICK k \in Near : \A l \in Near : ~(<<l, k>> \in R)
  <2> HIDE DEF R
  <2>1. IsWellFoundedOn(R, Nat)
    BY NatLessThanWellFounded DEF R
  <2>2. Near \subseteq Nat
    OBVIOUS
  <2> HIDE DEF Near
  <2> QED
    BY <1>0, <2>1, <2>2, WFMin
<1>2. k \in Nat /\ k <= n /\ ~Far(k)
  OBVIOUS
<1>3. Far(0)
  <2>1. u[1] \in Int /\ v[1] \in Int /\ 0 + 1 = 1
    OBVIOUS
  <2> QED
    BY <2>1
<1>4. k - 1 \in Nat /\ k - 1 < k /\ k - 1 <= n /\ k \in 1..n
  BY <1>2, <1>3
<1>5. <<k - 1, k>> \in R
  BY <1>4 DEF OpToRel
<1>6. Far(k - 1)
  <2>1. k - 1 \notin Near
    BY <1>1, <1>5
  <2> HIDE DEF Far
  <2> QED
    BY <1>4, <2>1
<1>7. /\ u[1] \in Int /\ u[k] \in Int /\ u[k + 1] \in Int
      /\ v[1] \in Int /\ v[k] \in Int /\ v[k + 1] \in Int
  BY <1>4
<1>8. /\ u[k] >= u[k + 1] /\ v[k] >= v[k + 1]
      /\ u[k] + v[k] >= u[k + 1] + v[k + 1] + 1
  BY <1>4
<1>9. u[1] >= u[k] /\ v[1] >= v[k] /\ (u[1] - u[k]) + (v[1] - v[k]) >= k - 1
  <2>1. (k - 1) + 1 = k
    BY <1>2
  <2> QED
    BY <1>6, <2>1
<1>10. Far(k)
  <2> DEFINE a == u[1]  b == u[k]  c == u[k + 1]  d == v[1]  e == v[k]  f == v[k + 1]
  <2>1. /\ a \in Int /\ b \in Int /\ c \in Int /\ d \in Int /\ e \in Int /\ f \in Int
        /\ b >= c /\ e >= f /\ b + e >= c + f + 1
        /\ a >= b /\ d >= e /\ (a - b) + (d - e) >= k - 1
    BY <1>7, <1>8, <1>9
  <2> HIDE DEF a, b, c, d, e, f
  <2>2. a >= c /\ d >= f /\ (a - c) + (d - f) >= k
    BY <1>2, <2>1
  <2> QED
    BY <2>2 DEF a, c, d, f
<1> QED
  BY <1>2, <1>10

\* Four steps between two axes are out of reach.
LEMMA FourStepsApart ==
    ASSUME NEW a \in Nat, NEW b \in Nat, a + b >= 4 PROVE a * a + b * b >= 8
<1>1. CASE a >= b
  <2>1. a >= 2
    BY <1>1
  <2>2. a * a + b * b >= a * a + (4 - a) * (4 - a) \/ a >= 4
    BY <1>1, <2>1
  <2> QED
    BY <1>1, <2>1, <2>2
<1>2. CASE b >= a
  BY <1>2
<1> QED
  BY <1>1, <1>2

\* A snake's direction is the one it took its last step in, unless it stood still.
Facing(s) ==
    /\ Len(s.segments) >= 2
    /\ \A d \in Headings : Goes(s, 1, d) => s.direction = d

LEMMA NewSnakeFaces == ASSUME NEW pos \in Position PROVE Facing(NewSnake(pos))
<1> DEFINE s == NewSnake(pos)
<1>1. /\ Len(s.segments) = 3 /\ s.direction = "right" /\ s \in SnakeRecord
      /\ s.segments[1] = [x |-> pos.x, y |-> pos.y]
      /\ s.segments[2] = [x |-> pos.x - 2, y |-> pos.y]
  <2>1. s \in SnakeRecord
    BY NewSnakeWhole DEF Whole
  <2>2. /\ s.segments = [i \in 1..3 |-> [x |-> pos.x - (i - 1) * 2, y |-> pos.y]]
        /\ s.direction = "right"
    BY DEF NewSnake, InitialSegments, SegmentSpacing
  <2>3. pos.x \in Int /\ pos.x - (1 - 1) * 2 = pos.x /\ pos.x - (2 - 1) * 2 = pos.x - 2
    BY DEF Position
  <2> HIDE DEF s
  <2>4. Len(s.segments) = 3
    BY <2>2
  <2> QED
    BY <2>1, <2>2, <2>3, <2>4
<1> HIDE DEF s
<1>2. ASSUME NEW d \in Headings, Goes(s, 1, d) PROVE d = "right"
  <2>1. 1 \in 1..(Len(s.segments) - 1) /\ 1 + 1 = 2
    BY <1>1
  <2>2. LET a == s.segments[1]  b == s.segments[2] IN
           /\ d = "up" => a.x = b.x /\ a.y <= b.y - 1
           /\ d = "down" => a.x = b.x /\ a.y >= b.y + 1
           /\ d = "left" => a.y = b.y /\ a.x <= b.x - 1
    BY <1>1, <1>2, <2>1, StepTaken
  <2>3. pos.x \in Int /\ pos.y \in Int
    BY DEF Position
  <2> QED
    BY <1>1, <2>2, <2>3 DEF Headings
<1> QED
  BY <1>1, <1>2 DEF Facing, s

\* After a tick a snake faces where it went, if it did before (snake.go, Tick).
LEMMA TickFaces ==
    ASSUME NEW s, Whole(s), Len(s.segments) >= 2, s.alive
    PROVE  Facing(Tick(s))
<1>1. s \in SnakeRecord /\ Tick(s).direction = s.direction /\ Tick(s).segments = Moved(s)
  BY DEF Whole, Tick, SnakeRecord
<1>2. Len(s.segments) \in Nat /\ Len(Moved(s)) \in Nat
  <2>1. Tick(s) \in SnakeRecord
    BY TickKeepsWhole DEF Whole
  <2> QED
    BY <1>1, <2>1 DEF SnakeRecord
<1>3. Len(Moved(s)) >= 2
  BY <1>2, MovedBody
<1> QED
  BY <1>1, <1>3, TickGoes DEF Facing

\* However a snake that neither turned back on itself nor stood still is wound, the
\* head does not reach any of the segments that are tested: four segments are enough
\* to skip (snake.go, CheckSelfCollision, "Skips the first few segments").
THEOREM TurnNeverBites ==
    ASSUME NEW s, Whole(s), NEW m \in (Skipped + 1)..Len(s.segments),
           ~TurnsBack(s, m), ~StandsStill(s, m)
    PROVE  ~Touch(HeadOf(s), s.segments[m])
<1> DEFINE g(i) == s.segments[i]  n == m - 1
           h(i) == CHOOSE d \in Headings : Goes(s, i, d)
<1>1. /\ s.segments \in Seq(Position) /\ Len(s.segments) \in Nat
      /\ m \in Nat /\ m <= Len(s.segments) /\ n \in Nat /\ n >= 4 /\ m = n + 1
  BY DEF Whole, SnakeRecord, Skipped
<1> HIDE DEF n
<1>2. \A i \in 1..n : i \in 1..(Len(s.segments) - 1)
  BY <1>1
<1>3. ASSUME NEW i \in 1..(n + 1) PROVE g(i).x \in Int /\ g(i).y \in Int
  <2>1. g(i) \in Position
    BY <1>1
  <2> HIDE DEF g
  <2> QED
    BY <2>1 DEF Position
<1>4. ASSUME NEW i \in 1..n
      PROVE  /\ h(i) \in Headings /\ Goes(s, i, h(i))
             /\ h(i) = "up" => g(i).x = g(i + 1).x /\ g(i).y <= g(i + 1).y - 1
             /\ h(i) = "down" => g(i).x = g(i + 1).x /\ g(i).y >= g(i + 1).y + 1
             /\ h(i) = "left" => g(i).y = g(i + 1).y /\ g(i).x <= g(i + 1).x - 1
             /\ h(i) = "right" => g(i).y = g(i + 1).y /\ g(i).x >= g(i + 1).x + 1
  <2>1. i \in 1..(Len(s.segments) - 1) /\ i \in 1..(m - 1) /\ i \in 1..(n + 1) /\ i + 1 \in 1..(n + 1)
    BY <1>1, <1>2
  <2>2. Linked(g(i), g(i + 1)) /\ g(i) # g(i + 1)
    BY <2>1 DEF Whole, Contiguous, StandsStill
  <2>3. PICK d \in Directions : Goes(s, i, d)
    BY <2>2 DEF Linked, Goes
  <2>4. d # "unknown"
    <3>1. g(i) \in Position /\ g(i + 1) \in Position
      BY <1>1, <2>1
    <3>2. SUFFICES ASSUME d = "unknown" PROVE FALSE
      OBVIOUS
    <3>3. PICK len \in 1..SegmentSpacing :
             g(i).x = g(i + 1).x + len * 0 /\ g(i).y = g(i + 1).y + len * 0
      BY <2>3, <3>2 DEF Goes, DirectionDelta
    <3> HIDE DEF g
    <3>4. g(i).x = g(i + 1).x /\ g(i).y = g(i + 1).y
      BY <1>3, <2>1, <3>3 DEF SegmentSpacing
    <3> QED
      BY <2>2, <3>1, <3>4 DEF Position
  <2>5. h(i) \in Headings /\ Goes(s, i, h(i))
    BY <2>3, <2>4 DEF Directions
  <2> HIDE DEF h
  <2>6. s \in SnakeRecord
    BY DEF Whole
  <2> QED
    BY <2>1, <2>5, <2>6, StepTaken
<1>5. \A i, j \in 1..n : ~IsOpposite(h(i), h(j))
  <2> HIDE DEF h
  <2> QED
    BY <1>1, <1>4 DEF TurnsBack
\* One of left and right does not occur, and one of up and down: with the signs
\* turned accordingly, both coordinates only go down from the head on.
<1> HIDE DEF g, h
<1>6. PICK sx \in {-1, 1}, sy \in {-1, 1} :
        \A i \in 1..n : /\ h(i) = "left" => sx = -1
                        /\ h(i) = "right" => sx = 1
                        /\ h(i) = "up" => sy = -1
                        /\ h(i) = "down" => sy = 1
  <2>1. \E sx \in {-1, 1} : \A i \in 1..n : /\ h(i) = "left" => sx = -1
                                            /\ h(i) = "right" => sx = 1
    <3>1. (\A i \in 1..n : h(i) # "left") \/ (\A i \in 1..n : h(i) # "right")
      BY <1>5 DEF IsOpposite
    <3> QED
      BY <3>1
  <2>2. \E sy \in {-1, 1} : \A i \in 1..n : /\ h(i) = "up" => sy = -1
                                            /\ h(i) = "down" => sy = 1
    <3>1. (\A i \in 1..n : h(i) # "up") \/ (\A i \in 1..n : h(i) # "down")
      BY <1>5 DEF IsOpposite
    <3> QED
      BY <3>1
  <2> QED
    BY <2>1, <2>2
<1> DEFINE u == [i \in 1..(n + 1) |-> sx * g(i).x]
           v == [i \in 1..(n + 1) |-> sy * g(i).y]
<1>7. u \in [1..(n + 1) -> Int] /\ v \in [1..(n + 1) -> Int]
  <2>1. ASSUME NEW i \in 1..(n + 1) PROVE sx * g(i).x \in Int /\ sy * g(i).y \in Int
    <3>1. g(i).x \in Int /\ g(i).y \in Int /\ sx \in Int /\ sy \in Int
      BY <1>3
    <3> QED
      BY <3>1
  <2> QED
    BY <2>1
<1>8. ASSUME NEW i \in 1..n
      PROVE  /\ u[i] >= u[i + 1] /\ v[i] >= v[i + 1]
             /\ u[i] + v[i] >= u[i + 1] + v[i + 1] + 1
  <2>1. i \in 1..(n + 1) /\ i + 1 \in 1..(n + 1)
    BY <1>1
  <2> DEFINE ax == g(i).x  ay == g(i).y  bx == g(i + 1).x  by == g(i + 1).y
  <2>2. ax \in Int /\ ay \in Int /\ bx \in Int /\ by \in Int
    BY <1>3, <2>1
  <2>3. /\ u[i] = sx * ax /\ u[i + 1] = sx * bx
        /\ v[i] = sy * ay /\ v[i + 1] = sy * by
    BY <2>1
  <2>4. \/ ax = bx /\ ay <= by - 1 /\ sy = -1
        \/ ax = bx /\ ay >= by + 1 /\ sy = 1
        \/ ay = by /\ ax <= bx - 1 /\ sx = -1
        \/ ay = by /\ ax >= bx + 1 /\ sx = 1
    BY <1>4, <1>6 DEF Headings
  <2> HIDE DEF ax, ay, bx, by, u, v
  <2>5. /\ sx * ax >= sx * bx /\ sy * ay >= sy * by
        /\ sx * ax + sy * ay >= sx * bx + sy * by + 1
    <3>1. CASE sx = 1 /\ sy = 1
      BY <2>2, <2>4, <3>1
    <3>2. CASE sx = 1 /\ sy = -1
      BY <2>2, <2>4, <3>2
    <3>3. CASE sx = -1 /\ sy = 1
      BY <2>2, <2>4, <3>3
    <3>4. CASE sx = -1 /\ sy = -1
      BY <2>2, <2>4, <3>4
    <3> QED
      BY <3>1, <3>2, <3>3, <3>4
  <2> QED
    BY <2>3, <2>5
<1>9. /\ u[1] >= u[n + 1] /\ v[1] >= v[n + 1]
      /\ (u[1] - u[n + 1]) + (v[1] - v[n + 1]) >= n
  <2> HIDE DEF u, v
  <2> QED
    BY <1>1, <1>7, <1>8, StepsAdd
<1> DEFINE x == g(1).x - g(n + 1).x  y == g(1).y - g(n + 1).y
<1>10. /\ g(1).x \in Int /\ g(1).y \in Int /\ g(n + 1).x \in Int /\ g(n + 1).y \in Int
       /\ x \in Int /\ y \in Int
  <2>1. 1 \in 1..(n + 1) /\ n + 1 \in 1..(n + 1)
    BY <1>1
  <2> QED
    BY <1>3, <2>1
<1>11. x * x + y * y >= 8
  <2> DEFINE a == u[1] - u[n + 1]  b == v[1] - v[n + 1]
  <2>1. /\ u[1] = sx * g(1).x /\ u[n + 1] = sx * g(n + 1).x
        /\ v[1] = sy * g(1).y /\ v[n + 1] = sy * g(n + 1).y
    <3>1. 1 \in 1..(n + 1) /\ n + 1 \in 1..(n + 1)
      BY <1>1
    <3> QED
      BY <3>1
  <2> HIDE DEF u, v
  <2>2. a \in {x, -x}
    <3>1. CASE sx = 1
      BY <1>10, <2>1, <3>1
    <3>2. CASE sx = -1
      BY <1>10, <2>1, <3>2
    <3> QED
      BY <3>1, <3>2
  <2>3. b \in {y, -y}
    <3>1. CASE sy = 1
      BY <1>10, <2>1, <3>1
    <3>2. CASE sy = -1
      BY <1>10, <2>1, <3>2
    <3> QED
      BY <3>1, <3>2
  <2>4. a \in Nat /\ b \in Nat /\ a + b >= 4
    <3>1. a \in Int /\ b \in Int
      BY <1>10, <2>2, <2>3
    <3>2. /\ u[1] \in Int /\ u[n + 1] \in Int /\ v[1] \in Int /\ v[n + 1] \in Int
      <4>1. 1 \in 1..(n + 1) /\ n + 1 \in 1..(n + 1)
        BY <1>1
      <4> QED
        BY <1>7, <4>1
    <3> QED
      BY SMTT(30), <1>1, <1>9, <3>1, <3>2
  <2> HIDE DEF a, b, x, y
  <2>5. a * a + b * b >= 8
    BY <2>4, FourStepsApart
  <2>6. a * a = x * x /\ b * b = y * y
    BY <1>10, <2>2, <2>3
  <2> QED
    BY <2>5, <2>6
<1> HIDE DEF x, y
<1>12. ~(25 * (x * x + y * y) < 196)
  BY <1>10, <1>11
<1>13. Touch(HeadOf(s), s.segments[m]) <=> 25 * (x * x + y * y) < 196
  <2>1. HeadOf(s) = g(1) /\ s.segments[m] = g(n + 1)
    BY <1>1 DEF HeadOf, g
  <2>2. Unit * Unit = 25 /\ (HeadRadius + SegmentRadius) * (HeadRadius + SegmentRadius) = 196
    BY DEF Unit, HeadRadius, SegmentRadius
  <2> QED
    BY <2>1, <2>2 DEF Touch, Within, x, y
<1> QED
  BY <1>12, <1>13
=============================================================================
