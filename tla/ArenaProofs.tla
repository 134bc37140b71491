---------------------------- MODULE ArenaProofs ----------------------------
(***************************************************************************)
(* The arena, for any number of snakes, of any length, and of food items:  *)
(* what the loops of a tick do, one after the other.                       *)
(***************************************************************************)
EXTENDS Arena, SnakeProofs, FiniteSetTheorems, FunctionTheorems

\* The loops, each by its body.
ObeyLoop == INSTANCE Loops WITH Step <- LAMBDA c, ss, input : Obey(ss, input)
FeedLoop == INSTANCE Loops WITH Step <- LAMBDA c, world, p : Feed(world, p)
PutLoop == INSTANCE Loops WITH Step <- LAMBDA value, map, pos : Put(map, pos, value)
DropLoop == INSTANCE Loops WITH Step <-
    LAMBDA value, map, pos : IF Count(map) >= MaxFood THEN map ELSE Put(map, pos, value)
BuryLoop == INSTANCE Loops WITH Step <- LAMBDA ss, map, p : Bury(map, ss[p])
MeetLoop == INSTANCE Loops WITH Step <- LAMBDA i, ss, j : Meet(ss, i, j)
FightLoop == INSTANCE Loops WITH Step <- LAMBDA order, ss, i : MeetLoop!Loop(i, ss, order)

LEMMA TheLoops ==
    /\ AfterInputs = ObeyLoop!Loop(0, snakes, inputs)
    /\ \A order : AfterMeals(order)
                    = FeedLoop!Loop(0, [snakes |-> AfterMoves, food |-> food], order)
    /\ \A items, sites, value : SpawnAll(items, sites, value)
                                  = PutLoop!Loop(value, items, sites)
    /\ \A items, places, value : SpawnAtPositions(items, places, value)
                                  = DropLoop!Loop(value, items, places)
    /\ \A items, ss, order : AfterDeaths(items, ss, order) = BuryLoop!Loop(ss, items, order)
    /\ \A ss, order : AfterFights(ss, order) = FightLoop!Loop(order, ss, order)
<1> USE DEF Seqs!FoldLeft, Seqs!MapThenFoldSet, Seqs!Max
<1>1. AfterInputs = ObeyLoop!Loop(0, snakes, inputs)
  BY Zenon DEF AfterInputs, ObeyLoop!Loop,
     ObeyLoop!Seqs!FoldLeft, ObeyLoop!Seqs!MapThenFoldSet, ObeyLoop!Seqs!Max
<1>2. \A order : AfterMeals(order)
                    = FeedLoop!Loop(0, [snakes |-> AfterMoves, food |-> food], order)
  BY Zenon DEF AfterMeals, FeedLoop!Loop,
     FeedLoop!Seqs!FoldLeft, FeedLoop!Seqs!MapThenFoldSet, FeedLoop!Seqs!Max
<1>3. \A items, sites, value : SpawnAll(items, sites, value) = PutLoop!Loop(value, items, sites)
  BY Zenon DEF SpawnAll, PutLoop!Loop,
     PutLoop!Seqs!FoldLeft, PutLoop!Seqs!MapThenFoldSet, PutLoop!Seqs!Max
<1>4. \A items, places, value : SpawnAtPositions(items, places, value)
                                  = DropLoop!Loop(value, items, places)
  BY Zenon DEF SpawnAtPositions, DropLoop!Loop,
     DropLoop!Seqs!FoldLeft, DropLoop!Seqs!MapThenFoldSet, DropLoop!Seqs!Max
<1>5. \A items, ss, order : AfterDeaths(items, ss, order) = BuryLoop!Loop(ss, items, order)
  BY Zenon DEF AfterDeaths, BuryLoop!Loop,
     BuryLoop!Seqs!FoldLeft, BuryLoop!Seqs!MapThenFoldSet, BuryLoop!Seqs!Max
<1>6. \A ss, order : AfterFights(ss, order) = FightLoop!Loop(order, ss, order)
  BY Zenon DEF AfterFights, FightLoop!Loop, MeetLoop!Loop,
     MeetLoop!Seqs!FoldLeft, MeetLoop!Seqs!MapThenFoldSet, MeetLoop!Seqs!Max,
     FightLoop!Seqs!FoldLeft, FightLoop!Seqs!MapThenFoldSet, FightLoop!Seqs!Max
<1> QED
  BY <1>1, <1>2, <1>3, <1>4, <1>5, <1>6

\* The orders in which a loop takes the elements of a finite set.
LEMMA Orders ==
    ASSUME NEW S, IsFiniteSet(S), NEW order \in Seqs!SetToSeqs(S)
    PROVE  /\ Cardinality(S) \in Nat
           /\ order \in [1..Cardinality(S) -> S]
           /\ DOMAIN order = 1..Cardinality(S)
           /\ \A p \in S : \E i \in 1..Cardinality(S) : order[i] = p
<1> DEFINE n == Cardinality(S)
<1>1. n \in Nat
  BY FS_CardinalityType
<1>2. order \in {f \in [1..n -> S] : \A i, j \in 1..n : i # j => f[i] # f[j]}
  <2>1. Seqs!Cardinality(S) = Cardinality(S)
    BY Zenon DEF Cardinality, Seqs!Cardinality
  <2> QED
    BY <2>1 DEF Seqs!SetToSeqs
<1> HIDE DEF n
<1>3. order \in Injection(1..n, S)
  BY <1>2, Fun_IsInj
<1>4. Cardinality(1..n) = n
  BY <1>1, FS_Interval
<1>5. order \in Surjection(1..n, S)
  BY <1>3, <1>4, FS_Injection DEF n
<1>6. \A p \in S : \E i \in 1..n : order[i] = p
  BY <1>5 DEF Surjection
<1> QED
  BY <1>1, <1>2, <1>6 DEF n

-----------------------------------------------------------------------------
(* Food.                                                                   *)

ItemMaps == UNION {[D -> Item] : D \in SUBSET Ids}

Values == {FoodValue, DeathFoodValue}

LEMMA ItemMap ==
    ASSUME NEW items \in ItemMaps
    PROVE  /\ DOMAIN items \in SUBSET Ids /\ items \in [DOMAIN items -> Item]
           /\ IsFiniteSet(DOMAIN items)
           /\ Count(items) \in Nat /\ Count(items) <= MaxFood
<1>1. DOMAIN items \in SUBSET Ids /\ items \in [DOMAIN items -> Item]
  BY DEF ItemMaps
<1>2. MaxFood \in Nat /\ IsFiniteSet(Ids) /\ Cardinality(Ids) = MaxFood
  BY FoodAssumption, FS_Interval DEF Ids
<1>3. IsFiniteSet(DOMAIN items) /\ Cardinality(DOMAIN items) <= Cardinality(Ids)
  BY <1>1, <1>2, FS_Subset
<1>4. Cardinality(DOMAIN items) \in Nat
  BY <1>3, FS_CardinalityType
<1> QED
  BY <1>1, <1>2, <1>3, <1>4 DEF Count

\* While there is room, Put finds a free id.
LEMMA PutAdds ==
    ASSUME NEW items \in ItemMaps, Count(items) < MaxFood,
           NEW pos \in Position, NEW value \in Values
    PROVE  Put(items, pos, value) \in ItemMaps /\ Count(Put(items, pos, value)) = Count(items) + 1
<1> DEFINE n == Count(items)
           new == CHOOSE id \in 1..(n + 1) : id \notin DOMAIN items
           D == DOMAIN items \cup {new}
<1>1. /\ DOMAIN items \in SUBSET Ids /\ items \in [DOMAIN items -> Item]
      /\ IsFiniteSet(DOMAIN items) /\ n \in Nat /\ n < MaxFood /\ MaxFood \in Nat
  BY ItemMap, FoodAssumption
<1>2. new \in 1..(n + 1) /\ new \notin DOMAIN items
  <2>1. \E id \in 1..(n + 1) : id \notin DOMAIN items
    <3> SUFFICES ASSUME 1..(n + 1) \in SUBSET DOMAIN items PROVE FALSE
      OBVIOUS
    <3>1. Cardinality(1..(n + 1)) <= Cardinality(DOMAIN items)
      BY <1>1, FS_Subset
    <3>2. Cardinality(1..(n + 1)) = n + 1
      <4> HIDE DEF n
      <4>1. 1 \in Int /\ n + 1 \in Int /\ ~(1 > n + 1) /\ (n + 1) - 1 + 1 = n + 1
        BY <1>1
      <4> QED
        BY <4>1, FS_Interval
    <3> QED
      BY <1>1, <3>1, <3>2 DEF Count
  <2> HIDE DEF n
  <2> QED
    BY <2>1
<1>3. Put(items, pos, value)
        = [id \in D |-> IF id = new THEN [pos |-> pos, value |-> value] ELSE items[id]]
  BY DEF Put
<1> HIDE DEF n, new
<1>4. D \in SUBSET Ids
  BY <1>1, <1>2 DEF Ids
<1>5. [pos |-> pos, value |-> value] \in Item
  BY DEF Item, Values
<1>6. Put(items, pos, value) \in [D -> Item]
  BY <1>1, <1>2, <1>3, <1>5
<1>7. Cardinality(D) = Cardinality(DOMAIN items) + 1
  BY <1>1, <1>2, FS_AddElement
<1>8. DOMAIN Put(items, pos, value) = D
  BY <1>3
<1> QED
  BY <1>4, <1>6, <1>7, <1>8 DEF ItemMaps, Count

LEMMA SpawnAllAdds ==
    ASSUME NEW items \in ItemMaps, NEW n \in Nat, Count(items) + n <= MaxFood,
           NEW sites \in [1..n -> Position], NEW value \in Values
    PROVE  /\ SpawnAll(items, sites, value) \in ItemMaps
           /\ Count(SpawnAll(items, sites, value)) = Count(items) + n
<1> DEFINE J == [i \in 0..n |-> {m \in ItemMaps : Count(m) = Count(items) + i}]
<1>0. Count(items) \in Nat /\ MaxFood \in Nat
  BY ItemMap, FoodAssumption
<1>1. items \in J[0]
  BY <1>0
<1>2. ASSUME NEW i \in 1..n, NEW m \in J[i - 1] PROVE Put(m, sites[i], value) \in J[i]
  <2>1. i - 1 \in 0..n /\ i \in 0..n /\ sites[i] \in Position
    OBVIOUS
  <2>2. m \in ItemMaps /\ Count(m) = Count(items) + (i - 1)
    BY <2>1
  <2>3. Count(m) < MaxFood /\ Count(m) + 1 = Count(items) + i
    BY <1>0, <2>2
  <2>4. Put(m, sites[i], value) \in ItemMaps /\ Count(Put(m, sites[i], value)) = Count(items) + i
    BY <2>1, <2>2, <2>3, PutAdds
  <2> QED
    BY <2>1, <2>4
<1>3. SpawnAll(items, sites, value) = PutLoop!Loop(value, items, sites)
  BY TheLoops
<1>4. J[n] = {m \in ItemMaps : Count(m) = Count(items) + n}
  OBVIOUS
<1>5. DOMAIN sites = 1..n
  OBVIOUS
<1> HIDE DEF J
<1>6. PutLoop!Loop(value, items, sites) \in J[n]
  BY <1>1, <1>2, <1>5, PutLoop!LoopInvariant
<1> QED
  BY <1>3, <1>4, <1>6

LEMMA SpawnAtKeeps ==
    ASSUME NEW items \in ItemMaps, NEW places \in Seq(Position), NEW value \in Values
    PROVE  SpawnAtPositions(items, places, value) \in ItemMaps
<1>1. SpawnAtPositions(items, places, value) = DropLoop!Loop(value, items, places)
  BY TheLoops
<1>2. ASSUME NEW m \in ItemMaps, NEW i \in 1..Len(places)
      PROVE  (IF Count(m) >= MaxFood THEN m ELSE Put(m, places[i], value)) \in ItemMaps
  <2>1. Count(m) \in Nat /\ MaxFood \in Nat
    BY ItemMap, FoodAssumption
  <2>2. CASE Count(m) >= MaxFood
    BY <2>2
  <2>3. CASE ~(Count(m) >= MaxFood)
    <3>1. Put(m, places[i], value) \in ItemMaps
      BY <2>1, <2>3, PutAdds
    <3> QED
      BY <2>3, <3>1
  <2> QED
    BY <2>2, <2>3
<1>3. Len(places) \in Nat /\ DOMAIN places = 1..Len(places)
  OBVIOUS
<1>4. DropLoop!Loop(value, items, places) \in ItemMaps
  BY <1>2, <1>3, DropLoop!LoopKeeps
<1> QED
  BY <1>1, <1>4

\* Replenish fills up to the initial food, and does not go beyond the limit.
LEMMA ReplenishFills ==
    ASSUME NEW items \in ItemMaps, NEW m \in Replenished(items)
    PROVE  m \in ItemMaps /\ Count(m) >= InitialFood
<1> DEFINE n == IF Count(items) <= InitialFood THEN InitialFood - Count(items) ELSE 0
<1>1. Count(items) \in Nat /\ InitialFood \in Nat /\ InitialFood <= MaxFood /\ MaxFood \in Nat
  BY ItemMap, FoodAssumption
<1>2. PICK sites \in [1..(InitialFood - Count(items)) -> FoodSites] :
        m = SpawnAll(items, sites, FoodValue)
  BY DEF Replenished
<1>3. 1..(InitialFood - Count(items)) = 1..n
  BY <1>1
<1>4. n \in Nat /\ Count(items) + n <= MaxFood /\ Count(items) + n >= InitialFood
  BY <1>1, ItemMap
<1> HIDE DEF n
<1>5. sites \in [1..n -> Position] /\ FoodValue \in Values
  BY <1>2, <1>3, FoodAssumption DEF Values
<1>6. m \in ItemMaps /\ Count(m) = Count(items) + n
  BY <1>2, <1>4, <1>5, SpawnAllAdds
<1> QED
  BY <1>4, <1>6

\* What a head eats is worth a natural number.  The sum takes the elements of a set
\* in an order of its own choice.
Pick(s) == CHOOSE x \in s : TRUE

Summed(items, g, s) ==
    IF s = {} THEN 0 ELSE items[Pick(s)].value + g[s \ {Pick(s)}]

IsSum(items, Ss, g) == g = [s \in Ss |-> Summed(items, g, s)]

LEMMA SmallerSet ==
    ASSUME NEW S, IsFiniteSet(S), NEW s \in SUBSET S
    PROVE  /\ Cardinality(s) \in Nat
           /\ Cardinality(s) = 0 => s = {}
           /\ s # {} => /\ Pick(s) \in s /\ s \ {Pick(s)} \in SUBSET S
                        /\ Cardinality(s \ {Pick(s)}) = Cardinality(s) - 1
<1>1. IsFiniteSet(s) /\ Cardinality(s) \in Nat
  BY FS_Subset, FS_CardinalityType
<1>2. s # {} => Pick(s) \in s
  BY DEF Pick
<1>3. Cardinality(s) = 0 => s = {}
  BY <1>1, FS_EmptySet
<1> QED
  BY <1>1, <1>2, <1>3, FS_RemoveElement

LEMMA SumExists ==
    ASSUME NEW S, IsFiniteSet(S), NEW items
    PROVE  \E g : IsSum(items, SUBSET S, g)
<1> DEFINE Small(n) == {s \in SUBSET S : Cardinality(s) <= n}
           T == {n \in Nat : \E g : IsSum(items, Small(n), g)}
<1>1. \E g : IsSum(items, Small(0), g)
  <2> DEFINE g == [s \in Small(0) |-> 0]
  <2>1. ASSUME NEW s \in Small(0) PROVE s = {}
    <3>1. s \in SUBSET S /\ Cardinality(s) <= 0
      OBVIOUS
    <3>2. Cardinality(s) \in Nat /\ (Cardinality(s) = 0 => s = {})
      BY <3>1, SmallerSet
    <3> QED
      BY <3>1, <3>2
  <2> HIDE DEF Small
  <2>2. IsSum(items, Small(0), g)
    BY <2>1 DEF IsSum, Summed
  <2> HIDE DEF g
  <2> QED
    BY <2>2
<1>2. ASSUME NEW n \in Nat, NEW g, IsSum(items, Small(n), g)
      PROVE  \E h : IsSum(items, Small(n + 1), h)
  <2> DEFINE h == [s \in Small(n + 1) |-> Summed(items, g, s)]
  <2>1. ASSUME NEW s \in Small(n + 1), s # {} PROVE s \ {Pick(s)} \in Small(n)
    <3>1. s \in SUBSET S /\ Cardinality(s) <= n + 1
      OBVIOUS
    <3> QED
      BY <2>1, <3>1, SmallerSet
  <2>2. ASSUME NEW s \in Small(n) PROVE h[s] = g[s]
    <3>1. s \in SUBSET S /\ Cardinality(s) <= n
      OBVIOUS
    <3>2. s \in Small(n + 1)
      <4>1. Cardinality(s) \in Nat
        BY <3>1, SmallerSet
      <4> QED
        BY <3>1, <4>1
    <3> HIDE DEF Small
    <3> QED
      BY <1>2, <3>2 DEF IsSum
  <2> HIDE DEF Small
  <2>3. ASSUME NEW s \in Small(n + 1) PROVE h[s] = Summed(items, h, s)
    <3>1. s # {} => h[s \ {Pick(s)}] = g[s \ {Pick(s)}]
      BY <2>1, <2>2
    <3>2. h[s] = Summed(items, g, s)
      OBVIOUS
    <3> HIDE DEF h
    <3> QED
      BY <3>1, <3>2 DEF Summed
  <2>4. IsSum(items, Small(n + 1), h)
    <3>1. h = [s \in Small(n + 1) |-> h[s]]
      OBVIOUS
    <3> HIDE DEF h
    <3> QED
      BY <2>3, <3>1 DEF IsSum
  <2> HIDE DEF h
  <2> QED
    BY <2>4
<1>3. 0 \in T /\ \A n \in Nat : n \in T => n + 1 \in T
  <2> HIDE DEF Small
  <2> QED
    BY <1>1, <1>2
<1>4. Cardinality(S) \in T
  <2>1. Cardinality(S) \in Nat
    BY FS_CardinalityType
  <2> HIDE DEF T
  <2> QED
    BY <1>3, <2>1, ObeyLoop!Induction
<1>5. Small(Cardinality(S)) = SUBSET S
  BY FS_Subset
<1> HIDE DEF Small
<1> QED
  BY <1>4, <1>5

LEMMA SumIsNatural ==
    ASSUME NEW S, IsFiniteSet(S), NEW items, \A x \in S : items[x].value \in Nat,
           NEW g, IsSum(items, SUBSET S, g)
    PROVE  g[S] \in Nat
<1> DEFINE T == {n \in Nat : \A s \in SUBSET S : Cardinality(s) <= n => g[s] \in Nat}
<1>1. \A s \in SUBSET S : g[s] = Summed(items, g, s)
  BY DEF IsSum
<1>2. ASSUME NEW s \in SUBSET S, Cardinality(s) <= 0 PROVE g[s] \in Nat
  <2>1. Cardinality(s) \in Nat /\ (Cardinality(s) = 0 => s = {})
    BY SmallerSet
  <2>2. s = {}
    BY <1>2, <2>1
  <2>3. g[s] = Summed(items, g, s)
    BY <1>1
  <2> QED
    BY <2>2, <2>3 DEF Summed
<1>3. ASSUME NEW n \in Nat, \A r \in SUBSET S : Cardinality(r) <= n => g[r] \in Nat,
             NEW s \in SUBSET S, Cardinality(s) <= n + 1
      PROVE  g[s] \in Nat
  <2>1. CASE s = {}
    BY <1>1, <2>1 DEF Summed
  <2>2. CASE s # {}
    <3>1. /\ Cardinality(s) \in Nat
          /\ Pick(s) \in s /\ s \ {Pick(s)} \in SUBSET S
          /\ Cardinality(s \ {Pick(s)}) = Cardinality(s) - 1
      BY <2>2, SmallerSet
    <3>2. Cardinality(s \ {Pick(s)}) <= n
      BY <1>3, <3>1
    <3>3. g[s \ {Pick(s)}] \in Nat /\ items[Pick(s)].value \in Nat
      BY <1>3, <3>1, <3>2
    <3>4. g[s] = items[Pick(s)].value + g[s \ {Pick(s)}]
      BY <1>1, <2>2 DEF Summed
    <3> QED
      BY <3>3, <3>4
  <2> QED
    BY <2>1, <2>2
<1>4. Cardinality(S) \in Nat /\ S \in SUBSET S
  BY FS_CardinalityType
<1>5. 0 \in T /\ \A n \in Nat : n \in T => n + 1 \in T
  BY <1>2, <1>3
<1>6. Cardinality(S) \in T
  <2> HIDE DEF T
  <2> QED
    BY <1>4, <1>5, ObeyLoop!Induction
<1> QED
  BY <1>4, <1>6

LEMMA WorthIsNatural ==
    ASSUME NEW items \in ItemMaps, NEW head
    PROVE  Worth(items, head) \in Nat
<1> DEFINE S == InReach(items, head)
           f == CHOOSE g : IsSum(items, SUBSET S, g)
<1>1. IsFiniteSet(S) /\ \A x \in S : items[x].value \in Nat
  <2>1. /\ S \in SUBSET DOMAIN items /\ IsFiniteSet(DOMAIN items)
        /\ items \in [DOMAIN items -> Item]
    BY ItemMap DEF InReach
  <2>2. ASSUME NEW x \in S PROVE items[x].value \in Nat
    <3>1. items[x] \in Item
      BY <2>1
    <3> QED
      BY <3>1 DEF Item, FoodValue, DeathFoodValue
  <2> QED
    BY <2>1, <2>2, FS_Subset
<1>2. Worth(items, head) = f[S]
  BY Zenon DEF Worth, Sets!MapThenSumSet, Sets!MapThenFoldSet, IsSum, Summed, Pick, S
<1> HIDE DEF S
<1>3. IsSum(items, SUBSET S, f)
  <2>1. \E g : IsSum(items, SUBSET S, g)
    BY <1>1, SumExists
  <2> QED
    BY <2>1
<1> HIDE DEF f
<1> QED
  BY <1>1, <1>2, <1>3, SumIsNatural

\* A head takes food away, and adds none.
LEMMA UneatenLess ==
    ASSUME NEW items \in ItemMaps, NEW head
    PROVE  Uneaten(items, head) \in ItemMaps
<1>1. DOMAIN items \in SUBSET Ids /\ items \in [DOMAIN items -> Item]
  BY ItemMap
<1> DEFINE D == DOMAIN items \ InReach(items, head)
<1>2. D \in SUBSET Ids /\ D \in SUBSET DOMAIN items
  BY <1>1
<1>3. Uneaten(items, head) = [id \in D |-> items[id]]
  BY DEF Uneaten, Fn!Restrict
<1> HIDE DEF D
<1> QED
  BY <1>1, <1>2, <1>3 DEF ItemMaps

-----------------------------------------------------------------------------
(* Snakes.                                                                 *)

\* What the inputs may do to a snake: its body stays as it is; the dead do not change
\* at all.
Obeys(s, t) ==
    /\ t \in SnakeRecord
    /\ t.segments = s.segments
    /\ t.alive = s.alive /\ t.score = s.score
    /\ ~s.alive => t = s

\* What one tick may do to a snake once it has moved: body and direction stay as they
\* are, it may die, its score may change; the dead do not change at all.
Follows(s, t) ==
    /\ t \in SnakeRecord
    /\ t.segments = s.segments /\ t.direction = s.direction
    /\ t.alive => s.alive
    /\ ~s.alive => t = s

Herds(P) == [P -> SnakeRecord]

AllObey(ss, tt) == \A p \in DOMAIN ss : Obeys(ss[p], tt[p])

AllFollow(ss, tt) == \A p \in DOMAIN ss : Follows(ss[p], tt[p])

LEMMA FollowsTwice ==
    ASSUME NEW P, NEW ss \in Herds(P), NEW tt \in Herds(P), NEW uu \in Herds(P)
    PROVE  /\ AllFollow(ss, ss)
           /\ AllFollow(ss, tt) /\ AllFollow(tt, uu) => AllFollow(ss, uu)
           /\ AllObey(ss, ss)
           /\ AllObey(ss, tt) /\ AllObey(tt, uu) => AllObey(ss, uu)
BY DEF Herds, AllFollow, Follows, AllObey, Obeys

\* One input does not turn the snake it is for around, and is for no other.
LEMMA ObeyStep ==
    ASSUME NEW P, NEW ss \in Herds(P), NEW input \in InputRecord
    PROVE  /\ Obey(ss, input) \in Herds(P) /\ AllObey(ss, Obey(ss, input))
           /\ \A p \in P : /\ ~IsOpposite(ss[p].direction, Obey(ss, input)[p].direction)
                           /\ p # input.player => Obey(ss, input)[p] = ss[p]
<1> DEFINE q == input.player  t == SetInput(ss[q], input.dir, input.boost)
<1>0. \A p \in P : ~IsOpposite(ss[p].direction, ss[p].direction)
  BY NotItsOpposite
<1>1. CASE q \in P /\ ss[q].alive
  <2>1. Obey(ss, input) = [ss EXCEPT ![q] = t]
    BY <1>1 DEF Obey, Herds
  <2>2. ss[q] \in SnakeRecord /\ input.dir \in Directions \cup {Unspecified} /\ input.boost \in BOOLEAN
    BY <1>1 DEF Herds, InputRecord
  <2>3. /\ t \in SnakeRecord /\ t.segments = ss[q].segments
        /\ ~IsOpposite(ss[q].direction, t.direction)
    BY <2>2, InputNeverReverses
  <2>4. t.alive = ss[q].alive /\ t.score = ss[q].score
    BY <2>2 DEF SetInput, SnakeRecord
  <2> HIDE DEF q, t
  <2>5. \A p \in P : Obey(ss, input)[p] = IF p = q THEN t ELSE ss[p]
    BY <1>1, <2>1 DEF Herds
  <2>6. Obey(ss, input) \in Herds(P)
    BY <1>1, <2>1, <2>3 DEF Herds
  <2>7. AllObey(ss, Obey(ss, input))
    BY <1>1, <2>3, <2>4, <2>5 DEF Herds, AllObey, Obeys
  <2> QED
    BY <1>0, <2>3, <2>5, <2>6, <2>7 DEF q
<1>2. CASE ~(q \in P /\ ss[q].alive)
  <2>1. Obey(ss, input) = ss
    BY <1>2 DEF Obey, Herds
  <2> QED
    BY <1>0, <2>1, FollowsTwice
<1> QED
  BY <1>1, <1>2

LEMMA Digested ==
    ASSUME NEW s \in SnakeRecord, NEW n \in Nat
    PROVE  /\ Digest(s, n) \in SnakeRecord /\ Digest(s, n).segments = s.segments
           /\ Digest(s, n).alive = s.alive /\ Digest(s, n).direction = s.direction
<1> DEFINE a == [s EXCEPT !.score = s.score + n]
<1>1. /\ a \in SnakeRecord /\ a.segments = s.segments
      /\ a.alive = s.alive /\ a.direction = s.direction
  BY DEF SnakeRecord
<1>2. Digest(s, n) = Grow(a, n)
  BY DEF Digest
<1> HIDE DEF a
<1> QED
  BY <1>1, <1>2 DEF Grow, SnakeRecord

LEMMA FeedStep ==
    ASSUME NEW P, NEW world, world.snakes \in Herds(P), world.food \in ItemMaps,
           world = [snakes |-> world.snakes, food |-> world.food], NEW p \in P
    PROVE  LET fed == Feed(world, p) IN
           /\ fed = [snakes |-> fed.snakes, food |-> fed.food]
           /\ fed.snakes \in Herds(P) /\ AllFollow(world.snakes, fed.snakes)
           /\ fed.food \in ItemMaps
           /\ \A q \in P : fed.snakes[q].alive = world.snakes[q].alive
<1> DEFINE ss == world.snakes  head == HeadOf(ss[p])
           t == Digest(ss[p], Worth(world.food, head))
<1>1. CASE ss[p].alive
  <2>1. Uneaten(world.food, head) \in ItemMaps
    BY UneatenLess
  <2>2. Feed(world, p) = [snakes |-> [ss EXCEPT ![p] = t], food |-> Uneaten(world.food, head)]
    BY <1>1 DEF Feed
  <2>3. /\ t \in SnakeRecord /\ t.segments = ss[p].segments
        /\ t.alive = ss[p].alive /\ t.direction = ss[p].direction
    BY WorthIsNatural, Digested DEF Herds
  <2>4. DOMAIN ss = P
    BY DEF Herds
  <2> HIDE DEF t, head, ss
  <2>5. /\ [ss EXCEPT ![p] = t] \in Herds(P) /\ AllFollow(ss, [ss EXCEPT ![p] = t])
        /\ \A q \in P : [ss EXCEPT ![p] = t][q].alive = ss[q].alive
    BY <1>1, <2>3, <2>4 DEF Herds, AllFollow, Follows, ss
  <2> QED
    BY <2>1, <2>2, <2>5 DEF ss
<1>2. CASE ~ss[p].alive
  <2>1. Feed(world, p) = world
    BY <1>2 DEF Feed
  <2> QED
    BY <2>1, FollowsTwice
<1> QED
  BY <1>1, <1>2

\* A snake that is killed, and one that is rewarded, follow themselves.
LEMMA KilledFollows ==
    ASSUME NEW s \in SnakeRecord, s.alive
    PROVE  Follows(s, [s EXCEPT !.alive = FALSE])
<1>1. [s EXCEPT !.alive = FALSE] \in SnakeRecord
  BY DEF SnakeRecord
<1> QED
  BY <1>1 DEF Follows, SnakeRecord

LEMMA RewardedFollows ==
    ASSUME NEW s \in SnakeRecord, s.alive, NEW n \in Nat
    PROVE  Follows(s, [s EXCEPT !.score = @ + n])
<1>1. s.score + n \in Nat
  BY DEF SnakeRecord
<1>2. [s EXCEPT !.score = @ + n] \in SnakeRecord
  BY <1>1 DEF SnakeRecord
<1> QED
  BY <1>2 DEF Follows, SnakeRecord

LEMMA MeetStep ==
    ASSUME NEW P, NEW ss \in Herds(P), NEW i \in P, NEW j \in P
    PROVE  Meet(ss, i, j) \in Herds(P) /\ AllFollow(ss, Meet(ss, i, j))
<1>1. CASE i # j /\ CheckHeadCollision(ss[i], ss[j])
  <2> DEFINE a == [ss[i] EXCEPT !.alive = FALSE]
             b == [ss[j] EXCEPT !.score = @ + ss[i].score \div 2]
  <2>1. ss[i] \in SnakeRecord /\ ss[j] \in SnakeRecord /\ ss[i].alive /\ ss[j].alive
    BY <1>1 DEF Herds, CheckHeadCollision
  <2>2. ss[i].score \div 2 \in Nat
    BY <2>1 DEF SnakeRecord
  <2>3. Follows(ss[i], a) /\ Follows(ss[j], b)
    BY <2>1, <2>2, KilledFollows, RewardedFollows
  <2>4. Meet(ss, i, j) = [ss EXCEPT ![i] = a, ![j] = b]
    BY <1>1 DEF Meet, Herds
  <2>5. \A p \in P : Meet(ss, i, j)[p] = IF p = j THEN b ELSE IF p = i THEN a ELSE ss[p]
    BY <1>1, <2>4 DEF Herds
  <2>6. Meet(ss, i, j) = [p \in P |-> Meet(ss, i, j)[p]]
    BY <2>4 DEF Herds
  <2> HIDE DEF a, b
  <2>7. \A p \in P : Follows(ss[p], Meet(ss, i, j)[p])
    BY <2>3, <2>5, FollowsTwice DEF AllFollow, Herds
  <2> QED
    BY <2>6, <2>7 DEF Herds, AllFollow, Follows
<1>2. CASE ~(i # j /\ CheckHeadCollision(ss[i], ss[j]))
  <2>1. Meet(ss, i, j) = ss
    BY <1>2 DEF Meet
  <2> QED
    BY <2>1, FollowsTwice
<1> QED
  BY <1>1, <1>2

LEMMA WallStep ==
    ASSUME NEW P, NEW ss \in Herds(P)
    PROVE  /\ AfterWalls(ss) \in Herds(P) /\ AllFollow(ss, AfterWalls(ss))
           /\ \A p \in P : AfterWalls(ss)[p].alive
                            = (ss[p].alive /\ Inside(HeadOf(ss[p]), Width, Height)
                                           /\ ~BitesItself(ss[p]))
<1> DEFINE t(p) == CheckSelfCollision(CheckWallCollision(ss[p], Width, Height))
<1>1. ASSUME NEW p \in P
      PROVE  /\ Follows(ss[p], t(p))
             /\ t(p).alive = (ss[p].alive /\ Inside(HeadOf(ss[p]), Width, Height)
                                          /\ ~BitesItself(ss[p]))
  <2> DEFINE s == ss[p]  w == CheckWallCollision(s, Width, Height)
  <2>1. s \in SnakeRecord
    BY DEF Herds
  <2> HIDE DEF s
  <2>2. /\ w = [s EXCEPT !.alive = s.alive /\ Inside(HeadOf(s), Width, Height)]
        /\ w \in SnakeRecord /\ w.segments = s.segments
        /\ w.alive = (s.alive /\ Inside(HeadOf(s), Width, Height))
    BY <2>1 DEF CheckWallCollision, SnakeRecord
  <2> HIDE DEF w
  <2>3. BitesItself(w) <=> BitesItself(s)
    BY <2>2 DEF BitesItself, HeadOf
  <2>4. CheckSelfCollision(w) = [w EXCEPT !.alive = w.alive /\ ~BitesItself(s)]
    BY <2>3 DEF CheckSelfCollision
  <2>5. Follows(s, CheckSelfCollision(w))
    BY <2>1, <2>2, <2>4 DEF Follows, SnakeRecord
  <2>6. CheckSelfCollision(w).alive = (w.alive /\ ~BitesItself(s))
    BY <2>2, <2>4 DEF SnakeRecord
  <2> QED
    BY <2>2, <2>5, <2>6 DEF s, w
<1>2. AfterWalls(ss) = [p \in P |-> t(p)]
  BY DEF AfterWalls, Herds
<1> HIDE DEF t
<1> QED
  BY <1>1, <1>2 DEF Herds, AllFollow, Follows

-----------------------------------------------------------------------------
(* The phases of a tick.                                                   *)

\* Two of the first n inputs are the player's, or one at least.
Twice(p, n) == \E i, j \in 1..n : i < j /\ inputs[i].player = p /\ inputs[j].player = p

Once(p, n) == \E i \in 1..n : inputs[i].player = p

\* What the first n inputs may have made of the snakes: who was told nothing keeps its
\* direction, who was told one thing has not turned around.
Steered(P, n) ==
    {ss \in Herds(P) :
        /\ AllObey(snakes, ss)
        /\ \A p \in P : ~Once(p, n) => ss[p].direction = snakes[p].direction
        /\ \A p \in P : ~Twice(p, n) => ~IsOpposite(snakes[p].direction, ss[p].direction)}

LEMMA InputsPhase ==
    ASSUME NEW P, snakes \in Herds(P), inputs \in Seq(InputRecord)
    PROVE  AfterInputs \in Steered(P, Len(inputs))
<1> DEFINE n == Len(inputs)  J == [i \in 0..n |-> Steered(P, i)]
<1>0. n \in Nat /\ DOMAIN inputs = 1..n
  OBVIOUS
<1>1. snakes \in J[0]
  <2>1. \A p \in P : ~IsOpposite(snakes[p].direction, snakes[p].direction)
    BY NotItsOpposite
  <2>2. snakes \in Steered(P, 0)
    BY <2>1, FollowsTwice DEF Steered
  <2> QED
    BY <1>0, <2>2
<1>2. ASSUME NEW i \in 1..n, NEW ss \in J[i - 1] PROVE Obey(ss, inputs[i]) \in J[i]
  <2> DEFINE tt == Obey(ss, inputs[i])
  <2>1. /\ inputs[i] \in InputRecord /\ i \in Nat /\ i \in 0..n /\ i - 1 \in 0..n
        /\ ss \in Steered(P, i - 1)
    BY <1>0
  <2>2. /\ ss \in Herds(P) /\ AllObey(snakes, ss)
        /\ tt \in Herds(P) /\ AllObey(ss, tt)
        /\ \A p \in P : /\ ~IsOpposite(ss[p].direction, tt[p].direction)
                        /\ p # inputs[i].player => tt[p] = ss[p]
    BY <2>1, ObeyStep DEF Steered
  <2>3. AllObey(snakes, tt)
    BY <2>2, FollowsTwice
  <2> HIDE DEF tt
  <2>4. ASSUME NEW p \in P, ~Once(p, i) PROVE tt[p].direction = snakes[p].direction
    <3>1. ~Once(p, i - 1) /\ p # inputs[i].player
      BY <2>1, <2>4 DEF Once
    <3> QED
      BY <2>1, <2>2, <3>1 DEF Steered
  <2>5. ASSUME NEW p \in P, ~Twice(p, i)
        PROVE  ~IsOpposite(snakes[p].direction, tt[p].direction)
    <3>1. CASE p # inputs[i].player
      <4>1. ~Twice(p, i - 1)
        BY <2>1, <2>5 DEF Twice
      <4> QED
        BY <2>1, <2>2, <3>1, <4>1 DEF Steered
    <3>2. CASE p = inputs[i].player
      <4>1. ~Once(p, i - 1)
        BY <2>1, <2>5, <3>2 DEF Once, Twice
      <4>2. ss[p].direction = snakes[p].direction
        BY <2>1, <4>1 DEF Steered
      <4> QED
        BY <2>2, <4>2
    <3> QED
      BY <3>1, <3>2
  <2>6. tt \in Steered(P, i)
    BY <2>2, <2>3, <2>4, <2>5 DEF Steered
  <2> QED
    BY <2>1, <2>6 DEF tt
<1>3. AfterInputs = ObeyLoop!Loop(0, snakes, inputs)
  BY TheLoops
<1>4. J[n] = Steered(P, n)
  BY <1>0
<1> HIDE DEF J, n
<1>5. ObeyLoop!Loop(0, snakes, inputs) \in J[n]
  BY <1>0, <1>1, <1>2, ObeyLoop!LoopInvariant
<1> QED
  BY <1>3, <1>4, <1>5 DEF n

LEMMA MealsPhase ==
    ASSUME NEW P, NEW ss \in Herds(P), AfterMoves = ss, food \in ItemMaps,
           NEW n \in Nat, NEW order \in [1..n -> P]
    PROVE  LET fed == AfterMeals(order) IN
           /\ fed.snakes \in Herds(P) /\ AllFollow(ss, fed.snakes)
           /\ \A p \in P : fed.snakes[p].alive = ss[p].alive
           /\ fed.food \in ItemMaps
<1> DEFINE V == {world \in [snakes : Herds(P), food : ItemMaps] :
                    /\ AllFollow(ss, world.snakes)
                    /\ \A p \in P : world.snakes[p].alive = ss[p].alive}
           start == [snakes |-> ss, food |-> food]
<1>1. start \in V
  BY FollowsTwice
<1>2. ASSUME NEW world \in V, NEW i \in 1..n PROVE Feed(world, order[i]) \in V
  <2>1. order[i] \in P
    OBVIOUS
  <2>2. /\ world.snakes \in Herds(P) /\ world.food \in ItemMaps
        /\ world = [snakes |-> world.snakes, food |-> world.food]
        /\ AllFollow(ss, world.snakes)
        /\ \A p \in P : world.snakes[p].alive = ss[p].alive
    OBVIOUS
  <2> DEFINE fed == Feed(world, order[i])
  <2>3. /\ fed = [snakes |-> fed.snakes, food |-> fed.food]
        /\ fed.snakes \in Herds(P) /\ AllFollow(world.snakes, fed.snakes)
        /\ fed.food \in ItemMaps
        /\ \A q \in P : fed.snakes[q].alive = world.snakes[q].alive
    BY <2>1, <2>2, FeedStep
  <2> HIDE DEF fed
  <2>4. AllFollow(ss, fed.snakes)
    BY <2>2, <2>3, FollowsTwice
  <2>5. fed \in [snakes : Herds(P), food : ItemMaps]
    BY <2>3
  <2>6. fed \in V
    BY <2>2, <2>3, <2>4, <2>5
  <2> QED
    BY <2>6 DEF fed
<1>3. AfterMeals(order) = FeedLoop!Loop(0, start, order)
  BY TheLoops
<1>4. DOMAIN order = 1..n
  OBVIOUS
<1> HIDE DEF V, start
<1>5. FeedLoop!Loop(0, start, order) \in V
  BY <1>1, <1>2, <1>4, FeedLoop!LoopKeeps
<1> QED
  BY <1>3, <1>5 DEF V

\* The head of p is on the body of q.
Hits(ss, p, q) == \E i \in DOMAIN ss[q].segments : Touch(HeadOf(ss[p]), ss[q].segments[i])

Resolved(ss, p, q) == p # q => ~CheckHeadCollision(ss[p], ss[q])

\* What becomes of the snakes ss in their fights: who dies has hit another one.
Fighting(P, ss) ==
    {tt \in Herds(P) :
        /\ AllFollow(ss, tt)
        /\ \A p \in P : ss[p].alive => tt[p].alive \/ \E q \in P \ {p} : Hits(ss, p, q)}

\* Once resolved, always resolved: bodies stay and the dead do not rise.
LEMMA StaysResolved ==
    ASSUME NEW P, NEW ss \in Herds(P), NEW tt \in Herds(P), AllFollow(ss, tt),
           NEW p \in P, NEW q \in P, Resolved(ss, p, q)
    PROVE  Resolved(tt, p, q)
BY DEF Herds, AllFollow, Follows, Resolved, CheckHeadCollision, HeadOf

LEMMA MeetResolves ==
    ASSUME NEW P, NEW ss, NEW tt \in Fighting(P, ss), NEW i \in P, NEW j \in P,
           ss \in Herds(P)
    PROVE  /\ Meet(tt, i, j) \in Fighting(P, ss) /\ AllFollow(tt, Meet(tt, i, j))
           /\ Resolved(Meet(tt, i, j), i, j)
<1> DEFINE uu == Meet(tt, i, j)
<1>1. tt \in Herds(P) /\ uu \in Herds(P) /\ AllFollow(ss, tt) /\ AllFollow(tt, uu)
  BY MeetStep DEF Fighting
<1>2. AllFollow(ss, uu)
  BY <1>1, FollowsTwice
<1>3. CASE i # j /\ CheckHeadCollision(tt[i], tt[j])
  <2>1. \A p \in P : uu[p].alive = (p # i /\ tt[p].alive)
    <3>1. uu = [tt EXCEPT ![i].alive = FALSE, ![j].score = @ + tt[i].score \div 2]
      BY <1>3 DEF Meet
    <3>2. tt[i] \in SnakeRecord /\ tt[j] \in SnakeRecord
      BY <1>1 DEF Herds
    <3> HIDE DEF uu
    <3> QED
      BY <1>1, <1>3, <3>1, <3>2 DEF Herds, SnakeRecord
  <2>2. Hits(tt, i, j)
    BY <1>3 DEF CheckHeadCollision, Hits
  <2>3. Hits(ss, i, j)
    BY <1>1, <2>2 DEF AllFollow, Follows, Hits, HeadOf, Herds
  <2> HIDE DEF uu
  <2>4. uu \in Fighting(P, ss)
    BY <1>1, <1>2, <1>3, <2>1, <2>3 DEF Fighting
  <2>5. Resolved(uu, i, j)
    BY <2>1 DEF Resolved, CheckHeadCollision
  <2> QED
    BY <1>1, <2>4, <2>5 DEF uu
<1>4. CASE ~(i # j /\ CheckHeadCollision(tt[i], tt[j]))
  <2>1. uu = tt
    BY <1>4 DEF Meet
  <2> QED
    BY <1>1, <1>4, <2>1 DEF Resolved
<1> QED
  BY <1>3, <1>4

\* One head against everybody.
LEMMA HeadPhase ==
    ASSUME NEW P, NEW ss \in Herds(P), NEW tt \in Fighting(P, ss), NEW i \in P,
           NEW n \in Nat, NEW order \in [1..n -> P]
    PROVE  LET left == MeetLoop!Loop(i, tt, order) IN
           /\ left \in Fighting(P, ss) /\ AllFollow(tt, left)
           /\ \A k \in 1..n : Resolved(left, i, order[k])
<1> DEFINE Good(k) == {uu \in Fighting(P, ss) :
                          /\ AllFollow(tt, uu)
                          /\ \A l \in 1..k : Resolved(uu, i, order[l])}
           J == [k \in 0..n |-> Good(k)]
<1>0. tt \in Herds(P) /\ \A uu \in Fighting(P, ss) : uu \in Herds(P)
  BY DEF Fighting
<1>1. tt \in Good(0)
  BY <1>0, FollowsTwice
<1>2. ASSUME NEW k \in 1..n, NEW uu \in Good(k - 1) PROVE Meet(uu, i, order[k]) \in Good(k)
  <2> DEFINE vv == Meet(uu, i, order[k])
  <2>1. order[k] \in P /\ uu \in Fighting(P, ss) /\ AllFollow(tt, uu)
    OBVIOUS
  <2>2. vv \in Fighting(P, ss) /\ AllFollow(uu, vv) /\ Resolved(vv, i, order[k])
    BY <2>1, MeetResolves
  <2> HIDE DEF vv
  <2>3. AllFollow(tt, vv)
    BY <1>0, <2>1, <2>2, FollowsTwice
  <2>4. ASSUME NEW l \in 1..k PROVE Resolved(vv, i, order[l])
    <3>1. CASE l = k
      BY <2>2, <3>1
    <3>2. CASE l # k
      <4>1. l \in 1..(k - 1) /\ order[l] \in P
        BY <3>2
      <4>2. Resolved(uu, i, order[l])
        BY <4>1
      <4> QED
        BY <1>0, <2>1, <2>2, <4>1, <4>2, StaysResolved
    <3> QED
      BY <3>1, <3>2
  <2> QED
    BY <2>2, <2>3, <2>4 DEF vv
<1>3. tt \in J[0]
  BY <1>1
<1>4. ASSUME NEW k \in 1..n, NEW uu \in J[k - 1] PROVE Meet(uu, i, order[k]) \in J[k]
  <2>1. J[k - 1] = Good(k - 1) /\ J[k] = Good(k)
    OBVIOUS
  <2> HIDE DEF J, Good
  <2> QED
    BY <1>2, <2>1
<1>5. DOMAIN order = 1..n /\ J[n] = Good(n)
  OBVIOUS
<1> HIDE DEF J
<1>6. MeetLoop!Loop(i, tt, order) \in Good(n)
  <2> HIDE DEF Good
  <2> QED
    BY <1>3, <1>4, <1>5, MeetLoop!LoopInvariant
<1> QED
  BY <1>6

\* Everybody against everybody.
LEMMA FightsPhase ==
    ASSUME NEW P, NEW ss \in Herds(P), NEW n \in Nat, NEW order \in [1..n -> P]
    PROVE  LET left == AfterFights(ss, order) IN
           /\ left \in Fighting(P, ss)
           /\ \A k, l \in 1..n : Resolved(left, order[k], order[l])
<1> DEFINE Good(k) == {uu \in Fighting(P, ss) :
                          \A l \in 1..k : \A m \in 1..n : Resolved(uu, order[l], order[m])}
           J == [k \in 0..n |-> Good(k)]
<1>0. \A uu \in Fighting(P, ss) : uu \in Herds(P)
  BY DEF Fighting
<1>1. ss \in Good(0)
  BY FollowsTwice DEF Fighting
<1>2. ASSUME NEW k \in 1..n, NEW uu \in Good(k - 1)
      PROVE  MeetLoop!Loop(order[k], uu, order) \in Good(k)
  <2> DEFINE vv == MeetLoop!Loop(order[k], uu, order)
  <2>1. order[k] \in P /\ uu \in Fighting(P, ss)
    OBVIOUS
  <2>2. /\ vv \in Fighting(P, ss) /\ AllFollow(uu, vv)
        /\ \A m \in 1..n : Resolved(vv, order[k], order[m])
    BY <2>1, HeadPhase
  <2> HIDE DEF vv
  <2>3. ASSUME NEW l \in 1..k, NEW m \in 1..n PROVE Resolved(vv, order[l], order[m])
    <3>1. CASE l = k
      BY <2>2, <3>1
    <3>2. CASE l # k
      <4>1. l \in 1..(k - 1) /\ order[l] \in P /\ order[m] \in P
        BY <3>2
      <4>2. Resolved(uu, order[l], order[m])
        BY <4>1
      <4> QED
        BY <1>0, <2>1, <2>2, <4>1, <4>2, StaysResolved
    <3> QED
      BY <3>1, <3>2
  <2> QED
    BY <2>2, <2>3 DEF vv
<1>3. ss \in J[0]
  BY <1>1
<1>4. ASSUME NEW k \in 1..n, NEW uu \in J[k - 1]
      PROVE  MeetLoop!Loop(order[k], uu, order) \in J[k]
  <2>1. J[k - 1] = Good(k - 1) /\ J[k] = Good(k)
    OBVIOUS
  <2> HIDE DEF J, Good
  <2> QED
    BY <1>2, <2>1
<1>5. DOMAIN order = 1..n /\ J[n] = Good(n)
  OBVIOUS
<1>6. AfterFights(ss, order) = FightLoop!Loop(order, ss, order)
  BY TheLoops
<1> HIDE DEF J
<1>7. FightLoop!Loop(order, ss, order) \in Good(n)
  <2> HIDE DEF Good
  <2> QED
    BY <1>3, <1>4, <1>5, FightLoop!LoopInvariant
<1> QED
  BY <1>6, <1>7

\* The dead leave their food.
LEMMA DeathsPhase ==
    ASSUME NEW P, NEW ss \in Herds(P), NEW items \in ItemMaps,
           NEW n \in Nat, NEW order \in [1..n -> P]
    PROVE  AfterDeaths(items, ss, order) \in ItemMaps
<1>1. ASSUME NEW s \in SnakeRecord PROVE DropFood(s) \in Seq(Position)
  <2>1. s.segments \in Seq(Position) /\ Len(s.segments) \in Nat
    BY DEF SnakeRecord
  <2> DEFINE len == Len(s.segments)  m == (len + 1) \div 2
  <2>2. m \in Nat /\ 2 * m <= len + 1
    <3>1. len + 1 \in Nat
      BY <2>1
    <3> HIDE DEF len
    <3> QED
      BY <3>1
  <2>3. ASSUME NEW k \in 1..m PROVE s.segments[2 * k - 1] \in Position
    <3>1. 2 * k - 1 \in 1..len
      <4> HIDE DEF m, len
      <4>1. k \in Int /\ 1 <= k /\ k <= m /\ len \in Nat
        BY <2>1, <2>2 DEF len
      <4> QED
        BY <2>2, <4>1
    <3> QED
      BY <2>1, <3>1
  <2>4. DropFood(s) = [k \in 1..m |-> s.segments[2 * k - 1]]
    BY DEF DropFood
  <2> HIDE DEF m
  <2> QED
    BY <2>2, <2>3, <2>4
<1>2. ASSUME NEW m \in ItemMaps, NEW i \in 1..n PROVE Bury(m, ss[order[i]]) \in ItemMaps
  <2>1. ss[order[i]] \in SnakeRecord /\ DeathFoodValue \in Values
    BY DEF Herds, Values
  <2> QED
    BY <1>1, <2>1, SpawnAtKeeps DEF Bury
<1>3. DOMAIN order = 1..n
  OBVIOUS
<1>4. BuryLoop!Loop(ss, items, order) \in ItemMaps
  BY <1>2, <1>3, BuryLoop!LoopKeeps
<1> QED
  BY <1>4, TheLoops

-----------------------------------------------------------------------------
(* The arena.                                                              *)

AllWhole == \A p \in DOMAIN snakes : Whole(snakes[p])

AllFacing == \A p \in DOMAIN snakes : Facing(snakes[p])

Inv == TypeOK /\ FoodBounded /\ AllWhole /\ AllFacing

\* What a tick is made of: the snakes that have been told the inputs, have moved,
\* have been fed, and have hit walls, themselves and each other.
MovedHerd(told) == [p \in DOMAIN snakes |-> Tick(told[p])]

Ticked(told, fed) ==
    LET P == DOMAIN snakes IN
    /\ told \in Steered(P, Len(inputs))
    /\ \A p \in P : Whole(told[p])
    /\ MovedHerd(told) \in Herds(P) /\ \A p \in P : Whole(MovedHerd(told)[p])
    /\ fed \in Herds(P) /\ AllFollow(MovedHerd(told), fed)
    /\ \A p \in P : fed[p].alive = MovedHerd(told)[p].alive
    /\ AfterWalls(fed) \in Herds(P) /\ AllFollow(fed, AfterWalls(fed))
    /\ snakes' \in Fighting(P, AfterWalls(fed))
    /\ \A p, q \in P : Resolved(snakes', p, q)

LEMMA Typed ==
    ASSUME TypeOK
    PROVE  /\ snakes \in Herds(DOMAIN snakes) /\ IsFiniteSet(DOMAIN snakes)
           /\ food \in ItemMaps /\ inputs \in Seq(InputRecord)
<1>1. IsFiniteSet(DOMAIN snakes)
  BY ArenaAssumption, FS_Subset DEF TypeOK
<1> QED
  BY <1>1 DEF TypeOK, Herds, ItemMaps

LEMMA TickDoes ==
    ASSUME TypeOK, AllWhole, ProcessTick
    PROVE  /\ food' \in ItemMaps /\ Count(food') >= InitialFood
           /\ \E told, fed : Ticked(told, fed)
<1> DEFINE P == DOMAIN snakes  told == AfterInputs
<1>1. snakes \in Herds(P) /\ IsFiniteSet(P) /\ food \in ItemMaps /\ inputs \in Seq(InputRecord)
  BY Typed
<1>2. PICK eat \in Seqs!SetToSeqs(P), fight \in Seqs!SetToSeqs(P), bury \in Seqs!SetToSeqs(P) :
        LET fed  == AfterMeals(eat)
            left == AfterFights(AfterWalls(fed.snakes), fight)
        IN  /\ snakes' = left
            /\ food' \in Replenished(AfterDeaths(fed.food, left, bury))
  BY DEF ProcessTick
<1> DEFINE fed == AfterMeals(eat)  n == Cardinality(P)
<1>3. /\ n \in Nat /\ eat \in [1..n -> P] /\ fight \in [1..n -> P] /\ bury \in [1..n -> P]
      /\ \A p \in P : \E i \in 1..n : fight[i] = p
  BY <1>1, Orders
<1>4. /\ told \in Steered(P, Len(inputs))
      /\ told \in Herds(P) /\ AllObey(snakes, told)
  BY <1>1, InputsPhase DEF Steered
<1>5. \A p \in P : Whole(told[p])
  BY <1>1, <1>4 DEF AllObey, Obeys, AllWhole, Whole, Contiguous, Herds
<1>6. AfterMoves = MovedHerd(told)
  BY <1>4 DEF AfterMoves, MovedHerd, Herds
<1> HIDE DEF told, n, fed
<1>7. \A p \in P : Whole(MovedHerd(told)[p])
  BY <1>5, TickKeepsWhole DEF MovedHerd
<1>8. MovedHerd(told) \in Herds(P)
  BY <1>5, TickKeepsWhole DEF MovedHerd, Herds, Whole
<1>9. /\ fed.snakes \in Herds(P) /\ AllFollow(MovedHerd(told), fed.snakes)
      /\ \A p \in P : fed.snakes[p].alive = MovedHerd(told)[p].alive
      /\ fed.food \in ItemMaps
  BY <1>1, <1>3, <1>6, <1>8, MealsPhase DEF fed
<1>10. AfterWalls(fed.snakes) \in Herds(P) /\ AllFollow(fed.snakes, AfterWalls(fed.snakes))
  BY <1>9, WallStep
<1>11. snakes' = AfterFights(AfterWalls(fed.snakes), fight)
  BY <1>2 DEF fed
<1>12. /\ snakes' \in Fighting(P, AfterWalls(fed.snakes))
       /\ \A i, j \in 1..n : Resolved(snakes', fight[i], fight[j])
  BY <1>3, <1>10, <1>11, FightsPhase
<1>13. \A p, q \in P : Resolved(snakes', p, q)
  BY <1>3, <1>12
<1>14. food' \in ItemMaps /\ Count(food') >= InitialFood
  <2>1. food' \in Replenished(AfterDeaths(fed.food, snakes', bury))
    BY <1>2 DEF fed
  <2>2. snakes' \in Herds(P)
    BY <1>12 DEF Fighting
  <2>3. AfterDeaths(fed.food, snakes', bury) \in ItemMaps
    BY <1>3, <1>9, <2>2, DeathsPhase
  <2> QED
    BY <2>1, <2>3, ReplenishFills
<1>15. Ticked(told, fed.snakes)
  BY <1>4, <1>5, <1>7, <1>8, <1>9, <1>10, <1>12, <1>13 DEF Ticked
<1> QED
  BY <1>14, <1>15

\* Through all phases of a tick a snake keeps the body it has moved to.
LEMMA TickedBody ==
    ASSUME NEW told, NEW fed, Ticked(told, fed)
    PROVE  /\ snakes' \in Herds(DOMAIN snakes) /\ DOMAIN snakes' = DOMAIN snakes
           /\ \A p \in DOMAIN snakes : snakes'[p].segments = Tick(told[p]).segments
           /\ AllFollow(MovedHerd(told), snakes')
<1> DEFINE P == DOMAIN snakes
<1>1. /\ MovedHerd(told) \in Herds(P) /\ fed \in Herds(P) /\ AllFollow(MovedHerd(told), fed)
      /\ AfterWalls(fed) \in Herds(P) /\ AllFollow(fed, AfterWalls(fed))
      /\ snakes' \in Herds(P) /\ AllFollow(AfterWalls(fed), snakes')
  BY DEF Ticked, Fighting
<1>2. AllFollow(MovedHerd(told), snakes')
  BY <1>1, FollowsTwice
<1>3. DOMAIN snakes' = DOMAIN snakes
  BY <1>1 DEF Herds
<1>4. \A p \in P : snakes'[p].segments = Tick(told[p]).segments
  BY <1>2 DEF AllFollow, Follows, MovedHerd
<1> QED
  BY <1>1, <1>2, <1>3, <1>4

\* After a tick the living face where they went, and the dead as they did.
LEMMA TickedFaces ==
    ASSUME AllFacing, NEW told, NEW fed, Ticked(told, fed), NEW p \in DOMAIN snakes
    PROVE  Facing(snakes'[p])
<1> DEFINE s == told[p]  t == Tick(s)
<1>1. /\ AllObey(snakes, told) /\ Whole(s) /\ s \in SnakeRecord
      /\ MovedHerd(told)[p] = t /\ DOMAIN MovedHerd(told) = DOMAIN snakes
  BY DEF Ticked, Steered, MovedHerd, Whole
<1>2. /\ s.segments = snakes[p].segments /\ s.alive = snakes[p].alive
      /\ ~s.alive => s = snakes[p]
  BY <1>1 DEF AllObey, Obeys
<1>3. snakes'[p].segments = t.segments /\ snakes'[p].direction = t.direction
  BY <1>1, TickedBody DEF AllFollow, Follows
<1>4. Facing(snakes[p])
  BY DEF AllFacing
<1>5. Facing(t)
  <2>1. CASE s.alive
    <3>1. Len(s.segments) >= 2
      BY <1>2, <1>4 DEF Facing
    <3> HIDE DEF s
    <3> QED
      BY <1>1, <2>1, <3>1, TickFaces
  <2>2. CASE ~s.alive
    BY <1>2, <1>4, <2>2 DEF Tick
  <2> QED
    BY <2>1, <2>2
<1> HIDE DEF t
<1> QED
  BY <1>3, <1>5 DEF Facing, Goes

\* Typing, the limits of the food, the unbroken bodies and where the snakes face are
\* inductive together.
LEMMA InvStep == Inv /\ [Next]_vars => Inv'
<1> SUFFICES ASSUME Inv, [Next]_vars PROVE Inv'
  OBVIOUS
<1> USE DEF Inv
<1>1. ASSUME NEW p \in Players, AddPlayer(p) PROVE Inv'
  <2>1. PICK pos \in SpawnSites :
          snakes' = [q \in DOMAIN snakes \cup {p} |->
                       IF q = p THEN NewSnake(pos) ELSE snakes[q]]
    BY <1>1 DEF AddPlayer
  <2>2. UNCHANGED <<food, inputs, tick>>
    BY <1>1 DEF AddPlayer
  <2>3. Whole(NewSnake(pos)) /\ NewSnake(pos) \in SnakeRecord
    BY ArenaAssumption, NewSnakeWhole DEF Whole
  <2>4. DOMAIN snakes' = DOMAIN snakes \cup {p}
    BY <2>1
  <2>5. \A q \in DOMAIN snakes' : Whole(snakes'[q]) /\ snakes'[q] \in SnakeRecord
    BY <2>1, <2>3, <2>4 DEF AllWhole, Whole
  <2>7. \A q \in DOMAIN snakes' : Facing(snakes'[q])
    BY <2>1, <2>4, ArenaAssumption, NewSnakeFaces DEF AllFacing
  <2>6. DOMAIN snakes' \subseteq Players /\ snakes' \in [DOMAIN snakes' -> SnakeRecord]
    BY <2>1, <2>4, <2>5 DEF TypeOK
  <2> QED
    BY <2>2, <2>5, <2>6, <2>7 DEF TypeOK, FoodBounded, Count, AllWhole, AllFacing
<1>2. ASSUME NEW p \in Players, RemovePlayer(p) PROVE Inv'
  <2>1. /\ snakes' = [q \in DOMAIN snakes \ {p} |-> snakes[q]]
        /\ UNCHANGED <<food, inputs, tick>>
    BY <1>2 DEF RemovePlayer
  <2> QED
    BY <2>1 DEF TypeOK, FoodBounded, Count, AllWhole, AllFacing
<1>3. ASSUME NEW p \in Players, NEW c \in Commands, SubmitInput(p, c[1], c[2]) PROVE Inv'
  <2> DEFINE input == [player |-> p, dir |-> c[1], boost |-> c[2]]
  <2>1. /\ Len(inputs) < InputCap /\ inputs' = Append(inputs, input)
        /\ UNCHANGED <<snakes, food, tick>>
    BY <1>3 DEF SubmitInput
  <2>2. input \in InputRecord
    BY ArenaAssumption DEF InputRecord
  <2> HIDE DEF input
  <2>3. inputs' \in Seq(InputRecord) /\ Len(inputs') <= InputCap
    BY <2>1, <2>2, ArenaAssumption DEF TypeOK
  <2> QED
    BY <2>1, <2>3 DEF TypeOK, FoodBounded, Count, AllWhole, AllFacing
<1>4. CASE ProcessTick
  <2>1. food' \in ItemMaps /\ Count(food') >= InitialFood
    BY <1>4, TickDoes
  <2>2. PICK told, fed : Ticked(told, fed)
    BY <1>4, TickDoes
  <2>3. /\ snakes' \in Herds(DOMAIN snakes) /\ DOMAIN snakes' = DOMAIN snakes
        /\ \A p \in DOMAIN snakes : snakes'[p].segments = Tick(told[p]).segments
    BY <2>2, TickedBody
  <2>4. ASSUME NEW p \in DOMAIN snakes PROVE Whole(snakes'[p])
    <3>1. Whole(Tick(told[p]))
      BY <2>2 DEF Ticked, MovedHerd
    <3>2. snakes'[p] \in SnakeRecord
      BY <2>3 DEF Herds
    <3> QED
      BY <2>3, <3>1, <3>2 DEF Whole, Contiguous
  <2>5. /\ DOMAIN food' \in SUBSET Ids /\ food' \in [DOMAIN food' -> Item]
        /\ Count(food') \in Nat /\ Count(food') <= MaxFood
    BY <2>1, ItemMap
  <2>6. tick' \in 0..MaxTicks /\ inputs' = <<>>
    BY <1>4, ArenaAssumption DEF ProcessTick, TypeOK
  <2>7. TypeOK'
    BY <2>3, <2>5, <2>6, ArenaAssumption DEF TypeOK, Herds
  <2>8. FoodBounded'
    BY <2>1, <2>5, FoodAssumption DEF FoodBounded
  <2>9. ASSUME NEW p \in DOMAIN snakes PROVE Facing(snakes'[p])
    BY <2>2, TickedFaces
  <2> QED
    BY <2>3, <2>4, <2>7, <2>8, <2>9 DEF AllWhole, AllFacing
<1>5. CASE UNCHANGED vars
  BY <1>5 DEF vars, TypeOK, FoodBounded, Count, AllWhole, AllFacing
<1> QED
  BY <1>1, <1>2, <1>3, <1>4, <1>5 DEF Next

LEMMA InvInit == Init => Inv
<1> SUFFICES ASSUME Init PROVE Inv
  OBVIOUS
<1>1. NoFood \in ItemMaps /\ Count(NoFood) = 0
  BY FS_EmptySet DEF NoFood, ItemMaps, Count
<1>2. PICK sites \in [1..InitialFood -> FoodSites] : food = SpawnAll(NoFood, sites, FoodValue)
  BY DEF Init, NewFood
<1>3. food \in ItemMaps /\ Count(food) = InitialFood
  <2>1. sites \in [1..InitialFood -> Position] /\ FoodValue \in Values
    BY FoodAssumption DEF Values
  <2>2. InitialFood \in Nat /\ Count(NoFood) + InitialFood <= MaxFood
    BY <1>1, FoodAssumption
  <2> QED
    BY <1>1, <1>2, <2>1, <2>2, SpawnAllAdds
<1>4. DOMAIN food \in SUBSET Ids /\ food \in [DOMAIN food -> Item]
  BY <1>3, ItemMap
<1> QED
  BY <1>3, <1>4, ArenaAssumption, FoodAssumption
     DEF Init, Inv, TypeOK, FoodBounded, AllWhole, AllFacing

LEMMA Invariance == Spec => []Inv
BY InvInit, InvStep, PTL DEF Spec

\* The type invariant of the arena.
THEOREM Typing == Spec => []TypeOK
<1>1. Inv => TypeOK
  BY DEF Inv
<1> QED
  BY <1>1, Invariance, PTL

\* The food stays between its initial amount and the limit, whatever is eaten, whoever
\* dies and however much they leave (food.go, SpawnAtPositions and Replenish).
THEOREM FoodLimits == Spec => []FoodBounded
<1>1. Inv => FoodBounded
  BY DEF Inv
<1> QED
  BY <1>1, Invariance, PTL

\* No body ever tears, whatever directions the wire carries (snake.go, Tick and
\* NewSnake; handler.go, clientReader).
THEOREM BodiesWhole == Spec => []Unbroken
<1>1. Inv => Unbroken
  BY DEF Inv, AllWhole, Unbroken, Whole
<1> QED
  BY <1>1, Invariance, PTL

\* A head only touches a tested segment when the snake turned back on itself or stood
\* still in between, however long it is and however it is wound (snake.go,
\* CheckSelfCollision).
THEOREM TurnsAreSafe == Spec => []TurningIsSafe
<1>1. Inv => TurningIsSafe
  BY TurnNeverBites DEF Inv, AllWhole, TurningIsSafe
<1> QED
  BY <1>1, Invariance, PTL

\* A snake that turns around within a tick was told at least two things, whatever waits
\* in the channel (game.go, drainInputs; snake.go, SetInput).
THEOREM ReversalsTakeTwo == Spec => ReversalTakesTwo
<1> DEFINE A == tick' # tick =>
                  \A p \in DOMAIN snakes : \A d, e \in Headings :
                     IsOpposite(d, e) /\ Goes(snakes[p], 1, d) /\ Goes(snakes'[p], 1, e)
                        => \E i, j \in DOMAIN inputs :
                              i < j /\ inputs[i].player = p /\ inputs[j].player = p
<1>1. Inv /\ [Next]_vars => [A]_vars
  <2> SUFFICES ASSUME Inv, [Next]_vars, tick' # tick, NEW p \in DOMAIN snakes,
                      NEW d \in Headings, NEW e \in Headings, IsOpposite(d, e),
                      Goes(snakes[p], 1, d), Goes(snakes'[p], 1, e)
               PROVE  Twice(p, Len(inputs))
    <3>1. DOMAIN inputs = 1..Len(inputs)
      BY DEF Inv, TypeOK
    <3> QED
      BY <3>1 DEF Twice
  <2>1. ProcessTick
    BY DEF Next, AddPlayer, RemovePlayer, SubmitInput, vars
  <2>2. PICK told, fed : Ticked(told, fed)
    BY <2>1, TickDoes DEF Inv
  <2>3. Facing(snakes'[p]) /\ Facing(snakes[p])
    BY <2>2, TickedFaces DEF Inv, AllFacing
  <2>4. snakes[p].direction = d /\ snakes'[p].direction = e
    BY <2>3 DEF Facing
  <2>5. told[p].direction = e
    <3>1. MovedHerd(told)[p] = Tick(told[p]) /\ DOMAIN MovedHerd(told) = DOMAIN snakes
      BY DEF MovedHerd
    <3>2. snakes'[p].direction = Tick(told[p]).direction
      BY <2>2, <3>1, TickedBody DEF AllFollow, Follows
    <3>3. told[p] \in SnakeRecord
      BY <2>2 DEF Ticked, Whole
    <3>4. Tick(told[p]).direction = told[p].direction
      BY <3>3 DEF Tick, SnakeRecord
    <3> QED
      BY <2>4, <3>2, <3>4
  <2> QED
    BY <2>2, <2>4, <2>5 DEF Ticked, Steered
<1> HIDE DEF A
<1>2. [][A]_vars => ReversalTakesTwo
  BY PTL DEF A, ReversalTakesTwo
<1> QED
  BY <1>1, <1>2, Invariance, PTL DEF Spec

\* No living snake's head is left on another one after a tick (game.go,
\* checkInterSnakeCollisions).
THEOREM NoCollisionLeft == Spec => CollisionsResolved
<1> DEFINE A == tick' # tick =>
                  \A p, q \in Living' : p # q => ~CheckHeadCollision(snakes'[p], snakes'[q])
<1>1. Inv /\ [Next]_vars => [A]_vars
  <2> SUFFICES ASSUME Inv, [Next]_vars, tick' # tick,
                      NEW p \in Living', NEW q \in Living', p # q
               PROVE  ~CheckHeadCollision(snakes'[p], snakes'[q])
    OBVIOUS
  <2>1. ProcessTick
    BY DEF Next, AddPlayer, RemovePlayer, SubmitInput, vars
  <2>2. PICK told, fed : Ticked(told, fed)
    BY <2>1, TickDoes DEF Inv
  <2>3. p \in DOMAIN snakes /\ q \in DOMAIN snakes
    BY <2>2, TickedBody DEF Living
  <2> QED
    BY <2>2, <2>3 DEF Ticked, Resolved
<1> HIDE DEF A
<1>2. [][A]_vars => CollisionsResolved
  BY PTL DEF A, CollisionsResolved
<1> QED
  BY <1>1, <1>2, Invariance, PTL DEF Spec

\* The dead stay as they are (game.go, drainInputs and processTick).
THEOREM DeadStay == Spec => DeadFrozen
<1> DEFINE A == \A p \in DOMAIN snakes \ Living :
                  p \in DOMAIN snakes' =>
                     \/ snakes'[p] = snakes[p]
                     \/ \E pos \in SpawnSites : snakes'[p] = NewSnake(pos)
<1>1. Inv /\ [Next]_vars => [A]_vars
  <2> SUFFICES ASSUME Inv, [Next]_vars, NEW p \in DOMAIN snakes \ Living, p \in DOMAIN snakes'
               PROVE  \/ snakes'[p] = snakes[p]
                      \/ \E pos \in SpawnSites : snakes'[p] = NewSnake(pos)
    OBVIOUS
  <2>1. CASE ProcessTick
    <3>1. PICK told, fed : Ticked(told, fed)
      BY <2>1, TickDoes DEF Inv
    <3>2. ~snakes[p].alive /\ told[p] = snakes[p]
      BY <3>1 DEF Ticked, Steered, AllObey, Obeys, Living
    <3>3. Tick(told[p]) = told[p] /\ MovedHerd(told)[p] = told[p]
      BY <3>2 DEF Tick, MovedHerd
    <3>4. DOMAIN MovedHerd(told) = DOMAIN snakes
      BY DEF MovedHerd
    <3>5. snakes'[p] = told[p]
      BY <3>1, <3>2, <3>3, <3>4, TickedBody DEF AllFollow, Follows
    <3> QED
      BY <3>2, <3>5
  <2>2. CASE ~ProcessTick
    BY <2>2 DEF Next, AddPlayer, RemovePlayer, SubmitInput, vars
  <2> QED
    BY <2>1, <2>2
<1> HIDE DEF A
<1>2. [][A]_vars => DeadFrozen
  BY PTL DEF A, DeadFrozen
<1> QED
  BY <1>1, <1>2, Invariance, PTL DEF Spec

\* The head of a new snake, whatever it is told, goes one step in the first tick: it
\* has nothing to pay for a boost.
LEMMA FirstMove ==
    ASSUME NEW pos \in SpawnSites, NEW s \in SnakeRecord, s.alive, s.score = 0,
           s.segments = NewSnake(pos).segments
    PROVE  /\ Tick(s) \in SnakeRecord /\ Tick(s).alive
           /\ Inside(HeadOf(Tick(s)), Width, Height)
           /\ Len(Tick(s).segments) <= Skipped
<1>1. /\ pos \in Position /\ pos.x \in 1..(Width - 1) /\ pos.y \in 1..(Height - 1)
      /\ Width \in Nat /\ Height \in Nat
  BY ArenaAssumption
<1>2. Len(s.segments) = 3 /\ s.segments[1] = [x |-> pos.x, y |-> pos.y]
  BY <1>1 DEF NewSnake, InitialSegments, SegmentSpacing, Position
<1>3. Whole(s)
  BY <1>1, <1>2, NewSnakeWhole DEF Whole, Contiguous
<1>4. Whole(Tick(s)) /\ Tick(s) \in SnakeRecord /\ Tick(s).segments = Moved(s) /\ Tick(s).alive
  <2>1. Whole(Tick(s))
    BY <1>3, TickKeepsWhole
  <2>2. Tick(s).segments = Moved(s) /\ Tick(s).alive
    BY DEF Tick, SnakeRecord
  <2> QED
    BY <2>1, <2>2 DEF Whole
<1>5. ~Boosts(s)
  BY DEF Boosts, BoostScoreCost
<1> DEFINE d == DirectionDelta[s.direction]
<1>6. d.x \in -1..1 /\ d.y \in -1..1
  BY Delta DEF SnakeRecord
<1>7. NewHead(s) = [x |-> pos.x + d.x, y |-> pos.y + d.y]
  <2>1. NewHead(s) = [x |-> s.segments[1].x + d.x * 1, y |-> s.segments[1].y + d.y * 1]
    BY <1>5 DEF NewHead, HeadOf, BaseSpeed
  <2> HIDE DEF d
  <2>2. d.x * 1 = d.x /\ d.y * 1 = d.y
    BY <1>6
  <2> QED
    BY <1>2, <2>1, <2>2
<1> HIDE DEF d
<1>8. HeadOf(Tick(s)) = NewHead(s) /\ Len(Tick(s).segments) <= 4
  <2>1. /\ Moved(s) \in Seq(Position) /\ Moved(s)[1] = NewHead(s)
        /\ Len(Moved(s)) <= Len(s.segments) + 1
    BY <1>3, MovedBody
  <2>2. Len(Moved(s)) <= 4
    BY <1>2, <2>1
  <2> QED
    BY <1>4, <2>1, <2>2 DEF HeadOf
<1>9. Inside(NewHead(s), Width, Height)
  BY <1>1, <1>6, <1>7 DEF Inside
<1> QED
  BY <1>4, <1>8, <1>9 DEF Skipped

\* A snake that was just added survives its first tick, whatever inputs of an earlier
\* connection wait for it, unless another snake is in its way (game.go, AddPlayer and
\* drainInputs; snake.go, CheckSelfCollision).
THEOREM FreshSnakesSurvive == Spec => FreshSurvives
<1> DEFINE A == \A p \in DOMAIN snakes :
                  tick' # tick /\ JustAdded(snakes[p])
                      => \/ p \in Living'
                         \/ \E q \in DOMAIN snakes \ {p} :
                                \E i \in DOMAIN snakes'[q].segments :
                                    Touch(HeadOf(snakes'[p]), snakes'[q].segments[i])
<1>1. Inv /\ [Next]_vars => [A]_vars
  <2> SUFFICES ASSUME Inv, [Next]_vars, tick' # tick, NEW p \in DOMAIN snakes,
                      JustAdded(snakes[p])
               PROVE  p \in Living' \/ \E q \in DOMAIN snakes \ {p} : Hits(snakes', p, q)
    BY DEF Hits
  <2> DEFINE P == DOMAIN snakes
  <2>1. ProcessTick
    BY DEF Next, AddPlayer, RemovePlayer, SubmitInput, vars
  <2>2. PICK told, fed : Ticked(told, fed)
    BY <2>1, TickDoes DEF Inv
  <2>3. PICK pos \in SpawnSites : snakes[p] = NewSnake(pos)
    BY DEF JustAdded
  <2>4. /\ told[p] \in SnakeRecord /\ told[p].segments = NewSnake(pos).segments
        /\ told[p].alive /\ told[p].score = 0
    <3>1. NewSnake(pos).alive /\ NewSnake(pos).score = 0
      BY DEF NewSnake
    <3> QED
      BY <2>2, <2>3, <3>1 DEF Ticked, Steered, AllObey, Obeys
  <2>5. /\ Tick(told[p]) \in SnakeRecord /\ Tick(told[p]).alive
        /\ Inside(HeadOf(Tick(told[p])), Width, Height)
        /\ Len(Tick(told[p]).segments) <= Skipped
    BY <2>4, FirstMove
  <2>6. fed[p] \in SnakeRecord /\ fed[p].alive /\ fed[p].segments = Tick(told[p]).segments
    BY <2>2, <2>5 DEF Ticked, AllFollow, Follows, MovedHerd
  <2>7. Inside(HeadOf(fed[p]), Width, Height) /\ ~BitesItself(fed[p])
    BY <2>5, <2>6, ShortNeverBites DEF HeadOf
  <2>8. AfterWalls(fed)[p].alive
    BY <2>2, <2>6, <2>7, WallStep DEF Ticked
  <2>9. snakes'[p].alive \/ \E q \in P \ {p} : Hits(AfterWalls(fed), p, q)
    BY <2>2, <2>8 DEF Ticked, Fighting
  <2>10. \A q \in P : snakes'[q].segments = AfterWalls(fed)[q].segments
    BY <2>2 DEF Ticked, Fighting, AllFollow, Follows, Herds
  <2>11. DOMAIN snakes' = P
    BY <2>2, TickedBody
  <2> QED
    BY <2>9, <2>10, <2>11 DEF Hits, HeadOf, Living
<1> HIDE DEF A
<1>2. [][A]_vars => FreshSurvives
  BY PTL DEF A, FreshSurvives
<1> QED
  BY <1>1, <1>2, Invariance, PTL DEF Spec
=============================================================================
