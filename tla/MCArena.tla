------------------------------ MODULE MCArena ------------------------------
(* Small arenas: one snake that turns, eats, boosts and grows, and two that *)
(* meet.                                                                    *)
EXTENDS Arena, TLC

\* One snake: any direction, with and without boost, and one that is none.
SoloSpawn == {[x |-> 5, y |-> 3]}
SoloFood == {[x |-> 6, y |-> 4]}
AllCommands == Headings \X BOOLEAN \cup {<<"unknown", FALSE>>}

\* Two snakes that start one above the other, or on top of each other.
DuelSpawn == {[x |-> 5, y |-> 1], [x |-> 5, y |-> 6]}
PlayerSymmetry == Permutations(Players)
DuelFood == {[x |-> 5, y |-> 3]}
UpDown == {<<"up", FALSE>>, <<"down", FALSE>>}
=============================================================================
