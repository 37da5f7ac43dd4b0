------------------------------ MODULE MCTrade ------------------------------
(* Model-checking definitions for Trade: a coin and two bags on a line of   *)
(* three places one, two and three steps apart, or two houses by a street.  *)
EXTENDS Trade, TLC

CONSTANTS ash, brock, misty, coin, bag, box, hut, lodge

\* Players are alike, and so are the bags.
Symmetry == Permutations({ash, brock, misty}) \union Permutations({bag, box})

Line == {0, 1, 3}
Street == 0..3
InsideOf == [h \in House |-> IF h = hut THEN 0 ELSE 3]
DoorOf == [h \in House |-> IF h = hut THEN 1 ELSE 2]
=============================================================================
