--------------------------- MODULE MonstersProofs ---------------------------
(***************************************************************************)
(* Proofs about the lives of creatures, for any finite sets of players and *)
(* monsters, and about raids and spawns, for any raids, numbers of events  *)
(* and invaders, any blocks, monsters and rate of spawning.                *)
(***************************************************************************)
EXTENDS Raids, Spawns, Creatures, FiniteSetTheorems, WellFoundedInduction, TLAPS

-----------------------------------------------------------------------------
(* What a fold over a finite set computes.                                 *)

\* The numbers that contain 0 and with every number the next.
LEMMA AllNumbers ==
  ASSUME NEW Q \in SUBSET Nat, 0 \in Q, \A n \in Q : n + 1 \in Q
  PROVE  Q = Nat
<1> SUFFICES ASSUME Nat \ Q # {} PROVE FALSE
  OBVIOUS
<1>1. PICK x \in Nat \ Q : \A y \in Nat \ Q : ~(<<y, x>> \in OpToRel(<, Nat))
  BY NatLessThanWellFounded, WFMin
<1>2. x # 0
  OBVIOUS
<1>3. x - 1 \in Nat /\ x - 1 < x /\ (x - 1) + 1 = x
  BY <1>2
<1>4. <<x - 1, x>> \in OpToRel(<, Nat)
  BY <1>3 DEF OpToRel
<1>5. x - 1 \in Q
  BY <1>1, <1>3, <1>4
<1> QED BY <1>3, <1>5

\* A fold takes the elements of a set one by one, as pick says, and a step for
\* each; what a set folds to is in G of it.
Picks(pick, S) == \A T \in (SUBSET S) \ {{}} : pick[T] \in T
StepsIn(step, pick, S, G) ==
  \A T \in (SUBSET S) \ {{}} : \A v \in G[T \ {pick[T]}] : step[T][v] \in G[T]
FoldsTo(f, S, b, pick, step) ==
  \A T \in SUBSET S : f[T] = IF T = {} THEN b ELSE step[T][f[T \ {pick[T]}]]
Follows(f, S, G, pick, step) ==
  \A T \in (SUBSET S) \ {{}} :
    f[T \ {pick[T]}] \in G[T \ {pick[T]}] => f[T] = step[T][f[T \ {pick[T]}]]
ValuesIn(f, S, G) == \A T \in SUBSET S : f[T] \in G[T]

\* The function that recursion over the subsets of a finite set defines exists.
LEMMA FoldExists ==
  ASSUME NEW S, IsFiniteSet(S), NEW G, NEW b, b \in G[{}],
         NEW pick, Picks(pick, S), NEW step, StepsIn(step, pick, S, G)
  PROVE  \E f : /\ f = [T \in SUBSET S |-> f[T]]
                /\ FoldsTo(f, S, b, pick, step) /\ ValuesIn(f, S, G)
<1> USE DEF Picks, StepsIn, FoldsTo, ValuesIn
<1> DEFINE V == UNION {G[T] : T \in SUBSET S}
           Small(n) == {T \in SUBSET S : Cardinality(T) <= n}
           Good(n, f) == \A T \in Small(n) :
             /\ f[T] \in G[T]
             /\ f[T] = IF T = {} THEN b ELSE step[T][f[T \ {pick[T]}]]
           Q == {n \in Nat : \E f \in [Small(n) -> V] : Good(n, f)}
<1>1. \A T \in SUBSET S : IsFiniteSet(T) /\ Cardinality(T) \in Nat
           /\ (Cardinality(T) = 0 <=> T = {}) /\ Cardinality(T) <= Cardinality(S)
  BY FS_Subset, FS_CardinalityType, FS_EmptySet
<1>2. \A T \in (SUBSET S) \ {{}} : T \ {pick[T]} \in SUBSET S
           /\ Cardinality(T \ {pick[T]}) = Cardinality(T) - 1
  BY <1>1, FS_RemoveElement
<1>3. 0 \in Q
  <2>1. \A T \in Small(0) : T = {}
    BY <1>1
  <2>3. b \in V
    OBVIOUS
  <2>2. [T \in Small(0) |-> b] \in [Small(0) -> V] /\ Good(0, [T \in Small(0) |-> b])
    <3> HIDE DEF V, Small
    <3> QED BY <2>1, <2>3
  <2> QED BY <2>2
<1>4. \A n \in Q : n + 1 \in Q
  <2> SUFFICES ASSUME NEW n \in Q PROVE n + 1 \in Q
    OBVIOUS
  <2>1. PICK f \in [Small(n) -> V] : Good(n, f)
    OBVIOUS
  <2> DEFINE g == [T \in Small(n + 1) |-> IF T = {} THEN b ELSE step[T][f[T \ {pick[T]}]]]
  <2>2. n \in Nat
    OBVIOUS
  <2>3. \A T \in Small(n + 1) \ {{}} : T \ {pick[T]} \in Small(n)
    BY <1>1, <1>2, <2>2
  <2>4. \A T \in Small(n + 1) : g[T] \in G[T]
    BY <2>1, <2>3
  <2>5. g \in [Small(n + 1) -> V]
    <3>1. ASSUME NEW T \in Small(n + 1) PROVE g[T] \in V
      <4>1. T \in SUBSET S /\ g[T] \in G[T]
        BY <2>4
      <4> HIDE DEF g
      <4> QED BY <4>1
    <3> HIDE DEF V, Small
    <3> QED BY <3>1
  <2>6. \A T \in Small(n) : T \in Small(n + 1) /\ g[T] = f[T]
    <3>1. \A T \in Small(n) : T \in Small(n + 1)
      BY <1>1, <2>2
    <3> HIDE DEF Small
    <3> QED BY <2>1, <3>1
  <2>7. Good(n + 1, g)
    BY <2>3, <2>4, <2>6
  <2> HIDE DEF g, Good, Small
  <2> QED BY <2>2, <2>5, <2>7
<1>5. Cardinality(S) \in Q
  <2> HIDE DEF Q
  <2>1. Q \in SUBSET Nat
    BY DEF Q
  <2> QED BY <1>1, <1>3, <1>4, <2>1, AllNumbers
<1>6. Small(Cardinality(S)) = SUBSET S
  BY <1>1
<1>7. PICK f \in [Small(Cardinality(S)) -> V] : Good(Cardinality(S), f)
  BY <1>5
<1>8. f = [T \in SUBSET S |-> f[T]]
  BY <1>6, <1>7
<1>9. FoldsTo(f, S, b, pick, step) /\ ValuesIn(f, S, G)
  BY <1>6, <1>7
<1> QED BY <1>8, <1>9

\* Every function of that recursion has its values where the steps stay.
LEMMA FoldStays ==
  ASSUME NEW S, IsFiniteSet(S), NEW G, NEW b, b \in G[{}],
         NEW pick, Picks(pick, S), NEW step, StepsIn(step, pick, S, G),
         NEW f, f[{}] = b, Follows(f, S, G, pick, step)
  PROVE  f[S] \in G[S]
<1> USE DEF Picks, StepsIn, Follows
<1> DEFINE Q == {n \in Nat : \A T \in SUBSET S : Cardinality(T) = n => f[T] \in G[T]}
<1>1. \A T \in SUBSET S : IsFiniteSet(T) /\ Cardinality(T) \in Nat
           /\ (Cardinality(T) = 0 <=> T = {})
  BY FS_Subset, FS_CardinalityType, FS_EmptySet
<1>2. \A T \in (SUBSET S) \ {{}} : T \ {pick[T]} \in SUBSET S
           /\ Cardinality(T \ {pick[T]}) = Cardinality(T) - 1
  BY <1>1, FS_RemoveElement
<1>3. 0 \in Q
  BY <1>1
<1>4. \A n \in Q : n + 1 \in Q
  <2> SUFFICES ASSUME NEW n \in Q
               PROVE  \A T \in SUBSET S : Cardinality(T) = n + 1 => f[T] \in G[T]
    OBVIOUS
  <2> SUFFICES ASSUME NEW T \in SUBSET S, Cardinality(T) = n + 1
               PROVE  f[T] \in G[T]
    OBVIOUS
  <2>1. T # {}
    BY <1>1
  <2>2. Cardinality(T \ {pick[T]}) = n
    BY <1>2, <2>1
  <2>3. f[T \ {pick[T]}] \in G[T \ {pick[T]}]
    BY <1>2, <2>1, <2>2
  <2> QED BY <2>1, <2>3
<1>5. Q = Nat
  <2>1. Q \in SUBSET Nat
    OBVIOUS
  <2> HIDE DEF Q
  <2> QED BY <1>3, <1>4, <2>1, AllNumbers
<1> QED BY <1>1, <1>5

Chosen(S) == [T \in SUBSET S |-> CHOOSE x \in T : TRUE]
\* A set has an element to choose.
LEMMA Choosing == ASSUME NEW S PROVE Picks(Chosen(S), S)
  BY DEF Picks, Chosen

-----------------------------------------------------------------------------
(* Creatures.                                                              *)

\* The type of a world, in which references may for a moment be miscounted.
CreatureWorld ==
  [stage : [Creature -> {"free", "placed", "removed"}], dead : [Creature -> BOOLEAN],
   checked : [Creature -> BOOLEAN], vector : [Creature -> {"out", "new", "in"}],
   targets : [Monster -> SUBSET Creature], idle : [Monster -> BOOLEAN],
   master : [Monster -> Creature \union {None}], summons : [Creature -> SUBSET Monster],
   refs : [Creature -> Int], releasing : SUBSET Creature]

Clean(w, c) ==
  /\ w.refs[c] = 0 /\ ~w.dead[c] /\ w.summons[c] = {}
  /\ c \in Monster => w.targets[c] = {} /\ w.idle[c] /\ w.master[c] = None
Tied(w) ==
  /\ \A m \in Monster, c \in Creature : w.master[m] = c <=> m \in w.summons[c]
  /\ \A m \in Monster : w.master[m] # None => w.summons[m] = {}
Apart(w) ==
  \A m \in Monster : w.summons[m] \intersect w.targets[m] = {} /\ m \notin w.targets[m]
Staged(w) ==
  /\ \A c \in Creature : w.stage[c] = "free" => Clean(w, c)
  /\ \A c \in Creature : w.checked[c] => w.stage[c] = "placed"
  /\ \A c \in w.releasing : w.stage[c] = "removed"
Counted(w) == \A c \in Creature : w.refs[c] = Holders(w, c)
Core(w) == w \in CreatureWorld /\ Tied(w) /\ Apart(w) /\ Staged(w) /\ Counted(w)

\* Those in X are being placed; those in Y may go idle or wake.
Watches(w, c) == w.checked[c] /\ w.vector[c] # "out"
Watched(w, X, Y) ==
  /\ \A c \in Placed(w) \ X : w.dead[c] \/ c \in Hunter => Watches(w, c)
  /\ \A m \in (Alive(w) \intersect Monster) \ Y :
       IF w.idle[m] THEN w.targets[m] = {} ELSE Watches(w, m)

Seekers(w, c) == {m \in Monster : c \in w.targets[m]}
Masters(w, c) == {d \in Creature : c \in w.summons[d]}
Anchors(w, c) ==
  (IF w.vector[c] = "out" THEN 0 ELSE 1)
    + (IF w.stage[c] = "placed" \/ c \in w.releasing THEN 1 ELSE 0)

\* Players and monsters are not the same, and None is neither.
LEMMA Kinds ==
  /\ None \notin Creature /\ Hunter \intersect Monster = {}
  /\ Creature = Hunter \union Monster /\ IsFiniteSet(Creature) /\ IsFiniteSet(Monster)
<1>1. IsFiniteSet(Creature)
  BY CreaturesAssumption DEF CreaturesAssumption, Creature
<1>2. Monster \subseteq Creature
  BY DEF Creature
<1> QED BY <1>1, <1>2, CreaturesAssumption, PlayersAssumption, FS_Subset
        DEF CreaturesAssumption, PlayersAssumption, Creature

\* Who holds a creature, in parts.
LEMMA HoldersOf ==
  ASSUME NEW w, w \in CreatureWorld, NEW c \in Creature
  PROVE  /\ IsFiniteSet(Seekers(w, c)) /\ IsFiniteSet(Masters(w, c))
         /\ Cardinality(Seekers(w, c)) \in Nat /\ Cardinality(Masters(w, c)) \in Nat
         /\ Anchors(w, c) \in 0..2
         /\ Holders(w, c) = Cardinality(Seekers(w, c)) + Cardinality(Masters(w, c)) + Anchors(w, c)
<1>1. IsFiniteSet(Seekers(w, c)) /\ IsFiniteSet(Masters(w, c))
  BY Kinds, FS_Subset DEF Seekers, Masters
<1>2. Cardinality(Seekers(w, c)) \in Nat /\ Cardinality(Masters(w, c)) \in Nat
  BY <1>1, FS_CardinalityType
<1>3. Anchors(w, c) \in 0..2
  BY DEF Anchors
<1>4. Holders(w, c) = Cardinality(Seekers(w, c)) + Cardinality(Masters(w, c))
        + (IF w.vector[c] = "out" THEN 0 ELSE 1)
        + (IF w.stage[c] = "placed" \/ c \in w.releasing THEN 1 ELSE 0)
  BY DEF Holders, Seekers, Masters
<1>5. Holders(w, c) = Cardinality(Seekers(w, c)) + Cardinality(Masters(w, c)) + Anchors(w, c)
  BY <1>2, <1>4 DEF Anchors
<1> QED BY <1>1, <1>2, <1>3, <1>5

\* Nobody holds what has no references.
LEMMA Unheld ==
  ASSUME NEW w, w \in CreatureWorld, NEW c \in Creature
  PROVE  /\ Holders(w, c) \in Nat
         /\ Holders(w, c) = 0 <=>
              /\ Seekers(w, c) = {} /\ Masters(w, c) = {} /\ w.vector[c] = "out"
              /\ w.stage[c] # "placed" /\ c \notin w.releasing
<1>1. /\ Cardinality(Seekers(w, c)) = 0 <=> Seekers(w, c) = {}
      /\ Cardinality(Masters(w, c)) = 0 <=> Masters(w, c) = {}
  BY HoldersOf, FS_EmptySet
<1>2. Anchors(w, c) = 0 <=> w.vector[c] = "out" /\ w.stage[c] # "placed" /\ c \notin w.releasing
  BY DEF Anchors
<1> DEFINE s == Cardinality(Seekers(w, c))  t == Cardinality(Masters(w, c))  a == Anchors(w, c)
<1>3. s \in Nat /\ t \in Nat /\ a \in 0..2 /\ Holders(w, c) = s + t + a
  BY HoldersOf
<1>4. (s = 0 <=> Seekers(w, c) = {}) /\ (t = 0 <=> Masters(w, c) = {})
      /\ (a = 0 <=> w.vector[c] = "out" /\ w.stage[c] # "placed" /\ c \notin w.releasing)
  BY <1>1, <1>2
<1> HIDE DEF s, t, a
<1> QED BY <1>3, <1>4

\* The references that Refer changes.
Refers(w, r, C, n) ==
  /\ r \in CreatureWorld /\ r = [w EXCEPT !.refs = r.refs]
  /\ \A x \in Creature : r.refs[x] = IF x \in C THEN w.refs[x] + n ELSE w.refs[x]
\* Refer changes the references of C and nothing else.
LEMMA Referring ==
  ASSUME NEW w, w \in CreatureWorld, NEW C \in SUBSET Creature, NEW n \in Int
  PROVE  Refers(w, Refer(w, C, n), C, n)
<1>1. CASE C = {}
  BY <1>1 DEF Refer, Refers, CreatureWorld
<1>2. CASE C # {}
  BY <1>2 DEF Refer, Refers, CreatureWorld
<1> QED BY <1>1, <1>2

\* The anchors of nobody change.
SameAnchors(w, v) == v.vector = w.vector /\ v.stage = w.stage /\ v.releasing = w.releasing
\* Nothing changes but targets, idle and references.
SameLives(w, v) ==
  /\ SameAnchors(w, v) /\ v.dead = w.dead /\ v.checked = w.checked
  /\ v.master = w.master /\ v.summons = w.summons

\* Holders and those that a monster begins to seek.
LEMMA SeekingCounts ==
  ASSUME NEW w, w \in CreatureWorld, NEW v, v \in CreatureWorld,
         SameAnchors(w, v), v.summons = w.summons,
         NEW m \in Monster, NEW c \in Creature, c \notin w.targets[m],
         v.targets = [w.targets EXCEPT ![m] = @ \union {c}]
  PROVE  \A x \in Creature : Holders(v, x) = Holders(w, x) + (IF x = c THEN 1 ELSE 0)
<1> SUFFICES ASSUME NEW x \in Creature
             PROVE  Holders(v, x) = Holders(w, x) + (IF x = c THEN 1 ELSE 0)
  OBVIOUS
<1>1. Masters(v, x) = Masters(w, x) /\ Anchors(v, x) = Anchors(w, x)
  BY DEF SameAnchors, Masters, Anchors
<1>2. CASE x = c
  <2>1. Seekers(v, x) = Seekers(w, x) \union {m} /\ m \notin Seekers(w, x)
    BY <1>2 DEF Seekers, CreatureWorld
  <2>2. Cardinality(Seekers(v, x)) = Cardinality(Seekers(w, x)) + 1
    BY <2>1, HoldersOf, FS_AddElement
  <2> QED BY <1>1, <1>2, <2>2, HoldersOf
<1>3. CASE x # c
  <2>1. Seekers(v, x) = Seekers(w, x)
    BY <1>3 DEF Seekers, CreatureWorld
  <2> QED BY <1>1, <1>3, <2>1, HoldersOf
<1> QED BY <1>2, <1>3

\* Holders and those that a monster gives up.
LEMMA ForgettingCounts ==
  ASSUME NEW w, w \in CreatureWorld, NEW v, v \in CreatureWorld,
         SameAnchors(w, v), v.summons = w.summons,
         NEW m \in Monster, NEW G, G \subseteq w.targets[m],
         v.targets = [w.targets EXCEPT ![m] = @ \ G]
  PROVE  \A x \in Creature : Holders(v, x) = Holders(w, x) - (IF x \in G THEN 1 ELSE 0)
<1> SUFFICES ASSUME NEW x \in Creature
             PROVE  Holders(v, x) = Holders(w, x) - (IF x \in G THEN 1 ELSE 0)
  OBVIOUS
<1>1. Masters(v, x) = Masters(w, x) /\ Anchors(v, x) = Anchors(w, x)
  BY DEF SameAnchors, Masters, Anchors
<1>2. CASE x \in G
  <2>1. Seekers(v, x) = Seekers(w, x) \ {m} /\ m \in Seekers(w, x)
    BY <1>2 DEF Seekers, CreatureWorld
  <2>2. Cardinality(Seekers(v, x)) = Cardinality(Seekers(w, x)) - 1
    BY <2>1, HoldersOf, FS_RemoveElement
  <2> QED BY <1>1, <1>2, <2>2, HoldersOf
<1>3. CASE x \notin G
  <2>1. Seekers(v, x) = Seekers(w, x)
    BY <1>3 DEF Seekers, CreatureWorld
  <2> QED BY <1>1, <1>3, <2>1, HoldersOf
<1> QED BY <1>2, <1>3

\* What becomes of a world when a monster begins to seek c, or gives up those of G.
Seeks(w, v, m, c) ==
  /\ v \in CreatureWorld /\ SameLives(w, v) /\ v.idle = w.idle
  /\ v.targets = [w.targets EXCEPT ![m] = @ \union {c}]
  /\ \A x \in Creature : v.refs[x] = w.refs[x] + (IF x = c THEN 1 ELSE 0)
Forgets(w, v, m, G) ==
  /\ v \in CreatureWorld /\ SameLives(w, v) /\ v.idle = w.idle
  /\ v.targets = [w.targets EXCEPT ![m] = @ \ G]
  /\ \A x \in Creature : v.refs[x] = w.refs[x] - (IF x \in G THEN 1 ELSE 0)

\* The code for both.
LEMMA SeeksIs ==
  ASSUME NEW w, w \in CreatureWorld, NEW m \in Monster, NEW c \in Creature
  PROVE  Seeks(w, [Refer(w, {c}, 1) EXCEPT !.targets[m] = @ \union {c}], m, c)
<1> DEFINE r == Refer(w, {c}, 1)
           v == [r EXCEPT !.targets[m] = @ \union {c}]
<1>0. Refers(w, r, {c}, 1)
  BY Referring
<1> HIDE DEF r
<1>1. r \in CreatureWorld /\ r = [w EXCEPT !.refs = r.refs]
  BY <1>0 DEF Refers
<1>2. \A x \in Creature : w.refs[x] \in Int /\ r.refs[x] = w.refs[x] + (IF x = c THEN 1 ELSE 0)
  BY <1>0 DEF CreatureWorld, Refers
<1>3. v \in CreatureWorld
  BY <1>1 DEF CreatureWorld
<1>4. /\ SameLives(w, v) /\ v.idle = w.idle /\ v.refs = r.refs
      /\ v.targets = [w.targets EXCEPT ![m] = @ \union {c}]
  BY <1>1 DEF CreatureWorld, SameLives, SameAnchors
<1> HIDE DEF v
<1>5. Seeks(w, v, m, c)
  BY <1>2, <1>3, <1>4 DEF Seeks
<1> QED BY <1>5 DEF v, r

\* So does ClearTargetList, or a part of it.
LEMMA ForgetsIs ==
  ASSUME NEW w, w \in CreatureWorld, NEW m \in Monster, NEW G, G \subseteq w.targets[m]
  PROVE  Forgets(w, [Refer(w, G, -1) EXCEPT !.targets[m] = @ \ G], m, G)
<1> DEFINE r == Refer(w, G, -1)
           v == [r EXCEPT !.targets[m] = @ \ G]
<1>0. Refers(w, r, G, -1)
  <2>1. G \in SUBSET Creature /\ -1 \in Int
    BY DEF CreatureWorld
  <2> QED BY <2>1, Referring
<1> HIDE DEF r
<1>1. r \in CreatureWorld /\ r = [w EXCEPT !.refs = r.refs]
  BY <1>0 DEF Refers
<1>2. \A x \in Creature : w.refs[x] \in Int /\ r.refs[x] = w.refs[x] - (IF x \in G THEN 1 ELSE 0)
  BY <1>0 DEF CreatureWorld, Refers
<1>3. v \in CreatureWorld
  BY <1>1 DEF CreatureWorld
<1>4. /\ SameLives(w, v) /\ v.idle = w.idle /\ v.refs = r.refs
      /\ v.targets = [w.targets EXCEPT ![m] = @ \ G]
  BY <1>1 DEF CreatureWorld, SameLives, SameAnchors
<1> HIDE DEF v
<1>5. Forgets(w, v, m, G)
  BY <1>2, <1>3, <1>4 DEF Forgets
<1> QED BY <1>5 DEF v, r

\* A monster begins to seek a creature; whether it is idle is still to be seen.
LEMMA Seeking ==
  ASSUME NEW w, Core(w), NEW X, NEW Y, Watched(w, X, Y), NEW m \in Monster, NEW c \in Creature,
         c \notin w.targets[m], c # m, c \notin w.summons[m],
         w.stage[m] # "free", w.stage[c] # "free", NEW v, Seeks(w, v, m, c)
  PROVE  Core(v) /\ Watched(v, X, Y \union {m})
<1>1. w \in CreatureWorld /\ v \in CreatureWorld
  BY DEF Core, Seeks
<1>2. v.targets = [w.targets EXCEPT ![m] = @ \union {c}] /\ SameLives(w, v) /\ v.idle = w.idle
  BY DEF Seeks
<1>3. Counted(v)
  <2>1. \A x \in Creature : Holders(v, x) = Holders(w, x) + (IF x = c THEN 1 ELSE 0)
    BY <1>1, <1>2, SeekingCounts DEF SameLives
  <2> QED BY <2>1 DEF Core, Counted, Seeks
<1>4. Tied(v)
  BY <1>2 DEF Core, Tied, SameLives
<1>5. Apart(v)
  BY <1>1, <1>2 DEF Core, Apart, SameLives, CreatureWorld
<1>6. Staged(v)
  <2>1. \A x \in Creature : v.stage[x] = "free" => x # m /\ v.refs[x] = w.refs[x]
    BY <1>1, <1>2 DEF Seeks, SameLives, SameAnchors, CreatureWorld
  <2> QED BY <1>1, <1>2, <2>1 DEF Core, Staged, SameLives, SameAnchors, Clean, CreatureWorld
<1>7. Watched(v, X, Y \union {m})
  BY <1>1, <1>2 DEF Watched, Watches, Placed, Alive, SameLives, SameAnchors, CreatureWorld
<1> QED BY <1>1, <1>3, <1>4, <1>5, <1>6, <1>7 DEF Core

\* A monster gives up some of those it seeks.
LEMMA Forgetting ==
  ASSUME NEW w, Core(w), NEW X, NEW Y, Watched(w, X, Y), NEW m \in Monster,
         NEW G, G \subseteq w.targets[m], NEW v, Forgets(w, v, m, G)
  PROVE  Core(v) /\ Watched(v, X, Y)
<1>1. w \in CreatureWorld /\ v \in CreatureWorld
  BY DEF Core, Forgets
<1>2. v.targets = [w.targets EXCEPT ![m] = @ \ G] /\ SameLives(w, v) /\ v.idle = w.idle
  BY DEF Forgets
<1>3. Counted(v)
  <2>1. \A x \in Creature : Holders(v, x) = Holders(w, x) - (IF x \in G THEN 1 ELSE 0)
    BY <1>1, <1>2, ForgettingCounts DEF SameLives
  <2> QED BY <2>1 DEF Core, Counted, Forgets
<1>4. Tied(v)
  BY <1>2 DEF Core, Tied, SameLives
<1>5. Apart(v)
  BY <1>1, <1>2 DEF Core, Apart, SameLives, CreatureWorld
<1>6. Staged(v)
  <2>1. \A x \in Creature : w.stage[x] = "free" => x \notin G
    <3>1. \A x \in Creature : w.stage[x] = "free" => Holders(w, x) = 0
      BY DEF Core, Staged, Clean, Counted
    <3>2. \A x \in Creature : w.stage[x] = "free" => Seekers(w, x) = {}
      BY <1>1, <3>1, Unheld
    <3> QED BY <3>2 DEF Seekers
  <2>2. \A x \in Creature : v.stage[x] = "free" => v.refs[x] = 0
    BY <1>1, <1>2, <2>1 DEF Core, Staged, Clean, Forgets, SameLives, SameAnchors, CreatureWorld
  <2> QED BY <1>1, <1>2, <2>2 DEF Core, Staged, SameLives, SameAnchors, Clean, CreatureWorld
<1>7. Watched(v, X, Y)
  BY <1>1, <1>2 DEF Watched, Watches, Placed, Alive, SameLives, SameAnchors, CreatureWorld
<1> QED BY <1>1, <1>3, <1>4, <1>5, <1>6, <1>7 DEF Core

\* Holders and what else keeps an object: the map, a vector, what is to be released.
LEMMA AnchorsCount ==
  ASSUME NEW w, w \in CreatureWorld, NEW v, v \in CreatureWorld,
         v.targets = w.targets, v.summons = w.summons, NEW x \in Creature
  PROVE  Holders(v, x) = Holders(w, x) + Anchors(v, x) - Anchors(w, x)
<1>1. Seekers(v, x) = Seekers(w, x) /\ Masters(v, x) = Masters(w, x)
  BY DEF Seekers, Masters
<1> QED BY <1>1, HoldersOf

\* Nobody moves, dies or changes sides, and nobody leaves a vector.
Keeps(w, v) ==
  /\ v.stage = w.stage /\ v.dead = w.dead /\ v.releasing = w.releasing
  /\ v.master = w.master /\ v.summons = w.summons
  /\ \A c \in Creature : w.vector[c] # "out" => v.vector[c] # "out"

\* A creature that is on the map gets into a vector.
LEMMA CheckAdded ==
  ASSUME NEW w, Core(w), NEW X, NEW Y, Watched(w, X, Y),
         NEW c \in Creature, w.stage[c] # "free", NEW v, v = AddCreatureCheck(w, c)
  PROVE  /\ Core(v) /\ Watched(v, X \ {c}, Y) /\ Keeps(w, v)
         /\ v.targets = w.targets /\ v.idle = w.idle
         /\ w.stage[c] = "placed" => Watches(v, c)
<1>1. w \in CreatureWorld
  BY DEF Core
<1>2. CASE w.stage[c] = "removed"
  <2>1. v = w
    BY <1>2 DEF AddCreatureCheck
  <2>2. Watched(w, X \ {c}, Y)
    BY <1>2 DEF Watched, Placed
  <2> QED BY <1>2, <2>1, <2>2 DEF Keeps
<1>3. CASE w.stage[c] = "placed" /\ w.vector[c] # "out"
  <2>1. v = [w EXCEPT !.checked[c] = TRUE]
    BY <1>3 DEF AddCreatureCheck
  <2>2. /\ v \in CreatureWorld /\ SameAnchors(w, v) /\ v.targets = w.targets /\ v.idle = w.idle
        /\ Keeps(w, v) /\ v.refs = w.refs /\ v.checked = [w.checked EXCEPT ![c] = TRUE]
    <3> DEFINE u == [w EXCEPT !.checked[c] = TRUE]
    <3>1. u \in CreatureWorld
      BY <1>1 DEF CreatureWorld
    <3>2. /\ SameAnchors(w, u) /\ u.targets = w.targets /\ u.idle = w.idle
          /\ Keeps(w, u) /\ u.refs = w.refs /\ u.checked = [w.checked EXCEPT ![c] = TRUE]
      BY <1>1 DEF CreatureWorld, SameAnchors, Keeps
    <3> HIDE DEF u
    <3>3. v = u
      BY <2>1 DEF u
    <3> QED BY <3>1, <3>2, <3>3
  <2>3. Counted(v)
    <3>1. \A x \in Creature : Anchors(v, x) = Anchors(w, x)
      BY <2>2 DEF Anchors, SameAnchors
    <3>2. \A x \in Creature : Holders(v, x) = Holders(w, x) + Anchors(v, x) - Anchors(w, x)
      BY <1>1, <2>2, AnchorsCount DEF Keeps
    <3>3. \A x \in Creature : Holders(v, x) = Holders(w, x)
      BY <1>1, <3>1, <3>2, HoldersOf
    <3> QED BY <2>2, <3>3 DEF Core, Counted
  <2>4. Tied(v) /\ Apart(v)
    BY <2>2 DEF Core, Tied, Apart, Keeps
  <2>5. Staged(v)
    BY <1>1, <1>3, <2>2 DEF Core, Staged, Keeps, Clean, CreatureWorld
  <2>6. Watched(v, X \ {c}, Y) /\ Watches(v, c)
    BY <1>1, <1>3, <2>2 DEF Watched, Watches, Placed, Alive, SameAnchors, Keeps, CreatureWorld
  <2> QED BY <2>2, <2>3, <2>4, <2>5, <2>6 DEF Core
<1>4. CASE w.stage[c] = "placed" /\ w.vector[c] = "out"
  <2> DEFINE r == Refer(w, {c}, 1)
  <2>1. v = [r EXCEPT !.checked[c] = TRUE, !.vector[c] = "new"]
    BY <1>4 DEF AddCreatureCheck
  <2>2. Refers(w, r, {c}, 1)
    BY <1>1, Referring
  <2> HIDE DEF r
  <2>3. r \in CreatureWorld /\ r = [w EXCEPT !.refs = r.refs]
    BY <2>2 DEF Refers
  <2>4. /\ v \in CreatureWorld /\ v.targets = w.targets /\ v.idle = w.idle /\ v.refs = r.refs
        /\ v.vector = [w.vector EXCEPT ![c] = "new"] /\ v.checked = [w.checked EXCEPT ![c] = TRUE]
        /\ v.stage = w.stage /\ v.dead = w.dead /\ v.releasing = w.releasing
        /\ v.master = w.master /\ v.summons = w.summons
    <3> DEFINE u == [r EXCEPT !.checked[c] = TRUE, !.vector[c] = "new"]
    <3>1. u \in CreatureWorld
      BY <2>3 DEF CreatureWorld
    <3>2. /\ u.targets = w.targets /\ u.idle = w.idle /\ u.refs = r.refs
          /\ u.vector = [w.vector EXCEPT ![c] = "new"] /\ u.checked = [w.checked EXCEPT ![c] = TRUE]
          /\ u.stage = w.stage /\ u.dead = w.dead /\ u.releasing = w.releasing
          /\ u.master = w.master /\ u.summons = w.summons
      BY <1>1, <2>3 DEF CreatureWorld
    <3> HIDE DEF u
    <3>3. v = u
      BY <2>1 DEF u
    <3> QED BY <3>1, <3>2, <3>3
  <2>5. Keeps(w, v)
    BY <1>1, <2>4 DEF Keeps, CreatureWorld
  <2>6. Counted(v)
    <3>1. \A x \in Creature : Anchors(v, x) = Anchors(w, x) + (IF x = c THEN 1 ELSE 0)
      BY <1>1, <1>4, <2>4 DEF Anchors, CreatureWorld
    <3>2. \A x \in Creature : Holders(v, x) = Holders(w, x) + Anchors(v, x) - Anchors(w, x)
      BY <1>1, <2>4, AnchorsCount
    <3>3. \A x \in Creature : Holders(v, x) = Holders(w, x) + (IF x = c THEN 1 ELSE 0)
      BY <1>1, <3>1, <3>2, HoldersOf
    <3>4. \A x \in Creature : v.refs[x] = w.refs[x] + (IF x = c THEN 1 ELSE 0)
      BY <1>1, <2>2, <2>4 DEF Refers, CreatureWorld
    <3> QED BY <3>3, <3>4 DEF Core, Counted
  <2>7. Tied(v) /\ Apart(v)
    BY <2>4 DEF Core, Tied, Apart
  <2>8. Staged(v)
    <3>1. \A x \in Creature : v.stage[x] = "free" => v.refs[x] = w.refs[x]
      BY <1>1, <1>4, <2>2, <2>4 DEF Refers, CreatureWorld
    <3> QED BY <1>1, <1>4, <2>4, <3>1 DEF Core, Staged, Clean, CreatureWorld
  <2>9. Watched(v, X \ {c}, Y) /\ Watches(v, c)
    BY <1>1, <1>4, <2>4 DEF Watched, Watches, Placed, Alive, CreatureWorld
  <2> QED BY <2>4, <2>5, <2>6, <2>7, <2>8, <2>9 DEF Core
<1> QED BY <1>1, <1>2, <1>3, <1>4 DEF CreatureWorld

\* A creature is not to be checked any more.
LEMMA CheckRemoved ==
  ASSUME NEW w, Core(w), NEW X, NEW Y, Watched(w, X, Y), NEW m \in Monster,
         w.stage[m] = "placed" => ~w.dead[m] /\ w.idle[m],
         NEW v, v = RemoveCreatureCheck(w, m)
  PROVE  /\ Core(v) /\ Watched(v, X, Y) /\ Keeps(w, v) /\ v.targets = w.targets /\ v.idle = w.idle
<1>1. w \in CreatureWorld /\ m \in Creature /\ m \notin Hunter
  BY Kinds DEF Core
<1>2. /\ v \in CreatureWorld /\ SameAnchors(w, v) /\ v.targets = w.targets /\ v.idle = w.idle
      /\ Keeps(w, v) /\ v.refs = w.refs /\ v.checked = [w.checked EXCEPT ![m] = FALSE]
  <2> DEFINE u == [w EXCEPT !.checked[m] = FALSE]
  <2>1. u \in CreatureWorld
    BY <1>1 DEF CreatureWorld
  <2>2. /\ SameAnchors(w, u) /\ u.targets = w.targets /\ u.idle = w.idle
        /\ Keeps(w, u) /\ u.refs = w.refs /\ u.checked = [w.checked EXCEPT ![m] = FALSE]
    BY <1>1 DEF CreatureWorld, SameAnchors, Keeps
  <2> HIDE DEF u
  <2>3. v = u
    BY DEF u, RemoveCreatureCheck
  <2> QED BY <2>1, <2>2, <2>3
<1>3. Counted(v)
  <2>1. \A x \in Creature : Anchors(v, x) = Anchors(w, x)
    BY <1>2 DEF Anchors, SameAnchors
  <2>2. \A x \in Creature : Holders(v, x) = Holders(w, x) + Anchors(v, x) - Anchors(w, x)
    BY <1>1, <1>2, AnchorsCount DEF Keeps
  <2>3. \A x \in Creature : Holders(v, x) = Holders(w, x)
    BY <1>1, <2>1, <2>2, HoldersOf
  <2> QED BY <1>2, <2>3 DEF Core, Counted
<1>4. Tied(v) /\ Apart(v)
  BY <1>2 DEF Core, Tied, Apart, Keeps
<1>5. Staged(v)
  BY <1>1, <1>2 DEF Core, Staged, Keeps, Clean, CreatureWorld
<1>6. Watched(v, X, Y)
  BY <1>1, <1>2 DEF Watched, Watches, Placed, Alive, SameAnchors, Keeps, CreatureWorld
<1> QED BY <1>2, <1>3, <1>4, <1>5, <1>6 DEF Core

\* A monster decides to be idle or not; what follows of it is still to be done.
Idles(w, v, m, b) ==
  /\ v \in CreatureWorld /\ SameLives(w, v) /\ v.targets = w.targets /\ v.refs = w.refs
  /\ v.idle = [w.idle EXCEPT ![m] = b]

\* So does the assignment of isIdle.
LEMMA IdlesIs ==
  ASSUME NEW w, w \in CreatureWorld, NEW m \in Monster, NEW b \in BOOLEAN
  PROVE  Idles(w, [w EXCEPT !.idle[m] = b], m, b)
<1> DEFINE u == [w EXCEPT !.idle[m] = b]
<1>1. u \in CreatureWorld
  BY DEF CreatureWorld
<1>2. u.targets = w.targets /\ u.refs = w.refs /\ u.idle = [w.idle EXCEPT ![m] = b]
  BY DEF CreatureWorld
<1>3. SameAnchors(w, u)
  BY DEF CreatureWorld, SameAnchors
<1>4. u.dead = w.dead /\ u.checked = w.checked /\ u.master = w.master /\ u.summons = w.summons
  BY DEF CreatureWorld
<1> HIDE DEF u
<1>5. Idles(w, u, m, b)
  BY <1>1, <1>2, <1>3, <1>4 DEF Idles, SameLives
<1> QED BY <1>5 DEF u

\* The counts stay right while it decides, and everyone else is watched.
LEMMA IdleChanged ==
  ASSUME NEW w, Core(w), NEW X, NEW Y, Watched(w, X, Y), NEW m \in Monster,
         w.stage[m] # "free", NEW b \in BOOLEAN, NEW v, Idles(w, v, m, b)
  PROVE  Core(v) /\ Watched(v, X, Y \union {m}) /\ Keeps(w, v)
<1>1. w \in CreatureWorld
  BY DEF Core
<1>2. /\ v \in CreatureWorld /\ SameLives(w, v) /\ v.targets = w.targets
      /\ Keeps(w, v) /\ v.refs = w.refs /\ v.idle = [w.idle EXCEPT ![m] = b]
  BY DEF Idles, Keeps, SameLives, SameAnchors
<1>3. Counted(v)
  <2>1. \A x \in Creature : Anchors(v, x) = Anchors(w, x)
    BY <1>2 DEF Anchors, SameLives, SameAnchors
  <2>2. \A x \in Creature : Holders(v, x) = Holders(w, x) + Anchors(v, x) - Anchors(w, x)
    BY <1>1, <1>2, AnchorsCount DEF Keeps
  <2>3. \A x \in Creature : Holders(v, x) = Holders(w, x)
    BY <1>1, <2>1, <2>2, HoldersOf
  <2> QED BY <1>2, <2>3 DEF Core, Counted
<1>4. Tied(v) /\ Apart(v)
  BY <1>2 DEF Core, Tied, Apart, Keeps
<1>5. Staged(v)
  BY <1>1, <1>2 DEF Core, Staged, SameLives, SameAnchors, Clean, CreatureWorld
<1>6. Watched(v, X, Y \union {m})
  BY <1>1, <1>2 DEF Watched, Watches, Placed, Alive, SameLives, SameAnchors, CreatureWorld
<1> QED BY <1>2, <1>3, <1>4, <1>5, <1>6 DEF Core

\* Keeps goes on from step to step.
LEMMA KeepsOn ==
  ASSUME NEW u, NEW v, NEW w, Keeps(u, v), Keeps(v, w)
  PROVE  Keeps(u, w)
BY DEF Keeps

\* Who is forgotten stays on the map.
LEMMA ForgetsKeeps ==
  ASSUME NEW w, NEW v, NEW m, NEW G, Forgets(w, v, m, G)
  PROVE  Keeps(w, v)
BY DEF Keeps, Forgets, SameLives, SameAnchors

EmptyHanded(w, v, m) == v.targets = [w.targets EXCEPT ![m] = {}]

\* What setIdle leaves: a monster whose state is settled.
LEMMA IdleSet ==
  ASSUME NEW w, Core(w), NEW X, NEW m \in Monster, Watched(w, X, {m}),
         w.stage[m] # "free", NEW b \in BOOLEAN, NEW v, v = SetIdle(w, m, b)
  PROVE  /\ Core(v) /\ Watched(v, X, {}) /\ Keeps(w, v)
         /\ w.stage[m] = "placed" /\ ~w.dead[m] /\ b => EmptyHanded(w, v, m)
         /\ ~(w.stage[m] = "placed" /\ ~w.dead[m] /\ b) => v.targets = w.targets
         /\ w.stage[m] = "placed" /\ ~w.dead[m] /\ ~b => Watches(v, m)
<1>1. w \in CreatureWorld /\ m \in Creature /\ m \notin Hunter
  BY Kinds DEF Core
<1>2. w.stage[m] \in {"placed", "removed"}
  BY <1>1 DEF CreatureWorld
<1>3. CASE w.stage[m] = "removed" \/ w.dead[m]
  <2>1. v = w
    BY <1>3 DEF SetIdle
  <2>2. Watched(w, X, {})
    BY <1>1, <1>3 DEF Watched, Placed, Alive
  <2> QED BY <1>3, <2>1, <2>2 DEF Keeps
<1>4. CASE w.stage[m] = "placed" /\ ~w.dead[m] /\ b
  <2> DEFINE t == [w EXCEPT !.idle[m] = TRUE]
             u == ClearTargetList(t, m)
  <2>1. v = RemoveCreatureCheck(u, m)
    BY <1>4 DEF SetIdle
  <2>2. /\ Core(t) /\ Watched(t, X, {m}) /\ Keeps(w, t) /\ t.targets = w.targets
        /\ t.idle = [w.idle EXCEPT ![m] = TRUE]
    <3>1. Idles(w, t, m, TRUE)
      BY <1>1, IdlesIs
    <3> HIDE DEF t
    <3>2. Core(t) /\ Watched(t, X, {m} \union {m}) /\ Keeps(w, t)
      BY <3>1, IdleChanged
    <3>3. {m} \union {m} = {m}
      OBVIOUS
    <3> QED BY <3>1, <3>2, <3>3 DEF Idles
  <2> HIDE DEF t
  <2>3. Forgets(t, u, m, t.targets[m])
    <3>1. t \in CreatureWorld /\ t.targets[m] \subseteq t.targets[m]
      BY <2>2 DEF Core
    <3>2. Forgets(t, [Refer(t, t.targets[m], -1) EXCEPT !.targets[m] = @ \ t.targets[m]], m, t.targets[m])
      BY <3>1, ForgetsIs
    <3>3. Refer(t, t.targets[m], -1).targets[m] = t.targets[m]
      BY DEF Refer
    <3>4. [Refer(t, t.targets[m], -1) EXCEPT !.targets[m] = @ \ t.targets[m]] = u
      BY <3>3 DEF ClearTargetList
    <3> QED BY <3>2, <3>4
  <2> HIDE DEF u
  <2>4. Core(u) /\ Watched(u, X, {m}) /\ Keeps(t, u)
    BY <2>2, <2>3, Forgetting, ForgetsKeeps
  <2>5. u.targets = [w.targets EXCEPT ![m] = {}] /\ u.idle[m]
    BY <1>1, <2>2, <2>3, ZenonT(60) DEF Forgets, CreatureWorld
  <2>6. Watched(u, X, {})
    BY <1>1, <2>4, <2>5 DEF Watched, CreatureWorld
  <2>7. Keeps(w, u) /\ (u.stage[m] = "placed" => ~u.dead[m] /\ u.idle[m])
    BY <1>4, <2>2, <2>4, <2>5, KeepsOn DEF Keeps
  <2>8. Core(v) /\ Watched(v, X, {}) /\ Keeps(u, v) /\ v.targets = u.targets
    BY <2>1, <2>4, <2>6, <2>7, CheckRemoved
  <2> QED BY <1>4, <2>5, <2>7, <2>8, KeepsOn DEF EmptyHanded
<1>5. CASE w.stage[m] = "placed" /\ ~w.dead[m] /\ ~b
  <2> DEFINE t == [w EXCEPT !.idle[m] = FALSE]
  <2>1. v = AddCreatureCheck(t, m)
    BY <1>5 DEF SetIdle
  <2>2. /\ Core(t) /\ Watched(t, X, {m}) /\ Keeps(w, t) /\ t.targets = w.targets
        /\ t.idle = [w.idle EXCEPT ![m] = FALSE]
    <3>1. Idles(w, t, m, FALSE)
      BY <1>1, IdlesIs
    <3> HIDE DEF t
    <3>2. Core(t) /\ Watched(t, X, {m} \union {m}) /\ Keeps(w, t)
      BY <3>1, IdleChanged
    <3>3. {m} \union {m} = {m}
      OBVIOUS
    <3> QED BY <3>1, <3>2, <3>3 DEF Idles
  <2> HIDE DEF t
  <2>3. t.stage[m] = "placed"
    BY <1>5, <2>2 DEF Keeps
  <2>4. /\ Core(v) /\ Watched(v, X \ {m}, {m}) /\ Keeps(t, v)
        /\ v.targets = t.targets /\ v.idle = t.idle /\ Watches(v, m)
    BY <1>1, <2>1, <2>2, <2>3, CheckAdded
  <2>5. v.idle[m] = FALSE
    BY <1>1, <2>2, <2>4 DEF CreatureWorld
  <2>6. Watched(v, X, {})
    BY <2>4, <2>5 DEF Watched
  <2> QED BY <1>5, <2>2, <2>4, <2>6, KeepsOn
<1> QED BY <1>2, <1>3, <1>4, <1>5

\* Monsters may give up whom they seek, and begin to seek opponents on the map.
Glance(w, v) ==
  /\ Keeps(w, v)
  /\ \A m \in Monster : \A c \in v.targets[m] :
       \/ c \in w.targets[m]
       \/ w.stage[m] = "placed" /\ w.stage[c] = "placed" /\ IsOpponent(w, m, c)
\* A world that came out of w by looking about.
Seen(w, v, X) == Core(v) /\ Watched(v, X, {}) /\ Glance(w, v)

\* A glance after a glance is a glance.
LEMMA GlanceOn ==
  ASSUME NEW u, NEW v, NEW w, Glance(u, v), Glance(v, w)
  PROVE  Glance(u, w)
BY DEF Glance, Keeps, IsOpponent

\* Whoever has targets is awake, once updateIdleStatus has seen to it.
LEMMA IdleUpdated ==
  ASSUME NEW w, Core(w), NEW X, NEW m \in Monster, Watched(w, X, {m}),
         w.stage[m] # "free", NEW asleep
  PROVE  /\ Seen(w, UpdateIdle(w, m, asleep), X)
         /\ \A x \in Monster : UpdateIdle(w, m, asleep).targets[x] \subseteq w.targets[x]
<1> DEFINE b == m \in asleep /\ (w.master[m] # None \/ w.targets[m] = {})
           v == UpdateIdle(w, m, asleep)
<1>1. v = SetIdle(w, m, b) /\ b \in BOOLEAN
  BY DEF UpdateIdle
<1> HIDE DEF b, v
<1>2. Core(v) /\ Watched(v, X, {}) /\ Keeps(w, v)
  BY <1>1, IdleSet
<1>3. EmptyHanded(w, v, m) \/ v.targets = w.targets
  BY <1>1, IdleSet
<1>4. \A x \in Monster : v.targets[x] \subseteq w.targets[x]
  BY <1>3 DEF Core, CreatureWorld, EmptyHanded
<1>5. Seen(w, v, X)
  BY <1>2, <1>4 DEF Seen, Glance
<1> QED BY <1>4, <1>5 DEF v

\* Opponents are not one's own summons.
LEMMA OpponentsApart ==
  ASSUME NEW w, Core(w), NEW m \in Monster, NEW c \in Creature, IsOpponent(w, m, c)
  PROVE  c \notin w.summons[m]
<1>1. w \in CreatureWorld /\ Tied(w) /\ m \in Creature
  BY Kinds DEF Core
<1>2. CASE c \in Hunter
  BY <1>1, <1>2, Kinds DEF CreatureWorld
<1>3. CASE w.master[m] \in Hunter
  BY <1>1, <1>3, Kinds DEF Tied
<1>4. CASE c \notin Hunter /\ w.master[c] \in Hunter
  <2>1. c \in Monster
    BY <1>4, Kinds
  <2>2. w.master[c] # m
    BY <1>4, Kinds
  <2> QED BY <1>1, <2>1, <2>2 DEF Tied
<1> QED BY <1>2, <1>3, <1>4 DEF IsOpponent

\* onCreatureFound, by a monster on the map: it may have given c up a moment before.
LEMMA FoundSeen ==
  ASSUME NEW w, NEW u, NEW X, Seen(w, u, X), NEW m \in Monster, w.stage[m] = "placed",
         NEW c \in Creature, c # m, w.stage[c] = "placed" \/ (w.stage[c] = "removed" /\ c \in w.targets[m]),
         NEW asleep
  PROVE  /\ Seen(w, Found(u, m, c, asleep), X)
         /\ \A x \in Monster : Found(u, m, c, asleep).targets[x] \subseteq u.targets[x] \union {c}
<1>1. Core(u) /\ u \in CreatureWorld /\ Watched(u, X, {}) /\ Glance(w, u)
  BY DEF Seen, Core
<1>2. u.stage[m] = "placed" /\ u.stage[c] # "free"
  BY <1>1 DEF Glance, Keeps
<1>3. Watched(u, X, {m})
  BY <1>1 DEF Watched
<1>4. CASE ~IsOpponent(u, m, c) \/ c \in u.targets[m]
  <2>1. Found(u, m, c, asleep) = UpdateIdle(u, m, asleep)
    BY <1>4 DEF Found
  <2>2. /\ Seen(u, Found(u, m, c, asleep), X)
        /\ \A x \in Monster : Found(u, m, c, asleep).targets[x] \subseteq u.targets[x]
    BY <1>1, <1>2, <1>3, <2>1, IdleUpdated
  <2> QED BY <1>1, <2>2, GlanceOn DEF Seen
<1>5. CASE IsOpponent(u, m, c) /\ c \notin u.targets[m]
  <2> DEFINE v == [Refer(u, {c}, 1) EXCEPT !.targets[m] = @ \union {c}]
             x == UpdateIdle(v, m, asleep)
  <2>1. Found(u, m, c, asleep) = x
    BY <1>5 DEF Found
  <2>2. Seeks(u, v, m, c)
    BY <1>1, SeeksIs
  <2> HIDE DEF v
  <2>3. c \notin u.summons[m]
    BY <1>1, <1>5, OpponentsApart
  <2>4. Core(v) /\ Watched(v, X, {} \union {m})
    BY <1>1, <1>2, <1>5, <2>2, <2>3, Seeking
  <2>5. Watched(v, X, {m}) /\ v.stage[m] # "free"
    <3>1. {} \union {m} = {m}
      OBVIOUS
    <3> QED BY <1>2, <2>2, <2>4, <3>1 DEF Seeks, SameLives, SameAnchors
  <2>6. Seen(v, x, X) /\ \A y \in Monster : x.targets[y] \subseteq v.targets[y]
    BY <2>4, <2>5, IdleUpdated
  <2> HIDE DEF x
  <2>7. Keeps(u, v)
    BY <2>2 DEF Keeps, Seeks, SameLives, SameAnchors
  <2>8. \A y \in Monster : \A z \in v.targets[y] : z \in u.targets[y] \/ (y = m /\ z = c)
    BY <1>1, <2>2 DEF Seeks, CreatureWorld
  <2>9. IsOpponent(w, m, c)
    BY <1>1, <1>5 DEF Glance, Keeps, IsOpponent
  <2>10. Glance(w, v)
    <3>1. Keeps(w, v)
      BY <1>1, <2>7, KeepsOn DEF Glance
    <3> QED BY <1>1, <2>8, <2>9, <3>1 DEF Glance
  <2>11. Glance(w, x)
    BY <2>6, <2>10, GlanceOn DEF Seen
  <2>12. \A y \in Monster : x.targets[y] \subseteq u.targets[y] \union {c}
    BY <2>6, <2>8
  <2> QED BY <2>1, <2>6, <2>11, <2>12 DEF Seen
<1> QED BY <1>4, <1>5

\* onCreatureLeave.
LEMMA LeftSeen ==
  ASSUME NEW w, NEW u, NEW X, Seen(w, u, X), NEW m \in Monster, w.stage[m] # "free",
         NEW c \in Creature, NEW asleep
  PROVE  /\ Seen(w, Left(u, m, c, asleep), X)
         /\ IsOpponent(w, m, c) => c \notin Left(u, m, c, asleep).targets[m]
         /\ \A x \in Monster : Left(u, m, c, asleep).targets[x] \subseteq u.targets[x]
<1>1. Core(u) /\ u \in CreatureWorld /\ Watched(u, X, {}) /\ Glance(w, u)
  BY DEF Seen, Core
<1>2. u.stage[m] # "free" /\ (IsOpponent(w, m, c) <=> IsOpponent(u, m, c))
  BY <1>1 DEF Glance, Keeps, IsOpponent
<1>3. CASE ~IsOpponent(u, m, c) \/ c \notin u.targets[m]
  <2>1. Left(u, m, c, asleep) = u
    BY <1>3 DEF Left
  <2> QED BY <1>2, <1>3, <2>1
<1>4. CASE IsOpponent(u, m, c) /\ c \in u.targets[m]
  <2> DEFINE v == [Refer(u, {c}, -1) EXCEPT !.targets[m] = @ \ {c}]
             x == UpdateIdle(v, m, asleep)
             z == Left(u, m, c, asleep)
  <2>1. z = IF v.targets[m] = {} THEN x ELSE v
    BY <1>4 DEF Left
  <2>2. Forgets(u, v, m, {c})
    BY <1>1, <1>4, ForgetsIs
  <2> HIDE DEF v
  <2>3. Core(v) /\ Watched(v, X, {}) /\ Keeps(u, v)
    BY <1>1, <1>4, <2>2, Forgetting, ForgetsKeeps
  <2>4. \A y \in Monster : v.targets[y] \subseteq u.targets[y]
    BY <1>1, <2>2 DEF Forgets, CreatureWorld
  <2>5. c \notin v.targets[m]
    BY <1>1, <2>2 DEF Forgets, CreatureWorld
  <2>6. Glance(u, v)
    BY <2>3, <2>4 DEF Glance
  <2>7. Glance(w, v)
    BY <1>1, <2>6, GlanceOn
  <2>8. Watched(v, X, {m}) /\ v.stage[m] # "free"
    BY <1>2, <2>3 DEF Watched, Keeps
  <2>9. Seen(v, x, X)
    BY <2>3, <2>8, IdleUpdated
  <2>10. \A y \in Monster : x.targets[y] \subseteq v.targets[y]
    BY <2>3, <2>8, IdleUpdated
  <2> HIDE DEF x
  <2>11. Glance(w, x)
    BY <2>7, <2>9, GlanceOn DEF Seen
  <2>12. Seen(w, v, X) /\ Seen(w, x, X)
    BY <2>3, <2>7, <2>9, <2>11 DEF Seen
  <2>13. z = v \/ z = x
    BY <2>1
  <2> HIDE DEF z
  <2>14. /\ Seen(w, z, X) /\ c \notin z.targets[m]
         /\ \A y \in Monster : z.targets[y] \subseteq u.targets[y]
    BY <2>4, <2>5, <2>10, <2>12, <2>13
  <2> QED BY <2>14 DEF z
<1> QED BY <1>3, <1>4

\* FoundBy, of what Found keeps.
LEMMA FoundByKeeps ==
  ASSUME NEW w, NEW M, NEW c, NEW asleep, IsFiniteSet(M), NEW G, w \in G[{}],
         \A T \in (SUBSET M) \ {{}} : \A x \in T : \A v \in G[T \ {x}] :
           Found(v, x, c, asleep) \in G[T]
  PROVE  FoundBy(w, M, c, asleep) \in G[M]
<1> DEFINE pick == Chosen(M)
           step == [T \in SUBSET M |-> [v \in G[T \ {pick[T]}] |-> Found(v, pick[T], c, asleep)]]
           E(f) == [T \in SUBSET M |-> IF T = {} THEN w
                      ELSE Found(f[T \ {CHOOSE x \in T : TRUE}], CHOOSE x \in T : TRUE, c, asleep)]
           iter == CHOOSE f : f = E(f)
<1>1. FoundBy(w, M, c, asleep) = iter[M]
  BY DEF FoundBy, FoldSet, MapThenFoldSet
<1>2. \A T \in (SUBSET M) \ {{}} : pick[T] = (CHOOSE x \in T : TRUE) /\ pick[T] \in T
  BY Choosing DEF Picks, Chosen
<1>3. \A T \in (SUBSET M) \ {{}} : \A v \in G[T \ {pick[T]}] :
        step[T][v] = Found(v, pick[T], c, asleep)
  OBVIOUS
<1> HIDE DEF pick, step
<1>4. Picks(pick, M) /\ StepsIn(step, pick, M, G)
  <2>1. ASSUME NEW T \in (SUBSET M) \ {{}}, NEW v \in G[T \ {pick[T]}]
        PROVE  step[T][v] \in G[T]
    <3>1. pick[T] \in T
      BY <1>2
    <3> QED BY <1>3, <3>1
  <2>2. Picks(pick, M)
    BY <1>2 DEF Picks
  <2> QED BY <2>1, <2>2 DEF StepsIn
<1>5. iter = E(iter)
  <2>1. PICK f : /\ f = [T \in SUBSET M |-> f[T]]
                 /\ FoldsTo(f, M, w, pick, step) /\ ValuesIn(f, M, G)
    BY <1>4, FoldExists
  <2>2. ASSUME NEW T \in (SUBSET M) \ {{}}
        PROVE  f[T] = Found(f[T \ {pick[T]}], pick[T], c, asleep)
    <3>1. T \in SUBSET M /\ T # {} /\ T \ {pick[T]} \in SUBSET M
      OBVIOUS
    <3>2. f[T \ {pick[T]}] \in G[T \ {pick[T]}]
      BY <2>1, <3>1 DEF ValuesIn
    <3>3. f[T] = step[T][f[T \ {pick[T]}]]
      BY <2>1, <3>1 DEF FoldsTo
    <3> QED BY <3>1, <3>2, <3>3, <1>3
  <2>3. f = E(f)
    BY <2>1, <2>2, <1>2 DEF FoldsTo
  <2> QED BY <2>3, ZenonT(30)
<1>6. /\ iter[{}] = w
      /\ \A T \in (SUBSET M) \ {{}} : iter[T] = Found(iter[T \ {pick[T]}], pick[T], c, asleep)
  BY <1>2, <1>5
<1> HIDE DEF iter
<1>7. Follows(iter, M, G, pick, step)
  BY <1>3, <1>6 DEF Follows
<1>8. iter[M] \in G[M]
  BY <1>4, <1>6, <1>7, FoldStays
<1> QED BY <1>1, <1>8

\* LeftBy, of what Left keeps.
LEMMA LeftByKeeps ==
  ASSUME NEW w, NEW M, NEW c, NEW asleep, IsFiniteSet(M), NEW G, w \in G[{}],
         \A T \in (SUBSET M) \ {{}} : \A x \in T : \A v \in G[T \ {x}] :
           Left(v, x, c, asleep) \in G[T]
  PROVE  LeftBy(w, M, c, asleep) \in G[M]
<1> DEFINE pick == Chosen(M)
           step == [T \in SUBSET M |-> [v \in G[T \ {pick[T]}] |-> Left(v, pick[T], c, asleep)]]
           E(f) == [T \in SUBSET M |-> IF T = {} THEN w
                      ELSE Left(f[T \ {CHOOSE x \in T : TRUE}], CHOOSE x \in T : TRUE, c, asleep)]
           iter == CHOOSE f : f = E(f)
<1>1. LeftBy(w, M, c, asleep) = iter[M]
  BY DEF LeftBy, FoldSet, MapThenFoldSet
<1>2. \A T \in (SUBSET M) \ {{}} : pick[T] = (CHOOSE x \in T : TRUE) /\ pick[T] \in T
  BY Choosing DEF Picks, Chosen
<1>3. \A T \in (SUBSET M) \ {{}} : \A v \in G[T \ {pick[T]}] :
        step[T][v] = Left(v, pick[T], c, asleep)
  OBVIOUS
<1> HIDE DEF pick, step
<1>4. Picks(pick, M) /\ StepsIn(step, pick, M, G)
  <2>1. ASSUME NEW T \in (SUBSET M) \ {{}}, NEW v \in G[T \ {pick[T]}]
        PROVE  step[T][v] \in G[T]
    <3>1. pick[T] \in T
      BY <1>2
    <3> QED BY <1>3, <3>1
  <2>2. Picks(pick, M)
    BY <1>2 DEF Picks
  <2> QED BY <2>1, <2>2 DEF StepsIn
<1>5. iter = E(iter)
  <2>1. PICK f : /\ f = [T \in SUBSET M |-> f[T]]
                 /\ FoldsTo(f, M, w, pick, step) /\ ValuesIn(f, M, G)
    BY <1>4, FoldExists
  <2>2. ASSUME NEW T \in (SUBSET M) \ {{}}
        PROVE  f[T] = Left(f[T \ {pick[T]}], pick[T], c, asleep)
    <3>1. T \in SUBSET M /\ T # {} /\ T \ {pick[T]} \in SUBSET M
      OBVIOUS
    <3>2. f[T \ {pick[T]}] \in G[T \ {pick[T]}]
      BY <2>1, <3>1 DEF ValuesIn
    <3>3. f[T] = step[T][f[T \ {pick[T]}]]
      BY <2>1, <3>1 DEF FoldsTo
    <3> QED BY <3>1, <3>2, <3>3, <1>3
  <2>3. f = E(f)
    BY <2>1, <2>2, <1>2 DEF FoldsTo
  <2> QED BY <2>3, ZenonT(30)
<1>6. /\ iter[{}] = w
      /\ \A T \in (SUBSET M) \ {{}} : iter[T] = Left(iter[T \ {pick[T]}], pick[T], c, asleep)
  BY <1>2, <1>5
<1> HIDE DEF iter
<1>7. Follows(iter, M, G, pick, step)
  BY <1>3, <1>6 DEF Follows
<1>8. iter[M] \in G[M]
  BY <1>4, <1>6, <1>7, FoldStays
<1> QED BY <1>1, <1>8

\* Those of M find c.
LEMMA FoundBySeen ==
  ASSUME NEW w, NEW X, Core(w), Watched(w, X, {}), NEW c \in Creature, w.stage[c] = "placed",
         NEW M \in SUBSET Monster, c \notin M, \A m \in M : w.stage[m] = "placed", NEW asleep
  PROVE  Seen(w, FoundBy(w, M, c, asleep), X)
<1> DEFINE V == {u \in CreatureWorld : Seen(w, u, X)}
           G == [T \in SUBSET M |-> V]
<1>1. IsFiniteSet(M)
  BY Kinds, FS_Subset
<1>2. w \in G[{}]
  BY DEF Seen, Glance, Keeps, Core
<1>3. ASSUME NEW m \in M, NEW v \in V PROVE Found(v, m, c, asleep) \in V
  <2>1. Seen(w, v, X)
    OBVIOUS
  <2> HIDE DEF V, G
  <2>2. m \in Monster /\ w.stage[m] = "placed"
    OBVIOUS
  <2>3. c # m
    OBVIOUS
  <2>4. w.stage[c] = "placed" \/ (w.stage[c] = "removed" /\ c \in w.targets[m])
    OBVIOUS
  <2>5. /\ Seen(w, Found(v, m, c, asleep), X)
        /\ \A x \in Monster : Found(v, m, c, asleep).targets[x] \subseteq v.targets[x] \union {c}
    BY <2>1, <2>2, <2>3, <2>4, FoundSeen
  <2> QED BY <2>5 DEF Seen, Core, V
<1>4. FoundBy(w, M, c, asleep) \in G[M]
  <2>1. ASSUME NEW T \in (SUBSET M) \ {{}}, NEW x \in T, NEW v \in G[T \ {x}]
        PROVE  Found(v, x, c, asleep) \in G[T]
    <3> HIDE DEF V
    <3>1. x \in M /\ v \in V
      OBVIOUS
    <3>2. G[T] = V
      OBVIOUS
    <3> QED BY <3>1, <3>2, <1>3
  <2> HIDE DEF G
  <2> QED BY <1>1, <1>2, <2>1, FoundByKeeps
<1> QED BY <1>4

\* c leaves the sight of those of M, who forget it if they fought it.
LEMMA LeftBySeen ==
  ASSUME NEW w, NEW X, Core(w), Watched(w, X, {}), NEW c \in Creature,
         NEW M \in SUBSET Monster, \A m \in M : w.stage[m] # "free", NEW asleep
  PROVE  /\ Seen(w, LeftBy(w, M, c, asleep), X)
         /\ \A x \in Monster : LeftBy(w, M, c, asleep).targets[x] \subseteq w.targets[x]
         /\ \A m \in M : IsOpponent(w, m, c) => c \notin LeftBy(w, M, c, asleep).targets[m]
<1> DEFINE Lost(u, T) ==
             /\ Seen(w, u, X) /\ \A x \in Monster : u.targets[x] \subseteq w.targets[x]
             /\ \A m \in T : IsOpponent(w, m, c) => c \notin u.targets[m]
           G == [T \in SUBSET M |-> {u \in CreatureWorld : Lost(u, T)}]
<1>1. IsFiniteSet(M)
  BY Kinds, FS_Subset
<1>2. w \in G[{}]
  BY DEF Seen, Glance, Keeps, Core
<1>3. ASSUME NEW T \in (SUBSET M) \ {{}}, NEW m \in T, NEW v, Lost(v, T \ {m})
      PROVE  Lost(Left(v, m, c, asleep), T)
  <2>1. m \in Monster /\ w.stage[m] # "free"
    OBVIOUS
  <2>2. Seen(w, v, X)
    BY <1>3
  <2>3. /\ Seen(w, Left(v, m, c, asleep), X)
        /\ IsOpponent(w, m, c) => c \notin Left(v, m, c, asleep).targets[m]
        /\ \A x \in Monster : Left(v, m, c, asleep).targets[x] \subseteq v.targets[x]
    BY <2>1, <2>2, LeftSeen
  <2> QED BY <1>3, <2>1, <2>3
<1>4. LeftBy(w, M, c, asleep) \in G[M]
  <2>1. ASSUME NEW T \in (SUBSET M) \ {{}}, NEW x \in T, NEW v \in G[T \ {x}]
        PROVE  Left(v, x, c, asleep) \in G[T]
    <3>1. Lost(v, T \ {x})
      <4> HIDE DEF Lost
      <4> QED OBVIOUS
    <3>2. Lost(Left(v, x, c, asleep), T)
      BY <1>3, <3>1
    <3>3. Left(v, x, c, asleep) \in CreatureWorld
      BY <3>2 DEF Seen, Core
    <3> HIDE DEF Lost
    <3> QED BY <3>2, <3>3
  <2> HIDE DEF G
  <2> QED BY <1>1, <1>2, <2>1, LeftByKeeps
<1>5. Lost(LeftBy(w, M, c, asleep), M)
  <2> HIDE DEF Lost
  <2> QED BY <1>4
<1> QED BY <1>5

\* Those of V that are found by m.
LookedAt(w, m, V, asleep) == FoldSet(LAMBDA c, u : Found(u, m, c, asleep), w, V)
\* LookedAt, of what Found keeps.
LEMMA LookedAtKeeps ==
  ASSUME NEW w, NEW V, NEW m, NEW asleep, IsFiniteSet(V), NEW G, w \in G[{}],
         \A T \in (SUBSET V) \ {{}} : \A x \in T : \A v \in G[T \ {x}] :
           Found(v, m, x, asleep) \in G[T]
  PROVE  LookedAt(w, m, V, asleep) \in G[V]
<1> DEFINE pick == Chosen(V)
           step == [T \in SUBSET V |-> [v \in G[T \ {pick[T]}] |-> Found(v, m, pick[T], asleep)]]
           E(f) == [T \in SUBSET V |-> IF T = {} THEN w
                      ELSE Found(f[T \ {CHOOSE x \in T : TRUE}], m, CHOOSE x \in T : TRUE, asleep)]
           iter == CHOOSE f : f = E(f)
<1>1. LookedAt(w, m, V, asleep) = iter[V]
  BY DEF LookedAt, FoldSet, MapThenFoldSet
<1>2. \A T \in (SUBSET V) \ {{}} : pick[T] = (CHOOSE x \in T : TRUE) /\ pick[T] \in T
  BY Choosing DEF Picks, Chosen
<1>3. \A T \in (SUBSET V) \ {{}} : \A v \in G[T \ {pick[T]}] :
        step[T][v] = Found(v, m, pick[T], asleep)
  OBVIOUS
<1> HIDE DEF pick, step
<1>4. Picks(pick, V) /\ StepsIn(step, pick, V, G)
  <2>1. ASSUME NEW T \in (SUBSET V) \ {{}}, NEW v \in G[T \ {pick[T]}]
        PROVE  step[T][v] \in G[T]
    <3>1. pick[T] \in T
      BY <1>2
    <3> QED BY <1>3, <3>1
  <2>2. Picks(pick, V)
    BY <1>2 DEF Picks
  <2> QED BY <2>1, <2>2 DEF StepsIn
<1>5. iter = E(iter)
  <2>1. PICK f : /\ f = [T \in SUBSET V |-> f[T]]
                 /\ FoldsTo(f, V, w, pick, step) /\ ValuesIn(f, V, G)
    BY <1>4, FoldExists
  <2>2. ASSUME NEW T \in (SUBSET V) \ {{}}
        PROVE  f[T] = Found(f[T \ {pick[T]}], m, pick[T], asleep)
    <3>1. T \in SUBSET V /\ T # {} /\ T \ {pick[T]} \in SUBSET V
      OBVIOUS
    <3>2. f[T \ {pick[T]}] \in G[T \ {pick[T]}]
      BY <2>1, <3>1 DEF ValuesIn
    <3>3. f[T] = step[T][f[T \ {pick[T]}]]
      BY <2>1, <3>1 DEF FoldsTo
    <3> QED BY <3>1, <3>2, <3>3, <1>3
  <2>3. f = E(f)
    BY <2>1, <2>2, <1>2 DEF FoldsTo
  <2> QED BY <2>3, ZenonT(30)
<1>6. /\ iter[{}] = w
      /\ \A T \in (SUBSET V) \ {{}} : iter[T] = Found(iter[T \ {pick[T]}], m, pick[T], asleep)
  BY <1>2, <1>5
<1> HIDE DEF iter
<1>7. Follows(iter, V, G, pick, step)
  BY <1>3, <1>6 DEF Follows
<1>8. iter[V] \in G[V]
  BY <1>4, <1>6, <1>7, FoldStays
<1> QED BY <1>1, <1>8

\* updateTargetList.
LEMMA LookSeen ==
  ASSUME NEW w, NEW X, Core(w), Watched(w, X, {}), NEW m \in Monster, w.stage[m] = "placed",
         NEW V \in SUBSET Creature, m \notin V,
         \A c \in V : w.stage[c] = "placed" \/ (w.stage[c] = "removed" /\ c \in w.targets[m]),
         NEW asleep
  PROVE  /\ Seen(w, Look(w, m, V, asleep), X)
         /\ Look(w, m, V, asleep).targets[m] \subseteq V
<1> DEFINE gone == {c \in w.targets[m] : w.dead[c] \/ c \notin V}
           v == [Refer(w, gone, -1) EXCEPT !.targets[m] = @ \ gone]
           u == LookedAt(v, m, V, asleep)
           z == UpdateIdle(u, m, asleep)
<1>1. Look(w, m, V, asleep) = z
  BY DEF Look, LookedAt
<1>2. w \in CreatureWorld
  BY DEF Core
<1>3. Forgets(w, v, m, gone)
  <2>1. gone \subseteq w.targets[m]
    OBVIOUS
  <2> HIDE DEF gone
  <2> QED BY <1>2, <2>1, ForgetsIs
<1>4. v.targets[m] \subseteq V
  <2> HIDE DEF v
  <2> QED BY <1>2, <1>3 DEF Forgets, CreatureWorld
<1>5. Core(v) /\ Watched(v, X, {}) /\ Glance(w, v)
  <2>1. gone \subseteq w.targets[m]
    OBVIOUS
  <2> HIDE DEF v, gone
  <2>2. Core(v) /\ Watched(v, X, {})
    BY <1>3, <2>1, Forgetting
  <2>3. \A y \in Monster : v.targets[y] \subseteq w.targets[y]
    BY <1>2, <1>3 DEF Forgets, CreatureWorld
  <2>4. Keeps(w, v)
    BY <1>3, ForgetsKeeps
  <2> QED BY <2>2, <2>3, <2>4 DEF Glance
<1> HIDE DEF v, gone
<1> DEFINE H == {t \in CreatureWorld : Seen(w, t, X) /\ t.targets[m] \subseteq V}
           G == [T \in SUBSET V |-> H]
<1>6. v \in H
  BY <1>4, <1>5 DEF Seen, Core
<1>7. ASSUME NEW c \in V, NEW t \in H PROVE Found(t, m, c, asleep) \in H
  <2>1. c \in Creature /\ c # m /\ Seen(w, t, X)
        /\ (w.stage[c] = "placed" \/ (w.stage[c] = "removed" /\ c \in w.targets[m]))
    OBVIOUS
  <2>2. /\ Seen(w, Found(t, m, c, asleep), X)
        /\ \A x \in Monster : Found(t, m, c, asleep).targets[x] \subseteq t.targets[x] \union {c}
    <3> HIDE DEF H, G
    <3> QED BY <2>1, FoundSeen
  <2> QED BY <2>2 DEF Seen, Core
<1>8. u \in G[V]
  <2>1. IsFiniteSet(V)
    BY Kinds, FS_Subset
  <2>2. v \in G[{}]
    BY <1>6
  <2>3. ASSUME NEW T \in (SUBSET V) \ {{}}, NEW x \in T, NEW t \in G[T \ {x}]
        PROVE  Found(t, m, x, asleep) \in G[T]
    <3> HIDE DEF H
    <3>1. x \in V /\ t \in H /\ G[T] = H
      OBVIOUS
    <3> QED BY <3>1, <1>7
  <2> HIDE DEF G
  <2> QED BY <2>1, <2>2, <2>3, LookedAtKeeps
<1>9. Core(u) /\ Watched(u, X, {}) /\ Glance(w, u) /\ u.targets[m] \subseteq V
  <2>1. u \in H
    BY <1>8
  <2> HIDE DEF u
  <2> QED BY <2>1 DEF Seen
<1> HIDE DEF u, G, H
<1>10. Watched(u, X, {m}) /\ u.stage[m] # "free"
  BY <1>9 DEF Watched, Glance, Keeps
<1>11. /\ Seen(u, UpdateIdle(u, m, asleep), X)
       /\ \A x \in Monster : UpdateIdle(u, m, asleep).targets[x] \subseteq u.targets[x]
  BY <1>9, <1>10, IdleUpdated
<1> HIDE DEF z
<1>12. Seen(w, z, X) /\ z.targets[m] \subseteq V
  BY <1>9, <1>11, GlanceOn DEF z, Seen
<1> QED BY <1>1, <1>12

\* Nothing changes but masters, summons and references.
SameSights(w, v) ==
  /\ SameAnchors(w, v) /\ v.dead = w.dead /\ v.checked = w.checked
  /\ v.idle = w.idle /\ v.targets = w.targets
\* A creature becomes the master of m, or is no more.
Commands(w, v, c, m) ==
  /\ v \in CreatureWorld /\ SameSights(w, v)
  /\ v.master = [w.master EXCEPT ![m] = c]
  /\ v.summons = [w.summons EXCEPT ![c] = @ \union {m}]
  /\ \A x \in Creature : v.refs[x] = w.refs[x] + (IF x = m THEN 1 ELSE 0)
Dismisses(w, v, c, m) ==
  /\ v \in CreatureWorld /\ SameSights(w, v)
  /\ v.master = [w.master EXCEPT ![m] = None]
  /\ v.summons = [w.summons EXCEPT ![c] = @ \ {m}]
  /\ \A x \in Creature : v.refs[x] = w.refs[x] - (IF x = m THEN 1 ELSE 0)

\* AddSummon does so.
LEMMA CommandsIs ==
  ASSUME NEW w, w \in CreatureWorld, NEW c \in Creature, NEW m \in Monster
  PROVE  Commands(w, AddSummon(w, c, m), c, m)
<1> DEFINE r == Refer(w, {m}, 1)
           v == [r EXCEPT !.master[m] = c, !.summons[c] = @ \union {m}]
<1>0. Refers(w, r, {m}, 1) /\ m \in Creature
  BY Referring, Kinds
<1> HIDE DEF r
<1>1. r \in CreatureWorld /\ r = [w EXCEPT !.refs = r.refs]
  BY <1>0 DEF Refers
<1>2. \A x \in Creature : w.refs[x] \in Int /\ r.refs[x] = w.refs[x] + (IF x = m THEN 1 ELSE 0)
  BY <1>0 DEF CreatureWorld, Refers
<1>3. v \in CreatureWorld
  BY <1>1 DEF CreatureWorld
<1>4. /\ SameSights(w, v) /\ v.refs = r.refs
      /\ v.master = [w.master EXCEPT ![m] = c]
      /\ v.summons = [w.summons EXCEPT ![c] = @ \union {m}]
  BY <1>1 DEF CreatureWorld, SameSights, SameAnchors
<1>5. AddSummon(w, c, m) = v
  BY DEF AddSummon, r
<1> HIDE DEF v
<1>6. Commands(w, v, c, m)
  BY <1>2, <1>3, <1>4 DEF Commands
<1> QED BY <1>5, <1>6

\* RemoveSummon does so.
LEMMA DismissesIs ==
  ASSUME NEW w, w \in CreatureWorld, NEW c \in Creature, NEW m \in w.summons[c]
  PROVE  Dismisses(w, RemoveSummon(w, c, m), c, m)
<1> DEFINE r == Refer(w, {m}, -1)
           v == [r EXCEPT !.master[m] = None, !.summons[c] = @ \ {m}]
<1>0. m \in Monster /\ m \in Creature
  BY Kinds DEF CreatureWorld
<1>00. Refers(w, r, {m}, -1)
  <2>1. {m} \in SUBSET Creature /\ -1 \in Int
    BY <1>0
  <2> QED BY <2>1, Referring
<1> HIDE DEF r
<1>1. r \in CreatureWorld /\ r = [w EXCEPT !.refs = r.refs]
  BY <1>00 DEF Refers
<1>2. \A x \in Creature : w.refs[x] \in Int /\ r.refs[x] = w.refs[x] - (IF x = m THEN 1 ELSE 0)
  BY <1>00 DEF CreatureWorld, Refers
<1>3. v \in CreatureWorld
  BY <1>0, <1>1 DEF CreatureWorld
<1>4. /\ SameSights(w, v) /\ v.refs = r.refs
      /\ v.master = [w.master EXCEPT ![m] = None]
      /\ v.summons = [w.summons EXCEPT ![c] = @ \ {m}]
  BY <1>1 DEF CreatureWorld, SameSights, SameAnchors
<1>5. RemoveSummon(w, c, m) = v
  BY DEF RemoveSummon, r
<1> HIDE DEF v
<1>6. Dismisses(w, v, c, m)
  BY <1>2, <1>3, <1>4 DEF Dismisses
<1> QED BY <1>5, <1>6

\* A monster on the map without a master gets one.
LEMMA Commanding ==
  ASSUME NEW w, Core(w), NEW X, NEW Y, Watched(w, X, Y), NEW c \in Creature, NEW m \in Monster,
         c # m, w.stage[m] # "free", w.stage[c] # "free", w.master[m] = None, w.summons[m] = {},
         c \in Monster => (w.master[c] = None /\ m \notin w.targets[c]),
         NEW v, Commands(w, v, c, m)
  PROVE  Core(v) /\ Watched(v, X, Y)
<1>1. w \in CreatureWorld /\ v \in CreatureWorld /\ m \in Creature
  BY Kinds DEF Core, Commands
<1>2. /\ SameSights(w, v) /\ v.master = [w.master EXCEPT ![m] = c]
      /\ v.summons = [w.summons EXCEPT ![c] = @ \union {m}]
  BY DEF Commands
<1>3. m \notin w.summons[c]
  BY Kinds DEF Core, Tied
<1>4. Counted(v)
  <2>1. ASSUME NEW x \in Creature
        PROVE  Holders(v, x) = Holders(w, x) + (IF x = m THEN 1 ELSE 0)
    <3>1. Seekers(v, x) = Seekers(w, x) /\ Anchors(v, x) = Anchors(w, x)
      BY <1>2 DEF SameSights, SameAnchors, Seekers, Anchors
    <3>2. CASE x = m
      <4>1. Masters(v, x) = Masters(w, x) \union {c} /\ c \notin Masters(w, x)
        BY <1>1, <1>2, <1>3, <3>2 DEF Masters, CreatureWorld
      <4>2. Cardinality(Masters(v, x)) = Cardinality(Masters(w, x)) + 1
        BY <1>1, <4>1, HoldersOf, FS_AddElement
      <4> QED BY <1>1, <3>1, <3>2, <4>2, HoldersOf
    <3>3. CASE x # m
      <4>1. Masters(v, x) = Masters(w, x)
        BY <1>1, <1>2, <3>3 DEF Masters, CreatureWorld
      <4> QED BY <1>1, <3>1, <3>3, <4>1, HoldersOf
    <3> QED BY <3>2, <3>3
  <2> QED BY <2>1 DEF Core, Counted, Commands
<1>5. Tied(v)
  BY <1>1, <1>2, Kinds DEF Core, Tied, CreatureWorld
<1>6. Apart(v)
  BY <1>1, <1>2 DEF Core, Apart, SameSights, CreatureWorld
<1>7. Staged(v)
  <2>1. \A x \in Creature : v.stage[x] = "free" => x # m /\ x # c /\ v.refs[x] = w.refs[x]
    BY <1>1, <1>2 DEF Commands, SameSights, SameAnchors, CreatureWorld
  <2> QED BY <1>1, <1>2, <2>1 DEF Core, Staged, SameSights, SameAnchors, Clean, CreatureWorld
<1>8. Watched(v, X, Y)
  BY <1>1, <1>2 DEF Watched, Watches, Placed, Alive, SameSights, SameAnchors
<1> QED BY <1>1, <1>4, <1>5, <1>6, <1>7, <1>8 DEF Core

\* A summon gets free.
LEMMA Dismissing ==
  ASSUME NEW w, Core(w), NEW X, NEW Y, Watched(w, X, Y), NEW c \in Creature,
         NEW m \in w.summons[c], NEW v, Dismisses(w, v, c, m)
  PROVE  Core(v) /\ Watched(v, X, Y)
<1>1. w \in CreatureWorld /\ v \in CreatureWorld
  BY DEF Core, Dismisses
<1>11. m \in Monster /\ m \in Creature /\ w.master[m] = c
  BY <1>1, Kinds DEF Core, CreatureWorld, Tied
<1>2. /\ SameSights(w, v) /\ v.master = [w.master EXCEPT ![m] = None]
      /\ v.summons = [w.summons EXCEPT ![c] = @ \ {m}]
  BY DEF Dismisses
<1>4. Counted(v)
  <2>1. ASSUME NEW x \in Creature
        PROVE  Holders(v, x) = Holders(w, x) - (IF x = m THEN 1 ELSE 0)
    <3>1. Seekers(v, x) = Seekers(w, x) /\ Anchors(v, x) = Anchors(w, x)
      BY <1>2 DEF SameSights, SameAnchors, Seekers, Anchors
    <3>2. CASE x = m
      <4>1. Masters(v, x) = Masters(w, x) \ {c} /\ c \in Masters(w, x)
        BY <1>1, <1>2, <3>2 DEF Masters, CreatureWorld
      <4>2. Cardinality(Masters(v, x)) = Cardinality(Masters(w, x)) - 1
        BY <1>1, <4>1, HoldersOf, FS_RemoveElement
      <4> QED BY <1>1, <3>1, <3>2, <4>2, HoldersOf
    <3>3. CASE x # m
      <4>1. Masters(v, x) = Masters(w, x)
        BY <1>1, <1>2, <3>3 DEF Masters, CreatureWorld
      <4> QED BY <1>1, <3>1, <3>3, <4>1, HoldersOf
    <3> QED BY <3>2, <3>3
  <2> QED BY <2>1 DEF Core, Counted, Dismisses
<1>5. Tied(v)
  BY <1>1, <1>11, <1>2, Kinds DEF Core, Tied, CreatureWorld
<1>6. Apart(v)
  BY <1>1, <1>11, <1>2 DEF Core, Apart, SameSights, CreatureWorld
<1>7. Staged(v)
  <2>1. w.stage[m] # "free"
    BY <1>11, Kinds DEF Core, Staged, Clean
  <2>2. \A x \in Creature : v.stage[x] = "free" => x # m /\ v.refs[x] = w.refs[x]
    BY <1>1, <1>2, <2>1 DEF Dismisses, SameSights, SameAnchors, CreatureWorld
  <2> QED BY <1>1, <1>11, <1>2, <2>2 DEF Core, Staged, SameSights, SameAnchors, Clean, CreatureWorld
<1>8. Watched(v, X, Y)
  BY <1>1, <1>2 DEF Watched, Watches, Placed, Alive, SameSights, SameAnchors
<1> QED BY <1>1, <1>4, <1>5, <1>6, <1>7, <1>8 DEF Core

\* A creature has no health any more; nobody gains or loses anything else.
Perishes(w, v, c) ==
  /\ v.stage = w.stage /\ v.releasing = w.releasing /\ v.master = w.master
  /\ v.summons = w.summons /\ v.targets = w.targets
  /\ v.dead = [w.dead EXCEPT ![c] = TRUE]
  /\ \A x \in Creature : w.vector[x] # "out" => v.vector[x] # "out"

\* Kill does so, and keeps the counts; the dead are watched, since they woke before.
LEMMA Killing ==
  ASSUME NEW w, Core(w), Watched(w, {}, {}), NEW c \in Creature, w.stage[c] # "free"
  PROVE  Core(Kill(w, c)) /\ Watched(Kill(w, c), {}, {}) /\ Perishes(w, Kill(w, c), c)
<1> DEFINE u == IF c \in Monster THEN SetIdle(w, c, FALSE) ELSE w
           v == [u EXCEPT !.dead[c] = TRUE]
<1>1. Kill(w, c) = v
  BY DEF Kill
<1>2. /\ Core(u) /\ Watched(u, {}, {}) /\ Keeps(w, u) /\ u.targets = w.targets
      /\ u.stage[c] = "placed" => Watches(u, c)
  <2>1. CASE c \in Monster
    <3> DEFINE s == SetIdle(w, c, FALSE)
    <3>1. Watched(w, {}, {c})
      BY DEF Watched
    <3>2. FALSE \in BOOLEAN /\ s = SetIdle(w, c, FALSE)
      OBVIOUS
    <3> HIDE DEF s
    <3>3. /\ Core(s) /\ Watched(s, {}, {}) /\ Keeps(w, s)
          /\ w.stage[c] = "placed" /\ ~w.dead[c] /\ FALSE => EmptyHanded(w, s, c)
          /\ ~(w.stage[c] = "placed" /\ ~w.dead[c] /\ FALSE) => s.targets = w.targets
          /\ w.stage[c] = "placed" /\ ~w.dead[c] /\ ~FALSE => Watches(s, c)
      BY <2>1, <3>1, <3>2, IdleSet, ZenonT(60)
    <3>4. s.stage[c] = "placed" => Watches(s, c)
      <4>1. CASE w.dead[c]
        BY <3>3, <4>1 DEF Watched, Placed, Keeps
      <4>2. CASE ~w.dead[c]
        BY <3>3, <4>2 DEF Keeps
      <4> QED BY <4>1, <4>2
    <3>5. u = s
      BY <2>1 DEF s
    <3> HIDE DEF u
    <3> QED BY <3>3, <3>4, <3>5
  <2>2. CASE c \notin Monster
    <3>1. u = w /\ c \in Hunter
      BY <2>2, Kinds
    <3> HIDE DEF u
    <3> QED BY <3>1 DEF Watched, Placed, Keeps
  <2> QED BY <2>1, <2>2
<1> HIDE DEF u
<1>3. u \in CreatureWorld
  BY <1>2 DEF Core
<1>4. /\ v \in CreatureWorld /\ SameAnchors(u, v) /\ v.targets = u.targets /\ v.idle = u.idle
      /\ v.refs = u.refs /\ v.checked = u.checked /\ v.master = u.master
      /\ v.summons = u.summons /\ v.dead = [u.dead EXCEPT ![c] = TRUE]
  <2>1. v \in CreatureWorld
    BY <1>3 DEF CreatureWorld
  <2>2. /\ SameAnchors(u, v) /\ v.targets = u.targets /\ v.idle = u.idle
        /\ v.refs = u.refs /\ v.checked = u.checked /\ v.master = u.master
        /\ v.summons = u.summons /\ v.dead = [u.dead EXCEPT ![c] = TRUE]
    BY <1>3 DEF CreatureWorld, SameAnchors
  <2> QED BY <2>1, <2>2
<1> HIDE DEF v
<1>5. Counted(v)
  <2>1. \A x \in Creature : Anchors(v, x) = Anchors(u, x)
    BY <1>4 DEF Anchors, SameAnchors
  <2>2. \A x \in Creature : Holders(v, x) = Holders(u, x) + Anchors(v, x) - Anchors(u, x)
    BY <1>3, <1>4, AnchorsCount
  <2>3. \A x \in Creature : Holders(v, x) = Holders(u, x)
    BY <1>3, <2>1, <2>2, HoldersOf
  <2> QED BY <1>2, <1>4, <2>3 DEF Core, Counted
<1>6. Tied(v) /\ Apart(v)
  BY <1>2, <1>4 DEF Core, Tied, Apart
<1>7. Staged(v)
  <2>1. u.stage[c] # "free"
    BY <1>2 DEF Keeps
  <2> QED BY <1>2, <1>3, <1>4, <2>1 DEF Core, Staged, SameAnchors, Clean, CreatureWorld
<1>8. Watched(v, {}, {})
  <2>1. \A x \in Creature : Watches(u, x) => Watches(v, x)
    BY <1>4 DEF Watches, SameAnchors
  <2>2. \A x \in Creature : v.dead[x] <=> (u.dead[x] \/ x = c)
    <3>1. \A x \in Creature : x # c => v.dead[x] = u.dead[x]
      BY <1>3, <1>4 DEF CreatureWorld
    <3>2. v.dead[c] = TRUE
      BY <1>3, <1>4 DEF CreatureWorld
    <3> QED BY <3>1, <3>2
  <2>3. Placed(v) = Placed(u)
    BY <1>4 DEF Placed, SameAnchors
  <2>4. Alive(v) = Alive(u) \ {c}
    BY <2>2, <2>3 DEF Alive, Placed
  <2>5. ASSUME NEW x \in Placed(v), v.dead[x] \/ x \in Hunter PROVE Watches(v, x)
    <3>1. x \in Creature /\ x \in Placed(u)
      BY <2>3 DEF Placed
    <3>2. CASE x = c
      BY <1>2, <2>1, <3>1, <3>2 DEF Placed
    <3>3. CASE x # c
      BY <1>2, <2>1, <2>2, <2>5, <3>1, <3>3 DEF Watched
    <3> QED BY <3>2, <3>3
  <2>6. ASSUME NEW x \in Alive(v) \intersect Monster
        PROVE  IF v.idle[x] THEN v.targets[x] = {} ELSE Watches(v, x)
    <3>1. x \in Creature /\ x \in Alive(u) \intersect Monster
      BY <2>4, Kinds
    <3> QED BY <1>2, <1>4, <2>1, <3>1 DEF Watched
  <2> QED BY <2>5, <2>6 DEF Watched
<1>9. Perishes(w, v, c)
  BY <1>2, <1>4 DEF Perishes, Keeps, SameAnchors
<1> QED BY <1>1, <1>4, <1>5, <1>6, <1>7, <1>8, <1>9 DEF Core

\* The summons of c that have been killed and dismissed.
SummonsSlain(w, c, S) == FoldSet(LAMBDA m, v : RemoveSummon(Kill(v, m), c, m), w, S)
\* SummonsSlain, of what a death and a dismissal keep.
LEMMA SlainKeeps ==
  ASSUME NEW w, NEW c, NEW S, IsFiniteSet(S), NEW G, w \in G[{}],
         \A T \in (SUBSET S) \ {{}} : \A x \in T : \A v \in G[T \ {x}] :
           RemoveSummon(Kill(v, x), c, x) \in G[T]
  PROVE  SummonsSlain(w, c, S) \in G[S]
<1> DEFINE pick == Chosen(S)
           step == [T \in SUBSET S |-> [v \in G[T \ {pick[T]}] |-> RemoveSummon(Kill(v, pick[T]), c, pick[T])]]
           E(f) == [T \in SUBSET S |-> IF T = {} THEN w
                      ELSE RemoveSummon(Kill(f[T \ {CHOOSE x \in T : TRUE}], CHOOSE x \in T : TRUE), c, CHOOSE x \in T : TRUE)]
           iter == CHOOSE f : f = E(f)
<1>1. SummonsSlain(w, c, S) = iter[S]
  BY DEF SummonsSlain, FoldSet, MapThenFoldSet
<1>2. \A T \in (SUBSET S) \ {{}} : pick[T] = (CHOOSE x \in T : TRUE) /\ pick[T] \in T
  BY Choosing DEF Picks, Chosen
<1>3. \A T \in (SUBSET S) \ {{}} : \A v \in G[T \ {pick[T]}] :
        step[T][v] = RemoveSummon(Kill(v, pick[T]), c, pick[T])
  OBVIOUS
<1> HIDE DEF pick, step
<1>4. Picks(pick, S) /\ StepsIn(step, pick, S, G)
  <2>1. ASSUME NEW T \in (SUBSET S) \ {{}}, NEW v \in G[T \ {pick[T]}]
        PROVE  step[T][v] \in G[T]
    <3>1. pick[T] \in T
      BY <1>2
    <3> QED BY <1>3, <3>1
  <2>2. Picks(pick, S)
    BY <1>2 DEF Picks
  <2> QED BY <2>1, <2>2 DEF StepsIn
<1>5. iter = E(iter)
  <2>1. PICK f : /\ f = [T \in SUBSET S |-> f[T]]
                 /\ FoldsTo(f, S, w, pick, step) /\ ValuesIn(f, S, G)
    BY <1>4, FoldExists
  <2>2. ASSUME NEW T \in (SUBSET S) \ {{}}
        PROVE  f[T] = RemoveSummon(Kill(f[T \ {pick[T]}], pick[T]), c, pick[T])
    <3>1. T \in SUBSET S /\ T # {} /\ T \ {pick[T]} \in SUBSET S
      OBVIOUS
    <3>2. f[T \ {pick[T]}] \in G[T \ {pick[T]}]
      BY <2>1, <3>1 DEF ValuesIn
    <3>3. f[T] = step[T][f[T \ {pick[T]}]]
      BY <2>1, <3>1 DEF FoldsTo
    <3> QED BY <3>1, <3>2, <3>3, <1>3
  <2>3. f = E(f)
    BY <2>1, <2>2, <1>2 DEF FoldsTo
  <2> QED BY <2>3, ZenonT(30)
<1>6. /\ iter[{}] = w
      /\ \A T \in (SUBSET S) \ {{}} : iter[T] = RemoveSummon(Kill(iter[T \ {pick[T]}], pick[T]), c, pick[T])
  BY <1>2, <1>5
<1> HIDE DEF iter
<1>7. Follows(iter, S, G, pick, step)
  BY <1>3, <1>6 DEF Follows
<1>8. iter[S] \in G[S]
  BY <1>4, <1>6, <1>7, FoldStays
<1> QED BY <1>1, <1>8

\* The summons of c that are in T are dead and free.
Slain(w, v, c, T) ==
  /\ v.stage = w.stage /\ v.releasing = w.releasing /\ v.targets = w.targets
  /\ \A x \in Creature : v.dead[x] <=> (w.dead[x] \/ x \in T)
  /\ v.master = [m \in Monster |-> IF m \in T THEN None ELSE w.master[m]]
  /\ v.summons = [w.summons EXCEPT ![c] = @ \ T]
  /\ \A x \in Creature : w.vector[x] # "out" => v.vector[x] # "out"

\* One more summon is killed and dismissed.
LEMMA SlainOn ==
  ASSUME NEW w, w \in CreatureWorld, NEW c \in Creature, NEW T, NEW m \in T, NEW v, NEW k, NEW u,
         Slain(w, v, c, T \ {m}), Perishes(v, k, m), Dismisses(k, u, c, m),
         v \in CreatureWorld, k \in CreatureWorld, m \in Monster, m \in Creature
  PROVE  Slain(w, u, c, T)
<1>1. u.stage = w.stage /\ u.releasing = w.releasing /\ u.targets = w.targets
  BY DEF Slain, Perishes, Dismisses, SameSights, SameAnchors
<1>2. \A x \in Creature : w.vector[x] # "out" => u.vector[x] # "out"
  BY DEF Slain, Perishes, Dismisses, SameSights, SameAnchors
<1>3. ASSUME NEW x \in Creature PROVE u.dead[x] <=> (w.dead[x] \/ x \in T)
  <2>1. u.dead = [v.dead EXCEPT ![m] = TRUE]
    BY DEF Perishes, Dismisses, SameSights
  <2>2. CASE x = m
    <3>1. u.dead[x] = TRUE
      BY <2>1, <2>2 DEF CreatureWorld
    <3> QED BY <3>1, <2>2
  <2>3. CASE x # m
    <3>1. u.dead[x] = v.dead[x]
      BY <2>1, <2>3 DEF CreatureWorld
    <3>2. x \in T <=> x \in T \ {m}
      BY <2>3
    <3>3. v.dead[x] <=> (w.dead[x] \/ x \in T \ {m})
      BY DEF Slain
    <3> QED BY <3>1, <3>2, <3>3
  <2> QED BY <2>2, <2>3
<1>4. u.master = [x \in Monster |-> IF x \in T THEN None ELSE w.master[x]]
  <2>1. /\ u.master = [v.master EXCEPT ![m] = None]
        /\ v.master = [x \in Monster |-> IF x \in T \ {m} THEN None ELSE w.master[x]]
    BY DEF Slain, Perishes, Dismisses
  <2> QED BY <2>1
<1>5. u.summons = [w.summons EXCEPT ![c] = @ \ T]
  <2>1. /\ u.summons = [v.summons EXCEPT ![c] = @ \ {m}]
        /\ v.summons = [w.summons EXCEPT ![c] = @ \ (T \ {m})]
    BY DEF Slain, Perishes, Dismisses
  <2>2. (w.summons[c] \ (T \ {m})) \ {m} = w.summons[c] \ T
    OBVIOUS
  <2> QED BY <2>1, <2>2 DEF CreatureWorld
<1> QED BY <1>1, <1>2, <1>3, <1>4, <1>5 DEF Slain

\* The summons of c die with it, or when it is to have none.
LEMMA SummonsDestroyed ==
  ASSUME NEW w, Core(w), Watched(w, {}, {}), NEW c \in Creature
  PROVE  /\ Core(DestroySummons(w, c)) /\ Watched(DestroySummons(w, c), {}, {})
         /\ Slain(w, DestroySummons(w, c), c, w.summons[c])
<1> DEFINE S == w.summons[c]
           Good(u, T) == Core(u) /\ Watched(u, {}, {}) /\ Slain(w, u, c, T)
           G == [T \in SUBSET S |-> {u \in CreatureWorld : Good(u, T)}]
<1>0. w \in CreatureWorld
  BY DEF Core
<1>1. S \in SUBSET Monster /\ IsFiniteSet(S)
  BY <1>0, Kinds, FS_Subset DEF CreatureWorld
<1>2. w \in G[{}]
  <2>1. w.summons = [w.summons EXCEPT ![c] = @ \ {}]
    BY <1>0 DEF CreatureWorld
  <2>2. w.master = [m \in Monster |-> IF m \in {} THEN None ELSE w.master[m]]
    BY <1>0 DEF CreatureWorld
  <2>3. Slain(w, w, c, {})
    BY <2>1, <2>2 DEF Slain
  <2> QED BY <1>0, <2>3
<1>3. ASSUME NEW T \in (SUBSET S) \ {{}}, NEW m \in T, NEW v, Good(v, T \ {m})
      PROVE  Good(RemoveSummon(Kill(v, m), c, m), T)
  <2> DEFINE k == Kill(v, m)
             u == RemoveSummon(k, c, m)
  <2>1. Core(v) /\ Watched(v, {}, {}) /\ Slain(w, v, c, T \ {m})
    BY <1>3
  <2> HIDE DEF G
  <2>2. m \in Monster /\ m \in Creature /\ m \in w.summons[c]
    BY <1>1, Kinds
  <2>3. v \in CreatureWorld
    BY <2>1 DEF Core
  <2> HIDE DEF Good
  <2>4. m \in v.summons[c] /\ v.stage[m] # "free"
    <3>1. w.stage[m] # "free"
      <4>1. w.master[m] = c
        BY <2>2 DEF Core, Tied
      <4> QED BY <2>2, <4>1, Kinds DEF Core, Staged, Clean
    <3> QED BY <1>0, <2>1, <2>2, <3>1 DEF Slain, CreatureWorld
  <2>5. Core(k) /\ Watched(k, {}, {}) /\ Perishes(v, k, m)
    BY <2>1, <2>2, <2>4, Killing
  <2> HIDE DEF k
  <2>6. m \in k.summons[c] /\ k \in CreatureWorld
    BY <2>4, <2>5 DEF Perishes, Core
  <2>7. Dismisses(k, u, c, m)
    BY <2>6, DismissesIs
  <2> HIDE DEF u
  <2>8. Core(u) /\ Watched(u, {}, {})
    BY <2>5, <2>6, <2>7, Dismissing
  <2>9. Slain(w, u, c, T)
    BY <1>0, <2>1, <2>2, <2>3, <2>5, <2>6, <2>7, SlainOn
  <2>10. Good(u, T)
    BY <2>8, <2>9 DEF Good
  <2> QED BY <2>10 DEF u, k
<1> HIDE DEF S
<1>4. SummonsSlain(w, c, S) \in G[S]
  <2>1. ASSUME NEW T \in (SUBSET S) \ {{}}, NEW x \in T, NEW v \in G[T \ {x}]
        PROVE  RemoveSummon(Kill(v, x), c, x) \in G[T]
    <3> HIDE DEF Good
    <3>1. Good(v, T \ {x})
      OBVIOUS
    <3>2. Good(RemoveSummon(Kill(v, x), c, x), T)
      BY <1>3, <3>1
    <3>3. RemoveSummon(Kill(v, x), c, x) \in CreatureWorld
      BY <3>2 DEF Good, Core
    <3> QED BY <3>2, <3>3
  <2> HIDE DEF G
  <2> QED BY <1>1, <1>2, <2>1, SlainKeeps
<1>5. Good(SummonsSlain(w, c, S), S)
  <2> HIDE DEF Good
  <2> QED BY <1>4
<1>6. SummonsSlain(w, c, S) = DestroySummons(w, c)
  BY DEF SummonsSlain, DestroySummons, S
<1> QED BY <1>5, <1>6 DEF S

\* The map takes a creature; then those who are there see it.
Entered(w, c) == Refer([w EXCEPT !.stage[c] = "placed"], {c}, 1)
Arrived(v, c, V, asleep) ==
  AddCreatureCheck(
    FoundBy(IF c \in Monster THEN Look(v, c, V, asleep) ELSE v, V \intersect Monster, c, asleep), c)

\* What the map changes, of an object that did not exist.
Enters(w, v, c) ==
  /\ v \in CreatureWorld
  /\ v.stage = [w.stage EXCEPT ![c] = "placed"]
  /\ v.dead = w.dead /\ v.checked = w.checked /\ v.vector = w.vector /\ v.targets = w.targets
  /\ v.idle = w.idle /\ v.master = w.master /\ v.summons = w.summons /\ v.releasing = w.releasing
  /\ \A x \in Creature : v.refs[x] = w.refs[x] + (IF x = c THEN 1 ELSE 0)

\* Placing a creature does so first.
LEMMA EntersIs ==
  ASSUME NEW w, w \in CreatureWorld, NEW c \in Creature
  PROVE  Enters(w, Entered(w, c), c)
<1> DEFINE s == [w EXCEPT !.stage[c] = "placed"]
           v == Refer(s, {c}, 1)
<1>1. s \in CreatureWorld
  BY DEF CreatureWorld
<1>2. /\ s.stage = [w.stage EXCEPT ![c] = "placed"] /\ s.refs = w.refs
      /\ s.dead = w.dead /\ s.checked = w.checked /\ s.vector = w.vector
      /\ s.targets = w.targets /\ s.idle = w.idle /\ s.master = w.master
      /\ s.summons = w.summons /\ s.releasing = w.releasing
  BY DEF CreatureWorld
<1> HIDE DEF s
<1>3. Refers(s, v, {c}, 1)
  BY <1>1, Referring
<1> HIDE DEF v
<1>4. v \in CreatureWorld /\ v = [s EXCEPT !.refs = v.refs]
  BY <1>3 DEF Refers
<1>5. /\ v.stage = s.stage
      /\ v.dead = s.dead /\ v.checked = s.checked /\ v.vector = s.vector
      /\ v.targets = s.targets /\ v.idle = s.idle /\ v.master = s.master
      /\ v.summons = s.summons /\ v.releasing = s.releasing
  BY <1>1, <1>4 DEF CreatureWorld
<1>6. \A x \in Creature : w.refs[x] \in Int
  BY DEF CreatureWorld
<1>7. \A x \in Creature : v.refs[x] = w.refs[x] + (IF x = c THEN 1 ELSE 0)
  BY <1>2, <1>3, <1>6 DEF Refers
<1>8. Enters(w, v, c)
  BY <1>2, <1>4, <1>5, <1>7 DEF Enters
<1> QED BY <1>8 DEF v, s, Entered

\* A player is not watched until it is checked.
LEMMA Entering ==
  ASSUME NEW w, Core(w), Watched(w, {}, {}), NEW c \in Creature, w.stage[c] = "free",
         NEW v, Enters(w, v, c)
  PROVE  Core(v) /\ Watched(v, {c}, {})
<1>1. w \in CreatureWorld /\ v \in CreatureWorld
  BY DEF Core, Enters
<1>2. /\ v.stage = [w.stage EXCEPT ![c] = "placed"]
      /\ v.dead = w.dead /\ v.checked = w.checked /\ v.vector = w.vector /\ v.targets = w.targets
      /\ v.idle = w.idle /\ v.master = w.master /\ v.summons = w.summons
      /\ v.releasing = w.releasing
  BY DEF Enters
<1>3. Clean(w, c) /\ c \notin w.releasing
  BY DEF Core, Staged
<1>4. Counted(v)
  <2>1. \A x \in Creature : Anchors(v, x) = Anchors(w, x) + (IF x = c THEN 1 ELSE 0)
    BY <1>1, <1>2, <1>3 DEF Anchors, CreatureWorld
  <2>2. \A x \in Creature : Holders(v, x) = Holders(w, x) + Anchors(v, x) - Anchors(w, x)
    BY <1>1, <1>2, AnchorsCount
  <2>3. \A x \in Creature : Holders(v, x) = Holders(w, x) + (IF x = c THEN 1 ELSE 0)
    BY <1>1, <2>1, <2>2, HoldersOf
  <2> QED BY <2>3 DEF Core, Counted, Enters
<1>5. Tied(v) /\ Apart(v)
  BY <1>2 DEF Core, Tied, Apart
<1>6. Staged(v)
  <2>1. \A x \in Creature : v.stage[x] = "free" => x # c /\ w.stage[x] = "free" /\ v.refs[x] = w.refs[x]
    BY <1>1, <1>2 DEF Enters, CreatureWorld
  <2>2. \A x \in Creature : v.stage[x] = "free" => Clean(v, x)
    BY <1>2, <2>1 DEF Core, Staged, Clean
  <2>3. \A x \in Creature : v.checked[x] => v.stage[x] = "placed"
    BY <1>1, <1>2 DEF Core, Staged, CreatureWorld
  <2>4. \A x \in v.releasing : v.stage[x] = "removed"
    BY <1>1, <1>2, <1>3 DEF Core, Staged, CreatureWorld
  <2> QED BY <2>2, <2>3, <2>4 DEF Staged
<1>7. Watched(v, {c}, {})
  <2>1. Placed(v) = Placed(w) \union {c}
    BY <1>1, <1>2 DEF Placed, CreatureWorld
  <2>2. \A x \in Creature : Watches(w, x) <=> Watches(v, x)
    BY <1>2 DEF Watches
  <2>3. Alive(v) = Alive(w) \union {c}
    BY <1>2, <1>3, <2>1 DEF Alive, Clean
  <2>4. \A x \in Placed(v) \ {c} : v.dead[x] \/ x \in Hunter => Watches(v, x)
    BY <1>2, <2>1, <2>2 DEF Watched, Placed
  <2>5. \A x \in Alive(v) \intersect Monster : IF v.idle[x] THEN v.targets[x] = {} ELSE Watches(v, x)
    BY <1>2, <1>3, <2>2, <2>3 DEF Watched, Clean, Alive, Placed
  <2> QED BY <2>4, <2>5 DEF Watched
<1> QED BY <1>1, <1>4, <1>5, <1>6, <1>7 DEF Core

\* It sees and is seen, and is checked.
LEMMA Arriving ==
  ASSUME NEW v, NEW c \in Creature, Core(v), Watched(v, {c}, {}), v.stage[c] = "placed",
         NEW V \in SUBSET Placed(v), c \notin V, NEW asleep
  PROVE  Seen(v, Arrived(v, c, V, asleep), {})
<1> DEFINE l == IF c \in Monster THEN Look(v, c, V, asleep) ELSE v
           f == FoundBy(l, V \intersect Monster, c, asleep)
           a == AddCreatureCheck(f, c)
<1>1. Arrived(v, c, V, asleep) = a
  BY DEF Arrived
<1>2. \A x \in V : x \in Creature /\ v.stage[x] = "placed"
  BY DEF Placed
<1>3. Core(l) /\ Watched(l, {c}, {}) /\ Glance(v, l)
  <2>1. CASE c \in Monster
    <3>1. V \in SUBSET Creature
      BY <1>2
    <3>2. \A x \in V : v.stage[x] = "placed" \/ (v.stage[x] = "removed" /\ x \in v.targets[c])
      BY <1>2
    <3>3. /\ Seen(v, Look(v, c, V, asleep), {c})
          /\ Look(v, c, V, asleep).targets[c] \subseteq V
      BY <2>1, <3>1, <3>2, LookSeen
    <3>4. l = Look(v, c, V, asleep)
      BY <2>1
    <3> HIDE DEF l
    <3> QED BY <3>3, <3>4 DEF Seen
  <2>2. CASE c \notin Monster
    <3>1. l = v
      BY <2>2
    <3> HIDE DEF l
    <3> QED BY <3>1 DEF Glance, Keeps
  <2> QED BY <2>1, <2>2
<1> HIDE DEF l
<1>4. Seen(l, f, {c})
  <2>1. /\ V \intersect Monster \in SUBSET Monster /\ c \notin V \intersect Monster
        /\ l.stage[c] = "placed"
    BY <1>3 DEF Glance, Keeps
  <2>2. \A m \in V \intersect Monster : l.stage[m] = "placed"
    BY <1>2, <1>3 DEF Glance, Keeps
  <2> QED BY <1>3, <2>1, <2>2, FoundBySeen
<1> HIDE DEF f
<1>5. Core(f) /\ Watched(f, {c}, {}) /\ Glance(v, f) /\ f.stage[c] # "free"
  BY <1>3, <1>4, GlanceOn DEF Seen, Glance, Keeps
<1>6. a = AddCreatureCheck(f, c)
  OBVIOUS
<1> HIDE DEF a
<1>7. /\ Core(a) /\ Watched(a, {c} \ {c}, {}) /\ Keeps(f, a)
      /\ a.targets = f.targets /\ a.idle = f.idle
      /\ f.stage[c] = "placed" => Watches(a, c)
  BY <1>5, <1>6, CheckAdded
<1>8. {c} \ {c} = {}
  OBVIOUS
<1>9. Glance(f, a)
  BY <1>7 DEF Glance
<1> QED BY <1>1, <1>5, <1>7, <1>8, <1>9, GlanceOn DEF Seen

\* placeCreature.
LEMMA Placing ==
  ASSUME NEW w, Core(w), Watched(w, {}, {}), NEW c \in Creature, w.stage[c] = "free",
         NEW V \in SUBSET Placed(w), NEW asleep
  PROVE  Seen(Entered(w, c), Place(w, c, V, asleep), {})
<1> DEFINE v == Entered(w, c)
<1>1. Place(w, c, V, asleep) = Arrived(v, c, V, asleep)
  BY DEF Place, Arrived, Entered
<1>2. w \in CreatureWorld
  BY DEF Core
<1>3. Enters(w, v, c)
  BY <1>2, EntersIs
<1> HIDE DEF v
<1>4. Core(v) /\ Watched(v, {c}, {})
  BY <1>3, Entering
<1>5. c \notin V /\ V \in SUBSET Placed(v) /\ v.stage[c] = "placed"
  BY <1>2, <1>3 DEF Placed, Enters, CreatureWorld
<1>6. Seen(v, Arrived(v, c, V, asleep), {})
  BY <1>4, <1>5, Arriving
<1> QED BY <1>1, <1>6 DEF v

\* A summon is there before its master knows of it, or after: it is the same.
LEMMA SummonEnters ==
  ASSUME NEW w, w \in CreatureWorld, NEW c \in Creature, NEW m \in Monster, c # m
  PROVE  Entered(AddSummon(w, c, m), m) = AddSummon(Entered(w, m), c, m)
<1>0. m \in Creature
  BY Kinds
<1>1. Entered(AddSummon(w, c, m), m).refs = AddSummon(Entered(w, m), c, m).refs
  BY <1>0 DEF Entered, AddSummon, Refer, CreatureWorld
<1>2. /\ AddSummon(w, c, m) = [w EXCEPT !.refs = [x \in Creature |-> IF x \in {m} THEN @[x] + 1 ELSE @[x]],
                                 !.master[m] = c, !.summons[c] = @ \union {m}]
  BY DEF AddSummon, Refer
<1> QED BY <1>0, <1>1, ZenonT(60) DEF Entered, AddSummon, Refer, CreatureWorld

\* A summon arrives with its master.
LEMMA PlacingSummon ==
  ASSUME NEW w, Core(w), Watched(w, {}, {}), NEW c \in Creature, w.stage[c] = "placed",
         c \in Monster => w.master[c] = None,
         NEW m \in Monster, w.stage[m] = "free", NEW V \in SUBSET Placed(w), NEW asleep
  PROVE  Seen(AddSummon(Entered(w, m), c, m), Place(AddSummon(w, c, m), m, V, asleep), {})
<1> DEFINE e == Entered(w, m)
           v == AddSummon(e, c, m)
<1>0. m \in Creature /\ c # m /\ w \in CreatureWorld
  BY Kinds DEF Core
<1>1. Place(AddSummon(w, c, m), m, V, asleep) = Arrived(v, m, V, asleep)
  BY <1>0, SummonEnters DEF Place, Arrived, Entered
<1>2. Enters(w, e, m)
  BY <1>0, EntersIs
<1> HIDE DEF e
<1>3. Core(e) /\ Watched(e, {m}, {}) /\ e \in CreatureWorld
  BY <1>0, <1>2, Entering DEF Enters
<1>4. Commands(e, v, c, m)
  BY <1>3, CommandsIs
<1> HIDE DEF v
<1>5. /\ e.stage[m] # "free" /\ e.stage[c] # "free" /\ e.master[m] = None /\ e.summons[m] = {}
      /\ c \in Monster => (e.master[c] = None /\ m \notin e.targets[c])
  <2>1. Clean(w, m) /\ Holders(w, m) = 0
    BY <1>0 DEF Core, Staged, Counted, Clean
  <2>2. c \in Monster => m \notin w.targets[c]
    BY <1>0, <2>1, Unheld DEF Seekers
  <2> QED BY <1>0, <1>2, <2>1, <2>2 DEF Enters, Clean, CreatureWorld
<1>6. Core(v) /\ Watched(v, {m}, {})
  BY <1>0, <1>3, <1>4, <1>5, Commanding
<1>7. m \notin V /\ V \in SUBSET Placed(v) /\ v.stage[m] = "placed"
  BY <1>0, <1>2, <1>4 DEF Placed, Enters, Commands, SameSights, SameAnchors, CreatureWorld
<1>8. Seen(v, Arrived(v, m, V, asleep), {})
  BY <1>0, <1>6, <1>7, Arriving
<1> QED BY <1>1, <1>8 DEF v, e

\* A creature goes from the map to what is to be released.
Goes(w, v, c) ==
  /\ v \in CreatureWorld
  /\ v.stage = [w.stage EXCEPT ![c] = "removed"] /\ v.releasing = w.releasing \union {c}
  /\ v.checked = [w.checked EXCEPT ![c] = FALSE]
  /\ v.dead = w.dead /\ v.vector = w.vector /\ v.targets = w.targets /\ v.idle = w.idle
  /\ v.master = w.master /\ v.summons = w.summons /\ v.refs = w.refs
Gone(w, c) ==
  [w EXCEPT !.stage[c] = "removed", !.releasing = @ \union {c}, !.checked[c] = FALSE]

\* Leaving the map does so.
LEMMA GoesIs ==
  ASSUME NEW w, w \in CreatureWorld, NEW c \in Creature
  PROVE  Goes(w, Gone(w, c), c)
<1> DEFINE v == [w EXCEPT !.stage[c] = "removed", !.releasing = @ \union {c}, !.checked[c] = FALSE]
<1>1. v \in CreatureWorld
  BY DEF CreatureWorld
<1>2. /\ v.stage = [w.stage EXCEPT ![c] = "removed"] /\ v.releasing = w.releasing \union {c}
      /\ v.checked = [w.checked EXCEPT ![c] = FALSE]
      /\ v.dead = w.dead /\ v.vector = w.vector /\ v.targets = w.targets /\ v.idle = w.idle
      /\ v.master = w.master /\ v.summons = w.summons /\ v.refs = w.refs
  BY DEF CreatureWorld
<1>3. Gone(w, c) = v
  BY DEF Gone
<1> HIDE DEF v
<1> QED BY <1>1, <1>2, <1>3 DEF Goes

\* Who leaves the map is counted as long as it is to be released.
LEMMA Going ==
  ASSUME NEW w, Core(w), Watched(w, {}, {}), NEW c \in Creature, w.stage[c] = "placed",
         NEW v, Goes(w, v, c)
  PROVE  Core(v) /\ Watched(v, {}, {})
<1>1. w \in CreatureWorld /\ v \in CreatureWorld
  BY DEF Core, Goes
<1>2. /\ v.stage = [w.stage EXCEPT ![c] = "removed"] /\ v.releasing = w.releasing \union {c}
      /\ v.checked = [w.checked EXCEPT ![c] = FALSE]
      /\ v.dead = w.dead /\ v.vector = w.vector /\ v.targets = w.targets /\ v.idle = w.idle
      /\ v.master = w.master /\ v.summons = w.summons /\ v.refs = w.refs
  BY DEF Goes
<1>3. Counted(v)
  <2>1. \A x \in Creature : Anchors(v, x) = Anchors(w, x)
    BY <1>1, <1>2 DEF Anchors, CreatureWorld
  <2>2. \A x \in Creature : Holders(v, x) = Holders(w, x) + Anchors(v, x) - Anchors(w, x)
    BY <1>1, <1>2, AnchorsCount
  <2>3. \A x \in Creature : Holders(v, x) = Holders(w, x)
    BY <1>1, <2>1, <2>2, HoldersOf
  <2> QED BY <1>2, <2>3 DEF Core, Counted
<1>4. Tied(v) /\ Apart(v)
  BY <1>2 DEF Core, Tied, Apart
<1>5. Staged(v)
  <2>1. \A x \in Creature : v.stage[x] = "free" => w.stage[x] = "free"
    BY <1>1, <1>2 DEF CreatureWorld
  <2>2. \A x \in Creature : v.stage[x] = "free" => Clean(v, x)
    BY <1>2, <2>1 DEF Core, Staged, Clean
  <2>3. \A x \in Creature : v.checked[x] => v.stage[x] = "placed"
    <3> SUFFICES ASSUME NEW x \in Creature, v.checked[x] PROVE v.stage[x] = "placed"
      OBVIOUS
    <3>1. x # c
      BY <1>1, <1>2 DEF CreatureWorld
    <3>2. w.checked[x] /\ v.stage[x] = w.stage[x]
      BY <1>1, <1>2, <3>1 DEF CreatureWorld
    <3> QED BY <3>2 DEF Core, Staged
  <2>4. \A x \in v.releasing : v.stage[x] = "removed"
    BY <1>1, <1>2 DEF Core, Staged, CreatureWorld
  <2> QED BY <2>2, <2>3, <2>4 DEF Staged
<1>6. Watched(v, {}, {})
  <2>1. Placed(v) = Placed(w) \ {c}
    BY <1>1, <1>2 DEF Placed, CreatureWorld
  <2>2. \A x \in Creature \ {c} : Watches(w, x) <=> Watches(v, x)
    BY <1>1, <1>2 DEF Watches, CreatureWorld
  <2>3. Alive(v) = Alive(w) \ {c}
    BY <1>2, <2>1 DEF Alive
  <2>4. \A x \in Placed(v) : v.dead[x] \/ x \in Hunter => Watches(v, x)
    BY <1>2, <2>1, <2>2 DEF Watched, Placed
  <2>5. \A x \in Alive(v) \intersect Monster : IF v.idle[x] THEN v.targets[x] = {} ELSE Watches(v, x)
    BY <1>2, <2>2, <2>3 DEF Watched, Alive, Placed
  <2> QED BY <2>4, <2>5 DEF Watched
<1> QED BY <1>1, <1>3, <1>4, <1>5, <1>6 DEF Core

\* Its master loses a summon that leaves before or after it is gone.
LEMMA LostThenGone ==
  ASSUME NEW w, w \in CreatureWorld, NEW c \in Creature, c \in Monster => w.master[c] # c
  PROVE  Releasing(LostByMaster([w EXCEPT !.stage[c] = "removed"], c), c) = Gone(LostByMaster(w, c), c)
<1> DEFINE s == [w EXCEPT !.stage[c] = "removed"]
<1>1. s.master = w.master /\ s.summons = w.summons /\ s.refs = w.refs
  BY DEF CreatureWorld
<1>2. c \in Monster => (w.master[c] \in Placed(s) <=> w.master[c] \in Placed(w))
  BY DEF CreatureWorld, Placed
<1>3. CASE ~(c \in Monster /\ w.master[c] \in Placed(w))
  <2>1. LostByMaster(s, c) = s /\ LostByMaster(w, c) = w
    <3> HIDE DEF s
    <3> QED BY <1>1, <1>2, <1>3 DEF LostByMaster
  <2> QED BY <2>1 DEF Releasing, Gone, RemoveCreatureCheck, CreatureWorld
<1>4. CASE c \in Monster /\ w.master[c] \in Placed(w)
  <2> DEFINE d == w.master[c]
  <2>1. LostByMaster(s, c) = RemoveSummon(s, d, c) /\ LostByMaster(w, c) = RemoveSummon(w, d, c)
    <3> HIDE DEF s
    <3> QED BY <1>1, <1>2, <1>4 DEF LostByMaster
  <2>2. CASE c \notin w.summons[d]
    <3>1. LostByMaster(s, c) = s /\ LostByMaster(w, c) = w
      <4> HIDE DEF s
      <4> QED BY <1>1, <2>1, <2>2 DEF RemoveSummon
    <3> QED BY <3>1 DEF Releasing, Gone, RemoveCreatureCheck, CreatureWorld
  <2>3. CASE c \in w.summons[d]
    <3>1. RemoveSummon(s, d, c) = [Refer(s, {c}, -1) EXCEPT !.master[c] = None, !.summons[d] = @ \ {c}]
      <4> HIDE DEF s
      <4> QED BY <1>1, <2>3 DEF RemoveSummon
    <3>2. RemoveSummon(w, d, c) = [Refer(w, {c}, -1) EXCEPT !.master[c] = None, !.summons[d] = @ \ {c}]
      BY <2>3 DEF RemoveSummon
    <3> DEFINE a == RemoveSummon(s, d, c)
               b == RemoveSummon(w, d, c)
    <3>3. a = [b EXCEPT !.stage[c] = "removed"]
      <4> DEFINE R == [x \in Creature |-> IF x \in {c} THEN w.refs[x] + -1 ELSE w.refs[x]]
      <4>1. Refer(w, {c}, -1) = [w EXCEPT !.refs = R]
        BY DEF Refer, CreatureWorld
      <4>2. Refer(s, {c}, -1) = [s EXCEPT !.refs = R]
        <5>1. s.refs = w.refs
          BY <1>1
        <5>2. s \in CreatureWorld
          BY DEF CreatureWorld
        <5> HIDE DEF s
        <5> QED BY <5>1, <5>2 DEF Refer, CreatureWorld
      <4> HIDE DEF R, d
      <4>3. a = [[s EXCEPT !.refs = R] EXCEPT !.master[c] = None, !.summons[d] = @ \ {c}]
        BY <3>1, <4>2
      <4>4. b = [[w EXCEPT !.refs = R] EXCEPT !.master[c] = None, !.summons[d] = @ \ {c}]
        BY <3>2, <4>1
      <4> HIDE DEF a, b
      <4> QED BY <4>3, <4>4 DEF CreatureWorld
    <3>4. b \in CreatureWorld
      BY <1>4, <2>3, DismissesIs DEF Dismisses, Placed
    <3>5. LostByMaster(s, c) = a /\ LostByMaster(w, c) = b
      BY <2>1
    <3> HIDE DEF a, b, s, d
    <3> QED BY <3>3, <3>4, <3>5, ZenonT(60) DEF Releasing, Gone, RemoveCreatureCheck, CreatureWorld, s
  <2> QED BY <2>2, <2>3
<1> QED BY <1>3, <1>4

\* What becomes of the others, and of it, when c leaves.
LosesMaster(w, v, c) ==
  IF c \in Monster /\ w.master[c] \in Placed(w)
  THEN /\ v.master = [w.master EXCEPT ![c] = None]
       /\ v.summons = [w.summons EXCEPT ![w.master[c]] = @ \ {c}]
  ELSE v.master = w.master /\ v.summons = w.summons
Leaves(w, v, c) ==
  /\ v.stage = [w.stage EXCEPT ![c] = "removed"] /\ v.releasing = w.releasing \union {c}
  /\ v.dead = w.dead /\ LosesMaster(w, v, c)
  /\ \A x \in Monster : v.targets[x] \subseteq w.targets[x]
  /\ c \in Monster /\ ~w.dead[c] => v.targets[c] = {}
  /\ \A x \in (Placed(w) \intersect Monster) \ {c} : IsOpponent(w, x, c) => c \notin v.targets[x]
  /\ \A x \in Creature : w.vector[x] # "out" => v.vector[x] # "out"

\* LostByMaster does so, and keeps the counts.
LEMMA LostMaster ==
  ASSUME NEW w, Core(w), Watched(w, {}, {}), NEW c \in Creature
  PROVE  /\ Core(LostByMaster(w, c)) /\ Watched(LostByMaster(w, c), {}, {})
         /\ SameSights(w, LostByMaster(w, c)) /\ LosesMaster(w, LostByMaster(w, c), c)
<1> DEFINE v == LostByMaster(w, c)
<1>1. w \in CreatureWorld
  BY DEF Core
<1>2. CASE c \in Monster /\ w.master[c] \in Placed(w)
  <2> DEFINE d == w.master[c]
  <2>1. d \in Creature /\ c \in w.summons[d]
    BY <1>2 DEF Core, Tied, Placed
  <2>2. v = RemoveSummon(w, d, c)
    BY <1>2 DEF LostByMaster
  <2> HIDE DEF v
  <2>3. Dismisses(w, v, d, c)
    BY <1>1, <2>1, <2>2, DismissesIs
  <2>4. Core(v) /\ Watched(v, {}, {})
    BY <2>1, <2>3, Dismissing
  <2>5. SameSights(w, v) /\ LosesMaster(w, v, c)
    BY <1>2, <2>3 DEF Dismisses, LosesMaster
  <2> QED BY <2>4, <2>5 DEF v
<1>3. CASE ~(c \in Monster /\ w.master[c] \in Placed(w))
  <2>1. v = w
    BY <1>3 DEF LostByMaster
  <2> HIDE DEF v
  <2>2. Core(v) /\ Watched(v, {}, {}) /\ SameSights(w, v) /\ LosesMaster(w, v, c)
    BY <1>3, <2>1 DEF SameSights, SameAnchors, LosesMaster
  <2> QED BY <2>2 DEF v
<1> QED BY <1>2, <1>3

\* removeCreature, but for the summons.
LEMMA Disappearing ==
  ASSUME NEW w, Core(w), Watched(w, {}, {}), NEW c \in Creature, w.stage[c] = "placed", NEW asleep
  PROVE  /\ Core(Disappear(w, c, asleep)) /\ Watched(Disappear(w, c, asleep), {}, {})
         /\ Leaves(w, Disappear(w, c, asleep), c)
<1> DEFINE M == (Placed(w) \intersect Monster) \ {c}
           left == LeftBy(w, M, c, asleep)
           u == IF c \in Monster THEN SetIdle(left, c, TRUE) ELSE left
           l == LostByMaster(u, c)
           v == Gone(l, c)
<1>0. w \in CreatureWorld
  BY DEF Core
<1>1. Disappear(w, c, asleep)
        = Releasing(LostByMaster([u EXCEPT !.stage[c] = "removed"], c), c)
  BY DEF Disappear, OffTheMap
<1>2. /\ Seen(w, left, {})
      /\ \A x \in Monster : left.targets[x] \subseteq w.targets[x]
      /\ \A x \in M : IsOpponent(w, x, c) => c \notin left.targets[x]
  <2>1. M \in SUBSET Monster /\ \A m \in M : w.stage[m] # "free"
    BY DEF Placed
  <2> HIDE DEF M
  <2> QED BY <2>1, LeftBySeen
<1> HIDE DEF left
<1>3. Core(left) /\ Watched(left, {}, {}) /\ Keeps(w, left) /\ left \in CreatureWorld
  BY <1>2 DEF Seen, Glance, Core
<1>4. /\ Core(u) /\ Watched(u, {}, {}) /\ Keeps(left, u)
      /\ \A x \in Monster : u.targets[x] \subseteq left.targets[x]
      /\ c \in Monster /\ ~w.dead[c] => u.targets[c] = {}
  <2>1. CASE c \in Monster
    <3> DEFINE b == TRUE
               s == SetIdle(left, c, b)
    <3>1. Watched(left, {}, {c}) /\ left.stage[c] = "placed" /\ left.dead[c] = w.dead[c]
      BY <1>3 DEF Watched, Keeps
    <3>2. b \in BOOLEAN /\ b /\ s = SetIdle(left, c, b) /\ left.stage[c] # "free"
      BY <3>1
    <3>6. u = s
      BY <2>1
    <3> HIDE DEF s, u, l, v, M, b
    <3>31. Core(left) /\ c \in Monster /\ left.stage[c] # "free" /\ b \in BOOLEAN
      BY <1>3, <2>1, <3>2
    <3>32. Core(s)
      BY <3>1, <3>2, <3>31, IdleSet
    <3>33. Watched(s, {}, {})
      BY <3>1, <3>2, <3>31, IdleSet
    <3>34. left.stage[c] = "placed" /\ ~left.dead[c] /\ b => EmptyHanded(left, s, c)
      BY <3>1, <3>2, <3>31, IdleSet
    <3>36. Keeps(left, s)
      BY <3>1, <3>2, <3>31, IdleSet
    <3>37. ~left.dead[c] => s.targets = [left.targets EXCEPT ![c] = {}]
      BY <3>1, <3>2, <3>34 DEF EmptyHanded
    <3>38. left.dead[c] => s = left
      BY <3>2 DEF SetIdle
    <3>4. \A x \in Monster : s.targets[x] \subseteq left.targets[x]
      BY <1>3, <3>37, <3>38 DEF CreatureWorld
    <3>5. ~w.dead[c] => s.targets[c] = {}
      BY <1>3, <2>1, <3>1, <3>37 DEF CreatureWorld
    <3> QED BY <3>32, <3>33, <3>36, <3>4, <3>5, <3>6
  <2>2. CASE c \notin Monster
    <3>1. u = left
      BY <2>2
    <3> HIDE DEF u
    <3> QED BY <1>3, <2>2, <3>1 DEF Keeps
  <2> QED BY <2>1, <2>2
<1> HIDE DEF u
<1>5. u \in CreatureWorld /\ (c \in Monster => u.master[c] # c)
  BY <1>4, Kinds DEF Core, Tied
<1>6. Disappear(w, c, asleep) = v
  BY <1>1, <1>5, LostThenGone
<1>7. Core(l) /\ Watched(l, {}, {}) /\ SameSights(u, l) /\ LosesMaster(u, l, c)
  BY <1>4, LostMaster
<1> HIDE DEF l
<1>8. Goes(l, v, c) /\ l \in CreatureWorld
  BY <1>7, GoesIs DEF Core
<1> HIDE DEF v
<1>9. l.stage = w.stage /\ l.dead = w.dead /\ l.releasing = w.releasing
  BY <1>3, <1>4, <1>7 DEF Keeps, SameSights, SameAnchors
<1>10. Core(v) /\ Watched(v, {}, {})
  BY <1>7, <1>8, <1>9, Going
<1>11. u.master = w.master /\ u.summons = w.summons /\ Placed(u) = Placed(w)
  BY <1>3, <1>4 DEF Keeps, Placed
<1>12. LosesMaster(w, v, c)
  BY <1>7, <1>8, <1>11 DEF LosesMaster, Goes
<1>13. v.targets = u.targets
  BY <1>7, <1>8 DEF SameSights, Goes
<1>14. \A x \in Creature : w.vector[x] # "out" => v.vector[x] # "out"
  BY <1>3, <1>4, <1>7, <1>8 DEF Keeps, SameSights, SameAnchors, Goes
<1>15. v.stage = [w.stage EXCEPT ![c] = "removed"] /\ v.releasing = w.releasing \union {c} /\ v.dead = w.dead
  BY <1>8, <1>9 DEF Goes
<1>16. \A x \in Monster : v.targets[x] \subseteq w.targets[x]
  BY <1>2, <1>4, <1>13
<1>17. c \in Monster /\ ~w.dead[c] => v.targets[c] = {}
  BY <1>4, <1>13
<1>18. \A x \in M : IsOpponent(w, x, c) => c \notin v.targets[x]
  BY <1>2, <1>4, <1>13
<1>19. Leaves(w, v, c)
  BY <1>12, <1>14, <1>15, <1>16, <1>17, <1>18 DEF Leaves
<1> QED BY <1>6, <1>10, <1>19

\* What an object keeps, and those that have left the map.
Holds(w, c) == w.summons[c] \union (IF c \in Monster THEN w.targets[c] ELSE {})
Removed(w) == {c \in Creature : w.stage[c] = "removed"}
\* Whoever a monster's summon fights, unless it has died and dismissed its summons.
Harmless(w, c) ==
  \/ c \in Hunter \/ w.master[c] \in Hunter
  \/ w.dead[c] /\ w.master[c] = None /\ w.summons[c] = {}
\* Summons are on the map with their masters, but for those of Y; a summon whose
\* state is settled looks for nobody who keeps what has left the map.
Together(w, Y) ==
  \A m \in Monster : w.master[m] \in Creature \ Y =>
    (w.stage[m] = "placed" <=> w.stage[w.master[m]] = "placed")
Loose(w, X, Y) ==
  /\ Together(w, Y)
  /\ \A m \in Monster, c \in Creature :
       c \in w.targets[m] /\ w.stage[m] = "placed" /\ m \notin X =>
         /\ w.master[m] \in Monster /\ w.stage[c] = "placed" /\ c \notin X => Harmless(w, c)
         /\ w.master[m] # None /\ w.stage[c] = "removed" => Holds(w, c) = {}
Acyclic(w) ==
  \A D \in SUBSET Removed(w) : D # {} => \E c \in D : \A d \in D : c \notin Holds(w, d)
Untangled(w, X, Y) == Loose(w, X, Y) /\ Acyclic(w)

\* Nobody tangles by giving up what it keeps.
LEMMA AcyclicStays ==
  ASSUME NEW w, NEW v, Acyclic(w), Removed(v) \subseteq Removed(w),
         \A d \in Removed(v) : Holds(v, d) \subseteq Holds(w, d)
  PROVE  Acyclic(v)
<1> SUFFICES ASSUME NEW D \in SUBSET Removed(v), D # {}
             PROVE  \E c \in D : \A d \in D : c \notin Holds(v, d)
  BY DEF Acyclic
<1>1. D \in SUBSET Removed(w)
  OBVIOUS
<1>2. PICK c \in D : \A d \in D : c \notin Holds(w, d)
  BY <1>1 DEF Acyclic
<1> QED BY <1>2

\* Nor by leaving the map, when it keeps only what keeps nothing.
LEMMA AcyclicJoins ==
  ASSUME NEW w, NEW v, Acyclic(w), NEW c, Removed(v) = Removed(w) \union {c},
         \A d \in Removed(w) : Holds(v, d) \subseteq Holds(w, d),
         c \notin Holds(v, c), c \notin Removed(w),
         \A d \in Removed(w) \intersect Holds(v, c) : Holds(v, d) = {}
  PROVE  Acyclic(v)
<1> SUFFICES ASSUME NEW D \in SUBSET Removed(v), D # {}
             PROVE  \E x \in D : \A d \in D : x \notin Holds(v, d)
  BY DEF Acyclic
<1> DEFINE E == (D \ {c}) \ Holds(v, c)
<1>1. E \in SUBSET Removed(w)
  OBVIOUS
<1>2. CASE E = {}
  <2>1. \A d \in D \ {c} : Holds(v, d) = {}
    BY <1>2
  <2>2. CASE c \in D
    BY <2>1, <2>2
  <2>3. CASE c \notin D
    <3>1. PICK x \in D : TRUE
      OBVIOUS
    <3> QED BY <2>1, <2>3, <3>1
  <2> QED BY <2>2, <2>3
<1>3. CASE E # {}
  <2>1. PICK x \in E : \A d \in E : x \notin Holds(w, d)
    BY <1>1, <1>3 DEF Acyclic
  <2>2. \A d \in D : x \notin Holds(v, d)
    <3> SUFFICES ASSUME NEW d \in D PROVE x \notin Holds(v, d)
      OBVIOUS
    <3>1. CASE d = c
      BY <3>1
    <3>2. CASE d # c /\ d \in Holds(v, c)
      <4>1. d \in Removed(w) \intersect Holds(v, c)
        BY <3>2
      <4> QED BY <4>1
    <3>3. CASE d # c /\ d \notin Holds(v, c)
      <4>1. d \in E /\ d \in Removed(w)
        BY <3>3
      <4> QED BY <2>1, <4>1
    <3> QED BY <3>1, <3>2, <3>3
  <2> QED BY <2>2
<1> QED BY <1>2, <1>3

\* Looking about tangles nothing.
LEMMA GlanceUntangled ==
  ASSUME NEW w, w \in CreatureWorld, NEW v, v \in CreatureWorld, Glance(w, v),
         NEW X, NEW Y, Untangled(w, X, Y)
  PROVE  Untangled(v, X, Y)
<1>1. /\ v.stage = w.stage /\ v.dead = w.dead /\ v.master = w.master /\ v.summons = w.summons
  BY DEF Glance, Keeps
<1>2. ASSUME NEW m \in Monster, NEW c \in v.targets[m]
      PROVE  \/ c \in w.targets[m]
             \/ w.stage[m] = "placed" /\ w.stage[c] = "placed" /\ IsOpponent(w, m, c)
  BY DEF Glance
<1>3. \A d \in Creature : w.stage[d] = "removed" => Holds(v, d) \subseteq Holds(w, d)
  BY <1>1, <1>2 DEF Holds
<1>4. Acyclic(v)
  <2>1. Removed(v) = Removed(w)
    BY <1>1 DEF Removed
  <2>2. \A d \in Removed(v) : Holds(v, d) \subseteq Holds(w, d)
    BY <1>3, <2>1 DEF Removed
  <2> QED BY <2>1, <2>2, AcyclicStays DEF Untangled
<1>5. Together(v, Y)
  BY <1>1 DEF Untangled, Loose, Together
<1>6. ASSUME NEW m \in Monster, NEW c \in Creature, c \in v.targets[m], v.stage[m] = "placed", m \notin X
      PROVE  /\ v.master[m] \in Monster /\ v.stage[c] = "placed" /\ c \notin X => Harmless(v, c)
             /\ v.master[m] # None /\ v.stage[c] = "removed" => Holds(v, c) = {}
  <2>1. CASE c \in w.targets[m]
    <3>1. /\ w.master[m] \in Monster /\ w.stage[c] = "placed" /\ c \notin X => Harmless(w, c)
          /\ w.master[m] # None /\ w.stage[c] = "removed" => Holds(w, c) = {}
      BY <1>1, <1>6, <2>1 DEF Untangled, Loose
    <3>2. Harmless(w, c) => Harmless(v, c)
      BY <1>1 DEF Harmless
    <3>3. w.stage[c] = "removed" => Holds(v, c) \subseteq Holds(w, c)
      BY <1>3
    <3> QED BY <1>1, <3>1, <3>2, <3>3
  <2>2. CASE w.stage[m] = "placed" /\ w.stage[c] = "placed" /\ IsOpponent(w, m, c)
    <3>1. w.master[m] \in Monster => Harmless(v, c)
      BY <1>1, <2>2, Kinds DEF IsOpponent, Harmless
    <3> QED BY <1>1, <2>2, <3>1
  <2> QED BY <1>2, <1>6, <2>1, <2>2
<1> QED BY <1>4, <1>5, <1>6 DEF Untangled, Loose

\* A death tangles nothing.
LEMMA PerishUntangled ==
  ASSUME NEW w, w \in CreatureWorld, NEW v, v \in CreatureWorld, NEW c \in Creature, Perishes(w, v, c),
         NEW X, NEW Y, Untangled(w, X, Y)
  PROVE  Untangled(v, X, Y)
<1>1. /\ v.stage = w.stage /\ v.master = w.master /\ v.summons = w.summons /\ v.targets = w.targets
      /\ v.dead = [w.dead EXCEPT ![c] = TRUE]
  BY DEF Perishes
<1>2. \A x : Holds(v, x) = Holds(w, x)
  BY <1>1 DEF Holds
<1>3. Removed(v) = Removed(w)
  BY <1>1 DEF Removed
<1>4. Acyclic(v)
  BY <1>2, <1>3 DEF Untangled, Acyclic
<1>5. \A x \in Creature : w.dead[x] => v.dead[x]
  BY <1>1 DEF CreatureWorld
<1>6. \A x \in Creature : Harmless(w, x) => Harmless(v, x)
  BY <1>1, <1>5 DEF Harmless
<1> QED BY <1>1, <1>2, <1>4, <1>6 DEF Untangled, Loose, Together

\* Nor do the deaths and dismissals of summons.
LEMMA SlainUntangled ==
  ASSUME NEW w, Core(w), NEW v, v \in CreatureWorld, NEW c \in Creature,
         Slain(w, v, c, w.summons[c]), NEW X, Untangled(w, X, {})
  PROVE  Untangled(v, X, {})
<1> DEFINE T == w.summons[c]
<1>0. w \in CreatureWorld
  BY DEF Core
<1>1. /\ v.stage = w.stage /\ v.targets = w.targets
      /\ v.master = [m \in Monster |-> IF m \in T THEN None ELSE w.master[m]]
      /\ v.summons = [w.summons EXCEPT ![c] = @ \ T]
  BY DEF Slain
<1>2. \A x \in Creature : v.dead[x] <=> (w.dead[x] \/ x \in T)
  BY DEF Slain
<1>3. \A x \in Creature : v.summons[x] \subseteq w.summons[x] /\ Holds(v, x) \subseteq Holds(w, x)
  BY <1>0, <1>1 DEF Holds, CreatureWorld
<1>4. Acyclic(v)
  <2>1. Removed(v) = Removed(w)
    BY <1>1 DEF Removed
  <2>2. \A d \in Removed(v) : Holds(v, d) \subseteq Holds(w, d)
    BY <1>3 DEF Removed
  <2> QED BY <2>1, <2>2, AcyclicStays DEF Untangled
<1>5. ASSUME NEW x \in Creature, Harmless(w, x) PROVE Harmless(v, x)
  <2>1. CASE x \in Hunter
    BY <2>1 DEF Harmless
  <2>2. CASE x \notin Hunter /\ x \in T
    <3>1. x \in Monster /\ w.master[x] = c
      BY <2>2, Kinds DEF Core, Tied
    <3>2. w.summons[x] = {}
      BY <3>1, Kinds DEF Core, Tied
    <3>3. v.dead[x] /\ v.master[x] = None /\ v.summons[x] = {}
      BY <1>1, <1>2, <1>3, <2>2, <3>1, <3>2
    <3> QED BY <3>3 DEF Harmless
  <2>3. CASE x \notin Hunter /\ x \notin T
    <3>1. x \in Monster /\ v.master[x] = w.master[x]
      BY <1>1, <2>3, Kinds
    <3>2. w.dead[x] => v.dead[x]
      BY <1>2
    <3> QED BY <1>3, <1>5, <3>1, <3>2 DEF Harmless
  <2> QED BY <2>1, <2>2, <2>3
<1>6. Together(v, {})
  BY <1>1, Kinds DEF Untangled, Loose, Together
<1>7. \A m \in Monster : v.master[m] = w.master[m] \/ v.master[m] = None
  BY <1>1
<1> HIDE DEF T
<1>8. ASSUME NEW m \in Monster, NEW x \in Creature, x \in v.targets[m], v.stage[m] = "placed", m \notin X
      PROVE  /\ v.master[m] \in Monster /\ v.stage[x] = "placed" /\ x \notin X => Harmless(v, x)
             /\ v.master[m] # None /\ v.stage[x] = "removed" => Holds(v, x) = {}
  <2>1. /\ w.master[m] \in Monster /\ w.stage[x] = "placed" /\ x \notin X => Harmless(w, x)
        /\ w.master[m] # None /\ w.stage[x] = "removed" => Holds(w, x) = {}
    BY <1>1, <1>8 DEF Untangled, Loose
  <2> QED BY <1>1, <1>3, <1>5, <1>7, <2>1, Kinds
<1> QED BY <1>4, <1>6, <1>8 DEF Untangled, Loose

\* Who leaves the map without having tidied up is a summon.
Fit(w, c) == c \in Monster /\ w.dead[c] /\ w.targets[c] # {} => w.master[c] # None

\* Who leaves tangles nothing, while its own summons are still there.
LEMMA LeavesUntangled ==
  ASSUME NEW w, Core(w), NEW v, v \in CreatureWorld, NEW c \in Creature, w.stage[c] = "placed",
         Leaves(w, v, c), Fit(w, c), NEW Y, c \notin Y, Untangled(w, {}, Y)
  PROVE  Untangled(v, {}, Y \union {c})
<1>0. w \in CreatureWorld
  BY DEF Core
<1>1. \A x \in Creature : v.stage[x] = IF x = c THEN "removed" ELSE w.stage[x]
  BY <1>0 DEF Leaves, CreatureWorld
<1>2. v.dead = w.dead /\ LosesMaster(w, v, c)
      /\ \A x \in Monster : v.targets[x] \subseteq w.targets[x]
  BY DEF Leaves
<1>3. \A x \in Creature : v.summons[x] \subseteq w.summons[x]
  BY <1>0, <1>2 DEF LosesMaster, CreatureWorld
<1>4. \A x \in Creature : Holds(v, x) \subseteq Holds(w, x)
  BY <1>2, <1>3 DEF Holds
<1>5. \A m \in Monster \ {c} : v.master[m] = w.master[m]
  BY <1>0, <1>2 DEF LosesMaster, CreatureWorld
<1>6. ASSUME NEW m \in Monster, NEW x \in Creature, x \in v.targets[m], v.stage[m] = "placed"
      PROVE  /\ v.master[m] \in Monster /\ v.stage[x] = "placed" => Harmless(v, x)
             /\ v.master[m] # None /\ v.stage[x] = "removed" => Holds(v, x) = {}
  <2>1. m # c /\ m \in Creature /\ w.stage[m] = "placed" /\ x \in w.targets[m]
    BY <1>1, <1>2, <1>6, Kinds
  <2>2. /\ w.master[m] \in Monster /\ w.stage[x] = "placed" => Harmless(w, x)
        /\ w.master[m] # None /\ w.stage[x] = "removed" => Holds(w, x) = {}
    BY <2>1 DEF Untangled, Loose
  <2>3. CASE x # c
    <3>1. Harmless(w, x) => Harmless(v, x)
      BY <1>2, <1>3, <1>5, <2>3, Kinds DEF Harmless
    <3> QED BY <1>1, <1>4, <1>5, <2>1, <2>2, <2>3, <3>1
  <2>4. CASE x = c
    <3>1. ~IsOpponent(w, m, c)
      BY <1>6, <2>1, <2>4 DEF Leaves, Placed
    <3>2. v.master[m] # None => w.master[m] \in Monster
      BY <1>0, <1>5, <2>1, <3>1, Kinds DEF IsOpponent, CreatureWorld
    <3>3. w.master[m] \in Monster => Harmless(w, c)
      BY <2>2, <2>4
    <3>4. w.master[m] \in Monster => w.dead[c] /\ w.master[c] = None /\ w.summons[c] = {}
      BY <3>1, <3>3 DEF Harmless, IsOpponent
    <3>5. c \in Monster
      BY <3>1, Kinds DEF IsOpponent
    <3>6. w.master[m] \in Monster => Holds(w, c) = {}
      BY <3>4, <3>5 DEF Fit, Holds
    <3>7. v.stage[x] = "removed"
      BY <1>1, <2>4
    <3> QED BY <1>4, <2>4, <3>2, <3>6, <3>7
  <2> QED BY <2>3, <2>4
<1>7. Together(v, Y \union {c})
  <2> SUFFICES ASSUME NEW m \in Monster, v.master[m] \in Creature, v.master[m] \notin Y, v.master[m] # c
               PROVE  v.stage[m] = "placed" <=> v.stage[v.master[m]] = "placed"
    BY DEF Together
  <2>1. m # c
    <3> SUFFICES ASSUME m = c PROVE FALSE
      OBVIOUS
    <3>1. w.master[c] \in Creature \ Y /\ w.master[c] \notin Placed(w)
      BY <1>2, Kinds DEF LosesMaster, CreatureWorld
    <3>2. w.stage[w.master[c]] = "placed"
      BY <3>1 DEF Untangled, Loose, Together
    <3> QED BY <3>1, <3>2 DEF Placed
  <2>2. w.stage[m] = "placed" <=> w.stage[v.master[m]] = "placed"
    BY <1>5, <2>1 DEF Untangled, Loose, Together
  <2> QED BY <1>1, <2>1, <2>2, Kinds
<1>8. Acyclic(v)
  <2>1. Removed(v) = Removed(w) \union {c} /\ c \notin Removed(w)
    BY <1>1 DEF Removed
  <2>2. c \notin Holds(v, c)
    <3>1. c \notin Holds(w, c)
      BY Kinds DEF Core, Tied, Apart, Holds, CreatureWorld
    <3> QED BY <1>4, <3>1
  <2>3. ASSUME NEW d \in Removed(w) \intersect Holds(v, c) PROVE Holds(v, d) = {}
    <3>1. d \in Creature /\ w.stage[d] = "removed" /\ d \in Holds(w, c)
      BY <1>4 DEF Removed
    <3>2. d \notin w.summons[c]
      <4> SUFFICES ASSUME d \in w.summons[c] PROVE FALSE
        OBVIOUS
      <4>1. d \in Monster /\ w.master[d] = c
        BY <1>0 DEF Core, Tied, CreatureWorld
      <4>2. w.stage[d] = "placed"
        BY <4>1 DEF Untangled, Loose, Together
      <4> QED BY <3>1, <4>2
    <3>3. c \in Monster /\ d \in v.targets[c] /\ d \in w.targets[c]
      BY <1>2, <1>3, <3>2 DEF Holds
    <3>4. w.master[c] # None
      BY <3>3 DEF Leaves, Fit
    <3>5. Holds(w, d) = {}
      BY <3>1, <3>3, <3>4 DEF Untangled, Loose
    <3> QED BY <1>4, <3>1, <3>5
  <2>4. \A d \in Removed(w) : Holds(v, d) \subseteq Holds(w, d)
    BY <1>4 DEF Removed
  <2> QED BY <2>1, <2>2, <2>3, <2>4, AcyclicJoins DEF Untangled
<1> QED BY <1>6, <1>7, <1>8 DEF Untangled, Loose

\* Those of S disappear.
SummonsGone(w, S, asleep) == FoldSet(LAMBDA m, v : Disappear(v, m, asleep), w, S)
\* SummonsGone, of what Disappear keeps.
LEMMA GoneKeeps ==
  ASSUME NEW w, NEW S, NEW asleep, IsFiniteSet(S), NEW G, w \in G[{}],
         \A T \in (SUBSET S) \ {{}} : \A x \in T : \A v \in G[T \ {x}] :
           Disappear(v, x, asleep) \in G[T]
  PROVE  SummonsGone(w, S, asleep) \in G[S]
<1> DEFINE pick == Chosen(S)
           step == [T \in SUBSET S |-> [v \in G[T \ {pick[T]}] |-> Disappear(v, pick[T], asleep)]]
           E(f) == [T \in SUBSET S |-> IF T = {} THEN w
                      ELSE Disappear(f[T \ {CHOOSE x \in T : TRUE}], CHOOSE x \in T : TRUE, asleep)]
           iter == CHOOSE f : f = E(f)
<1>1. SummonsGone(w, S, asleep) = iter[S]
  BY DEF SummonsGone, FoldSet, MapThenFoldSet
<1>2. \A T \in (SUBSET S) \ {{}} : pick[T] = (CHOOSE x \in T : TRUE) /\ pick[T] \in T
  BY Choosing DEF Picks, Chosen
<1>3. \A T \in (SUBSET S) \ {{}} : \A v \in G[T \ {pick[T]}] :
        step[T][v] = Disappear(v, pick[T], asleep)
  OBVIOUS
<1> HIDE DEF pick, step
<1>4. Picks(pick, S) /\ StepsIn(step, pick, S, G)
  <2>1. ASSUME NEW T \in (SUBSET S) \ {{}}, NEW v \in G[T \ {pick[T]}]
        PROVE  step[T][v] \in G[T]
    <3>1. pick[T] \in T
      BY <1>2
    <3> QED BY <1>3, <3>1
  <2>2. Picks(pick, S)
    BY <1>2 DEF Picks
  <2> QED BY <2>1, <2>2 DEF StepsIn
<1>5. iter = E(iter)
  <2>1. PICK f : /\ f = [T \in SUBSET S |-> f[T]]
                 /\ FoldsTo(f, S, w, pick, step) /\ ValuesIn(f, S, G)
    BY <1>4, FoldExists
  <2>2. ASSUME NEW T \in (SUBSET S) \ {{}}
        PROVE  f[T] = Disappear(f[T \ {pick[T]}], pick[T], asleep)
    <3>1. T \in SUBSET S /\ T # {} /\ T \ {pick[T]} \in SUBSET S
      OBVIOUS
    <3>2. f[T \ {pick[T]}] \in G[T \ {pick[T]}]
      BY <2>1, <3>1 DEF ValuesIn
    <3>3. f[T] = step[T][f[T \ {pick[T]}]]
      BY <2>1, <3>1 DEF FoldsTo
    <3> QED BY <3>1, <3>2, <3>3, <1>3
  <2>3. f = E(f)
    BY <2>1, <2>2, <1>2 DEF FoldsTo
  <2> QED BY <2>3, ZenonT(30)
<1>6. /\ iter[{}] = w
      /\ \A T \in (SUBSET S) \ {{}} : iter[T] = Disappear(iter[T \ {pick[T]}], pick[T], asleep)
  BY <1>2, <1>5
<1> HIDE DEF iter
<1>7. Follows(iter, S, G, pick, step)
  BY <1>3, <1>6 DEF Follows
<1>8. iter[S] \in G[S]
  BY <1>4, <1>6, <1>7, FoldStays
<1> QED BY <1>1, <1>8

\* c and those of T leave the map if they are there.
Departs(w, v, c, T) ==
  /\ \A x \in Creature : v.stage[x] =
       IF (x = c \/ x \in T) /\ w.stage[x] = "placed" THEN "removed" ELSE w.stage[x]
  /\ v.dead = w.dead /\ LosesMaster(w, v, c)
  /\ \A x \in Creature : w.vector[x] # "out" => v.vector[x] # "out"

\* One more summon departs.
LEMMA DepartsOn ==
  ASSUME NEW w, Core(w), NEW c \in Creature, w.stage[c] = "placed",
         NEW T \in SUBSET w.summons[c], NEW m \in T, NEW v, v \in CreatureWorld,
         Departs(w, v, c, T \ {m}), NEW u, u \in CreatureWorld, v.stage[m] = "placed", Leaves(v, u, m)
  PROVE  Departs(w, u, c, T)
<1>1. w \in CreatureWorld /\ m \in Monster /\ m \in Creature /\ m # c /\ w.master[m] = c
  <2>1. w \in CreatureWorld /\ m \in w.summons[c]
    BY DEF Core
  <2>2. m \in Monster
    BY <2>1 DEF CreatureWorld
  <2>3. w.master[m] = c
    BY <2>1, <2>2 DEF Core, Tied
  <2>4. w.summons[m] = {}
    BY <2>2, <2>3, Kinds DEF Core, Tied
  <2> QED BY <2>1, <2>2, <2>3, <2>4, Kinds
<1>2. v.stage[c] = "removed" /\ v.master[m] = c
  <2>1. v.stage[c] = "removed"
    BY DEF Departs
  <2>2. v.master[m] = w.master[m]
    BY <1>1 DEF Departs, LosesMaster, CreatureWorld
  <2> QED BY <1>1, <2>1, <2>2
<1>3. u.master = v.master /\ u.summons = v.summons
  BY <1>1, <1>2 DEF Leaves, LosesMaster, Placed
<1>4. \A x \in Creature : u.stage[x] = IF x = m THEN "removed" ELSE v.stage[x]
  BY DEF Leaves, CreatureWorld
<1>5. \A x \in Creature : u.stage[x] =
        IF (x = c \/ x \in T) /\ w.stage[x] = "placed" THEN "removed" ELSE w.stage[x]
  <2>1. w.stage[m] = "placed"
    BY <1>1 DEF Departs
  <2>2. \A x \in Creature : v.stage[x] =
          IF (x = c \/ x \in T \ {m}) /\ w.stage[x] = "placed" THEN "removed" ELSE w.stage[x]
    BY DEF Departs
  <2> QED BY <1>4, <2>1, <2>2
<1>6. \A x \in Creature : w.vector[x] # "out" => u.vector[x] # "out"
  BY DEF Departs, Leaves
<1>7. u.dead = w.dead /\ LosesMaster(w, u, c)
  BY <1>3 DEF Departs, Leaves, LosesMaster
<1> QED BY <1>5, <1>6, <1>7 DEF Departs

\* Whoever leaves takes its summons along.
LEMMA Removing ==
  ASSUME NEW w, Core(w), Watched(w, {}, {}), NEW c \in Creature, w.stage[c] = "placed", NEW asleep
  PROVE  /\ Core(Remove2(w, c, asleep)) /\ Watched(Remove2(w, c, asleep), {}, {})
         /\ Departs(w, Remove2(w, c, asleep), c, w.summons[c])
         /\ Fit(w, c) /\ Untangled(w, {}, {}) => Untangled(Remove2(w, c, asleep), {}, {})
<1> DEFINE S == w.summons[c]
           b == Disappear(w, c, asleep)
           Fine == Fit(w, c) /\ Untangled(w, {}, {})
           Good(u, T) == /\ Core(u) /\ Watched(u, {}, {}) /\ Departs(w, u, c, T)
                         /\ Fine => Untangled(u, {}, {c})
           G == [T \in SUBSET S |-> {u \in CreatureWorld : Good(u, T)}]
           r == SummonsGone(b, S, asleep)
<1>0. w \in CreatureWorld
  BY DEF Core
<1>1. S \in SUBSET Monster /\ IsFiniteSet(S)
  BY <1>0, Kinds, FS_Subset DEF CreatureWorld
<1>2. r = Remove2(w, c, asleep)
  BY DEF SummonsGone, Remove2
<1>3. Good(b, {})
  <2>1. Core(b) /\ Watched(b, {}, {}) /\ Leaves(w, b, c)
    BY Disappearing
  <2> HIDE DEF b
  <2>2. b \in CreatureWorld
    BY <2>1 DEF Core
  <2>3. Departs(w, b, c, {})
    BY <1>0, <2>1 DEF Departs, Leaves, CreatureWorld
  <2>4. Fine => Untangled(b, {}, {c})
    <3>1. c \notin {} /\ {} \union {c} = {c}
      OBVIOUS
    <3>2. Fine => Untangled(b, {}, {} \union {c})
      BY <2>1, <2>2, <3>1, LeavesUntangled
    <3> QED BY <3>1, <3>2
  <2> HIDE DEF Fine
  <2> QED BY <2>1, <2>3, <2>4
<1> HIDE DEF Fine, b
<1>4. ASSUME NEW T \in (SUBSET S) \ {{}}, NEW m \in T, NEW v, Good(v, T \ {m})
      PROVE  Good(Disappear(v, m, asleep), T)
  <2> DEFINE u == Disappear(v, m, asleep)
  <2>1. Core(v) /\ Watched(v, {}, {}) /\ Departs(w, v, c, T \ {m}) /\ v \in CreatureWorld
    BY <1>4 DEF Core
  <2>11. Fine => Untangled(v, {}, {c})
    BY <1>4
  <2> HIDE DEF G
  <2>2. T \in SUBSET w.summons[c] /\ m \in Monster /\ m \in Creature /\ m # c /\ w.master[m] = c
    BY <1>0, <1>1, Kinds DEF Core, Tied
  <2>3. v.master[m] = c /\ v.summons[m] = {}
    <3>1. v.master[m] = c
      BY <1>0, <2>1, <2>2 DEF Departs, LosesMaster, CreatureWorld
    <3> QED BY <2>1, <2>2, <3>1, Kinds DEF Core, Tied
  <2>4. CASE v.stage[m] # "placed"
    <3>1. u = v
      BY <2>4 DEF Disappear
    <3>2. Departs(w, v, c, T)
      <4>1. w.stage[m] # "placed"
        BY <2>1, <2>2, <2>4 DEF Departs
      <4>2. \A x \in Creature : (x \in T /\ w.stage[x] = "placed") <=> (x \in T \ {m} /\ w.stage[x] = "placed")
        BY <4>1
      <4> QED BY <2>1, <4>2 DEF Departs
    <3> HIDE DEF u
    <3>3. Good(u, T)
      BY <2>1, <2>11, <3>1, <3>2
    <3> QED BY <3>3 DEF u
  <2>5. CASE v.stage[m] = "placed"
    <3>1. Core(u) /\ Watched(u, {}, {}) /\ Leaves(v, u, m)
      BY <2>1, <2>2, <2>5, Disappearing
    <3> HIDE DEF u
    <3>2. u \in CreatureWorld
      BY <3>1 DEF Core
    <3>3. Departs(w, u, c, T)
      BY <2>1, <2>2, <2>5, <3>1, <3>2, DepartsOn
    <3>4. Fine => Untangled(u, {}, {c})
      <4>1. Fit(v, m) /\ m \notin {c}
        BY <2>2, <2>3, Kinds DEF Fit
      <4>2. Fine => Untangled(u, {}, {c} \union {m})
        BY <2>1, <2>11, <2>2, <2>5, <3>1, <3>2, <4>1, LeavesUntangled
      <4>3. \A x \in Monster : u.master[x] # m
        <5>1. u.summons[m] = {}
          BY <2>1, <2>2, <2>3, <3>1 DEF Leaves, LosesMaster, CreatureWorld
        <5> QED BY <2>2, <3>1, <5>1 DEF Core, Tied
      <4>4. Together(u, {c} \union {m}) => Together(u, {c})
        BY <4>3 DEF Together
      <4> QED BY <4>2, <4>4 DEF Untangled, Loose
    <3>5. Good(u, T)
      BY <3>1, <3>3, <3>4
    <3> QED BY <3>5 DEF u
  <2> QED BY <2>4, <2>5
<1> HIDE DEF S
<1>5. r \in G[S]
  <2>1. ASSUME NEW T \in (SUBSET S) \ {{}}, NEW x \in T, NEW v \in G[T \ {x}]
        PROVE  Disappear(v, x, asleep) \in G[T]
    <3> HIDE DEF Good
    <3>1. Good(v, T \ {x})
      OBVIOUS
    <3>2. Good(Disappear(v, x, asleep), T)
      BY <1>4, <3>1
    <3>3. Disappear(v, x, asleep) \in CreatureWorld
      BY <3>2 DEF Good, Core
    <3> QED BY <3>2, <3>3
  <2>2. b \in G[{}]
    <3>1. b \in CreatureWorld
      BY <1>3 DEF Core
    <3> HIDE DEF Good
    <3> QED BY <1>3, <3>1
  <2> HIDE DEF G
  <2> QED BY <1>1, <2>1, <2>2, GoneKeeps
<1>6. Good(r, S)
  <2> HIDE DEF Good, r
  <2> QED BY <1>5
<1> HIDE DEF r, G
<1>7. Core(r) /\ Watched(r, {}, {}) /\ Departs(w, r, c, S) /\ (Fine => Untangled(r, {}, {c}))
  BY <1>6
<1> HIDE DEF Good
<1>8. Together(r, {c}) => Together(r, {})
  <2> SUFFICES ASSUME Together(r, {c}), NEW m \in Monster, r.master[m] \in Creature
               PROVE  r.stage[m] = "placed" <=> r.stage[r.master[m]] = "placed"
    BY DEF Together
  <2>1. CASE r.master[m] # c
    BY <2>1 DEF Together
  <2>2. CASE r.master[m] = c
    <3>1. m \in r.summons[c] /\ r.summons[c] \subseteq w.summons[c]
      BY <1>0, <1>7, <2>2 DEF Core, Tied, Departs, LosesMaster, CreatureWorld
    <3>2. r.stage[m] # "placed" /\ r.stage[c] # "placed"
      BY <1>7, <3>1, Kinds DEF Departs, S
    <3> QED BY <2>2, <3>2
  <2> QED BY <2>1, <2>2
<1>9. Fine => Untangled(r, {}, {})
  BY <1>7, <1>8 DEF Untangled, Loose
<1> QED BY <1>2, <1>7, <1>9 DEF S, Fine

\* A dead summon that gets free tangles nothing.
LEMMA DismissUntangled ==
  ASSUME NEW w, Core(w), NEW d \in Creature, NEW c \in w.summons[d], w.dead[c],
         NEW v, Dismisses(w, v, d, c), Untangled(w, {}, {})
  PROVE  Untangled(v, {}, {})
<1>1. w \in CreatureWorld /\ v \in CreatureWorld
  BY DEF Core, Dismisses
<1>2. c \in Monster /\ w.master[c] = d /\ w.summons[c] = {}
  <2>1. c \in Monster
    BY <1>1 DEF CreatureWorld
  <2>2. w.master[c] = d
    BY <2>1 DEF Core, Tied
  <2> QED BY <2>1, <2>2, Kinds DEF Core, Tied
<1>3. /\ v.stage = w.stage /\ v.targets = w.targets /\ v.dead = w.dead
      /\ v.master = [w.master EXCEPT ![c] = None]
      /\ v.summons = [w.summons EXCEPT ![d] = @ \ {c}]
  BY DEF Dismisses, SameSights, SameAnchors
<1>4. \A x \in Creature : v.summons[x] \subseteq w.summons[x] /\ Holds(v, x) \subseteq Holds(w, x)
  BY <1>1, <1>3 DEF Holds, CreatureWorld
<1>5. \A m \in Monster : v.master[m] = IF m = c THEN None ELSE w.master[m]
  BY <1>1, <1>3 DEF CreatureWorld
<1>6. Acyclic(v)
  <2>1. Removed(v) = Removed(w)
    BY <1>3 DEF Removed
  <2>2. \A x \in Removed(v) : Holds(v, x) \subseteq Holds(w, x)
    BY <1>4 DEF Removed
  <2> QED BY <2>1, <2>2, AcyclicStays DEF Untangled
<1>7. ASSUME NEW x \in Creature, Harmless(w, x) PROVE Harmless(v, x)
  <2>1. CASE x = c
    <3>1. v.summons[c] = {}
      BY <1>2, <1>4, Kinds
    <3> QED BY <1>2, <1>3, <1>5, <2>1, <3>1 DEF Harmless
  <2>2. CASE x \in Hunter
    BY <2>2 DEF Harmless
  <2>3. CASE x # c /\ x \notin Hunter
    <3>1. v.master[x] = w.master[x]
      BY <1>5, <2>3, Kinds
    <3> QED BY <1>3, <1>4, <1>7, <3>1 DEF Harmless
  <2> QED BY <2>1, <2>2, <2>3
<1>8. Together(v, {})
  BY <1>3, <1>5, Kinds DEF Untangled, Loose, Together
<1>9. ASSUME NEW m \in Monster, NEW x \in Creature, x \in v.targets[m], v.stage[m] = "placed"
      PROVE  /\ v.master[m] \in Monster /\ v.stage[x] = "placed" => Harmless(v, x)
             /\ v.master[m] # None /\ v.stage[x] = "removed" => Holds(v, x) = {}
  <2>1. /\ w.master[m] \in Monster /\ w.stage[x] = "placed" => Harmless(w, x)
        /\ w.master[m] # None /\ w.stage[x] = "removed" => Holds(w, x) = {}
    BY <1>3, <1>9 DEF Untangled, Loose
  <2> QED BY <1>3, <1>4, <1>5, <1>7, <2>1, Kinds
<1> QED BY <1>6, <1>8, <1>9 DEF Untangled, Loose

\* What nobody's leaving changes.
Subsides(w, v) ==
  /\ Placed(v) \subseteq Placed(w)
  /\ \A x \in Creature : w.vector[x] # "out" => v.vector[x] # "out"

\* removeCreature, of one that is fit to leave.
LEMMA RemovingFit ==
  ASSUME NEW w, Core(w), Watched(w, {}, {}), NEW c \in Creature, w.stage[c] = "placed", NEW asleep
  PROVE  /\ Core(Remove2(w, c, asleep)) /\ Watched(Remove2(w, c, asleep), {}, {})
         /\ Subsides(w, Remove2(w, c, asleep))
         /\ Fit(w, c) /\ Untangled(w, {}, {}) => Untangled(Remove2(w, c, asleep), {}, {})
<1> DEFINE r == Remove2(w, c, asleep)
<1>1. /\ Core(r) /\ Watched(r, {}, {}) /\ Departs(w, r, c, w.summons[c])
      /\ Fit(w, c) /\ Untangled(w, {}, {}) => Untangled(r, {}, {})
  BY Removing
<1> HIDE DEF r
<1>2. Subsides(w, r)
  BY <1>1 DEF Departs, Subsides, Placed
<1> QED BY <1>1, <1>2 DEF r

\* onDeath.
LEMMA Dying ==
  ASSUME NEW w, Core(w), Watched(w, {}, {}), NEW c \in Creature, w.stage[c] = "placed",
         w.dead[c], NEW asleep
  PROVE  /\ Core(Die(w, c, asleep)) /\ Watched(Die(w, c, asleep), {}, {})
         /\ Subsides(w, Die(w, c, asleep))
         /\ Untangled(w, {}, {}) => Untangled(Die(w, c, asleep), {}, {})
<1>1. CASE c \in Hunter
  <2>1. Die(w, c, asleep) = Remove2(w, c, asleep) /\ Fit(w, c)
    BY <1>1, Kinds DEF Die, Fit
  <2> QED BY <2>1, RemovingFit
<1>2. CASE c \notin Hunter
  <2> DEFINE v == IF w.master[c] = None THEN w ELSE RemoveSummon(w, w.master[c], c)
             s == DestroySummons(v, c)
             k == ClearTargetList(s, c)
             r == Remove2(k, c, asleep)
  <2>0. c \in Monster /\ w \in CreatureWorld
    BY <1>2, Kinds DEF Core
  <2>1. Die(w, c, asleep) = r
    BY <1>2 DEF Die
  <2>2. /\ Core(v) /\ Watched(v, {}, {}) /\ v.stage = w.stage /\ v.vector = w.vector
        /\ Untangled(w, {}, {}) => Untangled(v, {}, {})
    <3>1. CASE w.master[c] = None
      BY <3>1
    <3>2. CASE w.master[c] # None
      <4> DEFINE d == w.master[c]
                 x == RemoveSummon(w, d, c)
      <4>1. d \in Creature /\ c \in w.summons[d] /\ v = x
        BY <2>0, <3>2 DEF Core, CreatureWorld, Tied
      <4>2. Dismisses(w, x, d, c)
        BY <2>0, <4>1, DismissesIs
      <4> HIDE DEF x, v
      <4>3. Core(x) /\ Watched(x, {}, {})
        BY <4>1, <4>2, Dismissing
      <4>4. Untangled(w, {}, {}) => Untangled(x, {}, {})
        BY <4>1, <4>2, DismissUntangled
      <4> QED BY <4>1, <4>2, <4>3, <4>4 DEF Dismisses, SameSights, SameAnchors
    <3> QED BY <3>1, <3>2
  <2> HIDE DEF v
  <2>3. Core(s) /\ Watched(s, {}, {}) /\ Slain(v, s, c, v.summons[c])
    BY <2>2, SummonsDestroyed
  <2>4. Untangled(v, {}, {}) => Untangled(s, {}, {})
    <3> HIDE DEF s
    <3>1. s \in CreatureWorld
      BY <2>3 DEF Core
    <3> QED BY <2>2, <2>3, <3>1, SlainUntangled
  <2> HIDE DEF s
  <2>5. Forgets(s, k, c, s.targets[c])
    <3>1. s \in CreatureWorld /\ s.targets[c] \subseteq s.targets[c]
      BY <2>3 DEF Core
    <3>2. Forgets(s, [Refer(s, s.targets[c], -1) EXCEPT !.targets[c] = @ \ s.targets[c]], c, s.targets[c])
      BY <2>0, <3>1, ForgetsIs
    <3>3. Refer(s, s.targets[c], -1).targets[c] = s.targets[c]
      BY DEF Refer
    <3>4. [Refer(s, s.targets[c], -1) EXCEPT !.targets[c] = @ \ s.targets[c]] = k
      BY <3>3 DEF ClearTargetList
    <3> QED BY <3>2, <3>4
  <2> HIDE DEF k
  <2>6. Core(k) /\ Watched(k, {}, {}) /\ Keeps(s, k)
    BY <2>0, <2>3, <2>5, Forgetting, ForgetsKeeps
  <2>7. k.targets[c] = {} /\ \A y \in Monster : k.targets[y] \subseteq s.targets[y]
    BY <2>0, <2>3, <2>5 DEF Forgets, Core, CreatureWorld
  <2>8. Untangled(s, {}, {}) => Untangled(k, {}, {})
    <3>1. Glance(s, k) /\ s \in CreatureWorld /\ k \in CreatureWorld
      BY <2>3, <2>6, <2>7 DEF Glance, Core
    <3> QED BY <3>1, GlanceUntangled
  <2>9. Fit(k, c) /\ k.stage = w.stage
    BY <2>2, <2>3, <2>6, <2>7 DEF Fit, Keeps, Slain
  <2>10. k.stage[c] = "placed"
    BY <2>9
  <2>11. /\ Core(r) /\ Watched(r, {}, {}) /\ Subsides(k, r)
         /\ Fit(k, c) /\ Untangled(k, {}, {}) => Untangled(r, {}, {})
    BY <2>6, <2>10, RemovingFit
  <2> HIDE DEF r
  <2>12. Subsides(w, r)
    BY <2>2, <2>3, <2>6, <2>9, <2>11 DEF Subsides, Keeps, Slain, Placed
  <2>13. Untangled(w, {}, {}) => Untangled(r, {}, {})
    BY <2>2, <2>4, <2>8, <2>9, <2>11
  <2> QED BY <2>1, <2>11, <2>12, <2>13
<1> QED BY <1>1, <1>2

\* The greatest of the first numbers is one of them.
LEMMA Greatest ==
  ASSUME NEW n \in Nat, NEW T \in SUBSET (1..n), T # {}
  PROVE  Max(T) \in T
<1> DEFINE B == {k \in Nat : \A y \in T : y <= k}
<1>1. n \in B
  OBVIOUS
<1>2. PICK k \in B : \A y \in B : ~(<<y, k>> \in OpToRel(<, Nat))
  BY <1>1, NatLessThanWellFounded, WFMin
<1>3. k \in T
  <2> SUFFICES ASSUME k \notin T PROVE FALSE
    OBVIOUS
  <2>1. k # 0
    <3>1. PICK y \in T : TRUE
      OBVIOUS
    <3> QED BY <3>1
  <2>2. k - 1 \in Nat /\ k - 1 < k
    BY <2>1
  <2>3. k - 1 \in B
    BY <2>2
  <2>4. <<k - 1, k>> \in OpToRel(<, Nat)
    BY <2>2 DEF OpToRel
  <2> QED BY <1>2, <2>3, <2>4
<1>4. \A y \in T : k >= y
  OBVIOUS
<1>5. \E x \in T : \A y \in T : x >= y
  BY <1>3, <1>4
<1> QED BY <1>5 DEF Max

\* Those of check are seen to, one by one.
Checked(w, check, leave, asleep) == FoldLeft(LAMBDA u, c : Check(u, c, leave, asleep), w, check)
\* Checked, of what Check keeps.
LEMMA CheckedKeeps ==
  ASSUME NEW w, NEW n \in Nat, NEW check, DOMAIN check = 1..n, NEW leave, NEW asleep, IsFiniteSet((DOMAIN check)), NEW G, w \in G[{}],
         \A T \in (SUBSET (DOMAIN check)) \ {{}} : \A x \in T : \A v \in G[T \ {x}] :
           Check(v, check[x], leave, asleep) \in G[T]
  PROVE  Checked(w, check, leave, asleep) \in G[(DOMAIN check)]
<1> DEFINE pick == [T \in SUBSET DOMAIN check |-> Max(T)]
           step == [T \in SUBSET (DOMAIN check) |-> [v \in G[T \ {pick[T]}] |-> Check(v, check[pick[T]], leave, asleep)]]
           E(f) == [T \in SUBSET (DOMAIN check) |-> IF T = {} THEN w
                      ELSE Check(f[T \ {Max(T)}], check[Max(T)], leave, asleep)]
           iter == CHOOSE f : f = E(f)
<1>1. Checked(w, check, leave, asleep) = iter[(DOMAIN check)]
  BY DEF Checked, FoldLeft, MapThenFoldSet
<1>2. \A T \in (SUBSET (DOMAIN check)) \ {{}} : pick[T] = (Max(T)) /\ pick[T] \in T
  BY Greatest
<1>3. \A T \in (SUBSET (DOMAIN check)) \ {{}} : \A v \in G[T \ {pick[T]}] :
        step[T][v] = Check(v, check[pick[T]], leave, asleep)
  OBVIOUS
<1> HIDE DEF pick, step
<1>4. Picks(pick, (DOMAIN check)) /\ StepsIn(step, pick, (DOMAIN check), G)
  <2>1. ASSUME NEW T \in (SUBSET (DOMAIN check)) \ {{}}, NEW v \in G[T \ {pick[T]}]
        PROVE  step[T][v] \in G[T]
    <3>1. pick[T] \in T
      BY <1>2
    <3> QED BY <1>3, <3>1
  <2>2. Picks(pick, (DOMAIN check))
    BY <1>2 DEF Picks
  <2> QED BY <2>1, <2>2 DEF StepsIn
<1>5. iter = E(iter)
  <2>1. PICK f : /\ f = [T \in SUBSET (DOMAIN check) |-> f[T]]
                 /\ FoldsTo(f, (DOMAIN check), w, pick, step) /\ ValuesIn(f, (DOMAIN check), G)
    BY <1>4, FoldExists
  <2>2. ASSUME NEW T \in (SUBSET (DOMAIN check)) \ {{}}
        PROVE  f[T] = Check(f[T \ {pick[T]}], check[pick[T]], leave, asleep)
    <3>1. T \in SUBSET (DOMAIN check) /\ T # {} /\ T \ {pick[T]} \in SUBSET (DOMAIN check)
      OBVIOUS
    <3>2. f[T \ {pick[T]}] \in G[T \ {pick[T]}]
      BY <2>1, <3>1 DEF ValuesIn
    <3>3. f[T] = step[T][f[T \ {pick[T]}]]
      BY <2>1, <3>1 DEF FoldsTo
    <3> QED BY <3>1, <3>2, <3>3, <1>3
  <2>3. f = E(f)
    BY <2>1, <2>2, <1>2 DEF FoldsTo
  <2> QED BY <2>3, ZenonT(30)
<1>6. /\ iter[{}] = w
      /\ \A T \in (SUBSET (DOMAIN check)) \ {{}} : iter[T] = Check(iter[T \ {pick[T]}], check[pick[T]], leave, asleep)
  BY <1>2, <1>5
<1> HIDE DEF iter
<1>7. Follows(iter, (DOMAIN check), G, pick, step)
  BY <1>3, <1>6 DEF Follows
<1>8. iter[(DOMAIN check)] \in G[(DOMAIN check)]
  BY <1>4, <1>6, <1>7, FoldStays
<1> QED BY <1>1, <1>8

\* A creature that is not to be checked leaves its vector; a dead player is healed.
Unlists(w, v, c) ==
  /\ v \in CreatureWorld
  /\ v.vector = [w.vector EXCEPT ![c] = "out"]
  /\ v.stage = w.stage /\ v.dead = w.dead /\ v.checked = w.checked /\ v.targets = w.targets
  /\ v.idle = w.idle /\ v.master = w.master /\ v.summons = w.summons /\ v.releasing = w.releasing
  /\ \A x \in Creature : v.refs[x] = w.refs[x] - (IF x = c THEN 1 ELSE 0)
Heals(w, v, c) ==
  /\ v \in CreatureWorld /\ SameAnchors(w, v)
  /\ v.dead = [w.dead EXCEPT ![c] = FALSE] /\ v.checked = w.checked /\ v.targets = w.targets
  /\ v.idle = w.idle /\ v.master = w.master /\ v.summons = w.summons /\ v.refs = w.refs

\* checkCreatures does so with who is not checked.
LEMMA UnlistsIs ==
  ASSUME NEW w, w \in CreatureWorld, NEW c \in Creature
  PROVE  Unlists(w, [Refer(w, {c}, -1) EXCEPT !.vector[c] = "out"], c)
<1> DEFINE r == Refer(w, {c}, -1)
           v == [r EXCEPT !.vector[c] = "out"]
<1>1. Refers(w, r, {c}, -1)
  <2>1. {c} \in SUBSET Creature /\ -1 \in Int
    OBVIOUS
  <2> QED BY <2>1, Referring
<1> HIDE DEF r
<1>2. r \in CreatureWorld /\ r = [w EXCEPT !.refs = r.refs]
  BY <1>1 DEF Refers
<1>3. \A x \in Creature : w.refs[x] \in Int /\ r.refs[x] = w.refs[x] - (IF x = c THEN 1 ELSE 0)
  BY <1>1 DEF CreatureWorld, Refers
<1>4. v \in CreatureWorld
  BY <1>2 DEF CreatureWorld
<1>5. /\ v.vector = [w.vector EXCEPT ![c] = "out"] /\ v.refs = r.refs
      /\ v.stage = w.stage /\ v.dead = w.dead /\ v.checked = w.checked /\ v.targets = w.targets
      /\ v.idle = w.idle /\ v.master = w.master /\ v.summons = w.summons
      /\ v.releasing = w.releasing
  BY <1>2 DEF CreatureWorld
<1> HIDE DEF v
<1>6. Unlists(w, v, c)
  BY <1>3, <1>4, <1>5 DEF Unlists
<1> QED BY <1>6 DEF v, r

\* And so heals a player who stays.
LEMMA HealsIs ==
  ASSUME NEW w, w \in CreatureWorld, NEW c \in Creature
  PROVE  Heals(w, [w EXCEPT !.dead[c] = FALSE], c)
<1> DEFINE v == [w EXCEPT !.dead[c] = FALSE]
<1>1. v \in CreatureWorld
  BY DEF CreatureWorld
<1>2. /\ v.dead = [w.dead EXCEPT ![c] = FALSE] /\ v.checked = w.checked /\ v.targets = w.targets
      /\ v.idle = w.idle /\ v.master = w.master /\ v.summons = w.summons /\ v.refs = w.refs
      /\ v.vector = w.vector /\ v.stage = w.stage /\ v.releasing = w.releasing
  BY DEF CreatureWorld
<1> HIDE DEF v
<1>3. Heals(w, v, c)
  BY <1>1, <1>2 DEF Heals, SameAnchors
<1> QED BY <1>3 DEF v

\* What is tangled depends on nothing else.
SameTangle(w, v) ==
  /\ v.stage = w.stage /\ v.dead = w.dead /\ v.targets = w.targets
  /\ v.master = w.master /\ v.summons = w.summons
\* It stays as tangled as it was.
LEMMA TangleSame ==
  ASSUME NEW w, NEW v, SameTangle(w, v), NEW X, NEW Y, Untangled(w, X, Y)
  PROVE  Untangled(v, X, Y)
<1>1. \A x : Holds(v, x) = Holds(w, x)
  BY DEF SameTangle, Holds
<1>2. Removed(v) = Removed(w)
  BY DEF SameTangle, Removed
<1>3. Acyclic(v)
  BY <1>1, <1>2 DEF Untangled, Acyclic
<1>4. \A x : Harmless(w, x) <=> Harmless(v, x)
  BY DEF SameTangle, Harmless
<1> QED BY <1>1, <1>3, <1>4 DEF Untangled, Loose, Together, SameTangle

\* The vector lets go of who is not checked any more.
LEMMA Unlisting ==
  ASSUME NEW w, Core(w), Watched(w, {}, {}), NEW c \in Creature, w.vector[c] # "out", ~w.checked[c],
         NEW v, Unlists(w, v, c)
  PROVE  /\ Core(v) /\ Watched(v, {}, {}) /\ Placed(v) = Placed(w)
         /\ \A x \in Creature : x # c /\ w.vector[x] # "out" => v.vector[x] # "out"
         /\ Untangled(w, {}, {}) => Untangled(v, {}, {})
<1>1. w \in CreatureWorld /\ v \in CreatureWorld
  BY DEF Core, Unlists
<1>2. /\ v.vector = [w.vector EXCEPT ![c] = "out"]
      /\ v.stage = w.stage /\ v.dead = w.dead /\ v.checked = w.checked /\ v.targets = w.targets
      /\ v.idle = w.idle /\ v.master = w.master /\ v.summons = w.summons
      /\ v.releasing = w.releasing
  BY DEF Unlists
<1>3. Counted(v)
  <2>1. \A x \in Creature : Anchors(v, x) = Anchors(w, x) - (IF x = c THEN 1 ELSE 0)
    BY <1>1, <1>2 DEF Anchors, CreatureWorld
  <2>2. \A x \in Creature : Holders(v, x) = Holders(w, x) + Anchors(v, x) - Anchors(w, x)
    BY <1>1, <1>2, AnchorsCount
  <2>3. \A x \in Creature : Holders(v, x) = Holders(w, x) - (IF x = c THEN 1 ELSE 0)
    BY <1>1, <2>1, <2>2, HoldersOf
  <2> QED BY <2>3 DEF Core, Counted, Unlists
<1>4. Tied(v) /\ Apart(v)
  BY <1>2 DEF Core, Tied, Apart
<1>5. Staged(v)
  <2>1. w.stage[c] # "free"
    <3>1. Holders(w, c) # 0
      BY <1>1, Unheld
    <3> QED BY <3>1 DEF Core, Staged, Clean, Counted
  <2>2. \A x \in Creature : v.stage[x] = "free" => v.refs[x] = w.refs[x]
    BY <1>1, <1>2, <2>1 DEF Unlists, CreatureWorld
  <2> QED BY <1>2, <2>2 DEF Core, Staged, Clean
<1>6. Watched(v, {}, {})
  <2>1. \A x \in Creature : Watches(w, x) => Watches(v, x)
    BY <1>1, <1>2 DEF Watches, CreatureWorld
  <2> QED BY <1>2, <2>1, Kinds DEF Watched, Placed, Alive
<1>7. \A x \in Creature : x # c /\ w.vector[x] # "out" => v.vector[x] # "out"
  BY <1>1, <1>2 DEF CreatureWorld
<1>8. Untangled(w, {}, {}) => Untangled(v, {}, {})
  <2>1. SameTangle(w, v)
    BY <1>2 DEF SameTangle
  <2> QED BY <2>1, TangleSame
<1> QED BY <1>1, <1>2, <1>3, <1>4, <1>5, <1>6, <1>7, <1>8 DEF Core, Placed

\* A healed player is looked after as before.
LEMMA Healing ==
  ASSUME NEW w, Core(w), Watched(w, {}, {}), NEW c \in Hunter, NEW v, Heals(w, v, c)
  PROVE  /\ Core(v) /\ Watched(v, {}, {}) /\ Subsides(w, v)
         /\ Untangled(w, {}, {}) => Untangled(v, {}, {})
<1>1. w \in CreatureWorld /\ v \in CreatureWorld /\ c \in Creature
  BY Kinds DEF Core, Heals
<1>2. /\ SameAnchors(w, v)
      /\ v.dead = [w.dead EXCEPT ![c] = FALSE] /\ v.checked = w.checked /\ v.targets = w.targets
      /\ v.idle = w.idle /\ v.master = w.master /\ v.summons = w.summons /\ v.refs = w.refs
  BY DEF Heals
<1>3. Counted(v)
  <2>1. \A x \in Creature : Anchors(v, x) = Anchors(w, x)
    BY <1>2 DEF Anchors, SameAnchors
  <2>2. \A x \in Creature : Holders(v, x) = Holders(w, x) + Anchors(v, x) - Anchors(w, x)
    BY <1>1, <1>2, AnchorsCount
  <2>3. \A x \in Creature : Holders(v, x) = Holders(w, x)
    BY <1>1, <2>1, <2>2, HoldersOf
  <2> QED BY <1>2, <2>3 DEF Core, Counted
<1>4. Tied(v) /\ Apart(v)
  BY <1>2 DEF Core, Tied, Apart
<1>5. \A x \in Creature : v.dead[x] => w.dead[x]
  BY <1>1, <1>2 DEF CreatureWorld
<1>50. \A x \in Monster : v.dead[x] = w.dead[x]
  <2>1. \A x \in Monster : x \in Creature /\ x # c
    BY Kinds
  <2>2. \A x \in Creature : x # c => v.dead[x] = w.dead[x]
    BY <1>1, <1>2 DEF CreatureWorld
  <2> QED BY <2>1, <2>2
<1>6. Staged(v)
  <2>1. v.stage = w.stage /\ v.releasing = w.releasing /\ v.checked = w.checked
    BY <1>2 DEF SameAnchors
  <2>2. ASSUME NEW x \in Creature, v.stage[x] = "free" PROVE Clean(v, x)
    <3>1. Clean(w, x)
      BY <2>1, <2>2 DEF Core, Staged
    <3>2. ~v.dead[x]
      BY <1>5, <3>1 DEF Clean
    <3> QED BY <1>2, <3>1, <3>2 DEF Clean
  <2> QED BY <2>1, <2>2 DEF Core, Staged
<1>7. Watched(v, {}, {})
  <2>1. \A x \in Creature : Watches(w, x) => Watches(v, x)
    BY <1>2 DEF Watches, SameAnchors
  <2>2. Placed(v) = Placed(w)
    BY <1>2 DEF Placed, SameAnchors
  <2>3. Alive(v) \intersect Monster = Alive(w) \intersect Monster
    BY <1>50, <2>2 DEF Alive
  <2>4. \A x \in Placed(v) : v.dead[x] \/ x \in Hunter => Watches(v, x)
    BY <1>5, <2>1, <2>2 DEF Watched, Placed
  <2>5. \A x \in Alive(v) \intersect Monster : IF v.idle[x] THEN v.targets[x] = {} ELSE Watches(v, x)
    BY <1>2, <2>1, <2>3 DEF Watched, Alive, Placed
  <2> QED BY <2>4, <2>5 DEF Watched
<1>8. Subsides(w, v)
  BY <1>2 DEF Subsides, Placed, SameAnchors
<1>9. Untangled(w, {}, {}) => Untangled(v, {}, {})
  <2>1. \A x : Holds(v, x) = Holds(w, x)
    BY <1>2 DEF Holds
  <2>2. Removed(v) = Removed(w)
    BY <1>2 DEF SameAnchors, Removed
  <2>3. Acyclic(w) => Acyclic(v)
    BY <2>1, <2>2 DEF Acyclic
  <2>4. \A x \in Creature : Harmless(w, x) => Harmless(v, x)
    BY <1>2, <1>50, Kinds DEF Harmless
  <2> QED BY <1>2, <2>1, <2>3, <2>4 DEF Untangled, Loose, Together, SameAnchors
<1> QED BY <1>1, <1>3, <1>4, <1>6, <1>7, <1>8, <1>9 DEF Core

\* What becomes of c in checkCreatures.
LEMMA Checking ==
  ASSUME NEW w, Core(w), Watched(w, {}, {}), NEW c \in Creature, w.vector[c] # "out",
         NEW leaves, NEW asleep
  PROVE  /\ Core(Check(w, c, leaves, asleep)) /\ Watched(Check(w, c, leaves, asleep), {}, {})
         /\ Placed(Check(w, c, leaves, asleep)) \subseteq Placed(w)
         /\ \A x \in Creature : x # c /\ w.vector[x] # "out" =>
              Check(w, c, leaves, asleep).vector[x] # "out"
         /\ Untangled(w, {}, {}) => Untangled(Check(w, c, leaves, asleep), {}, {})
<1> DEFINE v == Check(w, c, leaves, asleep)
           Fine == /\ Core(v) /\ Watched(v, {}, {}) /\ Subsides(w, v)
                   /\ Untangled(w, {}, {}) => Untangled(v, {}, {})
<1>0. w \in CreatureWorld /\ (w.checked[c] => w.stage[c] = "placed")
  BY DEF Core, Staged
<1>1. CASE ~w.checked[c]
  <2>1. v = [Refer(w, {c}, -1) EXCEPT !.vector[c] = "out"]
    BY <1>1 DEF Check
  <2>2. Unlists(w, v, c)
    <3>1. Unlists(w, [Refer(w, {c}, -1) EXCEPT !.vector[c] = "out"], c)
      BY <1>0, UnlistsIs
    <3> QED BY <2>1, <3>1
  <2> HIDE DEF v
  <2>3. /\ Core(v) /\ Watched(v, {}, {}) /\ Placed(v) = Placed(w)
        /\ \A x \in Creature : x # c /\ w.vector[x] # "out" => v.vector[x] # "out"
        /\ Untangled(w, {}, {}) => Untangled(v, {}, {})
    BY <1>1, <2>2, Unlisting
  <2> QED BY <2>3 DEF v
<1>2. CASE w.checked[c] /\ w.dead[c] /\ c \in Hunter /\ leaves
  <2>1. v = [w EXCEPT !.dead[c] = FALSE]
    BY <1>2 DEF Check
  <2>2. Heals(w, v, c)
    <3>1. Heals(w, [w EXCEPT !.dead[c] = FALSE], c)
      BY <1>0, HealsIs
    <3> QED BY <2>1, <3>1
  <2> HIDE DEF v
  <2>3. Fine
    BY <1>2, <2>2, Healing
  <2> QED BY <2>3 DEF v, Subsides
<1>3. CASE w.checked[c] /\ w.dead[c] /\ ~(c \in Hunter /\ leaves)
  <2>1. v = Die(w, c, asleep)
    BY <1>3 DEF Check
  <2>2. Fine
    BY <1>0, <1>3, <2>1, Dying
  <2> QED BY <2>2 DEF Subsides
<1>4. CASE w.checked[c] /\ ~w.dead[c] /\ leaves
  <2>1. v = Remove2(w, c, asleep)
    BY <1>4 DEF Check
  <2>3. Fit(w, c)
    BY <1>4 DEF Fit
  <2>2. Fine
    BY <1>0, <1>4, <2>1, <2>3, RemovingFit
  <2> QED BY <2>2 DEF Subsides
<1>5. CASE w.checked[c] /\ ~w.dead[c] /\ ~leaves /\ c \in Hunter
  <2>1. v = w
    BY <1>5 DEF Check
  <2> QED BY <2>1
<1>6. CASE w.checked[c] /\ ~w.dead[c] /\ ~leaves /\ c \notin Hunter
  <2>1. v = UpdateIdle(w, c, asleep)
    BY <1>6 DEF Check
  <2>2. c \in Monster /\ w.stage[c] # "free" /\ Watched(w, {}, {c})
    BY <1>0, <1>6, Kinds DEF Watched
  <2>3. Seen(w, v, {})
    BY <2>1, <2>2, IdleUpdated
  <2> HIDE DEF v
  <2>4. Core(v) /\ Watched(v, {}, {}) /\ Glance(w, v) /\ v \in CreatureWorld
    BY <2>3 DEF Seen, Core
  <2>5. Untangled(w, {}, {}) => Untangled(v, {}, {})
    BY <1>0, <2>4, GlanceUntangled
  <2>6. Subsides(w, v)
    BY <2>4 DEF Subsides, Glance, Keeps, Placed
  <2> QED BY <2>4, <2>5, <2>6 DEF v, Subsides
<1> QED BY <1>1, <1>2, <1>3, <1>4, <1>5, <1>6

\* The vectors that checkCreatures has to see to are joined.
Joined(w) ==
  [w EXCEPT !.vector = [c \in Creature |-> IF @[c] = "new" THEN "in" ELSE @[c]]]
\* Whether a creature is in a vector stays the same.
LEMMA Joining ==
  ASSUME NEW w, Core(w), Watched(w, {}, {})
  PROVE  /\ Core(Joined(w)) /\ Watched(Joined(w), {}, {}) /\ SameTangle(w, Joined(w))
<1> DEFINE v == [w EXCEPT !.vector = [c \in Creature |-> IF w.vector[c] = "new" THEN "in" ELSE w.vector[c]]]
<1>0. w \in CreatureWorld
  BY DEF Core
<1>1. Joined(w) = v
  BY DEF Joined
<1>2. v \in CreatureWorld
  BY <1>0 DEF CreatureWorld
<1>3. /\ \A c \in Creature : v.vector[c] = "out" <=> w.vector[c] = "out"
      /\ v.stage = w.stage /\ v.dead = w.dead /\ v.checked = w.checked /\ v.targets = w.targets
      /\ v.idle = w.idle /\ v.master = w.master /\ v.summons = w.summons
      /\ v.releasing = w.releasing /\ v.refs = w.refs
  BY <1>0 DEF CreatureWorld
<1> HIDE DEF v
<1>4. Counted(v)
  <2>1. \A x \in Creature : Anchors(v, x) = Anchors(w, x)
    BY <1>3 DEF Anchors
  <2>2. \A x \in Creature : Holders(v, x) = Holders(w, x) + Anchors(v, x) - Anchors(w, x)
    BY <1>0, <1>2, <1>3, AnchorsCount
  <2>3. \A x \in Creature : Holders(v, x) = Holders(w, x)
    BY <1>0, <2>1, <2>2, HoldersOf
  <2> QED BY <1>3, <2>3 DEF Core, Counted
<1>5. Tied(v) /\ Apart(v) /\ Staged(v)
  BY <1>3 DEF Core, Tied, Apart, Staged, Clean
<1>6. Watched(v, {}, {})
  BY <1>3, Kinds DEF Watched, Watches, Placed, Alive
<1> QED BY <1>1, <1>2, <1>3, <1>4, <1>5, <1>6 DEF Core, SameTangle

\* What is to be released loses the reference for it.
Releases(w, v) ==
  /\ v \in CreatureWorld /\ v.releasing = {}
  /\ v.vector = w.vector
  /\ v.stage = w.stage /\ v.dead = w.dead /\ v.checked = w.checked /\ v.targets = w.targets
  /\ v.idle = w.idle /\ v.master = w.master /\ v.summons = w.summons
  /\ \A x \in Creature : v.refs[x] = w.refs[x] - (IF x \in w.releasing THEN 1 ELSE 0)
\* Cleanup does so.
LEMMA ReleasesIs ==
  ASSUME NEW w, w \in CreatureWorld
  PROVE  Releases(w, Cleanup(w))
<1> DEFINE r == Refer(w, w.releasing, -1)
           v == [r EXCEPT !.releasing = {}]
<1>1. Refers(w, r, w.releasing, -1)
  <2>1. w.releasing \in SUBSET Creature /\ -1 \in Int
    BY DEF CreatureWorld
  <2> QED BY <2>1, Referring
<1>0. Cleanup(w) = v
  BY DEF Cleanup
<1> HIDE DEF r
<1>2. r \in CreatureWorld /\ r = [w EXCEPT !.refs = r.refs]
  BY <1>1 DEF Refers
<1>3. \A x \in Creature : w.refs[x] \in Int /\ r.refs[x] = w.refs[x] - (IF x \in w.releasing THEN 1 ELSE 0)
  BY <1>1 DEF CreatureWorld, Refers
<1>4. v \in CreatureWorld
  BY <1>2 DEF CreatureWorld
<1>5. /\ v.releasing = {} /\ v.refs = r.refs /\ v.vector = w.vector
      /\ v.stage = w.stage /\ v.dead = w.dead /\ v.checked = w.checked /\ v.targets = w.targets
      /\ v.idle = w.idle /\ v.master = w.master /\ v.summons = w.summons
  BY <1>2 DEF CreatureWorld
<1> HIDE DEF v
<1>6. Releases(w, v)
  BY <1>3, <1>4, <1>5 DEF Releases
<1> QED BY <1>0, <1>6

\* Game::cleanup.
LEMMA CleaningUp ==
  ASSUME NEW w, Core(w), Watched(w, {}, {})
  PROVE  /\ Core(Cleanup(w)) /\ Watched(Cleanup(w), {}, {}) /\ SameTangle(w, Cleanup(w))
<1> DEFINE v == Cleanup(w)
<1>0. w \in CreatureWorld
  BY DEF Core
<1>1. Releases(w, v)
  BY <1>0, ReleasesIs
<1> HIDE DEF v
<1>2. /\ v \in CreatureWorld /\ v.releasing = {} /\ v.vector = w.vector
      /\ v.stage = w.stage /\ v.dead = w.dead /\ v.checked = w.checked /\ v.targets = w.targets
      /\ v.idle = w.idle /\ v.master = w.master /\ v.summons = w.summons
  BY <1>1 DEF Releases
<1>3. Counted(v)
  <2>1. \A x \in Creature : Anchors(v, x) = Anchors(w, x) - (IF x \in w.releasing THEN 1 ELSE 0)
    BY <1>0, <1>2 DEF Anchors, Core, Staged
  <2>2. \A x \in Creature : Holders(v, x) = Holders(w, x) + Anchors(v, x) - Anchors(w, x)
    BY <1>0, <1>2, AnchorsCount
  <2>3. \A x \in Creature : Holders(v, x) = Holders(w, x) - (IF x \in w.releasing THEN 1 ELSE 0)
    BY <1>0, <2>1, <2>2, HoldersOf
  <2> QED BY <1>1, <2>3 DEF Core, Counted, Releases
<1>4. Staged(v)
  <2>1. \A x \in Creature : v.stage[x] = "free" => v.refs[x] = w.refs[x]
    BY <1>0, <1>1, <1>2 DEF Releases, Core, Staged, CreatureWorld
  <2> QED BY <1>2, <2>1 DEF Core, Staged, Clean
<1>5. Tied(v) /\ Apart(v)
  BY <1>2 DEF Core, Tied, Apart
<1>6. Watched(v, {}, {})
  BY <1>2 DEF Watched, Watches, Placed, Alive
<1>7. Core(v) /\ Watched(v, {}, {}) /\ SameTangle(w, v)
  BY <1>2, <1>3, <1>4, <1>5, <1>6 DEF Core, SameTangle
<1> QED BY <1>7 DEF v

\* Those of a vector are seen to, each of them once.
LEMMA CheckingAll ==
  ASSUME NEW w, Core(w), Watched(w, {}, {}), NEW n \in Nat, NEW check, DOMAIN check = 1..n,
         IsInjective(check), \A i \in 1..n : check[i] \in Creature /\ w.vector[check[i]] # "out",
         NEW leave, NEW asleep
  PROVE  /\ Core(Checked(w, check, leave, asleep)) /\ Watched(Checked(w, check, leave, asleep), {}, {})
         /\ Placed(Checked(w, check, leave, asleep)) \subseteq Placed(w)
         /\ Untangled(w, {}, {}) => Untangled(Checked(w, check, leave, asleep), {}, {})
<1> DEFINE S == DOMAIN check
           Good(u, T) == /\ Core(u) /\ Watched(u, {}, {}) /\ Placed(u) \subseteq Placed(w)
                         /\ \A i \in S \ T : u.vector[check[i]] # "out"
                         /\ Untangled(w, {}, {}) => Untangled(u, {}, {})
           G == [T \in SUBSET S |-> {u \in CreatureWorld : Good(u, T)}]
           r == Checked(w, check, leave, asleep)
<1>1. IsFiniteSet(S)
  BY FS_Interval
<1>2. w \in G[{}]
  BY DEF Core
<1>3. ASSUME NEW T \in (SUBSET S) \ {{}}, NEW i \in T, NEW u, Good(u, T \ {i})
      PROVE  Good(Check(u, check[i], leave, asleep), T)
  <2> DEFINE c == check[i]
             v == Check(u, c, leave, asleep)
  <2>1. i \in 1..n /\ c \in Creature
    OBVIOUS
  <2>2. u.vector[c] # "out"
    <3>1. i \in S \ (T \ {i})
      OBVIOUS
    <3> QED BY <1>3, <3>1
  <2>3. \A j \in S \ T : check[j] \in Creature /\ check[j] # c /\ u.vector[check[j]] # "out"
    <3>1. \A j \in S \ T : j \in S \ (T \ {i}) /\ j # i
      OBVIOUS
    <3> QED BY <1>3, <3>1 DEF IsInjective
  <2>4. Core(u) /\ Watched(u, {}, {}) /\ Placed(u) \subseteq Placed(w)
        /\ (Untangled(w, {}, {}) => Untangled(u, {}, {}))
    BY <1>3
  <2> HIDE DEF c, G
  <2>5. /\ Core(v) /\ Watched(v, {}, {}) /\ Placed(v) \subseteq Placed(u)
        /\ \A x \in Creature : x # c /\ u.vector[x] # "out" => v.vector[x] # "out"
        /\ Untangled(u, {}, {}) => Untangled(v, {}, {})
    <3> HIDE DEF Good
    <3> QED BY <2>1, <2>2, <2>4, Checking
  <2> HIDE DEF v
  <2>6. Good(v, T)
    BY <2>3, <2>4, <2>5
  <2> QED BY <2>6 DEF v, c
<1>4. r \in G[S]
  <2>1. ASSUME NEW T \in (SUBSET S) \ {{}}, NEW x \in T, NEW v \in G[T \ {x}]
        PROVE  Check(v, check[x], leave, asleep) \in G[T]
    <3> HIDE DEF Good
    <3>1. Good(v, T \ {x})
      OBVIOUS
    <3>2. Good(Check(v, check[x], leave, asleep), T)
      BY <1>3, <3>1
    <3>3. Check(v, check[x], leave, asleep) \in CreatureWorld
      BY <3>2 DEF Good, Core
    <3> QED BY <3>2, <3>3
  <2> HIDE DEF G
  <2> QED BY <1>1, <1>2, <2>1, CheckedKeeps
<1>5. Good(r, S)
  <2> HIDE DEF Good, r
  <2> QED BY <1>4
<1> QED BY <1>5

\* What is deleted, and what that releases.
Deletes(w, v, D) ==
  /\ v \in CreatureWorld
  /\ v.checked = w.checked /\ v.vector = w.vector /\ v.releasing = w.releasing
  /\ \A x \in Creature :
       /\ v.stage[x] = IF x \in D THEN "free" ELSE w.stage[x]
       /\ v.dead[x] = IF x \in D THEN FALSE ELSE w.dead[x]
       /\ v.summons[x] = IF x \in D THEN {} ELSE w.summons[x]
       /\ v.refs[x] = IF x \in D THEN 0 ELSE
            w.refs[x] - Cardinality(Masters(w, x) \intersect D) - Cardinality(Seekers(w, x) \intersect D)
  /\ \A m \in Monster :
       /\ v.targets[m] = IF m \in D THEN {} ELSE w.targets[m]
       /\ v.idle[m] = IF m \in D THEN TRUE ELSE w.idle[m]
       /\ v.master[m] = IF m \in D \/ w.master[m] \in D THEN None ELSE w.master[m]

\* Those with summons and those with targets are counted once.
LEMMA HeldCounts ==
  ASSUME NEW w, Core(w), NEW D \in SUBSET Creature, NEW x \in Creature
  PROVE  Cardinality({d \in D : x \in w.summons[d]}
                       \union {d \in D \intersect Monster : x \in w.targets[d]})
           = Cardinality(Masters(w, x) \intersect D) + Cardinality(Seekers(w, x) \intersect D)
<1> DEFINE A == Masters(w, x) \intersect D
           B == Seekers(w, x) \intersect D
<1>1. {d \in D : x \in w.summons[d]} = A /\ {d \in D \intersect Monster : x \in w.targets[d]} = B
  BY DEF Masters, Seekers
<1>2. IsFiniteSet(A) /\ IsFiniteSet(B)
  BY HoldersOf, FS_Subset DEF Core
<1>3. A \intersect B = {}
  BY DEF Core, Apart, Masters, Seekers
<1>4. Cardinality(A \union B) = Cardinality(A) + Cardinality(B) - Cardinality(A \intersect B)
  BY <1>2, FS_Union
<1>5. Cardinality(A \intersect B) = 0 /\ Cardinality(A) \in Nat /\ Cardinality(B) \in Nat
  BY <1>2, <1>3, FS_EmptySet, FS_CardinalityType
<1> HIDE DEF A, B
<1>6. Cardinality(A \union B) = Cardinality(A) + Cardinality(B)
  BY <1>4, <1>5
<1> QED BY <1>1, <1>6 DEF A, B

\* Destroy does so with what is unwanted.
LEMMA DeletesIs ==
  ASSUME NEW w, Core(w)
  PROVE  Deletes(w, Destroy(w), Unwanted(w))
<1> DEFINE D == Unwanted(w)
           Held(c) == {d \in D : c \in w.summons[d]}
                        \union {d \in D \intersect Monster : c \in w.targets[d]}
           h == [c \in Creature |-> Cardinality(Held(c))]
           v == [w EXCEPT
             !.stage = [c \in DOMAIN w.stage |-> IF c \in D THEN "free" ELSE w.stage[c]],
             !.dead = [c \in DOMAIN w.dead |-> IF c \in D THEN FALSE ELSE w.dead[c]],
             !.targets = [c \in DOMAIN w.targets |-> IF c \in D THEN {} ELSE w.targets[c]],
             !.summons = [c \in DOMAIN w.summons |-> IF c \in D THEN {} ELSE w.summons[c]],
             !.idle = [c \in DOMAIN w.idle |-> IF c \in D THEN TRUE ELSE w.idle[c]],
             !.master = [m \in Monster |->
                IF m \in D \/ w.master[m] \in D THEN None ELSE w.master[m]],
             !.refs = [c \in Creature |->
                IF c \in D THEN 0 ELSE w.refs[c] - h[c]]]
<1>0. w \in CreatureWorld /\ D \in SUBSET Creature
  BY DEF Core, Unwanted
<1>1. Destroy(w) = v
  <2>1. [c \in Creature |-> IF c \in D THEN 0 ELSE w.refs[c] - h[c]]
          = [c \in Creature |-> IF c \in D THEN 0 ELSE w.refs[c] - Cardinality(Held(c))]
    <3> HIDE DEF Held, D
    <3> QED OBVIOUS
  <2> QED BY <2>1 DEF Destroy
<1>2. \A c \in Creature : Cardinality(Held(c))
        = Cardinality(Masters(w, c) \intersect D) + Cardinality(Seekers(w, c) \intersect D)
  <2> HIDE DEF D
  <2> QED BY <1>0, HeldCounts
<1>3. \A c \in Creature : /\ Cardinality(Masters(w, c) \intersect D) \in Nat
                          /\ Cardinality(Seekers(w, c) \intersect D) \in Nat
  BY <1>0, HoldersOf, FS_Subset, FS_CardinalityType
<1> HIDE DEF D
<1>4. h \in [Creature -> Nat]
  <2>1. \A c \in Creature : Cardinality(Held(c)) \in Nat
    <3> SUFFICES ASSUME NEW c \in Creature PROVE Cardinality(Held(c)) \in Nat
      OBVIOUS
    <3> DEFINE a == Cardinality(Masters(w, c) \intersect D)
               b == Cardinality(Seekers(w, c) \intersect D)
    <3>1. Cardinality(Held(c)) = a + b /\ a \in Nat /\ b \in Nat
      BY <1>2, <1>3
    <3> HIDE DEF Held, a, b, h, v
    <3> QED BY <3>1
  <2> HIDE DEF Held, v
  <2> QED BY <2>1
<1>10. \A c \in Creature : h[c]
           = Cardinality(Masters(w, c) \intersect D) + Cardinality(Seekers(w, c) \intersect D)
  <2>1. \A c \in Creature : h[c] = Cardinality(Held(c))
    <3> HIDE DEF Held, v
    <3> QED OBVIOUS
  <2> HIDE DEF Held, h, v
  <2> QED BY <1>2, <2>1
<1> HIDE DEF Held, h
<1>5. v \in CreatureWorld
  <2>1. /\ v.stage \in [Creature -> {"free", "placed", "removed"}]
        /\ v.dead \in [Creature -> BOOLEAN] /\ v.checked \in [Creature -> BOOLEAN]
        /\ v.vector \in [Creature -> {"out", "new", "in"}]
    BY <1>0 DEF CreatureWorld
  <2>2. v.targets \in [Monster -> SUBSET Creature] /\ v.idle \in [Monster -> BOOLEAN]
    BY <1>0 DEF CreatureWorld
  <2>3. v.master \in [Monster -> Creature \union {None}] /\ v.summons \in [Creature -> SUBSET Monster]
    BY <1>0 DEF CreatureWorld
  <2>4. v.refs \in [Creature -> Int] /\ v.releasing \in SUBSET Creature
    BY <1>0, <1>4 DEF CreatureWorld
  <2> DEFINE fs == v.stage  fd == v.dead  ft == v.targets  fi == v.idle
             fm == v.master  fu == v.summons  fr == v.refs
  <2>5. v = [w EXCEPT !.stage = fs, !.dead = fd, !.targets = ft, !.summons = fu,
                      !.idle = fi, !.master = fm, !.refs = fr]
    BY <1>0 DEF CreatureWorld
  <2>6. /\ fs \in [Creature -> {"free", "placed", "removed"}] /\ fd \in [Creature -> BOOLEAN]
        /\ ft \in [Monster -> SUBSET Creature] /\ fi \in [Monster -> BOOLEAN]
        /\ fm \in [Monster -> Creature \union {None}] /\ fu \in [Creature -> SUBSET Monster]
        /\ fr \in [Creature -> Int]
    BY <2>1, <2>2, <2>3, <2>4
  <2> HIDE DEF v, fs, fd, ft, fi, fm, fu, fr
  <2> QED BY <1>0, <2>5, <2>6 DEF CreatureWorld
<1>6. /\ v.checked = w.checked /\ v.vector = w.vector /\ v.releasing = w.releasing
      /\ \A x \in Creature :
           /\ v.stage[x] = IF x \in D THEN "free" ELSE w.stage[x]
           /\ v.summons[x] = IF x \in D THEN {} ELSE w.summons[x]
           /\ v.refs[x] = IF x \in D THEN 0 ELSE w.refs[x] - h[x]
      /\ \A m \in Monster :
           /\ v.targets[m] = IF m \in D THEN {} ELSE w.targets[m]
           /\ v.master[m] = IF m \in D \/ w.master[m] \in D THEN None ELSE w.master[m]
  BY <1>0 DEF CreatureWorld
<1>7. /\ \A x \in Creature : v.dead[x] = IF x \in D THEN FALSE ELSE w.dead[x]
      /\ \A m \in Monster : v.idle[m] = IF m \in D THEN TRUE ELSE w.idle[m]
  BY <1>0 DEF CreatureWorld
<1> HIDE DEF v
<1>8. \A x \in Creature : v.refs[x] = IF x \in D THEN 0 ELSE
        w.refs[x] - Cardinality(Masters(w, x) \intersect D) - Cardinality(Seekers(w, x) \intersect D)
  <2>1. \A x \in Creature : w.refs[x] \in Int
    BY <1>0 DEF CreatureWorld
  <2> SUFFICES ASSUME NEW x \in Creature
               PROVE  v.refs[x] = IF x \in D THEN 0 ELSE w.refs[x]
                 - Cardinality(Masters(w, x) \intersect D) - Cardinality(Seekers(w, x) \intersect D)
    OBVIOUS
  <2>2. v.refs[x] = IF x \in D THEN 0 ELSE w.refs[x] - h[x]
    BY <1>6
  <2> DEFINE a == Cardinality(Masters(w, x) \intersect D)
             b == Cardinality(Seekers(w, x) \intersect D)
  <2>3. h[x] = a + b /\ a \in Nat /\ b \in Nat /\ w.refs[x] \in Int
    BY <1>3, <1>10, <2>1
  <2> HIDE DEF a, b
  <2>4. v.refs[x] = IF x \in D THEN 0 ELSE w.refs[x] - a - b
    BY <2>2, <2>3
  <2> QED BY <2>4 DEF a, b
<1>9. Deletes(w, v, D)
  BY <1>5, <1>6, <1>7, <1>8 DEF Deletes
<1> QED BY <1>1, <1>9 DEF D

\* Nobody misses what is deleted.
LEMMA Deleting ==
  ASSUME NEW w, Core(w), Watched(w, {}, {}), NEW v, Deletes(w, v, Unwanted(w))
  PROVE  /\ Core(v) /\ Watched(v, {}, {}) /\ Placed(v) = Placed(w)
         /\ Untangled(w, {}, {}) => Untangled(v, {}, {})
<1> DEFINE D == Unwanted(w)
<1>0. w \in CreatureWorld /\ v \in CreatureWorld /\ D \in SUBSET Creature
  BY DEF Core, Deletes, Unwanted
<1>1. ASSUME NEW x \in D
      PROVE  /\ x \in Creature /\ w.stage[x] = "removed"
             /\ Seekers(w, x) = {} /\ Masters(w, x) = {} /\ w.vector[x] = "out"
             /\ x \notin w.releasing
  <2>1. x \in Creature /\ w.stage[x] = "removed" /\ w.refs[x] <= 0
    BY DEF Unwanted
  <2>2. Holders(w, x) \in Nat /\ Holders(w, x) <= 0
    BY <1>0, <2>1, Unheld DEF Core, Counted
  <2>3. Holders(w, x) = 0
    BY <2>2
  <2> QED BY <1>0, <2>1, <2>3, Unheld
<1> HIDE DEF D
<1>2. Deletes(w, v, D)
  BY DEF D
<1>3. \A x \in Creature : v.stage[x] = IF x \in D THEN "free" ELSE w.stage[x]
  BY <1>2 DEF Deletes
<1>4. \A x \in Creature : v.summons[x] = IF x \in D THEN {} ELSE w.summons[x]
  BY <1>2 DEF Deletes
<1>5. \A m \in Monster : v.targets[m] = IF m \in D THEN {} ELSE w.targets[m]
  BY <1>2 DEF Deletes
<1>6. \A m \in Monster : v.master[m] = IF m \in D \/ w.master[m] \in D THEN None ELSE w.master[m]
  BY <1>2 DEF Deletes
<1>7. v.checked = w.checked /\ v.vector = w.vector /\ v.releasing = w.releasing
  BY <1>2 DEF Deletes
<1>8. Counted(v)
  <2> SUFFICES ASSUME NEW x \in Creature PROVE v.refs[x] = Holders(v, x)
    BY DEF Counted
  <2>1. Seekers(v, x) = Seekers(w, x) \ D
    BY <1>5 DEF Seekers
  <2>2. Masters(v, x) = Masters(w, x) \ D
    BY <1>4 DEF Masters
  <2>3. Anchors(v, x) = Anchors(w, x)
    <3>1. v.stage[x] = "placed" <=> w.stage[x] = "placed"
      BY <1>1, <1>3
    <3> QED BY <1>7, <3>1 DEF Anchors
  <2>4. CASE x \in D
    <3>1. Seekers(v, x) = {} /\ Masters(v, x) = {} /\ Anchors(v, x) = 0
      BY <1>1, <2>1, <2>2, <2>3, <2>4 DEF Anchors
    <3>2. Holders(v, x) = 0
      BY <1>0, <3>1, HoldersOf, FS_EmptySet
    <3> QED BY <1>2, <2>4, <3>2 DEF Deletes
  <2>5. CASE x \notin D
    <3> DEFINE s == Cardinality(Seekers(w, x))
               m == Cardinality(Masters(w, x))
               si == Cardinality(Seekers(w, x) \intersect D)
               mi == Cardinality(Masters(w, x) \intersect D)
               a == Anchors(w, x)
    <3>1. /\ IsFiniteSet(Seekers(w, x)) /\ IsFiniteSet(Masters(w, x)) /\ s \in Nat /\ m \in Nat
          /\ a \in 0..2 /\ Holders(w, x) = s + m + a
      BY <1>0, HoldersOf
    <3>2. si \in Nat /\ mi \in Nat
      BY <3>1, FS_Subset, FS_CardinalityType
    <3>3. Cardinality(Seekers(w, x) \ D) = s - si /\ Cardinality(Masters(w, x) \ D) = m - mi
      BY <3>1, FS_Difference
    <3>4. Holders(v, x) = Cardinality(Seekers(v, x)) + Cardinality(Masters(v, x)) + Anchors(v, x)
      BY <1>0, HoldersOf
    <3>5. Holders(v, x) = (s - si) + (m - mi) + a
      BY <2>1, <2>2, <2>3, <3>3, <3>4
    <3>6. v.refs[x] = w.refs[x] - mi - si /\ w.refs[x] = Holders(w, x)
      BY <1>2, <2>5 DEF Deletes, Core, Counted
    <3> HIDE DEF s, m, si, mi, a
    <3> QED BY <3>1, <3>2, <3>5, <3>6
  <2> QED BY <2>4, <2>5
<1>9. Tied(v)
  <2>1. ASSUME NEW m \in Monster, NEW c \in Creature PROVE v.master[m] = c <=> m \in v.summons[c]
    <3>1. w.master[m] = c <=> m \in w.summons[c]
      BY DEF Core, Tied
    <3>2. m \in D => m \notin w.summons[c]
      BY <1>1 DEF Masters
    <3> QED BY <1>4, <1>6, <3>1, <3>2, Kinds
  <2>2. ASSUME NEW m \in Monster, v.master[m] # None PROVE v.summons[m] = {}
    <3>1. w.summons[m] = {}
      BY <1>6, <2>2 DEF Core, Tied
    <3> QED BY <1>4, <3>1, Kinds
  <2> QED BY <2>1, <2>2 DEF Tied
<1>10. Apart(v)
  BY <1>4, <1>5, Kinds DEF Core, Apart
<1>11. Staged(v)
  <2>1. ASSUME NEW x \in Creature, v.stage[x] = "free" PROVE Clean(v, x)
    <3>1. CASE x \in D
      BY <1>2, <3>1, Kinds DEF Deletes, Clean
    <3>2. CASE x \notin D
      <4>1. Clean(w, x)
        BY <1>3, <2>1, <3>2 DEF Core, Staged
      <4>2. Holders(w, x) = 0
        BY <4>1 DEF Core, Counted, Clean
      <4>3. Seekers(w, x) = {} /\ Masters(w, x) = {}
        BY <1>0, <4>2, Unheld
      <4>4. Cardinality(Masters(w, x) \intersect D) = 0 /\ Cardinality(Seekers(w, x) \intersect D) = 0
        BY <4>3, FS_EmptySet
      <4>5. v.refs[x] = 0
        <5>1. v.refs[x] = w.refs[x] - Cardinality(Masters(w, x) \intersect D)
                            - Cardinality(Seekers(w, x) \intersect D)
          BY <1>2, <3>2 DEF Deletes
        <5>2. w.refs[x] = 0
          BY <4>1 DEF Clean
        <5> QED BY <4>4, <5>1, <5>2
      <4>6. x \in Monster => v.targets[x] = {} /\ v.idle[x] /\ v.master[x] = None
        BY <1>2, <3>2, <4>1 DEF Deletes, Clean
      <4>7. ~v.dead[x] /\ v.summons[x] = {}
        BY <1>2, <3>2, <4>1 DEF Deletes, Clean
      <4> QED BY <4>5, <4>6, <4>7 DEF Clean
    <3> QED BY <3>1, <3>2
  <2>2. \A x \in Creature : v.checked[x] => v.stage[x] = "placed"
    BY <1>1, <1>3, <1>7 DEF Core, Staged
  <2>3. \A x \in v.releasing : v.stage[x] = "removed"
    BY <1>0, <1>1, <1>3, <1>7 DEF Core, Staged, CreatureWorld
  <2> QED BY <2>1, <2>2, <2>3 DEF Staged
<1>12. Placed(v) = Placed(w)
  BY <1>1, <1>3 DEF Placed
<1>13. \A x \in Placed(w) : x \notin D
  BY <1>1 DEF Placed
<1>14. Watched(v, {}, {})
  <2>1. \A x \in Creature : x \notin D => v.dead[x] = w.dead[x]
    BY <1>2 DEF Deletes
  <2>2. Alive(v) = Alive(w)
    BY <1>12, <1>13, <2>1 DEF Alive, Placed
  <2>3. \A x \in Creature : Watches(w, x) <=> Watches(v, x)
    BY <1>7 DEF Watches
  <2>4. \A x \in Placed(v) : v.dead[x] \/ x \in Hunter => Watches(v, x)
    BY <1>12, <1>13, <2>1, <2>3 DEF Watched, Placed
  <2>5. \A m \in Monster : m \notin D => v.idle[m] = w.idle[m]
    BY <1>2 DEF Deletes
  <2>6. \A x \in Alive(v) \intersect Monster : IF v.idle[x] THEN v.targets[x] = {} ELSE Watches(v, x)
    <3> SUFFICES ASSUME NEW x \in Alive(v) \intersect Monster
                 PROVE  IF v.idle[x] THEN v.targets[x] = {} ELSE Watches(v, x)
      OBVIOUS
    <3>1. x \in Alive(w) \intersect Monster /\ x \notin D /\ x \in Creature
      BY <1>13, <2>2 DEF Alive, Placed
    <3>2. IF w.idle[x] THEN w.targets[x] = {} ELSE Watches(w, x)
      BY <3>1 DEF Watched
    <3> QED BY <1>5, <2>3, <2>5, <3>1, <3>2
  <2> QED BY <2>4, <2>6 DEF Watched
<1>15. Untangled(w, {}, {}) => Untangled(v, {}, {})
  <2> SUFFICES ASSUME Untangled(w, {}, {}) PROVE Untangled(v, {}, {})
    OBVIOUS
  <2>1. \A x \in Creature : Holds(v, x) \subseteq Holds(w, x)
    BY <1>4, <1>5 DEF Holds
  <2>2. Acyclic(v)
    <3>1. Removed(v) \subseteq Removed(w)
      BY <1>3 DEF Removed
    <3>2. \A d \in Removed(v) : Holds(v, d) \subseteq Holds(w, d)
      BY <2>1 DEF Removed
    <3> QED BY <3>1, <3>2, AcyclicStays DEF Untangled
  <2>3. Together(v, {})
    <3> SUFFICES ASSUME NEW m \in Monster, v.master[m] \in Creature
                 PROVE  v.stage[m] = "placed" <=> v.stage[v.master[m]] = "placed"
      BY DEF Together
    <3>1. v.master[m] = w.master[m] /\ m \in Creature
      BY <1>6, Kinds
    <3>2. w.stage[m] = "placed" <=> w.stage[v.master[m]] = "placed"
      BY <3>1 DEF Untangled, Loose, Together
    <3> QED BY <1>12, <3>1, <3>2 DEF Placed
  <2>4. ASSUME NEW x \in Creature, w.stage[x] = "placed", Harmless(w, x) PROVE Harmless(v, x)
    <3>1. CASE x \in Hunter
      BY <3>1 DEF Harmless
    <3>2. CASE x \notin Hunter
      <4>1. x \in Monster /\ x \notin D
        BY <1>1, <2>4, <3>2, Kinds
      <4>2. w.master[x] \in Hunter => w.master[x] \notin D
        <5> SUFFICES ASSUME w.master[x] \in Hunter PROVE w.master[x] \notin D
          OBVIOUS
        <5>1. w.master[x] \in Creature
          BY Kinds
        <5>2. w.stage[w.master[x]] = "placed"
          BY <2>4, <4>1, <5>1 DEF Untangled, Loose, Together
        <5> QED BY <1>1, <5>2
      <4>3. w.master[x] \in Hunter => v.master[x] \in Hunter
        BY <1>6, <4>1, <4>2
      <4>4. w.master[x] = None => v.master[x] = None
        BY <1>6, <4>1
      <4>5. w.dead[x] => v.dead[x]
        BY <1>2, <2>4, <4>1 DEF Deletes
      <4>6. w.summons[x] = {} => v.summons[x] = {}
        BY <1>4, <2>4
      <4> QED BY <2>4, <3>2, <4>3, <4>4, <4>5, <4>6 DEF Harmless
    <3> QED BY <3>1, <3>2
  <2>5. ASSUME NEW m \in Monster, NEW c \in Creature, c \in v.targets[m], v.stage[m] = "placed"
        PROVE  /\ v.master[m] \in Monster /\ v.stage[c] = "placed" => Harmless(v, c)
               /\ v.master[m] # None /\ v.stage[c] = "removed" => Holds(v, c) = {}
    <3>1. m \in Creature /\ w.stage[m] = "placed" /\ c \in w.targets[m]
      BY <1>3, <1>5, <2>5, Kinds
    <3>2. /\ w.master[m] \in Monster /\ w.stage[c] = "placed" => Harmless(w, c)
          /\ w.master[m] # None /\ w.stage[c] = "removed" => Holds(w, c) = {}
      BY <3>1 DEF Untangled, Loose
    <3>3. (v.stage[c] = "placed" => w.stage[c] = "placed")
          /\ (v.stage[c] = "removed" => w.stage[c] = "removed")
      BY <1>3
    <3>4. v.master[m] # None => v.master[m] = w.master[m]
      BY <1>6
    <3> QED BY <2>1, <2>4, <3>2, <3>3, <3>4, Kinds
  <2> QED BY <2>2, <2>3, <2>5 DEF Untangled, Loose
<1> QED BY <1>0, <1>8, <1>9, <1>10, <1>11, <1>12, <1>14, <1>15 DEF Core

\* Round after round, what nobody refers to is deleted.
Round(v) == IF Unwanted(v) = {} THEN v ELSE Destroy(v)
Rounds(w, S) == FoldSet(LAMBDA c, v : IF Unwanted(v) = {} THEN v ELSE Destroy(v), w, S)

\* Rounds, of what Round keeps.
LEMMA RoundsKeep ==
  ASSUME NEW w, NEW S, IsFiniteSet(S), NEW G, w \in G[{}],
         \A T \in (SUBSET S) \ {{}} : \A x \in T : \A v \in G[T \ {x}] :
           Round(v) \in G[T]
  PROVE  Rounds(w, S) \in G[S]
<1> DEFINE pick == Chosen(S)
           step == [T \in SUBSET S |-> [v \in G[T \ {pick[T]}] |-> Round(v)]]
           E(f) == [T \in SUBSET S |-> IF T = {} THEN w
                      ELSE Round(f[T \ {CHOOSE x \in T : TRUE}])]
           iter == CHOOSE f : f = E(f)
<1>1. Rounds(w, S) = iter[S]
  BY DEF Rounds, Round, FoldSet, MapThenFoldSet
<1>2. \A T \in (SUBSET S) \ {{}} : pick[T] = (CHOOSE x \in T : TRUE) /\ pick[T] \in T
  BY Choosing DEF Picks, Chosen
<1>3. \A T \in (SUBSET S) \ {{}} : \A v \in G[T \ {pick[T]}] :
        step[T][v] = Round(v)
  OBVIOUS
<1> HIDE DEF pick, step
<1>4. Picks(pick, S) /\ StepsIn(step, pick, S, G)
  <2>1. ASSUME NEW T \in (SUBSET S) \ {{}}, NEW v \in G[T \ {pick[T]}]
        PROVE  step[T][v] \in G[T]
    <3>1. pick[T] \in T
      BY <1>2
    <3> QED BY <1>3, <3>1
  <2>2. Picks(pick, S)
    BY <1>2 DEF Picks
  <2> QED BY <2>1, <2>2 DEF StepsIn
<1>5. iter = E(iter)
  <2>1. PICK f : /\ f = [T \in SUBSET S |-> f[T]]
                 /\ FoldsTo(f, S, w, pick, step) /\ ValuesIn(f, S, G)
    BY <1>4, FoldExists
  <2>2. ASSUME NEW T \in (SUBSET S) \ {{}}
        PROVE  f[T] = Round(f[T \ {pick[T]}])
    <3>1. T \in SUBSET S /\ T # {} /\ T \ {pick[T]} \in SUBSET S
      OBVIOUS
    <3>2. f[T \ {pick[T]}] \in G[T \ {pick[T]}]
      BY <2>1, <3>1 DEF ValuesIn
    <3>3. f[T] = step[T][f[T \ {pick[T]}]]
      BY <2>1, <3>1 DEF FoldsTo
    <3> QED BY <3>1, <3>2, <3>3, <1>3
  <2>3. f = E(f)
    BY <2>1, <2>2, <1>2 DEF FoldsTo
  <2> QED BY <2>3, ZenonT(30)
<1>6. /\ iter[{}] = w
      /\ \A T \in (SUBSET S) \ {{}} : iter[T] = Round(iter[T \ {pick[T]}])
  BY <1>2, <1>5
<1> HIDE DEF iter
<1>7. Follows(iter, S, G, pick, step)
  BY <1>3, <1>6 DEF Follows
<1>8. iter[S] \in G[S]
  BY <1>4, <1>6, <1>7, FoldStays
<1> QED BY <1>1, <1>8

\* A round deletes something, when there is something to delete.
Existing(w) == {c \in Creature : w.stage[c] # "free"}
\* A round leaves fewer objects, all of them counted.
LEMMA RoundDeletes ==
  ASSUME NEW w, Core(w), Watched(w, {}, {}), Unwanted(w) # {}
  PROVE  /\ Core(Destroy(w)) /\ Watched(Destroy(w), {}, {}) /\ Placed(Destroy(w)) = Placed(w)
         /\ Untangled(w, {}, {}) => Untangled(Destroy(w), {}, {})
         /\ Cardinality(Existing(Destroy(w))) < Cardinality(Existing(w))
<1> DEFINE v == Destroy(w)
<1>1. Deletes(w, v, Unwanted(w))
  BY DeletesIs
<1> HIDE DEF v
<1>2. /\ Core(v) /\ Watched(v, {}, {}) /\ Placed(v) = Placed(w)
      /\ Untangled(w, {}, {}) => Untangled(v, {}, {})
  BY <1>1, Deleting
<1>3. PICK x \in Unwanted(w) : TRUE
  OBVIOUS
<1>4. Existing(v) \subseteq Existing(w) \ {x} /\ x \in Existing(w)
  BY <1>1, <1>3 DEF Deletes, Existing, Unwanted
<1>5. IsFiniteSet(Existing(w)) /\ IsFiniteSet(Existing(w) \ {x})
  BY Kinds, FS_Subset DEF Existing
<1>6. Cardinality(Existing(w) \ {x}) = Cardinality(Existing(w)) - 1
  BY <1>4, <1>5, FS_RemoveElement
<1>7. Cardinality(Existing(v)) <= Cardinality(Existing(w) \ {x})
  BY <1>4, <1>5, FS_Subset
<1>8. Cardinality(Existing(w)) \in Nat /\ Cardinality(Existing(v)) \in Nat
  <2>1. IsFiniteSet(Existing(v))
    BY Kinds, FS_Subset DEF Existing
  <2> QED BY <1>5, <2>1, FS_CardinalityType
<1>9. Cardinality(Existing(v)) < Cardinality(Existing(w))
  BY <1>6, <1>7, <1>8
<1> QED BY <1>2, <1>9 DEF v

\* Once the rounds are over, nothing is left that nobody refers to.
LEMMA Settling ==
  ASSUME NEW w, Core(w), Watched(w, {}, {})
  PROVE  /\ Core(Settled(w)) /\ Watched(Settled(w), {}, {}) /\ Placed(Settled(w)) = Placed(w)
         /\ Untangled(w, {}, {}) => Untangled(Settled(w), {}, {})
         /\ Unwanted(Settled(w)) = {}
<1> DEFINE Good(u, T) ==
             /\ Core(u) /\ Watched(u, {}, {}) /\ Placed(u) = Placed(w)
             /\ Untangled(w, {}, {}) => Untangled(u, {}, {})
             /\ Unwanted(u) = {} \/ Cardinality(Existing(u)) <= Cardinality(Creature \ T)
           G == [T \in SUBSET Creature |-> {u \in CreatureWorld : Good(u, T)}]
           r == Rounds(w, Creature)
<1>1. IsFiniteSet(Creature)
  BY Kinds
<1>2. Good(w, {})
  <2>1. Existing(w) \subseteq Creature \ {}
    BY DEF Existing
  <2>2. Cardinality(Existing(w)) <= Cardinality(Creature \ {})
    BY <1>1, <2>1, FS_Subset
  <2> QED BY <2>2
<1>3. w \in G[{}]
  <2> HIDE DEF Good
  <2> QED BY <1>2 DEF Core
<1>4. ASSUME NEW T \in (SUBSET Creature) \ {{}}, NEW x \in T, NEW u, Good(u, T \ {x})
      PROVE  Good(Round(u), T)
  <2>1. CASE Unwanted(u) = {}
    BY <1>4, <2>1 DEF Round
  <2>2. CASE Unwanted(u) # {}
    <3> DEFINE v == Destroy(u)
    <3>1. Core(u) /\ Watched(u, {}, {})
      BY <1>4
    <3>2. /\ Core(v) /\ Watched(v, {}, {}) /\ Placed(v) = Placed(u)
          /\ Untangled(u, {}, {}) => Untangled(v, {}, {})
          /\ Cardinality(Existing(v)) < Cardinality(Existing(u))
      BY <2>2, <3>1, RoundDeletes
    <3>3. Round(u) = v
      BY <2>2 DEF Round
    <3> HIDE DEF v
    <3>4. Cardinality(Existing(u)) <= Cardinality(Creature \ (T \ {x}))
      BY <1>4, <2>2
    <3>5. Cardinality(Creature \ (T \ {x})) = Cardinality(Creature \ T) + 1
      <4>1. Creature \ (T \ {x}) = (Creature \ T) \union {x} /\ x \notin Creature \ T
        OBVIOUS
      <4>2. IsFiniteSet(Creature \ T)
        BY <1>1, FS_Difference
      <4> QED BY <4>1, <4>2, FS_AddElement
    <3>6. /\ Cardinality(Existing(v)) \in Nat /\ Cardinality(Existing(u)) \in Nat
          /\ Cardinality(Creature \ T) \in Nat
      <4>1. IsFiniteSet(Existing(v)) /\ IsFiniteSet(Existing(u)) /\ IsFiniteSet(Creature \ T)
        BY <1>1, FS_Subset, FS_Difference DEF Existing
      <4> QED BY <4>1, FS_CardinalityType
    <3>7. Cardinality(Existing(v)) <= Cardinality(Creature \ T)
      BY <3>2, <3>4, <3>5, <3>6
    <3>8. Good(v, T)
      BY <1>4, <3>2, <3>7
    <3> QED BY <3>3, <3>8
  <2> QED BY <2>1, <2>2
<1>5. r \in G[Creature]
  <2>1. ASSUME NEW T \in (SUBSET Creature) \ {{}}, NEW x \in T, NEW v \in G[T \ {x}]
        PROVE  Round(v) \in G[T]
    <3> HIDE DEF Good
    <3>1. Good(v, T \ {x})
      OBVIOUS
    <3>2. Good(Round(v), T)
      BY <1>4, <3>1
    <3>3. Round(v) \in CreatureWorld
      BY <3>2 DEF Good, Core
    <3> QED BY <3>2, <3>3
  <2> HIDE DEF G
  <2> QED BY <1>1, <1>3, <2>1, RoundsKeep
<1>6. Good(r, Creature)
  <2> HIDE DEF Good, r
  <2> QED BY <1>5
<1> HIDE DEF r, G
<1>7. Unwanted(r) = {}
  <2> SUFFICES ASSUME Cardinality(Existing(r)) <= Cardinality(Creature \ Creature) PROVE Unwanted(r) = {}
    BY <1>6
  <2>1. Cardinality(Creature \ Creature) = 0
    BY FS_EmptySet
  <2>2. IsFiniteSet(Existing(r))
    BY <1>1, FS_Subset DEF Existing
  <2>3. Cardinality(Existing(r)) = 0
    BY <2>1, <2>2, FS_CardinalityType
  <2>4. Existing(r) = {}
    BY <2>2, <2>3, FS_EmptySet
  <2> QED BY <2>4 DEF Existing, Unwanted
<1>8. Settled(w) = IF Unwanted(w) = {} THEN w ELSE r
  BY DEF Settled, r, Rounds
<1>9. CASE Unwanted(w) = {}
  BY <1>8, <1>9
<1>10. CASE Unwanted(w) # {}
  BY <1>6, <1>7, <1>8, <1>10
<1> QED BY <1>9, <1>10

\* What does not exist is not looked for.
LEMMA Sought ==
  ASSUME NEW w, Core(w), NEW m \in Monster, NEW c \in w.targets[m]
  PROVE  c \in Creature /\ w.stage[c] # "free" /\ c # m
<1>1. w \in CreatureWorld /\ c \in Creature /\ c # m
  BY DEF Core, CreatureWorld, Apart
<1>2. SUFFICES ASSUME w.stage[c] = "free" PROVE FALSE
  BY <1>1
<1>3. Holders(w, c) = 0
  BY <1>1, <1>2 DEF Core, Staged, Clean, Counted
<1>4. Seekers(w, c) = {}
  BY <1>1, <1>3, Unheld
<1> QED BY <1>4 DEF Seekers

\* Nor does it keep or serve anyone.
LEMMA Unborn ==
  ASSUME NEW w, Core(w), NEW c \in Creature, w.stage[c] = "free"
  PROVE  /\ Seekers(w, c) = {} /\ Masters(w, c) = {} /\ w.summons[c] = {}
         /\ c \in Monster => w.targets[c] = {} /\ w.master[c] = None
<1>1. w \in CreatureWorld
  BY DEF Core
<1>2. Clean(w, c)
  BY DEF Core, Staged
<1>3. Holders(w, c) = 0
  BY <1>2 DEF Core, Clean, Counted
<1> QED BY <1>1, <1>2, <1>3, Unheld DEF Clean

\* Who enters the map tangles nothing.
LEMMA EntersUntangled ==
  ASSUME NEW w, Core(w), NEW c \in Creature, w.stage[c] = "free",
         NEW v, Enters(w, v, c), Untangled(w, {}, {})
  PROVE  Untangled(v, {}, {})
<1>0. w \in CreatureWorld
  BY DEF Core
<1>1. /\ v.dead = w.dead /\ v.targets = w.targets /\ v.master = w.master /\ v.summons = w.summons
      /\ \A x \in Creature : v.stage[x] = IF x = c THEN "placed" ELSE w.stage[x]
  BY <1>0 DEF Enters, CreatureWorld
<1>2. /\ Seekers(w, c) = {} /\ Masters(w, c) = {} /\ w.summons[c] = {}
      /\ c \in Monster => w.targets[c] = {} /\ w.master[c] = None
  BY Unborn
<1>3. \A x : Holds(v, x) = Holds(w, x)
  BY <1>1 DEF Holds
<1>4. Removed(v) = Removed(w)
  BY <1>1 DEF Removed
<1>5. Acyclic(v)
  BY <1>3, <1>4 DEF Untangled, Acyclic
<1>6. Together(v, {})
  <2> SUFFICES ASSUME NEW m \in Monster, v.master[m] \in Creature
               PROVE  v.stage[m] = "placed" <=> v.stage[v.master[m]] = "placed"
    BY DEF Together
  <2>1. m \in Creature /\ w.master[m] \in Creature /\ v.master[m] = w.master[m]
    BY <1>1, Kinds
  <2>2. m # c
    BY <1>2, <2>1, Kinds
  <2>3. w.master[m] # c
    <3>1. w.master[m] = c <=> m \in w.summons[c]
      BY DEF Core, Tied
    <3> QED BY <1>2, <3>1
  <2>4. w.stage[m] = "placed" <=> w.stage[w.master[m]] = "placed"
    BY <2>1 DEF Untangled, Loose, Together
  <2> QED BY <1>1, <2>1, <2>2, <2>3, <2>4
<1>7. ASSUME NEW m \in Monster, NEW x \in Creature, x \in v.targets[m], v.stage[m] = "placed"
      PROVE  /\ v.master[m] \in Monster /\ v.stage[x] = "placed" => Harmless(v, x)
             /\ v.master[m] # None /\ v.stage[x] = "removed" => Holds(v, x) = {}
  <2>1. x # c /\ m # c /\ m \in Creature
    BY <1>1, <1>2, <1>7, Kinds DEF Seekers
  <2>2. v.stage[x] = w.stage[x] /\ w.stage[m] = "placed"
    BY <1>1, <1>7, <2>1
  <2>3. Harmless(w, x) => Harmless(v, x)
    BY <1>1 DEF Harmless
  <2>4. /\ w.master[m] \in Monster /\ w.stage[x] = "placed" => Harmless(w, x)
        /\ w.master[m] # None /\ w.stage[x] = "removed" => Holds(w, x) = {}
    BY <1>1, <1>7, <2>2 DEF Untangled, Loose
  <2> QED BY <1>1, <1>3, <2>2, <2>3, <2>4
<1> QED BY <1>5, <1>6, <1>7 DEF Untangled, Loose

\* A new summon may seek its master's friends.
LEMMA CommandsUntangled ==
  ASSUME NEW w, Core(w), NEW c \in Creature, w.stage[c] = "placed", NEW m \in Monster,
         w.stage[m] = "placed", c \in Monster => ~Harmless(w, c),
         NEW v, Commands(w, v, c, m), NEW X, Untangled(w, X, {}), m \in X
  PROVE  Untangled(v, X, {})
<1>0. w \in CreatureWorld
  BY DEF Core
<1>1. /\ v.dead = w.dead /\ v.targets = w.targets /\ v.stage = w.stage
      /\ \A x \in Monster : v.master[x] = IF x = m THEN c ELSE w.master[x]
      /\ \A x \in Creature : v.summons[x] = IF x = c THEN w.summons[x] \union {m} ELSE w.summons[x]
  BY <1>0 DEF Commands, SameSights, SameAnchors, CreatureWorld
<1>2. \A x \in Creature : x # c => Holds(v, x) = Holds(w, x)
  BY <1>1 DEF Holds
<1>3. Acyclic(v)
  <2>1. Removed(v) = Removed(w)
    BY <1>1 DEF Removed
  <2>2. \A d \in Removed(v) : d \in Creature /\ d # c
    BY <1>1 DEF Removed
  <2>3. \A d \in Removed(v) : Holds(v, d) \subseteq Holds(w, d)
    BY <1>2, <2>2
  <2> QED BY <2>1, <2>3, AcyclicStays DEF Untangled
<1>4. Together(v, {})
  BY <1>1 DEF Untangled, Loose, Together
<1>5. ASSUME NEW a \in Monster, NEW x \in Creature, x \in v.targets[a], v.stage[a] = "placed", a \notin X
      PROVE  /\ v.master[a] \in Monster /\ v.stage[x] = "placed" /\ x \notin X => Harmless(v, x)
             /\ v.master[a] # None /\ v.stage[x] = "removed" => Holds(v, x) = {}
  <2>1. a # m /\ v.master[a] = w.master[a]
    BY <1>1, <1>5
  <2>2. /\ w.master[a] \in Monster /\ w.stage[x] = "placed" /\ x \notin X => Harmless(w, x)
        /\ w.master[a] # None /\ w.stage[x] = "removed" => Holds(w, x) = {}
    BY <1>1, <1>5 DEF Untangled, Loose
  <2>3. w.stage[x] = "removed" => Holds(v, x) = Holds(w, x)
    BY <1>2
  <2>4. Harmless(w, x) /\ x \notin X => Harmless(v, x)
    <3> SUFFICES ASSUME Harmless(w, x), x \notin X PROVE Harmless(v, x)
      OBVIOUS
    <3>1. CASE x \in Hunter
      BY <3>1 DEF Harmless
    <3>2. CASE x \notin Hunter
      <4>1. x \in Monster /\ x # m /\ x # c
        BY <3>2, Kinds
      <4> QED BY <1>1, <3>2, <4>1 DEF Harmless
    <3> QED BY <3>1, <3>2
  <2> QED BY <1>1, <2>1, <2>2, <2>3, <2>4
<1> QED BY <1>3, <1>4, <1>5 DEF Untangled, Loose

\* A summon that is dismissed may be sought by other summons.
LEMMA DismissLoosely ==
  ASSUME NEW w, Core(w), NEW c \in Creature, NEW m \in w.summons[c],
         NEW v, Dismisses(w, v, c, m), NEW X, Untangled(w, X, {}), m \in X
  PROVE  Untangled(v, X, {})
<1>0. w \in CreatureWorld
  BY DEF Core
<1>00. m \in Monster
  BY <1>0 DEF CreatureWorld
<1>1. /\ v.dead = w.dead /\ v.targets = w.targets /\ v.stage = w.stage
      /\ \A x \in Monster : v.master[x] = IF x = m THEN None ELSE w.master[x]
      /\ \A x \in Creature : v.summons[x] \subseteq w.summons[x]
  BY <1>0, <1>00 DEF Dismisses, SameSights, SameAnchors, CreatureWorld
<1>2. \A x \in Creature : Holds(v, x) \subseteq Holds(w, x)
  BY <1>1 DEF Holds
<1>3. Acyclic(v)
  <2>1. Removed(v) = Removed(w)
    BY <1>1 DEF Removed
  <2>2. \A d \in Removed(v) : Holds(v, d) \subseteq Holds(w, d)
    BY <1>2 DEF Removed
  <2> QED BY <2>1, <2>2, AcyclicStays DEF Untangled
<1>4. Together(v, {})
  BY <1>1, Kinds DEF Untangled, Loose, Together
<1>5. ASSUME NEW a \in Monster, NEW x \in Creature, x \in v.targets[a], v.stage[a] = "placed", a \notin X
      PROVE  /\ v.master[a] \in Monster /\ v.stage[x] = "placed" /\ x \notin X => Harmless(v, x)
             /\ v.master[a] # None /\ v.stage[x] = "removed" => Holds(v, x) = {}
  <2>1. a # m /\ v.master[a] = w.master[a]
    BY <1>1, <1>5
  <2>2. /\ w.master[a] \in Monster /\ w.stage[x] = "placed" /\ x \notin X => Harmless(w, x)
        /\ w.master[a] # None /\ w.stage[x] = "removed" => Holds(w, x) = {}
    BY <1>1, <1>5 DEF Untangled, Loose
  <2>3. Holds(v, x) \subseteq Holds(w, x)
    BY <1>2
  <2>4. Harmless(w, x) /\ x \notin X => Harmless(v, x)
    <3> SUFFICES ASSUME Harmless(w, x), x \notin X PROVE Harmless(v, x)
      OBVIOUS
    <3>1. CASE x \in Hunter
      BY <3>1 DEF Harmless
    <3>2. CASE x \notin Hunter
      <4>1. x \in Monster /\ x # m
        BY <3>2, Kinds
      <4>2. v.summons[x] \subseteq w.summons[x]
        BY <1>1
      <4> QED BY <1>1, <3>2, <4>1, <4>2 DEF Harmless
    <3> QED BY <3>1, <3>2
  <2> QED BY <1>1, <2>1, <2>2, <2>3, <2>4
<1> QED BY <1>3, <1>4, <1>5 DEF Untangled, Loose

\* More may be left out; a monster is no exception when nobody looks for it and
\* it for nobody, or it serves a player and seeks only those on the map.
LEMMA Loosened ==
  ASSUME NEW w, NEW m, Untangled(w, {}, {})
  PROVE  Untangled(w, {m}, {})
BY DEF Untangled, Loose
\* Then it is like all others.
LEMMA Tightened ==
  ASSUME NEW w, NEW m \in Monster, Untangled(w, {m}, {}),
         \/ Seekers(w, m) = {} /\ w.targets[m] = {}
         \/ w.master[m] \in Hunter /\ \A x \in w.targets[m] : w.stage[x] = "placed"
  PROVE  Untangled(w, {}, {})
<1>1. ASSUME NEW a \in Monster, NEW x \in Creature, x \in w.targets[a], w.stage[a] = "placed"
      PROVE  /\ w.master[a] \in Monster /\ w.stage[x] = "placed" => Harmless(w, x)
             /\ w.master[a] # None /\ w.stage[x] = "removed" => Holds(w, x) = {}
  <2>1. CASE a = m
    BY <1>1, <2>1, Kinds
  <2>2. CASE a # m
    <3>1. /\ w.master[a] \in Monster /\ w.stage[x] = "placed" /\ x # m => Harmless(w, x)
          /\ w.master[a] # None /\ w.stage[x] = "removed" => Holds(w, x) = {}
      BY <1>1, <2>2 DEF Untangled, Loose
    <3>2. x = m => Harmless(w, x)
      BY <1>1 DEF Harmless, Seekers
    <3> QED BY <3>1, <3>2
  <2> QED BY <2>1, <2>2
<1> QED BY <1>1 DEF Untangled, Loose

\* Those who see m look about again.
LooksAgain(t, o, m, asleep) == Look(t, o, t.targets[o] \union {m}, asleep)
LookedAgain(w, m, S, asleep) ==
  FoldSet(LAMBDA o, t : Look(t, o, t.targets[o] \union {m}, asleep), w, S)

\* LookedAgain, of what LooksAgain keeps.
LEMMA LookedAgainKeeps ==
  ASSUME NEW w, NEW m, NEW S, NEW asleep, IsFiniteSet(S), NEW G, w \in G[{}],
         \A T \in (SUBSET S) \ {{}} : \A x \in T : \A v \in G[T \ {x}] :
           LooksAgain(v, x, m, asleep) \in G[T]
  PROVE  LookedAgain(w, m, S, asleep) \in G[S]
<1> DEFINE pick == Chosen(S)
           step == [T \in SUBSET S |-> [v \in G[T \ {pick[T]}] |-> LooksAgain(v, pick[T], m, asleep)]]
           E(f) == [T \in SUBSET S |-> IF T = {} THEN w
                      ELSE LooksAgain(f[T \ {CHOOSE x \in T : TRUE}], CHOOSE x \in T : TRUE, m, asleep)]
           iter == CHOOSE f : f = E(f)
<1>1. LookedAgain(w, m, S, asleep) = iter[S]
  BY DEF LookedAgain, LooksAgain, FoldSet, MapThenFoldSet
<1>2. \A T \in (SUBSET S) \ {{}} : pick[T] = (CHOOSE x \in T : TRUE) /\ pick[T] \in T
  BY Choosing DEF Picks, Chosen
<1>3. \A T \in (SUBSET S) \ {{}} : \A v \in G[T \ {pick[T]}] :
        step[T][v] = LooksAgain(v, pick[T], m, asleep)
  OBVIOUS
<1> HIDE DEF pick, step
<1>4. Picks(pick, S) /\ StepsIn(step, pick, S, G)
  <2>1. ASSUME NEW T \in (SUBSET S) \ {{}}, NEW v \in G[T \ {pick[T]}]
        PROVE  step[T][v] \in G[T]
    <3>1. pick[T] \in T
      BY <1>2
    <3> QED BY <1>3, <3>1
  <2>2. Picks(pick, S)
    BY <1>2 DEF Picks
  <2> QED BY <2>1, <2>2 DEF StepsIn
<1>5. iter = E(iter)
  <2>1. PICK f : /\ f = [T \in SUBSET S |-> f[T]]
                 /\ FoldsTo(f, S, w, pick, step) /\ ValuesIn(f, S, G)
    BY <1>4, FoldExists
  <2>2. ASSUME NEW T \in (SUBSET S) \ {{}}
        PROVE  f[T] = LooksAgain(f[T \ {pick[T]}], pick[T], m, asleep)
    <3>1. T \in SUBSET S /\ T # {} /\ T \ {pick[T]} \in SUBSET S
      OBVIOUS
    <3>2. f[T \ {pick[T]}] \in G[T \ {pick[T]}]
      BY <2>1, <3>1 DEF ValuesIn
    <3>3. f[T] = step[T][f[T \ {pick[T]}]]
      BY <2>1, <3>1 DEF FoldsTo
    <3> QED BY <3>1, <3>2, <3>3, <1>3
  <2>3. f = E(f)
    BY <2>1, <2>2, <1>2 DEF FoldsTo
  <2> QED BY <2>3, ZenonT(30)
<1>6. /\ iter[{}] = w
      /\ \A T \in (SUBSET S) \ {{}} : iter[T] = LooksAgain(iter[T \ {pick[T]}], pick[T], m, asleep)
  BY <1>2, <1>5
<1> HIDE DEF iter
<1>7. Follows(iter, S, G, pick, step)
  BY <1>3, <1>6 DEF Follows
<1>8. iter[S] \in G[S]
  BY <1>4, <1>6, <1>7, FoldStays
<1> QED BY <1>1, <1>8

\* Looking about again is a glance.
LEMMA LookingAgain ==
  ASSUME NEW w, Core(w), Watched(w, {}, {}), NEW m \in Monster, w.stage[m] = "placed",
         NEW S \in SUBSET Monster, m \notin S, \A o \in S : w.stage[o] = "placed", NEW asleep
  PROVE  Seen(w, LookedAgain(w, m, S, asleep), {})
<1> DEFINE G == [T \in SUBSET S |-> {u \in CreatureWorld : Seen(w, u, {})}]
<1>1. IsFiniteSet(S)
  BY Kinds, FS_Subset
<1>2. w \in CreatureWorld /\ Seen(w, w, {})
  BY DEF Core, Seen, Glance, Keeps
<1>3. ASSUME NEW o \in S, NEW t, Seen(w, t, {})
      PROVE  Seen(w, LooksAgain(t, o, m, asleep), {})
  <2> DEFINE V == t.targets[o] \union {m}
  <2>1. Core(t) /\ Watched(t, {}, {}) /\ Glance(w, t) /\ t.stage = w.stage /\ o \in Monster /\ o # m
    BY <1>3 DEF Seen, Glance, Keeps
  <2>2. t \in CreatureWorld /\ m \in Creature
    BY <2>1, Kinds DEF Core
  <2>3. \A c \in t.targets[o] : c \in Creature /\ t.stage[c] # "free" /\ c # o
    BY <2>1, Sought
  <2>4. V \in SUBSET Creature /\ o \notin V
    BY <2>1, <2>2, <2>3
  <2>5. \A c \in V : t.stage[c] = "placed" \/ (t.stage[c] = "removed" /\ c \in t.targets[o])
    <3>1. t.stage[m] = "placed"
      BY <2>1
    <3>2. \A c \in Creature : t.stage[c] \in {"free", "placed", "removed"}
      BY <2>2 DEF CreatureWorld
    <3> QED BY <2>3, <3>1, <3>2
  <2>6. t.stage[o] = "placed"
    BY <2>1
  <2> HIDE DEF V
  <2>7. Seen(t, Look(t, o, V, asleep), {}) /\ Look(t, o, V, asleep).targets[o] \subseteq V
    BY <2>1, <2>4, <2>5, <2>6, LookSeen
  <2>8. Seen(w, Look(t, o, V, asleep), {})
    BY <2>1, <2>7, GlanceOn DEF Seen
  <2> QED BY <2>8 DEF LooksAgain, V
<1>4. LookedAgain(w, m, S, asleep) \in G[S]
  <2>1. w \in G[{}]
    BY <1>2
  <2>2. ASSUME NEW T \in (SUBSET S) \ {{}}, NEW x \in T, NEW v \in G[T \ {x}]
        PROVE  LooksAgain(v, x, m, asleep) \in G[T]
    <3>1. Seen(w, v, {}) /\ x \in S
      OBVIOUS
    <3>2. Seen(w, LooksAgain(v, x, m, asleep), {})
      BY <1>3, <3>1
    <3> QED BY <3>2 DEF Seen, Core
  <2> HIDE DEF G
  <2> QED BY <1>1, <2>1, <2>2, LookedAgainKeeps
<1> QED BY <1>4

\* A player's new summon, whom nobody commands any more.
Convinced(w, p, m, V, asleep) ==
  LookedAgain(UpdateIdle(Look(AddSummon(DestroySummons(w, m), p, m), m, V, asleep), m, asleep),
              m, V \intersect Monster, asleep)
\* A monster that nobody commands becomes a summon of p.
LEMMA Convincing ==
  ASSUME NEW w, Core(w), Watched(w, {}, {}), NEW p \in Hunter, w.stage[p] = "placed",
         NEW m \in Monster, w.stage[m] = "placed", w.master[m] = None,
         NEW V \in SUBSET Placed(w), m \notin V, NEW asleep
  PROVE  /\ Core(Convinced(w, p, m, V, asleep)) /\ Watched(Convinced(w, p, m, V, asleep), {}, {})
         /\ Placed(Convinced(w, p, m, V, asleep)) = Placed(w)
         /\ Untangled(w, {m}, {}) => Untangled(Convinced(w, p, m, V, asleep), {}, {})
<1> DEFINE s == DestroySummons(w, m)
           a == AddSummon(s, p, m)
           l == Look(a, m, V, asleep)
           u == UpdateIdle(l, m, asleep)
           M == V \intersect Monster
           r == LookedAgain(u, m, M, asleep)
<1>0. w \in CreatureWorld /\ p \in Creature /\ m \in Creature /\ p # m /\ p \notin Monster
  BY Kinds DEF Core
<1>1. Core(s) /\ Watched(s, {}, {}) /\ Slain(w, s, m, w.summons[m])
  BY <1>0, SummonsDestroyed
<1> HIDE DEF s
<1>2. /\ s.stage = w.stage /\ s.summons[m] = {} /\ s.master[m] = None
  <2>1. s.stage = w.stage /\ s.summons = [w.summons EXCEPT ![m] = @ \ w.summons[m]]
        /\ s.master = [x \in Monster |-> IF x \in w.summons[m] THEN None ELSE w.master[x]]
    BY <1>1 DEF Slain
  <2> QED BY <1>0, <2>1 DEF CreatureWorld
<1>3. s \in CreatureWorld
  BY <1>1 DEF Core
<1>4. Commands(s, a, p, m)
  BY <1>0, <1>3, CommandsIs
<1> HIDE DEF a
<1>5. Core(a) /\ Watched(a, {}, {})
  <2>1. s.stage[m] # "free" /\ s.stage[p] # "free"
    BY <1>2
  <2> QED BY <1>0, <1>1, <1>2, <1>4, <2>1, Commanding
<1>6. a.stage = w.stage /\ a.master[m] = p
  BY <1>0, <1>2, <1>3, <1>4 DEF Commands, SameSights, SameAnchors, CreatureWorld
<1>7. V \in SUBSET Creature /\ \A c \in V : a.stage[c] = "placed"
  BY <1>6 DEF Placed
<1>8. Seen(a, l, {}) /\ l.targets[m] \subseteq V
  <2>1. \A c \in V : a.stage[c] = "placed" \/ (a.stage[c] = "removed" /\ c \in a.targets[m])
    BY <1>7
  <2>2. a.stage[m] = "placed"
    BY <1>6
  <2> QED BY <1>5, <1>7, <2>1, <2>2, LookSeen
<1> HIDE DEF l
<1>9. Core(l) /\ Watched(l, {}, {}) /\ l.stage = w.stage /\ l.master[m] = p
  BY <1>6, <1>8 DEF Seen, Glance, Keeps
<1>10. Seen(l, u, {})
  <2>1. Watched(l, {}, {m})
    BY <1>9 DEF Watched
  <2>2. l.stage[m] # "free"
    BY <1>9
  <2> QED BY <1>9, <2>1, <2>2, IdleUpdated
<1> HIDE DEF u
<1>11. Core(u) /\ Watched(u, {}, {}) /\ u.stage = w.stage
  BY <1>9, <1>10 DEF Seen, Glance, Keeps
<1>12. Seen(u, r, {})
  <2>1. M \in SUBSET Monster /\ m \notin M /\ \A o \in M : u.stage[o] = "placed"
    BY <1>6, <1>7, <1>11
  <2>2. u.stage[m] = "placed"
    BY <1>11
  <2> HIDE DEF M
  <2> QED BY <1>11, <2>1, <2>2, LookingAgain
<1> HIDE DEF r
<1>13. Core(r) /\ Watched(r, {}, {}) /\ r.stage = w.stage
  BY <1>11, <1>12 DEF Seen, Glance, Keeps
<1>14. Placed(r) = Placed(w)
  BY <1>13 DEF Placed
<1>15. ASSUME Untangled(w, {m}, {}) PROVE Untangled(r, {}, {})
  <2>1. Untangled(s, {m}, {})
    BY <1>0, <1>1, <1>3, <1>15, SlainUntangled
  <2>2. Untangled(a, {m}, {})
    <3>1. s.stage[p] = "placed" /\ s.stage[m] = "placed" /\ m \in {m}
      BY <1>2
    <3> QED BY <1>0, <1>1, <1>4, <2>1, <3>1, CommandsUntangled
  <2>3. Untangled(l, {m}, {})
    <3>1. a \in CreatureWorld /\ l \in CreatureWorld /\ Glance(a, l)
      BY <1>5, <1>8 DEF Seen, Core
    <3> QED BY <2>2, <3>1, GlanceUntangled
  <2>4. Untangled(l, {}, {})
    <3>1. l.master[m] \in Hunter /\ \A x \in l.targets[m] : l.stage[x] = "placed"
      BY <1>6, <1>7, <1>8, <1>9
    <3> QED BY <2>3, <3>1, Tightened
  <2>5. Untangled(u, {}, {})
    <3>1. l \in CreatureWorld /\ u \in CreatureWorld /\ Glance(l, u)
      BY <1>9, <1>10 DEF Seen, Core
    <3> QED BY <2>4, <3>1, GlanceUntangled
  <2>6. u \in CreatureWorld /\ r \in CreatureWorld /\ Glance(u, r)
    BY <1>11, <1>12 DEF Seen, Core
  <2> QED BY <2>5, <2>6, GlanceUntangled
<1>16. Convinced(w, p, m, V, asleep) = r
  BY DEF Convinced, r, M, u, l, a, s
<1> QED BY <1>13, <1>14, <1>15, <1>16

\* What every task leaves behind: references are counted, everyone is watched,
\* nothing unwanted exists, and unless a dead monster was removed in a hurry,
\* nothing that has left the map is tangled.
CreaturesInv ==
  /\ Core(world) /\ Watched(world, {}, {}) /\ Unwanted(world) = {}
  /\ online = Placed(world) \intersect Hunter /\ hurried \in BOOLEAN
  /\ hurried \/ Untangled(world, {}, {})

\* Once what became of the world is settled, it is so again.
LEMMA Becoming ==
  ASSUME NEW w, Core(w), Watched(w, {}, {}), Becomes(w), online' = Placed(w) \intersect Hunter,
         hurried' \in BOOLEAN, hurried' \/ Untangled(w, {}, {})
  PROVE  CreaturesInv'
<1> DEFINE s == Settled(w)
<1>1. /\ Core(s) /\ Watched(s, {}, {}) /\ Placed(s) = Placed(w)
      /\ Untangled(w, {}, {}) => Untangled(s, {}, {})
      /\ Unwanted(s) = {}
  BY Settling
<1>2. world' = s
  BY DEF Becomes
<1> HIDE DEF s
<1>3. /\ Core(world') /\ Watched(world', {}, {}) /\ Unwanted(world') = {}
      /\ online' = Placed(world') \intersect Hunter
      /\ hurried' \/ Untangled(world', {}, {})
  BY <1>1, <1>2
<1> QED BY <1>3 DEF CreaturesInv

\* The map's newcomers.
LEMMA PlacedMonster ==
  ASSUME CreaturesInv, NEW V \in SUBSET Placed(world), NEW asleep,
         NEW c \in Creature, world.stage[c] = "free",
         Becomes(Place(world, c, V, asleep)), online' = online \union ({c} \intersect Hunter), hurried' = hurried
  PROVE  CreaturesInv'
<1> DEFINE e == Entered(world, c)
           r == Place(world, c, V, asleep)
<1>0. Core(world) /\ Watched(world, {}, {}) /\ world \in CreatureWorld
  BY DEF CreaturesInv, Core
<1>1. Enters(world, e, c)
  BY <1>0, EntersIs
<1>2. Seen(e, r, {})
  BY <1>0, Placing
<1>3. Becomes(r)
  OBVIOUS
<1> HIDE DEF e, r
<1>4. Core(r) /\ Watched(r, {}, {}) /\ r.stage = e.stage
  BY <1>2 DEF Seen, Glance, Keeps
<1>5. Core(e)
  BY <1>0, <1>1, Entering
<1>6. Placed(r) = Placed(world) \union {c}
  <2>1. e.stage = [world.stage EXCEPT ![c] = "placed"]
    BY <1>1 DEF Enters
  <2> QED BY <1>0, <1>4, <2>1 DEF Placed, CreatureWorld
<1>7. Untangled(world, {}, {}) => Untangled(r, {}, {})
  <2> SUFFICES ASSUME Untangled(world, {}, {}) PROVE Untangled(r, {}, {})
    OBVIOUS
  <2>1. Untangled(e, {}, {})
    BY <1>0, <1>1, EntersUntangled
  <2>2. e \in CreatureWorld /\ r \in CreatureWorld /\ Glance(e, r)
    BY <1>2, <1>5 DEF Seen, Core
  <2> QED BY <2>1, <2>2, GlanceUntangled
<1>8. online' = Placed(r) \intersect Hunter /\ hurried' \in BOOLEAN /\ (hurried' \/ Untangled(r, {}, {}))
  BY <1>6, <1>7 DEF CreaturesInv
<1> QED BY <1>3, <1>4, <1>8, Becoming

\* The summons of those who are alive.
LEMMA PlacedSummon ==
  ASSUME CreaturesInv, NEW V \in SUBSET Placed(world), NEW asleep,
         NEW c \in Alive(world), c \in Monster => world.master[c] = None,
         NEW m \in Monster, world.stage[m] = "free",
         Becomes(Place(AddSummon(world, c, m), m, V, asleep)), UNCHANGED <<online, hurried>>
  PROVE  CreaturesInv'
<1> DEFINE e == Entered(world, m)
           a == AddSummon(e, c, m)
           r == Place(AddSummon(world, c, m), m, V, asleep)
<1>0. /\ Core(world) /\ Watched(world, {}, {}) /\ world \in CreatureWorld
      /\ c \in Creature /\ m \in Creature /\ world.stage[c] = "placed" /\ ~world.dead[c] /\ c # m
  BY Kinds DEF CreaturesInv, Core, Alive, Placed
<1>1. Enters(world, e, m)
  BY <1>0, EntersIs
<1>2. Seen(a, r, {})
  BY <1>0, PlacingSummon
<1>3. Becomes(r)
  OBVIOUS
<1> HIDE DEF e, r
<1>4. Core(e) /\ e \in CreatureWorld
  BY <1>0, <1>1, Entering DEF Core
<1>5. Commands(e, a, c, m)
  BY <1>0, <1>4, CommandsIs
<1> HIDE DEF a
<1>6. /\ \A x \in Creature : e.stage[x] = IF x = m THEN "placed" ELSE world.stage[x]
      /\ e.dead = world.dead /\ e.targets = world.targets /\ e.master = world.master
      /\ e.summons = world.summons
  BY <1>0, <1>1 DEF Enters, CreatureWorld
<1>7. /\ a.stage = e.stage /\ a.targets = e.targets /\ a \in CreatureWorld
  BY <1>5 DEF Commands, SameSights, SameAnchors
<1>8. Core(r) /\ Watched(r, {}, {}) /\ r.stage = e.stage /\ Glance(a, r)
  BY <1>2, <1>7 DEF Seen, Glance, Keeps
<1>9. Placed(r) \intersect Hunter = Placed(world) \intersect Hunter
  BY <1>6, <1>8, Kinds DEF Placed
<1>10. Untangled(world, {}, {}) => Untangled(r, {}, {})
  <2> SUFFICES ASSUME Untangled(world, {}, {}) PROVE Untangled(r, {}, {})
    OBVIOUS
  <2>1. Untangled(e, {m}, {})
    BY <1>0, <1>1, EntersUntangled, Loosened
  <2>2. c \in Monster => ~Harmless(e, c)
    BY <1>0, <1>6, Kinds DEF Harmless
  <2>3. Untangled(a, {m}, {})
    <3>1. e.stage[c] = "placed" /\ e.stage[m] = "placed" /\ m \in {m}
      BY <1>0, <1>6
    <3> QED BY <1>0, <1>4, <1>5, <2>1, <2>2, <3>1, CommandsUntangled
  <2>4. Seekers(a, m) = {} /\ a.targets[m] = {}
    <3>1. Seekers(world, m) = {} /\ world.targets[m] = {}
      BY <1>0, Unborn
    <3> QED BY <1>6, <1>7, <3>1 DEF Seekers
  <2>5. Untangled(a, {}, {})
    BY <2>3, <2>4, Tightened
  <2>6. r \in CreatureWorld
    BY <1>8 DEF Core
  <2> QED BY <1>7, <1>8, <2>5, <2>6, GlanceUntangled
<1>11. online' = Placed(r) \intersect Hunter /\ hurried' \in BOOLEAN /\ (hurried' \/ Untangled(r, {}, {}))
  BY <1>9, <1>10 DEF CreaturesInv
<1> QED BY <1>3, <1>8, <1>11, Becoming

\* A step of a walk.
LEMMA Walked ==
  ASSUME CreaturesInv, NEW V \in SUBSET Placed(world), NEW asleep,
         NEW c \in Creature, c \notin V, Walk(c, V, asleep)
  PROVE  CreaturesInv'
<1> DEFINE others == Monster \ {c}
           L == (others \intersect Placed(world)) \ V
           F == others \intersect V
           w == LeftBy(world, L, c, asleep)
           v == FoundBy(w, F, c, asleep)
           u == IF c \in Monster THEN Look(v, c, V, asleep) ELSE v
           r == Cleanup(u)
<1>0. /\ Core(world) /\ Watched(world, {}, {}) /\ world \in CreatureWorld
      /\ c \in Alive(world) /\ world.stage[c] = "placed"
  BY DEF CreaturesInv, Core, Alive, Placed, Walk
<1>1. Becomes(r) /\ UNCHANGED <<online, hurried>>
  BY DEF Walk
<1>2. /\ L \in SUBSET Monster /\ \A m \in L : world.stage[m] # "free"
      /\ F \in SUBSET Monster /\ c \notin F /\ \A m \in F : world.stage[m] = "placed"
      /\ V \in SUBSET Creature /\ \A x \in V : world.stage[x] = "placed"
  BY DEF Placed
<1> HIDE DEF L, F
<1>3. Seen(world, w, {})
  BY <1>0, <1>2, LeftBySeen
<1> HIDE DEF w
<1>4. Core(w) /\ Watched(w, {}, {}) /\ w.stage = world.stage
  BY <1>3 DEF Seen, Glance, Keeps
<1>5. Seen(w, v, {})
  <2>1. w.stage[c] = "placed" /\ \A m \in F : w.stage[m] = "placed"
    BY <1>0, <1>2, <1>4
  <2> QED BY <1>2, <1>4, <2>1, FoundBySeen
<1> HIDE DEF v
<1>6. Core(v) /\ Watched(v, {}, {}) /\ v.stage = world.stage /\ Seen(world, v, {})
  BY <1>3, <1>4, <1>5, GlanceOn DEF Seen, Glance, Keeps
<1>7. Seen(world, u, {})
  <2>1. CASE c \in Monster
    <3>1. \A x \in V : v.stage[x] = "placed" \/ (v.stage[x] = "removed" /\ x \in v.targets[c])
      BY <1>2, <1>6
    <3>2. v.stage[c] = "placed"
      BY <1>0, <1>6
    <3>3. Seen(v, Look(v, c, V, asleep), {}) /\ Look(v, c, V, asleep).targets[c] \subseteq V
      BY <1>2, <1>6, <2>1, <3>1, <3>2, LookSeen
    <3>4. Seen(world, Look(v, c, V, asleep), {})
      BY <1>6, <3>3, GlanceOn DEF Seen
    <3> QED BY <2>1, <3>4
  <2>2. CASE c \notin Monster
    BY <1>6, <2>2
  <2> QED BY <2>1, <2>2
<1> HIDE DEF u
<1>8. Core(u) /\ Watched(u, {}, {}) /\ u.stage = world.stage /\ u \in CreatureWorld /\ Glance(world, u)
  BY <1>7 DEF Seen, Glance, Keeps, Core
<1>9. Core(r) /\ Watched(r, {}, {}) /\ SameTangle(u, r)
  BY <1>8, CleaningUp
<1> HIDE DEF r
<1>10. Placed(r) = Placed(world)
  BY <1>8, <1>9 DEF SameTangle, Placed
<1>11. Untangled(world, {}, {}) => Untangled(r, {}, {})
  BY <1>0, <1>8, <1>9, GlanceUntangled, TangleSame
<1>12. online' = Placed(r) \intersect Hunter /\ hurried' \in BOOLEAN /\ (hurried' \/ Untangled(r, {}, {}))
  BY <1>1, <1>10, <1>11 DEF CreaturesInv
<1> QED BY <1>1, <1>9, <1>12, Becoming

\* Blows and deaths.
LEMMA Harmed ==
  ASSUME CreaturesInv, NEW c \in Creature, NEW lethal, Harm(c, lethal)
  PROVE  CreaturesInv'
<1>0. /\ Core(world) /\ Watched(world, {}, {}) /\ world \in CreatureWorld
      /\ world.stage[c] = "placed" /\ UNCHANGED <<online, hurried>>
  BY DEF CreaturesInv, Core, Alive, Placed, Harm
<1>1. CASE lethal
  <2> DEFINE r == Kill(world, c)
  <2>1. Core(r) /\ Watched(r, {}, {}) /\ Perishes(world, r, c)
    BY <1>0, Killing
  <2>2. Becomes(r)
    BY <1>1 DEF Harm
  <2> HIDE DEF r
  <2>3. Placed(r) = Placed(world)
    BY <2>1 DEF Perishes, Placed
  <2>4. Untangled(world, {}, {}) => Untangled(r, {}, {})
    <3>1. r \in CreatureWorld
      BY <2>1 DEF Core
    <3> QED BY <1>0, <2>1, <3>1, PerishUntangled
  <2>5. online' = Placed(r) \intersect Hunter /\ hurried' \in BOOLEAN /\ (hurried' \/ Untangled(r, {}, {}))
    BY <1>0, <2>3, <2>4 DEF CreaturesInv
  <2> QED BY <2>1, <2>2, <2>5, Becoming
<1>2. CASE ~lethal /\ c \in Monster
  <2> DEFINE r == UpdateIdle(world, c, {})
  <2>1. r = SetIdle(world, c, FALSE)
    <3>1. (c \in {} /\ (world.master[c] # None \/ world.targets[c] = {})) = FALSE
      OBVIOUS
    <3> QED BY <3>1 DEF UpdateIdle
  <2>2. Becomes(r)
    BY <1>2, <2>1 DEF Harm
  <2>3. Seen(world, r, {})
    <3>1. Watched(world, {}, {c}) /\ world.stage[c] # "free"
      BY <1>0 DEF Watched
    <3> QED BY <1>0, <1>2, <3>1, IdleUpdated
  <2> HIDE DEF r
  <2>4. Core(r) /\ Watched(r, {}, {}) /\ r.stage = world.stage /\ r \in CreatureWorld /\ Glance(world, r)
    BY <2>3 DEF Seen, Glance, Keeps, Core
  <2>5. Placed(r) = Placed(world)
    BY <2>4 DEF Placed
  <2>6. Untangled(world, {}, {}) => Untangled(r, {}, {})
    BY <1>0, <2>4, GlanceUntangled
  <2>7. online' = Placed(r) \intersect Hunter /\ hurried' \in BOOLEAN /\ (hurried' \/ Untangled(r, {}, {}))
    BY <1>0, <2>5, <2>6 DEF CreaturesInv
  <2> QED BY <2>2, <2>4, <2>7, Becoming
<1>3. CASE ~lethal /\ c \notin Monster
  <2>1. Becomes(world)
    BY <1>3 DEF Harm
  <2> QED BY <1>0, <2>1, Becoming DEF CreaturesInv
<1> QED BY <1>1, <1>2, <1>3

\* A player convinces a monster that is not a player's.
LEMMA MonsterConvinced ==
  ASSUME CreaturesInv, NEW V \in SUBSET Placed(world), NEW asleep, NEW p \in Hunter,
         NEW m \in Monster, m \notin V, ConvinceCreature(p, m, V, asleep)
  PROVE  CreaturesInv'
<1> DEFINE old == world.master[m]
           w == IF old = None THEN world ELSE RemoveSummon(world, old, m)
           r == Convinced(w, p, m, V, asleep)
<1>0. /\ Core(world) /\ Watched(world, {}, {}) /\ world \in CreatureWorld
      /\ world.stage[p] = "placed" /\ world.stage[m] = "placed" /\ p \in Creature
      /\ UNCHANGED <<online, hurried>>
  BY Kinds DEF CreaturesInv, Core, Alive, Placed, ConvinceCreature
<1>1. Becomes(r)
  BY DEF ConvinceCreature, Convinced, LookedAgain
<1>2. /\ Core(w) /\ Watched(w, {}, {}) /\ w.stage = world.stage /\ w.master[m] = None
      /\ Untangled(world, {}, {}) => Untangled(w, {m}, {})
  <2>1. CASE old = None
    BY <1>0, <2>1, Loosened
  <2>2. CASE old # None
    <3>1. old \in Creature /\ m \in world.summons[old]
      BY <1>0, <2>2 DEF CreatureWorld, Core, Tied
    <3> HIDE DEF old
    <3>2. Dismisses(world, w, old, m)
      BY <1>0, <2>2, <3>1, DismissesIs
    <3> HIDE DEF w
    <3>3. Core(w) /\ Watched(w, {}, {})
      BY <1>0, <3>1, <3>2, Dismissing
    <3>4. w.stage = world.stage /\ w.master[m] = None
      BY <1>0, <3>2 DEF Dismisses, SameSights, SameAnchors, CreatureWorld
    <3>5. Untangled(world, {}, {}) => Untangled(w, {m}, {})
      <4> SUFFICES ASSUME Untangled(world, {}, {}) PROVE Untangled(w, {m}, {})
        OBVIOUS
      <4>1. Untangled(world, {m}, {}) /\ m \in {m}
        BY Loosened
      <4> QED BY <1>0, <3>1, <3>2, <4>1, DismissLoosely
    <3> QED BY <3>3, <3>4, <3>5
  <2> QED BY <2>1, <2>2
<1> HIDE DEF w, old
<1>3. Placed(w) = Placed(world)
  BY <1>2 DEF Placed
<1>4. /\ Core(r) /\ Watched(r, {}, {}) /\ Placed(r) = Placed(w)
      /\ Untangled(w, {m}, {}) => Untangled(r, {}, {})
  <2>1. V \in SUBSET Placed(w) /\ w.stage[p] = "placed" /\ w.stage[m] = "placed"
    BY <1>0, <1>2, <1>3
  <2> QED BY <1>2, <2>1, Convincing
<1> HIDE DEF r
<1>5. online' = Placed(r) \intersect Hunter /\ hurried' \in BOOLEAN /\ (hurried' \/ Untangled(r, {}, {}))
  BY <1>0, <1>2, <1>3, <1>4 DEF CreaturesInv
<1> QED BY <1>1, <1>4, <1>5, Becoming

\* A black skull costs the summons.
LEMMA Skulled ==
  ASSUME CreaturesInv, NEW p \in Hunter, BlackSkull(p)
  PROVE  CreaturesInv'
<1> DEFINE r == DestroySummons(world, p)
<1>0. /\ Core(world) /\ Watched(world, {}, {}) /\ world \in CreatureWorld /\ p \in Creature
      /\ UNCHANGED <<online, hurried>>
  BY Kinds DEF CreaturesInv, Core, BlackSkull
<1>1. Becomes(r)
  BY DEF BlackSkull
<1>2. Core(r) /\ Watched(r, {}, {}) /\ Slain(world, r, p, world.summons[p])
  BY <1>0, SummonsDestroyed
<1> HIDE DEF r
<1>3. Placed(r) = Placed(world)
  BY <1>2 DEF Slain, Placed
<1>4. Untangled(world, {}, {}) => Untangled(r, {}, {})
  <2>1. r \in CreatureWorld
    BY <1>2 DEF Core
  <2> QED BY <1>0, <1>2, <2>1, SlainUntangled
<1>5. online' = Placed(r) \intersect Hunter /\ hurried' \in BOOLEAN /\ (hurried' \/ Untangled(r, {}, {}))
  BY <1>0, <1>3, <1>4 DEF CreaturesInv
<1> QED BY <1>1, <1>2, <1>5, Becoming

\* A creature is removed, its summons with it.
LEMMA CreatureRemoved ==
  ASSUME CreaturesInv, NEW c \in Creature, NEW asleep, RemoveCreature(c, asleep)
  PROVE  CreaturesInv'
<1> DEFINE r == Remove2(world, c, asleep)
           S == world.summons[c]
<1>0. /\ Core(world) /\ Watched(world, {}, {}) /\ world \in CreatureWorld
      /\ world.stage[c] = "placed"
  BY DEF CreaturesInv, Core, Placed, RemoveCreature
<1>1. Becomes(r) /\ online' = online \ {c} /\ hurried' = (hurried \/ (c \in Monster /\ world.dead[c]))
  BY DEF RemoveCreature
<1>2. /\ Core(r) /\ Watched(r, {}, {}) /\ Departs(world, r, c, S)
      /\ Fit(world, c) /\ Untangled(world, {}, {}) => Untangled(r, {}, {})
  BY <1>0, Removing
<1> HIDE DEF r
<1>3. online' = Placed(r) \intersect Hunter
  <2>1. S \in SUBSET Monster
    BY <1>0 DEF CreatureWorld
  <2>2. \A x \in Hunter : x \in Creature /\ x \notin S
    BY <2>1, Kinds
  <2>3. \A x \in Creature : r.stage[x] =
          IF (x = c \/ x \in S) /\ world.stage[x] = "placed" THEN "removed" ELSE world.stage[x]
    BY <1>2 DEF Departs
  <2>4. \A x \in Hunter : r.stage[x] = "placed" <=> world.stage[x] = "placed" /\ x # c
    BY <2>2, <2>3
  <2>5. online = Placed(world) \intersect Hunter
    BY DEF CreaturesInv
  <2> QED BY <1>1, <2>2, <2>4, <2>5 DEF Placed
<1>4. hurried \in BOOLEAN /\ world.dead[c] \in BOOLEAN
  BY <1>0 DEF CreaturesInv, CreatureWorld
<1>5. hurried' \in BOOLEAN
  BY <1>1, <1>4
<1>6. hurried' \/ Untangled(r, {}, {})
  <2> SUFFICES ASSUME ~hurried' PROVE Untangled(r, {}, {})
    OBVIOUS
  <2>1. ~hurried /\ ~(c \in Monster /\ world.dead[c])
    BY <1>1, <1>4
  <2>2. Fit(world, c) /\ Untangled(world, {}, {})
    BY <2>1 DEF Fit, CreaturesInv
  <2> QED BY <1>2, <2>2
<1> QED BY <1>1, <1>2, <1>3, <1>5, <1>6, Becoming

\* A round of checkCreatures.
LEMMA CreaturesChecked ==
  ASSUME CreaturesInv, NEW n \in Nat, NEW check \in [1..n -> {c \in Creature : world.vector[c] # "out"}],
         IsInjective(check), NEW leave, NEW asleep, CheckCreatures(check, leave, asleep)
  PROVE  CreaturesInv'
<1> DEFINE w == Joined(world)
           v == Checked(w, check, leave, asleep)
           r == Cleanup(v)
<1>0. Core(world) /\ Watched(world, {}, {}) /\ world \in CreatureWorld
  BY DEF CreaturesInv, Core
<1>1. Core(w) /\ Watched(w, {}, {}) /\ SameTangle(world, w)
  BY <1>0, Joining
<1>2. \A i \in 1..n : check[i] \in Creature /\ w.vector[check[i]] # "out"
  <2>1. w.vector = [c \in Creature |-> IF world.vector[c] = "new" THEN "in" ELSE world.vector[c]]
    BY <1>0 DEF Joined, CreatureWorld
  <2>2. \A i \in 1..n : check[i] \in Creature /\ world.vector[check[i]] # "out"
    OBVIOUS
  <2> HIDE DEF w
  <2> QED BY <2>1, <2>2
<1>3. Becomes(r) /\ online' = {p \in online : v.stage[p] = "placed"} /\ UNCHANGED hurried
  BY DEF CheckCreatures, Joined, Checked
<1> HIDE DEF w
<1>4. /\ Core(v) /\ Watched(v, {}, {}) /\ Placed(v) \subseteq Placed(w)
      /\ Untangled(w, {}, {}) => Untangled(v, {}, {})
  BY <1>1, <1>2, CheckingAll
<1> HIDE DEF v
<1>5. Core(r) /\ Watched(r, {}, {}) /\ SameTangle(v, r)
  BY <1>4, CleaningUp
<1> HIDE DEF r
<1>6. Placed(r) = Placed(v) /\ Placed(v) \subseteq Placed(world)
  BY <1>1, <1>4, <1>5 DEF SameTangle, Placed
<1>7. online' = Placed(r) \intersect Hunter
  <2>1. online = Placed(world) \intersect Hunter
    BY DEF CreaturesInv
  <2> QED BY <1>3, <1>6, <2>1 DEF Placed
<1>8. Untangled(world, {}, {}) => Untangled(r, {}, {})
  BY <1>1, <1>4, <1>5, TangleSame
<1>9. hurried' \in BOOLEAN /\ (hurried' \/ Untangled(r, {}, {}))
  BY <1>3, <1>8 DEF CreaturesInv
<1> QED BY <1>3, <1>5, <1>7, <1>9, Becoming

\* A world without creatures.
LEMMA NobodyThere ==
  ASSUME CreaturesInit, online = {}
  PROVE  CreaturesInv
<1>1. /\ \A c \in Creature : /\ world.stage[c] = "free" /\ ~world.dead[c] /\ ~world.checked[c]
                             /\ world.vector[c] = "out" /\ world.summons[c] = {} /\ world.refs[c] = 0
      /\ \A m \in Monster : world.targets[m] = {} /\ world.idle[m] /\ world.master[m] = None
      /\ world.releasing = {} /\ world \in CreatureWorld /\ hurried = FALSE
  <2>1. world \in CreatureWorld
    BY DEF CreaturesInit, CreatureWorld
  <2> QED BY <2>1 DEF CreaturesInit
<1>2. Counted(world)
  <2> SUFFICES ASSUME NEW c \in Creature PROVE world.refs[c] = Holders(world, c)
    BY DEF Counted
  <2>1. Seekers(world, c) = {} /\ Masters(world, c) = {}
    BY <1>1 DEF Seekers, Masters
  <2>2. Holders(world, c) = 0
    BY <1>1, <2>1, Unheld
  <2> QED BY <1>1, <2>2
<1>3. Tied(world) /\ Apart(world) /\ Staged(world)
  BY <1>1, Kinds DEF Tied, Apart, Staged, Clean
<1>4. Placed(world) = {}
  BY <1>1 DEF Placed
<1>5. Watched(world, {}, {}) /\ Unwanted(world) = {}
  BY <1>1, <1>4 DEF Watched, Alive, Unwanted
<1>6. Untangled(world, {}, {})
  <2>1. Removed(world) = {}
    BY <1>1 DEF Removed
  <2>2. Acyclic(world)
    BY <2>1 DEF Acyclic
  <2> QED BY <1>1, <2>2, Kinds DEF Untangled, Loose, Together
<1> QED BY <1>1, <1>2, <1>3, <1>4, <1>5, <1>6 DEF CreaturesInv, Core

\* Every task keeps it.
LEMMA CreaturesStep ==
  ASSUME CreaturesInv, [CreaturesNext]_creatureVars
  PROVE  CreaturesInv'
<1>1. CASE UNCHANGED creatureVars
  BY <1>1 DEF CreaturesInv, creatureVars, Core, CreatureWorld, Tied, Apart, Staged, Clean, Counted,
              Holders, Watched, Watches, Placed, Alive, Unwanted, Untangled, Loose, Together,
              Harmless, Holds, Acyclic, Removed
<1>2. ASSUME NEW V \in SUBSET Placed(world), NEW asleep \in {{}, Monster}, NEW m \in Monster,
             PlaceMonster(m, V, asleep)
      PROVE  CreaturesInv'
  <2>1. m \in Creature /\ {m} \intersect Hunter = {}
    BY Kinds
  <2>2. world.stage[m] = "free" /\ Becomes(Place(world, m, V, asleep))
        /\ online' = online \union ({m} \intersect Hunter) /\ hurried' = hurried
    BY <1>2, <2>1 DEF PlaceMonster
  <2> QED BY <2>1, <2>2, PlacedMonster
<1>3. ASSUME NEW V \in SUBSET Placed(world), NEW asleep \in {{}, Monster}, NEW m \in Monster,
             NEW p \in V \intersect Hunter, PlaceSummon(p, m, V, asleep)
      PROVE  CreaturesInv'
  <2>1. p \notin Monster
    BY Kinds
  <2> QED BY <1>3, <2>1, PlacedSummon DEF PlaceSummon
<1>4. ASSUME NEW V \in SUBSET Placed(world), NEW asleep \in {{}, Monster}, NEW m \in Monster,
             NEW p \in V \intersect Hunter, ConvinceCreature(p, m, V \ {m}, asleep)
      PROVE  CreaturesInv'
  <2> DEFINE W == V \ {m}
  <2>1. W \in SUBSET Placed(world) /\ m \notin W /\ ConvinceCreature(p, m, W, asleep)
    BY <1>4
  <2> HIDE DEF W
  <2> QED BY <2>1, MonsterConvinced
<1>5. ASSUME NEW V \in SUBSET Placed(world), NEW asleep \in {{}, Monster}, NEW m \in Monster,
             NEW c \in V \intersect Monster, CastSummon(c, m, V, asleep)
      PROVE  CreaturesInv'
  <2>1. c \in Alive(world) /\ world.master[c] = None /\ world.stage[m] = "free"
        /\ Becomes(Place(AddSummon(world, c, m), m, V, asleep)) /\ UNCHANGED <<online, hurried>>
    BY <1>5 DEF CastSummon
  <2> QED BY <2>1, PlacedSummon
<1>6. ASSUME NEW V \in SUBSET Placed(world), NEW asleep \in {{}, Monster}, NEW p \in Hunter,
             LoginCreature(p, V, asleep)
      PROVE  CreaturesInv'
  <2>1. p \in Creature /\ {p} \intersect Hunter = {p}
    BY Kinds
  <2>2. world.stage[p] = "free" /\ Becomes(Place(world, p, V, asleep))
        /\ online' = online \union ({p} \intersect Hunter) /\ hurried' = hurried
    BY <1>6, <2>1 DEF LoginCreature
  <2> QED BY <2>1, <2>2, PlacedMonster
<1>7. ASSUME NEW V \in SUBSET Placed(world), NEW asleep \in {{}, Monster},
             NEW c \in Creature \ V, Walk(c, V, asleep)
      PROVE  CreaturesInv'
  BY <1>7, Walked
<1>8. ASSUME NEW p \in Hunter, BlackSkull(p) PROVE CreaturesInv'
  BY <1>8, Skulled
<1>9. ASSUME NEW c \in Creature, NEW lethal \in BOOLEAN, Harm(c, lethal) PROVE CreaturesInv'
  BY <1>9, Harmed
<1>10. ASSUME NEW asleep \in {{}, Monster}, NEW c \in Creature, RemoveCreature(c, asleep)
       PROVE  CreaturesInv'
  BY <1>10, CreatureRemoved
<1>11. ASSUME NEW asleep \in {{}, Monster}, NEW leave \in BOOLEAN,
              NEW check \in BoundedSeq({c \in Creature : world.vector[c] # "out"}, 2),
              IsInjective(check), CheckCreatures(check, leave, asleep)
       PROVE  CreaturesInv'
  <2> DEFINE C == {c \in Creature : world.vector[c] # "out"}
  <2>1. PICK n \in Nat : check \in [1..n -> C]
    <3>1. check \in UNION {[1..k -> C] : k \in 0..2}
      BY DEF BoundedSeq, SeqOf
    <3> HIDE DEF C
    <3>2. \E k \in 0..2 : check \in [1..k -> C]
      BY <3>1, Zenon
    <3>3. 0..2 \subseteq Nat
      OBVIOUS
    <3> QED BY <3>2, <3>3, Zenon
  <2> QED BY <1>11, <2>1, CreaturesChecked
<1>12. CASE CreaturesNext
  <2>1. ASSUME NEW V \in SUBSET Placed(world), NEW asleep \in {{}, Monster},
               \/ \E m \in Monster :
                    \/ PlaceMonster(m, V, asleep)
                    \/ \E p \in V \intersect Hunter :
                         PlaceSummon(p, m, V, asleep) \/ ConvinceCreature(p, m, V \ {m}, asleep)
                    \/ \E c \in V \intersect Monster : CastSummon(c, m, V, asleep)
               \/ \E p \in Hunter : LoginCreature(p, V, asleep)
               \/ \E c \in Creature \ V : Walk(c, V, asleep)
        PROVE  CreaturesInv'
    BY <2>1, <1>2, <1>3, <1>4, <1>5, <1>6, <1>7
  <2>2. CASE \E p \in Hunter : BlackSkull(p)
    BY <2>2, <1>8
  <2>3. CASE \E c \in Creature, lethal \in BOOLEAN : Harm(c, lethal)
    BY <2>3, <1>9
  <2>4. ASSUME NEW asleep \in {{}, Monster},
               \/ \E c \in Creature : RemoveCreature(c, asleep)
               \/ \E check \in BoundedSeq({c \in Creature : world.vector[c] # "out"}, 2) :
                    \E leave \in BOOLEAN : IsInjective(check) /\ CheckCreatures(check, leave, asleep)
        PROVE  CreaturesInv'
    BY <2>4, <1>10, <1>11
  <2> QED BY <1>12, <2>1, <2>2, <2>3, <2>4 DEF CreaturesNext
<1> QED BY <1>1, <1>12

\* What is left behind is what was promised.
LEMMA CreaturesPromised ==
  ASSUME CreaturesInv
  PROVE  CreaturesTypeOK /\ CreaturesAreKept
<1>0. Core(world) /\ world \in CreatureWorld
  BY DEF CreaturesInv, Core
<1>1. \A c \in Creature : Holders(world, c) \in Nat /\ world.refs[c] = Holders(world, c)
  BY <1>0, Unheld DEF Core, Counted
<1>2. CreaturesTypeOK
  <2>1. world.refs \in [Creature -> Nat]
    BY <1>0, <1>1 DEF CreatureWorld
  <2>2. \A m \in Monster : world.master[m] # None => world.summons[m] = {}
    BY <1>0 DEF Core, Tied
  <2> QED BY <1>0, <2>1, <2>2 DEF CreaturesTypeOK, CreatureWorld, CreaturesInv
<1>3. MonstersAreWatched
  <2>1. DeadAreChecked
    BY DEF DeadAreChecked, CreaturesInv, Watched, Watches
  <2>2. IdlersHaveNoTargets
    <3> SUFFICES ASSUME NEW m \in Alive(world) \intersect Monster
                 PROVE  /\ world.idle[m] => world.targets[m] = {}
                        /\ ~world.idle[m] => world.checked[m] /\ world.vector[m] # "out"
      BY DEF IdlersHaveNoTargets
    <3>1. IF world.idle[m] THEN world.targets[m] = {} ELSE Watches(world, m)
      BY DEF CreaturesInv, Watched
    <3> QED BY <3>1 DEF Watches
  <2> QED BY <2>1, <2>2 DEF MonstersAreWatched
<1>4. ReferencesAreCounted
  <2> SUFFICES ASSUME NEW c \in Creature
               PROVE  world.refs[c] = 0 <=> world.stage[c] = "free"
    BY <1>1 DEF ReferencesAreCounted
  <2>1. ASSUME world.stage[c] = "free" PROVE world.refs[c] = 0
    BY <1>0, <2>1 DEF Core, Staged, Clean
  <2>2. ASSUME world.refs[c] = 0 PROVE world.stage[c] = "free"
    <3>1. Holders(world, c) = 0
      BY <1>1, <2>2
    <3>2. world.stage[c] # "placed"
      BY <1>0, <3>1, Unheld
    <3>3. world.stage[c] # "removed"
      BY <2>2 DEF CreaturesInv, Unwanted
    <3>4. world.stage[c] \in {"free", "placed", "removed"}
      BY <1>0 DEF CreatureWorld
    <3> QED BY <3>2, <3>3, <3>4
  <2> QED BY <2>1, <2>2
<1>5. MastersKnowTheirSummons
  BY <1>0 DEF MastersKnowTheirSummons, Core, Tied
<1>6. NothingLeaks
  <2> SUFFICES ASSUME ~hurried,
                      NEW D \in (SUBSET {c \in Creature : world.stage[c] = "removed"}) \ {{}}
               PROVE  \E c \in D :
                        \/ c \in world.releasing \/ world.vector[c] # "out"
                        \/ \E d \in Creature \ D : c \in world.summons[d]
                        \/ \E m \in Monster \ D : c \in world.targets[m]
    BY DEF NothingLeaks
  <2>1. Acyclic(world) /\ D \in SUBSET Removed(world) /\ D # {}
    BY DEF CreaturesInv, Untangled, Removed
  <2>2. PICK c \in D : \A d \in D : c \notin Holds(world, d)
    BY <2>1 DEF Acyclic
  <2>3. c \in Creature /\ world.stage[c] = "removed"
    OBVIOUS
  <2>4. world.refs[c] # 0
    BY <1>4, <2>3 DEF ReferencesAreCounted
  <2>5. ~(/\ Seekers(world, c) = {} /\ Masters(world, c) = {} /\ world.vector[c] = "out"
          /\ world.stage[c] # "placed" /\ c \notin world.releasing)
    BY <1>0, <1>1, <2>3, <2>4, Unheld
  <2>6. \A d \in Masters(world, c) : d \in Creature \ D /\ c \in world.summons[d]
    BY <2>2 DEF Masters, Holds
  <2>7. \A m \in Seekers(world, c) : m \in Monster \ D /\ c \in world.targets[m]
    BY <2>2 DEF Seekers, Holds, Creature
  <2> QED BY <2>3, <2>5, <2>6, <2>7
<1> QED BY <1>2, <1>3, <1>4, <1>5, <1>6 DEF CreaturesAreKept, ReferencesAreExact

\* No creature's object is deleted while someone refers to it, or kept when
\* nobody on the map or in a vector does; those on the map are looked after.
THEOREM CreaturesSafe == CreaturesSpec => [](CreaturesTypeOK /\ CreaturesAreKept)
<1>1. online = {} /\ CreaturesInit => CreaturesInv
  BY NobodyThere
<1>2. CreaturesInv /\ [CreaturesNext]_creatureVars => CreaturesInv'
  BY CreaturesStep
<1>3. CreaturesInv => CreaturesTypeOK /\ CreaturesAreKept
  BY CreaturesPromised
<1> QED BY <1>1, <1>2, <1>3, PTL DEF CreaturesSpec

USE PlayersAssumption, RaidsAssumption DEF PlayersAssumption, RaidsAssumption

-----------------------------------------------------------------------------
(* Raids.                                                                  *)

RaidsInvariant ==
  RaidsTypeOK /\ RunningRaidsGoOn /\ RaidsStartAfresh /\ OneRaidAtATime

\* A raid without a next event is reset, after the invaders that refer to it
\* changed and those of others did not.
LEMMA Resetting ==
  ASSUME RaidsInvariant, NEW r \in Raid,
         raidOf' \in [Invader -> Raid \union {None, "deleted"}],
         \A q \in Raid \ {r} : HasRef(raidOf', q) <=> HasRef(raidOf, q),
         Reset(r, raidOf'), raidsAlive' \in BOOLEAN
  PROVE  RaidsInvariant'
<1>1. /\ RaidsTypeOK /\ RunningRaidsGoOn /\ RaidsStartAfresh /\ OneRaidAtATime
  BY DEF RaidsInvariant
<1>2. /\ due' = due \ {r} /\ nextEvent' = [nextEvent EXCEPT ![r] = FALSE]
  BY DEF Reset
<1>3. CASE RefType[r] = "block" /\ HasRef(raidOf', r)
  <2>1. UNCHANGED <<eventCount, running>>
    BY <1>3 DEF Reset
  <2>2. RaidsTypeOK'
    BY <1>1, <1>2, <2>1 DEF RaidsTypeOK
  <2>3. RunningRaidsGoOn'
    BY <1>1, <1>2, <1>3, <2>1 DEF RunningRaidsGoOn, RaidsTypeOK, HasRef
  <2>4. RaidsStartAfresh'
    BY <1>1, <1>3, <2>1 DEF RaidsStartAfresh, HasRef
  <2>5. OneRaidAtATime'
    BY <1>1, <1>2, <2>1 DEF OneRaidAtATime, RaidsTypeOK
  <2>6. QED
    BY <2>2, <2>3, <2>4, <2>5 DEF RaidsInvariant
<1>4. CASE ~(RefType[r] = "block" /\ HasRef(raidOf', r))
  <2>1. /\ eventCount' = IF RefType[r] = "single" /\ HasRef(raidOf', r)
                         THEN eventCount ELSE [eventCount EXCEPT ![r] = 0]
        /\ running' = IF running = r THEN None ELSE running
    BY <1>4 DEF Reset
  <2>2. RaidsTypeOK'
    BY <1>1, <1>2, <2>1 DEF RaidsTypeOK
  <2>3. RunningRaidsGoOn'
    BY <1>1, <1>2, <2>1 DEF RunningRaidsGoOn, RaidsTypeOK, HasRef
  <2>4. RaidsStartAfresh'
    BY <1>1, <2>1 DEF RaidsStartAfresh, RaidsTypeOK, HasRef
  <2>5. OneRaidAtATime'
    BY <1>1, <1>2, <2>1 DEF OneRaidAtATime, RaidsTypeOK
  <2>6. QED
    BY <2>2, <2>3, <2>4, <2>5 DEF RaidsInvariant
<1>5. QED
  BY <1>3, <1>4

\* Every event of a raid, and what becomes of its invaders, keeps the invariant.
LEMMA RaidsStep ==
  ASSUME RaidsInvariant, [RaidsNext]_raidVars
  PROVE  RaidsInvariant'
<1>1. /\ RaidsTypeOK /\ RunningRaidsGoOn /\ RaidsStartAfresh /\ OneRaidAtATime
  BY DEF RaidsInvariant
<1>2. ASSUME NEW r \in Raid, StartRaid(r) PROVE RaidsInvariant'
  <2>1. /\ running = None /\ eventCount[r] < Steps
        /\ eventCount' = [eventCount EXCEPT ![r] = @ + 1]
        /\ nextEvent' = [nextEvent EXCEPT ![r] = TRUE]
        /\ due' = due \union {r} /\ running' = r
        /\ UNCHANGED <<raidOf, raidsAlive>>
    BY <1>2 DEF StartRaid, Start
  <2>2. due = {}
    BY <1>1, <2>1 DEF OneRaidAtATime, RaidsTypeOK
  <2>3. RaidsTypeOK'
    BY <1>1, <2>1 DEF RaidsTypeOK
  <2>4. RunningRaidsGoOn' /\ OneRaidAtATime'
    BY <1>1, <2>1, <2>2 DEF RunningRaidsGoOn, OneRaidAtATime, RaidsTypeOK
  <2>5. RaidsStartAfresh'
    BY <1>1, <2>1 DEF RaidsStartAfresh, RaidsTypeOK, HasRef
  <2>6. QED
    BY <2>3, <2>4, <2>5 DEF RaidsInvariant
<1>3. ASSUME NEW r \in Raid, ExecuteRaidEvent(r) PROVE RaidsInvariant'
  <2>1. PICK M \in SUBSET {m \in Invader : raidOf[m] = None} :
          raidOf' = [m \in Invader |-> IF m \in M THEN r ELSE raidOf[m]]
    BY <1>3 DEF ExecuteRaidEvent
  <2>2. /\ raidOf' \in [Invader -> Raid \union {None, "deleted"}]
        /\ \A q \in Raid \ {r} : HasRef(raidOf', q) <=> HasRef(raidOf, q)
    BY <1>1, <2>1 DEF RaidsTypeOK, HasRef
  <2>3. r \in due /\ running = r /\ raidsAlive' = raidsAlive
    BY <1>1, <1>3 DEF ExecuteRaidEvent, OneRaidAtATime
  <2>4. CASE /\ eventCount[r] < Steps
             /\ eventCount' = [eventCount EXCEPT ![r] = @ + 1]
             /\ UNCHANGED <<running, nextEvent, due>>
    <3>1. RaidsTypeOK'
      BY <1>1, <2>2, <2>3, <2>4 DEF RaidsTypeOK
    <3>2. RunningRaidsGoOn' /\ OneRaidAtATime'
      BY <1>1, <2>3, <2>4 DEF RunningRaidsGoOn, OneRaidAtATime
    <3>3. RaidsStartAfresh'
      BY <1>1, <2>2, <2>3, <2>4 DEF RaidsStartAfresh, RaidsTypeOK, HasRef
    <3>4. QED
      BY <3>1, <3>2, <3>3 DEF RaidsInvariant
  <2>5. CASE Reset(r, raidOf')
    <3>1. raidsAlive' \in BOOLEAN
      BY <1>1, <2>3 DEF RaidsTypeOK
    <3>2. QED
      BY <2>2, <2>5, <3>1, Resetting
  <2>6. QED
    BY <1>3, <2>4, <2>5 DEF ExecuteRaidEvent
<1>4. ASSUME NEW m \in Invader, Falls(m) PROVE RaidsInvariant'
  <2>1. /\ raidOf[m] # None /\ raidOf' = [raidOf EXCEPT ![m] = None]
        /\ raidsAlive' \in BOOLEAN
    BY <1>1, <1>4 DEF Falls, RaidsTypeOK
  <2>2. /\ raidOf' \in [Invader -> Raid \union {None, "deleted"}]
        /\ \A q \in Raid \ {raidOf[m]} : HasRef(raidOf', q) <=> HasRef(raidOf, q)
    BY <1>1, <2>1 DEF RaidsTypeOK, HasRef
  <2>3. CASE raidOf[m] \in Raid /\ ~HasRef(raidOf', raidOf[m]) /\ ~nextEvent[raidOf[m]]
    <3>1. Reset(raidOf[m], raidOf')
      BY <1>4, <2>3 DEF Falls
    <3>2. QED
      BY <2>1, <2>2, <2>3, <3>1, Resetting
  <2>4. CASE /\ UNCHANGED <<running, eventCount, nextEvent, due>>
             /\ \/ raidOf[m] \notin Raid
                \/ HasRef(raidOf', raidOf[m]) \/ nextEvent[raidOf[m]]
    <3>1. RaidsTypeOK' /\ OneRaidAtATime'
      BY <1>1, <2>1, <2>2, <2>4 DEF RaidsTypeOK, OneRaidAtATime
    <3>2. RunningRaidsGoOn'
      BY <1>1, <2>2, <2>4 DEF RunningRaidsGoOn, OneRaidAtATime, RaidsTypeOK, HasRef
    <3>3. RaidsStartAfresh'
      BY <1>1, <2>2, <2>4 DEF RaidsStartAfresh, OneRaidAtATime, RaidsTypeOK, HasRef
    <3>4. QED
      BY <3>1, <3>2, <3>3 DEF RaidsInvariant
  <2>5. QED
    BY <1>1, <1>4, <2>1, <2>3, <2>4 DEF Falls, RaidsTypeOK
<1>5. CASE ReloadRaids
  BY <1>1, <1>5 DEF ReloadRaids, RaidsInvariant, RaidsTypeOK, RunningRaidsGoOn,
     RaidsStartAfresh, OneRaidAtATime, HasRef
<1>6. CASE UNCHANGED raidVars
  BY <1>1, <1>6 DEF raidVars, RaidsInvariant, RaidsTypeOK, RunningRaidsGoOn,
     RaidsStartAfresh, OneRaidAtATime, HasRef
<1>7. QED
  BY <1>2, <1>3, <1>4, <1>5, <1>6 DEF RaidsNext

\* No raid holds up the others for nothing, none starts in the middle, and no
\* two are under way: for any raids of any kinds, whenever their invaders fall,
\* their events fail or everything is reloaded.
THEOREM RaidsSafe == RaidsSpec => []RaidsAreOrderly
<1>1. online = {} /\ RaidsInit => RaidsInvariant
  BY DEF RaidsInit, RaidsInvariant, RaidsTypeOK, RunningRaidsGoOn, RaidsStartAfresh,
     OneRaidAtATime, HasRef
<1>2. RaidsInvariant /\ [RaidsNext]_raidVars => RaidsInvariant'
  BY RaidsStep
<1>3. RaidsInvariant => RaidsAreOrderly
  BY DEF RaidsInvariant, RaidsAreOrderly
<1>4. QED
  BY <1>1, <1>2, <1>3, PTL DEF RaidsSpec

-----------------------------------------------------------------------------
(* Spawns.                                                                 *)

USE SpawnsAssumption DEF SpawnsAssumption

\* What is not there yet is nowhere; who lives and has a key has the pointer
\* that has the spawn told; before the start there is nobody.
SpawnedHavePointers ==
  /\ \A m \in Beast :
       /\ life[m] = "unborn" => key[m] = None /\ m \notin atSpawn
       /\ life[m] = "alive" /\ key[m] # None => m \in atSpawn
  /\ started = "no" => \A m \in Beast : life[m] = "unborn"

SpawnsInvariant ==
  /\ SpawnsTypeOK /\ SpawnedHavePointers
  /\ OneMonsterPerBlock /\ SpawnsAreKnown /\ MissingAreMissed

\* Blocks without a monster each get one of their own.
LEMMA Spawning ==
  ASSUME SpawnsTypeOK, SpawnedHavePointers,
         NEW B \in SUBSET Block, NEW f \in [B -> Beast],
         NEW k \in [Beast -> Block \union {None, "stray"}],
         \A m \in Beast : life[m] = "unborn" => k[m] = None,
         \A m, n \in Beast : k[m] = k[n] /\ k[m] \in Block => m = n,
         \A b \in B, m \in Beast : k[m] # b,
         Spawn(f, B, k)
  PROVE  /\ life' \in [Beast -> {"unborn", "alive", "removed"}]
         /\ key' \in [Beast -> Block \union {None, "stray"}]
         /\ \A b \in B : /\ life[f[b]] = "unborn" /\ life'[f[b]] = "alive"
                         /\ key'[f[b]] = b
         /\ \A m \in Beast : \/ /\ life'[m] = life[m] /\ key'[m] = k[m]
                                /\ (m \in atSpawn' <=> m \in atSpawn)
                             \/ \E b \in B : /\ m = f[b] /\ life[m] = "unborn"
                                             /\ life'[m] = "alive"
                                             /\ key'[m] = b /\ m \in atSpawn'
         /\ atSpawn' \subseteq Beast
         /\ OneMonsterPerBlock'
<1> DEFINE New == {f[b] : b \in B}
           BlockOf(m) == CHOOSE b \in B : f[b] = m
<1>1. /\ New \subseteq {m \in Beast : life[m] = "unborn"}
      /\ \A b, c \in B : f[b] = f[c] => b = c
      /\ life' = [m \in Beast |-> IF m \in New THEN "alive" ELSE life[m]]
      /\ key' = [m \in Beast |-> IF m \in New THEN BlockOf(m) ELSE k[m]]
      /\ atSpawn' = atSpawn \union New
  BY DEF Spawn
<1>2. \A m \in New : BlockOf(m) \in B /\ f[BlockOf(m)] = m
  OBVIOUS
<1>3. \A b \in B : f[b] \in New /\ BlockOf(f[b]) = b
  BY <1>1, <1>2
<1> HIDE DEF New, BlockOf
<1>4. \A b \in B : life[f[b]] = "unborn" /\ life'[f[b]] = "alive" /\ key'[f[b]] = b
  BY <1>1, <1>3
<1>5. \A m \in Beast : m \in New => \E b \in B : m = f[b] /\ key'[m] = b
  BY <1>2, <1>4
<1>6. key' \in [Beast -> Block \union {None, "stray"}]
  BY <1>1, <1>2
<1>7. \A m \in Beast \ New :
        life'[m] = life[m] /\ key'[m] = k[m] /\ (m \in atSpawn' <=> m \in atSpawn)
  BY <1>1
<1>8. OneMonsterPerBlock'
  <2> SUFFICES ASSUME NEW m \in Beast, NEW n \in Beast, key'[m] = key'[n], key'[m] \in Block
               PROVE  m = n
    BY DEF OneMonsterPerBlock
  <2>1. CASE m \in New /\ n \in New
    BY <2>1, <1>5
  <2>2. CASE m \in New /\ n \notin New
    BY <2>2, <1>5, <1>7
  <2>3. CASE m \notin New /\ n \in New
    BY <2>3, <1>5, <1>7
  <2>4. CASE m \notin New /\ n \notin New
    BY <2>4, <1>7
  <2> QED
    BY <2>1, <2>2, <2>3, <2>4
<1>9. \A m \in New : life[m] = "unborn" /\ life'[m] = "alive" /\ m \in atSpawn'
  BY <1>1
<1>10. life' \in [Beast -> {"unborn", "alive", "removed"}] /\ atSpawn' \subseteq Beast
  BY <1>1 DEF SpawnsTypeOK
<1>11. ASSUME NEW m \in Beast
       PROVE  \/ /\ life'[m] = life[m] /\ key'[m] = k[m]
                 /\ (m \in atSpawn' <=> m \in atSpawn)
              \/ \E b \in B : /\ m = f[b] /\ life[m] = "unborn"
                              /\ life'[m] = "alive"
                              /\ key'[m] = b /\ m \in atSpawn'
  <2>1. CASE m \in New
    BY <2>1, <1>5, <1>9
  <2>2. CASE m \notin New
    BY <2>2, <1>7
  <2> QED
    BY <2>1, <2>2
<1> QED
  BY <1>4, <1>6, <1>8, <1>10, <1>11

\* The check is due when monsters are missing: those counted are the living.
LEMMA SpawnsStep ==
  ASSUME SpawnsInvariant, [SpawnsNext]_spawnVars
  PROVE  SpawnsInvariant'
<1>1. /\ SpawnsTypeOK /\ SpawnedHavePointers
      /\ OneMonsterPerBlock /\ SpawnsAreKnown /\ MissingAreMissed
  BY DEF SpawnsInvariant
<1>2. CASE StartupSpawn
  <2>0. PICK B \in SUBSET Block : \E f \in [B -> Beast] :
          Spawn(f, B, key) /\ neglected' = (B # Block)
    BY <1>2 DEF StartupSpawn
  <2>1. PICK f \in [B -> Beast] :
          /\ Spawn(f, B, key) /\ neglected' = (B # Block)
          /\ started = "no" /\ started' = "yes" /\ UNCHANGED <<online, checkSpawn>>
    BY <1>2, <2>0 DEF StartupSpawn
  <2>2. \A m \in Beast : life[m] = "unborn" /\ key[m] = None /\ m \notin atSpawn
    BY <1>1, <2>1 DEF SpawnedHavePointers
  <2>3. /\ life' \in [Beast -> {"unborn", "alive", "removed"}]
        /\ key' \in [Beast -> Block \union {None, "stray"}]
        /\ \A b \in B : /\ life[f[b]] = "unborn" /\ life'[f[b]] = "alive"
                        /\ key'[f[b]] = b
        /\ \A m \in Beast : \/ /\ life'[m] = life[m] /\ key'[m] = key[m]
                               /\ (m \in atSpawn' <=> m \in atSpawn)
                            \/ \E b \in B : /\ m = f[b] /\ life[m] = "unborn"
                                            /\ life'[m] = "alive"
                                            /\ key'[m] = b /\ m \in atSpawn'
        /\ atSpawn' \subseteq Beast
        /\ OneMonsterPerBlock'
    <3>1. /\ key \in [Beast -> Block \union {None, "stray"}]
          /\ \A m \in Beast : life[m] = "unborn" => key[m] = None
          /\ \A m, n \in Beast : key[m] = key[n] /\ key[m] \in Block => m = n
          /\ \A b \in B, m \in Beast : key[m] # b
      BY <1>1, <2>2 DEF SpawnsTypeOK
    <3> QED
      BY <1>1, <2>1, <3>1, Spawning
  <2>4. SpawnsTypeOK' /\ SpawnedHavePointers' /\ SpawnsAreKnown'
    BY <1>1, <2>1, <2>2, <2>3
       DEF SpawnsTypeOK, SpawnedHavePointers, SpawnsAreKnown, Spawned
  <2>5. MissingAreMissed'
    <3> DEFINE S == {m \in Spawned' : life'[m] = "alive"}
    <3> SUFFICES ASSUME B = Block
                 PROVE  ~(Cardinality(S) < Cardinality(Block))
      <4>1. ~neglected' => B = Block
        BY <2>1
      <4> QED
        BY <4>1 DEF MissingAreMissed
    <3>1. S \subseteq Beast /\ \A b \in Block : f[b] \in S
      BY <2>3 DEF Spawned
    <3>2. \A b, c \in Block : f[b] = f[c] => b = c
      BY <2>3
    <3>3. f \in Injection(Block, S)
      BY <3>1, <3>2, <2>1 DEF Injection, IsInjective
    <3>4. IsFiniteSet(S)
      BY <3>1, FS_Subset
    <3>5. Cardinality(Block) <= Cardinality(S)
      BY <3>3, <3>4, FS_Injection
    <3>6. Cardinality(Block) \in Nat /\ Cardinality(S) \in Nat
      BY <3>4, FS_CardinalityType
    <3> QED
      BY <3>5, <3>6
  <2> QED
    BY <2>3, <2>4, <2>5 DEF SpawnsInvariant
<1>3. CASE CheckSpawn
  <2>1. PICK Out \in SUBSET {m \in Spawned : life[m] = "alive"} :
          LET k == [m \in Beast |->
                IF life[m] = "removed" THEN None
                ELSE IF m \in Out THEN "stray" ELSE key[m]]
              Vacant == {b \in Block : \A m \in Beast : k[m] # b}
          IN \E B \in SUBSET Vacant : \E f \in [B -> Beast] :
               Cardinality(B) <= RateSpawn /\ Spawn(f, B, k)
    BY <1>3 DEF CheckSpawn
  <2> DEFINE k == [m \in Beast |->
                IF life[m] = "removed" THEN None
                ELSE IF m \in Out THEN "stray" ELSE key[m]]
             Vacant == {b \in Block : \A m \in Beast : k[m] # b}
  <2>2. PICK B \in SUBSET Vacant : \E f \in [B -> Beast] : Spawn(f, B, k)
    BY <2>1
  <2>3. PICK f \in [B -> Beast] : Spawn(f, B, k)
    BY <2>2
  <2>4. /\ k \in [Beast -> Block \union {None, "stray"}]
        /\ \A m \in Beast : life[m] = "unborn" => k[m] = None
        /\ \A m, n \in Beast : k[m] = k[n] /\ k[m] \in Block => m = n
        /\ \A m \in Beast : k[m] # None => life[m] = "alive" /\ key[m] # None
        /\ \A m \in Beast : life[m] = "alive" /\ key[m] # None => k[m] # None
        /\ \A m \in Beast : life[m] # "alive" => k[m] = None
    BY <1>1 DEF SpawnsTypeOK, SpawnedHavePointers, OneMonsterPerBlock, Spawned
  <2>5. B \in SUBSET Block /\ \A b \in B, m \in Beast : k[m] # b
    OBVIOUS
  <2> HIDE DEF k, Vacant
  <2>6. /\ life' \in [Beast -> {"unborn", "alive", "removed"}]
        /\ key' \in [Beast -> Block \union {None, "stray"}]
        /\ \A b \in B : /\ life[f[b]] = "unborn" /\ life'[f[b]] = "alive"
                        /\ key'[f[b]] = b
        /\ \A m \in Beast : \/ /\ life'[m] = life[m] /\ key'[m] = k[m]
                               /\ (m \in atSpawn' <=> m \in atSpawn)
                            \/ \E b \in B : /\ m = f[b] /\ life[m] = "unborn"
                                            /\ life'[m] = "alive"
                                            /\ key'[m] = b /\ m \in atSpawn'
        /\ atSpawn' \subseteq Beast
        /\ OneMonsterPerBlock'
    BY <1>1, <2>3, <2>4, <2>5, Spawning
  <2>7. /\ started = "yes" /\ started' = "yes" /\ neglected' = FALSE
        /\ checkSpawn' = (Cardinality(Spawned') < Cardinality(Block))
    BY <1>3 DEF CheckSpawn
  <2>8. SpawnsTypeOK'
    <3>1. checkSpawn' \in BOOLEAN
      BY <2>7
    <3> QED
      BY <1>1, <2>6, <2>7, <3>1 DEF SpawnsTypeOK
  <2>9. \A m \in Beast : key'[m] # None => life'[m] = "alive"
    BY <2>4, <2>5, <2>6
  <2>10. SpawnedHavePointers'
    BY <1>1, <2>4, <2>5, <2>6, <2>7 DEF SpawnedHavePointers
  <2>11. SpawnsAreKnown'
    BY <1>1, <2>4, <2>5, <2>6, <2>7 DEF SpawnsAreKnown, Spawned, SpawnsTypeOK
  <2>12. {m \in Spawned' : life'[m] = "alive"} = Spawned'
    BY <2>9 DEF Spawned
  <2>13. MissingAreMissed'
    BY <2>7, <2>12 DEF MissingAreMissed
  <2> QED
    BY <2>6, <2>8, <2>10, <2>11, <2>13 DEF SpawnsInvariant
<1>4. CASE ClearSpawn
  <2>1. /\ started = "yes" /\ started' = "over" /\ checkSpawn' = FALSE
        /\ atSpawn' = atSpawn \ Spawned /\ key' = [m \in Beast |-> None]
        /\ UNCHANGED <<life, neglected>>
    BY <1>4 DEF ClearSpawn
  <2> QED
    BY <1>1, <2>1 DEF SpawnsInvariant, SpawnsTypeOK, SpawnedHavePointers,
       OneMonsterPerBlock, SpawnsAreKnown, MissingAreMissed, Spawned
<1>5. ASSUME NEW m \in Beast, Vanish(m) PROVE SpawnsInvariant'
  <2>1. /\ life[m] = "alive" /\ life' = [life EXCEPT ![m] = "removed"]
        /\ checkSpawn' = (checkSpawn \/ m \in atSpawn)
        /\ UNCHANGED <<key, atSpawn, started, neglected>>
    BY <1>5 DEF Vanish
  <2>2. /\ SpawnsTypeOK' /\ SpawnedHavePointers'
        /\ OneMonsterPerBlock' /\ SpawnsAreKnown'
    BY <1>1, <2>1 DEF SpawnsTypeOK, SpawnedHavePointers,
       OneMonsterPerBlock, SpawnsAreKnown, Spawned
  <2>3. CASE m \in atSpawn
    <3>1. checkSpawn'
      BY ONLY <1>5, <2>3, Zenon DEF Vanish
    <3> QED
      BY <2>2, <3>1 DEF MissingAreMissed, SpawnsInvariant
  <2>4. CASE m \notin atSpawn
    <3>1. m \notin Spawned
      BY <1>1, <2>1, <2>4 DEF SpawnedHavePointers, Spawned
    <3>2. {n \in Spawned' : life'[n] = "alive"} = {n \in Spawned : life[n] = "alive"}
      BY <1>1, <2>1, <3>1 DEF Spawned, SpawnsTypeOK
    <3>3. checkSpawn => checkSpawn'
      BY ONLY <1>5, Zenon DEF Vanish
    <3>4. MissingAreMissed'
      BY <1>1, <2>1, <3>2, <3>3 DEF MissingAreMissed
    <3> QED
      BY <2>2, <3>4 DEF SpawnsInvariant
  <2> QED
    BY <2>3, <2>4
<1>6. ASSUME NEW m \in Beast, Convince(m) PROVE SpawnsInvariant'
  <2>1. /\ life[m] = "alive" /\ m \in atSpawn /\ key' = [key EXCEPT ![m] = None]
        /\ atSpawn' = atSpawn \ {m} /\ neglected' = TRUE
        /\ UNCHANGED <<life, checkSpawn, started>>
    BY <1>6 DEF Convince
  <2> QED
    BY <1>1, <2>1 DEF SpawnsInvariant, SpawnsTypeOK, SpawnedHavePointers,
       OneMonsterPerBlock, SpawnsAreKnown, MissingAreMissed, Spawned
<1>7. ASSUME NEW m \in Beast, Forget(m) PROVE SpawnsInvariant'
  <2>1. /\ life[m] = "removed" /\ m \notin Spawned
        /\ life' = [life EXCEPT ![m] = "unborn"] /\ atSpawn' = atSpawn \ {m}
        /\ UNCHANGED <<key, checkSpawn, started, neglected>>
    BY <1>7 DEF Forget
  <2>2. /\ SpawnsTypeOK' /\ SpawnedHavePointers'
        /\ OneMonsterPerBlock' /\ SpawnsAreKnown'
    BY <1>1, <2>1 DEF SpawnsTypeOK, SpawnedHavePointers,
       OneMonsterPerBlock, SpawnsAreKnown, Spawned
  <2>3. {n \in Spawned' : life'[n] = "alive"} = {n \in Spawned : life[n] = "alive"}
    BY <1>1, <2>1 DEF Spawned, SpawnsTypeOK
  <2>4. MissingAreMissed'
    BY <1>1, <2>1, <2>3 DEF MissingAreMissed
  <2> QED
    BY <2>2, <2>4 DEF SpawnsInvariant
<1>8. CASE UNCHANGED spawnVars
  BY <1>1, <1>8 DEF spawnVars, SpawnsInvariant, SpawnsTypeOK, SpawnedHavePointers,
     OneMonsterPerBlock, SpawnsAreKnown, MissingAreMissed, Spawned
<1> QED
  BY <1>2, <1>3, <1>4, <1>5, <1>6, <1>7, <1>8 DEF SpawnsNext

\* Every block has one monster at most, no living monster points to a spawn that
\* is gone, and missing monsters are missed: for any blocks, monsters and rates.
THEOREM SpawnsSafe == SpawnsSpec => []SpawnsAreExact
<1>1. online = {} /\ SpawnsInit => SpawnsInvariant
  BY DEF SpawnsInit, SpawnsInvariant, SpawnsTypeOK, SpawnedHavePointers,
     OneMonsterPerBlock, SpawnsAreKnown, MissingAreMissed
<1>2. SpawnsInvariant /\ [SpawnsNext]_spawnVars => SpawnsInvariant'
  BY SpawnsStep
<1>3. SpawnsInvariant => SpawnsAreExact
  BY DEF SpawnsInvariant, SpawnsAreExact
<1>4. QED
  BY <1>1, <1>2, <1>3, PTL DEF SpawnsSpec

=============================================================================
