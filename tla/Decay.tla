------------------------------- MODULE Decay -------------------------------
(***************************************************************************)
(* Items that decay (Src/game.cpp, item.cpp): the buckets of checkDecay,   *)
(* one of which comes up every second, the items still to be put into one, *)
(* and the references that both keep.  Time is in rounds of checkDecay;    *)
(* items.xml knows whole seconds only.  Left out are stacks, charges and   *)
(* types that change between the top and the bottom of a tile.             *)
(***************************************************************************)
EXTENDS Players, Integers, FiniteSets, SequencesExt

CONSTANTS
  Good,        \* bound: the items that exist at a time
  Type,
  DecayTo,     \* the type an item of a type becomes; Vanishes, or Lasts
  DecayTime,   \* in seconds
  StopTime,    \* types that keep what is left of their time
  Kind,        \* types of one kind exchange their id, others the item
  Uses,        \* <<from, to>>: what scripts and the equipment turn items into
  Vanishes, Lasts,
  Buckets, Entries   \* EVENT_DECAYBUCKETS; bound: entries of a list

Decaying == {t \in Type : DecayTo[t] # Lasts /\ DecayTime[t] > 0}
\* Types without a time of their own under which what is left of one stays.
Keeping == {t \in Type : DecayTime[t] = 0 /\ (t \in StopTime \/ DecayTo[t] # Lasts)}

\* As items.xml has it: nothing that keeps its time turns into something else.
ASSUME DecayAssumption ==
  /\ None \notin Good /\ None \notin Nat /\ Vanishes \notin Type /\ Lasts \notin Type
  /\ DecayTo \in [Type -> Type \union {Vanishes, Lasts}]
  /\ DecayTime \in [Type -> Nat]
  /\ StopTime \subseteq Type /\ Uses \subseteq Type \X Type
  /\ \A t \in StopTime : DecayTo[t] \in {Vanishes, Lasts}
  /\ {Buckets, Entries} \subseteq Nat \ {0}

VARIABLES
  decay,        \* the items and their lists
  lastBucket,
  stored        \* an item a player took out of the game, as it was saved

decayVars == <<online, decay, lastBucket, stored>>

\* history: the rounds it decayed in, since when it had time to decay for, how
\* often it was listed, whether it paused, was listed twice, or decayed into a
\* type that keeps its time.
NoHistory == [burnt |-> 0, full |-> 0, stays |-> 0,
              paused |-> FALSE, doubled |-> FALSE, spent |-> FALSE]
NoGood == [type |-> None, duration |-> None, decaying |-> FALSE, placed |-> FALSE,
           refs |-> 0, history |-> NoHistory]

DecayInit ==
  /\ decay = [item |-> [i \in Good |-> NoGood],
              bucket |-> [b \in 0..(Buckets - 1) |-> <<>>],   \* decayItems
              fresh |-> <<>>,                                 \* toDecayItems
              freed |-> <<>>,                                 \* releaseThings
              early |-> FALSE]       \* history: one decayed before its time
  /\ lastBucket = 0
  /\ stored = None

Duration(s, i) == IF s.item[i].duration = None THEN 0 ELSE s.item[i].duration
CanDecay(s, i) == s.item[i].placed /\ s.item[i].type \in Decaying
Times(list, i) == Cardinality({n \in DOMAIN list : list[n] = i})
Lists(s) == <<s.fresh>> \o [b \in 1..Buckets |-> s.bucket[b - 1]]
Listings(s, i) == FoldLeft(LAMBDA n, list : n + Times(list, i), 0, Lists(s))

Freed(s, i) == [s EXCEPT !.freed = Append(@, i)]
\* A new object for an item.
FreeGood(s) == CHOOSE i \in Good : s.item[i].refs = 0
NewGood(t) ==
  [NoGood EXCEPT !.type = t, !.placed = TRUE, !.refs = 1, !.history.full = DecayTime[t],
                 !.duration = IF DecayTime[t] > 0 THEN DecayTime[t] ELSE None]
Created(s, t) == [s EXCEPT !.item[FreeGood(s)] = NewGood(t)]

\* internalRemoveItem.
Removed(s, i) == Freed([s EXCEPT !.item[i].placed = FALSE], i)

-----------------------------------------------------------------------------
(* Types change.                                                           *)

\* As if the new type always brought its own time.
SetIDAnew(s, i, t) ==
  [s EXCEPT !.item[i].type = t,
            !.item[i].duration = IF DecayTime[t] > 0 THEN DecayTime[t] ELSE @]

\* Item::setID.
NewID(x, t, listed) ==
  LET unlike == DecayTime[t] = 0 /\ t \notin Keeping
      anew == DecayTime[t] > 0 /\ (x.type \notin StopTime \/ x.duration = None)
  IN  IF unlike THEN [x EXCEPT !.type = t, !.decaying = FALSE, !.duration = None]
      ELSE IF anew
      THEN [x EXCEPT !.type = t, !.decaying = FALSE, !.duration = DecayTime[t],
                     !.history = [NoHistory EXCEPT !.full = DecayTime[t], !.doubled = listed]]
      ELSE [x EXCEPT !.type = t,
                     !.history.paused = @ \/ (x.type \in Decaying /\ t \notin Decaying)]
SetID(s, i, t) == [s EXCEPT !.item[i] = NewID(@, t, Listings(s, i) > 0)]

\* transformItem, and the item that is there then.
Changed(s, i, t) ==
  IF Kind[s.item[i].type] = Kind[t] THEN SetID(s, i, t)
  ELSE Freed([Created(s, t) EXCEPT !.item[i].placed = FALSE], i)
After(s, i, t) == IF Kind[s.item[i].type] = Kind[t] THEN i ELSE FreeGood(s)

\* startDecay of an item with time left.
Started(x) == [x EXCEPT !.refs = @ + 1, !.decaying = TRUE, !.history.stays = @ + 1]
List(s, i) == [s EXCEPT !.item[i] = Started(@), !.fresh = Append(@, i)]
Waits(s, i) == CanDecay(s, i) /\ ~s.item[i].decaying

\* It goes out, as Item::setID leaves it.
GoneOut(x) == [x EXCEPT !.history.spent = x.type \in Keeping]

\* internalDecayItem; what an item decays into has its own time.
DecayAway(s, i) ==
  LET t == DecayTo[s.item[i].type]
      h == s.item[i].history
      told == [s EXCEPT !.early =
                 @ \/ (h.burnt < h.full /\ ~h.paused /\ ~h.doubled /\ ~h.spent)]
      next == [Changed(told, i, t) EXCEPT !.item[After(s, i, t)] = GoneOut(@)]
  IN  IF t = Vanishes THEN Removed(told, i)
      ELSE IF Waits(next, After(s, i, t)) THEN List(next, After(s, i, t)) ELSE next

StartDecay(s, i) ==
  IF ~Waits(s, i) THEN s
  ELSE IF Duration(s, i) > 0 THEN List(s, i) ELSE DecayAway(s, i)

-----------------------------------------------------------------------------
(* Rounds.                                                                 *)

\* As if the bucket that was just checked were the next.
SortLate(s, b) ==
  FoldLeft(LAMBDA r, i :
             LET n == IF Duration(r, i) >= Buckets THEN b
                      ELSE (b + 2 + Duration(r, i)) % Buckets
             IN  [r EXCEPT !.bucket[n] = Append(@, i)],
           [s EXCEPT !.fresh = <<>>], s.fresh)

\* The second half of Game::cleanup, after the last bucket b.
Sort(s, b) ==
  FoldLeft(LAMBDA r, i :
             LET n == IF Duration(r, i) >= Buckets THEN b
                      ELSE (b + 1 + Duration(r, i)) % Buckets
             IN  [r EXCEPT !.bucket[n] = Append(@, i)],
           [s EXCEPT !.fresh = <<>>], s.fresh)

\* unRef.
Unreferred(x) == IF x.refs = 1 THEN NoGood ELSE [x EXCEPT !.refs = @ - 1]
Released(s, i) == [s EXCEPT !.item[i] = Unreferred(@)]

\* Game::cleanup.
CleanedUp(s, b) == Sort(FoldLeft(Released, [s EXCEPT !.freed = <<>>], s.freed), b)

\* The first entry of bucket b is taken out of it, and pays for a turn of the
\* buckets.
Paid(x) ==
  [x EXCEPT !.duration =
     IF @ = None THEN None ELSE IF @ < Buckets THEN 0 ELSE @ - Buckets]
Charged(s, b) ==
  LET i == Head(s.bucket[b])
  IN  [s EXCEPT !.bucket[b] = Tail(@), !.item[i] = Paid(@)]

\* As if an item that stopped decaying still counted as one that does.
CheckEntryOnly(s, i, b) ==
  LET c == Charged(s, b)
      left == Duration(c, i)
  IN  IF ~CanDecay(c, i) THEN Freed(c, i)
      ELSE IF left <= 0 THEN Freed(DecayAway(c, i), i)
      ELSE LET n == IF left < Buckets THEN (b + left) % Buckets ELSE b
           IN  [c EXCEPT !.bucket[n] = Append(@, i)]

\* As if the reference of the list went with its item.
CheckEntryHolding(s, i, b) ==
  LET c == Charged(s, b)
      left == Duration(c, i)
  IN  IF ~CanDecay(c, i) THEN Freed([c EXCEPT !.item[i].decaying = FALSE], i)
      ELSE IF left <= 0 THEN DecayAway(c, i)
      ELSE LET n == IF left < Buckets THEN (b + left) % Buckets ELSE b
           IN  [c EXCEPT !.bucket[n] = Append(@, i)]

\* The entry of item i in bucket b; an entry that stays goes to the back.
CheckEntry(s, i, b) ==
  LET c == Charged(s, b)
      left == Duration(c, i)
  IN  IF ~CanDecay(c, i) THEN Freed([c EXCEPT !.item[i].decaying = FALSE], i)
      ELSE IF left <= 0 THEN Freed(DecayAway(c, i), i)
      ELSE LET n == IF left < Buckets THEN (b + left) % Buckets ELSE b
           IN  [c EXCEPT !.bucket[n] = Append(@, i)]

Burning(s) == {i \in Good : CanDecay(s, i) /\ ~s.item[i].history.spent}
Aged(x) == [x EXCEPT !.history.burnt = @ + 1]
Older(s) ==
  [s EXCEPT !.item = [i \in Good |-> IF i \in Burning(s) THEN Aged(@[i]) ELSE @[i]]]

\* Every entry that bucket b has at the time, once.
Checks(s, b) ==
  FoldLeft(LAMBDA r, i : CheckEntry(r, i, b), Older(s), s.bucket[b])

\* bound: an object is left for what an item may turn into.
Unused == {i \in Good : decay.item[i].refs = 0}
RoomForOne == Unused # {}
RoomForTwo == \E i, j \in Unused : i # j

CheckDecay ==
  /\ RoomForOne
  /\ LET b == (lastBucket + 1) % Buckets
     IN  /\ lastBucket' = b
         /\ decay' = CleanedUp(Checks(decay, b), b)
  /\ UNCHANGED <<online, stored>>

\* Every check of the creatures ends with it.
CleanupItems ==
  /\ decay' = CleanedUp(decay, lastBucket)
  /\ UNCHANGED <<online, lastBucket, stored>>

-----------------------------------------------------------------------------
(* What happens to items meanwhile.                                        *)

Here == {i \in Good : decay.item[i].placed}

\* Magic fields, corpses and what scripts create.
CreateGood(t) ==
  /\ Here = {} /\ stored = None /\ RoomForTwo
  /\ decay' = StartDecay(Created(decay, t), FreeGood(decay))
  /\ UNCHANGED <<online, lastBucket, stored>>

\* doTransformItem and doDecayItem, as the scripts of tools, torches and floors
\* call them, or the same for an equipped ring.
UseGood(i, t) ==
  /\ i \in Here /\ <<decay.item[i].type, t>> \in Uses
  /\ Listings(decay, i) < Entries /\ RoomForOne
  /\ decay' = StartDecay(Changed(decay, i, t), After(decay, i, t))
  /\ UNCHANGED <<online, lastBucket, stored>>

RemoveGood(i) ==
  /\ i \in Here
  /\ decay' = Removed(decay, i)
  /\ UNCHANGED <<online, lastBucket, stored>>

\* A player leaves with it; the item ends with the player's object.
TakeAlong(i) ==
  /\ i \in Here /\ stored = None
  /\ decay' = Removed(decay, i)
  /\ stored' = decay.item[i]
  /\ UNCHANGED <<online, lastBucket>>

\* unserializeAttr, into a new object.
Back(x) ==
  [x EXCEPT !.placed = TRUE, !.refs = 1, !.decaying = FALSE,
            !.history = [NoHistory EXCEPT !.full = IF x.duration = None THEN 0 ELSE x.duration]]
BroughtBack(s, x) == [s EXCEPT !.item[FreeGood(s)] = Back(x)]

\* The player comes back, with __startDecaying.
BringBack ==
  /\ stored # None /\ RoomForTwo
  /\ decay' = StartDecay(BroughtBack(decay, stored), FreeGood(decay))
  /\ stored' = None
  /\ UNCHANGED <<online, lastBucket>>

DecayNext ==
  \/ CheckDecay \/ CleanupItems \/ BringBack
  \/ \E t \in Type : CreateGood(t)
  \/ \E i \in Good :
       \/ RemoveGood(i) \/ TakeAlong(i)
       \/ \E t \in Type : UseGood(i, t)

DecaySpec == online = Player /\ DecayInit /\ [][DecayNext]_decayVars

-----------------------------------------------------------------------------
(* Properties.                                                             *)

\* The types of the state.
DecayTypeOK ==
  /\ \A i \in Good :
       /\ decay.item[i].type \in Type \union {None}
       /\ decay.item[i].duration \in Nat \union {None}
       /\ decay.item[i].refs \in Nat
  /\ lastBucket \in 0..(Buckets - 1)

\* An item does not outlast its time, however often it pauses: each stay on the
\* lists takes what it gave, but for the round it began in.
NothingOutlastsItsTime ==
  \A i \in Burning(decay) :
    LET h == decay.item[i].history IN h.burnt <= h.full + h.stays

\* An item that decays without a pause lasts its time.
NothingDecaysEarly == ~decay.early

\* Lists refer to items that exist, once for each entry, and nothing leaks.
EntriesAreCounted ==
  \A i \in Good :
    decay.item[i].refs = (IF decay.item[i].placed THEN 1 ELSE 0)
                           + Listings(decay, i) + Times(decay.freed, i)

\* The buckets and the items agree at any time.
DecayIsTrue == NothingOutlastsItsTime /\ NothingDecaysEarly /\ EntriesAreCounted

=============================================================================
