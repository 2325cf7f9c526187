------------------------------ MODULE DistTable ------------------------------
(***************************************************************************)
(* What the distribution of a volume promises (spec 3, 4.4-4.6, 8), stated *)
(* over hashes and bricks only, with no table, weights or fibers.          *)
(*                                                                         *)
(*   members   the bricks of the volume;                                   *)
(*   owner[h]  the brick that lookup sends hash h to.                      *)
(*                                                                         *)
(* Every hash belongs to a member.  Adding a brick moves hashes only onto  *)
(* the new brick, removing one moves only the hashes of the removed brick, *)
(* and growing a brick moves hashes only onto it.  A refinement of the    *)
(* table moves a hash only from a brick whose share shrinks to one whose  *)
(* share grows.  Nothing else ever moves a hash.                           *)
(***************************************************************************)
EXTENDS Naturals, FiniteSets

CONSTANTS Hash, Brick

VARIABLES owner, members

dvars == <<owner, members>>

\* the number of hashes that o sends to brick b
Share(o, b) == Cardinality({h \in Hash : o[h] = b})

Init ==
  /\ members # {}
  /\ owner \in [Hash -> members]

\* every hash keeps its brick or moves onto b
MovesOnlyOnto(b) == \A h \in Hash : owner'[h] \in {owner[h], b}

Add(b) ==
  /\ b \notin members
  /\ members' = members \cup {b}
  /\ MovesOnlyOnto(b)

Remove(b) ==
  /\ b \in members
  /\ members' = members \ {b}
  /\ owner' \in [Hash -> members']
  /\ \A h \in Hash : owner[h] # b => owner'[h] = owner[h]

Grow(b) ==
  /\ b \in members
  /\ MovesOnlyOnto(b)
  /\ UNCHANGED members

Refine ==
  /\ \A h \in Hash :
       owner'[h] # owner[h] =>
         /\ Share(owner', owner[h]) < Share(owner, owner[h])
         /\ Share(owner', owner'[h]) > Share(owner, owner'[h])
  /\ UNCHANGED members

Next == Refine \/ \E b \in Brick : Add(b) \/ Remove(b) \/ Grow(b)

Spec == Init /\ [][Next]_dvars

=============================================================================
