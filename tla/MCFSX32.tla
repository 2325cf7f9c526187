------------------------------ MODULE MCFSX32 ------------------------------
(* Model values and bounds for checking FSX32 with TLC.                    *)
EXTENDS FSX32

CONSTANTS b1, b2, b3, b4

MCBricks4 == {b1, b2, b3, b4}
MCBricks3 == {b1, b2, b3}
MCBricks2 == {b1, b2}

\* bricks of equal capacity
MCCapEqual == [b \in MCBricks4 |-> 1]

\* two bricks of capacity 1 and 2
MCCapOneTwo == (b1 :> 1) @@ (b2 :> 2) @@ (b3 :> 1) @@ (b4 :> 1)

\* capacities 2, 5, 2: adding the third brick moves a rounding unit from
\* the first bucket to the second
MCCapSkewed == (b1 :> 2) @@ (b2 :> 5) @@ (b3 :> 2) @@ (b4 :> 1)

\* subvolume ids: the meta brick has id 0, the others need more than one
\* byte, so a byte-order slip changes them
MCId == (b1 :> 0) @@ (b2 :> 258) @@ (b3 :> 65539) @@ (b4 :> 16777220)

=============================================================================
