------------------------------ MODULE Placement ------------------------------
(***************************************************************************)
(* What migrating one regular file promises (spec 4.8, 7, 8), stated over *)
(* pages and bricks only, with no extent items, keys, splits or locks.     *)
(*                                                                         *)
(*   loc[p]   the brick page p of the file lives on;                      *)
(*   want[p]  the brick the migration should put it on: the destination   *)
(*            the caller asked for, or the brick the distribution plugin  *)
(*            computes for the page's stripe.  Any means that the mode of *)
(*            the call places whole items, so no single brick is asked of *)
(*            the page;                                                    *)
(*   status   running, done or failed.                                     *)
(*                                                                         *)
(* A step may move pages, but only pages not yet on the wanted brick and  *)
(* only onto it: a page never travels twice and a file already in place   *)
(* is left alone (spec 8, migration idempotence).  A concurrent truncate  *)
(* may cut the file.  The call ends done only once every page is in       *)
(* place, or ends failed (spec 7).                                        *)
(***************************************************************************)
EXTENDS Naturals, FiniteSets

CONSTANT Any

VARIABLES loc, want, status

pvars == <<loc, want, status>>

Init ==
  /\ status = "running"
  /\ DOMAIN want = DOMAIN loc

\* a page moves only if it is misplaced, and only to where it is wanted
MovesTowardWant ==
  \A p \in DOMAIN loc :
    loc'[p] # loc[p] => /\ loc[p] # want[p]
                        /\ want[p] \in {loc'[p], Any}

Relocate ==
  /\ status = "running"
  /\ DOMAIN loc' = DOMAIN loc
  /\ MovesTowardWant
  /\ UNCHANGED <<want, status>>

\* the file is cut to a prefix of itself; surviving pages stay where they are
Truncate ==
  /\ status = "running"
  /\ DOMAIN loc' = 0 .. (Cardinality(DOMAIN loc') - 1)
  /\ DOMAIN loc' \subseteq DOMAIN loc
  /\ loc' = [p \in DOMAIN loc' |-> loc[p]]
  /\ want' = [p \in DOMAIN loc' |-> want[p]]
  /\ UNCHANGED status

Finish ==
  /\ status = "running"
  /\ \A p \in DOMAIN loc : want[p] \in {loc[p], Any}
  /\ status' = "done"
  /\ UNCHANGED <<loc, want>>

Fail ==
  /\ status = "running"
  /\ status' = "failed"
  /\ UNCHANGED <<loc, want>>

Next == Relocate \/ Truncate \/ Finish \/ Fail

Spec == Init /\ [][Next]_pvars

=============================================================================
