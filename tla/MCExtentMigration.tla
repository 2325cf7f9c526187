-------------------------- MODULE MCExtentMigration --------------------------
(***************************************************************************)
(* Instances of ExtentMigration for TLC: two bricks, and in the cfgs a    *)
(* file of four or five pages in stripes of two pages (so items may start *)
(* inside a stripe and the last stripe may be partial), chunks of two     *)
(* pages in nosplit mode, and at most one concurrent truncate.            *)
(***************************************************************************)
EXTENDS ExtentMigration

CONSTANTS a, b

MCBricks == {a, b}

\* failures that leave no trace in the tree, and the re-lookup error
MCSafeFaults == {"vmalloc", "grab", "read", "jget", "cut", "split",
                 "reserve", "cbk"}

\* split_extent_item()'s insert failing
MCSplitInsertFault == {"splitins"}

=============================================================================
