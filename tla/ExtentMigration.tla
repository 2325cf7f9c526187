--------------------------- MODULE ExtentMigration ---------------------------
(***************************************************************************)
(* Migration of one regular file's extent items between data bricks       *)
(* (src/plugin/item/extent_volume_ops.c), together with the caller that   *)
(* walks the file from its end and a concurrent truncate.                  *)
(*                                                                         *)
(* The file is a sequence of extent items [off, len, loc], in pages: item *)
(* i holds pages off .. off+len-1 and its key ordering loc names the brick *)
(* they live on.  reiser4_migrate_extent() works on the item found by the  *)
(* caller, from its end leftward: what_to_do() chooses to SKIP the item,   *)
(* SPLIT it, or MIGRATE its tail or the whole of it; after a migration the *)
(* tree lock is dropped and the item left of done_off is looked up again.  *)
(* lost holds the pages whose data a failure has dropped.                  *)
(***************************************************************************)
EXTENDS Integers, Sequences, SequencesExt, FiniteSets, FiniteSetsExt

CONSTANTS
  Bricks,        \* data bricks (key orderings of extent items)
  NoBrick,       \* no destination: the caller passed dst_id == NULL
  NPages,        \* pages of the file before any truncate
  StripePages,   \* current_stripe_size, in pages
  Granularity,   \* MIGRATION_GRANULARITY, in pages (nosplit mode chunks)
  Faults,        \* failures the environment may inject (see EarlyFaults)
  MaxTruncates   \* bound on concurrent truncates during one migration

ASSUME /\ NoBrick \notin Bricks
       /\ NPages \in Nat \ {0} /\ StripePages \in Nat \ {0}
       /\ Granularity \in Nat \ {0} /\ MaxTruncates \in Nat

VARIABLES
  items,     \* the file's extent items, in key order
  size,      \* i_size, in pages
  target,    \* calc_data_subvol(): stripe -> brick
  nosplit,   \* nosplit_migration_mode()
  dst,       \* *dst_id, or NoBrick
  lost,      \* pages whose data a failed step dropped
  trunc,     \* truncates so far
  pc,        \* where the migrating thread is
  key,       \* offset of mctx->key: the item under the tree lock
  stopOff,   \* mctx->stop_off
  newLoc,    \* mctx->new_loc
  whole,     \* mctx->migrate_whole_item
  doneOff,   \* mctx->done_off
  fileDone,  \* *done_off, the progress the caller sees
  refs       \* per page: page and jnode references the migration holds

vars == <<items, size, target, nosplit, dst, lost, trunc, pc, key,
          stopOff, newLoc, whole, doneOff, fileDone, refs>>

Pages == 0 .. NPages - 1
Stripes == 0 .. (NPages - 1) \div StripePages
Item == [off : Pages, len : 1 .. NPages, loc : Bricks]

\* faults that leave the tree as it was: vmalloc, reiser4_grab_space,
\* readpages_extent_item, do_jget and cut_off_tail failing
EarlyFaults == {"vmalloc", "grab", "read", "jget", "cut"}

\* the tree lock is held (lh of the caller, then of the re-lookup)
Locked == {"what", "skip", "split", "migrate"}

End(it) == it.off + it.len
PagesOf(it) == it.off .. End(it) - 1
Covering(o) == {i \in DOMAIN items : o \in PagesOf(items[i])}
KeyIdx == CHOOSE i \in DOMAIN items : items[i].off = key

\* calc_data_subvol(inode, off)
Calc(o) == target[o \div StripePages]

\* the brick a page is wanted on: *dst_id, or its stripe's brick
Want(o) == IF dst # NoBrick THEN dst ELSE Calc(o)

TryMergeRight(s, j) ==
  {s} \cup (IF j \in 1 .. Len(s) - 1 /\ End(s[j]) = s[j+1].off
                /\ s[j].loc = s[j+1].loc
            THEN {ReplaceAt(RemoveAt(s, j+1), j,
                            [s[j] EXCEPT !.len = @ + s[j+1].len])}
            ELSE {})

MergeLeftAnyBrick(s, j) ==
  {s} \cup (IF j > 1 /\ End(s[j-1]) = s[j].off
            THEN {ReplaceAt(RemoveAt(s, j-1), j-1,
                            [s[j] EXCEPT !.off = s[j-1].off,
                                         !.len = @ + s[j-1].len])}
            ELSE {})

\* try_merge_with_left_item()
TryMergeLeft(s, j) == IF j > 1 THEN TryMergeRight(s, j-1) ELSE {s}

(***************************************************************************)
(* what_to_do(): decisions as records [act, stopOff, whole, newLoc].       *)
(***************************************************************************)
NosplitChunkBroken(it) ==
  LET nl == Want(it.off) IN
  IF it.loc = nl
  THEN [act |-> "skip", stopOff |-> it.off, whole |-> FALSE, newLoc |-> nl]
  ELSE IF it.len < Granularity
  THEN [act |-> "migrate", stopOff |-> it.off, whole |-> TRUE, newLoc |-> nl]
  ELSE [act |-> "migrate", stopOff |-> End(it) - Granularity,
        whole |-> FALSE, newLoc |-> nl]

NosplitDstIgnored(it) ==
  LET nl == Calc(it.off) IN
  IF it.loc = nl
  THEN [act |-> "skip", stopOff |-> it.off, whole |-> FALSE, newLoc |-> nl]
  ELSE IF it.len <= Granularity
  THEN [act |-> "migrate", stopOff |-> it.off, whole |-> TRUE, newLoc |-> nl]
  ELSE [act |-> "migrate", stopOff |-> End(it) - Granularity,
        whole |-> FALSE, newLoc |-> nl]

\* what_to_do_nosplit(): the brick of the item's first page decides
NosplitDecision(it) ==
  LET nl == Want(it.off) IN
  IF it.loc = nl
  THEN [act |-> "skip", stopOff |-> it.off, whole |-> FALSE, newLoc |-> nl]
  ELSE IF it.len <= Granularity
  THEN [act |-> "migrate", stopOff |-> it.off, whole |-> TRUE, newLoc |-> nl]
  ELSE [act |-> "migrate", stopOff |-> End(it) - Granularity,
        whole |-> FALSE, newLoc |-> nl]

\* the stripe-aligned offsets off1 <= q < off2 of the item whose stripe the
\* distribution puts elsewhere than the last stripe's new_loc
Diff(it, nl) ==
  LET off1 == it.off - (it.off % StripePages)
      off2 == (End(it) - 1) - ((End(it) - 1) % StripePages)
  IN  {q \in off1 .. off2 - 1 : q % StripePages = 0 /\ Calc(q) # nl}

\* split_off: one stripe right of the last stripe that maps elsewhere
SplitOff(it, nl) == Max(Diff(it, nl)) + StripePages

\* what_to_do() in stripe mode
SplitDecision(it) ==
  LET last == End(it) - 1
      nl   == Want(last - (last % StripePages))
  IN  IF Diff(it, nl) = {}
      THEN [act |-> IF nl # it.loc THEN "migrate" ELSE "skip",
            stopOff |-> it.off, whole |-> nl # it.loc, newLoc |-> nl]
      ELSE [act |-> IF nl # it.loc THEN "migrate" ELSE "split",
            stopOff |-> SplitOff(it, nl), whole |-> FALSE, newLoc |-> nl]

WhatToDo ==
  /\ pc = "what"
  /\ LET it == items[KeyIdx]
         d  == IF nosplit THEN NosplitDecision(it) ELSE SplitDecision(it)
     IN  /\ pc' = d.act
         /\ stopOff' = d.stopOff
         /\ whole' = d.whole
         /\ newLoc' = d.newLoc
  /\ UNCHANGED <<items, size, target, nosplit, dst, lost, trunc, key,
                 doneOff, fileDone, refs>>

SkipNoProgress ==
  /\ pc = "skip"
  /\ \E s \in TryMergeRight(items, KeyIdx) : items' = s
  /\ pc' = "lookup"
  /\ UNCHANGED <<size, target, nosplit, dst, lost, trunc, key, stopOff,
                 newLoc, whole, doneOff, fileDone, refs>>

\* SKIP_EXTENT: merge with the right item, report stop_off, drop the lock
Skip ==
  /\ pc = "skip"
  /\ \E s \in TryMergeRight(items, KeyIdx) : items' = s
  /\ fileDone' = stopOff
  /\ pc' = "lookup"
  /\ UNCHANGED <<size, target, nosplit, dst, lost, trunc, key, stopOff,
                 newLoc, whole, doneOff, refs>>

\* the item under the lock cut at stop_off, and the part right of it
LeftPart == [items[KeyIdx] EXCEPT !.len = stopOff - items[KeyIdx].off]
RightPart == [off |-> stopOff, len |-> End(items[KeyIdx]) - stopOff,
              loc |-> items[KeyIdx].loc]

\* do_split_extent() / split_extent_item(): cut the units right of stop_off
\* and insert them as a new item.  split_extent_unit() or kmalloc() may
\* fail first, leaving the item as it was.
SplitExtent ==
  /\ pc = "split"
  /\ \/ /\ "split" \in Faults
        /\ pc' = "failed"
        /\ UNCHANGED items
     \/ /\ items' = InsertAt(ReplaceAt(items, KeyIdx, LeftPart),
                             KeyIdx + 1, RightPart)
        /\ pc' = "what"
  /\ UNCHANGED <<size, target, nosplit, dst, lost, trunc, key, stopOff,
                 newLoc, whole, doneOff, fileDone, refs>>

\* split_extent_item() when insert_by_coord() fails after the cut: its
\* result is dropped, 0 is returned and the loop goes on with the left part.
SplitInsertIgnored ==
  /\ pc = "split"
  /\ "splitins" \in Faults
  /\ items' = ReplaceAt(items, KeyIdx, LeftPart)
  /\ lost' = lost \cup PagesOf(RightPart)
  /\ pc' = "what"
  /\ UNCHANGED <<size, target, nosplit, dst, trunc, key, stopOff, newLoc,
                 whole, doneOff, fileDone, refs>>

(***************************************************************************)
(* do_migrate_extent() up to done_lh(), with migrate_blocks().  The whole *)
(* item is re-keyed to the new brick and merged right then left; a tail   *)
(* is cut off and inserted as a new item, which is merged right.  The     *)
(* early faults change nothing; the lock is dropped either way.           *)
(***************************************************************************)
TailPages == stopOff .. End(items[KeyIdx]) - 1
CutTail == ReplaceAt(items, KeyIdx, LeftPart)

Relocated ==
  LET i  == KeyIdx
      it == items[i]
  IN  IF whole
      THEN UNION {TryMergeLeft(s, i) :
                  s \in TryMergeRight(ReplaceAt(items, i,
                                        [it EXCEPT !.loc = newLoc]), i)}
      ELSE TryMergeRight(InsertAt(CutTail, i + 1,
                                  [RightPart EXCEPT !.loc = newLoc]), i + 1)

(***************************************************************************)
(* The page and jnode references of migrate_blocks().  mctx->pages[k],    *)
(* k in 0 .. nr_pages-1, is the page at stop_off + k.  readpages_extent_  *)
(* item() walks the units of the item from the one holding stop_off; a    *)
(* unit is given as the number of pages read from it.  read_cache_page()  *)
(* may fail at any page, do_jget() at any page, and the later steps after *)
(* every page holds its jnode.  A fault is named as in Faults; "none" is  *)
(* the successful call.                                                    *)
(***************************************************************************)
\* the ways the units of an item can split n pages: the model keeps items,
\* not their units, so any split is possible
RECURSIVE UnitWidths(_)
UnitWidths(n) ==
  IF n = 0 THEN {<<>>}
  ELSE UNION {{<<w>> \o r : r \in UnitWidths(n - w)} : w \in 1 .. n}

\* off_in_pages of unit u: the pages read from the units before it
UnitStart(c, u) == SumFunction(SubSeq(c, 1, u - 1))

\* the unit whose read reaches page k
UnitOf(c, k) == CHOOSE u \in DOMAIN c : UnitStart(c, u) <= k /\ k < UnitStart(c, u + 1)

\* the pages read_cache_page() pinned before it failed at page f, or all
PagesRead(n, f, at) ==
  CASE f \in {"vmalloc", "grab"} -> {}
    [] f = "read"                 -> 0 .. at - 1
    [] OTHER                      -> 0 .. n - 1

\* readpages_extent_unit() failing at page f: its error loop puts the
\* pages it read from this unit
UnitErrorPuts(c, f) == UnitStart(c, UnitOf(c, f)) .. f - 1

\* the error loop of readpages_extent_item() run with nr_pages advanced
\* past the failing unit as well
ItemErrorPutsWithUnit(c, f) == 0 .. UnitStart(c, UnitOf(c, f) + 1) - 1

\* readpages_extent_item() after a unit failed: nr_pages counts the pages
\* of the units before, which it puts
ItemErrorPuts(c, f) == 0 .. UnitStart(c, UnitOf(c, f)) - 1

\* nr_jnodes: the pages do_jget() attached a jnode to before it failed at
\* page at; all of them once the loop is through
NrJnodes(n, f, at) ==
  CASE f \in {"vmalloc", "grab", "read"} -> 0
    [] f = "jget"                         -> at
    [] OTHER                              -> n

\* the jnodes do_jget() returned, one reference each
JnodesGot(n, f, at) ==
  CASE f \in {"vmalloc", "grab", "read"} -> {}
    [] f = "jget"                         -> {i \in 0 .. n - 1 : i < at}
    [] OTHER                              -> 0 .. n - 1

\* the put_page() loops that run: the two error loops of readpages, or the
\* capture loop (success) or the error loop of migrate_blocks, which put
\* every page
PagePutLoops(n, c, f, at) ==
  CASE f \in {"vmalloc", "grab"} -> <<>>
    [] f = "read"                 -> <<UnitErrorPuts(c, at), ItemErrorPuts(c, at)>>
    [] OTHER                      -> <<0 .. n - 1>>

\* what the call leaves held, per page of the file: page references and
\* jnode references taken minus those dropped
Ledger(c, f, at) ==
  LET n == SumFunction(c)
      Held(k) ==
        [pg |-> (IF k \in PagesRead(n, f, at) THEN 1 ELSE 0)
                 - Cardinality({l \in DOMAIN PagePutLoops(n, c, f, at) :
                                  k \in PagePutLoops(n, c, f, at)[l]}),
         jn |-> (IF k \in JnodesGot(n, f, at) THEN 1 ELSE 0)
                 - (IF k < NrJnodes(n, f, at) THEN 1 ELSE 0)]
  IN  [p \in Pages |->
         IF p - stopOff \in 0 .. n - 1
         THEN [pg |-> refs[p].pg + Held(p - stopOff).pg,
               jn |-> refs[p].jn + Held(p - stopOff).jn]
         ELSE refs[p]]

\* the failure points of one call: a fault of Faults, and the page it
\* strikes for the per-page ones
FailPoints(n) ==
  {<<f, at>> : f \in Faults \cap EarlyFaults, at \in 0 .. n - 1}

MigrateBlocks ==
  /\ pc = "migrate"
  /\ \E c \in UnitWidths(Cardinality(TailPages)) :
       \/ \E fp \in FailPoints(Cardinality(TailPages)) :
             /\ refs' = Ledger(c, fp[1], fp[2])
             /\ pc' = "failed"
             /\ UNCHANGED <<items, doneOff>>
       \/ /\ items' \in Relocated
           /\ refs' = Ledger(c, "none", 0)
           /\ doneOff' = stopOff
           /\ pc' = "next"
  /\ UNCHANGED <<size, target, nosplit, dst, lost, trunc, key, stopOff,
                 newLoc, whole, fileDone>>

\* migrate_blocks() failing after the tree changed, with no rollback:
\* update_item_key() after the blocks were freed, insert_by_coord() after
\* cut_off_tail(), or check_insert_atom_brick_info() before the pages are
\* captured and dirtied on the new brick.
MigrateBlocksLost ==
  /\ pc = "migrate"
  /\ \/ whole /\ "key" \in Faults /\ UNCHANGED items
     \/ ~whole /\ "insert" \in Faults /\ items' = CutTail
     \/ "abi" \in Faults /\ items' \in Relocated
  /\ lost' = lost \cup TailPages
  /\ \E c \in UnitWidths(Cardinality(TailPages)) :
       refs' = Ledger(c, "abi", 0)
  /\ pc' = "failed"
  /\ UNCHANGED <<size, target, nosplit, dst, trunc, key, stopOff, newLoc,
                 whole, doneOff, fileDone>>

(***************************************************************************)
(* The rest of do_migrate_extent(), with the lock released, and the       *)
(* bookkeeping of reiser4_migrate_extent(): reserve_migration_iter(); a   *)
(* whole item stops the loop; otherwise the item holding done_off - 1 is  *)
(* looked up again.  Not finding it (a truncate removed it) stops the     *)
(* loop cleanly; a CBK error fails the call.                               *)
(***************************************************************************)
NextIteration ==
  /\ pc = "next"
  /\ \/ /\ "reserve" \in Faults
        /\ pc' = "failed"
        /\ UNCHANGED <<key, fileDone>>
     \/ /\ whole \/ Covering(doneOff - 1) = {}
        /\ fileDone' = doneOff
        /\ pc' = "lookup"
        /\ UNCHANGED key
     \/ /\ ~whole /\ "cbk" \in Faults
        /\ pc' = "failed"
        /\ UNCHANGED <<key, fileDone>>
     \/ /\ ~whole
        /\ \E i \in Covering(doneOff - 1) : key' = items[i].off
        /\ fileDone' = doneOff
        /\ pc' = "what"
  /\ UNCHANGED <<items, size, target, nosplit, dst, lost, trunc, stopOff,
                 newLoc, whole, doneOff, refs>>

\* The caller: resume left of the progress reported, or of i_size if a
\* truncate cut the file below it, and call reiser4_migrate_extent() with
\* a fresh context (init_migration_context) on the item found there.
Lookup ==
  /\ pc = "lookup"
  /\ LET r == Min({fileDone, size}) IN
       \/ /\ Covering(r - 1) = {}
          /\ pc' = "done"
          /\ UNCHANGED <<key, doneOff>>
       \/ /\ \E i \in Covering(r - 1) : key' = items[i].off
          /\ doneOff' = 0
          /\ pc' = "what"
  /\ UNCHANGED <<items, size, target, nosplit, dst, lost, trunc, stopOff,
                 newLoc, whole, fileDone, refs>>

\* A concurrent truncate, while the migration holds no tree lock: the
\* items beyond the new size are killed, the one across it is cut.
Truncate ==
  /\ pc \notin Locked \cup {"done", "failed"}
  /\ trunc < MaxTruncates
  /\ \E ns \in 0 .. size - 1 :
       LET kept == SelectSeq(items, LAMBDA it : it.off < ns) IN
       /\ items' = [j \in DOMAIN kept |->
                      IF End(kept[j]) > ns
                      THEN [kept[j] EXCEPT !.len = ns - kept[j].off]
                      ELSE kept[j]]
       /\ lost' = lost \cap 0 .. ns - 1
       /\ size' = ns
  /\ trunc' = trunc + 1
  /\ UNCHANGED <<target, nosplit, dst, pc, key, stopOff, newLoc, whole,
                 doneOff, fileDone, refs>>

\* every partition of the file into items, on any bricks
RECURSIVE Layouts(_, _)
Layouts(from, to) ==
  IF from = to THEN {<<>>}
  ELSE UNION {{<<[off |-> from, len |-> l, loc |-> b]>> \o rest :
                 rest \in Layouts(from + l, to)} :
              l \in 1 .. to - from, b \in Bricks}

Init ==
  /\ items \in Layouts(0, NPages)
  /\ size = NPages
  /\ target \in [Stripes -> Bricks]
  /\ nosplit \in BOOLEAN
  /\ dst \in Bricks \cup {NoBrick}
  /\ lost = {}
  /\ trunc = 0
  /\ pc = "lookup"
  /\ key = 0
  /\ stopOff = 0
  /\ newLoc = NoBrick
  /\ whole = FALSE
  /\ doneOff = 0
  /\ fileDone = NPages
  /\ refs = [p \in Pages |-> [pg |-> 0, jn |-> 0]]

Thread == WhatToDo \/ Skip \/ SplitExtent \/ MigrateBlocks \/ NextIteration
            \/ Lookup

Next == Thread \/ Truncate

\* the thread is never starved of CPU; truncates are not forced to happen
Spec == Init /\ [][Next]_vars /\ WF_vars(Thread)

\* the same, with the failures that drop data after the tree has changed
LossyStep == SplitInsertIgnored \/ MigrateBlocksLost

SpecWithLoss == Init /\ [][Next \/ LossyStep]_vars /\ WF_vars(Thread)

-----------------------------------------------------------------------------
\* Every state variable ranges over what the code can hold.
TypeOK ==
  /\ items \in Seq(Item)
  /\ size \in 0 .. NPages
  /\ target \in [Stripes -> Bricks]
  /\ dst \in Bricks \cup {NoBrick}
  /\ lost \subseteq Pages
  /\ pc \in Locked \cup {"next", "lookup", "done", "failed"}
  /\ stopOff \in Pages /\ doneOff \in 0 .. NPages /\ fileDone \in 0 .. NPages
  /\ refs \in [Pages -> [pg : Int, jn : Int]]

\* No page of the file is ever dropped: the items still tile 0 .. i_size-1
\* in key order, and no failed step lost data.  Splits (split_extent_item),
\* cuts and inserts (migrate_blocks), merges and truncates must keep it.
DataPreserved ==
  /\ lost = {}
  /\ IF items = <<>> THEN size = 0
     ELSE /\ items[1].off = 0
          /\ End(items[Len(items)]) = size
          /\ \A j \in 1 .. Len(items) - 1 : End(items[j]) = items[j+1].off

\* What the caller may resume from: every page at or right of the progress
\* reported in *done_off already lives on the brick it is wanted on.  The
\* nosplit mode without a destination places whole items, so asks no
\* brick of a single page.
ResumeSound ==
  (~nosplit \/ dst # NoBrick) =>
    \A i \in DOMAIN items :
      \A p \in PagesOf(items[i]) : p >= fileDone => items[i].loc = Want(p)

\* Every page reference read_cache_page() took and every jnode reference
\* do_jget() took is dropped again by the time migrate_blocks() returns,
\* whichever page of whichever unit the read or the jget failed at, and
\* none is dropped twice: the error loops of readpages_extent_unit(),
\* readpages_extent_item() and migrate_blocks() split the pinned pages
\* between them by nr_pages, off_in_pages and nr_jnodes (spec: the pinned
\* page set is released on success and on error).
RefsReleased == \A p \in Pages : refs[p] = [pg |-> 0, jn |-> 0]

\* The migration of a file always ends, done or failed: each pass of the
\* loop in reiser4_migrate_extent() and of its caller makes progress.
Termination == <>(pc \in {"done", "failed"})

\* The brick of every page, and the brick wanted for it.
LocAt(p) == IF Covering(p) = {} THEN NoBrick
            ELSE items[CHOOSE i \in Covering(p) : TRUE].loc

Abstract == INSTANCE Placement WITH
  Any    <- NoBrick,
  loc    <- [p \in 0 .. size - 1 |-> LocAt(p)],
  want   <- [p \in 0 .. size - 1 |->
               IF nosplit /\ dst = NoBrick THEN NoBrick ELSE Want(p)],
  status <- CASE pc = "done"   -> "done"
              [] pc = "failed" -> "failed"
              [] OTHER         -> "running"

\* The item-level migration implements the page-level promise: pages move
\* only when misplaced and only to the wanted brick (so a file already in
\* place migrates nothing), and the call ends done only with all in place.
Refinement == Abstract!Spec

=============================================================================
