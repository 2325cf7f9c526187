# TLA+ models of the reiser4 logical-volume code

This directory holds TLA+ models of `src/` (three C files, about 2500
lines). Each model is checked with TLC. The runs and mutants are listed in
`PROJECT.json`.

## The system

The code has three parts.

| Part | File | What it does |
|---|---|---|
| FSX32 distribution plugin | `src/plugin/dst/fsx32.c` | Keeps the **system table** `tab[0..nums-1]`, with `nums = 2^nums_bits`. Each slot names a brick. A file's stripe goes to `tab[hash >> (32 - nums_bits)]` (`lookup_fsx32m`). `calibrate` gives each bucket (brick) a **weight**, its share of `nums` slots proportional to its capacity. A **fiber** is the ascending list of slots of one bucket. `inc_fsx32`, `dec_fsx32` and `spl_fsx32` add a bucket, remove one, or refine the table by `2^fact_bits`. They rewrite a clone of the table so that data moves as little as possible, and the volume plugin publishes the clone with `replace_fsx32`. `initv_fsx32` and `donev_fsx32` create and free the weights and fibers at mount and umount. `check_space` refuses a removal whose data would not fit. `pack`, `unpack` and `dump` serialise the table. |
| Volume operations | `src/volume_ops.c` | The ioctl entry and the `op_dir` / `op_file` dispatchers. They take the per-volume **busy** flag and refuse most operations on an **unbalanced** volume. `add_brick` activates the brick, hands it to the volume plugin (which calls `inc_fsx32`), commits the unbalanced status, then balances and clears the flag. `remove_brick` follows the same pattern. The module also has resize, scale (`spl_fsx32`), balance, migrate and the immobile flags. |
| Extent migration | `src/plugin/item/extent_volume_ops.c` | Moves a file's extents to the brick that lookup now names. It decides per extent to skip, split or migrate, and it re-looks up the item after every lock release. |

The volume plugin, the storage tree, the transaction manager and the
bucket operations (`current_buckets`, `cap_at`, `space_occupied`) live
outside this repository.

## Inventory: state, operations, hard behaviours

- **FSX32 state:**
  - `tab`;
  - `dcx->weights` (NULL after `donev`);
  - `dcx->numb` and `dcx->nums_bits`;
  - the fibers attached to buckets;
  - the bucket vector and the capacities (read from the volume).
- **FSX32 operations:** `initr`, `initv`, `donev`, `doner`, `inc`, `dec`, `spl`, `replace`, `lookup`, `pack`, `unpack` and `dump`.
- **Hard behaviours in FSX32:**
  - u32 excess and shortage arithmetic in `balance_*`;
  - the fiber widths fixed at `initv` time and the table counts seen at the next mount;
  - the rounding rule of `calibrate`;
  - allocation failures part-way through `balance_spl`;
  - the limits `numb < nums` and `nums_bits < MAX_SHIFT` of `initv`, against what `inc` (`numb <= nums`) and `spl` (`nums_bits <= MAX_SHIFT`) accept.
- **Volume-operation state:**
  - the busy flag;
  - the unbalanced flag, in memory and on disk;
  - the brick flags ORPHAN, PROXY and ACTIVATED;
  - the ioctl context.
- **Hard behaviours in volume operations:**
  - concurrent ioctls;
  - a crash between the commit of the unbalanced status and the balance run;
  - error paths that must release the busy flag and the context.
- **Extent migration state:** the extent items of a file, `done_off` and `stop_off`, and the tree lock.
- **Hard behaviours in extent migration:**
  - a truncate between lock release and re-lookup;
  - an insert that fails after a cut;
  - termination of the migration loop.

`PROJECT.json` lists every such hazard at its source line under
`hazards`.

## Modules

| Module | Models | How |
|---|---|---|
| `Calibrate` | `calibrate`, `calibrate32`, `calibrate64` | `Calibrate(val, caps)`: floor shares, then one more unit to each of the first `rest` buckets. The model uses unbounded integers, with no u64 wrap. FSX32 uses it for every weight vector, so the FSX32 runs check it through `TableBalanced` and `NoUB`. |
| `FSX32` | `fsx32.c` reconfiguration | See below. |
| `MCFSX32` | model values | Bricks `b1..b4`, with equal, 1:2 and 2:5:2 capacities, and subvolume ids 0, 258, 65539 and 16777220. The ids need one to four bytes, so a byte-order slip changes them. |
| `VolumeOps` | `volume_ops.c` on-line operations | See below. |
| `MCVolumeOps` | model values | Threads `t1`, `t2`; bricks `m` (meta) and `x`; the opcode and fault sets of each run. |
| `ExtentMigration` | `extent_volume_ops.c` | See below. |
| `MCExtentMigration` | model values | Bricks `a`, `b`; the fault sets of each run. |
| `DistTable` | spec sections 3, 4.4-4.6, 8 | The abstract distribution: the member bricks and the owner of each hash. Add, remove, grow and refine say which hashes may move. `FSX32` instantiates it as `Dist`. |
| `Placement` | spec sections 4.8, 7, 8 | The abstract promise of a file migration, over pages and bricks only. `ExtentMigration` instantiates it. |

### FSX32

Variables:

| Variable | Code |
|---|---|
| `vec` | the bucket vector; C index `i` is position `i+1` |
| `tab` | the published table |
| `numsBits` | `dcx->nums_bits` |
| `numb` | `dcx->numb` |
| `weights` | `dcx->weights`; `<<>>` stands for NULL |
| `fibers` | whether fibers are attached |
| `occ` | `space_occupied()` |
| `cap` | the data capacity of each brick (`cap_at`). RESIZE_BRICK changes it. |
| `ub` | an out-of-bounds loop happened |

Fibers are not stored. `init_fibers_by_tab` builds them as the ascending
slots of a brick, and no table is written between building fibers and
releasing them, so `Fiber(tab, b)` is what the code reads.

Actions:

| Action | Code |
|---|---|
| `Init` | mkfs plus mount: one meta bucket; `initv` with `*tab == NULL` |
| `DoneV` | `donev_fsx32` (umount) |
| `InitV` | mount: the table is read back from disk (`Reloaded`), then `initv_fsx32` runs. It refuses `nums_bits >= MAX_SHIFT` and `numb >= nums`, and the volume then stays unmounted. It recounts the weights from the table, as `init_fibers_by_tab` does, and sets `ub` if a count exceeds the calibrated fiber width. |
| `Usage` | the file layer changing the occupied space |
| `Inc(new, p)` | `inc_fsx32` plus `balance_inc`, `release_fibers` and `replace_fsx32` |
| `Dec(p)` | `dec_fsx32`: `check_space`, then `balance_dec` and the releases |
| `Spl(fb)` | `spl_fsx32` and `balance_spl` |
| `Grow(p, c)` | RESIZE_BRICK growing a brick: `inc_fsx32` with `new == NULL`. The excess is `old - new` for every other bucket, and the grown bucket steals the tails of their fibers. |
| `Shrink(p, c)` | RESIZE_BRICK shrinking a brick: `dec_fsx32` with `removeme == NULL`. It runs `check_space`, then `balance_dec` dereferences NULL at line 397 (`ub`). Only in `SpecWithShrink`. |
| `SplExcAllocFail(fb)`, `SplRelocAllocFail(fb)` | `balance_spl` when the `exc` or `reloc` allocation fails. Both return 0, so `spl_fsx32` installs the new weights and `nums_bits` over an unstretched table (`exc`) or a NULL table (`reloc`). Only in `SpecWithAllocFail`. |
| `InitVAllocFail` | `initv_fsx32` when the weight vector or a fiber cannot be allocated. The error path calls `doner_fsx32(tab)`, which frees the table the caller passed in, the one lookups use, and sets it to NULL. Only in `SpecWithAllocFail`. |

**Constants.** `InitNumsBits` is the `nums_bits` of a new volume and `MaxShift` stands for `MAX_SHIFT`; hashes are `MaxShift` bits wide. `FactBits` are the `fact_bits` a SCALE asks `spl_fsx32` for, and `CapValues` the capacities a RESIZE asks for; a run that is not about splits or resizes leaves them empty.

**On-disk table.** `Pack` and `Unpack` are `pack_fsx32` and `unpack_fsx32`. An entry is the subvolume id `Id[b]`, written as four little-endian bytes (`Le32Bytes`, `Le32Value`). At mount, `Reloaded` packs the table in blocks of `PackEntries` entries and unpacks each block into the zeroed table that `initr_fsx32` allocates. The block loop belongs to the volume plugin, which is not in this repository, so it is modelled from spec 4.7. A table that does not survive the round trip breaks `TableBalanced` at the next mount.

`Spec` has every action except `Shrink` and the three allocation failures. The specifications that add them, `SpecWithShrink` and `SpecWithAllocFail`, are not run. Each would need a violation run of its own, and every run slot is in use.

Each action covers the whole C function, including its `-EINVAL` and
`-ENOSPC` returns, which leave the state unchanged.

`balance_*` stores excess and shortage in u32 and then loops up to that
value. When the integer value is negative, or larger than the fiber or
`reloc` it indexes, the model sets `ub` and stops. This is undefined
behaviour in the kernel: an out-of-bounds read and write of the table.

### VolumeOps

Each thread runs one volume ioctl at a time. An action of a thread is the
code between two points where it blocks: the forced commit, or a balance
run of the volume plugin. Other threads, the transaction manager and a
crash interleave at those points.

A configuration is a record: the set of bricks, their capacities, and the
refinement level of the table. What FSX32 computes from it is left to that
module.

Variables:

| Variable | Code |
|---|---|
| `pc`, `req`, `ret` | per thread: where it is, the copied `reiser4_vol_op_args`, the return value |
| `ctx` | per thread: a reiser4 context entered by `reiser4_init_context` |
| `busy` | the busy bit of `reiser4_volume_test_set_busy` |
| `unbal`, `diskUnbal` | the unbalanced status, in memory and committed |
| `conf`, `diskConf` | the volume configuration, in memory and committed |
| `layout`, `diskLayout` | the configuration the data is distributed by; a balance sets it to `conf` |
| `victim`, `diskVictim`, `incomplete` | `vol->victim`, the committed victim, the incomplete-removal flag |
| `proxyOn`, `active`, `immobile` | `REISER4_PROXY_ENABLED`, the activated bricks, a file's immobile flag |
| `crashes` | crashes so far (bounded by `MaxCrash`) |

Actions:

| Action | Code |
|---|---|
| `Call`, `Ioctl`, `ExitContext` | `reiser4_ioctl_volume`: enter the context, check `CAP_SYS_ADMIN` and copy the args, exit the context |
| `TestSetBusy`, `Unsupported`, `ClearBusy` | `op_dir` / `op_file`: take the busy bit or fail with `-EBUSY`, the `-ENOTTY` default, release the bit |
| `PrintVolume`, `PrintBrick`, `ResizeBrick` | the one-step operations |
| `AddBrick`, `AddBrickCommit`, `AddBrickBalance` | `reiser4_add_brick` up to the forced commit, the commit, and the balance and flag clear |
| `RemoveBrick`, `RemoveBrickBalance`, `RemoveBrickTail` | `reiser4_remove_brick` and the phases of `vol_plug->remove_brick` |
| `ScaleVolume`, `ScaleVolumeBalance` | `reiser4_scale_volume` before and after the balance |
| `BalanceVolume`, `BalanceVolumeTail` | `reiser4_balance_volume` before and after the plugin's balance |
| `MigrateFile`, `FileImmobile` | the `op_file` operations |
| `TxnCommit` | the transaction manager commits the running atom |
| `Crash` | crash and remount: the memory is reloaded from disk, and a committed victim marks the removal incomplete |

`Faults` names the external calls that may fail in a run. These are
`scan`, `activate`, `plug` (a volume-plugin call), `capture`, `commit`,
`nospc` (`check_space` in the plugin), `sync` (`reiser4_sync_file_common` of an O_SYNC migration), `eperm` and `memdup`. A failure
takes the path the code takes.

These parts come from spec sections 5 to 7, because their code is not in
this repository:

- the plugin's steps;
- the transaction manager;
- mount-time recovery.

`PROJECT.json` marks them `spec_modelled`. A failed `vol_plug->remove_brick`
leaves the removal recorded as incomplete, so that BALANCE finishes it.

### ExtentMigration

The model covers one call of the file-level migration. A caller walks the
file from its end. For the item left of the progress reported so far, it
calls `reiser4_migrate_extent`. That function loops over the item from the
right: it skips it, splits it, or migrates its tail or the whole of it.
A concurrent truncate may run whenever the migration holds no tree lock:
between the caller's calls, and between `done_lh` in `do_migrate_extent`
and the re-lookup.

An extent item is a record `[off, len, loc]` in pages. `loc` is the key
ordering, that is, the brick of its blocks. The model leaves out extent
units, jnodes, page reading and block allocation. Only their failures
remain, as faults. One item holding several units behaves like several
adjacent items of one brick, and the model has those.

| Variable | Code |
|---|---|
| `items`, `size` | the file's extent items in key order, and `i_size` |
| `target` | `calc_data_subvol`: stripe to brick |
| `nosplit`, `dst` | `nosplit_migration_mode()` and `*dst_id` (`NoBrick` for NULL); both are chosen at `Init` |
| `pc`, `key` | where the thread is, and the item under the lock (`mctx->key`) |
| `stopOff`, `newLoc`, `whole`, `doneOff` | `mctx->stop_off`, `new_loc`, `migrate_whole_item`, `done_off` |
| `fileDone` | `*done_off`, the progress the caller sees |
| `lost`, `trunc` | pages a failed step dropped; truncates so far |
| `refs` | per page of the file: the page references (`read_cache_page`/`put_page`) and jnode references (`do_jget`/`jput`) the migration still holds |

| Action | Code |
|---|---|
| `Lookup` | the caller: resume left of `min(*done_off, i_size)` with a fresh context, or finish (from the spec) |
| `WhatToDo` | `what_to_do` / `what_to_do_nosplit` and the `switch` of `reiser4_migrate_extent` |
| `Skip` | `SKIP_EXTENT`: merge right, `*done_off = stop_off`, return |
| `SplitExtent` | `do_split_extent` / `split_extent_item`, with the `split_extent_unit` and `kmalloc` failures |
| `SplitInsertIgnored` | `split_extent_item` when `insert_by_coord` fails after the cut (only in `SpecWithLoss`) |
| `MigrateBlocks` | `do_migrate_extent` up to `done_lh`, with `migrate_blocks`. It either fails early (`vmalloc`, `grab_space`, `readpages`, `jget`, `cut_off_tail`) or re-keys the whole item and merges it right then left, or else cuts the tail, inserts it on the new brick and merges it right. Either way it books the page and jnode references the call took and dropped into `refs` (`Ledger`). The item's units are not kept, so the action takes any split of the tail into units (`UnitWidths`); a read fault or a jget fault strikes any page |
| `MigrateBlocksLost` | `migrate_blocks` failing after the tree changed: `update_item_key`, the insert after the cut, `check_insert_atom_brick_info` (only in `SpecWithLoss`) |
| `NextIteration` | the rest of `do_migrate_extent`: `reserve_migration_iter`, the stop after a whole item, and the re-lookup by `done_off - 1`. Not finding the item stops cleanly, and a CBK error fails the call |
| `Truncate` | a concurrent truncate to a smaller size (from the spec) |

`Spec` has the failures that leave the tree intact. `SpecWithLoss` adds
the two `...Lost`/`...Ignored` steps, which drop data.

`Placement` states the promise with three variables: the brick of each page
(`loc`), the brick wanted for it (`want`), and `status`. A step may move
only misplaced pages, and only onto their wanted brick. A truncate cuts a
prefix. The call ends `done` only when every page is in place. The
refinement mapping takes `loc[p]` from the item covering `p`. It takes
`want[p]` from `dst_id` or the stripe's brick, or `Any` in nosplit mode
without a destination: that mode places whole items by their first page,
so it asks nothing of a single page.

## Properties and runs

| Run | Expect | Properties | Bounds |
|---|---|---|---|
| `fsx32_incdec` | pass | `NoUB`, `TableBalanced`, `DistRefinement` | 3 equal bricks, 8 slots, `MaxShift = 4` so that every remount is accepted, no split (`FactBits = {}`); resize growing a brick to capacity 2; tables stored in 3-entry blocks |
| `fsx32_scale` | pass | `TypeOK`, `TableBalanced`, `DistRefinement` | 2 equal bricks, 4 slots growing to 16 (`FactBits = {1, 2}`, `MaxShift = 4`, the last level not remountable), no resize; tables stored in 3-entry blocks, so the last block is partial |
| `fsx32_spl_three` | violation | `NoUB` | 3 equal bricks, 4 slots, one split |
| `fsx32_inc_weighted` | violation | `NoUB` | capacities 2, 5, 2, 4 slots, no split |
| `fsx32_spl_weighted` | violation | `TableBalanced` | capacities 1 and 2, 4 slots, one split |
| `fsx32_full_table` | violation | `Remountable` | 4 bricks, 4 slots, no split |
| `volops_reconf` | pass | `TypeOK`, `ExclusiveAccess`, `Recoverable`, `Resumable`, `BalanceAssertions`, `DataBricksActive`, `Termination` | 2 threads; ADD, REMOVE, SCALE (one level), BALANCE; plugin and commit failures; 1 crash |
| `volops_ops` | pass | `ExclusiveAccess` | 2 threads; PRINT_VOLUME, PRINT_BRICK, RESIZE (capacities 1 and 2), ADD_PROXY, BALANCE, MIGRATE, SET/CLR_IMMOBILE; PRINT_VOLUME and MIGRATE also sent to the wrong file type; failures of activate, plugin, capture, check_space and the O_SYNC sync; no crash |
| `volops_ctx_leak` | violation | `ContextReleased` | PRINT_VOLUME with the EPERM and memdup failures |
| `volops_capture` | violation | `BalanceAssertions` | as `volops_reconf`, with capture failures |
| `extent_migrate` | pass | `TypeOK`, `DataPreserved`, `ResumeSound`, `RefsReleased`, `Termination`, `Refinement` | every layout of a 5-page file on 2 bricks, stripes of 2 pages, nosplit chunks of 2 pages, every distribution, both modes, every destination; failures of vmalloc, grab_space, read_cache_page and do_jget at every page of every split into units, cut, split, reserve and the re-lookup; 1 truncate |
| `extent_split_insert` | violation | `DataPreserved` | 4 pages, `SpecWithLoss` with the split insert failing, no truncate |

What the properties say:

- **`TableBalanced`**:
  - every slot names a bucket of the vector;
  - every bucket holds exactly its calibrated number of slots;
  - the weights, while allocated, equal those counts.

  This is the invariant every `balance_*` relies on at the next
  operation and at the next mount.
- **`NoUB`**: no loop runs over a wrapped count.
- **`DistRefinement`**: `FSX32` implements `DistTable!Spec`, where the owner of a hash is `Lookup(tab, numsBits, h)` and the members are the bricks of the vector. This is the minimal-movement promise of spec section 8, made per operation:
  - an add moves hashes only onto the new brick;
  - a remove hands out only the victim's hashes;
  - a grow moves hashes only onto the grown brick;
  - a split moves a hash only from a shrinking share to a growing one;
  - a remount, which reads the table back from disk, moves nothing.
- **`Remountable`**: the table and the vector stay ones that `initv_fsx32` accepts (`nums_bits < MAX_SHIFT`, `numb < nums`).
- **`ExclusiveAccess`**: the busy bit is set exactly while one thread is inside the dispatcher, and never two at once.
- **`Recoverable`**: a committed configuration that the data is not distributed by is committed together with the unbalanced status. A crash at any point therefore leaves a volume that BALANCE can repair.
- **`Resumable`**: while the data lags the configuration, or a removal is unfinished, the in-memory unbalanced flag is set (spec section 7).
- **`BalanceAssertions`**: when `reiser4_balance_volume` checks `edward-2259` and `edward-2374`, a victim is recorded exactly when the removal is incomplete.
- **`DataBricksActive`**: every brick the data is distributed over is active. `reiser4_remove_brick` detaches the victim only after `vol_plug->remove_brick` returned 0, `reiser4_balance_volume` only after it finished a resumed removal, and the mount after a crash activates the committed victim.
- **`ContextReleased`** (violation run only): a thread back in user space holds no reiser4 context. In the passing runs the two entry failures are off, and every other path reaches `reiser4_exit_context`, so it is checked only where the code breaks it.
- **`Termination`** (liveness): every ioctl returns.
- **`DataPreserved`**: the items still tile the file `0 .. i_size-1`, and no failed step has dropped a page.
- **`ResumeSound`**: every page at or right of `*done_off` is on the brick it is wanted on. A caller may resume from `*done_off`. The invariant is stated for stripe mode, and for nosplit mode with a destination.
- **`RefsReleased`**: when `migrate_blocks` returns, it holds no page and no jnode reference, and it has dropped none twice. A read can fail at any page of any unit, and a `do_jget` at any page. The pinned pages are then shared out between the error loops of `readpages_extent_unit` (by `nr_pages = i` and `off_in_pages`), `readpages_extent_item` (by the `nr_pages` of the earlier units) and `migrate_blocks` (by `nr_jnodes`). The spec says the pinned page set is released on success and on error.
- **`Termination`** (of `ExtentMigration`, liveness): the migration of a file ends, done or failed.
- **`Refinement`**: `ExtentMigration` implements `Placement!Spec`. Pages move only when misplaced and only to the wanted brick, so a file already in place migrates nothing (spec section 8). The call ends done only with every page in place.

The passing runs use equal capacities and avoid splits with three
buckets. Those are the cases where the code is correct. `fsx32_incdec` grows one brick
to capacity 2 and keeps the others at 1. `fsx32_scale` has no resize, because a resize
followed by a split hits finding 2.

The violation runs are the findings:

1. `balance_spl` indexes the shortages wrongly (`fsx32.c:525`).
2. `balance_spl` assumes equal capacities (`:512`).
3. `balance_inc` lets the excess wrap when calibration moves a rounding unit (`:309`). A search found it at `nums = 1024` with realistic capacities too. Growing a brick with RESIZE_BRICK reaches the same wrap at line 315. For example, capacities 2,1,3 becoming 3,1,3 at nums 16 raise the second weight from 2 to 3. Resize also makes capacities unequal, which is where finding 2 bites.
4. `inc` admits `numb == nums`, which `initv` then refuses (`:756` vs `:686`).
5. `reiser4_ioctl_volume` returns on `-EPERM` and on a `memdup_user` failure without `reiser4_exit_context` (`volume_ops.c:567`, `:571`).
6. `reiser4_balance_volume` can return on a capture failure after clearing the flags but before resetting `vol->victim` (`volume_ops.c:357`). The volume then looks balanced, but a later balance trips `edward-2374`. This breaks spec section 7.
7. `split_extent_item` cuts the tail units, then ignores the result of `insert_by_coord` and returns 0 (`extent_volume_ops.c:581`). A failed insert removes those pages from the file while the migration goes on.

Every property of a passing run is also checked against a mutant of the
code it depends on (see `mutants` in `PROJECT.json`):

- a shortage index shifted for every bucket;
- stealing only left of the new bucket;
- a stretch that does not grow;
- an interleaved stretch;
- a `balance_dec` that takes its source from `fiber_at(vec, target_pos)`, the `removeme == NULL` branch, when it removes a bucket;
- a non-atomic test-and-set;
- a thread that waits on the busy bit;
- a balance that clears the flag on error;
- a remove tail that keeps the incomplete flag;
- a `reiser4_remove_brick` that detaches the victim although `vol_plug->remove_brick` failed;
- a scale without the `MAX_SHIFT` check;
- a scale that commits before marking the volume unbalanced;
- `what_to_do_nosplit` comparing with `<` instead of `<=`, which leaves an empty item;
- a right merge that drops the right item's width;
- `what_to_do_nosplit` ignoring `dst_id`;
- a SKIP that does not report `stop_off`, so the caller finds the same item forever;
- a left merge that ignores the key ordering and keeps the right item's brick;
- a `pack_fsx32` that never advances `src`;
- a `readpages_extent_item` whose error loop also puts the pages of the unit that failed, which that unit's own loop already put.

**Why the bounds are enough.** Four to sixteen slots with two to three
buckets cover these cases:

- every remainder pattern of `nums % numb` (0, 1 and 2);
- insertion at every position;
- removal of every bucket, the meta bucket included;
- splits by 2, 4 and 8;
- remount between operations.

Capacities 1:2 and 2:5:2 are the smallest that move a rounding unit.
`MaxOcc = 2` makes `check_space` both pass and refuse.

For VolumeOps, two threads and two bricks are enough for every case the
code handles:

- contention on the busy bit;
- a second operation meeting the unbalanced flag;
- removing the meta brick or the other brick;
- refusing to remove the last brick;
- a crash after any commit.

The runs are split by opcode so that each one stays within a few minutes.
`volops_ops` has no crash: none of its operations commits a brick set
between blocking points, and `volops_reconf` covers crashes.
The `plug` and `commit` faults reach every failure between the forced
commit and the balance.

For ExtentMigration, five pages in stripes of two give items that start
inside a stripe, a partial last stripe, and files of up to three stripes
with every distribution over two bricks. Nosplit chunks of two pages make
items both shorter and longer than the granularity. One truncate can land
in either unlocked window and cut below, inside or above the item being
worked on. The run has 217,872 states.

**Fairness.** No liveness is claimed for FSX32. Every operation is a
single call that either returns or fails, so the specification has no
fairness.

VolumeOps assumes weak fairness of each thread's steps. Every call a step
makes returns, and the busy bit is tried once with no wait. It also
assumes weak fairness of `TxnCommit`, because the transaction manager
commits atoms. Nothing obliges a thread to issue an ioctl.

ExtentMigration assumes weak fairness of the migrating thread only. Each
of its steps is a call that returns or fails. Truncate has no fairness,
and it is bounded by `MaxTruncates`.

## Not modelled yet, and the plan

1. **Volume operations**, done except for:
   - composing `VolumeOps` with `FSX32` through `INSTANCE`, so that the configurations are real tables;
   - the `SUBVOL_IS_ORPHAN` flag on a failed commit (`volume_ops.c:196`);
   - a liveness property that a BALANCE which keeps succeeding clears the unbalanced flag.
2. **Extent migration**, done except for:
   - a property that a call with every page already in place leaves the item layout alone. With a destination, the stripe scan of `what_to_do` still compares `calc_data_subvol` with `dst_id` (`:740`), so it splits such items;
   - runs that enable the `update_item_key`, tail-insert and `check_insert_atom_brick_info` failures of `MigrateBlocksLost`. `DataPreserved` fails under them as it does for the split insert. Those three at least return an error, while the split insert failure is not reported at all, so the violation run is given to the latter.
3. **Runs of `SpecWithShrink` and `SpecWithAllocFail`.** Shrinking a brick through `dec` with `removeme == NULL` dereferences NULL at `fsx32.c:397`. Past that line, the offset at which the victim's fiber is taken over is `old - new` (lines 418-422), whereas spec 4.5 takes the suffix beyond the new weight. The two `balance_spl` allocation failures return 0, and a failing `initv_fsx32` frees the caller's table (`:726`); its `create_fibers` also leaves the fibers it had attached unreleased. Each needs a violation run of its own.
4. **`dump_fsx32`:** a native-order `memcpy` with no caller here. Its `offset` counts entries and its `size` counts bytes.

5. **`check_space` overflow** (`fsx32.c:124`): the sum is a u64, and TLC's integers are 32 bits wide, so the overflow needs a model with a scaled word width.
6. **`spl_fsx32` up to `MAX_SHIFT`** (`:915`): it accepts `nums_bits + fact_bits == MAX_SHIFT`, which `initv_fsx32` refuses at the next mount (`:682`). `Remountable` states both limits, but the run that checks it (`fsx32_full_table`) has no split; a run with `FactBits` reaching `MaxShift` would show this.

Out of reach, or pure I/O:

- murmur3 hashing, which is abstracted into the hash space `0 .. 2^MaxShift - 1`;
- the debug printing;
- the tree and journal internals.
