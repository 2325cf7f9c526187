------------------------------ MODULE VolumeOps ------------------------------
(***************************************************************************)
(* The on-line volume operations of src/volume_ops.c: the ioctl entry      *)
(* reiser4_ioctl_volume, the dispatchers reiser4_volume_op_dir / _op_file  *)
(* with their test-and-set busy flag, and the operations they dispatch     *)
(* to: print, resize, add (proxy) brick, remove brick, scale, balance,     *)
(* migrate and the immobile flag.                                          *)
(*                                                                         *)
(* Each thread runs one ioctl at a time.  A step of a thread is the code   *)
(* between two points where it blocks on I/O (a forced commit, a balance   *)
(* run of the volume plugin), so other threads and a crash interleave      *)
(* there.  The volume plugin (vol_plug->add_brick, remove_brick, ...) and  *)
(* the transaction manager are not in this repository; what this module    *)
(* takes from them follows the design notes (spec 4.9, 5, 6, 7) and is      *)
(* marked as such.                                                         *)
(*                                                                         *)
(* A volume configuration is a record of the bricks of the volume, their   *)
(* capacities and the refinement level of the distribution table.  conf   *)
(* is the in-memory configuration, diskConf the committed one, and layout *)
(* the configuration the file data is currently distributed by: balance   *)
(* moves the data and makes layout = conf.                                 *)
(***************************************************************************)
EXTENDS Naturals, FiniteSets

CONSTANTS
  Threads,    \* threads issuing volume ioctls (model values)
  Bricks,     \* devices that can be bricks of the volume
  Meta,       \* the meta-data brick
  Caps,       \* data capacities a brick can be resized to
  MaxScale,   \* refinement levels of the table above the initial one
  Opcodes,    \* the opcodes the threads issue
  Faults,     \* the external calls that may fail in this model
  MaxCrash,   \* bound on crashes
  NoBrick,    \* NULL brick pointer
  Misdirected \* the opcodes that may be issued on the wrong file type

ASSUME Meta \in Bricks /\ Caps # {} /\ Caps \subseteq Nat \ {0}
ASSUME MaxScale \in Nat /\ MaxCrash \in Nat /\ Misdirected \subseteq Opcodes
ASSUME Faults \subseteq
         {"scan", "activate", "plug", "capture", "commit", "nospc",
          "sync", "eperm", "memdup"}

DirOps  == {"PRINT_VOLUME", "PRINT_BRICK", "RESIZE", "ADD", "ADD_PROXY",
            "REMOVE", "SCALE", "BALANCE"}
FileOps == {"MIGRATE", "SET_IMMOBILE", "CLR_IMMOBILE"}
ASSUME Opcodes \subseteq DirOps \cup FileOps

ASSUME NoBrick \notin Bricks

Configs == [bricks : SUBSET Bricks \ {{}}, cap : [Bricks -> Caps],
            bits : 0 .. MaxScale]

\* An ioctl: the opcode, whether it is issued on a directory (op_dir) or a
\* regular file (op_file), the brick it names and its numeric argument
\* (new_capacity for resize, 0 or 1 for the scale value).
\* Only the opcodes that read a field vary it; an opcode reaches the wrong
\* dispatcher only if it is Misdirected.
BrickOps == {"PRINT_BRICK", "RESIZE", "ADD", "ADD_PROXY", "REMOVE"}
ArgOps   == {"RESIZE", "SCALE"}
Requests ==
  {r \in [op : Opcodes, dir : BOOLEAN, brick : Bricks, arg : {0} \cup Caps] :
     /\ r.op \in Misdirected \/ r.dir = (r.op \in DirOps)
     /\ r.op \in BrickOps \/ r.brick = Meta
     /\ r.op \in ArgOps \/ r.arg = 0}

\* the arguments of a thread outside the ioctl (op_args freed)
NoRequest == [op |-> "NONE", dir |-> TRUE, brick |-> Meta, arg |-> 0]

\* program counters.  "op" is the dispatch point inside op_dir / op_file;
\* the others are the blocking points of the multi-step operations.
Holding == {"op", "add_commit", "add_balance", "rm_balance", "rm_tail",
            "bal_tail", "scale_balance", "unlock"}
PCs == {"idle", "ioctl", "lock", "exit"} \cup Holding

Results == {"none", "ok", "EBUSY", "EINVAL", "ENOSPC", "EIO", "ENOTTY",
            "EPERM", "EFAULT"}

VARIABLES
  pc, req, ret,   \* per thread: program counter, request, return value
  ctx,            \* per thread: holds a reiser4 context
  busy,           \* the volume busy flag
  unbal,          \* in-memory unbalanced flag
  proxyOn,        \* REISER4_PROXY_ENABLED
  active,         \* activated (registered) bricks
  victim,         \* vol->victim: brick whose removal is under way
  incomplete,     \* incomplete-removal flag found at mount
  immobile,       \* REISER4_FILE_IMMOBILE of the file the ioctls name
  conf, layout,   \* in memory: configuration, data distribution
  diskConf, diskUnbal, diskVictim, diskLayout,   \* their committed values
  crashes

memVars  == <<unbal, proxyOn, active, victim, incomplete, immobile, conf,
              layout>>
diskVars == <<diskConf, diskUnbal, diskVictim, diskLayout>>
vars == <<pc, req, ret, ctx, busy, memVars, diskVars, crashes>>

-----------------------------------------------------------------------------
(* The external collaborators                                              *)

\* the outcomes of a step that calls the external functions listed in
\* points: success, or the first of them that fails
Outcomes(points) == {"none"} \cup (points \cap Faults)

\* return r to op_dir / op_file, which clears the busy flag next
Finish(t, r) ==
  /\ pc' = [pc EXCEPT ![t] = "unlock"]
  /\ ret' = [ret EXCEPT ![t] = r]

\* force_commit_atom or a commit by the transaction manager: the volume
\* configuration c, the unbalanced status u, the removal marker v and the
\* data moved so far, distributed by l, reach disk.  Data moves are
\* journalled like the configuration, so disk holds the memory state of
\* some commit point.
Commit(c, u, v, l) ==
  /\ diskConf' = c
  /\ diskUnbal' = u
  /\ diskVictim' = v
  /\ diskLayout' = l

\* the configuration mkfs writes: the meta-data brick alone
MkfsConf == [bricks |-> {Meta}, cap |-> [b \in Bricks |-> CHOOSE c \in Caps : TRUE],
             bits |-> 0]

-----------------------------------------------------------------------------

Init ==
  /\ pc = [t \in Threads |-> "idle"]
  /\ req = [t \in Threads |-> NoRequest]
  /\ ret = [t \in Threads |-> "none"]
  /\ ctx = [t \in Threads |-> FALSE]
  /\ busy = FALSE
  /\ unbal = FALSE
  /\ proxyOn = FALSE
  /\ active = {Meta}
  /\ victim = NoBrick
  /\ incomplete = FALSE
  /\ immobile = FALSE
  /\ conf = MkfsConf
  /\ diskConf = MkfsConf
  /\ diskLayout = MkfsConf
  /\ diskUnbal = FALSE
  /\ diskVictim = NoBrick
  /\ layout = MkfsConf
  /\ crashes = 0

-----------------------------------------------------------------------------
(* reiser4_ioctl_volume and the dispatchers                                *)

\* reiser4_ioctl_volume: reiser4_init_context, then the REISER4_IOC_VOLUME
\* case receives the arguments
Call(t) ==
  /\ pc[t] = "idle"
  /\ \E r \in Requests : req' = [req EXCEPT ![t] = r]
  /\ pc' = [pc EXCEPT ![t] = "ioctl"]
  /\ ctx' = [ctx EXCEPT ![t] = TRUE]
  /\ ret' = [ret EXCEPT ![t] = "none"]
  /\ UNCHANGED <<busy, memVars, diskVars, crashes>>

\* capable(CAP_SYS_ADMIN) and memdup_user: both failures return at once,
\* without reiser4_exit_context
Ioctl(t) ==
  /\ pc[t] = "ioctl"
  /\ \E f \in Outcomes({"eperm", "memdup"}) :
       IF f = "none"
       THEN /\ pc' = [pc EXCEPT ![t] = "lock"]
            /\ UNCHANGED <<req, ret>>
       ELSE /\ pc' = [pc EXCEPT ![t] = "idle"]
            /\ req' = [req EXCEPT ![t] = NoRequest]
            /\ ret' = [ret EXCEPT ![t] = IF f = "eperm" THEN "EPERM" ELSE "EFAULT"]
  /\ UNCHANGED <<ctx, busy, memVars, diskVars, crashes>>

\* TestSetBusy whose test and set are not one atomic step
TestSetBusyNoCheck(t) ==
  /\ pc[t] = "lock"
  /\ pc' = [pc EXCEPT ![t] = "op"]
  /\ busy' = TRUE
  /\ UNCHANGED <<req, ret, ctx, memVars, diskVars, crashes>>

\* TestSetBusy that waits for the flag instead of failing with -EBUSY
TestSetBusyWait(t) ==
  /\ pc[t] = "lock"
  /\ ~busy
  /\ pc' = [pc EXCEPT ![t] = "op"]
  /\ busy' = TRUE
  /\ UNCHANGED <<req, ret, ctx, memVars, diskVars, crashes>>

\* reiser4_volume_test_set_busy in op_dir / op_file: take exclusive access
\* or fail with -EBUSY
TestSetBusy(t) ==
  /\ pc[t] = "lock"
  /\ IF busy
     THEN /\ pc' = [pc EXCEPT ![t] = "exit"]
          /\ ret' = [ret EXCEPT ![t] = "EBUSY"]
          /\ UNCHANGED busy
     ELSE /\ pc' = [pc EXCEPT ![t] = "op"]
          /\ busy' = TRUE
          /\ UNCHANGED ret
  /\ UNCHANGED <<req, ctx, memVars, diskVars, crashes>>

\* the default cases of the two switches: an opcode the file type does
\* not support
Unsupported(t) ==
  /\ pc[t] = "op"
  /\ req[t].op \notin (IF req[t].dir THEN DirOps ELSE FileOps)
  /\ Finish(t, "ENOTTY")
  /\ UNCHANGED <<req, ctx, busy, memVars, diskVars, crashes>>

\* reiser4_volume_clear_busy at the end of op_dir / op_file
ClearBusy(t) ==
  /\ pc[t] = "unlock"
  /\ pc' = [pc EXCEPT ![t] = "exit"]
  /\ busy' = FALSE
  /\ UNCHANGED <<req, ret, ctx, memVars, diskVars, crashes>>

\* reiser4_exit_context at the end of reiser4_ioctl_volume; it closes the
\* transaction handle, whose atom the transaction manager commits later;
\* the return value goes to user space
ExitContext(t) ==
  /\ pc[t] = "exit"
  /\ pc' = [pc EXCEPT ![t] = "idle"]
  /\ ctx' = [ctx EXCEPT ![t] = FALSE]
  /\ req' = [req EXCEPT ![t] = NoRequest]
  /\ ret' = [ret EXCEPT ![t] = "none"]
  /\ UNCHANGED <<busy, memVars, diskVars, crashes>>

-----------------------------------------------------------------------------
(* The operations of reiser4_volume_op_dir                                 *)

\* thread t is at the switch of op_dir (dir) or op_file (~dir) with opcode o
Dispatched(t, o, dir) ==
  /\ pc[t] = "op"
  /\ req[t].op = o
  /\ req[t].dir = dir

AddTo(c, b) == [c EXCEPT !.bricks = @ \cup {b}]
RemoveFrom(c, b) == [c EXCEPT !.bricks = @ \ {b}]
Resized(c, b, cap) == [c EXCEPT !.cap[b] = cap]
Scaled(c) == [c EXCEPT !.bits = @ + 1]

\* reiser4_print_volume
PrintVolume(t) ==
  /\ Dispatched(t, "PRINT_VOLUME", TRUE)
  /\ Finish(t, "ok")
  /\ UNCHANGED <<req, ctx, busy, memVars, diskVars, crashes>>

\* reiser4_print_brick: refused on an unbalanced volume
PrintBrick(t) ==
  /\ Dispatched(t, "PRINT_BRICK", TRUE)
  /\ Finish(t, IF unbal THEN "EBUSY" ELSE "ok")
  /\ UNCHANGED <<req, ctx, busy, memVars, diskVars, crashes>>

\* reiser4_resize_brick.  The plugin's resize_brick re-weights the bucket
\* and moves the data itself (spec 4.4, 4.5 with a NULL bucket); then the
\* unbalanced flag is cleared and the meta super-block captured.
ResizeBrick(t) ==
  LET b == req[t].brick
      a == req[t].arg
  IN
  /\ Dispatched(t, "RESIZE", TRUE)
  /\ CASE unbal               -> Finish(t, "EBUSY") /\ UNCHANGED <<memVars, diskVars>>
       [] a = 0               -> Finish(t, "EINVAL") /\ UNCHANGED <<memVars, diskVars>>
       [] b \notin conf.bricks -> Finish(t, "EINVAL") /\ UNCHANGED <<memVars, diskVars>>
       [] a = conf.cap[b]     -> Finish(t, "ok") /\ UNCHANGED <<memVars, diskVars>>
       [] OTHER ->
            \E f \in Outcomes({"plug", "capture"}) :
              IF f = "plug"
              THEN Finish(t, "EIO") /\ UNCHANGED <<memVars, diskVars>>
              ELSE /\ conf' = Resized(conf, b, a)
                   /\ layout' = conf'
                   /\ unbal' = FALSE
                   /\ Commit(Resized(conf, b, a), FALSE, victim, Resized(conf, b, a))
                   /\ Finish(t, IF f = "capture" THEN "EIO" ELSE "ok")
                   /\ UNCHANGED <<proxyOn, active, victim, incomplete, immobile>>
  /\ UNCHANGED <<req, ctx, busy, crashes>>

\* reiser4_add_brick up to the forced commit: scan the device, activate it
\* unless it is active, hand it to vol_plug->add_brick (which posts the
\* new configuration and marks the volume unbalanced; on failure a brick
\* activated here is deactivated again) and capture the super-blocks.  A
\* proxy brick is done here.
AddBrick(t) ==
  LET b     == req[t].brick
      here  == b \notin active
      proxy == req[t].op = "ADD_PROXY"
  IN
  /\ \/ Dispatched(t, "ADD", TRUE)
     \/ Dispatched(t, "ADD_PROXY", TRUE)
  /\ IF unbal
     THEN Finish(t, "EBUSY") /\ UNCHANGED memVars
     ELSE
       \E f \in Outcomes({"scan", "plug", "capture"} \cup
                         (IF here THEN {"activate"} ELSE {})) :
         CASE f \in {"scan", "activate"} ->
                Finish(t, "EIO") /\ UNCHANGED memVars
           [] f = "plug" \/ b \in conf.bricks ->
                Finish(t, IF f = "plug" THEN "EIO" ELSE "EINVAL")
                /\ UNCHANGED memVars
           [] OTHER ->
                /\ active' = active \cup {b}
                /\ conf' = AddTo(conf, b)
                /\ unbal' = TRUE
                /\ CASE f = "capture" ->
                          Finish(t, "EIO") /\ UNCHANGED proxyOn
                     [] proxy ->
                          Finish(t, "ok") /\ proxyOn' = TRUE
                     [] OTHER ->
                          /\ pc' = [pc EXCEPT ![t] = "add_commit"]
                          /\ UNCHANGED <<ret, proxyOn>>
                /\ UNCHANGED <<victim, incomplete, immobile, layout>>
  /\ UNCHANGED <<req, ctx, busy, diskVars, crashes>>

\* reiser4_add_brick: force_commit_atom writes the new configuration and
\* the unbalanced status, then the volinfo nodes are released
AddBrickCommit(t) ==
  /\ pc[t] = "add_commit"
  /\ \E f \in Outcomes({"commit"}) :
       IF f = "commit"
       THEN Finish(t, "EIO") /\ UNCHANGED diskVars
       ELSE /\ Commit(conf, unbal, victim, layout)
            /\ pc' = [pc EXCEPT ![t] = "add_balance"]
            /\ UNCHANGED ret
  /\ UNCHANGED <<req, ctx, busy, memVars, crashes>>

\* AddBrickBalance that clears the unbalanced flag whatever balance_volume
\* returned
AddBrickBalanceClearOnError(t) ==
  /\ pc[t] = "add_balance"
  /\ \E f \in Outcomes({"plug", "capture"}) :
       /\ layout' = IF f = "plug" THEN layout ELSE conf
       /\ unbal' = FALSE
       /\ Finish(t, IF f = "none" THEN "ok" ELSE "EIO")
  /\ UNCHANGED <<req, ctx, busy, proxyOn, active, victim, incomplete,
                 immobile, conf, diskVars, crashes>>

\* reiser4_add_brick: vol_plug->balance_volume moves the data, then the
\* unbalanced flag is cleared and the meta super-block captured
AddBrickBalance(t) ==
  /\ pc[t] = "add_balance"
  /\ \E f \in Outcomes({"plug", "capture"}) :
       IF f = "plug"
       THEN Finish(t, "EIO") /\ UNCHANGED <<layout, unbal>>
       ELSE /\ layout' = conf
            /\ unbal' = FALSE
            /\ Finish(t, IF f = "capture" THEN "EIO" ELSE "ok")
  /\ UNCHANGED <<req, ctx, busy, proxyOn, active, victim, incomplete,
                 immobile, conf, diskVars, crashes>>

\* reiser4_remove_brick with the first part of vol_plug->remove_brick
\* (spec 4.5, 6): check_space and dec_fsx32 on the new configuration, which
\* is posted without the victim, marked unbalanced, recorded in vol->victim
\* and committed, the incomplete-removal marker included.
RemoveBrick(t) ==
  LET b == req[t].brick
  IN
  /\ Dispatched(t, "REMOVE", TRUE)
  /\ CASE unbal                -> Finish(t, "EBUSY") /\ UNCHANGED <<memVars, diskVars>>
       [] b \notin conf.bricks  -> Finish(t, "EINVAL") /\ UNCHANGED <<memVars, diskVars>>
       [] conf.bricks = {b}     -> Finish(t, "EINVAL") /\ UNCHANGED <<memVars, diskVars>>
       [] OTHER ->
            \E f \in Outcomes({"nospc", "plug"}) :
              IF f # "none"
              THEN /\ Finish(t, IF f = "nospc" THEN "ENOSPC" ELSE "EIO")
                   /\ UNCHANGED <<memVars, diskVars>>
              ELSE /\ conf' = RemoveFrom(conf, b)
                   /\ unbal' = TRUE
                   /\ victim' = b
                   /\ Commit(RemoveFrom(conf, b), TRUE, b, layout)
                   /\ pc' = [pc EXCEPT ![t] = "rm_balance"]
                   /\ UNCHANGED <<ret, proxyOn, active, incomplete, immobile, layout>>
  /\ UNCHANGED <<req, ctx, busy, crashes>>

\* RemoveBrickBalance whose failure is not returned before the victim is
\* detached
RemoveBrickBalanceDetachOnError(t) ==
  /\ pc[t] = "rm_balance"
  /\ \E f \in Outcomes({"plug"}) :
       IF f = "plug"
       THEN /\ Finish(t, "EIO")
            /\ incomplete' = TRUE
            /\ active' = IF victim # Meta THEN active \ {victim} ELSE active
            /\ UNCHANGED layout
       ELSE /\ layout' = conf
            /\ pc' = [pc EXCEPT ![t] = "rm_tail"]
            /\ UNCHANGED <<ret, incomplete, active>>
  /\ UNCHANGED <<req, ctx, busy, unbal, proxyOn, victim,
                 immobile, conf, diskVars, crashes>>

\* vol_plug->remove_brick: move the data off the victim.  A failure leaves
\* the removal pending (spec 7: the incomplete-removal marker and the victim
\* stay recorded) for reiser4_balance_volume to finish.
RemoveBrickBalance(t) ==
  /\ pc[t] = "rm_balance"
  /\ \E f \in Outcomes({"plug"}) :
       IF f = "plug"
       THEN Finish(t, "EIO") /\ incomplete' = TRUE /\ UNCHANGED layout
       ELSE /\ layout' = conf
            /\ pc' = [pc EXCEPT ![t] = "rm_tail"]
            /\ UNCHANGED <<ret, incomplete>>
  /\ UNCHANGED <<req, ctx, busy, unbal, proxyOn, active, victim,
                 immobile, conf, diskVars, crashes>>

\* the end of vol_plug->remove_brick (remove_brick_tail commits everything,
\* the unbalanced status included, after which the plugin forgets the
\* victim, as reiser4_balance_volume does itself after its own call of
\* remove_brick_tail), then
\* reiser4_remove_brick: clear the unbalanced flag, detach a victim that is
\* not the meta-data brick, capture the meta super-block
RemoveBrickTail(t) ==
  /\ pc[t] = "rm_tail"
  /\ \E f \in Outcomes({"plug", "capture"}) :
       IF f = "plug"
       THEN /\ Finish(t, "EIO")
            /\ incomplete' = TRUE
            /\ UNCHANGED <<unbal, proxyOn, active, victim, immobile, conf,
                           layout, diskVars>>
       ELSE /\ Commit(conf, unbal, NoBrick, layout)
            /\ victim' = NoBrick
            /\ unbal' = FALSE
            /\ active' = IF victim # Meta THEN active \ {victim} ELSE active
            /\ Finish(t, IF f = "capture" THEN "EIO" ELSE "ok")
            /\ UNCHANGED <<proxyOn, incomplete, immobile, conf, layout>>
  /\ UNCHANGED <<req, ctx, busy, crashes>>

\* ScaleVolume whose MAX_SHIFT check is off by one
ScaleVolumeNoLimit(t) ==
  /\ Dispatched(t, "SCALE", TRUE)
  /\ ~unbal /\ req[t].arg # 0 /\ conf.bits <= MaxScale
  /\ conf' = Scaled(conf)
  /\ unbal' = TRUE
  /\ Commit(Scaled(conf), TRUE, victim, layout)
  /\ pc' = [pc EXCEPT ![t] = "scale_balance"]
  /\ UNCHANGED <<req, ret, ctx, busy, proxyOn, active, victim, incomplete,
                 immobile, layout, crashes>>

\* ScaleVolume that commits the refined configuration before the volume
\* is marked unbalanced
ScaleVolumeCommitFirst(t) ==
  /\ Dispatched(t, "SCALE", TRUE)
  /\ ~unbal /\ req[t].arg # 0 /\ conf.bits < MaxScale
  /\ conf' = Scaled(conf)
  /\ unbal' = TRUE
  /\ Commit(Scaled(conf), unbal, victim, layout)
  /\ pc' = [pc EXCEPT ![t] = "scale_balance"]
  /\ UNCHANGED <<req, ret, ctx, busy, proxyOn, active, victim, incomplete,
                 immobile, layout, crashes>>

\* reiser4_scale_volume up to the balance: vol_plug->scale_volume
\* (spl_fsx32, -EINVAL past MAX_SHIFT) posts the refined configuration and
\* marks the volume unbalanced; capture, force_commit_atom, release the
\* volinfo nodes
ScaleVolume(t) ==
  /\ Dispatched(t, "SCALE", TRUE)
  /\ CASE unbal            -> Finish(t, "EBUSY") /\ UNCHANGED <<memVars, diskVars>>
       [] req[t].arg = 0   -> Finish(t, "ok") /\ UNCHANGED <<memVars, diskVars>>
       [] conf.bits = MaxScale -> Finish(t, "EINVAL") /\ UNCHANGED <<memVars, diskVars>>
       [] OTHER ->
            \E f \in Outcomes({"plug", "capture", "commit"}) :
              CASE f = "plug" ->
                     Finish(t, "EIO") /\ UNCHANGED <<memVars, diskVars>>
                [] f \in {"capture", "commit"} ->
                     /\ conf' = Scaled(conf)
                     /\ unbal' = TRUE
                     /\ Finish(t, "EIO")
                     /\ UNCHANGED <<proxyOn, active, victim, incomplete, immobile, layout,
                                    diskVars>>
                [] OTHER ->
                     /\ conf' = Scaled(conf)
                     /\ unbal' = TRUE
                     /\ Commit(Scaled(conf), TRUE, victim, layout)
                     /\ pc' = [pc EXCEPT ![t] = "scale_balance"]
                     /\ UNCHANGED <<ret, proxyOn, active, victim, incomplete, immobile, layout>>
  /\ UNCHANGED <<req, ctx, busy, crashes>>

\* reiser4_scale_volume: vol_plug->balance_volume, clear the unbalanced
\* flag, capture the meta super-block
ScaleVolumeBalance(t) ==
  /\ pc[t] = "scale_balance"
  /\ \E f \in Outcomes({"plug", "capture"}) :
       IF f = "plug"
       THEN Finish(t, "EIO") /\ UNCHANGED <<layout, unbal>>
       ELSE /\ layout' = conf
            /\ unbal' = FALSE
            /\ Finish(t, IF f = "capture" THEN "EIO" ELSE "ok")
  /\ UNCHANGED <<req, ctx, busy, proxyOn, active, victim, incomplete,
                 immobile, conf, diskVars, crashes>>

\* reiser4_balance_volume: nothing to do on a balanced volume without a
\* proxy; otherwise vol_plug->balance_volume moves the data
BalanceVolume(t) ==
  /\ Dispatched(t, "BALANCE", TRUE)
  /\ IF ~unbal /\ ~proxyOn
     THEN Finish(t, "ok") /\ UNCHANGED layout
     ELSE \E f \in Outcomes({"plug"}) :
            IF f = "plug"
            THEN Finish(t, "EIO") /\ UNCHANGED layout
            ELSE /\ layout' = conf
                 /\ pc' = [pc EXCEPT ![t] = "bal_tail"]
                 /\ UNCHANGED ret
  /\ UNCHANGED <<req, ctx, busy, unbal, proxyOn, active, victim, incomplete,
                 immobile, conf, diskVars, crashes>>

\* BalanceVolumeTail that finishes the removal without clearing the
\* incomplete-removal flag
BalanceVolumeTailKeepIncomplete(t) ==
  /\ pc[t] = "bal_tail"
  /\ unbal' = FALSE
  /\ Finish(t, "ok")
  /\ IF incomplete
     THEN /\ Commit(conf, unbal, NoBrick, layout)
          /\ active' = IF victim # Meta THEN active \ {victim} ELSE active
          /\ victim' = NoBrick
          /\ UNCHANGED <<proxyOn, incomplete, immobile, conf, layout>>
     ELSE UNCHANGED <<proxyOn, active, victim, incomplete, immobile, conf,
                      layout, diskVars>>
  /\ UNCHANGED <<req, ctx, busy, crashes>>

\* reiser4_balance_volume after the balance: finish a removal found
\* incomplete at mount (remove_brick_tail, clear the flags, capture, detach
\* the victim unless it is the meta-data brick, forget it), or clear the
\* unbalanced flag and capture
BalanceVolumeTail(t) ==
  /\ pc[t] = "bal_tail"
  /\ IF incomplete
     THEN \E f \in Outcomes({"plug", "capture"}) :
            CASE f = "plug" ->
                   Finish(t, "EIO") /\ UNCHANGED <<memVars, diskVars>>
              [] f = "capture" ->
                   /\ Commit(conf, unbal, NoBrick, layout)
                   /\ incomplete' = FALSE
                   /\ unbal' = FALSE
                   /\ Finish(t, "EIO")
                   /\ UNCHANGED <<proxyOn, active, victim, immobile, conf, layout>>
              [] OTHER ->
                   /\ Commit(conf, unbal, NoBrick, layout)
                   /\ incomplete' = FALSE
                   /\ unbal' = FALSE
                   /\ active' = IF victim # Meta THEN active \ {victim} ELSE active
                   /\ victim' = NoBrick
                   /\ Finish(t, "ok")
                   /\ UNCHANGED <<proxyOn, immobile, conf, layout>>
     ELSE \E f \in Outcomes({"capture"}) :
            /\ unbal' = FALSE
            /\ Finish(t, IF f = "capture" THEN "EIO" ELSE "ok")
            /\ UNCHANGED <<proxyOn, active, victim, incomplete, immobile, conf,
                           layout, diskVars>>
  /\ UNCHANGED <<req, ctx, busy, crashes>>

-----------------------------------------------------------------------------
(* The operations of reiser4_volume_op_file                                *)

\* reiser4_migrate_file: refused on an unbalanced volume, otherwise
\* vol_plug->migrate_file (ExtentMigration) and, for an O_SYNC file,
\* reiser4_sync_file_common, whose error is returned as well
MigrateFile(t) ==
  /\ Dispatched(t, "MIGRATE", FALSE)
  /\ \E f \in Outcomes({"plug", "sync"}) :
       Finish(t, CASE unbal -> "EBUSY" [] f = "none" -> "ok" [] OTHER -> "EIO")
  /\ UNCHANGED <<req, ctx, busy, memVars, diskVars, crashes>>

\* reiser4_set_file_immobile / reiser4_clr_file_immobile: nothing to do if
\* the flag is as asked, -ENOSPC if the stat-data update cannot be
\* reserved, otherwise flip the flag and update the stat data
FileImmobile(t, o, v) ==
  /\ Dispatched(t, o, FALSE)
  /\ \E f \in Outcomes({"nospc"}) :
       CASE immobile = v -> Finish(t, "ok") /\ UNCHANGED immobile
         [] f = "nospc"  -> Finish(t, "ENOSPC") /\ UNCHANGED immobile
         [] OTHER        -> Finish(t, "ok") /\ immobile' = v
  /\ UNCHANGED <<req, ctx, busy, unbal, proxyOn, active, victim, incomplete,
                 conf, layout, diskVars, crashes>>

-----------------------------------------------------------------------------
(* The environment                                                         *)

\* the transaction manager commits the running atom
TxnCommit ==
  /\ <<diskConf, diskUnbal, diskVictim>> # <<conf, unbal, victim>>
  /\ Commit(conf, unbal, victim, layout)
  /\ UNCHANGED <<pc, req, ret, ctx, busy, memVars, crashes>>

\* a crash and the next mount: memory is rebuilt from disk, an
\* incomplete-removal marker sets the incomplete flag and keeps the
\* victim active (spec 6)
Crash ==
  /\ crashes < MaxCrash
  /\ crashes' = crashes + 1
  /\ pc' = [t \in Threads |-> "idle"]
  /\ ret' = [t \in Threads |-> "none"]
  /\ ctx' = [t \in Threads |-> FALSE]
  /\ busy' = FALSE
  /\ conf' = diskConf
  /\ unbal' = diskUnbal
  /\ victim' = diskVictim
  /\ incomplete' = (diskVictim # NoBrick)
  /\ layout' = diskLayout
  /\ active' = diskConf.bricks \cup {Meta} \cup ({diskVictim} \ {NoBrick})
  /\ proxyOn' = FALSE
  /\ req' = [t \in Threads |-> NoRequest]
  /\ UNCHANGED <<immobile, diskVars>>

Step(t) ==
  \/ Ioctl(t) \/ TestSetBusy(t) \/ Unsupported(t) \/ ClearBusy(t)
  \/ ExitContext(t)
  \/ PrintVolume(t) \/ PrintBrick(t) \/ ResizeBrick(t)
  \/ AddBrick(t) \/ AddBrickCommit(t) \/ AddBrickBalance(t)
  \/ RemoveBrick(t) \/ RemoveBrickBalance(t) \/ RemoveBrickTail(t)
  \/ ScaleVolume(t) \/ ScaleVolumeBalance(t)
  \/ BalanceVolume(t) \/ BalanceVolumeTail(t)
  \/ MigrateFile(t)
  \/ FileImmobile(t, "SET_IMMOBILE", TRUE)
  \/ FileImmobile(t, "CLR_IMMOBILE", FALSE)

Next ==
  \/ \E t \in Threads : Call(t) \/ Step(t)
  \/ TxnCommit
  \/ Crash

\* Each thread runs its ioctl to the end (the blocking calls return), and
\* the transaction manager commits atoms; nobody is obliged to issue an
\* ioctl.
Fairness == (\A t \in Threads : WF_vars(Step(t))) /\ WF_vars(TxnCommit)

Spec == Init /\ [][Next]_vars /\ Fairness

-----------------------------------------------------------------------------
(* Properties                                                              *)

TypeOK ==
  /\ pc \in [Threads -> PCs]
  /\ req \in [Threads -> Requests \cup {NoRequest}]
  /\ ret \in [Threads -> Results]
  /\ ctx \in [Threads -> BOOLEAN]
  /\ busy \in BOOLEAN /\ unbal \in BOOLEAN /\ proxyOn \in BOOLEAN
  /\ active \in SUBSET Bricks
  /\ victim \in Bricks \cup {NoBrick} /\ diskVictim \in Bricks \cup {NoBrick}
  /\ incomplete \in BOOLEAN /\ immobile \in BOOLEAN
  /\ {conf, layout, diskConf, diskLayout} \subseteq Configs
  /\ diskUnbal \in BOOLEAN
  /\ crashes \in 0 .. MaxCrash

\* Exclusive access (spec 5): the busy flag is set exactly while one
\* thread is between test_set_busy and clear_busy of op_dir / op_file, and
\* no two threads are ever there together, whatever path the operation
\* returns by.
ExclusiveAccess ==
  /\ busy = (\E t \in Threads : pc[t] \in Holding)
  /\ \A t, u \in Threads : pc[t] \in Holding /\ pc[u] \in Holding => t = u

\* Crash safety of the reconfigurations (spec 6, 7): whenever the
\* configuration on disk is not the one the data is distributed by, the
\* unbalanced status on disk says so, so that a crash at any point leaves
\* a volume whose next mount refuses reconfiguration and lets
\* BALANCE_VOLUME resume.
Recoverable == diskConf # diskLayout => diskUnbal

\* A partial failure leaves the volume marked unbalanced so that a later
\* BALANCE_VOLUME resumes (spec 7): while the data is not distributed by
\* the current configuration, or a brick removal is unfinished, the
\* in-memory unbalanced flag is set, which every reconfiguration checks.
Resumable == (conf # layout \/ victim # NoBrick) => unbal

\* The assertions of reiser4_balance_volume hold where it checks them:
\* after the plugin's balance, a volume with an incomplete removal has a
\* victim (edward-2259) and a volume without one has none (edward-2374).
\* Broken if a removal that failed, or a finished one, leaves vol->victim
\* out of step with the incomplete-removal flag.
BalanceAssertions ==
  \A t \in Threads : pc[t] = "bal_tail" => (incomplete <=> victim # NoBrick)

\* reiser4_ioctl_volume releases the reiser4 context it entered on every
\* path: a thread back in user space holds no context.
ContextReleased == \A t \in Threads : pc[t] = "idle" => ~ctx[t]

\* Every brick the file data is distributed over is an active brick, so
\* that lookups never reach a deactivated device: reiser4_remove_brick
\* detaches the victim only after vol_plug->remove_brick has moved the data
\* off it and returned 0, reiser4_balance_volume only after a resumed
\* removal is finished, and the next mount after a crash activates the
\* victim recorded on disk along with the committed bricks.
DataBricksActive == layout.bricks \subseteq active

\* Every volume ioctl returns: a thread that entered reiser4_ioctl_volume
\* gets back to user space (test_set_busy fails instead of waiting, and
\* every blocking call returns).
Termination == \A t \in Threads : pc[t] # "idle" ~> pc[t] = "idle"

====
