------------------------------- MODULE FSX32 -------------------------------
(***************************************************************************)
(* The FSX32 distribution context of src/plugin/dst/fsx32.c: the system    *)
(* table tab (slot -> brick id), the weight vector dcx->weights, dcx->numb *)
(* and dcx->nums_bits, the per-bucket fibers, and the reconfiguration      *)
(* operators inc_fsx32 (add a bucket), dec_fsx32 (remove a bucket) and     *)
(* spl_fsx32 (refine the table by 2^fact_bits).                            *)
(*                                                                         *)
(* The bucket vector (current_buckets()) is a sequence of brick ids; the   *)
(* C position i of a bucket is TLA+ position i+1, so idx2id(i) = vec[i+1]. *)
(* The table is a function 0..nums-1 -> brick id.  A fiber is never stored:*)
(* init_fibers_by_tab fills it with the slots of the brick in ascending    *)
(* order, and no table that a fiber was built from is written before the   *)
(* fibers are released, so Fiber(tab, b) is what the code reads.           *)
(*                                                                         *)
(* A reconfiguration works on a clone of the published table and the       *)
(* volume layer publishes it with replace_fsx32 (spec 4.4-4.6); an action  *)
(* here is the whole operator followed by that hand-off.  Where the code   *)
(* computes an excess or a shortage that wraps around in u32 and then      *)
(* loops up to it, it reads past a fiber or the relocation vector: the     *)
(* outcome is undefined and the model records it in ub and stops.         *)
(***************************************************************************)
EXTENDS Integers, Sequences, SequencesExt, FiniteSets, Calibrate

CONSTANTS
  Bricks,        \* brick ids (model values)
  Meta,          \* the meta-data brick: the only bucket of a fresh volume
  Cap,           \* Cap[b]: data capacity of brick b (ops->cap_at)
  InitNumsBits,  \* nums_bits the volume is created with (MIN_NUMS_BITS = 10)
  MaxShift,      \* MAX_SHIFT (31 in the code): bound on nums_bits
  MaxOcc,        \* bound on ops->space_occupied()
  CapValues,     \* capacities a RESIZE_BRICK may ask for
  FactBits,      \* fact_bits a SCALE_VOLUME may ask spl_fsx32 for
  Id,            \* Id[b]: the subvolume id of brick b, as the table stores it
  PackEntries    \* entries the volume packs into one block of the on-disk table

ASSUME Meta \in Bricks
ASSUME Bricks \subseteq DOMAIN Cap /\ \A b \in Bricks : Cap[b] \in Nat \ {0}
ASSUME InitNumsBits \in Nat /\ MaxShift \in Nat /\ InitNumsBits <= MaxShift
ASSUME MaxOcc \in Nat
ASSUME CapValues \subseteq Nat \ {0}
ASSUME FactBits \subseteq 1 .. MaxShift
\* ids are u32; TLC's integers stop at 2^31 - 1
ASSUME /\ \A b \in Bricks : Id[b] \in 0 .. 2147483647
       /\ \A a, b \in Bricks : Id[a] = Id[b] => a = b
ASSUME PackEntries \in Nat \ {0}

VARIABLES
  vec,       \* the bucket vector: sequence of brick ids
  tab,       \* the published system table: 0..2^numsBits-1 -> brick id
  numsBits,  \* dcx->nums_bits
  numb,      \* dcx->numb
  weights,   \* dcx->weights; <<>> when freed (NULL)
  fibers,    \* TRUE when the buckets carry fibers (create_fibers done,
             \* release_fibers not yet)
  occ,       \* ops->space_occupied(): blocks in use on the volume
  cap,       \* data capacity of every brick (ops->cap_at), Cap at mkfs
  ub         \* an out-of-bounds access happened (undefined behaviour)

vars == <<vec, tab, numsBits, numb, weights, fibers, occ, cap, ub>>

-----------------------------------------------------------------------------
(* Helpers                                                                 *)

Nums(bits) == 2 ^ bits

Slots(bits) == 0 .. Nums(bits) - 1

\* cap_at over a bucket vector
Caps(v) == [i \in DOMAIN v |-> cap[v[i]]]

\* the number of slots of table t that name brick b
Count(t, b) == Cardinality({s \in DOMAIN t : t[s] = b})

\* init_fibers_by_tab: the slots of t naming b, in ascending slot order
Fiber(t, b) ==
  SelectSeq([k \in 1 .. Cardinality(DOMAIN t) |-> k - 1], LAMBDA s : t[s] = b)

\* the slots at fiber positions from .. from+len-1 (C indices), a tail piece
Piece(f, from, len) == Range(SubSeq(f, from + 1, from + len))

\* sum of the first n entries of a vector of counts
PrefixSum(c, n) == VecSum(SubSeq(c, 1, n))

\* The walk of balance_dec / balance_spl: the source slots src are handed
\* out in order, c[1] of them to recipient 1, then c[2] to recipient 2, ...
\* Recipient of the k-th handed-out slot:
DealOwner(c, k) == CHOOSE i \in DOMAIN c : PrefixSum(c, i - 1) < k /\ k <= PrefixSum(c, i)

\* tab[src[off++]] = ids[i]: table t after dealing src over the recipients
Deal(t, src, c, ids) ==
  LET n == PrefixSum(c, Len(c))
  IN  [s \in DOMAIN t |->
         IF \E k \in 1..n : src[k] = s
         THEN ids[DealOwner(c, CHOOSE k \in 1..n : src[k] = s)]
         ELSE t[s]]

-----------------------------------------------------------------------------
(* The on-disk table (spec 4.7): a little-endian u32 stream of subvolume   *)
(* ids, written block by block with pack_fsx32 and read back at mount with *)
(* unpack_fsx32 into the zeroed table initr_fsx32 allocates.               *)

\* put_unaligned(cpu_to_le32(x)): the four bytes of x, least significant first
Le32Bytes(x) == [k \in 1 .. 4 |-> (x \div 2 ^ (8 * (k - 1))) % 256]

\* le32_to_cpu(get_unaligned(from)): the u32 whose bytes these are
Le32Value(bytes) == bytes[1] + 2^8 * bytes[2] + 2^16 * bytes[3] + 2^24 * bytes[4]

\* pack_fsx32 that never advances src: every entry written is the first
PackNoAdvance(t, srcOff, count) ==
  [k \in 1 .. 4 * count |-> Le32Bytes(Id[t[srcOff]])[((k - 1) % 4) + 1]]

\* pack_fsx32(dcx, to, srcOff, count): the bytes of count entries from srcOff
Pack(t, srcOff, count) ==
  [k \in 1 .. 4 * count |->
     Le32Bytes(Id[t[srcOff + (k - 1) \div 4]])[((k - 1) % 4) + 1]]

\* unpack_fsx32(dcx, t, from, dstOff, count): entries dstOff .. dstOff+count-1
\* of t decoded from the bytes, the others left alone
Unpack(t, from, dstOff, count) ==
  [s \in DOMAIN t |->
     IF dstOff <= s /\ s < dstOff + count
     THEN Le32Value(SubSeq(from, 4 * (s - dstOff) + 1, 4 * (s - dstOff) + 4))
     ELSE t[s]]

\* the brick a stored id names; an id no brick has is kept as the number
IdToBrick(n) == IF \E b \in Bricks : Id[b] = n THEN CHOOSE b \in Bricks : Id[b] = n ELSE n

\* the table after it was written in blocks of PackEntries entries and read
\* back block by block into a zeroed table (fsx32_alloc zeroes)
Reloaded(t) ==
  LET n    == Cardinality(DOMAIN t)
      zero == [s \in DOMAIN t |-> 0]
      Blk(s) == (s \div PackEntries) * PackEntries
      Cnt(s) == IF n - Blk(s) < PackEntries THEN n - Blk(s) ELSE PackEntries
  IN  [s \in DOMAIN t |->
         IdToBrick(Unpack(zero, Pack(t, Blk(s), Cnt(s)), Blk(s), Cnt(s))[s])]

-----------------------------------------------------------------------------
(* The volume as it is after mkfs and mount: one bucket, initv_fsx32 with  *)
(* *tab == NULL filled the table with idx2id(0) and created the fibers.    *)

Init ==
  /\ vec = <<Meta>>
  /\ numsBits = InitNumsBits
  /\ tab = [s \in Slots(InitNumsBits) |-> Meta]
  /\ numb = 1
  /\ weights = <<Nums(InitNumsBits)>>
  /\ fibers = TRUE
  /\ occ = 0
  /\ cap = Cap
  /\ ub = FALSE

\* donev_fsx32: free the weight vector.
DoneV ==
  /\ ~ub
  /\ weights # <<>>
  /\ weights' = <<>>
  /\ UNCHANGED <<vec, tab, numsBits, numb, fibers, occ, cap, ub>>

\* Mount: the table is read back from disk (Reloaded) and initv_fsx32 runs
\* on it and the current vector: calibrate the weights, allocate each fiber with its calibrated width and fill it from
\* the table.  init_fibers_by_tab recounts the weight vector it is given,
\* so dcx->weights ends up holding the table's counts; a brick named by
\* more slots than its width overruns its fiber.  nums_bits >= MAX_SHIFT and
\* numb >= nums are -EINVAL: the volume does not mount.
InitV ==
  LET w == Calibrate(Nums(numsBits), Caps(vec))
  IN
  /\ ~ub
  /\ weights = <<>>
  /\ numsBits < MaxShift
  /\ Len(vec) < Nums(numsBits)
  /\ tab' = Reloaded(tab)
  /\ numb' = Len(vec)
  /\ weights' = [i \in DOMAIN vec |-> Count(tab', vec[i])]
  /\ fibers' = TRUE
  /\ ub' = \E i \in DOMAIN vec : Count(tab', vec[i]) > w[i]
  /\ UNCHANGED <<vec, numsBits, occ, cap>>

\* The file layer writes or frees data (ops->space_occupied() changes).
Usage ==
  /\ ~ub
  /\ \E o \in 0 .. MaxOcc : o # occ /\ occ' = o
  /\ UNCHANGED <<vec, tab, numsBits, numb, weights, fibers, cap, ub>>

-----------------------------------------------------------------------------
(* inc_fsx32(dcx, tab, target_pos, new) with new != NULL, new inserted at  *)
(* C position p-1 of the vector, then balance_inc, release_fibers, the     *)
(* swap of weights and numb, and replace_fsx32.  new_numb > nums is        *)
(* -EINVAL and leaves everything unchanged.                                *)

\* exc[i] of balance_inc as an integer; the code stores it in a u32
IncExcess(old, nw, p) ==
  [i \in DOMAIN nw |->
     IF i < p THEN old[i] - nw[i]
     ELSE IF i = p THEN 0
     ELSE old[i - 1] - nw[i]]

IncStolen(t, v, nw, exc, p) ==
  UNION {Piece(Fiber(t, v[i]), nw[i], exc[i]) : i \in (DOMAIN v) \ {p}}

Inc(new, p) ==
  LET newVec == InsertAt(vec, p, new)
      nw     == Calibrate(Nums(numsBits), Caps(newVec))
      exc    == IncExcess(weights, nw, p)
  IN
  /\ ~ub
  /\ fibers /\ weights # <<>>
  /\ numb + 1 <= Nums(numsBits)
  /\ IF \E i \in DOMAIN exc : exc[i] < 0
     THEN /\ ub' = TRUE
          /\ UNCHANGED <<vec, tab, numb, weights, fibers>>
     ELSE /\ tab' = [s \in DOMAIN tab |->
                       IF s \in IncStolen(tab, newVec, nw, exc, p)
                       THEN new ELSE tab[s]]
          /\ vec' = newVec
          /\ numb' = numb + 1
          /\ weights' = nw
          /\ fibers' = FALSE
          /\ ub' = FALSE
  /\ UNCHANGED <<numsBits, occ, cap>>

-----------------------------------------------------------------------------
(* dec_fsx32(dcx, tab, target_pos, removeme) with removeme != NULL the     *)
(* bucket at position p: check_space, calibrate, balance_dec,              *)
(* release_fibers of the survivors and of removeme, the swap, and          *)
(* replace_fsx32.  check_space failing is -ENOSPC and changes nothing.     *)

\* check_space(rdcx, numb, occ): the calibrated share of occ fits every
\* bucket of the vector
SpaceOK(v, o) ==
  LET need == Calibrate(o, Caps(v))
  IN  \A i \in DOMAIN v : cap[v[i]] >= need[i]

\* DecShortage that skips the removed bucket for the buckets left of it too
DecShortageShiftAll(old, nw, p) ==
  [i \in DOMAIN nw |-> nw[i] - old[i + 1]]

\* sho[i] of balance_dec as an integer; the code stores it in a u32
DecShortage(old, nw, p) ==
  [i \in DOMAIN nw |-> IF i < p THEN nw[i] - old[i] ELSE nw[i] - old[i + 1]]

\* the source of balance_dec as the removeme == NULL branch takes it:
\* fiber_at(vec, target_pos), which after the removal is the bucket that
\* followed the victim
DecSourceNullBranch(t, v, p) == Fiber(t, v[p + 1])

\* the source of balance_dec with removeme != NULL: fiber_of(removeme), the
\* whole fiber of the victim, from offset 0
DecSource(t, v, p) == Fiber(t, v[p])

Dec(p) ==
  LET victim == vec[p]
      newVec == RemoveAt(vec, p)
      nw     == Calibrate(Nums(numsBits), Caps(newVec))
      sho    == DecShortage(weights, nw, p)
      target == DecSource(tab, vec, p)
  IN
  /\ ~ub
  /\ fibers /\ weights # <<>>
  /\ numb > 1
  /\ SpaceOK(newVec, occ)
  /\ IF \/ \E i \in DOMAIN sho : sho[i] < 0
        \/ PrefixSum(sho, Len(sho)) > Len(target)
     THEN /\ ub' = TRUE
          /\ UNCHANGED <<vec, tab, numb, weights, fibers>>
     ELSE /\ tab' = Deal(tab, target, sho, newVec)
          /\ vec' = newVec
          /\ numb' = numb - 1
          /\ weights' = nw
          /\ fibers' = FALSE
          /\ ub' = FALSE
  /\ UNCHANGED <<numsBits, occ, cap>>

-----------------------------------------------------------------------------
(* RESIZE_BRICK: the volume plugin sets the new data capacity of the brick *)
(* at position p and re-weights the table without changing the vector     *)
(* (spec 4.4, 4.5): inc_fsx32(dcx, tab, p-1, NULL) when the brick grows,   *)
(* dec_fsx32(dcx, tab, p-1, NULL) when it shrinks.                         *)

\* exc[] of balance_inc with new == NULL: old[i] - new[i] for every other
\* bucket; exc[target_pos] is never written and fsx32_alloc zeroed it
ResizeExcess(old, nw, p) ==
  [i \in DOMAIN nw |-> IF i = p THEN 0 ELSE old[i] - nw[i]]

\* inc_fsx32 with new == NULL: new_numb = numb, so the limit checks pass;
\* the grown brick steals the tail of every other fiber beyond its new
\* weight, then release_fibers, the swap and replace_fsx32
Grow(p, c) ==
  LET b      == vec[p]
      newCap == [cap EXCEPT ![b] = c]
      nw     == Calibrate(Nums(numsBits), [i \in DOMAIN vec |-> newCap[vec[i]]])
      exc    == ResizeExcess(weights, nw, p)
  IN
  /\ ~ub
  /\ fibers /\ weights # <<>>
  /\ c > cap[b]
  /\ cap' = newCap
  /\ IF \E i \in DOMAIN exc : exc[i] < 0
     THEN /\ ub' = TRUE
          /\ UNCHANGED <<tab, weights, fibers>>
     ELSE /\ tab' = [s \in DOMAIN tab |->
                       IF s \in IncStolen(tab, vec, nw, exc, p)
                       THEN b ELSE tab[s]]
          /\ weights' = nw
          /\ fibers' = FALSE
          /\ ub' = FALSE
  /\ UNCHANGED <<vec, numsBits, numb, occ>>

\* dec_fsx32 with removeme == NULL: check_space of the re-weighted vector
\* (-ENOSPC changes nothing), then balance_dec reads
\* ((reiser4_subvol *)removeme)->id before it tests removeme: a NULL
\* dereference on every shrink that passes the space check.
Shrink(p, c) ==
  LET b      == vec[p]
      newCap == [cap EXCEPT ![b] = c]
  IN
  /\ ~ub
  /\ fibers /\ weights # <<>>
  /\ numb > 1
  /\ c < cap[b]
  /\ \A i \in DOMAIN vec :
       newCap[vec[i]] >= Calibrate(occ, [j \in DOMAIN vec |-> newCap[vec[j]]])[i]
  /\ cap' = newCap
  /\ ub' = TRUE
  /\ UNCHANGED <<vec, tab, numsBits, numb, weights, fibers, occ>>

-----------------------------------------------------------------------------
(* spl_fsx32(dcx, fact_bits) and balance_spl, then replace_fsx32.          *)
(* nums_bits + fact_bits > MAX_SHIFT is -EINVAL and changes nothing.       *)

\* Stretch that keeps the table at its old size
StretchNoGrow(t, bits, fb) ==
  [s \in Slots(bits) |-> t[s]]

\* Stretch that repeats the old table factor times instead of repeating
\* each slot factor times
StretchInterleaved(t, bits, fb) ==
  [s \in Slots(bits + fb) |-> t[s % Nums(bits)]]

\* "stretch" the table: slot s of the old table becomes slots
\* s*factor .. s*factor + factor - 1
Stretch(t, bits, fb) ==
  [s \in Slots(bits + fb) |-> t[s \div (2 ^ fb)]]

\* exc[i] for the first num_exc buckets (the donors)
SplExcess(old, nw, factor, numExc) ==
  [i \in 1 .. numExc |-> factor * old[i] - nw[i]]

\* sho[i] for the num_sho buckets after the donors, as the code indexes
\* them: new_weights[i] - factor * old_weights[i] with i counted from 0
SplShortage(old, nw, factor, numSho) ==
  [i \in 1 .. numSho |-> nw[i] - factor * old[i]]

\* reloc[]: the exc[i] fiber slots past new_weights[i] of each donor, donor
\* after donor, each in fiber order
Reloc(t, v, nw, exc) ==
  LET pieces == [i \in DOMAIN exc |->
                   SubSeq(Fiber(t, v[i]), nw[i] + 1, nw[i] + exc[i])]
  IN  FoldLeft(LAMBDA acc, x : acc \o x, <<>>, pieces)

Spl(fb) ==
  LET factor  == 2 ^ fb
      numExc  == Nums(numsBits) % numb
      numSho  == numb - numExc
      nw      == Calibrate(Nums(numsBits + fb), Caps(vec))
      stretch == Stretch(tab, numsBits, fb)
      exc     == SplExcess(weights, nw, factor, numExc)
      sho     == SplShortage(weights, nw, factor, numSho)
      recip   == [i \in 1 .. numSho |-> vec[numExc + i]]
  IN
  /\ ~ub
  /\ weights # <<>>
  /\ numsBits + fb <= MaxShift
  /\ IF /\ numExc # 0
        /\ \/ \E i \in DOMAIN exc : exc[i] < 0
           \/ \E i \in DOMAIN sho : sho[i] < 0
           \/ PrefixSum(sho, numSho) > PrefixSum(exc, numExc)
     THEN /\ ub' = TRUE
          /\ UNCHANGED <<tab, numsBits, weights, fibers>>
     ELSE /\ tab' = IF numExc = 0 THEN stretch
                    ELSE Deal(stretch, Reloc(stretch, vec, nw, exc), sho, recip)
          /\ numsBits' = numsBits + fb
          /\ weights' = nw
          /\ fibers' = FALSE
          /\ ub' = FALSE
  /\ UNCHANGED <<vec, numb, occ, cap>>

\* balance_spl when fsx32_alloc of exc fails (num_exc != 0): the error path
\* returns ret, still 0, so spl_fsx32 installs the new weights and
\* nums_bits over the table it never stretched
SplExcAllocFail(fb) ==
  /\ ~ub
  /\ weights # <<>>
  /\ numsBits + fb <= MaxShift
  /\ Nums(numsBits) % numb # 0
  /\ numsBits' = numsBits + fb
  /\ weights' = Calibrate(Nums(numsBits + fb), Caps(vec))
  /\ UNCHANGED <<vec, tab, numb, fibers, occ, cap, ub>>

\* balance_spl when fsx32_alloc of reloc fails: the old table is freed and
\* *tabp is NULL, the error path frees the stretched table and returns the
\* 0 of replace_fibers, so dcx->tab is NULL under the new weights and the
\* stretched fibers are never released
SplRelocAllocFail(fb) ==
  /\ ~ub
  /\ weights # <<>>
  /\ numsBits + fb <= MaxShift
  /\ Nums(numsBits) % numb # 0
  /\ tab' = [s \in {} |-> Meta]
  /\ numsBits' = numsBits + fb
  /\ weights' = Calibrate(Nums(numsBits + fb), Caps(vec))
  /\ fibers' = TRUE
  /\ UNCHANGED <<vec, numb, occ, cap, ub>>

\* initv_fsx32 when fsx32_alloc of the weights or of a fiber in
\* create_fibers fails: the error path runs doner_fsx32(tab), which frees
\* the table the caller passed in and sets it to NULL, and donev_fsx32.
\* The fibers create_fibers had attached stay on their buckets.
InitVAllocFail ==
  /\ ~ub
  /\ weights = <<>>
  /\ numsBits < MaxShift
  /\ Len(vec) < Nums(numsBits)
  /\ tab' = [s \in {} |-> Meta]
  /\ UNCHANGED <<vec, numsBits, numb, weights, fibers, occ, cap, ub>>

-----------------------------------------------------------------------------

Next ==
  \/ DoneV
  \/ InitV
  \/ Usage
  \/ \E b \in Bricks \ Range(vec), p \in 1 .. Len(vec) + 1 : Inc(b, p)
  \/ \E p \in 1 .. Len(vec) : Dec(p)
  \/ \E fb \in FactBits : Spl(fb)
  \/ \E p \in 1 .. Len(vec), c \in CapValues : Grow(p, c)

Spec == Init /\ [][Next]_vars

\* the shrinking resize as well
SpecWithShrink ==
  Init /\ [][Next \/ \E p \in 1 .. Len(vec), c \in CapValues : Shrink(p, c)]_vars

\* the allocation failures of initv_fsx32 and balance_spl as well
SpecWithAllocFail ==
  Init /\ [][\/ Next \/ InitVAllocFail
             \/ \E fb \in FactBits : SplExcAllocFail(fb) \/ SplRelocAllocFail(fb)]_vars

-----------------------------------------------------------------------------
(* Properties                                                              *)

TypeOK ==
  /\ vec \in Seq(Bricks) /\ Len(vec) >= 1
  /\ numsBits \in InitNumsBits .. MaxShift
  /\ tab \in [Slots(numsBits) -> Bricks]
  /\ numb \in 1 .. Cardinality(Bricks)
  /\ weights \in Seq(Nat)
  /\ fibers \in BOOLEAN
  /\ occ \in 0 .. MaxOcc
  /\ cap \in [DOMAIN Cap -> Nat \ {0}]
  /\ ub \in BOOLEAN

\* No reconfiguration loops over an excess or shortage that wrapped around
\* in u32, or reads past a fiber or the relocation vector (balance_inc,
\* balance_dec, balance_spl, create_fibers).
NoUB == ~ub

\* The table is balanced (spec 3, 8): every slot names a bucket of the
\* vector, every bucket is named by exactly its calibrated share of the
\* slots, and dcx->weights, while allocated, records exactly those counts.
TableBalanced ==
  LET w == Calibrate(Nums(numsBits), Caps(vec))
  IN  /\ \A s \in DOMAIN tab : tab[s] \in Range(vec)
      /\ \A i \in DOMAIN vec : Count(tab, vec[i]) = w[i]
      /\ weights # <<>> => weights = [i \in DOMAIN vec |-> Count(tab, vec[i])]

\* Every table and bucket vector a reconfiguration leaves behind is one
\* that initv_fsx32 accepts (nums_bits < MAX_SHIFT, numb < nums), so the
\* distribution context can be initialised again, as it is at the next
\* mount.  inc_fsx32 refuses only new_numb > nums, and spl_fsx32 only
\* nums_bits + fact_bits > MAX_SHIFT.
Remountable == numsBits < MaxShift /\ Len(vec) < Nums(numsBits)

\* lookup_fsx32m: the brick of a hash is tab[hash >> (32 - nums_bits)].
\* Hashes are MaxShift bits wide here, the finest resolution of the model.
Lookup(t, bits, h) == t[h \div 2 ^ (MaxShift - bits)]

Hashes == 0 .. 2 ^ MaxShift - 1

\* The distribution FSX32 implements: lookup of every hash over the bricks
\* of the vector.
Dist == INSTANCE DistTable WITH
          Hash <- Hashes, Brick <- Bricks,
          owner <- [h \in Hashes |-> Lookup(tab, numsBits, h)],
          members <- Range(vec)

\* FSX32 implements DistTable: adding a bucket (balance_inc) moves hashes
\* only onto the new brick, removing one (balance_dec) hands out only the
\* victim's hashes, growing a brick moves hashes only onto it, a split
\* (balance_spl) moves a hash only from a shrinking share to a growing one,
\* and a mount, which reads the table back from disk, moves nothing.
DistRefinement == Dist!Spec

=============================================================================
