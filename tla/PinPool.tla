------------------------------ MODULE PinPool ------------------------------
(***************************************************************************)
(* The KV block pool with the never-evict pin, as src/src/patch_never_evict *)
(* edits it into vLLM's BlockPool.                                         *)
(*                                                                         *)
(* A block is in exactly one of three places: the free queue (it may be    *)
(* handed out and overwritten), the pin queue (it may not), or in use by   *)
(* some requests (ref_cnt > 0).  The pin is keyed on block *hashes*: a     *)
(* hash is reserved for one block, and the reservation survives a loan of  *)
(* that block to a request.                                                *)
(*                                                                         *)
(* The null block is left out: it is never queued, touched or freed.  The  *)
(* two queues are sets here.  Where the code's outcome depends on an order *)
(* (which of several freed blocks meets the cap first) the action allows   *)
(* the outcome of every order.                                             *)
(***************************************************************************)
EXTENDS Integers, FiniteSets

CONSTANTS
  Blocks,       \* the blocks of the pool, the null block excepted
  Hashes,       \* BlockHashWithGroupId values
  None,         \* "no hash" and "no reservation"
  MaxFraction,  \* --never-evict-kv-cache-max-fraction, in percent
  MaxRef        \* bound: how many requests may hold one block

ASSUME PinPoolAssumption ==
  /\ IsFiniteSet(Blocks) /\ IsFiniteSet(Hashes)
  /\ None \notin Blocks /\ None \notin Hashes
  /\ MaxFraction \in 0..100
  /\ MaxRef \in Nat \ {0}

VARIABLES
  refCnt,       \* block -> number of requests that hold it
  blockHash,    \* block -> the hash its content is cached under, or None
  freeQueue,    \* blocks in free_block_queue
  pin,          \* blocks in _pin
  pinnedIds,    \* _pinned_ids: what touch() consults to pick the queue
  pinnedHashes, \* _pinned_hashes: the armed set
  pinnedByHash, \* _pinned_by_hash: hash -> block holding its reservation
  pinCap        \* _pin_cap

poolVars == <<refCnt, blockHash, freeQueue, pin, pinnedIds, pinnedHashes,
              pinnedByHash, pinCap>>

NumGpuBlocks == Cardinality(Blocks) + 1

\* Mutant: the fraction is ignored, the pin may take the whole pool.
CapForWholePool(fraction) == NumGpuBlocks

\* max(1, int(num_gpu_blocks * max_fraction))
CapFor(fraction) ==
  LET n == (NumGpuBlocks * fraction) \div 100 IN IF n > 1 THEN n ELSE 1

\* The keys of _pinned_by_hash.
Reserved == {h \in Hashes : pinnedByHash[h] # None}

HashesOf(S) == {blockHash[b] : b \in S}

TypeOK ==
  /\ refCnt \in [Blocks -> Nat]
  /\ blockHash \in [Blocks -> Hashes \cup {None}]
  /\ freeQueue \in SUBSET Blocks
  /\ pin \in SUBSET Blocks
  /\ pinnedIds \in SUBSET Blocks
  /\ pinnedHashes \in SUBSET Hashes
  /\ pinnedByHash \in [Hashes -> Blocks \cup {None}]
  /\ pinCap \in Nat

PoolInit ==
  /\ refCnt = [b \in Blocks |-> 0]
  /\ blockHash = [b \in Blocks |-> None]
  /\ freeQueue = Blocks
  /\ pin = {}
  /\ pinnedIds = {}
  /\ pinnedHashes = {}
  /\ pinnedByHash = [h \in Hashes |-> None]
  /\ pinCap = 0

-----------------------------------------------------------------------------
(* Calls that hand blocks out.                                             *)

\* Mutant: under pressure, pinned blocks are handed out after all.
GetNewBlocksFromPin(S) ==
  /\ S # {} /\ S \subseteq freeQueue \cup pin
  /\ freeQueue' = freeQueue \ S
  /\ pin' = pin \ S /\ pinnedIds' = pinnedIds \ S
  /\ refCnt' = [b \in Blocks |-> IF b \in S THEN 1 ELSE refCnt[b]]
  /\ blockHash' = [b \in Blocks |-> IF b \in S THEN None ELSE blockHash[b]]
  /\ UNCHANGED <<pinnedHashes, pinnedByHash, pinCap>>

\* get_new_blocks(): takes blocks off the free queue, which drops whatever
\* they cached.  The pin queue is never looked at.
GetNewBlocks(S) ==
  /\ S # {} /\ S \subseteq freeQueue
  /\ freeQueue' = freeQueue \ S
  /\ refCnt' = [b \in Blocks |-> IF b \in S THEN 1 ELSE refCnt[b]]
  /\ blockHash' = [b \in Blocks |-> IF b \in S THEN None ELSE blockHash[b]]
  /\ UNCHANGED <<pin, pinnedIds, pinnedHashes, pinnedByHash, pinCap>>

\* cache_full_blocks(): blocks in use become findable, b under hash keys[b].
CacheFullBlocks(keys) ==
  /\ \A b \in DOMAIN keys : refCnt[b] > 0 /\ blockHash[b] = None
  /\ blockHash' = [b \in Blocks |-> IF b \in DOMAIN keys THEN keys[b]
                                                      ELSE blockHash[b]]
  /\ UNCHANGED <<refCnt, freeQueue, pin, pinnedIds, pinnedHashes,
                 pinnedByHash, pinCap>>

\* Mutant: as in vLLM, every idle block is removed from the free queue.
TouchInFreeQueue(S) ==
  LET idle == {b \in S : refCnt[b] = 0} IN
  /\ S # {} /\ S \subseteq {b \in Blocks : blockHash[b] # None}
  /\ \A b \in S : refCnt[b] < MaxRef
  /\ refCnt' = [b \in Blocks |-> IF b \in S THEN refCnt[b] + 1 ELSE refCnt[b]]
  /\ freeQueue' = freeQueue \ idle
  /\ UNCHANGED <<blockHash, pin, pinnedIds, pinnedHashes, pinnedByHash, pinCap>>

\* touch(): a prefix hit takes cached blocks.  An idle one leaves the pin
\* queue if _pinned_ids names it, and the free queue otherwise; a pinned
\* block keeps its reservation while it is on loan.
Touch(S) ==
  LET idle == {b \in S : refCnt[b] = 0} IN
  /\ S # {} /\ S \subseteq {b \in Blocks : blockHash[b] # None}
  /\ \A b \in S : refCnt[b] < MaxRef
  /\ refCnt' = [b \in Blocks |-> IF b \in S THEN refCnt[b] + 1 ELSE refCnt[b]]
  /\ pinnedIds' = pinnedIds \ idle
  /\ pin' = pin \ (idle \cap pinnedIds)
  /\ freeQueue' = freeQueue \ (idle \ pinnedIds)
  /\ UNCHANGED <<blockHash, pinnedHashes, pinnedByHash, pinCap>>

-----------------------------------------------------------------------------
(* The pin.                                                                *)

\* Mutant: the holder of the reservation is not compared.
PinnableAnyHolder(b) == blockHash[b] \in pinnedHashes

\* _acquire_pin() looks at b at all: its hash is armed, and either nobody
\* holds the reservation of that hash or b itself does.
Pinnable(b) ==
  /\ blockHash[b] \in pinnedHashes
  /\ pinnedByHash[blockHash[b]] \in {None, b}

\* Mutants: `>` for `>=` in the cap check, and a cap that stops one short.
AcquiredUpTo(Q, S, cap) ==
  LET reservedAfter == Reserved \cup HashesOf(Q) IN
  /\ Q \subseteq {b \in S : Pinnable(b)}
  /\ \A b, c \in Q : blockHash[b] = blockHash[c] => b = c
  /\ Q = {} \/ Cardinality(reservedAfter) <= cap
  /\ \A b \in S \ Q :
       Pinnable(b) => \/ \E c \in Q : blockHash[c] = blockHash[b]
                      \/ Cardinality(reservedAfter) >= cap

AcquiredPastCap(Q, S) == AcquiredUpTo(Q, S, pinCap + 1)
AcquiredShortOfCap(Q, S) == AcquiredUpTo(Q, S, pinCap - 1)

\* Q is what _acquire_pin() returned True for when free_blocks() called it
\* on each block of S, in some order: blocks are refused only because they
\* are not pinnable, because another block of S took the hash first, or
\* because the cap was reached.
Acquired(Q, S) ==
  LET reservedAfter == Reserved \cup HashesOf(Q) IN
  /\ Q \subseteq S
  /\ \A b \in Q : Pinnable(b)
  /\ \A b, c \in Q : blockHash[b] = blockHash[c] => b = c
  /\ Cardinality(reservedAfter) <= pinCap
  /\ \A b \in S \ Q :
       Pinnable(b) =>
         \/ \E c \in Q : blockHash[c] = blockHash[b]
         \/ /\ pinnedByHash[blockHash[b]] = None
            /\ Cardinality(reservedAfter) >= pinCap

\* Reservations after the blocks of Q have taken theirs on top of base.
ReservedBy(Q, base) ==
  [h \in Hashes |-> IF h \in HashesOf(Q)
                    THEN CHOOSE b \in Q : blockHash[b] = h
                    ELSE base[h]]

\* Mutant: a request's blocks are freed twice (abort after finish).
FreeBlocksUnheld(S) ==
  /\ S # {}
  /\ refCnt' = [b \in Blocks |-> IF b \in S THEN refCnt[b] - 1 ELSE refCnt[b]]
  /\ freeQueue' = freeQueue \cup {b \in S : refCnt[b] = 1}
  /\ UNCHANGED <<blockHash, pin, pinnedIds, pinnedHashes, pinnedByHash, pinCap>>

\* free_blocks(): the blocks nobody holds any more go to the pin queue if
\* _acquire_pin() claims them, and to the free queue otherwise.
FreeBlocks(S) ==
  LET idle == {b \in S : refCnt[b] = 1} IN
  /\ S # {} /\ S \subseteq {b \in Blocks : refCnt[b] > 0}
  /\ refCnt' = [b \in Blocks |-> IF b \in S THEN refCnt[b] - 1 ELSE refCnt[b]]
  /\ \E Q \in SUBSET idle :
       /\ Acquired(Q, idle)
       /\ pin' = pin \cup Q
       /\ pinnedIds' = pinnedIds \cup Q
       /\ freeQueue' = freeQueue \cup (idle \ Q)
       /\ pinnedByHash' = ReservedBy(Q, pinnedByHash)
  /\ UNCHANGED <<blockHash, pinnedHashes, pinCap>>

\* Mutant: the whole pin goes before the new one is acquired.
KeptNothing(K, H, cap) == K = {}

\* Mutant: the cap is checked, the new hash set is not.
KeptUnarmed(K, H, cap) ==
  K \subseteq pin /\ Cardinality(K) = IF Cardinality(pin) < cap
                                       THEN Cardinality(pin) ELSE cap

\* The part of the pin queue that set_pinned_hashes() keeps when it drains
\* it against the new set H and cap, in whatever order the queue is in.
Kept(K, H, cap) ==
  /\ K \subseteq pin
  /\ HashesOf(K) \subseteq H
  /\ \A b, c \in K : blockHash[b] = blockHash[c] => b = c
  /\ Cardinality(K) <= cap
  /\ \A b \in pin \ K :
       blockHash[b] \in H => \/ \E c \in K : blockHash[c] = blockHash[b]
                             \/ Cardinality(K) >= cap

\* Mutant: the reservations are updated with what was kept, not replaced.
SetPinnedHashesKeepsReservations(H, fraction) ==
  /\ pinnedHashes' = H
  /\ pinCap' = CapFor(fraction)
  /\ \E K \in SUBSET pin :
       /\ Kept(K, H, CapFor(fraction))
       /\ pin' = K
       /\ pinnedIds' = K
       /\ freeQueue' = freeQueue \cup (pin \ K)
       /\ pinnedByHash' = ReservedBy(K, pinnedByHash)

\* set_pinned_hashes(H, fraction): nothing for the set already armed,
\* otherwise release eagerly what is not in H.  A block on loan is in no
\* queue: it loses its reservation here.
SetPinnedHashes(H, fraction) ==
  \/ /\ H = pinnedHashes /\ CapFor(fraction) = pinCap
     /\ UNCHANGED <<freeQueue, pin, pinnedIds, pinnedHashes, pinnedByHash,
                    pinCap>>
  \/ /\ H # pinnedHashes \/ CapFor(fraction) # pinCap
     /\ pinnedHashes' = H
     /\ pinCap' = CapFor(fraction)
     /\ \E K \in SUBSET pin :
          /\ Kept(K, H, CapFor(fraction))
          /\ pin' = K
          /\ pinnedIds' = K
          /\ freeQueue' = freeQueue \cup (pin \ K)
          /\ pinnedByHash' = ReservedBy(K, [h \in Hashes |-> None])

\* A call of set_pinned_hashes() by the scheduler.
Rearm(H) ==
  /\ SetPinnedHashes(H, MaxFraction)
  /\ UNCHANGED <<refCnt, blockHash>>

\* reset_prefix_cache(): the pin goes first, because pinned blocks count as
\* used; then the cache is dropped, but only if no block is in use.
ResetPrefixCache ==
  /\ SetPinnedHashes({}, 0)
  /\ IF NumGpuBlocks - Cardinality(freeQueue') = 1
     THEN blockHash' = [b \in Blocks |-> None]
     ELSE UNCHANGED blockHash
  /\ UNCHANGED refCnt

-----------------------------------------------------------------------------

PoolNext ==
  \/ \E S \in SUBSET Blocks : GetNewBlocks(S)
  \/ \E S \in SUBSET Blocks : \E keys \in [S -> Hashes] : CacheFullBlocks(keys)
  \/ \E S \in SUBSET Blocks : Touch(S)
  \/ \E S \in SUBSET Blocks : FreeBlocks(S)
  \/ \E H \in SUBSET Hashes : Rearm(H)
  \/ ResetPrefixCache

PoolSpec == PoolInit /\ [][PoolNext]_poolVars

-----------------------------------------------------------------------------
(* Correctness.                                                            *)

\* Every block is in exactly one place.  A block in none of the three is
\* leaked for ever; a block in two of them is handed out while it is held.
\* (the queues of BlockPool and ref_cnt, as touch and free_blocks move them)
OnePlace ==
  \A b \in Blocks :
    /\ (b \in freeQueue) => refCnt[b] = 0 /\ b \notin pin
    /\ (b \in pin) => refCnt[b] = 0
    /\ (refCnt[b] = 0) => b \in freeQueue \cup pin

\* _pinned_ids always names the content of _pin, so touch() removes an idle
\* block from the queue it is really in; and a block waits in _pin only
\* while it holds the reservation of an armed hash.
PinIndexed ==
  /\ pinnedIds = pin
  /\ \A b \in pin : /\ blockHash[b] \in pinnedHashes
                    /\ pinnedByHash[blockHash[b]] = b

\* A reservation is for an armed hash, and the block named still caches that
\* very content: it is pinned, or on loan to a request.
ReservationHolds ==
  \A h \in Reserved :
    /\ h \in pinnedHashes
    /\ blockHash[pinnedByHash[h]] = h
    /\ pinnedByHash[h] \in pin \/ refCnt[pinnedByHash[h]] > 0

\* The pin never reserves more than its share of the pool, loans included.
CapRespected == Cardinality(Reserved) <= pinCap

\* "never handed out for eviction": as long as the armed set is not
\* replaced, a reserved hash keeps its block and the block its content,
\* through loans, returns and any amount of allocation pressure.
NeverEvicted ==
  [][(pinnedHashes' = pinnedHashes /\ pinCap' = pinCap) =>
       \A h \in Reserved : /\ pinnedByHash'[h] = pinnedByHash[h]
                           /\ blockHash'[pinnedByHash[h]] = h]_poolVars

\* A marked prompt that shares its prefix with the last one (the next turn
\* of a conversation) does not lose the shared part by re-arming: what is
\* held and still armed stays held, or goes on loan.
RearmKeepsShared ==
  [][(pinCap' = pinCap) =>
       \A b \in pin : blockHash[b] \in pinnedHashes'
                      => b \in pin' \/ refCnt'[b] > 0]_poolVars

\* If the marked prefix fits the cap, no armed block comes home to the free
\* queue unless another block is reserved for the same content.
FitsThenPinned ==
  [][Cardinality(pinnedHashes) <= pinCap =>
       \A b \in Blocks :
         (refCnt[b] = 1 /\ refCnt'[b] = 0 /\ blockHash[b] \in pinnedHashes)
           => pinnedByHash'[blockHash[b]] # None]_poolVars

(***************************************************************************)
(* The pool, with its queues, loans and reference counts, implements the   *)
(* promise.                                                                *)
(***************************************************************************)
Promise == INSTANCE PinPromise
             WITH armed <- pinnedHashes, cap <- pinCap,
                  keeper <- pinnedByHash, content <- blockHash

\* Every behaviour of the patched pool is one of the abstract pin: promises
\* are honest, capped, and broken by set_pinned_hashes() alone.
KeepsPromise == Promise!PromiseSpec

=============================================================================
