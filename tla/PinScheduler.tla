---------------------------- MODULE PinScheduler ----------------------------
(***************************************************************************)
(* The scheduler around the pin pool: requests arrive (and arm the pin if  *)
(* their prompt contains the marker), are admitted first come first served *)
(* with whatever prefix is still cached, grow chunk by chunk, give state   *)
(* blocks of the mamba groups back while they run, are preempted when the  *)
(* pool is empty, and finish or are aborted.                               *)
(*                                                                         *)
(* The arming is src/src/patch_never_evict.  The rest is vLLM's scheduler, *)
(* modelled from how the patched functions are called: each action is one  *)
(* stretch of the engine thread between two calls into the pool, and       *)
(* `busy` keeps the stretches of one allocation together.                  *)
(***************************************************************************)
EXTENDS PinPool, Sequences, SequencesExt

CONSTANTS
  Reqs,           \* requests; a finished one may be submitted again
  Prompt,         \* request -> prompt token ids
  MarkerIds,      \* token ids of --never-evict-kv-cache-prompt-includes
  Groups,         \* KV cache groups
  StateGroups,    \* the mamba/GDN ones: only the last block is needed
  BlockSize,      \* group -> tokens per block
  Cacheable,      \* groups whose spec is prefix_cacheable
  HashBlockSize   \* tokens per request block hash

VARIABLES
  waiting,        \* requests that arrived or were preempted, in queue order
  running,        \* scheduled requests, oldest first
  computed,       \* request -> tokens computed
  table,          \* request -> group -> blocks, None for a null block
  busy,           \* the allocation the engine thread is in, or None
  lastHashes,     \* _pin_last_hashes
  hot             \* history: armed keys some finished request has left behind

schedVars == <<waiting, running, computed, table, busy, lastHashes, hot>>
vars == <<poolVars, schedVars>>

\* The scheduler computes one block of the coarsest group per step, so that
\* state blocks are complete (mamba cache mode "align").
Chunk == CHOOSE n \in {BlockSize[g] : g \in Groups} :
           \A g \in Groups : BlockSize[g] <= n

-----------------------------------------------------------------------------
(* Which hashes a prompt pins.                                             *)

\* The first and the last token of the marker may merge with their
\* neighbours in the real prompt.
PinNeedle ==
  IF Len(MarkerIds) > 2 THEN SubSeq(MarkerIds, 2, Len(MarkerIds) - 1)
                        ELSE MarkerIds

ContainsSubseq(haystack, needle) ==
  /\ needle # <<>>
  /\ \E i \in 1 .. Len(haystack) - Len(needle) + 1 :
       SubSeq(haystack, i, i + Len(needle) - 1) = needle

Marked(r) == ContainsSubseq(Prompt[r], PinNeedle)

\* The key of block i of group g: it stands for the whole prefix up to its
\* end, because block hashes are chained.
BlockKey(r, g, i) == <<g, SubSeq(Prompt[r], 1, i * BlockSize[g])>>

PinGroups == {g \in Groups : g \in Cacheable /\ BlockSize[g] % HashBlockSize = 0}

PromptHashes(r) ==
  UNION {{BlockKey(r, g, i) : i \in 1 .. Len(Prompt[r]) \div BlockSize[g]} :
         g \in PinGroups}

\* What vLLM guarantees of its configuration and of the requests it admits:
\* a prompt is not empty, a block holds at least a token, one of the finitely
\* many groups is the coarsest, and Hashes has the keys of every full block.
ASSUME PinSchedulerAssumption ==
  /\ IsFiniteSet(Reqs)
  /\ None \notin Reqs \X {"allocate", "cache"}
  /\ StateGroups \subseteq Groups /\ Cacheable \subseteq Groups
  /\ \A g \in Groups : BlockSize[g] \in Nat \ {0}
  /\ \E g \in Groups : \A h \in Groups : BlockSize[h] <= BlockSize[g]
  /\ \A r \in Reqs : Prompt[r] \in Seq(Range(Prompt[r])) \ {<<>>}
  /\ \A r \in Reqs, g \in Cacheable :
       \A i \in 1 .. Len(Prompt[r]) \div BlockSize[g] : BlockKey(r, g, i) \in Hashes

-----------------------------------------------------------------------------
(* Block tables.                                                           *)

EmptyTable == [g \in Groups |-> <<>>]

Holding(t) == (UNION {{t[g][i] : i \in DOMAIN t[g]} : g \in Groups}) \ {None}

\* remove_skipped_blocks(): state blocks before the last computed one.
Skipped(r) ==
  {p \in UNION {{<<g, i>> : i \in DOMAIN table[r][g]} : g \in StateGroups} :
     /\ table[r][p[1]][p[2]] # None
     /\ p[2] < computed[r] \div BlockSize[p[1]]}

Least(a, b) == IF a < b THEN a ELSE b

NextComputed(r) == Least((computed[r] \div Chunk) * Chunk + Chunk, Len(Prompt[r]))

CeilDiv(n, d) == (n + d - 1) \div d

\* Table positions to fill so that request r, with blocks t, reaches n tokens.
Missing(t, n) ==
  UNION {{<<g, i>> : i \in Len(t[g]) + 1 .. CeilDiv(n, BlockSize[g])} : g \in Groups}

CachedBlocks(key) == {b \in Blocks : blockHash[b] = key}

\* find_longest_cache_hit(): the longest prefix, short of the whole prompt,
\* whose token blocks are all cached and whose state block is.
HitAt(r, n) ==
  \A g \in Groups \cap Cacheable :
    IF g \in StateGroups
    THEN n = 0 \/ CachedBlocks(BlockKey(r, g, n \div BlockSize[g])) # {}
    ELSE \A i \in 1 .. n \div BlockSize[g] : CachedBlocks(BlockKey(r, g, i)) # {}

HitLengths(r) == {k * Chunk : k \in 0 .. (Len(Prompt[r]) - 1) \div Chunk}

HitLength(r) ==
  CHOOSE n \in HitLengths(r) :
    HitAt(r, n) /\ \A m \in HitLengths(r) : HitAt(r, m) => m <= n

\* The tables that hold the cached prefix of n tokens: any block cached under
\* a key will do; null blocks stand for what the request does not need.
HitPositions(n) ==
  UNION {IF g \in StateGroups
         THEN {<<g, n \div BlockSize[g]>>} \ {<<g, 0>>}
         ELSE {<<g, i>> : i \in 1 .. n \div BlockSize[g]} : g \in Groups \cap Cacheable}

HitTables(r, n) ==
  {[g \in Groups |-> [i \in 1 .. n \div BlockSize[g] |->
       IF <<g, i>> \in DOMAIN pick THEN pick[<<g, i>>] ELSE None]] :
   pick \in {f \in [HitPositions(n) -> Blocks] :
               \A p \in DOMAIN f : f[p] \in CachedBlocks(BlockKey(r, p[1], p[2]))}}

-----------------------------------------------------------------------------

SchedInit ==
  /\ PoolInit
  /\ waiting = <<>>
  /\ running = <<>>
  /\ computed = [r \in Reqs |-> 0]
  /\ table = [r \in Reqs |-> EmptyTable]
  /\ busy = None
  /\ lastHashes = None
  /\ hot = {}

Idle(r) == ~Contains(waiting, r) /\ ~Contains(running, r)

\* A key stays hot as long as it stays armed, in one armed set after the
\* other, and the armed sets fit the cap.
KeepHot == hot' = IF Cardinality(pinnedHashes') <= pinCap'
                  THEN hot \cap pinnedHashes' ELSE {}

\* _arm_never_evict_pin(): replace the pin, unless the same hashes were the
\* last ones armed.
ArmNeverEvictPin(r) ==
  IF PromptHashes(r) = lastHashes
  THEN UNCHANGED <<poolVars, lastHashes>>
  ELSE Rearm(PromptHashes(r)) /\ lastHashes' = PromptHashes(r)

\* add_request().
AddRequest(r) ==
  /\ busy = None /\ Idle(r)
  /\ waiting' = Append(waiting, r)
  /\ IF Marked(r) THEN ArmNeverEvictPin(r) ELSE UNCHANGED <<poolVars, lastHashes>>
  /\ KeepHot
  /\ UNCHANGED <<running, computed, table, busy>>

\* schedule(), the head of the waiting queue: it is admitted if the blocks
\* it needs now and the idle blocks of its hit are covered by the free
\* count, pinned ones included in the latter but not in the former.
Admit ==
  /\ busy = None /\ waiting # <<>>
  /\ LET r == Head(waiting)
         n == HitLength(r)
     IN \E t \in HitTables(r, n) :
          LET hit == Holding(t)
              target == Least(n + Chunk, Len(Prompt[r]))
          IN /\ Cardinality(Missing(t, target))
                  + Cardinality({b \in hit : refCnt[b] = 0})
                <= Cardinality(freeQueue)
             /\ IF hit = {} THEN UNCHANGED poolVars ELSE Touch(hit)
             /\ table' = [table EXCEPT ![r] = t]
             /\ computed' = [computed EXCEPT ![r] = n]
             /\ running' = Append(running, r)
             /\ busy' = <<r, "allocate">>
  /\ waiting' = Tail(waiting)
  /\ UNCHANGED <<lastHashes, hot>>

\* Mutant: blocks given back stay in the table, to be freed again later.
ContinueKeepsTable(r) ==
  /\ busy = None /\ Contains(running, r)
  /\ computed[r] < Len(Prompt[r])
  /\ LET gone == {table[r][p[1]][p[2]] : p \in Skipped(r)} IN
       IF gone = {} THEN UNCHANGED poolVars ELSE FreeBlocks(gone)
  /\ busy' = <<r, "allocate">>
  /\ UNCHANGED <<waiting, running, computed, table, lastHashes, hot>>

\* schedule(), a running request: first the state blocks it is past go back.
Continue(r) ==
  /\ busy = None /\ Contains(running, r)
  /\ computed[r] < Len(Prompt[r])
  /\ LET gone == {table[r][p[1]][p[2]] : p \in Skipped(r)} IN
       IF gone = {} THEN UNCHANGED poolVars ELSE FreeBlocks(gone)
  /\ table' = [table EXCEPT ![r] = [g \in Groups |-> [i \in DOMAIN @[g] |->
                 IF <<g, i>> \in Skipped(r) THEN None ELSE @[g][i]]]]
  /\ busy' = <<r, "allocate">>
  /\ UNCHANGED <<waiting, running, computed, lastHashes, hot>>

\* allocate_slots(): new blocks for the next chunk, if the pool has them.
Allocate(r) ==
  /\ busy = <<r, "allocate">>
  /\ LET need == Missing(table[r], NextComputed(r)) IN
       /\ Cardinality(need) <= Cardinality(freeQueue)
       /\ \E fill \in {f \in [need -> freeQueue] :
                         \A p, q \in need : f[p] = f[q] => p = q} :
            /\ IF need = {} THEN UNCHANGED poolVars
                            ELSE GetNewBlocks({fill[p] : p \in need})
            /\ table' = [table EXCEPT ![r] = [g \in Groups |->
                 [i \in 1 .. Len(@[g]) + Cardinality({p \in need : p[1] = g}) |->
                    IF <<g, i>> \in need THEN fill[<<g, i>>] ELSE @[g][i]]]]
  /\ busy' = <<r, "cache">>
  /\ UNCHANGED <<waiting, running, computed, lastHashes, hot>>

\* No room: the youngest running request is preempted, which may be r.
Preempt(r) ==
  /\ busy = <<r, "allocate">>
  /\ Cardinality(Missing(table[r], NextComputed(r))) > Cardinality(freeQueue)
  /\ LET victim == Last(running) IN
       /\ IF Holding(table[victim]) = {} THEN UNCHANGED poolVars
                                         ELSE FreeBlocks(Holding(table[victim]))
       /\ table' = [table EXCEPT ![victim] = EmptyTable]
       /\ computed' = [computed EXCEPT ![victim] = 0]
       /\ running' = Front(running)
       /\ waiting' = <<victim>> \o waiting
       /\ busy' = IF victim = r THEN None ELSE busy
  /\ UNCHANGED <<lastHashes, hot>>

\* The chunk is computed and its full blocks become findable.
Compute(r) ==
  /\ busy = <<r, "cache">>
  /\ LET n == NextComputed(r)
         full == {p \in UNION {{<<g, i>> : i \in DOMAIN table[r][g]} : g \in Cacheable} :
                    /\ p[2] * BlockSize[p[1]] <= n
                    /\ table[r][p[1]][p[2]] # None
                    /\ blockHash[table[r][p[1]][p[2]]] = None}
         at(b) == CHOOSE p \in full : table[r][p[1]][p[2]] = b
     IN /\ CacheFullBlocks([b \in {table[r][p[1]][p[2]] : p \in full} |->
                              BlockKey(r, at(b)[1], at(b)[2])])
        /\ computed' = [computed EXCEPT ![r] = n]
  /\ busy' = None
  /\ UNCHANGED <<waiting, running, table, lastHashes, hot>>

\* finish_requests(): done, or aborted by its client at any point.
Release(r) ==
  /\ IF Holding(table[r]) = {} THEN UNCHANGED poolVars
                               ELSE FreeBlocks(Holding(table[r]))
  /\ table' = [table EXCEPT ![r] = EmptyTable]
  /\ computed' = [computed EXCEPT ![r] = 0]
  /\ waiting' = RemoveFirst(waiting, r)
  /\ running' = RemoveFirst(running, r)
  /\ UNCHANGED <<busy, lastHashes>>

Finish(r) ==
  /\ busy = None /\ Contains(running, r) /\ computed[r] = Len(Prompt[r])
  /\ Release(r)
  /\ hot' = IF Cardinality(pinnedHashes) <= pinCap
            THEN hot \cup (HashesOf(Holding(table[r])) \cap pinnedHashes) ELSE hot

Abort(r) ==
  /\ busy = None /\ ~Idle(r)
  /\ Release(r)
  /\ UNCHANGED hot

\* reset_prefix_cache() from the API; the scheduler's own state stays.
Reset ==
  /\ busy = None
  /\ ResetPrefixCache
  /\ KeepHot
  /\ UNCHANGED <<waiting, running, computed, table, busy, lastHashes>>

SchedNext ==
  \/ Admit
  \/ Reset
  \/ \E r \in Reqs : \/ AddRequest(r) \/ Continue(r) \/ Allocate(r)
                     \/ Preempt(r) \/ Compute(r) \/ Finish(r) \/ Abort(r)

SchedSpec == SchedInit /\ [][SchedNext]_vars

\* The engine loop calls schedule() for ever, and each call visits every
\* running request before it looks at the waiting queue.
Fairness ==
  /\ SF_vars(Admit)
  /\ \A r \in Reqs : /\ SF_vars(Continue(r))
                     /\ WF_vars(Allocate(r)) /\ WF_vars(Preempt(r))
                     /\ WF_vars(Compute(r)) /\ SF_vars(Finish(r))

FairSchedSpec == SchedSpec /\ Fairness

-----------------------------------------------------------------------------
(* Correctness.                                                            *)

SchedTypeOK ==
  /\ TypeOK
  /\ waiting \in Seq(Reqs) /\ running \in Seq(Reqs)
  /\ IsInjective(waiting \o running)
  /\ computed \in [Reqs -> Nat]
  /\ table \in [Reqs -> [Groups -> Seq(Blocks \cup {None})]]
  /\ busy \in {None} \cup (Reqs \X {"allocate", "cache"})
  /\ lastHashes \in {None} \cup SUBSET Hashes
  /\ hot \in SUBSET Hashes

\* The engine's view and the pool's agree: a block's reference count is the
\* number of block tables it sits in, and no table of a request that is not
\* running holds a block.
RefCountsMatch ==
  /\ \A b \in Blocks : refCnt[b] = Cardinality({r \in Reqs : b \in Holding(table[r])})
  /\ \A r \in Reqs : Holding(table[r]) # {} => Contains(running, r)

\* What pinning is for: what a finished request leaves behind of an armed
\* prompt stays cached for as long as it stays armed, from one turn of the
\* conversation to the next, whatever else runs, is preempted or aborted
\* meanwhile and even if other requests had the blocks on loan.
ArmedStaysCached == \A key \in hot : CachedBlocks(key) # {}

\* A request whose prompt contains the marker leaves add_request() with its
\* own prompt armed (cache.py: "any request whose prompt contains this exact
\* substring has its prompt KV cache blocks pinned").
MarkedArrivalArms ==
  [][\A r \in Reqs : (AddRequest(r) /\ Marked(r)) => pinnedHashes' = PromptHashes(r)]_vars

\* The pin cannot starve the pool: every request that is waiting is
\* eventually computed to the end or aborted.
EveryRequestEnds == \A r \in Reqs : Contains(waiting, r) ~> Idle(r)

=============================================================================
