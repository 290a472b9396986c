---------------------------- MODULE MambaAlign ----------------------------
(***************************************************************************)
(* src/src/mamba_utils_guarded.py, "align" mode: where the recurrent state *)
(* of one request lives in its block table, and how it is moved when the   *)
(* request crosses a block boundary, under speculative decoding, chunked   *)
(* prefill, prefix hits and preemption.                                    *)
(*                                                                         *)
(* The content of a block is the number of tokens whose state it holds.    *)
(* Column `idx` is the running block.  The temporal state after the j-th   *)
(* draft is in column idx + j; the convolution state is a window in column *)
(* idx, shifted by j.  Both runners are modelled: V1 decides on the CPU,   *)
(* V2 in a kernel.                                                         *)
(***************************************************************************)
EXTENDS Integers, FiniteSets

CONSTANTS
  BlockSize,      \* tokens per mamba block (cache_config.mamba_block_size)
  FineBlockSize,  \* the smallest block size of all cache groups
  NumSpec,        \* draft tokens per step at most
  MaxTokens,      \* bound: length of the request
  MaxPreempts     \* bound: preemptions

ASSUME AlignAssumption ==
  /\ BlockSize \in Nat /\ FineBlockSize \in Nat \ {0} /\ NumSpec \in Nat
  /\ NumSpec < BlockSize /\ FineBlockSize <= BlockSize
  /\ MaxTokens \in Nat /\ MaxPreempts \in Nat

VARIABLES
  runner,     \* "v1" or "v2", for good
  pc,         \* where the step is
  known,      \* tokens the scheduler knows, computed or not
  computed,   \* num_computed_tokens
  scheduled, drafts,   \* tokens of this step; the drafts among them
  idx,        \* mamba_state_idx: the running column, None, or -1 for none
  accepted,   \* num_accepted_tokens
  snap,       \* what the postprocess kernel reads of it
  src, bias,  \* the pre-copy: source column (-1: none) and token bias
  width,      \* columns allocated in the block table
  temporal, conv,      \* column -> content
  cache,      \* column -> what the prefix cache holds for it
  todo,       \* kernel programs still to run
  resumed,    \* the scheduler reports the request as new or resumed
  hits,       \* guard_hits
  preempts

tableVars == <<width, temporal, conv>>
vars == <<runner, pc, known, computed, scheduled, drafts, idx, accepted, snap, src, bias,
          width, temporal, conv, cache, todo, resumed, hits, preempts>>

CeilDiv(a, b) == (a + b - 1) \div b

States == {"conv", "temporal"}
\* The program whose state_idx is 0 updates the accepted count.
First == "conv"

MaxCols == CeilDiv(MaxTokens, BlockSize) + NumSpec
Cols == 0 .. MaxCols - 1
None == -2     \* no entry in mamba_state_idx; nothing cached
Junk == -1     \* a block whose content means nothing
Window(n, d) == [base |-> n, span |-> d]
JunkWindow == Window(Junk, 0)
NotCached == [t |-> None, c |-> None]

Init ==
  /\ runner \in {"v1", "v2"}
  /\ known \in 1 .. MaxTokens
  /\ pc = "waiting" /\ computed = 0 /\ scheduled = 0 /\ drafts = 0
  /\ idx = None /\ accepted = 1 /\ snap = 1 /\ src = -1 /\ bias = 0
  /\ width = 0 /\ temporal = [k \in Cols |-> Junk] /\ conv = [k \in Cols |-> JunkWindow]
  /\ cache = [k \in Cols |-> NotCached]
  /\ todo = {} /\ resumed = FALSE /\ hits = 0 /\ preempts = 0

-----------------------------------------------------------------------------
(* Start, restart and schedule: the image's scheduler, of which src/       *)
(* patches the block size.                                                 *)

\* The column of the state a request starts from: -1 without a prefix hit.
Seed(h) == IF h = 0 THEN -1 ELSE (h - 1) \div BlockSize

\* A new or resumed request, with a prefix hit of h tokens: of the columns
\* hit only the last is held.  V2 seeds its slot here; V1 keeps its entry.
Begin(h) ==
  /\ pc = "waiting" /\ h < known
  /\ h > 0 => h % BlockSize = 0 /\ cache[h \div BlockSize - 1] # NotCached
  /\ LET last == h \div BlockSize - 1 IN
       /\ temporal' = [k \in Cols |-> IF k = last THEN cache[k].t ELSE Junk]
       /\ conv' = [k \in Cols |-> IF k = last THEN Window(cache[k].c, 0) ELSE JunkWindow]
       /\ width' = last + 1
  /\ computed' = h /\ accepted' = 1 /\ resumed' = TRUE /\ pc' = "idle"
  /\ idx' = IF runner = "v2" THEN Seed(h) ELSE idx
  /\ UNCHANGED <<runner, known, scheduled, drafts, snap, src, bias, cache, todo, hits, preempts>>

\* Where a prefill chunk that does not reach the end of the request may end.
ChunkEnd(e) == e % BlockSize = 0

\* A prefill chunk, or a token to decode and drafts to verify.  Room for
\* 1 + NumSpec running columns is allocated; columns jumped over, and old
\* speculative ones below, are null.  Full columns enter the prefix cache
\* and those below the running state are freed.
Schedule(n, d) ==
  /\ pc = "idle"
  /\ LET end == computed + n
         need == CeilDiv(end, BlockSize) + NumSpec
         skipped == need - NumSpec - 1
         gone == {k \in Cols : \/ k < CeilDiv(computed, BlockSize) - 1
                               \/ ~resumed /\ need > width
                                  /\ k \in width - NumSpec .. width - 1 /\ k < skipped}
         full == {k \in Cols : (k + 1) * BlockSize <= computed /\ temporal[k] # Junk}
     IN /\ IF computed + 1 < known
           THEN d = 0 /\ end <= known /\ (end = known \/ ChunkEnd(end))
           ELSE n = 1 + d /\ (resumed => d = 0)
        /\ end <= MaxTokens
        /\ cache' = [k \in Cols |-> IF k \in full THEN [t |-> temporal[k], c |-> conv[k].base]
                                    ELSE cache[k]]
        /\ temporal' = [k \in Cols |-> IF k \in gone THEN Junk ELSE temporal[k]]
        /\ conv' = [k \in Cols |-> IF k \in gone THEN JunkWindow ELSE conv[k]]
        /\ width' = IF need > width THEN need ELSE width
  /\ scheduled' = n /\ drafts' = d /\ pc' = "pre"
  /\ UNCHANGED <<runner, known, computed, idx, accepted, snap, src, bias, todo, resumed, hits, preempts>>

\* Blocks go back to the pool.  A preemption is not always reported, so the
\* entry of V1 is popped now or stays (reset_prefix_cache).
Preempt ==
  /\ pc = "idle" /\ preempts < MaxPreempts
  /\ pc' = "waiting" /\ preempts' = preempts + 1
  /\ idx' \in IF runner = "v1" THEN {idx, None} ELSE {idx}
  /\ cache' = [k \in Cols |-> IF (k + 1) * BlockSize <= computed /\ temporal[k] # Junk
                              THEN [t |-> temporal[k], c |-> conv[k].base] ELSE cache[k]]
  /\ UNCHANGED <<runner, known, computed, scheduled, drafts, accepted, snap, src, bias,
                 tableVars, todo, resumed, hits>>

-----------------------------------------------------------------------------
(* Before the forward pass.                                                *)

Target == CeilDiv(computed + scheduled, BlockSize) - 1

\* Mutant: only finished and preempted requests are cleaned up.
CleanedUnresumed == idx

\* cleanup_mamba_state_idx(): a resumed request loses its old entry.
Cleaned == IF resumed THEN None ELSE idx

AcceptedAfter(moves) == IF moves THEN 1 ELSE accepted

\* preprocess_mamba(): V1, a dict and a loop on the CPU.
PreprocessV1 ==
  /\ pc = "pre" /\ runner = "v1"
  /\ LET prev == IF Cleaned = None THEN (computed - 1) \div BlockSize ELSE Cleaned
         moves == prev # -1 /\ prev # Target
     IN /\ src' = IF moves THEN prev ELSE -1
        /\ bias' = IF moves THEN accepted - 1 ELSE 0
        /\ accepted' = AcceptedAfter(moves)
  /\ idx' = Target /\ resumed' = FALSE /\ pc' = "copy" /\ todo' = States
  /\ UNCHANGED <<runner, known, computed, scheduled, drafts, snap, tableVars, cache, hits, preempts>>

\* preprocess_mamba_align_fused_kernel(): V2, the slot's own old column.
PreprocessV2 ==
  /\ pc = "pre" /\ runner = "v2"
  /\ src' = idx /\ bias' = accepted - 1
  /\ accepted' = AcceptedAfter(idx >= 0 /\ idx # Target)
  /\ idx' = Target /\ resumed' = FALSE /\ pc' = "copy" /\ todo' = States
  /\ UNCHANGED <<runner, known, computed, scheduled, drafts, snap, tableVars, cache, hits, preempts>>

\* What state s of column `from` is, b tokens on.
At(s, from, b) ==
  IF s = "temporal" THEN temporal[from + b]
  ELSE IF b <= conv[from].span /\ conv[from].base # Junk THEN conv[from].base + b ELSE Junk

\* _copy_mamba_state_block(): nothing is copied, and a hit counted, if a
\* block id is out of range, which is what lies beyond the allocated row.
Copy(s, from, to, b) ==
  IF to >= width \/ from + (IF s = "temporal" THEN b ELSE 0) >= width
  THEN hits' = hits + 1 /\ UNCHANGED <<temporal, conv>>
  ELSE /\ UNCHANGED hits
       /\ IF s = "temporal"
          THEN temporal' = [temporal EXCEPT ![to] = At(s, from, b)] /\ UNCHANGED conv
          ELSE /\ conv' = [conv EXCEPT ![to] =
                             IF At(s, from, b) = Junk THEN JunkWindow
                             ELSE Window(At(s, from, b), conv[from].span - b)]
               /\ UNCHANGED temporal

\* precopy_mamba_align_fused_kernel(): one program for each state.
Precopy(s) ==
  /\ pc = "copy" /\ s \in todo
  /\ IF src < 0 \/ src = idx THEN UNCHANGED <<temporal, conv, hits>>
     ELSE Copy(s, src, idx, bias)
  /\ todo' = todo \ {s}
  /\ pc' = IF todo = {s} THEN "forward" ELSE pc
  /\ UNCHANGED <<runner, known, computed, scheduled, drafts, idx, accepted, snap, src, bias, width,
                 cache, resumed, preempts>>

-----------------------------------------------------------------------------
(* The forward pass, the sampler and the postprocess.                      *)

\* What the layers take for the state of the tokens computed so far.
Initial(s) == IF computed = 0 THEN 0 ELSE At(s, idx, accepted - 1)

\* The state after the last known token of the step.
Running == computed + scheduled - drafts

\* The layers write the state after each token to verify, from whatever
\* state they read; a of these tokens are kept, one sampled anew.
Forward(a) ==
  /\ pc = "forward"
  /\ a <= 1 + drafts
  /\ temporal' = [k \in Cols |->
                    IF k \in idx .. idx + drafts
                    THEN (IF Initial("temporal") = computed THEN Running + (k - idx) ELSE Junk)
                    ELSE temporal[k]]
  /\ conv' = [conv EXCEPT ![idx] = IF Initial("conv") = computed THEN Window(Running, drafts)
                                   ELSE JunkWindow]
  /\ accepted' = a /\ snap' = a
  /\ pc' = "post" /\ todo' = States
  /\ UNCHANGED <<runner, known, computed, scheduled, drafts, idx, src, bias, width, cache, resumed, hits,
                 preempts>>

\* Mutant: the kernel reads the count it updates.
CountReadLive == accepted

\* The kernel reads a copy that none of its programs writes.
CountRead == snap

\* Mutant: a boundary that is the running state itself is not saved.
NeedsCopyLate(aligned, running) == aligned > running

NeedsCopy(aligned, running) == aligned >= running

\* postprocess_mamba_fused_kernel(): if a block was filled, its state is
\* saved in its column.  V2 is given the tokens computed after the step.
Postprocess(s) ==
  /\ pc = "post" /\ s \in todo
  /\ LET after == Running + snap - 1
         running == IF runner = "v1" THEN Running ELSE after - CountRead + 1
         aligned == ((running + CountRead - 1) \div BlockSize) * BlockSize
         saves == NeedsCopy(aligned, running)
         dest == aligned \div BlockSize - 1
     IN /\ accepted' = IF saves /\ dest = idx /\ s = First THEN 1 ELSE accepted
        /\ IF ~saves \/ (dest = idx /\ aligned = running)
           THEN UNCHANGED <<temporal, conv, hits>>
           ELSE Copy(s, idx, dest, aligned - running)
  /\ todo' = todo \ {s}
  /\ UNCHANGED <<runner, pc, known, computed, scheduled, drafts, idx, snap, src, bias, width, cache,
                 resumed, preempts>>

\* The scheduler takes the result: rejected drafts do not count, and a step
\* that reached the last known token has sampled the next.
Finish ==
  /\ pc = "post" /\ todo = {}
  /\ computed' = Running + snap - 1
  /\ known' = IF Running = known THEN computed' + 1 ELSE known
  /\ known' <= MaxTokens
  /\ pc' = "idle"
  /\ UNCHANGED <<runner, scheduled, drafts, idx, accepted, snap, src, bias, tableVars, cache, todo, resumed,
                 hits, preempts>>

-----------------------------------------------------------------------------

Next ==
  \/ \E h \in 0 .. MaxTokens : Begin(h)
  \/ \E n \in 1 .. MaxTokens, d \in 0 .. NumSpec : Schedule(n, d)
  \/ Preempt \/ PreprocessV1 \/ PreprocessV2
  \/ \E s \in States : Precopy(s) \/ Postprocess(s)
  \/ \E a \in 1 .. NumSpec + 1 : Forward(a)
  \/ Finish

Spec == Init /\ [][Next]_vars

-----------------------------------------------------------------------------
(* Correctness.                                                            *)

\* Whatever was accepted, rejected, split or preempted before, each layer
\* starts from the state after exactly the tokens computed so far.
StateRead == pc = "forward" => \A s \in States : Initial(s) = computed

\* A prefix hit hands out the state after exactly the tokens of its blocks:
\* a full column that is held, and what the cache took from it.
CachedStateWhole ==
  \A k \in Cols :
    LET n == (k + 1) * BlockSize IN
      /\ cache[k] \in {NotCached, [t |-> n, c |-> n]}
      /\ (pc = "idle" /\ n <= computed) =>
           \/ temporal[k] = Junk /\ conv[k].base = Junk
           \/ temporal[k] = n /\ conv[k].base = n

\* "Expected 0": no copy leaves the row of the block table, so the guard
\* that skips copies never does.
GuardUnused == hits = 0

=============================================================================
