# Formal models of the Qwen3.8-Flash DGX serving stack

This directory is a verification development beside the repository. It holds TLA+
modules translated from the source, TLC configurations that check them on small
instances, and TLAPS proofs of their safety properties for every instance. Paths
below are relative to the repository's root (`PROJECT.json` prefixes them with
`src/`, so the file `src/patch_never_evict.py` of the repository appears there as
`src/src/patch_never_evict.py`).

`PROJECT.json` is the machine-readable side: components, runs, the mutants that
show each property can fail, the lines every definition stands for, findings,
hazards and theorems.

## 1. The system

The repository serves one large model on one machine whose CPU and GPU share
their memory. It is a set of patches and plug-ins around vLLM, a script that
converts the checkpoint, and tools to measure the result. vLLM itself, the GPU
and the operating system are outside; they are modelled only as far as the code
here depends on them, and such definitions are marked external.

### 1.1 Components

| component | code | state it keeps | operations |
|---|---|---|---|
| never-evict pin pool | `src/patch_never_evict.py:112-285` | free queue, pin queue, `_pinned_ids`, armed hashes, reservations by hash, cap, reference counts and block hashes | `get_new_blocks`, `cache_full_blocks`, `touch`, `free_blocks`, `_acquire_pin`, `set_pinned_hashes`, `reset_prefix_cache`, `get_pin_stats` |
| arming | `src/patch_never_evict.py:286-495` | the needle, `_pin_last_hashes` | hook in `add_request`, prompt hashes, the set of cacheable groups |
| PLE table | `src/vllm_ple_mmap.py:109-256, 389-580, 683-832` | mapped shard files, thread pool, staging buffer, lifetime and window counters | open and validate, gather inline or pooled, deduplicate and expand |
| PLE prefetch | `src/vllm_ple_mmap.py:258-388` | two slots of ids and rows, the last job of each with its event and flags, the pending job, a queue, a worker thread | `prefetch`, `consume`, `_worker`, the synchronous fallback |
| mamba state placement | `src/mamba_utils_guarded.py`, `src/patch_mamba_align_split.py` | running column, accepted count, source column and bias per request; block tables; the guard counter | schedule, pre-copy and post-copy in runner V1 and V2, cleanup, guard |
| mamba batches | `src/mamba_utils_guarded.py:639-1649` | metadata per group, layer and state; staged rows or slots; the pointer list; the snapshot of accepted counts | staging in V1 and V2, the list without drafts, both launches |
| mamba copy kernels | `src/mamba_utils_guarded.py:60-620` | none beyond the memory they copy | tiled memcpy, window shift in two layouts, batch memcpy |
| metrics sidecar | `src/vllm_custom_metrics.py` | started flag and lock, snapshots of lifetime counters, exported counters, gauges | push, `start`, `_refresh_once` |
| guard telemetry | `src/mamba_utils_guarded.py:1161-1187` | the GPU's counter, its mirror on the host, what was logged | report every 512 steps |
| benchmark's metering | `bench/common.py:221-247`, `bench/perf.py` | whether the sidecar was ever seen, the read that opens a section | the first probe, settled reads around each section |
| checkpoint preparation | `prepare.sh`, `tools/*.py` | the disk: shards, backups, index, config, marker, table, hardlinked variant | eight steps, each re-run until it succeeds |
| FP8 dispatch | `src/vllm_fp8_hybrid.py` | the set of fp8 layers | detection in the headers, renaming, choice of a method by module |
| draft head | `src/patch_mtp_draft_vocab.py`, `tools/build_draft_vocab.py`, the two quantizers | packed head, id file, a lazily built head | pack, choose ids, unpack in chunks, scatter the scores |
| exact top-k | `src/patch_qsa_exact_topk.py` | none | tensor arithmetic |
| diagnostics | `src/patch_hit_debug.py`, `src/patch_step_profile.py`, `src/patch_prefill_metrics.py` | budgets, trace numbers, counters | logging, profiling, counting |
| launcher, benchmarks | `serve.sh`, `scripts/`, `bench/`, `tools/eval_quality.py` | none | start a container, drive a server |

### 1.2 How they interact

- The scheduler (vLLM, engine thread) calls the pool; the arming hook runs in
  the same thread inside `add_request`. Everything in the pool is sequential;
  what is hard is the *order* of calls, because a block can be re-armed, lent,
  freed early by a hybrid model's state groups, preempted or reset at any point
  between two of them.
- The model runner's main thread calls `prefetch` early in a step and `consume`
  in the layer; a worker thread fills the slot's rows; the GPU stream runs the
  copies in the order they were issued. The three share two pinned slots and
  coordinate by one done flag and one GPU event per job.
- The mamba kernels run on the GPU after the forward pass and before the next.
  They and the scheduler agree, without talking, on which column of a request's
  block table holds its running state.
- Engine-side threads push sources into the metrics sidecar; its refresher
  thread reads them, and reads the pin's statistics across threads, unlocked.
- The mamba runner pushes the guard's counter to the sidecar through a mirror
  that an asynchronous copy fills; the benchmark reads the sidecar over HTTP and
  knows only that a refresh takes an interval.
- `prepare.sh` and its tools share nothing but files. A crash loses everything
  else. The engine later reads those files, and the FP8 dispatch decides from
  headers and config rules that different tools have written.

### 1.3 What makes each part correct

| part | hard behaviour | what must hold |
|---|---|---|
| pin pool | loans, re-arming while on loan, the cap, duplicate content, resets | no block leaked or in two places; reservations are honest and capped; a reserved hash keeps its block and content; re-arming keeps what is shared |
| arming and scheduling | frees in mid-request, preemption, abort, order of arrivals, starvation | what a finished marked request leaves stays cached while armed; reference counts match the tables; every request that fits ends |
| prefetch | a 5 s wait given up on each side, late answers, worker errors, stale pending jobs, copies still in flight | a lookup delivers its own rows, without a worker too, or its own gather raises; no buffer written while it is read |
| placement | a step that ends at a boundary, drafts accepted or rejected around it, prefix hits, preemption not reported as one | each layer reads the state of exactly the tokens computed; cached states are whole; the guard never fires |
| batches | rows left over from an earlier step, slots against rows, several drafts, chunks over several columns, groups with mixed layers, padded pages, wild blocks | each request's move reaches each of its states, once, and nothing else; its accepted count stays its own; the buffers fit |
| copy kernels | lanes and tiles in any order, overlap, rounding | the copy equals the source as it was; each byte moved once |
| table | shard boundaries, negative ids, short files, duplicates | own row or an error; an accepted table does not fail later |
| draft head | ties, scales rounded to float16 or to zero, rows rounded to bfloat16, padding by duplicates, ids of another tokenizer, specials against the corpus | weights come back; each id is scored by its own row; specials and bytes can be drafted |
| sidecar | start under contention, sources that move under the reader, dicts that grow | one refresher; nothing exported that was not counted (and nothing lost: see findings); gauges settle; every skipped copy is reported |
| metering | a refresh still to come, reads that fail | a section is charged with its own ops only, once any read has found the sidecar before it opens |
| preparation | a crash between any two durable changes, re-runs, downloads that leave files out, links taken for up to date | no original lost, nothing converted twice or undone, the same command finishes; the result is served as it is stored |

## 2. Modules

| module | models | checked by |
|---|---|---|
| `PinPromise` | what the pin promises, with no queue, count or loan | refined by `PinPool` |
| `PinPool` | the patched block pool | `pin_pool` |
| `PinScheduler` (extends `PinPool`) | arming, and vLLM's scheduler around the pool | `pin_scheduler`, `pin_liveness`, `pin_reset` |
| `PlePrefetch` | main thread, worker, GPU stream over two slots | `ple_prefetch` |
| `PleTable` | acceptance and gather of the table | `rows` |
| `DraftHead` | the draft head from checkpoint to logits | `rows` |
| `MambaAlign` | which column holds the state, both runners | `mamba_align` |
| `MambaBatch` | from requests to addresses: staging, metadata, launches | `mamba_kernels` |
| `MambaCopy` | the byte copies the kernels make | `mamba_kernels` |
| `MetricsSidecar` | start, refresh, sources, the guard's mirror, the benchmark | `metrics`, `metrics_lost` |
| `Prepare` | the preparation with crashes and re-runs | `prepare`, `prepare_swap` |
| `HybridServe` (extends `Prepare`) | the FP8 dispatch on whatever the preparation leaves | `prepare` |
| `Sorting` | sorted ids, used by `PleTable`, `DraftHead` and `MambaBatch` | `rows`, `mamba_kernels` |
| `PinProofs` | theorems about `PinPool` and `PinScheduler` | TLAPS |
| `PlePrefetchProofs`, `MambaAlignProofs`, `MetricsSidecarProofs` | theorems about the module each is named after | TLAPS |
| `RowsProofs` | theorems about `PleTable` and `DraftHead` | TLAPS |
| `MambaKernelsProofs` | theorems about `MambaBatch` and `MambaCopy` | TLAPS |
| `PrepareProofs` | theorems about `Prepare` and `HybridServe` | TLAPS |
| `ListLemmas` | lemmas `RowsProofs` and `MambaKernelsProofs` share: counting, sorted sets, joined sequences, totals | TLAPS |

Each `MC...` module gives a specification its finite constants. `MCRows` and
`MCMambaKernels` put two modules of one layer side by side: a behaviour is of one
or of the other, chosen by the initial state, so one run checks both. Operators whose
comment begins with "Mutant" are plausible bugs in the definition that follows;
they are used only to show that a property notices them.

### How state and actions correspond to the code

**PinPool.** One variable per field of the patched `BlockPool`. The two queues
are sets: their order decides only *which* of several candidates meets the cap
first (and which free block is evicted first), and the actions allow the outcome
of every order. `Acquired` says what a loop of `_acquire_pin` over a freed list
can return in any order, `Kept` what the drain loop of `set_pinned_hashes` can
keep. `Reserved` is the key set of `_pinned_by_hash`. The null block is left
out; `NumGpuBlocks` counts it, since the cap and the reset test do.

**PinScheduler.** `AddRequest` is the arming hook: needle (the marker without
its first and last token), subsequence match, prompt hashes of every cacheable
group, and the comparison with `_pin_last_hashes`. `Admit`, `Continue`,
`Allocate`, `Preempt`, `Compute`, `Finish`, `Abort` are vLLM's scheduler, seen
as the calls it makes into the pool; `busy` keeps the stretches of one
allocation together, as nothing else runs in that thread between them. A block
key stands for its whole prefix, because hashes are chained. State groups give
back all but the last block while a request runs.

**PlePrefetch.** A batch is a number and a buffer's content is the batch it came
from. Each GPU copy and each worker access is two steps, so a buffer rewritten
in between is seen as torn. `SlotStuck` and `RowsLate` are the two time-outs:
they are enabled whenever the job is unfinished, as a slow disk allows.
`GatherRaises` is the fallback's gather finding an id out of range or a shard
missing; the error ends the engine's loop, so no batch follows. A batch may be
looked up without a prefetch (`NewBatch` goes to either), and with a padded row
count (`Consume`). A prefetch whose lookup never comes is not modelled:
`prepare_inputs` is called for the forward pass it belongs to.

**PleTable.** A row's content is its global id. `Setup` accepts or refuses a set
of files as `_setup_table` does; `GatherFast` and `GatherPooled` are the two
ways of `_gather`; workers take tasks in any order.

**MambaAlign.** A block's content is the number of tokens whose state it holds.
`temporal` and `conv` are the two kinds of state a layer keeps: after the j-th
draft the temporal state is in column `idx + j`, the convolution state is a
window in column `idx` shifted by j. `Schedule` is the scheduler with the patched
chunk split, `PreprocessV1/V2`, `Precopy`, `Postprocess` are the decisions of
the file; kernel programs of one step run in any order (`todo`).

**MambaBatch.** A copy is a set of pairs of byte addresses. `Preprocess` and
`Postprocess` are a step's two ends for a whole batch, in any row order:
`Staged` (V1, by row), `StagedSlots` (V2, by slot) or `Entries` (the pointer
list used without drafts) say what the kernels will read, `Launch` what the grid
of row and state copies with it. Staged arrays outlive the step, as they do in
the code. How many tokens and drafts a step may schedule is the constant `Schedules`,
per runner, with at most `MaxDrafts` drafts; the sampler accepts any number of
them. What should have been copied (`want`) is computed from the requests
alone and written out tensor by tensor in `Meant`, without metadata or rows.

**MambaCopy.** Memory is a function from addresses to the address a byte came
from. A copy is a plan: per lane, a list of moves. Each move loads and then
stores, in any interleaving of lanes; only `batch_memcpy_kernel` has a barrier
between the two, and only there the model has one.

**MetricsSidecar.** Only reads and writes other threads can come between are
steps: the read that is exported and the read that becomes the snapshot are two,
the walk over the pin's dictionary and the second count of the pin are two, and a
dictionary that grows during the walk ends the refresh. `PrecopyStep` and
`MirrorCopy` are the guard's report and the asynchronous copy it starts.
`Probe`, `OpenRead` and `CloseRead` are the benchmark's reads. Each may fail
(`Scrape`), whatever the endpoint does, because each has a time-out; each that
succeeds sets `seen`, and only then does the next settled read wait. `waited`
says whether a whole refresh lay inside the wait, which is what sleeping an
interval and a second is for, with an interval the sidecar takes as it is (it
clamps its own to 1 to 60 s, `bench/common.py:221` does not). `calm` remembers
whether the read that opened the section was waited for. Reports do not wait for
the copies they ask for: up to `MaxCopies` may be on their way.

**Prepare.** Each action is one durable change; `pc` and `loaded` are lost in a
crash. A shard's content is the sequence of conversions applied to the original;
copies and the config dump, which are not atomic, are two steps with a torn file
in between. A download may end with referenced files left out, as `prepare.sh:94`
warns. A link that is there may be renewed or kept: whether it is kept depends on
sizes and times, which the model does not have, so it allows both.

**HybridServe.** No state of its own: from the disk of `Prepare` it computes how
each tensor is stored (`Stored`) and which method each module of the engine gets
(`QuantMethod`). Names are sequences of their dotted components. The rules of the
config are of two kinds: a word found anywhere in a name (`RuleWords`; `Spelled`
gives the components that contain the word, `shared_expert_gate` as well as
`shared_expert`) and a whole component between dots.

**DraftHead.** Weights are small integers; scales and dequantized rows are kept
`Half` times as large, which makes every number integral. A scale is rounded to a
multiple of `Smallest` (`Float16`), and it is the rounded one that divides and that
is tested for zero (`Slot`). Scales far above float16's smallest number need no
rounding, because weights are bfloat16: eight digits fit in eleven. A row is rounded
to `Exact` units of a power of two (`BFloat16`). `Word` and `Field` pack and unpack
by powers of two. Where an id occurs twice in a scatter, either score may stay. The
score of an id is the row it was computed from, so a wrong row is a wrong score.

The modules whose type invariant no run lists (`Prepare`, `PlePrefetch`,
`PinScheduler`, `MetricsSidecar`) keep it as the declaration of their variables;
it is the first conjunct of the inductive invariant that section 4 proves.

## 3. Runs

All bounds are constants of the configurations. TLC explores each instance
completely.

| run | distinct states | instance and why it is enough |
|---|---|---|
| `pin_pool` | 4.6 thousand (up to symmetry) | four blocks, three hashes, cap 2 (40% of 5), two holders per block. Two hashes fit the cap and a third does not; two blocks can cache the same hash; one may be on loan while the other comes home. Every order of calls, every armed set. |
| `pin_scheduler` | 77 thousand | two marked conversations sharing a beginning and an unmarked request, five blocks, three-token prompts on a state group, so blocks are given back in mid-request. |
| `pin_liveness` | 25 thousand | three requests on three blocks with one pinned (34% of 4): the pin and the requests compete for everything there is. |
| `pin_reset` | violation | the two groups together; found at the second arrival. |
| `ple_prefetch` | 361 thousand | four batches let each slot be taken twice, once while its last job is stuck; batches of one and two rows fit a slot and can be taken for each other when padded, three rows do not fit. |
| `mamba_align` | 121 thousand | blocks of three tokens, two drafts, thirteen tokens (four boundaries), two preemptions: a step ends before, at and after a boundary with each number of accepted drafts, in both runners. |
| `mamba_kernels` | 441 thousand | `MambaBatch`: two requests in two rows or slots, in either order, blocks of three tokens, seven tokens; without drafts a token or a chunk of four at a time, V1 a token and two drafts, V2 either two drafts or a chunk of four; an attention group, a group of mixed layers and a plain one; both window layouts; three runners; block tables with one wild entry at -1 or one past the pool. Two drafts, as the launcher sets, give each bias from 0 to 2; a chunk of four goes to the next column or the one after it; seven tokens are two boundaries, so a stale row has a step to come from; two rows are enough to confuse a row with a slot. `MambaCopy`: words of two bytes, four lanes, two tiles: every alignment of source and destination, tokens that are no whole number of words, tiles that are empty or half full, windows that overlap by all but one token. |
| `rows` | 379 thousand | `PleTable`: five rows in one to four parts (full, short and empty last shards), files missing, short, long, in excess; id lists with duplicates, strays and negatives; both sides of the inline limit; tasks cut at chunk and at shard boundaries; two workers. `DraftHead`: six rows, one of them padding; weights of three bits, two in a word, two in a group, a smallest scale of 2 and eight units of bfloat16, the first group of the first row in every pair of -6, -3, -1, 0, 1, 3, 6 and 7, so there are ties, a group of zeros, scales that are rounded up, down and to zero, and products that bfloat16 rounds; id files of up to three ids with strays and duplicates; a tile of three and chunks of two. |
| `metrics` | 120 thousand | two threads starting, one counter, and one moving source at a time: ops with the benchmark, guard hits, the pin growing to 2. The sources share nothing but the refresher, which visits them in a fixed order, so they are moved one by one. `Period` 2 stands for 512: a step that reports and one that does not. `MaxCopies` 2 lets a report come while the copy before it is still on its way. `MaxCount` 2 lets one event fall on each side of a read. |
| `metrics_lost` | violation | the same with one thread. |
| `prepare` | 3.4 thousand | four shards: head and side layers, side layers, table only, extra tensors; three crashes or re-runs at any positions. Three, because recovery from a crash during a recovery is one more than the code's longest memory (a backup and its marker). The tensors of a linear-attention layer, a self-attention layer and the draft layer are spread so that each fused module has parts in both converted shards. |
| `prepare_swap` | violation | one crash between the two renames of a swap, or inside the dump of `config.json`. |

`CHECK_DEADLOCK FALSE` appears where the modelled activity ends: a copy, a
call, a script that is done, or a bounded number of batches, tokens or
increments. The pool and the scheduler have no such end, and deadlock is checked
there.

### What the runs check

- **Pool**: `OnePlace`, `PinIndexed`, `ReservationHolds`, `CapRespected`
  (invariants); `NeverEvicted`, `RearmKeepsShared`, `FitsThenPinned` (what a step
  may never do); `KeepsPromise` (refinement of `PinPromise`).
- **Scheduler**: `RefCountsMatch` ties the pool's counts to the block tables;
  `ArmedStaysCached` is the purpose of the patch, from one turn of a conversation
  to the next; `EveryRequestEnds` says pinning does not starve the pool.
- **Prefetch**: `OwnRows`, `NoRace`, `EveryLookupDelivers` (its rows, or the error of
  its own gather).
- **Placement**: `StateRead`, `CachedStateWhole`, `GuardUnused`.
- **Batches**: `RightMoves` (each request's move reaches every state tensor of
  every mamba layer, once, and nothing else is copied), `ListFits` (entries
  against the size computed once from the model), `AcceptedOwn`.
- **Copies**: `CopiesAsMemmove` (as a memmove would), `EveryByteOnce`.
- **Table**: `OwnRow`, `AcceptedServes`.
- **Draft head**: `WeightsComeBack` (to one and a half steps of the rounded scale:
  one for rounding or for the slot a tie would need, half a step for bfloat16; and
  what float16 takes from the scale), `OwnScores`, `ReservedDraftable`.
- **Sidecar**: `OneRefresher`, `NeverOvercounts`; `GuardReported` (every skipped
  copy is logged and the tripwire counter has grown, if steps go on);
  `GaugesSettle` (the gauges show the pin once it is left alone); `SectionsApart`
  (once any read has found the sidecar before a section opens, the section is not
  charged with earlier ops, whichever reads fail).
- **Preparation**: `OriginalKept`, `NeverTwice`, `IndexBehind`, `NeverUndone`,
  `DoneIsServable`; `ResumesWhenWhole` (if the script is only ever stopped with
  whole files, and from some point on downloads leave nothing out, it finishes);
  and `ServedAsStored`, across tools and
  engine: a directory whose config is rewritten, at whatever point of whatever
  re-run, gives each module the method of the form its tensors are stored in.

### Fairness

- `pin_liveness` (`FairSchedSpec`): the engine loop calls `schedule()` for ever
  and each call visits every running request, then the head of the waiting
  queue. An allocation in progress (`Allocate`, `Preempt`, `Compute`) goes on:
  weak fairness. `Admit`, `Continue` and `Finish` are disabled while another
  request's allocation is in progress and enabled again after it, so they get
  strong fairness. Nothing is assumed of arrivals, aborts or resets.
- `ple_prefetch` (`FairSpec`): the main thread runs and its waits time out; the
  GPU runs its stream. Nothing at all is assumed of the worker, whose disk may
  hang: that is the point of the time-outs.
- `metrics` (`FairSpec`): a started `start()`, the refresher's thread and the
  asynchronous copy go on. Nothing is assumed of the traffic; `GuardReported`
  assumes in its own premise that steps go on, `GaugesSettle` that the pin is
  left alone.
- `prepare` (`FairSpec`): a started script goes on, and whoever runs it starts it
  again after a stop. Crashes are bounded by `MaxCrashes`.

### Findings

1. `pin_reset`, `MarkedArrivalArms`. After `reset_prefix_cache` has dropped the
   pin, the scheduler still remembers `_pin_last_hashes`. If the same marked
   prompt arrives, `_arm_never_evict_pin` returns at
   `src/patch_never_evict.py:444` and nothing is pinned, against the help text at
   line 49. Another marked prompt in between repairs it.
2. `prepare_swap`, `Resumable`. A crash between the two renames of a shard swap
   leaves the shard with no file under its name. `prepare.sh:108` finds the
   checkpoint incomplete and exits before the tool runs that could read the
   backup, as `tools/quantize_lm_head_int8.py:93` means it to. The header promises
   that the same command can be run again. The run also allows a crash inside the
   dump of `config.json`, which has the same effect for another reason: the torn
   file does not parse (`prepare.sh:133`).
3. `metrics_lost`, `NothingLost`. `_refresh_once` reads the live dictionary twice;
   what is counted between the two reads is in the snapshot but never exported
   (`src/vllm_custom_metrics.py:165`).

### Observations that are not findings

- A request that needs more blocks than the pool without its pinned part, beside
  its own pinned hits, is never admitted: idle pinned blocks are outside the free
  count, and hits on them are charged against it. Which requests fit is the
  operator's choice of the fraction; `pin_liveness` uses an instance where each
  fits.
- A crash while a backup is being copied leaves a torn `config.json.autoround` or
  `*.with-ngram.bak`, and the re-run keeps it, because it only asks whether the
  file exists (`prepare.sh:138`, `tools/strip_ngram_index.py:28`). No property
  reads these two backups, because no step of the script does.
- Guard hits pushed between the refresher's reads of `_guard_hits`
  (`src/vllm_custom_metrics.py:169-171`) never reach the Prometheus counter: the
  second kind of loss behind finding 3. The first hit, and the log, are never
  lost (`GuardReported`).
- With prefetching on, rows and bytes that the worker gathers are counted neither
  in the window nor in the lifetime counters, which describe the lookups of the
  synchronous path; and `_stats_log` resets its window without the two prefetch
  counts (`src/vllm_ple_mmap.py:583,630`).
- The window shift in place takes no barrier between load and store, and needs
  none: tokens are moved in ascending order and every token is cut among the
  lanes at the same offsets, so the only bytes a lane overwrites that somebody
  still wants are bytes it has itself loaded before. `mamba_kernels` shows it for
  tokens that are, and that are not, a whole number of words; `CopyIsMemmove` is
  the theorem.
- The pin's two gauges are read one after the other without a lock; they may be
  one refresh apart, and a dictionary that grows during the walk ends a refresh
  early. Neither lasts (`GaugesSettle`).
- The benchmark's first probe may time out while the sidecar serves
  (`bench/common.py:237-240`). The settled read that opens the first section then
  does not wait (line 235) but may succeed, so the section is charged with what
  the refresher still owed the warm-up, against `bench/perf.py:31-34` ("as a delta
  around that section only"). From the second read that succeeds on, sections are
  apart: that is the premise of `SectionsApart`.
- A weight that ties with the largest of its group, with the opposite sign, comes
  back a whole step short, because there is no slot for it; with the rounding of
  the row that can be more than a step. A group whose scale float16 rounds to zero
  comes back as zeros. Both are within the bound of `WeightsComeBack`.
- The draft head's padding is harmless because it repeats an id: the scatter may
  keep either of two equal scores. A file without any id of the model leaves
  nothing to build, and the first draft fails.

## 4. Proofs

Seven modules hold the theorems, one per component or pair of components, and
`ListLemmas` what two of them share. A theorem that states a property of section 3
shows it for every value of the constants that the module's assumptions allow; TLC
shows it on one instance.

| module | theorem | states |
|---|---|---|
| `PinProofs` | `PoolInvariant`, `PoolTypeCorrect` | `IInv`, `TypeOK` |
| | `BlocksInOnePlace`, `PinStaysIndexed`, `ReservationsHold`, `PinCapped` | `OnePlace`, `PinIndexed`, `ReservationHolds`, `CapRespected` |
| | `PinnedNeverEvicted`, `SharedPrefixStays`, `FittingPrefixIsPinned` | `NeverEvicted`, `RearmKeepsShared`, `FitsThenPinned` (action properties) |
| | `PoolKeepsPromise` | `KeepsPromise`: the refinement of `PinPromise` |
| | `SchedulerInvariant` | `SInv` |
| | `SchedulerUsesPool` | `SchedSpec => PoolSpec`: the scheduler makes only calls the pool expects |
| | `PinHoldsUnderScheduler` | the pool's promises, under the scheduler |
| | `CountsMatchTables`, `ArmedContentStays` | `RefCountsMatch`, `ArmedStaysCached` |
| `PlePrefetchProofs` | `PrefetchInvariant`, `PrefetchTypes` | `IInv`, `TypeOK` |
| | `LookupsGetOwnRows`, `WorkerAndStreamApart` | `OwnRows`, `NoRace` |
| `RowsProofs` | `GatherInvariant` | `TInv` |
| | `IdsGetOwnRows`, `AcceptedTableServes` | `OwnRow`, `AcceptedServes` |
| | `DraftInvariant` | `DInv` |
| | `DraftScoresOwnRows`, `ReservedStayDraftable` | `OwnScores`, `ReservedDraftable` |
| | `PackedWeightsComeBack` | `WeightsComeBack` |
| `MambaAlignProofs` | `PlacementInvariant` | `AInv` |
| | `LayersReadState`, `CacheHoldsWholeStates`, `GuardNeverFires` | `StateRead`, `CachedStateWhole`, `GuardUnused` |
| `MambaKernelsProofs` | `BatchInvariant`, `CountsStayOwn` | `BInv`, `AcceptedOwn` |
| | `MovesInvariant` | `MInv` |
| | `MovesReachAll`, `BuffersFit` | `RightMoves`, `ListFits` |
| | `CopyInvariant` | `CopyInv` |
| | `CopyIsMemmove`, `NoByteTwice` | `CopiesAsMemmove`, `EveryByteOnce` |
| `MetricsSidecarProofs` | `SidecarInvariant` | `IInv` |
| | `RefresherRunsOnce`, `CountersNeverOvercount`, `SectionsStayApart` | `OneRefresher`, `NeverOvercounts`, `SectionsApart` |
| `PrepareProofs` | `PrepareInvariant`, `PrepareTypes` | `IInv`, `TypeOK` |
| | `OriginalsAreKept`, `QuantizedOnce`, `IndexStaysBehind`, `DoneServable`, `ConversionsStay` | `OriginalKept`, `NeverTwice`, `IndexBehind`, `DoneIsServable`, `NeverUndone` |
| | `RewrittenIsFinal`, `ServedWhateverCrashed` | `FInv`, `ServedAsStored` |

### Assumptions

Each is a named `ASSUME` of the module that declares the constants, and TLC
evaluates it in the run of that module.

- `PinPoolAssumption`: finite sets of blocks and hashes, a fraction from 0 to
  100, a positive bound on holders. `PinSchedulerAssumption`: finitely many
  requests, non-empty prompts, positive block sizes with a largest one, and
  hashes for every full block of a prompt in a cacheable group.
- `PlePrefetchAssumption`, `SidecarAssumption`, `TableAssumption`: ranges of the
  numbers; the guard's counter is not one of the keys (`SidecarAssumption`; any
  number of its copies may be on their way); a table has at least one file; id lists
  are sequences of integers.
- `HeadAssumption`: positive sizes; groups, words and padding divide as the
  quantizers assert; the tokens are rows of the head; a head has `Out` rows of
  `In` integers; a corpus holds ids of the tokenizer. A hand-made file may hold any
  integers. `FloatAssumption`: the weights are bfloat16, a number of steps is one
  that bfloat16 holds, and none of the numbers is beyond the powers of two the
  model goes through.
- `AlignAssumption`: fewer drafts than tokens in a mamba block (this model's blocks
  have 1600, `src/patch_mamba_align_split.py:6`), and the smallest block size of all
  groups is no larger than the mamba block.
- `BatchAssumption`: ranges; `Schedules` gives each runner any set of steps, with at
  most `MaxDrafts` drafts and none for the list runner, which is the one used
  without drafts; a mamba block holds more tokens than a step has drafts, so that
  the tokens a step accepts reach one boundary at most; the states of a layer lie
  one after the other inside its page; a cache group has a layer, and its layers
  keep either all a state or none; without drafts (the list runner, which has no
  guard) block tables hold blocks of the pool in every column a request can come to.
- `TablesApart` (of `MambaBatch`): two requests, or two groups, have no block of
  the pool in common. It makes the bytes of two moves differ. It leaves out one
  thing the code allows: requests that read a cached prefix from the same block,
  which are the subject of `MambaAlign`, and whose destinations differ all the
  same.
- `CopyAssumption`: a block has at least as many lanes as a word has bytes
  (`COPY_BLOCK_SIZE` is 1024, a word 8), so that one access of each lane covers the
  bytes at an end; a tiled copy goes to another place that does not overlap its
  source, or to the source itself; a batch copy goes to such a place or to the left;
  a shift is by at least one and at most all tokens of the window.
- `PrepareAssumption`: the head's and the extra shard exist; shards that hold
  only the table are not among those converted. `HybridAssumption`: the fp8
  shards are the homes of the converter's targets.
- `NamesAssumption` (of `HybridServe`) is about data: the names of this checkpoint's
  tensors and the rules the script writes. Two tensors never get the same name in
  the engine; a target's name is not the prefix of another module's; a fused module
  is made of targets only or of none; the rules written to the config leave
  unquantized what is neither a target, nor the head, nor an expert; none of their
  words is found in the head's name. TLC evaluates it on the tensors of the
  instance; a theorem about every checkpoint could not hold, because a config rule
  is a pattern over names.

### Inductive invariants, and why their parts are needed

**Pool.** `IInv == TypeOK /\ OnePlace /\ PinIndexed /\ ReservationHolds /\
CapRespected`. No proper part is enough. That an idle block is removed from the
queue it is really in (`OnePlace`, in `touch`) needs `pinnedIds = pin`
(`PinIndexed`). That a pinned block holds its own reservation survives `touch`
and `free_blocks` only because a reservation names a block that still caches the
content, pinned or held (`ReservationHolds`): otherwise a block that came home
could share its hash with a pinned one and take the reservation from it.
`ReservationHolds` in turn needs `OnePlace`, because `get_new_blocks` wipes the
content of free blocks, which must not include a reserved one. The cap's step in
`set_pinned_hashes` counts the hashes of the blocks kept, which is at most the
number of blocks. There is a lemma per action, lemmas about the operators (what
`ReservedBy` returns, what `free_blocks` does to reservations), and `NextIInv`
joins them. The three action properties follow from `IInv` and the same lemmas.
For the refinement, the mapping is `armed <- pinnedHashes`, `cap <- pinCap`,
`keeper <- pinnedByHash`, `content <- blockHash`: `set_pinned_hashes` and
`reset_prefix_cache` are `Replace`, every other action is `Keep` or a stutter.

**Scheduler.** `SInv == IInv /\ Queues /\ BusyRuns /\ Tables /\ RefCountsMatch /\
HotHeld`. The pool expects that a block given out is held and that only held
blocks come back; both are facts about tables. `FillsOnce` (a block is in a
table at one place only) and one queue per request make the count of holders go
up and down by exactly one. `HotHeld` is the turn from one request to the next:
armed content is reserved, or some block that caches it is still in use, so that
the last `free_blocks` finds it. `SchedulerUsesPool` has one step per scheduler
action, each with the pool call it is; it is what carries the ten theorems of
the pool over.

**Prefetch.** No lock protects the slots; the order of the stream does.
`EventBehind` says that the event of a slot's open job stands behind every copy
still to come in or out of that slot, so a worker that has waited for the event
is alone with it. `JobOrder` is why there is one such job: only the last job of a
slot is open, which a time-out does not change. `BuffersHold` and `CopyRuns` say
what is in the buffers for those who will read them, `MainOrder` that the pending
job is the one of the batch being looked up.

**Table.** The ids are sorted (`Sorted` is described by rank: at each place the
element with that many below it), so the ids of a shard are together; the cuts
of a run cover it and none crosses into the next shard (`Cut`); a place has its
row, or a task not yet done will fetch it (`Fetched`). `AcceptedServes` comes
from the check of file sizes: every shard but the last is full, so an id below
the vocabulary has its row in its file.

**Draft head.** `DInv == DraftTypes /\ FromTool /\ Selected /\ InPlaces /\ Scored`.
`Selected` needs that a mask keeps exactly the ids of the model (`MaskedIds`) and
that padding adds none (`PaddedIds`); `InPlaces` that chunks are appended without
a gap, which makes the scatter's choice among duplicates harmless. What the tool
keeps is `Kept`: `FirstFull` says that sets which grow by one element at most,
taken until one has the number asked for, do not overshoot it unless the first
already did; it is used twice, for the corpus and for the filling.

`WeightsComeBack` (with `BackInv`: a head stays one of `Heads`) has two halves. A
slot says what it was made of (`SlotBack`): rounding is off by half a divisor at
most (`Rounding`), and no number of a group is larger than the picked one
(`PickedLargest`). The scale is the picked one rounded by half of `Smallest` at most
(`Float16Near`), so a quotient passes the outermost slots by no more than that
costs over `Half` steps, and the slot a tie would need costs one step more
(`Clamped`); a group without a scale has the middle slot, and its weights are
no more than half of `Smallest`. A row's number is at most `Half` scales, which
bfloat16 holds to half a scale (`BFloat16Near`).
And a slot is found where it was put (`FieldOfWord`): what lies below it in the
word is less than one of its units and what lies above is whole multiples of the
next. Powers of two are the recursive function `Power`, because the provers know
nothing of `^`.

**Placement.** The core is a lemma about columns and boundaries, in terms of
`End(k)`, the tokens up to the end of column k: a number of tokens lies in one
column, and the boundary that the accepted tokens reach is the end of the
running column or of the one before. The parts of `AInv` follow a state through
a step: `Between` (where it rests), `Moving` (during the pre-copy: where it was,
or where it goes), `Ready` (all there when the forward pass starts), `Written`
(after it: the states of all verified tokens, and the boundary's state saved or
still to be saved). `ColumnsWhole` says that columns that were full are never
written again, `ChunksClean` that while a prompt is computed in chunks nothing
lies beyond them, `Planned` what the patched chunk split guarantees, `CacheWhole`
what a prefix hit brings back.

**Batch.** `BInv == Typed /\ Staging /\ AcceptedOwn`. The kernel resets a count
when the column it saves to is the running column; the property resets it when
the accepted tokens reach the end of that column. `InPlaceIffReached` shows the
two are the same, from three lemmas on rounding: nothing but the last accepted
token can end the running column, because the drafts are fewer than the tokens
scheduled. `Staging` (no request twice in a batch; each column is the one its
last token falls in) is what that lemma needs while a step runs.

**Moves.** `MInv == BInv /\ Deployed /\ Kept /\ Prepared /\ RightMoves /\
ListFits`. What has to be shown is one fact about a step, that its copies are the
moves of its requests; the rest is what the next step needs of this one. `Kept`
says that every column lies in the block table and that every count is at least
one: a bias is a count less one, and a negative one would copy from before the
state. `Prepared` says that the metadata, built once, is that of the groups, for
whichever step uses it; `Deployed` that groups, layout and tables are those of a
deployment. The argument is in four layers. The loops over groups, layers and
states, joined into one list, visit every state once (`AllStates`): this is
`FlattenDeep` of `ListLemmas`, twice, and that the sorted group ids name each
mamba group once (`GroupIds`). One program, or one entry of the list, copies what
is meant of one state, although it counts bytes, rows or units and the property
counts elements (`ProgramMeant`, `CopySpecMeant`); `RegionCells` is the step from
the one to the other. What is meant of two states, or of two requests, lies
apart: in the page, in the pool, or in different pools (`PiecesApart`). And what a
step stages, whichever runner does it, is each request's move (`StagedMove` for
the pre-copy, `SavedMove` for the end of a step, where `BoundaryReached` says that
the kernel's boundary is the only one the accepted tokens reach). `Carries` is
where the four meet: it says which move and which state each copy belongs to, and
`CarriedRight` derives `RightMoves` from it, for the grids and for the list.
`ListFits` is then a count (`SumAtMost`): at most `EntriesPerReq` entries for each
request, and no request twice in a batch.

**Copy.** The proof has two halves. The first is about plans, and knows no time:
`Fulfils(j, S, d)` says that the moves of all lanes cut the destination `S` into
disjoint pieces (`Covers`), that each reads `d` bytes further on, and that a move
which reads what another overwrites comes no later than that one in the same
lane, or in the same round behind the barrier (`Ordered`). It is shown for the
words and the bytes at the ends (`StridedCovers`, `BytesCovers`), for their
concatenation (`MemcpyCovers`), for a shift of tokens one after the other
(`FlattenPlaces`, `InTurnCovers`, `InTurnOrdered`), and so for every job
(`EveryJob`). What makes the shift in place safe is `MemcpyShifted`: copies to
places a token apart are cut by their destination, so the lane that reads a byte
in one token's copy is the lane that overwrites it in a later one. The second half
is `CopyInv == CopyTyped /\ HeldAsFound /\ WrittenAsWanted /\ ReadFirst`, over
the interleavings. `ReadFirst` (what has been overwritten had been loaded by all
who read it) is what a load needs to find its source as it was; that a store
keeps it is `Ordered`, and for the batch copy the guard of the barrier.

**Sidecar.** Three parts that stand apart: `StartOnce` (the holder of the lock is
the only one that starts anything), `GuardOrder` and `LifeOrder` (each count is
a late copy of the one before it, except for the keys the running refresh has
dealt with), `CalmSeen`, `WholeWait` and `Charged` (once a whole refresh has passed
in the wait there is nothing left that a section could be charged with). `calm`
says for the open section, and `row.calm` for the last result, that there was such
a wait; a read that fails leaves `Unread` behind, and nothing is charged.

**Preparation.** A part for each thing a re-run relies on: which forms a shard can
have (`ShardForms`), that nothing is converted without the marker (`MarkerFirst`),
that every shard is there but for the one being replaced (`Present`), that what a
converter has read is unconverted (`Read`), that the index is behind the shards
(`IndexTrue`), what each finished step has left (`Steps`, `VariantSteps`), and that
a backup is what its converter found (`Backups`). `OriginalKept` is inductive only
together with `Present` and `Backups`. A link may be kept as it is, so it must have
been right when it was made: a config once touched stands over final shards
(`Settled`), and links are made over a touched config only (`Follows`). For the
dispatch, `FInv` adds the same of the variant's config (`VariantSettled`) and that
both stay (`WrittenOnce`): no re-run touches a shard any more, so what the headers
say is what the layer's tensors are. The rest of `ServedWhateverCrashed` is about
names.

The type invariant is the first conjunct of each invariant, and stated as a
theorem of its own where the module has a `TypeOK`
(`PoolTypeCorrect`, `PrefetchTypes`, `PrepareTypes`).

### Only model-checked

- Liveness: `EveryRequestEnds`, `EveryLookupDelivers`, `GuardReported`,
  `GaugesSettle`, `ResumesWhenWhole` (fairness and ENABLED are outside the
  prover).
- The three violations, which are counterexamples.

## 5. Not modelled

- The numeric content of tensors: the arithmetic of fp8 blocks, the second
  quantization of an int4 draft head (Marlin's, in vLLM), the exact top-k. The
  dispatch's check of the block size compares tensor shapes the model does not have.
- Hit tracing, prefill metrics, the step profiler, evaluation, the launcher, table
  stripping: log points, one-statement counters, a one-thread diagnostic whose
  files nothing reads, clients and straight lines. Of the benchmarks only the
  metering is modelled; requests, rates and printing are not.
- The PLE statistics window, which feeds one log line; the parsing of safetensors
  headers; the synchronous path's staging buffer as a component of its own (in
  `PlePrefetch` it is the fallback's buffer, protected because reading the ids
  back drains the stream before it is reused).
- The "all" mode functions of `mamba_utils_guarded.py`, which the image does not
  select.
- Order within the pool's queues (which block is evicted first).

## 6. Plan

Order of work, most important behaviour first. All of it is done.

1. `PinPromise`, `PinPool`: the pin, checked and refined.
2. `PinProofs`: type correctness, invariant, action properties, refinement.
3. `PinScheduler`: arming, composition with the pool, liveness.
4. `PlePrefetch`: time-outs, races, delivery without a worker.
5. `Prepare`: crashes and re-runs.
6. `MetricsSidecar`: races of threads that share counters; the guard's mirror, the
   pin read across threads, the benchmark outside.
7. `MambaAlign`, `MambaCopy`: placement, and the copies it relies on.
8. `PleTable`: acceptance and gather.
9. `MambaBatch`: the layer between placement and copies.
10. `HybridServe`: what the engine makes of the preparation's result.
11. `DraftHead`: the draft head from checkpoint to logits.
12. Proofs of the scheduler over the pool, prefetch, table, draft head, placement,
    batch counts, byte copies, sidecar, preparation and dispatch.
13. Proofs of the batch's moves and buffers (`ListLemmas`, the last part of
    `MambaKernelsProofs`).
14. Proof of `DraftHead`'s packing. Every safety property of the passing runs is now
    a theorem; liveness stays with TLC.

The set stays one run per question: modules that look at the same layer from two
sides share a run (`mamba_kernels`, `rows`).
