----------------------------- MODULE MambaBatch -----------------------------
(***************************************************************************)
(* src/src/mamba_utils_guarded.py, from requests to addresses: a batch of  *)
(* requests is turned into rows (V1), slots (V2) or a list of pointers (no *)
(* drafts), the layout of every state tensor into flat metadata, and a     *)
(* grid of programs (row x state) into copies.  MambaAlign says which      *)
(* column a request needs copied to which, MambaCopy how bytes are moved;  *)
(* here it is whether each request's move reaches each of its states, and  *)
(* nothing else.                                                           *)
(*                                                                         *)
(* A copy is a set of pairs <<to, from>> of byte addresses.                *)
(***************************************************************************)
EXTENDS Sorting, Sequences, SequencesExt

CONSTANTS
  Slots,      \* requests are numbered 1 .. Slots: max_num_reqs
  Configs,    \* the deployments considered: cache groups (a sequence of groups,
              \* each a sequence of its layers' specs, "attention" for those that
              \* keep no state), layout, runner, and block tables (request -> group
              \* -> column -> block, some of them wild)
  States,     \* mamba spec -> its state tensors
  Page,       \* bytes of a block of one layer, padding included
  NumBlocks,  \* blocks of a pool
  BlockSize,
  MaxTokens,  \* bound: tokens of a request
  MaxDrafts,  \* num_speculative_tokens
  Schedules   \* runner -> what its steps may schedule for a request:
              \* <<tokens, drafts among them>>

Chunks == {s[1] : s \in UNION Range(Schedules)}

CeilDiv(n, d) == (n + d - 1) \div d

\* The columns that a request may come to.
InReach == 0 .. CeilDiv(MaxTokens, BlockSize) - 1

\* Bytes of a state.
StateBytes(s) == (IF s.conv THEN s.width * s.inner ELSE s.inner) * s.elem

\* The states of a block are kept one after the other in its page; a mamba
\* block is no shorter than what a step accepts.
ASSUME BatchAssumption ==
  /\ {Slots, Page, NumBlocks, BlockSize, MaxTokens} \subseteq Nat \ {0}
  /\ MaxDrafts \in Nat
  /\ Schedules \in [{"list", "v1", "v2"} -> SUBSET ((Nat \ {0}) \X (0 .. MaxDrafts))]
  /\ \A s \in Schedules["list"] : s[2] = 0
  /\ MaxDrafts < BlockSize /\ BlockSize <= MaxTokens
  /\ \A spec \in DOMAIN States :
       /\ States[spec] \in Seq([conv : BOOLEAN, at : Nat, width : Nat,
                                inner : Nat \ {0}, elem : Nat \ {0}])
       /\ \A k, l \in DOMAIN States[spec] :
            LET s == States[spec][k] t == States[spec][l] IN
              /\ s.conv => s.width > 0
              /\ s.at + StateBytes(s) <= Page
              /\ k # l => s.at + StateBytes(s) <= t.at \/ t.at + StateBytes(t) <= s.at
  /\ \A c \in Configs :
       /\ c.runner \in {"list", "v1", "v2"} /\ c.dimFirst \in BOOLEAN
       /\ c.groups \in Seq(Seq(DOMAIN States \cup {"attention"}) \ {<<>>})
       /\ \A g \in DOMAIN c.groups :
            Range(c.groups[g]) \subseteq DOMAIN States \/ Range(c.groups[g]) \cap DOMAIN States = {}
       /\ c.runner = "list" =>
            \A r \in 1 .. Slots, g \in DOMAIN c.groups, col \in InReach :
              c.table[r][g][col + 1] \in 0 .. NumBlocks - 1

\* A block of the pool is written for one request and one group; what several
\* may read, a cached prefix, is MambaAlign's.
ASSUME TablesApart ==
  \A c \in Configs : \A r, q \in 1 .. Slots, g, h \in DOMAIN c.groups :
    <<r, g>> # <<q, h>> =>
      \A i, j \in InReach : c.table[r][g][i + 1] \in 0 .. NumBlocks - 1 =>
                             c.table[r][g][i + 1] # c.table[q][h][j + 1]

VARIABLES
  groups, dimFirst, runner, table,   \* fixed: model, layout, runner, block tables
  computed, drafts, queries,  \* request -> tokens computed; drafts and tokens scheduled
  column, accepted,           \* mamba_state_idx; the accepted counts
  left,                       \* finished, preempted or resumed, not yet cleaned up
  batch,                      \* the requests of this step, in row order
  meta,                       \* the context's metadata; empty until initialized
  rows,                       \* the staged arrays: row or slot -> values
  snapshot,                   \* num_accepted_tokens_out
  list,                       \* entries of the copy buffers
  copies,                     \* what the last launch copied
  phase, want, due            \* position; what it should copy; counts it should leave

fixed == <<groups, dimFirst, runner, table>>
vars == <<fixed, computed, drafts, queries, column, accepted, left, batch, meta,
          rows, snapshot, list, copies, phase, want, due>>

Reqs == 1 .. Slots
None == -2
Nobody == [r \in Reqs |-> 0]
NoRow == [col |-> 0, src |-> -1, bias |-> 0, queries |-> 0, computed |-> 0, drafts |-> 0]

-----------------------------------------------------------------------------
(* Groups and metadata.                                                    *)

\* get_mamba_groups(): spec -> groups with a layer of it.  A group whose
\* layers differ is listed under each of their specs.
GetMambaGroups ==
  [spec \in DOMAIN States |->
     {g \in DOMAIN groups : Head(groups[g]) \in DOMAIN States /\ Contains(groups[g], spec)}]

\* get_mamba_group_ids(): sorted, each group once.
MambaGroupIds == Sorted(UNION {GetMambaGroups[spec] : spec \in DOMAIN States})

EntriesPerReq ==
  SumFunction([i \in DOMAIN MambaGroupIds |->
    LET layers == groups[MambaGroupIds[i]] IN
      SumFunction([l \in DOMAIN layers |-> Len(States[layers[l]])])])

\* The tensors' memory: layers at the same place of their groups share a pool
\* of blocks; a block holds the states of its layer one after the other.
Base(l, s) == (l - 1) * NumBlocks * Page + s.at

\* _populate_metadata(): one slot per group, layer and state, in this order.
Describe(i, l, s) ==
  [base |-> Base(l, s), stride |-> Page, elem |-> s.elem, blocks |-> NumBlocks, group |-> i,
   width |-> IF s.conv THEN s.width ELSE 0,
   inner |-> IF s.conv /\ dimFirst THEN 1 ELSE s.inner,
   rows |-> IF s.conv /\ dimFirst THEN s.inner ELSE 0,
   rowStride |-> s.width * s.elem]

PopulateMetadata ==
  FlattenSeq([i \in DOMAIN MambaGroupIds |->
    LET layers == groups[MambaGroupIds[i]] IN
      FlattenSeq([l \in DOMAIN layers |->
        [k \in DOMAIN States[layers[l]] |-> Describe(i, l, States[layers[l]][k])]])])

-----------------------------------------------------------------------------
(* Copies.                                                                 *)

Region(to, from, n) == {<<to + i, from + i>> : i \in 0 .. n - 1}

Valid(m, block) == block \in 0 .. m.blocks - 1

\* _copy_mamba_state_block(): one program of the grid.  A block outside the
\* pool skips the copy.
Program(m, blocks, src, dst, bias) ==
  LET at(b) == m.base + b * m.stride
      from == blocks[src + 1 + (IF m.width > 0 THEN 0 ELSE bias)]
      to == blocks[dst + 1]
  IN IF ~(Valid(m, to) /\ Valid(m, from)) THEN {}
     ELSE IF m.width > 0 /\ dimFirst THEN
       UNION {Region(at(to) + r * m.rowStride + t * m.elem,
                     at(from) + r * m.rowStride + (t + bias) * m.elem, m.elem) :
              r \in 0 .. m.rows - 1, t \in 0 .. m.width - bias - 1}
     ELSE IF m.width > 0 THEN
       Region(at(to), at(from) + bias * m.inner * m.elem, (m.width - bias) * m.inner * m.elem)
     ELSE Region(at(to), at(from), m.inner * m.elem)

\* Where the staged values of a row are: V2 goes through idx_mapping.
At(b, row) == IF runner = "v2" THEN b[row] ELSE row

\* A grid of rows and states: the move is read where At() says, the block
\* table is that of the row.  No move is <<>>.
Launch(b, m, move) ==
  [p \in (DOMAIN b) \X (DOMAIN m) |->
     LET blocks == table[b[p[1]]][MambaGroupIds[m[p[2]].group]]
         v == move[At(b, p[1])]
     IN IF v = <<>> THEN {} ELSE Program(m[p[2]], blocks, v[1], v[2], v[3])]

\* get_conv_copy_spec() and get_temporal_copy_spec(), without drafts: the
\* whole state of the source block.
CopySpec(l, s, blocks, src, dst) ==
  Region(Base(l, s) + blocks[dst + 1] * Page, Base(l, s) + blocks[src + 1] * Page, StateBytes(s))

\* collect_mamba_copy_meta(): an entry per group, layer and state.
CollectMambaCopyMeta(r, src, dst) ==
  FlattenSeq([i \in DOMAIN MambaGroupIds |->
    LET g == MambaGroupIds[i] IN
      FlattenSeq([l \in DOMAIN groups[g] |->
        [k \in DOMAIN States[groups[g][l]] |->
           CopySpec(l, States[groups[g][l]][k], table[r][g], src, dst)]])])

-----------------------------------------------------------------------------

Init ==
  /\ \E c \in Configs : /\ groups = c.groups /\ dimFirst = c.dimFirst
                        /\ runner = c.runner /\ table = c.table
  /\ computed \in [Reqs -> {0, BlockSize}]
  /\ drafts = Nobody /\ queries = Nobody
  /\ column = [r \in Reqs |-> IF runner = "v2" THEN (computed[r] - 1) \div BlockSize ELSE None]
  /\ accepted = [r \in Reqs |-> 1]
  /\ left = {} /\ batch = <<>> /\ meta = <<>>
  /\ rows = [i \in Reqs |-> NoRow] /\ snapshot = [i \in Reqs |-> 0]
  /\ list = <<>> /\ copies = <<>>
  /\ phase = "between" /\ want = {} /\ due = accepted

\* The previous running column of a request, after cleanup_mamba_state_idx().
Previous(r) ==
  IF column[r] = None \/ (runner # "v2" /\ r \in left)
  THEN (computed[r] - 1) \div BlockSize ELSE column[r]

Running(r, q) == CeilDiv(computed[r] + q, BlockSize) - 1

Moves(r, q) == Previous(r) # -1 /\ Previous(r) # Running(r, q)

\* Mutant: rows whose request does not move keep what they held.
StagedStale(b, q) ==
  [i \in Reqs |->
     IF i \in DOMAIN b
     THEN [rows[i] EXCEPT !.col = Running(b[i], q[b[i]]),
             !.src = IF Moves(b[i], q[b[i]]) THEN Previous(b[i]) ELSE @,
             !.bias = IF Moves(b[i], q[b[i]]) THEN accepted[b[i]] - 1 ELSE @]
     ELSE rows[i]]

\* V1, the loop over the batch: rows are preset to "no copy".
Staged(b, q) ==
  [i \in Reqs |->
     IF i \in DOMAIN b
     THEN [rows[i] EXCEPT !.col = Running(b[i], q[b[i]]),
             !.src = IF Moves(b[i], q[b[i]]) THEN Previous(b[i]) ELSE -1,
             !.bias = IF Moves(b[i], q[b[i]]) THEN accepted[b[i]] - 1 ELSE 0]
     ELSE rows[i]]

\* V2, preprocess_mamba_align_fused_kernel: by slot, moved or not.
StagedSlots(b, q) ==
  [r \in Reqs |->
     IF r \in Range(b)
     THEN [rows[r] EXCEPT !.col = Running(r, q[r]), !.src = column[r], !.bias = accepted[r] - 1]
     ELSE rows[r]]

\* precopy_mamba_align_fused_kernel: what it makes of the staged values.
PrecopyMove(arrays) ==
  [i \in Reqs |-> IF arrays[i].src < 0 \/ arrays[i].src = arrays[i].col THEN <<>>
                  ELSE <<arrays[i].src, arrays[i].col, arrays[i].bias>>]

\* Mutant: the offset into the buffers is not set back.
EntriesAppended(b, q) ==
  list \o FlattenSeq([i \in DOMAIN b |->
    IF Moves(b[i], q[b[i]])
    THEN CollectMambaCopyMeta(b[i], Previous(b[i]), Running(b[i], q[b[i]])) ELSE <<>>])

Entries(b, q) ==
  FlattenSeq([i \in DOMAIN b |->
    IF Moves(b[i], q[b[i]])
    THEN CollectMambaCopyMeta(b[i], Previous(b[i]), Running(b[i], q[b[i]])) ELSE <<>>])

\* A step of b begins, with q tokens and d drafts each: preprocess_mamba() of
\* V1 with rows or list, or the preprocess of V2, and the copies they launch.
Preprocess(b, q, d) ==
  /\ phase # "computing"
  /\ \A r \in Range(b) : /\ <<q[r], d[r]>> \in Schedules[runner] /\ d[r] < q[r]
                         /\ computed[r] + q[r] <= MaxTokens
  /\ batch' = b /\ phase' = "computing"
  /\ queries' = [r \in Reqs |-> IF r \in Range(b) THEN q[r] ELSE 0]
  /\ drafts' = [r \in Reqs |-> IF r \in Range(b) THEN d[r] ELSE 0]
  /\ meta' = IF runner = "list" \/ b = <<>> \/ meta # <<>> THEN meta ELSE PopulateMetadata
  /\ rows' = CASE runner = "list" -> rows [] runner = "v1" -> Staged(b, q)
                [] runner = "v2" -> StagedSlots(b, q)
  /\ list' = IF runner = "list" THEN Entries(b, q) ELSE <<>>
  /\ copies' = IF runner = "list" THEN list' ELSE Launch(b, meta', PrecopyMove(rows'))
  /\ left' = {}
  /\ column' = [r \in Reqs |-> IF r \in Range(b) THEN Running(r, q[r])
                               ELSE IF r \in left THEN None ELSE column[r]]
  /\ accepted' = [r \in Reqs |-> IF r \in Range(b) /\ Moves(r, q[r]) THEN 1 ELSE accepted[r]]
  /\ want' = {<<r, Previous(r), Running(r, q[r]), accepted[r] - 1>> :
                 r \in {x \in Range(b) : Moves(x, q[x])}}
  /\ due' = [r \in Reqs |-> IF \E w \in want' : w[1] = r THEN 1 ELSE due[r]]
  /\ UNCHANGED <<fixed, computed, snapshot>>

-----------------------------------------------------------------------------

NewComputed(r, n) == computed[r] + queries[r] - drafts[r] + n - 1

\* stage_postprocess_inputs_to_gpu() of V1, by row; V2's sampler has already
\* brought the slot's computed tokens up to date.
StagedPost(b, a) ==
  [i \in Reqs |->
     CASE runner = "v2" /\ i \in Range(b) ->
            [rows[i] EXCEPT !.col = column[i], !.computed = NewComputed(i, a[i])]
       [] runner = "v1" /\ i \in DOMAIN b ->
            [rows[i] EXCEPT !.col = column[b[i]], !.queries = queries[b[i]],
                            !.computed = computed[b[i]], !.drafts = drafts[b[i]]]
       [] OTHER -> rows[i]]

\* Mutant: only as many counts as there are rows, whatever their slots.
CountsReadRows(b, a) ==
  [i \in Reqs |-> IF i \notin DOMAIN b THEN snapshot[i]
                  ELSE IF runner = "v2" THEN (IF i \in Range(b) THEN a[i] ELSE accepted[i])
                  ELSE a[b[i]]]

\* num_accepted_tokens_out before the launch: the rows (V1), or a snapshot of
\* every slot (V2), which the kernel reads while the counts change.
CountsRead(b, a) ==
  [i \in Reqs |-> IF runner = "v2" THEN (IF i \in Range(b) THEN a[i] ELSE accepted[i])
                  ELSE IF i \in DOMAIN b THEN a[b[i]] ELSE snapshot[i]]

\* postprocess_mamba_fused_kernel: tokens whose state is the running one, the
\* boundary reached, and the column of the block that ends there.
Settled(v, n) == IF runner = "v2" THEN v.computed - n + 1 ELSE v.computed + v.queries - v.drafts
Boundary(v, n) == ((Settled(v, n) + n - 1) \div BlockSize) * BlockSize
Saves(v, n) == Boundary(v, n) >= Settled(v, n)
SavedAt(v, n) == Boundary(v, n) \div BlockSize - 1

PostMove(arrays, counts) ==
  [i \in Reqs |->
     LET v == arrays[i] bias == Boundary(v, counts[i]) - Settled(v, counts[i]) IN
       IF ~Saves(v, counts[i]) \/ (v.col = SavedAt(v, counts[i]) /\ bias = 0) THEN <<>>
       ELSE <<v.col, SavedAt(v, counts[i]), bias>>]

InPlace(v, n) == Saves(v, n) /\ v.col = SavedAt(v, n)

\* What request r shall have copied and counted when a[r] tokens are accepted:
\* the state at the boundary, if the accepted tokens reach one.
WantsPost(r, a) ==
  LET from == computed[r] + queries[r] - drafts[r]
      reached == {n \in from .. from + a[r] - 1 : n % BlockSize = 0 /\ n > 0}
  IN {<<r, column[r], n \div BlockSize - 1, n - from>> : n \in reached}

\* The step ends: the sampler accepts a[r] tokens of each row; V1 and V2 save
\* the boundary's state and take the counts back to the requests.
Postprocess(a) ==
  /\ phase = "computing" /\ phase' = "between"
  /\ \A r \in Range(batch) : a[r] <= drafts[r] + 1
  /\ computed' = [r \in Reqs |-> IF r \in Range(batch) THEN NewComputed(r, a[r]) ELSE computed[r]]
  /\ want' = IF runner = "list" THEN {}
             ELSE {w \in UNION {WantsPost(r, a) : r \in Range(batch)} : w[2] # w[3] \/ w[4] # 0}
  /\ due' = [r \in Reqs |->
               IF r \notin Range(batch) \/ runner = "list" THEN due[r]
               ELSE IF \E w \in WantsPost(r, a) : w[2] = w[3] THEN 1 ELSE a[r]]
  /\ IF runner = "list" \/ batch = <<>>
     THEN /\ copies' = <<>>
          /\ UNCHANGED <<rows, snapshot, accepted>>
     ELSE LET counts == CountsRead(batch, a)
              at(r) == IF runner = "v2" THEN r ELSE CHOOSE i \in DOMAIN batch : batch[i] = r
              out(i) == IF InPlace(rows'[i], counts[i]) THEN 1 ELSE counts[i]
          IN /\ rows' = StagedPost(batch, a)
             /\ copies' = Launch(batch, meta, PostMove(rows', counts))
             /\ accepted' = [r \in Reqs |->
                   IF r \notin Range(batch) THEN accepted[r]
                   ELSE IF InPlace(rows'[at(r)], counts[at(r)]) THEN 1
                   ELSE IF runner = "v2" THEN a[r] ELSE counts[at(r)]]
             /\ snapshot' = IF runner = "v2" THEN counts
                            ELSE [i \in Reqs |-> IF i \in DOMAIN batch THEN out(i) ELSE snapshot[i]]
  /\ batch' = <<>> /\ queries' = Nobody /\ drafts' = Nobody
  /\ UNCHANGED <<fixed, column, left, meta, list>>

\* A request finishes, or is preempted and resumed: its tokens start again,
\* from nothing or from a cached block.  V2 seeds the column of its slot.
Leave(r, cached) ==
  /\ phase = "between"
  /\ computed' = [computed EXCEPT ![r] = cached]
  /\ accepted' = [accepted EXCEPT ![r] = 1] /\ due' = [due EXCEPT ![r] = 1]
  /\ IF runner = "v2"
     THEN column' = [column EXCEPT ![r] = (cached - 1) \div BlockSize] /\ UNCHANGED left
     ELSE left' = left \cup {r} /\ UNCHANGED column
  /\ copies' = <<>> /\ want' = {}
  /\ UNCHANGED <<fixed, drafts, queries, batch, meta, rows, snapshot, list, phase>>

Batches == {b \in SeqOf(Reqs, Slots) : IsInjective(b)}

Next ==
  \/ \E b \in Batches : \E q \in [Range(b) -> Chunks], d \in [Range(b) -> 0 .. MaxDrafts] :
       Preprocess(b, q, d)
  \/ \E a \in [Range(batch) -> 1 .. MaxDrafts + 1] : Postprocess(a)
  \/ \E r \in Reqs, cached \in {0, BlockSize} : Leave(r, cached)

Spec == Init /\ [][Next]_vars

-----------------------------------------------------------------------------
(* Correctness.                                                            *)

\* Element e of token t of a state in a block, as a tensor is indexed.
Element(l, s, block, t, e) ==
  Base(l, s) + block * Page + (IF dimFirst THEN e * s.width + t ELSE t * s.inner + e) * s.elem

\* A move, of one tensor: a window moves `bias` tokens to the left, a temporal
\* state comes from the column `bias` further on.  Where a block is not one of
\* the pool, nothing moves.
MeantState(l, s, blocks, src, dst, bias) ==
  LET to == blocks[dst + 1]
      from == blocks[src + 1 + (IF s.conv THEN 0 ELSE bias)]
      shift == IF s.conv THEN bias ELSE 0
      tokens == IF s.conv THEN s.width - shift ELSE 1
      at(b, t, e) == IF s.conv THEN Element(l, s, b, t, e) ELSE Base(l, s) + b * Page + e * s.elem
  IN IF ~{to, from} \subseteq 0 .. NumBlocks - 1 THEN {}
     ELSE UNION {Region(at(to, t, e), at(from, t + shift, e), s.elem) :
                 t \in 0 .. tokens - 1, e \in 0 .. s.inner - 1}

\* A move <<r, src, dst, bias>>: every state of every mamba layer.
Meant(w) ==
  UNION {UNION {MeantState(p[2], s, table[w[1]][p[1]], w[2], w[3], w[4]) :
                s \in Range(States[groups[p[1]][p[2]]])} :
         p \in UNION {{<<g, l>> : l \in {k \in DOMAIN groups[g] : groups[g][k] \in DOMAIN States}} :
                      g \in DOMAIN groups}}

\* In every step, whichever rows, slots or list entries carry it, each
\* request's move is made on every state tensor of every mamba layer, with
\* that request's blocks of that layer's group, once, and nothing else is
\* copied: no stale row, no neighbour in the page, no wild block.
RightMoves ==
  /\ UNION Range(copies) = UNION {Meant(w) : w \in want}
  /\ \A p, q \in DOMAIN copies : p # q => copies[p] \cap copies[q] = {}

\* The copy buffers, sized from the model once, hold every step's entries, and
\* the metadata fills its tensors exactly (the two asserts of the code).
ListFits ==
  /\ Len(list) <= Slots * EntriesPerReq
  /\ Len(meta) \in {0, EntriesPerReq}

\* Each request keeps its own accepted count, whatever row it had: 1 after its
\* state moved or was saved in place, else what the sampler said.
AcceptedOwn == accepted = due

=============================================================================
