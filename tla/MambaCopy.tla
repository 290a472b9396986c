----------------------------- MODULE MambaCopy -----------------------------
(***************************************************************************)
(* src/src/mamba_utils_guarded.py: the byte copies of the state kernels.   *)
(* A copy is run by the lanes of one or more tiles (CTAs), each lane in    *)
(* its own order and all of them in any interleaving; only a barrier       *)
(* orders them.  Memory is a function from addresses to the address the    *)
(* content came from.                                                      *)
(***************************************************************************)
EXTENDS Sorting, Sequences, SequencesExt

CONSTANTS
  Word,       \* bytes of a vectorized access (8 in the code)
  BlockLanes, \* COPY_BLOCK_SIZE
  NumTiles,   \* _TEMPORAL_TILES
  MaxAddr,    \* bound: bytes of memory
  Jobs        \* the copies considered

\* A job is a copy of `size` bytes ("tiled", to another block; "batch", to
\* another place or to the left), or a shift by `bias` tokens of the window that
\* each of `rows` rows keeps at `to` ("shift", one row; "rows").
ASSUME CopyAssumption ==
  /\ Word \in Nat \ {0} /\ NumTiles \in Nat \ {0} /\ MaxAddr \in Nat
  /\ BlockLanes \in Nat /\ BlockLanes >= Word
  /\ \A j \in Jobs :
       /\ j.kind \in {"tiled", "batch", "shift", "rows"} /\ j.to \in Nat
       /\ j.kind \in {"tiled", "batch"} =>
            /\ j.from \in Nat /\ j.size \in Nat
            /\ j.from + j.size <= MaxAddr /\ j.to + j.size <= MaxAddr
            /\ \/ j.from + j.size <= j.to \/ j.to + j.size <= j.from \/ j.from = j.to
               \/ j.kind = "batch" /\ j.to < j.from
       /\ j.kind \in {"shift", "rows"} =>
            /\ {j.token, j.width, j.rows} \subseteq Nat \ {0} /\ j.bias \in 1 .. j.width
            /\ j.to + j.rows * (j.width * j.token) <= MaxAddr
            /\ j.kind = "shift" => j.rows = 1

VARIABLES
  job,    \* the copy
  plan,   \* lane -> the moves it makes
  memory, \* address -> where its byte came from
  done,   \* lane -> operations completed
  held    \* lane -> bytes it has loaded and not yet stored, or Nothing

laneVars == <<job, plan, memory, done, held>>

Addresses == 0 .. MaxAddr - 1
Lanes == (0 .. NumTiles - 1) \X (0 .. BlockLanes - 1)
Nothing == <<>>

Cdiv(a, b) == (a + b - 1) \div b
AtLeast0(a) == IF a < 0 THEN 0 ELSE a

Move(from, to, n) == [from |-> from, to |-> to, n |-> n]

-----------------------------------------------------------------------------
(* _memcpy_u64_tiled().                                                    *)

\* Units of one tile, rounded up so that every access is full width.
TileUnits(units, tiles) == Cdiv(Cdiv(units, tiles), BlockLanes) * BlockLanes

\* The units of a tile that a lane moves, in order, each `size` bytes.
Strided(lane, units, tiles, from, to, size) ==
  LET start == lane[1] * TileUnits(units, tiles)
      end == Least(start + TileUnits(units, tiles), units)
      mine == AtLeast0(Cdiv(end - start - lane[2], BlockLanes))
      at(i) == (start + lane[2] + (i - 1) * BlockLanes) * size
  IN IF lane[1] >= tiles THEN <<>>
     ELSE [i \in 1 .. mine |-> Move(from + at(i), to + at(i), size)]

\* Bytes at the two ends, for tile 0: lane k moves byte k.
Bytes(lane, count, from, to) ==
  IF lane[1] = 0 /\ lane[2] < count THEN <<Move(from + lane[2], to + lane[2], 1)>> ELSE <<>>

\* Mutant: the tail is taken to start at the last full word of the copy.
TailStartUnshifted(head, size) == (size \div Word) * Word

TailStart(head, size) == head + ((size - head) \div Word) * Word

\* Equal alignment: head bytes, words, tail bytes.  Otherwise byte by byte.
Memcpy(lane, from, to, size, tiles) ==
  IF from % Word = to % Word
  THEN LET head == Least((-to) % Word, size)
           tail == TailStart(head, size)
       IN Bytes(lane, head, from, to)
            \o Strided(lane, (size - head) \div Word, tiles, from + head, to + head, Word)
            \o Bytes(lane, size - tail, from + tail, to + tail)
  ELSE Strided(lane, size, tiles, from, to, 1)

-----------------------------------------------------------------------------
(* The copies built on it, as the moves of each lane.                      *)

\* Mutant: one copy for the whole window, as for distinct blocks.
ShiftInOneCopy(lane, j) ==
  Memcpy(lane, j.to + j.bias * j.token, j.to, (j.width - j.bias) * j.token, 1)

\* SD convolution window, shifted left in its own block: token by token.
Shift(lane, j) ==
  FlattenSeq([t \in 1 .. j.width - j.bias |->
    Memcpy(lane, j.to + (t - 1 + j.bias) * j.token, j.to + (t - 1) * j.token, j.token, 1)])

\* DS convolution window: token by token, a lane owns its rows; `token` is
\* the size of an element.
RowShift(lane, j) ==
  IF lane[1] > 0 THEN <<>>
  ELSE FlattenSeq([t \in 1 .. j.width - j.bias |->
         [i \in 1 .. AtLeast0(Cdiv(j.rows - lane[2], BlockLanes)) |->
            LET row == j.to + (lane[2] + (i - 1) * BlockLanes) * j.width * j.token IN
              Move(row + (t - 1 + j.bias) * j.token, row + (t - 1) * j.token, j.token)]])

\* batch_memcpy_kernel(): bytes, block after block of lanes.
Batch(lane, j) == Strided(lane, j.size, 1, j.from, j.to, 1)

LaneMoves(lane, j) ==
  CASE j.kind = "tiled" -> Memcpy(lane, j.from, j.to, j.size, NumTiles)
    [] j.kind = "shift" -> Shift(lane, j)
    [] j.kind = "rows"  -> RowShift(lane, j)
    [] j.kind = "batch" -> Batch(lane, j)

\* Only the batch copy has one, and only if source and destination overlap.
Barrier(j) == j.kind = "batch" /\ j.to < j.from /\ j.to + j.size > j.from

-----------------------------------------------------------------------------

LaneInit ==
  /\ job \in Jobs
  /\ plan = [l \in Lanes |-> LaneMoves(l, job)]
  /\ memory = [a \in Addresses |-> a]
  /\ done = [l \in Lanes |-> 0]
  /\ held = [l \in Lanes |-> Nothing]

NextMove(l) == plan[l][done[l] + 1]

Load(l) ==
  /\ done[l] < Len(plan[l]) /\ held[l] = Nothing
  /\ held' = [held EXCEPT ![l] = [i \in 1 .. NextMove(l).n |-> memory[NextMove(l).from + i - 1]]]
  /\ UNCHANGED <<job, plan, memory, done>>

\* Lane m has come as far as the barrier in round k (from 0).
Arrived(m, k) ==
  \/ done[m] > k
  \/ done[m] = k /\ held[m] # Nothing
  \/ done[m] = Len(plan[m]) /\ done[m] <= k

Store(l) ==
  /\ held[l] # Nothing
  /\ Barrier(job) => \A m \in Lanes : Arrived(m, done[l])
  /\ LET to == NextMove(l).to IN
       memory' = [a \in Addresses |-> IF a \in to .. to + NextMove(l).n - 1
                                      THEN held[l][a - to + 1] ELSE memory[a]]
  /\ done' = [done EXCEPT ![l] = @ + 1]
  /\ held' = [held EXCEPT ![l] = Nothing]
  /\ UNCHANGED <<job, plan>>

LaneNext == \E l \in Lanes : Load(l) \/ Store(l)

LaneSpec == LaneInit /\ [][LaneNext]_laneVars

-----------------------------------------------------------------------------
(* Correctness.                                                            *)

\* What a job asks for: address -> the address its content shall come from.
Wanted(j) ==
  LET window == (j.width - j.bias) * j.token
      row(a) == (a - j.to) \div (j.width * j.token)
      column(a) == (a - j.to) % (j.width * j.token)
  IN CASE j.kind \in {"tiled", "batch"} ->
            [a \in Addresses |-> IF a \in j.to .. j.to + j.size - 1 THEN j.from + (a - j.to) ELSE a]
       [] j.kind \in {"shift", "rows"} ->
            [a \in Addresses |-> IF /\ a >= j.to /\ row(a) < j.rows /\ column(a) < window
                                 THEN a + j.bias * j.token ELSE a]

\* However the lanes and tiles interleave, what is left in memory is the
\* source as it was before the copy, and nothing else has changed.
CopiesAsMemmove ==
  (\A l \in Lanes : done[l] = Len(plan[l])) => memory = Wanted(job)

\* Every byte is moved by one lane of one tile, once.
EveryByteOnce ==
  LET targets(l, i) == plan[l][i].to .. plan[l][i].to + plan[l][i].n - 1
  IN \A l, m \in Lanes : \A i \in DOMAIN plan[l], k \in DOMAIN plan[m] :
       (targets(l, i) \cap targets(m, k) # {}) => l = m /\ i = k

=============================================================================
