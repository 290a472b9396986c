----------------------------- MODULE DraftHead -----------------------------
(***************************************************************************)
(* The private head of the MTP drafter, from the checkpoint to the logits: *)
(* tools/quantize_lm_head_int8.py (and, for the experts, the same recipe   *)
(* in quantize_mtp_experts_int4.py) packs the rows, build_draft_vocab.py   *)
(* chooses the ids the drafter may propose, and the hook that              *)
(* src/patch_mtp_draft_vocab.py installs unpacks the rows of those ids,    *)
(* chunk by chunk, and scatters their scores over the vocabulary.          *)
(*                                                                         *)
(* Weights are integers, in units all of them are multiples of, and scales *)
(* and dequantized rows are kept Half times as large, which makes them     *)
(* integral; the score of an id is the row it comes from. float32 is       *)
(* exact: the eight digits of a weight over the eleven of a scale never    *)
(* come so close to a tie. Scales and weights are as small as float16      *)
(* holds, and the second quantization of an int4 head is left out.         *)
(***************************************************************************)
EXTENDS Sorting, Sequences, SequencesExt, FiniteSetsExt

CONSTANTS
  Heads,     \* weights: id -> sequence of In numbers
  Out, In,   \* rows of the head, padding included, and columns
  Group,     \* columns that share a scale
  Bits,      \* bits of a weight
  Pack,      \* weights in a word
  Smallest,  \* a scale: the smallest float16 above zero
  Exact,     \* integers bfloat16 holds from zero up, 256
  Exponents, \* bound: powers of two, from 0
  HeadVocab, \* org_vocab_size: rows that are tokens
  TokVocab,  \* len(tok), added tokens included
  Specials,  \* ids of special and added tokens
  Bytes,     \* byte fallbacks: the first ids, 256 in the code
  Rankings,  \* corpora: their ids by falling frequency
  KeepIds,   \* ids to keep
  IdFiles,   \* contents of a hand-made ids.npy
  Tile,      \* rows Marlin wants a multiple of, 64 in the code
  HeadChunk  \* _DV_CHUNK

ASSUME HeadAssumption ==
  /\ {In, Group, Bits, Pack, Out, HeadVocab, Tile, HeadChunk, Smallest, Exact} \subseteq Nat \ {0}
  /\ {KeepIds, TokVocab, Bytes, Exponents} \subseteq Nat
  /\ In % Group = 0 /\ Group % Pack = 0 /\ Out % Pack = 0
  /\ HeadVocab <= Out /\ TokVocab <= Out /\ Bytes <= TokVocab
  /\ Heads \subseteq [0 .. Out - 1 -> [1 .. In -> Int]]
  /\ Specials \subseteq 0 .. TokVocab - 1
  /\ Rankings \subseteq Seq(0 .. TokVocab - 1) /\ IdFiles \subseteq Seq(Int)

VARIABLES
  weights,  \* the original rows
  recipe,   \* which quantizer packs them: "head" or "experts"
  setup,    \* [dense, int4, source]: head without quantization,
            \* VLLM_MTP_DRAFT_HEAD, where VLLM_MTP_DRAFT_VOCAB comes from
  packed,   \* [qweight, zp, scales]
  file,     \* ids.npy
  sel,      \* ids whose rows make up the head
  wk,       \* rows dequantized so far
  logits,   \* id -> its score
  step

draftVars == <<weights, recipe, setup, packed, file, sel, wk, logits, step>>

Abs(n) == Max({n, -n})

\* 2 to the n.
Power[n \in 0 .. Exponents] == IF n = 0 THEN 1 ELSE 2 * Power[n - 1]

Half == Power[Bits - 1]
NegInf == <<>>
Rows == 0 .. Out - 1
GroupOf(c) == (c - 1) \div Group
Members(g) == {c \in 1 .. In : GroupOf(c) = g}
Groups == 0 .. (In \div Group) - 1

\* torch.round(n / d): to the nearest, to the even one of two.
RoundDiv(n, d) ==
  LET m == IF d < 0 THEN -n ELSE n
      e == Abs(d)
      q == m \div e
      r == m % e
  IN IF 2 * r < e \/ (2 * r = e /\ q % 2 = 0) THEN q ELSE q + 1

\* .to(torch.float16) of a scale: a multiple of the smallest. The eight digits
\* of a weight fit in the eleven of a float16, so the larger ones, multiples
\* all of them, stay as they are.
Float16(n) == RoundDiv(n, Smallest) * Smallest

\* .to(torch.bfloat16): less than Exact units of a power of two.
BFloat16(n) ==
  LET unit == Power[Min({k \in 0 .. Exponents : Abs(n) < Exact * Power[k]})] IN
    RoundDiv(n, unit) * unit

\* Weights are bfloat16, and neither they nor what becomes of them is larger
\* than the powers of two go.
ASSUME FloatAssumption ==
  /\ Bits * Pack <= Exponents /\ 2 * Half <= Exact
  /\ \A head \in Heads : \A v \in Rows, c \in 1 .. In :
       /\ BFloat16(head[v][c]) = head[v][c]
       /\ Half * (Abs(head[v][c]) + Smallest) < Exact * Power[Exponents]

\* The hook is installed for a vocabulary or for an int4 head, or both.
DraftInit ==
  /\ weights \in Heads /\ recipe \in {"head", "experts"}
  /\ setup \in [dense : BOOLEAN, int4 : BOOLEAN, source : {"none", "tool", "file"}]
  /\ setup.source # "none" \/ setup.int4
  /\ packed = <<>> /\ file = <<>> /\ sel = <<>> /\ wk = <<>> /\ logits = <<>>
  /\ step = "pack"

-----------------------------------------------------------------------------
(* quantize().                                                             *)

\* The number of largest magnitude in a group, with its sign: of a tie, the
\* head takes the positive one and the experts the first.
Picked(row, g) ==
  LET S == {row[c] : c \in Members(g)}
      first == Min({c \in Members(g) : \A d \in Members(g) : Abs(row[d]) <= Abs(row[c])})
  IN IF recipe = "experts" THEN row[first]
     ELSE IF -Min(S) > Max(S) THEN Min(S) ELSE Max(S)

\* Mutant: the slot above the largest is not clamped and overflows.
SlotUnclamped(w, scale) ==
  IF scale = 0 THEN Half ELSE (RoundDiv(w * Half, -scale) + Half) % (2 * Half)

\* round(w / scale) + Half, in 0 .. 2 * Half - 1; a scale has the sign of the
\* number it was picked from, the code's the opposite one. Without a scale the
\* divisor is 1, far above what is left to divide.
Slot(w, scale) ==
  LET q == (IF scale = 0 THEN 0 ELSE RoundDiv(w * Half, -scale)) + Half IN
    Max({0, Min({q, 2 * Half - 1})})

\* Pack numbers in a word, the first lowest.
Word(numbers) == SumFunction([i \in 1 .. Pack |-> numbers[i] * Power[Bits * (i - 1)]])

\* Packed along a column of the input; the zero point is stored less one.
PackHead ==
  /\ step = "pack"
  /\ LET scale(v, g) == Float16(Picked(weights[v], g))
         slot(v, c) == Slot(weights[v][c], scale(v, GroupOf(c)))
     IN packed' =
          [qweight |-> [k \in 0 .. (In \div Pack) - 1 |-> [v \in Rows |->
                          Word([i \in 1 .. Pack |-> slot(v, k * Pack + i)])]],
           zp |-> Half - 1,
           scales |-> [v \in Rows |-> [g \in Groups |-> scale(v, g)]]]
  /\ step' = "ids"
  /\ UNCHANGED <<weights, recipe, setup, file, sel, wk, logits>>

-----------------------------------------------------------------------------
(* build_draft_vocab.py.                                                   *)

\* Mutant: the corpus goes first.
KeepRankedFirst(ranking) ==
  LET ranked == ToSet(SubSeq(ranking, 1, Least(KeepIds, Len(ranking))))
      rest == (Specials \cup 0 .. Bytes - 1) \ ranked
      room == Max({0, KeepIds - Cardinality(ranked)})
  IN ranked \cup ToSet(SubSeq(Sorted(rest), 1, Least(room, Cardinality(rest))))

\* Specials and bytes always, then the corpus in its order and the lowest ids,
\* each until KeepIds are kept.
Keep(ranking) ==
  LET always == Specials \cup 0 .. Bytes - 1
      With(n) == always \cup ToSet(SubSeq(ranking, 1, n))
      ranked == With(Min({n \in 0 .. Len(ranking) :
                            n = Len(ranking) \/ Cardinality(With(n)) >= KeepIds}))
      Fill(n) == ranked \cup 0 .. n - 1
  IN Fill(Min({n \in 0 .. TokVocab : n = TokVocab \/ Cardinality(Fill(n)) >= KeepIds}))

\* The file is the tool's or anybody's; without one the whole head is used.
ChooseIds ==
  /\ step = "ids"
  /\ file' \in CASE setup.source = "none" -> {<<>>}
                 [] setup.source = "tool" -> {Sorted(Keep(r)) : r \in Rankings}
                 [] OTHER -> IdFiles
  /\ step' = "load"
  /\ UNCHANGED <<weights, recipe, setup, packed, sel, wk, logits>>

-----------------------------------------------------------------------------
(* _dv_build().                                                            *)

Reduced == setup.source # "none"

\* ids[mask]: those at the positions where the mask is true, in their order.
InVocab(ids) ==
  LET kept == Sorted({i \in DOMAIN ids : 0 <= ids[i] /\ ids[i] < HeadVocab}) IN
    [k \in DOMAIN kept |-> ids[kept[k]]]

\* Mutant: the last tile is filled with zeros.
PaddedWithZeros(ids) ==
  ids \o [i \in 1 .. (Tile - (Len(ids) % Tile)) % Tile |-> 0]

\* Copies of the last id fill the last tile.
Padded(ids) ==
  IF Len(ids) % Tile = 0 THEN ids
  ELSE ids \o [i \in 1 .. Tile - (Len(ids) % Tile) |-> Last(ids)]

\* A file without a single id of the model leaves nothing to concatenate.
LoadIds ==
  /\ step = "load"
  /\ sel' = IF ~Reduced THEN [i \in 1 .. Out |-> i - 1]
            ELSE IF setup.int4 THEN Padded(InVocab(file)) ELSE InVocab(file)
  /\ step' = IF sel' = <<>> THEN "failed" ELSE "rows"
  /\ UNCHANGED <<weights, recipe, setup, packed, file, wk, logits>>

\* (word >> (i * bits)) & mask.
Field(word, i) == (word \div Power[Bits * i]) % (2 * Half)

\* Row v, Half times as large.
Dequantized(v) ==
  [c \in 1 .. In |->
     BFloat16((packed.zp + 1 - Field(packed.qweight[(c - 1) \div Pack][v], (c - 1) % Pack))
                * packed.scales[v][GroupOf(c)])]

Row(v) == IF setup.dense THEN [c \in 1 .. In |-> weights[v][c] * Half] ELSE Dequantized(v)

AddChunk ==
  /\ step = "rows"
  /\ LET upTo == Least(Len(wk) + HeadChunk, Len(sel)) IN
       /\ wk' = wk \o [i \in 1 .. upTo - Len(wk) |-> Row(sel[Len(wk) + i])]
       /\ step' = IF upTo = Len(sel) THEN "score" ELSE "rows"
  /\ UNCHANGED <<weights, recipe, setup, packed, file, sel, logits>>

-----------------------------------------------------------------------------

\* _dv_compute_logits(): index_copy_() keeps any of the scores of an id that
\* occurs twice; the whole head is cut at the vocabulary.
ComputeLogits ==
  /\ step = "score"
  /\ IF Reduced
     THEN \E p \in [ToSet(sel) -> DOMAIN sel] :
            /\ \A v \in ToSet(sel) : sel[p[v]] = v
            /\ logits' = [v \in 0 .. HeadVocab - 1 |->
                            IF v \in ToSet(sel) THEN wk[p[v]] ELSE NegInf]
     ELSE logits' = [v \in 0 .. HeadVocab - 1 |-> wk[v + 1]]
  /\ step' = "done"
  /\ UNCHANGED <<weights, recipe, setup, packed, file, sel, wk>>

DraftNext == PackHead \/ ChooseIds \/ LoadIds \/ AddChunk \/ ComputeLogits

DraftSpec == DraftInit /\ [][DraftNext]_draftVars

-----------------------------------------------------------------------------
(* Correctness.                                                            *)

\* Every weight comes back within one and a half steps of its scale, and what
\* rounding the scale costs over Half steps; one of Half whole steps, as the one
\* the scale was picked from is, comes back exact. Packing, the implied zero
\* point, the group too small for a scale, the clamp at the slot a tie would
\* need and bfloat16 lose nothing else.
WeightsComeBack ==
  step = "ids" =>
    \A v \in Rows, c \in 1 .. In :
      LET scale == packed.scales[v][GroupOf(c)]
          error == Abs(Dequantized(v)[c] - weights[v][c] * Half)
      IN /\ 2 * error <= 3 * Abs(scale) + Half * Smallest
         /\ weights[v][c] = scale => error = 0

\* The drafter scores each id it may propose by that id's own row, padded,
\* chunked, or listed twice as it is, and no other id at all.
OwnScores ==
  step = "done" =>
    \A v \in 0 .. HeadVocab - 1 :
      logits[v] = IF ~Reduced \/ v \in ToSet(file) THEN Row(v) ELSE NegInf

\* A vocabulary built from whatever corpus can still draft each special token
\* and each byte, and reads no more rows than asked unless those alone are more.
ReservedDraftable ==
  (step = "done" /\ setup.source = "tool") =>
    /\ \A v \in Specials \cup 0 .. Bytes - 1 : v < HeadVocab => logits[v] # NegInf
    /\ Cardinality(ToSet(sel)) <= Max({KeepIds, Cardinality(Specials \cup 0 .. Bytes - 1)})

=============================================================================
