-------------------------- MODULE MambaAlignProofs --------------------------
(***************************************************************************)
(* Every layer starts from the state after exactly the tokens computed so  *)
(* far, the prefix cache holds whole states only, and the guard never      *)
(* skips a copy: for every block size, every number of drafts below it,    *)
(* every length of the request and both runners.                           *)
(*                                                                         *)
(* The argument follows one state through a step: the column it is in      *)
(* while the request is idle, the column the pre-copy brings it to, the    *)
(* columns the forward pass writes, and the full column the postprocess    *)
(* saves.  Columns full before the step are never written again.           *)
(***************************************************************************)
EXTENDS MambaAlign, TLAPS

-----------------------------------------------------------------------------
(* The inductive invariant.                                                *)

\* Tokens up to the end of column k.
End(k) == (k + 1) * BlockSize

\* State n is in column `from` (of the temporal or the convolution state),
\* b tokens on.
TempAt(t, from, b, n) == from + b \in Cols /\ t[from + b] = n
ConvAt(c, from, b, n) ==
  from \in Cols /\ c[from].base # Junk /\ b <= c[from].span /\ c[from].base + b = n

Contents == Nat \cup {Junk}
Windows == {w \in [base : Contents, span : Nat] : w.base = Junk => w.span = 0}
Cached(k) == {NotCached, [t |-> End(k), c |-> End(k)]}

Types ==
  /\ runner \in {"v1", "v2"} /\ pc \in {"waiting", "idle", "pre", "copy", "forward", "post"}
  /\ known \in 1 .. MaxTokens /\ computed \in 0 .. MaxTokens
  /\ scheduled \in 0 .. MaxTokens /\ drafts \in 0 .. NumSpec
  /\ idx \in Cols \cup {None, -1} /\ src \in Cols \cup {None, -1}
  /\ accepted \in 1 .. NumSpec + 1 /\ snap \in 1 .. NumSpec + 1 /\ bias \in 0 .. NumSpec
  /\ width \in 0 .. MaxCols /\ temporal \in [Cols -> Contents] /\ conv \in [Cols -> Windows]
  /\ DOMAIN cache = Cols /\ todo \subseteq States /\ resumed \in BOOLEAN

\* The cache holds whole states; so do the columns that were full before the
\* step, as far as they are held.
CacheWhole == \A k \in Cols : cache[k] \in Cached(k)

ColumnsWhole ==
  pc # "waiting" =>
    \A k \in Cols : End(k) <= computed =>
      \/ temporal[k] = Junk /\ conv[k].base = Junk
      \/ temporal[k] = End(k) /\ conv[k].base = End(k)

\* While a prompt is computed in chunks nothing lies beyond the full columns,
\* but the state on its way.
InStep == {"pre", "copy", "forward", "post"}
Placed == {"copy", "forward", "post"}
Prefill == computed + 1 < known

ChunksClean ==
  pc # "waiting" /\ Prefill =>
    /\ computed % BlockSize = 0
    /\ \A k \in Cols : End(k) > computed /\ (pc \in Placed => k # idx) =>
         temporal[k] = Junk /\ conv[k].base = Junk

\* What schedule() has decided.
Planned ==
  /\ pc # "waiting" => computed < known
  /\ pc \in InStep =>
       /\ computed + scheduled <= MaxTokens /\ scheduled >= 1
       /\ Target + NumSpec < width
       /\ IF Prefill
          THEN /\ drafts = 0 /\ computed + scheduled <= known
               /\ \/ computed + scheduled = known
                  \/ (computed + scheduled) % BlockSize = 0
          ELSE scheduled = 1 + drafts
  /\ pc \in Placed => idx = Target /\ ~resumed

\* Between two steps: where the state is, in the running column or, of a
\* resumed request, in the last column hit.
From == IF resumed THEN Seed(computed) ELSE idx

Between ==
  pc \in {"idle", "pre"} =>
    /\ resumed => /\ accepted = 1 /\ computed % BlockSize = 0
                  /\ runner = "v2" => idx = Seed(computed)
                  /\ computed > 0 => Seed(computed) < width
    /\ ~resumed => /\ computed > 0 /\ idx \in Cols /\ computed <= End(idx)
                   /\ idx + NumSpec < width
    /\ Prefill => accepted = 1
    /\ computed > 0 => /\ TempAt(temporal, From, accepted - 1, computed)
                       /\ ConvAt(conv, From, accepted - 1, computed)

\* While the pre-copy runs: each state is still where it was, or has come.
Moving ==
  pc = "copy" =>
    IF src < 0 \/ src = idx
    THEN computed > 0 => /\ TempAt(temporal, idx, accepted - 1, computed)
                         /\ ConvAt(conv, idx, accepted - 1, computed)
    ELSE /\ accepted = 1 /\ src + bias < width
         /\ IF "temporal" \in todo THEN TempAt(temporal, src, bias, computed)
                                   ELSE TempAt(temporal, idx, 0, computed)
         /\ IF "conv" \in todo THEN ConvAt(conv, src, bias, computed)
                               ELSE ConvAt(conv, idx, 0, computed)

Ready ==
  pc = "forward" /\ computed > 0 =>
    /\ TempAt(temporal, idx, accepted - 1, computed)
    /\ ConvAt(conv, idx, accepted - 1, computed)

\* After the forward pass: the states of all tokens verified, until the
\* postprocess has saved the one at the boundary.
After == Running + snap - 1
LastCol == After \div BlockSize - 1
Saves == End(LastCol) >= Running

Written ==
  pc = "post" =>
    /\ snap <= 1 + drafts
    /\ accepted = IF Saves /\ LastCol = idx /\ First \notin todo THEN 1 ELSE snap
    /\ IF Saves /\ LastCol = idx /\ "temporal" \notin todo
       THEN TempAt(temporal, idx, 0, After)
       ELSE \A j \in 0 .. drafts : TempAt(temporal, idx, j, Running + j)
    /\ IF Saves /\ LastCol = idx /\ "conv" \notin todo
       THEN ConvAt(conv, idx, 0, After)
       ELSE ConvAt(conv, idx, 0, Running) /\ conv[idx].span = drafts
    /\ Saves /\ "temporal" \notin todo => TempAt(temporal, LastCol, 0, End(LastCol))
    /\ Saves /\ "conv" \notin todo => ConvAt(conv, LastCol, 0, End(LastCol))

AInv ==
  /\ Types /\ CacheWhole /\ ColumnsWhole /\ ChunksClean /\ Planned
  /\ Between /\ Moving /\ Ready /\ Written /\ GuardUnused

-----------------------------------------------------------------------------
(* Columns and boundaries.                                                 *)

LEMMA Sizes ==
  /\ BlockSize \in Nat \ {0} /\ NumSpec \in Nat /\ NumSpec < BlockSize
  /\ MaxTokens \in Nat /\ MaxPreempts \in Nat
BY AlignAssumption

\* The end of a column is a block beyond that of the one before it.
LEMMA EndStep ==
  /\ \A k \in Int : End(k) \in Int /\ End(k - 1) = End(k) - BlockSize
  /\ \A k \in Nat : End(k) >= BlockSize
  /\ End(-1) = 0 /\ End(-2) = -BlockSize
  /\ \A k, l \in Int : k < l => End(k) + BlockSize <= End(l)
<1> USE Sizes DEF End
<1>1. ASSUME NEW k \in Int PROVE End(k) \in Int /\ End(k - 1) = End(k) - BlockSize
  OBVIOUS
<1>2. ASSUME NEW k \in Nat PROVE End(k) >= BlockSize
  OBVIOUS
<1>3. ASSUME NEW k \in Int, NEW l \in Int, k < l PROVE End(k) + BlockSize <= End(l)
  <2>1. l = k + 1 + (l - k - 1) /\ l - k - 1 \in Nat
    BY <1>3
  <2>2. \A d \in Nat : (k + 1 + d + 1) * BlockSize = (k + 1) * BlockSize + BlockSize + d * BlockSize
    OBVIOUS
  <2>3. \A d \in Nat : d * BlockSize \in Nat
    OBVIOUS
  <2> QED BY <2>1, <2>2, <2>3
<1> QED BY <1>1, <1>2, <1>3

\* n tokens end in column k.
EndsIn(n, k) == k \in Int /\ End(k) - BlockSize < n /\ n <= End(k)

\* Columns are ordered as their ends are.
LEMMA EndOrder ==
  ASSUME NEW k \in Int, NEW l \in Int
  PROVE  /\ End(k) \in Int /\ End(l) \in Int
         /\ k < l <=> End(k) + BlockSize <= End(l)
         /\ k < l <=> End(k) < End(l)
         /\ k <= l <=> End(k) <= End(l)
<1>1. End(k) \in Int /\ End(l) \in Int /\ (k < l => End(k) + BlockSize <= End(l))
      /\ (l < k => End(l) + BlockSize <= End(k))
  BY EndStep
<1>2. k < l \/ k = l \/ l < k
  OBVIOUS
<1> QED BY <1>1, <1>2, Sizes

\* The tokens of a column lie beyond the columns before it.
LEMMA EndsInOrder ==
  ASSUME NEW n \in Int, NEW k \in Int, EndsIn(n, k), NEW l \in Int
  PROVE  l < k <=> End(l) < n
<1>1. CASE l < k
  BY <1>1, EndOrder, Sizes DEF EndsIn
<1>2. CASE k <= l
  BY <1>2, EndOrder, Sizes DEF EndsIn
<1> QED BY <1>1, <1>2

\* They end in one column only.
LEMMA EndsInOne ==
  ASSUME NEW n \in Int, NEW k \in Int, NEW l \in Int, EndsIn(n, k), EndsIn(n, l)
  PROVE  k = l
<1>1. k < l \/ k = l \/ l < k
  OBVIOUS
<1>2. ~(k < l) /\ ~(l < k)
  BY EndsInOrder DEF EndsIn
<1> QED BY <1>1, <1>2

\* Rounding up finds that column.
LEMMA RoundUp ==
  \A n \in Nat : /\ EndsIn(n, CeilDiv(n, BlockSize) - 1) /\ EndsIn(n, Seed(n))
                 /\ Seed(n) = CeilDiv(n, BlockSize) - 1
                 /\ Seed(n) >= -1 /\ (n > 0 => Seed(n) >= 0)
                 /\ (n - 1) \div BlockSize = Seed(n)
<1> SUFFICES ASSUME NEW n \in Nat
             PROVE  /\ EndsIn(n, CeilDiv(n, BlockSize) - 1) /\ EndsIn(n, Seed(n))
                    /\ Seed(n) = CeilDiv(n, BlockSize) - 1
                    /\ Seed(n) >= -1 /\ (n > 0 => Seed(n) >= 0)
                    /\ (n - 1) \div BlockSize = Seed(n)
  OBVIOUS
<1>1. EndsIn(n, CeilDiv(n, BlockSize) - 1)
  BY Sizes DEF CeilDiv, EndsIn, End
<1>2. EndsIn(n, Seed(n))
  BY Sizes DEF Seed, EndsIn, End
<1>3. Seed(n) = CeilDiv(n, BlockSize) - 1
  BY <1>1, <1>2, EndsInOne DEF EndsIn
<1>4. (n - 1) \div BlockSize = Seed(n)
  BY Sizes DEF Seed
<1>5. Seed(n) >= -1 /\ (n > 0 => Seed(n) >= 0)
  <2>1. Seed(n) \in Int
    BY <1>2 DEF EndsIn
  <2>2. -2 < Seed(n) <=> End(-2) < n
    BY <1>2, <2>1, EndsInOrder
  <2>3. -1 < Seed(n) <=> End(-1) < n
    BY <1>2, <2>1, EndsInOrder
  <2>4. End(-1) < n <=> n > 0
    BY EndStep
  <2>5. End(-2) < n
    BY EndStep, Sizes
  <2> QED BY <2>1, <2>2, <2>3, <2>4, <2>5
<1> QED BY <1>1, <1>2, <1>3, <1>4, <1>5

\* Rounding down finds the last full column.
LEMMA RoundDown ==
  \A n \in Nat :
    LET k == n \div BlockSize - 1 IN
      /\ k \in Int /\ k >= -1
      /\ (n \div BlockSize) * BlockSize = End(k)
      /\ End(k) \div BlockSize - 1 = k
      /\ End(k) <= n /\ n < End(k) + BlockSize
      /\ n % BlockSize = 0 => n = End(k) /\ Seed(n) = k
<1> SUFFICES ASSUME NEW n \in Nat, NEW k, k = n \div BlockSize - 1
             PROVE  /\ k \in Int /\ k >= -1
                    /\ (n \div BlockSize) * BlockSize = End(k)
                    /\ End(k) \div BlockSize - 1 = k
                    /\ End(k) <= n /\ n < End(k) + BlockSize
                    /\ n % BlockSize = 0 => n = End(k) /\ Seed(n) = k
  OBVIOUS
<1>1. k \in Int /\ (n \div BlockSize) * BlockSize = End(k)
  BY Sizes DEF End
<1>2. End(k) <= n /\ n < End(k) + BlockSize /\ (n % BlockSize = 0 => n = End(k))
  BY Sizes, <1>1
<1>3. k >= -1
  <2>1. End(-2) < End(k) /\ -2 \in Int
    BY <1>1, <1>2, EndStep, Sizes
  <2> QED BY <1>1, <2>1, EndOrder
<1>4. End(k) \div BlockSize - 1 = k
  BY <1>1, Sizes DEF End
<1>5. n % BlockSize = 0 => Seed(n) = k
  <2>1. SUFFICES ASSUME n = End(k) PROVE Seed(n) = k
    BY <1>2
  <2>2. EndsIn(n, k)
    BY <1>1, <2>1, Sizes DEF EndsIn
  <2>3. EndsIn(n, Seed(n)) /\ Seed(n) \in Int
    BY RoundUp DEF EndsIn
  <2> QED BY <1>1, <2>2, <2>3, EndsInOne
<1> QED BY <1>1, <1>2, <1>3, <1>4, <1>5

\* The request and its drafts fit the block table.
LEMMA TableFits ==
  /\ MaxCols \in Nat
  /\ \A k \in Cols : k \in Int
  /\ \A n \in 1 .. MaxTokens, k \in Int :
       EndsIn(n, k) => k \in Cols /\ k + NumSpec < MaxCols
<1>1. MaxCols \in Nat /\ EndsIn(MaxTokens, MaxCols - NumSpec - 1)
  <2> DEFINE k == CeilDiv(MaxTokens, BlockSize) - 1
  <2>1. MaxTokens \in Nat
    BY Sizes
  <2>2. EndsIn(MaxTokens, k) /\ k = Seed(MaxTokens) /\ Seed(MaxTokens) >= -1
    BY <2>1, RoundUp
  <2>3. MaxCols = CeilDiv(MaxTokens, BlockSize) + NumSpec
    BY DEF MaxCols
  <2>4. CeilDiv(MaxTokens, BlockSize) \in Int
    BY Sizes DEF CeilDiv
  <2>5. k = MaxCols - NumSpec - 1 /\ MaxCols \in Nat
    BY <2>2, <2>3, <2>4, Sizes
  <2> QED BY <2>2, <2>5
<1>2. ASSUME NEW n \in 1 .. MaxTokens, NEW k \in Int, EndsIn(n, k)
      PROVE  k \in Cols /\ k + NumSpec < MaxCols
  <2>1. -1 < k
    BY <1>2, EndsInOrder, EndStep
  <2>2. k <= MaxCols - NumSpec - 1
    <3>1. End(MaxCols - NumSpec - 1) >= n /\ MaxCols - NumSpec - 1 \in Int
      BY <1>1, Sizes, EndStep DEF EndsIn
    <3> QED BY <1>2, <3>1, EndsInOrder, EndStep
  <2> QED BY <1>1, <2>1, <2>2, Sizes DEF Cols
<1> QED BY <1>1, <1>2 DEF Cols

-----------------------------------------------------------------------------
(* The initial states.                                                     *)

LEMMA InitAInv == Init => AInv
<1> SUFFICES ASSUME Init PROVE AInv
  OBVIOUS
<1> USE DEF Init
<1>1. Types
  <2>1. /\ known \in 1 .. MaxTokens /\ computed \in 0 .. MaxTokens /\ scheduled \in 0 .. MaxTokens
        /\ drafts \in 0 .. NumSpec /\ accepted \in 1 .. NumSpec + 1
        /\ snap \in 1 .. NumSpec + 1 /\ bias \in 0 .. NumSpec
    BY Sizes
  <2>2. width \in 0 .. MaxCols
    BY TableFits
  <2>3. temporal \in [Cols -> Contents] /\ conv \in [Cols -> Windows] /\ DOMAIN cache = Cols
    BY DEF Contents, Windows, JunkWindow, Window, Junk
  <2> QED BY <2>1, <2>2, <2>3 DEF Types
<1>2. CacheWhole
  BY DEF CacheWhole, Cached
<1> QED BY <1>1, <1>2 DEF AInv, ColumnsWhole, ChunksClean, Planned, Between, Moving, Ready, Written,
                          GuardUnused, InStep, Placed

-----------------------------------------------------------------------------
(* Start, restart and schedule.                                            *)

\* A prefix hit of h tokens is one state, whole, in the last column hit.
LEMMA HitColumn ==
  ASSUME AInv, NEW h \in 0 .. MaxTokens, Begin(h), NEW last, last = h \div BlockSize - 1
  PROVE  /\ last \in Int /\ last >= -1 /\ last + 1 <= MaxCols /\ h = End(last) /\ Seed(h) = last
         /\ h % BlockSize = 0
         /\ h > 0 => last \in Cols /\ cache[last] = [t |-> h, c |-> h]
<1>1. h \in Nat /\ 0 % BlockSize = 0
  BY Sizes
<1>2. h % BlockSize = 0
  BY <1>1 DEF Begin
<1>3. last \in Int /\ last >= -1 /\ h = End(last) /\ Seed(h) = last
  BY <1>1, <1>2, RoundDown
<1>4. ASSUME h > 0 PROVE last \in Cols /\ cache[last] = [t |-> h, c |-> h]
  <2>1. EndsIn(h, last) /\ h \in 1 .. MaxTokens
    BY <1>1, <1>3, <1>4, RoundUp
  <2>3. last \in Cols
    BY <1>3, <2>1, TableFits
  <2>4. cache[last] # NotCached
    BY <1>4 DEF Begin
  <2> QED BY <1>3, <2>3, <2>4 DEF AInv, CacheWhole, Cached
<1>5. last + 1 <= MaxCols
  <2>1. CASE h > 0
    BY <1>3, <1>4, <2>1, TableFits DEF Cols
  <2>2. CASE h = 0
    <3>1. last \notin Nat
      BY <1>3, <2>2, EndStep, Sizes
    <3>2. MaxCols \in Nat
      BY TableFits
    <3> QED BY <1>3, <3>1, <3>2
  <2> QED BY <1>1, <2>1, <2>2
<1> QED BY <1>2, <1>3, <1>4, <1>5

LEMMA BeginAInv ==
  ASSUME AInv, NEW h \in 0 .. MaxTokens, Begin(h) PROVE AInv'
<1> DEFINE last == h \div BlockSize - 1
<1>1. /\ last \in Int /\ last >= -1 /\ last + 1 <= MaxCols /\ h = End(last) /\ Seed(h) = last
      /\ h % BlockSize = 0
      /\ h > 0 => last \in Cols /\ cache[last] = [t |-> h, c |-> h]
  BY HitColumn
<1>2. /\ temporal' = [k \in Cols |-> IF k = last THEN cache[k].t ELSE Junk]
      /\ conv' = [k \in Cols |-> IF k = last THEN Window(cache[k].c, 0) ELSE JunkWindow]
      /\ width' = last + 1
  BY DEF Begin
<1>3. /\ h < known /\ known' = known /\ pc' = "idle" /\ computed' = h /\ accepted' = 1
      /\ resumed' = TRUE /\ (runner = "v2" => idx' = Seed(h))
      /\ UNCHANGED <<runner, cache, hits>>
  BY DEF Begin
<1> HIDE DEF last
<1>4. \A k \in Cols : /\ temporal'[k] = IF k = last THEN h ELSE Junk
                      /\ conv'[k] = IF k = last THEN Window(h, 0) ELSE JunkWindow
                      /\ k = last => h > 0
  <2>1. ASSUME NEW k \in Cols, k = last PROVE h > 0
    <3>1. last \in Nat
      BY <2>1, TableFits DEF Cols
    <3>2. End(last) >= BlockSize
      BY <3>1, EndStep
    <3> QED BY <1>1, <3>2, Sizes
  <2> QED BY <1>1, <1>2, <2>1
<1>5. Types'
  <2>1. temporal' \in [Cols -> Contents]
    BY <1>2, <1>4 DEF Contents
  <2>2. Window(h, 0) \in Windows /\ JunkWindow \in Windows
    BY DEF Windows, Window, JunkWindow, Contents, Junk
  <2>3. conv' \in [Cols -> Windows]
    BY <1>2, <1>4, <2>2
  <2>4. idx' \in Cols \cup {None, -1}
    <3>1. last \in Cols \/ last = -1
      <4>1. MaxCols \in Nat
        BY TableFits
      <4> QED BY <1>1, <4>1 DEF Cols
    <3> QED BY <1>1, <3>1 DEF Begin, AInv, Types
  <2>5. width' \in 0 .. MaxCols /\ 1 \in 1 .. NumSpec + 1
    BY <1>1, <1>2, TableFits, Sizes
  <2> QED BY <1>3, <2>1, <2>3, <2>4, <2>5 DEF Begin, AInv, Types
<1>6. CacheWhole' /\ GuardUnused'
  BY <1>3 DEF AInv, CacheWhole, GuardUnused
<1>7. ColumnsWhole'
  BY <1>1, <1>3, <1>4 DEF ColumnsWhole, Window, JunkWindow
<1>8. ChunksClean'
  BY <1>1, <1>3, <1>4 DEF ChunksClean, Window, JunkWindow
<1>9. Planned' /\ Moving' /\ Ready' /\ Written'
  BY <1>3 DEF Planned, Moving, Ready, Written, InStep, Placed
<1>10. Between'
  <2>1. Seed(h) < width'
    BY <1>1, <1>2
  <2>2. h > 0 => TempAt(temporal', last, 1 - 1, h) /\ ConvAt(conv', last, 1 - 1, h)
    BY <1>1, <1>4, TableFits DEF TempAt, ConvAt, Window, Junk
  <2> QED BY <1>1, <1>3, <2>1, <2>2 DEF Between, From, Prefill
<1> QED BY <1>5, <1>6, <1>7, <1>8, <1>9, <1>10 DEF AInv

\* What enters the prefix cache is whole, since the full columns are.
LEMMA CacheGrows ==
  ASSUME AInv, pc # "waiting",
         cache' = [k \in Cols |-> IF (k + 1) * BlockSize <= computed /\ temporal[k] # Junk
                                  THEN [t |-> temporal[k], c |-> conv[k].base] ELSE cache[k]]
  PROVE  CacheWhole' /\ DOMAIN cache' = Cols
<1>1. ASSUME NEW k \in Cols PROVE cache'[k] \in Cached(k)
  <2>1. CASE End(k) <= computed /\ temporal[k] # Junk
    <3>1. temporal[k] = End(k) /\ conv[k].base = End(k)
      BY <2>1 DEF AInv, ColumnsWhole
    <3> QED BY <2>1, <3>1 DEF Cached, End
  <2>2. CASE ~(End(k) <= computed /\ temporal[k] # Junk)
    BY <2>2 DEF AInv, CacheWhole, End
  <2> QED BY <2>1, <2>2
<1> QED BY <1>1 DEF CacheWhole

LEMMA PreemptAInv ==
  ASSUME AInv, Preempt PROVE AInv'
<1>1. CacheWhole' /\ DOMAIN cache' = Cols
  BY CacheGrows DEF Preempt
<1>2. pc' = "waiting"
  BY DEF Preempt
<1>3. Types'
  BY <1>1 DEF AInv, Types, Preempt, tableVars
<1> QED BY <1>1, <1>2, <1>3 DEF AInv, ColumnsWhole, ChunksClean, Planned, Between, Moving, Ready,
                                Written, GuardUnused, InStep, Placed, Preempt

\* The columns schedule() gives back.
Gone(n) ==
  {k \in Cols : \/ k < CeilDiv(computed, BlockSize) - 1
                \/ /\ ~resumed /\ CeilDiv(computed + n, BlockSize) + NumSpec > width
                   /\ k \in width - NumSpec .. width - 1
                   /\ k < CeilDiv(computed + n, BlockSize) - 1}

\* Schedule() by its effects.
LEMMA ScheduleIs ==
  ASSUME AInv, NEW n \in 1 .. MaxTokens, NEW d \in 0 .. NumSpec, Schedule(n, d)
  PROVE  /\ pc = "idle" /\ pc' = "pre" /\ scheduled' = n /\ drafts' = d
         /\ computed + n <= MaxTokens
         /\ IF Prefill THEN /\ d = 0 /\ computed + n <= known
                            /\ computed + n = known \/ (computed + n) % BlockSize = 0
                       ELSE n = 1 + d
         /\ temporal' = [k \in Cols |-> IF k \in Gone(n) THEN Junk ELSE temporal[k]]
         /\ conv' = [k \in Cols |-> IF k \in Gone(n) THEN JunkWindow ELSE conv[k]]
         /\ width' = IF CeilDiv(computed + n, BlockSize) + NumSpec > width
                     THEN CeilDiv(computed + n, BlockSize) + NumSpec ELSE width
         /\ CacheWhole' /\ DOMAIN cache' = Cols
         /\ UNCHANGED <<runner, known, computed, idx, accepted, snap, src, bias, todo, resumed,
                        hits, preempts>>
<1> DEFINE end == computed + n
           need == CeilDiv(end, BlockSize) + NumSpec
           full == {k \in Cols : (k + 1) * BlockSize <= computed /\ temporal[k] # Junk}
           gone == {k \in Cols : \/ k < CeilDiv(computed, BlockSize) - 1
                                 \/ ~resumed /\ need > width
                                    /\ k \in width - NumSpec .. width - 1
                                    /\ k < need - NumSpec - 1}
<1>1. need - NumSpec - 1 = CeilDiv(end, BlockSize) - 1
  BY Sizes DEF AInv, Types, CeilDiv
<1>2. gone = Gone(n)
  BY <1>1 DEF Gone
<1> HIDE DEF gone
<1>3. /\ temporal' = [k \in Cols |-> IF k \in gone THEN Junk ELSE temporal[k]]
      /\ conv' = [k \in Cols |-> IF k \in gone THEN JunkWindow ELSE conv[k]]
      /\ cache' = [k \in Cols |-> IF k \in full THEN [t |-> temporal[k], c |-> conv[k].base]
                                  ELSE cache[k]]
  BY DEF Schedule, gone
<1>4. CacheWhole' /\ DOMAIN cache' = Cols
  <2>1. \A k \in Cols : k \in full <=> (k + 1) * BlockSize <= computed /\ temporal[k] # Junk
    OBVIOUS
  <2> HIDE DEF full
  <2>2. cache' = [k \in Cols |-> IF (k + 1) * BlockSize <= computed /\ temporal[k] # Junk
                                 THEN [t |-> temporal[k], c |-> conv[k].base] ELSE cache[k]]
    BY <1>3, <2>1
  <2>3. pc # "waiting"
    BY DEF Schedule
  <2> QED BY <2>2, <2>3, CacheGrows
<1>5. /\ pc = "idle" /\ pc' = "pre" /\ scheduled' = n /\ drafts' = d
      /\ UNCHANGED <<runner, known, computed, idx, accepted, snap, src, bias, todo, resumed,
                     hits, preempts>>
  BY DEF Schedule
<1>6. /\ end <= MaxTokens
      /\ width' = IF need > width THEN need ELSE width
      /\ IF computed + 1 < known
         THEN d = 0 /\ end <= known /\ (end = known \/ ChunkEnd(end))
         ELSE n = 1 + d
  BY DEF Schedule
<1> QED BY <1>2, <1>3, <1>4, <1>5, <1>6 DEF Prefill, ChunkEnd

\* It gives back no column that holds the state.
LEMMA ScheduleKeepsState ==
  ASSUME AInv, NEW n \in 1 .. MaxTokens, NEW d \in 0 .. NumSpec, Schedule(n, d), computed > 0,
         NEW j \in {0, accepted - 1}
  PROVE  From + j \notin Gone(n)
<1>1. /\ computed \in 1 .. MaxTokens /\ pc = "idle" /\ computed + n \in 1 .. MaxTokens
      /\ computed + n \in Nat /\ computed \in Nat /\ width \in Nat /\ accepted \in 1 .. NumSpec + 1
  BY ScheduleIs, Sizes DEF AInv, Types
<1> DEFINE T == CeilDiv(computed + n, BlockSize) - 1
           S == CeilDiv(computed, BlockSize) - 1
<1>2. EndsIn(computed, S) /\ Seed(computed) = S /\ EndsIn(computed + n, T) /\ S \in Int /\ T \in Int
  BY <1>1, RoundUp DEF EndsIn
<1> HIDE DEF T, S
<1>3. From \in Int /\ S <= From
  <2>1. CASE resumed
    BY <1>2, <2>1 DEF From
  <2>2. CASE ~resumed
    <3>1. From = idx /\ idx \in Int /\ computed <= End(idx) /\ End(idx) \in Int
      BY <1>1, <2>2, TableFits, EndStep DEF From, AInv, Between
    <3>2. ~(idx < S)
      BY <1>1, <1>2, <3>1, EndsInOrder
    <3> QED BY <1>2, <3>1, <3>2
  <2> QED BY <2>1, <2>2
<1>4. ~(From + j < S)
  BY <1>1, <1>2, <1>3
<1>5. ASSUME ~resumed, From + j >= width - NumSpec, From + j < T PROVE FALSE
  <2>1. From = idx /\ idx \in Int /\ computed <= End(idx) /\ idx + NumSpec < width
        /\ (Prefill => accepted = 1)
    BY <1>1, <1>5, TableFits DEF From, AInv, Between
  <2>2. accepted > 1 /\ j = accepted - 1 /\ ~Prefill
    BY <1>1, <1>5, <2>1, Sizes
  <2>3. n = 1 + d
    BY <2>2, ScheduleIs
  <2>4. computed + n <= End(idx + 1) /\ End(idx + 1) \in Int
    <3>1. End(idx + 1) = End(idx) + BlockSize /\ End(idx) \in Int
      BY <2>1, Sizes DEF End
    <3> QED BY <1>1, <2>1, <2>3, <3>1, Sizes
  <2>5. ~(idx + 1 < T)
    BY <1>1, <1>2, <2>1, <2>4, EndsInOrder
  <2> QED BY <1>1, <1>2, <1>5, <2>1, <2>2, <2>5
<1> QED BY <1>4, <1>5 DEF Gone, T, S

LEMMA ScheduleAInv ==
  ASSUME AInv, NEW n \in 1 .. MaxTokens, NEW d \in 0 .. NumSpec, Schedule(n, d) PROVE AInv'
<1>1. /\ pc = "idle" /\ pc' = "pre" /\ scheduled' = n /\ drafts' = d
      /\ computed + n <= MaxTokens
      /\ UNCHANGED <<runner, known, computed, idx, accepted, snap, src, bias, todo, resumed,
                     hits, preempts>>
      /\ CacheWhole' /\ DOMAIN cache' = Cols
      /\ Prefill' = Prefill /\ From' = From
  BY ScheduleIs DEF Prefill, From
<1>2. /\ temporal' = [k \in Cols |-> IF k \in Gone(n) THEN Junk ELSE temporal[k]]
      /\ conv' = [k \in Cols |-> IF k \in Gone(n) THEN JunkWindow ELSE conv[k]]
  BY ScheduleIs
<1> DEFINE T == CeilDiv(computed + n, BlockSize) - 1
<1>3. /\ computed \in 0 .. MaxTokens /\ computed + n \in 1 .. MaxTokens /\ computed + n \in Nat
      /\ width \in 0 .. MaxCols /\ temporal \in [Cols -> Contents] /\ conv \in [Cols -> Windows]
  BY <1>1, Sizes DEF AInv, Types
<1>4. /\ T \in Int /\ T + NumSpec < MaxCols /\ T >= 0
      /\ Target' = T /\ CeilDiv(computed + n, BlockSize) = T + 1
  <2>1. EndsIn(computed + n, T) /\ T >= 0
    BY <1>3, RoundUp
  <2>2. T + NumSpec < MaxCols /\ T \in Int
    BY <1>3, <2>1, TableFits DEF EndsIn
  <2>3. CeilDiv(computed + n, BlockSize) = T + 1
    BY <1>3, Sizes DEF CeilDiv
  <2> QED BY <1>1, <2>1, <2>2, <2>3 DEF Target
<1> HIDE DEF T
<1>5. width' \in 0 .. MaxCols /\ width' >= width /\ T + NumSpec < width'
  <2>1. width' = IF T + 1 + NumSpec > width THEN T + 1 + NumSpec ELSE width
    BY <1>4, ScheduleIs
  <2> QED BY <1>3, <1>4, <2>1, TableFits, Sizes
<1>6. Types'
  <2>1. temporal' \in [Cols -> Contents] /\ conv' \in [Cols -> Windows]
    BY <1>2, <1>3 DEF Contents, Windows, JunkWindow, Window, Junk
  <2> QED BY <1>1, <1>5, <2>1 DEF AInv, Types
<1>7. ColumnsWhole'
  BY <1>1, <1>2 DEF AInv, ColumnsWhole, JunkWindow, Window
<1>8. ChunksClean'
  BY <1>1, <1>2 DEF AInv, ChunksClean, JunkWindow, Window, Placed
<1>9. Planned'
  <2>1. IF Prefill THEN /\ d = 0 /\ computed + n <= known
                        /\ computed + n = known \/ (computed + n) % BlockSize = 0
                   ELSE n = 1 + d
    BY ScheduleIs
  <2>2. n >= 1
    OBVIOUS
  <2> QED BY <1>1, <1>4, <1>5, <2>1, <2>2 DEF AInv, Planned, InStep, Placed
<1>10. Between'
  <2>1. computed > 0 => /\ TempAt(temporal', From, accepted - 1, computed)
                        /\ ConvAt(conv', From, accepted - 1, computed)
    <3> SUFFICES ASSUME computed > 0
                 PROVE  /\ TempAt(temporal', From, accepted - 1, computed)
                        /\ ConvAt(conv', From, accepted - 1, computed)
      OBVIOUS
    <3>1. /\ TempAt(temporal, From, accepted - 1, computed)
          /\ ConvAt(conv, From, accepted - 1, computed)
      BY <1>1 DEF AInv, Between
    <3>2. From + (accepted - 1) \notin Gone(n) /\ From + 0 \notin Gone(n)
      BY ScheduleKeepsState
    <3>3. From + 0 = From
      BY <3>1, TableFits DEF ConvAt
    <3> QED BY <1>2, <3>1, <3>2, <3>3 DEF TempAt, ConvAt
  <2>2. /\ resumed /\ computed > 0 => Seed(computed) < width'
        /\ ~resumed => idx + NumSpec < width'
    <3>1. resumed /\ computed > 0 => Seed(computed) < width
      BY <1>1 DEF AInv, Between
    <3>2. ~resumed => idx + NumSpec < width /\ idx \in Int
      BY <1>1, TableFits DEF AInv, Between
    <3>3. Seed(computed) \in Int
      BY <1>3, RoundUp DEF EndsIn
    <3> QED BY <1>3, <1>5, <3>1, <3>2, <3>3, Sizes
  <2> QED BY <1>1, <2>1, <2>2 DEF AInv, Between
<1>11. (Moving /\ Ready /\ Written /\ GuardUnused)'
  BY <1>1 DEF Moving, Ready, Written, AInv, GuardUnused
<1> QED BY <1>1, <1>6, <1>7, <1>8, <1>9, <1>10, <1>11 DEF AInv

-----------------------------------------------------------------------------
(* Before the forward pass.                                                *)

\* Both runners find the state and decide alike.
LEMMA PreprocessIs ==
  ASSUME AInv, PreprocessV1 \/ PreprocessV2
  PROVE  /\ pc = "pre" /\ pc' = "copy" /\ todo' = States /\ resumed' = FALSE /\ idx' = Target
         /\ bias' \in {0, accepted - 1}
         /\ IF From = -1 \/ From = Target
            THEN accepted' = accepted /\ (src' < 0 \/ src' = Target)
            ELSE accepted' = 1 /\ src' = From /\ bias' = accepted - 1
         /\ src' \in {-1, From}
         /\ UNCHANGED <<runner, known, computed, scheduled, drafts, snap, tableVars, cache, hits,
                        preempts>>
<1>1. pc = "pre" /\ computed \in Nat /\ idx \in Cols \cup {None, -1}
  BY DEF AInv, Types, PreprocessV1, PreprocessV2
<1>2. From \in Int /\ From >= -1 /\ (computed = 0 <=> From = -1)
  <2>1. CASE resumed
    BY <1>1, <2>1, RoundUp DEF From, EndsIn, Seed
  <2>2. CASE ~resumed
    BY <1>1, <2>2 DEF From, AInv, Between, Cols
  <2> QED BY <2>1, <2>2
<1>3. CASE PreprocessV1
  <2>1. (IF Cleaned = None THEN (computed - 1) \div BlockSize ELSE Cleaned) = From
    <3>1. CASE resumed
      BY <1>1, <3>1, RoundUp DEF Cleaned, From
    <3>2. CASE ~resumed
      BY <1>1, <3>2 DEF Cleaned, From, AInv, Between, Cols, None
    <3> QED BY <3>1, <3>2
  <2>2. /\ src' = IF From # -1 /\ From # Target THEN From ELSE -1
        /\ bias' = IF From # -1 /\ From # Target THEN accepted - 1 ELSE 0
        /\ accepted' = AcceptedAfter(From # -1 /\ From # Target)
    BY <1>3, <2>1 DEF PreprocessV1
  <2>3. /\ pc' = "copy" /\ todo' = States /\ resumed' = FALSE /\ idx' = Target
        /\ UNCHANGED <<runner, known, computed, scheduled, drafts, snap, tableVars, cache, hits,
                       preempts>>
    BY <1>3 DEF PreprocessV1
  <2> QED BY <1>1, <1>2, <2>2, <2>3 DEF AcceptedAfter
<1>4. CASE PreprocessV2
  <2>1. idx = From
    BY <1>1, <1>4 DEF PreprocessV2, From, AInv, Between
  <2>2. /\ src' = From /\ bias' = accepted - 1
        /\ accepted' = AcceptedAfter(From >= 0 /\ From # Target)
        /\ pc' = "copy" /\ todo' = States /\ resumed' = FALSE /\ idx' = Target
        /\ UNCHANGED <<runner, known, computed, scheduled, drafts, snap, tableVars, cache, hits,
                       preempts>>
    BY <1>4, <2>1 DEF PreprocessV2
  <2> QED BY <1>1, <1>2, <2>2 DEF AcceptedAfter
<1> QED BY <1>3, <1>4

LEMMA PreprocessAInv ==
  ASSUME AInv, PreprocessV1 \/ PreprocessV2 PROVE AInv'
<1>1. /\ pc = "pre" /\ pc' = "copy" /\ todo' = States /\ resumed' = FALSE /\ idx' = Target
      /\ Target' = Target /\ Prefill' = Prefill
      /\ UNCHANGED <<runner, known, computed, scheduled, drafts, snap, width, temporal, conv, cache,
                     hits, preempts>>
  BY PreprocessIs DEF tableVars, Target, Prefill
<1>2. /\ bias' \in {0, accepted - 1} /\ src' \in {-1, From}
      /\ IF From = -1 \/ From = Target
         THEN accepted' = accepted /\ (src' < 0 \/ src' = Target)
         ELSE accepted' = 1 /\ src' = From /\ bias' = accepted - 1
  BY PreprocessIs
<1>3. /\ computed \in 0 .. MaxTokens /\ accepted \in 1 .. NumSpec + 1
      /\ computed + scheduled \in 1 .. MaxTokens
      /\ temporal \in [Cols -> Contents] /\ conv \in [Cols -> Windows]
  BY <1>1, Sizes DEF AInv, Types, Planned, InStep
<1>4. EndsIn(computed + scheduled, Target) /\ Target \in Cols
  <2>1. computed + scheduled \in Nat
    BY <1>3
  <2>2. EndsIn(computed + scheduled, Target)
    BY <2>1, RoundUp DEF Target
  <2> QED BY <1>3, <2>2, TableFits DEF EndsIn
<1>5. /\ From = -1 <=> computed = 0
      /\ computed > 0 => From \in Cols
  <2>1. computed > 0 => From \in Cols
    BY <1>1 DEF AInv, Between, ConvAt
  <2>2. computed = 0 => From = -1
    BY <1>1, RoundUp DEF AInv, Between, From, Seed
  <2> QED BY <1>3, <2>1, <2>2 DEF Cols
<1>6. Types'
  <2>1. src' \in Cols \cup {None, -1}
    BY <1>2, <1>3, <1>5
  <2>2. accepted' \in 1 .. NumSpec + 1 /\ bias' \in 0 .. NumSpec
    BY <1>2, <1>3, Sizes
  <2> QED BY <1>1, <1>4, <2>1, <2>2 DEF AInv, Types
<1>7. CacheWhole' /\ ColumnsWhole' /\ GuardUnused'
  BY <1>1 DEF AInv, CacheWhole, ColumnsWhole, GuardUnused
<1>8. ChunksClean'
  BY <1>1 DEF AInv, ChunksClean, Placed
<1>9. Planned'
  BY <1>1 DEF AInv, Planned, InStep
<1>10. Moving'
  <2> SUFFICES ASSUME computed > 0
               PROVE  IF src' < 0 \/ src' = Target
                      THEN /\ TempAt(temporal, Target, accepted' - 1, computed)
                           /\ ConvAt(conv, Target, accepted' - 1, computed)
                      ELSE /\ accepted' = 1 /\ src' + bias' < width
                           /\ TempAt(temporal, src', bias', computed)
                           /\ ConvAt(conv, src', bias', computed)
    <3>1. CASE computed > 0
      BY <1>1, <3>1 DEF Moving, States
    <3>2. CASE ~(computed > 0)
      BY <1>1, <1>2, <1>3, <1>5, <3>2 DEF Moving
    <3> QED BY <3>1, <3>2
  <2>1. /\ TempAt(temporal, From, accepted - 1, computed)
        /\ ConvAt(conv, From, accepted - 1, computed) /\ From \in Cols /\ From # -1
    BY <1>1, <1>3, <1>5 DEF AInv, Between
  <2>2. CASE From = Target
    BY <1>2, <2>1, <2>2
  <2>3. CASE From # Target
    <3>1. From + (accepted - 1) < width
      <4>1. CASE resumed
        <5>1. accepted = 1 /\ Seed(computed) < width /\ From = Seed(computed)
          BY <1>1, <4>1 DEF AInv, Between, From
        <5> QED BY <2>1, <5>1, TableFits
      <4>2. CASE ~resumed
        <5>1. idx + NumSpec < width /\ From = idx /\ width \in Int
          BY <1>1, <4>2 DEF AInv, Between, From, Types
        <5> QED BY <1>3, <2>1, <5>1, TableFits, Sizes
      <4> QED BY <4>1, <4>2
    <3>2. ~(From < 0)
      BY <2>1, TableFits DEF Cols
    <3> QED BY <1>2, <2>1, <2>3, <3>1, <3>2
  <2> QED BY <2>2, <2>3
<1>11. Between' /\ Ready' /\ Written'
  BY <1>1 DEF Between, Ready, Written
<1> QED BY <1>6, <1>7, <1>8, <1>9, <1>10, <1>11 DEF AInv

\* A copy within the row brings the state to its new column.
LEMMA TempCopied ==
  ASSUME Types, NEW from \in Int, NEW to \in Cols, NEW b \in Nat, NEW n \in Nat,
         Copy("temporal", from, to, b), to < width, from + b < width, TempAt(temporal, from, b, n)
  PROVE  temporal' = [temporal EXCEPT ![to] = n] /\ UNCHANGED <<conv, hits>>
<1>1. At("temporal", from, b) = n
  BY DEF At, TempAt
<1>2. ~(to >= width \/ from + b >= width)
  BY TableFits DEF Types, TempAt
<1> QED BY <1>1, <1>2 DEF Copy

LEMMA ConvCopied ==
  ASSUME Types, NEW from \in Int, NEW to \in Cols, NEW b \in Nat, NEW n \in Nat,
         Copy("conv", from, to, b), to < width, from < width, ConvAt(conv, from, b, n)
  PROVE  conv' = [conv EXCEPT ![to] = Window(n, conv[from].span - b)] /\ UNCHANGED <<temporal, hits>>
<1>1. At("conv", from, b) = n /\ n # Junk
  BY DEF At, ConvAt, Junk
<1>2. ~(to >= width \/ from + 0 >= width)
  BY DEF Types, ConvAt
<1> QED BY <1>1, <1>2 DEF Copy

\* The columns a step uses.
LEMMA Placement ==
  ASSUME AInv, pc \in Placed
  PROVE  /\ computed \in Nat /\ computed + scheduled \in 1 .. MaxTokens
         /\ computed + scheduled > computed
         /\ EndsIn(computed + scheduled, idx) /\ idx = Target /\ idx \in Nat /\ idx \in Cols
         /\ computed < End(idx) /\ End(idx) \in Int
         /\ idx + NumSpec < width /\ width <= MaxCols /\ width \in Nat
         /\ \A j \in 0 .. NumSpec : idx + j \in Cols
         /\ drafts \in 0 .. NumSpec
         /\ Running \in Nat /\ Running > computed /\ Running + drafts = computed + scheduled
<1>1. /\ computed \in Nat /\ scheduled \in Nat /\ drafts \in 0 .. NumSpec /\ MaxTokens \in Nat
      /\ computed + scheduled <= MaxTokens /\ scheduled >= 1 /\ idx = Target
      /\ idx + NumSpec < width /\ width \in 0 .. MaxCols /\ MaxCols \in Nat
      /\ IF Prefill THEN drafts = 0 ELSE scheduled = 1 + drafts
  BY Sizes, TableFits DEF AInv, Types, Planned, Placed, InStep
<1>2. computed + scheduled \in 1 .. MaxTokens /\ computed + scheduled \in Nat
      /\ computed + scheduled > computed
  BY <1>1
<1>3. EndsIn(computed + scheduled, idx)
  BY <1>1, <1>2, RoundUp DEF Target
<1>4. idx \in Cols /\ idx \in Nat
  BY <1>2, <1>3, TableFits DEF EndsIn, Cols
<1>5. computed < End(idx) /\ End(idx) \in Int
  BY <1>1, <1>2, <1>3, <1>4, EndStep DEF EndsIn
<1>6. \A j \in 0 .. NumSpec : idx + j \in Cols
  BY <1>1, <1>4, Sizes DEF Cols
<1>7. Running \in Nat /\ Running > computed /\ Running + drafts = computed + scheduled
  BY <1>1, Sizes DEF Running
<1> QED BY <1>1, <1>2, <1>3, <1>4, <1>5, <1>6, <1>7

\* Columns full before the step lie below those it uses.
LEMMA FullBelow ==
  ASSUME AInv, pc \in Placed, NEW k \in Cols, End(k) <= computed
  PROVE  k < idx
<1>1. computed < End(idx) /\ computed \in Nat /\ idx \in Int /\ k \in Int /\ End(idx) \in Int
      /\ End(k) \in Int
  BY Placement, TableFits, EndStep
<1>2. End(k) < End(idx)
  BY <1>1
<1> QED BY <1>1, <1>2, EndOrder

LEMMA PrecopyAInv ==
  ASSUME AInv, NEW s \in States, Precopy(s) PROVE AInv'
<1>1. /\ pc = "copy" /\ s \in todo /\ todo' = todo \ {s} /\ pc \in Placed
      /\ pc' = IF todo = {s} THEN "forward" ELSE "copy"
      /\ pc' \in {"copy", "forward"} /\ pc' \in Placed /\ pc' \in InStep /\ pc \in InStep
      /\ UNCHANGED <<runner, known, computed, scheduled, drafts, idx, accepted, snap, src, bias,
                     width, cache, resumed, preempts>>
      /\ Target' = Target /\ Prefill' = Prefill
  BY DEF Precopy, Placed, InStep, Target, Prefill
<1>2. /\ idx \in Cols /\ idx < width /\ idx \in Nat /\ computed \in Nat
      /\ bias \in Nat /\ todo \subseteq States /\ width \in Nat
  BY <1>1, Placement, Sizes DEF AInv, Types
<1>3. CASE src < 0 \/ src = idx
  <2>1. UNCHANGED <<temporal, conv, hits>>
    BY <1>3 DEF Precopy
  <2>2. computed > 0 => /\ TempAt(temporal, idx, accepted - 1, computed)
                        /\ ConvAt(conv, idx, accepted - 1, computed)
    BY <1>1, <1>3 DEF AInv, Moving
  <2>3. Types'
    BY <1>1, <2>1 DEF AInv, Types
  <2>4. Moving' /\ Ready'
    BY <1>1, <1>3, <2>1, <2>2 DEF Moving, Ready
  <2>5. CacheWhole' /\ ColumnsWhole' /\ GuardUnused'
    BY <1>1, <2>1 DEF AInv, CacheWhole, ColumnsWhole, GuardUnused
  <2>6. ChunksClean' /\ Planned'
    BY <1>1, <2>1 DEF AInv, ChunksClean, Planned
  <2>7. Between' /\ Written'
    BY <1>1 DEF Between, Written
  <2> QED BY <2>3, <2>4, <2>5, <2>6, <2>7 DEF AInv
<1>4. CASE ~(src < 0 \/ src = idx)
  <2>1. /\ accepted = 1 /\ src + bias < width /\ src \in Cols /\ src \in Int /\ src < width
        /\ Copy(s, src, idx, bias)
        /\ IF "temporal" \in todo THEN TempAt(temporal, src, bias, computed)
                                  ELSE TempAt(temporal, idx, 0, computed)
        /\ IF "conv" \in todo THEN ConvAt(conv, src, bias, computed)
                              ELSE ConvAt(conv, idx, 0, computed)
    <3>1. src \in Cols
      BY <1>4 DEF AInv, Types, None
    <3> QED BY <1>1, <1>2, <1>4, <3>1, TableFits DEF AInv, Moving, Precopy
  <2>2. /\ temporal' \in [Cols -> Contents] /\ conv' \in [Cols -> Windows] /\ hits' = hits
        /\ \A k \in Cols : k # idx => temporal'[k] = temporal[k] /\ conv'[k] = conv[k]
        /\ IF "temporal" \in todo' THEN TempAt(temporal', src, bias, computed)
                                   ELSE TempAt(temporal', idx, 0, computed)
        /\ IF "conv" \in todo' THEN ConvAt(conv', src, bias, computed)
                               ELSE ConvAt(conv', idx, 0, computed)
    <3>0. temporal \in [Cols -> Contents] /\ conv \in [Cols -> Windows] /\ idx + 0 \in Cols
      BY <1>2 DEF AInv, Types
    <3>1. CASE s = "temporal"
      <4>1. temporal' = [temporal EXCEPT ![idx] = computed] /\ UNCHANGED <<conv, hits>>
        BY <1>1, <1>2, <2>1, <3>1, TempCopied DEF AInv
      <4>2. TempAt(temporal', idx, 0, computed)
        BY <1>2, <3>0, <4>1 DEF TempAt
      <4> QED BY <1>1, <1>2, <2>1, <3>0, <3>1, <4>1, <4>2 DEF Contents
    <3>2. CASE s = "conv"
      <4>1. /\ conv' = [conv EXCEPT ![idx] = Window(computed, conv[src].span - bias)]
            /\ UNCHANGED <<temporal, hits>> /\ ConvAt(conv, src, bias, computed)
        BY <1>1, <1>2, <2>1, <3>2, ConvCopied DEF AInv
      <4>2. Window(computed, conv[src].span - bias) \in Windows
        BY <1>2, <2>1, <3>0, <4>1 DEF Window, Windows, ConvAt, Contents, Junk
      <4>3. ConvAt(conv', idx, 0, computed)
        BY <1>2, <3>0, <4>1, <4>2 DEF ConvAt, Window, Windows, Junk
      <4> QED BY <1>1, <1>2, <2>1, <3>0, <3>2, <4>1, <4>2, <4>3
    <3> QED BY <3>1, <3>2 DEF States
  <2>3. Types'
    BY <1>1, <2>2 DEF AInv, Types
  <2>4. Moving' /\ Ready'
    BY <1>1, <1>4, <2>1, <2>2 DEF Moving, Ready
  <2>5. CacheWhole' /\ GuardUnused'
    BY <1>1, <2>2 DEF AInv, CacheWhole, GuardUnused
  <2>6. ColumnsWhole'
    <3>1. \A k \in Cols : End(k) <= computed => k # idx
      BY <1>1, <1>2, FullBelow
    <3> QED BY <1>1, <2>2, <3>1 DEF AInv, ColumnsWhole
  <2>7. ChunksClean'
    BY <1>1, <2>2 DEF AInv, ChunksClean
  <2>8. Planned' /\ Between' /\ Written'
    BY <1>1 DEF AInv, Planned, Between, Written
  <2> QED BY <2>3, <2>4, <2>5, <2>6, <2>7, <2>8 DEF AInv
<1> QED BY <1>3, <1>4

-----------------------------------------------------------------------------
(* The forward pass.                                                       *)

\* What the layers read is the state of the tokens computed so far.
LEMMA ReadyReads ==
  ASSUME AInv, pc = "forward"
  PROVE  \A s \in States : Initial(s) = computed
<1>1. ASSUME NEW s \in States PROVE Initial(s) = computed
  BY DEF AInv, Ready, Initial, At, TempAt, ConvAt, States, Types
<1> QED BY <1>1

LEMMA ForwardAInv ==
  ASSUME AInv, NEW a \in 1 .. NumSpec + 1, Forward(a) PROVE AInv'
<1>1. /\ pc = "forward" /\ pc' = "post" /\ a <= 1 + drafts
      /\ accepted' = a /\ snap' = a /\ todo' = States
      /\ pc \in Placed /\ pc' \in Placed /\ pc \in InStep /\ pc' \in InStep
      /\ UNCHANGED <<runner, known, computed, scheduled, drafts, idx, src, bias, width, cache,
                     resumed, hits, preempts>>
      /\ Target' = Target /\ Prefill' = Prefill /\ Running' = Running
  BY DEF Forward, Placed, InStep, Target, Prefill, Running
<1>2. /\ computed \in Nat /\ idx \in Cols /\ idx \in Nat /\ drafts \in 0 .. NumSpec
      /\ Running \in Nat /\ \A j \in 0 .. NumSpec : idx + j \in Cols
      /\ NumSpec \in Nat /\ temporal \in [Cols -> Contents] /\ conv \in [Cols -> Windows]
  BY <1>1, Placement, Sizes DEF AInv, Types
<1>3. Initial("temporal") = computed /\ Initial("conv") = computed
  BY <1>1, ReadyReads DEF States
<1>4. /\ temporal' = [k \in Cols |-> IF k \in idx .. idx + drafts THEN Running + (k - idx)
                                     ELSE temporal[k]]
      /\ conv' = [conv EXCEPT ![idx] = Window(Running, drafts)]
  BY <1>3 DEF Forward
<1>5. Types'
  <2>1. temporal' \in [Cols -> Contents]
    BY <1>2, <1>4, TableFits DEF Contents
  <2>2. Window(Running, drafts) \in Windows
    BY <1>2 DEF Window, Windows, Contents, Junk
  <2> QED BY <1>1, <1>2, <1>4, <2>1, <2>2 DEF AInv, Types
<1>6. CacheWhole' /\ GuardUnused' /\ Planned' /\ Between' /\ Moving' /\ Ready'
  BY <1>1 DEF AInv, CacheWhole, GuardUnused, Planned, Between, Moving, Ready
<1>7. ColumnsWhole'
  <2>1. ASSUME NEW k \in Cols, End(k) <= computed
        PROVE  temporal'[k] = temporal[k] /\ conv'[k] = conv[k]
    <3>1. k < idx /\ k \in Int
      BY <1>1, <2>1, FullBelow, TableFits
    <3> QED BY <1>2, <1>4, <3>1
  <2> QED BY <1>1, <2>1 DEF AInv, ColumnsWhole
<1>8. ChunksClean'
  <2>1. ASSUME Prefill, NEW k \in Cols, k # idx
        PROVE  temporal'[k] = temporal[k] /\ conv'[k] = conv[k]
    <3>1. drafts = 0
      BY <1>1, <2>1 DEF AInv, Planned
    <3> QED BY <1>2, <1>4, <2>1, <3>1, TableFits
  <2> QED BY <1>1, <2>1 DEF AInv, ChunksClean
<1>9. Written'
  <2>1. ASSUME NEW j \in 0 .. drafts PROVE TempAt(temporal', idx, j, Running + j)
    <3>1. idx + j \in Cols /\ idx + j \in idx .. idx + drafts
      BY <1>2
    <3> QED BY <1>2, <1>4, <3>1 DEF TempAt
  <2>2. ConvAt(conv', idx, 0, Running) /\ conv'[idx].span = drafts
    BY <1>2, <1>4 DEF ConvAt, Window, Junk
  <2> QED BY <1>1, <2>1, <2>2 DEF Written, States, First
<1> QED BY <1>5, <1>6, <1>7, <1>8, <1>9 DEF AInv

-----------------------------------------------------------------------------
(* The postprocess.                                                        *)

\* The last column the step fills, if it fills one.
LEMMA Boundary ==
  ASSUME AInv, pc = "post"
  PROVE  /\ After \in Nat /\ After >= Running /\ After <= computed + scheduled
         /\ After <= Running + drafts /\ snap \in 1 .. 1 + drafts /\ snap - 1 \in 0 .. drafts
         /\ LastCol \in Int /\ End(LastCol) \in Int
         /\ End(LastCol) <= After /\ After < End(LastCol) + BlockSize
         /\ (After \div BlockSize) * BlockSize = End(LastCol)
         /\ End(LastCol) \div BlockSize - 1 = LastCol
         /\ LastCol <= idx
         /\ Saves => LastCol \in Cols /\ LastCol \in Nat
<1>1. /\ pc \in Placed /\ Running \in Nat /\ Running > computed /\ computed \in Nat
      /\ Running + drafts = computed + scheduled /\ drafts \in Nat
      /\ idx \in Cols /\ idx \in Nat /\ End(idx) \in Int
      /\ computed + scheduled <= End(idx)
  <2>1. pc \in Placed
    BY DEF Placed
  <2> QED BY <2>1, Placement, Sizes DEF EndsIn
<1>2. snap \in 1 .. 1 + drafts /\ snap - 1 \in 0 .. drafts
  BY <1>1, Sizes DEF AInv, Types, Written
<1>3. After \in Nat /\ After >= Running /\ After <= Running + drafts
  BY <1>1, <1>2 DEF After
<1>4. /\ LastCol \in Int /\ LastCol >= -1 /\ End(LastCol) <= After /\ After < End(LastCol) + BlockSize
      /\ (After \div BlockSize) * BlockSize = End(LastCol)
      /\ End(LastCol) \div BlockSize - 1 = LastCol
  BY <1>3, RoundDown DEF LastCol
<1>5. End(LastCol) \in Int
  BY <1>4, EndStep
<1>6. End(LastCol) <= End(idx)
  BY <1>1, <1>3, <1>4, <1>5
<1>7. LastCol <= idx
  BY <1>1, <1>4, <1>6, EndOrder
<1>8. ASSUME Saves PROVE LastCol \in Cols /\ LastCol \in Nat
  <2>1. LastCol # -1
    BY <1>1, <1>8, EndStep DEF Saves
  <2> QED BY <1>1, <1>4, <1>7, <2>1, TableFits DEF Cols
<1> QED BY <1>1, <1>2, <1>3, <1>4, <1>5, <1>7, <1>8

\* Both runners compute the same boundary.
LEMMA PostprocessIs ==
  ASSUME AInv, NEW s \in States, Postprocess(s)
  PROVE  /\ pc = "post" /\ s \in todo /\ todo' = todo \ {s}
         /\ accepted' = IF Saves /\ LastCol = idx /\ s = First THEN 1 ELSE accepted
         /\ IF ~Saves \/ (LastCol = idx /\ End(LastCol) = Running)
            THEN UNCHANGED <<temporal, conv, hits>>
            ELSE Copy(s, idx, LastCol, End(LastCol) - Running)
         /\ UNCHANGED <<runner, pc, known, computed, scheduled, drafts, idx, snap, src, bias, width,
                        cache, resumed, preempts>>
<1>1. pc = "post" /\ s \in todo
  BY DEF Postprocess
<1>2. /\ Running \in Nat /\ snap \in Nat
      /\ (After \div BlockSize) * BlockSize = End(LastCol)
      /\ End(LastCol) \div BlockSize - 1 = LastCol
  BY <1>1, Boundary, Placement DEF Placed, Saves
<1> DEFINE after == Running + snap - 1
           running == IF runner = "v1" THEN Running ELSE after - CountRead + 1
           aligned == ((running + CountRead - 1) \div BlockSize) * BlockSize
           saves == NeedsCopy(aligned, running)
           dest == aligned \div BlockSize - 1
<1>3. running = Running /\ running + CountRead - 1 = After
  BY <1>2 DEF CountRead, After
<1>4. aligned = End(LastCol) /\ dest = LastCol /\ saves = Saves
  BY <1>2, <1>3 DEF NeedsCopy, Saves
<1>5. /\ accepted' = IF saves /\ dest = idx /\ s = First THEN 1 ELSE accepted
      /\ IF ~saves \/ (dest = idx /\ aligned = running)
         THEN UNCHANGED <<temporal, conv, hits>>
         ELSE Copy(s, idx, dest, aligned - running)
  BY DEF Postprocess
<1>6. /\ todo' = todo \ {s}
      /\ UNCHANGED <<runner, pc, known, computed, scheduled, drafts, idx, snap, src, bias, width,
                     cache, resumed, preempts>>
  BY DEF Postprocess
<1> HIDE DEF running, aligned, saves, dest
<1> QED BY <1>1, <1>3, <1>4, <1>5, <1>6

\* A program saves the state of the last full column, unless it is there.
Unsaved == ~Saves \/ (LastCol = idx /\ End(LastCol) = Running)

LEMMA TemporalSaved ==
  ASSUME AInv, Postprocess("temporal")
  PROVE  /\ UNCHANGED <<conv, hits>>
         /\ \A j \in 0 .. drafts : TempAt(temporal, idx, j, Running + j)
         /\ IF Unsaved THEN temporal' = temporal
                       ELSE temporal' = [temporal EXCEPT ![LastCol] = End(LastCol)]
<1>1. pc = "post" /\ "temporal" \in todo /\ "temporal" \in States /\ pc \in Placed
  BY PostprocessIs DEF States, Placed
<1>2. \A j \in 0 .. drafts : TempAt(temporal, idx, j, Running + j)
  BY <1>1 DEF AInv, Written
<1>3. CASE Unsaved
  BY <1>1, <1>2, <1>3, PostprocessIs DEF Unsaved
<1>4. CASE ~Unsaved
  <2> DEFINE b == End(LastCol) - Running
  <2>1. /\ Saves /\ Running \in Nat /\ End(LastCol) \in Int /\ LastCol \in Cols
        /\ drafts \in 0 .. NumSpec /\ End(LastCol) <= Running + drafts /\ LastCol <= idx
        /\ LastCol \in Int /\ idx \in Int /\ idx + NumSpec < width /\ width \in Nat
        /\ NumSpec \in Nat
    BY <1>1, <1>4, Boundary, Placement, TableFits, Sizes DEF Unsaved
  <2>2. b \in 0 .. drafts /\ b \in Nat /\ Running + b = End(LastCol) /\ End(LastCol) \in Nat
    BY <2>1 DEF Saves
  <2>3. LastCol < width /\ idx + b < width
    BY <2>1, <2>2
  <2>4. Copy("temporal", idx, LastCol, b)
    BY <1>1, <1>4, PostprocessIs DEF Unsaved
  <2>5. TempAt(temporal, idx, b, End(LastCol))
    BY <1>2, <2>2
  <2> HIDE DEF b
  <2> QED BY <1>2, <1>4, <2>1, <2>2, <2>3, <2>4, <2>5, TempCopied DEF AInv
<1> QED BY <1>3, <1>4

LEMMA ConvSaved ==
  ASSUME AInv, Postprocess("conv")
  PROVE  /\ UNCHANGED <<temporal, hits>>
         /\ ConvAt(conv, idx, 0, Running) /\ conv[idx].span = drafts
         /\ IF Unsaved THEN conv' = conv
            ELSE /\ drafts - (End(LastCol) - Running) \in Nat
                 /\ conv' = [conv EXCEPT ![LastCol] =
                               Window(End(LastCol), drafts - (End(LastCol) - Running))]
<1>1. pc = "post" /\ "conv" \in todo /\ "conv" \in States /\ pc \in Placed
  BY PostprocessIs DEF States, Placed
<1>2. ConvAt(conv, idx, 0, Running) /\ conv[idx].span = drafts
  BY <1>1 DEF AInv, Written
<1>3. CASE Unsaved
  BY <1>1, <1>2, <1>3, PostprocessIs DEF Unsaved
<1>4. CASE ~Unsaved
  <2> DEFINE b == End(LastCol) - Running
  <2>1. /\ Saves /\ Running \in Nat /\ End(LastCol) \in Int /\ LastCol \in Cols
        /\ drafts \in 0 .. NumSpec /\ End(LastCol) <= Running + drafts /\ LastCol <= idx
        /\ LastCol \in Int /\ idx \in Int /\ idx + NumSpec < width /\ width \in Nat
        /\ NumSpec \in Nat /\ conv \in [Cols -> Windows] /\ idx \in Cols
    BY <1>1, <1>4, Boundary, Placement, TableFits, Sizes DEF Unsaved, AInv, Types
  <2>2. /\ b \in 0 .. drafts /\ b \in Nat /\ Running + b = End(LastCol) /\ End(LastCol) \in Nat
        /\ drafts - b \in Nat
    BY <2>1 DEF Saves
  <2>3. LastCol < width /\ idx < width
    BY <2>1
  <2>4. Copy("conv", idx, LastCol, b)
    BY <1>1, <1>4, PostprocessIs DEF Unsaved
  <2>5. ConvAt(conv, idx, b, End(LastCol))
    <3>1. conv[idx].base \in Int /\ conv[idx].base # Junk
      BY <1>2, <2>1 DEF ConvAt, Windows, Contents, Junk
    <3>2. conv[idx].base = Running
      BY <1>2, <2>1, <3>1 DEF ConvAt
    <3> QED BY <1>2, <2>1, <2>2, <3>1, <3>2 DEF ConvAt
  <2> HIDE DEF b
  <2>6. conv' = [conv EXCEPT ![LastCol] = Window(End(LastCol), conv[idx].span - b)]
        /\ UNCHANGED <<temporal, hits>>
    BY <2>1, <2>2, <2>3, <2>4, <2>5, ConvCopied DEF AInv
  <2> QED BY <1>2, <1>4, <2>2, <2>6 DEF b
<1> QED BY <1>3, <1>4

\* A saved column is full, and beyond those full before.
LEMMA SavedColumn ==
  ASSUME AInv, pc = "post", Saves
  PROVE  /\ End(LastCol) > computed
         /\ Prefill => LastCol = idx
         /\ LastCol = idx => End(LastCol) = After
<1>1. /\ pc \in Placed /\ Running > computed /\ Running \in Nat /\ computed \in Nat
      /\ Running + drafts = computed + scheduled /\ EndsIn(computed + scheduled, idx)
      /\ idx \in Int /\ drafts \in Nat
  BY Placement DEF Placed
<1>2. /\ LastCol \in Int /\ End(LastCol) \in Int /\ End(LastCol) <= After /\ After \in Nat
      /\ After <= computed + scheduled
  BY Boundary
<1>3. End(LastCol) > computed
  BY <1>1, <1>2 DEF Saves
<1>4. ASSUME Prefill PROVE LastCol = idx
  <2>1. drafts = 0
    BY <1>1, <1>4 DEF AInv, Planned, Placed, InStep
  <2>2. End(LastCol) = computed + scheduled /\ computed + scheduled \in Int
    BY <1>1, <1>2, <2>1 DEF Saves
  <2>3. EndsIn(computed + scheduled, LastCol)
    BY <1>2, <2>2, Sizes DEF EndsIn
  <2> QED BY <1>1, <1>2, <2>2, <2>3, EndsInOne
<1>5. ASSUME LastCol = idx PROVE End(LastCol) = After
  BY <1>1, <1>2, <1>5 DEF EndsIn
<1> QED BY <1>3, <1>4, <1>5

LEMMA PostprocessAInv ==
  ASSUME AInv, NEW s \in States, Postprocess(s) PROVE AInv'
<1>1. /\ pc = "post" /\ s \in todo /\ todo' = todo \ {s} /\ pc \in Placed /\ pc \in InStep
      /\ UNCHANGED <<runner, pc, known, computed, scheduled, drafts, idx, snap, src, bias, width,
                     cache, resumed, preempts>>
      /\ Target' = Target /\ Prefill' = Prefill /\ Running' = Running
      /\ After' = After /\ LastCol' = LastCol
      /\ Saves' = Saves
  BY PostprocessIs DEF Placed, InStep, Target, Prefill, Running, After, LastCol, Saves
<1>2. /\ idx \in Cols /\ idx \in Nat /\ drafts \in 0 .. NumSpec /\ NumSpec \in Nat
      /\ computed \in Nat /\ Running \in Nat /\ snap \in 1 .. 1 + drafts
      /\ temporal \in [Cols -> Contents] /\ conv \in [Cols -> Windows] /\ todo \subseteq States
      /\ LastCol \in Int /\ LastCol <= idx /\ End(LastCol) \in Int /\ After \in Nat
      /\ After <= Running + drafts
      /\ Saves => LastCol \in Cols /\ LastCol \in Nat /\ End(LastCol) >= Running
  BY <1>1, Placement, Boundary, Sizes DEF AInv, Types, Saves
<1>3. /\ s = "temporal" =>
           /\ UNCHANGED <<conv, hits>>
           /\ \A j \in 0 .. drafts : TempAt(temporal, idx, j, Running + j)
           /\ IF Unsaved THEN temporal' = temporal
              ELSE temporal' = [temporal EXCEPT ![LastCol] = End(LastCol)]
      /\ s = "conv" =>
           /\ UNCHANGED <<temporal, hits>>
           /\ ConvAt(conv, idx, 0, Running) /\ conv[idx].span = drafts
           /\ IF Unsaved THEN conv' = conv
              ELSE /\ drafts - (End(LastCol) - Running) \in Nat
                   /\ conv' = [conv EXCEPT ![LastCol] =
                                 Window(End(LastCol), drafts - (End(LastCol) - Running))]
  BY TemporalSaved, ConvSaved
<1>4. Unsaved \/ Saves
  BY DEF Unsaved
<1>5. s \in {"temporal", "conv"} /\ First = "conv"
  BY DEF States, First
<1>6. ASSUME Saves PROVE Window(End(LastCol), drafts - (End(LastCol) - Running)) \in Windows
                         \/ Unsaved \/ s # "conv"
  BY <1>2, <1>3, <1>6 DEF Window, Windows, Contents, Junk
<1>7. /\ temporal' \in [Cols -> Contents] /\ conv' \in [Cols -> Windows] /\ hits' = hits
      /\ \A k \in Cols : (~Saves \/ k # LastCol) => temporal'[k] = temporal[k] /\ conv'[k] = conv[k]
  <2>1. CASE s = "temporal"
    BY <1>2, <1>3, <1>4, <2>1 DEF Contents
  <2>2. CASE s = "conv"
    BY <1>2, <1>3, <1>4, <1>6, <2>2
  <2> QED BY <1>5, <2>1, <2>2
<1>8. Types'
  <2>1. accepted' \in 1 .. NumSpec + 1
    BY <1>2, PostprocessIs DEF AInv, Types
  <2> QED BY <1>1, <1>7, <2>1 DEF AInv, Types
<1>9. CacheWhole' /\ GuardUnused' /\ Planned' /\ Between' /\ Moving' /\ Ready'
  BY <1>1, <1>7 DEF AInv, CacheWhole, GuardUnused, Planned, Between, Moving, Ready
<1>10. ColumnsWhole'
  <2>1. \A k \in Cols : End(k) <= computed => ~Saves \/ k # LastCol
    BY <1>1, <1>2, SavedColumn
  <2> QED BY <1>1, <1>7, <2>1 DEF AInv, ColumnsWhole
<1>11. ChunksClean'
  <2>1. Prefill => ~Saves \/ LastCol = idx
    BY <1>1, SavedColumn
  <2> QED BY <1>1, <1>7, <2>1 DEF AInv, ChunksClean
<1>12. Written'
  <2>1. accepted' = IF Saves /\ LastCol = idx /\ First \notin todo' THEN 1 ELSE snap
    BY <1>1, PostprocessIs DEF AInv, Written
  <2>2. CASE s = "temporal"
    <3>1. "temporal" \notin todo' /\ ("conv" \in todo' <=> "conv" \in todo) /\ conv' = conv
      BY <1>1, <1>3, <2>2
    <3>2. TempAt(temporal, idx, 0, Running) /\ idx + 0 = idx
      <4>1. TempAt(temporal, idx, 0, Running + 0) /\ Running + 0 = Running
        BY <1>2, <1>3, <2>2
      <4> QED BY <1>2, <4>1
    <3>3. ASSUME Saves PROVE TempAt(temporal', LastCol, 0, End(LastCol))
      <4>1. LastCol \in Cols /\ LastCol + 0 = LastCol
        BY <1>2, <3>3
      <4>2. CASE Unsaved
        BY <1>3, <2>2, <3>2, <3>3, <4>2 DEF Unsaved
      <4>3. CASE ~Unsaved
        BY <1>2, <1>3, <2>2, <4>1, <4>3 DEF TempAt
      <4> QED BY <4>2, <4>3
    <3>4. ASSUME Saves, LastCol = idx PROVE TempAt(temporal', idx, 0, After)
      BY <1>1, <3>3, <3>4, SavedColumn
    <3>5. ASSUME ~Saves \/ LastCol # idx, NEW j \in 0 .. drafts
          PROVE  TempAt(temporal', idx, j, Running + j)
      <4>1. TempAt(temporal, idx, j, Running + j)
        BY <1>3, <2>2
      <4>2. ~Saves \/ idx + j # LastCol
        BY <1>2, <3>5
      <4> QED BY <1>7, <4>1, <4>2 DEF TempAt
    <3> QED BY <1>1, <2>1, <3>1, <3>3, <3>4, <3>5 DEF AInv, Written
  <2>3. CASE s = "conv"
    <3>1. "conv" \notin todo' /\ ("temporal" \in todo' <=> "temporal" \in todo)
          /\ temporal' = temporal
      BY <1>1, <1>3, <2>3
    <3>2. ConvAt(conv, idx, 0, Running) /\ conv[idx].span = drafts
      BY <1>3, <2>3
    <3>3. ASSUME Saves PROVE ConvAt(conv', LastCol, 0, End(LastCol))
      <4>1. LastCol \in Cols /\ End(LastCol) \in Nat
        BY <1>2, <3>3
      <4>2. CASE Unsaved
        BY <1>3, <2>3, <3>2, <3>3, <4>2 DEF Unsaved
      <4>3. CASE ~Unsaved
        BY <1>2, <1>3, <2>3, <4>1, <4>3 DEF ConvAt, Window, Junk
      <4> QED BY <4>2, <4>3
    <3>4. ASSUME Saves, LastCol = idx PROVE ConvAt(conv', idx, 0, After)
      BY <1>1, <3>3, <3>4, SavedColumn
    <3>5. ASSUME ~Saves \/ LastCol # idx
          PROVE  ConvAt(conv', idx, 0, Running) /\ conv'[idx].span = drafts
      BY <1>2, <1>7, <3>2, <3>5 DEF ConvAt
    <3> QED BY <1>1, <2>1, <3>1, <3>3, <3>4, <3>5 DEF AInv, Written
  <2> QED BY <1>5, <2>2, <2>3
<1> QED BY <1>8, <1>9, <1>10, <1>11, <1>12 DEF AInv

\* After the last program the state is at the accepted token.
LEMMA StateKept ==
  ASSUME AInv, Finish
  PROVE  TempAt(temporal, idx, accepted - 1, After) /\ ConvAt(conv, idx, accepted - 1, After)
<1>1. /\ pc = "post" /\ pc \in Placed /\ First \notin todo /\ "temporal" \notin todo
      /\ "conv" \notin todo
  BY DEF Finish, Placed
<1>2. /\ snap - 1 \in 0 .. drafts /\ drafts \in Nat /\ snap \in Nat /\ Running \in Nat
      /\ After = Running + (snap - 1)
  BY <1>1, Boundary, Placement, Sizes DEF After, AInv, Types
<1>3. CASE Saves /\ LastCol = idx
  BY <1>1, <1>3 DEF AInv, Written
<1>4. CASE ~(Saves /\ LastCol = idx)
  <2>1. /\ accepted = snap /\ \A j \in 0 .. drafts : TempAt(temporal, idx, j, Running + j)
        /\ ConvAt(conv, idx, 0, Running) /\ conv[idx].span = drafts
    BY <1>1, <1>4 DEF AInv, Written
  <2>2. TempAt(temporal, idx, snap - 1, After)
    BY <1>2, <2>1
  <2>3. conv[idx].base \in Int
    BY <2>1 DEF AInv, Types, ConvAt, Windows, Contents, Junk
  <2>4. ConvAt(conv, idx, snap - 1, After)
    <3>1. conv[idx].base = Running
      BY <1>2, <2>1, <2>3 DEF ConvAt
    <3> QED BY <1>2, <2>1, <3>1 DEF ConvAt
  <2> QED BY <2>1, <2>2, <2>4
<1> QED BY <1>3, <1>4

\* The columns the step has filled hold their states, or nothing.
LEMMA NewlyFull ==
  ASSUME AInv, pc = "post", todo = {}, NEW k \in Cols, computed < End(k), End(k) <= After
  PROVE  \/ temporal[k] = Junk /\ conv[k].base = Junk
         \/ temporal[k] = End(k) /\ conv[k].base = End(k)
<1>1. /\ pc \in Placed /\ Running > computed /\ Running \in Nat /\ computed \in Nat
      /\ Running + drafts = computed + scheduled /\ EndsIn(computed + scheduled, idx)
      /\ idx \in Int /\ idx \in Cols /\ drafts \in 0 .. NumSpec /\ NumSpec \in Nat
      /\ NumSpec < BlockSize /\ BlockSize \in Nat
  BY Placement, Sizes DEF Placed
<1>2. /\ LastCol \in Int /\ End(LastCol) \in Int /\ End(LastCol) <= After /\ After \in Nat
      /\ After < End(LastCol) + BlockSize /\ LastCol <= idx
      /\ After <= computed + scheduled /\ After <= Running + drafts
  BY Boundary
<1>3. k \in Int /\ End(k) \in Int
  BY TableFits, EndStep
<1>4. k <= LastCol
  <2>1. ~(LastCol < k)
    <3>1. LastCol < k => End(LastCol) + BlockSize <= End(k)
      BY <1>2, <1>3, EndOrder
    <3> QED BY <1>2, <1>3, <3>1, <1>1
  <2> QED BY <1>2, <1>3, <2>1
<1>5. CASE k = LastCol /\ Saves
  <2>1. TempAt(temporal, k, 0, End(k)) /\ ConvAt(conv, k, 0, End(k))
    BY <1>5 DEF AInv, Written
  <2>2. conv[k].base \in Int /\ k + 0 = k
    BY <1>3, <2>1 DEF AInv, Types, ConvAt, Windows, Contents, Junk
  <2> QED BY <1>3, <2>1, <2>2 DEF TempAt, ConvAt
<1>6. CASE ~(k = LastCol /\ Saves)
  <2>1. ASSUME ~Prefill PROVE FALSE
    <3>1. Running = computed + 1 /\ End(k) >= Running
      <4>1. scheduled = 1 + drafts
        BY <1>1, <2>1 DEF AInv, Planned, Placed, InStep
      <4> QED BY <1>1, <1>3, <4>1
    <3>2. CASE k < LastCol
      <4>1. End(k) + BlockSize <= End(LastCol)
        BY <1>2, <1>3, <3>2, EndOrder
      <4> QED BY <1>1, <1>2, <1>3, <3>1, <4>1
    <3>3. CASE k = LastCol
      BY <1>6, <3>1, <3>3 DEF Saves
    <3> QED BY <1>2, <1>3, <1>4, <3>2, <3>3
  <2>2. Prefill /\ drafts = 0 /\ Running = computed + scheduled /\ After = Running
    <3>1. Prefill /\ drafts = 0
      BY <1>1, <2>1 DEF AInv, Planned, Placed, InStep
    <3>2. After >= Running
      BY Boundary
    <3> QED BY <1>1, <1>2, <3>1, <3>2
  <2>3. k # idx
    <3>1. ASSUME k = idx PROVE FALSE
      <4>1. End(k) = After
        BY <1>1, <1>2, <1>3, <2>2, <3>1 DEF EndsIn
      <4>2. Saves /\ k = LastCol
        BY <1>2, <1>3, <1>4, <2>2, <3>1, <4>1 DEF Saves
      <4> QED BY <1>6, <4>2
    <3> QED BY <3>1
  <2> QED BY <1>1, <2>2, <2>3 DEF AInv, ChunksClean
<1> QED BY <1>5, <1>6

LEMMA FinishAInv ==
  ASSUME AInv, Finish PROVE AInv'
<1>1. /\ pc = "post" /\ todo = {} /\ pc' = "idle" /\ pc \in Placed /\ pc \in InStep
      /\ computed' = After /\ known' = (IF Running = known THEN After + 1 ELSE known)
      /\ known' <= MaxTokens
      /\ UNCHANGED <<runner, scheduled, drafts, idx, accepted, snap, src, bias, width, temporal,
                     conv, cache, todo, resumed, hits, preempts>>
  BY DEF Finish, Placed, InStep, After, tableVars
<1>2. /\ Running > computed /\ Running \in Nat /\ computed \in Nat
      /\ Running + drafts = computed + scheduled /\ EndsIn(computed + scheduled, idx)
      /\ computed + scheduled \in 1 .. MaxTokens /\ MaxTokens \in Nat
      /\ idx \in Int /\ idx \in Cols /\ End(idx) \in Int /\ drafts \in 0 .. NumSpec /\ NumSpec \in Nat
      /\ idx + NumSpec < width /\ known \in Nat /\ computed < known
      /\ computed + scheduled <= End(idx)
  BY <1>1, Placement, Sizes DEF AInv, Types, Planned, EndsIn
<1>3. /\ After \in Nat /\ After >= Running /\ After <= computed + scheduled
      /\ snap \in 1 .. 1 + drafts /\ LastCol \in Int /\ End(LastCol) \in Int
      /\ After <= End(idx)
  BY <1>1, <1>2, Boundary
<1>4. ~resumed
  BY <1>1 DEF AInv, Planned
<1>5. ASSUME Prefill'
      PROVE  /\ Prefill /\ Running # known /\ known' = known /\ drafts = 0 /\ snap = 1
             /\ After = computed + scheduled /\ After % BlockSize = 0
             /\ End(idx) = After /\ accepted = 1
  <2>1. Running # known /\ known' = known
    <3>1. After + 1 < known'
      BY <1>1, <1>5 DEF Prefill
    <3>2. known' # After + 1
      BY <1>3, <3>1
    <3> QED BY <1>1, <3>2
  <2>2. Prefill
    BY <1>1, <1>2, <2>1 DEF AInv, Planned, Prefill
  <2>3. /\ drafts = 0
        /\ computed + scheduled = known \/ (computed + scheduled) % BlockSize = 0
    BY <1>1, <2>2 DEF AInv, Planned
  <2>4. snap = 1 /\ After = computed + scheduled /\ After % BlockSize = 0
    BY <1>2, <1>3, <2>1, <2>3
  <2>5. End(idx) = After
    <3>1. After = End(Seed(After)) /\ Seed(After) \in Int
      BY <1>3, <2>4, RoundDown
    <3>2. EndsIn(After, Seed(After)) /\ EndsIn(After, idx)
      BY <1>2, <1>3, <2>4, RoundUp
    <3> QED BY <1>2, <1>3, <3>1, <3>2, EndsInOne
  <2>6. accepted = 1
    BY <1>1, <2>4 DEF AInv, Written
  <2> QED BY <2>1, <2>2, <2>3, <2>4, <2>5, <2>6
<1>6. Types'
  <2>1. known' \in 1 .. MaxTokens /\ computed' \in 0 .. MaxTokens
    BY <1>1, <1>2, <1>3 DEF AInv, Types
  <2> QED BY <1>1, <2>1 DEF AInv, Types
<1>7. CacheWhole' /\ GuardUnused' /\ (Moving /\ Ready /\ Written)'
  BY <1>1 DEF AInv, CacheWhole, GuardUnused, Moving, Ready, Written
<1>8. ColumnsWhole'
  <2>1. ASSUME NEW k \in Cols, End(k) <= After
        PROVE  \/ temporal[k] = Junk /\ conv[k].base = Junk
               \/ temporal[k] = End(k) /\ conv[k].base = End(k)
    <3>1. End(k) \in Int
      BY TableFits, EndStep
    <3>2. CASE End(k) <= computed
      BY <1>1, <3>2 DEF AInv, ColumnsWhole
    <3>3. CASE computed < End(k)
      BY <1>1, <2>1, <3>3, NewlyFull
    <3> QED BY <1>2, <3>1, <3>2, <3>3
  <2> QED BY <1>1, <2>1 DEF ColumnsWhole
<1>9. ChunksClean'
  <2>1. ASSUME Prefill', NEW k \in Cols, End(k) > After
        PROVE  temporal[k] = Junk /\ conv[k].base = Junk
    <3>1. k # idx /\ End(k) > computed
      <4>1. End(k) \in Int
        BY TableFits, EndStep
      <4>2. End(idx) = After
        BY <1>5, <2>1
      <4> QED BY <1>2, <1>3, <2>1, <4>1, <4>2
    <3> QED BY <1>1, <1>5, <2>1, <3>1 DEF AInv, ChunksClean
  <2> QED BY <1>1, <1>5, <2>1 DEF ChunksClean, Placed
<1>10. Planned'
  <2>1. CASE Running = known
    BY <1>1, <1>3, <2>1 DEF Planned, InStep, Placed
  <2>2. CASE Running # known
    <3>1. Prefill
      BY <1>1, <1>2, <2>2 DEF AInv, Planned, Prefill
    <3>2. After < known
      BY <1>1, <1>2, <1>3, <2>2, <3>1 DEF AInv, Planned
    <3> QED BY <1>1, <2>2, <3>2 DEF Planned, InStep, Placed
  <2> QED BY <2>1, <2>2
<1>11. Between'
  <2>1. TempAt(temporal, idx, accepted - 1, After) /\ ConvAt(conv, idx, accepted - 1, After)
    BY StateKept
  <2>2. After > 0
    BY <1>2, <1>3
  <2> QED BY <1>1, <1>2, <1>3, <1>4, <1>5, <2>1, <2>2 DEF Between, From
<1> QED BY <1>6, <1>7, <1>8, <1>9, <1>10, <1>11 DEF AInv

-----------------------------------------------------------------------------
(* The theorems.                                                           *)

LEMMA NextAInv == AInv /\ [Next]_vars => AInv'
<1> SUFFICES ASSUME AInv, [Next]_vars PROVE AInv'
  OBVIOUS
<1>1. CASE UNCHANGED vars
  <2>1. /\ Target' = Target /\ Prefill' = Prefill /\ From' = From /\ Running' = Running
        /\ After' = After /\ LastCol' = LastCol
    BY <1>1 DEF vars, Target, Prefill, From, Running, After, LastCol
  <2>2. Saves' = Saves
    BY <2>1 DEF Saves
  <2> QED BY <1>1, <2>1, <2>2 DEF vars, tableVars, AInv, Types, CacheWhole, ColumnsWhole,
             ChunksClean, Planned, Between, Moving, Ready, Written, GuardUnused
<1>2. ASSUME NEW h \in 0 .. MaxTokens, Begin(h) PROVE AInv'
  BY <1>2, BeginAInv
<1>3. ASSUME NEW n \in 1 .. MaxTokens, NEW d \in 0 .. NumSpec, Schedule(n, d) PROVE AInv'
  BY <1>3, ScheduleAInv
<1>4. CASE Preempt
  BY <1>4, PreemptAInv
<1>5. CASE PreprocessV1 \/ PreprocessV2
  BY <1>5, PreprocessAInv
<1>6. ASSUME NEW s \in States, Precopy(s) PROVE AInv'
  BY <1>6, PrecopyAInv
<1>7. ASSUME NEW s \in States, Postprocess(s) PROVE AInv'
  BY <1>7, PostprocessAInv
<1>8. ASSUME NEW a \in 1 .. NumSpec + 1, Forward(a) PROVE AInv'
  BY <1>8, ForwardAInv
<1>9. CASE Finish
  BY <1>9, FinishAInv
<1> QED BY <1>1, <1>2, <1>3, <1>4, <1>5, <1>6, <1>7, <1>8, <1>9 DEF Next

\* The inductive invariant of the placement: where the state is at each point
\* of a step, in both runners of mamba_utils_guarded.py.
THEOREM PlacementInvariant == Spec => []AInv
<1> QED BY InitAInv, NextAInv, PTL DEF Spec

\* Each layer starts from the state after exactly the tokens computed so far,
\* whatever was accepted, rejected, split, hit or preempted before (the
\* pre-copy and the postprocess, in both runners).
THEOREM LayersReadState == Spec => []StateRead
<1>1. AInv => StateRead
  BY ReadyReads DEF StateRead
<1> QED BY <1>1, PlacementInvariant, PTL

\* What the prefix cache holds, and what it could take from a full column, is
\* the state after exactly the tokens of its blocks (the postprocess saves the
\* state at a boundary and no later step writes the column).
THEOREM CacheHoldsWholeStates == Spec => []CachedStateWhole
<1>1. ASSUME AInv PROVE CachedStateWhole
  <2>1. \A k \in Cols : End(k) = (k + 1) * BlockSize
    BY DEF End
  <2> QED BY <1>1, <2>1 DEF AInv, CacheWhole, Cached, ColumnsWhole, CachedStateWhole
<1> QED BY <1>1, PlacementInvariant, PTL

\* No copy leaves the row of the block table: the guard of
\* _copy_mamba_state_block() never fires.
THEOREM GuardNeverFires == Spec => []GuardUnused
<1>1. AInv => GuardUnused
  BY DEF AInv
<1> QED BY <1>1, PlacementInvariant, PTL

=============================================================================
