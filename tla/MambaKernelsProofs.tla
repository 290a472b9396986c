-------------------------- MODULE MambaKernelsProofs --------------------------
(***************************************************************************)
(* Three results about the layers below the placement.                     *)
(*                                                                         *)
(* A request's accepted count is its own through every step of both        *)
(* runners, whatever rows or slots carry it, for any deployment and block  *)
(* size. The kernel compares columns, the property counts tokens: the      *)
(* count is reset in place exactly when the last accepted token ends the   *)
(* running column, which is a fact about rounding up and down.             *)
(*                                                                         *)
(* A copy leaves what memmove would have left, for any sizes, alignments,  *)
(* numbers of tiles and lanes, and any interleaving of them. First what    *)
(* the plans are, without time: their targets cut the destination into     *)
(* disjoint pieces, and whoever reads a byte that a move overwrites does   *)
(* so no later than in that move, in the same lane or behind the same      *)
(* barrier. Then that the lanes keep to it.                                *)
(*                                                                         *)
(* Each request's move reaches each of its states, once, and nothing else  *)
(* is written. The states of the deployment are counted by the loops over  *)
(* groups, layers and states, so a grid, or a list, visits each of them    *)
(* once; a copy is as meant of its state; the bytes of two states, and of  *)
(* two blocks, lie apart; and what a step stages is what its requests need *)
(* moved, in columns that the block tables have.                           *)
(***************************************************************************)
EXTENDS MambaBatch, MambaCopy, ListLemmas

Row == [col : Int, src : Int, bias : Int, queries : Int, computed : Int, drafts : Int]

Typed ==
  /\ runner \in {"list", "v1", "v2"}
  /\ computed \in [Reqs -> Nat] /\ drafts \in [Reqs -> Nat] /\ queries \in [Reqs -> Nat]
  /\ column \in [Reqs -> Int] /\ accepted \in [Reqs -> Nat] /\ due \in [Reqs -> Nat]
  /\ DOMAIN batch \subseteq Reqs /\ Range(batch) \subseteq Reqs
  /\ rows \in [Reqs -> Row]

\* While a step runs, no request is in the batch twice, and the column of each
\* is the one its last scheduled token falls in.
Staging ==
  phase = "computing" =>
    /\ IsInjective(batch)
    /\ \A r \in Range(batch) : /\ drafts[r] < queries[r]
                               /\ column[r] = Running(r, queries[r])

BInv == Typed /\ Staging /\ AcceptedOwn

-----------------------------------------------------------------------------
(* Rounding.                                                               *)

LEMMA Sizes ==
  /\ Slots \in Nat \ {0} /\ Page \in Nat \ {0} /\ NumBlocks \in Nat \ {0}
  /\ BlockSize \in Nat \ {0} /\ MaxTokens \in Nat \ {0}
  /\ MaxDrafts \in Nat /\ MaxDrafts + 1 <= BlockSize /\ BlockSize <= MaxTokens
  /\ Chunks \subseteq Nat \ {0}
<1>1. Chunks \subseteq Nat \ {0}
  BY BatchAssumption DEF Chunks, Range
<1>2. QED BY <1>1, BatchAssumption

LEMMA Quotient ==
  ASSUME NEW n \in Int
  PROVE  /\ n \div BlockSize \in Int /\ (n \div BlockSize) * BlockSize \in Int
         /\ (n \div BlockSize) * BlockSize <= n
         /\ n < (n \div BlockSize) * BlockSize + BlockSize
<1>1. BlockSize \in Nat \ {0}
  BY Sizes
<1>2. QED BY <1>1

\* A multiple of the block size is so many blocks.
LEMMA Multiple ==
  ASSUME NEW k \in Int
  PROVE  /\ k * BlockSize \in Int /\ (k * BlockSize) % BlockSize = 0
         /\ (k * BlockSize) \div BlockSize = k
<1>1. BlockSize \in Nat \ {0}
  BY Sizes
<1>2. QED BY <1>1

LEMMA Whole ==
  ASSUME NEW n \in Int, n % BlockSize = 0
  PROVE  n = (n \div BlockSize) * BlockSize
<1>1. BlockSize \in Nat \ {0}
  BY Sizes
<1>2. QED BY <1>1

\* Between a number and the next multiple there is no other multiple.
LEMMA Between ==
  ASSUME NEW k \in Int, NEW l \in Int, NEW n \in Int,
         k * BlockSize <= n, n < k * BlockSize + BlockSize,
         l * BlockSize <= n, n < l * BlockSize + BlockSize
  PROVE  k = l
<1>1. BlockSize \in Nat \ {0}
  BY Sizes
<1>2. QED BY <1>1

LEMMA RoundedUp ==
  ASSUME NEW n \in Int
  PROVE  CeilDiv(n, BlockSize) \in Int /\ n <= CeilDiv(n, BlockSize) * BlockSize
<1>1. BlockSize \in Nat \ {0}
  BY Sizes
<1> DEFINE m == n + BlockSize - 1
<1>2. m \in Int /\ n = m - BlockSize + 1
  BY <1>1
<1> HIDE DEF m
<1>3. m \div BlockSize \in Int /\ m < (m \div BlockSize) * BlockSize + BlockSize
      /\ (m \div BlockSize) * BlockSize \in Int
  BY <1>2, Quotient
<1>4. n <= (m \div BlockSize) * BlockSize
  BY <1>1, <1>2, <1>3
<1>5. QED BY <1>3, <1>4 DEF CeilDiv, m

\* The kernel resets a count in place exactly when the accepted tokens reach
\* the end of the running column.
LEMMA InPlaceIffReached ==
  ASSUME NEW S \in Nat \ {0}, NEW t \in Nat, NEW n \in Nat \ {0}, S + n - 1 <= t,
         NEW v \in Row, Settled(v, n) = S, v.col = CeilDiv(t, BlockSize) - 1
  PROVE  InPlace(v, n) <=>
           \E m \in S .. S + n - 1 : m % BlockSize = 0 /\ m > 0 /\ v.col = m \div BlockSize - 1
<1> DEFINE last == S + n - 1
           K == last \div BlockSize
           C == CeilDiv(t, BlockSize)
<1>1. S \in Nat /\ S > 0 /\ last \in Nat /\ S <= last /\ last <= t
  OBVIOUS
<1>2. Settled(v, n) = S /\ Boundary(v, n) = K * BlockSize
  BY DEF Boundary
<1> HIDE DEF K
<1>3. K \in Int /\ K * BlockSize \in Int /\ K * BlockSize <= last
      /\ last < K * BlockSize + BlockSize
  BY <1>1, Quotient DEF K
<1>4. /\ (K * BlockSize) % BlockSize = 0 /\ (K * BlockSize) \div BlockSize = K
  BY <1>3, Multiple
<1>5. C \in Int /\ t <= C * BlockSize /\ C * BlockSize \in Int
  BY RoundedUp, Multiple
<1>6. InPlace(v, n) <=> K * BlockSize >= S /\ C - 1 = K - 1
  BY <1>2, <1>4 DEF InPlace, Saves, SavedAt
<1> HIDE DEF C
<1>7. v.col = C - 1
  BY DEF C
<1>8. ASSUME K * BlockSize >= S, C = K
      PROVE  \E m \in S .. last : m % BlockSize = 0 /\ m > 0 /\ v.col = m \div BlockSize - 1
  <2>1. K * BlockSize \in S .. last /\ K * BlockSize > 0
    BY <1>1, <1>3, <1>8
  <2>2. QED BY <1>4, <1>7, <1>8, <2>1
<1>9. ASSUME NEW m \in S .. last, m % BlockSize = 0, v.col = m \div BlockSize - 1
      PROVE  K * BlockSize >= S /\ C = K
  <2>1. m \in Int /\ m \div BlockSize \in Int /\ m = (m \div BlockSize) * BlockSize
    BY <1>1, <1>9, Whole, Quotient
  <2>2. m \div BlockSize = C
    BY <1>5, <1>7, <1>9, <2>1
  <2>3. m = C * BlockSize
    BY <2>1, <2>2
  <2>4. m = last
    BY <1>1, <1>5, <1>9, <2>3
  <2>5. last < C * BlockSize + BlockSize /\ C * BlockSize <= last
    BY <2>1, <2>3, <2>4, Sizes
  <2>6. C = K
    BY <1>1, <1>3, <1>5, <2>5, Between
  <2>7. QED BY <1>1, <2>3, <2>4, <2>6
<1>10. C - 1 = K - 1 <=> C = K
  BY <1>3, <1>5
<1>11. QED BY <1>6, <1>8, <1>9, <1>10
-----------------------------------------------------------------------------
(* The invariant.                                                          *)

\* Columns are integers, of no request in particular.
LEMMA Columns ==
  ASSUME Typed, NEW r \in Reqs
  PROVE  /\ Previous(r) \in Int
         /\ \A q \in Nat : Running(r, q) \in Int
<1>1. (computed[r] - 1) \div BlockSize \in Int /\ column[r] \in Int
  BY Quotient DEF Typed
<1>2. \A q \in Nat : CeilDiv(computed[r] + q, BlockSize) \in Int
  BY RoundedUp DEF Typed
<1>3. QED BY <1>1, <1>2 DEF Previous, Running

\* A batch is a list of different requests.
LEMMA ABatch ==
  ASSUME NEW b \in Batches
  PROVE  IsInjective(b) /\ DOMAIN b \subseteq Reqs /\ Range(b) \subseteq Reqs
         /\ \A r \in Range(b) : \E i \in DOMAIN b : b[i] = r
<1>1. Slots \in Nat
  BY Sizes
<1>2. PICK m \in 0 .. Slots : b \in [1 .. m -> Reqs]
  BY DEF Batches, SeqOf
<1>3. QED BY <1>1, <1>2 DEF Batches, Reqs, Range

\* Writing fields of a row keeps it a row.
RowWith(v, c, q, n, d) == [v EXCEPT !.col = c, !.queries = q, !.computed = n, !.drafts = d]
RowMoving(v, c, s, b) == [v EXCEPT !.col = c, !.src = s, !.bias = b]

LEMMA RowPut ==
  ASSUME NEW v \in Row, NEW c \in Int, NEW q \in Int, NEW n \in Int, NEW d \in Int
  PROVE  /\ RowWith(v, c, q, n, d) \in Row
         /\ RowWith(v, c, q, n, d).col = c /\ RowWith(v, c, q, n, d).queries = q
         /\ RowWith(v, c, q, n, d).computed = n /\ RowWith(v, c, q, n, d).drafts = d
BY DEF Row, RowWith

LEMMA RowMove ==
  ASSUME NEW v \in Row, NEW c \in Int, NEW s \in Int, NEW b \in Int
  PROVE  RowMoving(v, c, s, b) \in Row
BY DEF Row, RowMoving

LEMMA InitBInv == Init => BInv
<1> SUFFICES ASSUME Init PROVE BInv
  OBVIOUS
<1>1. PICK c \in Configs : runner = c.runner
  BY DEF Init
<1>2. BlockSize \in Nat /\ runner \in {"list", "v1", "v2"}
  BY <1>1, Sizes, BatchAssumption
<1>3. computed \in [Reqs -> Nat]
  BY <1>2 DEF Init
<1>4. \A r \in Reqs : (computed[r] - 1) \div BlockSize \in Int
  BY <1>3, Quotient
<1>5. column \in [Reqs -> Int]
  BY <1>4 DEF Init, None
<1>6. Typed
  BY <1>2, <1>3, <1>5 DEF Init, Typed, Nobody, NoRow, Row, Range
<1>7. QED BY <1>6 DEF Init, BInv, Staging, AcceptedOwn

LEMMA PreprocessBInv ==
  ASSUME BInv, NEW b \in Batches, NEW q \in [Range(b) -> Chunks], NEW d \in [Range(b) -> 0 .. MaxDrafts],
         Preprocess(b, q, d)
  PROVE  BInv'
<1>1. /\ IsInjective(b) /\ DOMAIN b \subseteq Reqs /\ Range(b) \subseteq Reqs
      /\ \A i \in DOMAIN b : b[i] \in Range(b)
  BY ABatch DEF Range
<1>2. \A r \in Range(b) : q[r] \in Nat /\ d[r] \in Nat /\ q[r] \in Int
  <2>1. SUFFICES ASSUME NEW r \in Range(b) PROVE q[r] \in Nat /\ d[r] \in Nat
    OBVIOUS
  <2>2. q[r] \in Chunks /\ d[r] \in 0 .. MaxDrafts
    OBVIOUS
  <2>3. Chunks \subseteq Nat \ {0} /\ MaxDrafts \in Nat
    BY Sizes
  <2>4. q[r] \in Nat
    BY <2>2, <2>3, Zenon
  <2>5. d[r] \in Nat
    BY <2>2, <2>3
  <2>6. QED BY <2>4, <2>5
<1>3. \A r \in Reqs : Previous(r) \in Int /\ \A n \in Nat : Running(r, n) \in Int
  BY Columns DEF BInv
<1>4. column' \in [Reqs -> Int]
  BY <1>2, <1>3 DEF Preprocess, BInv, Typed, None
<1>5. accepted' \in [Reqs -> Nat]
  BY DEF Preprocess, BInv, Typed
<1>6. queries' \in [Reqs -> Nat] /\ drafts' \in [Reqs -> Nat]
  BY <1>2 DEF Preprocess
<1>7. \A i \in Reqs : rows[i] \in Row /\ accepted[i] - 1 \in Int /\ column[i] \in Int
  BY DEF BInv, Typed
<1>8. Staged(b, q) \in [Reqs -> Row]
  <2>1. SUFFICES ASSUME NEW i \in DOMAIN b PROVE Staged(b, q)[i] \in Row
    BY <1>1, <1>7 DEF Staged
  <2> DEFINE s == IF Moves(b[i], q[b[i]]) THEN Previous(b[i]) ELSE -1
             t == IF Moves(b[i], q[b[i]]) THEN accepted[b[i]] - 1 ELSE 0
  <2>2. i \in Reqs /\ b[i] \in Range(b) /\ b[i] \in Reqs
    BY <1>1
  <2>3. Running(b[i], q[b[i]]) \in Int /\ s \in Int /\ t \in Int
    BY <1>2, <1>3, <1>7, <2>2
  <2>4. Staged(b, q)[i] = RowMoving(rows[i], Running(b[i], q[b[i]]), s, t)
    BY <2>2 DEF Staged, RowMoving
  <2> HIDE DEF s, t
  <2>5. QED BY <1>7, <2>2, <2>3, <2>4, RowMove
<1>9. StagedSlots(b, q) \in [Reqs -> Row]
  <2>1. SUFFICES ASSUME NEW r \in Range(b) PROVE StagedSlots(b, q)[r] \in Row
    BY <1>1, <1>7 DEF StagedSlots
  <2>2. r \in Reqs /\ Running(r, q[r]) \in Int
    BY <1>1, <1>2, <1>3
  <2>3. StagedSlots(b, q)[r]
          = RowMoving(rows[r], Running(r, q[r]), column[r], accepted[r] - 1)
    BY <2>2 DEF StagedSlots, RowMoving
  <2>4. QED BY <1>7, <2>2, <2>3, RowMove
<1>10. rows' \in [Reqs -> Row]
  BY <1>8, <1>9 DEF Preprocess, BInv, Typed
<1>11. \A r \in Reqs : (\E w \in want' : w[1] = r) <=> r \in Range(b) /\ Moves(r, q[r])
  <2>1. \A r \in Reqs : <<r, Previous(r), Running(r, q[r]), accepted[r] - 1>>[1] = r
    OBVIOUS
  <2>2. want' = {<<r, Previous(r), Running(r, q[r]), accepted[r] - 1>> :
                   r \in {x \in Range(b) : Moves(x, q[x])}}
    BY DEF Preprocess
  <2>3. QED BY <1>1, <2>1, <2>2
<1>12. due' = accepted'
  BY <1>11 DEF Preprocess, BInv, AcceptedOwn
<1>13. Staging'
  <2>1. /\ batch' = b /\ computed' = computed
        /\ \A r \in Range(b) : /\ queries'[r] = q[r] /\ drafts'[r] = d[r]
                               /\ column'[r] = Running(r, q[r]) /\ d[r] < q[r]
    BY <1>1 DEF Preprocess
  <2>2. QED BY <1>1, <2>1 DEF Staging, Running
<1>14. QED BY <1>1, <1>4, <1>5, <1>6, <1>10, <1>12, <1>13
           DEF Preprocess, BInv, Typed, AcceptedOwn, fixed

\* The row, or slot, of a request has its count and what was staged of it.
LEMMA PostRow ==
  ASSUME BInv, phase = "computing", runner # "list", NEW a \in [Range(batch) -> 1 .. MaxDrafts + 1],
         NEW x \in DOMAIN batch
  PROVE  LET r == batch[x] k == At(batch, x) v == StagedPost(batch, a)[k] IN
           /\ k \in Reqs /\ CountsRead(batch, a)[k] = a[r] /\ v \in Row
           /\ v.col = column[r]
           /\ Settled(v, a[r]) = computed[r] + queries[r] - drafts[r]
<1> DEFINE r == batch[x]
           k == At(batch, x)
           c == computed[r] q == queries[r] d == drafts[r] n == a[r] col == column[r]
           put == IF runner = "v2" THEN RowWith(rows[k], col, rows[k].queries, c + q - d + n - 1, rows[k].drafts)
                  ELSE RowWith(rows[k], col, q, c, d)
<1>1. runner \in {"v1", "v2"} /\ x \in Reqs /\ r \in Range(batch) /\ r \in Reqs
  BY DEF BInv, Typed, Range
<1>2. k = (IF runner = "v2" THEN r ELSE x) /\ k \in Reqs
  BY <1>1 DEF At
<1> HIDE DEF k
<1>3. CountsRead(batch, a)[k] = a[r]
  BY <1>1, <1>2 DEF CountsRead
<1>4. /\ rows[k] \in Row /\ rows[k].queries \in Int /\ rows[k].drafts \in Int
      /\ col \in Int /\ q \in Int /\ c \in Int /\ d \in Int /\ n \in Int
  <2>1. rows[k] \in Row
    BY <1>2 DEF BInv, Typed
  <2>2. rows[k].queries \in Int /\ rows[k].drafts \in Int
    BY <2>1 DEF Row
  <2>3. col \in Int /\ q \in Int /\ c \in Int /\ d \in Int
    BY <1>1 DEF BInv, Typed
  <2>4. n \in Int
    BY <1>1, Sizes
  <2>5. QED BY <2>1, <2>2, <2>3, <2>4
<1>5. StagedPost(batch, a)[k] = put
  <2>1. CASE runner = "v2"
    <3>1. k = r
      BY <1>2, <2>1
    <3>2. StagedPost(batch, a)[r] = [rows[r] EXCEPT !.col = col, !.computed = c + q - d + n - 1]
      BY <1>1, <2>1 DEF StagedPost, NewComputed
    <3>3. rows[r] \in Row
      BY <1>4, <3>1
    <3>4. QED BY <2>1, <3>1, <3>2, <3>3 DEF RowWith, Row
  <2>2. CASE runner = "v1"
    <3>1. k = x
      BY <1>2, <2>2
    <3>2. QED BY <1>1, <2>2, <3>1 DEF StagedPost, RowWith
  <2>3. QED BY <1>1, <2>1, <2>2
<1>6. /\ put \in Row /\ put.col = col
      /\ runner = "v2" => put.computed = c + q - d + n - 1
      /\ runner # "v2" => put.computed = c /\ put.queries = q /\ put.drafts = d
  <2> HIDE DEF c, q, d, n, col
  <2>1. c + q - d + n - 1 \in Int
    BY <1>4
  <2>2. QED BY <1>4, <2>1, RowPut
<1> HIDE DEF put
<1>7. Settled(put, n) = c + q - d
  <2> HIDE DEF c, q, d, n, col
  <2>1. CASE runner = "v2"
    <3>1. Settled(put, n) = put.computed - n + 1
      BY <2>1 DEF Settled
    <3>2. put.computed = c + q - d + n - 1
      BY <1>6, <2>1
    <3>3. QED BY <1>4, <3>1, <3>2
  <2>2. CASE runner # "v2"
    <3>1. Settled(put, n) = put.computed + put.queries - put.drafts
      BY <2>2 DEF Settled
    <3>2. QED BY <1>6, <2>2, <3>1
  <2>3. QED BY <2>1, <2>2
<1>8. QED BY <1>2, <1>3, <1>5, <1>6, <1>7 DEF k

\* The step that ends: one request's count, whichever runner counts it.
LEMMA PostprocessCount ==
  ASSUME BInv, NEW a \in [Range(batch) -> 1 .. MaxDrafts + 1], Postprocess(a), runner # "list",
         NEW r \in Range(batch)
  PROVE  accepted'[r] = due'[r] /\ accepted'[r] \in Nat
<1>0. r \in Reqs /\ DOMAIN batch \subseteq Reqs /\ phase = "computing" /\ a[r] \in 1 .. MaxDrafts + 1
      /\ a[r] <= drafts[r] + 1
  BY DEF Postprocess, BInv, Typed
<1>1. /\ phase = "computing" /\ r \in Reqs /\ DOMAIN batch \subseteq Reqs
      /\ IsInjective(batch) /\ drafts[r] < queries[r] /\ column[r] = Running(r, queries[r])
      /\ a[r] \in 1 .. MaxDrafts + 1 /\ a[r] <= drafts[r] + 1 /\ batch # <<>>
      /\ computed[r] \in Nat /\ queries[r] \in Nat /\ drafts[r] \in Nat /\ column[r] \in Int
  <2>1. batch # <<>>
    BY DEF Range
  <2>2. QED BY <1>0, <2>1 DEF BInv, Staging, Typed
<1>2. PICK i \in DOMAIN batch : batch[i] = r
  BY DEF Range
<1>3. \A j \in DOMAIN batch : batch[j] = r => j = i
  BY <1>1, <1>2 DEF IsInjective
<1> DEFINE k == IF runner = "v2" THEN r ELSE CHOOSE j \in DOMAIN batch : batch[j] = r
<1>4. k = (IF runner = "v2" THEN r ELSE i) /\ k \in Reqs
  BY <1>1, <1>2, <1>3
<1>5. /\ CountsRead(batch, a)[k] = a[r]
      /\ StagedPost(batch, a)[k].col = column[r]
      /\ Settled(StagedPost(batch, a)[k], a[r]) = computed[r] + queries[r] - drafts[r]
      /\ StagedPost(batch, a)[k] \in Row
  <2>1. k = At(batch, i)
    BY <1>2, <1>4 DEF At
  <2> HIDE DEF k
  <2>2. QED BY <1>1, <1>2, <2>1, PostRow
<1> DEFINE reached == \E m \in computed[r] + queries[r] - drafts[r]
                               .. computed[r] + queries[r] - drafts[r] + a[r] - 1 :
                         m % BlockSize = 0 /\ m > 0 /\ column[r] = m \div BlockSize - 1
<1>6. InPlace(StagedPost(batch, a)[k], a[r]) <=> reached
  <2> DEFINE v == StagedPost(batch, a)[k] c == computed[r] q == queries[r] d == drafts[r] n == a[r]
             col == column[r]
  <2>1. /\ n \in Nat \ {0} /\ v \in Row /\ Settled(v, n) = c + q - d
        /\ v.col = CeilDiv(c + q, BlockSize) - 1 /\ v.col = col
        /\ c \in Nat /\ q \in Nat /\ d \in Nat /\ d < q /\ n <= d + 1
    BY <1>1, <1>5 DEF Running
  <2> DEFINE S == c + q - d t == c + q
  <2> HIDE DEF v, c, q, d, n, col
  <2>2. /\ S \in Nat \ {0} /\ t \in Nat /\ n \in Nat \ {0} /\ S + n - 1 <= t
        /\ v \in Row /\ Settled(v, n) = S /\ v.col = CeilDiv(t, BlockSize) - 1
    BY <2>1
  <2> HIDE DEF S, t
  <2>3. InPlace(v, n) <=> \E m \in S .. S + n - 1 :
                            m % BlockSize = 0 /\ m > 0 /\ v.col = m \div BlockSize - 1
    BY <2>2, InPlaceIffReached
  <2>4. InPlace(v, n) <=> \E m \in S .. S + n - 1 :
                            m % BlockSize = 0 /\ m > 0 /\ col = m \div BlockSize - 1
    BY <2>1, <2>3, Zenon
  <2>5. QED BY <2>4 DEF v, c, q, d, n, col, S
<1>7. accepted'[r] = IF reached THEN 1 ELSE a[r]
  <2> HIDE DEF reached
  <2>1. rows' = StagedPost(batch, a)
    BY <1>1 DEF Postprocess
  <2>2. accepted'[r] = IF InPlace(rows'[k], CountsRead(batch, a)[k]) THEN 1
                       ELSE IF runner = "v2" THEN a[r] ELSE CountsRead(batch, a)[k]
    BY <1>1 DEF Postprocess
  <2>3. QED BY <1>5, <1>6, <2>1, <2>2
<1>8. (\E w \in WantsPost(r, a) : w[2] = w[3]) <=> reached
  <2> DEFINE from == computed[r] + queries[r] - drafts[r]
             move(n) == <<r, column[r], n \div BlockSize - 1, n - from>>
  <2>1. WantsPost(r, a) = {move(n) : n \in {m \in from .. from + a[r] - 1 : m % BlockSize = 0 /\ m > 0}}
    BY DEF WantsPost
  <2>2. \A n \in Int : move(n)[2] = column[r] /\ move(n)[3] = n \div BlockSize - 1
    OBVIOUS
  <2> DEFINE span == from .. from + a[r] - 1
  <2>3. span \subseteq Int
    BY <1>1
  <2> HIDE DEF move, span
  <2>4. (\E w \in {move(n) : n \in {m \in span : m % BlockSize = 0 /\ m > 0}} : w[2] = w[3])
          <=> \E m \in span : m % BlockSize = 0 /\ m > 0 /\ move(m)[2] = move(m)[3]
    OBVIOUS
  <2>5. QED BY <2>1, <2>2, <2>3, <2>4 DEF span
<1>9. due'[r] = IF reached THEN 1 ELSE a[r]
  <2> HIDE DEF reached
  <2>1. due'[r] = IF \E w \in WantsPost(r, a) : w[2] = w[3] THEN 1 ELSE a[r]
    BY <1>1 DEF Postprocess
  <2>2. QED BY <1>8, <2>1
<1>10. QED BY <1>1, <1>7, <1>9

LEMMA PostprocessBInv ==
  ASSUME BInv, NEW a \in [Range(batch) -> 1 .. MaxDrafts + 1], Postprocess(a)
  PROVE  BInv'
<1>1. \A r \in Range(batch) : /\ r \in Reqs /\ a[r] \in 1 .. MaxDrafts + 1
                              /\ drafts[r] < queries[r]
                              /\ computed[r] \in Nat /\ queries[r] \in Nat /\ drafts[r] \in Nat
  BY DEF Postprocess, BInv, Staging, Typed
<1>2. computed' \in [Reqs -> Nat]
  <2>1. SUFFICES ASSUME NEW r \in Reqs PROVE computed'[r] \in Nat
    BY DEF Postprocess
  <2>2. CASE r \in Range(batch)
    <3>1. computed'[r] = computed[r] + queries[r] - drafts[r] + a[r] - 1
      BY <2>2 DEF Postprocess, NewComputed
    <3>2. a[r] \in Nat \ {0}
      BY <1>1, <2>2, Sizes
    <3>3. QED BY <1>1, <2>2, <3>1, <3>2
  <2>3. CASE r \notin Range(batch)
    BY <2>3 DEF Postprocess, BInv, Typed
  <2>4. QED BY <2>2, <2>3
<1>3. accepted' = due' /\ accepted' \in [Reqs -> Nat]
  <2>1. CASE runner = "list"
    <3>1. accepted' = accepted /\ due' = [r \in Reqs |-> due[r]]
      BY <2>1 DEF Postprocess
    <3>2. QED BY <3>1 DEF BInv, Typed, AcceptedOwn
  <2>2. CASE batch = <<>>
    <3>1. Range(batch) = {}
      BY <2>2 DEF Range
    <3>2. accepted' = accepted /\ due' = [r \in Reqs |-> due[r]]
      BY <2>2, <3>1 DEF Postprocess
    <3>3. QED BY <3>2 DEF BInv, Typed, AcceptedOwn
  <2>3. CASE runner # "list" /\ batch # <<>>
    <3>1. DOMAIN accepted' = Reqs /\ DOMAIN due' = Reqs
      BY <2>3 DEF Postprocess
    <3>2. \A r \in Reqs \ Range(batch) : accepted'[r] = accepted[r] /\ due'[r] = due[r]
      BY <2>3 DEF Postprocess
    <3>3. \A r \in Reqs : accepted'[r] = due'[r] /\ accepted'[r] \in Nat
      BY <2>3, <3>2, PostprocessCount DEF BInv, Typed, AcceptedOwn
    <3>4. accepted' = [r \in Reqs |-> accepted'[r]] /\ due' = [r \in Reqs |-> due'[r]]
      BY <2>3 DEF Postprocess
    <3>5. QED BY <3>3, <3>4
  <2>4. QED BY <2>1, <2>2, <2>3
<1>4. rows' \in [Reqs -> Row]
  <2>1. \A i \in Reqs : rows[i] \in Row
    BY DEF BInv, Typed
  <2>2. \A i \in DOMAIN batch : batch[i] \in Reqs
    BY DEF BInv, Typed, Range
  <2>3. \A r \in Reqs : column[r] \in Int /\ queries[r] \in Int /\ computed[r] \in Int /\ drafts[r] \in Int
    BY DEF BInv, Typed
  <2>4. StagedPost(batch, a) \in [Reqs -> Row]
    <3>1. SUFFICES ASSUME NEW i \in Reqs PROVE StagedPost(batch, a)[i] \in Row
      BY DEF StagedPost
    <3>2. CASE runner = "v2" /\ i \in Range(batch)
      <4>1. NewComputed(i, a[i]) \in Int
        BY <1>1, <2>3, <3>2, Sizes DEF NewComputed
      <4>2. rows[i] \in Row /\ column[i] \in Int
        BY <2>1, <2>3
      <4>3. StagedPost(batch, a)[i] = [rows[i] EXCEPT !.col = column[i], !.computed = NewComputed(i, a[i])]
        BY <3>2 DEF StagedPost
      <4>4. QED BY <4>1, <4>2, <4>3 DEF Row
    <3>3. CASE runner = "v1" /\ i \in DOMAIN batch
      <4>1. StagedPost(batch, a)[i] = RowWith(rows[i], column[batch[i]], queries[batch[i]],
                                              computed[batch[i]], drafts[batch[i]])
        BY <3>3 DEF StagedPost, RowWith
      <4>2. QED BY <2>1, <2>2, <2>3, <3>3, <4>1, RowPut
    <3>4. CASE ~(runner = "v2" /\ i \in Range(batch)) /\ ~(runner = "v1" /\ i \in DOMAIN batch)
      BY <2>1, <3>4 DEF StagedPost
    <3>5. QED BY <3>2, <3>3, <3>4
  <2>5. rows' = rows \/ rows' = StagedPost(batch, a)
    BY DEF Postprocess
  <2>6. QED BY <2>4, <2>5 DEF BInv, Typed
<1>5. /\ runner' = runner /\ column' = column /\ batch' = <<>> /\ phase' = "between"
      /\ queries' = Nobody /\ drafts' = Nobody
  BY DEF Postprocess, fixed
<1>6. Range(<<>>) = {} /\ DOMAIN <<>> = {}
  BY DEF Range
<1>7. Nobody \in [Reqs -> Nat]
  BY DEF Nobody
<1>8. Typed' /\ Staging'
  BY <1>2, <1>3, <1>4, <1>5, <1>6, <1>7 DEF BInv, Typed, Staging, Range
<1>9. QED BY <1>3, <1>8 DEF BInv, AcceptedOwn

LEMMA LeaveBInv ==
  ASSUME BInv, NEW r \in Reqs, NEW cached \in {0, BlockSize}, Leave(r, cached)
  PROVE  BInv'
<1>1. cached \in Nat
  BY Sizes
<1>2. (cached - 1) \div BlockSize \in Int
  BY <1>1, Quotient
<1>3. column' \in [Reqs -> Int] /\ computed' \in [Reqs -> Nat]
  BY <1>1, <1>2 DEF Leave, BInv, Typed
<1>4. QED BY <1>3 DEF Leave, BInv, Typed, Staging, AcceptedOwn, fixed

\* Every step of either runner, of a run with drafts or without, keeps the
\* staged rows and the counts of each request its own.
THEOREM BatchInvariant == Spec => []BInv
<1>1. Init => BInv
  BY InitBInv
<1>2. ASSUME BInv, [Next]_vars PROVE BInv'
  <2>1. CASE \E b \in Batches : \E q \in [Range(b) -> Chunks], d \in [Range(b) -> 0 .. MaxDrafts] :
               Preprocess(b, q, d)
    BY <1>2, <2>1, PreprocessBInv
  <2>2. CASE \E a \in [Range(batch) -> 1 .. MaxDrafts + 1] : Postprocess(a)
    BY <1>2, <2>2, PostprocessBInv
  <2>3. CASE \E r \in Reqs, cached \in {0, BlockSize} : Leave(r, cached)
    BY <1>2, <2>3, LeaveBInv
  <2>4. CASE UNCHANGED vars
    BY <1>2, <2>4 DEF BInv, Typed, Staging, AcceptedOwn, Running, vars, fixed
  <2>5. QED BY <1>2, <2>1, <2>2, <2>3, <2>4 DEF Next
<1>3. QED BY <1>1, <1>2, PTL DEF Spec

\* num_accepted_tokens: whatever row or slot a request has in a step, and
\* however batches are reordered between steps, its count is 1 after its state
\* moved or was saved in place, and else what the sampler said of it.
THEOREM CountsStayOwn == Spec => []AcceptedOwn
<1>1. BInv => AcceptedOwn
  BY DEF BInv
<1>2. QED BY <1>1, BatchInvariant, PTL

-----------------------------------------------------------------------------
(* The byte copies.  First, numbers: a divisor, and rounding up by it.     *)

LEMMA Div ==
  ASSUME NEW d \in Nat \ {0}, NEW n \in Int
  PROVE  /\ n \div d \in Int /\ (n \div d) * d \in Int
         /\ (n \div d) * d <= n /\ n < (n \div d) * d + d
OBVIOUS

LEMMA Rem ==
  ASSUME NEW d \in Nat \ {0}, NEW n \in Int
  PROVE  n % d \in 0 .. d - 1 /\ n = (n \div d) * d + (n % d)
OBVIOUS

LEMMA SameDiv ==
  ASSUME NEW d \in Nat \ {0}, NEW k \in Int, NEW l \in Int, NEW n \in Int,
         k * d <= n, n < k * d + d, l * d <= n, n < l * d + d
  PROVE  k = l
OBVIOUS

LEMMA Up ==
  ASSUME NEW d \in Nat \ {0}, NEW n \in Int
  PROVE  /\ Cdiv(n, d) \in Int /\ Cdiv(n, d) * d \in Int
         /\ n <= Cdiv(n, d) * d /\ Cdiv(n, d) * d < n + d
<1> DEFINE m == n + d - 1
<1>1. m \in Int /\ n = m - d + 1
  OBVIOUS
<1> HIDE DEF m
<1>2. /\ m \div d \in Int /\ (m \div d) * d \in Int
      /\ (m \div d) * d <= m /\ m < (m \div d) * d + d
  BY <1>1, Div
<1>3. Cdiv(n, d) = m \div d
  BY DEF Cdiv, m
<1>4. QED BY <1>1, <1>2, <1>3

LEMMA Monotone ==
  ASSUME NEW d \in Nat, NEW k \in Int, NEW l \in Int, k <= l
  PROVE  k * d <= l * d /\ k * d \in Int /\ l * d \in Int
OBVIOUS

-----------------------------------------------------------------------------
(* The units of a copy and the lanes they fall to.                         *)

Start(l, units, tiles) == l[1] * TileUnits(units, tiles)

\* How many units lane l moves, and its i-th.
Mine(l, units, tiles) ==
  IF l[1] >= tiles THEN 0
  ELSE AtLeast0(Cdiv(Least(Start(l, units, tiles) + TileUnits(units, tiles), units)
                       - Start(l, units, tiles) - l[2], BlockLanes))
Unit(l, i, units, tiles) == Start(l, units, tiles) + l[2] + (i - 1) * BlockLanes

LEMMA Lanes2 ==
  /\ BlockLanes \in Nat \ {0} /\ NumTiles \in Nat \ {0} /\ Word \in Nat \ {0}
  /\ \A l \in Lanes : /\ l[1] \in 0 .. NumTiles - 1 /\ l[2] \in 0 .. BlockLanes - 1
                      /\ l = <<l[1], l[2]>>
  /\ \A x \in 0 .. NumTiles - 1, y \in 0 .. BlockLanes - 1 : <<x, y>> \in Lanes
<1>1. BlockLanes \in Nat \ {0} /\ NumTiles \in Nat \ {0} /\ Word \in Nat \ {0}
  BY CopyAssumption
<1>2. QED BY <1>1 DEF Lanes

LEMMA Tile ==
  ASSUME NEW units \in Nat, NEW tiles \in 1 .. NumTiles
  PROVE  /\ TileUnits(units, tiles) \in Nat
         /\ units <= tiles * TileUnits(units, tiles)
         /\ units > 0 => TileUnits(units, tiles) > 0
<1>1. BlockLanes \in Nat \ {0} /\ tiles \in Nat \ {0}
  BY Lanes2
<1> DEFINE c == Cdiv(units, tiles)
           e == Cdiv(c, BlockLanes)
<1>2. c \in Int /\ c * tiles \in Int /\ units <= c * tiles
  <2>1. units \in Int
    OBVIOUS
  <2>2. QED BY <1>1, <2>1, Up
<1> HIDE DEF c
<1>3. e * BlockLanes \in Int /\ c <= e * BlockLanes
  BY <1>1, <1>2, Up
<1> DEFINE tu == e * BlockLanes
<1>4. TileUnits(units, tiles) = tu
  BY DEF TileUnits, c
<1>5. tu \in Int /\ c <= tu
  BY <1>3
<1> HIDE DEF tu
<1>6. c * tiles <= tu * tiles /\ tu * tiles \in Int
  BY <1>1, <1>2, <1>5, Monotone
<1>7. c >= 0
  <2>1. ASSUME c <= -1 PROVE FALSE
    BY <1>1, <1>2, <2>1, Monotone
  <2>2. QED BY <1>2, <2>1
<1>8. units > 0 => c > 0
  BY <1>1, <1>2
<1>9. QED BY <1>1, <1>2, <1>4, <1>5, <1>6, <1>7, <1>8

LEMMA UnitsInside ==
  ASSUME NEW units \in Nat, NEW tiles \in 1 .. NumTiles, NEW l \in Lanes
  PROVE  /\ Mine(l, units, tiles) \in Nat
         /\ \A i \in 1 .. Mine(l, units, tiles) :
              /\ Unit(l, i, units, tiles) \in 0 .. units - 1
              /\ Start(l, units, tiles) <= Unit(l, i, units, tiles)
              /\ Unit(l, i, units, tiles) < Start(l, units, tiles) + TileUnits(units, tiles)
              /\ Start(l, units, tiles) \in Nat
<1> DEFINE tu == TileUnits(units, tiles)
           st == Start(l, units, tiles)
           x == Least(st + tu, units) - st - l[2]
           c == Cdiv(x, BlockLanes)
<1>1. /\ BlockLanes \in Nat \ {0} /\ l[1] \in Nat /\ l[2] \in 0 .. BlockLanes - 1
      /\ tu \in Nat /\ l[1] * tu \in Nat
  BY Lanes2, Tile
<1>2. st \in Nat
  BY <1>1 DEF Start
<1>3. x \in Int /\ x + l[2] + st <= units /\ x + l[2] <= tu
  BY <1>1, <1>2 DEF Least
<1>4. Mine(l, units, tiles) = IF l[1] >= tiles THEN 0 ELSE AtLeast0(c)
  BY DEF Mine
<1> HIDE DEF st, tu, x
<1>5. c \in Int /\ c * BlockLanes \in Int /\ c * BlockLanes < x + BlockLanes
  BY <1>1, <1>3, Up
<1> HIDE DEF c
<1>6. Mine(l, units, tiles) \in Nat /\ \A i \in 1 .. Mine(l, units, tiles) : i \in Nat \ {0} /\ i <= c
  BY <1>1, <1>4, <1>5 DEF AtLeast0
<1>7. SUFFICES ASSUME NEW i \in Nat \ {0}, i <= c
               PROVE  /\ st + l[2] + (i - 1) * BlockLanes \in 0 .. units - 1
                      /\ st <= st + l[2] + (i - 1) * BlockLanes
                      /\ st + l[2] + (i - 1) * BlockLanes < st + tu
  BY <1>2, <1>6 DEF Unit, st, tu
<1>8. i * BlockLanes <= c * BlockLanes /\ i * BlockLanes \in Int
  BY <1>1, <1>5, <1>7, Monotone
<1>9. (i - 1) * BlockLanes = i * BlockLanes - BlockLanes /\ (i - 1) * BlockLanes \in Nat
  BY <1>1, <1>7
<1>10. QED BY <1>1, <1>2, <1>3, <1>5, <1>8, <1>9

\* No unit falls to two lanes, or to a lane twice.
LEMMA UnitsOnce ==
  ASSUME NEW units \in Nat, NEW tiles \in 1 .. NumTiles, NEW l \in Lanes, NEW m \in Lanes,
         NEW i \in 1 .. Mine(l, units, tiles), NEW k \in 1 .. Mine(m, units, tiles),
         Unit(l, i, units, tiles) = Unit(m, k, units, tiles)
  PROVE  l = m /\ i = k
<1> DEFINE tu == TileUnits(units, tiles)
           u == Unit(l, i, units, tiles)
<1>1. /\ BlockLanes \in Nat \ {0} /\ l[1] \in Int /\ m[1] \in Int
      /\ l[2] \in 0 .. BlockLanes - 1 /\ m[2] \in 0 .. BlockLanes - 1
      /\ i \in Int /\ k \in Int /\ l = <<l[1], l[2]>> /\ m = <<m[1], m[2]>>
  BY Lanes2, UnitsInside
<1>2. /\ u \in Int /\ u \in 0 .. units - 1
      /\ Start(l, units, tiles) \in Nat /\ Start(m, units, tiles) \in Nat
      /\ Start(l, units, tiles) <= u /\ u < Start(l, units, tiles) + tu
      /\ Start(m, units, tiles) <= u /\ u < Start(m, units, tiles) + tu
  BY UnitsInside
<1>3. tu \in Nat \ {0}
  BY <1>2, Tile
<1>4. l[1] = m[1]
  <2> HIDE DEF tu, u
  <2>1. l[1] * tu <= u /\ u < l[1] * tu + tu /\ m[1] * tu <= u /\ u < m[1] * tu + tu
    BY <1>2 DEF Start, tu
  <2>2. QED BY <1>1, <1>2, <1>3, <2>1, SameDiv
<1>5. l[2] + (i - 1) * BlockLanes = m[2] + (k - 1) * BlockLanes
  <2> DEFINE st == Start(l, units, tiles)
             p == (i - 1) * BlockLanes
             q == (k - 1) * BlockLanes
  <2>1. p \in Int /\ q \in Int
    BY <1>1
  <2>2. st \in Int /\ st + l[2] + p = st + m[2] + q
    BY <1>2, <1>4 DEF Unit, Start
  <2> HIDE DEF st, p, q
  <2>3. l[2] + p = m[2] + q
    BY <1>1, <2>1, <2>2
  <2>4. QED BY <2>3 DEF p, q
<1>6. i - 1 = k - 1
  <2> DEFINE n == l[2] + (i - 1) * BlockLanes
  <2>1. (i - 1) * BlockLanes \in Int /\ (k - 1) * BlockLanes \in Int /\ i - 1 \in Int /\ k - 1 \in Int
    BY <1>1
  <2>2. /\ n \in Int /\ (i - 1) * BlockLanes <= n /\ n < (i - 1) * BlockLanes + BlockLanes
        /\ (k - 1) * BlockLanes <= n /\ n < (k - 1) * BlockLanes + BlockLanes
    BY <1>1, <1>5, <2>1
  <2> HIDE DEF n
  <2>3. QED BY <1>1, <2>1, <2>2, SameDiv
<1>7. i = k
  BY <1>1, <1>6
<1>8. l[2] = m[2]
  <2> DEFINE p == (i - 1) * BlockLanes
  <2>1. p \in Int /\ l[2] + p = m[2] + p
    BY <1>1, <1>5, <1>7
  <2> HIDE DEF p
  <2>2. QED BY <1>1, <2>1
<1>9. QED BY <1>1, <1>4, <1>7, <1>8

\* Every unit falls to a lane.
LEMMA UnitsAll ==
  ASSUME NEW units \in Nat, NEW tiles \in 1 .. NumTiles, NEW u \in 0 .. units - 1
  PROVE  \E l \in Lanes : \E i \in 1 .. Mine(l, units, tiles) : Unit(l, i, units, tiles) = u
<1> DEFINE tu == TileUnits(units, tiles)
           x == u \div tu
           v == u - x * tu
           y == v % BlockLanes
           h == v \div BlockLanes
           l == <<x, y>>
<1>1. /\ tu \in Nat \ {0} /\ BlockLanes \in Nat \ {0} /\ units <= tiles * tu
      /\ tiles * tu \in Int /\ tiles \in Nat /\ tiles <= NumTiles /\ u \in Nat /\ u < units
  BY Tile, Lanes2
<1> HIDE DEF tu
<1>2. x \in Int /\ x * tu \in Int /\ x * tu <= u /\ u < x * tu + tu
  BY <1>1, Div
<1> HIDE DEF x
<1>3. x >= 0
  <2>1. ASSUME x <= -1 PROVE FALSE
    <3>1. x * tu <= -1 * tu
      BY <1>1, <1>2, <2>1, Monotone
    <3>2. QED BY <1>1, <1>2, <3>1
  <2>2. QED BY <1>2, <2>1
<1>4. x < tiles
  <2>1. ASSUME tiles <= x PROVE FALSE
    <3>1. tiles * tu <= x * tu
      BY <1>1, <1>2, <2>1, Monotone
    <3>2. QED BY <1>1, <1>2, <3>1
  <2>2. QED BY <1>1, <1>2, <2>1
<1>5. v \in Nat /\ v < tu /\ x * tu + v = u
  BY <1>1, <1>2
<1> HIDE DEF v
<1>6. h \in Int /\ h * BlockLanes \in Int /\ y \in 0 .. BlockLanes - 1 /\ v = h * BlockLanes + y
  <2>1. v \in Int
    BY <1>5
  <2>2. h \in Int /\ h * BlockLanes \in Int
    BY <1>1, <2>1, Div
  <2>3. y \in 0 .. BlockLanes - 1 /\ v = h * BlockLanes + y
    BY <1>1, <2>1, Rem
  <2>4. QED BY <2>2, <2>3
<1> HIDE DEF h, y
<1>7. h >= 0
  <2>1. ASSUME h <= -1 PROVE FALSE
    <3>1. h * BlockLanes <= -1 * BlockLanes
      BY <1>1, <1>6, <2>1, Monotone
    <3>2. QED BY <1>1, <1>5, <1>6, <3>1
  <2>2. QED BY <1>6, <2>1
<1>8. l \in Lanes /\ l[1] = x /\ l[2] = y
  BY <1>1, <1>2, <1>3, <1>4, <1>6, Lanes2
<1>9. Start(l, units, tiles) = x * tu
  BY <1>8 DEF Start, tu
<1> DEFINE z == Least(x * tu + tu, units) - x * tu - y
           c == Cdiv(z, BlockLanes)
<1>10. Mine(l, units, tiles) = AtLeast0(c)
  BY <1>1, <1>2, <1>4, <1>8, <1>9 DEF Mine, tu
<1>11. z \in Int /\ h * BlockLanes < z
  BY <1>1, <1>2, <1>5, <1>6 DEF Least
<1> HIDE DEF z
<1>12. c \in Int /\ c * BlockLanes \in Int /\ z <= c * BlockLanes
  BY <1>1, <1>11, Up
<1> HIDE DEF c
<1>13. h < c
  <2>1. ASSUME c <= h PROVE FALSE
    <3>1. c * BlockLanes <= h * BlockLanes
      BY <1>1, <1>6, <1>12, <2>1, Monotone
    <3>2. QED BY <1>6, <1>11, <1>12, <3>1
  <2>2. QED BY <1>6, <1>12, <2>1
<1>14. h + 1 \in 1 .. Mine(l, units, tiles)
  BY <1>6, <1>7, <1>10, <1>12, <1>13 DEF AtLeast0
<1>15. Unit(l, h + 1, units, tiles) = u
  <2>1. Unit(l, h + 1, units, tiles) = x * tu + y + (h + 1 - 1) * BlockLanes /\ h + 1 - 1 = h
    BY <1>6, <1>8, <1>9 DEF Unit
  <2>2. QED BY <1>2, <1>5, <1>6, <2>1
<1>16. QED BY <1>8, <1>14, <1>15

-----------------------------------------------------------------------------
(* What the lanes' moves cover.                                            *)

MoveT == [from : Int, to : Int, n : Nat \ {0}]

Targets(v) == v.to .. v.to + v.n - 1

\* The moves of all lanes write each address of S once, from d bytes on.
Covers(f, S, d) ==
  /\ f \in [Lanes -> Seq(MoveT)]
  /\ \A l \in Lanes : \A k \in DOMAIN f[l] :
       f[l][k].from = f[l][k].to + d /\ Targets(f[l][k]) \subseteq S
  /\ \A a \in S : \E l \in Lanes : \E k \in DOMAIN f[l] : a \in Targets(f[l][k])
  /\ \A l, m \in Lanes : \A k \in DOMAIN f[l], i \in DOMAIN f[m] : \A a \in S :
       a \in Targets(f[l][k]) /\ a \in Targets(f[m][i]) => l = m /\ k = i

\* Two runs of moves, one after the other in each lane.
LEMMA JoinCovers ==
  ASSUME NEW f, NEW g, NEW S, NEW T, NEW d, Covers(f, S, d), Covers(g, T, d), S \cap T = {}
  PROVE  Covers([l \in Lanes |-> f[l] \o g[l]], S \cup T, d)
<1> DEFINE h == [l \in Lanes |-> f[l] \o g[l]]
<1>1. \A l \in Lanes : f[l] \in Seq(MoveT) /\ g[l] \in Seq(MoveT)
  BY DEF Covers
<1>2. ASSUME NEW l \in Lanes
      PROVE  /\ h[l] \in Seq(MoveT)
             /\ \A k \in DOMAIN f[l] : k \in DOMAIN h[l] /\ h[l][k] = f[l][k]
             /\ \A k \in DOMAIN g[l] : Len(f[l]) + k \in DOMAIN h[l]
                                       /\ h[l][Len(f[l]) + k] = g[l][k]
             /\ \A k \in DOMAIN h[l] : \/ k \in DOMAIN f[l]
                                       \/ k - Len(f[l]) \in DOMAIN g[l]
             /\ Len(f[l]) \in Nat /\ DOMAIN h[l] \subseteq Int
  <2>1. f[l] \in Seq(MoveT) /\ g[l] \in Seq(MoveT) /\ h[l] = f[l] \o g[l]
    BY <1>1
  <2> DEFINE s == f[l]
             t == g[l]
  <2> HIDE DEF h, s, t
  <2>2. s \in Seq(MoveT) /\ t \in Seq(MoveT) /\ h[l] = s \o t
    BY <2>1 DEF s, t
  <2> DEFINE w == s \o t
  <2>3. /\ w \in Seq(MoveT) /\ Len(s) \in Nat
        /\ \A k \in DOMAIN s : k \in DOMAIN w /\ w[k] = s[k]
        /\ \A k \in DOMAIN t : Len(s) + k \in DOMAIN w /\ w[Len(s) + k] = t[k]
        /\ \A k \in DOMAIN w : k \in Int /\ (k \in DOMAIN s \/ k - Len(s) \in DOMAIN t)
    BY <2>2, Joined
  <2>4. h[l] = w
    BY <2>2
  <2> HIDE DEF w
  <2>5. QED BY <2>3, <2>4 DEF s, t
<1> HIDE DEF h
<1>3. \A l \in Lanes : \A k \in DOMAIN h[l] :
        \/ k \in DOMAIN f[l] /\ h[l][k] = f[l][k]
        \/ k - Len(f[l]) \in DOMAIN g[l] /\ h[l][k] = g[l][k - Len(f[l])]
  <2>1. SUFFICES ASSUME NEW l \in Lanes, NEW k \in DOMAIN h[l], k \notin DOMAIN f[l]
                 PROVE  k - Len(f[l]) \in DOMAIN g[l] /\ h[l][k] = g[l][k - Len(f[l])]
    BY <1>2
  <2>2. k - Len(f[l]) \in DOMAIN g[l] /\ Len(f[l]) + (k - Len(f[l])) = k
    BY <1>2, <2>1
  <2>3. QED BY <1>2, <2>2
<1>4. h \in [Lanes -> Seq(MoveT)]
  BY <1>2 DEF h
<1>a. /\ \A l \in Lanes : \A k \in DOMAIN f[l] :
           f[l][k].from = f[l][k].to + d /\ Targets(f[l][k]) \subseteq S
      /\ \A l \in Lanes : \A k \in DOMAIN g[l] :
           g[l][k].from = g[l][k].to + d /\ Targets(g[l][k]) \subseteq T
      /\ \A a \in S : \E l \in Lanes : \E k \in DOMAIN f[l] : a \in Targets(f[l][k])
      /\ \A a \in T : \E l \in Lanes : \E k \in DOMAIN g[l] : a \in Targets(g[l][k])
  BY DEF Covers
<1>5. \A l \in Lanes : \A k \in DOMAIN h[l] :
        h[l][k].from = h[l][k].to + d /\ Targets(h[l][k]) \subseteq S \cup T
  <2>1. SUFFICES ASSUME NEW l \in Lanes, NEW k \in DOMAIN h[l]
                 PROVE  h[l][k].from = h[l][k].to + d /\ Targets(h[l][k]) \subseteq S \cup T
    OBVIOUS
  <2>2. CASE k \in DOMAIN f[l] /\ h[l][k] = f[l][k]
    BY <1>a, <2>2
  <2>3. CASE k - Len(f[l]) \in DOMAIN g[l] /\ h[l][k] = g[l][k - Len(f[l])]
    BY <1>a, <2>3
  <2>4. QED BY <1>3, <2>2, <2>3
<1>6. \A a \in S \cup T : \E l \in Lanes : \E k \in DOMAIN h[l] : a \in Targets(h[l][k])
  <2>1. ASSUME NEW a \in S PROVE \E l \in Lanes : \E k \in DOMAIN h[l] : a \in Targets(h[l][k])
    <3>1. PICK l \in Lanes : \E k \in DOMAIN f[l] : a \in Targets(f[l][k])
      BY <1>a, <2>1
    <3>2. PICK k \in DOMAIN f[l] : a \in Targets(f[l][k])
      BY <3>1
    <3>3. k \in DOMAIN h[l] /\ a \in Targets(h[l][k])
      BY <1>2, <3>2
    <3>4. QED BY <3>3
  <2>2. ASSUME NEW a \in T PROVE \E l \in Lanes : \E k \in DOMAIN h[l] : a \in Targets(h[l][k])
    <3>1. PICK l \in Lanes : \E k \in DOMAIN g[l] : a \in Targets(g[l][k])
      BY <1>a, <2>2
    <3>2. PICK k \in DOMAIN g[l] : a \in Targets(g[l][k])
      BY <3>1
    <3>3. Len(f[l]) + k \in DOMAIN h[l] /\ a \in Targets(h[l][Len(f[l]) + k])
      BY <1>2, <3>2
    <3>4. QED BY <3>3
  <2>3. QED BY <2>1, <2>2
<1>7. ASSUME NEW l \in Lanes, NEW m \in Lanes, NEW k \in DOMAIN h[l], NEW i \in DOMAIN h[m],
             NEW a \in S \cup T, a \in Targets(h[l][k]), a \in Targets(h[m][i])
      PROVE  l = m /\ k = i
  <2>1. CASE a \in S
    <3>1. k \in DOMAIN f[l] /\ h[l][k] = f[l][k] /\ i \in DOMAIN f[m] /\ h[m][i] = f[m][i]
      BY <1>3, <1>7, <2>1 DEF Covers
    <3>2. QED BY <1>7, <2>1, <3>1 DEF Covers
  <2>2. CASE a \in T
    <3>1. /\ k - Len(f[l]) \in DOMAIN g[l] /\ h[l][k] = g[l][k - Len(f[l])]
          /\ i - Len(f[m]) \in DOMAIN g[m] /\ h[m][i] = g[m][i - Len(f[m])]
      BY <1>3, <1>7, <2>2 DEF Covers
    <3>2. l = m /\ k - Len(f[l]) = i - Len(f[m])
      BY <1>7, <2>2, <3>1 DEF Covers
    <3>3. k \in Int /\ i \in Int /\ Len(f[l]) \in Int
      BY <1>2
    <3>4. QED BY <3>2, <3>3
  <2>3. QED BY <2>1, <2>2
<1>8. Covers(h, S \cup T, d)
  BY <1>4, <1>5, <1>6, <1>7 DEF Covers
<1>9. QED BY <1>8 DEF h

\* n bytes at every p-th address from b on.
Strip(b, p, n, units) == {a \in Int : \E u \in 0 .. units - 1 : b + u * p <= a /\ a < b + u * p + n}

\* The units of a copy, spread over the lanes, at a distance of p bytes.
Spread(units, tiles, b, p, n, d) ==
  [l \in Lanes |-> [i \in 1 .. Mine(l, units, tiles) |->
     Move(b + d + Unit(l, i, units, tiles) * p, b + Unit(l, i, units, tiles) * p, n)]]

LEMMA SpreadCovers ==
  ASSUME NEW units \in Nat, NEW tiles \in 1 .. NumTiles, NEW b \in Int, NEW p \in Nat,
         NEW n \in Nat \ {0}, n <= p, NEW d \in Int
  PROVE  Covers(Spread(units, tiles, b, p, n, d), Strip(b, p, n, units), d)
<1> DEFINE f == Spread(units, tiles, b, p, n, d)
           U(l, i) == Unit(l, i, units, tiles)
           S == Strip(b, p, n, units)
<1>1. \A l \in Lanes : /\ Mine(l, units, tiles) \in Nat
                       /\ \A i \in 1 .. Mine(l, units, tiles) : U(l, i) \in 0 .. units - 1
  BY UnitsInside
<1>2. \A l \in Lanes : DOMAIN f[l] = 1 .. Mine(l, units, tiles)
  BY DEF Spread
<1>3. ASSUME NEW l \in Lanes, NEW i \in DOMAIN f[l]
      PROVE  /\ f[l][i] \in MoveT /\ f[l][i].from = f[l][i].to + d
             /\ f[l][i].to = b + U(l, i) * p /\ f[l][i].n = n /\ U(l, i) * p \in Int
             /\ U(l, i) \in 0 .. units - 1
  <2> DEFINE u == U(l, i)
  <2>1. f[l][i] = Move(b + d + u * p, b + u * p, n) /\ u \in 0 .. units - 1
    BY <1>1, <1>2 DEF Spread
  <2> HIDE DEF u
  <2>2. u * p \in Int
    BY <2>1
  <2> DEFINE q == u * p
  <2>3. Move(b + d + q, b + q, n) \in MoveT
    BY <2>2 DEF Move, MoveT
  <2>4. b + d + q = b + q + d
    BY <2>2
  <2> HIDE DEF f
  <2>5. QED BY <2>1, <2>2, <2>3, <2>4 DEF Move, u
<1>4. \A l \in Lanes, i \in Nat : i \in DOMAIN f[l] =>
        Targets(f[l][i]) = b + U(l, i) * p .. b + U(l, i) * p + n - 1
  BY <1>3 DEF Targets
<1>5. \A l \in Lanes : f[l] \in Seq(MoveT)
  <2>1. SUFFICES ASSUME NEW l \in Lanes PROVE f[l] \in [1 .. Mine(l, units, tiles) -> MoveT]
    BY <1>1
  <2>2. f[l] = [i \in 1 .. Mine(l, units, tiles) |-> f[l][i]]
    BY DEF Spread
  <2>3. QED BY <1>2, <1>3, <2>2
<1>6. f \in [Lanes -> Seq(MoveT)]
  <2>1. f = [l \in Lanes |-> f[l]]
    BY DEF Spread
  <2> HIDE DEF f
  <2>2. QED BY <1>5, <2>1
<1> HIDE DEF f
<1>7. \A l \in Lanes : \A i \in DOMAIN f[l] : Targets(f[l][i]) \subseteq S
  <2>1. SUFFICES ASSUME NEW l \in Lanes, NEW i \in DOMAIN f[l], NEW a \in Targets(f[l][i])
                 PROVE  a \in S
    OBVIOUS
  <2>2. i \in Nat
    BY <1>1, <1>2
  <2> DEFINE q == U(l, i) * p
  <2>3. q \in Int /\ a \in b + q .. b + q + n - 1
    BY <1>3, <1>4, <2>1, <2>2
  <2>4. a \in Int /\ b + q <= a /\ a < b + q + n
    BY <2>3
  <2>5. U(l, i) \in 0 .. units - 1
    BY <1>3
  <2>6. QED BY <2>4, <2>5 DEF Strip
<1>8. \A a \in S : \E l \in Lanes : \E i \in DOMAIN f[l] : a \in Targets(f[l][i])
  <2>1. SUFFICES ASSUME NEW a \in S PROVE \E l \in Lanes : \E i \in DOMAIN f[l] : a \in Targets(f[l][i])
    OBVIOUS
  <2>2. PICK u \in 0 .. units - 1 : a \in Int /\ b + u * p <= a /\ a < b + u * p + n
    BY DEF Strip
  <2>a. PICK l \in Lanes : \E i \in 1 .. Mine(l, units, tiles) : U(l, i) = u
    BY UnitsAll
  <2>3. PICK i \in 1 .. Mine(l, units, tiles) : U(l, i) = u
    BY <2>a
  <2>4. i \in DOMAIN f[l] /\ i \in Nat
    BY <1>1, <1>2
  <2> DEFINE q == u * p
  <2>5. q \in Int
    BY <2>2
  <2>6. Targets(f[l][i]) = b + q .. b + q + n - 1
    BY <1>4, <2>3, <2>4
  <2>7. b + q <= a /\ a < b + q + n
    BY <2>2
  <2> HIDE DEF q
  <2>8. a \in Targets(f[l][i])
    BY <2>2, <2>5, <2>6, <2>7
  <2>9. QED BY <2>4, <2>8
<1>9. ASSUME NEW l \in Lanes, NEW m \in Lanes, NEW i \in DOMAIN f[l], NEW k \in DOMAIN f[m],
             NEW a \in S, a \in Targets(f[l][i]), a \in Targets(f[m][k])
      PROVE  l = m /\ i = k
  <2> DEFINE u == U(l, i)
             v == U(m, k)
  <2>1. /\ i \in 1 .. Mine(l, units, tiles) /\ k \in 1 .. Mine(m, units, tiles)
        /\ i \in Nat /\ k \in Nat /\ u \in Int /\ v \in Int /\ u * p \in Int /\ v * p \in Int
    <3>1. i \in 1 .. Mine(l, units, tiles) /\ k \in 1 .. Mine(m, units, tiles)
      BY <1>2
    <3>2. u \in 0 .. units - 1 /\ v \in 0 .. units - 1 /\ u * p \in Int /\ v * p \in Int
      BY <1>3
    <3>3. Mine(l, units, tiles) \in Nat /\ Mine(m, units, tiles) \in Nat
      BY <1>1
    <3> HIDE DEF u, v
    <3>4. QED BY <3>1, <3>2, <3>3
  <2>2. a \in b + u * p .. b + u * p + n - 1 /\ a \in b + v * p .. b + v * p + n - 1
    BY <1>4, <1>9, <2>1
  <2> HIDE DEF u, v
  <2> DEFINE w == a - b
             q == u * p
             r == v * p
  <2>3. a \in Int /\ w \in Int /\ q <= w /\ w < q + p /\ r <= w /\ w < r + p
    BY <2>1, <2>2
  <2> HIDE DEF w
  <2>4. u = v
    BY <2>1, <2>3, SameDiv
  <2>5. QED BY <2>1, <2>4, UnitsOnce DEF u, v
<1>10. \A l \in Lanes : \A i \in DOMAIN f[l] : f[l][i].from = f[l][i].to + d
  BY <1>3
<1>11. QED BY <1>6, <1>7, <1>8, <1>9, <1>10 DEF Covers, f, S

\* A strip without gaps is an interval.
LEMMA NoGaps ==
  ASSUME NEW b \in Int, NEW p \in Nat \ {0}, NEW units \in Nat
  PROVE  /\ Strip(b, p, p, units) = b .. b + units * p - 1
         /\ units * p \in Nat
<1> DEFINE e == units * p
<1>1. e \in Nat
  OBVIOUS
<1>2. ASSUME NEW a \in Strip(b, p, p, units) PROVE a \in b .. b + e - 1
  <2>1. PICK u \in 0 .. units - 1 : a \in Int /\ b + u * p <= a /\ a < b + u * p + p
    BY DEF Strip
  <2> DEFINE q == u * p
  <2>2. q \in Nat /\ q + p <= e
    <3>1. u + 1 <= units /\ (u + 1) * p <= units * p
      BY Monotone
    <3>2. (u + 1) * p = u * p + p
      OBVIOUS
    <3>3. QED BY <3>1, <3>2
  <2>3. a \in Int /\ b + q <= a /\ a < b + q + p
    BY <2>1
  <2> HIDE DEF q, e
  <2>4. QED BY <1>1, <2>2, <2>3
<1>3. ASSUME NEW a \in b .. b + e - 1 PROVE a \in Strip(b, p, p, units)
  <2> DEFINE n == a - b
             u == n \div p
  <2>1. n \in Nat /\ n < e /\ a = b + n
    BY <1>1
  <2> HIDE DEF n
  <2>2. u \in Int /\ u * p \in Int /\ u * p <= n /\ n < u * p + p
    BY <2>1, Div
  <2> HIDE DEF u
  <2>3. u >= 0
    <3>1. ASSUME u <= -1 PROVE FALSE
      <4>1. u * p <= -1 * p
        BY <2>2, <3>1, Monotone
      <4>2. QED BY <2>1, <2>2, <4>1
    <3>2. QED BY <2>2, <3>1
  <2>4. u < units
    <3>1. ASSUME units <= u PROVE FALSE
      <4>1. units * p <= u * p
        BY <2>2, <3>1, Monotone
      <4>2. QED BY <1>1, <2>1, <2>2, <4>1
    <3>2. QED BY <2>2, <3>1
  <2>5. u \in 0 .. units - 1 /\ a \in Int /\ b + u * p <= a /\ a < b + u * p + p
    BY <2>1, <2>2, <2>3, <2>4
  <2>6. QED BY <2>5 DEF Strip
<1>4. QED BY <1>1, <1>2, <1>3

LEMMA StridedIsSpread ==
  ASSUME NEW units \in Nat, NEW tiles \in 1 .. NumTiles, NEW from \in Int, NEW to \in Int,
         NEW size \in Nat \ {0}
  PROVE  [l \in Lanes |-> Strided(l, units, tiles, from, to, size)]
           = Spread(units, tiles, to, size, size, from - to)
<1>1. SUFFICES ASSUME NEW l \in Lanes
               PROVE  Strided(l, units, tiles, from, to, size)
                        = [i \in 1 .. Mine(l, units, tiles) |->
                             Move(to + (from - to) + Unit(l, i, units, tiles) * size,
                                  to + Unit(l, i, units, tiles) * size, size)]
  BY DEF Spread
<1>2. CASE l[1] >= tiles
  <2>1. Mine(l, units, tiles) = 0
    BY <1>2 DEF Mine
  <2>2. QED BY <1>2, <2>1 DEF Strided
<1>3. CASE ~(l[1] >= tiles)
  <2>1. \A i \in 1 .. Mine(l, units, tiles) :
          to + (from - to) + Unit(l, i, units, tiles) * size = from + Unit(l, i, units, tiles) * size
    <3>1. SUFFICES ASSUME NEW i \in 1 .. Mine(l, units, tiles)
                   PROVE  to + (from - to) + Unit(l, i, units, tiles) * size
                            = from + Unit(l, i, units, tiles) * size
      OBVIOUS
    <3> DEFINE u == Unit(l, i, units, tiles)
               q == u * size
    <3>2. u \in 0 .. units - 1
      BY UnitsInside
    <3> HIDE DEF u
    <3>3. q \in Int
      BY <3>2
    <3> HIDE DEF q
    <3>4. to + (from - to) + q = from + q
      BY <3>3
    <3>5. QED BY <3>4 DEF q, u
  <2>2. Strided(l, units, tiles, from, to, size)
          = [i \in 1 .. Mine(l, units, tiles) |->
               Move(from + Unit(l, i, units, tiles) * size, to + Unit(l, i, units, tiles) * size, size)]
    BY <1>3, Zenon DEF Strided, Mine, Unit, Start
  <2>3. QED BY <2>1, <2>2
<1>4. QED BY <1>2, <1>3

LEMMA StridedCovers ==
  ASSUME NEW units \in Nat, NEW tiles \in 1 .. NumTiles, NEW from \in Int, NEW to \in Int,
         NEW size \in Nat \ {0}
  PROVE  /\ Covers([l \in Lanes |-> Strided(l, units, tiles, from, to, size)],
                   to .. to + units * size - 1, from - to)
         /\ units * size \in Nat
<1>1. from - to \in Int /\ size <= size
  OBVIOUS
<1> DEFINE d == from - to
<1> HIDE DEF d
<1>2. Covers(Spread(units, tiles, to, size, size, d), Strip(to, size, size, units), d)
  BY <1>1, SpreadCovers DEF d
<1>3. Strip(to, size, size, units) = to .. to + units * size - 1 /\ units * size \in Nat
  BY NoGaps
<1>4. [l \in Lanes |-> Strided(l, units, tiles, from, to, size)]
        = Spread(units, tiles, to, size, size, d)
  BY StridedIsSpread DEF d
<1>5. QED BY <1>2, <1>3, <1>4, Zenon DEF d

LEMMA BytesCovers ==
  ASSUME NEW count \in Nat, count <= BlockLanes, NEW from \in Int, NEW to \in Int
  PROVE  Covers([l \in Lanes |-> Bytes(l, count, from, to)], to .. to + count - 1, from - to)
<1> DEFINE f == [l \in Lanes |-> Bytes(l, count, from, to)]
           S == to .. to + count - 1
<1>1. \A l \in Lanes : l[2] \in Int /\ 0 <= l[2] /\ l[1] \in Int /\ l = <<l[1], l[2]>>
  BY Lanes2
<1>2. ASSUME NEW l \in Lanes
      PROVE  \/ f[l] = <<>>
             \/ /\ l[1] = 0 /\ l[2] < count
                /\ f[l] = <<Move(from + l[2], to + l[2], 1)>>
  BY DEF Bytes
<1>3. ASSUME NEW l \in Lanes, NEW k \in DOMAIN f[l]
      PROVE  /\ k = 1 /\ l[1] = 0 /\ l[2] < count
             /\ f[l][k].from = from + l[2] /\ f[l][k].to = to + l[2] /\ f[l][k].n = 1
             /\ Targets(f[l][k]) = {to + l[2]}
  <2>1. k = 1 /\ l[1] = 0 /\ l[2] < count /\ f[l] = <<Move(from + l[2], to + l[2], 1)>>
    BY <1>2
  <2> HIDE DEF f
  <2>2. f[l][k] = Move(from + l[2], to + l[2], 1)
    BY <2>1
  <2>3. QED BY <1>1, <2>1, <2>2 DEF Move, Targets
<1>4. f \in [Lanes -> Seq(MoveT)]
  <2>1. SUFFICES ASSUME NEW l \in Lanes PROVE f[l] \in Seq(MoveT)
    OBVIOUS
  <2>2. Move(from + l[2], to + l[2], 1) \in MoveT
    BY <1>1 DEF Move, MoveT
  <2> DEFINE v == Move(from + l[2], to + l[2], 1)
  <2>3. f[l] = <<>> \/ f[l] = <<v>>
    BY <1>2
  <2> HIDE DEF f, v
  <2>4. <<v>> \in Seq(MoveT) /\ <<>> \in Seq(MoveT)
    BY <2>2 DEF v
  <2>5. QED BY <2>3, <2>4
<1>5. \A a \in S : \E l \in Lanes : \E k \in DOMAIN f[l] : a \in Targets(f[l][k])
  <2>1. SUFFICES ASSUME NEW a \in S PROVE \E l \in Lanes : \E k \in DOMAIN f[l] : a \in Targets(f[l][k])
    OBVIOUS
  <2> DEFINE l == <<0, a - to>>
  <2>2. l \in Lanes /\ l[1] = 0 /\ l[2] = a - to /\ l[2] < count /\ a = to + l[2]
    BY Lanes2
  <2>3. f[l] = <<Move(from + l[2], to + l[2], 1)>>
    BY <2>2 DEF Bytes
  <2> HIDE DEF l
  <2>4. 1 \in DOMAIN f[l]
    BY <2>3
  <2> HIDE DEF f
  <2>5. a \in Targets(f[l][1])
    <3>1. Targets(f[l][1]) = {to + l[2]}
      BY <1>3, <2>2, <2>4
    <3>2. QED BY <2>2, <3>1
  <2>6. QED BY <2>2, <2>4, <2>5
<1> HIDE DEF f
<1>6. \A l \in Lanes : \A k \in DOMAIN f[l] : f[l][k].from = f[l][k].to + (from - to)
                                              /\ Targets(f[l][k]) \subseteq S
  <2>1. SUFFICES ASSUME NEW l \in Lanes, NEW k \in DOMAIN f[l]
                 PROVE  f[l][k].from = f[l][k].to + (from - to) /\ Targets(f[l][k]) \subseteq S
    OBVIOUS
  <2>2. QED BY <1>1, <1>3
<1>7. ASSUME NEW l \in Lanes, NEW m \in Lanes, NEW k \in DOMAIN f[l], NEW i \in DOMAIN f[m],
             NEW a \in S, a \in Targets(f[l][k]), a \in Targets(f[m][i])
      PROVE  l = m /\ k = i
  <2>1. k = 1 /\ i = 1 /\ l[1] = 0 /\ m[1] = 0 /\ a = to + l[2] /\ a = to + m[2]
    BY <1>3, <1>7
  <2>2. l[2] = m[2]
    BY <1>1, <2>1
  <2>3. QED BY <1>1, <2>1, <2>2
<1>8. QED BY <1>4, <1>5, <1>6, <1>7 DEF Covers, f

\* The three parts of a copy between addresses of the same alignment.
HeadBytes(to, size) == Least((-to) % Word, size)
Words(to, size) == (size - HeadBytes(to, size)) \div Word

LEMMA Parts ==
  ASSUME NEW to \in Int, NEW size \in Nat
  PROVE  /\ HeadBytes(to, size) \in Nat /\ HeadBytes(to, size) < Word /\ HeadBytes(to, size) <= size
         /\ Words(to, size) \in Nat /\ Words(to, size) * Word \in Nat
         /\ TailStart(HeadBytes(to, size), size) = HeadBytes(to, size) + Words(to, size) * Word
         /\ HeadBytes(to, size) + Words(to, size) * Word <= size
         /\ size < HeadBytes(to, size) + Words(to, size) * Word + Word
<1>1. Word \in Nat \ {0} /\ -to \in Int
  BY Lanes2
<1> DEFINE r == (-to) % Word
<1>2. r \in 0 .. Word - 1
  BY <1>1, Rem
<1> HIDE DEF r
<1> DEFINE h == Least(r, size)
<1>3. h \in Nat /\ h < Word /\ h <= size
  BY <1>1, <1>2 DEF Least
<1> HIDE DEF h
<1> DEFINE w == (size - h) \div Word
<1>4. size - h \in Nat /\ size - h \in Int
  BY <1>3
<1>5. w \in Int /\ w * Word \in Int /\ w * Word <= size - h /\ size - h < w * Word + Word
  BY <1>1, <1>4, Div
<1> HIDE DEF w
<1>6. w >= 0
  <2>1. ASSUME w <= -1 PROVE FALSE
    <3>1. w * Word <= -1 * Word
      BY <1>1, <1>5, <2>1, Monotone
    <3>2. QED BY <1>1, <1>4, <1>5, <3>1
  <2>2. QED BY <1>5, <2>1
<1>7. w * Word \in Nat
  BY <1>1, <1>5, <1>6
<1>8. /\ h + w * Word <= size /\ size < h + w * Word + Word
  BY <1>1, <1>3, <1>5
<1>9. /\ HeadBytes(to, size) = h /\ Words(to, size) = w
      /\ TailStart(h, size) = h + w * Word
  BY DEF HeadBytes, Words, TailStart, w, h, r
<1>10. QED BY <1>3, <1>5, <1>6, <1>7, <1>8, <1>9

\* A copy writes its bytes once, each from where it was asked for.
LEMMA MemcpyCovers ==
  ASSUME NEW from \in Int, NEW to \in Int, NEW size \in Nat, NEW tiles \in 1 .. NumTiles
  PROVE  Covers([l \in Lanes |-> Memcpy(l, from, to, size, tiles)],
                to .. to + size - 1, from - to)
<1> DEFINE d == from - to
<1>1. CASE from % Word # to % Word
  <2>1. size * 1 = size /\ 1 \in Nat \ {0}
    OBVIOUS
  <2>2. Covers([l \in Lanes |-> Strided(l, size, tiles, from, to, 1)],
               to .. to + size * 1 - 1, d)
    BY <2>1, StridedCovers
  <2>3. [l \in Lanes |-> Memcpy(l, from, to, size, tiles)]
          = [l \in Lanes |-> Strided(l, size, tiles, from, to, 1)]
    BY <1>1 DEF Memcpy
  <2>4. QED BY <2>1, <2>2, <2>3, Zenon
<1>2. CASE from % Word = to % Word
  <2> DEFINE h == HeadBytes(to, size)
             w == Words(to, size)
             q == w * Word
             t == h + q
             f == [l \in Lanes |-> Bytes(l, h, from, to)]
             g == [l \in Lanes |-> Strided(l, w, tiles, from + h, to + h, Word)]
             e == [l \in Lanes |-> Bytes(l, size - t, from + t, to + t)]
             fg == [l \in Lanes |-> f[l] \o g[l]]
  <2>a. /\ h \in Nat /\ h < Word /\ h <= size /\ w \in Nat /\ q \in Nat
        /\ TailStart(h, size) = t /\ t <= size /\ size < t + Word
    BY Parts, Zenon
  <2>b. t \in Nat
    <3> HIDE DEF h, q
    <3>1. QED BY <2>a
  <2>1. /\ h \in Nat /\ h < Word /\ h <= size /\ w \in Nat /\ q \in Nat
        /\ TailStart(h, size) = t /\ t <= size /\ size < t + Word /\ t \in Nat
    BY <2>a, <2>b, Zenon
  <2>2. Word \in Nat \ {0} /\ Word <= BlockLanes
    BY CopyAssumption
  <2>3. [l \in Lanes |-> Memcpy(l, from, to, size, tiles)] = [l \in Lanes |-> fg[l] \o e[l]]
    <3>1. \A l \in Lanes :
            Memcpy(l, from, to, size, tiles)
              = Bytes(l, h, from, to)
                  \o Strided(l, w, tiles, from + h, to + h, Word)
                  \o Bytes(l, size - TailStart(h, size), from + TailStart(h, size),
                           to + TailStart(h, size))
      BY <1>2, Zenon DEF Memcpy, HeadBytes, Words
    <3> HIDE DEF h, w
    <3>2. QED BY <2>1, <3>1
  <2> HIDE DEF h, w
  <2>4. /\ from + h \in Int /\ to + h \in Int /\ (from + h) - (to + h) = d /\ d \in Int
        /\ from + t \in Int /\ to + t \in Int /\ (from + t) - (to + t) = d
        /\ size - t \in Nat /\ size - t <= BlockLanes /\ h <= BlockLanes
        /\ (to + h) + q = to + t /\ (to + t) + (size - t) = to + size
    <3> HIDE DEF q
    <3>1. t = h + q
      OBVIOUS
    <3> HIDE DEF t
    <3>2. BlockLanes \in Int
      BY Lanes2
    <3>3. QED BY <2>1, <2>2, <3>1, <3>2
  <2>5. Covers(f, to .. to + h - 1, d)
    BY <2>1, <2>4, BytesCovers
  <2> HIDE DEF t
  <2>6. Covers(g, to + h .. to + t - 1, d)
    <3> DEFINE x == from + h
               y == to + h
    <3>1. x \in Int /\ y \in Int /\ x - y = d /\ y + q = to + t
      BY <2>4, Zenon
    <3> HIDE DEF x, y
    <3>2. Covers([l \in Lanes |-> Strided(l, w, tiles, x, y, Word)], y .. y + q - 1, x - y)
      BY <2>1, <2>2, <3>1, StridedCovers
    <3> HIDE DEF q
    <3>3. Covers([l \in Lanes |-> Strided(l, w, tiles, x, y, Word)], y .. to + t - 1, d)
      <4>1. to \in Int /\ t \in Int /\ q \in Int
        BY <2>1 DEF q
      <4>2. y .. y + q - 1 = y .. to + t - 1
        BY <3>1, <4>1
      <4>3. QED BY <3>1, <3>2, <4>2
    <3>4. QED BY <3>3 DEF x, y
  <2>7. Covers(e, to + t .. to + size - 1, d)
    <3> DEFINE x == from + t
               y == to + t
               c == size - t
    <3>1. x \in Int /\ y \in Int /\ x - y = d /\ y + c = to + size /\ c \in Nat /\ c <= BlockLanes
      BY <2>4, Zenon
    <3> HIDE DEF x, y, c
    <3>2. Covers([l \in Lanes |-> Bytes(l, c, x, y)], y .. y + c - 1, x - y)
      BY <3>1, BytesCovers
    <3>3. Covers([l \in Lanes |-> Bytes(l, c, x, y)], y .. to + size - 1, d)
      BY <3>1, <3>2
    <3>4. QED BY <3>3 DEF x, y, c
  <2>8. /\ (to .. to + h - 1) \cap (to + h .. to + t - 1) = {}
        /\ (to .. to + h - 1) \cup (to + h .. to + t - 1) = to .. to + t - 1
        /\ (to .. to + t - 1) \cap (to + t .. to + size - 1) = {}
        /\ (to .. to + t - 1) \cup (to + t .. to + size - 1) = to .. to + size - 1
    <3>1. h <= t /\ t <= size /\ 0 <= h /\ h \in Int /\ t \in Int /\ size \in Int
      BY <2>1 DEF t
    <3>2. QED BY <3>1
  <2> DEFINE A == to .. to + h - 1
             B == to + h .. to + t - 1
             C == to .. to + t - 1
             D == to + t .. to + size - 1
  <2> HIDE DEF f, g, e, A, B, C, D, d
  <2>9. Covers(fg, A \cup B, d)
    BY <2>5, <2>6, <2>8, JoinCovers DEF A, B
  <2> HIDE DEF fg
  <2>10. Covers([l \in Lanes |-> fg[l] \o e[l]], C \cup D, d)
    BY <2>7, <2>8, <2>9, JoinCovers DEF A, B, C, D
  <2>11. C \cup D = to .. to + size - 1
    BY <2>8 DEF C, D
  <2>12. QED BY <2>3, <2>10, <2>11 DEF d
<1>3. QED BY <1>1, <1>2

-----------------------------------------------------------------------------
(* Copies that differ by a shift: each lane does the same, B bytes on.     *)

LEMMA PlusMultiple ==
  ASSUME NEW d \in Nat \ {0}, NEW n \in Int, NEW k \in Int
  PROVE  (n + k * d) % d = n % d
<1> DEFINE kd == k * d
           m == n + kd
           p == n \div d
           q == m \div d
<1>1. kd \in Int /\ m \in Int /\ d \in Int
  OBVIOUS
<1>2. /\ p \in Int /\ p * d \in Int /\ p * d <= n /\ n < p * d + d
      /\ n = p * d + (n % d) /\ n % d \in Int
  BY Div, Rem
<1> HIDE DEF m
<1>3. /\ q \in Int /\ q * d \in Int /\ q * d <= m /\ m < q * d + d
      /\ m = q * d + (m % d) /\ m % d \in Int
  BY <1>1, Div, Rem
<1> HIDE DEF p, q
<1>4. (q - k) * d = q * d - kd /\ q - k \in Int
  BY <1>3
<1> HIDE DEF kd
<1>5. (q - k) * d <= n /\ n < (q - k) * d + d
  <2>1. m = n + kd
    BY DEF m
  <2>2. q * d - kd \in Int /\ q * d - kd <= n /\ n < q * d - kd + d
    BY <1>1, <1>3, <2>1
  <2>3. QED BY <1>4, <2>2
<1>6. q - k = p
  BY <1>2, <1>4, <1>5, SameDiv
<1>7. p * d = q * d - kd
  BY <1>4, <1>6
<1>8. m % d = n % d
  <2> DEFINE x == m % d
             y == n % d
             u == p * d
             v == q * d
  <2>1. m = v + x /\ n = u + y /\ u = v - kd /\ m = n + kd
        /\ x \in Int /\ y \in Int /\ u \in Int /\ v \in Int
    BY <1>2, <1>3, <1>7 DEF m
  <2> HIDE DEF x, y, u, v
  <2>2. x = y
    BY <1>1, <2>1
  <2>3. QED BY <2>2 DEF x, y
<1>9. QED BY <1>8 DEF m, kd

LEMMA SameRest ==
  ASSUME NEW d \in Nat \ {0}, NEW x \in Int, NEW y \in Int, x % d = y % d
  PROVE  \E k \in Int : x - y = k * d
<1>1. /\ x \div d \in Int /\ x = (x \div d) * d + (x % d) /\ x % d \in Int /\ (x \div d) * d \in Int
      /\ y \div d \in Int /\ y = (y \div d) * d + (y % d) /\ (y \div d) * d \in Int
  BY Div, Rem
<1> DEFINE p == x \div d
           q == y \div d
           r == x % d
<1>2. p \in Int /\ q \in Int /\ r \in Int /\ x = p * d + r /\ y = q * d + r
  BY <1>1
<1> HIDE DEF p, q, r
<1>3. p * d \in Int /\ q * d \in Int /\ (p - q) * d = p * d - q * d /\ p - q \in Int
  BY <1>2
<1>4. x - y = (p - q) * d
  BY <1>2, <1>3
<1>5. QED BY <1>3, <1>4

\* Moving source and destination by the distance between them changes neither
\* whether they are aligned nor where the words begin.
LEMMA AlignedAlike ==
  ASSUME NEW to \in Int, NEW b \in Int
  PROVE  /\ ((to + b) + b) % Word = (to + b) % Word <=> (to + b) % Word = to % Word
         /\ (to + b) % Word = to % Word =>
              (-(to + b)) % Word = (-to) % Word
<1>1. Word \in Nat \ {0}
  BY Lanes2
<1> DEFINE u == to + b
           v == u + b
<1>2. u \in Int /\ v \in Int /\ -u \in Int /\ -to \in Int /\ u - to = b /\ v - u = b
  OBVIOUS
<1> HIDE DEF u, v
<1>3. ASSUME NEW k \in Int, b = k * Word
      PROVE  u % Word = to % Word /\ v % Word = u % Word /\ (-u) % Word = (-to) % Word
  <2>1. u = to + k * Word /\ v = u + k * Word
    BY <1>2, <1>3
  <2>2. -to = -u + k * Word
    BY <1>2, <1>3
  <2>3. (to + k * Word) % Word = to % Word /\ (u + k * Word) % Word = u % Word
        /\ (-u + k * Word) % Word = (-u) % Word
    BY <1>1, <1>2, PlusMultiple
  <2>4. QED BY <2>1, <2>2, <2>3
<1>4. ASSUME u % Word = to % Word
      PROVE  v % Word = u % Word /\ (-u) % Word = (-to) % Word
  <2>1. PICK k \in Int : u - to = k * Word
    BY <1>1, <1>2, <1>4, SameRest
  <2>2. QED BY <1>2, <1>3, <2>1
<1>5. ASSUME v % Word = u % Word PROVE u % Word = to % Word
  <2>1. PICK k \in Int : v - u = k * Word
    BY <1>1, <1>2, <1>5, SameRest
  <2>2. QED BY <1>2, <1>3, <2>1
<1>6. QED BY <1>4, <1>5 DEF u, v

\* The same moves, b bytes on.
Shifted(s, t, b) ==
  /\ DOMAIN t = DOMAIN s
  /\ \A i \in DOMAIN s : t[i].to = s[i].to + b /\ t[i].n = s[i].n

LEMMA ShiftedJoined ==
  ASSUME NEW s \in Seq(MoveT), NEW t \in Seq(MoveT), NEW u \in Seq(MoveT), NEW v \in Seq(MoveT),
         NEW b, Shifted(s, t, b), Shifted(u, v, b)
  PROVE  Shifted(s \o u, t \o v, b) /\ s \o u \in Seq(MoveT) /\ t \o v \in Seq(MoveT)
<1>1. /\ DOMAIN s = 1 .. Len(s) /\ DOMAIN t = 1 .. Len(t) /\ Len(s) \in Nat /\ Len(t) \in Nat
      /\ DOMAIN u = 1 .. Len(u) /\ DOMAIN v = 1 .. Len(v) /\ Len(u) \in Nat /\ Len(v) \in Nat
  OBVIOUS
<1>2. Len(t) = Len(s) /\ Len(v) = Len(u)
  BY <1>1 DEF Shifted
<1>3. /\ DOMAIN (s \o u) = 1 .. Len(s) + Len(u)
      /\ DOMAIN (t \o v) = 1 .. Len(s) + Len(u)
      /\ \A i \in 1 .. Len(s) + Len(u) :
           /\ (s \o u)[i] = IF i <= Len(s) THEN s[i] ELSE u[i - Len(s)]
           /\ (t \o v)[i] = IF i <= Len(s) THEN t[i] ELSE v[i - Len(s)]
           /\ i <= Len(s) => i \in DOMAIN s
           /\ ~(i <= Len(s)) => i - Len(s) \in DOMAIN u
  <2>1. /\ DOMAIN (s \o u) = 1 .. Len(s) + Len(u)
        /\ \A i \in 1 .. Len(s) + Len(u) :
             (s \o u)[i] = IF i <= Len(s) THEN s[i] ELSE u[i - Len(s)]
    OBVIOUS
  <2>2. /\ DOMAIN (t \o v) = 1 .. Len(t) + Len(v)
        /\ \A i \in 1 .. Len(t) + Len(v) :
             (t \o v)[i] = IF i <= Len(t) THEN t[i] ELSE v[i - Len(t)]
    OBVIOUS
  <2>3. \A i \in 1 .. Len(s) + Len(u) : /\ i <= Len(s) => i \in DOMAIN s
                                       /\ ~(i <= Len(s)) => i - Len(s) \in DOMAIN u
    BY <1>1
  <2>4. QED BY <1>2, <2>1, <2>2, <2>3
<1>4. s \o u \in Seq(MoveT) /\ t \o v \in Seq(MoveT)
  OBVIOUS
<1>5. ASSUME NEW i \in DOMAIN (s \o u)
      PROVE  (t \o v)[i].to = (s \o u)[i].to + b /\ (t \o v)[i].n = (s \o u)[i].n
  <2>1. CASE i <= Len(s)
    BY <1>3, <1>5, <2>1 DEF Shifted
  <2>2. CASE ~(i <= Len(s))
    BY <1>3, <1>5, <2>2 DEF Shifted
  <2>3. QED BY <2>1, <2>2
<1>6. QED BY <1>3, <1>4, <1>5 DEF Shifted

LEMMA StridedShifted ==
  ASSUME NEW units \in Nat, NEW tiles \in 1 .. NumTiles, NEW from \in Int, NEW to \in Int,
         NEW b \in Int, NEW size \in Nat \ {0}, NEW l \in Lanes
  PROVE  /\ Shifted(Strided(l, units, tiles, from, to, size),
                    Strided(l, units, tiles, from + b, to + b, size), b)
         /\ Strided(l, units, tiles, from, to, size) \in Seq(MoveT)
<1> DEFINE s == Strided(l, units, tiles, from, to, size)
           t == Strided(l, units, tiles, from + b, to + b, size)
           at(i) == Unit(l, i, units, tiles) * size
<1>1. CASE l[1] >= tiles
  <2>1. s = <<>> /\ t = <<>>
    BY <1>1 DEF Strided
  <2>2. QED BY <2>1 DEF Shifted
<1>2. CASE ~(l[1] >= tiles)
  <2>1. /\ s = [i \in 1 .. Mine(l, units, tiles) |-> Move(from + at(i), to + at(i), size)]
        /\ t = [i \in 1 .. Mine(l, units, tiles) |-> Move(from + b + at(i), to + b + at(i), size)]
    BY <1>2, Zenon DEF Strided, Mine, Unit, Start
  <2>2. /\ Mine(l, units, tiles) \in Nat
        /\ \A i \in 1 .. Mine(l, units, tiles) : at(i) \in Int
    <3>1. \A i \in 1 .. Mine(l, units, tiles) : Unit(l, i, units, tiles) \in Int
      BY UnitsInside
    <3>2. QED BY <3>1, UnitsInside
  <2> HIDE DEF s, t, at
  <2>3. s \in Seq(MoveT)
    <3>1. \A i \in 1 .. Mine(l, units, tiles) : Move(from + at(i), to + at(i), size) \in MoveT
      BY <2>2 DEF Move, MoveT
    <3>2. s \in [1 .. Mine(l, units, tiles) -> MoveT]
      BY <2>1, <3>1
    <3>3. QED BY <2>2, <3>2
  <2>4. \A i \in 1 .. Mine(l, units, tiles) : to + b + at(i) = to + at(i) + b
    BY <2>2
  <2>5. Shifted(s, t, b)
    BY <2>1, <2>4 DEF Shifted, Move
  <2>6. QED BY <2>3, <2>5 DEF s, t
<1>3. QED BY <1>1, <1>2

LEMMA BytesShifted ==
  ASSUME NEW count \in Nat, NEW from \in Int, NEW to \in Int, NEW b \in Int, NEW l \in Lanes
  PROVE  /\ Shifted(Bytes(l, count, from, to), Bytes(l, count, from + b, to + b), b)
         /\ Bytes(l, count, from, to) \in Seq(MoveT)
<1>1. l[2] \in Int
  BY Lanes2
<1> DEFINE v == Move(from + l[2], to + l[2], 1)
           w == Move(from + b + l[2], to + b + l[2], 1)
<1>2. v \in MoveT /\ w.to = v.to + b /\ w.n = v.n
  BY <1>1 DEF Move, MoveT
<1> HIDE DEF v, w
<1>3. <<v>> \in Seq(MoveT) /\ Shifted(<<v>>, <<w>>, b)
  BY <1>2 DEF Shifted
<1>4. CASE l[1] = 0 /\ l[2] < count
  <2>1. Bytes(l, count, from, to) = <<v>> /\ Bytes(l, count, from + b, to + b) = <<w>>
    BY <1>4 DEF Bytes, v, w
  <2>2. QED BY <1>3, <2>1
<1>5. CASE ~(l[1] = 0 /\ l[2] < count)
  <2>1. Bytes(l, count, from, to) = <<>> /\ Bytes(l, count, from + b, to + b) = <<>>
    BY <1>5 DEF Bytes
  <2>2. QED BY <2>1 DEF Shifted
<1>6. QED BY <1>4, <1>5

LEMMA MemcpyShifted ==
  ASSUME NEW to \in Int, NEW b \in Int, NEW size \in Nat, NEW tiles \in 1 .. NumTiles,
         NEW l \in Lanes
  PROVE  Shifted(Memcpy(l, to + b, to, size, tiles),
                 Memcpy(l, (to + b) + b, to + b, size, tiles), b)
<1> DEFINE from == to + b
<1>1. from \in Int /\ 1 \in Nat \ {0}
  OBVIOUS
<1>2. CASE from % Word # to % Word
  <2>1. (from + b) % Word # from % Word
    BY <1>2, AlignedAlike
  <2>2. /\ Memcpy(l, from, to, size, tiles) = Strided(l, size, tiles, from, to, 1)
        /\ Memcpy(l, from + b, from, size, tiles) = Strided(l, size, tiles, from + b, from, 1)
    BY <1>2, <2>1, Zenon DEF Memcpy
  <2> DEFINE x == from
  <2> HIDE DEF x
  <2>3. Shifted(Strided(l, size, tiles, x, to, 1), Strided(l, size, tiles, x + b, to + b, 1), b)
    BY <1>1, StridedShifted DEF x
  <2>4. QED BY <2>2, <2>3 DEF x
<1>3. CASE from % Word = to % Word
  <2> DEFINE h == HeadBytes(to, size)
             w == Words(to, size)
             t == TailStart(h, size)
  <2>1. (from + b) % Word = from % Word /\ (-from) % Word = (-to) % Word
    BY <1>3, AlignedAlike
  <2>2. HeadBytes(from, size) = h /\ Words(from, size) = w
    BY <2>1 DEF HeadBytes, Words
  <2>3. Memcpy(l, from, to, size, tiles)
          = (Bytes(l, h, from, to) \o Strided(l, w, tiles, from + h, to + h, Word))
              \o Bytes(l, size - t, from + t, to + t)
    BY <1>3, Zenon DEF Memcpy, HeadBytes, Words
  <2>4. Memcpy(l, from + b, from, size, tiles)
          = (Bytes(l, HeadBytes(from, size), from + b, from)
               \o Strided(l, Words(from, size), tiles, (from + b) + HeadBytes(from, size),
                          from + HeadBytes(from, size), Word))
              \o Bytes(l, size - TailStart(HeadBytes(from, size), size),
                       (from + b) + TailStart(HeadBytes(from, size), size),
                       from + TailStart(HeadBytes(from, size), size))
    BY <2>1, Zenon DEF Memcpy, HeadBytes, Words
  <2>5. h \in Nat /\ w \in Nat /\ t \in Nat /\ t <= size /\ Word \in Nat \ {0}
    <3> DEFINE q == w * Word
    <3>1. h \in Nat /\ w \in Nat /\ q \in Nat /\ t = h + q /\ h + q <= size
      BY Parts
    <3> HIDE DEF h, w, t, q
    <3>2. QED BY <3>1, Lanes2
  <2> HIDE DEF h, w, t
  <2> DEFINE x == from + h
             y == to + h
             x1 == from + t
             y1 == to + t
             c == size - t
  <2>6. /\ x \in Int /\ y \in Int /\ x1 \in Int /\ y1 \in Int /\ c \in Nat
        /\ (from + b) + h = x + b /\ from + h = y + b
        /\ (from + b) + t = x1 + b /\ from + t = y1 + b
    BY <2>5
  <2>7. Memcpy(l, from + b, from, size, tiles)
          = (Bytes(l, h, from + b, to + b) \o Strided(l, w, tiles, x + b, y + b, Word))
              \o Bytes(l, c, x1 + b, y1 + b)
    <3>1. TailStart(h, size) = t
      BY DEF t
    <3> DEFINE v == from + b
    <3> HIDE DEF from, v
    <3>2. Memcpy(l, v, from, size, tiles)
            = (Bytes(l, h, v, from) \o Strided(l, w, tiles, v + h, from + h, Word))
                \o Bytes(l, c, v + t, from + t)
      BY <2>2, <2>4, <3>1 DEF v
    <3>3. v + h = x + b /\ v + t = x1 + b /\ from = to + b /\ from + h = y + b /\ from + t = y1 + b
      BY <2>6, Zenon DEF v, from
    <3> HIDE DEF x, y, x1, y1, c
    <3>4. Memcpy(l, v, from, size, tiles)
            = (Bytes(l, h, v, to + b) \o Strided(l, w, tiles, x + b, y + b, Word))
                \o Bytes(l, c, x1 + b, y1 + b)
      BY <3>2, <3>3
    <3>5. QED BY <3>4 DEF v, from
  <2> HIDE DEF x, y, x1, y1, c
  <2>8. /\ Shifted(Bytes(l, h, from, to), Bytes(l, h, from + b, to + b), b)
        /\ Bytes(l, h, from, to) \in Seq(MoveT)
    BY <1>1, <2>5, BytesShifted
  <2>9. /\ Shifted(Strided(l, w, tiles, x, y, Word), Strided(l, w, tiles, x + b, y + b, Word), b)
        /\ Strided(l, w, tiles, x, y, Word) \in Seq(MoveT)
    BY <2>5, <2>6, StridedShifted
  <2>10. /\ Shifted(Bytes(l, c, x1, y1), Bytes(l, c, x1 + b, y1 + b), b)
         /\ Bytes(l, c, x1, y1) \in Seq(MoveT)
    BY <2>6, BytesShifted
  <2>11. /\ Bytes(l, h, from + b, to + b) \in Seq(MoveT)
         /\ Strided(l, w, tiles, x + b, y + b, Word) \in Seq(MoveT)
         /\ Bytes(l, c, x1 + b, y1 + b) \in Seq(MoveT)
    <3> DEFINE u1 == from + b
               u2 == x + b
               u3 == y + b
               u4 == x1 + b
               u5 == y1 + b
               u6 == to + b
    <3>1. u1 \in Int /\ u2 \in Int /\ u3 \in Int /\ u4 \in Int /\ u5 \in Int /\ u6 \in Int
      BY <2>6
    <3> HIDE DEF u1, u2, u3, u4, u5, u6
    <3>2. /\ Bytes(l, h, u1, u6) \in Seq(MoveT)
          /\ Strided(l, w, tiles, u2, u3, Word) \in Seq(MoveT)
          /\ Bytes(l, c, u4, u5) \in Seq(MoveT)
      BY <2>5, <2>6, <3>1, BytesShifted, StridedShifted
    <3>3. QED BY <3>2 DEF u1, u2, u3, u4, u5, u6
  <2> DEFINE s1 == Bytes(l, h, from, to)
             s2 == Strided(l, w, tiles, x, y, Word)
             s3 == Bytes(l, c, x1, y1)
             t1 == Bytes(l, h, from + b, to + b)
             t2 == Strided(l, w, tiles, x + b, y + b, Word)
             t3 == Bytes(l, c, x1 + b, y1 + b)
  <2>12. /\ Memcpy(l, from, to, size, tiles) = (s1 \o s2) \o s3
         /\ Memcpy(l, from + b, from, size, tiles) = (t1 \o t2) \o t3
    BY <2>3, <2>7, Zenon DEF x, y, x1, y1, c
  <2>13. /\ s1 \in Seq(MoveT) /\ s2 \in Seq(MoveT) /\ s3 \in Seq(MoveT)
         /\ t1 \in Seq(MoveT) /\ t2 \in Seq(MoveT) /\ t3 \in Seq(MoveT)
         /\ Shifted(s1, t1, b) /\ Shifted(s2, t2, b) /\ Shifted(s3, t3, b)
    BY <2>8, <2>9, <2>10, <2>11, Zenon
  <2> HIDE DEF s1, s2, s3, t1, t2, t3
  <2>14. Shifted(s1 \o s2, t1 \o t2, b) /\ s1 \o s2 \in Seq(MoveT) /\ t1 \o t2 \in Seq(MoveT)
    BY <2>13, ShiftedJoined
  <2> DEFINE s12 == s1 \o s2
             t12 == t1 \o t2
  <2> HIDE DEF s12, t12
  <2>15. Shifted(s12 \o s3, t12 \o t3, b)
    BY <2>13, <2>14, ShiftedJoined DEF s12, t12
  <2>16. QED BY <2>12, <2>15 DEF s12, t12
<1>4. QED BY <1>2, <1>3

-----------------------------------------------------------------------------
(* What a lane does token after token, in one sequence.                    *)

\* What each lane does of the token t, token after token.
Turn(F, N, l) == [t \in 1 .. N |-> F[t][l]]
InTurn(F, N) == [l \in Lanes |-> FlattenSeq(Turn(F, N, l))]

LEMMA TurnsPlaced ==
  ASSUME NEW N \in Nat, NEW F, NEW S, NEW d, \A t \in 1 .. N : Covers(F[t], S[t], d)
  PROVE  \E at : \A l \in Lanes : Placed(InTurn(F, N)[l], Turn(F, N, l), at[l], N, MoveT)
<1> DEFINE at == [l \in Lanes |-> CHOOSE p : Placed(InTurn(F, N)[l], Turn(F, N, l), p, N, MoveT)]
<1>1. ASSUME NEW l \in Lanes PROVE \E p : Placed(InTurn(F, N)[l], Turn(F, N, l), p, N, MoveT)
  <2>1. \A t \in 1 .. N : F[t][l] \in Seq(MoveT)
    BY DEF Covers
  <2>2. Turn(F, N, l) \in [1 .. N -> Seq(MoveT)]
    BY <2>1 DEF Turn
  <2>3. InTurn(F, N)[l] = FlattenSeq(Turn(F, N, l))
    BY DEF InTurn
  <2>4. QED BY <2>2, <2>3, FlattenPlaces
<1>2. ASSUME NEW l \in Lanes PROVE Placed(InTurn(F, N)[l], Turn(F, N, l), at[l], N, MoveT)
  BY <1>1, Zenon
<1>3. QED BY <1>2, Zenon

\* Each move of the whole is a move of one token.
LEMMA TurnOf ==
  ASSUME NEW N \in Nat, NEW F, NEW l, NEW flat, NEW at, Placed(flat, Turn(F, N, l), at, N, MoveT)
  PROVE  /\ flat \in Seq(MoveT)
         /\ \A k \in DOMAIN flat : \E t \in 1 .. N :
              k - at[t] \in DOMAIN F[t][l] /\ flat[k] = F[t][l][k - at[t]]
         /\ \A t \in 1 .. N : \A k \in DOMAIN F[t][l] :
              at[t] + k \in DOMAIN flat /\ flat[at[t] + k] = F[t][l][k]
         /\ \A t \in 1 .. N : at[t] \in Nat
<1>1. \A t \in 1 .. N : Turn(F, N, l)[t] = F[t][l]
  BY DEF Turn
<1>2. /\ flat \in Seq(MoveT)
      /\ \A t \in 1 .. N : /\ at[t] \in Nat
                           /\ \A k \in DOMAIN F[t][l] : /\ at[t] + k \in DOMAIN flat
                                                        /\ flat[at[t] + k] = F[t][l][k]
      /\ \A k \in DOMAIN flat : k \in Int /\ \E t \in 1 .. N : k - at[t] \in DOMAIN F[t][l]
  <2>1. flat \in Seq(MoveT) /\ at \in [1 .. N -> Nat]
    BY DEF Placed
  <2>2. \A k \in DOMAIN flat : k \in Int
    BY <2>1
  <2>3. \A t \in 1 .. N : at[t] \in Nat
    BY <2>1
  <2>4. \A t \in 1 .. N : \A k \in DOMAIN F[t][l] : /\ at[t] + k \in DOMAIN flat
                                                    /\ flat[at[t] + k] = F[t][l][k]
    BY <1>1 DEF Placed
  <2>5. \A k \in DOMAIN flat : \E t \in 1 .. N : k - at[t] \in DOMAIN F[t][l]
    BY <1>1 DEF Placed
  <2>6. QED BY <2>1, <2>2, <2>3, <2>4, <2>5
<1>3. ASSUME NEW k \in DOMAIN flat, NEW t \in 1 .. N, k - at[t] \in DOMAIN F[t][l]
      PROVE  flat[k] = F[t][l][k - at[t]]
  <2> DEFINE i == k - at[t]
  <2>1. at[t] + i = k
    BY <1>2
  <2>2. flat[at[t] + i] = F[t][l][i]
    BY <1>2, <1>3
  <2>3. QED BY <2>1, <2>2
<1>4. QED BY <1>2, <1>3

LEMMA InTurnCovers ==
  ASSUME NEW N \in Nat, NEW F, NEW S, NEW d, \A t \in 1 .. N : Covers(F[t], S[t], d),
         \A t, u \in 1 .. N : \A a \in S[t] : a \in S[u] => t = u
  PROVE  Covers(InTurn(F, N), UNION {S[t] : t \in 1 .. N}, d)
<1> DEFINE P == InTurn(F, N)
           U == UNION {S[t] : t \in 1 .. N}
<1>1. PICK at : \A l \in Lanes : Placed(P[l], Turn(F, N, l), at[l], N, MoveT)
  BY TurnsPlaced
<1>2. \A l \in Lanes :
        /\ P[l] \in Seq(MoveT)
        /\ \A k \in DOMAIN P[l] : \E t \in 1 .. N :
             k - at[l][t] \in DOMAIN F[t][l] /\ P[l][k] = F[t][l][k - at[l][t]]
        /\ \A t \in 1 .. N : \A k \in DOMAIN F[t][l] :
             at[l][t] + k \in DOMAIN P[l] /\ P[l][at[l][t] + k] = F[t][l][k]
        /\ \A t \in 1 .. N : at[l][t] \in Nat
  BY <1>1, TurnOf
<1>3. P \in [Lanes -> Seq(MoveT)]
  <2>1. P = [l \in Lanes |-> P[l]]
    BY DEF InTurn
  <2> HIDE DEF P
  <2>2. QED BY <1>2, <2>1
<1> HIDE DEF P
<1>4. ASSUME NEW l \in Lanes, NEW k \in DOMAIN P[l]
      PROVE  P[l][k].from = P[l][k].to + d /\ Targets(P[l][k]) \subseteq U
  <2>1. PICK t \in 1 .. N : k - at[l][t] \in DOMAIN F[t][l] /\ P[l][k] = F[t][l][k - at[l][t]]
    BY <1>2
  <2>2. P[l][k].from = P[l][k].to + d /\ Targets(P[l][k]) \subseteq S[t]
    BY <2>1 DEF Covers
  <2>3. QED BY <2>2
<1>5. ASSUME NEW a \in U PROVE \E l \in Lanes : \E k \in DOMAIN P[l] : a \in Targets(P[l][k])
  <2>1. PICK t \in 1 .. N : a \in S[t]
    OBVIOUS
  <2>2. PICK l \in Lanes : \E k \in DOMAIN F[t][l] : a \in Targets(F[t][l][k])
    BY <2>1 DEF Covers
  <2>3. PICK k \in DOMAIN F[t][l] : a \in Targets(F[t][l][k])
    BY <2>2
  <2>4. at[l][t] + k \in DOMAIN P[l] /\ P[l][at[l][t] + k] = F[t][l][k]
    BY <1>2
  <2>5. QED BY <2>3, <2>4
<1>6. ASSUME NEW l \in Lanes, NEW m \in Lanes, NEW k \in DOMAIN P[l], NEW i \in DOMAIN P[m],
             NEW a \in U, a \in Targets(P[l][k]), a \in Targets(P[m][i])
      PROVE  l = m /\ k = i
  <2>1. PICK t \in 1 .. N : k - at[l][t] \in DOMAIN F[t][l] /\ P[l][k] = F[t][l][k - at[l][t]]
    BY <1>2
  <2>2. PICK u \in 1 .. N : i - at[m][u] \in DOMAIN F[u][m] /\ P[m][i] = F[u][m][i - at[m][u]]
    BY <1>2
  <2>a. /\ \A x \in DOMAIN F[t][l] : Targets(F[t][l][x]) \subseteq S[t]
        /\ \A x \in DOMAIN F[u][m] : Targets(F[u][m][x]) \subseteq S[u]
    BY DEF Covers
  <2>3. a \in S[t] /\ a \in S[u]
    BY <1>6, <2>1, <2>2, <2>a
  <2>4. t = u
    BY <2>3
  <2> DEFINE x == k - at[l][t]
             y == i - at[m][t]
  <2>b. /\ x \in DOMAIN F[t][l] /\ y \in DOMAIN F[t][m]
        /\ a \in Targets(F[t][l][x]) /\ a \in Targets(F[t][m][y]) /\ Covers(F[t], S[t], d)
    BY <1>6, <2>1, <2>2, <2>4
  <2> HIDE DEF x, y
  <2>c. l = m /\ x = y
    BY <2>3, <2>b DEF Covers
  <2>5. l = m /\ k - at[l][t] = i - at[m][t]
    BY <2>c DEF x, y
  <2>6. at[l][t] \in Int /\ k \in Int /\ i \in Int
    BY <1>2
  <2>7. QED BY <2>5, <2>6
<1>7. Covers(P, U, d)
  BY <1>3, <1>4, <1>5, <1>6 DEF Covers
<1>8. QED BY <1>7 DEF P

\* Who reads an address does so no later than it is written there: in the same
\* lane, or, with a barrier in each round, in the same round.
Ordered(P, d, barrier) ==
  \A l, m \in Lanes : \A k \in DOMAIN P[l], i \in DOMAIN P[m] : \A a \in Targets(P[m][i]) :
    a - d \in Targets(P[l][k]) => k <= i /\ (l = m \/ barrier)

\* Copied in turn, each from b tokens on by the lane that writes it there.
LEMMA InTurnOrdered ==
  ASSUME NEW N \in Nat, NEW F, NEW S, NEW d \in Int, NEW b \in Nat \ {0},
         \A t \in 1 .. N : Covers(F[t], S[t], d),
         \A t, u \in 1 .. N : \A a \in S[u] : a - d \in S[t] => u = t + b,
         \A t, u \in 1 .. N : u = t + b => \A l \in Lanes : Shifted(F[t][l], F[u][l], d)
  PROVE  Ordered(InTurn(F, N), d, FALSE)
<1> DEFINE P == InTurn(F, N)
<1>1. PICK at : \A l \in Lanes : Placed(P[l], Turn(F, N, l), at[l], N, MoveT)
  BY TurnsPlaced
<1>2. \A l \in Lanes :
        /\ P[l] \in Seq(MoveT)
        /\ \A k \in DOMAIN P[l] : \E t \in 1 .. N :
             k - at[l][t] \in DOMAIN F[t][l] /\ P[l][k] = F[t][l][k - at[l][t]]
        /\ \A t \in 1 .. N : at[l][t] \in Nat
  <2>1. SUFFICES ASSUME NEW l \in Lanes
                 PROVE  /\ P[l] \in Seq(MoveT)
                        /\ \A k \in DOMAIN P[l] : \E t \in 1 .. N :
                             k - at[l][t] \in DOMAIN F[t][l] /\ P[l][k] = F[t][l][k - at[l][t]]
                        /\ \A t \in 1 .. N : at[l][t] \in Nat
    OBVIOUS
  <2> DEFINE flat == P[l]
             from == at[l]
  <2>2. Placed(flat, Turn(F, N, l), from, N, MoveT)
    BY <1>1
  <2> HIDE DEF flat, from
  <2>3. /\ flat \in Seq(MoveT)
        /\ \A k \in DOMAIN flat : \E t \in 1 .. N :
             k - from[t] \in DOMAIN F[t][l] /\ flat[k] = F[t][l][k - from[t]]
        /\ \A t \in 1 .. N : from[t] \in Nat
    BY <2>2, TurnOf
  <2>4. QED BY <2>3 DEF flat, from
<1>3. \A l \in Lanes : \A t, u \in 1 .. N : t < u => at[l][t] + Len(F[t][l]) <= at[l][u]
  <2>1. SUFFICES ASSUME NEW l \in Lanes, NEW t \in 1 .. N, NEW u \in 1 .. N, t < u
                 PROVE  at[l][t] + Len(F[t][l]) <= at[l][u]
    OBVIOUS
  <2>2. Turn(F, N, l)[t] = F[t][l]
    BY DEF Turn
  <2>3. QED BY <1>1, <2>1, <2>2 DEF Placed
<1> HIDE DEF P
<1>4. SUFFICES ASSUME NEW l \in Lanes, NEW m \in Lanes, NEW k \in DOMAIN P[l], NEW i \in DOMAIN P[m],
                      NEW a \in Targets(P[m][i]), a - d \in Targets(P[l][k])
               PROVE  k <= i /\ l = m
  BY DEF Ordered, P
<1>5. PICK t \in 1 .. N : k - at[l][t] \in DOMAIN F[t][l] /\ P[l][k] = F[t][l][k - at[l][t]]
  BY <1>2
<1>6. PICK u \in 1 .. N : i - at[m][u] \in DOMAIN F[u][m] /\ P[m][i] = F[u][m][i - at[m][u]]
  BY <1>2
<1> DEFINE x == k - at[l][t]
           y == i - at[m][u]
<1>7. x \in DOMAIN F[t][l] /\ P[l][k] = F[t][l][x] /\ y \in DOMAIN F[u][m] /\ P[m][i] = F[u][m][y]
  BY <1>5, <1>6
<1>8. /\ F[t][l] \in Seq(MoveT) /\ F[u][m] \in Seq(MoveT) /\ F[t][m] \in Seq(MoveT)
      /\ at[l][t] \in Nat /\ at[m][u] \in Nat /\ at[m][t] \in Nat /\ k \in Int /\ i \in Int
  <2>1. F[t] \in [Lanes -> Seq(MoveT)] /\ F[u] \in [Lanes -> Seq(MoveT)]
    BY DEF Covers
  <2>2. at[l][t] \in Nat /\ at[m][u] \in Nat /\ at[m][t] \in Nat
    BY <1>2
  <2>3. P[l] \in Seq(MoveT) /\ P[m] \in Seq(MoveT)
    BY <1>2
  <2>4. k \in Int /\ i \in Int
    BY <2>3
  <2>5. QED BY <2>1, <2>2, <2>4
<1>9. k = at[l][t] + x /\ i = at[m][u] + y /\ x \in Int /\ y \in Int
  <2> DEFINE p == at[l][t]
             q == at[m][u]
  <2>1. p \in Int /\ q \in Int /\ k \in Int /\ i \in Int
    BY <1>8
  <2> HIDE DEF p, q
  <2>2. k = p + (k - p) /\ i = q + (i - q) /\ k - p \in Int /\ i - q \in Int
    BY <2>1
  <2>3. QED BY <2>2 DEF p, q
<1> HIDE DEF x, y
<1>10. a \in S[u] /\ a - d \in S[t]
  <2>1. Targets(F[u][m][y]) \subseteq S[u] /\ Targets(F[t][l][x]) \subseteq S[t]
    BY <1>7 DEF Covers
  <2>2. QED BY <1>4, <1>7, <2>1
<1>11. u = t + b /\ t < u
  BY <1>10
<1>12. Shifted(F[t][m], F[u][m], d)
  BY <1>11
<1>13. y \in DOMAIN F[t][m] /\ F[u][m][y].to = F[t][m][y].to + d /\ F[u][m][y].n = F[t][m][y].n
  BY <1>7, <1>12 DEF Shifted
<1>14. a - d \in Targets(F[t][m][y])
  <2>1. F[t][m][y] \in MoveT
    BY <1>8, <1>13
  <2> DEFINE p == F[t][m][y].to
             n == F[t][m][y].n
  <2>2. p \in Int /\ n \in Nat
    BY <2>1 DEF MoveT
  <2>3. a \in p + d .. p + d + n - 1
    BY <1>4, <1>7, <1>13 DEF Targets
  <2> HIDE DEF p, n
  <2>4. a - d \in p .. p + n - 1
    BY <2>2, <2>3
  <2>5. QED BY <2>4 DEF Targets, p, n
<1>15. l = m /\ x = y
  <2>1. a - d \in Targets(F[t][l][x])
    BY <1>4, <1>7
  <2>2. Covers(F[t], S[t], d)
    OBVIOUS
  <2>3. QED BY <1>7, <1>10, <1>13, <1>14, <2>1, <2>2 DEF Covers
<1>16. x <= Len(F[t][l]) /\ y >= 1
  BY <1>7, <1>8
<1>17. at[l][t] + Len(F[t][l]) <= at[l][u] /\ Len(F[t][l]) \in Nat
  BY <1>3, <1>8, <1>11
<1>18. k <= i
  <2> DEFINE p == at[l][t]
             q == at[l][u]
             n == Len(F[t][l])
  <2>1. k = p + x /\ i = q + x /\ x <= n /\ p + n <= q /\ x >= 1
        /\ p \in Int /\ q \in Int /\ n \in Int /\ x \in Int
    BY <1>8, <1>9, <1>15, <1>16, <1>17
  <2> HIDE DEF p, q, n
  <2>2. QED BY <2>1
<1>19. QED BY <1>15, <1>18

-----------------------------------------------------------------------------
(* A window: rows of `wide` tokens of `size` bytes.                        *)

LEMMA Positive ==
  ASSUME NEW m \in Nat \ {0}, NEW n \in Nat \ {0}
  PROVE  m * n \in Nat \ {0}
OBVIOUS

LEMMA Distribute ==
  ASSUME NEW m \in Int, NEW n \in Int, NEW d \in Int
  PROVE  (m + n) * d = m * d + n * d /\ m * d \in Int /\ n * d \in Int
OBVIOUS

\* Quotient and remainder are the only ones there are.
LEMMA OnlyRem ==
  ASSUME NEW d \in Nat \ {0}, NEW q \in Int, NEW r \in 0 .. d - 1, NEW x \in Int,
         x = q * d + r
  PROVE  x \div d = q /\ x % d = r
<1> DEFINE e == q * d
           p == x \div d
           s == x % d
<1>1. e \in Int /\ p \in Int /\ p * d \in Int /\ p * d <= x /\ x < p * d + d /\ x = p * d + s
      /\ s \in Int
  BY Div, Rem
<1> HIDE DEF p, s
<1>2. e <= x /\ x < e + d
  <2>1. x = e + r
    OBVIOUS
  <2> HIDE DEF e
  <2>2. QED BY <1>1, <2>1
<1>3. p = q
  BY <1>1, <1>2, SameDiv
<1>4. s = r
  <2>1. p * d = e /\ x = e + r
    BY <1>3
  <2> DEFINE u == p * d
  <2> HIDE DEF e, u
  <2>2. x = u + s /\ u = e /\ u \in Int
    BY <1>1, <2>1 DEF u
  <2>3. QED BY <1>1, <2>1, <2>2
<1>5. QED BY <1>3, <1>4 DEF p, s

\* The t-th token of every row, and whose row and column it is.
Tokens(to, size, wide, rs, t) == Strip(to + (t - 1) * size, wide * size, size, rs)

LEMMA InColumn ==
  ASSUME NEW to \in Nat, NEW size \in Nat \ {0}, NEW wide \in Nat \ {0}, NEW rs \in Nat,
         NEW t \in 1 .. wide, NEW a \in Int
  PROVE  a \in Tokens(to, size, wide, rs, t) <=>
           /\ a >= to /\ (a - to) \div (wide * size) < rs
           /\ (t - 1) * size <= (a - to) % (wide * size)
           /\ (a - to) % (wide * size) < (t - 1) * size + size
<1> DEFINE k == wide * size
           c == (t - 1) * size
           x == a - to
<1>1. k \in Nat \ {0}
  BY Positive
<1>2. c \in Nat /\ c + size <= k
  <2>1. t - 1 \in Nat /\ (t - 1) + 1 <= wide /\ 1 \in Int
    OBVIOUS
  <2>2. c \in Nat
    BY <2>1
  <2>3. ((t - 1) + 1) * size = c + 1 * size /\ 1 * size = size
    BY <2>1, Distribute
  <2>4. ((t - 1) + 1) * size <= wide * size
    BY <2>1, Monotone
  <2>5. QED BY <2>2, <2>3, <2>4
<1>3. x \in Int
  OBVIOUS
<1> HIDE DEF k, c
<1>4. ASSUME NEW u \in 0 .. rs - 1, to + c + u * k <= a, a < to + c + u * k + size
      PROVE  x \div k = u /\ c <= x % k /\ x % k < c + size /\ a >= to
  <2> DEFINE e == u * k
             r == x - e
  <2>1. e \in Nat
    BY <1>1
  <2>2. r \in 0 .. k - 1 /\ x = e + r /\ c <= r /\ r < c + size /\ a >= to
    <3> HIDE DEF e
    <3>1. to + c + e <= a /\ a < to + c + e + size
      BY <1>4 DEF e
    <3>2. QED BY <1>1, <1>2, <2>1, <3>1
  <2> HIDE DEF r, x
  <2>3. x \div k = u /\ x % k = r
    BY <1>1, <1>3, <2>2, OnlyRem
  <2>4. QED BY <2>2, <2>3
<1>5. ASSUME a >= to, x \div k < rs, c <= x % k, x % k < c + size
      PROVE  \E u \in 0 .. rs - 1 : to + c + u * k <= a /\ a < to + c + u * k + size
  <2> DEFINE u == x \div k
             e == u * k
             r == x % k
  <2>1. u \in Int /\ e \in Int /\ e <= x /\ x < e + k /\ x = e + r /\ r \in Int
    BY <1>1, <1>3, Div, Rem
  <2> HIDE DEF u, r
  <2>2. u >= 0
    <3>1. ASSUME u <= -1 PROVE FALSE
      <4>1. u * k <= -1 * k
        BY <1>1, <2>1, <3>1, Monotone
      <4>2. QED BY <1>1, <1>5, <2>1, <4>1
    <3>2. QED BY <2>1, <3>1
  <2>3. u \in 0 .. rs - 1
    BY <1>5, <2>1, <2>2 DEF u
  <2>4. c <= r /\ r < c + size
    BY <1>5 DEF r
  <2> HIDE DEF e
  <2>5. to + c + e <= a /\ a < to + c + e + size
    BY <1>2, <2>1, <2>4
  <2>6. QED BY <2>3, <2>5 DEF e
<1>6. a \in Tokens(to, size, wide, rs, t) <=>
        \E u \in 0 .. rs - 1 : to + c + u * k <= a /\ a < to + c + u * k + size
  BY DEF Tokens, Strip, k, c
<1>7. \A u \in 0 .. rs - 1 : u = x \div k => x \div k < rs
  OBVIOUS
<1>8. QED BY <1>4, <1>5, <1>6, <1>7 DEF k, c

\* No byte is of two tokens.
LEMMA OneToken ==
  ASSUME NEW to \in Nat, NEW size \in Nat \ {0}, NEW wide \in Nat \ {0}, NEW rs \in Nat,
         NEW t \in 1 .. wide, NEW u \in 1 .. wide,
         NEW a \in Tokens(to, size, wide, rs, t), a \in Tokens(to, size, wide, rs, u)
  PROVE  t = u
<1> DEFINE c == (a - to) % (wide * size)
<1>1. a \in Int
  BY DEF Tokens, Strip
<1>2. /\ (t - 1) * size <= c /\ c < (t - 1) * size + size
      /\ (u - 1) * size <= c /\ c < (u - 1) * size + size
  BY <1>1, InColumn
<1>3. c \in Int
  <2>1. wide * size \in Nat \ {0} /\ a - to \in Int
    BY <1>1, Positive
  <2>2. QED BY <2>1, Rem
<1> HIDE DEF c
<1>4. t - 1 \in Int /\ u - 1 \in Int
  OBVIOUS
<1>5. t - 1 = u - 1
  BY <1>2, <1>3, <1>4, SameDiv
<1>6. QED BY <1>5

\* The bytes `by` tokens further on are those of the token so much later.
LEMMA LaterToken ==
  ASSUME NEW to \in Nat, NEW size \in Nat \ {0}, NEW wide \in Nat \ {0}, NEW rs \in Nat,
         NEW by \in Nat, NEW t \in 1 .. wide - by,
         NEW a \in Tokens(to, size, wide, rs, t)
  PROVE  /\ a + by * size \in Tokens(to, size, wide, rs, t + by)
         /\ a \in Int /\ t + by \in 1 .. wide
<1> DEFINE k == wide * size
           p == to + (t - 1) * size
           q == to + (t + by - 1) * size
           d == by * size
<1>1. a \in Int /\ t + by \in 1 .. wide
  BY DEF Tokens, Strip
<1>2. d \in Int /\ p \in Int /\ q = p + d
  <2> DEFINE x == (t - 1) * size
             y == (t + by - 1) * size
  <2>1. ((t - 1) + by) * size = x + d /\ x \in Int /\ d \in Int
    BY Distribute
  <2>2. t + by - 1 = (t - 1) + by
    OBVIOUS
  <2>3. y = x + d
    BY <2>1, <2>2
  <2>4. p = to + x /\ q = to + y
    OBVIOUS
  <2> HIDE DEF x, y, d, p, q
  <2>5. QED BY <2>1, <2>3, <2>4
<1>3. k \in Nat
  BY Positive
<1> HIDE DEF k, p, q, d
<1>4. PICK u \in 0 .. rs - 1 : p + u * k <= a /\ a < p + u * k + size
  BY DEF Tokens, Strip, p, k
<1> DEFINE e == u * k
<1>5. e \in Int
  BY <1>3
<1>6. p + e <= a /\ a < p + e + size
  BY <1>4
<1> HIDE DEF e
<1>7. q + e <= a + d /\ a + d < q + e + size /\ a + d \in Int
  BY <1>1, <1>2, <1>5, <1>6
<1>8. a + d \in Strip(q, k, size, rs)
  BY <1>7 DEF Strip, e
<1>9. QED BY <1>1, <1>8 DEF Tokens, q, k, d

\* A window's bytes are those of its tokens, and lie where the window does.
LEMMA WindowTokens ==
  ASSUME NEW to \in Nat, NEW size \in Nat \ {0}, NEW wide \in Nat \ {0}, NEW rs \in Nat,
         NEW N \in 0 .. wide, NEW a \in Int
  PROVE  (\E t \in 1 .. N : a \in Tokens(to, size, wide, rs, t)) <=>
           /\ a >= to /\ (a - to) \div (wide * size) < rs
           /\ (a - to) % (wide * size) < N * size
<1> DEFINE k == wide * size
           x == a - to
           c == x % k
<1>1. c \in Nat
  <2>1. k \in Nat \ {0} /\ x \in Int
    BY Positive
  <2>2. QED BY <2>1, Rem
<1>2. ASSUME NEW t \in 1 .. N, a \in Tokens(to, size, wide, rs, t)
      PROVE  a >= to /\ x \div k < rs /\ c < N * size
  <2>1. a >= to /\ x \div k < rs /\ c < (t - 1) * size + size /\ t \in 1 .. wide
    BY <1>2, InColumn
  <2>2. ((t - 1) + 1) * size = (t - 1) * size + 1 * size /\ 1 * size = size
        /\ (t - 1) * size \in Int /\ (t - 1) + 1 = t
    BY Distribute
  <2>3. t * size <= N * size /\ t * size \in Int /\ N * size \in Int
    BY Monotone
  <2> DEFINE y == (t - 1) * size
             z == N * size
             w == t * size
  <2>4. c < y + size /\ w = y + size /\ w <= z /\ y \in Int /\ w \in Int /\ z \in Int
    BY <2>1, <2>2, <2>3
  <2> HIDE DEF c, y, z, w
  <2>5. c < z
    BY <1>1, <2>4
  <2>6. QED BY <2>1, <2>5 DEF z
<1>3. ASSUME a >= to, x \div k < rs, c < N * size
      PROVE  \E t \in 1 .. N : a \in Tokens(to, size, wide, rs, t)
  <2> DEFINE q == c \div size
             t == q + 1
  <2>1. q \in Int /\ q * size \in Int /\ q * size <= c /\ c < q * size + size
    BY <1>1, Div
  <2>2. c \in Nat /\ c < N * size /\ N * size \in Int
    BY <1>1, <1>3
  <2> HIDE DEF q, c
  <2>3. q >= 0
    <3>1. ASSUME q <= -1 PROVE FALSE
      <4>1. q * size <= -1 * size
        BY <2>1, <3>1, Monotone
      <4>2. QED BY <2>1, <2>2, <4>1
    <3>2. QED BY <2>1, <3>1
  <2>4. q < N
    <3>1. ASSUME N <= q PROVE FALSE
      <4>1. N * size <= q * size
        BY <2>1, <3>1, Monotone
      <4>2. QED BY <2>1, <2>2, <4>1
    <3>2. QED BY <2>1, <3>1
  <2>5. t \in 1 .. N /\ t \in 1 .. wide /\ t - 1 = q
    BY <2>1, <2>3, <2>4
  <2>6. (t - 1) * size <= c /\ c < (t - 1) * size + size
    BY <2>1, <2>5
  <2>7. a \in Tokens(to, size, wide, rs, t)
    BY <1>3, <2>5, <2>6, InColumn DEF c
  <2>8. QED BY <2>5, <2>7
<1>4. QED BY <1>2, <1>3

LEMMA WindowInside ==
  ASSUME NEW to \in Nat, NEW size \in Nat \ {0}, NEW wide \in Nat \ {0}, NEW rs \in Nat,
         to + rs * (wide * size) <= MaxAddr,
         NEW t \in 1 .. wide, NEW a \in Tokens(to, size, wide, rs, t)
  PROVE  a \in Addresses
<1> DEFINE k == wide * size
           x == a - to
           u == x \div k
<1>1. k \in Nat \ {0} /\ a \in Int /\ x \in Int /\ a >= to
  BY Positive, InColumn DEF Tokens, Strip
<1>2. u \in Int /\ u < rs /\ u * k \in Int /\ x < u * k + k
  BY <1>1, Div, InColumn
<1>3. (u + 1) * k = u * k + 1 * k /\ 1 * k = k /\ (u + 1) * k <= rs * k /\ rs * k \in Int
  <2>1. u + 1 \in Int /\ u + 1 <= rs
    BY <1>2
  <2> HIDE DEF u, k
  <2>2. QED BY <1>1, <1>2, <2>1, Distribute, Monotone
<1> DEFINE e == u * k
           f == rs * k
           g == (u + 1) * k
<1>4. e \in Int /\ f \in Int /\ g = e + k /\ g <= f /\ x < e + k /\ to + f <= MaxAddr
  BY <1>2, <1>3
<1> HIDE DEF e, f, g, k
<1>5. MaxAddr \in Nat
  BY CopyAssumption
<1>6. a < MaxAddr /\ a >= 0
  BY <1>1, <1>4, <1>5
<1>7. QED BY <1>1, <1>5, <1>6 DEF Addresses

-----------------------------------------------------------------------------
(* The copies.                                                             *)

Lanewise(j) == [l \in Lanes |-> LaneMoves(l, j)]

\* The lanes' moves write the addresses S once, each from d bytes on and
\* before it is overwritten, and that is what the job asks for.
Fulfils(j, S, d) ==
  /\ d \in Int /\ S \subseteq Addresses
  /\ \A a \in S : a + d \in Addresses
  /\ Covers(Lanewise(j), S, d)
  /\ Ordered(Lanewise(j), d, Barrier(j))
  /\ Wanted(j) = [a \in Addresses |-> IF a \in S THEN a + d ELSE a]

\* Nothing is read where it is written, or only by the move that writes it.
LEMMA ApartOrdered ==
  ASSUME NEW P, NEW S, NEW d \in Int, NEW barrier, Covers(P, S, d), S \subseteq Int,
         d = 0 \/ \A a \in S : a - d \notin S
  PROVE  Ordered(P, d, barrier)
<1> SUFFICES ASSUME NEW l \in Lanes, NEW m \in Lanes, NEW k \in DOMAIN P[l], NEW i \in DOMAIN P[m],
                    NEW a \in Targets(P[m][i]), a - d \in Targets(P[l][k])
             PROVE  k <= i /\ l = m
  BY DEF Ordered
<1>1. a \in S /\ a - d \in S
  <2>1. Targets(P[m][i]) \subseteq S /\ Targets(P[l][k]) \subseteq S
    BY DEF Covers
  <2>2. QED BY <2>1
<1>2. d = 0 /\ a - d = a
  BY <1>1
<1>3. l = m /\ k = i
  BY <1>1, <1>2 DEF Covers
<1>4. k \in Int
  <2>1. P[l] \in Seq(MoveT)
    BY DEF Covers
  <2>2. QED BY <2>1
<1>5. QED BY <1>3, <1>4

\* A job that copies one range of bytes to another.
LEMMA BlockJob ==
  ASSUME NEW j \in Jobs, j.kind \in {"tiled", "batch"}
  PROVE  /\ j.from \in Nat /\ j.to \in Nat /\ j.size \in Nat /\ j.from - j.to \in Int
         /\ j.to .. j.to + j.size - 1 \subseteq Addresses
         /\ \A a \in j.to .. j.to + j.size - 1 : a + (j.from - j.to) \in Addresses
         /\ Wanted(j) = [a \in Addresses |-> IF a \in j.to .. j.to + j.size - 1
                                             THEN a + (j.from - j.to) ELSE a]
         /\ \/ j.from - j.to = 0
            \/ \A a \in j.to .. j.to + j.size - 1 :
                 a - (j.from - j.to) \notin j.to .. j.to + j.size - 1
            \/ j.kind = "batch" /\ Barrier(j)
<1>1. /\ j.from \in Nat /\ j.to \in Nat /\ j.size \in Nat /\ MaxAddr \in Nat
      /\ j.from + j.size <= MaxAddr /\ j.to + j.size <= MaxAddr
      /\ \/ j.from + j.size <= j.to \/ j.to + j.size <= j.from \/ j.from = j.to
         \/ j.kind = "batch" /\ j.to < j.from
  BY CopyAssumption
<1> DEFINE from == j.from
           to == j.to
           size == j.size
<1>2. Wanted(j) = [a \in Addresses |-> IF a \in to .. to + size - 1 THEN from + (a - to) ELSE a]
  BY DEF Wanted
<1>3. Barrier(j) <=> j.kind = "batch" /\ to < from /\ to + size > from
  BY DEF Barrier
<1> HIDE DEF from, to, size
<1>4. /\ from \in Nat /\ to \in Nat /\ size \in Nat /\ MaxAddr \in Nat
      /\ from + size <= MaxAddr /\ to + size <= MaxAddr
      /\ \/ from + size <= to \/ to + size <= from \/ from = to
         \/ j.kind = "batch" /\ to < from
  BY <1>1 DEF from, to, size
<1>5. from - to \in Int /\ to .. to + size - 1 \subseteq Addresses
  BY <1>4 DEF Addresses
<1>6. \A a \in to .. to + size - 1 : a + (from - to) \in Addresses
  BY <1>4 DEF Addresses
<1>7. \A a \in Addresses : from + (a - to) = a + (from - to)
  BY <1>4 DEF Addresses
<1>8. Wanted(j) = [a \in Addresses |-> IF a \in to .. to + size - 1 THEN a + (from - to) ELSE a]
  BY <1>2, <1>7
<1>9. \/ from - to = 0
      \/ \A a \in to .. to + size - 1 : a - (from - to) \notin to .. to + size - 1
      \/ j.kind = "batch" /\ Barrier(j)
  <2>1. CASE from + size <= to
    BY <1>4, <2>1
  <2>2. CASE to + size <= from
    BY <1>4, <2>2
  <2>3. CASE from = to
    BY <1>4, <2>3
  <2>4. CASE j.kind = "batch" /\ to < from /\ ~(to + size <= from)
    BY <1>3, <1>4, <2>4
  <2>5. QED BY <1>4, <2>1, <2>2, <2>3, <2>4
<1>10. QED BY <1>4, <1>5, <1>6, <1>8, <1>9 DEF from, to, size

LEMMA TiledFulfils ==
  ASSUME NEW j \in Jobs, j.kind = "tiled"
  PROVE  Fulfils(j, j.to .. j.to + j.size - 1, j.from - j.to)
<1> DEFINE S == j.to .. j.to + j.size - 1
           d == j.from - j.to
<1>1. /\ j.from \in Int /\ j.to \in Int /\ j.size \in Nat /\ d \in Int /\ S \subseteq Addresses
      /\ \A a \in S : a + d \in Addresses
      /\ Wanted(j) = [a \in Addresses |-> IF a \in S THEN a + d ELSE a]
      /\ d = 0 \/ \A a \in S : a - d \notin S
  BY BlockJob
<1>2. NumTiles \in 1 .. NumTiles
  BY Lanes2
<1>3. Lanewise(j) = [l \in Lanes |-> Memcpy(l, j.from, j.to, j.size, NumTiles)]
  BY DEF Lanewise, LaneMoves
<1>4. Covers(Lanewise(j), S, d)
  BY <1>1, <1>2, <1>3, MemcpyCovers
<1>5. S \subseteq Int
  BY <1>1
<1> HIDE DEF S, d
<1>6. Ordered(Lanewise(j), d, Barrier(j))
  BY <1>1, <1>4, <1>5, ApartOrdered
<1>7. Fulfils(j, S, d)
  BY <1>1, <1>4, <1>6 DEF Fulfils
<1>8. QED BY <1>7 DEF S, d

\* In rounds, each of the next bytes on: to the left, a byte is read in no
\* later round than the one that overwrites it.
LEMMA BatchFulfils ==
  ASSUME NEW j \in Jobs, j.kind = "batch"
  PROVE  Fulfils(j, j.to .. j.to + j.size - 1, j.from - j.to)
<1> DEFINE S == j.to .. j.to + j.size - 1
           d == j.from - j.to
           P == Lanewise(j)
<1>1. /\ j.from \in Int /\ j.to \in Int /\ j.size \in Nat /\ d \in Int /\ S \subseteq Addresses
      /\ \A a \in S : a + d \in Addresses
      /\ Wanted(j) = [a \in Addresses |-> IF a \in S THEN a + d ELSE a]
      /\ d = 0 \/ (\A a \in S : a - d \notin S) \/ Barrier(j)
  BY BlockJob
<1>2. 1 \in 1 .. NumTiles /\ 1 \in Nat \ {0} /\ j.size * 1 = j.size
  BY <1>1, Lanes2
<1>3. P = [l \in Lanes |-> Strided(l, j.size, 1, j.from, j.to, 1)]
  BY DEF Lanewise, LaneMoves, Batch
<1>4. Covers(P, S, d)
  <2> DEFINE x == j.from
             y == j.to
             n == j.size
  <2>1. x \in Int /\ y \in Int /\ n \in Nat /\ n * 1 = n
    BY <1>1
  <2> HIDE DEF x, y, n
  <2>2. Covers([l \in Lanes |-> Strided(l, n, 1, x, y, 1)], y .. y + n * 1 - 1, x - y)
    BY <1>2, <2>1, StridedCovers
  <2>3. QED BY <1>3, <2>1, <2>2 DEF x, y, n
<1>5. S \subseteq Int
  BY <1>1
<1>6. P = Spread(j.size, 1, j.to, 1, 1, d)
  BY <1>1, <1>2, <1>3, StridedIsSpread
<1>7. Ordered(P, d, Barrier(j))
  <2>1. CASE d = 0 \/ \A a \in S : a - d \notin S
    <3> HIDE DEF S, d, P
    <3>1. QED BY <1>1, <1>4, <1>5, <2>1, ApartOrdered
  <2>2. CASE Barrier(j)
    <3> DEFINE U(l, i) == Unit(l, i, j.size, 1)
               M(l) == Mine(l, j.size, 1)
    <3>1. d \in Nat \ {0}
      BY <1>1, <2>2 DEF Barrier
    <3>2. SUFFICES ASSUME NEW l \in Lanes, NEW m \in Lanes, NEW k \in DOMAIN P[l],
                          NEW i \in DOMAIN P[m],
                          NEW a \in Targets(P[m][i]), a - d \in Targets(P[l][k])
                   PROVE  k <= i
      BY <2>2 DEF Ordered
    <3>3. k \in 1 .. M(l) /\ i \in 1 .. M(m)
      BY <1>6, <3>2 DEF Spread
    <3>4. /\ P[l][k] = Move(j.to + d + U(l, k) * 1, j.to + U(l, k) * 1, 1)
          /\ P[m][i] = Move(j.to + d + U(m, i) * 1, j.to + U(m, i) * 1, 1)
      BY <1>6, <3>3 DEF Spread
    <3>5. /\ U(l, k) \in Int /\ U(m, i) \in Int /\ M(l) \in Nat /\ M(m) \in Nat
          /\ Start(l, j.size, 1) \in Int /\ Start(m, j.size, 1) \in Int
      BY <1>1, <1>2, <3>3, UnitsInside
    <3>6. l[1] = 0 /\ m[1] = 0
      <4>1. M(l) # 0 /\ M(m) # 0
        BY <3>3, <3>5
      <4>2. l[1] \in Nat /\ m[1] \in Nat
        BY Lanes2
      <4>3. QED BY <4>1, <4>2 DEF Mine
    <3>7. TileUnits(j.size, 1) \in Nat
      BY <1>1, <1>2, Tile
    <3>8. Start(l, j.size, 1) = 0 /\ Start(m, j.size, 1) = 0
      BY <3>6, <3>7 DEF Start
    <3>9. U(l, k) = l[2] + (k - 1) * BlockLanes /\ U(m, i) = m[2] + (i - 1) * BlockLanes
      <4>1. /\ U(l, k) = 0 + l[2] + (k - 1) * BlockLanes
            /\ U(m, i) = 0 + m[2] + (i - 1) * BlockLanes
        BY <3>8 DEF Unit
      <4>2. l[2] \in Int /\ m[2] \in Int
        BY Lanes2
      <4>3. QED BY <4>1, <4>2
    <3> DEFINE x == U(l, k)
               y == U(m, i)
               to == j.to
    <3>10. x \in Int /\ y \in Int /\ to \in Int
      BY <1>1, <3>5
    <3> HIDE DEF x, y, to, P, d
    <3>11. a = to + y /\ a - d = to + x
      <4>1. x * 1 = x /\ y * 1 = y
        BY <3>10
      <4>2. Targets(P[m][i]) = to + y .. to + y + 1 - 1 /\ Targets(P[l][k]) = to + x .. to + x + 1 - 1
        BY <3>4, <4>1 DEF Targets, Move, x, y, to
      <4>3. QED BY <3>2, <3>10, <4>2
    <3>12. x < y
      BY <3>1, <3>10, <3>11
    <3>13. /\ BlockLanes \in Nat \ {0} /\ l[2] \in 0 .. BlockLanes - 1
           /\ m[2] \in 0 .. BlockLanes - 1 /\ k \in Int /\ i \in Int
      BY <3>3, <3>5, Lanes2
    <3>14. ASSUME i + 1 <= k PROVE FALSE
      <4> DEFINE p == (i - 1) * BlockLanes
                 q == (k - 1) * BlockLanes
      <4>1. i <= k - 1 /\ i - 1 \in Int /\ k - 1 \in Int /\ (i - 1) + 1 = i
        BY <3>13, <3>14
      <4>2. i * BlockLanes <= q /\ q \in Int /\ i * BlockLanes \in Int
        BY <3>13, <4>1, Monotone
      <4>3. ((i - 1) + 1) * BlockLanes = p + 1 * BlockLanes /\ p \in Int
        BY <3>13, <4>1, Distribute
      <4>4. i * BlockLanes = p + BlockLanes
        BY <3>13, <4>1, <4>3
      <4>5. x = l[2] + q /\ y = m[2] + p
        BY <3>9 DEF x, y
      <4> HIDE DEF p, q
      <4> DEFINE z == i * BlockLanes
      <4> HIDE DEF z
      <4>6. z <= q /\ z = p + BlockLanes
        BY <4>2, <4>4 DEF z
      <4>7. p \in Int /\ q \in Int
        BY <4>2, <4>3
      <4>8. QED BY <3>12, <3>13, <4>5, <4>6, <4>7
    <3>15. QED BY <3>13, <3>14
  <2>3. QED BY <1>1, <2>1, <2>2
<1> HIDE DEF S, d
<1>8. Fulfils(j, S, d)
  BY <1>1, <1>4, <1>7 DEF Fulfils
<1>9. QED BY <1>8 DEF S, d

\* The token `b` later, `b` tokens of bytes on.
LEMMA LaterPlace ==
  ASSUME NEW to \in Int, NEW t \in Int, NEW b \in Int, NEW size \in Int
  PROVE  /\ to + (t - 1) * size \in Int
         /\ to + (t - 1 + b) * size = (to + (t - 1) * size) + b * size
         /\ to + ((t + b) - 1) * size = (to + (t - 1) * size) + b * size
<1> DEFINE x == (t - 1) * size
           d == b * size
<1>1. ((t - 1) + b) * size = x + d /\ x \in Int /\ d \in Int
  BY Distribute
<1>2. (t + b) - 1 = (t - 1) + b
  OBVIOUS
<1> DEFINE y == ((t - 1) + b) * size
<1>3. y = x + d /\ ((t + b) - 1) * size = y
  BY <1>1, <1>2
<1> HIDE DEF x, y, d
<1>4. to + x \in Int /\ to + y = (to + x) + d
  BY <1>1, <1>3
<1>5. QED BY <1>3, <1>4 DEF x, y, d

LEMMA OneStrip ==
  ASSUME NEW b \in Int, NEW p \in Int, NEW n \in Nat \ {0}
  PROVE  Strip(b, p, n, 1) = b .. b + n - 1
<1>1. 0 .. 1 - 1 = {0} /\ 0 * p = 0
  OBVIOUS
<1>2. \A a \in Int : (b + 0 <= a /\ a < b + 0 + n) <=> a \in b .. b + n - 1
  OBVIOUS
<1>3. b .. b + n - 1 \subseteq Int
  OBVIOUS
<1>4. QED BY <1>1, <1>2, <1>3 DEF Strip

\* A window shifted token by token, whatever the lanes do of each token: they
\* cover it, and every token alike.
LEMMA WindowFulfils ==
  ASSUME NEW j \in Jobs, j.kind \in {"shift", "rows"},
         NEW F, NEW N, N = j.width - j.bias, NEW d, d = j.bias * j.token,
         \A t \in 1 .. N : Covers(F[t], Tokens(j.to, j.token, j.width, j.rows, t), d),
         \A t, u \in 1 .. N : u = t + j.bias => \A l \in Lanes : Shifted(F[t][l], F[u][l], d),
         Lanewise(j) = InTurn(F, N)
  PROVE  \E S : Fulfils(j, S, d)
<1> DEFINE to == j.to
           size == j.token
           wide == j.width
           rs == j.rows
           b == j.bias
           S(t) == Tokens(to, size, wide, rs, t)
           T == [t \in 1 .. N |-> S(t)]
           U == UNION {T[t] : t \in 1 .. N}
<1>1. /\ to \in Nat /\ size \in Nat \ {0} /\ wide \in Nat \ {0} /\ rs \in Nat \ {0}
      /\ b \in 1 .. wide /\ to + rs * (wide * size) <= MaxAddr
  BY CopyAssumption
<1>2. N = wide - b /\ d = b * size
  OBVIOUS
<1>3. Wanted(j) = [a \in Addresses |->
                     IF /\ a >= to /\ (a - to) \div (wide * size) < rs
                        /\ (a - to) % (wide * size) < (wide - b) * size
                     THEN a + b * size ELSE a]
  BY DEF Wanted
<1>4. Barrier(j) = FALSE
  BY DEF Barrier
<1>5. /\ \A t \in 1 .. N : Covers(F[t], S(t), d)
      /\ \A t, u \in 1 .. N : u = t + b => \A l \in Lanes : Shifted(F[t][l], F[u][l], d)
  OBVIOUS
<1> HIDE DEF to, size, wide, rs, b
<1>6. /\ N \in 0 .. wide /\ N \in Nat /\ b \in Nat \ {0} /\ d \in Int
      /\ \A t \in 1 .. N : t \in 1 .. wide /\ t \in 1 .. wide - b
  <2>1. b * size \in Int
    BY <1>1
  <2>2. QED BY <1>1, <1>2, <2>1
<1>7. ASSUME NEW t \in 1 .. N, NEW a \in S(t)
      PROVE  /\ a + d \in S(t + b) /\ a \in Int /\ t + b \in 1 .. wide
             /\ a \in Addresses /\ a + d \in Addresses
  <2>1. a + d \in S(t + b) /\ a \in Int /\ t + b \in 1 .. wide
    BY <1>1, <1>2, <1>6, LaterToken
  <2>2. \A u \in 1 .. wide : \A x \in S(u) : x \in Addresses
    BY <1>1, WindowInside
  <2>3. QED BY <1>6, <2>1, <2>2
<1>8. \A t, u \in 1 .. wide : \A a \in S(t) : a \in S(u) => t = u
  BY <1>1, OneToken
<1>9. \A t \in 1 .. N : T[t] = S(t)
  OBVIOUS
<1> HIDE DEF S, T
<1>10. Covers(InTurn(F, N), U, d)
  <2>1. \A t \in 1 .. N : Covers(F[t], T[t], d)
    BY <1>5, <1>9
  <2>2. \A t, u \in 1 .. N : \A a \in T[t] : a \in T[u] => t = u
    BY <1>6, <1>8, <1>9
  <2>3. QED BY <1>6, <2>1, <2>2, InTurnCovers
<1>11. Ordered(InTurn(F, N), d, FALSE)
  <2>1. \A t \in 1 .. N : Covers(F[t], T[t], d)
    BY <1>5, <1>9
  <2>2. ASSUME NEW t \in 1 .. N, NEW u \in 1 .. N, NEW a \in T[u], a - d \in T[t]
        PROVE  u = t + b
    <3>1. a \in S(u) /\ a - d \in S(t) /\ a \in Int
      BY <1>7, <1>9, <2>2
    <3>2. (a - d) + d = a
      BY <1>6, <3>1
    <3>3. a \in S(t + b) /\ t + b \in 1 .. wide
      BY <1>7, <3>1, <3>2
    <3>4. QED BY <1>6, <1>8, <3>1, <3>3
  <2>3. QED BY <1>5, <1>6, <2>1, <2>2, InTurnOrdered
<1>12. \A a \in Int : a \in U <=> \E t \in 1 .. N : a \in S(t)
  BY <1>9
<1>13. U \subseteq Addresses /\ \A a \in U : a + d \in Addresses
  BY <1>7, <1>9
<1>14. Wanted(j) = [a \in Addresses |-> IF a \in U THEN a + d ELSE a]
  <2>1. \A a \in Addresses : a \in Int
    BY CopyAssumption DEF Addresses
  <2>2. \A a \in Int : a \in U <=> /\ a >= to /\ (a - to) \div (wide * size) < rs
                                  /\ (a - to) % (wide * size) < N * size
    <3>1. \A a \in Int : (\E t \in 1 .. N : a \in S(t)) <=>
             /\ a >= to /\ (a - to) \div (wide * size) < rs
             /\ (a - to) % (wide * size) < N * size
      BY <1>1, <1>6, WindowTokens DEF S
    <3>2. QED BY <1>12, <3>1
  <2> HIDE DEF U
  <2>3. QED BY <1>2, <1>3, <2>1, <2>2
<1>15. Fulfils(j, U, d)
  <2> HIDE DEF U
  <2>1. QED BY <1>4, <1>6, <1>10, <1>11, <1>13, <1>14 DEF Fulfils
<1>16. QED BY <1>15

\* Token by token, each a copy of its own by the lanes of one tile.
LEMMA ShiftFulfils ==
  ASSUME NEW j \in Jobs, j.kind = "shift"
  PROVE  \E S, d : Fulfils(j, S, d)
<1> DEFINE to == j.to
           size == j.token
           b == j.bias
           N == j.width - j.bias
           d == j.bias * j.token
           at(t) == to + (t - 1) * size
           F == [t \in 1 .. N |-> [l \in Lanes |-> Memcpy(l, at(t) + d, at(t), size, 1)]]
<1>1. /\ to \in Nat /\ size \in Nat \ {0} /\ j.width \in Nat \ {0} /\ j.rows = 1
      /\ b \in 1 .. j.width /\ j.width * size \in Nat \ {0}
  <2>1. /\ to \in Nat /\ size \in Nat \ {0} /\ j.width \in Nat \ {0} /\ j.rows = 1
        /\ b \in 1 .. j.width
    BY CopyAssumption
  <2>2. QED BY <2>1, Positive
<1>2. d = b * size /\ d \in Int /\ 1 \in 1 .. NumTiles /\ N \in Nat
  BY <1>1, Lanes2
<1>3. ASSUME NEW t \in Int
      PROVE  /\ at(t) \in Int /\ (at(t) + d) - at(t) = d
             /\ to + (t - 1 + b) * size = at(t) + d
             /\ at(t + b) = at(t) + d
  <2>1. size \in Int /\ b \in Int /\ to \in Int
    BY <1>1
  <2> HIDE DEF to, size, b
  <2>2. /\ at(t) \in Int /\ to + (t - 1 + b) * size = at(t) + b * size
        /\ at(t + b) = at(t) + b * size
    BY <2>1, LaterPlace
  <2> HIDE DEF at, d
  <2>3. (at(t) + d) - at(t) = d
    BY <1>2, <2>2
  <2>4. QED BY <1>2, <2>2, <2>3
<1>4. Lanewise(j) = InTurn(F, N)
  <2>1. \A l \in Lanes : LaneMoves(l, j) = FlattenSeq(Turn(F, N, l))
    <3>1. SUFFICES ASSUME NEW l \in Lanes PROVE LaneMoves(l, j) = FlattenSeq(Turn(F, N, l))
      OBVIOUS
    <3>2. \A t \in 1 .. N : F[t][l] = Memcpy(l, to + (t - 1 + b) * size, at(t), size, 1)
      <4>1. \A t \in 1 .. N : F[t][l] = Memcpy(l, at(t) + d, at(t), size, 1)
        OBVIOUS
      <4>2. \A t \in 1 .. N : to + (t - 1 + b) * size = at(t) + d
        BY <1>3
      <4> HIDE DEF F, at, d
      <4>3. QED BY <4>1, <4>2
    <3>3. Turn(F, N, l) = [t \in 1 .. N |-> Memcpy(l, to + (t - 1 + b) * size, at(t), size, 1)]
      <4> HIDE DEF F
      <4>1. QED BY <3>2 DEF Turn
    <3>4. LaneMoves(l, j)
            = FlattenSeq([t \in 1 .. N |-> Memcpy(l, to + (t - 1 + b) * size, at(t), size, 1)])
      BY DEF LaneMoves, Shift
    <3>5. QED BY <3>3, <3>4
  <2>2. QED BY <2>1 DEF Lanewise, InTurn
<1>5. ASSUME NEW t \in 1 .. N PROVE Covers(F[t], Tokens(to, size, j.width, j.rows, t), d)
  <2> DEFINE p == at(t)
             k == j.width * size
  <2>1. F[t] = [l \in Lanes |-> Memcpy(l, p + d, p, size, 1)]
    OBVIOUS
  <2>2. p \in Int /\ p + d \in Int /\ (p + d) - p = d
    <3>1. p \in Int
      BY <1>3
    <3> HIDE DEF p, d
    <3>2. QED BY <1>2, <3>1
  <2>3. Tokens(to, size, j.width, j.rows, t) = Strip(p, k, size, 1)
    BY <1>1 DEF Tokens
  <2>4. k \in Int
    BY <1>1
  <2> HIDE DEF F, p, d, k
  <2>5. Strip(p, k, size, 1) = p .. p + size - 1
    BY <1>1, <2>2, <2>4, OneStrip
  <2> DEFINE q == p + d
  <2> HIDE DEF q
  <2>6. Covers([l \in Lanes |-> Memcpy(l, q, p, size, 1)], p .. p + size - 1, q - p)
    BY <1>1, <1>2, <2>2, MemcpyCovers DEF q
  <2>7. QED BY <2>1, <2>2, <2>3, <2>5, <2>6 DEF q
<1>6. ASSUME NEW t \in 1 .. N, NEW u \in 1 .. N, u = t + b, NEW l \in Lanes
      PROVE  Shifted(F[t][l], F[u][l], d)
  <2> DEFINE p == at(t)
             q == at(u)
  <2>1. p \in Int /\ q = p + d
    BY <1>3, <1>6
  <2>2. F[t][l] = Memcpy(l, p + d, p, size, 1) /\ F[u][l] = Memcpy(l, q + d, q, size, 1)
    OBVIOUS
  <2> HIDE DEF F, p, q, d
  <2>3. Shifted(Memcpy(l, p + d, p, size, 1), Memcpy(l, (p + d) + d, p + d, size, 1), d)
    BY <1>1, <1>2, <2>1, MemcpyShifted
  <2>4. QED BY <2>1, <2>2, <2>3
<1> HIDE DEF F
<1>7. \E S : Fulfils(j, S, d)
  BY <1>4, <1>5, <1>6, WindowFulfils
<1>8. QED BY <1>7

LEMMA TimesTimes ==
  ASSUME NEW x \in Int, NEW w \in Int, NEW z \in Int
  PROVE  (x * w) * z = x * (w * z) /\ x * (w * z) \in Int
OBVIOUS

\* A lane of the first tile has every BlockLanes-th row from its own on.
LEMMA RowsOfLane ==
  ASSUME NEW rs \in Nat, NEW l \in Lanes
  PROVE  /\ l[1] = 0 => Mine(l, rs, 1) = AtLeast0(Cdiv(rs - l[2], BlockLanes))
         /\ l[1] # 0 => Mine(l, rs, 1) = 0
         /\ Mine(l, rs, 1) \in Nat
         /\ l[1] = 0 => \A i \in Int : /\ Unit(l, i, rs, 1) = l[2] + (i - 1) * BlockLanes
                                       /\ l[2] + (i - 1) * BlockLanes \in Int
<1>1. /\ l[1] \in Nat /\ l[2] \in Nat /\ BlockLanes \in Nat \ {0} /\ 1 \in 1 .. NumTiles
  BY Lanes2
<1> DEFINE tu == TileUnits(rs, 1)
<1>2. tu \in Nat /\ rs <= tu
  <2>1. tu \in Nat /\ rs <= 1 * tu
    BY <1>1, Tile
  <2> HIDE DEF tu
  <2>2. QED BY <2>1
<1>3. Mine(l, rs, 1) \in Nat
  BY <1>1, UnitsInside
<1>4. l[1] # 0 => Mine(l, rs, 1) = 0
  BY <1>1 DEF Mine
<1>5. ASSUME l[1] = 0
      PROVE  /\ Mine(l, rs, 1) = AtLeast0(Cdiv(rs - l[2], BlockLanes))
             /\ \A i \in Int : /\ Unit(l, i, rs, 1) = l[2] + (i - 1) * BlockLanes
                               /\ l[2] + (i - 1) * BlockLanes \in Int
  <2>1. Start(l, rs, 1) = 0
    BY <1>2, <1>5 DEF Start
  <2>2. Least(0 + tu, rs) - 0 - l[2] = rs - l[2]
    <3> HIDE DEF tu
    <3>1. QED BY <1>1, <1>2 DEF Least
  <2>3. ~(l[1] >= 1)
    BY <1>5
  <2>4. Mine(l, rs, 1) = AtLeast0(Cdiv(Least(0 + tu, rs) - 0 - l[2], BlockLanes))
    BY <2>1, <2>3, Zenon DEF Mine
  <2>5. ASSUME NEW i \in Int
        PROVE  /\ Unit(l, i, rs, 1) = l[2] + (i - 1) * BlockLanes
               /\ l[2] + (i - 1) * BlockLanes \in Int
    <3> DEFINE p == (i - 1) * BlockLanes
    <3>1. p \in Int
      BY <1>1
    <3>2. Unit(l, i, rs, 1) = 0 + l[2] + p
      BY <2>1 DEF Unit
    <3> HIDE DEF p
    <3>3. QED BY <1>1, <3>1, <3>2 DEF p
  <2>6. QED BY <2>2, <2>4, <2>5
<1>6. QED BY <1>3, <1>4, <1>5

\* Token by token, each in every row by the lane that owns the row.
LEMMA RowsFulfils ==
  ASSUME NEW j \in Jobs, j.kind = "rows"
  PROVE  \E S, d : Fulfils(j, S, d)
<1> DEFINE to == j.to
           size == j.token
           wide == j.width
           rs == j.rows
           b == j.bias
           N == j.width - j.bias
           d == j.bias * j.token
           k == j.width * j.token
           at(t) == to + (t - 1) * size
           F == [t \in 1 .. N |-> Spread(rs, 1, at(t), k, size, d)]
<1>1. /\ to \in Nat /\ size \in Nat \ {0} /\ wide \in Nat \ {0} /\ rs \in Nat \ {0}
      /\ b \in 1 .. wide
  BY CopyAssumption
<1>2. d = b * size /\ d \in Int /\ 1 \in 1 .. NumTiles /\ N \in Nat
  BY <1>1, Lanes2
<1>3. k \in Nat /\ size <= k /\ k = wide * size
  <2>1. 1 * size <= wide * size /\ wide * size \in Int /\ 1 * size = size
    BY <1>1, Monotone
  <2>2. QED BY <1>1, <2>1
<1>4. ASSUME NEW t \in Int
      PROVE  /\ at(t) \in Int /\ at(t + b) = at(t) + d
             /\ (t - 1) * size \in Int /\ (t - 1 + b) * size = (t - 1) * size + d
  <2>1. size \in Int /\ b \in Int /\ to \in Int /\ t - 1 \in Int
    BY <1>1
  <2> HIDE DEF to, size, b
  <2>2. /\ at(t) \in Int /\ at(t + b) = at(t) + b * size
    BY <2>1, LaterPlace
  <2>3. (t - 1) * size \in Int /\ (t - 1 + b) * size = (t - 1) * size + b * size
    BY <2>1, Distribute
  <2>4. QED BY <1>2, <2>2, <2>3
<1>5. ASSUME NEW t \in 1 .. N PROVE Covers(F[t], Tokens(to, size, wide, rs, t), d)
  <2> DEFINE p == at(t)
  <2>1. p \in Int
    BY <1>4
  <2>2. F[t] = Spread(rs, 1, p, k, size, d)
    OBVIOUS
  <2>3. Tokens(to, size, wide, rs, t) = Strip(p, k, size, rs)
    BY DEF Tokens
  <2> HIDE DEF F, p, k, d, size, rs
  <2>4. Covers(Spread(rs, 1, p, k, size, d), Strip(p, k, size, rs), d)
    BY <1>1, <1>2, <1>3, <2>1, SpreadCovers
  <2>5. QED BY <2>2, <2>3, <2>4
<1>6. ASSUME NEW t \in 1 .. N, NEW u \in 1 .. N, u = t + b, NEW l \in Lanes
      PROVE  Shifted(F[t][l], F[u][l], d)
  <2> DEFINE p == at(t)
             q == at(u)
             x(i) == Unit(l, i, rs, 1) * k
  <2>1. p \in Int /\ q = p + d
    BY <1>4, <1>6
  <2>2. /\ F[t][l] = [i \in 1 .. Mine(l, rs, 1) |-> Move(p + d + x(i), p + x(i), size)]
        /\ F[u][l] = [i \in 1 .. Mine(l, rs, 1) |-> Move(q + d + x(i), q + x(i), size)]
    BY DEF Spread
  <2>3. \A i \in 1 .. Mine(l, rs, 1) : x(i) \in Int
    <3>1. \A i \in 1 .. Mine(l, rs, 1) : Unit(l, i, rs, 1) \in Int
      BY <1>1, <1>2, UnitsInside
    <3> HIDE DEF k
    <3>2. QED BY <1>3, <3>1
  <2> HIDE DEF F, p, q, d, x
  <2>4. \A i \in 1 .. Mine(l, rs, 1) : q + x(i) = p + x(i) + d
    BY <1>2, <2>1, <2>3
  <2>5. QED BY <2>2, <2>4 DEF Shifted, Move
<1>7. ASSUME NEW t \in 1 .. N, NEW l \in Lanes, l[1] = 0
      PROVE  F[t][l] = [i \in 1 .. AtLeast0(Cdiv(rs - l[2], BlockLanes)) |->
                          LET row == to + (l[2] + (i - 1) * BlockLanes) * wide * size
                          IN  Move(row + (t - 1 + b) * size, row + (t - 1) * size, size)]
  <2>1. F[t][l] = [i \in 1 .. Mine(l, rs, 1) |->
                     Move(at(t) + d + Unit(l, i, rs, 1) * k, at(t) + Unit(l, i, rs, 1) * k, size)]
    BY DEF Spread
  <2>2. Mine(l, rs, 1) = AtLeast0(Cdiv(rs - l[2], BlockLanes)) /\ Mine(l, rs, 1) \in Nat
    BY <1>1, <1>7, RowsOfLane
  <2>3. ASSUME NEW i \in 1 .. Mine(l, rs, 1)
        PROVE  LET row == to + (l[2] + (i - 1) * BlockLanes) * wide * size
               IN  /\ row + (t - 1 + b) * size = at(t) + d + Unit(l, i, rs, 1) * k
                   /\ row + (t - 1) * size = at(t) + Unit(l, i, rs, 1) * k
    <3> DEFINE u == l[2] + (i - 1) * BlockLanes
               x == (t - 1) * size
               y == (t - 1 + b) * size
               z == u * k
    <3>1. Unit(l, i, rs, 1) = u /\ u \in Int
      BY <1>1, <1>7, <2>2, RowsOfLane
    <3>2. x \in Int /\ y = x + d
      BY <1>4
    <3>3. z \in Int /\ (u * wide) * size = z
      <4> HIDE DEF u
      <4>1. QED BY <1>1, <3>1, TimesTimes
    <3>4. at(t) = to + x /\ to \in Int
      BY <1>1
    <3> HIDE DEF x, y, z, u, d, at, to
    <3>5. (to + z) + y = at(t) + d + z /\ (to + z) + x = at(t) + z
      BY <1>2, <3>2, <3>3, <3>4
    <3>6. QED BY <3>1, <3>3, <3>5 DEF x, y, z, u
  <2> HIDE DEF F, at, k, d
  <2>4. QED BY <2>1, <2>2, <2>3
<1>8. ASSUME NEW l \in Lanes PROVE LaneMoves(l, j) = InTurn(F, N)[l]
  <2>1. InTurn(F, N)[l] = FlattenSeq(Turn(F, N, l))
    BY DEF InTurn
  <2>2. LaneMoves(l, j) = RowShift(l, j)
    BY DEF LaneMoves
  <2>3. CASE l[1] = 0
    <3> DEFINE G == [t \in 1 .. N |-> [i \in 1 .. AtLeast0(Cdiv(rs - l[2], BlockLanes)) |->
                        LET row == to + (l[2] + (i - 1) * BlockLanes) * wide * size
                        IN  Move(row + (t - 1 + b) * size, row + (t - 1) * size, size)]]
    <3>1. Turn(F, N, l) = G
      <4> HIDE DEF F
      <4>1. QED BY <1>7, <2>3 DEF Turn
    <3>2. RowShift(l, j) = FlattenSeq(G)
      BY <2>3 DEF RowShift
    <3> HIDE DEF G, F
    <3>3. QED BY <2>1, <2>2, <3>1, <3>2
  <2>4. CASE l[1] # 0
    <3>1. l[1] > 0
      BY <2>4, Lanes2
    <3>2. LaneMoves(l, j) = <<>>
      BY <2>2, <3>1 DEF RowShift
    <3>3. Mine(l, rs, 1) = 0
      BY <1>1, <2>4, RowsOfLane
    <3>4. \A t \in 1 .. N : F[t][l] = <<>>
      BY <3>3 DEF Spread
    <3> DEFINE s == Turn(F, N, l)
    <3>5. s \in [1 .. N -> Seq(MoveT)] /\ \A t \in 1 .. N : s[t] = <<>>
      <4> HIDE DEF F, N
      <4>a. \A t \in 1 .. N : s[t] = F[t][l]
        BY DEF Turn
      <4>b. <<>> \in Seq(MoveT)
        OBVIOUS
      <4>1. \A t \in 1 .. N : s[t] = <<>> /\ s[t] \in Seq(MoveT)
        <5> HIDE DEF s
        <5>1. QED BY <3>4, <4>a, <4>b
      <4>2. s = [t \in 1 .. N |-> s[t]]
        BY DEF Turn
      <4> HIDE DEF s
      <4>3. QED BY <4>1, <4>2
    <3> HIDE DEF s, F, N
    <3>6. PICK p : Placed(FlattenSeq(s), s, p, N, MoveT)
      BY <1>2, <3>5, FlattenPlaces
    <3> DEFINE flat == FlattenSeq(s)
    <3>7. /\ flat \in Seq(MoveT)
          /\ \A x \in DOMAIN flat : \E t \in 1 .. N : x - p[t] \in DOMAIN s[t]
      BY <3>6 DEF Placed
    <3> HIDE DEF flat
    <3>a. \A x \in DOMAIN flat : FALSE
      BY <3>5, <3>7
    <3>8. flat = <<>>
      <4>1. Len(flat) \in Nat /\ DOMAIN flat = 1 .. Len(flat)
        BY <3>7
      <4>2. ~(1 \in 1 .. Len(flat))
        BY <3>a, <4>1
      <4>3. Len(flat) = 0
        BY <4>1, <4>2
      <4>4. QED BY <3>7, <4>3, EmptySeq
    <3>9. QED BY <2>1, <3>2, <3>8 DEF s, flat
  <2>5. QED BY <2>3, <2>4
<1> HIDE DEF F
<1>9. Lanewise(j) = InTurn(F, N)
  BY <1>8 DEF Lanewise, InTurn
<1>10. \E S : Fulfils(j, S, d)
  BY <1>5, <1>6, <1>9, WindowFulfils
<1>11. QED BY <1>10

LEMMA EveryJob ==
  ASSUME NEW j \in Jobs
  PROVE  \E S, d : Fulfils(j, S, d)
<1>1. j.kind \in {"tiled", "batch", "shift", "rows"}
  BY CopyAssumption
<1>2. QED BY <1>1, TiledFulfils, BatchFulfils, ShiftFulfils, RowsFulfils

-----------------------------------------------------------------------------
(* However the lanes interleave.                                           *)

Sources(v) == v.from .. v.from + v.n - 1

\* The lane has read what its k-th move moves.
Loaded(l, k) == k <= done[l] \/ (k = done[l] + 1 /\ held[l] # Nothing)

\* Some move has written address a.
Written(a) == \E l \in Lanes : \E k \in 1 .. done[l] : a \in Targets(plan[l][k])

CopyTyped ==
  /\ job \in Jobs /\ plan = Lanewise(job)
  /\ done \in [Lanes -> Nat] /\ \A l \in Lanes : done[l] <= Len(plan[l])
  /\ DOMAIN held = Lanes

\* What a lane holds is what its source was before the copy.
HeldAsFound ==
  \A l \in Lanes : held[l] # Nothing =>
    /\ done[l] < Len(plan[l])
    /\ held[l] = [i \in 1 .. NextMove(l).n |-> NextMove(l).from + i - 1]

\* A byte is as wanted once written, and as it was until then.
WrittenAsWanted == memory = [a \in Addresses |-> IF Written(a) THEN Wanted(job)[a] ELSE a]

\* What has been overwritten had been read before, by all who read it.
ReadFirst ==
  \A l, m \in Lanes : \A k \in DOMAIN plan[l], i \in 1 .. done[m] :
    Sources(plan[l][k]) \cap Targets(plan[m][i]) # {} => Loaded(l, k)

CopyInv == CopyTyped /\ HeldAsFound /\ WrittenAsWanted /\ ReadFirst

\* The k-th move of a lane.
LEMMA MoveOf ==
  ASSUME CopyTyped, NEW S, NEW d, Fulfils(job, S, d), NEW l \in Lanes
  PROVE  /\ plan[l] \in Seq(MoveT) /\ DOMAIN plan[l] = 1 .. Len(plan[l]) /\ Len(plan[l]) \in Nat
         /\ done[l] \in Nat /\ done[l] <= Len(plan[l])
         /\ \A k \in 1 .. Len(plan[l]) :
              /\ plan[l][k] \in MoveT /\ plan[l][k].from = plan[l][k].to + d
              /\ Targets(plan[l][k]) \subseteq S
              /\ \A a \in Int : a \in Sources(plan[l][k]) => a - d \in Targets(plan[l][k])
<1>1. plan[l] \in Seq(MoveT) /\ done[l] \in Nat /\ done[l] <= Len(plan[l])
  BY DEF CopyTyped, Fulfils, Covers
<1>2. /\ DOMAIN plan[l] = 1 .. Len(plan[l]) /\ Len(plan[l]) \in Nat
      /\ \A k \in 1 .. Len(plan[l]) : plan[l][k] \in MoveT
  BY <1>1
<1>3. \A k \in 1 .. Len(plan[l]) : /\ plan[l][k].from = plan[l][k].to + d
                                   /\ Targets(plan[l][k]) \subseteq S
  BY <1>2 DEF CopyTyped, Fulfils, Covers
<1>4. ASSUME NEW k \in 1 .. Len(plan[l]), NEW a \in Int, a \in Sources(plan[l][k])
      PROVE  a - d \in Targets(plan[l][k])
  <2> DEFINE v == plan[l][k]
  <2>1. v \in MoveT /\ v.from = v.to + d /\ a \in Sources(v) /\ d \in Int
    BY <1>2, <1>3, <1>4 DEF Fulfils
  <2> HIDE DEF v
  <2>2. v.to \in Int /\ v.n \in Nat /\ v.from \in Int
    BY <2>1 DEF MoveT
  <2>3. a - d \in Targets(v)
    BY <2>1, <2>2 DEF Sources, Targets
  <2>4. QED BY <2>3 DEF v
<1>5. QED BY <1>1, <1>2, <1>3, <1>4

LEMMA CopyInit == LaneInit => CopyInv
<1> SUFFICES ASSUME LaneInit PROVE CopyInv
  OBVIOUS
<1>1. job \in Jobs /\ plan = Lanewise(job) /\ done \in [Lanes -> Nat] /\ DOMAIN held = Lanes
      /\ \A l \in Lanes : done[l] = 0 /\ held[l] = Nothing
  BY DEF LaneInit, Lanewise
<1>2. PICK S, d : Fulfils(job, S, d)
  BY <1>1, EveryJob
<1>3. \A l \in Lanes : plan[l] \in Seq(MoveT)
  BY <1>1, <1>2 DEF Fulfils, Covers
<1>4. CopyTyped
  <2>1. \A l \in Lanes : done[l] <= Len(plan[l])
    BY <1>1, <1>3
  <2>2. QED BY <1>1, <2>1 DEF CopyTyped
<1>5. \A l \in Lanes : 1 .. done[l] = {}
  BY <1>1
<1>6. \A a : ~Written(a)
  BY <1>5 DEF Written
<1>7. WrittenAsWanted
  BY <1>6 DEF LaneInit, WrittenAsWanted
<1>8. QED BY <1>1, <1>4, <1>5, <1>7 DEF CopyInv, HeldAsFound, ReadFirst

LEMMA LoadCopy ==
  ASSUME CopyInv, NEW l \in Lanes, Load(l)
  PROVE  CopyInv'
<1>1. PICK S, d : Fulfils(job, S, d)
  BY EveryJob DEF CopyInv, CopyTyped
<1> DEFINE k == done[l] + 1
           v == plan[l][k]
<1>2. /\ done[l] < Len(plan[l]) /\ held[l] = Nothing
      /\ held' = [held EXCEPT ![l] = [i \in 1 .. v.n |-> memory[v.from + i - 1]]]
      /\ job' = job /\ plan' = plan /\ memory' = memory /\ done' = done
  BY DEF Load, NextMove
<1>3. k \in 1 .. Len(plan[l]) /\ k \in DOMAIN plan[l] /\ ~(k <= done[l]) /\ k \in Nat
  BY <1>1, <1>2, MoveOf DEF CopyInv
<1>4. v \in MoveT /\ Targets(v) \subseteq S
      /\ \A a \in Int : a \in Sources(v) => a - d \in Targets(v)
  BY <1>1, <1>3, MoveOf DEF CopyInv
<1>5. ASSUME NEW i \in 1 .. v.n PROVE memory[v.from + i - 1] = v.from + i - 1
  <2> DEFINE a == v.from + i - 1
  <2>1. a \in Int /\ a \in Sources(v)
    <3>1. v.from \in Int /\ v.n \in Nat
      BY <1>4 DEF MoveT
    <3> HIDE DEF v
    <3>2. QED BY <1>5, <3>1 DEF Sources
  <2>2. a - d \in S /\ (a - d) + d = a
    BY <1>1, <1>4, <2>1 DEF Fulfils
  <2>3. a \in Addresses
    BY <1>1, <2>2 DEF Fulfils
  <2>4. ~Written(a)
    <3>1. SUFFICES ASSUME NEW m \in Lanes, NEW y \in 1 .. done[m], a \in Targets(plan[m][y])
                   PROVE  FALSE
      BY DEF Written
    <3>2. Sources(plan[l][k]) \cap Targets(plan[m][y]) # {}
      BY <2>1, <3>1
    <3>3. Loaded(l, k)
      BY <1>3, <3>2 DEF CopyInv, ReadFirst
    <3>4. QED BY <1>2, <1>3, <3>3 DEF Loaded
  <2> HIDE DEF a
  <2>5. memory[a] = a
    BY <2>3, <2>4 DEF CopyInv, WrittenAsWanted
  <2>6. QED BY <2>5 DEF a
<1>6. CopyTyped'
  BY <1>2 DEF CopyInv, CopyTyped
<1>7. held'[l] = [i \in 1 .. v.n |-> v.from + i - 1]
  BY <1>2, <1>5 DEF CopyInv, CopyTyped
<1>8. \A m \in Lanes : m # l => held'[m] = held[m]
  BY <1>2 DEF CopyInv, CopyTyped
<1>9. HeldAsFound'
  <2>1. SUFFICES ASSUME NEW m \in Lanes, held'[m] # Nothing
                 PROVE  /\ done[m] < Len(plan[m])
                        /\ held'[m] = [i \in 1 .. plan[m][done[m] + 1].n |->
                                         plan[m][done[m] + 1].from + i - 1]
    BY <1>2 DEF HeldAsFound, NextMove
  <2>2. CASE m = l
    BY <1>2, <1>7, <2>2
  <2>3. CASE m # l
    BY <1>8, <2>1, <2>3 DEF CopyInv, HeldAsFound, NextMove
  <2>4. QED BY <2>2, <2>3
<1>10. WrittenAsWanted'
  BY <1>2 DEF CopyInv, WrittenAsWanted, Written
<1>11. \A m \in Lanes : \A y : Loaded(m, y) => Loaded(m, y)'
  BY <1>2, <1>8 DEF Loaded
<1>12. ReadFirst'
  BY <1>2, <1>11 DEF CopyInv, ReadFirst
<1>13. QED BY <1>6, <1>9, <1>10, <1>12 DEF CopyInv

LEMMA StoreCopy ==
  ASSUME CopyInv, NEW l \in Lanes, Store(l)
  PROVE  CopyInv'
<1>1. PICK S, d : Fulfils(job, S, d)
  BY EveryJob DEF CopyInv, CopyTyped
<1> DEFINE k == done[l] + 1
           v == plan[l][k]
<1>2. /\ held[l] # Nothing
      /\ Barrier(job) => \A m \in Lanes : Arrived(m, done[l])
      /\ memory' = [a \in Addresses |-> IF a \in v.to .. v.to + v.n - 1
                                        THEN held[l][a - v.to + 1] ELSE memory[a]]
      /\ done' = [done EXCEPT ![l] = @ + 1]
      /\ held' = [held EXCEPT ![l] = Nothing]
      /\ job' = job /\ plan' = plan
  BY DEF Store, NextMove
<1>3. /\ done[l] < Len(plan[l])
      /\ held[l] = [i \in 1 .. v.n |-> v.from + i - 1]
  BY <1>2 DEF CopyInv, HeldAsFound, NextMove
<1>4. k \in 1 .. Len(plan[l]) /\ k \in DOMAIN plan[l] /\ k \in Nat /\ done[l] \in Nat
  BY <1>1, <1>3, MoveOf DEF CopyInv
<1>5. /\ v \in MoveT /\ Targets(v) \subseteq S /\ v.from = v.to + d /\ d \in Int
      /\ v.to \in Int /\ v.n \in Nat
  <2>1. v \in MoveT /\ Targets(v) \subseteq S /\ v.from = v.to + d
    BY <1>1, <1>4, MoveOf DEF CopyInv
  <2>2. d \in Int
    BY <1>1 DEF Fulfils
  <2> HIDE DEF v
  <2>3. v.to \in Int /\ v.n \in Nat
    BY <2>1 DEF MoveT
  <2>4. QED BY <2>1, <2>2, <2>3
<1>6. /\ done'[l] = k /\ held'[l] = Nothing /\ done' \in [Lanes -> Nat] /\ DOMAIN held' = Lanes
      /\ \A m \in Lanes : m # l => done'[m] = done[m] /\ held'[m] = held[m]
  BY <1>2, <1>4 DEF CopyInv, CopyTyped
<1> HIDE DEF k, v
<1>7. \A m \in Lanes : \A y \in 1 .. done'[m] : y \in 1 .. done[m] \/ (m = l /\ y = k)
  <2>1. SUFFICES ASSUME NEW m \in Lanes, NEW y \in 1 .. done'[m], ~(m = l /\ y = k)
                 PROVE  y \in 1 .. done[m]
    OBVIOUS
  <2>2. CASE m = l
    BY <1>4, <1>6, <2>1, <2>2 DEF k
  <2>3. CASE m # l
    BY <1>6, <2>1, <2>3
  <2>4. QED BY <2>2, <2>3
<1>8. \A m \in Lanes : \A y \in 1 .. done[m] : y \in 1 .. done'[m]
  <2>1. \A m \in Lanes : done[m] \in Nat
    BY DEF CopyInv, CopyTyped
  <2>2. QED BY <1>6, <2>1 DEF k
<1>9. CopyTyped'
  <2>1. \A m \in Lanes : done'[m] <= Len(plan[m])
    BY <1>4, <1>6 DEF CopyInv, CopyTyped
  <2>2. QED BY <1>2, <1>6, <2>1 DEF CopyInv, CopyTyped
<1>10. HeldAsFound'
  <2>1. SUFFICES ASSUME NEW m \in Lanes, held'[m] # Nothing
                 PROVE  /\ done'[m] < Len(plan[m])
                        /\ held'[m] = [i \in 1 .. plan[m][done'[m] + 1].n |->
                                         plan[m][done'[m] + 1].from + i - 1]
    BY <1>2 DEF HeldAsFound, NextMove
  <2>2. m # l /\ done'[m] = done[m] /\ held'[m] = held[m]
    BY <1>6, <2>1
  <2>3. QED BY <2>1, <2>2 DEF CopyInv, HeldAsFound, NextMove
<1>11. \A a : Written(a)' <=> Written(a) \/ a \in Targets(v)
  <2>1. ASSUME NEW a, Written(a)' PROVE Written(a) \/ a \in Targets(v)
    <3>1. PICK m \in Lanes : \E y \in 1 .. done'[m] : a \in Targets(plan[m][y])
      BY <1>2, <2>1 DEF Written
    <3>2. PICK y \in 1 .. done'[m] : a \in Targets(plan[m][y])
      BY <3>1
    <3>3. QED BY <1>7, <3>2 DEF Written, v
  <2>2. ASSUME NEW a, Written(a) PROVE Written(a)'
    <3>1. PICK m \in Lanes : \E y \in 1 .. done[m] : a \in Targets(plan[m][y])
      BY <2>2 DEF Written
    <3>2. PICK y \in 1 .. done[m] : a \in Targets(plan[m][y])
      BY <3>1
    <3>3. y \in 1 .. done'[m]
      BY <1>8
    <3>4. QED BY <1>2, <3>2, <3>3 DEF Written
  <2>3. ASSUME NEW a, a \in Targets(v) PROVE Written(a)'
    <3>1. k \in 1 .. done'[l]
      BY <1>4, <1>6
    <3>2. QED BY <1>2, <2>3, <3>1 DEF Written, v
  <2>4. QED BY <2>1, <2>2, <2>3
<1>12. WrittenAsWanted'
  <2>1. SUFFICES ASSUME NEW a \in Addresses
                 PROVE  memory'[a] = IF Written(a)' THEN Wanted(job)[a] ELSE a
    <3>1. DOMAIN memory' = Addresses /\ memory' = [a \in Addresses |-> memory'[a]]
      BY <1>2
    <3>2. memory' = [a \in Addresses |-> IF Written(a)' THEN Wanted(job)[a] ELSE a]
      BY <2>1, <3>1
    <3>3. QED BY <1>2, <3>2 DEF WrittenAsWanted
  <2>2. CASE a \in Targets(v)
    <3>1. a \in v.to .. v.to + v.n - 1 /\ a \in S
      BY <1>5, <2>2 DEF Targets
    <3>2. memory'[a] = held[l][a - v.to + 1]
      BY <1>2, <3>1
    <3>3. a - v.to + 1 \in 1 .. v.n /\ v.from + (a - v.to + 1) - 1 = a + d /\ a \in Int
      BY <1>5, <3>1
    <3>4. held[l][a - v.to + 1] = a + d
      BY <1>3, <3>3
    <3>5. Wanted(job)[a] = a + d
      BY <1>1, <3>1 DEF Fulfils
    <3>6. QED BY <1>11, <2>2, <3>2, <3>4, <3>5
  <2>3. CASE a \notin Targets(v)
    <3>1. memory'[a] = memory[a]
      BY <1>2, <2>3 DEF Targets
    <3>2. QED BY <1>11, <2>3, <3>1 DEF CopyInv, WrittenAsWanted
  <2>4. QED BY <2>2, <2>3
<1>13. \A m \in Lanes : \A y \in Int : Loaded(m, y) => Loaded(m, y)'
  <2>1. SUFFICES ASSUME NEW m \in Lanes, NEW y \in Int, Loaded(m, y) PROVE Loaded(m, y)'
    OBVIOUS
  <2>2. CASE m = l
    BY <1>4, <1>6, <2>1, <2>2 DEF Loaded, k
  <2>3. CASE m # l
    BY <1>6, <2>1, <2>3 DEF Loaded
  <2>4. QED BY <2>2, <2>3
<1>14. ASSUME NEW m \in Lanes, NEW y \in DOMAIN plan[m], Sources(plan[m][y]) \cap Targets(v) # {}
       PROVE  Loaded(m, y)'
  <2>1. PICK a : a \in Sources(plan[m][y]) /\ a \in Targets(v)
    BY <1>14
  <2>2. a \in Int
    BY <1>5, <2>1 DEF Targets
  <2>3. y \in 1 .. Len(plan[m]) /\ Len(plan[m]) \in Nat /\ done[m] \in Nat
    BY <1>1, MoveOf DEF CopyInv
  <2>4. a - d \in Targets(plan[m][y])
    BY <1>1, <2>1, <2>2, <2>3, MoveOf DEF CopyInv
  <2>5. y <= k /\ (m = l \/ Barrier(job))
    <3>1. Ordered(plan, d, Barrier(job))
      BY <1>1 DEF Fulfils, CopyInv, CopyTyped
    <3>2. a \in Targets(plan[l][k])
      BY <2>1 DEF v
    <3>3. QED BY <1>4, <2>4, <3>1, <3>2 DEF Ordered
  <2>6. CASE m = l
    BY <1>6, <2>5, <2>6 DEF Loaded
  <2>7. CASE m # l
    <3>1. Arrived(m, done[l])
      BY <1>2, <2>5, <2>7
    <3>2. Loaded(m, y)
      BY <1>4, <2>3, <2>5, <3>1 DEF Arrived, Loaded, k
    <3>3. y \in Int
      BY <2>3
    <3>4. QED BY <1>13, <3>2, <3>3
  <2>8. QED BY <2>6, <2>7
<1>15. ReadFirst'
  <2>1. SUFFICES ASSUME NEW m \in Lanes, NEW n \in Lanes, NEW y \in DOMAIN plan[m],
                        NEW i \in 1 .. done'[n], Sources(plan[m][y]) \cap Targets(plan[n][i]) # {}
                 PROVE  Loaded(m, y)'
    BY <1>2 DEF ReadFirst
  <2>2. CASE i \in 1 .. done[n]
    <3>1. Loaded(m, y)
      BY <2>1, <2>2 DEF CopyInv, ReadFirst
    <3>2. y \in Int
      BY <1>1, MoveOf DEF CopyInv
    <3>3. QED BY <1>13, <3>1, <3>2
  <2>3. CASE n = l /\ i = k
    BY <1>14, <2>1, <2>3 DEF v
  <2>4. QED BY <1>7, <2>2, <2>3
<1>16. QED BY <1>9, <1>10, <1>12, <1>15 DEF CopyInv

\* A copy leaves in memory what it was asked for, byte by byte, at each moment
\* of each interleaving of its lanes, for any sizes, alignments and lanes.
THEOREM CopyInvariant == LaneSpec => []CopyInv
<1>1. LaneInit => CopyInv
  BY CopyInit
<1>2. ASSUME CopyInv, [LaneNext]_laneVars PROVE CopyInv'
  <2>1. CASE LaneNext
    BY <1>2, <2>1, LoadCopy, StoreCopy DEF LaneNext
  <2>2. CASE UNCHANGED laneVars
    <3>1. job' = job /\ plan' = plan /\ memory' = memory /\ done' = done /\ held' = held
      BY <2>2 DEF laneVars
    <3>2. CopyTyped' /\ HeldAsFound'
      BY <1>2, <3>1 DEF CopyInv, CopyTyped, HeldAsFound, NextMove
    <3>3. WrittenAsWanted'
      BY <1>2, <3>1 DEF CopyInv, WrittenAsWanted, Written
    <3>4. ReadFirst'
      BY <1>2, <3>1 DEF CopyInv, ReadFirst, Loaded
    <3>5. QED BY <3>2, <3>3, <3>4 DEF CopyInv
  <2>3. QED BY <1>2, <2>1, <2>2
<1>3. QED BY <1>1, <1>2, PTL DEF LaneSpec

\* _memcpy_u64_tiled() and the copies built on it write no byte twice, within a
\* lane, between lanes and between tiles.
THEOREM NoByteTwice == LaneSpec => []EveryByteOnce
<1>1. CopyInv => EveryByteOnce
  <2>1. SUFFICES ASSUME CopyInv, NEW l \in Lanes, NEW m \in Lanes,
                        NEW i \in DOMAIN plan[l], NEW k \in DOMAIN plan[m],
                        Targets(plan[l][i]) \cap Targets(plan[m][k]) # {}
                 PROVE  l = m /\ i = k
    BY DEF EveryByteOnce, Targets
  <2>2. PICK S, d : Fulfils(job, S, d)
    BY <2>1, EveryJob DEF CopyInv, CopyTyped
  <2>3. Covers(plan, S, d)
    BY <2>1, <2>2 DEF Fulfils, CopyInv, CopyTyped
  <2>4. PICK a : a \in Targets(plan[l][i]) /\ a \in Targets(plan[m][k])
    BY <2>1
  <2>5. a \in S
    BY <2>3, <2>4 DEF Covers
  <2>6. QED BY <2>3, <2>4, <2>5 DEF Covers
<1>2. QED BY <1>1, CopyInvariant, PTL

\* In place or to another block, aligned or not, with the tiles and lanes in
\* any order: when all are done, memory is what memmove would have left.
THEOREM CopyIsMemmove == LaneSpec => []CopiesAsMemmove
<1>1. CopyInv => CopiesAsMemmove
  <2>1. SUFFICES ASSUME CopyInv, \A l \in Lanes : done[l] = Len(plan[l])
                 PROVE  memory = Wanted(job)
    BY DEF CopiesAsMemmove
  <2>2. PICK S, d : Fulfils(job, S, d)
    BY <2>1, EveryJob DEF CopyInv, CopyTyped
  <2>3. Covers(plan, S, d) /\ Wanted(job) = [a \in Addresses |-> IF a \in S THEN a + d ELSE a]
    BY <2>1, <2>2 DEF Fulfils, CopyInv, CopyTyped
  <2>4. ASSUME NEW a \in S PROVE Written(a)
    <3>1. PICK l \in Lanes : \E k \in DOMAIN plan[l] : a \in Targets(plan[l][k])
      BY <2>3 DEF Covers
    <3>2. PICK k \in DOMAIN plan[l] : a \in Targets(plan[l][k])
      BY <3>1
    <3>3. DOMAIN plan[l] = 1 .. Len(plan[l])
      BY <2>1, <2>2, MoveOf DEF CopyInv
    <3>4. k \in 1 .. done[l]
      BY <2>1, <3>3
    <3>5. QED BY <3>2, <3>4 DEF Written
  <2>5. \A a \in Addresses : (IF Written(a) THEN Wanted(job)[a] ELSE a) = Wanted(job)[a]
    BY <2>3, <2>4
  <2>6. Wanted(job) = [a \in Addresses |-> Wanted(job)[a]]
    BY <2>3
  <2>7. QED BY <2>1, <2>5, <2>6 DEF CopyInv, WrittenAsWanted
<1>2. QED BY <1>1, CopyInvariant, PTL

-----------------------------------------------------------------------------
(* Every state of every mamba layer, as the loops go over them.            *)

Deployed ==
  \E c \in Configs : groups = c.groups /\ dimFirst = c.dimFirst /\ runner = c.runner /\ table = c.table

LayersOf(i) == groups[MambaGroupIds[i]]
StatesOf(i, l) == States[LayersOf(i)[l]]

\* The k-th state of the l-th layer of the i-th mamba group.
AState(i, l, k) ==
  /\ i \in DOMAIN MambaGroupIds /\ l \in DOMAIN LayersOf(i) /\ k \in DOMAIN StatesOf(i, l)

StateT == [conv : BOOLEAN, at : Nat, width : Nat, inner : Nat \ {0}, elem : Nat \ {0}]

MambaGroups == {g \in DOMAIN groups : Range(groups[g]) \subseteq DOMAIN States}

LEMMA Deployment ==
  ASSUME Deployed
  PROVE  /\ runner \in {"list", "v1", "v2"} /\ dimFirst \in BOOLEAN
         /\ groups \in Seq(Seq(DOMAIN States \cup {"attention"}) \ {<<>>})
         /\ \A g \in DOMAIN groups :
              Range(groups[g]) \subseteq DOMAIN States \/ Range(groups[g]) \cap DOMAIN States = {}
         /\ runner = "list" => \A r \in Reqs, g \in DOMAIN groups, col \in InReach :
                                 table[r][g][col + 1] \in 0 .. NumBlocks - 1
         /\ \A r, q \in Reqs, g, h \in DOMAIN groups : <<r, g>> # <<q, h>> =>
              \A i, j \in InReach : table[r][g][i + 1] \in 0 .. NumBlocks - 1 =>
                                      table[r][g][i + 1] # table[q][h][j + 1]
<1>1. PICK c \in Configs :
        groups = c.groups /\ dimFirst = c.dimFirst /\ runner = c.runner /\ table = c.table
  BY DEF Deployed
<1>2. /\ c.runner \in {"list", "v1", "v2"} /\ c.dimFirst \in BOOLEAN
      /\ c.groups \in Seq(Seq(DOMAIN States \cup {"attention"}) \ {<<>>})
      /\ \A g \in DOMAIN c.groups :
           Range(c.groups[g]) \subseteq DOMAIN States \/ Range(c.groups[g]) \cap DOMAIN States = {}
      /\ c.runner = "list" => \A r \in Reqs, g \in DOMAIN c.groups, col \in InReach :
                                c.table[r][g][col + 1] \in 0 .. NumBlocks - 1
  BY BatchAssumption, Zenon DEF Reqs
<1>3. \A r, q \in Reqs, g, h \in DOMAIN c.groups : <<r, g>> # <<q, h>> =>
        \A i, j \in InReach : c.table[r][g][i + 1] \in 0 .. NumBlocks - 1 =>
                                c.table[r][g][i + 1] # c.table[q][h][j + 1]
  BY TablesApart, Zenon DEF Reqs
<1>4. /\ runner \in {"list", "v1", "v2"} /\ dimFirst \in BOOLEAN
      /\ groups \in Seq(Seq(DOMAIN States \cup {"attention"}) \ {<<>>})
      /\ \A g \in DOMAIN groups :
           Range(groups[g]) \subseteq DOMAIN States \/ Range(groups[g]) \cap DOMAIN States = {}
  BY <1>1, <1>2
<1>5. runner = "list" => \A r \in Reqs, g \in DOMAIN groups, col \in InReach :
                           table[r][g][col + 1] \in 0 .. NumBlocks - 1
  BY <1>1, <1>2
<1>6. \A r, q \in Reqs, g, h \in DOMAIN groups : <<r, g>> # <<q, h>> =>
        \A i, j \in InReach : table[r][g][i + 1] \in 0 .. NumBlocks - 1 =>
                                table[r][g][i + 1] # table[q][h][j + 1]
  <2>1. SUFFICES ASSUME NEW r \in Reqs, NEW q \in Reqs, NEW g \in DOMAIN groups,
                        NEW h \in DOMAIN groups, <<r, g>> # <<q, h>>,
                        NEW i \in InReach, NEW j \in InReach,
                        table[r][g][i + 1] \in 0 .. NumBlocks - 1
                 PROVE  table[r][g][i + 1] # table[q][h][j + 1]
    BY Zenon
  <2>2. g \in DOMAIN c.groups /\ h \in DOMAIN c.groups
    BY <1>1
  <2>3. c.table[r][g][i + 1] \in 0 .. NumBlocks - 1
    BY <1>1, <2>1
  <2>4. c.table[r][g][i + 1] # c.table[q][h][j + 1]
    BY <1>3, <2>1, <2>2, <2>3
  <2>5. QED BY <1>1, <2>4
<1>7. QED BY <1>4, <1>5, <1>6

LEMMA GroupIds ==
  ASSUME Deployed
  PROVE  /\ MambaGroupIds \in Seq(Int) /\ ToSet(MambaGroupIds) = MambaGroups
         /\ \A i, j \in DOMAIN MambaGroupIds : MambaGroupIds[i] = MambaGroupIds[j] => i = j
<1>1. groups \in Seq(Seq(DOMAIN States \cup {"attention"}) \ {<<>>})
      /\ \A g \in DOMAIN groups :
           Range(groups[g]) \subseteq DOMAIN States \/ Range(groups[g]) \cap DOMAIN States = {}
  BY Deployment
<1>2. ASSUME NEW g \in DOMAIN groups
      PROVE  (\E spec \in DOMAIN States : g \in GetMambaGroups[spec]) <=> g \in MambaGroups
  <2> DEFINE x == groups[g]
  <2>1. x \in Seq(DOMAIN States \cup {"attention"}) /\ x # <<>>
    BY <1>1
  <2> HIDE DEF x
  <2>2. 1 \in DOMAIN x /\ Head(x) = x[1] /\ DOMAIN x = 1 .. Len(x) /\ Head(x) \in Range(x)
    BY <2>1 DEF Range
  <2>3. \A spec : Contains(x, spec) <=> spec \in Range(x)
    BY <2>2 DEF Contains, Range
  <2>4. Range(x) \subseteq DOMAIN States \/ Range(x) \cap DOMAIN States = {}
    BY <1>1 DEF x
  <2>5. \A spec \in DOMAIN States : g \in GetMambaGroups[spec]
                                      <=> Head(x) \in DOMAIN States /\ Contains(x, spec)
    BY DEF GetMambaGroups, x
  <2>6. g \in MambaGroups <=> Range(x) \subseteq DOMAIN States
    BY DEF MambaGroups, x
  <2>7. QED BY <2>2, <2>3, <2>4, <2>5, <2>6
<1>3. \A spec \in DOMAIN States : GetMambaGroups[spec] \subseteq DOMAIN groups
  BY DEF GetMambaGroups
<1>4. UNION {GetMambaGroups[spec] : spec \in DOMAIN States} = MambaGroups
  <2>1. MambaGroups \subseteq DOMAIN groups
    BY DEF MambaGroups
  <2> HIDE DEF MambaGroups
  <2>2. QED BY <1>2, <1>3, <2>1
<1>5. MambaGroups \in SUBSET Int /\ IsFiniteSet(MambaGroups)
  <2>1. Len(groups) \in Nat /\ DOMAIN groups = 1 .. Len(groups)
    BY <1>1
  <2>2. IsFiniteSet(1 .. Len(groups)) /\ 1 .. Len(groups) \subseteq Int
    BY <2>1, FS_Interval
  <2>3. MambaGroups \in SUBSET (1 .. Len(groups))
    BY <2>1 DEF MambaGroups
  <2>4. QED BY <2>2, <2>3, FS_Subset
<1>6. MambaGroupIds = Sorted(MambaGroups)
  BY <1>4 DEF MambaGroupIds
<1>7. QED BY <1>5, <1>6, SortedSet

\* Where the loops come, and what is there.
LEMMA Layers ==
  ASSUME Deployed, NEW i \in DOMAIN MambaGroupIds
  PROVE  /\ MambaGroupIds[i] \in DOMAIN groups /\ LayersOf(i) \in Seq(DOMAIN States)
         /\ \A l \in DOMAIN LayersOf(i) :
              /\ l \in Nat \ {0} /\ LayersOf(i)[l] \in DOMAIN States
              /\ StatesOf(i, l) \in Seq(StateT)
<1>1. MambaGroupIds[i] \in MambaGroups
  BY GroupIds DEF ToSet
<1> DEFINE g == MambaGroupIds[i] x == groups[g]
<1>2. g \in DOMAIN groups /\ Range(x) \subseteq DOMAIN States
  BY <1>1 DEF MambaGroups
<1>3. x \in Seq(DOMAIN States \cup {"attention"})
  BY <1>2, Deployment
<1> HIDE DEF x
<1>4. Len(x) \in Nat /\ DOMAIN x = 1 .. Len(x) /\ x \in Seq(DOMAIN States)
  <2>1. \A l \in DOMAIN x : x[l] \in DOMAIN States
    BY <1>2 DEF Range
  <2>2. Len(x) \in Nat /\ DOMAIN x = 1 .. Len(x) /\ x = [l \in 1 .. Len(x) |-> x[l]]
    BY <1>3
  <2>3. x \in [1 .. Len(x) -> DOMAIN States]
    BY <2>1, <2>2
  <2>4. QED BY <2>2, <2>3
<1>5. \A l \in DOMAIN x : l \in Nat \ {0} /\ x[l] \in DOMAIN States
  BY <1>4
<1>6. \A spec \in DOMAIN States : States[spec] \in Seq(StateT)
  BY BatchAssumption, Zenon DEF StateT
<1>7. QED BY <1>2, <1>4, <1>5, <1>6 DEF x, LayersOf, StatesOf

-----------------------------------------------------------------------------
(* The bytes of a state.                                                   *)

\* The cells of A rows of B, row after row.
LEMMA Grid ==
  ASSUME NEW A \in Int, NEW B \in Nat \ {0}
  PROVE  /\ \A x \in 0 .. A - 1, y \in 0 .. B - 1 : x * B + y \in 0 .. A * B - 1
         /\ \A n \in 0 .. A * B - 1 : /\ n \div B \in 0 .. A - 1 /\ n % B \in 0 .. B - 1
                                      /\ n = (n \div B) * B + (n % B)
<1> DEFINE p == A * B
<1>1. p \in Int
  OBVIOUS
<1>2. ASSUME NEW x \in 0 .. A - 1, NEW y \in 0 .. B - 1 PROVE x * B + y \in 0 .. p - 1
  <2> DEFINE u == x * B
  <2>1. u \in Int /\ 0 <= u
    BY Monotone
  <2>2. u + B <= p
    <3>1. (x + 1) * B <= A * B /\ (x + 1) * B = x * B + 1 * B
      BY Monotone, Distribute
    <3>2. 1 * B = B
      OBVIOUS
    <3> DEFINE v == (x + 1) * B
    <3>3. v <= p /\ v = u + B
      BY <3>1, <3>2
    <3> HIDE DEF v, u, p
    <3>4. QED BY <3>3
  <2> HIDE DEF u, p
  <2>3. QED BY <1>1, <2>1, <2>2 DEF u
<1>3. ASSUME NEW n \in 0 .. p - 1
      PROVE  /\ n \div B \in 0 .. A - 1 /\ n % B \in 0 .. B - 1
             /\ n = (n \div B) * B + (n % B)
  <2> DEFINE q == n \div B
             u == q * B
  <2>1. n \in Int /\ 0 <= n /\ n < p
    BY <1>1
  <2>2. q \in Int /\ u \in Int /\ u <= n /\ n < u + B /\ n % B \in 0 .. B - 1 /\ n = u + (n % B)
    BY <2>1, Div, Rem
  <2> HIDE DEF q
  <2>3. q >= A => p <= u
    BY <2>2, Monotone
  <2>4. q <= -1 => u <= (-1) * B
    BY <2>2, Monotone
  <2>5. (-1) * B = -B
    OBVIOUS
  <2> HIDE DEF u, p
  <2>6. q \in Int /\ u \in Int /\ u <= n /\ n < u + B
    BY <2>2
  <2>7. ~(q >= A) /\ ~(q <= -1)
    BY <1>1, <2>1, <2>3, <2>4, <2>5, <2>6
  <2>8. q \in 0 .. A - 1
    BY <2>6, <2>7
  <2>9. QED BY <2>2, <2>8 DEF u, q
<1>4. QED BY <1>2, <1>3

LEMMA InRegion ==
  ASSUME NEW a \in Int, NEW b \in Int, NEW n \in Int, NEW c
  PROVE  c \in Region(a, b, n) <=> \E y \in 0 .. n - 1 : c = <<a + y, b + y>>
BY DEF Region

\* A region is its cells, z bytes each.
InCell(c, A, B, z, a, b) ==
  \E x \in 0 .. A - 1, y \in 0 .. B - 1, o \in 0 .. z - 1 :
    c = <<a + ((x * B + y) * z + o), b + ((x * B + y) * z + o)>>

LEMMA RegionCells ==
  ASSUME NEW A \in Int, NEW B \in Nat \ {0}, NEW z \in Nat \ {0}, NEW a \in Int, NEW b \in Int, NEW c
  PROVE  c \in Region(a, b, (A * B) * z) <=> InCell(c, A, B, z, a, b)
<1> DEFINE p == A * B
           w == p * z
<1>1. p \in Int /\ w \in Int
  OBVIOUS
<1>2. c \in Region(a, b, w) <=> \E n \in 0 .. w - 1 : c = <<a + n, b + n>>
  <2> HIDE DEF w, p
  <2>1. QED BY <1>1 DEF Region
<1>3. ASSUME NEW x \in 0 .. A - 1, NEW y \in 0 .. B - 1, NEW o \in 0 .. z - 1
      PROVE  (x * B + y) * z + o \in 0 .. w - 1
  <2> DEFINE u == x * B + y
  <2>1. u \in 0 .. p - 1
    BY Grid
  <2> HIDE DEF u, p
  <2>2. u * z + o \in 0 .. p * z - 1
    BY <1>1, <2>1, Grid
  <2>3. QED BY <2>2 DEF u
<1>4. ASSUME NEW n \in 0 .. w - 1
      PROVE  \E x \in 0 .. A - 1, y \in 0 .. B - 1, o \in 0 .. z - 1 : n = (x * B + y) * z + o
  <2> DEFINE u == n \div z x == u \div B y == u % B
  <2>1. u \in 0 .. p - 1 /\ n % z \in 0 .. z - 1 /\ n = u * z + (n % z)
    <3> HIDE DEF p
    <3>1. QED BY <1>1, Grid
  <2> HIDE DEF u
  <2>2. x \in 0 .. A - 1 /\ y \in 0 .. B - 1 /\ u = x * B + y
    BY <2>1, Grid
  <2> HIDE DEF x, y
  <2>3. n = (x * B + y) * z + (n % z)
    BY <2>1, <2>2
  <2>4. QED BY <2>1, <2>2, <2>3
<1> HIDE DEF p, w
<1>5. ASSUME NEW x \in 0 .. A - 1, NEW y \in 0 .. B - 1, NEW o \in 0 .. z - 1,
             c = <<a + ((x * B + y) * z + o), b + ((x * B + y) * z + o)>>
      PROVE  c \in Region(a, b, w)
  <2> DEFINE n == (x * B + y) * z + o
  <2>1. n \in 0 .. w - 1 /\ c = <<a + n, b + n>>
    BY <1>3, <1>5
  <2> HIDE DEF n
  <2>2. QED BY <1>2, <2>1
<1>6. ASSUME c \in Region(a, b, w)
      PROVE  \E x \in 0 .. A - 1, y \in 0 .. B - 1, o \in 0 .. z - 1 :
               c = <<a + ((x * B + y) * z + o), b + ((x * B + y) * z + o)>>
  <2>1. PICK n \in 0 .. w - 1 : c = <<a + n, b + n>>
    BY <1>2, <1>6
  <2>2. PICK x \in 0 .. A - 1, y \in 0 .. B - 1, o \in 0 .. z - 1 : n = (x * B + y) * z + o
    BY <1>4
  <2>3. c = <<a + ((x * B + y) * z + o), b + ((x * B + y) * z + o)>>
    BY <2>1, <2>2, Zenon
  <2>4. QED BY <2>3, Zenon
<1>7. QED BY <1>5, <1>6 DEF w, p, InCell

\* Where a block of a layer starts, for a state; which element of it is which;
\* how a move goes.
BlockAt(l, s, b) == Base(l, s) + b * Page
Spot(s, t, e) ==
  IF ~s.conv THEN e ELSE IF dimFirst THEN e * s.width + t ELSE t * s.inner + e
From(s, blocks, src, bias) == blocks[src + 1 + (IF s.conv THEN 0 ELSE bias)]
ShiftOf(s, bias) == IF s.conv THEN bias ELSE 0
TokensOf(s, bias) == IF s.conv THEN s.width - ShiftOf(s, bias) ELSE 1
InPool(b) == b \in 0 .. NumBlocks - 1

LEMMA Origin ==
  ASSUME NEW l \in Nat \ {0}, NEW s \in StateT, NEW b \in Int
  PROVE  /\ Base(l, s) \in Int /\ BlockAt(l, s, b) \in Int
         /\ BlockAt(l, s, b) = ((l - 1) * NumBlocks + b) * Page + s.at
<1>1. Page \in Nat \ {0} /\ NumBlocks \in Nat \ {0} /\ s.at \in Nat /\ l - 1 \in Int
  BY Sizes DEF StateT
<1> DEFINE k == (l - 1) * NumBlocks
           at == s.at
<1>2. k \in Int
  BY <1>1
<1>3. BlockAt(l, s, b) = (k * Page + at) + b * Page /\ Base(l, s) = k * Page + at
  BY DEF BlockAt, Base
<1> HIDE DEF k, at
<1>4. (k + b) * Page = k * Page + b * Page /\ k * Page \in Int /\ b * Page \in Int
  BY <1>1, <1>2, Distribute
<1> DEFINE u == k * Page v == b * Page w == (k + b) * Page
<1>5. w = u + v /\ u \in Int /\ v \in Int /\ at \in Int
  BY <1>1, <1>4 DEF at
<1>6. BlockAt(l, s, b) = (u + at) + v /\ Base(l, s) = u + at
  BY <1>3
<1> HIDE DEF u, v, w
<1>7. Base(l, s) \in Int /\ BlockAt(l, s, b) \in Int /\ BlockAt(l, s, b) = w + at
  BY <1>5, <1>6
<1>8. QED BY <1>7 DEF w, k, at

LEMMA Spots ==
  ASSUME dimFirst \in BOOLEAN, NEW s \in StateT, NEW t \in Int, NEW e \in Int
  PROVE  Spot(s, t, e) \in Int /\ Spot(s, t, e) * s.elem \in Int
<1>1. s.width \in Int /\ s.inner \in Int /\ s.elem \in Int
  BY DEF StateT
<1>2. e * s.width \in Int /\ t * s.inner \in Int
  BY <1>1
<1>3. Spot(s, t, e) \in Int
  BY <1>2 DEF Spot
<1>4. QED BY <1>1, <1>3

\* A move of one state, byte by byte.
LEMMA MeantBytes ==
  ASSUME dimFirst \in BOOLEAN, NEW l \in Nat \ {0}, NEW s \in StateT, NEW blocks, NEW src, NEW dst,
         NEW bias \in Nat, NEW c
  PROVE  c \in MeantState(l, s, blocks, src, dst, bias) <=>
           /\ InPool(blocks[dst + 1]) /\ InPool(From(s, blocks, src, bias))
           /\ \E t \in 0 .. TokensOf(s, bias) - 1, e \in 0 .. s.inner - 1, o \in 0 .. s.elem - 1 :
                c = <<BlockAt(l, s, blocks[dst + 1]) + (Spot(s, t, e) * s.elem + o),
                      BlockAt(l, s, From(s, blocks, src, bias))
                        + (Spot(s, t + ShiftOf(s, bias), e) * s.elem + o)>>
<1> DEFINE to == blocks[dst + 1]
           from == From(s, blocks, src, bias)
           shift == ShiftOf(s, bias)
           T == 0 .. TokensOf(s, bias) - 1
           E == 0 .. s.inner - 1
           A(b, t, e) == BlockAt(l, s, b) + Spot(s, t, e) * s.elem
           M == UNION {Region(A(to, t, e), A(from, t + shift, e), s.elem) : t \in T, e \in E}
<1>1. MeantState(l, s, blocks, src, dst, bias) = IF InPool(to) /\ InPool(from) THEN M ELSE {}
  <2>1. CASE s.conv
    BY <2>1 DEF MeantState, Element, BlockAt, Spot, From, ShiftOf, TokensOf, InPool
  <2>2. CASE ~s.conv
    BY <2>2 DEF MeantState, Element, BlockAt, Spot, From, ShiftOf, TokensOf, InPool
  <2>3. QED BY <2>1, <2>2
<1>2. ASSUME InPool(to), InPool(from)
      PROVE  c \in M <=> \E t \in T, e \in E, o \in 0 .. s.elem - 1 :
               c = <<BlockAt(l, s, to) + (Spot(s, t, e) * s.elem + o),
                     BlockAt(l, s, from) + (Spot(s, t + shift, e) * s.elem + o)>>
  <2>1. /\ BlockAt(l, s, to) \in Int /\ BlockAt(l, s, from) \in Int
        /\ shift \in Int /\ s.elem \in Int
    <3>1. to \in Int /\ from \in Int
      BY <1>2, Sizes DEF InPool
    <3>2. QED BY <3>1, Origin DEF ShiftOf, StateT
  <2>2. ASSUME NEW t \in T, NEW e \in E
        PROVE  c \in Region(A(to, t, e), A(from, t + shift, e), s.elem) <=>
                 \E o \in 0 .. s.elem - 1 :
                   c = <<BlockAt(l, s, to) + (Spot(s, t, e) * s.elem + o),
                         BlockAt(l, s, from) + (Spot(s, t + shift, e) * s.elem + o)>>
    <3> DEFINE x == BlockAt(l, s, to) y == BlockAt(l, s, from)
               u == Spot(s, t, e) * s.elem v == Spot(s, t + shift, e) * s.elem z == s.elem
    <3>1. x \in Int /\ y \in Int /\ u \in Int /\ v \in Int /\ z \in Int
      <4>1. t \in Int /\ e \in Int /\ t + shift \in Int
        BY <2>1
      <4>2. QED BY <2>1, <4>1, Spots
    <3>2. A(to, t, e) = x + u /\ A(from, t + shift, e) = y + v
      OBVIOUS
    <3> HIDE DEF x, y, u, v, z, A
    <3>3. c \in Region(x + u, y + v, z) <=> \E o \in 0 .. z - 1 : c = <<x + u + o, y + v + o>>
      BY <3>1 DEF Region
    <3>4. \A o \in 0 .. z - 1 : x + u + o = x + (u + o) /\ y + v + o = y + (v + o)
      BY <3>1
    <3>5. c \in Region(x + u, y + v, z) <=> \E o \in 0 .. z - 1 : c = <<x + (u + o), y + (v + o)>>
      BY <3>3, <3>4
    <3>6. QED BY <3>2, <3>5 DEF x, y, u, v, z
  <2> DEFINE R(t, e) == Region(A(to, t, e), A(from, t + shift, e), s.elem)
  <2>3. c \in M <=> \E t \in T, e \in E : c \in R(t, e)
    <3>1. M = UNION {R(t, e) : t \in T, e \in E}
      OBVIOUS
    <3> HIDE DEF R, M, T, E
    <3>2. QED BY <3>1
  <2> HIDE DEF M, T, E
  <2>4. QED BY <2>2, <2>3
<1>3. QED BY <1>1, <1>2

\* A program of the grid makes the move of its state, in either layout.
LEMMA ProgramMeant ==
  ASSUME dimFirst \in BOOLEAN, NEW l \in Nat \ {0}, NEW s \in StateT, s.conv => s.width > 0,
         NEW i, NEW blocks, NEW src, NEW dst, NEW bias \in Nat
  PROVE  Program(Describe(i, l, s), blocks, src, dst, bias) = MeantState(l, s, blocks, src, dst, bias)
<1> DEFINE m == Describe(i, l, s)
           to == blocks[dst + 1]
           from == From(s, blocks, src, bias)
           a == BlockAt(l, s, to)
           b == BlockAt(l, s, from)
           P == Program(m, blocks, src, dst, bias)
           M == MeantState(l, s, blocks, src, dst, bias)
           W == s.width
           I == s.inner
           z == s.elem
<1>1. W \in Nat /\ I \in Nat \ {0} /\ z \in Nat \ {0} /\ s.conv \in BOOLEAN /\ (s.conv => W \in Nat \ {0})
  BY DEF StateT
<1>2. /\ m.base = Base(l, s) /\ m.stride = Page /\ m.elem = z /\ m.blocks = NumBlocks
      /\ m.width = (IF s.conv THEN W ELSE 0) /\ m.inner = (IF s.conv /\ dimFirst THEN 1 ELSE I)
      /\ m.rows = (IF s.conv /\ dimFirst THEN I ELSE 0) /\ m.rowStride = W * z
  BY DEF Describe
<1>3. m.width > 0 <=> s.conv
  BY <1>1, <1>2
<1> HIDE DEF m
<1>4. P = IF ~(InPool(to) /\ InPool(from)) THEN {}
          ELSE IF s.conv /\ dimFirst THEN
            UNION {Region(a + r * (W * z) + t * z, b + r * (W * z) + (t + bias) * z, z) :
                   r \in 0 .. I - 1, t \in 0 .. W - bias - 1}
          ELSE IF s.conv THEN Region(a, b + bias * I * z, (W - bias) * I * z)
          ELSE Region(a, b, I * z)
  <2>1. CASE s.conv /\ dimFirst
    <3> DEFINE at(x) == m.base + x * m.stride
    <3>1. P = IF ~(Valid(m, to) /\ Valid(m, from)) THEN {}
              ELSE UNION {Region(at(to) + r * m.rowStride + t * m.elem,
                                 at(from) + r * m.rowStride + (t + bias) * m.elem, m.elem) :
                          r \in 0 .. m.rows - 1, t \in 0 .. m.width - bias - 1}
      BY <1>3, <2>1 DEF Program, From
    <3>2. /\ Valid(m, to) <=> InPool(to)
          /\ Valid(m, from) <=> InPool(from)
          /\ at(to) = a /\ at(from) = b
          /\ m.rowStride = W * z /\ m.elem = z /\ m.rows = I /\ m.width = W
      BY <1>2, <2>1 DEF Valid, InPool, BlockAt
    <3> HIDE DEF at, a, b, to, from, W, I, z, P
    <3>3. QED BY <2>1, <3>1, <3>2
  <2>2. CASE s.conv /\ ~dimFirst
    BY <1>2, <1>3, <2>2 DEF Program, Valid, InPool, From, BlockAt
  <2>3. CASE ~s.conv
    BY <1>2, <1>3, <2>3 DEF Program, Valid, InPool, From, BlockAt
  <2>4. QED BY <2>1, <2>2, <2>3
<1>5. ASSUME NEW c
      PROVE  c \in M <=>
           /\ InPool(to) /\ InPool(from)
           /\ \E t \in 0 .. TokensOf(s, bias) - 1, e \in 0 .. I - 1, o \in 0 .. z - 1 :
                c = <<a + (Spot(s, t, e) * z + o), b + (Spot(s, t + ShiftOf(s, bias), e) * z + o)>>
  BY MeantBytes
<1>6. InPool(to) /\ InPool(from) => a \in Int /\ b \in Int
  <2>1. InPool(to) /\ InPool(from) => to \in Int /\ from \in Int
    BY Sizes DEF InPool
  <2>2. QED BY <2>1, Origin
<1> HIDE DEF P, M, a, b, to, from, W, I, z
<1>7. CASE ~(InPool(to) /\ InPool(from))
  <2>1. P = {} /\ \A c : c \notin M
    BY <1>4, <1>5, <1>7
  <2>2. QED BY <2>1 DEF P, M, m
<1>8. CASE InPool(to) /\ InPool(from) /\ s.conv /\ dimFirst
  <2>1. ASSUME NEW c PROVE c \in P <=> \E t \in 0 .. W - bias - 1, e \in 0 .. I - 1, o \in 0 .. z - 1 :
           c = <<a + ((e * W + t) * z + o), b + ((e * W + (t + bias)) * z + o)>>
    <3> DEFINE R(e, t) == Region(a + e * (W * z) + t * z, b + e * (W * z) + (t + bias) * z, z)
               E == 0 .. I - 1
               T == 0 .. W - bias - 1
    <3>1. ASSUME NEW e \in E, NEW t \in T
          PROVE  c \in R(e, t) <=> \E o \in 0 .. z - 1 :
                   c = <<a + ((e * W + t) * z + o), b + ((e * W + (t + bias)) * z + o)>>
      <4>1. e \in Int /\ t \in Int /\ t + bias \in Int /\ W \in Int /\ z \in Int /\ e * W \in Int
        BY <1>1
      <4>2. /\ (e * W + t) * z = (e * W) * z + t * z
            /\ (e * W + (t + bias)) * z = (e * W) * z + (t + bias) * z
            /\ (e * W) * z \in Int /\ t * z \in Int /\ (t + bias) * z \in Int
        BY <4>1, Distribute
      <4>3. (e * W) * z = e * (W * z)
        BY <4>1, TimesTimes
      <4> DEFINE u == e * (W * z) v == t * z w == (t + bias) * z
                 p == (e * W + t) * z q == (e * W + (t + bias)) * z
      <4>4. u \in Int /\ v \in Int /\ w \in Int /\ p = u + v /\ q = u + w /\ R(e, t) = Region(a + u + v, b + u + w, z)
        BY <4>2, <4>3
      <4> HIDE DEF u, v, w, p, q, R
      <4>5. c \in R(e, t) <=> \E o \in 0 .. z - 1 : c = <<(a + u + v) + o, (b + u + w) + o>>
        BY <4>4, <1>6, <1>8, <1>1 DEF Region
      <4>6. \A o \in 0 .. z - 1 : (a + u + v) + o = a + (p + o) /\ (b + u + w) + o = b + (q + o)
        BY <1>6, <1>8, <1>1, <4>4
      <4>7. c \in R(e, t) <=> \E o \in 0 .. z - 1 : c = <<a + (p + o), b + (q + o)>>
        BY <4>5, <4>6
      <4>8. QED BY <4>7 DEF p, q
    <3>2. P = UNION {R(e, t) : e \in E, t \in T}
      BY <1>4, <1>8
    <3> HIDE DEF R, E, T
    <3>3. c \in P <=> \E e \in E, t \in T : c \in R(e, t)
      BY <3>2
    <3>4. QED BY <3>1, <3>3 DEF E, T
  <2>2. ShiftOf(s, bias) = bias /\ TokensOf(s, bias) = W - bias
    BY <1>8 DEF ShiftOf, TokensOf, W
  <2>3. \A t, e : Spot(s, t, e) = e * W + t
    BY <1>8 DEF Spot, W
  <2>4. \A c : c \in P <=> c \in M
    BY <1>5, <1>8, <2>1, <2>2, <2>3
  <2>5. QED BY <2>4 DEF P, M, m
<1>9. CASE InPool(to) /\ InPool(from) /\ s.conv /\ ~dimFirst
  <2> DEFINE A == W - bias
             d == bias * I * z
  <2>1. A \in Int /\ bias * I \in Int /\ d \in Int
    BY <1>1
  <2>2. P = Region(a, b + d, (A * I) * z)
    BY <1>4, <1>9
  <2> HIDE DEF A, d
  <2>3. ASSUME NEW c PROVE c \in P <=> \E t \in 0 .. A - 1, e \in 0 .. I - 1, o \in 0 .. z - 1 :
           c = <<a + ((t * I + e) * z + o), (b + d) + ((t * I + e) * z + o)>>
    <3> DEFINE y == b + d
    <3>1. y \in Int /\ a \in Int
      BY <1>6, <1>9, <2>1
    <3> HIDE DEF y
    <3>2. c \in Region(a, y, (A * I) * z) <=> InCell(c, A, I, z, a, y)
      BY <1>1, <2>1, <3>1, RegionCells, Zenon
    <3>3. QED BY <2>2, <3>2 DEF y, InCell
  <2>4. ASSUME NEW t \in 0 .. A - 1, NEW e \in 0 .. I - 1, NEW o \in 0 .. z - 1
        PROVE  (b + d) + ((t * I + e) * z + o) = b + (((t + bias) * I + e) * z + o)
    <3>1. t \in Int /\ e \in Int /\ o \in Int /\ z \in Int /\ I \in Int /\ bias \in Int /\ b \in Int
      BY <1>1, <1>6, <1>9, <2>1
    <3> DEFINE u == t * I v == bias * I w == (t + bias) * I
    <3>2. w = u + v /\ u \in Int /\ v \in Int
      BY <3>1, Distribute
    <3>3. d = v * z
      BY DEF d
    <3> HIDE DEF u, v, w
    <3>4. (w + e) = (u + e) + v
      BY <3>1, <3>2
    <3>5. ((u + e) + v) * z = (u + e) * z + v * z /\ (u + e) * z \in Int /\ v * z \in Int
      <4> DEFINE k == u + e
      <4>1. k \in Int
        BY <3>1, <3>2
      <4> HIDE DEF k
      <4>2. (k + v) * z = k * z + v * z /\ k * z \in Int /\ v * z \in Int
        BY <3>1, <3>2, <4>1, Distribute
      <4>3. QED BY <4>2 DEF k
    <3> DEFINE g == (u + e) * z h == (w + e) * z
    <3>6. h = g + d /\ g \in Int
      BY <3>3, <3>4, <3>5
    <3> HIDE DEF g, h
    <3>7. (b + d) + (g + o) = b + (h + o)
      BY <2>1, <3>1, <3>6
    <3>8. QED BY <3>7 DEF g, h, u, w
  <2>5. ShiftOf(s, bias) = bias /\ TokensOf(s, bias) = A
    BY <1>9 DEF ShiftOf, TokensOf, A, W
  <2>6. \A t, e : Spot(s, t, e) = t * I + e
    BY <1>9 DEF Spot, I
  <2>7. ASSUME NEW c PROVE c \in P <=> \E t \in 0 .. A - 1, e \in 0 .. I - 1, o \in 0 .. z - 1 :
           c = <<a + ((t * I + e) * z + o), b + (((t + bias) * I + e) * z + o)>>
    <3>1. ASSUME NEW t \in 0 .. A - 1, NEW e \in 0 .. I - 1, NEW o \in 0 .. z - 1
          PROVE  c = <<a + ((t * I + e) * z + o), (b + d) + ((t * I + e) * z + o)>>
                   <=> c = <<a + ((t * I + e) * z + o), b + (((t + bias) * I + e) * z + o)>>
      BY <2>4, Zenon
    <3>2. QED BY <2>3, <3>1
  <2>8. ASSUME NEW c PROVE c \in P <=> c \in M
    <3>1. c \in M <=> \E t \in 0 .. A - 1, e \in 0 .. I - 1, o \in 0 .. z - 1 :
                        c = <<a + ((t * I + e) * z + o), b + (((t + bias) * I + e) * z + o)>>
      BY <1>5, <1>9, <2>5, <2>6
    <3>2. QED BY <2>7, <3>1
  <2>9. QED BY <2>8 DEF P, M, m
<1>10. CASE InPool(to) /\ InPool(from) /\ ~s.conv
  <2>1. P = Region(a, b, (1 * I) * z)
    <3>1. 1 * I = I
      BY <1>1
    <3>2. QED BY <1>4, <1>10, <3>1
  <2>2. ASSUME NEW c PROVE c \in P <=> \E x \in 0 .. 1 - 1, e \in 0 .. I - 1, o \in 0 .. z - 1 :
           c = <<a + ((x * I + e) * z + o), b + ((x * I + e) * z + o)>>
    <3>1. a \in Int /\ b \in Int /\ 1 \in Int
      BY <1>6, <1>10
    <3>2. c \in Region(a, b, (1 * I) * z) <=> InCell(c, 1, I, z, a, b)
      BY <1>1, <3>1, RegionCells, Zenon
    <3>3. QED BY <2>1, <3>2, Zenon DEF InCell
  <2>3. \A x \in 0 .. 1 - 1, e \in 0 .. I - 1 : x * I + e = e
    BY <1>1
  <2>4. ShiftOf(s, bias) = 0 /\ TokensOf(s, bias) = 1 /\ \A t, e : Spot(s, t, e) = e
    BY <1>10 DEF ShiftOf, TokensOf, Spot
  <2>5. ASSUME NEW c PROVE c \in P <=> c \in M
    <3>1. c \in M <=> \E t \in 0 .. 1 - 1, e \in 0 .. I - 1, o \in 0 .. z - 1 :
                        c = <<a + (e * z + o), b + (e * z + o)>>
      BY <1>5, <1>10, <2>4
    <3>2. c \in P <=> \E t \in 0 .. 1 - 1, e \in 0 .. I - 1, o \in 0 .. z - 1 :
                        c = <<a + (e * z + o), b + (e * z + o)>>
      BY <2>2, <2>3
    <3>3. QED BY <3>1, <3>2
  <2>6. QED BY <2>5 DEF P, M, m
<1>11. QED BY <1>1, <1>7, <1>8, <1>9, <1>10

\* Without drafts the whole state of a block goes to the other.
LEMMA CopySpecMeant ==
  ASSUME dimFirst \in BOOLEAN, NEW l \in Nat \ {0}, NEW s \in StateT, s.conv => s.width > 0,
         NEW blocks, NEW src, NEW dst, InPool(blocks[dst + 1]), InPool(blocks[src + 1]), src \in Int
  PROVE  CopySpec(l, s, blocks, src, dst) = MeantState(l, s, blocks, src, dst, 0)
<1> DEFINE to == blocks[dst + 1]
           from == blocks[src + 1]
           a == BlockAt(l, s, to)
           b == BlockAt(l, s, from)
           P == CopySpec(l, s, blocks, src, dst)
           M == MeantState(l, s, blocks, src, dst, 0)
           W == s.width
           I == s.inner
           z == s.elem
<1>1. W \in Nat /\ I \in Nat \ {0} /\ z \in Nat \ {0} /\ s.conv \in BOOLEAN /\ (s.conv => W \in Nat \ {0})
  BY DEF StateT
<1>2. P = Region(a, b, (IF s.conv THEN W * I ELSE I) * z)
  BY DEF CopySpec, BlockAt, StateBytes
<1>3. From(s, blocks, src, 0) = from /\ ShiftOf(s, 0) = 0 /\ TokensOf(s, 0) = IF s.conv THEN W ELSE 1
  BY <1>1 DEF From, ShiftOf, TokensOf
<1>4. ASSUME NEW c
      PROVE  c \in M <=>
           \E t \in 0 .. TokensOf(s, 0) - 1, e \in 0 .. I - 1, o \in 0 .. z - 1 :
                c = <<a + (Spot(s, t, e) * z + o), b + (Spot(s, t, e) * z + o)>>
  <2>1. c \in M <=>
           \E t \in 0 .. TokensOf(s, 0) - 1, e \in 0 .. I - 1, o \in 0 .. z - 1 :
                c = <<a + (Spot(s, t, e) * z + o), b + (Spot(s, t + 0, e) * z + o)>>
    BY <1>3, MeantBytes
  <2>2. \A t \in 0 .. TokensOf(s, 0) - 1 : t + 0 = t
    BY <1>1, <1>3
  <2>3. QED BY <2>1, <2>2
<1>5. a \in Int /\ b \in Int
  <2>1. to \in Int /\ from \in Int
    BY Sizes DEF InPool
  <2>2. QED BY <2>1, Origin
<1> HIDE DEF P, M, a, b, to, from, W, I, z
<1>6. CASE s.conv /\ dimFirst
  <2>1. P = Region(a, b, (I * W) * z)
    <3>1. I * W = W * I
      BY <1>1
    <3>2. QED BY <1>2, <1>6, <3>1
  <2>2. ASSUME NEW c PROVE c \in P <=> InCell(c, I, W, z, a, b)
    <3>1. I \in Int /\ W \in Nat \ {0}
      BY <1>1, <1>6
    <3>2. c \in Region(a, b, (I * W) * z) <=> InCell(c, I, W, z, a, b)
      BY <1>1, <1>5, <3>1, RegionCells, Zenon
    <3>3. QED BY <2>1, <3>2, Zenon
  <2>3. \A t, e : Spot(s, t, e) = e * W + t
    BY <1>6 DEF Spot, W
  <2>4. ASSUME NEW c PROVE c \in P <=> c \in M
    <3>1. c \in M <=> \E t \in 0 .. W - 1, e \in 0 .. I - 1, o \in 0 .. z - 1 :
                        c = <<a + ((e * W + t) * z + o), b + ((e * W + t) * z + o)>>
      BY <1>3, <1>4, <1>6, <2>3
    <3>2. QED BY <2>2, <3>1 DEF InCell
  <2>5. QED BY <2>4 DEF P, M
<1>7. CASE s.conv /\ ~dimFirst
  <2>1. ASSUME NEW c PROVE c \in P <=> InCell(c, W, I, z, a, b)
    <3>1. W \in Int
      BY <1>1
    <3>2. c \in Region(a, b, (W * I) * z) <=> InCell(c, W, I, z, a, b)
      BY <1>1, <1>5, <3>1, RegionCells, Zenon
    <3>3. QED BY <1>2, <1>7, <3>2
  <2>2. \A t, e : Spot(s, t, e) = t * I + e
    BY <1>7 DEF Spot, I
  <2>3. ASSUME NEW c PROVE c \in P <=> c \in M
    <3>1. c \in M <=> \E t \in 0 .. W - 1, e \in 0 .. I - 1, o \in 0 .. z - 1 :
                        c = <<a + ((t * I + e) * z + o), b + ((t * I + e) * z + o)>>
      BY <1>3, <1>4, <1>7, <2>2
    <3>2. QED BY <2>1, <3>1 DEF InCell
  <2>4. QED BY <2>3 DEF P, M
<1>8. CASE ~s.conv
  <2>1. P = Region(a, b, (1 * I) * z)
    <3>1. 1 * I = I
      BY <1>1
    <3>2. QED BY <1>2, <1>8, <3>1
  <2>2. ASSUME NEW c PROVE c \in P <=> InCell(c, 1, I, z, a, b)
    <3>1. 1 \in Int
      OBVIOUS
    <3>2. c \in Region(a, b, (1 * I) * z) <=> InCell(c, 1, I, z, a, b)
      BY <1>1, <1>5, <3>1, RegionCells, Zenon
    <3>3. QED BY <2>1, <3>2, Zenon
  <2>3. \A x \in 0 .. 1 - 1, e \in 0 .. I - 1 : x * I + e = e
    BY <1>1
  <2>4. \A t, e : Spot(s, t, e) = e
    BY <1>8 DEF Spot
  <2>5. ASSUME NEW c PROVE c \in P <=> c \in M
    <3>1. c \in M <=> \E t \in 0 .. 1 - 1, e \in 0 .. I - 1, o \in 0 .. z - 1 :
                        c = <<a + (e * z + o), b + (e * z + o)>>
      BY <1>3, <1>4, <1>8, <2>4
    <3>2. c \in P <=> \E t \in 0 .. 1 - 1, e \in 0 .. I - 1, o \in 0 .. z - 1 :
                        c = <<a + (e * z + o), b + (e * z + o)>>
      BY <2>2, <2>3 DEF InCell
    <3>3. QED BY <3>1, <3>2
  <2>6. QED BY <2>5 DEF P, M
<1>9. QED BY <1>1, <1>6, <1>7, <1>8

\* What a move writes lies inside the state, in the block it goes to.
LEMMA MeantInside ==
  ASSUME dimFirst \in BOOLEAN, NEW l \in Nat \ {0}, NEW s \in StateT, s.conv => s.width > 0,
         NEW blocks, NEW src, NEW dst, NEW bias \in Nat,
         NEW c \in MeantState(l, s, blocks, src, dst, bias)
  PROVE  /\ InPool(blocks[dst + 1])
         /\ \E o \in 0 .. StateBytes(s) - 1 : c[1] = BlockAt(l, s, blocks[dst + 1]) + o
<1> DEFINE to == blocks[dst + 1]
           a == BlockAt(l, s, to)
           W == s.width
           I == s.inner
           z == s.elem
           T == TokensOf(s, bias)
<1>1. W \in Nat /\ I \in Nat \ {0} /\ z \in Nat \ {0} /\ s.conv \in BOOLEAN /\ (s.conv => W \in Nat \ {0})
  BY DEF StateT
<1>2. /\ InPool(to)
      /\ \E t \in 0 .. T - 1, e \in 0 .. I - 1, o \in 0 .. z - 1 : c[1] = a + (Spot(s, t, e) * z + o)
  <2>1. PICK t \in 0 .. T - 1, e \in 0 .. I - 1, o \in 0 .. z - 1 :
          c = <<a + (Spot(s, t, e) * z + o),
                BlockAt(l, s, From(s, blocks, src, bias)) + (Spot(s, t + ShiftOf(s, bias), e) * z + o)>>
    BY MeantBytes
  <2>2. c[1] = a + (Spot(s, t, e) * z + o)
    BY <2>1
  <2>3. InPool(to)
    BY MeantBytes
  <2>4. QED BY <2>2, <2>3
<1>3. PICK t \in 0 .. T - 1, e \in 0 .. I - 1, o \in 0 .. z - 1 : c[1] = a + (Spot(s, t, e) * z + o)
  BY <1>2
<1> DEFINE n == IF s.conv THEN W * I ELSE I
           p == Spot(s, t, e)
<1>4. StateBytes(s) = n * z /\ n \in Int
  BY <1>1 DEF StateBytes
<1>5. p \in 0 .. n - 1
  <2>1. CASE s.conv
    <3>1. T \in Int /\ T <= W /\ t \in 0 .. W - 1 /\ W \in Nat \ {0} /\ W \in Int /\ I \in Int
      BY <1>1, <2>1 DEF TokensOf, ShiftOf
    <3> HIDE DEF W, I, T
    <3>2. e * W + t \in 0 .. I * W - 1 /\ t * I + e \in 0 .. W * I - 1
      BY <1>1, <3>1, Grid
    <3>3. I * W = W * I
      BY <3>1
    <3>4. QED BY <2>1, <3>2, <3>3 DEF Spot, W, I
  <2>2. CASE ~s.conv
    BY <2>2 DEF Spot
  <2>3. QED BY <1>1, <2>1, <2>2
<1> HIDE DEF n, p
<1>6. p * z + o \in 0 .. n * z - 1
  <2> HIDE DEF z
  <2>1. QED BY <1>1, <1>4, <1>5, Grid
<1>7. QED BY <1>2, <1>3, <1>4, <1>6 DEF p

-----------------------------------------------------------------------------
(* A move is made piece by piece, and no two pieces touch.                 *)

\* The k-th state of the l-th layer of the i-th mamba group, of move w.
Piece(w, i, l, k) ==
  MeantState(l, StatesOf(i, l)[k], table[w[1]][MambaGroupIds[i]], w[2], w[3], w[4])

LEMMA SameCell ==
  ASSUME NEW d \in Nat \ {0}, NEW x \in Int, NEW y \in Int, NEW r \in 0 .. d - 1, NEW s \in 0 .. d - 1,
         x * d + r = y * d + s
  PROVE  x = y /\ r = s
<1> DEFINE u == x * d
           v == y * d
           n == u + r
<1>1. u \in Int /\ v \in Int /\ n = v + s /\ r \in Int /\ s \in Int
  OBVIOUS
<1>2. n \in Int /\ u <= n /\ n < u + d /\ v <= n /\ n < v + d
  <2> HIDE DEF u, v
  <2>1. QED BY <1>1
<1> HIDE DEF n
<1>3. x = y
  BY <1>2, SameDiv
<1>4. u = v /\ n = u + r
  BY <1>3 DEF n
<1> HIDE DEF u, v
<1>5. QED BY <1>1, <1>3, <1>4

LEMMA StateFacts ==
  ASSUME Deployed, NEW i, NEW l, NEW k, AState(i, l, k)
  PROVE  /\ l \in Nat \ {0} /\ StatesOf(i, l)[k] \in StateT
         /\ StatesOf(i, l)[k].conv => StatesOf(i, l)[k].width > 0
         /\ StateBytes(StatesOf(i, l)[k]) \in Nat
         /\ StatesOf(i, l)[k].at + StateBytes(StatesOf(i, l)[k]) <= Page
         /\ \A m \in DOMAIN StatesOf(i, l) : k # m =>
              LET s == StatesOf(i, l)[k] t == StatesOf(i, l)[m] IN
                s.at + StateBytes(s) <= t.at \/ t.at + StateBytes(t) <= s.at
<1> DEFINE spec == LayersOf(i)[l]
<1>1. l \in Nat \ {0} /\ spec \in DOMAIN States /\ k \in DOMAIN States[spec] /\ States[spec] \in Seq(StateT)
  BY Layers DEF AState, StatesOf
<1>2. \A m, n \in DOMAIN States[spec] :
        LET s == States[spec][m] t == States[spec][n] IN
          /\ s.conv => s.width > 0
          /\ s.at + StateBytes(s) <= Page
          /\ m # n => s.at + StateBytes(s) <= t.at \/ t.at + StateBytes(t) <= s.at
  BY <1>1, BatchAssumption, Zenon
<1>3. StatesOf(i, l) = States[spec]
  BY DEF StatesOf
<1> HIDE DEF spec
<1>4. States[spec][k] \in StateT
  BY <1>1
<1>5. StateBytes(States[spec][k]) \in Nat
  <2> DEFINE s == States[spec][k]
  <2>1. s.width \in Nat /\ s.inner \in Nat /\ s.elem \in Nat
    BY <1>4 DEF StateT
  <2>2. s.width * s.inner \in Nat
    BY <2>1
  <2>3. \A n \in Nat : n * s.elem \in Nat
    BY <2>1
  <2>4. QED BY <2>1, <2>2, <2>3 DEF StateBytes
<1>6. /\ States[spec][k].conv => States[spec][k].width > 0
      /\ States[spec][k].at + StateBytes(States[spec][k]) <= Page
  BY <1>1, <1>2
<1>7. QED BY <1>1, <1>2, <1>3, <1>4, <1>5, <1>6

LEMMA MeantPieces ==
  ASSUME Deployed, NEW w, NEW c
  PROVE  c \in Meant(w) <=> \E i, l, k : AState(i, l, k) /\ c \in Piece(w, i, l, k)
<1> DEFINE moved(g, l) == UNION {MeantState(l, s, table[w[1]][g], w[2], w[3], w[4]) :
                                 s \in Range(States[groups[g][l]])}
           layers(g) == {k \in DOMAIN groups[g] : groups[g][k] \in DOMAIN States}
<1>1. c \in Meant(w) <=> \E g \in DOMAIN groups : \E l \in layers(g) : c \in moved(g, l)
  <2> DEFINE Pairs == UNION {{<<g, l>> : l \in layers(g)} : g \in DOMAIN groups}
  <2>1. Meant(w) = UNION {moved(p[1], p[2]) : p \in Pairs}
    BY DEF Meant
  <2>2. c \in Meant(w) <=> \E p \in Pairs : c \in moved(p[1], p[2])
    <3> HIDE DEF Pairs, moved
    <3>1. QED BY <2>1
  <2>3. ASSUME NEW p \in Pairs
        PROVE  \E g \in DOMAIN groups : \E l \in layers(g) : p[1] = g /\ p[2] = l
    <3> HIDE DEF layers
    <3>1. PICK g \in DOMAIN groups : p \in {<<g, l>> : l \in layers(g)}
      BY <2>3
    <3>2. PICK l \in layers(g) : p = <<g, l>>
      BY <3>1
    <3>3. p[1] = g /\ p[2] = l
      BY <3>2
    <3>4. QED BY <3>3
  <2>4. ASSUME NEW g \in DOMAIN groups, NEW l \in layers(g)
        PROVE  \E p \in Pairs : p[1] = g /\ p[2] = l
    <3> HIDE DEF layers
    <3>1. <<g, l>> \in {<<g, m>> : m \in layers(g)}
      OBVIOUS
    <3>2. <<g, l>> \in Pairs
      BY <3>1
    <3>3. <<g, l>>[1] = g /\ <<g, l>>[2] = l
      OBVIOUS
    <3> HIDE DEF Pairs
    <3>4. QED BY <3>2, <3>3
  <2> HIDE DEF Pairs, moved, layers
  <2>5. ASSUME c \in Meant(w) PROVE \E g \in DOMAIN groups : \E l \in layers(g) : c \in moved(g, l)
    BY <2>2, <2>3, <2>5
  <2>6. ASSUME NEW g \in DOMAIN groups, NEW l \in layers(g), c \in moved(g, l) PROVE c \in Meant(w)
    BY <2>2, <2>4, <2>6
  <2>7. QED BY <2>5, <2>6
<1>2. \A g, l : c \in moved(g, l) <=>
        \E s \in Range(States[groups[g][l]]) : c \in MeantState(l, s, table[w[1]][g], w[2], w[3], w[4])
  OBVIOUS
<1> HIDE DEF moved
<1>3. ASSUME NEW g \in DOMAIN groups, NEW l \in layers(g), c \in moved(g, l)
      PROVE  \E i, j, k : AState(i, j, k) /\ c \in Piece(w, i, j, k)
  <2>1. l \in DOMAIN groups[g] /\ groups[g][l] \in DOMAIN States
    BY <1>3
  <2>2. groups[g][l] \in Range(groups[g]) \cap DOMAIN States
    BY <2>1 DEF Range
  <2>3. Range(groups[g]) \subseteq DOMAIN States
    BY <2>2, Deployment
  <2>4. g \in MambaGroups
    BY <2>3 DEF MambaGroups
  <2>5. PICK i \in DOMAIN MambaGroupIds : MambaGroupIds[i] = g
    <3>1. g \in ToSet(MambaGroupIds)
      BY <2>4, GroupIds
    <3>2. QED BY <3>1 DEF ToSet
  <2>6. PICK s \in Range(States[groups[g][l]]) : c \in MeantState(l, s, table[w[1]][g], w[2], w[3], w[4])
    BY <1>2, <1>3
  <2>7. PICK k \in DOMAIN States[groups[g][l]] : s = States[groups[g][l]][k]
    BY <2>6 DEF Range
  <2>8. AState(i, l, k)
    BY <2>1, <2>5, <2>7 DEF AState, LayersOf, StatesOf
  <2>9. c \in Piece(w, i, l, k)
    BY <2>5, <2>6, <2>7 DEF Piece, LayersOf, StatesOf
  <2>10. QED BY <2>8, <2>9
<1>4. ASSUME NEW i, NEW l, NEW k, AState(i, l, k), c \in Piece(w, i, l, k)
      PROVE  \E g \in DOMAIN groups : \E m \in layers(g) : c \in moved(g, m)
  <2> DEFINE g == MambaGroupIds[i]
  <2>1. g \in DOMAIN groups /\ l \in DOMAIN groups[g] /\ groups[g][l] \in DOMAIN States
    BY <1>4, Layers DEF AState, LayersOf
  <2>2. StatesOf(i, l)[k] \in Range(States[groups[g][l]])
    BY <1>4 DEF AState, StatesOf, LayersOf, Range
  <2>3. c \in moved(g, l)
    BY <1>2, <1>4, <2>2 DEF Piece
  <2>4. QED BY <2>1, <2>3
<1> HIDE DEF layers
<1>5. QED BY <1>1, <1>3, <1>4

\* Requests, groups, layers and states have bytes of their own.
LEMMA PiecesApart ==
  ASSUME Deployed, NEW w, NEW x, w[1] \in Reqs, x[1] \in Reqs, w[3] \in InReach, x[3] \in InReach,
         w[4] \in Nat, x[4] \in Nat,
         NEW i, NEW l, NEW k, AState(i, l, k), NEW j, NEW m, NEW n, AState(j, m, n),
         ~(w[1] = x[1] /\ i = j /\ l = m /\ k = n)
  PROVE  Piece(w, i, l, k) \cap Piece(x, j, m, n) = {}
<1> SUFFICES ASSUME NEW c \in Piece(w, i, l, k), c \in Piece(x, j, m, n) PROVE FALSE
  OBVIOUS
<1> DEFINE s == StatesOf(i, l)[k]
           t == StatesOf(j, m)[n]
           g == MambaGroupIds[i]
           h == MambaGroupIds[j]
           to == table[w[1]][g][w[3] + 1]
           too == table[x[1]][h][x[3] + 1]
<1>1. /\ l \in Nat \ {0} /\ s \in StateT /\ (s.conv => s.width > 0)
      /\ StateBytes(s) \in Nat /\ s.at + StateBytes(s) <= Page /\ s.at \in Nat
  BY StateFacts DEF StateT
<1>2. /\ m \in Nat \ {0} /\ t \in StateT /\ (t.conv => t.width > 0)
      /\ StateBytes(t) \in Nat /\ t.at + StateBytes(t) <= Page /\ t.at \in Nat
  BY StateFacts DEF StateT
<1>3. /\ Page \in Nat \ {0} /\ NumBlocks \in Nat \ {0} /\ dimFirst \in BOOLEAN
      /\ g \in DOMAIN groups /\ h \in DOMAIN groups /\ i \in DOMAIN MambaGroupIds /\ j \in DOMAIN MambaGroupIds
  BY Sizes, Deployment, Layers DEF AState
<1>4. InPool(to) /\ \E o \in 0 .. StateBytes(s) - 1 : c[1] = BlockAt(l, s, to) + o
  <2>1. c \in MeantState(l, s, table[w[1]][g], w[2], w[3], w[4])
    BY DEF Piece
  <2> HIDE DEF s
  <2>2. QED BY <1>1, <1>3, <2>1, MeantInside
<1>5. InPool(too) /\ \E o \in 0 .. StateBytes(t) - 1 : c[1] = BlockAt(m, t, too) + o
  <2>1. c \in MeantState(m, t, table[x[1]][h], x[2], x[3], x[4])
    BY DEF Piece
  <2> HIDE DEF t
  <2>2. QED BY <1>2, <1>3, <2>1, MeantInside
<1>6. PICK o \in 0 .. StateBytes(s) - 1 : c[1] = BlockAt(l, s, to) + o
  BY <1>4
<1>7. PICK p \in 0 .. StateBytes(t) - 1 : c[1] = BlockAt(m, t, too) + p
  BY <1>5
<1> HIDE DEF s, t, g, h, to, too
<1>8. to \in Int /\ too \in Int /\ to \in 0 .. NumBlocks - 1 /\ too \in 0 .. NumBlocks - 1
  BY <1>3, <1>4, <1>5 DEF InPool
<1> DEFINE u == (l - 1) * NumBlocks
           v == (m - 1) * NumBlocks
           A == u + to
           B == v + too
           a == s.at + o
           b == t.at + p
<1>9. u \in Int /\ v \in Int /\ A \in Int /\ B \in Int
  BY <1>1, <1>2, <1>3, <1>8
<1>10. /\ BlockAt(l, s, to) = A * Page + s.at
       /\ BlockAt(m, t, too) = B * Page + t.at
  BY <1>1, <1>2, <1>8, Origin
<1>11. o \in Int /\ p \in Int /\ 0 <= o /\ 0 <= p /\ o < StateBytes(s) /\ p < StateBytes(t)
  BY <1>1, <1>2
<1>12. a \in 0 .. Page - 1 /\ b \in 0 .. Page - 1
  BY <1>1, <1>2, <1>3, <1>11
<1> HIDE DEF A, B
<1>13. c[1] = A * Page + a /\ c[1] = B * Page + b /\ c[1] \in Int
  <2> DEFINE y == A * Page z == B * Page
  <2>1. y \in Int /\ z \in Int
    BY <1>3, <1>9
  <2>2. c[1] = (y + s.at) + o /\ c[1] = (z + t.at) + p
    BY <1>6, <1>7, <1>10
  <2> HIDE DEF y, z
  <2>3. c[1] = y + a /\ c[1] = z + b /\ c[1] \in Int
    BY <1>1, <1>2, <1>11, <2>1, <2>2
  <2>4. QED BY <2>3 DEF y, z
<1>14. A = B /\ a = b
  <2>1. A * Page + a = B * Page + b
    BY <1>13
  <2> HIDE DEF a, b
  <2>2. QED BY <1>3, <1>9, <1>12, <2>1, SameCell
<1>15. l = m /\ to = too
  <2> DEFINE y == l - 1 z == m - 1
  <2>1. y \in Int /\ z \in Int /\ y * NumBlocks + to = z * NumBlocks + too
    BY <1>1, <1>2, <1>14 DEF A, B
  <2> HIDE DEF y, z
  <2>2. y = z /\ to = too
    BY <1>3, <1>8, <2>1, SameCell
  <2>3. QED BY <1>1, <1>2, <2>2 DEF y, z
<1>16. w[1] = x[1] /\ g = h
  <2>1. SUFFICES ASSUME <<w[1], g>> # <<x[1], h>> PROVE FALSE
    OBVIOUS
  <2>2. to # too
    BY <1>3, <1>8, <2>1, Deployment DEF to, too
  <2>3. QED BY <1>15, <2>2
<1>17. i = j
  BY <1>3, <1>16, GroupIds DEF g, h
<1>18. k # n /\ n \in DOMAIN StatesOf(i, l) /\ t = StatesOf(i, l)[n]
  BY <1>15, <1>16, <1>17 DEF t, AState
<1>19. s.at + StateBytes(s) <= t.at \/ t.at + StateBytes(t) <= s.at
  BY <1>18, StateFacts DEF s
<1>20. QED BY <1>1, <1>2, <1>11, <1>14, <1>19

\* flat has an entry for each state, and none else: the n-th is s's of the
\* place[n]-th state of the inner[n]-th layer of the turn[n]-th mamba group.
Visits(flat, turn, inner, place, s) ==
  /\ \A n \in DOMAIN flat : /\ AState(turn[n], inner[n], place[n])
                            /\ flat[n] = s[turn[n]][inner[n]][place[n]]
  /\ \A n, m \in DOMAIN flat :
       turn[n] = turn[m] /\ inner[n] = inner[m] /\ place[n] = place[m] => n = m
  /\ \A i, l, k : AState(i, l, k) =>
       \E n \in DOMAIN flat : turn[n] = i /\ inner[n] = l /\ place[n] = k

\* The three loops, over groups, layers and states, visit every state once.
LEMMA AllStates ==
  ASSUME Deployed, NEW M, NEW s, s = [i \in DOMAIN MambaGroupIds |-> s[i]],
         \A i \in DOMAIN MambaGroupIds : s[i] = [l \in DOMAIN LayersOf(i) |-> s[i][l]],
         \A i \in DOMAIN MambaGroupIds : \A l \in DOMAIN LayersOf(i) :
           s[i][l] = [k \in DOMAIN StatesOf(i, l) |-> s[i][l][k]],
         \A i, l, k : AState(i, l, k) => s[i][l][k] \in M
  PROVE  /\ Flattened(s) \in Seq(M) /\ Len(Flattened(s)) = EntriesPerReq
         /\ \E turn, inner, place : Visits(Flattened(s), turn, inner, place, s)
<1> DEFINE ids == MambaGroupIds
<1>1. ids \in Seq(Int)
  BY GroupIds
<1>2. ASSUME NEW i \in DOMAIN ids, NEW l \in DOMAIN LayersOf(i)
      PROVE  /\ s[i][l] \in Seq(M) /\ Len(s[i][l]) = Len(StatesOf(i, l))
             /\ DOMAIN s[i][l] = DOMAIN StatesOf(i, l)
  <2> DEFINE x == StatesOf(i, l) f == s[i][l] n == Len(x)
  <2>1. x \in Seq(StateT)
    BY Layers
  <2>2. f = [k \in DOMAIN x |-> f[k]]
    BY <1>2
  <2>3. \A k \in DOMAIN x : f[k] \in M
    BY <1>2 DEF AState
  <2> HIDE DEF x, f
  <2>4. n \in Nat /\ DOMAIN x = 1 .. n
    BY <2>1
  <2> HIDE DEF n
  <2>5. f = [k \in 1 .. n |-> f[k]] /\ \A k \in 1 .. n : f[k] \in M
    BY <2>2, <2>3, <2>4
  <2>6. f \in [1 .. n -> M]
    BY <2>5
  <2>7. f \in Seq(M) /\ Len(f) = n /\ DOMAIN f = 1 .. n
    BY <2>4, <2>6
  <2>8. QED BY <2>4, <2>7 DEF n, x, f
<1>3. ASSUME NEW i \in DOMAIN ids
      PROVE  s[i] \in Seq(Seq(M)) /\ DOMAIN s[i] = DOMAIN LayersOf(i)
  <2> DEFINE x == LayersOf(i) f == s[i] n == Len(x)
  <2>1. x \in Seq(DOMAIN States)
    BY Layers
  <2>2. f = [l \in DOMAIN x |-> f[l]]
    BY <1>3
  <2>3. \A l \in DOMAIN x : f[l] \in Seq(M)
    BY <1>2
  <2> HIDE DEF x, f
  <2>4. n \in Nat /\ DOMAIN x = 1 .. n
    BY <2>1
  <2> HIDE DEF n
  <2>5. f \in [1 .. n -> Seq(M)]
    BY <2>2, <2>3, <2>4
  <2>6. f \in Seq(Seq(M)) /\ DOMAIN f = 1 .. n
    BY <2>4, <2>5
  <2>7. QED BY <2>4, <2>6 DEF x, f
<1>4. s \in Seq(Seq(Seq(M))) /\ DOMAIN s = DOMAIN ids
  <2> DEFINE n == Len(ids)
  <2>1. n \in Nat /\ DOMAIN ids = 1 .. n
    BY <1>1
  <2> HIDE DEF n, ids
  <2>2. \A i \in 1 .. n : s[i] \in Seq(Seq(M))
    BY <1>3, <2>1
  <2>3. s = [i \in 1 .. n |-> s[i]]
    BY <2>1 DEF ids
  <2>4. s \in [1 .. n -> Seq(Seq(M))]
    BY <2>2, <2>3
  <2>5. QED BY <2>1, <2>4
<1>5. Flattened(s) \in Seq(M) /\ Len(Flattened(s)) = Lengths(s)
  BY <1>4, FlattenDeep
<1>6. PICK turn, inner, place : ListedDeep(Flattened(s), turn, inner, place, s)
  BY <1>4, FlattenDeep
<1>7. Lengths(s) = EntriesPerReq
  <2> DEFINE mine(i) == [l \in DOMAIN s[i] |-> Len(s[i][l])]
             theirs(i) == LET layers == groups[MambaGroupIds[i]] IN [l \in DOMAIN layers |-> Len(States[layers[l]])]
  <2>1. ASSUME NEW i \in DOMAIN ids PROVE mine(i) = theirs(i)
    <3>1. DOMAIN s[i] = DOMAIN groups[MambaGroupIds[i]]
      BY <1>3 DEF LayersOf
    <3>2. \A l \in DOMAIN s[i] : Len(s[i][l]) = Len(States[groups[MambaGroupIds[i]][l]])
      BY <1>2, <3>1 DEF LayersOf, StatesOf
    <3>3. QED BY <3>1, <3>2
  <2> HIDE DEF mine, theirs
  <2>2. [i \in DOMAIN s |-> SumFunction(mine(i))] = [i \in DOMAIN ids |-> SumFunction(theirs(i))]
    BY <1>4, <2>1
  <2>3. Lengths(s) = SumFunction([i \in DOMAIN s |-> SumFunction(mine(i))])
    BY DEF Lengths, mine
  <2>4. EntriesPerReq = SumFunction([i \in DOMAIN ids |-> SumFunction(theirs(i))])
    BY DEF EntriesPerReq, theirs
  <2>5. QED BY <2>2, <2>3, <2>4
<1>8. \A i, l, k : AState(i, l, k) <=> i \in DOMAIN s /\ l \in DOMAIN s[i] /\ k \in DOMAIN s[i][l]
  <2>1. \A i : i \in DOMAIN s <=> i \in DOMAIN ids
    BY <1>4
  <2>2. \A i \in DOMAIN ids : \A l : l \in DOMAIN s[i] <=> l \in DOMAIN LayersOf(i)
    BY <1>3
  <2>3. \A i \in DOMAIN ids : \A l \in DOMAIN LayersOf(i) : \A k :
          k \in DOMAIN s[i][l] <=> k \in DOMAIN StatesOf(i, l)
    BY <1>2
  <2>4. QED BY <2>1, <2>2, <2>3 DEF AState
<1>9. Visits(Flattened(s), turn, inner, place, s)
  <2> DEFINE flat == Flattened(s)
  <2>1. ListedDeep(flat, turn, inner, place, s)
    BY <1>6
  <2> HIDE DEF flat
  <2>2. \A n \in DOMAIN flat : /\ AState(turn[n], inner[n], place[n])
                               /\ flat[n] = s[turn[n]][inner[n]][place[n]]
    BY <1>8, <2>1 DEF ListedDeep
  <2>3. \A n, m \in DOMAIN flat :
          turn[n] = turn[m] /\ inner[n] = inner[m] /\ place[n] = place[m] => n = m
    BY <2>1 DEF ListedDeep
  <2>4. ASSUME NEW i, NEW l, NEW k, AState(i, l, k)
        PROVE  \E n \in DOMAIN flat : turn[n] = i /\ inner[n] = l /\ place[n] = k
    <3>1. i \in DOMAIN s /\ l \in DOMAIN s[i] /\ k \in DOMAIN s[i][l]
      BY <1>8, <2>4
    <3>2. QED BY <2>1, <3>1 DEF ListedDeep
  <2>5. Visits(flat, turn, inner, place, s)
    BY <2>2, <2>3, <2>4 DEF Visits
  <2>6. QED BY <2>5 DEF flat
<1>10. \E u, v, w : Visits(Flattened(s), u, v, w, s)
  BY <1>9, Zenon
<1>11. QED BY <1>5, <1>7, <1>10

Described == [i \in DOMAIN MambaGroupIds |->
                [l \in DOMAIN LayersOf(i) |->
                   [k \in DOMAIN StatesOf(i, l) |-> Describe(i, l, StatesOf(i, l)[k])]]]

\* The metadata: a slot for every state.
LEMMA Metadata ==
  ASSUME Deployed
  PROVE  /\ Len(PopulateMetadata) = EntriesPerReq /\ EntriesPerReq \in Nat
         /\ \E turn, inner, place : Visits(PopulateMetadata, turn, inner, place, Described)
<1> DEFINE M == {Describe(i, l, s) : i \in DOMAIN MambaGroupIds, l \in Nat, s \in StateT}
<1>1. PopulateMetadata = Flattened(Described)
  BY DEF PopulateMetadata, Flattened, Described, LayersOf, StatesOf
<1>2. ASSUME NEW i, NEW l, NEW k, AState(i, l, k)
      PROVE  Described[i][l][k] \in M
  <2>1. i \in DOMAIN MambaGroupIds /\ l \in Nat /\ StatesOf(i, l)[k] \in StateT
    BY <1>2, StateFacts DEF AState
  <2>2. Described[i][l][k] = Describe(i, l, StatesOf(i, l)[k])
    BY <1>2 DEF AState, Described
  <2>3. QED BY <2>1, <2>2
<1> HIDE DEF M
<1>3. /\ Described = [i \in DOMAIN MambaGroupIds |-> Described[i]]
      /\ \A i \in DOMAIN MambaGroupIds : Described[i] = [l \in DOMAIN LayersOf(i) |-> Described[i][l]]
      /\ \A i \in DOMAIN MambaGroupIds : \A l \in DOMAIN LayersOf(i) :
           Described[i][l] = [k \in DOMAIN StatesOf(i, l) |-> Described[i][l][k]]
  BY DEF Described
<1>4. /\ Flattened(Described) \in Seq(M) /\ Len(Flattened(Described)) = EntriesPerReq
      /\ \E turn, inner, place : Visits(Flattened(Described), turn, inner, place, Described)
  BY <1>2, <1>3, AllStates
<1>5. Len(Flattened(Described)) \in Nat
  BY <1>4
<1>6. QED BY <1>1, <1>4, <1>5, Zenon

Collected(r, src, dst) ==
  [i \in DOMAIN MambaGroupIds |->
     [l \in DOMAIN LayersOf(i) |->
        [k \in DOMAIN StatesOf(i, l) |->
           CopySpec(l, StatesOf(i, l)[k], table[r][MambaGroupIds[i]], src, dst)]]]

\* What a list may hold.
Specs ==
  {CopySpec(l, s, table[r][g], src, dst) :
     l \in Nat, s \in StateT, r \in Reqs, g \in DOMAIN groups, src \in Int, dst \in Int}

\* The list of a request: an entry for every state.
LEMMA Collection ==
  ASSUME Deployed, NEW r \in Reqs, NEW src \in Int, NEW dst \in Int
  PROVE  /\ CollectMambaCopyMeta(r, src, dst) \in Seq(Specs)
         /\ Len(CollectMambaCopyMeta(r, src, dst)) = EntriesPerReq
         /\ \E turn, inner, place :
              Visits(CollectMambaCopyMeta(r, src, dst), turn, inner, place, Collected(r, src, dst))
<1> DEFINE f == Collected(r, src, dst)
<1>1. CollectMambaCopyMeta(r, src, dst) = Flattened(f)
  BY DEF CollectMambaCopyMeta, Flattened, Collected, LayersOf, StatesOf
<1>2. ASSUME NEW i, NEW l, NEW k, AState(i, l, k)
      PROVE  f[i][l][k] \in Specs
  <2>1. /\ i \in DOMAIN MambaGroupIds /\ l \in Nat /\ StatesOf(i, l)[k] \in StateT
        /\ MambaGroupIds[i] \in DOMAIN groups
    BY <1>2, StateFacts, Layers DEF AState
  <2>2. f[i][l][k] = CopySpec(l, StatesOf(i, l)[k], table[r][MambaGroupIds[i]], src, dst)
    BY <1>2 DEF AState, Collected
  <2>3. QED BY <2>1, <2>2 DEF Specs
<1>3. /\ f = [i \in DOMAIN MambaGroupIds |-> f[i]]
      /\ \A i \in DOMAIN MambaGroupIds : f[i] = [l \in DOMAIN LayersOf(i) |-> f[i][l]]
      /\ \A i \in DOMAIN MambaGroupIds : \A l \in DOMAIN LayersOf(i) :
           f[i][l] = [k \in DOMAIN StatesOf(i, l) |-> f[i][l][k]]
  BY DEF Collected
<1> HIDE DEF f
<1>4. /\ Flattened(f) \in Seq(Specs) /\ Len(Flattened(f)) = EntriesPerReq
      /\ \E turn, inner, place : Visits(Flattened(f), turn, inner, place, f)
  BY <1>2, <1>3, AllStates
<1>5. QED BY <1>1, <1>4, Zenon DEF f

-----------------------------------------------------------------------------
(* A step's copies are the pieces of its moves, each once.                 *)

Sound(ws) == \A w \in ws : w[1] \in Reqs /\ w[3] \in InReach /\ w[4] \in Nat

\* Copy p is nothing, or the piece turn[p], inner[p], place[p] of move by[p];
\* a request's piece has one copy.
Carries(cs, ws, by, turn, inner, place) ==
  /\ \A p \in DOMAIN cs : cs[p] # {} =>
       /\ by[p] \in ws /\ AState(turn[p], inner[p], place[p])
       /\ cs[p] = Piece(by[p], turn[p], inner[p], place[p])
  /\ \A p, q \in DOMAIN cs :
       /\ cs[p] # {} /\ cs[q] # {} /\ by[p][1] = by[q][1]
       /\ turn[p] = turn[q] /\ inner[p] = inner[q] /\ place[p] = place[q]
       => p = q
  /\ \A w \in ws : \A i, l, k : AState(i, l, k) => \E p \in DOMAIN cs : cs[p] = Piece(w, i, l, k)

Right(cs, ws) ==
  /\ UNION Range(cs) = UNION {Meant(w) : w \in ws}
  /\ \A p, q \in DOMAIN cs : p # q => cs[p] \cap cs[q] = {}

LEMMA CarriedRight ==
  ASSUME Deployed, NEW ws, Sound(ws), NEW cs, NEW by, NEW turn, NEW inner, NEW place,
         Carries(cs, ws, by, turn, inner, place)
  PROVE  Right(cs, ws)
<1>1. ASSUME NEW c
      PROVE  c \in UNION Range(cs) <=> c \in UNION {Meant(w) : w \in ws}
  <2>1. c \in UNION Range(cs) <=> \E p \in DOMAIN cs : c \in cs[p]
    BY DEF Range
  <2>2. c \in UNION {Meant(w) : w \in ws} <=> \E w \in ws : c \in Meant(w)
    OBVIOUS
  <2>3. ASSUME NEW p \in DOMAIN cs, c \in cs[p] PROVE \E w \in ws : c \in Meant(w)
    <3>1. by[p] \in ws /\ AState(turn[p], inner[p], place[p])
          /\ c \in Piece(by[p], turn[p], inner[p], place[p])
      BY <2>3 DEF Carries
    <3>2. c \in Meant(by[p])
      BY <3>1, MeantPieces
    <3>3. QED BY <3>1, <3>2
  <2>4. ASSUME NEW w \in ws, c \in Meant(w) PROVE \E p \in DOMAIN cs : c \in cs[p]
    <3>1. PICK i, l, k : AState(i, l, k) /\ c \in Piece(w, i, l, k)
      BY <2>4, MeantPieces
    <3>2. PICK p \in DOMAIN cs : cs[p] = Piece(w, i, l, k)
      BY <3>1 DEF Carries
    <3>3. QED BY <3>1, <3>2
  <2>5. QED BY <2>1, <2>2, <2>3, <2>4
<1>2. ASSUME NEW p \in DOMAIN cs, NEW q \in DOMAIN cs, p # q
      PROVE  cs[p] \cap cs[q] = {}
  <2>1. CASE cs[p] = {} \/ cs[q] = {}
    BY <2>1
  <2>2. CASE cs[p] # {} /\ cs[q] # {}
    <3>1. /\ by[p] \in ws /\ AState(turn[p], inner[p], place[p])
          /\ cs[p] = Piece(by[p], turn[p], inner[p], place[p])
          /\ by[q] \in ws /\ AState(turn[q], inner[q], place[q])
          /\ cs[q] = Piece(by[q], turn[q], inner[q], place[q])
      BY <2>2 DEF Carries
    <3>2. ~(/\ by[p][1] = by[q][1] /\ turn[p] = turn[q]
            /\ inner[p] = inner[q] /\ place[p] = place[q])
      BY <1>2, <2>2 DEF Carries
    <3>3. /\ by[p][1] \in Reqs /\ by[p][3] \in InReach /\ by[p][4] \in Nat
          /\ by[q][1] \in Reqs /\ by[q][3] \in InReach /\ by[q][4] \in Nat
      BY <3>1 DEF Sound
    <3>4. Piece(by[p], turn[p], inner[p], place[p]) \cap Piece(by[q], turn[q], inner[q], place[q]) = {}
      <4> DEFINE w == by[p] x == by[q] i == turn[p] l == inner[p] k == place[p]
                 j == turn[q] m == inner[q] n == place[q]
      <4>1. /\ w[1] \in Reqs /\ x[1] \in Reqs /\ w[3] \in InReach /\ x[3] \in InReach
            /\ w[4] \in Nat /\ x[4] \in Nat /\ AState(i, l, k) /\ AState(j, m, n)
            /\ ~(w[1] = x[1] /\ i = j /\ l = m /\ k = n)
        BY <3>1, <3>2, <3>3
      <4> HIDE DEF w, x, i, l, k, j, m, n
      <4>2. Piece(w, i, l, k) \cap Piece(x, j, m, n) = {}
        BY <4>1, PiecesApart
      <4>3. QED BY <4>2 DEF w, x, i, l, k, j, m, n
    <3>5. QED BY <3>1, <3>4
  <2>3. QED BY <2>1, <2>2
<1>3. UNION Range(cs) = UNION {Meant(w) : w \in ws}
  BY <1>1
<1>4. QED BY <1>2, <1>3 DEF Right

Asks(w, r, v) == w[1] = r /\ v = <<w[2], w[3], w[4]>>

\* A launch makes the moves staged for its rows.
LEMMA LaunchRight ==
  ASSUME Deployed, NEW ws, Sound(ws), NEW b, IsInjective(b), Range(b) \subseteq Reqs, NEW move,
         \A x \in DOMAIN b : move[At(b, x)] # <<>> => \E w \in ws : Asks(w, b[x], move[At(b, x)]),
         \A w \in ws : \E x \in DOMAIN b : Asks(w, b[x], move[At(b, x)])
  PROVE  Right(Launch(b, PopulateMetadata, move), ws)
<1> DEFINE m == PopulateMetadata
           cs == Launch(b, m, move)
           D == (DOMAIN b) \X (DOMAIN m)
<1>1. PICK turn, inner, place : Visits(m, turn, inner, place, Described)
  BY Metadata
<1> DEFINE by == [p \in D |-> CHOOSE w \in ws : Asks(w, b[p[1]], move[At(b, p[1])])]
           tt == [p \in D |-> turn[p[2]]]
           ii == [p \in D |-> inner[p[2]]]
           pp == [p \in D |-> place[p[2]]]
<1> HIDE DEF m
<1>2. DOMAIN cs = D
  BY DEF Launch
<1>3. ASSUME NEW n \in DOMAIN m
      PROVE  /\ AState(turn[n], inner[n], place[n])
             /\ m[n] = Describe(turn[n], inner[n], StatesOf(turn[n], inner[n])[place[n]])
             /\ m[n].group = turn[n]
  <2> DEFINE i == turn[n] l == inner[n] k == place[n]
  <2>1. AState(i, l, k) /\ m[n] = Described[i][l][k]
    BY <1>1 DEF Visits
  <2> HIDE DEF i, l, k
  <2>2. Described[i][l][k] = Describe(i, l, StatesOf(i, l)[k])
    BY <2>1 DEF AState, Described
  <2>3. Describe(i, l, StatesOf(i, l)[k]).group = i
    BY DEF Describe
  <2>4. QED BY <2>1, <2>2, <2>3 DEF i, l, k
\* What the program of row x and slot n copies.
<1>4. ASSUME NEW x \in DOMAIN b, NEW n \in DOMAIN m, NEW w \in ws, Asks(w, b[x], move[At(b, x)])
      PROVE  cs[<<x, n>>] = Piece(w, turn[n], inner[n], place[n])
  <2> DEFINE i == turn[n] l == inner[n] k == place[n] s == StatesOf(i, l)[k]
             v == move[At(b, x)] blocks == table[b[x]][MambaGroupIds[i]]
  <2>1. /\ AState(i, l, k) /\ m[n] = Describe(i, l, s) /\ m[n].group = i
    BY <1>3
  <2>2. /\ l \in Nat \ {0} /\ s \in StateT /\ (s.conv => s.width > 0) /\ dimFirst \in BOOLEAN
        /\ w[4] \in Nat
    BY <2>1, StateFacts, Deployment DEF Sound
  <2>3. b[x] = w[1] /\ v = <<w[2], w[3], w[4]>>
    BY <1>4 DEF Asks
  <2>4. v # <<>> /\ v[1] = w[2] /\ v[2] = w[3] /\ v[3] = w[4]
    BY <2>3
  <2>5. cs[<<x, n>>] = IF v = <<>> THEN {} ELSE Program(m[n], blocks, v[1], v[2], v[3])
    <3>1. <<x, n>> \in D /\ <<x, n>>[1] = x /\ <<x, n>>[2] = n
      OBVIOUS
    <3>2. cs[<<x, n>>] = LET z == table[b[<<x, n>>[1]]][MambaGroupIds[m[<<x, n>>[2]].group]]
                             u == move[At(b, <<x, n>>[1])]
                         IN IF u = <<>> THEN {} ELSE Program(m[<<x, n>>[2]], z, u[1], u[2], u[3])
      BY <3>1, Zenon DEF Launch
    <3>3. QED BY <2>1, <3>1, <3>2
  <2> HIDE DEF i, l, k, s, v, blocks
  <2>6. cs[<<x, n>>] = Program(Describe(i, l, s), blocks, w[2], w[3], w[4])
    BY <2>1, <2>4, <2>5
  <2>7. Program(Describe(i, l, s), blocks, w[2], w[3], w[4]) = MeantState(l, s, blocks, w[2], w[3], w[4])
    <3> DEFINE c1 == w[2] c2 == w[3] c3 == w[4]
    <3>1. c3 \in Nat
      BY <2>2
    <3> HIDE DEF c1, c2, c3
    <3>2. Program(Describe(i, l, s), blocks, c1, c2, c3) = MeantState(l, s, blocks, c1, c2, c3)
      BY <2>2, <3>1, ProgramMeant
    <3>3. QED BY <3>2 DEF c1, c2, c3
  <2>8. blocks = table[w[1]][MambaGroupIds[i]]
    BY <2>3 DEF blocks
  <2>9. QED BY <2>6, <2>7, <2>8 DEF Piece, i, l, k, s
<1>5. ASSUME NEW p \in D
      PROVE  /\ p[1] \in DOMAIN b /\ p[2] \in DOMAIN m /\ p = <<p[1], p[2]>>
             /\ tt[p] = turn[p[2]] /\ ii[p] = inner[p[2]] /\ pp[p] = place[p[2]]
  OBVIOUS
<1>6. ASSUME NEW p \in D, cs[p] # {}
      PROVE  by[p] \in ws /\ Asks(by[p], b[p[1]], move[At(b, p[1])])
  <2>1. move[At(b, p[1])] # <<>>
    BY <1>6, Zenon DEF Launch
  <2>2. p[1] \in DOMAIN b
    OBVIOUS
  <2>3. \E w \in ws : Asks(w, b[p[1]], move[At(b, p[1])])
    BY <2>1, <2>2
  <2>4. by[p] = CHOOSE w \in ws : Asks(w, b[p[1]], move[At(b, p[1])])
    OBVIOUS
  <2> HIDE DEF by
  <2>5. QED BY <2>3, <2>4
<1> HIDE DEF cs, by, tt, ii, pp
<1>7. ASSUME NEW p \in D, cs[p] # {}
      PROVE  /\ by[p] \in ws /\ AState(tt[p], ii[p], pp[p])
             /\ cs[p] = Piece(by[p], tt[p], ii[p], pp[p])
  <2>1. cs[<<p[1], p[2]>>] = Piece(by[p], turn[p[2]], inner[p[2]], place[p[2]])
    BY <1>4, <1>5, <1>6, <1>7
  <2>2. AState(turn[p[2]], inner[p[2]], place[p[2]])
    BY <1>3, <1>5
  <2>3. QED BY <1>5, <1>6, <1>7, <2>1, <2>2
<1>8. ASSUME NEW p \in D, NEW q \in D, cs[p] # {}, cs[q] # {}, by[p][1] = by[q][1],
             tt[p] = tt[q], ii[p] = ii[q], pp[p] = pp[q]
      PROVE  p = q
  <2>1. b[p[1]] = b[q[1]]
    BY <1>6, <1>8 DEF Asks
  <2>2. p[1] = q[1]
    BY <1>5, <2>1 DEF IsInjective
  <2>3. p[2] = q[2]
    BY <1>1, <1>5, <1>8 DEF Visits
  <2>4. QED BY <1>5, <2>2, <2>3
<1>9. ASSUME NEW w \in ws, NEW i, NEW l, NEW k, AState(i, l, k)
      PROVE  \E p \in D : cs[p] = Piece(w, i, l, k)
  <2>1. PICK x \in DOMAIN b : Asks(w, b[x], move[At(b, x)])
    OBVIOUS
  <2>2. PICK n \in DOMAIN m : turn[n] = i /\ inner[n] = l /\ place[n] = k
    BY <1>1, <1>9 DEF Visits
  <2>3. cs[<<x, n>>] = Piece(w, i, l, k)
    BY <1>4, <2>1, <2>2
  <2>4. <<x, n>> \in D
    OBVIOUS
  <2>5. QED BY <2>3, <2>4
<1> HIDE DEF D
<1>10. Carries(cs, ws, by, tt, ii, pp)
  BY <1>2, <1>7, <1>8, <1>9 DEF Carries
<1>11. Right(cs, ws)
  BY <1>10, CarriedRight
<1>12. QED BY <1>11 DEF cs, m

\* A list, without drafts, holds the moves of its batch, and no more entries
\* than the buffers.
LEMMA ListRight ==
  ASSUME Deployed, runner = "list", NEW b \in Batches, NEW q, NEW ws, Sound(ws),
         ws = {<<r, Previous(r), Running(r, q[r]), 0>> : r \in {x \in Range(b) : Moves(x, q[x])}},
         \A r \in Range(b) : Moves(r, q[r]) => Previous(r) \in InReach
  PROVE  Right(Entries(b, q), ws) /\ Len(Entries(b, q)) <= Slots * EntriesPerReq
<1> DEFINE s == [x \in DOMAIN b |->
                   IF Moves(b[x], q[b[x]])
                   THEN CollectMambaCopyMeta(b[x], Previous(b[x]), Running(b[x], q[b[x]])) ELSE <<>>]
           cs == FlattenSeq(s)
           move(r) == <<r, Previous(r), Running(r, q[r]), 0>>
           K == EntriesPerReq
<1>1. PICK N \in 0 .. Slots : b \in [1 .. N -> Reqs]
  BY DEF Batches, SeqOf
<1>2. IsInjective(b) /\ DOMAIN b = 1 .. N /\ N \in Nat /\ N <= Slots /\ \A x \in 1 .. N : b[x] \in Reqs /\ b[x] \in Range(b)
  BY <1>1, ABatch, Sizes DEF Range
<1>3. Entries(b, q) = cs
  BY DEF Entries
<1>4. ASSUME NEW x \in 1 .. N, Moves(b[x], q[b[x]])
      PROVE  /\ move(b[x]) \in ws
             /\ Previous(b[x]) \in InReach /\ Running(b[x], q[b[x]]) \in InReach
             /\ InReach \subseteq Int
  <2>1. move(b[x]) \in ws
    BY <1>2, <1>4
  <2>2. move(b[x])[3] \in InReach
    BY <2>1 DEF Sound
  <2>3. move(b[x])[3] = Running(b[x], q[b[x]])
    OBVIOUS
  <2>4. InReach \subseteq Int
    BY Sizes DEF InReach
  <2>5. QED BY <1>2, <1>4, <2>1, <2>2, <2>3, <2>4
<1>5. ASSUME NEW x \in 1 .. N
      PROVE  s[x] \in Seq(Specs) /\ Len(s[x]) \in 0 .. K
  <2>1. K \in Nat
    BY Metadata
  <2>2. CASE Moves(b[x], q[b[x]])
    <3> DEFINE r == b[x] y == Previous(b[x]) z == Running(b[x], q[b[x]])
    <3>1. r \in Reqs /\ y \in Int /\ z \in Int /\ s[x] = CollectMambaCopyMeta(r, y, z)
      BY <1>2, <1>4, <2>2
    <3> HIDE DEF r, y, z, s
    <3>2. CollectMambaCopyMeta(r, y, z) \in Seq(Specs) /\ Len(CollectMambaCopyMeta(r, y, z)) = K
      BY <3>1, Collection
    <3>3. QED BY <2>1, <3>1, <3>2
  <2>3. CASE ~Moves(b[x], q[b[x]])
    <3>1. s[x] = <<>>
      BY <1>2, <2>3
    <3> HIDE DEF s, K
    <3>2. <<>> \in Seq(Specs) /\ Len(<<>>) = 0
      OBVIOUS
    <3>3. 0 \in 0 .. K
      BY <2>1
    <3>4. QED BY <3>1, <3>2, <3>3
  <2>4. QED BY <2>2, <2>3
<1>6. s \in [1 .. N -> Seq(Specs)]
  BY <1>2, <1>5
<1>7. Len(cs) <= Slots * K
  <2> DEFINE f == [x \in 1 .. N |-> Len(s[x])]
  <2>1. K \in Nat
    BY Metadata
  <2>2. \A x \in 1 .. N : f[x] \in 0 .. K
    BY <1>5
  <2>3. Len(cs) = SumFunctionOnSet(f, 1 .. N)
    <3> HIDE DEF s
    <3>1. QED BY <1>2, <1>6, FlattenLength
  <2> HIDE DEF f, K, cs
  <2>4. SumFunctionOnSet(f, 1 .. N) <= N * K
    BY <1>2, <2>1, <2>2, SumAtMost
  <2>5. N * K <= Slots * K /\ N * K \in Int /\ Slots * K \in Int
    BY <1>2, <2>1, Sizes, Monotone
  <2>6. SumFunctionOnSet(f, 1 .. N) \in Int
    BY <1>2, <2>1, <2>2, SumAtMost
  <2>7. QED BY <2>3, <2>4, <2>5, <2>6
<1>8. Right(cs, ws)
  <2> HIDE DEF s
  <2>1. \E u, v : Listed(cs, u, v, s, N)
    BY <1>2, <1>6, FlattenFrom, Zenon
  <2>2. PICK at, entry : Listed(cs, at, entry, s, N)
    BY <2>1
  <2> DEFINE seen(x) == Collected(b[x], Previous(b[x]), Running(b[x], q[b[x]]))
             ts == [x \in 1 .. N |-> CHOOSE t : \E u, v : Visits(s[x], t, u, v, seen(x))]
             us == [x \in 1 .. N |-> CHOOSE u : \E v : Visits(s[x], ts[x], u, v, seen(x))]
             vs == [x \in 1 .. N |-> CHOOSE v : Visits(s[x], ts[x], us[x], v, seen(x))]
  <2>3. ASSUME NEW x \in 1 .. N, Moves(b[x], q[b[x]])
        PROVE  Visits(s[x], ts[x], us[x], vs[x], seen(x))
    <3>1. \E t, u, v : Visits(s[x], t, u, v, seen(x))
      <4> DEFINE r == b[x] y == Previous(b[x]) z == Running(b[x], q[b[x]])
      <4>1. r \in Reqs /\ y \in Int /\ z \in Int /\ s[x] = CollectMambaCopyMeta(r, y, z)
        BY <1>2, <1>4, <2>3 DEF s
      <4>2. seen(x) = Collected(r, y, z)
        OBVIOUS
      <4> HIDE DEF r, y, z, seen
      <4>3. \E t, u, v : Visits(CollectMambaCopyMeta(r, y, z), t, u, v, Collected(r, y, z))
        BY <4>1, Collection, Zenon
      <4>4. QED BY <4>1, <4>2, <4>3, Zenon
    <3> HIDE DEF seen
    <3>2. \E u, v : Visits(s[x], ts[x], u, v, seen(x))
      BY <3>1, Zenon
    <3> HIDE DEF ts
    <3>3. \E v : Visits(s[x], ts[x], us[x], v, seen(x))
      BY <3>2, Zenon
    <3> HIDE DEF us
    <3>4. QED BY <3>3, Zenon
  <2> HIDE DEF ts, us, vs, cs
  <2> DEFINE D == DOMAIN cs
             by == [p \in D |-> move(b[at[p]])]
             tt == [p \in D |-> ts[at[p]][entry[p]]]
             ii == [p \in D |-> us[at[p]][entry[p]]]
             pp == [p \in D |-> vs[at[p]][entry[p]]]
  <2>4. ASSUME NEW p \in D
        PROVE  /\ at[p] \in 1 .. N /\ entry[p] \in DOMAIN s[at[p]] /\ cs[p] = s[at[p]][entry[p]]
               /\ Moves(b[at[p]], q[b[at[p]]]) /\ by[p] = move(b[at[p]])
               /\ tt[p] = ts[at[p]][entry[p]] /\ ii[p] = us[at[p]][entry[p]] /\ pp[p] = vs[at[p]][entry[p]]
    <3>1. at[p] \in 1 .. N /\ entry[p] \in DOMAIN s[at[p]] /\ cs[p] = s[at[p]][entry[p]]
      BY <2>2 DEF Listed
    <3>2. Moves(b[at[p]], q[b[at[p]]])
      <4>1. SUFFICES ASSUME ~Moves(b[at[p]], q[b[at[p]]]) PROVE FALSE
        OBVIOUS
      <4>2. s[at[p]] = <<>>
        BY <1>2, <3>1, <4>1 DEF s
      <4>3. QED BY <3>1, <4>2
    <3>3. QED BY <3>1, <3>2
  <2> HIDE DEF by, tt, ii, pp, D
\* An entry is the piece of its state.
  <2>5. ASSUME NEW x \in 1 .. N, Moves(b[x], q[b[x]]), NEW e \in DOMAIN s[x]
        PROVE  /\ AState(ts[x][e], us[x][e], vs[x][e])
               /\ s[x][e] = Piece(move(b[x]), ts[x][e], us[x][e], vs[x][e])
    <3> DEFINE i == ts[x][e] l == us[x][e] k == vs[x][e] r == b[x]
               y == Previous(b[x]) z == Running(b[x], q[b[x]])
               st == StatesOf(i, l)[k] blocks == table[r][MambaGroupIds[i]]
    <3>1. AState(i, l, k) /\ s[x][e] = Collected(r, y, z)[i][l][k]
      BY <2>3, <2>5 DEF Visits
    <3>2. r \in Reqs /\ y \in InReach /\ z \in InReach /\ y \in Int
      BY <1>2, <1>4, <2>5
    <3>3. /\ l \in Nat \ {0} /\ st \in StateT /\ (st.conv => st.width > 0) /\ dimFirst \in BOOLEAN
          /\ MambaGroupIds[i] \in DOMAIN groups
      BY <3>1, StateFacts, Deployment, Layers DEF AState
    <3>4. InPool(blocks[z + 1]) /\ InPool(blocks[y + 1])
      BY <3>2, <3>3, Deployment DEF InPool
    <3> HIDE DEF i, l, k, r, y, z
    <3>5. Collected(r, y, z)[i][l][k] = CopySpec(l, st, blocks, y, z)
      BY <3>1 DEF AState, Collected
    <3> HIDE DEF st, blocks
    <3>6. CopySpec(l, st, blocks, y, z) = MeantState(l, st, blocks, y, z, 0)
      BY <3>2, <3>3, <3>4, CopySpecMeant
    <3>7. move(b[x])[1] = r /\ move(b[x])[2] = y /\ move(b[x])[3] = z /\ move(b[x])[4] = 0
      BY DEF r, y, z
    <3>8. Piece(move(b[x]), i, l, k) = MeantState(l, st, blocks, y, z, 0)
      BY <3>7 DEF Piece, st, blocks
    <3>9. QED BY <3>1, <3>5, <3>6, <3>8 DEF i, l, k
  <2>6. ASSUME NEW p \in D
        PROVE  /\ by[p] \in ws /\ AState(tt[p], ii[p], pp[p])
               /\ cs[p] = Piece(by[p], tt[p], ii[p], pp[p])
    <3> DEFINE x == at[p] e == entry[p]
    <3>1. /\ x \in 1 .. N /\ Moves(b[x], q[b[x]]) /\ e \in DOMAIN s[x] /\ cs[p] = s[x][e]
          /\ by[p] = move(b[x]) /\ tt[p] = ts[x][e] /\ ii[p] = us[x][e] /\ pp[p] = vs[x][e]
      BY <2>4
    <3> HIDE DEF x, e, move
    <3>2. AState(ts[x][e], us[x][e], vs[x][e]) /\ s[x][e] = Piece(move(b[x]), ts[x][e], us[x][e], vs[x][e])
      BY <2>5, <3>1
    <3>3. move(b[x]) \in ws
      BY <1>4, <3>1
    <3>4. QED BY <3>1, <3>2, <3>3
  <2>7. ASSUME NEW p \in D, NEW o \in D, by[p][1] = by[o][1], tt[p] = tt[o], ii[p] = ii[o], pp[p] = pp[o]
        PROVE  p = o
    <3>1. by[p][1] = b[at[p]] /\ by[o][1] = b[at[o]] /\ at[p] \in 1 .. N /\ at[o] \in 1 .. N
      BY <2>4
    <3>2. at[p] = at[o]
      BY <1>2, <2>7, <3>1 DEF IsInjective
    <3>3. entry[p] = entry[o]
      <4> DEFINE x == at[p]
      <4>1. /\ Visits(s[x], ts[x], us[x], vs[x], seen(x)) /\ entry[p] \in DOMAIN s[x] /\ entry[o] \in DOMAIN s[x]
            /\ ts[x][entry[p]] = ts[x][entry[o]] /\ us[x][entry[p]] = us[x][entry[o]]
            /\ vs[x][entry[p]] = vs[x][entry[o]]
        BY <2>3, <2>4, <2>7, <3>2
      <4> HIDE DEF x, seen
      <4>2. QED BY <4>1 DEF Visits
    <3>4. QED BY <2>2, <3>2, <3>3 DEF Listed, D
  <2>8. ASSUME NEW w \in ws, NEW i, NEW l, NEW k, AState(i, l, k)
        PROVE  \E p \in D : cs[p] = Piece(w, i, l, k)
    <3>1. PICK r \in Range(b) : Moves(r, q[r]) /\ w = move(r)
      BY <2>8
    <3>2. PICK x \in 1 .. N : b[x] = r
      BY <1>2 DEF Range
    <3>3. Visits(s[x], ts[x], us[x], vs[x], seen(x))
      BY <2>3, <3>1, <3>2
    <3>4. PICK e \in DOMAIN s[x] : ts[x][e] = i /\ us[x][e] = l /\ vs[x][e] = k
      <4> HIDE DEF seen
      <4>1. QED BY <2>8, <3>3 DEF Visits
    <3>5. PICK p \in D : at[p] = x /\ entry[p] = e
      BY <2>2 DEF Listed, D
    <3>6. cs[p] = s[x][e]
      BY <2>4, <3>5
    <3>7. s[x][e] = Piece(move(b[x]), i, l, k)
      BY <2>5, <3>1, <3>2, <3>4
    <3>8. QED BY <3>1, <3>2, <3>6, <3>7
  <2>9. Carries(cs, ws, by, tt, ii, pp)
    <3>1. \A p \in D : /\ by[p] \in ws /\ AState(tt[p], ii[p], pp[p])
                       /\ cs[p] = Piece(by[p], tt[p], ii[p], pp[p])
      BY <2>6
    <3>2. \A p, o \in D : by[p][1] = by[o][1] /\ tt[p] = tt[o] /\ ii[p] = ii[o] /\ pp[p] = pp[o] => p = o
      BY <2>7
    <3>3. \A w \in ws : \A i, l, k : AState(i, l, k) => \E p \in D : cs[p] = Piece(w, i, l, k)
      BY <2>8
    <3>4. QED BY <3>1, <3>2, <3>3 DEF Carries, D
  <2>10. QED BY <2>9, CarriedRight
<1>9. QED BY <1>3, <1>7, <1>8

-----------------------------------------------------------------------------
(* Columns a request comes to.                                             *)

LEMMA Fewer ==
  ASSUME NEW k \in Int, NEW l \in Int, k * BlockSize < l * BlockSize + BlockSize
  PROVE  k <= l
<1>1. SUFFICES ASSUME l + 1 <= k PROVE FALSE
  OBVIOUS
<1>2. BlockSize \in Nat /\ BlockSize \in Int /\ 1 * BlockSize = BlockSize
  BY Sizes
<1>3. /\ (l + 1) * BlockSize <= k * BlockSize
      /\ (l + 1) * BlockSize = l * BlockSize + 1 * BlockSize
      /\ k * BlockSize \in Int /\ l * BlockSize \in Int
  BY <1>1, <1>2, Monotone, Distribute
<1> DEFINE u == k * BlockSize v == l * BlockSize w == (l + 1) * BlockSize
<1>4. u \in Int /\ v \in Int /\ w <= u /\ w = v + BlockSize /\ u < v + BlockSize
  BY <1>2, <1>3
<1> HIDE DEF u, v, w
<1>5. QED BY <1>2, <1>4

LEMMA LastColumn ==
  /\ CeilDiv(MaxTokens, BlockSize) \in Nat \ {0}
  /\ MaxTokens <= CeilDiv(MaxTokens, BlockSize) * BlockSize
  /\ InReach = 0 .. CeilDiv(MaxTokens, BlockSize) - 1
  /\ 0 \in InReach /\ InReach \subseteq Nat
<1> DEFINE C == CeilDiv(MaxTokens, BlockSize)
<1>1. C \in Int /\ MaxTokens <= C * BlockSize /\ MaxTokens \in Int /\ 1 <= MaxTokens
  BY Sizes, RoundedUp
<1> HIDE DEF C
<1>2. BlockSize \in Nat \ {0} /\ 1 * BlockSize = BlockSize
  BY Sizes
<1>3. C * BlockSize \in Int
  BY <1>1, <1>2
<1>4. 1 <= C
  <2>1. 1 * BlockSize < C * BlockSize + BlockSize
    BY <1>1, <1>2, <1>3
  <2>2. QED BY <1>1, <2>1, Fewer
<1>5. InReach = 0 .. C - 1
  BY DEF InReach, C
<1>6. QED BY <1>1, <1>4, <1>5 DEF C

\* The column of a token, counted from the first.
LEMMA ColumnOf ==
  ASSUME NEW k \in Int, NEW n \in Int, 1 <= n, n <= MaxTokens,
         k * BlockSize < n + BlockSize, n <= k * BlockSize
  PROVE  k - 1 \in InReach
<1> DEFINE C == CeilDiv(MaxTokens, BlockSize)
           u == k * BlockSize
           v == C * BlockSize
<1>1. /\ C \in Nat \ {0} /\ MaxTokens <= v /\ InReach = 0 .. C - 1
      /\ BlockSize \in Nat \ {0} /\ MaxTokens \in Int
  BY LastColumn, Sizes
<1> HIDE DEF C
<1>2. u \in Int /\ v \in Int /\ u < n + BlockSize /\ n <= u
  BY <1>1
<1> HIDE DEF u, v
<1>3. u < v + BlockSize
  BY <1>1, <1>2
<1>4. k <= C
  BY <1>1, <1>3, Fewer DEF u, v
<1>5. 1 <= k
  <2>1. 1 * BlockSize = BlockSize
    BY <1>1
  <2>2. BlockSize < u + BlockSize
    BY <1>1, <1>2
  <2>3. 1 * BlockSize < k * BlockSize + BlockSize
    BY <2>1, <2>2 DEF u
  <2>4. QED BY <2>3, Fewer
<1>6. QED BY <1>1, <1>4, <1>5

LEMMA CeilBelow ==
  ASSUME NEW n \in Int
  PROVE  CeilDiv(n, BlockSize) * BlockSize < n + BlockSize
<1>1. BlockSize \in Nat \ {0}
  BY Sizes
<1> DEFINE m == n + BlockSize - 1
<1>2. m \in Int /\ n + BlockSize = m + 1
  BY <1>1
<1> HIDE DEF m
<1>3. m \div BlockSize \in Int /\ (m \div BlockSize) * BlockSize <= m
      /\ (m \div BlockSize) * BlockSize \in Int
  BY <1>2, Quotient
<1>4. (m \div BlockSize) * BlockSize < n + BlockSize
  BY <1>1, <1>2, <1>3
<1>5. QED BY <1>4 DEF CeilDiv, m

\* The last column of some tokens, and the one their last token is in.
LEMMA InReachOf ==
  ASSUME NEW n \in Int, n <= MaxTokens
  PROVE  /\ 1 <= n => CeilDiv(n, BlockSize) - 1 \in InReach
         /\ 0 <= n => (n - 1) \div BlockSize \in InReach \cup {-1}
<1>1. ASSUME 1 <= n PROVE CeilDiv(n, BlockSize) - 1 \in InReach
  BY <1>1, RoundedUp, CeilBelow, ColumnOf
<1>2. ASSUME 0 <= n PROVE (n - 1) \div BlockSize \in InReach \cup {-1}
  <2> DEFINE m == n - 1
             k == m \div BlockSize
             u == k * BlockSize
  <2>1. m \in Int
    OBVIOUS
  <2> HIDE DEF m
  <2>2. k \in Int /\ u \in Int /\ u <= m /\ m < u + BlockSize /\ BlockSize \in Nat \ {0}
    BY <2>1, Quotient, Sizes
  <2> HIDE DEF k
  <2>3. (k + 1) * BlockSize = u + BlockSize
    <3>1. (k + 1) * BlockSize = k * BlockSize + 1 * BlockSize /\ 1 * BlockSize = BlockSize
      BY <2>2, Distribute
    <3>2. QED BY <3>1
  <2>4. CASE 1 <= n
    <3> DEFINE l == k + 1
    <3>1. l \in Int /\ l * BlockSize = u + BlockSize
      BY <2>2, <2>3
    <3> HIDE DEF l, u
    <3>2. l * BlockSize < n + BlockSize /\ n <= l * BlockSize
      BY <2>1, <2>2, <3>1 DEF m
    <3>3. l - 1 \in InReach
      BY <2>4, <3>1, <3>2, ColumnOf
    <3>4. l - 1 = k
      BY <2>2 DEF l
    <3>5. QED BY <3>3, <3>4 DEF k, m
  <2>5. CASE n = 0
    <3>1. 0 * BlockSize = 0 /\ (-1) * BlockSize = -BlockSize
      BY <2>2
    <3> DEFINE o == -1
    <3>2. o \in Int /\ o * BlockSize = -BlockSize /\ k * BlockSize = u /\ m = -1
      BY <2>5, <3>1 DEF m
    <3> HIDE DEF u
    <3>3. k * BlockSize < o * BlockSize + BlockSize
      BY <2>2, <3>2
    <3>4. o * BlockSize < k * BlockSize + BlockSize
      BY <2>2, <3>2
    <3> HIDE DEF o
    <3>5. k <= o /\ o <= k
      BY <2>2, <3>2, <3>3, <3>4, Fewer
    <3>6. k = -1
      BY <2>2, <3>2, <3>5 DEF o
    <3>7. QED BY <3>6 DEF k, m
  <2>6. QED BY <1>2, <2>4, <2>5
<1>3. QED BY <1>1, <1>2

\* The kernel's boundary is the one that the accepted tokens reach, if any;
\* there is no second one, a block being longer than what a step accepts.
LEMMA BoundaryReached ==
  ASSUME NEW S \in Nat \ {0}, NEW n \in 1 .. MaxDrafts + 1, S + n - 1 <= MaxTokens,
         NEW v \in Row, Settled(v, n) = S
  PROVE  /\ Boundary(v, n) \in Int
         /\ Saves(v, n) => /\ Boundary(v, n) \in S .. S + n - 1
                           /\ Boundary(v, n) % BlockSize = 0 /\ Boundary(v, n) > 0
                           /\ SavedAt(v, n) \in InReach
         /\ \A m \in S .. S + n - 1 :
              m % BlockSize = 0 /\ m > 0 => Saves(v, n) /\ m = Boundary(v, n)
<1> DEFINE last == S + n - 1
           K == last \div BlockSize
           B == K * BlockSize
<1>1. S \in Nat /\ S > 0 /\ last \in Nat /\ S <= last /\ last < S + BlockSize
      /\ last <= MaxTokens /\ MaxTokens \in Int /\ BlockSize \in Nat
  BY Sizes
<1>2. Settled(v, n) = S /\ Boundary(v, n) = B
  BY DEF Boundary
<1> HIDE DEF K, last
<1>3. K \in Int /\ B \in Int /\ B <= last /\ last < B + BlockSize
  BY <1>1, Quotient DEF K
<1>4. B % BlockSize = 0 /\ B \div BlockSize = K
  BY <1>3, Multiple
<1>5. SavedAt(v, n) = K - 1 /\ (Saves(v, n) <=> B >= S)
  BY <1>2, <1>4 DEF SavedAt, Saves
<1> HIDE DEF B
<1>6. ASSUME B >= S PROVE B \in S .. last /\ B > 0 /\ K - 1 \in InReach
  <2>1. B \in S .. last /\ B > 0
    BY <1>1, <1>3, <1>6
  <2>2. 1 <= B /\ B <= MaxTokens /\ B < B + BlockSize
    BY <1>1, <1>3, <2>1
  <2>3. K - 1 \in InReach
    BY <1>3, <2>2, ColumnOf DEF B
  <2>4. QED BY <2>1, <2>3
<1>7. ASSUME NEW m \in S .. last, m % BlockSize = 0
      PROVE  B >= S /\ m = B
  <2> DEFINE k == m \div BlockSize
  <2>1. m \in Int /\ k \in Int /\ m = k * BlockSize
    BY <1>1, <1>7, Whole, Quotient
  <2> HIDE DEF k
  <2>2. m <= last /\ last < m + BlockSize
    BY <1>1, <1>7, <2>1
  <2>3. K = k
    BY <1>1, <1>3, <2>1, <2>2, Between DEF B
  <2>4. QED BY <1>1, <2>1, <2>3 DEF B
<1>8. QED BY <1>2, <1>3, <1>4, <1>5, <1>6, <1>7 DEF last

-----------------------------------------------------------------------------
(* The invariant of the moves.                                             *)

Kept ==
  /\ \A r \in Reqs : computed[r] <= MaxTokens /\ column[r] \in InReach \cup {None, -1}
  /\ phase = "computing" => \A r \in Range(batch) : computed[r] + queries[r] <= MaxTokens
  /\ runner = "v2" => left = {} /\ \A r \in Reqs : column[r] # None
  /\ \A r \in Reqs : accepted[r] >= 1 /\ (runner = "list" => accepted[r] = 1)

Prepared ==
  /\ meta \in {<<>>, PopulateMetadata}
  /\ phase = "computing" /\ batch # <<>> /\ runner # "list" => meta = PopulateMetadata

MInv == BInv /\ Deployed /\ Kept /\ Prepared /\ RightMoves /\ ListFits

\* What the steps leave fixed fixes the rest.
LEMMA Unchanged ==
  ASSUME UNCHANGED fixed
  PROVE  /\ PopulateMetadata' = PopulateMetadata /\ EntriesPerReq' = EntriesPerReq
         /\ \A w : Meant(w)' = Meant(w)
         /\ Deployed => Deployed'
<1>1. groups' = groups /\ dimFirst' = dimFirst /\ runner' = runner /\ table' = table
  BY DEF fixed
<1>2. MambaGroupIds' = MambaGroupIds
  BY <1>1 DEF MambaGroupIds, GetMambaGroups
<1>3. EntriesPerReq' = EntriesPerReq
  BY <1>1, <1>2 DEF EntriesPerReq
<1>4. PopulateMetadata' = PopulateMetadata
  BY <1>1, <1>2 DEF PopulateMetadata, Describe
<1>5. ASSUME NEW w PROVE Meant(w)' = Meant(w)
  BY <1>1 DEF Meant, MeantState, Element
<1>6. Deployed => Deployed'
  BY <1>1 DEF Deployed
<1>7. QED BY <1>3, <1>4, <1>5, <1>6

\* Copies as wanted, said of the next state.
LEMMA RightNext ==
  ASSUME UNCHANGED fixed, Right(copies', want')
  PROVE  RightMoves'
<1> DEFINE M == UNION {Meant(w) : w \in want'}
<1>1. \A w : Meant(w)' = Meant(w)
  BY Unchanged
<1>2. (UNION {Meant(w) : w \in want})' = UNION {Meant(w)' : w \in want'}
  OBVIOUS
<1>3. UNION {Meant(w)' : w \in want'} = M
  BY <1>1
<1>4. UNION Range(copies') = M /\ \A p, q \in DOMAIN copies' : p # q => copies'[p] \cap copies'[q] = {}
  BY DEF Right
<1>5. QED BY <1>2, <1>3, <1>4 DEF RightMoves

LEMMA NoCopies ==
  ASSUME UNCHANGED fixed, copies' = <<>>, want' = {}
  PROVE  RightMoves'
<1>1. Range(<<>>) = {} /\ DOMAIN <<>> = {}
  BY DEF Range
<1>2. UNION {Meant(w) : w \in {}} = {} /\ UNION {} = {}
  OBVIOUS
<1>3. Right(<<>>, {})
  BY <1>1, <1>2 DEF Right
<1>4. QED BY <1>3, RightNext

LEMMA InitMInv == Init => MInv
<1> SUFFICES ASSUME Init PROVE MInv
  OBVIOUS
<1>1. BInv
  BY InitBInv
<1>2. Deployed
  BY DEF Init, Deployed
<1>3. BlockSize \in Nat /\ BlockSize <= MaxTokens /\ MaxTokens \in Nat
  BY Sizes
<1>4. ASSUME NEW r \in Reqs
      PROVE  /\ computed[r] \in Int /\ 0 <= computed[r] /\ computed[r] <= MaxTokens
             /\ (computed[r] - 1) \div BlockSize \in InReach \cup {-1}
  <2>1. computed[r] \in Int /\ 0 <= computed[r] /\ computed[r] <= MaxTokens
    BY <1>3 DEF Init
  <2> DEFINE n == computed[r]
  <2> HIDE DEF n
  <2>2. (n - 1) \div BlockSize \in InReach \cup {-1}
    BY <2>1, InReachOf DEF n
  <2>3. QED BY <2>1, <2>2 DEF n
<1>5. InReach \subseteq Nat
  BY LastColumn
<1>6. Kept
  <2>1. \A r \in Reqs : column[r] = IF runner = "v2" THEN (computed[r] - 1) \div BlockSize ELSE None
    BY DEF Init
  <2>2. \A r \in Reqs : column[r] \in InReach \cup {None, -1} /\ (runner = "v2" => column[r] # None)
    BY <1>4, <1>5, <2>1 DEF None
  <2>3. phase # "computing" /\ left = {} /\ \A r \in Reqs : accepted[r] = 1
    BY DEF Init
  <2>4. QED BY <1>4, <2>2, <2>3 DEF Kept
<1>7. Prepared
  BY DEF Init, Prepared
<1>8. RightMoves /\ ListFits
  <2>1. Range(<<>>) = {} /\ DOMAIN <<>> = {} /\ Len(<<>>) = 0
    BY DEF Range
  <2>2. copies = <<>> /\ want = {} /\ list = <<>> /\ meta = <<>>
    BY DEF Init
  <2>3. RightMoves
    BY <2>1, <2>2 DEF RightMoves
  <2>4. EntriesPerReq \in Nat
    BY <1>2, Metadata
  <2>5. 0 <= Slots * EntriesPerReq
    BY <2>4, Sizes
  <2>6. QED BY <2>1, <2>2, <2>3, <2>5 DEF ListFits
<1>9. QED BY <1>1, <1>2, <1>6, <1>7, <1>8 DEF MInv

\* Where the state of a request is, and where it goes.
LEMMA Whereabouts ==
  ASSUME BInv, Kept, NEW r \in Reqs
  PROVE  /\ Previous(r) \in InReach \cup {-1}
         /\ \A n \in Nat \ {0} : computed[r] + n <= MaxTokens => Running(r, n) \in InReach
<1>1. computed[r] \in Nat /\ computed[r] <= MaxTokens /\ column[r] \in InReach \cup {None, -1}
  BY DEF BInv, Typed, Kept
<1>2. (computed[r] - 1) \div BlockSize \in InReach \cup {-1}
  <2> DEFINE n == computed[r]
  <2>1. n \in Int /\ 0 <= n /\ n <= MaxTokens
    BY <1>1
  <2> HIDE DEF n
  <2>2. (n - 1) \div BlockSize \in InReach \cup {-1}
    BY <2>1, InReachOf
  <2>3. QED BY <2>2 DEF n
<1>3. ASSUME NEW n \in Nat \ {0}, computed[r] + n <= MaxTokens PROVE Running(r, n) \in InReach
  <2> DEFINE m == computed[r] + n
  <2>1. m \in Int /\ 1 <= m /\ m <= MaxTokens
    BY <1>1, <1>3
  <2> HIDE DEF m
  <2>2. CeilDiv(m, BlockSize) - 1 \in InReach
    BY <2>1, InReachOf
  <2>3. QED BY <2>2 DEF m, Running
<1>4. QED BY <1>1, <1>2, <1>3 DEF Previous

LEMMA RowMoved ==
  ASSUME NEW v \in Row, NEW c \in Int, NEW s \in Int, NEW b \in Int
  PROVE  /\ RowMoving(v, c, s, b).col = c /\ RowMoving(v, c, s, b).src = s
         /\ RowMoving(v, c, s, b).bias = b
BY DEF Row, RowMoving

\* A step that begins: where its requests were, and where they come.
LEMMA Beginning ==
  ASSUME BInv, Kept, NEW b \in Batches, NEW q \in [Range(b) -> Chunks], NEW d \in [Range(b) -> 0 .. MaxDrafts],
         Preprocess(b, q, d)
  PROVE  /\ \A r \in Range(b) :
              /\ r \in Reqs /\ q[r] \in Chunks /\ Running(r, q[r]) \in InReach
              /\ Previous(r) \in InReach \cup {-1} /\ accepted[r] - 1 \in Nat
              /\ computed[r] + q[r] <= MaxTokens
              /\ runner = "list" => accepted[r] - 1 = 0
         /\ Sound(want') /\ InReach \subseteq Nat
         /\ want' = {<<r, Previous(r), Running(r, q[r]), accepted[r] - 1>> :
                       r \in {x \in Range(b) : Moves(x, q[x])}}
<1>1. InReach \subseteq Nat
  BY LastColumn
<1>2. ASSUME NEW r \in Range(b)
      PROVE  /\ r \in Reqs /\ q[r] \in Chunks /\ Running(r, q[r]) \in InReach
             /\ Previous(r) \in InReach \cup {-1} /\ accepted[r] - 1 \in Nat
             /\ computed[r] + q[r] <= MaxTokens
             /\ runner = "list" => accepted[r] - 1 = 0
  <2>1. r \in Reqs /\ q[r] \in Chunks /\ q[r] \in Nat \ {0} /\ computed[r] + q[r] <= MaxTokens
    BY ABatch, Sizes DEF Preprocess
  <2>2. accepted[r] \in Nat /\ accepted[r] >= 1 /\ (runner = "list" => accepted[r] = 1)
    BY <2>1 DEF BInv, Typed, Kept
  <2>3. QED BY <2>1, <2>2, Whereabouts
<1>3. want' = {<<r, Previous(r), Running(r, q[r]), accepted[r] - 1>> :
                 r \in {x \in Range(b) : Moves(x, q[x])}}
  BY DEF Preprocess
<1>4. Sound(want')
  <2>1. SUFFICES ASSUME NEW w \in want' PROVE w[1] \in Reqs /\ w[3] \in InReach /\ w[4] \in Nat
    BY DEF Sound
  <2>2. PICK r \in Range(b) : w = <<r, Previous(r), Running(r, q[r]), accepted[r] - 1>>
    BY <1>3
  <2>3. w[1] = r /\ w[3] = Running(r, q[r]) /\ w[4] = accepted[r] - 1
    BY <2>2
  <2>4. QED BY <1>2, <2>3
<1>5. QED BY <1>1, <1>2, <1>3, <1>4

\* The staged values of a row, or slot, are its request's move.
LEMMA StagedMove ==
  ASSUME BInv, Kept, runner # "list", NEW b \in Batches, NEW q \in [Range(b) -> Chunks],
         NEW d \in [Range(b) -> 0 .. MaxDrafts], Preprocess(b, q, d), NEW x \in DOMAIN b
  PROVE  PrecopyMove(rows')[At(b, x)] =
           IF Moves(b[x], q[b[x]])
           THEN <<Previous(b[x]), Running(b[x], q[b[x]]), accepted[b[x]] - 1>> ELSE <<>>
<1> DEFINE r == b[x] i == At(b, x) y == Previous(r) z == Running(r, q[r]) n == accepted[r] - 1
           m == Moves(r, q[r])
           src == IF runner = "v2" THEN column[r] ELSE IF m THEN y ELSE -1
           bias == IF runner = "v2" THEN n ELSE IF m THEN n ELSE 0
<1>1. runner \in {"v1", "v2"}
  BY DEF BInv, Typed
<1>2. x \in Reqs /\ r \in Range(b) /\ r \in Reqs /\ i \in Reqs /\ rows[i] \in Row
  BY <1>1, ABatch DEF Range, At, BInv, Typed
<1>3. /\ y \in InReach \cup {-1} /\ z \in InReach /\ InReach \subseteq Nat /\ n \in Nat
  BY <1>2, Beginning
<1>4. m <=> y # -1 /\ y # z
  BY DEF Moves
<1>5. runner = "v2" => y = column[r] /\ column[r] \in InReach \cup {-1}
  BY <1>2, <1>3 DEF Previous, Kept
<1> HIDE DEF m, y, z, n, r
<1>6. src \in Int /\ bias \in Int /\ z \in Int
  BY <1>3, <1>5
<1>7. rows'[i] = RowMoving(rows[i], z, src, bias)
  <2>1. CASE runner = "v1"
    <3>1. i = x /\ rows' = Staged(b, q)
      BY <2>1 DEF At, Preprocess
    <3>2. Staged(b, q)[x] = RowMoving(rows[x], z, src, bias)
      BY <1>2, <2>1 DEF Staged, RowMoving, m, y, z, n, r
    <3>3. QED BY <3>1, <3>2
  <2>2. CASE runner = "v2"
    <3>1. i = r /\ rows' = StagedSlots(b, q)
      BY <2>2 DEF At, Preprocess, r
    <3>2. StagedSlots(b, q)[r] = RowMoving(rows[r], z, src, bias)
      BY <1>2, <2>2 DEF StagedSlots, RowMoving, z, n
    <3>3. QED BY <3>1, <3>2
  <2>3. QED BY <1>1, <2>1, <2>2
<1> HIDE DEF i
<1>8. rows'[i].col = z /\ rows'[i].src = src /\ rows'[i].bias = bias
  <2> HIDE DEF src, bias
  <2>1. QED BY <1>2, <1>6, <1>7, RowMoved
<1>9. PrecopyMove(rows')[i] = IF src < 0 \/ src = z THEN <<>> ELSE <<src, z, bias>>
  BY <1>2, <1>8 DEF PrecopyMove
<1>10. PrecopyMove(rows')[i] = IF m THEN <<y, z, n>> ELSE <<>>
  <2>1. CASE runner = "v2"
    <3>1. src = y /\ bias = n
      BY <1>5, <2>1
    <3>2. (src < 0 \/ src = z) <=> ~m
      BY <1>3, <1>4, <3>1
    <3>3. QED BY <1>9, <3>1, <3>2
  <2>2. CASE runner = "v1" /\ m
    <3>1. src = y /\ bias = n
      BY <2>2
    <3>2. ~(src < 0 \/ src = z)
      BY <1>3, <1>4, <2>2, <3>1
    <3>3. QED BY <1>9, <2>2, <3>1, <3>2
  <2>3. CASE runner = "v1" /\ ~m
    <3>1. src = -1
      BY <2>3
    <3>2. QED BY <1>9, <2>3, <3>1
  <2>4. QED BY <1>1, <2>1, <2>2, <2>3
<1>11. QED BY <1>10 DEF i, m, y, z, n, r

LEMMA PreprocessRight ==
  ASSUME MInv, NEW b \in Batches, NEW q \in [Range(b) -> Chunks], NEW d \in [Range(b) -> 0 .. MaxDrafts],
         Preprocess(b, q, d)
  PROVE  RightMoves' /\ ListFits' /\ Prepared' /\ Deployed'
<1>1. UNCHANGED fixed /\ runner' = runner /\ phase' = "computing" /\ batch' = b
  BY DEF Preprocess, fixed
<1>2. Deployed' /\ PopulateMetadata' = PopulateMetadata /\ EntriesPerReq' = EntriesPerReq
  BY <1>1, Unchanged DEF MInv
<1>3. BInv /\ Kept /\ Deployed /\ Prepared
  BY DEF MInv
<1>4. /\ \A r \in Range(b) :
           /\ r \in Reqs /\ Previous(r) \in InReach \cup {-1} /\ accepted[r] - 1 \in Nat
           /\ runner = "list" => accepted[r] - 1 = 0
      /\ Sound(want')
      /\ want' = {<<r, Previous(r), Running(r, q[r]), accepted[r] - 1>> :
                    r \in {x \in Range(b) : Moves(x, q[x])}}
  BY <1>3, Beginning
<1>5. meta' \in {<<>>, PopulateMetadata} /\ (b # <<>> /\ runner # "list" => meta' = PopulateMetadata)
  BY <1>3 DEF Preprocess, Prepared
<1>6. Prepared'
  BY <1>1, <1>2, <1>5 DEF Prepared
<1>7. EntriesPerReq \in Nat /\ Len(PopulateMetadata) = EntriesPerReq /\ 0 <= Slots * EntriesPerReq
  <2>1. EntriesPerReq \in Nat /\ Len(PopulateMetadata) = EntriesPerReq
    BY <1>3, Metadata
  <2>2. QED BY <2>1, Sizes
<1>8. Len(meta') \in {0, EntriesPerReq}
  BY <1>5, <1>7
<1>9. CASE runner = "list"
  <2>1. copies' = Entries(b, q) /\ list' = Entries(b, q)
    BY <1>9 DEF Preprocess
  <2>2. want' = {<<r, Previous(r), Running(r, q[r]), 0>> : r \in {x \in Range(b) : Moves(x, q[x])}}
    <3>1. \A r \in {x \in Range(b) : Moves(x, q[x])} :
            <<r, Previous(r), Running(r, q[r]), accepted[r] - 1>> = <<r, Previous(r), Running(r, q[r]), 0>>
      BY <1>4, <1>9
    <3>2. QED BY <1>4, <3>1
  <2>3. \A r \in Range(b) : Moves(r, q[r]) => Previous(r) \in InReach
    BY <1>4 DEF Moves
  <2>4. Right(Entries(b, q), want') /\ Len(Entries(b, q)) <= Slots * EntriesPerReq
    BY <1>3, <1>4, <1>9, <2>2, <2>3, ListRight
  <2>5. RightMoves'
    BY <1>1, <2>1, <2>4, RightNext
  <2>6. ListFits'
    BY <1>2, <1>8, <2>1, <2>4 DEF ListFits
  <2>7. QED BY <1>2, <1>6, <2>5, <2>6
<1>10. CASE runner # "list"
  <2>1. copies' = Launch(b, meta', PrecopyMove(rows')) /\ list' = <<>>
    BY <1>10 DEF Preprocess
  <2>2. ListFits'
    BY <1>2, <1>7, <1>8, <2>1 DEF ListFits
  <2>3. CASE b = <<>>
    <3>1. Range(b) = {} /\ DOMAIN b = {}
      BY <2>3 DEF Range
    <3>2. want' = {}
      BY <1>4, <3>1
    <3>3. DOMAIN copies' = {}
      BY <2>1, <3>1 DEF Launch
    <3>4. Right(copies', want')
      BY <3>2, <3>3 DEF Right, Range
    <3>5. QED BY <1>1, <1>2, <1>6, <2>2, <3>4, RightNext
  <2>4. CASE b # <<>>
    <3> DEFINE move == PrecopyMove(rows')
    <3>1. meta' = PopulateMetadata
      BY <1>5, <1>10, <2>4
    <3>2. \A x \in DOMAIN b : move[At(b, x)] =
            IF Moves(b[x], q[b[x]])
            THEN <<Previous(b[x]), Running(b[x], q[b[x]]), accepted[b[x]] - 1>> ELSE <<>>
      BY <1>3, <1>10, StagedMove
    <3> HIDE DEF move
    <3>3. ASSUME NEW r, NEW w, w = <<r, Previous(r), Running(r, q[r]), accepted[r] - 1>>
          PROVE  Asks(w, r, <<Previous(r), Running(r, q[r]), accepted[r] - 1>>)
      BY <3>3 DEF Asks
    <3>4. ASSUME NEW x \in DOMAIN b, move[At(b, x)] # <<>>
          PROVE  \E w \in want' : Asks(w, b[x], move[At(b, x)])
      <4> DEFINE w == <<b[x], Previous(b[x]), Running(b[x], q[b[x]]), accepted[b[x]] - 1>>
      <4>1. Moves(b[x], q[b[x]])
        BY <3>2, <3>4
      <4>2. w \in want'
        BY <1>4, <4>1 DEF Range
      <4>3. Asks(w, b[x], move[At(b, x)])
        BY <3>2, <3>3, <4>1
      <4>4. QED BY <4>2, <4>3
    <3>5. ASSUME NEW w \in want'
          PROVE  \E x \in DOMAIN b : Asks(w, b[x], move[At(b, x)])
      <4>1. PICK r \in Range(b) : Moves(r, q[r]) /\ w = <<r, Previous(r), Running(r, q[r]), accepted[r] - 1>>
        BY <1>4
      <4>2. PICK x \in DOMAIN b : b[x] = r
        BY DEF Range
      <4>3. move[At(b, x)] = <<Previous(r), Running(r, q[r]), accepted[r] - 1>>
        BY <3>2, <4>1, <4>2
      <4>4. QED BY <3>3, <4>1, <4>2, <4>3
    <3>6. IsInjective(b) /\ Range(b) \subseteq Reqs
      BY ABatch
    <3>7. Right(Launch(b, PopulateMetadata, move), want')
      <4> DEFINE ws == want'
      <4>1. /\ Sound(ws)
            /\ \A x \in DOMAIN b : move[At(b, x)] # <<>> => \E w \in ws : Asks(w, b[x], move[At(b, x)])
            /\ \A w \in ws : \E x \in DOMAIN b : Asks(w, b[x], move[At(b, x)])
        BY <1>4, <3>4, <3>5
      <4> HIDE DEF ws
      <4>2. Right(Launch(b, PopulateMetadata, move), ws)
        BY <1>3, <3>6, <4>1, LaunchRight
      <4>3. QED BY <4>2 DEF ws
    <3>8. RightMoves'
      BY <1>1, <2>1, <3>1, <3>7, RightNext DEF move
    <3>9. QED BY <1>2, <1>6, <2>2, <3>8
  <2>5. QED BY <2>3, <2>4
<1>11. QED BY <1>9, <1>10

LEMMA PreprocessKept ==
  ASSUME MInv, NEW b \in Batches, NEW q \in [Range(b) -> Chunks], NEW d \in [Range(b) -> 0 .. MaxDrafts],
         Preprocess(b, q, d)
  PROVE  Kept'
<1>1. BInv /\ Kept
  BY DEF MInv
<1>2. \A r \in Range(b) : r \in Reqs /\ Running(r, q[r]) \in InReach /\ computed[r] + q[r] <= MaxTokens
  BY <1>1, Beginning
<1>3. InReach \subseteq Nat
  BY LastColumn
<1>4. /\ runner' = runner /\ computed' = computed /\ batch' = b /\ left' = {}
      /\ \A r \in Reqs : /\ column'[r] = IF r \in Range(b) THEN Running(r, q[r])
                                         ELSE IF r \in left THEN None ELSE column[r]
                         /\ accepted'[r] = IF r \in Range(b) /\ Moves(r, q[r]) THEN 1 ELSE accepted[r]
                         /\ r \in Range(b) => queries'[r] = q[r]
  BY DEF Preprocess, fixed
<1>5. ASSUME NEW r \in Reqs
      PROVE  /\ column'[r] \in InReach \cup {None, -1}
             /\ runner = "v2" => column'[r] # None
             /\ accepted'[r] >= 1 /\ (runner = "list" => accepted'[r] = 1)
  <2>1. /\ column[r] \in InReach \cup {None, -1} /\ accepted[r] >= 1
        /\ runner = "list" => accepted[r] = 1
        /\ runner = "v2" => left = {} /\ column[r] # None
    BY <1>1 DEF Kept
  <2>2. accepted'[r] \in {1, accepted[r]}
    BY <1>4
  <2>3. accepted'[r] >= 1 /\ (runner = "list" => accepted'[r] = 1)
    BY <2>1, <2>2
  <2>4. CASE r \in Range(b)
    <3>1. column'[r] \in InReach
      BY <1>2, <1>4, <2>4
    <3>2. column'[r] # None
      BY <1>3, <3>1 DEF None
    <3>3. QED BY <2>3, <3>1, <3>2
  <2>5. CASE r \notin Range(b)
    BY <1>4, <2>1, <2>3, <2>5
  <2>6. QED BY <2>4, <2>5
<1>6. \A r \in Reqs : computed'[r] <= MaxTokens
  BY <1>1, <1>4 DEF Kept
<1>7. \A r \in Range(batch') : computed'[r] + queries'[r] <= MaxTokens
  BY <1>2, <1>4
<1>8. QED BY <1>4, <1>5, <1>6, <1>7 DEF Kept

-----------------------------------------------------------------------------
(* The step that ends.                                                     *)

\* The state that the kernel saves of a row.
Saved(r, v, n) == <<r, v.col, SavedAt(v, n), Boundary(v, n) - Settled(v, n)>>

\* What is staged of a row is what its request shall have saved.
LEMMA SavedMove ==
  ASSUME BInv, Kept, phase = "computing", runner # "list", NEW a \in [Range(batch) -> 1 .. MaxDrafts + 1],
         NEW x \in DOMAIN batch, a[batch[x]] <= drafts[batch[x]] + 1
  PROVE  LET r == batch[x]
             v == StagedPost(batch, a)[At(batch, x)]
             w == Saved(r, v, a[r])
             still == w[2] = w[3] /\ w[4] = 0
         IN /\ WantsPost(r, a) = IF Saves(v, a[r]) THEN {w} ELSE {}
            /\ Saves(v, a[r]) => w[3] \in InReach /\ w[4] \in Nat
            /\ PostMove(StagedPost(batch, a), CountsRead(batch, a))[At(batch, x)]
                 = IF Saves(v, a[r]) /\ ~still THEN <<w[2], w[3], w[4]>> ELSE <<>>
<1> DEFINE r == batch[x] k == At(batch, x) v == StagedPost(batch, a)[k] n == a[r]
           c == computed[r] q == queries[r] d == drafts[r] col == column[r] w == Saved(r, v, n)
           S == c + q - d
           B == Boundary(v, n)
<1>1. /\ r \in Range(batch) /\ r \in Reqs /\ c \in Nat /\ q \in Nat /\ d \in Nat /\ n \in 1 .. MaxDrafts + 1
      /\ d < q /\ n <= d + 1 /\ c + q <= MaxTokens
  <2>1. r \in Range(batch) /\ r \in Reqs
    BY DEF BInv, Typed, Range
  <2>2. QED BY <2>1 DEF BInv, Typed, Staging, Kept
<1>2. /\ k \in Reqs /\ CountsRead(batch, a)[k] = n /\ v \in Row
      /\ v.col = col /\ Settled(v, n) = S
  BY PostRow
<1>3. PostMove(StagedPost(batch, a), CountsRead(batch, a))[k]
        = IF ~Saves(v, n) \/ (v.col = SavedAt(v, n) /\ B - Settled(v, n) = 0) THEN <<>>
          ELSE <<v.col, SavedAt(v, n), B - Settled(v, n)>>
  BY <1>2 DEF PostMove
<1>4. WantsPost(r, a) = {<<r, col, m \div BlockSize - 1, m - S>> :
                           m \in {z \in S .. S + n - 1 : z % BlockSize = 0 /\ z > 0}}
  BY DEF WantsPost
<1> HIDE DEF v, n, c, q, d, k
<1>5. /\ Settled(v, n) = S /\ B \in Int
      /\ Saves(v, n) => /\ B \in S .. S + n - 1 /\ B % BlockSize = 0 /\ B > 0
                        /\ SavedAt(v, n) \in InReach
      /\ \A m \in S .. S + n - 1 : m % BlockSize = 0 /\ m > 0 => Saves(v, n) /\ m = B
  <2>1. S \in Nat \ {0} /\ S + n - 1 <= MaxTokens /\ Settled(v, n) = S
    BY <1>1, <1>2, Sizes
  <2> HIDE DEF S
  <2>2. QED BY <1>1, <1>2, <2>1, BoundaryReached DEF B
<1>6. w[1] = r /\ w[2] = col /\ w[3] = SavedAt(v, n) /\ w[4] = B - S /\ w = <<r, col, SavedAt(v, n), B - S>>
  BY <1>2, <1>5 DEF Saved
<1>7. SavedAt(v, n) = B \div BlockSize - 1 /\ S \in Int
  BY <1>1 DEF SavedAt
<1> HIDE DEF B, S, w, r, col
<1>8. Saves(v, n) => w[3] \in InReach /\ w[4] \in Nat
  BY <1>1, <1>5, <1>6, <1>7
<1>9. WantsPost(r, a) = IF Saves(v, n) THEN {w} ELSE {}
  <2>1. CASE Saves(v, n)
    <3>1. {z \in S .. S + n - 1 : z % BlockSize = 0 /\ z > 0} = {B}
      BY <1>5, <2>1
    <3>2. QED BY <1>4, <1>6, <1>7, <2>1, <3>1
  <2>2. CASE ~Saves(v, n)
    <3>1. {z \in S .. S + n - 1 : z % BlockSize = 0 /\ z > 0} = {}
      <4>1. SUFFICES ASSUME NEW z \in S .. S + n - 1, z % BlockSize = 0, z > 0 PROVE FALSE
        OBVIOUS
      <4>2. QED BY <1>5, <2>2, <4>1
    <3>2. QED BY <1>4, <2>2, <3>1
  <2>3. QED BY <2>1, <2>2
<1>10. PostMove(StagedPost(batch, a), CountsRead(batch, a))[k]
         = IF Saves(v, n) /\ ~(w[2] = w[3] /\ w[4] = 0) THEN <<w[2], w[3], w[4]>> ELSE <<>>
  BY <1>2, <1>3, <1>5, <1>6 DEF B
<1>11. QED BY <1>8, <1>9, <1>10 DEF w, v, n, k, r

LEMMA PostprocessRight ==
  ASSUME MInv, NEW a \in [Range(batch) -> 1 .. MaxDrafts + 1], Postprocess(a)
  PROVE  RightMoves'
<1>1. UNCHANGED fixed
  BY DEF Postprocess
<1>2. BInv /\ Deployed /\ Kept /\ Prepared /\ phase = "computing"
  BY DEF MInv, Postprocess
<1>3. CASE runner = "list"
  <2>1. copies' = <<>> /\ want' = {}
    BY <1>3 DEF Postprocess
  <2>2. QED BY <1>1, <2>1, NoCopies
<1>4. CASE batch = <<>>
  <2>1. Range(batch) = {}
    BY <1>4 DEF Range
  <2>2. copies' = <<>> /\ want' = {}
    BY <1>4, <2>1 DEF Postprocess
  <2>3. QED BY <1>1, <2>2, NoCopies
<1>5. CASE runner # "list" /\ batch # <<>>
  <2> DEFINE ws == want'
             counts == CountsRead(batch, a)
             move == PostMove(StagedPost(batch, a), counts)
             v(x) == StagedPost(batch, a)[At(batch, x)]
             w(x) == Saved(batch[x], v(x), a[batch[x]])
             moves(x) == Saves(v(x), a[batch[x]]) /\ ~(w(x)[2] = w(x)[3] /\ w(x)[4] = 0)
  <2>1. copies' = Launch(batch, PopulateMetadata, move)
    BY <1>2, <1>5 DEF Postprocess, Prepared
  <2>2. ASSUME NEW x \in DOMAIN batch
        PROVE  /\ WantsPost(batch[x], a) = IF Saves(v(x), a[batch[x]]) THEN {w(x)} ELSE {}
               /\ Saves(v(x), a[batch[x]]) => w(x)[3] \in InReach /\ w(x)[4] \in Nat
               /\ move[At(batch, x)] = IF moves(x) THEN <<w(x)[2], w(x)[3], w(x)[4]>> ELSE <<>>
               /\ w(x)[1] = batch[x] /\ batch[x] \in Reqs
    <3>1. batch[x] \in Range(batch) /\ batch[x] \in Reqs
      BY <1>2 DEF Range, BInv, Typed
    <3>2. a[batch[x]] <= drafts[batch[x]] + 1
      BY <3>1 DEF Postprocess
    <3>3. w(x)[1] = batch[x]
      BY DEF Saved
    <3>4. QED BY <1>2, <1>5, <3>1, <3>2, <3>3, SavedMove, Zenon
  <2> HIDE DEF v, w, move
  <2>3. ws = {u \in UNION {WantsPost(r, a) : r \in Range(batch)} : u[2] # u[3] \/ u[4] # 0}
    BY <1>5 DEF Postprocess
  <2>4. ASSUME NEW x \in DOMAIN batch, moves(x)
        PROVE  w(x) \in ws
    <3>1. w(x) \in WantsPost(batch[x], a) /\ batch[x] \in Range(batch)
      BY <2>2, <2>4 DEF Range
    <3>2. w(x) \in UNION {WantsPost(r, a) : r \in Range(batch)}
      BY <3>1
    <3> HIDE DEF ws
    <3>3. QED BY <2>3, <2>4, <3>2
  <2>5. ASSUME NEW u \in ws
        PROVE  \E x \in DOMAIN batch : moves(x) /\ u = w(x)
    <3>1. PICK r \in Range(batch) : u \in WantsPost(r, a) /\ (u[2] # u[3] \/ u[4] # 0)
      BY <2>3
    <3>2. PICK x \in DOMAIN batch : batch[x] = r
      BY DEF Range
    <3>3. Saves(v(x), a[batch[x]]) /\ u = w(x)
      BY <2>2, <3>1, <3>2
    <3>4. QED BY <3>1, <3>3
  <2> HIDE DEF ws
  <2>6. Sound(ws)
    <3>1. SUFFICES ASSUME NEW u \in ws PROVE u[1] \in Reqs /\ u[3] \in InReach /\ u[4] \in Nat
      BY DEF Sound
    <3>2. PICK x \in DOMAIN batch : moves(x) /\ u = w(x)
      BY <2>5
    <3>3. QED BY <2>2, <3>2
  <2> HIDE DEF moves
  <2>7. ASSUME NEW x \in DOMAIN batch, moves(x)
        PROVE  Asks(w(x), batch[x], move[At(batch, x)])
    BY <2>2, <2>7 DEF Asks
  <2>8. \A x \in DOMAIN batch : move[At(batch, x)] # <<>> => \E u \in ws : Asks(u, batch[x], move[At(batch, x)])
    <3>1. SUFFICES ASSUME NEW x \in DOMAIN batch, move[At(batch, x)] # <<>>
                   PROVE  \E u \in ws : Asks(u, batch[x], move[At(batch, x)])
      OBVIOUS
    <3>2. moves(x)
      BY <2>2, <3>1
    <3>3. QED BY <2>4, <2>7, <3>2
  <2>9. \A u \in ws : \E x \in DOMAIN batch : Asks(u, batch[x], move[At(batch, x)])
    <3>1. SUFFICES ASSUME NEW u \in ws
                   PROVE  \E x \in DOMAIN batch : Asks(u, batch[x], move[At(batch, x)])
      OBVIOUS
    <3>2. PICK x \in DOMAIN batch : moves(x) /\ u = w(x)
      BY <2>5
    <3>3. QED BY <2>7, <3>2
  <2>10. IsInjective(batch) /\ Range(batch) \subseteq Reqs
    BY <1>2 DEF BInv, Typed, Staging
  <2>11. Right(Launch(batch, PopulateMetadata, move), ws)
    <3> DEFINE b == batch
    <3>1. /\ IsInjective(b) /\ Range(b) \subseteq Reqs
          /\ \A x \in DOMAIN b : move[At(b, x)] # <<>> => \E u \in ws : Asks(u, b[x], move[At(b, x)])
          /\ \A u \in ws : \E x \in DOMAIN b : Asks(u, b[x], move[At(b, x)])
      BY <2>8, <2>9, <2>10
    <3> HIDE DEF b
    <3>2. Right(Launch(b, PopulateMetadata, move), ws)
      BY <1>2, <2>6, <3>1, LaunchRight
    <3>3. QED BY <3>2 DEF b
  <2>12. QED BY <1>1, <2>1, <2>11, RightNext DEF ws, move
<1>6. QED BY <1>3, <1>4, <1>5

LEMMA PostprocessKept ==
  ASSUME MInv, NEW a \in [Range(batch) -> 1 .. MaxDrafts + 1], Postprocess(a)
  PROVE  Kept' /\ Prepared' /\ ListFits' /\ Deployed'
<1>1. /\ UNCHANGED fixed /\ runner' = runner /\ column' = column /\ left' = left
      /\ phase' = "between" /\ meta' = meta /\ list' = list
  BY DEF Postprocess, fixed
<1>2. BInv /\ Deployed /\ Kept /\ Prepared /\ ListFits /\ phase = "computing"
  BY DEF MInv, Postprocess
<1>3. Deployed' /\ PopulateMetadata' = PopulateMetadata /\ EntriesPerReq' = EntriesPerReq
  BY <1>1, <1>2, Unchanged
<1>4. BInv'
  BY <1>2, PostprocessBInv
<1>5. ASSUME NEW r \in Reqs
      PROVE  computed'[r] <= MaxTokens
  <2>1. CASE r \in Range(batch)
    <3>1. /\ computed[r] \in Nat /\ queries[r] \in Nat /\ drafts[r] \in Nat /\ a[r] \in Nat
          /\ a[r] <= drafts[r] + 1 /\ computed[r] + queries[r] <= MaxTokens
          /\ computed'[r] = computed[r] + queries[r] - drafts[r] + a[r] - 1
      BY <1>2, <2>1, Sizes DEF Postprocess, NewComputed, BInv, Typed, Kept
    <3>2. MaxTokens \in Int
      BY Sizes
    <3>3. QED BY <3>1, <3>2
  <2>2. CASE r \notin Range(batch)
    BY <1>2, <2>2 DEF Postprocess, Kept
  <2>3. QED BY <2>1, <2>2
<1>6. ASSUME NEW r \in Reqs
      PROVE  accepted'[r] >= 1 /\ (runner = "list" => accepted'[r] = 1)
  <2>1. accepted'[r] = due'[r] /\ due[r] = accepted[r] /\ accepted[r] >= 1
        /\ (runner = "list" => accepted[r] = 1)
    BY <1>2, <1>4 DEF BInv, AcceptedOwn, Kept
  <2>2. due'[r] = IF r \notin Range(batch) \/ runner = "list" THEN due[r]
                  ELSE IF \E w \in WantsPost(r, a) : w[2] = w[3] THEN 1 ELSE a[r]
    BY DEF Postprocess
  <2>3. r \in Range(batch) => a[r] >= 1
    BY Sizes
  <2>4. QED BY <2>1, <2>2, <2>3
<1>7. Kept'
  BY <1>1, <1>2, <1>5, <1>6 DEF Kept
<1>8. Prepared'
  BY <1>1, <1>2, <1>3 DEF Prepared
<1>9. ListFits'
  BY <1>1, <1>2, <1>3 DEF ListFits
<1>10. QED BY <1>3, <1>7, <1>8, <1>9

-----------------------------------------------------------------------------
(* A request that leaves, and the results.                                 *)

LEMMA LeaveMInv ==
  ASSUME MInv, NEW r \in Reqs, NEW cached \in {0, BlockSize}, Leave(r, cached)
  PROVE  Kept' /\ Prepared' /\ ListFits' /\ Deployed' /\ RightMoves'
<1>1. /\ UNCHANGED fixed /\ runner' = runner /\ phase' = "between" /\ phase = "between"
      /\ meta' = meta /\ list' = list /\ copies' = <<>> /\ want' = {}
  BY DEF Leave, fixed
<1>2. BInv /\ Deployed /\ Kept /\ Prepared /\ ListFits
  BY DEF MInv
<1>3. Deployed' /\ PopulateMetadata' = PopulateMetadata /\ EntriesPerReq' = EntriesPerReq
  BY <1>1, <1>2, Unchanged
<1>4. RightMoves'
  BY <1>1, NoCopies
<1>5. cached \in Int /\ 0 <= cached /\ cached <= MaxTokens
  BY Sizes
<1>6. (cached - 1) \div BlockSize \in InReach \cup {-1}
  BY <1>5, InReachOf
<1>7. InReach \subseteq Nat
  BY LastColumn
<1>8. /\ \A t \in Reqs : computed'[t] = IF t = r THEN cached ELSE computed[t]
      /\ \A t \in Reqs : accepted'[t] = IF t = r THEN 1 ELSE accepted[t]
      /\ runner = "v2" => /\ left' = left
                          /\ \A t \in Reqs : column'[t] = IF t = r THEN (cached - 1) \div BlockSize ELSE column[t]
      /\ runner # "v2" => column' = column
  BY <1>2 DEF Leave, BInv, Typed
<1>9. \A t \in Reqs : /\ computed'[t] <= MaxTokens
                      /\ accepted'[t] >= 1 /\ (runner = "list" => accepted'[t] = 1)
  BY <1>2, <1>5, <1>8 DEF Kept
<1>10. ASSUME NEW t \in Reqs
       PROVE  column'[t] \in InReach \cup {None, -1} /\ (runner = "v2" => column'[t] # None)
  <2>1. column[t] \in InReach \cup {None, -1} /\ (runner = "v2" => column[t] # None)
    BY <1>2 DEF Kept
  <2>2. CASE runner = "v2"
    BY <1>6, <1>7, <1>8, <2>1, <2>2 DEF None
  <2>3. CASE runner # "v2"
    BY <1>8, <2>1, <2>3
  <2>4. QED BY <2>2, <2>3
<1>11. Kept'
  BY <1>1, <1>2, <1>8, <1>9, <1>10 DEF Kept
<1>12. Prepared'
  BY <1>1, <1>2, <1>3 DEF Prepared
<1>13. ListFits'
  BY <1>1, <1>2, <1>3 DEF ListFits
<1>14. QED BY <1>3, <1>4, <1>11, <1>12, <1>13

LEMMA NextMInv ==
  ASSUME MInv, [Next]_vars
  PROVE  MInv'
<1>1. ASSUME NEW b \in Batches, NEW q \in [Range(b) -> Chunks], NEW d \in [Range(b) -> 0 .. MaxDrafts],
             Preprocess(b, q, d)
      PROVE  MInv'
  BY <1>1, PreprocessBInv, PreprocessRight, PreprocessKept DEF MInv
<1>2. ASSUME NEW a \in [Range(batch) -> 1 .. MaxDrafts + 1], Postprocess(a)
      PROVE  MInv'
  BY <1>2, PostprocessBInv, PostprocessRight, PostprocessKept DEF MInv
<1>3. ASSUME NEW r \in Reqs, NEW cached \in {0, BlockSize}, Leave(r, cached)
      PROVE  MInv'
  BY <1>3, LeaveBInv, LeaveMInv DEF MInv
<1>4. CASE UNCHANGED vars
  <2>1. UNCHANGED fixed /\ UNCHANGED <<computed, queries, column, accepted, left, batch, meta, list,
                                       copies, phase, want>>
    BY <1>4 DEF vars
  <2>2. Deployed' /\ PopulateMetadata' = PopulateMetadata /\ EntriesPerReq' = EntriesPerReq
    BY <2>1, Unchanged DEF MInv
  <2>3. runner' = runner
    BY <2>1 DEF fixed
  <2>4. Kept'
    BY <2>1, <2>3 DEF MInv, Kept
  <2>5. Prepared' /\ ListFits'
    BY <2>1, <2>2, <2>3 DEF MInv, Prepared, ListFits
  <2>6. RightMoves'
    <3>1. Right(copies, want)
      BY DEF MInv, RightMoves, Right
    <3>2. Right(copies', want')
      BY <2>1, <3>1
    <3>3. QED BY <2>1, <3>2, RightNext
  <2>7. BInv'
    BY <1>4 DEF MInv, BInv, Typed, Staging, AcceptedOwn, Running, vars, fixed
  <2>8. QED BY <2>7, <2>2, <2>4, <2>5, <2>6 DEF MInv
<1>5. QED BY <1>1, <1>2, <1>3, <1>4 DEF Next

\* Between and during steps the staged columns and counts stay those of the
\* requests, the metadata is what the groups describe, and what was copied is
\* what the step's moves mean: the invariant behind the two results below.
THEOREM MovesInvariant == Spec => []MInv
<1>1. Init => MInv
  BY InitMInv
<1>2. MInv /\ [Next]_vars => MInv'
  BY NextMInv
<1>3. QED BY <1>1, <1>2, PTL DEF Spec

\* For any groups, states, layouts, tables and number of requests, in all three
\* runners: each request's move reaches each state tensor of each of its layers,
\* once, in its own blocks, and a launch writes nothing else.
THEOREM MovesReachAll == Spec => []RightMoves
<1>1. MInv => RightMoves
  BY DEF MInv
<1>2. QED BY <1>1, MovesInvariant, PTL

\* The copy buffers hold every list, and the metadata fills its tensors: the
\* two asserts of collect_mamba_copy_meta() and _populate_metadata().
THEOREM BuffersFit == Spec => []ListFits
<1>1. MInv => ListFits
  BY DEF MInv
<1>2. QED BY <1>1, MovesInvariant, PTL

=============================================================================
