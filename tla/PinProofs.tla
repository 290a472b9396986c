------------------------------ MODULE PinProofs ------------------------------
(***************************************************************************)
(* The invariants of the pin pool hold for every pool, every set of hashes *)
(* and every cap.  IInv, their conjunction, is inductive: a block that     *)
(* waits in the pin queue is found by touch() only because _pinned_ids     *)
(* names the queue's content, a reservation is valid only because a block  *)
(* keeps its hash while it is held, and that in turn needs each block to   *)
(* be in one place.                                                        *)
(*                                                                         *)
(* The scheduler and the pin pool agree, for every set of requests, every  *)
(* prompt and every layout of groups: the engine thread only makes calls   *)
(* the pool expects, so what is proved of the pool holds under the         *)
(* scheduler; reference counts are the number of tables a block sits in;   *)
(* and what a finished request leaves behind of an armed prompt stays      *)
(* cached as long as it stays armed.                                       *)
(***************************************************************************)
EXTENDS PinScheduler, FunctionTheorems, FiniteSetTheorems, SequenceTheorems, TLAPS

IInv == TypeOK /\ OnePlace /\ PinIndexed /\ ReservationHolds /\ CapRespected

\* The cap of any fraction is a positive number.
LEMMA CapType ==
  ASSUME NEW f \in Nat
  PROVE  CapFor(f) \in Nat
<1>1. Cardinality(Blocks) \in Nat
  BY PinPoolAssumption, FS_CardinalityType
<1>2. (NumGpuBlocks * f) \div 100 \in Int
  BY <1>1 DEF NumGpuBlocks
<1> QED BY <1>2 DEF CapFor

\* ReservedBy gives each hash cached in Q a block of Q that caches it, and
\* when Q caches each hash once, each block of Q its own reservation.
LEMMA ReservedByQ ==
  ASSUME TypeOK, NEW Q \in SUBSET Blocks,
         NEW base \in [Hashes -> Blocks \cup {None}],
         \A b \in Q : blockHash[b] \in Hashes,
         \A b, c \in Q : blockHash[b] = blockHash[c] => b = c
  PROVE  /\ ReservedBy(Q, base) \in [Hashes -> Blocks \cup {None}]
         /\ \A b \in Q : ReservedBy(Q, base)[blockHash[b]] = b
         /\ \A h \in Hashes : h \in HashesOf(Q) =>
               /\ ReservedBy(Q, base)[h] \in Q
               /\ blockHash[ReservedBy(Q, base)[h]] = h
         /\ \A h \in Hashes : h \notin HashesOf(Q) => ReservedBy(Q, base)[h] = base[h]
<1>1. ASSUME NEW h \in Hashes, h \in HashesOf(Q)
      PROVE  /\ ReservedBy(Q, base)[h] \in Q
             /\ blockHash[ReservedBy(Q, base)[h]] = h
  <2>1. \E b \in Q : blockHash[b] = h
    BY <1>1 DEF HashesOf
  <2>2. ReservedBy(Q, base)[h] = CHOOSE b \in Q : blockHash[b] = h
    BY <1>1 DEF ReservedBy
  <2> QED BY <2>1, <2>2
<1>2. ASSUME NEW h \in Hashes, h \notin HashesOf(Q)
      PROVE  ReservedBy(Q, base)[h] = base[h]
  BY <1>2 DEF ReservedBy
<1>3. ReservedBy(Q, base) = [h \in Hashes |-> ReservedBy(Q, base)[h]]
  BY DEF ReservedBy
<1>4. \A h \in Hashes : ReservedBy(Q, base)[h] \in Blocks \cup {None}
  BY <1>1, <1>2
<1>5. ReservedBy(Q, base) \in [Hashes -> Blocks \cup {None}]
  BY <1>3, <1>4
<1>6. \A b \in Q : ReservedBy(Q, base)[blockHash[b]] = b
  BY <1>1 DEF HashesOf
<1> QED BY <1>1, <1>2, <1>5, <1>6

\* Caching one hash per block, a set of blocks caches at most as many
\* hashes as it has blocks.
LEMMA HashesOfBound ==
  ASSUME NEW K, IsFiniteSet(K)
  PROVE  IsFiniteSet(HashesOf(K)) /\ Cardinality(HashesOf(K)) <= Cardinality(K)
<1> DEFINE f == [b \in K |-> blockHash[b]]
<1>1. f \in Surjection(K, HashesOf(K))
  <2>1. f \in [K -> HashesOf(K)]
    BY DEF HashesOf
  <2>2. \A h \in HashesOf(K) : \E b \in K : f[b] = h
    BY DEF HashesOf
  <2> QED BY <2>1, <2>2 DEF Surjection
<1> QED BY <1>1, FS_Surjection

-----------------------------------------------------------------------------
(* One lemma per handler.                                                  *)

LEMMA InitIInv == PoolInit => IInv
<1> SUFFICES ASSUME PoolInit PROVE IInv
  OBVIOUS
<1> USE PinPoolAssumption DEF PoolInit
<1>1. TypeOK
  BY DEF TypeOK
<1>2. Reserved = {}
  BY DEF Reserved
<1>3. OnePlace /\ PinIndexed
  BY DEF OnePlace, PinIndexed
<1>4. ReservationHolds
  BY <1>2 DEF ReservationHolds
<1>5. CapRespected
  BY <1>2, FS_EmptySet DEF CapRespected
<1> QED BY <1>1, <1>3, <1>4, <1>5 DEF IInv

LEMMA GetNewBlocksIInv ==
  ASSUME IInv, NEW S \in SUBSET Blocks, GetNewBlocks(S)
  PROVE  IInv'
<1> USE PinPoolAssumption DEF IInv, GetNewBlocks
<1>1. TypeOK'
  BY DEF TypeOK
<1>2. OnePlace'
  BY DEF TypeOK, OnePlace
<1>3. PinIndexed'
  BY DEF TypeOK, OnePlace, PinIndexed
<1>4. Reserved' = Reserved
  BY DEF Reserved
<1>5. ReservationHolds'
  BY <1>4 DEF TypeOK, OnePlace, PinIndexed, ReservationHolds, Reserved
<1>6. CapRespected'
  BY <1>4 DEF CapRespected
<1> QED BY <1>1, <1>2, <1>3, <1>5, <1>6

LEMMA CacheFullBlocksIInv ==
  ASSUME IInv, NEW S \in SUBSET Blocks, NEW keys \in [S -> Hashes],
         CacheFullBlocks(keys)
  PROVE  IInv'
<1> USE PinPoolAssumption DEF IInv, CacheFullBlocks
<1>1. TypeOK'
  BY DEF TypeOK
<1>2. OnePlace'
  BY DEF TypeOK, OnePlace
<1>3. PinIndexed'
  BY DEF TypeOK, OnePlace, PinIndexed
<1>4. Reserved' = Reserved
  BY DEF Reserved
<1>5. ReservationHolds'
  BY <1>4 DEF TypeOK, OnePlace, PinIndexed, ReservationHolds, Reserved
<1>6. CapRespected'
  BY <1>4 DEF CapRespected
<1> QED BY <1>1, <1>2, <1>3, <1>5, <1>6

LEMMA TouchIInv ==
  ASSUME IInv, NEW S \in SUBSET Blocks, Touch(S)
  PROVE  IInv'
<1> USE PinPoolAssumption DEF IInv, Touch
<1>1. TypeOK'
  BY DEF TypeOK
<1>2. OnePlace'
  BY DEF TypeOK, OnePlace, PinIndexed
<1>3. PinIndexed'
  BY DEF TypeOK, OnePlace, PinIndexed
<1>4. Reserved' = Reserved
  BY DEF Reserved
<1>5. ReservationHolds'
  BY <1>4 DEF TypeOK, OnePlace, PinIndexed, ReservationHolds, Reserved
<1>6. CapRespected'
  BY <1>4 DEF CapRespected
<1> QED BY <1>1, <1>2, <1>3, <1>5, <1>6

LEMMA FreeBlocksIInv ==
  ASSUME IInv, NEW S \in SUBSET Blocks, FreeBlocks(S)
  PROVE  IInv'
<1> DEFINE idle == {b \in S : refCnt[b] = 1}
<1>1. PICK Q \in SUBSET idle :
        /\ Acquired(Q, idle)
        /\ pin' = pin \cup Q
        /\ pinnedIds' = pinnedIds \cup Q
        /\ freeQueue' = freeQueue \cup (idle \ Q)
        /\ pinnedByHash' = ReservedBy(Q, pinnedByHash)
  BY DEF FreeBlocks
<1> USE PinPoolAssumption DEF IInv
<1>2. /\ refCnt' = [b \in Blocks |-> IF b \in S THEN refCnt[b] - 1 ELSE refCnt[b]]
      /\ \A b \in S : refCnt[b] > 0
      /\ UNCHANGED <<blockHash, pinnedHashes, pinCap>>
  BY DEF FreeBlocks
<1>3. \A b \in Q : blockHash[b] \in pinnedHashes /\ pinnedByHash[blockHash[b]] \in {None, b}
  BY <1>1 DEF Acquired, Pinnable
<1>4. \A b \in Q : blockHash[b] \in Hashes
  BY <1>3 DEF TypeOK
<1>5. \A b, c \in Q : blockHash[b] = blockHash[c] => b = c
  BY <1>1 DEF Acquired
<1> DEFINE R == ReservedBy(Q, pinnedByHash)
<1>6. /\ R \in [Hashes -> Blocks \cup {None}]
      /\ \A b \in Q : R[blockHash[b]] = b
      /\ \A h \in Hashes : h \in HashesOf(Q) => R[h] \in Q /\ blockHash[R[h]] = h
      /\ \A h \in Hashes : h \notin HashesOf(Q) => R[h] = pinnedByHash[h]
  BY <1>4, <1>5, ReservedByQ DEF TypeOK
<1> HIDE DEF R
<1>7. pinnedByHash' = R
  BY <1>1 DEF R
<1>8. TypeOK'
  <2>1. refCnt' \in [Blocks -> Nat]
    BY <1>2 DEF TypeOK
  <2> QED BY <1>1, <1>2, <1>6, <1>7, <2>1 DEF TypeOK
<1>9. OnePlace'
  BY <1>1, <1>2 DEF TypeOK, OnePlace
<1>10. PinIndexed'
  <2>1. pinnedIds' = pin'
    BY <1>1 DEF PinIndexed
  <2>2. ASSUME NEW b \in pin, b \notin Q
        PROVE  R[blockHash[b]] = b
    <3>1. blockHash[b] \in Hashes /\ pinnedByHash[blockHash[b]] = b
      BY DEF PinIndexed, TypeOK
    <3>2. blockHash[b] \notin HashesOf(Q)
      <4>1. SUFFICES ASSUME NEW c \in Q, blockHash[c] = blockHash[b]
                     PROVE  FALSE
        BY DEF HashesOf
      <4>2. b = c
        BY <3>1, <4>1, <1>3 DEF TypeOK
      <4> QED BY <4>2, <2>2
    <3> QED BY <3>1, <3>2, <1>6
  <2>3. \A b \in pin' : blockHash'[b] \in pinnedHashes' /\ pinnedByHash'[blockHash'[b]] = b
    BY <1>1, <1>2, <1>3, <1>6, <1>7, <2>2 DEF PinIndexed
  <2> QED BY <2>1, <2>3 DEF PinIndexed
<1>11. Reserved' = Reserved \cup HashesOf(Q)
  <2>1. HashesOf(Q) \subseteq Hashes
    BY <1>4 DEF HashesOf
  <2>2. \A h \in HashesOf(Q) : R[h] # None
    BY <1>6, <2>1
  <2> QED BY <1>6, <1>7, <2>1, <2>2 DEF Reserved
<1>12. ReservationHolds'
  <2>1. ASSUME NEW h \in Reserved'
        PROVE  /\ h \in pinnedHashes'
               /\ blockHash'[pinnedByHash'[h]] = h
               /\ pinnedByHash'[h] \in pin' \/ refCnt'[pinnedByHash'[h]] > 0
    <3>1. CASE h \in HashesOf(Q)
      <4>1. h \in pinnedHashes
        BY <3>1, <1>3 DEF HashesOf
      <4>2. h \in Hashes
        BY <4>1 DEF TypeOK
      <4> QED BY <3>1, <4>1, <4>2, <1>1, <1>2, <1>6, <1>7
    <3>2. CASE h \notin HashesOf(Q)
      <4>1. h \in Reserved /\ h \in Hashes
        BY <3>2, <1>11 DEF Reserved
      <4> DEFINE b == pinnedByHash[h]
      <4>2. /\ R[h] = b /\ b \in Blocks
            /\ h \in pinnedHashes /\ blockHash[b] = h
            /\ b \in pin \/ refCnt[b] > 0
        BY <3>2, <4>1, <1>6 DEF ReservationHolds, Reserved, TypeOK
      <4>3. b \in idle => b \in Q
        <5>1. Pinnable(b)
          BY <4>2 DEF Pinnable
        <5>2. SUFFICES ASSUME b \in idle, b \notin Q
                       PROVE  FALSE
          OBVIOUS
        <5>3. \/ \E c \in Q : blockHash[c] = blockHash[b]
              \/ pinnedByHash[blockHash[b]] = None
          BY <1>1, <5>1, <5>2 DEF Acquired
        <5> QED BY <5>3, <4>2, <3>2 DEF HashesOf
      <4>4. b \notin S => refCnt'[b] = refCnt[b]
        BY <4>2, <1>2
      <4>5. b \in S => b \in idle \/ refCnt'[b] > 0
        BY <4>2, <1>2 DEF TypeOK
      <4> QED BY <4>2, <4>3, <4>4, <4>5, <1>1, <1>2, <1>7
    <3> QED BY <3>1, <3>2
  <2> QED BY <2>1 DEF ReservationHolds
<1>13. CapRespected'
  BY <1>1, <1>2, <1>11 DEF CapRespected, Acquired
<1> QED BY <1>8, <1>9, <1>10, <1>12, <1>13

\* The pin part of set_pinned_hashes(), shared by Rearm and ResetPrefixCache.
LEMMA SetPinnedHashesPin ==
  ASSUME IInv, NEW H \in SUBSET Hashes, NEW f \in Nat, SetPinnedHashes(H, f)
  PROVE  /\ pinnedHashes' = H /\ pinCap' = CapFor(f)
         /\ pin' \in SUBSET pin /\ pinnedIds' = pin'
         /\ freeQueue' = freeQueue \cup (pin \ pin')
         /\ pinnedByHash' \in [Hashes -> Blocks \cup {None}]
         /\ \A b \in pin' : blockHash[b] \in H /\ pinnedByHash'[blockHash[b]] = b
         /\ \A h \in Reserved' : /\ h \in H
                                 /\ blockHash[pinnedByHash'[h]] = h
                                 /\ pinnedByHash'[h] = pinnedByHash[h]
         /\ H # pinnedHashes \/ CapFor(f) # pinCap =>
              \A h \in Reserved' : pinnedByHash'[h] \in pin'
         /\ Cardinality(Reserved') <= pinCap'
<1> USE PinPoolAssumption DEF IInv
<1>1. CASE H = pinnedHashes /\ CapFor(f) = pinCap
  <2>1. UNCHANGED <<freeQueue, pin, pinnedIds, pinnedHashes, pinnedByHash, pinCap>>
    BY <1>1 DEF SetPinnedHashes
  <2>2. Reserved' = Reserved
    BY <2>1 DEF Reserved
  <2> QED
    BY <1>1, <2>1, <2>2 DEF TypeOK, PinIndexed, ReservationHolds, CapRespected
<1>2. CASE H # pinnedHashes \/ CapFor(f) # pinCap
  <2>1. pinnedHashes' = H /\ pinCap' = CapFor(f)
    BY <1>2 DEF SetPinnedHashes
  <2>2. PICK K \in SUBSET pin :
          /\ Kept(K, H, CapFor(f))
          /\ pin' = K
          /\ pinnedIds' = K
          /\ freeQueue' = freeQueue \cup (pin \ K)
          /\ pinnedByHash' = ReservedBy(K, [h \in Hashes |-> None])
    BY <1>2 DEF SetPinnedHashes
  <2>3. \A b \in K : blockHash[b] \in H
    BY <2>2 DEF Kept, HashesOf
  <2>4. K \in SUBSET Blocks /\ \A b \in K : blockHash[b] \in Hashes
    BY <2>3 DEF TypeOK
  <2>5. \A b, c \in K : blockHash[b] = blockHash[c] => b = c
    BY <2>2 DEF Kept
  <2> DEFINE none == [h \in Hashes |-> None]
  <2> DEFINE R == ReservedBy(K, none)
  <2>6. none \in [Hashes -> Blocks \cup {None}] /\ \A h \in Hashes : none[h] = None
    OBVIOUS
  <2> HIDE DEF none
  <2>7. /\ R \in [Hashes -> Blocks \cup {None}]
        /\ \A b \in K : R[blockHash[b]] = b
        /\ \A h \in Hashes : h \in HashesOf(K) => R[h] \in K /\ blockHash[R[h]] = h
        /\ \A h \in Hashes : h \notin HashesOf(K) => R[h] = None
    BY <2>4, <2>5, <2>6, ReservedByQ
  <2>8. pinnedByHash' = R
    BY <2>2 DEF none
  <2> HIDE DEF R
  <2>9. Reserved' = HashesOf(K)
    <3>1. HashesOf(K) \subseteq Hashes
      BY <2>4 DEF HashesOf
    <3>2. \A h \in HashesOf(K) : R[h] # None
      BY <2>4, <2>7, <3>1
    <3> QED BY <2>7, <2>8, <3>1, <3>2 DEF Reserved
  <2>10. Cardinality(Reserved') <= pinCap'
    <3>1. IsFiniteSet(K) /\ Cardinality(K) \in Nat
      BY <2>4, FS_Subset, FS_CardinalityType
    <3>2. IsFiniteSet(HashesOf(K)) /\ Cardinality(HashesOf(K)) <= Cardinality(K)
      BY <3>1, HashesOfBound
    <3>3. Cardinality(HashesOf(K)) \in Nat /\ CapFor(f) \in Nat
      BY <3>2, FS_CardinalityType, CapType
    <3>4. Cardinality(K) <= CapFor(f)
      BY <2>2 DEF Kept
    <3> QED BY <2>1, <2>9, <3>1, <3>2, <3>3, <3>4
  <2>11. \A h \in Reserved' : /\ h \in H
                              /\ blockHash[pinnedByHash'[h]] = h
                              /\ pinnedByHash'[h] \in pin'
                              /\ pinnedByHash'[h] = pinnedByHash[h]
    <3>1. SUFFICES ASSUME NEW h \in HashesOf(K)
                   PROVE  /\ h \in H /\ blockHash[R[h]] = h /\ R[h] \in K
                          /\ R[h] = pinnedByHash[h]
      BY <2>2, <2>8, <2>9
    <3>2. h \in H /\ h \in Hashes
      BY <2>3 DEF HashesOf
    <3>3. blockHash[R[h]] = h /\ R[h] \in K
      BY <2>7, <3>2
    <3>4. pinnedByHash[blockHash[R[h]]] = R[h]
      BY <2>4, <3>3 DEF PinIndexed
    <3> QED BY <3>2, <3>3, <3>4
  <2> QED BY <2>1, <2>2, <2>3, <2>7, <2>8, <2>10, <2>11
<1> QED BY <1>1, <1>2

LEMMA RearmIInv ==
  ASSUME IInv, NEW H \in SUBSET Hashes, Rearm(H)
  PROVE  IInv'
<1> USE PinPoolAssumption DEF IInv
<1>1. SetPinnedHashes(H, MaxFraction) /\ UNCHANGED <<refCnt, blockHash>>
  BY DEF Rearm
<1>2. MaxFraction \in Nat
  OBVIOUS
<1>3. /\ pinnedHashes' = H /\ pinCap' = CapFor(MaxFraction)
      /\ pin' \in SUBSET pin /\ pinnedIds' = pin'
      /\ freeQueue' = freeQueue \cup (pin \ pin')
      /\ pinnedByHash' \in [Hashes -> Blocks \cup {None}]
      /\ \A b \in pin' : blockHash[b] \in H /\ pinnedByHash'[blockHash[b]] = b
      /\ \A h \in Reserved' : /\ h \in H
                              /\ blockHash[pinnedByHash'[h]] = h
                              /\ pinnedByHash'[h] = pinnedByHash[h]
      /\ H # pinnedHashes \/ CapFor(MaxFraction) # pinCap =>
           \A h \in Reserved' : pinnedByHash'[h] \in pin'
      /\ Cardinality(Reserved') <= pinCap'
  BY <1>1, <1>2, SetPinnedHashesPin
<1>4. CapFor(MaxFraction) \in Nat
  BY <1>2, CapType
<1>5. TypeOK'
  BY <1>1, <1>3, <1>4 DEF TypeOK
<1>6. OnePlace'
  BY <1>1, <1>3 DEF TypeOK, OnePlace
<1>7. PinIndexed'
  BY <1>1, <1>3 DEF PinIndexed
<1>8. ReservationHolds'
  <2>1. CASE H = pinnedHashes /\ CapFor(MaxFraction) = pinCap
    BY <1>1, <1>3, <2>1 DEF SetPinnedHashes, ReservationHolds, Reserved
  <2>2. CASE H # pinnedHashes \/ CapFor(MaxFraction) # pinCap
    BY <1>1, <1>3, <2>2 DEF ReservationHolds
  <2> QED BY <2>1, <2>2
<1>9. CapRespected'
  BY <1>3 DEF CapRespected
<1> QED BY <1>5, <1>6, <1>7, <1>8, <1>9

LEMMA ResetIInv ==
  ASSUME IInv, ResetPrefixCache
  PROVE  /\ IInv'
         /\ Reserved' = {}
<1> USE PinPoolAssumption DEF IInv
<1>1. SetPinnedHashes({}, 0) /\ UNCHANGED refCnt
  BY DEF ResetPrefixCache
<1>2. /\ pinnedHashes' = {} /\ pinCap' = CapFor(0)
      /\ pin' \in SUBSET pin /\ pinnedIds' = pin'
      /\ freeQueue' = freeQueue \cup (pin \ pin')
      /\ pinnedByHash' \in [Hashes -> Blocks \cup {None}]
      /\ \A b \in pin' : blockHash[b] \in {}
      /\ \A h \in Reserved' : h \in {}
      /\ Cardinality(Reserved') <= pinCap'
  <2>1. {} \in SUBSET Hashes /\ 0 \in Nat
    OBVIOUS
  <2> QED BY <1>1, <2>1, SetPinnedHashesPin
<1>3. pin' = {} /\ Reserved' = {}
  BY <1>2
<1>4. blockHash' \in [Blocks -> Hashes \cup {None}]
  BY DEF ResetPrefixCache, TypeOK
<1>5. TypeOK'
  BY <1>1, <1>2, <1>4, CapType DEF TypeOK
<1>6. OnePlace'
  BY <1>1, <1>2 DEF TypeOK, OnePlace
<1>7. PinIndexed' /\ ReservationHolds' /\ CapRespected'
  BY <1>2, <1>3 DEF PinIndexed, ReservationHolds, CapRespected
<1> QED BY <1>3, <1>5, <1>6, <1>7

-----------------------------------------------------------------------------

LEMMA NextIInv == IInv /\ [PoolNext]_poolVars => IInv'
<1> SUFFICES ASSUME IInv, [PoolNext]_poolVars
             PROVE  IInv'
  OBVIOUS
<1>1. CASE \E S \in SUBSET Blocks : GetNewBlocks(S)
  BY <1>1, GetNewBlocksIInv
<1>2. CASE \E S \in SUBSET Blocks : \E keys \in [S -> Hashes] : CacheFullBlocks(keys)
  BY <1>2, CacheFullBlocksIInv
<1>3. CASE \E S \in SUBSET Blocks : Touch(S)
  BY <1>3, TouchIInv
<1>4. CASE \E S \in SUBSET Blocks : FreeBlocks(S)
  BY <1>4, FreeBlocksIInv
<1>5. CASE \E H \in SUBSET Hashes : Rearm(H)
  BY <1>5, RearmIInv
<1>6. CASE ResetPrefixCache
  BY <1>6, ResetIInv
<1>7. CASE UNCHANGED poolVars
  BY <1>7 DEF poolVars, IInv, TypeOK, OnePlace, PinIndexed, ReservationHolds,
              CapRespected, Reserved
<1> QED BY <1>1, <1>2, <1>3, <1>4, <1>5, <1>6, <1>7 DEF PoolNext

\* The inductive invariant holds in every behaviour of the pool.
THEOREM PoolInvariant == PoolSpec => []IInv
<1> QED BY InitIInv, NextIInv, PTL DEF PoolSpec

\* Every variable of the pool keeps its type: reservations name blocks, the
\* cap stays a number, whatever set_pinned_hashes() and reset_prefix_cache()
\* are called with.
THEOREM PoolTypeCorrect == PoolSpec => []TypeOK
<1>1. IInv => TypeOK
  BY DEF IInv
<1> QED BY <1>1, PoolInvariant, PTL

\* Every block is in exactly one of: free queue, pin queue, in use
\* (free_blocks and touch never lose a block or queue it twice).
THEOREM BlocksInOnePlace == PoolSpec => []OnePlace
<1>1. IInv => OnePlace
  BY DEF IInv
<1> QED BY <1>1, PoolInvariant, PTL

\* _pinned_ids names exactly what waits in the pin queue, and each of these
\* blocks holds the reservation of its armed hash: touch() and free_blocks()
\* never look for a block in the queue it is not in.
THEOREM PinStaysIndexed == PoolSpec => []PinIndexed
<1>1. IInv => PinIndexed
  BY DEF IInv
<1> QED BY <1>1, PoolInvariant, PTL

\* A reservation always names a block that still caches the reserved
\* content, pinned or on loan (_pinned_by_hash across loans and re-arms).
THEOREM ReservationsHold == PoolSpec => []ReservationHolds
<1>1. IInv => ReservationHolds
  BY DEF IInv
<1> QED BY <1>1, PoolInvariant, PTL

\* The pin reserves at most the configured share of the pool
\* (_acquire_pin and set_pinned_hashes against _pin_cap).
THEOREM PinCapped == PoolSpec => []CapRespected
<1>1. IInv => CapRespected
  BY DEF IInv
<1> QED BY <1>1, PoolInvariant, PTL

-----------------------------------------------------------------------------
(* What a step may never do.                                               *)

\* free_blocks() leaves every reservation with its block, and its new ones
\* are for the hashes of the blocks it claimed.
LEMMA FreeBlocksReserves ==
  ASSUME IInv, NEW S \in SUBSET Blocks, FreeBlocks(S)
  PROVE  /\ \A h \in Reserved : pinnedByHash'[h] = pinnedByHash[h]
         /\ \E Q \in SUBSET {b \in S : refCnt[b] = 1} :
              /\ Acquired(Q, {b \in S : refCnt[b] = 1})
              /\ Reserved' = Reserved \cup HashesOf(Q)
<1> DEFINE idle == {b \in S : refCnt[b] = 1}
<1>1. PICK Q \in SUBSET idle :
        Acquired(Q, idle) /\ pinnedByHash' = ReservedBy(Q, pinnedByHash)
  BY DEF FreeBlocks
<1> USE PinPoolAssumption DEF IInv
<1>2. \A b \in Q : blockHash[b] \in pinnedHashes /\ pinnedByHash[blockHash[b]] \in {None, b}
  BY <1>1 DEF Acquired, Pinnable
<1>3. \A b \in Q : blockHash[b] \in Hashes
  BY <1>2 DEF TypeOK
<1>4. \A b, c \in Q : blockHash[b] = blockHash[c] => b = c
  BY <1>1 DEF Acquired
<1> DEFINE R == ReservedBy(Q, pinnedByHash)
<1>5. /\ R \in [Hashes -> Blocks \cup {None}]
      /\ \A b \in Q : R[blockHash[b]] = b
      /\ \A h \in Hashes : h \in HashesOf(Q) => R[h] \in Q /\ blockHash[R[h]] = h
      /\ \A h \in Hashes : h \notin HashesOf(Q) => R[h] = pinnedByHash[h]
  BY <1>3, <1>4, ReservedByQ DEF TypeOK
<1> HIDE DEF R
<1>6. pinnedByHash' = R
  BY <1>1 DEF R
<1>7. ASSUME NEW h \in Reserved PROVE R[h] = pinnedByHash[h]
  <2>1. h \in Hashes /\ pinnedByHash[h] # None
    BY DEF Reserved
  <2>2. CASE h \in HashesOf(Q)
    <3>1. R[h] \in Q /\ blockHash[R[h]] = h
      BY <1>5, <2>1, <2>2
    <3>2. pinnedByHash[h] \in {None, R[h]}
      BY <1>2, <3>1
    <3> QED BY <2>1, <3>2
  <2> QED BY <1>5, <2>1, <2>2
<1>8. Reserved' = Reserved \cup HashesOf(Q)
  <2>1. HashesOf(Q) \subseteq Hashes
    BY <1>3 DEF HashesOf
  <2>2. \A h \in HashesOf(Q) : R[h] # None
    BY <1>5, <2>1
  <2> QED BY <1>5, <1>6, <2>1, <2>2 DEF Reserved
<1> QED BY <1>1, <1>6, <1>7, <1>8

LEMMA NeverEvictedStep ==
  ASSUME IInv, [PoolNext]_poolVars, pinnedHashes' = pinnedHashes, pinCap' = pinCap,
         NEW h \in Reserved
  PROVE  pinnedByHash'[h] = pinnedByHash[h] /\ blockHash'[pinnedByHash[h]] = h
<1> USE PinPoolAssumption DEF IInv
<1> DEFINE b == pinnedByHash[h]
<1>1. /\ h \in Hashes /\ b \in Blocks
      /\ h \in pinnedHashes /\ blockHash[b] = h
      /\ b \in pin \/ refCnt[b] > 0
  BY DEF Reserved, ReservationHolds, TypeOK
<1>2. CASE \E S \in SUBSET Blocks : GetNewBlocks(S)
  <2>1. b \notin freeQueue
    BY <1>1 DEF OnePlace, TypeOK
  <2> QED BY <1>1, <1>2, <2>1 DEF GetNewBlocks
<1>3. CASE \E S \in SUBSET Blocks : \E keys \in [S -> Hashes] : CacheFullBlocks(keys)
  <2>1. PICK S \in SUBSET Blocks : \E keys \in [S -> Hashes] : CacheFullBlocks(keys)
    BY <1>3
  <2>2. PICK keys \in [S -> Hashes] : CacheFullBlocks(keys)
    BY <2>1
  <2>3. b \notin DOMAIN keys
    BY <1>1, <2>2 DEF CacheFullBlocks
  <2> QED BY <1>1, <2>2, <2>3 DEF CacheFullBlocks
<1>4. CASE \E S \in SUBSET Blocks : Touch(S)
  BY <1>1, <1>4 DEF Touch
<1>5. CASE \E S \in SUBSET Blocks : FreeBlocks(S)
  <2>1. pinnedByHash'[h] = pinnedByHash[h]
    BY <1>5, FreeBlocksReserves
  <2>2. blockHash' = blockHash
    BY <1>5 DEF FreeBlocks
  <2> QED BY <1>1, <2>1, <2>2
<1>6. CASE \E H \in SUBSET Hashes : Rearm(H)
  BY <1>1, <1>6 DEF Rearm, SetPinnedHashes
<1>7. CASE ResetPrefixCache
  BY <1>1, <1>7 DEF ResetPrefixCache, SetPinnedHashes
<1>8. CASE UNCHANGED poolVars
  BY <1>1, <1>8 DEF poolVars
<1> QED BY <1>2, <1>3, <1>4, <1>5, <1>6, <1>7, <1>8 DEF PoolNext

\* "Never handed out for eviction": while the armed set stays, a reserved
\* hash keeps its block and its content (get_new_blocks never sees it).
THEOREM PinnedNeverEvicted == PoolSpec => NeverEvicted
<1>1. IInv /\ [PoolNext]_poolVars =>
        [(pinnedHashes' = pinnedHashes /\ pinCap' = pinCap) =>
           \A h \in Reserved : /\ pinnedByHash'[h] = pinnedByHash[h]
                               /\ blockHash'[pinnedByHash[h]] = h]_poolVars
  BY NeverEvictedStep
<1> QED BY <1>1, PoolInvariant, PTL DEF PoolSpec, NeverEvicted

LEMMA RearmKeepsSharedStep ==
  ASSUME IInv, [PoolNext]_poolVars, pinCap' = pinCap,
         NEW b \in pin, blockHash[b] \in pinnedHashes'
  PROVE  b \in pin' \/ refCnt'[b] > 0
<1> USE PinPoolAssumption DEF IInv
<1>1. CASE \E H \in SUBSET Hashes : Rearm(H)
  <2>1. PICK H \in SUBSET Hashes : Rearm(H)
    BY <1>1
  <2>2. CASE UNCHANGED pin
    BY <2>2
  <2>3. CASE ~UNCHANGED pin
    <3>1. PICK K \in SUBSET pin : Kept(K, H, pinCap) /\ pin' = K /\ pinnedHashes' = H
      BY <2>1, <2>3 DEF Rearm, SetPinnedHashes
    <3>2. SUFFICES ASSUME b \notin K PROVE FALSE
      BY <3>1
    <3>3. ~\E c \in K : blockHash[c] = blockHash[b]
      BY <3>2 DEF PinIndexed
    <3>4. Cardinality(K) >= pinCap
      BY <3>1, <3>2, <3>3 DEF Kept
    <3>5. IsFiniteSet(pin) /\ IsFiniteSet(Reserved)
      BY FS_Subset DEF TypeOK, Reserved
    <3>6. Cardinality(K) < Cardinality(pin)
      <4>1. IsFiniteSet(K) /\ Cardinality(K) <= Cardinality(pin)
            /\ (Cardinality(pin) = Cardinality(K) => pin = K)
        BY <3>5, FS_Subset
      <4>2. Cardinality(pin) \in Nat /\ Cardinality(K) \in Nat
        BY <3>5, <4>1, FS_CardinalityType
      <4> QED BY <3>2, <4>1, <4>2
    <3>7. Cardinality(pin) <= Cardinality(Reserved)
      <4> DEFINE f == [c \in pin |-> blockHash[c]]
      <4>1. \A c \in pin : blockHash[c] \in Reserved
        BY DEF PinIndexed, Reserved, TypeOK
      <4>2. f \in Injection(pin, Reserved)
        <5>1. f \in [pin -> Reserved]
          BY <4>1
        <5>2. \A c, d \in pin : f[c] = f[d] => c = d
          BY DEF PinIndexed
        <5> QED BY <5>1, <5>2 DEF Injection, IsInjective
      <4> QED BY <3>5, <4>2, FS_Injection
    <3>8. Cardinality(pin) \in Nat /\ Cardinality(Reserved) \in Nat /\ Cardinality(K) \in Nat
      <4>1. IsFiniteSet(K)
        BY <3>5, FS_Subset
      <4> QED BY <3>5, <4>1, FS_CardinalityType
    <3> QED BY <3>4, <3>6, <3>7, <3>8 DEF CapRespected, TypeOK
  <2> QED BY <2>2, <2>3
<1>2. CASE ResetPrefixCache
  BY <1>2 DEF ResetPrefixCache, SetPinnedHashes
<1>3. CASE \E S \in SUBSET Blocks : Touch(S)
  BY <1>3 DEF Touch, TypeOK
<1>4. CASE \E S \in SUBSET Blocks : FreeBlocks(S)
  BY <1>4 DEF FreeBlocks
<1>5. CASE \/ \E S \in SUBSET Blocks : GetNewBlocks(S)
           \/ \E S \in SUBSET Blocks : \E keys \in [S -> Hashes] : CacheFullBlocks(keys)
           \/ UNCHANGED poolVars
  BY <1>5 DEF GetNewBlocks, CacheFullBlocks, poolVars
<1> QED BY <1>1, <1>2, <1>3, <1>4, <1>5 DEF PoolNext

\* Re-arming with a prompt that shares blocks with the last one never gives
\* those blocks back to the free queue (set_pinned_hashes draining _pin).
THEOREM SharedPrefixStays == PoolSpec => RearmKeepsShared
<1>1. IInv /\ [PoolNext]_poolVars =>
        [(pinCap' = pinCap) =>
           \A b \in pin : blockHash[b] \in pinnedHashes'
                          => b \in pin' \/ refCnt'[b] > 0]_poolVars
  BY RearmKeepsSharedStep
<1> QED BY <1>1, PoolInvariant, PTL DEF PoolSpec, RearmKeepsShared

LEMMA FitsThenPinnedStep ==
  ASSUME IInv, [PoolNext]_poolVars, Cardinality(pinnedHashes) <= pinCap,
         NEW b \in Blocks,
         refCnt[b] = 1, refCnt'[b] = 0, blockHash[b] \in pinnedHashes
  PROVE  pinnedByHash'[blockHash[b]] # None
<1> USE PinPoolAssumption DEF IInv
<1>1. CASE \E S \in SUBSET Blocks : FreeBlocks(S)
  <2>1. PICK S \in SUBSET Blocks : FreeBlocks(S)
    BY <1>1
  <2> DEFINE idle == {c \in S : refCnt[c] = 1}
             h == blockHash[b]
  <2>2. PICK Q \in SUBSET idle : Acquired(Q, idle) /\ Reserved' = Reserved \cup HashesOf(Q)
    BY <2>1, FreeBlocksReserves
  <2>3. b \in idle /\ h \in Hashes
    BY <2>1 DEF FreeBlocks, TypeOK
  <2>4. SUFFICES ASSUME h \notin Reserved' PROVE FALSE
    BY <2>3 DEF Reserved
  <2>5. pinnedByHash[h] = None /\ h \notin HashesOf(Q)
    BY <2>2, <2>3, <2>4 DEF Reserved
  <2>6. Pinnable(b) /\ b \notin Q /\ ~\E c \in Q : blockHash[c] = h
    BY <2>5 DEF Pinnable, HashesOf
  <2>7. Cardinality(Reserved') >= pinCap
    BY <2>2, <2>3, <2>6 DEF Acquired
  <2>8. Reserved' \subseteq pinnedHashes
    BY <2>2 DEF Acquired, Pinnable, HashesOf, ReservationHolds
  <2>9. IsFiniteSet(pinnedHashes)
    BY FS_Subset DEF TypeOK
  <2>10. Cardinality(Reserved') < Cardinality(pinnedHashes)
    <3>1. IsFiniteSet(Reserved') /\ Cardinality(Reserved') <= Cardinality(pinnedHashes)
          /\ (Cardinality(pinnedHashes) = Cardinality(Reserved') => pinnedHashes = Reserved')
      BY <2>8, <2>9, FS_Subset
    <3>2. Cardinality(Reserved') \in Nat /\ Cardinality(pinnedHashes) \in Nat
      BY <2>9, <3>1, FS_CardinalityType
    <3> QED BY <2>4, <3>1, <3>2
  <2>11. Cardinality(Reserved') \in Nat /\ Cardinality(pinnedHashes) \in Nat
    <3>1. IsFiniteSet(Reserved')
      BY <2>8, <2>9, FS_Subset
    <3> QED BY <2>9, <3>1, FS_CardinalityType
  <2> QED BY <2>7, <2>10, <2>11 DEF TypeOK
<1>2. CASE \E S \in SUBSET Blocks : GetNewBlocks(S)
  BY <1>2 DEF GetNewBlocks
<1>3. CASE \E S \in SUBSET Blocks : Touch(S)
  BY <1>3 DEF Touch
<1>4. CASE \/ \E S \in SUBSET Blocks : \E keys \in [S -> Hashes] : CacheFullBlocks(keys)
           \/ \E H \in SUBSET Hashes : Rearm(H)
           \/ ResetPrefixCache
           \/ UNCHANGED poolVars
  BY <1>4 DEF CacheFullBlocks, Rearm, ResetPrefixCache, poolVars
<1> QED BY <1>1, <1>2, <1>3, <1>4 DEF PoolNext

\* A marked prefix that fits the cap is never refused: when a block with
\* armed content comes home, the content is reserved (_acquire_pin).
THEOREM FittingPrefixIsPinned == PoolSpec => FitsThenPinned
<1>1. IInv /\ [PoolNext]_poolVars =>
        [Cardinality(pinnedHashes) <= pinCap =>
           \A b \in Blocks :
             (refCnt[b] = 1 /\ refCnt'[b] = 0 /\ blockHash[b] \in pinnedHashes)
               => pinnedByHash'[blockHash[b]] # None]_poolVars
  BY FitsThenPinnedStep
<1> QED BY <1>1, PoolInvariant, PTL DEF PoolSpec, FitsThenPinned

-----------------------------------------------------------------------------
(* Refinement of the abstract pin.                                         *)

LEMMA HonestPool ==
  IInv => Promise!Honest(pinnedByHash, pinnedHashes, pinCap, blockHash)
<1> QED BY DEF IInv, TypeOK, ReservationHolds, CapRespected, Reserved,
               Promise!Honest, Promise!KeptHashes, Promise!Cardinality, Cardinality

LEMMA PromiseStep ==
  ASSUME IInv, IInv', [PoolNext]_poolVars
  PROVE  [Promise!PromiseNext]_(Promise!promiseVars)
<1>1. Promise!Honest(pinnedByHash', pinnedHashes', pinCap', blockHash')
  BY HonestPool DEF IInv, TypeOK, ReservationHolds, CapRespected, Reserved,
                    Promise!Honest, Promise!KeptHashes, Promise!Cardinality, Cardinality
<1>2. CASE UNCHANGED <<pinnedHashes, pinCap>>
  <2>1. \A h \in Reserved : pinnedByHash'[h] = pinnedByHash[h]
    BY <1>2, NeverEvictedStep
  <2> QED BY <1>1, <1>2, <2>1
          DEF Promise!PromiseNext, Promise!Keep, Promise!KeptHashes, Reserved
<1>3. CASE ~UNCHANGED <<pinnedHashes, pinCap>>
  <2>1. (\E H \in SUBSET Hashes : Rearm(H)) \/ ResetPrefixCache
    BY <1>3 DEF PoolNext, GetNewBlocks, CacheFullBlocks, Touch, FreeBlocks, poolVars
  <2>2. \A h \in Reserved' : pinnedByHash'[h] = pinnedByHash[h]
    <3>1. CASE \E H \in SUBSET Hashes : Rearm(H)
      <4>1. MaxFraction \in Nat
        BY PinPoolAssumption
      <4> QED BY <3>1, <4>1, SetPinnedHashesPin DEF Rearm
    <3>2. CASE ResetPrefixCache
      BY <3>2, ResetIInv
    <3> QED BY <2>1, <3>1, <3>2
  <2>3. pinnedHashes' \in SUBSET Hashes
    BY DEF IInv, TypeOK
  <2> QED BY <1>1, <2>2, <2>3
          DEF Promise!PromiseNext, Promise!Replace, Promise!KeptHashes, Reserved
<1> QED BY <1>2, <1>3

\* The patched pool implements the abstract pin: reservations are honest,
\* capped, and given up only by set_pinned_hashes().
THEOREM PoolKeepsPromise == PoolSpec => KeepsPromise
<1>1. PoolInit => Promise!PromiseInit
  BY DEF PoolInit, Promise!PromiseInit
<1>2. IInv /\ IInv' /\ [PoolNext]_poolVars => [Promise!PromiseNext]_(Promise!promiseVars)
  BY PromiseStep
<1> QED BY <1>1, <1>2, PoolInvariant, PTL DEF PoolSpec, KeepsPromise, Promise!PromiseSpec

-----------------------------------------------------------------------------
(* The inductive invariant.                                                *)

\* A request is queued once, in one of the two queues.
Queue(s) == s \in Seq(Reqs) /\ IsInjective(s)

Queues ==
  /\ Queue(waiting) /\ Queue(running)
  /\ \A r \in Reqs : ~(Contains(waiting, r) /\ Contains(running, r))

\* The allocation the engine thread is in is one of a running request.
BusyRuns ==
  busy # None =>
    \E r \in Reqs : /\ busy = <<r, "allocate">> \/ busy = <<r, "cache">>
                    /\ Contains(running, r)

\* A block fills at most one position of a request's table.
FillsOnce(t) ==
  \A g, h \in Groups : \A i \in DOMAIN t[g], j \in DOMAIN t[h] :
    t[g][i] # None /\ t[g][i] = t[h][j] => g = h /\ i = j

Tables ==
  /\ computed \in [Reqs -> Nat]
  /\ table \in [Reqs -> [Groups -> Seq(Blocks \cup {None})]]
  /\ \A r \in Reqs : FillsOnce(table[r])

\* A hot key is armed, with an armed set that fits the cap, and its content
\* is reserved or still in use.
InUse(key) == \E b \in Blocks : blockHash[b] = key /\ refCnt[b] > 0

HotHeld ==
  \A key \in hot : /\ key \in pinnedHashes
                   /\ Cardinality(pinnedHashes) <= pinCap
                   /\ key \in Reserved \/ InUse(key)

SInv == IInv /\ Queues /\ BusyRuns /\ Tables /\ RefCountsMatch /\ HotHeld

-----------------------------------------------------------------------------
(* Numbers.                                                                *)

\* A bounded, inhabited set of numbers has a largest one.
LEMMA LargestOf ==
  ASSUME NEW S \in SUBSET Nat, S # {},
         NEW top \in Nat, \A n \in S : n <= top
  PROVE  \E n \in S : \A m \in S : m <= n
<1> DEFINE F == {n .. top : n \in S}
<1>1. F \subseteq FiniteSubsetsOf(Nat)
  <2>1. \A n \in S : IsFiniteSet(n .. top) /\ n .. top \subseteq Nat
    BY FS_Interval
  <2> QED BY <2>1 DEF FiniteSubsetsOf
<1>2. F # {}
  OBVIOUS
<1> HIDE DEF F
<1>3. PICK X \in F : \A Y \in F : ~(<<Y, X>> \in StrictSubsetOrdering(Nat))
  BY <1>1, <1>2, WFMin, FS_StrictSubsetOrderingWellFounded
<1>4. PICK n \in S : X = n .. top
  BY <1>3 DEF F
<1>5. ASSUME NEW m \in S, m > n PROVE FALSE
  <2>1. m .. top \in F
    BY DEF F
  <2>2. n \in n .. top /\ n \notin m .. top /\ m .. top \subseteq n .. top
    BY <1>5
  <2>3. <<m .. top, X>> \in StrictSubsetOrdering(Nat)
    BY <1>4, <2>2 DEF StrictSubsetOrdering
  <2> QED BY <1>3, <2>1, <2>3
<1> QED BY <1>5

LEMMA Division ==
  ASSUME NEW a \in Int, NEW d \in Nat \ {0}
  PROVE  /\ a \div d \in Int
         /\ a >= 0 => a \div d \in Nat
         /\ (a \div d) * d <= a
  OBVIOUS

LEMMA TimesMonotonic ==
  ASSUME NEW a \in Nat, NEW b \in Nat, NEW d \in Nat, a <= b
  PROVE  a * d \in Nat /\ a * d <= b * d
  OBVIOUS

LEMMA TimesCancel ==
  ASSUME NEW a \in Nat, NEW b \in Nat, NEW d \in Nat \ {0}
  PROVE  /\ a * d = b * d => a = b
         /\ a * d <= b * d => a <= b
  OBVIOUS

-----------------------------------------------------------------------------
(* What the configuration gives.                                           *)

LEMMA ChunkType ==
  /\ Chunk \in Nat \ {0}
  /\ \A g \in Groups : BlockSize[g] \in Nat \ {0} /\ BlockSize[g] <= Chunk
<1>1. PICK g \in Groups : \A h \in Groups : BlockSize[h] <= BlockSize[g]
  BY PinSchedulerAssumption
<1>2. \E n \in {BlockSize[h] : h \in Groups} : \A h \in Groups : BlockSize[h] <= n
  BY <1>1
<1>3. Chunk \in {BlockSize[h] : h \in Groups} /\ \A h \in Groups : BlockSize[h] <= Chunk
  BY <1>2 DEF Chunk
<1> QED BY <1>3, PinSchedulerAssumption

LEMMA PromptType ==
  ASSUME NEW r \in Reqs
  PROVE  Prompt[r] \in Seq(Range(Prompt[r])) /\ Len(Prompt[r]) \in Nat \ {0}
<1> DEFINE p == Prompt[r]
           T == Range(Prompt[r])
<1>1. p \in Seq(T) /\ p # <<>>
  BY PinSchedulerAssumption
<1> HIDE DEF p, T
<1>2. Len(p) \in Nat \ {0}
  BY <1>1, EmptySeq
<1> QED BY <1>1, <1>2 DEF p, T

\* Blocks of one prompt that end within it have keys of their own.
LEMMA KeysDiffer ==
  ASSUME NEW r \in Reqs, NEW g \in Groups, NEW h \in Groups,
         NEW i \in Nat, NEW j \in Nat,
         i * BlockSize[g] <= Len(Prompt[r]), j * BlockSize[h] <= Len(Prompt[r]),
         BlockKey(r, g, i) = BlockKey(r, h, j)
  PROVE  g = h /\ i = j
<1> DEFINE p == Prompt[r]
           T == Range(Prompt[r])
           a == i * BlockSize[g]
           b == j * BlockSize[h]
<1>1. BlockSize[g] \in Nat \ {0} /\ BlockSize[h] \in Nat \ {0}
  BY ChunkType
<1>2. a \in Nat /\ b \in Nat
  BY <1>1, TimesMonotonic
<1>3. p \in Seq(T) /\ Len(p) \in Nat /\ a <= Len(p) /\ b <= Len(p)
  BY PromptType
<1>4. g = h /\ SubSeq(p, 1, a) = SubSeq(p, 1, b)
  BY DEF BlockKey
<1> HIDE DEF p, T, a, b
<1>5. Len(SubSeq(p, 1, a)) = a /\ Len(SubSeq(p, 1, b)) = b
  <2>1. \A k \in 1 .. a : p[k] \in T
    BY <1>2, <1>3, ElementOfSeq
  <2>2. \A k \in 1 .. b : p[k] \in T
    BY <1>2, <1>3, ElementOfSeq
  <2>3. Len(SubSeq(p, 1, a)) = IF 1 <= a THEN a - 1 + 1 ELSE 0
    BY <1>2, <2>1, SubSeqProperties
  <2>4. Len(SubSeq(p, 1, b)) = IF 1 <= b THEN b - 1 + 1 ELSE 0
    BY <1>2, <2>2, SubSeqProperties
  <2> QED BY <1>2, <2>3, <2>4
<1>6. a = b
  BY <1>4, <1>5
<1> QED BY <1>1, <1>4, <1>6, TimesCancel DEF a, b

\* Full blocks of a prompt have their keys in Hashes.
LEMMA KeyOfFullBlock ==
  ASSUME NEW r \in Reqs, NEW g \in Cacheable, NEW i \in Nat \ {0},
         i * BlockSize[g] <= Len(Prompt[r])
  PROVE  BlockKey(r, g, i) \in Hashes
<1> DEFINE d == BlockSize[g]
           l == Len(Prompt[r])
<1>1. d \in Nat \ {0} /\ l \in Nat
  BY ChunkType, PromptType, PinSchedulerAssumption
<1> HIDE DEF d, l
<1>2. i * d <= l
  BY DEF d, l
<1>3. i <= l \div d
  BY <1>1, <1>2
<1>4. i \in 1 .. l \div d
  BY <1>1, <1>3, Division
<1> QED BY <1>4, PinSchedulerAssumption DEF d, l

LEMMA PromptHashesType == \A r \in Reqs : PromptHashes(r) \in SUBSET Hashes
  BY PinSchedulerAssumption DEF PromptHashes, PinGroups

\* A request is never computed past its prompt.
LEMMA NextComputedType ==
  ASSUME NEW r \in Reqs, computed[r] \in Nat
  PROVE  NextComputed(r) \in Nat /\ NextComputed(r) <= Len(Prompt[r])
<1> DEFINE a == computed[r] \div Chunk
           b == a * Chunk
<1>1. a \in Nat
  BY ChunkType, Division
<1> HIDE DEF a
<1>2. b \in Nat
  BY <1>1, ChunkType, TimesMonotonic
<1> QED BY <1>2, ChunkType, PromptType DEF NextComputed, Least, a

\* A cached prefix is a number of whole chunks, and short of the prompt.
LEMMA HitLengthType ==
  ASSUME NEW r \in Reqs
  PROVE  HitLength(r) \in Nat /\ HitLength(r) < Len(Prompt[r])
<1> DEFINE l == Len(Prompt[r])
           C == Chunk
           top == (l - 1) \div C
           hits == {n \in HitLengths(r) : HitAt(r, n)}
<1>1. l \in Nat \ {0} /\ C \in Nat \ {0}
  BY ChunkType, PromptType
<1> HIDE DEF l, C
<1>2. top \in Nat /\ top * C <= l - 1
  BY <1>1, Division
<1> HIDE DEF top
<1>3. \A n \in HitLengths(r) : n \in Nat /\ n <= l - 1
  <2>1. ASSUME NEW k \in 0 .. top PROVE k * C \in Nat /\ k * C <= l - 1
    <3>1. top * C \in Nat
      BY <1>1, <1>2, TimesMonotonic
    <3> QED BY <1>1, <1>2, <3>1, TimesMonotonic
  <2> QED BY <2>1 DEF HitLengths, l, C, top
<1>4. 0 \in hits
  <2>1. 0 \in HitLengths(r)
    <3>1. 0 \in 0 .. top /\ 0 * C = 0
      BY <1>1, <1>2
    <3> QED BY <3>1 DEF HitLengths, l, C, top
  <2>2. HitAt(r, 0)
    <3>1. \A g \in Groups : 0 \div BlockSize[g] = 0
      BY ChunkType
    <3> QED BY <3>1 DEF HitAt
  <2> QED BY <2>1, <2>2
<1>5. hits \subseteq Nat /\ \A n \in hits : n <= l - 1
  BY <1>3
<1> HIDE DEF hits
<1>6. \E n \in hits : \A m \in hits : m <= n
  <2>1. l - 1 \in Nat
    BY <1>1
  <2> QED BY <1>4, <1>5, <2>1, LargestOf
<1>7. \E n \in HitLengths(r) :
        HitAt(r, n) /\ \A m \in HitLengths(r) : HitAt(r, m) => m <= n
  BY <1>6 DEF hits
<1>8. HitLength(r) \in HitLengths(r)
  BY <1>7 DEF HitLength
<1> QED BY <1>1, <1>3, <1>8 DEF l

-----------------------------------------------------------------------------
(* The queues.                                                             *)

LEMMA QueueIndex ==
  ASSUME NEW s, Queue(s)
  PROVE  /\ Len(s) \in Nat /\ DOMAIN s = 1 .. Len(s)
         /\ \A i \in 1 .. Len(s) : s[i] \in Reqs
         /\ \A i, j \in 1 .. Len(s) : s[i] = s[j] => i = j
  BY LenProperties, ElementOfSeq DEF Queue, IsInjective

LEMMA QueueAppend ==
  ASSUME NEW s, Queue(s), NEW r \in Reqs, ~Contains(s, r)
  PROVE  /\ Queue(Append(s, r))
         /\ \A q : Contains(Append(s, r), q) <=> Contains(s, q) \/ q = r
<1> DEFINE t == Append(s, r)
           n == Len(s)
<1>1. s \in Seq(Reqs)
  BY DEF Queue
<1>2. /\ t \in Seq(Reqs) /\ Len(t) = n + 1
      /\ \A i \in 1 .. n : t[i] = s[i]
      /\ t[n + 1] = r
  BY <1>1, AppendProperties
<1>3. n \in Nat /\ \A i, j \in 1 .. n : s[i] = s[j] => i = j
  BY QueueIndex
<1>4. \A i \in 1 .. n : s[i] # r
  BY DEF Contains
<1> HIDE DEF t
<1>5. DOMAIN t = 1 .. n + 1
  BY <1>2, LenProperties
<1> HIDE DEF n
<1>6. Queue(t)
  <2>1. ASSUME NEW i \in 1 .. n + 1, NEW j \in 1 .. n + 1, t[i] = t[j]
        PROVE  i = j
    <3>1. CASE i \in 1 .. n /\ j \in 1 .. n
      BY <1>2, <1>3, <2>1, <3>1
    <3>2. CASE i = n + 1 \/ j = n + 1
      BY <1>2, <1>3, <1>4, <2>1, <3>2
    <3> QED BY <1>3, <3>1, <3>2
  <2> QED BY <1>2, <1>5, <2>1 DEF Queue, IsInjective
<1>7. ASSUME NEW q PROVE Contains(t, q) <=> Contains(s, q) \/ q = r
  <2>1. Contains(t, q) <=> \E i \in 1 .. n + 1 : t[i] = q
    BY <1>2 DEF Contains
  <2>2. Contains(s, q) <=> \E i \in 1 .. n : s[i] = q
    BY DEF Contains, n
  <2> QED BY <1>2, <1>3, <2>1, <2>2
<1> QED BY <1>6, <1>7 DEF t

\* A queue without its first element, and without its last.
LEMMA QueueTail ==
  ASSUME NEW s, Queue(s), s # <<>>
  PROVE  /\ Head(s) \in Reqs /\ Contains(s, Head(s))
         /\ Queue(Tail(s))
         /\ \A q : Contains(Tail(s), q) <=> Contains(s, q) /\ q # Head(s)
<1> DEFINE t == Tail(s)
           n == Len(s)
<1>1. s \in Seq(Reqs) /\ n \in Nat \ {0}
  BY EmptySeq DEF Queue
<1>2. /\ t \in Seq(Reqs) /\ Len(t) = n - 1
      /\ \A i \in 1 .. n - 1 : t[i] = s[i + 1]
      /\ Head(s) = s[1] /\ s[1] \in Reqs
  BY <1>1, HeadTailProperties
<1>3. \A i, j \in 1 .. n : s[i] = s[j] => i = j
  BY QueueIndex
<1> HIDE DEF t
<1>4. DOMAIN t = 1 .. n - 1
  BY <1>2, LenProperties
<1> HIDE DEF n
<1>5. Queue(t)
  <2>1. ASSUME NEW i \in 1 .. n - 1, NEW j \in 1 .. n - 1, t[i] = t[j]
        PROVE  i = j
    <3>1. s[i + 1] = s[j + 1]
      BY <1>2, <2>1
    <3>2. i + 1 \in 1 .. n /\ j + 1 \in 1 .. n
      BY <1>1
    <3>3. i + 1 = j + 1
      BY <1>3, <3>1, <3>2
    <3> QED BY <3>3
  <2> QED BY <1>2, <1>4, <2>1 DEF Queue, IsInjective
<1>6. ASSUME NEW q PROVE Contains(t, q) <=> Contains(s, q) /\ q # s[1]
  <2>1. Contains(t, q) <=> \E i \in 1 .. n - 1 : s[i + 1] = q
    BY <1>2 DEF Contains
  <2>2. Contains(s, q) <=> \E i \in 1 .. n : s[i] = q
    BY DEF Contains, n
  <2>3. ASSUME NEW i \in 1 .. n - 1, s[i + 1] = q
        PROVE  Contains(s, q) /\ q # s[1]
    <3>1. i + 1 \in 1 .. n /\ 1 \in 1 .. n /\ i + 1 # 1
      BY <1>1
    <3> QED BY <1>3, <2>2, <2>3, <3>1
  <2>4. ASSUME NEW i \in 1 .. n, s[i] = q, q # s[1]
        PROVE  \E j \in 1 .. n - 1 : s[j + 1] = q
    <3>1. i # 1 /\ i - 1 \in 1 .. n - 1 /\ (i - 1) + 1 = i
      BY <1>1, <2>4
    <3> QED BY <2>4, <3>1
  <2> QED BY <2>1, <2>2, <2>3, <2>4
<1>7. Contains(s, s[1])
  BY <1>1 DEF Contains, n
<1> QED BY <1>2, <1>5, <1>6, <1>7 DEF t

LEMMA QueueFront ==
  ASSUME NEW s, Queue(s), s # <<>>
  PROVE  /\ Last(s) \in Reqs /\ Contains(s, Last(s))
         /\ Queue(Front(s))
         /\ \A q : Contains(Front(s), q) <=> Contains(s, q) /\ q # Last(s)
<1> DEFINE t == SubSeq(s, 1, Len(s) - 1)
           n == Len(s)
<1>1. s \in Seq(Reqs) /\ n \in Nat \ {0} /\ \A i \in 1 .. n : s[i] \in Reqs
  BY EmptySeq, QueueIndex DEF Queue
<1>2. \A i, j \in 1 .. n : s[i] = s[j] => i = j
  BY QueueIndex
<1>3. /\ t \in Seq(Reqs) /\ Len(t) = n - 1
      /\ \A i \in 1 .. n - 1 : t[i] = s[i]
  <2> DEFINE m == n - 1
  <2>1. m \in Nat /\ 1 \in Int /\ \A i \in 1 .. m : s[i] \in Reqs
    BY <1>1
  <2> HIDE DEF m
  <2>2. /\ SubSeq(s, 1, m) \in Seq(Reqs)
        /\ Len(SubSeq(s, 1, m)) = IF 1 <= m THEN m - 1 + 1 ELSE 0
        /\ \A i \in 1 .. m - 1 + 1 : SubSeq(s, 1, m)[i] = s[1 + i - 1]
    BY <2>1, SubSeqProperties
  <2>3. t = SubSeq(s, 1, m)
    BY DEF m, n
  <2> HIDE DEF t
  <2>4. Len(t) = m /\ \A i \in 1 .. m : t[i] = s[i]
    BY <2>1, <2>2, <2>3
  <2> QED BY <2>2, <2>3, <2>4 DEF m
<1>4. t = Front(s) /\ s[n] = Last(s)
  BY DEF Front, Last
<1> HIDE DEF t
<1>5. DOMAIN t = 1 .. n - 1
  BY <1>3, LenProperties
<1> HIDE DEF n
<1>6. Queue(t)
  <2>1. \A i, j \in 1 .. n - 1 : t[i] = t[j] => i = j
    BY <1>1, <1>2, <1>3
  <2> QED BY <1>3, <1>5, <2>1 DEF Queue, IsInjective
<1>7. ASSUME NEW q PROVE Contains(t, q) <=> Contains(s, q) /\ q # s[n]
  <2>1. Contains(t, q) <=> \E i \in 1 .. n - 1 : s[i] = q
    BY <1>3 DEF Contains
  <2>2. Contains(s, q) <=> \E i \in 1 .. n : s[i] = q
    BY DEF Contains, n
  <2> QED BY <1>1, <1>2, <2>1, <2>2
<1>8. Contains(s, s[n])
  BY <1>1 DEF Contains, n
<1> QED BY <1>1, <1>4, <1>6, <1>7, <1>8

LEMMA QueuePrepend ==
  ASSUME NEW s, Queue(s), NEW r \in Reqs, ~Contains(s, r)
  PROVE  /\ Queue(<<r>> \o s)
         /\ \A q : Contains(<<r>> \o s, q) <=> Contains(s, q) \/ q = r
<1> DEFINE u == <<r>>
           t == u \o s
           n == Len(s)
<1>1. s \in Seq(Reqs) /\ n \in Nat /\ u \in Seq(Reqs) /\ Len(u) = 1 /\ u[1] = r
  BY QueueIndex DEF Queue
<1> HIDE DEF u, n
<1>2. /\ t \in Seq(Reqs) /\ Len(t) = 1 + n
      /\ \A i \in 1 .. 1 + n : t[i] = IF i <= 1 THEN u[i] ELSE s[i - 1]
  <2>1. /\ u \o s \in Seq(Reqs) /\ Len(u \o s) = Len(u) + Len(s)
        /\ \A i \in 1 .. Len(u) + Len(s) :
             (u \o s)[i] = IF i <= Len(u) THEN u[i] ELSE s[i - Len(u)]
    BY <1>1, ConcatProperties
  <2> QED BY <1>1, <2>1 DEF n
<1>3. \A i, j \in 1 .. n : s[i] = s[j] => i = j
  BY QueueIndex DEF n
<1>4. \A i \in 1 .. n : s[i] # r
  BY DEF Contains, n
<1> HIDE DEF t
<1>5. DOMAIN t = 1 .. 1 + n
  BY <1>2, LenProperties
<1>6. t[1] = r /\ \A i \in 2 .. 1 + n : i - 1 \in 1 .. n /\ t[i] = s[i - 1]
  BY <1>1, <1>2
<1>7. Queue(t)
  <2>1. ASSUME NEW i \in 1 .. 1 + n, NEW j \in 1 .. 1 + n, t[i] = t[j]
        PROVE  i = j
    <3>1. CASE i = 1 \/ j = 1
      BY <1>1, <1>4, <1>6, <2>1, <3>1
    <3>2. CASE i \in 2 .. 1 + n /\ j \in 2 .. 1 + n
      <4>1. i - 1 = j - 1
        BY <1>3, <1>6, <2>1, <3>2
      <4> QED BY <4>1
    <3> QED BY <1>1, <3>1, <3>2
  <2> QED BY <1>2, <1>5, <2>1 DEF Queue, IsInjective
<1>8. ASSUME NEW q PROVE Contains(t, q) <=> Contains(s, q) \/ q = r
  <2>1. Contains(t, q) <=> \E i \in 1 .. 1 + n : t[i] = q
    BY <1>2 DEF Contains
  <2>2. Contains(s, q) <=> \E i \in 1 .. n : s[i] = q
    BY DEF Contains, n
  <2>3. ASSUME NEW i \in 1 .. n PROVE i + 1 \in 1 .. 1 + n /\ t[i + 1] = s[i]
    <3>1. i + 1 \in 2 .. 1 + n /\ (i + 1) - 1 = i
      BY <1>1
    <3> QED BY <1>1, <1>6, <3>1
  <2>4. 1 \in 1 .. 1 + n
    BY <1>1
  <2>5. ASSUME NEW i \in 1 .. 1 + n, t[i] = q PROVE q = r \/ \E j \in 1 .. n : s[j] = q
    BY <1>1, <1>6, <2>5
  <2> QED BY <1>6, <2>1, <2>2, <2>3, <2>4, <2>5
<1> QED BY <1>7, <1>8 DEF t, u

LEMMA QueueRemove ==
  ASSUME NEW s, Queue(s), NEW r
  PROVE  /\ Queue(RemoveFirst(s, r))
         /\ \A q : Contains(RemoveFirst(s, r), q) <=> Contains(s, q) /\ q # r
<1> DEFINE n == Len(s)
<1>1. s \in Seq(Reqs) /\ n \in Nat /\ \A i \in 1 .. n : s[i] \in Reqs
  BY QueueIndex DEF Queue
<1>2. \A i, j \in 1 .. n : s[i] = s[j] => i = j
  BY QueueIndex
<1>3. CASE ~Contains(s, r)
  BY <1>3 DEF RemoveFirst, Contains
<1>4. CASE Contains(s, r)
  <2>1. PICK k \in 1 .. n : s[k] = r
    BY <1>4 DEF Contains
  <2>2. {i \in 1 .. n : s[i] = r} = {k}
    BY <1>2, <2>1
  <2>3. SelectInSeq(s, LAMBDA v : v = r) = k
    BY <1>1, <2>2 DEF SelectInSeq, Min
  <2> DEFINE a == SubSeq(s, 1, k - 1)
             b == SubSeq(s, k + 1, n)
             t == a \o b
  <2>4. RemoveFirst(s, r) = t
    BY <1>4, <2>3 DEF RemoveFirst, RemoveAt, Contains
  <2> HIDE DEF n
  <2>5. k \in Int /\ n \in Int /\ 1 <= k /\ k <= n
    BY <1>1, <2>1
  <2>6. a \in Seq(Reqs) /\ Len(a) = k - 1 /\ \A i \in 1 .. k - 1 : a[i] = s[i]
    <3> DEFINE m == k - 1
    <3>1. m \in Int /\ 1 \in Int /\ \A i \in 1 .. m : s[i] \in Reqs
      BY <1>1, <2>5
    <3> HIDE DEF m
    <3>2. /\ SubSeq(s, 1, m) \in Seq(Reqs)
          /\ Len(SubSeq(s, 1, m)) = IF 1 <= m THEN m - 1 + 1 ELSE 0
          /\ \A i \in 1 .. m - 1 + 1 : SubSeq(s, 1, m)[i] = s[1 + i - 1]
      BY <3>1, SubSeqProperties
    <3>3. a = SubSeq(s, 1, m)
      BY DEF m
    <3> HIDE DEF a
    <3>4. m = k - 1
      BY DEF m
    <3> QED BY <2>5, <3>1, <3>2, <3>3, <3>4
  <2>7. b \in Seq(Reqs) /\ Len(b) = n - k /\ \A i \in 1 .. n - k : b[i] = s[k + i]
    <3> DEFINE m == k + 1
    <3>1. m \in Int /\ n \in Int /\ \A i \in m .. n : s[i] \in Reqs
      BY <1>1, <2>5
    <3> HIDE DEF m
    <3>2. /\ SubSeq(s, m, n) \in Seq(Reqs)
          /\ Len(SubSeq(s, m, n)) = IF m <= n THEN n - m + 1 ELSE 0
          /\ \A i \in 1 .. n - m + 1 : SubSeq(s, m, n)[i] = s[m + i - 1]
      BY <3>1, SubSeqProperties
    <3>3. b = SubSeq(s, m, n) /\ m = k + 1
      BY DEF m
    <3> HIDE DEF b
    <3> QED BY <2>5, <3>1, <3>2, <3>3
  <2> HIDE DEF a, b
  <2>8. /\ t \in Seq(Reqs) /\ Len(t) = n - 1
        /\ \A i \in 1 .. n - 1 : t[i] = IF i < k THEN s[i] ELSE s[i + 1]
    <3>1. /\ t \in Seq(Reqs) /\ Len(t) = Len(a) + Len(b)
          /\ \A i \in 1 .. Len(a) + Len(b) :
               t[i] = IF i <= Len(a) THEN a[i] ELSE b[i - Len(a)]
      BY <2>6, <2>7, ConcatProperties
    <3> HIDE DEF t
    <3>2. Len(t) = n - 1 /\ \A i \in 1 .. n - 1 : t[i] = IF i <= k - 1 THEN a[i] ELSE b[i - (k - 1)]
      BY <2>5, <2>6, <2>7, <3>1
    <3>3. ASSUME NEW i \in 1 .. n - 1, i < k PROVE t[i] = s[i]
      <4>1. i \in 1 .. k - 1 /\ i <= k - 1
        BY <2>5, <3>3
      <4> QED BY <2>6, <3>2, <4>1
    <3>4. ASSUME NEW i \in 1 .. n - 1, ~(i < k) PROVE t[i] = s[i + 1]
      <4>1. i - (k - 1) \in 1 .. n - k /\ ~(i <= k - 1) /\ k + (i - (k - 1)) = i + 1
        BY <2>5, <3>4
      <4> QED BY <2>7, <3>2, <4>1
    <3> QED BY <3>1, <3>2, <3>3, <3>4
  <2> HIDE DEF t
  <2>9. DOMAIN t = 1 .. n - 1
    BY <2>8, LenProperties
  <2> DEFINE old(i) == IF i < k THEN i ELSE i + 1
  <2>10. \A i \in 1 .. n - 1 : old(i) \in 1 .. n /\ old(i) # k /\ t[i] = s[old(i)]
    BY <2>5, <2>8
  <2>11. Queue(t)
    <3>1. ASSUME NEW i \in 1 .. n - 1, NEW j \in 1 .. n - 1, t[i] = t[j]
          PROVE  i = j
      <4>1. old(i) = old(j)
        BY <1>2, <2>10, <3>1 DEF n
      <4> QED BY <2>5, <4>1
    <3> QED BY <2>8, <2>9, <3>1 DEF Queue, IsInjective
  <2>12. ASSUME NEW q PROVE Contains(t, q) <=> Contains(s, q) /\ q # r
    <3>1. Contains(t, q) <=> \E i \in 1 .. n - 1 : t[i] = q
      BY <2>8 DEF Contains
    <3>2. Contains(s, q) <=> \E i \in 1 .. n : s[i] = q
      BY DEF Contains, n
    <3>3. ASSUME NEW i \in 1 .. n - 1, t[i] = q PROVE Contains(s, q) /\ q # r
      <4>1. s[old(i)] # s[k]
        BY <1>2, <2>1, <2>10 DEF n
      <4> QED BY <2>1, <2>10, <3>2, <3>3, <4>1
    <3>4. ASSUME NEW i \in 1 .. n, s[i] = q, q # r
          PROVE  \E j \in 1 .. n - 1 : t[j] = q
      <4>1. i # k
        BY <2>1, <3>4
      <4>2. CASE i < k
        BY <2>5, <2>8, <3>4, <4>2
      <4>3. CASE i > k
        <5>1. i - 1 \in 1 .. n - 1 /\ ~(i - 1 < k) /\ (i - 1) + 1 = i
          BY <2>5, <4>3
        <5> QED BY <2>8, <3>4, <5>1
      <4> QED BY <2>5, <4>1, <4>2, <4>3
    <3> QED BY <3>1, <3>2, <3>3, <3>4
  <2> QED BY <2>4, <2>11, <2>12
<1> QED BY <1>3, <1>4

-----------------------------------------------------------------------------
(* Block tables and what they hold.                                        *)

TableType == [Groups -> Seq(Blocks \cup {None})]

LEMMA HoldingIs ==
  ASSUME NEW t, NEW b
  PROVE  b \in Holding(t) <=>
           b # None /\ \E g \in Groups : \E i \in DOMAIN t[g] : t[g][i] = b
<1> DEFINE F == {{t[g][i] : i \in DOMAIN t[g]} : g \in Groups}
<1>1. b \in UNION F <=> \E X \in F : b \in X
  OBVIOUS
<1>2. ASSUME NEW X \in F, b \in X
      PROVE  \E g \in Groups : \E i \in DOMAIN t[g] : t[g][i] = b
  <2>1. PICK g \in Groups : X = {t[g][i] : i \in DOMAIN t[g]}
    OBVIOUS
  <2>2. PICK i \in DOMAIN t[g] : b = t[g][i]
    BY <1>2, <2>1
  <2> QED BY <2>2
<1>3. ASSUME NEW g \in Groups, NEW i \in DOMAIN t[g], t[g][i] = b
      PROVE  \E X \in F : b \in X
  <2>1. {t[g][j] : j \in DOMAIN t[g]} \in F
    OBVIOUS
  <2>2. b \in {t[g][j] : j \in DOMAIN t[g]}
    BY <1>3
  <2> HIDE DEF F
  <2> QED BY <2>1, <2>2
<1>4. b \in Holding(t) <=> b # None /\ b \in UNION F
  BY DEF Holding
<1> HIDE DEF F
<1> QED BY <1>1, <1>2, <1>3, <1>4

LEMMA TableIndex ==
  ASSUME NEW t \in TableType, NEW g \in Groups
  PROVE  /\ t[g] \in Seq(Blocks \cup {None}) /\ Len(t[g]) \in Nat
         /\ DOMAIN t[g] = 1 .. Len(t[g])
         /\ \A i \in DOMAIN t[g] : t[g][i] \in Blocks \cup {None}
<1>1. t[g] \in Seq(Blocks \cup {None})
  BY DEF TableType
<1> QED BY <1>1, LenProperties, ElementOfSeq

LEMMA HoldingType ==
  ASSUME NEW t \in TableType
  PROVE  Holding(t) \in SUBSET Blocks
  BY HoldingIs, TableIndex

\* A table given group by group.
LEMMA TableOf ==
  ASSUME NEW t, t = [g \in Groups |-> t[g]],
         NEW len, \A g \in Groups : /\ len[g] \in Nat
                                   /\ t[g] \in [1 .. len[g] -> Blocks \cup {None}]
  PROVE  t \in TableType /\ \A g \in Groups : DOMAIN t[g] = 1 .. len[g]
<1> DEFINE B == Blocks \cup {None}
<1>1. ASSUME NEW g \in Groups
      PROVE  t[g] \in Seq(B) /\ DOMAIN t[g] = 1 .. len[g]
  <2> DEFINE n == len[g]
             s == t[g]
  <2>1. n \in Nat /\ s \in [1 .. n -> B]
    OBVIOUS
  <2> HIDE DEF B, n, s
  <2>2. DOMAIN s = 1 .. n
    BY <2>1
  <2>3. s \in Seq(B)
    BY <2>1, SeqDef
  <2> QED BY <2>2, <2>3 DEF n, s
<1> HIDE DEF B
<1>2. t \in [Groups -> Seq(B)]
  BY <1>1
<1> QED BY <1>1, <1>2 DEF TableType, B

LEMMA EmptyTableIs ==
  EmptyTable \in TableType /\ FillsOnce(EmptyTable) /\ Holding(EmptyTable) = {}
<1>1. \A g \in Groups : EmptyTable[g] = <<>> /\ DOMAIN EmptyTable[g] = {}
  BY DEF EmptyTable
<1>2. EmptyTable \in TableType
  BY EmptySeq DEF EmptyTable, TableType
<1>3. FillsOnce(EmptyTable)
  BY <1>1 DEF FillsOnce
<1>4. Holding(EmptyTable) = {}
  BY <1>1, HoldingIs
<1> QED BY <1>2, <1>3, <1>4

-----------------------------------------------------------------------------
(* Counting the tables a block sits in.                                    *)

Holders(tables, b) == {r \in Reqs : b \in Holding(tables[r])}

RefCounts == \A b \in Blocks : refCnt[b] = Cardinality(Holders(table, b))

\* Only request r's table changes: the count of each block follows it.
LEMMA Recount ==
  ASSUME NEW N, IsFiniteSet(N), NEW M, NEW r,
         \A q : q # r => (q \in N <=> q \in M)
  PROVE  /\ Cardinality(N) \in Nat
         /\ r \in N => Cardinality(N) > 0
         /\ Cardinality(M) = CASE r \in N /\ r \notin M -> Cardinality(N) - 1
                               [] r \notin N /\ r \in M -> Cardinality(N) + 1
                               [] OTHER                 -> Cardinality(N)
<1>1. Cardinality(N) \in Nat
  BY FS_CardinalityType
<1>2. ASSUME r \in N PROVE Cardinality(N) > 0
  <2>1. Cardinality(N) # 0
    BY <1>2, FS_EmptySet
  <2> QED BY <1>1, <2>1
<1>3. ASSUME r \in M <=> r \in N PROVE Cardinality(M) = Cardinality(N)
  <2>1. M = N
    BY <1>3
  <2> QED BY <2>1
<1>4. ASSUME r \in M, r \notin N PROVE Cardinality(M) = Cardinality(N) + 1
  <2>1. M = N \cup {r}
    BY <1>4
  <2> QED BY <1>4, <2>1, FS_AddElement
<1>5. ASSUME r \notin M, r \in N PROVE Cardinality(M) = Cardinality(N) - 1
  <2>1. M = N \ {r}
    BY <1>5
  <2> QED BY <1>5, <2>1, FS_RemoveElement
<1> QED BY <1>1, <1>2, <1>3, <1>4, <1>5

\* The count of block b when r's table becomes t.
LEMMA RecountTable ==
  ASSUME RefCounts, table \in [Reqs -> TableType],
         NEW r \in Reqs, NEW t, table' = [table EXCEPT ![r] = t],
         NEW b \in Blocks
  PROVE  /\ refCnt[b] \in Nat
         /\ b \in Holding(table[r]) => refCnt[b] > 0
         /\ Cardinality(Holders(table', b)) =
              CASE b \in Holding(table[r]) /\ b \notin Holding(t) -> refCnt[b] - 1
                [] b \notin Holding(table[r]) /\ b \in Holding(t) -> refCnt[b] + 1
                [] OTHER                                          -> refCnt[b]
<1> DEFINE N == Holders(table, b)
           M == Holders(table', b)
<1>1. IsFiniteSet(N)
  <2>1. N \in SUBSET Reqs /\ IsFiniteSet(Reqs)
    BY PinSchedulerAssumption DEF Holders
  <2> HIDE DEF N
  <2> QED BY <2>1, FS_Subset
<1>2. refCnt[b] = Cardinality(N)
  BY DEF RefCounts
<1>3. r \in N <=> b \in Holding(table[r])
  BY DEF Holders
<1>4. r \in M <=> b \in Holding(t)
  <2>1. table'[r] = t
    OBVIOUS
  <2> QED BY <2>1 DEF Holders
<1>5. ASSUME NEW q, q # r PROVE q \in N <=> q \in M
  <2>1. q \in Reqs => table'[q] = table[q]
    BY <1>5
  <2> QED BY <2>1 DEF Holders
<1> HIDE DEF N, M
<1>6. /\ Cardinality(N) \in Nat
      /\ r \in N => Cardinality(N) > 0
      /\ Cardinality(M) = CASE r \in N /\ r \notin M -> Cardinality(N) - 1
                            [] r \notin N /\ r \in M -> Cardinality(N) + 1
                            [] OTHER                 -> Cardinality(N)
  BY <1>1, <1>5, Recount
<1> QED BY <1>2, <1>3, <1>4, <1>6 DEF M

\* A request gives back exactly what leaves its table.
LEMMA GiveBack ==
  ASSUME RefCounts, table \in [Reqs -> TableType],
         NEW r \in Reqs, NEW t, table' = [table EXCEPT ![r] = t],
         NEW gone, gone = Holding(table[r]) \ Holding(t),
         Holding(t) \subseteq Holding(table[r]),
         IF gone = {} THEN UNCHANGED poolVars ELSE FreeBlocks(gone)
  PROVE  RefCounts'
<1> SUFFICES ASSUME NEW b \in Blocks
             PROVE  refCnt'[b] = Cardinality(Holders(table', b))
  BY DEF RefCounts, Holders, Holding
<1>1. refCnt'[b] = IF b \in gone THEN refCnt[b] - 1 ELSE refCnt[b]
  BY DEF FreeBlocks, poolVars
<1> QED BY <1>1, RecountTable

\* A request takes blocks nobody held.
LEMMA TakeNew ==
  ASSUME OnePlace, RefCounts, table \in [Reqs -> TableType],
         NEW r \in Reqs, NEW t, table' = [table EXCEPT ![r] = t],
         NEW S \in SUBSET freeQueue, Holding(t) = Holding(table[r]) \cup S,
         IF S = {} THEN UNCHANGED poolVars ELSE GetNewBlocks(S)
  PROVE  RefCounts'
<1> SUFFICES ASSUME NEW b \in Blocks
             PROVE  refCnt'[b] = Cardinality(Holders(table', b))
  BY DEF RefCounts, Holders, Holding
<1>1. b \in S => refCnt[b] = 0
  BY DEF OnePlace
<1>2. refCnt'[b] = IF b \in S THEN refCnt[b] + 1 ELSE refCnt[b]
  BY <1>1 DEF GetNewBlocks, poolVars
<1>3. /\ refCnt[b] \in Nat
      /\ b \in Holding(table[r]) => refCnt[b] > 0
      /\ Cardinality(Holders(table', b)) =
           CASE b \in Holding(table[r]) /\ b \notin Holding(t) -> refCnt[b] - 1
             [] b \notin Holding(table[r]) /\ b \in Holding(t) -> refCnt[b] + 1
             [] OTHER                                          -> refCnt[b]
  BY RecountTable
<1>4. b \in Holding(t) <=> b \in Holding(table[r]) \/ b \in S
  OBVIOUS
<1>5. b \in S => b \notin Holding(table[r])
  BY <1>1, <1>3
<1> QED BY <1>2, <1>3, <1>4, <1>5

\* A request that held nothing takes the blocks of its hit.
LEMMA TakeHit ==
  ASSUME RefCounts, table \in [Reqs -> TableType],
         NEW r \in Reqs, NEW t, table' = [table EXCEPT ![r] = t],
         Holding(table[r]) = {},
         IF Holding(t) = {} THEN UNCHANGED poolVars ELSE Touch(Holding(t))
  PROVE  RefCounts'
<1> SUFFICES ASSUME NEW b \in Blocks
             PROVE  refCnt'[b] = Cardinality(Holders(table', b))
  BY DEF RefCounts, Holders, Holding
<1>1. refCnt'[b] = IF b \in Holding(t) THEN refCnt[b] + 1 ELSE refCnt[b]
  BY DEF Touch, poolVars
<1> QED BY <1>1, RecountTable

LEMMA HeldInUse ==
  ASSUME RefCounts, NEW r \in Reqs, NEW b \in Blocks, b \in Holding(table[r])
  PROVE  refCnt[b] > 0
<1> DEFINE N == Holders(table, b)
<1>1. N \in SUBSET Reqs /\ IsFiniteSet(Reqs) /\ r \in N /\ refCnt[b] = Cardinality(N)
  BY PinSchedulerAssumption DEF Holders, RefCounts
<1> HIDE DEF N
<1>2. IsFiniteSet(N) /\ Cardinality(N) \in Nat
  BY <1>1, FS_Subset, FS_CardinalityType
<1> QED BY <1>1, <1>2, FS_EmptySet

-----------------------------------------------------------------------------
(* What each operation does to a table.                                    *)

\* A hit: each position of the cached prefix has a block of its own, because
\* each has a key of its own.
LEMMA HitTable ==
  ASSUME TypeOK, NEW r \in Reqs, NEW n \in Nat, n <= Len(Prompt[r]),
         NEW t \in HitTables(r, n)
  PROVE  t \in TableType /\ FillsOnce(t)
<1>1. PICK pick \in [HitPositions(n) -> Blocks] :
        /\ \A p \in DOMAIN pick : pick[p] \in CachedBlocks(BlockKey(r, p[1], p[2]))
        /\ t = [g \in Groups |-> [i \in 1 .. n \div BlockSize[g] |->
                  IF <<g, i>> \in DOMAIN pick THEN pick[<<g, i>>] ELSE None]]
  BY DEF HitTables
<1> DEFINE len == [g \in Groups |-> n \div BlockSize[g]]
<1>2. ASSUME NEW g \in Groups PROVE len[g] \in Nat
  BY ChunkType, Division
<1>3. ASSUME NEW g \in Groups
      PROVE  /\ t[g] = [i \in 1 .. len[g] |-> t[g][i]]
             /\ \A i \in 1 .. len[g] :
                  t[g][i] = IF <<g, i>> \in DOMAIN pick THEN pick[<<g, i>>] ELSE None
  BY <1>1
<1>4. t = [g \in Groups |-> t[g]]
  BY <1>1
<1>5. \A g \in Groups : t[g] \in [1 .. len[g] -> Blocks \cup {None}]
  <2>1. \A g \in Groups : \A i \in 1 .. len[g] : t[g][i] \in Blocks \cup {None}
    BY <1>1, <1>3
  <2> QED BY <1>3, <2>1
<1>6. \A g \in Groups : \A i \in 1 .. len[g] : i \in Nat /\ i * BlockSize[g] <= Len(Prompt[r])
  <2>1. SUFFICES ASSUME NEW g \in Groups, NEW i \in 1 .. len[g]
                 PROVE  i \in Nat /\ i * BlockSize[g] <= Len(Prompt[r])
    OBVIOUS
  <2> DEFINE d == BlockSize[g]
             k == n \div d
  <2>2. d \in Nat \ {0}
    BY ChunkType
  <2> HIDE DEF d
  <2>3. k \in Nat /\ k * d <= n
    BY <2>2, Division
  <2>4. i \in 1 .. k
    BY DEF d
  <2> HIDE DEF k
  <2>5. i \in Nat /\ i * d <= k * d /\ i * d \in Nat /\ k * d \in Nat
    BY <2>2, <2>3, <2>4, TimesMonotonic
  <2>6. Len(Prompt[r]) \in Nat
    BY PromptType
  <2> QED BY <2>3, <2>5, <2>6 DEF d
<1> HIDE DEF len
<1>7. t \in TableType /\ \A g \in Groups : DOMAIN t[g] = 1 .. len[g]
  BY <1>2, <1>4, <1>5, TableOf
<1>8. ASSUME NEW g \in Groups, NEW h \in Groups, NEW i \in DOMAIN t[g], NEW j \in DOMAIN t[h],
             t[g][i] # None, t[g][i] = t[h][j]
      PROVE  g = h /\ i = j
  <2>1. i \in 1 .. len[g] /\ j \in 1 .. len[h]
    BY <1>7
  <2>2. <<g, i>> \in DOMAIN pick /\ <<h, j>> \in DOMAIN pick
        /\ pick[<<g, i>>] = pick[<<h, j>>]
    BY <1>3, <1>8, <2>1
  <2>3. /\ blockHash[pick[<<g, i>>]] = BlockKey(r, g, i)
        /\ blockHash[pick[<<h, j>>]] = BlockKey(r, h, j)
    BY <1>1, <2>2 DEF CachedBlocks
  <2>4. BlockKey(r, g, i) = BlockKey(r, h, j)
    BY <2>2, <2>3
  <2> QED BY <1>6, <2>1, <2>4, KeysDiffer
<1>9. FillsOnce(t)
  BY <1>8 DEF FillsOnce
<1> QED BY <1>7, <1>9

\* State blocks given back leave the table, and nothing else does.
LEMMA ContinueTable ==
  ASSUME NEW r \in Reqs, table[r] \in TableType, FillsOnce(table[r]),
         NEW t, t = [g \in Groups |-> [i \in DOMAIN table[r][g] |->
                       IF <<g, i>> \in Skipped(r) THEN None ELSE table[r][g][i]]]
  PROVE  /\ t \in TableType /\ FillsOnce(t)
         /\ Holding(t) \subseteq Holding(table[r])
         /\ {table[r][p[1]][p[2]] : p \in Skipped(r)} = Holding(table[r]) \ Holding(t)
<1> DEFINE old == table[r]
           gone == {old[p[1]][p[2]] : p \in Skipped(r)}
           len == [g \in Groups |-> Len(old[g])]
<1>1. ASSUME NEW p \in Skipped(r)
      PROVE  \E g \in Groups : \E i \in DOMAIN old[g] : p = <<g, i>> /\ old[g][i] # None
  <2>1. /\ p \in UNION {{<<g, i>> : i \in DOMAIN table[r][g]} : g \in StateGroups}
        /\ table[r][p[1]][p[2]] # None
    BY DEF Skipped
  <2>2. PICK g \in StateGroups : p \in {<<g, i>> : i \in DOMAIN table[r][g]}
    BY <2>1
  <2>3. PICK i \in DOMAIN old[g] : p = <<g, i>>
    BY <2>2
  <2> QED BY <2>1, <2>2, <2>3, PinSchedulerAssumption
<1>2. \A g \in Groups : DOMAIN old[g] = 1 .. len[g] /\ len[g] \in Nat
                        /\ \A i \in DOMAIN old[g] : old[g][i] \in Blocks \cup {None}
  BY TableIndex
<1>3. \A g \in Groups : DOMAIN t[g] = DOMAIN old[g]
  OBVIOUS
<1>4. \A g \in Groups : \A i \in DOMAIN old[g] :
        t[g][i] = IF <<g, i>> \in Skipped(r) THEN None ELSE old[g][i]
  OBVIOUS
<1>5. t \in TableType
  <2>1. ASSUME NEW g \in Groups PROVE t[g] \in [1 .. len[g] -> Blocks \cup {None}]
    <3>1. t[g] = [i \in 1 .. len[g] |-> IF <<g, i>> \in Skipped(r) THEN None ELSE old[g][i]]
      BY <1>2
    <3>2. \A i \in 1 .. len[g] : old[g][i] \in Blocks \cup {None}
      BY <1>2
    <3> QED BY <3>1, <3>2
  <2>2. t = [g \in Groups |-> t[g]]
    OBVIOUS
  <2> HIDE DEF len, old
  <2> QED BY <1>2, <2>1, <2>2, TableOf
<1> HIDE DEF len
<1>6. FillsOnce(t)
  BY <1>3, <1>4 DEF FillsOnce
<1>7. Holding(t) \subseteq Holding(old)
  <2>1. SUFFICES ASSUME NEW b \in Holding(t) PROVE b \in Holding(old)
    OBVIOUS
  <2>2. b # None /\ \E g \in Groups : \E i \in DOMAIN t[g] : t[g][i] = b
    BY HoldingIs
  <2>3. PICK g \in Groups : \E i \in DOMAIN t[g] : t[g][i] = b
    BY <2>2
  <2>4. \E i \in DOMAIN old[g] : old[g][i] = b
    BY <1>3, <1>4, <2>2, <2>3
  <2> QED BY <2>2, <2>4, HoldingIs
<1>8. ASSUME NEW b \in gone PROVE b \in Holding(old) /\ b \notin Holding(t)
  <2>1. PICK p \in Skipped(r) : b = old[p[1]][p[2]]
    OBVIOUS
  <2>2. PICK g \in Groups : \E i \in DOMAIN old[g] : p = <<g, i>> /\ old[g][i] # None
    BY <1>1
  <2> PICK i \in DOMAIN old[g] : p = <<g, i>> /\ old[g][i] # None
    BY <2>2
  <2>3. b = old[g][i] /\ p = <<g, i>> /\ old[g][i] # None
    BY <2>1
  <2>4. b \in Holding(old)
    BY <2>3, HoldingIs
  <2>5. ASSUME NEW h \in Groups, NEW j \in DOMAIN t[h], t[h][j] = b PROVE FALSE
    <3>1. j \in DOMAIN old[h]
      BY <1>3
    <3>2. old[h][j] = b
      BY <1>4, <2>2, <2>3, <2>5, <3>1
    <3>3. h = g /\ j = i
      BY <2>2, <2>3, <3>1, <3>2 DEF FillsOnce
    <3> QED BY <1>4, <2>2, <2>3, <2>5, <3>1, <3>3
  <2> QED BY <2>4, <2>5, HoldingIs
<1>9. ASSUME NEW b \in Holding(old), b \notin Holding(t) PROVE b \in gone
  <2>1. PICK g \in Groups : \E i \in DOMAIN old[g] : old[g][i] = b /\ b # None
    BY HoldingIs
  <2> PICK i \in DOMAIN old[g] : old[g][i] = b /\ b # None
    BY <2>1
  <2>2. <<g, i>> \in Skipped(r)
    BY <1>3, <1>4, <1>9, HoldingIs
  <2> QED BY <2>2
<1> QED BY <1>5, <1>6, <1>7, <1>8, <1>9

\* The missing positions of a group are those after its table's end.
LEMMA MissingIs ==
  ASSUME NEW t \in TableType, NEW n \in Nat, NEW g \in Groups
  PROVE  LET len == Len(t[g])
             top == CeilDiv(n, BlockSize[g])
         IN /\ len \in Nat /\ top \in Nat
            /\ \A i : <<g, i>> \in Missing(t, n) <=> i \in len + 1 .. top
            /\ Cardinality({p \in Missing(t, n) : p[1] = g})
                 = IF top > len THEN top - len ELSE 0
<1> DEFINE len == Len(t[g])
           top == CeilDiv(n, BlockSize[g])
           here == {p \in Missing(t, n) : p[1] = g}
<1>1. len \in Nat
  BY TableIndex
<1>2. top \in Nat
  <2> DEFINE d == BlockSize[g]
  <2>1. d \in Nat \ {0}
    BY ChunkType
  <2>2. n + d - 1 \in Nat
    BY <2>1
  <2> HIDE DEF d
  <2>3. (n + d - 1) \div d \in Nat
    BY <2>1, <2>2, Division
  <2> QED BY <2>3 DEF CeilDiv, d
<1>3. ASSUME NEW i PROVE <<g, i>> \in Missing(t, n) <=> i \in len + 1 .. top
  <2>1. ASSUME <<g, i>> \in Missing(t, n) PROVE i \in len + 1 .. top
    <3>1. PICK h \in Groups :
            <<g, i>> \in {<<h, j>> : j \in Len(t[h]) + 1 .. CeilDiv(n, BlockSize[h])}
      BY <2>1 DEF Missing
    <3> QED BY <3>1
  <2>2. ASSUME i \in len + 1 .. top PROVE <<g, i>> \in Missing(t, n)
    <3>1. <<g, i>> \in {<<g, j>> : j \in Len(t[g]) + 1 .. CeilDiv(n, BlockSize[g])}
      BY <2>2
    <3> QED BY <3>1 DEF Missing
  <2> QED BY <2>1, <2>2
<1>4. here = {<<g, i>> : i \in len + 1 .. top}
  <2>1. ASSUME NEW p \in here PROVE p \in {<<g, i>> : i \in len + 1 .. top}
    <3>1. PICK h \in Groups :
            p \in {<<h, j>> : j \in Len(t[h]) + 1 .. CeilDiv(n, BlockSize[h])}
      BY DEF Missing
    <3> QED BY <3>1
  <2>2. ASSUME NEW i \in len + 1 .. top PROVE <<g, i>> \in here
    BY <1>3
  <2> QED BY <2>1, <2>2
<1> HIDE DEF len, top, here
<1>5. Cardinality(here) = Cardinality(len + 1 .. top)
  <2> DEFINE I == len + 1 .. top
             f == [i \in I |-> <<g, i>>]
  <2>1. IsFiniteSet(I)
    BY <1>1, <1>2, FS_Interval
  <2>2. f \in Bijection(I, here)
    <3>1. f \in [I -> here] /\ \A i, j \in I : f[i] = f[j] => i = j
      BY <1>4
    <3>2. \A p \in here : \E i \in I : f[i] = p
      BY <1>4
    <3> QED BY <3>1, <3>2 DEF Bijection, Injection, Surjection, IsInjective
  <2> HIDE DEF f, I
  <2>3. Cardinality(here) = Cardinality(I)
    BY <2>1, <2>2, FS_Bijection DEF ExistsBijection
  <2> QED BY <2>3 DEF I
<1>6. Cardinality(here) = IF top > len THEN top - len ELSE 0
  <2>1. Cardinality(len + 1 .. top) = IF len + 1 > top THEN 0 ELSE top - (len + 1) + 1
    <3> DEFINE a == len + 1
    <3>1. a \in Int /\ top \in Int
      BY <1>1, <1>2
    <3> HIDE DEF a
    <3>2. Cardinality(a .. top) = IF a > top THEN 0 ELSE top - a + 1
      BY <3>1, FS_Interval
    <3> QED BY <3>2 DEF a
  <2> QED BY <1>1, <1>2, <1>5, <2>1
<1> QED BY <1>1, <1>2, <1>3, <1>6 DEF len, top, here

\* Table t, with the blocks of fill at the positions of need.
Filled(t, need, fill) ==
  [g \in Groups |->
     [i \in 1 .. Len(t[g]) + Cardinality({p \in need : p[1] = g}) |->
        IF <<g, i>> \in need THEN fill[<<g, i>>] ELSE t[g][i]]]

\* New blocks fill the missing positions, each one of them, and the others
\* stay.
LEMMA AllocateTable ==
  ASSUME TypeOK, OnePlace, RefCounts, NEW r \in Reqs,
         table[r] \in TableType, FillsOnce(table[r]), NEW n \in Nat,
         NEW fill \in [Missing(table[r], n) -> freeQueue],
         \A p, q \in Missing(table[r], n) : fill[p] = fill[q] => p = q,
         NEW t, t = Filled(table[r], Missing(table[r], n), fill)
  PROVE  /\ t \in TableType /\ FillsOnce(t)
         /\ Holding(t) = Holding(table[r]) \cup {fill[p] : p \in Missing(table[r], n)}
<1> DEFINE old == table[r]
           need == Missing(table[r], n)
           more == [g \in Groups |-> Cardinality({p \in need : p[1] = g})]
           len == [g \in Groups |-> Len(old[g]) + more[g]]
<1>1. ASSUME NEW g \in Groups
      PROVE  /\ Len(old[g]) \in Nat /\ len[g] \in Nat /\ Len(old[g]) <= len[g]
             /\ DOMAIN old[g] = 1 .. Len(old[g])
             /\ \A i \in DOMAIN old[g] : old[g][i] \in Blocks \cup {None}
             /\ \A i : <<g, i>> \in need <=> i \in Len(old[g]) + 1 .. len[g]
  <2> DEFINE l == Len(old[g])
             top == CeilDiv(n, BlockSize[g])
  <2>1. /\ l \in Nat /\ top \in Nat
        /\ \A i : <<g, i>> \in need <=> i \in l + 1 .. top
        /\ more[g] = IF top > l THEN top - l ELSE 0
    BY MissingIs
  <2>2. DOMAIN old[g] = 1 .. l /\ \A i \in DOMAIN old[g] : old[g][i] \in Blocks \cup {None}
    BY TableIndex
  <2>3. len[g] = l + more[g]
    OBVIOUS
  <2> HIDE DEF l, top, need, more, len, old
  <2>4. len[g] = IF top > l THEN top ELSE l
    BY <2>1, <2>3
  <2>5. l + 1 .. top = l + 1 .. len[g]
    BY <2>1, <2>4
  <2> QED BY <2>1, <2>2, <2>4, <2>5 DEF l
<1>2. /\ t = [g \in Groups |-> t[g]]
      /\ \A g \in Groups :
           t[g] = [i \in 1 .. len[g] |-> IF <<g, i>> \in need THEN fill[<<g, i>>] ELSE old[g][i]]
  BY DEF Filled
<1>3. \A p \in need : fill[p] \in freeQueue /\ fill[p] \in Blocks /\ fill[p] # None
  BY PinPoolAssumption DEF TypeOK
<1>4. \A p, q \in need : fill[p] = fill[q] => p = q
  OBVIOUS
<1>5. \A p \in need : fill[p] \notin Holding(old)
  <2>1. SUFFICES ASSUME NEW p \in need, fill[p] \in Holding(old) PROVE FALSE
    OBVIOUS
  <2>2. refCnt[fill[p]] > 0
    BY <1>3, <2>1, HeldInUse
  <2> QED BY <1>3, <2>2 DEF OnePlace
<1>6. FillsOnce(old)
  OBVIOUS
<1> HIDE DEF len, more, need, old
<1>7. ASSUME NEW g \in Groups, NEW i \in 1 .. len[g]
      PROVE  \/ <<g, i>> \in need /\ t[g][i] = fill[<<g, i>>]
             \/ i \in DOMAIN old[g] /\ <<g, i>> \notin need /\ t[g][i] = old[g][i]
  <2>1. t[g][i] = IF <<g, i>> \in need THEN fill[<<g, i>>] ELSE old[g][i]
    <3>1. t[g] = [j \in 1 .. len[g] |->
                    IF <<g, j>> \in need THEN fill[<<g, j>>] ELSE old[g][j]]
      BY <1>2
    <3> QED BY ONLY <3>1, i \in 1 .. len[g]
  <2>2. ASSUME <<g, i>> \notin need PROVE i \in DOMAIN old[g]
    <3>1. i \notin Len(old[g]) + 1 .. len[g]
      BY <1>1, <2>2
    <3>2. i \in 1 .. Len(old[g])
      BY <1>1, <3>1
    <3> QED BY <1>1, <3>2
  <2> QED BY <2>1, <2>2
<1>8. t \in TableType /\ \A g \in Groups : DOMAIN t[g] = 1 .. len[g]
  <2>1. ASSUME NEW g \in Groups PROVE t[g] \in [1 .. len[g] -> Blocks \cup {None}]
    <3>1. \A i \in 1 .. len[g] : t[g][i] \in Blocks \cup {None}
      BY <1>1, <1>3, <1>7
    <3> QED BY <1>2, <3>1
  <2> QED BY <1>1, <1>2, <2>1, TableOf
<1>9. FillsOnce(t)
  <2>1. SUFFICES ASSUME NEW g \in Groups, NEW h \in Groups,
                        NEW i \in DOMAIN t[g], NEW j \in DOMAIN t[h],
                        t[g][i] # None, t[g][i] = t[h][j]
                 PROVE  g = h /\ i = j
    BY DEF FillsOnce
  <2>2. i \in 1 .. len[g] /\ j \in 1 .. len[h]
    BY <1>8
  <2>3. CASE <<g, i>> \in need /\ <<h, j>> \in need
    <3>1. fill[<<g, i>>] = fill[<<h, j>>]
      BY <1>7, <2>1, <2>2, <2>3
    <3>2. <<g, i>> = <<h, j>>
      BY <1>4, <2>3, <3>1
    <3> QED BY <3>2
  <2>4. CASE <<g, i>> \in need /\ <<h, j>> \notin need
    <3>1. j \in DOMAIN old[h] /\ old[h][j] = fill[<<g, i>>]
      BY <1>7, <2>1, <2>2, <2>4
    <3> QED BY <1>3, <1>5, <2>4, <3>1, HoldingIs
  <2>5. CASE <<g, i>> \notin need /\ <<h, j>> \in need
    <3>1. i \in DOMAIN old[g] /\ old[g][i] = fill[<<h, j>>]
      BY <1>7, <2>1, <2>2, <2>5
    <3> QED BY <1>3, <1>5, <2>5, <3>1, HoldingIs
  <2>6. CASE <<g, i>> \notin need /\ <<h, j>> \notin need
    <3>1. /\ i \in DOMAIN old[g] /\ j \in DOMAIN old[h]
          /\ old[g][i] # None /\ old[g][i] = old[h][j]
      BY <1>7, <2>1, <2>2, <2>6
    <3> QED BY <1>6, <3>1 DEF FillsOnce
  <2> QED BY <2>3, <2>4, <2>5, <2>6
<1>10. ASSUME NEW b \in Holding(t)
       PROVE  b \in Holding(old) \/ \E p \in need : b = fill[p]
  <2>1. b # None /\ \E g \in Groups : \E i \in DOMAIN t[g] : t[g][i] = b
    BY HoldingIs
  <2>2. PICK g \in Groups : \E i \in DOMAIN t[g] : t[g][i] = b
    BY <2>1
  <2>3. PICK i \in 1 .. len[g] : t[g][i] = b
    BY <1>8, <2>2
  <2>4. CASE <<g, i>> \in need /\ t[g][i] = fill[<<g, i>>]
    BY <2>3, <2>4
  <2>5. CASE i \in DOMAIN old[g] /\ t[g][i] = old[g][i]
    BY <2>1, <2>3, <2>5, HoldingIs
  <2> QED BY <1>7, <2>4, <2>5
<1>11. ASSUME NEW b \in Holding(old) PROVE b \in Holding(t)
  <2>1. b # None /\ \E g \in Groups : \E i \in DOMAIN old[g] : old[g][i] = b
    BY HoldingIs
  <2>2. PICK g \in Groups : \E i \in DOMAIN old[g] : old[g][i] = b
    BY <2>1
  <2>3. PICK i \in DOMAIN old[g] : old[g][i] = b
    BY <2>2
  <2>4. i \in 1 .. len[g] /\ <<g, i>> \notin need
    BY <1>1
  <2>5. t[g][i] = b /\ i \in DOMAIN t[g]
    BY <1>7, <1>8, <2>3, <2>4
  <2> QED BY <2>1, <2>5, HoldingIs
<1>12. ASSUME NEW p \in need PROVE fill[p] \in Holding(t)
  <2>1. PICK g \in Groups :
          p \in {<<g, j>> : j \in Len(table[r][g]) + 1 .. CeilDiv(n, BlockSize[g])}
    BY DEF Missing, need
  <2>2. PICK i : p = <<g, i>>
    BY <2>1
  <2>3. i \in 1 .. len[g]
    BY <1>1, <2>2
  <2>4. t[g][i] = fill[p] /\ i \in DOMAIN t[g]
    BY <1>7, <1>8, <2>2, <2>3
  <2> QED BY <1>3, <2>4, HoldingIs
<1>13. Holding(t) = Holding(old) \cup {fill[p] : p \in need}
  BY <1>10, <1>11, <1>12
<1> QED BY <1>8, <1>9, <1>13 DEF old, need

-----------------------------------------------------------------------------
(* What each action does: the call it makes into the pool, and the one     *)
(* table it changes.                                                       *)

\* Request x's table becomes t, and what leaves it is freed.
GivesBack(x, t) ==
  /\ table' = [table EXCEPT ![x] = t]
  /\ Holding(t) \subseteq Holding(table[x])
  /\ IF Holding(table[x]) \ Holding(t) = {}
     THEN UNCHANGED poolVars
     ELSE FreeBlocks(Holding(table[x]) \ Holding(t))

LEMMA AdmitEffect ==
  ASSUME TypeOK, Queues, Admit
  PROVE  /\ waiting # <<>> /\ Head(waiting) \in Reqs
         /\ \E t \in TableType :
              /\ FillsOnce(t)
              /\ table' = [table EXCEPT ![Head(waiting)] = t]
              /\ IF Holding(t) = {} THEN UNCHANGED poolVars ELSE Touch(Holding(t))
         /\ computed' = [computed EXCEPT ![Head(waiting)] = HitLength(Head(waiting))]
         /\ HitLength(Head(waiting)) \in Nat
<1> DEFINE r == Head(waiting)
           n == HitLength(r)
<1>1. waiting # <<>>
  BY DEF Admit
<1>2. r \in Reqs
  BY <1>1, QueueTail DEF Queues
<1>3. PICK t \in HitTables(r, n) :
        /\ table' = [table EXCEPT ![r] = t]
        /\ computed' = [computed EXCEPT ![r] = n]
        /\ IF Holding(t) = {} THEN UNCHANGED poolVars ELSE Touch(Holding(t))
  BY DEF Admit
<1> HIDE DEF r
<1>4. n \in Nat /\ n < Len(Prompt[r]) /\ Len(Prompt[r]) \in Nat
  BY <1>2, HitLengthType, PromptType
<1> HIDE DEF n
<1>5. t \in TableType /\ FillsOnce(t)
  BY <1>2, <1>4, HitTable
<1> QED BY <1>1, <1>2, <1>3, <1>4, <1>5 DEF r, n

LEMMA ContinueEffect ==
  ASSUME Tables, NEW r \in Reqs, Continue(r)
  PROVE  \E t \in TableType : FillsOnce(t) /\ GivesBack(r, t)
<1> DEFINE t == [g \in Groups |-> [i \in DOMAIN table[r][g] |->
                   IF <<g, i>> \in Skipped(r) THEN None ELSE table[r][g][i]]]
           gone == {table[r][p[1]][p[2]] : p \in Skipped(r)}
<1>1. table[r] \in TableType /\ FillsOnce(table[r])
  BY DEF Tables, TableType
<1>2. table' = [table EXCEPT ![r] = t]
  BY DEF Continue
<1>3. IF gone = {} THEN UNCHANGED poolVars ELSE FreeBlocks(gone)
  BY DEF Continue
<1>4. /\ t \in TableType /\ FillsOnce(t)
      /\ Holding(t) \subseteq Holding(table[r])
      /\ gone = Holding(table[r]) \ Holding(t)
  BY <1>1, ContinueTable
<1> HIDE DEF t, gone
<1> QED BY <1>2, <1>3, <1>4 DEF GivesBack

LEMMA AllocateEffect ==
  ASSUME TypeOK, OnePlace, RefCounts, Tables, NEW r \in Reqs, Allocate(r)
  PROVE  \E t \in TableType : \E S \in SUBSET freeQueue :
           /\ FillsOnce(t)
           /\ table' = [table EXCEPT ![r] = t]
           /\ Holding(t) = Holding(table[r]) \cup S
           /\ IF S = {} THEN UNCHANGED poolVars ELSE GetNewBlocks(S)
<1> DEFINE n == NextComputed(r)
           need == Missing(table[r], n)
<1>1. table[r] \in TableType /\ FillsOnce(table[r]) /\ n \in Nat
  BY NextComputedType DEF Tables, TableType
<1>2. PICK fill \in [need -> freeQueue] :
        /\ \A p, q \in need : fill[p] = fill[q] => p = q
        /\ IF need = {} THEN UNCHANGED poolVars
                        ELSE GetNewBlocks({fill[p] : p \in need})
        /\ table' = [table EXCEPT ![r] = Filled(table[r], need, fill)]
  BY DEF Allocate, Filled
<1> DEFINE t == Filled(table[r], need, fill)
           S == {fill[p] : p \in need}
<1> HIDE DEF n
<1>3. /\ t \in TableType /\ FillsOnce(t)
      /\ Holding(t) = Holding(table[r]) \cup S
  BY <1>1, <1>2, AllocateTable
<1>4. S \in SUBSET freeQueue /\ (S = {} <=> need = {})
  OBVIOUS
<1> HIDE DEF t, need
<1>5. IF S = {} THEN UNCHANGED poolVars ELSE GetNewBlocks(S)
  BY <1>2, <1>4
<1>6. table' = [table EXCEPT ![r] = t]
  BY <1>2 DEF t
<1> HIDE DEF S
<1> QED BY <1>3, <1>4, <1>5, <1>6

LEMMA EmptiesTable ==
  ASSUME NEW x \in Reqs, table' = [table EXCEPT ![x] = EmptyTable],
         IF Holding(table[x]) = {} THEN UNCHANGED poolVars
                                   ELSE FreeBlocks(Holding(table[x]))
  PROVE  GivesBack(x, EmptyTable)
<1>1. Holding(table[x]) \ Holding(EmptyTable) = Holding(table[x])
  BY EmptyTableIs
<1> QED BY <1>1, EmptyTableIs DEF GivesBack

LEMMA RunningWhenBusy ==
  ASSUME BusyRuns, NEW r \in Reqs, busy = <<r, "allocate">> \/ busy = <<r, "cache">>
  PROVE  Contains(running, r)
<1>1. busy # None
  BY PinSchedulerAssumption
<1>2. PICK q \in Reqs : /\ busy = <<q, "allocate">> \/ busy = <<q, "cache">>
                        /\ Contains(running, q)
  BY <1>1 DEF BusyRuns
<1>3. q = r
  BY <1>2
<1> QED BY <1>2, <1>3

LEMMA PreemptEffect ==
  ASSUME Queues, BusyRuns, NEW r \in Reqs, Preempt(r)
  PROVE  /\ running # <<>> /\ Last(running) \in Reqs
         /\ GivesBack(Last(running), EmptyTable)
<1>1. Contains(running, r)
  BY RunningWhenBusy DEF Preempt
<1>2. running # <<>>
  BY <1>1, EmptySeq DEF Contains
<1>3. Last(running) \in Reqs
  BY <1>2, QueueFront DEF Queues
<1> QED BY <1>2, <1>3, EmptiesTable DEF Preempt

LEMMA ReleaseEffect ==
  ASSUME NEW r \in Reqs, Finish(r) \/ Abort(r)
  PROVE  GivesBack(r, EmptyTable)
  BY EmptiesTable DEF Finish, Abort, Release

-----------------------------------------------------------------------------
(* The tables stay well-formed and the reference counts theirs.            *)

LEMMA TableChange ==
  ASSUME Tables, NEW x \in Reqs, NEW t \in TableType, FillsOnce(t),
         table' = [table EXCEPT ![x] = t],
         computed' \in [Reqs -> Nat]
  PROVE  Tables'
<1>1. table' \in [Reqs -> TableType]
  BY DEF Tables, TableType
<1>2. \A r \in Reqs : FillsOnce(table'[r])
  <2>1. \A r \in Reqs : table'[r] = IF r = x THEN t ELSE table[r]
    BY DEF Tables
  <2> QED BY <2>1 DEF Tables
<1>3. (\A r \in Reqs : FillsOnce(table[r]))'
  BY <1>2 DEF FillsOnce
<1> QED BY <1>1, <1>3 DEF Tables, TableType

LEMMA TablesLeft ==
  ASSUME [SchedNext]_vars, ~Admit,
         ~\E r \in Reqs : \/ Continue(r) \/ Allocate(r) \/ Preempt(r)
                          \/ Compute(r) \/ Finish(r) \/ Abort(r)
  PROVE  UNCHANGED <<table, computed, refCnt>>
<1>1. CASE \E r \in Reqs : AddRequest(r)
  BY <1>1 DEF AddRequest, ArmNeverEvictPin, Rearm, poolVars
<1>2. CASE Reset
  BY <1>2 DEF Reset, ResetPrefixCache
<1>3. CASE UNCHANGED vars
  BY <1>3 DEF vars, schedVars, poolVars
<1> QED BY <1>1, <1>2, <1>3 DEF SchedNext

LEMMA TablesSame ==
  ASSUME Tables, RefCounts, table' = table, refCnt' = refCnt,
         computed' \in [Reqs -> Nat]
  PROVE  Tables' /\ RefCounts'
<1>1. Tables'
  BY DEF Tables, FillsOnce
<1>2. RefCounts'
  <2> SUFFICES ASSUME NEW b \in Blocks
               PROVE  refCnt'[b] = Cardinality(Holders(table', b))
    BY DEF RefCounts, Holders, Holding
  <2> QED BY DEF RefCounts
<1> QED BY <1>1, <1>2

LEMMA TablesStep ==
  ASSUME TypeOK, OnePlace, Queues, BusyRuns, Tables, RefCounts, [SchedNext]_vars,
         \A r \in Reqs : Holding(table[r]) # {} => Contains(running, r)
  PROVE  Tables' /\ RefCounts'
<1>0. table \in [Reqs -> TableType] /\ computed \in [Reqs -> Nat]
  BY DEF Tables, TableType
<1>1. CASE Admit
  <2> DEFINE r == Head(waiting)
  <2>1. /\ waiting # <<>> /\ r \in Reqs
        /\ computed' = [computed EXCEPT ![r] = HitLength(r)]
        /\ HitLength(r) \in Nat
    BY <1>1, AdmitEffect
  <2>2. PICK t \in TableType :
          /\ FillsOnce(t)
          /\ table' = [table EXCEPT ![r] = t]
          /\ IF Holding(t) = {} THEN UNCHANGED poolVars ELSE Touch(Holding(t))
    BY <1>1, AdmitEffect
  <2>3. Holding(table[r]) = {}
    <3>1. Contains(waiting, r)
      BY <2>1, QueueTail DEF Queues
    <3> HIDE DEF r
    <3> QED BY <2>1, <3>1 DEF Queues
  <2> HIDE DEF r
  <2>4. computed' \in [Reqs -> Nat]
    BY <1>0, <2>1
  <2> QED BY <1>0, <2>1, <2>2, <2>3, <2>4, TableChange, TakeHit
<1>2. CASE \E r \in Reqs : Allocate(r)
  <2>1. PICK r \in Reqs : Allocate(r)
    BY <1>2
  <2>2. PICK t \in TableType : \E S \in SUBSET freeQueue :
          /\ FillsOnce(t)
          /\ table' = [table EXCEPT ![r] = t]
          /\ Holding(t) = Holding(table[r]) \cup S
          /\ IF S = {} THEN UNCHANGED poolVars ELSE GetNewBlocks(S)
    BY <2>1, AllocateEffect
  <2>3. computed' \in [Reqs -> Nat]
    BY <1>0, <2>1 DEF Allocate
  <2> QED BY <1>0, <2>2, <2>3, TableChange, TakeNew
<1>3. ASSUME NEW x \in Reqs, NEW t \in TableType, FillsOnce(t), GivesBack(x, t),
             computed' \in [Reqs -> Nat]
      PROVE  Tables' /\ RefCounts'
  <2> DEFINE gone == Holding(table[x]) \ Holding(t)
  <2>1. /\ table' = [table EXCEPT ![x] = t]
        /\ Holding(t) \subseteq Holding(table[x])
        /\ IF gone = {} THEN UNCHANGED poolVars ELSE FreeBlocks(gone)
    BY <1>3 DEF GivesBack
  <2>2. Tables'
    BY <1>3, <2>1, TableChange
  <2>3. gone = Holding(table[x]) \ Holding(t)
    OBVIOUS
  <2> HIDE DEF gone
  <2>4. RefCounts'
    BY <1>0, <1>3, <2>1, <2>3, GiveBack
  <2> QED BY <2>2, <2>4
<1>4. CASE \E r \in Reqs : Continue(r)
  <2>1. PICK r \in Reqs : Continue(r)
    BY <1>4
  <2>2. computed' \in [Reqs -> Nat]
    BY <1>0, <2>1 DEF Continue
  <2> QED BY <1>3, <2>1, <2>2, ContinueEffect
<1>5. CASE \E r \in Reqs : Preempt(r)
  <2>1. PICK r \in Reqs : Preempt(r)
    BY <1>5
  <2>2. computed' \in [Reqs -> Nat]
    BY <1>0, <2>1 DEF Preempt
  <2> QED BY <1>3, <2>1, <2>2, PreemptEffect, EmptyTableIs
<1>6. CASE \E r \in Reqs : Finish(r) \/ Abort(r)
  <2>1. PICK r \in Reqs : Finish(r) \/ Abort(r)
    BY <1>6
  <2>2. computed' \in [Reqs -> Nat]
    BY <1>0, <2>1 DEF Finish, Abort, Release
  <2> QED BY <1>3, <2>1, <2>2, ReleaseEffect, EmptyTableIs
<1>7. CASE \E r \in Reqs : Compute(r)
  <2>1. PICK r \in Reqs : Compute(r)
    BY <1>7
  <2>2. table' = table /\ refCnt' = refCnt
        /\ computed' = [computed EXCEPT ![r] = NextComputed(r)]
    BY <2>1 DEF Compute, CacheFullBlocks
  <2>3. computed' \in [Reqs -> Nat]
    BY <1>0, <2>2, NextComputedType
  <2> QED BY <2>2, <2>3, TablesSame
<1>8. CASE ~(\/ Admit
             \/ \E r \in Reqs : \/ Continue(r) \/ Allocate(r) \/ Preempt(r)
                                \/ Compute(r) \/ Finish(r) \/ Abort(r))
  <2>1. UNCHANGED <<table, computed, refCnt>>
    BY <1>8, TablesLeft
  <2> QED BY <1>0, <2>1, TablesSame
<1> QED BY <1>1, <1>2, <1>4, <1>5, <1>6, <1>7, <1>8

-----------------------------------------------------------------------------
(* A request is queued once, and holds blocks only while it runs.          *)

HoldersRun == \A r \in Reqs : Holding(table[r]) # {} => Contains(running, r)

\* What the queues' part of the invariant says of the step's outcome.
QueuesNext ==
  /\ Queue(waiting') /\ Queue(running')
  /\ \A r \in Reqs : ~(Contains(waiting', r) /\ Contains(running', r))
  /\ busy' # None => \E r \in Reqs : /\ busy' = <<r, "allocate">> \/ busy' = <<r, "cache">>
                                     /\ Contains(running', r)
  /\ \A r \in Reqs : Holding(table'[r]) # {} => Contains(running', r)

LEMMA QueuesPrimed == QueuesNext => Queues' /\ BusyRuns' /\ HoldersRun'
  BY DEF QueuesNext, Queues, BusyRuns, HoldersRun, Queue, Contains, Holding, IsInjective

LEMMA AddRequestQueues ==
  ASSUME Queues, BusyRuns, HoldersRun, NEW r \in Reqs, AddRequest(r)
  PROVE  QueuesNext
<1>1. /\ ~Contains(waiting, r) /\ ~Contains(running, r)
      /\ waiting' = Append(waiting, r)
      /\ busy = None
      /\ UNCHANGED <<running, table, busy>>
  BY DEF AddRequest, Idle
<1>2. /\ Queue(waiting')
      /\ \A q : Contains(waiting', q) <=> Contains(waiting, q) \/ q = r
  BY <1>1, QueueAppend DEF Queues
<1> QED BY <1>1, <1>2 DEF Queues, BusyRuns, HoldersRun, QueuesNext

LEMMA AdmitQueues ==
  ASSUME TypeOK, Queues, BusyRuns, HoldersRun, Tables, Admit
  PROVE  QueuesNext
<1> DEFINE r == Head(waiting)
<1>1. /\ waiting # <<>> /\ r \in Reqs
      /\ waiting' = Tail(waiting) /\ running' = Append(running, r)
      /\ busy' = <<r, "allocate">>
  BY AdmitEffect DEF Admit
<1>2. PICK t \in TableType : table' = [table EXCEPT ![r] = t]
  BY AdmitEffect
<1>3. /\ Contains(waiting, r) /\ Queue(waiting')
      /\ \A q : Contains(waiting', q) <=> Contains(waiting, q) /\ q # r
  BY <1>1, QueueTail DEF Queues
<1> HIDE DEF r
<1>4. ~Contains(running, r)
  BY <1>1, <1>3 DEF Queues
<1>5. /\ Queue(running')
      /\ \A q : Contains(running', q) <=> Contains(running, q) \/ q = r
  BY <1>1, <1>4, QueueAppend DEF Queues
<1>6. \A q \in Reqs : q # r => table'[q] = table[q]
  BY <1>2 DEF Tables
<1> QED BY <1>1, <1>3, <1>4, <1>5, <1>6 DEF Queues, HoldersRun, QueuesNext

LEMMA PreemptQueues ==
  ASSUME Queues, BusyRuns, HoldersRun, Tables, NEW r \in Reqs, Preempt(r)
  PROVE  QueuesNext
<1> DEFINE v == Last(running)
<1>1. /\ running # <<>> /\ v \in Reqs
      /\ running' = Front(running) /\ waiting' = <<v>> \o waiting
      /\ busy = <<r, "allocate">> /\ busy' = IF v = r THEN None ELSE busy
      /\ table' = [table EXCEPT ![v] = EmptyTable]
  BY PreemptEffect DEF Preempt
<1>2. Contains(running, r)
  BY <1>1, RunningWhenBusy
<1>3. /\ Contains(running, v) /\ Queue(running')
      /\ \A q : Contains(running', q) <=> Contains(running, q) /\ q # v
  BY <1>1, QueueFront DEF Queues
<1> HIDE DEF v
<1>4. ~Contains(waiting, v)
  BY <1>1, <1>3 DEF Queues
<1>5. /\ Queue(waiting')
      /\ \A q : Contains(waiting', q) <=> Contains(waiting, q) \/ q = v
  BY <1>1, <1>4, QueuePrepend DEF Queues
<1>6. /\ \A q \in Reqs : q # v => table'[q] = table[q]
      /\ Holding(table'[v]) = {}
  BY <1>1, EmptyTableIs DEF Tables
<1> QED BY <1>1, <1>2, <1>3, <1>4, <1>5, <1>6 DEF Queues, HoldersRun, QueuesNext

LEMMA ReleaseQueues ==
  ASSUME Queues, HoldersRun, Tables, NEW r \in Reqs, Finish(r) \/ Abort(r)
  PROVE  QueuesNext
<1>1. /\ waiting' = RemoveFirst(waiting, r) /\ running' = RemoveFirst(running, r)
      /\ table' = [table EXCEPT ![r] = EmptyTable]
      /\ busy' = None
  BY DEF Finish, Abort, Release
<1>2. /\ Queue(waiting')
      /\ \A q : Contains(waiting', q) <=> Contains(waiting, q) /\ q # r
  BY <1>1, QueueRemove DEF Queues
<1>3. /\ Queue(running')
      /\ \A q : Contains(running', q) <=> Contains(running, q) /\ q # r
  BY <1>1, QueueRemove DEF Queues
<1>4. /\ \A q \in Reqs : q # r => table'[q] = table[q]
      /\ Holding(table'[r]) = {}
  BY <1>1, EmptyTableIs DEF Tables
<1> QED BY <1>1, <1>2, <1>3, <1>4 DEF Queues, HoldersRun, QueuesNext

\* One allocation step: the queues stay, and r is the request it is for.
LEMMA RunQueues ==
  ASSUME TypeOK, OnePlace, RefCounts, Queues, BusyRuns, HoldersRun, Tables,
         NEW r \in Reqs, Continue(r) \/ Allocate(r) \/ Compute(r)
  PROVE  QueuesNext
<1>1. Contains(running, r)
  BY RunningWhenBusy DEF Continue, Allocate, Compute
<1>2. waiting' = waiting /\ running' = running
      /\ busy' \in {<<r, "allocate">>, <<r, "cache">>, None}
  BY DEF Continue, Allocate, Compute
<1>3. \A q \in Reqs : q # r => table'[q] = table[q]
  BY DEF Continue, Allocate, Compute, Tables
<1> QED BY <1>1, <1>2, <1>3 DEF Queues, HoldersRun, QueuesNext

LEMMA QueuesStep ==
  ASSUME TypeOK, OnePlace, RefCounts, Queues, BusyRuns, HoldersRun, Tables,
         [SchedNext]_vars
  PROVE  Queues' /\ BusyRuns' /\ HoldersRun'
<1>1. CASE UNCHANGED <<waiting, running, busy, table>>
  BY <1>1, QueuesPrimed DEF QueuesNext, Queues, BusyRuns, HoldersRun
<1>2. CASE Reset \/ UNCHANGED vars
  BY <1>1, <1>2 DEF Reset, vars, schedVars
<1> QED BY <1>2, AddRequestQueues, AdmitQueues, PreemptQueues, ReleaseQueues,
           RunQueues, QueuesPrimed DEF SchedNext

-----------------------------------------------------------------------------
(* The scheduler only makes calls the pool expects.                        *)

\* The full blocks of a chunk become findable under keys of the pool.
LEMMA ComputeCaches ==
  ASSUME Tables, NEW r \in Reqs, Compute(r)
  PROVE  \E S \in SUBSET Blocks : \E keys \in [S -> Hashes] : CacheFullBlocks(keys)
<1> DEFINE n == NextComputed(r)
           full == {p \in UNION {{<<g, i>> : i \in DOMAIN table[r][g]} : g \in Cacheable} :
                      /\ p[2] * BlockSize[p[1]] <= n
                      /\ table[r][p[1]][p[2]] # None
                      /\ blockHash[table[r][p[1]][p[2]]] = None}
           at(b) == CHOOSE p \in full : table[r][p[1]][p[2]] = b
           S == {table[r][p[1]][p[2]] : p \in full}
           keys == [b \in S |-> BlockKey(r, at(b)[1], at(b)[2])]
<1>1. CacheFullBlocks(keys)
  BY DEF Compute
<1>2. n \in Nat /\ n <= Len(Prompt[r]) /\ Len(Prompt[r]) \in Nat
  BY NextComputedType, PromptType DEF Tables
<1>3. table[r] \in TableType
  BY DEF Tables, TableType
<1>4. ASSUME NEW p \in full
      PROVE  /\ p[1] \in Cacheable /\ p[2] \in Nat \ {0}
             /\ p[2] * BlockSize[p[1]] <= n
             /\ table[r][p[1]][p[2]] \in Blocks
  <2>1. PICK g \in Cacheable : p \in {<<g, i>> : i \in DOMAIN table[r][g]}
    OBVIOUS
  <2>2. PICK i \in DOMAIN table[r][g] : p = <<g, i>>
    BY <2>1
  <2>3. g \in Groups
    BY PinSchedulerAssumption
  <2>4. i \in Nat \ {0} /\ table[r][g][i] \in Blocks \cup {None}
    BY <1>3, <2>3, TableIndex
  <2>5. p[2] * BlockSize[p[1]] <= n /\ table[r][p[1]][p[2]] # None
    OBVIOUS
  <2>6. p[1] = g /\ p[2] = i
    BY <2>2
  <2> HIDE DEF full
  <2> QED BY <2>4, <2>5, <2>6
<1> HIDE DEF full, n
<1>5. S \in SUBSET Blocks
  BY <1>4
<1>6. ASSUME NEW b \in S PROVE BlockKey(r, at(b)[1], at(b)[2]) \in Hashes
  <2>1. \E p \in full : table[r][p[1]][p[2]] = b
    OBVIOUS
  <2>2. at(b) \in full
    BY <2>1
  <2> DEFINE p == at(b)
  <2> HIDE DEF at, S
  <2>3. p[1] \in Cacheable /\ p[2] \in Nat \ {0} /\ p[2] * BlockSize[p[1]] <= n
    BY <1>4, <2>2
  <2>4. p[2] * BlockSize[p[1]] <= Len(Prompt[r])
    <3>1. BlockSize[p[1]] \in Nat
      BY <2>3, PinSchedulerAssumption
    <3>2. p[2] * BlockSize[p[1]] \in Nat
      BY <2>3, <3>1, TimesMonotonic
    <3> HIDE DEF p
    <3> QED BY <1>2, <2>3, <3>2
  <2> QED BY <2>3, <2>4, KeyOfFullBlock
<1>7. keys \in [S -> Hashes]
  BY <1>6
<1> HIDE DEF keys, S
<1> QED BY <1>1, <1>5, <1>7

LEMMA PoolStep ==
  ASSUME TypeOK, OnePlace, RefCounts, Queues, BusyRuns, Tables, [SchedNext]_vars
  PROVE  [PoolNext]_poolVars
<1>0. table \in [Reqs -> TableType]
  BY DEF Tables, TableType
<1>1. CASE Admit
  <2>1. PICK t \in TableType :
          IF Holding(t) = {} THEN UNCHANGED poolVars ELSE Touch(Holding(t))
    BY <1>1, AdmitEffect
  <2> QED BY <2>1, HoldingType DEF PoolNext
<1>2. CASE \E r \in Reqs : Allocate(r)
  <2>1. PICK r \in Reqs : Allocate(r)
    BY <1>2
  <2>2. \E S \in SUBSET freeQueue : IF S = {} THEN UNCHANGED poolVars ELSE GetNewBlocks(S)
    BY <2>1, AllocateEffect
  <2>3. freeQueue \in SUBSET Blocks
    BY DEF TypeOK
  <2> QED BY <2>2, <2>3 DEF PoolNext
<1>3. ASSUME NEW x \in Reqs, NEW t, GivesBack(x, t)
      PROVE  [PoolNext]_poolVars
  <2> DEFINE S == Holding(table[x]) \ Holding(t)
  <2>1. S \in SUBSET Blocks
    BY <1>0, HoldingType
  <2>2. IF S = {} THEN UNCHANGED poolVars ELSE FreeBlocks(S)
    BY <1>3 DEF GivesBack
  <2> HIDE DEF S
  <2> QED BY <2>1, <2>2 DEF PoolNext
<1>4. CASE \E r \in Reqs : Continue(r) \/ Preempt(r) \/ Finish(r) \/ Abort(r)
  BY <1>3, <1>4, ContinueEffect, PreemptEffect, ReleaseEffect
<1>5. CASE \E r \in Reqs : Compute(r)
  BY <1>5, ComputeCaches DEF PoolNext
<1>6. CASE \E r \in Reqs : AddRequest(r)
  <2>1. PICK r \in Reqs : AddRequest(r)
    BY <1>6
  <2>2. UNCHANGED poolVars \/ Rearm(PromptHashes(r))
    BY <2>1 DEF AddRequest, ArmNeverEvictPin
  <2> QED BY <2>2, PromptHashesType DEF PoolNext
<1>7. CASE Reset
  BY <1>7 DEF Reset, PoolNext
<1>8. CASE UNCHANGED vars
  BY <1>8 DEF vars
<1> QED BY <1>1, <1>2, <1>4, <1>5, <1>6, <1>7, <1>8 DEF SchedNext

-----------------------------------------------------------------------------
(* Armed keys that were left behind stay cached.                           *)

\* A set no larger than the cap, and a part kept of it that misses one of its
\* hashes: the part did not reach the cap.
LEMMA KeptBelowCap ==
  ASSUME TypeOK, NEW K \in SUBSET Blocks, NEW H \in SUBSET Hashes, NEW cap \in Nat,
         HashesOf(K) \subseteq H, Cardinality(H) <= cap,
         \A b, c \in K : blockHash[b] = blockHash[c] => b = c,
         NEW h \in H, h \notin HashesOf(K)
  PROVE  Cardinality(K) < cap
<1> DEFINE f == [b \in K |-> blockHash[b]]
           G == H \ {h}
<1>1. f \in Injection(K, G)
  <2>1. \A b \in K : blockHash[b] \in G
    BY DEF HashesOf
  <2>2. f \in [K -> G] /\ \A b, c \in K : f[b] = f[c] => b = c
    BY <2>1
  <2> QED BY <2>2 DEF Injection, IsInjective
<1>2. IsFiniteSet(H)
  BY PinPoolAssumption, FS_Subset
<1>3. IsFiniteSet(G) /\ Cardinality(G) = Cardinality(H) - 1
  BY <1>2, FS_RemoveElement
<1> HIDE DEF f, G
<1>4. IsFiniteSet(K) /\ Cardinality(K) <= Cardinality(G)
  BY <1>1, <1>3, FS_Injection
<1>5. Cardinality(H) \in Nat /\ Cardinality(K) \in Nat
  BY <1>2, <1>4, FS_CardinalityType
<1> QED BY <1>3, <1>4, <1>5

\* As long as the armed set stays and fits the cap, what is reserved or in
\* use under an armed key does not leave the pool.
LEMMA HeldStays ==
  ASSUME IInv, [PoolNext]_poolVars,
         pinnedHashes' = pinnedHashes, pinCap' = pinCap,
         Cardinality(pinnedHashes) <= pinCap,
         NEW key \in pinnedHashes, key \in Reserved \/ InUse(key)
  PROVE  key \in Reserved' \/ InUse(key)'
<1>1. key \in Hashes /\ key # None
  BY PinPoolAssumption DEF IInv, TypeOK
<1>2. CASE key \in Reserved
  <2>1. pinnedByHash'[key] = pinnedByHash[key]
    BY <1>2, NeverEvictedStep
  <2> QED BY <1>1, <1>2, <2>1 DEF Reserved
<1>3. CASE InUse(key)
  <2>1. PICK b \in Blocks : blockHash[b] = key /\ refCnt[b] > 0
    BY <1>3 DEF InUse
  <2>2. refCnt[b] \in Nat /\ b \notin freeQueue
    BY <2>1 DEF IInv, TypeOK, OnePlace
  <2>3. ASSUME blockHash'[b] = key, refCnt'[b] > 0 PROVE InUse(key)'
    BY <2>3 DEF InUse
  <2>4. CASE \E S \in SUBSET Blocks : FreeBlocks(S)
    <3>1. PICK S \in SUBSET Blocks : FreeBlocks(S)
      BY <2>4
    <3>2. blockHash'[b] = key /\ refCnt'[b] = IF b \in S THEN refCnt[b] - 1 ELSE refCnt[b]
      BY <2>1, <3>1 DEF FreeBlocks
    <3>3. CASE refCnt'[b] > 0
      BY <2>3, <3>2, <3>3
    <3>4. CASE ~(refCnt'[b] > 0)
      <4>1. refCnt[b] = 1 /\ refCnt'[b] = 0
        BY <2>1, <2>2, <3>2, <3>4
      <4>2. pinnedByHash'[key] # None
        BY <2>1, <4>1, FitsThenPinnedStep
      <4> QED BY <1>1, <4>2 DEF Reserved
    <3> QED BY <3>3, <3>4
  <2>5. CASE \E S \in SUBSET Blocks : GetNewBlocks(S)
    <3>1. blockHash'[b] = key /\ refCnt'[b] = refCnt[b]
      BY <2>1, <2>2, <2>5 DEF GetNewBlocks
    <3> QED BY <2>1, <2>3, <3>1
  <2>6. CASE \E S \in SUBSET Blocks : \E keys \in [S -> Hashes] : CacheFullBlocks(keys)
    <3>1. blockHash'[b] = key /\ refCnt'[b] = refCnt[b]
      BY <1>1, <2>1, <2>6 DEF CacheFullBlocks
    <3> QED BY <2>1, <2>3, <3>1
  <2>7. CASE \E S \in SUBSET Blocks : Touch(S)
    <3>1. blockHash'[b] = key /\ refCnt'[b] >= refCnt[b]
      BY <2>1, <2>2, <2>7 DEF Touch
    <3>2. refCnt'[b] \in Nat
      BY <2>2, <2>7 DEF Touch
    <3> QED BY <2>1, <2>2, <2>3, <3>1, <3>2
  <2>8. CASE (\E H \in SUBSET Hashes : Rearm(H)) \/ UNCHANGED poolVars
    <3>1. blockHash'[b] = key /\ refCnt'[b] = refCnt[b]
      BY <2>1, <2>8 DEF Rearm, poolVars
    <3> QED BY <2>1, <2>3, <3>1
  <2>9. CASE ResetPrefixCache
    BY <2>9 DEF ResetPrefixCache, SetPinnedHashes
  <2> QED BY <2>4, <2>5, <2>6, <2>7, <2>8, <2>9 DEF PoolNext
<1> QED BY <1>2, <1>3

\* Re-arming with a set that has the key and fits the cap keeps its content:
\* a queued block may be dropped only for another block with that content.
LEMMA RearmKeepsHeld ==
  ASSUME IInv, NEW H \in SUBSET Hashes, Rearm(H), Cardinality(H) <= pinCap',
         NEW key \in H, key \in Reserved \/ InUse(key)
  PROVE  key \in Reserved' \/ InUse(key)'
<1> DEFINE cap == CapFor(MaxFraction)
<1>1. cap \in Nat /\ key \in Hashes /\ key # None
  BY PinPoolAssumption, CapType
<1>2. UNCHANGED <<refCnt, blockHash>>
  BY DEF Rearm
<1>3. CASE InUse(key)
  BY <1>2, <1>3 DEF InUse
<1> HIDE DEF cap
<1>4. CASE key \in Reserved /\ UNCHANGED pinnedByHash
  BY <1>4 DEF Reserved
<1>5. CASE key \in Reserved /\ ~UNCHANGED pinnedByHash
  <2>1. /\ pinCap' = cap
        /\ \E K \in SUBSET pin :
             /\ Kept(K, H, cap)
             /\ pinnedByHash' = ReservedBy(K, [h \in Hashes |-> None])
    BY <1>5 DEF Rearm, SetPinnedHashes, cap
  <2>2. PICK K \in SUBSET pin :
          /\ Kept(K, H, cap)
          /\ pinnedByHash' = ReservedBy(K, [h \in Hashes |-> None])
    BY <2>1
  <2> DEFINE b == pinnedByHash[key]
  <2>3. b \in Blocks /\ blockHash[b] = key /\ (b \in pin \/ refCnt[b] > 0)
    BY <1>5 DEF IInv, ReservationHolds, TypeOK, Reserved
  <2> HIDE DEF b
  <2>4. CASE refCnt[b] > 0
    BY <1>2, <2>3, <2>4 DEF InUse
  <2>5. CASE b \in pin
    <3>1. key \in HashesOf(K)
      <4>1. SUFFICES ASSUME key \notin HashesOf(K) PROVE FALSE
        OBVIOUS
      <4>2. K \in SUBSET Blocks
        BY DEF IInv, TypeOK
      <4>3. Cardinality(K) < cap
        BY <1>1, <2>1, <2>2, <4>1, <4>2, KeptBelowCap DEF Kept, IInv
      <4>4. b \notin K /\ ~\E c \in K : blockHash[c] = key
        BY <2>3, <4>1 DEF HashesOf
      <4>5. Cardinality(K) >= cap
        BY <2>2, <2>3, <2>5, <4>4 DEF Kept
      <4>6. IsFiniteSet(K) /\ Cardinality(K) \in Nat
        BY <4>2, PinPoolAssumption, FS_Subset, FS_CardinalityType
      <4> QED BY <1>1, <4>3, <4>5, <4>6
    <3>2. pinnedByHash'[key] = CHOOSE c \in K : blockHash[c] = key
      BY <1>1, <2>2, <3>1 DEF ReservedBy
    <3>3. pinnedByHash'[key] \in K
      BY <3>1, <3>2 DEF HashesOf
    <3>4. pinnedByHash'[key] # None
      BY <3>3, PinPoolAssumption DEF IInv, TypeOK
    <3> QED BY <1>1, <3>4 DEF Reserved
  <2> QED BY <2>3, <2>4, <2>5
<1> QED BY <1>3, <1>4, <1>5

LEMMA ArmedLeft ==
  ASSUME TypeOK, Queues, BusyRuns, RefCounts, OnePlace, Tables, [SchedNext]_vars,
         ~Reset, ~\E r \in Reqs : AddRequest(r) \/ Finish(r)
  PROVE  UNCHANGED <<pinnedHashes, pinCap, hot>>
<1>1. CASE Admit
  <2>1. hot' = hot
    BY <1>1 DEF Admit
  <2> QED BY <1>1, <2>1, AdmitEffect DEF Touch, poolVars
<1>2. CASE \E r \in Reqs : Allocate(r) \/ Compute(r)
  BY <1>2 DEF Allocate, Compute, GetNewBlocks, CacheFullBlocks, poolVars
<1>3. ASSUME NEW x \in Reqs, NEW t, GivesBack(x, t)
      PROVE  UNCHANGED <<pinnedHashes, pinCap>>
  BY <1>3 DEF GivesBack, FreeBlocks, poolVars
<1>4. CASE \E r \in Reqs : Continue(r) \/ Preempt(r) \/ Abort(r)
  <2>1. PICK r \in Reqs : Continue(r) \/ Preempt(r) \/ Abort(r)
    BY <1>4
  <2>2. hot' = hot
    BY <2>1 DEF Continue, Preempt, Abort
  <2>3. UNCHANGED <<pinnedHashes, pinCap>>
    BY <1>3, <2>1, ContinueEffect, PreemptEffect, ReleaseEffect
  <2> QED BY <2>2, <2>3
<1>5. CASE UNCHANGED vars
  BY <1>5 DEF vars, schedVars, poolVars
<1> QED BY <1>1, <1>2, <1>4, <1>5 DEF SchedNext

LEMMA FinishHot ==
  ASSUME IInv, [PoolNext]_poolVars, Tables, HotHeld, NEW r \in Reqs, Finish(r)
  PROVE  /\ UNCHANGED <<pinnedHashes, pinCap>>
         /\ \A key \in hot' : /\ key \in pinnedHashes
                              /\ Cardinality(pinnedHashes) <= pinCap
                              /\ key \in Reserved \/ InUse(key)
<1> DEFINE S == Holding(table[r])
<1>1. IF S = {} THEN UNCHANGED poolVars ELSE FreeBlocks(S)
  BY DEF Finish, Release
<1>2. hot' = IF Cardinality(pinnedHashes) <= pinCap
             THEN hot \cup (HashesOf(S) \cap pinnedHashes) ELSE hot
  BY DEF Finish
<1>3. UNCHANGED <<pinnedHashes, pinCap>>
  BY <1>1 DEF FreeBlocks, poolVars
<1>4. \A b \in S : b \in Blocks /\ refCnt[b] > 0
  BY <1>1 DEF FreeBlocks
<1> HIDE DEF S
<1>5. \A key \in HashesOf(S) : InUse(key)
  BY <1>4 DEF HashesOf, InUse
<1> QED BY <1>2, <1>3, <1>5 DEF HotHeld

LEMMA HotStep ==
  ASSUME IInv, Queues, BusyRuns, Tables, RefCounts, HotHeld, [SchedNext]_vars
  PROVE  HotHeld'
<1>0. [PoolNext]_poolVars
  BY PoolStep DEF IInv
<1>1. CASE Reset
  <2>1. pinnedHashes' = {} /\ hot' \subseteq pinnedHashes'
    BY <1>1 DEF Reset, ResetPrefixCache, SetPinnedHashes, KeepHot
  <2> QED BY <2>1 DEF HotHeld
<1>2. CASE \E r \in Reqs : AddRequest(r)
  <2>1. PICK r \in Reqs : AddRequest(r)
    BY <1>2
  <2>2. SUFFICES ASSUME NEW key \in hot'
                 PROVE  /\ key \in pinnedHashes' /\ Cardinality(pinnedHashes') <= pinCap'
                        /\ key \in Reserved' \/ InUse(key)'
    BY DEF HotHeld
  <2>3. key \in hot /\ key \in pinnedHashes' /\ Cardinality(pinnedHashes') <= pinCap'
    BY <2>1, <2>2 DEF AddRequest, KeepHot
  <2>4. /\ key \in pinnedHashes /\ Cardinality(pinnedHashes) <= pinCap
        /\ key \in Reserved \/ InUse(key)
    BY <2>3 DEF HotHeld
  <2>5. CASE UNCHANGED poolVars
    BY <1>0, <2>3, <2>4, <2>5, HeldStays DEF poolVars
  <2>6. CASE Rearm(PromptHashes(r))
    <3> DEFINE H == PromptHashes(r)
    <3>1. H \in SUBSET Hashes
      BY PromptHashesType
    <3>2. pinnedHashes' = H
      BY <2>6 DEF Rearm, SetPinnedHashes
    <3> HIDE DEF H
    <3>3. Rearm(H)
      BY <2>6 DEF H
    <3>4. key \in Reserved' \/ InUse(key)'
      BY <2>3, <2>4, <3>1, <3>2, <3>3, RearmKeepsHeld
    <3> QED BY <2>3, <3>4
  <2>7. UNCHANGED poolVars \/ Rearm(PromptHashes(r))
    BY <2>1 DEF AddRequest, ArmNeverEvictPin
  <2> QED BY <2>5, <2>6, <2>7
<1>3. ASSUME UNCHANGED <<pinnedHashes, pinCap>>,
             \A key \in hot' : /\ key \in pinnedHashes
                               /\ Cardinality(pinnedHashes) <= pinCap
                               /\ key \in Reserved \/ InUse(key)
      PROVE  HotHeld'
  <2>1. SUFFICES ASSUME NEW key \in hot'
                 PROVE  /\ key \in pinnedHashes' /\ Cardinality(pinnedHashes') <= pinCap'
                        /\ key \in Reserved' \/ InUse(key)'
    BY DEF HotHeld
  <2>2. /\ key \in pinnedHashes /\ Cardinality(pinnedHashes) <= pinCap
        /\ key \in Reserved \/ InUse(key)
    BY <1>3
  <2> QED BY <1>0, <1>3, <2>2, HeldStays
<1>4. CASE \E r \in Reqs : Finish(r)
  BY <1>0, <1>3, <1>4, FinishHot
<1>5. CASE ~(Reset \/ \E r \in Reqs : AddRequest(r) \/ Finish(r))
  <2>1. UNCHANGED <<pinnedHashes, pinCap, hot>>
    BY <1>5, ArmedLeft DEF IInv
  <2> QED BY <1>3, <2>1 DEF HotHeld
<1> QED BY <1>1, <1>2, <1>4, <1>5

-----------------------------------------------------------------------------
(* The theorems.                                                           *)

LEMMA RefCountsMatchIs == RefCountsMatch <=> RefCounts /\ HoldersRun
  BY DEF RefCountsMatch, RefCounts, HoldersRun, Holders

LEMMA RefCountsMatchNext == RefCounts' /\ HoldersRun' => RefCountsMatch'
  BY DEF RefCountsMatch, RefCounts, HoldersRun, Holders

LEMMA InitSInv == SchedInit => SInv
<1> SUFFICES ASSUME SchedInit PROVE SInv
  OBVIOUS
<1>1. IInv
  BY InitIInv DEF SchedInit
<1>2. Queues /\ BusyRuns
  <2>1. waiting = <<>> /\ running = <<>> /\ busy = None
    BY DEF SchedInit
  <2>2. Queue(<<>>) /\ \A q : ~Contains(<<>>, q)
    BY EmptySeq DEF Queue, IsInjective, Contains
  <2> QED BY <2>1, <2>2 DEF Queues, BusyRuns
<1>3. \A r \in Reqs : table[r] = EmptyTable
  BY DEF SchedInit
<1>4. Tables
  <2>1. table = [r \in Reqs |-> EmptyTable] /\ computed = [r \in Reqs |-> 0]
    BY DEF SchedInit
  <2>2. table \in [Reqs -> TableType]
    BY <2>1, EmptyTableIs
  <2>3. \A r \in Reqs : FillsOnce(table[r])
    BY <1>3, EmptyTableIs
  <2> QED BY <2>1, <2>2, <2>3 DEF Tables, TableType
<1>5. RefCounts
  <2>1. \A b \in Blocks : Holders(table, b) = {} /\ refCnt[b] = 0
    BY <1>3, EmptyTableIs DEF Holders, SchedInit, PoolInit
  <2> QED BY <2>1, FS_EmptySet DEF RefCounts
<1>6. HoldersRun
  BY <1>3, EmptyTableIs DEF HoldersRun
<1>7. HotHeld
  BY DEF SchedInit, HotHeld
<1> QED BY <1>1, <1>2, <1>4, <1>5, <1>6, <1>7, RefCountsMatchIs DEF SInv

LEMMA NextSInv == SInv /\ [SchedNext]_vars => SInv'
<1> SUFFICES ASSUME SInv, [SchedNext]_vars PROVE SInv'
  OBVIOUS
<1>1. /\ IInv /\ TypeOK /\ OnePlace
      /\ Queues /\ BusyRuns /\ Tables /\ RefCounts /\ HoldersRun /\ HotHeld
  BY RefCountsMatchIs DEF SInv, IInv
<1>2. IInv'
  BY <1>1, PoolStep, NextIInv
<1>3. Queues' /\ BusyRuns' /\ HoldersRun'
  BY <1>1, QueuesStep
<1>4. Tables' /\ RefCounts'
  BY <1>1, TablesStep DEF HoldersRun
<1>5. HotHeld'
  BY <1>1, HotStep
<1> QED BY <1>2, <1>3, <1>4, <1>5, RefCountsMatchNext DEF SInv

\* The inductive invariant of the scheduler and the pool under it.
THEOREM SchedulerInvariant == SchedSpec => []SInv
<1> QED BY InitSInv, NextSInv, PTL DEF SchedSpec

\* The engine thread only makes calls the pool expects: it never frees a
\* block nobody holds, never caches a block twice, never touches one that is
\* not cached (free_blocks, cache_full_blocks and touch as the scheduler
\* calls them).
THEOREM SchedulerUsesPool == SchedSpec => PoolSpec
<1>1. SchedInit => PoolInit
  BY DEF SchedInit
<1>2. SInv /\ [SchedNext]_vars => [PoolNext]_poolVars
  BY PoolStep, RefCountsMatchIs DEF SInv, IInv
<1> QED BY <1>1, <1>2, SchedulerInvariant, PTL DEF SchedSpec, PoolSpec

\* What is promised of the pin is kept for the calls the scheduler really
\* makes: reservations are honest and capped, a reserved hash keeps its block,
\* re-arming keeps what is shared (get_new_blocks, cache_full_blocks, touch,
\* free_blocks, set_pinned_hashes as schedule() and add_request call them).
THEOREM PinHoldsUnderScheduler ==
  SchedSpec => /\ [](OnePlace /\ PinIndexed /\ ReservationHolds /\ CapRespected)
               /\ NeverEvicted /\ RearmKeepsShared /\ FitsThenPinned
               /\ KeepsPromise
BY SchedulerUsesPool, BlocksInOnePlace, PinStaysIndexed, ReservationsHold, PinCapped,
   PinnedNeverEvicted, SharedPrefixStays, FittingPrefixIsPinned,
   PoolKeepsPromise, PTL

\* A block's ref_cnt is the number of block tables it sits in, and only
\* running requests hold blocks, through preemption, aborts, and state blocks
\* given back while a request runs (touch, free_blocks and get_new_blocks as
\* the scheduler calls them).
THEOREM CountsMatchTables == SchedSpec => []RefCountsMatch
<1>1. SInv => RefCountsMatch
  BY DEF SInv
<1> QED BY <1>1, SchedulerInvariant, PTL

\* What a finished request leaves behind of an armed prompt stays cached for
\* as long as it stays armed (_acquire_pin and set_pinned_hashes).
THEOREM ArmedContentStays == SchedSpec => []ArmedStaysCached
<1>1. SInv => ArmedStaysCached
  <2> SUFFICES ASSUME SInv, NEW key \in hot PROVE CachedBlocks(key) # {}
    BY DEF ArmedStaysCached
  <2>1. key \in Reserved \/ InUse(key)
    BY DEF SInv, HotHeld
  <2>2. CASE key \in Reserved
    <3>1. pinnedByHash[key] \in Blocks /\ blockHash[pinnedByHash[key]] = key
      BY <2>2 DEF SInv, IInv, ReservationHolds, TypeOK, Reserved
    <3> QED BY <3>1 DEF CachedBlocks
  <2>3. CASE InUse(key)
    BY <2>3 DEF InUse, CachedBlocks
  <2> QED BY <2>1, <2>2, <2>3
<1> QED BY <1>1, SchedulerInvariant, PTL

=============================================================================
