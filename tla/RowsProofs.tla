------------------------------ MODULE RowsProofs ------------------------------
(***************************************************************************)
(* The gather of PleTable, for a table of any size in any number of        *)
(* shards, any chunk and any number of threads: what comes back for an id  *)
(* is its own row, and a table that was accepted serves every id. Sorting  *)
(* keeps the ids and brings those of a shard together, so that the cuts of *)
(* a shard's run cover it and none crosses into the next shard; a task     *)
(* that is not done is still to be run.                                    *)
(*                                                                         *)
(* The scores of DraftHead, for any file of ids, tile and chunk: masking   *)
(* and padding change neither the ids of the model nor the place of a row, *)
(* so it does not matter which score of a duplicate is kept; and what the  *)
(* tool always keeps is always in the head. A head packed with any bits,   *)
(* group and word gives every weight back within a step of its scale: the  *)
(* words keep the slots apart, no slot but the clamped one is out of       *)
(* range, and the zero point stored less one is put right.                 *)
(***************************************************************************)
EXTENDS PleTable, DraftHead, ListLemmas

Tasks == [first : Nat, last : Nat]

\* Tasks queued or being run.
Outstanding == tasks \cup ({task[w] : w \in Workers} \ {Idle})

Types ==
  /\ files \in Tables /\ wanted \in Seq(Int) /\ ids \in Seq(Int)
  /\ pc \in {"setup", "call", "gather", "wait", "done", "refused", "failed"}
  /\ tasks \subseteq Tasks
  /\ task \in [Workers -> Tasks \cup {Idle}]

\* The ids to gather are the ids of the call.
SameIds ==
  pc \in {"gather", "wait", "done"} => ToSet(ids) = ToSet(wanted)

Accepted == pc \notin {"setup", "refused"} => Whole

\* A task lies in the run of one shard.
InShard(t) ==
  \A p \in t.first .. t.last : p \in DOMAIN ids /\ Shard(ids[p]) = Shard(ids[t.first])

Cut == /\ Outstanding # {} => pc \in {"wait", "failed"}
       /\ \A t \in Outstanding : InShard(t)

\* A position has its row, or a task is still to fetch it.
Fetched ==
  /\ pc = "wait" =>
       /\ InRange(ids) /\ DOMAIN out = DOMAIN ids
       /\ \A p \in DOMAIN ids :
            out[p] = ids[p] \/ \E t \in Outstanding : p \in t.first .. t.last
  /\ pc = "done" =>
       DOMAIN out = DOMAIN ids /\ \A p \in DOMAIN ids : out[p] = ids[p]

TInv == Types /\ SameIds /\ Accepted /\ Cut /\ Fetched /\ AcceptedServes

-----------------------------------------------------------------------------
(* Numbers and sorting.                                                    *)

\* A bounded, inhabited set of numbers has a largest one.
LEMMA LargestOf ==
  ASSUME NEW S \in SUBSET Nat, S # {},
         NEW top \in Nat, \A n \in S : n <= top
  PROVE  MostOf(S) \in S /\ \A m \in S : m <= MostOf(S)
<1> DEFINE F == {n .. top : n \in S}
<1>1. F \subseteq FiniteSubsetsOf(Nat)
  <2>1. \A n \in S : IsFiniteSet(n .. top) /\ n .. top \subseteq Nat
    BY FS_Interval
  <2> QED BY <2>1 DEF FiniteSubsetsOf
<1>2. F # {}
  OBVIOUS
<1> HIDE DEF F
<1>3. PICK X \in F : \A Y \in F : ~(<<Y, X>> \in StrictSubsetOrdering(Nat))
  BY <1>1, <1>2, WFMin, FS_StrictSubsetOrderingWellFounded
<1>4. PICK n \in S : X = n .. top
  BY <1>3 DEF F
<1>5. ASSUME NEW m \in S, m > n PROVE FALSE
  <2>1. m .. top \in F
    BY DEF F
  <2>2. n \in n .. top /\ n \notin m .. top /\ m .. top \subseteq n .. top
    BY <1>5
  <2>3. <<m .. top, X>> \in StrictSubsetOrdering(Nat)
    BY <1>4, <2>2 DEF StrictSubsetOrdering
  <2> QED BY <1>3, <2>1, <2>3
<1>6. \A m \in S : m <= n
  BY <1>5
<1> QED BY <1>6 DEF MostOf

\* The same for the first.
LEMMA SmallestOf ==
  ASSUME NEW S \in SUBSET Nat, S # {}
  PROVE  FirstOf(S) \in S /\ \A m \in S : FirstOf(S) <= m
<1> DEFINE F == {0 .. n : n \in S}
<1>1. F \subseteq FiniteSubsetsOf(Nat)
  <2>1. \A n \in S : IsFiniteSet(0 .. n) /\ 0 .. n \subseteq Nat
    BY FS_Interval
  <2> QED BY <2>1 DEF FiniteSubsetsOf
<1>2. F # {}
  OBVIOUS
<1> HIDE DEF F
<1>3. PICK X \in F : \A Y \in F : ~(<<Y, X>> \in StrictSubsetOrdering(Nat))
  BY <1>1, <1>2, WFMin, FS_StrictSubsetOrderingWellFounded
<1>4. PICK n \in S : X = 0 .. n
  BY <1>3 DEF F
<1>5. ASSUME NEW m \in S, m < n PROVE FALSE
  <2>1. 0 .. m \in F
    BY DEF F
  <2>2. n \in 0 .. n /\ n \notin 0 .. m /\ 0 .. m \subseteq 0 .. n
    BY <1>5
  <2>3. <<0 .. m, X>> \in StrictSubsetOrdering(Nat)
    BY <1>4, <2>2 DEF StrictSubsetOrdering
  <2> QED BY <1>3, <2>1, <2>3
<1>6. \A m \in S : n <= m
  BY <1>5
<1> QED BY <1>6 DEF FirstOf

-----------------------------------------------------------------------------
(* Shards.                                                                 *)

LEMMA Quotient ==
  ASSUME NEW d \in Nat \ {0}, NEW n \in Int
  PROVE  n \div d \in Int /\ (n \div d) * d <= n /\ n < (n \div d) * d + d
  OBVIOUS

LEMMA QuotientMonotonic ==
  ASSUME NEW d \in Nat \ {0}, NEW m \in Int, NEW n \in Int, m <= n
  PROVE  m \div d <= n \div d
  OBVIOUS

LEMMA Remainder ==
  ASSUME NEW d \in Nat \ {0}, NEW n \in Nat
  PROVE  /\ n % d \in Nat /\ n % d < d /\ n % d <= n
         /\ (n - (n % d)) % d = 0
  OBVIOUS

LEMMA Size ==
  ASSUME files \in Tables
  PROVE  /\ files.parts \in Nat \ {0} /\ ShardSize \in Nat \ {0}
         /\ Vocab <= files.parts * ShardSize
<1>1. files.parts \in Nat \ {0} /\ Vocab \in Nat \ {0}
  BY TableAssumption
<1> DEFINE d == files.parts
           n == Vocab + d - 1
<1>2. d \in Nat \ {0} /\ n \in Int /\ n >= d /\ Vocab = n - d + 1
  BY <1>1
<1>3. ShardSize = n \div d
  BY DEF ShardSize, CeilDiv
<1> HIDE DEF d, n
<1>4. n \div d \in Int /\ (n \div d) * d <= n /\ n < (n \div d) * d + d
  BY <1>2, Quotient
<1>5. n \div d >= 1
  <2>1. d \div d = 1 /\ d \div d <= n \div d
    BY <1>2, QuotientMonotonic
  <2> QED BY <1>4, <2>1
<1>6. (n \div d) * d = d * (n \div d) /\ (n \div d) * d \in Int
  BY <1>2, <1>4
<1>7. Vocab <= d * (n \div d)
  BY <1>2, <1>4, <1>6
<1> QED BY <1>1, <1>3, <1>4, <1>5, <1>7 DEF d

LEMMA ShardOf ==
  ASSUME files \in Tables, NEW n \in Int
  PROVE  /\ Shard(n) \in Int /\ Shard(n) * ShardSize \in Int
         /\ Shard(n) * ShardSize <= n /\ n < Shard(n) * ShardSize + ShardSize
         /\ n >= 0 => Shard(n) >= 0
<1>1. ShardSize \in Nat \ {0}
  BY Size
<1>2. n \div ShardSize \in Int /\ (n \div ShardSize) * ShardSize <= n
      /\ n < (n \div ShardSize) * ShardSize + ShardSize
  BY <1>1, Quotient
<1>3. n >= 0 => n \div ShardSize >= 0
  BY <1>1
<1>4. (n \div ShardSize) * ShardSize \in Int
  BY <1>1, <1>2
<1> QED BY <1>2, <1>3, <1>4 DEF Shard

LEMMA ShardsInOrder ==
  ASSUME files \in Tables, NEW m \in Int, NEW n \in Int, m <= n
  PROVE  Shard(m) <= Shard(n)
  BY Size, QuotientMonotonic DEF Shard

\* A number that is no negative index is read as itself or not at all.
LEMMA ReadOwn ==
  ASSUME files \in Tables, NEW n \in Nat
  PROVE  Read(n) \in {n, Error}
<1>1. ~(Shard(n) < 0) /\ Shard(n) * ShardSize \in Int
  BY ShardOf
<1>2. Shard(n) * ShardSize + Local(n) = n
  BY <1>1 DEF Local
<1> QED BY <1>1, <1>2 DEF Read

\* The rows of an accepted table go up to the vocabulary.
LEMMA WholeSlots ==
  ASSUME files \in Tables, Whole
  PROVE  Slots = files.parts
<1> DEFINE D == DOMAIN files.rows
<1>1. files.parts \in Nat \ {0} /\ D = 0 .. files.parts - 1
  BY Size DEF Whole
<1>2. D \in SUBSET Nat /\ files.parts - 1 \in D /\ \A n \in D : n <= files.parts - 1
  BY <1>1
<1> HIDE DEF D
<1>3. MostOf(D) \in D /\ \A m \in D : m <= MostOf(D)
  BY <1>1, <1>2, LargestOf
<1>4. MostOf(D) = files.parts - 1
  <2>1. MostOf(D) \in Nat /\ MostOf(D) <= files.parts - 1 /\ files.parts - 1 <= MostOf(D)
    BY <1>2, <1>3
  <2> QED BY <1>1, <2>1
<1> QED BY <1>1, <1>4 DEF Slots, D

\* An accepted table has each row it is asked for.
LEMMA WholeServes ==
  ASSUME files \in Tables, Whole, NEW n \in 0 .. Vocab - 1
  PROVE  Read(n) = n /\ n < ShardSize * Slots
<1>1. /\ files.parts \in Nat \ {0} /\ ShardSize \in Nat \ {0} /\ Vocab \in Nat
      /\ Vocab <= files.parts * ShardSize
  BY Size, TableAssumption
<1>2. /\ Shard(n) \in Nat /\ Shard(n) * ShardSize \in Int
      /\ Shard(n) * ShardSize <= n /\ n < Shard(n) * ShardSize + ShardSize
  BY <1>1, ShardOf
<1>3. Shard(n) < files.parts
  <2>1. Shard(n) * ShardSize < files.parts * ShardSize
    <3>1. files.parts * ShardSize \in Int
      BY <1>1
    <3> QED BY <1>1, <1>2, <3>1
  <2> HIDE DEF ShardSize, Shard
  <2>2. ASSUME files.parts <= Shard(n) PROVE FALSE
    <3>1. files.parts * ShardSize <= Shard(n) * ShardSize
      BY <1>1, <1>2, <2>2
    <3> QED BY <1>1, <1>2, <2>1, <3>1
  <2> QED BY <1>1, <1>2, <2>2
<1>4. Shard(n) \in DOMAIN files.rows
  BY <1>1, <1>2, <1>3 DEF Whole
<1>5. files.rows[Shard(n)] = Least(ShardSize, Vocab - Shard(n) * ShardSize)
  BY <1>1, <1>2, <1>4 DEF Whole
<1>6. Local(n) < files.rows[Shard(n)]
  BY <1>1, <1>2, <1>5 DEF Local, Least
<1>7. Shard(n) * ShardSize + Local(n) = n
  BY <1>2 DEF Local
<1>8. Read(n) = n
  BY <1>2, <1>4, <1>6, <1>7 DEF Read
<1>9. n < ShardSize * Slots
  BY <1>1, WholeSlots
<1> QED BY <1>8, <1>9

-----------------------------------------------------------------------------
(* The cuts.                                                               *)

Ordered(u) == \A i, j \in DOMAIN u : i <= j => u[i] <= u[j]

\* In order, the ids of a shard stand together.
LEMMA TogetherInOrder ==
  ASSUME files \in Tables, NEW u \in Seq(Int), Ordered(u),
         NEW p \in DOMAIN u, NEW q \in DOMAIN u, NEW r \in DOMAIN u,
         p <= q, q <= r, Shard(u[p]) = Shard(u[r])
  PROVE  Shard(u[q]) = Shard(u[p])
<1>1. u[p] \in Int /\ u[q] \in Int /\ u[r] \in Int
  BY ElementOfSeq, LenProperties
<1>2. u[p] <= u[q] /\ u[q] <= u[r]
  BY DEF Ordered
<1>3. Shard(u[p]) <= Shard(u[q]) /\ Shard(u[q]) <= Shard(u[r])
  BY <1>1, <1>2, ShardsInOrder
<1>4. Shard(u[p]) \in Int /\ Shard(u[q]) \in Int
  BY <1>1, ShardOf
<1> QED BY <1>3, <1>4

\* A run has a first and a last position.
LEMMA RunEnds ==
  ASSUME NEW u \in Seq(Int), NEW p \in DOMAIN u
  PROVE  /\ FirstOf(Run(u, p)) \in DOMAIN u /\ MostOf(Run(u, p)) \in DOMAIN u
         /\ Shard(u[FirstOf(Run(u, p))]) = Shard(u[p])
         /\ Shard(u[MostOf(Run(u, p))]) = Shard(u[p])
         /\ FirstOf(Run(u, p)) <= p /\ p <= MostOf(Run(u, p))
<1> DEFINE S == Run(u, p)
<1>1. Len(u) \in Nat /\ DOMAIN u = 1 .. Len(u)
  BY LenProperties
<1>2. p \in S /\ S \subseteq DOMAIN u /\ \A q \in S : Shard(u[q]) = Shard(u[p])
  BY DEF Run
<1> HIDE DEF S
<1>3. S \in SUBSET Nat /\ \A q \in S : q <= Len(u)
  BY <1>1, <1>2
<1>4. FirstOf(S) \in S /\ \A q \in S : FirstOf(S) <= q
  BY <1>2, <1>3, SmallestOf
<1>5. MostOf(S) \in S /\ \A q \in S : q <= MostOf(S)
  BY <1>1, <1>2, <1>3, LargestOf
<1> QED BY <1>2, <1>4, <1>5 DEF S

\* A cut stays in its shard.
LEMMA CutsInShard ==
  ASSUME files \in Tables, NEW u \in Seq(Int), Ordered(u), NEW t \in Cuts(u)
  PROVE  /\ t \in Tasks
         /\ \A p \in t.first .. t.last : p \in DOMAIN u /\ Shard(u[p]) = Shard(u[t.first])
<1>1. PICK q \in DOMAIN u :
        t = [first |-> q, last |-> Least(q + Chunk - 1, MostOf(Run(u, q)))]
  BY DEF Cuts
<1> DEFINE m == MostOf(Run(u, q))
<1>2. Len(u) \in Nat /\ DOMAIN u = 1 .. Len(u) /\ Chunk \in Nat \ {0}
  BY LenProperties, TableAssumption
<1>3. m \in DOMAIN u /\ Shard(u[m]) = Shard(u[q]) /\ q <= m
  BY RunEnds
<1> HIDE DEF m
<1>4. t.first = q /\ t.last \in Nat /\ t.last <= m
  BY <1>1, <1>2, <1>3 DEF Least, m
<1>5. t \in Tasks
  BY <1>1, <1>2, <1>4 DEF Tasks
<1>6. ASSUME NEW p \in t.first .. t.last PROVE p \in DOMAIN u /\ Shard(u[p]) = Shard(u[q])
  <2>1. p \in DOMAIN u /\ q <= p /\ p <= m
    BY <1>2, <1>3, <1>4, <1>6
  <2> QED BY <1>3, <2>1, TogetherInOrder
<1> QED BY <1>4, <1>5, <1>6

\* The cuts cover every position.
LEMMA CutsCover ==
  ASSUME files \in Tables, NEW u \in Seq(Int), Ordered(u), NEW p \in DOMAIN u
  PROVE  \E t \in Cuts(u) : p \in t.first .. t.last
<1> DEFINE f == FirstOf(Run(u, p))
           m == MostOf(Run(u, p))
           n == p - f
           k == n % Chunk
           q == p - k
<1>1. Len(u) \in Nat /\ DOMAIN u = 1 .. Len(u) /\ Chunk \in Nat \ {0}
  BY LenProperties, TableAssumption
<1>2. /\ f \in DOMAIN u /\ m \in DOMAIN u /\ f <= p /\ p <= m
      /\ Shard(u[f]) = Shard(u[p]) /\ Shard(u[m]) = Shard(u[p])
  BY RunEnds
<1> HIDE DEF f, m
<1>3. f \in Nat /\ p \in Nat /\ n \in Nat /\ p = n + f
  BY <1>1, <1>2
<1> HIDE DEF n
<1>4. k \in Nat /\ k < Chunk /\ k <= n /\ (n - k) % Chunk = 0
  BY <1>1, <1>3, Remainder
<1> HIDE DEF k
<1>5. f <= q /\ q <= p /\ p <= q + Chunk - 1 /\ q - f = n - k /\ q \in Nat
  BY <1>1, <1>3, <1>4
<1>6. q \in DOMAIN u
  BY <1>1, <1>2, <1>3, <1>5
<1> HIDE DEF q
<1>7. Shard(u[q]) = Shard(u[p])
  BY <1>2, <1>5, <1>6, TogetherInOrder
<1>8. Run(u, q) = Run(u, p)
  BY <1>7 DEF Run
<1>9. [first |-> q, last |-> Least(q + Chunk - 1, m)] \in Cuts(u)
  <2>1. (q - FirstOf(Run(u, q))) % Chunk = 0
    BY <1>4, <1>5, <1>8 DEF f
  <2> QED BY <1>6, <1>8, <2>1 DEF Cuts, m
<1>10. p \in q .. Least(q + Chunk - 1, m)
  BY <1>1, <1>2, <1>3, <1>5 DEF Least
<1> QED BY <1>9, <1>10

-----------------------------------------------------------------------------
(* The actions.                                                            *)

LEMMA IdleIsNoTask == Idle \notin Tasks
<1> SUFFICES ASSUME Idle \in Tasks PROVE FALSE
  OBVIOUS
<1>1. DOMAIN Idle = {"first", "last"}
  BY DEF Tasks
<1>2. DOMAIN Idle = {}
  BY DEF Idle
<1> QED BY <1>1, <1>2

\* An id of the call is one of the ids gathered.
LEMMA WantedIsGathered ==
  ASSUME NEW s, NEW t, ToSet(s) = ToSet(t), NEW i \in DOMAIN s
  PROVE  \E q \in DOMAIN t : t[q] = s[i]
  BY DEF ToSet

\* Of an accepted table, a call for rows of the table asks for nothing else.
LEMMA AskedInRange ==
  ASSUME files \in Tables, Whole, NEW u \in Seq(Int), ToSet(u) = ToSet(wanted),
         \A i \in DOMAIN wanted : wanted[i] \in 0 .. Vocab - 1
  PROVE  InRange(u) /\ \A q \in DOMAIN u : u[q] \in Nat /\ Read(u[q]) = u[q]
<1> SUFFICES ASSUME NEW q \in DOMAIN u
             PROVE  /\ 0 <= u[q] /\ u[q] < ShardSize * Slots
                    /\ u[q] \in Nat /\ Read(u[q]) = u[q]
  BY DEF InRange
<1>1. u[q] \in 0 .. Vocab - 1
  BY WantedIsGathered
<1>2. u[q] \in Nat
  BY <1>1, TableAssumption
<1> QED BY <1>1, <1>2, WholeServes

LEMMA InitTInv == Init => TInv
<1> SUFFICES ASSUME Init PROVE TInv
  OBVIOUS
<1>1. Outstanding = {}
  BY DEF Init, Outstanding
<1>2. Types
  BY TableAssumption DEF Init, Types
<1> QED BY <1>1, <1>2 DEF Init, TInv, SameIds, Accepted, Cut, Fetched, AcceptedServes

\* Before and after the tasks, the parts of the invariant that speak of them
\* say nothing.
LEMMA NoTasks ==
  ASSUME TInv, UNCHANGED <<files, tasks, task>>, pc \in {"setup", "call", "gather"},
         pc' \notin {"wait", "done"}
  PROVE  Cut' /\ Fetched'
<1>1. Outstanding' = {}
  BY DEF TInv, Cut, Outstanding
<1> QED BY <1>1 DEF Cut, Fetched

LEMMA SetupTInv == TInv /\ Setup => TInv'
<1> SUFFICES ASSUME TInv, Setup PROVE TInv'
  OBVIOUS
<1>1. Types' /\ SameIds'
  BY DEF TInv, Setup, Types, SameIds
<1>2. Accepted'
  BY DEF TInv, Setup, Accepted, Whole, ShardSize, CeilDiv, Least
<1>3. Cut' /\ Fetched'
  BY NoTasks DEF Setup
<1>4. AcceptedServes'
  BY DEF Setup, AcceptedServes
<1> QED BY <1>1, <1>2, <1>3, <1>4 DEF TInv

\* Sorting the ids of a call.
LEMMA SortedIds ==
  ASSUME NEW s \in Seq(Int)
  PROVE  /\ Sorted(ToSet(s)) \in Seq(Int) /\ ToSet(Sorted(ToSet(s))) = ToSet(s)
         /\ Ordered(Sorted(ToSet(s)))
<1>1. ToSet(s) \in SUBSET Int /\ IsFiniteSet(ToSet(s))
  BY FiniteIds
<1> QED BY <1>1, SortedSet DEF Ordered

LEMMA CallTInv == TInv /\ Call => TInv'
<1> SUFFICES ASSUME TInv, Call PROVE TInv'
  OBVIOUS
<1>1. wanted \in Seq(Int) /\ ids' \in {Sorted(ToSet(wanted)), wanted}
  BY DEF TInv, Types, Call
<1>2. ids' \in Seq(Int) /\ ToSet(ids') = ToSet(wanted)
  BY <1>1, SortedIds
<1>3. Types' /\ SameIds'
  BY <1>2 DEF TInv, Call, Types, SameIds
<1>4. Accepted'
  BY DEF TInv, Call, Accepted, Whole, ShardSize, CeilDiv, Least
<1>5. Cut' /\ Fetched'
  BY NoTasks DEF Call
<1>6. AcceptedServes'
  BY DEF Call, AcceptedServes
<1> QED BY <1>3, <1>4, <1>5, <1>6 DEF TInv

LEMMA GatherFastTInv == TInv /\ GatherFast => TInv'
<1> SUFFICES ASSUME TInv, GatherFast PROVE TInv'
  OBVIOUS
<1> DEFINE got == [i \in DOMAIN ids |-> Read(ids[i])]
           good == InRange(ids) /\ \A i \in DOMAIN got : got[i] # Error
<1>1. /\ pc = "gather" /\ UNCHANGED <<files, wanted, ids, tasks, task>>
      /\ good => out' = got /\ pc' = "done"
      /\ ~good => pc' = "failed" /\ UNCHANGED out
  BY DEF GatherFast
<1>2. files \in Tables /\ ids \in Seq(Int) /\ ToSet(ids) = ToSet(wanted) /\ Whole
  BY <1>1 DEF TInv, Types, SameIds, Accepted
<1>3. Types' /\ SameIds'
  BY <1>1 DEF TInv, Types, SameIds
<1>4. Accepted'
  BY <1>1, <1>2 DEF Accepted, Whole, ShardSize, CeilDiv, Least
<1>5. Outstanding' = {}
  BY <1>1 DEF TInv, Cut, Outstanding
<1>6. Cut'
  BY <1>5 DEF Cut
<1>7. Fetched'
  <2>1. CASE good
    <3>1. \A p \in DOMAIN ids : ids[p] \in Nat
      BY <1>2, <2>1, LenProperties, ElementOfSeq DEF InRange
    <3>2. \A p \in DOMAIN ids : got[p] = ids[p]
      BY <1>2, <2>1, <3>1, ReadOwn
    <3> QED BY <1>1, <2>1, <3>2 DEF Fetched
  <2>2. CASE ~good
    BY <1>1, <2>2 DEF Fetched
  <2> QED BY <2>1, <2>2
<1>8. AcceptedServes'
  <2> SUFFICES ASSUME \A i \in DOMAIN wanted : wanted[i] \in 0 .. Vocab - 1
               PROVE  pc' # "failed"
    BY <1>1 DEF AcceptedServes
  <2>1. InRange(ids) /\ \A q \in DOMAIN ids : ids[q] \in Nat /\ Read(ids[q]) = ids[q]
    BY <1>2, AskedInRange
  <2>2. \A q \in DOMAIN ids : Read(ids[q]) # Error
    BY <2>1 DEF Error
  <2> QED BY <1>1, <2>1, <2>2
<1> QED BY <1>3, <1>4, <1>6, <1>7, <1>8 DEF TInv

LEMMA GatherPooledTInv == TInv /\ GatherPooled => TInv'
<1> SUFFICES ASSUME TInv, GatherPooled PROVE TInv'
  OBVIOUS
<1> DEFINE u == Sorted(ToSet(ids))
<1>1. /\ pc = "gather" /\ UNCHANGED <<files, wanted, task>>
      /\ InRange(u) => /\ ids' = u /\ tasks' = Cuts(u) /\ pc' = "wait"
                       /\ out' = [i \in DOMAIN u |-> Unset]
      /\ ~InRange(u) => pc' = "failed" /\ UNCHANGED <<ids, tasks, out>>
  BY DEF GatherPooled
<1>2. files \in Tables /\ ids \in Seq(Int) /\ ToSet(ids) = ToSet(wanted) /\ Whole
  BY <1>1 DEF TInv, Types, SameIds, Accepted
<1>3. u \in Seq(Int) /\ ToSet(u) = ToSet(wanted) /\ Ordered(u)
  BY <1>2, SortedIds
<1> HIDE DEF u
<1>4. Outstanding = {}
  BY <1>1 DEF TInv, Cut
<1>5. \A t \in Cuts(u) : /\ t \in Tasks
                         /\ \A p \in t.first .. t.last :
                              p \in DOMAIN u /\ Shard(u[p]) = Shard(u[t.first])
  BY <1>2, <1>3, CutsInShard
<1>6. Types'
  <2>1. CASE InRange(u)
    BY <1>1, <1>3, <1>5, <2>1 DEF TInv, Types
  <2>2. CASE ~InRange(u)
    BY <1>1, <2>2 DEF TInv, Types
  <2> QED BY <2>1, <2>2
<1>7. SameIds'
  BY <1>1, <1>3 DEF SameIds
<1>8. Accepted'
  BY <1>1, <1>2 DEF Accepted, Whole, ShardSize, CeilDiv, Least
<1>9. CASE ~InRange(u)
  <2>1. Outstanding' = {}
    BY <1>1, <1>4, <1>9 DEF Outstanding
  <2>2. Cut' /\ Fetched'
    BY <1>1, <1>9, <2>1 DEF Cut, Fetched
  <2>3. AcceptedServes'
    BY <1>1, <1>2, <1>3, <1>9, AskedInRange DEF AcceptedServes
  <2> QED BY <1>6, <1>7, <1>8, <2>2, <2>3 DEF TInv
<1>10. CASE InRange(u)
  <2>1. Outstanding' = Cuts(u)
    BY <1>1, <1>4, <1>10 DEF Outstanding
  <2>2. Cut'
    <3>1. \A n : Shard(n)' = Shard(n)
      BY <1>1 DEF Shard, ShardSize, CeilDiv
    <3>2. \A t \in Cuts(u) : InShard(t)'
      BY <1>1, <1>5, <1>10, <3>1 DEF InShard, Shard, ShardSize, CeilDiv
    <3> QED BY <1>1, <1>10, <2>1, <3>2 DEF Cut
  <2>3. Fetched'
    <3>1. InRange(ids)'
      BY <1>1, <1>10 DEF InRange, ShardSize, CeilDiv, Slots
    <3>2. \A p \in DOMAIN u : \E t \in Cuts(u) : p \in t.first .. t.last
      BY <1>2, <1>3, CutsCover
    <3> QED BY <1>1, <1>10, <2>1, <3>1, <3>2 DEF Fetched
  <2>4. AcceptedServes'
    BY <1>1, <1>10 DEF AcceptedServes
  <2> QED BY <1>6, <1>7, <1>8, <2>2, <2>3, <2>4 DEF TInv
<1> QED BY <1>9, <1>10

LEMMA TakeTInv == ASSUME NEW w \in Workers PROVE TInv /\ Take(w) => TInv'
<1> SUFFICES ASSUME TInv, Take(w) PROVE TInv'
  OBVIOUS
<1>1. PICK t \in tasks : task' = [task EXCEPT ![w] = t] /\ tasks' = tasks \ {t}
  BY DEF Take
<1>2. task[w] = Idle /\ UNCHANGED <<files, pc, wanted, ids, out>>
  BY DEF Take
<1>3. t \in Tasks /\ t # Idle /\ task \in [Workers -> Tasks \cup {Idle}]
  BY IdleIsNoTask DEF TInv, Types
<1>4. Types'
  BY <1>1, <1>2, <1>3 DEF TInv, Types
<1>5. Outstanding' = Outstanding
  BY <1>1, <1>2, <1>3 DEF Outstanding
<1>6. SameIds' /\ AcceptedServes'
  BY <1>2 DEF TInv, SameIds, AcceptedServes
<1>7. Accepted'
  BY <1>2 DEF TInv, Accepted, Whole, ShardSize, CeilDiv, Least
<1>8. Cut'
  BY <1>2, <1>5 DEF TInv, Cut, InShard, Shard, ShardSize, CeilDiv
<1>9. Fetched'
  BY <1>2, <1>5 DEF TInv, Fetched, InRange, ShardSize, CeilDiv, Slots
<1> QED BY <1>4, <1>6, <1>7, <1>8, <1>9 DEF TInv

LEMMA RunTaskTInv == ASSUME NEW w \in Workers PROVE TInv /\ RunTask(w) => TInv'
<1> SUFFICES ASSUME TInv, RunTask(w) PROVE TInv'
  OBVIOUS
<1> DEFINE t == task[w]
           range == t.first .. t.last
           good == \A p \in range : Read(ids[p]) # Error /\ Shard(ids[p]) = Shard(ids[t.first])
<1>1. /\ t # Idle /\ task' = [task EXCEPT ![w] = Idle]
      /\ UNCHANGED <<files, wanted, ids, tasks>>
      /\ good => /\ out' = [p \in DOMAIN out |-> IF p \in range THEN Read(ids[p]) ELSE out[p]]
                 /\ UNCHANGED pc
      /\ ~good => pc' = "failed" /\ UNCHANGED out
  BY DEF RunTask
<1>2. /\ files \in Tables /\ ids \in Seq(Int) /\ task \in [Workers -> Tasks \cup {Idle}]
      /\ pc \in {"wait", "failed"} /\ Whole
      /\ \A p \in range : p \in DOMAIN ids /\ Shard(ids[p]) = Shard(ids[t.first])
  <2>1. t \in Outstanding
    BY <1>1 DEF Outstanding
  <2> QED BY <2>1 DEF TInv, Types, Cut, InShard, Accepted
<1>3. Types'
  <2>1. pc' \in {"setup", "call", "gather", "wait", "done", "refused", "failed"}
    BY <1>1 DEF TInv, Types
  <2>2. task' \in [Workers -> Tasks \cup {Idle}]
    BY <1>1, <1>2
  <2> QED BY <1>1, <2>1, <2>2 DEF TInv, Types
<1>4. SameIds'
  BY <1>1, <1>2 DEF TInv, SameIds
<1>5. Accepted'
  BY <1>1, <1>2 DEF Accepted, Whole, ShardSize, CeilDiv, Least
<1>6. Outstanding' \subseteq Outstanding /\ \A s \in Outstanding : s = t \/ s \in Outstanding'
  BY <1>1, <1>2 DEF Outstanding
<1> HIDE DEF t
<1>7. Cut'
  BY <1>1, <1>2, <1>6 DEF TInv, Cut, InShard, Shard, ShardSize, CeilDiv
<1>8. Fetched'
  <2>1. ASSUME pc' = "wait"
        PROVE  /\ InRange(ids)' /\ DOMAIN out' = DOMAIN ids'
               /\ \A p \in DOMAIN ids' :
                    out'[p] = ids'[p] \/ \E s \in Outstanding' : p \in s.first .. s.last
    <3>1. good /\ pc = "wait"
      BY <1>1, <2>1
    <3>2. /\ InRange(ids) /\ DOMAIN out = DOMAIN ids
          /\ \A p \in DOMAIN ids :
               out[p] = ids[p] \/ \E s \in Outstanding : p \in s.first .. s.last
      BY <3>1 DEF TInv, Fetched
    <3>3. ids' = ids /\ DOMAIN out' = DOMAIN ids
          /\ \A p \in DOMAIN ids : out'[p] = IF p \in range THEN Read(ids[p]) ELSE out[p]
      BY <1>1, <3>1, <3>2
    <3>4. \A p \in DOMAIN ids : ids[p] \in Nat
      BY <1>2, <3>2, LenProperties, ElementOfSeq DEF InRange
    <3>5. \A p \in range : p \in DOMAIN ids => Read(ids[p]) = ids[p]
      BY <1>2, <3>1, <3>4, ReadOwn
    <3>6. InRange(ids)'
      BY <1>1, <3>2 DEF InRange, ShardSize, CeilDiv, Slots
    <3>7. ASSUME NEW p \in DOMAIN ids
          PROVE  out'[p] = ids[p] \/ \E s \in Outstanding' : p \in s.first .. s.last
      <4>1. CASE p \in range
        BY <3>3, <3>5, <4>1
      <4>2. CASE p \notin range
        BY <1>6, <3>2, <3>3, <4>2
      <4> QED BY <4>1, <4>2
    <3> QED BY <3>3, <3>6, <3>7
  <2>2. pc' # "done"
    BY <1>1, <1>2
  <2> QED BY <2>1, <2>2 DEF Fetched
<1>9. AcceptedServes'
  <2> SUFFICES ASSUME \A i \in DOMAIN wanted : wanted[i] \in 0 .. Vocab - 1
               PROVE  pc' # "failed"
    BY <1>1 DEF AcceptedServes
  <2>1. pc = "wait"
    BY <1>2 DEF TInv, AcceptedServes
  <2>2. ToSet(ids) = ToSet(wanted)
    BY <2>1 DEF TInv, SameIds
  <2>3. \A q \in DOMAIN ids : ids[q] \in Nat /\ Read(ids[q]) = ids[q]
    BY <1>2, <2>2, AskedInRange
  <2>4. good
    BY <1>2, <2>3 DEF Error
  <2> QED BY <1>1, <2>1, <2>4
<1> QED BY <1>3, <1>4, <1>5, <1>7, <1>8, <1>9 DEF TInv

LEMMA CollectTInv == TInv /\ Collect => TInv'
<1> SUFFICES ASSUME TInv, Collect PROVE TInv'
  OBVIOUS
<1>1. Outstanding = {} /\ Outstanding' = {}
  BY DEF Collect, Outstanding
<1>2. Types' /\ SameIds'
  BY DEF TInv, Collect, Types, SameIds
<1>3. Accepted'
  BY DEF TInv, Collect, Accepted, Whole, ShardSize, CeilDiv, Least
<1>4. Cut' /\ Fetched'
  BY <1>1 DEF TInv, Collect, Cut, Fetched
<1>5. AcceptedServes'
  BY DEF Collect, AcceptedServes
<1> QED BY <1>2, <1>3, <1>4, <1>5 DEF TInv

LEMMA NextTInv == TInv /\ [Next]_vars => TInv'
<1> SUFFICES ASSUME TInv, [Next]_vars PROVE TInv'
  OBVIOUS
<1>1. CASE Setup
  BY <1>1, SetupTInv
<1>2. CASE Call
  BY <1>2, CallTInv
<1>3. CASE GatherFast
  BY <1>3, GatherFastTInv
<1>4. CASE GatherPooled
  BY <1>4, GatherPooledTInv
<1>5. CASE Collect
  BY <1>5, CollectTInv
<1>6. CASE \E w \in Workers : Take(w) \/ RunTask(w)
  BY <1>6, TakeTInv, RunTaskTInv
<1>7. CASE UNCHANGED vars
  <2>1. Outstanding' = Outstanding
    BY <1>7 DEF vars, Outstanding
  <2>2. Types' /\ SameIds' /\ AcceptedServes'
    BY <1>7 DEF vars, TInv, Types, SameIds, AcceptedServes
  <2>3. Accepted'
    BY <1>7 DEF vars, TInv, Accepted, Whole, ShardSize, CeilDiv, Least
  <2>4. Cut'
    BY <1>7, <2>1 DEF vars, TInv, Cut, InShard, Shard, ShardSize, CeilDiv
  <2>5. Fetched'
    BY <1>7, <2>1 DEF vars, TInv, Fetched, InRange, ShardSize, CeilDiv, Slots
  <2> QED BY <2>2, <2>3, <2>4, <2>5 DEF TInv
<1> QED BY <1>1, <1>2, <1>3, <1>4, <1>5, <1>6, <1>7 DEF Next

-----------------------------------------------------------------------------
(* The theorems.                                                           *)

\* The invariant of _gather() and of the acceptance before it.
THEOREM GatherInvariant == Spec => []TInv
<1>1. Init => TInv
  BY InitTInv
<1>2. TInv /\ [Next]_vars => TInv'
  BY NextTInv
<1> QED BY <1>1, <1>2, PTL DEF Spec

\* However the ids are deduplicated, sorted, cut and spread over threads, the
\* caller gets for each id that id's own row, or the call fails.
THEOREM IdsGetOwnRows == Spec => []OwnRow
<1>1. TInv => OwnRow
  <2> SUFFICES ASSUME TInv, pc = "done", NEW i \in DOMAIN wanted
               PROVE  Result(i) = wanted[i]
    BY DEF OwnRow
  <2>1. \E q \in DOMAIN ids : ids[q] = wanted[i]
    BY WantedIsGathered DEF TInv, SameIds
  <2> DEFINE p == CHOOSE q \in DOMAIN ids : ids[q] = wanted[i]
  <2>2. p \in DOMAIN ids /\ ids[p] = wanted[i]
    BY <2>1
  <2>3. out[p] = ids[p]
    BY <2>2 DEF TInv, Fetched
  <2> QED BY <2>2, <2>3 DEF Result
<1> QED BY <1>1, GatherInvariant, PTL

\* Once _setup_table() has compared the shards, no id of the model's vocabulary
\* finds a shard missing or too short.
THEOREM AcceptedTableServes == Spec => []AcceptedServes
<1>1. TInv => AcceptedServes
  BY DEF TInv
<1> QED BY <1>1, GatherInvariant, PTL

-----------------------------------------------------------------------------
(* The draft head: the ids that are kept.                                  *)

LEMMA GreaterOf ==
  ASSUME NEW a \in Nat, NEW b \in Nat
  PROVE  Max({a, b}) \in {a, b} /\ a <= Max({a, b}) /\ b <= Max({a, b})
<1>1. \E x \in {a, b} : \A y \in {a, b} : x >= y
  <2>1. CASE a >= b
    BY <2>1
  <2>2. CASE ~(a >= b)
    BY <2>2
  <2>3. QED BY <2>1, <2>2
<1>2. Max({a, b}) \in {a, b} /\ \A y \in {a, b} : Max({a, b}) >= y
  BY <1>1, Zenon DEF Max
<1>3. QED BY <1>2

\* Sets that grow by one element at most, up to the first with K of them.
LEMMA FirstFull ==
  ASSUME NEW K \in Nat, NEW top \in Nat, NEW W,
         \A n \in 0 .. top : IsFiniteSet(W[n]),
         \A n \in 0 .. top - 1 : \E x : W[n + 1] \subseteq W[n] \cup {x},
         NEW n, n = Min({m \in 0 .. top : m = top \/ Cardinality(W[m]) >= K})
  PROVE  /\ n \in 0 .. top
         /\ Cardinality(W[n]) <= K \/ Cardinality(W[n]) <= Cardinality(W[0])
<1> DEFINE S == {m \in 0 .. top : m = top \/ Cardinality(W[m]) >= K}
<1>1. S \in SUBSET Nat /\ S # {}
  OBVIOUS
<1>2. FirstOf(S) \in S /\ \A m \in S : FirstOf(S) <= m
  <2> HIDE DEF S
  <2>1. QED BY <1>1, SmallestOf
<1>3. n = FirstOf(S)
  BY DEF Min, FirstOf
<1>4. n \in 0 .. top /\ \A m \in 0 .. n - 1 : m \in 0 .. top /\ ~(Cardinality(W[m]) >= K)
  <2>1. n \in S /\ \A m \in S : n <= m
    <3> HIDE DEF S
    <3>1. QED BY <1>2, <1>3
  <2>2. n \in 0 .. top /\ \A m \in 0 .. n - 1 : m \in 0 .. top /\ m \notin S
    <3>1. n \in 0 .. top
      BY <2>1
    <3> HIDE DEF S
    <3>2. QED BY <2>1, <3>1
  <2>3. QED BY <2>2
<1>5. CASE n = 0
  <2>1. Cardinality(W[0]) \in Nat
    BY <1>4, FS_CardinalityType
  <2>2. QED BY <1>4, <1>5, <2>1
<1>6. CASE n # 0
  <2> DEFINE m == n - 1
  <2>1. m \in 0 .. n - 1 /\ m \in 0 .. top - 1 /\ m \in 0 .. top /\ m + 1 = n
    BY <1>4, <1>6
  <2>2. Cardinality(W[m]) \in Nat /\ Cardinality(W[m]) < K /\ IsFiniteSet(W[m])
    <3> HIDE DEF S, m
    <3>1. IsFiniteSet(W[m])
      BY <2>1
    <3>2. Cardinality(W[m]) \in Nat
      BY <3>1, FS_CardinalityType
    <3>3. ~(Cardinality(W[m]) >= K)
      BY <1>4, <2>1
    <3>4. QED BY <3>1, <3>2, <3>3
  <2> HIDE DEF m
  <2>3. PICK x : W[m + 1] \subseteq W[m] \cup {x}
    BY <2>1
  <2>4. /\ IsFiniteSet(W[m] \cup {x})
        /\ Cardinality(W[m] \cup {x}) <= Cardinality(W[m]) + 1
    <3>1. /\ IsFiniteSet(W[m] \cup {x})
          /\ Cardinality(W[m] \cup {x}) = IF x \in W[m] THEN Cardinality(W[m])
                                          ELSE Cardinality(W[m]) + 1
      BY <2>2, FS_AddElement
    <3>2. QED BY <2>2, <3>1
  <2>5. W[n] \in SUBSET (W[m] \cup {x})
    BY <2>1, <2>3
  <2>6. Cardinality(W[n]) <= Cardinality(W[m] \cup {x})
    BY <2>4, <2>5, FS_Subset
  <2>7. Cardinality(W[n]) \in Nat /\ Cardinality(W[m] \cup {x}) \in Nat
    BY <1>4, <2>4, FS_CardinalityType
  <2>8. QED BY <1>4, <2>2, <2>4, <2>6, <2>7
<1>7. QED BY <1>5, <1>6

\* What is never left out, whatever the corpus.
Reserved == Specials \cup 0 .. Bytes - 1

LEMMA ReservedIds == Reserved \in SUBSET Nat /\ IsFiniteSet(Reserved) /\ Cardinality(Reserved) \in Nat
<1>1. TokVocab \in Nat /\ Bytes \in Nat /\ Specials \subseteq 0 .. TokVocab - 1
  BY HeadAssumption
<1>2. IsFiniteSet(Specials) /\ IsFiniteSet(0 .. Bytes - 1)
  <2>1. IsFiniteSet(0 .. TokVocab - 1) /\ IsFiniteSet(0 .. Bytes - 1)
    BY <1>1, FS_Interval
  <2>2. QED BY <1>1, <2>1, FS_Subset
<1>3. IsFiniteSet(Reserved)
  BY <1>2, FS_Union DEF Reserved
<1>4. QED BY <1>1, <1>3, FS_CardinalityType DEF Reserved

\* One id more of a ranking.
LEMMA RankedOneMore ==
  ASSUME NEW M, NEW r \in Seq(M), NEW n \in 0 .. Len(r) - 1
  PROVE  ToSet(SubSeq(r, 1, n + 1)) \subseteq ToSet(SubSeq(r, 1, n)) \cup {r[n + 1]}
<1>1. Len(r) \in Nat
  OBVIOUS
<1>2. /\ SubSeq(r, 1, n + 1) = [i \in 1 .. n + 1 |-> r[i]]
      /\ SubSeq(r, 1, n) = [i \in 1 .. n |-> r[i]]
  BY <1>1
<1>3. QED BY <1>1, <1>2 DEF ToSet

LEMMA Ranked ==
  ASSUME NEW M, NEW r \in Seq(M), NEW n \in 0 .. Len(r)
  PROVE  ToSet(SubSeq(r, 1, n)) \in SUBSET M /\ IsFiniteSet(ToSet(SubSeq(r, 1, n)))
<1> DEFINE s == SubSeq(r, 1, n)
<1>1. s \in Seq(M) /\ Len(s) = n /\ DOMAIN s = 1 .. n /\ \A i \in 1 .. n : s[i] \in M
  OBVIOUS
<1> HIDE DEF s
<1>2. ToSet(s) \in SUBSET M
  BY <1>1 DEF ToSet
<1>3. s \in Surjection(1 .. n, ToSet(s))
  BY <1>1 DEF Surjection, ToSet
<1>4. IsFiniteSet(1 .. n)
  BY FS_Interval
<1>5. IsFiniteSet(ToSet(s))
  BY <1>3, <1>4, FS_Surjection
<1>6. QED BY <1>2, <1>5 DEF s

\* The tool keeps what is reserved, and no more than asked unless that is more.
LEMMA Kept ==
  ASSUME NEW r \in Rankings
  PROVE  /\ Keep(r) \in SUBSET Int /\ IsFiniteSet(Keep(r)) /\ Reserved \subseteq Keep(r)
         /\ Cardinality(Keep(r)) \in Nat
         /\ Cardinality(Keep(r)) <= KeepIds \/ Cardinality(Keep(r)) <= Cardinality(Reserved)
<1> DEFINE With(n) == Reserved \cup ToSet(SubSeq(r, 1, n))
           W == [n \in 0 .. Len(r) |-> With(n)]
           a == Min({n \in 0 .. Len(r) : n = Len(r) \/ Cardinality(With(n)) >= KeepIds})
           Fill(n) == With(a) \cup 0 .. n - 1
           V == [n \in 0 .. TokVocab |-> Fill(n)]
           b == Min({n \in 0 .. TokVocab : n = TokVocab \/ Cardinality(Fill(n)) >= KeepIds})
<1>1. r \in Seq(Int) /\ Len(r) \in Nat /\ TokVocab \in Nat /\ KeepIds \in Nat
  BY HeadAssumption
<1>2. Keep(r) = Fill(b)
  BY DEF Keep, Reserved
<1>3. \A n \in 0 .. Len(r) : With(n) \in SUBSET Int /\ IsFiniteSet(With(n)) /\ W[n] = With(n)
  <2>1. SUFFICES ASSUME NEW n \in 0 .. Len(r)
                 PROVE  With(n) \in SUBSET Int /\ IsFiniteSet(With(n))
    OBVIOUS
  <2>2. /\ ToSet(SubSeq(r, 1, n)) \in SUBSET Int /\ IsFiniteSet(ToSet(SubSeq(r, 1, n)))
        /\ Reserved \in SUBSET Int /\ IsFiniteSet(Reserved)
    BY <1>1, Ranked, ReservedIds
  <2>3. QED BY <2>2, FS_Union
<1>4. \A n \in 0 .. Len(r) - 1 : \E x : W[n + 1] \subseteq W[n] \cup {x}
  <2>1. SUFFICES ASSUME NEW n \in 0 .. Len(r) - 1
                 PROVE  W[n + 1] \subseteq W[n] \cup {r[n + 1]}
    OBVIOUS
  <2>2. ToSet(SubSeq(r, 1, n + 1)) \subseteq ToSet(SubSeq(r, 1, n)) \cup {r[n + 1]}
    BY <1>1, RankedOneMore
  <2>3. W[n + 1] = With(n + 1) /\ W[n] = With(n)
    BY <1>1, <1>3
  <2>4. QED BY <2>2, <2>3
<1>5. a = Min({m \in 0 .. Len(r) : m = Len(r) \/ Cardinality(W[m]) >= KeepIds})
  <2>1. {n \in 0 .. Len(r) : n = Len(r) \/ Cardinality(With(n)) >= KeepIds}
         = {m \in 0 .. Len(r) : m = Len(r) \/ Cardinality(W[m]) >= KeepIds}
    BY <1>3
  <2>2. QED BY <2>1
<1> HIDE DEF W, a
<1>6. /\ a \in 0 .. Len(r)
      /\ Cardinality(W[a]) <= KeepIds \/ Cardinality(W[a]) <= Cardinality(W[0])
  <2>1. \A n \in 0 .. Len(r) : IsFiniteSet(W[n])
    BY <1>3
  <2>2. QED BY <1>1, <1>4, <1>5, <2>1, FirstFull
<1>7. With(0) = Reserved
  BY <1>1 DEF ToSet
<1> DEFINE R == With(a)
<1>8. /\ R \in SUBSET Int /\ IsFiniteSet(R) /\ Reserved \subseteq R
      /\ Cardinality(R) <= KeepIds \/ Cardinality(R) <= Cardinality(Reserved)
      /\ Cardinality(R) \in Nat
  <2>1. W[a] = With(a) /\ W[0] = Reserved /\ IsFiniteSet(With(a)) /\ With(a) \in SUBSET Int
    <3> HIDE DEF With
    <3>1. 0 \in 0 .. Len(r)
      BY <1>1
    <3>2. QED BY <1>3, <1>6, <1>7, <3>1
  <2>2. QED BY <1>6, <2>1, FS_CardinalityType
<1> HIDE DEF R, With
<1>9. \A n \in 0 .. TokVocab : /\ Fill(n) = R \cup 0 .. n - 1 /\ Fill(n) \in SUBSET Int
                               /\ IsFiniteSet(Fill(n)) /\ V[n] = Fill(n)
  <2>1. SUFFICES ASSUME NEW n \in 0 .. TokVocab
                 PROVE  R \cup 0 .. n - 1 \in SUBSET Int /\ IsFiniteSet(R \cup 0 .. n - 1)
    BY DEF R
  <2>2. IsFiniteSet(0 .. n - 1)
    BY FS_Interval
  <2>3. IsFiniteSet(R \cup 0 .. n - 1)
    BY <1>8, <2>2, FS_Union
  <2>4. QED BY <1>8, <2>3
<1>10. \A n \in 0 .. TokVocab - 1 : \E x : V[n + 1] \subseteq V[n] \cup {x}
  <2>1. SUFFICES ASSUME NEW n \in 0 .. TokVocab - 1 PROVE V[n + 1] \subseteq V[n] \cup {n}
    OBVIOUS
  <2>2. V[n + 1] = R \cup 0 .. (n + 1) - 1 /\ V[n] = R \cup 0 .. n - 1
    <3> HIDE DEF V, Fill
    <3>1. n \in 0 .. TokVocab /\ n + 1 \in 0 .. TokVocab
      BY <1>1
    <3>2. QED BY <1>9, <3>1
  <2>3. QED BY <2>2
<1>11. b = Min({m \in 0 .. TokVocab : m = TokVocab \/ Cardinality(V[m]) >= KeepIds})
  <2>1. {n \in 0 .. TokVocab : n = TokVocab \/ Cardinality(Fill(n)) >= KeepIds}
         = {m \in 0 .. TokVocab : m = TokVocab \/ Cardinality(V[m]) >= KeepIds}
    BY <1>9
  <2>2. QED BY <2>1
<1> HIDE DEF V, b, Fill
<1>12. /\ b \in 0 .. TokVocab
       /\ Cardinality(V[b]) <= KeepIds \/ Cardinality(V[b]) <= Cardinality(V[0])
  <2>1. \A n \in 0 .. TokVocab : IsFiniteSet(V[n])
    BY <1>9
  <2>2. QED BY <1>1, <1>10, <1>11, <2>1, FirstFull
<1>13. V[0] = R /\ V[b] = Keep(r) /\ Keep(r) = R \cup 0 .. b - 1
  <2>1. 0 \in 0 .. TokVocab
    BY <1>1
  <2>2. V[0] = R \cup 0 .. 0 - 1 /\ V[b] = Fill(b) /\ Fill(b) = R \cup 0 .. b - 1
    BY <1>9, <1>12, <2>1
  <2>3. 0 .. 0 - 1 = {}
    OBVIOUS
  <2>4. QED BY <1>2, <2>2, <2>3
<1>14. Keep(r) \in SUBSET Int /\ IsFiniteSet(Keep(r)) /\ Cardinality(Keep(r)) \in Nat
  BY <1>2, <1>9, <1>12, FS_CardinalityType
<1>15. QED BY <1>1, <1>8, <1>12, <1>13, <1>14, ReservedIds

-----------------------------------------------------------------------------
(* The draft head: the rows it is made of.                                 *)

\* ids[mask] keeps the ids of the model and nothing else.
LEMMA MaskedIds ==
  ASSUME NEW s \in Seq(Int)
  PROVE  /\ InVocab(s) \in Seq(Int)
         /\ ToSet(InVocab(s)) = {v \in ToSet(s) : 0 <= v /\ v < HeadVocab}
<1> DEFINE S == {i \in DOMAIN s : 0 <= s[i] /\ s[i] < HeadVocab}
           kept == Sorted(S)
<1>1. Len(s) \in Nat /\ DOMAIN s = 1 .. Len(s) /\ \A i \in DOMAIN s : s[i] \in Int
  OBVIOUS
<1>2. S \in SUBSET Int /\ IsFiniteSet(S)
  <2>1. S \in SUBSET (1 .. Len(s)) /\ IsFiniteSet(1 .. Len(s))
    BY <1>1, FS_Interval
  <2> HIDE DEF S
  <2>2. IsFiniteSet(S)
    BY <2>1, FS_Subset
  <2>3. QED BY <1>1, <2>1, <2>2
<1>3. InVocab(s) = [k \in DOMAIN kept |-> s[kept[k]]]
  BY DEF InVocab
<1>4. kept \in Seq(Int) /\ DOMAIN kept = 1 .. Len(kept) /\ Len(kept) \in Nat /\ ToSet(kept) = S
  <2> HIDE DEF S
  <2>1. kept \in Seq(Int) /\ ToSet(kept) = S
    BY <1>2, SortedSet
  <2> HIDE DEF kept
  <2>2. QED BY <2>1
<1> HIDE DEF kept
<1>5. \A k \in DOMAIN kept : kept[k] \in S
  BY <1>4 DEF ToSet
<1>6. InVocab(s) \in Seq(Int)
  <2>1. InVocab(s) \in [1 .. Len(kept) -> Int]
    BY <1>1, <1>3, <1>4, <1>5
  <2>2. QED BY <1>4, <2>1
<1>7. ASSUME NEW v \in ToSet(InVocab(s)) PROVE v \in ToSet(s) /\ 0 <= v /\ v < HeadVocab
  <2>1. PICK k \in DOMAIN kept : v = s[kept[k]]
    BY <1>3, <1>7 DEF ToSet
  <2>2. QED BY <1>5, <2>1 DEF ToSet
<1>8. ASSUME NEW v \in ToSet(s), 0 <= v, v < HeadVocab PROVE v \in ToSet(InVocab(s))
  <2>1. PICK i \in DOMAIN s : v = s[i]
    BY <1>8 DEF ToSet
  <2>2. i \in ToSet(kept)
    BY <1>4, <1>8, <2>1
  <2>3. PICK k \in DOMAIN kept : i = kept[k]
    BY <2>2 DEF ToSet
  <2>4. InVocab(s)[k] = v /\ k \in DOMAIN InVocab(s)
    BY <1>3, <2>1, <2>3
  <2>5. QED BY <2>4 DEF ToSet
<1>9. QED BY <1>6, <1>7, <1>8

\* Filling the last tile adds no id.
LEMMA PaddedIds ==
  ASSUME NEW s \in Seq(Int)
  PROVE  Padded(s) \in Seq(Int) /\ ToSet(Padded(s)) = ToSet(s)
<1>1. CASE Len(s) % Tile = 0
  BY <1>1 DEF Padded
<1>2. CASE Len(s) % Tile # 0
  <2> DEFINE n == Tile - (Len(s) % Tile)
             t == [i \in 1 .. n |-> Last(s)]
  <2>1. Tile \in Nat \ {0} /\ Len(s) \in Nat
    BY HeadAssumption
  <2>2. n \in Nat
    BY <2>1
  <2>3. Len(s) # 0
    BY <1>2, <2>1
  <2> HIDE DEF n
  <2>4. Last(s) \in Int /\ Last(s) \in ToSet(s)
    <3>1. Len(s) \in DOMAIN s /\ s[Len(s)] \in Int
      BY <2>1, <2>3
    <3>2. QED BY <3>1 DEF Last, ToSet
  <2>5. t \in Seq(Int) /\ Len(t) = n /\ \A i \in DOMAIN t : t[i] = Last(s)
    <3>1. t \in [1 .. n -> Int]
      BY <2>4
    <3>2. QED BY <2>2, <3>1
  <2>6. Padded(s) = s \o t
    BY <1>2 DEF Padded, n
  <2> HIDE DEF t
  <2>7. ASSUME NEW i \in DOMAIN (s \o t) PROVE (s \o t)[i] \in ToSet(s)
    <3>1. CASE i \in DOMAIN s
      <4>1. (s \o t)[i] = s[i]
        BY <2>5, <3>1
      <4>2. QED BY <3>1, <4>1 DEF ToSet
    <3>2. CASE i \notin DOMAIN s
      <4>1. (s \o t)[i] = t[i - Len(s)] /\ i - Len(s) \in DOMAIN t
        BY <2>5, <3>2
      <4>2. QED BY <2>4, <2>5, <4>1
    <3>3. QED BY <3>1, <3>2
  <2>8. \A i \in DOMAIN s : i \in DOMAIN (s \o t) /\ (s \o t)[i] = s[i]
    BY <2>5
  <2>9. ToSet(s \o t) = ToSet(s)
    BY <2>7, <2>8 DEF ToSet
  <2>10. s \o t \in Seq(Int)
    BY <2>5
  <2>11. QED BY <2>6, <2>9, <2>10
<1>3. QED BY <1>1, <1>2

DraftTypes ==
  /\ setup \in [dense : BOOLEAN, int4 : BOOLEAN, source : {"none", "tool", "file"}]
  /\ step \in {"pack", "ids", "load", "rows", "score", "done", "failed"}
  /\ file \in Seq(Int)

\* A vocabulary of the tool's holds what its choice keeps.
FromTool ==
  (setup.source = "tool" /\ step \notin {"pack", "ids"}) =>
    \E r \in Rankings : file = Sorted(Keep(r))

\* The rows are those of the ids of the file that the model has, or all.
Selected ==
  step \in {"rows", "score", "done"} =>
    /\ sel \in Seq(Int)
    /\ IF Reduced THEN ToSet(sel) = {v \in ToSet(file) : 0 <= v /\ v < HeadVocab}
       ELSE sel = [i \in 1 .. Out |-> i - 1]

\* So far, each at the place of its id.
InPlaces ==
  /\ step \in {"pack", "ids", "load"} => wk = <<>>
  /\ step \in {"rows", "score", "done"} =>
       /\ wk \in Seq({Row(v) : v \in ToSet(sel)}) /\ Len(wk) <= Len(sel)
       /\ \A i \in 1 .. Len(wk) : wk[i] = Row(sel[i])
  /\ step \in {"score", "done"} => Len(wk) = Len(sel)

\* At the end an id has a score when its row is in the head.
Scored ==
  step = "done" => \A v \in 0 .. HeadVocab - 1 :
    logits[v] = IF ~Reduced \/ v \in ToSet(sel) THEN Row(v) ELSE NegInf

DInv == DraftTypes /\ FromTool /\ Selected /\ InPlaces /\ Scored

LEMMA DraftInitInv == DraftInit => DInv
<1> SUFFICES ASSUME DraftInit PROVE DInv
  OBVIOUS
<1>1. step = "pack" /\ wk = <<>> /\ file = <<>>
  BY DEF DraftInit
<1>2. DraftTypes
  BY <1>1 DEF DraftTypes, DraftInit
<1>3. FromTool /\ Selected /\ InPlaces /\ Scored
  BY <1>1 DEF FromTool, Selected, InPlaces, Scored
<1>4. QED BY <1>2, <1>3 DEF DInv

LEMMA PackStep ==
  ASSUME DInv, PackHead
  PROVE  DInv'
<1>1. /\ step = "pack" /\ step' = "ids" /\ setup' = setup /\ file' = file /\ wk' = wk
  BY DEF PackHead
<1>2. DraftTypes'
  BY <1>1 DEF DInv, DraftTypes
<1>3. FromTool' /\ Selected' /\ InPlaces' /\ Scored'
  BY <1>1 DEF DInv, FromTool, Selected, InPlaces, Scored
<1>4. QED BY <1>2, <1>3 DEF DInv

LEMMA ChooseStep ==
  ASSUME DInv, ChooseIds
  PROVE  DInv'
<1>1. step = "ids" /\ step' = "load" /\ setup' = setup /\ wk' = wk
  BY DEF ChooseIds
<1>2. setup.source \in {"none", "tool", "file"}
  BY DEF DInv, DraftTypes
<1>3. CASE setup.source = "none"
  <2>1. file' = <<>>
    BY <1>3 DEF ChooseIds
  <2>2. DraftTypes'
    BY <1>1, <2>1 DEF DInv, DraftTypes
  <2>3. FromTool' /\ Selected' /\ InPlaces' /\ Scored'
    BY <1>1, <1>3 DEF DInv, FromTool, Selected, InPlaces, Scored
  <2>4. QED BY <2>2, <2>3 DEF DInv
<1>4. CASE setup.source = "tool"
  <2>1. PICK r \in Rankings : file' = Sorted(Keep(r))
    BY <1>4 DEF ChooseIds
  <2>2. file' \in Seq(Int)
    BY <2>1, Kept, SortedSet
  <2>3. DraftTypes'
    BY <1>1, <2>2 DEF DInv, DraftTypes
  <2>4. FromTool' /\ Selected' /\ InPlaces' /\ Scored'
    BY <1>1, <2>1 DEF DInv, FromTool, Selected, InPlaces, Scored
  <2>5. QED BY <2>3, <2>4 DEF DInv
<1>5. CASE setup.source = "file"
  <2>1. file' \in IdFiles
    BY <1>5 DEF ChooseIds
  <2>2. file' \in Seq(Int)
    BY <2>1, HeadAssumption
  <2>3. DraftTypes'
    BY <1>1, <2>2 DEF DInv, DraftTypes
  <2>4. FromTool' /\ Selected' /\ InPlaces' /\ Scored'
    BY <1>1, <1>5 DEF DInv, FromTool, Selected, InPlaces, Scored
  <2>5. QED BY <2>3, <2>4 DEF DInv
<1>6. QED BY <1>2, <1>3, <1>4, <1>5

LEMMA LoadStep ==
  ASSUME DInv, LoadIds
  PROVE  DInv'
<1>1. /\ step = "load" /\ step' \in {"failed", "rows"}
      /\ setup' = setup /\ wk' = wk /\ file' = file /\ wk = <<>> /\ file \in Seq(Int)
  BY DEF LoadIds, DInv, InPlaces, DraftTypes
<1>2. Reduced' <=> Reduced
  BY <1>1 DEF Reduced
<1>3. ASSUME Reduced PROVE Selected'
  <2>1. sel' = Padded(InVocab(file)) \/ sel' = InVocab(file)
    BY <1>3 DEF LoadIds
  <2>2. /\ InVocab(file) \in Seq(Int) /\ Padded(InVocab(file)) \in Seq(Int)
        /\ ToSet(InVocab(file)) = {v \in ToSet(file) : 0 <= v /\ v < HeadVocab}
        /\ ToSet(Padded(InVocab(file))) = ToSet(InVocab(file))
    BY <1>1, MaskedIds, PaddedIds
  <2>3. QED BY <1>1, <1>2, <1>3, <2>1, <2>2 DEF Selected
<1>4. ASSUME ~Reduced PROVE Selected'
  <2>1. sel' = [i \in 1 .. Out |-> i - 1]
    BY <1>4 DEF LoadIds
  <2>2. Out \in Nat
    BY HeadAssumption
  <2>3. sel' \in [1 .. Out -> Int]
    BY <2>1, <2>2
  <2>4. sel' \in Seq(Int)
    BY <2>2, <2>3
  <2>5. QED BY <1>2, <1>4, <2>1, <2>4 DEF Selected
<1>5. Selected'
  BY <1>3, <1>4
<1>6. DraftTypes' /\ FromTool'
  BY <1>1 DEF DInv, DraftTypes, FromTool
<1>7. InPlaces'
  <2>1. CASE step' = "failed"
    BY <2>1 DEF InPlaces
  <2>2. CASE step' = "rows"
    <3>1. wk' = <<>> /\ Len(sel') \in Nat
      BY <1>1, <1>5, <2>2 DEF Selected
    <3>2. wk' \in Seq({Row(v) : v \in ToSet(sel)})' /\ Len(wk') = 0
      BY <3>1
    <3>3. QED BY <2>2, <3>1, <3>2 DEF InPlaces
  <2>3. QED BY <1>1, <2>1, <2>2
<1>8. Scored'
  BY <1>1 DEF Scored
<1>9. QED BY <1>5, <1>6, <1>7, <1>8 DEF DInv

\* A row depends on what was packed, or on the weights, only.
LEMMA SameRow ==
  ASSUME weights' = weights, setup' = setup, packed' = packed, NEW v
  PROVE  Row(v)' = Row(v)
BY DEF Row, Dequantized

LEMMA ChunkStep ==
  ASSUME DInv, AddChunk
  PROVE  DInv'
<1> DEFINE M == {Row(v) : v \in ToSet(sel)}
           upTo == Least(Len(wk) + HeadChunk, Len(sel))
           n == upTo - Len(wk)
           t == [i \in 1 .. n |-> Row(sel[Len(wk) + i])]
<1>1. /\ step = "rows" /\ step' \in {"score", "rows"} /\ wk' = wk \o t
      /\ step' = "score" => upTo = Len(sel)
      /\ weights' = weights /\ setup' = setup /\ packed' = packed /\ file' = file /\ sel' = sel
  BY DEF AddChunk
<1>2. /\ wk \in Seq(M) /\ Len(wk) \in Nat /\ Len(wk) <= Len(sel) /\ Len(sel) \in Nat
      /\ sel \in Seq(Int) /\ \A i \in 1 .. Len(wk) : wk[i] = Row(sel[i])
  <2>1. wk \in Seq(M) /\ Len(wk) <= Len(sel) /\ sel \in Seq(Int)
        /\ \A i \in 1 .. Len(wk) : wk[i] = Row(sel[i])
    BY <1>1 DEF DInv, InPlaces, Selected
  <2> HIDE DEF M
  <2>2. QED BY <2>1
<1>3. upTo \in Nat /\ n \in Nat /\ upTo <= Len(sel) /\ Len(wk) + n = upTo
  <2>1. HeadChunk \in Nat \ {0}
    BY HeadAssumption
  <2>2. QED BY <1>2, <2>1 DEF Least
<1> HIDE DEF n, upTo
<1>4. \A i \in 1 .. n : Row(sel[Len(wk) + i]) \in M
  <2>1. SUFFICES ASSUME NEW i \in 1 .. n PROVE sel[Len(wk) + i] \in ToSet(sel)
    OBVIOUS
  <2>2. Len(wk) + i \in DOMAIN sel
    BY <1>2, <1>3
  <2>3. QED BY <2>2 DEF ToSet
<1> HIDE DEF M
<1>5. t \in Seq(M) /\ Len(t) = n /\ DOMAIN t = 1 .. n
      /\ \A i \in 1 .. n : t[i] = Row(sel[Len(wk) + i])
  <2>1. t \in [1 .. n -> M] /\ \A i \in 1 .. n : t[i] = Row(sel[Len(wk) + i])
    BY <1>4
  <2> HIDE DEF t
  <2>2. QED BY <1>3, <2>1
<1> HIDE DEF t
<1>6. wk \o t \in Seq(M) /\ Len(wk \o t) = upTo
  <2>1. wk \o t \in Seq(M) /\ Len(wk \o t) = Len(wk) + Len(t)
    BY <1>2, <1>5, ConcatProperties
  <2>2. QED BY <1>3, <1>5, <2>1
<1>7. ASSUME NEW i \in 1 .. upTo PROVE (wk \o t)[i] = Row(sel[i])
  <2>1. CASE i <= Len(wk)
    <3>1. (wk \o t)[i] = wk[i] /\ i \in 1 .. Len(wk)
      BY <1>2, <1>5, <2>1
    <3>2. QED BY <1>2, <3>1
  <2>2. CASE ~(i <= Len(wk))
    <3> DEFINE k == i - Len(wk)
    <3>1. k \in 1 .. n /\ Len(wk) + k = i /\ (wk \o t)[i] = t[k]
      BY <1>2, <1>3, <1>5, <2>2
    <3> HIDE DEF k
    <3>2. QED BY <1>5, <3>1
  <2>3. QED BY <1>3, <2>1, <2>2
<1>8. \A v : Row(v)' = Row(v)
  BY <1>1, SameRow
<1>9. InPlaces'
  <2>1. {Row(v) : v \in ToSet(sel)}' = M
    BY <1>1, <1>8 DEF M
  <2>2. \A i \in 1 .. Len(wk') : wk'[i] = Row(sel[i])'
    BY <1>1, <1>6, <1>7, <1>8
  <2>3. wk' \in Seq({Row(v) : v \in ToSet(sel)})' /\ Len(wk') <= Len(sel')
    BY <1>1, <1>3, <1>6, <2>1
  <2>4. step' = "score" => Len(wk') = Len(sel')
    BY <1>1, <1>6
  <2>5. QED BY <1>1, <2>2, <2>3, <2>4 DEF InPlaces
<1>10. DraftTypes' /\ FromTool' /\ Scored'
  BY <1>1 DEF DInv, DraftTypes, FromTool, Scored
<1>11. Selected'
  BY <1>1 DEF DInv, Selected, Reduced
<1>12. QED BY <1>9, <1>10, <1>11 DEF DInv

LEMMA LogitsStep ==
  ASSUME DInv, ComputeLogits
  PROVE  DInv'
<1>1. /\ step = "score" /\ step' = "done"
      /\ weights' = weights /\ setup' = setup /\ packed' = packed /\ file' = file
      /\ sel' = sel /\ wk' = wk
  BY DEF ComputeLogits
<1>2. /\ sel \in Seq(Int) /\ Len(wk) = Len(sel) /\ DOMAIN sel = 1 .. Len(sel)
      /\ \A i \in 1 .. Len(sel) : wk[i] = Row(sel[i])
  BY <1>1 DEF DInv, InPlaces, Selected
<1>3. \A v : Row(v)' = Row(v)
  BY <1>1, SameRow
<1>4. /\ Reduced' <=> Reduced
      /\ DraftTypes' /\ FromTool' /\ Selected'
  BY <1>1 DEF DInv, DraftTypes, FromTool, Selected, Reduced
<1>5. InPlaces'
  <2>1. {Row(v) : v \in ToSet(sel)}' = {Row(v) : v \in ToSet(sel)}
    BY <1>1, <1>3
  <2>2. QED BY <1>1, <1>3, <2>1 DEF DInv, InPlaces
<1>6. ASSUME NEW v \in 0 .. HeadVocab - 1
      PROVE  logits'[v] = IF ~Reduced \/ v \in ToSet(sel) THEN Row(v) ELSE NegInf
  <2>1. CASE Reduced
    <3>1. PICK p \in [ToSet(sel) -> DOMAIN sel] :
            /\ \A u \in ToSet(sel) : sel[p[u]] = u
            /\ logits' = [u \in 0 .. HeadVocab - 1 |->
                            IF u \in ToSet(sel) THEN wk[p[u]] ELSE NegInf]
      BY <2>1 DEF ComputeLogits
    <3>2. logits'[v] = IF v \in ToSet(sel) THEN wk[p[v]] ELSE NegInf
      BY <3>1
    <3>3. v \in ToSet(sel) => wk[p[v]] = Row(v)
      BY <1>2, <3>1
    <3>4. QED BY <2>1, <3>2, <3>3
  <2>2. CASE ~Reduced
    <3>1. logits'[v] = wk[v + 1]
      BY <2>2 DEF ComputeLogits
    <3>2. sel = [i \in 1 .. Out |-> i - 1] /\ HeadVocab \in Nat /\ Out \in Nat /\ HeadVocab <= Out
      BY <1>1, <2>2, HeadAssumption DEF DInv, Selected
    <3>3. v + 1 \in 1 .. Len(sel) /\ sel[v + 1] = v
      BY <3>2
    <3>4. QED BY <1>2, <2>2, <3>1, <3>3
  <2>3. QED BY <2>1, <2>2
<1>7. Scored'
  BY <1>1, <1>3, <1>4, <1>6 DEF Scored
<1>8. QED BY <1>4, <1>5, <1>7 DEF DInv

\* From the file to the scores: the rows of the head are those of the ids of
\* the model in the file, each at the place of its id, and each id is scored
\* by the row at one of its places.
THEOREM DraftInvariant == DraftSpec => []DInv
<1>1. DraftInit => DInv
  BY DraftInitInv
<1>2. ASSUME DInv, [DraftNext]_draftVars PROVE DInv'
  <2>1. CASE DraftNext
    BY <1>2, <2>1, PackStep, ChooseStep, LoadStep, ChunkStep, LogitsStep DEF DraftNext
  <2>2. CASE UNCHANGED draftVars
    <3>1. /\ weights' = weights /\ setup' = setup /\ packed' = packed /\ file' = file
          /\ sel' = sel /\ wk' = wk /\ logits' = logits /\ step' = step
      BY <2>2 DEF draftVars
    <3>2. \A v : Row(v)' = Row(v)
      BY <3>1, SameRow
    <3>3. DraftTypes' /\ FromTool' /\ Selected'
      BY <1>2, <3>1 DEF DInv, DraftTypes, FromTool, Selected, Reduced
    <3>4. {Row(v) : v \in ToSet(sel)}' = {Row(v) : v \in ToSet(sel)}
      BY <3>1, <3>2
    <3>5. InPlaces'
      BY <1>2, <3>1, <3>2, <3>4 DEF DInv, InPlaces
    <3>6. Scored'
      BY <1>2, <3>1, <3>2 DEF DInv, Scored, Reduced
    <3>7. QED BY <3>3, <3>5, <3>6 DEF DInv
  <2>3. QED BY <1>2, <2>1, <2>2
<1>3. QED BY <1>1, <1>2, PTL DEF DraftSpec

\* The drafter scores each id it may propose by that id's own row, whatever is
\* in the file (strays, duplicates, any order and number), however the head is
\* stored, padded and cut into chunks, and every other id not at all.
THEOREM DraftScoresOwnRows == DraftSpec => []OwnScores
<1>1. DInv => OwnScores
  <2>1. SUFFICES ASSUME DInv, step = "done", NEW v \in 0 .. HeadVocab - 1
                 PROVE  logits[v] = IF ~Reduced \/ v \in ToSet(file) THEN Row(v) ELSE NegInf
    BY DEF OwnScores
  <2>2. Reduced => (v \in ToSet(sel) <=> v \in ToSet(file))
    <3>1. Reduced => ToSet(sel) = {u \in ToSet(file) : 0 <= u /\ u < HeadVocab}
      BY <2>1 DEF DInv, Selected
    <3>2. 0 <= v /\ v < HeadVocab
      BY HeadAssumption
    <3>3. QED BY <3>1, <3>2
  <2>3. logits[v] = IF ~Reduced \/ v \in ToSet(sel) THEN Row(v) ELSE NegInf
    BY <2>1 DEF DInv, Scored
  <2>4. QED BY <2>2, <2>3
<1>2. QED BY <1>1, DraftInvariant, PTL

\* Whatever the corpus was and however many ids were asked for, the specials
\* and the bytes can be drafted, and there are no more rows than asked unless
\* those alone are more.
THEOREM ReservedStayDraftable == DraftSpec => []ReservedDraftable
<1>1. DInv => ReservedDraftable
  <2>1. SUFFICES ASSUME DInv, step = "done", setup.source = "tool"
                 PROVE  /\ \A v \in Reserved : v < HeadVocab => logits[v] # NegInf
                        /\ Cardinality(ToSet(sel)) <= Max({KeepIds, Cardinality(Reserved)})
    BY DEF ReservedDraftable, Reserved
  <2>2. PICK r \in Rankings : file = Sorted(Keep(r))
    BY <2>1 DEF DInv, FromTool
  <2>3. Reduced /\ ToSet(file) = Keep(r)
    BY <2>1, <2>2, Kept, SortedSet DEF Reduced
  <2>4. ToSet(sel) = {v \in Keep(r) : 0 <= v /\ v < HeadVocab}
    BY <2>1, <2>3 DEF DInv, Selected
  <2>5. ASSUME NEW v \in Reserved, v < HeadVocab PROVE logits[v] # NegInf
    <3>1. v \in Keep(r) /\ v \in 0 .. HeadVocab - 1
      BY <2>5, Kept, ReservedIds, HeadAssumption
    <3>2. v \in ToSet(sel)
      BY <2>4, <2>5, <3>1
    <3>3. logits[v] = Row(v)
      BY <2>1, <3>1, <3>2 DEF DInv, Scored
    <3>4. 1 \in DOMAIN Row(v)
      <4>1. 1 \in 1 .. In
        BY HeadAssumption
      <4>2. DOMAIN Row(v) = 1 .. In
        BY DEF Row, Dequantized
      <4>3. QED BY <4>1, <4>2
    <3>5. QED BY <3>3, <3>4 DEF NegInf
  <2>6. Cardinality(ToSet(sel)) <= Max({KeepIds, Cardinality(Reserved)})
    <3>1. IsFiniteSet(Keep(r)) /\ ToSet(sel) \in SUBSET Keep(r)
      BY <2>4, Kept
    <3>2. Cardinality(ToSet(sel)) <= Cardinality(Keep(r)) /\ Cardinality(ToSet(sel)) \in Nat
      BY <3>1, FS_Subset, FS_CardinalityType
    <3>3. KeepIds \in Nat /\ Cardinality(Reserved) \in Nat /\ Cardinality(Keep(r)) \in Nat
      BY HeadAssumption, Kept, ReservedIds
    <3>4. /\ KeepIds <= Max({KeepIds, Cardinality(Reserved)})
          /\ Cardinality(Reserved) <= Max({KeepIds, Cardinality(Reserved)})
          /\ Max({KeepIds, Cardinality(Reserved)}) \in {KeepIds, Cardinality(Reserved)}
      BY <3>3, GreaterOf
    <3>5. Cardinality(Keep(r)) <= KeepIds \/ Cardinality(Keep(r)) <= Cardinality(Reserved)
      BY Kept
    <3>6. QED BY <3>2, <3>3, <3>4, <3>5
  <2>7. QED BY <2>5, <2>6
<1>2. QED BY <1>1, DraftInvariant, PTL

-----------------------------------------------------------------------------
(* Packing and unpacking a head: the powers of two that shift a number     *)
(* into its word, what Field takes out of it, and how far a slot is from   *)
(* the weight it was made of.                                              *)

PowerUpTo(f, N) == f = [n \in 0 .. N |-> IF n = 0 THEN 1 ELSE 2 * f[n - 1]]

Bound == Exponents

LEMMA HeadSizes ==
  /\ Bits \in Nat \ {0} /\ Pack \in Nat \ {0} /\ Group \in Nat \ {0} /\ In \in Nat \ {0}
  /\ Bound \in Nat /\ Bits <= Bound /\ Bits * Pack <= Bound
  /\ In % Group = 0 /\ Group % Pack = 0
<1>1. /\ Bits \in Nat \ {0} /\ Pack \in Nat \ {0} /\ Group \in Nat \ {0} /\ In \in Nat \ {0}
      /\ In % Group = 0 /\ Group % Pack = 0
  BY HeadAssumption
<1>2. Bits * Pack \in Nat /\ Bits <= Bits * Pack
  <2>1. ASSUME NEW b \in Nat, NEW p \in Nat \ {0} PROVE b * p \in Nat /\ b <= b * p
    <3>1. p - 1 \in Nat /\ b * (p - 1) >= 0 /\ b * (p - 1) = b * p - b
      OBVIOUS
    <3>2. QED BY <3>1
  <2>2. QED BY <1>1, <2>1
<1>3. Bound \in Nat /\ Bits * Pack <= Bound
  BY HeadAssumption, FloatAssumption DEF Bound
<1>4. QED BY <1>1, <1>2, <1>3

LEMMA Powers ==
  /\ Power[0] = 1
  /\ \A n \in 0 .. Bound : Power[n] \in Nat \ {0}
  /\ \A n \in 0 .. Bound - 1 : Power[n + 1] = 2 * Power[n]
<1>1. Bound \in Nat
  BY HeadSizes
<1> DEFINE S == {n \in 0 .. Bound : \E f : PowerUpTo(f, n)}
<1>2. \A n \in 0 .. Bound : n \in S
  <2>1. 0 \in S
    <3> DEFINE f == [n \in 0 .. 0 |-> 1]
    <3>1. PowerUpTo(f, 0)
      BY DEF PowerUpTo
    <3>2. QED BY <1>1, <3>1
  <2>2. ASSUME NEW n \in 0 .. Bound - 1, n \in S PROVE n + 1 \in S
    <3>1. PICK f : PowerUpTo(f, n)
      BY <2>2
    <3> DEFINE h == [k \in 0 .. n + 1 |-> IF k = 0 THEN 1 ELSE 2 * f[k - 1]]
    <3>2. \A k \in 0 .. n : f[k] = IF k = 0 THEN 1 ELSE 2 * f[k - 1]
      BY <3>1 DEF PowerUpTo
    <3>3. \A k \in 0 .. n : h[k] = f[k]
      BY <3>2
    <3>4. \A k \in 0 .. n + 1 : h[k] = IF k = 0 THEN 1 ELSE 2 * h[k - 1]
      <4>1. \A k \in 0 .. n + 1 : k # 0 => k - 1 \in 0 .. n
        OBVIOUS
      <4>2. \A k \in 0 .. n + 1 : h[k] = IF k = 0 THEN 1 ELSE 2 * f[k - 1]
        OBVIOUS
      <4> HIDE DEF h
      <4>3. QED BY <3>3, <4>1, <4>2
    <3>5. h = [k \in 0 .. n + 1 |-> h[k]]
      OBVIOUS
    <3> HIDE DEF h
    <3>6. PowerUpTo(h, n + 1)
      BY <3>4, <3>5 DEF PowerUpTo
    <3>7. QED BY <1>1, <3>6
  <2> HIDE DEF S
  <2>3. QED BY <1>1, <2>1, <2>2, Reach
<1>3. \E f : PowerUpTo(f, Bound)
  BY <1>1, <1>2
<1>4. Power = CHOOSE f : PowerUpTo(f, Bound)
  BY DEF Power, PowerUpTo, Bound
<1>5. PowerUpTo(Power, Bound)
  BY <1>3, <1>4, Zenon
<1>6. \A n \in 0 .. Bound : Power[n] = IF n = 0 THEN 1 ELSE 2 * Power[n - 1]
  BY <1>5, Zenon DEF PowerUpTo
<1>7. Power[0] = 1
  BY <1>1, <1>6
<1>8. ASSUME NEW n \in 0 .. Bound - 1 PROVE Power[n + 1] = 2 * Power[n]
  <2>1. n + 1 \in 0 .. Bound /\ n + 1 # 0 /\ (n + 1) - 1 = n
    BY <1>1
  <2>2. QED BY <1>6, <2>1
<1>9. \A n \in 0 .. Bound : Power[n] \in Nat \ {0}
  <2> DEFINE T == {n \in 0 .. Bound : Power[n] \in Nat \ {0}}
  <2>1. 0 \in T
    BY <1>1, <1>7
  <2>2. ASSUME NEW n \in 0 .. Bound - 1, n \in T PROVE n + 1 \in T
    <3>1. Power[n] \in Nat \ {0} /\ Power[n + 1] = 2 * Power[n]
      BY <1>8, <2>2
    <3>2. Power[n + 1] \in Nat \ {0}
      BY <3>1
    <3>3. QED BY <1>1, <3>2
  <2> HIDE DEF T
  <2>3. \A n \in 0 .. Bound : n \in T
    BY <1>1, <2>1, <2>2, Reach
  <2>4. QED BY <2>3 DEF T
<1>10. QED BY <1>7, <1>8, <1>9

LEMMA PowerSum ==
  ASSUME NEW m \in Nat, NEW n \in Nat, m + n <= Bound
  PROVE  Power[m + n] = Power[m] * Power[n]
<1>1. Bound \in Nat
  BY HeadSizes
<1> DEFINE S == {k \in 0 .. n : Power[m + k] = Power[m] * Power[k]}
<1>2. 0 \in S
  <2>1. Power[m] \in Nat /\ Power[0] = 1 /\ m + 0 = m
    BY <1>1, Powers
  <2>2. QED BY <2>1
<1>3. ASSUME NEW k \in 0 .. n - 1, k \in S PROVE k + 1 \in S
  <2> DEFINE a == Power[m] b == Power[k] c == Power[m + k]
  <2>1. /\ a \in Nat /\ b \in Nat /\ c = a * b /\ m + (k + 1) = (m + k) + 1
        /\ Power[(m + k) + 1] = 2 * c /\ Power[k + 1] = 2 * b
    BY <1>1, <1>3, Powers
  <2> HIDE DEF a, b, c
  <2>2. 2 * c = a * (2 * b)
    BY <2>1
  <2>3. Power[m + (k + 1)] = Power[m] * Power[k + 1]
    BY <2>1, <2>2 DEF a
  <2>4. QED BY <2>3
<1> HIDE DEF S
<1>4. \A k \in 0 .. n : k \in S
  BY <1>2, <1>3, Reach
<1>5. QED BY <1>4 DEF S

\* A word holds numbers below 2 * Half, which is 2 to the Bits.
LEMMA Halves == Half \in Nat \ {0} /\ 2 * Half = Power[Bits]
<1> DEFINE b == Bits - 1
<1>1. b \in 0 .. Bound - 1 /\ b + 1 = Bits /\ b \in 0 .. Bound
  BY HeadSizes
<1> HIDE DEF b
<1>2. Power[b] \in Nat \ {0} /\ Power[b + 1] = 2 * Power[b]
  BY <1>1, Powers
<1>3. QED BY <1>1, <1>2 DEF Half, b

Shift(k) == Power[Bits * k]

LEMMA Shifts ==
  /\ Shift(0) = 1 /\ Shift(1) = 2 * Half
  /\ \A k \in 0 .. Pack : Shift(k) \in Nat \ {0}
  /\ \A k \in 0 .. Pack, j \in 0 .. Pack : k + j <= Pack => Shift(k + j) = Shift(k) * Shift(j)
<1>1. Bits \in Nat \ {0} /\ Pack \in Nat \ {0} /\ Bound \in Nat /\ Bits * Pack <= Bound
  BY HeadSizes
<1>2. ASSUME NEW k \in 0 .. Pack PROVE Bits * k \in Nat /\ Bits * k <= Bound
  <2>1. Pack - k \in Nat /\ Bits * (Pack - k) >= 0 /\ Bits * (Pack - k) = Bits * Pack - Bits * k
    BY <1>1
  <2>2. Bits * k \in Nat /\ Bits * Pack \in Nat
    BY <1>1
  <2>3. QED BY <1>1, <2>1, <2>2
<1>3. Shift(0) = 1 /\ Shift(1) = 2 * Half
  <2>1. Bits * 0 = 0 /\ Bits * 1 = Bits
    BY <1>1
  <2>2. QED BY <2>1, Powers, Halves DEF Shift
<1>4. ASSUME NEW k \in 0 .. Pack PROVE Shift(k) \in Nat \ {0}
  BY <1>1, <1>2, Powers DEF Shift
<1>5. ASSUME NEW k \in 0 .. Pack, NEW j \in 0 .. Pack, k + j <= Pack
      PROVE  Shift(k + j) = Shift(k) * Shift(j)
  <2> DEFINE a == Bits * k b == Bits * j
  <2>1. a \in Nat /\ b \in Nat /\ Bits * (k + j) = a + b
    BY <1>1, <1>2
  <2>2. a + b <= Bound
    <3>1. Bits * (k + j) <= Bound
      BY <1>2, <1>5
    <3>2. QED BY <2>1, <3>1
  <2> HIDE DEF a, b
  <2>3. Power[a + b] = Power[a] * Power[b]
    BY <2>1, <2>2, PowerSum
  <2>4. QED BY <2>1, <2>3 DEF Shift, a, b
<1>6. QED BY <1>3, <1>4, <1>5

\* What is packed at a place is found there: below it less than one of its
\* units, above it whole multiples of the next.
LEMMA FieldOfWord ==
  ASSUME NEW numbers \in [1 .. Pack -> 0 .. 2 * Half - 1], NEW i \in 1 .. Pack
  PROVE  Field(Word(numbers), i - 1) = numbers[i]
<1> DEFINE f == [k \in 1 .. Pack |-> numbers[k] * Shift(k - 1)]
           sum(k) == SumFunctionOnSet(f, 1 .. k)
           B == 2 * Half
<1>1. Pack \in Nat \ {0} /\ B \in Nat \ {0}
  BY HeadSizes, Halves
<1>2. ASSUME NEW k \in 0 .. Pack - 1
      PROVE  /\ k + 1 \in 1 .. Pack /\ k \in 0 .. Pack /\ k + 1 \in 0 .. Pack
             /\ numbers[k + 1] \in 0 .. B - 1
             /\ f[k + 1] = numbers[k + 1] * Shift(k) /\ f[k + 1] \in Int
             /\ Shift(k) \in Nat \ {0} /\ Shift(k + 1) = Shift(k) * B
  <2>1. k + 1 \in 1 .. Pack /\ k \in 0 .. Pack /\ k + 1 \in 0 .. Pack /\ 1 \in 0 .. Pack /\ (k + 1) - 1 = k
        /\ k + 1 <= Pack
    BY <1>1
  <2>2. numbers[k + 1] \in 0 .. B - 1 /\ f[k + 1] = numbers[k + 1] * Shift(k)
    BY <2>1
  <2>3. Shift(k) \in Nat \ {0} /\ Shift(k + 1) = Shift(k) * B
    BY <2>1, Shifts
  <2>4. numbers[k + 1] * Shift(k) \in Int
    BY <2>2, <2>3
  <2>5. QED BY <2>1, <2>2, <2>3, <2>4
<1> HIDE DEF f
<1>3. ASSUME NEW k \in 0 .. Pack - 1
      PROVE  sum(k) \in Int /\ sum(k + 1) = sum(k) + numbers[k + 1] * Shift(k)
  <2>1. \A x \in 1 .. k + 1 : f[x] \in Int
    <3>1. SUFFICES ASSUME NEW x \in 1 .. k + 1 PROVE f[x] \in Int
      OBVIOUS
    <3>2. x - 1 \in 0 .. Pack - 1 /\ (x - 1) + 1 = x
      BY <1>1
    <3>3. QED BY <1>2, <3>2
  <2>2. k \in Nat
    OBVIOUS
  <2>3. sum(k) \in Int /\ sum(k + 1) = sum(k) + f[k + 1]
    BY <2>1, <2>2, SumNext
  <2>4. QED BY <1>2, <2>3
<1>4. sum(0) = 0
  <2>1. 1 .. 0 = {} /\ IsFiniteSet({}) /\ \A x \in {} : f[x] \in Int
    BY FS_EmptySet
  <2>2. SumFunctionOnSet(f, {}) = 0
    BY <2>1, SumStep
  <2>3. QED BY <2>1, <2>2
<1> HIDE DEF sum, B
\* Below a place.
<1>5. \A k \in 0 .. Pack : sum(k) \in Nat /\ sum(k) < Shift(k)
  <2> DEFINE S == {k \in 0 .. Pack : sum(k) \in Nat /\ sum(k) < Shift(k)}
  <2>1. 0 \in S
    <3>1. 0 \in 0 .. Pack /\ Shift(0) = 1
      BY <1>1, Shifts
    <3>2. sum(0) \in Nat /\ sum(0) < Shift(0)
      BY <1>4, <3>1
    <3>3. QED BY <3>1, <3>2
  <2>2. ASSUME NEW k \in 0 .. Pack - 1, k \in S PROVE k + 1 \in S
    <3> DEFINE s == sum(k) m == numbers[k + 1] p == Shift(k)
    <3>1. /\ s \in Nat /\ s < p /\ p \in Nat \ {0} /\ m \in 0 .. B - 1
          /\ sum(k + 1) = s + m * p /\ Shift(k + 1) = p * B /\ k + 1 \in 0 .. Pack
      BY <1>2, <1>3, <2>2
    <3> HIDE DEF s, m, p
    <3>2. m * p \in Nat /\ m * p <= (B - 1) * p /\ (B - 1) * p = p * B - p /\ p * B \in Int
      <4>1. (B - 1) - m \in Nat /\ ((B - 1) - m) * p >= 0 /\ ((B - 1) - m) * p = (B - 1) * p - m * p
        BY <1>1, <3>1
      <4>2. m * p \in Nat /\ (B - 1) * p \in Int /\ (B - 1) * p = p * B - p /\ p * B \in Int
        BY <1>1, <3>1
      <4>3. QED BY <4>1, <4>2
    <3>3. sum(k + 1) \in Nat /\ sum(k + 1) < Shift(k + 1)
      BY <3>1, <3>2
    <3>4. QED BY <3>1, <3>3
  <2> HIDE DEF S
  <2>3. \A k \in 0 .. Pack : k \in S
    BY <1>1, <2>1, <2>2, Reach
  <2>4. QED BY <2>3 DEF S
\* At the place, and above it.
<1> DEFINE l == i - 1
           Above(k) == \E r \in Nat : sum(k) = sum(l) + Shift(l) * (numbers[i] + B * r)
<1>6. /\ l \in 0 .. Pack - 1 /\ l \in 0 .. Pack /\ l + 1 = i /\ sum(l) \in Nat /\ Shift(l) \in Nat \ {0}
      /\ sum(l) < Shift(l) /\ numbers[i] \in 0 .. B - 1
  <2>1. l \in 0 .. Pack - 1 /\ l \in 0 .. Pack /\ l + 1 = i
    BY <1>1
  <2> HIDE DEF l
  <2>2. sum(l) \in Nat /\ sum(l) < Shift(l) /\ Shift(l) \in Nat \ {0} /\ numbers[i] \in 0 .. B - 1
    BY <1>2, <1>5, <2>1
  <2>3. QED BY <2>1, <2>2
<1>7. \A j \in 0 .. Pack - i : Above(i + j)
  <2> DEFINE S == {j \in 0 .. Pack - i : Above(i + j)}
  <2>1. 0 \in S
    <3>1. sum(i) = sum(l) + numbers[i] * Shift(l)
      BY <1>3, <1>6
    <3> HIDE DEF l
    <3>2. B * 0 = 0 /\ numbers[i] + 0 = numbers[i] /\ numbers[i] * Shift(l) = Shift(l) * numbers[i]
      BY <1>1, <1>6
    <3>3. sum(i) = sum(l) + Shift(l) * (numbers[i] + B * 0)
      BY <3>1, <3>2
    <3>4. Above(i + 0)
      BY <3>3
    <3>5. 0 \in 0 .. Pack - i
      BY <1>1
    <3>6. QED BY <3>4, <3>5
  <2>2. ASSUME NEW j \in 0 .. (Pack - i) - 1, j \in S PROVE j + 1 \in S
    <3> DEFINE k == i + j
    <3>1. k \in 0 .. Pack - 1 /\ i + (j + 1) = k + 1 /\ l + (j + 1) = k /\ j + 1 \in 0 .. Pack /\ j \in 0 .. Pack
          /\ l + (j + 1) <= Pack /\ j + 1 \in 0 .. Pack - i /\ j \in 0 .. Pack - 1
      BY <1>1, <1>6
    <3>2. PICK r \in Nat : sum(k) = sum(l) + Shift(l) * (numbers[i] + B * r)
      BY <2>2
    <3> DEFINE u == Shift(l) v == Shift(j) m == numbers[k + 1] x == numbers[i] s == sum(l)
    <3>3. Shift(k) = u * Shift(j + 1) /\ Shift(j + 1) = v * B /\ v \in Nat \ {0}
      <4>1. Shift(l + (j + 1)) = Shift(l) * Shift(j + 1)
        BY <1>6, <3>1, Shifts
      <4>2. Shift(j + 1) = Shift(j) * B /\ Shift(j) \in Nat \ {0}
        BY <1>2, <3>1
      <4>3. QED BY <3>1, <4>1, <4>2
    <3>4. sum(k + 1) = sum(k) + m * Shift(k) /\ m \in 0 .. B - 1
      BY <1>2, <1>3, <3>1
    <3>5. u \in Nat /\ x \in Nat /\ m \in Nat /\ s \in Nat /\ v \in Nat
      BY <1>1, <1>6, <3>3, <3>4
    <3>6. sum(k + 1) = (s + u * (x + B * r)) + m * (u * (v * B))
      BY <3>2, <3>3, <3>4
    <3> HIDE DEF u, v, m, x, s, k, l
    <3>7. (s + u * (x + B * r)) + m * (u * (v * B)) = s + u * (x + B * (r + m * v))
      <4>1. m * (u * (v * B)) = u * (B * (m * v))
        BY <1>1, <3>5
      <4> DEFINE a == B * r b == B * (m * v)
      <4>2. a \in Int /\ b \in Int /\ B * (r + m * v) = a + b
        BY <1>1, <3>5
      <4> HIDE DEF a, b
      <4>3. (s + u * (x + a)) + u * b = s + u * (x + (a + b))
        BY <3>5, <4>2
      <4>4. QED BY <4>1, <4>2, <4>3 DEF a, b
    <3>8. r + m * v \in Nat
      BY <3>5
    <3>9. Above(k + 1)
      BY <3>6, <3>7, <3>8 DEF u, x, s
    <3>10. QED BY <3>1, <3>9 DEF k
  <2> HIDE DEF S
  <2>3. Pack - i \in Nat
    BY <1>1
  <2>4. \A j \in 0 .. Pack - i : j \in S
    BY <2>1, <2>2, <2>3, Reach
  <2>5. QED BY <2>4 DEF S
<1>8. PICK r \in Nat : sum(Pack) = sum(l) + Shift(l) * (numbers[i] + B * r)
  <2>1. Pack - i \in 0 .. Pack - i /\ i + (Pack - i) = Pack
    BY <1>1
  <2>2. Above(Pack)
    BY <1>7, <2>1
  <2>3. QED BY <2>2
<1>9. Word(numbers) = sum(Pack)
  <2>1. DOMAIN f = 1 .. Pack
    BY DEF f
  <2>2. QED BY <2>1 DEF Word, SumFunction, f, sum, Shift
<1> DEFINE s == sum(l) u == Shift(l) x == numbers[i] y == x + B * r
<1>10. s \in Nat /\ u \in Nat \ {0} /\ s < u /\ x \in 0 .. B - 1 /\ sum(Pack) = s + u * y
  BY <1>6, <1>8
<1> HIDE DEF s, u, x
<1>11. y \in Nat /\ y % B = x
  BY <1>1, <1>10
<1> HIDE DEF y
<1>12. (s + u * y) \div u = y
  BY <1>10, <1>11
<1>13. QED BY <1>9, <1>10, <1>11, <1>12 DEF Field, B, Shift, u, x, l

-----------------------------------------------------------------------------
(* The draft head: rounding.                                               *)

LEMMA Extremes ==
  ASSUME NEW S \in SUBSET Int, IsFiniteSet(S), S # {}
  PROVE  /\ Max(S) \in S /\ \A y \in S : y <= Max(S)
         /\ Min(S) \in S /\ \A y \in S : Min(S) <= y
<1> DEFINE Good == {T \in SUBSET S : T # {} => /\ \E x \in T : \A y \in T : x >= y
                                               /\ \E x \in T : \A y \in T : x =< y}
<1>1. {} \in Good
  OBVIOUS
<1>2. ASSUME NEW T \in SUBSET S, NEW n \in S \ T, T \in Good PROVE T \cup {n} \in Good
  <2>1. CASE T = {}
    <3>1. \A y \in T \cup {n} : y = n
      BY <2>1
    <3>2. n \in Int /\ n \in T \cup {n}
      OBVIOUS
    <3>3. /\ \E x \in T \cup {n} : \A y \in T \cup {n} : x >= y
          /\ \E x \in T \cup {n} : \A y \in T \cup {n} : x =< y
      BY <3>1, <3>2
    <3>4. QED BY <3>3
  <2>2. CASE T # {}
    <3>1. PICK a \in T : \A y \in T : a >= y
      BY <1>2, <2>2
    <3>2. PICK b \in T : \A y \in T : b =< y
      BY <1>2, <2>2
    <3>3. a \in Int /\ b \in Int /\ n \in Int /\ \A y \in T : y \in Int
      OBVIOUS
    <3>4. \E x \in T \cup {n} : \A y \in T \cup {n} : x >= y
      <4>1. CASE a >= n
        BY <3>1, <3>3, <4>1
      <4>2. CASE ~(a >= n)
        <5>1. \A y \in T \cup {n} : n >= y
          BY <3>1, <3>3, <4>2
        <5>2. QED BY <5>1
      <4>3. QED BY <4>1, <4>2
    <3>5. \E x \in T \cup {n} : \A y \in T \cup {n} : x =< y
      <4>1. CASE b =< n
        BY <3>2, <3>3, <4>1
      <4>2. CASE ~(b =< n)
        <5>1. \A y \in T \cup {n} : n =< y
          BY <3>2, <3>3, <4>2
        <5>2. QED BY <5>1
      <4>3. QED BY <4>1, <4>2
    <3>6. QED BY <3>4, <3>5
  <2>3. QED BY <2>1, <2>2
<1> HIDE DEF Good
<1>3. S \in Good
  BY <1>1, <1>2, Growing
<1>4. /\ \E x \in S : \A y \in S : x >= y
      /\ \E x \in S : \A y \in S : x =< y
  BY <1>3 DEF Good
<1>5. Max(S) \in S /\ \A y \in S : Max(S) >= y
  BY <1>4, Zenon DEF Max
<1>6. Min(S) \in S /\ \A y \in S : Min(S) =< y
  BY <1>4, Zenon DEF Min
<1>7. QED BY <1>5, <1>6

LEMMA TwoOf ==
  ASSUME NEW a \in Int, NEW b \in Int
  PROVE  /\ Max({a, b}) = IF a <= b THEN b ELSE a
         /\ Min({a, b}) = IF a <= b THEN a ELSE b
<1>1. IsFiniteSet({a, b}) /\ {a, b} \in SUBSET Int /\ {a, b} # {}
  <2>1. IsFiniteSet({a}) /\ IsFiniteSet({a} \cup {b}) /\ {a, b} = {a} \cup {b}
    BY FS_Singleton, FS_AddElement
  <2>2. QED BY <2>1
<1>2. /\ Max({a, b}) \in {a, b} /\ \A y \in {a, b} : y <= Max({a, b})
      /\ Min({a, b}) \in {a, b} /\ \A y \in {a, b} : Min({a, b}) <= y
  BY <1>1, Extremes
<1>3. QED BY <1>2

LEMMA AbsOf ==
  ASSUME NEW n \in Int
  PROVE  Abs(n) \in Nat /\ Abs(n) = IF n <= 0 THEN -n ELSE n
<1>1. Max({n, -n}) = IF n <= -n THEN -n ELSE n
  BY TwoOf
<1>2. QED BY <1>1 DEF Abs

\* Not more than half a divisor away.
LEMMA Rounding ==
  ASSUME NEW e \in Nat \ {0}, NEW n \in Int, NEW d \in {e, -e}
  PROVE  LET z == RoundDiv(n, d) m == IF d < 0 THEN -n ELSE n IN
           z \in Int /\ -e <= 2 * (z * e - m) /\ 2 * (z * e - m) <= e
<1> DEFINE m == IF d < 0 THEN -n ELSE n
           q == m \div e
           r == m % e
           z == IF 2 * r < e \/ (2 * r = e /\ q % 2 = 0) THEN q ELSE q + 1
<1>1. Abs(d) = e /\ m \in Int
  BY AbsOf
<1>2. RoundDiv(n, d) = z
  BY <1>1 DEF RoundDiv
<1> HIDE DEF m
<1>3. q \in Int /\ r \in Nat /\ r < e /\ q * e \in Int /\ q * e = m - r
  BY <1>1
<1> HIDE DEF q, r
<1>4. z \in Int /\ (z = q \/ z = q + 1) /\ (z = q => 2 * r <= e) /\ (z # q => 2 * r >= e)
  BY <1>3
<1> HIDE DEF z
<1>5. CASE z = q
  <2>1. z * e - m = -r
    BY <1>1, <1>3, <1>5
  <2>2. -e <= 2 * (z * e - m) /\ 2 * (z * e - m) <= e
    BY <1>3, <1>4, <1>5, <2>1
  <2>3. QED BY <1>2, <1>4, <2>2 DEF m
<1>6. CASE z # q
  <2>1. z * e = q * e + e
    BY <1>3, <1>4, <1>6
  <2>2. z * e - m = e - r
    BY <1>1, <1>3, <2>1
  <2>3. -e <= 2 * (z * e - m) /\ 2 * (z * e - m) <= e
    BY <1>3, <1>4, <1>6, <2>2
  <2>4. QED BY <1>2, <1>4, <2>3 DEF m
<1>7. QED BY <1>5, <1>6

\* A number rounded to whole divisors and cut at h below and h - 1 above, when
\* it goes beyond h of them by half of g at most.
LEMMA Clamped ==
  ASSUME NEW e \in Nat \ {0}, NEW h \in Nat \ {0}, NEW m \in Int, NEW z \in Int, NEW g \in Nat,
         -e <= 2 * (z * e - m), 2 * (z * e - m) <= e,
         -(2 * (h * e)) - g <= 2 * m, 2 * m <= 2 * (h * e) + g
  PROVE  LET s == IF z + h < 0 THEN 0 ELSE IF 2 * h <= z + h THEN 2 * h - 1 ELSE z + h IN
           /\ s \in 0 .. 2 * h - 1
           /\ -(2 * e) - g <= 2 * ((s - h) * e - m) /\ 2 * ((s - h) * e - m) <= 2 * e + g
           /\ m = -(h * e) => s = 0
<1> DEFINE a == z * e b == h * e
<1>1. /\ a \in Int /\ b \in Int /\ -e <= 2 * (a - m) /\ 2 * (a - m) <= e
      /\ -(2 * b) - g <= 2 * m /\ 2 * m <= 2 * b + g
  OBVIOUS
<1>2. CASE z + h < 0
  <2>1. ((-h - 1) - z) * e >= 0 /\ ((-h - 1) - z) * e = (-(h * e) - e) - z * e
    BY <1>2
  <2>2. a <= -b - e
    BY <1>1, <2>1
  <2>3. (0 - h) * e = -b
    OBVIOUS
  <2> DEFINE t == (0 - h) * e
  <2>4. t = -b
    BY <2>3
  <2> HIDE DEF a, b, t
  <2>5. -(2 * e) - g <= 2 * (t - m) /\ 2 * (t - m) <= 2 * e + g
    BY <1>1, <2>2, <2>4
  <2>6. QED BY <1>2, <2>5 DEF t
<1>3. CASE 2 * h <= z + h
  <2>1. (z - h) * e >= 0 /\ (z - h) * e = z * e - h * e
    BY <1>3
  <2>2. b <= a
    BY <1>1, <2>1
  <2>3. ((2 * h - 1) - h) * e = h * e - e
    OBVIOUS
  <2> DEFINE t == ((2 * h - 1) - h) * e
  <2>4. t = b - e
    BY <2>3
  <2>5. b >= e
    <3>1. (h - 1) * e >= 0 /\ (h - 1) * e = h * e - e
      OBVIOUS
    <3>2. QED BY <1>1, <3>1
  <2> HIDE DEF a, b, t
  <2>6. -(2 * e) - g <= 2 * (t - m) /\ 2 * (t - m) <= 2 * e + g
    BY <1>1, <2>2, <2>4
  <2>7. m # -b
    BY <1>1, <2>2, <2>5
  <2>8. ~(z + h < 0) /\ 2 * h - 1 \in 0 .. 2 * h - 1
    BY <1>3
  <2>9. m # -(h * e)
    BY <2>7 DEF b
  <2>10. QED BY <1>3, <2>6, <2>8, <2>9 DEF t
<1>4. CASE 0 <= z + h /\ z + h < 2 * h
  <2>1. (z + h) - h = z
    OBVIOUS
  <2>2. m = -b => z + h = 0
    <3>1. SUFFICES ASSUME m = -b, -h + 1 <= z PROVE FALSE
      BY <1>4
    <3>2. (z - (1 - h)) * e >= 0 /\ (z - (1 - h)) * e = (z * e - e) + h * e
      BY <3>1
    <3>3. a >= e - b
      BY <1>1, <3>2
    <3> HIDE DEF a, b
    <3>4. QED BY <1>1, <3>1, <3>3
  <2> HIDE DEF a, b
  <2>3. -(2 * e) - g <= 2 * (a - m) /\ 2 * (a - m) <= 2 * e + g
    BY <1>1
  <2>4. QED BY <1>4, <2>1, <2>2, <2>3 DEF a, b
<1>5. QED BY <1>2, <1>3, <1>4

\* What a unit divides is not rounded.
LEMMA NotRounded ==
  ASSUME NEW u \in Nat \ {0}, NEW n \in Int
  PROVE  RoundDiv(n * u, u) = n
<1> DEFINE m == n * u z == RoundDiv(m, u)
<1>1. m \in Int /\ u \in {u, -u} /\ ~(u < 0)
  OBVIOUS
<1>2. z \in Int /\ -u <= 2 * (z * u - m) /\ 2 * (z * u - m) <= u
  <2> HIDE DEF m
  <2>1. QED BY <1>1, Rounding
<1> HIDE DEF z
<1>3. (z - n) * u = z * u - m
  BY <1>2
<1>4. ~(n + 1 <= z)
  <2>1. SUFFICES ASSUME n + 1 <= z PROVE FALSE
    OBVIOUS
  <2>2. (z - (n + 1)) * u >= 0 /\ (z - (n + 1)) * u = (z - n) * u - u /\ (z - n) * u \in Int
    BY <1>2, <2>1
  <2> DEFINE x == (z - n) * u
  <2>3. x \in Int /\ x - u >= 0 /\ 2 * x <= u
    BY <1>2, <1>3, <2>2
  <2> HIDE DEF x
  <2>4. QED BY <2>3
<1>5. ~(z <= n - 1)
  <2>1. SUFFICES ASSUME z <= n - 1 PROVE FALSE
    OBVIOUS
  <2>2. ((n - 1) - z) * u >= 0 /\ ((n - 1) - z) * u = -((z - n) * u) - u /\ (z - n) * u \in Int
    BY <1>2, <2>1
  <2> DEFINE x == (z - n) * u
  <2>3. x \in Int /\ -x - u >= 0 /\ -u <= 2 * x
    BY <1>2, <1>3, <2>2
  <2> HIDE DEF x
  <2>4. QED BY <2>3
<1>6. z = n
  BY <1>2, <1>4, <1>5
<1>7. QED BY <1>6 DEF z

-----------------------------------------------------------------------------
(* The draft head: packed and unpacked.                                    *)

\* No number of a group is larger than the one its scale is picked from.
Within(w, p) == \E e \in Nat : p \in {e, -e} /\ -e <= w /\ w <= e

LEMMA ColumnsOfHead ==
  ASSUME NEW c \in 1 .. In
  PROVE  /\ GroupOf(c) \in Groups /\ c \in Members(GroupOf(c))
         /\ (c - 1) \div Pack \in 0 .. (In \div Pack) - 1 /\ (c - 1) % Pack \in 0 .. Pack - 1
         /\ ((c - 1) \div Pack) * Pack + ((c - 1) % Pack) + 1 = c
<1>1. Pack \in Nat \ {0} /\ Group \in Nat \ {0} /\ In \in Nat \ {0} /\ In % Group = 0 /\ Group % Pack = 0
  BY HeadSizes
<1>2. ASSUME NEW d \in Nat \ {0}, In % d = 0
      PROVE  (c - 1) \div d \in 0 .. (In \div d) - 1
  <2> DEFINE k == (c - 1) \div d n == In \div d
  <2>1. k \in Int /\ k * d <= c - 1 /\ c - 1 < k * d + d /\ n \in Int /\ n * d = In
    BY <1>1, <1>2
  <2> HIDE DEF k, n
  <2>2. 0 <= k
    <3>1. SUFFICES ASSUME k <= -1 PROVE FALSE
      BY <2>1
    <3>2. (-1 - k) * d >= 0 /\ (-1 - k) * d = -d - k * d
      BY <2>1, <3>1
    <3>3. k * d <= -d /\ k * d \in Int
      BY <2>1, <3>2
    <3>4. QED BY <2>1, <3>3
  <2>3. k < n
    <3>1. SUFFICES ASSUME n <= k PROVE FALSE
      BY <2>1
    <3>2. (k - n) * d >= 0 /\ (k - n) * d = k * d - n * d
      BY <2>1, <3>1
    <3>3. n * d <= k * d /\ k * d \in Int
      BY <2>1, <3>2
    <3>4. QED BY <2>1, <3>3
  <2>4. k \in 0 .. n - 1
    BY <2>1, <2>2, <2>3
  <2>5. QED BY <2>4 DEF k, n
<1>3. In % Pack = 0
  <2> DEFINE a == In \div Group b == Group \div Pack
  <2>1. a \in Int /\ b \in Int /\ In = a * Group /\ Group = b * Pack
    BY <1>1
  <2> HIDE DEF a, b
  <2>2. In = (a * b) * Pack /\ a * b \in Int
    BY <1>1, <2>1
  <2> DEFINE x == a * b
  <2>3. x \in Int /\ In = x * Pack
    BY <2>2 DEF x
  <2> HIDE DEF x
  <2>4. (x * Pack) % Pack = 0
    BY <1>1, <2>3
  <2>5. QED BY <2>3, <2>4
<1>4. GroupOf(c) \in Groups /\ c \in Members(GroupOf(c))
  BY <1>1, <1>2 DEF GroupOf, Groups, Members
<1>5. (c - 1) \div Pack \in 0 .. (In \div Pack) - 1
  BY <1>1, <1>2, <1>3
<1>6. (c - 1) % Pack \in 0 .. Pack - 1 /\ c - 1 = ((c - 1) \div Pack) * Pack + ((c - 1) % Pack)
  BY <1>1
<1> DEFINE k == ((c - 1) \div Pack) * Pack i == (c - 1) % Pack
<1>7. k \in Int /\ i \in Int
  BY <1>1, <1>5, <1>6
<1> HIDE DEF k, i
<1>8. c - 1 = k + i
  BY <1>6 DEF k, i
<1>9. k + i + 1 = c
  BY <1>7, <1>8
<1>10. QED BY <1>4, <1>5, <1>6, <1>9 DEF k, i

LEMMA PickedLargest ==
  ASSUME NEW row \in [1 .. In -> Int], NEW c \in 1 .. In
  PROVE  /\ Picked(row, GroupOf(c)) \in Int /\ Within(row[c], Picked(row, GroupOf(c)))
         /\ \E d \in 1 .. In : Picked(row, GroupOf(c)) = row[d]
<1> DEFINE M == Members(GroupOf(c))
           S == {row[d] : d \in M}
           A == {Abs(row[d]) : d \in M}
           F == {d \in M : \A b \in M : Abs(row[b]) <= Abs(row[d])}
           p == Picked(row, GroupOf(c))
<1>1. In \in Nat /\ c \in M /\ M \in SUBSET (1 .. In) /\ M \subseteq Int
  BY ColumnsOfHead, HeadSizes DEF Members
<1> HIDE DEF M
<1>2. IsFiniteSet(M)
  <2>1. IsFiniteSet(1 .. In)
    BY <1>1, FS_Interval
  <2>2. QED BY <1>1, <2>1, FS_Subset
<1>3. S \in SUBSET Int /\ IsFiniteSet(S) /\ row[c] \in S
  <2> DEFINE g == [d \in M |-> row[d]]
  <2>1. g \in Surjection(M, S)
    BY DEF Surjection
  <2>2. IsFiniteSet(S)
    BY <1>2, <2>1, FS_Surjection
  <2>3. QED BY <1>1, <2>2
<1>4. A \in SUBSET Int /\ IsFiniteSet(A) /\ A # {}
  <2>1. \A d \in M : Abs(row[d]) \in Int
    BY <1>1, AbsOf
  <2> DEFINE g == [d \in M |-> Abs(row[d])]
  <2>2. g \in Surjection(M, A)
    <3>1. g \in [M -> A]
      OBVIOUS
    <3>2. \A a \in A : \E d \in M : g[d] = a
      OBVIOUS
    <3>3. QED BY <3>1, <3>2 DEF Surjection
  <2>3. IsFiniteSet(A)
    <3> HIDE DEF A, g
    <3>1. QED BY <1>2, <2>2, FS_Surjection
  <2>4. QED BY <1>1, <2>1, <2>3
<1>5. p = IF recipe = "experts" THEN row[Min(F)] ELSE IF -Min(S) > Max(S) THEN Min(S) ELSE Max(S)
  BY DEF Picked, M
<1>6. CASE recipe = "experts"
  <2>1. PICK d \in M : Abs(row[d]) = Max(A) /\ \A b \in M : Abs(row[b]) <= Abs(row[d])
    <3>1. Max(A) \in A /\ \A y \in A : y <= Max(A)
      BY <1>4, Extremes
    <3>2. QED BY <3>1
  <2>2. F \in SUBSET Int /\ IsFiniteSet(F) /\ F # {}
    <3>1. F \in SUBSET M /\ d \in F
      BY <2>1
    <3>2. IsFiniteSet(F)
      BY <1>2, <3>1, FS_Subset
    <3>3. QED BY <1>1, <3>1, <3>2
  <2>3. Min(F) \in F
    BY <2>2, Extremes
  <2> DEFINE f == Min(F)
  <2>4. f \in M /\ Abs(row[c]) <= Abs(row[f]) /\ p = row[f]
    BY <1>1, <1>5, <1>6, <2>3
  <2> HIDE DEF f, p
  <2>5. \E k \in 1 .. In : p = row[k]
    BY <1>1, <2>4
  <2>6. row[f] \in Int /\ row[c] \in Int
    BY <1>1, <2>4
  <2> DEFINE w == row[c] e == Abs(p)
  <2>7. /\ e \in Nat /\ p \in Int /\ w \in Int /\ e = (IF p <= 0 THEN -p ELSE p)
        /\ (IF w <= 0 THEN -w ELSE w) <= e
    BY <2>4, <2>6, AbsOf
  <2> HIDE DEF w, e
  <2>8. p \in {e, -e} /\ -e <= w /\ w <= e
    BY <2>7
  <2>9. QED BY <2>7, <2>8, <2>5 DEF Within, w, p
<1>7. CASE recipe # "experts"
  <2> DEFINE lo == Min(S) hi == Max(S) w == row[c]
  <2>1. lo \in Int /\ hi \in Int /\ w \in Int /\ lo <= w /\ w <= hi
    BY <1>3, Extremes
  <2>2. p = IF -lo > hi THEN lo ELSE hi
    BY <1>5, <1>7
  <2>3. \E d \in 1 .. In : p = row[d]
    <3>1. lo \in S /\ hi \in S
      BY <1>3, Extremes
    <3> HIDE DEF lo, hi, p
    <3>2. p \in S
      BY <2>2, <3>1
    <3>3. QED BY <1>1, <3>2
  <2> HIDE DEF lo, hi, w, p
  <2>4. CASE -lo > hi
    <3>1. -lo \in Nat /\ p \in {-lo, -(-lo)} /\ -(-lo) <= w /\ w <= -lo
      BY <2>1, <2>2, <2>4
    <3>2. Within(w, p)
      BY <3>1 DEF Within
    <3>3. QED BY <2>1, <2>2, <2>4, <2>3, <3>2 DEF w, p
  <2>5. CASE ~(-lo > hi)
    <3>1. hi \in Nat /\ p \in {hi, -hi} /\ -hi <= w /\ w <= hi
      BY <2>1, <2>2, <2>5
    <3>2. Within(w, p)
      BY <3>1 DEF Within
    <3>3. QED BY <3>1, <2>1, <2>3, <3>2 DEF w, p
  <2>6. QED BY <2>4, <2>5
<1>8. QED BY <1>6, <1>7

\* A scale is stored within half the smallest of what it was picked from.
LEMMA Float16Near ==
  ASSUME NEW p \in Int
  PROVE  /\ Float16(p) \in Int
         /\ -Smallest <= 2 * (Float16(p) - p) /\ 2 * (Float16(p) - p) <= Smallest
<1> DEFINE u == Smallest z == RoundDiv(p, u)
<1>1. u \in Nat \ {0} /\ u \in {u, -u}
  BY HeadAssumption
<1> HIDE DEF u
<1>2. ~(u < 0) /\ z \in Int /\ -u <= 2 * (z * u - p) /\ 2 * (z * u - p) <= u
  BY <1>1, Rounding
<1>3. Float16(p) = z * u
  BY DEF Float16, u
<1> HIDE DEF z
<1>4. z * u \in Int
  BY <1>1, <1>2
<1>5. QED BY <1>2, <1>3, <1>4 DEF u

\* A number of a group, and the scale the group is stored with.
Close(w, r) ==
  /\ -(2 * Abs(r)) - Smallest <= 2 * w
  /\ 2 * w <= 2 * Abs(r) + Smallest

LEMMA CloseToScale ==
  ASSUME NEW w \in Int, NEW p \in Int, Within(w, p)
  PROVE  Float16(p) \in Int /\ Close(w, Float16(p))
<1> DEFINE r == Float16(p) S == Smallest
<1>1. PICK e \in Nat : p \in {e, -e} /\ -e <= w /\ w <= e
  BY DEF Within
<1>2. r \in Int /\ -S <= 2 * (r - p) /\ 2 * (r - p) <= S /\ S \in Nat
  BY Float16Near, HeadAssumption
<1>3. Abs(r) = IF r <= 0 THEN -r ELSE r
  BY <1>2, AbsOf
<1> HIDE DEF r, S
<1>4. e <= Abs(r) \/ 2 * e - 2 * Abs(r) <= S
  BY <1>1, <1>2, <1>3
<1>5. Abs(r) \in Nat
  BY <1>2, <1>3
<1>6. -(2 * Abs(r)) - S <= 2 * w /\ 2 * w <= 2 * Abs(r) + S
  BY <1>1, <1>2, <1>4, <1>5
<1>7. QED BY <1>2, <1>6 DEF Close, r, S

\* A slot says what it was made of, within one step of the scale and what the
\* scale was rounded by.
SlotSays(w, r, s) ==
  /\ s \in 0 .. 2 * Half - 1
  /\ 2 * Abs((Half - s) * r - w * Half) <= 2 * Abs(r) + Half * Smallest
  /\ Abs((Half - s) * r) <= Half * Abs(r)
  /\ w = r => (Half - s) * r = w * Half

LEMMA SlotBack ==
  ASSUME NEW w \in Int, NEW r \in Int, Close(w, r)
  PROVE  SlotSays(w, r, Slot(w, r))
<1> DEFINE h == Half
           s == Slot(w, r)
           e == Abs(r)
           g == h * Smallest
           back == (h - s) * r
           error == back - w * h
<1>1. h \in Nat \ {0} /\ Smallest \in Nat \ {0}
  BY Halves, HeadAssumption
<1> HIDE DEF h
<1>2. e \in Nat /\ e = (IF r <= 0 THEN -r ELSE r) /\ g \in Nat
  BY <1>1, AbsOf
<1>3. -(2 * e) - Smallest <= 2 * w /\ 2 * w <= 2 * e + Smallest
  BY DEF Close
<1>4. CASE r = 0
  <2>1. e = 0
    <3>1. Abs(0) = 0
      BY AbsOf
    <3>2. QED BY <1>4, <3>1
  <2>2. s = Max({0, Min({0 + h, 2 * h - 1})})
    BY <1>4 DEF Slot, h
  <2>3. s = h
    <3> DEFINE a == 0 + h b == 2 * h - 1
    <3>1. a = h /\ b \in Int /\ a <= b /\ ~(a <= 0) /\ 0 <= a
      BY <1>1
    <3> HIDE DEF a, b
    <3>2. Min({a, b}) = a /\ Max({0, a}) = a
      BY <1>1, <3>1, TwoOf
    <3>3. QED BY <2>2, <3>1, <3>2 DEF a, b
  <2> HIDE DEF s
  <2>4. back = 0
    BY <1>1, <1>4, <2>3
  <2> DEFINE n == w * h
  <2>5. n \in Int /\ -g <= 2 * n /\ 2 * n <= g
    <3>1. -Smallest <= 2 * w /\ 2 * w <= Smallest
      BY <1>1, <1>3, <2>1
    <3>2. (Smallest + 2 * w) * h >= 0 /\ (Smallest - 2 * w) * h >= 0
      BY <1>1, <3>1
    <3>3. /\ (Smallest + 2 * w) * h = h * Smallest + 2 * (w * h)
          /\ (Smallest - 2 * w) * h = h * Smallest - 2 * (w * h) /\ w * h \in Int
      BY <1>1
    <3>4. QED BY <1>2, <3>2, <3>3
  <2>6. w = r => n = 0
    BY <1>1, <1>4
  <2> HIDE DEF n, g, back
  <2>7. /\ 2 * Abs(back - n) <= 2 * e + g
        /\ Abs(back) <= h * e
        /\ w = r => back = n
    <3>1. back - n \in Int /\ back - n = -n /\ h * e = 0
      BY <1>1, <2>1, <2>4, <2>5
    <3>2. Abs(back - n) = (IF n <= 0 THEN -n ELSE n)
      <4> DEFINE x == back - n
      <4>1. x \in Int /\ x = -n
        BY <3>1
      <4> HIDE DEF x
      <4>2. Abs(x) = IF x <= 0 THEN -x ELSE x
        BY <4>1, AbsOf
      <4>3. QED BY <2>5, <4>1, <4>2 DEF x
    <3>3. Abs(back) = 0
      BY <2>4, AbsOf
    <3>4. QED BY <1>2, <2>1, <2>4, <2>5, <2>6, <3>1, <3>2, <3>3
  <2>8. s \in 0 .. 2 * h - 1
    BY <1>1, <2>3
  <2>9. QED BY <2>7, <2>8 DEF SlotSays, h, s, e, g, back, n
<1>5. CASE r # 0
  <2> DEFINE n == w * h d == -r z == RoundDiv(n, d) m == IF d < 0 THEN -n ELSE n
  <2>1. e \in Nat \ {0} /\ n \in Int /\ d \in {e, -e} /\ r \in {e, -e}
    BY <1>1, <1>2, <1>5
  <2>2. z \in Int /\ -e <= 2 * (z * e - m) /\ 2 * (z * e - m) <= e
    <3> HIDE DEF n, d, e
    <3>1. QED BY <2>1, Rounding
  <2>3. /\ m \in Int /\ -(2 * (h * e)) - g <= 2 * m /\ 2 * m <= 2 * (h * e) + g
        /\ w = r => m = -(h * e)
    <3> HIDE DEF e
    <3>1. /\ ((2 * e + Smallest) + 2 * w) * h >= 0 /\ ((2 * e + Smallest) - 2 * w) * h >= 0
      BY <1>1, <1>2, <1>3
    <3>2. /\ ((2 * e + Smallest) + 2 * w) * h = (2 * (h * e) + h * Smallest) + 2 * n
          /\ ((2 * e + Smallest) - 2 * w) * h = (2 * (h * e) + h * Smallest) - 2 * n
          /\ h * e \in Int /\ h * Smallest \in Int
      BY <1>1, <1>2
    <3> DEFINE b == h * e
    <3>3. w = r => (d < 0 => n = b) /\ (~(d < 0) => n = -b)
      BY <1>1, <1>2, <2>1
    <3>4. b \in Int /\ -(2 * b) - g <= 2 * n /\ 2 * n <= 2 * b + g
      <4> DEFINE up == ((2 * e + Smallest) + 2 * w) * h
                 down == ((2 * e + Smallest) - 2 * w) * h
      <4>1. /\ up >= 0 /\ down >= 0 /\ up = (2 * b + g) + 2 * n /\ down = (2 * b + g) - 2 * n
            /\ b \in Int /\ g \in Int /\ n \in Int
        BY <1>1, <1>2, <2>1, <3>1, <3>2
      <4> HIDE DEF up, down, b, g, n
      <4>2. QED BY <4>1
    <3> HIDE DEF b, n, d, g
    <3>5. QED BY <1>2, <2>1, <3>3, <3>4 DEF b
  <2>4. s = Max({0, Min({z + h, 2 * h - 1})})
    BY <1>5 DEF Slot, h
  <2> HIDE DEF z
  <2> DEFINE t == IF z + h < 0 THEN 0 ELSE IF 2 * h <= z + h THEN 2 * h - 1 ELSE z + h
  <2>5. /\ t \in 0 .. 2 * h - 1
        /\ -(2 * e) - g <= 2 * ((t - h) * e - m) /\ 2 * ((t - h) * e - m) <= 2 * e + g
        /\ m = -(h * e) => t = 0
    <3> HIDE DEF m, e, g
    <3>1. QED BY <1>1, <1>2, <2>1, <2>2, <2>3, Clamped
  <2>6. s = t
    <3> DEFINE a == z + h b == 2 * h - 1 x == Min({a, b})
    <3>1. a \in Int /\ b \in Nat /\ t = (IF a < 0 THEN 0 ELSE IF b < a THEN b ELSE a)
      BY <1>1, <2>2
    <3> HIDE DEF a, b, t
    <3>2. x = IF a <= b THEN a ELSE b
      BY <3>1, TwoOf
    <3>3. x \in Int
      BY <3>1, <3>2
    <3> HIDE DEF x
    <3>4. Max({0, x}) = IF 0 <= x THEN x ELSE 0
      BY <3>3, TwoOf
    <3>5. Max({0, x}) = t
      BY <3>1, <3>2, <3>3, <3>4
    <3>6. QED BY <2>4, <3>5 DEF a, b, x
  <2> DEFINE u == (t - h) * e
  <2>7. t \in Int /\ u \in Int /\ (m = -(h * e) => u = -(h * e)) /\ -(h * e) <= u /\ u <= h * e
    <3>1. t \in 0 .. 2 * h - 1 /\ (m = -(h * e) => t = 0)
      BY <2>5
    <3> HIDE DEF t, m, e
    <3>2. t * e >= 0 /\ (2 * h - t) * e >= 0 /\ t * e \in Int /\ h * e \in Int
      BY <1>1, <1>2, <3>1
    <3>3. (t - h) * e = t * e - h * e /\ (2 * h - t) * e = 2 * (h * e) - t * e
      BY <1>1, <1>2, <3>1
    <3>4. t = 0 => t * e = 0
      BY <1>2
    <3>5. QED BY <1>1, <3>1, <3>2, <3>3, <3>4
  <2>8. back = IF d < 0 THEN -u ELSE u
    <3> HIDE DEF s, t
    <3>1. CASE r = e
      <4>1. d < 0 /\ back = (h - t) * e
        BY <2>1, <2>6, <3>1
      <4>2. (h - t) * e = -u
        BY <1>1, <2>1, <2>7
      <4>3. QED BY <4>1, <4>2
    <3>2. CASE r = -e
      <4>1. ~(d < 0) /\ back = (h - t) * (-e)
        BY <2>1, <2>6, <3>2
      <4>2. (h - t) * (-e) = u
        BY <1>1, <2>1, <2>7
      <4>3. QED BY <4>1, <4>2
    <3>3. QED BY <2>1, <3>1, <3>2
  <2> DEFINE x == u - m y == back - n
  <2>9. /\ x \in Int /\ y \in Int /\ back \in Int /\ y = (IF d < 0 THEN -x ELSE x)
        /\ -(2 * e) - g <= 2 * x /\ 2 * x <= 2 * e + g /\ (w = r => x = 0)
    <3>1. -(2 * e) - g <= 2 * x /\ 2 * x <= 2 * e + g
      BY <2>5
    <3>2. m = (IF d < 0 THEN -n ELSE n) /\ m \in Int /\ n \in Int /\ u \in Int /\ (w = r => u = m)
      BY <2>1, <2>3, <2>7
    <3>3. back = IF d < 0 THEN -u ELSE u
      BY <2>8
    <3>4. x = u - m /\ y = back - n
      OBVIOUS
    <3> HIDE DEF u, m, n, back, x, y, d, e, g
    <3>5. QED BY <3>1, <3>2, <3>3, <3>4
  <2>10. 2 * Abs(y) <= 2 * e + g /\ Abs(back) <= h * e /\ (w = r => back = n)
    <3>1. -(h * e) <= u /\ u <= h * e /\ h * e \in Int
      BY <1>1, <2>1, <2>7
    <3>2. n \in Int /\ back \in Int /\ y = back - n /\ u \in Int
      BY <2>1, <2>7, <2>9
    <3>3. back = IF d < 0 THEN -u ELSE u
      BY <2>8
    <3> DEFINE b == h * e
    <3>4. b \in Int /\ -b <= u /\ u <= b
      BY <3>1
    <3> HIDE DEF u, x, n, back, y, e, g, b, d
    <3>5. /\ Abs(y) = (IF y <= 0 THEN -y ELSE y)
          /\ Abs(back) = (IF back <= 0 THEN -back ELSE back)
      BY <2>9, AbsOf
    <3>6. 2 * Abs(y) <= 2 * e + g
      BY <1>2, <2>9, <3>5
    <3>7. Abs(back) <= b
      BY <3>2, <3>3, <3>4, <3>5
    <3>8. w = r => back = n
      BY <2>9, <3>2
    <3>9. QED BY <3>6, <3>7, <3>8 DEF b
  <2>11. s \in 0 .. 2 * h - 1
    BY <2>5, <2>6
  <2>12. QED BY <2>10, <2>11 DEF SlotSays, h, s, e, g, back, y, n
<1>6. QED BY <1>4, <1>5

\* The unit bfloat16 keeps a number in: nothing is lost below Exact, and above
\* it a number has at least half of Exact units.
Unit(n) == Min({k \in 0 .. Exponents : Abs(n) < Exact * Power[k]})

LEMMA Units ==
  ASSUME NEW n \in Int, Abs(n) < Exact * Power[Exponents]
  PROVE  /\ Unit(n) \in 0 .. Bound /\ Power[Unit(n)] \in Nat \ {0}
         /\ Abs(n) < Exact * Power[Unit(n)]
         /\ \A k \in 0 .. Bound : Abs(n) < Exact * Power[k] => Unit(n) <= k
         /\ Unit(n) # 0 => Exact * Power[Unit(n)] <= 2 * Abs(n)
         /\ BFloat16(n) = RoundDiv(n, Power[Unit(n)]) * Power[Unit(n)]
<1> DEFINE K == {k \in 0 .. Exponents : Abs(n) < Exact * Power[k]}
<1>1. Exponents \in Nat /\ Exact \in Nat \ {0} /\ Bound = Exponents
  BY HeadAssumption DEF Bound
<1>2. K \in SUBSET Int /\ IsFiniteSet(K) /\ K # {}
  <2>1. IsFiniteSet(0 .. Exponents) /\ K \in SUBSET (0 .. Exponents) /\ Exponents \in K
    BY <1>1, FS_Interval
  <2>2. QED BY <1>1, <2>1, FS_Subset
<1>3. Unit(n) \in K /\ \A k \in K : Unit(n) <= k
  BY <1>2, Extremes DEF Unit
<1> DEFINE u == Unit(n)
<1> HIDE DEF u
<1>4. u \in 0 .. Bound /\ Abs(n) < Exact * Power[u]
  BY <1>1, <1>3 DEF u
<1>5. \A k \in 0 .. Bound : Abs(n) < Exact * Power[k] => u <= k
  BY <1>1, <1>3 DEF u
<1>6. Power[u] \in Nat \ {0}
  BY <1>4, Powers
<1>7. u # 0 => Exact * Power[u] <= 2 * Abs(n)
  <2>1. SUFFICES ASSUME u # 0 PROVE Exact * Power[u] <= 2 * Abs(n)
    OBVIOUS
  <2> DEFINE k == u - 1
  <2>2. k \in 0 .. Bound - 1 /\ k \in 0 .. Bound /\ k + 1 = u /\ ~(u <= k)
    BY <1>1, <1>4, <2>1
  <2> HIDE DEF k
  <2>3. Power[u] = 2 * Power[k] /\ Power[k] \in Nat
    BY <2>2, Powers
  <2>4. ~(Abs(n) < Exact * Power[k])
    BY <1>5, <2>2
  <2>5. Abs(n) \in Nat
    BY AbsOf
  <2> DEFINE x == Exact * Power[k]
  <2>6. Exact * Power[u] = 2 * x /\ x \in Int
    BY <1>1, <2>3
  <2> HIDE DEF x
  <2>7. ~(Abs(n) < x)
    BY <2>4 DEF x
  <2>8. QED BY <2>5, <2>6, <2>7
<1>8. BFloat16(n) = RoundDiv(n, Power[u]) * Power[u]
  BY DEF BFloat16, Unit, u
<1>9. QED BY <1>4, <1>5, <1>6, <1>7, <1>8 DEF u

\* A number of Half scales at most loses half a scale at most.
LEMMA BFloat16Near ==
  ASSUME NEW n \in Int, NEW e \in Nat, Abs(n) <= Half * e, Abs(n) < Exact * Power[Exponents]
  PROVE  /\ BFloat16(n) \in Int
         /\ -e <= 2 * (BFloat16(n) - n) /\ 2 * (BFloat16(n) - n) <= e
<1> DEFINE u == Power[Unit(n)] z == RoundDiv(n, u) h == Half a == Abs(n)
<1>1. /\ u \in Nat \ {0} /\ BFloat16(n) = z * u /\ (Unit(n) # 0 => Exact * u <= 2 * a)
      /\ (Unit(n) = 0 => u = 1)
  BY Units, Powers
<1>2. /\ h \in Nat \ {0} /\ Exact \in Nat \ {0} /\ 2 * h <= Exact /\ a \in Nat /\ a <= h * e
      /\ a = (IF n <= 0 THEN -n ELSE n)
  BY Halves, HeadAssumption, FloatAssumption, AbsOf
<1>3. u \in {u, -u} /\ ~(u < 0)
  BY <1>1
<1> HIDE DEF u, h, a
<1>4. z \in Int /\ -u <= 2 * (z * u - n) /\ 2 * (z * u - n) <= u
  BY <1>1, <1>3, Rounding
<1> HIDE DEF z
<1>5. z * u \in Int
  BY <1>1, <1>4
<1>6. CASE Unit(n) = 0
  <2>1. u = 1 /\ z * u = z
    BY <1>1, <1>4, <1>6
  <2>2. z = n
    BY <1>4, <2>1
  <2>3. BFloat16(n) = n
    BY <1>1, <2>1, <2>2
  <2>4. QED BY <2>3
<1>7. CASE Unit(n) # 0
  <2>1. (Exact - 2 * h) * u >= 0 /\ (Exact - 2 * h) * u = Exact * u - 2 * (h * u)
        /\ Exact * u \in Int /\ h * u \in Int
    BY <1>1, <1>2
  <2>2. h * u <= h * e /\ h * e \in Int
    <3> DEFINE x == Exact * u y == h * u b == h * e
    <3>1. x \in Int /\ y \in Int /\ b \in Int /\ 2 * y <= x /\ x <= 2 * a /\ a <= b
      BY <1>1, <1>2, <1>7, <2>1
    <3> HIDE DEF x, y, b
    <3>2. y <= b
      BY <1>2, <3>1
    <3>3. QED BY <3>1, <3>2 DEF y, b
  <2>3. u <= e
    <3>1. SUFFICES ASSUME e + 1 <= u PROVE FALSE
      BY <1>1
    <3>2. (u - (e + 1)) * h >= 0 /\ (u - (e + 1)) * h = h * u - h * e - h
      BY <1>1, <1>2, <3>1
    <3> DEFINE y == h * u b == h * e
    <3>3. y \in Int /\ b \in Int /\ y <= b /\ y - b - h >= 0
      BY <2>1, <2>2, <3>2
    <3> HIDE DEF y, b
    <3>4. QED BY <1>2, <3>3
  <2>4. QED BY <1>1, <1>4, <1>5, <2>3
<1>8. QED BY <1>6, <1>7

\* What bfloat16 holds it holds Half times as large.
LEMMA BFloat16Scales ==
  ASSUME NEW w \in Int, BFloat16(w) = w,
         Abs(w) < Exact * Power[Exponents], Abs(w * Half) < Exact * Power[Exponents]
  PROVE  BFloat16(w * Half) = w * Half
<1> DEFINE p == Bits - 1
           n == w * Power[p]
           a == Unit(w)
           b == Unit(n)
           z == RoundDiv(w, Power[a])
<1>1. p \in 0 .. Bound /\ Half = Power[p] /\ Power[p] \in Nat \ {0} /\ Bound \in Nat
  BY HeadSizes, Powers DEF Half
<1>2. n \in Int /\ n = w * Half
  BY <1>1
<1>3. a \in 0 .. Bound /\ Power[a] \in Nat \ {0} /\ w = z * Power[a] /\ Abs(w) < Exact * Power[a]
  BY Units
<1>4. z \in Int
  <2> DEFINE u == Power[a]
  <2>1. u \in Nat \ {0} /\ u \in {u, -u}
    BY <1>3
  <2> HIDE DEF u
  <2>2. RoundDiv(w, u) \in Int
    BY <2>1, Rounding
  <2>3. QED BY <2>2 DEF u
<1> HIDE DEF n
<1>5. /\ b \in 0 .. Bound /\ Power[b] \in Nat \ {0}
      /\ \A k \in 0 .. Bound : Abs(n) < Exact * Power[k] => b <= k
      /\ BFloat16(n) = RoundDiv(n, Power[b]) * Power[b]
  BY <1>2, Units
<1> HIDE DEF p, a, b, z
<1>6. b <= a + p
  <2>1. SUFFICES ASSUME a + p <= Bound PROVE Abs(n) < Exact * Power[a + p]
    BY <1>1, <1>3, <1>5
  <2>2. Power[a + p] = Power[a] * Power[p]
    BY <1>1, <1>3, <2>1, PowerSum
  <2> DEFINE c == Power[a] h == Power[p] E == Exact w1 == Abs(w)
  <2>3. c \in Nat /\ h \in Nat \ {0} /\ E \in Nat /\ w1 \in Nat /\ w1 < E * c
        /\ w1 = (IF w <= 0 THEN -w ELSE w) /\ n = w * h
    BY <1>1, <1>3, HeadAssumption, AbsOf DEF n
  <2>4. Abs(n) = w1 * h
    <3>1. Abs(n) = IF n <= 0 THEN -n ELSE n
      BY <1>2, AbsOf
    <3> HIDE DEF h, w1
    <3>2. CASE w <= 0
      <4>1. (-w) * h >= 0 /\ (-w) * h = -n
        BY <2>3, <3>2
      <4>2. w1 * h = -n /\ n <= 0
        BY <1>2, <2>3, <3>2, <4>1
      <4>3. QED BY <3>1, <4>2
    <3>3. CASE ~(w <= 0)
      <4>1. w - 1 \in Nat /\ (w - 1) * h >= 0 /\ (w - 1) * h = n - h
        BY <2>3, <3>3
      <4>2. w1 * h = n /\ ~(n <= 0)
        BY <1>2, <2>3, <3>3, <4>1
      <4>3. QED BY <3>1, <4>2
    <3>4. QED BY <3>2, <3>3
  <2> HIDE DEF c, h, E, w1
  <2> DEFINE x == E * c
  <2>5. x \in Nat /\ w1 < x /\ E * (c * h) = x * h
    BY <2>3
  <2> HIDE DEF x
  <2>6. (x - 1 - w1) * h >= 0 /\ (x - 1 - w1) * h = x * h - h - w1 * h /\ x * h \in Int /\ w1 * h \in Int
    BY <2>3, <2>5
  <2> DEFINE y == x * h v == w1 * h
  <2>7. y \in Int /\ v \in Int /\ y - h - v >= 0
    BY <2>6
  <2> HIDE DEF y, v
  <2>8. v < y
    BY <2>3, <2>7
  <2>9. QED BY <2>2, <2>4, <2>5, <2>8 DEF c, h, E, y, v
<1>7. PICK q \in Int : Power[a] * Power[p] = q * Power[b]
  <2>1. CASE b <= a
    <3> DEFINE d == a - b
    <3>1. d \in Nat /\ b \in Nat /\ d + b = a /\ d + b <= Bound /\ d \in 0 .. Bound
      BY <1>1, <1>3, <1>5, <2>1
    <3> HIDE DEF d
    <3>2. Power[a] = Power[d] * Power[b] /\ Power[d] \in Nat
      BY <3>1, PowerSum, Powers
    <3> DEFINE f == Power[a] g == Power[b] x == Power[d] y == Power[p]
    <3>3. f = x * g /\ g \in Int /\ x \in Int /\ y \in Int
      BY <1>1, <1>5, <3>2
    <3> HIDE DEF f, g, x, y
    <3>4. f * y = (x * y) * g /\ x * y \in Int
      BY <3>3
    <3>5. QED BY <3>4 DEF f, g, y
  <2>2. CASE ~(b <= a)
    <3> DEFINE d == b - a c == p - d
    <3>1. /\ d \in Nat /\ c \in Nat /\ a \in Nat /\ a + d = b /\ c + d = p /\ d \in 0 .. Bound
          /\ c \in 0 .. Bound /\ a + d <= Bound /\ c + d <= Bound
      BY <1>1, <1>3, <1>5, <1>6, <2>2
    <3> HIDE DEF d, c
    <3>2. Power[b] = Power[a] * Power[d] /\ Power[p] = Power[c] * Power[d]
          /\ Power[c] \in Nat /\ Power[d] \in Nat
      BY <3>1, PowerSum, Powers
    <3> DEFINE f == Power[a] g == Power[b] x == Power[c] y == Power[d]
    <3>3. g = f * y /\ f \in Int /\ x \in Int /\ y \in Int /\ Power[p] = x * y
      BY <1>3, <3>2
    <3> HIDE DEF f, g, x, y
    <3>4. f * (x * y) = x * (f * y)
      BY <3>3
    <3>5. f * Power[p] = x * g
      BY <3>3, <3>4
    <3>6. QED BY <3>3, <3>5 DEF f, g
  <2>3. QED BY <2>1, <2>2
<1> DEFINE f == Power[a] h == Power[p] g == Power[b] m == z * q
<1>8. f \in Int /\ h \in Int /\ g \in Nat \ {0} /\ f * h = q * g /\ w = z * f /\ n = w * h
  BY <1>1, <1>3, <1>5, <1>7 DEF n
<1>9. m \in Int
  BY <1>4
<1> HIDE DEF f, h, g
<1>10. n = m * g
  <2>1. n = z * (f * h)
    BY <1>4, <1>8
  <2>2. z * (q * g) = m * g
    BY <1>4, <1>8
  <2>3. QED BY <1>8, <2>1, <2>2
<1> HIDE DEF m
<1>11. RoundDiv(m * g, g) = m
  BY <1>8, <1>9, NotRounded
<1>12. BFloat16(n) = RoundDiv(n, g) * g
  BY <1>5 DEF g
<1>13. BFloat16(n) = n
  BY <1>10, <1>11, <1>12
<1>14. QED BY <1>2, <1>13

\* What the hook makes of a slot: the number it says, as bfloat16.
Back(w, r, d) ==
  LET error == Abs(d - w * Half) IN
    /\ 2 * error <= 3 * Abs(r) + Half * Smallest
    /\ w = r => error = 0

LEMMA RowBack ==
  ASSUME NEW w \in Int, NEW p \in Int, NEW s, Within(w, p),
         SlotSays(w, Float16(p), s), BFloat16(w) = w,
         Half * (Abs(w) + Smallest) < Exact * Power[Exponents],
         Half * (Abs(p) + Smallest) < Exact * Power[Exponents]
  PROVE  Back(w, Float16(p), BFloat16((Half - s) * Float16(p)))
<1> DEFINE r == Float16(p)
           h == Half
           e == Abs(r)
           n == (h - s) * r
           v == w * h
           top == Exact * Power[Exponents]
           d == BFloat16(n)
<1>1. h \in Nat \ {0} /\ Smallest \in Nat \ {0} /\ r \in Int /\ e \in Nat
      /\ -Smallest <= 2 * (r - p) /\ 2 * (r - p) <= Smallest /\ top \in Int
  <2>1. Exponents \in 0 .. Bound /\ Exact \in Nat
    BY HeadAssumption DEF Bound
  <2>2. Power[Exponents] \in Nat
    BY <2>1, Powers
  <2>3. top \in Int
    BY <2>1, <2>2
  <2>4. QED BY <2>3, Halves, HeadAssumption, Float16Near, AbsOf
<1>2. s \in 0 .. 2 * h - 1 /\ 2 * Abs(n - v) <= 2 * e + h * Smallest /\ Abs(n) <= h * e
      /\ (w = r => n = v)
  BY DEF SlotSays
<1>3. n \in Int /\ v \in Int
  <2> HIDE DEF r, h
  <2>1. QED BY <1>1, <1>2
<1>4. Abs(n) < top
  <2>1. e <= Abs(p) + Smallest /\ Abs(p) \in Nat
    <3>1. /\ Abs(r) = (IF r <= 0 THEN -r ELSE r)
          /\ Abs(p) = (IF p <= 0 THEN -p ELSE p) /\ Abs(p) \in Nat
      BY <1>1, AbsOf
    <3> HIDE DEF r
    <3>2. QED BY <1>1, <3>1
  <2>2. h * (Abs(p) + Smallest) < top
    OBVIOUS
  <2> DEFINE x == Abs(p) + Smallest
  <2>3. x \in Nat /\ e <= x /\ h * x < top
    BY <1>1, <2>1, <2>2
  <2>4. Abs(n) \in Nat
    BY <1>3, AbsOf
  <2> HIDE DEF h, e, n, top, x, r
  <2>5. (x - e) * h >= 0 /\ (x - e) * h = h * x - h * e /\ h * x \in Int /\ h * e \in Int
    BY <1>1, <2>3
  <2>6. QED BY <1>1, <1>2, <2>3, <2>4, <2>5
<1>5. d \in Int /\ -e <= 2 * (d - n) /\ 2 * (d - n) <= e
  <2>1. Abs(n) <= Half * e /\ Abs(n) < Exact * Power[Exponents]
    BY <1>2, <1>4
  <2> HIDE DEF n, e
  <2>2. QED BY <1>1, <1>3, <2>1, BFloat16Near
<1>6. w = r => d = v
  <2>1. SUFFICES ASSUME w = r PROVE d = v
    OBVIOUS
  <2>2. n = v /\ Abs(v) < top
    BY <1>2, <1>4, <2>1
  <2>3. Abs(w) < top
    <3>1. Abs(w) \in Nat /\ h * (Abs(w) + Smallest) < top
      BY AbsOf
    <3> DEFINE x == Abs(w) + Smallest
    <3>2. x \in Nat /\ Abs(w) <= x /\ h * x < top
      BY <1>1, <3>1
    <3> HIDE DEF x, h, top
    <3>3. (h - 1) * x >= 0 /\ (h - 1) * x = h * x - x /\ h * x \in Int
      BY <1>1, <3>2
    <3>4. QED BY <1>1, <3>1, <3>2, <3>3
  <2>4. BFloat16(v) = v
    BY <2>2, <2>3, BFloat16Scales
  <2>5. QED BY <2>2, <2>4
<1>7. 2 * Abs(d - v) <= 3 * e + h * Smallest /\ (w = r => Abs(d - v) = 0)
  <2> DEFINE g == h * Smallest x == d - v y == n - v
  <2>1. g \in Nat /\ x \in Int /\ y \in Int /\ x = (d - n) + y
    BY <1>1, <1>3, <1>5
  <2>2. Abs(x) = (IF x <= 0 THEN -x ELSE x) /\ Abs(y) = (IF y <= 0 THEN -y ELSE y)
    BY <2>1, AbsOf
  <2>3. 2 * Abs(y) <= 2 * e + g
    BY <1>2
  <2>4. w = r => x = 0
    BY <1>3, <1>6
  <2>5. Abs(0) = 0
    BY AbsOf
  <2> HIDE DEF g, x, y, e, d, n, v, r
  <2>6. 2 * Abs(x) <= 3 * e + g
    BY <1>1, <1>3, <1>5, <2>1, <2>2, <2>3
  <2>7. w = r => Abs(x) = 0
    BY <2>4, <2>5
  <2>8. QED BY <2>6, <2>7 DEF g, x
<1>8. QED BY <1>7 DEF Back

\* A row of the packed head, read back as the hook reads it.
LEMMA PackedBack ==
  ASSUME NEW v \in Rows, NEW c \in 1 .. In, weights \in Heads, PackHead
  PROVE  Back(weights[v][c], packed'.scales[v][GroupOf(c)], Dequantized(v)'[c])
<1> DEFINE row == weights[v]
           k == (c - 1) \div Pack
           i == (c - 1) % Pack
           slot(d) == Slot(row[d], Float16(Picked(row, GroupOf(d))))
           numbers == [j \in 1 .. Pack |-> slot(k * Pack + j)]
           p == Picked(row, GroupOf(c))
           r == Float16(p)
           s == slot(c)
<1>1. row \in [1 .. In -> Int]
  BY HeadAssumption DEF Rows
<1>2. /\ k \in 0 .. (In \div Pack) - 1 /\ i \in 0 .. Pack - 1 /\ k * Pack + i + 1 = c
      /\ GroupOf(c) \in Groups
  BY ColumnsOfHead
<1>3. packed'.qweight[k][v] = Word(numbers)
  BY <1>2 DEF PackHead
<1>4. packed'.zp = Half - 1 /\ packed'.scales[v][GroupOf(c)] = r
  BY <1>2 DEF PackHead
<1>5. Dequantized(v)'[c] = BFloat16((packed'.zp + 1 - Field(packed'.qweight[k][v], i))
                                      * packed'.scales[v][GroupOf(c)])
  BY DEF Dequantized
<1>6. \A d \in 1 .. In :
        /\ BFloat16(row[d]) = row[d]
        /\ Half * (Abs(row[d]) + Smallest) < Exact * Power[Exponents]
  BY FloatAssumption
<1> HIDE DEF row
<1>7. ASSUME NEW d \in 1 .. In
      PROVE  SlotSays(row[d], Float16(Picked(row, GroupOf(d))), slot(d))
  <2> DEFINE w == row[d] q == Picked(row, GroupOf(d))
  <2>1. w \in Int /\ q \in Int /\ Within(w, q)
    BY <1>1, PickedLargest
  <2> HIDE DEF w, q
  <2> DEFINE f == Float16(q)
  <2>2. f \in Int /\ Close(w, f)
    BY <2>1, CloseToScale
  <2> HIDE DEF f
  <2>3. SlotSays(w, f, Slot(w, f))
    BY <2>1, <2>2, SlotBack
  <2>4. QED BY <2>3 DEF w, q, f
<1>8. ASSUME NEW j \in 1 .. Pack
      PROVE  k * Pack + j \in 1 .. In
  <2> DEFINE n == In \div Pack a == k * Pack b == n * Pack
  <2>1. Pack \in Nat \ {0} /\ In \in Nat
    BY HeadSizes
  <2>2. n \in Int /\ b <= In /\ b \in Int
    BY <2>1
  <2>3. k \in Nat /\ n - 1 - k \in Nat
    BY <1>2, <2>2
  <2> HIDE DEF k, n
  <2>4. (n - 1 - k) * Pack >= 0 /\ (n - 1 - k) * Pack = b - Pack - a /\ a \in Nat
    BY <2>1, <2>2, <2>3
  <2> HIDE DEF a, b
  <2>5. a + j \in 1 .. In
    BY <2>1, <2>2, <2>4
  <2>6. QED BY <2>5 DEF a
<1>9. numbers \in [1 .. Pack -> 0 .. 2 * Half - 1]
  <2>1. \A d \in 1 .. In : slot(d) \in 0 .. 2 * Half - 1
    BY <1>7 DEF SlotSays
  <2>2. \A j \in 1 .. Pack : slot(k * Pack + j) \in 0 .. 2 * Half - 1
    BY <1>8, <2>1
  <2> HIDE DEF slot, k
  <2>3. QED BY <2>2
<1> DEFINE j == i + 1
<1>10. j \in 1 .. Pack /\ j - 1 = i /\ k * Pack + j = c
  <2> DEFINE a == k * Pack
  <2>1. a \in Int
    BY <1>2, HeadSizes
  <2> HIDE DEF k, i, a
  <2>2. j \in 1 .. Pack /\ j - 1 = i
    BY <1>2, HeadSizes
  <2>3. a + (i + 1) = a + i + 1
    BY <1>2, <2>1
  <2>4. QED BY <1>2, <2>2, <2>3 DEF a
<1>11. numbers[j] = s
  <2> HIDE DEF slot, k, j
  <2>1. QED BY <1>10
<1> HIDE DEF numbers, slot
<1>12. Field(Word(numbers), i) = s
  <2> HIDE DEF j
  <2>1. Field(Word(numbers), j - 1) = numbers[j]
    BY <1>9, <1>10, FieldOfWord
  <2>2. QED BY <1>10, <1>11, <2>1
<1>13. s \in Int /\ SlotSays(row[c], r, s)
  BY <1>7 DEF SlotSays, slot
<1>14. PICK d \in 1 .. In : p = row[d]
  BY <1>1, PickedLargest
<1> DEFINE h == Half
<1> HIDE DEF k, i, s, r, h
<1>15. Dequantized(v)'[c] = BFloat16((h - 1 + 1 - s) * r)
  BY <1>3, <1>4, <1>5, <1>12 DEF h
<1>16. h - 1 + 1 - s = h - s
  BY <1>13, Halves DEF h
<1>17. Back(row[c], r, BFloat16((h - s) * r))
  <2>1. /\ row[c] \in Int /\ p \in Int /\ Within(row[c], p) /\ BFloat16(row[c]) = row[c]
        /\ Half * (Abs(row[c]) + Smallest) < Exact * Power[Exponents]
    BY <1>1, <1>6, PickedLargest
  <2>2. Half * (Abs(p) + Smallest) < Exact * Power[Exponents]
    BY <1>6, <1>14
  <2> HIDE DEF p
  <2> DEFINE w == row[c]
  <2>3. w \in Int /\ Within(w, p) /\ BFloat16(w) = w /\ SlotSays(w, Float16(p), s)
        /\ Half * (Abs(w) + Smallest) < Exact * Power[Exponents]
    BY <1>13, <2>1 DEF r
  <2> HIDE DEF w
  <2>4. Back(w, Float16(p), BFloat16((Half - s) * Float16(p)))
    BY <2>1, <2>2, <2>3, RowBack
  <2>5. QED BY <2>4 DEF w, r, h
<1>18. Back(row[c], packed'.scales[v][GroupOf(c)], Dequantized(v)'[c])
  BY <1>4, <1>15, <1>16, <1>17
<1>19. QED BY <1>18 DEF row

\* A packed head stays as it is, and is looked at only right after packing.
BackInv == weights \in Heads /\ WeightsComeBack

\* Every weight of the head comes back from quantize() and _dv_gptq_rows()
\* within one and a half steps of its scale and what the scale was rounded by,
\* whatever the rows, the group, the bits and the word, and one of Half whole
\* steps comes back exact.
THEOREM PackedWeightsComeBack == DraftSpec => []WeightsComeBack
<1>1. DraftInit => BackInv
  BY DEF DraftInit, BackInv, WeightsComeBack
<1>2. BackInv /\ [DraftNext]_draftVars => BackInv'
  <2> SUFFICES ASSUME BackInv, [DraftNext]_draftVars PROVE BackInv'
    OBVIOUS
  <2>1. weights \in Heads /\ WeightsComeBack
    BY DEF BackInv
  <2>2. CASE PackHead
    <3>1. weights' = weights
      BY <2>2 DEF PackHead
    <3>2. WeightsComeBack'
      <4>1. ASSUME NEW v \in Rows, NEW c \in 1 .. In
            PROVE  LET scale == packed'.scales[v][GroupOf(c)]
                       error == Abs(Dequantized(v)'[c] - weights'[v][c] * Half)
                   IN /\ 2 * error <= 3 * Abs(scale) + Half * Smallest
                      /\ weights'[v][c] = scale => error = 0
        BY <2>1, <2>2, <3>1, PackedBack DEF Back
      <4>2. QED BY <4>1 DEF WeightsComeBack
    <3>3. QED BY <2>1, <3>1, <3>2 DEF BackInv
  <2>3. CASE ChooseIds
    BY <2>1, <2>3 DEF ChooseIds, BackInv, WeightsComeBack
  <2>4. CASE LoadIds
    BY <2>1, <2>4 DEF LoadIds, BackInv, WeightsComeBack
  <2>5. CASE AddChunk
    BY <2>1, <2>5 DEF AddChunk, BackInv, WeightsComeBack
  <2>6. CASE ComputeLogits
    BY <2>1, <2>6 DEF ComputeLogits, BackInv, WeightsComeBack
  <2>7. CASE UNCHANGED draftVars
    <3>1. weights' = weights /\ packed' = packed /\ step' = step
      BY <2>7 DEF draftVars
    <3>2. \A v : Dequantized(v)' = Dequantized(v)
      BY <3>1 DEF Dequantized
    <3>3. WeightsComeBack'
      BY <2>1, <3>1, <3>2 DEF WeightsComeBack
    <3>4. QED BY <2>1, <3>1, <3>3 DEF BackInv
  <2>8. QED BY <2>2, <2>3, <2>4, <2>5, <2>6, <2>7 DEF DraftNext
<1>3. BackInv => WeightsComeBack
  BY DEF BackInv
<1>4. QED BY <1>1, <1>2, <1>3, PTL DEF DraftSpec

=============================================================================
