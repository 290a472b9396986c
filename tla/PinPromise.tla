----------------------------- MODULE PinPromise -----------------------------
(***************************************************************************)
(* What the never-evict pin promises, without queues, reference counts or  *)
(* loans: a set of armed hashes, and for some of them a block that keeps   *)
(* the content.  Blocks come and go in the cache freely, but a promised    *)
(* block changes its content only when the pin is replaced.                *)
(***************************************************************************)
EXTENDS Integers, FiniteSets

CONSTANTS Blocks, Hashes, None

VARIABLES
  armed,    \* the hashes to be kept
  cap,      \* how many may be kept
  keeper,   \* hash -> the block that keeps it, or None
  content   \* block -> the hash it caches, or None

promiseVars == <<armed, cap, keeper, content>>

KeptHashes(k) == {h \in Hashes : k[h] # None}

\* A promise is given only for armed hashes, to a block with that content,
\* and for at most n hashes.
Honest(k, A, n, c) ==
  /\ k \in [Hashes -> Blocks \cup {None}]
  /\ \A h \in KeptHashes(k) : h \in A /\ c[k[h]] = h
  /\ Cardinality(KeptHashes(k)) <= n

PromiseInit ==
  /\ armed = {}
  /\ cap = 0
  /\ keeper = [h \in Hashes |-> None]
  /\ content = [b \in Blocks |-> None]

\* Replacing the pin gives no new promise, and breaks old ones only then.
Replace ==
  /\ armed' \in SUBSET Hashes
  /\ \A h \in KeptHashes(keeper') : keeper'[h] = keeper[h]
  /\ Honest(keeper', armed', cap', content')

\* Between replacements promises are only added.
Keep ==
  /\ UNCHANGED <<armed, cap>>
  /\ \A h \in KeptHashes(keeper) : keeper'[h] = keeper[h]
  /\ Honest(keeper', armed, cap, content')

PromiseNext == Replace \/ Keep

PromiseSpec == PromiseInit /\ [][PromiseNext]_promiseVars
=============================================================================
