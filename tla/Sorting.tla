------------------------------ MODULE Sorting ------------------------------
(* Sorted ids: np.unique() in src/src/vllm_ple_mmap.py, sorted() in         *)
(* src/tools/build_draft_vocab.py and src/src/mamba_utils_guarded.py.       *)
EXTENDS Integers, FiniteSets

Least(a, b) == IF a < b THEN a ELSE b

\* The i-th of the sorted numbers is the one with i - 1 below it.
Sorted(S) ==
  [i \in 1 .. Cardinality(S) |-> CHOOSE n \in S : Cardinality({m \in S : m < n}) = i - 1]

=============================================================================
