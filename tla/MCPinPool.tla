----------------------------- MODULE MCPinPool -----------------------------
(* The pin pool alone, driven by every legal sequence of calls.            *)
EXTENDS PinPool, TLC

PoolSymmetry == Permutations(Blocks) \cup Permutations(Hashes)
=============================================================================
