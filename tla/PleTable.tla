------------------------------ MODULE PleTable ------------------------------
(***************************************************************************)
(* src/src/vllm_ple_mmap.py: the n-gram table of a model layer, split into *)
(* shard files, and the gather of rows from it: accepted or refused at     *)
(* start, read inline for few ids, else deduplicated, sorted, cut into     *)
(* tasks that a thread pool runs in any order, and expanded again.         *)
(* The content of a row is its global id.                                  *)
(***************************************************************************)
EXTENDS Sorting, Sequences, SequencesExt

CONSTANTS
  Vocab,     \* rows the model asks for (org_vocab_size)
  Tables,    \* [parts, rows]: expected shards, and shard -> rows found
  IdLists,   \* ids looked up in one call
  FastRows,  \* VLLM_PLE_MMAP_FAST_ROWS
  Chunk,     \* VLLM_PLE_MMAP_CHUNK
  Workers    \* threads of the pool

ASSUME TableAssumption ==
  /\ Vocab \in Nat \ {0} /\ FastRows \in Nat /\ Chunk \in Nat \ {0}
  /\ \A t \in Tables : t.parts \in Nat \ {0} /\ DOMAIN t.rows # {}
  /\ IdLists \subseteq Seq(Int)

VARIABLES
  files,   \* the table on disk, one of Tables
  pc,      \* "setup", "call", "gather", "wait", "done", "refused", "failed"
  wanted,  \* ids of the call
  ids,     \* ids to gather: as wanted, or deduplicated by forward()
  tasks,   \* [first, last] ranges of ids not yet taken
  task,    \* worker -> the task it runs, or Idle
  out      \* rows gathered so far, position by position

vars == <<files, pc, wanted, ids, tasks, task, out>>

Idle == <<>>
Unset == -2
Error == -3

CeilDiv(a, b) == (a + b - 1) \div b
MostOf(S) == CHOOSE m \in S : \A x \in S : x <= m

ShardSize == CeilDiv(Vocab, files.parts)
Shard(id) == id \div ShardSize
Local(id) == id - Shard(id) * ShardSize

\* len(self.mm): indices up to the largest shard found.
Slots == MostOf(DOMAIN files.rows) + 1

\* mm[shard][local]; a negative index counts from the end.
Read(id) ==
  LET slot == IF Shard(id) < 0 THEN Slots + Shard(id) ELSE Shard(id) IN
    IF slot \in DOMAIN files.rows /\ Local(id) < files.rows[slot]
    THEN slot * ShardSize + Local(id)
    ELSE Error

Init ==
  /\ files \in Tables /\ wanted \in IdLists
  /\ pc = "setup" /\ ids = <<>> /\ tasks = {} /\ out = <<>>
  /\ task = [w \in Workers |-> Idle]

-----------------------------------------------------------------------------
(* _setup_table().                                                         *)

\* Mutant: the rows of a shard are not compared.
WholeUncounted ==
  DOMAIN files.rows = 0 .. files.parts - 1

\* Every part is there, and has the rows its place in the table calls for.
Whole ==
  /\ DOMAIN files.rows = 0 .. files.parts - 1
  /\ \A i \in DOMAIN files.rows :
       files.rows[i] = IF Vocab < i * ShardSize THEN 0 ELSE Least(ShardSize, Vocab - i * ShardSize)

Setup ==
  /\ pc = "setup"
  /\ pc' = IF Whole THEN "call" ELSE "refused"
  /\ UNCHANGED <<files, wanted, ids, tasks, task, out>>

-----------------------------------------------------------------------------
(* The callers: forward() deduplicates, the prefetch worker does not.      *)

Call ==
  /\ pc = "call"
  /\ ids' \in {Sorted(ToSet(wanted)), wanted}
  /\ pc' = "gather"
  /\ UNCHANGED <<files, wanted, tasks, task, out>>

-----------------------------------------------------------------------------
(* _gather().                                                              *)

\* Mutant: a negative id is not refused.
InRangeUpperOnly(list) == \A i \in DOMAIN list : list[i] < ShardSize * Slots

InRange(list) == \A i \in DOMAIN list : 0 <= list[i] /\ list[i] < ShardSize * Slots

\* Few ids: inline, shard by shard.
GatherFast ==
  /\ pc = "gather" /\ Len(ids) <= FastRows
  /\ LET got == [i \in DOMAIN ids |-> Read(ids[i])] IN
       IF InRange(ids) /\ \A i \in DOMAIN got : got[i] # Error
       THEN out' = got /\ pc' = "done"
       ELSE pc' = "failed" /\ UNCHANGED out
  /\ UNCHANGED <<files, wanted, ids, tasks, task>>

\* Positions of u that lie in the shard of position p.
Run(u, p) == {q \in DOMAIN u : Shard(u[q]) = Shard(u[p])}

FirstOf(S) == CHOOSE m \in S : \A x \in S : m <= x

\* Runs of one shard, cut into chunks.
Cuts(u) ==
  {[first |-> p, last |-> Least(p + Chunk - 1, MostOf(Run(u, p)))] :
     p \in {q \in DOMAIN u : (q - FirstOf(Run(u, q))) % Chunk = 0}}

\* Many ids: sorted and without duplicates, and then as tasks.
GatherPooled ==
  /\ pc = "gather" /\ Len(ids) > FastRows
  /\ LET u == Sorted(ToSet(ids)) IN
       IF InRange(u)
       THEN /\ ids' = u /\ tasks' = Cuts(u) /\ pc' = "wait"
            /\ out' = [i \in DOMAIN u |-> Unset]
       ELSE pc' = "failed" /\ UNCHANGED <<ids, tasks, out>>
  /\ UNCHANGED <<files, wanted, task>>

Take(w) ==
  /\ task[w] = Idle
  /\ \E t \in tasks : task' = [task EXCEPT ![w] = t] /\ tasks' = tasks \ {t}
  /\ UNCHANGED <<files, pc, wanted, ids, out>>

\* out[a:b] = mm[local[a:b]] with the mapping of the first row's shard; an
\* exception reaches the caller, and the rest of the tasks are of no use.
RunTask(w) ==
  /\ task[w] # Idle
  /\ LET range == task[w].first .. task[w].last IN
       IF \A p \in range : Read(ids[p]) # Error /\ Shard(ids[p]) = Shard(ids[task[w].first])
       THEN /\ out' = [p \in DOMAIN out |-> IF p \in range THEN Read(ids[p]) ELSE out[p]]
            /\ UNCHANGED pc
       ELSE pc' = "failed" /\ UNCHANGED out
  /\ task' = [task EXCEPT ![w] = Idle]
  /\ UNCHANGED <<files, wanted, ids, tasks>>

\* Every task is done.
Collect ==
  /\ pc = "wait" /\ tasks = {} /\ \A w \in Workers : task[w] = Idle
  /\ pc' = "done"
  /\ UNCHANGED <<files, wanted, ids, tasks, task, out>>

-----------------------------------------------------------------------------

Next == Setup \/ Call \/ GatherFast \/ GatherPooled \/ Collect
        \/ \E w \in Workers : Take(w) \/ RunTask(w)

Spec == Init /\ [][Next]_vars

-----------------------------------------------------------------------------
(* Correctness.                                                            *)

\* out[inverse]: what the caller gets for the i-th id it wanted.
Result(i) ==
  LET p == CHOOSE q \in DOMAIN ids : ids[q] = wanted[i] IN out[p]

\* Deduplicated, sorted, cut and expanded, each id gets its own row; an id
\* outside the table is an error, never the row of another id.
OwnRow == pc = "done" => \A i \in DOMAIN wanted : Result(i) = wanted[i]

\* A table that was accepted serves every id of the model: no missing or
\* short file is left to be found in the middle of a request.
AcceptedServes ==
  (\A i \in DOMAIN wanted : wanted[i] \in 0 .. Vocab - 1) => pc # "failed"

=============================================================================
