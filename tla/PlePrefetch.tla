---------------------------- MODULE PlePrefetch ----------------------------
(***************************************************************************)
(* The PLE row prefetch of src/src/vllm_ple_mmap: PrefetchingMmapTable and *)
(* its synchronous fallback.                                               *)
(*                                                                         *)
(* Three parties work on two pinned slots of ids and rows:                 *)
(*   - the main thread hashes a batch early (prefetch), and consumes the   *)
(*     rows in the layer's lookup op;                                      *)
(*   - a worker thread gathers the rows of a slot's ids from the mmap;     *)
(*   - the GPU stream runs the copies in the order the main thread issued  *)
(*     them, ids out of the device and rows into it.                       *)
(* Nothing but the order of events keeps one from overwriting what another *)
(* still reads, and both waits of the main thread give up after 5 s.       *)
(*                                                                         *)
(* A batch is a number; the content of a buffer is the batch whose ids or  *)
(* rows it holds.  A copy takes two steps, so a buffer rewritten under it  *)
(* yields Torn.                                                            *)
(***************************************************************************)
EXTENDS Integers, Sequences, FiniteSets

CONSTANTS
  MaxBatch,   \* bound: batches in a behaviour
  Sizes,      \* row counts a batch may have
  SlotRows    \* _SLOT: rows a slot holds

ASSUME PlePrefetchAssumption ==
  /\ MaxBatch \in Nat \ {0}
  /\ Sizes \subseteq Nat
  /\ SlotRows \in Nat \ {0}

VARIABLES
  mpc,        \* where the main thread is
  batch,      \* the batch it works on, 0 before the first
  size,       \* batch -> rows it looks up
  slot,       \* _slot: the slot the next prefetch takes
  jobs,       \* _jobs: slot -> the batch whose job was put there last, or 0
  pending,    \* _pending: the batch whose job consume() will take, or 0
  taking,     \* the job consume() waits for
  queue,      \* _q
  jobSlot,    \* batch -> the slot of its job
  jobState,   \* batch -> "none", "open", "ok" or "failed" (done and ok flags)
  idsBuf, rowsBuf,   \* ids_t and rows_t per slot
  stage,      \* the pinned staging buffer of the fallback
  wpc, wjob, wread,  \* worker: position, its job, what it read of the ids
  stream,     \* copies and events the GPU has yet to run
  gpu,        \* what the running copy has read, or Idle
  evDone,     \* batches whose ids have reached their slot
  out         \* batch -> what its lookup delivered to the device

vars == <<mpc, batch, size, slot, jobs, pending, taking, queue, jobSlot, jobState,
          idsBuf, rowsBuf, stage, wpc, wjob, wread, stream, gpu, evDone, out>>

Slots == {0, 1}
Batches == 1 .. MaxBatch
Torn == -1       \* content of a buffer that is being rewritten
Idle == -2       \* no copy is running
Content == Batches \cup {0, Torn}

Ops == [op : {"ids"}, slot : Slots, batch : Batches]
       \cup [op : {"rows"}, slot : Slots, batch : Batches]
       \cup [op : {"stage"}, batch : Batches]
       \cup [op : {"event"}, batch : Batches]

TypeOK ==
  /\ mpc \in {"idle", "prefetch", "waitSlot", "lookup", "waitJob", "fallback",
              "raised"}
  /\ batch \in 0 .. MaxBatch
  /\ size \in [Batches -> Nat]
  /\ slot \in Slots
  /\ jobs \in [Slots -> Batches \cup {0}]
  /\ pending \in Batches \cup {0} /\ taking \in Batches \cup {0}
  /\ queue \in Seq(Batches)
  /\ jobSlot \in [Batches -> Slots]
  /\ jobState \in [Batches -> {"none", "open", "ok", "failed"}]
  /\ idsBuf \in [Slots -> Content] /\ rowsBuf \in [Slots -> Content]
  /\ stage \in Content
  /\ wpc \in {"get", "sync", "read", "write"}
  /\ wjob \in Batches \cup {0} /\ wread \in Content
  /\ stream \in Seq(Ops)
  /\ gpu \in Content \cup {Idle}
  /\ evDone \in SUBSET Batches
  /\ out \in [Batches -> Content]

Init ==
  /\ mpc = "idle" /\ batch = 0
  /\ size = [b \in Batches |-> 0]
  /\ slot = 0 /\ jobs = [s \in Slots |-> 0] /\ pending = 0 /\ taking = 0 /\ queue = <<>>
  /\ jobSlot = [b \in Batches |-> 0]
  /\ jobState = [b \in Batches |-> "none"]
  /\ idsBuf = [s \in Slots |-> 0] /\ rowsBuf = [s \in Slots |-> 0] /\ stage = 0
  /\ wpc = "get" /\ wjob = 0 /\ wread = 0
  /\ stream = <<>> /\ gpu = Idle /\ evDone = {}
  /\ out = [b \in Batches |-> 0]

workerVars == <<wpc, wjob, wread>>
gpuVars == <<idsBuf, gpu, evDone, out>>
jobVars == <<jobs, queue, jobSlot, jobState>>

Done(b) == jobState[b] \in {"ok", "failed"}

-----------------------------------------------------------------------------
(* Main thread.                                                            *)

\* prepare_inputs(): a new batch of n rows.  Dummy and capture runs do not
\* pass the hook and go straight to the lookup.
NewBatch(n) ==
  /\ mpc = "idle" /\ batch < MaxBatch
  /\ batch' = batch + 1
  /\ size' = [size EXCEPT ![batch + 1] = n]
  /\ mpc' \in {"prefetch", "lookup"}
  /\ UNCHANGED <<slot, pending, taking, jobVars, rowsBuf, stage, workerVars, stream, gpuVars>>

\* prefetch(): nothing to do, or more than a slot holds; otherwise the slot
\* is taken before it is known to be free.
Prefetch ==
  /\ mpc = "prefetch"
  /\ IF size[batch] = 0 \/ size[batch] > SlotRows
     THEN mpc' = "lookup" /\ UNCHANGED slot
     ELSE mpc' = "waitSlot" /\ slot' = 1 - slot
  /\ UNCHANGED <<batch, size, pending, taking, jobVars, rowsBuf, stage, workerVars, stream, gpuVars>>

Taken == 1 - slot   \* the slot this prefetch took

SlotBusy == jobs[Taken] # 0 /\ ~Done(jobs[Taken])

\* The slot's last job is done: copy the ids into it, and queue the job.
SlotFree ==
  /\ mpc = "waitSlot" /\ ~SlotBusy
  /\ stream' = stream \o <<[op |-> "ids", slot |-> Taken, batch |-> batch],
                           [op |-> "event", batch |-> batch]>>
  /\ jobs' = [jobs EXCEPT ![Taken] = batch]
  /\ jobSlot' = [jobSlot EXCEPT ![batch] = Taken]
  /\ jobState' = [jobState EXCEPT ![batch] = "open"]
  /\ pending' = batch
  /\ queue' = Append(queue, batch)
  /\ mpc' = "lookup"
  /\ UNCHANGED <<batch, size, slot, taking, rowsBuf, stage, workerVars, gpuVars>>

\* 5 s are over and it is not: this batch is not prefetched.
SlotStuck ==
  /\ mpc = "waitSlot" /\ SlotBusy
  /\ mpc' = "lookup"
  /\ UNCHANGED <<batch, size, slot, pending, taking, jobVars, rowsBuf, stage, workerVars, stream, gpuVars>>

\* Mutant: the pending job is left in place.
ConsumeKeepsPending(want) ==
  /\ mpc = "lookup"
  /\ taking' = pending
  /\ mpc' = IF pending # 0 /\ size[pending] = want THEN "waitJob" ELSE "fallback"
  /\ UNCHANGED <<batch, size, slot, pending, jobVars, rowsBuf, stage, workerVars, stream, gpuVars>>

\* consume(), up to its wait: the pending job is taken in any case, and is
\* of use if its row count is the one wanted (a padded batch wants more).
Consume(want) ==
  /\ mpc = "lookup"
  /\ taking' = pending
  /\ pending' = 0
  /\ mpc' = IF pending # 0 /\ size[pending] = want THEN "waitJob" ELSE "fallback"
  /\ UNCHANGED <<batch, size, slot, jobVars, rowsBuf, stage, workerVars, stream, gpuVars>>

\* consume(), after its wait: the copy of the rows is issued, not awaited.
RowsReady ==
  /\ mpc = "waitJob" /\ Done(taking)
  /\ IF jobState[taking] = "ok"
     THEN /\ stream' = Append(stream, [op |-> "rows", slot |-> jobSlot[taking],
                                       batch |-> batch])
          /\ mpc' = "idle"
     ELSE mpc' = "fallback" /\ UNCHANGED stream
  /\ UNCHANGED <<batch, size, slot, pending, taking, jobVars, rowsBuf, stage, workerVars, gpuVars>>

\* Mutant: consume() waits without a time-out.
RowsNeverLate == FALSE

RowsLate ==
  /\ mpc = "waitJob" /\ ~Done(taking)
  /\ mpc' = "fallback"
  /\ UNCHANGED <<batch, size, slot, pending, taking, jobVars, rowsBuf, stage, workerVars, stream, gpuVars>>

\* The synchronous lookup: its blocking copy of the ids drains the stream,
\* then the rows are gathered into the staging buffer and sent off.
StreamDrained == stream = <<>> /\ gpu = Idle

Fallback ==
  /\ mpc = "fallback" /\ StreamDrained
  /\ stage' = batch
  /\ stream' = Append(stream, [op |-> "stage", batch |-> batch])
  /\ mpc' = "idle"
  /\ UNCHANGED <<batch, size, slot, pending, taking, jobVars, rowsBuf, workerVars, gpuVars>>

\* Its gather finds an id out of range or a shard missing: the error leaves the
\* lookup, and the engine runs no batch after it.
GatherRaises ==
  /\ mpc = "fallback" /\ StreamDrained
  /\ mpc' = "raised"
  /\ UNCHANGED <<batch, size, slot, pending, taking, jobVars, rowsBuf, stage, workerVars, stream, gpuVars>>

-----------------------------------------------------------------------------
(* Worker thread.                                                          *)

WorkerGet ==
  /\ wpc = "get" /\ queue # <<>>
  /\ wjob' = Head(queue) /\ queue' = Tail(queue)
  /\ wpc' = "sync"
  /\ UNCHANGED <<mpc, batch, size, slot, pending, taking, jobs, jobSlot, jobState, rowsBuf, stage, wread,
                 stream, gpuVars>>

\* Mutant: the worker does not wait for the copy of the ids.
WorkerSyncsNot ==
  /\ wpc = "sync"
  /\ wpc' = "read"
  /\ UNCHANGED <<mpc, batch, size, slot, pending, taking, jobVars, rowsBuf, stage, wjob, wread, stream,
                 gpuVars>>

\* ev.synchronize(): the ids are in the slot.
WorkerSync ==
  /\ wpc = "sync" /\ wjob \in evDone
  /\ wpc' = "read"
  /\ UNCHANGED <<mpc, batch, size, slot, pending, taking, jobVars, rowsBuf, stage, wjob, wread, stream,
                 gpuVars>>

\* The gather reads the ids, then the rows go into the slot.
WorkerRead ==
  /\ wpc = "read"
  /\ wread' = idsBuf[jobSlot[wjob]]
  /\ rowsBuf' = [rowsBuf EXCEPT ![jobSlot[wjob]] = Torn]
  /\ wpc' = "write"
  /\ UNCHANGED <<mpc, batch, size, slot, pending, taking, jobVars, stage, wjob, stream, gpuVars>>

WorkerWrite ==
  /\ wpc = "write"
  /\ rowsBuf' = [rowsBuf EXCEPT ![jobSlot[wjob]] = wread]
  /\ jobState' = [jobState EXCEPT ![wjob] = "ok"]
  /\ wpc' = "get"
  /\ UNCHANGED <<mpc, batch, size, slot, pending, taking, jobs, queue, jobSlot, stage, wjob, wread, stream,
                 gpuVars>>

\* Any exception of the gather: ok stays False, done is set all the same.
WorkerFail ==
  /\ wpc \in {"sync", "read", "write"}
  /\ jobState' = [jobState EXCEPT ![wjob] = "failed"]
  /\ wpc' = "get"
  /\ UNCHANGED <<mpc, batch, size, slot, pending, taking, jobs, queue, jobSlot, rowsBuf, stage, wjob, wread,
                 stream, gpuVars>>

-----------------------------------------------------------------------------
(* The GPU stream.                                                         *)

Source(o) == CASE o.op = "ids"   -> o.batch
               [] o.op = "rows"  -> rowsBuf[o.slot]
               [] o.op = "stage" -> stage
               [] OTHER          -> 0

\* The copy at the head of the stream starts reading its source.
CopyStart ==
  /\ gpu = Idle /\ stream # <<>> /\ Head(stream).op # "event"
  /\ gpu' = Source(Head(stream))
  /\ idsBuf' = IF Head(stream).op = "ids"
               THEN [idsBuf EXCEPT ![Head(stream).slot] = Torn] ELSE idsBuf
  /\ UNCHANGED <<mpc, batch, size, slot, pending, taking, jobVars, rowsBuf, stage, workerVars, stream,
                 evDone, out>>

\* It ends; what it delivers is whole if the source is still what it was.
CopyEnd ==
  /\ gpu # Idle
  /\ LET o == Head(stream)
         got == IF Source(o) = gpu THEN gpu ELSE Torn
     IN IF o.op = "ids"
        THEN idsBuf' = [idsBuf EXCEPT ![o.slot] = got] /\ UNCHANGED out
        ELSE out' = [out EXCEPT ![o.batch] = got] /\ UNCHANGED idsBuf
  /\ gpu' = Idle
  /\ stream' = Tail(stream)
  /\ UNCHANGED <<mpc, batch, size, slot, pending, taking, jobVars, rowsBuf, stage, workerVars, evDone>>

EventDone ==
  /\ gpu = Idle /\ stream # <<>> /\ Head(stream).op = "event"
  /\ evDone' = evDone \cup {Head(stream).batch}
  /\ stream' = Tail(stream)
  /\ UNCHANGED <<mpc, batch, size, slot, pending, taking, jobVars, rowsBuf, stage, workerVars, idsBuf,
                 gpu, out>>

-----------------------------------------------------------------------------

MainStep == \/ \E n \in Sizes : NewBatch(n)
            \/ Prefetch \/ SlotFree \/ SlotStuck
            \/ \E pad \in {0, 1} : Consume(size[batch] + pad)
            \/ RowsReady \/ RowsLate \/ Fallback \/ GatherRaises

WorkerStep == WorkerGet \/ WorkerSync \/ WorkerRead \/ WorkerWrite \/ WorkerFail

GpuStep == CopyStart \/ CopyEnd \/ EventDone

Next == MainStep \/ WorkerStep \/ GpuStep

Spec == Init /\ [][Next]_vars

\* The main thread runs and its waits time out; the GPU runs its stream.
\* Nothing is assumed of the worker: its disk may hang for ever.
FairSpec == Spec /\ WF_vars(MainStep) /\ WF_vars(GpuStep)

-----------------------------------------------------------------------------
(* Correctness.                                                            *)

\* Whatever the worker, the timeouts and the GPU do, a lookup delivers the
\* rows of its own batch's ids: never those of an earlier batch left
\* pending or in the slot, never a buffer rewritten under the copy.
OwnRows == \A b \in Batches : out[b] \in {0, b}

\* No copy into a slot's ids while the worker reads them, and no copy of a
\* slot's rows while the worker writes them.
NoRace ==
  ~ /\ gpu # Idle /\ wpc \in {"read", "write"}
    /\ Head(stream).op \in {"ids", "rows"}
    /\ Head(stream).slot = jobSlot[wjob]

\* Every lookup returns, even if the worker never answers: its rows reach the
\* device, or the gather's own error ends the run.
EveryLookupDelivers ==
  \A b \in Batches : (batch = b) ~> (out[b] # 0 \/ mpc = "raised")

=============================================================================
