-------------------------- MODULE PlePrefetchProofs --------------------------
(***************************************************************************)
(* Each lookup delivers its own rows, and no buffer is rewritten under its *)
(* reader, for every number of batches, all row counts and whatever order  *)
(* the main thread, the worker and the GPU stream run in.                  *)
(*                                                                         *)
(* No lock says so: the argument is the order of the stream.  The event of *)
(* a slot's next job stands behind every copy still to come in or out of   *)
(* that slot, and the worker waits for the event before it touches it.     *)
(***************************************************************************)
EXTENDS PlePrefetch, SequenceTheorems, TLAPS

OfSlot(k) == stream[k].op \in {"ids", "rows"}
IsEvent(k, j) == stream[k].op = "event" /\ stream[k].batch = j
Open(j) == jobState[j] = "open"

\* The main thread: a pending job is the one of its batch, and the last one
\* that was given its slot.
MainOrder ==
  /\ mpc # "idle" => batch # 0
  /\ \A b \in Batches : b > batch => jobState[b] = "none"
  /\ mpc \in {"prefetch", "waitSlot"} => jobState[batch] = "none"
  /\ mpc # "lookup" => pending = 0
  /\ pending # 0 => pending = batch /\ jobs[jobSlot[batch]] = batch
  /\ mpc = "waitJob" => taking = batch /\ jobs[jobSlot[batch]] = batch

\* The jobs: only the last of a slot is open, and the worker has one of them.
JobOrder ==
  /\ \A j \in Batches : Open(j) => jobs[jobSlot[j]] = j
  /\ \A s \in Slots : jobs[s] # 0 => jobSlot[jobs[s]] = s /\ jobState[jobs[s]] # "none"
  /\ \A i \in 1 .. Len(queue) : Open(queue[i])
  /\ \A i, k \in 1 .. Len(queue) : i # k => queue[i] # queue[k]
  /\ wpc # "get" => /\ wjob # 0 /\ Open(wjob)
                    /\ \A i \in 1 .. Len(queue) : queue[i] # wjob
  /\ wpc \in {"read", "write"} => wjob \in evDone

\* An event is in the stream or behind it, once, and its ids come before it.
EventOrder ==
  /\ \A j \in evDone : jobState[j] # "none"
  /\ \A k \in 1 .. Len(stream) :
       /\ stream[k].op \in {"ids", "event"} => jobState[stream[k].batch] # "none"
       /\ stream[k].op = "ids" => stream[k].slot = jobSlot[stream[k].batch]
       /\ stream[k].op = "event" =>
            /\ stream[k].batch \notin evDone
            /\ k = 1 => idsBuf[jobSlot[stream[k].batch]] = stream[k].batch
            /\ k > 1 => /\ stream[k - 1].op = "ids"
                        /\ stream[k - 1].batch = stream[k].batch
  /\ \A k, l \in 1 .. Len(stream) :
       (k # l /\ stream[k].op = "event" /\ stream[l].op = "event")
         => stream[k].batch # stream[l].batch

\* The event of a slot's open job is behind every copy in or out of the slot.
EventBehind ==
  \A k \in 1 .. Len(stream), j \in Batches :
    (OfSlot(k) /\ Open(j) /\ jobSlot[j] = stream[k].slot)
      => \E l \in 1 .. Len(stream) : l > k /\ IsEvent(l, j)

\* What the buffers hold for those who are going to read them.
BuffersHold ==
  /\ \A j \in Batches : (Open(j) /\ j \in evDone) => idsBuf[jobSlot[j]] = j
  /\ wpc = "write" => wread = wjob
  /\ \A s \in Slots : (jobs[s] # 0 /\ jobState[jobs[s]] = "ok") => rowsBuf[s] = jobs[s]
  /\ \A k \in 1 .. Len(stream) :
       /\ stream[k].op = "rows" => rowsBuf[stream[k].slot] = stream[k].batch
       /\ stream[k].op = "stage" => stage = stream[k].batch

\* The running copy has read what its source still holds.
CopyRuns ==
  gpu # Idle => /\ stream # <<>> /\ stream[1].op # "event"
                /\ gpu = stream[1].batch

IInv == /\ TypeOK /\ MainOrder /\ JobOrder /\ EventOrder /\ EventBehind
        /\ BuffersHold /\ CopyRuns /\ OwnRows

-----------------------------------------------------------------------------
(* What the actions do to the stream, copy by copy.                        *)

LEMMA OpsTyped ==
  \A o \in Ops : /\ o.op \in {"ids", "rows", "stage", "event"} /\ o.batch \in Batches
                 /\ o.op \in {"ids", "rows"} => o.slot \in Slots
BY DEF Ops

LEMMA Copies ==
  \A b \in Batches :
    /\ [op |-> "stage", batch |-> b] \in Ops /\ [op |-> "event", batch |-> b] \in Ops
    /\ \A s \in Slots : /\ [op |-> "ids", slot |-> s, batch |-> b] \in Ops
                        /\ [op |-> "rows", slot |-> s, batch |-> b] \in Ops
BY DEF Ops

\* prefetch() issues the copy of the ids and the event behind it.
LEMMA PrefetchIssues ==
  ASSUME IInv, SlotFree
  PROVE  /\ stream' \in Seq(Ops) /\ Len(stream') = Len(stream) + 2
         /\ \A i \in 1 .. Len(stream) : stream'[i] = stream[i]
         /\ stream'[Len(stream) + 1] = [op |-> "ids", slot |-> Taken, batch |-> batch]
         /\ stream'[Len(stream) + 2] = [op |-> "event", batch |-> batch]
         /\ batch \in Batches /\ Taken \in Slots
<1>1. batch \in Batches /\ Taken \in Slots /\ stream \in Seq(Ops)
  BY DEF IInv, TypeOK, MainOrder, SlotFree, Taken, Slots, Batches
<1>2. /\ [op |-> "ids", slot |-> Taken, batch |-> batch] \in Ops
      /\ [op |-> "event", batch |-> batch] \in Ops
  BY <1>1, Copies
<1> DEFINE a == [op |-> "ids", slot |-> Taken, batch |-> batch]
           e == [op |-> "event", batch |-> batch]
<1>3. stream' = stream \o <<a, e>> /\ a \in Ops /\ e \in Ops
  BY <1>2 DEF SlotFree
<1> HIDE DEF a, e
<1>4. /\ stream' \in Seq(Ops) /\ Len(stream') = Len(stream) + 2
      /\ \A i \in 1 .. Len(stream) : stream'[i] = stream[i]
      /\ stream'[Len(stream) + 1] = a /\ stream'[Len(stream) + 2] = e
  BY <1>1, <1>3
<1>5. QED BY <1>1, <1>4 DEF a, e

\* consume() issues the copy of the rows.
LEMMA ConsumeIssues ==
  ASSUME IInv, RowsReady, jobState[taking] = "ok"
  PROVE  /\ stream' \in Seq(Ops) /\ Len(stream') = Len(stream) + 1
         /\ \A i \in 1 .. Len(stream) : stream'[i] = stream[i]
         /\ stream'[Len(stream) + 1]
              = [op |-> "rows", slot |-> jobSlot[taking], batch |-> batch]
         /\ batch \in Batches /\ taking = batch
<1>1. batch \in Batches /\ taking = batch /\ jobSlot[taking] \in Slots /\ stream \in Seq(Ops)
  BY DEF IInv, TypeOK, MainOrder, RowsReady, Batches
<1> DEFINE r == [op |-> "rows", slot |-> jobSlot[taking], batch |-> batch]
<1>2. stream' = Append(stream, r) /\ r \in Ops
  BY <1>1, Copies DEF RowsReady
<1> HIDE DEF r
<1>3. /\ stream' \in Seq(Ops) /\ Len(stream') = Len(stream) + 1
      /\ \A i \in 1 .. Len(stream) : stream'[i] = stream[i]
      /\ stream'[Len(stream) + 1] = r
  BY <1>1, <1>2
<1>4. QED BY <1>1, <1>3 DEF r

\* The fallback issues its copy on an empty stream.
LEMMA FallbackIssues ==
  ASSUME IInv, Fallback
  PROVE  /\ stream' \in Seq(Ops) /\ Len(stream) = 0 /\ Len(stream') = 1
         /\ stream'[1] = [op |-> "stage", batch |-> batch]
         /\ batch \in Batches
<1>1. batch \in Batches /\ stream = <<>>
  BY DEF IInv, TypeOK, MainOrder, Fallback, StreamDrained, Batches
<1> DEFINE r == [op |-> "stage", batch |-> batch]
<1>2. r \in Ops
  BY <1>1, Copies
<1>3. stream' = Append(stream, r)
  BY DEF Fallback
<1> HIDE DEF r
<1>4. stream' \in Seq(Ops) /\ Len(stream') = 1 /\ stream'[1] = r /\ Len(stream) = 0
  BY <1>1, <1>2, <1>3
<1>5. QED BY <1>1, <1>4 DEF r

\* The stream runs from its head.
LEMMA StreamRuns ==
  ASSUME IInv, CopyEnd \/ EventDone
  PROVE  /\ stream' \in Seq(Ops) /\ Len(stream) > 0 /\ Len(stream') = Len(stream) - 1
         /\ \A i \in 1 .. Len(stream') : stream'[i] = stream[i + 1]
         /\ Head(stream) = stream[1] /\ stream[1] \in Ops
<1>1. stream \in Seq(Ops) /\ stream # <<>> /\ stream' = Tail(stream)
  BY DEF IInv, TypeOK, CopyRuns, CopyEnd, EventDone
<1>2. QED BY <1>1

\* All other steps leave it.
LEMMA StreamLeft ==
  ASSUME [Next]_vars, ~SlotFree, ~(RowsReady /\ jobState[taking] = "ok"), ~Fallback,
         ~CopyEnd, ~EventDone
  PROVE  UNCHANGED stream
BY DEF Next, MainStep, NewBatch, Prefetch, SlotStuck, Consume, RowsReady, RowsLate,
       GatherRaises, WorkerStep, WorkerGet, WorkerSync, WorkerRead, WorkerWrite, WorkerFail,
       GpuStep, CopyStart, vars, workerVars, gpuVars, jobVars

-----------------------------------------------------------------------------
(* What they do to the jobs.                                               *)

\* prefetch() opens the job of its batch in a slot that has no open job.
LEMMA PrefetchOpens ==
  ASSUME IInv, SlotFree
  PROVE  /\ jobState[batch] = "none" /\ jobState'[batch] = "open"
         /\ \A j \in Batches \ {batch} : jobState'[j] = jobState[j]
         /\ jobSlot'[batch] = Taken
         /\ \A j \in Batches \ {batch} : jobSlot'[j] = jobSlot[j]
         /\ jobs'[Taken] = batch
         /\ \A s \in Slots \ {Taken} : jobs'[s] = jobs[s]
         /\ \A j \in Batches : Open(j) => jobSlot[j] # Taken /\ j # batch
<1>1. batch \in Batches /\ Taken \in Slots
  BY PrefetchIssues
<1>2. jobState[batch] = "none"
  BY DEF IInv, MainOrder, SlotFree
<1>3. /\ jobState'[batch] = "open"
      /\ \A j \in Batches \ {batch} : jobState'[j] = jobState[j]
  BY <1>1 DEF IInv, TypeOK, SlotFree
<1>4. jobSlot'[batch] = Taken /\ \A j \in Batches \ {batch} : jobSlot'[j] = jobSlot[j]
  BY <1>1 DEF IInv, TypeOK, SlotFree
<1>5. jobs'[Taken] = batch /\ \A s \in Slots \ {Taken} : jobs'[s] = jobs[s]
  BY <1>1 DEF IInv, TypeOK, SlotFree
<1>6. ASSUME NEW j \in Batches, Open(j) PROVE jobSlot[j] # Taken /\ j # batch
  BY <1>2, <1>6 DEF IInv, JobOrder, SlotFree, SlotBusy, Done, Open, Batches
<1>7. QED BY <1>2, <1>3, <1>4, <1>5, <1>6

\* The worker has an open job, and closes it.
LEMMA WorkerHas ==
  ASSUME IInv, wpc # "get"
  PROVE  wjob \in Batches /\ Open(wjob) /\ jobSlot[wjob] \in Slots
BY DEF IInv, TypeOK, JobOrder

LEMMA WorkerCloses ==
  ASSUME IInv, WorkerWrite \/ WorkerFail
  PROVE  /\ wjob \in Batches /\ Open(wjob) /\ jobSlot[wjob] \in Slots
         /\ jobState'[wjob] \in {"ok", "failed"}
         /\ \A j \in Batches \ {wjob} : jobState'[j] = jobState[j]
         /\ wpc' = "get"
         /\ UNCHANGED <<jobSlot, jobs, queue, stream, idsBuf, evDone, stage, wjob>>
<1>1. wpc # "get"
  BY DEF WorkerWrite, WorkerFail
<1>2. wjob \in Batches /\ Open(wjob) /\ jobSlot[wjob] \in Slots
  BY <1>1, WorkerHas
<1>3. QED BY <1>2 DEF WorkerWrite, WorkerFail, gpuVars, IInv, TypeOK

\* No other step opens or closes a job.
LEMMA JobsLeft ==
  ASSUME [Next]_vars, ~SlotFree, ~WorkerWrite, ~WorkerFail
  PROVE  UNCHANGED <<jobs, jobSlot, jobState>>
BY DEF Next, MainStep, NewBatch, Prefetch, SlotStuck, Consume, RowsReady, RowsLate,
       GatherRaises, Fallback, WorkerStep, WorkerGet, WorkerSync, WorkerRead, GpuStep, CopyStart,
       CopyEnd, EventDone, vars, workerVars, gpuVars, jobVars

-----------------------------------------------------------------------------
(* What the copies do to the buffers.                                      *)

\* The source of a copy in the stream holds what the copy is for.
LEMMA SourceHolds ==
  ASSUME IInv, stream # <<>>, stream[1].op # "event"
  PROVE  /\ Head(stream) = stream[1] /\ stream[1] \in Ops
         /\ Source(stream[1]) = stream[1].batch
         /\ stream[1].batch \in Batches
<1>1. stream \in Seq(Ops) /\ Len(stream) > 0 /\ stream[1] \in Ops /\ Head(stream) = stream[1]
  BY DEF IInv, TypeOK
<1>2. stream[1].op \in {"ids", "rows", "stage"} /\ stream[1].batch \in Batches
  BY <1>1, OpsTyped
<1>3. /\ stream[1].op = "rows" => rowsBuf[stream[1].slot] = stream[1].batch
      /\ stream[1].op = "stage" => stage = stream[1].batch
  BY <1>1 DEF IInv, BuffersHold
<1>4. QED BY <1>1, <1>2, <1>3 DEF Source

LEMMA CopyStarts ==
  ASSUME IInv, CopyStart
  PROVE  /\ Len(stream) > 0 /\ stream[1] \in Ops /\ stream[1].op # "event"
         /\ gpu' = stream[1].batch /\ stream[1].batch \in Batches
         /\ \A s \in Slots : (stream[1].op # "ids" \/ s # stream[1].slot)
                               => idsBuf'[s] = idsBuf[s]
         /\ UNCHANGED <<jobs, jobSlot, jobState, queue, rowsBuf, stage, wpc, wjob, wread,
                        stream, evDone, out>>
<1>1. stream # <<>> /\ Head(stream).op # "event" /\ stream \in Seq(Ops)
  BY DEF IInv, TypeOK, CopyStart
<1>2. Len(stream) > 0 /\ Head(stream) = stream[1]
  BY <1>1
<1>3. /\ stream[1] \in Ops /\ Source(stream[1]) = stream[1].batch
      /\ stream[1].batch \in Batches
  BY <1>1, <1>2, SourceHolds
<1>4. gpu' = stream[1].batch
  BY <1>2, <1>3 DEF CopyStart
<1>5. \A s \in Slots : (stream[1].op # "ids" \/ s # stream[1].slot)
                          => idsBuf'[s] = idsBuf[s]
  BY <1>2 DEF CopyStart, IInv, TypeOK
<1>6. QED BY <1>1, <1>2, <1>3, <1>4, <1>5 DEF CopyStart, jobVars, workerVars

LEMMA CopyLands ==
  ASSUME IInv, CopyEnd
  PROVE  /\ stream[1].op \in {"ids", "rows", "stage"} /\ stream[1].batch \in Batches
         /\ stream[1].op = "ids" =>
              /\ stream[1].slot \in Slots
              /\ idsBuf'[stream[1].slot] = stream[1].batch
              /\ \A s \in Slots \ {stream[1].slot} : idsBuf'[s] = idsBuf[s]
              /\ UNCHANGED out
         /\ stream[1].op # "ids" =>
              /\ out' = [out EXCEPT ![stream[1].batch] = stream[1].batch]
              /\ UNCHANGED idsBuf
         /\ gpu' = Idle
         /\ UNCHANGED <<jobs, jobSlot, jobState, queue, rowsBuf, stage, wpc, wjob, wread,
                        evDone>>
<1>1. stream # <<>> /\ stream[1].op # "event" /\ gpu = stream[1].batch
  BY DEF IInv, CopyRuns, CopyEnd
<1>2. /\ Head(stream) = stream[1] /\ stream[1] \in Ops
      /\ Source(stream[1]) = stream[1].batch
      /\ stream[1].batch \in Batches
  BY <1>1, SourceHolds
<1>3. /\ stream[1].op \in {"ids", "rows", "stage"}
      /\ stream[1].op = "ids" => stream[1].slot \in Slots
  BY <1>1, <1>2, OpsTyped
<1> DEFINE o == stream[1]
<1>4. IF o.op = "ids" THEN idsBuf' = [idsBuf EXCEPT ![o.slot] = o.batch] /\ UNCHANGED out
                      ELSE out' = [out EXCEPT ![o.batch] = o.batch] /\ UNCHANGED idsBuf
  BY <1>1, <1>2 DEF CopyEnd
<1>5. idsBuf \in [Slots -> Content]
  BY DEF IInv, TypeOK
<1>6. QED BY <1>2, <1>3, <1>4, <1>5 DEF CopyEnd, jobVars, workerVars

\* The event at the head of the stream is recorded.
LEMMA EventLands ==
  ASSUME IInv, EventDone
  PROVE  /\ stream[1].op = "event" /\ stream[1].batch \in Batches
         /\ evDone' = evDone \cup {stream[1].batch} /\ gpu = Idle
         /\ UNCHANGED <<jobs, jobSlot, jobState, queue, rowsBuf, stage, wpc, wjob, wread,
                        idsBuf, gpu, out>>
BY StreamRuns, OpsTyped DEF EventDone, jobVars, workerVars

\* No other step changes what the GPU reads and writes.
LEMMA BuffersLeft ==
  ASSUME [Next]_vars, ~CopyStart, ~CopyEnd, ~EventDone
  PROVE  UNCHANGED <<idsBuf, gpu, evDone, out>>
BY DEF Next, MainStep, NewBatch, Prefetch, SlotFree, SlotStuck, Consume, RowsReady, RowsLate,
       GatherRaises, Fallback, WorkerStep, WorkerGet, WorkerSync, WorkerRead, WorkerWrite, WorkerFail,
       GpuStep, vars, gpuVars

\* No other step changes what a copy reads.
LEMMA SourcesLeft ==
  ASSUME [Next]_vars, ~WorkerRead, ~WorkerWrite, ~Fallback
  PROVE  UNCHANGED <<rowsBuf, stage>>
BY DEF Next, MainStep, NewBatch, Prefetch, SlotFree, SlotStuck, Consume, RowsReady, RowsLate,
       GatherRaises, WorkerStep, WorkerGet, WorkerSync, WorkerFail, GpuStep, CopyStart, CopyEnd, EventDone,
       vars, gpuVars

-----------------------------------------------------------------------------
(* The invariant is inductive: one lemma for each of its parts.            *)

\* A job stays the last of its slot until its batch has consumed it.
LEMMA MainKept ==
  ASSUME IInv, [Next]_vars
  PROVE  MainOrder'
<1> USE DEF IInv, TypeOK, MainOrder, Batches, workerVars, gpuVars, jobVars
<1>1. CASE \E n \in Sizes : NewBatch(n)
  <2>1. /\ mpc = "idle" /\ batch < MaxBatch /\ batch' = batch + 1
        /\ mpc' \in {"prefetch", "lookup"}
        /\ UNCHANGED <<pending, taking, jobs, jobSlot, jobState>>
    BY <1>1 DEF NewBatch
  <2>2. batch + 1 \in Batches /\ jobState[batch + 1] = "none"
    BY <2>1, PlePrefetchAssumption DEF PlePrefetchAssumption
  <2>3. QED BY <2>1, <2>2
<1>2. CASE SlotFree
  <2>1. /\ mpc' = "lookup" /\ UNCHANGED <<batch, taking>> /\ pending' = batch
    BY <1>2 DEF SlotFree
  <2>2. /\ \A j \in Batches \ {batch} : jobState'[j] = jobState[j]
        /\ jobSlot'[batch] = Taken /\ jobs'[Taken] = batch /\ batch \in Batches
    BY <1>2, PrefetchOpens, PrefetchIssues
  <2>3. QED BY <2>1, <2>2
<1>3. CASE WorkerWrite \/ WorkerFail
  <2>1. /\ wjob \in Batches /\ jobState[wjob] = "open"
        /\ \A j \in Batches \ {wjob} : jobState'[j] = jobState[j]
        /\ UNCHANGED <<jobSlot, jobs>>
    BY <1>3, WorkerCloses DEF Open
  <2>2. UNCHANGED <<mpc, batch, pending, taking>>
    BY <1>3 DEF WorkerWrite, WorkerFail
  <2>3. QED BY <2>1, <2>2
<1>4. CASE \E pad \in {0, 1} : Consume(size[batch] + pad)
  BY <1>4 DEF Consume
<1>5. CASE Prefetch \/ SlotStuck \/ RowsReady \/ RowsLate \/ GatherRaises \/ Fallback
  BY <1>5 DEF Prefetch, SlotStuck, RowsReady, RowsLate, GatherRaises, Fallback
<1>6. CASE WorkerGet \/ WorkerSync \/ WorkerRead \/ GpuStep \/ UNCHANGED vars
  BY <1>6
     DEF WorkerGet, WorkerSync, WorkerRead, GpuStep, CopyStart, CopyEnd, EventDone, vars
<1>7. QED BY <1>1, <1>2, <1>3, <1>4, <1>5, <1>6 DEF Next, MainStep, WorkerStep

\* Only the last job of a slot is open.
LEMMA JobsKept ==
  ASSUME IInv, [Next]_vars
  PROVE  JobOrder'
<1>0. JobOrder /\ jobSlot \in [Batches -> Slots] /\ queue \in Seq(Batches)
  BY DEF IInv, TypeOK
<1> DEFINE Placed == \A s \in Slots : jobs[s] # 0 => /\ jobSlot[jobs[s]] = s
                                                     /\ jobState[jobs[s]] # "none"
<1>a. jobs \in [Slots -> Batches \cup {0}] /\ 0 \notin Batches
  BY DEF IInv, TypeOK, Batches
<1>1. CASE SlotFree
  <2>1. /\ queue' = Append(queue, batch) /\ UNCHANGED <<wpc, wjob, evDone>>
    BY <1>1 DEF SlotFree, workerVars, gpuVars
  <2>2. batch \in Batches /\ Taken \in Slots
    BY <1>1, PrefetchIssues
  <2>3. /\ queue' \in Seq(Batches) /\ Len(queue') = Len(queue) + 1
        /\ \A i \in 1 .. Len(queue) : queue'[i] = queue[i] /\ queue[i] \in Batches
        /\ queue'[Len(queue) + 1] = batch
    BY <1>0, <2>1, <2>2
  <2>4. /\ jobState[batch] = "none" /\ jobState'[batch] = "open"
        /\ \A j \in Batches \ {batch} : jobState'[j] = jobState[j]
        /\ jobSlot'[batch] = Taken
        /\ \A j \in Batches \ {batch} : jobSlot'[j] = jobSlot[j]
        /\ jobs'[Taken] = batch
        /\ \A s \in Slots \ {Taken} : jobs'[s] = jobs[s]
        /\ \A j \in Batches : Open(j) => jobSlot[j] # Taken /\ j # batch
    BY <1>1, PrefetchOpens
  <2>5. \A j \in Batches : Open(j)' => jobs'[jobSlot'[j]] = j
    BY <1>0, <2>2, <2>4 DEF JobOrder, Open
  <2>6. \A i \in 1 .. Len(queue') : jobState'[queue'[i]] = "open"
    BY <1>0, <2>3, <2>4 DEF JobOrder, Open
  <2>7. \A i \in 1 .. Len(queue) : queue[i] # batch
    BY <1>0, <2>3, <2>4 DEF JobOrder
  <2>8. \A i, k \in 1 .. Len(queue') : i # k => queue'[i] # queue'[k]
    BY <1>0, <2>3, <2>7 DEF JobOrder
  <2>9. wpc' # "get" => /\ wjob' # 0 /\ Open(wjob)'
                        /\ \A i \in 1 .. Len(queue') : queue'[i] # wjob'
    <3>1. SUFFICES ASSUME wpc # "get"
                   PROVE  /\ wjob # 0 /\ jobState'[wjob] = "open"
                          /\ \A i \in 1 .. Len(queue') : queue'[i] # wjob
      BY <2>1 DEF Open
    <3>2. wjob \in Batches /\ Open(wjob)
      BY <3>1, WorkerHas
    <3>3. wjob # 0 /\ wjob # batch /\ \A i \in 1 .. Len(queue) : queue[i] # wjob
      BY <1>0, <2>4, <3>1, <3>2 DEF JobOrder
    <3>4. QED BY <2>3, <2>4, <3>2, <3>3 DEF Open
  <2>10. Placed'
    BY <1>0, <1>a, <2>2, <2>4 DEF JobOrder
  <2>11. wpc' \in {"read", "write"} => wjob' \in evDone'
    BY <1>0, <2>1 DEF JobOrder
  <2>12. QED BY <2>5, <2>6, <2>8, <2>9, <2>10, <2>11 DEF JobOrder, Open
<1>2. CASE WorkerWrite \/ WorkerFail
  <2>1. /\ wjob \in Batches
        /\ jobState'[wjob] \in {"ok", "failed"}
        /\ \A j \in Batches \ {wjob} : jobState'[j] = jobState[j]
        /\ wpc' = "get"
        /\ UNCHANGED <<jobSlot, jobs, queue, evDone, wjob>>
    BY <1>2, WorkerCloses
  <2>2. \A i \in 1 .. Len(queue) : queue[i] # wjob /\ queue[i] \in Batches
    BY <1>0, <1>2 DEF JobOrder, WorkerWrite, WorkerFail
  <2>3. Placed'
    BY <1>0, <1>a, <2>1 DEF JobOrder
  <2>4. QED BY <1>0, <2>1, <2>2, <2>3 DEF JobOrder, Open
<1>3. CASE WorkerGet
  <2>1. /\ wpc = "get" /\ queue # <<>> /\ wjob' = Head(queue) /\ queue' = Tail(queue)
        /\ wpc' = "sync" /\ UNCHANGED <<jobs, jobSlot, jobState, evDone>>
    BY <1>3 DEF WorkerGet, gpuVars
  <2>2. /\ Len(queue) > 0 /\ Len(queue') = Len(queue) - 1 /\ wjob' = queue[1]
        /\ \A i \in 1 .. Len(queue') : queue'[i] = queue[i + 1]
        /\ queue[1] \in Batches
    BY <1>0, <2>1
  <2>3. wjob' # 0
    BY <2>2 DEF Batches
  <2>4. QED BY <1>0, <2>1, <2>2, <2>3 DEF JobOrder, Open
<1>4. CASE EventDone
  BY <1>0, <1>4 DEF JobOrder, Open, EventDone, jobVars, workerVars
<1>5. CASE WorkerSync \/ WorkerRead
  BY <1>0, <1>5 DEF JobOrder, Open, WorkerSync, WorkerRead, jobVars, gpuVars
<1>6. CASE \/ \E n \in Sizes : NewBatch(n)
           \/ Prefetch \/ SlotStuck \/ \E pad \in {0, 1} : Consume(size[batch] + pad)
           \/ RowsReady \/ RowsLate \/ GatherRaises \/ Fallback
           \/ CopyStart \/ CopyEnd \/ UNCHANGED vars
  <2>1. UNCHANGED <<jobs, jobSlot, jobState, queue, wpc, wjob, evDone>>
    BY <1>6 DEF NewBatch, Prefetch, SlotStuck, Consume, RowsReady, RowsLate, GatherRaises,
                Fallback,
                CopyStart, CopyEnd, vars, workerVars, gpuVars, jobVars
  <2>2. QED BY <1>0, <2>1 DEF JobOrder, Open
<1>7. QED BY <1>1, <1>2, <1>3, <1>4, <1>5, <1>6 DEF Next, MainStep, WorkerStep, GpuStep


\* The event follows its ids through the stream, and is passed once.
LEMMA EventsKept ==
  ASSUME IInv, [Next]_vars
  PROVE  EventOrder'
<1>0. EventOrder /\ jobSlot \in [Batches -> Slots] /\ stream \in Seq(Ops)
  BY DEF IInv, TypeOK
<1>1. \A k \in 1 .. Len(stream) : stream[k] \in Ops /\ stream[k].batch \in Batches
  BY <1>0, OpsTyped
<1> DEFINE Here(k) ==
             /\ stream[k].op \in {"ids", "event"} => jobState[stream[k].batch] # "none"
             /\ stream[k].op = "ids" => stream[k].slot = jobSlot[stream[k].batch]
             /\ stream[k].op = "event" =>
                  /\ stream[k].batch \notin evDone
                  /\ k = 1 => idsBuf[jobSlot[stream[k].batch]] = stream[k].batch
                  /\ k > 1 => /\ stream[k - 1].op = "ids"
                              /\ stream[k - 1].batch = stream[k].batch
<1>2. CASE SlotFree
  <2>1. /\ Len(stream') = Len(stream) + 2
        /\ \A i \in 1 .. Len(stream) : stream'[i] = stream[i]
        /\ stream'[Len(stream) + 1] = [op |-> "ids", slot |-> Taken, batch |-> batch]
        /\ stream'[Len(stream) + 2] = [op |-> "event", batch |-> batch]
    BY <1>2, PrefetchIssues
  <2>2. /\ jobState[batch] = "none" /\ jobState'[batch] = "open"
        /\ \A j \in Batches \ {batch} : jobState'[j] = jobState[j]
        /\ jobSlot'[batch] = Taken
        /\ \A j \in Batches \ {batch} : jobSlot'[j] = jobSlot[j]
    BY <1>2, PrefetchOpens
  <2>3. UNCHANGED <<evDone, idsBuf>>
    BY <1>2 DEF SlotFree, gpuVars
  <2>4. \A k \in 1 .. Len(stream) :
          stream[k].op \in {"ids", "event"} => stream[k].batch # batch
    BY <1>0, <2>2 DEF EventOrder
  <2>5. batch \notin evDone
    BY <1>0, <2>2 DEF EventOrder
  <2>6. \A k \in 1 .. Len(stream) : Here(k)'
    BY <1>0, <1>1, <2>1, <2>2, <2>3, <2>4 DEF EventOrder
  <2>7. ASSUME NEW k \in 1 .. Len(stream'), k > Len(stream) PROVE Here(k)'
    <3>1. Len(stream) \in Nat /\ k \in {Len(stream) + 1, Len(stream) + 2}
      BY <1>0, <2>1, <2>7
    <3>2. CASE k = Len(stream) + 1
      <4>1. /\ stream'[k].op = "ids" /\ stream'[k].slot = Taken /\ stream'[k].batch = batch
        BY <2>1, <3>2
      <4>2. QED BY <2>2, <4>1
    <3>3. CASE k = Len(stream) + 2
      <4>1. stream'[k].op = "event" /\ stream'[k].batch = batch
        BY <2>1, <3>3
      <4>2. k > 1 /\ k # 1 /\ k - 1 = Len(stream) + 1
        BY <3>1, <3>3
      <4>3. stream'[k - 1].op = "ids" /\ stream'[k - 1].batch = batch
        BY <2>1, <4>2
      <4>4. QED BY <2>2, <2>3, <2>5, <4>1, <4>2, <4>3
    <3>4. QED BY <3>1, <3>2, <3>3
  <2>8. \A j \in evDone' : jobState'[j] # "none"
    BY <1>0, <2>2, <2>3 DEF EventOrder, IInv, TypeOK
  <2>9. ASSUME NEW k \in 1 .. Len(stream'), NEW l \in 1 .. Len(stream'), k # l,
               stream'[k].op = "event", stream'[l].op = "event"
        PROVE  stream'[k].batch # stream'[l].batch
    <3>1. Len(stream) \in Nat /\ stream'[Len(stream) + 1].op = "ids"
      BY <1>0, <2>1
    <3>2. /\ k \in 1 .. Len(stream) \/ k = Len(stream) + 2
          /\ l \in 1 .. Len(stream) \/ l = Len(stream) + 2
      BY <2>1, <2>9, <3>1
    <3>3. CASE k = Len(stream) + 2
      <4>1. stream'[k].batch = batch /\ l \in 1 .. Len(stream)
        BY <2>1, <2>9, <3>2, <3>3
      <4>2. QED BY <2>1, <2>4, <2>9, <4>1
    <3>4. CASE l = Len(stream) + 2
      <4>1. stream'[l].batch = batch /\ k \in 1 .. Len(stream)
        BY <2>1, <2>9, <3>2, <3>4
      <4>2. QED BY <2>1, <2>4, <2>9, <4>1
    <3>5. CASE k \in 1 .. Len(stream) /\ l \in 1 .. Len(stream)
      BY <1>0, <2>1, <2>9, <3>5 DEF EventOrder
    <3>6. QED BY <3>2, <3>3, <3>4, <3>5
  <2>10. ASSUME NEW k \in 1 .. Len(stream') PROVE Here(k)'
    <3>1. k \in 1 .. Len(stream) \/ k > Len(stream)
      BY <1>0, <2>1
    <3>2. QED BY <2>6, <2>7, <3>1
  <2>11. QED BY <2>8, <2>9, <2>10 DEF EventOrder
<1>3. CASE RowsReady /\ jobState[taking] = "ok"
  <2>1. /\ Len(stream') = Len(stream) + 1
        /\ \A i \in 1 .. Len(stream) : stream'[i] = stream[i]
        /\ stream'[Len(stream) + 1].op = "rows"
    BY <1>3, ConsumeIssues
  <2>2. UNCHANGED <<jobSlot, jobState, evDone, idsBuf>>
    BY <1>3 DEF RowsReady, gpuVars, jobVars
  <2>3. QED BY <1>0, <2>1, <2>2 DEF EventOrder
<1>4. CASE Fallback
  <2>1. Len(stream') = 1 /\ stream'[1].op = "stage"
    BY <1>4, FallbackIssues
  <2>2. UNCHANGED <<jobSlot, jobState, evDone, idsBuf>>
    BY <1>4 DEF Fallback, gpuVars, jobVars
  <2>3. QED BY <1>0, <2>1, <2>2 DEF EventOrder
<1>5. CASE WorkerWrite \/ WorkerFail
  <2>1. /\ jobState'[wjob] \in {"ok", "failed"}
        /\ \A j \in Batches \ {wjob} : jobState'[j] = jobState[j]
        /\ UNCHANGED <<jobSlot, stream, idsBuf, evDone>>
    BY <1>5, WorkerCloses
  <2>2. \A j \in evDone' : jobState'[j] # "none"
    BY <1>0, <2>1 DEF EventOrder, IInv, TypeOK
  <2>3. QED BY <1>0, <1>1, <2>1, <2>2 DEF EventOrder
<1>6. CASE CopyStart
  <2>1. /\ Len(stream) > 0 /\ stream[1].op # "event"
        /\ UNCHANGED <<jobSlot, jobState, stream, evDone>>
    BY <1>6, CopyStarts
  <2>2. QED BY <1>0, <2>1 DEF EventOrder
<1>7. CASE CopyEnd
  <2>1. /\ Len(stream) > 0 /\ Len(stream') = Len(stream) - 1
        /\ \A i \in 1 .. Len(stream') : stream'[i] = stream[i + 1]
    BY <1>7, StreamRuns
  <2>2. /\ stream[1].op = "ids" => idsBuf'[stream[1].slot] = stream[1].batch
        /\ UNCHANGED <<jobSlot, jobState, evDone>>
    BY <1>7, CopyLands
  <2>3. ASSUME Len(stream) > 1, stream[2].op = "event"
        PROVE  idsBuf'[jobSlot[stream[2].batch]] = stream[2].batch
    <3>1. stream[1].op = "ids" /\ stream[1].batch = stream[2].batch
          /\ stream[1].slot = jobSlot[stream[1].batch]
      BY <1>0, <2>3 DEF EventOrder
    <3>2. QED BY <2>2, <3>1
  <2>4. ASSUME NEW k \in 1 .. Len(stream') PROVE Here(k)'
    <3>1. k + 1 \in 1 .. Len(stream) /\ stream'[k] = stream[k + 1]
      BY <1>0, <2>1
    <3>2. Here(k + 1)
      BY <1>0, <3>1 DEF EventOrder
    <3>3. CASE k = 1
      BY <1>0, <2>1, <2>2, <2>3, <3>1, <3>2, <3>3
    <3>4. CASE k > 1
      <4>1. stream'[k - 1] = stream[k]
        BY <1>0, <2>1, <3>4
      <4>2. QED BY <2>2, <3>1, <3>2, <3>4, <4>1
    <3>5. QED BY <3>3, <3>4
  <2>5. QED BY <1>0, <2>1, <2>2, <2>4 DEF EventOrder
<1>8. CASE EventDone
  <2>1. /\ Len(stream) > 0 /\ Len(stream') = Len(stream) - 1
        /\ \A i \in 1 .. Len(stream') : stream'[i] = stream[i + 1]
    BY <1>8, StreamRuns
  <2>2. /\ stream[1].op = "event" /\ evDone' = evDone \cup {stream[1].batch}
        /\ UNCHANGED <<jobSlot, jobState, idsBuf>>
    BY <1>8, EventLands
  <2>3. ASSUME NEW k \in 1 .. Len(stream') PROVE Here(k)'
    <3>1. k + 1 \in 1 .. Len(stream) /\ stream'[k] = stream[k + 1]
      BY <1>0, <2>1
    <3>2. Here(k + 1) /\ (stream[k + 1].op = "event" => stream[k + 1].batch # stream[1].batch)
      BY <1>0, <2>2, <3>1 DEF EventOrder
    <3>3. CASE k = 1
      BY <2>2, <3>1, <3>2, <3>3
    <3>4. CASE k > 1
      <4>1. stream'[k - 1] = stream[k]
        BY <1>0, <2>1, <3>4
      <4>2. QED BY <2>2, <3>1, <3>2, <3>4, <4>1
    <3>5. QED BY <3>3, <3>4
  <2>4. \A j \in evDone' : jobState'[j] # "none"
    BY <1>0, <2>1, <2>2 DEF EventOrder
  <2>5. ASSUME NEW k \in 1 .. Len(stream'), NEW l \in 1 .. Len(stream'), k # l,
               stream'[k].op = "event", stream'[l].op = "event"
        PROVE  stream'[k].batch # stream'[l].batch
    <3>1. k + 1 \in 1 .. Len(stream) /\ l + 1 \in 1 .. Len(stream) /\ k + 1 # l + 1
      BY <1>0, <2>1, <2>5
    <3>2. stream[k + 1].op = "event" /\ stream[l + 1].op = "event"
      BY <2>1, <2>5
    <3>3. stream[k + 1].batch # stream[l + 1].batch
      BY <1>0, <3>1, <3>2 DEF EventOrder
    <3>4. QED BY <2>1, <3>3
  <2>6. QED BY <2>3, <2>4, <2>5 DEF EventOrder
<1>9. CASE ~(\/ SlotFree
             \/ RowsReady /\ jobState[taking] = "ok"
             \/ Fallback \/ WorkerWrite \/ WorkerFail
             \/ CopyStart \/ CopyEnd \/ EventDone)
  <2>1. UNCHANGED stream
    BY <1>9, StreamLeft
  <2>2. UNCHANGED <<jobSlot, jobState>>
    BY <1>9, JobsLeft
  <2>3. UNCHANGED <<idsBuf, evDone>>
    BY <1>9, BuffersLeft
  <2>4. QED BY <1>0, <2>1, <2>2, <2>3 DEF EventOrder
<1>10. QED BY <1>2, <1>3, <1>4, <1>5, <1>6, <1>7, <1>8, <1>9


\* The event of a slot's open job stays behind the slot's copies.
LEMMA BehindKept ==
  ASSUME IInv, [Next]_vars
  PROVE  EventBehind'
<1>0. EventBehind /\ JobOrder /\ jobSlot \in [Batches -> Slots] /\ stream \in Seq(Ops)
  BY DEF IInv, TypeOK
<1> DEFINE Behind(k, j) == (OfSlot(k) /\ Open(j) /\ jobSlot[j] = stream[k].slot)
                             => \E l \in 1 .. Len(stream) : l > k /\ IsEvent(l, j)
<1>1. \A k \in 1 .. Len(stream), j \in Batches : Behind(k, j)
  BY <1>0 DEF EventBehind
<1> USE DEF OfSlot, Open, IsEvent
<1>2. CASE SlotFree
  <2>1. /\ Len(stream') = Len(stream) + 2
        /\ \A i \in 1 .. Len(stream) : stream'[i] = stream[i]
        /\ stream'[Len(stream) + 1] = [op |-> "ids", slot |-> Taken, batch |-> batch]
        /\ stream'[Len(stream) + 2] = [op |-> "event", batch |-> batch]
        /\ Len(stream) \in Nat
    BY <1>0, <1>2, PrefetchIssues
  <2>2. /\ \A j \in Batches \ {batch} : jobState'[j] = jobState[j]
        /\ \A j \in Batches \ {batch} : jobSlot'[j] = jobSlot[j]
        /\ \A j \in Batches : Open(j) => jobSlot[j] # Taken
    BY <1>2, PrefetchOpens
  <2>3. ASSUME NEW k \in 1 .. Len(stream'), NEW j \in Batches,
               stream'[k].op \in {"ids", "rows"}, jobState'[j] = "open",
               jobSlot'[j] = stream'[k].slot
        PROVE  \E l \in 1 .. Len(stream') : /\ l > k
                                            /\ stream'[l].op = "event" /\ stream'[l].batch = j
    <3>1. stream'[Len(stream) + 2].op = "event" /\ stream'[Len(stream) + 2].batch = batch
          /\ stream'[Len(stream) + 1].slot = Taken
      BY <2>1
    <3>2. CASE j = batch
      <4>1. k < Len(stream) + 2 /\ Len(stream) + 2 \in 1 .. Len(stream')
        BY <2>1, <2>3, <3>1
      <4>2. QED BY <3>1, <3>2, <4>1
    <3>3. CASE j # batch
      <4>1. Open(j) /\ jobSlot'[j] = jobSlot[j] /\ jobSlot[j] # Taken
        BY <2>2, <2>3, <3>3
      <4>2. k # Len(stream) + 1 /\ k # Len(stream) + 2
        BY <2>3, <3>1, <4>1
      <4> k \in 1 .. Len(stream)
        BY <2>1, <4>2
      <4>3. PICK l \in 1 .. Len(stream) : l > k /\ IsEvent(l, j)
        BY <1>1, <2>1, <2>3, <4>1
      <4>4. l \in 1 .. Len(stream') /\ stream'[l] = stream[l]
        BY <2>1
      <4>5. QED BY <4>3, <4>4
    <3>4. QED BY <3>2, <3>3
  <2>4. QED BY <2>3 DEF EventBehind
<1>3. CASE RowsReady /\ jobState[taking] = "ok"
  <2>1. /\ Len(stream') = Len(stream) + 1
        /\ \A i \in 1 .. Len(stream) : stream'[i] = stream[i]
        /\ stream'[Len(stream) + 1]
             = [op |-> "rows", slot |-> jobSlot[taking], batch |-> batch]
        /\ taking = batch /\ batch \in Batches /\ Len(stream) \in Nat
    BY <1>0, <1>3, ConsumeIssues
  <2>2. UNCHANGED <<jobSlot, jobState>>
    BY <1>3 DEF RowsReady, jobVars
  <2>3. jobs[jobSlot[batch]] = batch
    BY <1>3 DEF IInv, MainOrder, RowsReady
  <2>4. ASSUME NEW k \in 1 .. Len(stream'), NEW j \in Batches,
               stream'[k].op \in {"ids", "rows"}, jobState'[j] = "open",
               jobSlot'[j] = stream'[k].slot
        PROVE  \E l \in 1 .. Len(stream') : /\ l > k
                                            /\ stream'[l].op = "event" /\ stream'[l].batch = j
    <3>1. Open(j) /\ jobs[jobSlot[j]] = j
      BY <1>0, <2>2, <2>4 DEF JobOrder
    <3>2. k # Len(stream) + 1
      BY <1>3, <2>1, <2>2, <2>3, <2>4, <3>1
    <3>3. k \in 1 .. Len(stream) /\ stream'[k] = stream[k]
      BY <2>1, <3>2
    <3>4. PICK l \in 1 .. Len(stream) : l > k /\ IsEvent(l, j)
      BY <1>1, <2>2, <2>4, <3>1, <3>3
    <3>5. l \in 1 .. Len(stream') /\ stream'[l] = stream[l]
      BY <2>1
    <3>6. QED BY <3>4, <3>5
  <2>5. QED BY <2>4 DEF EventBehind
<1>4. CASE Fallback
  <2>1. Len(stream') = 1 /\ stream'[1].op = "stage"
    BY <1>4, FallbackIssues
  <2>2. QED BY <2>1 DEF EventBehind
<1>5. CASE WorkerWrite \/ WorkerFail
  <2>1. /\ jobState'[wjob] \in {"ok", "failed"}
        /\ \A j \in Batches \ {wjob} : jobState'[j] = jobState[j]
        /\ UNCHANGED <<jobSlot, stream>>
    BY <1>5, WorkerCloses
  <2>2. \A j \in Batches : jobState'[j] = "open" => Open(j)
    BY <2>1
  <2>3. QED BY <1>1, <2>1, <2>2 DEF EventBehind
<1>6. CASE CopyEnd \/ EventDone
  <2>1. /\ Len(stream') = Len(stream) - 1
        /\ \A i \in 1 .. Len(stream') : stream'[i] = stream[i + 1]
        /\ Len(stream) \in Nat
    BY <1>0, <1>6, StreamRuns
  <2>2. UNCHANGED <<jobSlot, jobState>>
    BY <1>6 DEF CopyEnd, EventDone, jobVars
  <2>3. ASSUME NEW k \in 1 .. Len(stream'), NEW j \in Batches,
               stream'[k].op \in {"ids", "rows"}, jobState'[j] = "open",
               jobSlot'[j] = stream'[k].slot
        PROVE  \E l \in 1 .. Len(stream') : /\ l > k
                                            /\ stream'[l].op = "event" /\ stream'[l].batch = j
    <3>1. k + 1 \in 1 .. Len(stream) /\ stream'[k] = stream[k + 1]
      BY <2>1
    <3>2. PICK l \in 1 .. Len(stream) : l > k + 1 /\ IsEvent(l, j)
      BY <1>1, <2>2, <2>3, <3>1
    <3>3. l - 1 \in 1 .. Len(stream') /\ l - 1 > k /\ stream'[l - 1] = stream[l]
      BY <2>1, <3>1, <3>2
    <3>4. QED BY <3>2, <3>3
  <2>4. QED BY <2>3 DEF EventBehind
<1>7. CASE ~(\/ SlotFree
             \/ RowsReady /\ jobState[taking] = "ok"
             \/ Fallback \/ WorkerWrite \/ WorkerFail
             \/ CopyEnd \/ EventDone)
  <2>1. UNCHANGED stream
    BY <1>7, StreamLeft
  <2>2. UNCHANGED <<jobSlot, jobState>>
    BY <1>7, JobsLeft
  <2>3. QED BY <1>1, <2>1, <2>2 DEF EventBehind
<1>8. QED BY <1>2, <1>3, <1>4, <1>5, <1>6, <1>7

\* While the worker is on a slot, no copy in or out of it is to come.
LEMMA WorkerAlone ==
  ASSUME IInv, wpc \in {"read", "write"}, NEW k \in 1 .. Len(stream), OfSlot(k)
  PROVE  stream[k].slot # jobSlot[wjob]
<1>1. wjob \in Batches /\ Open(wjob) /\ wjob \in evDone
  BY WorkerHas DEF IInv, JobOrder
<1>2. SUFFICES ASSUME stream[k].slot = jobSlot[wjob] PROVE FALSE
  OBVIOUS
<1>3. PICK l \in 1 .. Len(stream) : IsEvent(l, wjob)
  BY <1>1, <1>2 DEF IInv, EventBehind
<1>4. QED BY <1>1, <1>3 DEF IInv, EventOrder, IsEvent


\* A buffer keeps what its reader is to find.
LEMMA BuffersKept ==
  ASSUME IInv, [Next]_vars
  PROVE  BuffersHold'
<1>0. /\ BuffersHold /\ JobOrder /\ EventOrder /\ EventBehind /\ stream \in Seq(Ops)
      /\ jobSlot \in [Batches -> Slots] /\ jobs \in [Slots -> Batches \cup {0}]
      /\ jobState \in [Batches -> {"none", "open", "ok", "failed"}]
      /\ idsBuf \in [Slots -> Content] /\ rowsBuf \in [Slots -> Content]
      /\ wjob \in Batches \cup {0}
  BY DEF IInv, TypeOK
<1>1. \A k \in 1 .. Len(stream) : stream[k] \in Ops /\ stream[k].batch \in Batches
  BY <1>0, OpsTyped
<1>2. 0 \notin Batches
  BY DEF Batches
<1> DEFINE Ids == \A j \in Batches : (Open(j) /\ j \in evDone) => idsBuf[jobSlot[j]] = j
           Wread == wpc = "write" => wread = wjob
           Rows == \A s \in Slots :
                     (jobs[s] # 0 /\ jobState[jobs[s]] = "ok") => rowsBuf[s] = jobs[s]
           Sources == \A k \in 1 .. Len(stream) :
                        /\ stream[k].op = "rows" => rowsBuf[stream[k].slot] = stream[k].batch
                        /\ stream[k].op = "stage" => stage = stream[k].batch
<1>3. Ids /\ Wread /\ Rows /\ Sources
  BY <1>0 DEF BuffersHold
<1>4. SUFFICES Ids' /\ Wread' /\ Rows' /\ Sources'
  BY DEF BuffersHold
<1> USE DEF Open
<1>5. CASE SlotFree
  <2>1. /\ Len(stream') = Len(stream) + 2
        /\ \A i \in 1 .. Len(stream) : stream'[i] = stream[i]
        /\ stream'[Len(stream) + 1].op = "ids"
        /\ stream'[Len(stream) + 2].op = "event"
        /\ Len(stream) \in Nat /\ batch \in Batches
    BY <1>0, <1>5, PrefetchIssues
  <2>2. /\ jobState[batch] = "none" /\ jobState'[batch] = "open"
        /\ \A j \in Batches \ {batch} : jobState'[j] = jobState[j]
        /\ \A j \in Batches \ {batch} : jobSlot'[j] = jobSlot[j]
        /\ jobs'[Taken] = batch
        /\ \A s \in Slots \ {Taken} : jobs'[s] = jobs[s]
    BY <1>5, PrefetchOpens
  <2>3. UNCHANGED <<rowsBuf, stage, wpc, wjob, wread, idsBuf, evDone>>
    BY <1>5 DEF SlotFree, workerVars, gpuVars
  <2>4. batch \notin evDone
    BY <1>0, <2>2 DEF EventOrder
  <2>5. Ids'
    BY <1>3, <2>2, <2>3, <2>4
  <2>6. Wread'
    BY <1>3, <2>3
  <2>7. Rows'
    BY <1>0, <1>3, <2>2, <2>3
  <2>8. Sources'
    BY <1>3, <2>1, <2>3
  <2>9. QED BY <2>5, <2>6, <2>7, <2>8
<1>6. CASE RowsReady /\ jobState[taking] = "ok"
  <2>1. /\ Len(stream') = Len(stream) + 1
        /\ \A i \in 1 .. Len(stream) : stream'[i] = stream[i]
        /\ stream'[Len(stream) + 1]
             = [op |-> "rows", slot |-> jobSlot[taking], batch |-> batch]
        /\ Len(stream) \in Nat /\ batch \in Batches /\ taking = batch
    BY <1>0, <1>6, ConsumeIssues
  <2>2. UNCHANGED <<jobs, jobState, jobSlot, rowsBuf, stage, wpc, wjob, wread, idsBuf, evDone>>
    BY <1>6 DEF RowsReady, jobVars, workerVars, gpuVars
  <2>3. jobs[jobSlot[batch]] = batch
    BY <1>6 DEF IInv, MainOrder, RowsReady
  <2>4. rowsBuf[jobSlot[batch]] = batch
    BY <1>0, <1>2, <1>3, <1>6, <2>1, <2>3
  <2>5. Sources'
    <3>1. ASSUME NEW k \in 1 .. Len(stream')
          PROVE  /\ stream'[k].op = "rows" => rowsBuf[stream'[k].slot] = stream'[k].batch
                 /\ stream'[k].op = "stage" => stage = stream'[k].batch
      <4>1. CASE k = Len(stream) + 1
        BY <2>1, <2>4, <4>1
      <4>2. CASE k # Len(stream) + 1
        BY <1>3, <2>1, <4>2
      <4>3. QED BY <4>1, <4>2
    <3>2. QED BY <2>2, <3>1
  <2>6. QED BY <1>3, <2>2, <2>5
<1>7. CASE Fallback
  <2>1. /\ Len(stream') = 1 /\ stream'[1].op = "stage" /\ stream'[1].batch = batch
        /\ batch \in Batches
    BY <1>7, FallbackIssues
  <2>2. /\ stage' = batch
        /\ UNCHANGED <<jobs, jobState, jobSlot, rowsBuf, wpc, wjob, wread, idsBuf, evDone>>
    BY <1>7 DEF Fallback, jobVars, workerVars, gpuVars
  <2>3. Sources'
    BY <2>1, <2>2
  <2>4. QED BY <1>3, <2>2, <2>3
<1>8. CASE WorkerRead
  <2>1. wjob \in Batches /\ Open(wjob) /\ jobSlot[wjob] \in Slots /\ wjob \in evDone
    BY <1>0, <1>8, WorkerHas DEF WorkerRead, JobOrder
  <2>2. /\ wread' = idsBuf[jobSlot[wjob]]
        /\ \A s \in Slots \ {jobSlot[wjob]} : rowsBuf'[s] = rowsBuf[s]
        /\ UNCHANGED <<jobs, jobState, jobSlot, stage, wjob, idsBuf, evDone, stream>>
    BY <1>0, <1>8 DEF WorkerRead, jobVars, gpuVars
  <2>3. Wread'
    BY <1>3, <2>1, <2>2
  <2>4. Rows'
    BY <1>0, <1>3, <2>1, <2>2 DEF JobOrder
  <2>5. Sources'
    BY <1>1, <1>3, <1>8, <2>2, WorkerAlone, OpsTyped DEF WorkerRead, OfSlot
  <2>6. QED BY <1>3, <2>2, <2>3, <2>4, <2>5
<1>9. CASE WorkerWrite
  <2>1. /\ wjob \in Batches /\ Open(wjob) /\ jobSlot[wjob] \in Slots
        /\ jobState'[wjob] \in {"ok", "failed"}
        /\ \A j \in Batches \ {wjob} : jobState'[j] = jobState[j]
        /\ wpc' = "get"
        /\ UNCHANGED <<jobSlot, jobs, stream, idsBuf, evDone, stage, wjob>>
    BY <1>9, WorkerCloses
  <2>2. wread = wjob /\ jobs[jobSlot[wjob]] = wjob
    BY <1>0, <1>3, <1>9, <2>1 DEF WorkerWrite, JobOrder
  <2>3. /\ rowsBuf'[jobSlot[wjob]] = wjob
        /\ \A s \in Slots \ {jobSlot[wjob]} : rowsBuf'[s] = rowsBuf[s]
    BY <1>0, <1>9, <2>1, <2>2 DEF WorkerWrite
  <2>4. Ids' /\ Wread'
    BY <1>3, <2>1
  <2>5. Rows'
    <3>1. ASSUME NEW s \in Slots, jobs[s] # 0, jobState'[jobs[s]] = "ok"
          PROVE  rowsBuf'[s] = jobs[s]
      <4>1. CASE s = jobSlot[wjob]
        BY <2>2, <2>3, <4>1
      <4>2. CASE s # jobSlot[wjob]
        <5>1. jobs[s] # wjob
          BY <1>0, <3>1, <4>2 DEF JobOrder
        <5>2. QED BY <1>0, <1>3, <2>1, <2>3, <3>1, <4>2, <5>1
      <4>3. QED BY <4>1, <4>2
    <3>2. QED BY <2>1, <3>1
  <2>6. Sources'
    BY <1>1, <1>3, <1>9, <2>1, <2>3, WorkerAlone, OpsTyped DEF WorkerWrite, OfSlot
  <2>7. QED BY <2>4, <2>5, <2>6
<1>10. CASE WorkerFail
  <2>1. /\ wjob \in Batches /\ jobState'[wjob] \in {"ok", "failed"}
        /\ \A j \in Batches \ {wjob} : jobState'[j] = jobState[j]
        /\ wpc' = "get"
        /\ UNCHANGED <<jobSlot, jobs, stream, idsBuf, evDone, stage, wjob>>
    BY <1>10, WorkerCloses
  <2>2. UNCHANGED rowsBuf /\ jobState'[wjob] = "failed"
    BY <1>0, <1>10, <2>1 DEF WorkerFail
  <2>3. QED BY <1>0, <1>3, <2>1, <2>2
<1>11. CASE CopyStart
  <2>1. /\ Len(stream) > 0 /\ stream[1] \in Ops
        /\ \A s \in Slots : (stream[1].op # "ids" \/ s # stream[1].slot)
                              => idsBuf'[s] = idsBuf[s]
        /\ UNCHANGED <<jobs, jobSlot, jobState, rowsBuf, stage, wpc, wjob, wread, stream,
                       evDone>>
    BY <1>11, CopyStarts
  <2>2. Ids'
    <3>1. ASSUME NEW j \in Batches, Open(j), j \in evDone PROVE idsBuf'[jobSlot[j]] = j
      <4>1. stream[1].op # "ids" \/ jobSlot[j] # stream[1].slot
        <5>1. SUFFICES ASSUME stream[1].op = "ids", jobSlot[j] = stream[1].slot PROVE FALSE
          OBVIOUS
        <5>2. PICK l \in 1 .. Len(stream) : IsEvent(l, j)
          BY <1>0, <2>1, <3>1, <5>1 DEF EventBehind, OfSlot
        <5>3. QED BY <1>0, <3>1, <5>2 DEF EventOrder, IsEvent
      <4>2. QED BY <1>0, <1>3, <2>1, <3>1, <4>1
    <3>2. QED BY <2>1, <3>1
  <2>3. QED BY <1>3, <2>1, <2>2
<1>12. CASE CopyEnd
  <2>1. /\ Len(stream) > 0 /\ Len(stream') = Len(stream) - 1
        /\ \A i \in 1 .. Len(stream') : stream'[i] = stream[i + 1]
        /\ Len(stream) \in Nat
    BY <1>0, <1>12, StreamRuns
  <2>2. /\ stream[1].op = "ids" =>
             /\ stream[1].slot \in Slots
             /\ \A s \in Slots \ {stream[1].slot} : idsBuf'[s] = idsBuf[s]
        /\ stream[1].op # "ids" => UNCHANGED idsBuf
        /\ UNCHANGED <<jobs, jobSlot, jobState, rowsBuf, stage, wpc, wjob, wread, evDone>>
    BY <1>12, CopyLands
  <2>3. Ids'
    <3>1. ASSUME NEW j \in Batches, Open(j), j \in evDone PROVE idsBuf'[jobSlot[j]] = j
      <4>1. stream[1].op # "ids" \/ jobSlot[j] # stream[1].slot
        <5>1. SUFFICES ASSUME stream[1].op = "ids", jobSlot[j] = stream[1].slot PROVE FALSE
          OBVIOUS
        <5>2. PICK l \in 1 .. Len(stream) : IsEvent(l, j)
          BY <1>0, <2>1, <3>1, <5>1 DEF EventBehind, OfSlot
        <5>3. QED BY <1>0, <3>1, <5>2 DEF EventOrder, IsEvent
      <4>2. QED BY <1>0, <1>3, <2>2, <3>1, <4>1
    <3>2. QED BY <2>2, <3>1
  <2>4. Sources'
    BY <1>3, <2>1, <2>2
  <2>5. QED BY <1>3, <2>2, <2>3, <2>4
<1>13. CASE EventDone
  <2>1. /\ Len(stream) > 0 /\ Len(stream') = Len(stream) - 1
        /\ \A i \in 1 .. Len(stream') : stream'[i] = stream[i + 1]
        /\ Len(stream) \in Nat
    BY <1>0, <1>13, StreamRuns
  <2>2. /\ stream[1].op = "event" /\ evDone' = evDone \cup {stream[1].batch}
        /\ UNCHANGED <<jobs, jobSlot, jobState, rowsBuf, stage, wpc, wjob, wread, idsBuf>>
    BY <1>13, EventLands
  <2>3. idsBuf[jobSlot[stream[1].batch]] = stream[1].batch
    BY <1>0, <2>1, <2>2 DEF EventOrder
  <2>4. Ids'
    BY <1>3, <2>2, <2>3
  <2>5. Sources'
    BY <1>3, <2>1, <2>2
  <2>6. QED BY <1>3, <2>2, <2>4, <2>5
<1>14. CASE WorkerGet \/ WorkerSync
  BY <1>3, <1>14 DEF WorkerGet, WorkerSync, jobVars, gpuVars
<1>15. CASE \/ \E n \in Sizes : NewBatch(n)
            \/ Prefetch \/ SlotStuck \/ RowsLate \/ GatherRaises
            \/ \E pad \in {0, 1} : Consume(size[batch] + pad)
            \/ RowsReady /\ jobState[taking] # "ok"
            \/ UNCHANGED vars
  <2>1. UNCHANGED <<stream, rowsBuf, stage, wpc, wjob, wread, idsBuf, evDone>>
    BY <1>15 DEF NewBatch, Prefetch, SlotStuck, RowsLate, GatherRaises, Consume, RowsReady, vars,
                 workerVars, gpuVars
  <2>2. UNCHANGED <<jobs, jobSlot, jobState>>
    BY <1>15
       DEF NewBatch, Prefetch, SlotStuck, RowsLate, GatherRaises, Consume, RowsReady, vars, jobVars
  <2>3. QED BY <1>3, <2>1, <2>2
<1>16. QED
  BY <1>5, <1>6, <1>7, <1>8, <1>9, <1>10, <1>11, <1>12, <1>13, <1>14, <1>15
     DEF Next, MainStep, WorkerStep, GpuStep

\* What a running copy has read is what its source still holds.
LEMMA CopyKept ==
  ASSUME IInv, [Next]_vars
  PROVE  CopyRuns'
<1>0. CopyRuns /\ stream \in Seq(Ops)
  BY DEF IInv, TypeOK
<1>1. CASE SlotFree
  <2>1. /\ stream' \in Seq(Ops) /\ Len(stream') = Len(stream) + 2
        /\ \A i \in 1 .. Len(stream) : stream'[i] = stream[i]
    BY <1>1, PrefetchIssues
  <2>2. UNCHANGED gpu
    BY <1>1 DEF SlotFree, gpuVars
  <2>3. QED BY <1>0, <2>1, <2>2 DEF CopyRuns
<1>2. CASE RowsReady /\ jobState[taking] = "ok"
  <2>1. /\ stream' \in Seq(Ops) /\ Len(stream') = Len(stream) + 1
        /\ \A i \in 1 .. Len(stream) : stream'[i] = stream[i]
    BY <1>2, ConsumeIssues
  <2>2. UNCHANGED gpu
    BY <1>2 DEF RowsReady, gpuVars
  <2>3. QED BY <1>0, <2>1, <2>2 DEF CopyRuns
<1>3. CASE Fallback \/ CopyEnd \/ EventDone
  BY <1>3 DEF Fallback, StreamDrained, CopyEnd, EventDone, gpuVars, CopyRuns
<1>4. CASE CopyStart
  <2>1. /\ Len(stream) > 0 /\ stream[1].op # "event" /\ gpu' = stream[1].batch
        /\ UNCHANGED stream
    BY <1>4, CopyStarts
  <2>2. QED BY <1>0, <2>1 DEF CopyRuns
<1>5. CASE ~(\/ SlotFree
             \/ RowsReady /\ jobState[taking] = "ok"
             \/ Fallback \/ CopyStart \/ CopyEnd \/ EventDone)
  <2>1. UNCHANGED stream
    BY <1>5, StreamLeft
  <2>2. UNCHANGED gpu
    BY <1>5, BuffersLeft
  <2>3. QED BY <1>0, <2>1, <2>2 DEF CopyRuns
<1>6. QED BY <1>1, <1>2, <1>3, <1>4, <1>5

\* A copy delivers to a lookup what its batch is about.
LEMMA OwnKept ==
  ASSUME IInv, [Next]_vars
  PROVE  OwnRows'
<1>0. OwnRows /\ out \in [Batches -> Content]
  BY DEF IInv, TypeOK
<1>1. CASE CopyEnd
  BY <1>0, <1>1, CopyLands DEF OwnRows
<1>2. CASE CopyStart \/ EventDone
  BY <1>0, <1>2 DEF CopyStart, EventDone, OwnRows
<1>3. CASE ~(CopyStart \/ CopyEnd \/ EventDone)
  <2>1. UNCHANGED out
    BY <1>3, BuffersLeft
  <2>2. QED BY <1>0, <2>1 DEF OwnRows
<1>4. QED BY <1>1, <1>2, <1>3


\* The types, party by party.
LEMMA MainTyped ==
  ASSUME IInv, [Next]_vars
  PROVE  /\ mpc' \in {"idle", "prefetch", "waitSlot", "lookup", "waitJob", "fallback",
                    "raised"}
         /\ batch' \in 0 .. MaxBatch
         /\ size' \in [Batches -> Nat]
         /\ slot' \in Slots
         /\ pending' \in Batches \cup {0} /\ taking' \in Batches \cup {0}
         /\ stage' \in Content
<1> USE PlePrefetchAssumption
    DEF PlePrefetchAssumption, IInv, TypeOK, MainOrder, Batches, Slots, Content,
        workerVars, gpuVars, jobVars
<1>1. CASE \E n \in Sizes : NewBatch(n)
  BY <1>1 DEF NewBatch
<1>2. CASE Prefetch \/ SlotStuck
  <2>1. mpc' \in {"lookup", "waitSlot"} /\ UNCHANGED <<batch, size, pending, taking, stage>>
    BY <1>2 DEF Prefetch, SlotStuck
  <2>2. slot' \in {slot, 1 - slot}
    BY <1>2 DEF Prefetch, SlotStuck
  <2>3. QED BY <2>1, <2>2
<1>3. CASE SlotFree
  <2>1. batch \in Batches
    BY <1>3, PrefetchIssues
  <2>2. pending' = batch /\ mpc' = "lookup" /\ UNCHANGED <<batch, size, slot, taking, stage>>
    BY <1>3 DEF SlotFree
  <2>3. QED BY <2>1, <2>2
<1>4. CASE \E pad \in {0, 1} : Consume(size[batch] + pad)
  BY <1>4 DEF Consume
<1>5. CASE RowsReady \/ RowsLate \/ GatherRaises
  <2>1. mpc' \in {"idle", "fallback", "raised"}
        /\ UNCHANGED <<batch, size, slot, pending, taking, stage>>
    BY <1>5 DEF RowsReady, RowsLate, GatherRaises
  <2>2. QED BY <2>1
<1>6. CASE Fallback
  <2>1. batch \in Batches
    BY <1>6, FallbackIssues
  <2>2. stage' = batch /\ mpc' = "idle" /\ UNCHANGED <<batch, size, slot, pending, taking>>
    BY <1>6 DEF Fallback
  <2>3. QED BY <2>1, <2>2
<1>7. CASE WorkerStep \/ GpuStep \/ UNCHANGED vars
  BY <1>7 DEF WorkerStep, WorkerGet, WorkerSync, WorkerRead, WorkerWrite, WorkerFail,
              GpuStep, CopyStart, CopyEnd, EventDone, vars
<1>8. QED BY <1>1, <1>2, <1>3, <1>4, <1>5, <1>6, <1>7 DEF Next, MainStep

LEMMA JobsTyped ==
  ASSUME IInv, [Next]_vars
  PROVE  /\ jobs' \in [Slots -> Batches \cup {0}]
         /\ queue' \in Seq(Batches)
         /\ jobSlot' \in [Batches -> Slots]
         /\ jobState' \in [Batches -> {"none", "open", "ok", "failed"}]
         /\ wpc' \in {"get", "sync", "read", "write"}
         /\ wjob' \in Batches \cup {0} /\ wread' \in Content
         /\ rowsBuf' \in [Slots -> Content]
<1> USE DEF IInv, TypeOK
<1>1. CASE SlotFree
  <2>1. batch \in Batches /\ Taken \in Slots
    BY <1>1, PrefetchIssues
  <2>2. QED BY <1>1, <2>1 DEF SlotFree, workerVars
<1>2. CASE WorkerGet
  <2>1. Head(queue) \in Batches /\ Tail(queue) \in Seq(Batches)
    BY <1>2 DEF WorkerGet
  <2>2. QED BY <1>2, <2>1 DEF WorkerGet
<1>3. CASE WorkerRead \/ WorkerWrite \/ WorkerFail
  <2>1. wjob \in Batches /\ jobSlot[wjob] \in Slots
    BY <1>3, WorkerHas DEF WorkerRead, WorkerWrite, WorkerFail
  <2>2. Torn \in Content
    BY DEF Content
  <2>3. CASE WorkerRead
    <3>1. wread' \in Content /\ rowsBuf' \in [Slots -> Content]
      BY <2>1, <2>2, <2>3 DEF WorkerRead
    <3>2. wpc' = "write" /\ UNCHANGED <<jobs, queue, jobSlot, jobState, wjob>>
      BY <2>3 DEF WorkerRead, jobVars
    <3>3. QED BY <3>1, <3>2
  <2>4. CASE WorkerWrite
    <3>1. rowsBuf' \in [Slots -> Content]
      BY <2>1, <2>4 DEF WorkerWrite
    <3>2. jobState' \in [Batches -> {"none", "open", "ok", "failed"}]
      BY <2>1, <2>4 DEF WorkerWrite
    <3>3. wpc' = "get" /\ UNCHANGED <<jobs, queue, jobSlot, wjob, wread>>
      BY <2>4 DEF WorkerWrite
    <3>4. QED BY <3>1, <3>2, <3>3
  <2>5. CASE WorkerFail
    <3>1. jobState' \in [Batches -> {"none", "open", "ok", "failed"}]
      BY <2>1, <2>5 DEF WorkerFail
    <3>2. wpc' = "get" /\ UNCHANGED <<jobs, queue, jobSlot, wjob, wread, rowsBuf>>
      BY <2>5 DEF WorkerFail
    <3>3. QED BY <3>1, <3>2
  <2>6. QED BY <1>3, <2>3, <2>4, <2>5
<1>4. CASE WorkerSync
  BY <1>4 DEF WorkerSync, jobVars
<1>5. CASE MainStep /\ ~SlotFree
  <2>1. UNCHANGED <<jobs, queue, jobSlot, jobState, wpc, wjob, wread, rowsBuf>>
    BY <1>5 DEF MainStep, NewBatch, Prefetch, SlotStuck, Consume, RowsReady, RowsLate, GatherRaises,
                Fallback, jobVars, workerVars
  <2>2. QED BY <2>1
<1>6. CASE GpuStep \/ UNCHANGED vars
  <2>1. UNCHANGED <<jobs, queue, jobSlot, jobState, wpc, wjob, wread, rowsBuf>>
    BY <1>6 DEF GpuStep, CopyStart, CopyEnd, EventDone, vars, jobVars, workerVars
  <2>2. QED BY <2>1
<1>7. QED BY <1>1, <1>2, <1>3, <1>4, <1>5, <1>6 DEF Next, WorkerStep

LEMMA GpuTyped ==
  ASSUME IInv, [Next]_vars
  PROVE  /\ idsBuf' \in [Slots -> Content]
         /\ stream' \in Seq(Ops)
         /\ gpu' \in Content \cup {Idle}
         /\ evDone' \in SUBSET Batches
         /\ out' \in [Batches -> Content]
<1>0. /\ idsBuf \in [Slots -> Content] /\ stream \in Seq(Ops)
      /\ gpu \in Content \cup {Idle} /\ evDone \in SUBSET Batches
      /\ out \in [Batches -> Content]
  BY DEF IInv, TypeOK
<1>1. Torn \in Content /\ Batches \subseteq Content
  BY DEF Content
<1>2. stream' \in Seq(Ops)
  <2>1. CASE \/ SlotFree
             \/ RowsReady /\ jobState[taking] = "ok"
             \/ Fallback \/ CopyEnd \/ EventDone
    BY <2>1, PrefetchIssues, ConsumeIssues, FallbackIssues, StreamRuns
  <2>2. CASE ~(\/ SlotFree
               \/ RowsReady /\ jobState[taking] = "ok"
               \/ Fallback \/ CopyEnd \/ EventDone)
    BY <1>0, <2>2, StreamLeft
  <2>3. QED BY <2>1, <2>2
<1>3. CASE CopyStart
  <2>1. gpu' = stream[1].batch /\ stream[1].batch \in Batches /\ UNCHANGED <<evDone, out>>
    BY <1>3, CopyStarts
  <2>2. idsBuf' \in [Slots -> Content]
    BY <1>0, <1>1, <1>3 DEF CopyStart
  <2>3. QED BY <1>0, <1>1, <1>2, <2>1, <2>2
<1>4. CASE CopyEnd
  <2>1. gpu' = Idle /\ UNCHANGED evDone
    BY <1>4, CopyLands
  <2>2. gpu \in Content
    BY <1>0, <1>4 DEF CopyEnd
  <2>3. idsBuf' \in [Slots -> Content] /\ out' \in [Batches -> Content]
    BY <1>0, <1>1, <1>4, <2>2 DEF CopyEnd
  <2>4. QED BY <1>0, <1>2, <2>1, <2>3
<1>5. CASE EventDone
  BY <1>0, <1>2, <1>5, EventLands
<1>6. CASE ~(CopyStart \/ CopyEnd \/ EventDone)
  <2>1. UNCHANGED <<idsBuf, gpu, evDone, out>>
    BY <1>6, BuffersLeft
  <2>2. QED BY <1>0, <1>2, <2>1
<1>7. QED BY <1>3, <1>4, <1>5, <1>6

LEMMA InitHolds == ASSUME Init PROVE IInv
<1> USE PlePrefetchAssumption DEF PlePrefetchAssumption, Init
<1>1. TypeOK
  BY DEF TypeOK, Batches, Slots, Content
<1>2. MainOrder /\ JobOrder
  BY DEF MainOrder, JobOrder, Open, Batches
<1>3. EventOrder /\ EventBehind /\ CopyRuns
  BY DEF EventOrder, EventBehind, CopyRuns
<1>4. BuffersHold /\ OwnRows
  BY DEF BuffersHold, OwnRows
<1>5. QED BY <1>1, <1>2, <1>3, <1>4 DEF IInv

\* Every step keeps the invariant, part by part.
LEMMA NextHolds == ASSUME IInv, [Next]_vars PROVE IInv'
<1>1. TypeOK'
  BY MainTyped, JobsTyped, GpuTyped DEF TypeOK
<1>2. QED BY <1>1, MainKept, JobsKept, EventsKept, BehindKept, BuffersKept, CopyKept,
   OwnKept
          DEF IInv

-----------------------------------------------------------------------------
(* The theorems.                                                           *)

\* The order of jobs, events and copies between the main thread, the worker
\* and the stream of vllm_ple_mmap.
THEOREM PrefetchInvariant == Spec => []IInv
BY InitHolds, NextHolds, PTL DEF Spec

\* The variables of the model keep their types.
THEOREM PrefetchTypes == Spec => []TypeOK
<1>1. IInv => TypeOK
  BY DEF IInv
<1>2. QED BY <1>1, PrefetchInvariant, PTL

\* No time-out, failure or reuse of a slot makes a lookup deliver the rows of
\* another batch, or rows rewritten under the copy.
THEOREM LookupsGetOwnRows == Spec => []OwnRows
<1>1. IInv => OwnRows
  BY DEF IInv
<1>2. QED BY <1>1, PrefetchInvariant, PTL

\* The GPU never copies into or out of a slot the worker is on.
THEOREM WorkerAndStreamApart == Spec => []NoRace
<1>1. ASSUME IInv PROVE NoRace
  <2>1. SUFFICES ASSUME gpu # Idle, wpc \in {"read", "write"},
                        Head(stream).op \in {"ids", "rows"},
                        Head(stream).slot = jobSlot[wjob]
                 PROVE  FALSE
    BY DEF NoRace
  <2>2. 1 \in 1 .. Len(stream) /\ Head(stream) = stream[1]
    BY <1>1, <2>1 DEF IInv, TypeOK, CopyRuns
  <2>3. QED BY <1>1, <2>1, <2>2, WorkerAlone DEF OfSlot
<1>2. QED BY <1>1, PrefetchInvariant, PTL

=============================================================================
