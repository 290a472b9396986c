--------------------------- MODULE MetricsSidecar ---------------------------
(***************************************************************************)
(* src/src/vllm_custom_metrics: threads of the engine count, push and      *)
(* start the sidecar; its refresher turns lifetime counters into increments *)
(* of Prometheus counters and reads the pin statistics of a pool that the   *)
(* engine thread keeps changing.  With it the telemetry of the guard        *)
(* (mamba_utils_guarded), which reaches the sidecar through a mirror, and   *)
(* the benchmark (bench/perf.py), which reads the sidecar from outside.     *)
(*                                                                         *)
(* Only the reads and writes that other threads can come between are steps. *)
(***************************************************************************)
EXTENDS Integers, FiniteSets

CONSTANTS
  Pushers,   \* engine-side threads that push a source and so call start()
  Keys,      \* counters of _STATS_LIFE
  MaxCount,  \* bound: increments per counter, guard hits, blocks in the pin
  Period,    \* steps between two guard reports (512 in the code)
  MaxCopies, \* bound: copies of the guard's counter on their way at once
  Traffics   \* bound: sets of sources ("ple", "guard", "pin") that move together

ASSUME SidecarAssumption ==
  /\ Period \in Nat \ {0} /\ MaxCount \in Nat /\ MaxCopies \in Nat
  /\ "guard" \notin Keys /\ "nobody" \notin Pushers

VARIABLES
  traffic,         \* the sources that move in this behaviour
  started, lock,   \* _started; which thread holds _lock, or Nobody
  spc,             \* pusher -> where it is in start()
  refreshers,      \* refresher threads running
  endpoint,        \* "none", "serving", "announced" or "failed"
  life, lastLife,  \* _STATS_LIFE, and the snapshot of the last refresh
  gpuHits, mirror, \* guard_hits on the GPU; guard_hits_cpu
  step, copying,   \* guard_step % Period; copies of gpuHits on their way
  reported,        \* guard_reported: what has been logged
  guardHits, lastGuard,   \* _guard_hits[0] and _last_guard[0]
  exported,        \* Prometheus counters
  pin,             \* the pool: blocks reserved, and how many of them are held
  gauges,          \* the never-evict gauges
  rpc, todo, stats,\* refresher: position, keys left, what it has read of pin
  grown,           \* the pin's dict grew while the refresher walks it
  bench,           \* benchmark: position
  seen, waited,    \* _SIDECAR_SEEN; refreshes of the wait: "none", "begun", "whole"
  base, ops,       \* the read that opens the section (or Unread); ops counted in it
  calm,            \* whether that read was waited for
  row              \* the section's result: what it shows, what it should show,
                   \* and whether its opening read was waited for

startVars == <<started, lock, spc, refreshers, endpoint>>
guardVars == <<gpuHits, mirror, step, copying, reported, guardHits>>
engineVars == <<life, guardVars, pin, grown>>
refreshVars == <<lastLife, lastGuard, exported, gauges, rpc, todo, stats>>
benchVars == <<bench, seen, waited, base, ops, calm, row>>
vars == <<traffic, startVars, engineVars, refreshVars, benchVars>>

Nobody == "nobody"
Zero == [k \in Keys |-> 0]
Unread == [k \in Keys |-> -1]

Pins == [reserved : Nat, held : Nat]

StartTypes ==
  /\ started \in BOOLEAN /\ lock \in Pushers \cup {Nobody}
  /\ spc \in [Pushers -> {"out", "lock", "thread", "bind", "announce"}]
  /\ refreshers \in Nat /\ endpoint \in {"none", "serving", "announced", "failed"}
EngineTypes ==
  /\ life \in [Keys -> Nat]
  /\ gpuHits \in Nat /\ mirror \in Nat /\ reported \in Nat /\ guardHits \in Nat
  /\ step \in 0 .. Period - 1 /\ copying \in Nat
  /\ pin \in Pins /\ grown \in BOOLEAN
RefreshTypes ==
  /\ lastLife \in [Keys -> Nat] /\ lastGuard \in Nat
  /\ exported \in [Keys \cup {"guard"} -> Nat]
  /\ rpc \in {"asleep", "keys", "guard", "guardLast", "pin", "walk", "pinHeld"}
  /\ todo \in SUBSET Keys
  /\ gauges \in Pins /\ stats \in Nat
BenchTypes ==
  /\ bench \in {"off", "between", "opening", "section", "closing"}
  /\ seen \in BOOLEAN /\ waited \in {"none", "begun", "whole"}
  /\ base \in [Keys -> Nat] \cup {Unread} /\ ops \in [Keys -> Nat]
  /\ calm \in BOOLEAN /\ row \in [shown : Int, counted : Nat, calm : BOOLEAN]
TypeOK == StartTypes /\ EngineTypes /\ RefreshTypes /\ BenchTypes

Init ==
  /\ traffic \in Traffics
  /\ started = FALSE /\ lock = Nobody /\ spc = [p \in Pushers |-> "out"]
  /\ refreshers = 0 /\ endpoint = "none"
  /\ life = Zero /\ lastLife = Zero
  /\ gpuHits = 0 /\ mirror = 0 /\ step = 0 /\ copying = 0 /\ reported = 0
  /\ guardHits = 0 /\ lastGuard = 0
  /\ exported = [k \in Keys \cup {"guard"} |-> 0]
  /\ pin = [reserved |-> 0, held |-> 0] /\ gauges = [reserved |-> 0, held |-> 0]
  /\ rpc = "asleep" /\ todo = {} /\ stats = 0 /\ grown = FALSE
  /\ bench = "off" /\ seen = FALSE /\ waited = "none"
  /\ base = Zero /\ ops = Zero /\ calm = FALSE
  /\ row = [shown |-> 0, counted |-> 0, calm |-> FALSE]

-----------------------------------------------------------------------------
(* The engine.                                                             *)

\* _stats_add(), on the engine's thread.  The benchmark is the only client:
\* the last op of its requests may still be counted while it waits.
StatsAdd(k) ==
  /\ "ple" \in traffic /\ life[k] < MaxCount
  /\ life' = [life EXCEPT ![k] = @ + 1]
  /\ ops' = [ops EXCEPT ![k] = @ + 1]
  /\ waited' = "none"
  /\ UNCHANGED <<traffic, startVars, guardVars, pin, grown, refreshVars, bench, seen, base, calm, row>>

\* A program of a copy kernel finds a block outside the pool.
GuardHit ==
  /\ "guard" \in traffic /\ gpuHits < MaxCount
  /\ gpuHits' = gpuHits + 1
  /\ UNCHANGED <<traffic, startVars, life, mirror, step, copying, reported, guardHits,
                 pin, grown, refreshVars, benchVars>>

\* Mutant: the mirror is refreshed only after a report.
PrecopyStepReporting ==
  /\ "guard" \in traffic
  /\ step' = (step + 1) % Period
  /\ IF step' # 0 THEN UNCHANGED <<copying, reported, guardHits>>
     ELSE /\ copying < MaxCopies
          /\ guardHits' = mirror
          /\ reported' = IF mirror > reported THEN mirror ELSE reported
          /\ copying' = IF mirror > reported THEN copying + 1 ELSE copying
  /\ UNCHANGED <<traffic, startVars, life, gpuHits, mirror, pin, grown, refreshVars, benchVars>>

\* run_fused_precopy(): every Period steps the mirror is pushed and logged as
\* the copies made so far have left it, and one more copy is asked for.
PrecopyStep ==
  /\ "guard" \in traffic
  /\ step' = (step + 1) % Period
  /\ IF step' # 0 THEN UNCHANGED <<copying, reported, guardHits>>
     ELSE /\ copying < MaxCopies
          /\ guardHits' = mirror
          /\ reported' = IF mirror > reported THEN mirror ELSE reported
          /\ copying' = copying + 1
  /\ UNCHANGED <<traffic, startVars, life, gpuHits, mirror, pin, grown, refreshVars, benchVars>>

\* The GPU comes to the next copy.
MirrorCopy ==
  /\ copying > 0
  /\ mirror' = gpuHits /\ copying' = copying - 1
  /\ UNCHANGED <<traffic, startVars, life, gpuHits, step, reported, guardHits,
                 pin, grown, refreshVars, benchVars>>

\* The scheduler thread reserves and holds a block, lends it, takes it back,
\* or replaces the pin.
PinChanges ==
  /\ "pin" \in traffic
  /\ \/ pin.reserved < MaxCount
        /\ pin' = [reserved |-> pin.reserved + 1, held |-> pin.held + 1]
     \/ pin.held > 0 /\ pin' = [pin EXCEPT !.held = @ - 1]
     \/ pin.held < pin.reserved /\ pin' = [pin EXCEPT !.held = @ + 1]
     \/ pin.reserved > 0 /\ pin' = [reserved |-> 0, held |-> 0]
  /\ grown' = (grown \/ (rpc = "walk" /\ pin'.reserved > pin.reserved))
  /\ UNCHANGED <<traffic, startVars, life, guardVars, refreshVars, benchVars>>

-----------------------------------------------------------------------------
(* start(), by any thread that pushes.                                     *)

StartCall(p) ==
  /\ spc[p] = "out" /\ ~started
  /\ spc' = [spc EXCEPT ![p] = "lock"]
  /\ UNCHANGED <<traffic, started, lock, refreshers, endpoint, engineVars, refreshVars, benchVars>>

\* Mutant: the flag is not looked at again under the lock.
StartLockedUnchecked(p) ==
  /\ spc[p] = "lock" /\ lock = Nobody
  /\ lock' = p /\ started' = TRUE /\ spc' = [spc EXCEPT ![p] = "thread"]
  /\ UNCHANGED <<traffic, refreshers, endpoint, engineVars, refreshVars, benchVars>>

StartLocked(p) ==
  /\ spc[p] = "lock" /\ lock = Nobody
  /\ IF started
     THEN spc' = [spc EXCEPT ![p] = "out"] /\ UNCHANGED <<started, lock>>
     ELSE /\ lock' = p /\ started' = TRUE
          /\ spc' = [spc EXCEPT ![p] = "thread"]
  /\ UNCHANGED <<traffic, refreshers, endpoint, engineVars, refreshVars, benchVars>>

StartThread(p) ==
  /\ spc[p] = "thread"
  /\ refreshers' = refreshers + 1
  /\ spc' = [spc EXCEPT ![p] = "bind"]
  /\ UNCHANGED <<traffic, started, lock, endpoint, engineVars, refreshVars, benchVars>>

\* The port is bound, or is not: that is logged, and never tried again.
StartServer(p) ==
  /\ spc[p] = "bind"
  /\ \/ endpoint' = "serving" /\ spc' = [spc EXCEPT ![p] = "announce"] /\ UNCHANGED lock
     \/ endpoint' = "failed" /\ spc' = [spc EXCEPT ![p] = "out"] /\ lock' = Nobody
  /\ UNCHANGED <<traffic, started, refreshers, engineVars, refreshVars, benchVars>>

Announce(p) ==
  /\ spc[p] = "announce"
  /\ endpoint' = "announced" /\ lock' = Nobody /\ spc' = [spc EXCEPT ![p] = "out"]
  /\ UNCHANGED <<traffic, started, refreshers, engineVars, refreshVars, benchVars>>

-----------------------------------------------------------------------------
(* _refresh_once(), by the refresher.                                      *)

Wake ==
  /\ rpc = "asleep" /\ refreshers > 0
  /\ rpc' = "keys" /\ todo' = Keys
  /\ waited' = IF waited = "none" THEN "begun" ELSE waited
  /\ UNCHANGED <<traffic, startVars, engineVars, lastLife, lastGuard, exported, gauges,
                 stats, bench, seen, base, ops, calm, row>>

\* A counter grows by what its source grew since the snapshot.
Export(k) ==
  /\ rpc = "keys" /\ k \in todo
  /\ exported' = [exported EXCEPT ![k] = @ + (life[k] - lastLife[k])]
  /\ todo' = todo \ {k}
  /\ UNCHANGED <<traffic, startVars, engineVars, lastLife, lastGuard, gauges, rpc, stats, benchVars>>

\* Mutant: the snapshot is not taken.
SnapshotForgotten ==
  /\ rpc = "keys" /\ todo = {}
  /\ rpc' = "guard"
  /\ UNCHANGED <<traffic, startVars, engineVars, lastLife, lastGuard, exported, gauges, todo, stats, benchVars>>

\* The snapshot is a second read of the sources.
Snapshot ==
  /\ rpc = "keys" /\ todo = {}
  /\ lastLife' = life
  /\ rpc' = "guard"
  /\ UNCHANGED <<traffic, startVars, engineVars, lastGuard, exported, gauges, todo, stats, benchVars>>

ExportGuard ==
  /\ rpc = "guard"
  /\ IF guardHits > lastGuard
     THEN /\ exported' = [exported EXCEPT !["guard"] = @ + (guardHits - lastGuard)]
          /\ rpc' = "guardLast"
     ELSE rpc' = "pin" /\ UNCHANGED exported
  /\ UNCHANGED <<traffic, startVars, engineVars, lastLife, lastGuard, gauges, todo, stats, benchVars>>

GuardLast ==
  /\ rpc = "guardLast"
  /\ lastGuard' = guardHits
  /\ rpc' = "pin"
  /\ UNCHANGED <<traffic, startVars, engineVars, lastLife, exported, gauges, todo, stats, benchVars>>

\* get_pin_stats() begins to walk the pin's dict.
WalkPin ==
  /\ rpc = "pin" /\ rpc' = "walk" /\ grown' = FALSE
  /\ UNCHANGED <<traffic, startVars, life, guardVars, pin, lastLife, lastGuard, exported,
                 gauges, todo, stats, benchVars>>

\* The refresh is over; a wait for a whole one may be.
Sleep == /\ rpc' = "asleep"
         /\ waited' = IF waited = "begun" THEN "whole" ELSE waited

\* A dict that grew during the walk ends this refresh; else the two counts
\* are read one after the other.
ReadPin ==
  /\ rpc = "walk"
  /\ IF grown THEN Sleep /\ UNCHANGED stats
     ELSE stats' = pin.reserved /\ rpc' = "pinHeld" /\ UNCHANGED waited
  /\ UNCHANGED <<traffic, startVars, engineVars, lastLife, lastGuard, exported, gauges, todo,
                 bench, seen, base, ops, calm, row>>

\* Mutant: the gauges are set only when the reserved count has changed.
SetGaugesOnChange ==
  /\ rpc = "pinHeld"
  /\ gauges' = IF stats = gauges.reserved THEN gauges ELSE [reserved |-> stats, held |-> pin.held]
  /\ Sleep
  /\ UNCHANGED <<traffic, startVars, engineVars, lastLife, lastGuard, exported, todo, stats,
                 bench, seen, base, ops, calm, row>>

SetGauges ==
  /\ rpc = "pinHeld"
  /\ gauges' = [reserved |-> stats, held |-> pin.held]
  /\ Sleep
  /\ UNCHANGED <<traffic, startVars, engineVars, lastLife, lastGuard, exported, todo, stats,
                 bench, seen, base, ops, calm, row>>

-----------------------------------------------------------------------------
(* bench/perf.py, against a served model: the engine's scheduler has       *)
(* started the sidecar.                                                    *)

benchFrame == UNCHANGED <<traffic, startVars, engineVars, refreshVars>>

Counters == [k \in Keys |-> exported[k]]

\* The read itself, which may fail, or run into its time-out.
Scrape(read) ==
  \/ endpoint # "failed" /\ read = Counters
  \/ read = Unread

\* main(): an unsettled read, whose answer is only looked at for being there.
Probe ==
  /\ bench = "off" /\ "ple" \in traffic /\ endpoint # "none"
  /\ \E read \in {Counters, Unread} : Scrape(read) /\ seen' = (read # Unread)
  /\ bench' = "between"
  /\ UNCHANGED <<waited, base, ops, calm, row>> /\ benchFrame

\* sidecar(settle=True): sleep the sidecar's period and a second ...
Settle ==
  /\ bench \in {"between", "section"}
  /\ bench' = IF bench = "between" THEN "opening" ELSE "closing"
  /\ waited' = "none"
  /\ UNCHANGED <<seen, base, ops, calm, row>> /\ benchFrame

\* Mutant: read at once.
SettledAtOnce == TRUE

\* ... in which a refresh began and ended (the period is one that the sidecar
\* takes as it is, 1 to 60 s), unless the sidecar was never seen.
Settled == seen => waited = "whole"

\* Any read that succeeds shows the sidecar to be there: the next is waited for.
OpenRead ==
  /\ bench = "opening" /\ Settled
  /\ \E read \in {Counters, Unread} :
       Scrape(read) /\ base' = read /\ seen' = (seen \/ read # Unread)
  /\ calm' = seen /\ bench' = "section" /\ ops' = Zero
  /\ UNCHANGED <<waited, row>> /\ benchFrame

\* The read that closes a section opens the next one of a sweep, or other
\* traffic follows.
CloseRead ==
  /\ bench = "closing" /\ Settled
  /\ \E read \in {Counters, Unread}, k \in Keys :
       /\ Scrape(read) /\ base' = read /\ seen' = (seen \/ read # Unread)
       /\ row' = IF Unread \in {base, read} THEN [shown |-> 0, counted |-> 0, calm |-> calm]
                 ELSE [shown |-> read[k] - base[k], counted |-> ops[k], calm |-> calm]
  /\ calm' = seen /\ bench' \in {"section", "between"} /\ ops' = Zero
  /\ UNCHANGED waited /\ benchFrame

-----------------------------------------------------------------------------

Engine == \/ \E k \in Keys : StatsAdd(k)
          \/ GuardHit \/ PrecopyStep \/ MirrorCopy \/ PinChanges

Start == \E p \in Pushers : \/ StartCall(p) \/ StartLocked(p) \/ StartThread(p)
                            \/ StartServer(p) \/ Announce(p)

Refresh == \/ Wake \/ Snapshot \/ ExportGuard \/ GuardLast \/ WalkPin \/ ReadPin \/ SetGauges
           \/ \E k \in Keys : Export(k)

Bench == Probe \/ Settle \/ OpenRead \/ CloseRead

Next == Engine \/ Start \/ Refresh \/ Bench

Spec == Init /\ [][Next]_vars

\* The scheduler starts the sidecar, threads and the GPU are scheduled; of the
\* traffic nothing is assumed.
FairSpec == Spec /\ WF_vars(Start) /\ WF_vars(Refresh) /\ WF_vars(MirrorCopy)

-----------------------------------------------------------------------------
(* Correctness.                                                            *)

\* However many threads push first, one refresher runs: two would export
\* every increment twice.
OneRefresher == refreshers <= 1

\* A Prometheus counter never exceeds what happened: the ops counted, the
\* copies the GPU skipped.
NeverOvercounts == /\ \A k \in Keys : exported[k] <= life[k]
                   /\ exported["guard"] <= gpuHits /\ reported <= gpuHits

\* Between two refreshes the exported counters are the lifetime counters up
\* to the snapshot, and the guard's hits up to what is remembered: nothing is
\* lost.
NothingLost ==
  (rpc = "asleep") => /\ \A k \in Keys : exported[k] = lastLife[k]
                      /\ exported["guard"] = lastGuard

\* Once any read has found the sidecar before a section opens, the section is
\* charged with ops of its own only: no op of earlier traffic spills into it
\* through a refresh still to come, whichever reads fail.  (The first read to
\* find it is not waited for: a section that it opens may be charged with what
\* the refresher still owed.)
SectionsApart == row.calm => row.shown <= row.counted

\* While steps go on, every skipped copy is logged and the tripwire counter
\* has grown, though no step ever waits for the GPU: the mirror is one report
\* late, never behind for good.  (The counter may miss hits pushed between the
\* two reads of a refresh, never the first.)
GuardReported ==
  []<><<PrecopyStep>>_vars =>
    \A n \in 1 .. MaxCount : (gpuHits >= n) ~> (exported["guard"] >= 1 /\ reported >= n)

\* Once the pin is left alone the gauges show it, whatever mixture of old and
\* new counts, or failed walks, the refreshes before had made of it.
GaugesSettle == <>[][pin' = pin]_pin => <>[](gauges = pin)

=============================================================================
