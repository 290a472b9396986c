------------------------ MODULE MetricsSidecarProofs ------------------------
(***************************************************************************)
(* The safety properties of the sidecar hold for any number of pushing     *)
(* threads, counters and steps.  They are proved from three invariants     *)
(* that stand apart: who may be inside start(), in which order the counts  *)
(* of the guard and of the keys follow one another, and what the benchmark *)
(* can still be charged with.                                              *)
(***************************************************************************)
EXTENDS MetricsSidecar, TLAPS

(* start(): the one that holds the lock is the only one that makes the     *)
(* refresher and binds the port, and it does so once.                      *)

Making(p) == spc[p] \in {"thread", "bind", "announce"}

StartOnce ==
  /\ \A p \in Pushers : Making(p) => lock = p /\ started
  /\ ~started => refreshers = 0 /\ endpoint = "none"
  /\ \A p \in Pushers : spc[p] = "thread" => refreshers = 0
  /\ \A p \in Pushers : spc[p] \in {"thread", "bind"} => endpoint = "none"
  /\ \A p \in Pushers : spc[p] = "announce" => endpoint = "serving"
  /\ refreshers <= 1

(* The guard: each count is a late copy of the one before it.              *)

GuardOrder ==
  /\ lastGuard <= guardHits /\ guardHits <= mirror /\ mirror <= gpuHits
  /\ reported <= mirror
  /\ exported["guard"] <= guardHits
  /\ rpc # "guardLast" => exported["guard"] <= lastGuard

(* The keys: the snapshot covers what is exported, except for the keys the *)
(* running refresh has dealt with.                                         *)

Dealt(k) == rpc = "keys" /\ k \notin todo

LifeOrder ==
  \A k \in Keys :
    /\ lastLife[k] <= life[k] /\ exported[k] <= life[k]
    /\ ~Dealt(k) => exported[k] <= lastLife[k]

(* The benchmark: what a refresh still to come can add, and when it is     *)
(* nothing.                                                                *)

Reach(k) == exported[k] + (IF Dealt(k) THEN 0 ELSE life[k] - lastLife[k])

CalmSeen == (calm => seen) /\ (bench = "off" => ~calm)

WholeWait ==
  /\ waited = "whole" => life = lastLife
  /\ waited = "begun" => rpc # "asleep" /\ (rpc # "keys" => life = lastLife)

Charged ==
  /\ calm /\ bench \in {"section", "closing"} /\ base # Unread =>
       \A k \in Keys : Reach(k) <= base[k] + ops[k]
  /\ row.calm => row.shown <= row.counted

IInv == TypeOK /\ StartOnce /\ GuardOrder /\ LifeOrder /\ CalmSeen /\ WholeWait
        /\ Charged

-----------------------------------------------------------------------------
(* The invariant holds at the start.                                       *)

LEMMA InitIInv == Init => IInv
<1> SUFFICES ASSUME Init PROVE IInv
  OBVIOUS
<1> USE SidecarAssumption DEF Init, Zero
<1>1. TypeOK
  <2>1. started \in BOOLEAN /\ calm \in BOOLEAN /\ grown \in BOOLEAN /\ seen \in BOOLEAN
    OBVIOUS
  <2>2. pin \in Pins /\ gauges \in Pins /\ row \in [shown : Int, counted : Nat, calm : BOOLEAN]
    BY DEF Pins
  <2>3. spc \in [Pushers -> {"out", "lock", "thread", "bind", "announce"}]
    OBVIOUS
  <2>4. life \in [Keys -> Nat] /\ exported \in [Keys \cup {"guard"} -> Nat]
    OBVIOUS
  <2> QED BY <2>1, <2>2, <2>3, <2>4 DEF TypeOK, StartTypes, EngineTypes, RefreshTypes, BenchTypes
<1>2. StartOnce
  BY DEF StartOnce, Making
<1>3. GuardOrder /\ LifeOrder
  BY DEF GuardOrder, LifeOrder, Dealt
<1>4. CalmSeen /\ WholeWait /\ Charged
  BY DEF CalmSeen, WholeWait, Charged
<1> QED BY <1>1, <1>2, <1>3, <1>4 DEF IInv

-----------------------------------------------------------------------------
(* What the parties leave alone.                                           *)

LEMMA EngineFrame ==
  ASSUME Engine
  PROVE  UNCHANGED <<startVars, refreshVars, bench, seen, base, calm, row>>
<1> QED BY DEF Engine, StatsAdd, GuardHit, PrecopyStep, MirrorCopy, PinChanges,
               startVars, refreshVars, benchVars

LEMMA StartFrame ==
  ASSUME Start
  PROVE  UNCHANGED <<engineVars, refreshVars, benchVars>>
<1> QED BY DEF Start, StartCall, StartLocked, StartThread, StartServer, Announce

LEMMA RefreshFrame ==
  ASSUME Refresh
  PROVE  /\ UNCHANGED <<startVars, life, guardVars, pin, bench, seen, base, ops, calm, row>>
         /\ waited' # waited => rpc' # rpc
<1> QED BY DEF Refresh, Wake, Snapshot, ExportGuard, GuardLast, WalkPin, ReadPin,
               SetGauges, Export, Sleep, engineVars, benchVars

LEMMA BenchFrame ==
  ASSUME Bench
  PROVE  UNCHANGED <<startVars, engineVars, refreshVars>>
<1> QED BY DEF Bench, Probe, Settle, OpenRead, CloseRead, benchFrame

-----------------------------------------------------------------------------
(* Each part of the invariant is preserved.                                *)

LEMMA StartOnceStep == TypeOK /\ StartOnce /\ [Next]_vars => StartOnce'
<1> SUFFICES ASSUME TypeOK, StartOnce, [Next]_vars PROVE StartOnce'
  OBVIOUS
<1> USE SidecarAssumption DEF Making, Nobody
<1>1. ASSUME NEW p \in Pushers, StartCall(p) PROVE StartOnce'
  BY <1>1 DEF StartCall, StartOnce, TypeOK, StartTypes
<1>2. ASSUME NEW p \in Pushers, StartLocked(p) PROVE StartOnce'
  BY <1>2 DEF StartLocked, StartOnce, TypeOK, StartTypes
<1>3. ASSUME NEW p \in Pushers, StartThread(p) PROVE StartOnce'
  BY <1>3 DEF StartThread, StartOnce, TypeOK, StartTypes
<1>4. ASSUME NEW p \in Pushers, StartServer(p) PROVE StartOnce'
  BY <1>4 DEF StartServer, StartOnce, TypeOK, StartTypes
<1>5. ASSUME NEW p \in Pushers, Announce(p) PROVE StartOnce'
  BY <1>5 DEF Announce, StartOnce, TypeOK, StartTypes
<1>6. CASE UNCHANGED startVars
  BY <1>6 DEF startVars, StartOnce
<1> QED
  BY <1>1, <1>2, <1>3, <1>4, <1>5, <1>6, EngineFrame, RefreshFrame, BenchFrame
  DEF Next, Start, vars

LEMMA GuardOrderStep == TypeOK /\ GuardOrder /\ [Next]_vars => GuardOrder'
<1> SUFFICES ASSUME TypeOK, GuardOrder, [Next]_vars PROVE GuardOrder'
  OBVIOUS
<1> USE SidecarAssumption
<1>1. CASE GuardHit
  BY <1>1 DEF GuardHit, GuardOrder, TypeOK, EngineTypes, RefreshTypes, refreshVars
<1>2. CASE PrecopyStep
  BY <1>2 DEF PrecopyStep, GuardOrder, TypeOK, EngineTypes, RefreshTypes, refreshVars
<1>3. CASE MirrorCopy
  BY <1>3 DEF MirrorCopy, GuardOrder, TypeOK, EngineTypes, RefreshTypes, refreshVars
<1>4. CASE ExportGuard
  BY <1>4 DEF ExportGuard, GuardOrder, TypeOK, EngineTypes, RefreshTypes, engineVars, guardVars
<1>5. CASE GuardLast
  BY <1>5 DEF GuardLast, GuardOrder, TypeOK, EngineTypes, RefreshTypes, engineVars, guardVars
<1>6. ASSUME NEW k \in Keys, Export(k) PROVE GuardOrder'
  <2>1. exported'["guard"] = exported["guard"]
    BY <1>6 DEF Export, TypeOK, EngineTypes, RefreshTypes
  <2> QED BY <1>6, <2>1 DEF Export, GuardOrder, engineVars, guardVars
<1>7. CASE \/ \E k \in Keys : StatsAdd(k)
           \/ PinChanges \/ Start \/ Wake \/ Snapshot \/ WalkPin \/ ReadPin \/ SetGauges
           \/ Bench \/ UNCHANGED vars
  <2>1. UNCHANGED <<guardVars, lastGuard, exported>>
    BY <1>7, StartFrame, BenchFrame
    DEF StatsAdd, PinChanges, Wake, Snapshot, WalkPin, ReadPin, SetGauges,
        engineVars, refreshVars, vars
  <2>2. rpc' # "guardLast" => rpc # "guardLast"
    BY <1>7, StartFrame, BenchFrame
    DEF StatsAdd, PinChanges, Wake, Snapshot, WalkPin, ReadPin, SetGauges, Sleep,
        engineVars, refreshVars, vars
  <2> QED BY <2>1, <2>2 DEF GuardOrder, guardVars
<1> QED BY <1>1, <1>2, <1>3, <1>4, <1>5, <1>6, <1>7 DEF Next, Engine, Refresh

LEMMA LifeOrderStep == TypeOK /\ LifeOrder /\ [Next]_vars => LifeOrder'
<1> SUFFICES ASSUME TypeOK, LifeOrder, [Next]_vars PROVE LifeOrder'
  OBVIOUS
<1> USE SidecarAssumption DEF Dealt
<1>1. ASSUME NEW k \in Keys, StatsAdd(k) PROVE LifeOrder'
  BY <1>1 DEF StatsAdd, LifeOrder, TypeOK, EngineTypes, RefreshTypes, refreshVars
<1>2. CASE Wake
  BY <1>2 DEF Wake, LifeOrder, TypeOK, EngineTypes, RefreshTypes, engineVars
<1>3. ASSUME NEW k \in Keys, Export(k) PROVE LifeOrder'
  BY <1>3 DEF Export, LifeOrder, TypeOK, EngineTypes, RefreshTypes, engineVars
<1>4. CASE Snapshot
  BY <1>4 DEF Snapshot, LifeOrder, TypeOK, EngineTypes, RefreshTypes, engineVars
<1>5. CASE ExportGuard
  BY <1>5 DEF ExportGuard, LifeOrder, TypeOK, EngineTypes, RefreshTypes, engineVars
<1>6. CASE GuardLast \/ WalkPin \/ ReadPin \/ SetGauges
  BY <1>6 DEF GuardLast, WalkPin, ReadPin, SetGauges, Sleep, LifeOrder, engineVars
<1>7. CASE \/ GuardHit \/ PrecopyStep \/ MirrorCopy \/ PinChanges \/ Start \/ Bench
           \/ UNCHANGED vars
  <2>1. UNCHANGED <<life, refreshVars>>
    BY <1>7, StartFrame, BenchFrame
    DEF GuardHit, PrecopyStep, MirrorCopy, PinChanges, engineVars, vars
  <2> QED BY <2>1 DEF LifeOrder, refreshVars
<1> QED BY <1>1, <1>2, <1>3, <1>4, <1>5, <1>6, <1>7 DEF Next, Engine, Refresh

LEMMA CalmSeenStep == TypeOK /\ CalmSeen /\ [Next]_vars => CalmSeen'
<1> SUFFICES ASSUME TypeOK, CalmSeen, [Next]_vars PROVE CalmSeen'
  OBVIOUS
<1>1. CASE OpenRead \/ CloseRead
  <2>1. calm' = seen /\ (seen => seen') /\ bench' # "off"
    BY <1>1 DEF OpenRead, CloseRead
  <2> QED BY <2>1 DEF CalmSeen
<1>2. CASE Probe
  <2>1. calm' = calm /\ bench = "off"
    BY <1>2 DEF Probe
  <2> QED BY <2>1 DEF CalmSeen
<1>3. CASE ~OpenRead /\ ~CloseRead /\ ~Probe
  <2>1. calm' = calm /\ seen' = seen /\ (bench' = "off" => bench = "off")
    BY <1>3, EngineFrame, StartFrame, RefreshFrame DEF Next, Bench, Settle, benchVars, vars
  <2> QED BY <2>1 DEF CalmSeen
<1> QED BY <1>1, <1>2, <1>3

LEMMA WholeWaitStep == TypeOK /\ WholeWait /\ [Next]_vars => WholeWait'
<1> SUFFICES ASSUME TypeOK, WholeWait, [Next]_vars PROVE WholeWait'
  OBVIOUS
<1> USE DEF WholeWait
<1>1. ASSUME NEW k \in Keys, StatsAdd(k) PROVE WholeWait'
  BY <1>1 DEF StatsAdd
<1>2. CASE Wake
  BY <1>2 DEF Wake, TypeOK, EngineTypes, RefreshTypes, engineVars
<1>3. ASSUME NEW k \in Keys, Export(k) PROVE WholeWait'
  BY <1>3 DEF Export, benchVars, engineVars
<1>4. CASE Snapshot
  BY <1>4 DEF Snapshot, benchVars, engineVars
<1>5. CASE ExportGuard \/ GuardLast \/ WalkPin
  BY <1>5 DEF ExportGuard, GuardLast, WalkPin, benchVars, engineVars
<1>6. CASE ReadPin \/ SetGauges
  BY <1>6 DEF ReadPin, SetGauges, Sleep, engineVars
<1>7. CASE Bench
  BY <1>7, BenchFrame
  DEF Bench, Probe, Settle, OpenRead, CloseRead, engineVars, refreshVars
<1>8. CASE Start
  BY <1>8, StartFrame DEF engineVars, refreshVars, benchVars
<1>9. CASE \/ GuardHit \/ PrecopyStep \/ MirrorCopy \/ PinChanges \/ UNCHANGED vars
  BY <1>9 DEF GuardHit, PrecopyStep, MirrorCopy, PinChanges, engineVars, refreshVars,
              benchVars, vars
<1> QED BY <1>1, <1>2, <1>3, <1>4, <1>5, <1>6, <1>7, <1>8, <1>9 DEF Next, Engine, Refresh

\* A read that was waited for leaves nothing behind for a refresh to come.
LEMMA SettledRead ==
  ASSUME TypeOK, WholeWait, LifeOrder, Settled, seen,
         NEW read, Scrape(read), read # Unread, NEW k \in Keys
  PROVE  read[k] = exported[k] /\ Reach(k) = exported[k]
<1>1. read = [j \in Keys |-> exported[j]]
  BY DEF Scrape, Counters
<1>2. waited = "whole"
  BY DEF Settled
<1>3. life[k] - lastLife[k] = 0
  BY <1>2 DEF WholeWait, TypeOK, EngineTypes, RefreshTypes
<1> QED BY <1>1, <1>3 DEF Reach, TypeOK, EngineTypes, RefreshTypes

LEMMA ChargedStep ==
  TypeOK /\ TypeOK' /\ LifeOrder /\ WholeWait /\ CalmSeen /\ Charged /\ [Next]_vars => Charged'
<1> SUFFICES ASSUME TypeOK, TypeOK', LifeOrder, WholeWait, CalmSeen, Charged, [Next]_vars
             PROVE  Charged'
  OBVIOUS
<1> USE SidecarAssumption
<1>1. CASE OpenRead
  <2>1. PICK read \in {Counters, Unread} : Scrape(read) /\ base' = read
    BY <1>1 DEF OpenRead
  <2>2. UNCHANGED <<life, lastLife, exported, rpc, todo, row>> /\ ops' = Zero /\ calm' = seen
    BY <1>1, BenchFrame DEF OpenRead, Bench, engineVars, refreshVars
  <2>3. ASSUME seen, read # Unread, NEW k \in Keys PROVE Reach(k)' <= base'[k] + ops'[k]
    <3>1. read[k] = exported[k] /\ Reach(k) = exported[k]
      BY <1>1, <2>1, <2>3, SettledRead DEF OpenRead
    <3>2. Reach(k)' = Reach(k)
      BY <2>2 DEF Reach, Dealt
    <3> QED BY <2>1, <2>2, <3>1, <3>2 DEF Zero, TypeOK, EngineTypes, RefreshTypes, BenchTypes
  <2> QED BY <2>1, <2>2, <2>3 DEF Charged
<1>2. CASE CloseRead
  <2>1. PICK read \in {Counters, Unread}, j \in Keys :
          /\ Scrape(read) /\ base' = read
          /\ row' = IF Unread \in {base, read} THEN [shown |-> 0, counted |-> 0, calm |-> calm]
                    ELSE [shown |-> read[j] - base[j], counted |-> ops[j], calm |-> calm]
    BY <1>2 DEF CloseRead
  <2>2. UNCHANGED <<life, lastLife, exported, rpc, todo>> /\ ops' = Zero /\ calm' = seen
    BY <1>2, BenchFrame DEF CloseRead, Bench, engineVars, refreshVars
  <2>3. ASSUME seen, read # Unread, NEW k \in Keys
        PROVE  /\ read[k] = exported[k] /\ Reach(k) = exported[k]
               /\ Reach(k)' <= base'[k] + ops'[k]
    <3>1. read[k] = exported[k] /\ Reach(k) = exported[k]
      BY <1>2, <2>1, <2>3, SettledRead DEF CloseRead
    <3>2. Reach(k)' = Reach(k)
      BY <2>2 DEF Reach, Dealt
    <3> QED BY <2>1, <2>2, <3>1, <3>2 DEF Zero, TypeOK, EngineTypes, RefreshTypes, BenchTypes
  <2>4. row'.calm => row'.shown <= row'.counted
    <3>1. CASE Unread \in {base, read}
      BY <2>1, <3>1
    <3>2. CASE ~calm
      <4>1. row'.calm = calm
        BY <2>1
      <4> QED BY <3>2, <4>1
    <3>3. CASE calm /\ Unread \notin {base, read}
      <4>0. seen
        BY <3>3 DEF CalmSeen
      <4>1. Reach(j) = read[j] /\ Reach(j) <= base[j] + ops[j]
        BY <1>2, <2>3, <3>3, <4>0 DEF CloseRead, Charged
      <4>2. read[j] \in Nat /\ base[j] \in Nat /\ ops[j] \in Nat
        BY <2>1, <3>3 DEF TypeOK, RefreshTypes, BenchTypes
      <4>3. row' = [shown |-> read[j] - base[j], counted |-> ops[j], calm |-> calm]
        BY <2>1, <3>3
      <4>4. row'.shown = read[j] - base[j] /\ row'.counted = ops[j]
        BY <4>3
      <4> QED BY <4>1, <4>2, <4>4
    <3> QED BY <3>1, <3>2, <3>3
  <2> QED BY <2>1, <2>2, <2>3, <2>4 DEF Charged
<1> DEFINE Paid == /\ UNCHANGED <<base, calm, row>>
                   /\ bench' \in {"section", "closing"} => bench \in {"section", "closing"}
                   /\ \A k \in Keys : Reach(k)' - ops'[k] <= Reach(k) - ops[k]
<1>3. \A k \in Keys : /\ Reach(k) \in Int /\ Reach(k)' \in Int
                      /\ ops[k] \in Nat /\ ops'[k] \in Nat
  <2>1. \A k \in Keys : Reach(k) \in Int /\ Reach(k)' \in Int
    BY DEF Reach, TypeOK, EngineTypes, RefreshTypes
  <2> QED BY <2>1 DEF TypeOK, BenchTypes
<1>4. ASSUME Paid PROVE Charged'
  <2>1. base # Unread => \A k \in Keys : base[k] \in Nat
    BY DEF TypeOK, BenchTypes
  <2> QED BY <1>3, <1>4, <2>1 DEF Charged
<1>5. ASSUME NEW k \in Keys, StatsAdd(k) PROVE Paid
  <2>1. \A j \in Keys : Reach(j)' - ops'[j] <= Reach(j) - ops[j]
    BY <1>5 DEF StatsAdd, refreshVars, Reach, Dealt, TypeOK, EngineTypes, RefreshTypes,
                BenchTypes
  <2> QED BY <1>5, <2>1 DEF StatsAdd
<1>6. ASSUME UNCHANGED <<base, calm, row, ops>>,
             bench' \in {"section", "closing"} => bench \in {"section", "closing"},
             \A k \in Keys : Reach(k)' = Reach(k)
      PROVE  Paid
  BY <1>3, <1>6
<1> HIDE DEF Paid
<1>7. ASSUME NEW k \in Keys, Export(k) PROVE Paid
  <2>1. \A j \in Keys : Reach(j)' = Reach(j)
    BY <1>7 DEF Export, engineVars, Reach, Dealt, TypeOK, EngineTypes, RefreshTypes
  <2> QED BY <1>6, <1>7, <2>1 DEF Export, benchVars
<1>8. CASE Wake \/ Snapshot
  <2>1. \A j \in Keys : Reach(j)' = Reach(j)
    BY <1>8 DEF Wake, Snapshot, engineVars, Reach, Dealt, TypeOK, EngineTypes, RefreshTypes
  <2> QED BY <1>4, <1>6, <1>8, <2>1 DEF Wake, Snapshot, benchVars
<1>9. CASE ExportGuard \/ GuardLast \/ WalkPin \/ ReadPin \/ SetGauges
  <2>1. \A j \in Keys : exported'[j] = exported[j]
    BY <1>9 DEF ExportGuard, GuardLast, WalkPin, ReadPin, SetGauges, TypeOK, RefreshTypes
  <2>2. /\ UNCHANGED <<life, lastLife, base, calm, row, ops, bench>>
        /\ rpc # "keys" /\ rpc' # "keys"
    BY <1>9 DEF ExportGuard, GuardLast, WalkPin, ReadPin, SetGauges, Sleep, engineVars,
                benchVars
  <2>3. \A j \in Keys : Reach(j)' = Reach(j)
    BY <2>1, <2>2 DEF Reach, Dealt
  <2> QED BY <1>4, <1>6, <2>2, <2>3
<1>10. CASE \/ GuardHit \/ PrecopyStep \/ MirrorCopy \/ PinChanges \/ Start \/ Probe \/ Settle
            \/ UNCHANGED vars
  <2>1. /\ UNCHANGED <<life, lastLife, exported, rpc, todo, base, calm, row, ops>>
        /\ bench' \in {"section", "closing"} => bench \in {"section", "closing"}
    BY <1>10, StartFrame
    DEF GuardHit, PrecopyStep, MirrorCopy, PinChanges, Probe, Settle, benchFrame,
        engineVars, refreshVars, benchVars, vars
  <2>2. \A j \in Keys : Reach(j)' = Reach(j)
    BY <2>1 DEF Reach, Dealt
  <2> QED BY <1>4, <1>6, <2>1, <2>2
<1> QED BY <1>1, <1>2, <1>4, <1>5, <1>7, <1>8, <1>9, <1>10 DEF Next, Engine, Refresh, Bench

LEMMA TypeStep == IInv /\ [Next]_vars => TypeOK'
<1> SUFFICES ASSUME IInv, [Next]_vars PROVE TypeOK'
  OBVIOUS
<1> USE SidecarAssumption
<1>1. StartTypes'
  <2>1. CASE Start
    <3>1. StartTypes
      BY DEF IInv, TypeOK
    <3>2. PICK p \in Pushers : \/ StartCall(p) \/ StartLocked(p) \/ StartThread(p)
                              \/ StartServer(p) \/ Announce(p)
      BY <2>1 DEF Start
    <3>3. started' \in BOOLEAN
      BY <3>1, <3>2 DEF StartTypes, StartCall, StartLocked, StartThread, StartServer, Announce
    <3> QED BY <3>1, <3>2, <3>3
            DEF StartTypes, StartCall, StartLocked, StartThread, StartServer, Announce
  <2>2. CASE UNCHANGED startVars
    BY <2>2 DEF startVars, StartTypes, IInv, TypeOK
  <2> QED BY <2>1, <2>2, EngineFrame, RefreshFrame, BenchFrame DEF Next, vars
<1>2. EngineTypes'
  <2> USE DEF EngineTypes
  <2>1. EngineTypes
    BY DEF IInv, TypeOK
  <2>2. ASSUME NEW k \in Keys, StatsAdd(k) PROVE EngineTypes'
    BY <2>1, <2>2 DEF StatsAdd, guardVars
  <2>3. CASE GuardHit \/ MirrorCopy
    <3>1. copying' \in Nat
      BY <2>1, <2>3 DEF GuardHit, MirrorCopy
    <3> QED BY <2>1, <2>3, <3>1 DEF GuardHit, MirrorCopy
  <2>4. CASE PrecopyStep
    <3>1. step' \in 0 .. Period - 1
      BY <2>1, <2>4 DEF PrecopyStep
    <3>2. copying' \in Nat
      BY <2>1, <2>4 DEF PrecopyStep
    <3> QED BY <2>1, <2>4, <3>1, <3>2 DEF PrecopyStep
  <2>5. CASE PinChanges
    <3>1. pin' \in Pins
      BY <2>1, <2>5 DEF PinChanges, Pins
    <3>2. grown' \in BOOLEAN
      BY <2>1, <2>5 DEF PinChanges
    <3> QED BY <2>1, <2>5, <3>1, <3>2 DEF PinChanges, guardVars
  <2>6. CASE Refresh
    <3>1. grown' \in BOOLEAN
      BY <2>1, <2>6 DEF Refresh, Wake, Snapshot, ExportGuard, GuardLast, WalkPin, ReadPin,
                        SetGauges, Export, engineVars
    <3> QED BY <2>1, <2>6, <3>1, RefreshFrame DEF guardVars
  <2>7. CASE UNCHANGED engineVars
    BY <2>1, <2>7 DEF engineVars, guardVars
  <2> QED BY <2>2, <2>3, <2>4, <2>5, <2>6, <2>7, StartFrame, BenchFrame DEF Next, Engine, vars
<1>3. RefreshTypes'
  <2> USE DEF RefreshTypes
  <2>1. EngineTypes /\ RefreshTypes /\ GuardOrder /\ LifeOrder
    BY DEF IInv, TypeOK
  <2>2. ASSUME NEW k \in Keys, Export(k) PROVE RefreshTypes'
    <3>1. life[k] - lastLife[k] \in Nat
      BY <2>1 DEF LifeOrder, EngineTypes
    <3> QED BY <2>1, <2>2, <3>1 DEF Export
  <2>3. CASE ExportGuard
    <3>1. guardHits - lastGuard \in Nat
      BY <2>1 DEF GuardOrder, EngineTypes
    <3> QED BY <2>1, <2>3, <3>1 DEF ExportGuard
  <2>4. CASE Wake \/ Snapshot \/ GuardLast \/ WalkPin
    BY <2>1, <2>4 DEF Wake, Snapshot, GuardLast, WalkPin, EngineTypes
  <2>5. CASE ReadPin \/ SetGauges
    BY <2>1, <2>5 DEF ReadPin, SetGauges, Sleep, EngineTypes, Pins
  <2>6. CASE UNCHANGED refreshVars
    BY <2>1, <2>6 DEF refreshVars
  <2> QED BY <2>2, <2>3, <2>4, <2>5, <2>6, EngineFrame, StartFrame, BenchFrame
          DEF Next, Refresh, vars
<1>4. BenchTypes'
  <2> USE DEF BenchTypes
  <2>1. RefreshTypes /\ BenchTypes
    BY DEF IInv, TypeOK
  <2>2. Counters \in [Keys -> Nat] /\ Zero \in [Keys -> Nat]
    BY <2>1 DEF RefreshTypes, Zero, Counters
  <2>3. ASSUME NEW k \in Keys, StatsAdd(k) PROVE BenchTypes'
    BY <2>1, <2>3 DEF StatsAdd
  <2>4. CASE Wake \/ ReadPin \/ SetGauges
    BY <2>1, <2>4 DEF Wake, ReadPin, SetGauges, Sleep
  <2>5. CASE Probe \/ Settle
    BY <2>1, <2>5 DEF Probe, Settle
  <2>6. CASE OpenRead
    BY <2>1, <2>2, <2>6 DEF OpenRead
  <2>7. CASE CloseRead
    <3>1. PICK read \in {Counters, Unread}, j \in Keys :
            /\ base' = read
            /\ row' = IF Unread \in {base, read} THEN [shown |-> 0, counted |-> 0, calm |-> calm]
                      ELSE [shown |-> read[j] - base[j], counted |-> ops[j], calm |-> calm]
      BY <2>7 DEF CloseRead
    <3>2. row' \in [shown : Int, counted : Nat, calm : BOOLEAN]
      BY <2>1, <2>2, <3>1
    <3> QED BY <2>1, <2>2, <2>7, <3>1, <3>2 DEF CloseRead
  <2>8. CASE UNCHANGED benchVars
    BY <2>1, <2>8 DEF benchVars
  <2>9. CASE GuardHit \/ PrecopyStep \/ MirrorCopy \/ PinChanges \/ Start
    BY <2>1, <2>9, StartFrame DEF GuardHit, PrecopyStep, MirrorCopy, PinChanges, benchVars
  <2>10. CASE Snapshot \/ ExportGuard \/ GuardLast \/ WalkPin \/ \E k \in Keys : Export(k)
    BY <2>1, <2>10 DEF Snapshot, ExportGuard, GuardLast, WalkPin, Export, benchVars
  <2> QED BY <2>3, <2>4, <2>5, <2>6, <2>7, <2>8, <2>9, <2>10
          DEF Next, Engine, Refresh, Bench, vars
<1> QED BY <1>1, <1>2, <1>3, <1>4 DEF TypeOK

-----------------------------------------------------------------------------

LEMMA NextIInv == IInv /\ [Next]_vars => IInv'
<1> QED BY TypeStep, StartOnceStep, GuardOrderStep, LifeOrderStep, CalmSeenStep,
           WholeWaitStep, ChargedStep DEF IInv

\* The inductive invariant holds in every behaviour of the sidecar.
THEOREM SidecarInvariant == Spec => []IInv
<1> QED BY InitIInv, NextIInv, PTL DEF Spec

\* However many engine threads push first and call start(), one refresher
\* thread runs, and nothing is exported twice.
THEOREM RefresherRunsOnce == Spec => []OneRefresher
<1>1. IInv => OneRefresher
  BY DEF IInv, StartOnce, OneRefresher
<1> QED BY <1>1, SidecarInvariant, PTL

\* No exported counter, and no report of the guard, exceeds what happened,
\* although each is computed from several reads of what other threads and
\* the GPU keep changing (_refresh_once, run_fused_precopy).
THEOREM CountersNeverOvercount == Spec => []NeverOvercounts
<1>1. IInv => NeverOvercounts
  BY DEF IInv, TypeOK, EngineTypes, RefreshTypes, GuardOrder, LifeOrder, NeverOvercounts
<1> QED BY <1>1, SidecarInvariant, PTL

\* Once any read has found the sidecar, every section opened after it shows at
\* most the ops counted in it, whichever later reads fail: the settled read
\* (bench/common.py, sidecar) leaves no earlier op to a refresh still to come,
\* whatever the refresher lost or is in the middle of.
THEOREM SectionsStayApart == Spec => []SectionsApart
<1>1. IInv => SectionsApart
  BY DEF IInv, Charged, SectionsApart
<1> QED BY <1>1, SidecarInvariant, PTL

=============================================================================
