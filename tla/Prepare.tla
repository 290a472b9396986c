------------------------------ MODULE Prepare ------------------------------
(***************************************************************************)
(* src/prepare.sh: the checkpoint is converted in place by a chain of      *)
(* tools, any of which may be interrupted; the same command is then run    *)
(* again.                                                                  *)
(*                                                                         *)
(* What survives an interruption is the disk: the shards, the backups of   *)
(* the two converters, the index, the config and the hardlinked variant.   *)
(* Each action is one durable change; `pc` is the position of the running  *)
(* script and is lost in a crash.  The content of a shard is the sequence  *)
(* of conversions applied to the original.                                 *)
(***************************************************************************)
EXTENDS Integers, Sequences, SequencesExt, FiniteSets

CONSTANTS
  Shards,      \* files the index references
  HeadShard,   \* the one with lm_head
  Fp8Shards,   \* those with side-layer tensors
  TableShards, \* those that hold only the n-gram table
  Extra,       \* model_extra_tensors.safetensors
  CrashAt,     \* positions at which a crash is considered
  MaxCrashes   \* bound: crashes and re-runs in a behaviour

ASSUME PrepareAssumption ==
  /\ HeadShard \in Shards /\ Extra \in Shards
  /\ Fp8Shards \subseteq Shards /\ TableShards \subseteq Shards
  /\ TableShards \cap (Fp8Shards \cup {HeadShard, Extra}) = {}
  /\ MaxCrashes \in Nat

VARIABLES
  shard,     \* shard -> its conversions, or Absent
  headBak,   \* *.bf16head.bak of the head shard
  fp8Bak,    \* shard -> its *.bf16.bak
  index,     \* model.safetensors.index.json
  indexBak,  \* *.with-ngram.bak
  config, configBak,   \* config.json and config.json.autoround
  marker,    \* .prepare-downloaded
  table,     \* the separate fp8 table is there
  link,      \* shard -> what the variant directory holds of it
  variant,   \* the files of the variant that are written fresh
  pc, todo,  \* position of the script; shards its loop has left
  loaded,    \* content a converter has read
  crashes    \* crashes and re-runs so far

disk == <<shard, headBak, fp8Bak, index, indexBak, config, configBak, marker,
          table, link, variant>>
vars == <<disk, pc, todo, loaded, crashes>>

Absent == <<"absent">>
Original == <<>>
Conversions == {"int8", "fp8"}
Contents == SeqOf(Conversions, 2) \cup {Absent}
Converted(c, by) == Contains(c, by)

Checkpoint == Shards \ TableShards
Linked == Checkpoint \ {Extra}
Positions == {"stopped", "failed", "done", "marker", "download", "check", "head",
              "headSwap", "headPlace", "headIndex", "fp8", "fp8Swap", "fp8Place",
              "fp8Index", "strip", "stripCopy", "stripCopied", "stripIndex", "table",
              "config", "configCopy", "configCopied", "configDump", "configDumped",
              "clean", "link", "extra", "extraSaved", "vIndex", "vIndexDumped",
              "vConfig", "vConfigDumped"}

TypeOK ==
  /\ shard \in [Shards -> Contents]
  /\ headBak \in Contents /\ fp8Bak \in [Shards -> Contents]
  /\ index \in [head : {"bf16", "int8"}, scales : SUBSET Fp8Shards, ngram : BOOLEAN]
  /\ indexBak \in {"none", "torn", "whole"}
  /\ config \in {"autoround", "gptq", "torn"}
  /\ configBak \in {"none", "torn", "whole"}
  /\ marker \in BOOLEAN /\ table \in BOOLEAN
  /\ link \in [Shards -> Contents]
  /\ variant \in [extra : {"none", "torn", "int4"}, index : {"none", "torn", "whole"},
                  config : {"none", "torn", "whole"}]
  /\ pc \in Positions
  /\ todo \in SUBSET Shards
  /\ loaded \in Contents
  /\ crashes \in 0 .. MaxCrashes

Init ==
  /\ shard = [s \in Shards |-> Absent]
  /\ headBak = Absent /\ fp8Bak = [s \in Shards |-> Absent]
  /\ index = [head |-> "bf16", scales |-> {}, ngram |-> TRUE]
  /\ indexBak = "none" /\ config = "autoround" /\ configBak = "none"
  /\ marker = FALSE /\ table = FALSE
  /\ link = [s \in Shards |-> Absent]
  /\ variant = [extra |-> "none", index |-> "none", config |-> "none"]
  /\ pc = "marker" /\ todo = {} /\ loaded = Absent /\ crashes = 0

At(p) == pc = p
Goto(p) == pc' = p
Local == UNCHANGED <<todo, loaded, crashes>>

-----------------------------------------------------------------------------
(* Step 1: download and check.                                             *)

\* The download is skipped for ever once the marker is there.
Marker ==
  /\ At("marker")
  /\ IF marker THEN Goto("check") /\ UNCHANGED todo
               ELSE Goto("download") /\ todo' = Checkpoint
  /\ UNCHANGED <<disk, loaded, crashes>>

\* One file, which restores what differs from the hub, or the end of the
\* download, which may leave referenced files out.
Download ==
  /\ At("download")
  /\ \/ \E s \in todo : /\ shard' = [shard EXCEPT ![s] = Original]
                        /\ todo' = todo \ {s}
                        /\ UNCHANGED pc
     \/ Goto("check") /\ todo' = {} /\ UNCHANGED shard
  /\ UNCHANGED <<headBak, fp8Bak, index, indexBak, config, configBak, marker, table,
                 link, variant, loaded, crashes>>

\* Mutant: the marker is not written.
CheckUnmarked ==
  /\ At("check")
  /\ Goto(IF \E s \in Checkpoint : shard[s] = Absent THEN "failed" ELSE "head")
  /\ UNCHANGED disk /\ Local

\* Every file the index references must be there, table-only ones excepted.
Check ==
  /\ At("check")
  /\ IF \E s \in Checkpoint : shard[s] = Absent
     THEN Goto("failed") /\ UNCHANGED marker
     ELSE Goto("head") /\ marker' = TRUE
  /\ UNCHANGED <<shard, headBak, fp8Bak, index, indexBak, config, configBak, table,
                 link, variant>> /\ Local

-----------------------------------------------------------------------------
(* Step 2: quantize_lm_head_int8.py.                                       *)

\* Mutants: a repacked shard whose index entry was lost is an error, or left
\* alone; and the index entry alone tells whether it is repacked.
HeadWith(repacked(_), ifRepacked) ==
  /\ At("head")
  /\ LET src == IF shard[HeadShard] # Absent THEN shard[HeadShard] ELSE headBak IN
       IF index.head = "int8" \/ (repacked(src) /\ ifRepacked = "fp8")
       THEN Goto("fp8") /\ todo' = Fp8Shards /\ UNCHANGED loaded
       ELSE /\ loaded' = src /\ UNCHANGED todo
            /\ Goto(IF src = Absent THEN "failed"
                    ELSE IF repacked(src) THEN ifRepacked ELSE "headSwap")
  /\ UNCHANGED <<disk, crashes>>

HeadAsserts == HeadWith(LAMBDA c : Converted(c, "int8"), "failed")
HeadSkips == HeadWith(LAMBDA c : Converted(c, "int8"), "fp8")
HeadIndexOnly == HeadWith(LAMBDA c : TRUE, "headIndex")

\* Nothing to do if the index says so; else read the shard, or its backup if
\* only that is left, and go straight to the index if it is repacked.
QuantizeHead ==
  /\ At("head")
  /\ LET src == IF shard[HeadShard] # Absent THEN shard[HeadShard] ELSE headBak IN
       IF index.head = "int8" THEN Goto("fp8") /\ todo' = Fp8Shards /\ UNCHANGED loaded
       ELSE /\ loaded' = src /\ UNCHANGED todo
            /\ Goto(IF src = Absent THEN "failed"
                    ELSE IF Converted(src, "int8") THEN "headIndex" ELSE "headSwap")
  /\ UNCHANGED <<disk, crashes>>

\* Mutant: the old shard is removed, not kept.
HeadSwapRemoves ==
  /\ At("headSwap")
  /\ shard' = [shard EXCEPT ![HeadShard] = Absent]
  /\ Goto("headPlace")
  /\ UNCHANGED <<headBak, fp8Bak, index, indexBak, config, configBak, marker, table,
                 link, variant>> /\ Local

\* The new shard is in a temporary file; the old one makes room for it.
HeadSwap ==
  /\ At("headSwap")
  /\ headBak' = IF headBak = Absent THEN shard[HeadShard] ELSE headBak
  /\ shard' = [shard EXCEPT ![HeadShard] = Absent]
  /\ Goto("headPlace")
  /\ UNCHANGED <<fp8Bak, index, indexBak, config, configBak, marker, table, link,
                 variant>> /\ Local

HeadPlace ==
  /\ At("headPlace")
  /\ shard' = [shard EXCEPT ![HeadShard] = Append(loaded, "int8")]
  /\ Goto("headIndex")
  /\ UNCHANGED <<headBak, fp8Bak, index, indexBak, config, configBak, marker, table,
                 link, variant>> /\ Local

\* The index is written to a temporary file and renamed.
HeadIndex ==
  /\ At("headIndex")
  /\ index' = [index EXCEPT !.head = "int8"]
  /\ Goto("fp8") /\ todo' = Fp8Shards
  /\ UNCHANGED <<shard, headBak, fp8Bak, indexBak, config, configBak, marker, table,
                 link, variant, loaded, crashes>>

-----------------------------------------------------------------------------
(* Step 3: fp8_convert.py, shard by shard.                                 *)

\* Files in sorted order; converted tensors are kept as they are.
Next8 == CHOOSE s \in todo : TRUE

\* Mutant: tensors that are already fp8 are not recognised.
Fp8Requantizes ==
  /\ At("fp8")
  /\ IF todo = {} THEN Goto("strip") /\ UNCHANGED loaded
     ELSE /\ loaded' = shard[Next8]
          /\ Goto(IF shard[Next8] = Absent THEN "failed" ELSE "fp8Swap")
  /\ UNCHANGED <<disk, todo, crashes>>

Fp8 ==
  /\ At("fp8")
  /\ IF todo = {} THEN Goto("strip") /\ UNCHANGED loaded
     ELSE /\ loaded' = shard[Next8]
          /\ Goto(IF shard[Next8] = Absent THEN "failed"
                  ELSE IF Converted(shard[Next8], "fp8") THEN "fp8Index" ELSE "fp8Swap")
  /\ UNCHANGED <<disk, todo, crashes>>

Fp8Swap ==
  /\ At("fp8Swap")
  /\ fp8Bak' = IF fp8Bak[Next8] = Absent
               THEN [fp8Bak EXCEPT ![Next8] = shard[Next8]] ELSE fp8Bak
  /\ shard' = [shard EXCEPT ![Next8] = Absent]
  /\ Goto("fp8Place")
  /\ UNCHANGED <<headBak, index, indexBak, config, configBak, marker, table, link,
                 variant>> /\ Local

Fp8Place ==
  /\ At("fp8Place")
  /\ shard' = [shard EXCEPT ![Next8] = Append(loaded, "fp8")]
  /\ Goto("fp8Index")
  /\ UNCHANGED <<headBak, fp8Bak, index, indexBak, config, configBak, marker, table,
                 link, variant>> /\ Local

\* The scale of every tensor found or made fp8 goes into the index.
Fp8Index ==
  /\ At("fp8Index")
  /\ index' = [index EXCEPT !.scales = @ \cup {Next8}]
  /\ todo' = todo \ {Next8}
  /\ Goto("fp8")
  /\ UNCHANGED <<shard, headBak, fp8Bak, indexBak, config, configBak, marker, table,
                 link, variant, loaded, crashes>>

-----------------------------------------------------------------------------
(* Steps 4 to 7: index, table, config, backups.                            *)

Strip ==
  /\ At("strip")
  /\ Goto(IF ~index.ngram THEN "table"
          ELSE IF indexBak = "none" THEN "stripCopy" ELSE "stripIndex")
  /\ UNCHANGED disk /\ Local

\* shutil.copy() creates the file, then fills it.
StripCopy ==
  /\ \/ At("stripCopy") /\ indexBak' = "torn" /\ Goto("stripCopied")
     \/ At("stripCopied") /\ indexBak' = "whole" /\ Goto("stripIndex")
  /\ UNCHANGED <<shard, headBak, fp8Bak, index, config, configBak, marker, table,
                 link, variant>> /\ Local

StripIndex ==
  /\ At("stripIndex")
  /\ index' = [index EXCEPT !.ngram = FALSE]
  /\ Goto("table")
  /\ UNCHANGED <<shard, headBak, fp8Bak, indexBak, config, configBak, marker, table,
                 link, variant>> /\ Local

FetchTable ==
  /\ At("table")
  /\ table' = TRUE /\ Goto("config")
  /\ UNCHANGED <<shard, headBak, fp8Bak, index, indexBak, config, configBak, marker,
                 link, variant>> /\ Local

\* A config.json that does not parse stops the script.
Config ==
  /\ At("config")
  /\ IF config = "gptq" THEN Goto("clean") /\ todo' = Shards
     ELSE /\ Goto(IF config = "torn" THEN "failed"
                  ELSE IF configBak = "none" THEN "configCopy" ELSE "configDump")
          /\ UNCHANGED todo
  /\ UNCHANGED <<disk, loaded, crashes>>

ConfigCopy ==
  /\ \/ At("configCopy") /\ configBak' = "torn" /\ Goto("configCopied")
     \/ At("configCopied") /\ configBak' = "whole" /\ Goto("configDump")
  /\ UNCHANGED <<shard, headBak, fp8Bak, index, indexBak, config, marker, table, link,
                 variant>> /\ Local

\* open(..., "w") truncates config.json in place, then json.dump() fills it.
ConfigDump ==
  /\ \/ At("configDump") /\ config' = "torn" /\ Goto("configDumped") /\ UNCHANGED todo
     \/ At("configDumped") /\ config' = "gptq" /\ Goto("clean") /\ todo' = Shards
  /\ UNCHANGED <<shard, headBak, fp8Bak, index, indexBak, configBak, marker, table,
                 link, variant, loaded, crashes>>

\* rm -f of the backups, file by file.
Clean ==
  /\ At("clean")
  /\ IF todo = {}
     THEN Goto("link") /\ todo' = Linked /\ UNCHANGED <<headBak, fp8Bak>>
     ELSE LET s == CHOOSE x \in todo : TRUE IN
            /\ fp8Bak' = [fp8Bak EXCEPT ![s] = Absent]
            /\ headBak' = IF s = HeadShard THEN Absent ELSE headBak
            /\ todo' = todo \ {s}
            /\ UNCHANGED pc
  /\ UNCHANGED <<shard, index, indexBak, config, configBak, marker, table, link,
                 variant, loaded, crashes>>

-----------------------------------------------------------------------------
(* Step 8: quantize_mtp_experts_int4.py writes the variant.                *)

\* link_tree(): what is there is renewed unless size and whole seconds of change
\* agree, which is less than being the file that the source is now.
Link ==
  /\ At("link")
  /\ IF todo = {} THEN Goto("extra") /\ UNCHANGED <<link, todo>>
     ELSE LET s == CHOOSE x \in todo : TRUE IN
            /\ \/ link' = [link EXCEPT ![s] = shard[s]]
               \/ link[s] # Absent /\ UNCHANGED link
            /\ todo' = todo \ {s}
            /\ UNCHANGED pc
  /\ UNCHANGED <<shard, headBak, fp8Bak, index, indexBak, config, configBak, marker,
                 table, variant, loaded, crashes>>

\* The three files written fresh, each truncated and then filled.
WriteVariant ==
  /\ \/ At("extra") /\ variant' = [variant EXCEPT !.extra = "torn"] /\ Goto("extraSaved")
     \/ At("extraSaved") /\ variant' = [variant EXCEPT !.extra = "int4"] /\ Goto("vIndex")
     \/ At("vIndex") /\ variant' = [variant EXCEPT !.index = "torn"] /\ Goto("vIndexDumped")
     \/ At("vIndexDumped") /\ variant' = [variant EXCEPT !.index = "whole"] /\ Goto("vConfig")
     \/ At("vConfig") /\ variant' = [variant EXCEPT !.config = "torn"] /\ Goto("vConfigDumped")
     \/ At("vConfigDumped") /\ variant' = [variant EXCEPT !.config = "whole"] /\ Goto("done")
  /\ UNCHANGED <<shard, headBak, fp8Bak, index, indexBak, config, configBak, marker,
                 table, link>> /\ Local

-----------------------------------------------------------------------------

Crash ==
  /\ pc \in CrashAt /\ crashes < MaxCrashes
  /\ Goto("stopped") /\ crashes' = crashes + 1
  /\ todo' = {} /\ loaded' = Absent
  /\ UNCHANGED disk

\* The same command again, after a crash or an error.
RunAgain ==
  /\ pc \in {"stopped", "failed"}
  /\ Goto("marker")
  /\ todo' = {} /\ loaded' = Absent
  /\ UNCHANGED <<disk, crashes>>

\* ... or when everything is done.
RunOnceMore ==
  /\ At("done") /\ crashes < MaxCrashes
  /\ Goto("marker") /\ crashes' = crashes + 1
  /\ UNCHANGED <<disk, todo, loaded>>

Script ==
  \/ Marker \/ Download \/ Check \/ QuantizeHead \/ HeadSwap \/ HeadPlace \/ HeadIndex
  \/ Fp8 \/ Fp8Swap \/ Fp8Place \/ Fp8Index \/ Strip \/ StripCopy \/ StripIndex
  \/ FetchTable \/ Config \/ ConfigCopy \/ ConfigDump \/ Clean \/ Link \/ WriteVariant

Next == Script \/ Crash \/ RunAgain \/ RunOnceMore

Spec == Init /\ [][Next]_vars

\* A started script goes on, and whoever runs it starts it again.
FairSpec == Spec /\ WF_vars(Script) /\ WF_vars(RunAgain)

-----------------------------------------------------------------------------
(* Correctness.                                                            *)

\* No interruption loses an original: until the config is rewritten, each
\* original shard is still there, in place or in a backup, and the second
\* converter's backup does not replace the first one's.
OriginalKept ==
  (marker /\ config = "autoround") =>
    \A s \in Checkpoint : Original \in {shard[s], fp8Bak[s]}
                            \cup (IF s = HeadShard THEN {headBak} ELSE {})

\* However often and wherever the script was interrupted, no tensor is
\* quantized twice ("never re-quantizes").
NeverTwice == \A s \in Shards : shard[s] # Absent => IsInjective(shard[s])

\* The index never promises what the shards do not hold: it is written last.
IndexBehind ==
  \A s \in Checkpoint : shard[s] # Absent =>
    /\ s \in index.scales => Converted(shard[s], "fp8")
    /\ (s = HeadShard /\ index.head = "int8") => Converted(shard[s], "int8")

\* A conversion that took place is not undone by running the command again:
\* the download does not restore the originals.
NeverUndone ==
  [][\A s \in Shards : (shard[s] # Absent /\ shard'[s] # Absent)
                        => IsPrefix(shard[s], shard'[s])]_vars

\* When the script ends, shards, index, config and variant fit together, and
\* the variant links the shards as they are now.
DoneIsServable ==
  pc = "done" =>
    /\ \A s \in Checkpoint :
         /\ Converted(shard[s], "fp8") <=> s \in Fp8Shards
         /\ Converted(shard[s], "int8") <=> s = HeadShard
    /\ index = [head |-> "int8", scales |-> Fp8Shards, ngram |-> FALSE]
    /\ config = "gptq" /\ table
    /\ \A s \in Linked : link[s] = shard[s]
    /\ variant = [extra |-> "int4", index |-> "whole", config |-> "whole"]

\* "if a step fails, fix the cause and run the same command again": whatever
\* position a run is stopped at, running the command again ends.
Resumable == (pc = "stopped") ~> (pc = "done")

\* A stop leaves the files whole: none renamed away, none half rewritten.
StoppedWhole == (pc = "stopped") =>
                  /\ config # "torn"
                  /\ marker => \A s \in Checkpoint : shard[s] # Absent

\* A download that ends with files left out.
Short == At("download") /\ todo # {} /\ Goto("check")

\* Stopped with whole files, however often, the same command ends once downloads
\* leave nothing out: no order of backups, markers and index entries makes a
\* later run refuse them.
ResumesWhenWhole == ([]StoppedWhole /\ <>[][~Short]_vars) => Resumable

=============================================================================
