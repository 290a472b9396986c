---------------------------- MODULE PrepareProofs ----------------------------
(***************************************************************************)
(* The preparation of a checkpoint is safe to interrupt and run again, for *)
(* every set of shards, every position of the crashes and any number of    *)
(* them.  The inductive invariant says what the disk looks like at each    *)
(* position of the script: what form each shard has, which of the files    *)
(* written so far can be relied on, and where the originals are.  Once the *)
(* config is rewritten the shards are final, which is what the dispatch    *)
(* of HybridServe rests on.                                                *)
(***************************************************************************)
EXTENDS HybridServe, SequenceTheorems, TLAPS

(* The forms a shard takes: the head is repacked before anything is fp8.   *)

Int8 == <<"int8">>
Fp8Only == <<"fp8">>
Both == <<"int8", "fp8">>

Int8Forms == {Int8, Both}
Fp8Forms == {Fp8Only, Both}

\* The form in which the fp8 converter finds a shard it has yet to convert.
Plain(s) == IF s = HeadShard THEN Int8 ELSE Original

Forms(s) ==
  IF s = HeadShard THEN {Original, Int8} \cup (IF s \in Fp8Shards THEN {Both} ELSE {})
                   ELSE {Original} \cup (IF s \in Fp8Shards THEN {Fp8Only} ELSE {})

\* Positions of the script before the check has passed, and after each step.
Early == {"stopped", "failed", "marker", "download", "check"}
InHead == {"head", "headSwap", "headPlace", "headIndex"}
InFp8 == {"fp8", "fp8Swap", "fp8Place", "fp8Index"}
AfterLink == {"extra", "extraSaved", "vIndex", "vIndexDumped", "vConfig", "vConfigDumped",
              "done"}
AfterConfig == {"clean", "link"} \cup AfterLink
AfterTable == {"config", "configCopy", "configCopied", "configDump", "configDumped"}
                \cup AfterConfig
AfterStrip == {"table"} \cup AfterTable
AfterFp8 == {"strip", "stripCopy", "stripCopied", "stripIndex"} \cup AfterStrip

ShardForms == \A s \in Shards : shard[s] \in Forms(s) \cup {Absent}

\* Without the marker nothing has been converted yet.
MarkerFirst ==
  /\ pc \notin Early => marker
  /\ pc = "download" => ~marker
  /\ ~marker => /\ \A s \in Shards : shard[s] \in {Absent, Original}
                /\ index.head = "bf16" /\ index.scales = {}

\* Past the check every shard is there, but for the one being replaced.
Present ==
  pc \notin Early =>
    \A s \in Checkpoint :
      shard[s] = Absent <=> \/ pc = "headPlace" /\ s = HeadShard
                            \/ pc = "fp8Place" /\ s = Next8

\* What a converter has read is what it is about to replace, unconverted.
Read ==
  /\ pc \in {"headSwap", "headPlace"} => loaded = Original
  /\ pc = "headSwap" => shard[HeadShard] = Original
  /\ pc \in {"fp8Swap", "fp8Place"} => loaded = Plain(Next8)
  /\ pc = "fp8Swap" => shard[Next8] = Plain(Next8)

\* The index is behind the shards.
IndexTrue ==
  /\ index.head = "bf16" => index.scales = {}
  /\ index.head = "int8" => shard[HeadShard] \in Int8Forms \cup {Absent}
  /\ \A s \in index.scales : shard[s] \in Fp8Forms \cup {Absent}
  /\ pc = "headIndex" => shard[HeadShard] \in Int8Forms
  /\ pc = "fp8Index" => shard[Next8] \in Fp8Forms

\* What each step has left behind.
Steps ==
  /\ pc \in InHead => index.head = "bf16" \/ pc = "head"
  /\ pc \in InFp8 \cup AfterFp8 => index.head = "int8"
  /\ pc \in InFp8 => todo \subseteq Fp8Shards /\ Fp8Shards \ todo \subseteq index.scales
  /\ pc \in InFp8 \ {"fp8"} => todo # {}
  /\ pc \in AfterFp8 => index.scales = Fp8Shards
  /\ pc \in AfterStrip => ~index.ngram
  /\ pc \in AfterTable => table
  /\ pc \in AfterConfig => config = "gptq"

\* What the variant has so far.
VariantSteps ==
  /\ pc = "link" => todo \subseteq Linked /\ \A s \in Linked \ todo : link[s] = shard[s]
  /\ pc \in AfterLink => \A s \in Linked : link[s] = shard[s]
  /\ pc \in {"vIndex", "vIndexDumped", "vConfig", "vConfigDumped", "done"}
       => variant.extra = "int4"
  /\ pc \in {"vConfig", "vConfigDumped", "done"} => variant.index = "whole"
  /\ pc = "done" => variant.config = "whole"

\* A backup is what its converter found.
Backups ==
  /\ headBak \in {Absent, Original}
  /\ \A s \in Shards : fp8Bak[s] \in {Absent, Plain(s)}

\* What a shard of the checkpoint is converted to in the end.
Final(s) ==
  IF s \in Fp8Shards THEN (IF s = HeadShard THEN Both ELSE Fp8Only) ELSE Plain(s)

\* A config that was ever touched stands over final shards, for good.
Settled ==
  config # "autoround" => /\ marker /\ index.head = "int8" /\ index.scales = Fp8Shards
                          /\ \A s \in Checkpoint : shard[s] = Final(s)

\* A link is made over a touched config, to the shard that is there.
Follows ==
  \A s \in Linked : link[s] # Absent => config # "autoround" /\ link[s] = shard[s]

IInv == /\ TypeOK /\ ShardForms /\ MarkerFirst /\ Present /\ Read /\ IndexTrue
        /\ Steps /\ VariantSteps /\ Settled /\ Follows /\ Backups /\ OriginalKept

-----------------------------------------------------------------------------
(* The contents of a shard, and what the tools make of them.  Past these    *)
(* lemmas no proof looks into a sequence of conversions again.              *)

\* The five contents differ from each other.
LEMMA ContentsDiffer ==
  /\ Original # Absent /\ Int8 # Absent /\ Fp8Only # Absent /\ Both # Absent
  /\ Original # Int8 /\ Original # Fp8Only /\ Original # Both
  /\ Int8 # Fp8Only /\ Int8 # Both /\ Fp8Only # Both
BY DEF Original, Absent, Int8, Fp8Only, Both

\* Each form is a content: at most two conversions.
LEMMA ContentsTyped == {Absent, Original, Int8, Fp8Only, Both} \subseteq Contents
BY DEF Original, Absent, Int8, Fp8Only, Both, Contents, SeqOf, Conversions

\* Which conversions a form went through.
LEMMA WhatIsConverted ==
  \A c \in {Original, Int8, Fp8Only, Both} :
    /\ Converted(c, "int8") <=> c \in Int8Forms
    /\ Converted(c, "fp8") <=> c \in Fp8Forms
<1>1. ~Converted(Original, "int8") /\ ~Converted(Original, "fp8")
  BY DEF Converted, Contains, Original
<1>2. Converted(Int8, "int8") /\ ~Converted(Int8, "fp8")
  BY DEF Converted, Contains, Int8
<1>3. ~Converted(Fp8Only, "int8") /\ Converted(Fp8Only, "fp8")
  BY DEF Converted, Contains, Fp8Only
<1>4. Converted(Both, "int8") /\ Converted(Both, "fp8")
  BY DEF Converted, Contains, Both
<1>5. QED BY <1>1, <1>2, <1>3, <1>4, ContentsDiffer DEF Int8Forms, Fp8Forms

\* What a converter appends leads from form to form.
LEMMA ConvertOne ==
  /\ Append(Original, "int8") = Int8
  /\ Append(Original, "fp8") = Fp8Only
BY DEF Original, Int8, Fp8Only

\* Both conversions, one after the other, are the last form.
LEMMA ConvertBoth == Append(Int8, "fp8") = Both
<1> DEFINE T == Append(Int8, "fp8")
<1>1. Int8 \in Seq(Conversions) /\ Len(Int8) = 1 /\ Int8[1] = "int8"
  BY DEF Int8, Conversions
<1>2. "fp8" \in Conversions
  BY DEF Conversions
<1>3. T \in Seq(Conversions)
  BY <1>1, <1>2, AppendProperties, Zenon
<1>4. Len(T) = Len(Int8) + 1
  BY <1>1, <1>2, AppendProperties, Zenon
<1>5. T[1] = "int8"
  BY <1>1, <1>2
<1>6. T[Len(Int8) + 1] = "fp8"
  BY <1>1, <1>2, AppendProperties, Zenon
<1>7. Both \in Seq(Conversions) /\ Len(Both) = 2 /\ Both[1] = "int8" /\ Both[2] = "fp8"
  BY DEF Both, Conversions
<1> HIDE DEF T
<1>8. Len(T) = 2 /\ T[1] = "int8" /\ T[2] = "fp8"
  BY <1>1, <1>4, <1>5, <1>6
<1>9. \A i \in 1 .. Len(T) : T[i] = Both[i]
  BY <1>7, <1>8
<1>10. T = Both
  BY <1>3, <1>7, <1>8, <1>9, SeqEqual, Zenon
<1>11. QED BY <1>10 DEF T

\* No form holds a conversion twice.
LEMMA FormsOnce == \A c \in {Original, Int8, Fp8Only, Both} : IsInjective(c)
BY DEF IsInjective, Original, Int8, Fp8Only, Both

\* Each form is a beginning of itself.
LEMMA PrefixOfItself == \A c \in {Original, Int8, Fp8Only, Both} : IsPrefix(c, c)
BY DEF IsPrefix, Original, Int8, Fp8Only, Both

-----------------------------------------------------------------------------
(* The invariant is inductive: one lemma for each of its parts.             *)

\* The shard a loop is at is one it has left.
LEMMA NextInTodo == todo # {} => Next8 \in todo
BY DEF Next8

\* A step that leaves the loop's shards leaves the one it is at.
LEMMA NextKept == UNCHANGED todo => Next8' = Next8
BY DEF Next8

\* Every tool leads from form to form.
LEMMA FormsKept ==
  ASSUME PrepareAssumption, IInv, [Next]_vars
  PROVE  ShardForms'
<1> USE ContentsDiffer DEF IInv, TypeOK, At, Goto, Local, disk, ShardForms, Forms
<1>1. CASE Download
  BY <1>1 DEF Download
<1>2. CASE HeadSwap
  BY <1>2 DEF HeadSwap
<1>3. CASE HeadPlace
  BY <1>3, ConvertOne DEF HeadPlace, Read
<1>4. CASE Fp8Swap
  BY <1>4 DEF Fp8Swap
<1>5. CASE Fp8Place
  BY <1>5, ConvertOne, ConvertBoth, NextInTodo DEF Fp8Place, Read, Plain, Steps, InFp8
<1>6. CASE Marker \/ Check \/ QuantizeHead \/ HeadIndex \/ Fp8 \/ Fp8Index \/ Strip \/
           StripCopy \/ StripIndex \/ FetchTable \/ Config \/ ConfigCopy \/ ConfigDump \/
           Clean \/ Link \/ WriteVariant \/ Crash \/ RunAgain \/ RunOnceMore
  BY <1>6
     DEF Marker, Check, QuantizeHead, HeadIndex, Fp8, Fp8Index, Strip, StripCopy,
         StripIndex, FetchTable, Config, ConfigCopy, ConfigDump, Clean, Link,
         WriteVariant, Crash, RunAgain, RunOnceMore
<1>7. CASE UNCHANGED vars
  BY <1>7 DEF vars, disk
<1>8. QED BY <1>1, <1>2, <1>3, <1>4, <1>5, <1>6, <1>7 DEF Next, Script

\* Nothing is converted before the marker is there.
LEMMA MarkerKept ==
  ASSUME PrepareAssumption, IInv, [Next]_vars
  PROVE  MarkerFirst'
<1> USE ContentsDiffer DEF IInv, TypeOK, At, Goto, Local, disk, MarkerFirst, Early
<1>1. CASE Download
  BY <1>1 DEF Download
<1>2. CASE Check
  BY <1>2 DEF Check
<1>3. CASE Marker \/ QuantizeHead \/ HeadSwap \/ HeadPlace \/ HeadIndex \/ Fp8 \/
           Fp8Swap \/ Fp8Place \/ Fp8Index \/ Strip \/ StripCopy \/ StripIndex \/
           FetchTable \/ Config \/ ConfigCopy \/ ConfigDump \/ Clean \/ Link \/
           WriteVariant \/ Crash \/ RunAgain \/ RunOnceMore
  BY <1>3
     DEF Marker, QuantizeHead, HeadSwap, HeadPlace, HeadIndex, Fp8, Fp8Swap, Fp8Place,
         Fp8Index, Strip, StripCopy, StripIndex, FetchTable, Config, ConfigCopy,
         ConfigDump, Clean, Link, WriteVariant, Crash, RunAgain, RunOnceMore
<1>4. CASE UNCHANGED vars
  BY <1>4 DEF vars, disk
<1>5. QED BY <1>1, <1>2, <1>3, <1>4 DEF Next, Script

\* Past the check, a shard is missing only while it is replaced.
LEMMA PresentKept ==
  ASSUME PrepareAssumption, IInv, [Next]_vars
  PROVE  Present'
<1> USE ContentsDiffer, NextKept DEF IInv, TypeOK, At, Goto, Local, disk, MarkerFirst,
       Present, Checkpoint, Early
<1>1. CASE Check
  BY <1>1 DEF Check
<1>2. CASE HeadSwap
  BY <1>2 DEF HeadSwap
<1>3. CASE HeadPlace
  BY <1>3, ConvertOne DEF HeadPlace, Read
<1>4. CASE Fp8Swap
  BY <1>4, NextInTodo DEF Fp8Swap
<1>5. CASE Fp8Place
  BY <1>5, ConvertOne, ConvertBoth DEF Fp8Place, Read, Plain, Steps, InFp8
<1>6. CASE Marker \/ Download \/ QuantizeHead \/ HeadIndex \/ Fp8 \/ Fp8Index \/ Strip \/
           StripCopy \/ StripIndex \/ FetchTable \/ Config \/ ConfigCopy \/ ConfigDump \/
           Clean \/ Link \/ WriteVariant \/ Crash \/ RunAgain \/ RunOnceMore
  BY <1>6
     DEF Marker, Download, QuantizeHead, HeadIndex, Fp8, Fp8Index, Strip, StripCopy,
         StripIndex, FetchTable, Config, ConfigCopy, ConfigDump, Clean, Link,
         WriteVariant, Crash, RunAgain, RunOnceMore
<1>7. CASE UNCHANGED vars
  BY <1>7 DEF vars, disk
<1>8. QED BY <1>1, <1>2, <1>3, <1>4, <1>5, <1>6, <1>7 DEF Next, Script

\* A converter reads what it has not yet converted.
LEMMA ReadKept ==
  ASSUME PrepareAssumption, IInv, [Next]_vars
  PROVE  Read'
<1> USE ContentsDiffer, NextKept DEF IInv, TypeOK, At, Goto, Local, disk, Read
<1>1. CASE QuantizeHead
  BY <1>1, WhatIsConverted
     DEF QuantizeHead, Present, Early, Checkpoint, ShardForms, Forms, Int8Forms
<1>2. CASE HeadSwap
  BY <1>2 DEF HeadSwap
<1>3. CASE Fp8
  BY <1>3, NextInTodo, WhatIsConverted
     DEF Fp8, Present, Early, Checkpoint, ShardForms, Forms, Int8Forms, Fp8Forms, Steps,
         InFp8, IndexTrue, Plain
<1>4. CASE Fp8Swap
  BY <1>4 DEF Fp8Swap
<1>5. CASE HeadPlace \/ Fp8Place
  BY <1>5 DEF HeadPlace, Fp8Place
<1>6. CASE Marker \/ Download \/ Check \/ HeadIndex \/ Fp8Index \/ Strip \/ StripCopy \/
           StripIndex \/ FetchTable \/ Config \/ ConfigCopy \/ ConfigDump \/ Clean \/
           Link \/ WriteVariant \/ Crash \/ RunAgain \/ RunOnceMore
  BY <1>6
     DEF Marker, Download, Check, HeadIndex, Fp8Index, Strip, StripCopy, StripIndex,
         FetchTable, Config, ConfigCopy, ConfigDump, Clean, Link, WriteVariant, Crash,
         RunAgain, RunOnceMore
<1>7. CASE UNCHANGED vars
  BY <1>7 DEF vars, disk
<1>8. QED BY <1>1, <1>2, <1>3, <1>4, <1>5, <1>6, <1>7 DEF Next, Script

\* The index is written last.
LEMMA IndexKept ==
  ASSUME PrepareAssumption, IInv, [Next]_vars
  PROVE  IndexTrue'
<1> USE ContentsDiffer, NextKept DEF IInv, TypeOK, At, Goto, Local, disk, IndexTrue
<1>1. CASE Download
  BY <1>1 DEF Download, MarkerFirst
<1>2. CASE QuantizeHead
  BY <1>2, WhatIsConverted
     DEF QuantizeHead, ShardForms, Forms, Int8Forms, Present, Early, Checkpoint
<1>3. CASE HeadSwap \/ Fp8Swap
  BY <1>3 DEF HeadSwap, Fp8Swap
<1>4. CASE HeadPlace
  BY <1>4, ConvertOne DEF HeadPlace, Read, Int8Forms, Steps, InHead, Fp8Forms
<1>5. CASE Fp8
  BY <1>5, NextInTodo, WhatIsConverted
     DEF Fp8, Present, Early, Checkpoint, ShardForms, Forms, Fp8Forms, Steps, InFp8
<1>6. CASE Fp8Place
  BY <1>6, ConvertOne, ConvertBoth, NextInTodo
     DEF Fp8Place, Read, Plain, Int8Forms, Fp8Forms, Steps, InFp8
<1>7. CASE Fp8Index \/ HeadIndex
  BY <1>7, NextInTodo DEF Fp8Index, HeadIndex, Steps, InFp8
<1>8. CASE Marker \/ Check \/ Strip \/ StripCopy \/ StripIndex \/ FetchTable \/ Config \/
           ConfigCopy \/ ConfigDump \/ Clean \/ Link \/ WriteVariant \/ Crash \/
           RunAgain \/ RunOnceMore
  BY <1>8
     DEF Marker, Check, Strip, StripCopy, StripIndex, FetchTable, Config, ConfigCopy,
         ConfigDump, Clean, Link, WriteVariant, Crash, RunAgain, RunOnceMore
<1>9. CASE UNCHANGED vars
  BY <1>9 DEF vars, disk
<1>10. QED BY <1>1, <1>2, <1>3, <1>4, <1>5, <1>6, <1>7, <1>8, <1>9 DEF Next, Script

\* Each step of the script is behind it for good.
LEMMA StepsKept ==
  ASSUME PrepareAssumption, IInv, [Next]_vars
  PROVE  Steps'
<1> USE DEF IInv, TypeOK, At, Goto, Local, disk, Steps, Early, InHead, InFp8, AfterFp8,
       AfterStrip, AfterTable, AfterConfig, AfterLink
<1>1. CASE QuantizeHead
  BY <1>1 DEF QuantizeHead
<1>2. CASE HeadIndex
  BY <1>2 DEF HeadIndex
<1>3. CASE Fp8
  BY <1>3 DEF Fp8
<1>4. CASE Fp8Index
  BY <1>4, NextInTodo DEF Fp8Index
<1>5. CASE Strip \/ StripIndex
  BY <1>5 DEF Strip, StripIndex
<1>6. CASE Config \/ ConfigDump
  BY <1>6 DEF Config, ConfigDump
<1>7. CASE Clean \/ Link \/ WriteVariant
  BY <1>7 DEF Clean, Link, WriteVariant
<1>8. CASE Marker \/ Download \/ Check \/ HeadSwap \/ HeadPlace \/ Fp8Swap \/ Fp8Place \/
           StripCopy \/ FetchTable \/ ConfigCopy \/ Crash \/ RunAgain \/ RunOnceMore
  BY <1>8
     DEF Marker, Download, Check, HeadSwap, HeadPlace, Fp8Swap, Fp8Place, StripCopy,
         FetchTable, ConfigCopy, Crash, RunAgain, RunOnceMore
<1>9. CASE UNCHANGED vars
  BY <1>9 DEF vars, disk
<1>10. QED BY <1>1, <1>2, <1>3, <1>4, <1>5, <1>6, <1>7, <1>8, <1>9 DEF Next, Script

\* The variant links the shards as they are.
LEMMA VariantKept ==
  ASSUME PrepareAssumption, IInv, [Next]_vars
  PROVE  VariantSteps'
<1> USE DEF IInv, TypeOK, At, Goto, Local, disk, VariantSteps, AfterLink, Linked
<1>1. CASE Clean
  BY <1>1 DEF Clean
<1>2. CASE Link
  <2> DEFINE s == CHOOSE x \in todo : TRUE
  <2>1. CASE todo = {}
    BY <1>2, <2>1 DEF Link
  <2>2. CASE todo # {}
    <3>1. s \in todo
      BY <2>2
    <3>2. pc = "link" /\ pc' = "link" /\ todo' = todo \ {s} /\ UNCHANGED <<shard, variant>>
          /\ (link' = [link EXCEPT ![s] = shard[s]] \/ (link[s] # Absent /\ link' = link))
      BY <1>2, <2>2 DEF Link
    <3> HIDE DEF s
    <3>3. s \in Linked /\ (link[s] # Absent => link[s] = shard[s])
      BY <3>1, <3>2 DEF Follows
    <3>4. todo \subseteq Linked /\ \A x \in Linked \ todo : link[x] = shard[x]
      BY <3>2
    <3>5. link' \in [Shards -> Contents] /\ link'[s] = shard[s]
          /\ \A x \in Shards \ {s} : link'[x] = link[x]
      <4>1. CASE link' = [link EXCEPT ![s] = shard[s]]
        BY <3>3, <4>1 DEF Checkpoint
      <4>2. CASE link[s] # Absent /\ link' = link
        BY <3>3, <4>2
      <4>3. QED BY <3>2, <4>1, <4>2
    <3>6. Linked \subseteq Shards
      BY DEF Checkpoint
    <3>7. QED BY <3>2, <3>4, <3>5, <3>6
  <2>3. QED BY <2>1, <2>2
<1>3. CASE WriteVariant
  BY <1>3 DEF WriteVariant
<1>4. CASE Download \/ HeadSwap \/ HeadPlace \/ Fp8Swap \/ Fp8Place
  BY <1>4 DEF Download, HeadSwap, HeadPlace, Fp8Swap, Fp8Place
<1>5. CASE Marker \/ Check \/ QuantizeHead \/ HeadIndex \/ Fp8 \/ Fp8Index \/ Strip \/
           StripCopy \/ StripIndex \/ FetchTable \/ Config \/ ConfigCopy \/ ConfigDump \/
           Crash \/ RunAgain \/ RunOnceMore
  BY <1>5
     DEF Marker, Check, QuantizeHead, HeadIndex, Fp8, Fp8Index, Strip, StripCopy,
         StripIndex, FetchTable, Config, ConfigCopy, ConfigDump, Crash, RunAgain,
         RunOnceMore
<1>6. CASE UNCHANGED vars
  BY <1>6 DEF vars, disk
<1>7. QED BY <1>1, <1>2, <1>3, <1>4, <1>5, <1>6 DEF Next, Script

\* A backup is what its converter found.
LEMMA BackupsKept ==
  ASSUME PrepareAssumption, IInv, [Next]_vars
  PROVE  Backups'
<1> USE ContentsDiffer DEF IInv, TypeOK, At, Goto, Local, disk, Backups
<1>1. CASE HeadSwap
  BY <1>1 DEF HeadSwap, Read
<1>2. CASE Fp8Swap
  BY <1>2, NextInTodo DEF Fp8Swap, Read, Steps, InFp8
<1>3. CASE Clean
  BY <1>3 DEF Clean
<1>4. CASE Marker \/ Download \/ Check \/ QuantizeHead \/ HeadPlace \/ HeadIndex \/
           Fp8 \/ Fp8Place \/ Fp8Index \/ Strip \/ StripCopy \/ StripIndex \/
           FetchTable \/ Config \/ ConfigCopy \/ ConfigDump \/ Link \/ WriteVariant \/
           Crash \/ RunAgain \/ RunOnceMore
  BY <1>4
     DEF Marker, Download, Check, QuantizeHead, HeadPlace, HeadIndex, Fp8, Fp8Place,
         Fp8Index, Strip, StripCopy, StripIndex, FetchTable, Config, ConfigCopy,
         ConfigDump, Link, WriteVariant, Crash, RunAgain, RunOnceMore
<1>5. CASE UNCHANGED vars
  BY <1>5 DEF vars, disk
<1>6. QED BY <1>1, <1>2, <1>3, <1>4, <1>5 DEF Next, Script

\* An original is lost by no step before the config is rewritten.
LEMMA OriginalsStay ==
  ASSUME PrepareAssumption, IInv, [Next]_vars
  PROVE  OriginalKept'
<1> USE ContentsDiffer DEF IInv, TypeOK, At, Goto, Local, disk, OriginalKept, Checkpoint
<1>1. CASE Download
  BY <1>1 DEF Download, MarkerFirst
<1>2. CASE Check
  BY <1>2 DEF Check, Present, MarkerFirst, ShardForms, Forms
<1>3. CASE HeadSwap
  BY <1>3 DEF HeadSwap, Read, Backups
<1>4. CASE HeadPlace
  BY <1>4 DEF HeadPlace, Present, Early, Checkpoint
<1>5. CASE Fp8Swap
  BY <1>5, NextInTodo DEF Fp8Swap, Read, Plain, Backups, Steps, InFp8
<1>6. CASE Fp8Place
  BY <1>6, NextInTodo DEF Fp8Place, Present, Early
<1>7. CASE Clean
  BY <1>7 DEF Clean, Steps, AfterFp8, AfterConfig, AfterStrip, AfterTable
<1>8. CASE ConfigDump
  BY <1>8 DEF ConfigDump
<1>9. CASE Marker \/ QuantizeHead \/ HeadIndex \/ Fp8 \/ Fp8Index \/ Strip \/
           StripCopy \/ StripIndex \/ FetchTable \/ Config \/ ConfigCopy \/ Link \/
           WriteVariant \/ Crash \/ RunAgain \/ RunOnceMore
  BY <1>9
     DEF Marker, QuantizeHead, HeadIndex, Fp8, Fp8Index, Strip, StripCopy, StripIndex,
         FetchTable, Config, ConfigCopy, Link, WriteVariant, Crash, RunAgain,
         RunOnceMore
<1>10. CASE UNCHANGED vars
  BY <1>10 DEF vars, disk
<1>11. QED BY <1>1, <1>2, <1>3, <1>4, <1>5, <1>6, <1>7, <1>8, <1>9, <1>10 DEF Next,
   Script

\* Every action keeps the types of what is on disk: the contents are forms.
LEMMA ContentsKept ==
  ASSUME PrepareAssumption, IInv, [Next]_vars
  PROVE  /\ shard' \in [Shards -> Contents] /\ headBak' \in Contents
         /\ fp8Bak' \in [Shards -> Contents] /\ link' \in [Shards -> Contents]
         /\ loaded' \in Contents
<1> USE DEF IInv, TypeOK, At, Goto, Local, disk
<1>1. ShardForms' /\ Backups'
  BY FormsKept, BackupsKept
<1>2. shard' \in [Shards -> Contents]
  <2>1. shard' = [s \in Shards |-> shard'[s]]
    BY DEF Marker, Download, Check, QuantizeHead, HeadSwap, HeadPlace, HeadIndex, Fp8,
           Fp8Swap, Fp8Place, Fp8Index, Strip, StripCopy, StripIndex, FetchTable,
           Config, ConfigCopy, ConfigDump, Clean, Link, WriteVariant, Crash, RunAgain,
           RunOnceMore, Next, Script, vars
  <2>2. \A s \in Shards : shard'[s] \in Contents
    BY <1>1, ContentsTyped DEF ShardForms, Forms
  <2>3. QED BY <2>1, <2>2
<1>3. fp8Bak' \in [Shards -> Contents]
  <2>1. fp8Bak' = [s \in Shards |-> fp8Bak'[s]]
    BY DEF Marker, Download, Check, QuantizeHead, HeadSwap, HeadPlace, HeadIndex, Fp8,
           Fp8Swap, Fp8Place, Fp8Index, Strip, StripCopy, StripIndex, FetchTable,
           Config, ConfigCopy, ConfigDump, Clean, Link, WriteVariant, Crash, RunAgain,
           RunOnceMore, Next, Script, vars
  <2>2. \A s \in Shards : fp8Bak'[s] \in Contents
    BY <1>1, ContentsTyped DEF Backups, Plain
  <2>3. QED BY <2>1, <2>2
<1>4. headBak' \in Contents
  BY <1>1, ContentsTyped DEF Backups
<1>5. link' \in [Shards -> Contents]
  BY DEF Marker, Download, Check, QuantizeHead, HeadSwap, HeadPlace, HeadIndex, Fp8,
         Fp8Swap, Fp8Place, Fp8Index, Strip, StripCopy, StripIndex, FetchTable, Config,
         ConfigCopy, ConfigDump, Clean, Link, WriteVariant, Crash, RunAgain,
         RunOnceMore, Next, Script, vars
<1>6. loaded' \in Contents
  BY ContentsTyped, NextInTodo
     DEF PrepareAssumption, Steps, InFp8, Marker, Download, Check, QuantizeHead,
         HeadSwap, HeadPlace, HeadIndex, Fp8, Fp8Swap, Fp8Place, Fp8Index, Strip,
         StripCopy, StripIndex, FetchTable, Config, ConfigCopy, ConfigDump, Clean, Link,
         WriteVariant, Crash, RunAgain, RunOnceMore, Next, Script, vars
<1>7. QED BY <1>2, <1>3, <1>4, <1>5, <1>6

\* Flags, backups and the position keep their types.
LEMMA FlagsKept ==
  ASSUME PrepareAssumption, IInv, [Next]_vars
  PROVE  /\ indexBak' \in {"none", "torn", "whole"}
         /\ config' \in {"autoround", "gptq", "torn"}
         /\ configBak' \in {"none", "torn", "whole"}
         /\ marker' \in BOOLEAN /\ table' \in BOOLEAN
         /\ pc' \in Positions
         /\ todo' \in SUBSET Shards
         /\ crashes' \in 0 .. MaxCrashes
<1> USE DEF IInv, TypeOK, At, Goto, Local, disk
<1>1. indexBak' \in {"none", "torn", "whole"} /\ configBak' \in {"none", "torn", "whole"}
  BY DEF Marker, Download, Check, QuantizeHead, HeadSwap, HeadPlace, HeadIndex, Fp8,
         Fp8Swap, Fp8Place, Fp8Index, Strip, StripCopy, StripIndex, FetchTable, Config,
         ConfigCopy, ConfigDump, Clean, Link, WriteVariant, Crash, RunAgain,
         RunOnceMore, Next, Script, vars
<1>2. config' \in {"autoround", "gptq", "torn"}
  BY DEF Marker, Download, Check, QuantizeHead, HeadSwap, HeadPlace, HeadIndex, Fp8,
         Fp8Swap, Fp8Place, Fp8Index, Strip, StripCopy, StripIndex, FetchTable, Config,
         ConfigCopy, ConfigDump, Clean, Link, WriteVariant, Crash, RunAgain,
         RunOnceMore, Next, Script, vars
<1>3. marker' \in BOOLEAN
  BY DEF Marker, Download, Check, QuantizeHead, HeadSwap, HeadPlace, HeadIndex, Fp8,
         Fp8Swap, Fp8Place, Fp8Index, Strip, StripCopy, StripIndex, FetchTable, Config,
         ConfigCopy, ConfigDump, Clean, Link, WriteVariant, Crash, RunAgain,
         RunOnceMore, Next, Script, vars
<1>4. table' \in BOOLEAN
  BY DEF Marker, Download, Check, QuantizeHead, HeadSwap, HeadPlace, HeadIndex, Fp8,
         Fp8Swap, Fp8Place, Fp8Index, Strip, StripCopy, StripIndex, FetchTable, Config,
         ConfigCopy, ConfigDump, Clean, Link, WriteVariant, Crash, RunAgain,
         RunOnceMore, Next, Script, vars
<1>5. pc' \in Positions
  BY DEF Positions, Marker, Download, Check, QuantizeHead, HeadSwap, HeadPlace,
         HeadIndex, Fp8, Fp8Swap, Fp8Place, Fp8Index, Strip, StripCopy, StripIndex,
         FetchTable, Config, ConfigCopy, ConfigDump, Clean, Link, WriteVariant, Crash,
         RunAgain, RunOnceMore, Next, Script, vars
<1>6. todo' \in SUBSET Shards
  BY DEF PrepareAssumption, Checkpoint, Linked, Marker, Download, Check, QuantizeHead,
         HeadSwap, HeadPlace, HeadIndex, Fp8, Fp8Swap, Fp8Place, Fp8Index, Strip,
         StripCopy, StripIndex, FetchTable, Config, ConfigCopy, ConfigDump, Clean, Link,
         WriteVariant, Crash, RunAgain, RunOnceMore, Next, Script, vars
<1>7. crashes' \in 0 .. MaxCrashes
  BY DEF PrepareAssumption, Marker, Download, Check, QuantizeHead, HeadSwap, HeadPlace,
         HeadIndex, Fp8, Fp8Swap, Fp8Place, Fp8Index, Strip, StripCopy, StripIndex,
         FetchTable, Config, ConfigCopy, ConfigDump, Clean, Link, WriteVariant, Crash,
         RunAgain, RunOnceMore, Next, Script, vars
<1>8. QED BY <1>1, <1>2, <1>3, <1>4, <1>5, <1>6, <1>7

\* Where the config is touched, the shards are final.
LEMMA FinalThere ==
  ASSUME PrepareAssumption, IInv, pc \in AfterTable
  PROVE  /\ marker /\ index.head = "int8" /\ index.scales = Fp8Shards
         /\ \A s \in Checkpoint : shard[s] = Final(s)
<1>1. pc \in AfterFp8 /\ pc \notin Early /\ pc # "headPlace" /\ pc # "fp8Place"
  BY DEF AfterTable, AfterConfig, AfterLink, AfterFp8, AfterStrip, Early
<1>2. marker /\ index.head = "int8" /\ index.scales = Fp8Shards
  BY <1>1 DEF IInv, MarkerFirst, Steps
<1>3. \A s \in Checkpoint : shard[s] \in Forms(s) /\ shard[s] # Absent
  BY <1>1 DEF IInv, Present, ShardForms, Checkpoint
<1>4. \A s \in Fp8Shards : shard[s] \in Fp8Forms \cup {Absent}
  BY <1>2 DEF IInv, IndexTrue
<1>5. shard[HeadShard] \in Int8Forms \cup {Absent}
  BY <1>2 DEF IInv, IndexTrue
<1>6. \A s \in Checkpoint : shard[s] = Final(s)
  BY <1>3, <1>4, <1>5, ContentsDiffer
     DEF Forms, Fp8Forms, Int8Forms, Final, Plain
<1>7. QED BY <1>2, <1>6

\* Once the shards are final no tool changes them: the download is skipped, the
\* head is taken from the index, and each shard is found converted.
LEMMA SettledSteps ==
  ASSUME PrepareAssumption, IInv, Settled, config # "autoround", [Next]_vars
  PROVE  UNCHANGED <<marker, shard>> /\ index'.head = "int8" /\ index'.scales = Fp8Shards
<1>1. /\ marker /\ index.head = "int8" /\ index.scales = Fp8Shards
      /\ \A s \in Checkpoint : shard[s] = Final(s)
  BY DEF Settled
<1>2. ~Download /\ ~HeadSwap /\ ~HeadPlace
  BY <1>1 DEF IInv, MarkerFirst, Steps, InHead, Download, HeadSwap, HeadPlace, At
<1>3. ASSUME Fp8Swap \/ Fp8Place PROVE FALSE
  <2>1. pc \in {"fp8Swap", "fp8Place"} /\ pc \in InFp8 \ {"fp8"}
    BY <1>3 DEF Fp8Swap, Fp8Place, At, InFp8
  <2>2. Next8 \in Fp8Shards
    BY <2>1, NextInTodo DEF IInv, Steps, InFp8
  <2>3. Next8 \in Checkpoint
    BY <2>2 DEF PrepareAssumption, Checkpoint
  <2>4. shard[Next8] = Final(Next8)
    BY <1>1, <2>3
  <2>5. shard[Next8] \notin {Plain(Next8), Absent}
    BY <2>2, <2>4, ContentsDiffer DEF Final, Plain
  <2>6. pc = "fp8Place" => shard[Next8] = Absent
    BY <2>3 DEF IInv, Present, Early
  <2>7. pc = "fp8Swap" => shard[Next8] = Plain(Next8)
    BY DEF IInv, Read
  <2>8. QED BY <2>1, <2>5, <2>6, <2>7
<1>4. UNCHANGED shard
  BY <1>2, <1>3
     DEF Marker, Check, QuantizeHead, HeadIndex, Fp8, Fp8Index, Strip, StripCopy,
         StripIndex, FetchTable, Config, ConfigCopy, ConfigDump, Clean, Link,
         WriteVariant, Crash, RunAgain, RunOnceMore, Local, Next, Script, vars, disk
<1>5. marker' = marker
  BY <1>1, <1>2, <1>3
     DEF Marker, Check, QuantizeHead, HeadIndex, Fp8, Fp8Index, Strip, StripCopy,
         StripIndex, FetchTable, Config, ConfigCopy, ConfigDump, Clean, Link,
         WriteVariant, Crash, RunAgain, RunOnceMore, Local, Next, Script, vars, disk
<1>6. CASE UNCHANGED index
  BY <1>1, <1>4, <1>5, <1>6
<1>7. CASE HeadIndex \/ StripIndex
  BY <1>1, <1>4, <1>5, <1>7 DEF IInv, TypeOK, HeadIndex, StripIndex
<1>8. CASE Fp8Index
  <2>1. pc \in InFp8 \ {"fp8"}
    BY <1>8 DEF Fp8Index, At, InFp8
  <2>2. Next8 \in Fp8Shards
    BY <2>1, NextInTodo DEF IInv, Steps, InFp8
  <2>3. QED BY <1>1, <1>4, <1>5, <1>8, <2>2 DEF IInv, TypeOK, Fp8Index
<1>9. QED
  BY <1>2, <1>3, <1>6, <1>7, <1>8
     DEF Marker, Check, QuantizeHead, Fp8, Strip, StripCopy, FetchTable, Config,
         ConfigCopy, ConfigDump, Clean, Link, WriteVariant, Crash, RunAgain,
         RunOnceMore, Local, Next, Script, vars, disk

LEMMA SettledKept ==
  ASSUME PrepareAssumption, IInv, Settled, [Next]_vars
  PROVE  Settled'
<1>1. CASE config # "autoround"
  BY <1>1, SettledSteps DEF Settled
<1>2. CASE config = "autoround" /\ config' = config
  BY <1>2 DEF Settled
<1>3. CASE config = "autoround" /\ config' # config
  <2>1. ConfigDump
    BY <1>3
       DEF Marker, Download, Check, QuantizeHead, HeadSwap, HeadPlace, HeadIndex, Fp8,
           Fp8Swap, Fp8Place, Fp8Index, Strip, StripCopy, StripIndex, FetchTable, Config,
           ConfigCopy, Clean, Link, WriteVariant, Crash, RunAgain, RunOnceMore, Local,
           Next, Script, vars, disk
  <2>2. pc \in AfterTable /\ UNCHANGED <<shard, index, marker>>
    BY <2>1 DEF ConfigDump, At, AfterTable
  <2>3. QED BY <2>2, FinalThere DEF Settled
<1>4. QED BY <1>1, <1>2, <1>3

\* No shard that is linked changes.
LEMMA FollowsKept ==
  ASSUME PrepareAssumption, IInv, [Next]_vars
  PROVE  Follows'
<1> SUFFICES ASSUME NEW s \in Linked, link'[s] # Absent
             PROVE  config' # "autoround" /\ link'[s] = shard'[s]
  BY DEF Follows
<1>1. s \in Shards
  BY DEF Linked, Checkpoint
<1>2. config # "autoround"
  <2>1. CASE Link
    BY <2>1 DEF IInv, Steps, AfterConfig, Link, At
  <2>2. CASE UNCHANGED link
    BY <2>2 DEF IInv, Follows
  <2>3. QED
    BY <2>1, <2>2
       DEF Marker, Download, Check, QuantizeHead, HeadSwap, HeadPlace, HeadIndex, Fp8,
           Fp8Swap, Fp8Place, Fp8Index, Strip, StripCopy, StripIndex, FetchTable, Config,
           ConfigCopy, ConfigDump, Clean, WriteVariant, Crash, RunAgain, RunOnceMore,
           Local, Next, Script, vars, disk
<1>3. UNCHANGED shard
  BY <1>2, SettledSteps DEF IInv
<1>4. config' # "autoround"
  BY <1>2
     DEF Marker, Download, Check, QuantizeHead, HeadSwap, HeadPlace, HeadIndex, Fp8,
         Fp8Swap, Fp8Place, Fp8Index, Strip, StripCopy, StripIndex, FetchTable, Config,
         ConfigCopy, ConfigDump, Clean, Link, WriteVariant, Crash, RunAgain, RunOnceMore,
         Local, Next, Script, vars, disk
<1>5. CASE Link
  <2>1. link'[s] \in {link[s], shard[s]}
    BY <1>1, <1>5 DEF IInv, TypeOK, Link
  <2>2. QED BY <1>3, <1>4, <2>1 DEF IInv, Follows
<1>6. CASE UNCHANGED link
  BY <1>3, <1>4, <1>6 DEF IInv, Follows
<1>7. QED
  BY <1>5, <1>6
     DEF Marker, Download, Check, QuantizeHead, HeadSwap, HeadPlace, HeadIndex, Fp8,
         Fp8Swap, Fp8Place, Fp8Index, Strip, StripCopy, StripIndex, FetchTable, Config,
         ConfigCopy, ConfigDump, Clean, WriteVariant, Crash, RunAgain, RunOnceMore,
         Local, Next, Script, vars, disk

\* The index and the variant are records of which one field is written at a time.
LEMMA RecordsKept ==
  ASSUME PrepareAssumption, IInv, [Next]_vars
  PROVE  /\ index' \in [head : {"bf16", "int8"}, scales : SUBSET Fp8Shards,
                        ngram : BOOLEAN]
         /\ variant' \in [extra : {"none", "torn", "int4"},
                          index : {"none", "torn", "whole"},
                          config : {"none", "torn", "whole"}]
<1> USE DEF IInv, TypeOK, At, Goto, Local, disk
<1>1. index' \in [head : {"bf16", "int8"}, scales : SUBSET Fp8Shards, ngram : BOOLEAN]
  <2>1. CASE HeadIndex
    BY <2>1 DEF HeadIndex
  <2>2. CASE Fp8Index
    <3>1. Next8 \in Fp8Shards
      BY <2>2, NextInTodo DEF Fp8Index, Steps, InFp8
    <3>2. QED BY <2>2, <3>1 DEF Fp8Index
  <2>3. CASE StripIndex
    BY <2>3 DEF StripIndex
  <2>4. CASE ~(HeadIndex \/ Fp8Index \/ StripIndex)
    <3>1. index' = index
      BY <2>4
         DEF Marker, Download, Check, QuantizeHead, HeadSwap, HeadPlace, HeadIndex, Fp8,
             Fp8Swap, Fp8Place, Fp8Index, Strip, StripCopy, StripIndex, FetchTable,
             Config, ConfigCopy, ConfigDump, Clean, Link, WriteVariant, Crash, RunAgain,
             RunOnceMore, Next, Script, vars
    <3>2. QED BY <3>1
  <2>5. QED BY <2>1, <2>2, <2>3, <2>4
<1>2. variant' \in [extra : {"none", "torn", "int4"}, index : {"none", "torn", "whole"},
                    config : {"none", "torn", "whole"}]
  <2>1. CASE WriteVariant
    BY <2>1 DEF WriteVariant
  <2>2. CASE ~WriteVariant
    <3>1. variant' = variant
      BY <2>2
         DEF Marker, Download, Check, QuantizeHead, HeadSwap, HeadPlace, HeadIndex, Fp8,
             Fp8Swap, Fp8Place, Fp8Index, Strip, StripCopy, StripIndex, FetchTable,
             Config, ConfigCopy, ConfigDump, Clean, Link, WriteVariant, Crash, RunAgain,
             RunOnceMore, Next, Script, vars
    <3>2. QED BY <3>1
  <2>3. QED BY <2>1, <2>2
<1>3. QED BY <1>1, <1>2

\* A fresh directory satisfies the invariant.
LEMMA InitHolds == ASSUME PrepareAssumption, Init PROVE IInv
<1> USE DEF Init
<1>1. TypeOK
  <2>1. /\ shard \in [Shards -> Contents] /\ fp8Bak \in [Shards -> Contents]
        /\ link \in [Shards -> Contents] /\ headBak \in Contents /\ loaded \in Contents
    BY ContentsTyped
  <2>2. index \in [head : {"bf16", "int8"}, scales : SUBSET Fp8Shards, ngram : BOOLEAN]
    OBVIOUS
  <2>3. variant \in [extra : {"none", "torn", "int4"}, index : {"none", "torn", "whole"},
                     config : {"none", "torn", "whole"}]
    OBVIOUS
  <2>4. marker \in BOOLEAN /\ table \in BOOLEAN
    OBVIOUS
  <2>5. /\ indexBak \in {"none", "torn", "whole"} /\ config \in {"autoround", "gptq", "torn"}
        /\ configBak \in {"none", "torn", "whole"}
        /\ pc \in Positions /\ todo \in SUBSET Shards /\ crashes \in 0 .. MaxCrashes
    BY DEF PrepareAssumption, Positions
  <2>6. QED BY <2>1, <2>2, <2>3, <2>4, <2>5 DEF TypeOK
<1>2. ShardForms /\ MarkerFirst /\ Present
  BY DEF ShardForms, MarkerFirst, Present, Early
<1>3. Read /\ IndexTrue
  BY DEF Read, IndexTrue
<1>4. Steps /\ VariantSteps
  BY DEF Steps, VariantSteps, InHead, InFp8, AfterFp8, AfterStrip, AfterTable,
         AfterConfig,
         AfterLink
<1>5. Settled /\ Follows /\ Backups /\ OriginalKept
  BY DEF Settled, Follows, Linked, Checkpoint, Backups, OriginalKept
<1>6. QED BY <1>1, <1>2, <1>3, <1>4, <1>5 DEF IInv

\* Every step keeps the invariant, part by part.
LEMMA NextHolds == ASSUME PrepareAssumption, IInv, [Next]_vars PROVE IInv'
<1>1. TypeOK'
  BY ContentsKept, FlagsKept, RecordsKept DEF TypeOK
<1>2. ShardForms' /\ MarkerFirst' /\ Present'
  BY FormsKept, MarkerKept, PresentKept
<1>3. Read' /\ IndexTrue' /\ Steps'
  BY ReadKept, IndexKept, StepsKept
<1>4. VariantSteps' /\ Backups' /\ OriginalKept'
  BY VariantKept, BackupsKept, OriginalsStay
<1>5. Settled' /\ Follows'
  BY SettledKept, FollowsKept DEF IInv
<1>6. QED BY <1>1, <1>2, <1>3, <1>4, <1>5 DEF IInv

-----------------------------------------------------------------------------
(* The theorems.                                                            *)

\* The disk is what the position of the script says it is, through every
\* interruption and re-run of prepare.sh.
THEOREM PrepareInvariant == Spec => []IInv
BY PrepareAssumption, InitHolds, NextHolds, PTL DEF Spec

\* The variables of the model keep their types.
THEOREM PrepareTypes == Spec => []TypeOK
<1>1. IInv => TypeOK
  BY DEF IInv
<1>2. QED BY <1>1, PrepareInvariant, PTL

\* No crash between two durable changes, and no re-run after it, loses an
\* original shard before the config is rewritten.
THEOREM OriginalsAreKept == Spec => []OriginalKept
<1>1. IInv => OriginalKept
  BY DEF IInv
<1>2. QED BY <1>1, PrepareInvariant, PTL

\* The converters recognise what an interrupted run had converted: no tensor
\* is quantized twice.
THEOREM QuantizedOnce == Spec => []NeverTwice
<1>1. IInv => NeverTwice
  BY FormsOnce DEF IInv, ShardForms, Forms, NeverTwice
<1>2. QED BY <1>1, PrepareInvariant, PTL

\* An index entry is written after the shard it describes, in every run.
THEOREM IndexStaysBehind == Spec => []IndexBehind
<1>1. IInv => IndexBehind
  BY WhatIsConverted, ContentsDiffer
       DEF IInv, ShardForms, Forms, IndexTrue, IndexBehind, Checkpoint, Int8Forms,
           Fp8Forms
<1>2. QED BY <1>1, PrepareInvariant, PTL

\* Whenever the script ends, shards, index, config and variant fit together.
THEOREM DoneServable == Spec => []DoneIsServable
<1>1. ASSUME PrepareAssumption, IInv, pc = "done" PROVE DoneIsServable
  <2>1. /\ index.head = "int8" /\ index.scales = Fp8Shards /\ ~index.ngram
        /\ config = "gptq" /\ table
    BY <1>1 DEF IInv, Steps, AfterFp8, AfterStrip, AfterTable, AfterConfig, AfterLink
  <2>2. \A s \in Checkpoint : shard[s] \in Forms(s)
    BY <1>1 DEF IInv, ShardForms, Present, Early, Checkpoint
  <2>3. \A s \in Fp8Shards : shard[s] \in Fp8Forms \cup {Absent}
    BY <1>1, <2>1 DEF IInv, IndexTrue
  <2>4. shard[HeadShard] \in Int8Forms \cup {Absent}
    BY <1>1, <2>1 DEF IInv, IndexTrue
  <2>5. \A s \in Checkpoint : /\ Converted(shard[s], "fp8") <=> s \in Fp8Shards
                              /\ Converted(shard[s], "int8") <=> s = HeadShard
    BY <2>2, <2>3, <2>4, WhatIsConverted, ContentsDiffer
       DEF Forms, Int8Forms, Fp8Forms
  <2>6. index = [head |-> "int8", scales |-> Fp8Shards, ngram |-> FALSE]
    <3>1. index \in [head : {"bf16", "int8"}, scales : SUBSET Fp8Shards, ngram : BOOLEAN]
      BY <1>1 DEF IInv, TypeOK
    <3>2. index.ngram = FALSE
      BY <2>1, <3>1
    <3>3. QED BY <2>1, <3>1, <3>2
  <2>7. /\ \A s \in Linked : link[s] = shard[s]
        /\ variant.extra = "int4" /\ variant.index = "whole" /\ variant.config = "whole"
    BY <1>1 DEF IInv, VariantSteps, AfterLink
  <2>8. variant = [extra |-> "int4", index |-> "whole", config |-> "whole"]
    <3>1. variant \in [extra : {"none", "torn", "int4"}, index : {"none", "torn", "whole"},
                       config : {"none", "torn", "whole"}]
      BY <1>1 DEF IInv, TypeOK
    <3>2. QED BY <2>7, <3>1
  <2>9. QED BY <1>1, <2>1, <2>5, <2>6, <2>7, <2>8 DEF DoneIsServable
<1>2. IInv => DoneIsServable
  BY <1>1, PrepareAssumption DEF DoneIsServable
<1>3. QED BY <1>2, PrepareInvariant, PTL

\* A re-run undoes no conversion: no step puts less into a shard than it had.
THEOREM ConversionsStay == Spec => NeverUndone
<1> DEFINE Extends == \A s \in Shards : (shard[s] # Absent /\ shard'[s] # Absent)
                                          => IsPrefix(shard[s], shard'[s])
<1>1. ASSUME IInv, [Next]_vars PROVE Extends
  <2>1. \A s \in Shards : shard[s] \in {Absent, Original, Int8, Fp8Only, Both}
    BY <1>1 DEF IInv, ShardForms, Forms
  <2>2. CASE UNCHANGED shard
    BY <2>1, <2>2, PrefixOfItself
  <2>3. CASE Download
    <3>1. \A s \in Shards : shard[s] \in {Absent, Original}
      BY <1>1, <2>3 DEF IInv, MarkerFirst, Download, At
    <3>2. \A s \in Shards : shard'[s] \in {shard[s], Original}
      BY <1>1, <2>3 DEF IInv, TypeOK, Download
    <3>3. QED BY <3>1, <3>2, PrefixOfItself
  <2>4. CASE HeadSwap
    BY <1>1, <2>1, <2>4, PrefixOfItself DEF IInv, TypeOK, HeadSwap
  <2>5. CASE HeadPlace
    <3>1. shard[HeadShard] = Absent
      BY <1>1, <2>5, PrepareAssumption
         DEF IInv, Present, Early, HeadPlace, At, Checkpoint, PrepareAssumption
    <3>2. \A s \in Shards \ {HeadShard} : shard'[s] = shard[s]
      BY <1>1, <2>5 DEF IInv, TypeOK, HeadPlace
    <3>3. QED BY <2>1, <3>1, <3>2, PrefixOfItself
  <2>6. CASE Fp8Swap
    BY <1>1, <2>1, <2>6, PrefixOfItself DEF IInv, TypeOK, Fp8Swap
  <2>7. CASE Fp8Place
    <3>1. shard[Next8] = Absent
      BY <1>1, <2>7, PrepareAssumption, NextInTodo
       DEF IInv, Present, Early, Fp8Place, At, Checkpoint, PrepareAssumption, Steps,
           InFp8
    <3>2. \A s \in Shards \ {Next8} : shard'[s] = shard[s]
      BY <1>1, <2>7 DEF IInv, TypeOK, Fp8Place
    <3>3. QED BY <2>1, <3>1, <3>2, PrefixOfItself
  <2>8. QED
    BY <1>1, <2>2, <2>3, <2>4, <2>5, <2>6, <2>7
       DEF Marker, Check, QuantizeHead, HeadIndex, Fp8, Fp8Index, Strip, StripCopy,
           StripIndex, FetchTable, Config, ConfigCopy, ConfigDump, Clean, Link,
           WriteVariant, Crash, RunAgain, RunOnceMore, Local, Next, Script, vars, disk
<1>2. QED BY <1>1, PrepareInvariant, PTL DEF NeverUndone, Spec

-----------------------------------------------------------------------------
(* What is served.                                                          *)

\* The variant is begun when its links are made, which every re-run keeps.
VariantSettled ==
  variant.extra # "none" => /\ config = "gptq"
                            /\ \A s \in Linked : link[s] = shard[s]

\* A rewritten config is not written again.
WrittenOnce ==
  pc \in {"configCopy", "configCopied", "configDump", "configDumped"} => config # "gptq"

FInv == IInv /\ VariantSettled /\ WrittenOnce

LEMMA VariantSettledKept ==
  ASSUME PrepareAssumption, FInv, [Next]_vars
  PROVE  VariantSettled'
<1> USE DEF FInv
<1>1. config = "gptq" => UNCHANGED shard
  BY SettledSteps DEF IInv
<1>2. CASE WriteVariant
  <2>1. pc \in AfterLink
    BY <1>2 DEF WriteVariant, At, AfterLink
  <2>2. config = "gptq" /\ \A s \in Linked : link[s] = shard[s]
    BY <2>1 DEF IInv, Steps, VariantSteps, AfterConfig
  <2>3. UNCHANGED <<config, link, shard>>
    BY <1>2 DEF WriteVariant
  <2>4. QED BY <2>2, <2>3 DEF VariantSettled
<1>3. CASE Link
  <2>1. UNCHANGED <<variant, config, shard>>
    BY <1>3 DEF Link
  <2>2. \A s \in Shards : link'[s] \in {link[s], shard[s]}
    BY <1>3 DEF IInv, TypeOK, Link
  <2>3. Linked \subseteq Shards
    BY DEF Linked, Checkpoint
  <2>4. QED BY <2>1, <2>2, <2>3 DEF VariantSettled
<1>4. CASE ConfigDump
  <2>1. variant.extra = "none" /\ UNCHANGED variant
    BY <1>4 DEF ConfigDump, At, WrittenOnce, VariantSettled
  <2>2. QED BY <2>1 DEF VariantSettled
<1>5. CASE UNCHANGED <<variant, config, link>>
  BY <1>1, <1>5 DEF VariantSettled
<1>6. QED
  BY <1>2, <1>3, <1>4, <1>5
     DEF Marker, Download, Check, QuantizeHead, HeadSwap, HeadPlace, HeadIndex, Fp8,
         Fp8Swap, Fp8Place, Fp8Index, Strip, StripCopy, StripIndex, FetchTable, Config,
         ConfigCopy, Clean, Crash, RunAgain, RunOnceMore, Local, Next, Script, vars, disk

LEMMA WrittenOnceKept ==
  ASSUME FInv, [Next]_vars
  PROVE  WrittenOnce'
BY DEF FInv, WrittenOnce, At, Goto,
       Marker, Download, Check, QuantizeHead, HeadSwap, HeadPlace, HeadIndex, Fp8,
       Fp8Swap, Fp8Place, Fp8Index, Strip, StripCopy, StripIndex, FetchTable, Config,
       ConfigCopy, ConfigDump, Clean, Link, WriteVariant, Crash, RunAgain, RunOnceMore,
       Local, Next, Script, vars, disk

\* What the rewritten config stands over: once config.json is touched the
\* shards have their final forms, and a variant once begun links those shards,
\* whatever runs and crashes follow.
THEOREM RewrittenIsFinal == Spec => []FInv
<1>1. Init => VariantSettled /\ WrittenOnce
  BY DEF Init, VariantSettled, WrittenOnce
<1>2. FInv /\ IInv' /\ [Next]_vars => FInv'
  BY PrepareAssumption, VariantSettledKept, WrittenOnceKept DEF FInv
<1>3. Init => IInv
  BY PrepareAssumption, InitHolds
<1>4. FInv /\ [Next]_vars => IInv'
  BY PrepareAssumption, NextHolds DEF FInv
<1>5. QED BY <1>1, <1>2, <1>3, <1>4, PTL DEF Spec, FInv

\* The side layers and the head are in the checkpoint, and not in the extra file.
LEMMA ConvertedFiles ==
  ASSUME PrepareAssumption, HybridAssumption, NamesAssumption
  PROVE  /\ \A t \in TARGETS : t \in Tensors /\ Home[t] \in Fp8Shards
         /\ HeadShard \in Linked /\ Fp8Shards \subseteq Linked
         /\ <<"lm_head">> \notin TARGETS
<1>1. \A t \in TARGETS : t \in Tensors /\ Home[t] \in Fp8Shards
  BY DEF HybridAssumption, TARGETS
<1>2. \A t \in TARGETS : t[1] = "model"
  <2> SUFFICES ASSUME NEW t \in TARGETS PROVE t[1] = "model"
    OBVIOUS
  <2>1. IsPrefix(<<"model", "language_model", "layers">>, t) /\ t \in Seq(STRING)
    BY <1>1 DEF TARGETS, NamesAssumption
  <2> DEFINE p == <<"model", "language_model", "layers">>
             words == {"model", "language_model", "layers"}
  <2>2. Len(p) = 3 /\ p[1] = "model" /\ p[2] \in words /\ p[3] \in words
    OBVIOUS
  <2> HIDE DEF p
  <2>3. Len(t) \in Nat /\ 3 <= Len(t) /\ SubSeq(p, 1, 3) = SubSeq(t, 1, 3)
    BY <2>1, <2>2 DEF IsPrefix, p
  <2>4. \A i \in 1 .. 3 : p[i] \in words /\ t[i] \in STRING
    <3>1. \A i \in 1 .. 3 : i = 1 \/ i = 2 \/ i = 3
      OBVIOUS
    <3>2. QED BY <2>1, <2>2, <2>3, <3>1, ElementOfSeq
  <2>5. SubSeq(p, 1, 3)[1] = p[1] /\ SubSeq(t, 1, 3)[1] = t[1]
    BY <2>4, SubSeqProperties
  <2>6. QED BY <2>2, <2>3, <2>5
<1>3. \A s \in Fp8Shards : s # Extra
  <2>1. \A s \in Fp8Shards : \E t \in TARGETS : s = Home[t]
    BY DEF HybridAssumption
  <2>2. \A t \in TARGETS : Home[t] # Extra
    BY <1>1, <1>2 DEF NamesAssumption
  <2>3. QED BY <2>1, <2>2
<1>4. HeadShard # Extra
  BY DEF HybridAssumption, NamesAssumption
<1>5. <<"lm_head">> \notin TARGETS
  BY <1>2
<1>6. QED
  BY <1>1, <1>3, <1>4, <1>5 DEF PrepareAssumption, Linked, Checkpoint

\* A directory with a rewritten config holds each tensor in the form its name
\* calls for.
LEMMA HeldAsNamed ==
  ASSUME PrepareAssumption, HybridAssumption, NamesAssumption, FInv,
         NEW dir \in Directories, Rewritten(dir)
  PROVE  /\ \A t \in TARGETS : Stored(dir, t) = "fp8"
         /\ Stored(dir, <<"lm_head">>) = "int8"
         /\ \A t \in Tensors : Stored(dir, t) = "fp8" => t \in TARGETS
<1>1. config = "gptq" /\ \A s \in Linked : Held(dir, s) = shard[s]
  <2>1. CASE dir = "base"
    BY <2>1 DEF Rewritten, Held
  <2>2. CASE dir = "variant"
    BY <2>2 DEF Rewritten, Held, FInv, VariantSettled
  <2>3. QED BY <2>1, <2>2 DEF Directories
<1>2. \A s \in Linked : Held(dir, s) = Final(s)
  BY <1>1 DEF FInv, IInv, Settled, Linked
<1>3. \A s \in Fp8Shards : Converted(Final(s), "fp8")
  BY WhatIsConverted DEF Final, Fp8Forms
<1>4. Converted(Final(HeadShard), "int8")
  BY WhatIsConverted DEF Final, Plain, Int8Forms
<1>5. QED BY <1>2, <1>3, <1>4, ConvertedFiles DEF Stored, HybridAssumption

LEMMA VllmNameIsItsPrefix ==
  ASSUME NamesAssumption, NEW t \in Tensors
  PROVE  IsPrefix(ToVllm(t), ToVllm(t))
<1> DEFINE S == STRING \cup {"model", "layers", "48"}
<1>1. t \in Seq(STRING) /\ Len(t) \in Nat /\ \A i \in 1 .. Len(t) : t[i] \in S
  BY ElementOfSeq, LenProperties DEF NamesAssumption
<1>2. ASSUME NEW m \in Nat \ {0}, NEW a \in Seq(S)
      PROVE  Len(a \o SubSeq(t, m, Len(t))) \in Nat
  <2>1. SubSeq(t, m, Len(t)) \in Seq(S)
    BY <1>1, SubSeqProperties
  <2>2. a \o SubSeq(t, m, Len(t)) \in Seq(S)
    BY <2>1, ConcatProperties
  <2>3. QED BY <2>2, LenProperties
<1>3. <<"model", "layers", "48">> \in Seq(S) /\ <<"model">> \in Seq(S)
  OBVIOUS
<1>4. Len(ToVllm(t)) \in Nat
  BY <1>1, <1>2, <1>3 DEF ToVllm
<1>5. QED BY <1>4 DEF IsPrefix

\* No "-:" rule names the head.
LEMMA NoRuleForHead ==
  ASSUME NamesAssumption, NEW dir PROVE ~Unquantized(dir, <<"lm_head">>)
<1> DEFINE h == <<"lm_head">>
<1>1. Len(h) = 1 /\ h[1] = "lm_head"
  OBVIOUS
<1> HIDE DEF h
<1>2. \A w \in RuleWords, i \in 1 .. Len(h) : h[i] \notin Spelled[w]
  BY <1>1 DEF NamesAssumption
<1>3. 2 .. Len(h) - 1 = {} /\ ~(Len(h) > 1)
  BY <1>1
<1>4. ~Unquantized(dir, h)
  BY <1>2, <1>3 DEF Unquantized
<1>5. QED BY <1>4 DEF h

\* In such a directory each module gets the method of its tensors.
LEMMA ServedThere ==
  ASSUME PrepareAssumption, HybridAssumption, NamesAssumption, FInv,
         NEW dir \in Directories, Rewritten(dir),
         NEW prefix \in Modules, NEW t \in Of(prefix)
  PROVE  QuantMethod(dir, prefix) = Stored(dir, t)
<1>1. t \in Tensors /\ ToVllm(t) \in Parts(prefix)
  BY DEF Of
<1>2. IsExperts(prefix) <=> IsExperts(t)
  BY DEF NamesAssumption
<1>3. CASE t \in TARGETS
  <2>1. ASSUME NEW n \in Parts(prefix)
        PROVE  \E l \in Fp8Layers(dir) : IsPrefix(l, n)
    <3>1. PICK u \in TARGETS : n = ToVllm(u)
      BY <1>3 DEF NamesAssumption
    <3>2. u \in Detected(dir)
      BY HeldAsNamed, ConvertedFiles DEF Detected
    <3>3. QED BY <3>1, <3>2, VllmNameIsItsPrefix DEF Fp8Layers, Detected
  <2>2. IsFp8Layer(dir, prefix) /\ ~IsExperts(prefix)
    BY <1>2, <1>3, <2>1 DEF IsFp8Layer, NamesAssumption
  <2>3. QED BY <1>3, <2>2, HeldAsNamed DEF QuantMethod
<1>4. CASE t \notin TARGETS
  <2>1. ~IsFp8Layer(dir, prefix)
    <3>1. ASSUME NEW l \in Fp8Layers(dir), IsPrefix(l, ToVllm(t)) PROVE FALSE
      <4>1. PICK u \in Detected(dir) : l = ToVllm(u)
        BY DEF Fp8Layers
      <4>2. u \in TARGETS /\ u \in Tensors
        BY HeldAsNamed DEF Detected
      <4>3. ToVllm(t) = ToVllm(u)
        BY <1>1, <3>1, <4>1, <4>2 DEF NamesAssumption
      <4>4. QED BY <1>1, <1>4, <4>2, <4>3 DEF NamesAssumption
    <3>2. QED BY <1>1, <3>1 DEF IsFp8Layer
  <2>2. QuantMethod(dir, prefix) = OrigMethod(dir, prefix)
    BY <2>1 DEF QuantMethod
  <2>3. CASE t = <<"lm_head">>
    <3>1. prefix = <<"lm_head">>
      BY <2>3 DEF NamesAssumption
    <3>2. ~Unquantized(dir, prefix)
      BY <3>1, NoRuleForHead
    <3>3. QED BY <2>2, <2>3, <3>1, <3>2, HeldAsNamed DEF OrigMethod
  <2>4. CASE t # <<"lm_head">>
    <3>1. /\ prefix # <<"lm_head">>
          /\ Unquantized(dir, prefix) <=>
               ~(IsExperts(t) /\ (t[1] = "model" \/ (t[1] = "mtp" /\ dir = "variant")))
      BY <1>4, <2>4 DEF NamesAssumption
    <3>2. QED BY <1>4, <2>2, <2>4, <3>1 DEF OrigMethod, Stored
  <2>5. QED BY <2>3, <2>4
<1>5. QED BY <1>3, <1>4

\* Whatever runs and crashes there were, the engine gives each module of a
\* directory with a rewritten config the method of the form its tensors have:
\* get_quant_method() with the parts of a fused projection in different shards.
THEOREM ServedWhateverCrashed == Spec => []ServedAsStored
<1>1. FInv => ServedAsStored
  BY PrepareAssumption, HybridAssumption, NamesAssumption, ServedThere
     DEF ServedAsStored, Of
<1>2. QED BY <1>1, RewrittenIsFinal, PTL
=============================================================================
