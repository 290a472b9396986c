---------------------------- MODULE HybridServe ----------------------------
(***************************************************************************)
(* src/src/vllm_fp8_hybrid.py on the directories Prepare leaves behind:    *)
(* which quantization method the engine gives each module of the model,    *)
(* read from the headers of the shards and from the rules of config.json,  *)
(* against the form the module's tensors are stored in.                    *)
(*                                                                         *)
(* A name is the sequence of its dotted components.  The checkpoint names  *)
(* tensors the Hugging Face way, the engine names modules its own way and  *)
(* fuses some of them.  No state is added to Prepare: the engine reads the *)
(* disk once, when it loads.                                               *)
(***************************************************************************)
EXTENDS Prepare

CONSTANTS
  Home,     \* tensor of the checkpoint -> its shard
  Modules,  \* modules of the engine, by name
  Packed,   \* packed_modules_mapping: fused projection -> its parts
  Spelled   \* word of a "-:" rule -> components of names it is found in

Tensors == DOMAIN Home

\* The projections fp8_convert.py looks for, in the layers of the language
\* model only: the draft layer is under "mtp".
SideLayers ==
  {<<"linear_attn", p>> : p \in {"in_proj_qkv", "in_proj_z", "out_proj"}} \cup
  {<<"self_attn", p>> : p \in {"q_proj", "k_proj", "v_proj", "o_proj"}} \cup
  {<<"mlp", "shared_expert", p>> : p \in {"gate_proj", "up_proj", "down_proj"}}
TARGETS ==
  {t \in Tensors : /\ IsPrefix(<<"model", "language_model", "layers">>, t)
                   /\ SubSeq(t, 5, Len(t)) \in SideLayers}

ASSUME HybridAssumption ==
  /\ Fp8Shards = {Home[t] : t \in TARGETS}
  /\ <<"lm_head">> \in Tensors /\ Home[<<"lm_head">>] = HeadShard

IsExperts(name) == Contains(name, "experts")

-----------------------------------------------------------------------------
(* What a directory holds.                                                 *)

Directories == {"base", "variant"}

Held(dir, s) == IF dir = "base" THEN shard[s] ELSE link[s]

\* The form of a tensor: Intel ships the experts of the main layers in int4,
\* and the variant's extra file has those of the draft layer in int4 too.
Stored(dir, t) ==
  CASE t \in TARGETS /\ Converted(Held(dir, Home[t]), "fp8") -> "fp8"
    [] t = <<"lm_head">> /\ Converted(Held(dir, Home[t]), "int8") -> "int8"
    [] IsExperts(t) /\ t[1] = "model" -> "int4"
    [] IsExperts(t) /\ t[1] = "mtp" /\ dir = "variant" -> "int4"
    [] OTHER -> "bf16"

\* A directory whose config names the engine's quantization, with none of its
\* files half written.
Rewritten(dir) ==
  IF dir = "base" THEN config = "gptq"
  ELSE variant = [extra |-> "int4", index |-> "whole", config |-> "whole"]

-----------------------------------------------------------------------------
(* What the engine makes of it.                                            *)

\* hf_to_vllm_mapper: the draft layer becomes one more layer of the model.
ToVllm(t) ==
  IF IsPrefix(<<"mtp", "layers", "0">>, t)
  THEN <<"model", "layers", "48">> \o SubSeq(t, 4, Len(t))
  ELSE IF IsPrefix(<<"model", "language_model">>, t)
       THEN <<"model">> \o SubSeq(t, 3, Len(t)) ELSE t

\* Weights with dtype fp8 and a scale beside them, found in the headers.
Detected(dir) == {t \in Tensors : Stored(dir, t) = "fp8"}
Fp8Layers(dir) == {ToVllm(t) : t \in Detected(dir)}

\* The names a module stands for: its parts if its projection is fused.
Parts(prefix) ==
  IF Last(prefix) \in DOMAIN Packed /\ Len(prefix) > 1
  THEN {Append(Front(prefix), p) : p \in Packed[Last(prefix)]} ELSE {prefix}

\* Mutant: a fused module is looked up by its own name.
IsFp8LayerUnfused(dir, prefix) == \E l \in Fp8Layers(dir) : IsPrefix(l, prefix)

\* Every part is a detected layer, or inside one.
IsFp8Layer(dir, prefix) ==
  \A n \in Parts(prefix) : \E l \in Fp8Layers(dir) : IsPrefix(l, n)

RuleWords == {"linear_attn", "self_attn", "hyper_connection", "visual", "shared_expert",
              "embed", "fc_hidden"}

\* The "-:" rules of config.json: words found anywhere in a name, and whole
\* components between dots; the variant is without the last of them.
Unquantized(dir, prefix) ==
  \/ \E w \in RuleWords, i \in 1 .. Len(prefix) : prefix[i] \in Spelled[w]
  \/ \E i \in 2 .. Len(prefix) - 1 : prefix[i] = "ple"
  \/ Len(prefix) > 1 /\ Last(prefix) = "gate"
  \/ /\ dir = "base"
     /\ \E i \in 2 .. Len(prefix) - 1 : prefix[i - 1] = "layers" /\ prefix[i] = "48"

\* AutoGPTQConfig.get_quant_method() under these rules.
OrigMethod(dir, prefix) ==
  CASE prefix = <<"lm_head">> -> "int8"
    [] Unquantized(dir, prefix) -> "bf16"
    [] OTHER -> "int4"

\* The tensors of a module.
Of(prefix) == {t \in Tensors : ToVllm(t) \in Parts(prefix)}

\* What the names and the rules of config.json are relied on for: renaming keeps
\* names apart, no rule is found in the head, nothing is named inside a
\* projection, side layers are fused with side layers only, the extra file is
\* the draft layer's, and a module is under a "-:" rule when the directory has
\* it in bf16.
ASSUME NamesAssumption ==
  /\ Tensors \subseteq Seq(STRING)
  /\ \A w \in RuleWords : "lm_head" \notin Spelled[w]
  /\ \A s, t \in Tensors : ToVllm(s) = ToVllm(t) => s = t
  /\ \A t \in Tensors : Home[t] = Extra => t[1] = "mtp"
  /\ \A t \in TARGETS : ~IsExperts(t)
  /\ \A prefix \in Modules : \A n \in Parts(prefix), t \in TARGETS :
       IsPrefix(ToVllm(t), n) => n = ToVllm(t)
  /\ \A prefix \in Modules : \A t \in Of(prefix) :
       /\ IsExperts(prefix) <=> IsExperts(t)
       /\ t \in TARGETS => Parts(prefix) \subseteq {ToVllm(u) : u \in TARGETS}
       /\ prefix = <<"lm_head">> <=> t = <<"lm_head">>
       /\ t \notin TARGETS \cup {<<"lm_head">>} =>
            \A dir \in Directories :
              Unquantized(dir, prefix) <=>
                ~(IsExperts(t) /\ (t[1] = "model" \/ (t[1] = "mtp" /\ dir = "variant")))

\* The experts are no LinearBase and keep the original method.
QuantMethod(dir, prefix) ==
  IF ~IsExperts(prefix) /\ IsFp8Layer(dir, prefix) THEN "fp8"
  ELSE OrigMethod(dir, prefix)

-----------------------------------------------------------------------------

\* Whatever runs and crashes there were, a directory whose config is rewritten
\* is served as it is stored: each module gets the method of the form of every
\* tensor in it, the parts of a fused module in different shards included.
ServedAsStored ==
  \A dir \in Directories : Rewritten(dir) =>
    \A prefix \in Modules : \A t \in Tensors :
      ToVllm(t) \in Parts(prefix) => QuantMethod(dir, prefix) = Stored(dir, t)

=============================================================================
