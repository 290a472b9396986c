----------------------------- MODULE MCPrepare -----------------------------
(* One shard with the head and side layers, one with side layers, one with  *)
(* the table only, and the extra tensors.  Layer 0 has linear attention,    *)
(* layer 1 self attention; each fused module has parts in both shards.      *)
EXTENDS HybridServe

CONSTANTS a, b, t, x

MCShards == {a, b, t, x}
MCFp8Shards == {a, b}
MCTableShards == {t}
AnyPosition == Positions \ {"stopped", "failed", "done"}
\* Between the two renames of a shard swap, and inside the dump of config.json.
Unwhole == {"headPlace", "fp8Place", "configDumped"}

Layer(n, names) == {<<"model", "language_model", "layers", n>> \o p : p \in names}
Draft(names) == {<<"mtp", "layers", "0">> \o p : p \in names}
MCTensorsOfA ==
  {<<"lm_head">>} \cup
  Layer("0", {<<"linear_attn", p>> : p \in {"in_proj_qkv", "in_proj_b", "out_proj"}}) \cup
  Layer("1", {<<"self_attn", "q_proj">>, <<"self_attn", "k_proj">>, <<"mlp", "gate">>,
              <<"mlp", "shared_expert", "gate_proj">>})
MCTensorsOfB ==
  Layer("0", {<<"linear_attn", "in_proj_z">>, <<"linear_attn", "in_proj_a">>,
              <<"mlp", "shared_expert_gate">>}) \cup
  Layer("1", {<<"self_attn", "v_proj">>, <<"self_attn", "o_proj">>, <<"mlp", "experts">>,
              <<"mlp", "shared_expert", "up_proj">>,
              <<"mlp", "shared_expert", "down_proj">>})
MCTensorsOfX ==
  Draft({<<"self_attn", p>> : p \in {"q_proj", "k_proj", "v_proj", "o_proj"}} \cup
        {<<"mlp", "experts">>, <<"mlp", "gate">>})
MCHome == [n \in MCTensorsOfA \cup MCTensorsOfB \cup MCTensorsOfX |->
             IF n \in MCTensorsOfA THEN a ELSE IF n \in MCTensorsOfB THEN b ELSE x]

MCPacked == [in_proj_qkvz |-> {"in_proj_qkv", "in_proj_z"},
             in_proj_ba |-> {"in_proj_b", "in_proj_a"},
             qkv_proj |-> {"q_proj", "k_proj", "v_proj"},
             gate_up_proj |-> {"gate_proj", "up_proj"}]
MCSpelled == [w \in RuleWords |->
                IF w = "shared_expert" THEN {w, "shared_expert_gate"} ELSE {w}]
MCModules ==
  {<<"lm_head">>} \cup
  {<<"model", "layers", "0", "linear_attn", p>>
     : p \in {"in_proj_qkvz", "in_proj_ba", "out_proj"}} \cup
  {<<"model", "layers", n, "self_attn", p>>
     : n \in {"1", "48"}, p \in {"qkv_proj", "o_proj"}} \cup
  {<<"model", "layers", n, "mlp", p>> : n \in {"1", "48"}, p \in {"experts", "gate"}} \cup
  {<<"model", "layers", "0", "mlp", "shared_expert_gate">>} \cup
  {<<"model", "layers", "1", "mlp", "shared_expert", p>>
     : p \in {"gate_up_proj", "down_proj"}}
=============================================================================
