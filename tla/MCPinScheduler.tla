--------------------------- MODULE MCPinScheduler ---------------------------
(* Two conversations that share a marked system prompt "s", and an unmarked *)
(* request; on both groups, or on the state group alone with prompts long  *)
(* enough for state blocks to be given back while the request runs.        *)
EXTENDS PinScheduler, TLC

CONSTANTS attn, mamba, r1, r2, r3, s, u, v, w

MCGroups == {attn, mamba}
MCStateGroups == {mamba}
MCTokenGroups == {attn}
MCBlockSize == [g \in MCGroups |-> 1]
MCPrompt == (r1 :> <<s, u>>) @@ (r2 :> <<s, v>>) @@ (r3 :> <<w>>)
MCLongPrompt == (r1 :> <<s, u, u>>) @@ (r2 :> <<s, u, v>>) @@ (r3 :> <<w>>)
MCMarker == <<s>>
MCHashes == UNION {{<<g, SubSeq(p[r], 1, i)>> : i \in 1 .. Len(p[r])} :
                   g \in MCGroups, r \in Reqs, p \in {MCPrompt, MCLongPrompt}}
MCSymmetry == Permutations(Blocks)
=============================================================================
