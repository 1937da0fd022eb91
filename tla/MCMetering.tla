----------------------------- MODULE MCMetering -----------------------------
(* Two calls over one model of each streaming adapter and one embedder.    *)
EXTENDS UsageReport, TLC

CONSTANTS c1, c2

ProviderTable ==
    [m \in Models |->
        CASE m = "gpt" -> "openai" [] m = "embed" -> "openai" [] m = "claude" -> "anthropic"
          [] m = "gemini" -> "vertex_ai" [] m = "routed" -> "openrouter" [] OTHER -> "self_hosted"]
ChainTable == [m \in Models |-> IF m = "routed" THEN {"own"} ELSE {}]
CeilingTable == [l \in Levels |-> IF l = "team" THEN 3 ELSE 4]
Symmetry == Permutations({c1, c2})
=============================================================================
