----------------------------- MODULE MCFailover -----------------------------
(* Two NICs, one address, thresholds of one to three ticks.                *)
EXTENDS Failover

Row(c, l, s, b, t) ==
    [f \in Fields |-> CASE f = "check" -> c [] f = "loss" -> l [] f = "storm" -> s
                        [] f = "failback" -> b [] f = "stable" -> t]

MCDefault == Row(1, 2, 3, 3, 2)
MCConfigs == {MCDefault, Row(2, 1, 2, 2, 1)}
=============================================================================
