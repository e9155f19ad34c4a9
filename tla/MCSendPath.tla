----------------------------- MODULE MCSendPath -----------------------------
(* Instances of SendPath for TLC.                                          *)
EXTENDS SendPath, TLC
MCHandleNic == [h \in Handles |-> 0]
Config(m, wp, ws) == [mode |-> m, primary |-> 0, secondary |-> NicCount - 1, wp |-> wp, ws |-> ws]
\* Performance and round robin are what these and the selection fall back on.
MCConfigs == {Config(m, 100, 100) : m \in {"application", "flow_aware"}}
DestSymmetry == Permutations(Dests)
=============================================================================
