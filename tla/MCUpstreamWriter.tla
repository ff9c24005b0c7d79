-------------------------- MODULE MCUpstreamWriter --------------------------
(* Values for the constants of UpstreamWriter, for TLC.                    *)
EXTENDS UpstreamWriter

MCMaxJobs == [w \in Writers |-> IF w = "pump" THEN 2 ELSE 1]
AllCrews == {{"pump"}, {"pump", "keepalive"}, {"pump", "recovery"}, Writers}
BridgeCrew == {{"pump", "keepalive"}}
=============================================================================
