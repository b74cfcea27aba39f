---------------------------- MODULE MC_FeResources ----------------------------
(* Model-checking instance of FeResources: two user port numbers and two   *)
(* NodePorts, so that a configured port differs from every default, and    *)
(* the two service types that admit NodePorts.                             *)
EXTENDS FeResources

MCPortVals == {7001, 7002}
MCNodePortVals == {30001, 30002}
MCServiceTypes == {"NodePort", "LoadBalancer"}
=============================================================================
