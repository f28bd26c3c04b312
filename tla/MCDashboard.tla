---------------------------- MODULE MCDashboard ----------------------------
(***************************************************************************)
(* Instance of Panel, and of Dashboard: an unhealthy pod comes and goes.   *)
(***************************************************************************)
EXTENDS Panel

MCNodeIds == {"Cluster", "Pod/p"}
MCKindOf == [n \in MCNodeIds |-> IF n = "Cluster" THEN "Cluster" ELSE "Pod"]
MCEdgeIds == {"contains"}
MCEdgeVals == {"Cluster->Pod/p"}
MCStatuses == {"Healthy", "Unhealthy"}
MCReasons == {"CrashLoopBackOff"}
MCMetaKeys == {"scope", "phase"}
MCMetaVals == {"", "x"}

Node(kind, s, key) == [kind |-> kind, status |-> s, reasons |-> <<>>,
                       meta |-> [k \in {key} |-> "x"]]
Alone == [nodes |-> [n \in {"Cluster"} |-> Node("Cluster", "Healthy", "scope")],
          edges |-> EmptyTable]
WithPod == [nodes |-> [n \in MCNodeIds |-> IF n = "Cluster"
                          THEN Node("Cluster", "Unhealthy", "scope")
                          ELSE Node("Pod", "Unhealthy", "phase")],
            edges |-> [e \in MCEdgeIds |-> "Cluster->Pod/p"]]
MCGraphs == {Alone, WithPod}
=============================================================================
