------------------------------ MODULE MCStream ------------------------------
(***************************************************************************)
(* Instance of Stream: a cluster with one unhealthy pod that comes and     *)
(* goes, so that a change set adds, changes and removes.                   *)
(***************************************************************************)
EXTENDS Stream, TLC

MCNodeIds == {"Cluster", "Pod/p"}
MCKindOf == [n \in MCNodeIds |-> IF n = "Cluster" THEN "Cluster" ELSE "Pod"]
MCEdgeIds == {"contains"}
MCEdgeVals == {"Cluster->Pod/p"}
MCStatuses == {"Healthy", "Unhealthy"}
MCReasons == {"CrashLoopBackOff"}
MCMetaKeys == {"scope", "phase", "node"}
MCMetaVals == {"", "x"}

Cluster(s) == [kind |-> "Cluster", status |-> s, reasons |-> <<>>,
               meta |-> [k \in {"scope"} |-> "x"]]
Pod(s, r, keys) == [kind |-> "Pod", status |-> s, reasons |-> r,
                    meta |-> [k \in keys |-> "x"]]
Edges == [e \in MCEdgeIds |-> "Cluster->Pod/p"]

Alone == [nodes |-> [n \in {"Cluster"} |-> Cluster("Healthy")],
          edges |-> EmptyTable]
Crashing == [nodes |-> [n \in MCNodeIds |-> IF n = "Cluster"
                            THEN Cluster("Unhealthy")
                            ELSE Pod("Unhealthy", <<"CrashLoopBackOff">>,
                                     {"phase", "node"})],
             edges |-> Edges]
MCGraphs == {Alone, Crashing}
MCSymmetry == Permutations(Conns)
=============================================================================
