------------------------------ MODULE MCGraph ------------------------------
(***************************************************************************)
(* Instance of Graph: two namespaces, a node, a volume with a claim on it, *)
(* a Deployment with its ReplicaSet, a StatefulSet, a service, and a pod   *)
(* that is owned by either, or is bare; in the other namespace one pod.    *)
(***************************************************************************)
EXTENDS Outputs

MCKindOf == [x \in {} |-> ""]

Ref(kind, name) == <<kind, name>>
Ready == [ready |-> TRUE, state |-> "running", reason |-> "", restarts |-> 0]
Waits(why) == [ready |-> FALSE, state |-> "waiting", reason |-> why, restarts |-> 1]
PodOf(phase, c, owners, node, claims) ==
    [phase |-> phase, containers |-> [n \in {"c1"} |-> c], owners |-> owners,
     node |-> node, claims |-> claims, image |-> {"i"}]
NodeOf(ready, gpu, accelerator, taints) ==
    [ready |-> ready, pressures |-> {}, unschedulable |-> FALSE, kubelet |-> "k", roles |-> "",
     gpu |-> gpu, accelerator |-> accelerator, taints |-> taints]
Claim(phase, class, capacity, volume) ==
    [phase |-> phase, created |-> 0, class |-> class, capacity |-> capacity, volume |-> volume]
Volume(phase, class, capacity) == [phase |-> phase, class |-> class, capacity |-> capacity]

MCLasting ==
    [x \in {<<"Namespace", "a">>, <<"Service", "a", "s">>, <<"StatefulSet", "a", "t">>} |->
     CASE x[1] = "Namespace" -> [phase |-> "Active"]
       [] x[1] = "Service" -> [selector |-> TRUE, type |-> "ClusterIP", clusterIP |-> ""]
       [] x[1] = "StatefulSet" -> [replicas |-> 2, ready |-> 2, current |-> 1]]

OwnersOfP == {<<Ref("Job", "j"), Ref("ReplicaSet", "r")>>, <<Ref("StatefulSet", "t")>>, <<>>}

MCContents ==
    [x \in {<<"Namespace", "b">>, <<"Node", "n">>, <<"PersistentVolume", "v">>,
            <<"PersistentVolumeClaim", "a", "c">>,
            <<"Deployment", "a", "d">>, <<"ReplicaSet", "a", "r">>,
            <<"Endpoints", "a", "s">>, <<"Pod", "a", "p">>, <<"Pod", "b", "q">>} |->
     CASE x[1] = "Namespace" -> {[phase |-> "Active"]}
       [] x[1] = "Node" ->
            {NodeOf("True", "", TRUE, ""), NodeOf("False", "", FALSE, "t"), NodeOf("True", "1", FALSE, "")}
       [] x[1] = "PersistentVolume" ->
            {Volume("Failed", "", "1Gi"), Volume("Bound", "fast", "")}
       [] x[1] = "PersistentVolumeClaim" ->
            {Claim("Pending", {""}, "", ""), Claim("Bound", {}, "1Gi", "v")}
       [] x[1] = "Deployment" -> {[replicas |-> Nil, ready |-> 0, available |-> 0]}
       [] x[1] = "ReplicaSet" -> {[owners |-> <<Ref("Deployment", "d")>>]}
       [] x[1] = "Endpoints" -> {[ready |-> 1, pods |-> {"p"}]}
       [] x = <<"Pod", "a", "p">> ->
            {PodOf("Running", Ready, o, IF o = <<>> THEN "" ELSE "n", {"c"}) : o \in OwnersOfP}
       [] x = <<"Pod", "b", "q">> ->
            {PodOf("Running", Waits("CrashLoopBackOff"), <<>>, "n", {})}]

Event(ns, type, kind, name, at) ==
    [namespace |-> ns, type |-> type, kind |-> kind, name |-> name, at |-> at]
MCEvents ==
    {Event("a", "Warning", "Pod", "p", t) : t \in 1..3} \cup
    {Event("b", "Warning", "Pod", "q", 2), Event("a", "Warning", "Pod", "q", 3),
     Event("b", "Normal", "Pod", "q", 4), Event("a", "Warning", "StatefulSet", "p", 4),
     Event("a", "Warning", "PersistentVolumeClaim", "c", 2),
     Event("default", "Warning", "Node", "n", 1), Event("default", "Warning", "Namespace", "a", 1)}
=============================================================================
