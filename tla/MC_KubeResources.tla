-------------------------- MODULE MC_KubeResources --------------------------
(* One object per kind that matters: a ReplicationController, a           *)
(* Deployment and a StatefulSet with a secret environment value, an       *)
(* empty one and an empty argument; an owned and an orphan pod; an owned  *)
(* and an unowned ReplicaSet.                                             *)
EXTENDS KubeResources, TLC

CONSTANTS rc, dep, set, pod1, pod2, rs1, rs2

Spec1 == << [env |-> <<"secret", "">>, args |-> <<"", "secret">>] >>

MCItem(n, o) == [name |-> n, owned |-> o, containers |-> Spec1]

MCListed ==
    [t \in WorkloadTasks |->
        CASE t = "controllers"  -> {MCItem(rc, FALSE)}
          [] t = "deployments"  -> {MCItem(dep, FALSE)}
          [] t = "statefulSets" -> {MCItem(set, FALSE)}
          [] t = "pods"         -> {MCItem(pod1, TRUE), MCItem(pod2, FALSE)}
          [] t = "replicaSets"  -> {MCItem(rs1, TRUE), MCItem(rs2, FALSE)}
          [] OTHER              -> {}]

=============================================================================
