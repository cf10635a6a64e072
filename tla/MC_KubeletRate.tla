--------------------------- MODULE MC_KubeletRate ---------------------------
(* Instances of the kubelet rate table for TLC.  Nodes and keys are model  *)
(* values.  Time is scaled so that one tick is 3 units, the "not newer"    *)
(* gap 1 unit and the GC horizon two ticks: an entry survives one missed   *)
(* cycle only if its sample was stamped exactly at the tick.               *)
EXTENDS KubeletRate, TLC

CONSTANTS n1, n2, k1, k2

MCNodes == {n1, n2}
MCKeys == {k1, k2}

(* Each node reports the keys of its own node block (keys carry node.ID).  *)
MCReportsDisjoint == (n1 :> {k1}) @@ (n2 :> {k2})

(* A pod-level key ("ns:pod", no node in it) reported by two nodes: a pod  *)
(* still listed by the kubelet of the node it left and by the kubelet of   *)
(* the node it was recreated on.                                           *)
MCReportsShared == (n1 :> {k1}) @@ (n2 :> {k1})

MCMultiplier == [k \in MCKeys |-> 4]
=============================================================================
