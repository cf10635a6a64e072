--------------------------- MODULE SetResources ---------------------------
(***************************************************************************)
(* Kube.SetResources of src/kuber/kube.go: a decision of the control plane *)
(* applied to a workload as a strategic-merge patch.                      *)
(*                                                                         *)
(* The call validates the decision.  For a StatefulSet it then reads the   *)
(* object (GetStatefulSet) and skips a StatefulSet of more than one        *)
(* replica whose update strategy is not RollingUpdate or whose partition  *)
(* is set and non-zero.  It then builds the patch body, one entry per      *)
(* container and resource field set, and sends it.  The read and the       *)
(* patch are two calls to the API server, so a second writer of the        *)
(* StatefulSet (a user, a rollout) may change it between them.            *)
(*                                                                         *)
(* Decisions are handled one at a time: the gateway runs listeners on its  *)
(* single reader task.  The API server's side of the patch (parsing the    *)
(* quantities, merging containers by name) is the platform's and is        *)
(* written here from its documented behaviour.                            *)
(***************************************************************************)
EXTENDS Integers

CONSTANTS
    Names,              \* container names of the workloads
    DecisionResources,  \* the resource requirements a decision may carry
    ReplicaValues,      \* replica counts of decisions and objects
    Partitions,         \* values of RollingUpdate.Partition
    Writer,             \* TRUE: someone else also writes the StatefulSet
    Nil

Kinds == {"StatefulSet", "Deployment"}
Strategies == {"RollingUpdate", "OnDelete"}
Groups == {"limits", "requests"}
Fields == {"memory", "cpu"}

milliCore == 1000
Mi == 1048576                           \* bytes in one "Mi"

Opt(S) == S \cup {Nil}

(* A container's resources as the API server stores them: memory in      *)
(* bytes, CPU in millicores, or unset.                                    *)
ObjectResources == [Names -> [Groups -> [Fields -> Opt(Nat)]]]
Unset == [n \in Names |-> [g \in Groups |-> [f \in Fields |-> Nil]]]
Object == [replicas : Opt(ReplicaValues), strategy : Strategies,
           partition : Opt(Partitions), res : ObjectResources]

(* TotalResources: replicas, and ContainerResourcesRequirements by name. *)
Decision == [kind : Kinds, replicas : Opt(ReplicaValues),
             containers : UNION {[D -> DecisionResources] : D \in SUBSET Names}]

ASSUME SetResourcesAssumption ==
    /\ ReplicaValues \subseteq Nat /\ Partitions \subseteq Nat
    /\ DecisionResources \subseteq [Groups -> [Fields -> Opt(Nat)]]
    /\ Writer \in BOOLEAN
    /\ Nil \notin Nat \cup {"ok", "skipped", "error"}

VARIABLES
    obj,      \* obj[k]: the workload of kind k on the API server
    pc,       \* "idle", "fetch" (GetStatefulSet pending) or "patch"
    dec,      \* the decision being applied, or Nil
    body,     \* the patch body built, or Nil
    outcome   \* what the last SetResources returned: "ok", "skipped", "error"

vars == <<obj, pc, dec, body, outcome>>

-----------------------------------------------------------------------------
(* Building the body.                                                     *)

(* fmt.Sprintf("%dMi", n).                                                *)
FormatMemory(n) == [value |-> n, suffix |-> "Mi"]

(* A variant that sends millicores as cores.                              *)
CpuCoresUnscaled(m) == [num |-> m, den |-> 1]

(* float64(m) / milliCore: a fraction of a core.                          *)
CpuCores(m) == [num |-> m, den |-> milliCore]

Encode(f, v) == IF f = "memory" THEN FormatMemory(v) ELSE CpuCores(v)

(* The `resources` map of one container: an entry per field set.          *)
ResourcesMap(c) ==
    {[group |-> gf[1], field |-> gf[2], q |-> Encode(gf[2], c[gf[1]][gf[2]])]
        : gf \in {x \in Groups \X Fields : c[x[1]][x[2]] # Nil}}

(* A container with no field set is "invalid resources for container".   *)
BuildFails(d) == \E n \in DOMAIN d.containers : ResourcesMap(d.containers[n]) = {}

(* spec.replicas is sent only when set and positive.                      *)
PatchReplicas(d) == IF d.replicas # Nil /\ d.replicas > 0 THEN d.replicas ELSE Nil

Body(d) == [kind |-> d.kind,
            containers |-> [n \in DOMAIN d.containers |-> ResourcesMap(d.containers[n])],
            replicas |-> PatchReplicas(d)]

(* Both replicas and containers absent: "nothing to change".             *)
Invalid(d) == DOMAIN d.containers = {} /\ d.replicas = Nil

(* A variant of the guard that ignores the partition.                     *)
SkippedNoPartition(o) ==
    o.replicas # Nil /\ o.replicas > 1 /\ o.strategy # "RollingUpdate"

(* The StatefulSet guard: more than one replica, and an update strategy  *)
(* other than RollingUpdate or a RollingUpdate with a non-zero partition. *)
Skipped(o) ==
    /\ o.replicas # Nil /\ o.replicas > 1
    /\ \/ o.strategy # "RollingUpdate"
       \/ o.partition # Nil /\ o.partition # 0

-----------------------------------------------------------------------------
(* The API server's strategic merge.                                      *)

(* The binary and decimal mega suffixes a memory quantity may carry; a    *)
(* bare number is bytes.                                                  *)
SuffixScale(sfx) == CASE sfx = "Mi" -> Mi
                      [] sfx = "M"  -> 1000000
                      [] OTHER      -> 1

(* resource.ParseQuantity: memory in bytes, CPU in millicores.            *)
ParseQuantity(f, q) ==
    IF f = "memory" THEN q.value * SuffixScale(q.suffix) ELSE (q.num * milliCore) \div q.den

(* Containers merge by name, and inside `resources` field by field.      *)
StrategicMerge(o, b) ==
    [o EXCEPT
        !.res = [n \in Names |->
                   IF n \in DOMAIN b.containers
                   THEN [g \in Groups |-> [f \in Fields |->
                          IF \E e \in b.containers[n] : e.group = g /\ e.field = f
                          THEN ParseQuantity(f, (CHOOSE e \in b.containers[n] :
                                                   e.group = g /\ e.field = f).q)
                          ELSE o.res[n][g][f]]]
                   ELSE o.res[n]],
        !.replicas = IF b.replicas = Nil THEN @ ELSE b.replicas]

-----------------------------------------------------------------------------

Init ==
    /\ \E r \in Opt(ReplicaValues), s \in Strategies, p \in Opt(Partitions),
         rd \in Opt(ReplicaValues) :
         obj = [k \in Kinds |->
                  IF k = "StatefulSet"
                  THEN [replicas |-> r, strategy |-> s, partition |-> p, res |-> Unset]
                  ELSE [replicas |-> rd, strategy |-> "RollingUpdate", partition |-> Nil,
                        res |-> Unset]]
    /\ pc = "idle"
    /\ dec = Nil
    /\ body = Nil
    /\ outcome = Nil

(* Return after building the body, or go on to send it.                   *)
Build(d) ==
    \/ /\ BuildFails(d)
       /\ outcome' = "error" /\ pc' = "idle" /\ dec' = Nil /\ body' = Nil
    \/ /\ ~BuildFails(d)
       /\ outcome' = Nil /\ pc' = "patch" /\ dec' = d /\ body' = Body(d)

(* SetResources(kind, name, namespace, totalResources) is called.         *)
SetResources(d) ==
    /\ pc = "idle"
    /\ \/ /\ Invalid(d)
          /\ outcome' = "error"
          /\ UNCHANGED <<pc, dec, body>>
       \/ /\ ~Invalid(d) /\ d.kind = "StatefulSet"
          /\ pc' = "fetch" /\ dec' = d /\ outcome' = Nil
          /\ UNCHANGED body
       \/ /\ ~Invalid(d) /\ d.kind # "StatefulSet"
          /\ Build(d)
    /\ UNCHANGED obj

(* GetStatefulSet returns: an error, or the object, checked by the guard. *)
FetchStatefulSet ==
    /\ pc = "fetch"
    /\ \/ /\ outcome' = "error" /\ pc' = "idle" /\ dec' = Nil
          /\ UNCHANGED body
       \/ /\ Skipped(obj["StatefulSet"])
          /\ outcome' = "skipped" /\ pc' = "idle" /\ dec' = Nil
          /\ UNCHANGED body
       \/ /\ ~Skipped(obj["StatefulSet"])
          /\ Build(dec)
    /\ UNCHANGED obj

(* req.Do(): the API server applies the patch, or the call fails.         *)
Patch ==
    /\ pc = "patch"
    /\ \/ /\ obj' = [obj EXCEPT ![body.kind] = StrategicMerge(@, body)]
          /\ outcome' = "ok"
       \/ /\ outcome' = "error"
          /\ UNCHANGED obj
    /\ pc' = "idle" /\ dec' = Nil /\ body' = Nil

(* Another client edits the StatefulSet's replicas or update strategy.    *)
Write ==
    /\ Writer
    /\ \E r \in Opt(ReplicaValues), s \in Strategies, p \in Opt(Partitions) :
          obj' = [obj EXCEPT !["StatefulSet"] =
                    [@ EXCEPT !.replicas = r, !.strategy = s, !.partition = p]]
    /\ UNCHANGED <<pc, dec, body, outcome>>

Next ==
    \/ \E d \in Decision : SetResources(d)
    \/ FetchStatefulSet
    \/ Patch
    \/ Write

Spec == Init /\ [][Next]_vars

-----------------------------------------------------------------------------

(* Spec section 4.6: a StatefulSet of more than one replica is patched   *)
(* only while its update strategy is RollingUpdate with no partition or  *)
(* partition 0; otherwise the decision is skipped and no patch is sent.   *)
GuardHolds(o) ==
    (o.replicas # Nil /\ o.replicas > 1) =>
        o.strategy = "RollingUpdate" /\ o.partition \in {Nil, 0}

(* Every patch SetResources gets applied to a StatefulSet finds it in a  *)
(* state the guard admits: the read in GetStatefulSet still holds when    *)
(* req.Do() reaches the API server.                                       *)
PatchRespectsGuard ==
    [][pc = "patch" /\ outcome' = "ok" /\ dec.kind = "StatefulSet"
         => GuardHolds(obj["StatefulSet"])]_vars

(* The effect spec section 4.6 gives a decision: each container named in *)
(* it gets the memory ({n}Mi) and CPU (millicores) values it carries, the  *)
(* others keep theirs, and replicas change only to a positive count.      *)
SpecEffect(o, d) ==
    [o EXCEPT
        !.res = [n \in Names |->
                   IF n \in DOMAIN d.containers
                   THEN [g \in Groups |-> [f \in Fields |->
                          IF d.containers[n][g][f] = Nil THEN o.res[n][g][f]
                          ELSE IF f = "memory" THEN d.containers[n][g][f] * Mi
                          ELSE d.containers[n][g][f]]]
                   ELSE o.res[n]],
        !.replicas = IF d.replicas \in {Nil, 0} THEN @ ELSE d.replicas]

(* A patch SetResources sends and the API server accepts changes the      *)
(* workload exactly as the decision says and nothing else, whatever the   *)
(* encoding of quantities in the body.                                    *)
ExactEffect ==
    [][pc = "patch" /\ outcome' = "ok"
         => obj' = [obj EXCEPT ![dec.kind] = SpecEffect(@, dec)]]_vars

=============================================================================
