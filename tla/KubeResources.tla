--------------------------- MODULE KubeResources ---------------------------
(***************************************************************************)
(* The Kubernetes inventory of src/kuber/kube.go: GetResources, its eight  *)
(* list tasks joined on an errgroup, the masking of pod specs, and         *)
(* GetStatefulSet.                                                         *)
(*                                                                         *)
(* GetResources starts one goroutine per list call.  Each calls its Get*   *)
(* function, returns the error of a failed call, and otherwise stores the  *)
(* list in rawResources and appends one Resource per top-level item, all   *)
(* under one mutex; group.Wait() returns the first error.  The Get*        *)
(* functions of the workload kinds call maskPodSpec on every item before   *)
(* returning the list; GetPods and GetLimitRanges do not mask.             *)
(*                                                                         *)
(* A pod spec is abstracted to its containers, each an env list of values  *)
(* and an args list; a value is "" (empty), "secret" (anything else) or    *)
(* the mask token.  Init containers are masked by the same code and are    *)
(* left out.                                                               *)
(***************************************************************************)
EXTENDS Integers, Sequences

CONSTANTS
    ItemNames,   \* names of listed objects
    Listed,      \* Listed[t]: the items list call t returns
    None         \* no error / no result

Masked == "**MASKED**"                  \* maskedValue
Values == {"", "secret", Masked}
Container == [env : Seq(Values), args : Seq(Values)]
Item == [name : ItemNames, owned : BOOLEAN, containers : Seq(Container)]

(* The list tasks of GetResources, and the ones that yield Resources.     *)
WorkloadTasks == {"controllers", "pods", "deployments", "statefulSets",
                  "daemonSets", "replicaSets", "cronJobs"}
Tasks == WorkloadTasks \cup {"limitRanges"}

KindOf == [controllers |-> "ReplicationController", pods |-> "OrphanPod",
           deployments |-> "Deployment", statefulSets |-> "StatefulSet",
           daemonSets |-> "DaemonSet", replicaSets |-> "ReplicaSet",
           cronJobs |-> "CronJob"]

Resource == [kind : {KindOf[t] : t \in WorkloadTasks}, name : ItemNames, containers : Seq(Container)]

ASSUME ListedAssumption ==
    /\ Listed \in [WorkloadTasks -> SUBSET Item]
    /\ None \notin Tasks \cup Item

VARIABLES
    phase,      \* "idle", or "listing" while GetResources waits on the group
    status,     \* status[t]: "none", "running", "ok" or "error" for task t
    raw,        \* rawResources: task -> the list it stored
    resources,  \* the Resources appended so far
    err,        \* the errgroup's first error: the failing task, or None
    sts         \* the last result of GetStatefulSet, or None

vars == <<phase, status, raw, resources, err, sts>>

-----------------------------------------------------------------------------

(* maskEnvVars: a non-empty value becomes the mask token.                 *)
MaskEnvVars(env) == [i \in DOMAIN env |-> IF env[i] # "" THEN Masked ELSE env[i]]

(* maskArgs: every argument becomes the mask token.                       *)
MaskArgs(args) == [i \in DOMAIN args |-> Masked]

(* maskContainers, and maskPodSpec applied to an item's spec.             *)
MaskContainers(cs) ==
    [i \in DOMAIN cs |-> [env |-> MaskEnvVars(cs[i].env), args |-> MaskArgs(cs[i].args)]]
MaskPodSpec(item) == [item EXCEPT !.containers = MaskContainers(@)]

(* The kinds whose pod template is a pointer: ReplicationControllerSpec   *)
(* holds Template *PodTemplateSpec; the apps and batch kinds hold it by   *)
(* value.                                                                  *)
PointerTemplate == {"controllers"}

(* `for _, item := range list.Items { maskPodSpec(&item.Spec...) }`: the  *)
(* loop variable is a copy of the element.  Through a pointer template    *)
(* the copy shares the spec with the list, which is masked; a template    *)
(* held by value is the copy's own, and the list keeps the original.      *)
RangeMask(t, items) ==
    IF t \in PointerTemplate THEN {MaskPodSpec(i) : i \in items} ELSE items

(* What Get* returns for task t; GetPods has no masking loop.             *)
ListResult(t) == IF t = "pods" THEN Listed[t] ELSE RangeMask(t, Listed[t])

(* Pods and ReplicaSets with owner references are skipped.                *)
TopLevel(t, i) == t \in {"pods", "replicaSets"} => ~i.owned

(* The Resources task t appends for a list.                               *)
ResourcesOf(t, items) ==
    {[kind |-> KindOf[t], name |-> i.name, containers |-> i.containers]
        : i \in {x \in items : TopLevel(t, x)}}

(* Assignment rawResources[t] = list.                                     *)
Store(m, t, v) == [x \in DOMAIN m \cup {t} |-> IF x = t THEN v ELSE m[x]]

-----------------------------------------------------------------------------

Init ==
    /\ phase = "idle"
    /\ status = [t \in Tasks |-> "none"]     \* GetResources not called yet
    /\ raw = [t \in {} |-> None]
    /\ resources = {}
    /\ err = None
    /\ sts = None

(* GetResources starts its eight goroutines.                              *)
GetResources ==
    /\ phase = "idle"
    /\ phase' = "listing"
    /\ status' = [t \in Tasks |-> "running"]
    /\ raw' = [t \in {} |-> None]
    /\ resources' = {}
    /\ err' = None
    /\ UNCHANGED sts

(* A variant of the errgroup that reports the last error, not the first. *)
ListFailLast(t) ==
    /\ phase = "listing" /\ status[t] = "running"
    /\ status' = [status EXCEPT ![t] = "error"]
    /\ err' = t
    /\ UNCHANGED <<phase, raw, resources, sts>>

(* Task t's list call fails: the goroutine returns the error, and the     *)
(* errgroup keeps it if it is the first.                                  *)
ListFail(t) ==
    /\ phase = "listing" /\ status[t] = "running"
    /\ status' = [status EXCEPT ![t] = "error"]
    /\ err' = IF err = None THEN t ELSE err
    /\ UNCHANGED <<phase, raw, resources, sts>>

(* Task t's list call succeeds: under the mutex the list goes into        *)
(* rawResources and its top-level items into resources.                   *)
ListOk(t) ==
    /\ phase = "listing" /\ status[t] = "running"
    /\ status' = [status EXCEPT ![t] = "ok"]
    /\ IF t \in WorkloadTasks
         THEN /\ raw' = Store(raw, t, ListResult(t))
              /\ resources' = resources \cup ResourcesOf(t, ListResult(t))
         ELSE /\ raw' = Store(raw, t, {})      \* limit ranges carry no pod spec
              /\ UNCHANGED resources
    /\ UNCHANGED <<phase, err, sts>>

(* A variant of the join that returns before every goroutine has.        *)
WaitEarly ==
    /\ phase = "listing"
    /\ phase' = "idle"
    /\ UNCHANGED <<status, raw, resources, err, sts>>

(* group.Wait() returns once every goroutine has returned.                *)
Wait ==
    /\ phase = "listing"
    /\ \A t \in Tasks : status[t] # "running"
    /\ phase' = "idle"
    /\ UNCHANGED <<status, raw, resources, err, sts>>

(* A variant of GetStatefulSet that masks through a copy of the object.   *)
GetStatefulSetByCopy ==
    /\ \/ \E i \in Listed["statefulSets"] : sts' = i
       \/ sts' = None
    /\ UNCHANGED <<phase, status, raw, resources, err>>

(* GetStatefulSet(namespace, name): Get the object and mask its spec      *)
(* through the pointer; a failed Get returns an error.                    *)
GetStatefulSet ==
    /\ \/ \E i \in Listed["statefulSets"] : sts' = MaskPodSpec(i)
       \/ sts' = None
    /\ UNCHANGED <<phase, status, raw, resources, err>>

Next ==
    \/ GetResources
    \/ Wait
    \/ GetStatefulSet
    \/ \E t \in Tasks : ListFail(t) \/ ListOk(t)

Spec == Init /\ [][Next]_vars

-----------------------------------------------------------------------------

(* The values of a list of containers.                                    *)
ValuesOf(cs) ==
    UNION {{cs[i].env[k] : k \in DOMAIN cs[i].env} \cup {cs[i].args[k] : k \in DOMAIN cs[i].args}
              : i \in DOMAIN cs}

(* The names GetResources promises for task t: spec section 4.1 skips    *)
(* owned pods (orphans only) and ReplicaSets owned by another controller. *)
ExpectedNames(t) == {i.name : i \in {x \in Listed[t] : t \notin {"pods", "replicaSets"} \/ ~x.owned}}

(* Spec section 4.1: when GetResources returns without error, resources  *)
(* hold exactly one entry per listed controller, orphan pod and unowned   *)
(* ReplicaSet, whatever order the eight goroutines ran in.                *)
ResourcesComplete ==
    (phase = "idle" /\ err = None /\ \A u \in Tasks : status[u] # "none") =>
        \A t \in WorkloadTasks :
            {r.name : r \in {y \in resources : y.kind = KindOf[t]}} = ExpectedNames(t)

(* A Resource as the inventory identifies it: its kind and name.  What   *)
(* its pod spec carries is SecretsNeverLeave's subject.                   *)
Entries(rs) == {[kind |-> r.kind, name |-> r.name] : r \in rs}

(* The inventory spec section 4.1 describes: one entry per listed         *)
(* controller, orphan pod and unowned ReplicaSet.                         *)
SpecInventory ==
    UNION {{[kind |-> KindOf[t], name |-> i.name]
               : i \in {x \in Listed[t] : t \notin {"pods", "replicaSets"} \/ ~x.owned}}
           : t \in WorkloadTasks}

Abstract == INSTANCE Inventory
    WITH Complete <- SpecInventory, Errors <- Tasks,
         inventory <- Entries(resources), error <- err

(* GetResources implements the errgroup contract of Inventory: the       *)
(* resources grow only by listed top-level objects, the call returns the *)
(* first error a goroutine returned and keeps it when later ones fail,   *)
(* and without an error it returns the complete inventory.               *)
InventoryRefined == Abstract!Spec

(* GetStatefulSet, the path SetResources reads a StatefulSet through,     *)
(* returns no original environment value or argument.                     *)
StatefulSetMasked ==
    sts # None => "secret" \notin ValuesOf(sts.containers)

(* Spec sections 4.1 and 8, secret masking: no pod spec that leaves the   *)
(* component as raw resources or as a Resource holds an original          *)
(* environment value or argument.                                         *)
SecretsNeverLeave ==
    /\ \A t \in DOMAIN raw : \A i \in raw[t] : "secret" \notin ValuesOf(i.containers)
    /\ \A r \in resources : "secret" \notin ValuesOf(r.containers)

=============================================================================
