------------------------ MODULE KubeResourcesProofs ------------------------
(***************************************************************************)
(* Proofs about the Kubernetes inventory, for every listing that satisfies *)
(* ListedAssumption.                                                      *)
(*                                                                         *)
(* GetResources refines Inventory, mapping phase and err to themselves and *)
(* resources to their entries (kind and name).  The argument rests on     *)
(* InvOk: resources are exactly the Resources of the tasks that returned  *)
(* nil, and err is None exactly when no task returned an error.  When     *)
(* group.Wait() returns with no error every task has returned nil, so the *)
(* entries are those of every task, which is the spec's inventory.        *)
(***************************************************************************)
EXTENDS KubeResources, TLAPS

USE ListedAssumption

(* The workload tasks that have returned nil.                             *)
OkTasks == {t \in WorkloadTasks : status[t] = "ok"}

InvOk ==
    /\ phase \in {"idle", "listing"}
    /\ status \in [Tasks -> {"none", "running", "ok", "error"}]
    /\ resources = UNION {ResourcesOf(t, ListResult(t)) : t \in OkTasks}
    /\ err \in Tasks \cup {None}
    /\ (err = None) <=> (\A t \in Tasks : status[t] # "error")
    /\ phase = "idle" => \A t \in Tasks : status[t] # "running"
    /\ phase = "listing" => \A t \in Tasks : status[t] # "none"

-----------------------------------------------------------------------------

(* The entries a Resource set yields, for any list a task appends from.  *)
LEMMA EntriesOf ==
    ASSUME NEW t \in WorkloadTasks, NEW L
    PROVE  Entries(ResourcesOf(t, L)) =
             {[kind |-> KindOf[t], name |-> i.name] : i \in {x \in L : TopLevel(t, x)}}
  <1> DEFINE R == {[kind |-> KindOf[t], name |-> i.name, containers |-> i.containers]
                     : i \in {x \in L : TopLevel(t, x)}}
  <1>1. ResourcesOf(t, L) = R
    BY DEF ResourcesOf
  <1>3. Entries(R) = {[kind |-> KindOf[t], name |-> i.name] : i \in {x \in L : TopLevel(t, x)}}
    <2>1. ASSUME NEW e \in Entries(R)
          PROVE  e \in {[kind |-> KindOf[t], name |-> i.name] : i \in {x \in L : TopLevel(t, x)}}
      <3>1. PICK r \in R : e = [kind |-> r.kind, name |-> r.name]
        BY DEF Entries
      <3>2. PICK i \in {x \in L : TopLevel(t, x)} :
                 r = [kind |-> KindOf[t], name |-> i.name, containers |-> i.containers]
        OBVIOUS
      <3>3. e = [kind |-> KindOf[t], name |-> i.name]
        BY <3>1, <3>2
      <3>4. QED
        BY <3>3
    <2>2. ASSUME NEW i \in {x \in L : TopLevel(t, x)}
          PROVE  [kind |-> KindOf[t], name |-> i.name] \in Entries(R)
      <3>1. [kind |-> KindOf[t], name |-> i.name, containers |-> i.containers] \in R
        OBVIOUS
      <3>2. QED
        BY <3>1 DEF Entries
    <2>3. QED
      BY <2>1, <2>2
  <1>4. QED
    BY <1>1, <1>3

(* maskPodSpec changes the spec only: the name and owner references stay. *)
LEMMA MaskKeepsName ==
    ASSUME NEW i \in Item
    PROVE  MaskPodSpec(i).name = i.name /\ MaskPodSpec(i).owned = i.owned
  BY DEF MaskPodSpec, Item

(* The entries of the Resources a workload task appends are those the    *)
(* spec lists for it, masked or not.                                      *)
LEMMA TaskResources ==
    ASSUME NEW t \in WorkloadTasks
    PROVE  Entries(ResourcesOf(t, ListResult(t))) =
             {[kind |-> KindOf[t], name |-> i.name]
                : i \in {x \in Listed[t] : t \notin {"pods", "replicaSets"} \/ ~x.owned}}
  <1> DEFINE Top == {x \in Listed[t] : t \notin {"pods", "replicaSets"} \/ ~x.owned}
  <1>1. Listed[t] \subseteq Item
    OBVIOUS
  <1>2. CASE t \in PointerTemplate
    <2>1. ListResult(t) = {MaskPodSpec(i) : i \in Listed[t]} /\ t = "controllers"
      BY <1>2 DEF ListResult, RangeMask, PointerTemplate
    <2>2. \A x \in ListResult(t) : TopLevel(t, x)
      BY <2>1 DEF TopLevel
    <2>3. Top = Listed[t]
      BY <2>1
    <2>4. {[kind |-> KindOf[t], name |-> i.name] : i \in ListResult(t)}
            = {[kind |-> KindOf[t], name |-> i.name] : i \in Listed[t]}
      BY <1>1, <2>1, MaskKeepsName
    <2>5. QED
      BY <2>2, <2>3, <2>4, EntriesOf
  <1>3. CASE t \notin PointerTemplate
    <2>1. ListResult(t) = Listed[t]
      BY <1>3 DEF ListResult, RangeMask
    <2>2. {x \in Listed[t] : TopLevel(t, x)} = Top
      BY DEF TopLevel
    <2>3. QED
      BY <2>1, <2>2, EntriesOf
  <1>4. QED
    BY <1>2, <1>3

(* Entries distributes over the union of the tasks' Resources.           *)
LEMMA EntriesUnion ==
    ASSUME NEW T
    PROVE  Entries(UNION {ResourcesOf(t, ListResult(t)) : t \in T})
             = UNION {Entries(ResourcesOf(t, ListResult(t))) : t \in T}
  BY DEF Entries

(* Every task has returned nil: the entries are the spec's inventory.    *)
LEMMA AllTasksComplete ==
    Entries(UNION {ResourcesOf(t, ListResult(t)) : t \in WorkloadTasks}) = SpecInventory
  <1>1. UNION {Entries(ResourcesOf(t, ListResult(t))) : t \in WorkloadTasks} = SpecInventory
    BY TaskResources DEF SpecInventory
  <1>2. QED
    BY <1>1, EntriesUnion, Zenon

LEMMA InitInvOk == Init => InvOk
  BY DEF Init, InvOk, OkTasks, Tasks

LEMMA NextInvOk == InvOk /\ [Next]_vars => InvOk'
  <1> SUFFICES ASSUME InvOk, [Next]_vars PROVE InvOk'
    OBVIOUS
  <1>1. CASE GetResources
    <2>1. OkTasks' = {}
      BY <1>1 DEF GetResources, OkTasks, Tasks
    <2>2. UNION {ResourcesOf(t, ListResult(t)) : t \in OkTasks'} = {}
      BY <2>1
    <2>3. QED
      BY <1>1, <2>2 DEF GetResources, InvOk
  <1>2. CASE Wait
    BY <1>2 DEF Wait, InvOk, OkTasks
  <1>3. CASE GetStatefulSet
    BY <1>3 DEF GetStatefulSet, InvOk, OkTasks
  <1>4. ASSUME NEW t \in Tasks, ListFail(t)
        PROVE  InvOk'
    <2>1. OkTasks' = OkTasks
      BY <1>4 DEF ListFail, InvOk, OkTasks
    <2>2. QED
      BY <1>4, <2>1 DEF ListFail, InvOk
  <1>5. ASSUME NEW t \in Tasks, ListOk(t)
        PROVE  InvOk'
    <2>1. CASE t \in WorkloadTasks
      <3>1. OkTasks' = OkTasks \cup {t}
        BY <1>5, <2>1 DEF ListOk, InvOk, OkTasks
      <3>2. resources' = resources \cup ResourcesOf(t, ListResult(t))
        BY <1>5, <2>1 DEF ListOk
      <3>3. QED
        BY <1>5, <3>1, <3>2 DEF ListOk, InvOk
    <2>2. CASE t \notin WorkloadTasks
      <3>1. OkTasks' = OkTasks
        BY <1>5, <2>2 DEF ListOk, InvOk, OkTasks
      <3>2. QED
        BY <1>5, <2>2, <3>1 DEF ListOk, InvOk
    <2>3. QED
      BY <2>1, <2>2
  <1>6. CASE UNCHANGED vars
    BY <1>6 DEF vars, InvOk, OkTasks
  <1>7. QED
    BY <1>1, <1>2, <1>3, <1>4, <1>5, <1>6 DEF Next

-----------------------------------------------------------------------------

(* group.Wait() returning with no error has seen every task return nil.  *)
LEMMA WaitComplete ==
    ASSUME InvOk, phase = "listing", \A t \in Tasks : status[t] # "running", err = None
    PROVE  Entries(resources) = SpecInventory
  <1>1. OkTasks = WorkloadTasks
    BY DEF InvOk, OkTasks, Tasks
  <1>2. QED
    BY <1>1, AllTasksComplete DEF InvOk

(* An append adds the entries of the appended Resources.                 *)
LEMMA EntriesCup ==
    ASSUME NEW A, NEW B
    PROVE  Entries(A \cup B) = Entries(A) \cup Entries(B)
  BY DEF Entries

(* GetResources implements Inventory: the resources grow only by listed  *)
(* top-level objects, the first error a goroutine returns is the one    *)
(* kept, and a call that returns no error returns them all.              *)
THEOREM Refinement == Spec => InventoryRefined
  <1>1. Init => Abstract!Init
    BY DEF Init, Abstract!Init, Entries
  <1>2. InvOk /\ [Next]_vars => [Abstract!Next]_Abstract!vars
    <2> SUFFICES ASSUME InvOk, [Next]_vars PROVE [Abstract!Next]_Abstract!vars
      OBVIOUS
    <2>1. CASE GetResources
      BY <2>1 DEF GetResources, Abstract!Next, Abstract!Call, Entries
    <2>2. CASE Wait
      <3>1. err = None => Entries(resources) = SpecInventory
        BY <2>2, WaitComplete DEF Wait
      <3>2. QED
        BY <2>2, <3>1 DEF Wait, Abstract!Next, Abstract!Return
    <2>3. CASE GetStatefulSet
      BY <2>3 DEF GetStatefulSet, Abstract!vars
    <2>4. ASSUME NEW t \in Tasks, ListFail(t)
          PROVE  [Abstract!Next]_Abstract!vars
      BY <2>4 DEF ListFail, Abstract!Next, Abstract!Fail
    <2>5. ASSUME NEW t \in Tasks, ListOk(t)
          PROVE  [Abstract!Next]_Abstract!vars
      <3>1. CASE t \in WorkloadTasks
        <4>1. Entries(ResourcesOf(t, ListResult(t))) \in SUBSET SpecInventory
          BY <3>1, TaskResources DEF SpecInventory
        <4>2. Entries(resources') = Entries(resources) \cup Entries(ResourcesOf(t, ListResult(t)))
          BY <2>5, <3>1, EntriesCup DEF ListOk
        <4>3. QED
          BY <2>5, <3>1, <4>1, <4>2 DEF ListOk, Abstract!Next, Abstract!Collect
      <3>2. CASE t \notin WorkloadTasks
        BY <2>5, <3>2 DEF ListOk, Abstract!vars
      <3>3. QED
        BY <3>1, <3>2
    <2>6. CASE UNCHANGED vars
      BY <2>6 DEF vars, Abstract!vars
    <2>7. QED
      BY <2>1, <2>2, <2>3, <2>4, <2>5, <2>6 DEF Next
  <1>3. QED
    BY <1>1, <1>2, InitInvOk, NextInvOk, PTL DEF Spec, InventoryRefined, Abstract!Spec

-----------------------------------------------------------------------------

(* The names of one kind are the same in the resources and in their     *)
(* entries.                                                               *)
LEMMA NamesOfKind ==
    ASSUME NEW K
    PROVE  {r.name : r \in {y \in resources : y.kind = K}}
             = {r.name : r \in {y \in Entries(resources) : y.kind = K}}
  <1>1. ASSUME NEW y \in resources, y.kind = K
        PROVE  y.name \in {r.name : r \in {z \in Entries(resources) : z.kind = K}}
    <2>1. [kind |-> y.kind, name |-> y.name] \in {z \in Entries(resources) : z.kind = K}
      BY <1>1 DEF Entries
    <2>2. QED
      BY <2>1
  <1>2. ASSUME NEW e \in Entries(resources), e.kind = K
        PROVE  e.name \in {r.name : r \in {y \in resources : y.kind = K}}
    <2>1. PICK y \in resources : e = [kind |-> y.kind, name |-> y.name]
      BY DEF Entries
    <2>2. y.kind = K /\ e.name = y.name
      BY <1>2, <2>1
    <2>3. QED
      BY <2>2
  <1>3. QED
    BY <1>1, <1>2

(* The entries of kind KindOf[t] in the spec's inventory are task t's:   *)
(* no two tasks share a kind.                                             *)
LEMMA KindSlice ==
    ASSUME NEW t \in WorkloadTasks
    PROVE  {r.name : r \in {y \in SpecInventory : y.kind = KindOf[t]}} = ExpectedNames(t)
  <1> DEFINE Top(u) == {x \in Listed[u] : u \notin {"pods", "replicaSets"} \/ ~x.owned}
             Res(u) == {[kind |-> KindOf[u], name |-> i.name] : i \in Top(u)}
  <1>1. SpecInventory = UNION {Res(u) : u \in WorkloadTasks}
    BY DEF SpecInventory
  <1>2. \A u \in WorkloadTasks : u # t => KindOf[u] # KindOf[t]
    BY DEF WorkloadTasks, KindOf
  <1>3. {y \in SpecInventory : y.kind = KindOf[t]} = Res(t)
    BY <1>1, <1>2
  <1>4. {r.name : r \in Res(t)} = {i.name : i \in Top(t)}
    <2>1. ASSUME NEW r \in Res(t) PROVE r.name \in {i.name : i \in Top(t)}
      <3>1. PICK i \in Top(t) : r = [kind |-> KindOf[t], name |-> i.name]
        OBVIOUS
      <3>2. QED
        BY <3>1
    <2>2. ASSUME NEW i \in Top(t) PROVE i.name \in {r.name : r \in Res(t)}
      <3>1. [kind |-> KindOf[t], name |-> i.name] \in Res(t)
        OBVIOUS
      <3>2. QED
        BY <3>1
    <2>3. QED
      BY <2>1, <2>2
  <1>5. QED
    BY <1>3, <1>4 DEF ExpectedNames

(* Once group.Wait() has returned without error after a call, resources  *)
(* hold exactly the listed controllers, orphan pods and unowned           *)
(* ReplicaSets, whatever order the goroutines finished in.               *)
THEOREM ResourcesCompleteTheorem == Spec => []ResourcesComplete
  <1>1. InvOk => ResourcesComplete
    <2> SUFFICES ASSUME InvOk, phase = "idle", err = None,
                        \A u \in Tasks : status[u] # "none",
                        NEW t \in WorkloadTasks
                 PROVE  {r.name : r \in {y \in resources : y.kind = KindOf[t]}}
                          = ExpectedNames(t)
      BY DEF ResourcesComplete
    <2>1. OkTasks = WorkloadTasks
      BY DEF InvOk, OkTasks, Tasks
    <2>2. Entries(resources) = SpecInventory
      BY <2>1, AllTasksComplete DEF InvOk
    <2>3. {r.name : r \in {y \in resources : y.kind = KindOf[t]}}
            = {r.name : r \in {y \in Entries(resources) : y.kind = KindOf[t]}}
      BY NamesOfKind
    <2>4. {r.name : r \in {y \in SpecInventory : y.kind = KindOf[t]}} = ExpectedNames(t)
      BY KindSlice
    <2>5. QED
      BY <2>2, <2>3, <2>4
  <1>2. QED
    BY <1>1, InitInvOk, NextInvOk, PTL DEF Spec

-----------------------------------------------------------------------------

(* The object GetStatefulSet returns is a listed one, masked.            *)
MaskedSts == sts = None \/ \E i \in Listed["statefulSets"] : sts = MaskPodSpec(i)

(* A masked container list holds no original value: an env value is     *)
(* the mask token or empty, an argument the mask token.                  *)
LEMMA MaskedValues ==
    ASSUME NEW cs
    PROVE  "secret" \notin ValuesOf(MaskContainers(cs))
  <1> SUFFICES ASSUME NEW i \in DOMAIN MaskContainers(cs),
                      "secret" \in {MaskContainers(cs)[i].env[k] : k \in DOMAIN MaskContainers(cs)[i].env}
                                 \cup {MaskContainers(cs)[i].args[k] : k \in DOMAIN MaskContainers(cs)[i].args}
               PROVE  FALSE
    BY DEF ValuesOf
  <1>1. i \in DOMAIN cs
    BY DEF MaskContainers
  <1>2. MaskContainers(cs)[i].env = MaskEnvVars(cs[i].env)
        /\ MaskContainers(cs)[i].args = MaskArgs(cs[i].args)
    BY <1>1 DEF MaskContainers
  <1>3. \A k \in DOMAIN MaskEnvVars(cs[i].env) : MaskEnvVars(cs[i].env)[k] # "secret"
    BY DEF MaskEnvVars, Masked
  <1>4. \A k \in DOMAIN MaskArgs(cs[i].args) : MaskArgs(cs[i].args)[k] # "secret"
    BY DEF MaskArgs, Masked
  <1>5. QED
    BY <1>2, <1>3, <1>4

(* Whatever it is called on, GetStatefulSet returns no original          *)
(* environment value or argument.                                        *)
THEOREM StatefulSetMaskedTheorem == Spec => []StatefulSetMasked
  <1>1. Init => MaskedSts
    BY DEF Init, MaskedSts
  <1>2. MaskedSts /\ [Next]_vars => MaskedSts'
    BY DEF MaskedSts, Next, GetResources, Wait, GetStatefulSet, ListFail, ListOk, vars
  <1>3. MaskedSts => StatefulSetMasked
    <2> SUFFICES ASSUME NEW i \in Listed["statefulSets"], sts = MaskPodSpec(i)
                 PROVE  "secret" \notin ValuesOf(sts.containers)
      BY ListedAssumption DEF MaskedSts, StatefulSetMasked, Item
    <2>1. i \in Item
      BY DEF WorkloadTasks
    <2>2. sts.containers = MaskContainers(i.containers)
      BY <2>1 DEF MaskPodSpec, Item
    <2>3. QED
      BY <2>2, MaskedValues
  <1>4. QED
    BY <1>1, <1>2, <1>3, PTL DEF Spec

=============================================================================
