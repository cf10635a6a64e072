---------------------------- MODULE ScrapeCycle ----------------------------
(***************************************************************************)
(* One GetMetrics cycle of the kubelet source (src/metrics/kubelet.go),    *)
(* seen from the metrics it emits.                                         *)
(*                                                                         *)
(* GetMetrics first emits the cluster- and node-scope metrics of the       *)
(* scanner snapshot and the per-container spec metrics (requests and       *)
(* limits), then pr.Do() runs one task per node.  A task fetches           *)
(* stats/summary under withBackoff, unmarshals it, emits the node's        *)
(* measurements, walks the summary's pods (skipping those FindService does *)
(* not know), deduplicates each pod's containers by name, one container   *)
(* per step, emits the container measurements and prepares a zero-valued *)
(* throttle store per container ID; then it fetches metrics/cadvisor under *)
(* a second withBackoff, decodes it and emits the throttle stores.         *)
(*                                                                         *)
(* Data is abstracted to what tells metrics apart: a metric is its type,   *)
(* a kind standing for a group of measurement names, its identifiers and   *)
(* the pod and container sample it came from.  Whether calcRate yields a   *)
(* rate is a free choice here (KubeletRate models the rate table).        *)
(***************************************************************************)
EXTENDS Integers, Sequences

CONSTANTS
    Nodes,          \* the snapshot's nodes, one task each
    Pods,           \* pod references appearing in summaries
    Names,          \* container names
    Services,       \* (application, service) pairs FindService returns
    CtrIDs,         \* container IDs of the scanner
    Nil,            \* uuid.Nil
    PodsOf,         \* PodsOf[n]: summary.Pods of node n
    SamplesOf,      \* SamplesOf[p]: pod.Containers, in slice order
    ServiceOf,      \* FindService: pod -> service, defined on known pods
    ContainerOf,    \* FindContainer: <<pod, name>> -> container ID
    SpecContainers, \* the snapshot's service containers, [svc, ctr]
    MaxRetries      \* --kubelet-backoff-max-retries

Starts == 0 .. 2    \* container StartTime, coarse
Sample == [name : Names, start : Starts]

ASSUME ScrapeAssumption ==
    /\ PodsOf \in [Nodes -> SUBSET Pods]
    /\ SamplesOf \in [Pods -> Seq(Sample)]
    /\ DOMAIN ServiceOf \subseteq Pods /\ \A p \in DOMAIN ServiceOf : ServiceOf[p] \in Services
    /\ DOMAIN ContainerOf \subseteq Pods \X Names
    /\ \A pc \in DOMAIN ContainerOf : ContainerOf[pc] \in CtrIDs
    /\ SpecContainers \subseteq [svc : Services, ctr : CtrIDs]
    /\ MaxRetries \in Nat
    \* Spec section 3: a service's containers are distinct, so FindContainer
    \* resolves two names of one pod to two container IDs.
    /\ \A pa, pb \in DOMAIN ContainerOf :
         pa[1] = pb[1] /\ ContainerOf[pa] = ContainerOf[pb] => pa = pb
    /\ Nil \notin Nodes \cup Services \cup CtrIDs \cup Pods \cup Starts

VARIABLES
    phase,      \* "idle" between ticks, "scrape" while GetMetrics runs
    pc,         \* pc[n]: where node n's task is
    tries,      \* tries[n]: withBackoff's try counter of the current fetch
    absent,     \* absent[n]: stats/summary answered "could not find"
    todo,       \* todo[n]: pods of node n's summary not yet walked
    curPod,     \* curPod[n]: the pod whose containers node n walks, or Nil
    ci,         \* ci[n]: index of the next of curPod[n]'s containers
    podContainers, \* podContainers[n]: that pod's map, name -> sample
    throttle,   \* throttle[n]: node n's throttleMetrics, ctr ID -> store
    metrics     \* the cycle's `metrics` slice, as a set

vars == <<phase, pc, tries, absent, todo, curPod, ci, podContainers, throttle, metrics>>

TaskStates == {"summary", "pods", "cadvisor", "done", "failed"}
Outcomes == {"ok", "absent", "malformed", "error"}
Kinds == {"count", "capacity", "spec", "usage", "rate", "throttle", "throttle_rate"}
Types == {"cluster", "node", "pod", "container"}

Metric == [type : Types, kind : Kinds, node : Nodes \cup {Nil},
           svc : Services \cup {Nil}, ctr : CtrIDs \cup {Nil},
           pod : Pods \cup {Nil}, start : Starts \cup {Nil}]

Store == [svc : Services, ctr : CtrIDs, pod : Pods, name : Names]

(* One emitted Metrics value.                                             *)
M(type, kind, node, svc, ctr, pod, start) ==
    [type |-> type, kind |-> kind, node |-> node, svc |-> svc,
     ctr |-> ctr, pod |-> pod, start |-> start]

(* Assignment m[k] = e to a Go map m.                                     *)
Put(m, k, e) == [x \in DOMAIN m \cup {k} |-> IF x = k THEN e ELSE m[x]]

EmptyMap == [x \in {} |-> Nil]

(* The assignments m[k] = u[k], for every key k of u.                     *)
PutAll(m, u) == [x \in DOMAIN m \cup DOMAIN u |-> IF x \in DOMAIN u THEN u[x] ELSE m[x]]

(* The values of a Go map.                                                *)
Values(m) == {m[x] : x \in DOMAIN m}

(* Variants of withBackoff's give-up test: one attempt too many, never.   *)
RetriesLate(try) == try > MaxRetries + 1
RetriesNever(try) == FALSE

(* withBackoff gives up after the failed attempt number `try`.            *)
RetriesExhausted(try) == try > MaxRetries

(* try++.  An attempt that reaches MaxRetries + 1 and fails ends the      *)
(* task, so counts past it only occur in a withBackoff that never gives   *)
(* up; there the count alternates between MaxRetries + 1 and TryBound, so *)
(* that endless retrying stays an endless sequence of steps.              *)
TryBound == MaxRetries + 2
Count(t) == IF t < TryBound THEN t + 1 ELSE MaxRetries + 1

(* A variant of the dedup test that lets every later sample override.    *)
NewerAlways(a, b) == TRUE

(* container.StartTime.After(foundContainer.StartTime)                    *)
Newer(a, b) == a > b

(* The body of the podContainers loop: a name not seen yet is added, and  *)
(* a sample started after the one kept for its name replaces it; the      *)
(* first one wins a tie.                                                  *)
Keep(m, c) ==
    IF c.name \notin DOMAIN m \/ Newer(c.start, m[c.name].start)
    THEN Put(m, c.name, c) ELSE m

(* The surviving samples of node n's current pod that FindContainer       *)
(* resolves.                                                              *)
Resolved(n) ==
    LET d == podContainers[n]
    IN  {d[nm] : nm \in {x \in DOMAIN d : <<curPod[n], x>> \in DOMAIN ContainerOf}}

-----------------------------------------------------------------------------

(* Emitted before pr.Do(): nodes/count (total and per instance group)    *)
(* and the node capacities of the snapshot.                               *)
ClusterMetrics ==
    {M("cluster", "count", Nil, Nil, Nil, Nil, Nil)}
    \cup {M("node", "capacity", n, Nil, Nil, Nil, Nil) : n \in Nodes}

(* The "post-fan-out" spec metrics, also emitted before pr.Do(): requests *)
(* and limits of every service container, with a nil node ID.            *)
SpecMetrics ==
    {M("container", "spec", Nil, s.svc, s.ctr, Nil, Nil) : s \in SpecContainers}

(* The node block of a summary: the absolutes and the five rates.         *)
NodeMetrics(n) == {M("node", "usage", n, Nil, Nil, Nil, Nil)}
NodeRates(n) == {M("node", "rate", n, Nil, Nil, Nil, Nil)}

(* A known pod's network absolutes and rates.                             *)
PodAbs(n, p) == {M("pod", "usage", n, ServiceOf[p], Nil, p, Nil)}
PodRate(n, p) == {M("pod", "rate", n, ServiceOf[p], Nil, p, Nil)}

(* Per resolved container of node n's current pod p: its absolutes, and  *)
(* its cpu/usage_rate.                                                    *)
CtrAbs(n) ==
    LET p == curPod[n] IN
    {M("container", "usage", n, ServiceOf[p], ContainerOf[<<p, c.name>>], p, c.start)
        : c \in Resolved(n)}
CtrRate(n) ==
    LET p == curPod[n] IN
    {M("container", "rate", n, ServiceOf[p], ContainerOf[<<p, c.name>>], p, c.start)
        : c \in Resolved(n)}

(* throttleMetrics[identifiedContainer.ID] = defaultMetricStore(...)      *)
PodStores(n) ==
    LET p == curPod[n] IN
    [id \in {ContainerOf[<<p, c.name>>] : c \in Resolved(n)} |->
        LET c == CHOOSE c \in Resolved(n) : ContainerOf[<<p, c.name>>] = id
        IN  [svc |-> ServiceOf[p], ctr |-> id, pod |-> p, name |-> c.name]]

(* The throttle stores of a node, emitted after cAdvisor was read.        *)
ThrottleMetrics(n) ==
    {M("container", "throttle", n, s.svc, s.ctr, s.pod, Nil) : s \in Values(throttle[n])}
ThrottleRates(n) ==
    {M("container", "throttle_rate", n, s.svc, s.ctr, s.pod, Nil) : s \in Values(throttle[n])}

-----------------------------------------------------------------------------

Init ==
    /\ phase = "idle"
    /\ pc = [n \in Nodes |-> "done"]
    /\ tries = [n \in Nodes |-> 0]
    /\ absent = [n \in Nodes |-> FALSE]
    /\ todo = [n \in Nodes |-> {}]
    /\ curPod = [n \in Nodes |-> Nil]
    /\ ci = [n \in Nodes |-> 0]
    /\ podContainers = [n \in Nodes |-> EmptyMap]
    /\ throttle = [n \in Nodes |-> EmptyMap]
    /\ metrics = {}

(* The ticker fires: GetMetrics emits the snapshot metrics and builds the *)
(* concurrent processor, one task per node.                               *)
StartCycle ==
    /\ phase = "idle"
    /\ phase' = "scrape"
    /\ pc' = [n \in Nodes |-> "summary"]
    /\ tries' = [n \in Nodes |-> 0]
    /\ absent' = [n \in Nodes |-> FALSE]
    /\ todo' = [n \in Nodes |-> {}]
    /\ throttle' = [n \in Nodes |-> EmptyMap]
    /\ metrics' = ClusterMetrics \cup SpecMetrics
    /\ UNCHANGED <<curPod, ci, podContainers>>

(* One withBackoff attempt at stats/summary, with what follows it up to   *)
(* the pods loop: a "could not find" error is an empty summary "{}", a    *)
(* body that does not unmarshal fails the task, and a parsed summary      *)
(* emits the node block (each rate only if calcRate succeeds).            *)
SummaryAttempt(n) ==
    /\ phase = "scrape" /\ pc[n] = "summary"
    /\ tries' = [tries EXCEPT ![n] = Count(@)]
    /\ \E out \in Outcomes :
         \/ /\ out = "error"
            /\ pc' = [pc EXCEPT ![n] = IF RetriesExhausted(Count(tries[n])) THEN "failed" ELSE "summary"]
            /\ UNCHANGED <<absent, todo, metrics>>
         \/ /\ out = "malformed"
            /\ pc' = [pc EXCEPT ![n] = "failed"]
            /\ UNCHANGED <<absent, todo, metrics>>
         \/ /\ out \in {"ok", "absent"}
            /\ pc' = [pc EXCEPT ![n] = "pods"]
            /\ absent' = [absent EXCEPT ![n] = (out = "absent")]
            /\ todo' = [todo EXCEPT ![n] = IF out = "absent" THEN {} ELSE PodsOf[n]]
            /\ \E rated \in SUBSET NodeRates(n) :
                 metrics' = metrics \cup NodeMetrics(n) \cup rated
    /\ UNCHANGED <<phase, curPod, ci, podContainers, throttle>>

(* The head of `for _, pod := range summary.Pods`: a pod FindService does *)
(* not know is skipped; a known one emits its network block (each rate    *)
(* only if calcRate succeeds) and starts an empty podContainers map.      *)
PodStep(n) ==
    /\ phase = "scrape" /\ pc[n] = "pods" /\ curPod[n] = Nil
    /\ \E p \in todo[n] :
         /\ todo' = [todo EXCEPT ![n] = @ \ {p}]
         /\ IF p \in DOMAIN ServiceOf
              THEN /\ \E rated \in SUBSET PodRate(n, p) :
                        metrics' = metrics \cup PodAbs(n, p) \cup rated
                   /\ curPod' = [curPod EXCEPT ![n] = p]
                   /\ ci' = [ci EXCEPT ![n] = 1]
              ELSE UNCHANGED <<metrics, curPod, ci>>   \* "can't find service"
    /\ UNCHANGED <<phase, pc, tries, absent, podContainers, throttle>>

(* One iteration of `for _, container := range pod.Containers`.           *)
ContainerStep(n) ==
    /\ phase = "scrape" /\ curPod[n] # Nil
    /\ ci[n] <= Len(SamplesOf[curPod[n]])
    /\ podContainers' = [podContainers EXCEPT ![n] = Keep(@, SamplesOf[curPod[n]][ci[n]])]
    /\ ci' = [ci EXCEPT ![n] = @ + 1]
    /\ UNCHANGED <<phase, pc, tries, absent, todo, curPod, throttle, metrics>>

(* `for _, container := range podContainers`: every container FindContainer *)
(* resolves emits its absolutes and, if calcRate succeeds, its             *)
(* cpu/usage_rate, and gets fresh throttle stores under its ID; the pod's  *)
(* iteration ends.                                                         *)
EmitContainers(n) ==
    /\ phase = "scrape" /\ curPod[n] # Nil
    /\ ci[n] > Len(SamplesOf[curPod[n]])
    /\ \E rated \in SUBSET CtrRate(n) : metrics' = metrics \cup CtrAbs(n) \cup rated
    /\ throttle' = [throttle EXCEPT ![n] = PutAll(@, PodStores(n))]
    /\ curPod' = [curPod EXCEPT ![n] = Nil]
    /\ ci' = [ci EXCEPT ![n] = 0]
    /\ podContainers' = [podContainers EXCEPT ![n] = EmptyMap]
    /\ UNCHANGED <<phase, pc, tries, absent, todo>>

(* The pods loop is over: the cAdvisor fetch starts with a fresh counter. *)
PodsDone(n) ==
    /\ phase = "scrape" /\ pc[n] = "pods" /\ todo[n] = {} /\ curPod[n] = Nil
    /\ pc' = [pc EXCEPT ![n] = "cadvisor"]
    /\ tries' = [tries EXCEPT ![n] = 0]
    /\ UNCHANGED <<phase, absent, todo, curPod, ci, podContainers, throttle, metrics>>

(* One withBackoff attempt at metrics/cadvisor and what follows it: a     *)
(* "could not find" error is an empty body, an undecodable body fails the *)
(* task, and otherwise every throttle store is emitted (absolute and      *)
(* rate); cAdvisor values only overwrite a store's value.                 *)
CadvisorAttempt(n) ==
    /\ phase = "scrape" /\ pc[n] = "cadvisor"
    /\ tries' = [tries EXCEPT ![n] = Count(@)]
    /\ \E out \in Outcomes :
         \/ /\ out = "error"
            /\ pc' = [pc EXCEPT ![n] = IF RetriesExhausted(Count(tries[n])) THEN "failed" ELSE "cadvisor"]
            /\ UNCHANGED metrics
         \/ /\ out = "malformed"
            /\ pc' = [pc EXCEPT ![n] = "failed"]
            /\ UNCHANGED metrics
         \/ /\ out \in {"ok", "absent"}
            /\ pc' = [pc EXCEPT ![n] = "done"]
            /\ \E rated \in SUBSET ThrottleRates(n) :
                 metrics' = metrics \cup ThrottleMetrics(n) \cup rated
    /\ UNCHANGED <<phase, absent, todo, curPod, ci, podContainers, throttle>>

(* pr.Do() returns when every task has returned; errors are only logged. *)
EndCycle ==
    /\ phase = "scrape"
    /\ \A n \in Nodes : pc[n] \in {"done", "failed"}
    /\ phase' = "idle"
    /\ UNCHANGED <<pc, tries, absent, todo, curPod, ci, podContainers, throttle, metrics>>

Next ==
    \/ StartCycle
    \/ EndCycle
    \/ \E n \in Nodes :
         \/ SummaryAttempt(n) \/ PodStep(n) \/ ContainerStep(n)
         \/ EmitContainers(n) \/ PodsDone(n) \/ CadvisorAttempt(n)

(* The ticker keeps firing and the Go scheduler runs every runnable task. *)
Fairness ==
    /\ WF_vars(StartCycle) /\ WF_vars(EndCycle)
    /\ \A n \in Nodes :
         /\ WF_vars(SummaryAttempt(n)) /\ WF_vars(PodStep(n))
         /\ WF_vars(ContainerStep(n)) /\ WF_vars(EmitContainers(n))
         /\ WF_vars(PodsDone(n)) /\ WF_vars(CadvisorAttempt(n))

Spec == Init /\ [][Next]_vars /\ Fairness

-----------------------------------------------------------------------------

TypeOK ==
    /\ phase \in {"idle", "scrape"}
    /\ pc \in [Nodes -> TaskStates]
    /\ tries \in [Nodes -> 0 .. MaxRetries + 1]
    /\ absent \in [Nodes -> BOOLEAN]
    /\ todo \in [Nodes -> SUBSET Pods]
    /\ curPod \in [Nodes -> Pods \cup {Nil}]
    /\ ci \in [Nodes -> Nat]
    /\ DOMAIN podContainers = Nodes /\ DOMAIN throttle = Nodes
    /\ \A n \in Nodes : DOMAIN podContainers[n] \subseteq Names /\ Values(podContainers[n]) \subseteq Sample
    /\ \A n \in Nodes : DOMAIN throttle[n] \subseteq CtrIDs /\ Values(throttle[n]) \subseteq Store
    /\ metrics \subseteq Metric

(* Spec section 4.3 and scenario 3: of two summary samples of one         *)
(* container name in a pod, only the one started last reaches emission;   *)
(* every container measurement carries a sample of its name with the      *)
(* greatest StartTime in the pod's list.                                  *)
DedupLatest ==
    \A m \in metrics :
        m.type = "container" /\ m.kind \in {"usage", "rate"} =>
            \A i \in DOMAIN SamplesOf[m.pod] :
                LET c == SamplesOf[m.pod][i]
                IN  <<m.pod, c.name>> \in DOMAIN ContainerOf /\ ContainerOf[<<m.pod, c.name>>] = m.ctr
                        => c.start <= m.start

(* Every node task returns: withBackoff gives up after a bounded number   *)
(* of failed attempts, so pr.Do() returns and the next tick can start.    *)
TaskTerminates ==
    \A n \in Nodes : [](pc[n] \in {"summary", "pods", "cadvisor"} => <>(pc[n] \in {"done", "failed"}))

(* Spec scenario 4: a node whose stats/summary endpoint is absent         *)
(* contributes no summary-derived metric in that cycle.                   *)
AbsentSummaryEmitsNothing ==
    \A n \in Nodes :
        absent[n] => ~\E m \in metrics : m.node = n /\ m.kind \in {"usage", "rate"}

(* Spec section 4.3 step 5: once a node's cAdvisor response is read,     *)
(* every resolved container (pod UID, name) of its summary has its        *)
(* throttling measurements, under its own pod.                            *)
ThrottlePerPod ==
    \A n \in Nodes :
        pc[n] = "done" /\ phase = "scrape" =>
            \A p \in PodsOf[n] \cap DOMAIN ServiceOf : \A i \in DOMAIN SamplesOf[p] :
                LET nm == SamplesOf[p][i].name
                IN  <<p, nm>> \in DOMAIN ContainerOf =>
                        absent[n] \/ \E m \in metrics :
                            m.kind = "throttle" /\ m.pod = p /\ m.ctr = ContainerOf[<<p, nm>>]

=============================================================================
