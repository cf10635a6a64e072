------------------------- MODULE ScrapeCycleProofs -------------------------
(***************************************************************************)
(* Proofs about one GetMetrics cycle of the kubelet source.                *)
(*                                                                         *)
(* DedupLatest speaks of the emitted container metrics, but what makes it  *)
(* hold is the podContainers loop: after the first k containers of the    *)
(* pod, the map holds, for every name among them, a sample of that name    *)
(* started no earlier than any of them.  LoopInv states this of the pod a  *)
(* node task is walking; EmitInv carries it over to the metrics once the   *)
(* loop is over; the spec's assumption that FindContainer resolves two    *)
(* names of one pod to two container IDs then turns the name into the ID   *)
(* DedupLatest speaks of.                                                  *)
(***************************************************************************)
EXTENDS ScrapeCycle, TLAPS

USE ScrapeAssumption

(* After ci[n] - 1 containers of node n's current pod, every name seen so *)
(* far is a key of podContainers, mapped to a sample of that name started *)
(* no earlier than any sample of the name seen so far.                    *)
LoopAt(p, k, f) ==
    /\ p \in DOMAIN ServiceOf
    /\ k \in 1 .. Len(SamplesOf[p]) + 1
    /\ \A nm \in DOMAIN f : f[nm].name = nm
    /\ \A i \in 1 .. k - 1 :
         SamplesOf[p][i].name \in DOMAIN f /\ SamplesOf[p][i].start <= f[SamplesOf[p][i].name].start

LoopInv(n) == LoopAt(curPod[n], ci[n], podContainers[n])

(* Every container measurement carries the start of a sample of some name *)
(* that resolves to its container, started no earlier than any sample of  *)
(* that name in its pod.                                                  *)
EmitInv ==
    \A m \in metrics :
        m.type = "container" /\ m.kind \in {"usage", "rate"} =>
            \E nm \in Names :
                /\ <<m.pod, nm>> \in DOMAIN ContainerOf
                /\ ContainerOf[<<m.pod, nm>>] = m.ctr
                /\ \A i \in DOMAIN SamplesOf[m.pod] :
                     SamplesOf[m.pod][i].name = nm => SamplesOf[m.pod][i].start <= m.start

(* A fetch still in progress has not used up its attempts.               *)
TriesLeft ==
    \A n \in Nodes : pc[n] \in {"summary", "cadvisor"} => tries[n] <= MaxRetries

IInv ==
    /\ TypeOK
    /\ TriesLeft
    /\ \A n \in Nodes : curPod[n] = Nil => DOMAIN podContainers[n] = {}
    /\ \A n \in Nodes : curPod[n] # Nil => LoopInv(n)
    /\ EmitInv

-----------------------------------------------------------------------------

LEMMA InitIInv == Init => IInv
BY DEF Init, IInv, TypeOK, TriesLeft, EmitInv, EmptyMap, Values, TaskStates

(* The values of a map all lie in T when each key's value does.          *)
LEMMA ValuesIn ==
    ASSUME NEW g, NEW T, \A x \in DOMAIN g : g[x] \in T
    PROVE  Values(g) \subseteq T
BY DEF Values

(* Assigning every entry of u into m keeps keys in D and values in T.     *)
LEMMA PutAllIn ==
    ASSUME NEW m, NEW u, NEW D, NEW T,
           DOMAIN m \subseteq D, DOMAIN u \subseteq D,
           Values(m) \subseteq T, Values(u) \subseteq T
    PROVE  DOMAIN PutAll(m, u) \subseteq D /\ Values(PutAll(m, u)) \subseteq T
BY Zenon DEF PutAll, Values

(* One iteration of the podContainers loop: the container's name becomes *)
(* a key, every key still maps to a sample of its name, the sample kept   *)
(* for the name is no older than the container, and no kept sample gets   *)
(* older.                                                                 *)
LEMMA KeepLemma ==
    ASSUME NEW f, NEW c \in Sample,
           DOMAIN f \subseteq Names,
           \A nm \in DOMAIN f : f[nm] \in Sample /\ f[nm].name = nm
    PROVE  LET g == Keep(f, c) IN
           /\ DOMAIN g = DOMAIN f \cup {c.name}
           /\ \A nm \in DOMAIN g : g[nm] \in Sample /\ g[nm].name = nm
           /\ c.start <= g[c.name].start
           /\ \A nm \in DOMAIN f : f[nm].start <= g[nm].start
<1> DEFINE g == Keep(f, c)
<1>1. CASE c.name \notin DOMAIN f \/ Newer(c.start, f[c.name].start)
    <2>1. g = Put(f, c.name, c)
        BY <1>1 DEF Keep
    <2> QED
        BY <1>1, <2>1 DEF Put, Newer, Sample, Starts
<1>2. CASE ~(c.name \notin DOMAIN f \/ Newer(c.start, f[c.name].start))
    <2>1. g = f
        BY <1>2 DEF Keep
    <2>2. c.name \in DOMAIN f /\ ~(c.start > f[c.name].start)
        BY <1>2 DEF Newer
    <2>3. c.start \in Starts /\ f[c.name].start \in Starts
        BY <2>2 DEF Sample
    <2>4. c.start <= g[c.name].start
        BY <2>1, <2>2, <2>3 DEF Starts
    <2>5. \A nm \in DOMAIN f : f[nm].start \in Starts
        BY DEF Sample
    <2>6. DOMAIN g = DOMAIN f \cup {c.name}
        BY <2>1, <2>2, Zenon
    <2>7. \A nm \in DOMAIN g : g[nm] \in Sample /\ g[nm].name = nm
        BY <2>1
    <2>8. \A nm \in DOMAIN f : f[nm].start <= g[nm].start
        BY <2>1, <2>5 DEF Starts
    <2> QED
        BY <2>4, <2>6, <2>7, <2>8
<1> QED
    BY <1>1, <1>2

(* One iteration of the podContainers loop keeps the loop invariant, with *)
(* the index one further on.                                              *)
LEMMA LoopStep ==
    ASSUME NEW p \in Pods, NEW k \in Nat, NEW f,
           LoopAt(p, k, f), k <= Len(SamplesOf[p]),
           DOMAIN f \subseteq Names, Values(f) \subseteq Sample
    PROVE  LET g == Keep(f, SamplesOf[p][k])
           IN  /\ LoopAt(p, k + 1, g)
               /\ DOMAIN g \subseteq Names /\ Values(g) \subseteq Sample
<1> DEFINE S == SamplesOf[p]
           c == S[k]
           g == Keep(f, c)
<1>1. k \in 1 .. Len(S) /\ S \in Seq(Sample)
    BY DEF LoopAt
<1>2. c \in Sample /\ \A i \in 1 .. k : S[i] \in Sample
    BY <1>1
<1>3. \A nm \in DOMAIN f : f[nm] \in Sample /\ f[nm].name = nm
    BY DEF LoopAt, Values
<1>4. /\ DOMAIN g = DOMAIN f \cup {c.name}
      /\ \A nm \in DOMAIN g : g[nm] \in Sample /\ g[nm].name = nm
      /\ c.start <= g[c.name].start
      /\ \A nm \in DOMAIN f : f[nm].start <= g[nm].start
    BY <1>2, <1>3, KeepLemma, Zenon
<1>5. \A i \in 1 .. k : S[i].name \in DOMAIN g /\ S[i].start <= g[S[i].name].start
    <2> TAKE i \in 1 .. k
    <2>1. CASE i = k
        BY <1>4, <2>1
    <2>2. CASE i \in 1 .. k - 1
        <3> DEFINE x == S[i].name
        <3>1. x \in DOMAIN f /\ S[i].start <= f[x].start
            BY <2>2 DEF LoopAt
        <3>2. S[i].start \in Starts /\ f[x].start \in Starts /\ g[x].start \in Starts
            BY <1>2, <1>3, <1>4, <3>1 DEF Sample
        <3>3. f[x].start <= g[x].start /\ x \in DOMAIN g
            BY <1>4, <3>1
        <3> QED
            BY <3>1, <3>2, <3>3 DEF Starts
    <2> QED
        BY <1>1, <2>1, <2>2
<1>6. LoopAt(p, k + 1, g)
    <2>1. 1 .. (k + 1) - 1 = 1 .. k /\ k + 1 \in 1 .. Len(S) + 1
        <3>1. Len(S) \in Nat /\ k \in 1 .. Len(S)
            BY <1>1
        <3>2. (k + 1) - 1 = k
            OBVIOUS
        <3>3. k + 1 \in 1 .. Len(S) + 1
            BY <3>1
        <3> QED
            BY <3>2, <3>3
    <2>2. p \in DOMAIN ServiceOf
        BY DEF LoopAt
    <2> QED
        BY <1>4, <1>5, <2>1, <2>2 DEF LoopAt
<1>7. DOMAIN g \subseteq Names
    BY <1>2, <1>3, <1>4 DEF Sample
<1>8. Values(g) \subseteq Sample
    BY <1>4, ValuesIn
<1> QED
    BY <1>6, <1>7, <1>8

LEMMA NextIInv == IInv /\ [Next]_vars => IInv'
<1> SUFFICES ASSUME IInv, [Next]_vars PROVE IInv'
    OBVIOUS
<1>0. /\ curPod \in [Nodes -> Pods \cup {Nil}] /\ ci \in [Nodes -> Nat]
      /\ DOMAIN podContainers = Nodes /\ DOMAIN throttle = Nodes
    BY DEF IInv, TypeOK
<1>1. CASE StartCycle
    <2>1. ClusterMetrics \cup SpecMetrics \subseteq Metric
        BY DEF ClusterMetrics, SpecMetrics, M, Metric, Types, Kinds
    <2>2. EmitInv'
        BY <1>1 DEF StartCycle, EmitInv, ClusterMetrics, SpecMetrics, M
    <2> QED
        BY <1>1, <2>1, <2>2 DEF StartCycle, IInv, TypeOK, TriesLeft, LoopInv, EmptyMap,
                                Values, TaskStates
<1>2. CASE EndCycle
    BY <1>2, Zenon DEF EndCycle, IInv, TypeOK, TriesLeft, LoopInv, EmitInv
<1>3. ASSUME NEW n \in Nodes, SummaryAttempt(n) PROVE IInv'
    <2>1. NodeMetrics(n) \cup NodeRates(n) \subseteq Metric
        BY DEF NodeMetrics, NodeRates, M, Metric, Types, Kinds
    <2>2. \A m \in NodeMetrics(n) \cup NodeRates(n) : m.type = "node"
        BY DEF NodeMetrics, NodeRates, M
    <2>3. tries[n] <= MaxRetries /\ tries' = [tries EXCEPT ![n] = Count(tries[n])]
        BY <1>3 DEF SummaryAttempt, IInv, TriesLeft
    <2>4. TypeOK' /\ TriesLeft'
        <3>1. tries[n] \in 0 .. MaxRetries /\ Count(tries[n]) \in 1 .. MaxRetries + 1
            BY <2>3 DEF IInv, TypeOK, Count, TryBound
        <3>2. tries' \in [Nodes -> 0 .. MaxRetries + 1]
            BY <2>3, <3>1 DEF IInv, TypeOK
        <3>3. pc'[n] = "summary" => tries'[n] <= MaxRetries
            BY <1>3, <2>3, <3>1 DEF SummaryAttempt, RetriesExhausted, IInv, TypeOK
        <3>4. pc' \in [Nodes -> TaskStates]
            BY <1>3, Zenon DEF SummaryAttempt, IInv, TypeOK, TaskStates
        <3>5. metrics' \subseteq Metric
            BY <1>3, <2>1 DEF SummaryAttempt, IInv, TypeOK
        <3>6. absent' \in [Nodes -> BOOLEAN] /\ todo' \in [Nodes -> SUBSET Pods]
            <4>1. PICK out \in Outcomes :
                    \/ out \in {"error", "malformed"} /\ UNCHANGED <<absent, todo>>
                    \/ /\ absent' = [absent EXCEPT ![n] = (out = "absent")]
                       /\ todo' = [todo EXCEPT ![n] = IF out = "absent" THEN {} ELSE PodsOf[n]]
                BY <1>3 DEF SummaryAttempt
            <4>2. PodsOf[n] \in SUBSET Pods
                OBVIOUS
            <4> QED
                BY <4>1, <4>2, Zenon DEF IInv, TypeOK
        <3> QED
            BY <1>3, <2>3, <3>2, <3>3, <3>4, <3>5, <3>6
               DEF SummaryAttempt, IInv, TypeOK, TriesLeft, Values
    <2>5. (\A k \in Nodes : curPod'[k] = Nil => DOMAIN podContainers'[k] = {})
          /\ (\A k \in Nodes : curPod'[k] # Nil => LoopInv(k)')
        BY <1>3 DEF SummaryAttempt, IInv, LoopInv
    <2>6. EmitInv'
        BY <1>3, <2>2, Zenon DEF SummaryAttempt, IInv, EmitInv
    <2> QED
        BY <2>4, <2>5, <2>6 DEF IInv
<1>4. ASSUME NEW n \in Nodes, PodStep(n) PROVE IInv'
    <2>1. PICK p \in todo[n] :
            /\ todo' = [todo EXCEPT ![n] = @ \ {p}]
            /\ IF p \in DOMAIN ServiceOf
                 THEN /\ \E rated \in SUBSET PodRate(n, p) :
                           metrics' = metrics \cup PodAbs(n, p) \cup rated
                      /\ curPod' = [curPod EXCEPT ![n] = p]
                      /\ ci' = [ci EXCEPT ![n] = 1]
                 ELSE UNCHANGED <<metrics, curPod, ci>>
        BY <1>4, Zenon DEF PodStep
    <2>2. /\ curPod[n] = Nil /\ DOMAIN podContainers[n] = {}
          /\ UNCHANGED <<phase, pc, tries, absent, podContainers, throttle>>
        BY <1>4 DEF PodStep, IInv
    <2>3. p \in Pods
        BY DEF IInv, TypeOK
    <2>6. todo' \in [Nodes -> SUBSET Pods]
        BY <2>1 DEF IInv, TypeOK
    <2>4. CASE p \notin DOMAIN ServiceOf
        <3>1. UNCHANGED <<metrics, curPod, ci>>
            BY <2>1, <2>4
        <3>2. TypeOK'
            BY <2>2, <2>6, <3>1 DEF IInv, TypeOK, Values
        <3> QED
            BY <2>2, <3>1, <3>2, Zenon DEF IInv, TriesLeft, LoopInv, EmitInv
    <2>5. CASE p \in DOMAIN ServiceOf
        <3>1. PICK rated \in SUBSET PodRate(n, p) :
                metrics' = metrics \cup PodAbs(n, p) \cup rated
            BY <2>1, <2>5, Zenon
        <3>2. PodAbs(n, p) \cup PodRate(n, p) \subseteq Metric
            BY <2>3, <2>5 DEF PodAbs, PodRate, M, Metric, Types, Kinds
        <3>3. \A m \in PodAbs(n, p) \cup PodRate(n, p) : m.type = "pod"
            BY DEF PodAbs, PodRate, M
        <3>4. TypeOK'
            <4>0. curPod' = [curPod EXCEPT ![n] = p] /\ ci' = [ci EXCEPT ![n] = 1]
                BY <2>1, <2>5
            <4>1. curPod' \in [Nodes -> Pods \cup {Nil}] /\ ci' \in [Nodes -> Nat]
                BY <1>0, <2>3, <4>0
            <4>2. metrics' \subseteq Metric
                BY <3>1, <3>2 DEF IInv, TypeOK
            <4> QED
                BY <2>2, <2>6, <4>1, <4>2 DEF IInv, TypeOK, Values
        <3>5. TriesLeft'
            BY <2>2 DEF IInv, TriesLeft
        <3>6. LoopInv(n)'
            <4>1. LoopAt(p, 1, podContainers[n])
                BY <2>2, <2>5 DEF LoopAt
            <4>2. curPod'[n] = p /\ ci'[n] = 1 /\ podContainers' = podContainers
                BY <1>0, <2>1, <2>2, <2>5
            <4> QED
                BY <4>1, <4>2 DEF LoopInv
        <3>7. \A k \in Nodes \ {n} : curPod'[k] = curPod[k] /\ ci'[k] = ci[k]
            BY <2>1, <2>5 DEF IInv, TypeOK
        <3>8. \A k \in Nodes : curPod'[k] # Nil => LoopInv(k)'
            BY <2>2, <3>6, <3>7 DEF IInv, LoopInv
        <3>9. EmitInv'
            BY <3>1, <3>3, Zenon DEF IInv, EmitInv
        <3>10. \A k \in Nodes : curPod'[k] = Nil => DOMAIN podContainers'[k] = {}
            BY <2>1, <2>2, <2>3, <2>5, Zenon DEF IInv, TypeOK
        <3> QED
            BY <3>4, <3>5, <3>8, <3>9, <3>10 DEF IInv
    <2> QED
        BY <2>4, <2>5
<1>5. ASSUME NEW n \in Nodes, ContainerStep(n) PROVE IInv'
    <2> DEFINE g == Keep(podContainers[n], SamplesOf[curPod[n]][ci[n]])
    <2>1. /\ curPod[n] # Nil /\ ci[n] <= Len(SamplesOf[curPod[n]])
          /\ podContainers' = [podContainers EXCEPT ![n] = g]
          /\ ci' = [ci EXCEPT ![n] = @ + 1]
          /\ UNCHANGED <<phase, pc, tries, absent, todo, curPod, throttle, metrics>>
        BY <1>5 DEF ContainerStep
    <2>2. LoopAt(curPod[n], ci[n], podContainers[n])
        BY <2>1 DEF IInv, LoopInv
    <2>3. curPod[n] \in Pods /\ ci[n] \in Nat
        BY <1>0, <2>1
    <2>4. DOMAIN podContainers[n] \subseteq Names /\ Values(podContainers[n]) \subseteq Sample
        BY DEF IInv, TypeOK
    <2>5. /\ LoopAt(curPod[n], ci[n] + 1, g)
          /\ DOMAIN g \subseteq Names /\ Values(g) \subseteq Sample
        BY <2>1, <2>2, <2>3, <2>4, LoopStep, Zenon
    <2>6. podContainers'[n] = g /\ ci'[n] = ci[n] + 1 /\ curPod'[n] = curPod[n]
        BY <1>0, <2>1
    <2>7. TypeOK'
        <3>1. ci' \in [Nodes -> Nat] /\ DOMAIN podContainers' = Nodes
            BY <1>0, <2>1, <2>3
        <3>2. \A j \in Nodes : DOMAIN podContainers'[j] \subseteq Names
                                /\ Values(podContainers'[j]) \subseteq Sample
            BY <1>0, <2>1, <2>5 DEF IInv, TypeOK
        <3> QED
            BY <2>1, <3>1, <3>2 DEF IInv, TypeOK
    <2>8. LoopInv(n)'
        BY <2>5, <2>6 DEF LoopInv
    <2>9. \A j \in Nodes \ {n} : LoopInv(j)' = LoopInv(j)
        BY <1>0, <2>1 DEF LoopInv
    <2>10. TriesLeft' /\ EmitInv'
        BY <2>1, Zenon DEF IInv, TriesLeft, EmitInv
    <2>11. \A j \in Nodes : curPod'[j] = Nil => DOMAIN podContainers'[j] = {}
        BY <1>0, <2>1 DEF IInv
    <2>12. \A j \in Nodes : curPod'[j] # Nil => LoopInv(j)'
        BY <2>1, <2>8, <2>9 DEF IInv
    <2> QED
        BY <2>7, <2>10, <2>11, <2>12 DEF IInv
<1>6. ASSUME NEW n \in Nodes, EmitContainers(n) PROVE IInv'
    <2> DEFINE p == curPod[n]
               S == SamplesOf[p]
               f == podContainers[n]
    <2>1. /\ p # Nil /\ ci[n] > Len(S)
          /\ \E rated \in SUBSET CtrRate(n) : metrics' = metrics \cup CtrAbs(n) \cup rated
          /\ throttle' = [throttle EXCEPT ![n] = PutAll(@, PodStores(n))]
          /\ curPod' = [curPod EXCEPT ![n] = Nil]
          /\ ci' = [ci EXCEPT ![n] = 0]
          /\ podContainers' = [podContainers EXCEPT ![n] = EmptyMap]
          /\ UNCHANGED <<phase, pc, tries, absent, todo>>
        BY <1>6, Zenon DEF EmitContainers
    <2>2. LoopAt(p, ci[n], f)
        BY <2>1 DEF IInv, LoopInv
    <2>3. /\ p \in DOMAIN ServiceOf /\ p \in Pods /\ ServiceOf[p] \in Services
          /\ S \in Seq(Sample) /\ ci[n] = Len(S) + 1
        BY <2>1, <2>2 DEF LoopAt
    <2>4. DOMAIN f \subseteq Names /\ \A nm \in DOMAIN f : f[nm] \in Sample /\ f[nm].name = nm
        BY <2>2 DEF IInv, TypeOK, Values, LoopAt
    (* What the loop left: every sample of the pod is no newer than the one *)
    (* kept for its name.                                                   *)
    <2>5. \A i \in DOMAIN S : S[i].name \in DOMAIN f /\ S[i].start <= f[S[i].name].start
        <3>1. DOMAIN S = 1 .. ci[n] - 1
            BY <2>3
        <3>2. \A i \in 1 .. ci[n] - 1 : S[i].name \in DOMAIN f /\ S[i].start <= f[S[i].name].start
            BY <2>2, Zenon DEF LoopAt
        <3> QED
            BY <3>1, <3>2, Zenon
    <2>6. \A c \in Resolved(n) :
            /\ c \in Sample /\ c.name \in DOMAIN f /\ c = f[c.name]
            /\ <<p, c.name>> \in DOMAIN ContainerOf
        <3> SUFFICES ASSUME NEW c \in Resolved(n)
                     PROVE  /\ c \in Sample /\ c.name \in DOMAIN f /\ c = f[c.name]
                            /\ <<p, c.name>> \in DOMAIN ContainerOf
            OBVIOUS
        <3>1. PICK nm \in DOMAIN f : <<p, nm>> \in DOMAIN ContainerOf /\ c = f[nm]
            BY DEF Resolved
        <3> QED
            BY <2>4, <3>1, Zenon
    <2>7. CtrAbs(n) \cup CtrRate(n) \subseteq Metric
        <3>1. ASSUME NEW c \in Resolved(n), NEW kd \in {"usage", "rate"}
              PROVE  M("container", kd, n, ServiceOf[p], ContainerOf[<<p, c.name>>], p, c.start)
                       \in Metric
            <4>1. ContainerOf[<<p, c.name>>] \in CtrIDs /\ c.start \in Starts
                BY <2>6 DEF Sample
            <4> QED
                BY <2>3, <4>1 DEF M, Metric, Types, Kinds
        <3> QED
            BY <3>1, Zenon DEF CtrAbs, CtrRate
    <2>8. \A m \in CtrAbs(n) \cup CtrRate(n) :
            \E c \in Resolved(n) :
                m.pod = p /\ m.ctr = ContainerOf[<<p, c.name>>] /\ m.start = c.start
        <3> SUFFICES ASSUME NEW m \in CtrAbs(n) \cup CtrRate(n)
                     PROVE  \E c \in Resolved(n) :
                              m.pod = p /\ m.ctr = ContainerOf[<<p, c.name>>] /\ m.start = c.start
            OBVIOUS
        <3>1. PICK c \in Resolved(n) :
                \/ m = M("container", "usage", n, ServiceOf[p], ContainerOf[<<p, c.name>>], p, c.start)
                \/ m = M("container", "rate", n, ServiceOf[p], ContainerOf[<<p, c.name>>], p, c.start)
            BY DEF CtrAbs, CtrRate
        <3>2. m.pod = p /\ m.ctr = ContainerOf[<<p, c.name>>] /\ m.start = c.start
            BY <3>1 DEF M
        <3> QED
            BY <3>2, Zenon
    <2>9. EmitInv'
        <3>1. SUFFICES ASSUME NEW m \in CtrAbs(n) \cup CtrRate(n)
                       PROVE  \E nm \in Names :
                                /\ <<m.pod, nm>> \in DOMAIN ContainerOf
                                /\ ContainerOf[<<m.pod, nm>>] = m.ctr
                                /\ \A i \in DOMAIN SamplesOf[m.pod] :
                                     SamplesOf[m.pod][i].name = nm
                                     => SamplesOf[m.pod][i].start <= m.start
            BY <2>1, Zenon DEF IInv, EmitInv
        <3>2. PICK c \in Resolved(n) :
                m.pod = p /\ m.ctr = ContainerOf[<<p, c.name>>] /\ m.start = c.start
            BY <2>8
        <3>3. c.name \in Names /\ c = f[c.name] /\ <<p, c.name>> \in DOMAIN ContainerOf
            BY <2>4, <2>6
        <3>4. \A i \in DOMAIN SamplesOf[m.pod] :
                SamplesOf[m.pod][i].name = c.name => SamplesOf[m.pod][i].start <= m.start
            BY <2>5, <3>2, <3>3
        <3> QED
            BY <3>2, <3>3, <3>4, Zenon
    <2>10. DOMAIN PodStores(n) \subseteq CtrIDs /\ Values(PodStores(n)) \subseteq Store
        <3>1. ASSUME NEW id \in DOMAIN PodStores(n)
              PROVE  id \in CtrIDs /\ PodStores(n)[id] \in Store
            <4> DEFINE ch == CHOOSE c \in Resolved(n) : ContainerOf[<<p, c.name>>] = id
            <4>1. PICK c0 \in Resolved(n) : id = ContainerOf[<<p, c0.name>>]
                BY DEF PodStores
            <4>2. ch \in Resolved(n)
                BY <4>1, Zenon
            <4>3. PodStores(n)[id] = [svc |-> ServiceOf[p], ctr |-> id, pod |-> p, name |-> ch.name]
                BY DEF PodStores
            <4>4. ch.name \in Names /\ id \in CtrIDs
                BY <2>6, <4>1, <4>2 DEF Sample
            <4> QED
                BY <2>3, <4>3, <4>4 DEF Store
        <3> QED
            BY <3>1, ValuesIn
    <2>11. DOMAIN throttle'[n] \subseteq CtrIDs /\ Values(throttle'[n]) \subseteq Store
        <3>1. throttle'[n] = PutAll(throttle[n], PodStores(n))
            BY <1>0, <2>1
        <3>2. DOMAIN throttle[n] \subseteq CtrIDs /\ Values(throttle[n]) \subseteq Store
            BY DEF IInv, TypeOK
        <3> QED
            BY <2>10, <3>1, <3>2, PutAllIn, Zenon
    <2>12. TypeOK'
        <3>1. metrics' \subseteq Metric
            BY <2>1, <2>7 DEF IInv, TypeOK
        <3>2. curPod' \in [Nodes -> Pods \cup {Nil}] /\ ci' \in [Nodes -> Nat]
              /\ DOMAIN podContainers' = Nodes /\ DOMAIN throttle' = Nodes
            BY <1>0, <2>1
        <3>3. \A k \in Nodes : DOMAIN podContainers'[k] \subseteq Names
                                /\ Values(podContainers'[k]) \subseteq Sample
            BY <1>0, <2>1 DEF IInv, TypeOK, EmptyMap, Values
        <3>4. \A k \in Nodes : DOMAIN throttle'[k] \subseteq CtrIDs
                                /\ Values(throttle'[k]) \subseteq Store
            BY <1>0, <2>1, <2>11 DEF IInv, TypeOK
        <3> QED
            BY <2>1, <3>1, <3>2, <3>3, <3>4 DEF IInv, TypeOK
    <2>13. TriesLeft'
        BY <2>1 DEF IInv, TriesLeft
    <2>14. \A k \in Nodes : curPod'[k] = Nil => DOMAIN podContainers'[k] = {}
        BY <1>0, <2>1 DEF IInv, EmptyMap
    <2>15. \A k \in Nodes : curPod'[k] # Nil => LoopInv(k)'
        BY <1>0, <2>1 DEF IInv, LoopInv
    <2> QED
        BY <2>9, <2>12, <2>13, <2>14, <2>15 DEF IInv
<1>7. ASSUME NEW n \in Nodes, PodsDone(n) PROVE IInv'
    <2>1. TypeOK' /\ TriesLeft'
        BY <1>7 DEF PodsDone, IInv, TypeOK, TriesLeft, Values, TaskStates
    <2> QED
        BY <1>7, <2>1, Zenon DEF PodsDone, IInv, LoopInv, EmitInv
<1>8. ASSUME NEW n \in Nodes, CadvisorAttempt(n) PROVE IInv'
    <2>1. ThrottleMetrics(n) \cup ThrottleRates(n) \subseteq Metric
        <3>1. ASSUME NEW st \in Values(throttle[n]), NEW kd \in {"throttle", "throttle_rate"}
              PROVE  M("container", kd, n, st.svc, st.ctr, st.pod, Nil) \in Metric
            <4>1. st \in Store
                BY DEF IInv, TypeOK
            <4> QED
                BY <4>1 DEF Store, M, Metric, Types, Kinds
        <3> QED
            BY <3>1 DEF ThrottleMetrics, ThrottleRates
    <2>2. \A m \in ThrottleMetrics(n) \cup ThrottleRates(n) :
            m.kind \in {"throttle", "throttle_rate"}
        <3> SUFFICES ASSUME NEW m \in ThrottleMetrics(n) \cup ThrottleRates(n)
                     PROVE  m.kind \in {"throttle", "throttle_rate"}
            OBVIOUS
        <3>1. PICK st \in Values(throttle[n]) :
                \/ m = M("container", "throttle", n, st.svc, st.ctr, st.pod, Nil)
                \/ m = M("container", "throttle_rate", n, st.svc, st.ctr, st.pod, Nil)
            BY DEF ThrottleMetrics, ThrottleRates
        <3> QED
            BY <3>1 DEF M
    <2>3. tries[n] <= MaxRetries /\ tries' = [tries EXCEPT ![n] = Count(tries[n])]
        BY <1>8 DEF CadvisorAttempt, IInv, TriesLeft
    <2>4. TypeOK' /\ TriesLeft'
        <3>1. tries[n] \in 0 .. MaxRetries /\ Count(tries[n]) \in 1 .. MaxRetries + 1
            BY <2>3 DEF IInv, TypeOK, Count, TryBound
        <3>2. tries' \in [Nodes -> 0 .. MaxRetries + 1]
            BY <2>3, <3>1 DEF IInv, TypeOK
        <3>3. pc'[n] = "cadvisor" => tries'[n] <= MaxRetries
            BY <1>8, <2>3, <3>1 DEF CadvisorAttempt, RetriesExhausted, IInv, TypeOK
        <3>4. pc' \in [Nodes -> TaskStates]
            BY <1>8 DEF CadvisorAttempt, IInv, TypeOK, TaskStates
        <3>5. metrics' \subseteq Metric
            BY <1>8, <2>1 DEF CadvisorAttempt, IInv, TypeOK
        <3> QED
            BY <1>8, <2>3, <3>2, <3>3, <3>4, <3>5
               DEF CadvisorAttempt, IInv, TypeOK, TriesLeft, Values
    <2>5. EmitInv'
        BY <1>8, <2>2, Zenon DEF CadvisorAttempt, IInv, EmitInv
    <2> QED
        BY <1>8, <2>4, <2>5 DEF CadvisorAttempt, IInv, LoopInv
<1>9. CASE UNCHANGED vars
    <2>1. UNCHANGED <<phase, pc, tries, absent, todo, curPod, ci, podContainers, throttle, metrics>>
        BY <1>9 DEF vars
    <2>2. TypeOK'
        BY <2>1 DEF IInv, TypeOK, Values
    <2>3. TriesLeft'
        BY <2>1 DEF IInv, TriesLeft
    <2>4. \A n \in Nodes : curPod'[n] # Nil => LoopInv(n)'
        BY <2>1 DEF IInv, LoopInv
    <2>5. EmitInv'
        BY <2>1, Zenon DEF IInv, EmitInv
    <2> QED
        BY <2>1, <2>2, <2>3, <2>4, <2>5, Zenon DEF IInv
<1> QED
    BY <1>1, <1>2, <1>3, <1>4, <1>5, <1>6, <1>7, <1>8, <1>9 DEF Next

(* The loop's invariant, carried to the metrics, is DedupLatest once the  *)
(* container ID names the container: two names of one pod never share an *)
(* ID.                                                                    *)
LEMMA IInvDedupLatest == IInv => DedupLatest
<1> SUFFICES ASSUME IInv,
                    NEW m \in metrics, m.type = "container", m.kind \in {"usage", "rate"},
                    NEW i \in DOMAIN SamplesOf[m.pod],
                    <<m.pod, SamplesOf[m.pod][i].name>> \in DOMAIN ContainerOf,
                    ContainerOf[<<m.pod, SamplesOf[m.pod][i].name>>] = m.ctr
             PROVE  SamplesOf[m.pod][i].start <= m.start
    BY Zenon DEF DedupLatest
<1>1. PICK nm \in Names :
        /\ <<m.pod, nm>> \in DOMAIN ContainerOf
        /\ ContainerOf[<<m.pod, nm>>] = m.ctr
        /\ \A j \in DOMAIN SamplesOf[m.pod] :
             SamplesOf[m.pod][j].name = nm => SamplesOf[m.pod][j].start <= m.start
    BY Zenon DEF IInv, EmitInv
<1>2. SamplesOf[m.pod][i].name = nm
    <2>1. <<m.pod, SamplesOf[m.pod][i].name>> = <<m.pod, nm>>
        BY <1>1
    <2> QED
        BY <2>1
<1> QED
    BY <1>1, <1>2

(* Type correctness of the scrape cycle: the node tasks, their counters,  *)
(* the per-pod maps, the throttle stores and the emitted metrics keep      *)
(* their shapes in every interleaving of the tasks.                       *)
THEOREM TypeCorrect == Spec => []TypeOK
<1>1. Init => IInv
    BY InitIInv
<1>2. IInv /\ [Next]_vars => IInv'
    BY NextIInv
<1>3. IInv => TypeOK
    BY DEF IInv
<1> QED
    BY <1>1, <1>2, <1>3, PTL DEF Spec

(* Spec section 4.3 and scenario 3, for every set of nodes, pods, sample  *)
(* lists and retry bounds: whatever the order of the node tasks, every    *)
(* emitted container measurement carries a sample of its container with   *)
(* the greatest StartTime in its pod's summary (the podContainers loop,   *)
(* kubelet.go 597-609).                                                   *)
THEOREM DedupLatestTheorem == Spec => []DedupLatest
<1>1. Init => IInv
    BY InitIInv
<1>2. IInv /\ [Next]_vars => IInv'
    BY NextIInv
<1>3. IInv => DedupLatest
    BY IInvDedupLatest
<1> QED
    BY <1>1, <1>2, <1>3, PTL DEF Spec

=============================================================================
