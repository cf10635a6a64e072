# Formal models of the Magalix agent

TLA+ models of the metrics pipeline and the Kubernetes-facing parts of the
Magalix cluster agent. The models cover the three source files of this
repository: `src/metrics/kubelet.go`, `src/kuber/kube.go` and
`src/unnamed/part_000` (the agent's `main.go`). The modules are checked with
TLC on small instances. The main safety results are also proved with TLAPS
for every value of the constants.

## 1. Inventory

### Components, their state and operations

| Component | Source | State | Operations |
|---|---|---|---|
| Rate calculator | `kubelet.go` 145-330, 901-930 | `previous`: map key -> `KubeletValue{Timestamp, Value}`, guarded by `previousMutex` | `collectGarbage`, `getPreviousValue`, `calcRate`, `updatePreviousValue`, `addMetricValueRate` |
| Scrape cycle (`GetMetrics`) | `kubelet.go` 146-882 | per cycle: the `metrics` slice (under `metricsMutex`), `rawResponses` (under `rawMutex`), per node `throttleMetrics` | cluster and node emissions from the snapshot; one concurrent task per node (`alltogether.NewConcurrentProcessor`); spec emissions per container; `pr.Do()`; error logging |
| Node task | `kubelet.go` 409-782 | summary bytes, the parsed summary, `throttleMetrics` keyed by container ID | fetch summary with backoff (a 404 counts as `{}`), optional raw copy, unmarshal, node absolutes and rates, per pod: resolve the service, pod network values, de-duplicate containers by name, resolve each container, container values and rate, seed the throttle store; fetch cAdvisor with backoff, decode, fill the throttle store, emit throttle values and rates |
| Scrape backoff | `kubelet.go` 932-968 | the try counter | retry `fn` until success or `try > maxRetries`, sleeping `sleep * ((try-1) % 10 + 1)` |
| Resource listing | `kube.go` 208-537, 545-713 | `pods`, `limitRanges`, `resources`, `rawResources`, guarded by one mutex | eight concurrent list tasks joined by an `errgroup` |
| Secret masking | `kube.go` 574-576 ..., 874-908 | none | `maskPodSpec`, `maskContainers`, `maskEnvVars`, `maskArgs` applied to each listed item |
| Decision executor (Kubernetes side) | `kube.go` 715-872 | the StatefulSet read from the API | `SetResources`: validate, StatefulSet rolling-update guard, build the strategic-merge body, patch |
| Supervisor | `part_000` 110-245 | `gwClient`, `kube`, `entityScanner`, executor, listeners | parse flags, decode the secret, connect, init Kubernetes, scanner, executor, listeners for `Decision` and `Restart`, events, metrics, scalar; deferred `Recover` and `WaitExit` |
| Gateway session | `client` package, not in `src/` | session state, pending requests, listeners | specified in `spec.md` section 4.2 only; its lifecycle is modelled from the spec |
| Topology scanner | `scanner` package, not in `src/` | the snapshot and its indices | specified in `spec.md` section 4.1 only |
| Events, scalar, executor listener | not in `src/` | | out of scope in `spec.md` |

### How the components interact

- The supervisor constructs everything and registers two listeners on the
  gateway session. A `Restart` packet makes the listener call `Done(status)`.
- Every metrics tick the metrics source calls `GetMetrics`. It reads the
  scanner's current node list and applications. It fans out one goroutine per
  node. Each goroutine fetches two kubelet endpoints and appends to the shared
  `metrics` slice. Each goroutine also reads and writes the process-wide rate
  table. The batch goes to the gateway.
- The scanner calls `GetResources` periodically. Eight goroutines list the
  workload kinds and append to one `resources` slice under a mutex.
- The executor calls `SetResources` for every inbound decision.

### What is hard

- **Interleaving.** Node tasks run concurrently and share the rate table. A
  rate is a read-modify-write split over two acquisitions of
  `previousMutex` (`kubelet.go` 182 and 297). Pod and container keys carry no
  node ID (lines 575, 659, 766). Two nodes that list the same pod therefore
  race on one key.
- **Partial failure.** A node task may fail at several points (lines 439,
  458, 702, 707). It keeps what it already stored and skips the rest. The
  cycle still succeeds. `GetResources` returns partial resources together
  with the error.
- **State across cycles.** A rate needs the previous cycle's sample. That
  sample must have been stored even though `calcRate` failed. It must also
  have survived `collectGarbage`.
- **Numeric edges.** `multiplier * (value - previousValue)` is an int64
  product with a multiplier of 1e9 (line 200). The duration guard
  `duration <= 1s` also rejects negative durations (line 190). The backoff
  multiplier wraps at 10, and the retry bound is `try > maxRetry` (lines
  943, 958).
- **Check then act.** `SetResources` reads the StatefulSet, decides, and then
  patches without a precondition (`kube.go` 748-870).
- **Shutdown ordering.** `os.Exit` skips the deferred `Recover` and
  `WaitExit` (`part_000` 170-180).

### What makes each component correct

- Rate calculator: rates only over a baseline younger than the GC horizon;
  a rate for every key that is reported in two consecutive cycles; exact
  arithmetic (no overflow); stored timestamps never go back (spec section 8).
- Scrape cycle: every record carries exactly the IDs its type needs (spec
  section 8); container spec metrics appear even when every node fails; a
  failed node never fails the cycle.
- Node task: one container per name (the latest start wins); throttle
  metrics are attributed to the pod they were measured on.
- Backoff: at most `max_retries` attempts (spec 4.5); the sleep never exceeds
  ten base steps; a 404 ends the retries with an empty payload.
- Resource listing: a resource of every kind that listed successfully; no
  unmasked env value or argument leaves the process (spec section 6).
- Executor: never patches a StatefulSet with more than one replica that is not
  `RollingUpdate` with partition 0; never sends `replicas` <= 0.
- Supervisor: a fatal error after the gateway connected is reported and
  followed by a BYE (spec 4.7); exit 0 only on a Restart with status 0 (spec
  section 6); a decoded Restart ends the process.

## 2. Plan

Modules in the order they are written. The most important behaviour comes
first.

1. `KubeletRate`: the rate table under concurrent node tasks and repeated
   cycles. **Done.** Proofs in `KubeletRateProofs`.
2. `ScrapeCycle`: one `GetMetrics` call at the level of emitted records: the
   snapshot emissions, the node tasks with `withBackoff`, the pods loop, the
   container de-duplication, the throttle store keyed by container ID and the
   cAdvisor step. **Done** (it absorbs the planned `NodeScrape` and
   `Backoff`). Proofs in `ScrapeCycleProofs`.
3. A composition of `ScrapeCycle` with `KubeletRate` through the rate keys
   the tasks emit (not yet written: the two modules share no variables now).
4. `KubeResources`: the eight list tasks, the errgroup, and masking with Go's
   range-copy semantics. **Done.**
5. `SetResources`: the decision guard and the patch body, with a concurrent
   writer of the StatefulSet between the read and the patch. **Done.**
   Proofs in `SetResourcesProofs`.
6. `Supervisor`: the supervisor's start-up and exit paths with their
   deferred calls, composed with the session lifecycle. **Done.** Proofs in
   `SupervisorProofs`.
7. `GatewaySession` (spec-modelled, the `client` package is not in `src/`).
   **Partly done:** the lifecycle the supervisor depends on. Still to do:
   the outbound queue and the backoff, and an abstract specification
   `BatchDelivery` (batches delivered in order, none twice) that the session
   refines.

Runs get one passing configuration per module. A violation run is added only
where the code disagrees with the spec. Theorems to prove, in this order:

- type correctness and `RateWindowBounded` (done);
- the masking invariant for `GetStatefulSet`, the only path that masks (done);
- the refinement `KubeResources => Inventory` and `ResourcesComplete` (done);
- the StatefulSet guard of `SetResources` without a concurrent writer (done);
- the exact effect of a `SetResources` patch (done);
- type correctness and `DedupLatest` of the scrape cycle (done);
- the refinement `GatewaySession => BatchDelivery` (init and step).

## 3. Modules

### `KubeletRate` (rate calculator)

State:

| Variable | Code |
|---|---|
| `previous` | `kubelet.previous`, a Go map from key to `[age, val]`. `age` is `now - Timestamp`. |
| `pending[n]` | the rate keys that node `n`'s task has still to compute in this cycle |
| `inflight[n]` | the outcome of `calcRate` held between `getPreviousValue` and `updatePreviousValue` |
| `batch` | the rates appended to `metrics` in this cycle |
| `phase` | `"idle"` between ticks, `"scrape"` while `GetMetrics` runs |
| `failures` | the number of failed node tasks so far, bounded by `MaxFailures` |

Actions:

- `StartCycle` is the tick and the start of `GetMetrics`. Every age grows by
  `Interval`, `collectGarbage` runs, and the tasks start.
- `RateRead(n)` is the first half of `addMetricValueRate`. It substitutes the
  tick time for a zero timestamp, calls `getPreviousValue` and runs
  `calcRate`. The sample's age `0..MaxLag` covers both a kubelet timestamp
  and the substituted tick time.
- `RateStore(n)` is the second half. `updatePreviousValue` stores the sample
  whatever `calcRate` returned. The rate is appended only when there was no
  error.
- `TaskFail(n)` is a node task returning an error before its remaining
  rates.
- `EndCycle` is `pr.Do()` returning.

Time is kept as ages because the code uses timestamps only through
differences. This keeps the state space finite without a bound on the number
of cycles: `collectGarbage` caps every age at `TTL`. Go's int64 arithmetic
wraps modulo `2 * (MaxInt + 1)`, and its division truncates toward zero.

### `ScrapeCycle` (the metrics scrape cycle)

A metric is a record of its `Type`, a *kind* standing for a group of
measurement names (`usage` for the absolutes of a summary block, `rate` for
its rates, `throttle`, `spec`, `capacity`, `count`), its identifiers
(`node`, `svc` for application and service, `ctr`), and the pod and the
container `StartTime` it came from. Whether `calcRate` yields a given rate
is a free choice here; `KubeletRate` models that.

| Variable | Code |
|---|---|
| `phase` | `"idle"` between ticks, `"scrape"` while `GetMetrics` runs |
| `pc[n]` | where node `n`'s task is: `summary`, `pods`, `cadvisor`, `done`, `failed` |
| `tries[n]` | `withBackoff`'s `try` for the fetch in progress |
| `absent[n]` | `stats/summary` answered "could not find the requested resource" |
| `todo[n]` | the pods of the summary not yet walked |
| `curPod[n]` | the pod whose containers the loop is walking, or `Nil` |
| `ci[n]` | the index into `pod.Containers` of the next container |
| `podContainers[n]` | the `podContainers` map being built, name to sample |
| `throttle[n]` | the task's `throttleMetrics`, container ID to store |
| `metrics` | the cycle's `metrics` slice |

Actions:

- `StartCycle`: the emissions before `pr.Do()` (`ClusterMetrics`, and the
  `SpecMetrics` of every service container) and one task per node.
- `SummaryAttempt(n)`: one `withBackoff` attempt at `stats/summary`. An
  error retries or, once `try > maxRetry`, fails the task. The 404-like
  answer becomes `"{}"`. A malformed body fails the unmarshal. A parsed
  summary emits the node block.
- `PodStep(n)`: the head of one iteration of the pods loop. An unknown pod
  is skipped. A known pod emits its network metrics and starts the
  `podContainers` loop.
- `ContainerStep(n)`: one iteration of the `podContainers` loop
  (kubelet.go:598-608): `Keep` adds the container if its name is new and
  replaces the stored one if it started later.
- `EmitContainers(n)`: the loop over `podContainers`: every name that
  `FindContainer` resolves emits its usage and rate metrics and gets its
  three throttle stores (`PutAll`); the pod is done.
- `PodsDone(n)`: the loop ends; the cAdvisor `withBackoff` starts.
- `CadvisorAttempt(n)`: one attempt at `metrics/cadvisor` and, on success,
  the decode and the emission of every throttle store.
- `EndCycle`: `pr.Do()` returns; errors are only logged.

The `podContainers` loop takes one step per container. It is local to the
node task, so splitting it adds no interleaving the code lacks. The split
makes the loop's invariant a state invariant that TLAPS can use, with no
induction over the slice.
`ScrapeAssumption` includes spec section 3's rule that a container ID
belongs to one container of a service: two names of one pod never resolve
to the same ID.
`withBackoff`'s counter is followed up to `MaxRetries + 2`. A correct
`withBackoff` never gets past `MaxRetries + 1`; a count that would go
further alternates between the two, so that a loop that never gives up is
an endless run of steps rather than a stutter.

### `KubeResources` (the Kubernetes inventory)

A pod spec is reduced to its containers. Each container is a list of env
values and a list of args, and each value is `""`, `"secret"` (any other
string) or the mask token. An object is its name, whether it has owner
references, and its containers. `Listed[t]` is what list call `t` returns.

| Variable | Code |
|---|---|
| `phase` | `"listing"` while `GetResources` waits in `group.Wait()` |
| `status[t]` | goroutine `t`: not started, running, returned `nil`, returned an error |
| `raw` | `rawResources`, task name to stored list |
| `resources` | the `resources` slice, as a set (names are distinct) |
| `err` | the errgroup's first error (the failing task) |
| `sts` | the result of the last `GetStatefulSet`, or `None` |

Actions:

- `GetResources`: the call starts the eight goroutines.
- `ListFail(t)`: the `Get*` call fails and the goroutine returns the error.
  The errgroup keeps the first.
- `ListOk(t)`: under the mutex, the list goes into `rawResources` and its
  top-level items are appended. Pods and ReplicaSets with owner references
  are skipped, and limit ranges append nothing.
- `Wait`: `group.Wait()` returns once no goroutine runs.
- `GetStatefulSet`: fetches one StatefulSet and masks it through the
  pointer, or fails.

`Inventory` is the abstract specification of what `GetResources` promises:
a call starts from nothing and grows its inventory only by objects of the
complete inventory. An error may be recorded at any point. The call
returns with the error or with everything, and a later error does not
replace the first one (errgroup keeps the first). An inventory entry is a
kind and a name. `KubeResources` instantiates it with
`Complete <- SpecInventory`, the spec's entries built straight from the
listing and the ownership rule. It maps `resources` to their entries
(`Entries`) and `phase` and `err` to themselves. What a Resource's pod spec
carries is not part of the contract here; `SecretsNeverLeave` is about it. `GetResources` is `Call`, a workload `ListOk` is `Collect`,
`ListFail` is `Fail` and `Wait` is `Return`. The limit-range task and
`GetStatefulSet` are stutters.

`ListResult(t)` is what `Get*` returns. For the workload kinds, that is the
list after the range loop `for _, item := range list.Items
{ maskPodSpec(&item.Spec.Template.Spec) }` (`RangeMask`). The loop variable
is a copy of the element. A ReplicationController's `Spec.Template` is a
`*PodTemplateSpec`, so the copy shares the template and the list is masked
(`PointerTemplate`). The apps and batch kinds hold the template by value,
so the list is left as it was. For pods, there is no loop and the list is
returned unmasked.

### `SetResources` (the decision executor's patch)

A decision is `TotalResources`: a kind, optional replicas, and the
requirements of some containers by name. `obj[k]` is the workload of kind `k`
on the API server: replicas, update strategy, partition, and per container
the memory (bytes) and CPU (millicores) limits and requests.

| Variable | Code |
|---|---|
| `pc` | `"fetch"` while `GetStatefulSet` is outstanding, `"patch"` while `req.Do()` is |
| `dec` | the `totalResources` argument of the call in progress |
| `body` | the marshalled patch `body` |
| `outcome` | what the last call returned: `"ok"` (`false, nil`), `"skipped"` (`true, err`), `"error"` (`false, err`) |
| `obj` | the objects on the API server |

Actions:

- `SetResources(d)`: the call, with the "nothing to change" check. A
  Deployment goes straight to `Build`.
- `FetchStatefulSet`: `GetStatefulSet` fails, or returns the object; the
  guard skips it or `Build` runs.
- `Build` (part of both): the container loop, which fails on a container
  with no field set, and the body with `replicas` only when positive.
- `Patch`: the API server applies the body (containers merged by name,
  `resources` field by field, quantities parsed back), or the call fails.
- `Write`: another client sets the StatefulSet's replicas, strategy or
  partition. It is enabled only when the constant `Writer` is TRUE.

The API server's side (`StrategicMerge`, `ParseQuantity`, `SuffixScale`) is
not code of this repository and has no entry in the map. `CpuCores` keeps the
float as a numerator and a denominator, and `FormatMemory` keeps the suffix.
`ParseQuantity` scales memory by its suffix (`Mi`, `M` or bytes), so a wrong
divisor or suffix shows up in the parsed value.

### `Supervisor` and `GatewaySession` (start-up and shutdown)

`Supervisor` models `main` in `part_000` step by step. Each step is one
action. Every error path is a disjunct of its step, and it ends in `Exit`,
which is `os.Exit` and runs no deferred call. `GatewaySession` is written
from spec section 4.2, because the `client` package is not in `src/`. It
gives the session operators that the steps of `main` are composed with.

| Variable | Code |
|---|---|
| `pc` | where `main` is: `"args"`, `"secret"`, `"connect"`, `"kube"`, `"decision"`, `"restart"`, `"events"`, `"metrics"`, `"scalar"`, `"wait"` (blocked in the deferred `WaitExit`), `"exited"` |
| `restart` | the status the Restart listener decoded |
| `exitCode` | the process's exit code |
| `session` | the session: none, live, reconnecting, draining, closed, rejected |
| `listeners` | the kinds passed to `AddListener` |
| `bye` | the status of the BYE frame sent |
| `remoteFatal` | a `gwClient.Fatalf` record reached the gateway |
| `dropped` | push kinds that arrived with no listener registered |

Actions: one per step of `main`, from `ParseArgs` to `WaitExit`. `OnRestart(s)`
is the Restart listener on the reader task. It decodes the packet and calls
`Done(s)`. `Session` is the session's own steps: the reader exits after a
drain, a connection drops, and a reconnect is accepted or rejected. It also
drops a push that arrives before its listener is registered.

Supervisor bounds. Restart statuses are 0, 1 and 3. Status 0 is a normal
shutdown, 1 equals the code of a fatal exit, and 3 is any other status.
Every step may fail where the code can, and a Restart, a disconnect or a
rejection may come between any two steps. Deadlock is not checked, because
the process really stops once it has exited.

Supervisor fairness. `main` is weakly fair, because it is one goroutine that
runs whenever it is not blocked. The reader task's exit after a drain is
weakly fair. Pushes, disconnects and rejections are the gateway's and the
network's, and need not happen.

## 4. Runs

| Run | Config | Result | What it shows |
|---|---|---|---|
| `rate_table` | `MC_KubeletRate.cfg` | pass | Two nodes with their own keys, any number of cycles, up to two failed tasks. `RateWindowBounded`: every rate is over a duration in (1 s, 1 h]. `RatesKeepFlowing`: every key gets a rate in infinitely many cycles. |
| `rate_shared_key` | `MC_KubeletRate_shared.cfg` | violation of `TimestampNeverRegresses` | Two nodes report the same pod key in one cycle. The second store carries the older timestamp. |
| `rate_overflow` | `MC_KubeletRate_overflow.cfg` | violation of `RateIsExact` | The int64 product wraps once `multiplier * delta` exceeds `MaxInt`. |
| `scrape_cycle` | `MC_ScrapeCycle.cfg` | pass | `DedupLatest`: of the samples of one container name in a pod, only one with the latest `StartTime` is emitted, with the newer sample first or last in the slice. `TaskTerminates`: every node task returns even when its kubelet keeps failing. |
| `scrape_absent_summary` | `MC_ScrapeCycle_absent.cfg` | violation of `AbsentSummaryEmitsNothing` | An absent summary still yields zero-valued node metrics. |
| `scrape_throttle_replicas` | `MC_ScrapeCycle_throttle.cfg` | violation of `ThrottlePerPod` | Two replicas on one node share one throttle store. |
| `kube_resources` | `MC_KubeResources.cfg` | pass | `ResourcesComplete`: once `group.Wait()` returns without error, the Resources are exactly the listed controllers, orphan pods and unowned ReplicaSets, in every completion order of the eight goroutines. `InventoryRefined`: the module implements `Inventory` (entries grow only by listed objects, the first error is kept, a call without error returns every entry); its mutant reports the last error instead of the first. `StatefulSetMasked`: `GetStatefulSet` returns no original value. |
| `kube_secrets` | `MC_KubeResources_secrets.cfg` | violation of `SecretsNeverLeave` | The lists in `rawResources` and the Resources carry the original env values and args. |
| `setres_effect` | `MC_SetResources.cfg` | pass | `ExactEffect`: every accepted patch sets exactly the decision's values (memory in Mi, CPU in millicores) and a positive replica count, and nothing else, while another client also writes the StatefulSet. |
| `setres_race` | `MC_SetResources_race.cfg` | violation of `PatchRespectsGuard` | Another client switches the StatefulSet to OnDelete (or sets a partition) between `GetStatefulSet` and the patch, and the patch lands. With no other writer `PatchRespectsGuard` holds; that is proved for all constants (`GuardWithoutWriter`) rather than run. |
| `supervisor` | `MC_Supervisor.cfg` | pass | `ExitCodes`: the agent exits with 0 only after a Restart with status 0, in every interleaving of main's start-up, the Restart listener and the session's drain, disconnects and rejections. `RestartTerminates`: once the listener decoded a Restart, the process exits. |
| `supervisor_announce` | `MC_Supervisor_announce.cfg` | violation of `ExitAnnounced` | After connecting, `InitKubernetes` fails and `os.Exit(1)` ends the process with no BYE. |

Bounds and scaling. One tick is 3 time units, the "not newer" gap is 1 unit,
the GC horizon is 6 units and a sample trails its tick by at most 2 units. The
code's ratios are 60 s : 1 s : 3600 s. The model keeps the two orderings
that matter. First, consecutive samples of a key of one node are at least the
gap apart (`Interval - MaxLag = MinGap`), so the "not newer" error of
`calcRate` is reached as well as its success path. Second, an entry survives one missed
cycle or not depending on its lag, so both outcomes of `collectGarbage`
happen. Counter values `0..2` include resets, because every value may follow
every other. In the overflow run, `MaxInt = 7` and the multiplier is 4. The
product wraps for a delta of 2 or more, just as `1e9 * delta` wraps at
`delta > 9.2e9` in the code.

Fairness. `StartCycle` and `EndCycle` are weakly fair because the ticker keeps
firing and `pr.Do()` returns when the tasks finish. Each task's `RateRead`
and `RateStore` are weakly fair because the Go scheduler runs every runnable
goroutine. `TaskFail` is not fair: failures are the environment's choice and
are bounded by `MaxFailures`.

Scrape bounds. `MC_ScrapeCycle` has two nodes. `n1` runs two replicas `p1`
and `p2` of one service whose `web` container is the scanner's `c1`. `p1`
lists `web` twice, older first, and a sidecar `FindContainer` does not know.
`p2` lists `web` twice, newer first. `n2` runs a pod `FindService` does not
know. `MaxRetries = 1`, so both the retry and the give-up paths occur. Every
fetch may error, be absent, be malformed or succeed, so every return point
of a task is reached, in every interleaving of the two tasks. Every action
and every branch fires.

Inventory bounds. `MC_KubeResources` lists one object for each of
controllers, deployments and statefulSets, and two pods and two ReplicaSets
(one owned, one not). The other kinds list nothing. Every object has one
container with a secret and an empty env value, and an empty and a secret
argument, so masking meets both kinds of value. Every goroutine may fail
or succeed, in any order, and `GetStatefulSet` may run at any point. No
fairness is needed: the run checks only invariants.

Executor bounds. `MC_SetResources` has one container. A decision may set
all four fields, only the memory limit, only the CPU request, or none (the
invalid container). Replicas range over unset, 0 (dropped from the body),
1 (not guarded) and 3 (guarded), and partitions over unset, 0 and 1. Every
initial StatefulSet combines these, so each branch of the guard is met.
The model checks only safety, so no fairness is assumed. Deadlock is
checked: a new decision can always arrive.

Scrape fairness. Each task step is weakly fair (the scheduler), as are
`StartCycle` and `EndCycle`. The outcome of a fetch is not: a kubelet may
fail for ever, which is exactly the case `TaskTerminates` is about.

## 5. Findings

- `kubelet.go:297`: the sample is stored even when `calcRate` rejected it as
  not newer. Pod and container keys have no node ID. Two kubelets that still
  list the same pod (for example a StatefulSet pod recreated on another
  node) race on one key. The stored timestamp can go back. Spec section 8
  says it never does (`rate_shared_key`).
- `kubelet.go:200`: `multiplier * (value - previousValue)` overflows int64
  for byte-counter deltas above 9.2 GB per interval. A node at 10 Gbit/s
  moves 75 GB per minute. The rate is then wrong and may be negative
  (`rate_overflow`).
- `kubelet.go:429`: the 404-like summary becomes `"{}"`, which unmarshals to
  a zero summary. The node loop then emits all nine node absolutes as 0, at
  `tickTime`, and rates of 0 against the stored baselines. Spec scenario 4
  says the node contributes no summary-derived metric
  (`scrape_absent_summary`).
- `kubelet.go:672`: `throttleMetrics` is keyed by the scanner's container
  ID, which the replicas of a service share. A second replica on the same
  node replaces the first one's store, and both replicas' cAdvisor values
  land in one store. Spec section 4.3 step 5 emits per (pod UID, container
  name) (`scrape_throttle_replicas`).
- `kube.go:595` (and the same loop at 619, 643, 667 and 691):
  `for _, item := range list.Items { maskPodSpec(&item.Spec...) }` masks
  the loop variable, a copy of the element. For Deployments, StatefulSets,
  DaemonSets, ReplicaSets and CronJobs the pod template is held by value,
  so the list keeps its containers, and `rawResources` and every Resource
  carry the original env values and args. `GetPods` does not mask at all.
  ReplicationControllers are masked, because their template is a pointer,
  and so is `GetStatefulSet`, which masks through the pointer it got. Spec sections 4.1 and 8 say no pod
  spec leaves the process unmasked (`kube_secrets`).
- `kube.go:748`: the StatefulSet guard is checked on the object
  `GetStatefulSet` returned. The patch that follows has no `resourceVersion`
  precondition. A StatefulSet switched to OnDelete, or given a partition, in
  between is patched anyway. Section 4.6 does not say what happens when the
  object changes during the call (`setres_race`).
- `part_000:181` (and `:237`): once `client.InitClient` has connected, the
  error of `InitKubernetes` goes only to the local stderr logger. The error
  of `InitMetrics` goes to `gwClient.Fatalf`. Both paths end in
  `os.Exit(1)`, which runs neither the deferred `Recover` nor `WaitExit`, so
  the gateway gets no BYE. Spec section 4.7 says the supervisor transmits a
  final BYE on fatal errors. The comment at line 122 says all exits are
  controlled by hand so that the bye packet can be sent
  (`supervisor_announce`). The same property also catches the race behind
  line 208: a Restart handled during start-up sends BYE(s), and a later
  `InitMetrics` error exits with 1.

More disagreements were seen while the code was modelled. No run checks
them, because the spec is unclear or the point is minor:

- `kubelet.go:943`: `withBackoff` stops only when `try > maxRetry`, so a
  failing call is tried `maxRetries + 1` times, 6 with the default. Spec
  section 4.5 says up to `max_retries` attempts. A run that showed this was
  retired to make room for the supervisor's runs. `ScrapeCycle`'s `TypeOK`
  still bounds the counter by `MaxRetries + 1`, and its mutant
  `RetriesLate` shows that the bound is tight.

- `kubelet.go:800`: the request/limit metrics of every service container
  are emitted as `PodContainer` with `NodeID = uuid.Nil`. Spec section 8
  asks for all four identifiers on a PodContainer metric. These metrics
  describe a service's spec, not a pod on a node.
- `kube.go:905`: `maskArgs` replaces every argument, empty ones included,
  while `maskEnvVars` keeps empty values. Spec section 8 allows the token
  only in place of a non-empty value. Section 6 says all arguments are
  replaced.

## 6. Proofs

`KubeletRateProofs` proves `TypeCorrect` (`Spec => []TypeOK`) and
`RateWindowTheorem` (`Spec => []RateWindowBounded`). The proofs assume only
the `ASSUME`s of `KubeletRate`: the constants are naturals, a sample trails
its tick by less than one interval, and by no more than the GC horizon.
`RateWindowBounded` is not inductive on its own. The inductive invariant
`IInv` is `TypeOK /\ InflightBounded /\ RateWindowBounded`. `TypeOK`
already carries the age bound: a stored entry is in `Entry`, whose age is at
most `TTL`, because `StartCycle` ages and then collects, and a store writes an
age of at most `MaxLag <= TTL`. It adds:

- `InflightBounded`: an outcome read but not yet stored already satisfies
  the bound. `RateStore` emits exactly that outcome.

Lemmas: `MapPutType` (Go map assignment), `RestrictFacts` (deleting keys),
`ArithType` (wrapped product and truncated quotient are integers) and
`CalcRateFacts` (the outcome of `calcRate` is well typed and bounded).

`SetResourcesProofs` proves `GuardWithoutWriter`: with `Writer = FALSE`,
`Spec => PatchRespectsGuard`, for any containers, decisions, replica
counts and partitions. The action property speaks of the object when the
patch lands, while the guard looked at the object when it was read. The
inductive invariant `GuardedPending` says that a pending StatefulSet patch
passes the guard on the object as it now stands. `FetchStatefulSet`
establishes it. Only `Patch`, which ends the call, and `Write`, which is
disabled, change the object. The lemma `GuardSound` says that what
`Skipped` lets through is what section 4.6 allows. The `setres_race` run
shows that the hypothesis `Writer = FALSE` cannot be dropped.

`SetResourcesProofs` also proves `ExactEffectTheorem`: `Spec => ExactEffect`,
with or without the other writer. The argument has two parts:

- The lemma `MergeExact` says that merging `Body(d)` into any object gives
  `SpecEffect(o, d)`. It rests on `EntryFacts` and `ParseEncode`.
  `EntryFacts`: the resources map has one entry for each field the decision
  sets, and that entry carries the field's encoding. `ParseEncode`:
  `"{n}Mi"` parses to `n * Mi` bytes, and `m / 1000` cores parse to `m`
  millicores.
- The invariant `PendingBody` says that a pending patch carries
  `Body(dec)`, and that no outcome has been set yet. The second half is
  needed because `Write` may act while a patch is pending.

The assumption that `Nil` differs from the outcome strings is needed here.

`KubeResourcesProofs` proves three theorems for any listing that satisfies
`ListedAssumption`:

- `Refinement`: `Spec => InventoryRefined`.
- `ResourcesCompleteTheorem`: `Spec => []ResourcesComplete`.
- `StatefulSetMaskedTheorem`: `Spec => []StatefulSetMasked`.

The first two rest on the inductive invariant `InvOk`. It says that
`resources` is the union of the Resources of the tasks that returned nil,
and that `err = None` exactly when no task returned an error. It also
relates each phase to the task statuses. With it, `Wait` without an error
has seen every task return nil. By `AllTasksComplete`, the entries of the
union over every task are `SpecInventory`: the owner filter is the spec's,
and `maskPodSpec` keeps an object's name and owner references
(`MaskKeepsName`), so masked and unmasked lists give the same entries.
`EntriesCup` carries a `Collect` step over to the entries, and
`NamesOfKind` shows that `ResourcesComplete`'s name sets are the same in
the resources and their entries. `KindSlice` uses the fact that no
two tasks share a kind to cut `SpecInventory` into the per-kind name sets
of `ResourcesComplete`. The third theorem rests on `MaskedSts`, which says
that the result of `GetStatefulSet` is a listed object after
`MaskPodSpec`. It also uses `MaskedValues`: every value in a masked
container list is the token or empty.

`SupervisorProofs` proves `ExitCodesTheorem`, `Spec => []ExitCodes`, for
any set of Restart statuses. `ExitCodes` alone is not inductive. A
`WaitExit` step takes the exit code from the BYE frame, and the property
speaks of the Restart the listener decoded. The inductive invariant `IInv`
adds `TypeOK` and `bye = restart`, which holds because only the Restart
listener calls `Done`. The step proof has one case per action of `main`, one
for the listener and one for the session's own steps. The `os.Exit` paths
set codes 1 and 2, and `SupervisorAssumption` (statuses are naturals, `Nil`
is not) keeps them apart from `Nil`.

`ScrapeCycleProofs` proves `TypeCorrect` (`Spec => []TypeOK`) and
`DedupLatestTheorem` (`Spec => []DedupLatest`) for any nodes, pods, samples
and retry budget. Neither is inductive alone. The inductive invariant
`IInv` (TLC checks it on the `scrape_cycle` instance) has four more parts:
- `TriesLeft`: a task still fetching has `tries <= MaxRetries`. This keeps
  the counter within `0 .. MaxRetries + 1` across a failed attempt.
- With no pod in hand, `podContainers[n]` is empty.
- `LoopInv(n)`: while the loop walks pod `p` at index `ci[n]`, every key of
  `podContainers[n]` names its own sample. Every container before `ci[n]`
  has its name in the map, with a sample started no earlier than itself.
- `EmitInv`: every container metric has a name that resolves to its
  container ID, and no sample of that name in the pod started later.
`EmitContainers` keeps `EmitInv` because `LoopInv` holds at the end of the
slice. Because IDs are unique per pod, the resolved name is the only name
with that ID, so `EmitInv` gives `DedupLatest`. The proof rests on the
lemmas `KeepLemma` (one `Keep` step) and `LoopStep` (one loop iteration
keeps `LoopInv`), plus `ValuesIn` and `PutAllIn` about the map helpers.

`PatchRespectsGuard` without another writer is proved by `GuardWithoutWriter`
and is no longer run. Its only run is `setres_race`, the violation with a
writer.

Only TLC checks these:
- the liveness properties `RatesKeepFlowing`, `TaskTerminates` and
  `RestartTerminates`, because TLAPS does not handle liveness under
  fairness;
- the violation runs.

## 7. Not modelled

- Flag parsing, logging, `InitKubernetes` configuration: configuration
  plumbing with no state machine. `InitKubernetes` logs the bearer token at
  debug level (kube.go:152); this is listed as a hazard, but no property
  covers it, because logging is not modelled.
- Panics in `main` after the defers were registered. Only the flag
  parsing panics in code that is in `src/`. A panic in `utils` would reach
  the deferred `Recover`, which sends BYE(fatal).
- The gateway session beyond its lifecycle: framing, request and response
  matching, the outbound queue and the backoff delays. The lifecycle is in
  `GatewaySession`.
- The scanner, events and scalar: not in `src/`.
- JSON and Prometheus parsing: abstracted to "the document parses or it does
  not".
