---------------------------- MODULE KubeletRate ----------------------------
(***************************************************************************)
(* The rate table of the kubelet metrics source (src/metrics/kubelet.go).  *)
(*                                                                         *)
(* Every metrics tick GetMetrics first runs collectGarbage on the          *)
(* process-wide table `previous` (key -> KubeletValue{Timestamp, Value}),  *)
(* then fans out one concurrent task per node.  A task turns cumulative    *)
(* counters into per-second rates with addMetricValueRate: calcRate reads  *)
(* the previous sample under previousMutex (getPreviousValue), computes    *)
(* the rate, and only then updatePreviousValue stores the new sample under *)
(* a second, separate acquisition of the mutex.  The rate is appended to   *)
(* the cycle's batch only when calcRate did not fail.  A task may fail     *)
(* (fetch retries exhausted, unmarshal error) and then skips the rest of   *)
(* its node.  GetMetrics returns when every task has finished.             *)
(*                                                                         *)
(* Time.  The code only ever uses timestamps through differences           *)
(* (`timestamp - previous.Timestamp` in calcRate, `time.Now() -            *)
(* previous.Timestamp` in collectGarbage), so a stored timestamp is kept   *)
(* as its age, now - Timestamp.  A tick adds Interval to every age.        *)
(* Counter values are 0..MaxValue; Go's int64 arithmetic is kept with a    *)
(* scaled width: it wraps modulo 2 * (MaxInt + 1).                         *)
(***************************************************************************)
EXTENDS Integers, Functions

CONSTANTS
    Nodes,        \* the nodes of the snapshot, one scrape task each
    Keys,         \* rate-table keys, as built by getKey
    ReportsOf,    \* ReportsOf[n]: the rate keys node n's summary yields
    Multiplier,   \* Multiplier[k]: the multiplier passed for key k
    MaxValue,     \* cumulative counter values range over 0..MaxValue
    MaxInt,       \* math.MaxInt64, scaled
    MinGap,       \* time.Second: a duration <= MinGap is "not newer"
    Interval,     \* --metrics-interval, the time between two GetMetrics
    TTL,          \* time.Hour: collectGarbage drops entries older than it
    MaxLag,       \* how far a sample's timestamp trails the tick
    MaxFailures   \* bound on the node tasks that fail in one behaviour

ASSUME ReportsAssumption == ReportsOf \in [Nodes -> SUBSET Keys]
ASSUME MultiplierAssumption == Multiplier \in [Keys -> Nat \ {0}]
ASSUME ValueAssumption == MaxValue \in Nat
ASSUME MaxIntAssumption == MaxInt \in Nat \ {0}
ASSUME TimeAssumption ==
    /\ MinGap \in Nat /\ Interval \in Nat /\ TTL \in Nat /\ MaxLag \in Nat
    \* a sample of one tick is newer than every sample of the tick before
    /\ MaxLag < Interval
    \* kubelet stamps a sample less than a GC horizon before the tick
    /\ MaxLag <= TTL
ASSUME FailureAssumption == MaxFailures \in Nat

VARIABLES
    previous,   \* kubelet.previous: key -> [age, val] (a Go map)
    pending,    \* pending[n]: rate keys node n's task has yet to compute
    inflight,   \* inflight[n]: calcRate's outcome, read but not yet stored
    batch,      \* the rates appended to `metrics` in the current cycle
    phase,      \* "idle" between ticks, "scrape" while GetMetrics runs
    failures    \* node tasks that have failed so far (bounded)

vars == <<previous, pending, inflight, batch, phase, failures>>

Values == 0 .. MaxValue
Lags == 0 .. MaxLag

(* A stored KubeletValue, its Timestamp as an age; collectGarbage keeps    *)
(* every entry within the GC horizon.                                      *)
Entry == [age : 0 .. TTL, val : Values]

(* The outcome of calcRate for one sample of one key: ok is err == nil.    *)
(* dt and base are the duration and the previous value calcRate used.      *)
RateRecord ==
    [node : Nodes, key : Keys, age : Lags, val : Values,
     ok : BOOLEAN, dt : Int, base : Values, rate : Int]

(* The map `previous` holds an entry for a key once it has been stored.    *)
Stored(k) == k \in DOMAIN previous

(* Go's int64 arithmetic wraps around.                                     *)
Wrap(x) == ((x + MaxInt + 1) % (2 * (MaxInt + 1))) - (MaxInt + 1)

(* Go's integer division truncates toward zero.                            *)
Quot(a, b) == IF a >= 0 THEN a \div b ELSE -((-a) \div b)

(* Assignment m[k] = e to the Go map m.                                    *)
MapPut(m, k, e) == [x \in DOMAIN m \cup {k} |-> IF x = k THEN e ELSE m[x]]

(* A variant of collectGarbage that forgets to delete anything.            *)
CollectGarbageNever(table) == table

(* collectGarbage: delete every entry older than TTL.                      *)
CollectGarbage(table) == Restrict(table, {k \in DOMAIN table : table[k].age <= TTL})

(* One tick: the clock advances by Interval, so every entry ages.          *)
Tick(table) == [k \in DOMAIN table |-> [table[k] EXCEPT !.age = @ + Interval]]

(* A variant of calcRate's "not newer" test that is off by one.          *)
NotNewerLoose(dt) == dt < MinGap

(* calcRate's "timestamp less than or equal previous one" test.            *)
NotNewer(dt) == dt <= MinGap

(* calcRate(key, timestamp, value, multiplier) for a sample of age lag     *)
(* and value v of key k of node n, against the current table.              *)
CalcRate(n, k, lag, v) ==
    LET prev == previous[k]
        dt   == prev.age - lag
        base == IF prev.val > v THEN 0 ELSE prev.val
        rec(ok, d, b, r) ==
            [node |-> n, key |-> k, age |-> lag, val |-> v,
             ok |-> ok, dt |-> d, base |-> b, rate |-> r]
    IN  IF ~Stored(k) THEN rec(FALSE, 0, 0, 0)          \* "No previous value"
        ELSE IF NotNewer(dt) THEN rec(FALSE, dt, base, 0)
        ELSE rec(TRUE, dt, base, Quot(Wrap(Multiplier[k] * (v - base)), dt))

-----------------------------------------------------------------------------

Init ==
    /\ previous = [k \in {} |-> 0]   \* NewKubelet: map[string]KubeletValue{}
    /\ pending = [n \in Nodes |-> {}]
    /\ inflight = [n \in {} |-> 0]
    /\ batch = {}
    /\ phase = "idle"
    /\ failures = 0

(* The ticker fires and GetMetrics starts: collectGarbage on the aged      *)
(* table, a fresh metrics slice, and one task per node of the snapshot.   *)
StartCycle ==
    /\ phase = "idle"
    /\ previous' = CollectGarbage(Tick(previous))
    /\ pending' = ReportsOf
    /\ batch' = {}
    /\ phase' = "scrape"
    /\ UNCHANGED <<inflight, failures>>

(* addMetricValueRate, first half: a zero timestamp is replaced by the     *)
(* tick time (age 0..MaxLag covers both), getPreviousValue reads the       *)
(* entry under previousMutex and calcRate computes the outcome.           *)
RateRead(n) ==
    /\ phase = "scrape"
    /\ n \notin DOMAIN inflight
    /\ \E k \in pending[n], lag \in Lags, v \in Values :
          /\ pending' = [pending EXCEPT ![n] = @ \ {k}]
          /\ inflight' = MapPut(inflight, n, CalcRate(n, k, lag, v))
    /\ UNCHANGED <<previous, batch, phase, failures>>

(* A variant of RateRead's second half that stores the sample only when   *)
(* the rate could be computed.                                            *)
RateStoreOnSuccess(n) ==
    /\ n \in DOMAIN inflight
    /\ LET r == inflight[n] IN
         /\ previous' = IF r.ok THEN MapPut(previous, r.key, [age |-> r.age, val |-> r.val])
                        ELSE previous
         /\ batch' = IF r.ok THEN batch \cup {r} ELSE batch
    /\ inflight' = Restrict(inflight, DOMAIN inflight \ {n})
    /\ UNCHANGED <<pending, phase, failures>>

(* addMetricValueRate, second half: updatePreviousValue stores the new     *)
(* sample unconditionally, under a second acquisition of previousMutex;   *)
(* on error the rate is dropped, otherwise addMetricValue appends it.     *)
RateStore(n) ==
    /\ n \in DOMAIN inflight
    /\ LET r == inflight[n] IN
         /\ previous' = MapPut(previous, r.key, [age |-> r.age, val |-> r.val])
         /\ batch' = IF r.ok THEN batch \cup {r} ELSE batch
    /\ inflight' = Restrict(inflight, DOMAIN inflight \ {n})
    /\ UNCHANGED <<pending, phase, failures>>

(* A node task returns an error (summary or cAdvisor retries exhausted,   *)
(* unmarshal failure) and computes none of its remaining rates.           *)
TaskFail(n) ==
    /\ phase = "scrape"
    /\ n \notin DOMAIN inflight
    /\ pending[n] # {}
    /\ failures < MaxFailures
    /\ pending' = [pending EXCEPT ![n] = {}]
    /\ failures' = failures + 1
    /\ UNCHANGED <<previous, inflight, batch, phase>>

(* pr.Do() returns once every node task has finished; node errors are     *)
(* only logged and GetMetrics returns the collected batch.                *)
EndCycle ==
    /\ phase = "scrape"
    /\ \A n \in Nodes : pending[n] = {}
    /\ DOMAIN inflight = {}
    /\ phase' = "idle"
    /\ UNCHANGED <<previous, pending, inflight, batch, failures>>

Next ==
    \/ StartCycle
    \/ EndCycle
    \/ \E n \in Nodes : RateRead(n) \/ RateStore(n) \/ TaskFail(n)

(* The ticker keeps firing and the Go scheduler runs every runnable task. *)
Fairness ==
    /\ WF_vars(StartCycle)
    /\ WF_vars(EndCycle)
    /\ \A n \in Nodes : WF_vars(RateRead(n)) /\ WF_vars(RateStore(n))

Spec == Init /\ [][Next]_vars /\ Fairness

-----------------------------------------------------------------------------

TypeOK ==
    /\ DOMAIN previous \subseteq Keys
    /\ \A k \in DOMAIN previous : previous[k] \in Entry
    /\ pending \in [Nodes -> SUBSET Keys]
    /\ DOMAIN inflight \subseteq Nodes
    /\ \A n \in DOMAIN inflight : inflight[n] \in RateRecord
    /\ batch \subseteq RateRecord
    /\ phase \in {"idle", "scrape"}
    /\ failures \in 0 .. MaxFailures

(* A rate is never averaged over more than the GC horizon: collectGarbage *)
(* runs before the node tasks, so every rate addMetricValueRate emits was *)
(* computed over a duration in (time.Second, time.Hour].                  *)
RateWindowBounded ==
    \A r \in batch : MinGap < r.dt /\ r.dt <= TTL

(* Rates keep flowing: for every key a node reports, a rate for it is     *)
(* emitted in infinitely many cycles (calcRate fails on a key's first     *)
(* sample, but the sample is stored, so the next cycle can compute it).   *)
RatesKeepFlowing ==
    \A n \in Nodes : \A k \in ReportsOf[n] : []<>(\E r \in batch : r.key = k)

(* Spec section 4.4 and the reset law of section 8: the emitted rate is   *)
(* multiplier * (v1 - v0) / dt over the integers, with v0 = 0 after a     *)
(* counter reset.                                                         *)
RateIsExact ==
    \A r \in batch : r.rate = (Multiplier[r.key] * (r.val - r.base)) \div r.dt

(* Spec section 8: for any rate-table key, stored timestamps never        *)
(* decrease while GetMetrics runs (a store replaces an entry only with a  *)
(* sample at least as new, i.e. of no greater age).                       *)
TimestampNeverRegresses ==
    [][\A k \in Keys :
         (Stored(k) /\ phase = "scrape" /\ phase' = "scrape")
            => previous'[k].age <= previous[k].age]_vars

=============================================================================
