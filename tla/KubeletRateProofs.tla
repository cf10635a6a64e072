------------------------- MODULE KubeletRateProofs -------------------------
(***************************************************************************)
(* Proofs about the kubelet rate table, for every value of the constants  *)
(* that satisfies the assumptions of KubeletRate.                         *)
(*                                                                         *)
(* RateWindowBounded is not inductive by itself: a rate is emitted by      *)
(* RateStore from the outcome RateRead computed earlier.  IInv adds that   *)
(* outcome's bound; RateRead's duration is bounded because TypeOK keeps    *)
(* every stored entry younger than TTL.                                    *)
(***************************************************************************)
EXTENDS KubeletRate, TLAPS

(* An outcome read but not yet stored satisfies the bound it will be      *)
(* emitted with.                                                          *)
InflightBounded ==
    \A n \in DOMAIN inflight :
        inflight[n].ok => MinGap < inflight[n].dt /\ inflight[n].dt <= TTL

IInv == TypeOK /\ InflightBounded /\ RateWindowBounded

USE ReportsAssumption, MultiplierAssumption, ValueAssumption,
    MaxIntAssumption, TimeAssumption, FailureAssumption

-----------------------------------------------------------------------------

(* Assigning a key of S a value of T keeps a map from part of S into T.    *)
LEMMA MapPutType ==
    ASSUME NEW m, NEW k, NEW e, NEW S, NEW T,
           DOMAIN m \subseteq S, \A x \in DOMAIN m : m[x] \in T,
           k \in S, e \in T
    PROVE  /\ DOMAIN MapPut(m, k, e) \subseteq S
           /\ \A x \in DOMAIN MapPut(m, k, e) : MapPut(m, k, e)[x] \in T
           /\ MapPut(m, k, e)[k] = e
           /\ \A x \in DOMAIN m \ {k} : MapPut(m, k, e)[x] = m[x]
  BY DEF MapPut

(* Removing keys keeps the remaining values.                               *)
LEMMA RestrictFacts ==
    ASSUME NEW m, NEW D, D \subseteq DOMAIN m
    PROVE  /\ DOMAIN Restrict(m, D) = D
           /\ \A x \in D : Restrict(m, D)[x] = m[x]
  BY DEF Restrict

(* Go's wrapped product and truncated quotient are integers.               *)
LEMMA ArithType ==
    ASSUME NEW x \in Int, NEW d \in Int, d > 0
    PROVE  Quot(Wrap(x), d) \in Int
  <1>1. Wrap(x) \in Int
    BY DEF Wrap
  <1>2. QED
    BY <1>1 DEF Quot

(* calcRate yields a well-typed outcome, and an outcome without error has  *)
(* a duration in (MinGap, TTL].                                           *)
LEMMA CalcRateFacts ==
    ASSUME TypeOK,
           NEW n \in Nodes, NEW k \in Keys, NEW lag \in Lags, NEW v \in Values
    PROVE  /\ CalcRate(n, k, lag, v) \in RateRecord
           /\ CalcRate(n, k, lag, v).ok =>
                 /\ MinGap < CalcRate(n, k, lag, v).dt
                 /\ CalcRate(n, k, lag, v).dt <= TTL
  <1>1. CASE ~Stored(k)
    BY <1>1 DEF CalcRate, NotNewer, RateRecord, Values, Lags
  <1>2. CASE Stored(k)
    <2>1. previous[k] \in Entry
      BY <1>2 DEF TypeOK, Stored
    <2>2. previous[k].age - lag \in Int /\ previous[k].age - lag <= TTL
      BY <2>1 DEF Entry, Lags
    <2>3. (IF previous[k].val > v THEN 0 ELSE previous[k].val) \in Values
      BY <2>1 DEF Entry, Values
    <2>4. previous[k].age - lag > MinGap =>
             Quot(Wrap(Multiplier[k] * (v - (IF previous[k].val > v THEN 0 ELSE previous[k].val))),
                  previous[k].age - lag) \in Int
      <3>1. Multiplier[k] * (v - (IF previous[k].val > v THEN 0 ELSE previous[k].val)) \in Int
        BY <2>3 DEF Values
      <3>2. QED
        BY <3>1, <2>2, ArithType
    <2>5. QED
      BY <1>2, <2>2, <2>3, <2>4 DEF CalcRate, NotNewer, RateRecord, Lags, Values
  <1>3. QED
    BY <1>1, <1>2

-----------------------------------------------------------------------------

LEMMA InitIInv == Init => IInv
  BY DEF Init, IInv, TypeOK, InflightBounded, RateWindowBounded

LEMMA NextIInv == IInv /\ [Next]_vars => IInv'
  <1> SUFFICES ASSUME IInv, [Next]_vars PROVE IInv'
    OBVIOUS
  <1>0. TypeOK /\ InflightBounded /\ RateWindowBounded
    BY DEF IInv
  <1>1. CASE StartCycle
    <2> DEFINE aged == Tick(previous)
               kept == {k \in DOMAIN aged : aged[k].age <= TTL}
    <2>1. DOMAIN aged = DOMAIN previous
          /\ \A k \in DOMAIN aged : aged[k] \in [age : Nat, val : Values]
      BY <1>0 DEF Tick, TypeOK, Entry
    <2>2. previous' = Restrict(aged, kept)
      BY <1>1 DEF StartCycle, CollectGarbage
    <2>3. DOMAIN previous' = kept /\ \A k \in kept : previous'[k] = aged[k]
      BY <2>2, RestrictFacts
    <2>4. TypeOK'
      BY <1>0, <1>1, <2>1, <2>3 DEF StartCycle, TypeOK, Entry
    <2>6. InflightBounded' /\ RateWindowBounded'
      BY <1>0, <1>1 DEF StartCycle, InflightBounded, RateWindowBounded
    <2>7. QED
      BY <2>4, <2>6 DEF IInv
  <1>2. CASE EndCycle
    BY <1>0, <1>2 DEF EndCycle, IInv, TypeOK, InflightBounded, RateWindowBounded
  <1>3. ASSUME NEW n \in Nodes, RateRead(n) PROVE IInv'
    <2>1. PICK k \in pending[n], lag \in Lags, v \in Values :
             /\ pending' = [pending EXCEPT ![n] = @ \ {k}]
             /\ inflight' = MapPut(inflight, n, CalcRate(n, k, lag, v))
      BY <1>3 DEF RateRead
    <2>2. k \in Keys
      BY <1>0 DEF TypeOK
    <2>3. /\ CalcRate(n, k, lag, v) \in RateRecord
          /\ CalcRate(n, k, lag, v).ok =>
                /\ MinGap < CalcRate(n, k, lag, v).dt
                /\ CalcRate(n, k, lag, v).dt <= TTL
      BY <1>0, <2>2, CalcRateFacts
    <2>4. /\ DOMAIN inflight' \subseteq Nodes
          /\ \A x \in DOMAIN inflight' : inflight'[x] \in RateRecord
          /\ inflight'[n] = CalcRate(n, k, lag, v)
          /\ \A x \in DOMAIN inflight \ {n} : inflight'[x] = inflight[x]
      BY <1>0, <2>1, <2>3, MapPutType DEF TypeOK
    <2>5. DOMAIN inflight' = DOMAIN inflight \cup {n}
      BY <2>1 DEF MapPut
    <2>6. TypeOK'
      BY <1>0, <1>3, <2>1, <2>4 DEF RateRead, TypeOK
    <2>7. InflightBounded'
      BY <1>0, <2>3, <2>4, <2>5 DEF InflightBounded
    <2>8. QED
      BY <1>0, <1>3, <2>6, <2>7 DEF RateRead, IInv, RateWindowBounded
  <1>4. ASSUME NEW n \in Nodes, RateStore(n) PROVE IInv'
    <2> DEFINE r == inflight[n]
    <2>1. n \in DOMAIN inflight /\ r \in RateRecord
      BY <1>0, <1>4 DEF RateStore, TypeOK
    <2>2. previous' = MapPut(previous, r.key, [age |-> r.age, val |-> r.val])
      BY <1>4 DEF RateStore
    <2>3. [age |-> r.age, val |-> r.val] \in Entry
      BY <2>1 DEF RateRecord, Entry, Lags
    <2>4. /\ DOMAIN previous' \subseteq Keys
          /\ \A x \in DOMAIN previous' : previous'[x] \in Entry
          /\ previous'[r.key] = [age |-> r.age, val |-> r.val]
          /\ \A x \in DOMAIN previous \ {r.key} : previous'[x] = previous[x]
      BY <1>0, <2>1, <2>2, <2>3, MapPutType DEF TypeOK, RateRecord
    <2>5. DOMAIN previous' = DOMAIN previous \cup {r.key}
      BY <2>2 DEF MapPut
    <2>7. inflight' = Restrict(inflight, DOMAIN inflight \ {n})
      BY <1>4 DEF RateStore
    <2>8. DOMAIN inflight' = DOMAIN inflight \ {n}
          /\ \A x \in DOMAIN inflight' : inflight'[x] = inflight[x]
      BY <2>7, RestrictFacts
    <2>9. batch' = IF r.ok THEN batch \cup {r} ELSE batch
      BY <1>4 DEF RateStore
    <2>10. TypeOK'
      BY <1>0, <1>4, <2>1, <2>4, <2>8, <2>9 DEF RateStore, TypeOK
    <2>11. InflightBounded'
      BY <1>0, <2>8 DEF InflightBounded
    <2>12. RateWindowBounded'
      BY <1>0, <2>1, <2>9 DEF InflightBounded, RateWindowBounded
    <2>13. QED
      BY <2>10, <2>11, <2>12 DEF IInv
  <1>5. ASSUME NEW n \in Nodes, TaskFail(n) PROVE IInv'
    BY <1>0, <1>5 DEF TaskFail, IInv, TypeOK, InflightBounded, RateWindowBounded
  <1>6. CASE UNCHANGED vars
    BY <1>0, <1>6 DEF vars, IInv, TypeOK, InflightBounded, RateWindowBounded
  <1>7. QED
    BY <1>1, <1>2, <1>3, <1>4, <1>5, <1>6 DEF Next

-----------------------------------------------------------------------------

(* The type invariant of the rate table holds in every reachable state.   *)
THEOREM TypeCorrect == Spec => []TypeOK
  <1>1. IInv => TypeOK
    BY DEF IInv
  <1>2. QED
    BY InitIInv, NextIInv, <1>1, PTL DEF Spec

(* Every rate GetMetrics emits was computed over a duration longer than    *)
(* time.Second and no longer than the one-hour GC horizon, for every       *)
(* number of nodes and keys, every interval and every horizon.            *)
THEOREM RateWindowTheorem == Spec => []RateWindowBounded
  <1>1. IInv => RateWindowBounded
    BY DEF IInv
  <1>2. QED
    BY InitIInv, NextIInv, <1>1, PTL DEF Spec

=============================================================================
