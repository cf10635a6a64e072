------------------------ MODULE SetResourcesProofs ------------------------
(***************************************************************************)
(* The StatefulSet guard of SetResources, for every value of the          *)
(* constants, when no other client writes the StatefulSet.                *)
(*                                                                         *)
(* PatchRespectsGuard speaks of the object when the patch lands, the guard *)
(* of the object GetStatefulSet read.  GuardedPending bridges the two: a   *)
(* patch pending for a StatefulSet was built from a read that passed the  *)
(* guard, and only Patch itself (and the other client's Write) changes    *)
(* the object, so the read is still the object's state.                  *)
(***************************************************************************)
EXTENDS SetResources, TLAPS

(* A StatefulSet patch waiting to be sent is one the guard lets through   *)
(* on the object as it now stands.                                        *)
GuardedPending ==
    pc = "patch" /\ dec.kind = "StatefulSet" => ~Skipped(obj["StatefulSet"])

(* What the guard lets through is what section 4.6 allows.               *)
LEMMA GuardSound ==
    ASSUME NEW o, ~Skipped(o)
    PROVE  GuardHolds(o)
  BY DEF Skipped, GuardHolds

(* Without a second writer every step keeps GuardedPending.              *)
LEMMA GuardedPendingStep ==
    ASSUME ~Writer, GuardedPending, [Next]_vars
    PROVE  GuardedPending'
  <1>1. CASE \E d \in Decision : SetResources(d)
    <2>1. PICK d \in Decision : SetResources(d)
      BY <1>1
    <2>2. CASE Invalid(d) /\ outcome' = "error" /\ UNCHANGED <<pc, dec, body>>
      BY <2>1, <2>2 DEF SetResources, GuardedPending
    <2>3. CASE ~Invalid(d) /\ d.kind = "StatefulSet" /\ pc' = "fetch"
      BY <2>3 DEF GuardedPending
    <2>4. CASE ~Invalid(d) /\ d.kind # "StatefulSet" /\ Build(d)
      BY <2>1, <2>4 DEF Build, GuardedPending
    <2>5. QED
      BY <2>1, <2>2, <2>3, <2>4 DEF SetResources
  <1>2. CASE FetchStatefulSet
    BY <1>2 DEF FetchStatefulSet, Build, GuardedPending
  <1>3. CASE Patch
    BY <1>3 DEF Patch, GuardedPending
  <1>4. CASE Write
    BY <1>4 DEF Write
  <1>5. CASE UNCHANGED vars
    BY <1>5 DEF vars, GuardedPending
  <1>6. QED
    BY <1>1, <1>2, <1>3, <1>4, <1>5 DEF Next

(* Without a second writer, every patch SetResources gets applied to a    *)
(* StatefulSet finds it in a state the guard admits.                      *)
THEOREM GuardWithoutWriter ==
    ASSUME ~Writer
    PROVE  Spec => PatchRespectsGuard
  <1>1. Init => GuardedPending
    BY DEF Init, GuardedPending
  <1>2. GuardedPending /\ [Next]_vars => GuardedPending'
    BY GuardedPendingStep
  <1>3. GuardedPending =>
          [pc = "patch" /\ outcome' = "ok" /\ dec.kind = "StatefulSet"
             => GuardHolds(obj["StatefulSet"])]_vars
    BY GuardSound DEF GuardedPending
  <1>4. QED
    BY <1>1, <1>2, <1>3, PTL DEF Spec, PatchRespectsGuard

-----------------------------------------------------------------------------
(* The patch body and the API server's merge.                             *)

(* The resources map has an entry for a field exactly when the decision  *)
(* sets it, and that entry carries the field's encoded value.            *)
LEMMA EntryFacts ==
    ASSUME NEW c \in [Groups -> [Fields -> Opt(Nat)]],
           NEW g \in Groups, NEW f \in Fields
    PROVE  /\ (\E e \in ResourcesMap(c) : e.group = g /\ e.field = f) <=> c[g][f] # Nil
           /\ \A e \in ResourcesMap(c) :
                 e.group = g /\ e.field = f => e.q = Encode(f, c[g][f])
  <1>1. ASSUME c[g][f] # Nil
        PROVE  \E e \in ResourcesMap(c) : e.group = g /\ e.field = f
    <2>1. <<g, f>> \in {x \in Groups \X Fields : c[x[1]][x[2]] # Nil}
      BY <1>1
    <2>2. [group |-> g, field |-> f, q |-> Encode(f, c[g][f])] \in ResourcesMap(c)
      BY <2>1 DEF ResourcesMap
    <2>3. QED
      BY <2>2
  <1>2. ASSUME NEW e \in ResourcesMap(c), e.group = g, e.field = f
        PROVE  c[g][f] # Nil /\ e.q = Encode(f, c[g][f])
    <2>1. PICK gf \in {x \in Groups \X Fields : c[x[1]][x[2]] # Nil} :
              e = [group |-> gf[1], field |-> gf[2], q |-> Encode(gf[2], c[gf[1]][gf[2]])]
      BY DEF ResourcesMap
    <2>2. gf[1] = g /\ gf[2] = f
      BY <1>2, <2>1
    <2>3. QED
      BY <2>1, <2>2
  <1>3. QED
    BY <1>1, <1>2

(* Parsing an encoded quantity gives back bytes of Mi, or millicores.    *)
LEMMA ParseEncode ==
    ASSUME NEW f \in Fields, NEW v \in Nat
    PROVE  ParseQuantity(f, Encode(f, v)) = IF f = "memory" THEN v * Mi ELSE v
  <1>1. CASE f = "memory"
    <2>1. Encode(f, v) = [value |-> v, suffix |-> "Mi"]
      BY <1>1 DEF Encode, FormatMemory
    <2>2. SuffixScale("Mi") = Mi
      BY DEF SuffixScale
    <2>3. QED
      BY <1>1, <2>1, <2>2 DEF ParseQuantity
  <1>2. CASE f # "memory"
    <2>1. (v * milliCore) \div milliCore = v
      BY DEF milliCore
    <2>2. QED
      BY <1>2, <2>1 DEF ParseQuantity, Encode, CpuCores
  <1>3. QED
    BY <1>1, <1>2

(* Merging the body SetResources builds has the effect section 4.6 gives *)
(* the decision, on any object.                                           *)
LEMMA MergeExact ==
    ASSUME NEW o, NEW d \in Decision
    PROVE  StrategicMerge(o, Body(d)) = SpecEffect(o, d)
  <1> USE SetResourcesAssumption
  <1>1. PICK D \in SUBSET Names : d.containers \in [D -> DecisionResources]
    BY DEF Decision
  <1>2. DOMAIN Body(d).containers = DOMAIN d.containers
    BY <1>1 DEF Body
  <1>3. ASSUME NEW n \in DOMAIN d.containers, NEW g \in Groups, NEW f \in Fields
        PROVE  (IF \E e \in Body(d).containers[n] : e.group = g /\ e.field = f
                THEN ParseQuantity(f, (CHOOSE e \in Body(d).containers[n] :
                                         e.group = g /\ e.field = f).q)
                ELSE o.res[n][g][f])
               = (IF d.containers[n][g][f] = Nil THEN o.res[n][g][f]
                  ELSE IF f = "memory" THEN d.containers[n][g][f] * Mi
                  ELSE d.containers[n][g][f])
    <2> DEFINE c == d.containers[n]
    <2>1. c \in [Groups -> [Fields -> Opt(Nat)]]
      BY <1>1
    <2>2. Body(d).containers[n] = ResourcesMap(c)
      BY <1>1 DEF Body
    <2>3. CASE c[g][f] = Nil
      BY <2>1, <2>2, <2>3, EntryFacts
    <2>4. CASE c[g][f] # Nil
      <3>1. \E e \in ResourcesMap(c) : e.group = g /\ e.field = f
        BY <2>1, <2>4, EntryFacts
      <3>2. (CHOOSE e \in ResourcesMap(c) : e.group = g /\ e.field = f).q
              = Encode(f, c[g][f])
        BY <2>1, <3>1, EntryFacts
      <3>3. c[g][f] \in Nat
        BY <2>1, <2>4 DEF Opt
      <3>4. QED
        BY <2>2, <2>4, <3>1, <3>2, <3>3, ParseEncode
    <2>5. QED
      BY <2>3, <2>4
  <1>4. (IF Body(d).replicas = Nil THEN o.replicas ELSE Body(d).replicas)
          = (IF d.replicas \in {Nil, 0} THEN o.replicas ELSE d.replicas)
    <2>1. d.replicas \in ReplicaValues \cup {Nil}
      BY DEF Decision, Opt
    <2>2. Body(d).replicas = PatchReplicas(d)
      BY DEF Body
    <2>3. CASE d.replicas = Nil
      BY <2>2, <2>3 DEF PatchReplicas
    <2>4. CASE d.replicas \in ReplicaValues
      <3>1. d.replicas \in Nat /\ d.replicas # Nil
        BY <2>4
      <3>2. QED
        BY <2>2, <3>1 DEF PatchReplicas
    <2>5. QED
      BY <2>1, <2>3, <2>4
  <1>5. [n \in Names |->
           IF n \in DOMAIN Body(d).containers
           THEN [g \in Groups |-> [f \in Fields |->
                  IF \E e \in Body(d).containers[n] : e.group = g /\ e.field = f
                  THEN ParseQuantity(f, (CHOOSE e \in Body(d).containers[n] :
                                           e.group = g /\ e.field = f).q)
                  ELSE o.res[n][g][f]]]
           ELSE o.res[n]]
        = [n \in Names |->
             IF n \in DOMAIN d.containers
             THEN [g \in Groups |-> [f \in Fields |->
                    IF d.containers[n][g][f] = Nil THEN o.res[n][g][f]
                    ELSE IF f = "memory" THEN d.containers[n][g][f] * Mi
                    ELSE d.containers[n][g][f]]]
             ELSE o.res[n]]
    <2>1. ASSUME NEW n \in DOMAIN d.containers
          PROVE  [g \in Groups |-> [f \in Fields |->
                    IF \E e \in Body(d).containers[n] : e.group = g /\ e.field = f
                    THEN ParseQuantity(f, (CHOOSE e \in Body(d).containers[n] :
                                             e.group = g /\ e.field = f).q)
                    ELSE o.res[n][g][f]]]
                 = [g \in Groups |-> [f \in Fields |->
                      IF d.containers[n][g][f] = Nil THEN o.res[n][g][f]
                      ELSE IF f = "memory" THEN d.containers[n][g][f] * Mi
                      ELSE d.containers[n][g][f]]]
      <3>1. ASSUME NEW g \in Groups
            PROVE  [f \in Fields |->
                      IF \E e \in Body(d).containers[n] : e.group = g /\ e.field = f
                      THEN ParseQuantity(f, (CHOOSE e \in Body(d).containers[n] :
                                               e.group = g /\ e.field = f).q)
                      ELSE o.res[n][g][f]]
                   = [f \in Fields |->
                        IF d.containers[n][g][f] = Nil THEN o.res[n][g][f]
                        ELSE IF f = "memory" THEN d.containers[n][g][f] * Mi
                        ELSE d.containers[n][g][f]]
        BY <1>3
      <3>2. QED
        BY <3>1
    <2>2. ASSUME NEW n \in Names
          PROVE  (IF n \in DOMAIN Body(d).containers
                  THEN [g \in Groups |-> [f \in Fields |->
                         IF \E e \in Body(d).containers[n] : e.group = g /\ e.field = f
                         THEN ParseQuantity(f, (CHOOSE e \in Body(d).containers[n] :
                                                  e.group = g /\ e.field = f).q)
                         ELSE o.res[n][g][f]]]
                  ELSE o.res[n])
                 = (IF n \in DOMAIN d.containers
                    THEN [g \in Groups |-> [f \in Fields |->
                           IF d.containers[n][g][f] = Nil THEN o.res[n][g][f]
                           ELSE IF f = "memory" THEN d.containers[n][g][f] * Mi
                           ELSE d.containers[n][g][f]]]
                    ELSE o.res[n])
      <3>1. CASE n \in DOMAIN d.containers
        BY <1>2, <2>1, <3>1
      <3>2. CASE n \notin DOMAIN d.containers
        BY <1>2, <3>2
      <3>3. QED
        BY <3>1, <3>2
    <2>3. QED
      BY <2>2
  <1>6. QED
    BY <1>4, <1>5 DEF StrategicMerge, SpecEffect

-----------------------------------------------------------------------------
(* The effect of an accepted patch.                                       *)

(* A pending call holds a decision, and a pending patch the body built   *)
(* from it, with no outcome yet.                                          *)
PendingBody ==
    /\ pc \in {"fetch", "patch"} => dec \in Decision
    /\ pc = "patch" => body = Body(dec) /\ outcome = Nil

(* Every step keeps PendingBody, with or without a second writer.        *)
LEMMA PendingBodyStep ==
    ASSUME PendingBody, [Next]_vars
    PROVE  PendingBody'
  <1>1. CASE \E d \in Decision : SetResources(d)
    BY <1>1 DEF SetResources, Build, PendingBody
  <1>2. CASE FetchStatefulSet
    BY <1>2 DEF FetchStatefulSet, Build, PendingBody
  <1>3. CASE Patch
    BY <1>3 DEF Patch, PendingBody
  <1>4. CASE Write
    BY <1>4 DEF Write, PendingBody
  <1>5. CASE UNCHANGED vars
    BY <1>5 DEF vars, PendingBody
  <1>6. QED
    BY <1>1, <1>2, <1>3, <1>4, <1>5 DEF Next

(* Every patch the API server accepts changes the workload exactly as     *)
(* the decision says, even while another client writes the StatefulSet.  *)
THEOREM ExactEffectTheorem ==
    Spec => ExactEffect
  <1>1. Init => PendingBody
    BY DEF Init, PendingBody
  <1>2. PendingBody /\ [Next]_vars => PendingBody'
    BY PendingBodyStep
  <1>3. PendingBody /\ [Next]_vars =>
          [pc = "patch" /\ outcome' = "ok"
             => obj' = [obj EXCEPT ![dec.kind] = SpecEffect(@, dec)]]_vars
    <2> SUFFICES ASSUME PendingBody, [Next]_vars, pc = "patch", outcome' = "ok"
                 PROVE  obj' = [obj EXCEPT ![dec.kind] = SpecEffect(@, dec)]
      OBVIOUS
    <2>1. dec \in Decision /\ body = Body(dec) /\ outcome = Nil
      BY DEF PendingBody
    <2>2. Patch
      <3>1. Nil # "ok"
        BY SetResourcesAssumption
      <3>2. QED
        BY <2>1, <3>1 DEF Next, SetResources, FetchStatefulSet, Write, vars
    <2>3. obj' = [obj EXCEPT ![body.kind] = StrategicMerge(@, body)]
      BY <2>2 DEF Patch
    <2>4. body.kind = dec.kind
      BY <2>1 DEF Body
    <2>5. StrategicMerge(obj[dec.kind], body) = SpecEffect(obj[dec.kind], dec)
      BY <2>1, MergeExact
    <2>6. QED
      BY <2>3, <2>4, <2>5
  <1>4. QED
    BY <1>1, <1>2, <1>3, PTL DEF Spec, ExactEffect

=============================================================================
