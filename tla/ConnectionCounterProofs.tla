---------------------- MODULE ConnectionCounterProofs ----------------------
(***************************************************************************)
(* Proofs about the connection counter for any number of handlers, any     *)
(* limits and any number of calls.                                         *)
(***************************************************************************)
EXTENDS ConnectionCounter, FiniteSetTheorems, TLAPS

USE ConnsAssumption, LimitsAssumption, BoundAssumption

\* Every step keeps the types; in particular the subtraction in decrement
\* never takes the counter below zero.
LEMMA TypeStep == TypeOK /\ [Next]_vars => TypeOK'
<1> SUFFICES ASSUME TypeOK, [Next]_vars PROVE TypeOK'
  OBVIOUS
<1> USE DEF TypeOK, PCs, Outcomes
<1>1. ASSUME NEW c \in Conns, NEW max \in Limits, CallIncrement(c, max) PROVE TypeOK'
  BY <1>1 DEF CallIncrement
<1>2. ASSUME NEW c \in Conns, CallDecrement(c) PROVE TypeOK'
  BY <1>2 DEF CallDecrement
<1>3. ASSUME NEW c \in Conns, IncAdd(c) PROVE TypeOK'
  BY <1>3 DEF IncAdd, Admitted
<1>4. ASSUME NEW c \in Conns, IncLoad(c) PROVE TypeOK'
  BY <1>4 DEF IncLoad
<1>5. ASSUME NEW c \in Conns, IncCas(c) PROVE TypeOK'
  BY <1>5 DEF IncCas, Admitted
<1>6. ASSUME NEW c \in Conns, IncCasFails(c) PROVE TypeOK'
  BY <1>6 DEF IncCasFails
<1>7. ASSUME NEW c \in Conns, DecLoad(c) PROVE TypeOK'
  BY <1>7 DEF DecLoad
<1>8. ASSUME NEW c \in Conns, DecSaturate(c) PROVE TypeOK'
  BY <1>8 DEF DecSaturate, GivenBack
<1>9. ASSUME NEW c \in Conns, DecCas(c) PROVE TypeOK'
  BY <1>9 DEF DecCas, GivenBack
<1>10. ASSUME NEW c \in Conns, DecCasFails(c) PROVE TypeOK'
  BY <1>10 DEF DecCasFails
<1>11. ASSUME NEW c \in Conns, DecGet(c) PROVE TypeOK'
  BY <1>11 DEF DecGet
<1>12. CASE UNCHANGED vars
  BY <1>12 DEF vars
<1>13. QED
  BY <1>1, <1>2, <1>3, <1>4, <1>5, <1>6, <1>7, <1>8, <1>9, <1>10, <1>11, <1>12
     DEF Next, CallStep, Quiet

\* TypeOK is inductive: in particular the subtraction in decrement never
\* takes the counter below zero (counter.rs, fetch_update with v == 0).
THEOREM TypeCorrect == Spec => []TypeOK
<1>1. Init => TypeOK
  BY DEF Init, TypeOK, PCs, Outcomes
<1>2. QED
  BY <1>1, TypeStep, PTL DEF Spec

\* What adding or removing one handler does to the number of those held.
LEMMA HeldCardinality ==
    ASSUME NEW S \in SUBSET Conns, NEW c \in Conns
    PROVE  /\ Cardinality(S) \in Nat
           /\ c \notin S => Cardinality(S \cup {c}) = Cardinality(S) + 1
           /\ c \in S => Cardinality(S) >= 1 /\ Cardinality(S \ {c}) = Cardinality(S) - 1
<1>1. IsFiniteSet(S)
  BY FS_Subset
<1>2. Cardinality(S) \in Nat
  BY <1>1, FS_CardinalityType
<1>3. c \notin S => Cardinality(S \cup {c}) = Cardinality(S) + 1
  BY <1>1, FS_AddElement
<1>4. ASSUME c \in S PROVE Cardinality(S) >= 1 /\ Cardinality(S \ {c}) = Cardinality(S) - 1
  <2>1. Cardinality(S \ {c}) = Cardinality(S) - 1
    BY <1>1, <1>4, FS_RemoveElement
  <2>2. Cardinality(S \ {c}) \in Nat
    BY <1>1, FS_Subset, FS_CardinalityType
  <2>3. QED
    BY <1>2, <2>1, <2>2
<1>5. QED
  BY <1>2, <1>3, <1>4

\* The inductive invariant.  CountTracksHeld alone is not inductive: a
\* decrement that read zero gives up its unit later, when the counter may
\* have risen again, so the counter is compared with the handlers that are
\* not in that position.
IInv == TypeOK /\ CountsOnlyCounted /\ ShortOnlyByStrays /\ ControlAgrees

\* Every step of the counter keeps the inductive invariant.
LEMMA IInvInductive == IInv /\ [Next]_vars => IInv'
<1> SUFFICES ASSUME IInv, [Next]_vars PROVE IInv'
  OBVIOUS
<1> USE DEF IInv
<1>a. TypeOK'
  BY TypeStep
<1>b. /\ held \in SUBSET Conns /\ Cardinality(held) \in Nat
      /\ Counted \in SUBSET Conns /\ Cardinality(Counted) \in Nat
      /\ count \in Nat /\ strays \in Nat
  <2>1. held \in SUBSET Conns /\ Counted \in SUBSET Conns
    BY DEF TypeOK, Counted
  <2>2. IsFiniteSet(held) /\ IsFiniteSet(Counted)
    BY <2>1, FS_Subset
  <2>3. QED
    BY <2>1, <2>2, FS_CardinalityType DEF TypeOK
<1>c. ASSUME NEW c \in Conns, c \notin held, Admitted(c), UNCHANGED <<strays, cur>>
      PROVE  CountsOnlyCounted' /\ ShortOnlyByStrays'
  <2>1. Counted' = Counted \cup {c} /\ c \notin Counted
    BY <1>c DEF Admitted, Counted, Saturating, TypeOK
  <2>2. Cardinality(Counted') = Cardinality(Counted) + 1
    BY <1>b, <2>1, HeldCardinality
  <2>3. Cardinality(held') = Cardinality(held) + 1
    BY <1>b, <1>c, HeldCardinality DEF Admitted
  <2>4. QED
    BY <1>b, <1>c, <2>2, <2>3 DEF Admitted, CountsOnlyCounted, ShortOnlyByStrays
<1>1. ASSUME NEW c \in Conns, NEW max \in Limits, CallIncrement(c, max) PROVE IInv'
  <2>1. Counted' = Counted
    BY <1>1 DEF CallIncrement, Counted, Saturating, TypeOK
  <2>2. CountsOnlyCounted' /\ ShortOnlyByStrays'
    BY <1>1, <2>1 DEF CallIncrement, CountsOnlyCounted, ShortOnlyByStrays
  <2>3. ControlAgrees'
    BY <1>1 DEF CallIncrement, ControlAgrees, TypeOK
  <2>4. QED
    BY <1>a, <2>2, <2>3
<1>2. ASSUME NEW c \in Conns, CallDecrement(c) PROVE IInv'
  <2>1. Counted' = Counted
    BY <1>2 DEF CallDecrement, Counted, Saturating, TypeOK
  <2>2. CountsOnlyCounted' /\ ShortOnlyByStrays'
    BY <1>2, <2>1 DEF CallDecrement, CountsOnlyCounted, ShortOnlyByStrays
  <2>3. ControlAgrees'
    BY <1>2 DEF CallDecrement, ControlAgrees, TypeOK
  <2>4. QED
    BY <1>a, <2>2, <2>3
<1>3. ASSUME NEW c \in Conns, IncAdd(c) PROVE IInv'
  <2>1. CountsOnlyCounted' /\ ShortOnlyByStrays'
    BY <1>c, <1>3 DEF IncAdd, ControlAgrees
  <2>2. ControlAgrees'
    BY <1>3 DEF IncAdd, Admitted, ControlAgrees, TypeOK
  <2>3. QED
    BY <1>a, <2>1, <2>2
<1>4. ASSUME NEW c \in Conns, IncLoad(c) PROVE IInv'
  <2>1. Counted' = Counted
    BY <1>4 DEF IncLoad, Counted, Saturating, TypeOK
  <2>2. CountsOnlyCounted' /\ ShortOnlyByStrays'
    BY <1>4, <2>1 DEF IncLoad, CountsOnlyCounted, ShortOnlyByStrays
  <2>3. ControlAgrees'
    <3>1. limit[c] \in Nat
      BY <1>4 DEF IncLoad, ControlAgrees, TypeOK
    <3>2. CASE count >= limit[c]
      BY <1>4, <3>2 DEF IncLoad, ControlAgrees, TypeOK
    <3>3. CASE ~(count >= limit[c])
      <4>1. count < limit[c]
        BY <1>b, <3>1, <3>3
      <4>2. QED
        BY <1>4, <3>3, <4>1 DEF IncLoad, ControlAgrees, TypeOK
    <3>4. QED
      BY <3>2, <3>3
  <2>4. QED
    BY <1>a, <2>2, <2>3
<1>5. ASSUME NEW c \in Conns, IncCas(c) PROVE IInv'
  <2>1. CountsOnlyCounted' /\ ShortOnlyByStrays'
    BY <1>c, <1>5 DEF IncCas, ControlAgrees
  <2>2. ControlAgrees'
    BY <1>5 DEF IncCas, Admitted, ControlAgrees, TypeOK
  <2>3. QED
    BY <1>a, <2>1, <2>2
<1>6. ASSUME NEW c \in Conns, IncCasFails(c) PROVE IInv'
  <2>1. Counted' = Counted
    BY <1>6 DEF IncCasFails, Counted, Saturating, TypeOK
  <2>2. CountsOnlyCounted' /\ ShortOnlyByStrays'
    BY <1>6, <2>1 DEF IncCasFails, CountsOnlyCounted, ShortOnlyByStrays
  <2>3. ControlAgrees'
    BY <1>6 DEF IncCasFails, ControlAgrees, TypeOK
  <2>4. QED
    BY <1>a, <2>2, <2>3
<1>7. ASSUME NEW c \in Conns, DecLoad(c) PROVE IInv'
  <2>1. CountsOnlyCounted'
    <3>1. CASE count = 0
      <4>1. Counted' \in SUBSET Conns
        BY <1>a DEF TypeOK, Counted
      <4>2. Cardinality(Counted') \in Nat
        BY <4>1, FS_Subset, FS_CardinalityType
      <4>3. QED
        BY <1>7, <3>1, <4>2 DEF DecLoad, CountsOnlyCounted
    <3>2. CASE count # 0
      <4>1. Counted' = Counted
        BY <1>7, <3>2 DEF DecLoad, Counted, Saturating, TypeOK
      <4>2. QED
        BY <1>7, <4>1 DEF DecLoad, CountsOnlyCounted
    <3>3. QED
      BY <3>1, <3>2
  <2>2. ShortOnlyByStrays'
    BY <1>7 DEF DecLoad, ShortOnlyByStrays
  <2>3. ControlAgrees'
    BY <1>7 DEF DecLoad, ControlAgrees, TypeOK
  <2>4. QED
    BY <1>a, <2>1, <2>2, <2>3
<1>8. ASSUME NEW c \in Conns, DecCasFails(c) PROVE IInv'
  <2>1. CountsOnlyCounted'
    <3>1. CASE count = 0
      <4>1. Counted' \in SUBSET Conns
        BY <1>a DEF TypeOK, Counted
      <4>2. Cardinality(Counted') \in Nat
        BY <4>1, FS_Subset, FS_CardinalityType
      <4>3. QED
        BY <1>8, <3>1, <4>2 DEF DecCasFails, CountsOnlyCounted
    <3>2. CASE count # 0
      <4>1. Counted' = Counted
        BY <1>8, <3>2 DEF DecCasFails, Counted, Saturating, TypeOK
      <4>2. QED
        BY <1>8, <4>1 DEF DecCasFails, CountsOnlyCounted
    <3>3. QED
      BY <3>1, <3>2
  <2>2. ShortOnlyByStrays'
    BY <1>8 DEF DecCasFails, ShortOnlyByStrays
  <2>3. ControlAgrees'
    BY <1>8 DEF DecCasFails, ControlAgrees, TypeOK
  <2>4. QED
    BY <1>a, <2>1, <2>2, <2>3
<1>9. ASSUME NEW c \in Conns, DecSaturate(c) PROVE IInv'
  <2>1. Counted' = Counted
    BY <1>9 DEF DecSaturate, GivenBack, Counted, Saturating, TypeOK
  <2>2. CountsOnlyCounted'
    BY <1>9, <2>1 DEF DecSaturate, CountsOnlyCounted
  <2>3. ShortOnlyByStrays'
    <3>1. held' = held \ {c} /\ count' = count /\ strays' = strays
      BY <1>9 DEF DecSaturate, GivenBack
    <3>2. Cardinality(held') \in Nat /\ Cardinality(held') <= Cardinality(held)
      <4>1. IsFiniteSet(held)
        BY <1>b, FS_Subset
      <4>2. QED
        BY <3>1, <4>1, FS_Subset, FS_CardinalityType
    <3>3. QED
      BY <1>b, <3>1, <3>2 DEF ShortOnlyByStrays
  <2>4. ControlAgrees'
    BY <1>9 DEF DecSaturate, GivenBack, ControlAgrees, TypeOK
  <2>5. QED
    BY <1>a, <2>2, <2>3, <2>4
<1>10. ASSUME NEW c \in Conns, DecCas(c) PROVE IInv'
  <2>1. count' = count - 1 /\ held' = held \ {c} /\ count >= 1
    BY <1>10, <1>b DEF DecCas, GivenBack
  <2>2. CountsOnlyCounted' /\ ShortOnlyByStrays'
    <3>1. CASE c \in held
      <4>1. strays' = strays
        BY <1>10, <3>1 DEF DecCas
      <4>2. Counted' = Counted \ {c} /\ c \in Counted
        BY <1>10, <3>1 DEF DecCas, GivenBack, Counted, Saturating, TypeOK
      <4>3. Cardinality(held') = Cardinality(held) - 1
        BY <1>b, <2>1, <3>1, HeldCardinality
      <4>4. Cardinality(Counted') = Cardinality(Counted) - 1
        BY <1>b, <4>2, HeldCardinality
      <4>5. QED
        BY <1>b, <2>1, <4>1, <4>3, <4>4 DEF CountsOnlyCounted, ShortOnlyByStrays
    <3>2. CASE c \notin held
      <4>1. strays' = strays + 1 /\ held' = held
        BY <1>10, <2>1, <3>2 DEF DecCas
      <4>2. Counted' = Counted
        BY <1>10, <3>2 DEF DecCas, GivenBack, Counted, Saturating, TypeOK
      <4>3. /\ Cardinality(held') = Cardinality(held)
            /\ Cardinality(Counted') = Cardinality(Counted)
        BY <4>1, <4>2
      <4>4. count' = count - 1 /\ count >= 1
        BY <2>1
      <4>5. CountsOnlyCounted'
        BY <1>b, <4>3, <4>4 DEF CountsOnlyCounted
      <4>6. ShortOnlyByStrays'
        BY <1>b, <4>1, <4>3, <4>4 DEF ShortOnlyByStrays
      <4>7. QED
        BY <4>5, <4>6
    <3>3. QED
      BY <3>1, <3>2
  <2>3. ControlAgrees'
    BY <1>10 DEF DecCas, GivenBack, ControlAgrees, TypeOK
  <2>4. QED
    BY <1>a, <2>2, <2>3
<1>11. ASSUME NEW c \in Conns, DecGet(c) PROVE IInv'
  <2>1. Counted' = Counted
    BY <1>11 DEF DecGet, Counted, Saturating, TypeOK
  <2>2. CountsOnlyCounted' /\ ShortOnlyByStrays'
    BY <1>11, <2>1 DEF DecGet, CountsOnlyCounted, ShortOnlyByStrays
  <2>3. ControlAgrees'
    BY <1>11 DEF DecGet, ControlAgrees, TypeOK
  <2>4. QED
    BY <1>a, <2>2, <2>3
<1>12. CASE UNCHANGED vars
  BY <1>a, <1>12 DEF vars, CountsOnlyCounted, Counted, Saturating, ShortOnlyByStrays, ControlAgrees
<1>13. QED
  BY <1>1, <1>2, <1>3, <1>4, <1>5, <1>6, <1>7, <1>8, <1>9, <1>10, <1>11, <1>12
     DEF Next, CallStep, Quiet

\* The inductive invariant holds in every reachable state.
LEMMA IInvHolds == Spec => []IInv
<1>1. Init => IInv
  <2>1. Init => TypeOK /\ ControlAgrees
    BY DEF Init, TypeOK, ControlAgrees, PCs, Outcomes
  <2>2. Init => held = {} /\ Counted = {}
    BY DEF Init, Counted
  <2>3. Init => CountsOnlyCounted /\ ShortOnlyByStrays
    BY <2>2, FS_EmptySet DEF Init, CountsOnlyCounted, ShortOnlyByStrays
  <2>4. QED
    BY <2>1, <2>3 DEF IInv
<1>2. QED
  BY <1>1, IInvInductive, PTL DEF Spec

\* The inductive invariant implies the property it was built for.
LEMMA IInvImplies == IInv => CountTracksHeld
<1> SUFFICES ASSUME IInv PROVE CountTracksHeld
  OBVIOUS
<1>1. IsFiniteSet(held) /\ Counted \subseteq held
  BY FS_Subset DEF IInv, TypeOK, Counted
<1>2. /\ Cardinality(Counted) <= Cardinality(held)
      /\ Cardinality(Counted) \in Nat /\ Cardinality(held) \in Nat
  BY <1>1, FS_Subset, FS_CardinalityType
<1>3. QED
  BY <1>2 DEF IInv, TypeOK, CountsOnlyCounted, CountTracksHeld

\* The counter never counts a connection that is not held, and is short only
\* by stray decrements: no update of the compare-exchange loops of
\* counter.rs is lost, for any number of racing handlers.
THEOREM CountIsExact == Spec => []CountTracksHeld
  BY IInvImplies, IInvHolds, PTL

\* Only its own steps move a handler's program counter.
LEMMA OnlyOwnSteps ==
    ASSUME TypeOK, [Next]_vars, NEW c \in Conns, pc'[c] # pc[c]
    PROVE  CallStep(c) \/ CallDecrement(c) \/ \E max \in Limits : CallIncrement(c, max)
<1> USE DEF TypeOK
<1>1. ASSUME NEW d \in Conns, NEW max \in Limits, CallIncrement(d, max) PROVE c = d
  BY <1>1 DEF CallIncrement
<1>2. ASSUME NEW d \in Conns, CallDecrement(d) PROVE c = d
  BY <1>2 DEF CallDecrement
<1>3. ASSUME NEW d \in Conns, CallStep(d) PROVE c = d
  <2>1. CASE IncAdd(d) \/ IncLoad(d) \/ IncCas(d) \/ IncCasFails(d)
    BY <2>1 DEF IncAdd, IncLoad, IncCas, IncCasFails, Admitted
  <2>2. CASE DecLoad(d) \/ DecSaturate(d) \/ DecCas(d) \/ DecCasFails(d) \/ DecGet(d)
    BY <2>2 DEF DecLoad, DecSaturate, DecCas, DecCasFails, DecGet, GivenBack
  <2>3. QED
    BY <1>3, <2>1, <2>2 DEF CallStep
<1>4. ~UNCHANGED vars
  BY DEF vars
<1>5. QED
  BY <1>1, <1>2, <1>3, <1>4 DEF Next, Quiet

\* increment(Some(max)) never admits more than max connections at once, but
\* for stray decrements (counter.rs increment).
THEOREM LimitRespected == Spec => AdmissionWithinLimit
<1>1. ASSUME IInv, IInv', [Next]_vars, NEW c \in Conns, pc[c] = "inc_cas", pc'[c] = "open"
      PROVE  Cardinality(held') <= limit[c] + strays
  <2>1. IncCas(c)
    <3>1. CallStep(c) \/ CallDecrement(c) \/ \E max \in Limits : CallIncrement(c, max)
      BY <1>1, OnlyOwnSteps DEF IInv
    <3>2. QED
      BY <1>1, <3>1 DEF IInv, TypeOK, CallStep, CallIncrement, CallDecrement, IncAdd, IncLoad,
         IncCasFails, DecLoad, DecSaturate, DecCas, DecCasFails, DecGet
  <2>2. count' = cur[c] + 1 /\ strays' = strays
    BY <2>1 DEF IncCas, Admitted
  <2>3. cur[c] < limit[c] /\ limit[c] \in Nat /\ cur[c] \in Nat /\ strays \in Nat
    BY <1>1 DEF IInv, ControlAgrees, TypeOK
  <2>4. Cardinality(held') <= count' + strays'
    BY <1>1 DEF IInv, ShortOnlyByStrays
  <2>5. Cardinality(held') \in Nat
    BY <1>1, FS_Subset, FS_CardinalityType DEF IInv, TypeOK
  <2>6. QED
    BY <2>2, <2>3, <2>4, <2>5
<1>2. IInv /\ IInv' /\ [Next]_vars
        => \A c \in Conns : pc[c] = "inc_cas" /\ pc'[c] = "open"
                => Cardinality(held') <= limit[c] + strays
  BY <1>1
<1>3. QED
  BY <1>2, IInvHolds, PTL DEF Spec, AdmissionWithinLimit

\* A call is refused only while max connections are held at the moment of
\* its load (counter.rs increment).
THEOREM RefusalsAreJustified == Spec => RefusalJustified
<1>1. ASSUME IInv, [Next]_vars, NEW c \in Conns, pc[c] = "inc_load", pc'[c] = "idle"
      PROVE  Cardinality(held) >= limit[c]
  <2>1. IncLoad(c)
    <3>1. CallStep(c) \/ CallDecrement(c) \/ \E max \in Limits : CallIncrement(c, max)
      BY <1>1, OnlyOwnSteps DEF IInv
    <3>2. QED
      BY <1>1, <3>1 DEF IInv, TypeOK, CallStep, CallIncrement, CallDecrement, IncAdd, IncCas,
         IncCasFails, DecLoad, DecSaturate, DecCas, DecCasFails, DecGet
  <2>2. count >= limit[c]
    BY <1>1, <2>1 DEF IncLoad, IInv, TypeOK
  <2>3. count <= Cardinality(held) /\ count \in Nat /\ limit[c] \in Nat
    BY <1>1, IInvImplies DEF IInv, CountTracksHeld, ControlAgrees, TypeOK
  <2>4. Cardinality(held) \in Nat
    BY <1>1, FS_Subset, FS_CardinalityType DEF IInv, TypeOK
  <2>5. QED
    BY <2>2, <2>3, <2>4
<1>2. IInv /\ [Next]_vars
        => \A c \in Conns : pc[c] = "inc_load" /\ pc'[c] = "idle" => Cardinality(held) >= limit[c]
  BY <1>1
<1>3. QED
  BY <1>2, IInvHolds, PTL DEF Spec, RefusalJustified

\* The limiter counts with the same Cardinality.
LEMMA SameCardinality == \A S : Limiter!Cardinality(S) = Cardinality(S)
  BY DEF Limiter!Cardinality, Cardinality, Limiter!IsFiniteSet, IsFiniteSet

\* The counter implements the atomic limiter: admission, refusal, release
\* and stray decrement each happen at one indivisible moment of the call, the
\* one that saturates at zero at none (counter.rs increment, decrement).
THEOREM CounterRefinesLimiter == Spec => LimiterSpec
<1>1. Init => Limiter!LInit
  BY DEF Init, Limiter!LInit
<1>2. ASSUME IInv, [Next]_vars
      PROVE  [Limiter!LNext]_(Limiter!lvars)
  <2> USE <1>2 DEF Limiter!LNext, Limiter!lvars
  <2>a. /\ count \in Nat /\ strays \in Nat /\ Cardinality(held) \in Nat
        /\ count <= Cardinality(held)
        /\ Cardinality(held) <= count + strays
    <3>1. count \in Nat /\ strays \in Nat
      BY DEF IInv, TypeOK
    <3>2. Cardinality(held) \in Nat
      BY FS_Subset, FS_CardinalityType, ConnsAssumption DEF IInv, TypeOK
    <3>3. QED
      BY <3>1, <3>2, IInvImplies DEF CountTracksHeld, ShortOnlyByStrays
  <2>1. ASSUME NEW c \in Conns, NEW max \in Limits, CallIncrement(c, max)
        PROVE  Limiter!Request(c, max)
    BY <2>1 DEF CallIncrement, Limiter!Request, IInv, ControlAgrees, TypeOK
  <2>2. ASSUME NEW c \in Conns, IncAdd(c) PROVE Limiter!Admit(c)
    BY <2>2 DEF IncAdd, Admitted, Limiter!Admit, IInv, ControlAgrees
  <2>3. ASSUME NEW c \in Conns, IncCas(c) PROVE Limiter!Admit(c)
    <3>1. outcome[c] = "pending" /\ count = cur[c] /\ cur[c] < limit[c] /\ limit[c] \in Nat
      BY <2>3 DEF IncCas, IInv, ControlAgrees, TypeOK
    <3>2. Cardinality(held) < limit[c] + strays
      BY <2>a, <3>1
    <3>3. QED
      BY <2>3, <3>1, <3>2, SameCardinality DEF IncCas, Admitted, Limiter!Admit
  <2>4. ASSUME NEW c \in Conns, IncLoad(c), count >= limit[c] PROVE Limiter!Refuse(c)
    <3>1. outcome[c] = "pending" /\ limit[c] # NoLimit /\ limit[c] \in Nat
      BY <2>4 DEF IncLoad, IInv, ControlAgrees, TypeOK
    <3>2. Cardinality(held) >= limit[c]
      BY <2>4, <2>a, <3>1
    <3>3. QED
      BY <2>4, <3>1, <3>2, SameCardinality DEF IncLoad, Limiter!Refuse
  <2>5. ASSUME NEW c \in Conns, IncLoad(c), ~(count >= limit[c])
        PROVE  UNCHANGED <<held, limit, outcome, strays>>
    BY <2>5 DEF IncLoad
  <2>6. ASSUME NEW c \in Conns, DecCas(c) \/ DecSaturate(c), c \in held
        PROVE  Limiter!Release(c)
    BY <2>6 DEF DecCas, DecSaturate, GivenBack, Limiter!Release
  <2>7. ASSUME NEW c \in Conns, DecCas(c), c \notin held PROVE Limiter!Stray
    <3>1. held # {}
      <4>1. count # 0
        BY <2>7 DEF DecCas
      <4>2. QED
        BY <2>a, <4>1, FS_EmptySet
    <3>2. outcome' = outcome /\ held' = held
      BY <2>7 DEF DecCas, GivenBack, IInv, TypeOK
    <3>3. QED
      BY <2>7, <3>1, <3>2 DEF DecCas, Limiter!Stray
  <2>8. ASSUME NEW c \in Conns, DecSaturate(c), c \notin held
        PROVE  UNCHANGED <<held, limit, outcome, strays>>
    BY <2>8 DEF DecSaturate, GivenBack, IInv, TypeOK
  <2>9. ASSUME NEW c \in Conns,
               CallDecrement(c) \/ IncCasFails(c) \/ DecLoad(c) \/ DecCasFails(c) \/ DecGet(c)
        PROVE  UNCHANGED <<held, limit, outcome, strays>>
    BY <2>9 DEF CallDecrement, IncCasFails, DecLoad, DecCasFails, DecGet
  <2>10. CASE UNCHANGED vars
    BY <2>10 DEF vars
  <2>11. QED
    BY <2>1, <2>2, <2>3, <2>4, <2>5, <2>6, <2>7, <2>8, <2>9, <2>10 DEF Next, CallStep, Quiet
<1>3. QED
  BY <1>1, <1>2, IInvHolds, PTL DEF Spec, LimiterSpec, Limiter!LSpec
=============================================================================
