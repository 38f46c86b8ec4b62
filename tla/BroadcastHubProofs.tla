------------------------- MODULE BroadcastHubProofs -------------------------
(***************************************************************************)
(* Proofs about the broadcast hub, for any connections, capacity, ring and *)
(* number of messages: types, faithful streams, honest receiver counts,    *)
(* and that the ring implements MessageLog.                                *)
(***************************************************************************)
EXTENDS BroadcastHub, FiniteSetTheorems, SequenceTheorems, TLAPS

----------------------------------------------------------------------------
(* The inductive invariant *)

\* The ring holds the last Size messages, each in its slot.
RingHoldsNewest ==
    \A p \in 0..(tail - 1) : tail <= p + Size => ring[Slot(p)] = p

NobodyAhead == \A c \in Conns : next[c] <= tail

\* Who has got message p, or can still get it.
Entitled(p) == {c \in Conns : p \in Range(got[c]) \/ (c \in active /\ next[c] <= p)}

ToldAll == \A p \in 0..(tail - 1) : Cardinality(Entitled(p)) <= told[p]

IInv ==
    /\ TypeOK
    /\ RingHoldsNewest
    /\ NobodyAhead
    /\ StreamIsFaithful

----------------------------------------------------------------------------
(* Arithmetic of the ring *)

\* The ring has at least the requested number of slots.
LEMMA SizeFacts == Size \in Nat \ {0} /\ Capacity <= Size
  BY CapacityAssumption, RingAssumption DEF Size, Requested

LEMMA MultiplesApart ==
    ASSUME NEW n \in Nat \ {0}, NEW a \in Int, NEW b \in Int,
           0 < n * a - n * b, n * a - n * b < n
    PROVE  FALSE
  BY SMT

LEMMA ModFacts ==
    ASSUME NEW n \in Nat \ {0}, NEW p \in Nat
    PROVE  /\ p % n \in 0..(n - 1)
           /\ p \div n \in Nat
           /\ p = n * (p \div n) + (p % n)
  BY SMT

\* Two positions less than a ring apart are in different slots.
LEMMA SlotsDiffer ==
    ASSUME NEW n \in Nat \ {0}, NEW p \in Nat, NEW q \in Nat, p < q, q < p + n
    PROVE  p % n # q % n
<1>1. SUFFICES ASSUME p % n = q % n PROVE FALSE
  OBVIOUS
<1>2. p = n * (p \div n) + (p % n) /\ q = n * (q \div n) + (q % n)
  BY ModFacts
<1>3. p \div n \in Int /\ q \div n \in Int /\ p % n \in Int
  BY ModFacts
<1>4. n * (q \div n) \in Int /\ n * (p \div n) \in Int
  BY <1>3
<1>5. n * (q \div n) - n * (p \div n) = q - p
  BY <1>1, <1>2, <1>3, <1>4
<1>6. 0 < n * (q \div n) - n * (p \div n) /\ n * (q \div n) - n * (p \div n) < n
  BY <1>5
<1> QED
  BY <1>3, <1>6, MultiplesApart

\* Every position has a slot, and neighbours do not share theirs.
LEMMA SlotFacts ==
    /\ \A p \in Nat : Slot(p) \in 0..(Size - 1)
    /\ \A p, q \in Nat : p < q /\ q < p + Size => Slot(p) # Slot(q)
<1>1. \A p \in Nat : Slot(p) \in 0..(Size - 1)
  BY SizeFacts, ModFacts DEF Slot
<1>2. ASSUME NEW p \in Nat, NEW q \in Nat, p < q, q < p + Size
      PROVE  Slot(p) # Slot(q)
  BY <1>2, SizeFacts, SlotsDiffer DEF Slot
<1> QED
  BY <1>1, <1>2

\* There are no more live receivers than connections.
LEMMA ActiveFacts ==
    /\ Cardinality(Conns) \in Nat
    /\ IsFiniteSet(active)
    /\ Cardinality(active) \in 0..Cardinality(Conns)
<1>1. active \subseteq Conns
  BY DEF active
<1> QED
  BY <1>1, ConnsAssumption, FS_Subset, FS_CardinalityType

\* What a stream consists of.
LEMMA StreamFacts ==
    ASSUME IInv, NEW c \in Conns
    PROVE  /\ start[c] \in Nat /\ missed[c] \in Nat /\ next[c] \in Nat /\ Len(got[c]) \in Nat
           /\ start[c] + Len(got[c]) + missed[c] = next[c]
           /\ \A i \in 1..Len(got[c]) :
                got[c][i] \in Nat /\ start[c] <= got[c][i] /\ got[c][i] < next[c]
           /\ \A i, j \in 1..Len(got[c]) : i < j => got[c][i] < got[c][j]
<1>1. got[c] \in Seq(0..MaxSends)
  BY DEF IInv, TypeOK
<1>2. Len(got[c]) \in Nat /\ \A i \in 1..Len(got[c]) : got[c][i] \in 0..MaxSends
  BY <1>1, LenProperties, ElementOfSeq
<1>3. \A i \in 1..Len(got[c]) : got[c][i] \in Nat
  BY <1>2, BoundAssumption
<1>4. start[c] \in Nat /\ missed[c] \in Nat /\ next[c] \in Nat
  BY BoundAssumption DEF IInv, TypeOK
<1> QED
  BY <1>2, <1>3, <1>4 DEF IInv, StreamIsFaithful

----------------------------------------------------------------------------
(* The invariant is inductive *)

LEMMA InitIInv == Init => IInv
<1> SUFFICES ASSUME Init PROVE IInv
  OBVIOUS
<1> USE DEF Init
<1>1. TypeOK
  BY SizeFacts, ActiveFacts, BoundAssumption DEF TypeOK, NoMsg
<1>2. RingHoldsNewest /\ NobodyAhead
  BY DEF RingHoldsNewest, NobodyAhead
<1>3. StreamIsFaithful
  BY DEF StreamIsFaithful
<1> QED
  BY <1>1, <1>2, <1>3 DEF IInv

\* A receiver that finds its slot overwritten is more than a ring behind.
LEMMA LaggedIsBehind ==
    ASSUME IInv, NEW c \in Conns, Lagged(c)
    PROVE  tail - Size \in Nat /\ next[c] < tail - Size
<1>1. next[c] \in Nat /\ tail \in Nat /\ next[c] < tail /\ ring[Slot(next[c])] # next[c]
  BY DEF IInv, TypeOK, Lagged
<1>2. ~(tail <= next[c] + Size)
  BY <1>1 DEF IInv, RingHoldsNewest
<1> QED
  BY <1>1, <1>2, SizeFacts

LEMMA SubscribeIInv == ASSUME IInv, NEW c \in Conns, Subscribe(c) PROVE IInv'
<1> USE DEF IInv, Subscribe, SubscribeAt
<1>1. TypeOK'
  <2>1. << >> \in Seq(0..MaxSends) /\ 0 \in 0..MaxSends
    BY BoundAssumption
  <2> QED
    BY <2>1 DEF TypeOK
<1>2. RingHoldsNewest'
  BY DEF RingHoldsNewest, Slot, Size
<1>3. NobodyAhead'
  BY DEF NobodyAhead, TypeOK
<1>4. StreamIsFaithful'
  BY DEF StreamIsFaithful, TypeOK
<1> QED
  BY <1>1, <1>2, <1>3, <1>4

LEMMA BroadcastIInv == ASSUME IInv, Broadcast PROVE IInv'
<1> USE DEF IInv, Broadcast
<1>1. tail \in Nat /\ tail' = tail + 1 /\ tail' \in 0..MaxSends
  BY BoundAssumption DEF TypeOK
<1>2. Slot(tail) \in 0..(Size - 1)
  BY <1>1, SlotFacts
<1>3. TypeOK'
  BY <1>1, <1>2, ActiveFacts, BoundAssumption DEF TypeOK
<1>4. RingHoldsNewest'
  <2> SUFFICES ASSUME NEW p \in 0..tail, tail + 1 <= p + Size PROVE ring'[Slot(p)] = p
    BY <1>1 DEF RingHoldsNewest, Slot, Size
  <2>1. CASE p = tail
    BY <2>1, <1>2 DEF TypeOK
  <2>2. CASE p < tail
    <3>1. p \in 0..(tail - 1) /\ tail <= p + Size
      BY <2>2, <1>1, SizeFacts
    <3>2. Slot(p) # Slot(tail) /\ Slot(p) \in 0..(Size - 1)
      BY <2>2, <1>1, SlotFacts, SizeFacts
    <3> QED
      BY <3>1, <3>2 DEF RingHoldsNewest, TypeOK
  <2> QED
    BY <2>1, <2>2, <1>1
<1>5. NobodyAhead'
  BY <1>1 DEF NobodyAhead, TypeOK
<1>6. StreamIsFaithful'
  BY DEF StreamIsFaithful
<1> QED
  BY <1>3, <1>4, <1>5, <1>6

LEMMA RecvIInv == ASSUME IInv, NEW c \in Conns, Recv(c) PROVE IInv'
<1> USE DEF IInv, Recv
<1>1. /\ next[c] \in Nat /\ tail \in Nat /\ tail <= MaxSends /\ next[c] < tail
      /\ next[c] \in 0..MaxSends /\ next[c] + 1 \in 0..MaxSends
      /\ got[c] \in Seq(0..MaxSends)
  BY BoundAssumption DEF TypeOK
<1>2. Append(got[c], next[c]) \in Seq(0..MaxSends)
  BY <1>1
<1>3. TypeOK'
  BY <1>1, <1>2 DEF TypeOK
<1>4. RingHoldsNewest'
  BY DEF RingHoldsNewest, Slot, Size
<1>5. NobodyAhead'
  BY <1>1 DEF NobodyAhead, TypeOK
<1>6. StreamIsFaithful'
  <2> SUFFICES ASSUME NEW d \in Conns
               PROVE  /\ start[d] + Len(got'[d]) + missed[d] = next'[d]
                      /\ \A i \in 1..Len(got'[d]) : start[d] <= got'[d][i] /\ got'[d][i] < next'[d]
                      /\ \A i, j \in 1..Len(got'[d]) : i < j => got'[d][i] < got'[d][j]
    BY DEF StreamIsFaithful
  <2>1. CASE d # c
    BY <2>1 DEF StreamIsFaithful, TypeOK
  <2>2. CASE d = c
    <3>1. got'[d] = Append(got[d], next[d]) /\ next'[d] = next[d] + 1
      BY <2>2 DEF TypeOK
    <3>2. /\ start[d] \in Nat /\ missed[d] \in Nat /\ Len(got[d]) \in Nat
          /\ start[d] + Len(got[d]) + missed[d] = next[d]
          /\ \A i \in 1..Len(got[d]) : start[d] <= got[d][i] /\ got[d][i] < next[d]
          /\ \A i, j \in 1..Len(got[d]) : i < j => got[d][i] < got[d][j]
          /\ \A i \in 1..Len(got[d]) : got[d][i] \in Nat
      BY StreamFacts
    <3>3. /\ Len(got'[d]) = Len(got[d]) + 1
          /\ \A i \in 1..Len(got[d]) : got'[d][i] = got[d][i]
          /\ got'[d][Len(got[d]) + 1] = next[d]
      BY <3>1, <1>1, <2>2, AppendProperties
    <3>4. start[d] + Len(got'[d]) + missed[d] = next'[d]
      <4>1. start[d] + (Len(got[d]) + 1) + missed[d] = next[d] + 1
        <5>1. \A x, y, z, n \in Nat : x + y + z = n => x + (y + 1) + z = n + 1
          OBVIOUS
        <5>2. /\ start[d] \in Nat /\ missed[d] \in Nat /\ Len(got[d]) \in Nat /\ next[d] \in Nat
              /\ start[d] + Len(got[d]) + missed[d] = next[d]
          BY StreamFacts
        <5> HIDE DEF IInv, Recv
        <5> QED
          BY <5>1, <5>2
      <4> QED
        BY <4>1, <3>1, <3>3
    <3>5. ASSUME NEW i \in 1..Len(got'[d])
          PROVE  start[d] <= got'[d][i] /\ got'[d][i] < next'[d]
      <4>1. CASE i \in 1..Len(got[d])
        BY <4>1, <3>1, <3>2, <3>3, <1>1, <2>2, SMTT(30)
      <4>2. CASE i = Len(got[d]) + 1
        BY <4>2, <3>1, <3>2, <3>3, <1>1, <2>2
      <4> QED
        BY <4>1, <4>2, <3>2, <3>3
    <3>6. ASSUME NEW i \in 1..Len(got'[d]), NEW j \in 1..Len(got'[d]), i < j
          PROVE  got'[d][i] < got'[d][j]
      <4>1. i \in 1..Len(got[d]) /\ got'[d][i] = got[d][i]
        BY <3>6, <3>2, <3>3
      <4>2. CASE j \in 1..Len(got[d])
        BY <4>1, <4>2, <3>6, <3>2, <3>3
      <4>3. CASE j = Len(got[d]) + 1
        BY <4>1, <4>3, <3>2, <3>3
      <4> QED
        BY <4>2, <4>3, <3>2, <3>3
    <3> QED
      BY <3>4, <3>5, <3>6
  <2> QED
    BY <2>1, <2>2
<1> QED
  BY <1>3, <1>4, <1>5, <1>6

LEMMA LaggedIInv == ASSUME IInv, NEW c \in Conns, Lagged(c) PROVE IInv'
<1> USE DEF IInv, Lagged
<1>1. tail - Size \in Nat /\ next[c] < tail - Size
  BY LaggedIsBehind
<1>2. /\ tail \in Nat /\ tail <= MaxSends /\ next[c] \in Nat /\ Size \in Nat
      /\ start[c] \in Nat /\ missed[c] \in Nat /\ Len(got[c]) \in Nat
      /\ start[c] + Len(got[c]) + missed[c] = next[c]
  BY BoundAssumption, SizeFacts DEF TypeOK, StreamIsFaithful
<1>3. tail - Size \in 0..MaxSends /\ missed[c] + (tail - Size - next[c]) \in 0..MaxSends
  BY <1>1, <1>2, BoundAssumption, SMTT(30)
<1>4. TypeOK'
  BY <1>3 DEF TypeOK
<1>5. RingHoldsNewest'
  BY DEF RingHoldsNewest, Slot, Size
<1>6. NobodyAhead'
  BY <1>1, <1>2 DEF NobodyAhead, TypeOK
<1>7. StreamIsFaithful'
  <2> SUFFICES ASSUME NEW d \in Conns
               PROVE  /\ start[d] + Len(got[d]) + missed'[d] = next'[d]
                      /\ \A i \in 1..Len(got[d]) : start[d] <= got[d][i] /\ got[d][i] < next'[d]
                      /\ \A i, j \in 1..Len(got[d]) : i < j => got[d][i] < got[d][j]
    BY DEF StreamIsFaithful
  <2>1. CASE d # c
    BY <2>1 DEF StreamIsFaithful, TypeOK
  <2>2. CASE d = c
    <3>1. next'[d] = tail - Size /\ missed'[d] = missed[d] + (tail - Size - next[d])
      BY <2>2 DEF TypeOK
    <3>2. \A i \in 1..Len(got[d]) : start[d] <= got[d][i] /\ got[d][i] < tail - Size
      <4> SUFFICES ASSUME NEW i \in 1..Len(got[d])
                   PROVE  start[d] <= got[d][i] /\ got[d][i] < tail - Size
        OBVIOUS
      <4>1. got[d][i] \in Nat /\ start[d] <= got[d][i] /\ got[d][i] < next[d]
        BY StreamFacts
      <4> QED
        BY <4>1, <1>1, <1>2, <2>2, SMTT(30)
    <3>3. start[d] + Len(got[d]) + missed'[d] = next'[d]
      BY <2>2, <3>1, <1>1, <1>2
    <3> QED
      BY <3>1, <3>2, <3>3, StreamFacts
  <2> QED
    BY <2>1, <2>2
<1> QED
  BY <1>4, <1>5, <1>6, <1>7

\* Leaving, and dropping the hub, touch no stream and no slot.
LEMMA EndsIInv ==
    ASSUME IInv,
           \/ BroadcastFull \/ DropHub \/ UNCHANGED vars
           \/ \E c \in Conns : DropReceiver(c) \/ RecvClosed(c)
    PROVE  IInv'
<1>1. UNCHANGED <<ring, tail, next, start, got, missed, told>>
  BY DEF BroadcastFull, DropHub, DropReceiver, RecvClosed, vars
<1>2. status' \in [Conns -> {"none", "live", "dropped", "closed"}]
  BY DEF IInv, TypeOK, BroadcastFull, DropHub, DropReceiver, RecvClosed, vars
<1>3. open' \in BOOLEAN
  BY DEF IInv, TypeOK, BroadcastFull, DropHub, DropReceiver, RecvClosed, vars
<1>4. result' \in 0..Cardinality(Conns)
  BY ActiveFacts DEF IInv, TypeOK, BroadcastFull, DropHub, DropReceiver, RecvClosed, vars
<1>5. TypeOK'
  BY <1>1, <1>2, <1>3, <1>4 DEF IInv, TypeOK
<1>6. RingHoldsNewest' /\ NobodyAhead' /\ StreamIsFaithful'
  BY <1>1 DEF IInv, RingHoldsNewest, NobodyAhead, StreamIsFaithful, Slot, Size
<1> QED
  BY <1>5, <1>6 DEF IInv

LEMMA NextIInv == IInv /\ [Next]_vars => IInv'
<1> SUFFICES ASSUME IInv, [Next]_vars PROVE IInv'
  OBVIOUS
<1>1. ASSUME NEW c \in Conns, Subscribe(c) \/ Recv(c) \/ Lagged(c) PROVE IInv'
  BY <1>1, SubscribeIInv, RecvIInv, LaggedIInv
<1>2. CASE Broadcast
  BY <1>2, BroadcastIInv
<1>3. CASE \/ BroadcastFull \/ DropHub \/ UNCHANGED vars
           \/ \E c \in Conns : DropReceiver(c) \/ RecvClosed(c)
  BY <1>3, EndsIInv
<1> QED
  BY <1>1, <1>2, <1>3 DEF Next, Reads, Over

----------------------------------------------------------------------------
(* Whom a message can reach *)

\* Nobody has got a message that is still to come, or not to be read yet.
LEMMA GotIsPast ==
    ASSUME IInv, NEW c \in Conns, NEW p \in Range(got[c])
    PROVE  p \in Nat /\ p < next[c] /\ p < tail
<1>1. got[c] \in Seq(0..MaxSends) /\ tail \in Nat /\ next[c] \in Nat /\ next[c] <= tail
  BY BoundAssumption DEF IInv, TypeOK, NobodyAhead
<1>2. PICK i \in 1..Len(got[c]) : p = got[c][i]
  BY <1>1, LenProperties DEF Range
<1>3. got[c][i] \in Nat /\ got[c][i] < next[c]
  BY StreamFacts
<1> QED
  BY <1>1, <1>2, <1>3

\* A receiver comes to hold one message more.
LEMMA RecvRange ==
    ASSUME IInv, NEW c \in Conns, Recv(c)
    PROVE  Range(got'[c]) \subseteq Range(got[c]) \cup {next[c]}
<1>1. /\ got[c] \in Seq(0..MaxSends) /\ next[c] \in 0..MaxSends
      /\ got'[c] = Append(got[c], next[c])
  BY DEF IInv, TypeOK, Recv
<1>2. SUFFICES ASSUME NEW i \in DOMAIN got'[c] PROVE got'[c][i] \in Range(got[c]) \cup {next[c]}
  BY DEF Range
<1>3. /\ Len(got[c]) \in Nat /\ DOMAIN got[c] = 1..Len(got[c])
      /\ DOMAIN got'[c] = 1..(Len(got[c]) + 1)
  BY <1>1, LenProperties, AppendProperties
<1>4. CASE i \in 1..Len(got[c])
  BY <1>1, <1>3, <1>4, AppendProperties DEF Range
<1>5. CASE i = Len(got[c]) + 1
  BY <1>1, <1>5, AppendProperties
<1> QED
  BY <1>2, <1>3, <1>4, <1>5

LEMMA EntitledFacts ==
    ASSUME NEW p \in Nat
    PROVE  IsFiniteSet(Entitled(p)) /\ Cardinality(Entitled(p)) \in Nat
<1>1. Entitled(p) \subseteq Conns
  BY DEF Entitled
<1> QED
  BY <1>1, ConnsAssumption, FS_Subset, FS_CardinalityType

\* Once sent, a message gains no recipients: who subscribes starts behind it.
LEMMA NobodyJoinsLate ==
    ASSUME IInv, [Next]_vars, ~Broadcast, NEW p \in 0..(tail - 1)
    PROVE  Entitled(p)' \subseteq Entitled(p) /\ UNCHANGED <<tail, told>>
<1>1. p \in Nat /\ p < tail /\ tail \in Nat
  BY DEF IInv, TypeOK
<1>2. ASSUME NEW c \in Conns, Subscribe(c)
      PROVE  Entitled(p)' \subseteq Entitled(p) /\ UNCHANGED <<tail, told>>
  <2>1. got'[c] = << >> /\ next'[c] = tail
    BY <1>2 DEF Subscribe, SubscribeAt, IInv, TypeOK
  <2>2. c \notin Entitled(p)'
    BY <2>1, <1>1 DEF Entitled, Range
  <2>3. \A d \in Conns : d # c => got'[d] = got[d] /\ next'[d] = next[d] /\ status'[d] = status[d]
    BY <1>2 DEF Subscribe, SubscribeAt, IInv, TypeOK
  <2> QED
    BY <1>2, <2>2, <2>3 DEF Entitled, active, Subscribe, SubscribeAt
<1>3. ASSUME NEW c \in Conns, Recv(c)
      PROVE  Entitled(p)' \subseteq Entitled(p) /\ UNCHANGED <<tail, told>>
  <2>1. \A d \in Conns : d # c => got'[d] = got[d] /\ next'[d] = next[d]
    BY <1>3 DEF Recv, IInv, TypeOK
  <2>2. next'[c] = next[c] + 1 /\ next[c] \in Nat /\ c \in active /\ status' = status
    BY <1>3, BoundAssumption DEF Recv, IInv, TypeOK
  <2>3. c \in Entitled(p)' => c \in Entitled(p)
    BY <1>1, <1>3, <2>2, RecvRange DEF Entitled, active
  <2> QED
    BY <1>3, <2>1, <2>2, <2>3 DEF Entitled, active, Recv
<1>4. ASSUME NEW c \in Conns, Lagged(c)
      PROVE  Entitled(p)' \subseteq Entitled(p) /\ UNCHANGED <<tail, told>>
  <2>1. \A d \in Conns : d # c => next'[d] = next[d]
    BY <1>4 DEF Lagged, IInv, TypeOK
  <2>2. next'[c] = tail - Size /\ next[c] < next'[c] /\ next[c] \in Nat /\ next'[c] \in Nat
    <3>1. next'[c] = tail - Size /\ next[c] \in Nat
      BY <1>4 DEF Lagged, IInv, TypeOK
    <3>2. tail - Size \in Nat /\ next[c] < tail - Size
      BY <1>4, LaggedIsBehind
    <3> QED
      BY <3>1, <3>2
  <2>3. c \in active /\ got' = got /\ status' = status
    BY <1>4 DEF Lagged
  <2> QED
    BY <1>1, <1>4, <2>1, <2>2, <2>3 DEF Entitled, active, Lagged
<1>5. ASSUME NEW c \in Conns, DropReceiver(c) \/ RecvClosed(c)
      PROVE  Entitled(p)' \subseteq Entitled(p) /\ UNCHANGED <<tail, told>>
  <2>1. /\ UNCHANGED <<tail, told, got, next>>
        /\ \A d \in Conns : status'[d] = "live" => status[d] = "live"
    BY <1>5 DEF DropReceiver, RecvClosed, IInv, TypeOK
  <2> QED
    BY <2>1 DEF Entitled, active
<1>6. CASE BroadcastFull \/ DropHub \/ UNCHANGED vars
  BY <1>6 DEF BroadcastFull, DropHub, vars, Entitled, active
<1> QED
  BY <1>2, <1>3, <1>4, <1>5, <1>6 DEF Next, Reads, Over

LEMMA BroadcastToldAll == ASSUME IInv, ToldAll, Broadcast PROVE ToldAll'
<1>1. /\ tail \in Nat /\ tail < MaxSends /\ tail' = tail + 1
      /\ told \in [0..(MaxSends - 1) -> 0..Cardinality(Conns)]
      /\ told' = [told EXCEPT ![tail] = Cardinality(active)]
      /\ UNCHANGED <<status, next, got>>
  BY DEF IInv, TypeOK, Broadcast
<1> SUFFICES ASSUME NEW p \in 0..tail PROVE Cardinality(Entitled(p)') <= told'[p]
  BY <1>1 DEF ToldAll
<1>2. Entitled(p)' = Entitled(p)
  BY <1>1 DEF Entitled, active
<1>3. CASE p = tail
  <2>1. Entitled(p) = active
    <3>1. \A c \in Conns : p \notin Range(got[c])
      BY <1>1, <1>3, GotIsPast
    <3>2. \A c \in Conns : next[c] <= p
      BY <1>3 DEF IInv, NobodyAhead
    <3> QED
      BY <3>1, <3>2 DEF Entitled, active
  <2>2. told'[p] = Cardinality(active)
    BY <1>1, <1>3, BoundAssumption
  <2> QED
    BY <1>2, <2>1, <2>2, ActiveFacts
<1>4. CASE p < tail
  <2>1. told'[p] = told[p] /\ p \in 0..(tail - 1)
    BY <1>1, <1>4, BoundAssumption
  <2> QED
    BY <1>2, <2>1 DEF ToldAll
<1> QED
  BY <1>1, <1>3, <1>4

LEMMA NextToldAll == IInv /\ ToldAll /\ [Next]_vars => ToldAll'
<1> SUFFICES ASSUME IInv, ToldAll, [Next]_vars PROVE ToldAll'
  OBVIOUS
<1>1. CASE Broadcast
  BY <1>1, BroadcastToldAll
<1>2. CASE ~Broadcast
  <2>1. tail \in Nat /\ told \in [0..(MaxSends - 1) -> 0..Cardinality(Conns)] /\ tail <= MaxSends
    BY BoundAssumption DEF IInv, TypeOK
  <2>2. UNCHANGED <<tail, told>> \/ tail = 0
    BY <1>2, <2>1, NobodyJoinsLate
  <2>3. tail = 0 => tail' = 0
    BY <1>2, <2>1 DEF Next, Reads, Over, vars, Subscribe, SubscribeAt, BroadcastFull, Recv,
        Lagged, DropReceiver, DropHub, RecvClosed
  <2>4. ASSUME NEW p \in 0..(tail - 1)
        PROVE  Cardinality(Entitled(p)') <= told[p]
    <3>1. p \in Nat /\ told[p] \in Nat
      BY <2>1, ActiveFacts, BoundAssumption
    <3>2. Entitled(p)' \subseteq Entitled(p)
      BY <1>2, <2>4, NobodyJoinsLate
    <3>3. Cardinality(Entitled(p)') <= Cardinality(Entitled(p)) /\ Cardinality(Entitled(p)') \in Nat
      BY <3>1, <3>2, EntitledFacts, FS_Subset, FS_CardinalityType
    <3> QED
      BY <3>1, <3>3, EntitledFacts DEF ToldAll
  <2>5. CASE UNCHANGED <<tail, told>>
    BY <2>4, <2>5 DEF ToldAll
  <2>6. CASE tail = 0
    <3>1. 0..(tail' - 1) = {}
      BY <2>3, <2>6
    <3> QED
      BY <3>1 DEF ToldAll
  <2> QED
    BY <2>2, <2>5, <2>6
<1> QED
  BY <1>1, <1>2

----------------------------------------------------------------------------
(* The theorems *)

LEMMA Invariant == Spec => []IInv
  BY InitIInv, NextIInv, PTL DEF Spec

\* Positions, slots and counts keep their types: in particular a receiver
\* that lags never resumes before the first message (hub.rs).
THEOREM HubTypeCorrect == Spec => []TypeOK
<1>1. IInv => TypeOK
  BY DEF IInv
<1> QED
  BY <1>1, Invariant, PTL

\* Whatever the ring's size and however slow the receivers, what each was
\* handed and told add up (hub.rs subscribe, broadcast).
THEOREM StreamsAreFaithful == Spec => []StreamIsFaithful
<1>1. IInv => StreamIsFaithful
  BY DEF IInv
<1> QED
  BY <1>1, Invariant, PTL

\* However many connections come, go and lag, no message reaches more of them
\* than broadcast returned (hub.rs broadcast).
THEOREM CountsAreHonest == Spec => []NoMoreThanTold
<1>1. Init => ToldAll
  BY DEF Init, ToldAll
<1>2. IInv /\ ToldAll => NoMoreThanTold
  <2> SUFFICES ASSUME IInv, ToldAll, NEW p \in 0..(MaxSends - 1)
               PROVE  Cardinality({c \in Conns : p \in Range(got[c])}) <= told[p]
    BY DEF NoMoreThanTold
  <2> DEFINE Reached == {c \in Conns : p \in Range(got[c])}
  <2>1. p \in Nat /\ tail \in Nat /\ told[p] \in Nat
    BY ActiveFacts, BoundAssumption DEF IInv, TypeOK
  <2>2. CASE p < tail
    <3>1. Reached \subseteq Entitled(p)
      BY DEF Entitled
    <3>2. Cardinality(Reached) <= Cardinality(Entitled(p)) /\ Cardinality(Reached) \in Nat
      BY <2>1, <3>1, EntitledFacts, FS_Subset, FS_CardinalityType
    <3>3. Cardinality(Entitled(p)) <= told[p] /\ Cardinality(Entitled(p)) \in Nat
      BY <2>1, <2>2, EntitledFacts DEF ToldAll
    <3> QED
      BY <2>1, <3>2, <3>3
  <2>3. CASE ~(p < tail)
    <3>1. Reached = {}
      BY <2>1, <2>3, GotIsPast
    <3> QED
      BY <2>1, <3>1, FS_EmptySet
  <2> QED
    BY <2>2, <2>3
<1> QED
  BY <1>1, <1>2, Invariant, NextToldAll, PTL DEF Spec

\* The ring implements the log: only messages older than the last Capacity
\* are ever skipped, and never without a report (hub.rs, config.rs
\* broadcast_capacity).
THEOREM HubImplementsLog == Spec => LogSpec
<1>1. Init => Log!Init
  BY DEF Init, Log!Init, active
<1>2. IInv /\ [Next]_vars => [Log!Next]_(Log!logVars)
  <2> SUFFICES ASSUME IInv, [Next]_vars PROVE [Log!Next]_(Log!logVars)
    OBVIOUS
  <2> USE DEF Log!Next, Log!logVars
  <2>1. ASSUME NEW c \in Conns, Subscribe(c) PROVE Log!Begin(c)
    BY <2>1 DEF Subscribe, SubscribeAt, Log!Begin, active, IInv, TypeOK
  <2>2. ASSUME NEW c \in Conns, Recv(c) PROVE Log!Read(c)
    BY <2>2 DEF Recv, Log!Read, active
  <2>3. ASSUME NEW c \in Conns, Lagged(c) PROVE \E p \in 0..tail : Log!Skip(c, p)
    <3>1. tail - Size \in Nat /\ next[c] < tail - Size /\ tail \in Nat
      BY <2>3, LaggedIsBehind DEF IInv, TypeOK
    <3>2. tail - Size \in 0..tail /\ (tail - Size) + Capacity <= tail
      BY <3>1, SizeFacts, CapacityAssumption
    <3>3. Log!Skip(c, tail - Size)
      BY <2>3, <3>1, <3>2 DEF Lagged, Log!Skip, active
    <3> QED
      BY <3>2, <3>3
  <2>4. ASSUME NEW c \in Conns, DropReceiver(c) \/ RecvClosed(c) PROVE Log!Leave(c)
    BY <2>4 DEF DropReceiver, RecvClosed, Log!Leave, active, IInv, TypeOK
  <2>5. CASE Broadcast
    BY <2>5 DEF Broadcast, Log!Publish, active
  <2>6. CASE BroadcastFull \/ DropHub \/ UNCHANGED vars
    BY <2>6 DEF BroadcastFull, DropHub, vars, active
  <2> QED
    BY <2>1, <2>2, <2>3, <2>4, <2>5, <2>6 DEF Next, Reads, Over
<1> QED
  BY <1>1, <1>2, Invariant, PTL DEF Spec, LogSpec, Log!Spec

=============================================================================
