---------------------------- MODULE BroadcastHub ----------------------------
(***************************************************************************)
(* BroadcastHub (src/hub.rs) and the message side of Room (src/room.rs):   *)
(* publishers send into one tokio broadcast channel and every connection   *)
(* reads it through a receiver of its own.  The channel is external: a     *)
(* ring whose size is the requested capacity rounded up to a power of two, *)
(* a `tail` position, and per receiver the position it reads next; sends,  *)
(* subscriptions and receiver drops are serialised by the channel's lock.  *)
(* A message is identified with the position it was sent at.               *)
(***************************************************************************)
EXTENDS Naturals, Sequences, FiniteSets, Functions

CONSTANTS
    Conns,      \* connections, each holding at most one receiver at a time
    Capacity,   \* the capacity the hub or room was created with
    RingSize(_),\* slots tokio allocates for a requested capacity
    MaxSends    \* bound: messages ever sent

ASSUME ConnsAssumption == IsFiniteSet(Conns)
ASSUME CapacityAssumption == Capacity \in Nat \ {0}     \* channel(0) panics
ASSUME RingAssumption == \A n \in 1..Capacity : RingSize(n) \in Nat /\ n <= RingSize(n)
ASSUME BoundAssumption == MaxSends \in Nat

NoMsg == MaxSends   \* no position is ever MaxSends

\* Mutation of Requested: half of what was configured.
RequestedHalf == Capacity \div 2

\* What new and from_config ask tokio for.
Requested == Capacity

Size == RingSize(Requested)

VARIABLES
    ring,       \* slot -> position of the message in it, or NoMsg
    tail,       \* position of the next message
    open,       \* some clone of the hub is alive
    status,     \* what became of each connection's receiver
    next,       \* per receiver, the position it reads next
    start,      \* per receiver, the tail when it subscribed
    got,        \* per receiver, the positions recv returned, in order
    missed,     \* per receiver, the total of its Lagged(n) reports
    told,       \* per message, the number of receivers broadcast returned
    result      \* what the last broadcast returned, 0 for BroadcastFull

vars == <<ring, tail, open, status, next, start, got, missed, told, result>>

\* The live receivers; the channel's rx_cnt is their number.
active == {c \in Conns : status[c] = "live"}

TypeOK ==
    /\ ring \in [0..(Size - 1) -> 0..MaxSends]
    /\ tail \in 0..MaxSends
    /\ open \in BOOLEAN
    /\ status \in [Conns -> {"none", "live", "dropped", "closed"}]
    /\ next \in [Conns -> 0..MaxSends]
    /\ start \in [Conns -> 0..MaxSends]
    /\ got \in [Conns -> Seq(0..MaxSends)]
    /\ missed \in [Conns -> 0..MaxSends]
    /\ told \in [0..(MaxSends - 1) -> 0..Cardinality(Conns)]
    /\ result \in 0..Cardinality(Conns)

Init ==
    /\ ring = [s \in 0..(Size - 1) |-> NoMsg]
    /\ tail = 0
    /\ open = TRUE
    /\ status = [c \in Conns |-> "none"]
    /\ next = [c \in Conns |-> 0]
    /\ start = [c \in Conns |-> 0]
    /\ got = [c \in Conns |-> << >>]
    /\ missed = [c \in Conns |-> 0]
    /\ told = [p \in 0..(MaxSends - 1) |-> 0]
    /\ result = 0

Slot(p) == p % Size

\* subscribe(): a new receiver that starts at position p.
SubscribeAt(c, p) ==
    /\ open
    /\ c \notin active
    /\ status' = [status EXCEPT ![c] = "live"]
    /\ next' = [next EXCEPT ![c] = p]
    /\ start' = [start EXCEPT ![c] = p]
    /\ got' = [got EXCEPT ![c] = << >>]
    /\ missed' = [missed EXCEPT ![c] = 0]
    /\ UNCHANGED <<ring, tail, open, told, result>>

\* Mutation of Subscribe: replay a whole ring, whether or not it has filled.
SubscribeUnderflow(c) == SubscribeAt(c, tail - Size)

\* Mutation of Subscribe: replay what the ring still holds.
SubscribeReplay(c) == SubscribeAt(c, IF tail > Size THEN tail - Size ELSE 0)

\* Mutation of Subscribe: take up the position of the connection's former receiver.
SubscribeResume(c) ==
    /\ open
    /\ c \notin active
    /\ status' = [status EXCEPT ![c] = "live"]
    /\ start' = [start EXCEPT ![c] = tail]
    /\ got' = [got EXCEPT ![c] = << >>]
    /\ missed' = [missed EXCEPT ![c] = 0]
    /\ UNCHANGED <<ring, tail, open, next, told, result>>

\* It starts at the tail.
Subscribe(c) == SubscribeAt(c, tail)

\* broadcast(msg) with a receiver: the oldest message gives way to this one.
Broadcast ==
    /\ open
    /\ active # {}
    /\ tail < MaxSends
    /\ ring' = [ring EXCEPT ![Slot(tail)] = tail]
    /\ tail' = tail + 1
    /\ told' = [told EXCEPT ![tail] = Cardinality(active)]
    /\ result' = Cardinality(active)
    /\ UNCHANGED <<open, status, next, start, got, missed>>

\* broadcast(msg) without one: nothing is stored (try_broadcast: Ok(0)).
BroadcastFull ==
    /\ open
    /\ active = {}
    /\ result' = 0
    /\ UNCHANGED <<ring, tail, open, status, next, start, got, missed, told>>

\* recv() finds its message in the ring.
Recv(c) ==
    /\ c \in active
    /\ next[c] < tail
    /\ ring[Slot(next[c])] = next[c]
    /\ got' = [got EXCEPT ![c] = Append(@, next[c])]
    /\ next' = [next EXCEPT ![c] = @ + 1]
    /\ UNCHANGED <<ring, tail, open, status, start, missed, told, result>>

\* recv() finds its slot overwritten: Lagged(n), resuming at the oldest.
Lagged(c) ==
    /\ c \in active
    /\ next[c] < tail
    /\ ring[Slot(next[c])] # next[c]
    /\ next' = [next EXCEPT ![c] = tail - Size]
    /\ missed' = [missed EXCEPT ![c] = @ + (tail - Size - next[c])]
    /\ UNCHANGED <<ring, tail, open, status, start, got, told, result>>

\* The connection goes away with its receiver.
DropReceiver(c) ==
    /\ c \in active
    /\ status' = [status EXCEPT ![c] = "dropped"]
    /\ UNCHANGED <<ring, tail, open, next, start, got, missed, told, result>>

\* The last clone of the hub is dropped.
DropHub ==
    /\ open
    /\ open' = FALSE
    /\ UNCHANGED <<ring, tail, status, next, start, got, missed, told, result>>

\* recv() on a drained ring after the hub is gone: the connection ends.
RecvClosed(c) ==
    /\ c \in active
    /\ ~open
    /\ next[c] = tail
    /\ status' = [status EXCEPT ![c] = "closed"]
    /\ UNCHANGED <<ring, tail, open, next, start, got, missed, told, result>>

----------------------------------------------------------------------------

\* What a connection's forwarding loop does by itself.
Reads(c) == Recv(c) \/ Lagged(c) \/ RecvClosed(c)

\* The hub is gone and so is every receiver.
Over ==
    /\ ~open /\ active = {}
    /\ UNCHANGED vars

Next ==
    \/ Broadcast
    \/ BroadcastFull
    \/ DropHub
    \/ \E c \in Conns : Subscribe(c) \/ Reads(c) \/ DropReceiver(c)
    \/ Over

Spec == Init /\ [][Next]_vars

----------------------------------------------------------------------------
(* Properties *)

\* Nothing is lost in silence, repeated or reordered: what a receiver was
\* handed and what Lagged told it add up to everything sent between its
\* subscription and where it stands (hub.rs subscribe, broadcast; room.rs).
StreamIsFaithful ==
    \A c \in Conns :
        /\ start[c] + Len(got[c]) + missed[c] = next[c]
        /\ \A i \in 1..Len(got[c]) : start[c] <= got[c][i] /\ got[c][i] < next[c]
        /\ \A i, j \in 1..Len(got[c]) : i < j => got[c][i] < got[c][j]

\* The number broadcast returns is never too small: no more receivers ever
\* get a message than its sender was told (hub.rs broadcast, "Returns the
\* number of receivers that received the message").
NoMoreThanTold ==
    \A p \in 0..(MaxSends - 1) : Cardinality({c \in Conns : p \in Range(got[c])}) <= told[p]

\* Ring, slots and overwriting implement the endless log that every reader
\* follows from its subscription on, gaps being reported and never reaching
\* the last Capacity messages (hub.rs new, subscribe, broadcast; config.rs
\* broadcast_capacity; room.rs subscribe, broadcast).
Log == INSTANCE MessageLog WITH
    Readers <- Conns, Kept <- Capacity,
    sent <- tail, reading <- active, at <- next, got <- got, skipped <- missed

LogSpec == Log!Spec

=============================================================================
