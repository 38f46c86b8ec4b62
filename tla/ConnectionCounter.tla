------------------------- MODULE ConnectionCounter -------------------------
(***************************************************************************)
(* The connection counter shared by all clones of a BroadcastHub           *)
(* (src/counter.rs, reached through hub.rs increment_connections and       *)
(* decrement_connections).  One AtomicU64, every access Relaxed; each      *)
(* step below is one access to it.  Accesses to a single atomic location   *)
(* are coherent, so interleaving them loses no behaviour of the code.      *)
(***************************************************************************)
EXTENDS Naturals, FiniteSets

CONSTANTS
    Conns,          \* connection handlers, each a task of the server
    Limits,         \* the `max` arguments callers pass
    NoLimit,        \* `max = None`
    MaxCalls        \* bound: counter calls one handler makes

ASSUME ConnsAssumption == IsFiniteSet(Conns)
ASSUME LimitsAssumption == NoLimit \notin Nat /\ Limits \subseteq Nat \cup {NoLimit}
ASSUME BoundAssumption == MaxCalls \in Nat

VARIABLES
    count,      \* the AtomicU64
    pc,         \* where each handler stands in increment / decrement
    limit,      \* its argument `max`
    cur,        \* the value it last read (`current`, or `v` of fetch_update)
    ret,        \* the number its last finished call returned
    outcome,    \* how its last call ended
    calls,      \* calls made so far
    held,       \* handlers whose increment succeeded and is not yet undone
    strays      \* decrements that took a unit their caller never added

vars == <<count, pc, limit, cur, ret, outcome, calls, held, strays>>

PCs == {"idle", "inc_add", "inc_load", "inc_cas", "open", "dec_load", "dec_try", "dec_get"}
Outcomes == {"none", "pending", "admitted", "refused", "released"}

TypeOK ==
    /\ count \in Nat
    /\ pc \in [Conns -> PCs]
    /\ limit \in [Conns -> Limits \cup {NoLimit}]
    /\ cur \in [Conns -> Nat]
    /\ ret \in [Conns -> Nat]
    /\ outcome \in [Conns -> Outcomes]
    /\ calls \in [Conns -> 0..MaxCalls]
    /\ held \in SUBSET Conns
    /\ strays \in Nat

Init ==
    /\ count = 0
    /\ pc = [c \in Conns |-> "idle"]
    /\ limit = [c \in Conns |-> NoLimit]
    /\ cur = [c \in Conns |-> 0]
    /\ ret = [c \in Conns |-> 0]
    /\ outcome = [c \in Conns |-> "none"]
    /\ calls = [c \in Conns |-> 0]
    /\ held = {}
    /\ strays = 0

----------------------------------------------------------------------------
(* increment(max) *)

CallIncrement(c, max) ==
    /\ pc[c] = "idle"
    /\ calls[c] < MaxCalls
    /\ pc' = [pc EXCEPT ![c] = IF max = NoLimit THEN "inc_add" ELSE "inc_load"]
    /\ limit' = [limit EXCEPT ![c] = max]
    /\ outcome' = [outcome EXCEPT ![c] = "pending"]
    /\ calls' = [calls EXCEPT ![c] = @ + 1]
    /\ UNCHANGED <<count, cur, ret, held, strays>>

\* The caller is told its new count and goes on to serve the connection.
Admitted(c) ==
    /\ count' = count + 1
    /\ ret' = [ret EXCEPT ![c] = count + 1]
    /\ pc' = [pc EXCEPT ![c] = "open"]
    /\ outcome' = [outcome EXCEPT ![c] = "admitted"]
    /\ held' = held \cup {c}

\* max = None: one fetch_add.
IncAdd(c) ==
    /\ pc[c] = "inc_add"
    /\ Admitted(c)
    /\ UNCHANGED <<limit, cur, calls, strays>>

\* Mutation of IncLoad: the limit itself is let through.
IncLoadOffByOne(c) ==
    /\ pc[c] = "inc_load"
    /\ cur' = [cur EXCEPT ![c] = count]
    /\ IF count > limit[c]
       THEN /\ pc' = [pc EXCEPT ![c] = "idle"]
            /\ outcome' = [outcome EXCEPT ![c] = "refused"]
       ELSE /\ pc' = [pc EXCEPT ![c] = "inc_cas"]
            /\ UNCHANGED outcome
    /\ UNCHANGED <<count, limit, ret, calls, held, strays>>

\* max = Some(limit): load, and give up with TooManyConnections at the limit.
IncLoad(c) ==
    /\ pc[c] = "inc_load"
    /\ cur' = [cur EXCEPT ![c] = count]
    /\ IF count >= limit[c]
       THEN /\ pc' = [pc EXCEPT ![c] = "idle"]
            /\ outcome' = [outcome EXCEPT ![c] = "refused"]
       ELSE /\ pc' = [pc EXCEPT ![c] = "inc_cas"]
            /\ UNCHANGED outcome
    /\ UNCHANGED <<count, limit, ret, calls, held, strays>>

\* Mutation of IncCas: a fetch_add that trusts the earlier load.
IncCasUnchecked(c) ==
    /\ pc[c] = "inc_cas"
    /\ Admitted(c)
    /\ UNCHANGED <<limit, cur, calls, strays>>

\* Mutation of IncCas: a plain store of current + 1.
IncCasStore(c) ==
    /\ pc[c] = "inc_cas"
    /\ count' = cur[c] + 1
    /\ ret' = [ret EXCEPT ![c] = cur[c] + 1]
    /\ pc' = [pc EXCEPT ![c] = "open"]
    /\ outcome' = [outcome EXCEPT ![c] = "admitted"]
    /\ held' = held \cup {c}
    /\ UNCHANGED <<limit, cur, calls, strays>>

\* compare_exchange(current, current + 1): the value is as it was read ...
IncCas(c) ==
    /\ pc[c] = "inc_cas"
    /\ count = cur[c]
    /\ Admitted(c)
    /\ UNCHANGED <<limit, cur, calls, strays>>

\* Mutation of IncCasFails: retry the exchange without loading again.
IncCasFailsNoReload(c) ==
    /\ pc[c] = "inc_cas"
    /\ count # cur[c]
    /\ UNCHANGED vars

\* ... or another handler moved it, and the loop starts again.
IncCasFails(c) ==
    /\ pc[c] = "inc_cas"
    /\ count # cur[c]
    /\ pc' = [pc EXCEPT ![c] = "inc_load"]
    /\ UNCHANGED <<count, limit, cur, ret, outcome, calls, held, strays>>

----------------------------------------------------------------------------
(* decrement(): fetch_update is a load followed by a compare-exchange loop *)

CallDecrement(c) ==
    /\ calls[c] < MaxCalls
    /\ pc[c] \in {"open", "idle"}     \* idle: a stray decrement
    /\ pc' = [pc EXCEPT ![c] = "dec_load"]
    /\ calls' = [calls EXCEPT ![c] = @ + 1]
    /\ UNCHANGED <<count, limit, cur, ret, outcome, held, strays>>

DecLoad(c) ==
    /\ pc[c] = "dec_load"
    /\ cur' = [cur EXCEPT ![c] = count]
    /\ pc' = [pc EXCEPT ![c] = "dec_try"]
    /\ UNCHANGED <<count, limit, ret, outcome, calls, held, strays>>

\* What the caller held is given back.
GivenBack(c) ==
    /\ pc' = [pc EXCEPT ![c] = "dec_get"]
    /\ outcome' = [outcome EXCEPT ![c] = IF c \in held THEN "released" ELSE @]
    /\ held' = held \ {c}

\* Mutation of DecSaturate: subtract whatever the value is.
DecSaturateNot(c) ==
    /\ pc[c] = "dec_try"
    /\ cur[c] = 0
    /\ count' = count - 1
    /\ GivenBack(c)
    /\ UNCHANGED <<limit, cur, ret, calls, strays>>

\* The closure sees 0 and answers None: nothing is written.
DecSaturate(c) ==
    /\ pc[c] = "dec_try"
    /\ cur[c] = 0
    /\ GivenBack(c)
    /\ UNCHANGED <<count, limit, cur, ret, calls, strays>>

\* The closure answers Some(v - 1) and the exchange succeeds.
DecCas(c) ==
    /\ pc[c] = "dec_try"
    /\ cur[c] # 0
    /\ count = cur[c]
    /\ count' = cur[c] - 1
    /\ strays' = IF c \in held THEN strays ELSE strays + 1
    /\ GivenBack(c)
    /\ UNCHANGED <<limit, cur, ret, calls>>

\* Mutation of DecCasFails: one attempt only.
DecCasFailsGivesUp(c) ==
    /\ pc[c] = "dec_try"
    /\ cur[c] # 0
    /\ count # cur[c]
    /\ GivenBack(c)
    /\ UNCHANGED <<count, limit, cur, ret, calls, strays>>

\* The exchange fails: the loop goes on with the value it found.
DecCasFails(c) ==
    /\ pc[c] = "dec_try"
    /\ cur[c] # 0
    /\ count # cur[c]
    /\ cur' = [cur EXCEPT ![c] = count]
    /\ UNCHANGED <<count, pc, limit, ret, outcome, calls, held, strays>>

\* The returned number is a second, separate load.
DecGet(c) ==
    /\ pc[c] = "dec_get"
    /\ ret' = [ret EXCEPT ![c] = count]
    /\ pc' = [pc EXCEPT ![c] = "idle"]
    /\ UNCHANGED <<count, limit, cur, outcome, calls, held, strays>>

----------------------------------------------------------------------------

\* A step a call in progress takes by itself.
CallStep(c) ==
    \/ IncAdd(c)
    \/ IncLoad(c)
    \/ IncCas(c)
    \/ IncCasFails(c)
    \/ DecLoad(c)
    \/ DecSaturate(c)
    \/ DecCas(c)
    \/ DecCasFails(c)
    \/ DecGet(c)

InCall(c) == pc[c] \notin {"idle", "open"}

\* Every handler is between calls: the server is quiet, not stuck.
Quiet ==
    /\ \A c \in Conns : ~InCall(c)
    /\ UNCHANGED vars

Next ==
    \/ \E c \in Conns, max \in Limits : CallIncrement(c, max)
    \/ \E c \in Conns : CallDecrement(c)
    \/ \E c \in Conns : CallStep(c)
    \/ Quiet

Spec == Init /\ [][Next]_vars

\* The scheduler runs every task that is inside a call.
FairSpec == Spec /\ \A c \in Conns : WF_vars(CallStep(c))

----------------------------------------------------------------------------
(* Properties *)

\* The counter tracks the admitted connections through every race of the
\* compare-exchange loops: it never counts a connection that is not there,
\* and it falls short only by the decrements nobody was entitled to
\* (counter.rs: "Balanced increment/decrement pairs always return the count
\* to zero ... (no lost updates)", "decrement saturates at zero").
ShortOnlyByStrays == Cardinality(held) <= count + strays

CountTracksHeld == count <= Cardinality(held) /\ ShortOnlyByStrays

\* An increment(Some(max)) that succeeds never takes the number of admitted
\* connections above max, however many handlers race for the last place;
\* stray decrements are the only thing that lets more in (counter.rs
\* increment, "exactly the first `max` concurrent increments succeed").
AdmissionWithinLimit ==
    [][\A c \in Conns :
        pc[c] = "inc_cas" /\ pc'[c] = "open"
            => Cardinality(held') <= limit[c] + strays]_vars

\* A handler is turned away only while at least max connections are held at
\* that very moment, never because of an out-of-date view of the counter or
\* a lost race (counter.rs increment).
RefusalJustified ==
    [][\A c \in Conns :
        pc[c] = "inc_load" /\ pc'[c] = "idle"
            => Cardinality(held) >= limit[c]]_vars

\* Every call to increment or decrement returns: a failed compare-exchange
\* means some other call succeeded, so retries end (counter.rs loops).
EveryCallReturns ==
    \A c \in Conns : InCall(c) ~> ~InCall(c)

\* The counter implements the limiter: the admission step is the successful
\* exchange, the refusal the load that saw the limit, the release the
\* successful fetch_update.
Limiter == INSTANCE ConnectionLimiter WITH
    held <- held, limit <- limit, outcome <- outcome, strays <- strays

LimiterSpec == Limiter!LSpec

\* Where a handler stands agrees with what it holds and with what it last
\* read.
ControlAgrees ==
    \A c \in Conns :
        /\ outcome[c] = "pending" <=> pc[c] \in {"inc_add", "inc_load", "inc_cas"}
        /\ pc[c] \in {"idle", "inc_add", "inc_load", "inc_cas", "dec_get"} => c \notin held
        /\ pc[c] = "open" => c \in held
        /\ pc[c] = "inc_add" => limit[c] = NoLimit
        /\ pc[c] \in {"inc_load", "inc_cas"} => limit[c] # NoLimit
        /\ pc[c] = "inc_cas" => cur[c] < limit[c]

\* Handlers about to return from a decrement that read zero: their unit is
\* no longer in the counter, whatever has been added to it since the read.
Saturating == {c \in Conns : pc[c] = "dec_try" /\ cur[c] = 0}

Counted == held \ Saturating

CountsOnlyCounted == count <= Cardinality(Counted)
=============================================================================
