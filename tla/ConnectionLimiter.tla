------------------------- MODULE ConnectionLimiter -------------------------
(***************************************************************************)
(* What the connection counter of ws-kit promises to the handlers that     *)
(* share it: a set of admitted connections; a request made with a limit    *)
(* is admitted or refused, in one indivisible step, by the connections     *)
(* held at that moment.  A decrement by somebody who holds nothing lets    *)
(* one more connection in than the limit says, and refuses nobody.         *)
(***************************************************************************)
EXTENDS Naturals, FiniteSets

CONSTANTS
    Conns,      \* the connection handlers
    Limits,     \* the values callers pass as `max`
    NoLimit     \* `max = None`

VARIABLES
    held,       \* connections admitted and not yet released
    limit,      \* the `max` of each connection's latest request
    outcome,    \* how each connection's latest call stands
    strays      \* units given back by connections that held none

lvars == <<held, limit, outcome, strays>>

LInit ==
    /\ held = {}
    /\ limit = [c \in Conns |-> NoLimit]
    /\ outcome = [c \in Conns |-> "none"]
    /\ strays = 0

Request(c, max) ==
    /\ c \notin held
    /\ outcome[c] # "pending"
    /\ limit' = [limit EXCEPT ![c] = max]
    /\ outcome' = [outcome EXCEPT ![c] = "pending"]
    /\ UNCHANGED <<held, strays>>

Admit(c) ==
    /\ outcome[c] = "pending"
    /\ limit[c] # NoLimit => Cardinality(held) < limit[c] + strays
    /\ held' = held \cup {c}
    /\ outcome' = [outcome EXCEPT ![c] = "admitted"]
    /\ UNCHANGED <<limit, strays>>

Refuse(c) ==
    /\ outcome[c] = "pending"
    /\ limit[c] # NoLimit
    /\ Cardinality(held) >= limit[c]
    /\ outcome' = [outcome EXCEPT ![c] = "refused"]
    /\ UNCHANGED <<held, limit, strays>>

Release(c) ==
    /\ c \in held
    /\ held' = held \ {c}
    /\ outcome' = [outcome EXCEPT ![c] = "released"]
    /\ UNCHANGED <<limit, strays>>

\* A decrement without an increment takes a unit somebody else added.
Stray ==
    /\ held # {}
    /\ strays' = strays + 1
    /\ UNCHANGED <<held, limit, outcome>>

LNext ==
    \/ \E c \in Conns :
        \/ \E max \in Limits : Request(c, max)
        \/ Admit(c)
        \/ Refuse(c)
        \/ Release(c)
    \/ Stray

LSpec == LInit /\ [][LNext]_lvars
=============================================================================
