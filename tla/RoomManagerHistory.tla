------------------------- MODULE RoomManagerHistory -------------------------
(***************************************************************************)
(* The room registry together with what an observer of a cleanup call      *)
(* remembers: the rooms that kept a participant, and the rooms that stayed *)
(* vacant, from the moment the call began.  The history variables follow   *)
(* the registry and never constrain it.                                    *)
(***************************************************************************)
EXTENDS RoomManager, Functions

VARIABLES
    steady,     \* steady[t]: <<r, p>> with r registered and p on its roster
                \* in every state since t's cleanup began
    vacant,     \* vacant[t]: rooms registered and empty in every such state
    taken       \* taken[t]: rooms t's cleanup has taken out of the map

hvars == <<vars, steady, vacant, taken>>

Peopled == {x \in Live \X Tasks : x[2] \in participants[x[1]]}
Vacant == {r \in Live : participants[r] = {} /\ receivers[r] = {}}

Cleaning(t) == pc[t] \in {"scan", "roster", "recv", "sweep"}

HInit ==
    /\ Init
    /\ steady = [t \in Tasks |-> {}]
    /\ vacant = [t \in Tasks |-> {}]
    /\ taken = [t \in Tasks |-> {}]

Remember ==
    /\ steady' = [t \in Tasks |->
            IF Cleaning(t) THEN steady[t] \cap Peopled'
            ELSE IF Cleaning(t)' THEN Peopled' ELSE {}]
    /\ vacant' = [t \in Tasks |->
            IF Cleaning(t) THEN vacant[t] \cap Vacant'
            ELSE IF Cleaning(t)' THEN Vacant' ELSE {}]
    /\ taken' = [t \in Tasks |->
            IF pc[t] = "sweep" /\ todo'[t] # todo[t] THEN taken[t] \cup (Live \ Live')
            ELSE IF Cleaning(t) THEN taken[t]
            ELSE {}]

HNext == Next /\ Remember

HSpec == HInit /\ [][HNext]_hvars

HFairSpec == HSpec /\ Fairness

----------------------------------------------------------------------------

\* What the gauge should show: the live rooms, those counted but not yet
\* offered to the map, those that lost the insert race, and the closes still
\* owed for rooms already gone.
OwedCloses(t) ==
    IF pc[t] \in {"sweep", "close"} THEN closes[t] - Len(todo[t]) ELSE 0

Owed == [t \in Tasks |-> OwedCloses(t)]

Offering == {t \in Tasks : pc[t] = "insert"}

Books ==
    Cardinality(Live) + Cardinality(Offering) + Cardinality(lost) + SumFunction(Owed)

\* Whatever tasks create and remove rooms at once, the gauge departs from the
\* books in two ways only: a cleanup counts a key that somebody else has
\* already removed, and a close at zero is swallowed (room.rs room_opened
\* before the insert, room_closed after the removal; stats.rs saturating_dec).
GaugeAccounting ==
    [][\/ gauge' + Books = gauge + Books'
       \/ /\ \E t \in Tasks : pc[t] = "sweep" /\ rooms[Head(todo[t])] = None
          /\ gauge' + Books + 1 = gauge + Books'
       \/ /\ \E t \in Tasks : pc[t] = "close" /\ gauge = 0
          /\ gauge' + Books = gauge + Books' + 1]_hvars

\* A cleanup never takes away a room that some participant stayed in for the
\* whole call, whatever the others do meanwhile: the roster is counted shard
\* by shard and the removal goes by key, so this rests on no step in between
\* being able to replace the room (room.rs cleanup, cleanup_empty).
SteadyRoomsKept ==
    [][\A t \in Tasks :
        pc[t] = "sweep" /\ todo'[t] # todo[t] =>
            \A x \in steady[t] : x[1] \in Live']_hvars

\* A room that is registered and vacant during a whole cleanup is gone when
\* the last removal is done (room.rs cleanup, "Remove all empty rooms").
VacantRoomsSwept ==
    [][\A t \in Tasks : Cleaning(t) /\ ~Cleaning(t)' => vacant'[t] = {}]_hvars

----------------------------------------------------------------------------

\* room.rs: cleanup returns the "number removed", the rooms this call took
\* out of the map.
CleanupReturnsNumberRemoved ==
    [][\A t \in Tasks :
        pc[t] = "sweep" /\ pc'[t] = "close" => n[t] = Cardinality(taken'[t])]_hvars
=============================================================================
