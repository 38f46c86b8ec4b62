---------------------------- MODULE RoomDelivery ----------------------------
(***************************************************************************)
(* What broadcasting to rooms promises their members, wherever they are    *)
(* connected: no hosting, channels, subscriptions, echoes or faults.  A    *)
(* message goes to those who sit together in one instance of its room at   *)
(* one home, to all of them at once, and after whatever any of them has    *)
(* got from its sender.  It need not get to every home.                    *)
(***************************************************************************)
EXTENDS Naturals, Sequences

CONSTANTS
    Senders,
    Members,
    Homes, Home,    \* where members are connected
    Rooms,
    Instances       \* rooms of one name at a home, one after the other

VARIABLES
    sentTo,     \* message -> its room
    sentBy,     \* message -> its sender
    seat,       \* member -> <<room, instance>> it is in, or << >>
    got         \* member -> messages it got, in order

deliveryVars == <<sentTo, sentBy, seat, got>>

Init ==
    /\ sentTo = << >> /\ sentBy = << >>
    /\ seat = [c \in Members |-> << >>]
    /\ got = [c \in Members |-> << >>]

Broadcast(t, r) ==
    /\ sentTo' = Append(sentTo, r)
    /\ sentBy' = Append(sentBy, t)
    /\ UNCHANGED <<seat, got>>

Join(c, r, i) ==
    /\ seat[c] = << >>
    /\ seat' = [seat EXCEPT ![c] = <<r, i>>]
    /\ UNCHANGED <<sentTo, sentBy, got>>

Leave(c) ==
    /\ seat' = [seat EXCEPT ![c] = << >>]
    /\ UNCHANGED <<sentTo, sentBy, got>>

\* Everybody at a home is gone at once; who comes back comes new.
Close(h) ==
    /\ seat' = [c \in Members |-> IF Home[c] = h THEN << >> ELSE seat[c]]
    /\ got' = [c \in Members |-> IF Home[c] = h THEN << >> ELSE got[c]]
    /\ UNCHANGED <<sentTo, sentBy>>

Newest(c, m) ==
    \A k \in 1..Len(got[c]) : sentBy[got[c][k]] = sentBy[m] => got[c][k] < m

Deliver(h, i, m) ==
    LET There == {c \in Members : Home[c] = h /\ seat[c] = <<sentTo[m], i>>}
    IN  /\ \A c \in There : Newest(c, m)
        /\ got' = [c \in Members |-> IF c \in There THEN Append(got[c], m) ELSE got[c]]
        /\ UNCHANGED <<sentTo, sentBy, seat>>

Next ==
    \/ \E t \in Senders, r \in Rooms : Broadcast(t, r)
    \/ \E c \in Members, r \in Rooms, i \in Instances : Join(c, r, i)
    \/ \E c \in Members : Leave(c)
    \/ \E h \in Homes : Close(h)
    \/ \E h \in Homes, i \in Instances, m \in 1..Len(sentTo) : Deliver(h, i, m)

Spec == Init /\ [][Next]_deliveryVars

=============================================================================
