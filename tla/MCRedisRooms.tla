---------------------------- MODULE MCRedisRooms ----------------------------
(* Small instances of the multi-node fan-out for TLC. *)
EXTENDS RedisRooms, TLC

CONSTANTS a, b, t1, t2, c1, c2

TwoNodes == {a, b}
SymTasks == Permutations({t1, t2})
OneTask == {t1}
TwoTasks == {t1, t2}
TwoClients == {c1, c2}
RemoteClient == {c2}

\* One task on each node, or both on node a.
Apart == (t1 :> a) @@ (t2 :> b)
Together == (t1 :> a) @@ (t2 :> a)
OnlyA == (t1 :> a)
OnlyB == (c2 :> b)
ClientsApart == (c1 :> a) @@ (c2 :> b)

Lobby == <<"lobby">>
EuLobby == <<"eu", "lobby">>
OneRoom == {Lobby}
TwoRooms == {Lobby, EuLobby}

SamePrefix == (a :> <<"ws">>) @@ (b :> <<"ws">>)
NestedPrefix == (a :> <<"ws">>) @@ (b :> <<"ws", "eu">>)

DistinctIds == (a :> 1) @@ (b :> 2)
=============================================================================
