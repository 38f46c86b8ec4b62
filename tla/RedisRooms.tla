----------------------------- MODULE RedisRooms -----------------------------
(***************************************************************************)
(* Multi-node room fan-out over Redis pub/sub (src/redis_rooms.rs).  Each  *)
(* node has its local RoomManager, tasks that call                         *)
(* RedisRoomRegistry::broadcast, one publish connection behind a mutex,    *)
(* and one subscriber loop.  Redis is external: PUBLISH hands the message  *)
(* to every connection subscribed at that moment, in one order, and keeps  *)
(* nothing.  The local registry is seen here through the rooms it hosts:   *)
(* each get_or_create of an unhosted id starts a new generation of it.     *)
(* Message m is the m-th call of broadcast.  Every receiver's ring is      *)
(* taken to be large enough (BroadcastHub models the ring itself).         *)
(***************************************************************************)
EXTENDS Naturals, Sequences, FiniteSets, SequencesExt

CONSTANTS
    Nodes,          \* application processes
    Tasks,          \* tasks that broadcast; TaskNode says where they run
    Clients,        \* receivers; ClientNode says where they are connected
    TaskNode, ClientNode,
    RoomIds,        \* room ids, as sequences of name segments
    Prefix,         \* node -> channel prefix, a sequence of segments
    FirstId,        \* node -> the node id its first start draws
    MaxMsgs,        \* bound: broadcast calls
    MaxGens,        \* bound: generations of one room on one node
    MaxFaults       \* bound: lost replies, failures, disconnects, restarts, bad envelopes

ASSUME RedisAssumption ==
    /\ TaskNode \in [Tasks -> Nodes] /\ ClientNode \in [Clients -> Nodes]
    /\ FirstId \in [Nodes -> Nat \ {0}]
    /\ \E n \in Nodes : \A k \in Nodes : FirstId[k] <= FirstId[n]    \* Nodes is finite
    /\ RoomIds \subseteq Seq(STRING) /\ Prefix \in [Nodes -> Seq(STRING)]
    /\ MaxMsgs \in Nat /\ MaxGens \in Nat /\ MaxFaults \in Nat

VARIABLES
    hosted,     \* hosted[n][r]: the generation node n hosts, or 0
    made,       \* made[n][r]: generations started so far
    asked,      \* history: rooms node n's own callers asked for since the last removal
    sub,        \* client -> <<room id, generation>> it is subscribed to, or << >>
    got,        \* client -> messages it received, in order
    nodeId,     \* node -> its current node id
    ids,        \* the largest node id drawn so far
    pc,         \* where each task stands in broadcast
    cur,        \* its message
    gen,        \* the generation its get_or_create returned
    lock,       \* node -> the task holding the publish connection, or Free
    sentTo,     \* message -> the room id it was broadcast to
    sentBy,     \* message -> its sender: a task of one life of its process
    link,       \* node -> is its subscription established?
    inbox,      \* node -> envelopes delivered to its subscription
    applying,   \* node -> <<message, room id, generation>> being applied, or << >>
    afloat,     \* envelopes of dead processes, on their way to Redis or lost
    faults

roomVars == <<hosted, made, asked>>
taskVars == <<pc, cur, gen, lock>>
msgVars == <<sentTo, sentBy>>
vars == <<hosted, made, asked, sub, got, nodeId, ids, pc, cur, gen, lock,
          sentTo, sentBy, link, inbox, applying, afloat, faults>>

Free == "free"
Malformed == 0      \* in place of the id of an envelope that does not decode
Sent == Len(sentTo)

\* A process lives under one node id; every restart is a fault.
Lives == 1..(Max(Range(FirstId)) + MaxFaults)
Senders == Tasks \X Lives
Me(t) == <<t, nodeId[TaskNode[t]]>>
NodeOf(m) == TaskNode[sentBy[m][1]]

Envelopes == [id : Nat, channel : Seq(STRING), msg : 0..MaxMsgs]
Subs == {<< >>} \cup (RoomIds \X (1..MaxGens))

TypeOK ==
    /\ hosted \in [Nodes -> [RoomIds -> 0..MaxGens]]
    /\ made \in [Nodes -> [RoomIds -> 0..MaxGens]]
    /\ asked \in [Nodes -> SUBSET RoomIds]
    /\ sub \in [Clients -> Subs]
    /\ got \in [Clients -> Seq(1..MaxMsgs)]
    /\ nodeId \in [Nodes -> Lives] /\ ids \in Lives
    /\ pc \in [Tasks -> {"idle", "local", "lock", "publish"}]
    /\ cur \in [Tasks -> 0..MaxMsgs] /\ gen \in [Tasks -> 0..MaxGens]
    /\ lock \in [Nodes -> Tasks \cup {Free}]
    /\ sentTo \in Seq(RoomIds) /\ sentBy \in Seq(Senders) /\ Len(sentTo) = Len(sentBy)
    /\ link \in [Nodes -> {"up", "down"}]
    /\ inbox \in [Nodes -> Seq(Envelopes)]
    /\ applying \in [Nodes -> {<< >>} \cup ((1..MaxMsgs) \X RoomIds \X (1..MaxGens))]
    /\ afloat \subseteq Envelopes
    /\ faults \in 0..MaxFaults

Init ==
    /\ hosted = [n \in Nodes |-> [r \in RoomIds |-> 0]]
    /\ made = hosted
    /\ asked = [n \in Nodes |-> {}]
    /\ sub = [c \in Clients |-> << >>]
    /\ got = [c \in Clients |-> << >>]
    /\ nodeId = FirstId
    /\ ids = Max(Range(FirstId))
    /\ pc = [t \in Tasks |-> "idle"]
    /\ cur = [t \in Tasks |-> 0]
    /\ gen = [t \in Tasks |-> 0]
    /\ lock = [n \in Nodes |-> Free]
    /\ sentTo = << >>
    /\ sentBy = << >>
    /\ link = [n \in Nodes |-> "down"]
    /\ inbox = [n \in Nodes |-> << >>]
    /\ applying = [n \in Nodes |-> << >>]
    /\ afloat = {}
    /\ faults = 0

----------------------------------------------------------------------------
(* The local registry, as a node's own callers use it *)

GenerationFor(n, r) == IF hosted[n][r] # 0 THEN hosted[n][r] ELSE made[n][r] + 1

\* Mutation of GetOrCreate: no lookup first, every call makes a room.
GetOrCreateAlwaysNew(n, r) ==
    /\ GenerationFor(n, r) <= MaxGens
    /\ hosted' = [hosted EXCEPT ![n][r] = made[n][r] + 1]
    /\ made' = [made EXCEPT ![n][r] = @ + 1]
    /\ asked' = [asked EXCEPT ![n] = @ \cup {r}]

\* local.get_or_create(r) by a caller on node n.
GetOrCreate(n, r) ==
    /\ GenerationFor(n, r) <= MaxGens
    /\ hosted' = [hosted EXCEPT ![n][r] = GenerationFor(n, r)]
    /\ made' = [made EXCEPT ![n][r] = IF hosted[n][r] # 0 THEN @ ELSE @ + 1]
    /\ asked' = [asked EXCEPT ![n] = @ \cup {r}]

\* Everybody subscribed to this generation of the room receives m.
Deliver(n, r, g, m) ==
    got' = [c \in Clients |->
              IF ClientNode[c] = n /\ sub[c] = <<r, g>> THEN Append(got[c], m) ELSE got[c]]

ClientJoin(c, r) ==
    /\ sub[c] = << >>
    /\ GetOrCreate(ClientNode[c], r)
    /\ sub' = [sub EXCEPT ![c] = <<r, GenerationFor(ClientNode[c], r)>>]
    /\ UNCHANGED <<got, nodeId, ids, taskVars, msgVars, afloat, link, inbox, applying, faults>>

ClientLeave(c) ==
    /\ sub[c] # << >>
    /\ sub' = [sub EXCEPT ![c] = << >>]
    /\ UNCHANGED <<roomVars, got, nodeId, ids, taskVars, msgVars, afloat, link, inbox, applying, faults>>

\* remove or a cleanup on node n.
RemoveRoom(n, r) ==
    /\ hosted[n][r] # 0
    /\ hosted' = [hosted EXCEPT ![n][r] = 0]
    /\ asked' = [asked EXCEPT ![n] = @ \ {r}]
    /\ UNCHANGED <<made, sub, got, nodeId, ids, taskVars, msgVars, afloat, link, inbox, applying, faults>>

----------------------------------------------------------------------------
(* broadcast *)

\* local.get_or_create(room_id) ...
BroadcastStart(t, r) ==
    /\ pc[t] = "idle"
    /\ Sent < MaxMsgs
    /\ GetOrCreate(TaskNode[t], r)
    /\ gen' = [gen EXCEPT ![t] = GenerationFor(TaskNode[t], r)]
    /\ cur' = [cur EXCEPT ![t] = Sent + 1]
    /\ sentTo' = Append(sentTo, r)
    /\ sentBy' = Append(sentBy, Me(t))
    /\ pc' = [pc EXCEPT ![t] = "local"]
    /\ UNCHANGED <<sub, got, nodeId, ids, lock, link, inbox, applying, afloat, faults>>

\* ... .broadcast(frame): local receivers first; none of them is no error.
BroadcastLocal(t) ==
    /\ pc[t] = "local"
    /\ Deliver(TaskNode[t], sentTo[cur[t]], gen[t], cur[t])
    /\ pc' = [pc EXCEPT ![t] = "lock"]
    /\ UNCHANGED <<roomVars, sub, nodeId, ids, cur, gen, lock, msgVars, afloat, link, inbox, applying, faults>>

\* publish: take the connection ...
LockConnection(t) ==
    /\ pc[t] = "lock"
    /\ lock[TaskNode[t]] = Free
    /\ lock' = [lock EXCEPT ![TaskNode[t]] = t]
    /\ pc' = [pc EXCEPT ![t] = "publish"]
    /\ UNCHANGED <<roomVars, sub, got, nodeId, ids, cur, gen, msgVars, afloat, link, inbox, applying, faults>>

\* The caller drops the future while it waits for the connection.
CancelWaiting(t) ==
    /\ pc[t] = "lock"
    /\ faults < MaxFaults
    /\ faults' = faults + 1
    /\ pc' = [pc EXCEPT ![t] = "idle"]
    /\ UNCHANGED <<roomVars, sub, got, nodeId, ids, cur, gen, lock, msgVars, afloat, link, inbox, applying>>

ChannelName(n, r) == Prefix[n] \o r

\* Redis passes an envelope to every subscription whose pattern matches.
Publish(env) ==
    inbox' = [n \in Nodes |->
                IF link[n] = "up" /\ IsPrefix(Prefix[n], env.channel)
                THEN Append(inbox[n], env) ELSE inbox[n]]

\* broadcast returns and the connection is free again.
Return(t) ==
    /\ lock' = [lock EXCEPT ![TaskNode[t]] = Free]
    /\ pc' = [pc EXCEPT ![t] = "idle"]

EnvelopeOf(t) ==
    [id |-> nodeId[TaskNode[t]],
     channel |-> ChannelName(TaskNode[t], sentTo[cur[t]]),
     msg |-> cur[t]]

\* Mutation of PublishReaches: a publish whose reply is lost is made again.
PublishReachesAgain(t, replied) ==
    /\ pc[t] = "publish"
    /\ LET env == EnvelopeOf(t)
           published == IF replied THEN <<env>> ELSE <<env, env>>
       IN  inbox' = [n \in Nodes |->
                        IF link[n] = "up" /\ IsPrefix(Prefix[n], env.channel)
                        THEN inbox[n] \o published ELSE inbox[n]]
    /\ Return(t)
    /\ replied \/ faults < MaxFaults
    /\ faults' = IF replied THEN faults ELSE faults + 1
    /\ UNCHANGED <<roomVars, sub, got, nodeId, ids, cur, gen, msgVars, afloat, link, applying>>

\* ... and PUBLISH.  The reply arrives, or (one fault) it is lost, or the
\* caller drops the future before it arrives.
PublishReaches(t, replied) ==
    /\ pc[t] = "publish"
    /\ Publish(EnvelopeOf(t))
    /\ Return(t)
    /\ replied \/ faults < MaxFaults
    /\ faults' = IF replied THEN faults ELSE faults + 1
    /\ UNCHANGED <<roomVars, sub, got, nodeId, ids, cur, gen, msgVars, afloat, link, applying>>

\* Mutation of PublishFails: the early return leaks the connection.
PublishFailsKeepsLock(t) ==
    /\ pc[t] = "publish"
    /\ faults < MaxFaults
    /\ faults' = faults + 1
    /\ pc' = [pc EXCEPT ![t] = "idle"]
    /\ UNCHANGED <<roomVars, sub, got, nodeId, ids, cur, gen, lock, msgVars, afloat, link, inbox, applying>>

\* PUBLISH fails on the way, or the caller drops the future before anything
\* is sent: nothing was published, and the guard is dropped.
PublishFails(t) ==
    /\ pc[t] = "publish"
    /\ faults < MaxFaults
    /\ faults' = faults + 1
    /\ Return(t)
    /\ UNCHANGED <<roomVars, sub, got, nodeId, ids, cur, gen, msgVars, afloat, link, inbox, applying>>

----------------------------------------------------------------------------
(* run_subscriber and apply_remote *)

\* PSUBSCRIBE prefix*; a caller's retry loop starts it again after it ended.
SubscriberStart(n) ==
    /\ link[n] = "down"
    /\ inbox[n] = << >> /\ applying[n] = << >>
    /\ link' = [link EXCEPT ![n] = "up"]
    /\ UNCHANGED <<roomVars, sub, got, nodeId, ids, taskVars, msgVars, afloat, inbox, applying, faults>>

\* The connection dies; what it had already handed over is still applied.
SubscriberCut(n) ==
    /\ link[n] = "up"
    /\ faults < MaxFaults
    /\ faults' = faults + 1
    /\ link' = [link EXCEPT ![n] = "down"]
    /\ \E k \in 0..Len(inbox[n]) : inbox' = [inbox EXCEPT ![n] = SubSeq(@, 1, k)]
    /\ UNCHANGED <<roomVars, sub, got, nodeId, ids, taskVars, msgVars, afloat, applying>>

\* Mutation of RoomIdFromChannel: what follows the last separator.
LastSegment(n, channel) == <<Last(channel)>>

\* room_id_from_channel: strip the node's own prefix.
RoomIdFromChannel(n, channel) ==
    SubSeq(channel, Len(Prefix[n]) + 1, Len(channel))

\* Mutation of Ignored: no self-echo suppression.
IgnoredButEchoes(n, env) ==
    \/ env.id = Malformed
    \/ RoomIdFromChannel(n, env.channel) \notin RoomIds
    \/ hosted[n][RoomIdFromChannel(n, env.channel)] = 0

\* apply_remote up to local.get: bad envelopes, self-echoes and messages for
\* rooms this node does not host are dropped.
Ignored(n, env) ==
    \/ env.id = Malformed
    \/ env.id = nodeId[n]
    \/ RoomIdFromChannel(n, env.channel) \notin RoomIds
    \/ hosted[n][RoomIdFromChannel(n, env.channel)] = 0

\* Mutation of ApplyGet: one task per message, in whatever order they run.
ApplyGetAny(n) ==
    /\ inbox[n] # << >> /\ applying[n] = << >>
    /\ \E i \in 1..Len(inbox[n]) :
        LET env == inbox[n][i]
            r == RoomIdFromChannel(n, env.channel)
        IN  /\ inbox' = [inbox EXCEPT ![n] = RemoveAt(@, i)]
            /\ applying' = [applying EXCEPT ![n] =
                   IF Ignored(n, env) THEN << >> ELSE <<env.msg, r, hosted[n][r]>>]
    /\ UNCHANGED <<roomVars, sub, got, nodeId, ids, taskVars, msgVars, afloat, link, faults>>

\* Mutation of ApplyGet: get_or_create instead of get.
ApplyGetOrCreate(n) ==
    /\ inbox[n] # << >> /\ applying[n] = << >>
    /\ inbox' = [inbox EXCEPT ![n] = Tail(@)]
    /\ LET env == Head(inbox[n])
           r == RoomIdFromChannel(n, env.channel)
       IN  IF env.id \in {Malformed, nodeId[n]} \/ r \notin RoomIds \/ GenerationFor(n, r) > MaxGens
           THEN UNCHANGED <<applying, hosted, made>>
           ELSE /\ hosted' = [hosted EXCEPT ![n][r] = GenerationFor(n, r)]
                /\ made' = [made EXCEPT ![n][r] = IF hosted[n][r] # 0 THEN @ ELSE @ + 1]
                /\ applying' = [applying EXCEPT ![n] = <<env.msg, r, GenerationFor(n, r)>>]
    /\ UNCHANGED <<asked, sub, got, nodeId, ids, taskVars, msgVars, afloat, link, faults>>

\* Mutation of ApplyGet: an envelope that does not decode is tried again.
ApplyGetStuck(n) ==
    /\ inbox[n] # << >> /\ applying[n] = << >>
    /\ LET env == Head(inbox[n])
           r == RoomIdFromChannel(n, env.channel)
       IN  IF env.id = Malformed
           THEN UNCHANGED <<inbox, applying>>
           ELSE /\ inbox' = [inbox EXCEPT ![n] = Tail(@)]
                /\ applying' = [applying EXCEPT ![n] =
                       IF Ignored(n, env) THEN << >> ELSE <<env.msg, r, hosted[n][r]>>]
    /\ UNCHANGED <<roomVars, sub, got, nodeId, ids, taskVars, msgVars, afloat, link, faults>>

ApplyGet(n) ==
    /\ inbox[n] # << >> /\ applying[n] = << >>
    /\ inbox' = [inbox EXCEPT ![n] = Tail(@)]
    /\ LET env == Head(inbox[n])
           r == RoomIdFromChannel(n, env.channel)
       IN  applying' = [applying EXCEPT ![n] =
               IF Ignored(n, env) THEN << >> ELSE <<env.msg, r, hosted[n][r]>>]
    /\ UNCHANGED <<roomVars, sub, got, nodeId, ids, taskVars, msgVars, afloat, link, faults>>

\* room.broadcast(frame) on the room found.
ApplySend(n) ==
    /\ applying[n] # << >>
    /\ Deliver(n, applying[n][2], applying[n][3], applying[n][1])
    /\ applying' = [applying EXCEPT ![n] = << >>]
    /\ UNCHANGED <<roomVars, sub, nodeId, ids, taskVars, msgVars, afloat, link, inbox, faults>>

----------------------------------------------------------------------------
(* Environment *)

\* Some other program publishes bytes that do not decode.
BadEnvelope(n, r) ==
    /\ faults < MaxFaults
    /\ faults' = faults + 1
    /\ Publish([id |-> Malformed, channel |-> ChannelName(n, r), msg |-> 0])
    /\ UNCHANGED <<roomVars, sub, got, nodeId, ids, taskVars, msgVars, afloat, link, applying>>

\* The process of node n dies, its clients' connections with it, and starts
\* again with a fresh node id.  A PUBLISH it was making is not called back.
Restart(n) ==
    /\ faults < MaxFaults
    /\ faults' = faults + 1
    /\ hosted' = [hosted EXCEPT ![n] = [r \in RoomIds |-> 0]]
    /\ asked' = [asked EXCEPT ![n] = {}]
    /\ sub' = [c \in Clients |-> IF ClientNode[c] = n THEN << >> ELSE sub[c]]
    /\ got' = [c \in Clients |-> IF ClientNode[c] = n THEN << >> ELSE got[c]]
    /\ ids' = ids + 1
    /\ nodeId' = [nodeId EXCEPT ![n] = ids + 1]
    /\ pc' = [t \in Tasks |-> IF TaskNode[t] = n THEN "idle" ELSE pc[t]]
    /\ lock' = [lock EXCEPT ![n] = Free]
    /\ link' = [link EXCEPT ![n] = "down"]
    /\ inbox' = [inbox EXCEPT ![n] = << >>]
    /\ applying' = [applying EXCEPT ![n] = << >>]
    /\ afloat' = afloat \cup {EnvelopeOf(t) : t \in {u \in Tasks : TaskNode[u] = n /\ pc[u] = "publish"}}
    /\ UNCHANGED <<made, cur, gen, msgVars>>

\* What a dead process was publishing reaches Redis after all; it may also
\* never do so.
StrayArrives(env) ==
    /\ env \in afloat
    /\ Publish(env)
    /\ afloat' = afloat \ {env}
    /\ UNCHANGED <<roomVars, sub, got, nodeId, ids, taskVars, msgVars, link, applying, faults>>

----------------------------------------------------------------------------

TaskStep(t) ==
    \/ BroadcastLocal(t)
    \/ LockConnection(t)
    \/ \E replied \in BOOLEAN : PublishReaches(t, replied)
    \/ PublishFails(t)

ApplyStep(n) == ApplyGet(n) \/ ApplySend(n)

\* No broadcast and no delivery is under way.
Quiet ==
    /\ \A t \in Tasks : pc[t] = "idle"
    /\ \A n \in Nodes : inbox[n] = << >> /\ applying[n] = << >>
    /\ UNCHANGED vars

Next ==
    \/ \E t \in Tasks : TaskStep(t) \/ CancelWaiting(t)
    \/ \E t \in Tasks, r \in RoomIds : BroadcastStart(t, r)
    \/ \E n \in Nodes : ApplyStep(n) \/ SubscriberStart(n) \/ SubscriberCut(n) \/ Restart(n)
    \/ \E c \in Clients : ClientLeave(c) \/ \E r \in RoomIds : ClientJoin(c, r)
    \/ \E n \in Nodes, r \in RoomIds : RemoveRoom(n, r) \/ BadEnvelope(n, r)
    \/ \E env \in afloat : StrayArrives(env)
    \/ Quiet

Spec == Init /\ [][Next]_vars

\* Tasks in a broadcast are polled, Redis answers or the connection errs,
\* and the subscriber loop is polled.
FairSpec ==
    /\ Spec
    /\ \A t \in Tasks : WF_vars(TaskStep(t))
    /\ \A n \in Nodes : WF_vars(ApplyStep(n))

----------------------------------------------------------------------------
(* Properties *)

\* No connected client receives one broadcast twice, directly and through
\* Redis or through two deliveries, whatever nodes restart, reconnect or
\* remove rooms meanwhile, and also when a restarted node gets what its dead
\* process published and no longer knows it for its own (redis_rooms.rs
\* self-echo suppression, "At-most-once").
AtMostOnce == \A c \in Clients : IsInjective(got[c])

\* A broadcast only ever reaches clients of the room it was made to, on
\* every node (redis_rooms.rs channel_name, room_id_from_channel).
RoomIsolation ==
    [][\A c \in Clients :
        Len(got'[c]) > Len(got[c]) => sub[c] # << >> /\ sub[c][1] = sentTo[Last(got'[c])]]_vars

\* Each client sees the broadcasts of one task in the order that task made
\* them, on the task's node and on every other, late ones of a process that
\* died included (broadcast awaits publish; the subscriber loop applies one
\* message at a time).
PerTaskOrder ==
    \A c \in Clients : \A i, j \in 1..Len(got[c]) :
        i < j /\ sentBy[got[c][i]] = sentBy[got[c][j]] => got[c][i] < got[c][j]

\* Nodes, channels and subscriptions implement rooms that know of no nodes: a
\* delivery reaches the members of one instance of the message's room, all of
\* them in one step, after what they got from that sender, whatever fails,
\* restarts, is cut or comes back meanwhile (redis_rooms.rs broadcast,
\* apply_remote, run_subscriber).
Delivery == INSTANCE RoomDelivery WITH
    Senders <- Senders, Members <- Clients, Homes <- Nodes, Home <- ClientNode,
    Rooms <- RoomIds, Instances <- 1..MaxGens,
    sentTo <- sentTo, sentBy <- sentBy, seat <- sub, got <- got

DeliverySpec == Delivery!Spec

\* A node hosts only rooms its own callers asked for: traffic from other
\* nodes never brings a room into being, or back (redis_rooms.rs
\* apply_remote, "remote traffic never materializes rooms").
NoPhantomRooms ==
    \A n \in Nodes, r \in RoomIds : hosted[n][r] # 0 => r \in asked[n]

\* Every broadcast returns, also when publishes before it failed: the
\* connection's mutex is released on every path (redis_rooms.rs publish).
BroadcastReturns == \A t \in Tasks : pc[t] # "idle" ~> pc[t] = "idle"

\* A message of another node that reached this node's subscription gets to
\* a client that stays in the hosted room, while the subscription stays up:
\* bad envelopes and echoes before it do not stop the loop (run_subscriber).
Awaits(c, m) ==
    LET n == ClientNode[c]
    IN  /\ m <= Sent
        /\ sub[c] = <<sentTo[m], hosted[n][sentTo[m]]>>
        /\ \E i \in 1..Len(inbox[n]) :
              inbox[n][i].msg = m /\ inbox[n][i].id \notin {Malformed, nodeId[n]}

Interrupted(c) ==
    \/ link[ClientNode[c]] = "down"
    \/ sub[c] = << >>
    \/ hosted[ClientNode[c]][sub[c][1]] # sub[c][2]

RemoteDelivery ==
    \A c \in Clients, m \in 1..MaxMsgs :
        Awaits(c, m) ~> (m \in Range(got[c]) \/ Interrupted(c))

----------------------------------------------------------------------------
(* What the documentation says, checked against the code *)

\* redis_rooms.rs connect_with_prefix: "rooms of unrelated deployments can
\* share one Redis by differing prefixes".
DeploymentIsolation ==
    [][\A c \in Clients :
        Len(got'[c]) > Len(got[c]) =>
            Prefix[NodeOf(Last(got'[c]))] = Prefix[ClientNode[c]]]_vars

=============================================================================
