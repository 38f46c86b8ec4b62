-------------------------- MODULE RedisRoomsProofs --------------------------
(***************************************************************************)
(* Proofs about the multi-node fan-out, for any nodes, tasks, clients and  *)
(* rooms, any number of messages, generations and faults.                  *)
(***************************************************************************)
EXTENDS RedisRooms, SequenceTheorems, TLAPS

----------------------------------------------------------------------------
(* Sequences *)

LEMMA AppendFacts ==
    ASSUME NEW S, NEW s \in Seq(S), NEW x \in S
    PROVE  /\ Append(s, x) \in Seq(S)
           /\ Len(Append(s, x)) = Len(s) + 1
           /\ \A i \in 1..Len(s) : Append(s, x)[i] = s[i]
           /\ Append(s, x)[Len(s) + 1] = x
  OBVIOUS

LEMMA TailFacts ==
    ASSUME NEW S, NEW s \in Seq(S), s # << >>
    PROVE  /\ Tail(s) \in Seq(S)
           /\ Len(Tail(s)) = Len(s) - 1
           /\ Len(s) \in Nat \ {0}
           /\ \A i \in 1..Len(Tail(s)) : i + 1 \in 1..Len(s) /\ Tail(s)[i] = s[i + 1]
           /\ Head(s) = s[1] /\ Head(s) \in S
  OBVIOUS

LEMMA InitialFacts ==
    ASSUME NEW S, NEW s \in Seq(S), NEW k \in 0..Len(s)
    PROVE  /\ SubSeq(s, 1, k) \in Seq(S)
           /\ Len(SubSeq(s, 1, k)) = k
           /\ \A i \in 1..k : i \in 1..Len(s) /\ SubSeq(s, 1, k)[i] = s[i]
  OBVIOUS

\* What follows a prefix is what it was put in front of.
LEMMA StripPrefix ==
    ASSUME NEW S, NEW p \in Seq(S), NEW r \in Seq(S)
    PROVE  SubSeq(p \o r, Len(p) + 1, Len(p \o r)) = r
<1> DEFINE w == p \o r
           u == SubSeq(w, Len(p) + 1, Len(w))
<1>1. w \in Seq(S) /\ Len(w) = Len(p) + Len(r) /\ Len(p) \in Nat /\ Len(r) \in Nat
  OBVIOUS
<1>2. \A i \in 1..Len(r) : w[Len(p) + i] = r[i]
  OBVIOUS
<1>3. u \in Seq(S) /\ Len(u) = Len(r)
  BY <1>1
<1>4. \A i \in 1..Len(u) : u[i] = r[i]
  BY <1>1, <1>2, <1>3
<1> QED
  BY <1>3, <1>4, SeqEqual

----------------------------------------------------------------------------
(* Types *)

LEMMA Numbers == MaxMsgs \in Nat /\ MaxGens \in Nat /\ MaxFaults \in Nat
  BY RedisAssumption

LEMMA Places ==
    /\ \A t \in Tasks : TaskNode[t] \in Nodes
    /\ \A c \in Clients : ClientNode[c] \in Nodes
  BY RedisAssumption

\* A fault more, where the bound allows one.
LEMMA OneMoreFault ==
    ASSUME TypeOK, faults < MaxFaults
    PROVE  faults + 1 \in 0..MaxFaults
  BY Numbers DEF TypeOK

\* The largest of the first ids is a number none of them exceeds.
LEMMA FirstIds ==
    /\ Max(Range(FirstId)) \in Nat \ {0}
    /\ \A n \in Nodes : FirstId[n] \in Nat \ {0} /\ FirstId[n] <= Max(Range(FirstId))
<1>1. PICK n \in Nodes : \A k \in Nodes : FirstId[k] <= FirstId[n]
  BY RedisAssumption
<1>2. FirstId[n] \in Range(FirstId) /\ Range(FirstId) \subseteq Nat \ {0}
  BY RedisAssumption DEF Range
<1>3. \A y \in Range(FirstId) : FirstId[n] >= y
  BY <1>1, RedisAssumption DEF Range
<1>4. Max(Range(FirstId)) \in Range(FirstId) /\ \A y \in Range(FirstId) : Max(Range(FirstId)) >= y
  BY <1>2, <1>3 DEF Max
<1>5. \A k \in Nodes : FirstId[k] \in Range(FirstId)
  BY RedisAssumption DEF Range
<1> QED
  BY <1>2, <1>4, <1>5

LEMMA LivesAre == Lives \subseteq Nat \ {Malformed}
  BY FirstIds, Numbers DEF Lives, Malformed

LEMMA InitType == Init => TypeOK
<1> SUFFICES ASSUME Init PROVE TypeOK
  OBVIOUS
<1>1. nodeId \in [Nodes -> Lives] /\ ids \in Lives
  BY FirstIds, RedisAssumption DEF Init, Lives
<1> QED
  BY <1>1, RedisAssumption, EmptySeq DEF Init, TypeOK, Subs

\* The sender a task is now.
LEMMA SenderType ==
    ASSUME TypeOK, NEW t \in Tasks
    PROVE  Me(t) \in Senders /\ Me(t)[1] = t /\ Me(t)[2] = nodeId[TaskNode[t]]
  BY Places DEF TypeOK, Me, Senders

LEMMA GetOrCreateType ==
    ASSUME TypeOK, NEW n \in Nodes, NEW r \in RoomIds, GetOrCreate(n, r)
    PROVE  /\ hosted' \in [Nodes -> [RoomIds -> 0..MaxGens]]
           /\ made' \in [Nodes -> [RoomIds -> 0..MaxGens]]
           /\ asked' \in [Nodes -> SUBSET RoomIds]
           /\ GenerationFor(n, r) \in 1..MaxGens
<1>1. GenerationFor(n, r) \in 1..MaxGens
  BY RedisAssumption, SMTT(30) DEF TypeOK, GetOrCreate, GenerationFor
<1>2. hosted[n][r] = 0 => made[n][r] + 1 \in 0..MaxGens
  BY <1>1, RedisAssumption DEF GenerationFor
<1> QED
  BY <1>1, <1>2 DEF TypeOK, GetOrCreate

LEMMA DeliverType ==
    ASSUME TypeOK, NEW n, NEW r, NEW g, NEW m \in 1..MaxMsgs, Deliver(n, r, g, m)
    PROVE  got' \in [Clients -> Seq(1..MaxMsgs)]
<1>1. \A c \in Clients : got[c] \in Seq(1..MaxMsgs) /\ Append(got[c], m) \in Seq(1..MaxMsgs)
  BY DEF TypeOK
<1> QED
  BY <1>1 DEF Deliver

LEMMA PublishType ==
    ASSUME TypeOK, NEW env \in Envelopes, Publish(env)
    PROVE  inbox' \in [Nodes -> Seq(Envelopes)]
<1>1. \A n \in Nodes : inbox[n] \in Seq(Envelopes) /\ Append(inbox[n], env) \in Seq(Envelopes)
  BY DEF TypeOK
<1> QED
  BY <1>1 DEF Publish

LEMMA ChannelType ==
    ASSUME NEW n \in Nodes, NEW r \in RoomIds
    PROVE  ChannelName(n, r) \in Seq(STRING)
  BY RedisAssumption DEF ChannelName

----------------------------------------------------------------------------
(* The inductive invariant *)

\* A task inside broadcast has the last message it made in hand.
Control ==
    \A t \in Tasks : pc[t] # "idle" =>
        /\ cur[t] \in 1..Sent
        /\ sentBy[cur[t]] = Me(t)
        /\ \A m \in 1..Sent : sentBy[m] = Me(t) => m <= cur[t]

\* No id was drawn beyond the largest, which counts the restarts.
IdsDrawn ==
    /\ ids <= Max(Range(FirstId)) + faults
    /\ \A n \in Nodes : nodeId[n] <= ids
    /\ \A m \in 1..Sent : sentBy[m][2] <= ids

\* An envelope that decodes is that of some message, on the channel of its
\* room, with the id its process had.
Genuine(env) ==
    \/ env.id = Malformed /\ env.msg = 0
    \/ /\ env.id # Malformed
       /\ env.msg \in 1..Sent
       /\ env.channel = ChannelName(NodeOf(env.msg), sentTo[env.msg])
       /\ env.id = sentBy[env.msg][2]

InboxGenuine ==
    \A n \in Nodes : \A i \in 1..Len(inbox[n]) : Genuine(inbox[n][i])

\* What is applied is not of the process that applies it.
AppliesForeign ==
    \A n \in Nodes : applying[n] # << >> =>
        applying[n][1] \in 1..Sent /\ sentBy[applying[n][1]][2] # nodeId[n]

\* What floats decodes, and its sender is dead.
AfloatGenuine ==
    \A e \in afloat :
        /\ e.id # Malformed /\ Genuine(e)
        /\ \A t \in Tasks : sentBy[e.msg] # Me(t)

GotSent ==
    \A c \in Clients : \A k \in 1..Len(got[c]) : got[c][k] \in 1..Sent

\* Nobody but receivers on its own node has seen a message that is not
\* published yet, and they only after the local delivery.
Unpublished ==
    \A t \in Tasks : pc[t] # "idle" =>
        /\ \A n \in Nodes : \A i \in 1..Len(inbox[n]) : inbox[n][i].msg # cur[t]
        /\ \A n \in Nodes : applying[n] # << >> => applying[n][1] # cur[t]
        /\ \A c \in Clients : \A k \in 1..Len(got[c]) :
                got[c][k] = cur[t] => pc[t] # "local" /\ ClientNode[c] = TaskNode[t]

\* m comes before l if the same task made both.
Precedes(m, l) == sentBy[m] = sentBy[l] => m < l

Foreign(n, env) == env.id # Malformed /\ env.id # nodeId[n]

\* What a client has received comes before what its node is applying, which
\* comes before what waits in the inbox, which is in order.
GotBeforeApplying ==
    \A c \in Clients : \A k \in 1..Len(got[c]) :
        applying[ClientNode[c]] # << >> => Precedes(got[c][k], applying[ClientNode[c]][1])

GotBeforeInbox ==
    \A c \in Clients : \A k \in 1..Len(got[c]) : \A i \in 1..Len(inbox[ClientNode[c]]) :
        Foreign(ClientNode[c], inbox[ClientNode[c]][i])
            => Precedes(got[c][k], inbox[ClientNode[c]][i].msg)

ApplyingBeforeInbox ==
    \A n \in Nodes : \A i \in 1..Len(inbox[n]) :
        applying[n] # << >> /\ Foreign(n, inbox[n][i])
            => Precedes(applying[n][1], inbox[n][i].msg)

InboxInOrder ==
    \A n \in Nodes : \A i, j \in 1..Len(inbox[n]) :
        i < j /\ Foreign(n, inbox[n][i]) /\ Foreign(n, inbox[n][j])
            => Precedes(inbox[n][i].msg, inbox[n][j].msg)

TInv == TypeOK /\ Control /\ IdsDrawn /\ InboxGenuine /\ AppliesForeign /\ AfloatGenuine

OInv ==
    /\ GotSent /\ Unpublished
    /\ GotBeforeApplying /\ GotBeforeInbox /\ ApplyingBeforeInbox /\ InboxInOrder
    /\ PerTaskOrder

\* m is somewhere between Redis and a client, or with one.
Out(m) ==
    \/ \E c \in Clients : \E k \in 1..Len(got[c]) : got[c][k] = m
    \/ \E n \in Nodes : applying[n] # << >> /\ applying[n][1] = m
    \/ \E n \in Nodes : \E i \in 1..Len(inbox[n]) : inbox[n][i].id # Malformed /\ inbox[n][i].msg = m

\* A dead sender's floating message is its only one, and comes after all of
\* it that is out.
AfloatLast ==
    \A e \in afloat :
        /\ \A f \in afloat : sentBy[e.msg] = sentBy[f.msg] => e = f
        /\ \A m : Out(m) => Precedes(m, e.msg)

----------------------------------------------------------------------------
(* Types are preserved *)

LEMMA EnvelopeType ==
    ASSUME TInv, NEW t \in Tasks, pc[t] = "publish"
    PROVE  EnvelopeOf(t) \in Envelopes
<1>1. cur[t] \in 1..Sent /\ cur[t] \in 0..MaxMsgs /\ nodeId[TaskNode[t]] \in Nat
  BY Places, LivesAre DEF TInv, Control, TypeOK
<1>2. sentTo[cur[t]] \in RoomIds
  BY <1>1 DEF TInv, TypeOK, Sent
<1>3. ChannelName(TaskNode[t], sentTo[cur[t]]) \in Seq(STRING)
  BY <1>2, ChannelType, Places
<1> QED
  BY <1>1, <1>3 DEF EnvelopeOf, Envelopes

LEMMA NextType ==
    ASSUME TInv, [Next]_vars
    PROVE  TypeOK'
<1> USE DEF TInv
<1>1. ASSUME NEW t \in Tasks, BroadcastLocal(t) PROVE TypeOK'
  <2>1. cur[t] \in 1..MaxMsgs
    BY <1>1 DEF BroadcastLocal, Control, TypeOK
  <2>2. got' \in [Clients -> Seq(1..MaxMsgs)]
    BY <1>1, <2>1, DeliverType DEF BroadcastLocal
  <2> QED
    BY <1>1, <2>2 DEF BroadcastLocal, TypeOK, roomVars, msgVars
<1>2. ASSUME NEW t \in Tasks, LockConnection(t) PROVE TypeOK'
  BY <1>2, Places DEF LockConnection, TypeOK, roomVars, msgVars
<1>3. ASSUME NEW t \in Tasks, NEW replied \in BOOLEAN, PublishReaches(t, replied) PROVE TypeOK'
  <2>1. EnvelopeOf(t) \in Envelopes
    BY <1>3, EnvelopeType DEF PublishReaches
  <2>2. inbox' \in [Nodes -> Seq(Envelopes)]
    BY <1>3, <2>1, PublishType DEF PublishReaches
  <2>3. faults' \in 0..MaxFaults
    BY <1>3, OneMoreFault DEF PublishReaches, TypeOK
  <2>4. lock' \in [Nodes -> Tasks \cup {Free}] /\ pc' \in [Tasks -> {"idle", "local", "lock", "publish"}]
    BY <1>3 DEF PublishReaches, Return, TypeOK
  <2> QED
    BY <1>3, <2>2, <2>3, <2>4 DEF PublishReaches, TypeOK, roomVars, msgVars
<1>4. ASSUME NEW t \in Tasks, PublishFails(t) PROVE TypeOK'
  BY <1>4, OneMoreFault DEF PublishFails, Return, TypeOK, roomVars, msgVars
<1>5. ASSUME NEW t \in Tasks, CancelWaiting(t) PROVE TypeOK'
  BY <1>5, OneMoreFault DEF CancelWaiting, TypeOK, roomVars, msgVars
<1>6. ASSUME NEW t \in Tasks, NEW r \in RoomIds, BroadcastStart(t, r) PROVE TypeOK'
  <2>1. TaskNode[t] \in Nodes
    BY Places
  <2>2. /\ hosted' \in [Nodes -> [RoomIds -> 0..MaxGens]]
        /\ made' \in [Nodes -> [RoomIds -> 0..MaxGens]]
        /\ asked' \in [Nodes -> SUBSET RoomIds]
        /\ GenerationFor(TaskNode[t], r) \in 1..MaxGens
    BY <1>6, <2>1, GetOrCreateType DEF BroadcastStart
  <2>3. /\ sentTo' \in Seq(RoomIds) /\ sentBy' \in Seq(Senders) /\ Len(sentTo') = Len(sentBy')
    <3>1. sentTo \in Seq(RoomIds) /\ sentBy \in Seq(Senders) /\ Len(sentTo) = Len(sentBy)
      BY DEF TypeOK
    <3>2. sentTo' = Append(sentTo, r) /\ sentBy' = Append(sentBy, Me(t)) /\ Me(t) \in Senders
      BY <1>6, SenderType DEF BroadcastStart
    <3> QED
      BY <3>1, <3>2, AppendFacts
  <2>4. Sent + 1 \in 0..MaxMsgs
    BY <1>6, LenProperties, Numbers DEF BroadcastStart, TypeOK, Sent
  <2> QED
    BY <1>6, <2>2, <2>3, <2>4, SMTT(30) DEF BroadcastStart, TypeOK
<1>7. ASSUME NEW n \in Nodes, ApplyGet(n) PROVE TypeOK'
  <2> DEFINE env == Head(inbox[n])
             r == RoomIdFromChannel(n, env.channel)
  <2>1. inbox[n] \in Seq(Envelopes) /\ inbox[n] # << >>
    BY <1>7 DEF ApplyGet, TypeOK
  <2>2. env = inbox[n][1] /\ 1 \in 1..Len(inbox[n]) /\ env \in Envelopes
        /\ Tail(inbox[n]) \in Seq(Envelopes)
    BY <2>1, TailFacts
  <2>3. ~Ignored(n, env) => <<env.msg, r, hosted[n][r]>> \in (1..MaxMsgs) \X RoomIds \X (1..MaxGens)
    <3> SUFFICES ASSUME ~Ignored(n, env)
                 PROVE  env.msg \in 1..MaxMsgs /\ r \in RoomIds /\ hosted[n][r] \in 1..MaxGens
      OBVIOUS
    <3>1. r \in RoomIds /\ hosted[n][r] # 0 /\ env.id # Malformed
      BY DEF Ignored
    <3>2. env.msg \in 1..MaxMsgs
      BY <2>2, <3>1 DEF InboxGenuine, Genuine, Envelopes
    <3> QED
      BY <3>1, <3>2 DEF TypeOK
  <2>4. inbox' \in [Nodes -> Seq(Envelopes)]
    BY <1>7, <2>2 DEF ApplyGet, TypeOK
  <2>5. applying' \in [Nodes -> {<< >>} \cup ((1..MaxMsgs) \X RoomIds \X (1..MaxGens))]
    BY <1>7, <2>3 DEF ApplyGet, TypeOK
  <2> QED
    BY <1>7, <2>4, <2>5 DEF ApplyGet, TypeOK, roomVars, taskVars, msgVars
<1>8. ASSUME NEW n \in Nodes, ApplySend(n) PROVE TypeOK'
  <2>1. applying[n] \in (1..MaxMsgs) \X RoomIds \X (1..MaxGens)
    BY <1>8 DEF ApplySend, TypeOK
  <2>2. got' \in [Clients -> Seq(1..MaxMsgs)]
    BY <1>8, <2>1, DeliverType DEF ApplySend
  <2> QED
    BY <1>8, <2>2 DEF ApplySend, TypeOK, roomVars, taskVars, msgVars
<1>9. ASSUME NEW n \in Nodes, SubscriberStart(n) PROVE TypeOK'
  BY <1>9 DEF SubscriberStart, TypeOK, roomVars, taskVars, msgVars
<1>10. ASSUME NEW n \in Nodes, SubscriberCut(n) PROVE TypeOK'
  <2>1. inbox[n] \in Seq(Envelopes)
    BY DEF TypeOK
  <2>2. inbox' \in [Nodes -> Seq(Envelopes)]
    BY <1>10, <2>1, InitialFacts DEF SubscriberCut, TypeOK
  <2> QED
    BY <1>10, <2>2, OneMoreFault DEF SubscriberCut, TypeOK, roomVars, taskVars, msgVars
<1>11. ASSUME NEW n \in Nodes, Restart(n) PROVE TypeOK'
  <2>1. sub' \in [Clients -> Subs] /\ << >> \in Seq(Envelopes)
    BY <1>11, EmptySeq DEF Restart, TypeOK, Subs
  <2>2. hosted' \in [Nodes -> [RoomIds -> 0..MaxGens]] /\ faults' \in 0..MaxFaults
    BY <1>11, OneMoreFault, Numbers DEF Restart, TypeOK
  <2>3. /\ asked' \in [Nodes -> SUBSET RoomIds]
        /\ pc' \in [Tasks -> {"idle", "local", "lock", "publish"}]
        /\ lock' \in [Nodes -> Tasks \cup {Free}]
        /\ link' \in [Nodes -> {"up", "down"}]
    BY <1>11 DEF Restart, TypeOK
  <2>4. /\ inbox' \in [Nodes -> Seq(Envelopes)]
        /\ applying' \in [Nodes -> {<< >>} \cup ((1..MaxMsgs) \X RoomIds \X (1..MaxGens))]
    BY <1>11, <2>1 DEF Restart, TypeOK
  <2>5. ids + 1 \in Lives
    BY <1>11, FirstIds, Numbers DEF Restart, IdsDrawn, TypeOK, Lives
  <2>6. nodeId' \in [Nodes -> Lives] /\ ids' \in Lives
    BY <1>11, <2>5 DEF Restart, TypeOK
  <2>7. got' \in [Clients -> Seq(1..MaxMsgs)]
    BY <1>11, EmptySeq DEF Restart, TypeOK
  <2>8. afloat' \subseteq Envelopes
    <3>1. afloat' = afloat \cup {EnvelopeOf(t) : t \in {u \in Tasks : TaskNode[u] = n /\ pc[u] = "publish"}}
      BY <1>11 DEF Restart
    <3>2. afloat \subseteq Envelopes
      BY DEF TypeOK
    <3> QED
      BY <3>1, <3>2, EnvelopeType
  <2> QED
    BY <1>11, <2>1, <2>2, <2>3, <2>4, <2>6, <2>7, <2>8 DEF Restart, TypeOK, msgVars
<1>12. ASSUME NEW c \in Clients, ClientLeave(c) PROVE TypeOK'
  BY <1>12 DEF ClientLeave, TypeOK, Subs, roomVars, taskVars, msgVars
<1>13. ASSUME NEW c \in Clients, NEW r \in RoomIds, ClientJoin(c, r) PROVE TypeOK'
  <2>1. ClientNode[c] \in Nodes
    BY Places
  <2>2. /\ hosted' \in [Nodes -> [RoomIds -> 0..MaxGens]]
        /\ made' \in [Nodes -> [RoomIds -> 0..MaxGens]]
        /\ asked' \in [Nodes -> SUBSET RoomIds]
        /\ GenerationFor(ClientNode[c], r) \in 1..MaxGens
    BY <1>13, <2>1, GetOrCreateType DEF ClientJoin
  <2> QED
    BY <1>13, <2>2 DEF ClientJoin, TypeOK, Subs, taskVars, msgVars
<1>14. ASSUME NEW n \in Nodes, NEW r \in RoomIds, RemoveRoom(n, r) PROVE TypeOK'
  <2>1. hosted' \in [Nodes -> [RoomIds -> 0..MaxGens]]
    BY <1>14, Numbers DEF RemoveRoom, TypeOK
  <2>2. asked' \in [Nodes -> SUBSET RoomIds]
    BY <1>14 DEF RemoveRoom, TypeOK
  <2> QED
    BY <1>14, <2>1, <2>2 DEF RemoveRoom, TypeOK, taskVars, msgVars
<1>15. ASSUME NEW n \in Nodes, NEW r \in RoomIds, BadEnvelope(n, r) PROVE TypeOK'
  <2>1. [id |-> Malformed, channel |-> ChannelName(n, r), msg |-> 0] \in Envelopes
    BY ChannelType, Numbers DEF Envelopes, Malformed
  <2>2. inbox' \in [Nodes -> Seq(Envelopes)]
    BY <1>15, <2>1, PublishType DEF BadEnvelope
  <2> QED
    BY <1>15, <2>2, OneMoreFault DEF BadEnvelope, TypeOK, roomVars, taskVars, msgVars
<1>16. ASSUME NEW env \in afloat, StrayArrives(env) PROVE TypeOK'
  <2>1. inbox' \in [Nodes -> Seq(Envelopes)]
    BY <1>16, PublishType DEF StrayArrives, TypeOK
  <2> QED
    BY <1>16, <2>1 DEF StrayArrives, TypeOK, roomVars, taskVars, msgVars
<1>17. CASE UNCHANGED vars
  BY <1>17 DEF vars, TypeOK
<1> QED
  BY <1>1, <1>2, <1>3, <1>4, <1>5, <1>6, <1>7, <1>8, <1>9, <1>10, <1>11, <1>12, <1>13,
     <1>14, <1>15, <1>16, <1>17 DEF Next, TaskStep, ApplyStep, Quiet

----------------------------------------------------------------------------
(* Messages and envelopes *)

\* Nothing that has been said about a message changes when another is made.
LEMMA SentGrows ==
    ASSUME TypeOK, NEW t \in Tasks, NEW r \in RoomIds, BroadcastStart(t, r)
    PROVE  /\ Sent \in Nat /\ Sent' = Sent + 1
           /\ \A m \in 1..Sent : sentBy'[m] = sentBy[m] /\ sentTo'[m] = sentTo[m]
           /\ sentBy'[Sent + 1] = Me(t)
<1>1. sentTo \in Seq(RoomIds) /\ sentBy \in Seq(Senders) /\ Len(sentTo) = Len(sentBy)
  BY DEF TypeOK
<1>2. sentTo' = Append(sentTo, r) /\ sentBy' = Append(sentBy, Me(t)) /\ Me(t) \in Senders
  BY SenderType DEF BroadcastStart
<1> QED
  BY <1>1, <1>2, AppendFacts, LenProperties DEF Sent

\* All that the other actions do to messages and tasks.
LEMMA OtherActions ==
    ASSUME TypeOK, [Next]_vars,
           ~\E t \in Tasks, r \in RoomIds : BroadcastStart(t, r)
    PROVE  /\ sentTo' = sentTo /\ sentBy' = sentBy /\ cur' = cur
           /\ \A t \in Tasks : pc'[t] # "idle" => pc[t] # "idle" /\ (pc'[t] = "local" => pc[t] = "local")
           /\ \A t \in Tasks : pc'[t] # "idle" => Me(t)' = Me(t)
<1> USE DEF TypeOK, msgVars, taskVars, Me
<1>1. CASE \E t \in Tasks : BroadcastLocal(t) \/ LockConnection(t) \/ CancelWaiting(t) \/ PublishFails(t)
  BY <1>1 DEF BroadcastLocal, LockConnection, CancelWaiting, PublishFails, Return
<1>2. CASE \E t \in Tasks, replied \in BOOLEAN : PublishReaches(t, replied)
  BY <1>2 DEF PublishReaches, Return
<1>3. CASE \E n \in Nodes : ApplyGet(n) \/ ApplySend(n) \/ SubscriberStart(n) \/ SubscriberCut(n)
  BY <1>3 DEF ApplyGet, ApplySend, SubscriberStart, SubscriberCut
<1>4. CASE \E n \in Nodes : Restart(n)
  BY <1>4, Places DEF Restart
<1>5. CASE \E c \in Clients : ClientLeave(c) \/ \E r \in RoomIds : ClientJoin(c, r)
  BY <1>5 DEF ClientLeave, ClientJoin
<1>6. CASE \/ \E n \in Nodes, r \in RoomIds : RemoveRoom(n, r) \/ BadEnvelope(n, r)
           \/ \E env \in afloat : StrayArrives(env)
  BY <1>6 DEF RemoveRoom, BadEnvelope, StrayArrives
<1>7. CASE UNCHANGED vars
  BY <1>7 DEF vars
<1> QED
  BY <1>1, <1>2, <1>3, <1>4, <1>5, <1>6, <1>7 DEF Next, TaskStep, ApplyStep, Quiet

LEMMA NextControl ==
    ASSUME TInv, [Next]_vars
    PROVE  Control'
<1>1. ASSUME NEW t \in Tasks, NEW r \in RoomIds, BroadcastStart(t, r) PROVE Control'
  <2> SUFFICES ASSUME NEW u \in Tasks, pc'[u] # "idle"
               PROVE  /\ cur'[u] \in 1..Sent'
                      /\ sentBy'[cur'[u]] = Me(u)
                      /\ \A m \in 1..Sent' : sentBy'[m] = Me(u) => m <= cur'[u]
    BY <1>1 DEF Control, Me, BroadcastStart
  <2>1. /\ Sent \in Nat /\ Sent' = Sent + 1
        /\ \A m \in 1..Sent : sentBy'[m] = sentBy[m]
        /\ sentBy'[Sent + 1] = Me(t)
    BY <1>1, SentGrows DEF TInv
  <2>2. cur' = [cur EXCEPT ![t] = Sent + 1] /\ pc' = [pc EXCEPT ![t] = "local"]
    BY <1>1 DEF BroadcastStart
  <2>3. CASE u = t
    BY <2>1, <2>2, <2>3 DEF TInv, TypeOK
  <2>4. CASE u # t
    <3>1. cur'[u] = cur[u] /\ pc[u] # "idle"
      BY <2>2, <2>4 DEF TInv, TypeOK
    <3>2. /\ cur[u] \in 1..Sent /\ sentBy[cur[u]] = Me(u)
          /\ \A m \in 1..Sent : sentBy[m] = Me(u) => m <= cur[u]
      BY <3>1 DEF TInv, Control
    <3>3. \A m \in 1..Sent' : m \in 1..Sent \/ m = Sent + 1
      BY <2>1
    <3>4. Me(t) # Me(u)
      BY <2>4, SenderType DEF TInv
    <3>5. \A m \in 1..Sent' : sentBy'[m] = Me(u) => m <= cur'[u]
      BY <2>1, <3>1, <3>2, <3>3, <3>4
    <3> QED
      BY <2>1, <3>1, <3>2, <3>5
  <2> QED
    BY <2>3, <2>4
<1>2. CASE ~\E t \in Tasks, r \in RoomIds : BroadcastStart(t, r)
  BY <1>2, OtherActions DEF TInv, Control, Sent
<1> QED
  BY <1>1, <1>2

\* Nothing is ever said otherwise of a message, so a genuine envelope stays so.
LEMMA StaysGenuine ==
    ASSUME TInv, [Next]_vars
    PROVE  /\ \A m \in 1..Sent : m \in 1..Sent' /\ sentBy'[m] = sentBy[m] /\ sentTo'[m] = sentTo[m]
           /\ \A env : Genuine(env) => Genuine(env)'
<1>1. /\ \A m \in 1..Sent : sentBy'[m] = sentBy[m] /\ sentTo'[m] = sentTo[m]
      /\ Sent \in Nat /\ Sent' \in Nat /\ Sent <= Sent'
  <2>1. CASE \E t \in Tasks, r \in RoomIds : BroadcastStart(t, r)
    BY <2>1, SentGrows DEF TInv
  <2>2. CASE ~\E t \in Tasks, r \in RoomIds : BroadcastStart(t, r)
    <3>1. sentTo' = sentTo /\ sentBy' = sentBy
      BY <2>2, OtherActions DEF TInv
    <3>2. Sent \in Nat
      BY LenProperties DEF TInv, TypeOK, Sent
    <3> QED
      BY <3>1, <3>2 DEF Sent
  <2> QED
    BY <2>1, <2>2
<1>2. \A m \in 1..Sent : m \in 1..Sent'
  BY <1>1
<1>3. ASSUME NEW env, Genuine(env), env.id # Malformed
      PROVE  Genuine(env)'
  <2>1. /\ env.msg \in 1..Sent
        /\ env.channel = ChannelName(NodeOf(env.msg), sentTo[env.msg])
        /\ env.id = sentBy[env.msg][2]
    BY <1>3 DEF Genuine
  <2>2. /\ env.msg \in 1..Sent'
        /\ sentBy'[env.msg] = sentBy[env.msg] /\ sentTo'[env.msg] = sentTo[env.msg]
    BY <1>1, <1>2, <2>1
  <2> QED
    BY <1>3, <2>1, <2>2 DEF Genuine, ChannelName, NodeOf
<1>4. ASSUME NEW env, Genuine(env), env.id = Malformed
      PROVE  Genuine(env)'
  BY <1>4 DEF Genuine
<1> QED
  BY <1>1, <1>2, <1>3, <1>4

\* What a task publishes is genuine.
LEMMA OwnGenuine ==
    ASSUME TInv, NEW t \in Tasks, pc[t] = "publish"
    PROVE  /\ Genuine(EnvelopeOf(t)) /\ EnvelopeOf(t).id # Malformed
           /\ EnvelopeOf(t).msg = cur[t] /\ sentBy[cur[t]] = Me(t) /\ cur[t] \in 1..Sent
<1>1. cur[t] \in 1..Sent /\ sentBy[cur[t]] = Me(t)
  BY DEF TInv, Control
<1>2. nodeId[TaskNode[t]] # Malformed
  BY Places, LivesAre DEF TInv, TypeOK
<1> QED
  BY <1>1, <1>2, SenderType DEF TInv, Genuine, EnvelopeOf, NodeOf

\* The actions that leave the inboxes and the node ids alone.
LEMMA InboxActions ==
    ASSUME [Next]_vars,
           ~\E t \in Tasks, replied \in BOOLEAN : PublishReaches(t, replied),
           ~\E n \in Nodes, r \in RoomIds : BadEnvelope(n, r),
           ~\E n \in Nodes : ApplyGet(n) \/ SubscriberCut(n) \/ Restart(n),
           ~\E env \in afloat : StrayArrives(env)
    PROVE  inbox' = inbox /\ nodeId' = nodeId
<1>1. CASE \E t \in Tasks : BroadcastLocal(t) \/ LockConnection(t) \/ CancelWaiting(t) \/ PublishFails(t)
  BY <1>1 DEF BroadcastLocal, LockConnection, CancelWaiting, PublishFails
<1>2. CASE \E t \in Tasks, r \in RoomIds : BroadcastStart(t, r)
  BY <1>2 DEF BroadcastStart
<1>3. CASE \E n \in Nodes : ApplySend(n) \/ SubscriberStart(n)
  BY <1>3 DEF ApplySend, SubscriberStart
<1>4. CASE \E c \in Clients : ClientLeave(c) \/ \E r \in RoomIds : ClientJoin(c, r)
  BY <1>4 DEF ClientLeave, ClientJoin
<1>5. CASE \E n \in Nodes, r \in RoomIds : RemoveRoom(n, r)
  BY <1>5 DEF RemoveRoom
<1>6. CASE UNCHANGED vars
  BY <1>6 DEF vars
<1> QED
  BY <1>1, <1>2, <1>3, <1>4, <1>5, <1>6 DEF Next, TaskStep, ApplyStep, Quiet

\* What happens to the inboxes: nothing, one more envelope, one less at the
\* front, some less at the end, or the node starts again.
LEMMA NextGenuine ==
    ASSUME TInv, [Next]_vars
    PROVE  InboxGenuine'
<1> SUFFICES ASSUME NEW n \in Nodes, NEW i \in 1..Len(inbox'[n])
             PROVE  Genuine(inbox'[n][i])
  BY StaysGenuine DEF InboxGenuine, Genuine
<1>1. inbox[n] \in Seq(Envelopes) /\ Len(inbox[n]) \in Nat
  BY LenProperties DEF TInv, TypeOK
<1>2. ASSUME inbox'[n] = inbox[n] PROVE Genuine(inbox'[n][i])
  BY <1>2 DEF TInv, InboxGenuine
<1>3. ASSUME NEW env \in Envelopes, Genuine(env), Publish(env) PROVE Genuine(inbox'[n][i])
  <2>1. inbox'[n] = inbox[n] \/ inbox'[n] = Append(inbox[n], env)
    BY <1>3 DEF Publish
  <2>2. CASE inbox'[n] = Append(inbox[n], env)
    <3>1. inbox'[n][i] = env \/ \E j \in 1..Len(inbox[n]) : inbox'[n][i] = inbox[n][j]
      BY <1>1, <2>2, AppendFacts
    <3> QED
      BY <1>3, <3>1 DEF TInv, InboxGenuine
  <2> QED
    BY <1>2, <2>1, <2>2
<1>4. ASSUME NEW t \in Tasks, NEW replied \in BOOLEAN, PublishReaches(t, replied)
      PROVE  Genuine(inbox'[n][i])
  <2>1. pc[t] = "publish" /\ Publish(EnvelopeOf(t))
    BY <1>4 DEF PublishReaches
  <2> QED
    BY <1>3, <2>1, EnvelopeType, OwnGenuine
<1>5. ASSUME NEW k \in Nodes, NEW r \in RoomIds, BadEnvelope(k, r)
      PROVE  Genuine(inbox'[n][i])
  <2> DEFINE env == [id |-> Malformed, channel |-> ChannelName(k, r), msg |-> 0]
  <2>1. Genuine(env) /\ env \in Envelopes
    BY ChannelType, Numbers DEF Genuine, Envelopes, Malformed
  <2>2. Publish(env)
    BY <1>5 DEF BadEnvelope
  <2> HIDE DEF env
  <2> QED
    BY <1>3, <2>1, <2>2
<1>6. ASSUME NEW k \in Nodes, ApplyGet(k) PROVE Genuine(inbox'[n][i])
  <2>1. CASE k = n
    <3>1. inbox'[n] = Tail(inbox[n]) /\ inbox[n] # << >>
      BY <1>6, <2>1 DEF ApplyGet, TInv, TypeOK
    <3> QED
      BY <1>1, <3>1, TailFacts DEF TInv, InboxGenuine
  <2>2. CASE k # n
    BY <1>2, <1>6, <2>2 DEF ApplyGet, TInv, TypeOK
  <2> QED
    BY <2>1, <2>2
<1>7. ASSUME NEW k \in Nodes, SubscriberCut(k) PROVE Genuine(inbox'[n][i])
  <2>1. CASE k = n
    <3>1. PICK l \in 0..Len(inbox[n]) : inbox'[n] = SubSeq(inbox[n], 1, l)
      BY <1>7, <2>1 DEF SubscriberCut, TInv, TypeOK
    <3> QED
      BY <1>1, <3>1, InitialFacts DEF TInv, InboxGenuine
  <2>2. CASE k # n
    BY <1>2, <1>7, <2>2 DEF SubscriberCut, TInv, TypeOK
  <2> QED
    BY <2>1, <2>2
<1>8. ASSUME NEW k \in Nodes, Restart(k) PROVE Genuine(inbox'[n][i])
  <2>1. CASE k = n
    BY <1>8, <2>1 DEF Restart, TInv, TypeOK
  <2>2. CASE k # n
    BY <1>2, <1>8, <2>2 DEF Restart, TInv, TypeOK
  <2> QED
    BY <2>1, <2>2
<1>9. ASSUME NEW env \in afloat, StrayArrives(env) PROVE Genuine(inbox'[n][i])
  BY <1>3, <1>9 DEF StrayArrives, TInv, TypeOK, AfloatGenuine
<1>10. CASE inbox' = inbox
  BY <1>2, <1>10
<1> QED
  BY <1>4, <1>5, <1>6, <1>7, <1>8, <1>9, <1>10, InboxActions

\* Only the subscriber loop puts anything in the place of what is applied.
LEMMA ApplyingActions ==
    ASSUME TypeOK, [Next]_vars, ~\E k \in Nodes : ApplyGet(k), NEW n \in Nodes
    PROVE  applying'[n] = applying[n] \/ applying'[n] = << >>
<1> USE DEF TypeOK
<1>1. CASE \E t \in Tasks : BroadcastLocal(t) \/ LockConnection(t) \/ CancelWaiting(t) \/ PublishFails(t)
  BY <1>1 DEF BroadcastLocal, LockConnection, CancelWaiting, PublishFails
<1>2. CASE \E t \in Tasks, r \in RoomIds : BroadcastStart(t, r)
  BY <1>2 DEF BroadcastStart
<1>3. CASE \E t \in Tasks, replied \in BOOLEAN : PublishReaches(t, replied)
  BY <1>3 DEF PublishReaches
<1>4. CASE \E k \in Nodes : ApplySend(k) \/ SubscriberStart(k) \/ SubscriberCut(k) \/ Restart(k)
  BY <1>4 DEF ApplySend, SubscriberStart, SubscriberCut, Restart
<1>5. CASE \E c \in Clients : ClientLeave(c) \/ \E r \in RoomIds : ClientJoin(c, r)
  BY <1>5 DEF ClientLeave, ClientJoin
<1>6. CASE \/ \E k \in Nodes, r \in RoomIds : RemoveRoom(k, r) \/ BadEnvelope(k, r)
           \/ \E env \in afloat : StrayArrives(env)
  BY <1>6 DEF RemoveRoom, BadEnvelope, StrayArrives
<1>7. CASE UNCHANGED vars
  BY <1>7 DEF vars
<1> QED
  BY <1>1, <1>2, <1>3, <1>4, <1>5, <1>6, <1>7 DEF Next, TaskStep, ApplyStep, Quiet

\* Node ids and what floats change only where a process starts again.
LEMMA RestartActions ==
    ASSUME [Next]_vars, ~\E n \in Nodes : Restart(n)
    PROVE  nodeId' = nodeId /\ ids' = ids /\ faults' \in {faults, faults + 1} /\ afloat' \subseteq afloat
<1>1. CASE \E t \in Tasks : BroadcastLocal(t) \/ LockConnection(t) \/ CancelWaiting(t) \/ PublishFails(t)
  BY <1>1 DEF BroadcastLocal, LockConnection, CancelWaiting, PublishFails
<1>2. CASE \E t \in Tasks, r \in RoomIds : BroadcastStart(t, r)
  BY <1>2 DEF BroadcastStart
<1>3. CASE \E t \in Tasks, replied \in BOOLEAN : PublishReaches(t, replied)
  BY <1>3 DEF PublishReaches
<1>4. CASE \E n \in Nodes : ApplyGet(n) \/ ApplySend(n) \/ SubscriberStart(n) \/ SubscriberCut(n)
  BY <1>4 DEF ApplyGet, ApplySend, SubscriberStart, SubscriberCut
<1>5. CASE \E c \in Clients : ClientLeave(c) \/ \E r \in RoomIds : ClientJoin(c, r)
  BY <1>5 DEF ClientLeave, ClientJoin
<1>6. CASE \/ \E n \in Nodes, r \in RoomIds : RemoveRoom(n, r) \/ BadEnvelope(n, r)
           \/ \E env \in afloat : StrayArrives(env)
  BY <1>6 DEF RemoveRoom, BadEnvelope, StrayArrives
<1>7. CASE UNCHANGED vars
  BY <1>7 DEF vars
<1> QED
  BY <1>1, <1>2, <1>3, <1>4, <1>5, <1>6, <1>7 DEF Next, TaskStep, ApplyStep, Quiet

LEMMA NextIds ==
    ASSUME TInv, [Next]_vars
    PROVE  IdsDrawn'
<1>1. /\ ids \in Nat /\ faults \in Nat /\ Max(Range(FirstId)) \in Nat
      /\ \A n \in Nodes : nodeId[n] \in Nat
  <2>1. ids \in Lives /\ faults \in 0..MaxFaults /\ \A n \in Nodes : nodeId[n] \in Lives
    BY DEF TInv, TypeOK
  <2>2. ids \in Nat /\ \A n \in Nodes : nodeId[n] \in Nat
    BY <2>1, LivesAre
  <2>3. faults \in Nat
    BY <2>1
  <2> QED
    BY <2>2, <2>3, FirstIds
<1>2. /\ ids <= Max(Range(FirstId)) + faults
      /\ \A n \in Nodes : nodeId[n] <= ids
      /\ \A m \in 1..Sent : sentBy[m][2] <= ids
  BY DEF TInv, IdsDrawn
<1>3. ASSUME NEW n \in Nodes, Restart(n) PROVE IdsDrawn'
  <2>1. /\ faults' = faults + 1 /\ ids' = ids + 1 /\ nodeId' = [nodeId EXCEPT ![n] = ids + 1]
        /\ sentTo' = sentTo /\ sentBy' = sentBy
    BY <1>3 DEF Restart, msgVars
  <2>2. \A k \in Nodes : nodeId'[k] <= ids'
    BY <1>1, <1>2, <2>1 DEF TInv, TypeOK
  <2>3. \A m \in 1..Sent' : sentBy'[m][2] <= ids'
    <3> SUFFICES ASSUME NEW m \in 1..Sent PROVE sentBy[m][2] <= ids + 1
      BY <2>1 DEF Sent
    <3>1. sentBy[m] \in Senders
      BY DEF TInv, TypeOK, Sent
    <3>2. sentBy[m][2] \in Nat
      BY <3>1, LivesAre DEF Senders
    <3> QED
      BY <1>1, <1>2, <3>2
  <2> QED
    BY <1>1, <1>2, <2>1, <2>2, <2>3 DEF IdsDrawn
<1>4. CASE ~\E n \in Nodes : Restart(n)
  <2>1. nodeId' = nodeId /\ ids' = ids /\ faults' \in {faults, faults + 1}
    BY <1>4, RestartActions
  <2>2. \A m \in 1..Sent' : sentBy'[m][2] <= ids
    <3>1. CASE \E t \in Tasks, r \in RoomIds : BroadcastStart(t, r)
      <4>1. PICK t \in Tasks, r \in RoomIds : BroadcastStart(t, r)
        BY <3>1
      <4>2. /\ Sent \in Nat /\ Sent' = Sent + 1
            /\ \A m \in 1..Sent : sentBy'[m] = sentBy[m]
            /\ sentBy'[Sent + 1][2] = nodeId[TaskNode[t]]
        BY <4>1, SentGrows, SenderType DEF TInv
      <4> QED
        BY <1>2, <4>2, Places
    <3>2. CASE ~\E t \in Tasks, r \in RoomIds : BroadcastStart(t, r)
      BY <1>2, <3>2, OtherActions DEF TInv, Sent
    <3> QED
      BY <3>1, <3>2
  <2> QED
    BY <1>1, <1>2, <2>1, <2>2 DEF IdsDrawn
<1> QED
  BY <1>3, <1>4

LEMMA StaysForeign ==
    ASSUME TInv, [Next]_vars, NEW n \in Nodes, applying'[n] # << >>
    PROVE  applying'[n][1] \in 1..Sent /\ sentBy[applying'[n][1]][2] # nodeId'[n]
<1>1. nodeId'[n] = nodeId[n]
  <2>1. ASSUME NEW k \in Nodes, Restart(k) PROVE nodeId'[n] = nodeId[n]
    BY <2>1 DEF Restart, TInv, TypeOK
  <2> QED
    BY <2>1, RestartActions
<1>2. ASSUME applying'[n] = applying[n]
      PROVE  applying'[n][1] \in 1..Sent /\ sentBy[applying'[n][1]][2] # nodeId'[n]
  BY <1>1, <1>2 DEF TInv, AppliesForeign
<1>3. ASSUME NEW k \in Nodes, ApplyGet(k)
      PROVE  applying'[n][1] \in 1..Sent /\ sentBy[applying'[n][1]][2] # nodeId'[n]
  <2>1. CASE k # n
    BY <1>2, <1>3, <2>1 DEF ApplyGet, TInv, TypeOK
  <2>2. CASE k = n
    <3> DEFINE env == Head(inbox[n])
               r == RoomIdFromChannel(n, env.channel)
    <3>1. inbox[n] \in Seq(Envelopes) /\ inbox[n] # << >>
      BY <1>3, <2>2 DEF ApplyGet, TInv, TypeOK
    <3>2. env = inbox[n][1] /\ 1 \in 1..Len(inbox[n])
      BY <3>1, TailFacts
    <3>3. Genuine(env)
      BY <3>2 DEF TInv, InboxGenuine
    <3>4. ~Ignored(n, env) /\ applying'[n] = <<env.msg, r, hosted[n][r]>>
      BY <1>3, <2>2 DEF ApplyGet, TInv, TypeOK
    <3>5. env.msg \in 1..Sent /\ sentBy[env.msg][2] # nodeId[n]
      BY <3>3, <3>4 DEF Genuine, Ignored
    <3>6. applying'[n][1] = env.msg
      BY <3>4
    <3> QED
      BY <1>1, <3>5, <3>6
  <2> QED
    BY <2>1, <2>2
<1>4. CASE applying'[n] # applying[n] /\ ~\E k \in Nodes : ApplyGet(k)
  BY <1>4, ApplyingActions DEF TInv
<1> QED
  BY <1>2, <1>3, <1>4

LEMMA NextApplies ==
    ASSUME TInv, [Next]_vars
    PROVE  AppliesForeign'
  BY StaysForeign, StaysGenuine DEF AppliesForeign

\* What a restart sets afloat.
LEMMA SetAfloat ==
    ASSUME TInv, NEW n \in Nodes, Restart(n), NEW e \in afloat', e \notin afloat
    PROVE  \E t \in Tasks :
              /\ TaskNode[t] = n /\ pc[t] = "publish" /\ e = EnvelopeOf(t)
              /\ Genuine(e) /\ e.id # Malformed /\ e.msg = cur[t]
              /\ sentBy[cur[t]] = Me(t) /\ cur[t] \in 1..Sent
<1>1. PICK t \in Tasks : TaskNode[t] = n /\ pc[t] = "publish" /\ e = EnvelopeOf(t)
  BY DEF Restart
<1> QED
  BY <1>1, OwnGenuine

\* A sender that is dead, or dies, does not come back.
LEMMA StaysDead ==
    ASSUME TInv, [Next]_vars, NEW e \in afloat'
    PROVE  /\ e.id # Malformed /\ Genuine(e)
           /\ \A u \in Tasks : sentBy[e.msg] # Me(u)'
<1>1. ASSUME NEW n \in Nodes, Restart(n)
      PROVE  /\ e.id # Malformed /\ Genuine(e)
             /\ \A u \in Tasks : sentBy[e.msg] # Me(u)'
  <2>1. \A u \in Tasks : Me(u)' = IF TaskNode[u] = n THEN <<u, ids + 1>> ELSE Me(u)
    BY <1>1, Places DEF Restart, Me, TInv, TypeOK
  <2>2. /\ e.id # Malformed /\ Genuine(e)
        /\ \A u \in Tasks : TaskNode[u] # n => sentBy[e.msg] # Me(u)
    <3>1. CASE e \in afloat
      BY <3>1 DEF TInv, AfloatGenuine
    <3>2. CASE e \notin afloat
      <4>1. PICK t \in Tasks : /\ TaskNode[t] = n /\ e.msg = cur[t] /\ sentBy[cur[t]] = Me(t)
                               /\ Genuine(e) /\ e.id # Malformed
        BY <1>1, <3>2, SetAfloat
      <4>2. \A u \in Tasks : TaskNode[u] # n => Me(u) # Me(t)
        BY <4>1, SenderType DEF TInv
      <4> QED
        BY <4>1, <4>2
    <3> QED
      BY <3>1, <3>2
  <2>3. sentBy[e.msg][2] <= ids /\ ids \in Nat /\ ~(ids + 1 <= ids)
    BY <2>2, LivesAre DEF TInv, IdsDrawn, TypeOK, Genuine
  <2>4. \A u \in Tasks : sentBy[e.msg] # <<u, ids + 1>>
    BY <2>3
  <2> QED
    BY <2>1, <2>2, <2>4
<1>2. CASE ~\E n \in Nodes : Restart(n)
  BY <1>2, RestartActions DEF TInv, AfloatGenuine, Me
<1> QED
  BY <1>1, <1>2

LEMMA NextAfloatGenuine ==
    ASSUME TInv, [Next]_vars
    PROVE  AfloatGenuine'
<1>1. \A e : Genuine(e) /\ e.id # Malformed => sentBy'[e.msg] = sentBy[e.msg] /\ Genuine(e)'
  BY StaysGenuine DEF Genuine
<1> QED
  BY <1>1, StaysDead DEF AfloatGenuine

LEMMA TypeInvariant == Spec => []TInv
<1>1. Init => TInv
  <2> SUFFICES ASSUME Init PROVE TInv
    OBVIOUS
  <2>1. IdsDrawn
    BY FirstIds DEF Init, IdsDrawn, Sent
  <2>2. Control /\ InboxGenuine /\ AppliesForeign /\ AfloatGenuine
    BY DEF Init, Control, InboxGenuine, AppliesForeign, AfloatGenuine
  <2> QED
    BY <2>1, <2>2, InitType DEF TInv
<1>2. TInv /\ [Next]_vars => TInv'
  BY NextType, NextControl, NextIds, NextGenuine, NextApplies, NextAfloatGenuine DEF TInv
<1> QED
  BY <1>1, <1>2, PTL DEF Spec

----------------------------------------------------------------------------
(* Order *)

\* Inbox n shows nothing new: what it holds that decodes it held before, in
\* the same order.
Moves(n) ==
    \E d \in Nat : \A i \in 1..Len(inbox'[n]) :
        \/ inbox'[n][i].id = Malformed /\ inbox'[n][i].msg = 0
        \/ /\ i + d \in 1..Len(inbox[n])
           /\ inbox'[n][i] = inbox[n][i + d]
           /\ nodeId'[n] = nodeId[n]

\* What is known of tasks, applied messages and inboxes after a step that
\* publishes nothing, makes no message and takes none from an inbox.
Fades ==
    /\ sentTo' = sentTo /\ sentBy' = sentBy /\ cur' = cur
    /\ \A t \in Tasks : pc'[t] # "idle" => pc[t] # "idle" /\ (pc'[t] = "local" => pc[t] = "local")
    /\ \A n \in Nodes : applying'[n] = applying[n] \/ applying'[n] = << >>
    /\ \A n \in Nodes : Moves(n)

\* No client gets anything; some may be gone.
NoneGets == \A c \in Clients : got'[c] = got[c] \/ got'[c] = << >>

LEMMA MoveCases ==
    ASSUME TypeOK, NEW n \in Nodes
    PROVE  /\ inbox'[n] = inbox[n] /\ nodeId'[n] = nodeId[n] => Moves(n)
           /\ inbox[n] # << >> /\ inbox'[n] = Tail(inbox[n]) /\ nodeId'[n] = nodeId[n] => Moves(n)
           /\ \A k \in 0..Len(inbox[n]) :
                inbox'[n] = SubSeq(inbox[n], 1, k) /\ nodeId'[n] = nodeId[n] => Moves(n)
           /\ inbox'[n] = << >> => Moves(n)
           /\ \A env \in Envelopes :
                /\ env.id = Malformed /\ env.msg = 0
                /\ inbox'[n] = Append(inbox[n], env) /\ nodeId'[n] = nodeId[n]
                => Moves(n)
<1>1. inbox[n] \in Seq(Envelopes) /\ Len(inbox[n]) \in Nat
  BY LenProperties DEF TypeOK
<1>2. inbox'[n] = inbox[n] /\ nodeId'[n] = nodeId[n] => Moves(n)
  <2>1. \A i \in 1..Len(inbox[n]) : i + 0 \in 1..Len(inbox[n]) /\ i + 0 = i
    BY <1>1
  <2> QED
    BY <2>1 DEF Moves
<1>3. inbox[n] # << >> /\ inbox'[n] = Tail(inbox[n]) /\ nodeId'[n] = nodeId[n] => Moves(n)
  BY <1>1, TailFacts DEF Moves
<1>4. ASSUME NEW k \in 0..Len(inbox[n]), inbox'[n] = SubSeq(inbox[n], 1, k), nodeId'[n] = nodeId[n]
      PROVE  Moves(n)
  <2>1. \A i \in 1..Len(inbox'[n]) : i + 0 \in 1..Len(inbox[n]) /\ i + 0 = i /\ inbox'[n][i] = inbox[n][i]
    BY <1>1, <1>4, InitialFacts
  <2> QED
    BY <1>4, <2>1 DEF Moves
<1>5. inbox'[n] = << >> => Moves(n)
  BY DEF Moves
<1>6. ASSUME NEW env \in Envelopes, env.id = Malformed, env.msg = 0,
             inbox'[n] = Append(inbox[n], env), nodeId'[n] = nodeId[n]
      PROVE  Moves(n)
  <2>1. \A i \in 1..Len(inbox'[n]) :
            \/ inbox'[n][i] = env
            \/ i + 0 \in 1..Len(inbox[n]) /\ i + 0 = i /\ inbox'[n][i] = inbox[n][i]
    BY <1>1, <1>6, AppendFacts
  <2> QED
    BY <1>6, <2>1, SMTT(30) DEF Moves
<1> QED
  BY <1>2, <1>3, <1>4, <1>5, <1>6

\* The order is kept by steps that fade and deliver nothing.
LEMMA FadesOrder ==
    ASSUME TInv, OInv, Fades, NoneGets
    PROVE  OInv'
<1>0. \A c \in Clients : \A k \in 1..Len(got'[c]) : k \in 1..Len(got[c]) /\ got'[c][k] = got[c][k]
  BY DEF NoneGets
<1>1. \A n \in Nodes : \A i \in 1..Len(inbox'[n]) :
        inbox'[n][i].id # Malformed /\ inbox'[n][i].id # nodeId'[n] =>
            \E j \in 1..Len(inbox[n]) : inbox'[n][i] = inbox[n][j] /\ Foreign(n, inbox[n][j])
  BY DEF Fades, Moves, Foreign
<1>2. GotSent' /\ PerTaskOrder'
  BY <1>0 DEF OInv, GotSent, PerTaskOrder, Fades, Sent
<1>3. Unpublished'
  <2> SUFFICES ASSUME NEW t \in Tasks, pc'[t] # "idle"
               PROVE  /\ \A n \in Nodes : \A i \in 1..Len(inbox'[n]) : inbox'[n][i].msg # cur[t]
                      /\ \A n \in Nodes : applying'[n] # << >> => applying'[n][1] # cur[t]
                      /\ \A c \in Clients : \A k \in 1..Len(got'[c]) :
                            got'[c][k] = cur[t] => pc'[t] # "local" /\ ClientNode[c] = TaskNode[t]
    BY DEF Unpublished, Fades
  <2>1. pc[t] # "idle" /\ (pc'[t] = "local" => pc[t] = "local")
    BY DEF Fades
  <2>2. cur[t] # 0
    BY <2>1 DEF TInv, Control
  <2>3. \A n \in Nodes : \A i \in 1..Len(inbox'[n]) : inbox'[n][i].msg # cur[t]
    <3> SUFFICES ASSUME NEW n \in Nodes, NEW i \in 1..Len(inbox'[n])
                 PROVE  inbox'[n][i].msg # cur[t]
      OBVIOUS
    <3>1. inbox'[n][i].msg = 0 \/ \E j \in 1..Len(inbox[n]) : inbox'[n][i] = inbox[n][j]
      BY DEF Fades, Moves
    <3> QED
      BY <2>1, <2>2, <3>1 DEF OInv, Unpublished
  <2> QED
    BY <1>0, <2>1, <2>3 DEF OInv, Unpublished, Fades
<1>4. GotBeforeApplying'
  BY <1>0, Places DEF OInv, GotBeforeApplying, Fades, Precedes
<1>5. GotBeforeInbox'
  <2> SUFFICES ASSUME NEW c \in Clients, NEW n \in Nodes, n = ClientNode[c],
                      NEW k \in 1..Len(got'[c]), NEW i \in 1..Len(inbox'[n]),
                      inbox'[n][i].id # Malformed, inbox'[n][i].id # nodeId'[n],
                      sentBy[got'[c][k]] = sentBy[inbox'[n][i].msg]
               PROVE  got'[c][k] < inbox'[n][i].msg
    BY Places DEF GotBeforeInbox, Foreign, Precedes, Fades
  <2>1. PICK j \in 1..Len(inbox[n]) : inbox'[n][i] = inbox[n][j] /\ Foreign(n, inbox[n][j])
    BY <1>1
  <2>2. k \in 1..Len(got[c]) /\ got'[c][k] = got[c][k]
    BY <1>0
  <2> QED
    BY <2>1, <2>2 DEF OInv, GotBeforeInbox, Precedes
<1>6. ApplyingBeforeInbox'
  <2> SUFFICES ASSUME NEW n \in Nodes, NEW i \in 1..Len(inbox'[n]), applying'[n] # << >>,
                      inbox'[n][i].id # Malformed, inbox'[n][i].id # nodeId'[n],
                      sentBy[applying'[n][1]] = sentBy[inbox'[n][i].msg]
               PROVE  applying'[n][1] < inbox'[n][i].msg
    BY DEF ApplyingBeforeInbox, Foreign, Precedes, Fades
  <2>1. PICK j \in 1..Len(inbox[n]) : inbox'[n][i] = inbox[n][j] /\ Foreign(n, inbox[n][j])
    BY <1>1
  <2>2. applying'[n] = applying[n]
    BY DEF Fades
  <2> QED
    BY <2>1, <2>2 DEF OInv, ApplyingBeforeInbox, Precedes
<1>7. InboxInOrder'
  <2> SUFFICES ASSUME NEW n \in Nodes, NEW i \in 1..Len(inbox'[n]), NEW j \in 1..Len(inbox'[n]),
                      i < j,
                      inbox'[n][i].id # Malformed, inbox'[n][i].id # nodeId'[n],
                      inbox'[n][j].id # Malformed, inbox'[n][j].id # nodeId'[n],
                      sentBy[inbox'[n][i].msg] = sentBy[inbox'[n][j].msg]
               PROVE  inbox'[n][i].msg < inbox'[n][j].msg
    BY DEF InboxInOrder, Foreign, Precedes, Fades
  <2>1. PICK d \in Nat : \A l \in 1..Len(inbox'[n]) :
            \/ inbox'[n][l].id = Malformed /\ inbox'[n][l].msg = 0
            \/ /\ l + d \in 1..Len(inbox[n])
               /\ inbox'[n][l] = inbox[n][l + d]
               /\ nodeId'[n] = nodeId[n]
    BY DEF Fades, Moves
  <2>2. /\ i + d \in 1..Len(inbox[n]) /\ j + d \in 1..Len(inbox[n]) /\ i + d < j + d
        /\ inbox'[n][i] = inbox[n][i + d] /\ inbox'[n][j] = inbox[n][j + d]
        /\ Foreign(n, inbox[n][i + d]) /\ Foreign(n, inbox[n][j + d])
    <3>1. i \in Int /\ j \in Int /\ i + d < j + d
      OBVIOUS
    <3> QED
      BY <2>1, <3>1 DEF Foreign
  <2>3. Precedes(inbox[n][i + d].msg, inbox[n][j + d].msg)
    BY <2>2 DEF OInv, InboxInOrder
  <2> QED
    BY <2>2, <2>3 DEF Precedes, Fades
<1> QED
  BY <1>2, <1>3, <1>4, <1>5, <1>6, <1>7 DEF OInv

\* A delivery adds m at the end of what some clients of node n received.
LEMMA Delivered ==
    ASSUME TypeOK, NEW n \in Nodes, NEW r, NEW g, NEW m \in 1..MaxMsgs, Deliver(n, r, g, m),
           NEW c \in Clients
    PROVE  /\ got[c] \in Seq(1..MaxMsgs) /\ Len(got[c]) \in Nat
           /\ \/ got'[c] = got[c]
              \/ /\ ClientNode[c] = n /\ sub[c] = <<r, g>>
                 /\ got'[c] = Append(got[c], m)
                 /\ Len(got'[c]) = Len(got[c]) + 1
                 /\ got'[c][Len(got[c]) + 1] = m
                 /\ \A k \in 1..Len(got[c]) : got'[c][k] = got[c][k]
<1>1. got[c] \in Seq(1..MaxMsgs)
  BY DEF TypeOK
<1>2. got'[c] = IF ClientNode[c] = n /\ sub[c] = <<r, g>> THEN Append(got[c], m) ELSE got[c]
  BY DEF Deliver
<1> QED
  BY <1>1, <1>2, AppendFacts, LenProperties

\* So whatever they have they had, or it is m.
LEMMA DeliveredAt ==
    ASSUME TypeOK, NEW n \in Nodes, NEW r, NEW g, NEW m \in 1..MaxMsgs, Deliver(n, r, g, m),
           NEW c \in Clients, NEW k \in 1..Len(got'[c])
    PROVE  got'[c][k] = m \/ (k \in 1..Len(got[c]) /\ got'[c][k] = got[c][k])
  BY Delivered

\* The order is kept by a step that delivers m, if m comes after what the
\* node's clients have and before what waits in its inbox.
LEMMA DeliveryOrder ==
    ASSUME TInv, OInv, Fades, NEW n \in Nodes, NEW r, NEW g, NEW m \in 1..MaxMsgs,
           Deliver(n, r, g, m), m \in 1..Sent,
           \A c \in Clients : ClientNode[c] = n =>
                \A k \in 1..Len(got[c]) : sentBy[got[c][k]] = sentBy[m] => got[c][k] < m,
           \A i \in 1..Len(inbox[n]) : Foreign(n, inbox[n][i]) => Precedes(m, inbox[n][i].msg),
           applying'[n] # << >> => Precedes(m, applying[n][1]),
           \A t \in Tasks : pc'[t] # "idle" /\ cur[t] = m => pc'[t] # "local" /\ TaskNode[t] = n,
           inbox' = inbox, nodeId' = nodeId
    PROVE  OInv'
<1> DEFINE New(c, k) == ClientNode[c] = n /\ got'[c][k] = m /\ k = Len(got[c]) + 1
           Old(c, k) == k \in 1..Len(got[c]) /\ got'[c][k] = got[c][k]
<1>1. \A c \in Clients : \A k \in 1..Len(got'[c]) : New(c, k) \/ Old(c, k)
  <2> SUFFICES ASSUME NEW c \in Clients, NEW k \in 1..Len(got'[c])
               PROVE  New(c, k) \/ Old(c, k)
    OBVIOUS
  <2> QED
    BY Delivered DEF TInv
<1>2. GotSent'
  BY <1>1 DEF OInv, GotSent, Fades, Sent
<1>3. PerTaskOrder'
  <2> SUFFICES ASSUME NEW c \in Clients, NEW i \in 1..Len(got'[c]), NEW j \in 1..Len(got'[c]),
                      i < j, sentBy[got'[c][i]] = sentBy[got'[c][j]]
               PROVE  got'[c][i] < got'[c][j]
    BY DEF PerTaskOrder, Fades
  <2>1. Len(got'[c]) \in Nat /\ Len(got'[c]) <= Len(got[c]) + 1 /\ Len(got[c]) \in Nat
    BY Delivered DEF TInv
  <2>2. Old(c, i)
    BY <1>1, <2>1
  <2>3. CASE Old(c, j)
    BY <2>2, <2>3 DEF OInv, PerTaskOrder
  <2>4. CASE New(c, j)
    BY <2>2, <2>4
  <2> QED
    BY <1>1, <2>3, <2>4
<1>4. Unpublished'
  <2> SUFFICES ASSUME NEW t \in Tasks, pc'[t] # "idle"
               PROVE  /\ \A l \in Nodes : \A i \in 1..Len(inbox[l]) : inbox[l][i].msg # cur[t]
                      /\ \A l \in Nodes : applying'[l] # << >> => applying'[l][1] # cur[t]
                      /\ \A c \in Clients : \A k \in 1..Len(got'[c]) :
                            got'[c][k] = cur[t] => pc'[t] # "local" /\ ClientNode[c] = TaskNode[t]
    BY DEF Unpublished, Fades
  <2>1. pc[t] # "idle" /\ (pc'[t] = "local" => pc[t] = "local")
    BY DEF Fades
  <2>2. /\ \A l \in Nodes : \A i \in 1..Len(inbox[l]) : inbox[l][i].msg # cur[t]
        /\ \A l \in Nodes : applying'[l] # << >> => applying'[l][1] # cur[t]
    BY <2>1 DEF OInv, Unpublished, Fades
  <2>3. \A c \in Clients : \A k \in 1..Len(got'[c]) :
            got'[c][k] = cur[t] => pc'[t] # "local" /\ ClientNode[c] = TaskNode[t]
    BY <1>1, <2>1 DEF OInv, Unpublished
  <2> QED
    BY <2>2, <2>3
<1>5. GotBeforeApplying'
  <2> SUFFICES ASSUME NEW c \in Clients, NEW k \in 1..Len(got'[c]),
                      applying'[ClientNode[c]] # << >>,
                      sentBy[got'[c][k]] = sentBy[applying'[ClientNode[c]][1]]
               PROVE  got'[c][k] < applying'[ClientNode[c]][1]
    BY DEF GotBeforeApplying, Precedes, Fades
  <2>1. applying'[ClientNode[c]] = applying[ClientNode[c]]
    BY Places DEF Fades
  <2>2. CASE Old(c, k)
    BY <2>1, <2>2 DEF OInv, GotBeforeApplying, Precedes
  <2>3. CASE New(c, k)
    BY <2>1, <2>3 DEF Precedes
  <2> QED
    BY <1>1, <2>2, <2>3
<1>6. GotBeforeInbox'
  <2> SUFFICES ASSUME NEW c \in Clients, NEW k \in 1..Len(got'[c]),
                      NEW i \in 1..Len(inbox[ClientNode[c]]),
                      Foreign(ClientNode[c], inbox[ClientNode[c]][i]),
                      sentBy[got'[c][k]] = sentBy[inbox[ClientNode[c]][i].msg]
               PROVE  got'[c][k] < inbox[ClientNode[c]][i].msg
    BY DEF GotBeforeInbox, Precedes, Foreign, Fades
  <2>1. CASE Old(c, k)
    BY <2>1 DEF OInv, GotBeforeInbox, Precedes
  <2>2. CASE New(c, k)
    BY <2>2 DEF Precedes
  <2> QED
    BY <1>1, <2>1, <2>2
<1>7. ApplyingBeforeInbox'
  BY DEF OInv, ApplyingBeforeInbox, Foreign, Precedes, Fades
<1>8. InboxInOrder'
  BY DEF OInv, InboxInOrder, Foreign, Precedes, Fades
<1> QED
  BY <1>2, <1>3, <1>4, <1>5, <1>6, <1>7, <1>8 DEF OInv

LEMMA LocalOrder ==
    ASSUME TInv, OInv, NEW t \in Tasks, BroadcastLocal(t)
    PROVE  OInv'
<1> DEFINE n == TaskNode[t]
           m == cur[t]
<1>1. /\ pc[t] = "local" /\ pc' = [pc EXCEPT ![t] = "lock"]
      /\ Deliver(n, sentTo[m], gen[t], m)
      /\ sentTo' = sentTo /\ sentBy' = sentBy /\ cur' = cur
      /\ inbox' = inbox /\ nodeId' = nodeId /\ applying' = applying
  BY DEF BroadcastLocal, msgVars
<1>2. /\ m \in 1..Sent /\ sentBy[m] = Me(t) /\ sentBy[m][2] = nodeId[n]
      /\ \A l \in 1..Sent : sentBy[l] = Me(t) => l <= m
  BY <1>1, SenderType DEF TInv, Control
<1>3. n \in Nodes /\ m \in 1..MaxMsgs
  BY <1>2, Places DEF TInv, TypeOK
<1>4. Fades
  <2>1. \A k \in Nodes : Moves(k)
    BY <1>1, MoveCases DEF TInv
  <2>2. \A u \in Tasks : pc'[u] # "idle" => pc[u] # "idle" /\ (pc'[u] = "local" => pc[u] = "local")
    BY <1>1 DEF TInv, TypeOK
  <2> QED
    BY <1>1, <2>1, <2>2 DEF Fades
<1>5. \A c \in Clients : ClientNode[c] = n =>
        \A k \in 1..Len(got[c]) : sentBy[got[c][k]] = sentBy[m] => got[c][k] < m
  <2> SUFFICES ASSUME NEW c \in Clients, NEW k \in 1..Len(got[c]), sentBy[got[c][k]] = Me(t)
               PROVE  got[c][k] < m
    BY <1>2
  <2>1. got[c][k] \in 1..Sent
    BY DEF OInv, GotSent
  <2>2. got[c][k] # m
    BY <1>1 DEF OInv, Unpublished
  <2> QED
    BY <1>2, <2>1, <2>2
<1>6. \A i \in 1..Len(inbox[n]) : Foreign(n, inbox[n][i]) => Precedes(m, inbox[n][i].msg)
  BY <1>2, <1>3 DEF TInv, InboxGenuine, Genuine, Foreign, Precedes
<1>7. applying'[n] # << >> => Precedes(m, applying[n][1])
  BY <1>1, <1>2, <1>3 DEF TInv, AppliesForeign, Precedes
<1>8. \A u \in Tasks : pc'[u] # "idle" /\ cur[u] = m => pc'[u] # "local" /\ TaskNode[u] = n
  <2> SUFFICES ASSUME NEW u \in Tasks, pc'[u] # "idle", cur[u] = m
               PROVE  u = t
    BY <1>1 DEF TInv, TypeOK
  <2>1. pc[u] # "idle"
    BY <1>4 DEF Fades
  <2> QED
    BY <1>2, <2>1, SenderType DEF TInv, Control
<1> HIDE DEF n, m
<1> QED
  BY <1>1, <1>2, <1>3, <1>4, <1>5, <1>6, <1>7, <1>8, DeliveryOrder

LEMMA SendOrder ==
    ASSUME TInv, OInv, NEW n \in Nodes, ApplySend(n)
    PROVE  OInv'
<1> DEFINE m == applying[n][1]
<1>1. /\ applying[n] # << >> /\ applying' = [applying EXCEPT ![n] = << >>]
      /\ Deliver(n, applying[n][2], applying[n][3], m)
      /\ sentTo' = sentTo /\ sentBy' = sentBy /\ cur' = cur /\ pc' = pc
      /\ inbox' = inbox /\ nodeId' = nodeId
  BY DEF ApplySend, msgVars, taskVars
<1>2. m \in 1..Sent /\ m \in 1..MaxMsgs
  BY <1>1 DEF TInv, TypeOK, AppliesForeign
<1>3. Fades
  <2>1. \A k \in Nodes : Moves(k)
    BY <1>1, MoveCases DEF TInv
  <2>2. \A k \in Nodes : applying'[k] = applying[k] \/ applying'[k] = << >>
    BY <1>1 DEF TInv, TypeOK
  <2> QED
    BY <1>1, <2>1, <2>2 DEF Fades
<1>4. \A c \in Clients : ClientNode[c] = n =>
        \A k \in 1..Len(got[c]) : sentBy[got[c][k]] = sentBy[m] => got[c][k] < m
  BY <1>1 DEF OInv, GotBeforeApplying, Precedes
<1>5. \A i \in 1..Len(inbox[n]) : Foreign(n, inbox[n][i]) => Precedes(m, inbox[n][i].msg)
  BY <1>1 DEF OInv, ApplyingBeforeInbox
<1>6. applying'[n] = << >>
  BY <1>1 DEF TInv, TypeOK
<1>7. \A u \in Tasks : pc'[u] # "idle" => cur[u] # m
  BY <1>1 DEF OInv, Unpublished
<1> HIDE DEF m
<1> QED
  BY <1>1, <1>2, <1>3, <1>4, <1>5, <1>6, <1>7, DeliveryOrder

LEMMA GetOrder ==
    ASSUME TInv, OInv, NEW n \in Nodes, ApplyGet(n)
    PROVE  OInv'
<1> DEFINE env == Head(inbox[n])
<1>1. /\ inbox[n] # << >> /\ applying[n] = << >>
      /\ sentTo' = sentTo /\ sentBy' = sentBy /\ cur' = cur /\ pc' = pc
      /\ got' = got /\ nodeId' = nodeId
  BY DEF ApplyGet, msgVars, taskVars
<1>2. /\ \A k \in Nodes : k # n => applying'[k] = applying[k] /\ inbox'[k] = inbox[k]
      /\ applying'[n] # << >> => applying'[n][1] = env.msg /\ Foreign(n, env)
      /\ inbox'[n] = Tail(inbox[n])
  <2>1. applying' = [applying EXCEPT ![n] =
            IF Ignored(n, env) THEN << >>
            ELSE <<env.msg, RoomIdFromChannel(n, env.channel),
                   hosted[n][RoomIdFromChannel(n, env.channel)]>>]
    BY DEF ApplyGet
  <2>2. ~Ignored(n, env) => Foreign(n, env)
    BY DEF Ignored, Foreign
  <2>3. inbox' = [inbox EXCEPT ![n] = Tail(@)]
    BY DEF ApplyGet
  <2> QED
    BY <1>1, <2>1, <2>2, <2>3 DEF TInv, TypeOK
<1>3. /\ inbox[n] \in Seq(Envelopes) /\ env = inbox[n][1]
      /\ Len(inbox[n]) \in Nat \ {0} /\ Len(inbox'[n]) = Len(inbox[n]) - 1
      /\ \A i \in 1..Len(inbox'[n]) : i + 1 \in 1..Len(inbox[n]) /\ inbox'[n][i] = inbox[n][i + 1]
  <2>1. inbox[n] \in Seq(Envelopes)
    BY DEF TInv, TypeOK
  <2>2. /\ Len(Tail(inbox[n])) = Len(inbox[n]) - 1
        /\ Len(inbox[n]) \in Nat \ {0}
        /\ \A i \in 1..Len(Tail(inbox[n])) :
                i + 1 \in 1..Len(inbox[n]) /\ Tail(inbox[n])[i] = inbox[n][i + 1]
        /\ env = inbox[n][1]
    BY <1>1, <2>1, TailFacts
  <2> QED
    BY <1>2, <2>1, <2>2
<1>4. 1 \in 1..Len(inbox[n])
  BY <1>3
<1>5. \A k \in Nodes : \A i \in 1..Len(inbox'[k]) :
        \E j \in 1..Len(inbox[k]) : inbox'[k][i] = inbox[k][j]
  <2> SUFFICES ASSUME NEW k \in Nodes, NEW i \in 1..Len(inbox'[k])
               PROVE  \E j \in 1..Len(inbox[k]) : inbox'[k][i] = inbox[k][j]
    OBVIOUS
  <2>1. CASE k = n
    BY <1>3, <2>1
  <2>2. CASE k # n
    BY <1>2, <2>2
  <2> QED
    BY <2>1, <2>2
<1> HIDE DEF env
<1>6. GotSent' /\ PerTaskOrder'
  BY <1>1 DEF OInv, GotSent, PerTaskOrder, Sent
<1>7. Unpublished'
  <2> SUFFICES ASSUME NEW t \in Tasks, pc[t] # "idle"
               PROVE  /\ \A k \in Nodes : \A i \in 1..Len(inbox'[k]) : inbox'[k][i].msg # cur[t]
                      /\ \A k \in Nodes : applying'[k] # << >> => applying'[k][1] # cur[t]
    BY <1>1 DEF OInv, Unpublished
  <2>1. \A k \in Nodes : \A i \in 1..Len(inbox'[k]) : inbox'[k][i].msg # cur[t]
    <3> SUFFICES ASSUME NEW k \in Nodes, NEW i \in 1..Len(inbox'[k])
                 PROVE  inbox'[k][i].msg # cur[t]
      OBVIOUS
    <3>1. \E j \in 1..Len(inbox[k]) : inbox'[k][i] = inbox[k][j]
      BY <1>5
    <3> QED
      BY <3>1 DEF OInv, Unpublished
  <2>2. env.msg # cur[t]
    BY <1>3, <1>4 DEF OInv, Unpublished
  <2>3. \A k \in Nodes : applying'[k] # << >> => applying'[k][1] # cur[t]
    BY <1>2, <2>2 DEF OInv, Unpublished
  <2> QED
    BY <2>1, <2>3
<1>8. GotBeforeApplying'
  <2> SUFFICES ASSUME NEW c \in Clients, NEW k \in 1..Len(got[c]),
                      applying'[ClientNode[c]] # << >>,
                      sentBy[got[c][k]] = sentBy[applying'[ClientNode[c]][1]]
               PROVE  got[c][k] < applying'[ClientNode[c]][1]
    BY <1>1 DEF GotBeforeApplying, Precedes
  <2>1. CASE ClientNode[c] = n
    BY <1>2, <1>3, <1>4, <2>1, SMTT(30) DEF OInv, GotBeforeInbox, Precedes
  <2>2. CASE ClientNode[c] # n
    BY <1>2, <2>2, Places DEF OInv, GotBeforeApplying, Precedes
  <2> QED
    BY <2>1, <2>2
<1>9. GotBeforeInbox'
  <2> SUFFICES ASSUME NEW c \in Clients, NEW k \in 1..Len(got[c]), NEW l \in Nodes, l = ClientNode[c],
                      NEW i \in 1..Len(inbox'[l]),
                      Foreign(l, inbox'[l][i]),
                      sentBy[got[c][k]] = sentBy[inbox'[l][i].msg]
               PROVE  got[c][k] < inbox'[l][i].msg
    BY <1>1, Places DEF GotBeforeInbox, Precedes, Foreign
  <2>1. PICK j \in 1..Len(inbox[l]) : inbox'[l][i] = inbox[l][j]
    BY <1>5
  <2> QED
    BY <2>1 DEF OInv, GotBeforeInbox, Precedes
<1>10. ApplyingBeforeInbox'
  <2> SUFFICES ASSUME NEW l \in Nodes, NEW i \in 1..Len(inbox'[l]), applying'[l] # << >>,
                      Foreign(l, inbox'[l][i]),
                      sentBy[applying'[l][1]] = sentBy[inbox'[l][i].msg]
               PROVE  applying'[l][1] < inbox'[l][i].msg
    BY <1>1 DEF ApplyingBeforeInbox, Precedes, Foreign
  <2>1. CASE l = n
    <3>1. i \in 1..Len(inbox'[n]) /\ 1 < i + 1
      BY <2>1
    <3>2. i + 1 \in 1..Len(inbox[n]) /\ inbox'[n][i] = inbox[n][i + 1]
      BY <1>3, <3>1
    <3>3. applying'[n][1] = inbox[n][1].msg /\ Foreign(n, inbox[n][1])
      BY <1>2, <1>3, <2>1
    <3> QED
      BY <1>4, <2>1, <3>1, <3>2, <3>3 DEF OInv, InboxInOrder, Precedes
  <2>2. CASE l # n
    BY <1>2, <2>2 DEF OInv, ApplyingBeforeInbox, Precedes
  <2> QED
    BY <2>1, <2>2
<1>11. InboxInOrder'
  <2> SUFFICES ASSUME NEW l \in Nodes, NEW i \in 1..Len(inbox'[l]), NEW j \in 1..Len(inbox'[l]),
                      i < j, Foreign(l, inbox'[l][i]), Foreign(l, inbox'[l][j]),
                      sentBy[inbox'[l][i].msg] = sentBy[inbox'[l][j].msg]
               PROVE  inbox'[l][i].msg < inbox'[l][j].msg
    BY <1>1 DEF InboxInOrder, Precedes, Foreign
  <2>1. CASE l = n
    <3>1. i \in 1..Len(inbox'[n]) /\ j \in 1..Len(inbox'[n]) /\ i + 1 < j + 1
      BY <2>1
    <3>2. /\ i + 1 \in 1..Len(inbox[n]) /\ inbox'[n][i] = inbox[n][i + 1]
          /\ j + 1 \in 1..Len(inbox[n]) /\ inbox'[n][j] = inbox[n][j + 1]
      BY <1>3, <3>1
    <3> QED
      BY <2>1, <3>1, <3>2 DEF OInv, InboxInOrder, Precedes
  <2>2. CASE l # n
    BY <1>2, <2>2 DEF OInv, InboxInOrder, Precedes
  <2> QED
    BY <2>1, <2>2
<1> QED
  BY <1>6, <1>7, <1>8, <1>9, <1>10, <1>11 DEF OInv

\* The order is kept when an envelope reaches Redis that comes after all of
\* its sender that is out, and that no task still holds.
LEMMA PublishOrder ==
    ASSUME TInv, OInv, NEW env \in Envelopes, Publish(env), env.id # Malformed,
           sentTo' = sentTo, sentBy' = sentBy, cur' = cur,
           got' = got, nodeId' = nodeId, applying' = applying,
           \A u \in Tasks : pc'[u] # "idle" => pc'[u] = pc[u] /\ cur[u] # env.msg,
           \A n \in Nodes : env.id # nodeId[n] =>
                /\ \A c \in Clients : ClientNode[c] = n =>
                      \A k \in 1..Len(got[c]) : Precedes(got[c][k], env.msg)
                /\ applying[n] # << >> => Precedes(applying[n][1], env.msg)
                /\ \A i \in 1..Len(inbox[n]) :
                      inbox[n][i].id # Malformed => Precedes(inbox[n][i].msg, env.msg)
    PROVE  OInv'
<1> DEFINE New(n, i) == inbox'[n][i] = env /\ i = Len(inbox[n]) + 1
           Old(n, i) == i \in 1..Len(inbox[n]) /\ inbox'[n][i] = inbox[n][i]
<1>1. \A n \in Nodes : /\ Len(inbox[n]) \in Nat /\ Len(inbox'[n]) \in Nat
                       /\ Len(inbox'[n]) <= Len(inbox[n]) + 1
                       /\ \A i \in 1..Len(inbox'[n]) : New(n, i) \/ Old(n, i)
  <2> SUFFICES ASSUME NEW n \in Nodes
               PROVE  /\ Len(inbox[n]) \in Nat /\ Len(inbox'[n]) \in Nat
                      /\ Len(inbox'[n]) <= Len(inbox[n]) + 1
                      /\ \A i \in 1..Len(inbox'[n]) : New(n, i) \/ Old(n, i)
    OBVIOUS
  <2>1. inbox[n] \in Seq(Envelopes) /\ Len(inbox[n]) \in Nat
    BY LenProperties DEF TInv, TypeOK
  <2>2. inbox'[n] = inbox[n] \/ inbox'[n] = Append(inbox[n], env)
    BY DEF Publish
  <2>3. CASE inbox'[n] = inbox[n]
    BY <2>1, <2>3
  <2>4. CASE inbox'[n] = Append(inbox[n], env)
    BY <2>1, <2>4, AppendFacts
  <2> QED
    BY <2>2, <2>3, <2>4
<1>2. GotSent' /\ PerTaskOrder' /\ GotBeforeApplying'
  BY DEF OInv, GotSent, PerTaskOrder, GotBeforeApplying, Precedes, Sent
<1>3. Unpublished'
  <2> SUFFICES ASSUME NEW u \in Tasks, pc'[u] # "idle"
               PROVE  /\ \A n \in Nodes : \A i \in 1..Len(inbox'[n]) : inbox'[n][i].msg # cur[u]
                      /\ \A n \in Nodes : applying[n] # << >> => applying[n][1] # cur[u]
                      /\ \A c \in Clients : \A k \in 1..Len(got[c]) :
                            got[c][k] = cur[u] => pc'[u] # "local" /\ ClientNode[c] = TaskNode[u]
    BY DEF Unpublished
  <2>1. pc'[u] = pc[u] /\ pc[u] # "idle" /\ cur[u] # env.msg
    OBVIOUS
  <2>2. \A n \in Nodes : \A i \in 1..Len(inbox'[n]) : inbox'[n][i].msg # cur[u]
    BY <1>1, <2>1 DEF OInv, Unpublished
  <2> QED
    BY <2>1, <2>2 DEF OInv, Unpublished
<1>4. GotBeforeInbox'
  <2> SUFFICES ASSUME NEW c \in Clients, NEW k \in 1..Len(got[c]), NEW n \in Nodes, n = ClientNode[c],
                      NEW i \in 1..Len(inbox'[n]),
                      Foreign(n, inbox'[n][i]),
                      sentBy[got[c][k]] = sentBy[inbox'[n][i].msg]
               PROVE  got[c][k] < inbox'[n][i].msg
    BY Places DEF GotBeforeInbox, Precedes, Foreign
  <2>1. CASE Old(n, i)
    BY <2>1 DEF OInv, GotBeforeInbox, Precedes
  <2>2. CASE New(n, i)
    BY <2>2 DEF Foreign, Precedes
  <2> QED
    BY <1>1, <2>1, <2>2
<1>5. ApplyingBeforeInbox'
  <2> SUFFICES ASSUME NEW n \in Nodes, NEW i \in 1..Len(inbox'[n]), applying[n] # << >>,
                      Foreign(n, inbox'[n][i]),
                      sentBy[applying[n][1]] = sentBy[inbox'[n][i].msg]
               PROVE  applying[n][1] < inbox'[n][i].msg
    BY DEF ApplyingBeforeInbox, Precedes, Foreign
  <2>1. CASE Old(n, i)
    BY <2>1 DEF OInv, ApplyingBeforeInbox, Precedes
  <2>2. CASE New(n, i)
    BY <2>2 DEF Foreign, Precedes
  <2> QED
    BY <1>1, <2>1, <2>2
<1>6. InboxInOrder'
  <2> SUFFICES ASSUME NEW n \in Nodes, NEW i \in 1..Len(inbox'[n]), NEW j \in 1..Len(inbox'[n]),
                      i < j, Foreign(n, inbox'[n][i]), Foreign(n, inbox'[n][j]),
                      sentBy[inbox'[n][i].msg] = sentBy[inbox'[n][j].msg]
               PROVE  inbox'[n][i].msg < inbox'[n][j].msg
    BY DEF InboxInOrder, Precedes, Foreign
  <2>1. Old(n, i)
    BY <1>1
  <2>2. CASE Old(n, j)
    BY <2>1, <2>2 DEF OInv, InboxInOrder, Precedes
  <2>3. CASE New(n, j)
    BY <2>1, <2>3 DEF Foreign, Precedes
  <2> QED
    BY <1>1, <2>2, <2>3
<1> QED
  BY <1>2, <1>3, <1>4, <1>5, <1>6 DEF OInv

LEMMA ReachesOrder ==
    ASSUME TInv, OInv, NEW t \in Tasks, NEW replied \in BOOLEAN, PublishReaches(t, replied)
    PROVE  OInv'
<1> DEFINE env == EnvelopeOf(t)
           m == cur[t]
<1>1. /\ pc[t] = "publish" /\ pc' = [pc EXCEPT ![t] = "idle"]
      /\ sentTo' = sentTo /\ sentBy' = sentBy /\ cur' = cur
      /\ got' = got /\ nodeId' = nodeId /\ applying' = applying
      /\ Publish(env)
  BY DEF PublishReaches, Return, msgVars
<1>2. /\ m \in 1..Sent /\ sentBy[m] = Me(t)
      /\ \A l \in 1..Sent : sentBy[l] = Me(t) => l <= m
  BY <1>1 DEF TInv, Control
<1>3. env \in Envelopes /\ env.msg = m /\ env.id # Malformed /\ env.id = nodeId[TaskNode[t]]
  BY <1>1, EnvelopeType, OwnGenuine DEF EnvelopeOf
<1> HIDE DEF env
<1>4. \A u \in Tasks : pc'[u] # "idle" => pc'[u] = pc[u] /\ cur[u] # env.msg
  <2> SUFFICES ASSUME NEW u \in Tasks, pc'[u] # "idle"
               PROVE  pc'[u] = pc[u] /\ cur[u] # m
    BY <1>3
  <2>1. pc'[u] = pc[u] /\ pc[u] # "idle" /\ u # t
    BY <1>1 DEF TInv, TypeOK
  <2>2. sentBy[cur[u]] = Me(u) /\ Me(u) # Me(t)
    BY <2>1, SenderType DEF TInv, Control
  <2> QED
    BY <1>2, <2>1, <2>2
<1>5. \A l \in 1..Sent : l # m => Precedes(l, m)
  BY <1>2 DEF Precedes
<1> HIDE DEF m
<1>6. ASSUME NEW n \in Nodes, env.id # nodeId[n]
      PROVE  /\ \A c \in Clients : ClientNode[c] = n =>
                    \A k \in 1..Len(got[c]) : Precedes(got[c][k], env.msg)
             /\ applying[n] # << >> => Precedes(applying[n][1], env.msg)
             /\ \A i \in 1..Len(inbox[n]) :
                    inbox[n][i].id # Malformed => Precedes(inbox[n][i].msg, env.msg)
  <2>1. TaskNode[t] # n
    BY <1>3, <1>6
  <2>2. \A c \in Clients : ClientNode[c] = n => \A k \in 1..Len(got[c]) : got[c][k] # m
    BY <1>1, <2>1 DEF OInv, Unpublished, m
  <2>3. applying[n] # << >> => applying[n][1] # m
    BY <1>1 DEF OInv, Unpublished, m
  <2>4. \A i \in 1..Len(inbox[n]) : inbox[n][i].msg # m
    BY <1>1 DEF OInv, Unpublished, m
  <2> QED
    BY <1>3, <1>5, <2>2, <2>3, <2>4
       DEF OInv, GotSent, TInv, AppliesForeign, InboxGenuine, Genuine
<1> QED
  BY <1>1, <1>3, <1>4, <1>6, PublishOrder

\* What a dead process had sent comes late, but after all of its sender.
LEMMA StrayOrder ==
    ASSUME TInv, OInv, AfloatLast, NEW env \in afloat, StrayArrives(env)
    PROVE  OInv'
<1>1. /\ sentTo' = sentTo /\ sentBy' = sentBy /\ cur' = cur /\ pc' = pc
      /\ got' = got /\ nodeId' = nodeId /\ applying' = applying
      /\ Publish(env)
  BY DEF StrayArrives, msgVars, taskVars
<1>2. env \in Envelopes /\ env.id # Malformed
  BY DEF TInv, TypeOK, AfloatGenuine
<1>3. \A u \in Tasks : pc[u] # "idle" => cur[u] # env.msg
  BY DEF TInv, AfloatGenuine, Control
<1>4. \A m : Out(m) => Precedes(m, env.msg)
  BY DEF AfloatLast
<1>5. ASSUME NEW n \in Nodes
      PROVE  /\ \A c \in Clients : \A k \in 1..Len(got[c]) : Precedes(got[c][k], env.msg)
             /\ applying[n] # << >> => Precedes(applying[n][1], env.msg)
             /\ \A i \in 1..Len(inbox[n]) :
                    inbox[n][i].id # Malformed => Precedes(inbox[n][i].msg, env.msg)
  BY <1>4, Zenon DEF Out
<1> QED
  BY <1>1, <1>2, <1>3, <1>5, PublishOrder

LEMMA StartOrder ==
    ASSUME TInv, OInv, NEW t \in Tasks, NEW r \in RoomIds, BroadcastStart(t, r)
    PROVE  OInv'
<1>1. /\ cur' = [cur EXCEPT ![t] = Sent + 1] /\ pc' = [pc EXCEPT ![t] = "local"]
      /\ got' = got /\ nodeId' = nodeId /\ inbox' = inbox /\ applying' = applying
  BY DEF BroadcastStart
<1>2. /\ Sent \in Nat /\ Sent' = Sent + 1
      /\ \A m \in 1..Sent : sentBy'[m] = sentBy[m]
  BY SentGrows DEF TInv
<1>3. \A c \in Clients : \A k \in 1..Len(got[c]) : got[c][k] \in 1..Sent
  BY DEF OInv, GotSent
<1>4. \A n \in Nodes : applying[n] # << >> => applying[n][1] \in 1..Sent
  BY DEF TInv, AppliesForeign
<1>5. \A n \in Nodes : \A i \in 1..Len(inbox[n]) :
        Foreign(n, inbox[n][i]) => inbox[n][i].msg \in 1..Sent
  BY DEF TInv, InboxGenuine, Genuine, Foreign
<1>6. GotSent'
  BY <1>1, <1>2, <1>3 DEF GotSent
<1>7. PerTaskOrder'
  <2> SUFFICES ASSUME NEW c \in Clients, NEW i \in 1..Len(got[c]), NEW j \in 1..Len(got[c]),
                      i < j, sentBy'[got[c][i]] = sentBy'[got[c][j]]
               PROVE  got[c][i] < got[c][j]
    BY <1>1 DEF PerTaskOrder
  <2>1. sentBy[got[c][i]] = sentBy[got[c][j]]
    BY <1>2, <1>3
  <2> QED
    BY <2>1 DEF OInv, PerTaskOrder
<1>8. Unpublished'
  <2> SUFFICES ASSUME NEW u \in Tasks, pc'[u] # "idle"
               PROVE  /\ \A n \in Nodes : \A i \in 1..Len(inbox[n]) : inbox[n][i].msg # cur'[u]
                      /\ \A n \in Nodes : applying[n] # << >> => applying[n][1] # cur'[u]
                      /\ \A c \in Clients : \A k \in 1..Len(got[c]) :
                            got[c][k] = cur'[u] => pc'[u] # "local" /\ ClientNode[c] = TaskNode[u]
    BY <1>1 DEF Unpublished
  <2>1. CASE u = t
    <3>1. cur'[u] = Sent + 1
      BY <1>1, <2>1 DEF TInv, TypeOK
    <3>2. \A n \in Nodes : \A i \in 1..Len(inbox[n]) : inbox[n][i].msg # Sent + 1
      BY <1>2 DEF TInv, InboxGenuine, Genuine
    <3> QED
      BY <1>2, <1>3, <1>4, <3>1, <3>2
  <2>2. CASE u # t
    <3>1. cur'[u] = cur[u] /\ pc'[u] = pc[u]
      BY <1>1, <2>2 DEF TInv, TypeOK
    <3> QED
      BY <3>1 DEF OInv, Unpublished
  <2> QED
    BY <2>1, <2>2
<1>9. GotBeforeApplying'
  BY <1>1, <1>2, <1>3, <1>4, Places DEF OInv, GotBeforeApplying, Precedes
<1>10. GotBeforeInbox'
  <2> SUFFICES ASSUME NEW c \in Clients, NEW n \in Nodes, n = ClientNode[c],
                      NEW k \in 1..Len(got[c]), NEW i \in 1..Len(inbox[n]),
                      Foreign(n, inbox[n][i]), sentBy'[got[c][k]] = sentBy'[inbox[n][i].msg]
               PROVE  got[c][k] < inbox[n][i].msg
    BY <1>1, Places DEF GotBeforeInbox, Foreign, Precedes
  <2> QED
    BY <1>2, <1>3, <1>5 DEF OInv, GotBeforeInbox, Precedes
<1>11. ApplyingBeforeInbox'
  <2> SUFFICES ASSUME NEW n \in Nodes, NEW i \in 1..Len(inbox[n]), applying[n] # << >>,
                      Foreign(n, inbox[n][i]), sentBy'[applying[n][1]] = sentBy'[inbox[n][i].msg]
               PROVE  applying[n][1] < inbox[n][i].msg
    BY <1>1 DEF ApplyingBeforeInbox, Foreign, Precedes
  <2> QED
    BY <1>2, <1>4, <1>5 DEF OInv, ApplyingBeforeInbox, Precedes
<1>12. InboxInOrder'
  <2> SUFFICES ASSUME NEW n \in Nodes, NEW i \in 1..Len(inbox[n]), NEW j \in 1..Len(inbox[n]), i < j,
                      Foreign(n, inbox[n][i]), Foreign(n, inbox[n][j]),
                      sentBy'[inbox[n][i].msg] = sentBy'[inbox[n][j].msg]
               PROVE  inbox[n][i].msg < inbox[n][j].msg
    BY <1>1 DEF InboxInOrder, Foreign, Precedes
  <2> QED
    BY <1>2, <1>5 DEF OInv, InboxInOrder, Precedes
<1> QED
  BY <1>6, <1>7, <1>8, <1>9, <1>10, <1>11, <1>12 DEF OInv

\* All other steps fade.
LEMMA FadingSteps ==
    ASSUME TInv, [Next]_vars,
           ~\E t \in Tasks, r \in RoomIds : BroadcastStart(t, r),
           ~\E t \in Tasks, replied \in BOOLEAN : PublishReaches(t, replied),
           ~\E n \in Nodes : ApplyGet(n),
           ~\E env \in afloat : StrayArrives(env)
    PROVE  Fades
<1>1. /\ sentTo' = sentTo /\ sentBy' = sentBy /\ cur' = cur
      /\ \A t \in Tasks : pc'[t] # "idle" => pc[t] # "idle" /\ (pc'[t] = "local" => pc[t] = "local")
  BY OtherActions DEF TInv
<1>2. \A n \in Nodes : applying'[n] = applying[n] \/ applying'[n] = << >>
  BY ApplyingActions DEF TInv
<1>3. ASSUME NEW n \in Nodes PROVE Moves(n)
  <2>1. ASSUME NEW k \in Nodes, NEW r \in RoomIds, BadEnvelope(k, r) PROVE Moves(n)
    <3> DEFINE env == [id |-> Malformed, channel |-> ChannelName(k, r), msg |-> 0]
    <3>1. env \in Envelopes /\ env.id = Malformed /\ env.msg = 0
      BY ChannelType, Numbers DEF Envelopes, Malformed
    <3>2. nodeId'[n] = nodeId[n] /\ (inbox'[n] = inbox[n] \/ inbox'[n] = Append(inbox[n], env))
      BY <2>1 DEF BadEnvelope, Publish
    <3> HIDE DEF env
    <3> QED
      BY <3>1, <3>2, MoveCases DEF TInv
  <2>2. ASSUME NEW k \in Nodes, SubscriberCut(k) PROVE Moves(n)
    <3>1. nodeId' = nodeId /\ \E l \in 0..Len(inbox[k]) : inbox' = [inbox EXCEPT ![k] = SubSeq(@, 1, l)]
      BY <2>2 DEF SubscriberCut
    <3>2. CASE k = n
      BY <3>1, <3>2, MoveCases DEF TInv, TypeOK
    <3>3. CASE k # n
      BY <3>1, <3>3, MoveCases DEF TInv, TypeOK
    <3> QED
      BY <3>2, <3>3
  <2>3. ASSUME NEW k \in Nodes, Restart(k) PROVE Moves(n)
    <3>1. k = n => inbox'[n] = << >>
      BY <2>3 DEF Restart, TInv, TypeOK
    <3>2. k # n => inbox'[n] = inbox[n] /\ nodeId'[n] = nodeId[n]
      BY <2>3 DEF Restart, TInv, TypeOK
    <3> QED
      BY <3>1, <3>2, MoveCases DEF TInv
  <2>4. CASE inbox' = inbox /\ nodeId' = nodeId
    BY <2>4, MoveCases DEF TInv
  <2> QED
    BY <2>1, <2>2, <2>3, <2>4, InboxActions
<1> QED
  BY <1>1, <1>2, <1>3 DEF Fades

\* Only the two deliveries give clients anything.
LEMMA OtherDeliverNothing ==
    ASSUME TypeOK, [Next]_vars,
           ~\E t \in Tasks : BroadcastLocal(t),
           ~\E n \in Nodes : ApplySend(n)
    PROVE  NoneGets
<1>1. CASE \E t \in Tasks : LockConnection(t) \/ CancelWaiting(t) \/ PublishFails(t)
  BY <1>1 DEF LockConnection, CancelWaiting, PublishFails, NoneGets
<1>2. CASE \E t \in Tasks, r \in RoomIds : BroadcastStart(t, r)
  BY <1>2 DEF BroadcastStart, NoneGets
<1>3. CASE \E t \in Tasks, replied \in BOOLEAN : PublishReaches(t, replied)
  BY <1>3 DEF PublishReaches, NoneGets
<1>4. CASE \E k \in Nodes : ApplyGet(k) \/ SubscriberStart(k) \/ SubscriberCut(k)
  BY <1>4 DEF ApplyGet, SubscriberStart, SubscriberCut, NoneGets
<1>5. CASE \E k \in Nodes : Restart(k)
  BY <1>5 DEF Restart, NoneGets
<1>6. CASE \E c \in Clients : ClientLeave(c) \/ \E r \in RoomIds : ClientJoin(c, r)
  BY <1>6 DEF ClientLeave, ClientJoin, NoneGets
<1>7. CASE \/ \E k \in Nodes, r \in RoomIds : RemoveRoom(k, r) \/ BadEnvelope(k, r)
           \/ \E env \in afloat : StrayArrives(env)
  BY <1>7 DEF RemoveRoom, BadEnvelope, StrayArrives, NoneGets
<1>8. CASE UNCHANGED vars
  BY <1>8 DEF vars, NoneGets
<1> QED
  BY <1>1, <1>2, <1>3, <1>4, <1>5, <1>6, <1>7, <1>8 DEF Next, TaskStep, ApplyStep, Quiet

LEMMA NextOrder ==
    ASSUME TInv, OInv, AfloatLast, [Next]_vars
    PROVE  OInv'
<1>1. CASE \E t \in Tasks, r \in RoomIds : BroadcastStart(t, r)
  BY <1>1, StartOrder
<1>2. CASE \E t \in Tasks, replied \in BOOLEAN : PublishReaches(t, replied)
  BY <1>2, ReachesOrder
<1>3. CASE \E n \in Nodes : ApplyGet(n)
  BY <1>3, GetOrder
<1>4. CASE \E t \in Tasks : BroadcastLocal(t)
  BY <1>4, LocalOrder
<1>5. CASE \E n \in Nodes : ApplySend(n)
  BY <1>5, SendOrder
<1>6. CASE \E env \in afloat : StrayArrives(env)
  BY <1>6, StrayOrder
<1>7. CASE ~ \/ \E t \in Tasks, r \in RoomIds : BroadcastStart(t, r)
             \/ \E t \in Tasks, replied \in BOOLEAN : PublishReaches(t, replied)
             \/ \E n \in Nodes : ApplyGet(n)
             \/ \E t \in Tasks : BroadcastLocal(t)
             \/ \E n \in Nodes : ApplySend(n)
             \/ \E env \in afloat : StrayArrives(env)
  BY <1>7, FadingSteps, OtherDeliverNothing, FadesOrder DEF TInv
<1> QED
  BY <1>1, <1>2, <1>3, <1>4, <1>5, <1>6, <1>7

\* Nothing comes out but what was out, what a task holds, or what floated.
LEMMA OutGrows ==
    ASSUME TInv, [Next]_vars, NEW m, Out(m)'
    PROVE  \/ Out(m)
           \/ \E t \in Tasks : pc[t] # "idle" /\ m = cur[t]
           \/ \E e \in afloat : m = e.msg /\ e \notin afloat'
<1> DEFINE Held == \E t \in Tasks : pc[t] # "idle" /\ m = cur[t]
           Floated == \E e \in afloat : m = e.msg /\ e \notin afloat'
<1>1. ASSUME NEW c \in Clients, NEW k \in 1..Len(got'[c]), got'[c][k] = m
      PROVE  Out(m) \/ Held
  <2>1. CASE NoneGets
    BY <1>1, <2>1 DEF NoneGets, Out
  <2>2. ASSUME NEW t \in Tasks, BroadcastLocal(t) PROVE Out(m) \/ Held
    <3>1. /\ pc[t] = "local" /\ cur[t] \in 1..MaxMsgs /\ TaskNode[t] \in Nodes
          /\ Deliver(TaskNode[t], sentTo[cur[t]], gen[t], cur[t])
      BY <2>2, Places DEF BroadcastLocal, TInv, Control, TypeOK
    <3>2. m = cur[t] \/ (k \in 1..Len(got[c]) /\ got[c][k] = m)
      BY <1>1, <3>1, DeliveredAt DEF TInv
    <3> QED
      BY <3>1, <3>2 DEF Out
  <2>3. ASSUME NEW n \in Nodes, ApplySend(n) PROVE Out(m)
    <3>1. /\ applying[n] # << >> /\ applying[n][1] \in 1..MaxMsgs
          /\ Deliver(n, applying[n][2], applying[n][3], applying[n][1])
      BY <2>3 DEF ApplySend, TInv, TypeOK
    <3>2. m = applying[n][1] \/ (k \in 1..Len(got[c]) /\ got[c][k] = m)
      BY <1>1, <3>1, DeliveredAt DEF TInv
    <3> QED
      BY <3>1, <3>2 DEF Out
  <2> QED
    BY <2>1, <2>2, <2>3, OtherDeliverNothing DEF TInv
<1>2. ASSUME NEW n \in Nodes, applying'[n] # << >>, applying'[n][1] = m
      PROVE  Out(m)
  <2>1. CASE applying'[n] = applying[n]
    BY <1>2, <2>1 DEF Out
  <2>2. ASSUME NEW k \in Nodes, ApplyGet(k), applying'[n] # applying[n] PROVE Out(m)
    <3> DEFINE env == Head(inbox[n])
    <3>1. k = n /\ inbox[n] \in Seq(Envelopes) /\ inbox[n] # << >>
      BY <2>2 DEF ApplyGet, TInv, TypeOK
    <3>2. env = inbox[n][1] /\ 1 \in 1..Len(inbox[n])
      BY <3>1, TailFacts
    <3>3. /\ ~Ignored(n, env)
          /\ applying'[n] = <<env.msg, RoomIdFromChannel(n, env.channel),
                               hosted[n][RoomIdFromChannel(n, env.channel)]>>
      BY <1>2, <2>2, <3>1 DEF ApplyGet, TInv, TypeOK
    <3>4. env.id # Malformed /\ env.msg = m
      BY <1>2, <3>3 DEF Ignored
    <3> QED
      BY <3>2, <3>4 DEF Out
  <2> QED
    BY <1>2, <2>1, <2>2, ApplyingActions DEF TInv
<1>3. ASSUME NEW n \in Nodes, NEW i \in 1..Len(inbox'[n]),
             inbox'[n][i].id # Malformed, inbox'[n][i].msg = m
      PROVE  Out(m) \/ Held \/ Floated
  <2>1. inbox[n] \in Seq(Envelopes)
    BY DEF TInv, TypeOK
  <2>2. ASSUME NEW j \in 1..Len(inbox[n]), inbox'[n][i] = inbox[n][j] PROVE Out(m)
    BY <1>3, <2>2 DEF Out
  <2>3. ASSUME Moves(n) PROVE Out(m)
    BY <1>3, <2>2, <2>3 DEF Moves
  <2>4. ASSUME NEW env \in Envelopes, Publish(env)
        PROVE  inbox'[n][i] = env \/ \E j \in 1..Len(inbox[n]) : inbox'[n][i] = inbox[n][j]
    <3>1. inbox'[n] = inbox[n] \/ inbox'[n] = Append(inbox[n], env)
      BY <2>4 DEF Publish
    <3> QED
      BY <2>1, <3>1, AppendFacts
  <2>5. ASSUME NEW t \in Tasks, NEW replied \in BOOLEAN, PublishReaches(t, replied)
        PROVE  Out(m) \/ Held
    <3>1. /\ pc[t] = "publish" /\ Publish(EnvelopeOf(t))
          /\ EnvelopeOf(t) \in Envelopes /\ EnvelopeOf(t).msg = cur[t]
      BY <2>5, EnvelopeType, OwnGenuine DEF PublishReaches
    <3> QED
      BY <1>3, <2>2, <2>4, <3>1
  <2>6. ASSUME NEW e \in afloat, StrayArrives(e) PROVE Out(m) \/ Floated
    <3>1. Publish(e) /\ e \in Envelopes /\ e \notin afloat'
      BY <2>6 DEF StrayArrives, TInv, TypeOK
    <3> QED
      BY <1>3, <2>2, <2>4, <3>1
  <2>7. ASSUME NEW k \in Nodes, ApplyGet(k) PROVE Out(m)
    <3>1. CASE k = n
      <4>1. inbox'[n] = Tail(inbox[n]) /\ inbox[n] # << >>
        BY <2>7, <3>1 DEF ApplyGet, TInv, TypeOK
      <4> QED
        BY <2>1, <2>2, <4>1, TailFacts
    <3>2. CASE k # n
      BY <2>2, <2>7, <3>2 DEF ApplyGet, TInv, TypeOK
    <3> QED
      BY <3>1, <3>2
  <2>8. CASE \E t \in Tasks, r \in RoomIds : BroadcastStart(t, r)
    BY <2>2, <2>8 DEF BroadcastStart
  <2> QED
    BY <2>3, <2>5, <2>6, <2>7, <2>8, FadingSteps DEF Fades
<1> QED
  BY <1>1, <1>2, <1>3 DEF Out

\* What is out is a message made.
LEMMA OutSent ==
    ASSUME TInv, OInv, NEW m, Out(m)
    PROVE  m \in 1..Sent
  BY DEF Out, OInv, GotSent, TInv, AppliesForeign, InboxGenuine, Genuine

\* What a task still publishes when its process dies comes last of its
\* sender: only clients of that process have it, and they are gone.
LEMMA SetAfloatLast ==
    ASSUME TInv, OInv, NEW n \in Nodes, Restart(n), NEW e \in afloat', e \notin afloat,
           NEW m, Out(m)'
    PROVE  Precedes(m, e.msg)
<1>1. PICK t \in Tasks : /\ TaskNode[t] = n /\ pc[t] = "publish" /\ e.msg = cur[t]
                         /\ sentBy[cur[t]] = Me(t)
  BY SetAfloat
<1>2. Out(m) /\ m # cur[t]
  <2>1. ASSUME NEW c \in Clients, NEW k \in 1..Len(got'[c]), got'[c][k] = m
        PROVE  Out(m) /\ m # cur[t]
    <3>1. ClientNode[c] # n /\ got'[c] = got[c]
      <4>1. got'[c] = IF ClientNode[c] = n THEN << >> ELSE got[c]
        BY DEF Restart
      <4> QED
        BY <2>1, <4>1
    <3> QED
      BY <1>1, <2>1, <3>1 DEF OInv, Unpublished, Out
  <2>2. ASSUME NEW k \in Nodes, applying'[k] # << >>, applying'[k][1] = m
        PROVE  Out(m) /\ m # cur[t]
    <3>1. applying'[k] = applying[k]
      BY <2>2 DEF Restart, TInv, TypeOK
    <3> QED
      BY <1>1, <2>2, <3>1 DEF OInv, Unpublished, Out
  <2>3. ASSUME NEW k \in Nodes, NEW i \in 1..Len(inbox'[k]),
               inbox'[k][i].id # Malformed, inbox'[k][i].msg = m
        PROVE  Out(m) /\ m # cur[t]
    <3>1. inbox'[k] = inbox[k]
      BY <2>3 DEF Restart, TInv, TypeOK
    <3> QED
      BY <1>1, <2>3, <3>1 DEF OInv, Unpublished, Out
  <2> QED
    BY <2>1, <2>2, <2>3 DEF Out
<1>3. m \in 1..Sent
  BY <1>2, OutSent
<1> QED
  BY <1>1, <1>2, <1>3 DEF Precedes, TInv, Control

LEMMA NextAfloat ==
    ASSUME TInv, OInv, AfloatLast, [Next]_vars
    PROVE  AfloatLast'
<1>1. \A e \in afloat' : e.msg \in 1..Sent
  BY StaysDead DEF Genuine
<1>2. \A m : Out(m)' => m \in 1..Sent
  <2> SUFFICES ASSUME NEW m, Out(m)' PROVE m \in 1..Sent
    OBVIOUS
  <2>1. \A t \in Tasks : pc[t] # "idle" => cur[t] \in 1..Sent
    BY DEF TInv, Control
  <2>2. \A e \in afloat : e.msg \in 1..Sent
    BY DEF TInv, AfloatGenuine, Genuine
  <2> QED
    BY <2>1, <2>2, OutGrows, OutSent
<1>3. ASSUME NEW e \in afloat', e \notin afloat
      PROVE  /\ \E t \in Tasks : e = EnvelopeOf(t) /\ sentBy[e.msg] = Me(t)
             /\ \A m : Out(m)' => Precedes(m, e.msg)
  <2>1. PICK n \in Nodes : Restart(n)
    BY <1>3, RestartActions
  <2> QED
    BY <1>3, <2>1, SetAfloat, SetAfloatLast
<1>4. \A e, f \in afloat' : sentBy[e.msg] = sentBy[f.msg] => e = f
  <2> SUFFICES ASSUME NEW e \in afloat', NEW f \in afloat', sentBy[e.msg] = sentBy[f.msg]
               PROVE  e = f
    OBVIOUS
  <2>1. CASE e \in afloat /\ f \in afloat
    BY <2>1 DEF AfloatLast
  <2>2. CASE e \notin afloat /\ f \notin afloat
    BY <1>3, <2>2, SenderType DEF TInv
  <2>3. CASE e \in afloat /\ f \notin afloat
    BY <1>3, <2>3 DEF TInv, AfloatGenuine
  <2>4. CASE e \notin afloat /\ f \in afloat
    BY <1>3, <2>4 DEF TInv, AfloatGenuine
  <2> QED
    BY <2>1, <2>2, <2>3, <2>4
<1>5. ASSUME NEW e \in afloat', e \in afloat, NEW m, Out(m)'
      PROVE  Precedes(m, e.msg)
  <2>1. CASE Out(m)
    BY <1>5, <2>1 DEF AfloatLast
  <2>2. ASSUME NEW t \in Tasks, pc[t] # "idle", m = cur[t] PROVE Precedes(m, e.msg)
    BY <1>5, <2>2 DEF TInv, Control, AfloatGenuine, Precedes
  <2>3. ASSUME NEW g \in afloat, m = g.msg, g \notin afloat' PROVE Precedes(m, e.msg)
    BY <1>5, <2>3 DEF AfloatLast, Precedes
  <2> QED
    BY <1>5, <2>1, <2>2, <2>3, OutGrows
<1>6. \A e \in afloat' : \A m : Out(m)' => Precedes(m, e.msg)
  BY <1>3, <1>5
<1>7. \A m \in 1..Sent : sentBy'[m] = sentBy[m]
  BY StaysGenuine
<1>8. \A e \in afloat' : \A m : Out(m)' => Precedes(m, e.msg)'
  BY <1>1, <1>2, <1>6, <1>7 DEF Precedes
<1>9. \A e, f \in afloat' : sentBy'[e.msg] = sentBy'[f.msg] => e = f
  BY <1>1, <1>4, <1>7
<1> QED
  BY <1>8, <1>9 DEF AfloatLast

LEMMA OrderInvariant == Spec => [](OInv /\ AfloatLast)
<1>1. Init => OInv /\ AfloatLast
  <2> SUFFICES ASSUME Init PROVE OInv /\ AfloatLast
    OBVIOUS
  <2>1. /\ \A c \in Clients : got[c] = << >> /\ Len(got[c]) = 0
        /\ \A t \in Tasks : pc[t] = "idle"
        /\ \A n \in Nodes : inbox[n] = << >> /\ Len(inbox[n]) = 0 /\ applying[n] = << >>
    BY DEF Init
  <2>2. GotSent /\ Unpublished /\ PerTaskOrder
    BY <2>1 DEF GotSent, Unpublished, PerTaskOrder
  <2>3. GotBeforeApplying /\ GotBeforeInbox /\ ApplyingBeforeInbox /\ InboxInOrder
    BY <2>1 DEF GotBeforeApplying, GotBeforeInbox, ApplyingBeforeInbox, InboxInOrder
  <2> QED
    BY <2>2, <2>3 DEF OInv, Init, AfloatLast
<1>2. TInv /\ OInv /\ AfloatLast /\ [Next]_vars => (OInv /\ AfloatLast)'
  BY NextOrder, NextAfloat
<1> QED
  BY <1>1, <1>2, TypeInvariant, PTL DEF Spec

----------------------------------------------------------------------------
(* Channels *)

\* No node's prefix continues another's: two nodes have the same prefix (one
\* deployment) or prefixes that no channel matches both of.
PrefixFree ==
    \A n, k \in Nodes : IsPrefix(Prefix[n], Prefix[k]) => Prefix[n] = Prefix[k]

\* Two prefixes of one channel: one of them is a prefix of the other.
LEMMA PrefixesOfOne ==
    ASSUME NEW S, NEW p \in Seq(S), NEW q \in Seq(S), NEW r \in Seq(S), IsPrefix(p, q \o r)
    PROVE  IsPrefix(p, q) \/ IsPrefix(q, p)
<1> DEFINE w == q \o r
<1>1. /\ Len(p) \in Nat /\ Len(q) \in Nat /\ Len(r) \in Nat
      /\ w \in Seq(S) /\ Len(w) = Len(q) + Len(r)
      /\ \A i \in 1..Len(q) : w[i] = q[i]
  OBVIOUS
<1> HIDE DEF w
<1>2. Len(p) <= Len(w) /\ SubSeq(p, 1, Len(p)) = SubSeq(w, 1, Len(p))
  BY DEF IsPrefix, w
<1>3. \A i \in 1..Len(p) : p[i] = w[i]
  <2> SUFFICES ASSUME NEW i \in 1..Len(p) PROVE p[i] = w[i]
    OBVIOUS
  <2>1. SubSeq(p, 1, Len(p))[i] = p[i] /\ SubSeq(w, 1, Len(p))[i] = w[i]
    BY <1>1, <1>2, InitialFacts
  <2> QED
    BY <1>2, <2>1
<1>4. CASE Len(p) <= Len(q)
  <2>1. \A i \in 1..Len(p) : SubSeq(p, 1, Len(p))[i] = SubSeq(q, 1, Len(p))[i]
    BY <1>1, <1>3, <1>4, InitialFacts
  <2>2. SubSeq(p, 1, Len(p)) = SubSeq(q, 1, Len(p))
    BY <1>1, <1>4, <2>1, InitialFacts, SeqEqual
  <2> QED
    BY <1>4, <2>2 DEF IsPrefix
<1>5. CASE Len(q) <= Len(p)
  <2>1. \A i \in 1..Len(q) : SubSeq(q, 1, Len(q))[i] = SubSeq(p, 1, Len(q))[i]
    BY <1>1, <1>3, <1>5, InitialFacts
  <2>2. SubSeq(q, 1, Len(q)) = SubSeq(p, 1, Len(q))
    BY <1>1, <1>5, <2>1, InitialFacts, SeqEqual
  <2> QED
    BY <1>5, <2>2 DEF IsPrefix
<1> QED
  BY <1>1, <1>4, <1>5

\* What a subscription has received matches its pattern.
Matching ==
    \A n \in Nodes : \A i \in 1..Len(inbox[n]) :
        inbox[n][i].id # Malformed => IsPrefix(Prefix[n], inbox[n][i].channel)

\* What a node applies it applies to the room the message was made to, and
\* the sender has its prefix.
Addressed ==
    PrefixFree => \A n \in Nodes : applying[n] # << >> =>
        /\ applying[n][2] = sentTo[applying[n][1]]
        /\ Prefix[NodeOf(applying[n][1])] = Prefix[n]

LEMMA NextMatching ==
    ASSUME TInv, Matching, [Next]_vars
    PROVE  Matching'
<1> SUFFICES ASSUME NEW n \in Nodes, NEW i \in 1..Len(inbox'[n]), inbox'[n][i].id # Malformed
             PROVE  IsPrefix(Prefix[n], inbox'[n][i].channel)
  BY DEF Matching
<1>1. inbox[n] \in Seq(Envelopes) /\ Len(inbox[n]) \in Nat
  BY LenProperties DEF TInv, TypeOK
<1>2. ASSUME Moves(n) PROVE IsPrefix(Prefix[n], inbox'[n][i].channel)
  BY <1>2 DEF Matching, Moves
<1>3. ASSUME NEW env \in Envelopes, Publish(env)
      PROVE  IsPrefix(Prefix[n], inbox'[n][i].channel)
  <2>1. \/ inbox'[n] = inbox[n]
        \/ inbox'[n] = Append(inbox[n], env) /\ IsPrefix(Prefix[n], env.channel)
    BY <1>3 DEF Publish
  <2>2. CASE inbox'[n] = inbox[n]
    BY <2>2 DEF Matching
  <2>3. CASE inbox'[n] = Append(inbox[n], env) /\ IsPrefix(Prefix[n], env.channel)
    BY <1>1, <1>3, <2>3, AppendFacts DEF Matching
  <2> QED
    BY <2>1, <2>2, <2>3
<1>4. ASSUME NEW k \in Nodes, ApplyGet(k) PROVE IsPrefix(Prefix[n], inbox'[n][i].channel)
  <2>1. CASE k = n
    <3>1. inbox'[n] = Tail(inbox[n]) /\ inbox[n] # << >>
      BY <1>4, <2>1 DEF ApplyGet, TInv, TypeOK
    <3> QED
      BY <1>1, <3>1, TailFacts DEF Matching
  <2>2. CASE k # n
    BY <1>4, <2>2 DEF ApplyGet, TInv, TypeOK, Matching
  <2> QED
    BY <2>1, <2>2
<1>5. CASE \E t \in Tasks, r \in RoomIds : BroadcastStart(t, r)
  BY <1>5 DEF BroadcastStart, Matching
<1>6. CASE \E t \in Tasks, replied \in BOOLEAN : PublishReaches(t, replied)
  BY <1>3, <1>6, EnvelopeType DEF PublishReaches
<1>7. CASE \E env \in afloat : StrayArrives(env)
  BY <1>3, <1>7 DEF StrayArrives, TInv, TypeOK
<1>8. CASE ~ \/ \E t \in Tasks, r \in RoomIds : BroadcastStart(t, r)
             \/ \E t \in Tasks, replied \in BOOLEAN : PublishReaches(t, replied)
             \/ \E k \in Nodes : ApplyGet(k)
             \/ \E env \in afloat : StrayArrives(env)
  BY <1>2, <1>8, FadingSteps DEF Fades
<1> QED
  BY <1>4, <1>5, <1>6, <1>7, <1>8

LEMMA NextAddressed ==
    ASSUME TInv, Matching, Addressed, [Next]_vars
    PROVE  Addressed'
<1> SUFFICES ASSUME PrefixFree, NEW n \in Nodes, applying'[n] # << >>
             PROVE  /\ applying'[n][2] = sentTo[applying'[n][1]]
                    /\ Prefix[NodeOf(applying'[n][1])] = Prefix[n]
  BY StaysForeign, StaysGenuine DEF Addressed, NodeOf
<1>1. ASSUME applying'[n] = applying[n]
      PROVE  /\ applying'[n][2] = sentTo[applying'[n][1]]
             /\ Prefix[NodeOf(applying'[n][1])] = Prefix[n]
  BY <1>1 DEF Addressed
<1>2. ASSUME NEW k \in Nodes, ApplyGet(k)
      PROVE  /\ applying'[n][2] = sentTo[applying'[n][1]]
             /\ Prefix[NodeOf(applying'[n][1])] = Prefix[n]
  <2>1. CASE k # n
    BY <1>1, <1>2, <2>1 DEF ApplyGet, TInv, TypeOK
  <2>2. CASE k = n
    <3> DEFINE env == Head(inbox[n])
               r == RoomIdFromChannel(n, env.channel)
               from == NodeOf(env.msg)
               to == sentTo[env.msg]
    <3>1. inbox[n] \in Seq(Envelopes) /\ inbox[n] # << >>
      BY <1>2, <2>2 DEF ApplyGet, TInv, TypeOK
    <3>2. env = inbox[n][1] /\ 1 \in 1..Len(inbox[n])
      BY <3>1, TailFacts
    <3>3. ~Ignored(n, env) /\ applying'[n] = <<env.msg, r, hosted[n][r]>>
      BY <1>2, <2>2 DEF ApplyGet, TInv, TypeOK
    <3>4. applying'[n][1] = env.msg /\ applying'[n][2] = r
      BY <3>3
    <3>5. env.msg \in 1..Sent /\ env.channel = ChannelName(from, to)
      BY <3>2, <3>3 DEF TInv, InboxGenuine, Genuine, Ignored
    <3>6. IsPrefix(Prefix[n], env.channel)
      BY <3>2, <3>3 DEF Matching, Ignored
    <3> HIDE DEF env
    <3>7. from \in Nodes /\ to \in RoomIds
      <4>1. /\ sentTo \in Seq(RoomIds) /\ sentBy \in Seq(Senders)
            /\ env.msg \in 1..Len(sentTo) /\ env.msg \in 1..Len(sentBy)
        BY <3>5 DEF TInv, TypeOK, Sent
      <4>2. sentTo[env.msg] \in RoomIds /\ sentBy[env.msg] \in Senders
        BY <4>1, ElementOfSeq
      <4> QED
        BY <4>2, Places DEF Senders, NodeOf
    <3> HIDE DEF from, to
    <3>8. Prefix[n] \in Seq(STRING) /\ Prefix[from] \in Seq(STRING) /\ to \in Seq(STRING)
      BY <3>7, RedisAssumption
    <3>9. Prefix[from] = Prefix[n]
      BY <3>5, <3>6, <3>7, <3>8, PrefixesOfOne DEF PrefixFree, ChannelName
    <3>10. r = to
      BY <3>5, <3>8, <3>9, StripPrefix DEF RoomIdFromChannel, ChannelName
    <3> QED
      BY <3>4, <3>9, <3>10 DEF from, to
  <2> QED
    BY <2>1, <2>2
<1>3. CASE applying'[n] # applying[n] /\ ~\E k \in Nodes : ApplyGet(k)
  BY <1>3, ApplyingActions DEF TInv
<1> QED
  BY <1>1, <1>2, <1>3

LEMMA AddressInvariant == Spec => [](Matching /\ Addressed)
<1>1. Init => Matching /\ Addressed
  BY DEF Init, Matching, Addressed
<1>2. TInv /\ Matching /\ Addressed /\ [Next]_vars => (Matching /\ Addressed)'
  BY NextMatching, NextAddressed
<1> QED
  BY <1>1, <1>2, TypeInvariant, PTL DEF Spec

\* A client that got more was given something.
LEMMA MoreThan ==
    ASSUME TypeOK, NEW c \in Clients, Len(got'[c]) > Len(got[c])
    PROVE  got'[c] # got[c] /\ got'[c] # << >>
<1>1. Len(got[c]) \in Nat
  BY LenProperties DEF TypeOK
<1> QED
  BY <1>1

\* What a client is given, and where it stands then.
LEMMA DeliveredToRoom ==
    ASSUME TInv, Addressed, PrefixFree, [Next]_vars, NEW c \in Clients,
           Len(got'[c]) > Len(got[c])
    PROVE  /\ sub[c] # << >> /\ sub[c][1] = sentTo[Last(got'[c])]
           /\ Prefix[NodeOf(Last(got'[c]))] = Prefix[ClientNode[c]]
<1>1. ASSUME NEW t \in Tasks, BroadcastLocal(t)
      PROVE  /\ sub[c] # << >> /\ sub[c][1] = sentTo[Last(got'[c])]
             /\ Prefix[NodeOf(Last(got'[c]))] = Prefix[ClientNode[c]]
  <2>1. /\ cur[t] \in 1..MaxMsgs /\ NodeOf(cur[t]) = TaskNode[t] /\ TaskNode[t] \in Nodes
        /\ Deliver(TaskNode[t], sentTo[cur[t]], gen[t], cur[t])
    <3>1. pc[t] = "local" /\ Deliver(TaskNode[t], sentTo[cur[t]], gen[t], cur[t])
      BY <1>1 DEF BroadcastLocal
    <3>2. cur[t] \in 0..MaxMsgs /\ cur[t] \in 1..Sent /\ NodeOf(cur[t]) = TaskNode[t]
      BY <3>1, SenderType DEF TInv, Control, TypeOK, NodeOf
    <3> QED
      BY <3>1, <3>2, Places
  <2>2. /\ ClientNode[c] = TaskNode[t] /\ sub[c] = <<sentTo[cur[t]], gen[t]>>
        /\ Len(got'[c]) = Len(got[c]) + 1 /\ got'[c][Len(got[c]) + 1] = cur[t]
    BY <2>1, Delivered, MoreThan DEF TInv
  <2> QED
    BY <2>1, <2>2 DEF Last
<1>2. ASSUME NEW n \in Nodes, ApplySend(n)
      PROVE  /\ sub[c] # << >> /\ sub[c][1] = sentTo[Last(got'[c])]
             /\ Prefix[NodeOf(Last(got'[c]))] = Prefix[ClientNode[c]]
  <2> DEFINE m == applying[n][1]
  <2>1. /\ applying[n] # << >> /\ m \in 1..MaxMsgs
        /\ Deliver(n, applying[n][2], applying[n][3], m)
    BY <1>2 DEF ApplySend, TInv, TypeOK
  <2>2. applying[n][2] = sentTo[m] /\ Prefix[NodeOf(m)] = Prefix[n]
    BY <2>1 DEF Addressed
  <2>3. /\ ClientNode[c] = n /\ sub[c] = <<applying[n][2], applying[n][3]>>
        /\ Len(got'[c]) = Len(got[c]) + 1 /\ got'[c][Len(got[c]) + 1] = m
    BY <2>1, Delivered, MoreThan DEF TInv
  <2> QED
    BY <2>2, <2>3 DEF Last
<1>3. ~NoneGets
  BY MoreThan DEF NoneGets, TInv
<1> QED
  BY <1>1, <1>2, <1>3, OtherDeliverNothing DEF TInv

----------------------------------------------------------------------------
(* The refinement *)

\* A node that hands out a message makes a step of the abstract delivery,
\* or reaches nobody.
LEMMA HandedOut ==
    ASSUME TInv, OInv', NEW n \in Nodes, NEW g, NEW m \in 1..Sent, m \in 1..MaxMsgs,
           Deliver(n, sentTo[m], g, m), UNCHANGED <<sentTo, sentBy, sub>>
    PROVE  [Delivery!Next]_(Delivery!deliveryVars)
<1> DEFINE There == {c \in Clients : ClientNode[c] = n /\ sub[c] = <<sentTo[m], g>>}
<1>1. got \in [Clients -> Seq(1..MaxMsgs)] /\ sub \in [Clients -> Subs]
  BY DEF TInv, TypeOK
<1>2. CASE There = {}
  <2>1. \A c \in Clients : got'[c] = got[c]
    BY <1>2 DEF Deliver
  <2>2. got' = got
    BY <1>1, <2>1 DEF Deliver
  <2> QED
    BY <2>2 DEF Delivery!deliveryVars
<1>3. CASE There # {}
  <2>1. PICK c \in Clients : sub[c] = <<sentTo[m], g>>
    BY <1>3
  <2>2. sub[c] \in RoomIds \X (1..MaxGens)
    <3>1. sub[c] # << >>
      BY <2>1
    <3> QED
      BY <1>1, <3>1 DEF Subs
  <2>3. g \in 1..MaxGens
    BY <2>1, <2>2
  <2>4. ASSUME NEW d \in There PROVE Delivery!Newest(d, m)
    <3>1. ClientNode[d] = n /\ sub[d] = <<sentTo[m], g>> /\ d \in Clients
      OBVIOUS
    <3>2. got'[d] = Append(got[d], m) /\ got[d] \in Seq(1..MaxMsgs)
      BY <1>1, <3>1 DEF Deliver
    <3>3. /\ Len(got'[d]) = Len(got[d]) + 1 /\ Len(got[d]) \in Nat
          /\ got'[d][Len(got[d]) + 1] = m
          /\ \A k \in 1..Len(got[d]) : got'[d][k] = got[d][k]
      BY <1>1, <3>2, AppendFacts, LenProperties
    <3>4. \A i, j \in 1..Len(got'[d]) :
            i < j /\ sentBy[got'[d][i]] = sentBy[got'[d][j]] => got'[d][i] < got'[d][j]
      BY <3>1 DEF OInv, PerTaskOrder
    <3>5. ASSUME NEW k \in 1..Len(got[d]), sentBy[got[d][k]] = sentBy[m] PROVE got[d][k] < m
      <4>1. k \in 1..Len(got'[d]) /\ Len(got[d]) + 1 \in 1..Len(got'[d]) /\ k < Len(got[d]) + 1
        BY <3>3
      <4> QED
        BY <3>3, <3>4, <3>5, <4>1
    <3> QED
      BY <3>5 DEF Delivery!Newest
  <2>5. Delivery!Deliver(n, g, m)
    BY <2>4 DEF Deliver, Delivery!Deliver
  <2> QED
    BY <2>3, <2>5 DEF Delivery!Next, Sent
<1> QED
  BY <1>2, <1>3

LEMMA StepRefines ==
    ASSUME TInv, OInv', Addressed, PrefixFree, [Next]_vars
    PROVE  [Delivery!Next]_(Delivery!deliveryVars)
<1> USE DEF Delivery!deliveryVars
<1>1. CASE \E t \in Tasks : BroadcastLocal(t)
  <2>1. PICK t \in Tasks : BroadcastLocal(t)
    BY <1>1
  <2>2. /\ TaskNode[t] \in Nodes /\ cur[t] \in 1..Sent /\ cur[t] \in 1..MaxMsgs
        /\ Deliver(TaskNode[t], sentTo[cur[t]], gen[t], cur[t])
        /\ UNCHANGED <<sentTo, sentBy, sub>>
    BY <2>1, Places, SMTT(30) DEF BroadcastLocal, msgVars, TInv, Control, TypeOK
  <2> QED
    BY <2>2, HandedOut
<1>2. CASE \E n \in Nodes : ApplySend(n)
  <2>1. PICK n \in Nodes : ApplySend(n)
    BY <1>2
  <2> DEFINE m == applying[n][1]
             g == applying[n][3]
  <2>2. m \in 1..Sent /\ m \in 1..MaxMsgs /\ applying[n][2] = sentTo[m]
    BY <2>1 DEF ApplySend, Addressed, TInv, AppliesForeign, TypeOK
  <2>3. Deliver(n, sentTo[m], g, m) /\ UNCHANGED <<sentTo, sentBy, sub>>
    BY <2>1, <2>2 DEF ApplySend, msgVars
  <2> HIDE DEF m, g
  <2> QED
    BY <2>2, <2>3, HandedOut
<1>3. CASE \E t \in Tasks, r \in RoomIds : BroadcastStart(t, r)
  <2>1. PICK t \in Tasks, r \in RoomIds : BroadcastStart(t, r)
    BY <1>3
  <2>2. Delivery!Broadcast(Me(t), r) /\ Me(t) \in Senders
    BY <2>1, SenderType DEF BroadcastStart, Delivery!Broadcast, TInv
  <2> QED
    BY <2>2 DEF Delivery!Next
<1>4. CASE \E c \in Clients, r \in RoomIds : ClientJoin(c, r)
  <2>1. PICK c \in Clients, r \in RoomIds : ClientJoin(c, r)
    BY <1>4
  <2>2. GenerationFor(ClientNode[c], r) \in 1..MaxGens
    BY <2>1, Places, GetOrCreateType DEF ClientJoin, TInv
  <2>3. Delivery!Join(c, r, GenerationFor(ClientNode[c], r))
    BY <2>1 DEF ClientJoin, msgVars, Delivery!Join
  <2> QED
    BY <2>2, <2>3 DEF Delivery!Next
<1>5. CASE \E c \in Clients : ClientLeave(c)
  BY <1>5 DEF ClientLeave, msgVars, Delivery!Leave, Delivery!Next
<1>6. CASE \E n \in Nodes : Restart(n)
  BY <1>6 DEF Restart, msgVars, Delivery!Close, Delivery!Next
<1>7. CASE \E t \in Tasks : LockConnection(t) \/ CancelWaiting(t) \/ PublishFails(t)
  BY <1>7 DEF LockConnection, CancelWaiting, PublishFails, msgVars
<1>8. CASE \E t \in Tasks, replied \in BOOLEAN : PublishReaches(t, replied)
  BY <1>8 DEF PublishReaches, msgVars
<1>9. CASE \E n \in Nodes : ApplyGet(n) \/ SubscriberStart(n) \/ SubscriberCut(n)
  BY <1>9 DEF ApplyGet, SubscriberStart, SubscriberCut, msgVars
<1>10. CASE \/ \E n \in Nodes, r \in RoomIds : RemoveRoom(n, r) \/ BadEnvelope(n, r)
            \/ \E env \in afloat : StrayArrives(env)
  BY <1>10 DEF RemoveRoom, BadEnvelope, StrayArrives, msgVars
<1>11. CASE UNCHANGED vars
  BY <1>11 DEF vars
<1> QED
  BY <1>1, <1>2, <1>3, <1>4, <1>5, <1>6, <1>7, <1>8, <1>9, <1>10, <1>11
     DEF Next, TaskStep, ApplyStep, Quiet

----------------------------------------------------------------------------
(* Theorems *)

\* Every variable keeps its type through every call, fault and restart
\* (redis_rooms.rs RedisRoomRegistry).
THEOREM RedisTypeCorrect == Spec => []TypeOK
  BY TypeInvariant, PTL DEF TInv

\* A client sees the broadcasts of one task in the order that task made
\* them, whichever of the two ways they reach it (redis_rooms.rs broadcast,
\* run_subscriber).
THEOREM TaskOrderKept == Spec => []PerTaskOrder
  BY OrderInvariant, PTL DEF OInv

\* No client receives one broadcast twice (redis_rooms.rs apply_remote, the
\* self-echo check): two deliveries of it would be out of order.
THEOREM DeliveredAtMostOnce == Spec => []AtMostOnce
<1>1. TypeOK /\ PerTaskOrder => AtMostOnce
  <2> SUFFICES ASSUME TypeOK, PerTaskOrder, NEW c \in Clients,
                      NEW a \in DOMAIN got[c], NEW b \in DOMAIN got[c], got[c][a] = got[c][b]
               PROVE  a = b
    BY DEF AtMostOnce, IsInjective
  <2>1. got[c] \in Seq(1..MaxMsgs) /\ DOMAIN got[c] = 1..Len(got[c]) /\ Len(got[c]) \in Nat
    BY LenProperties DEF TypeOK
  <2>2. got[c][a] \in 1..MaxMsgs
    BY <2>1, ElementOfSeq
  <2> QED
    BY <2>1, <2>2 DEF PerTaskOrder
<1> QED
  BY <1>1, RedisTypeCorrect, TaskOrderKept, PTL

\* A node hosts only rooms its own callers asked for: remote traffic never
\* makes one (redis_rooms.rs apply_remote).
THEOREM NoPhantoms == Spec => []NoPhantomRooms
<1>1. Init => NoPhantomRooms
  BY DEF Init, NoPhantomRooms
<1>2. TypeOK /\ NoPhantomRooms /\ [Next]_vars => NoPhantomRooms'
  <2> SUFFICES ASSUME TypeOK, NoPhantomRooms, [Next]_vars PROVE NoPhantomRooms'
    OBVIOUS
  <2>1. ASSUME NEW n \in Nodes, NEW r \in RoomIds, GetOrCreate(n, r) PROVE NoPhantomRooms'
    BY <2>1 DEF GetOrCreate, TypeOK, NoPhantomRooms
  <2>2. CASE \E t \in Tasks, r \in RoomIds : BroadcastStart(t, r)
    BY <2>1, <2>2, Places DEF BroadcastStart
  <2>3. CASE \E c \in Clients, r \in RoomIds : ClientJoin(c, r)
    BY <2>1, <2>3, Places DEF ClientJoin
  <2>4. CASE \E n \in Nodes, r \in RoomIds : RemoveRoom(n, r)
    BY <2>4 DEF RemoveRoom, TypeOK, NoPhantomRooms
  <2>5. CASE \E n \in Nodes : Restart(n)
    BY <2>5 DEF Restart, TypeOK, NoPhantomRooms
  <2>6. ASSUME hosted' = hosted, asked' = asked PROVE NoPhantomRooms'
    BY <2>6 DEF NoPhantomRooms
  <2>7. CASE \E t \in Tasks : BroadcastLocal(t) \/ LockConnection(t) \/ CancelWaiting(t) \/ PublishFails(t)
    BY <2>6, <2>7 DEF BroadcastLocal, LockConnection, CancelWaiting, PublishFails, roomVars
  <2>8. CASE \E t \in Tasks, replied \in BOOLEAN : PublishReaches(t, replied)
    BY <2>6, <2>8 DEF PublishReaches, roomVars
  <2>9. CASE \E n \in Nodes : ApplyGet(n) \/ ApplySend(n) \/ SubscriberStart(n) \/ SubscriberCut(n)
    BY <2>6, <2>9 DEF ApplyGet, ApplySend, SubscriberStart, SubscriberCut, roomVars
  <2>10. CASE \E c \in Clients : ClientLeave(c)
    BY <2>6, <2>10 DEF ClientLeave, roomVars
  <2>11. CASE \/ \E n \in Nodes, r \in RoomIds : BadEnvelope(n, r)
              \/ \E env \in afloat : StrayArrives(env)
    BY <2>6, <2>11 DEF BadEnvelope, StrayArrives, roomVars
  <2>12. CASE UNCHANGED vars
    BY <2>6, <2>12 DEF vars
  <2> QED
    BY <2>2, <2>3, <2>4, <2>5, <2>7, <2>8, <2>9, <2>10, <2>11, <2>12
       DEF Next, TaskStep, ApplyStep, Quiet
<1> QED
  BY <1>1, <1>2, RedisTypeCorrect, PTL DEF Spec

\* With prefixes of which none continues another, a broadcast reaches only
\* clients of the room it was made to, on every node (redis_rooms.rs
\* channel_name, room_id_from_channel).
THEOREM RoomsIsolated == ASSUME PrefixFree PROVE Spec => RoomIsolation
<1>1. TInv /\ Addressed /\ [Next]_vars =>
        [\A c \in Clients :
            Len(got'[c]) > Len(got[c]) => sub[c] # << >> /\ sub[c][1] = sentTo[Last(got'[c])]]_vars
  BY DeliveredToRoom
<1> QED
  BY <1>1, TypeInvariant, AddressInvariant, PTL DEF Spec, RoomIsolation

\* ... and only clients of the deployment it was made in: differing prefixes
\* do separate deployments if none continues another (redis_rooms.rs
\* connect_with_prefix asks for no more than a difference).
THEOREM DeploymentsIsolated == ASSUME PrefixFree PROVE Spec => DeploymentIsolation
<1>1. TInv /\ Addressed /\ [Next]_vars =>
        [\A c \in Clients :
            Len(got'[c]) > Len(got[c]) =>
                Prefix[NodeOf(Last(got'[c]))] = Prefix[ClientNode[c]]]_vars
  BY DeliveredToRoom
<1> QED
  BY <1>1, TypeInvariant, AddressInvariant, PTL DEF Spec, DeploymentIsolation

\* Where no prefix continues another, nodes, channels and subscriptions
\* implement rooms whose members get each message together, in order, at most
\* once and from their room only (redis_rooms.rs broadcast, apply_remote,
\* run_subscriber).
THEOREM FanOutDelivers == ASSUME PrefixFree PROVE Spec => DeliverySpec
<1>1. Init => Delivery!Init
  BY DEF Init, Delivery!Init
<1>2. TInv /\ OInv' /\ Addressed /\ [Next]_vars => [Delivery!Next]_(Delivery!deliveryVars)
  BY StepRefines
<1> QED
  BY <1>1, <1>2, TypeInvariant, OrderInvariant, AddressInvariant, PTL
     DEF Spec, DeliverySpec, Delivery!Spec

=============================================================================
