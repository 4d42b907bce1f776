-------------------------- MODULE MqttClientProofs --------------------------
(***************************************************************************)
(* Proofs about MqttClient, for any number of messages and publishers, any *)
(* length of the list, any width of the packet ids and any number of       *)
(* network failures.                                                       *)
(***************************************************************************)
EXTENDS MqttClient, TLAPS, FiniteSetTheorems, SequenceTheorems, SequenceLemmas

Ids == 1 .. PacketIdMax

\* What the client writes to the socket, and what the broker answers.
Requests == [type : {"PUBLISH"}, msg : Msgs, id : 0 .. PacketIdMax] \cup {PingReq}
Answers  == [type : {"PUBACK"}, id : Ids] \cup {PingResp}
Wire     == [conn : {"closed", "tcp", "up", "dead", "reset"}, out : Seq(Requests), in : Seq(Answers)]

\* A message published with QoS 1 has an id as soon as its state was tested.
QosIds ==
    \A m \in Msgs : /\ pub[m][1] = "new" => pub[m][2] = 0
                    /\ m \in Qos0 => pub[m][2] = 0
                    /\ m \notin Qos0 /\ pub[m][1] \in {"checked", "accepted"} => pub[m][2] # 0

(***************************************************************************)
(* MqttTypeOK alone is not inductive: KeepalivePing counts a probe without *)
(* looking at the bound, which only the test in the next cycle keeps, and  *)
(* the node that MQTTPublish adds takes its id from the test before it.    *)
(***************************************************************************)
TypeInv ==
    /\ MqttTypeOK
    /\ net \in Wire
    /\ yield \in {"keepalive", "proc"} /\ client_state = "CONNECTED" => probes <= ProbeMax
    /\ yield = "again" => probes = 0
    /\ QosIds

(***************************************************************************)
(* Between the loss of a connection and its replacement: whoever changed   *)
(* client_state last, the thread that connects is not "CONNECTED".         *)
(***************************************************************************)
StateInv ==
    /\ EventsPaired /\ ConnectedOnMqtt
    /\ client_state = "RECONNECTING" => event = "DISCONNECT"
    /\ yield = "connect" => client_state # "CONNECTED"
    /\ yield = "again" => net.conn \notin {"closed", "tcp"}

\* The messages that were given a packet id, and how many ids after LastId an id comes.
Numbered == {m \in Msgs : pub[m][2] # 0}
Rank(id) == IF id > LastId THEN id - LastId ELSE id + PacketIdMax - LastId

(***************************************************************************)
(* While no more than PacketIdMax messages are published, iotx_mc_get_     *)
(* next_packetid gives no id twice.                                        *)
(***************************************************************************)
IdsUnique ==
    /\ IF Numbered = {} THEN packet_id = LastId
                        ELSE packet_id # 0 /\ Rank(packet_id) = Cardinality(Numbered)
    /\ \A m \in Numbered : Rank(pub[m][2]) <= Cardinality(Numbered)
    /\ \A m, n \in Numbered : pub[m][2] = pub[n][2] => m = n

\* The nodes of the list, the packets under way and their answers carry the
\* id of their own message; what is acknowledged has reached the broker.
NodesCarry == \A k \in DOMAIN waitList : /\ waitList[k].id = pub[waitList[k].msg][2]
                                         /\ ~waitList[k].valid => waitList[k].msg \in broker
OutCarries == \A k \in DOMAIN net.out : net.out[k].type = "PUBLISH" =>
                  /\ net.out[k].id = pub[net.out[k].msg][2]
                  /\ net.out[k].msg \in Qos0 \/ net.out[k].id # 0
InCarries  == \A k \in DOMAIN net.in : net.in[k].type = "PUBACK" => \E m \in broker : pub[m][2] = net.in[k].id

KeptInv == IdsUnique /\ NodesCarry /\ OutCarries /\ InCarries /\ AcceptedKept

-----------------------------------------------------------------------------
(* The operators the steps are made of.                                    *)

\* What a successful send leaves under way.
LEMMA SendOkWire ==
  ASSUME net \in Wire, NEW p \in Requests, SendOk(p)
  PROVE  /\ net' \in Wire /\ net'.conn = net.conn /\ net'.in = net.in
         /\ \A k \in DOMAIN net'.out : net'.out[k] = p \/ (k \in DOMAIN net.out /\ net'.out[k] = net.out[k])
<1>1. net.out \in Seq(Requests)
  BY DEF Wire
<1>2. CASE UNCHANGED net
  BY <1>2
<1>3. CASE net' = [net EXCEPT !.out = Append(net.out, p)]
  <2>1. net'.out = Append(net.out, p) /\ net'.conn = net.conn /\ net'.in = net.in
    BY <1>3 DEF Wire
  <2>2. Append(net.out, p) \in Seq(Requests)
    BY <1>1, AppendElements
  <2>3. net' \in Wire
    BY <1>3, <2>2 DEF Wire
  <2>4. \A k \in DOMAIN Append(net.out, p) :
           Append(net.out, p)[k] = p \/ (k \in DOMAIN net.out /\ Append(net.out, p)[k] = net.out[k])
    <3>1. /\ DOMAIN Append(net.out, p) = 1 .. Len(net.out) + 1 /\ DOMAIN net.out = 1 .. Len(net.out)
          /\ Len(net.out) \in Nat
          /\ \A k \in 1 .. Len(net.out) : Append(net.out, p)[k] = net.out[k]
          /\ Append(net.out, p)[Len(net.out) + 1] = p
      BY <1>1, AppendElements
    <3> QED
      BY <3>1
  <2> QED
    BY <2>1, <2>3, <2>4
<1> QED
  BY <1>2, <1>3 DEF SendOk

\* A publish that fails changes its own outcome and no packet id.
LEMMA PubOutcome ==
  ASSUME pub \in [Msgs -> PubState], NEW m \in Msgs,
         \E s \in {"refused", "failed"} : pub' = [pub EXCEPT ![m][1] = s]
  PROVE  /\ pub' \in [Msgs -> PubState]
         /\ \A n \in Msgs : pub'[n][2] = pub[n][2] /\ pub'[n][1] \in {pub[n][1], "refused", "failed"}
<1>1. PICK s \in {"refused", "failed"} : pub' = [pub EXCEPT ![m] = [pub[m] EXCEPT ![1] = s]]
  OBVIOUS
<1>2. pub[m] = <<pub[m][1], pub[m][2]>> /\ pub[m][2] \in 0 .. PacketIdMax
  BY DEF PubState
<1>3. [pub[m] EXCEPT ![1] = s] = <<s, pub[m][2]>> /\ <<s, pub[m][2]>> \in PubState
  BY <1>2 DEF PubState
<1>4. pub' = [pub EXCEPT ![m] = <<s, pub[m][2]>>]
  BY <1>1, <1>3
<1> QED
  BY <1>3, <1>4

\* A connection just opened or closed has nothing under way.
LEMMA FreshWire ==
  /\ Closed \in Wire /\ OpenTcp \in Wire /\ OpenMqtt \in Wire
  /\ \A how \in {"dead", "reset"} : [Closed EXCEPT !.conn = how] \in Wire
  /\ Closed.conn = "closed" /\ OpenTcp.conn = "tcp" /\ OpenMqtt.conn = "up"
<1>1. <<>> \in Seq(Requests) /\ <<>> \in Seq(Answers)
  BY EmptySeq
<1> QED
  BY <1>1 DEF Wire, Closed, OpenTcp, OpenMqtt

\* The list after a step that changes one node's timer, or every node's mark.
LEMMA NodeDue ==
  ASSUME waitList \in Seq(PubInfo), NEW k \in 1 .. Len(waitList), NEW d \in BOOLEAN,
         waitList' = [waitList EXCEPT ![k].due = d]
  PROVE  /\ waitList' \in Seq(PubInfo) /\ Len(waitList') = Len(waitList)
         /\ DOMAIN waitList' = DOMAIN waitList
         /\ \A j \in DOMAIN waitList : /\ waitList'[j].msg = waitList[j].msg
                                       /\ waitList'[j].id = waitList[j].id
                                       /\ waitList'[j].valid = waitList[j].valid
<1> DEFINE x == [waitList[k] EXCEPT !.due = d]
<1>1. waitList[k] \in PubInfo
  BY ElementOfSeq
<1>2. x \in PubInfo /\ x.msg = waitList[k].msg /\ x.id = waitList[k].id /\ x.valid = waitList[k].valid
  BY <1>1 DEF PubInfo, Ids
<1>3. waitList' = [waitList EXCEPT ![k] = x]
  OBVIOUS
<1> HIDE DEF x
<1>4. /\ waitList' \in Seq(PubInfo) /\ Len(waitList') = Len(waitList)
      /\ \A j \in 1 .. Len(waitList) : waitList'[j] = IF j = k THEN x ELSE waitList[j]
  BY <1>2, <1>3, ExceptSeq
<1>5. DOMAIN waitList = 1 .. Len(waitList) /\ DOMAIN waitList' = DOMAIN waitList
  BY <1>4, LenProperties
<1> QED
  BY <1>2, <1>4, <1>5

LEMMA Masked ==
  ASSUME waitList \in Seq(PubInfo), NEW id \in Ids, waitList' = MaskPubInfo(id)
  PROVE  /\ waitList' \in Seq(PubInfo) /\ Len(waitList') = Len(waitList)
         /\ DOMAIN waitList' = DOMAIN waitList
         /\ \A j \in DOMAIN waitList : /\ waitList'[j].msg = waitList[j].msg
                                       /\ waitList'[j].id = waitList[j].id
                                       /\ waitList'[j].valid = (waitList[j].valid /\ waitList[j].id # id)
<1>1. /\ Len(waitList) \in Nat /\ DOMAIN waitList = 1 .. Len(waitList)
      /\ \A j \in DOMAIN waitList : waitList[j] \in PubInfo
  BY LenProperties, ElementOfSeq
<1>2. waitList' = [j \in 1 .. Len(waitList) |->
                     [waitList[j] EXCEPT !.valid = waitList[j].valid /\ waitList[j].id # id]]
  BY <1>1 DEF MaskPubInfo
<1>3. \A j \in 1 .. Len(waitList) :
        /\ waitList'[j] = [waitList[j] EXCEPT !.valid = waitList[j].valid /\ waitList[j].id # id]
        /\ waitList[j] \in PubInfo
  BY <1>1, <1>2
<1>4. ASSUME NEW j \in 1 .. Len(waitList)
      PROVE  /\ waitList'[j] \in PubInfo
             /\ waitList'[j].msg = waitList[j].msg /\ waitList'[j].id = waitList[j].id
             /\ waitList'[j].valid = (waitList[j].valid /\ waitList[j].id # id)
  BY <1>3, Zenon DEF PubInfo, Ids
<1>5. waitList' \in [1 .. Len(waitList) -> PubInfo]
  BY <1>2, <1>4
<1>6. waitList' \in Seq(PubInfo)
  BY <1>1, <1>5, SeqDef
<1>7. Len(waitList') = Len(waitList) /\ DOMAIN waitList' = 1 .. Len(waitList)
  BY <1>1, <1>5, <1>6, LenProperties
<1> QED
  BY <1>1, <1>4, <1>6, <1>7

-----------------------------------------------------------------------------
(* Types.                                                                  *)

LEMMA TypeInit == MqttInit => TypeInv
<1> SUFFICES ASSUME MqttInit PROVE TypeInv
  OBVIOUS
<1> USE MqttAssumption DEF MqttInit
<1>1. waitList \in Seq(PubInfo) /\ Len(waitList) = 0
  BY EmptySeq
<1>2. net \in Wire /\ net.conn = "up"
  BY FreshWire
<1>3. pub \in [Msgs -> PubState]
  BY DEF PubState
<1> QED
  BY <1>1, <1>2, <1>3 DEF TypeInv, MqttTypeOK, PubInfo, Ids, QosIds

LEMMA PublishTypes ==
  ASSUME TypeInv, NEW m \in Msgs, Publishing(m)
  PROVE  TypeInv'
<1> USE MqttAssumption
<1>a. /\ NextPacketId \in Ids /\ pub \in [Msgs -> PubState]
      /\ pub[m] \in PubState /\ pub[m][2] \in 0 .. PacketIdMax
  BY DEF TypeInv, MqttTypeOK, NextPacketId, Ids, PubState
<1>1. CASE CheckState(m)
  <2>2. packet_id' \in 0 .. PacketIdMax
    BY <1>1, <1>a DEF CheckState, Ids, TypeInv, MqttTypeOK
  <2>3. pub' \in [Msgs -> PubState] /\ QosIds'
    <3> USE DEF TypeInv, QosIds, PubState
    <3>1. CASE pub' = [pub EXCEPT ![m] = <<"refused", 0>>]
      BY <1>a, <3>1
    <3>2. CASE m \in Qos0 /\ pub' = [pub EXCEPT ![m] = <<"checked", 0>>]
      BY <1>a, <3>2
    <3>3. CASE m \notin Qos0 /\ pub' = [pub EXCEPT ![m] = <<"checked", NextPacketId>>]
      BY <1>a, <3>3 DEF Ids
    <3> QED
      BY <1>1, <3>1, <3>2, <3>3 DEF CheckState
  <2> QED
    BY <1>1, <2>2, <2>3 DEF CheckState, TypeInv, MqttTypeOK
<1>2. CASE PublishSent(m)
  <2>1. Publish(m, pub[m][2]) \in Requests
    BY <1>a DEF Publish, Requests
  <2>2. net' \in Wire
    BY <1>2, <2>1, SendOkWire DEF PublishSent, TypeInv
  <2>3. waitList' \in Seq(PubInfo) /\ Len(waitList') <= RepubMax
    <3>1. CASE m \in Qos0
      BY <1>2, <3>1 DEF PublishSent, TypeInv, MqttTypeOK
    <3>2. CASE m \notin Qos0
      <4> DEFINE x == [id |-> pub[m][2], msg |-> m, valid |-> TRUE, due |-> FALSE]
      <4>1. waitList' = Append(waitList, x) /\ Len(waitList) < RepubMax
        BY <1>2, <3>2 DEF PublishSent
      <4>2. waitList \in Seq(PubInfo)
        BY DEF TypeInv, MqttTypeOK
      <4>3. x \in PubInfo
        <5>1. pub[m][2] \in Ids
          BY <1>2, <1>a, <3>2 DEF PublishSent, TypeInv, QosIds, Ids
        <5> QED
          BY <5>1, Zenon DEF PubInfo, Ids
      <4> HIDE DEF x
      <4>4. Len(Append(waitList, x)) = Len(waitList) + 1 /\ Append(waitList, x) \in Seq(PubInfo) /\ Len(waitList) \in Nat
        BY <4>2, <4>3, AppendElements
      <4> QED
        BY <4>1, <4>4
    <3> QED
      BY <3>1, <3>2
  <2>4. pub' \in [Msgs -> PubState] /\ QosIds'
    BY <1>2, <1>a DEF PublishSent, TypeInv, QosIds, PubState
  <2> QED
    <3>1. UNCHANGED <<client_state, packet_id, probes, yield, node, broker, event, drops, early>>
      BY <1>2 DEF PublishSent
    <3> QED
      BY <2>2, <2>3, <2>4, <3>1 DEF TypeInv, MqttTypeOK, Wire
<1>3. CASE PublishFails(m)
  <2>1. pub' \in [Msgs -> PubState] /\ QosIds'
    <3>1. \E s \in {"refused", "failed"} : pub' = [pub EXCEPT ![m][1] = s]
      BY <1>3 DEF PublishFails
    <3>2. pub' \in [Msgs -> PubState] /\ \A n \in Msgs : /\ pub'[n][2] = pub[n][2]
                                                     /\ pub'[n][1] \in {pub[n][1], "refused", "failed"}
      BY <1>a, <3>1, PubOutcome
    <3> QED
      BY <3>2 DEF TypeInv, QosIds
  <2>2. UNCHANGED net
    BY <1>3 DEF PublishFails, SendFails
  <2> QED
    BY <1>3, <2>1, <2>2 DEF PublishFails, TypeInv, MqttTypeOK
<1>4. CASE PublishOffline(m)
  <2>1. pub' \in [Msgs -> PubState] /\ QosIds'
    BY <1>4, <1>a DEF PublishOffline, TypeInv, QosIds, PubState
  <2> QED
    BY <1>4, <2>1 DEF PublishOffline, TypeInv, MqttTypeOK
<1> QED
  BY <1>1, <1>2, <1>3, <1>4 DEF Publishing

\* A step of no publisher.
LEMMA QosSame ==
  ASSUME TypeInv, UNCHANGED pub
  PROVE  QosIds'
BY DEF TypeInv, QosIds

LEMMA KeepaliveTypes ==
  ASSUME TypeInv, Keepalive \/ Connecting
  PROVE  TypeInv'
<1> USE MqttAssumption
<1>q. QosIds'
  BY QosSame DEF Keepalive, Connecting, KeepalivePing, KeepaliveQuiet, ReconnectWaits, ReactConnected,
     ReactDisconnected, ReconnectStarts, ConnectDone, ConnectFails, Reconnected
<1>1. CASE KeepalivePing
  <2>1. CASE SendOk(PingReq) /\ probes' = probes + 1 /\ UNCHANGED client_state
    <3>1. net' \in Wire
      BY <2>1, SendOkWire DEF Requests, TypeInv
    <3> QED
      BY <1>1, <2>1, <3>1, <1>q DEF KeepalivePing, TypeInv, MqttTypeOK, Wire
  <2>2. CASE SendFails /\ client_state' = "DISCONNECTED" /\ UNCHANGED probes
    BY <1>1, <2>2, <1>q DEF KeepalivePing, SendFails, TypeInv, MqttTypeOK
  <2> QED
    BY <1>1, <2>1, <2>2 DEF KeepalivePing
<1>2. CASE KeepaliveQuiet \/ ReconnectWaits \/ ReactConnected
  BY <1>2, <1>q DEF KeepaliveQuiet, ReconnectWaits, ReactConnected, TypeInv, MqttTypeOK
<1>3. CASE ReactDisconnected \/ ReconnectStarts \/ ConnectDone \/ ConnectFails
  <2>1. net' \in Wire
    BY <1>3, FreshWire DEF ReactDisconnected, ReconnectStarts, ConnectDone, ConnectFails
  <2> QED
    <3>1. net'.conn \in {"closed", "tcp", "up", "dead", "reset"}
      BY <2>1 DEF Wire
    <3>2. MqttTypeOK'
      BY <1>3, <3>1 DEF ReactDisconnected, ReconnectStarts, ConnectDone, ConnectFails, TypeInv, MqttTypeOK
    <3> QED
      BY <1>3, <2>1, <3>2, <1>q DEF ReactDisconnected, ReconnectStarts, ConnectDone, ConnectFails, TypeInv
<1>4. CASE Reconnected
  BY <1>4, <1>q DEF Reconnected, TypeInv, MqttTypeOK
<1> QED
  BY <1>1, <1>2, <1>3, <1>4 DEF Keepalive, Connecting

LEMMA CycleTypes ==
  ASSUME TypeInv, Cycle
  PROVE  TypeInv'
<1> USE MqttAssumption
<1>q. QosIds'
  BY QosSame DEF Cycle, CycleOffline, CycleNoAnswer, ReadError, ReadNothing, ReadPacket
<1>1. CASE CycleOffline \/ CycleNoAnswer \/ ReadError \/ ReadNothing
  BY <1>1, <1>q DEF CycleOffline, CycleNoAnswer, ReadError, ReadNothing, Cycling, TypeInv, MqttTypeOK
<1>2. CASE ReadPacket
  <2>1. net.in \in Seq(Answers) /\ net.in # <<>>
    BY <1>2 DEF ReadPacket, TypeInv, Wire
  <2>2. Tail(net.in) \in Seq(Answers) /\ Head(net.in) \in Answers
    BY <2>1, TailElements
  <2>3. net' \in Wire
    BY <1>2, <2>2 DEF ReadPacket, TypeInv, Wire
  <2>4. waitList \in Seq(PubInfo) /\ Len(waitList) <= RepubMax
    BY DEF TypeInv, MqttTypeOK
  <2>5. waitList' \in Seq(PubInfo) /\ Len(waitList') = Len(waitList)
    <3>1. CASE Head(net.in).type = "PUBACK"
      <4>1. Head(net.in).id \in Ids
        BY <2>2, <3>1 DEF Answers, PingResp
      <4> QED
        BY <1>2, <2>4, <3>1, <4>1, Masked DEF ReadPacket
    <3>2. CASE Head(net.in).type # "PUBACK"
      BY <1>2, <2>4, <3>2 DEF ReadPacket
    <3> QED
      BY <3>1, <3>2
  <2> QED
    <3>1. /\ UNCHANGED <<client_state, packet_id, pub, broker, event, drops, early>>
          /\ probes' = 0 /\ yield' = "proc" /\ node' = 1
      BY <1>2 DEF ReadPacket
    <3> QED
      BY <1>q, <2>3, <2>4, <2>5, <3>1 DEF TypeInv, MqttTypeOK, Wire
<1> QED
  BY <1>1, <1>2 DEF Cycle

LEMMA ProcTypes ==
  ASSUME TypeInv, PubInfoProc
  PROVE  TypeInv'
<1> USE MqttAssumption
<1>q. QosIds'
  BY QosSame DEF PubInfoProc, ProcRemove, ProcSkip, Republish, ProcEnd
<1>a. waitList \in Seq(PubInfo) /\ Len(waitList) \in Nat /\ Len(waitList) <= RepubMax
  BY LenProperties DEF TypeInv, MqttTypeOK
<1>1. CASE ProcRemove
  <2>1. waitList' \in Seq(PubInfo) /\ Len(waitList') <= RepubMax
    <3>1. node \in 1 .. Len(waitList)
      BY <1>1, <1>a, <1>q DEF ProcRemove, TypeInv, MqttTypeOK
    <3>2. RemoveAt(waitList, node) \in Seq(PubInfo) /\ Len(RemoveAt(waitList, node)) = Len(waitList) - 1
      BY <1>a, <3>1, RemoveAtElements
    <3> QED
      BY <1>1, <1>a, <3>2 DEF ProcRemove
  <2> QED
    BY <1>1, <2>1, <1>q DEF ProcRemove, TypeInv, MqttTypeOK
<1>2. CASE ProcSkip \/ ProcEnd
  <2>1. node' \in 1 .. RepubMax + 1 /\ yield' \in {yield, "keepalive"} /\ yield = "proc"
    BY <1>2, <1>a DEF ProcSkip, ProcEnd, TypeInv, MqttTypeOK
  <2>2. UNCHANGED <<client_state, packet_id, probes, waitList, pub, net, broker, event, drops, early>>
    BY <1>2 DEF ProcSkip, ProcEnd
  <2> QED
    BY <1>q, <2>1, <2>2 DEF TypeInv, MqttTypeOK
<1>3. CASE Republish
  <2>1. node \in 1 .. Len(waitList)
    BY <1>3, <1>a, <1>q DEF Republish, TypeInv, MqttTypeOK
  <2>2. waitList' \in Seq(PubInfo) /\ Len(waitList') <= RepubMax
    BY <1>3, <1>a, <2>1, NodeDue DEF Republish
  <2>3. Publish(waitList[node].msg, waitList[node].id) \in Requests
    <3>1. waitList[node] \in PubInfo
      BY <1>a, <2>1, ElementOfSeq
    <3> QED
      BY <3>1 DEF PubInfo, Publish, Requests, Ids
  <2>4. CASE SendOk(Publish(waitList[node].msg, waitList[node].id)) /\ node' = node + 1 /\ UNCHANGED <<client_state, yield>>
    <3>1. net' \in Wire
      BY <2>3, <2>4, SendOkWire DEF TypeInv
    <3> QED
      <4>1. UNCHANGED <<client_state, yield, packet_id, probes, pub, broker, event, drops, early>>
        BY <1>3, <2>4 DEF Republish
      <4>2. node' \in 1 .. RepubMax + 1
        BY <1>a, <2>1, <2>4
      <4> QED
        BY <1>q, <2>2, <3>1, <4>1, <4>2 DEF TypeInv, MqttTypeOK, Wire
  <2>5. CASE SendFails /\ client_state' = "DISCONNECTED" /\ yield' = "keepalive" /\ node' = 1
    BY <1>3, <2>2, <2>5, <1>q DEF Republish, SendFails, TypeInv, MqttTypeOK
  <2> QED
    BY <1>3, <2>4, <2>5 DEF Republish
<1> QED
  BY <1>1, <1>2, <1>3 DEF PubInfoProc

LEMMA OutsideTypes ==
  ASSUME TypeInv, (\E k \in 1 .. RepubMax : TimeOut(k)) \/ BrokerStep \/ NetFails
  PROVE  TypeInv'
<1> USE MqttAssumption
<1>q. QosIds'
  BY QosSame DEF TimeOut, BrokerStep, NetFails
<1>1. ASSUME NEW k \in 1 .. RepubMax, TimeOut(k) PROVE TypeInv'
  <2>1. waitList \in Seq(PubInfo) /\ Len(waitList) <= RepubMax
    BY DEF TypeInv, MqttTypeOK
  <2>2. waitList' \in Seq(PubInfo) /\ Len(waitList') = Len(waitList)
    BY <1>1, <2>1, NodeDue, LenProperties DEF TimeOut
  <2> QED
    BY <1>1, <2>1, <2>2, <1>q DEF TimeOut, TypeInv, MqttTypeOK
<1>2. CASE BrokerStep
  <2> DEFINE p == Head(net.out)
  <2>1. net.out \in Seq(Requests) /\ net.out # <<>> /\ net.in \in Seq(Answers)
    BY <1>2 DEF BrokerStep, TypeInv, Wire
  <2>2. Tail(net.out) \in Seq(Requests) /\ p \in Requests
    BY <2>1, TailElements
  <2>3. Append(net.in, PingResp) \in Seq(Answers)
    BY <2>1, AppendElements DEF Answers
  <2>4. p.type = "PUBLISH" /\ p.id # 0 => Append(net.in, Puback(p.id)) \in Seq(Answers)
    <3>1. p.type = "PUBLISH" /\ p.id # 0 => Puback(p.id) \in Answers
      BY <2>2 DEF Requests, Answers, PingReq, Puback, Ids
    <3> QED
      BY <2>1, <3>1, AppendElements
  <2>5. net'.out = Tail(net.out) /\ net'.in \in Seq(Answers) /\ net' \in Wire
    BY <1>2, <2>1, <2>2, <2>3, <2>4 DEF BrokerStep, TypeInv, Wire
  <2>6. broker' \subseteq Msgs
    <3>1. p.type = "PUBLISH" => p.msg \in Msgs
      BY <2>2 DEF Requests, PingReq
    <3>2. broker' = IF p.type = "PUBLISH" THEN broker \cup {p.msg} ELSE broker
      BY <1>2 DEF BrokerStep
    <3> QED
      BY <3>1, <3>2 DEF TypeInv, MqttTypeOK
  <2> QED
    BY <1>2, <2>5, <2>6, <1>q DEF BrokerStep, TypeInv, MqttTypeOK, Wire
<1>3. CASE NetFails
  <2>1. net' \in Wire
    BY <1>3, FreshWire DEF NetFails
  <2> QED
    <3>1. UNCHANGED <<client_state, packet_id, probes, waitList, pub, yield, node, broker, event, early>>
      BY <1>3 DEF NetFails
    <3>2. drops' \in 0 .. MaxDrops
      <4>1. drops \in 0 .. MaxDrops
        BY DEF TypeInv, MqttTypeOK
      <4>2. drops < MaxDrops /\ drops' = drops + 1
        BY <1>3 DEF NetFails
      <4> QED
        BY <4>1, <4>2
    <3> QED
      <4>1. net'.conn \in {"closed", "tcp", "up", "dead", "reset"}
        BY <2>1 DEF Wire
      <4>2. MqttTypeOK'
        BY <3>1, <3>2, <4>1 DEF TypeInv, MqttTypeOK
      <4> QED
        BY <1>q, <2>1, <3>1, <4>2 DEF TypeInv
<1> QED
  BY <1>1, <1>2, <1>3

LEMMA TypeStep == TypeInv /\ [MqttNext]_vars => TypeInv'
<1> SUFFICES ASSUME TypeInv, [MqttNext]_vars PROVE TypeInv'
  OBVIOUS
<1>1. CASE UNCHANGED vars
  BY <1>1, QosSame DEF vars, TypeInv, MqttTypeOK
<1> QED
  BY <1>1, PublishTypes, KeepaliveTypes, CycleTypes, ProcTypes, OutsideTypes DEF MqttNext, Yielding

\* Every variable keeps its type: the list never grows past IOTX_MC_REPUB_NUM_MAX,
\* packet ids wrap within their range, and keepalive_probes passes its
\* maximum by one at most.
THEOREM MqttTypes == MqttSpec => []MqttTypeOK
<1>1. TypeInv => MqttTypeOK
  BY DEF TypeInv
<1> QED
  BY <1>1, TypeInit, TypeStep, PTL DEF MqttSpec

-----------------------------------------------------------------------------
(* client_state, the connection and the events.                            *)

LEMMA SendKeepsConn ==
  ASSUME net \in Wire, NEW p, SendOk(p) \/ SendFails
  PROVE  net'.conn = net.conn
BY DEF SendOk, SendFails, Wire

LEMMA StateInit == MqttInit => StateInv
BY FreshWire DEF MqttInit, StateInv, EventsPaired, ConnectedOnMqtt

\* A step that leaves client_state, yield and event alone, or declares the
\* client disconnected, and keeps the kind of connection.
LEMMA StateFrame ==
  ASSUME StateInv, client_state' \in {client_state, "DISCONNECTED"}, net'.conn = net.conn, UNCHANGED event,
         yield' = yield \/ yield' \notin {"connect", "again"}
  PROVE  StateInv'
BY DEF StateInv, EventsPaired, ConnectedOnMqtt

LEMMA StateStep == TypeInv /\ StateInv /\ [MqttNext]_vars => StateInv'
<1> SUFFICES ASSUME TypeInv, StateInv, [MqttNext]_vars PROVE StateInv'
  OBVIOUS
<1>a. net \in Wire
  BY DEF TypeInv
<1>1. ASSUME NEW m \in Msgs, Publishing(m) PROVE StateInv'
  <2>1. net'.conn = net.conn
    BY <1>1, <1>a, SendKeepsConn DEF Publishing, CheckState, PublishSent, PublishFails, PublishOffline
  <2>2. client_state' \in {client_state, "DISCONNECTED"} /\ UNCHANGED <<event, yield>>
    BY <1>1 DEF Publishing, CheckState, PublishSent, PublishFails, PublishOffline
  <2> QED
    BY <2>1, <2>2, StateFrame
<1>2. CASE KeepalivePing
  <2>1. net'.conn = net.conn
    BY <1>2, <1>a, SendKeepsConn DEF KeepalivePing
  <2>2. client_state' \in {client_state, "DISCONNECTED"} /\ UNCHANGED event /\ yield' = "react"
    BY <1>2 DEF KeepalivePing
  <2> QED
    BY <2>1, <2>2, StateFrame
<1>3. CASE KeepaliveQuiet \/ ReconnectWaits \/ ReactConnected
  BY <1>3, StateFrame DEF KeepaliveQuiet, ReconnectWaits, ReactConnected
<1>4. CASE ReactDisconnected \/ ReconnectStarts \/ ConnectDone \/ ConnectFails \/ Reconnected
  BY <1>4, FreshWire DEF StateInv, EventsPaired, ConnectedOnMqtt,
     ReactDisconnected, ReconnectStarts, ConnectDone, ConnectFails, Reconnected
<1>5. CASE Cycle
  <2>1. net'.conn = net.conn
    BY <1>5, <1>a DEF Cycle, CycleOffline, CycleNoAnswer, ReadError, ReadNothing, ReadPacket, Wire
  <2>2. client_state' \in {client_state, "DISCONNECTED"} /\ UNCHANGED event /\ yield' \in {"keepalive", "proc"}
    BY <1>5 DEF Cycle, CycleOffline, CycleNoAnswer, ReadError, ReadNothing, ReadPacket
  <2> QED
    BY <2>1, <2>2, StateFrame
<1>6. CASE PubInfoProc
  <2>1. net'.conn = net.conn
    BY <1>6, <1>a, SendKeepsConn DEF PubInfoProc, ProcRemove, ProcSkip, Republish, ProcEnd
  <2>2. client_state' \in {client_state, "DISCONNECTED"} /\ UNCHANGED event /\ yield' \in {yield, "keepalive"}
    BY <1>6 DEF PubInfoProc, ProcRemove, ProcSkip, Republish, ProcEnd
  <2> QED
    BY <2>1, <2>2, StateFrame
<1>7. ASSUME NEW k \in 1 .. RepubMax, TimeOut(k) PROVE StateInv'
  BY <1>7, StateFrame DEF TimeOut
<1>8. CASE BrokerStep
  <2>1. net'.conn = net.conn /\ UNCHANGED <<client_state, yield, event>>
    BY <1>8, <1>a DEF BrokerStep, Wire
  <2> QED
    BY <2>1, StateFrame
<1>9. CASE NetFails
  <2>1. net'.conn \in {"dead", "reset"} /\ UNCHANGED <<client_state, yield, event>>
    BY <1>9 DEF NetFails, Closed
  <2> QED
    BY <2>1 DEF StateInv, EventsPaired, ConnectedOnMqtt
<1>10. CASE UNCHANGED vars
  BY <1>10, StateFrame DEF vars
<1> QED
  BY <1>1, <1>2, <1>3, <1>4, <1>5, <1>6, <1>7, <1>8, <1>9, <1>10 DEF MqttNext, Yielding, Keepalive, Connecting

\* The application is told of a reconnection only after it was told of the
\* loss, whatever publishers do to client_state meanwhile.
THEOREM EventsArePaired == MqttSpec => []EventsPaired
<1>1. StateInv => EventsPaired
  BY DEF StateInv
<1> QED
  BY <1>1, TypeInit, TypeStep, StateInit, StateStep, PTL DEF MqttSpec

\* The client never believes it is connected on a socket that is closed or
\* on which CONNECT has not been answered.
THEOREM ConnectedMeansMqtt == MqttSpec => []ConnectedOnMqtt
<1>1. StateInv => ConnectedOnMqtt
  BY DEF StateInv
<1> QED
  BY <1>1, TypeInit, TypeStep, StateInit, StateStep, PTL DEF MqttSpec

-----------------------------------------------------------------------------
(* Accepted messages.                                                      *)

LEMMA KeptInit == MqttInit => KeptInv
<1> SUFFICES ASSUME MqttInit PROVE KeptInv
  OBVIOUS
<1>1. \A m \in Msgs : pub[m][1] = "new" /\ pub[m][2] = 0
  BY DEF MqttInit
<1>2. DOMAIN waitList = {} /\ DOMAIN net.out = {} /\ DOMAIN net.in = {}
  BY DEF MqttInit, OpenMqtt, Closed
<1>3. Numbered = {}
  BY <1>1 DEF Numbered
<1> QED
  BY <1>1, <1>2, <1>3 DEF MqttInit, KeptInv, IdsUnique, NodesCarry, OutCarries, InCarries, AcceptedKept

\* The counting in IdsUnique: among no more than PacketIdMax messages a new
\* one finds an id that none has.
LEMMA NumberedFinite ==
  /\ IsFiniteSet(Numbered) /\ Cardinality(Numbered) \in Nat
  /\ \A m \in Msgs \ Numbered : /\ Cardinality(Numbered) < MsgNum
                                /\ Cardinality(Numbered \cup {m}) = Cardinality(Numbered) + 1
<1>1. IsFiniteSet(Msgs) /\ Cardinality(Msgs) = MsgNum
  BY MqttAssumption, FS_Interval DEF Msgs
<1>2. Numbered \in SUBSET Msgs
  BY DEF Numbered
<1>3. IsFiniteSet(Numbered) /\ Cardinality(Numbered) \in Nat
  BY <1>1, <1>2, FS_Subset, FS_CardinalityType
<1>4. ASSUME NEW m \in Msgs \ Numbered
      PROVE  /\ Cardinality(Numbered) < MsgNum
             /\ Cardinality(Numbered \cup {m}) = Cardinality(Numbered) + 1
  <2>1. Cardinality(Numbered \cup {m}) = Cardinality(Numbered) + 1
    BY <1>3, FS_AddElement
  <2>2. Numbered \cup {m} \in SUBSET Msgs
    BY <1>2
  <2>3. Cardinality(Numbered \cup {m}) <= MsgNum
    BY <1>1, <2>2, FS_Subset
  <2> QED
    BY <1>3, <2>1, <2>3, MqttAssumption
<1> QED
  BY <1>3, <1>4

LEMMA CheckStateKept ==
  ASSUME MsgNum <= PacketIdMax, TypeInv, KeptInv, NEW m \in Msgs, CheckState(m)
  PROVE  KeptInv'
<1> USE MqttAssumption
<1>a. /\ pub \in [Msgs -> PubState] /\ packet_id \in 0 .. PacketIdMax
      /\ \A n \in Msgs : pub[n][2] \in 0 .. PacketIdMax
  BY DEF TypeInv, MqttTypeOK, PubState
<1>b. pub[m][1] = "new" /\ pub[m][2] = 0
  BY DEF CheckState, TypeInv, QosIds
<1>c. /\ pub'[m][1] # "accepted"
      /\ \A n \in Msgs \ {m} : pub'[n] = pub[n]
      /\ UNCHANGED <<waitList, net, broker>>
  BY <1>a DEF CheckState
<1>1. IdsUnique'
  <2>1. CASE UNCHANGED packet_id /\ pub'[m][2] = 0
    <3>1. \A n \in Msgs : pub'[n][2] = pub[n][2]
      BY <1>b, <1>c, <2>1
    <3>2. Numbered' = Numbered
      BY <3>1 DEF Numbered
    <3> QED
      BY <2>1, <3>1, <3>2 DEF KeptInv, IdsUnique, Numbered, Rank
  <2>2. CASE packet_id' = NextPacketId /\ pub'[m][2] = NextPacketId
    <3> DEFINE c == Cardinality(Numbered)
    <3>1. NextPacketId \in Ids
      BY <1>a DEF NextPacketId, Ids
    <3>2. m \notin Numbered /\ Numbered' = Numbered \cup {m}
      BY <1>b, <1>c, <2>2, <3>1 DEF Numbered, Ids
    <3>3. c \in Nat /\ c < PacketIdMax /\ Cardinality(Numbered') = c + 1
      BY <3>2, NumberedFinite
    <3>4. Numbered = {} => c = 0
      BY FS_EmptySet
    <3> HIDE DEF c
    <3>5. Rank(NextPacketId) = c + 1
      <4>1. CASE Numbered = {}
        BY <1>a, <3>4, <4>1 DEF KeptInv, IdsUnique, NextPacketId, Rank
      <4>2. CASE Numbered # {}
        <5>1. packet_id # 0 /\ Rank(packet_id) = c
          BY <4>2 DEF KeptInv, IdsUnique, c
        <5> QED
          BY <1>a, <3>3, <5>1 DEF NextPacketId, Rank
      <4> QED
        BY <4>1, <4>2
    <3>6. \A n \in Numbered : n # m /\ pub'[n][2] = pub[n][2] /\ Rank(pub[n][2]) <= c
      BY <1>c, <3>2 DEF KeptInv, IdsUnique, Numbered, c
    <3>7. \A n \in Numbered : pub[n][2] \in Ids /\ Rank(pub[n][2]) \in Int
      BY <1>a DEF Numbered, Ids, Rank
    <3>8. \A n \in Numbered : pub'[n][2] # NextPacketId
      BY <3>3, <3>5, <3>6, <3>7
    <3>9. /\ packet_id' # 0 /\ Rank(packet_id') = Cardinality(Numbered')
          /\ Numbered' # {}
      BY <2>2, <3>1, <3>2, <3>3, <3>5 DEF Ids
    <3>10. \A n \in Numbered' : Rank(pub'[n][2]) <= Cardinality(Numbered')
      BY <2>2, <3>2, <3>3, <3>5, <3>6, <3>7
    <3>11. \A n, o \in Numbered' : pub'[n][2] = pub'[o][2] => n = o
      <4>1. \A n, o \in Numbered : pub[n][2] = pub[o][2] => n = o
        BY DEF KeptInv, IdsUnique
      <4> QED
        BY <2>2, <3>2, <3>6, <3>8, <4>1
    <3> QED
      BY <3>9, <3>10, <3>11 DEF IdsUnique, Rank
  <2> QED
    BY <1>a, <2>1, <2>2 DEF CheckState
<1>2. NodesCarry'
  <2>1. ASSUME NEW k \in DOMAIN waitList PROVE waitList[k].msg \in Msgs \ {m}
    <3>1. waitList[k] \in PubInfo
      BY ElementOfSeq, LenProperties DEF TypeInv, MqttTypeOK
    <3>2. waitList[k].id # 0 /\ waitList[k].msg \in Msgs
      BY <3>1 DEF PubInfo
    <3> QED
      BY <1>b, <3>2 DEF KeptInv, NodesCarry
  <2> QED
    BY <1>c, <2>1 DEF KeptInv, NodesCarry
<1>3. OutCarries'
  <2>1. ASSUME NEW k \in DOMAIN net.out, net.out[k].type = "PUBLISH"
        PROVE  pub'[net.out[k].msg][2] = pub[net.out[k].msg][2]
    <3>1. net.out[k] \in Requests
      BY ElementOfSeq, LenProperties DEF TypeInv, Wire
    <3>2. net.out[k].msg \in Msgs
      BY <2>1, <3>1 DEF Requests, PingReq
    <3>3. CASE net.out[k].msg = m
      <4>1. net.out[k].id = 0 /\ m \in Qos0
        BY <1>b, <2>1, <3>3 DEF KeptInv, OutCarries
      <4>2. pub'[m][2] = 0
        BY <1>a, <4>1 DEF CheckState
      <4> QED
        BY <1>b, <3>3, <4>2
    <3> QED
      BY <1>c, <3>2, <3>3
  <2> QED
    BY <1>c, <2>1 DEF KeptInv, OutCarries
<1>4. InCarries'
  <2>1. ASSUME NEW k \in DOMAIN net.in, net.in[k].type = "PUBACK"
        PROVE  \E n \in broker : pub'[n][2] = net.in[k].id
    <3>1. net.in[k] \in Answers
      BY ElementOfSeq, LenProperties DEF TypeInv, Wire
    <3>2. net.in[k].id # 0
      BY <2>1, <3>1 DEF Answers, PingResp, Ids
    <3>3. PICK n \in broker : pub[n][2] = net.in[k].id
      BY <2>1 DEF KeptInv, InCarries
    <3>4. n \in Msgs \ {m}
      BY <1>b, <3>2, <3>3 DEF TypeInv, MqttTypeOK
    <3> QED
      BY <1>c, <3>3, <3>4
  <2> QED
    BY <1>c, <2>1 DEF InCarries
<1>5. AcceptedKept'
  BY <1>c DEF KeptInv, AcceptedKept
<1> QED
  BY <1>1, <1>2, <1>3, <1>4, <1>5 DEF KeptInv

\* Ids are given by CheckState only.
LEMMA IdsFrame ==
  ASSUME KeptInv, UNCHANGED packet_id, \A n \in Msgs : pub'[n][2] = pub[n][2]
  PROVE  IdsUnique'
<1>1. Numbered' = Numbered
  BY DEF Numbered
<1> QED
  BY <1>1 DEF KeptInv, IdsUnique, Numbered, Rank

\* A step that takes packets off the wire, or adds ones that carry nothing.
LEMMA OutFrame ==
  ASSUME TypeInv, KeptInv, \A n \in Msgs : pub'[n][2] = pub[n][2],
         \A k \in DOMAIN net'.out : \/ net'.out[k].type # "PUBLISH"
                                    \/ \E j \in DOMAIN net.out : net'.out[k] = net.out[j]
  PROVE  OutCarries'
<1>1. ASSUME NEW j \in DOMAIN net.out, net.out[j].type = "PUBLISH" PROVE net.out[j].msg \in Msgs
  <2>1. net.out[j] \in Requests
    BY ElementOfSeq, LenProperties DEF TypeInv, Wire
  <2> QED
    BY <1>1, <2>1 DEF Requests, PingReq
<1> QED
  BY <1>1 DEF KeptInv, OutCarries

LEMMA InFrame ==
  ASSUME TypeInv, KeptInv, \A n \in Msgs : pub'[n][2] = pub[n][2], broker \subseteq broker',
         \A k \in DOMAIN net'.in : \/ net'.in[k].type # "PUBACK"
                                   \/ \E j \in DOMAIN net.in : net'.in[k] = net.in[j]
  PROVE  InCarries'
<1>1. broker \subseteq Msgs
  BY DEF TypeInv, MqttTypeOK
<1> QED
  BY <1>1 DEF KeptInv, InCarries

LEMMA NodeTypes ==
  ASSUME TypeInv, NEW k \in DOMAIN waitList
  PROVE  waitList[k] \in PubInfo /\ waitList[k].msg \in Msgs /\ waitList[k].id \in Ids
<1>1. waitList[k] \in PubInfo
  BY ElementOfSeq, LenProperties DEF TypeInv, MqttTypeOK
<1> QED
  BY <1>1 DEF PubInfo, Ids

\* Most steps leave the list and the publishers alone.
LEMMA KeptFrame ==
  ASSUME TypeInv, KeptInv, UNCHANGED <<packet_id, waitList, pub>>, broker \subseteq broker',
         OutCarries', InCarries'
  PROVE  KeptInv'
<1>1. IdsUnique'
  BY IdsFrame
<1>2. NodesCarry' /\ AcceptedKept'
  BY DEF KeptInv, NodesCarry, AcceptedKept
<1> QED
  BY <1>1, <1>2 DEF KeptInv

\* A step of the timers or of MQTTPubInfoProc that keeps the marks.
LEMMA NodesFrame ==
  ASSUME TypeInv, KeptInv, UNCHANGED <<packet_id, pub, broker>>,
         DOMAIN waitList' = DOMAIN waitList,
         \A j \in DOMAIN waitList : /\ waitList'[j].msg = waitList[j].msg
                                    /\ waitList'[j].id = waitList[j].id
                                    /\ waitList'[j].valid = waitList[j].valid,
         OutCarries', InCarries'
  PROVE  KeptInv'
<1>1. IdsUnique'
  BY IdsFrame
<1>2. NodesCarry'
  BY DEF KeptInv, NodesCarry
<1>3. AcceptedKept'
  BY DEF KeptInv, AcceptedKept
<1> QED
  BY <1>1, <1>2, <1>3 DEF KeptInv

LEMMA PublishKept ==
  ASSUME TypeInv, KeptInv, NEW m \in Msgs, PublishSent(m) \/ PublishFails(m) \/ PublishOffline(m)
  PROVE  KeptInv'
<1>a. /\ pub \in [Msgs -> PubState] /\ broker \subseteq Msgs
      /\ \A n \in Msgs : pub[n] \in PubState
  BY DEF TypeInv, MqttTypeOK
<1>1. CASE PublishSent(m)
  <2> DEFINE id == pub[m][2]
             x == [id |-> id, msg |-> m, valid |-> TRUE, due |-> FALSE]
  <2>1. /\ \A n \in Msgs : pub'[n][2] = pub[n][2]
        /\ \A n \in Msgs \ {m} : pub'[n] = pub[n]
        /\ UNCHANGED <<packet_id, broker>>
    BY <1>1, <1>a DEF PublishSent, PubState
  <2>2. id \in 0 .. PacketIdMax /\ (m \in Qos0 \/ id # 0)
    BY <1>1, <1>a DEF PublishSent, PubState, TypeInv, QosIds
  <2>3. Publish(m, id) \in Requests
    BY <2>2 DEF Publish, Requests
  <2>4. /\ net'.in = net.in
        /\ \A k \in DOMAIN net'.out : net'.out[k] = Publish(m, id) \/ (k \in DOMAIN net.out /\ net'.out[k] = net.out[k])
    BY <1>1, <2>3, SendOkWire DEF PublishSent, TypeInv
  <2>5. OutCarries'
    <3>1. ASSUME NEW j \in DOMAIN net.out, net.out[j].type = "PUBLISH" PROVE net.out[j].msg \in Msgs
      <4>1. net.out[j] \in Requests
        BY ElementOfSeq, LenProperties DEF TypeInv, Wire
      <4> QED
        BY <3>1, <4>1 DEF Requests, PingReq
    <3>2. Publish(m, id).msg = m /\ Publish(m, id).id = id
      BY DEF Publish
    <3> QED
      BY <2>1, <2>2, <2>4, <3>1, <3>2 DEF KeptInv, OutCarries
  <2>6. InCarries'
    BY <2>1, <2>4, InFrame
  <2>7. IdsUnique'
    BY <2>1, IdsFrame
  <2>8. CASE m \in Qos0
    <3>1. waitList' = waitList
      BY <1>1, <2>8 DEF PublishSent
    <3>2. NodesCarry'
      BY <2>1, <3>1, NodeTypes DEF KeptInv, NodesCarry
    <3>3. AcceptedKept'
      BY <2>1, <2>8, <3>1 DEF KeptInv, AcceptedKept
    <3> QED
      BY <2>5, <2>6, <2>7, <3>2, <3>3 DEF KeptInv
  <2>9. CASE m \notin Qos0
    <3>1. waitList' = Append(waitList, x) /\ waitList \in Seq(PubInfo)
      BY <1>1, <2>9 DEF PublishSent, TypeInv, MqttTypeOK
    <3>2. x \in PubInfo
      <4>1. id \in 1 .. PacketIdMax
        BY <2>2, <2>9, MqttAssumption
      <4> HIDE DEF id
      <4> QED
        BY <4>1, Zenon DEF PubInfo
    <3>3. x.msg = m /\ x.id = id /\ x.valid = TRUE
      OBVIOUS
    <3> HIDE DEF x
    <3>4. /\ DOMAIN waitList' = 1 .. Len(waitList) + 1 /\ DOMAIN waitList = 1 .. Len(waitList)
          /\ Len(waitList) \in Nat
          /\ \A k \in 1 .. Len(waitList) : waitList'[k] = waitList[k]
          /\ waitList'[Len(waitList) + 1] = x
      BY <3>1, <3>2, AppendElements
    <3>5. \A k \in DOMAIN waitList' : (k \in DOMAIN waitList /\ waitList'[k] = waitList[k]) \/ waitList'[k] = x
      BY <3>4
    <3>6. NodesCarry'
      BY <2>1, <3>3, <3>5, NodeTypes DEF KeptInv, NodesCarry
    <3>7. AcceptedKept'
      <4> SUFFICES ASSUME NEW n \in Msgs \ Qos0, pub'[n][1] = "accepted", n \notin broker'
                   PROVE  \E k \in DOMAIN waitList' : waitList'[k].valid /\ waitList'[k].msg = n
        BY DEF AcceptedKept
      <4>1. CASE n = m
        BY <3>3, <3>4, <4>1
      <4>2. CASE n # m
        <5>1. \E k \in DOMAIN waitList : waitList[k].valid /\ waitList[k].msg = n
          BY <2>1, <4>2 DEF KeptInv, AcceptedKept
        <5> QED
          BY <3>4, <5>1
      <4> QED
        BY <4>1, <4>2
    <3> QED
      BY <2>5, <2>6, <2>7, <3>6, <3>7 DEF KeptInv
  <2> QED
    BY <2>8, <2>9
<1>2. CASE PublishFails(m) \/ PublishOffline(m)
  <2>1. /\ \A n \in Msgs : pub'[n][2] = pub[n][2]
        /\ \A n \in Msgs : pub'[n][1] = "accepted" => pub[n][1] = "accepted"
        /\ UNCHANGED <<packet_id, waitList, net, broker>>
    <3>1. \E s \in {"refused", "failed"} : pub' = [pub EXCEPT ![m][1] = s]
      BY <1>2 DEF PublishFails, PublishOffline
    <3>2. UNCHANGED <<packet_id, waitList, net, broker>>
      BY <1>2 DEF PublishFails, PublishOffline, SendFails
    <3> QED
      BY <1>a, <3>1, <3>2, PubOutcome
  <2>2. OutCarries' /\ InCarries'
    BY <2>1, OutFrame, InFrame
  <2>3. IdsUnique'
    BY <2>1, IdsFrame
  <2>4. NodesCarry'
    BY <2>1, NodeTypes DEF KeptInv, NodesCarry
  <2>5. AcceptedKept'
    BY <2>1 DEF KeptInv, AcceptedKept
  <2> QED
    BY <2>2, <2>3, <2>4, <2>5 DEF KeptInv
<1> QED
  BY <1>1, <1>2

LEMMA WireReset ==
  ASSUME TypeInv, KeptInv, UNCHANGED <<packet_id, waitList, pub, broker>>,
         net'.out = <<>> /\ net'.in = <<>>
  PROVE  KeptInv'
<1>1. OutCarries' /\ InCarries'
  BY DEF OutCarries, InCarries
<1> QED
  BY <1>1, KeptFrame

LEMMA KeepaliveKept ==
  ASSUME TypeInv, KeptInv, Keepalive \/ Connecting
  PROVE  KeptInv'
<1>a. UNCHANGED <<packet_id, waitList, pub, broker>>
  BY DEF Keepalive, Connecting, KeepalivePing, KeepaliveQuiet, ReactDisconnected, ReconnectWaits,
         ReconnectStarts, ReactConnected, ConnectDone, ConnectFails, Reconnected
<1>1. CASE KeepalivePing
  <2>1. CASE SendOk(PingReq)
    <3>1. /\ net'.in = net.in
          /\ \A k \in DOMAIN net'.out : net'.out[k] = PingReq \/ (k \in DOMAIN net.out /\ net'.out[k] = net.out[k])
      BY <2>1, SendOkWire DEF TypeInv, Requests
    <3>2. PingReq.type # "PUBLISH"
      BY DEF PingReq
    <3>3. OutCarries'
      BY <1>a, <3>1, <3>2, OutFrame
    <3>4. InCarries'
      BY <1>a, <3>1, InFrame
    <3> QED
      BY <1>a, <3>3, <3>4, KeptFrame
  <2>2. CASE SendFails
    BY <1>a, <2>2, OutFrame, InFrame, KeptFrame DEF SendFails
  <2> QED
    BY <1>1, <2>1, <2>2 DEF KeepalivePing
<1>2. CASE KeepaliveQuiet \/ ReconnectWaits \/ ReactConnected \/ Reconnected
  <2>1. UNCHANGED net
    BY <1>2 DEF KeepaliveQuiet, ReconnectWaits, ReactConnected, Reconnected
  <2> QED
    BY <1>a, <2>1, OutFrame, InFrame, KeptFrame
<1>3. CASE ReactDisconnected \/ ReconnectStarts \/ ConnectDone \/ ConnectFails
  <2>1. net' \in {Closed, OpenTcp, OpenMqtt}
    BY <1>3 DEF ReactDisconnected, ReconnectStarts, ConnectDone, ConnectFails
  <2>2. net'.out = <<>> /\ net'.in = <<>>
    BY <2>1 DEF Closed, OpenTcp, OpenMqtt
  <2> QED
    BY <1>a, <2>2, WireReset
<1> QED
  BY <1>1, <1>2, <1>3 DEF Keepalive, Connecting

\* An acknowledgement masks the node of the message it is for and no other,
\* because no two messages have the same id.
LEMMA CycleKept ==
  ASSUME TypeInv, KeptInv, Cycle
  PROVE  KeptInv'
<1>1. CASE CycleOffline \/ CycleNoAnswer \/ ReadError \/ ReadNothing
  <2>1. UNCHANGED <<packet_id, waitList, pub, broker, net>>
    BY <1>1 DEF CycleOffline, CycleNoAnswer, ReadError, ReadNothing
  <2> QED
    BY <2>1, OutFrame, InFrame, KeptFrame
<1>2. CASE ReadPacket
  <2> DEFINE p == Head(net.in)
  <2>1. net.in \in Seq(Answers) /\ net.in # <<>> /\ waitList \in Seq(PubInfo) /\ broker \subseteq Msgs
    BY <1>2 DEF ReadPacket, TypeInv, Wire, MqttTypeOK
  <2>2. /\ p \in Answers /\ 1 \in DOMAIN net.in /\ p = net.in[1]
        /\ \A k \in DOMAIN Tail(net.in) : k + 1 \in DOMAIN net.in /\ Tail(net.in)[k] = net.in[k + 1]
    BY <2>1, TailElements
  <2>3. UNCHANGED <<packet_id, pub, broker>> /\ net'.out = net.out /\ net'.in = Tail(net.in)
    BY <1>2 DEF ReadPacket, TypeInv, Wire
  <2>4. OutCarries'
    BY <2>3, OutFrame
  <2>5. InCarries'
    <3>1. \A k \in DOMAIN net'.in : \E j \in DOMAIN net.in : net'.in[k] = net.in[j]
      BY <2>2, <2>3
    <3> QED
      BY <2>3, <3>1, InFrame
  <2>6. CASE p.type # "PUBACK"
    <3>1. UNCHANGED waitList
      BY <1>2, <2>6 DEF ReadPacket
    <3> QED
      BY <2>3, <2>4, <2>5, <3>1, KeptFrame
  <2>7. CASE p.type = "PUBACK"
    <3>1. p.id \in Ids /\ waitList' = MaskPubInfo(p.id)
      BY <1>2, <2>2, <2>7 DEF ReadPacket, Answers, PingResp
    <3>2. PICK n \in broker : pub[n][2] = p.id
      BY <2>2, <2>7 DEF KeptInv, InCarries
    <3> HIDE DEF p
    <3>3. /\ DOMAIN waitList' = DOMAIN waitList
          /\ \A j \in DOMAIN waitList : /\ waitList'[j].msg = waitList[j].msg
                                        /\ waitList'[j].id = waitList[j].id
                                        /\ waitList'[j].valid = (waitList[j].valid /\ waitList[j].id # p.id)
      BY <2>1, <3>1, Masked
    <3>4. ASSUME NEW j \in DOMAIN waitList, waitList[j].id = p.id PROVE waitList[j].msg \in broker
      <4>1. waitList[j].msg \in Msgs /\ pub[waitList[j].msg][2] = p.id
        BY <3>4, NodeTypes DEF KeptInv, NodesCarry
      <4>2. waitList[j].msg \in Numbered /\ n \in Numbered
        BY <2>1, <3>1, <3>2, <4>1 DEF Numbered, Ids
      <4> QED
        BY <3>2, <4>1, <4>2 DEF KeptInv, IdsUnique
    <3>5. NodesCarry'
      <4>1. ASSUME NEW j \in DOMAIN waitList
            PROVE  /\ waitList'[j].id = pub[waitList'[j].msg][2]
                   /\ ~waitList'[j].valid => waitList'[j].msg \in broker
        BY <3>3, <3>4 DEF KeptInv, NodesCarry
      <4> QED
        BY <2>3, <3>3, <4>1 DEF NodesCarry
    <3>6. AcceptedKept'
      <4> SUFFICES ASSUME NEW o \in Msgs \ Qos0, pub[o][1] = "accepted", o \notin broker
                   PROVE  \E k \in DOMAIN waitList : waitList'[k].valid /\ waitList'[k].msg = o
        BY <2>3, <3>3 DEF AcceptedKept
      <4>1. PICK k \in DOMAIN waitList : waitList[k].valid /\ waitList[k].msg = o
        BY DEF KeptInv, AcceptedKept
      <4>2. waitList[k].id # p.id
        BY <3>4, <4>1
      <4> QED
        BY <3>3, <4>1, <4>2
    <3>7. IdsUnique'
      BY <2>3, IdsFrame
    <3> QED
      BY <2>4, <2>5, <3>5, <3>6, <3>7 DEF KeptInv
  <2> QED
    BY <2>6, <2>7
<1> QED
  BY <1>1, <1>2 DEF Cycle

LEMMA ProcKept ==
  ASSUME TypeInv, KeptInv, PubInfoProc
  PROVE  KeptInv'
<1>a. waitList \in Seq(PubInfo) /\ Len(waitList) \in Nat /\ DOMAIN waitList = 1 .. Len(waitList)
      /\ node \in 1 .. RepubMax + 1
  BY LenProperties DEF TypeInv, MqttTypeOK
<1>1. CASE ProcRemove
  <2>1. UNCHANGED <<packet_id, pub, net, broker>> /\ node \in 1 .. Len(waitList) /\ ~waitList[node].valid
    BY <1>1, <1>a, MqttAssumption DEF ProcRemove
  <2>2. /\ \A k \in DOMAIN waitList' : \E j \in DOMAIN waitList : waitList'[k] = waitList[j]
        /\ \A j \in DOMAIN waitList \ {node} : \E k \in DOMAIN waitList' : waitList'[k] = waitList[j]
    BY <1>1, <1>a, <2>1, RemoveAtElements DEF ProcRemove
  <2>3. OutCarries' /\ InCarries' /\ IdsUnique'
    BY <2>1, OutFrame, InFrame, IdsFrame
  <2>4. NodesCarry'
    BY <2>1, <2>2 DEF KeptInv, NodesCarry
  <2>5. AcceptedKept'
    BY <2>1, <2>2 DEF KeptInv, AcceptedKept
  <2> QED
    BY <2>3, <2>4, <2>5 DEF KeptInv
<1>2. CASE ProcSkip \/ ProcEnd
  <2>1. UNCHANGED <<packet_id, waitList, pub, net, broker>>
    BY <1>2 DEF ProcSkip, ProcEnd
  <2> QED
    BY <2>1, OutFrame, InFrame, KeptFrame
<1>3. CASE Republish
  <2> DEFINE w == waitList[node]
             q == Publish(w.msg, w.id)
  <2>1. /\ UNCHANGED <<packet_id, pub, broker>> /\ node \in DOMAIN waitList
        /\ SendOk(q) \/ SendFails
        /\ waitList' = [waitList EXCEPT ![node].due = FALSE]
    BY <1>3, <1>a, MqttAssumption DEF Republish
  <2>2. /\ DOMAIN waitList' = DOMAIN waitList
        /\ \A j \in DOMAIN waitList : /\ waitList'[j].msg = waitList[j].msg
                                      /\ waitList'[j].id = waitList[j].id
                                      /\ waitList'[j].valid = waitList[j].valid
    BY <1>a, <2>1, NodeDue
  <2>3. w.msg \in Msgs /\ w.id \in Ids /\ w.id = pub[w.msg][2]
    BY <2>1, NodeTypes DEF KeptInv, NodesCarry
  <2> HIDE DEF w
  <2>4. q \in Requests /\ q.id = w.id /\ q.msg = w.msg
    BY <2>3 DEF Publish, Requests, Ids
  <2>5. OutCarries' /\ InCarries'
    <3>1. CASE SendOk(q)
      <4> HIDE DEF q
      <4>1. /\ net'.in = net.in
            /\ \A k \in DOMAIN net'.out : net'.out[k] = q \/ (k \in DOMAIN net.out /\ net'.out[k] = net.out[k])
        BY <2>4, <3>1, SendOkWire DEF TypeInv
      <4>2. OutCarries'
        <5>1. \A k \in DOMAIN net'.out : net'.out[k].type = "PUBLISH" =>
                 /\ net'.out[k].id = pub[net'.out[k].msg][2]
                 /\ net'.out[k].msg \in Qos0 \/ net'.out[k].id # 0
          BY <2>3, <2>4, <4>1 DEF KeptInv, OutCarries, Ids
        <5> QED
          BY <2>1, <5>1 DEF OutCarries
      <4>3. InCarries'
        BY <2>1, <4>1, InFrame
      <4> QED
        BY <4>2, <4>3
    <3>2. CASE SendFails
      BY <2>1, <3>2, OutFrame, InFrame DEF SendFails
    <3> QED
      BY <2>1, <3>1, <3>2
  <2> QED
    BY <2>1, <2>2, <2>5, NodesFrame
<1> QED
  BY <1>1, <1>2, <1>3 DEF PubInfoProc

LEMMA OutsideKept ==
  ASSUME TypeInv, KeptInv, (\E k \in 1 .. RepubMax : TimeOut(k)) \/ BrokerStep \/ NetFails
  PROVE  KeptInv'
<1>1. ASSUME NEW k \in 1 .. RepubMax, TimeOut(k) PROVE KeptInv'
  <2>1. UNCHANGED <<packet_id, pub, net, broker>>
    BY <1>1 DEF TimeOut
  <2>2. /\ DOMAIN waitList' = DOMAIN waitList
        /\ \A j \in DOMAIN waitList : /\ waitList'[j].msg = waitList[j].msg
                                      /\ waitList'[j].id = waitList[j].id
                                      /\ waitList'[j].valid = waitList[j].valid
    BY <1>1, NodeDue, LenProperties DEF TimeOut, TypeInv, MqttTypeOK
  <2> QED
    BY <2>1, <2>2, OutFrame, InFrame, NodesFrame
<1>2. CASE BrokerStep
  <2> DEFINE p == Head(net.out)
  <2>1. net.out \in Seq(Requests) /\ net.out # <<>> /\ net.in \in Seq(Answers)
    BY <1>2 DEF BrokerStep, TypeInv, Wire
  <2>2. /\ p \in Requests /\ 1 \in DOMAIN net.out /\ p = net.out[1]
        /\ \A k \in DOMAIN Tail(net.out) : k + 1 \in DOMAIN net.out /\ Tail(net.out)[k] = net.out[k + 1]
    BY <2>1, TailElements
  <2>3. /\ UNCHANGED <<packet_id, waitList, pub>> /\ net'.out = Tail(net.out)
        /\ broker' = IF p.type = "PUBLISH" THEN broker \cup {p.msg} ELSE broker
        /\ \/ net'.in = net.in
           \/ net'.in = Append(net.in, PingResp)
           \/ p.type = "PUBLISH" /\ p.id # 0 /\ net'.in = Append(net.in, Puback(p.id))
    BY <1>2 DEF BrokerStep, TypeInv, Wire
  <2>4. OutCarries'
    <3>1. \A k \in DOMAIN net'.out : \E j \in DOMAIN net.out : net'.out[k] = net.out[j]
      BY <2>2, <2>3
    <3> QED
      BY <2>3, <3>1, OutFrame
  <2>5. InCarries'
    <3>1. CASE net'.in = net.in
      BY <2>3, <3>1, InFrame
    <3>2. CASE net'.in = Append(net.in, PingResp)
      <4>1. PingResp \in Answers /\ PingResp.type # "PUBACK"
        BY DEF PingResp, Answers
      <4>2. /\ DOMAIN Append(net.in, PingResp) = 1 .. Len(net.in) + 1 /\ DOMAIN net.in = 1 .. Len(net.in)
            /\ Len(net.in) \in Nat
            /\ \A k \in 1 .. Len(net.in) : Append(net.in, PingResp)[k] = net.in[k]
            /\ Append(net.in, PingResp)[Len(net.in) + 1] = PingResp
        BY <2>1, <4>1, AppendElements
      <4>3. \A k \in DOMAIN net'.in : net'.in[k] = PingResp \/ \E j \in DOMAIN net.in : net'.in[k] = net.in[j]
        BY <3>2, <4>2
      <4> QED
        BY <2>3, <4>1, <4>3, InFrame
    <3>3. CASE p.type = "PUBLISH" /\ p.id # 0 /\ net'.in = Append(net.in, Puback(p.id))
      <4> DEFINE a == Puback(p.id)
      <4>1. a \in Answers /\ a.id = p.id
        BY <2>2, <3>3 DEF Requests, PingReq, Puback, Answers, Ids
      <4>2. p.msg \in broker' /\ pub[p.msg][2] = p.id
        BY <2>2, <2>3, <3>3 DEF KeptInv, OutCarries
      <4> HIDE DEF a, p
      <4>3. /\ DOMAIN Append(net.in, a) = 1 .. Len(net.in) + 1 /\ DOMAIN net.in = 1 .. Len(net.in)
            /\ Len(net.in) \in Nat
            /\ \A k \in 1 .. Len(net.in) : Append(net.in, a)[k] = net.in[k]
            /\ Append(net.in, a)[Len(net.in) + 1] = a
        BY <2>1, <4>1, AppendElements
      <4>4. \A k \in DOMAIN net'.in : net'.in[k] = a \/ \E j \in DOMAIN net.in : net'.in[k] = net.in[j]
        BY <3>3, <4>3 DEF a
      <4>5. broker \subseteq broker'
        BY <2>3
      <4> QED
        BY <2>3, <4>1, <4>2, <4>4, <4>5 DEF KeptInv, InCarries
    <3> QED
      BY <2>3, <3>1, <3>2, <3>3
  <2> QED
    BY <2>3, <2>4, <2>5, KeptFrame
<1>3. CASE NetFails
  <2>1. UNCHANGED <<packet_id, waitList, pub, broker>> /\ net'.out = <<>> /\ net'.in = <<>>
    BY <1>3 DEF NetFails, Closed
  <2> QED
    BY <2>1, WireReset
<1> QED
  BY <1>1, <1>2, <1>3

LEMMA KeptStep ==
  ASSUME MsgNum <= PacketIdMax, TypeInv, KeptInv, [MqttNext]_vars
  PROVE  KeptInv'
<1>1. CASE UNCHANGED vars
  BY <1>1, OutFrame, InFrame, KeptFrame DEF vars
<1>2. ASSUME NEW m \in Msgs, Publishing(m) PROVE KeptInv'
  BY <1>2, CheckStateKept, PublishKept DEF Publishing
<1> QED
  BY <1>1, <1>2, KeepaliveKept, CycleKept, ProcKept, OutsideKept DEF MqttNext, Yielding

\* Until the packet ids come round, a QoS 1 message that wrapper_mqtt_publish
\* has accepted is in the list, unmasked, or has reached the broker: through
\* any number of lost connections, repetitions and late acknowledgements.
\* With more messages than ids iotx_mc_get_next_packetid gives the id of a
\* node that still waits to another message, and one PUBACK masks both.
THEOREM AcceptedAreKept ==
  ASSUME MsgNum <= PacketIdMax
  PROVE  MqttSpec => []AcceptedKept
<1>1. KeptInv => AcceptedKept
  BY DEF KeptInv
<1>2. TypeInv /\ KeptInv /\ [MqttNext]_vars => KeptInv'
  BY KeptStep
<1> QED
  BY <1>1, <1>2, TypeInit, TypeStep, KeptInit, PTL DEF MqttSpec
=============================================================================
