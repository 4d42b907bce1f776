----------------------------- MODULE MqttClient -----------------------------
(***************************************************************************)
(* The MQTT client of components/linkkit/mqtt/iotx_mqtt_client.c: threads  *)
(* that publish, the thread that yields (keep-alive, reconnection, reading *)
(* and repeating what has not been acknowledged), and a network that dies. *)
(*                                                                         *)
(* lock_yield makes all callers of wrapper_mqtt_yield one process.  What a *)
(* thread does under lock_list_pub and lock_write_buf is one step; the     *)
(* test of client_state before it and the change of client_state after a   *)
(* failed send are not under these locks.                                  *)
(***************************************************************************)
EXTENDS Naturals, Sequences, SequencesExt

CONSTANTS
    MsgNum,        \* how many messages the application publishes
    Publisher(_),  \* the thread that publishes a message
    Qos0,          \* those published with QoS 0
    RepubMax,      \* IOTX_MC_REPUB_NUM_MAX
    PacketIdMax,   \* IOTX_MC_PACKET_ID_MAX
    LastId,        \* the id taken last before the model begins
    ProbeMax,      \* IOTX_MC_KEEPALIVE_PROBE_MAX
    MaxDrops,      \* bound: how often the network fails
    MaxEarly       \* bound: how often a republish timer beats an answer under way

ASSUME MqttAssumption ==
    /\ MsgNum \in Nat /\ Qos0 \subseteq 1 .. MsgNum
    /\ RepubMax \in Nat \ {0} /\ PacketIdMax \in Nat \ {0} /\ LastId \in 0 .. PacketIdMax
    /\ ProbeMax \in Nat
    /\ MaxDrops \in Nat /\ MaxEarly \in Nat

Msgs == 1 .. MsgNum

VARIABLES
    client_state, \* CONNECTED, DISCONNECTED or RECONNECTING
    packet_id,
    probes,       \* keepalive_probes
    waitList,     \* list_pub_wait_ack
    pub,          \* per message <<where its publisher is, its packet id>>
    yield,        \* where the yielding thread is
    node,         \* MQTTPubInfoProc: position in waitList
    net,          \* the connection and what is under way in it
    broker,       \* the messages that have reached the broker
    event,        \* the last connection event reported to the application
    drops, early  \* counters for the bounds

vars == <<client_state, packet_id, probes, waitList, pub, yield, node, net, broker, event, drops, early>>

Publish(m, id) == [type |-> "PUBLISH", msg |-> m, id |-> id]
Puback(id)     == [type |-> "PUBACK", id |-> id]
PingReq        == [type |-> "PINGREQ"]
PingResp       == [type |-> "PINGRESP"]

(* The socket: closed by the client, a TCP connection before CONNECT, up,  *)
(* dead (the peer is gone and nobody has noticed), or reset.               *)
Closed   == [conn |-> "closed", out |-> <<>>, in |-> <<>>]
OpenTcp  == [Closed EXCEPT !.conn = "tcp"]
OpenMqtt == [Closed EXCEPT !.conn = "up"]

PubInfo == [id : 1 .. PacketIdMax, msg : Msgs, valid : BOOLEAN, due : BOOLEAN]

PubState == {"new", "checked", "failed", "accepted", "refused"} \X (0 .. PacketIdMax)

MqttTypeOK ==
    /\ client_state \in {"CONNECTED", "DISCONNECTED", "RECONNECTING"}
    /\ packet_id \in 0 .. PacketIdMax /\ probes \in 0 .. ProbeMax + 1
    /\ waitList \in Seq(PubInfo) /\ Len(waitList) <= RepubMax
    /\ pub \in [Msgs -> PubState]
    /\ yield \in {"keepalive", "react", "connect", "again", "cycle", "proc"}
    /\ node \in 1 .. RepubMax + 1
    /\ net.conn \in {"closed", "tcp", "up", "dead", "reset"}
    /\ broker \subseteq Msgs /\ event \in {"none", "DISCONNECT", "RECONNECT"}
    /\ drops \in 0 .. MaxDrops /\ early \in 0 .. MaxEarly

MqttInit ==
    /\ client_state = "CONNECTED" /\ probes = 0 /\ waitList = <<>>
    /\ packet_id = LastId
    /\ pub = [m \in Msgs |-> <<"new", 0>>]
    /\ yield = "keepalive" /\ node = 1
    /\ net = OpenMqtt /\ broker = {} /\ event = "none"
    /\ drops = 0 /\ early = 0

-----------------------------------------------------------------------------
(* iotx_mc_send_packet: what is written to a dead connection is lost, or   *)
(* the write times out.                                                    *)
SendOk(p) ==
    \/ net.conn \in {"up", "tcp"} /\ net' = [net EXCEPT !.out = Append(@, p)]
    \/ net.conn = "dead" /\ UNCHANGED net

SendFails == net.conn \in {"dead", "reset", "closed"} /\ UNCHANGED net

NextPacketIdUnwrapped == packet_id + 1   \* seeded fault: no wrap

(* iotx_mc_get_next_packetid *)
NextPacketId == IF packet_id = PacketIdMax THEN 1 ELSE packet_id + 1

(* wrapper_mqtt_publish up to the locks: the state is tested, and an id    *)
(* taken.                                                                  *)
CheckState(m) ==
    /\ pub[m][1] = "new"
    /\ \A n \in 1 .. m - 1 : Publisher(n) = Publisher(m) => pub[n][1] \in {"accepted", "refused"}
    /\ \/ /\ client_state # "CONNECTED"
          /\ pub' = [pub EXCEPT ![m] = <<"refused", 0>>] /\ UNCHANGED packet_id
       \/ /\ client_state = "CONNECTED" /\ m \in Qos0
          /\ pub' = [pub EXCEPT ![m] = <<"checked", 0>>] /\ UNCHANGED packet_id
       \/ /\ client_state = "CONNECTED" /\ m \notin Qos0
          /\ packet_id' = NextPacketId
          /\ pub' = [pub EXCEPT ![m] = <<"checked", NextPacketId>>]
    /\ UNCHANGED <<client_state, probes, waitList, yield, node, net, broker, event, drops, early>>

(* MQTTPublish: the message enters the list and is sent; when the send     *)
(* fails it leaves the list again.                                         *)
PublishSent(m) ==
    LET id == pub[m][2]
    IN  /\ pub[m][1] = "checked" /\ yield # "proc"
        /\ m \in Qos0 \/ Len(waitList) < RepubMax
        /\ SendOk(Publish(m, id))
        /\ waitList' = IF m \in Qos0 THEN waitList
                       ELSE Append(waitList, [id |-> id, msg |-> m, valid |-> TRUE, due |-> FALSE])
        /\ pub' = [pub EXCEPT ![m] = <<"accepted", id>>]
        /\ UNCHANGED <<client_state, packet_id, probes, yield, node, broker, event, drops, early>>

PublishFails(m) ==
    /\ pub[m][1] = "checked" /\ yield # "proc"
    /\ \/ /\ m \notin Qos0 /\ Len(waitList) = RepubMax
          /\ pub' = [pub EXCEPT ![m][1] = "refused"] /\ UNCHANGED net
       \/ /\ m \in Qos0 \/ Len(waitList) < RepubMax
          /\ SendFails
          /\ pub' = [pub EXCEPT ![m][1] = "failed"]
    /\ UNCHANGED <<client_state, packet_id, probes, waitList, yield, node, broker, event, drops, early>>

(* After a failed send wrapper_mqtt_publish declares the client            *)
(* disconnected, whatever has happened to the connection since.            *)
PublishOffline(m) ==
    /\ pub[m][1] = "failed"
    /\ client_state' = "DISCONNECTED"
    /\ pub' = [pub EXCEPT ![m][1] = "refused"]
    /\ UNCHANGED <<packet_id, probes, waitList, yield, node, net, broker, event, drops, early>>

-----------------------------------------------------------------------------
(* iotx_mc_keepalive_sub.  The ping timer is longer than a round trip: it  *)
(* does not expire while something is under way in a live connection.      *)
PingDue == net.out = <<>> /\ net.in = <<>>

KeepalivePingUncounted ==      \* seeded fault: keepalive_probes is not counted
    /\ yield = "keepalive" /\ client_state = "CONNECTED" /\ PingDue
    /\ \/ SendOk(PingReq) /\ UNCHANGED <<probes, client_state>>
       \/ SendFails /\ client_state' = "DISCONNECTED" /\ UNCHANGED probes
    /\ yield' = "react"
    /\ UNCHANGED <<packet_id, waitList, pub, node, broker, event, drops, early>>

KeepalivePing ==
    /\ yield = "keepalive" /\ client_state = "CONNECTED" /\ PingDue
    /\ \/ SendOk(PingReq) /\ probes' = probes + 1 /\ UNCHANGED client_state
       \/ SendFails /\ client_state' = "DISCONNECTED" /\ UNCHANGED probes
    /\ yield' = "react"
    /\ UNCHANGED <<packet_id, waitList, pub, node, broker, event, drops, early>>

KeepaliveQuiet ==
    /\ yield = "keepalive" /\ yield' = "react"
    /\ UNCHANGED <<client_state, packet_id, probes, waitList, pub, node, net, broker, event, drops, early>>

ReactSilently ==               \* seeded fault: the application is not told
    /\ yield = "react" /\ client_state = "DISCONNECTED"
    /\ net' = Closed
    /\ client_state' = "RECONNECTING"
    /\ yield' = "cycle"
    /\ UNCHANGED <<packet_id, probes, waitList, pub, node, broker, event, drops, early>>

(* The rest of iotx_mc_keepalive. *)
ReactDisconnected ==
    /\ yield = "react" /\ client_state = "DISCONNECTED"
    /\ event' = "DISCONNECT"
    /\ net' = Closed
    /\ client_state' = "RECONNECTING"
    /\ yield' = "cycle"
    /\ UNCHANGED <<packet_id, probes, waitList, pub, node, broker, drops, early>>

(* iotx_mc_handle_reconnect: when its timer has expired the TCP connection *)
(* is opened, or CONNECT is tried without one.                             *)
ReconnectWaits ==
    /\ yield = "react" /\ client_state = "RECONNECTING"
    /\ yield' = "cycle"
    /\ UNCHANGED <<client_state, packet_id, probes, waitList, pub, node, net, broker, event, drops, early>>

ReconnectStarts ==
    /\ yield = "react" /\ client_state = "RECONNECTING"
    /\ yield' = "connect" /\ net' \in {OpenTcp, Closed}
    /\ UNCHANGED <<client_state, packet_id, probes, waitList, pub, node, broker, event, drops, early>>

ReactConnected ==
    /\ yield = "react" /\ client_state = "CONNECTED"
    /\ yield' = "cycle"
    /\ UNCHANGED <<client_state, packet_id, probes, waitList, pub, node, net, broker, event, drops, early>>

(* _mqtt_connect.  The broker takes CONNECT only as the first packet: a    *)
(* publisher that tested client_state before the connection was lost may   *)
(* have written to the new one already.                                    *)
ConnectDone ==
    /\ yield = "connect" /\ net = OpenTcp
    /\ net' = OpenMqtt /\ probes' = 0 /\ client_state' = "CONNECTED"
    /\ yield' = "again"
    /\ UNCHANGED <<packet_id, waitList, pub, node, broker, event, drops, early>>

ConnectIgnored ==              \* seeded fault: the result of CONNECT is ignored
    /\ yield = "connect"
    /\ net' = Closed /\ yield' = "again"
    /\ UNCHANGED <<client_state, packet_id, probes, waitList, pub, node, broker, event, drops, early>>

(* No CONNACK: another try on a new connection, or the end of the tries    *)
(* with the last connection closed or left open.                           *)
ConnectFails ==
    /\ yield = "connect"
    /\ \/ net.conn \in {"tcp", "dead"} /\ net' = OpenTcp /\ yield' \in {"connect", "cycle"}
       \/ net' = Closed /\ yield' = "cycle"
    /\ UNCHANGED <<client_state, packet_id, probes, waitList, pub, node, broker, event, drops, early>>

(* iotx_mc_handle_reconnect sets the state once more.                      *)
Reconnected ==
    /\ yield = "again"
    /\ client_state' = "CONNECTED"
    /\ event' = "RECONNECT"
    /\ yield' = "cycle"
    /\ UNCHANGED <<packet_id, probes, waitList, pub, node, net, broker, drops, early>>

-----------------------------------------------------------------------------
(* _mqtt_cycle and iotx_mc_cycle.  After a round the model is at the next  *)
(* wrapper_mqtt_yield: another round within the same one reads and repeats *)
(* as the next one does, and does nothing while the client is offline.     *)
CycleOffline ==
    /\ yield = "cycle" /\ client_state # "CONNECTED"
    /\ yield' = "keepalive"
    /\ UNCHANGED <<client_state, packet_id, probes, waitList, pub, node, net, broker, event, drops, early>>

CycleNoAnswer ==
    /\ yield = "cycle" /\ client_state = "CONNECTED" /\ probes > ProbeMax
    /\ client_state' = "DISCONNECTED" /\ probes' = 0
    /\ yield' = "keepalive"
    /\ UNCHANGED <<packet_id, waitList, pub, node, net, broker, event, drops, early>>

Cycling == yield = "cycle" /\ client_state = "CONNECTED" /\ probes <= ProbeMax

ReadError ==
    /\ Cycling /\ net.conn \in {"reset", "closed"}
    /\ client_state' = "DISCONNECTED"
    /\ yield' = "keepalive"
    /\ UNCHANGED <<packet_id, probes, waitList, pub, node, net, broker, event, drops, early>>

ReadNothing ==
    /\ Cycling /\ net.conn \notin {"reset", "closed"} /\ net.in = <<>>
    /\ yield' = "proc" /\ node' = 1
    /\ UNCHANGED <<client_state, packet_id, probes, waitList, pub, net, broker, event, drops, early>>

MaskUpTo(id) ==                \* seeded fault: an acknowledgement is cumulative
    [k \in DOMAIN waitList |-> [waitList[k] EXCEPT !.valid = @ /\ waitList[k].id > id]]

(* iotx_mc_mask_pubInfo_from *)
MaskPubInfo(id) ==
    [k \in DOMAIN waitList |-> [waitList[k] EXCEPT !.valid = @ /\ waitList[k].id # id]]

ReadPacket ==
    /\ Cycling /\ net.in # <<>>
    /\ LET p == Head(net.in)
       IN  waitList' = IF p.type = "PUBACK" THEN MaskPubInfo(p.id) ELSE waitList
    /\ net' = [net EXCEPT !.in = Tail(@)] /\ probes' = 0
    /\ yield' = "proc" /\ node' = 1
    /\ UNCHANGED <<client_state, packet_id, pub, broker, event, drops, early>>

(* MQTTPubInfoProc, one node of the list at a time.                        *)
ProcRemove ==
    /\ yield = "proc" /\ node <= Len(waitList) /\ ~waitList[node].valid
    /\ waitList' = RemoveAt(waitList, node)
    /\ UNCHANGED <<client_state, packet_id, probes, pub, yield, node, net, broker, event, drops, early>>

ProcSkip ==
    /\ yield = "proc" /\ node <= Len(waitList) /\ waitList[node].valid
    /\ client_state # "CONNECTED" \/ ~waitList[node].due
    /\ node' = node + 1
    /\ UNCHANGED <<client_state, packet_id, probes, waitList, pub, yield, net, broker, event, drops, early>>

RepublishForgets ==            \* seeded fault: only the timer is restarted
    /\ yield = "proc" /\ node <= Len(waitList) /\ waitList[node].valid
    /\ client_state = "CONNECTED" /\ waitList[node].due
    /\ waitList' = [waitList EXCEPT ![node].due = FALSE]
    /\ node' = node + 1
    /\ UNCHANGED <<client_state, packet_id, probes, pub, yield, net, broker, event, drops, early>>

Republish ==
    /\ yield = "proc" /\ node <= Len(waitList) /\ waitList[node].valid
    /\ client_state = "CONNECTED" /\ waitList[node].due
    /\ waitList' = [waitList EXCEPT ![node].due = FALSE]
    /\ \/ /\ SendOk(Publish(waitList[node].msg, waitList[node].id))
          /\ node' = node + 1 /\ UNCHANGED <<client_state, yield>>
       \/ /\ SendFails
          /\ client_state' = "DISCONNECTED" /\ yield' = "keepalive" /\ node' = 1
    /\ UNCHANGED <<packet_id, probes, pub, broker, event, drops, early>>

ProcEnd ==
    /\ yield = "proc" /\ node > Len(waitList)
    /\ yield' = "keepalive" /\ node' = 1
    /\ UNCHANGED <<client_state, packet_id, probes, waitList, pub, net, broker, event, drops, early>>

-----------------------------------------------------------------------------
(* Outside the client *)

InFlight(id) ==
    \/ \E k \in DOMAIN net.out : net.out[k].type = "PUBLISH" /\ net.out[k].id = id
    \/ Contains(net.in, Puback(id))

(* The republish timer of a node, twice the request time-out.              *)
TimeOut(k) ==
    /\ k \in DOMAIN waitList /\ waitList[k].valid /\ ~waitList[k].due
    /\ \/ ~InFlight(waitList[k].id) /\ UNCHANGED early
       \/ InFlight(waitList[k].id) /\ early < MaxEarly /\ early' = early + 1
    /\ waitList' = [waitList EXCEPT ![k].due = TRUE]
    /\ UNCHANGED <<client_state, packet_id, probes, pub, yield, node, net, broker, event, drops>>

BrokerStep ==
    /\ net.conn = "up" /\ net.out # <<>>
    /\ LET p == Head(net.out)
       IN  /\ net' = [net EXCEPT !.out = Tail(@),
                                 !.in = CASE p.type = "PINGREQ" -> Append(@, PingResp)
                                          [] p.type = "PUBLISH" /\ p.id # 0 -> Append(@, Puback(p.id))
                                          [] OTHER -> @]
           /\ broker' = IF p.type = "PUBLISH" THEN broker \cup {p.msg} ELSE broker
    /\ UNCHANGED <<client_state, packet_id, probes, waitList, pub, yield, node, event, drops, early>>

NetFails ==
    /\ net.conn \in {"up", "tcp"} /\ drops < MaxDrops
    /\ drops' = drops + 1
    /\ \E how \in {"dead", "reset"} : net' = [Closed EXCEPT !.conn = how]
    /\ UNCHANGED <<client_state, packet_id, probes, waitList, pub, yield, node, broker, event, early>>

-----------------------------------------------------------------------------
Keepalive == KeepalivePing \/ KeepaliveQuiet \/ ReactDisconnected \/ ReconnectWaits \/ ReconnectStarts \/ ReactConnected
Connecting == ConnectDone \/ ConnectFails \/ Reconnected
Cycle == CycleOffline \/ CycleNoAnswer \/ ReadError \/ ReadNothing \/ ReadPacket
PubInfoProc == ProcRemove \/ ProcSkip \/ Republish \/ ProcEnd
Yielding == Keepalive \/ Connecting \/ Cycle \/ PubInfoProc
Publishing(m) == CheckState(m) \/ PublishSent(m) \/ PublishFails(m) \/ PublishOffline(m)

MqttNext ==
    \/ Yielding \/ (\E m \in Msgs : Publishing(m))
    \/ (\E k \in 1 .. RepubMax : TimeOut(k)) \/ BrokerStep \/ NetFails

MqttSpec == MqttInit /\ [][MqttNext]_vars

(* The application keeps calling yield, timers expire, the broker answers  *)
(* on a live connection, and of infinitely many attempts to connect one    *)
(* succeeds.                                                               *)
MqttFair ==
    /\ WF_vars(Yielding) /\ SF_vars(KeepalivePing)
    /\ SF_vars(ReconnectStarts /\ net' = OpenTcp)
    /\ SF_vars(ConnectDone)
    /\ \A k \in 1 .. RepubMax : WF_vars(TimeOut(k))
    /\ WF_vars(BrokerStep)

FairSpec == MqttSpec /\ MqttFair

-----------------------------------------------------------------------------
(* A QoS 1 message that wrapper_mqtt_publish has accepted stays in the     *)
(* list until the broker has it, through reconnections, early time-outs    *)
(* and the wrap of the packet ids.                                         *)
AcceptedKept ==
    \A m \in Msgs \ Qos0 :
        pub[m][1] = "accepted" =>
            m \in broker \/ \E k \in DOMAIN waitList : waitList[k].valid /\ waitList[k].msg = m

(* The application is told of a reconnection only after it was told that   *)
(* the connection was lost, and once for each time.                        *)
EventsPaired == yield \in {"connect", "again"} => event = "DISCONNECT"

(* The client does not think it is connected on a socket it has closed or  *)
(* on which CONNECT has not been answered, although publishers change the  *)
(* state late.                                                             *)
ConnectedOnMqtt == client_state = "CONNECTED" => net.conn \notin {"closed", "tcp"}

(* A lost connection, noticed or not, is replaced.                         *)
ConnectionRestored == (net.conn # "up") ~> (net.conn = "up" /\ client_state = "CONNECTED")

(* An accepted QoS 1 message reaches the broker, and then leaves the list  *)
(* so that others find room.                                               *)
Acknowledged ==
    \A m \in Msgs \ Qos0 :
        (pub[m][1] = "accepted") ~>
            (m \in broker /\ \A k \in DOMAIN waitList : waitList[k].msg # m)
=============================================================================
