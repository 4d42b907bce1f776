SPECIFICATION FairSpec
CONSTANTS
  MsgNum = 4
  Publisher <- MCPublisher
  Qos0 = {2}
  RepubMax = 2
  PacketIdMax = 65535
  LastId = 65534
  ProbeMax = 2
  MaxDrops = 1
  MaxEarly = 1
INVARIANTS MqttTypeOK AcceptedKept ConnectedOnMqtt EventsPaired
PROPERTIES ConnectionRestored Acknowledged
