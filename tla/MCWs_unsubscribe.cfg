\* The unsubscription race: select takes it before the subscription.
SPECIFICATION WsSpec
CONSTANTS
  Clients = {c1}
  Workers = {w1}
  SubIds = {id1}
  Scopes <- MCScopes
  Events <- MCNoEvents
  OptionSets <- MCNoOptions
  SubscribeCap = 2
  UnsubscribeCap = 1
  RemoveCap = 1
  BroadcastCap = 1
  SendCap = 1
  LaggedCap = 1
  NoEvent = NoEvent
  NoClient = NoClient
  Ips <- MCIps
  IpOf <- MCIpOf
  MaxConnsPerIp = 1
INVARIANTS
  UnsubscribeSticks
CHECK_DEADLOCK FALSE
