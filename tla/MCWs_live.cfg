\* One connection, two events, buffers of one. It may stop: the connection done.
SPECIFICATION WsFairSpec
CONSTANTS
  Clients = {c1}
  Workers = {w1}
  SubIds = {id1}
  Scopes <- MCScopes
  Events <- MCEvents
  OptionSets <- MCNoOptions
  SubscribeCap = 1
  UnsubscribeCap = 1
  RemoveCap = 1
  BroadcastCap = 1
  SendCap = 1
  LaggedCap = 1
  NoEvent = NoEvent
  NoClient = NoClient
  Ips <- MCIps
  IpOf <- MCIpOf
  MaxConnsPerIp = 1
PROPERTIES
  HubRespected
  NeverStalls
  ConnectionsEnd
CHECK_DEADLOCK FALSE
