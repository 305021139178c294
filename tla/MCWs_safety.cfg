\* Two connections from one address, a limit of one, two events, buffers of
\* one. It may stop: both done.
SPECIFICATION WsSpec
CONSTANTS
  Clients = {c1, c2}
  Workers = {w1}
  SubIds = {id1}
  Scopes <- MCScopes
  Events <- MCEvents
  OptionSets <- MCOptions
  SubscribeCap = 1
  UnsubscribeCap = 1
  RemoveCap = 1
  BroadcastCap = 1
  SendCap = 1
  LaggedCap = 1
  NoEvent = NoEvent
  NoClient = NoClient
  Ips <- MCIps
  IpOf <- MCIpOf
  MaxConnsPerIp = 1
SYMMETRY MCSymmetry
INVARIANTS
  CountersExact
  NoSendOnClosed
  LimiterExact
  LiveClientsWithinLimit
CHECK_DEADLOCK FALSE
