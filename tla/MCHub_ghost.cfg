\* The registration race: select takes a removal before the registration.
SPECIFICATION Spec
CONSTANTS
  Clients = {c1}
  Workers = {w1}
  SubIds = {id1}
  Scopes <- MCScopes
  Events <- MCNoEvents
  OptionSets <- MCOptions
  SubscribeCap = 2
  UnsubscribeCap = 1
  RemoveCap = 1
  BroadcastCap = 2
  SendCap = 1
  LaggedCap = 1
  NoEvent = NoEvent
  NoClient = NoClient
INVARIANTS
  RemoveDeregisters
CHECK_DEADLOCK FALSE
