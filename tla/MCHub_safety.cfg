\* One client, two racing workers, three events, two option sets, channels of
\* one or two. It may stop: the client gone.
SPECIFICATION Spec
CONSTANTS
  Clients = {c1}
  Workers = {w1, w2}
  SubIds = {id1}
  Scopes <- MCScopes
  Events <- MCEvents
  OptionSets <- MCOptions
  SubscribeCap = 2
  UnsubscribeCap = 1
  RemoveCap = 1
  BroadcastCap = 2
  SendCap = 1
  LaggedCap = 1
  NoEvent = NoEvent
  NoClient = NoClient
SYMMETRY MCSymmetry
INVARIANTS
  ConfigureFollowsRegistration
  DropsAnnounced
  NewestSurvives
  RepeatsBounded
CHECK_DEADLOCK FALSE
