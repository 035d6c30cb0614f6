SPECIFICATION FairSpec
CONSTANTS
  r1 = r1
  r2 = r2
  Requests = {r1, r2}
  MaxOpenConns = 2
  Refusable = {r1}
  Served <- MCServed
INVARIANTS
  TypeOK
  WaitersHoldNothing
  SomeoneGoesOn
  HandlersEndBeforeSlowPeers
PROPERTIES
  RequestEnds
