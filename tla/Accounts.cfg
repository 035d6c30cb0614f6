SPECIFICATION FairSpec
CONSTANTS
  alice = alice
  bob = bob
  r1 = r1
  r2 = r2
  r3 = r3
  NoOne = NoOne
  Requests = {r1, r2, r3}
  Inputs <- MCInputs
  InitialRows <- MCInitialRows
  Password <- MCPassword
  AllowRegistration = TRUE
INVARIANTS
  TypeOK
  OneOwner
  SessionIsOfCaller
  EveryUserCanLogIn
PROPERTIES
  OnlyOwnerChanges
  RequestEnds
