SPECIFICATION FairSpec
CONSTANTS
  c1 = c1
  k1 = k1
  k2 = k2
  k3 = k3
  alice = alice
  bob = bob
  NoUser = NoUser
  Nothing = Nothing
  Refusal = Refusal
  Nonce = Nonce
  Clients = {c1}
  Keys = {k1, k2, k3}
  Users = {alice, bob}
  SecurityKeys = {k2}
  InitialOwners <- MCInitialOwners
  AgentKeys <- MCAgentKeys
  MaxKeyOfferings = 2
  ServerLife = 4
  ClientLife = 1
  Delay = 1
  MaxClock = 4
  MaxChanges = 2
INVARIANTS
  TypeOK
  TokenIsOfKeyOwner
  FreshTokenIsAccepted
  NoKeysIsTrue
PROPERTIES
  ExchangeEnds
