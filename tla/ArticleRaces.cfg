SPECIFICATION Spec
CONSTANTS
  r1 = r1
  r2 = r2
  alice = alice
  bob = bob
  blog = blog
  n1 = n1
  n2 = n2
  n3 = n3
  h1 = h1
  h2 = h2
  NoUser = NoUser
  NoRevision = NoRevision
  NotTold = NotTold
  NotLocal = NotLocal
  Clean <- MCClean
  Requests = {r1, r2}
  Users = {alice, bob}
  Slugs = {blog}
  Revisions = {n1, n2}
  Hashes = {}
  FileNames = {}
  AssetLists = {{}}
  MaxClock = 3
INVARIANTS
  OnlyAuthorStages
  FeedAgreesWithPage
PROPERTIES
  OnlyAuthorPublishes
  RedactionClearsEarlier
  LateDoesNotDisplace
  ImplementsPublication
