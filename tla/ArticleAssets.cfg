SPECIFICATION Spec
SYMMETRY RequestSymmetry
CONSTANTS
  r1 = r1
  r2 = r2
  alice = alice
  bob = bob
  blog = blog
  n1 = n1
  n2 = n2
  n3 = n3
  h1 = h1
  h2 = h2
  NoUser = NoUser
  NoRevision = NoRevision
  NotTold = NotTold
  NotLocal = NotLocal
  Clean <- MCClean
  Requests = {r1, r2}
  Users = {alice}
  Slugs = {blog}
  Revisions = {n1, n2}
  Hashes = {h1, h2}
  FileNames = {"a", "b", "dot_a", "up_a"}
  AssetLists <- MCAssetLists
  MaxClock = 2
INVARIANTS
  TypeOK
  MissingListIsComplete
  PageAndAssetsAgree
PROPERTIES
  PageKeepsItsAssets
