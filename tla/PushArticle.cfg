SPECIFICATION FairSpec
CONSTANTS
  c1 = c1
  c2 = c2
  alice = alice
  bob = bob
  blog = blog
  home = home
  fa = fa
  fb = fb
  h1 = h1
  h2 = h2
  NoUser = NoUser
  NoRevision = NoRevision
  Clients = {c1, c2}
  Users = {alice, bob}
  Slugs = {blog, home}
  Hashes = {h1, h2}
  Files = {fa, fb}
  UserOf <- MCUserOf
  SlugChoices <- MCSlugChoices
  FilesOf <- MCFilesOf
  Contents <- MCContents
  MaxRevision = 9
  MaxFaults = 1
  MaxEdits = 1
INVARIANTS
  TypeOK
  PublishedIsComplete
  RetriesAreFew
PROPERTIES
  PushSucceeds
