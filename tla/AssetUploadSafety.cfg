SPECIFICATION FairSpec
CONSTANTS
  u1 = u1
  u2 = u2
  h1 = h1
  NoRow = NoRow
  NoObject = NoObject
  Uploads <- MCUploads
  Hashes = {h1}
  Length <- MCLength
  Lengths <- FewLengths
  ChunkSizes = {1, 2}
  Faults = {"disk", "crash"}
INVARIANTS
  TypeOK
  ServedAssetIsWhole
  OneWriterPerObject
PROPERTIES
  ImplementsAssetStore
  UploadEnds
