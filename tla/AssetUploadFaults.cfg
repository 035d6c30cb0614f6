SPECIFICATION Spec
SYMMETRY SlotSymmetry
CONSTANTS
  u1 = u1
  u2 = u2
  h1 = h1
  NoRow = NoRow
  NoObject = NoObject
  Uploads <- MCUploads
  Hashes = {h1}
  Length <- MCLength
  Lengths <- AllLengths
  ChunkSizes = {0, 1, 2}
  Faults = {"cancel", "lostCommit"}
INVARIANTS
  CommittedLengthIsTrue
  ShortCopyHasVerdict
  NoOrphanObject
