SPECIFICATION Spec
CONSTANTS
  u1 = u1
  u2 = u2
  h1 = h1
  NoRow = NoRow
  NoObject = NoObject
  Uploads <- MCUploads
  Hashes = {h1}
  Length <- MCLength
  Lengths = {2}
  ChunkSizes = {1}
  Faults = {"cancel"}
INVARIANT NotListedMeansHeld
