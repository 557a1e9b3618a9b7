SPECIFICATION Spec
CONSTANTS
  one = one
  two = two
  clash = clash
  garbled = garbled
  s1 = s1
  s2 = s2
  s3 = s3
  Empty = Empty
  Plain = Plain
  Contents <- MCContents
  Malformed <- MCMalformed
  Invalid <- MCInvalid
  StartContent <- MCStartContent
  Salts <- MCSalts
  SaveAtStart = FALSE
  MaxSaves = 3
  MaxPosts = 0
INVARIANTS
  SavedIsLoaded
CHECK_DEADLOCK FALSE
