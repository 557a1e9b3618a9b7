SPECIFICATION Spec
CONSTANTS
  one = one
  two = two
  clash = clash
  garbled = garbled
  s1 = s1
  s2 = s2
  s3 = s3
  Empty = Empty
  Plain = Plain
  Contents <- MCContents
  Malformed <- MCMalformed
  Invalid <- MCInvalid
  StartContent <- MCStartContent
  Salts <- MCSalts
  SaveAtStart = TRUE
  MaxSaves = 3
  MaxPosts = 1
INVARIANTS
  NoWriteOverlooked
PROPERTIES
  NoReloadForOwnWriteBack
  WatcherSettles
CHECK_DEADLOCK FALSE
