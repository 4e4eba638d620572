\* Three files in chunks of two bytes, read in pieces of at most three.
CONSTANTS
  a = a
  b = b
  c = c
  Name <- MCName
  Byte <- MCByte
  Files <- MCFiles
  WriteMax = 2
  ReadMax = 3
SPECIFICATION FairSpec
PROPERTIES
  OneByOne
  AllArrive
CHECK_DEADLOCK FALSE
