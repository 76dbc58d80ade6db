SPECIFICATION AllSpec
CONSTANTS
 Alphabets <- Parts
 Scripts <- Texts
CONSTRAINT Viable
PROPERTIES
 SameTokens
 SameTrees
CHECK_DEADLOCK FALSE
