CONSTANTS
  Payload <- MC_Payload
  NumCellsMax <- MC_NumCellsMax
  Pages <- MC_EdgePages
  OtherMax <- MC_OtherMax
  MaxWrites <- MC_MaxWrites
  MaxLen <- MC_EdgeMaxLen
  WordBits <- MC_WordBits
  EdgeLens <- MC_EdgeLens
  Datagram = TRUE
  Mixed = FALSE

SPECIFICATION Spec

INVARIANT ChainConsistent
PROPERTY DatagramRefinement
