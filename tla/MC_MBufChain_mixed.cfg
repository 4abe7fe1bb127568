CONSTANTS
  Payload <- MC_Payload
  NumCellsMax <- MC_NumCellsMax
  Pages <- MC_Pages
  OtherMax <- MC_OtherMax
  MaxWrites <- MC_MixedMaxWrites
  MaxLen <- MC_StreamMaxLen
  WordBits <- MC_WordBits
  EdgeLens <- MC_NoEdgeLens
  Datagram = TRUE
  Mixed = TRUE

SPECIFICATION Spec

INVARIANT TypeOK
INVARIANT ChainConsistent
INVARIANT PagesConserved
