CONSTANTS
  Payload <- MC_Payload
  NumCellsMax <- MC_NumCellsMax
  Pages <- MC_Pages
  OtherMax <- MC_OtherMax
  MaxWrites <- MC_MaxWrites
  MaxLen <- MC_StreamMaxLen
  WordBits <- MC_WordBits
  EdgeLens <- MC_NoEdgeLens
  Datagram = FALSE
  Mixed = FALSE

SPECIFICATION Spec

INVARIANT TypeOK
INVARIANT ChainConsistent
INVARIANT PagesConserved
PROPERTY StreamRefinement
