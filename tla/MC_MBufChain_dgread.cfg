CONSTANTS
  Payload <- MC_Payload
  NumCellsMax <- MC_NumCellsMax
  Pages <- MC_Pages
  OtherMax <- MC_OtherMax
  MaxWrites <- MC_MaxWrites
  MaxLen <- MC_MaxLen
  WordBits <- MC_WordBits
  EdgeLens <- MC_NoEdgeLens
  Datagram = TRUE
  Mixed = FALSE

SPECIFICATION Spec

PROPERTY DatagramReadDrops
