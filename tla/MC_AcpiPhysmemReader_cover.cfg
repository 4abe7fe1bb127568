CONSTANTS
  AddrBits <- MC_AddrBits
  PageBits <- MC_PageBits
  MaxLength <- MC_MaxLength
  MaxMappings <- MC_MaxMappings

SPECIFICATION Spec

INVARIANT PtrCoversRange
