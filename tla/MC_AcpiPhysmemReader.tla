------------------------ MODULE MC_AcpiPhysmemReader ------------------------
(***************************************************************************)
(* Model values for AcpiPhysmemReader.  A 16-byte address space of 4-byte *)
(* pages has requests inside a page, across one boundary and across two,  *)
(* requests ending on the last byte of a page and on the first, and       *)
(* requests that wrap past the top.  Three mappings let the cache hold    *)
(* overlapping ranges and serve later requests from any of them.         *)
(***************************************************************************)
EXTENDS AcpiPhysmemReader

MC_AddrBits    == 4
MC_PageBits    == 2
MC_MaxLength   == 6
MC_MaxMappings == 3

(* The contract run: two mappings are enough for a reuse next to a fresh *)
(* creation, and keep the per-step refinement check fast.               *)
MC_ContractMappings == 2

=============================================================================
