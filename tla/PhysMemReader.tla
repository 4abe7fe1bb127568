---------------------------- MODULE PhysMemReader ----------------------------
(***************************************************************************)
(* What a PhysMemReader promises the ACPI parser that holds it             *)
(* (include/lib/acpi_lite/zircon.h: "Convert physical addresses to        *)
(* virtual addresses by creating new mappings as required").  The parser  *)
(* keeps the pointers it is given for as long as it runs, so the contract  *)
(* is about the physical memory made readable:                            *)
(*   - a request for the null address or no bytes is refused;             *)
(*   - a request that wraps the address space is never served;            *)
(*   - memory once made readable stays readable (no pointer dangles);     *)
(*   - a failed call makes nothing readable;                              *)
(*   - a served call makes readable only memory in the pages the request  *)
(*     touches, so no unrelated physical memory is exposed.               *)
(* Whether all of [phys, phys + length) is readable afterwards is not part *)
(* of this contract: AcpiPhysmemReader's PtrCoversRange shows the code    *)
(* falls short of it.                                                      *)
(***************************************************************************)
EXTENDS Naturals

CONSTANTS AddrBits, PageBits, MaxLength

VARIABLES readable, ret

AddrSpace == 2 ^ AddrBits
PAGE_SIZE == 2 ^ PageBits
Addr == 0 .. AddrSpace - 1

INVALID_ARGS == "INVALID_ARGS"
Errors == {INVALID_ARGS, "OUT_OF_RANGE", "NO_MEMORY", "VM_ERROR"}

(* Every byte of the pages that [phys, phys + length) touches.            *)
TouchedPages(phys, length) ==
  {a \in Addr : a \div PAGE_SIZE \in (phys \div PAGE_SIZE) .. ((phys + length - 1) \div PAGE_SIZE)}

(* The abstract steps fix the reported call first.                       *)
Fail(phys, length) ==
  /\ ret'.phys = phys /\ ret'.length = length
  /\ ret'.status \in IF phys = 0 \/ length = 0 THEN {INVALID_ARGS} ELSE Errors
  /\ UNCHANGED readable

Serve(phys, length) ==
  /\ ret' = [phys |-> phys, length |-> length, status |-> "OK"]
  /\ phys # 0 /\ length # 0
  /\ phys + length <= AddrSpace
  /\ readable \subseteq readable'
  /\ readable' \ readable \subseteq TouchedPages(phys, length)

Init ==
  /\ readable = {}
  /\ ret = [phys |-> 0, length |-> 0, status |-> "None"]

Next == \E phys \in Addr, length \in 0 .. MaxLength : Fail(phys, length) \/ Serve(phys, length)

Spec == Init /\ [][Next]_<<readable, ret>>

=============================================================================
