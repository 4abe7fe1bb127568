-------------------------- MODULE AcpiPhysmemReader --------------------------
(***************************************************************************)
(* acpi_lite::ZirconPhysmemReader (src/lib/acpi_lite/zircon.cc and        *)
(* include/lib/acpi_lite/zircon.h): PhysToPtr turns a physical range into *)
(* a kernel pointer, reusing a cached mapping that covers the page-rounded *)
(* range or creating a new one and pushing it on the front of mappings_.  *)
(*                                                                         *)
(* Everything after the argument checks runs under lock_, and the checks  *)
(* touch only locals, so each call is one atomic step.  Addresses are     *)
(* uintptr_t values of AddrBits bits, pages are 2^PageBits bytes.  A      *)
(* mapping is a record: its VmMapping (id, the virtual base), the         *)
(* physical address arch_aspace.Query reports for it and its size.        *)
(* vmar is the set of this reader's mappings in the kernel root VMAR.     *)
(***************************************************************************)
EXTENDS Naturals, Sequences, SequencesExt

CONSTANTS
  AddrBits,     \* width of uintptr_t / paddr_t
  PageBits,     \* PAGE_SIZE == 2^PageBits
  MaxLength,    \* largest |length| argument enumerated
  MaxMappings   \* bound on the VmMappings created (ids 1 .. MaxMappings)

ASSUME /\ PageBits \in Nat
       /\ AddrBits \in Nat /\ AddrBits > PageBits
       /\ MaxLength \in Nat
       /\ MaxMappings \in Nat

AddrSpace == 2 ^ AddrBits
PAGE_SIZE == 2 ^ PageBits
Addr == 0 .. AddrSpace - 1

OK           == "OK"
INVALID_ARGS == "INVALID_ARGS"
OUT_OF_RANGE == "OUT_OF_RANGE"
NO_MEMORY    == "NO_MEMORY"
VmError      == "VM_ERROR"   \* any error of Query, Create, CreateVmMapping, MapRange

VARIABLES mappings, vmar, created, ret

vars == <<mappings, vmar, created, ret>>

NoMapping == [id |-> 0, paddr |-> 0, size |-> 0]

(* The last call: its arguments, the status, and for OK the mapping and   *)
(* the offset into it of the returned pointer.                            *)
Result(phys, length, status, map, offset) ==
  [phys |-> phys, length |-> length, status |-> status, map |-> map, offset |-> offset]

-----------------------------------------------------------------------------
(* Range arithmetic, in uintptr_t.                                        *)

(* add_overflow(phys, length - 1, &phys_end).                             *)
AddOverflow(a, b) == a + b >= AddrSpace

ROUNDDOWN_PAGE_SIZE(x) == x - (x % PAGE_SIZE)

ROUNDUP_PAGE_SIZE(x) == ROUNDDOWN_PAGE_SIZE((x + PAGE_SIZE - 1) % AddrSpace)

(* Mutant: phys is used as the base without ROUNDDOWN_PAGE_SIZE.         *)
PageRangeUnaligned(phys, length) ==
  [base |-> phys,
   size |-> (ROUNDUP_PAGE_SIZE(phys + length - 1) - phys) % AddrSpace]

(* Mutant: the size rounds up one page past the last byte's page.       *)
PageRangeOverRound(phys, length) ==
  LET phys_end == phys + length - 1
      base     == ROUNDDOWN_PAGE_SIZE(phys)
  IN  [base |-> base,
       size |-> (ROUNDUP_PAGE_SIZE(phys_end) + PAGE_SIZE - base) % AddrSpace]

(* paddr_base and size: the page-aligned range computed from phys and the *)
(* last byte phys_end.                                                    *)
PageRange(phys, length) ==
  LET phys_end == phys + length - 1
      base     == ROUNDDOWN_PAGE_SIZE(phys)
  IN  [base |-> base, size |-> (ROUNDUP_PAGE_SIZE(phys_end) - base) % AddrSpace]

(* kernel/range_check.h InRange(offset, len, min, max): [offset,          *)
(* offset + len) lies in [min, max), the sums taken in the offset's type. *)
InRange(offset, len, min, max) ==
  /\ offset >= min
  /\ LET o == offset - min
     IN  /\ ~AddOverflow(o, len)
         /\ o + len <= (max - min) % AddrSpace

(* Mutant: the search gives up after the first mapping of the list.       *)
FirstHitHeadOnly(r) ==
  IF mappings # <<>>
       /\ InRange(r.base, r.size, mappings[1].paddr,
                  (mappings[1].paddr + mappings[1].size) % AddrSpace)
    THEN 1 ELSE 0

(* Index of the first mapping in mappings_ whose range holds the page     *)
(* range r, or 0.                                                         *)
FirstHit(r) ==
  SelectInSeq(mappings,
              LAMBDA m : InRange(r.base, r.size, m.paddr, (m.paddr + m.size) % AddrSpace))

(* uintptr_t offset = phys - map_paddr.                                   *)
HitOffset(phys, map_paddr) == (phys - map_paddr) % AddrSpace

-----------------------------------------------------------------------------

Fail(phys, length, status) ==
  /\ ret' = Result(phys, length, status, NoMapping, 0)
  /\ UNCHANGED <<mappings, vmar, created>>

(* The search of mappings_: Query of a visited mapping fails, or the      *)
(* first covering mapping is reused.                                      *)
SearchMappings(phys, length, r) ==
  LET h == FirstHit(r)
      visited == IF h = 0 THEN Len(mappings) ELSE h
  IN  \/ /\ visited > 0
         /\ Fail(phys, length, VmError)
      \/ /\ h # 0
         /\ ret' = Result(phys, length, OK, mappings[h],
                          HitOffset(phys, mappings[h].paddr))
         /\ UNCHANGED <<mappings, vmar, created>>

(* VmObjectPhysical::Create and CreateVmMapping reject a size of 0.       *)
VmMappingOk(size) == size > 0

(* Mutant: a mapping whose MapRange failed is not destroyed.              *)
MapRangeFailedNoDestroy(m) == vmar \cup {m}

(* map_result->mapping->Destroy(): the failed mapping leaves the VMAR.    *)
MapRangeFailed(m) == vmar

(* No covering mapping: allocate a Mapping, create the physical VMO, map  *)
(* it into the root VMAR, commit it with MapRange, push it on the front.  *)
CreateMapping(phys, length, r) ==
  LET m == [id |-> created + 1, paddr |-> r.base, size |-> r.size]
  IN  \/ Fail(phys, length, NO_MEMORY)
      \/ Fail(phys, length, IF VmMappingOk(r.size) THEN VmError ELSE INVALID_ARGS)
      \/ /\ VmMappingOk(r.size)
         /\ created < MaxMappings
         /\ created' = created + 1
         /\ \/ /\ vmar' = MapRangeFailed(m)
               /\ ret' = Result(phys, length, VmError, NoMapping, 0)
               /\ UNCHANGED mappings
            \/ /\ vmar' = vmar \cup {m}
               /\ mappings' = <<m>> \o mappings
               /\ ret' = Result(phys, length, OK, m, phys - r.base)

(* PhysToPtr(phys, length).                                               *)
PhysToPtr(phys, length) ==
  \/ /\ length = 0 \/ phys = 0
     /\ Fail(phys, length, INVALID_ARGS)
  \/ /\ length # 0 /\ phys # 0
     /\ AddOverflow(phys, length - 1)
     /\ Fail(phys, length, OUT_OF_RANGE)
  \/ /\ length # 0 /\ phys # 0
     /\ ~AddOverflow(phys, length - 1)
     /\ LET r == PageRange(phys, length)
        IN  \/ SearchMappings(phys, length, r)
            \/ /\ FirstHit(r) = 0
               /\ CreateMapping(phys, length, r)

Init ==
  /\ mappings = <<>>
  /\ vmar = {}
  /\ created = 0
  /\ ret = Result(0, 0, "None", NoMapping, 0)

Next == \E phys \in Addr, length \in 0 .. MaxLength : PhysToPtr(phys, length)

Spec == Init /\ [][Next]_vars

-----------------------------------------------------------------------------
(* Properties                                                              *)

PageAddr == {a \in Addr : a % PAGE_SIZE = 0}

(* A VmMapping of the physical VMO: page-aligned and not empty.           *)
Mapping == [id : 1 .. MaxMappings, paddr : PageAddr, size : PageAddr \ {0}]

(* Every variable holds what the code can give it: in particular every    *)
(* mapping PhysToPtr creates is page-aligned and non-empty, as            *)
(* ROUNDDOWN_PAGE_SIZE / ROUNDUP_PAGE_SIZE are meant to make it.          *)
TypeOK ==
  /\ mappings \in Seq(Mapping)
  /\ vmar \subseteq Mapping
  /\ created \in 0 .. MaxMappings
  /\ ret \in [phys : Addr, length : 0 .. MaxLength,
              status : {"None", OK, INVALID_ARGS, OUT_OF_RANGE, NO_MEMORY, VmError},
              map : Mapping \cup {NoMapping}, offset : Addr]

(* The reader's VmMappings in the kernel VMAR are exactly those on        *)
(* mappings_, each once: no failure path of PhysToPtr (Query, Create,     *)
(* CreateVmMapping, MapRange) leaves a mapping in the address space that *)
(* the list does not own, and nothing on the list has been destroyed.    *)
CacheMatchesVmar ==
  /\ ToSet(mappings) = vmar
  /\ IsInjective(mappings)

(* The physical pages a mapping covers.                                   *)
Covers(m) == m.paddr .. (m.paddr + m.size - 1)

(* mappings_ only grows, so it must grow only when needed: a mapping is   *)
(* created only when no mapping on the list covers its range, hence no   *)
(* mapping is covered by an older one (later on the list).  A search     *)
(* that misses a covering mapping deeper in the list (the per-mapping     *)
(* Query loop) would leave a redundant kernel mapping forever.            *)
NoShadowedMapping ==
  \A i, j \in DOMAIN mappings :
     i < j => ~(Covers(mappings[i]) \subseteq Covers(mappings[j]))

(* The physical memory readable through the reader's VMAR mappings.      *)
Readable == UNION {Covers(m) : m \in vmar}

AbsReader == INSTANCE PhysMemReader
               WITH readable <- Readable,
                    ret <- [phys |-> ret.phys, length |-> ret.length, status |-> ret.status]

(* PhysToPtr implements the PhysMemReader contract the ACPI parser relies *)
(* on: null and empty requests are refused, add_overflow keeps wrapping   *)
(* requests from being served, no path (MapRange's Destroy included)     *)
(* unmaps memory a returned pointer may point into or leaves memory      *)
(* mapped after a failure, and the rounding of [phys, phys_end] to pages  *)
(* never maps physical memory outside the pages the request touches.     *)
ReaderRefinement == AbsReader!Spec

(* The comments of PhysToPtr: "Get the last byte of the specified range"  *)
(* and "Convert to a page aligned base and size", then reuse or create a  *)
(* mapping "to cover this range".  So the returned pointer can be read    *)
(* for all length bytes: offset + length <= the mapping's size.           *)
PtrCoversRange ==
  ret.status = OK => ret.offset + ret.length <= ret.map.size

=============================================================================
