# TLA+ models of the Zircon MBufChain and its neighbours

This directory holds TLA+ specifications of the code under `src/`, the TLC
configurations that check them, and `PROJECT.json`. That file lists the
components, runs, mutants, the definition-to-source map, findings and hazards.

## 1. The system

| Part | Source | State | Operations |
|---|---|---|---|
| **MBufChain** | `src/object/mbuf.cc`, `src/object/include/object/mbuf.h` | `buffers_` (list of page-sized MBufs, each with `len_`, `pkt_len_`, data), `read_cursor_off_`, `size_` | `WriteStream`, `WriteDatagram`, `Read`, `Peek` (both through `ReadHelper<T>`), `AllocMBufs`, `FreeMBufs`, `~MBufChain`; read-only `size()`, `is_empty()`, `is_full()`, `max_size()` |
| PMM (page allocator) | not in the repository; used by `AllocMBufs`/`FreeMBufs` | free pages, shared with the whole kernel | `AllocPages` (all or nothing), `FreeList` |
| User copy | not in the repository; `copy_array_{from,to}_user` | the caller's buffer, possibly unmapped part-way | copy n bytes or fault |
| acpi_lite `ZirconPhysmemReader` | `src/lib/acpi_lite/zircon.cc`, `.../zircon.h` | `mappings_`: list of physical ranges mapped into the kernel, under `lock_` | `PhysToPtr(phys, length)`: range checks, page rounding, reuse or creation of a mapping |
| `PhysicalPageBorrowingConfig` | `src/vm/include/vm/physical_page_borrowing_config.h` | three relaxed atomic booleans | setters and getters |
| x86 crashlog | `src/arch/x86/crashlog.cc` | none | format registers into a file |
| ktl platform shim | `src/lib/ktl/include/__configuration/platform.h` | none (preprocessor) | none |

**How the parts interact.** A socket endpoint owns one MBufChain and calls it
while holding the endpoint lock. Each public method therefore runs as one
atomic step. The chain takes whole pages from the PMM, which every other kernel
user also draws on, and gives them back. It copies to and from user memory,
which can fault at any byte. A stream chain is used only with `WriteStream` and
stream reads. A datagram chain is used only with `WriteDatagram` and datagram
reads. The other parts do not interact with the chain.

**Hard behaviours in the chain:**

- **Partial failure.** A stream write can fault after some pages are already
  committed (the fxbug 42109418 comment at mbuf.cc:178). A datagram write must
  roll back every allocated page. A datagram read that faults must still drain
  the rest of the datagram.
- **Allocation failure.** The PMM can be exhausted by other kernel users at any
  point.
- **size_t arithmetic.** `len + size_` in WriteDatagram wraps for a huge `len`.
  It is safe only because of the order of the checks.
- **Read cursor.** The cursor is a local copy written back by a `defer` and reset
  on every pop. Peek must walk the chain with the same offsets as Read, without
  changing it.
- **Page accounting.** Pages move between the chain, a local free list and the
  PMM.

**Properties that make the chain correct:**

- its bookkeeping (`size_`, cursor, packing) agrees with the MBufs;
- datagram framing holds;
- no page is leaked or freed twice;
- a stream chain behaves as a bounded byte FIFO;
- a datagram chain behaves as a bounded queue of whole datagrams, with
  all-or-nothing writes.

## 2. Modules

| Module | Models |
|---|---|
| `MBufCommon` | Status codes, argument sets, the user-copy collaborator (`CopyOk`: a user buffer whose first `valid` bytes are mapped; each copy call copies all its bytes or none), and the `Result` record of a call. |
| `MBufChain` | The chain (details below). |
| `ByteStream` | Abstract spec: what the header (mbuf.h:26-62) promises of a stream chain. It is a FIFO `stream` of at most `Cap` bytes. A write appends up to the room left: OK if n > 0, SHOULD_WAIT if n = 0, or a fault only if the user buffer is shorter than the room. Read and Peek return `min(len, |stream|)` bytes, or fewer with a fault status. |
| `DatagramQueue` | Abstract spec: what the header promises of a datagram chain. It is a queue `msgs` of whole datagrams, each written all-or-nothing with the chain's statuses. A read returns a prefix of the oldest datagram and drops that datagram, except when the read asks for 0 bytes (see findings). |
| `MC_MBufChain` | Gives the constants their model values. |
| `AcpiPhysmemReader` | `ZirconPhysmemReader::PhysToPtr` (details below). |
| `PhysMemReader` | Abstract spec: what the reader promises the ACPI parser, which keeps every pointer it is given. The state is the set `readable` of readable physical bytes. A call either fails and maps nothing (INVALID_ARGS is the only answer to a null or empty request), or is served. A served call is not null, empty or wrapping; it keeps everything readable and adds only bytes of the pages the request touches. It does not promise that the whole range is readable: the code does not do that (see `physmem_cover`). |
| `MC_AcpiPhysmemReader` | A 16-byte address space of 4-byte pages, `length` 0..6, at most 3 mappings (2 for the contract run). |

**`MBufChain` in detail.**

- **State.** `buffers` is `buffers_`: a sequence of records `[data, pkt]`,
  where `len_` = `Len(data)` and `pkt` is `pkt_len_`. `read_cursor_off` and
  `size` are the fields of the same names. `freePages` and `otherPages` are the
  PMM's free pages and the pages other kernel users hold. `wid` numbers the
  write calls, and `ret` records the last call's arguments and results (history
  for the properties). `alive` is false after the destructor.
- **Actions.** Every public method is one action covering the whole method.
  - `WriteStream`: clamp, top up the tail, allocate, fill, free on fault.
  - `WriteDatagram`: the three checks in code order, then allocate, copy and
    splice, or roll back.
  - `Read` and `Peek`: `ReadHelper` with the loop as the RECURSIVE `ReadLoop`,
    the datagram drain as `DrainDatagram`, and the free list returned to the
    PMM. `Consume` and `PeekAdvance` are the non-const and const halves of the
    loop body.
  - `Destroy`: `~MBufChain`.
  - `PmmOtherAlloc` and `PmmOtherFree`: the rest of the kernel.
- **Accessors.** `SizeQuery(datagram)` is `size(datagram)` (mbuf.h:67-75).
  `IsEmpty` is `is_empty()`.
  `is_full` and `max_size` are a comparison and a constant, and no property
  reads them.
- **Page return.** `FreeMBufs(n)` is one `FreeList` of n pages. It is used by
  Read's free list, by `~MBufChain`, by the stream write's faulting fresh
  MBufs and by the datagram write's rollback, which allocates and then frees
  all its pages.
- **Modes.** `Datagram` fixes the chain's mode. With `Mixed = TRUE` the caller
  also makes the other mode's writes, and passes both values of `datagram` to
  Read and Peek (`ReadModes`). mbuf.h:19 forbids this, but the code does not
  check it.
- **Inputs.** The arguments are drawn with `\E` from `Lens`: 0..MaxLen,
  `EdgeLens` (in the edge run, kSizeMax and kSizeMax + 1) and the huge
  `2^WordBits - 1`. The mapped prefix `valid` of the user buffer is
  drawn from `ValidFor(len)`.
- **Data.** Byte i of write call w is `<<w, i>>`.

The refinement mappings are:

- `StreamView`: the flattened data from the read cursor on;
- `Messages(buffers)`: the MBufs grouped from each `pkt_len_ # 0` head.
- `Readable` (in `AcpiPhysmemReader`): the union of the physical ranges of
  the reader's VMAR mappings, for `PhysMemReader`'s `readable`.

**`AcpiPhysmemReader` in detail.**

- **State.** `mappings` is `mappings_`, a sequence with new mappings pushed on
  the front. Each mapping is a record: an id standing for its VmMapping and
  virtual base, the physical address that `Query` reports, and its size. `vmar`
  is the set of the reader's mappings present in the kernel root VMAR.
  `created` counts VmMappings made. `ret` is the last call's arguments, status,
  mapping and pointer offset.
- **Action.** `PhysToPtr(phys, length)` is one action for the whole method,
  because everything after the local argument checks runs under `lock_`. In
  code order:
  - `length == 0 || phys == 0` gives INVALID_ARGS;
  - `add_overflow` gives OUT_OF_RANGE;
  - then the page rounding in `uintptr_t` arithmetic (`PageRange`);
  - then the search (`SearchMappings`): a `Query` error on a visited mapping,
    or reuse of the first mapping for which `InRange` holds;
  - otherwise `CreateMapping`: allocation failure, VMO or VMAR-mapping failure
    (a size of 0 is rejected), MapRange failure with `Destroy`, or success and
    `push_front`.
- **Inputs.** Every `phys` in the address space and every `length` up to
  `MaxLength`.

## 3. Runs

| Run | cfg | Checks | Shows |
|---|---|---|---|
| `stream_chain` (pass) | `MC_MBufChain_stream.cfg` | `TypeOK`, `ChainConsistent`, `PagesConserved`, `StreamRefinement` | A stream chain keeps `size_`, the cursor and packing consistent and leaks no page. It implements `ByteStream` through faults in the tail top-up, in a fresh page or in a read, and through PMM exhaustion. |
| `datagram_chain` (pass) | `MC_MBufChain_datagram.cfg` | `TypeOK`, `ChainConsistent`, `PagesConserved`, `DatagramFraming`, `DatagramRefinement`, `ReadMatchesSize` | Writes are all-or-nothing with the statuses in code order. (With 4 pages a wrapped huge datagram could never be allocated, so the wrap of `len + size_` is the edge run's question.) Framing survives faulting and short reads. The chain implements `DatagramQueue`. `size(true)` always equals what the next large-enough datagram Read returns. 17,135 states in about 50 s. |
| `datagram_edge` (pass) | `MC_MBufChain_edge.cfg` | `ChainConsistent`, `DatagramRefinement` | The capacity boundary of `WriteDatagram`. With lengths 0..2, kSizeMax, kSizeMax + 1 and 15, a fault in the first, the second or the last MBuf of a kSizeMax datagram (`valid` in 0..2 or kSizeMax − 1), and 9 pages, a datagram of exactly kSizeMax bytes fills an empty chain, and one of kSizeMax + 1 is refused with OUT_OF_RANGE. The chain never exceeds kSizeMax. With 9 pages the 8-page datagram of `len = 15` would be allocated if `len + size_` wrapped past the second check, so dropping the first check (`len > kSizeMax`) breaks `ChainConsistent` here. 9,906 states in about 26 s. |
| `mixed_chain` (pass) | `MC_MBufChain_mixed.cfg` | `TypeOK`, `ChainConsistent`, `PagesConserved` | A caller that mixes the modes loses framing. For example, a datagram read can return stream bytes, and a datagram read of a stream MBuf drains every stream MBuf. But `size_`, the cursor and the page accounting stay exact. This is the only run in which the drain loop meets a non-zero `read_off` (mbuf.cc:98): the mutant that ignores it is caught here and not by `datagram_chain`. Two writes, one of each mode, are enough for that. 30,034 states in about 18 s. |
| `datagram_read_len0` (violation) | `MC_MBufChain_dgread.cfg` | `DatagramReadDrops` | `Read(len = 0, datagram = true)` on a non-empty chain leaves the datagram queued. The header says a too-short read discards the rest of the datagram. TLC finds a 3-state trace. |
| `physmem_cache` (pass) | `MC_AcpiPhysmemReader.cfg` | `TypeOK`, `CacheMatchesVmar`, `NoShadowedMapping` | Mappings are page-aligned and non-empty. The reader's VMAR mappings are exactly `mappings_`, each once, through every failure path including MapRange's `Destroy`. `mappings_`, which is never pruned, grows only by ranges that no cached mapping covers. 59,933 states in about 40 s. |
| `physmem_contract` (pass) | `MC_AcpiPhysmemReader_contract.cfg` | `ReaderRefinement` | `PhysToPtr` implements `PhysMemReader`, under the mapping `readable` = the union of the ranges of the reader's VMAR mappings. Null, empty and wrapping requests are never served. A failure, including MapRange's `Destroy`, maps nothing. Nothing once readable is unmapped. The rounding never maps a page the request does not touch: a "fix" of the rounding bug that rounds one page further is caught here. 11,255 states in about 45 s. |
| `physmem_cover` (violation) | `MC_AcpiPhysmemReader_cover.cfg` | `PtrCoversRange` | **Code bug.** `size = ROUNDUP_PAGE_SIZE(phys_end) - paddr_base` rounds up the *inclusive* last byte. `PhysToPtr(3, 2)` with 4-byte pages maps only [0,4), so byte 4 is unmapped. A page-aligned `phys` with `length = 1` gives size 0, and InRange then reuses a mapping that ends at `phys`, returning a pointer one past it. |

`TypeOK` is the type invariant in each module. The properties that say something about the
code are:

- `ChainConsistent`: `size_` = Σ`len_` − cursor ≤ kSizeMax; empty ⇔ size 0;
  the cursor is inside the first MBuf; no MBuf is empty; a stream chain is
  packed.
- `DatagramFraming`: every datagram occupies exactly
  `NumBuffersForPayload(pkt_len_)` MBufs summing to `pkt_len_`, and the cursor
  is 0.
- `PagesConserved`: chain + free + other = all pages.
- `ReadMatchesSize`: in every live state, a datagram Read of at least
  `size(true)` bytes into a good buffer returns exactly `size(true)` bytes, OK.
- `ReaderRefinement`: `AbsReader!Spec`, the `PhysMemReader` contract.
- `NoShadowedMapping`: no cached mapping is covered by an older one. It does
  not bound how long `mappings_` grows; the code sets no bound.
- The two chain refinements, checked as PROPERTY `AbsStream!Spec` /
  `AbsDatagram!Spec`.

Each property has a mutant in `PROJECT.json`. The mutant is a plausible slip in
the code, defined in `MBufChain.tla` next to the definition it replaces, and
TLC finds the property violated. Examples: dropping the reset of `read_off`,
refusing a datagram of exactly kSizeMax (`>=` for `>`), leaking the faulting page, and giving
every datagram MBuf a `pkt_len_`.

**Bounds** (`MC_MBufChain.tla`):

| Constant | Value | Why it is enough |
|---|---|---|
| `Payload` | 2 | A write or read crosses page boundaries, and the tail can be partly full. |
| `NumCellsMax` | 3, so kSizeMax = 6 | The chain fills up (SHOULD_WAIT, clamping) within 3 writes. |
| `Pages` | 4; 9 (edge) | Other users can exhaust the PMM while the chain holds pages. In the edge run a chain holding one page can also take the 8 pages of a 15-byte datagram. |
| `OtherMax` | 2 | Bound on the pages other kernel users hold at once. |
| `MaxWrites` | 3; 2 (mixed) | Enough writes to fill the chain. The mixed run needs one stream write and one datagram write. |
| `MaxLen` | 3 (stream, mixed), 4 (datagram), 2 (edge) | The datagram run needs a 4-byte, two-page datagram next to others. |
| `EdgeLens` | {kSizeMax, kSizeMax + 1} (edge), {} (others) | The capacity boundary of `len > kSizeMax`: a three-page datagram that fills an empty chain, with faults on each page, and the smallest datagram to refuse. These lengths triple the cost of the refinement check, so they get their own run with smaller ordinary lengths. The stream run already reaches the clamp and a full chain with its small lengths. |
| `WordBits` | 4 | size_t has 16 values, so `len = 15` makes `len + size_` wrap. This exercises the `len > kSizeMax`-first ordering. |

For `AcpiPhysmemReader`, 4-bit addresses with 4-byte pages give requests
inside one page, across one or two page boundaries, ending on the first byte
of a page, and wrapping the top. Three mappings allow overlapping cached
ranges.

`valid` ranges over 0..MaxLen and `len` (and `len − 1` for an edge length).
So a fault can hit every page of a call of up to MaxLen bytes and the first
and last page of a kSizeMax datagram. A stream write of `len = 15` is clamped
to the room left; its fault can only hit the first MaxLen bytes, which in the
stream run covers the tail top-up and the first fresh page. Each passing run takes between 15 s and 1 min.

**Memory per chain.** The capacity check counts bytes, not pages. A datagram
chain of 1-byte datagrams holds one page per byte, up to kSizeMax pages. A
stream chain holds at most `NumBuffersForPayload(kSizeMax) + 1` pages.
`ChainConsistent` gives both bounds: every MBuf holds at least one byte, and a
stream chain is packed. The spec asks only that memory be bounded, so the
datagram figure is listed as a hazard, not a finding.

**Fairness.** None is assumed, and no liveness property is stated. Neither
component does anything by itself. Every step is a caller's call under the
endpoint lock or the reader's `lock_`. The chain has no internal waits,
retries or timeouts (spec: "does not wait on any internal condition ... takes
no timeouts"). Its loops are bounded by the chain length, and the model
computes them inside one step. A "SHOULD_WAIT eventually clears" property
would need fairness for readers in the socket layer, which is not in this
repository. The properties are therefore safety properties and refinements of
safety specs.

## 4. Not modelled, and why

- **`is_full`, `max_size()`.** A comparison and a constant. Neither changes
  state, and no property here is about the WRITABLE signal they drive.
- **The `mbuf.total_bytes` kcounter** (MBuf constructor and destructor). It
  goes up and down by `sizeof(MBuf)` with every page, so it is
  `PAGE_SIZE` × the MBufs alive. `PagesConserved` already accounts for every
  MBuf.
- **Framing in mixed mode.** It is lost by design, so the mixed run checks only
  memory safety.
- **`PhysicalPageBorrowingConfig`.** It is three independent
  `ktl::atomic<bool>` flags. Each has a one-line relaxed setter and getter.
  Nothing in this repository relates the flags, or reads one and acts on
  another. The VM code that consults them is not here. A model would only
  restate the C++ coherence rule for a single atomic.
- **crashlog.** Pure formatting.
- **platform.h.** A preprocessor shim.
- **The PMM and user copy.** These are not in the repository. They are modelled
  from their contracts: all-or-nothing page allocation, and per-call
  all-or-nothing copies that fault past a mapped prefix.

## 5. Plan for the following sittings

Done:
- `MBufChain`, with both refinements, the `size()` and `is_empty()` accessors,
  `FreeMBufs`, mixed-mode use and the capacity-edge lengths;
- `AcpiPhysmemReader`, with its code bug, the cache-growth property and the
  refinement of the `PhysMemReader` contract.

What is left, in order of importance:

1. **Socket pair composition, considered and set aside.** Two chains share
   nothing but the PMM. From each chain's side, the other chain is one more
   kernel user taking and returning pages, and `PmmOtherAlloc` and
   `PmmOtherFree` already model that. The socket dispatcher that pairs the
   endpoints and drives the signals is not in the repository. Any liveness
   would rest on its readers' fairness, not on this code.
2. **Reader reference check**: `PhysMemReader` now states the pages a request
   touches (`TouchedPages`) and shows that the code never maps more. What is
   left is to check the corrected rounding `ROUNDUP_PAGE_SIZE(phys_end + 1)`
   against it over all inputs. That is a fix, not code of this repository,
   so it belongs beside a patch.
3. **Deeper chain properties**:
   - a stream Peek followed by a Read returns the same bytes (already implied by
     the refinement; a direct action property would make it explicit);
   - larger bounds (`Payload` 3, `MaxWrites` 4) in a longer run. The capacity
     edge lengths were added to the datagram run this way.
