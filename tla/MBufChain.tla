------------------------------ MODULE MBufChain ------------------------------
(***************************************************************************)
(* MBufChain (src/object/mbuf.cc, src/object/include/object/mbuf.h): the  *)
(* chain of page-sized MBufs behind one socket endpoint.                  *)
(*                                                                         *)
(* buffers is the list buffers_: each MBuf is a record with its valid     *)
(* data (len_ == Len(data)) and pkt_len_.  read_cursor_off and size are   *)
(* read_cursor_off_ and size_.  freePages and otherPages are the PMM's    *)
(* free pages and the pages other kernel users hold.  The caller holds    *)
(* the endpoint lock, so every public method is one atomic step; its     *)
(* loops are the RECURSIVE operators below.  wid numbers write calls and  *)
(* ret records the last call's result; both are history for checking.    *)
(***************************************************************************)
EXTENDS MBufCommon, FiniteSets, SequencesExt

CONSTANTS
  Payload,      \* MBuf::kPayloadSize
  NumCellsMax,  \* the factor 128 of kSizeMax == 128 * MBuf::kPayloadSize
  Pages,        \* pages of the PMM, shared with other kernel users
  OtherMax,     \* bound on the pages other kernel users hold at once
  Datagram,     \* TRUE: a datagram chain, FALSE: a stream chain
  Mixed         \* TRUE: the caller also makes the other mode's calls

ASSUME /\ Payload \in Nat \ {0}
       /\ NumCellsMax \in Nat \ {0}
       /\ Pages \in Nat
       /\ OtherMax \in 0 .. Pages
       /\ Datagram \in BOOLEAN
       /\ Mixed \in BOOLEAN
       /\ SizeT > MaxLen + NumCellsMax * Payload
       /\ \A l \in EdgeLens : SizeT > l + NumCellsMax * Payload

kSizeMax == NumCellsMax * Payload

(* The |datagram| arguments a caller passes to Read and Peek.  mbuf.h:19  *)
(* says not to mix stream data and datagrams in one chain; Mixed models a *)
(* caller that does.                                                      *)
ReadModes == IF Mixed THEN BOOLEAN ELSE {Datagram}

VARIABLES buffers, read_cursor_off, size, freePages, otherPages, wid, ret, alive

vars == <<buffers, read_cursor_off, size, freePages, otherPages, wid, ret, alive>>

-----------------------------------------------------------------------------
(* MBuf *)

(* MBuf(page): len_ = 0, pkt_len_ = 0.                              *)
EmptyMBuf == [data |-> <<>>, pkt |-> 0]

(* rem(): free space in an MBuf.                                          *)
Rem(buf) == Payload - Len(buf.data)

(* NumBuffersForPayload(payload), for payload > 0.                        *)
NumBuffersForPayload(p) == 1 + ((p - 1) \div Payload)

-----------------------------------------------------------------------------
(* The physical page allocator, shared with the rest of the kernel.       *)

(* AllocMBufs(num): exactly num pages, or none.                           *)
AllocMBufs(num) == num <= freePages

(* FreeMBufs(bufs): the free count after n MBufs' pages go back in one   *)
(* FreeList call.                                                         *)
FreeMBufs(n) == freePages + n

(* Another kernel user takes a page from, or gives one back to, the PMM.  *)
PmmOtherAlloc ==
  /\ freePages > 0
  /\ otherPages < OtherMax
  /\ freePages' = freePages - 1
  /\ otherPages' = otherPages + 1
  /\ UNCHANGED <<buffers, read_cursor_off, size, wid, ret, alive>>

PmmOtherFree ==
  /\ otherPages > 0
  /\ freePages' = freePages + 1
  /\ otherPages' = otherPages - 1
  /\ UNCHANGED <<buffers, read_cursor_off, size, wid, ret, alive>>

-----------------------------------------------------------------------------
(* WriteStream                                                             *)

(* The write_buffer lambda: copy min(rem(), len - pos) bytes of write call *)
(* w into buf.  If the copy faults nothing changes (ok = FALSE).           *)
WriteBuffer(st, buf, w, len, valid) ==
  LET n == MinOf(Rem(buf), len - st.pos)
  IN  [ok   |-> CopyOk(st.pos, n, valid),
       buf  |-> [buf EXCEPT !.data = @ \o UserBytes(w, st.pos, st.pos + n)],
       pos  |-> st.pos + n,
       size |-> st.size + n]

(* Mutant: on a fault, the MBuf that faulted is dropped but not freed.    *)
RECURSIVE FillNewLeak(_, _, _, _, _)
FillNewLeak(st, k, w, len, valid) ==
  IF k = 0 THEN st
  ELSE LET r == WriteBuffer(st, EmptyMBuf, w, len, valid)
       IN  IF ~r.ok
             THEN [st EXCEPT !.status = CopyFault, !.freed = k - 1]
             ELSE FillNewLeak([st EXCEPT !.bufs = Append(@, r.buf), !.pos = r.pos,
                                         !.size = r.size], k - 1, w, len, valid)

(* while (!bufs->is_empty()): fill the front of the k freshly allocated   *)
(* MBufs and push it onto buffers_; on a fault free the k left and stop.  *)
RECURSIVE FillNew(_, _, _, _, _)
FillNew(st, k, w, len, valid) ==
  IF k = 0 THEN st
  ELSE LET r == WriteBuffer(st, EmptyMBuf, w, len, valid)
       IN  IF ~r.ok
             THEN [st EXCEPT !.status = CopyFault, !.freed = k]
             ELSE FillNew([st EXCEPT !.bufs = Append(@, r.buf), !.pos = r.pos,
                                     !.size = r.size], k - 1, w, len, valid)

(* Mutant: the clamp to the room left is dropped.                        *)
StreamRoomUnclamped(len0) == len0

(* len = min(kSizeMax - size_, len): cap len by what may still be written. *)
StreamRoom(len0) == MinOf(kSizeMax - size, len0)

(* WriteStream(src, len, written): clamp len to the room left, top up the *)
(* tail MBuf, then allocate and fill as many MBufs as the rest needs.     *)
WriteStream(len0, valid) ==
  LET w     == wid + 1
      len   == StreamRoom(len0)
      st0   == [bufs |-> buffers, size |-> size, pos |-> 0, status |-> OK,
                taken |-> 0, freed |-> 0]
      tail  == WriteBuffer(st0, Last(buffers), w, len, valid)
      tailOpen == buffers # <<>> /\ Rem(Last(buffers)) > 0
      st1   == IF tailOpen
                 THEN [st0 EXCEPT !.bufs = [@ EXCEPT ![Len(@)] = tail.buf],
                                  !.pos = tail.pos, !.size = tail.size]
                 ELSE st0
      k     == NumBuffersForPayload(len - st1.pos)
      st2   == IF st1.pos # len /\ AllocMBufs(k)
                 THEN FillNew([st1 EXCEPT !.taken = k], k, w, len, valid)
                 ELSE st1
  IN  /\ alive
      /\ ~Datagram \/ Mixed
      /\ wid < MaxWrites
      /\ wid' = w
      /\ \/ /\ tailOpen /\ ~tail.ok
            /\ ret' = Result("WriteStream", len0, valid, CopyFault, 0, <<>>)
            /\ UNCHANGED <<buffers, size, freePages>>
         \/ /\ ~(tailOpen /\ ~tail.ok)
            /\ buffers' = st2.bufs
            /\ size' = st2.size
            /\ freePages' = FreeMBufs(st2.freed) - st2.taken
            /\ ret' = Result("WriteStream", len0, valid,
                              IF st2.status # OK THEN st2.status
                              ELSE IF st2.pos = 0 THEN SHOULD_WAIT ELSE OK,
                              st2.pos, <<>>)
      /\ UNCHANGED <<read_cursor_off, otherPages, alive>>

-----------------------------------------------------------------------------
(* WriteDatagram                                                           *)

(* Mutant: every MBuf of the datagram is given pkt_len_ = len.           *)
DatagramMBufsAllHeads(w, len) ==
  [j \in 1 .. NumBuffersForPayload(len) |->
     [data |-> UserBytes(w, (j - 1) * Payload, MinOf(j * Payload, len)),
      pkt  |-> len]]

(* The MBufs of a len-byte datagram from write call w: each holds         *)
(* min(kPayloadSize, len - pos) bytes; the first carries pkt_len_ = len.  *)
DatagramMBufs(w, len) ==
  [j \in 1 .. NumBuffersForPayload(len) |->
     [data |-> UserBytes(w, (j - 1) * Payload, MinOf(j * Payload, len)),
      pkt  |-> IF j = 1 THEN len ELSE 0]]

(* The copy of every MBuf of the datagram succeeds.                       *)
DatagramCopyOk(len, valid) ==
  \A j \in 1 .. NumBuffersForPayload(len) :
     CopyOk((j - 1) * Payload, MinOf(Payload, len - (j - 1) * Payload), valid)

WriteDatagramResult(len, valid, status, n) ==
  ret' = Result("WriteDatagram", len, valid, status, n, <<>>)

(* Mutant: the len > kSizeMax check is left out.                         *)
DatagramTooLargeNever(len) == FALSE

(* Mutant: off by one, a datagram of exactly kSizeMax is refused.        *)
DatagramTooLargeAtCap(len) == len >= kSizeMax

(* len > kSizeMax: no datagram larger than the whole chain.               *)
DatagramTooLarge(len) == len > kSizeMax

(* Mutant: the room check is left out.                                    *)
DatagramFitsAlways(len) == TRUE

(* Mutant: off by one, the chain may be overfilled by one byte.           *)
DatagramFitsOffByOne(len) == ~((len + size) % SizeT > kSizeMax + 1)

(* !(len + size_ > kSizeMax), with len + size_ a size_t sum.              *)
DatagramFits(len) == ~((len + size) % SizeT > kSizeMax)

(* WriteDatagram(src, len, written): the three admission checks, in order *)
(* (len + size_ is a size_t sum), then allocate, copy and splice, or      *)
(* free everything allocated and fail.                                    *)
WriteDatagram(len, valid) ==
  /\ alive
  /\ Datagram \/ Mixed
  /\ wid < MaxWrites
  /\ wid' = wid + 1
  /\ \/ /\ len = 0
        /\ WriteDatagramResult(len, valid, INVALID_ARGS, 0)
        /\ UNCHANGED <<buffers, size, freePages>>
     \/ /\ len # 0 /\ DatagramTooLarge(len)
        /\ WriteDatagramResult(len, valid, OUT_OF_RANGE, 0)
        /\ UNCHANGED <<buffers, size, freePages>>
     \/ /\ len # 0 /\ ~DatagramTooLarge(len) /\ ~DatagramFits(len)
        /\ WriteDatagramResult(len, valid, SHOULD_WAIT, 0)
        /\ UNCHANGED <<buffers, size, freePages>>
     \/ /\ len # 0 /\ ~DatagramTooLarge(len) /\ DatagramFits(len)
        /\ \/ /\ ~AllocMBufs(NumBuffersForPayload(len))
              /\ WriteDatagramResult(len, valid, SHOULD_WAIT, 0)
              /\ UNCHANGED <<buffers, size, freePages>>
           \/ /\ AllocMBufs(NumBuffersForPayload(len))
              /\ ~DatagramCopyOk(len, valid)
              /\ WriteDatagramResult(len, valid, INVALID_ARGS, 0)
              /\ freePages' = FreeMBufs(NumBuffersForPayload(len))
                                - NumBuffersForPayload(len)
              /\ UNCHANGED <<buffers, size>>
           \/ /\ AllocMBufs(NumBuffersForPayload(len))
              /\ DatagramCopyOk(len, valid)
              /\ buffers' = buffers \o DatagramMBufs(wid + 1, len)
              /\ size' = size + len
              /\ freePages' = freePages - NumBuffersForPayload(len)
              /\ WriteDatagramResult(len, valid, OK, len)
  /\ UNCHANGED <<read_cursor_off, otherPages, alive>>

-----------------------------------------------------------------------------
(* Read and Peek: ReadHelper<T>.  r is the helper's locals: the list      *)
(* (bufs), iter (index i), read_off (off), size_, pos, status, the bytes  *)
(* copied out and the number of MBufs put on free_list.                   *)

(* Mutant: read_off is not reset to 0 when the MBuf is popped.           *)
ConsumeNoReset(r, buf, n, ok, datagram) ==
  LET off  == IF ok THEN r.off + n ELSE r.off
      sz   == IF ok THEN r.size - n ELSE r.size
  IN  IF off = Len(buf.data) \/ datagram
        THEN [r EXCEPT !.bufs = Tail(@), !.off = off, !.freed = @ + 1,
                       !.size = IF datagram THEN sz - (Len(buf.data) - off) ELSE sz]
        ELSE [r EXCEPT !.off = off, !.size = sz]

(* Mutant: the datagram's whole len_ is dropped from size_, not the rest. *)
ConsumeWholeLen(r, buf, n, ok, datagram) ==
  LET off  == IF ok THEN r.off + n ELSE r.off
      sz   == IF ok THEN r.size - n ELSE r.size
  IN  IF off = Len(buf.data) \/ datagram
        THEN [r EXCEPT !.bufs = Tail(@), !.off = 0, !.freed = @ + 1,
                       !.size = IF datagram THEN sz - Len(buf.data) ELSE sz]
        ELSE [r EXCEPT !.off = off, !.size = sz]

(* The consuming tail of one loop iteration (T non-const): advance        *)
(* read_off and size_ by what was copied; when the MBuf is exhausted, or  *)
(* always for a datagram, drop its unread rest from size_ and pop it.     *)
Consume(r, buf, n, ok, datagram) ==
  LET off  == IF ok THEN r.off + n ELSE r.off
      sz   == IF ok THEN r.size - n ELSE r.size
  IN  IF off = Len(buf.data) \/ datagram
        THEN [r EXCEPT !.bufs = Tail(@), !.off = 0, !.freed = @ + 1,
                       !.size = IF datagram THEN sz - (Len(buf.data) - off) ELSE sz]
        ELSE [r EXCEPT !.off = off, !.size = sz]

(* Mutant: Peek moves to the next MBuf keeping the first one's offset.    *)
PeekAdvanceKeepOff(r) == [r EXCEPT !.i = @ + 1]

(* The const tail of one loop iteration (T const): read_off = 0; ++iter.  *)
PeekAdvance(r) == [r EXCEPT !.off = 0, !.i = @ + 1]

(* while (pos < len && iter != end && status == ZX_OK): copy             *)
(* min(len_ - read_off, len - pos) bytes of *iter to dst + pos.  Peek     *)
(* moves to the next MBuf at offset 0; Read consumes.                     *)
RECURSIVE ReadLoop(_, _, _, _, _)
ReadLoop(r, len, datagram, valid, consume) ==
  IF ~(r.pos < len /\ r.i <= Len(r.bufs) /\ r.status = OK) THEN r
  ELSE
    LET buf == r.bufs[r.i]
        n   == MinOf(Len(buf.data) - r.off, len - r.pos)
        ok  == CopyOk(r.pos, n, valid)
        cp  == [r EXCEPT !.pos = IF ok THEN @ + n ELSE @,
                         !.out = IF ok THEN @ \o SubSeq(buf.data, r.off + 1, r.off + n)
                                       ELSE @,
                         !.status = IF ok THEN OK ELSE CopyFault]
    IN  ReadLoop(IF consume THEN Consume(cp, buf, n, ok, datagram)
                            ELSE PeekAdvance(cp),
                 len, datagram, valid, consume)

(* Mutant: drained MBufs are unlinked but never put on the free list.     *)
RECURSIVE DrainDatagramLeak(_)
DrainDatagramLeak(r) ==
  IF r.bufs # <<>> /\ Head(r.bufs).pkt = 0
    THEN DrainDatagramLeak([r EXCEPT !.bufs = Tail(@), !.off = 0,
                                     !.size = @ - (Len(Head(r.bufs).data) - r.off)])
    ELSE r

(* Mutant: a drained MBuf's whole len_ is taken from size_, ignoring     *)
(* read_off.                                                              *)
RECURSIVE DrainDatagramWholeLen(_)
DrainDatagramWholeLen(r) ==
  IF r.bufs # <<>> /\ Head(r.bufs).pkt = 0
    THEN DrainDatagramWholeLen([r EXCEPT !.bufs = Tail(@), !.freed = @ + 1, !.off = 0,
                                         !.size = @ - Len(Head(r.bufs).data)])
    ELSE r

(* Drain the leftover MBufs of the datagram (pkt_len_ == 0), even if the  *)
(* copy failed.                                                           *)
RECURSIVE DrainDatagram(_)
DrainDatagram(r) ==
  IF r.bufs # <<>> /\ Head(r.bufs).pkt = 0
    THEN DrainDatagram([r EXCEPT !.bufs = Tail(@), !.freed = @ + 1, !.off = 0,
                                 !.size = @ - (Len(Head(r.bufs).data) - r.off)])
    ELSE r

(* ReadHelper on a non-empty chain: clamp len to pkt_len_ of the first    *)
(* MBuf for a datagram read, run the loop, drain (Read only).             *)
ReadHelper(len0, datagram, valid, consume) ==
  LET len == IF datagram /\ len0 > Head(buffers).pkt THEN Head(buffers).pkt ELSE len0
      r0  == [bufs |-> buffers, i |-> 1, off |-> read_cursor_off, size |-> size,
              pos |-> 0, status |-> OK, out |-> <<>>, freed |-> 0]
      r1  == ReadLoop(r0, len, datagram, valid, consume)
  IN  IF consume /\ datagram THEN DrainDatagram(r1) ELSE r1

(* Read(dst, len, datagram, actual).  The free list goes back to the PMM *)
(* and the cursor is stored when the call returns.                        *)
Read(len, valid, datagram) ==
  /\ alive
  /\ \/ /\ size = 0
        /\ ret' = Result("Read", len, valid, OK, 0, <<>>)
        /\ UNCHANGED <<buffers, read_cursor_off, size, freePages>>
     \/ /\ size # 0
        /\ LET r == ReadHelper(len, datagram, valid, TRUE)
           IN  /\ buffers' = r.bufs
               /\ read_cursor_off' = r.off
               /\ size' = r.size
               /\ freePages' = FreeMBufs(r.freed)
               /\ ret' = Result("Read", len, valid, r.status, r.pos, r.out)
  /\ UNCHANGED <<otherPages, wid, alive>>

(* Peek(dst, len, datagram, actual) const: the chain is left as it is.    *)
Peek(len, valid, datagram) ==
  /\ alive
  /\ \/ /\ size = 0
        /\ ret' = Result("Peek", len, valid, OK, 0, <<>>)
     \/ /\ size # 0
        /\ LET r == ReadHelper(len, datagram, valid, FALSE)
           IN  ret' = Result("Peek", len, valid, r.status, r.pos, r.out)
  /\ UNCHANGED <<buffers, read_cursor_off, size, freePages, otherPages, wid, alive>>

(* Mutant: size() ignores |datagram|.                                    *)
SizeQueryIgnoresDatagram(datagram) == size

(* size(datagram): size_, or for a datagram query of a non-empty chain    *)
(* the pkt_len_ of the front MBuf.                                        *)
SizeQuery(datagram) == IF datagram /\ size # 0 THEN Head(buffers).pkt ELSE size

(* is_empty(): what the socket dispatcher reads to raise and clear the   *)
(* endpoint's READABLE signal.                                           *)
IsEmpty == size = 0

(* ~MBufChain(): every MBuf goes back to the PMM.                         *)
Destroy ==
  /\ alive
  /\ alive' = FALSE
  /\ buffers' = <<>>
  /\ freePages' = FreeMBufs(Len(buffers))
  /\ UNCHANGED <<read_cursor_off, size, otherPages, wid, ret>>

-----------------------------------------------------------------------------

Init ==
  /\ buffers = <<>>
  /\ read_cursor_off = 0
  /\ size = 0
  /\ freePages = Pages
  /\ otherPages = 0
  /\ wid = 0
  /\ ret = NoResult
  /\ alive = TRUE

Next ==
  \/ \E len \in Lens : \E valid \in ValidFor(len) :
        \/ WriteStream(len, valid)
        \/ WriteDatagram(len, valid)
        \/ \E datagram \in ReadModes :
              Read(len, valid, datagram) \/ Peek(len, valid, datagram)
  \/ Destroy
  \/ PmmOtherAlloc
  \/ PmmOtherFree

Spec == Init /\ [][Next]_vars

-----------------------------------------------------------------------------
(* Properties                                                              *)

Byte == (1 .. MaxWrites) \X (0 .. kSizeMax)

(* Each variable ranges over the values the code gives its field.         *)
TypeOK ==
  /\ buffers \in Seq([data : Seq(Byte), pkt : 0 .. kSizeMax])
  /\ read_cursor_off \in 0 .. Payload
  /\ size \in 0 .. kSizeMax
  /\ freePages \in 0 .. Pages
  /\ otherPages \in 0 .. Pages
  /\ wid \in 0 .. MaxWrites
  /\ ret \in [op : {"None", "WriteStream", "WriteDatagram", "Read", "Peek"},
              len : Lens, valid : Lens \cup {l - 1 : l \in EdgeLens},
              status : Statuses, n : 0 .. kSizeMax, out : Seq(Byte)]
  /\ alive \in BOOLEAN

MBufLen(i) == Len(buffers[i].data)

(* The chain's bookkeeping agrees with its MBufs after every call: size_  *)
(* is the sum of len_ less read_cursor_off_ and never exceeds kSizeMax,   *)
(* the chain is empty exactly when size_ is 0, the read cursor lies inside *)
(* the first MBuf, no MBuf is empty, and a stream chain is packed: every  *)
(* MBuf but the write cursor is full and pkt_len_ stays 0.  Every path of *)
(* WriteStream, WriteDatagram and ReadHelper adjusts size_, read_off and  *)
(* the list separately, so a slip in any one of them breaks this.        *)
ChainConsistent ==
  alive =>
    /\ size = SumFunction([i \in DOMAIN buffers |-> MBufLen(i)]) - read_cursor_off
    /\ size <= kSizeMax
    /\ (size = 0) <=> (buffers = <<>>)
    /\ buffers # <<>> => read_cursor_off < MBufLen(1)
    /\ \A i \in DOMAIN buffers : MBufLen(i) \in 1 .. Payload
    /\ ~Datagram =>
         \A i \in DOMAIN buffers :
            /\ buffers[i].pkt = 0
            /\ i < Len(buffers) => MBufLen(i) = Payload

(* The MBufs from index s on that a datagram of p bytes occupies.         *)
DatagramAt(s) ==
  LET p == buffers[s].pkt
      k == NumBuffersForPayload(p)
  IN  /\ s + k - 1 <= Len(buffers)
      /\ \A j \in s + 1 .. s + k - 1 : buffers[j].pkt = 0
      /\ \A j \in s .. s + k - 2 : MBufLen(j) = Payload
      /\ SumFunctionOnSet([j \in DOMAIN buffers |-> MBufLen(j)], s .. s + k - 1) = p
      /\ s + k <= Len(buffers) => buffers[s + k].pkt > 0

(* A datagram chain is a sequence of whole datagrams: the first MBuf      *)
(* starts one, each occupies exactly NumBuffersForPayload(pkt_len_) MBufs *)
(* whose len_ sum to pkt_len_, and the read cursor is at 0 (a datagram is *)
(* never left half read).  WriteDatagram's rollback and ReadHelper's      *)
(* drain of the rest of a datagram are what keep this.                    *)
DatagramFraming ==
  alive /\ Datagram =>
    /\ read_cursor_off = 0
    /\ buffers # <<>> => buffers[1].pkt > 0
    /\ \A s \in DOMAIN buffers : buffers[s].pkt > 0 => DatagramAt(s)

(* No page leaks or is freed twice: the pages held by the chain, by other *)
(* kernel users and free in the PMM always add up to all pages, through   *)
(* every early return, rollback and free list of AllocMBufs/FreeMBufs,    *)
(* and after ~MBufChain.                                                  *)
PagesConserved == Len(buffers) + freePages + otherPages = Pages

-----------------------------------------------------------------------------
(* Refinement.  The unread bytes of a stream chain are the data of its    *)
(* MBufs from the read cursor on; the datagrams of a datagram chain are   *)
(* its MBufs grouped from each MBuf with pkt_len_ # 0 up to the next.     *)

StreamView ==
  LET d == FlattenSeq([i \in DOMAIN buffers |-> buffers[i].data])
  IN  SubSeq(d, read_cursor_off + 1, Len(d))

RECURSIVE Messages(_)
Messages(bufs) ==
  IF bufs = <<>> THEN <<>>
  ELSE LET j == SelectInSeq(Tail(bufs), LAMBDA c : c.pkt # 0)
           k == IF j = 0 THEN Len(bufs) ELSE j
       IN  <<FlattenSeq([i \in 1 .. k |-> bufs[i].data])>>
             \o Messages(SubSeq(bufs, k + 1, Len(bufs)))

AbsStream == INSTANCE ByteStream WITH Cap <- kSizeMax, stream <- StreamView

AbsDatagram == INSTANCE DatagramQueue WITH Cap <- kSizeMax, msgs <- Messages(buffers)

(* A stream chain implements ByteStream: every WriteStream, Read and Peek *)
(* reports a count, a status and bytes that the FIFO contract allows and  *)
(* moves the unread bytes as the contract says: bytes come out in the    *)
(* order they went in, none lost, none twice, across page boundaries,    *)
(* the partially read first MBuf, faults and allocation failures.        *)
StreamRefinement == AbsStream!Spec

(* A datagram chain implements DatagramQueue: writes are all-or-nothing,  *)
(* each read returns a prefix of the oldest datagram and drops the rest   *)
(* of it, peeks return what the read would, and statuses match.          *)
DatagramRefinement == AbsDatagram!Spec

(* size(true) is what the chain reports as the size of the next          *)
(* datagram (mbuf.h:67-69): a Read with datagram = true of at least that  *)
(* many bytes into a good buffer returns exactly that many, with OK.      *)
(* This ties the accessor to the framing ReadHelper and WriteDatagram     *)
(* keep: pkt_len_ of the front MBuf must still be the whole unread first  *)
(* datagram after any sequence of writes, faults and reads.  (An empty    *)
(* chain's Read returns 0 = size(true) before ReadHelper runs.)           *)
ReadMatchesSize ==
  alive /\ ~IsEmpty =>
    \A len \in Lens :
       len >= SizeQuery(TRUE) =>
         LET r == ReadHelper(len, TRUE, len, TRUE)
         IN  r.pos = SizeQuery(TRUE) /\ r.status = OK

(* The header comment of Read(): "When |datagram| is true ... the call    *)
(* will read at most one datagram.  If |len| is too small to read a       *)
(* complete datagram, a partial datagram is returned and its remaining    *)
(* bytes are discarded."  So every Read of a non-empty datagram chain     *)
(* removes exactly one datagram.  ReadHelper with len = 0 never enters    *)
(* its loop, and the drain loop stops at once at the first MBuf (its      *)
(* pkt_len_ is not 0), so the datagram stays queued.                      *)
DatagramReadDrops ==
  [][ (/\ Datagram
       /\ Messages(buffers) # <<>>
       /\ \E len \in Lens : \E valid \in ValidFor(len) : Read(len, valid, Datagram))
      => Len(Messages(buffers')) = Len(Messages(buffers)) - 1 ]_vars

=============================================================================
