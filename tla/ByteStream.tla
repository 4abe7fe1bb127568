----------------------------- MODULE ByteStream -----------------------------
(***************************************************************************)
(* What src/object/include/object/mbuf.h promises of a stream chain: a    *)
(* bounded FIFO of bytes.  A write appends a prefix of the caller's       *)
(* buffer, of at most the room left, and reports how much ("some data may *)
(* still have been written" on failure).  A read hands out and removes a  *)
(* prefix of the stream; a peek hands out the same prefix and removes     *)
(* nothing.  How the bytes are laid out in pages is not visible here.     *)
(***************************************************************************)
EXTENDS MBufCommon

CONSTANT Cap  \* max_size()

VARIABLES stream, wid, ret, alive

vars == <<stream, wid, ret, alive>>

Init ==
  /\ stream = <<>>
  /\ wid = 0
  /\ ret = NoResult
  /\ alive = TRUE

(* WriteStream: n <= min(len, room) bytes of the buffer are appended and  *)
(* n is reported.  OK means something was written, SHOULD_WAIT that      *)
(* nothing was, and a copy fault is reported only if the buffer is bad    *)
(* within the bytes that would have been accepted.                        *)
WriteStream(len, valid) ==
  LET s    == stream
      room == MinOf(len, Cap - Len(s))
  IN  /\ alive
      /\ wid < MaxWrites
      /\ wid' = wid + 1
      /\ \E n \in 0 .. MinOf(room, valid), status \in Statuses :
           /\ ret' = Result("WriteStream", len, valid, status, n, <<>>)
           /\ \/ status = OK /\ n > 0
              \/ status = SHOULD_WAIT /\ n = 0
              \/ status = CopyFault /\ valid < room
           /\ stream' = s \o UserBytes(wid + 1, 0, n)
      /\ UNCHANGED alive

(* Read and Peek hand out the first n bytes of s: all min(len, Len(s)) of *)
(* them with OK, fewer (no more than the buffer takes) with a copy fault. *)
Deliver(op, s, len, valid, n) ==
  \E status \in {OK, CopyFault} :
     /\ ret' = Result(op, len, valid, status, n, SubSeq(s, 1, n))
     /\ (status = OK) <=> (n = MinOf(len, Len(s)))

Read(len, valid) ==
  LET s == stream
  IN  /\ alive
      /\ \E n \in 0 .. MinOf(MinOf(len, Len(s)), valid) :
           /\ Deliver("Read", s, len, valid, n)
           /\ stream' = SubSeq(s, n + 1, Len(s))
      /\ UNCHANGED <<wid, alive>>

Peek(len, valid) ==
  LET s == stream
  IN  /\ alive
      /\ \E n \in 0 .. MinOf(MinOf(len, Len(s)), valid) : Deliver("Peek", s, len, valid, n)
      /\ UNCHANGED <<stream, wid, alive>>

Destroy ==
  /\ alive
  /\ alive' = FALSE
  /\ stream' = <<>>
  /\ UNCHANGED <<wid, ret>>

Next ==
  \/ \E len \in Lens : \E valid \in ValidFor(len) :
        \/ WriteStream(len, valid)
        \/ Read(len, valid)
        \/ Peek(len, valid)
  \/ Destroy

Spec == Init /\ [][Next]_vars

=============================================================================
