---------------------------- MODULE DatagramQueue ----------------------------
(***************************************************************************)
(* What src/object/include/object/mbuf.h promises of a datagram chain: a  *)
(* bounded FIFO of whole datagrams.  A write appends one whole datagram   *)
(* or leaves the queue as it is; a read hands out a prefix of the first   *)
(* datagram and drops the datagram; a peek hands out the same prefix.     *)
(***************************************************************************)
EXTENDS MBufCommon, Functions

CONSTANT Cap  \* max_size()

VARIABLES msgs, wid, ret, alive

vars == <<msgs, wid, ret, alive>>

Bytes(q) == SumFunction([i \in DOMAIN q |-> Len(q[i])])

Init ==
  /\ msgs = <<>>
  /\ wid = 0
  /\ ret = NoResult
  /\ alive = TRUE

Reject(len, valid, status) ==
  /\ ret' = Result("WriteDatagram", len, valid, status, 0, <<>>)
  /\ UNCHANGED msgs

(* WriteDatagram is atomic: the whole datagram is queued with OK, or the  *)
(* queue is unchanged: INVALID_ARGS for an empty datagram or a bad        *)
(* buffer, OUT_OF_RANGE for one larger than the chain, SHOULD_WAIT when   *)
(* it does not fit now (or no pages can be had).                          *)
WriteDatagram(len, valid) ==
  LET q == msgs
  IN  /\ alive
      /\ wid < MaxWrites
      /\ wid' = wid + 1
      /\ \/ len = 0 /\ Reject(len, valid, INVALID_ARGS)
         \/ len > Cap /\ Reject(len, valid, OUT_OF_RANGE)
         \/ 0 < len /\ len <= Cap /\ len + Bytes(q) > Cap /\ Reject(len, valid, SHOULD_WAIT)
         \/ /\ 0 < len /\ len + Bytes(q) <= Cap
            /\ \/ Reject(len, valid, SHOULD_WAIT)
               \/ valid < len /\ Reject(len, valid, INVALID_ARGS)
               \/ /\ valid = len
                  /\ ret' = Result("WriteDatagram", len, valid, OK, len, <<>>)
                  /\ msgs' = Append(q, UserBytes(wid + 1, 0, len))
      /\ UNCHANGED alive

(* Read and Peek hand out the first n bytes of the first datagram m: all  *)
(* min(len, Len(m)) with OK, fewer with a copy fault.                     *)
Deliver(op, m, len, valid, n) ==
  \E status \in {OK, CopyFault} :
     /\ ret' = Result(op, len, valid, status, n, SubSeq(m, 1, n))
     /\ (status = OK) <=> (n = MinOf(len, Len(m)))

First(q) == IF q = <<>> THEN <<>> ELSE Head(q)

(* A read drops the first datagram, read in full, in part or not at all   *)
(* (copy fault) -- except a read with len = 0, which leaves it queued:    *)
(* that is what ReadHelper does, and not what the header comment says     *)
(* (see DatagramReadDrops in MBufChain).                                  *)
Read(len, valid) ==
  LET q == msgs
  IN  /\ alive
      /\ \E n \in 0 .. MinOf(MinOf(len, Len(First(q))), valid) :
           /\ Deliver("Read", First(q), len, valid, n)
           /\ msgs' = IF q = <<>> \/ len = 0 THEN q ELSE Tail(q)
      /\ UNCHANGED <<wid, alive>>

Peek(len, valid) ==
  LET q == msgs
  IN  /\ alive
      /\ \E n \in 0 .. MinOf(MinOf(len, Len(First(q))), valid) :
           Deliver("Peek", First(q), len, valid, n)
      /\ UNCHANGED <<msgs, wid, alive>>

Destroy ==
  /\ alive
  /\ alive' = FALSE
  /\ msgs' = <<>>
  /\ UNCHANGED <<wid, ret>>

Next ==
  \/ \E len \in Lens : \E valid \in ValidFor(len) :
        \/ WriteDatagram(len, valid)
        \/ Read(len, valid)
        \/ Peek(len, valid)
  \/ Destroy

Spec == Init /\ [][Next]_vars

=============================================================================
