----------------------------- MODULE MBufCommon -----------------------------
(***************************************************************************)
(* Definitions shared by the detailed MBufChain model and the abstract    *)
(* ByteStream and DatagramQueue specifications: the status codes, the     *)
(* arguments a caller can pass, and the user-memory collaborator.         *)
(*                                                                         *)
(* Data is abstracted to byte identities: byte i of the user buffer       *)
(* passed to write call number w is the pair <<w, i>>.  That is all the   *)
(* FIFO and framing properties need to tell bytes apart.                  *)
(***************************************************************************)
EXTENDS Naturals, Sequences

CONSTANTS
  MaxWrites,  \* bound on the number of write calls (each names its buffer)
  MaxLen,     \* largest ordinary |len| argument enumerated
  WordBits,   \* width of size_t; len = 2^WordBits - 1 is the "huge" argument
  EdgeLens    \* further |len| arguments: the capacity and one past it

ASSUME /\ MaxWrites \in Nat
       /\ MaxLen \in Nat
       /\ WordBits \in Nat \ {0}
       /\ EdgeLens \subseteq Nat \ {0}

SizeT == 2 ^ WordBits

(* zx_status_t values returned by the chain.  CopyFault is whatever error *)
(* copy_array_{from,to}_user reports; the chain passes it through.        *)
OK          == "OK"
SHOULD_WAIT == "SHOULD_WAIT"
OUT_OF_RANGE == "OUT_OF_RANGE"
INVALID_ARGS == "INVALID_ARGS"
CopyFault   == "COPY_FAULT"

Statuses == {OK, SHOULD_WAIT, OUT_OF_RANGE, INVALID_ARGS, CopyFault}

(* The |len| arguments enumerated: small ones, the edge lengths around   *)
(* the chain's capacity, and size_t's largest.                           *)
Lens == (0 .. MaxLen) \cup EdgeLens \cup {SizeT - 1}

(* A user buffer of |len| bytes whose first |valid| bytes are mapped.     *)
(* valid = len is a good buffer; anything less faults part-way.  For an   *)
(* edge length, len - 1 also lets the fault hit the last MBuf's copy.     *)
ValidFor(len) ==
  {v \in 0 .. MaxLen : v <= len} \cup {len} \cup {v \in {len - 1} : len \in EdgeLens}

(* Bytes lo .. hi-1 of the user buffer of write call w.                   *)
UserBytes(w, lo, hi) == [k \in 1 .. (hi - lo) |-> <<w, lo + k - 1>>]

(* UserCopy: copying n bytes at byte offset pos of a user buffer whose    *)
(* first |valid| bytes are mapped either copies all n bytes or fails and  *)
(* copies none (no partial success within one call).                      *)
CopyOk(pos, n, valid) == pos + n <= valid

(* The last call: its arguments (len and the mapped prefix of the user    *)
(* buffer), the status, the count written or read (written / actual) and, *)
(* for Read and Peek, the bytes handed out.                               *)
Result(op, len, valid, status, n, out) ==
  [op |-> op, len |-> len, valid |-> valid, status |-> status, n |-> n, out |-> out]

NoResult == Result("None", 0, 0, OK, 0, <<>>)

MinOf(a, b) == IF a <= b THEN a ELSE b

=============================================================================
