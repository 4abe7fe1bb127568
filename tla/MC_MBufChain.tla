---------------------------- MODULE MC_MBufChain ----------------------------
(***************************************************************************)
(* Model-checking instance of MBufChain.  A page holds 2 payload bytes    *)
(* and a chain 3 pages' worth (kSizeMax = 6), so writes and reads span    *)
(* several MBufs and a full chain is reached in a few calls.  4 pages in  *)
(* the PMM, up to 2 held by other kernel users, make every allocation     *)
(* failure reachable.  size_t is 4 bits wide: len = 15 is the "huge"      *)
(* argument, which also reads or writes everything.  A stream chain is    *)
(* checked with lens 0..3 and 15, a datagram chain with 0..4 and 15.      *)
(***************************************************************************)
EXTENDS MBufChain

MC_Payload     == 2
MC_NumCellsMax == 3
MC_Pages       == 4
MC_OtherMax    == 2
MC_MixedMaxWrites == 2
MC_MaxWrites   == 3
MC_MaxLen      == 4
MC_StreamMaxLen == 3
MC_WordBits    == 4

(* len = kSizeMax and kSizeMax + 1: the datagram that exactly fills an    *)
(* empty chain and the smallest one WriteDatagram must refuse.            *)
MC_EdgeLens    == {kSizeMax, kSizeMax + 1}
MC_NoEdgeLens  == {}
MC_EdgeMaxLen  == 2
MC_EdgePages   == 9

=============================================================================
