----------------------------- MODULE MCTransfer -----------------------------
(* One device uploads to one vault: instances of Transfer for TLC. *)
EXTENDS Transfer

\* Bounds: the requests in flight besides the awaited one.
TransferIds == {"t1", "t2", "t3"}

ChunkIds == 1..1
=============================================================================
