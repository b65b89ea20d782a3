-------------------------- MODULE MCNvmeQpairCuda --------------------------
(***************************************************************************)
(* Kernels for TLC: two threads on three slots, the queue being one slot   *)
(* deeper than the block as the tests create it.                           *)
(***************************************************************************)
EXTENDS NvmeQpairCuda

\* One command alone, a partial last round, full rounds over the wraps.
SomeCounts == {1, 5, 6}
=============================================================================
