----------------------------- MODULE MCNvmeSync -----------------------------
(***************************************************************************)
(* Synchronous calls for TLC: as many timeouts as calls, and the statuses  *)
(* success, LBA Out of Range (type 0, code 0x80) and the command specific  *)
(* Completion Queue Invalid (type 1, code 0).                              *)
(***************************************************************************)
EXTENDS NvmeSync

CallNumbers == 1 .. MaxCalls
AllStatuses == {0, 256, 512}
GenericStatuses == {0, 256}
=============================================================================
