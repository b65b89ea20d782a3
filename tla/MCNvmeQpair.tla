---------------------------- MODULE MCNvmeQpair ----------------------------
(***************************************************************************)
(* The queue pair for TLC: rings of three slots, so that both indices wrap *)
(* and the phase tag flips while two commands are outstanding; two         *)
(* operations, so that a completion can be mistaken for another.           *)
(***************************************************************************)
EXTENDS NvmeQpair

MCOps == {"read", "write"}
=============================================================================
