-------------------------- MODULE MCNvmeController --------------------------
(***************************************************************************)
(* Controllers for TLC: identifiers 0 to 3, of which the bitmap's whole    *)
(* words reach 2; capabilities with and without all command sets, and one  *)
(* whose timeout is 0.                                                     *)
(***************************************************************************)
EXTENDS NvmeControllerCuda

AllQids == 0 .. QidMax - 1
SomeCaps == {{24, 43}, {25}, {43}}
=============================================================================
