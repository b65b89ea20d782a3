-------------------------- MODULE MCCudamemMapping --------------------------
(***************************************************************************)
(* Registries for TLC: five chunks of four units, pages of two.            *)
(***************************************************************************)
EXTENDS CudamemMappingPrps

\* Ranges that share chunks, start or end inside one or on its border, cover
\* each other, two with one address, and one that ends past the capacity and
\* is refused.
OverlappingRanges == {[vaddr |-> 4, size |-> 4], [vaddr |-> 6, size |-> 5],
                      [vaddr |-> 6, size |-> 11], [vaddr |-> 12, size |-> 8],
                      [vaddr |-> 18, size |-> 4]}
=============================================================================
