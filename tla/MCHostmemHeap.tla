--------------------------- MODULE MCHostmemHeap ---------------------------
(***************************************************************************)
(* Heaps for TLC: pages of two units with headers of one, hugepages of     *)
(* four pages.                                                             *)
(***************************************************************************)
EXTENDS HostmemPrps

OnePage == {PageSize}
PageOrTwo == {PageSize, 2 * PageSize}

\* Elements of a page, smaller, larger, not dividing a hugepage, arrays larger
\* than a hugepage, and one that is rejected (12 units of elements of 6).
MixedArrays == {[count |-> 1, elem |-> 1], [count |-> 2, elem |-> 3],
                [count |-> 5, elem |-> 2], [count |-> 1, elem |-> 6],
                [count |-> 2, elem |-> 6]}

\* Bytes, and elements that divide neither a hugepage nor 2^64: 3 * 5 units
\* fill a hugepage but for one, as 2 * (2^20 - 1) bytes fill one of 2 MB but
\* for two.
OddArrays == {[count |-> 10, elem |-> 1], [count |-> 3, elem |-> 5]}

NoArrays == {}

\* Hugepages in no order in physical memory.
Scattered == <<5 * HugePage, HugePage, 3 * HugePage>>
ScatteredTwo == <<5 * HugePage, HugePage>>
=============================================================================
