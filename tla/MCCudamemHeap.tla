---------------------------- MODULE MCCudamemHeap ----------------------------
(***************************************************************************)
(* GPU heaps for TLC: device pages of four host pages of two units.        *)
(***************************************************************************)
EXTENDS CudamemPrps

\* Elements of a page, smaller, larger, not dividing a device page, arrays
\* larger than a device page.
MixedArrays == {[count |-> 1, elem |-> 1], [count |-> 2, elem |-> 3],
                [count |-> 5, elem |-> 2], [count |-> 3, elem |-> 5],
                [count |-> 2, elem |-> 6]}

\* Runs in no order in the aperture, the second of two device pages.
Scattered == <<[addr |-> 5 * DevicePage, len |-> DevicePage],
               [addr |-> DevicePage, len |-> 2 * DevicePage]>>

\* Rounded up to three device pages, a size the table is too long for, and
\* what the CUDA heap would be given to have the same three pages.
AskedSizes == {21, 16, 24}
=============================================================================
