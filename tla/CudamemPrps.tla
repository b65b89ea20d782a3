---------------------------- MODULE CudamemPrps ----------------------------
(***************************************************************************)
(* The heap in GPU memory with what is built on its allocations:           *)
(* translation to the addresses the dma-buf reported, and the PRP builders *)
(* of nvme_request_cuda.h.                                                 *)
(***************************************************************************)
EXTENDS CudamemHeap

CONSTANTS
    PrpListLen      \* entries of a PRP list page

ASSUME ListAssumption == PrpListLen \in Nat \ {0}

Prps == INSTANCE NvmePrps

Addresses == 0 .. Len(PhysLut) * DevicePage - 1

Vtp == [a \in Addresses |-> PhysLut[(a \div DevicePage) + 1] + (a % DevicePage)]

HeapContains(a) == a >= 0 /\ a < size

\* cudamem_heap_block_virt_to_phys, with its checks.
VirtToPhys == [a \in Addresses |->
    IF HeapContains(a) /\ a \div DevicePage < size \div DevicePage
    THEN Vtp[a] ELSE Prps!Unmapped]

\* Elements never straddle device pages, and whatever part of an allocation
\* a command is prepared for, the controller follows the PRP entries, which
\* stride within a device page and translate at its end, to exactly the
\* bytes the checked translation gives.
PrpsDescribeBuffers ==
    pc = "idle" =>
        \A a \in live :
            /\ InsideDpages(a)
            /\ \A first \in 0 .. a.count * a.elem - 1 :
                  \A n \in 1 .. a.count * a.elem - first :
                      Prps!NPages(a.ptr + first, n) <= 1 + PrpListLen
                          => Prps!DescribesBuffer(VirtToPhys,
                                 Prps!PrepContig(Vtp, DevicePage, a.ptr + first, n),
                                 a.ptr + first, n)
=============================================================================
