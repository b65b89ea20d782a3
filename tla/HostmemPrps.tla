---------------------------- MODULE HostmemPrps ----------------------------
(***************************************************************************)
(* The hugepage heap with what is built on its allocations: translation to *)
(* physical addresses and the PRP builders.  The hugepages of the heap     *)
(* need not be neighbours in physical memory.                              *)
(***************************************************************************)
EXTENDS HostmemHeap, Sequences

CONSTANTS
    PhysLut,        \* heap->phys_lut: physical address of every hugepage
    PrpListLen      \* entries of a PRP list page

ASSUME LutAssumption ==
    /\ PhysLut \in [1 .. NHuge -> Nat]
    /\ \A h \in 1 .. NHuge : PhysLut[h] % HugePage = 0
    /\ PrpListLen \in Nat \ {0}

Prps == INSTANCE NvmePrps

\* hostmem_dma_v2p
V2P == [a \in 0 .. HeapSize - 1 |-> PhysLut[(a \div HugePage) + 1] + (a % HugePage)]

\* The parts <<first, n>> of an allocation: n bytes, first bytes in.
Parts(a) == {p \in (0 .. Total(a.req) - 1) \X (1 .. Total(a.req)) :
                p[1] + p[2] <= Total(a.req)}

\* Segments an iovec may have: whole pages, except for the last segment.
PageParts(a) == {[base |-> a.ptr + p[1], len |-> p[2]] :
                    p \in {q \in Parts(a) : (a.ptr + q[1]) % PageSize = 0}}

WholePages(s) == s.len % PageSize = 0

Iovecs == UNION {{<<s, t>> : s \in {x \in PageParts(a) : WholePages(x)}, t \in PageParts(b)} :
                    a \in live, b \in live}

\* Whatever part of an allocation a command is prepared for, the controller
\* follows the PRP entries to exactly its bytes, in their order, across the
\* hugepages of the heap; the same for an iovec over any two allocations
\* that fits the one list page.
PrpsDescribeBuffers ==
    pc = "idle" =>
        /\ \A a \in live : \A p \in Parts(a) :
              LET dbuf == a.ptr + p[1]
                  dp == Prps!PrepContig(V2P, HugePage, dbuf, p[2])
              IN Prps!NPages(dbuf, p[2]) <= 1 + PrpListLen
                    => Prps!DescribesBuffer(V2P, dp, dbuf, p[2])
        /\ \A dvec \in Iovecs :
              Len(Prps!IovEntries(V2P, dvec)) <= PrpListLen
                    => Prps!DescribesIov(V2P, Prps!PrepIov(V2P, dvec), dvec)
=============================================================================
