------------------------- MODULE CudamemMappingPrps -------------------------
(***************************************************************************)
(* Translation through the registry and the PRP builders of                *)
(* nvme_request_cuda.h that use it.                                        *)
(***************************************************************************)
EXTENDS CudamemMapping

CONSTANTS
    PageSize,       \* config->pagesize
    PrpListLen      \* entries of a PRP list page

ASSUME PrpAssumption ==
    /\ PageSize \in Nat \ {0} /\ Gran % PageSize = 0
    /\ PrpListLen \in Nat \ {0}

Prps == INSTANCE NvmePrps

\* Addresses callers ask for: past the table by more than a command describes.
Addresses == 0 .. NChunks * Gran + (PrpListLen + 1) * PageSize

\* cudamem_mapping_virt_to_phys
VirtToPhys == [va \in Addresses |->
    IF va \div Gran \notin Chunks \/ va = 0 \/ phys[va \div Gran] = 0
    THEN Prps!Unmapped
    ELSE phys[va \div Gran] + (va % Gran)]

\* The reference: the attachment of a chunk that a registration touches.
Mapped(va) == \E r \in ToSet(list) : Covers(r, va \div Gran)
Target == [va \in 0 .. NChunks * Gran - 1 |->
    Iova(attach[va \div Gran], va \div Gran) + (va % Gran)]

\* Buffers of up to a page more than the list has room for.
Buffers == {[base |-> b, len |-> n] : b \in 1 .. NChunks * Gran,
                                      n \in 1 .. (PrpListLen + 1) * PageSize + 1}
PageAligned == {s \in Buffers : s.base % PageSize = 0 /\ s.len <= PrpListLen * PageSize}
Iovecs == {<<s, t>> : s \in {x \in PageAligned : x.len % PageSize = 0}, t \in PageAligned}

AllMapped(s) == \A a \in s.base .. s.base + s.len - 1 : Mapped(a)

\* A command is prepared, for a contiguous buffer or an iovec, exactly if
\* every byte of it lies in a chunk of some registration and the list has
\* room; then the controller follows the entries to those bytes, in order.
MappedPrpsDescribeBuffers ==
    (up /\ op = "idle") =>
        /\ \A s \in Buffers :
              LET dp == Prps!PrepContigMapped(VirtToPhys, s.base, s.len)
              IN /\ Prps!Built(dp) <=>
                       AllMapped(s) /\ Prps!NPages(s.base, s.len) <= 1 + PrpListLen
                 /\ Prps!Built(dp) => Prps!DescribesBuffer(Target, dp, s.base, s.len)
        /\ \A dvec \in Iovecs :
              LET dp == Prps!PrepIovMapped(VirtToPhys, dvec)
              IN /\ Prps!Built(dp) <=>
                       /\ AllMapped(dvec[1]) /\ AllMapped(dvec[2])
                       /\ Prps!Ceil(dvec[1].len) + Prps!Ceil(dvec[2].len) <= 1 + PrpListLen
                 /\ Prps!Built(dp) => Prps!DescribesIov(Target, dp, dvec)
=============================================================================
