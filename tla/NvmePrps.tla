------------------------------ MODULE NvmePrps ------------------------------
(***************************************************************************)
(* The PRP builders of nvme_request.h, nvme_request_cuda.h (and            *)
(* nvme_request_hip.h, the same code renamed) as pure operators, and the   *)
(* controller's reading of the data pointer they write.                    *)
(*                                                                         *)
(* A data pointer is [prp1, prp2, list]: prp2 is an address or ListAddr,   *)
(* the address of the request's one list page.  Translation from virtual   *)
(* to physical addresses is a function given to the builder; Unmapped is   *)
(* its failure.                                                            *)
(***************************************************************************)
EXTENDS Integers, Sequences, SequencesExt

CONSTANTS
    PageSize,       \* config->pagesize, the memory page of the controller
    PrpListLen      \* entries of a list page, 512

ListAddr == -1
Unmapped == -2
Unset == -3
Abort == [abort |-> TRUE]
Invalid == [einval |-> TRUE]

DataPointer(prp1, prp2, list) == [prp1 |-> prp1, prp2 |-> prp2, list |-> list]

PageOff(dbuf) == dbuf % PageSize
NPages(dbuf, n) == (PageOff(dbuf) + n + PageSize - 1) \div PageSize
Ceil(n) == (n + PageSize - 1) \div PageSize

\* prp2 of a builder that puts every entry behind the first into the list:
\* a single entry moves to prp2, several stay behind the list's address.
Prp2OfList(entries) ==
    CASE Len(entries) = 0 -> Unset
      [] Len(entries) = 1 -> entries[1]
      [] OTHER -> ListAddr

-----------------------------------------------------------------------------
(***************************************************************************)
(* A contiguous buffer in a heap whose physical memory is contiguous in    *)
(* chunks (hugepages, device pages).  dbuf is an offset into the heap.     *)
(***************************************************************************)
\* Mutant of StridesLeft: strides once too often at the end of the chunk.
StridesLeftOneMore(chunk, vbase) == (chunk - (vbase % chunk)) \div PageSize

StridesLeft(chunk, vbase) == ((chunk - (vbase % chunk)) \div PageSize) - 1

\* The page of prp1, and the loop over the ones behind it: stride physically
\* within the chunk, translate again where the next one begins.
FirstPage(v2p, chunk, dbuf) ==
    [phys |-> v2p[dbuf] - PageOff(dbuf), left |-> StridesLeft(chunk, dbuf - PageOff(dbuf))]

NextPage(v2p, chunk, page, at) ==
    IF page.left > 0
    THEN [phys |-> page.phys + PageSize, left |-> page.left - 1]
    ELSE [phys |-> v2p[at], left |-> (chunk \div PageSize) - 1]

Pages(v2p, chunk, dbuf, n) ==
    LET page[i \in 0 .. NPages(dbuf, n) - 1] ==
            IF i = 0 THEN FirstPage(v2p, chunk, dbuf)
            ELSE NextPage(v2p, chunk, page[i - 1], dbuf - PageOff(dbuf) + i * PageSize)
    IN page

PagePhys(v2p, chunk, dbuf, n) ==
    [i \in 1 .. NPages(dbuf, n) - 1 |-> Pages(v2p, chunk, dbuf, n)[i].phys]

PrepContig(v2p, chunk, dbuf, n) ==
    LET npages == NPages(dbuf, n)
        rest == PagePhys(v2p, chunk, dbuf, n)
    IN CASE npages > 1 + PrpListLen -> Abort
         [] npages = 1 -> DataPointer(v2p[dbuf], Unset, <<>>)
         [] npages = 2 -> DataPointer(v2p[dbuf], rest[1], <<>>)
         [] OTHER -> DataPointer(v2p[dbuf], ListAddr, rest)

-----------------------------------------------------------------------------
(***************************************************************************)
(* An iovec: segments [base, len].  The bases are page aligned, which the  *)
(* mapped variant asserts.                                                 *)
(***************************************************************************)
\* The pages of a segment; the first page of the first one is prp1.
SegmentPages(v2p, dvec, i) ==
    LET s == dvec[i]
        skip == IF i = 1 THEN 1 ELSE 0
    IN [k \in 1 .. Ceil(s.len) - skip |-> v2p[s.base + (k - 1 + skip) * PageSize]]

IovEntries(v2p, dvec) ==
    FlattenSeq([i \in DOMAIN dvec |-> SegmentPages(v2p, dvec, i)])

\* The heap variants do not compare the entries with the room in the list page.
PrepIov(v2p, dvec) ==
    LET entries == IovEntries(v2p, dvec)
    IN DataPointer(v2p[dvec[1].base], Prp2OfList(entries), entries)

-----------------------------------------------------------------------------
(***************************************************************************)
(* Buffers registered with a mapping registry: every page is looked up.    *)
(***************************************************************************)
PrepContigMapped(lookup, dbuf, n) ==
    LET npages == NPages(dbuf, n)
        vbase == dbuf - PageOff(dbuf)
        rest == [i \in 1 .. npages - 1 |-> lookup[vbase + i * PageSize]]
    IN IF \/ npages > 1 + PrpListLen
          \/ lookup[dbuf] = Unmapped \/ Unmapped \in ToSet(rest)
       THEN Invalid
       ELSE DataPointer(lookup[dbuf], Prp2OfList(rest), IF npages > 2 THEN rest ELSE <<>>)

PrepIovMapped(lookup, dvec) ==
    LET entries == IovEntries(lookup, dvec)
    IN IF \/ dvec = <<>>
          \/ lookup[dvec[1].base] = Unmapped
          \/ Unmapped \in ToSet(entries) \/ Len(entries) > PrpListLen
       THEN Invalid
       ELSE DataPointer(lookup[dvec[1].base], Prp2OfList(entries), entries)

-----------------------------------------------------------------------------
(***************************************************************************)
(* The controller: where byte k of a transfer of n bytes goes.  The page   *)
(* of prp1 is used from its offset on; a second page is prp2 itself, more  *)
(* are entries of the list at prp2.                                        *)
(***************************************************************************)
DeviceByte(dp, n, k) ==
    LET off == dp.prp1 % PageSize
        entry == (off + k) \div PageSize
        last == (off + n - 1) \div PageSize
        at == (off + k) % PageSize
    IN CASE entry = 0 -> dp.prp1 + k
         [] entry > 0 /\ last = 1 -> dp.prp2 + at
         [] OTHER -> dp.list[entry] + at

Built(dp) == dp # Abort /\ dp # Invalid

\* The bytes of an iovec in front of each segment, and of all of them.
Before(dvec) ==
    LET before[i \in 1 .. Len(dvec) + 1] ==
            IF i = 1 THEN 0 ELSE before[i - 1] + dvec[i - 1].len
    IN before

IovLen(dvec) == Before(dvec)[Len(dvec) + 1]

\* Byte k of an iovec, in the order of its segments.
IovByte(dvec, k) ==
    LET i == CHOOSE j \in DOMAIN dvec : Before(dvec)[j] <= k /\ k < Before(dvec)[j + 1]
    IN dvec[i].base + (k - Before(dvec)[i])

\* The controller reaches exactly the bytes of the buffer, in their order.
DescribesBuffer(v2p, dp, dbuf, n) ==
    \A k \in 0 .. n - 1 : DeviceByte(dp, n, k) = v2p[dbuf + k]

DescribesIov(v2p, dp, dvec) ==
    \A k \in 0 .. IovLen(dvec) - 1 : DeviceByte(dp, IovLen(dvec), k) = v2p[IovByte(dvec, k)]
=============================================================================
