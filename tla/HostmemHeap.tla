----------------------------- MODULE HostmemHeap -----------------------------
(***************************************************************************)
(* The block allocator on a hugepage heap, hostmem_heap.h, and the checks  *)
(* its front end hostmem_dma.h adds.  Every block starts with a header in  *)
(* the heap itself; heap maps the address of a header to its fields.       *)
(* The header of a block takes the alignment of the allocation, so the     *)
(* pointer handed out is the header's address plus the alignment.          *)
(*                                                                         *)
(* The loops over the block list are modelled one iteration per action.    *)
(* Addresses are offsets from the start of the heap, which is aligned to   *)
(* a hugepage; sizes are in a unit of a few bytes.                         *)
(***************************************************************************)
EXTENDS Integers, FiniteSets

CONSTANTS
    PageSize,       \* config->pagesize
    HugePage,       \* config->hugepgsz
    NHuge,          \* nphys, hugepages of the heap
    HeaderSize,     \* sizeof(struct hostmem_heap_block)
    WordSize,       \* 2^64: arithmetic on size_t is modulo WordSize
    Sizes,          \* what callers ask hostmem_heap_block_alloc_aligned for
    Alignments,     \* the alignments they ask for
    Arrays,         \* [count, elem] asked of hostmem_heap_block_alloc_array
    MaxLive         \* bound: allocations alive at a time

ASSUME HeapAssumption ==
    /\ HeaderSize \in Nat \ {0}
    /\ PageSize \in Nat /\ HeaderSize < PageSize
    /\ HugePage \in Nat \ {0} /\ HugePage % PageSize = 0
    /\ NHuge \in Nat \ {0}
    /\ WordSize \in Nat /\ WordSize > 2 * NHuge * HugePage
    /\ WordSize % HugePage = 0
    /\ Sizes \subseteq 0 .. WordSize - 1
    /\ Arrays \subseteq [count : 1 .. WordSize - 1, elem : 1 .. WordSize - 1]
    /\ \A a \in Alignments : a \in Nat /\ a >= PageSize

VARIABLES
    heap,       \* header address -> [size, free, next]
    live,       \* allocations the callers hold
    pc,         \* "idle", "scan" in an allocation, "coalesce" in a free
    cur,        \* the block the loop is at
    req,        \* the allocation under way
    last        \* outcome of the last call: "none", "ok", "enomem", "freed"

vars == <<heap, live, pc, cur, req, last>>

Nil == -1
HeapSize == NHuge * HugePage
Blocks == DOMAIN heap
Total(r) == r.count * r.elem

NoReq == [size |-> 0, count |-> 0, elem |-> 1, align |-> PageSize]

\* hostmem_heap_init: one free block.  Its size counts its header; so does
\* the size of whatever block is last later on.
InitialHeap == [a \in {0} |-> [size |-> HeapSize, free |-> TRUE, next |-> Nil]]

Init ==
    /\ heap = InitialHeap
    /\ live = {}
    /\ pc = "idle"
    /\ cur = Nil
    /\ req = NoReq
    /\ last = "none"

-----------------------------------------------------------------------------
(***************************************************************************)
(* Allocation.                                                             *)
(***************************************************************************)
\* hostmem_heap_block_alloc_aligned rounds up to whole pages, in size_t.
RoundToPages(size) == ((size + PageSize - 1) % WordSize) \div PageSize

\* Mutant of Rejected: the hugepage need not be a multiple of the element.
RejectedBySize(r) ==
    \/ r.count > (WordSize - 1) \div r.elem
    \/ r.elem > HugePage

\* The checks before the loop; a rejected call changes nothing.
Rejected(r) ==
    \/ r.count > (WordSize - 1) \div r.elem
    \/ r.elem > HugePage
    \/ Total(r) > HugePage /\ HugePage % r.elem # 0

StartScan(r) ==
    /\ pc = "idle"
    /\ Cardinality(live) < MaxLive
    /\ ~Rejected(r)
    /\ pc' = "scan"
    /\ cur' = 0
    /\ req' = r
    /\ UNCHANGED <<heap, live, last>>

AllocAligned ==
    \E size \in Sizes, align \in Alignments :
        StartScan([size |-> size, count |-> RoundToPages(size), elem |-> PageSize,
                   align |-> align])

AllocArray ==
    \E a \in Arrays :
        StartScan([size |-> Total(a), count |-> a.count, elem |-> a.elem,
                   align |-> PageSize])

\* Header and data, in size_t.
Needed == (Total(req) + req.align) % WordSize

Fits(b) == heap[b].free /\ heap[b].size >= Needed

\* What is left of the block's hugepage, and how far its end is from being
\* an element boundary of an array placed in this block.
HpageRemaining(b) == HugePage - (b % HugePage)
Disalignment(b) == ((HpageRemaining(b) - req.align) % WordSize) % req.elem

Crosses(b) == HpageRemaining(b) < Needed

NeedsGap(b) == Crosses(b) /\ Disalignment(b) # 0

\* A free block of the given size behind the first len units of block b,
\* header included.
Cut(b, len, size, rest, free) ==
    [a \in Blocks \cup {b + len} |->
        CASE a = b -> [size |-> size, free |-> free, next |-> b + len]
          [] a = b + len -> [size |-> rest, free |-> TRUE, next |-> heap[b].next]
          [] OTHER -> heap[a]]

\* Mutant of ScanSkip: the walk starts over at the end of the list.
ScanSkipRound ==
    /\ pc = "scan" /\ cur # Nil
    /\ ~Fits(cur)
    /\ cur' = IF heap[cur].next = Nil THEN 0 ELSE heap[cur].next
    /\ UNCHANGED <<heap, live, pc, req, last>>

ScanSkip ==
    /\ pc = "scan" /\ cur # Nil
    /\ ~Fits(cur)
    /\ cur' = heap[cur].next
    /\ UNCHANGED <<heap, live, pc, req, last>>

\* Mutant of ScanGap: the walk goes on behind the block it just made.
ScanGapSkips ==
    /\ pc = "scan" /\ cur # Nil
    /\ Fits(cur) /\ NeedsGap(cur)
    /\ LET gap == Disalignment(cur)
       IN heap' = Cut(cur, req.align + gap, gap,
                      (heap[cur].size - req.align - gap) % WordSize, TRUE)
    /\ cur' = heap[cur].next
    /\ UNCHANGED <<live, pc, req, last>>

\* Leave a free gap in front, so that elements do not cross hugepages, and
\* go on with the block behind it.
ScanGap ==
    /\ pc = "scan" /\ cur # Nil
    /\ Fits(cur) /\ NeedsGap(cur)
    /\ LET gap == Disalignment(cur)
       IN /\ heap' = Cut(cur, req.align + gap, gap,
                         (heap[cur].size - req.align - gap) % WordSize, TRUE)
          /\ cur' = cur + req.align + gap
    /\ UNCHANGED <<live, pc, req, last>>

Remaining(b) == heap[b].size - Needed

\* Mutant of Taken: the header of the rest is not paid for.
TakenWithoutHeader(b) ==
    IF Remaining(b) > HeaderSize
    THEN Cut(b, Needed, Total(req), Remaining(b) + req.align, FALSE)
    ELSE [heap EXCEPT ![b].free = FALSE]

\* Mutant of Taken: the rest starts one header too early.
TakenTooShort(b) ==
    IF Remaining(b) > HeaderSize
    THEN Cut(b, Total(req), Total(req), Remaining(b), FALSE)
    ELSE [heap EXCEPT ![b].free = FALSE]

\* Split off what is not needed, unless it could not hold a header.
Taken(b) ==
    IF Remaining(b) > HeaderSize
    THEN Cut(b, Needed, Total(req), Remaining(b), FALSE)
    ELSE [heap EXCEPT ![b].free = FALSE]

ScanTake ==
    /\ pc = "scan" /\ cur # Nil
    /\ Fits(cur) /\ ~NeedsGap(cur)
    /\ heap' = Taken(cur)
    /\ live' = live \cup {[ptr |-> cur + req.align, req |-> req]}
    /\ pc' = "idle"
    /\ cur' = Nil
    /\ last' = "ok"
    /\ UNCHANGED req

ScanFail ==
    /\ pc = "scan" /\ cur = Nil
    /\ pc' = "idle"
    /\ last' = "enomem"
    /\ UNCHANGED <<heap, live, cur, req>>

-----------------------------------------------------------------------------
(***************************************************************************)
(* Free: the header is looked for one page in front of the pointer.        *)
(***************************************************************************)
BlockFree(a) ==
    /\ pc = "idle"
    /\ live' = live \ {a}
    /\ heap' = [b \in Blocks |->
                   IF b = a.ptr - PageSize THEN [heap[b] EXCEPT !.free = TRUE]
                                           ELSE heap[b]]
    /\ pc' = "coalesce"
    /\ cur' = 0
    /\ UNCHANGED <<req, last>>

Mergeable(b) == heap[b].next # Nil /\ heap[b].free /\ heap[heap[b].next].free

\* Mutant of Merged: the merged block forgets the header between the two.
MergedWithoutHeader(b) ==
    LET n == heap[b].next
    IN [a \in Blocks \ {n} |->
          IF a = b THEN [heap[n] EXCEPT !.size = @ + heap[b].size] ELSE heap[a]]

Merged(b) ==
    LET n == heap[b].next
    IN [a \in Blocks \ {n} |->
          IF a = b THEN [heap[n] EXCEPT !.size = @ + PageSize + heap[b].size]
                   ELSE heap[a]]

CoalesceMerge ==
    /\ pc = "coalesce" /\ cur # Nil
    /\ Mergeable(cur)
    /\ heap' = Merged(cur)
    /\ UNCHANGED <<live, pc, cur, req, last>>

CoalesceStep ==
    /\ pc = "coalesce" /\ cur # Nil
    /\ heap[cur].next # Nil /\ ~Mergeable(cur)
    /\ cur' = heap[cur].next
    /\ UNCHANGED <<heap, live, pc, req, last>>

CoalesceDone ==
    /\ pc = "coalesce"
    /\ IF cur = Nil THEN TRUE ELSE heap[cur].next = Nil
    /\ pc' = "idle"
    /\ cur' = Nil
    /\ last' = "freed"
    /\ UNCHANGED <<heap, live, req>>

Scan == ScanSkip \/ ScanGap \/ ScanTake \/ ScanFail

Coalesce == CoalesceMerge \/ CoalesceStep \/ CoalesceDone

Next ==
    \/ AllocAligned
    \/ AllocArray
    \/ \E a \in live : BlockFree(a)
    \/ Scan
    \/ Coalesce

\* A call runs to its end; callers need not call.
Spec == Init /\ [][Next]_vars /\ WF_vars(Scan \/ Coalesce)
-----------------------------------------------------------------------------
Addresses == 0 .. HeapSize - 1

TypeOK ==
    /\ Blocks \subseteq Addresses
    /\ \A b \in Blocks :
          heap[b] \in [size : 0 .. HeapSize, free : BOOLEAN,
                       next : Addresses \cup {Nil}]
    /\ \A a \in live : a.ptr \in 0 .. HeapSize
    /\ pc \in {"idle", "scan", "coalesce"}
    /\ cur \in Addresses \cup {Nil}
    /\ last \in {"none", "ok", "enomem", "freed"}

Bytes(a) == a.ptr .. a.ptr + Total(a.req) - 1
Header(b) == b .. b + HeaderSize - 1

\* The blocks tile the heap: each ends where the next one begins, the last
\* one at the end of the heap, though its size counts its header and that of
\* the others does not.  Splitting, gaps and merging all rest on it.
BlocksTile ==
    /\ 0 \in Blocks
    /\ \A b \in Blocks :
          IF heap[b].next = Nil
          THEN b + heap[b].size = HeapSize
          ELSE /\ heap[b].next \in Blocks
               /\ heap[b].next = b + PageSize + heap[b].size

\* Memory handed out lies in the heap and overlaps no other allocation and no
\* header, so that data written to a buffer cannot destroy the block list.
AllocationsDisjoint ==
    /\ \A a \in live : Bytes(a) \subseteq Addresses
    /\ \A a, c \in live : a # c => Bytes(a) \cap Bytes(c) = {}
    /\ \A a \in live, b \in Blocks : Bytes(a) \cap Header(b) = {}

\* No element of an array crosses a hugepage, so each is physically
\* contiguous and one translation serves it.
ElementsContiguous ==
    \A a \in live : \A k \in 0 .. a.req.count - 1 :
        LET first == a.ptr + k * a.req.elem
        IN first \div HugePage = (first + a.req.elem - 1) \div HugePage

\* A heap whose allocations were all freed is the initial heap again: no
\* sequence of calls loses memory or leaves it in pieces.
AllFreedRestoresHeap == (live = {} /\ last = "freed" /\ pc = "idle") => heap = InitialHeap

\* An allocation fails only if no block could have been taken for it.
FailsOnlyWhenNothingFits ==
    (pc = "scan" /\ cur = Nil) => \A b \in Blocks : Fits(b) => NeedsGap(b)

\* Every call ends: neither loop chases blocks of its own making for ever.
EveryCallEnds == pc # "idle" ~> pc = "idle"
-----------------------------------------------------------------------------
\* "Free the DMA-capable memory pointed to by ptr": what is no longer held
\* is free.  It is with the alignment that free presumes, and with no other.
FreedMemoryIsFree ==
    pc = "idle" => Cardinality({b \in Blocks : ~heap[b].free}) = Cardinality(live)

\* "Allocate `size` bytes": what a caller gets has as many bytes as it asked
\* for, inside the heap.  RoundToPages wraps for sizes close to SIZE_MAX.
AllocationsHoldSize == \A a \in live : a.ptr + a.req.size <= HeapSize
=============================================================================
