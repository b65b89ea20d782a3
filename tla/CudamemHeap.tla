---------------------------- MODULE CudamemHeap ----------------------------
(***************************************************************************)
(* The heap in GPU memory, cudamem_heap.h, its front end cudamem_dma.h and *)
(* the dma-buf that tells where the memory is, dmabuf.h.  hipmem_heap.h is *)
(* the same code renamed, except that it rounds the size of the heap up.   *)
(*                                                                         *)
(* Unlike the hugepage heap the block list is in host memory: a block is   *)
(* [vaddr, size, free] and has no header.  blocks is the list in order.    *)
(* Addresses are offsets from heap->vaddr.  A call of the allocator runs   *)
(* one iteration of its loop per action.                                   *)
(***************************************************************************)
EXTENDS Integers, Sequences, FiniteSets, SequencesExt, Dmabuf

CONSTANTS
    PageSize,       \* config->pagesize, page of the host
    DevicePage,     \* config->device_pagesize
    RoundTo,        \* the size of the heap is rounded up to it (1 on CUDA)
    InitSizes,      \* sizes callers give to init
    DmaRuns,        \* external: the runs the driver reports for the heap's memory
    Sizes,          \* sizes callers allocate
    Alignments,     \* the alignments they ask for, powers of two
    Arrays,         \* [count, elem] of array allocations
    MaxLive         \* bound: allocations alive at a time

ASSUME CudamemAssumption ==
    /\ PageSize \in Nat \ {0}
    /\ DevicePage \in Nat \ {0} /\ DevicePage % PageSize = 0
    /\ RoundTo \in Nat \ {0}
    /\ InitSizes \subseteq Nat \ {0}
    /\ Sizes \subseteq Nat \ {0} /\ Alignments \subseteq Nat \ {0}
    /\ Arrays \subseteq [count : Nat \ {0}, elem : Nat \ {0}]
    /\ \A i \in DOMAIN DmaRuns : DmaRuns[i] \in [addr : Nat, len : Nat]

VARIABLES
    blocks,     \* the list behind heap->freelist of a heap that is up
    size,       \* heap->size of a heap that is up
    held,       \* what init has taken from the system and nobody given back
    kept,       \* history: the part of held that a failing detach left
    up,         \* between a successful init and term
    live,       \* allocations the callers hold
    pc,         \* "idle", "scan" in an allocation, "sweep" in a free, "init",
                \* or the label reached on the way out of init and through term
    step,       \* step of init under way
    cur,        \* position of the block the loop is at
    req         \* the allocation, pointer or size of the call under way

takenVars == <<held, kept, step>>
callVars == <<cur, req>>
vars == <<blocks, size, up, live, pc, takenVars, callVars>>

RoundUp(n, to) == ((n + to - 1) \div to) * to

NoReq == [total |-> 0, elem |-> 1, count |-> 0]

Init ==
    /\ blocks = <<>>
    /\ size = 0
    /\ held = {}
    /\ kept = {}
    /\ up = FALSE
    /\ live = {}
    /\ pc = "idle"
    /\ step = 0
    /\ cur = 0
    /\ req = NoReq

-----------------------------------------------------------------------------
(***************************************************************************)
(* Init and term, a step at a time.  A resource is named with the life of  *)
(* the heap it was taken in: memset, at the start of init, forgets what an *)
(* earlier life could not give back, and gives nothing back itself.        *)
(***************************************************************************)
This(names) == {"this"} \X names
Older(resources) == {"earlier"} \X {r[2] : r \in resources}

\* The steps of init with what each takes; from the fourth to the eighth
\* they are those of dmabuf_attach, where GET_MAP takes nothing, as filling
\* the table at the end does.
InitTakes == <<{"memory"}, {"fd"}, {"freelist"},
               {"udmabuf"}, {"attachment"}, {"map"}, {}, {"pages"},
               {"phys_lut"}, {}>>
Attached == 8
Filled == 10

\* The label exit of dmabuf_attach frees map and closes /dev/udmabuf, after
\* a success too.
ExitFrees == {"map", "udmabuf"}

HeapTakes == {"memory", "fd", "freelist", "attachment", "pages", "phys_lut"}

\* Mutant of OnFailure: the label of the earlier steps also after the
\* attachment.
OnFailureNoDetach == <<"idle", "error", "error",
                       "error", "exit", "undo", "undo", "undo",
                       "error", "error">>

\* Where init goes on when a step fails; "undo" is the ioctl that detaches
\* on the error paths of dmabuf_attach.
OnFailure == <<"idle", "error", "error",
               "error", "exit", "undo", "undo", "undo",
               "detach", "detach">>

\* heap->phys_lut, an entry per device page.
PhysLut == LutEntries(DmaRuns, DevicePage)

InitStart(asked) ==
    /\ pc = "idle" /\ ~up
    /\ held' = Older(held) /\ kept' = Older(kept)
    /\ pc' = "init" /\ step' = 1
    /\ req' = [NoReq EXCEPT !.total = RoundUp(asked, RoundTo)]
    /\ UNCHANGED <<blocks, size, up, live, cur>>

InitTake ==
    /\ pc = "init" /\ step < Filled
    /\ held' = (held \cup This(InitTakes[step]))
                  \ (IF step = Attached THEN This(ExitFrees) ELSE {})
    /\ step' = step + 1
    /\ UNCHANGED <<blocks, size, kept, up, live, pc, callVars>>

TableFits == LutFits(DmaRuns, req.total \div DevicePage, DevicePage)

\* Any step fails, the last one if the table comes out too short or too long.
InitFail ==
    /\ pc = "init" /\ (step = Filled => ~TableFits)
    /\ pc' = OnFailure[step] /\ step' = 0
    /\ UNCHANGED <<blocks, size, held, kept, up, live, callVars>>

\* The table came out complete; one free block spans the heap.
InitDone ==
    /\ pc = "init" /\ step = Filled /\ TableFits
    /\ up' = TRUE
    /\ size' = req.total
    /\ blocks' = <<[vaddr |-> 0, size |-> req.total, free |-> TRUE]>>
    /\ pc' = "idle" /\ step' = 0
    /\ UNCHANGED <<held, kept, live, callVars>>

\* Callers free their memory first.
TermStart ==
    /\ pc = "idle" /\ up /\ live = {}
    /\ up' = FALSE
    /\ blocks' = <<>>
    /\ size' = 0
    /\ pc' = "detach"
    /\ UNCHANGED <<live, takenVars, callVars>>

\* What is given back at a label, and the label behind it; left is what a
\* failing call leaves of it.
GiveBack(names, left, next) ==
    /\ held' = held \ This(names \ left)
    /\ kept' = kept \cup This(left)
    /\ pc' = next
    /\ UNCHANGED <<blocks, size, up, live, step, callVars>>

AttachUndo ==
    /\ pc = "undo"
    /\ \E left \in {{}, {"attachment"}} : GiveBack({"attachment"}, left, "exit")

AttachExit == pc = "exit" /\ GiveBack(ExitFrees, {}, "error")

InitError ==
    /\ pc = "error"
    /\ GiveBack({"freelist", "phys_lut", "fd", "memory"}, {}, "idle")

\* dmabuf_detach: without /dev/udmabuf it frees the pages and no more; when
\* the ioctl fails it still closes the file descriptor.
DmabufDetach ==
    /\ pc = "detach"
    /\ \E left \in {{}, {"attachment"}, {"attachment", "fd"}} :
          GiveBack({"pages", "attachment", "fd"}, left, "rest")

\* The rest of term, and of init's label error_after_attach.
HeapRest == pc = "rest" /\ GiveBack({"freelist", "phys_lut", "memory"}, {}, "idle")

HeapInit ==
    \/ \E asked \in InitSizes : InitStart(asked)
    \/ InitTake \/ InitFail \/ InitDone
    \/ AttachUndo \/ AttachExit \/ InitError

HeapTerm == TermStart \/ DmabufDetach \/ HeapRest

-----------------------------------------------------------------------------
(***************************************************************************)
(* Allocation.                                                             *)
(***************************************************************************)
\* Mutant of Rejected: the device page need not be a multiple of the element.
RejectedBySize(count, elem) == elem > DevicePage

Rejected(count, elem) ==
    \/ elem > DevicePage
    \/ count * elem > DevicePage /\ DevicePage % elem # 0

StartScan(count, elem, align) ==
    /\ up /\ pc = "idle"
    /\ Cardinality(live) < MaxLive
    /\ ~Rejected(count, elem)
    /\ pc' = "scan"
    /\ cur' = 1
    /\ req' = [total |-> RoundUp(count * elem, align), elem |-> elem, count |-> count]
    /\ UNCHANGED <<blocks, size, takenVars, up, live>>

AllocAligned ==
    \E n \in Sizes, align \in Alignments :
        StartScan(RoundUp(n, PageSize) \div PageSize, PageSize, align)

AllocArray == \E a \in Arrays : StartScan(a.count, a.elem, PageSize)

\* Mutant of Fits: room for one element.
FitsElement(b) == b.free /\ b.size >= req.elem

Fits(b) == b.free /\ b.size >= req.total
DpageRemaining(b) == DevicePage - (b.vaddr % DevicePage)
Disalignment(b) == DpageRemaining(b) % req.elem
NeedsGap(b) == DpageRemaining(b) < req.total /\ Disalignment(b) # 0

\* Block i cut in two: its first len units, and a free block with the rest.
CutAt(i, len, free) ==
    LET b == blocks[i]
    IN ReplaceAt(InsertAt(blocks, i + 1, [vaddr |-> b.vaddr + len,
                                          size |-> b.size - len, free |-> TRUE]),
                 i, [vaddr |-> b.vaddr, size |-> len, free |-> free])

ScanSkip ==
    /\ pc = "scan" /\ cur <= Len(blocks)
    /\ ~Fits(blocks[cur])
    /\ cur' = cur + 1
    /\ UNCHANGED <<blocks, size, takenVars, up, live, pc, req>>

ScanGap ==
    /\ pc = "scan" /\ cur <= Len(blocks)
    /\ Fits(blocks[cur]) /\ NeedsGap(blocks[cur])
    /\ blocks' = CutAt(cur, Disalignment(blocks[cur]), TRUE)
    /\ cur' = cur + 1
    /\ UNCHANGED <<size, takenVars, up, live, pc, req>>

\* Mutant of Taken: the rest of the block goes with it.
TakenWhole(i) ==
    IF blocks[i].size > req.total + PageSize
    THEN CutAt(i, req.total, FALSE)
    ELSE ReplaceAt(blocks, i, [blocks[i] EXCEPT !.size = req.total, !.free = FALSE])

Taken(i) ==
    IF blocks[i].size # req.total
    THEN CutAt(i, req.total, FALSE)
    ELSE ReplaceAt(blocks, i, [blocks[i] EXCEPT !.free = FALSE])

ScanTake ==
    /\ pc = "scan" /\ cur <= Len(blocks)
    /\ Fits(blocks[cur]) /\ ~NeedsGap(blocks[cur])
    /\ blocks' = Taken(cur)
    /\ live' = live \cup {[ptr |-> blocks[cur].vaddr, elem |-> req.elem, count |-> req.count]}
    /\ pc' = "idle"
    /\ cur' = 0
    /\ UNCHANGED <<size, takenVars, up, req>>

\* The end of the list, or no host memory for the description of a block.
ScanFail ==
    /\ pc = "scan"
    /\ cur \in DOMAIN blocks =>
          /\ Fits(blocks[cur])
          /\ NeedsGap(blocks[cur]) \/ blocks[cur].size # req.total
    /\ pc' = "idle"
    /\ cur' = 0
    /\ UNCHANGED <<blocks, size, takenVars, up, live, req>>

-----------------------------------------------------------------------------
(***************************************************************************)
(* Free: marks the block at the pointer and merges free neighbours in one  *)
(* walk, looking at a block and the one behind it.                         *)
(***************************************************************************)
BlockFree(a) ==
    /\ up /\ pc = "idle"
    /\ live' = live \ {a}
    /\ req' = [req EXCEPT !.total = a.ptr]
    /\ pc' = "sweep"
    /\ cur' = 1
    /\ UNCHANGED <<blocks, size, takenVars, up>>

Mark(b) == IF b.vaddr = req.total THEN [b EXCEPT !.free = TRUE] ELSE b

\* The block at cur and its successor, the pointer's block marked.
Here == Mark(blocks[cur])
Behind == Mark(blocks[cur + 1])

SweepMerge ==
    /\ pc = "sweep" /\ cur < Len(blocks)
    /\ Here.free /\ Behind.free
    /\ blocks' = ReplaceAt(RemoveAt(blocks, cur + 1), cur,
                           [Here EXCEPT !.size = @ + Behind.size])
    /\ UNCHANGED <<size, takenVars, up, live, pc, cur, req>>

\* Mutant of SweepStep: only the block at hand is looked at for the pointer.
SweepStepNoLookahead ==
    /\ pc = "sweep" /\ cur < Len(blocks)
    /\ ~(Here.free /\ blocks[cur + 1].free)
    /\ blocks' = ReplaceAt(blocks, cur, Here)
    /\ cur' = cur + 1
    /\ UNCHANGED <<size, takenVars, up, live, pc, req>>

SweepStep ==
    /\ pc = "sweep" /\ cur < Len(blocks)
    /\ ~(Here.free /\ Behind.free)
    /\ blocks' = ReplaceAt(ReplaceAt(blocks, cur, Here), cur + 1, Behind)
    /\ cur' = cur + 1
    /\ UNCHANGED <<size, takenVars, up, live, pc, req>>

SweepLast ==
    /\ pc = "sweep" /\ cur = Len(blocks)
    /\ blocks' = ReplaceAt(blocks, cur, Here)
    /\ pc' = "idle"
    /\ cur' = 0
    /\ UNCHANGED <<size, takenVars, up, live, req>>

Scan == ScanSkip \/ ScanGap \/ ScanTake \/ ScanFail
Sweep == SweepMerge \/ SweepStep \/ SweepLast

Next ==
    \/ HeapInit
    \/ HeapTerm
    \/ AllocAligned
    \/ AllocArray
    \/ \E a \in live : BlockFree(a)
    \/ Scan
    \/ Sweep

Spec == Init /\ [][Next]_vars
-----------------------------------------------------------------------------
Block == [vaddr : 0 .. size, size : 0 .. size, free : BOOLEAN]

TypeOK ==
    /\ size \in Nat
    /\ blocks \in Seq(Block)
    /\ held \subseteq {"this", "earlier"} \X (HeapTakes \cup ExitFrees)
    /\ kept \subseteq held
    /\ up \in BOOLEAN
    /\ \A a \in live : a.ptr \in Nat /\ a.elem \in Nat /\ a.count \in Nat
    /\ pc \in {"idle", "scan", "sweep"} \cup {"init", "undo", "exit", "error", "detach", "rest"}
    /\ step \in 0 .. Filled
    /\ cur \in 0 .. Len(blocks) + 1

End(b) == b.vaddr + b.size

\* No element of a crosses a device page, so each is physically contiguous.
InsideDpages(a) ==
    \A k \in 0 .. a.count - 1 :
        LET first == a.ptr + k * a.elem
        IN first \div DevicePage = (first + a.elem - 1) \div DevicePage

\* The list tiles the heap without an empty block, and the blocks that are
\* taken are those of the allocations alive, each large enough: through
\* gaps, splits and merges no memory is lost or handed out twice.
BlocksServeAllocations ==
    (up /\ pc # "sweep") =>
        /\ blocks[1].vaddr = 0 /\ End(Last(blocks)) = size
        /\ \A i \in 1 .. Len(blocks) - 1 : End(blocks[i]) = blocks[i + 1].vaddr
        /\ \A i \in DOMAIN blocks : blocks[i].size > 0
        /\ {b.vaddr : b \in {c \in ToSet(blocks) : ~c.free}} = {a.ptr : a \in live}
        /\ \A a \in live, b \in ToSet(blocks) :
              b.vaddr = a.ptr => b.size >= a.count * a.elem

\* A free leaves no two free neighbours, wherever the block was and whatever
\* gaps allocations, failed ones too, had cut: once everything is freed the
\* heap is one block again.
FreeMergesAll ==
    [][pc = "sweep" /\ pc' = "idle" =>
          \A i \in 1 .. Len(blocks') - 1 : ~(blocks'[i].free /\ blocks'[i + 1].free)]_vars

\* Between calls the process holds everything init took exactly while the
\* heap is up, and otherwise nothing but what a detach that failed itself
\* left: whatever step of init or of the attachment in it failed, the label
\* it jumps to gives back what was taken by then, over any number of lives.
HoldsOnlyWhileUp ==
    pc \in {"idle", "scan", "sweep"} =>
        held = kept \cup This(IF up THEN HeapTakes ELSE {})
=============================================================================
