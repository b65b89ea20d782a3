# Verification of uPCIe

uPCIe is a header-only C library with which a process, or a kernel on a GPU,
drives an NVMe controller without the operating system in the I/O path: it maps
the controller's registers, allocates DMA memory from hugepages, builds
submission and completion rings in that memory, and polls. Everything lives in
`src/include/upcie`; there are no threads of its own and no interrupts. What is
concurrent is the *controller*, which reads and writes the same memory.

This directory holds TLA+ models of that code, TLC configurations for small
instances, and proofs checked with TLAPS. The first part of this file is the
inventory and the plan; the second describes what exists.

## 1. Inventory

| Component | State it keeps | Operations | Interacts with |
|---|---|---|---|
| Request pool (`nvme/nvme_request.h`) | LIFO stack of free cids, `reqs[cid].user`, PRP list pages | init, term, alloc, free, get | queue pair, its callers |
| Queue pair (`nvme/nvme_qpair.h`) | both rings, tail, last written tail, head, phase; doorbell registers | init, term, enqueue, sqdb_update, reap_cpl | controller (shared memory and doorbells), request pool |
| Synchronous submission (`nvme_qpair_submit_sync*`) | none of its own | one call: alloc, enqueue, ring, poll, free | queue pair; its late answers |
| PRP builders (`nvme_request.h`, `_cuda`, `_hip`) | the PRP page of a request | contig, iov | heap address translation, controller |
| Host heap (`hostmem_heap.h`, `hostmem_dma.h`) | block list in the heap itself, `phys_lut` | init, alloc (three forms), free, translation | hugepages; every other component allocates here |
| Hugepages (`hostmem_hugepage.h`) | file, mapping, lock | alloc, import, free | other processes, by file |
| Queue identifiers (`nvme/nvme_qid.h`) | bitmap | alloc, free | controller lifecycle |
| Controller lifecycle (`nvme/nvme_controller.h`, `nvme_mmio.h`) | buffer, BAR mapping, admin queue, qid bitmap; CC/CSTS | open, close, create and delete I/O queue pair | all of the above |
| Controller over VFIO (`nvme/nvme_controller_vfio.h`) | container, group, device, DMA mappings | open, close | lifecycle, kernel |
| GPU queue pair and controller (`nvme/*_cuda.h`) | rings in device memory | io, submit and reap by the threads of a block | GPU scheduler, controller |
| Device heaps (`cudamem_heap.h`, `hipmem_heap.h`) | block list beside the heap | init, alloc, free | driver |
| Device mappings (`cudamem_mapping.h`, `hipmem_mapping.h`) | registered chunks with reference counts | add, remove, clear, lookup | dma-buf import, kernel |
| PCI, MMIO, bit fields, configuration, debug | a mapping, or nothing | wrappers | kernel |

What is hard in it:

* **Shared rings.** Host and controller own parts of the rings, told apart by
  indices that wrap and a phase tag that flips each lap. Neither `enqueue` nor
  `reap_cpl` tests for a full ring. That nothing is lost follows from no single
  function: it depends on how many requests the caller keeps outstanding.
* **Completion in any order**, matched by a cid that is reused at once (LIFO).
* **Timeouts.** A call may give up while its command is in flight. The
  completion comes later and is found by whoever polls next.
* **Block lists.** Splits, gaps for hugepage alignment and coalescing change the
  list while walking it, with two meanings of `size` (the last block's counts
  its header).
* **Half-done setup.** Open and create take five or more resources in order;
  every error path should give back exactly what was taken, while a controller
  that is still enabled may write to the memory.
* **Reference counts** over overlapping registrations, with unwinding.
* **Barriers** of a GPU block around indices every thread computes from.

`PROJECT.json` lists each hazard with its line under "hazards" and each component
with its status. What makes each component correct:

* request pool and queue pair: a cid is in exactly one place; a completion is
  seen once, exactly when it is there, and belongs to the command submitted; no
  ring entry is overwritten; every command comes back;
* synchronous submission: a call returns its own completion, or an error, and
  what it cost is bounded;
* heaps: blocks tile the memory; allocations overlap neither each other nor
  headers; elements are physically contiguous; freeing everything restores the
  initial block; allocation fails only when nothing fits;
* lifecycle and VFIO: after close, and after every failed open or create,
  nothing is held, and nothing the controller may still write has been reused;
* mappings: a chunk is attached exactly while some registration covers it;
* PRPs: the list names, in order, the physical page of every page of the buffer.

## 2. Plan

Modules in order of importance; all of them exist. Weaker memory orders are not
planned (section 8).

| Module | Of | Composes / refines | Theorems worth proving |
|---|---|---|---|
| `NvmeRequestPool` | request pool | | |
| `NvmeCommandService` | abstract: two FIFO channels | | |
| `NvmeQpair` | queue pair, controller | extends the pool; implements the service | types, conservation of cids, phase tags, rings, step refinement of the service (done) |
| `NvmeSync` | submit_sync | extends `NvmeQpair` | types, one request lost per timeout, backlog, own completion (done) |
| `HostmemHeap` | block allocator | | types, blocks tile the heap, allocations disjoint and large enough, elements contiguous, everything freed restores, failure only when nothing fits (done) |
| `NvmePrps` | PRP builders as operators | reference: the controller's reading | each builder describes every buffer it accepts, and refuses no other (done) |
| `HostmemPrps`, `CudamemPrps`, `CudamemMappingPrps` | translation and commands over each kind of memory | a heap or the registry with `NvmePrps` | commands reach exactly the bytes of allocations and registered buffers (done) |
| `CudamemMapping` | registrations of device memory | | types, reference count = number of covering registrations, attached while referenced, translations stay (done) |
| `CudamemHeap`, `Dmabuf` | device heap | | types, the list tiles the heap and serves the allocations, a free merges all, what is held, elements inside device pages (done) |
| `NvmeRegs`, `NvmeQid` | registers; bitmap | | a found identifier is tracked and free |
| `NvmeAdmin`, `NvmeController` | registers and admin commands; open, close, create, delete | extends the two above | with the next two |
| `NvmeControllerVfio` | VFIO setup and teardown | extends `NvmeController` | with the next one |
| `NvmeControllerCuda` | queue pairs in GPU memory; the composition of all of the lifecycle | extends `NvmeControllerVfio` | types, admin queue set up when stopped, closed holds nothing, mappings outlive, queues backed, queue pairs usable (done) |
| `NvmeQpairCuda` | batch by a thread block | | a round reaps its batch, a rung slot holds its batch (done) |

Proved so far: the queue pair, synchronous submission, the registry, the
lifecycle, the GPU queue pair, the heap on hugepages, the heap in GPU memory, and
the PRP builders on all three kinds of memory (section 6). No module that is proved about uses a recursive operator.

## 3. What is modelled

### `NvmeRequestPool`

`stack` is `pool->stack[0..top-1]`, `user` is `reqs[cid].user`. `owned` is not in
the code: it is the set of cids a caller holds between alloc and enqueue, or
between reap and free. `aborted` is a failed `assert()`. The memory that alloc
and free also clear in `nvme_request` carries no decision and is left out.

### `NvmeQpair`

| Model | Code |
|---|---|
| `sq`, `cq` | rings in DMA memory, stale entries included; each entry with cid, operation, and for `cq` phase tag |
| `tail`, `tailLast`, `head`, `phase` | `qp->tail`, `tail_last_written` (0xFFFF at first), `head`, `phase` |
| `sqdb`, `cqdb` | the doorbell registers in BAR0 |
| `NvmeRequestAlloc/Free` | `nvme_request_alloc`, `nvme_request_free` |
| `Enqueue`, `SqdbUpdate`, `ReapCpl` | `nvme_qpair_enqueue`, `nvme_qpair_sqdb_update`, `nvme_qpair_reap_cpl` |
| `sqHead`, `exec`, `cqTail`, `cqPhase`, `Fetch`, `Post` | the controller (external): fetches in order up to the doorbell, completes in any order, writes no completion into a ring that is full as far as `cqdb` tells |
| `ClientAlloc`, `ClientEnqueue`, `ClientFree` | a single-threaded asynchronous caller (external): any order and batching, at most `QueueLimit` requests out |

A host operation is one action. That is sound because in each the doorbell store
is the last one and the only one that gives the controller something to act on.
That the controller sees the stores in program order, and that the host reads
the rest of a completion after its phase tag, is true of x86 and assumed here.
The code has no barrier between them, though `barriers.h` offers them for ARM.

`QueueLimit <= Depth - 1` and `QueueLimit <= PoolLen` are assumptions on the
caller: with `Depth` commands outstanding the ring looks empty. Nothing in the
code checks either; the pool has 1024 requests and the rings up to 1024 slots.

`NvmeCommandService` is what the queue pair promises without rings: a set of
idle cids, one FIFO of submitted commands, a set in execution, one FIFO of
completions. `NvmeQpair!Service` maps the rings to the FIFOs.

### `NvmeSync`

`nvme_qpair_submit_sync`, whose `_contig_prps` and `_iov_prps` forms differ only
in the PRP fields. Each step of the call is an action, so the controller moves
between any two. `CallTimeout` may happen whenever the poll finds nothing; time
is not modelled. Call *n* asks for operation *n*, so a completion tells which
call it answers. The call after a timeout is one the library makes itself
(`nvme_controller_delete_io_qpair`).

### `HostmemHeap`

`heap` maps the address of each block header to `[size, free, next]`; addresses
are offsets into the heap. The three entry points of allocation are
`AllocAligned` (which also stands for the unaligned form) and `AllocArray`; the
loop of the scan and that of coalescing take one action per iteration.
`size_t` arithmetic is modulo `WordSize`, wherever the code's can wrap: the rounding
of sizes, the sum of data and header (`Needed`), the gap. `live` is not in the code:
the pointers handed out, each with the call it answers. One thread uses a heap, as in the code, which has no lock.

### `NvmePrps` and what uses it

The builders of `nvme_request.h` and `nvme_request_cuda.h` are operators from a
buffer to a data pointer `[prp1, prp2, list]`: `PrepContig` strides through
physical memory and translates again at the end of each hugepage or device page
(`StridesLeft`), `PrepContigMapped` translates every page and may fail,
`PrepIov` and `PrepIovMapped` walk segments. Translation is a parameter.
`DescribesBuffer` is the other side: it follows the entries as the NVMe
specification has the controller do, whose list is an entry per page, and
compares with a byte-by-byte translation of the buffer.

`HostmemPrps`, `CudamemPrps` and `CudamemMappingPrps` put this on top of each kind
of memory, with the translation that the memory has (`V2P`, `Vtp`, `VirtToPhys`),
so the buffers are the allocations and registrations of reachable states.

### `CudamemHeap`, `Dmabuf`

| Model | Code |
|---|---|
| `blocks` | `heap->freelist`; the list is in host memory, a block is `[vaddr, size, free]` |
| `held`, `kept` | memory, descriptors, attachment, tables, first block: what init took and nobody gave back, each named with the life of the heap it belongs to (`"this"`, or `"earlier"`, which `memset` forgot); the part a failing detach left is `kept` |
| `InitStart`, `InitTake`, `InitFail`, `InitDone` | `cudamem_heap_init` with the steps of `dmabuf_attach` in it, one an action (`step`); `OnFailure` is the label a failing step jumps to |
| `AttachUndo`, `AttachExit`, `InitError` | the error paths of `dmabuf_attach` and the label `error` of init |
| `TermStart`, `DmabufDetach`, `HeapRest` | `cudamem_heap_term`, and the label `error_after_attach`, which detaches and frees the same; detaching may fail in three ways |
| `PhysLut`, `DmaRuns` | `dmabuf_get_lut` on what the driver reports (external) |
| `ScanSkip`, `ScanGap`, `ScanTake`, `ScanFail`, `SweepMerge`, `SweepStep`, `SweepLast` | an iteration of the loop of `block_alloc_aligned`, `alloc_array`, `block_free` |

`RoundTo` is 1 for `cudamem_heap.h`; `hipmem_heap.h` rounds the size up to a
device page and is otherwise the same code with other names.

### `CudamemMapping`

| Model | Code |
|---|---|
| `rc`, `attach`, `phys` | `lut_meta[chunk]`, `lut_phys[chunk]` |
| `list` | `registry->list`, newest first |
| `AddStart`, `AddShared`, `AddPopulated`, `AddFailed`, `AddDone` | `cudamem_mapping_add`, an action per chunk |
| `DerefShared`, `DerefLast`, `UnwindDone`, `RemoveStart/Done`, `ClearStart/Next`, `TermEmpty` | `chunk_deref` in the loops of the failed add, remove, clear and term |
| `ChunkPopulate`, `ChunkPopulateFails`, `Detached` | `chunk_populate`, `dmabuf_detach`; descriptors may stay open when the driver fails |

The address of a chunk is new with every attachment (`Iova`), so a translation
that outlives its attachment shows. Calls do not overlap: the registry has no
lock. `hipmem_mapping.h` is the same code renamed, with chunks of one page.

### The lifecycle: `NvmeRegs`, `NvmeQid`, `NvmeAdmin`, `NvmeController`, `NvmeControllerVfio`, `NvmeControllerCuda`

One behaviour composes them all (`NvmeControllerCuda!Spec`): a controller, a
process that opens it through sysfs or VFIO, creates and deletes queue pairs in
host or GPU memory, closes it, dies at any step, and starts over.

| Model | Code |
|---|---|
| `cc`, `rdy`, `asq`, `cap` | registers; `CcSet`, `CapGet` are the accessors of `nvme_mmio.h`, a register being the set of its 1 bits |
| `cqs`, `sqs`, `pend`, `cpls` | external: the queues the controller has, its admin commands, and the completions nobody has reaped |
| `DeviceStops`, `DeviceStarts`, `DeviceExecutes` | external: a controller that answers late, in any order, with errors, or never |
| `call` | where the call under way is: one step of open, create, delete or close is one action, so the controller moves in between |
| `owner` | what each frame of memory is in use for, by the heap's bookkeeping |
| `qids`, `qps` | `ctrlr->qids`; the queue pairs callers have, have lost (`"lost"`), or of which nothing but the identifier is left (`"spent"`) |
| `held`, `dma`, `gpu` | descriptors and mappings the struct knows; pages in the IOMMU; per queue pair on a GPU the doorbells registered with CUDA and the queues taken |
| `CudaCreateTake`, `CudaCreateFail` | creating on a GPU, a step at a time: `CudaTakes` is what each takes, `CudaUndoes` what its failure gives back |
| `OpenStart`, `Forgotten` | open's `memset`: it gives nothing back, so frames stay taken as `"lost"` and the rest goes to `forgot` |
| `doubts`, `refused`, `lateStop` | not in the code: the admin commands that timed out, the identifiers whose deletion the controller refused, whether the controller did not stop in time |
| `forgot`, `again` | not in the code: what the process still has although its struct forgot it; whether it opened again without closing |
| `Reap` | the admin queue through `nvme_qpair_submit_sync`, with what `NvmeSync` shows of it: the first completion there is, whichever command it answers |
| `FunctionReset` | external: VFIO resets the function when its descriptor is opened and closed |

Through sysfs `Fail` returns; through VFIO it continues as `close`, as the
failure label does. A queue pair whose creation failed at a command is `"lost"`:
identifier and memory stay taken. A deletion gives both back whatever the
controller answered (a GPU's keeps the identifier, `"spent"`). An open whose admin queue
has no PRP pages leaves a pointer to a freed pool, which close frees again:
undefined; the model lets the process die (as it may at any step) or go on.
Exhausting the request pool of the admin queue is in `NvmeSync`, not here.

### `NvmeQpairCuda`

`nvme_qpair_cuda_io` as the kernel of `tests/nvme_cuda_kernels.cu` calls it: every
thread of the block has its own program counter, `Syncthreads` is the barrier,
each read or write of shared memory that another thread may see is a step of its
own. `Active(t)` tells the threads of a partial last round that have no command.
The entry a thread polls is at `head + t` with the phase of the next lap behind
the wrap (`ExpectedPhase`). `ReapTimeout` is possible whenever the entry is not
there. `EntryIsNew` is the phase test with the test of the cid next to it. Head
and offset are added before they are cut to 16 bits, so the assumption keeps
`Depth + BlockDim` below that. `OldPhases` are the phase bits that the memory of the completion queue may
hold when it comes from the heap, which does not clear it.

## 4. Runs

| Run | Bounds | Shows |
|---|---|---|
| `qpair` | 3 slots, 3 cids, 2 out, 2 operations | all invariants, liveness and refinement of the service |
| `sync` | 4 slots, 4 cids, 6 calls, 2 statuses | what timeouts cost; what holds before the first |
| `heap` | 3 hugepages of 4 pages of 2 units, header 1, 3 live allocations, 6 shapes, list pages of 3 entries | tiling, disjointness, contiguity, restoration, termination, commands on the allocations |
| `devheap` | 3 device pages of 4 pages, sizes of 16, 21 and 24 units, 3 live allocations, alignments of one and two pages | init and term through every label, the block list against the live allocations, merging, commands |
| `mapping` | 5 chunks, 5 ranges, up to 3 registrations, 4 descriptors, list pages of 2 entries | exact reference counts, attachments, translations; commands exactly on what is registered |
| `controller` | identifiers 0..3 of which 0..2 have a bit, 3 host frames, 1 GPU frame, 2 hugepages, 3 capabilities, creations and deletions until 2 commands have timed out | who owns memory and identifiers through every failing, late or repeated open, create, delete, close and crash |
| `cuda` | 3 slots, 2 threads, 1, 5 or 6 commands | every round gets its own completions; the barriers hold; every thread ends |
| `sync_status`, `sync_stale`, `heap_free`, `heap_straddle`, `cuda_stale` | smaller | one disagreement with the documentation each (section 7) |

*Why the bounds suffice.* Three slots are the fewest with which two commands are
outstanding and one slot stays free; both rings wrap without bound, so every
relative position of the four indices and every phase occurs, and the proofs of
section 6 cover all other depths. `sync` has more calls than slots, so rings
wrap and every pattern of timeouts up to the size of the pool occurs, including
the pool running out. In `heap` a page holds two units and the header one, so
that a sub-page element exists; hugepages of four pages admit an element of 6
units that does not divide a hugepage (rejected for arrays longer than one), one
of 3 that does not either, and arrays that span two hugepages; three live
allocations (`MaxLive`) give every order in which a middle block is freed before,
between and after its neighbours. The word size is far above the heap, so the
modulus only matters where the code subtracts (`Disalignment`). The pages of the
heaps are scattered in physical memory, so a stride past the end of one lands in
another or outside; lists of two and three entries make the last entry, the
first that does not fit and the single entry that moves to `prp2` all occur.

In `mapping` ranges share chunks, cover each other, begin or end inside a chunk
or on its border, two have one address, and one ends past the capacity. Three
registrations (`MaxRegistrations`) are the fewest where one is removed or fails
between two that stay. Four descriptors run out, which is one of the failures.
In `controller` three identifiers (one the admin queue's) let two queue pairs
exist; the fourth is one the bitmap has no bit for. Three host frames are the
buffer, the admin queue and one queue, the GPU frame is a second queue, and a
third finds none left; two queue pairs in one heap are left to the proofs. A second
open after a failed one finds one or two frames fewer, and can still succeed.
The controller answers every command right, wrong or not in time. `MaxDoubts`
stops creations and deletions after two commands that timed out, the deletion
under way having at most one more.
In `cuda` five commands are two full rounds and a partial one, six are three
full ones, so head and tail of three slots wrap at different threads.

*Deadlock* is checked for all passing runs but `sync`, where the number of calls
is bounded and an exhausted pool stops the process. `cuda` states the end of the
kernel as a step of its own, so a block that waits for ever at a barrier is a
deadlock.

The action properties and liveness are chosen so that a plausible slip breaks
each: `PROJECT.json` "mutants" names one per property, defined next to the
action it changes (a phase that is not flipped, a doorbell one behind, a cid that
stays on the stack, a header that is not paid for, an unwinding that covers the
whole range, pages unmapped before the device is closed, a barrier that holds
nobody, ...).

## 5. Fairness

* `qpair`: weak fairness of `SqdbUpdate` and `ReapCpl`: a caller that enqueued
  rings and keeps polling (the code polls in a loop and has no other way to
  learn of completions). Weak fairness of `Fetch` and of `Post(x)` for each
  command: a live controller. Nothing is assumed of alloc, enqueue or free.
* `sync`: weak fairness of the calling thread only. The controller may hang, and
  every call still returns.
* `heap`: a call that began runs to its end.
* `cuda`: the GPU schedules every thread and lets a barrier go that all have
  reached. Nothing is assumed of the controller: threads give up at a deadline.
* `controller`, `devheap`, `mapping`: safety only, no fairness.

## 6. Proofs

All theorems hold for every value of the constants that the named assumptions
allow. The assumptions say what the code presumes: ring depths of at least two,
a caller that keeps to `QueueLimit`, a bitmap whose word is not longer than the
number of identifiers (`BitsPerWord`, 64 of 65,535), hugepages that are numbered,
a GPU queue whose depth and block together do not exceed 16 bits.
Each is evaluated by TLC in the runs.

| Module | Theorem | Property |
|---|---|---|
| `NvmeQpairProofs` | `TypeCorrect` | `TypeOK` |
| | `PhaseTagCorrect` | `PhaseTagExact`: the phase test sees exactly what was posted and not reaped |
| | `PoolNeverAborts` | `NoAbort` |
| | `RingsKeepEntriesCorrect` | `RingsKeepEntries`: nothing in a ring is overwritten or hidden by a lap |
| | `CidsAreConserved` | `CidsConserved` |
| | `CompletionsMatch` | `CompletionMatchesRequest` |
| | `QpairRefinesService` | the safety part of `ImplementsService`: `Service!Init` and `[][Service!Next]` |
| `NvmeSyncProofs` | `SyncTypeCorrect` | `SyncTypeOK` |
| | `SyncLosesOneRequestPerTimeout` | `OneRequestLostPerTimeout` |
| | `SyncBacklogIsTimeouts` | `BacklogIsTimeouts` |
| | `SyncOwnCompletion` | `OwnCompletionUntilTimeout` |
| `CudamemMappingProofs` | `MappingTypeCorrect` | `TypeOK` |
| | `MappingRefcountsExact` | `RefcountsExact` |
| | `MappingAttachedWhileReferenced` | `AttachedWhileReferenced` |
| | `MappingRegisteredStaysMapped` | `RegisteredStaysMapped`, an action property |
| | `MappingPrpsDescribeBuffers` | `MappedPrpsDescribeBuffers` |
| `NvmeControllerProofs` | `ControllerTypeCorrect` | `TypeOK` |
| | `ControllerAdminQueueSetUpWhenStopped` | `AdminQueueSetUpWhenStopped` |
| | `ControllerClosedHoldsNothing` | `ClosedHoldsNothing` |
| | `ControllerMappingsOutlive` | `MappingsOutliveController`, an action property |
| | `ControllerQueuesBacked` | `QueuesBacked` |
| | `ControllerQueuePairsUsable` | `QueuePairsUsable` |
| `NvmeQpairCudaProofs` | `CudaRoundReapsItsBatch` | `RoundReapsItsBatch` |
| | `CudaRungSlotsHoldTheirBatch` | `RungSlotsHoldTheirBatch` |
| `HostmemHeapProofs` | `HeapTypeCorrect` | `TypeOK` |
| | `HeapBlocksTile` | `BlocksTile` |
| | `HeapAllocationsDisjoint` | `AllocationsDisjoint` |
| | `HeapAllFreedRestores` | `AllFreedRestoresHeap` |
| | `HeapFailsOnlyWhenNothingFits` | `FailsOnlyWhenNothingFits` |
| | `HeapElementsContiguous` | `ElementsContiguous` |
| | `HeapHoldsSizes` | `AllocationsHoldSize` |
| | `HeapFreedMemoryIsFree` | `FreedMemoryIsFree` |
| | `HeapPrpsDescribeBuffers` | `PrpsDescribeBuffers` of `HostmemPrps` |
| `CudamemHeapProofs` | `DevHeapTypeCorrect` | `TypeOK` |
| | `DevHeapServes` | `BlocksServeAllocations` |
| | `DevHeapHoldsOnlyWhileUp` | `HoldsOnlyWhileUp` |
| | `DevHeapFreeMerges` | `FreeMergesAll`, an action property |
| | `DevHeapInsideDpages` | `InsideDpages` of every live allocation, a part of `PrpsDescribeBuffers` |
| | `DevHeapPrpsDescribeBuffers` | `PrpsDescribeBuffers` of `CudamemPrps` |
| `NvmePrpsProofs` | `ContigDescribes`, `IovDescribes` | the builders on a heap: what `DescribesBuffer` and `DescribesIov` say, for every translation that is linear within chunks |
| | `ContigMappedDescribes`, `IovMappedDescribes` | the builders on a registry: accepted exactly if every byte is registered and the list has room, and then the same |

None of the properties is inductive by itself. What each needs:

*Queue pair.* The first
strengthening, `RingInv`, knows nothing of cids. It *counts*: caller, submission
ring, controller and completion ring together hold no more than was taken from
the pool (`RingsFit`), and the caller keeps that below the depth. So whoever is
about to add to a ring still holds something that is not in it, and the ring has
room. `<=` is enough, which is why no uniqueness is needed here. `Doorbells` says
that the controller is told of no command that was not enqueued; `PhaseTags`
says which tag each slot holds by comparison with `cqTail` alone, and in which lap
the host is. Ring arithmetic enters only through `SpanGrows` and `SpanShrinks`.

On top of it `CidInv` follows each cid: every step takes one cid out of one place
and puts it into the next. It needs `RingInv` for the rings to grow and shrink by
one slot, and it needs the operation of every command in flight, not only of the
completed ones, to equal `user[cid]`.

The refinement reads a stretch of a ring as a sequence (`RingSeq`): writing a
slot behind the stretch appends, passing its first slot takes the head off. The
rest is one lemma per step; ringing the doorbell is the only step that maps to a
stutter, and no step of the host maps to two.

*Synchronous submission.* `PoolInv` is independent of the rings: a call frees the
cid it allocated and no other, so it holds after any number of timeouts, also
when they have overrun the rings. `RingsInv` speaks up to that point only: ring
indices, phase tags, the count, and that no two commands under way are equal,
without which a set of executed commands could lose one and the count with it.
`OwnInv` says that before the first timeout there is nothing under way but the
command of the current call.

*Registry.* `IInv` counts with the loop under way: between `First` and `cur` an
add has counted, an unwinding or removal has discounted already (`UnderWay`). The
arithmetic part is `ChunksOfBytes`: the chunks the loops visit, computed with a
rounded division, are those that hold a byte of the range, for every granularity
and offset. Descriptors in `attach` are pairwise different because a new one is
taken from those not in use; `RegisteredStaysMapped` follows since a chunk is
detached at count zero only, and a registration that stays keeps it above.

*Lifecycle.* Three layers. `ControlInv` ties the step of the call under way to
registers, descriptors, mappings and buffers: for each step, what must still be
held and what must be gone already, and whether the controller can be running.
That is enough for the set-up of the admin queue, for close and for the IOMMU.
For what `memset` forgets it has `LifeInv`: an open that starts from a closed
controller finds nothing to forget, so `forgot` stays empty until one does not.

`TakenInv` is the bookkeeping of the driver, whatever becomes of its commands and
also after any number of timeouts: the bits of the bitmap are those of the queue
pairs there are, lost and spent ones included, and each identifier has the frame,
queues and doorbells that its state and the step of the call ask for
(`PairTaken`); in a creation on a GPU, exactly what the undo of the step would
give back.

`QueueInv`, on top of both, follows a command from its submission to its reaping,
up to the first timeout: at most one command is with the controller or
answered, and the two queues of the identifier are in the state before it or
behind it according to the answer. A pair no call is busy with has both queues or
none. After a refused deletion (the identifier is then in `refused`) the controller
still has the completion queue, in memory nobody owns (`Remains`): it does not
delete it while the submission queue exists. The identifier may be given to a new
pair, but then the controller refuses Create CQ, so no pair that create returns
comes to share such a queue.

*GPU queue pair.* The threads are on one side of a round (`Between`) or inside it
(`Within`), since a barrier holds the fast ones; there are two sides only because
no thread passes two barriers alone. Between the barriers the head has not moved,
so everything is counted from it: `f` commands fetched, `k` completed, the set of
commands posted and in flight equal to the first `f` of the batch (`Underway`). The
phase test of a thread, with the flip behind the wrap, is then true exactly of
offsets below `k` (`EntryIsNewFacts`). A batch as large as the queue is covered:
nothing is rung, so such a round ends with a timeout. The theorems assume
`OldPhases \subseteq {0}`, a completion queue whose memory was clear; without it
they are false, which `cuda_stale` shows, and the code does not see to it.

*Host heap.* `ListInv` adds to the tiling that the list visits the blocks in the
order of their addresses and misses none: of two blocks the lower has a
successor, and it is not behind the higher. Two lemmas carry it through every
step, one for cutting a block in two (`CutFacts`, gaps and splits alike) and one for
merging two (`MergeFacts`); they absorb that a size counts the header in the last
block only. `LiveInv` ties each allocation to a block that is not free and that
it does not leave, one to one. `LoopInv` says of the loop under way that what lies
behind it could not be taken, or has no free neighbour left. The theorems assume
`HeapUse`: the alignment of a page, which free presumes (`heap_free` shows what
another does); no request for nothing, which `hostmem_dma_malloc` rejects
(`hostmem_dma.h:77`); and no size that wraps with its header (section 7). Zero is
excluded for a reason: where a block begins less than a page in front of a
hugepage, a request of zero bytes cuts a gap that the block need not have room
for, and the size of what is left wraps. `HeapElementsContiguous` assumes
`ElementsDivide` as well, that element sizes divide a hugepage, as those of all
callers in `nvme/` do. Then they divide the word too, and the wrapped difference
leaves the right remainder; without it the theorem is false (`heap_straddle`).

*Device heap.* The list is a sequence here, so `Tiles` speaks of positions, and
three lemmas say what the changes of the list do to it: cutting a block in two
(`CutTiles`), marking one (`RetagTiles`), merging two (`MergeTiles`). `LiveInv` keeps
each allocation at a taken block, one to one, and conversely: a taken block serves
an allocation, or is the one the free under way has not come to yet (`Released`).
The walk of a free marks one block ahead, and that is what `LoopInv` needs: behind
the first step the block at hand is marked already if it is the pointer's, so
that moving on or merging leaves no two free neighbours behind (`MergedTo`). No
alignment is assumed, nor that the size of the heap is a multiple of anything.
What is held is a layer by itself (`HoldInv`): before each step of init what the
steps in front have taken (`TakenAt`), at each label what may still be owed
(`Owed`), which the labels behind it give back.
`DevHeapInsideDpages` needs no assumption on element sizes either: the difference
does not wrap as on hugepages, and an array whose element does not divide the
device page is rejected unless it fits into one, so after the gap it needs it
crosses at most one boundary, which is a multiple of the element away
(`PlacedElement`).

*PRP builders.* A builder walks the pages of a buffer and carries along the
physical address and the strides left in the chunk, a function defined by
recursion. Induction over it is not to be had here, but a closed form is:
`ClosedPage` says what the walk has at page *i* without the pages in front, and of
all pages where the two differ the smallest, which `SmallestNat` names, cannot
exist. The same argument gives the bytes in front of a segment (`BeforeFacts`) and
the entries in front of it (`ConcatMembers`, `FlattenMembers`). What is left is the
arithmetic of two roundings, to pages and to chunks, against the reading of the
controller, which knows pages only (`EntriesDescribe`, `EntriesDescribeIov`). The
builders are told a translation; `Linear` is what the theorems ask of it, and
`RegisteredPages` of a lookup that may fail. The modules of each memory then show
that theirs is of that kind in every reachable state: `V2P` by hugepage, `Vtp` by
device page, `VirtToPhys` of the registry by chunk, where `TouchedChunk` draws on
the exact counts.

For the GPU heap that takes `DeviceMemory`: a heap of whole device pages and runs
of the dma-buf that start at pages. The first `hipmem_heap.h` sees to by rounding,
and every caller of `cudamem_heap_init` asks for megabytes; without it the table
ends in front of the last part of a page, where allocations may lie (section 7).
The second is the driver's, as a PRP entry has to be the address of a page. That the
table is as long as the heap is an invariant of its own (`LutInv`). The heap on
hugepages needs `HeapUse` as before, and the registry nothing.

*Only model-checked:*

* liveness (`EveryCommandReturns`, `EveryCallReturns`, `EveryCallEnds`,
  `EveryThreadEnds`) and the fairness part of `ImplementsService`: liveness under
  fairness is out of TLAPS's reach.

Every invariant and every action property of the passing runs is a theorem.

## 7. Disagreements between code and documentation

| Run | What the code does |
|---|---|
| `sync_status` | The mask `0x1FE` drops the status code type; a command specific status with code 0 counts as success (`nvme_qpair.h:239`). |
| `sync_stale` | After a timeout the next call takes the late completion for its own (`nvme_qpair.h:232`). |
| `heap_free` | `block_free` looks one page before the pointer; with a larger alignment the block is never marked free (`hostmem_heap.h:171`). |
| `heap_straddle` | With less than a page left in the hugepage the difference at `hostmem_heap.h:218` wraps; for an element that does not divide the word its remainder can be zero although a gap is needed, and an element straddles a hugepage, which `cudamem_heap.h:256` says is guaranteed not to happen. With 2 MB hugepages: two elements of 2^20 - 1 bytes in a block 4080 bytes before a boundary. |
| `cuda_stale` | The completion queue of a GPU queue pair is not cleared (`nvme_controller_cuda.h:159`), as `nvme_qpair_init` does (`nvme_qpair.h:91`); phase bits of an earlier queue pass for completions, and a round returns before its commands have completed. |

### Observed and not run

Read off the code while modelling; each is visible in the model or by inspection
and has no run of its own.

* A timeout is returned as `+EAGAIN`: `reap_cpl` returns `-EAGAIN`, and the caller
  negates it again (`nvme_qpair.h:234`, likewise 289 and 344). Documented is a
  negative errno (`nvme_qpair.h:209`); a caller that tests `err < 0` takes it for
  success. `CallTimeout` has it; no property promises anything of the sign, since
  one would only repeat the assignment.
* Rounding a size within a page of `SIZE_MAX` up to whole pages wraps to zero
  pages, and the call succeeds (`hostmem_heap.h:271`), though `hostmem_dma.h:67`
  promises "`size` bytes", or NULL. `heap.cfg` with `Sizes = {2, 65535}` violates
  `AllocationsHoldSize`.
* After `sync_stale`, the second call frees its own cid while the controller
  still executes that command (`nvme_qpair.h:237`); `nvme_request_free` asks that
  it "must no longer be referenced" (`nvme_request.h:119`).
* Arrays of elements smaller than a page put later headers, and so later
  pointers, off the page boundary (`hostmem_heap.h:239`), though the DMA front end
  speaks of page-aligned memory (`hostmem_dma.h:39`).
* The gap keeps elements from crossing hugepages; for elements larger than a
  page, up to a hugepage, it does not restore alignment, and elements the size of
  a hugepage never fit, since the header shifts them (`hostmem_heap.h:218-224`).
* Sizes a page further below `SIZE_MAX` round correctly,
  but data and header together wrap to zero (`hostmem_heap.h:211`): any free block
  fits and is cut onto itself.
* `hostmem_dma_malloc_aligned` does not reject a size of zero, as
  `hostmem_dma_malloc` does (`hostmem_dma.h:95`); section 6 says why it should.
* A freed block that is not the last cannot be reused for a request of exactly
  its size: `size` does not count its header there, but the test adds one.
* `timeout_ms == 0` polls not even once.
* No barrier separates the store of a command from the doorbell
  (`nvme_qpair.h:191`, `170`) nor the test of the phase tag from the copy of the
  entry (`nvme_qpair.h:132`). On a processor that reorders them the controller
  could fetch a stale command and the host copy a half-written completion.

*Host heap.* An allocation with an alignment above a page is placed at its
block's address plus the alignment (`hostmem_heap.h:250`), so it is aligned only
if the block is; the parameter is described as "Boundary to align to"
(`hostmem_dma.h:89`).

*Queue pair set-up.* When the PRP pages cannot be had, `nvme_qpair_init` frees the
pool and keeps the pointer (`nvme_qpair.h:106`); `nvme_controller_close_vfio`,
reached from the failure label of open, frees it again.

*Controller lifecycle.*

* `nvme_controller_delete_io_qpair` returns the outcome of the second command
  alone. After a timeout of Delete SQ its late completion answers Delete CQ, and
  0 may be returned while the queue exists (`nvme_controller.h:139-175`).
  `QueuesBacked` is stated up to the first timeout of an admin command.
* If the controller refuses a deletion, its memory and identifier are freed all
  the same, while the controller still has the queue and may write to it: the
  comment says so ("Resources are freed regardless", `nvme_controller.h:139`).
  `QueuesBacked` excepts these identifiers by name (`refused`) and nothing else;
  without the exception the run violates it.
* A failed `create_io_qpair` keeps identifier and memory (`nvme_controller.h:221`).
* `nvme_controller_close` leaves the controller enabled (`nvme_controller.h:36`),
  with its queues in memory that is free again; the next open stops it first
  (`AdminQueueSetUpWhenStopped`). `QueuesBacked` speaks of sysfs only while open.
* A failed `nvme_controller_open` keeps what it took; close gives it back. A
  second open without close loses it: `memset` (`nvme_controller.h:60`) forgets
  BAR mapping, buffer and admin queue, and the close that follows gives back the
  second set only. `ClosedHoldsNothing` says that this is the only way to lose
  any (`again`). Some of its errors are positive.
* A creation on a GPU that fails before its first command gives back what it took
  but not the identifier (`nvme_controller_cuda.h:95-178`).
* `CAP.TO` of 0 makes the wait for ready poll not at all, so open fails.
* Deleting a GPU queue pair never gives the identifier back; if it cannot be read
  back from the GPU the call goes on with zeroes: the queues stay, memory and
  identifier are lost (`nvme_controller_cuda.h:73`).
* `nvme_reg_cc_get_iosqes` reads bits 24 to 27 while the setter writes 16 to 19,
  `_get_css` reads four bits of a field of three, `_get_cqr` a bit of `iosqes`.
  Only printing uses them.
* The bitmap has a whole number of words, so fewer identifiers can be allocated
  than `nvme_qid.h` says (65,471, not 65,534).

*GPU queue pair.*

* A batch as large as the queue leaves the tail where it was, and the controller
  sees nothing new (`nvme_qpair_cuda.h:203`). The header proposes a block of as
  many threads as the queue is deep; the tests create the queue one deeper
  (`tests/test_cuda_nvme_readwrite.c:149-152`), as the run does.
* A thread takes the entry at its offset whichever command completed there, so
  the status it returns may be another thread's; `RoundReapsItsBatch` states what
  holds, of the batch as a whole.
* After a timeout the head moves all the same: the late completions are never
  reaped in their round, or pass for those of a later lap (`nvme_qpair_cuda.h:215`).

*PRPs and mappings.*

* The builders for iovecs on heaps do not compare the number of entries with the
  room in the list page; those for registered buffers do. No builder can describe
  an iovec whose segments, but for the last, are not whole pages.
* `cudamem_heap` does not round its size up to a device page; with a size that is
  no multiple the table covers one page less (`hipmem_heap` rounds). Alignment
  rounds sizes only.
* The chunk count of a registration wraps for sizes close to `SIZE_MAX`
  (`cudamem_mapping.h:415`). `remove` takes the newest registration of an address.
* dma-buf descriptors stay open if detaching fails; nothing reports it.

*Processes.* `hostmem_hugepage.h:156` names files by a counter that starts at the
same value in every configuration.

## 8. Not modelled

* *Hugepages* (`hostmem_hugepage.h`): files in hugetlbfs shared between processes
  by name, and `/proc/self/pagemap`. All its effects are system calls.
* *Memory order*: `NvmeQpair` and `NvmeQpairCuda` assume that stores are seen in
  program order. A model of weaker orders would need the fences of `barriers.h`,
  which the queue pairs do not use.
* *PCI*: scanning, BAR sizes, parsing of addresses. Opening a function and
  mapping a BAR are steps of open.
* *Wrappers of `vfioctl.h` nothing calls*: reset, interrupts, device information.
* *Configuration* (`*_config.h`): queries of the GPU driver and of sysfs.
* *Debug output, umbrella headers, tests, the example*: no protocol.
* `hipmem_*.h`, `nvme_request_hip.h`: the `cuda` headers with other names; the one
  difference, the rounding of the heap's size, is the constant `RoundTo`.

Left out of what is modelled: the contents of buffers and commands beyond what
tells them apart; exhaustion of the request pool of the admin queue while a
controller is open (`NvmeSync` shows it for a queue pair by itself); overlapping
calls on one heap, registry or controller, which the code does not lock against.

## 9. Running

    tlc -workers 2 -config qpair.cfg      MCNvmeQpair
    tlc -workers 2 -config sync.cfg       MCNvmeSync
    tlc -workers 2 -config heap.cfg       MCHostmemHeap
    tlc -workers 2 -config devheap.cfg    MCCudamemHeap
    tlc -workers 2 -config mapping.cfg    MCCudamemMapping
    tlc -workers 2 -config controller.cfg MCNvmeController
    tlc -workers 2 -config cuda.cfg       MCNvmeQpairCuda
    tlapm NvmeQpairProofs.tla
    tlapm NvmeSyncProofs.tla
    tlapm CudamemMappingProofs.tla
    tlapm NvmeControllerProofs.tla
    tlapm NvmeQpairCudaProofs.tla
    tlapm HostmemHeapProofs.tla
    tlapm CudamemHeapProofs.tla
    tlapm NvmePrpsProofs.tla

Each takes seconds to a few minutes; `controller` has 3.8 million states,
`devheap` 280 thousand, the others up to 160 thousand. The runs named in section 7 are expected to end in a
violation.
