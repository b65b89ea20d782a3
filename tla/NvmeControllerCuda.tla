------------------------- MODULE NvmeControllerCuda -------------------------
(***************************************************************************)
(* nvme_controller_cuda.h: queue pairs whose memory is a GPU's and whose   *)
(* doorbells are registered with CUDA, on a controller of either kind.     *)
(* Creating and deleting share the admin commands of nvme_controller.h.    *)
(***************************************************************************)
EXTENDS NvmeControllerVfio

CONSTANT GpuFrames  \* frames of the GPU's heap

ASSUME GpuAssumption ==
    /\ GpuFrames \subseteq Frames /\ GpuFrames \cap HostFrames = {}

VARIABLE gpu        \* <<identifier, item>>: what queue pairs on the GPU have taken

allVars == <<deviceVars, hostVars, dma, gpu>>

\* Doorbells registered with CUDA, and queues in memory: one frame holds both.
Items == {"sqdb", "cqdb", "sq", "cq"}
ItemsOf(q, items) == {<<q, i>> : i \in items}

\* The steps of creating up to the first command: what each takes, what its
\* failure gives back, and the next one.  The last copies to the device.
CudaTakes == [init |-> {"sqdb"}, cqdb |-> {"cqdb"}, sq |-> {"sq"}, cq |-> {"cq"}, copy |-> {}]
CudaNext == [init |-> "cqdb", cqdb |-> "sq", sq |-> "cq", cq |-> "copy", copy |-> "create_cq"]

\* Mutant of CudaUndoes: a failing copy keeps the completion queue.
CudaUndoesNoCq == [init |-> {}, cqdb |-> {"sqdb"}, sq |-> {"sqdb", "cqdb"},
                   cq |-> {"sqdb", "cqdb", "sq"}, copy |-> {"sqdb", "cqdb", "sq"}]

CudaUndoes == [init |-> {}, cqdb |-> {"sqdb"}, sq |-> {"sqdb", "cqdb"},
               cq |-> {"sqdb", "cqdb", "sq"}, copy |-> {"sqdb", "cqdb", "sq", "cq"}]

\* cuMemHostUnregister and cudamem_heap_block_free; the frame is free without
\* a queue in it.
GiveBack(q, items) ==
    /\ gpu' = gpu \ ItemsOf(q, items)
    /\ IF ItemsOf(q, {"sq", "cq"}) \cap gpu' = {}
       THEN Release(OwnedBy("queue", q)) ELSE UNCHANGED owner

CudaCreateTake ==
    /\ call.name = "create" /\ call.kind = "gpu" /\ call.step \in DOMAIN CudaNext
    /\ gpu' = gpu \cup ItemsOf(call.q, CudaTakes[call.step])
    /\ IF call.step = "sq" THEN Take(GpuFrames, "queue", call.q) ELSE UNCHANGED owner
    /\ Goto(CudaNext[call.step])
    /\ UNCHANGED <<deviceVars, openVars, qpVars, dma>>

\* The identifier is not given back.
CudaCreateFail ==
    /\ call.name = "create" /\ call.kind = "gpu" /\ call.step \in DOMAIN CudaNext
    /\ GiveBack(call.q, CudaUndoes[call.step])
    /\ qps' = [qps EXCEPT ![call.q] = "spent"]
    /\ Return
    /\ UNCHANGED <<deviceVars, openVars, qids, doubts, refused, dma>>

\* The queue pair is read back from the GPU.  If that fails the call goes on
\* with zeroes: no doorbells, no memory, identifier 0.
CudaDelete(q) ==
    /\ DeleteStart(q, "gpu")
    /\ gpu' = gpu \ ItemsOf(q, {"sqdb", "cqdb"})
    /\ UNCHANGED <<deviceVars, owner, qpVars, openVars, dma>>

CudaDeleteUnread(q) ==
    /\ Steady /\ qps[q] = "gpu"
    /\ call' = [name |-> "delete", step |-> "delete_sq", q |-> 0, kind |-> "gpu"]
    /\ qps' = [qps EXCEPT ![q] = "lost"]
    /\ UNCHANGED <<deviceVars, owner, openVars, qids, doubts, refused, dma, gpu>>

\* The identifier is not given back.
CudaDeleteFree ==
    /\ At("delete", "free") /\ call.kind = "gpu"
    /\ GiveBack(call.q, {"sq", "cq"})
    /\ qps' = IF call.q = 0 THEN qps ELSE [qps EXCEPT ![call.q] = "spent"]
    /\ Return
    /\ UNCHANGED <<deviceVars, openVars, qids, doubts, refused, dma>>

Init ==
    /\ ControllerInit
    /\ dma = {}
    /\ gpu = {}

\* What queue pairs of an earlier life have taken is no identifier's now.
CudaOpenStart ==
    /\ ControllerOpenStart
    /\ gpu' = ItemsOf(NoQid, {p[2] : p \in gpu})

CudaCrash == Crash /\ gpu' = {}

Next ==
    \/ CudaOpenStart
    \/ VfioControllerNext /\ UNCHANGED gpu
    \/ CreateStart("gpu") /\ UNCHANGED <<dma, gpu>>
    \/ CudaCreateTake \/ CudaCreateFail
    \/ \E q \in Qids : CudaDelete(q) \/ CudaDeleteUnread(q)
    \/ CudaDeleteFree
    \/ CudaCrash

Spec == Init /\ [][Next]_allVars
-----------------------------------------------------------------------------
\* The steps of each call; open's first ones depend on how it is bound.
RegisterSteps == {"bar", "disable", "wait_stopped", "aq", "aq_setup", "enable", "wait_ready"}
VfioSteps == DOMAIN VfioNext \cup {"map_heap", "device"}
CreateSteps == DOMAIN CudaNext \cup {"create_cq", "wait_create_cq", "create_sq", "wait_create_sq"}
DeleteSteps == {"delete_sq", "wait_delete_sq", "delete_cq", "wait_delete_cq", "free"}
CloseSteps == {"stop", "wait_stopped", "free", "ctx_bar", "ctx_device", "ctx_unmap",
               "ctx_fds"}
Steps == {"", "func"} \cup RegisterSteps \cup VfioSteps \cup CreateSteps \cup
             DeleteSteps \cup CloseSteps

Calls == [name : {"none", "open", "create", "delete", "close"}, step : Steps,
          q : Qids, kind : {"host", "gpu"}]

Commands == [op : DOMAIN AdminOps, q : Qids, frame : Frames \cup {NoFrame}]

TypeOK ==
    /\ cap \in Caps
    /\ cc \subseteq 0 .. 31
    /\ rdy \in BOOLEAN
    /\ asq \in HostFrames \cup {NoFrame}
    /\ cqs \in [Qids -> Frames \cup {NoFrame}] /\ sqs \in [Qids -> Frames \cup {NoFrame}]
    /\ pend \in Seq(Commands) /\ cpls \in Seq({"ok", "cq_invalid", "failed"})
    /\ ctrl \in {"down", "open", "failed"} /\ via \in {"sysfs", "vfio"}
    /\ call \in Calls
    /\ owner \in [Frames -> {"free", "buf", "aq", "queue", "lost"} \X Qids]
    /\ qids \subseteq Tracked /\ qids \subseteq Qids
    /\ qps \in [Qids -> {"none", "host", "gpu", "lost", "spent"}]
    /\ held \subseteq Acquired \cup {"bar"} /\ forgot \subseteq Acquired \cup {"bar", "buf", "aq"}
    /\ again \in BOOLEAN
    /\ dma \subseteq Hugepages
    /\ gpu \subseteq (Qids \cup {NoQid}) \X Items
    /\ doubts \in 0 .. MaxDoubts + 1 /\ refused \subseteq Qids /\ lateStop \in BOOLEAN

\* As long as no admin command has timed out, a controller that runs has every
\* queue in memory that is in use for that queue, under an identifier that is
\* not free: after creations that failed at any command, through identifiers
\* and memory used again, and through VFIO while it is closed (in time), too.
\* The one exception is the queue of an identifier whose deletion it refused:
\* nvme_controller_delete_io_qpair frees memory and identifier all the same.
QueuesBacked ==
    (rdy /\ doubts = 0 /\ (ctrl = "open" \/ "device" \in held) /\ ~lateStop) =>
        /\ owner[asq] = <<"aq", 0>>
        /\ \A q \in Qids \ refused : \A f \in {cqs[q], sqs[q]} \ {NoFrame} :
              owner[f] = <<"queue", q>> /\ q \in qids

\* As long as no admin command has timed out, a queue pair that create returned
\* has both its queues on the controller, in the caller's memory and heap, with
\* registered doorbells if a GPU rings them.  And always: the bits of the bitmap
\* are those of the queue pairs there are or that were lost, and a creation that
\* failed before its first command and a deletion leave neither memory nor
\* doorbells behind.
QueuePairsUsable ==
    (Idle /\ ctrl = "open") =>
        /\ doubts = 0 =>
              \A q \in Qids : qps[q] \in {"host", "gpu"} =>
                  \E f \in IF qps[q] = "host" THEN HostFrames ELSE GpuFrames :
                      /\ owner[f] = <<"queue", q>>
                      /\ rdy => cqs[q] = f /\ sqs[q] = f
                      /\ qps[q] = "gpu" => ItemsOf(q, {"sqdb", "cqdb"}) \subseteq gpu
        /\ qids = {0} \cup {q \in Qids : qps[q] # "none"}
        /\ \A q \in Qids : qps[q] \in {"none", "spent"} =>
              OwnedBy("queue", q) = {} /\ ItemsOf(q, Items) \cap gpu = {}

\* The admin queue's registers are written when the controller is stopped
\* (nvme_mmio_aq_setup's assumption), also when an earlier process or a close
\* left it running.
AdminQueueSetUpWhenStopped ==
    At("open", "aq_setup") \/ At("open", "enable") => ~Enabled /\ ~rdy

\* No page leaves the IOMMU while the controller may run, on any path through
\* close and open's failure label, even when stopping it timed out.
MappingsOutliveController ==
    [][~(dma \subseteq dma') => ~rdy']_allVars

\* When close has returned, or open through VFIO has failed, at whichever step,
\* the process has no descriptor, mapping, buffer or admin queue; not even one
\* the struct has forgotten, unless it called open again where an open through
\* sysfs had failed and it had not closed: that memset is all that loses any.
ClosedHoldsNothing ==
    (Idle /\ ctrl = "down") =>
        /\ Has = {} /\ dma = {}
        /\ again \/ forgot = {}
=============================================================================
