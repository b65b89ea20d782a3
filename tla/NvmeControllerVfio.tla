------------------------- MODULE NvmeControllerVfio -------------------------
(***************************************************************************)
(* nvme_controller_vfio.h on vfioctl.h.  open acquires one thing after the *)
(* other and continues as nvme_controller_open does; every failure after   *)
(* the first allocation closes.                                            *)
(***************************************************************************)
EXTENDS NvmeController

CONSTANT Hugepages  \* of the heap, by index: each is one mapping

ASSUME HugepagesAssumption == Hugepages \subseteq Nat

VARIABLE dma        \* pages the IOMMU lets the controller access

\* What follows each step of opening that only acquires something.
VfioNext == [
    group_id |-> "container", container |-> "api_version", api_version |-> "type1",
    type1 |-> "group", group |-> "viable", viable |-> "set_container",
    set_container |-> "iommu", iommu |-> "map_heap",
    bus_master |-> "region", region |-> "bar"]

\* What closing looks for: descriptors, and iommu_set.
Acquired == {"container", "group", "iommu", "device"}

VfioAcquire ==
    /\ call.name = "open" /\ via = "vfio"
    /\ call.step \in DOMAIN VfioNext
    /\ \/ held' = held \cup ({call.step} \cap Acquired) /\ Goto(VfioNext[call.step])
          /\ UNCHANGED ctrl
       \/ Fail /\ UNCHANGED held
    /\ UNCHANGED <<deviceVars, owner, qpVars, lateStop, lifeVars, dma>>

\* Mutant of MapHeap: one page too many.
MapHeapPast ==
    /\ At("open", "map_heap")
    /\ \/ /\ Cardinality(dma) <= Cardinality(Hugepages)
          /\ dma' = dma \cup {Cardinality(dma) + 1}
          /\ UNCHANGED <<call, ctrl>>
       \/ dma = Hugepages /\ Goto("device") /\ UNCHANGED <<dma, ctrl>>
       \/ dma # Hugepages /\ Fail /\ UNCHANGED dma
    /\ UNCHANGED <<deviceVars, owner, qpVars, held, lateStop, lifeVars>>

\* vfio_map_heap: page by page; one may fail with others mapped.
MapHeap ==
    /\ At("open", "map_heap")
    /\ \/ /\ dma # Hugepages
          /\ dma' = dma \cup {Min(Hugepages \ dma)}
          /\ UNCHANGED <<call, ctrl>>
       \/ dma = Hugepages /\ Goto("device") /\ UNCHANGED <<dma, ctrl>>
       \/ dma # Hugepages /\ Fail /\ UNCHANGED dma
    /\ UNCHANGED <<deviceVars, owner, qpVars, held, lateStop, lifeVars>>

GetDeviceFd ==
    /\ At("open", "device")
    /\ \/ held' = held \cup {"device"} /\ FunctionReset /\ Goto("bus_master")
          /\ UNCHANGED ctrl
       \/ Fail /\ UNCHANGED <<held, deviceVars>>
    /\ UNCHANGED <<owner, qpVars, lateStop, lifeVars, dma>>

-----------------------------------------------------------------------------
(***************************************************************************)
(* nvme_controller_close_vfio, after open or from its failure label.       *)
(***************************************************************************)
CloseVfio ==
    /\ Idle /\ ctrl = "open" /\ via = "vfio"
    /\ call' = Called("close", "stop")
    /\ UNCHANGED <<deviceVars, owner, qpVars, openVars, dma>>

\* nvme_controller_disable_vfio: nothing without registers, no wait without
\* a timeout.
CloseStop ==
    /\ At("close", "stop")
    /\ IF "bar" \in held
       THEN CcWrite(CcDisable(cc)) /\ Goto(IF Polls THEN "wait_stopped" ELSE "free")
       ELSE UNCHANGED deviceVars /\ Goto("free")
    /\ UNCHANGED <<owner, qpVars, openVars, dma>>

\* Closing goes on when the controller does not stop in time.
CloseStopped ==
    /\ At("close", "wait_stopped")
    /\ lateStop' = (lateStop \/ rdy)
    /\ Goto("free")
    /\ UNCHANGED <<deviceVars, owner, qpVars, ctrl, held, lifeVars, dma>>

CloseFree ==
    /\ At("close", "free")
    /\ FreeAqAndBuf
    /\ Goto("ctx_bar")
    /\ UNCHANGED <<deviceVars, qpVars, openVars, dma>>

\* nvme_vfio_ctx_close
CtxCloseBar ==
    /\ At("close", "ctx_bar")
    /\ held' = held \ {"bar"}
    /\ Goto("ctx_device")
    /\ UNCHANGED <<deviceVars, owner, qpVars, ctrl, lateStop, lifeVars, dma>>

\* Mutant of CtxCloseDevice: the pages are unmapped first.
CtxCloseDeviceLate ==
    /\ At("close", "ctx_device")
    /\ IF dma # {}
       THEN dma' = {} /\ UNCHANGED <<deviceVars, held, call>>
       ELSE /\ IF "device" \in held THEN FunctionReset ELSE UNCHANGED deviceVars
            /\ held' = held \ {"device"}
            /\ Goto("ctx_unmap")
            /\ UNCHANGED dma
    /\ UNCHANGED <<owner, qpVars, ctrl, lateStop, lifeVars>>

\* Closing the descriptor resets the function.
CtxCloseDevice ==
    /\ At("close", "ctx_device")
    /\ IF "device" \in held THEN FunctionReset ELSE UNCHANGED deviceVars
    /\ held' = held \ {"device"}
    /\ Goto("ctx_unmap")
    /\ UNCHANGED <<owner, qpVars, ctrl, lateStop, lifeVars, dma>>

\* Each page is unmapped, mapped or not; unmapping one may fail.
CtxUnmap ==
    /\ At("close", "ctx_unmap")
    /\ IF "iommu" \in held THEN dma' \in SUBSET dma ELSE UNCHANGED dma
    /\ Goto("ctx_fds")
    /\ UNCHANGED <<deviceVars, owner, qpVars, openVars>>

\* The group, the container, and with it what is still mapped.
CtxCloseFds ==
    /\ At("close", "ctx_fds")
    /\ held' = held \ {"group", "container", "iommu"}
    /\ dma' = IF {"device", "group", "container"} \cap held' = {} THEN {} ELSE dma
    /\ Closed
    /\ Return
    /\ UNCHANGED <<deviceVars, owner, lateStop, lifeVars>>

\* The kernel closes the descriptors of a process that died.
Crash ==
    /\ ~(Idle /\ ctrl = "down")
    /\ ProcessDies
    /\ IF "device" \in held THEN FunctionReset ELSE UNCHANGED deviceVars
    /\ dma' = {}

-----------------------------------------------------------------------------
ControllerOpenStart ==
    /\ OpenStart("sysfs", "func") \/ OpenStart("vfio", "group_id")
    /\ UNCHANGED dma

VfioStep ==
    \/ VfioAcquire \/ MapHeap \/ GetDeviceFd
    \/ CloseStop \/ CloseStopped \/ CloseFree
    \/ CtxCloseBar \/ CtxCloseDevice \/ CtxUnmap \/ CtxCloseFds

VfioControllerNext ==
    \/ ControllerNext /\ UNCHANGED dma
    \/ Device /\ UNCHANGED <<hostVars, dma>>
    \/ VfioStep \/ CloseVfio
=============================================================================
