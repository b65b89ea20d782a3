--------------------------- MODULE NvmeController ---------------------------
(***************************************************************************)
(* nvme_controller.h: a controller is opened, queue pairs are created and  *)
(* deleted on it, it is closed; through sysfs here, and through VFIO in    *)
(* NvmeControllerVfio, which shares what open does once the registers are  *)
(* mapped.  Calls run one step at a time beside the controller; the        *)
(* process may die at any step and another one start over.                 *)
(***************************************************************************)
EXTENDS NvmeAdmin, NvmeQid

CONSTANTS
    HostFrames,     \* frames of the host's heap
    MaxDoubts       \* bound: doubts after which no queue is created or deleted

ASSUME ControllerAssumption ==
    /\ QidMax \in Nat \ {0} /\ BitsPerWord \in 1 .. QidMax
    /\ Qids = 0 .. QidMax - 1
    /\ HostFrames \subseteq Frames
    /\ MaxDoubts \in Nat

VARIABLES
    ctrl,       \* "down", "open", or "failed" by an open through sysfs
    via,        \* "sysfs" or "vfio", what the function is bound for
    call,       \* the call under way
    owner,      \* what each frame is in use for
    qids,       \* ctrlr->qids
    qps,        \* queue pairs: "none", "host", "gpu"; "lost" to the caller, with
                \* what they took, or "spent", the identifier alone
    held,       \* descriptors and mappings of registers, known to the struct
    doubts,     \* since open: admin commands that timed out
    refused,    \* since open: identifiers whose deletion the controller refused
    lateStop,   \* since open: the controller did not stop in time
    forgot,     \* what the process still has although its struct forgot it
    again       \* the process has opened a controller again without closing it

qpVars == <<qids, qps, doubts, refused>>
lifeVars == <<via, forgot, again>>
openVars == <<ctrl, held, lateStop, lifeVars>>
hostVars == <<call, owner, qpVars, openVars>>

Called(name, step) == [name |-> name, step |-> step, q |-> 0, kind |-> "host"]
NoCall == Called("none", "")
Idle == call = NoCall
At(name, step) == call.name = name /\ call.step = step
Goto(step) == call' = [call EXCEPT !.step = step]
Return == call' = NoCall

Unused == <<"free", 0>>
OwnedBy(use, q) == {f \in Frames : owner[f] = <<use, q>>}
Take(heap, use, q) ==
    LET free == {f \in heap : owner[f] = Unused}
    IN  free # {} /\ owner' = [owner EXCEPT ![Min(free)] = <<use, q>>]
Release(fs) == owner' = [f \in Frames |-> IF f \in fs THEN Unused ELSE owner[f]]
FrameOf(use, q) == CHOOSE f \in OwnedBy(use, q) : TRUE

\* What close gives back, as far as the process has it.
Has == held \cup {use \in {"buf", "aq"} : OwnedBy(use, 0) # {}}

ControllerInit ==
    /\ AdminInit
    /\ ctrl = "down" /\ via \in {"sysfs", "vfio"} /\ held = {} /\ lateStop = FALSE
    /\ forgot = {} /\ again = FALSE
    /\ call = NoCall
    /\ owner = [f \in Frames |-> Unused]
    /\ qids = {} /\ qps = [q \in Qids |-> "none"]
    /\ doubts = 0 /\ refused = {}

-----------------------------------------------------------------------------
(***************************************************************************)
(* nvme_controller_open.                                                   *)
(***************************************************************************)
\* memset(ctrlr) gives nothing back: what an open that failed had taken, and
\* the memory of queue pairs that were never deleted, stays taken and is lost.
Forgotten == [f \in Frames |-> IF owner[f] = Unused THEN Unused ELSE <<"lost", 0>>]

\* memset(ctrlr), the buffer, the bitmap; without a buffer open returns.
OpenStart(v, first) ==
    /\ Idle /\ via = v /\ ctrl \in {"down", "failed"}
    /\ forgot' = forgot \cup Has /\ held' = {}
    /\ again' = (again \/ ctrl = "failed")
    /\ ctrl' = "down" /\ lateStop' = FALSE
    /\ qps' = [q \in Qids |-> "none"] /\ doubts' = 0 /\ refused' = {}
    /\ LET free == {f \in HostFrames : owner[f] = Unused}
       IN  \/ /\ free # {} /\ owner' = [Forgotten EXCEPT ![Min(free)] = <<"buf", 0>>]
              /\ qids' = BitmapInit
              /\ call' = Called("open", first)
           \/ owner' = Forgotten /\ qids' = {} /\ Return
    /\ UNCHANGED <<deviceVars, via>>

\* Mutant of Fail: no failure label.
FailReturns == Return /\ UNCHANGED ctrl

\* Through sysfs a failed open returns as it is; through VFIO it closes.
Fail ==
    /\ call' = IF via = "vfio" THEN Called("close", "stop")
               ELSE NoCall
    /\ ctrl' = IF via = "vfio" THEN ctrl ELSE "failed"

\* pci_func_open keeps nothing open.
OpenFunc ==
    /\ At("open", "func")
    /\ \/ Goto("bar") /\ UNCHANGED ctrl
       \/ Fail
    /\ UNCHANGED <<deviceVars, owner, qpVars, held, lateStop, lifeVars>>

\* pci_bar_map, or vfio_map_region.
OpenBar ==
    /\ At("open", "bar")
    /\ \/ held' = held \cup {"bar"} /\ Goto("disable") /\ UNCHANGED ctrl
       \/ Fail /\ UNCHANGED held
    /\ UNCHANGED <<deviceVars, owner, qpVars, lateStop, lifeVars>>

OpenDisable ==
    /\ At("open", "disable")
    /\ CcWrite(CcDisable(cc))
    /\ Goto("wait_stopped")
    /\ UNCHANGED <<owner, qpVars, openVars>>

\* Mutant of OpenStopped: the timeout is not looked at.
OpenStoppedIgnored ==
    /\ At("open", "wait_stopped")
    /\ Goto("aq")
    /\ UNCHANGED <<deviceVars, owner, qpVars, openVars>>

\* nvme_mmio_csts_wait_until_not_ready
OpenStopped ==
    /\ At("open", "wait_stopped")
    /\ \/ ~rdy /\ Polls /\ Goto("aq") /\ UNCHANGED ctrl
       \/ (rdy \/ ~Polls) /\ Fail
    /\ UNCHANGED <<deviceVars, owner, qpVars, held, lateStop, lifeVars>>

\* nvme_qpair_init.  Without PRP pages it frees the pool and leaves the pointer
\* to it, so that closing frees it again: undefined, it ends the process (as
\* any step may) or does nothing.
OpenAq ==
    /\ At("open", "aq")
    /\ \/ /\ Take(HostFrames, "aq", 0)
          /\ cpls' = <<>>
          /\ Goto("aq_setup") /\ UNCHANGED ctrl
       \/ Fail /\ UNCHANGED <<owner, cpls>>
    /\ UNCHANGED <<cap, cc, rdy, asq, ioqVars, pend, qpVars, held, lateStop, lifeVars>>

OpenAqSetup ==
    /\ At("open", "aq_setup")
    /\ AqSetup(FrameOf("aq", 0))
    /\ Goto("enable")
    /\ UNCHANGED <<owner, qpVars, openVars>>

OpenEnable ==
    /\ At("open", "enable")
    /\ CcWrite(ConfigurationFor(cap))
    /\ Goto("wait_ready")
    /\ UNCHANGED <<owner, qpVars, openVars>>

OpenReady ==
    /\ At("open", "wait_ready")
    /\ \/ rdy /\ Return /\ ctrl' = "open"
       \/ ~rdy /\ Fail
    /\ UNCHANGED <<deviceVars, owner, qpVars, held, lateStop, lifeVars>>

-----------------------------------------------------------------------------
(***************************************************************************)
(* nvme_controller_create_io_qpair.                                        *)
(***************************************************************************)
Steady == Idle /\ ctrl = "open" /\ doubts < MaxDoubts

\* Without a free identifier the call returns at once.
CreateStart(kind) ==
    /\ Steady
    /\ LET q == FindFree(qids)
       IN  /\ q # NoQid
           /\ qids' = QidAlloc(qids, q)
           /\ call' = [name |-> "create", step |-> "init", q |-> q, kind |-> kind]
    /\ UNCHANGED <<deviceVars, owner, openVars, qps, doubts, refused>>

\* nvme_qpair_init; if it fails the identifier is free again.
CreateInit ==
    /\ At("create", "init") /\ call.kind = "host"
    /\ \/ Take(HostFrames, "queue", call.q) /\ Goto("create_cq") /\ UNCHANGED qids
       \/ qids' = QidFree(qids, call.q) /\ Return /\ UNCHANGED owner
    /\ UNCHANGED <<deviceVars, openVars, qps, doubts, refused>>

Command(op) == [op |-> op, q |-> call.q, frame |->
    IF OwnedBy("queue", call.q) = {} THEN NoFrame ELSE FrameOf("queue", call.q)]

\* The admin commands, each with the step that reaps its completion.
AdminOps == [
    create_cq |-> "wait_create_cq", create_sq |-> "wait_create_sq",
    delete_sq |-> "wait_delete_sq", delete_cq |-> "wait_delete_cq"]

AdminSubmit ==
    /\ call.step \in DOMAIN AdminOps
    /\ Submit(Command(call.step))
    /\ Goto(AdminOps[call.step])
    /\ UNCHANGED <<owner, qpVars, openVars>>

\* The queue pair is lost to the caller: its identifier stays allocated, its
\* memory in use.
Lose == qps' = [qps EXCEPT ![call.q] = "lost"] /\ Return

CreateCqDone ==
    /\ At("create", "wait_create_cq")
    /\ \/ Reap(FALSE) /\ Goto("create_sq") /\ UNCHANGED <<qps, doubts>>
       \/ Reap(TRUE) /\ Lose /\ UNCHANGED doubts
       \/ TimedOut /\ Lose /\ doubts' = doubts + 1
    /\ UNCHANGED <<owner, openVars, qids, refused>>

CreateSqDone ==
    /\ At("create", "wait_create_sq")
    /\ \/ /\ Reap(FALSE)
          /\ qps' = [qps EXCEPT ![call.q] = call.kind] /\ Return
          /\ UNCHANGED doubts
       \/ Reap(TRUE) /\ Lose /\ UNCHANGED doubts
       \/ TimedOut /\ Lose /\ doubts' = doubts + 1
    /\ UNCHANGED <<owner, openVars, qids, refused>>

-----------------------------------------------------------------------------
(***************************************************************************)
(* nvme_controller_delete_io_qpair.                                        *)
(***************************************************************************)
DeleteStart(q, kind) ==
    /\ Steady
    /\ qps[q] = kind
    /\ call' = [name |-> "delete", step |-> "delete_sq", q |-> q, kind |-> kind]

DeleteHost(q) ==
    /\ DeleteStart(q, "host")
    /\ UNCHANGED <<deviceVars, owner, qpVars, openVars>>

\* The outcome of a deletion is printed: success, a status, or a timeout.
DeleteOutcome ==
    \/ Reap(FALSE) /\ UNCHANGED <<doubts, refused>>
    \/ Reap(TRUE) /\ refused' = refused \cup {call.q} /\ UNCHANGED doubts
    \/ TimedOut /\ doubts' = doubts + 1 /\ UNCHANGED refused

\* Mutant of DeleteSqDone: the completion queue is left to the reset.
DeleteSqDoneSkips ==
    /\ At("delete", "wait_delete_sq")
    /\ DeleteOutcome
    /\ Goto("free")
    /\ UNCHANGED <<owner, openVars, qids, qps>>

\* Whatever comes of it, the call goes on.
DeleteSqDone ==
    /\ At("delete", "wait_delete_sq")
    /\ DeleteOutcome
    /\ Goto("delete_cq")
    /\ UNCHANGED <<owner, openVars, qids, qps>>

DeleteCqDone ==
    /\ At("delete", "wait_delete_cq")
    /\ DeleteOutcome
    /\ Goto("free")
    /\ UNCHANGED <<owner, openVars, qids, qps>>

\* Also of a queue pair that the controller still has.
DeleteFree ==
    /\ At("delete", "free") /\ call.kind = "host"
    /\ Release(OwnedBy("queue", call.q))
    /\ qids' = QidFree(qids, call.q)
    /\ qps' = [qps EXCEPT ![call.q] = "none"]
    /\ Return
    /\ UNCHANGED <<deviceVars, openVars, doubts, refused>>

-----------------------------------------------------------------------------
(***************************************************************************)
(* nvme_controller_close, and what both forms of close free.               *)
(***************************************************************************)
FreeAqAndBuf == Release(OwnedBy("aq", 0) \cup OwnedBy("buf", 0))

\* memset(ctrlr)
Closed ==
    /\ ctrl' = "down"
    /\ qids' = {} /\ qps' = [q \in Qids |-> "none"]
    /\ doubts' = 0 /\ refused' = {}

\* The controller is left as it is: enabled, after a successful open.
Close ==
    /\ Idle /\ via = "sysfs" /\ ctrl \in {"open", "failed"}
    /\ FreeAqAndBuf
    /\ held' = {}
    /\ Closed
    /\ UNCHANGED <<deviceVars, call, lateStop, lifeVars>>

\* The process dies: its memory and descriptors go; the controller carries on.
ProcessDies ==
    /\ owner' = [f \in Frames |-> Unused]
    /\ Return
    /\ ctrl' = "down" /\ held' = {} /\ forgot' = {} /\ again' = FALSE
    /\ qids' = {} /\ qps' = [q \in Qids |-> "none"]
    /\ doubts' = 0 /\ refused' = {}
    /\ UNCHANGED <<via, lateStop>>

-----------------------------------------------------------------------------
OpenStep ==
    \/ OpenFunc \/ OpenBar \/ OpenDisable \/ OpenStopped \/ OpenAq
    \/ OpenAqSetup \/ OpenEnable \/ OpenReady

QueueStep ==
    \/ CreateInit \/ AdminSubmit \/ CreateCqDone \/ CreateSqDone
    \/ DeleteSqDone \/ DeleteCqDone \/ DeleteFree

ControllerNext ==
    \/ OpenStep
    \/ CreateStart("host") \/ QueueStep
    \/ \E q \in Qids : DeleteHost(q)
    \/ Close
=============================================================================
