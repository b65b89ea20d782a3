------------------------------ MODULE NvmeAdmin ------------------------------
(***************************************************************************)
(* The controller as its driver sees it: the registers that enable it and  *)
(* place the admin queue, the I/O queues it has, and the admin commands    *)
(* that create and delete them.  The controller answers in any order, late *)
(* or not at all.                                                          *)
(***************************************************************************)
EXTENDS Naturals, Sequences, SequencesExt, NvmeRegs

CONSTANTS
    Qids,       \* queue identifiers in commands, 0 among them
    Frames,     \* memory that queues and buffers are placed in
    Caps        \* values of the capabilities register

ASSUME AdminAssumption ==
    /\ 0 \in Qids /\ Qids \subseteq Nat
    /\ Frames \subseteq Nat \ {0}
    /\ Caps \subseteq SUBSET (0 .. 63)

VARIABLES
    cap,        \* the capabilities register
    cc,         \* the configuration register
    rdy,        \* CSTS.RDY
    asq,        \* the frame ASQ and ACQ point to
    cqs, sqs,   \* the frame of each I/O completion and submission queue
    pend,       \* admin commands submitted and not executed
    cpls        \* statuses in the admin completion queue, not reaped

ioqVars == <<cqs, sqs>>
deviceVars == <<cap, cc, rdy, asq, cqs, sqs, pend, cpls>>

NoFrame == 0
NoQueues == [q \in Qids |-> NoFrame]
Enabled == 0 \in cc

AdminInit ==
    /\ cap \in Caps
    /\ cc = {} /\ rdy = FALSE
    /\ asq = NoFrame
    /\ cqs = NoQueues /\ sqs = NoQueues
    /\ pend = <<>> /\ cpls = <<>>

-----------------------------------------------------------------------------
(***************************************************************************)
(* External: what the controller does by itself.                           *)
(***************************************************************************)
\* Disabling takes effect some time later and drops queues and commands.
DeviceStops ==
    /\ ~Enabled /\ rdy
    /\ rdy' = FALSE
    /\ cqs' = NoQueues /\ sqs' = NoQueues
    /\ pend' = <<>>
    /\ UNCHANGED <<cap, cc, asq, cpls>>

DeviceStarts ==
    /\ Enabled /\ ~rdy
    /\ rdy' = TRUE
    /\ UNCHANGED <<cap, cc, asq, ioqVars, pend, cpls>>

\* Status fields: "CQ invalid" has status code 0 and status code type 1.
Carried(c) ==
    \/ /\ c.op = "create_cq" /\ c.q # 0 /\ cqs[c.q] = NoFrame
       /\ cqs' = [cqs EXCEPT ![c.q] = c.frame] /\ UNCHANGED sqs
    \/ /\ c.op = "create_sq" /\ c.q # 0 /\ cqs[c.q] # NoFrame /\ sqs[c.q] = NoFrame
       /\ sqs' = [sqs EXCEPT ![c.q] = c.frame] /\ UNCHANGED cqs
    \/ /\ c.op = "delete_sq" /\ c.q # 0 /\ sqs[c.q] # NoFrame
       /\ sqs' = [sqs EXCEPT ![c.q] = NoFrame] /\ UNCHANGED cqs
    \/ /\ c.op = "delete_cq" /\ c.q # 0 /\ cqs[c.q] # NoFrame /\ sqs[c.q] = NoFrame
       /\ cqs' = [cqs EXCEPT ![c.q] = NoFrame] /\ UNCHANGED sqs

DeviceExecutes ==
    /\ rdy
    /\ \E i \in DOMAIN pend :
          /\ pend' = RemoveAt(pend, i)
          /\ \/ Carried(pend[i]) /\ cpls' = Append(cpls, "ok")
             \/ /\ pend[i].op = "create_sq" /\ cqs[pend[i].q] = NoFrame
                /\ cpls' = Append(cpls, "cq_invalid") /\ UNCHANGED ioqVars
             \/ cpls' = Append(cpls, "failed") /\ UNCHANGED ioqVars
    /\ UNCHANGED <<cap, cc, rdy, asq>>

Device == DeviceStops \/ DeviceStarts \/ DeviceExecutes

\* The kernel resets the function when VFIO opens and closes it.
FunctionReset ==
    /\ cc' = {} /\ rdy' = FALSE
    /\ asq' = NoFrame
    /\ cqs' = NoQueues /\ sqs' = NoQueues
    /\ pend' = <<>>
    /\ UNCHANGED <<cap, cpls>>

-----------------------------------------------------------------------------
(***************************************************************************)
(* The driver's side.  nvme_qpair_submit_sync: submit, then the first      *)
(* completion there is, whichever command it answers, or a timeout.        *)
(***************************************************************************)
Submit(c) ==
    /\ pend' = Append(pend, c)
    /\ UNCHANGED <<cap, cc, rdy, asq, ioqVars, cpls>>

\* Mutant of IsError: no status is looked at.
IsErrorNever(status) == FALSE

\* cpl->status & 0x1FE: the status code without its type.
IsError(status) == status = "failed"

Reap(err) ==
    /\ cpls # <<>>
    /\ err = IsError(Head(cpls))
    /\ cpls' = Tail(cpls)
    /\ UNCHANGED <<cap, cc, rdy, asq, ioqVars, pend>>

TimedOut == cpls = <<>> /\ UNCHANGED deviceVars

CcWrite(val) ==
    /\ cc' = val
    /\ UNCHANGED <<cap, rdy, asq, ioqVars, pend, cpls>>

\* nvme_mmio_aq_setup
AqSetup(frame) ==
    /\ asq' = frame
    /\ UNCHANGED <<cap, cc, rdy, ioqVars, pend, cpls>>

\* CAP.TO * 500 ms, polled every millisecond: not at all if it is 0.
Polls == CapGet(cap, "to") # {}
=============================================================================
