------------------------------ MODULE NvmeSync ------------------------------
(***************************************************************************)
(* nvme_qpair_submit_sync and its _contig_prps and _iov_prps forms, which  *)
(* differ in how they build the PRP fields only: alloc, enqueue, ring,     *)
(* poll until a completion or the timeout, free, return.  The caller makes *)
(* one call after the other, also after a timeout, as                      *)
(* nvme_controller_delete_io_qpair does; the controller may be late, and   *)
(* its completion of an earlier command may arrive during a later call.    *)
(*                                                                         *)
(* The command of call n asks for operation n, so that a completion tells  *)
(* which call it answers.                                                  *)
(***************************************************************************)
EXTENDS NvmeQpair

CONSTANTS
    MaxCalls,       \* bound: calls made
    Statuses        \* CQE status fields the controller may report, phase bit 0

ASSUME SyncAssumption ==
    /\ MaxCalls \in Nat
    /\ Ops = 1 .. MaxCalls

ASSUME StatusAssumption == Statuses \subseteq {s \in 0 .. 65535 : s % 2 = 0}

EIO == 5
EAGAIN == 11

VARIABLES
    pc,         \* "idle", then "enqueue", "ring", "poll", "free"
    calls,      \* calls begun, the operation of the current one
    timeouts,   \* calls that gave up
    req,        \* req->cid of the current call
    cpl,        \* *cpl: the completion the last reap returned
    status,     \* cpl->status without the phase bit
    rc          \* what the last call returned

syncVars == <<pc, calls, timeouts, req, cpl, status, rc>>
allVars == <<vars, syncVars>>

SyncInit ==
    /\ Init
    /\ pc = "idle"
    /\ calls = 0
    /\ timeouts = 0
    /\ req = 0
    /\ cpl = [cid |-> 0, op |-> NoOp]
    /\ status = 0
    /\ rc = 0

-----------------------------------------------------------------------------
\* nvme_request_alloc; cmd->cid = req->cid.
CallAlloc ==
    /\ pc = "idle"
    /\ calls < MaxCalls
    /\ NvmeRequestAlloc
    /\ UNCHANGED <<hostVars, ctrlVars>>
    /\ calls' = calls + 1
    /\ req' = IF stack = <<>> THEN req ELSE Top
    /\ pc' = IF stack = <<>> THEN "idle" ELSE "enqueue"
    /\ UNCHANGED <<timeouts, cpl, status, rc>>

CallEnqueue ==
    /\ pc = "enqueue"
    /\ Enqueue(req, calls)
    /\ UNCHANGED user
    /\ pc' = "ring"
    /\ UNCHANGED <<calls, timeouts, req, cpl, status, rc>>

CallRing ==
    /\ pc = "ring"
    /\ SqdbUpdate
    /\ pc' = "poll"
    /\ UNCHANGED <<calls, timeouts, req, cpl, status, rc>>

\* The first completion there is, whichever command it belongs to.
CallReap ==
    /\ pc = "poll"
    /\ ReapCpl
    /\ cpl' = [cid |-> cq[head].cid, op |-> cq[head].op]
    /\ status' \in Statuses
    /\ pc' = "free"
    /\ UNCHANGED <<calls, timeouts, req, rc>>

\* Mutant of CallTimeout: the request goes back to the pool.
TimeoutFrees ==
    /\ pc = "poll"
    /\ ~EntryIsNew(head)
    /\ NvmeRequestFree(req)
    /\ UNCHANGED <<hostVars, ctrlVars>>
    /\ timeouts' = timeouts + 1
    /\ rc' = EAGAIN
    /\ pc' = "idle"
    /\ UNCHANGED <<calls, req, cpl, status>>

\* Mutant of CallTimeout: polling without a bound.
TimeoutNever ==
    /\ pc = "poll"
    /\ ~EntryIsNew(head)
    /\ UNCHANGED allVars

\* The last poll found nothing: err = -EAGAIN, return -err.  Nothing else is
\* done; the request stays allocated and the command stays in flight.
CallTimeout ==
    /\ pc = "poll"
    /\ ~EntryIsNew(head)
    /\ timeouts' = timeouts + 1
    /\ rc' = EAGAIN
    /\ pc' = "idle"
    /\ UNCHANGED <<vars, calls, req, cpl, status>>

\* cpl->status & 0x1FE: the status code, without the status code type.
StatusCode(s) == (s \div 2) % 256

\* Mutant of CallFree: the completion's cid is freed, not the request's.
FreeCplCid ==
    /\ pc = "free"
    /\ NvmeRequestFree(cpl.cid)
    /\ UNCHANGED <<hostVars, ctrlVars>>
    /\ rc' = IF StatusCode(status) # 0 THEN -EIO ELSE 0
    /\ pc' = "idle"
    /\ UNCHANGED <<calls, timeouts, req, cpl, status>>

CallFree ==
    /\ pc = "free"
    /\ NvmeRequestFree(req)
    /\ UNCHANGED <<hostVars, ctrlVars>>
    /\ rc' = IF StatusCode(status) # 0 THEN -EIO ELSE 0
    /\ pc' = "idle"
    /\ UNCHANGED <<calls, timeouts, req, cpl, status>>

SubmitSync ==
    /\ ~aborted
    /\ CallAlloc \/ CallEnqueue \/ CallRing \/ CallReap \/ CallTimeout \/ CallFree

SyncNext == SubmitSync \/ (Controller /\ UNCHANGED syncVars)

\* The calling thread runs; of the controller nothing is assumed.
SyncSpec == SyncInit /\ [][SyncNext]_allVars /\ WF_allVars(SubmitSync)

-----------------------------------------------------------------------------
SyncTypeOK ==
    /\ TypeOK
    /\ pc \in {"idle", "enqueue", "ring", "poll", "free"}
    /\ calls \in 0 .. MaxCalls
    /\ timeouts \in 0 .. MaxCalls
    /\ req \in Cids
    /\ cpl \in Commands
    /\ status \in Statuses \cup {0}
    /\ rc \in Int

HoldsRequest == pc # "idle"
Announced == pc \in {"ring", "poll"}

\* A call that times out keeps its request for good and no other call does:
\* the freelist shrinks by exactly one cid per timeout, whatever stale
\* completions later calls pick up, and holds no cid twice.
OneRequestLostPerTimeout ==
    /\ Len(stack) = PoolLen - timeouts - (IF HoldsRequest THEN 1 ELSE 0)
    /\ IsInjective(stack)

\* The rings never recover from a timeout: as long as they cannot overflow,
\* the commands and completions under way are those of the current call and
\* one per timeout, even after the controller has caught up.
BacklogIsTimeouts ==
    timeouts + 1 < Depth =>
        Distance(sqHead, tail) + Cardinality(exec) + Distance(head, cqTail)
            = timeouts + (IF Announced THEN 1 ELSE 0)

\* Until the first timeout, a call returns the completion of its own command
\* and frees a cid that no ring and not the controller holds any more.
OwnCompletionUntilTimeout ==
    (timeouts = 0 /\ pc = "free") =>
        cpl = [cid |-> req, op |-> calls] /\ req \notin InFlight

\* A call returns although the controller may hang.
EveryCallReturns == HoldsRequest ~> ~HoldsRequest

-----------------------------------------------------------------------------
\* "On success 0 is returned": of a call whose completion reports an error
\* it is not.  Error here is any status code or status code type but 0.
ErrorStatusIsReturned ==
    (pc = "idle" /\ rc = 0) => status % 4096 = 0

\* "waits for completion, and populates cpl": the completion is the command's.
CompletionIsOwn == pc = "free" => cpl.op = calls
=============================================================================
