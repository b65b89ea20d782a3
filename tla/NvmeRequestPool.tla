--------------------------- MODULE NvmeRequestPool ---------------------------
(***************************************************************************)
(* The pool of command identifiers of one queue pair, nvme_request.h: a    *)
(* LIFO freelist of cids.  stack holds stack[0..top-1], so top is          *)
(* Len(stack); what the array keeps above top is never read and is left    *)
(* out.  reqs[cid].user is the pointer the caller wants back with the      *)
(* completion.                                                             *)
(*                                                                         *)
(* The asserts of alloc and free are modelled as a stop of the host        *)
(* (aborted): nothing of the host runs after one failed.                   *)
(***************************************************************************)
EXTENDS Integers, Sequences, Functions

CONSTANTS
    PoolLen,    \* NVME_REQUEST_POOL_LEN
    Ops,        \* what a command asks for, and what reqs[cid].user points to
    NoOp        \* a zeroed command, a NULL user pointer

ASSUME PoolAssumption ==
    /\ PoolLen \in 1 .. 65535
    /\ NoOp \notin Ops

VARIABLES
    stack,      \* the free cids, the last one is handed out next
    user,       \* reqs[cid].user
    owned,      \* cids the caller holds: allocated and not in flight
    aborted     \* an assert() failed

poolVars == <<stack, user, owned, aborted>>

Cids == 0 .. PoolLen - 1

PoolTypeOK ==
    /\ stack \in Seq(Cids)
    /\ user \in [Cids -> Ops \cup {NoOp}]
    /\ owned \in SUBSET Cids
    /\ aborted \in BOOLEAN

\* nvme_request_pool_init: stack[LEN - 1 - i] = i, so cid 0 is on top.
PoolInit ==
    /\ stack = [k \in 1 .. PoolLen |-> PoolLen - k]
    /\ user = [c \in Cids |-> NoOp]
    /\ owned = {}
    /\ aborted = FALSE

\* Requests handed out and not given back.
Outstanding == PoolLen - Len(stack)

Top == stack[Len(stack)]

\* Mutant of NvmeRequestAlloc: the cid is read and stays on the stack.
AllocKeepsTop ==
    /\ aborted' = (stack = <<>>)
    /\ owned' = IF stack = <<>> THEN owned ELSE owned \cup {Top}
    /\ UNCHANGED <<stack, user>>

NvmeRequestAlloc ==
    /\ aborted' = (stack = <<>>)
    /\ stack' = IF stack = <<>> THEN stack ELSE SubSeq(stack, 1, Len(stack) - 1)
    /\ owned' = IF stack = <<>> THEN owned ELSE owned \cup {Top}
    /\ UNCHANGED user

NvmeRequestFree(cid) ==
    /\ aborted' = (Len(stack) = PoolLen)
    /\ stack' = IF Len(stack) = PoolLen THEN stack ELSE Append(stack, cid)
    /\ owned' = owned \ {cid}
    /\ UNCHANGED user
=============================================================================
