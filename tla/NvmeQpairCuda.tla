--------------------------- MODULE NvmeQpairCuda ---------------------------
(***************************************************************************)
(* nvme_qpair_cuda.h: the threads of a block submit and reap one batch a   *)
(* round through one queue pair, nvme_qpair_cuda_io between two barriers,  *)
(* as the kernel of tests/nvme_cuda_kernels.cu calls it.  A command is     *)
(* named by its round and the thread that submits it; its cid is the       *)
(* thread.                                                                 *)
(***************************************************************************)
EXTENDS Integers, FiniteSets

CONSTANTS
    Depth,          \* qp->depth
    BlockDim,       \* threads in the block
    IoCounts,       \* numbers of commands the kernel may be started with
    OldPhases       \* phase bits the memory of a new completion queue may hold

UINT16_MAX == 65535

\* In a deeper queue head + offset, cut to 16 bits, would pass for an entry in
\* front of the wrap.
ASSUME CudaAssumption ==
    /\ Depth \in Nat \ {0, 1} /\ BlockDim \in 1 .. Depth
    /\ Depth + BlockDim <= UINT16_MAX
    /\ IoCounts \subseteq Nat \ {0}
    /\ OldPhases \subseteq {0, 1}

VARIABLES
    numIos,         \* num_ios
    pc, round,      \* of each thread
    got,            \* what each thread reaped in its round
    tail, head, phase,  \* of the queue pair
    sq, cq,         \* entries in memory
    sqdb, cqdb,     \* doorbells
    sqHead, inflight, cqTail, cqPhase,  \* of the controller
    late            \* some thread timed out

qpVars == <<tail, head, phase, sqdb, cqdb>>
deviceVars == <<sqHead, inflight, cqTail, cqPhase, cq>>
vars == <<numIos, pc, round, got, qpVars, sq, deviceVars, late>>

Threads == 0 .. BlockDim - 1
Slots == 0 .. Depth - 1
Rounds == (numIos + BlockDim - 1) \div BlockDim
BatchSize(r) ==
    LET remaining == IF r * BlockDim < numIos THEN numIos - r * BlockDim ELSE 0
    IN  IF remaining < BlockDim THEN remaining ELSE BlockDim
Active(t) == t < BatchSize(round[t])

NoCmd == [round |-> -1, cid |-> 0]
Cmd(t) == [round |-> round[t], cid |-> t]

\* Nothing clears the memory that create_io_qpair takes for the queues.
Init ==
    /\ numIos \in IoCounts
    /\ pc = [t \in Threads |-> "enqueue"]
    /\ round = [t \in Threads |-> 0]
    /\ got = [t \in Threads |-> NoCmd]
    /\ tail = 0 /\ head = 0 /\ phase = 1
    /\ sq = [i \in Slots |-> NoCmd]
    /\ cq \in [Slots -> [cmd : {NoCmd}, phase : OldPhases]]
    /\ sqdb = 0 /\ cqdb = 0
    /\ sqHead = 0 /\ inflight = {} /\ cqTail = 0 /\ cqPhase = 1
    /\ late = FALSE

Goto(t, step) == pc' = [pc EXCEPT ![t] = step]

-----------------------------------------------------------------------------
(***************************************************************************)
(* nvme_qpair_cuda_io, one step of one thread at a time.                   *)
(***************************************************************************)
\* Mutant of EnqueueAtI: threads without a command leave.
EnqueueSkipsBarriers(t) ==
    /\ pc[t] = "enqueue"
    /\ IF Active(t)
       THEN sq' = [sq EXCEPT ![(tail + t) % Depth] = Cmd(t)] /\ Goto(t, "barrier1")
       ELSE Goto(t, "done") /\ UNCHANGED sq
    /\ UNCHANGED <<numIos, round, got, qpVars, deviceVars, late>>

EnqueueAtI(t) ==
    /\ pc[t] = "enqueue"
    /\ sq' = IF Active(t) THEN [sq EXCEPT ![(tail + t) % Depth] = Cmd(t)] ELSE sq
    /\ Goto(t, "barrier1")
    /\ UNCHANGED <<numIos, round, got, qpVars, deviceVars, late>>

\* Mutant of Syncthreads: a barrier that holds nobody.
SyncthreadsNot(barrier) ==
    /\ \E t \in Threads : /\ pc[t] = barrier
                          /\ Goto(t, IF barrier = "barrier1" THEN "ring" ELSE "advance")
    /\ UNCHANGED <<numIos, round, got, qpVars, sq, deviceVars, late>>

\* __syncthreads: every thread of the block waits for every other.
Syncthreads(barrier) ==
    /\ \A t \in Threads : pc[t] = barrier
    /\ pc' = [t \in Threads |-> IF barrier = "barrier1" THEN "ring" ELSE "advance"]
    /\ UNCHANGED <<numIos, round, got, qpVars, sq, deviceVars, late>>

SqUpdate(t) ==
    /\ pc[t] = "ring"
    /\ IF t = 0 /\ BatchSize(round[t]) > 0
       THEN /\ tail' = (tail + BatchSize(round[t])) % Depth
            /\ sqdb' = tail'
       ELSE UNCHANGED <<tail, sqdb>>
    /\ Goto(t, IF Active(t) THEN "reap" ELSE "barrier2")
    /\ UNCHANGED <<numIos, round, got, head, phase, cqdb, sq, deviceVars, late>>

\* Mutant of ExpectedPhase: the phase is the queue pair's.
ExpectedPhaseOfHead(t) == phase

\* Behind the wrap of the ring the controller has flipped the tag already.
ExpectedPhase(t) ==
    IF (head + t) % (UINT16_MAX + 1) >= Depth THEN 1 - phase ELSE phase

EntryIsNew(t) ==
    LET entry == cq[(head + t) % Depth]
    IN  entry.cmd.cid < UINT16_MAX /\ entry.phase = ExpectedPhase(t)

\* The entry at the thread's offset, whichever command it completes.
ReapAtI(t) ==
    /\ pc[t] = "reap" /\ EntryIsNew(t)
    /\ got' = [got EXCEPT ![t] = cq[(head + t) % Depth].cmd]
    /\ Goto(t, "barrier2")
    /\ UNCHANGED <<numIos, round, qpVars, sq, deviceVars, late>>

\* The deadline is over: -EAGAIN.
ReapTimeout(t) ==
    /\ pc[t] = "reap" /\ ~EntryIsNew(t)
    /\ got' = [got EXCEPT ![t] = NoCmd]
    /\ Goto(t, "barrier2")
    /\ late' = TRUE
    /\ UNCHANGED <<numIos, round, qpVars, sq, deviceVars>>

\* The head moves by the batch, reaped or not; the kernel's next round.
CqUpdate(t) ==
    /\ pc[t] = "advance"
    /\ IF t = 0 /\ BatchSize(round[t]) > 0
       THEN LET new == head + BatchSize(round[t])
            IN  /\ head' = IF new >= Depth THEN new - Depth ELSE new
                /\ phase' = IF new >= Depth THEN 1 - phase ELSE phase
                /\ cqdb' = head'
       ELSE UNCHANGED <<head, phase, cqdb>>
    /\ round' = [round EXCEPT ![t] = @ + 1]
    /\ Goto(t, IF round[t] + 1 < Rounds THEN "enqueue" ELSE "done")
    /\ UNCHANGED <<numIos, got, tail, sqdb, sq, deviceVars, late>>

-----------------------------------------------------------------------------
(***************************************************************************)
(* The controller: fetches in order, completes in any.                     *)
(***************************************************************************)
Fetch ==
    /\ sqHead # sqdb
    /\ inflight' = inflight \cup {sq[sqHead]}
    /\ sqHead' = (sqHead + 1) % Depth
    /\ UNCHANGED <<numIos, pc, round, got, qpVars, sq, cq, cqTail, cqPhase, late>>

Complete(c) ==
    /\ c \in inflight
    /\ (cqTail + 1) % Depth # cqdb
    /\ cq' = [cq EXCEPT ![cqTail] = [cmd |-> c, phase |-> cqPhase]]
    /\ cqTail' = (cqTail + 1) % Depth
    /\ cqPhase' = IF cqTail = Depth - 1 THEN 1 - cqPhase ELSE cqPhase
    /\ inflight' = inflight \ {c}
    /\ UNCHANGED <<numIos, pc, round, got, qpVars, sq, sqHead, late>>

Thread(t) ==
    \/ EnqueueAtI(t) \/ SqUpdate(t) \/ ReapAtI(t) \/ ReapTimeout(t) \/ CqUpdate(t)

Next ==
    \/ \E t \in Threads : Thread(t)
    \/ Syncthreads("barrier1") \/ Syncthreads("barrier2")
    \/ Fetch
    \/ \E c \in inflight : Complete(c)
    \/ /\ \A t \in Threads : pc[t] = "done"
       /\ UNCHANGED vars

\* The GPU schedules every thread; the controller may be late for ever.
Spec ==
    /\ Init /\ [][Next]_vars
    /\ \A t \in Threads : WF_vars(Thread(t))
    /\ WF_vars(Syncthreads("barrier1") \/ Syncthreads("barrier2"))
-----------------------------------------------------------------------------
Batch(r) == {[round |-> r, cid |-> t] : t \in 0 .. BatchSize(r) - 1}

\* When the threads meet behind a round, without a timeout so far, they have
\* among them the completions of exactly that round's commands: over the wraps
\* of both rings, partial batches, and completions in any order.
RoundReapsItsBatch ==
    (~late /\ \A t \in Threads : pc[t] = "barrier2") =>
        {got[t] : t \in 0 .. BatchSize(round[0]) - 1} = Batch(round[0])

\* What the controller fetches is a command of the round under way: no slot
\* is rung before every thread has written its command, and none written
\* again before it was fetched, until a timeout.
Unfetched == {(sqHead + i) % Depth : i \in 0 .. ((sqdb - sqHead) % Depth) - 1}
RungSlotsHoldTheirBatch ==
    ~late => \A i \in Unfetched : \E t \in Threads : sq[i] \in Batch(round[t])

\* Every thread comes to its end, the ones without a command and the ones
\* whose completion never comes with the others.
EveryThreadEnds == <>(\A t \in Threads : pc[t] = "done")
=============================================================================
