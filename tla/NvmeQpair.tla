------------------------------ MODULE NvmeQpair ------------------------------
(***************************************************************************)
(* One NVMe queue pair, nvme_qpair.h, used asynchronously: a single host   *)
(* thread allocates requests, enqueues commands, rings the submission      *)
(* doorbell and reaps completions, while the controller (external: it is   *)
(* known only through the doorbells and the two rings) fetches commands    *)
(* in ring order and completes them in any order.                          *)
(*                                                                         *)
(* A host operation is one action: between two of its stores the           *)
(* controller can only see a state it could also see before or after the   *)
(* operation, since the doorbell store is the last one of each operation   *)
(* and the only one that gives the controller something to do.             *)
(***************************************************************************)
EXTENDS NvmeRequestPool, FiniteSets

CONSTANTS
    Depth,      \* qp->depth, the length of both rings
    QueueLimit  \* how many requests the caller keeps outstanding

\* 64 KiB of 64-byte entries hold 1024 commands.  A ring of Depth entries
\* distinguishes at most Depth - 1 outstanding commands; neither enqueue nor
\* reap checks it, so the limit is an obligation of the caller.
ASSUME QpairAssumption ==
    /\ Depth \in 2 .. 1024
    /\ QueueLimit \in 1 .. Depth - 1
    /\ QueueLimit <= PoolLen

UINT16_MAX == 65535

VARIABLES
    sq,         \* submission ring: commands, stale ones included
    tail,       \* qp->tail
    tailLast,   \* qp->tail_last_written
    sqdb,       \* submission queue tail doorbell in BAR0
    cq,         \* completion ring: entries with their phase tag
    head,       \* qp->head
    phase,      \* qp->phase
    cqdb,       \* completion queue head doorbell in BAR0
    sqHead,     \* controller: next command to fetch
    exec,       \* controller: commands fetched and not completed
    cqTail,     \* controller: next completion entry to write
    cqPhase     \* controller: the phase tag it writes

hostVars == <<sq, tail, tailLast, sqdb, head, phase, cqdb>>
ctrlVars == <<cq, sqHead, exec, cqTail, cqPhase>>
vars == <<poolVars, hostVars, ctrlVars>>

Slots == 0 .. Depth - 1
Commands == [cid : Cids, op : Ops \cup {NoOp}]

(***************************************************************************)
(* Ring arithmetic.  The slots from a up to b, b excluded, going round.    *)
(***************************************************************************)
\* Mutant of Succ: the index runs past the end of the ring.
SuccNoWrap(i) == i + 1

Succ(i) == (i + 1) % Depth

Between(i, a, b) == IF a <= b THEN a <= i /\ i < b ELSE a <= i \/ i < b

Span(a, b) == {i \in Slots : Between(i, a, b)}

Distance(a, b) == IF a <= b THEN b - a ELSE Depth - a + b

-----------------------------------------------------------------------------
\* Both rings are zeroed; entries of the first lap carry phase tag 1.
QpairInit ==
    /\ sq = [i \in Slots |-> [cid |-> 0, op |-> NoOp]]
    /\ tail = 0
    /\ tailLast = UINT16_MAX
    /\ head = 0
    /\ phase = 1

ControllerInit ==
    /\ cq = [i \in Slots |-> [cid |-> 0, op |-> NoOp, phase |-> 0]]
    /\ sqdb = 0
    /\ cqdb = 0
    /\ sqHead = 0
    /\ exec = {}
    /\ cqTail = 0
    /\ cqPhase = 1

Init == PoolInit /\ QpairInit /\ ControllerInit

-----------------------------------------------------------------------------
\* nvme_qpair_enqueue of a command the caller filled in.
Enqueue(c, o) ==
    /\ sq' = [sq EXCEPT ![tail] = [cid |-> c, op |-> o]]
    /\ tail' = Succ(tail)
    /\ owned' = owned \ {c}
    /\ UNCHANGED <<stack, aborted, tailLast, sqdb, head, phase, cqdb, ctrlVars>>

\* Mutant of SqdbUpdate: the doorbell gets the index of the last command
\* and not the index behind it.
SqdbBehind ==
    /\ tail # tailLast
    /\ sqdb' = IF tail = 0 THEN 0 ELSE tail - 1
    /\ tailLast' = tail
    /\ UNCHANGED <<poolVars, sq, tail, head, phase, cqdb, ctrlVars>>

\* nvme_qpair_sqdb_update: a call with nothing new changes nothing.
SqdbUpdate ==
    /\ tail # tailLast
    /\ sqdb' = tail
    /\ tailLast' = tail
    /\ UNCHANGED <<poolVars, sq, tail, head, phase, cqdb, ctrlVars>>

\* The test by which the host recognises a completion it has not seen.
EntryIsNew(i) == cq[i].cid < UINT16_MAX /\ cq[i].phase = phase

\* Mutant of ReapCpl: the phase is not flipped when head wraps.
ReapKeepsPhase ==
    /\ EntryIsNew(head)
    /\ head' = IF head + 1 = Depth THEN 0 ELSE head + 1
    /\ cqdb' = head'
    /\ owned' = owned \cup {cq[head].cid}
    /\ UNCHANGED <<stack, user, aborted, sq, tail, tailLast, sqdb, phase, ctrlVars>>

\* nvme_qpair_reap_cpl when it finds a completion.  The polls that find none,
\* and the -EAGAIN after the last of them, change nothing.
ReapCpl ==
    /\ EntryIsNew(head)
    /\ head' = IF head + 1 = Depth THEN 0 ELSE head + 1
    /\ phase' = IF head + 1 = Depth THEN 1 - phase ELSE phase
    /\ cqdb' = head'
    /\ owned' = owned \cup {cq[head].cid}
    /\ UNCHANGED <<stack, user, aborted, sq, tail, tailLast, sqdb, ctrlVars>>

-----------------------------------------------------------------------------
\* The controller: fetch in ring order up to the doorbell.
Fetch ==
    /\ sqHead # sqdb
    /\ exec' = exec \cup {sq[sqHead]}
    /\ sqHead' = Succ(sqHead)
    /\ UNCHANGED <<poolVars, hostVars, cq, cqTail, cqPhase>>

\* The controller: complete any fetched command, unless the completion ring
\* is full as far as the head doorbell tells.
Post(x) ==
    /\ x \in exec
    /\ Succ(cqTail) # cqdb
    /\ cq' = [cq EXCEPT ![cqTail] = [cid |-> x.cid, op |-> x.op, phase |-> cqPhase]]
    /\ exec' = exec \ {x}
    /\ cqTail' = Succ(cqTail)
    /\ cqPhase' = IF cqTail + 1 = Depth THEN 1 - cqPhase ELSE cqPhase
    /\ UNCHANGED <<poolVars, hostVars, sqHead>>

-----------------------------------------------------------------------------
\* Mutant of ClientAlloc: one request too many for the ring.
AllocOneMore ==
    /\ Outstanding <= QueueLimit
    /\ NvmeRequestAlloc
    /\ UNCHANGED <<hostVars, ctrlVars>>

\* The caller: alloc, enqueue, ring, reap, free or enqueue again.
ClientAlloc ==
    /\ Outstanding < QueueLimit
    /\ NvmeRequestAlloc
    /\ UNCHANGED <<hostVars, ctrlVars>>

ClientFree(c) ==
    /\ NvmeRequestFree(c)
    /\ UNCHANGED <<hostVars, ctrlVars>>

\* The caller remembers in req->user what the command is for.
ClientEnqueue(c, o) ==
    /\ user' = [user EXCEPT ![c] = o]
    /\ Enqueue(c, o)

Host ==
    /\ ~aborted
    /\ \/ ClientAlloc
       \/ \E c \in owned : ClientFree(c)
       \/ \E c \in owned, o \in Ops : ClientEnqueue(c, o)
       \/ SqdbUpdate
       \/ ReapCpl

Controller == Fetch \/ \E x \in exec : Post(x)

Next == Host \/ Controller

\* The caller rings after it enqueued and keeps polling; the controller works
\* on what it was given, each fetched command by itself.
Fairness ==
    /\ WF_vars(~aborted /\ SqdbUpdate)
    /\ WF_vars(~aborted /\ ReapCpl)
    /\ WF_vars(Fetch)
    /\ \A x \in Commands : WF_vars(Post(x))

Spec == Init /\ [][Next]_vars /\ Fairness

-----------------------------------------------------------------------------
TypeOK ==
    /\ PoolTypeOK
    /\ sq \in [Slots -> Commands]
    /\ tail \in Slots
    /\ tailLast \in Slots \cup {UINT16_MAX}
    /\ sqdb \in Slots
    /\ cq \in [Slots -> [cid : Cids, op : Ops \cup {NoOp}, phase : {0, 1}]]
    /\ head \in Slots
    /\ phase \in {0, 1}
    /\ cqdb \in Slots
    /\ sqHead \in Slots
    /\ exec \in SUBSET Commands
    /\ cqTail \in Slots
    /\ cqPhase \in {0, 1}

(***************************************************************************)
(* Where a cid can be: on the freelist, with the caller, in the submission *)
(* ring, in execution or in the completion ring.                           *)
(***************************************************************************)
Unfetched == Span(sqHead, tail)
Unreaped == Span(head, cqTail)

Free == Range(stack)
Queued == {sq[i].cid : i \in Unfetched}
Executing == {x.cid : x \in exec}
Posted == {cq[i].cid : i \in Unreaped}
InFlight == Queued \cup Executing \cup Posted

NoCidTwice ==
    /\ IsInjective(stack)
    /\ \A i, j \in Unfetched : sq[i].cid = sq[j].cid => i = j
    /\ \A x, y \in exec : x.cid = y.cid => x = y
    /\ \A i, j \in Unreaped : cq[i].cid = cq[j].cid => i = j

PlacesDisjoint ==
    /\ Free \cap owned = {}
    /\ (Free \cup owned) \cap InFlight = {}
    /\ Queued \cap Executing = {}
    /\ (Queued \cup Executing) \cap Posted = {}

\* A cid is in exactly one place at any time, and none is ever lost: what
\* nvme_request_free asks of its callers ("must no longer be referenced in
\* any submission or completion queue") and what makes cpl.cid an identity.
CidsConserved ==
    /\ NoCidTwice
    /\ PlacesDisjoint
    /\ Free \cup owned \cup InFlight = Cids

\* The phase test of nvme_qpair_reap_cpl sees an entry as new exactly when
\* the controller posted it and the host has not reaped it, in every lap.
PhaseTagExact == EntryIsNew(head) <=> head # cqTail

\* A completion found through cpl.cid belongs to the request whose user
\* pointer is in reqs[cpl.cid], whatever the order of completion.
CompletionMatchesRequest ==
    \A i \in Unreaped : cq[i].op = user[cq[i].cid]

\* The asserts in nvme_request_alloc and nvme_request_free never fail for a
\* caller that keeps to QueueLimit.
NoAbort == ~aborted

\* What is in a ring stays there unchanged until its reader takes it: no full
\* lap makes a ring look empty and nothing is overwritten, though neither
\* enqueue nor reap tests for a full ring.
RingsKeepEntries ==
    [][/\ sqHead' = sqHead =>
            /\ Unfetched \subseteq Unfetched'
            /\ \A i \in Unfetched : sq'[i] = sq[i]
       /\ head' = head =>
            /\ Unreaped \subseteq Unreaped'
            /\ \A i \in Unreaped : cq'[i] = cq[i]]_vars

\* Every command that was enqueued comes back to the caller.
EveryCommandReturns ==
    \A c \in Cids : c \in InFlight ~> c \in owned

-----------------------------------------------------------------------------
(***************************************************************************)
(* What the safety properties rest on.  Neither ring is ever tested for    *)
(* being full; that they are not follows from counting: what is in use,    *)
(* wherever it is, is no more than what was allocated, and the caller      *)
(* keeps that below Depth.                                                 *)
(***************************************************************************)
InUse ==
    Cardinality(owned) + Distance(sqHead, tail)
        + Cardinality(exec) + Distance(head, cqTail)

RingsFit ==
    /\ IsFiniteSet(exec)
    /\ InUse <= Outstanding
    /\ Outstanding <= QueueLimit

\* The controller knows how far the host has reaped, and of no command that
\* was not enqueued.
Doorbells ==
    /\ cqdb = head
    /\ Distance(sqHead, sqdb) <= Distance(sqHead, tail)

\* The controller has written its phase tag up to cqTail and the other one,
\* a lap ago, from there on; the host is in the same lap or one behind.
PhaseTags ==
    /\ \A i \in Slots : cq[i].phase = IF i < cqTail THEN cqPhase ELSE 1 - cqPhase
    /\ cqPhase = IF head <= cqTail THEN phase ELSE 1 - phase

\* Inductive: the counting argument and the phase tags, whatever the cids.
RingInv == TypeOK /\ RingsFit /\ Doorbells /\ PhaseTags /\ NoAbort

\* A command keeps its operation on the way through rings and controller.
OpsMatch ==
    /\ \A i \in Unfetched : sq[i].op = user[sq[i].cid]
    /\ \A x \in exec : x.op = user[x.cid]
    /\ CompletionMatchesRequest

\* Inductive together with RingInv: identity and payload of every command.
CidInv == CidsConserved /\ OpsMatch

-----------------------------------------------------------------------------
(***************************************************************************)
(* The queue pair implements the command service: the rings hold the two   *)
(* channels.  The completion channel is what the phase test lets the host  *)
(* see from head on.                                                       *)
(***************************************************************************)
SubmittedSeq ==
    [k \in 1 .. Distance(sqHead, tail) |-> sq[(sqHead + k - 1) % Depth]]

CompletedSeq ==
    [k \in 1 .. Distance(head, cqTail) |->
        LET e == cq[(head + k - 1) % Depth] IN [cid |-> e.cid, op |-> e.op]]

Service == INSTANCE NvmeCommandService
           WITH idle <- Free, submitted <- SubmittedSeq,
                executing <- exec, completed <- CompletedSeq

\* Rings, phase tags, batched doorbells and the freelist together behave like
\* two FIFO channels, and every command gets through.
ImplementsService == Service!Spec
=============================================================================
