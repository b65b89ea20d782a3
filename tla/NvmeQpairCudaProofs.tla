------------------------ MODULE NvmeQpairCudaProofs ------------------------
(***************************************************************************)
(* Theorems about the threads that share a queue pair on a GPU, for every  *)
(* depth, block size and number of commands.                               *)
(*                                                                         *)
(* Between the barriers the queue pair's head is where the batch begins:   *)
(* counted from it, the first f commands of the batch have been fetched    *)
(* and the first k entries of the completion queue are new.  A thread that *)
(* has reaped saw its entry among them, so that behind the second barrier  *)
(* both counts are the size of the batch.                                  *)
(***************************************************************************)
EXTENDS NvmeQpairCuda, FiniteSetTheorems, TLAPS

\* The slot i behind slot 0, for i below twice the depth.
Wrapped(i) == IF i < Depth THEN i ELSE i - Depth

\* The slot i behind the head, and the tag that entries get from there on.
Slot(i) == Wrapped(head + i)
Flip(i) == IF head + i >= Depth THEN 1 - phase ELSE phase

CmdOf(r, t) == [round |-> r, cid |-> t]
Cmds == [round : Nat \cup {-1}, cid : Threads]

TypeInv ==
    /\ numIos \in Nat
    /\ pc \in [Threads -> {"enqueue", "barrier1", "ring", "reap", "barrier2", "advance", "done"}]
    /\ round \in [Threads -> Nat] /\ got \in [Threads -> Cmds]
    /\ tail \in Slots /\ head \in Slots /\ phase \in {0, 1}
    /\ sq \in [Slots -> Cmds]
    /\ cq \in [Slots -> [cmd : Cmds, phase : {0, 1}]]
    /\ sqdb = tail /\ cqdb = head
    /\ sqHead \in Slots /\ inflight \subseteq Cmds /\ IsFiniteSet(inflight)
    /\ cqTail \in Slots /\ cqPhase \in {0, 1}
    /\ late \in BOOLEAN

\* The slots below the controller's tail carry its tag, the others still that
\* of the lap before.
TagsInv == \A s \in Slots : cq[s].phase = IF s < cqTail THEN cqPhase ELSE 1 - cqPhase

\* The threads are between the barriers of round r, or on the way there.
Within(r) == \A t \in Threads : pc[t] \in {"ring", "reap", "barrier2"} /\ round[t] = r

Between(r) == \A t \in Threads :
    \/ pc[t] \in {"enqueue", "barrier1", "done"} /\ round[t] = r
    \/ pc[t] = "advance" /\ round[t] + 1 = r

\* Nothing is under way; thread 0 may still have to advance the head.
Rested(r) ==
    /\ sqHead = tail /\ cqTail = tail /\ inflight = {}
    /\ IF pc[0] = "advance"
       THEN tail = Slot(BatchSize(round[0])) /\ cqPhase = Flip(BatchSize(round[0]))
       ELSE tail = head /\ cqPhase = phase
    /\ \A t \in Threads : pc[t] = "barrier1" /\ t < BatchSize(r) =>
          sq[Wrapped(tail + t)] = CmdOf(r, t)

\* A batch as large as the queue moves the tail by nothing.
Rung(r) == IF pc[0] = "ring" \/ BatchSize(r) = Depth THEN 0 ELSE BatchSize(r)

\* f commands of round r are fetched, k of them completed.
Underway(r, f, k) ==
    /\ k <= f /\ f <= Rung(r)
    /\ tail = Slot(Rung(r)) /\ sqHead = Slot(f)
    /\ cqTail = Slot(k) /\ cqPhase = Flip(k)
    /\ Cardinality(inflight) = f - k
    /\ {cq[Slot(i)].cmd : i \in 0 .. k - 1} \cup inflight = {CmdOf(r, t) : t \in 0 .. f - 1}
    /\ \A t \in 0 .. BatchSize(r) - 1 : sq[Slot(t)] = CmdOf(r, t)
    /\ \A t \in Threads : pc[t] = "barrier2" /\ t < BatchSize(r) =>
          t < k /\ got[t] = cq[Slot(t)].cmd

RoundInv ==
    \E r \in Nat :
        \/ Between(r) /\ (~late => Rested(r))
        \/ Within(r) /\ (~late => \E f, k \in Nat : Underway(r, f, k))

IInv == TypeInv /\ TagsInv /\ RoundInv

-----------------------------------------------------------------------------
(***************************************************************************)
(* Slots, tags and batches.                                                *)
(***************************************************************************)
LEMMA Sizes ==
    /\ Depth \in Nat /\ Depth >= 2 /\ BlockDim \in Nat /\ BlockDim >= 1 /\ BlockDim <= Depth
    /\ Threads = 0 .. BlockDim - 1 /\ 0 \in Threads /\ Slots = 0 .. Depth - 1
    /\ Threads \subseteq Slots /\ \A t \in Threads : t < UINT16_MAX
    /\ Depth + BlockDim <= 65535
<1>1. /\ Depth \in Nat \ {0, 1} /\ BlockDim \in 1 .. Depth
      /\ Depth + BlockDim <= 65535
  BY CudaAssumption DEF UINT16_MAX
<1>. QED
  BY <1>1 DEF Threads, Slots, UINT16_MAX

\* Reducing modulo the depth subtracts it at most once.
LEMMA ModWrap ==
    ASSUME NEW n \in Nat, n < 2 * Depth
    PROVE  n % Depth = Wrapped(n) /\ Wrapped(n) \in Slots
<1>1. CASE n < Depth
  BY <1>1, Sizes DEF Wrapped
<1>2. CASE n >= Depth
  <2>1. PICK m \in Nat : m = n - Depth
    BY <1>2, Sizes
  <2>2. m < Depth /\ n = m + Depth
    BY <2>1, Sizes
  <2>3. (m + Depth) % Depth = m
    BY <2>2, Sizes
  <2>. QED
    BY <1>2, <2>1, <2>2, <2>3, Sizes DEF Wrapped
<1>. QED
  BY <1>1, <1>2, Sizes

LEMMA WrappedOnce ==
    ASSUME NEW s \in Slots, NEW i \in Slots, NEW j \in Slots, i # j
    PROVE  Wrapped(s + i) # Wrapped(s + j)
BY Sizes DEF Wrapped

LEMMA BatchFacts ==
    ASSUME TypeInv, NEW r \in Nat
    PROVE  /\ BatchSize(r) \in Nat /\ BatchSize(r) <= BlockDim /\ BatchSize(r) <= Depth
           /\ Rung(r) \in Nat /\ Rung(r) <= BatchSize(r) /\ Rung(r) < Depth
<1>1. BatchSize(r) \in Nat /\ BatchSize(r) <= BlockDim
  <2>. DEFINE before == r * BlockDim
              remaining == IF before < numIos THEN numIos - before ELSE 0
  <2>1. before \in Nat /\ numIos \in Nat
    BY Sizes DEF TypeInv
  <2>2. BatchSize(r) = IF remaining < BlockDim THEN remaining ELSE BlockDim
    BY DEF BatchSize
  <2>. HIDE DEF before
  <2>3. remaining \in Nat
    BY <2>1
  <2>. HIDE DEF remaining
  <2>. QED
    BY <2>2, <2>3, Sizes
<1>. QED
  BY <1>1, Sizes DEF Rung

\* Slots counted from the head, and a thread's own one.
LEMMA SlotFacts ==
    ASSUME TypeInv
    PROVE  /\ Slot(0) = head /\ Slot(Depth) = head
           /\ \A i \in 0 .. Depth : /\ Slot(i) \in Slots
                                    /\ (head + i) % Depth = Slot(i)
           /\ \A t \in Threads : Slot(t) \in Slots /\ (head + t) % Depth = Slot(t)
           /\ \A i, j \in Slots : Slot(i) = Slot(j) => i = j
<1>1. head \in Nat /\ head < Depth /\ head \in Slots
  BY Sizes DEF TypeInv
<1>2. Slot(0) = head /\ Slot(Depth) = head
  BY <1>1, Sizes DEF Slot, Wrapped
<1>3. ASSUME NEW i \in 0 .. Depth
      PROVE  Slot(i) \in Slots /\ (head + i) % Depth = Slot(i)
  <2>1. head + i \in Nat /\ head + i < 2 * Depth
    BY <1>1, Sizes
  <2>. QED
    BY <2>1, ModWrap DEF Slot
<1>4. \A i, j \in Slots : Slot(i) = Slot(j) => i = j
  BY <1>1, WrappedOnce DEF Slot
<1>5. \A t \in Threads : t \in 0 .. Depth
  BY Sizes
<1>. QED
  BY <1>2, <1>3, <1>4, <1>5

LEMMA TailSlot ==
    ASSUME TypeInv, NEW t \in Threads
    PROVE  (tail + t) % Depth = Wrapped(tail + t) /\ Wrapped(tail + t) \in Slots
<1>1. tail + t \in Nat /\ tail + t < 2 * Depth
  BY Sizes DEF TypeInv
<1>. QED
  BY <1>1, ModWrap

\* The phase test of a thread: true of the entries posted in this round and of
\* no other, on either side of the wrap.
LEMMA EntryIsNewFacts ==
    ASSUME TypeInv, TagsInv, NEW t \in Threads, NEW k \in Nat, k < Depth,
           cqTail = Slot(k), cqPhase = Flip(k)
    PROVE  EntryIsNew(t) <=> t < k
<1>0. head \in Slots /\ phase \in {0, 1} /\ t \in Slots
  BY Sizes DEF TypeInv
<1>1. t \in Nat /\ t < Depth /\ head \in Nat /\ head < Depth
  BY <1>0, Sizes
<1>4. Slot(t) \in Slots /\ (head + t) % Depth = Slot(t)
  BY SlotFacts
<1>5. cq[Slot(t)].cmd.cid < UINT16_MAX
  <2>1. cq[Slot(t)].cmd \in Cmds
    BY <1>4 DEF TypeInv
  <2>. QED
    BY <2>1, Sizes DEF Cmds
<1>2. cq[Slot(t)].phase = IF Slot(t) < Slot(k) THEN Flip(k) ELSE 1 - Flip(k)
  BY <1>4 DEF TagsInv
<1>3. (IF Slot(t) < Slot(k) THEN Flip(k) ELSE 1 - Flip(k)) = ExpectedPhase(t) <=> t < k
  <2>1. (head + t) % (UINT16_MAX + 1) = head + t
    <3>1. t < BlockDim /\ BlockDim \in Nat
      BY Sizes
    <3>2. Depth \in Nat /\ Depth + BlockDim <= 65535
      BY Sizes
    <3>3. head + t \in Nat /\ head + t < 65536
      BY <1>1, <3>1, <3>2
    <3>. QED
      BY <3>3 DEF UINT16_MAX
  <2>. QED
    BY <1>0, <1>1, <2>1, Sizes DEF Slot, Wrapped, Flip, ExpectedPhase
<1>. QED
  BY <1>4, <1>5, <1>2, <1>3 DEF EntryIsNew

-----------------------------------------------------------------------------
(***************************************************************************)
(* Types and tags.                                                         *)
(***************************************************************************)
LEMMA CudaInit ==
    ASSUME OldPhases \subseteq {0}, Init
    PROVE  IInv
<1>1. numIos \in Nat /\ 0 \in Slots /\ NoCmd \in Cmds
  BY CudaAssumption, Sizes DEF Init, NoCmd, Cmds
<1>2. cq \in [Slots -> [cmd : Cmds, phase : {0, 1}]] /\ \A s \in Slots : cq[s].phase = 0
  BY <1>1 DEF Init
<1>3. TypeInv
  BY <1>1, <1>2, FS_EmptySet DEF Init, TypeInv
<1>4. TagsInv
  BY <1>2, Sizes DEF Init, TagsInv
<1>5. Between(0) /\ Rested(0)
  BY Sizes DEF Init, Between, Rested
<1>. QED
  BY <1>3, <1>4, <1>5 DEF IInv, RoundInv

LEMMA CmdType ==
    ASSUME TypeInv, NEW t \in Threads
    PROVE  Cmd(t) \in Cmds
BY Sizes DEF TypeInv, Cmd, Cmds

LEMMA ThreadType ==
    ASSUME TypeInv, NEW t \in Threads, Thread(t)
    PROVE  TypeInv'
<1>1. CASE EnqueueAtI(t)
  BY <1>1, CmdType, TailSlot DEF EnqueueAtI, Goto, TypeInv, qpVars, deviceVars
<1>2. CASE SqUpdate(t)
  <2>1. tail' \in Slots /\ sqdb' = tail'
    <3>1. CASE t = 0 /\ BatchSize(round[t]) > 0
      <4>1. BatchSize(round[t]) \in Nat /\ BatchSize(round[t]) <= Depth
        BY BatchFacts DEF TypeInv
      <4>2. tail + BatchSize(round[t]) \in Nat /\ tail + BatchSize(round[t]) < 2 * Depth
        BY <4>1, Sizes DEF TypeInv
      <4>. QED
        BY <1>2, <3>1, <4>2, ModWrap DEF SqUpdate
    <3>2. CASE ~(t = 0 /\ BatchSize(round[t]) > 0)
      BY <1>2, <3>2 DEF SqUpdate, TypeInv
    <3>. QED
      BY <3>1, <3>2
  <2>. QED
    BY <1>2, <2>1 DEF SqUpdate, Goto, TypeInv, deviceVars
<1>3. CASE ReapAtI(t) \/ ReapTimeout(t)
  <2>1. (head + t) % Depth \in Slots
    BY Sizes, SlotFacts
  <2>2. got' \in [Threads -> Cmds]
    <3>1. NoCmd \in Cmds
      BY Sizes DEF NoCmd, Cmds
    <3>. QED
      BY <1>3, <2>1, <3>1 DEF ReapAtI, ReapTimeout, TypeInv
  <2>. QED
    BY <1>3, <2>2 DEF ReapAtI, ReapTimeout, Goto, TypeInv, qpVars, deviceVars
<1>4. CASE CqUpdate(t)
  <2>1. head' \in Slots /\ phase' \in {0, 1} /\ cqdb' = head'
    <3>1. BatchSize(round[t]) \in Nat /\ BatchSize(round[t]) <= Depth
      BY BatchFacts DEF TypeInv
    <3>2. CASE t = 0 /\ BatchSize(round[t]) > 0
      BY <1>4, <3>1, <3>2, Sizes DEF CqUpdate, TypeInv
    <3>3. CASE ~(t = 0 /\ BatchSize(round[t]) > 0)
      BY <1>4, <3>3 DEF CqUpdate, TypeInv
    <3>. QED
      BY <3>2, <3>3
  <2>2. round' \in [Threads -> Nat]
    BY <1>4 DEF CqUpdate, TypeInv
  <2>. QED
    BY <1>4, <2>1, <2>2 DEF CqUpdate, Goto, TypeInv, deviceVars
<1>. QED
  BY <1>1, <1>2, <1>3, <1>4 DEF Thread

LEMMA FetchType ==
    ASSUME TypeInv, Fetch
    PROVE  TypeInv'
<1>1. sqHead + 1 \in Nat /\ sqHead + 1 < 2 * Depth
  BY Sizes DEF TypeInv
<1>2. sqHead' \in Slots
  BY <1>1, ModWrap DEF Fetch
<1>3. inflight' \subseteq Cmds /\ IsFiniteSet(inflight')
  BY FS_AddElement DEF Fetch, TypeInv
<1>. QED
  BY <1>2, <1>3 DEF Fetch, TypeInv, qpVars

LEMMA CompleteType ==
    ASSUME TypeInv, TagsInv, NEW c \in inflight, Complete(c)
    PROVE  TypeInv' /\ TagsInv'
<1>1. /\ cqTail \in Nat /\ cqTail < Depth /\ cqPhase \in {0, 1} /\ c \in Cmds
      /\ (cqTail + 1) % Depth = Wrapped(cqTail + 1) /\ Wrapped(cqTail + 1) \in Slots
  <2>1. cqTail + 1 \in Nat /\ cqTail + 1 < 2 * Depth
    BY Sizes DEF TypeInv
  <2>. QED
    BY <2>1, ModWrap, Sizes DEF TypeInv
<1>2. /\ cq' = [cq EXCEPT ![cqTail] = [cmd |-> c, phase |-> cqPhase]]
      /\ cqTail' = Wrapped(cqTail + 1)
      /\ cqPhase' = IF cqTail = Depth - 1 THEN 1 - cqPhase ELSE cqPhase
      /\ inflight' = inflight \ {c}
  BY <1>1 DEF Complete
<1>3. cq' \in [Slots -> [cmd : Cmds, phase : {0, 1}]] /\ cqPhase' \in {0, 1} /\ cqTail' \in Slots
  BY <1>1, <1>2 DEF TypeInv
<1>4. inflight' \subseteq Cmds /\ IsFiniteSet(inflight')
  BY <1>2, FS_RemoveElement DEF TypeInv
<1>5. TypeInv'
  BY <1>3, <1>4 DEF Complete, TypeInv, qpVars
<1>6. TagsInv'
  <2>1. ASSUME NEW s \in Slots
        PROVE  cq'[s].phase = IF s < cqTail' THEN cqPhase' ELSE 1 - cqPhase'
    <3>1. cq'[s].phase = IF s = cqTail THEN cqPhase ELSE cq[s].phase
      BY <1>2 DEF TypeInv
    <3>2. cq[s].phase = IF s < cqTail THEN cqPhase ELSE 1 - cqPhase
      BY DEF TagsInv
    <3>. QED
      BY <1>1, <1>2, <3>1, <3>2, Sizes DEF Wrapped
  <2>. QED
    BY <2>1 DEF TagsInv
<1>. QED
  BY <1>5, <1>6

-----------------------------------------------------------------------------
(***************************************************************************)
(* The rounds: from one barrier to the next.                               *)
(***************************************************************************)
\* Where a thread is says whether the threads are between the barriers.
LEMMA Sides ==
    ASSUME RoundInv, NEW t \in Threads
    PROVE  /\ pc[t] \in {"enqueue", "barrier1", "advance", "done"} =>
                 \E r \in Nat : Between(r) /\ (~late => Rested(r))
           /\ pc[t] \in {"ring", "reap", "barrier2"} =>
                 \E r \in Nat : Within(r) /\ (~late => \E f, k \in Nat : Underway(r, f, k))
BY DEF RoundInv, Between, Within

LEMMA EnqueueRound ==
    ASSUME IInv, NEW t \in Threads, EnqueueAtI(t)
    PROVE  RoundInv'
<1>1. /\ pc[t] = "enqueue" /\ pc' = [pc EXCEPT ![t] = "barrier1"]
      /\ sq' = IF Active(t) THEN [sq EXCEPT ![Wrapped(tail + t)] = Cmd(t)] ELSE sq
      /\ UNCHANGED <<numIos, round, got, tail, head, phase, sqdb, cqdb, sqHead, inflight, cqTail,
                     cqPhase, cq, late>>
  BY TailSlot DEF EnqueueAtI, Goto, IInv, qpVars, deviceVars
<1>2. PICK r \in Nat : Between(r) /\ (~late => Rested(r))
  BY <1>1, Sides DEF IInv
<1>3. round[t] = r /\ \A u \in Threads \ {t} : pc'[u] = pc[u]
  BY <1>1, <1>2 DEF Between, IInv, TypeInv
<1>4. pc'[t] = "barrier1" /\ (pc'[0] = "advance" <=> pc[0] = "advance")
  BY <1>1, <1>3, Sizes DEF IInv, TypeInv
<1>5. Between(r)'
  BY <1>1, <1>2, <1>3, <1>4 DEF Between
<1>6. ASSUME ~late'
      PROVE  Rested(r)'
  <2>1. Rested(r)
    BY <1>1, <1>2, <1>6
  <2>2. \A i : BatchSize(i)' = BatchSize(i) /\ Slot(i)' = Slot(i) /\ Flip(i)' = Flip(i)
    BY <1>1 DEF BatchSize, Slot, Flip, Wrapped
  <2>3. ASSUME NEW u \in Threads, pc'[u] = "barrier1", u < BatchSize(r)
        PROVE  sq'[Wrapped(tail + u)] = CmdOf(r, u)
    <3>1. CASE u = t
      <4>1. Active(t) /\ Cmd(t) = CmdOf(r, u)
        BY <1>3, <2>3, <3>1 DEF Active, Cmd, CmdOf
      <4>. QED
        BY <1>1, <3>1, <4>1, TailSlot DEF IInv, TypeInv
    <3>2. CASE u # t
      <4>0. tail \in Slots /\ u \in Slots /\ t \in Slots
        BY Sizes DEF IInv, TypeInv
      <4>1. Wrapped(tail + u) # Wrapped(tail + t)
        BY <3>2, <4>0, WrappedOnce
      <4>2. sq[Wrapped(tail + u)] = CmdOf(r, u)
        BY <1>3, <2>1, <2>3, <3>2 DEF Rested
      <4>. QED
        BY <1>1, <4>1, <4>2, TailSlot DEF IInv, TypeInv
    <3>. QED
      BY <3>1, <3>2
  <2>4. \A u : Wrapped(tail + u)' = Wrapped(tail + u) /\ CmdOf(r, u)' = CmdOf(r, u)
    BY <1>1 DEF Wrapped, CmdOf
  <2>. QED
    BY <1>1, <1>4, <2>1, <2>2, <2>3, <2>4 DEF Rested
<1>. QED
  BY <1>5, <1>6 DEF RoundInv

\* Behind the first barrier the commands of the round are in their slots.
LEMMA FirstBarrierRound ==
    ASSUME IInv, Syncthreads("barrier1")
    PROVE  RoundInv'
<1>1. /\ \A t \in Threads : pc[t] = "barrier1"
      /\ pc' = [t \in Threads |-> "ring"]
      /\ UNCHANGED <<numIos, round, got, tail, head, phase, sqdb, cqdb, sq, sqHead, inflight, cqTail,
                     cqPhase, cq, late>>
  BY DEF Syncthreads, qpVars, deviceVars
<1>2. PICK r \in Nat : Between(r) /\ (~late => Rested(r))
  BY <1>1, Sides, Sizes DEF IInv
<1>3. Within(r)'
  BY <1>1, <1>2 DEF Within, Between
<1>4. ASSUME ~late'
      PROVE  Underway(r, 0, 0)'
  <2>1. /\ sqHead = tail /\ cqTail = tail /\ inflight = {} /\ tail = head /\ cqPhase = phase
        /\ \A t \in Threads : t < BatchSize(r) => sq[Wrapped(tail + t)] = CmdOf(r, t)
    BY <1>1, <1>2, <1>4, Sizes DEF Rested
  <2>2. /\ BatchSize(r) \in Nat /\ BatchSize(r) <= BlockDim
        /\ BatchSize(r)' = BatchSize(r)
    BY <1>1, BatchFacts DEF IInv, BatchSize
  <2>3. Rung(r)' = 0 /\ Slot(0) = head /\ Flip(0) = phase
    BY <1>1, Sizes, SlotFacts DEF Rung, Flip, IInv, TypeInv
  <2>4. \A i : Slot(i)' = Slot(i) /\ Flip(i)' = Flip(i)
    BY <1>1 DEF Slot, Flip, Wrapped
  <2>5. \A t \in 0 .. BatchSize(r) - 1 : sq'[Slot(t)] = CmdOf(r, t)
    BY <1>1, <2>1, <2>2, Sizes DEF Slot
  <2>6. Cardinality(inflight) = 0
    BY <2>1, FS_EmptySet
  <2>7. {cq'[Slot(i)].cmd : i \in 0 .. 0 - 1} \cup inflight' = {CmdOf(r, t) : t \in 0 .. 0 - 1}
    BY <1>1, <2>1
  <2>8. \A t \in Threads : pc'[t] # "barrier2"
    BY <1>1
  <2>. QED
    BY <1>1, <2>1, <2>2, <2>3, <2>4, <2>5, <2>6, <2>7, <2>8 DEF Underway, CmdOf
<1>. QED
  BY <1>3, <1>4 DEF RoundInv

LEMMA RingRound ==
    ASSUME IInv, NEW t \in Threads, SqUpdate(t)
    PROVE  RoundInv'
<1>1. /\ pc[t] = "ring" /\ pc' = [pc EXCEPT ![t] = IF Active(t) THEN "reap" ELSE "barrier2"]
      /\ UNCHANGED <<numIos, round, got, head, phase, cqdb, sq, sqHead, inflight, cqTail, cqPhase,
                     cq, late>>
  BY DEF SqUpdate, Goto, deviceVars
<1>2. PICK r \in Nat : Within(r) /\ (~late => \E f, k \in Nat : Underway(r, f, k))
  BY <1>1, Sides DEF IInv
<1>3. /\ round[t] = r /\ \A u \in Threads \ {t} : pc'[u] = pc[u]
      /\ pc'[t] = IF t < BatchSize(r) THEN "reap" ELSE "barrier2"
  BY <1>1, <1>2 DEF Within, Active, IInv, TypeInv
<1>4. Within(r)'
  BY <1>1, <1>2, <1>3 DEF Within
<1>5. ASSUME ~late'
      PROVE  \E f, k \in Nat : Underway(r, f, k)'
  <2>1. PICK f \in Nat, k \in Nat : Underway(r, f, k)
    BY <1>1, <1>2, <1>5
  <2>2. \A i : BatchSize(i)' = BatchSize(i) /\ Slot(i)' = Slot(i) /\ Flip(i)' = Flip(i)
    BY <1>1 DEF BatchSize, Slot, Flip, Wrapped
  <2>3. BatchSize(r) \in Nat /\ BatchSize(r) <= Depth /\ Rung(r) \in Nat
    BY BatchFacts DEF IInv
  <2>4. f <= Rung(r)' /\ tail' = Slot(Rung(r)')
    <3>1. CASE t = 0
      <4>1. Rung(r) = 0 /\ tail = head
        BY <1>1, <2>1, <3>1, SlotFacts DEF Rung, Underway, IInv
      <4>2. Rung(r)' = IF BatchSize(r) = Depth THEN 0 ELSE BatchSize(r)
        BY <1>3, <2>2, <3>1 DEF Rung
      <4>3. tail' = IF BatchSize(r) > 0 THEN Slot(BatchSize(r)) ELSE head
        BY <1>1, <1>3, <2>3, <3>1, <4>1, SlotFacts DEF SqUpdate, IInv
      <4>. QED
        BY <2>1, <2>3, <4>1, <4>2, <4>3, SlotFacts DEF Underway, IInv
    <3>2. CASE t # 0
      <4>1. UNCHANGED tail /\ pc'[0] = pc[0]
        BY <1>1, <1>3, <3>2, Sizes DEF SqUpdate
      <4>. QED
        BY <2>1, <2>2, <4>1 DEF Rung, Underway
    <3>. QED
      BY <3>1, <3>2
  <2>5. \A u \in Threads : pc'[u] = "barrier2" /\ u < BatchSize(r) => pc[u] = "barrier2"
    BY <1>3
  <2>6. Underway(r, f, k)'
    BY <1>1, <2>1, <2>2, <2>4, <2>5 DEF Underway, CmdOf
  <2>. QED
    BY <2>6
<1>. QED
  BY <1>4, <1>5 DEF RoundInv

\* A thread sees its entry, whichever command of the round it completes.
LEMMA ReapRound ==
    ASSUME IInv, NEW t \in Threads, ReapAtI(t)
    PROVE  RoundInv'
<1>1. /\ pc[t] = "reap" /\ EntryIsNew(t)
      /\ pc' = [pc EXCEPT ![t] = "barrier2"]
      /\ got' = [got EXCEPT ![t] = cq[(head + t) % Depth].cmd]
      /\ UNCHANGED <<numIos, round, tail, head, phase, sqdb, cqdb, sq, sqHead, inflight, cqTail,
                     cqPhase, cq, late>>
  BY DEF ReapAtI, Goto, qpVars, deviceVars
<1>2. PICK r \in Nat : Within(r) /\ (~late => \E f, k \in Nat : Underway(r, f, k))
  BY <1>1, Sides DEF IInv
<1>3. pc'[t] = "barrier2" /\ \A u \in Threads \ {t} : pc'[u] = pc[u] /\ got'[u] = got[u]
  BY <1>1 DEF IInv, TypeInv
<1>4. Within(r)'
  BY <1>1, <1>2, <1>3 DEF Within
<1>5. ASSUME ~late'
      PROVE  \E f, k \in Nat : Underway(r, f, k)'
  <2>1. PICK f \in Nat, k \in Nat : Underway(r, f, k)
    BY <1>1, <1>2, <1>5
  <2>2. \A i : BatchSize(i)' = BatchSize(i) /\ Slot(i)' = Slot(i) /\ Flip(i)' = Flip(i)
    BY <1>1 DEF BatchSize, Slot, Flip, Wrapped
  <2>3. k < Depth
    <3>1. Rung(r) \in Nat /\ Rung(r) < Depth
      BY BatchFacts DEF IInv
    <3>2. k <= f /\ f <= Rung(r)
      BY <2>1 DEF Underway
    <3>. QED
      BY <3>1, <3>2, Sizes
  <2>4. t < k /\ got'[t] = cq[Slot(t)].cmd
    BY <1>1, <2>1, <2>3, EntryIsNewFacts, SlotFacts DEF Underway, IInv, TypeInv
  <2>5. Rung(r)' = Rung(r)
    BY <1>1, <1>3, <2>2, Sizes DEF Rung
  <2>6. Underway(r, f, k)'
    BY <1>1, <1>3, <2>1, <2>2, <2>4, <2>5 DEF Underway, CmdOf
  <2>. QED
    BY <2>6
<1>. QED
  BY <1>4, <1>5 DEF RoundInv

LEMMA TimeoutRound ==
    ASSUME IInv, NEW t \in Threads, ReapTimeout(t)
    PROVE  RoundInv'
<1>1. /\ pc[t] = "reap" /\ pc' = [pc EXCEPT ![t] = "barrier2"] /\ round' = round /\ late'
  BY DEF ReapTimeout, Goto
<1>2. PICK r \in Nat : Within(r)
  BY <1>1, Sides DEF IInv
<1>3. Within(r)'
  BY <1>1, <1>2 DEF Within, IInv, TypeInv
<1>. QED
  BY <1>1, <1>3 DEF RoundInv

\* All threads have reaped: every command of the round was fetched and
\* completed.
LEMMA BatchReaped ==
    ASSUME TypeInv, NEW r \in Nat, NEW f \in Nat, NEW k \in Nat, Underway(r, f, k),
           \A t \in Threads : pc[t] = "barrier2"
    PROVE  k = BatchSize(r) /\ f = BatchSize(r) /\ Rung(r) = BatchSize(r) /\ inflight = {}
<1>1. /\ BatchSize(r) \in Nat /\ BatchSize(r) <= BlockDim
      /\ Rung(r) \in Nat /\ Rung(r) <= BatchSize(r)
  BY BatchFacts
<1>2. BatchSize(r) <= k
  <2>1. CASE BatchSize(r) = 0
    BY <2>1
  <2>2. CASE BatchSize(r) # 0
    <3>1. PICK n \in Nat : n + 1 = BatchSize(r)
      <4>1. BatchSize(r) - 1 \in Nat /\ (BatchSize(r) - 1) + 1 = BatchSize(r)
        BY <1>1, <2>2
      <4>. QED
        BY <4>1
    <3>2. n \in Threads /\ n < BatchSize(r)
      BY <1>1, <3>1, Sizes
    <3>3. n < k
      BY <3>2 DEF Underway
    <3>. QED
      BY <3>1, <3>3
  <2>. QED
    BY <2>1, <2>2
<1>3. k <= f /\ f <= Rung(r)
  BY DEF Underway
<1>4. k = BatchSize(r) /\ f = BatchSize(r) /\ Rung(r) = BatchSize(r)
  BY <1>1, <1>2, <1>3
<1>5. Cardinality(inflight) = 0
  BY <1>1, <1>4 DEF Underway
<1>. QED
  BY <1>4, <1>5, FS_EmptySet DEF TypeInv

LEMMA SecondBarrierRound ==
    ASSUME IInv, Syncthreads("barrier2")
    PROVE  RoundInv'
<1>1. /\ \A t \in Threads : pc[t] = "barrier2"
      /\ pc' = [t \in Threads |-> "advance"]
      /\ UNCHANGED <<numIos, round, got, tail, head, phase, sqdb, cqdb, sq, sqHead, inflight, cqTail,
                     cqPhase, cq, late>>
  BY DEF Syncthreads, qpVars, deviceVars
<1>2. PICK r \in Nat : Within(r) /\ (~late => \E f, k \in Nat : Underway(r, f, k))
  BY <1>1, Sides, Sizes DEF IInv
<1>3. \A t \in Threads : round[t] = r
  BY <1>2 DEF Within
<1>4. Between(r + 1)'
  BY <1>1, <1>3 DEF Between
<1>5. ASSUME ~late'
      PROVE  Rested(r + 1)'
  <2>1. PICK f \in Nat, k \in Nat : Underway(r, f, k)
    BY <1>1, <1>2, <1>5
  <2>2. \A i : BatchSize(i)' = BatchSize(i) /\ Slot(i)' = Slot(i) /\ Flip(i)' = Flip(i)
    BY <1>1 DEF BatchSize, Slot, Flip, Wrapped
  <2>3. k = BatchSize(r) /\ f = BatchSize(r) /\ Rung(r) = BatchSize(r) /\ inflight = {}
    BY <1>1, <2>1, BatchReaped DEF IInv
  <2>4. /\ tail = Slot(BatchSize(r)) /\ cqPhase = Flip(BatchSize(r))
        /\ sqHead = tail /\ cqTail = tail
    BY <2>1, <2>3 DEF Underway
  <2>5. round'[0] = r /\ pc'[0] = "advance"
    BY <1>1, <1>3, Sizes
  <2>6. \A t \in Threads : pc'[t] # "barrier1"
    BY <1>1
  <2>. QED
    BY <1>1, <2>2, <2>3, <2>4, <2>5, <2>6 DEF Rested
<1>6. r + 1 \in Nat
  OBVIOUS
<1>. QED
  BY <1>4, <1>5, <1>6 DEF RoundInv

LEMMA AdvanceRound ==
    ASSUME IInv, NEW t \in Threads, CqUpdate(t)
    PROVE  RoundInv'
<1>1. /\ pc[t] = "advance"
      /\ pc' = [pc EXCEPT ![t] = IF round[t] + 1 < Rounds THEN "enqueue" ELSE "done"]
      /\ round' = [round EXCEPT ![t] = @ + 1]
      /\ UNCHANGED <<numIos, got, tail, sqdb, sq, sqHead, inflight, cqTail, cqPhase, cq, late>>
  BY DEF CqUpdate, Goto, deviceVars
<1>2. PICK r \in Nat : Between(r) /\ (~late => Rested(r))
  BY <1>1, Sides DEF IInv
<1>3. /\ round[t] + 1 = r /\ round'[t] = r /\ pc'[t] \in {"enqueue", "done"}
      /\ \A u \in Threads \ {t} : pc'[u] = pc[u] /\ round'[u] = round[u]
  BY <1>1, <1>2 DEF Between, IInv, TypeInv
<1>4. Between(r)'
  BY <1>2, <1>3 DEF Between
<1>5. ASSUME ~late'
      PROVE  Rested(r)'
  <2>1. Rested(r)
    BY <1>1, <1>2, <1>5
  <2>2. \A i : BatchSize(i)' = BatchSize(i)
    BY <1>1 DEF BatchSize
  <2>3. CASE t = 0
    <3>. DEFINE n == BatchSize(round[0])
    <3>0. head \in Slots /\ round[0] \in Nat /\ phase \in {0, 1}
      BY Sizes DEF IInv, TypeInv
    <3>1. n \in Nat /\ n <= Depth
      BY <3>0, BatchFacts DEF IInv
    <3>2. tail = Slot(n) /\ cqPhase = Flip(n)
      BY <1>1, <2>1, <2>3 DEF Rested
    <3>3. CASE n > 0
      <4>1. /\ head' = IF head + n >= Depth THEN head + n - Depth ELSE head + n
            /\ phase' = IF head + n >= Depth THEN 1 - phase ELSE phase
        <5>1. LET new == head + n
              IN  /\ head' = IF new >= Depth THEN new - Depth ELSE new
                  /\ phase' = IF new >= Depth THEN 1 - phase ELSE phase
          BY <2>3, <3>3 DEF CqUpdate
        <5>. HIDE DEF n
        <5>. QED
          BY <5>1, <3>0, <3>1, Sizes
      <4>. HIDE DEF n
      <4>2. tail' = head' /\ cqPhase' = phase'
        BY <1>1, <3>0, <3>1, <3>2, <4>1, Sizes DEF Slot, Wrapped, Flip
      <4>. QED
        BY <1>1, <1>3, <2>1, <2>2, <2>3, <4>2 DEF Rested, Wrapped, CmdOf
    <3>4. CASE ~(n > 0)
      <4>1. head' = head /\ phase' = phase
        BY <2>3, <3>4 DEF CqUpdate
      <4>2. n = 0
        BY <3>1, <3>4
      <4>. HIDE DEF n
      <4>3. tail' = head' /\ cqPhase' = phase'
        BY <1>1, <3>0, <3>1, <3>2, <4>1, <4>2, Sizes DEF Slot, Wrapped, Flip
      <4>. QED
        BY <1>1, <1>3, <2>1, <2>2, <2>3, <4>3 DEF Rested, Wrapped, CmdOf
    <3>. QED
      BY <3>3, <3>4
  <2>4. CASE t # 0
    <3>1. UNCHANGED <<head, phase>> /\ pc'[0] = pc[0] /\ round'[0] = round[0]
      BY <1>3, <2>4, Sizes DEF CqUpdate
    <3>2. \A i : Slot(i)' = Slot(i) /\ Flip(i)' = Flip(i)
      BY <3>1 DEF Slot, Flip, Wrapped
    <3>. QED
      BY <1>1, <1>3, <2>1, <2>2, <3>1, <3>2 DEF Rested, Wrapped, CmdOf
  <2>. QED
    BY <2>3, <2>4
<1>. QED
  BY <1>4, <1>5 DEF RoundInv

\* One slot on, counted from the head or in memory.
LEMMA NextSlot ==
    ASSUME TypeInv, NEW i \in Nat, i < Depth
    PROVE  /\ (Slot(i) + 1) % Depth = Slot(i + 1)
           /\ Flip(i + 1) = IF Slot(i) = Depth - 1 THEN 1 - Flip(i) ELSE Flip(i)
<1>1. head \in Slots /\ phase \in {0, 1}
  BY DEF TypeInv
<1>2. Slot(i) \in Slots
  <2>1. i \in 0 .. Depth
    BY Sizes
  <2>. QED
    BY <2>1, SlotFacts
<1>3. Slot(i) + 1 \in Nat /\ Slot(i) + 1 < 2 * Depth
  BY <1>2, Sizes
<1>4. (Slot(i) + 1) % Depth = Wrapped(Slot(i) + 1)
  BY <1>3, ModWrap
<1>5. Wrapped(Slot(i) + 1) = Slot(i + 1)
  BY <1>1, Sizes DEF Slot, Wrapped
<1>6. Flip(i + 1) = IF Slot(i) = Depth - 1 THEN 1 - Flip(i) ELSE Flip(i)
  BY <1>1, Sizes DEF Slot, Wrapped, Flip
<1>. QED
  BY <1>4, <1>5, <1>6

\* Steps of the controller after a timeout.
LEMMA LateRound ==
    ASSUME RoundInv, late, UNCHANGED <<pc, round, late>>
    PROVE  RoundInv'
<1>1. PICK r \in Nat : Between(r) \/ Within(r)
  BY DEF RoundInv
<1>2. Between(r)' \/ Within(r)'
  BY <1>1 DEF Between, Within
<1>. QED
  BY <1>2 DEF RoundInv

\* The controller has something to do between the barriers only.
LEMMA FetchRound ==
    ASSUME IInv, Fetch
    PROVE  RoundInv'
<1>1. /\ sqHead # tail
      /\ inflight' = inflight \cup {sq[sqHead]} /\ sqHead' = (sqHead + 1) % Depth
      /\ UNCHANGED <<numIos, pc, round, got, tail, head, phase, sqdb, cqdb, sq, cqTail, cqPhase, cq,
                     late>>
  BY DEF Fetch, IInv, TypeInv, qpVars
<1>2. CASE late
  BY <1>1, <1>2, LateRound DEF IInv
<1>3. CASE ~late
  <2>1. PICK r \in Nat, f \in Nat, k \in Nat : Within(r) /\ Underway(r, f, k)
    BY <1>1, <1>3 DEF IInv, RoundInv, Rested
  <2>2. \A i : BatchSize(i)' = BatchSize(i) /\ Slot(i)' = Slot(i) /\ Flip(i)' = Flip(i)
               /\ Rung(i)' = Rung(i)
    BY <1>1 DEF BatchSize, Slot, Flip, Wrapped, Rung
  <2>3. /\ Rung(r) \in Nat /\ Rung(r) <= BatchSize(r) /\ Rung(r) < Depth
        /\ BatchSize(r) \in Nat
    BY BatchFacts DEF IInv
  <2>4. f # Rung(r)
    BY <1>1, <2>1 DEF Underway
  <2>5. k <= f /\ f < Rung(r) /\ f + 1 \in Nat
    BY <2>1, <2>3, <2>4 DEF Underway
  <2>6. sqHead' = Slot(f + 1)
    <3>1. f < Depth
      BY <2>3, <2>5, Sizes
    <3>2. sqHead = Slot(f)
      BY <2>1 DEF Underway
    <3>. QED
      BY <1>1, <3>1, <3>2, NextSlot DEF IInv
  <2>7. inflight' = inflight \cup {CmdOf(r, f)}
    <3>1. f \in 0 .. BatchSize(r) - 1
      BY <2>3, <2>5
    <3>. QED
      BY <1>1, <2>1, <3>1 DEF Underway
  <2>8. CmdOf(r, f) \notin inflight
    <3>1. \A t \in 0 .. f - 1 : CmdOf(r, t) # CmdOf(r, f)
      BY DEF CmdOf
    <3>2. inflight \subseteq {CmdOf(r, t) : t \in 0 .. f - 1}
      BY <2>1 DEF Underway
    <3>. QED
      BY <3>1, <3>2
  <2>9. Cardinality(inflight') = (f + 1) - k
    <3>1. Cardinality(inflight') = Cardinality(inflight) + 1
      BY <2>7, <2>8, FS_AddElement DEF IInv, TypeInv
    <3>2. Cardinality(inflight) = f - k
      BY <2>1 DEF Underway
    <3>. QED
      BY <2>5, <3>1, <3>2
  <2>10. {cq[Slot(i)].cmd : i \in 0 .. k - 1} \cup inflight' = {CmdOf(r, t) : t \in 0 .. (f + 1) - 1}
    <3>. DEFINE new == {cq[Slot(i)].cmd : i \in 0 .. k - 1}
    <3>1. new \cup inflight = {CmdOf(r, t) : t \in 0 .. f - 1}
      BY <2>1 DEF Underway
    <3>. HIDE DEF new
    <3>2. {CmdOf(r, t) : t \in 0 .. (f + 1) - 1} = {CmdOf(r, t) : t \in 0 .. f - 1} \cup {CmdOf(r, f)}
      <4>1. 0 .. (f + 1) - 1 = 0 .. f - 1 \cup {f}
        OBVIOUS
      <4>. QED
        BY <4>1
    <3>3. new \cup inflight' = {CmdOf(r, t) : t \in 0 .. (f + 1) - 1}
      BY <2>7, <3>1, <3>2
    <3>. QED
      BY <3>3 DEF new
  <2>11. Underway(r, f + 1, k)'
    <3>1. {cq'[Slot(i)'].cmd : i \in 0 .. k - 1} = {cq[Slot(i)].cmd : i \in 0 .. k - 1}
      BY <1>1, <2>2
    <3>. QED
      BY <1>1, <2>1, <2>2, <2>3, <2>5, <2>6, <2>9, <2>10, <3>1 DEF Underway, CmdOf
  <2>12. Within(r)'
    BY <1>1, <2>1 DEF Within
  <2>. QED
    BY <2>5, <2>11, <2>12 DEF RoundInv
<1>. QED
  BY <1>2, <1>3

\* The entry goes behind those of this round, and its command leaves.
LEMMA CompleteRound ==
    ASSUME IInv, NEW c \in inflight, Complete(c)
    PROVE  RoundInv'
<1>1. /\ cq' = [cq EXCEPT ![cqTail] = [cmd |-> c, phase |-> cqPhase]]
      /\ cqTail' = (cqTail + 1) % Depth
      /\ cqPhase' = IF cqTail = Depth - 1 THEN 1 - cqPhase ELSE cqPhase
      /\ inflight' = inflight \ {c}
      /\ UNCHANGED <<numIos, pc, round, got, tail, head, phase, sqdb, cqdb, sq, sqHead, late>>
  BY DEF Complete, qpVars
<1>2. CASE late
  BY <1>1, <1>2, LateRound DEF IInv
<1>3. CASE ~late
  <2>1. PICK r \in Nat, f \in Nat, k \in Nat : Within(r) /\ Underway(r, f, k)
    BY <1>1, <1>3 DEF IInv, RoundInv, Rested
  <2>2. \A i : BatchSize(i)' = BatchSize(i) /\ Slot(i)' = Slot(i) /\ Flip(i)' = Flip(i)
               /\ Rung(i)' = Rung(i)
    BY <1>1 DEF BatchSize, Slot, Flip, Wrapped, Rung
  <2>3. Rung(r) \in Nat /\ Rung(r) < Depth
    BY BatchFacts DEF IInv
  <2>4. /\ k <= f /\ f <= Rung(r) /\ cqTail = Slot(k) /\ cqPhase = Flip(k)
        /\ Cardinality(inflight) = f - k
    BY <2>1 DEF Underway
  <2>5. k < f /\ k < Depth /\ k \in Slots /\ k + 1 \in Nat
    <3>1. Cardinality(inflight) # 0
      BY FS_EmptySet DEF IInv, TypeInv
    <3>2. k < f
      BY <2>4, <3>1
    <3>. QED
      BY <2>3, <2>4, <3>2, Sizes
  <2>6. cqTail' = Slot(k + 1) /\ cqPhase' = Flip(k + 1)
    BY <1>1, <2>4, <2>5, NextSlot DEF IInv
  <2>7. Cardinality(inflight') = f - (k + 1)
    <3>1. Cardinality(inflight') = Cardinality(inflight) - 1
      BY <1>1, FS_RemoveElement DEF IInv, TypeInv
    <3>. QED
      BY <2>4, <2>5, <3>1
  <2>8. cq'[Slot(k)].cmd = c
    BY <1>1, <2>4, <2>5, SlotFacts, Sizes DEF IInv, TypeInv
  <2>9. ASSUME NEW i \in 0 .. k - 1
        PROVE  cq'[Slot(i)] = cq[Slot(i)]
    <3>1. i \in Slots /\ i # k /\ i \in 0 .. Depth
      BY <2>5, Sizes
    <3>2. Slot(i) \in Slots /\ Slot(i) # Slot(k)
      BY <2>5, <3>1, SlotFacts DEF IInv
    <3>. QED
      BY <1>1, <2>4, <3>2 DEF IInv, TypeInv
  <2>10. {cq'[Slot(i)].cmd : i \in 0 .. (k + 1) - 1} \cup inflight' = {CmdOf(r, t) : t \in 0 .. f - 1}
    <3>. DEFINE old == {cq[Slot(i)].cmd : i \in 0 .. k - 1}
                new == {cq'[Slot(i)].cmd : i \in 0 .. (k + 1) - 1}
    <3>1. old \cup inflight = {CmdOf(r, t) : t \in 0 .. f - 1}
      BY <2>1 DEF Underway
    <3>2. new = old \cup {c}
      <4>1. 0 .. (k + 1) - 1 = 0 .. k - 1 \cup {k}
        OBVIOUS
      <4>2. new = {cq'[Slot(i)].cmd : i \in 0 .. k - 1} \cup {cq'[Slot(k)].cmd}
        BY <4>1
      <4>. QED
        BY <2>8, <2>9, <4>2
    <3>. HIDE DEF old, new
    <3>3. new \cup inflight' = {CmdOf(r, t) : t \in 0 .. f - 1}
      BY <1>1, <3>1, <3>2
    <3>. QED
      BY <3>3 DEF new
  <2>11. ASSUME NEW t \in Threads, pc[t] = "barrier2", t < BatchSize(r)
         PROVE  t < k + 1 /\ got[t] = cq'[Slot(t)].cmd
    <3>1. t < k /\ got[t] = cq[Slot(t)].cmd
      BY <2>1, <2>11 DEF Underway
    <3>2. t \in 0 .. k - 1
      BY <3>1, Sizes
    <3>. QED
      BY <2>9, <3>1, <3>2
  <2>12. {cq'[Slot(i)'].cmd : i \in 0 .. (k + 1) - 1} = {cq'[Slot(i)].cmd : i \in 0 .. (k + 1) - 1}
    BY <2>2
  <2>13. Underway(r, f, k + 1)'
    BY <1>1, <2>1, <2>2, <2>4, <2>5, <2>6, <2>7, <2>10, <2>11, <2>12 DEF Underway, CmdOf
  <2>14. Within(r)'
    BY <1>1, <2>1 DEF Within
  <2>. QED
    BY <2>5, <2>13, <2>14 DEF RoundInv
<1>. QED
  BY <1>2, <1>3

-----------------------------------------------------------------------------
(***************************************************************************)
(* The invariant.                                                          *)
(***************************************************************************)
LEMMA ThreadInv ==
    ASSUME IInv, NEW t \in Threads, Thread(t)
    PROVE  IInv'
<1>1. TypeInv'
  BY ThreadType DEF IInv
<1>2. UNCHANGED <<cq, cqTail, cqPhase>>
  BY DEF Thread, EnqueueAtI, SqUpdate, ReapAtI, ReapTimeout, CqUpdate, deviceVars
<1>3. TagsInv'
  BY <1>2 DEF IInv, TagsInv
<1>4. RoundInv'
  BY EnqueueRound, RingRound, ReapRound, TimeoutRound, AdvanceRound DEF Thread
<1>. QED
  BY <1>1, <1>3, <1>4 DEF IInv

LEMMA BarrierInv ==
    ASSUME IInv, Syncthreads("barrier1") \/ Syncthreads("barrier2")
    PROVE  IInv'
<1>1. /\ pc' \in [Threads -> {"ring", "advance"}]
      /\ UNCHANGED <<numIos, round, got, tail, head, phase, sqdb, cqdb, sq, sqHead, inflight, cqTail,
                     cqPhase, cq, late>>
  BY DEF Syncthreads, qpVars, deviceVars
<1>2. TypeInv'
  BY <1>1 DEF IInv, TypeInv
<1>3. TagsInv'
  BY <1>1 DEF IInv, TagsInv
<1>4. RoundInv'
  BY FirstBarrierRound, SecondBarrierRound
<1>. QED
  BY <1>2, <1>3, <1>4 DEF IInv

LEMMA FetchInv ==
    ASSUME IInv, Fetch
    PROVE  IInv'
<1>1. TypeInv' /\ RoundInv'
  BY FetchType, FetchRound DEF IInv
<1>2. TagsInv'
  BY DEF IInv, Fetch, TagsInv
<1>. QED
  BY <1>1, <1>2 DEF IInv

LEMMA StutterInv ==
    ASSUME IInv, UNCHANGED vars
    PROVE  IInv'
<1>1. UNCHANGED <<numIos, pc, round, got, tail, head, phase, sqdb, cqdb, sq, sqHead, inflight, cqTail,
                  cqPhase, cq, late>>
  BY DEF vars, qpVars, deviceVars
<1>2. TypeInv' /\ TagsInv'
  BY <1>1 DEF IInv, TypeInv, TagsInv
<1>3. PICK r \in Nat :
        \/ Between(r) /\ (~late => Rested(r))
        \/ Within(r) /\ (~late => \E f, k \in Nat : Underway(r, f, k))
  BY DEF IInv, RoundInv
<1>4. (Between(r)' <=> Between(r)) /\ (Within(r)' <=> Within(r)) /\ late' = late
  BY <1>1 DEF Between, Within
<1>5. \A i : BatchSize(i)' = BatchSize(i) /\ Slot(i)' = Slot(i) /\ Flip(i)' = Flip(i)
             /\ Rung(i)' = Rung(i)
  BY <1>1 DEF BatchSize, Slot, Flip, Wrapped, Rung
<1>6. Rested(r)' <=> Rested(r)
  BY <1>1, <1>5 DEF Rested, Wrapped, CmdOf
<1>7. \A f, k \in Nat : Underway(r, f, k) => Underway(r, f, k)'
  BY <1>1, <1>5 DEF Underway, CmdOf
<1>8. RoundInv'
  BY <1>3, <1>4, <1>6, <1>7 DEF RoundInv
<1>. QED
  BY <1>2, <1>8 DEF IInv

\* Over every step of the threads, the barriers and the controller: the
\* threads are on one side of a round, and until a timeout the queue pair and
\* the controller are either at rest or hold that round's commands and no
\* others.  The memory of a new completion queue has to be clear, which
\* create_io_qpair leaves to chance.
THEOREM CudaInvariant ==
    ASSUME OldPhases \subseteq {0}
    PROVE  Spec => []IInv
<1>1. Init => IInv
  BY CudaInit
<1>2. IInv /\ [Next]_vars => IInv'
  <2>. SUFFICES ASSUME IInv, [Next]_vars
                PROVE  IInv'
    OBVIOUS
  <2>1. ASSUME NEW t \in Threads, Thread(t)
        PROVE  IInv'
    BY <2>1, ThreadInv
  <2>2. CASE Syncthreads("barrier1") \/ Syncthreads("barrier2")
    BY <2>2, BarrierInv
  <2>3. CASE Fetch
    BY <2>3, FetchInv
  <2>4. ASSUME NEW c \in inflight, Complete(c)
        PROVE  IInv'
    <3>1. TypeInv' /\ TagsInv'
      BY <2>4, CompleteType DEF IInv
    <3>2. RoundInv'
      BY <2>4, CompleteRound
    <3>. QED
      BY <3>1, <3>2 DEF IInv
  <2>5. CASE UNCHANGED vars
    BY <2>5, StutterInv
  <2>. QED
    BY <2>1, <2>2, <2>3, <2>4, <2>5 DEF Next
<1>. QED
  BY <1>1, <1>2, PTL DEF Spec

-----------------------------------------------------------------------------
(***************************************************************************)
(* What it means for the threads and for the controller.                   *)
(***************************************************************************)
LEMMA ReapedBatch ==
    ASSUME IInv
    PROVE  RoundReapsItsBatch
<1>. SUFFICES ASSUME ~late, \A t \in Threads : pc[t] = "barrier2"
              PROVE  {got[t] : t \in 0 .. BatchSize(round[0]) - 1} = Batch(round[0])
  BY DEF RoundReapsItsBatch
<1>1. PICK r \in Nat, f \in Nat, k \in Nat : Within(r) /\ Underway(r, f, k)
  BY Sides, Sizes DEF IInv
<1>2. round[0] = r
  BY <1>1, Sizes DEF Within
<1>3. k = BatchSize(r) /\ f = BatchSize(r) /\ inflight = {}
  BY <1>1, BatchReaped DEF IInv
<1>4. BatchSize(r) \in Nat /\ BatchSize(r) <= BlockDim
  BY BatchFacts DEF IInv
<1>5. {cq[Slot(i)].cmd : i \in 0 .. BatchSize(r) - 1} = {CmdOf(r, t) : t \in 0 .. BatchSize(r) - 1}
  BY <1>1, <1>3 DEF Underway
<1>6. ASSUME NEW t \in 0 .. BatchSize(r) - 1
      PROVE  got[t] = cq[Slot(t)].cmd
  <2>1. t \in Threads /\ t < BatchSize(r)
    BY <1>4, Sizes
  <2>. QED
    BY <1>1, <2>1 DEF Underway
<1>7. {got[t] : t \in 0 .. BatchSize(r) - 1} = {cq[Slot(i)].cmd : i \in 0 .. BatchSize(r) - 1}
  BY <1>6
<1>. QED
  BY <1>2, <1>5, <1>7 DEF Batch, CmdOf

\* The slots from the one of f up to the one of n.
LEMMA SlotsFrom ==
    ASSUME TypeInv, NEW f \in Nat, NEW n \in Nat, f <= n, n < Depth
    PROVE  /\ (Slot(n) - Slot(f)) % Depth = n - f
           /\ \A j \in 0 .. (n - f) - 1 : (Slot(f) + j) % Depth = Slot(f + j)
<1>1. head \in Slots
  BY DEF TypeInv
<1>2. PICK m \in Nat : m = n - f
  BY Sizes
<1>3. m < Depth
  BY <1>2, Sizes
<1>4. Slot(n) - Slot(f) = m \/ Slot(n) - Slot(f) = m - Depth
  BY <1>1, <1>2, Sizes DEF Slot, Wrapped
<1>5. m % Depth = m /\ (m - Depth) % Depth = m
  <2>1. m % Depth = m
    BY <1>3, Sizes
  <2>2. (m - Depth) % Depth = m
    BY <1>3, Sizes
  <2>. QED
    BY <2>1, <2>2
<1>6. ASSUME NEW j \in 0 .. (n - f) - 1
      PROVE  (Slot(f) + j) % Depth = Slot(f + j)
  <2>1. j \in Nat /\ f + j < n
    OBVIOUS
  <2>2. f \in 0 .. Depth
    BY Sizes
  <2>3. Slot(f) \in Slots
    BY <2>2, SlotFacts
  <2>4. Slot(f) + j \in Nat /\ Slot(f) + j < 2 * Depth
    BY <2>1, <2>3, Sizes
  <2>5. (Slot(f) + j) % Depth = Wrapped(Slot(f) + j)
    BY <2>4, ModWrap
  <2>6. Wrapped(Slot(f) + j) = Slot(f + j)
    BY <1>1, <2>1, Sizes DEF Slot, Wrapped
  <2>. QED
    BY <2>5, <2>6
<1>. QED
  BY <1>2, <1>4, <1>5, <1>6

LEMMA RungBatch ==
    ASSUME IInv
    PROVE  RungSlotsHoldTheirBatch
<1>. SUFFICES ASSUME ~late, NEW i \in Unfetched
              PROVE  \E t \in Threads : sq[i] \in Batch(round[t])
  BY DEF RungSlotsHoldTheirBatch
<1>1. PICK j \in 0 .. ((sqdb - sqHead) % Depth) - 1 : i = (sqHead + j) % Depth
  BY DEF Unfetched
<1>2. CASE sqHead = sqdb
  <2>1. sqdb \in Nat
    BY Sizes DEF IInv, TypeInv
  <2>2. (sqdb - sqHead) % Depth = 0
    BY <1>2, <2>1, Sizes
  <2>. QED
    BY <1>1, <2>2
<1>3. CASE sqHead # sqdb
  <2>1. PICK r \in Nat, f \in Nat, k \in Nat : Within(r) /\ Underway(r, f, k)
    BY <1>3 DEF IInv, TypeInv, RoundInv, Rested
  <2>2. /\ Rung(r) \in Nat /\ Rung(r) <= BatchSize(r) /\ Rung(r) < Depth
        /\ BatchSize(r) \in Nat
    BY BatchFacts DEF IInv
  <2>3. f <= Rung(r) /\ sqHead = Slot(f) /\ sqdb = Slot(Rung(r))
    BY <2>1 DEF Underway, IInv, TypeInv
  <2>4. (sqdb - sqHead) % Depth = Rung(r) - f
    BY <2>2, <2>3, SlotsFrom DEF IInv
  <2>5. j \in 0 .. (Rung(r) - f) - 1
    BY <1>1, <2>4
  <2>6. i = Slot(f + j)
    BY <1>1, <2>2, <2>3, <2>5, SlotsFrom DEF IInv
  <2>7. f + j \in 0 .. BatchSize(r) - 1
    BY <2>2, <2>5
  <2>8. sq[i] = CmdOf(r, f + j)
    BY <2>1, <2>6, <2>7 DEF Underway
  <2>9. round[0] = r /\ 0 \in Threads
    BY <2>1, Sizes DEF Within
  <2>. QED
    BY <2>7, <2>8, <2>9 DEF Batch, CmdOf
<1>. QED
  BY <1>2, <1>3

\* Behind a round without a timeout the threads have among them the
\* completions of exactly that round's commands, for every depth, block size
\* and number of commands: partial batches, either ring wrapping within a
\* batch, completions in any order.
THEOREM CudaRoundReapsItsBatch ==
    ASSUME OldPhases \subseteq {0}
    PROVE  Spec => []RoundReapsItsBatch
BY CudaInvariant, ReapedBatch, PTL

\* Until a timeout, a slot between the controller's head and the doorbell
\* holds a command of the round under way: none is rung before it is written
\* by its thread, and none written again before it is fetched.
THEOREM CudaRungSlotsHoldTheirBatch ==
    ASSUME OldPhases \subseteq {0}
    PROVE  Spec => []RungSlotsHoldTheirBatch
BY CudaInvariant, RungBatch, PTL
=============================================================================
