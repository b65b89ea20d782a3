--------------------------- MODULE NvmeSyncProofs ---------------------------
(***************************************************************************)
(* Theorems about synchronous calls, for every depth, pool, number of      *)
(* calls and set of statuses, and for a controller that may answer any     *)
(* call late or never.                                                     *)
(*                                                                         *)
(* The pool needs no assumption about the rings: a call frees the cid it   *)
(* allocated, whatever it reaped.  The rings are followed for as long as   *)
(* they cannot overflow: a timeout leaves one command in them for good.    *)
(***************************************************************************)
EXTENDS NvmeSync, NvmeQpairProofs

Held == IF HoldsRequest THEN 1 ELSE 0

Begun == IF Announced THEN 1 ELSE 0

Backlog == Distance(sqHead, tail) + Cardinality(exec) + Distance(head, cqTail)

\* What the pool has left, and that the request of the call under way is not
\* in it.
PoolInv ==
    /\ OneRequestLostPerTimeout
    /\ HoldsRequest => req \notin Range(stack)
    /\ timeouts + Held <= calls

\* Operation o is that of a call that has written its command.
Written(o) == o \in 1 .. calls /\ (pc = "enqueue" => o # calls)

\* No two commands under way are the same: a set of executed commands loses
\* none of them.
CommandsDistinct ==
    /\ \A i, j \in Unfetched : sq[i].op = sq[j].op => i = j
    /\ \A i \in Unfetched : Written(sq[i].op) /\ \A x \in exec : sq[i].op # x.op
    /\ \A x \in exec : Written(x.op)

RingsInv ==
    /\ IsFiniteSet(exec)
    /\ timeouts + 1 < Depth =>
          /\ Doorbells
          /\ PhaseTags
          /\ Backlog = timeouts + Begun
          /\ CommandsDistinct

Own == [cid |-> req, op |-> calls]

\* Before the first timeout there is nothing but the command of this call.
OwnInv ==
    timeouts = 0 =>
        /\ \A i \in Unfetched : sq[i] = Own
        /\ \A x \in exec : x = Own
        /\ \A i \in Unreaped : cq[i].cid = req /\ cq[i].op = calls
        /\ pc = "free" => cpl = Own

SyncInv == SyncTypeOK /\ PoolInv /\ RingsInv /\ OwnInv

-----------------------------------------------------------------------------
LEMMA SyncFacts ==
    /\ MaxCalls \in Nat
    /\ Ops = 1 .. MaxCalls
    /\ Depth \in Nat /\ Depth >= 2
<1>1. MaxCalls \in Nat /\ Ops = 1 .. MaxCalls
  BY SyncAssumption
<1>2. Depth \in Nat /\ Depth >= 2
  BY SlotFacts
<1>. QED
  BY <1>1, <1>2

LEMMA EmptySpan ==
    ASSUME NEW a \in Slots
    PROVE  Span(a, a) = {} /\ Distance(a, a) = 0
<1>1. a \in Nat
  BY SlotFacts
<1>2. \A i \in Slots : i \in Nat /\ ~Between(i, a, a)
  BY <1>1, SlotFacts DEF Between
<1>3. Span(a, a) = {}
  BY <1>2 DEF Span
<1>. QED
  BY <1>1, <1>3 DEF Distance

LEMMA BacklogFacts ==
    ASSUME TypeOK, IsFiniteSet(exec)
    PROVE  /\ sqHead \in Slots /\ tail \in Slots /\ head \in Slots /\ cqTail \in Slots
           /\ Distance(sqHead, tail) \in 0 .. Depth - 1
           /\ Distance(head, cqTail) \in 0 .. Depth - 1
           /\ Cardinality(exec) \in Nat
           /\ \A x \in exec : Cardinality(exec) >= 1
           /\ Backlog \in Nat
           /\ Backlog = 0 => Unfetched = {} /\ exec = {} /\ Unreaped = {}
<1>1. sqHead \in Slots /\ tail \in Slots /\ head \in Slots /\ cqTail \in Slots
  BY DEF TypeOK
<1>2. /\ Distance(sqHead, tail) \in 0 .. Depth - 1 /\ Distance(head, cqTail) \in 0 .. Depth - 1
      /\ Distance(sqHead, tail) = 0 => sqHead = tail
      /\ Distance(head, cqTail) = 0 => head = cqTail
  BY <1>1, DistanceBounds
<1>3. Cardinality(exec) \in Nat /\ (Cardinality(exec) = 0 <=> exec = {})
  BY FS_CardinalityType, FS_EmptySet
<1>4. \A x \in exec : Cardinality(exec) >= 1
  BY <1>3
<1>5. Backlog \in Nat
  BY <1>2, <1>3, SyncFacts DEF Backlog
<1>6. ASSUME Backlog = 0 PROVE Unfetched = {} /\ exec = {} /\ Unreaped = {}
  <2>1. sqHead = tail /\ head = cqTail /\ Cardinality(exec) = 0
    BY <1>2, <1>3, <1>6, SyncFacts DEF Backlog
  <2>. QED
    BY <1>1, <1>3, <2>1, EmptySpan DEF Unfetched, Unreaped
<1>. QED
  BY <1>1, <1>2, <1>3, <1>4, <1>5, <1>6

LEMMA SyncInvInit == SyncInit => SyncInv
<1> SUFFICES ASSUME SyncInit PROVE SyncInv
  OBVIOUS
<1>1. TypeOK
  BY TypeInit DEF SyncInit
<1>2. 0 \in Cids /\ 0 \in Slots
  BY SlotFacts
<1>3. SyncTypeOK
  BY <1>1, <1>2, SyncFacts DEF SyncInit, SyncTypeOK, Commands
<1>4. PoolInv
  <2>1. stack = [k \in 1 .. PoolLen |-> PoolLen - k] /\ PoolLen \in Nat
    BY SlotFacts DEF SyncInit, Init, PoolInit
  <2>2. Len(stack) = PoolLen /\ DOMAIN stack = 1 .. PoolLen
    BY <2>1
  <2>3. IsInjective(stack)
    BY <2>1 DEF IsInjective
  <2>. QED
    BY <2>1, <2>2, <2>3 DEF SyncInit, PoolInv, OneRequestLostPerTimeout, HoldsRequest, Held
<1>5. /\ exec = {} /\ IsFiniteSet(exec) /\ Cardinality(exec) = 0
      /\ Unfetched = {} /\ Unreaped = {}
      /\ Distance(sqHead, tail) = 0 /\ Distance(head, cqTail) = 0
  BY <1>2, FS_EmptySet, EmptySpan
     DEF SyncInit, Init, QpairInit, ControllerInit, Unfetched, Unreaped
<1>6. RingsInv
  <2>1. Doorbells /\ PhaseTags
    BY DEF SyncInit, Init, QpairInit, ControllerInit, Doorbells, PhaseTags, Distance, Slots
  <2>2. Backlog = timeouts + Begun
    BY <1>5 DEF SyncInit, Backlog, Begun, Announced
  <2>. QED
    BY <1>5, <2>1, <2>2 DEF RingsInv, CommandsDistinct
<1>7. OwnInv
  BY <1>5 DEF OwnInv, SyncInit
<1>. QED
  BY <1>3, <1>4, <1>6, <1>7 DEF SyncInv

\* Steps that leave rings and controller alone keep what is said of them.
LEMMA RingsUntouched ==
    ASSUME UNCHANGED <<hostVars, ctrlVars>>
    PROVE  /\ Unfetched' = Unfetched /\ Unreaped' = Unreaped
           /\ exec' = exec /\ sq' = sq /\ cq' = cq
           /\ Backlog' = Backlog
           /\ Doorbells => Doorbells'
           /\ PhaseTags => PhaseTags'
BY DEF hostVars, ctrlVars, Unfetched, Unreaped, Span, Between, Backlog, Distance,
       Doorbells, PhaseTags

LEMMA CallAllocStep ==
    ASSUME SyncInv, CallAlloc
    PROVE  SyncInv'
<1>1. /\ pc = "idle" /\ calls < MaxCalls /\ calls' = calls + 1
      /\ UNCHANGED <<hostVars, ctrlVars, timeouts, cpl, status, rc>>
      /\ NvmeRequestAlloc
  BY DEF CallAlloc
<1>2. /\ calls \in Nat /\ timeouts \in Nat /\ MaxCalls \in Nat /\ Depth \in Nat
      /\ stack \in Seq(Cids) /\ TypeOK /\ IsFiniteSet(exec)
  BY SyncFacts DEF SyncInv, SyncTypeOK, TypeOK, PoolTypeOK, RingsInv
<1>3. TypeOK'
  BY <1>1, <1>2, AllocType
<1>4. SyncTypeOK' /\ PoolInv'
  <2>1. CASE stack = <<>>
    <3>1. stack' = stack /\ req' = req /\ pc' = "idle"
      BY <1>1, <2>1 DEF CallAlloc, NvmeRequestAlloc
    <3>. QED
      BY <1>1, <1>2, <1>3, <3>1 DEF SyncInv, SyncTypeOK, PoolInv, OneRequestLostPerTimeout,
         HoldsRequest, Held
  <2>2. CASE stack # <<>>
    <3>1. stack' = SubSeq(stack, 1, Len(stack) - 1) /\ req' = Top /\ pc' = "enqueue"
      BY <1>1, <2>2 DEF CallAlloc, NvmeRequestAlloc
    <3>2. IsInjective(stack) /\ Len(stack) = PoolLen - timeouts
      BY <1>1, <1>2, SlotFacts DEF SyncInv, PoolInv, OneRequestLostPerTimeout, HoldsRequest
    <3>3. /\ IsInjective(stack') /\ Range(stack') = Range(stack) \ {Top} /\ Top \in Range(stack)
      BY <1>2, <2>2, <3>1, <3>2, FreelistPops DEF Top
    <3>4. Len(stack') = Len(stack) - 1 /\ Len(stack) \in Nat \ {0}
      BY <1>2, <2>2, <3>1, Popped
    <3>5. Top \in Cids
      BY <1>2, <3>4 DEF Top
    <3>6. timeouts <= calls
      BY <1>1, <1>2 DEF SyncInv, PoolInv, Held, HoldsRequest
    <3>7. SyncTypeOK'
      BY <1>1, <1>2, <1>3, <3>1, <3>5 DEF SyncInv, SyncTypeOK
    <3>8. PoolInv'
      BY <1>1, <1>2, <3>1, <3>2, <3>3, <3>4, <3>6, SlotFacts
         DEF PoolInv, OneRequestLostPerTimeout, HoldsRequest, Held
    <3>. QED
      BY <3>7, <3>8
  <2>. QED
    BY <2>1, <2>2
<1>5. pc' \in {"idle", "enqueue"}
  BY DEF CallAlloc
<1>6. RingsInv'
  <2>1. IsFiniteSet(exec')
    BY <1>1, <1>2, RingsUntouched
  <2>2. ASSUME timeouts + 1 < Depth
        PROVE  Doorbells' /\ PhaseTags' /\ Backlog' = (timeouts + Begun)' /\ CommandsDistinct'
    <3>1. Doorbells /\ PhaseTags /\ Backlog = timeouts + Begun /\ CommandsDistinct
      BY <2>2 DEF SyncInv, RingsInv
    <3>2. Doorbells' /\ PhaseTags' /\ Backlog' = (timeouts + Begun)'
      BY <1>1, <1>5, <3>1, RingsUntouched DEF Begun, Announced
    <3>3. \A o : Written(o) => Written(o)'
      BY <1>1, <1>2 DEF Written
    <3>4. CommandsDistinct'
      BY <1>1, <3>1, <3>3, RingsUntouched DEF CommandsDistinct
    <3>. QED
      BY <3>2, <3>4
  <2>. QED
    BY <1>1, <2>1, <2>2 DEF RingsInv
<1>7. OwnInv'
  <2>1. ASSUME timeouts = 0 PROVE Unfetched = {} /\ exec = {} /\ Unreaped = {}
    <3>1. Backlog = 0
      BY <1>1, <2>1, SyncFacts DEF SyncInv, RingsInv, Begun, Announced
    <3>. QED
      BY <1>2, <3>1, BacklogFacts
  <2>. QED
    BY <1>1, <1>5, <2>1, RingsUntouched DEF OwnInv
<1>. QED
  BY <1>4, <1>6, <1>7 DEF SyncInv

LEMMA CallEnqueueStep ==
    ASSUME SyncInv, CallEnqueue
    PROVE  SyncInv'
<1>1. /\ pc = "enqueue" /\ pc' = "ring" /\ Enqueue(req, calls)
      /\ UNCHANGED <<user, calls, timeouts, req, cpl, status, rc>>
      /\ sq' = [sq EXCEPT ![tail] = Own] /\ tail' = Succ(tail)
      /\ UNCHANGED <<stack, sqdb, head, phase, cqdb, ctrlVars>>
  BY DEF CallEnqueue, Enqueue, Own
<1>2. /\ calls \in Nat /\ timeouts \in Nat /\ MaxCalls \in Nat /\ Depth \in Nat
      /\ req \in Cids /\ TypeOK /\ IsFiniteSet(exec) /\ calls <= MaxCalls
      /\ sq \in [Slots -> Commands] /\ user \in [Cids -> Ops \cup {NoOp}]
  BY SyncFacts DEF SyncInv, SyncTypeOK, TypeOK, PoolTypeOK, RingsInv
<1>3. calls \in Ops
  <2>1. timeouts + 1 <= calls
    BY <1>1 DEF SyncInv, PoolInv, Held, HoldsRequest
  <2>. QED
    BY <1>2, <2>1, SyncFacts
<1>4. TypeOK'
  BY <1>1, <1>2, <1>3, EnqueueType
<1>5. SyncTypeOK' /\ PoolInv'
  BY <1>1, <1>4 DEF SyncInv, SyncTypeOK, PoolInv, OneRequestLostPerTimeout, HoldsRequest, Held
<1>6. ASSUME timeouts + 1 < Depth
      PROVE  /\ Unfetched' = Unfetched \cup {tail} /\ tail \notin Unfetched /\ tail \in Slots
             /\ \A i \in Unfetched : i \in Slots /\ sq'[i] = sq[i]
             /\ sq'[tail] = Own /\ Unreaped' = Unreaped
             /\ Distance(sqHead, tail)' = Distance(sqHead, tail) + 1
             /\ Backlog' = Backlog + 1 /\ Backlog = timeouts
  <2>1. Backlog = timeouts
    BY <1>1, <1>2, <1>6 DEF SyncInv, RingsInv, Begun, Announced
  <2>2. Distance(sqHead, tail) + 1 < Depth
    BY <1>2, <1>6, <2>1, BacklogFacts DEF Backlog
  <2>3. /\ Distance(sqHead, Succ(tail)) = Distance(sqHead, tail) + 1
        /\ Span(sqHead, Succ(tail)) = Span(sqHead, tail) \cup {tail}
        /\ tail \notin Span(sqHead, tail)
    BY <1>2, <2>2, BacklogFacts, SpanGrows
  <2>4. /\ Unfetched' = Span(sqHead, Succ(tail)) /\ Unreaped' = Unreaped
        /\ Distance(sqHead, tail)' = Distance(sqHead, Succ(tail))
        /\ Distance(head, cqTail)' = Distance(head, cqTail)
        /\ exec' = exec
    BY <1>1 DEF Unfetched, Unreaped, Span, Between, Distance, ctrlVars
  <2>5. /\ tail \in Slots /\ \A i \in Unfetched : i \in Slots
    BY <1>2, BacklogFacts DEF Unfetched, Span
  <2>6. Backlog' = Backlog + 1
    BY <1>2, <2>3, <2>4, BacklogFacts DEF Backlog
  <2>. QED
    BY <1>1, <1>2, <2>1, <2>3, <2>4, <2>5, <2>6 DEF Unfetched
<1>7. RingsInv'
  <2>1. exec' = exec
    BY <1>1 DEF ctrlVars
  <2>2. ASSUME timeouts + 1 < Depth
        PROVE  Doorbells' /\ PhaseTags' /\ Backlog' = (timeouts + Begun)' /\ CommandsDistinct'
    <3>1. Doorbells /\ PhaseTags /\ CommandsDistinct
      BY <2>2 DEF SyncInv, RingsInv
    <3>2. Doorbells'
      <4>1. Distance(sqHead, sqdb)' = Distance(sqHead, sqdb)
        BY <1>1 DEF Distance, ctrlVars
      <4>2. Distance(sqHead, sqdb) \in Nat /\ Distance(sqHead, tail) \in Nat
        BY <1>2, DistanceBounds, SyncFacts DEF TypeOK
      <4>. QED
        BY <1>1, <1>6, <2>2, <3>1, <4>1, <4>2 DEF Doorbells
    <3>3. PhaseTags'
      BY <1>1, <3>1 DEF PhaseTags, ctrlVars
    <3>4. Backlog' = (timeouts + Begun)'
      BY <1>1, <1>6, <2>2 DEF Begun, Announced
    <3>5. CommandsDistinct'
      <4>1. \A o : Written(o) => Written(o)' /\ o # calls
        BY <1>1 DEF Written
      <4>2. Written(calls)'
        BY <1>1, <1>3, <1>2, SyncFacts DEF Written
      <4>. QED
        BY <1>1, <1>6, <2>1, <2>2, <3>1, <4>1, <4>2 DEF CommandsDistinct, Own
    <3>. QED
      BY <3>2, <3>3, <3>4, <3>5
  <2>. QED
    BY <1>1, <1>2, <2>1, <2>2 DEF RingsInv
<1>8. OwnInv'
  <2>1. ASSUME timeouts = 0
        PROVE  Unfetched' = {tail} /\ exec' = {} /\ Unreaped' = {} /\ sq'[tail] = Own
    <3>1. timeouts + 1 < Depth
      BY <2>1, SyncFacts
    <3>2. Unfetched = {} /\ exec = {} /\ Unreaped = {}
      BY <1>2, <1>6, <2>1, <3>1, BacklogFacts
    <3>. QED
      BY <1>1, <1>6, <3>1, <3>2 DEF ctrlVars
  <2>. QED
    BY <1>1, <2>1 DEF OwnInv, Own
<1>. QED
  BY <1>5, <1>7, <1>8 DEF SyncInv

LEMMA CallRingStep ==
    ASSUME SyncInv, CallRing
    PROVE  SyncInv'
<1>1. /\ pc = "ring" /\ pc' = "poll" /\ SqdbUpdate /\ sqdb' = tail
      /\ UNCHANGED <<poolVars, sq, tail, head, phase, cqdb, ctrlVars>>
      /\ UNCHANGED <<calls, timeouts, req, cpl, status, rc>>
  BY DEF CallRing, SqdbUpdate
<1>2. TypeOK'
  BY <1>1, RingType DEF SyncInv, SyncTypeOK
<1>3. SyncTypeOK' /\ PoolInv'
  BY <1>1, <1>2
     DEF SyncInv, SyncTypeOK, PoolInv, OneRequestLostPerTimeout, HoldsRequest, Held, poolVars
<1>4. /\ Unfetched' = Unfetched /\ Unreaped' = Unreaped /\ exec' = exec /\ sq' = sq /\ cq' = cq
      /\ Distance(sqHead, tail)' = Distance(sqHead, tail) /\ Backlog' = Backlog
      /\ Distance(sqHead, sqdb)' = Distance(sqHead, tail)
  BY <1>1 DEF ctrlVars, Unfetched, Unreaped, Span, Between, Backlog, Distance
<1>5. Distance(sqHead, tail) \in Nat
  BY DistanceBounds, SyncFacts DEF SyncInv, SyncTypeOK, TypeOK
<1>6. RingsInv'
  BY <1>1, <1>4, <1>5 DEF SyncInv, RingsInv, Doorbells, PhaseTags, CommandsDistinct, Written,
     Begun, Announced, ctrlVars
<1>7. OwnInv'
  BY <1>1, <1>4 DEF SyncInv, OwnInv, Own
<1>. QED
  BY <1>3, <1>6, <1>7 DEF SyncInv

LEMMA CallReapStep ==
    ASSUME SyncInv, CallReap
    PROVE  SyncInv'
<1>1. /\ pc = "poll" /\ pc' = "free" /\ ReapCpl
      /\ cpl' = [cid |-> cq[head].cid, op |-> cq[head].op] /\ status' \in Statuses
      /\ cqdb' = head'
      /\ UNCHANGED <<stack, user, aborted, sq, tail, tailLast, sqdb, ctrlVars>>
      /\ UNCHANGED <<calls, timeouts, req, rc>>
  BY DEF CallReap, ReapCpl
<1>2. /\ TypeOK /\ IsFiniteSet(exec) /\ head \in Slots
      /\ cq \in [Slots -> [cid : Cids, op : Ops \cup {NoOp}, phase : {0, 1}]]
  BY DEF SyncInv, SyncTypeOK, TypeOK, RingsInv
<1>3. TypeOK'
  BY <1>1, <1>2, RingType
<1>4. SyncTypeOK' /\ PoolInv'
  BY <1>1, <1>2, <1>3
     DEF SyncInv, SyncTypeOK, PoolInv, OneRequestLostPerTimeout, HoldsRequest, Held, Commands
<1>5. ASSUME timeouts + 1 < Depth
      PROVE  /\ head \in Unreaped /\ Unreaped' = Unreaped \ {head} /\ Unfetched' = Unfetched
             /\ Backlog' = Backlog - 1 /\ PhaseTags' /\ exec' = exec /\ sq' = sq /\ cq' = cq
  <2>1. PhaseTags
    BY <1>5 DEF SyncInv, RingsInv
  <2>2. head # cqTail /\ head' = Succ(head) /\ PhaseTags'
    BY <1>1, <1>2, <2>1, ReapPhaseTags
  <2>3. /\ Distance(Succ(head), cqTail) = Distance(head, cqTail) - 1
        /\ Span(Succ(head), cqTail) = Span(head, cqTail) \ {head}
        /\ head \in Span(head, cqTail)
    BY <1>2, <2>2, BacklogFacts, SpanShrinks
  <2>4. /\ Unfetched' = Unfetched /\ Unreaped' = Span(Succ(head), cqTail)
        /\ exec' = exec /\ sq' = sq /\ cq' = cq
        /\ Distance(sqHead, tail)' = Distance(sqHead, tail)
        /\ Distance(head, cqTail)' = Distance(Succ(head), cqTail)
    BY <1>1, <2>2 DEF ctrlVars, Unfetched, Unreaped, Span, Between, Distance
  <2>5. Backlog' = Backlog - 1
    BY <1>2, <2>3, <2>4, BacklogFacts DEF Backlog
  <2>. QED
    BY <2>2, <2>3, <2>4, <2>5 DEF Unreaped
<1>6. RingsInv'
  <2>1. IsFiniteSet(exec')
    BY <1>1, <1>2 DEF ctrlVars
  <2>2. ASSUME timeouts + 1 < Depth
        PROVE  Doorbells' /\ PhaseTags' /\ Backlog' = (timeouts + Begun)' /\ CommandsDistinct'
    <3>1. Doorbells /\ Backlog = timeouts + 1 /\ CommandsDistinct
      BY <1>1, <2>2 DEF SyncInv, RingsInv, Begun, Announced
    <3>2. Doorbells'
      BY <1>1, <3>1 DEF Doorbells, Distance, ctrlVars
    <3>3. Backlog' = (timeouts + Begun)'
      BY <1>1, <1>5, <2>2, <3>1 DEF SyncInv, SyncTypeOK, Begun, Announced
    <3>4. CommandsDistinct'
      BY <1>1, <1>5, <2>2, <3>1 DEF CommandsDistinct, Written
    <3>. QED
      BY <1>5, <2>2, <3>2, <3>3, <3>4
  <2>. QED
    BY <1>1, <2>1, <2>2 DEF RingsInv
<1>7. OwnInv'
  <2>1. ASSUME timeouts = 0 PROVE timeouts + 1 < Depth
    BY <2>1, SyncFacts
  <2>. QED
    BY <1>1, <1>5, <2>1 DEF SyncInv, OwnInv, Own
<1>. QED
  BY <1>4, <1>6, <1>7 DEF SyncInv

LEMMA CallTimeoutStep ==
    ASSUME SyncInv, CallTimeout
    PROVE  SyncInv'
<1>1. /\ pc = "poll" /\ pc' = "idle" /\ timeouts' = timeouts + 1 /\ rc' = EAGAIN
      /\ UNCHANGED <<poolVars, hostVars, ctrlVars, calls, req, cpl, status>>
  BY DEF CallTimeout, vars
<1>2. /\ calls \in Nat /\ timeouts \in Nat /\ calls <= MaxCalls /\ MaxCalls \in Nat
      /\ stack \in Seq(Cids) /\ timeouts + 1 <= calls
  BY <1>1, SyncFacts
     DEF SyncInv, SyncTypeOK, TypeOK, PoolTypeOK, PoolInv, Held, HoldsRequest
<1>3. TypeOK'
  BY <1>1 DEF SyncInv, SyncTypeOK, TypeOK, PoolTypeOK, poolVars, hostVars, ctrlVars
<1>4. SyncTypeOK'
  BY <1>1, <1>2, <1>3 DEF SyncInv, SyncTypeOK, EAGAIN
<1>5. PoolInv'
  BY <1>1, <1>2, SlotFacts
     DEF SyncInv, PoolInv, OneRequestLostPerTimeout, HoldsRequest, Held, poolVars
<1>6. RingsInv'
  <2>1. IsFiniteSet(exec')
    BY <1>1 DEF SyncInv, RingsInv, ctrlVars
  <2>2. ASSUME timeouts' + 1 < Depth
        PROVE  Doorbells' /\ PhaseTags' /\ Backlog' = (timeouts + Begun)' /\ CommandsDistinct'
    <3>1. timeouts + 1 < Depth
      BY <1>1, <1>2, <2>2, SyncFacts
    <3>2. Doorbells /\ PhaseTags /\ Backlog = timeouts + 1 /\ CommandsDistinct
      BY <1>1, <3>1 DEF SyncInv, RingsInv, Begun, Announced
    <3>3. CommandsDistinct'
      BY <1>1, <3>2, RingsUntouched DEF CommandsDistinct, Written
    <3>. QED
      BY <1>1, <1>2, <3>2, <3>3, RingsUntouched DEF Begun, Announced
  <2>. QED
    BY <2>1, <2>2 DEF RingsInv
<1>7. OwnInv'
  BY <1>1, <1>2 DEF OwnInv
<1>. QED
  BY <1>4, <1>5, <1>6, <1>7 DEF SyncInv

LEMMA CallFreeStep ==
    ASSUME SyncInv, CallFree
    PROVE  SyncInv'
<1>1. /\ pc = "free" /\ pc' = "idle" /\ NvmeRequestFree(req)
      /\ UNCHANGED <<hostVars, ctrlVars, calls, timeouts, req, cpl, status>>
      /\ rc' \in {0, -EIO}
  BY DEF CallFree
<1>2. /\ calls \in Nat /\ timeouts \in Nat /\ req \in Cids /\ stack \in Seq(Cids) /\ TypeOK
  BY SyncFacts DEF SyncInv, SyncTypeOK, TypeOK, PoolTypeOK
<1>3. /\ Len(stack) = PoolLen - timeouts - 1 /\ IsInjective(stack) /\ req \notin Range(stack)
      /\ timeouts + 1 <= calls
  BY <1>1 DEF SyncInv, PoolInv, OneRequestLostPerTimeout, HoldsRequest, Held
<1>4. stack' = Append(stack, req)
  <2>1. Len(stack) # PoolLen
    BY <1>2, <1>3, SlotFacts
  <2>. QED
    BY <1>1, <2>1 DEF NvmeRequestFree
<1>5. TypeOK'
  BY <1>1, <1>2, FreeType
<1>6. SyncTypeOK'
  BY <1>1, <1>5 DEF SyncInv, SyncTypeOK, EIO
<1>7. PoolInv'
  <2>1. IsInjective(stack')
    BY <1>2, <1>3, <1>4, FreelistPushes
  <2>2. Len(stack') = Len(stack) + 1
    BY <1>2, <1>4
  <2>. QED
    BY <1>1, <1>2, <1>3, <2>1, <2>2, SlotFacts
       DEF PoolInv, OneRequestLostPerTimeout, HoldsRequest, Held
<1>8. RingsInv'
  BY <1>1, RingsUntouched
     DEF SyncInv, RingsInv, Begun, Announced, CommandsDistinct, Written
<1>9. OwnInv'
  BY <1>1, RingsUntouched DEF SyncInv, OwnInv, Own
<1>. QED
  BY <1>6, <1>7, <1>8, <1>9 DEF SyncInv

LEMMA FetchStep ==
    ASSUME SyncInv, Fetch, UNCHANGED syncVars
    PROVE  SyncInv'
<1>1. /\ sqHead # sqdb /\ sqHead' = Succ(sqHead) /\ exec' = exec \cup {sq[sqHead]}
      /\ UNCHANGED <<poolVars, hostVars, cq, cqTail, cqPhase>>
      /\ UNCHANGED <<pc, calls, timeouts, req, cpl, status, rc>>
  BY DEF Fetch, syncVars
<1>2. TypeOK /\ IsFiniteSet(exec) /\ sqHead \in Slots /\ tail \in Slots /\ sqdb \in Slots
  BY DEF SyncInv, SyncTypeOK, TypeOK, RingsInv
<1>3. TypeOK'
  BY <1>2, RingType DEF Controller
<1>4. SyncTypeOK' /\ PoolInv'
  BY <1>1, <1>3
     DEF SyncInv, SyncTypeOK, PoolInv, OneRequestLostPerTimeout, HoldsRequest, Held, poolVars
<1>5. ASSUME timeouts + 1 < Depth
      PROVE  /\ sqHead \in Unfetched /\ Unfetched' = Unfetched \ {sqHead}
             /\ Unreaped' = Unreaped /\ sq' = sq /\ cq' = cq
             /\ Backlog' = Backlog /\ Doorbells' /\ PhaseTags'
  <2>1. Doorbells /\ PhaseTags /\ CommandsDistinct
    BY <1>5 DEF SyncInv, RingsInv
  <2>2. /\ Distance(sqHead, sqdb) \in 0 .. Depth - 1 /\ Distance(sqHead, sqdb) # 0
        /\ Distance(sqHead, tail) \in 0 .. Depth - 1
        /\ Distance(sqHead, tail) = 0 <=> sqHead = tail
    BY <1>1, <1>2, DistanceBounds
  <2>3. sqHead # tail
    BY <2>1, <2>2, SyncFacts DEF Doorbells
  <2>4. /\ Distance(Succ(sqHead), tail) = Distance(sqHead, tail) - 1
        /\ Span(Succ(sqHead), tail) = Span(sqHead, tail) \ {sqHead}
        /\ sqHead \in Span(sqHead, tail)
        /\ Distance(Succ(sqHead), sqdb) = Distance(sqHead, sqdb) - 1
    BY <1>1, <1>2, <2>3, SpanShrinks
  <2>5. /\ Unfetched' = Span(Succ(sqHead), tail) /\ Unreaped' = Unreaped /\ sq' = sq /\ cq' = cq
        /\ Distance(sqHead, tail)' = Distance(Succ(sqHead), tail)
        /\ Distance(sqHead, sqdb)' = Distance(Succ(sqHead), sqdb)
        /\ Distance(head, cqTail)' = Distance(head, cqTail)
    BY <1>1 DEF hostVars, Unfetched, Unreaped, Span, Between, Distance
  <2>6. sq[sqHead] \notin exec
    BY <2>1, <2>4 DEF CommandsDistinct, Unfetched
  <2>7. Cardinality(exec') = Cardinality(exec) + 1
    BY <1>1, <1>2, <2>6, FS_AddElement
  <2>8. Backlog' = Backlog
    BY <1>2, <2>4, <2>5, <2>7, BacklogFacts DEF Backlog
  <2>9. Doorbells' /\ PhaseTags'
    BY <1>1, <2>1, <2>2, <2>4, <2>5, SyncFacts DEF Doorbells, PhaseTags, hostVars
  <2>. QED
    BY <2>4, <2>5, <2>8, <2>9 DEF Unfetched
<1>6. RingsInv'
  <2>1. IsFiniteSet(exec')
    BY <1>1, <1>2, FS_AddElement
  <2>2. ASSUME timeouts + 1 < Depth
        PROVE  Backlog' = (timeouts + Begun)' /\ CommandsDistinct'
    <3>1. Backlog = timeouts + Begun /\ CommandsDistinct
      BY <2>2 DEF SyncInv, RingsInv
    <3>2. \A o : Written(o)' <=> Written(o)
      BY <1>1 DEF Written
    <3>3. CommandsDistinct'
      BY <1>1, <1>5, <2>2, <3>1, <3>2 DEF CommandsDistinct
    <3>. QED
      BY <1>1, <1>5, <2>2, <3>1, <3>3 DEF Begun, Announced
  <2>. QED
    BY <1>1, <1>5, <2>1, <2>2 DEF RingsInv
<1>7. OwnInv'
  <2>1. ASSUME timeouts = 0 PROVE timeouts + 1 < Depth
    BY <2>1, SyncFacts
  <2>. QED
    BY <1>1, <1>5, <2>1 DEF SyncInv, OwnInv, Own
<1>. QED
  BY <1>4, <1>6, <1>7 DEF SyncInv

LEMMA PostStep ==
    ASSUME SyncInv, NEW x \in exec, Post(x), UNCHANGED syncVars
    PROVE  SyncInv'
<1>1. /\ cq' = [cq EXCEPT ![cqTail] = [cid |-> x.cid, op |-> x.op, phase |-> cqPhase]]
      /\ exec' = exec \ {x} /\ cqTail' = Succ(cqTail)
      /\ UNCHANGED <<poolVars, hostVars, sqHead>>
      /\ UNCHANGED <<pc, calls, timeouts, req, cpl, status, rc>>
  BY DEF Post, syncVars
<1>2. /\ TypeOK /\ IsFiniteSet(exec) /\ cqTail \in Slots /\ head \in Slots
      /\ cq \in [Slots -> [cid : Cids, op : Ops \cup {NoOp}, phase : {0, 1}]]
      /\ timeouts \in Nat
  BY SyncFacts DEF SyncInv, SyncTypeOK, TypeOK, RingsInv
<1>3. TypeOK'
  BY <1>2, RingType DEF Controller
<1>4. SyncTypeOK' /\ PoolInv'
  BY <1>1, <1>3
     DEF SyncInv, SyncTypeOK, PoolInv, OneRequestLostPerTimeout, HoldsRequest, Held, poolVars
<1>5. IsFiniteSet(exec') /\ Cardinality(exec') = Cardinality(exec) - 1
  BY <1>1, <1>2, FS_RemoveElement
<1>6. ASSUME timeouts + 1 < Depth
      PROVE  /\ Unreaped' = Unreaped \cup {cqTail} /\ cqTail \notin Unreaped
             /\ \A i \in Unreaped : cq'[i] = cq[i]
             /\ cq'[cqTail].cid = x.cid /\ cq'[cqTail].op = x.op
             /\ Unfetched' = Unfetched /\ sq' = sq
             /\ Backlog' = Backlog /\ Doorbells' /\ PhaseTags'
  <2>1. Doorbells /\ PhaseTags /\ Backlog = timeouts + Begun
    BY <1>6 DEF SyncInv, RingsInv
  <2>2. Distance(head, cqTail) + 1 < Depth
    BY <1>2, <1>6, <2>1, BacklogFacts, SyncFacts DEF Backlog, Begun
  <2>3. /\ Distance(head, Succ(cqTail)) = Distance(head, cqTail) + 1
        /\ Span(head, Succ(cqTail)) = Span(head, cqTail) \cup {cqTail}
        /\ cqTail \notin Span(head, cqTail)
    BY <1>2, <2>2, SpanGrows
  <2>4. /\ Unfetched' = Unfetched /\ sq' = sq /\ Unreaped' = Span(head, Succ(cqTail))
        /\ Distance(sqHead, tail)' = Distance(sqHead, tail)
        /\ Distance(sqHead, sqdb)' = Distance(sqHead, sqdb)
        /\ Distance(head, cqTail)' = Distance(head, Succ(cqTail))
    BY <1>1 DEF hostVars, Unfetched, Unreaped, Span, Between, Distance
  <2>5. Backlog' = Backlog
    BY <1>2, <1>5, <2>3, <2>4, BacklogFacts DEF Backlog
  <2>6. Doorbells'
    BY <1>1, <2>1, <2>4 DEF Doorbells, hostVars
  <2>7. PhaseTags'
    BY <1>2, <2>1, <2>2, PostPhaseTags
  <2>8. cq'[cqTail].cid = x.cid /\ cq'[cqTail].op = x.op
    BY <1>1, <1>2
  <2>9. \A i \in Unreaped : cq'[i] = cq[i]
    BY <1>1, <1>2, <2>3 DEF Unreaped
  <2>. QED
    BY <2>3, <2>4, <2>5, <2>6, <2>7, <2>8, <2>9 DEF Unreaped
<1>7. RingsInv'
  <2>1. ASSUME timeouts + 1 < Depth
        PROVE  Backlog' = (timeouts + Begun)' /\ CommandsDistinct'
    <3>1. Backlog = timeouts + Begun /\ CommandsDistinct
      BY <2>1 DEF SyncInv, RingsInv
    <3>2. \A o : Written(o)' <=> Written(o)
      BY <1>1 DEF Written
    <3>3. CommandsDistinct'
      BY <1>1, <1>6, <2>1, <3>1, <3>2 DEF CommandsDistinct
    <3>. QED
      BY <1>1, <1>6, <2>1, <3>1, <3>3 DEF Begun, Announced
  <2>. QED
    BY <1>1, <1>5, <1>6, <2>1 DEF RingsInv
<1>8. OwnInv'
  <2>1. ASSUME timeouts = 0 PROVE timeouts + 1 < Depth
    BY <2>1, SyncFacts
  <2>2. ASSUME timeouts = 0 PROVE x.cid = req /\ x.op = calls
    BY <2>2 DEF SyncInv, OwnInv, Own
  <2>. QED
    BY <1>1, <1>6, <2>1, <2>2 DEF SyncInv, OwnInv, Own
<1>. QED
  BY <1>4, <1>7, <1>8 DEF SyncInv

LEMMA SyncInvNext ==
    ASSUME SyncInv, [SyncNext]_allVars
    PROVE  SyncInv'
<1>1. CASE SubmitSync
  BY <1>1, CallAllocStep, CallEnqueueStep, CallRingStep, CallReapStep, CallTimeoutStep,
     CallFreeStep DEF SubmitSync
<1>2. CASE Controller /\ UNCHANGED syncVars
  BY <1>2, FetchStep, PostStep DEF Controller
<1>3. CASE UNCHANGED allVars
  <2>1. UNCHANGED <<poolVars, hostVars, ctrlVars>> /\ UNCHANGED syncVars
    BY <1>3 DEF allVars, vars
  <2>2. SyncTypeOK'
    BY <2>1 DEF SyncInv, SyncTypeOK, TypeOK, PoolTypeOK, poolVars, hostVars, ctrlVars, syncVars
  <2>3. PoolInv'
    BY <2>1 DEF SyncInv, PoolInv, OneRequestLostPerTimeout, HoldsRequest, Held, poolVars, syncVars
  <2>4. RingsInv' /\ OwnInv'
    BY <2>1, RingsUntouched
       DEF SyncInv, RingsInv, Begun, Announced, CommandsDistinct, Written, OwnInv, Own, syncVars
  <2>. QED
    BY <2>2, <2>3, <2>4 DEF SyncInv
<1>. QED
  BY <1>1, <1>2, <1>3 DEF SyncNext

-----------------------------------------------------------------------------
(***************************************************************************)
(* The theorems.                                                           *)
(***************************************************************************)
THEOREM SyncInvariant == SyncSpec => []SyncInv
BY SyncInvInit, SyncInvNext, PTL DEF SyncSpec

\* Every variable of the calls and of the queue pair under them keeps its
\* type, also when timeouts have overrun the rings.
THEOREM SyncTypeCorrect == SyncSpec => []SyncTypeOK
<1>1. SyncInv => SyncTypeOK
  BY DEF SyncInv
<1>. QED
  BY <1>1, SyncInvariant, PTL

\* nvme_qpair_submit_sync gives back the cid it allocated unless it returns
\* -EAGAIN: however many calls time out and whatever stale completions the
\* later ones reap, each timeout costs the pool one cid, and no cid is in the
\* pool twice.
THEOREM SyncLosesOneRequestPerTimeout == SyncSpec => []OneRequestLostPerTimeout
<1>1. SyncInv => OneRequestLostPerTimeout
  BY DEF SyncInv, PoolInv
<1>. QED
  BY <1>1, SyncInvariant, PTL

\* A ring pair that has seen timeouts carries as many commands too many for
\* good, as long as they do not fill it.
THEOREM SyncBacklogIsTimeouts == SyncSpec => []BacklogIsTimeouts
<1>1. SyncInv => BacklogIsTimeouts
  BY DEF SyncInv, RingsInv, BacklogIsTimeouts, Backlog, Begun
<1>. QED
  BY <1>1, SyncInvariant, PTL

\* Until the first timeout a call reaps the completion of its own command,
\* and the cid it then frees is in no ring and not with the controller.
THEOREM SyncOwnCompletion == SyncSpec => []OwnCompletionUntilTimeout
<1>1. ASSUME SyncInv, timeouts = 0, pc = "free"
      PROVE  cpl = [cid |-> req, op |-> calls] /\ req \notin InFlight
  <2>1. cpl = [cid |-> req, op |-> calls]
    BY <1>1 DEF SyncInv, OwnInv, Own
  <2>2. Backlog = 0
    BY <1>1, SyncFacts DEF SyncInv, RingsInv, Begun, Announced
  <2>3. Unfetched = {} /\ exec = {} /\ Unreaped = {}
    BY <1>1, <2>2, BacklogFacts DEF SyncInv, SyncTypeOK, RingsInv
  <2>. QED
    BY <2>1, <2>3 DEF InFlight, Queued, Executing, Posted
<1>2. SyncInv => OwnCompletionUntilTimeout
  BY <1>1 DEF OwnCompletionUntilTimeout
<1>. QED
  BY <1>2, SyncInvariant, PTL
=============================================================================
