--------------------------- MODULE NvmeQpairProofs ---------------------------
(***************************************************************************)
(* Theorems about the queue pair for every ring depth, pool length, caller *)
(* limit and set of operations that the assumptions of NvmeRequestPool and *)
(* NvmeQpair admit: first the rings and their phase tags, then the command *)
(* identifiers.  Every identifier is in exactly one place, and every       *)
(* completion belongs to the request its identifier names: each step takes *)
(* an identifier out of one place and puts it into the next, and leaves    *)
(* all others where they are.  Last, the steps as those of the service.    *)
(***************************************************************************)
EXTENDS NvmeQpair, FiniteSetTheorems, SequenceTheorems, TLAPS

\* The index that enqueue computes with % depth is the one reap_cpl computes
\* with a comparison.
LEMMA SuccCases ==
    ASSUME NEW i \in Slots
    PROVE  /\ Succ(i) \in Slots
           /\ Succ(i) = IF i = Depth - 1 THEN 0 ELSE i + 1
<1>1. Depth \in Nat /\ Depth >= 2
  BY QpairAssumption
<1>2. CASE i = Depth - 1
  <2>1. i + 1 = Depth
    BY <1>1, <1>2
  <2>2. Depth % Depth = 0
    BY <1>1
  <2>. QED
    BY <1>1, <1>2, <2>1, <2>2 DEF Succ, Slots
<1>3. CASE i # Depth - 1
  <2>1. i + 1 \in 0 .. Depth - 1
    BY <1>1, <1>3 DEF Slots
  <2>2. (i + 1) % Depth = i + 1
    BY <1>1, <2>1
  <2>. QED
    BY <1>1, <1>3, <2>1, <2>2 DEF Succ, Slots
<1>. QED
  BY <1>2, <1>3

LEMMA SlotFacts ==
    /\ Depth \in Nat /\ Depth >= 2
    /\ PoolLen \in Nat /\ PoolLen >= 1 /\ PoolLen <= 65535
    /\ QueueLimit \in Nat /\ QueueLimit >= 1 /\ QueueLimit <= Depth - 1
    /\ QueueLimit <= PoolLen
    /\ 0 \in Slots /\ 0 \in Cids
    /\ Slots \subseteq Nat /\ Cids \subseteq Nat
BY PoolAssumption, QpairAssumption DEF Slots, Cids

\* What nvme_request_alloc leaves of the freelist.
LEMMA Popped ==
    ASSUME NEW S, NEW s \in Seq(S), s # <<>>
    PROVE  /\ Len(s) \in Nat \ {0}
           /\ SubSeq(s, 1, Len(s) - 1) \in Seq(S)
           /\ Len(SubSeq(s, 1, Len(s) - 1)) = Len(s) - 1
           /\ \A i \in 1 .. Len(s) - 1 : SubSeq(s, 1, Len(s) - 1)[i] = s[i]
<1> DEFINE n == Len(s) - 1
           t == SubSeq(s, 1, n)
<1>1. Len(s) \in Nat \ {0} /\ n \in Nat
  OBVIOUS
<1>2. \A i \in 1 .. n : s[i] \in S
  OBVIOUS
<1>3. /\ t \in Seq(S)
      /\ Len(t) = IF 1 <= n THEN n - 1 + 1 ELSE 0
      /\ \A i \in 1 .. n - 1 + 1 : t[i] = s[1 + i - 1]
  <2> HIDE DEF n
  <2>. QED
    BY <1>1, <1>2, SubSeqProperties
<1>4. Len(t) = n
  <2> HIDE DEF n, t
  <2>1. CASE 1 <= n
    BY <1>1, <1>3, <2>1
  <2>2. CASE n = 0
    BY <1>3, <2>2
  <2>. QED
    BY <1>1, <2>1, <2>2
<1>5. \A i \in 1 .. n : t[i] = s[i]
  <2> HIDE DEF n, t
  <2>1. n - 1 + 1 = n /\ \A i \in 1 .. n : 1 + i - 1 = i
    BY <1>1
  <2>. QED
    BY <1>1, <1>3, <2>1
<1>. QED
  BY <1>1, <1>3, <1>4, <1>5

-----------------------------------------------------------------------------
(***************************************************************************)
(* Type correctness.  TypeOK is inductive by itself.                       *)
(***************************************************************************)
LEMMA TypeInit == Init => TypeOK
<1>. SUFFICES ASSUME Init PROVE TypeOK
  OBVIOUS
<1>1. PoolTypeOK
  <2>1. /\ stack = [k \in 1 .. PoolLen |-> PoolLen - k]
        /\ user = [c \in Cids |-> NoOp]
        /\ owned = {}
        /\ aborted = FALSE
    BY DEF Init, PoolInit
  <2>2. \A k \in 1 .. PoolLen : PoolLen - k \in Cids
    BY SlotFacts DEF Cids
  <2>3. stack \in [1 .. PoolLen -> Cids]
    BY <2>1, <2>2
  <2>4. stack \in Seq(Cids)
    BY <2>3, SeqDef, SlotFacts
  <2>. QED
    BY <2>1, <2>4 DEF PoolTypeOK
<1>. QED
  BY <1>1, SlotFacts DEF TypeOK, Commands, Init, QpairInit, ControllerInit

\* The pool's operations and those on the rings, whoever calls them.
LEMMA AllocType ==
    ASSUME TypeOK, NvmeRequestAlloc, UNCHANGED <<hostVars, ctrlVars>>
    PROVE  TypeOK'
<1>1. CASE stack = <<>>
  <2>1. /\ UNCHANGED <<stack, user, owned, hostVars, ctrlVars>>
        /\ aborted' \in BOOLEAN
    BY <1>1 DEF NvmeRequestAlloc
  <2>. QED
    BY <2>1 DEF TypeOK, PoolTypeOK, hostVars, ctrlVars
<1>2. CASE stack # <<>>
  <2>1. /\ stack' = SubSeq(stack, 1, Len(stack) - 1)
        /\ owned' = owned \cup {Top}
        /\ UNCHANGED <<user, hostVars, ctrlVars>>
        /\ aborted' \in BOOLEAN
    BY <1>2 DEF NvmeRequestAlloc
  <2>2. Top \in Cids /\ SubSeq(stack, 1, Len(stack) - 1) \in Seq(Cids)
    BY <1>2 DEF Top, TypeOK, PoolTypeOK
  <2>. QED
    BY <2>1, <2>2 DEF TypeOK, PoolTypeOK, hostVars, ctrlVars
<1>. QED
  BY <1>1, <1>2

LEMMA FreeType ==
    ASSUME TypeOK, NEW c \in Cids, NvmeRequestFree(c), UNCHANGED <<hostVars, ctrlVars>>
    PROVE  TypeOK'
<1>1. Append(stack, c) \in Seq(Cids)
  BY DEF TypeOK, PoolTypeOK
<1>2. /\ stack' \in {stack, Append(stack, c)}
      /\ owned' = owned \ {c}
      /\ UNCHANGED <<user, hostVars, ctrlVars>>
      /\ aborted' \in BOOLEAN
  BY DEF NvmeRequestFree
<1>. QED
  BY <1>1, <1>2 DEF TypeOK, PoolTypeOK, hostVars, ctrlVars

LEMMA EnqueueType ==
    ASSUME TypeOK, NEW c \in Cids, NEW o \in Ops, Enqueue(c, o),
           user' \in [Cids -> Ops \cup {NoOp}]
    PROVE  TypeOK'
BY SuccCases DEF Enqueue, Commands, ctrlVars, TypeOK, PoolTypeOK

LEMMA RingType ==
    ASSUME TypeOK, SqdbUpdate \/ ReapCpl \/ Controller
    PROVE  TypeOK'
<1>1. CASE SqdbUpdate
  BY <1>1 DEF SqdbUpdate, poolVars, ctrlVars, TypeOK, PoolTypeOK
<1>2. CASE ReapCpl
  <2>1. cq[head].cid \in Cids
    BY DEF TypeOK
  <2>2. head' \in Slots
    BY <1>2, SlotFacts DEF ReapCpl, Slots, TypeOK
  <2>3. phase' \in {0, 1}
    BY <1>2 DEF ReapCpl, TypeOK
  <2>4. /\ cqdb' = head'
        /\ owned' = owned \cup {cq[head].cid}
        /\ UNCHANGED <<stack, user, aborted, sq, tail, tailLast, sqdb, ctrlVars>>
    BY <1>2 DEF ReapCpl
  <2>. QED
    BY <2>1, <2>2, <2>3, <2>4 DEF ctrlVars, TypeOK, PoolTypeOK
<1>3. CASE Fetch
  BY <1>3, SuccCases DEF Fetch, poolVars, hostVars, TypeOK, PoolTypeOK
<1>4. ASSUME NEW x \in exec, Post(x)
      PROVE  TypeOK'
  <2>1. [cid |-> x.cid, op |-> x.op, phase |-> cqPhase]
            \in [cid : Cids, op : Ops \cup {NoOp}, phase : {0, 1}]
    BY DEF Commands, TypeOK
  <2>2. cqPhase' \in {0, 1}
    BY <1>4 DEF Post, TypeOK
  <2>3. Succ(cqTail) \in Slots
    BY SuccCases DEF TypeOK
  <2>4. /\ cq' = [cq EXCEPT ![cqTail] =
                    [cid |-> x.cid, op |-> x.op, phase |-> cqPhase]]
        /\ exec' = exec \ {x}
        /\ cqTail' = Succ(cqTail)
        /\ UNCHANGED <<poolVars, hostVars, sqHead>>
    BY <1>4 DEF Post
  <2>. QED
    BY <2>1, <2>2, <2>3, <2>4 DEF poolVars, hostVars, TypeOK, PoolTypeOK
<1>. QED
  BY <1>1, <1>2, <1>3, <1>4 DEF Controller

LEMMA TypeStep == TypeOK /\ [Next]_vars => TypeOK'
<1>. SUFFICES ASSUME TypeOK, [Next]_vars PROVE TypeOK'
  OBVIOUS
<1>1. owned \subseteq Cids /\ user \in [Cids -> Ops \cup {NoOp}]
  BY DEF TypeOK, PoolTypeOK
<1>2. CASE ClientAlloc
  BY <1>2, AllocType DEF ClientAlloc
<1>3. ASSUME NEW c \in owned, ClientFree(c)
      PROVE  TypeOK'
  BY <1>1, <1>3, FreeType DEF ClientFree
<1>4. ASSUME NEW c \in owned, NEW o \in Ops, ClientEnqueue(c, o)
      PROVE  TypeOK'
  BY <1>1, <1>4, EnqueueType DEF ClientEnqueue
<1>5. CASE SqdbUpdate \/ ReapCpl \/ Controller
  BY <1>5, RingType
<1>6. CASE UNCHANGED vars
  BY <1>6 DEF vars, poolVars, hostVars, ctrlVars, TypeOK, PoolTypeOK
<1>. QED
  BY <1>2, <1>3, <1>4, <1>5, <1>6 DEF Next, Host

\* Every variable of the pool, the rings and the controller keeps its type.
THEOREM TypeCorrect == Spec => []TypeOK
BY TypeInit, TypeStep, PTL DEF Spec

-----------------------------------------------------------------------------
(***************************************************************************)
(* Ring arithmetic.                                                        *)
(***************************************************************************)
LEMMA DistanceBounds ==
    ASSUME NEW a \in Slots, NEW b \in Slots
    PROVE  /\ Distance(a, b) \in 0 .. Depth - 1
           /\ Distance(a, b) = 0 <=> a = b
BY SlotFacts DEF Slots, Distance

\* A ring that is not full grows at its end by the slot b.
LEMMA SpanGrows ==
    ASSUME NEW a \in Slots, NEW b \in Slots, Distance(a, b) + 1 < Depth
    PROVE  /\ Distance(a, Succ(b)) = Distance(a, b) + 1
           /\ Span(a, Succ(b)) = Span(a, b) \cup {b}
           /\ b \notin Span(a, b)
<1>1. Succ(b) \in Slots /\ Succ(b) = IF b = Depth - 1 THEN 0 ELSE b + 1
  BY SuccCases
<1>2. Distance(a, Succ(b)) = Distance(a, b) + 1
  BY <1>1, SlotFacts DEF Slots, Distance
<1>3. ASSUME NEW i \in Slots
      PROVE  Between(i, a, Succ(b)) <=> Between(i, a, b) \/ i = b
  BY <1>1, SlotFacts DEF Slots, Distance, Between
<1>4. ~Between(b, a, b)
  BY SlotFacts DEF Slots, Between
<1>. QED
  BY <1>2, <1>3, <1>4 DEF Span

\* A ring that is not empty shrinks at its start by the slot a.
LEMMA SpanShrinks ==
    ASSUME NEW a \in Slots, NEW b \in Slots, a # b
    PROVE  /\ Distance(Succ(a), b) = Distance(a, b) - 1
           /\ Span(Succ(a), b) = Span(a, b) \ {a}
           /\ a \in Span(a, b)
<1>1. Succ(a) \in Slots /\ Succ(a) = IF a = Depth - 1 THEN 0 ELSE a + 1
  BY SuccCases
<1>2. Distance(Succ(a), b) = Distance(a, b) - 1
  BY <1>1, SlotFacts DEF Slots, Distance
<1>3. ASSUME NEW i \in Slots
      PROVE  Between(i, Succ(a), b) <=> Between(i, a, b) /\ i # a
  BY <1>1, SlotFacts DEF Slots, Between
<1>4. Between(a, a, b)
  BY SlotFacts DEF Slots, Between
<1>. QED
  BY <1>2, <1>3, <1>4 DEF Span

-----------------------------------------------------------------------------
(***************************************************************************)
(* RingInv is inductive.                                                   *)
(***************************************************************************)
LEMMA AddOne ==
    ASSUME NEW S, NEW x, IsFiniteSet(S)
    PROVE  /\ IsFiniteSet(S \cup {x})
           /\ Cardinality(S \cup {x}) \in Nat
           /\ Cardinality(S \cup {x}) <= Cardinality(S) + 1
<1>1. /\ IsFiniteSet(S \cup {x})
      /\ Cardinality(S \cup {x}) =
            IF x \in S THEN Cardinality(S) ELSE Cardinality(S) + 1
  BY FS_AddElement
<1>2. Cardinality(S) \in Nat
  BY FS_CardinalityType
<1>. QED
  BY <1>1, <1>2

\* All that is counted are numbers, and neither ring is full while the caller
\* or the controller still holds something.
LEMMA Counts ==
    ASSUME RingInv
    PROVE  /\ IsFiniteSet(owned) /\ IsFiniteSet(exec)
           /\ Cardinality(owned) \in Nat /\ Cardinality(exec) \in Nat
           /\ Distance(sqHead, tail) \in 0 .. Depth - 1
           /\ Distance(head, cqTail) \in 0 .. Depth - 1
           /\ Len(stack) \in Nat
           /\ InUse <= QueueLimit
           /\ Distance(sqHead, sqdb) \in 0 .. Depth - 1
           /\ Distance(sqHead, sqdb) <= Distance(sqHead, tail)
           /\ \A c \in owned : Cardinality(owned) >= 1
           /\ \A x \in exec : Cardinality(exec) >= 1
<1>1. IsFiniteSet(owned)
  <2>1. IsFiniteSet(Cids) /\ owned \subseteq Cids
    BY FS_Interval, SlotFacts DEF RingInv, TypeOK, PoolTypeOK, Cids
  <2>. QED
    BY <2>1, FS_Subset
<1>2. IsFiniteSet(exec)
  BY DEF RingInv, RingsFit
<1>3. Cardinality(owned) \in Nat /\ Cardinality(exec) \in Nat
  BY <1>1, <1>2, FS_CardinalityType
<1>4. /\ Distance(sqHead, tail) \in 0 .. Depth - 1
      /\ Distance(head, cqTail) \in 0 .. Depth - 1
  BY DistanceBounds DEF RingInv, TypeOK
<1>5. Len(stack) \in Nat
  BY DEF RingInv, TypeOK, PoolTypeOK
<1>6. InUse <= QueueLimit
  BY <1>3, <1>4, <1>5, SlotFacts DEF RingInv, RingsFit, InUse, Outstanding
<1>7. /\ \A c \in owned : Cardinality(owned) # 0
      /\ \A x \in exec : Cardinality(exec) # 0
  BY <1>1, <1>2, FS_EmptySet
<1>8. /\ Distance(sqHead, sqdb) \in 0 .. Depth - 1
      /\ Distance(sqHead, sqdb) <= Distance(sqHead, tail)
  BY DistanceBounds DEF RingInv, TypeOK, Doorbells
<1>. QED
  BY <1>1, <1>2, <1>3, <1>4, <1>5, <1>6, <1>7, <1>8

\* The phase test tells new entries from old ones.
LEMMA PhaseTest ==
    ASSUME TypeOK, PhaseTags
    PROVE  EntryIsNew(head) <=> head # cqTail
<1>1. cq[head].cid < UINT16_MAX
  <2>1. cq[head].cid \in Cids
    BY DEF TypeOK
  <2>. QED
    BY <2>1, SlotFacts DEF Cids, UINT16_MAX
<1>2. cq[head].phase = phase <=> head # cqTail
  <2>1. /\ head \in Slots /\ cqTail \in Slots
        /\ phase \in {0, 1} /\ cqPhase \in {0, 1}
    BY DEF TypeOK
  <2>2. /\ cq[head].phase = IF head < cqTail THEN cqPhase ELSE 1 - cqPhase
        /\ cqPhase = IF head <= cqTail THEN phase ELSE 1 - phase
    BY <2>1 DEF PhaseTags
  <2>. QED
    BY <2>1, <2>2 DEF Slots
<1>. QED
  BY <1>1, <1>2 DEF EntryIsNew

\* Reaping and posting keep the tags apart, also where they wrap.
LEMMA ReapPhaseTags ==
    ASSUME TypeOK, PhaseTags, ReapCpl
    PROVE  head # cqTail /\ head' = Succ(head) /\ PhaseTags'
<1>1. /\ head \in Slots /\ cqTail \in Slots
      /\ phase \in {0, 1} /\ cqPhase \in {0, 1}
  BY DEF TypeOK
<1>2. head # cqTail
  BY PhaseTest DEF ReapCpl
<1>3. /\ Succ(head) = IF head = Depth - 1 THEN 0 ELSE head + 1
      /\ head' = Succ(head)
      /\ phase' = IF head + 1 = Depth THEN 1 - phase ELSE phase
      /\ UNCHANGED ctrlVars
  BY <1>1, SuccCases, SlotFacts DEF ReapCpl, Slots
<1>4. cqPhase = IF Succ(head) <= cqTail THEN phase' ELSE 1 - phase'
  BY <1>1, <1>2, <1>3, SlotFacts DEF PhaseTags, Slots
<1>. QED
  BY <1>2, <1>3, <1>4 DEF PhaseTags, ctrlVars

LEMMA PostPhaseTags ==
    ASSUME TypeOK, PhaseTags, Distance(head, cqTail) + 1 < Depth, NEW x, Post(x)
    PROVE  PhaseTags'
<1>1. /\ head \in Slots /\ cqTail \in Slots
      /\ phase \in {0, 1} /\ cqPhase \in {0, 1}
      /\ cq \in [Slots -> [cid : Cids, op : Ops \cup {NoOp}, phase : {0, 1}]]
  BY DEF TypeOK
<1>2. /\ cq' = [cq EXCEPT ![cqTail] =
                    [cid |-> x.cid, op |-> x.op, phase |-> cqPhase]]
      /\ cqTail' = Succ(cqTail)
      /\ cqPhase' = IF cqTail + 1 = Depth THEN 1 - cqPhase ELSE cqPhase
      /\ UNCHANGED hostVars
  BY DEF Post
<1>3. Succ(cqTail) = IF cqTail = Depth - 1 THEN 0 ELSE cqTail + 1
  BY <1>1, SuccCases
<1>4. ASSUME NEW i \in Slots
      PROVE  cq'[i].phase = IF i < Succ(cqTail) THEN cqPhase' ELSE 1 - cqPhase'
  <2>1. cq'[i].phase = IF i = cqTail THEN cqPhase ELSE cq[i].phase
    BY <1>1, <1>2
  <2>2. cq[i].phase = IF i < cqTail THEN cqPhase ELSE 1 - cqPhase
    BY DEF PhaseTags
  <2>. QED
    BY <1>1, <1>2, <1>3, <2>1, <2>2, SlotFacts DEF Slots
<1>5. cqPhase' = IF head <= Succ(cqTail) THEN phase ELSE 1 - phase
  <2>1. cqPhase = IF head <= cqTail THEN phase ELSE 1 - phase
    BY DEF PhaseTags
  <2>. QED
    BY <1>1, <1>2, <1>3, <2>1, SlotFacts DEF Slots, Distance
<1>. QED
  BY <1>2, <1>4, <1>5 DEF PhaseTags, hostVars

LEMMA RingInit == Init => RingInv
<1>. SUFFICES ASSUME Init PROVE RingInv
  OBVIOUS
<1>1. TypeOK
  BY TypeInit
<1>2. RingsFit
  <2>1. Len(stack) = PoolLen
    BY SlotFacts DEF Init, PoolInit
  <2>2. InUse = 0
    BY FS_EmptySet, SlotFacts
       DEF Init, PoolInit, QpairInit, ControllerInit, InUse, Distance
  <2>. QED
    BY <2>1, <2>2, FS_EmptySet, SlotFacts
       DEF Init, ControllerInit, RingsFit, Outstanding
<1>3. Doorbells
  BY DEF Init, QpairInit, ControllerInit, Doorbells, Distance
<1>4. PhaseTags
  BY DEF Init, QpairInit, ControllerInit, PhaseTags, Slots
<1>5. NoAbort
  BY DEF Init, PoolInit, NoAbort
<1>. QED
  BY <1>1, <1>2, <1>3, <1>4, <1>5 DEF RingInv

\* A step of the caller or the controller changes what it moves by one.
LEMMA RingStep == RingInv /\ [Next]_vars => RingInv'
<1>. SUFFICES ASSUME RingInv, [Next]_vars PROVE RingInv'
  OBVIOUS
<1>1. TypeOK'
  BY TypeStep DEF RingInv
<1>2. /\ head \in Slots /\ cqTail \in Slots /\ cqdb = head
      /\ sqHead \in Slots /\ tail \in Slots /\ sqdb \in Slots
      /\ phase \in {0, 1} /\ cqPhase \in {0, 1}
      /\ stack \in Seq(Cids)
  BY DEF RingInv, TypeOK, PoolTypeOK, Doorbells
<1>3. CASE ClientAlloc
  <2>1. /\ Len(stack) >= 1 /\ stack # <<>>
        /\ Outstanding < QueueLimit
    BY <1>2, <1>3, Counts, SlotFacts DEF ClientAlloc, Outstanding
  <2>2. /\ stack' = SubSeq(stack, 1, Len(stack) - 1)
        /\ owned' = owned \cup {Top}
        /\ aborted' = FALSE
        /\ UNCHANGED <<hostVars, ctrlVars>>
    BY <1>3, <2>1 DEF ClientAlloc, NvmeRequestAlloc
  <2>3. Len(stack') = Len(stack) - 1
    BY <1>2, <2>1, <2>2, Popped
  <2>4. Cardinality(owned') <= Cardinality(owned) + 1 /\ Cardinality(owned') \in Nat
    BY <2>2, Counts, AddOne
  <2>5. RingsFit'
    <3>1. InUse' = Cardinality(owned') + Distance(sqHead, tail)
                       + Cardinality(exec) + Distance(head, cqTail)
      BY <2>2 DEF InUse, hostVars, ctrlVars, Distance
    <3>2. Outstanding' = Outstanding + 1
      BY <2>3, Counts, SlotFacts DEF Outstanding
    <3>3. InUse' <= InUse + 1 /\ InUse' \in Int /\ InUse \in Int
      BY <2>4, <3>1, Counts DEF InUse
    <3>4. Outstanding \in Int /\ InUse <= Outstanding
      BY Counts, SlotFacts DEF RingInv, RingsFit, Outstanding
    <3>. QED
      BY <2>1, <2>2, <3>2, <3>3, <3>4, Counts, SlotFacts DEF RingsFit, ctrlVars
  <2>6. Doorbells' /\ PhaseTags'
    BY <2>2 DEF RingInv, Doorbells, PhaseTags, Distance, hostVars, ctrlVars
  <2>7. NoAbort'
    BY <2>2 DEF NoAbort
  <2>. QED
    BY <1>1, <2>5, <2>6, <2>7 DEF RingInv
<1>4. ASSUME NEW c \in owned, ClientFree(c)
      PROVE  RingInv'
  <2>1. Cardinality(owned) >= 1
    BY Counts
  <2>2. Len(stack) < PoolLen
    BY <2>1, Counts, SlotFacts DEF RingInv, RingsFit, InUse, Outstanding
  <2>3. /\ stack' = Append(stack, c)
        /\ owned' = owned \ {c}
        /\ aborted' = FALSE
        /\ UNCHANGED <<hostVars, ctrlVars>>
    <3>1. Len(stack) # PoolLen
      BY <2>2, Counts, SlotFacts
    <3>. QED
      BY <1>4, <3>1 DEF ClientFree, NvmeRequestFree
  <2>4. Len(stack') = Len(stack) + 1
    BY <1>2, <2>3
  <2>5. Cardinality(owned') = Cardinality(owned) - 1
    BY <2>3, Counts, FS_RemoveElement
  <2>6. RingsFit'
    <3>1. InUse' = Cardinality(owned') + Distance(sqHead, tail)
                       + Cardinality(exec) + Distance(head, cqTail)
      BY <2>3 DEF InUse, hostVars, ctrlVars, Distance
    <3>2. Outstanding' = Outstanding - 1
      BY <2>4, Counts, SlotFacts DEF Outstanding
    <3>. QED
      BY <2>1, <2>3, <2>5, <3>1, <3>2, Counts, SlotFacts, SMTT(30)
         DEF RingInv, RingsFit, InUse, Outstanding, ctrlVars
  <2>7. Doorbells' /\ PhaseTags'
    BY <2>3 DEF RingInv, Doorbells, PhaseTags, Distance, hostVars, ctrlVars
  <2>8. NoAbort'
    BY <2>3 DEF NoAbort
  <2>. QED
    BY <1>1, <2>6, <2>7, <2>8 DEF RingInv
<1>5. ASSUME NEW c \in owned, NEW o \in Ops, ClientEnqueue(c, o)
      PROVE  RingInv'
  <2>1. Distance(sqHead, tail) + 1 < Depth
    BY Counts, SlotFacts DEF InUse
  <2>2. /\ tail' = Succ(tail)
        /\ owned' = owned \ {c}
        /\ UNCHANGED <<stack, aborted, sqdb, head, phase, cqdb, ctrlVars>>
    BY <1>5 DEF ClientEnqueue, Enqueue
  <2>3. Distance(sqHead, Succ(tail)) = Distance(sqHead, tail) + 1
    BY <1>2, <2>1, SpanGrows
  <2>4. Cardinality(owned') = Cardinality(owned) - 1
    BY <2>2, Counts, FS_RemoveElement
  <2>5. RingsFit'
    <3>1. InUse' = Cardinality(owned') + Distance(sqHead, Succ(tail))
                       + Cardinality(exec) + Distance(head, cqTail)
      BY <2>2 DEF InUse, ctrlVars, Distance
    <3>2. InUse' = InUse
      BY <2>3, <2>4, <3>1, Counts DEF InUse
    <3>. QED
      BY <2>2, <3>2 DEF RingInv, RingsFit, Outstanding, ctrlVars
  <2>6. Doorbells'
    <3>1. /\ Distance(sqHead, sqdb)' = Distance(sqHead, sqdb)
          /\ Distance(sqHead, tail)' = Distance(sqHead, Succ(tail))
      BY <2>2 DEF Distance, ctrlVars
    <3>. QED
      BY <1>2, <2>2, <2>3, <3>1, Counts, SlotFacts DEF Doorbells
  <2>7. PhaseTags'
    BY <2>2 DEF RingInv, PhaseTags, ctrlVars
  <2>8. NoAbort'
    BY <2>2 DEF RingInv, NoAbort
  <2>. QED
    BY <1>1, <2>5, <2>6, <2>7, <2>8 DEF RingInv
<1>6. CASE SqdbUpdate
  <2>1. /\ sqdb' = tail
        /\ UNCHANGED <<poolVars, tail, head, phase, cqdb, ctrlVars>>
    BY <1>6 DEF SqdbUpdate
  <2>2. RingsFit'
    BY <2>1 DEF RingInv, RingsFit, InUse, Outstanding, Distance, poolVars, ctrlVars
  <2>3. Doorbells'
    BY <1>2, <2>1, SlotFacts DEF RingInv, Doorbells, Distance, ctrlVars, Slots
  <2>4. PhaseTags'
    BY <2>1 DEF RingInv, PhaseTags, ctrlVars
  <2>5. NoAbort'
    BY <2>1 DEF RingInv, NoAbort, poolVars
  <2>. QED
    BY <1>1, <2>2, <2>3, <2>4, <2>5 DEF RingInv
<1>7. CASE ReapCpl
  <2>1. head # cqTail
    BY <1>7, PhaseTest DEF ReapCpl, RingInv
  <2>2. /\ head' = Succ(head)
        /\ cqdb' = head'
        /\ phase' = IF head + 1 = Depth THEN 1 - phase ELSE phase
        /\ owned' = owned \cup {cq[head].cid}
        /\ UNCHANGED <<stack, user, aborted, sq, tail, tailLast, sqdb, ctrlVars>>
    BY <1>2, <1>7, SuccCases, SlotFacts DEF ReapCpl, Slots
  <2>3. Distance(Succ(head), cqTail) = Distance(head, cqTail) - 1
    BY <1>2, <2>1, SpanShrinks
  <2>4. Cardinality(owned') <= Cardinality(owned) + 1 /\ Cardinality(owned') \in Nat
    BY <2>2, Counts, AddOne
  <2>5. RingsFit'
    <3>1. InUse' = Cardinality(owned') + Distance(sqHead, tail)
                       + Cardinality(exec) + Distance(Succ(head), cqTail)
      BY <2>2 DEF InUse, ctrlVars, Distance
    <3>2. InUse' <= InUse
      BY <2>3, <2>4, <3>1, Counts DEF InUse
    <3>3. InUse' \in Int /\ InUse \in Int
      BY <2>3, <2>4, <3>1, Counts DEF InUse
    <3>4. Outstanding' = Outstanding /\ Outstanding \in Int
      BY <2>2, Counts, SlotFacts DEF Outstanding
    <3>. QED
      BY <2>2, <3>2, <3>3, <3>4, SlotFacts DEF RingInv, RingsFit, ctrlVars
  <2>6. Doorbells'
    BY <2>2 DEF RingInv, Doorbells, Distance, ctrlVars
  <2>7. PhaseTags'
    BY <1>7, ReapPhaseTags DEF RingInv
  <2>8. NoAbort'
    BY <2>2 DEF RingInv, NoAbort
  <2>. QED
    BY <1>1, <2>5, <2>6, <2>7, <2>8 DEF RingInv
<1>8. CASE Fetch
  <2>1. /\ sqHead # sqdb
        /\ sqHead' = Succ(sqHead)
        /\ exec' = exec \cup {sq[sqHead]}
        /\ UNCHANGED <<poolVars, hostVars, cq, cqTail, cqPhase>>
    BY <1>8 DEF Fetch
  <2>2. Distance(Succ(sqHead), sqdb) = Distance(sqHead, sqdb) - 1
    BY <1>2, <2>1, SpanShrinks
  <2>3. sqHead # tail
    <3>1. Distance(sqHead, sqdb) # 0
      BY <1>2, <2>1, DistanceBounds
    <3>2. Distance(sqHead, tail) # 0
      BY <3>1, Counts, SlotFacts
    <3>. QED
      BY <1>2, <3>2, DistanceBounds
  <2>4. Distance(Succ(sqHead), tail) = Distance(sqHead, tail) - 1
    BY <1>2, <2>3, SpanShrinks
  <2>5. /\ IsFiniteSet(exec')
        /\ Cardinality(exec') <= Cardinality(exec) + 1 /\ Cardinality(exec') \in Nat
    BY <2>1, Counts, AddOne
  <2>6. RingsFit'
    <3>1. InUse' = Cardinality(owned) + Distance(Succ(sqHead), tail)
                       + Cardinality(exec') + Distance(head, cqTail)
      BY <2>1 DEF InUse, poolVars, hostVars, Distance
    <3>2. InUse' <= InUse /\ InUse' \in Int /\ InUse \in Int
      BY <2>4, <2>5, <3>1, Counts DEF InUse
    <3>3. Outstanding' = Outstanding /\ Outstanding \in Int
      BY <2>1, Counts, SlotFacts DEF Outstanding, poolVars
    <3>. QED
      BY <2>5, <3>2, <3>3, SlotFacts DEF RingInv, RingsFit
  <2>7. Doorbells'
    <3>1. /\ Distance(sqHead, sqdb)' = Distance(Succ(sqHead), sqdb)
          /\ Distance(sqHead, tail)' = Distance(Succ(sqHead), tail)
      BY <2>1 DEF Distance, hostVars
    <3>. QED
      BY <1>2, <2>1, <2>2, <2>4, <3>1, Counts, SlotFacts DEF Doorbells, hostVars
  <2>8. PhaseTags'
    BY <2>1 DEF RingInv, PhaseTags, hostVars
  <2>9. NoAbort'
    BY <2>1 DEF RingInv, NoAbort, poolVars
  <2>. QED
    BY <1>1, <2>6, <2>7, <2>8, <2>9 DEF RingInv
<1>9. ASSUME NEW x \in exec, Post(x)
      PROVE  RingInv'
  <2>1. /\ cq' = [cq EXCEPT ![cqTail] =
                    [cid |-> x.cid, op |-> x.op, phase |-> cqPhase]]
        /\ exec' = exec \ {x}
        /\ cqTail' = Succ(cqTail)
        /\ cqPhase' = IF cqTail + 1 = Depth THEN 1 - cqPhase ELSE cqPhase
        /\ UNCHANGED <<poolVars, hostVars, sqHead>>
    BY <1>9 DEF Post
  <2>2. Distance(head, cqTail) + 1 < Depth
    BY Counts, SlotFacts DEF InUse
  <2>3. Distance(head, Succ(cqTail)) = Distance(head, cqTail) + 1
    BY <1>2, <2>2, SpanGrows
  <2>4. IsFiniteSet(exec') /\ Cardinality(exec') = Cardinality(exec) - 1
    BY <2>1, Counts, FS_RemoveElement
  <2>5. RingsFit'
    <3>1. InUse' = Cardinality(owned) + Distance(sqHead, tail)
                       + Cardinality(exec') + Distance(head, Succ(cqTail))
      BY <2>1 DEF InUse, poolVars, hostVars, Distance
    <3>2. InUse' = InUse
      BY <2>3, <2>4, <3>1, Counts DEF InUse
    <3>. QED
      BY <2>1, <2>4, <3>2 DEF RingInv, RingsFit, Outstanding, poolVars
  <2>6. Doorbells'
    BY <2>1 DEF RingInv, Doorbells, Distance, hostVars
  <2>7. PhaseTags'
    BY <1>9, <2>2, PostPhaseTags DEF RingInv
  <2>8. NoAbort'
    BY <2>1 DEF RingInv, NoAbort, poolVars
  <2>. QED
    BY <1>1, <2>5, <2>6, <2>7, <2>8 DEF RingInv
<1>10. CASE UNCHANGED vars
  <2>1. RingsFit'
    BY <1>10 DEF RingInv, RingsFit, InUse, Outstanding, Distance,
                 vars, poolVars, hostVars, ctrlVars
  <2>2. Doorbells' /\ PhaseTags'
    BY <1>10 DEF RingInv, Doorbells, PhaseTags, Distance, vars, hostVars, ctrlVars
  <2>3. NoAbort'
    BY <1>10 DEF RingInv, NoAbort, vars, poolVars
  <2>. QED
    BY <1>1, <2>1, <2>2, <2>3 DEF RingInv
<1>. QED
  BY <1>3, <1>4, <1>5, <1>6, <1>7, <1>8, <1>9, <1>10 DEF Next, Host, Controller

LEMMA RingInvariant == Spec => []RingInv
BY RingInit, RingStep, PTL DEF Spec

-----------------------------------------------------------------------------
\* A completion is recognised when it is there and not before, in every lap.
THEOREM PhaseTagCorrect == Spec => []PhaseTagExact
<1>1. RingInv => PhaseTagExact
  BY PhaseTest DEF RingInv, PhaseTagExact
<1>. QED
  BY <1>1, RingInvariant, PTL

\* The asserts of the request pool hold for a caller within QueueLimit.
THEOREM PoolNeverAborts == Spec => []NoAbort
<1>1. RingInv => NoAbort
  BY DEF RingInv
<1>. QED
  BY <1>1, RingInvariant, PTL

\* Only the steps that advance tail and cqTail write the rings.
LEMMA EntriesKept ==
    ASSUME RingInv, [Next]_vars
    PROVE  /\ sqHead' = sqHead =>
                /\ Unfetched \subseteq Unfetched'
                /\ \A i \in Unfetched : sq'[i] = sq[i]
           /\ head' = head =>
                /\ Unreaped \subseteq Unreaped'
                /\ \A i \in Unreaped : cq'[i] = cq[i]
<1> DEFINE SqKept == /\ Unfetched \subseteq Unfetched'
                     /\ \A i \in Unfetched : sq'[i] = sq[i]
           CqKept == /\ Unreaped \subseteq Unreaped'
                     /\ \A i \in Unreaped : cq'[i] = cq[i]
<1>1. /\ head \in Slots /\ cqTail \in Slots /\ sqHead \in Slots /\ tail \in Slots
      /\ sq \in [Slots -> Commands]
      /\ cq \in [Slots -> [cid : Cids, op : Ops \cup {NoOp}, phase : {0, 1}]]
  BY DEF RingInv, TypeOK
<1>2. UNCHANGED <<sq, sqHead, tail>> => SqKept
  BY DEF Unfetched, Span, Between
<1>3. UNCHANGED <<cq, head, cqTail>> => CqKept
  BY DEF Unreaped, Span, Between
<1>4. CASE ClientAlloc \/ (\E c \in owned : ClientFree(c)) \/ SqdbUpdate
  <2>1. UNCHANGED <<sq, sqHead, tail, cq, head, cqTail>>
    BY <1>4 DEF ClientAlloc, ClientFree, SqdbUpdate, hostVars, ctrlVars
  <2>. QED
    BY <1>2, <1>3, <2>1
<1>5. ASSUME NEW c \in owned, NEW o \in Ops, ClientEnqueue(c, o)
      PROVE  SqKept /\ CqKept
  <2>1. Distance(sqHead, tail) + 1 < Depth
    BY Counts, SlotFacts DEF InUse
  <2>2. /\ Span(sqHead, Succ(tail)) = Span(sqHead, tail) \cup {tail}
        /\ tail \notin Span(sqHead, tail)
    BY <1>1, <2>1, SpanGrows
  <2>3. /\ sq' = [sq EXCEPT ![tail] = [cid |-> c, op |-> o]]
        /\ tail' = Succ(tail)
        /\ UNCHANGED <<cq, sqHead, head, cqTail>>
    BY <1>5 DEF ClientEnqueue, Enqueue, ctrlVars
  <2>4. Unfetched' = Span(sqHead, Succ(tail))
    BY <2>3 DEF Unfetched, Span, Between
  <2>5. \A i \in Unfetched : i # tail /\ i \in Slots
    BY <2>2 DEF Unfetched, Span
  <2>6. SqKept
    BY <1>1, <2>2, <2>3, <2>4, <2>5 DEF Unfetched
  <2>. QED
    BY <1>3, <2>3, <2>6
<1>6. CASE ReapCpl
  <2>1. head' # head
    BY <1>1, <1>6, SlotFacts DEF ReapCpl, Slots
  <2>2. UNCHANGED <<sq, sqHead, tail>>
    BY <1>6 DEF ReapCpl, ctrlVars
  <2>. QED
    BY <1>2, <2>1, <2>2
<1>7. CASE Fetch
  <2>1. sqHead' # sqHead
    BY <1>1, <1>7, SuccCases, SlotFacts DEF Fetch, Slots
  <2>2. UNCHANGED <<cq, head, cqTail>>
    BY <1>7 DEF Fetch, hostVars
  <2>. QED
    BY <1>3, <2>1, <2>2
<1>8. ASSUME NEW x \in exec, Post(x)
      PROVE  SqKept /\ CqKept
  <2>1. Distance(head, cqTail) + 1 < Depth
    BY Counts, SlotFacts DEF InUse
  <2>2. /\ Span(head, Succ(cqTail)) = Span(head, cqTail) \cup {cqTail}
        /\ cqTail \notin Span(head, cqTail)
    BY <1>1, <2>1, SpanGrows
  <2>3. /\ cq' = [cq EXCEPT ![cqTail] =
                    [cid |-> x.cid, op |-> x.op, phase |-> cqPhase]]
        /\ cqTail' = Succ(cqTail)
        /\ UNCHANGED <<sq, sqHead, tail, head>>
    BY <1>8 DEF Post, hostVars
  <2>4. Unreaped' = Span(head, Succ(cqTail))
    BY <2>3 DEF Unreaped, Span, Between
  <2>5. \A i \in Unreaped : i # cqTail /\ i \in Slots
    BY <2>2 DEF Unreaped, Span
  <2>6. CqKept
    BY <1>1, <2>2, <2>3, <2>4, <2>5 DEF Unreaped
  <2>. QED
    BY <1>2, <2>3, <2>6
<1>9. CASE UNCHANGED vars
  BY <1>2, <1>3, <1>9 DEF vars, hostVars, ctrlVars
<1>. QED
  BY <1>4, <1>5, <1>6, <1>7, <1>8, <1>9 DEF Next, Host, Controller

\* Nothing in a ring is overwritten or skipped by a full lap.
THEOREM RingsKeepEntriesCorrect == Spec => RingsKeepEntries
<1>1. RingInv /\ [Next]_vars =>
        [/\ sqHead' = sqHead =>
              /\ Unfetched \subseteq Unfetched'
              /\ \A i \in Unfetched : sq'[i] = sq[i]
         /\ head' = head =>
              /\ Unreaped \subseteq Unreaped'
              /\ \A i \in Unreaped : cq'[i] = cq[i]]_vars
  BY EntriesKept
<1>. QED
  BY <1>1, RingInvariant, PTL DEF Spec, RingsKeepEntries

-----------------------------------------------------------------------------
(***************************************************************************)
(* The freelist.                                                           *)
(***************************************************************************)
LEMMA FreelistRange ==
    ASSUME NEW S, NEW s \in Seq(S)
    PROVE  /\ DOMAIN s = 1 .. Len(s)
           /\ \A i \in 1 .. Len(s) : s[i] \in Range(s)
           /\ \A x \in Range(s) : \E i \in 1 .. Len(s) : s[i] = x
<1>1. DOMAIN s = 1 .. Len(s)
  BY LenProperties
<1>2. \A i \in 1 .. Len(s) : s[i] \in Range(s)
  BY <1>1 DEF Range
<1>3. \A x \in Range(s) : \E i \in 1 .. Len(s) : s[i] = x
  BY <1>1 DEF Range
<1>. QED
  BY <1>1, <1>2, <1>3

\* nvme_request_alloc takes one cid off and keeps the others.
LEMMA FreelistPops ==
    ASSUME NEW S, NEW s \in Seq(S), s # <<>>, IsInjective(s)
    PROVE  /\ IsInjective(SubSeq(s, 1, Len(s) - 1))
           /\ Range(SubSeq(s, 1, Len(s) - 1)) = Range(s) \ {s[Len(s)]}
           /\ s[Len(s)] \in Range(s)
<1> DEFINE t == SubSeq(s, 1, Len(s) - 1)
<1>1. /\ Len(s) \in Nat \ {0}
      /\ t \in Seq(S) /\ Len(t) = Len(s) - 1
      /\ \A i \in 1 .. Len(s) - 1 : t[i] = s[i]
  BY Popped
<1> HIDE DEF t
<1>2. /\ DOMAIN s = 1 .. Len(s)
      /\ \A i \in 1 .. Len(s) : s[i] \in Range(s)
      /\ \A x \in Range(s) : \E i \in 1 .. Len(s) : s[i] = x
  BY FreelistRange
<1>3. /\ DOMAIN t = 1 .. Len(t)
      /\ \A i \in 1 .. Len(t) : t[i] \in Range(t)
      /\ \A x \in Range(t) : \E i \in 1 .. Len(t) : t[i] = x
  BY <1>1, FreelistRange
<1>4. \A i, j \in 1 .. Len(s) : s[i] = s[j] => i = j
  BY <1>2 DEF IsInjective
<1>5. /\ 1 .. Len(s) = (1 .. Len(t)) \cup {Len(s)}
      /\ Len(s) \notin 1 .. Len(t)
      /\ \A i \in 1 .. Len(t) : t[i] = s[i]
  BY <1>1
<1>6. IsInjective(t)
  BY <1>3, <1>4, <1>5 DEF IsInjective
<1>7. \A x : x \in Range(t) <=> x \in Range(s) /\ x # s[Len(s)]
  BY <1>2, <1>3, <1>4, <1>5
<1>8. s[Len(s)] \in Range(s)
  BY <1>2, <1>5
<1>. QED
  BY <1>6, <1>7, <1>8 DEF t

\* nvme_request_free puts one cid on top.
LEMMA FreelistPushes ==
    ASSUME NEW S, NEW s \in Seq(S), NEW e \in S, IsInjective(s), e \notin Range(s)
    PROVE  /\ IsInjective(Append(s, e))
           /\ Range(Append(s, e)) = Range(s) \cup {e}
<1> DEFINE t == Append(s, e)
<1>1. /\ Len(s) \in Nat
      /\ t \in Seq(S) /\ Len(t) = Len(s) + 1
      /\ \A i \in 1 .. Len(s) : t[i] = s[i]
      /\ t[Len(s) + 1] = e
  OBVIOUS
<1> HIDE DEF t
<1>2. /\ DOMAIN s = 1 .. Len(s)
      /\ \A i \in 1 .. Len(s) : s[i] \in Range(s)
      /\ \A x \in Range(s) : \E i \in 1 .. Len(s) : s[i] = x
  BY FreelistRange
<1>3. /\ DOMAIN t = 1 .. Len(t)
      /\ \A i \in 1 .. Len(t) : t[i] \in Range(t)
      /\ \A x \in Range(t) : \E i \in 1 .. Len(t) : t[i] = x
  BY <1>1, FreelistRange
<1>4. \A i, j \in 1 .. Len(s) : s[i] = s[j] => i = j
  BY <1>2 DEF IsInjective
<1>5. 1 .. Len(t) = (1 .. Len(s)) \cup {Len(t)}
  BY <1>1
<1>6. t[Len(t)] = e /\ \A i \in 1 .. Len(s) : t[i] = s[i] /\ t[i] # e
  BY <1>1, <1>2
<1>7. IsInjective(t)
  BY <1>3, <1>4, <1>5, <1>6 DEF IsInjective
<1>8. \A x : x \in Range(t) <=> x \in Range(s) \/ x = e
  BY <1>2, <1>3, <1>5, <1>6
<1>. QED
  BY <1>7, <1>8 DEF t

-----------------------------------------------------------------------------
(***************************************************************************)
(* The rings.                                                              *)
(***************************************************************************)
CidsIn(r, a, b) == {r[i].cid : i \in Span(a, b)}

Distinct(r, a, b) == \A i, j \in Span(a, b) : r[i].cid = r[j].cid => i = j

\* Writing an entry behind the last one of a ring that is not full.
LEMMA RingPuts ==
    ASSUME NEW r, NEW q,
           NEW a \in Slots, NEW b \in Slots, Distance(a, b) + 1 < Depth,
           \A i \in Slots \ {b} : q[i] = r[i],
           Distinct(r, a, b), q[b].cid \notin CidsIn(r, a, b)
    PROVE  /\ CidsIn(q, a, Succ(b)) = CidsIn(r, a, b) \cup {q[b].cid}
           /\ Distinct(q, a, Succ(b))
<1>1. /\ Span(a, Succ(b)) = Span(a, b) \cup {b}
      /\ b \notin Span(a, b)
  BY SpanGrows
<1>2. \A i \in Span(a, b) : q[i] = r[i]
  BY <1>1 DEF Span
<1>. QED
  BY <1>1, <1>2 DEF CidsIn, Distinct

\* Passing the first entry of a ring that is not empty.
LEMMA RingTakes ==
    ASSUME NEW r, NEW a \in Slots, NEW b \in Slots, a # b, Distinct(r, a, b)
    PROVE  /\ CidsIn(r, Succ(a), b) = CidsIn(r, a, b) \ {r[a].cid}
           /\ r[a].cid \in CidsIn(r, a, b)
           /\ Distinct(r, Succ(a), b)
<1>1. Span(Succ(a), b) = Span(a, b) \ {a} /\ a \in Span(a, b)
  BY SpanShrinks
<1>. QED
  BY <1>1 DEF CidsIn, Distinct

-----------------------------------------------------------------------------
(***************************************************************************)
(* CidInv is inductive, given RingInv.                                     *)
(***************************************************************************)
CqEntries == [cid : Cids, op : Ops \cup {NoOp}, phase : {0, 1}]

\* The five places in terms of the operators above.
LEMMA Places ==
    /\ Queued = CidsIn(sq, sqHead, tail)
    /\ Posted = CidsIn(cq, head, cqTail)
    /\ NoCidTwice <=>
          /\ IsInjective(stack)
          /\ Distinct(sq, sqHead, tail)
          /\ \A x, y \in exec : x.cid = y.cid => x = y
          /\ Distinct(cq, head, cqTail)
BY DEF Queued, Posted, Unfetched, Unreaped, CidsIn, NoCidTwice, Distinct

LEMMA PlacesNext ==
    /\ Queued' = CidsIn(sq', sqHead', tail')
    /\ Posted' = CidsIn(cq', head', cqTail')
    /\ NoCidTwice' <=>
          /\ IsInjective(stack')
          /\ Distinct(sq', sqHead', tail')
          /\ \A x, y \in exec' : x.cid = y.cid => x = y
          /\ Distinct(cq', head', cqTail')
BY DEF Queued, Posted, Unfetched, Unreaped, CidsIn, NoCidTwice, Distinct

LEMMA CidInit == Init => CidInv
<1>. SUFFICES ASSUME Init PROVE CidInv
  OBVIOUS
<1>1. /\ stack = [k \in 1 .. PoolLen |-> PoolLen - k]
      /\ owned = {} /\ exec = {}
  BY DEF Init, PoolInit, ControllerInit
<1>2. Unfetched = {} /\ Unreaped = {}
  BY SlotFacts
     DEF Init, QpairInit, ControllerInit, Unfetched, Unreaped, Span, Between, Slots
<1>3. Free = Cids
  <2>1. \A c \in Cids : PoolLen - c \in 1 .. PoolLen /\ PoolLen - (PoolLen - c) = c
    BY SlotFacts DEF Cids
  <2>2. \A k \in 1 .. PoolLen : PoolLen - k \in Cids
    BY SlotFacts DEF Cids
  <2>3. DOMAIN stack = 1 .. PoolLen
    BY <1>1
  <2>4. Free \subseteq Cids
    BY <1>1, <2>2, <2>3 DEF Free, Range
  <2>5. \A c \in Cids : stack[PoolLen - c] = c
    BY <1>1, <2>1
  <2>6. Cids \subseteq Free
    BY <2>1, <2>3, <2>5 DEF Free, Range
  <2>. QED
    BY <2>4, <2>6
<1>4. IsInjective(stack)
  BY <1>1, SlotFacts DEF IsInjective
<1>. QED
  BY <1>1, <1>2, <1>3, <1>4
     DEF CidInv, CidsConserved, NoCidTwice, PlacesDisjoint, OpsMatch,
         CompletionMatchesRequest, InFlight, Queued, Executing, Posted

\* What the type invariant says of the parts used below.
LEMMA CidTypes ==
    ASSUME TypeOK
    PROVE  /\ stack \in Seq(Cids)
           /\ user \in [Cids -> Ops \cup {NoOp}]
           /\ owned \in SUBSET Cids
           /\ sq \in [Slots -> Commands]
           /\ cq \in [Slots -> CqEntries]
           /\ exec \in SUBSET Commands
           /\ sqHead \in Slots /\ tail \in Slots
           /\ head \in Slots /\ cqTail \in Slots
BY DEF TypeOK, PoolTypeOK, CqEntries

\* alloc: from the freelist to the caller.
LEMMA AllocKeepsCids ==
    ASSUME RingInv, CidInv, ClientAlloc
    PROVE  CidInv'
<1>1. stack \in Seq(Cids) /\ stack # <<>> /\ IsInjective(stack)
  <2>1. Len(stack) >= 1
    BY Counts, SlotFacts DEF ClientAlloc, Outstanding
  <2>. QED
    BY <2>1, CidTypes DEF RingInv, CidInv, CidsConserved, NoCidTwice
<1>2. /\ stack' = SubSeq(stack, 1, Len(stack) - 1)
      /\ owned' = owned \cup {Top}
      /\ UNCHANGED <<user, sq, sqHead, tail, exec, cq, head, cqTail>>
  BY <1>1 DEF ClientAlloc, NvmeRequestAlloc, hostVars, ctrlVars
<1>3. IsInjective(stack') /\ Free' = Free \ {Top} /\ Top \in Free
  BY <1>1, <1>2, FreelistPops DEF Free, Top
<1>4. Queued' = Queued /\ Executing' = Executing /\ Posted' = Posted
  BY <1>2, Places, PlacesNext DEF Executing
<1>5. NoCidTwice'
  BY <1>2, <1>3, Places, PlacesNext DEF CidInv, CidsConserved
<1>6. PlacesDisjoint' /\ (Free \cup owned \cup InFlight = Cids)'
  BY <1>2, <1>3, <1>4 DEF CidInv, CidsConserved, PlacesDisjoint, InFlight
<1>7. OpsMatch'
  BY <1>2 DEF CidInv, OpsMatch, CompletionMatchesRequest, Unfetched, Unreaped
<1>. QED
  BY <1>5, <1>6, <1>7 DEF CidInv, CidsConserved

\* free: from the caller to the freelist.
LEMMA FreeKeepsCids ==
    ASSUME RingInv, CidInv, NEW c \in owned, ClientFree(c)
    PROVE  CidInv'
<1>1. /\ stack \in Seq(Cids) /\ IsInjective(stack)
      /\ c \in Cids /\ c \notin Free
  BY CidTypes DEF RingInv, CidInv, CidsConserved, NoCidTwice, PlacesDisjoint
<1>2. Len(stack) # PoolLen
  BY Counts, SlotFacts DEF RingInv, RingsFit, InUse, Outstanding
<1>3. /\ stack' = Append(stack, c)
      /\ owned' = owned \ {c}
      /\ UNCHANGED <<user, sq, sqHead, tail, exec, cq, head, cqTail>>
  BY <1>2 DEF ClientFree, NvmeRequestFree, hostVars, ctrlVars
<1>4. IsInjective(stack') /\ Free' = Free \cup {c}
  BY <1>1, <1>3, FreelistPushes DEF Free
<1>5. Queued' = Queued /\ Executing' = Executing /\ Posted' = Posted
  BY <1>3, Places, PlacesNext DEF Executing
<1>6. NoCidTwice'
  BY <1>3, <1>4, Places, PlacesNext DEF CidInv, CidsConserved
<1>7. PlacesDisjoint' /\ (Free \cup owned \cup InFlight = Cids)'
  BY <1>3, <1>4, <1>5 DEF CidInv, CidsConserved, PlacesDisjoint, InFlight
<1>8. OpsMatch'
  BY <1>3 DEF CidInv, OpsMatch, CompletionMatchesRequest, Unfetched, Unreaped
<1>. QED
  BY <1>6, <1>7, <1>8 DEF CidInv, CidsConserved

\* enqueue: from the caller into the submission ring.
LEMMA EnqueueKeepsCids ==
    ASSUME RingInv, CidInv, NEW c \in owned, NEW o \in Ops, ClientEnqueue(c, o)
    PROVE  CidInv'
<1> DEFINE e == [cid |-> c, op |-> o]
<1>1. /\ sq' = [sq EXCEPT ![tail] = e]
      /\ tail' = Succ(tail)
      /\ user' = [user EXCEPT ![c] = o]
      /\ owned' = owned \ {c}
      /\ UNCHANGED <<stack, sqHead, exec, cq, head, cqTail>>
  BY DEF ClientEnqueue, Enqueue, ctrlVars
<1>2. Distance(sqHead, tail) + 1 < Depth
  BY Counts, SlotFacts DEF InUse
<1>3. c \in Cids /\ c \notin Free /\ c \notin InFlight
  BY CidTypes DEF RingInv, CidInv, CidsConserved, PlacesDisjoint
<1>4. Distinct(sq, sqHead, tail) /\ e.cid \notin CidsIn(sq, sqHead, tail)
  BY <1>3, Places DEF CidInv, CidsConserved, InFlight
<1>5. /\ CidsIn(sq', sqHead', tail') = CidsIn(sq, sqHead, tail) \cup {e.cid}
      /\ Distinct(sq', sqHead', tail')
  <2>1. sq'[tail] = e /\ \A i \in Slots \ {tail} : sq'[i] = sq[i]
    BY <1>1, CidTypes DEF RingInv
  <2> HIDE DEF e
  <2>2. sqHead \in Slots /\ tail \in Slots
    BY CidTypes DEF RingInv
  <2>3. Distinct(sq, sqHead, tail) /\ sq'[tail].cid \notin CidsIn(sq, sqHead, tail)
    BY <1>4, <2>1
  <2>4. /\ CidsIn(sq', sqHead, Succ(tail)) = CidsIn(sq, sqHead, tail) \cup {sq'[tail].cid}
        /\ Distinct(sq', sqHead, Succ(tail))
    BY ONLY <1>2, <2>1, <2>2, <2>3, RingPuts
  <2>. QED
    BY <1>1, <2>1, <2>4
<1>6. Queued' = Queued \cup {c} /\ Executing' = Executing /\ Posted' = Posted
  BY <1>1, <1>5, Places, PlacesNext DEF Executing
<1>7. Free' = Free
  BY <1>1 DEF Free
<1>8. NoCidTwice'
  BY <1>1, <1>5, Places, PlacesNext DEF CidInv, CidsConserved
<1>9. PlacesDisjoint' /\ (Free \cup owned \cup InFlight = Cids)'
  BY <1>1, <1>3, <1>6, <1>7
     DEF CidInv, CidsConserved, PlacesDisjoint, InFlight
<1>10. OpsMatch'
  <2>1. \A d \in InFlight : d \in Cids /\ user'[d] = user[d]
    BY <1>1, <1>3, CidTypes DEF RingInv, CidInv, CidsConserved
  <2>2. user'[c] = o
    BY <1>1, <1>3, CidTypes DEF RingInv
  <2>3. /\ Unfetched' = Unfetched \cup {tail} /\ tail \notin Unfetched
        /\ Unfetched \subseteq Slots
    BY <1>1, <1>2, CidTypes, SpanGrows DEF RingInv, Unfetched, Span
  <2>4. sq'[tail] = e /\ \A i \in Unfetched : sq'[i] = sq[i]
    BY <1>1, <2>3, CidTypes DEF RingInv
  <2>5. \A i \in Unfetched' : sq'[i].op = user'[sq'[i].cid]
    <3>1. \A i \in Unfetched : sq[i].cid \in InFlight /\ sq[i].op = user[sq[i].cid]
      BY DEF CidInv, OpsMatch, InFlight, Queued
    <3>. QED
      BY <2>1, <2>2, <2>3, <2>4, <3>1
  <2>6. \A x \in exec' : x.op = user'[x.cid]
    <3>1. \A x \in exec : x.cid \in InFlight /\ x.op = user[x.cid]
      BY DEF CidInv, OpsMatch, InFlight, Executing
    <3>. QED
      BY <1>1, <2>1, <3>1
  <2>7. \A i \in Unreaped' : cq'[i].op = user'[cq'[i].cid]
    <3>1. \A i \in Unreaped : cq[i].cid \in InFlight /\ cq[i].op = user[cq[i].cid]
      BY DEF CidInv, OpsMatch, CompletionMatchesRequest, InFlight, Posted
    <3>2. Unreaped' = Unreaped
      BY <1>1 DEF Unreaped
    <3>. QED
      BY <1>1, <2>1, <3>1, <3>2
  <2>. QED
    BY <2>5, <2>6, <2>7 DEF OpsMatch, CompletionMatchesRequest
<1>. QED
  BY <1>8, <1>9, <1>10 DEF CidInv, CidsConserved

\* reap: from the completion ring back to the caller.
LEMMA ReapKeepsCids ==
    ASSUME RingInv, CidInv, ReapCpl
    PROVE  CidInv'
<1> DEFINE c == cq[head].cid
<1>1. head # cqTail
  BY PhaseTest DEF ReapCpl, RingInv
<1>2. head \in Slots /\ head' = Succ(head)
  BY CidTypes, SuccCases, SlotFacts DEF RingInv, ReapCpl, Slots
<1>3. /\ owned' = owned \cup {c}
      /\ UNCHANGED <<stack, user, sq, sqHead, tail, exec, cq, cqTail>>
  BY DEF ReapCpl, ctrlVars
<1>4. /\ CidsIn(cq', head', cqTail') = CidsIn(cq, head, cqTail) \ {c}
      /\ c \in CidsIn(cq, head, cqTail)
      /\ Distinct(cq', head', cqTail')
  <2>1. Distinct(cq, head, cqTail)
    BY Places DEF CidInv, CidsConserved
  <2>. QED
    BY <1>1, <1>2, <1>3, <2>1, CidTypes, RingTakes DEF RingInv
<1>5. /\ Queued' = Queued /\ Executing' = Executing
      /\ Posted' = Posted \ {c} /\ c \in Posted
  BY <1>3, <1>4, Places, PlacesNext DEF Executing
<1>6. Free' = Free
  BY <1>3 DEF Free
<1>7. NoCidTwice'
  BY <1>3, <1>4, Places, PlacesNext DEF CidInv, CidsConserved
<1>8. PlacesDisjoint' /\ (Free \cup owned \cup InFlight = Cids)'
  BY <1>3, <1>5, <1>6 DEF CidInv, CidsConserved, PlacesDisjoint, InFlight
<1>9. OpsMatch'
  <2>1. Unfetched' = Unfetched /\ Unreaped' \subseteq Unreaped
    BY <1>1, <1>2, <1>3, CidTypes, SpanShrinks DEF RingInv, Unfetched, Unreaped
  <2>. QED
    BY <1>3, <2>1 DEF CidInv, OpsMatch, CompletionMatchesRequest
<1>. QED
  BY <1>7, <1>8, <1>9 DEF CidInv, CidsConserved

\* fetch: from the submission ring to the controller.
LEMMA FetchKeepsCids ==
    ASSUME RingInv, CidInv, Fetch
    PROVE  CidInv'
<1> DEFINE x == sq[sqHead]
<1>1. /\ sqHead # sqdb
      /\ sqHead' = Succ(sqHead)
      /\ exec' = exec \cup {x}
      /\ UNCHANGED <<stack, user, owned, sq, tail, cq, head, cqTail>>
  BY DEF Fetch, poolVars, hostVars
<1>2. sqHead # tail
  <2>1. sqdb \in Slots /\ sqHead \in Slots /\ tail \in Slots
    BY DEF RingInv, TypeOK
  <2>2. Distance(sqHead, sqdb) # 0
    BY <1>1, <2>1, DistanceBounds
  <2>3. Distance(sqHead, tail) # 0
    BY <2>2, Counts, SlotFacts
  <2>. QED
    BY <2>1, <2>3, DistanceBounds
<1>3. /\ CidsIn(sq', sqHead', tail') = CidsIn(sq, sqHead, tail) \ {x.cid}
      /\ x.cid \in CidsIn(sq, sqHead, tail)
      /\ Distinct(sq', sqHead', tail')
  <2>1. Distinct(sq, sqHead, tail)
    BY Places DEF CidInv, CidsConserved
  <2>. QED
    BY <1>1, <1>2, <2>1, CidTypes, RingTakes DEF RingInv
<1>4. /\ Queued' = Queued \ {x.cid} /\ x.cid \in Queued
      /\ Posted' = Posted
  BY <1>1, <1>3, Places, PlacesNext
<1>5. Executing' = Executing \cup {x.cid} /\ x.cid \notin Executing
  BY <1>1, <1>4 DEF Executing, CidInv, CidsConserved, PlacesDisjoint
<1>6. Free' = Free
  BY <1>1 DEF Free
<1>7. \A y, z \in exec' : y.cid = z.cid => y = z
  <2>1. \A y \in exec : y.cid # x.cid
    BY <1>5 DEF Executing
  <2>2. \A y, z \in exec : y.cid = z.cid => y = z
    BY Places DEF CidInv, CidsConserved
  <2>. QED
    BY <1>1, <2>1, <2>2
<1>8. NoCidTwice'
  BY <1>1, <1>3, <1>7, Places, PlacesNext DEF CidInv, CidsConserved
<1>9. PlacesDisjoint' /\ (Free \cup owned \cup InFlight = Cids)'
  BY <1>1, <1>4, <1>5, <1>6 DEF CidInv, CidsConserved, PlacesDisjoint, InFlight
<1>10. OpsMatch'
  <2>1. /\ Unfetched' \subseteq Unfetched /\ sqHead \in Unfetched
        /\ Unreaped' = Unreaped
    BY <1>1, <1>2, CidTypes, SpanShrinks DEF RingInv, Unfetched, Unreaped
  <2>2. x.op = user[x.cid]
    BY <2>1 DEF CidInv, OpsMatch
  <2>. QED
    BY <1>1, <2>1, <2>2 DEF CidInv, OpsMatch, CompletionMatchesRequest
<1>. QED
  BY <1>8, <1>9, <1>10 DEF CidInv, CidsConserved

\* complete: from the controller into the completion ring.
LEMMA PostKeepsCids ==
    ASSUME RingInv, CidInv, NEW x \in exec, Post(x)
    PROVE  CidInv'
<1> DEFINE e == [cid |-> x.cid, op |-> x.op, phase |-> cqPhase]
<1>1. /\ cq' = [cq EXCEPT ![cqTail] = e]
      /\ exec' = exec \ {x}
      /\ cqTail' = Succ(cqTail)
      /\ UNCHANGED <<stack, user, owned, sq, sqHead, tail, head>>
  BY DEF Post, poolVars, hostVars
<1>2. Distance(head, cqTail) + 1 < Depth
  BY Counts, SlotFacts DEF InUse
<1>3. x.cid \in Executing /\ x.cid \notin Posted
  BY DEF Executing, CidInv, CidsConserved, PlacesDisjoint
<1>4. Distinct(cq, head, cqTail) /\ e.cid \notin CidsIn(cq, head, cqTail)
  BY <1>3, Places DEF CidInv, CidsConserved
<1>5. /\ CidsIn(cq', head', cqTail') = CidsIn(cq, head, cqTail) \cup {e.cid}
      /\ Distinct(cq', head', cqTail')
  <2>1. cq'[cqTail] = e /\ \A i \in Slots \ {cqTail} : cq'[i] = cq[i]
    BY <1>1, CidTypes DEF RingInv
  <2> HIDE DEF e
  <2>2. head \in Slots /\ cqTail \in Slots
    BY CidTypes DEF RingInv
  <2>3. Distinct(cq, head, cqTail) /\ cq'[cqTail].cid \notin CidsIn(cq, head, cqTail)
    BY <1>4, <2>1
  <2>4. /\ CidsIn(cq', head, Succ(cqTail)) = CidsIn(cq, head, cqTail) \cup {cq'[cqTail].cid}
        /\ Distinct(cq', head, Succ(cqTail))
    BY ONLY <1>2, <2>1, <2>2, <2>3, RingPuts
  <2>. QED
    BY <1>1, <2>1, <2>4
<1>6. Queued' = Queued /\ Posted' = Posted \cup {x.cid}
  BY <1>1, <1>5, Places, PlacesNext
<1>7. \A y, z \in exec : y.cid = z.cid => y = z
  BY Places DEF CidInv, CidsConserved
<1>8. Executing' = Executing \ {x.cid}
  BY <1>1, <1>7 DEF Executing
<1>9. Free' = Free
  BY <1>1 DEF Free
<1>10. NoCidTwice'
  BY <1>1, <1>5, <1>7, Places, PlacesNext DEF CidInv, CidsConserved
<1>11. PlacesDisjoint' /\ (Free \cup owned \cup InFlight = Cids)'
  BY <1>1, <1>3, <1>6, <1>8, <1>9
     DEF CidInv, CidsConserved, PlacesDisjoint, InFlight
<1>12. OpsMatch'
  <2>1. /\ Unreaped' = Unreaped \cup {cqTail} /\ cqTail \notin Unreaped
        /\ Unreaped \subseteq Slots
        /\ Unfetched' = Unfetched
    BY <1>1, <1>2, CidTypes, SpanGrows DEF RingInv, Unfetched, Unreaped, Span
  <2>2. cq'[cqTail] = e /\ \A i \in Unreaped : cq'[i] = cq[i]
    BY <1>1, <2>1, CidTypes DEF RingInv
  <2>3. e.cid = x.cid /\ e.op = x.op /\ x.op = user[x.cid]
    BY DEF CidInv, OpsMatch
  <2>4. \A i \in Unreaped' : cq'[i].op = user'[cq'[i].cid]
    BY <1>1, <2>1, <2>2, <2>3 DEF CidInv, OpsMatch, CompletionMatchesRequest
  <2>. QED
    BY <1>1, <2>1, <2>4 DEF CidInv, OpsMatch, CompletionMatchesRequest
<1>. QED
  BY <1>10, <1>11, <1>12 DEF CidInv, CidsConserved

LEMMA CidStep == RingInv /\ CidInv /\ [Next]_vars => CidInv'
<1>. SUFFICES ASSUME RingInv, CidInv, [Next]_vars PROVE CidInv'
  OBVIOUS
<1>1. CASE SqdbUpdate \/ UNCHANGED vars
  <2>1. UNCHANGED <<stack, user, owned, sq, sqHead, tail, exec, cq, head, cqTail>>
    BY <1>1 DEF SqdbUpdate, vars, poolVars, hostVars, ctrlVars
  <2>. QED
    BY <2>1, SMTT(30)
       DEF CidInv, CidsConserved, NoCidTwice, PlacesDisjoint, OpsMatch,
                CompletionMatchesRequest, Free, InFlight, Queued, Executing,
                Posted, Unfetched, Unreaped
<1>. QED
  BY <1>1, AllocKeepsCids, FreeKeepsCids, EnqueueKeepsCids, ReapKeepsCids,
     FetchKeepsCids, PostKeepsCids DEF Next, Host, Controller

LEMMA CidInvariant == Spec => []CidInv
BY CidInit, CidStep, RingInvariant, PTL DEF Spec

\* No cid is lost, handed out twice, or free while a command still bears it.
THEOREM CidsAreConserved == Spec => []CidsConserved
<1>1. CidInv => CidsConserved
  BY DEF CidInv
<1>. QED
  BY <1>1, CidInvariant, PTL

\* The user pointer found through the cid of a completion is the one that was
\* passed in with the command.
THEOREM CompletionsMatch == Spec => []CompletionMatchesRequest
<1>1. CidInv => CompletionMatchesRequest
  BY DEF CidInv, OpsMatch
<1>. QED
  BY <1>1, CidInvariant, PTL
-----------------------------------------------------------------------------
(***************************************************************************)
(* Every step of the queue pair is a step of the command service or leaves *)
(* it unchanged, for every instance: the safety part of ImplementsService. *)
(* First, a ring read from slot a up to slot b as a sequence.              *)
(***************************************************************************)
RingSeq(r, a, b) == [k \in 1 .. Distance(a, b) |-> r[(a + k - 1) % Depth]]

\* Reducing modulo the depth subtracts it at most once.
LEMMA ModWrap ==
    ASSUME NEW n \in Nat, n < 2 * Depth
    PROVE  n % Depth = IF n < Depth THEN n ELSE n - Depth
<1>1. Depth \in Nat \ {0}
  BY SlotFacts
<1>2. CASE n < Depth
  BY <1>1, <1>2
<1>3. CASE n >= Depth
  <2>1. PICK m \in Nat : m = n - Depth
    BY <1>1, <1>3
  <2>2. m < Depth /\ n = m + Depth
    BY <1>1, <2>1
  <2>3. (m + Depth) % Depth = m
    BY <1>1, <2>2
  <2>. QED
    BY <1>1, <1>3, <2>1, <2>2, <2>3
<1>. QED
  BY <1>1, <1>2, <1>3

\* The slot of the k-th entry.
LEMMA EntrySlot ==
    ASSUME NEW a \in Slots, NEW k \in 1 .. Depth
    PROVE  /\ (a + k - 1) % Depth \in Slots
           /\ (a + k - 1) % Depth =
                 IF a + k - 1 < Depth THEN a + k - 1 ELSE a + k - 1 - Depth
<1>1. a + k - 1 \in Nat /\ a + k - 1 < 2 * Depth
  BY SlotFacts DEF Slots
<1>2. (a + k - 1) % Depth =
         IF a + k - 1 < Depth THEN a + k - 1 ELSE a + k - 1 - Depth
  <2>1. PICK n \in Nat : n = a + k - 1
    BY <1>1
  <2>2. n % Depth = IF n < Depth THEN n ELSE n - Depth
    BY <1>1, <2>1, ModWrap
  <2>. QED
    BY <2>1, <2>2, SlotFacts DEF Slots
<1>. QED
  BY <1>2, SlotFacts DEF Slots

\* A ring read as a sequence has the type and the length one expects.
LEMMA RingSeqType ==
    ASSUME NEW S, NEW r, NEW a \in Slots, NEW b \in Slots,
           \A i \in Slots : r[i] \in S
    PROVE  /\ RingSeq(r, a, b) \in Seq(S)
           /\ Len(RingSeq(r, a, b)) = Distance(a, b)
           /\ \A k \in 1 .. Distance(a, b) :
                 RingSeq(r, a, b)[k] = r[(a + k - 1) % Depth]
<1> DEFINE d == Distance(a, b)
<1>1. d \in Nat /\ d <= Depth - 1
  BY DistanceBounds, SlotFacts
<1>2. \A k \in 1 .. d : k \in 1 .. Depth
  BY <1>1, SlotFacts
<1>3. \A k \in 1 .. d : r[(a + k - 1) % Depth] \in S
  BY <1>2, EntrySlot
<1> HIDE DEF d
<1>4. [k \in 1 .. d |-> r[(a + k - 1) % Depth]] \in [1 .. d -> S]
  BY <1>3
<1>5. [k \in 1 .. d |-> r[(a + k - 1) % Depth]] \in Seq(S)
  BY <1>1, <1>4, SeqDef
<1>6. Len([k \in 1 .. d |-> r[(a + k - 1) % Depth]]) = d
  BY <1>1
<1>. QED
  BY <1>5, <1>6 DEF d, RingSeq

\* From a to b there is a slot left over.
Room(a, b) == Distance(a, b) + 1 < Depth

\* Writing behind the last entry appends.
LEMMA RingSeqAppends ==
    ASSUME NEW r, NEW q, NEW a \in Slots, NEW b \in Slots,
           Room(a, b),
           \A i \in Slots : r[i] \in Commands,
           \A i \in Slots : q[i] \in Commands,
           \A i \in Slots : i # b => q[i] = r[i]
    PROVE  RingSeq(q, a, Succ(b)) = Append(RingSeq(r, a, b), q[b])
<1> DEFINE d == Distance(a, b)
           s == RingSeq(r, a, b)
           t == RingSeq(q, a, Succ(b))
           u == Append(s, q[b])
<1>1. d \in Nat /\ d + 1 < Depth
  BY DistanceBounds, SlotFacts DEF Room
<1>2. Succ(b) \in Slots /\ Distance(a, Succ(b)) = d + 1
  BY SuccCases, SpanGrows DEF Room
<1>3. /\ s \in Seq(Commands) /\ Len(s) = d
      /\ \A k \in 1 .. d : s[k] = r[(a + k - 1) % Depth]
  BY RingSeqType
<1>4. /\ t \in Seq(Commands) /\ Len(t) = d + 1
      /\ \A k \in 1 .. d + 1 : t[k] = q[(a + k - 1) % Depth]
  <2>1. \A i \in Slots : q[i] \in Commands
    OBVIOUS
  <2>2. /\ t \in Seq(Commands) /\ Len(t) = Distance(a, Succ(b))
        /\ \A k \in 1 .. Distance(a, Succ(b)) : t[k] = q[(a + k - 1) % Depth]
    BY <1>2, <2>1, RingSeqType
  <2>. QED
    BY <1>2, <2>2
<1>5. \A k \in 1 .. d : (a + k - 1) % Depth \in Slots \ {b}
  <2> TAKE k \in 1 .. d
  <2>1. k \in 1 .. Depth
    BY <1>1, SlotFacts
  <2>2. /\ (a + k - 1) % Depth \in Slots
        /\ (a + k - 1) % Depth =
              IF a + k - 1 < Depth THEN a + k - 1 ELSE a + k - 1 - Depth
    BY <2>1, EntrySlot
  <2>3. (IF a + k - 1 < Depth THEN a + k - 1 ELSE a + k - 1 - Depth) # b
    BY SlotFacts DEF Slots, Distance
  <2>. QED
    BY <2>2, <2>3
<1>6. (a + (d + 1) - 1) % Depth = b
  <2>1. d + 1 \in 1 .. Depth
    BY <1>1, SlotFacts
  <2>2. (a + (d + 1) - 1) % Depth =
          IF a + (d + 1) - 1 < Depth THEN a + (d + 1) - 1
                                     ELSE a + (d + 1) - 1 - Depth
    BY <2>1, EntrySlot
  <2>3. (IF a + (d + 1) - 1 < Depth THEN a + (d + 1) - 1
                                    ELSE a + (d + 1) - 1 - Depth) = b
    BY SlotFacts DEF Slots, Distance
  <2>. QED
    BY <2>2, <2>3
<1> HIDE DEF d, s, t
<1>7. /\ u \in Seq(Commands) /\ Len(u) = d + 1
      /\ \A k \in 1 .. d : u[k] = s[k]
      /\ u[d + 1] = q[b]
  BY <1>1, <1>3
<1> HIDE DEF u
<1>8. \A k \in 1 .. d + 1 : t[k] = u[k]
  <2>1. ASSUME NEW k \in 1 .. d
        PROVE  t[k] = u[k]
    <3>1. k \in 1 .. d + 1
      BY <1>1
    <3>2. t[k] = q[(a + k - 1) % Depth] /\ u[k] = r[(a + k - 1) % Depth]
      BY <1>3, <1>4, <1>7, <3>1
    <3>3. q[(a + k - 1) % Depth] = r[(a + k - 1) % Depth]
      BY <1>5
    <3>. QED
      BY <3>2, <3>3
  <2>2. t[d + 1] = u[d + 1]
    BY <1>1, <1>4, <1>6, <1>7
  <2>3. \A k \in 1 .. d + 1 : k \in 1 .. d \/ k = d + 1
    BY <1>1
  <2>. QED
    BY <2>1, <2>2, <2>3
<1>9. t = u
  BY <1>4, <1>7, <1>8, SeqEqual
<1>. QED
  BY <1>9 DEF t, u, s

\* Passing the first entry takes the head off.
LEMMA RingSeqTail ==
    ASSUME NEW S, NEW r, NEW a \in Slots, NEW b \in Slots, a # b,
           \A i \in Slots : r[i] \in S
    PROVE  /\ RingSeq(r, a, b) # <<>>
           /\ Head(RingSeq(r, a, b)) = r[a]
           /\ Tail(RingSeq(r, a, b)) = RingSeq(r, Succ(a), b)
<1> DEFINE d == Distance(a, b)
           s == RingSeq(r, a, b)
           t == RingSeq(r, Succ(a), b)
<1>1. d \in Nat \ {0} /\ d <= Depth - 1
  BY DistanceBounds, SlotFacts
<1>2. Succ(a) \in Slots /\ Distance(Succ(a), b) = d - 1
  BY SuccCases, SpanShrinks
<1>3. /\ s \in Seq(S) /\ Len(s) = d
      /\ \A k \in 1 .. d : s[k] = r[(a + k - 1) % Depth]
  BY RingSeqType
<1>4. /\ t \in Seq(S) /\ Len(t) = d - 1
      /\ \A k \in 1 .. d - 1 : t[k] = r[(Succ(a) + k - 1) % Depth]
  BY <1>2, RingSeqType
<1>5. \A k \in 1 .. d - 1 : (Succ(a) + k - 1) % Depth = (a + (k + 1) - 1) % Depth
  <2> TAKE k \in 1 .. d - 1
  <2>1. k \in 1 .. Depth /\ k + 1 \in 1 .. Depth
    BY <1>1, SlotFacts
  <2>2. (Succ(a) + k - 1) % Depth =
          IF Succ(a) + k - 1 < Depth THEN Succ(a) + k - 1
                                     ELSE Succ(a) + k - 1 - Depth
    BY <1>2, <2>1, EntrySlot
  <2>3. (a + (k + 1) - 1) % Depth =
          IF a + (k + 1) - 1 < Depth THEN a + (k + 1) - 1
                                     ELSE a + (k + 1) - 1 - Depth
    BY <2>1, EntrySlot
  <2>4. Succ(a) = IF a = Depth - 1 THEN 0 ELSE a + 1
    BY SuccCases
  <2>. QED
    BY <1>1, <2>1, <2>2, <2>3, <2>4, SlotFacts DEF Slots
<1>6. (a + 1 - 1) % Depth = a
  <2>1. 1 \in 1 .. Depth
    BY SlotFacts
  <2>2. (a + 1 - 1) % Depth =
          IF a + 1 - 1 < Depth THEN a + 1 - 1 ELSE a + 1 - 1 - Depth
    BY <2>1, EntrySlot
  <2>. QED
    BY <2>2, SlotFacts DEF Slots
<1> HIDE DEF d, s, t
<1>7. s # <<>>
  BY <1>1, <1>3
<1>8. Head(s) = s[1] /\ s[1] = r[a]
  <2>1. 1 \in 1 .. d
    BY <1>1
  <2>. QED
    BY <1>3, <1>6, <1>7, <2>1
<1>9. /\ Tail(s) \in Seq(S) /\ Len(Tail(s)) = d - 1
      /\ \A k \in 1 .. d - 1 : Tail(s)[k] = s[k + 1]
  BY <1>3, <1>7, HeadTailProperties
<1>10. \A k \in 1 .. d - 1 : Tail(s)[k] = t[k]
  <2>1. \A k \in 1 .. d - 1 : k + 1 \in 1 .. d
    BY <1>1
  <2>. QED
    BY <1>3, <1>4, <1>5, <1>9, <2>1
<1>11. Tail(s) = t
  BY <1>4, <1>9, <1>10, SeqEqual
<1>. QED
  BY <1>7, <1>8, <1>11 DEF s, t

-----------------------------------------------------------------------------
(***************************************************************************)
(* The two channels.                                                       *)
(***************************************************************************)
\* A completion without its phase tag.
Untagged(r) == [i \in Slots |-> [cid |-> r[i].cid, op |-> r[i].op]]

\* The channels of the mapping are such readings of the two rings.
LEMMA Channels ==
    ASSUME TypeOK
    PROVE  /\ SubmittedSeq = RingSeq(sq, sqHead, tail)
           /\ CompletedSeq = RingSeq(Untagged(cq), head, cqTail)
           /\ \A i \in Slots : sq[i] \in Commands
           /\ \A i \in Slots : Untagged(cq)[i] \in Commands
<1>1. SubmittedSeq = RingSeq(sq, sqHead, tail)
  BY DEF SubmittedSeq, RingSeq
<1>2. head \in Slots /\ cqTail \in Slots
  BY DEF TypeOK
<1>3. \A k \in 1 .. Distance(head, cqTail) :
          (head + k - 1) % Depth \in Slots
  <2> TAKE k \in 1 .. Distance(head, cqTail)
  <2>1. k \in 1 .. Depth
    BY <1>2, DistanceBounds, SlotFacts
  <2>. QED
    BY <1>2, <2>1, EntrySlot
<1>4. CompletedSeq = RingSeq(Untagged(cq), head, cqTail)
  BY <1>3 DEF CompletedSeq, RingSeq, Untagged
<1>5. \A i \in Slots : sq[i] \in Commands
  BY DEF TypeOK
<1>6. \A i \in Slots : Untagged(cq)[i] \in Commands
  BY DEF TypeOK, Untagged, Commands
<1>. QED
  BY <1>1, <1>4, <1>5, <1>6

\* The same after a step.
LEMMA ChannelsNext ==
    ASSUME TypeOK'
    PROVE  /\ SubmittedSeq' = RingSeq(sq', sqHead', tail')
           /\ CompletedSeq' = RingSeq(Untagged(cq'), head', cqTail')
           /\ \A i \in Slots : sq'[i] \in Commands
           /\ \A i \in Slots : Untagged(cq')[i] \in Commands
<1>1. SubmittedSeq' = RingSeq(sq', sqHead', tail')
  BY DEF SubmittedSeq, RingSeq, Distance
<1>2. head' \in Slots /\ cqTail' \in Slots
  BY DEF TypeOK
<1>3. \A k \in 1 .. Distance(head', cqTail') :
          (head' + k - 1) % Depth \in Slots
  <2> TAKE k \in 1 .. Distance(head', cqTail')
  <2>1. k \in 1 .. Depth
    BY <1>2, DistanceBounds, SlotFacts
  <2>. QED
    BY <1>2, <2>1, EntrySlot
<1>4. CompletedSeq' = RingSeq(Untagged(cq'), head', cqTail')
  BY <1>3 DEF CompletedSeq, RingSeq, Untagged, Distance
<1>5. \A i \in Slots : sq'[i] \in Commands
  BY DEF TypeOK
<1>6. \A i \in Slots : Untagged(cq')[i] \in Commands
  BY DEF TypeOK, Untagged, Commands
<1>. QED
  BY <1>1, <1>4, <1>5, <1>6

-----------------------------------------------------------------------------
(***************************************************************************)
(* The simulation, one lemma per step of the service.                      *)
(***************************************************************************)
\* Initial states map to the initial state of the service.
LEMMA InitRefines == Init => Service!Init
<1>. SUFFICES ASSUME Init PROVE Service!Init
  OBVIOUS
<1>1. TypeOK /\ CidInv
  BY TypeInit, CidInit
<1>2. owned = {} /\ exec = {}
  BY DEF Init, PoolInit, ControllerInit
<1>3. sqHead = 0 /\ tail = 0 /\ head = 0 /\ cqTail = 0
  BY DEF Init, QpairInit, ControllerInit
<1>4. Distance(0, 0) = 0
  BY DEF Distance
<1>5. SubmittedSeq = <<>> /\ CompletedSeq = <<>>
  BY <1>3, <1>4 DEF SubmittedSeq, CompletedSeq
<1>6. Free = Cids
  <2>1. InFlight = {}
    BY <1>2, <1>3, SlotFacts DEF InFlight, Queued, Executing, Posted,
       Unfetched, Unreaped, Span, Between, Slots
  <2>. QED
    BY <1>1, <1>2, <2>1 DEF CidInv, CidsConserved
<1>. QED
  BY <1>2, <1>5, <1>6 DEF Service!Init

\* Steps that leave the rings alone leave the channels alone.
LEMMA RingsUnchanged ==
    /\ UNCHANGED <<sq, sqHead, tail>> => SubmittedSeq' = SubmittedSeq
    /\ UNCHANGED <<cq, head, cqTail>> => CompletedSeq' = CompletedSeq
BY DEF SubmittedSeq, CompletedSeq, Distance

\* nvme_request_alloc takes one cid out of the idle set.
LEMMA AllocRefines ==
    ASSUME RingInv, CidInv, ClientAlloc
    PROVE  \E c \in Cids : Service!Allocate(c)
<1>1. stack \in Seq(Cids) /\ stack # <<>> /\ IsInjective(stack)
  <2>1. Len(stack) >= 1
    BY Counts, SlotFacts DEF ClientAlloc, Outstanding
  <2>. QED
    BY <2>1, CidTypes DEF RingInv, CidInv, CidsConserved, NoCidTwice
<1>2. /\ stack' = SubSeq(stack, 1, Len(stack) - 1)
      /\ owned' = owned \cup {Top}
      /\ UNCHANGED <<sq, sqHead, tail, exec, cq, head, cqTail>>
  BY <1>1 DEF ClientAlloc, NvmeRequestAlloc, hostVars, ctrlVars
<1>3. Free' = Free \ {Top} /\ Top \in Free
  BY <1>1, <1>2, FreelistPops DEF Free, Top
<1>4. Top \in Cids
  BY <1>3 DEF CidInv, CidsConserved
<1>5. Service!Allocate(Top)
  BY <1>2, <1>3, RingsUnchanged DEF Service!Allocate
<1>. QED
  BY <1>4, <1>5

\* nvme_request_free puts it back.
LEMMA FreeRefines ==
    ASSUME RingInv, CidInv, NEW c \in owned, ClientFree(c)
    PROVE  c \in Cids /\ Service!Release(c)
<1>1. /\ stack \in Seq(Cids) /\ IsInjective(stack)
      /\ c \in Cids /\ c \notin Free
  BY CidTypes DEF RingInv, CidInv, CidsConserved, NoCidTwice, PlacesDisjoint
<1>2. Len(stack) # PoolLen
  BY Counts, SlotFacts DEF RingInv, RingsFit, InUse, Outstanding
<1>3. /\ stack' = Append(stack, c)
      /\ owned' = owned \ {c}
      /\ UNCHANGED <<sq, sqHead, tail, exec, cq, head, cqTail>>
  BY <1>2 DEF ClientFree, NvmeRequestFree, hostVars, ctrlVars
<1>4. Free' = Free \cup {c}
  BY <1>1, <1>3, FreelistPushes DEF Free
<1>. QED
  BY <1>1, <1>3, <1>4, RingsUnchanged DEF Service!Release

\* nvme_qpair_enqueue appends to the submission channel.
LEMMA EnqueueRefines ==
    ASSUME RingInv, TypeOK', NEW c \in owned, NEW o \in Ops, ClientEnqueue(c, o)
    PROVE  c \in Cids /\ Service!Submit(c, o)
<1> DEFINE e == [cid |-> c, op |-> o]
<1>1. /\ sq' = [sq EXCEPT ![tail] = e]
      /\ tail' = Succ(tail)
      /\ owned' = owned \ {c}
      /\ UNCHANGED <<stack, sqHead, exec, cq, head, cqTail>>
  BY DEF ClientEnqueue, Enqueue, ctrlVars
<1>2. Room(sqHead, tail)
  BY Counts, SlotFacts DEF InUse, Room
<1>3. c \in Cids /\ sqHead \in Slots /\ tail \in Slots
  BY CidTypes DEF RingInv
<1>4. sq'[tail] = e /\ \A i \in Slots \ {tail} : sq'[i] = sq[i]
  BY <1>1, <1>3, CidTypes DEF RingInv
<1>5. /\ \A i \in Slots : sq[i] \in Commands
      /\ \A i \in Slots : sq'[i] \in Commands
  BY Channels, ChannelsNext DEF RingInv
<1>6. \A i \in Slots : i # tail => sq'[i] = sq[i]
  BY <1>4
<1>7. ASSUME NEW q, q = sq'
      PROVE  RingSeq(q, sqHead, Succ(tail)) = Append(RingSeq(sq, sqHead, tail), q[tail])
  <2>1. /\ \A i \in Slots : q[i] \in Commands
        /\ \A i \in Slots : i # tail => q[i] = sq[i]
    BY <1>5, <1>6, <1>7
  <2>. QED
    BY ONLY <1>2, <1>3, <1>5, <2>1, RingSeqAppends
<1>8. SubmittedSeq' = Append(SubmittedSeq, e)
  BY <1>1, <1>4, <1>7, Channels, ChannelsNext DEF RingInv
<1>9. Free' = Free
  BY <1>1 DEF Free
<1>. QED
  BY <1>1, <1>3, <1>8, <1>9, RingsUnchanged DEF Service!Submit

\* The controller takes the head of the submission channel.
LEMMA FetchRefines ==
    ASSUME RingInv, TypeOK', Fetch
    PROVE  Service!Begin
<1>1. /\ sqHead # sqdb
      /\ sqHead' = Succ(sqHead)
      /\ exec' = exec \cup {sq[sqHead]}
      /\ UNCHANGED <<stack, owned, sq, tail, cq, head, cqTail>>
  BY DEF Fetch, poolVars, hostVars
<1>2. sqHead \in Slots /\ tail \in Slots /\ sqdb \in Slots
  BY DEF RingInv, TypeOK
<1>3. sqHead # tail
  <2>1. Distance(sqHead, sqdb) # 0
    BY <1>1, <1>2, DistanceBounds
  <2>2. Distance(sqHead, tail) # 0
    BY <2>1, Counts, SlotFacts
  <2>. QED
    BY <1>2, <2>2, DistanceBounds
<1>4. \A i \in Slots : sq[i] \in Commands
  BY Channels DEF RingInv
<1>5. /\ RingSeq(sq, sqHead, tail) # <<>>
      /\ Head(RingSeq(sq, sqHead, tail)) = sq[sqHead]
      /\ Tail(RingSeq(sq, sqHead, tail)) = RingSeq(sq, Succ(sqHead), tail)
  BY ONLY <1>2, <1>3, <1>4, RingSeqTail, ZenonT(30)
<1>6. /\ SubmittedSeq # <<>>
      /\ Head(SubmittedSeq) = sq[sqHead]
      /\ SubmittedSeq' = Tail(SubmittedSeq)
  BY <1>1, <1>5, Channels, ChannelsNext DEF RingInv
<1>7. Free' = Free
  BY <1>1 DEF Free
<1>. QED
  BY <1>1, <1>6, <1>7, RingsUnchanged DEF Service!Begin

\* The controller appends to the completion channel.
LEMMA PostRefines ==
    ASSUME RingInv, TypeOK', NEW x \in exec, Post(x)
    PROVE  Service!Finish(x)
<1> DEFINE e == [cid |-> x.cid, op |-> x.op, phase |-> cqPhase]
<1>1. /\ cq' = [cq EXCEPT ![cqTail] = e]
      /\ exec' = exec \ {x}
      /\ cqTail' = Succ(cqTail)
      /\ UNCHANGED <<stack, owned, sq, sqHead, tail, head>>
  BY DEF Post, poolVars, hostVars
<1>2. Room(head, cqTail)
  BY Counts, SlotFacts DEF InUse, Room
<1>3. head \in Slots /\ cqTail \in Slots
  BY CidTypes DEF RingInv
<1>4. cq'[cqTail] = e /\ \A i \in Slots \ {cqTail} : cq'[i] = cq[i]
  BY <1>1, <1>3, CidTypes DEF RingInv
<1>5. x = [cid |-> x.cid, op |-> x.op]
  BY CidTypes DEF RingInv, Commands
<1>6. Untagged(cq')[cqTail] = x
  BY <1>3, <1>4, <1>5 DEF Untagged
<1>7. \A i \in Slots : i # cqTail => Untagged(cq')[i] = Untagged(cq)[i]
  BY <1>4 DEF Untagged
<1>8. /\ \A i \in Slots : Untagged(cq)[i] \in Commands
      /\ \A i \in Slots : Untagged(cq')[i] \in Commands
  BY Channels, ChannelsNext DEF RingInv
<1>9. RingSeq(Untagged(cq'), head, Succ(cqTail))
          = Append(RingSeq(Untagged(cq), head, cqTail), Untagged(cq')[cqTail])
  BY ONLY <1>2, <1>3, <1>7, <1>8, RingSeqAppends
<1>10. CompletedSeq' = Append(CompletedSeq, x)
  BY <1>1, <1>6, <1>9, Channels, ChannelsNext DEF RingInv
<1>11. Free' = Free
  BY <1>1 DEF Free
<1>. QED
  BY <1>1, <1>10, <1>11, RingsUnchanged DEF Service!Finish

\* nvme_qpair_reap_cpl takes the head of the completion channel.
LEMMA ReapRefines ==
    ASSUME RingInv, TypeOK', ReapCpl
    PROVE  Service!Deliver
<1>1. head # cqTail
  BY PhaseTest DEF ReapCpl, RingInv
<1>2. head \in Slots /\ cqTail \in Slots /\ head' = Succ(head)
  BY CidTypes, SuccCases, SlotFacts, SMTT(30) DEF RingInv, ReapCpl, Slots
<1>3. /\ owned' = owned \cup {cq[head].cid}
      /\ UNCHANGED <<stack, sq, sqHead, tail, exec, cq, cqTail>>
  BY DEF ReapCpl, ctrlVars
<1>4. \A i \in Slots : Untagged(cq)[i] \in Commands
  BY Channels DEF RingInv
<1>5. /\ RingSeq(Untagged(cq), head, cqTail) # <<>>
      /\ Head(RingSeq(Untagged(cq), head, cqTail)) = Untagged(cq)[head]
      /\ Tail(RingSeq(Untagged(cq), head, cqTail))
            = RingSeq(Untagged(cq), Succ(head), cqTail)
  BY ONLY <1>1, <1>2, <1>4, RingSeqTail
<1>6. /\ CompletedSeq # <<>>
      /\ Head(CompletedSeq).cid = cq[head].cid
      /\ CompletedSeq' = Tail(CompletedSeq)
  <2>1. Untagged(cq)[head].cid = cq[head].cid
    BY <1>2 DEF Untagged
  <2>. QED
    BY <1>2, <1>3, <1>5, <2>1, Channels, ChannelsNext DEF RingInv
<1>7. Free' = Free
  BY <1>3 DEF Free
<1>. QED
  BY <1>3, <1>6, <1>7, RingsUnchanged DEF Service!Deliver

\* A step maps to a step or, for a doorbell, to a stutter.
LEMMA StepRefines ==
    RingInv /\ RingInv' /\ CidInv /\ [Next]_vars => [Service!Next]_(Service!vars)
<1>. SUFFICES ASSUME RingInv, RingInv', CidInv, [Next]_vars
              PROVE  [Service!Next]_(Service!vars)
  OBVIOUS
<1>1. TypeOK'
  BY DEF RingInv
<1>2. CASE SqdbUpdate \/ UNCHANGED vars
  <2>1. UNCHANGED <<stack, owned, sq, sqHead, tail, exec, cq, head, cqTail>>
    BY <1>2 DEF SqdbUpdate, vars, poolVars, hostVars, ctrlVars
  <2>. QED
    BY <2>1, RingsUnchanged DEF Service!vars, Free
<1>3. CASE ClientAlloc
  BY <1>3, AllocRefines DEF Service!Next
<1>4. ASSUME NEW c \in owned, ClientFree(c)
      PROVE  Service!Next
  BY <1>4, FreeRefines DEF Service!Next
<1>5. ASSUME NEW c \in owned, NEW o \in Ops, ClientEnqueue(c, o)
      PROVE  Service!Next
  BY <1>1, <1>5, EnqueueRefines DEF Service!Next
<1>6. CASE ReapCpl
  BY <1>1, <1>6, ReapRefines DEF Service!Next
<1>7. CASE Fetch
  BY <1>1, <1>7, FetchRefines DEF Service!Next
<1>8. ASSUME NEW x \in exec, Post(x)
      PROVE  Service!Next
  BY <1>1, <1>8, PostRefines DEF Service!Next
<1>. QED
  BY <1>2, <1>3, <1>4, <1>5, <1>6, <1>7, <1>8 DEF Next, Host, Controller

\* Rings, phase tags, batched doorbells and the freelist do nothing that two
\* FIFO channels would not do.
THEOREM QpairRefinesService ==
    Spec => Service!Init /\ [][Service!Next]_(Service!vars)
BY InitRefines, StepRefines, RingInvariant, CidInvariant, PTL DEF Spec
=============================================================================
