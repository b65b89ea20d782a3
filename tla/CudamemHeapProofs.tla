------------------------- MODULE CudamemHeapProofs -------------------------
(***************************************************************************)
(* Theorems about the heap in GPU memory, for every page and device page   *)
(* size, every size of the heap and every set of requests.                 *)
(*                                                                         *)
(* The list tiles the heap: cutting a block in two, marking one and        *)
(* merging two keep that.  A live allocation is at the address of a block  *)
(* that is not free and large enough, and of the blocks that are not free  *)
(* only the one a free is about to mark serves no allocation.              *)
(***************************************************************************)
EXTENDS CudamemPrps, SequenceTheorems, TLAPS

BlockRec == [vaddr : Nat, size : Nat, free : BOOLEAN]

\* s covers 0 .. n - 1 without a hole, an overlap or an empty block.
Tiles(s, n) ==
    /\ s \in Seq(BlockRec) /\ Len(s) >= 1
    /\ s[1].vaddr = 0 /\ End(s[Len(s)]) = n
    /\ \A i \in 1 .. Len(s) : s[i].size > 0
    /\ \A i \in 1 .. Len(s) - 1 : End(s[i]) = s[i + 1].vaddr
    /\ \A i, j \in 1 .. Len(s) : i < j => End(s[i]) <= s[j].vaddr

ListInv ==
    /\ size \in Nat /\ up \in BOOLEAN
    /\ up => Tiles(blocks, size)
    /\ ~up => blocks = <<>> /\ size = 0 /\ live = {} /\ pc \notin {"scan", "sweep"}
    /\ pc \notin {"idle", "scan", "sweep"} => ~up

\* Block b holds allocation a.
Serves(b, a) == b.vaddr = a.ptr /\ b.free = FALSE /\ b.size >= a.count * a.elem

\* Block i is the one that the free under way has not come to yet.
Released(i) == pc = "sweep" /\ i >= cur /\ blocks[i].vaddr = req.total

LiveInv ==
    /\ \A a \in live : /\ a.ptr \in Nat /\ a.elem \in Nat /\ a.count \in Nat
                       /\ \E i \in 1 .. Len(blocks) : Serves(blocks[i], a)
                       /\ pc = "sweep" => a.ptr # req.total
    /\ \A a, c \in live : a.ptr = c.ptr => a = c
    /\ \A i \in 1 .. Len(blocks) :
          blocks[i].free = TRUE \/ Released(i) \/ \E a \in live : a.ptr = blocks[i].vaddr

\* No two free neighbours in front of block n.
MergedTo(s, n) == \A i \in 1 .. n - 1 : ~(s[i].free = TRUE /\ s[i + 1].free = TRUE)

LoopInv ==
    /\ req \in [total : Nat, elem : Nat, count : Nat]
    /\ pc \notin {"scan", "sweep"} => cur = 0
    /\ pc = "init" => req.total > 0
    /\ pc = "scan" =>
          /\ cur \in 1 .. Len(blocks) + 1
          /\ 0 < req.elem /\ req.elem <= req.total /\ req.count * req.elem <= req.total
    /\ pc = "sweep" =>
          /\ cur \in 1 .. Len(blocks)
          /\ MergedTo(blocks, cur)
          /\ cur > 1 /\ blocks[cur].vaddr = req.total => blocks[cur].free = TRUE

IInv == ListInv /\ LiveInv /\ LoopInv

Labels == {"undo", "exit", "error", "detach", "rest"}

\* What a life has taken before step k of its init.
TakenAt(k) ==
    <<{}, {"memory"}, {"memory", "fd"},
      {"memory", "fd", "freelist"},
      {"memory", "fd", "freelist", "udmabuf"},
      {"memory", "fd", "freelist", "udmabuf", "attachment"},
      {"memory", "fd", "freelist", "udmabuf", "attachment", "map"},
      {"memory", "fd", "freelist", "udmabuf", "attachment", "map"},
      {"memory", "fd", "freelist", "attachment", "pages"},
      HeapTakes>>[k]

\* What it may still have at a label.
Owed(label) ==
    CASE label = "undo"   -> {"memory", "fd", "freelist", "udmabuf", "map", "attachment"}
      [] label = "exit"   -> {"memory", "fd", "freelist", "udmabuf", "map"}
      [] label = "error"  -> {"memory", "fd", "freelist"}
      [] label = "detach" -> HeapTakes
      [] label = "rest"   -> {"memory", "freelist", "phys_lut"}

\* Nothing of this life is among what detaches have left.
NothingKept == kept \cap This(HeapTakes \cup ExitFrees) = {}

HoldInv ==
    /\ pc \in {"idle", "scan", "sweep", "init"} \cup Labels
    /\ step \in 0 .. Filled
    /\ kept \subseteq held
    /\ kept \subseteq {"this", "earlier"} \X {"attachment", "fd"}
    /\ up \/ pc \in {"init", "undo", "detach"} => NothingKept
    /\ pc \in {"exit", "error"} => <<"this", "fd">> \notin kept
    /\ pc \in {"undo", "detach"} => This({"attachment", "fd"}) \subseteq held
    /\ pc = "init" => step \in 1 .. Filled /\ held = kept \cup This(TakenAt(step))
    /\ pc \in Labels => held \subseteq kept \cup This(Owed(pc))
    /\ HoldsOnlyWhileUp

-----------------------------------------------------------------------------
(***************************************************************************)
(* The list: what the operations on it do, position by position.           *)
(***************************************************************************)
LEMMA Replaced ==
    ASSUME NEW S, NEW s \in Seq(S), NEW i \in 1 .. Len(s), NEW x \in S
    PROVE  /\ ReplaceAt(s, i, x) \in Seq(S)
           /\ Len(ReplaceAt(s, i, x)) = Len(s)
           /\ \A j \in 1 .. Len(s) : ReplaceAt(s, i, x)[j] = IF j = i THEN x ELSE s[j]
BY ExceptSeq DEF ReplaceAt

LEMMA Removed ==
    ASSUME NEW S, NEW l \in Seq(S), NEW k \in 1 .. Len(l)
    PROVE  /\ RemoveAt(l, k) \in Seq(S)
           /\ Len(RemoveAt(l, k)) = Len(l) - 1
           /\ \A i \in 1 .. Len(l) - 1 :
                 RemoveAt(l, k)[i] = IF i < k THEN l[i] ELSE l[i + 1]
<1> DEFINE a == SubSeq(l, 1, k - 1)
           b == SubSeq(l, k + 1, Len(l))
           s == RemoveAt(l, k)
<1>0. Len(l) \in Nat /\ \A i \in 1 .. Len(l) : l[i] \in S
  OBVIOUS
<1>1. /\ a \in Seq(S) /\ Len(a) = k - 1
      /\ \A i \in 1 .. k - 1 : a[i] = l[i]
  <2>1. /\ a \in Seq(S)
        /\ Len(a) = IF 1 <= k - 1 THEN k - 1 - 1 + 1 ELSE 0
        /\ \A i \in 1 .. k - 1 - 1 + 1 : a[i] = l[1 + i - 1]
    BY <1>0, SubSeqProperties
  <2> HIDE DEF a
  <2>2. k - 1 - 1 + 1 = k - 1 /\ \A i \in 1 .. k - 1 : 1 + i - 1 = i
    OBVIOUS
  <2>. QED
    BY <2>1, <2>2
<1>2. /\ b \in Seq(S) /\ Len(b) = Len(l) - k
      /\ \A i \in 1 .. Len(l) - k : b[i] = l[i + k]
  <2>1. /\ b \in Seq(S)
        /\ Len(b) = IF k + 1 <= Len(l) THEN Len(l) - (k + 1) + 1 ELSE 0
        /\ \A i \in 1 .. Len(l) - (k + 1) + 1 : b[i] = l[(k + 1) + i - 1]
    BY <1>0, SubSeqProperties
  <2> HIDE DEF b
  <2>2. Len(l) - (k + 1) + 1 = Len(l) - k
    BY <1>0
  <2>3. Len(b) = Len(l) - k
    BY <1>0, <2>1
  <2>4. ASSUME NEW i \in 1 .. Len(l) - k PROVE b[i] = l[i + k]
    <3>1. (k + 1) + i - 1 = i + k
      BY <1>0
    <3>. QED
      BY <2>1, <2>2, <3>1
  <2>. QED
    BY <2>1, <2>3, <2>4
<1>3. s = a \o b
  BY DEF RemoveAt
<1> HIDE DEF a, b, s
<1>4. /\ s \in Seq(S)
      /\ Len(s) = Len(a) + Len(b)
      /\ \A i \in 1 .. Len(a) + Len(b) : s[i] = IF i <= Len(a) THEN a[i] ELSE b[i - Len(a)]
  BY <1>1, <1>2, <1>3, ConcatProperties
<1>5. Len(s) = Len(l) - 1
  BY <1>0, <1>1, <1>2, <1>4
<1>6. ASSUME NEW i \in 1 .. Len(l) - 1
      PROVE  s[i] = IF i < k THEN l[i] ELSE l[i + 1]
  <2>1. i \in 1 .. Len(a) + Len(b)
    BY <1>0, <1>1, <1>2, <1>6
  <2>2. CASE i < k
    <3>1. i <= Len(a) /\ i \in 1 .. k - 1
      BY <1>1, <1>6, <2>2
    <3>. QED
      BY <1>1, <1>4, <2>1, <2>2, <3>1
  <2>3. CASE i >= k
    <3>0. ~(i <= Len(a)) /\ i - Len(a) = i - (k - 1)
      BY <1>1, <1>6, <2>3
    <3>1. s[i] = b[i - (k - 1)]
      BY <1>4, <2>1, <3>0
    <3>4. i - (k - 1) \in 1 .. Len(l) - k
      BY <1>0, <1>6, <2>3
    <3>2. b[i - (k - 1)] = l[(i - (k - 1)) + k]
      BY <1>2, <3>4
    <3>3. (i - (k - 1)) + k = i + 1
      BY <1>0, <1>6
    <3>. QED
      BY <1>6, <2>3, <3>1, <3>2, <3>3
  <2>. QED
    BY <1>6, <2>2, <2>3
<1>. QED
  BY <1>4, <1>5, <1>6 DEF s

LEMMA Inserted ==
    ASSUME NEW S, NEW l \in Seq(S), NEW k \in 2 .. Len(l) + 1, NEW x \in S
    PROVE  /\ InsertAt(l, k, x) \in Seq(S)
           /\ Len(InsertAt(l, k, x)) = Len(l) + 1
           /\ \A i \in 1 .. Len(l) + 1 :
                 InsertAt(l, k, x)[i] =
                    IF i < k THEN l[i] ELSE IF i = k THEN x ELSE l[i - 1]
<1> DEFINE a == SubSeq(l, 1, k - 1)
           m == <<x>>
           b == SubSeq(l, k, Len(l))
           s == InsertAt(l, k, x)
           am == a \o m
<1>0. Len(l) \in Nat /\ k \in Nat /\ \A i \in 1 .. Len(l) : l[i] \in S
  OBVIOUS
<1>1. /\ a \in Seq(S) /\ Len(a) = k - 1
      /\ \A i \in 1 .. k - 1 : a[i] = l[i]
  <2>1. /\ a \in Seq(S)
        /\ Len(a) = IF 1 <= k - 1 THEN k - 1 - 1 + 1 ELSE 0
        /\ \A i \in 1 .. k - 1 - 1 + 1 : a[i] = l[1 + i - 1]
    BY <1>0, SubSeqProperties
  <2> HIDE DEF a
  <2>2. k - 1 - 1 + 1 = k - 1 /\ \A i \in 1 .. k - 1 : 1 + i - 1 = i
    OBVIOUS
  <2>. QED
    BY <2>1, <2>2
<1>2. /\ b \in Seq(S) /\ Len(b) = Len(l) - k + 1
      /\ \A i \in 1 .. Len(l) - k + 1 : b[i] = l[k + i - 1]
  <2>1. /\ b \in Seq(S)
        /\ Len(b) = IF k <= Len(l) THEN Len(l) - k + 1 ELSE 0
        /\ \A i \in 1 .. Len(l) - k + 1 : b[i] = l[k + i - 1]
    BY <1>0, SubSeqProperties
  <2> HIDE DEF b
  <2>. QED
    BY <1>0, <2>1
<1>3. s = am \o b
  BY DEF InsertAt
<1>4. m \in Seq(S) /\ Len(m) = 1 /\ m[1] = x
  OBVIOUS
<1> HIDE DEF a, b, s, m
<1>5. /\ am \in Seq(S)
      /\ Len(am) = Len(a) + Len(m)
      /\ \A i \in 1 .. Len(a) + Len(m) : am[i] = IF i <= Len(a) THEN a[i] ELSE m[i - Len(a)]
  BY <1>1, <1>4, ConcatProperties
<1> HIDE DEF am
<1>6. /\ am \in Seq(S) /\ Len(am) = k
      /\ \A i \in 1 .. k - 1 : am[i] = l[i]
      /\ am[k] = x
  <2>1. Len(am) = k /\ Len(a) + Len(m) = k
    BY <1>0, <1>1, <1>4, <1>5
  <2>2. k - Len(a) = 1 /\ k \in 1 .. Len(a) + Len(m) /\ ~(k <= Len(a))
    BY <1>0, <1>1, <1>4
  <2>3. am[k] = x
    BY <1>4, <1>5, <2>2
  <2>4. ASSUME NEW i \in 1 .. k - 1 PROVE am[i] = l[i]
    <3>1. i \in 1 .. Len(a) + Len(m) /\ i <= Len(a)
      BY <1>0, <1>1, <1>4, <2>4
    <3>. QED
      BY <1>1, <1>5, <2>4, <3>1
  <2>. QED
    BY <1>5, <2>1, <2>3, <2>4
<1>7. /\ s \in Seq(S)
      /\ Len(s) = Len(am) + Len(b)
      /\ \A i \in 1 .. Len(am) + Len(b) : s[i] = IF i <= Len(am) THEN am[i] ELSE b[i - Len(am)]
  BY <1>2, <1>3, <1>6, ConcatProperties
<1>8. Len(s) = Len(l) + 1
  BY <1>0, <1>2, <1>6, <1>7
<1>9. ASSUME NEW i \in 1 .. Len(l) + 1
      PROVE  s[i] = IF i < k THEN l[i] ELSE IF i = k THEN x ELSE l[i - 1]
  <2>0. i \in 1 .. Len(am) + Len(b)
    BY <1>0, <1>2, <1>6, <1>9
  <2>1. CASE i <= k
    <3>1. s[i] = am[i] /\ i \in 1 .. k
      BY <1>0, <1>6, <1>7, <1>9, <2>0, <2>1
    <3>2. i \in 1 .. k - 1 \/ i = k
      BY <1>0, <3>1
    <3>. QED
      BY <1>0, <1>6, <3>1, <3>2
  <2>2. CASE i > k
    <3>0. ~(i <= Len(am)) /\ i - Len(am) = i - k
      BY <1>0, <1>6, <1>9, <2>2
    <3>1. s[i] = b[i - k]
      BY <1>7, <2>0, <3>0
    <3>4. i - k \in 1 .. Len(l) - k + 1
      BY <1>0, <1>9, <2>2
    <3>2. b[i - k] = l[k + (i - k) - 1]
      BY <1>2, <3>4
    <3>3. k + (i - k) - 1 = i - 1
      BY <1>0, <1>9
    <3>. QED
      BY <1>0, <1>9, <2>2, <3>1, <3>2, <3>3
  <2>. QED
    BY <1>0, <1>9, <2>1, <2>2
<1>. QED
  BY <1>7, <1>8, <1>9 DEF s

-----------------------------------------------------------------------------
(***************************************************************************)
(* The three changes of the list: each leaves it a tiling.                 *)
(***************************************************************************)
LEMMA BlockFacts ==
    ASSUME NEW s, NEW n, Tiles(s, n), NEW i \in 1 .. Len(s)
    PROVE  /\ s \in Seq(BlockRec) /\ Len(s) \in Nat /\ s[i] \in BlockRec
           /\ s[i].vaddr \in Nat /\ s[i].size \in Nat /\ s[i].free \in BOOLEAN
           /\ s[i].size > 0 /\ End(s[i]) \in Nat /\ End(s[i]) = s[i].vaddr + s[i].size
<1>1. s \in Seq(BlockRec) /\ s[i].size > 0
  BY DEF Tiles
<1>2. Len(s) \in Nat /\ s[i] \in BlockRec
  BY <1>1
<1>3. s[i].vaddr \in Nat /\ s[i].size \in Nat /\ s[i].free \in BOOLEAN
  BY <1>2 DEF BlockRec
<1>. QED
  BY <1>1, <1>2, <1>3 DEF End

\* One address, one block.
LEMMA AddressOfOne ==
    ASSUME NEW s, NEW n, Tiles(s, n), NEW i \in 1 .. Len(s), NEW j \in 1 .. Len(s),
           s[i].vaddr = s[j].vaddr
    PROVE  i = j
<1>1. /\ s[i].vaddr \in Nat /\ s[i].size \in Nat /\ s[i].size > 0
      /\ End(s[i]) = s[i].vaddr + s[i].size /\ Len(s) \in Nat
  BY BlockFacts
<1>2. /\ s[j].vaddr \in Nat /\ s[j].size \in Nat /\ s[j].size > 0
      /\ End(s[j]) = s[j].vaddr + s[j].size
  BY BlockFacts
<1>3. i < j => End(s[i]) <= s[j].vaddr
  BY DEF Tiles
<1>4. j < i => End(s[j]) <= s[i].vaddr
  BY DEF Tiles
<1>. QED
  BY <1>1, <1>2, <1>3, <1>4

LEMMA CutTiles ==
    ASSUME NEW s, NEW n, Tiles(s, n), NEW i \in 1 .. Len(s), NEW len \in Nat,
           0 < len, len < s[i].size, NEW x \in BlockRec, NEW y \in BlockRec,
           x.vaddr = s[i].vaddr, x.size = len,
           y.vaddr = s[i].vaddr + len, y.size = s[i].size - len,
           NEW t, t = ReplaceAt(InsertAt(s, i + 1, y), i, x)
    PROVE  /\ Tiles(t, n) /\ Len(t) = Len(s) + 1
           /\ t[i] = x /\ t[i + 1] = y
           /\ \A j \in 1 .. Len(s) : j < i => t[j] = s[j]
           /\ \A j \in 1 .. Len(s) : j > i => t[j + 1] = s[j]
<1>1. s \in Seq(BlockRec) /\ Len(s) \in Nat /\ i + 1 \in 2 .. Len(s) + 1
  BY BlockFacts
<1>2. PICK u : u = InsertAt(s, i + 1, y)
  OBVIOUS
<1>3. /\ u \in Seq(BlockRec) /\ Len(u) = Len(s) + 1
      /\ \A j \in 1 .. Len(s) + 1 :
            u[j] = IF j < i + 1 THEN s[j] ELSE IF j = i + 1 THEN y ELSE s[j - 1]
  <2>1. PICK k \in 2 .. Len(s) + 1 : k = i + 1
    BY <1>1
  <2>2. /\ InsertAt(s, k, y) \in Seq(BlockRec) /\ Len(InsertAt(s, k, y)) = Len(s) + 1
        /\ \A j \in 1 .. Len(s) + 1 :
              InsertAt(s, k, y)[j] = IF j < k THEN s[j] ELSE IF j = k THEN y ELSE s[j - 1]
    BY <1>1, Inserted
  <2>3. u = InsertAt(s, k, y)
    BY <1>2, <2>1
  <2>. QED
    BY <2>1, <2>2, <2>3
<1>4. t = ReplaceAt(u, i, x) /\ i \in 1 .. Len(u)
  BY <1>1, <1>2, <1>3
<1>5. /\ t \in Seq(BlockRec) /\ Len(t) = Len(u)
      /\ \A j \in 1 .. Len(u) : t[j] = IF j = i THEN x ELSE u[j]
  <2>1. u \in Seq(BlockRec) /\ i \in 1 .. Len(u) /\ x \in BlockRec
    BY <1>3, <1>4
  <2>2. /\ ReplaceAt(u, i, x) \in Seq(BlockRec) /\ Len(ReplaceAt(u, i, x)) = Len(u)
        /\ \A j \in 1 .. Len(u) : ReplaceAt(u, i, x)[j] = IF j = i THEN x ELSE u[j]
    BY <2>1, Replaced
  <2>. QED
    BY <1>4, <2>2
<1>6. t \in Seq(BlockRec) /\ Len(t) = Len(s) + 1
  BY <1>3, <1>5
<1>7. t[i] = x
  BY <1>4, <1>5
<1>8. t[i + 1] = y
  <2>1. i + 1 \in 1 .. Len(u) /\ i + 1 # i /\ ~(i + 1 < i + 1)
    BY <1>1, <1>3
  <2>. QED
    BY <1>1, <1>3, <1>5, <2>1
<1>9. ASSUME NEW j \in 1 .. Len(s), j < i PROVE t[j] = s[j]
  <2>1. j \in 1 .. Len(u) /\ j # i /\ j < i + 1 /\ j \in 1 .. Len(s) + 1
    BY <1>1, <1>3, <1>9
  <2>. QED
    BY <1>3, <1>5, <2>1
<1>10. ASSUME NEW j \in 1 .. Len(s), j > i PROVE t[j + 1] = s[j]
  <2>1. /\ j + 1 \in 1 .. Len(u) /\ j + 1 # i /\ ~(j + 1 < i + 1) /\ j + 1 # i + 1
        /\ j + 1 \in 1 .. Len(s) + 1 /\ j + 1 - 1 = j
    BY <1>1, <1>3, <1>10
  <2>. QED
    BY <1>3, <1>5, <2>1
\* The block of s that position j of t is in.
<1> DEFINE p(j) == IF j <= i THEN j ELSE j - 1
<1>11. ASSUME NEW j \in 1 .. Len(s) + 1
       PROVE  /\ p(j) \in 1 .. Len(s)
              /\ t[j].vaddr \in Nat /\ t[j].size \in Nat /\ t[j].size > 0
              /\ End(t[j]) = t[j].vaddr + t[j].size
              /\ End(t[j]) \in Nat
              /\ s[p(j)].vaddr <= t[j].vaddr /\ End(t[j]) <= End(s[p(j)])
              /\ j # i + 1 => t[j].vaddr = s[p(j)].vaddr
              /\ j # i => End(t[j]) = End(s[p(j)])
  <2>1. s[i].vaddr \in Nat /\ s[i].size \in Nat /\ End(s[i]) = s[i].vaddr + s[i].size
    BY BlockFacts
  <2>2. CASE j < i
    <3>1. t[j] = s[j] /\ j \in 1 .. Len(s) /\ p(j) = j /\ j # i + 1
      BY <1>1, <1>9, <1>11, <2>2
    <3>2. /\ s[j].vaddr \in Nat /\ s[j].size \in Nat /\ s[j].size > 0
          /\ End(s[j]) = s[j].vaddr + s[j].size
      BY <3>1, BlockFacts
    <3>. QED
      BY <3>1, <3>2
  <2>3. CASE j = i
    <3>1. t[j] = x /\ p(j) = i /\ j # i + 1
      BY <1>1, <1>7, <2>3
    <3>2. End(x) = s[i].vaddr + len
      BY DEF End
    <3>. QED
      BY <2>1, <2>3, <3>1, <3>2
  <2>4. CASE j = i + 1
    <3>1. t[j] = y /\ p(j) = i /\ j # i
      BY <1>1, <1>8, <2>4
    <3>2. End(y) = s[i].vaddr + len + (s[i].size - len)
      BY DEF End
    <3>. QED
      BY <2>1, <2>4, <3>1, <3>2, SMTT(30)
  <2>5. CASE j > i + 1
    <3>1. p(j) = j - 1 /\ j - 1 \in 1 .. Len(s) /\ j - 1 > i /\ j - 1 + 1 = j
      BY <1>1, <1>11, <2>5
    <3>2. t[j] = s[j - 1]
      BY <1>10, <3>1
    <3>3. /\ s[j - 1].vaddr \in Nat /\ s[j - 1].size \in Nat /\ s[j - 1].size > 0
          /\ End(s[j - 1]) = s[j - 1].vaddr + s[j - 1].size
      BY <3>1, BlockFacts
    <3>. QED
      BY <3>1, <3>2, <3>3
  <2>. QED
    BY <1>1, <1>11, <2>2, <2>3, <2>4, <2>5
<1>12. Len(t) >= 1 /\ t[1].vaddr = 0 /\ End(t[Len(t)]) = n
  <2>1. p(1) = 1 /\ 1 \in 1 .. Len(s) + 1 /\ 1 # i + 1
    BY <1>1
  <2>2. p(Len(s) + 1) = Len(s) /\ Len(s) + 1 \in 1 .. Len(s) + 1 /\ Len(s) + 1 # i
    BY <1>1
  <2>3. t[1].vaddr = s[1].vaddr
    BY <1>11, <2>1
  <2>4. End(t[Len(s) + 1]) = End(s[Len(s)])
    BY <1>11, <2>2
  <2>5. s[1].vaddr = 0 /\ End(s[Len(s)]) = n
    BY DEF Tiles
  <2>. QED
    BY <1>1, <1>6, <2>3, <2>4, <2>5
<1>13. ASSUME NEW j \in 1 .. Len(t) - 1 PROVE End(t[j]) = t[j + 1].vaddr
  <2>0. j \in 1 .. Len(s) + 1 /\ j + 1 \in 1 .. Len(s) + 1
    BY <1>1, <1>6, <1>13
  <2>1. CASE j = i
    <3>1. End(x) = x.vaddr + x.size
      BY DEF End
    <3>. QED
      BY <1>7, <1>8, <2>1, <3>1
  <2>2. CASE j # i
    <3>0. j \in Nat /\ i \in Nat /\ j >= 1 /\ j <= Len(s) /\ i <= Len(s)
      BY <1>1, <1>6, <1>13
    <3>1. p(j) \in 1 .. Len(s) - 1 /\ p(j + 1) = p(j) + 1 /\ j + 1 # i + 1
      BY <1>1, <2>2, <3>0
    <3>2. End(s[p(j)]) = s[p(j) + 1].vaddr
      BY <3>1 DEF Tiles
    <3>3. End(t[j]) = End(s[p(j)])
      BY <1>11, <2>0, <2>2
    <3>4. t[j + 1].vaddr = s[p(j + 1)].vaddr
      BY <1>11, <2>0, <3>1
    <3>. QED
      BY <3>1, <3>2, <3>3, <3>4
  <2>. QED
    BY <2>1, <2>2
<1>14. ASSUME NEW j \in 1 .. Len(t), NEW k \in 1 .. Len(t), j < k
       PROVE  End(t[j]) <= t[k].vaddr
  <2>0. j \in 1 .. Len(s) + 1 /\ k \in 1 .. Len(s) + 1
    BY <1>1, <1>6, <1>14
  <2>1. CASE j = i /\ k = i + 1
    <3>1. j \in 1 .. Len(t) - 1 /\ k = j + 1
      BY <1>1, <1>6, <1>14, <2>1
    <3>2. End(t[j]) = t[k].vaddr /\ t[k].vaddr \in Nat
      BY <1>11, <1>13, <2>0, <3>1
    <3>. QED
      BY <3>2
  <2>2. CASE ~(j = i /\ k = i + 1)
    <3>1. p(j) < p(k)
      BY <1>1, <1>14, <2>0, <2>2
    <3>2. /\ p(j) \in 1 .. Len(s) /\ End(t[j]) <= End(s[p(j)]) /\ End(t[j]) \in Nat
      BY <1>11, <2>0
    <3>3. p(k) \in 1 .. Len(s) /\ s[p(k)].vaddr <= t[k].vaddr /\ t[k].vaddr \in Nat
      BY <1>11, <2>0
    <3>4. End(s[p(j)]) <= s[p(k)].vaddr
      BY <3>1, <3>2, <3>3 DEF Tiles
    <3>5. End(s[p(j)]) \in Nat /\ s[p(k)].vaddr \in Nat
      BY <3>2, <3>3, BlockFacts
    <3>. QED
      BY <3>2, <3>3, <3>4, <3>5, SMTT(30)
  <2>. QED
    BY <2>1, <2>2
<1>15. ASSUME NEW j \in 1 .. Len(t) PROVE t[j].size > 0
  BY <1>6, <1>11, <1>15
<1>16. Tiles(t, n)
  BY <1>6, <1>12, <1>13, <1>14, <1>15 DEF Tiles
<1>. QED
  BY <1>6, <1>7, <1>8, <1>9, <1>10, <1>16

\* A block whose mark changes.
LEMMA RetagTiles ==
    ASSUME NEW s, NEW n, Tiles(s, n), NEW i \in 1 .. Len(s), NEW x \in BlockRec,
           x.vaddr = s[i].vaddr, x.size = s[i].size, NEW t, t = ReplaceAt(s, i, x)
    PROVE  /\ Tiles(t, n) /\ Len(t) = Len(s)
           /\ t[i] = x
           /\ \A j \in 1 .. Len(s) : j # i => t[j] = s[j]
<1>1. s \in Seq(BlockRec) /\ Len(s) \in Nat /\ Len(s) >= 1
  BY BlockFacts DEF Tiles
<1>2. /\ t \in Seq(BlockRec) /\ Len(t) = Len(s)
      /\ \A j \in 1 .. Len(s) : t[j] = IF j = i THEN x ELSE s[j]
  <2>1. /\ ReplaceAt(s, i, x) \in Seq(BlockRec) /\ Len(ReplaceAt(s, i, x)) = Len(s)
        /\ \A j \in 1 .. Len(s) : ReplaceAt(s, i, x)[j] = IF j = i THEN x ELSE s[j]
    <3>1. s \in Seq(BlockRec) /\ i \in 1 .. Len(s) /\ x \in BlockRec
      BY <1>1
    <3>. QED
      BY ONLY <3>1, Replaced
  <2>2. t = ReplaceAt(s, i, x)
    OBVIOUS
  <2>. QED
    BY ONLY <2>1, <2>2
<1>3. ASSUME NEW j \in 1 .. Len(s)
      PROVE  t[j].vaddr = s[j].vaddr /\ t[j].size = s[j].size /\ End(t[j]) = End(s[j])
  BY <1>2 DEF End
<1>4. 1 \in 1 .. Len(s) /\ Len(s) \in 1 .. Len(s)
  BY <1>1
<1>5. t[1].vaddr = 0 /\ End(t[Len(t)]) = n
  BY <1>2, <1>3, <1>4 DEF Tiles
<1>6. ASSUME NEW j \in 1 .. Len(t) - 1 PROVE End(t[j]) = t[j + 1].vaddr
  <2>1. j \in 1 .. Len(s) - 1 /\ j \in 1 .. Len(s) /\ j + 1 \in 1 .. Len(s)
    BY <1>1, <1>2, <1>6
  <2>2. End(s[j]) = s[j + 1].vaddr
    BY <2>1 DEF Tiles
  <2>. QED
    BY <1>3, <2>1, <2>2
<1>7. ASSUME NEW j \in 1 .. Len(t), NEW k \in 1 .. Len(t), j < k
      PROVE  End(t[j]) <= t[k].vaddr
  <2>1. End(s[j]) <= s[k].vaddr
    BY <1>2, <1>7 DEF Tiles
  <2>. QED
    BY <1>2, <1>3, <1>7, <2>1
<1>8. ASSUME NEW j \in 1 .. Len(t) PROVE t[j].size > 0
  BY <1>2, <1>3, <1>8 DEF Tiles
<1>9. Tiles(t, n)
  BY <1>1, <1>2, <1>5, <1>6, <1>7, <1>8 DEF Tiles
<1>. QED
  BY <1>2, <1>9

LEMMA MergeTiles ==
    ASSUME NEW s, NEW n, Tiles(s, n), NEW i \in 1 .. Len(s) - 1, NEW x \in BlockRec,
           x.vaddr = s[i].vaddr, x.size = s[i].size + s[i + 1].size,
           NEW t, t = ReplaceAt(RemoveAt(s, i + 1), i, x)
    PROVE  /\ Tiles(t, n) /\ Len(t) = Len(s) - 1
           /\ t[i] = x
           /\ \A j \in 1 .. Len(s) : j < i => t[j] = s[j]
           /\ \A j \in 1 .. Len(s) : j > i + 1 => t[j - 1] = s[j]
<1>1. /\ s \in Seq(BlockRec) /\ Len(s) \in Nat /\ Len(s) >= 1
      /\ i \in 1 .. Len(s) /\ i + 1 \in 1 .. Len(s)
  <2>1. s \in Seq(BlockRec) /\ Len(s) \in Nat /\ Len(s) >= 1
    BY DEF Tiles
  <2>. QED
    BY <2>1
<1>2. PICK u : u = RemoveAt(s, i + 1)
  OBVIOUS
<1>3. /\ u \in Seq(BlockRec) /\ Len(u) = Len(s) - 1
      /\ \A j \in 1 .. Len(s) - 1 : u[j] = IF j < i + 1 THEN s[j] ELSE s[j + 1]
  <2>1. PICK k \in 1 .. Len(s) : k = i + 1
    BY <1>1
  <2>2. /\ RemoveAt(s, k) \in Seq(BlockRec) /\ Len(RemoveAt(s, k)) = Len(s) - 1
        /\ \A j \in 1 .. Len(s) - 1 :
              RemoveAt(s, k)[j] = IF j < k THEN s[j] ELSE s[j + 1]
    BY <1>1, Removed
  <2>3. u = RemoveAt(s, k)
    BY <1>2, <2>1
  <2>. QED
    BY <2>1, <2>2, <2>3
<1>4. /\ t \in Seq(BlockRec) /\ Len(t) = Len(u)
      /\ \A j \in 1 .. Len(u) : t[j] = IF j = i THEN x ELSE u[j]
  <2>1. u \in Seq(BlockRec) /\ i \in 1 .. Len(u) /\ x \in BlockRec
    BY <1>1, <1>3
  <2>2. /\ ReplaceAt(u, i, x) \in Seq(BlockRec) /\ Len(ReplaceAt(u, i, x)) = Len(u)
        /\ \A j \in 1 .. Len(u) : ReplaceAt(u, i, x)[j] = IF j = i THEN x ELSE u[j]
    BY <2>1, Replaced
  <2>. QED
    BY <1>2, <2>2
<1>5. t \in Seq(BlockRec) /\ Len(t) = Len(s) - 1
  BY <1>3, <1>4
<1>6. t[i] = x
  BY <1>1, <1>3, <1>4
<1>7. ASSUME NEW j \in 1 .. Len(s), j < i PROVE t[j] = s[j]
  <2>1. j \in 1 .. Len(u) /\ j # i /\ j < i + 1 /\ j \in 1 .. Len(s) - 1
    BY <1>1, <1>3, <1>7
  <2>. QED
    BY <1>3, <1>4, <2>1
<1>8. ASSUME NEW j \in 1 .. Len(s), j > i + 1 PROVE t[j - 1] = s[j]
  <2>1. /\ j - 1 \in 1 .. Len(u) /\ j - 1 # i /\ ~(j - 1 < i + 1)
        /\ j - 1 \in 1 .. Len(s) - 1 /\ j - 1 + 1 = j
    BY <1>1, <1>3, <1>8
  <2>. QED
    BY <1>3, <1>4, <2>1
\* The first and the last block of s that make up block j of t.
<1> DEFINE f(j) == IF j <= i THEN j ELSE j + 1
           l(j) == IF j < i THEN j ELSE j + 1
<1>9. ASSUME NEW j \in 1 .. Len(s) - 1
      PROVE  /\ f(j) \in 1 .. Len(s) /\ l(j) \in 1 .. Len(s)
             /\ t[j].vaddr \in Nat /\ End(t[j]) \in Nat /\ t[j].size > 0
             /\ t[j].vaddr = s[f(j)].vaddr /\ End(t[j]) = End(s[l(j)])
  <2>1. CASE j = i
    <3>1. t[j] = x /\ f(j) = i /\ l(j) = i + 1
      BY <1>1, <1>6, <2>1
    <3>2. /\ s[i].vaddr \in Nat /\ s[i].size \in Nat /\ s[i].size > 0
          /\ End(s[i]) = s[i].vaddr + s[i].size
      BY <1>1, BlockFacts
    <3>3. PICK k \in 1 .. Len(s) : k = i + 1
      BY <1>1
    <3>4. /\ s[k].vaddr \in Nat /\ s[k].size \in Nat /\ s[k].size > 0
          /\ End(s[k]) = s[k].vaddr + s[k].size
      BY <3>3, BlockFacts
    <3>5. End(s[i]) = s[i + 1].vaddr
      BY DEF Tiles
    <3>6. End(x) = s[i].vaddr + (s[i].size + s[i + 1].size)
      BY DEF End
    <3>. QED
      BY <1>1, <3>1, <3>2, <3>3, <3>4, <3>5, <3>6, SMTT(30)
  <2>2. CASE j < i
    <3>1. t[j] = s[j] /\ j \in 1 .. Len(s) /\ f(j) = j /\ l(j) = j
      BY <1>1, <1>7, <1>9, <2>2
    <3>2. s[j].vaddr \in Nat /\ s[j].size > 0 /\ End(s[j]) \in Nat
      BY <3>1, BlockFacts
    <3>. QED
      BY <3>1, <3>2
  <2>3. CASE j > i
    <3>1. f(j) = j + 1 /\ l(j) = j + 1 /\ j + 1 \in 1 .. Len(s) /\ j + 1 > i + 1 /\ j + 1 - 1 = j
      BY <1>1, <1>9, <2>3
    <3>2. t[j] = s[j + 1]
      BY <1>8, <3>1
    <3>3. s[j + 1].vaddr \in Nat /\ s[j + 1].size > 0 /\ End(s[j + 1]) \in Nat
      BY <3>1, BlockFacts
    <3>. QED
      BY <3>1, <3>2, <3>3
  <2>. QED
    BY <1>1, <1>9, <2>1, <2>2, <2>3
<1>10. Len(t) >= 1 /\ t[1].vaddr = 0 /\ End(t[Len(t)]) = n
  <2>1. f(1) = 1 /\ 1 \in 1 .. Len(s) - 1
    BY <1>1
  <2>2. l(Len(s) - 1) = Len(s) /\ Len(s) - 1 \in 1 .. Len(s) - 1
    BY <1>1
  <2>3. t[1].vaddr = s[1].vaddr
    BY <1>9, <2>1
  <2>4. End(t[Len(s) - 1]) = End(s[Len(s)])
    BY <1>9, <2>2
  <2>5. s[1].vaddr = 0 /\ End(s[Len(s)]) = n
    BY DEF Tiles
  <2>. QED
    BY <1>1, <1>5, <2>3, <2>4, <2>5
<1>11. ASSUME NEW j \in 1 .. Len(t) - 1 PROVE End(t[j]) = t[j + 1].vaddr
  <2>0. j \in 1 .. Len(s) - 1 /\ j + 1 \in 1 .. Len(s) - 1 /\ j \in Nat
    BY <1>1, <1>5, <1>11
  <2>1. f(j + 1) = l(j) + 1 /\ l(j) \in 1 .. Len(s) - 1
    BY <1>1, <2>0
  <2>2. End(s[l(j)]) = s[l(j) + 1].vaddr
    BY <2>1 DEF Tiles
  <2>3. End(t[j]) = End(s[l(j)])
    BY <1>9, <2>0
  <2>4. t[j + 1].vaddr = s[f(j + 1)].vaddr
    BY <1>9, <2>0
  <2>. QED
    BY <2>1, <2>2, <2>3, <2>4
<1>12. ASSUME NEW j \in 1 .. Len(t), NEW k \in 1 .. Len(t), j < k
       PROVE  End(t[j]) <= t[k].vaddr
  <2>0. j \in 1 .. Len(s) - 1 /\ k \in 1 .. Len(s) - 1
    BY <1>5, <1>12
  <2>1. l(j) < f(k) /\ l(j) \in 1 .. Len(s) /\ f(k) \in 1 .. Len(s)
    BY <1>1, <1>12, <2>0
  <2>2. End(s[l(j)]) <= s[f(k)].vaddr
    BY <2>1 DEF Tiles
  <2>3. End(t[j]) = End(s[l(j)])
    BY <1>9, <2>0
  <2>4. t[k].vaddr = s[f(k)].vaddr
    BY <1>9, <2>0
  <2>. QED
    BY <2>2, <2>3, <2>4
<1>13. ASSUME NEW j \in 1 .. Len(t) PROVE t[j].size > 0
  BY <1>5, <1>9, <1>13
<1>14. Tiles(t, n)
  BY <1>5, <1>10, <1>11, <1>12, <1>13 DEF Tiles
<1>. QED
  BY <1>5, <1>6, <1>7, <1>8, <1>14

-----------------------------------------------------------------------------
(***************************************************************************)
(* Sizes, and the mark of a free.                                          *)
(***************************************************************************)
LEMMA RoundUpFacts ==
    ASSUME NEW n \in Nat, NEW to \in Nat \ {0}
    PROVE  /\ RoundUp(n, to) \in Nat /\ n <= RoundUp(n, to)
           /\ n > 0 => RoundUp(n, to) >= to
<1> DEFINE q == (n + to - 1) \div to
           m == (n + to - 1) % to
           r == to * q
<1>1. q \in Nat /\ m \in Nat /\ m < to /\ n + to - 1 = (to * q) + m
  OBVIOUS
<1>2. RoundUp(n, to) = r
  <2>1. RoundUp(n, to) = q * to
    BY DEF RoundUp
  <2>2. q * to = to * q
    BY <1>1
  <2>. QED
    BY <2>1, <2>2
<1> HIDE DEF q, m
<1>3. r \in Nat /\ n + to - 1 = r + m
  BY <1>1
<1>4. n > 0 => r >= to
  <2>1. CASE q = 0
    <3>1. r = 0
      BY <2>1
    <3>. QED
      BY <1>1, <1>3, <3>1
  <2>2. CASE q # 0
    BY <1>1, <2>2
  <2>. QED
    BY <2>1, <2>2
<1> HIDE DEF r
<1>5. n <= r
  BY <1>1, <1>3
<1>. QED
  BY <1>2, <1>3, <1>4, <1>5

LEMMA MarkFacts ==
    ASSUME NEW b \in BlockRec
    PROVE  /\ Mark(b) \in BlockRec
           /\ Mark(b).vaddr = b.vaddr /\ Mark(b).size = b.size
           /\ b.vaddr = req.total => Mark(b).free = TRUE
           /\ b.vaddr # req.total => Mark(b) = b
<1>1. b.vaddr \in Nat /\ b.size \in Nat
  BY DEF BlockRec
<1>2. CASE b.vaddr = req.total
  <2>0. PICK f \in BOOLEAN : f = TRUE
    OBVIOUS
  <2>1. [b EXCEPT !.free = f] = [vaddr |-> b.vaddr, size |-> b.size, free |-> f]
    BY DEF BlockRec
  <2>2. Mark(b) = [vaddr |-> b.vaddr, size |-> b.size, free |-> f]
    <3>1. Mark(b) = [b EXCEPT !.free = f]
      BY <1>2, <2>0 DEF Mark
    <3>. QED
      BY <2>1, <3>1
  <2>3. [vaddr |-> b.vaddr, size |-> b.size, free |-> f] \in BlockRec
    BY <1>1 DEF BlockRec
  <2>4. /\ Mark(b).vaddr = b.vaddr /\ Mark(b).size = b.size
    BY <2>2
  <2>5. Mark(b).free = TRUE
    BY <2>0, <2>2
  <2>6. Mark(b) \in BlockRec
    BY <2>2, <2>3
  <2>. QED
    BY <1>2, <2>4, <2>5, <2>6
<1>3. CASE b.vaddr # req.total
  BY <1>3 DEF Mark
<1>. QED
  BY <1>2, <1>3

-----------------------------------------------------------------------------
(***************************************************************************)
(* The steps.                                                              *)
(***************************************************************************)
LEMMA HeapInvInit == Init => IInv
<1>. SUFFICES ASSUME Init PROVE IInv
  OBVIOUS
<1>1. blocks = <<>> /\ Len(blocks) = 0
  BY DEF Init
<1>2. ListInv
  BY DEF Init, ListInv
<1>3. LiveInv
  BY <1>1 DEF Init, LiveInv
<1>4. LoopInv
  <2>1. [total |-> 0, elem |-> 1, count |-> 0] \in [total : Nat, elem : Nat, count : Nat]
    OBVIOUS
  <2>. QED
    BY <2>1 DEF Init, LoopInv, NoReq
<1>. QED
  BY <1>2, <1>3, <1>4 DEF IInv

\* Between calls, and on the ways into a heap that is up and out of it,
\* there is no list.
LEMMA OffStep ==
    ASSUME IInv, ~up, pc \notin {"scan", "sweep"}, pc' \notin {"scan", "sweep"},
           pc' = "init" => pc = "init",
           UNCHANGED <<blocks, size, up, live, callVars>>
    PROVE  IInv'
<1>1. UNCHANGED <<blocks, size, up, live, cur, req>>
  BY DEF callVars
<1>2. ListInv'
  BY <1>1 DEF IInv, ListInv
<1>3. LiveInv'
  <2>1. live' = {} /\ blocks' = <<>>
    BY <1>1 DEF IInv, ListInv
  <2>. QED
    BY <2>1 DEF LiveInv
<1>4. LoopInv'
  BY <1>1 DEF IInv, LoopInv
<1>. QED
  BY <1>2, <1>3, <1>4 DEF IInv

LEMMA InitTable ==
    ASSUME NEW k \in 1 .. Filled
    PROVE  /\ OnFailure[k] \in {"idle"} \cup Labels
           /\ OnFailure[k] = "idle" => TakenAt(k) = {}
           /\ OnFailure[k] # "idle" => TakenAt(k) \subseteq Owed(OnFailure[k])
           /\ OnFailure[k] \in {"undo", "detach"} => {"attachment", "fd"} \subseteq TakenAt(k)
           /\ k < Filled =>
                 TakenAt(k + 1) = (TakenAt(k) \cup InitTakes[k])
                                    \ (IF k = Attached THEN ExitFrees ELSE {})
           /\ k < Filled => InitTakes[k] \subseteq HeapTakes \cup ExitFrees
<1>. USE DEF OnFailure, TakenAt, Labels, Owed, InitTakes, Attached, Filled, ExitFrees, HeapTakes
<1>1. CASE k = 1
  BY <1>1
<1>2. CASE k = 2
  BY <1>2
<1>3. CASE k = 3
  BY <1>3
<1>4. CASE k = 4
  BY <1>4
<1>5. CASE k = 5
  BY <1>5
<1>6. CASE k = 6
  BY <1>6
<1>7. CASE k = 7
  BY <1>7
<1>8. CASE k = 8
  BY <1>8
<1>9. CASE k = 9
  BY <1>9
<1>10. CASE k = 10
  BY <1>10
<1>. QED
  BY <1>1, <1>2, <1>3, <1>4, <1>5, <1>6, <1>7, <1>8, <1>9, <1>10

LEMMA InitStartStep ==
    ASSUME IInv, NEW asked \in InitSizes, InitStart(asked)
    PROVE  IInv'
<1>1. PICK n : n = RoundUp(asked, RoundTo)
  OBVIOUS
<1>2. n \in Nat /\ n > 0
  <2>1. asked \in Nat /\ asked > 0 /\ RoundTo \in Nat \ {0} /\ asked \in Nat \ {0}
    BY CudamemAssumption
  <2>2. /\ RoundUp(asked, RoundTo) \in Nat /\ asked <= RoundUp(asked, RoundTo)
    BY <2>1, RoundUpFacts
  <2>. QED
    BY <1>1, <2>1, <2>2
<1>3. /\ pc = "idle" /\ ~up /\ pc' = "init"
      /\ req' = [NoReq EXCEPT !.total = n]
      /\ UNCHANGED <<blocks, size, up, live, cur>>
  BY <1>1 DEF InitStart
<1>4. blocks = <<>> /\ size = 0 /\ live = {} /\ cur = 0
  BY <1>3 DEF IInv, ListInv, LoopInv
<1>5. ListInv'
  BY <1>3, <1>4 DEF IInv, ListInv
<1>6. LiveInv'
  BY <1>3, <1>4 DEF LiveInv
<1>7. LoopInv'
  <2>1. PICK r : r = [total |-> n, elem |-> 1, count |-> 0]
    OBVIOUS
  <2>2. req' = r
    BY <1>3, <2>1 DEF NoReq
  <2>3. r \in [total : Nat, elem : Nat, count : Nat] /\ r.total > 0
    BY <1>2, <2>1
  <2>. QED
    BY <1>3, <1>4, <2>2, <2>3 DEF LoopInv
<1>. QED
  BY <1>5, <1>6, <1>7 DEF IInv

LEMMA InitDoneStep ==
    ASSUME IInv, InitDone
    PROVE  IInv'
<1>1. PICK n : n = req.total
  OBVIOUS
<1>2. PICK x : x = [vaddr |-> 0, size |-> n, free |-> TRUE]
  OBVIOUS
<1>3. /\ pc = "init" /\ pc' = "idle" /\ up' = TRUE /\ size' = n /\ blocks' = <<x>>
      /\ UNCHANGED <<live, cur, req>>
  BY <1>1, <1>2 DEF InitDone, callVars
<1>4. /\ live = {} /\ cur = 0 /\ req \in [total : Nat, elem : Nat, count : Nat]
      /\ n \in Nat /\ n > 0
  <2>1. ~up
    BY <1>3 DEF IInv, ListInv
  <2>2. live = {} /\ cur = 0 /\ req \in [total : Nat, elem : Nat, count : Nat] /\ req.total > 0
    BY <1>3, <2>1 DEF IInv, ListInv, LoopInv
  <2>. QED
    BY <1>1, <2>2
<1>5. x \in BlockRec
  BY <1>2, <1>4 DEF BlockRec
<1>6. x.vaddr = 0 /\ x.size = n
  BY <1>2
<1>7. x.free = TRUE
  BY <1>2
<1>8. PICK t : t = <<x>>
  OBVIOUS
<1>9. t \in Seq(BlockRec) /\ Len(t) = 1 /\ t[1] = x
  BY <1>5, <1>8
<1>10. Tiles(t, n)
  <2>1. End(t[1]) = n
    BY <1>4, <1>6, <1>9 DEF End
  <2>. QED
    BY <1>4, <1>6, <1>9, <2>1 DEF Tiles
<1>11. ListInv'
  BY <1>3, <1>4, <1>8, <1>10 DEF ListInv
<1>12. LiveInv'
  <2>1. \A i \in 1 .. Len(t) : t[i].free = TRUE
    BY <1>7, <1>9
  <2>. QED
    BY <1>3, <1>4, <1>8, <2>1 DEF LiveInv
<1>13. LoopInv'
  BY <1>3, <1>4 DEF LoopInv
<1>. QED
  BY <1>11, <1>12, <1>13 DEF IInv

LEMMA InitStep ==
    ASSUME IInv, HoldInv, HeapInit
    PROVE  IInv'
<1>1. CASE \E asked \in InitSizes : InitStart(asked)
  BY <1>1, InitStartStep
<1>2. CASE InitDone
  BY <1>2, InitDoneStep
<1>3. CASE InitTake \/ InitFail
  <2>1. pc = "init" /\ UNCHANGED <<blocks, size, up, live, callVars>>
    BY <1>3 DEF InitTake, InitFail
  <2>2. ~up
    BY <2>1 DEF IInv, ListInv
  <2>3. pc' \notin {"scan", "sweep"}
    <3>1. CASE InitTake
      BY <2>1, <3>1 DEF InitTake
    <3>2. CASE InitFail
      <4>1. step \in 1 .. Filled /\ pc' = OnFailure[step]
        BY <2>1, <3>2 DEF InitFail, HoldInv
      <4>. QED
        BY <4>1, InitTable DEF Labels
    <3>. QED
      BY <1>3, <3>1, <3>2
  <2>. QED
    BY <2>1, <2>2, <2>3, OffStep
<1>4. CASE AttachUndo \/ AttachExit \/ InitError
  <2>1. /\ pc \in {"undo", "exit", "error"} /\ pc' \in {"exit", "error", "idle"}
        /\ UNCHANGED <<blocks, size, up, live, callVars>>
    BY <1>4 DEF AttachUndo, AttachExit, InitError, GiveBack
  <2>2. ~up
    BY <2>1 DEF IInv, ListInv
  <2>. QED
    BY <2>1, <2>2, OffStep
<1>. QED
  BY <1>1, <1>2, <1>3, <1>4 DEF HeapInit

LEMMA TermStep ==
    ASSUME IInv, HeapTerm
    PROVE  IInv'
<1>1. CASE TermStart
  <2>1. /\ pc = "idle" /\ pc' = "detach" /\ live = {} /\ up' = FALSE
        /\ blocks' = <<>> /\ size' = 0
        /\ UNCHANGED <<live, cur, req>>
    BY <1>1 DEF TermStart, callVars
  <2>2. ListInv'
    BY <2>1 DEF ListInv
  <2>3. LiveInv'
    BY <2>1 DEF LiveInv
  <2>4. LoopInv'
    BY <2>1 DEF IInv, LoopInv
  <2>. QED
    BY <2>2, <2>3, <2>4 DEF IInv
<1>2. CASE DmabufDetach \/ HeapRest
  <2>1. /\ pc \in {"detach", "rest"} /\ pc' \in {"rest", "idle"}
        /\ UNCHANGED <<blocks, size, up, live, callVars>>
    BY <1>2 DEF DmabufDetach, HeapRest, GiveBack
  <2>2. ~up
    BY <2>1 DEF IInv, ListInv
  <2>. QED
    BY <2>1, <2>2, OffStep
<1>. QED
  BY <1>1, <1>2 DEF HeapTerm

LEMMA StartStep ==
    ASSUME IInv, NEW count \in Nat \ {0}, NEW elem \in Nat \ {0}, NEW align \in Nat \ {0},
           StartScan(count, elem, align)
    PROVE  IInv'
<1>. DEFINE ce == count * elem
            total == RoundUp(ce, align)
<1>1. ce \in Nat /\ elem <= ce
  <2>1. count * elem \in Nat /\ count * elem = elem * count
    OBVIOUS
  <2>2. elem * 1 <= elem * count
    OBVIOUS
  <2>. QED
    BY <2>1, <2>2
<1>2. total \in Nat /\ ce <= total
  <2>. HIDE DEF ce
  <2>. QED
    BY <1>1, RoundUpFacts
<1>3. /\ pc = "idle" /\ up /\ pc' = "scan" /\ cur' = 1
      /\ req' = [total |-> total, elem |-> elem, count |-> count]
      /\ UNCHANGED <<blocks, size, up, live>>
  BY DEF StartScan
<1>. HIDE DEF total
<1>4. PICK r : r = [total |-> total, elem |-> elem, count |-> count]
  OBVIOUS
<1>5. /\ r.total = total /\ r.elem = elem /\ r.count = count /\ req' = r
      /\ r \in [total : Nat, elem : Nat, count : Nat]
  BY <1>2, <1>3, <1>4
<1>6. 0 < r.elem /\ r.elem <= r.total /\ r.count * r.elem <= r.total
  <2>1. r.count * r.elem = ce
    BY <1>5
  <2>. HIDE DEF ce
  <2>. QED
    BY <1>1, <1>2, <1>5, <2>1
<1>7. ListInv'
  BY <1>3 DEF IInv, ListInv
<1>8. LiveInv'
  BY <1>3 DEF IInv, LiveInv, Released
<1>9. LoopInv'
  <2>1. Len(blocks) \in Nat /\ 1 \in 1 .. Len(blocks) + 1
    BY <1>3 DEF IInv, ListInv, Tiles
  <2>. QED
    BY <1>3, <1>5, <1>6, <2>1 DEF LoopInv
<1>. QED
  BY <1>7, <1>8, <1>9 DEF IInv

LEMMA AllocStep ==
    ASSUME IInv, AllocAligned \/ AllocArray
    PROVE  IInv'
<1>1. CASE AllocAligned
  <2>1. PICK n \in Sizes, align \in Alignments :
            StartScan(RoundUp(n, PageSize) \div PageSize, PageSize, align)
    BY <1>1 DEF AllocAligned
  <2>2. n \in Nat /\ n > 0 /\ align \in Nat \ {0} /\ PageSize \in Nat \ {0}
    BY CudamemAssumption
  <2>3. RoundUp(n, PageSize) \in Nat /\ RoundUp(n, PageSize) >= PageSize
    BY <2>2, RoundUpFacts
  <2>4. PICK r \in Nat : r = RoundUp(n, PageSize)
    BY <2>3
  <2>5. r \div PageSize \in Nat \ {0}
    BY <2>2, <2>3, <2>4
  <2>. QED
    BY <2>1, <2>2, <2>4, <2>5, StartStep
<1>2. CASE AllocArray
  <2>1. PICK a \in Arrays : StartScan(a.count, a.elem, PageSize)
    BY <1>2 DEF AllocArray
  <2>2. a.count \in Nat \ {0} /\ a.elem \in Nat \ {0} /\ PageSize \in Nat \ {0}
    BY CudamemAssumption
  <2>. QED
    BY <2>1, <2>2, StartStep
<1>. QED
  BY <1>1, <1>2

\* What a scan knows of the block it is at.
LEMMA ScanFacts ==
    ASSUME IInv, pc = "scan", cur <= Len(blocks)
    PROVE  /\ up /\ Tiles(blocks, size) /\ cur \in 1 .. Len(blocks) /\ Len(blocks) \in Nat
           /\ req.total \in Nat /\ req.elem \in Nat /\ req.count \in Nat
           /\ 0 < req.elem /\ req.elem <= req.total /\ req.count * req.elem <= req.total
<1>1. up /\ Tiles(blocks, size)
  BY DEF IInv, ListInv
<1>2. Len(blocks) \in Nat
  BY <1>1 DEF Tiles
<1>3. cur \in 1 .. Len(blocks)
  BY <1>2 DEF IInv, LoopInv
<1>. QED
  BY <1>1, <1>2, <1>3 DEF IInv, LoopInv

LEMMA SkipStep ==
    ASSUME IInv, ScanSkip
    PROVE  IInv'
<1>1. /\ pc = "scan" /\ cur <= Len(blocks) /\ cur' = cur + 1
      /\ UNCHANGED <<blocks, size, up, live, pc, req>>
  BY DEF ScanSkip
<1>2. cur + 1 \in 1 .. Len(blocks) + 1
  BY <1>1, ScanFacts
<1>3. ListInv' /\ LoopInv'
  BY <1>1, <1>2 DEF IInv, ListInv, LoopInv
<1>4. LiveInv'
  BY <1>1 DEF IInv, LiveInv, Released
<1>. QED
  BY <1>3, <1>4 DEF IInv

LEMMA FailStep ==
    ASSUME IInv, ScanFail
    PROVE  IInv'
<1>1. /\ pc = "scan" /\ pc' = "idle" /\ cur' = 0
      /\ UNCHANGED <<blocks, size, up, live, req>>
  BY DEF ScanFail
<1>2. ListInv' /\ LoopInv'
  BY <1>1 DEF IInv, ListInv, LoopInv
<1>3. LiveInv'
  BY <1>1 DEF IInv, LiveInv, Released
<1>. QED
  BY <1>2, <1>3 DEF IInv

\* Every block of s but the i-th is one of t.
OthersKept(s, t, i) ==
    \A j \in 1 .. Len(s) : j # i => \E k \in 1 .. Len(t) : t[k] = s[j]

\* A block of t that is not free was one of s, or is at address ptr.
NoneTakenBut(s, t, ptr) ==
    \A k \in 1 .. Len(t) :
        \/ t[k].free = TRUE
        \/ t[k].vaddr = ptr
        \/ \E j \in 1 .. Len(s) : t[k] = s[j]

NoneTaken(s, t) ==
    \A k \in 1 .. Len(t) : t[k].free = TRUE \/ \E j \in 1 .. Len(s) : t[k] = s[j]

\* A scan that takes nothing leaves every allocation its block.
LEMMA CutKeepsLive ==
    ASSUME LiveInv, NEW i \in 1 .. Len(blocks), blocks[i].free = TRUE,
           NEW t, blocks' = t, live' = live, pc = "scan", pc' = "scan",
           OthersKept(blocks, t, i), NoneTaken(blocks, t)
    PROVE  LiveInv'
<1>1. ASSUME NEW a \in live
      PROVE  /\ a.ptr \in Nat /\ a.elem \in Nat /\ a.count \in Nat
             /\ \E k \in 1 .. Len(t) : Serves(t[k], a)
  <2>1. PICK j \in 1 .. Len(blocks) : Serves(blocks[j], a)
    BY DEF LiveInv
  <2>2. j # i
    BY <2>1 DEF Serves
  <2>3. PICK k \in 1 .. Len(t) : t[k] = blocks[j]
    BY <2>2 DEF OthersKept
  <2>4. Serves(t[k], a)
    BY <2>1, <2>3 DEF Serves
  <2>. QED
    BY <2>4 DEF LiveInv
<1>2. ASSUME NEW k \in 1 .. Len(t)
      PROVE  t[k].free = TRUE \/ \E a \in live : a.ptr = t[k].vaddr
  <2>1. CASE \E j \in 1 .. Len(blocks) : t[k] = blocks[j]
    <3>1. PICK j \in 1 .. Len(blocks) : t[k] = blocks[j]
      BY <2>1
    <3>2. blocks[j].free = TRUE \/ \E a \in live : a.ptr = blocks[j].vaddr
      BY DEF LiveInv, Released
    <3>. QED
      BY <3>1, <3>2
  <2>. QED
    BY <2>1 DEF NoneTaken
<1>3. \A a, c \in live : a.ptr = c.ptr => a = c
  BY DEF LiveInv
<1>. QED
  BY <1>1, <1>2, <1>3 DEF LiveInv, Serves

LEMMA GapStep ==
    ASSUME IInv, ScanGap
    PROVE  IInv'
<1>1. /\ pc = "scan" /\ cur <= Len(blocks) /\ Fits(blocks[cur]) /\ NeedsGap(blocks[cur])
      /\ blocks' = CutAt(cur, Disalignment(blocks[cur]), TRUE) /\ cur' = cur + 1
      /\ UNCHANGED <<size, up, live, pc, req>>
  BY DEF ScanGap
<1>2. /\ up /\ Tiles(blocks, size) /\ cur \in 1 .. Len(blocks) /\ Len(blocks) \in Nat
      /\ req.total \in Nat /\ req.elem \in Nat
      /\ 0 < req.elem /\ req.elem <= req.total
  BY <1>1, ScanFacts
<1>3. PICK i \in 1 .. Len(blocks) : i = cur
  BY <1>2
<1>4. PICK b : b = blocks[i]
  OBVIOUS
<1>5. /\ b.vaddr \in Nat /\ b.size \in Nat /\ b.free \in BOOLEAN
  BY <1>2, <1>4, BlockFacts
<1>6. b.free = TRUE
  BY <1>1, <1>3, <1>4, <1>5 DEF Fits
<1>7. PICK gap : gap = Disalignment(b)
  OBVIOUS
<1>8. gap \in Nat /\ 0 < gap /\ gap < b.size
  <2>1. DpageRemaining(b) \in Int
    BY <1>5, CudamemAssumption DEF DpageRemaining
  <2>2. gap \in 0 .. req.elem - 1
    <3>1. PICK d \in Int : d = DpageRemaining(b)
      BY <2>1
    <3>2. PICK e \in Nat \ {0} : e = req.elem
      BY <1>2
    <3>3. d % e \in 0 .. e - 1
      OBVIOUS
    <3>4. gap = d % e
      BY <1>7, <3>1, <3>2 DEF Disalignment
    <3>. QED
      BY <3>2, <3>3, <3>4
  <2>3. gap # 0
    BY <1>1, <1>3, <1>4, <1>7 DEF NeedsGap
  <2>4. b.size >= req.total
    BY <1>1, <1>3, <1>4 DEF Fits
  <2>. QED
    BY <1>2, <1>5, <2>2, <2>3, <2>4
<1>9. PICK free \in BOOLEAN : free = TRUE
  OBVIOUS
<1>10. PICK x : x = [vaddr |-> b.vaddr, size |-> gap, free |-> free]
  OBVIOUS
<1>11. PICK y : y = [vaddr |-> b.vaddr + gap, size |-> b.size - gap, free |-> free]
  OBVIOUS
<1>12. x \in BlockRec /\ x.vaddr = b.vaddr /\ x.size = gap
  BY <1>5, <1>8, <1>10 DEF BlockRec
<1>13. y \in BlockRec /\ y.vaddr = b.vaddr + gap /\ y.size = b.size - gap
  <2>1. b.vaddr + gap \in Nat /\ b.size - gap \in Nat
    BY <1>5, <1>8
  <2>. QED
    BY <1>11, <2>1 DEF BlockRec
<1>14. x.free = TRUE /\ y.free = TRUE
  BY <1>9, <1>10, <1>11
<1>15. PICK t : t = ReplaceAt(InsertAt(blocks, i + 1, y), i, x)
  OBVIOUS
<1>16. blocks' = t
  BY <1>1, <1>3, <1>4, <1>7, <1>9, <1>10, <1>11, <1>15 DEF CutAt
<1>17. /\ Tiles(t, size) /\ Len(t) = Len(blocks) + 1 /\ t[i] = x /\ t[i + 1] = y
       /\ \A j \in 1 .. Len(blocks) : j < i => t[j] = blocks[j]
       /\ \A j \in 1 .. Len(blocks) : j > i => t[j + 1] = blocks[j]
  <2>1. /\ x.vaddr = blocks[i].vaddr /\ x.size = gap /\ gap < blocks[i].size
        /\ y.vaddr = blocks[i].vaddr + gap /\ y.size = blocks[i].size - gap
    BY <1>4, <1>8, <1>12, <1>13
  <2>2. /\ gap \in Nat /\ 0 < gap /\ x \in BlockRec /\ y \in BlockRec
        /\ Tiles(blocks, size) /\ i \in 1 .. Len(blocks)
        /\ t = ReplaceAt(InsertAt(blocks, i + 1, y), i, x)
    BY <1>2, <1>8, <1>12, <1>13, <1>15
  <2>. QED
    BY ONLY <2>1, <2>2, CutTiles
<1>18. ASSUME NEW j \in 1 .. Len(blocks), j # i
       PROVE  \E k \in 1 .. Len(t) : t[k] = blocks[j]
  <2>1. CASE j < i
    BY <1>2, <1>17, <2>1
  <2>2. CASE j > i
    <3>1. j + 1 \in 1 .. Len(t)
      BY <1>2, <1>17
    <3>. QED
      BY <1>17, <2>2, <3>1
  <2>. QED
    BY <1>18, <2>1, <2>2
<1>19. ASSUME NEW k \in 1 .. Len(t)
       PROVE  t[k].free = TRUE \/ \E j \in 1 .. Len(blocks) : t[k] = blocks[j]
  <2>1. CASE k = i \/ k = i + 1
    BY <1>14, <1>17, <2>1
  <2>2. CASE k < i
    <3>1. k \in 1 .. Len(blocks)
      BY <1>2, <2>2
    <3>. QED
      BY <1>17, <2>2, <3>1
  <2>3. CASE k > i + 1
    <3>1. k - 1 \in 1 .. Len(blocks) /\ k - 1 > i /\ k - 1 + 1 = k
      BY <1>2, <1>17, <2>3
    <3>. QED
      BY <1>17, <3>1
  <2>4. k = i \/ k = i + 1 \/ k < i \/ k > i + 1
    OBVIOUS
  <2>. QED
    BY <2>1, <2>2, <2>3, <2>4
<1>20. LiveInv'
  <2>1. LiveInv /\ i \in 1 .. Len(blocks) /\ blocks[i].free = TRUE
    BY <1>4, <1>6 DEF IInv
  <2>2. live' = live /\ pc = "scan" /\ pc' = "scan" /\ blocks' = t
    BY <1>1, <1>16
  <2>3. OthersKept(blocks, t, i) /\ NoneTaken(blocks, t)
    BY <1>18, <1>19 DEF OthersKept, NoneTaken
  <2>. QED
    BY ONLY <2>1, <2>2, <2>3, CutKeepsLive
<1>21. ListInv'
  BY <1>1, <1>2, <1>16, <1>17 DEF IInv, ListInv
<1>22. LoopInv'
  <2>1. cur + 1 \in 1 .. Len(t) + 1
    BY <1>2, <1>17
  <2>. QED
    BY <1>1, <1>16, <2>1 DEF IInv, LoopInv
<1>. QED
  BY <1>20, <1>21, <1>22 DEF IInv

\* A scan that takes a block, whole or cut: the block is the new allocation's.
LEMMA TakenKeepsLive ==
    ASSUME LiveInv, NEW n, Tiles(blocks, n), NEW i \in 1 .. Len(blocks), blocks[i].free = TRUE,
           NEW t, blocks' = t, pc = "scan", pc' = "idle",
           NEW new, live' = live \cup {new}, new.ptr = blocks[i].vaddr,
           new.elem \in Nat, new.count \in Nat,
           \E k \in 1 .. Len(t) : Serves(t[k], new),
           OthersKept(blocks, t, i), NoneTakenBut(blocks, t, new.ptr)
    PROVE  LiveInv'
<1>0. new.ptr \in Nat
  BY BlockFacts
<1>1. ASSUME NEW a \in live
      PROVE  /\ a.ptr \in Nat /\ a.elem \in Nat /\ a.count \in Nat /\ a.ptr # new.ptr
             /\ \E k \in 1 .. Len(t) : Serves(t[k], a)
  <2>1. PICK j \in 1 .. Len(blocks) : Serves(blocks[j], a)
    BY DEF LiveInv
  <2>2. j # i
    BY <2>1 DEF Serves
  <2>3. PICK k \in 1 .. Len(t) : t[k] = blocks[j]
    BY <2>2 DEF OthersKept
  <2>4. Serves(t[k], a)
    BY <2>1, <2>3 DEF Serves
  <2>5. a.ptr # new.ptr
    BY <2>1, <2>2, AddressOfOne DEF Serves
  <2>. QED
    BY <2>4, <2>5 DEF LiveInv
<1>2. ASSUME NEW k \in 1 .. Len(t)
      PROVE  t[k].free = TRUE \/ \E a \in live' : a.ptr = t[k].vaddr
  <2>1. CASE \E j \in 1 .. Len(blocks) : t[k] = blocks[j]
    <3>1. PICK j \in 1 .. Len(blocks) : t[k] = blocks[j]
      BY <2>1
    <3>2. blocks[j].free = TRUE \/ \E a \in live : a.ptr = blocks[j].vaddr
      BY DEF LiveInv, Released
    <3>. QED
      BY <3>1, <3>2
  <2>2. CASE t[k].vaddr = new.ptr
    BY <2>2
  <2>. QED
    BY <2>1, <2>2 DEF NoneTakenBut
<1>3. \A a, c \in live' : a.ptr = c.ptr => a = c
  BY <1>1 DEF LiveInv
<1>4. \A a \in live' : /\ a.ptr \in Nat /\ a.elem \in Nat /\ a.count \in Nat
                       /\ \E k \in 1 .. Len(t) : Serves(t[k], a)
  BY <1>0, <1>1
<1>. QED
  BY <1>2, <1>3, <1>4, ZenonT(60) DEF LiveInv, Serves

LEMMA TakeStep ==
    ASSUME IInv, ScanTake
    PROVE  IInv'
<1>1. /\ pc = "scan" /\ cur <= Len(blocks) /\ Fits(blocks[cur])
      /\ blocks' = Taken(cur)
      /\ live' = live \cup {[ptr |-> blocks[cur].vaddr, elem |-> req.elem, count |-> req.count]}
      /\ pc' = "idle" /\ cur' = 0
      /\ UNCHANGED <<size, up, req>>
  BY DEF ScanTake
<1>2. /\ up /\ Tiles(blocks, size) /\ cur \in 1 .. Len(blocks) /\ Len(blocks) \in Nat
      /\ req.total \in Nat /\ req.elem \in Nat /\ req.count \in Nat
      /\ 0 < req.total /\ req.count * req.elem <= req.total
  BY <1>1, ScanFacts
<1>3. PICK i \in 1 .. Len(blocks) : i = cur
  BY <1>2
<1>4. PICK b : b = blocks[i]
  OBVIOUS
<1>5. b \in BlockRec /\ b.vaddr \in Nat /\ b.size \in Nat /\ b.free \in BOOLEAN
  BY <1>2, <1>4, BlockFacts
<1>6. b.free = TRUE
  BY <1>1, <1>3, <1>4, <1>5 DEF Fits
<1>7. b.size >= req.total
  BY <1>1, <1>3, <1>4 DEF Fits
<1>8. PICK new : new = [ptr |-> b.vaddr, elem |-> req.elem, count |-> req.count]
  OBVIOUS
<1>9. /\ new.ptr = b.vaddr /\ new.elem = req.elem /\ new.count = req.count
      /\ live' = live \cup {new}
  BY <1>1, <1>3, <1>4, <1>8
<1>10. PICK taken \in BOOLEAN : taken = FALSE
  OBVIOUS
<1>11. PICK t : t = Taken(i)
  OBVIOUS
<1>12. blocks' = t
  BY <1>1, <1>3, <1>11
<1>13. /\ Tiles(t, size)
       /\ \E k \in 1 .. Len(t) : Serves(t[k], new)
       /\ OthersKept(blocks, t, i)
       /\ NoneTakenBut(blocks, t, new.ptr)
  <2>1. CASE b.size # req.total
    <3>1. PICK total \in Nat : total = req.total
      BY <1>2
    <3>2. 0 < total /\ total < b.size
      BY <1>2, <1>5, <1>7, <2>1, <3>1
    <3>3. PICK free \in BOOLEAN : free = TRUE
      OBVIOUS
    <3>4. PICK x : x = [vaddr |-> b.vaddr, size |-> total, free |-> taken]
      OBVIOUS
    <3>5. PICK y : y = [vaddr |-> b.vaddr + total, size |-> b.size - total, free |-> free]
      OBVIOUS
    <3>6. x \in BlockRec /\ x.vaddr = b.vaddr /\ x.size = total
      BY <1>5, <3>4 DEF BlockRec
    <3>7. y \in BlockRec /\ y.vaddr = b.vaddr + total /\ y.size = b.size - total
      <4>1. b.vaddr + total \in Nat /\ b.size - total \in Nat
        BY <1>5, <3>2
      <4>. QED
        BY <3>5, <4>1 DEF BlockRec
    <3>8. x.free = FALSE
      BY <1>10, <3>4
    <3>9. y.free = TRUE
      BY <3>3, <3>5
    <3>10. t = ReplaceAt(InsertAt(blocks, i + 1, y), i, x)
      BY <1>4, <1>10, <1>11, <2>1, <3>1, <3>3, <3>4, <3>5 DEF Taken, CutAt
    <3>11. /\ Tiles(t, size) /\ Len(t) = Len(blocks) + 1 /\ t[i] = x /\ t[i + 1] = y
           /\ \A j \in 1 .. Len(blocks) : j < i => t[j] = blocks[j]
           /\ \A j \in 1 .. Len(blocks) : j > i => t[j + 1] = blocks[j]
      <4>1. /\ x.vaddr = blocks[i].vaddr /\ x.size = total /\ total < blocks[i].size
            /\ y.vaddr = blocks[i].vaddr + total /\ y.size = blocks[i].size - total
        BY <1>4, <3>2, <3>6, <3>7
      <4>2. /\ total \in Nat /\ 0 < total /\ x \in BlockRec /\ y \in BlockRec
            /\ Tiles(blocks, size) /\ i \in 1 .. Len(blocks)
            /\ t = ReplaceAt(InsertAt(blocks, i + 1, y), i, x)
        BY <1>2, <3>2, <3>6, <3>7, <3>10
      <4>. QED
        BY ONLY <4>1, <4>2, CutTiles
    <3>12. Serves(t[i], new) /\ i \in 1 .. Len(t)
      <4>1. t[i].vaddr = new.ptr /\ t[i].free = FALSE
        BY <1>9, <3>6, <3>8, <3>11
      <4>2. t[i].size >= new.count * new.elem
        BY <1>2, <1>9, <3>1, <3>6, <3>11
      <4>3. i \in 1 .. Len(t)
        BY <1>2, <3>11
      <4>. QED
        BY <4>1, <4>2, <4>3 DEF Serves
    <3>13. ASSUME NEW j \in 1 .. Len(blocks), j # i
           PROVE  \E k \in 1 .. Len(t) : t[k] = blocks[j]
      <4>1. CASE j < i
        BY <1>2, <3>11, <4>1
      <4>2. CASE j > i
        <5>1. j + 1 \in 1 .. Len(t)
          BY <1>2, <3>11
        <5>. QED
          BY <3>11, <4>2, <5>1
      <4>. QED
        BY <3>13, <4>1, <4>2
    <3>14. ASSUME NEW k \in 1 .. Len(t)
           PROVE  \/ t[k].free = TRUE
                  \/ t[k].vaddr = new.ptr
                  \/ \E j \in 1 .. Len(blocks) : t[k] = blocks[j]
      <4>1. CASE k = i
        BY <1>9, <3>6, <3>11, <4>1
      <4>2. CASE k = i + 1
        BY <3>9, <3>11, <4>2
      <4>3. CASE k < i
        <5>1. k \in 1 .. Len(blocks)
          BY <1>2, <4>3
        <5>. QED
          BY <3>11, <4>3, <5>1
      <4>4. CASE k > i + 1
        <5>1. k - 1 \in 1 .. Len(blocks) /\ k - 1 > i /\ k - 1 + 1 = k
          BY <1>2, <3>11, <4>4
        <5>. QED
          BY <3>11, <5>1
      <4>5. k = i \/ k = i + 1 \/ k < i \/ k > i + 1
        OBVIOUS
      <4>. QED
        BY <4>1, <4>2, <4>3, <4>4, <4>5
    <3>. QED
      BY <3>11, <3>12, <3>13, <3>14 DEF OthersKept, NoneTakenBut
  <2>2. CASE b.size = req.total
    <3>1. PICK x : x = [b EXCEPT !.free = taken]
      OBVIOUS
    <3>2. x = [vaddr |-> b.vaddr, size |-> b.size, free |-> taken]
      BY <1>5, <3>1 DEF BlockRec
    <3>3. x \in BlockRec /\ x.vaddr = b.vaddr /\ x.size = b.size
      BY <1>5, <3>2 DEF BlockRec
    <3>4. x.free = FALSE
      BY <1>10, <3>2
    <3>5. t = ReplaceAt(blocks, i, x)
      BY <1>4, <1>10, <1>11, <2>2, <3>1 DEF Taken
    <3>6. /\ Tiles(t, size) /\ Len(t) = Len(blocks) /\ t[i] = x
          /\ \A j \in 1 .. Len(blocks) : j # i => t[j] = blocks[j]
      <4>1. x.vaddr = blocks[i].vaddr /\ x.size = blocks[i].size
        BY <1>4, <3>3
      <4>. QED
        BY <1>2, <3>3, <3>5, <4>1, RetagTiles
    <3>7. Serves(t[i], new)
      <4>1. t[i].vaddr = new.ptr /\ t[i].free = FALSE
        BY <1>9, <3>3, <3>4, <3>6
      <4>2. t[i].size >= new.count * new.elem
        BY <1>2, <1>9, <2>2, <3>3, <3>6
      <4>. QED
        BY <4>1, <4>2 DEF Serves
    <3>8. t[i].vaddr = new.ptr
      BY <1>9, <3>3, <3>6
    <3>9. OthersKept(blocks, t, i) /\ NoneTakenBut(blocks, t, new.ptr)
      BY <3>6, <3>8 DEF OthersKept, NoneTakenBut
    <3>. QED
      BY <3>6, <3>7, <3>9
  <2>. QED
    BY <2>1, <2>2
<1>14. LiveInv'
  <2>1. /\ LiveInv /\ i \in 1 .. Len(blocks)
        /\ blocks[i].free = TRUE /\ new.ptr = blocks[i].vaddr
        /\ new.elem \in Nat /\ new.count \in Nat
    BY <1>2, <1>4, <1>6, <1>9 DEF IInv
  <2>2. /\ live' = live \cup {new} /\ pc = "scan" /\ pc' = "idle" /\ blocks' = t
        /\ Tiles(blocks, size)
    BY <1>1, <1>2, <1>9, <1>12
  <2>. QED
    BY ONLY <1>13, <2>1, <2>2, TakenKeepsLive
<1>15. ListInv'
  BY <1>1, <1>2, <1>12, <1>13 DEF IInv, ListInv
<1>16. LoopInv'
  BY <1>1 DEF IInv, LoopInv
<1>. QED
  BY <1>14, <1>15, <1>16 DEF IInv

LEMMA FreeStep ==
    ASSUME IInv, NEW a \in live, BlockFree(a)
    PROVE  IInv'
<1>1. /\ up /\ pc = "idle" /\ live' = live \ {a} /\ req' = [req EXCEPT !.total = a.ptr]
      /\ pc' = "sweep" /\ cur' = 1 /\ UNCHANGED <<blocks, size, up>>
  BY DEF BlockFree
<1>2. /\ a.ptr \in Nat
      /\ \A c \in live : c.ptr = a.ptr => c = a
  BY DEF IInv, LiveInv
<1>3. PICK r : r = [req EXCEPT !.total = a.ptr]
  OBVIOUS
<1>4. /\ r \in [total : Nat, elem : Nat, count : Nat]
      /\ r.total = a.ptr /\ req' = r
  BY <1>1, <1>2, <1>3 DEF IInv, LoopInv
<1>5. Len(blocks) \in Nat /\ 1 \in 1 .. Len(blocks)
  BY <1>1 DEF IInv, ListInv, Tiles
<1>6. ListInv'
  BY <1>1 DEF IInv, ListInv
<1>7. LoopInv'
  <2>1. MergedTo(blocks, 1)
    BY DEF MergedTo
  <2>2. ~(1 > 1)
    OBVIOUS
  <2>. QED
    BY <1>1, <1>4, <1>5, <2>1, <2>2 DEF LoopInv, MergedTo
<1>8. LiveInv'
  <2>1. ASSUME NEW c \in live'
        PROVE  /\ c.ptr \in Nat /\ c.elem \in Nat /\ c.count \in Nat
               /\ \E i \in 1 .. Len(blocks) : Serves(blocks[i], c)
               /\ c.ptr # r.total
    <3>1. c \in live /\ c # a
      BY <1>1
    <3>. QED
      BY <1>2, <1>4, <3>1 DEF IInv, LiveInv
  <2>2. \A c, d \in live' : c.ptr = d.ptr => c = d
    BY <1>1 DEF IInv, LiveInv
  <2>3. ASSUME NEW i \in 1 .. Len(blocks)
        PROVE  \/ blocks[i].free = TRUE
               \/ i >= 1 /\ blocks[i].vaddr = r.total
               \/ \E c \in live' : c.ptr = blocks[i].vaddr
    <3>1. blocks[i].free = TRUE \/ \E c \in live : c.ptr = blocks[i].vaddr
      BY <1>1 DEF IInv, LiveInv, Released
    <3>. QED
      BY <1>1, <1>4, <3>1
  <2>. QED
    BY <1>1, <1>4, <2>1, <2>2, <2>3 DEF LiveInv, Released, Serves
<1>. QED
  BY <1>6, <1>7, <1>8 DEF IInv

\* Every block of s that is taken, but the one at ptr, is one of t.
TakenKept(s, t, ptr) ==
    \A j \in 1 .. Len(s) :
        s[j].free = FALSE /\ s[j].vaddr # ptr => \E k \in 1 .. Len(t) : t[k] = s[j]

\* A block of t that is not free was one of s; if it is the one at ptr the
\* walk, at i in s and at n in t, is still to come to it.
SweptOnly(s, t, ptr, i, n) ==
    \A k \in 1 .. Len(t) :
        \/ t[k].free = TRUE
        \/ \E j \in 1 .. Len(s) : /\ t[k] = s[j]
                                  /\ s[j].vaddr = ptr => j < i \/ k >= n

\* A step of the walk leaves every allocation its block.
LEMMA SweepKeepsLive ==
    ASSUME LiveInv, pc = "sweep", NEW t, blocks' = t, live' = live, req' = req,
           cur \in Nat, Len(blocks) \in Nat,
           NEW n, TakenKept(blocks, t, req.total), SweptOnly(blocks, t, req.total, cur, n),
           \/ pc' = "sweep" /\ cur' = n
           \/ pc' = "idle" /\ \A k \in 1 .. Len(t) : ~(k >= n)
    PROVE  LiveInv'
<1>1. ASSUME NEW a \in live
      PROVE  /\ a.ptr \in Nat /\ a.elem \in Nat /\ a.count \in Nat /\ a.ptr # req.total
             /\ \E k \in 1 .. Len(t) : Serves(t[k], a)
  <2>1. PICK j \in 1 .. Len(blocks) : Serves(blocks[j], a)
    BY DEF LiveInv
  <2>2. /\ a.ptr \in Nat /\ a.elem \in Nat /\ a.count \in Nat /\ a.ptr # req.total
    BY DEF LiveInv
  <2>3. blocks[j].free = FALSE /\ blocks[j].vaddr # req.total
    BY <2>1, <2>2 DEF Serves
  <2>4. PICK k \in 1 .. Len(t) : t[k] = blocks[j]
    BY <2>3 DEF TakenKept
  <2>5. Serves(t[k], a)
    BY <2>1, <2>4 DEF Serves
  <2>. QED
    BY <2>2, <2>5
<1>2. ASSUME NEW k \in 1 .. Len(t)
      PROVE  \/ t[k].free = TRUE
             \/ k >= n /\ t[k].vaddr = req.total
             \/ \E a \in live : a.ptr = t[k].vaddr
  <2>1. CASE t[k].free = TRUE
    BY <2>1
  <2>2. CASE \E j \in 1 .. Len(blocks) : /\ t[k] = blocks[j]
                                         /\ blocks[j].vaddr = req.total => j < cur \/ k >= n
    <3>1. PICK j \in 1 .. Len(blocks) : /\ t[k] = blocks[j]
                                        /\ blocks[j].vaddr = req.total => j < cur \/ k >= n
      BY <2>2
    <3>2. \/ blocks[j].free = TRUE
          \/ j >= cur /\ blocks[j].vaddr = req.total
          \/ \E a \in live : a.ptr = blocks[j].vaddr
      BY DEF LiveInv, Released
    <3>3. j >= cur => ~(j < cur)
      OBVIOUS
    <3>. QED
      BY <3>1, <3>2, <3>3
  <2>. QED
    BY <2>1, <2>2 DEF SweptOnly
<1>3. \A a, c \in live : a.ptr = c.ptr => a = c
  BY DEF LiveInv
<1>4. CASE pc' = "sweep" /\ cur' = n
  BY <1>1, <1>2, <1>3, <1>4 DEF LiveInv, Serves, Released
<1>5. CASE pc' = "idle" /\ \A k \in 1 .. Len(t) : ~(k >= n)
  BY <1>1, <1>2, <1>3, <1>5 DEF LiveInv, Serves
<1>. QED
  BY <1>4, <1>5

\* What a sweep knows of the block it is at.
LEMMA SweepFacts ==
    ASSUME IInv, pc = "sweep"
    PROVE  /\ up /\ Tiles(blocks, size) /\ cur \in 1 .. Len(blocks) /\ Len(blocks) \in Nat
           /\ MergedTo(blocks, cur)
           /\ cur > 1 /\ blocks[cur].vaddr = req.total => blocks[cur].free = TRUE
<1>1. up /\ Tiles(blocks, size)
  BY DEF IInv, ListInv
<1>2. Len(blocks) \in Nat
  BY <1>1 DEF Tiles
<1>. QED
  BY <1>1, <1>2 DEF IInv, LoopInv

LEMMA MergeStep ==
    ASSUME IInv, SweepMerge
    PROVE  IInv'
<1>1. /\ pc = "sweep" /\ cur < Len(blocks) /\ Here.free /\ Behind.free
      /\ blocks' = ReplaceAt(RemoveAt(blocks, cur + 1), cur,
                             [Here EXCEPT !.size = @ + Behind.size])
      /\ UNCHANGED <<size, up, live, pc, cur, req>>
  BY DEF SweepMerge
<1>2. /\ up /\ Tiles(blocks, size) /\ cur \in 1 .. Len(blocks) /\ Len(blocks) \in Nat
      /\ MergedTo(blocks, cur)
      /\ cur > 1 /\ blocks[cur].vaddr = req.total => blocks[cur].free = TRUE
  BY <1>1, SweepFacts
<1>3. PICK i \in 1 .. Len(blocks) - 1 : i = cur
  BY <1>1, <1>2
<1>4. i \in 1 .. Len(blocks) /\ i + 1 \in 1 .. Len(blocks)
  BY <1>2
<1>5. PICK k \in 1 .. Len(blocks) : k = i + 1
  BY <1>4
<1>6. PICK b : b = blocks[i]
  OBVIOUS
<1>7. PICK c : c = blocks[k]
  OBVIOUS
<1>8. b \in BlockRec /\ c \in BlockRec
  BY <1>2, <1>4, <1>6, <1>7, BlockFacts
<1>9. PICK h : h = Mark(b)
  OBVIOUS
<1>10. PICK g : g = Mark(c)
  OBVIOUS
<1>11. /\ h \in BlockRec /\ h.vaddr = b.vaddr /\ h.size = b.size
       /\ b.vaddr # req.total => h = b
  BY <1>8, <1>9, MarkFacts
<1>12. /\ g \in BlockRec /\ g.size = c.size
       /\ c.vaddr # req.total => g = c
  BY <1>8, <1>10, MarkFacts
<1>13. Here = h /\ Behind = g
  BY <1>3, <1>5, <1>6, <1>7, <1>9, <1>10 DEF Here, Behind
<1>14. h.vaddr \in Nat /\ h.size \in Nat /\ h.free \in BOOLEAN /\ g.size \in Nat /\ g.free \in BOOLEAN
  BY <1>11, <1>12 DEF BlockRec
<1>15. h.free = TRUE
  BY <1>1, <1>13, <1>14
<1>16. g.free = TRUE
  BY <1>1, <1>13, <1>14
<1>17. PICK x : x = [h EXCEPT !.size = @ + g.size]
  OBVIOUS
<1>18. x = [vaddr |-> h.vaddr, size |-> h.size + g.size, free |-> h.free]
  BY <1>11, <1>17 DEF BlockRec
<1>19. x \in BlockRec /\ x.vaddr = b.vaddr /\ x.size = b.size + c.size
  <2>1. h.size + g.size \in Nat
    BY <1>14
  <2>. QED
    BY <1>11, <1>12, <1>14, <1>18, <2>1 DEF BlockRec
<1>20. x.free = TRUE
  BY <1>15, <1>18
<1>21. PICK t : t = ReplaceAt(RemoveAt(blocks, i + 1), i, x)
  OBVIOUS
<1>22. blocks' = t
  BY <1>1, <1>3, <1>13, <1>17, <1>21
<1>23. /\ Tiles(t, size) /\ Len(t) = Len(blocks) - 1 /\ t[i] = x
       /\ \A j \in 1 .. Len(blocks) : j < i => t[j] = blocks[j]
       /\ \A j \in 1 .. Len(blocks) : j > i + 1 => t[j - 1] = blocks[j]
  <2>1. /\ x.vaddr = blocks[i].vaddr /\ x.size = blocks[i].size + blocks[i + 1].size
        /\ x \in BlockRec
    BY <1>5, <1>6, <1>7, <1>19
  <2>2. /\ Tiles(blocks, size) /\ i \in 1 .. Len(blocks) - 1
        /\ t = ReplaceAt(RemoveAt(blocks, i + 1), i, x)
    BY <1>2, <1>21
  <2>. QED
    BY ONLY <2>1, <2>2, MergeTiles
<1>24. TakenKept(blocks, t, req.total)
  <2>1. ASSUME NEW j \in 1 .. Len(blocks), blocks[j].free = FALSE, blocks[j].vaddr # req.total
        PROVE  \E m \in 1 .. Len(t) : t[m] = blocks[j]
    <3>1. j # i
      BY <1>6, <1>11, <1>15, <2>1
    <3>2. j # i + 1
      BY <1>5, <1>7, <1>12, <1>16, <2>1
    <3>3. CASE j < i
      BY <1>2, <1>23, <3>3
    <3>4. CASE j > i + 1
      <4>1. j - 1 \in 1 .. Len(t)
        BY <1>2, <1>23, <3>4
      <4>. QED
        BY <1>23, <3>4, <4>1
    <3>5. j < i \/ j > i + 1
      BY <3>1, <3>2
    <3>. QED
      BY <3>3, <3>4, <3>5
  <2>. QED
    BY <2>1 DEF TakenKept
<1>25. SweptOnly(blocks, t, req.total, cur, cur)
  <2>1. ASSUME NEW m \in 1 .. Len(t)
        PROVE  \/ t[m].free = TRUE
               \/ \E j \in 1 .. Len(blocks) :
                     /\ t[m] = blocks[j]
                     /\ blocks[j].vaddr = req.total => j < i \/ m >= i
    <3>1. CASE m = i
      BY <1>20, <1>23, <3>1
    <3>2. CASE m < i
      <4>1. m \in 1 .. Len(blocks)
        BY <1>2, <3>2
      <4>. QED
        BY <1>23, <3>2, <4>1
    <3>3. CASE m > i
      <4>1. m + 1 \in 1 .. Len(blocks) /\ m + 1 > i + 1 /\ m + 1 - 1 = m /\ m >= i
        BY <1>2, <1>23, <3>3
      <4>. QED
        BY <1>23, <4>1
    <3>4. m = i \/ m < i \/ m > i
      OBVIOUS
    <3>. QED
      BY <3>1, <3>2, <3>3, <3>4
  <2>. QED
    BY <1>3, <2>1 DEF SweptOnly
<1>26. LiveInv'
  <2>1. /\ pc = "sweep" /\ blocks' = t /\ live' = live /\ req' = req
        /\ pc' = "sweep" /\ cur' = cur
    BY <1>1, <1>22
  <2>2. LiveInv /\ cur \in Nat /\ Len(blocks) \in Nat
    BY <1>2 DEF IInv
  <2>. QED
    BY ONLY <1>24, <1>25, <2>1, <2>2, SweepKeepsLive
<1>27. ListInv'
  BY <1>1, <1>2, <1>22, <1>23 DEF IInv, ListInv
<1>28. MergedTo(t, i)
  <2>1. ASSUME NEW j \in 1 .. i - 1
        PROVE  ~(t[j].free = TRUE /\ t[j + 1].free = TRUE)
    <3>1. j \in 1 .. Len(blocks) /\ j + 1 \in 1 .. Len(blocks) /\ j < i /\ j + 1 <= i
      BY <1>2
    <3>2. ~(blocks[j].free = TRUE /\ blocks[j + 1].free = TRUE)
      BY <1>2, <1>3 DEF MergedTo
    <3>3. t[j] = blocks[j]
      BY <1>23, <3>1
    <3>4. CASE j + 1 < i
      <4>1. t[j + 1] = blocks[j + 1]
        BY <1>23, <3>1, <3>4
      <4>. QED
        BY <3>2, <3>3, <4>1
    <3>5. CASE j + 1 = i
      <4>1. i > 1
        BY <3>5
      <4>2. blocks[i].free = TRUE
        BY <1>2, <1>3, <1>6, <1>11, <1>15, <4>1
      <4>. QED
        BY <3>2, <3>3, <3>5, <4>2
    <3>6. j + 1 < i \/ j + 1 = i
      BY <3>1
    <3>. QED
      BY <3>4, <3>5, <3>6
  <2>. QED
    BY <2>1 DEF MergedTo
<1>29. LoopInv'
  <2>1. cur \in 1 .. Len(t)
    BY <1>2, <1>3, <1>23
  <2>2. t[cur].free = TRUE
    BY <1>3, <1>20, <1>23
  <2>3. MergedTo(t, cur)
    BY <1>3, <1>28
  <2>. QED
    BY <1>1, <1>22, <2>1, <2>2, <2>3 DEF IInv, LoopInv, MergedTo
<1>. QED
  BY <1>26, <1>27, <1>29 DEF IInv

\* Marking the block at hand makes no two free neighbours in front of it.
LEMMA MarkedMerged ==
    ASSUME NEW s, NEW i \in Nat, MergedTo(s, i), s[i] \in BlockRec,
           i > 1 /\ s[i].vaddr = req.total => s[i].free = TRUE,
           NEW t, t[i] = Mark(s[i]), \A j \in 1 .. i - 1 : t[j] = s[j]
    PROVE  MergedTo(t, i)
<1>1. ASSUME NEW j \in 1 .. i - 1
      PROVE  ~(t[j].free = TRUE /\ t[j + 1].free = TRUE)
  <2>1. ~(s[j].free = TRUE /\ s[j + 1].free = TRUE) /\ t[j] = s[j]
    BY DEF MergedTo
  <2>2. CASE j + 1 = i
    <3>1. i > 1
      BY <2>2
    <3>2. t[i].free = TRUE => s[i].free = TRUE
      BY <3>1, MarkFacts
    <3>. QED
      BY <2>1, <2>2, <3>2
  <2>3. CASE j + 1 # i
    <3>1. j + 1 \in 1 .. i - 1
      BY <2>3
    <3>. QED
      BY <2>1, <3>1
  <2>. QED
    BY <2>2, <2>3
<1>. QED
  BY <1>1 DEF MergedTo

LEMMA StepStep ==
    ASSUME IInv, SweepStep
    PROVE  IInv'
<1>1. /\ pc = "sweep" /\ cur < Len(blocks) /\ ~(Here.free /\ Behind.free)
      /\ blocks' = ReplaceAt(ReplaceAt(blocks, cur, Here), cur + 1, Behind)
      /\ cur' = cur + 1
      /\ UNCHANGED <<size, up, live, pc, req>>
  BY DEF SweepStep
<1>2. /\ up /\ Tiles(blocks, size) /\ cur \in 1 .. Len(blocks) /\ Len(blocks) \in Nat
      /\ MergedTo(blocks, cur)
      /\ cur > 1 /\ blocks[cur].vaddr = req.total => blocks[cur].free = TRUE
  BY <1>1, SweepFacts
<1>3. PICK i \in 1 .. Len(blocks) : i = cur
  BY <1>2
<1>4. PICK k \in 1 .. Len(blocks) : k = i + 1
  BY <1>1, <1>2, <1>3
<1>5. PICK b \in BlockRec : b = blocks[i]
  BY <1>2, BlockFacts
<1>6. PICK c \in BlockRec : c = blocks[k]
  BY <1>2, BlockFacts
<1>7. PICK h : h = Mark(b)
  OBVIOUS
<1>8. PICK g : g = Mark(c)
  OBVIOUS
<1>9. /\ h \in BlockRec /\ h.vaddr = b.vaddr /\ h.size = b.size
      /\ b.vaddr = req.total => h.free = TRUE
      /\ b.vaddr # req.total => h = b
  BY <1>7, MarkFacts
<1>10. /\ g \in BlockRec /\ g.vaddr = c.vaddr /\ g.size = c.size
       /\ c.vaddr = req.total => g.free = TRUE
       /\ c.vaddr # req.total => g = c
  BY <1>8, MarkFacts
<1>11. Here = h /\ Behind = g
  BY <1>3, <1>4, <1>5, <1>6, <1>7, <1>8 DEF Here, Behind
<1>12. ~(h.free = TRUE /\ g.free = TRUE)
  BY <1>1, <1>11
<1>13. PICK u : u = ReplaceAt(blocks, i, h)
  OBVIOUS
<1>14. /\ Tiles(u, size) /\ Len(u) = Len(blocks) /\ u[i] = h
       /\ \A j \in 1 .. Len(blocks) : j # i => u[j] = blocks[j]
  <2>1. h.vaddr = blocks[i].vaddr /\ h.size = blocks[i].size /\ h \in BlockRec
    BY <1>5, <1>9
  <2>2. Tiles(blocks, size) /\ i \in 1 .. Len(blocks) /\ u = ReplaceAt(blocks, i, h)
    BY <1>2, <1>13
  <2>. QED
    BY ONLY <2>1, <2>2, RetagTiles
<1>15. PICK t : t = ReplaceAt(u, k, g)
  OBVIOUS
<1>16. /\ Tiles(t, size) /\ Len(t) = Len(u) /\ t[k] = g
       /\ \A j \in 1 .. Len(u) : j # k => t[j] = u[j]
  <2>1. u[k] = c
    BY <1>4, <1>6, <1>14
  <2>2. g.vaddr = u[k].vaddr /\ g.size = u[k].size /\ g \in BlockRec
    BY <1>10, <2>1
  <2>3. Tiles(u, size) /\ k \in 1 .. Len(u) /\ t = ReplaceAt(u, k, g)
    BY <1>14, <1>15
  <2>. QED
    BY ONLY <2>2, <2>3, RetagTiles
<1>17. blocks' = t
  BY <1>1, <1>3, <1>4, <1>11, <1>13, <1>15
<1>18. /\ Len(t) = Len(blocks) /\ t[i] = h /\ t[k] = g
       /\ \A j \in 1 .. Len(blocks) : j # i /\ j # k => t[j] = blocks[j]
  BY <1>4, <1>14, <1>16
<1>19. TakenKept(blocks, t, req.total)
  <2>1. ASSUME NEW j \in 1 .. Len(blocks), blocks[j].free = FALSE, blocks[j].vaddr # req.total
        PROVE  t[j] = blocks[j]
    BY <1>5, <1>6, <1>9, <1>10, <1>18, <2>1
  <2>. QED
    BY <1>18, <2>1 DEF TakenKept
<1>20. SweptOnly(blocks, t, req.total, cur, k)
  <2>1. ASSUME NEW m \in 1 .. Len(t)
        PROVE  \/ t[m].free = TRUE
               \/ /\ t[m] = blocks[m]
                  /\ blocks[m].vaddr = req.total => m < i \/ m >= k
    <3>1. CASE m = i
      BY <1>5, <1>9, <1>18, <3>1
    <3>2. CASE m = k
      BY <1>6, <1>10, <1>18, <3>2
    <3>3. CASE m # i /\ m # k
      <4>1. m < i \/ m >= k
        BY <1>4, <3>3
      <4>. QED
        BY <1>18, <3>3, <4>1
    <3>. QED
      BY <3>1, <3>2, <3>3
  <2>. QED
    BY <1>3, <1>18, <2>1 DEF SweptOnly
<1>21. LiveInv'
  <2>1. /\ pc = "sweep" /\ blocks' = t /\ live' = live /\ req' = req
        /\ pc' = "sweep" /\ cur' = k
    BY <1>1, <1>3, <1>4, <1>17
  <2>2. LiveInv /\ cur \in Nat /\ Len(blocks) \in Nat
    BY <1>2 DEF IInv
  <2>. QED
    BY ONLY <1>19, <1>20, <2>1, <2>2, SweepKeepsLive
<1>22. ListInv'
  BY <1>1, <1>2, <1>16, <1>17 DEF IInv, ListInv
<1>23. MergedTo(t, i)
  <2>1. /\ MergedTo(blocks, i) /\ i \in Nat /\ blocks[i] \in BlockRec
        /\ i > 1 /\ blocks[i].vaddr = req.total => blocks[i].free = TRUE
    BY <1>2, <1>3, <1>5
  <2>2. t[i] = Mark(blocks[i])
    BY <1>5, <1>7, <1>18
  <2>3. ASSUME NEW j \in 1 .. i - 1 PROVE t[j] = blocks[j]
    <3>1. j \in 1 .. Len(blocks) /\ j # i /\ j # k
      BY <1>2, <1>4
    <3>. QED
      BY <1>18, <3>1
  <2>. QED
    BY ONLY <2>1, <2>2, <2>3, MarkedMerged
<1>24. MergedTo(t, k)
  <2>1. ASSUME NEW j \in 1 .. k - 1
        PROVE  ~(t[j].free = TRUE /\ t[j + 1].free = TRUE)
    <3>1. CASE j = i
      BY <1>4, <1>12, <1>18, <3>1
    <3>2. CASE j # i
      <4>1. j \in 1 .. i - 1
        BY <1>4, <3>2
      <4>. QED
        BY <1>23, <4>1 DEF MergedTo
    <3>. QED
      BY <3>1, <3>2
  <2>. QED
    BY <2>1 DEF MergedTo
<1>25. LoopInv'
  <2>1. k \in 1 .. Len(t)
    BY <1>18
  <2>2. t[k].vaddr = req.total => t[k].free = TRUE
    BY <1>10, <1>18
  <2>3. cur' = k
    BY <1>1, <1>3, <1>4
  <2>. QED
    BY <1>1, <1>17, <1>24, <2>1, <2>2, <2>3 DEF IInv, LoopInv, MergedTo
<1>. QED
  BY <1>21, <1>22, <1>25 DEF IInv

\* The end of the walk: no two free neighbours are left in the list.
LEMMA LastStep ==
    ASSUME IInv, SweepLast
    PROVE  IInv' /\ MergedTo(blocks, Len(blocks))'
<1>1. /\ pc = "sweep" /\ cur = Len(blocks) /\ blocks' = ReplaceAt(blocks, cur, Here)
      /\ pc' = "idle" /\ cur' = 0
      /\ UNCHANGED <<size, up, live, req>>
  BY DEF SweepLast
<1>2. /\ up /\ Tiles(blocks, size) /\ cur \in 1 .. Len(blocks) /\ Len(blocks) \in Nat
      /\ MergedTo(blocks, cur)
      /\ cur > 1 /\ blocks[cur].vaddr = req.total => blocks[cur].free = TRUE
  BY <1>1, SweepFacts
<1>3. PICK i \in 1 .. Len(blocks) : i = cur
  BY <1>2
<1>4. PICK b \in BlockRec : b = blocks[i]
  BY <1>2, BlockFacts
<1>5. PICK h : h = Mark(b)
  OBVIOUS
<1>6. /\ h \in BlockRec /\ h.vaddr = b.vaddr /\ h.size = b.size
      /\ b.vaddr = req.total => h.free = TRUE
      /\ b.vaddr # req.total => h = b
  BY <1>5, MarkFacts
<1>7. PICK t : t = ReplaceAt(blocks, i, h)
  OBVIOUS
<1>8. blocks' = t
  BY <1>1, <1>3, <1>4, <1>5, <1>7 DEF Here
<1>9. /\ Tiles(t, size) /\ Len(t) = Len(blocks) /\ t[i] = h
      /\ \A j \in 1 .. Len(blocks) : j # i => t[j] = blocks[j]
  <2>1. h.vaddr = blocks[i].vaddr /\ h.size = blocks[i].size /\ h \in BlockRec
    BY <1>4, <1>6
  <2>2. Tiles(blocks, size) /\ i \in 1 .. Len(blocks) /\ t = ReplaceAt(blocks, i, h)
    BY <1>2, <1>7
  <2>. QED
    BY ONLY <2>1, <2>2, RetagTiles
<1>10. TakenKept(blocks, t, req.total)
  <2>1. ASSUME NEW j \in 1 .. Len(blocks), blocks[j].free = FALSE, blocks[j].vaddr # req.total
        PROVE  t[j] = blocks[j]
    BY <1>4, <1>6, <1>9, <2>1
  <2>. QED
    BY <1>9, <2>1 DEF TakenKept
<1>11. SweptOnly(blocks, t, req.total, cur, Len(t) + 1)
  <2>1. ASSUME NEW m \in 1 .. Len(t)
        PROVE  \/ t[m].free = TRUE
               \/ /\ t[m] = blocks[m]
                  /\ blocks[m].vaddr = req.total => m < i
    <3>1. CASE m = i
      BY <1>4, <1>6, <1>9, <3>1
    <3>2. CASE m # i
      <4>1. m < i
        BY <1>1, <1>2, <1>3, <1>9, <3>2
      <4>. QED
        BY <1>9, <3>2, <4>1
    <3>. QED
      BY <3>1, <3>2
  <2>. QED
    BY <1>3, <1>9, <2>1 DEF SweptOnly
<1>12. LiveInv'
  <2>1. /\ pc = "sweep" /\ blocks' = t /\ live' = live /\ req' = req
        /\ pc' = "idle"
    BY <1>1, <1>8
  <2>2. LiveInv /\ cur \in Nat /\ Len(blocks) \in Nat
    BY <1>2 DEF IInv
  <2>3. \A m \in 1 .. Len(t) : ~(m >= Len(t) + 1)
    BY <1>2, <1>9
  <2>. QED
    BY ONLY <1>10, <1>11, <2>1, <2>2, <2>3, SweepKeepsLive
<1>13. ListInv'
  BY <1>1, <1>2, <1>8, <1>9 DEF IInv, ListInv
<1>14. LoopInv'
  BY <1>1 DEF IInv, LoopInv
<1>15. MergedTo(t, i)
  <2>1. /\ MergedTo(blocks, i) /\ i \in Nat /\ blocks[i] \in BlockRec
        /\ i > 1 /\ blocks[i].vaddr = req.total => blocks[i].free = TRUE
    BY <1>2, <1>3, <1>4
  <2>2. t[i] = Mark(blocks[i])
    BY <1>4, <1>5, <1>9
  <2>3. ASSUME NEW j \in 1 .. i - 1 PROVE t[j] = blocks[j]
    <3>1. j \in 1 .. Len(blocks) /\ j # i
      BY <1>2
    <3>. QED
      BY <1>9, <3>1
  <2>. QED
    BY ONLY <2>1, <2>2, <2>3, MarkedMerged
<1>16. MergedTo(blocks, Len(blocks))'
  <2>1. Len(t) = i
    BY <1>1, <1>3, <1>9
  <2>. QED
    BY <1>8, <1>15, <2>1 DEF MergedTo
<1>. QED
  BY <1>12, <1>13, <1>14, <1>16 DEF IInv

LEMMA HeapStep == IInv /\ HoldInv /\ [Next]_vars => IInv'
<1>. SUFFICES ASSUME IInv, HoldInv, [Next]_vars PROVE IInv'
  OBVIOUS
<1>1. CASE HeapInit
  BY <1>1, InitStep
<1>2. CASE HeapTerm
  BY <1>2, TermStep
<1>3. CASE AllocAligned \/ AllocArray
  BY <1>3, AllocStep
<1>4. CASE \E a \in live : BlockFree(a)
  BY <1>4, FreeStep
<1>5. CASE ScanSkip
  BY <1>5, SkipStep
<1>6. CASE ScanGap
  BY <1>6, GapStep
<1>7. CASE ScanTake
  BY <1>7, TakeStep
<1>8. CASE ScanFail
  BY <1>8, FailStep
<1>9. CASE SweepMerge
  BY <1>9, MergeStep
<1>10. CASE SweepStep
  BY <1>10, StepStep
<1>11. CASE SweepLast
  BY <1>11, LastStep
<1>12. CASE UNCHANGED vars
  BY <1>12 DEF vars, callVars, IInv, ListInv, LiveInv, LoopInv, Released
<1>. QED
  BY <1>1, <1>2, <1>3, <1>4, <1>5, <1>6, <1>7, <1>8, <1>9, <1>10, <1>11, <1>12
     DEF Next, Scan, Sweep

-----------------------------------------------------------------------------
(***************************************************************************)
(* What is held: between two steps of a life the invariant says what of    *)
(* this life there is, beside what failing detaches left.                  *)
(***************************************************************************)
LEMMA GiveBackStep ==
    ASSUME HoldInv, NEW names, NEW left, NEW next, NEW owed, GiveBack(names, left, next),
           pc \in Labels,
           left \subseteq names, left \subseteq {"attachment", "fd"},
           This(left) \subseteq held,
           \A x \in names \ left : <<"this", x>> \notin kept,
           \A x \in Owed(pc) : x \in names \/ x \in owed
    PROVE  /\ kept' \subseteq held'
           /\ kept' \subseteq {"this", "earlier"} \X {"attachment", "fd"}
           /\ held' \subseteq kept' \cup This(owed)
<1>1. held' = held \ This(names \ left) /\ kept' = kept \cup This(left)
  BY DEF GiveBack
<1>2. /\ held \subseteq kept \cup This(Owed(pc)) /\ kept \subseteq held
      /\ kept \subseteq {"this", "earlier"} \X {"attachment", "fd"}
  BY DEF HoldInv
<1>3. kept' \subseteq {"this", "earlier"} \X {"attachment", "fd"}
  BY <1>1, <1>2 DEF This
<1>4. kept' \subseteq held'
  BY <1>1, <1>2 DEF This
<1>5. held' \subseteq kept' \cup This(owed)
  BY <1>1, <1>2 DEF This
<1>. QED
  BY <1>3, <1>4, <1>5

LEMMA HoldLabels ==
    ASSUME IInv, HoldInv,
           AttachUndo \/ AttachExit \/ InitError \/ DmabufDetach \/ HeapRest
    PROVE  HoldInv'
<1>1. pc \in Labels /\ step' = step /\ step \in 0 .. Filled /\ up' = up /\ ~up
  <2>1. pc \in Labels /\ step' = step /\ up' = up /\ pc \notin {"idle", "scan", "sweep"}
    BY DEF AttachUndo, AttachExit, InitError, DmabufDetach, HeapRest, GiveBack, Labels
  <2>. QED
    BY <2>1 DEF IInv, ListInv, HoldInv
<1>2. CASE AttachUndo
  <2>1. PICK left \in {{}, {"attachment"}} : GiveBack({"attachment"}, left, "exit")
    BY <1>2 DEF AttachUndo
  <2>2. pc = "undo" /\ pc' = "exit" /\ kept' = kept \cup This(left)
    BY <1>2, <2>1 DEF AttachUndo, GiveBack
  <2>3. NothingKept /\ This({"attachment", "fd"}) \subseteq held
    BY <2>2 DEF HoldInv
  <2>4. This(left) \subseteq held /\ left \subseteq {"attachment"}
    BY <2>3 DEF This
  <2>5. <<"this", "attachment">> \notin kept /\ <<"this", "fd">> \notin kept
    BY <2>3 DEF NothingKept, This, HeapTakes
  <2>6. \A x \in Owed("undo") : x \in {"attachment"} \/ x \in Owed("exit")
    BY DEF Owed
  <2>7. /\ kept' \subseteq held'
        /\ kept' \subseteq {"this", "earlier"} \X {"attachment", "fd"}
        /\ held' \subseteq kept' \cup This(Owed("exit"))
    BY <1>1, <2>1, <2>2, <2>4, <2>5, <2>6, GiveBackStep
  <2>8. <<"this", "fd">> \notin kept'
    BY <2>2, <2>4, <2>5 DEF This
  <2>. QED
    BY <1>1, <2>2, <2>7, <2>8 DEF HoldInv, Labels, HoldsOnlyWhileUp
<1>3. CASE AttachExit
  <2>1. pc = "exit" /\ pc' = "error" /\ GiveBack(ExitFrees, {}, "error")
        /\ kept' = kept \cup This({})
    BY <1>3 DEF AttachExit, GiveBack
  <2>2. kept \subseteq {"this", "earlier"} \X {"attachment", "fd"} /\ <<"this", "fd">> \notin kept
    BY <2>1 DEF HoldInv
  <2>3. \A x \in ExitFrees \ {} : <<"this", x>> \notin kept
    BY <2>2 DEF ExitFrees
  <2>4. \A x \in Owed("exit") : x \in ExitFrees \/ x \in Owed("error")
    BY DEF Owed, ExitFrees
  <2>5. This({}) = {}
    BY DEF This
  <2>6. /\ kept' \subseteq held'
        /\ kept' \subseteq {"this", "earlier"} \X {"attachment", "fd"}
        /\ held' \subseteq kept' \cup This(Owed("error"))
    BY <1>1, <2>1, <2>3, <2>4, <2>5, GiveBackStep
  <2>. QED
    BY <1>1, <2>1, <2>2, <2>5, <2>6 DEF HoldInv, Labels, HoldsOnlyWhileUp
<1>4. ASSUME NEW names, GiveBack(names, {}, "idle"),
             \A x \in names : <<"this", x>> \notin kept,
             \A x \in Owed(pc) : x \in names
      PROVE  HoldInv'
  <2>1. pc' = "idle" /\ kept' = kept \cup This({}) /\ This({}) = {}
    BY <1>4 DEF GiveBack, This
  <2>2. /\ kept' \subseteq held'
        /\ kept' \subseteq {"this", "earlier"} \X {"attachment", "fd"}
        /\ held' \subseteq kept' \cup This({})
    BY <1>1, <1>4, <2>1, GiveBackStep
  <2>3. held' = kept' \cup This({})
    BY <2>1, <2>2
  <2>. QED
    BY <1>1, <2>1, <2>2, <2>3 DEF HoldInv, Labels, HoldsOnlyWhileUp
<1>5. CASE InitError
  <2>1. pc = "error" /\ GiveBack({"freelist", "phys_lut", "fd", "memory"}, {}, "idle")
    BY <1>5 DEF InitError
  <2>2. kept \subseteq {"this", "earlier"} \X {"attachment", "fd"} /\ <<"this", "fd">> \notin kept
    BY <2>1 DEF HoldInv
  <2>3. \A x \in {"freelist", "phys_lut", "fd", "memory"} : <<"this", x>> \notin kept
    BY <2>2
  <2>4. \A x \in Owed("error") : x \in {"freelist", "phys_lut", "fd", "memory"}
    BY DEF Owed
  <2>. QED
    BY <1>4, <2>1, <2>3, <2>4
<1>6. CASE DmabufDetach
  <2>1. PICK left \in {{}, {"attachment"}, {"attachment", "fd"}} :
           GiveBack({"pages", "attachment", "fd"}, left, "rest")
    BY <1>6 DEF DmabufDetach
  <2>2. pc = "detach" /\ pc' = "rest"
    BY <1>6, <2>1 DEF DmabufDetach, GiveBack
  <2>3. NothingKept /\ This({"attachment", "fd"}) \subseteq held
    BY <2>2 DEF HoldInv
  <2>4. This(left) \subseteq held /\ left \subseteq {"attachment", "fd"}
    BY <2>3 DEF This
  <2>5. \A x \in {"pages", "attachment", "fd"} : <<"this", x>> \notin kept
    BY <2>3 DEF NothingKept, This, HeapTakes
  <2>6. \A x \in Owed("detach") : x \in {"pages", "attachment", "fd"} \/ x \in Owed("rest")
    BY DEF Owed, HeapTakes
  <2>7. /\ kept' \subseteq held'
        /\ kept' \subseteq {"this", "earlier"} \X {"attachment", "fd"}
        /\ held' \subseteq kept' \cup This(Owed("rest"))
    <3>1. PICK names : names = {"pages", "attachment", "fd"}
      OBVIOUS
    <3>2. GiveBack(names, left, "rest") /\ left \subseteq names
      BY <2>1, <2>4, <3>1
    <3>3. \A x \in names \ left : <<"this", x>> \notin kept
      BY <2>5, <3>1
    <3>4. \A x \in Owed(pc) : x \in names \/ x \in Owed("rest")
      BY <2>2, <2>6, <3>1
    <3>. QED
      BY <1>1, <2>4, <3>2, <3>3, <3>4, GiveBackStep
  <2>. QED
    BY <1>1, <2>2, <2>7 DEF HoldInv, Labels, HoldsOnlyWhileUp
<1>7. CASE HeapRest
  <2>1. pc = "rest" /\ GiveBack({"freelist", "phys_lut", "memory"}, {}, "idle")
    BY <1>7 DEF HeapRest
  <2>2. kept \subseteq {"this", "earlier"} \X {"attachment", "fd"}
    BY DEF HoldInv
  <2>3. \A x \in {"freelist", "phys_lut", "memory"} : <<"this", x>> \notin kept
    BY <2>2
  <2>4. \A x \in Owed("rest") : x \in {"freelist", "phys_lut", "memory"}
    BY DEF Owed
  <2>. QED
    BY <1>4, <2>1, <2>3, <2>4
<1>. QED
  BY <1>2, <1>3, <1>5, <1>6, <1>7

LEMMA HoldInit ==
    ASSUME IInv, HoldInv,
           (\E asked \in InitSizes : InitStart(asked)) \/ InitTake \/ InitFail \/ InitDone
    PROVE  HoldInv'
<1>1. ~up /\ Filled = 10 /\ Attached = 8
  <2>1. ~up \/ pc = "init"
    BY DEF InitStart, InitTake, InitFail, InitDone
  <2>. QED
    BY <2>1 DEF IInv, ListInv, Filled, Attached
<1>2. CASE \E asked \in InitSizes : InitStart(asked)
  <2>1. /\ pc = "idle" /\ pc' = "init" /\ step' = 1 /\ up' = up
        /\ held' = Older(held) /\ kept' = Older(kept)
    BY <1>2 DEF InitStart
  <2>2. held = kept \cup This({})
    BY <1>1, <2>1 DEF HoldInv, HoldsOnlyWhileUp
  <2>3. held = kept
    BY <2>2 DEF This
  <2>4. kept \subseteq {"this", "earlier"} \X {"attachment", "fd"}
    BY DEF HoldInv
  <2>5. \A r \in kept : r[2] \in {"attachment", "fd"}
    BY <2>4
  <2>6. kept' \subseteq {"earlier"} \X {"attachment", "fd"}
    BY <2>1, <2>5 DEF Older
  <2>7. NothingKept'
    BY <2>6 DEF NothingKept, This
  <2>8. TakenAt(1) = {} /\ This({}) = {}
    BY DEF TakenAt, This
  <2>9. held' = kept' \cup This(TakenAt(1))
    BY <2>1, <2>3, <2>8
  <2>. QED
    BY <1>1, <2>1, <2>6, <2>7, <2>9 DEF HoldInv, Labels, HoldsOnlyWhileUp
<1>3. CASE InitTake
  <2>1. /\ pc = "init" /\ pc' = "init" /\ step' = step + 1 /\ up' = up /\ kept' = kept
        /\ step < Filled
        /\ held' = (held \cup This(InitTakes[step]))
                      \ (IF step = Attached THEN This(ExitFrees) ELSE {})
    BY <1>3 DEF InitTake
  <2>2. /\ step \in 1 .. Filled /\ held = kept \cup This(TakenAt(step)) /\ NothingKept
        /\ kept \subseteq {"this", "earlier"} \X {"attachment", "fd"}
    BY <2>1 DEF HoldInv
  <2>3. PICK a : a = TakenAt(step)
    OBVIOUS
  <2>4. PICK b : b = InitTakes[step]
    OBVIOUS
  <2>5. PICK f : f = IF step = Attached THEN ExitFrees ELSE {}
    OBVIOUS
  <2>6. TakenAt(step + 1) = (a \cup b) \ f
    BY <2>1, <2>2, <2>3, <2>4, <2>5, InitTable
  <2>7. held' = (kept \cup This(a) \cup This(b)) \ This(f)
    <3>1. This({}) = {}
      BY DEF This
    <3>. QED
      BY <2>1, <2>2, <2>3, <2>4, <2>5, <3>1
  <2>8. kept \cap This(f) = {}
    BY <2>2, <2>5 DEF This, ExitFrees
  <2>9. held' = kept \cup This((a \cup b) \ f)
    BY <2>7, <2>8 DEF This
  <2>10. step' \in 1 .. Filled /\ held' = kept' \cup This(TakenAt(step'))
    <3>1. PICK n : n = step + 1
      OBVIOUS
    <3>2. n \in 1 .. Filled
      BY <1>1, <2>1, <2>2, <3>1
    <3>3. held' = kept \cup This(TakenAt(n))
      BY <2>6, <2>9, <3>1
    <3>. QED
      BY <2>1, <3>1, <3>2, <3>3
  <2>11. NothingKept'
    BY <2>1, <2>2 DEF NothingKept
  <2>. QED
    BY <1>1, <2>1, <2>2, <2>10, <2>11 DEF HoldInv, Labels, HoldsOnlyWhileUp
<1>4. CASE InitFail
  <2>1. /\ pc = "init" /\ pc' = OnFailure[step] /\ step' = 0
        /\ up' = up /\ held' = held /\ kept' = kept
    BY <1>4 DEF InitFail
  <2>2. /\ step \in 1 .. Filled /\ held = kept \cup This(TakenAt(step)) /\ NothingKept
        /\ kept \subseteq {"this", "earlier"} \X {"attachment", "fd"} /\ kept \subseteq held
    BY <2>1 DEF HoldInv
  <2>3. PICK a : a = TakenAt(step)
    OBVIOUS
  <2>4. PICK label : label = OnFailure[step]
    OBVIOUS
  <2>5. /\ label \in {"idle"} \cup Labels
        /\ label = "idle" => a = {}
        /\ label # "idle" => a \subseteq Owed(label)
        /\ label \in {"undo", "detach"} => {"attachment", "fd"} \subseteq a
    BY <2>2, <2>3, <2>4, InitTable
  <2>6. NothingKept' /\ <<"this", "fd">> \notin kept
    BY <2>1, <2>2 DEF NothingKept, This, HeapTakes
  <2>7. label \in {"undo", "detach"} => This({"attachment", "fd"}) \subseteq held'
    BY <2>1, <2>2, <2>3, <2>5 DEF This
  <2>8. label \in Labels => held' \subseteq kept' \cup This(Owed(label))
    <3>1. "idle" \notin Labels
      BY DEF Labels
    <3>2. ASSUME label \in Labels PROVE This(a) \subseteq This(Owed(label))
      BY <2>5, <3>1, <3>2 DEF This
    <3>. QED
      BY <2>1, <2>2, <2>3, <3>2
  <2>9. label = "idle" => held' = kept' \cup This({})
    BY <2>1, <2>2, <2>3, <2>5
  <2>10. "idle" \notin Labels /\ "init" \notin Labels /\ "scan" \notin Labels /\ "sweep" \notin Labels
    BY DEF Labels
  <2>11. HoldsOnlyWhileUp'
    BY <1>1, <2>1, <2>4, <2>5, <2>9, <2>10 DEF HoldsOnlyWhileUp
  <2>. QED
    BY <1>1, <2>1, <2>2, <2>4, <2>5, <2>6, <2>7, <2>8, <2>10, <2>11 DEF HoldInv
<1>5. CASE InitDone
  <2>1. /\ pc = "init" /\ pc' = "idle" /\ step = Filled /\ step' = 0 /\ up' = TRUE
        /\ held' = held /\ kept' = kept
    BY <1>5 DEF InitDone
  <2>2. /\ held = kept \cup This(TakenAt(step)) /\ NothingKept
        /\ kept \subseteq {"this", "earlier"} \X {"attachment", "fd"} /\ kept \subseteq held
    BY <2>1 DEF HoldInv
  <2>3. TakenAt(10) = HeapTakes
    BY DEF TakenAt
  <2>4. held' = kept' \cup This(HeapTakes)
    BY <1>1, <2>1, <2>2, <2>3
  <2>5. NothingKept'
    BY <2>1, <2>2 DEF NothingKept
  <2>. QED
    BY <1>1, <2>1, <2>2, <2>4, <2>5 DEF HoldInv, Labels, HoldsOnlyWhileUp
<1>. QED
  BY <1>2, <1>3, <1>4, <1>5

\* The calls of an allocator that is up take nothing from the system.
LEMMA HoldCalls ==
    ASSUME HoldInv, UNCHANGED <<takenVars, up>>,
           pc \in {"idle", "scan", "sweep"}, pc' \in {"idle", "scan", "sweep"}
    PROVE  HoldInv'
<1>1. UNCHANGED <<held, kept, step, up>>
  BY DEF takenVars
<1>2. HoldsOnlyWhileUp'
  BY <1>1 DEF HoldInv, HoldsOnlyWhileUp
<1>3. NothingKept => NothingKept'
  BY <1>1 DEF NothingKept
<1>. QED
  BY <1>1, <1>2, <1>3 DEF HoldInv, Labels

LEMMA HoldStep == IInv /\ HoldInv /\ [Next]_vars => HoldInv'
<1>. SUFFICES ASSUME IInv, HoldInv, [Next]_vars PROVE HoldInv'
  OBVIOUS
<1>1. CASE HeapInit
  BY <1>1, HoldInit, HoldLabels DEF HeapInit
<1>2. CASE TermStart
  <2>1. /\ pc = "idle" /\ up /\ pc' = "detach" /\ up' = FALSE
        /\ UNCHANGED <<held, kept, step>>
    BY <1>2 DEF TermStart, takenVars
  <2>2. /\ held = kept \cup This(HeapTakes) /\ NothingKept
        /\ kept \subseteq {"this", "earlier"} \X {"attachment", "fd"} /\ kept \subseteq held
    BY <2>1 DEF HoldInv, HoldsOnlyWhileUp
  <2>3. This({"attachment", "fd"}) \subseteq held
    BY <2>2 DEF This, HeapTakes
  <2>4. NothingKept'
    BY <2>1, <2>2 DEF NothingKept
  <2>5. Owed("detach") = HeapTakes
    BY DEF Owed
  <2>6. held' \subseteq kept' \cup This(Owed(pc'))
    BY <2>1, <2>2, <2>5
  <2>. QED
    BY <2>1, <2>2, <2>3, <2>4, <2>6 DEF HoldInv, Labels, HoldsOnlyWhileUp
<1>3. CASE HeapTerm
  BY <1>2, <1>3, HoldLabels DEF HeapTerm
<1>4. CASE AllocAligned \/ AllocArray
  BY <1>4, HoldCalls DEF AllocAligned, AllocArray, StartScan
<1>5. CASE \E a \in live : BlockFree(a)
  BY <1>5, HoldCalls DEF BlockFree
<1>6. CASE Scan
  BY <1>6, HoldCalls DEF Scan, ScanSkip, ScanGap, ScanTake, ScanFail
<1>7. CASE Sweep
  BY <1>7, HoldCalls DEF Sweep, SweepMerge, SweepStep, SweepLast
<1>8. CASE UNCHANGED vars
  <2>1. UNCHANGED <<held, kept, step, up, pc>>
    BY <1>8 DEF vars, takenVars
  <2>. QED
    BY <2>1 DEF HoldInv, HoldsOnlyWhileUp, NothingKept
<1>. QED
  BY <1>1, <1>3, <1>4, <1>5, <1>6, <1>7, <1>8 DEF Next

LEMMA HoldInvInit == Init => HoldInv
<1>. SUFFICES ASSUME Init PROVE HoldInv
  OBVIOUS
<1>1. This({}) = {}
  BY DEF This
<1>2. held = kept \cup This({}) /\ kept = {} /\ up = FALSE /\ pc = "idle" /\ step = 0
  BY <1>1 DEF Init
<1>. QED
  BY <1>2 DEF HoldInv, Labels, HoldsOnlyWhileUp, Filled

-----------------------------------------------------------------------------
(***************************************************************************)
(* The theorems.                                                           *)
(***************************************************************************)
\* The list tiles the heap, and its taken blocks are those of the live
\* allocations or of the free under way, at every step of every call; what
\* init has taken follows its steps.
THEOREM DevHeapInv == Spec => [](IInv /\ HoldInv)
<1>1. Init => IInv /\ HoldInv
  BY HeapInvInit, HoldInvInit
<1>2. IInv /\ HoldInv /\ [Next]_vars => (IInv /\ HoldInv)'
  BY HeapStep, HoldStep
<1>. QED
  BY <1>1, <1>2, PTL DEF Spec

\* Between calls the process holds all that init takes while the heap is up,
\* and else only what failing detaches left, of this life and of earlier
\* ones: at whatever step init failed, the label taken gave back exactly
\* what was there.
THEOREM DevHeapHoldsOnlyWhileUp == Spec => []HoldsOnlyWhileUp
<1>1. HoldInv => HoldsOnlyWhileUp
  BY DEF HoldInv
<1>. QED
  BY <1>1, DevHeapInv, PTL

\* Every block lies inside the heap, positions are those of the list, and
\* the allocations and what is held are what the code can have.
THEOREM DevHeapTypeCorrect == Spec => []TypeOK
<1>1. IInv /\ HoldInv => TypeOK
  <2>. SUFFICES ASSUME IInv, HoldInv PROVE TypeOK
    OBVIOUS
  <2>1. /\ size \in Nat /\ up \in BOOLEAN /\ step \in 0 .. Filled
        /\ pc \in {"idle", "scan", "sweep"} \cup {"init", "undo", "exit", "error", "detach", "rest"}
    BY DEF IInv, ListInv, HoldInv, Labels
  <2>2. \A a \in live : a.ptr \in Nat /\ a.elem \in Nat /\ a.count \in Nat
    BY DEF IInv, LiveInv
  <2>3. blocks \in Seq(Block)
    <3>1. CASE ~up
      BY <3>1 DEF IInv, ListInv
    <3>2. CASE up
      <4>1. Tiles(blocks, size)
        BY <3>2 DEF IInv, ListInv
      <4>2. blocks \in Seq(BlockRec) /\ Len(blocks) \in Nat /\ Len(blocks) >= 1
        BY <4>1 DEF Tiles
      <4>3. ASSUME NEW i \in 1 .. Len(blocks) PROVE blocks[i] \in Block
        <5>1. /\ blocks[i] \in BlockRec
              /\ blocks[i].vaddr \in Nat /\ blocks[i].size \in Nat /\ blocks[i].free \in BOOLEAN
              /\ End(blocks[i]) = blocks[i].vaddr + blocks[i].size
          BY <4>1, BlockFacts
        <5>2. PICK l \in 1 .. Len(blocks) : l = Len(blocks)
          BY <4>2
        <5>3. /\ blocks[l].vaddr \in Nat /\ blocks[l].size \in Nat
              /\ End(blocks[l]) = blocks[l].vaddr + blocks[l].size
          BY <4>1, BlockFacts
        <5>4. End(blocks[l]) = size
          BY <4>1, <5>2 DEF Tiles
        <5>5. i < l => End(blocks[i]) <= blocks[l].vaddr
          BY <4>1 DEF Tiles
        <5>6. i < l \/ i = l
          BY <4>2, <5>2
        <5>7. blocks[i].vaddr \in 0 .. size /\ blocks[i].size \in 0 .. size
          BY <2>1, <5>1, <5>3, <5>4, <5>5, <5>6
        <5>. QED
          BY <5>1, <5>7 DEF BlockRec, Block
      <4>. QED
        BY <4>2, <4>3
    <3>. QED
      BY <3>1, <3>2
  <2>4. cur \in 0 .. Len(blocks) + 1
    <3>1. Len(blocks) \in Nat
      BY <2>3
    <3>. QED
      BY <2>1, <3>1 DEF IInv, LoopInv
  <2>5. held \subseteq {"this", "earlier"} \X (HeapTakes \cup ExitFrees) /\ kept \subseteq held
    <3>1. PICK a : held \subseteq kept \cup This(a) /\ a \subseteq HeapTakes \cup ExitFrees
      <4>1. CASE pc \in {"idle", "scan", "sweep"}
        <5>1. held = kept \cup This(IF up THEN HeapTakes ELSE {})
          BY <4>1 DEF HoldInv, HoldsOnlyWhileUp
        <5>. QED
          BY <5>1
      <4>2. CASE pc = "init"
        <5>1. held = kept \cup This(TakenAt(step)) /\ step \in 1 .. 10
          BY <4>2 DEF HoldInv, Filled
        <5>2. TakenAt(step) \subseteq HeapTakes \cup ExitFrees
          BY <5>1 DEF TakenAt, HeapTakes, ExitFrees
        <5>. QED
          BY <5>1, <5>2
      <4>3. CASE pc \in Labels
        <5>1. held \subseteq kept \cup This(Owed(pc))
          BY <4>3 DEF HoldInv
        <5>2. Owed(pc) \subseteq HeapTakes \cup ExitFrees
          BY <4>3 DEF Labels, Owed, HeapTakes, ExitFrees
        <5>. QED
          BY <5>1, <5>2
      <4>. QED
        BY <4>1, <4>2, <4>3 DEF HoldInv
    <3>2. kept \subseteq {"this", "earlier"} \X {"attachment", "fd"} /\ kept \subseteq held
      BY DEF HoldInv
    <3>3. {"attachment", "fd"} \subseteq HeapTakes
      BY DEF HeapTakes
    <3>4. kept \subseteq {"this", "earlier"} \X (HeapTakes \cup ExitFrees)
      BY <3>2, <3>3
    <3>5. This(a) \subseteq {"this", "earlier"} \X (HeapTakes \cup ExitFrees)
      BY <3>1 DEF This
    <3>. QED
      BY <3>1, <3>2, <3>4, <3>5
  <2>. QED
    BY <2>1, <2>2, <2>3, <2>4, <2>5 DEF TypeOK
<1>. QED
  BY <1>1, DevHeapInv, PTL

-----------------------------------------------------------------------------
(***************************************************************************)
(* Elements and device pages.                                              *)
(***************************************************************************)
LEMMA MulSteps ==
    ASSUME NEW h \in Nat, NEW a \in Int, NEW b \in Int
    PROVE  /\ h * a \in Int /\ h * b \in Int
           /\ a <= b => h * a <= h * b
           /\ a < b => h * a + h <= h * b
OBVIOUS

LEMMA QuotientIs ==
    ASSUME NEW h \in Nat \ {0}, NEW q \in Int, NEW x \in Int, h * q <= x, x < h * q + h
    PROVE  x \div h = q
<1>. DEFINE d == x \div h
            m == x % h
<1>1. d \in Int /\ m \in 0 .. h - 1 /\ x = (h * d) + m
  OBVIOUS
<1>. HIDE DEF d, m
<1>2. ~(d < q)
  <2>1. d < q => h * d + h <= h * q
    BY <1>1, MulSteps
  <2>2. h * d \in Int /\ h * q \in Int
    BY <1>1, MulSteps
  <2>. QED
    BY <1>1, <2>1, <2>2
<1>3. ~(q < d)
  <2>1. q < d => h * q + h <= h * d
    BY <1>1, MulSteps
  <2>2. h * d \in Int /\ h * q \in Int
    BY <1>1, MulSteps
  <2>. QED
    BY <1>1, <2>1, <2>2
<1>. QED
  BY <1>1, <1>2, <1>3 DEF d

\* An array that lies in one device page.
LEMMA InsideOnePage ==
    ASSUME NEW h \in Nat \ {0}, NEW q \in Int, NEW ptr \in Nat, NEW e \in Nat \ {0},
           NEW c \in Nat, h * q <= ptr, ptr + c * e <= h * q + h, NEW k \in 0 .. c - 1
    PROVE  (ptr + k * e) \div h = (ptr + k * e + e - 1) \div h
<1>1. k \in Nat /\ c \in Nat /\ k + 1 <= c
  OBVIOUS
<1>. DEFINE ke == k * e
            ce == c * e
            hq == h * q
<1>2. ke \in Nat /\ ke + e <= ce /\ ce \in Nat /\ hq \in Int
  <2>1. e * k + e <= e * c /\ e * k \in Nat /\ e * c \in Nat
    BY <1>1, MulSteps
  <2>2. e * k = k * e /\ e * c = c * e
    BY <1>1
  <2>. QED
    BY <2>1, <2>2
<1>3. hq <= ptr /\ ptr + ce <= hq + h
  OBVIOUS
<1>. HIDE DEF ke, ce, hq
<1>4. /\ ptr + ke \in Int /\ hq <= ptr + ke /\ ptr + ke < hq + h
      /\ ptr + ke + e - 1 \in Int /\ hq <= ptr + ke + e - 1 /\ ptr + ke + e - 1 < hq + h
  BY <1>2, <1>3
<1>5. (ptr + ke) \div h = q
  BY <1>4, QuotientIs DEF hq
<1>6. (ptr + ke + e - 1) \div h = q
  BY <1>4, QuotientIs DEF hq
<1>. QED
  BY <1>5, <1>6 DEF ke

\* Elements that divide the device page, from a multiple of their size on.
LEMMA AlignedElement ==
    ASSUME NEW h \in Nat \ {0}, NEW e \in Nat \ {0}, h % e = 0, NEW j \in Int
    PROVE  (e * j) \div h = (e * j + e - 1) \div h
<1>. DEFINE g == h \div e
            d == j \div g
            m == j % g
<1>1. g \in Nat /\ h = e * g
  BY SMTT(30)
<1>2. g # 0
  BY <1>1
<1>. HIDE DEF g
<1>3. d \in Int /\ m \in Nat /\ m + 1 <= g /\ j = (g * d) + m
  BY <1>1, <1>2
<1>. HIDE DEF d, m
<1>4. e * j = (h * d) + (e * m)
  <2>1. e * ((g * d) + m) = (e * (g * d)) + (e * m)
    BY <1>1, <1>3
  <2>2. e * (g * d) = (e * g) * d
    BY <1>1, <1>3
  <2>. QED
    BY <1>1, <1>3, <2>1, <2>2
<1>5. e * m \in Nat /\ e * m + e <= h /\ h * d \in Int
  <2>1. e * m \in Int /\ e * m + e <= e * g /\ h * d \in Int
    BY <1>1, <1>3, MulSteps
  <2>2. e * m >= 0
    BY <1>3
  <2>. QED
    BY <1>1, <2>1, <2>2
<1>. DEFINE em == e * m
            hd == h * d
            ej == e * j
<1>6. ej = hd + em /\ em \in Nat /\ em + e <= h /\ hd \in Int
  BY <1>4, <1>5
<1>. HIDE DEF em, hd, ej
<1>7. /\ ej \in Int /\ hd <= ej /\ ej < hd + h
      /\ ej + e - 1 \in Int /\ hd <= ej + e - 1 /\ ej + e - 1 < hd + h
  BY <1>6
<1>8. ej \div h = d
  BY <1>3, <1>7, QuotientIs DEF hd
<1>9. (ej + e - 1) \div h = d
  BY <1>3, <1>7, QuotientIs DEF hd
<1>. QED
  BY <1>8, <1>9 DEF ej

\* An array of c elements of e at address v of a block that wants no gap: r
\* is what is left of the page of h there, and the array was not rejected.
Placed(h, e, c, v, r) ==
    /\ h \in Nat \ {0} /\ e \in Nat \ {0} /\ c \in Nat /\ v \in Nat
    /\ r \in Nat /\ r = h - (v % h)
    /\ c * e <= r \/ r % e = 0
    /\ c * e <= h \/ h % e = 0

LEMMA PlacedElement ==
    ASSUME NEW h, NEW e, NEW c, NEW v, NEW r, Placed(h, e, c, v, r), NEW k \in 0 .. c - 1
    PROVE  (v + k * e) \div h = (v + k * e + e - 1) \div h
<1>0. /\ h \in Nat \ {0} /\ e \in Nat \ {0} /\ c \in Nat /\ v \in Nat
      /\ r \in Nat /\ r = h - (v % h)
      /\ c * e <= r \/ r % e = 0
      /\ c * e <= h \/ h % e = 0
  BY DEF Placed
<1>. DEFINE q == v \div h
            hq == h * q
            ce == c * e
<1>1. q \in Int /\ hq \in Int /\ hq <= v /\ v + r = hq + h /\ ce \in Nat
  BY <1>0
<1>. HIDE DEF q
<1>2. CASE c * e <= r
  <2>1. ce <= r
    BY <1>0, <1>2
  <2>. HIDE DEF hq, ce
  <2>2. hq <= v /\ v + ce <= hq + h
    BY <1>0, <1>1, <2>1
  <2>3. h * q <= v /\ v + c * e <= h * q + h
    BY <1>0, <2>2 DEF hq, ce
  <2>4. /\ h \in Nat \ {0} /\ q \in Int /\ v \in Nat /\ e \in Nat \ {0} /\ c \in Nat
        /\ k \in 0 .. c - 1
    BY <1>0, <1>1
  <2>. QED
    BY ONLY <2>3, <2>4, InsideOnePage
<1>3. CASE r % e = 0
  <2>1. PICK j \in Nat : r = e * j
    <3>1. r = e * (r \div e) /\ r \div e \in Nat
      BY <1>0, <1>3, SMTT(30)
    <3>. QED
      BY <1>0, <3>1
  <2>2. CASE h % e = 0
    <3>1. PICK g \in Nat : h = e * g
      <4>1. h = e * (h \div e) /\ h \div e \in Nat
        BY <1>0, <2>2, SMTT(30)
      <4>. QED
        BY <1>0, <4>1
    <3>. DEFINE gq == g * q
                n == gq + g - j + k
    <3>2. gq \in Int /\ h * q = e * gq
      BY <1>0, <1>1, <3>1
    <3>3. n \in Int
      BY <1>0, <2>1, <3>1, <3>2
    <3>4. v + k * e = e * n
      <4>1. v = hq + h - r
        <5>. HIDE DEF hq
        <5>. QED
          BY <1>0, <1>1
      <4>2. v = (e * gq) + (e * g) - (e * j)
        BY <1>0, <2>1, <3>1, <3>2, <4>1
      <4>. HIDE DEF gq
      <4>3. (e * gq) + (e * g) - (e * j) + (e * k) = e * n
        BY <1>0, <2>1, <3>1, <3>2
      <4>4. k * e = e * k
        BY <1>0
      <4>. QED
        BY <1>0, <4>2, <4>3, <4>4
    <3>. HIDE DEF n
    <3>5. (e * n) \div h = (e * n + e - 1) \div h
      BY <1>0, <2>2, <3>3, AlignedElement
    <3>. QED
      BY <1>0, <3>4, <3>5
  <2>3. CASE c * e <= h
    <3>1. CASE k < j
      <4>1. k \in 0 .. j - 1
        BY <1>0, <2>1, <3>1
      <4>2. v + j * e = hq + h
        <5>1. j * e = r
          BY <1>0, <2>1
        <5>. QED
          BY <1>0, <1>1, <5>1
      <4>3. h * q <= v /\ v + j * e <= h * q + h
        BY <1>0, <1>1, <4>2
      <4>4. /\ h \in Nat \ {0} /\ q \in Int /\ v \in Nat /\ e \in Nat \ {0} /\ j \in Nat
        BY <1>0, <1>1, <2>1
      <4>. QED
        BY ONLY <4>1, <4>3, <4>4, InsideOnePage
    <3>2. CASE k >= j
      <4>1. PICK i \in Nat : k = j + i
        <5>1. k - j \in Nat /\ k = j + (k - j)
          BY <1>0, <2>1, <3>2
        <5>. QED
          BY <1>0, <5>1
      <4>2. PICK d \in Nat : c = j + d
        <5>1. c - j \in Nat /\ c = j + (c - j)
          BY <1>0, <2>1, <3>2
        <5>. QED
          BY <1>0, <5>1
      <4>3. PICK w \in Nat : w = v + r
        BY <1>0, <1>1
      <4>4. v + k * e = w + i * e
        <5>1. (j + i) * e = e * j + i * e
          BY <1>0, <2>1, <4>1
        <5>2. i * e \in Nat /\ e * j \in Nat
          BY <1>0, <2>1, <4>1
        <5>. QED
          BY <1>0, <2>1, <4>1, <4>3, <5>1, <5>2
      <4>5. h * (q + 1) = hq + h
        BY <1>0, <1>1
      <4>6. d * e <= h
        <5>1. (j + d) * e = e * j + d * e /\ e * j \in Nat /\ d * e \in Nat
          BY <1>0, <2>1, <4>2
        <5>2. d * e <= (j + d) * e
          BY <1>0, <5>1
        <5>3. (j + d) * e \in Nat /\ (j + d) * e <= h
          BY <1>0, <2>3, <4>2, <5>1
        <5>. QED
          BY <1>0, <5>1, <5>2, <5>3
      <4>7. h * (q + 1) <= w /\ w + d * e <= h * (q + 1) + h
        <5>1. d * e \in Nat
          BY <1>0, <4>2
        <5>2. w = h * (q + 1) /\ h * (q + 1) \in Int
          BY <1>0, <1>1, <4>3, <4>5
        <5>. QED
          BY <1>0, <4>6, <5>1, <5>2
      <4>8. PICK p \in Int : p = q + 1
        BY <1>0, <1>1
      <4>9. i \in 0 .. d - 1
        BY <1>0, <4>1, <4>2, <2>1
      <4>10. h * p <= w /\ w + d * e <= h * p + h
        BY <1>0, <4>7, <4>8
      <4>11. (w + i * e) \div h = (w + i * e + e - 1) \div h
        <5>1. h \in Nat \ {0} /\ p \in Int /\ w \in Nat /\ e \in Nat \ {0} /\ d \in Nat
          BY <1>0, <4>2, <4>3, <4>8
        <5>. QED
          BY ONLY <4>9, <4>10, <5>1, InsideOnePage
      <4>. QED
        BY <1>0, <4>4, <4>11
    <3>. QED
      BY <1>0, <2>1, <3>1, <3>2
  <2>. QED
    BY <1>0, <2>2, <2>3
<1>. QED
  BY <1>0, <1>2, <1>3

\* The array under way was not rejected, and those placed are laid out.
PageInv ==
    /\ pc = "scan" => ~Rejected(req.count, req.elem)
    /\ \A a \in live : InsideDpages(a)

LEMMA PlacedInside ==
    ASSUME IInv, PageInv, ScanTake
    PROVE  \A a \in live' : InsideDpages(a)
<1>1. /\ pc = "scan" /\ cur <= Len(blocks) /\ ~NeedsGap(blocks[cur])
      /\ live' = live \cup {[ptr |-> blocks[cur].vaddr, elem |-> req.elem, count |-> req.count]}
  BY DEF ScanTake
<1>2. /\ Tiles(blocks, size) /\ cur \in 1 .. Len(blocks)
      /\ req.total \in Nat /\ req.elem \in Nat /\ req.count \in Nat
      /\ 0 < req.elem /\ req.count * req.elem <= req.total
  BY <1>1, ScanFacts
<1>3. PICK i \in 1 .. Len(blocks) : i = cur
  BY <1>2
<1>4. PICK v \in Nat : v = blocks[i].vaddr
  BY <1>2, BlockFacts
<1>5. PICK e \in Nat \ {0} : e = req.elem
  BY <1>2
<1>6. PICK c \in Nat : c = req.count
  BY <1>2
<1>7. PICK h \in Nat \ {0} : h = DevicePage
  BY CudamemAssumption
<1>8. PICK r \in Nat : r = h - (v % h)
  <2>1. v % h \in 0 .. h - 1
    OBVIOUS
  <2>2. h - (v % h) \in Nat
    BY <2>1
  <2>. QED
    BY <2>2
<1>9. DpageRemaining(blocks[cur]) = r
  BY <1>3, <1>4, <1>7, <1>8 DEF DpageRemaining
<1>10. c * e <= r \/ r % e = 0
  <2>1. ~(r < req.total) \/ r % e = 0
    BY <1>1, <1>5, <1>9 DEF NeedsGap, Disalignment
  <2>2. PICK ce \in Nat : ce = c * e
    OBVIOUS
  <2>3. ce <= req.total
    BY <1>2, <1>5, <1>6, <2>2
  <2>4. ~(r < req.total) => ce <= r
    BY <1>2, <2>3
  <2>. QED
    BY <2>1, <2>2, <2>4
<1>11. c * e <= h \/ h % e = 0
  <2>1. ~(c * e > h) \/ h % e = 0
    BY <1>1, <1>5, <1>6, <1>7 DEF PageInv, Rejected
  <2>2. PICK ce \in Nat : ce = c * e
    OBVIOUS
  <2>3. ~(ce > h) => ce <= h
    OBVIOUS
  <2>. QED
    BY <2>1, <2>2, <2>3
<1>12. PICK new : new = [ptr |-> v, elem |-> e, count |-> c]
  OBVIOUS
<1>13. new.ptr = v /\ new.elem = e /\ new.count = c
  BY <1>12
<1>14. InsideDpages(new)
  <2>1. ASSUME NEW k \in 0 .. c - 1
        PROVE  (v + k * e) \div h = (v + k * e + e - 1) \div h
    <3>1. Placed(h, e, c, v, r)
      BY <1>8, <1>10, <1>11 DEF Placed
    <3>2. k \in 0 .. c - 1
      OBVIOUS
    <3>. QED
      BY ONLY <3>1, <3>2, PlacedElement
  <2>. QED
    BY <1>7, <1>13, <2>1 DEF InsideDpages
<1>15. live' = live \cup {new}
  BY <1>1, <1>3, <1>4, <1>5, <1>6, <1>12
<1>. QED
  BY <1>14, <1>15 DEF PageInv

LEMMA PageStep == IInv /\ HoldInv /\ PageInv /\ [Next]_vars => PageInv'
<1>. SUFFICES ASSUME IInv, HoldInv, PageInv, [Next]_vars PROVE PageInv'
  OBVIOUS
<1>1. CASE UNCHANGED <<live, pc, req>>
  BY <1>1 DEF PageInv, Rejected, InsideDpages
<1>2. CASE live' = live /\ pc' # "scan"
  BY <1>2 DEF PageInv, InsideDpages
<1>3. ASSUME NEW count, NEW elem, NEW align, StartScan(count, elem, align) PROVE PageInv'
  <2>1. PICK r : r = req'
    OBVIOUS
  <2>2. r.count = count /\ r.elem = elem /\ live' = live
    BY <1>3, <2>1 DEF StartScan
  <2>3. ~Rejected(count, elem)
    BY <1>3 DEF StartScan
  <2>4. ~Rejected(r.count, r.elem)
    BY <2>2, <2>3
  <2>. QED
    BY <2>1, <2>2, <2>4 DEF PageInv, Rejected, InsideDpages
<1>4. CASE AllocAligned \/ AllocArray
  BY <1>3, <1>4 DEF AllocAligned, AllocArray
<1>5. CASE \E a \in live : BlockFree(a)
  <2>1. live' \subseteq live /\ pc' = "sweep"
    BY <1>5 DEF BlockFree
  <2>. QED
    BY <2>1 DEF PageInv, InsideDpages
<1>6. CASE ScanTake
  <2>1. \A a \in live' : InsideDpages(a)
    BY <1>6, PlacedInside
  <2>2. pc' = "idle"
    BY <1>6 DEF ScanTake
  <2>. QED
    BY <2>1, <2>2 DEF PageInv, InsideDpages
<1>7. CASE ScanSkip \/ ScanGap \/ SweepMerge \/ SweepStep
  <2>1. UNCHANGED <<live, pc, req>>
    BY <1>7 DEF ScanSkip, ScanGap, SweepMerge, SweepStep
  <2>. QED
    BY <1>1, <2>1
<1>8. CASE ScanFail \/ SweepLast
  <2>1. live' = live /\ pc' # "scan"
    BY <1>8 DEF ScanFail, SweepLast
  <2>. QED
    BY <1>2, <2>1
<1>9. CASE HeapInit
  <2>1. live' = live /\ pc' # "scan"
    <3>1. CASE InitFail
      <4>1. live' = live /\ step \in 1 .. Filled /\ pc' = OnFailure[step]
        BY <3>1 DEF InitFail, HoldInv
      <4>. QED
        BY <4>1, InitTable DEF Labels
    <3>2. CASE ~InitFail
      BY <1>9, <3>2 DEF HeapInit, InitStart, InitTake, InitDone, AttachUndo, AttachExit,
                        InitError, GiveBack
    <3>. QED
      BY <3>1, <3>2
  <2>. QED
    BY <1>2, <2>1
<1>10. CASE HeapTerm
  <2>1. live' = live /\ pc' # "scan"
    BY <1>10 DEF HeapTerm, TermStart, DmabufDetach, HeapRest, GiveBack
  <2>. QED
    BY <1>2, <2>1
<1>11. CASE UNCHANGED vars
  BY <1>1, <1>11 DEF vars, callVars
<1>. QED
  BY <1>4, <1>5, <1>6, <1>7, <1>8, <1>9, <1>10, <1>11 DEF Next, Scan, Sweep

\* No element of an array in GPU memory crosses a device page, whether or
\* not the element divides the page, so that one entry of phys_lut serves it.
THEOREM DevHeapInsideDpages == Spec => [](\A a \in live : InsideDpages(a))
<1>1. Init => PageInv
  BY DEF Init, PageInv
<1>2. IInv /\ HoldInv /\ PageInv /\ [Next]_vars => PageInv'
  BY PageStep
<1>3. PageInv => \A a \in live : InsideDpages(a)
  BY DEF PageInv
<1>. QED
  BY <1>1, <1>2, <1>3, DevHeapInv, PTL DEF Spec

\* Between frees the list tiles the heap, its taken blocks are exactly those
\* of the live allocations, and each is as large as its allocation asked.
THEOREM DevHeapServes == Spec => []BlocksServeAllocations
<1>1. IInv => BlocksServeAllocations
  <2>. SUFFICES ASSUME IInv, up, pc # "sweep"
                PROVE  /\ blocks[1].vaddr = 0 /\ End(Last(blocks)) = size
                       /\ \A i \in 1 .. Len(blocks) - 1 : End(blocks[i]) = blocks[i + 1].vaddr
                       /\ \A i \in DOMAIN blocks : blocks[i].size > 0
                       /\ {b.vaddr : b \in {c \in ToSet(blocks) : ~c.free}}
                             = {a.ptr : a \in live}
                       /\ \A a \in live, b \in ToSet(blocks) :
                             b.vaddr = a.ptr => b.size >= a.count * a.elem
    BY DEF BlocksServeAllocations
  <2>1. Tiles(blocks, size)
    BY DEF IInv, ListInv
  <2>2. /\ blocks[1].vaddr = 0 /\ End(Last(blocks)) = size
        /\ \A i \in 1 .. Len(blocks) - 1 : End(blocks[i]) = blocks[i + 1].vaddr
    BY <2>1 DEF Tiles, Last
  <2>3. DOMAIN blocks = 1 .. Len(blocks)
    BY <2>1 DEF Tiles
  <2>4. \A i \in DOMAIN blocks : blocks[i].size > 0
    BY <2>1, <2>3 DEF Tiles
  <2>5. \A b : b \in ToSet(blocks) <=> \E i \in 1 .. Len(blocks) : b = blocks[i]
    BY <2>3 DEF ToSet
  <2>6. ASSUME NEW i \in 1 .. Len(blocks), ~blocks[i].free
        PROVE  \E a \in live : a.ptr = blocks[i].vaddr
    <3>1. blocks[i].free # TRUE
      BY <2>6
    <3>. QED
      BY <3>1 DEF IInv, LiveInv, Released
  <2>7. ASSUME NEW a \in live
        PROVE  \E i \in 1 .. Len(blocks) : Serves(blocks[i], a)
    BY DEF IInv, LiveInv
  <2>8. {b.vaddr : b \in {c \in ToSet(blocks) : ~c.free}} = {a.ptr : a \in live}
    <3>1. ASSUME NEW b \in ToSet(blocks), ~b.free
          PROVE  \E a \in live : b.vaddr = a.ptr
      BY <2>5, <2>6, <3>1
    <3>2. ASSUME NEW a \in live
          PROVE  \E b \in ToSet(blocks) : ~b.free /\ b.vaddr = a.ptr
      <4>1. PICK i \in 1 .. Len(blocks) : Serves(blocks[i], a)
        BY <2>7
      <4>2. blocks[i] \in ToSet(blocks)
        BY <2>5
      <4>3. ~blocks[i].free /\ blocks[i].vaddr = a.ptr
        BY <4>1 DEF Serves
      <4>. QED
        BY <4>2, <4>3
    <3>. QED
      BY <3>1, <3>2
  <2>9. ASSUME NEW a \in live, NEW b \in ToSet(blocks), b.vaddr = a.ptr
        PROVE  b.size >= a.count * a.elem
    <3>1. PICK j \in 1 .. Len(blocks) : b = blocks[j]
      BY <2>5
    <3>2. PICK i \in 1 .. Len(blocks) : Serves(blocks[i], a)
      BY <2>7
    <3>3. i = j
      BY <2>1, <2>9, <3>1, <3>2, AddressOfOne DEF Serves
    <3>. QED
      BY <3>1, <3>2, <3>3 DEF Serves
  <2>. QED
    BY <2>2, <2>4, <2>8, <2>9
<1>. QED
  BY <1>1, DevHeapInv, PTL

\* The free that ends leaves no two free neighbours anywhere in the list,
\* whatever holes the allocations before it had cut.
THEOREM DevHeapFreeMerges == Spec => FreeMergesAll
<1>1. IInv /\ [Next]_vars =>
         [pc = "sweep" /\ pc' = "idle" =>
             \A i \in 1 .. Len(blocks') - 1 : ~(blocks'[i].free /\ blocks'[i + 1].free)]_vars
  <2>. SUFFICES ASSUME IInv, Next, pc = "sweep", pc' = "idle"
                PROVE  \A i \in 1 .. Len(blocks') - 1 : ~(blocks'[i].free /\ blocks'[i + 1].free)
    OBVIOUS
  <2>1. up
    BY DEF IInv, ListInv
  <2>2. SweepLast
    BY <2>1 DEF Next, HeapInit, InitStart, InitTake, InitFail, InitDone, AttachUndo,
                AttachExit, InitError, HeapTerm, TermStart, DmabufDetach, HeapRest, AllocAligned, AllocArray, StartScan, BlockFree,
                Scan, ScanSkip, ScanGap, ScanTake, ScanFail, Sweep, SweepMerge, SweepStep
  <2>3. IInv' /\ MergedTo(blocks, Len(blocks))'
    BY <2>2, LastStep
  <2>4. PICK t : t = blocks'
    OBVIOUS
  <2>5. up' /\ Tiles(t, size')
    <3>1. up' = up
      BY <2>2 DEF SweepLast
    <3>. QED
      BY <2>1, <2>3, <2>4, <3>1 DEF IInv, ListInv
  <2>6. ASSUME NEW i \in 1 .. Len(t) - 1 PROVE ~(t[i].free /\ t[i + 1].free)
    <3>1. Len(t) \in Nat /\ t \in Seq(BlockRec)
      BY <2>5 DEF Tiles
    <3>2. i \in 1 .. Len(t) /\ i + 1 \in 1 .. Len(t)
      BY <3>1
    <3>3. t[i] \in BlockRec /\ t[i + 1] \in BlockRec
      BY <3>1, <3>2
    <3>4. t[i].free \in BOOLEAN /\ t[i + 1].free \in BOOLEAN
      BY <3>3 DEF BlockRec
    <3>5. ~(t[i].free = TRUE /\ t[i + 1].free = TRUE)
      BY <2>3, <2>4 DEF MergedTo
    <3>. QED
      BY <3>4, <3>5
  <2>. QED
    BY <2>4, <2>6
<1>. QED
  BY <1>1, DevHeapInv, PTL DEF Spec, FreeMergesAll

-----------------------------------------------------------------------------
(***************************************************************************)
(* The PRP builder on the heap.                                            *)
(***************************************************************************)
Facts == INSTANCE NvmePrpsProofs

\* The lemmas are about the builders used here.
LEMMA SameContig ==
    ASSUME NEW v2p, NEW chunk, NEW dbuf, NEW n
    PROVE  /\ Prps!NPages(dbuf, n) = Facts!NPages(dbuf, n)
           /\ \A dp : Prps!DescribesBuffer(v2p, dp, dbuf, n) = Facts!DescribesBuffer(v2p, dp, dbuf, n)
           /\ Prps!PrepContig(v2p, chunk, dbuf, n) = Facts!PrepContig(v2p, chunk, dbuf, n)
<1>1. /\ \A d : Prps!PageOff(d) = Facts!PageOff(d)
      /\ \A d, m : Prps!NPages(d, m) = Facts!NPages(d, m)
  BY DEF Prps!PageOff, Facts!PageOff, Prps!NPages, Facts!NPages
<1>2. \A vbase : Prps!StridesLeft(chunk, vbase) = Facts!StridesLeft(chunk, vbase)
  BY DEF Prps!StridesLeft, Facts!StridesLeft
<1>3. Prps!FirstPage(v2p, chunk, dbuf) = Facts!FirstPage(v2p, chunk, dbuf)
  BY <1>1, <1>2 DEF Prps!FirstPage, Facts!FirstPage
<1>4. \A page, at : Prps!NextPage(v2p, chunk, page, at) = Facts!NextPage(v2p, chunk, page, at)
  BY DEF Prps!NextPage, Facts!NextPage
<1>5. Prps!Pages(v2p, chunk, dbuf, n) = Facts!Pages(v2p, chunk, dbuf, n)
  BY <1>1, <1>3, <1>4 DEF Prps!Pages, Facts!Pages
<1>6. Prps!PagePhys(v2p, chunk, dbuf, n) = Facts!PagePhys(v2p, chunk, dbuf, n)
  BY <1>1, <1>5 DEF Prps!PagePhys, Facts!PagePhys
<1>7. Prps!PrepContig(v2p, chunk, dbuf, n) = Facts!PrepContig(v2p, chunk, dbuf, n)
  BY <1>1, <1>6 DEF Prps!PrepContig, Facts!PrepContig, Prps!DataPointer, Facts!DataPointer,
                    Prps!Abort, Facts!Abort, Prps!Unset, Facts!Unset,
                    Prps!ListAddr, Facts!ListAddr
<1>8. \A dp, k : Prps!DeviceByte(dp, n, k) = Facts!DeviceByte(dp, n, k)
  BY DEF Prps!DeviceByte, Facts!DeviceByte
<1>9. \A dp : Prps!DescribesBuffer(v2p, dp, dbuf, n) = Facts!DescribesBuffer(v2p, dp, dbuf, n)
  BY <1>8 DEF Prps!DescribesBuffer, Facts!DescribesBuffer
<1>. QED
  BY <1>1, <1>7, <1>9

\* How the memory is had: a heap of whole device pages, as hipmem_heap.h
\* rounds its size and as callers of cudamem_heap.h ask for, in runs that
\* start at pages.
DeviceMemory ==
    /\ \A asked \in InitSizes : RoundUp(asked, RoundTo) % DevicePage = 0
    /\ DmaRuns \in Seq([addr : Nat, len : Nat])
    /\ \A i \in DOMAIN DmaRuns : DmaRuns[i].addr % PageSize = 0

\* The entries of phys_lut, of which there are as many as device pages.
PageAddrs == {x \in Nat : x % PageSize = 0}

LutInv ==
    /\ up => size % DevicePage = 0 /\ Len(PhysLut) = size \div DevicePage
    /\ pc = "init" => req.total % DevicePage = 0

LEMMA DevicePages ==
    /\ PageSize \in Nat \ {0} /\ DevicePage \in Nat \ {0} /\ DevicePage % PageSize = 0
    /\ PrpListLen \in Nat \ {0}
    /\ Facts!Layout(DevicePage)
BY CudamemAssumption, ListAssumption DEF Facts!Layout

\* A page further is a page again.
LEMMA PagesOn ==
    ASSUME NEW g \in Nat \ {0}, NEW h \in Nat \ {0}, h % g = 0,
           NEW a \in Nat, a % g = 0, NEW k \in Nat
    PROVE  a + k * h \in Nat /\ (a + k * h) % g = 0
<1>1. PICK u \in Nat : h = g * u
  <2>1. h = g * (h \div g) /\ h \div g \in Nat
    BY SMTT(30)
  <2>. QED
    BY <2>1
<1>2. PICK v \in Nat : a = g * v
  <2>1. a = g * (a \div g) /\ a \div g \in Nat
    BY SMTT(30)
  <2>. QED
    BY <2>1
<1>3. a + k * h = g * (v + k * u) /\ k * u \in Nat /\ k * h \in Nat
  BY <1>1, <1>2
<1>4. PICK w \in Nat : w = v + k * u
  BY <1>3
<1>5. PICK x \in Nat : x = a + k * h
  BY <1>3
<1>6. x = g * w
  BY <1>3, <1>4, <1>5
<1>7. g * w <= x /\ x < g * w + g /\ x - g * w = 0
  BY <1>6
<1>8. x % g = 0
  BY <1>7, Facts!QuotientIs
<1>. QED
  BY <1>5, <1>8

LEMMA LutPages ==
    ASSUME DeviceMemory
    PROVE  PhysLut \in Seq(PageAddrs)
<1>. DEFINE entries == [j \in DOMAIN DmaRuns |-> RunEntries(DmaRuns[j], DevicePage)]
<1>1. PICK N \in Nat : DOMAIN DmaRuns = 1 .. N
  BY DEF DeviceMemory
<1>2. ASSUME NEW j \in 1 .. N PROVE RunEntries(DmaRuns[j], DevicePage) \in Seq(PageAddrs)
  <2>0. DmaRuns \in Seq([addr : Nat, len : Nat]) /\ DmaRuns[j].addr % PageSize = 0
    BY <1>1 DEF DeviceMemory
  <2>1. DmaRuns[j].addr \in Nat /\ DmaRuns[j].len \in Nat /\ DmaRuns[j].addr % PageSize = 0
    <3>1. DmaRuns[j] \in [addr : Nat, len : Nat]
      <4>1. PICK Run : Run = [addr : Nat, len : Nat]
        OBVIOUS
      <4>2. DmaRuns \in Seq(Run) /\ j \in DOMAIN DmaRuns
        BY <1>1, <2>0, <4>1
      <4>3. DmaRuns[j] \in Run
        BY ONLY <4>2
      <4>. QED
        BY <4>1, <4>3
    <3>. QED
      BY <2>0, <3>1
  <2>2. PICK m \in Nat : m = DmaRuns[j].len \div DevicePage
    BY <2>1, DevicePages
  <2>3. PICK addr \in Nat : addr = DmaRuns[j].addr /\ addr % PageSize = 0
    BY <2>1
  <2>4. ASSUME NEW k \in 1 .. m PROVE addr + (k - 1) * DevicePage \in PageAddrs
    <3>1. PICK l \in Nat : l = k - 1
      BY <2>4
    <3>2. addr + l * DevicePage \in Nat /\ (addr + l * DevicePage) % PageSize = 0
      BY <2>3, DevicePages, PagesOn
    <3>. QED
      BY <3>1, <3>2 DEF PageAddrs
  <2>5. [k \in 1 .. m |-> addr + (k - 1) * DevicePage] \in [1 .. m -> PageAddrs]
    BY <2>4
  <2>6. RunEntries(DmaRuns[j], DevicePage) = [k \in 1 .. m |-> addr + (k - 1) * DevicePage]
    BY <2>2, <2>3 DEF RunEntries
  <2>. QED
    BY <2>5, <2>6
<1>3. entries \in Seq(Seq(PageAddrs))
  <2>1. entries \in [1 .. N -> Seq(PageAddrs)]
    BY <1>1, <1>2
  <2>. QED
    BY <2>1
<1>4. PhysLut = FlattenSeq(entries)
  BY DEF PhysLut, LutEntries
<1>. HIDE DEF entries
<1>5. FlattenSeq(entries) = Facts!FlattenSeq(entries)
  BY DEF FlattenSeq, Facts!FlattenSeq
<1>6. Facts!FlattenSeq(entries) \in Seq(PageAddrs)
  BY <1>3, Facts!FlattenIn
<1>. QED
  BY <1>4, <1>5, <1>6

LEMMA LutStep ==
    ASSUME DeviceMemory, IInv, HoldInv, LutInv, [Next]_vars
    PROVE  LutInv'
<1>1. ASSUME UNCHANGED <<up, size>>, pc' # "init" PROVE LutInv'
  BY <1>1 DEF LutInv, PhysLut
<1>2. CASE AllocAligned \/ AllocArray
  BY <1>1, <1>2 DEF AllocAligned, AllocArray, StartScan
<1>3. CASE \E a \in live : BlockFree(a)
  BY <1>1, <1>3 DEF BlockFree
<1>4. CASE Scan
  BY <1>1, <1>4 DEF Scan, ScanSkip, ScanGap, ScanTake, ScanFail
<1>5. CASE Sweep
  BY <1>1, <1>5 DEF Sweep, SweepMerge, SweepStep, SweepLast
<1>6. ASSUME NEW asked \in InitSizes, InitStart(asked) PROVE LutInv'
  <2>1. PICK n : n = RoundUp(asked, RoundTo)
    OBVIOUS
  <2>2. PICK r : r = [total |-> n, elem |-> 1, count |-> 0]
    OBVIOUS
  <2>3. ~up /\ up' = up /\ req' = r
    BY <1>6, <2>1, <2>2 DEF InitStart, NoReq
  <2>4. r.total % DevicePage = 0
    BY <2>1, <2>2 DEF DeviceMemory
  <2>. QED
    BY <2>3, <2>4 DEF LutInv
<1>7. CASE InitTake
  BY <1>7 DEF InitTake, LutInv, PhysLut, callVars
<1>8. CASE InitFail
  <2>1. pc' # "init" /\ UNCHANGED <<up, size>>
    <3>1. step \in 1 .. Filled /\ pc' = OnFailure[step] /\ UNCHANGED <<up, size>>
      BY <1>8 DEF InitFail, HoldInv
    <3>. QED
      BY <3>1, InitTable DEF Labels
  <2>. QED
    BY <1>1, <2>1
<1>9. CASE InitDone
  <2>1. /\ size' = req.total /\ pc' = "idle" /\ Len(PhysLut) = req.total \div DevicePage
    BY <1>9 DEF InitDone, TableFits, LutFits, PhysLut
  <2>2. req.total % DevicePage = 0
    BY <1>9 DEF InitDone, LutInv
  <2>. QED
    BY <2>1, <2>2 DEF LutInv, PhysLut
<1>10. CASE AttachUndo \/ AttachExit \/ InitError \/ DmabufDetach \/ HeapRest
  BY <1>1, <1>10 DEF AttachUndo, AttachExit, InitError, DmabufDetach, HeapRest, GiveBack
<1>11. CASE TermStart
  BY <1>11 DEF TermStart, LutInv
<1>12. CASE UNCHANGED vars
  BY <1>12 DEF vars, callVars, LutInv, PhysLut
<1>. QED
  BY <1>2, <1>3, <1>4, <1>5, <1>6, <1>7, <1>8, <1>9, <1>10, <1>11, <1>12
     DEF Next, HeapInit, HeapTerm

\* The bytes of an allocation are in the heap.
LEMMA AllocationInside ==
    ASSUME IInv, NEW a \in live
    PROVE  /\ up /\ a.ptr \in Nat /\ a.count * a.elem \in Nat /\ size \in Nat
           /\ a.ptr + a.count * a.elem <= size
<1>1. up /\ Tiles(blocks, size) /\ size \in Nat
  BY DEF IInv, ListInv
<1>2. PICK i \in 1 .. Len(blocks) : Serves(blocks[i], a)
  BY DEF IInv, LiveInv
<1>3. a.ptr \in Nat /\ a.elem \in Nat /\ a.count \in Nat
  BY DEF IInv, LiveInv
<1>4. PICK n \in Nat : n = a.count * a.elem
  BY <1>3
<1>5. PICK N \in Nat \ {0} : N = Len(blocks) /\ i \in 1 .. N
  BY <1>1 DEF Tiles
<1>6. /\ blocks[i].vaddr \in Nat /\ blocks[i].size \in Nat
      /\ End(blocks[i]) = blocks[i].vaddr + blocks[i].size
  BY <1>1, BlockFacts
<1>7. End(blocks[i]) <= size
  <2>1. CASE i = N
    BY <1>1, <1>5, <1>6, <2>1 DEF Tiles
  <2>2. CASE i < N
    <3>1. N \in 1 .. Len(blocks)
      BY <1>5
    <3>2. End(blocks[i]) <= blocks[N].vaddr
      BY <1>1, <1>5, <2>2, <3>1 DEF Tiles
    <3>3. /\ blocks[N].vaddr \in Nat /\ blocks[N].size \in Nat
          /\ End(blocks[N]) = blocks[N].vaddr + blocks[N].size
      BY <1>1, <3>1, BlockFacts
    <3>4. End(blocks[N]) = size
      BY <1>1, <1>5 DEF Tiles
    <3>. QED
      BY <1>1, <1>6, <3>2, <3>3, <3>4
  <2>. QED
    BY <1>5, <2>1, <2>2
<1>8. a.ptr = blocks[i].vaddr /\ n <= blocks[i].size
  BY <1>2, <1>3, <1>4, <1>6 DEF Serves
<1>9. a.ptr + n <= size
  BY <1>1, <1>3, <1>6, <1>7, <1>8
<1>. QED
  BY <1>1, <1>3, <1>4, <1>9

\* Inside the heap the checked translation is the table's.
LEMMA Translated ==
    ASSUME DeviceMemory, LutInv, up, size \in Nat, NEW x \in Nat, x < size
    PROVE  /\ VirtToPhys[x] = Vtp[x]
           /\ PhysLut[(x \div DevicePage) + 1] \in PageAddrs
           /\ Vtp[x] = PhysLut[(x \div DevicePage) + 1] + (x % DevicePage)
<1>1. PICK h \in Nat \ {0} : h = DevicePage
  BY DevicePages
<1>2. PICK s \in Nat : s = size \div h /\ size = h * s
  <2>1. size % h = 0
    BY <1>1 DEF LutInv
  <2>2. size \div h \in Nat /\ size = h * (size \div h)
    BY <1>1, <2>1, SMTT(30)
  <2>. QED
    BY <2>2
<1>3. PICK q \in Nat : q = x \div h /\ h * q <= x
  <2>1. x \div h \in Nat /\ h * (x \div h) <= x
    OBVIOUS
  <2>. QED
    BY <2>1
<1>4. q < s
  <2>1. ASSUME s <= q PROVE FALSE
    <3>1. h * s \in Int /\ h * q \in Int /\ h * s <= h * q
      BY <2>1, MulSteps
    <3>. QED
      BY <1>2, <1>3, <3>1
  <2>. QED
    BY <2>1
<1>5. Len(PhysLut) = s
  BY <1>1, <1>2 DEF LutInv
<1>6. x \in Addresses
  <2>1. s * h = size
    BY <1>2
  <2>2. Len(PhysLut) * DevicePage = size
    BY <1>1, <1>5, <2>1
  <2>. QED
    BY <2>2 DEF Addresses
<1>7. Vtp[x] = PhysLut[(x \div DevicePage) + 1] + (x % DevicePage)
  BY <1>6 DEF Vtp
<1>8. PhysLut[(x \div DevicePage) + 1] \in PageAddrs
  <2>1. q + 1 \in 1 .. Len(PhysLut)
    BY <1>4, <1>5
  <2>2. PhysLut \in Seq(PageAddrs)
    BY LutPages
  <2>3. PhysLut[q + 1] \in PageAddrs
    BY <2>1, <2>2
  <2>. QED
    BY <1>1, <1>3, <2>3
<1>9. VirtToPhys[x] = Vtp[x]
  <2>1. HeapContains(x)
    BY DEF HeapContains
  <2>2. x \div DevicePage < size \div DevicePage
    BY <1>1, <1>2, <1>3, <1>4
  <2>. QED
    BY <1>6, <2>1, <2>2 DEF VirtToPhys
<1>. QED
  BY <1>7, <1>8, <1>9

LEMMA DevicePrps ==
    ASSUME DeviceMemory, IInv, LutInv, NEW a \in live,
           NEW first \in 0 .. a.count * a.elem - 1, NEW n \in 1 .. a.count * a.elem - first,
           Prps!NPages(a.ptr + first, n) <= 1 + PrpListLen
    PROVE  Prps!DescribesBuffer(VirtToPhys, Prps!PrepContig(Vtp, DevicePage, a.ptr + first, n),
                                a.ptr + first, n)
<1>1. /\ up /\ a.ptr \in Nat /\ a.count * a.elem \in Nat /\ size \in Nat
      /\ a.ptr + a.count * a.elem <= size
  BY AllocationInside
<1>2. PICK len \in Nat : len = a.count * a.elem
  BY <1>1
<1>3. first \in 0 .. len - 1 /\ n \in 1 .. len - first /\ a.ptr + len <= size
  BY <1>1, <1>2
<1>4. PICK d \in Nat : d = a.ptr + first
  BY <1>1, <1>3
<1>5. n \in Nat \ {0} /\ d + n <= size
  BY <1>1, <1>2, <1>3, <1>4
<1>6. PICK hi \in Int : hi = d + n - 1 /\ hi < size
  BY <1>1, <1>5
<1>7. ASSUME NEW x \in d .. hi
      PROVE  /\ VirtToPhys[x] = Vtp[x]
             /\ PhysLut[(x \div DevicePage) + 1] \in Nat
             /\ PhysLut[(x \div DevicePage) + 1] % PageSize = 0
             /\ Vtp[x] = PhysLut[(x \div DevicePage) + 1] + (x % DevicePage)
  <2>1. x \in Nat /\ x < size
    BY <1>1, <1>6
  <2>2. /\ VirtToPhys[x] = Vtp[x]
        /\ PhysLut[(x \div DevicePage) + 1] \in PageAddrs
        /\ Vtp[x] = PhysLut[(x \div DevicePage) + 1] + (x % DevicePage)
    BY <1>1, <2>1, Translated
  <2>. QED
    BY <2>2 DEF PageAddrs
<1>8. Facts!Linear(Vtp, DevicePage, d, hi)
  <2>1. Facts!Layout(DevicePage)
    BY DevicePages
  <2>2. \A x \in d .. hi :
            /\ PhysLut[(x \div DevicePage) + 1] \in Nat
            /\ PhysLut[(x \div DevicePage) + 1] % PageSize = 0
            /\ Vtp[x] = PhysLut[(x \div DevicePage) + 1] + (x % DevicePage)
    BY <1>7
  <2>. QED
    BY <2>1, <2>2, Facts!LutLinear
<1>9. Facts!DescribesBuffer(Vtp, Facts!PrepContig(Vtp, DevicePage, d, n), d, n)
  <2>1. Facts!NPages(d, n) <= 1 + PrpListLen
    BY <1>4, SameContig
  <2>2. /\ PrpListLen \in Nat \ {0} /\ Facts!Layout(DevicePage)
        /\ n \in Nat \ {0} /\ Facts!Linear(Vtp, DevicePage, d, d + n - 1)
    BY <1>5, <1>6, <1>8, DevicePages
  <2>. QED
    BY <2>1, <2>2, Facts!ContigDescribes
<1>10. PICK dp : dp = Prps!PrepContig(Vtp, DevicePage, d, n)
  OBVIOUS
<1>11. Prps!DescribesBuffer(Vtp, dp, d, n)
  BY <1>9, <1>10, SameContig
<1>12. Prps!DescribesBuffer(VirtToPhys, dp, d, n)
  <2>1. ASSUME NEW k \in 0 .. n - 1 PROVE VirtToPhys[d + k] = Vtp[d + k]
    <3>1. d + k \in d .. hi
      BY <1>5, <1>6
    <3>. QED
      BY <1>7, <3>1
  <2>. QED
    BY <1>11, <2>1 DEF Prps!DescribesBuffer
<1>. QED
  BY <1>4, <1>10, <1>12

\* Whatever part of an allocation in GPU memory a command is prepared for,
\* the controller follows the entries to exactly the bytes that the checked
\* translation gives, in any arrangement of the runs of the dma-buf.
THEOREM DevHeapPrpsDescribeBuffers ==
    ASSUME DeviceMemory
    PROVE  Spec => []PrpsDescribeBuffers
<1>1. Init => LutInv
  BY DEF Init, LutInv
<1>2. IInv /\ HoldInv /\ LutInv /\ [Next]_vars => LutInv'
  BY LutStep
<1>3. IInv /\ LutInv /\ (\A a \in live : InsideDpages(a)) => PrpsDescribeBuffers
  BY DevicePrps DEF PrpsDescribeBuffers
<1>. QED
  BY <1>1, <1>2, <1>3, DevHeapInv, DevHeapInsideDpages, PTL DEF Spec
=============================================================================
