------------------------- MODULE HostmemHeapProofs -------------------------
(***************************************************************************)
(* Theorems about the block allocator on a hugepage heap, for every page   *)
(* and hugepage size, number of hugepages, header and set of requests.     *)
(*                                                                         *)
(* A block ends where the next one begins, and the list visits all of them *)
(* in the order of their addresses: Cut and Merged keep that, whatever the *)
(* two meanings of a block's size.  A live allocation lies behind the      *)
(* header of a block that is not free, and within that block.              *)
(***************************************************************************)
EXTENDS HostmemPrps, FiniteSetTheorems, TLAPS

\* How the heap may be used: with the alignment that free presumes, not for
\* nothing, and for no size that size_t cannot hold with its header.
HeapUse ==
    /\ Alignments \subseteq {PageSize}
    /\ \A n \in Sizes : n # 0 /\ n + 2 * PageSize <= WordSize
    /\ \A a \in Arrays : Total(a) + PageSize < WordSize

Sane(r) ==
    /\ r.align = PageSize /\ r.count \in Nat /\ r.elem \in Nat /\ Total(r) \in Nat
    /\ 0 < r.elem /\ r.elem <= Total(r) /\ Total(r) + PageSize < WordSize
    /\ r.size \in Nat /\ r.size <= Total(r)

\* Where a block ends.
End(b) == IF heap[b].next = Nil THEN HeapSize ELSE heap[b].next

\* The list visits the blocks in the order of their addresses, and all of them.
ListInv ==
    /\ heap \in [Blocks -> [size : 0 .. HeapSize, free : BOOLEAN, next : Addresses \cup {Nil}]]
    /\ Blocks \subseteq Addresses
    /\ BlocksTile
    /\ \A b, c \in Blocks : b < c => heap[b].next # Nil /\ heap[b].next <= c

\* The header that free looks for.
HeaderOf(a) == a.ptr - PageSize

LiveInv ==
    /\ \A a \in live : /\ Sane(a.req) /\ a.ptr \in Nat
                       /\ HeaderOf(a) \in Blocks /\ ~heap[HeaderOf(a)].free
                       /\ a.ptr + Total(a.req) <= End(HeaderOf(a))
    /\ \A a, c \in live : a.ptr = c.ptr => a = c
    /\ \A b \in Blocks : ~heap[b].free => \E a \in live : HeaderOf(a) = b

\* What the scan has passed could not be taken, what the sweep has passed is
\* merged.
Passed(b) == cur = Nil \/ b < cur

LoopInv ==
    /\ pc \in {"idle", "scan", "coalesce"} /\ last \in {"none", "ok", "enomem", "freed"}
    /\ pc = "idle" => cur = Nil
    /\ pc = "scan" =>
          /\ Sane(req) /\ cur \in Blocks \cup {Nil}
          /\ \A b \in Blocks : Passed(b) /\ Fits(b) => NeedsGap(b)
    /\ pc = "coalesce" => cur \in Blocks /\ \A b \in Blocks : b < cur => ~Mergeable(b)
    /\ pc = "idle" /\ last = "freed" => \A b \in Blocks : ~Mergeable(b)

IInv == ListInv /\ LiveInv /\ LoopInv

-----------------------------------------------------------------------------
(***************************************************************************)
(* Sizes and requests.                                                     *)
(***************************************************************************)
LEMMA Sizings ==
    /\ HeaderSize \in Nat /\ HeaderSize >= 1
    /\ PageSize \in Nat /\ PageSize >= 2 /\ HeaderSize < PageSize
    /\ HugePage \in Nat /\ HugePage >= PageSize
    /\ HeapSize \in Nat /\ HeapSize >= HugePage
    /\ WordSize \in Nat /\ WordSize > 2 * HeapSize
    /\ Addresses = 0 .. HeapSize - 1 /\ 0 \in Addresses /\ Nil = -1 /\ Nil \notin Addresses
<1>1. /\ HeaderSize \in Nat \ {0} /\ PageSize \in Nat /\ HeaderSize < PageSize
      /\ HugePage \in Nat \ {0} /\ HugePage % PageSize = 0 /\ NHuge \in Nat \ {0}
      /\ WordSize \in Nat
  BY HeapAssumption
<1>2. HugePage >= PageSize
  <2>1. HugePage < PageSize => HugePage % PageSize = HugePage
    BY <1>1
  <2>. QED
    BY <1>1, <2>1
<1>3. HeapSize \in Nat /\ HeapSize >= HugePage
  BY <1>1 DEF HeapSize
<1>4. WordSize > 2 * HeapSize
  <2>1. WordSize > 2 * NHuge * HugePage
    BY HeapAssumption
  <2>2. 2 * NHuge * HugePage = 2 * (NHuge * HugePage)
    BY <1>1
  <2>. QED
    BY <2>1, <2>2 DEF HeapSize
<1>. QED
  BY <1>1, <1>2, <1>3, <1>4 DEF Addresses, Nil

\* Rounding up to whole pages gives at least the size and less than a page more.
LEMMA RoundedSize ==
    ASSUME NEW n \in Nat, n # 0, n + 2 * PageSize <= WordSize
    PROVE  /\ RoundToPages(n) \in Nat
           /\ RoundToPages(n) * PageSize \in Nat
           /\ n <= RoundToPages(n) * PageSize /\ RoundToPages(n) * PageSize < n + PageSize
           /\ PageSize <= RoundToPages(n) * PageSize
<1>. DEFINE p == PageSize
            s == n + p - 1
            q == s \div p
            m == s % p
<1>1. p \in Nat /\ p >= 2
  BY Sizings
<1>2. s \in Nat /\ s >= p
  BY <1>1
<1>3. RoundToPages(n) = q
  <2>1. s < WordSize
    BY <1>1, Sizings
  <2>2. s % WordSize = s
    BY <1>2, <2>1, Sizings
  <2>. QED
    BY <2>2 DEF RoundToPages
<1>. HIDE DEF p, s
<1>4. q \in Nat /\ m \in 0 .. p - 1 /\ s = (p * q) + m
  BY <1>1, <1>2
<1>. HIDE DEF q, m
<1>5. q >= 1
  <2>1. q = 0 => p * q = 0
    BY <1>1
  <2>. QED
    BY <1>1, <1>2, <1>4, <2>1
<1>6. q * p = p * q /\ q * p \in Nat /\ p <= q * p
  BY <1>1, <1>4, <1>5
<1>7. s = n + p - 1
  BY DEF s
<1>8. n <= q * p /\ q * p < n + p
  BY <1>1, <1>4, <1>6, <1>7
<1>. QED
  BY <1>3, <1>4, <1>6, <1>8 DEF p

LEMMA AlignedSane ==
    ASSUME HeapUse, NEW n \in Sizes, NEW align \in Alignments
    PROVE  Sane([size |-> n, count |-> RoundToPages(n), elem |-> PageSize, align |-> align])
<1>. DEFINE r == [size |-> n, count |-> RoundToPages(n), elem |-> PageSize, align |-> align]
<1>1. n \in Nat /\ n # 0 /\ n + 2 * PageSize <= WordSize /\ align = PageSize
  BY HeapAssumption DEF HeapUse
<1>2. Total(r) = RoundToPages(n) * PageSize
  BY DEF Total
<1>3. /\ r.align = PageSize /\ r.count = RoundToPages(n) /\ r.elem = PageSize /\ r.size = n
  BY <1>1
<1>4. /\ RoundToPages(n) \in Nat /\ Total(r) \in Nat /\ n <= Total(r)
      /\ Total(r) < n + PageSize /\ PageSize <= Total(r)
  BY <1>1, <1>2, RoundedSize
<1>5. Total(r) + PageSize < WordSize
  BY <1>1, <1>4, Sizings
<1>. HIDE DEF r
<1>. QED
  BY <1>1, <1>3, <1>4, <1>5, Sizings DEF Sane, r

LEMMA ArraySane ==
    ASSUME HeapUse, NEW a \in Arrays
    PROVE  Sane([size |-> Total(a), count |-> a.count, elem |-> a.elem, align |-> PageSize])
<1>. DEFINE r == [size |-> Total(a), count |-> a.count, elem |-> a.elem, align |-> PageSize]
            c == a.count
            e == a.elem
<1>1. c \in Nat /\ c >= 1 /\ e \in Nat /\ e >= 1
  BY HeapAssumption, Sizings
<1>2. c * e \in Nat /\ e <= c * e
  <2>. HIDE DEF c, e
  <2>. QED
    BY <1>1
<1>3. Total(r) = c * e /\ Total(a) = c * e /\ Total(a) + PageSize < WordSize
  BY DEF Total, HeapUse
<1>. QED
  BY <1>1, <1>2, <1>3 DEF Sane

LEMMA NeededFacts ==
    ASSUME Sane(req)
    PROVE  Needed = Total(req) + PageSize
<1>1. /\ Total(req) + req.align \in Nat /\ Total(req) + req.align < WordSize
      /\ req.align = PageSize
  BY Sizings DEF Sane
<1>2. (Total(req) + req.align) % WordSize = Total(req) + req.align
  BY <1>1, Sizings
<1>. QED
  BY <1>1, <1>2 DEF Needed

LEMMA GapFacts ==
    ASSUME Sane(req), NEW b \in Nat
    PROVE  Disalignment(b) \in Nat /\ Disalignment(b) < req.elem
<1>. DEFINE h == (HpageRemaining(b) - req.align) % WordSize
<1>1. HpageRemaining(b) \in Int
  BY Sizings DEF HpageRemaining
<1>2. HpageRemaining(b) - req.align \in Int
  BY <1>1, Sizings DEF Sane
<1>3. h \in Nat
  BY <1>2, Sizings
<1>4. req.elem \in Nat /\ req.elem > 0 /\ Disalignment(b) = h % req.elem
  BY DEF Sane, Disalignment
<1>. HIDE DEF h
<1>. QED
  BY <1>3, <1>4

-----------------------------------------------------------------------------
(***************************************************************************)
(* The list: cutting a block in two, merging two.                          *)
(***************************************************************************)
LEMMA BlockFacts ==
    ASSUME ListInv, NEW b \in Blocks
    PROVE  /\ b \in Nat /\ b < HeapSize
           /\ heap[b] = [size |-> heap[b].size, free |-> heap[b].free, next |-> heap[b].next]
           /\ heap[b].size \in Nat /\ heap[b].size <= HeapSize /\ heap[b].free \in BOOLEAN
           /\ heap[b].next = Nil => b + heap[b].size = HeapSize
           /\ heap[b].next # Nil => /\ heap[b].next \in Blocks /\ heap[b].next \in Nat
                                    /\ heap[b].next < HeapSize
                                    /\ heap[b].next = b + PageSize + heap[b].size
           /\ End(b) \in Nat /\ End(b) <= HeapSize
<1>1. /\ b \in Addresses
      /\ heap[b] \in [size : 0 .. HeapSize, free : BOOLEAN, next : Addresses \cup {Nil}]
  BY DEF ListInv
<1>2. b \in Nat /\ b < HeapSize
  BY <1>1, Sizings
<1>3. /\ heap[b] = [size |-> heap[b].size, free |-> heap[b].free, next |-> heap[b].next]
      /\ heap[b].size \in Nat /\ heap[b].size <= HeapSize /\ heap[b].free \in BOOLEAN
  BY <1>1, Sizings
<1>4. /\ heap[b].next = Nil => b + heap[b].size = HeapSize
      /\ heap[b].next # Nil => /\ heap[b].next \in Blocks /\ heap[b].next \in Addresses
                               /\ heap[b].next = b + PageSize + heap[b].size
  BY DEF ListInv, BlocksTile
<1>5. heap[b].next # Nil => heap[b].next \in Nat /\ heap[b].next < HeapSize
  BY <1>4, Sizings
<1>6. End(b) \in Nat /\ End(b) <= HeapSize
  BY <1>5, Sizings DEF End
<1>. QED
  BY <1>2, <1>3, <1>4, <1>5, <1>6

LEMMA BlockAddresses ==
    ASSUME ListInv
    PROVE  \A b \in Blocks : b \in Nat /\ b # Nil
<1>1. \A b \in Blocks : b \in 0 .. HeapSize - 1
  BY Sizings DEF ListInv
<1>. QED
  BY <1>1, Sizings

\* No block starts inside another one.
LEMMA BlocksOrdered ==
    ASSUME ListInv, NEW b \in Blocks, NEW c \in Blocks, b < c
    PROVE  heap[b].next # Nil /\ heap[b].next <= c /\ b + PageSize <= c /\ End(b) <= c
<1>1. heap[b].next # Nil /\ heap[b].next <= c
  BY DEF ListInv
<1>2. /\ b \in Nat /\ heap[b].size \in Nat /\ c \in Nat
      /\ heap[b].next \in Nat /\ heap[b].next = b + PageSize + heap[b].size
  BY <1>1, BlockFacts
<1>3. b + PageSize <= c
  BY <1>1, <1>2, Sizings
<1>. QED
  BY <1>1, <1>3 DEF End

LEMMA CutFacts ==
    ASSUME ListInv, NEW b \in Blocks, NEW len \in Nat, NEW size \in Nat, NEW rest \in Nat,
           NEW free \in BOOLEAN,
           len = PageSize + size, heap[b].size = len + rest, rest > 0,
           heap' = Cut(b, len, size, rest, free)
    PROVE  /\ ListInv'
           /\ Blocks' = Blocks \cup {b + len} /\ b + len \notin Blocks
           /\ heap'[b].size = size /\ heap'[b].free = free /\ heap'[b].next = b + len
           /\ heap'[b + len].size = rest /\ heap'[b + len].free
           /\ heap'[b + len].next = heap[b].next
           /\ \A c \in Blocks \ {b} : heap'[c] = heap[c]
           /\ \A c \in Blocks : c <= b \/ b + len < c
<1>. DEFINE n == b + len
<1>1. /\ b \in Nat /\ b < HeapSize /\ n \in Nat /\ n < HeapSize /\ b < n /\ n # Nil
      /\ heap[b].next = Nil => n + rest = HeapSize
      /\ heap[b].next # Nil => heap[b].next = n + PageSize + rest /\ n < heap[b].next
      /\ rest <= HeapSize /\ size <= HeapSize
  <2>1. /\ b \in Nat /\ b < HeapSize /\ heap[b].size <= HeapSize
        /\ heap[b].next = Nil => b + heap[b].size = HeapSize
        /\ heap[b].next # Nil => /\ heap[b].next \in Nat /\ heap[b].next < HeapSize
                                 /\ heap[b].next = b + PageSize + heap[b].size
    BY BlockFacts
  <2>2. n \in Nat /\ b < n /\ n # Nil
    BY <2>1, Sizings
  <2>3. CASE heap[b].next = Nil
    BY <2>1, <2>2, <2>3, Sizings
  <2>4. CASE heap[b].next # Nil
    BY <2>1, <2>2, <2>4, Sizings
  <2>. QED
    BY <2>1, <2>2, <2>3, <2>4
<1>2. \A c \in Blocks : c <= b \/ n < c
  <2>1. ASSUME NEW c \in Blocks, b < c
        PROVE  n < c
    <3>1. heap[b].next # Nil /\ heap[b].next <= c /\ c \in Nat /\ heap[b].next \in Nat
      BY <2>1, BlocksOrdered, BlockFacts
    <3>. QED
      BY <1>1, <3>1
  <2>2. \A c \in Blocks : c \in Nat
    BY BlockFacts
  <2>. QED
    BY <1>1, <2>1, <2>2
<1>3. n \notin Blocks
  BY <1>1, <1>2
<1>. HIDE DEF n
<1>4. heap' = [a \in Blocks \cup {n} |->
                 CASE a = b -> [size |-> size, free |-> free, next |-> n]
                   [] a = n -> [size |-> rest, free |-> TRUE, next |-> heap[b].next]
                   [] OTHER -> heap[a]]
  BY DEF Cut, n
<1>5. /\ Blocks' = Blocks \cup {n}
      /\ heap'[b] = [size |-> size, free |-> free, next |-> n]
      /\ heap'[n] = [size |-> rest, free |-> TRUE, next |-> heap[b].next]
      /\ \A c \in Blocks \ {b} : heap'[c] = heap[c]
  BY <1>1, <1>3, <1>4 DEF Blocks
<1>6. heap' \in [Blocks' -> [size : 0 .. HeapSize, free : BOOLEAN, next : Addresses \cup {Nil}]]
  <2>1. /\ heap[b].next \in Addresses \cup {Nil} /\ n \in Addresses
        /\ \A c \in Blocks :
              heap[c] \in [size : 0 .. HeapSize, free : BOOLEAN, next : Addresses \cup {Nil}]
    BY <1>1, Sizings DEF ListInv
  <2>2. size \in 0 .. HeapSize /\ rest \in 0 .. HeapSize
    BY <1>1, Sizings
  <2>3. \A c \in Blocks' :
            heap'[c] \in [size : 0 .. HeapSize, free : BOOLEAN, next : Addresses \cup {Nil}]
    <3>. DEFINE T == [size : 0 .. HeapSize, free : BOOLEAN, next : Addresses \cup {Nil}]
    <3>1. heap'[b] \in T /\ heap'[n] \in T
      <4>1. [size |-> size, free |-> free, next |-> n] \in T
        BY <2>1, <2>2
      <4>2. [size |-> rest, free |-> TRUE, next |-> heap[b].next] \in T
        BY <2>1, <2>2
      <4>. HIDE DEF T
      <4>. QED
        BY <1>5, <4>1, <4>2
    <3>2. \A c \in Blocks : heap[c] \in T
      BY <2>1
    <3>. HIDE DEF T
    <3>3. \A c \in Blocks' : heap'[c] \in T
      BY <1>5, <3>1, <3>2
    <3>. QED
      BY <3>3 DEF T
  <2>4. heap' = [c \in Blocks' |-> heap'[c]]
    BY <1>4, <1>5
  <2>. QED
    BY <2>3, <2>4
<1>7. Blocks' \subseteq Addresses
  BY <1>1, <1>5, Sizings DEF ListInv
<1>8. BlocksTile'
  <2>1. 0 \in Blocks'
    BY <1>5 DEF ListInv, BlocksTile
  <2>2. ASSUME NEW c \in Blocks'
        PROVE  IF heap'[c].next = Nil
               THEN c + heap'[c].size = HeapSize
               ELSE heap'[c].next \in Blocks' /\ heap'[c].next = c + PageSize + heap'[c].size
    <3>1. CASE c = b
      <4>1. heap'[c].next = n /\ heap'[c].size = size
        BY <1>5, <3>1
      <4>2. n = b + PageSize + size
        BY <1>1, Sizings DEF n
      <4>. QED
        BY <1>1, <1>5, <3>1, <4>1, <4>2
    <3>2. CASE c = n
      <4>1. heap'[c].next = heap[b].next /\ heap'[c].size = rest
        BY <1>5, <3>2
      <4>2. heap[b].next # Nil => heap[b].next \in Blocks
        BY BlockFacts
      <4>. QED
        BY <1>1, <1>5, <3>2, <4>1, <4>2
    <3>3. CASE c # b /\ c # n
      <4>1. c \in Blocks /\ heap'[c] = heap[c]
        BY <1>5, <3>3
      <4>2. /\ heap[c].next = Nil => c + heap[c].size = HeapSize
            /\ heap[c].next # Nil => /\ heap[c].next \in Blocks
                                     /\ heap[c].next = c + PageSize + heap[c].size
        BY <4>1, BlockFacts
      <4>. QED
        BY <1>5, <4>1, <4>2
    <3>. QED
      BY <3>1, <3>2, <3>3
  <2>. QED
    BY <2>1, <2>2 DEF BlocksTile, HeapSize, Nil
<1>9. \A c, d \in Blocks' : c < d => heap'[c].next # Nil /\ heap'[c].next <= d
  <2>. SUFFICES ASSUME NEW c \in Blocks', NEW d \in Blocks', c < d
                PROVE  heap'[c].next # Nil /\ heap'[c].next <= d
    OBVIOUS
  <2>0. \A x \in Blocks : x \in Nat
    BY BlockFacts
  <2>1. CASE c = b
    <3>1. n <= d
      BY <1>1, <1>2, <1>5, <2>0, <2>1
    <3>. QED
      BY <1>1, <1>5, <2>1, <3>1
  <2>2. CASE c = n
    <3>1. d \in Blocks /\ b < d
      BY <1>1, <1>2, <1>5, <2>0, <2>2
    <3>. QED
      BY <1>5, <2>2, <3>1, BlocksOrdered
  <2>3. CASE c # b /\ c # n
    <3>1. c \in Blocks /\ heap'[c] = heap[c]
      BY <1>5, <2>3
    <3>2. CASE d \in Blocks
      BY <3>1, <3>2, BlocksOrdered
    <3>3. CASE d = n
      <4>1. c < b
        BY <1>1, <1>2, <2>0, <2>3, <3>1, <3>3
      <4>2. heap[c].next # Nil /\ heap[c].next <= b /\ heap[c].next \in Nat
        BY <3>1, <4>1, BlocksOrdered, BlockFacts
      <4>. QED
        BY <1>1, <3>1, <3>3, <4>2
    <3>. QED
      BY <1>5, <3>2, <3>3
  <2>. QED
    BY <2>1, <2>2, <2>3
<1>10. ListInv'
  BY <1>6, <1>7, <1>8, <1>9 DEF ListInv, HeapSize, Addresses, Nil
<1>. QED
  BY <1>2, <1>3, <1>5, <1>10 DEF n

LEMMA MergeFacts ==
    ASSUME ListInv, NEW b \in Blocks, Mergeable(b), heap' = Merged(b)
    PROVE  LET n == heap[b].next
           IN  /\ ListInv'
               /\ n \in Blocks /\ b < n /\ Blocks' = Blocks \ {n}
               /\ heap'[b].free
               /\ \A c \in Blocks \ {b, n} : heap'[c] = heap[c] /\ heap[c].next # n
<1>. DEFINE n == heap[b].next
            sum == heap[n].size + PageSize + heap[b].size
<1>1. n # Nil /\ heap[b].free /\ heap[n].free
  BY DEF Mergeable
<1>2. /\ n \in Blocks /\ n \in Nat /\ b \in Nat /\ n = b + PageSize + heap[b].size
      /\ heap[b].size \in Nat
  BY <1>1, BlockFacts
<1>3. b < n
  BY <1>2, Sizings
<1>4. /\ heap[n].size \in Nat /\ heap[n].next \in Addresses \cup {Nil}
      /\ heap[n] = [size |-> heap[n].size, free |-> heap[n].free, next |-> heap[n].next]
      /\ heap[n].next = Nil => n + heap[n].size = HeapSize
      /\ heap[n].next # Nil => /\ heap[n].next \in Blocks /\ heap[n].next < HeapSize
                               /\ heap[n].next \in Nat
                               /\ heap[n].next = n + PageSize + heap[n].size
  BY <1>2, BlockFacts DEF ListInv
<1>5. /\ sum \in Nat /\ sum <= HeapSize
      /\ heap[n].next = Nil => b + sum = HeapSize
      /\ heap[n].next # Nil => heap[n].next = b + PageSize + sum
  <2>0. heap[n].size \in Nat /\ PageSize \in Nat /\ heap[b].size \in Nat
    BY <1>2, <1>4, Sizings
  <2>1. sum \in Nat /\ sum = heap[n].size + PageSize + heap[b].size
    BY <2>0
  <2>. HIDE DEF sum
  <2>2. CASE heap[n].next = Nil
    <3>1. n + heap[n].size = HeapSize
      BY <1>4, <2>2
    <3>2. n = b + PageSize + heap[b].size /\ b \in Nat
      BY <1>2
    <3>3. b + sum = HeapSize
      BY <2>0, <2>1, <3>1, <3>2
    <3>4. sum <= HeapSize
      BY <2>1, <3>2, <3>3, Sizings
    <3>. QED
      BY <2>1, <2>2, <3>3, <3>4
  <2>3. CASE heap[n].next # Nil
    <3>1. heap[n].next = n + PageSize + heap[n].size /\ heap[n].next < HeapSize
      BY <1>4, <2>3
    <3>2. n = b + PageSize + heap[b].size /\ b \in Nat
      BY <1>2
    <3>3. heap[n].next = b + PageSize + sum
      BY <2>0, <2>1, <3>1, <3>2
    <3>4. sum <= HeapSize
      BY <2>0, <2>1, <3>1, <3>2, <3>3, Sizings
    <3>. QED
      BY <2>1, <2>3, <3>3, <3>4
  <2>. QED
    BY <2>1, <2>2, <2>3
<1>. HIDE DEF sum
<1>6. /\ Blocks' = Blocks \ {n}
      /\ heap'[b] = [size |-> sum, free |-> TRUE, next |-> heap[n].next]
      /\ \A c \in Blocks \ {b, n} : heap'[c] = heap[c]
      /\ heap' = [c \in Blocks' |-> heap'[c]]
  <2>1. heap' = [a \in Blocks \ {n} |->
                    IF a = b THEN [heap[n] EXCEPT !.size = sum] ELSE heap[a]]
    BY DEF Merged, sum
  <2>2. [heap[n] EXCEPT !.size = sum] = [size |-> sum, free |-> TRUE, next |-> heap[n].next]
    <3>1. heap[n] \in [size : 0 .. HeapSize, free : BOOLEAN, next : Addresses \cup {Nil}]
      BY <1>2 DEF ListInv
    <3>2. [heap[n] EXCEPT !.size = sum]
            = [size |-> sum, free |-> heap[n].free, next |-> heap[n].next]
      BY <3>1
    <3>3. heap[n].free = TRUE
      BY <1>1, <3>1
    <3>. QED
      BY <3>2, <3>3
  <2>3. Blocks' = Blocks \ {n}
    BY <2>1 DEF Blocks
  <2>. QED
    BY <1>2, <1>3, <2>1, <2>2, <2>3
<1>7. \A c \in Blocks \ {b, n} : heap[c].next # n
  <2>. SUFFICES ASSUME NEW c \in Blocks \ {b, n}, heap[c].next = n
                PROVE  FALSE
    OBVIOUS
  <2>1. c \in Nat /\ c < n
    <3>1. /\ c \in Nat /\ heap[c].size \in Nat
          /\ heap[c].next = c + PageSize + heap[c].size
      BY <1>1, BlockFacts
    <3>. QED
      BY <3>1, Sizings
  <2>2. CASE c < b
    BY <1>2, <1>3, <2>2, BlocksOrdered
  <2>3. CASE b < c
    BY <1>2, <2>1, <2>3, BlocksOrdered
  <2>. QED
    BY <1>2, <2>1, <2>2, <2>3
<1>8. heap' \in [Blocks' -> [size : 0 .. HeapSize, free : BOOLEAN, next : Addresses \cup {Nil}]]
  <2>. DEFINE T == [size : 0 .. HeapSize, free : BOOLEAN, next : Addresses \cup {Nil}]
  <2>1. sum \in 0 .. HeapSize
    BY <1>5, Sizings
  <2>2. [size |-> sum, free |-> TRUE, next |-> heap[n].next] \in T
    BY <1>4, <2>1
  <2>3. \A c \in Blocks : heap[c] \in T
    BY DEF ListInv
  <2>. HIDE DEF T
  <2>4. \A c \in Blocks' : heap'[c] \in T
    BY <1>6, <2>2, <2>3
  <2>5. heap' \in [Blocks' -> T]
    BY <1>6, <2>4
  <2>. QED
    BY <2>5 DEF T
<1>9. Blocks' \subseteq Addresses
  BY <1>6 DEF ListInv
<1>10. BlocksTile'
  <2>1. 0 \in Blocks'
    <3>1. 0 \in Blocks /\ 0 # n
      BY <1>2, <1>3 DEF ListInv, BlocksTile
    <3>. QED
      BY <1>6, <3>1
  <2>2. ASSUME NEW c \in Blocks'
        PROVE  IF heap'[c].next = Nil
               THEN c + heap'[c].size = HeapSize
               ELSE heap'[c].next \in Blocks' /\ heap'[c].next = c + PageSize + heap'[c].size
    <3>1. CASE c = b
      <4>1. heap'[c].next = heap[n].next /\ heap'[c].size = sum
        BY <1>6, <3>1
      <4>2. heap[n].next # Nil => heap[n].next # n
        BY <1>2, <1>4, Sizings
      <4>. QED
        BY <1>4, <1>5, <1>6, <3>1, <4>1, <4>2
    <3>2. CASE c # b
      <4>1. c \in Blocks /\ heap'[c] = heap[c] /\ heap[c].next # n
        BY <1>6, <1>7, <3>2
      <4>2. /\ heap[c].next = Nil => c + heap[c].size = HeapSize
            /\ heap[c].next # Nil => /\ heap[c].next \in Blocks
                                     /\ heap[c].next = c + PageSize + heap[c].size
        BY <4>1, BlockFacts
      <4>. QED
        BY <1>6, <4>1, <4>2
    <3>. QED
      BY <3>1, <3>2
  <2>. QED
    BY <2>1, <2>2 DEF BlocksTile, HeapSize, Nil
<1>11. \A c, d \in Blocks' : c < d => heap'[c].next # Nil /\ heap'[c].next <= d
  <2>. SUFFICES ASSUME NEW c \in Blocks', NEW d \in Blocks', c < d
                PROVE  heap'[c].next # Nil /\ heap'[c].next <= d
    OBVIOUS
  <2>1. c \in Blocks /\ d \in Blocks /\ d # n /\ d \in Nat
    BY <1>6, BlockFacts
  <2>2. CASE c = b
    <3>1. n <= d
      BY <2>1, <2>2, BlocksOrdered
    <3>2. n < d
      BY <1>2, <2>1, <3>1
    <3>3. heap[n].next # Nil /\ heap[n].next <= d
      BY <1>2, <2>1, <3>2, BlocksOrdered
    <3>. QED
      BY <1>6, <2>2, <3>3
  <2>3. CASE c # b
    <3>1. heap'[c] = heap[c]
      BY <1>6, <2>3
    <3>. QED
      BY <2>1, <3>1, BlocksOrdered
  <2>. QED
    BY <2>2, <2>3
<1>12. ListInv'
  BY <1>8, <1>9, <1>10, <1>11 DEF ListInv, HeapSize, Addresses, Nil
<1>. QED
  BY <1>2, <1>3, <1>6, <1>7, <1>12 DEF sum

\* Marking blocks moves none.
LEMMA MarkFacts ==
    ASSUME ListInv, NEW b \in Blocks, NEW free \in BOOLEAN,
           heap' = [c \in Blocks |-> IF c = b THEN [heap[c] EXCEPT !.free = free] ELSE heap[c]]
    PROVE  /\ ListInv'
           /\ Blocks' = Blocks
           /\ heap'[b].free = free
           /\ \A c \in Blocks \ {b} : heap'[c] = heap[c]
           /\ \A c \in Blocks : End(c)' = End(c)
<1>. DEFINE T == [size : 0 .. HeapSize, free : BOOLEAN, next : Addresses \cup {Nil}]
            new == [size |-> heap[b].size, free |-> free, next |-> heap[b].next]
<1>1. heap[b] \in T /\ [heap[b] EXCEPT !.free = free] = new /\ new \in T
  BY DEF ListInv
<1>2. Blocks' = Blocks
  BY DEF Blocks
<1>3. heap' = [c \in Blocks |-> IF c = b THEN new ELSE heap[c]]
  BY <1>1
<1>4. new.size = heap[b].size /\ new.next = heap[b].next
  OBVIOUS
<1>. HIDE DEF new, T
<1>5. heap'[b] = new /\ \A c \in Blocks \ {b} : heap'[c] = heap[c]
  BY <1>3
<1>6. \A c \in Blocks : heap'[c].size = heap[c].size /\ heap'[c].next = heap[c].next
  BY <1>4, <1>5
<1>7. heap' \in [Blocks -> T]
  BY <1>1, <1>3 DEF ListInv, T
<1>8. BlocksTile'
  BY <1>2, <1>6 DEF ListInv, BlocksTile, HeapSize, Nil
<1>9. ListInv'
  BY <1>2, <1>6, <1>7, <1>8 DEF ListInv, HeapSize, Addresses, Nil, T
<1>10. \A c \in Blocks : End(c)' = End(c)
  BY <1>6 DEF End, HeapSize, Nil
<1>. QED
  BY <1>2, <1>5, <1>9, <1>10 DEF new

\* An allocation stays what it is if its block is left alone.
LEMMA LiveKept ==
    ASSUME LiveInv,
           \A a \in live : /\ HeaderOf(a) \in Blocks'
                           /\ heap'[HeaderOf(a)] = heap[HeaderOf(a)]
    PROVE  \A a \in live : /\ Sane(a.req) /\ a.ptr \in Nat
                           /\ HeaderOf(a) \in Blocks' /\ ~heap'[HeaderOf(a)].free
                           /\ a.ptr + Total(a.req) <= End(HeaderOf(a))'
<1>. SUFFICES ASSUME NEW a \in live
              PROVE  /\ Sane(a.req) /\ a.ptr \in Nat
                     /\ HeaderOf(a) \in Blocks' /\ ~heap'[HeaderOf(a)].free
                     /\ a.ptr + Total(a.req) <= End(HeaderOf(a))'
  OBVIOUS
<1>1. End(HeaderOf(a))' = End(HeaderOf(a))
  BY DEF End, HeaderOf, HeapSize, Nil
<1>. QED
  BY <1>1 DEF LiveInv

-----------------------------------------------------------------------------
(***************************************************************************)
(* The steps.                                                              *)
(***************************************************************************)
LEMMA HeapInit == Init => IInv
<1>. SUFFICES ASSUME Init
              PROVE  IInv
  OBVIOUS
<1>1. /\ heap = [a \in {0} |-> [size |-> HeapSize, free |-> TRUE, next |-> Nil]]
      /\ Blocks = {0} /\ heap[0] = [size |-> HeapSize, free |-> TRUE, next |-> Nil]
  BY DEF Init, InitialHeap, Blocks
<1>2. ListInv
  <2>1. [size |-> HeapSize, free |-> TRUE, next |-> Nil]
            \in [size : 0 .. HeapSize, free : BOOLEAN, next : Addresses \cup {Nil}]
    BY Sizings
  <2>2. BlocksTile
    BY <1>1, Sizings DEF BlocksTile
  <2>3. heap \in [Blocks -> [size : 0 .. HeapSize, free : BOOLEAN, next : Addresses \cup {Nil}]]
    BY <1>1, <2>1
  <2>. QED
    BY <1>1, <2>2, <2>3, Sizings DEF ListInv
<1>3. LiveInv
  BY <1>1 DEF Init, LiveInv
<1>4. LoopInv
  BY DEF Init, LoopInv
<1>. QED
  BY <1>2, <1>3, <1>4 DEF IInv

LEMMA StartStep ==
    ASSUME IInv, NEW r, Sane(r), StartScan(r)
    PROVE  IInv'
<1>1. pc' = "scan" /\ cur' = 0 /\ req' = r /\ UNCHANGED <<heap, live, last>>
  BY DEF StartScan
<1>2. ListInv' /\ LiveInv'
  BY <1>1 DEF IInv, ListInv, LiveInv, BlocksTile, Blocks, HeapSize, Addresses, End, HeaderOf, Sane,
              Total, Nil
<1>3. 0 \in Blocks /\ Blocks' = Blocks /\ \A b \in Blocks : b \in Nat
  BY <1>1, BlockFacts DEF IInv, ListInv, BlocksTile, Blocks
<1>4. Sane(req)'
  BY <1>1 DEF Sane, Total
<1>5. \A b \in Blocks : ~Passed(b)'
  BY <1>1, <1>3 DEF Passed, Nil
<1>6. LoopInv'
  BY <1>1, <1>3, <1>4, <1>5 DEF IInv, LoopInv
<1>. QED
  BY <1>2, <1>6 DEF IInv

LEMMA SkipStep ==
    ASSUME IInv, ScanSkip
    PROVE  IInv'
<1>1. /\ pc = "scan" /\ cur # Nil /\ ~Fits(cur) /\ cur' = heap[cur].next
      /\ UNCHANGED <<heap, live, pc, req, last>>
  BY DEF ScanSkip
<1>2. ListInv' /\ LiveInv'
  BY <1>1 DEF IInv, ListInv, LiveInv, BlocksTile, Blocks, HeapSize, Addresses, End, HeaderOf, Sane,
              Total, Nil
<1>3. cur \in Blocks /\ Sane(req) /\ \A b \in Blocks : Passed(b) /\ Fits(b) => NeedsGap(b)
  BY <1>1 DEF IInv, LoopInv
<1>4. cur' \in Blocks \cup {Nil} /\ Blocks' = Blocks /\ Sane(req)'
  BY <1>1, <1>3, BlockFacts DEF IInv, Blocks, Sane, Total
<1>5. ASSUME NEW b \in Blocks, Passed(b)', Fits(b)
      PROVE  NeedsGap(b)
  <2>1. b \in Nat /\ cur \in Nat
    BY <1>3, BlockFacts DEF IInv
  <2>2. ~(cur < b)
    <3>1. cur < b => heap[cur].next # Nil /\ heap[cur].next <= b /\ heap[cur].next \in Nat
      BY <1>3, BlocksOrdered, BlockFacts DEF IInv
    <3>. QED
      BY <1>1, <1>5, <2>1, <3>1 DEF Passed
  <2>3. b # cur
    BY <1>1, <1>5
  <2>4. b < cur
    BY <2>1, <2>2, <2>3
  <2>. QED
    BY <1>3, <1>5, <2>4 DEF Passed
<1>6. \A b \in Blocks : Fits(b)' = Fits(b) /\ NeedsGap(b)' = NeedsGap(b)
  BY <1>1 DEF Fits, Needed, Total, NeedsGap, Crosses, Disalignment, HpageRemaining
<1>7. LoopInv'
  BY <1>1, <1>4, <1>5, <1>6 DEF IInv, LoopInv
<1>. QED
  BY <1>2, <1>7 DEF IInv

\* The gap stays too small for the allocation; the walk goes on behind it.
LEMMA GapStep ==
    ASSUME IInv, ScanGap
    PROVE  IInv'
<1>. DEFINE gap == Disalignment(cur)
            len == req.align + gap
            rest == heap[cur].size - req.align - gap
            n == cur + len
<1>1. /\ pc = "scan" /\ cur # Nil /\ Fits(cur)
      /\ heap' = Cut(cur, len, gap, rest % WordSize, TRUE)
      /\ cur' = cur + req.align + gap
      /\ UNCHANGED <<live, pc, req, last>>
  BY DEF ScanGap
<1>2. cur \in Blocks /\ Sane(req) /\ \A b \in Blocks : Passed(b) /\ Fits(b) => NeedsGap(b)
  BY <1>1 DEF IInv, LoopInv
<1>3. /\ gap \in Nat /\ gap < req.elem /\ cur \in Nat /\ heap[cur].size \in Nat
      /\ heap[cur].size <= HeapSize /\ heap[cur].free
      /\ heap[cur].size >= Total(req) + PageSize
      /\ req.align = PageSize /\ req.elem \in Nat /\ req.elem <= Total(req) /\ Total(req) \in Nat
  BY <1>1, <1>2, GapFacts, NeededFacts, BlockFacts DEF IInv, Fits, Sane
<1>. HIDE DEF gap
<1>4. /\ rest \in Nat /\ rest > 0 /\ rest < WordSize /\ len \in Nat /\ len = PageSize + gap
      /\ heap[cur].size = len + rest /\ cur' = n /\ n \in Nat
  BY <1>1, <1>3, Sizings
<1>. HIDE DEF rest, len
<1>5. rest % WordSize = rest
  BY <1>4, Sizings
<1>6. heap' = Cut(cur, len, gap, rest, TRUE)
  BY <1>1, <1>5
<1>7. /\ ListInv /\ cur \in Blocks /\ gap \in Nat /\ len \in Nat /\ rest \in Nat /\ rest > 0
      /\ len = PageSize + gap /\ heap[cur].size = len + rest /\ TRUE \in BOOLEAN
  BY <1>2, <1>3, <1>4 DEF IInv
<1>8. /\ ListInv'
      /\ Blocks' = Blocks \cup {n} /\ n \notin Blocks
      /\ heap'[cur].size = gap /\ heap'[cur].free /\ heap'[n].free
      /\ \A c \in Blocks \ {cur} : heap'[c] = heap[c]
      /\ \A c \in Blocks : c <= cur \/ n < c
  BY <1>6, <1>7, CutFacts
<1>. HIDE DEF n
<1>9. LiveInv'
  <2>1. \A a \in live : HeaderOf(a) \in Blocks' /\ heap'[HeaderOf(a)] = heap[HeaderOf(a)]
    BY <1>3, <1>8 DEF IInv, LiveInv
  <2>2. \A a \in live : /\ Sane(a.req) /\ a.ptr \in Nat
                        /\ HeaderOf(a) \in Blocks' /\ ~heap'[HeaderOf(a)].free
                        /\ a.ptr + Total(a.req) <= End(HeaderOf(a))'
    BY <2>1, LiveKept DEF IInv
  <2>3. \A b \in Blocks' : ~heap'[b].free => \E a \in live : HeaderOf(a) = b
    BY <1>8 DEF IInv, LiveInv
  <2>4. \A a, c \in live : a.ptr = c.ptr => a = c
    BY DEF IInv, LiveInv
  <2>. QED
    BY <1>1, <2>2, <2>3, <2>4 DEF LiveInv, HeaderOf, Sane, Total
<1>10. ASSUME NEW b \in Blocks', Passed(b)', Fits(b)'
      PROVE  NeedsGap(b)'
  <2>1. b \in Nat /\ b < n /\ n # Nil
    <3>1. n # Nil
      BY <1>4, Sizings DEF n
    <3>2. \A c \in Blocks : c \in Nat
      BY BlockFacts DEF IInv
    <3>. QED
      BY <1>4, <1>8, <1>10, <3>1, <3>2 DEF Passed
  <2>2. b \in Blocks /\ b <= cur
    BY <1>3, <1>4, <1>8, <2>1 DEF n
  <2>3. b # cur
    <3>1. Needed' = Needed /\ Needed = Total(req) + PageSize
      BY <1>1, <1>2, NeededFacts DEF Needed, Total
    <3>2. gap < Needed
      BY <1>3, <3>1, Sizings
    <3>3. heap'[b].size >= Needed
      BY <1>10, <3>1 DEF Fits
    <3>4. b = cur => heap'[b].size = gap
      BY <1>8
    <3>5. Needed \in Nat
      BY <1>3, <3>1, Sizings
    <3>. QED
      BY <1>3, <3>2, <3>3, <3>4, <3>5
  <2>4. heap'[b] = heap[b] /\ Passed(b)
    BY <1>3, <1>8, <2>1, <2>2, <2>3 DEF Passed
  <2>5. Fits(b)
    BY <1>1, <1>10, <2>4 DEF Fits, Needed, Total
  <2>6. NeedsGap(b)
    BY <1>2, <2>2, <2>4, <2>5
  <2>. QED
    BY <1>1, <2>6 DEF NeedsGap, Crosses, Disalignment, HpageRemaining, Needed, Total
<1>11. LoopInv'
  <2>1. Sane(req)'
    BY <1>1, <1>2 DEF Sane, Total
  <2>. QED
    BY <1>1, <1>4, <1>8, <1>10, <2>1 DEF IInv, LoopInv
<1>. QED
  BY <1>8, <1>9, <1>11 DEF IInv

LEMMA TakeStep ==
    ASSUME IInv, ScanTake
    PROVE  IInv'
<1>1. /\ pc = "scan" /\ Fits(cur) /\ cur # Nil /\ heap' = Taken(cur)
      /\ live' = live \cup {[ptr |-> cur + req.align, req |-> req]}
      /\ pc' = "idle" /\ cur' = Nil /\ last' = "ok" /\ UNCHANGED req
  BY DEF ScanTake
<1>2. cur \in Blocks /\ Sane(req) /\ ListInv /\ LiveInv
  BY <1>1 DEF IInv, LoopInv
<1>3. PICK b \in Blocks : b = cur
  BY <1>2
<1>4. /\ Needed = Total(req) + PageSize /\ Needed \in Nat /\ Total(req) \in Nat
      /\ req.align = PageSize
  BY <1>2, NeededFacts, Sizings DEF Sane
<1>5. /\ b \in Nat /\ heap[b].size \in Nat /\ heap[b].size <= HeapSize
      /\ heap[b].free /\ heap[b].size >= Needed
  BY <1>1, <1>2, <1>3, BlockFacts DEF Fits
<1>6. /\ ListInv' /\ Blocks \subseteq Blocks' /\ ~heap'[b].free
      /\ \A c \in Blocks \ {b} : heap'[c] = heap[c]
      /\ \A c \in Blocks' \ Blocks : heap'[c].free
      /\ b + Needed <= End(b)'
  <2>1. CASE Remaining(b) > HeaderSize
    <3>. DEFINE rest == Remaining(b)
    <3>1. heap' = Cut(b, Needed, Total(req), rest, FALSE)
      BY <1>1, <1>3, <2>1 DEF Taken
    <3>2. heap[b].size = Needed + rest /\ rest \in Nat /\ rest > 0
      BY <1>4, <1>5, <2>1, Sizings DEF Remaining
    <3>3. Needed = PageSize + Total(req)
      BY <1>4, Sizings
    <3>. HIDE DEF rest
    <3>4. /\ ListInv /\ Needed \in Nat /\ Total(req) \in Nat /\ rest \in Nat /\ rest > 0
          /\ Needed = PageSize + Total(req) /\ heap[b].size = Needed + rest /\ FALSE \in BOOLEAN
      BY <1>2, <1>4, <3>2, <3>3
    <3>5. ListInv' /\ Blocks' = Blocks \cup {b + Needed}
      BY <3>1, <3>4, CutFacts
    <3>6. heap'[b].free = FALSE /\ heap'[b].next = b + Needed
      BY <3>1, <3>4, CutFacts
    <3>7. /\ heap'[b + Needed].free
          /\ \A c \in Blocks \ {b} : heap'[c] = heap[c]
      BY <3>1, <3>4, CutFacts
    <3>8. b + Needed \in Nat /\ b + Needed # Nil
      BY <1>4, <1>5, Sizings
    <3>9. End(b)' = b + Needed
      BY <3>6, <3>8 DEF End, Nil, HeapSize
    <3>. QED
      BY <3>5, <3>6, <3>7, <3>8, <3>9
  <2>2. CASE ~(Remaining(b) > HeaderSize)
    <3>1. heap' = [heap EXCEPT ![b].free = FALSE]
      BY <1>1, <1>3, <2>2 DEF Taken
    <3>2. heap' = [c \in Blocks |-> IF c = b THEN [heap[c] EXCEPT !.free = FALSE] ELSE heap[c]]
      BY <1>2, <3>1 DEF ListInv, Blocks
    <3>3. /\ ListInv' /\ Blocks' = Blocks /\ ~heap'[b].free
          /\ \A c \in Blocks \ {b} : heap'[c] = heap[c]
          /\ End(b)' = End(b)
      BY <1>2, <3>2, MarkFacts
    <3>4. b + Needed <= End(b)
      <4>1. /\ heap[b].next = Nil => b + heap[b].size = HeapSize
            /\ heap[b].next # Nil => heap[b].next = b + PageSize + heap[b].size
        BY <1>2, BlockFacts
      <4>2. CASE heap[b].next = Nil
        BY <1>4, <1>5, <4>1, <4>2, Sizings DEF End
      <4>3. CASE heap[b].next # Nil
        BY <1>4, <1>5, <4>1, <4>3, Sizings DEF End
      <4>. QED
        BY <4>2, <4>3
    <3>. QED
      BY <3>3, <3>4
  <2>. QED
    BY <2>1, <2>2
<1>7. PICK new : new = [ptr |-> b + PageSize, req |-> req]
  OBVIOUS
<1>8. new.ptr = b + PageSize /\ new.req = req /\ HeaderOf(new) = b /\ live' = live \cup {new}
  BY <1>1, <1>3, <1>4, <1>5, <1>7, Sizings DEF HeaderOf
<1>9. LiveInv'
  <2>1. \A a \in live : HeaderOf(a) # b
    BY <1>2, <1>5 DEF LiveInv
  <2>2. \A a \in live : /\ Sane(a.req) /\ a.ptr \in Nat
                        /\ HeaderOf(a) \in Blocks' /\ ~heap'[HeaderOf(a)].free
                        /\ a.ptr + Total(a.req) <= End(HeaderOf(a))'
    <3>1. \A a \in live : HeaderOf(a) \in Blocks' /\ heap'[HeaderOf(a)] = heap[HeaderOf(a)]
      BY <1>2, <1>6, <2>1 DEF LiveInv
    <3>. QED
      BY <1>2, <3>1, LiveKept
  <2>3. /\ Sane(new.req) /\ new.ptr \in Nat
        /\ HeaderOf(new) \in Blocks' /\ ~heap'[HeaderOf(new)].free
        /\ new.ptr + Total(new.req) <= End(HeaderOf(new))'
    <3>1. new.ptr + Total(new.req) = b + Needed /\ new.ptr \in Nat
      BY <1>4, <1>5, <1>8, Sizings
    <3>2. End(HeaderOf(new))' = End(b)'
      BY <1>8 DEF End, HeaderOf
    <3>. QED
      BY <1>2, <1>6, <1>8, <3>1, <3>2
  <2>4. \A a, c \in live' : a.ptr = c.ptr => a = c
    <3>1. \A a \in live : a.ptr # new.ptr
      BY <1>8, <2>1 DEF HeaderOf
    <3>. QED
      BY <1>1, <1>2, <1>8, <3>1 DEF LiveInv
  <2>5. \A c \in Blocks' : ~heap'[c].free => \E a \in live' : HeaderOf(a) = c
    BY <1>1, <1>2, <1>6, <1>8 DEF LiveInv
  <2>. QED
    BY <1>1, <1>8, <2>2, <2>3, <2>4, <2>5 DEF LiveInv, HeaderOf, Sane, Total
<1>10. LoopInv'
  BY <1>1 DEF LoopInv
<1>. QED
  BY <1>6, <1>9, <1>10 DEF IInv

LEMMA FailStep ==
    ASSUME IInv, ScanFail
    PROVE  IInv'
<1>1. /\ cur = Nil /\ pc' = "idle" /\ last' = "enomem" /\ UNCHANGED <<heap, live, cur, req>>
  BY DEF ScanFail
<1>2. ListInv' /\ LiveInv'
  BY <1>1 DEF IInv, ListInv, LiveInv, BlocksTile, Blocks, HeapSize, Addresses, End, HeaderOf, Sane,
              Total, Nil
<1>3. LoopInv'
  BY <1>1 DEF LoopInv, Nil
<1>. QED
  BY <1>2, <1>3 DEF IInv

LEMMA FreeStep ==
    ASSUME IInv, NEW a \in live, BlockFree(a)
    PROVE  IInv'
<1>. DEFINE b == HeaderOf(a)
<1>1. /\ live' = live \ {a} /\ pc' = "coalesce" /\ cur' = 0 /\ UNCHANGED <<req, last>>
      /\ heap' = [c \in Blocks |-> IF c = b THEN [heap[c] EXCEPT !.free = TRUE] ELSE heap[c]]
  BY DEF BlockFree, HeaderOf
<1>2. b \in Blocks /\ ListInv /\ LiveInv
  BY DEF IInv, LiveInv
<1>. HIDE DEF b
<1>3. /\ ListInv' /\ Blocks' = Blocks /\ heap'[b].free
      /\ \A c \in Blocks \ {b} : heap'[c] = heap[c]
      /\ \A c \in Blocks : End(c)' = End(c)
  BY <1>1, <1>2, MarkFacts
<1>4. ASSUME NEW c \in live, c # a
      PROVE  HeaderOf(c) \in Blocks \ {b}
  <2>1. c.ptr # a.ptr /\ c.ptr \in Nat /\ a.ptr \in Nat /\ HeaderOf(c) \in Blocks
    BY <1>2, <1>4 DEF LiveInv
  <2>. QED
    BY <2>1, Sizings DEF HeaderOf, b
<1>5. LiveInv'
  <2>1. ASSUME NEW c \in live'
        PROVE  /\ Sane(c.req) /\ c.ptr \in Nat
               /\ HeaderOf(c) \in Blocks' /\ ~heap'[HeaderOf(c)].free
               /\ c.ptr + Total(c.req) <= End(HeaderOf(c))'
    <3>1. c \in live /\ HeaderOf(c) \in Blocks \ {b}
      BY <1>1, <1>4, <2>1
    <3>2. heap'[HeaderOf(c)] = heap[HeaderOf(c)] /\ End(HeaderOf(c))' = End(HeaderOf(c))
      BY <1>3, <3>1 DEF End, HeaderOf, Nil, HeapSize
    <3>. QED
      BY <1>2, <1>3, <3>1, <3>2 DEF LiveInv
  <2>2. \A c \in Blocks' : ~heap'[c].free => \E d \in live' : HeaderOf(d) = c
    <3>. SUFFICES ASSUME NEW c \in Blocks', ~heap'[c].free
                  PROVE  \E d \in live' : HeaderOf(d) = c
      OBVIOUS
    <3>1. c \in Blocks \ {b} /\ ~heap[c].free
      BY <1>3
    <3>2. PICK d \in live : HeaderOf(d) = c
      BY <1>2, <3>1 DEF LiveInv
    <3>. QED
      BY <1>1, <3>1, <3>2 DEF b
  <2>3. \A c, d \in live' : c.ptr = d.ptr => c = d
    BY <1>1, <1>2 DEF LiveInv
  <2>. QED
    BY <2>1, <2>2, <2>3 DEF LiveInv, HeaderOf, Sane, Total
<1>6. LoopInv'
  <2>1. cur' \in Blocks' /\ \A c \in Blocks' : ~(c < cur')
    BY <1>1, <1>2, <1>3, BlockFacts DEF ListInv, BlocksTile
  <2>. QED
    BY <1>1, <2>1 DEF IInv, LoopInv
<1>. QED
  BY <1>3, <1>5, <1>6 DEF IInv

LEMMA MergeStep ==
    ASSUME IInv, CoalesceMerge
    PROVE  IInv'
<1>1. /\ pc = "coalesce" /\ Mergeable(cur) /\ heap' = Merged(cur)
      /\ UNCHANGED <<live, pc, cur, req, last>>
  BY DEF CoalesceMerge
<1>2. /\ cur \in Blocks /\ ListInv /\ LiveInv
      /\ \A c \in Blocks : c < cur => ~Mergeable(c)
  BY <1>1 DEF IInv, LoopInv
<1>. DEFINE n == heap[cur].next
<1>3. /\ ListInv' /\ n \in Blocks /\ cur < n /\ Blocks' = Blocks \ {n}
      /\ heap'[cur].free
      /\ \A c \in Blocks \ {cur, n} : heap'[c] = heap[c] /\ heap[c].next # n
  BY <1>1, <1>2, MergeFacts
<1>4. heap[cur].free /\ heap[n].free
  BY <1>1 DEF Mergeable
<1>. HIDE DEF n
<1>5. LiveInv'
  <2>1. \A a \in live : HeaderOf(a) \in Blocks \ {cur, n}
    BY <1>2, <1>4 DEF LiveInv
  <2>2. \A a \in live : HeaderOf(a) \in Blocks' /\ heap'[HeaderOf(a)] = heap[HeaderOf(a)]
    BY <1>3, <2>1
  <2>3. \A a \in live : /\ Sane(a.req) /\ a.ptr \in Nat
                        /\ HeaderOf(a) \in Blocks' /\ ~heap'[HeaderOf(a)].free
                        /\ a.ptr + Total(a.req) <= End(HeaderOf(a))'
    BY <1>2, <2>2, LiveKept
  <2>4. \A c \in Blocks' : ~heap'[c].free => \E a \in live : HeaderOf(a) = c
    BY <1>2, <1>3 DEF LiveInv
  <2>5. \A a, c \in live : a.ptr = c.ptr => a = c
    BY <1>2 DEF LiveInv
  <2>. QED
    BY <1>1, <2>3, <2>4, <2>5 DEF LiveInv, HeaderOf, Sane, Total
<1>6. ASSUME NEW c \in Blocks', c < cur
      PROVE  ~Mergeable(c)'
  <2>1. c \in Blocks \ {cur, n} /\ heap'[c] = heap[c] /\ heap[c].next # n /\ ~Mergeable(c)
    <3>1. c # cur
      BY <1>2, <1>6, BlockAddresses
    <3>. QED
      BY <1>2, <1>3, <1>6, <3>1
  <2>2. heap[c].next # Nil => heap[c].next \in Blocks \ {n}
    BY <1>2, <2>1, BlockFacts
  <2>3. heap[c].next # Nil /\ heap'[heap[c].next].free => heap[heap[c].next].free
    BY <1>3, <1>4, <2>2
  <2>. QED
    BY <2>1, <2>3 DEF Mergeable, Nil
<1>7. LoopInv'
  <2>1. cur \in Blocks'
    BY <1>2, <1>3, BlockAddresses
  <2>. QED
    BY <1>1, <1>6, <2>1 DEF IInv, LoopInv
<1>. QED
  BY <1>3, <1>5, <1>7 DEF IInv

LEMMA SweepStep ==
    ASSUME IInv, CoalesceStep
    PROVE  IInv'
<1>1. /\ pc = "coalesce" /\ heap[cur].next # Nil /\ ~Mergeable(cur) /\ cur' = heap[cur].next
      /\ UNCHANGED <<heap, live, pc, req, last>>
  BY DEF CoalesceStep
<1>2. ListInv' /\ LiveInv'
  BY <1>1 DEF IInv, ListInv, LiveInv, BlocksTile, Blocks, HeapSize, Addresses, End, HeaderOf, Sane,
              Total, Nil
<1>3. /\ cur \in Blocks /\ ListInv
      /\ \A c \in Blocks : c < cur => ~Mergeable(c)
  BY <1>1 DEF IInv, LoopInv
<1>4. cur' \in Blocks /\ Blocks' = Blocks
  BY <1>1, <1>3, BlockFacts DEF Blocks
<1>5. ASSUME NEW c \in Blocks, c < cur'
      PROVE  ~Mergeable(c)
  <2>1. c \in Nat /\ cur \in Nat /\ cur' \in Nat
    BY <1>3, <1>4, BlockFacts
  <2>2. ~(cur < c)
    BY <1>1, <1>3, <1>5, <2>1, BlocksOrdered
  <2>. QED
    BY <1>1, <1>3, <2>1, <2>2
<1>6. \A c \in Blocks : Mergeable(c)' = Mergeable(c)
  BY <1>1 DEF Mergeable, Nil
<1>7. LoopInv'
  BY <1>1, <1>4, <1>5, <1>6 DEF IInv, LoopInv
<1>. QED
  BY <1>2, <1>7 DEF IInv

LEMMA DoneStep ==
    ASSUME IInv, CoalesceDone
    PROVE  IInv'
<1>1. /\ pc = "coalesce" /\ cur' = Nil /\ pc' = "idle" /\ last' = "freed"
      /\ (IF cur = Nil THEN TRUE ELSE heap[cur].next = Nil)
      /\ UNCHANGED <<heap, live, req>>
  BY DEF CoalesceDone
<1>2. ListInv' /\ LiveInv'
  BY <1>1 DEF IInv, ListInv, LiveInv, BlocksTile, Blocks, HeapSize, Addresses, End, HeaderOf, Sane,
              Total, Nil
<1>3. /\ cur \in Blocks /\ ListInv
      /\ \A c \in Blocks : c < cur => ~Mergeable(c)
  BY <1>1 DEF IInv, LoopInv
<1>4. heap[cur].next = Nil /\ cur \in Nat
  BY <1>1, <1>3, BlockAddresses
<1>5. ASSUME NEW c \in Blocks
      PROVE  ~Mergeable(c)
  <2>1. c \in Nat
    BY <1>3, BlockFacts
  <2>2. ~(cur < c)
    BY <1>3, <1>4, BlocksOrdered
  <2>3. c = cur => ~Mergeable(c)
    BY <1>4 DEF Mergeable
  <2>. QED
    BY <1>3, <1>4, <2>1, <2>2, <2>3
<1>6. \A c \in Blocks : Mergeable(c)' = Mergeable(c)
  BY <1>1 DEF Mergeable, Nil
<1>7. Blocks' = Blocks
  BY <1>1 DEF Blocks
<1>8. LoopInv'
  BY <1>1, <1>5, <1>6, <1>7 DEF LoopInv, Nil
<1>. QED
  BY <1>2, <1>8 DEF IInv

LEMMA HeapStutter ==
    ASSUME IInv, UNCHANGED vars
    PROVE  IInv'
<1>1. UNCHANGED <<heap, live, pc, cur, req, last>>
  BY DEF vars
<1>2. ListInv' /\ LiveInv'
  BY <1>1 DEF IInv, ListInv, LiveInv, BlocksTile, Blocks, HeapSize, Addresses, End, HeaderOf, Sane,
              Total, Nil
<1>3. LoopInv'
  BY <1>1 DEF IInv, LoopInv, Sane, Total, Passed, Fits, Needed, NeedsGap, Crosses, Disalignment,
              HpageRemaining, Mergeable, Blocks, Nil
<1>. QED
  BY <1>2, <1>3 DEF IInv

LEMMA HeapStep ==
    ASSUME HeapUse, IInv, [Next]_vars
    PROVE  IInv'
<1>1. CASE AllocAligned
  <2>1. PICK size \in Sizes, align \in Alignments :
            StartScan([size |-> size, count |-> RoundToPages(size), elem |-> PageSize,
                       align |-> align])
    BY <1>1 DEF AllocAligned
  <2>. QED
    BY <2>1, AlignedSane, StartStep
<1>2. CASE AllocArray
  <2>1. PICK a \in Arrays :
            StartScan([size |-> Total(a), count |-> a.count, elem |-> a.elem,
                       align |-> PageSize])
    BY <1>2 DEF AllocArray
  <2>. QED
    BY <2>1, ArraySane, StartStep
<1>3. CASE \E a \in live : BlockFree(a)
  BY <1>3, FreeStep
<1>4. CASE Scan
  BY <1>4, SkipStep, GapStep, TakeStep, FailStep DEF Scan
<1>5. CASE Coalesce
  BY <1>5, MergeStep, SweepStep, DoneStep DEF Coalesce
<1>6. CASE UNCHANGED vars
  BY <1>6, HeapStutter
<1>. QED
  BY <1>1, <1>2, <1>3, <1>4, <1>5, <1>6 DEF Next

\* The inductive invariant holds of every reachable state.
LEMMA HeapInvariant ==
    ASSUME HeapUse
    PROVE  Spec => []IInv
<1>1. Init => IInv
  BY HeapInit
<1>2. IInv /\ [Next]_vars => IInv'
  BY HeapStep
<1>. QED
  BY <1>1, <1>2, PTL DEF Spec

-----------------------------------------------------------------------------
(***************************************************************************)
(* What callers rely on.                                                   *)
(***************************************************************************)
LEMMA AllocationFacts ==
    ASSUME IInv, NEW a \in live
    PROVE  /\ HeaderOf(a) \in Blocks /\ ~heap[HeaderOf(a)].free
           /\ a.ptr \in Nat /\ HeaderOf(a) \in Nat /\ a.ptr = HeaderOf(a) + PageSize
           /\ Total(a.req) \in Nat /\ Total(a.req) >= 1
           /\ a.ptr + Total(a.req) <= End(HeaderOf(a))
           /\ End(HeaderOf(a)) \in Nat /\ End(HeaderOf(a)) <= HeapSize
<1>1. /\ Sane(a.req) /\ a.ptr \in Nat
      /\ HeaderOf(a) \in Blocks /\ ~heap[HeaderOf(a)].free
      /\ a.ptr + Total(a.req) <= End(HeaderOf(a))
  BY DEF IInv, LiveInv
<1>2. Total(a.req) \in Nat /\ Total(a.req) >= 1
  BY <1>1 DEF Sane
<1>3. a.ptr = HeaderOf(a) + PageSize
  BY <1>1, Sizings DEF HeaderOf
<1>4. HeaderOf(a) \in Nat /\ End(HeaderOf(a)) \in Nat /\ End(HeaderOf(a)) <= HeapSize
  <2>. HIDE DEF HeaderOf
  <2>. QED
    BY <1>1, BlockFacts DEF IInv
<1>. QED
  BY <1>1, <1>2, <1>3, <1>4

\* The blocks keep to the heap, and pointer, loop position and outcome of the
\* last call keep their types, whatever is allocated and freed.
THEOREM HeapTypeCorrect ==
    ASSUME HeapUse
    PROVE  Spec => []TypeOK
<1>1. IInv => TypeOK
  <2>. SUFFICES ASSUME IInv
                PROVE  TypeOK
    OBVIOUS
  <2>1. \A a \in live : a.ptr \in 0 .. HeapSize
    <3>1. \A a \in live : a.ptr \in Nat /\ a.ptr <= HeapSize
      <4>. SUFFICES ASSUME NEW a \in live
                    PROVE  a.ptr \in Nat /\ a.ptr <= HeapSize
        OBVIOUS
      <4>1. /\ a.ptr \in Nat /\ Total(a.req) \in Nat /\ End(HeaderOf(a)) \in Nat
            /\ a.ptr + Total(a.req) <= End(HeaderOf(a)) /\ End(HeaderOf(a)) <= HeapSize
        BY AllocationFacts
      <4>. QED
        BY <4>1, Sizings
    <3>. QED
      BY <3>1, Sizings
  <2>2. cur \in Addresses \cup {Nil}
    BY DEF IInv, LoopInv, ListInv
  <2>. QED
    BY <2>1, <2>2 DEF IInv, ListInv, LoopInv, TypeOK
<1>. QED
  BY <1>1, HeapInvariant, PTL

\* Splits, gaps and merges leave the blocks side by side over the whole heap,
\* although the size of the last one counts its header and no other does.
THEOREM HeapBlocksTile ==
    ASSUME HeapUse
    PROVE  Spec => []BlocksTile
<1>1. IInv => BlocksTile
  BY DEF IInv, ListInv
<1>. QED
  BY <1>1, HeapInvariant, PTL

\* Memory handed out lies in the heap and overlaps neither another allocation
\* nor a header of the block list.
THEOREM HeapAllocationsDisjoint ==
    ASSUME HeapUse
    PROVE  Spec => []AllocationsDisjoint
<1>1. IInv => AllocationsDisjoint
  <2>. SUFFICES ASSUME IInv
                PROVE  AllocationsDisjoint
    OBVIOUS
  <2>1. ASSUME NEW a \in live
        PROVE  Bytes(a) \subseteq Addresses
    <3>1. /\ a.ptr \in Nat /\ Total(a.req) \in Nat /\ End(HeaderOf(a)) \in Nat
          /\ a.ptr + Total(a.req) <= End(HeaderOf(a)) /\ End(HeaderOf(a)) <= HeapSize
      BY AllocationFacts
    <3>. QED
      BY <3>1, Sizings DEF Bytes
  <2>2. ASSUME NEW a \in live, NEW c \in live, HeaderOf(a) < HeaderOf(c)
        PROVE  Bytes(a) \cap Bytes(c) = {}
    <3>1. /\ a.ptr \in Nat /\ Total(a.req) \in Nat /\ End(HeaderOf(a)) \in Nat
          /\ a.ptr + Total(a.req) <= End(HeaderOf(a)) /\ HeaderOf(a) \in Blocks
      BY AllocationFacts
    <3>2. /\ c.ptr \in Nat /\ Total(c.req) \in Nat /\ HeaderOf(c) \in Nat
          /\ c.ptr = HeaderOf(c) + PageSize /\ HeaderOf(c) \in Blocks
      BY AllocationFacts
    <3>3. End(HeaderOf(a)) <= HeaderOf(c)
      <4>. HIDE DEF HeaderOf
      <4>. QED
        BY <2>2, <3>1, <3>2, BlocksOrdered DEF IInv
    <3>4. a.ptr + Total(a.req) <= c.ptr
      BY <3>1, <3>2, <3>3, Sizings
    <3>. QED
      BY <3>1, <3>2, <3>4 DEF Bytes
  <2>3. ASSUME NEW a \in live, NEW c \in live, a # c
        PROVE  Bytes(a) \cap Bytes(c) = {}
    <3>1. HeaderOf(a) \in Nat /\ HeaderOf(c) \in Nat /\ HeaderOf(a) # HeaderOf(c)
      <4>1. a.ptr # c.ptr
        BY <2>3 DEF IInv, LiveInv
      <4>2. /\ HeaderOf(a) \in Nat /\ a.ptr = HeaderOf(a) + PageSize
            /\ HeaderOf(c) \in Nat /\ c.ptr = HeaderOf(c) + PageSize
        BY AllocationFacts
      <4>. QED
        BY <4>1, <4>2
    <3>. QED
      BY <2>2, <3>1
  <2>4. ASSUME NEW a \in live, NEW b \in Blocks
        PROVE  Bytes(a) \cap Header(b) = {}
    <3>1. /\ a.ptr \in Nat /\ Total(a.req) \in Nat /\ End(HeaderOf(a)) \in Nat
          /\ a.ptr + Total(a.req) <= End(HeaderOf(a)) /\ HeaderOf(a) \in Blocks
          /\ HeaderOf(a) \in Nat /\ a.ptr = HeaderOf(a) + PageSize
      BY AllocationFacts
    <3>2. b \in Nat
      BY BlockAddresses DEF IInv
    <3>3. CASE b <= HeaderOf(a)
      <4>1. b + HeaderSize <= a.ptr
        BY <3>1, <3>2, <3>3, Sizings
      <4>. QED
        BY <3>1, <3>2, <4>1, Sizings DEF Bytes, Header
    <3>4. CASE HeaderOf(a) < b
      <4>1. End(HeaderOf(a)) <= b
        <5>. HIDE DEF HeaderOf
        <5>. QED
          BY <3>1, <3>4, BlocksOrdered DEF IInv
      <4>2. a.ptr + Total(a.req) <= b
        BY <3>1, <3>2, <4>1
      <4>. QED
        BY <3>1, <3>2, <4>2, Sizings DEF Bytes, Header
    <3>. QED
      BY <3>1, <3>2, <3>3, <3>4
  <2>. QED
    BY <2>1, <2>3, <2>4 DEF AllocationsDisjoint
<1>. QED
  BY <1>1, HeapInvariant, PTL

\* Freeing everything gives back the heap as it was initialised, after any
\* number of splits, gaps and merges.
THEOREM HeapAllFreedRestores ==
    ASSUME HeapUse
    PROVE  Spec => []AllFreedRestoresHeap
<1>1. IInv => AllFreedRestoresHeap
  <2>. SUFFICES ASSUME IInv, live = {}, last = "freed", pc = "idle"
                PROVE  heap = InitialHeap
    BY DEF AllFreedRestoresHeap
  <2>1. \A b \in Blocks : heap[b].free /\ ~Mergeable(b)
    BY DEF IInv, LiveInv, LoopInv
  <2>2. ListInv /\ 0 \in Blocks
    BY DEF IInv, ListInv, BlocksTile
  <2>3. heap[0].next = Nil
    <3>1. heap[0].next # Nil => heap[0].next \in Blocks
      BY <2>2, BlockFacts
    <3>. QED
      BY <2>1, <2>2, <3>1 DEF Mergeable
  <2>4. Blocks = {0}
    <3>. SUFFICES ASSUME NEW b \in Blocks, b # 0
                  PROVE  FALSE
      BY <2>2
    <3>1. b \in Nat /\ 0 < b
      BY <2>2, BlockAddresses
    <3>. QED
      BY <2>2, <2>3, <3>1, BlocksOrdered
  <2>5. heap[0] = [size |-> HeapSize, free |-> TRUE, next |-> Nil]
    <3>1. /\ heap[0] = [size |-> heap[0].size, free |-> heap[0].free, next |-> heap[0].next]
          /\ heap[0].size \in Nat /\ heap[0].free \in BOOLEAN
          /\ heap[0].next = Nil => 0 + heap[0].size = HeapSize
      BY <2>2, BlockFacts
    <3>2. heap[0].size = HeapSize
      BY <2>3, <3>1
    <3>3. heap[0].free = TRUE
      BY <2>1, <2>2, <3>1
    <3>. QED
      BY <2>3, <3>1, <3>2, <3>3
  <2>6. heap = [a \in Blocks |-> heap[a]]
    BY DEF IInv, ListInv
  <2>. QED
    BY <2>4, <2>5, <2>6 DEF InitialHeap
<1>. QED
  BY <1>1, HeapInvariant, PTL

\* A scan that reached the end of the list has passed no block that the
\* allocation could have taken.
THEOREM HeapFailsOnlyWhenNothingFits ==
    ASSUME HeapUse
    PROVE  Spec => []FailsOnlyWhenNothingFits
<1>1. IInv => FailsOnlyWhenNothingFits
  BY DEF IInv, LoopInv, Passed, FailsOnlyWhenNothingFits
<1>. QED
  BY <1>1, HeapInvariant, PTL

\* An allocation has as many bytes as were asked for, as long as no size is
\* close enough to SIZE_MAX for the rounding to wrap.
THEOREM HeapHoldsSizes ==
    ASSUME HeapUse
    PROVE  Spec => []AllocationsHoldSize
<1>1. IInv => AllocationsHoldSize
  <2>. SUFFICES ASSUME IInv, NEW a \in live
                PROVE  a.ptr + a.req.size <= HeapSize
    BY DEF AllocationsHoldSize
  <2>1. a.req.size \in Nat /\ a.req.size <= Total(a.req)
    BY DEF IInv, LiveInv, Sane
  <2>2. /\ a.ptr \in Nat /\ Total(a.req) \in Nat /\ End(HeaderOf(a)) \in Nat
        /\ a.ptr + Total(a.req) <= End(HeaderOf(a)) /\ End(HeaderOf(a)) <= HeapSize
    BY AllocationFacts
  <2>. QED
    BY <2>1, <2>2, Sizings
<1>. QED
  BY <1>1, HeapInvariant, PTL

\* As many blocks are in use as there are allocations: with the alignment
\* that free presumes, every free finds the block it is meant for.
THEOREM HeapFreedMemoryIsFree ==
    ASSUME HeapUse
    PROVE  Spec => []FreedMemoryIsFree
<1>1. IInv => FreedMemoryIsFree
  <2>. SUFFICES ASSUME IInv
                PROVE  Cardinality({b \in Blocks : ~heap[b].free}) = Cardinality(live)
    BY DEF FreedMemoryIsFree
  <2>. DEFINE S == {b \in Blocks : ~heap[b].free}
              f == [b \in S |-> CHOOSE a \in live : HeaderOf(a) = b]
  <2>1. \A b \in S : f[b] \in live /\ HeaderOf(f[b]) = b
    BY DEF IInv, LiveInv
  <2>2. \A a \in live : HeaderOf(a) \in S /\ f[HeaderOf(a)] = a
    <3>. SUFFICES ASSUME NEW a \in live
                  PROVE  HeaderOf(a) \in S /\ f[HeaderOf(a)] = a
      OBVIOUS
    <3>1. HeaderOf(a) \in S /\ a.ptr = HeaderOf(a) + PageSize
      BY AllocationFacts
    <3>2. PICK c \in live : c = f[HeaderOf(a)] /\ HeaderOf(c) = HeaderOf(a)
      BY <2>1, <3>1
    <3>3. c.ptr = HeaderOf(c) + PageSize
      BY AllocationFacts
    <3>4. c.ptr = a.ptr
      BY <3>1, <3>2, <3>3
    <3>5. c = a
      BY <3>4 DEF IInv, LiveInv
    <3>. QED
      BY <3>1, <3>2, <3>5
  <2>3. f \in [S -> live]
    BY <2>1
  <2>4. IsFiniteSet(S)
    <3>1. IsFiniteSet(0 .. HeapSize - 1)
      BY FS_Interval, Sizings
    <3>2. S \in SUBSET (0 .. HeapSize - 1)
      BY Sizings DEF IInv, ListInv
    <3>. QED
      BY <3>1, <3>2, FS_Subset
  <2>. HIDE DEF S, f
  <2>5. f \in Bijection(S, live)
    <3>1. \A b, c \in S : f[b] = f[c] => b = c
      BY <2>1
    <3>2. \A a \in live : \E b \in S : f[b] = a
      BY <2>2
    <3>. QED
      BY <2>3, <3>1, <3>2 DEF Bijection, Injection, Surjection, IsInjective
  <2>6. ExistsBijection(S, live)
    BY <2>5 DEF ExistsBijection
  <2>. QED
    BY <2>4, <2>6, FS_Bijection DEF S
<1>. QED
  BY <1>1, HeapInvariant, PTL

-----------------------------------------------------------------------------
(***************************************************************************)
(* Elements and hugepages.                                                 *)
(***************************************************************************)
\* Every element size divides a hugepage, as those of queues and lists do.
ElementsDivide == \A a \in Arrays : HugePage % a.elem = 0

ElementInv == (pc = "scan" => HugePage % req.elem = 0) /\ ElementsContiguous

Contiguous(a) ==
    \A k \in 0 .. a.req.count - 1 :
        LET first == a.ptr + k * a.req.elem
        IN first \div HugePage = (first + a.req.elem - 1) \div HugePage

LEMMA MulSteps ==
    ASSUME NEW h \in Nat, NEW a \in Int, NEW b \in Int
    PROVE  /\ h * a \in Int /\ h * b \in Int
           /\ a <= b => h * a <= h * b
           /\ a < b => h * a + h <= h * b
OBVIOUS

LEMMA QuotientIs ==
    ASSUME NEW h \in Nat \ {0}, NEW q \in Int, NEW x \in Int, h * q <= x, x < h * q + h
    PROVE  x \div h = q
<1>. DEFINE d == x \div h
            m == x % h
<1>1. d \in Int /\ m \in 0 .. h - 1 /\ x = (h * d) + m
  OBVIOUS
<1>. HIDE DEF d, m
<1>2. ~(d < q)
  <2>1. d < q => h * d + h <= h * q
    BY <1>1, MulSteps
  <2>2. h * d \in Int /\ h * q \in Int
    BY <1>1, MulSteps
  <2>. QED
    BY <1>1, <2>1, <2>2
<1>3. ~(q < d)
  <2>1. q < d => h * q + h <= h * d
    BY <1>1, MulSteps
  <2>2. h * d \in Int /\ h * q \in Int
    BY <1>1, MulSteps
  <2>. QED
    BY <1>1, <2>1, <2>2
<1>. QED
  BY <1>1, <1>2, <1>3 DEF d

\* An array that lies in one hugepage.
LEMMA InsideOnePage ==
    ASSUME NEW h \in Nat \ {0}, NEW q \in Int, NEW ptr \in Nat, NEW e \in Nat \ {0},
           NEW c \in Nat, h * q <= ptr, ptr + c * e <= h * q + h, NEW k \in 0 .. c - 1
    PROVE  (ptr + k * e) \div h = (ptr + k * e + e - 1) \div h
<1>1. k \in Nat /\ c \in Nat /\ k + 1 <= c
  OBVIOUS
<1>. DEFINE ke == k * e
            ce == c * e
            hq == h * q
<1>2. ke \in Nat /\ ke + e <= ce /\ ce \in Nat /\ hq \in Int
  <2>1. e * k + e <= e * c /\ e * k \in Nat /\ e * c \in Nat
    BY <1>1, MulSteps
  <2>2. e * k = k * e /\ e * c = c * e
    BY <1>1
  <2>. QED
    BY <2>1, <2>2
<1>3. hq <= ptr /\ ptr + ce <= hq + h
  OBVIOUS
<1>. HIDE DEF ke, ce, hq
<1>4. /\ ptr + ke \in Int /\ hq <= ptr + ke /\ ptr + ke < hq + h
      /\ ptr + ke + e - 1 \in Int /\ hq <= ptr + ke + e - 1 /\ ptr + ke + e - 1 < hq + h
  BY <1>2, <1>3
<1>5. (ptr + ke) \div h = q
  BY <1>4, QuotientIs DEF hq
<1>6. (ptr + ke + e - 1) \div h = q
  BY <1>4, QuotientIs DEF hq
<1>. QED
  BY <1>5, <1>6 DEF ke

\* Elements that divide the page, from a multiple of their size on.
LEMMA AlignedElement ==
    ASSUME NEW h \in Nat \ {0}, NEW e \in Nat \ {0}, h % e = 0, NEW j \in Int
    PROVE  (e * j) \div h = (e * j + e - 1) \div h
<1>. DEFINE g == h \div e
            d == j \div g
            m == j % g
<1>1. g \in Nat /\ h = e * g
  BY SMTT(30)
<1>2. g # 0
  BY <1>1
<1>. HIDE DEF g
<1>3. d \in Int /\ m \in Nat /\ m + 1 <= g /\ j = (g * d) + m
  BY <1>1, <1>2
<1>. HIDE DEF d, m
<1>4. e * j = (h * d) + (e * m)
  <2>1. e * ((g * d) + m) = (e * (g * d)) + (e * m)
    BY <1>1, <1>3
  <2>2. e * (g * d) = (e * g) * d
    BY <1>1, <1>3
  <2>. QED
    BY <1>1, <1>3, <2>1, <2>2
<1>5. e * m \in Nat /\ e * m + e <= h /\ h * d \in Int
  <2>1. e * m \in Int /\ e * m + e <= e * g /\ h * d \in Int
    BY <1>1, <1>3, MulSteps
  <2>2. e * m >= 0
    BY <1>3
  <2>. QED
    BY <1>1, <2>1, <2>2
<1>. DEFINE em == e * m
            hd == h * d
            ej == e * j
<1>6. ej = hd + em /\ em \in Nat /\ em + e <= h /\ hd \in Int
  BY <1>4, <1>5
<1>. HIDE DEF em, hd, ej
<1>7. /\ ej \in Int /\ hd <= ej /\ ej < hd + h
      /\ ej + e - 1 \in Int /\ hd <= ej + e - 1 /\ ej + e - 1 < hd + h
  BY <1>6
<1>8. ej \div h = d
  BY <1>3, <1>7, QuotientIs DEF hd
<1>9. (ej + e - 1) \div h = d
  BY <1>3, <1>7, QuotientIs DEF hd
<1>. QED
  BY <1>8, <1>9 DEF ej

\* Where no gap is wanted although the array leaves the hugepage, it begins
\* at a multiple of the element, the wrap below zero included.
LEMMA NoGapAligned ==
    ASSUME Sane(req), HugePage % req.elem = 0, NEW b \in Nat, Disalignment(b) = 0
    PROVE  \E j \in Int : b + PageSize = req.elem * j
<1>. DEFINE e == req.elem
            h == HugePage
            w == WordSize
            q == b \div h
            r == h - (b % h)
            x == (r - PageSize) % w
<1>1. /\ e \in Nat \ {0} /\ h \in Nat \ {0} /\ w \in Nat \ {0} /\ h % e = 0 /\ w % h = 0
      /\ PageSize \in Nat /\ PageSize < w /\ h < w /\ PageSize <= h
  BY Sizings, HeapAssumption DEF Sane
<1>2. HpageRemaining(b) = r /\ x % e = 0
  BY DEF HpageRemaining, Disalignment, Sane
<1>3. q \in Nat /\ r \in Nat /\ 0 < r /\ r <= h /\ b + r = (h * q) + h
  BY <1>1
<1>. HIDE DEF e, h, w
<1>4. PICK g \in Nat : h = e * g
  <2>1. h = e * (h \div e) /\ h \div e \in Nat
    BY <1>1, SMTT(30)
  <2>. QED
    BY <2>1
<1>5. PICK v \in Nat : w = h * v
  <2>1. w = h * (w \div h) /\ w \div h \in Nat
    BY <1>1, SMTT(30)
  <2>. QED
    BY <2>1
<1>. HIDE DEF q, r
<1>6. x = r - PageSize \/ x = r - PageSize + w
  <2>1. CASE r >= PageSize
    <3>1. r - PageSize \in Nat /\ r - PageSize < w
      BY <1>1, <1>3, <2>1
    <3>. QED
      BY <1>1, <3>1
  <2>2. CASE r < PageSize
    <3>. DEFINE y == r - PageSize
    <3>1. y \in Int /\ y < 0 /\ y + w >= 0 /\ y + w < w
      BY <1>1, <1>3, <2>2
    <3>. HIDE DEF y
    <3>2. y % w = y + w
      BY <1>1, <3>1, SMTT(30)
    <3>. QED
      BY <3>2 DEF y
  <2>. QED
    BY <1>1, <1>3, <2>1, <2>2
<1>7. x \in Nat
  BY <1>1, <1>3
<1>. HIDE DEF x
<1>8. PICK u \in Nat : x = e * u
  <2>1. x = e * (x \div e) /\ x \div e \in Nat
    BY <1>1, <1>2, <1>7, SMTT(30)
  <2>. QED
    BY <2>1
<1>9. h * q = e * (g * q) /\ g * q \in Int /\ w = e * (g * v) /\ g * v \in Int
  BY <1>1, <1>3, <1>4, <1>5
<1>. DEFINE gq == g * q
            gv == g * v
<1>10. h * q = e * gq /\ gq \in Int /\ w = e * gv /\ gv \in Int
  BY <1>9
<1>. HIDE DEF gq, gv
<1>11. CASE x = r - PageSize
  <2>1. b + PageSize = (h * q) + h - x
    <3>. DEFINE hq == h * q
    <3>1. hq \in Int /\ b + r = hq + h
      BY <1>1, <1>3
    <3>. HIDE DEF hq
    <3>2. b + PageSize = hq + h - x
      BY <1>1, <1>3, <1>11, <3>1
    <3>. QED
      BY <3>2 DEF hq
  <2>2. (e * gq) + (e * g) - (e * u) = e * (gq + g - u)
    BY <1>1, <1>4, <1>8, <1>10
  <2>3. gq + g - u \in Int
    BY <1>4, <1>8, <1>10
  <2>4. b + PageSize = e * (gq + g - u)
    BY <1>4, <1>8, <1>10, <2>1, <2>2
  <2>. QED
    BY <2>3, <2>4 DEF e
<1>12. CASE x = r - PageSize + w
  <2>1. b + PageSize = (h * q) + h - x + w
    <3>. DEFINE hq == h * q
    <3>1. hq \in Int /\ b + r = hq + h
      BY <1>1, <1>3
    <3>. HIDE DEF hq
    <3>2. b + PageSize = hq + h - x + w
      BY <1>1, <1>3, <1>12, <3>1
    <3>. QED
      BY <3>2 DEF hq
  <2>2. (e * gq) + (e * g) - (e * u) + (e * gv) = e * (gq + g - u + gv)
    BY <1>1, <1>4, <1>8, <1>10
  <2>3. gq + g - u + gv \in Int
    BY <1>4, <1>8, <1>10
  <2>4. b + PageSize = e * (gq + g - u + gv)
    BY <1>4, <1>8, <1>10, <2>1, <2>2
  <2>. QED
    BY <2>3, <2>4 DEF e
<1>. QED
  BY <1>6, <1>11, <1>12

LEMMA TakenContiguous ==
    ASSUME Sane(req), HugePage % req.elem = 0, NEW b \in Nat, ~NeedsGap(b),
           NEW a, a.ptr = b + PageSize, a.req = req
    PROVE  Contiguous(a)
<1>. DEFINE e == req.elem
            c == req.count
            h == HugePage
<1>1. /\ e \in Nat \ {0} /\ c \in Nat /\ h \in Nat \ {0} /\ h % e = 0 /\ PageSize \in Nat
      /\ Total(req) = c * e /\ Total(req) \in Nat
  BY Sizings DEF Sane, Total
<1>. HIDE DEF e, c, h
<1>2. SUFFICES ASSUME NEW k \in 0 .. c - 1
               PROVE  (a.ptr + k * e) \div h = (a.ptr + k * e + e - 1) \div h
  BY DEF Contiguous, e, c, h
<1>3. CASE ~Crosses(b)
  <2>. DEFINE q == b \div h
              hq == h * q
              r == h - (b % h)
  <2>1. q \in Int /\ hq \in Int /\ hq <= b /\ r \in Nat /\ b + r = hq + h
    BY <1>1
  <2>2. r >= Total(req) + PageSize
    BY <1>1, <1>3, <2>1, NeededFacts DEF Crosses, HpageRemaining, h
  <2>. HIDE DEF q, hq, r
  <2>3. hq <= a.ptr /\ a.ptr + Total(req) <= hq + h /\ a.ptr \in Nat
    BY <1>1, <2>1, <2>2
  <2>4. h * q <= a.ptr /\ a.ptr + c * e <= h * q + h
    BY <1>1, <2>3 DEF hq
  <2>5. PICK ptr \in Nat : ptr = a.ptr
    BY <2>3
  <2>6. /\ h \in Nat \ {0} /\ q \in Int /\ ptr \in Nat /\ e \in Nat \ {0} /\ c \in Nat
        /\ h * q <= ptr /\ ptr + c * e <= h * q + h /\ k \in 0 .. c - 1
    BY <1>1, <2>1, <2>4, <2>5
  <2>7. (ptr + k * e) \div h = (ptr + k * e + e - 1) \div h
    BY ONLY <2>6, InsideOnePage
  <2>. QED
    BY <2>5, <2>7
<1>4. CASE Disalignment(b) = 0
  <2>1. PICK j \in Int : b + PageSize = e * j
    BY <1>4, NoGapAligned DEF e
  <2>2. k \in Int /\ k * e = e * k
    BY <1>1
  <2>3. a.ptr + k * e = e * (j + k) /\ j + k \in Int
    BY <1>1, <2>1, <2>2
  <2>4. (e * (j + k)) \div h = (e * (j + k) + e - 1) \div h
    BY <1>1, <2>3, AlignedElement
  <2>. QED
    BY <2>3, <2>4
<1>. QED
  BY <1>3, <1>4 DEF NeedsGap

LEMMA ElementStep ==
    ASSUME HeapUse, ElementsDivide, IInv, ElementInv, [Next]_vars
    PROVE  ElementInv'
<1>1. ASSUME NEW r, StartScan(r), HugePage % r.elem = 0
      PROVE  ElementInv'
  <2>1. req' = r /\ UNCHANGED live
    BY <1>1 DEF StartScan
  <2>. QED
    BY <1>1, <2>1 DEF ElementInv, ElementsContiguous
<1>2. CASE AllocAligned
  <2>1. PICK size \in Sizes, align \in Alignments :
            StartScan([size |-> size, count |-> RoundToPages(size), elem |-> PageSize,
                       align |-> align])
    BY <1>2 DEF AllocAligned
  <2>. QED
    BY <1>1, <2>1, HeapAssumption
<1>3. CASE AllocArray
  <2>1. PICK a \in Arrays :
            StartScan([size |-> Total(a), count |-> a.count, elem |-> a.elem,
                       align |-> PageSize])
    BY <1>3 DEF AllocArray
  <2>. QED
    BY <1>1, <2>1 DEF ElementsDivide
<1>4. CASE ScanTake
  <2>1. /\ pc = "scan" /\ cur # Nil /\ ~NeedsGap(cur) /\ pc' = "idle"
        /\ live' = live \cup {[ptr |-> cur + req.align, req |-> req]}
    BY <1>4 DEF ScanTake
  <2>2. Sane(req) /\ cur \in Blocks
    BY <2>1 DEF IInv, LoopInv
  <2>3. cur \in Nat /\ req.align = PageSize /\ HugePage % req.elem = 0
    BY <2>1, <2>2, BlockAddresses DEF IInv, Sane, ElementInv
  <2>4. PICK new : new = [ptr |-> cur + PageSize, req |-> req]
    OBVIOUS
  <2>5. new.ptr = cur + PageSize /\ new.req = req /\ live' = live \cup {new}
    BY <2>1, <2>3, <2>4
  <2>6. Contiguous(new)
    BY <2>1, <2>2, <2>3, <2>5, TakenContiguous
  <2>7. \A a \in live : Contiguous(a)
    BY DEF ElementInv, ElementsContiguous, Contiguous
  <2>8. \A a \in live' : Contiguous(a)
    BY <2>5, <2>6, <2>7
  <2>. QED
    BY <2>1, <2>8 DEF ElementInv, ElementsContiguous, Contiguous
<1>5. CASE \E a \in live : BlockFree(a)
  BY <1>5 DEF BlockFree, ElementInv, ElementsContiguous
<1>6. CASE ScanSkip \/ ScanGap \/ ScanFail \/ Coalesce \/ UNCHANGED vars
  BY <1>6 DEF ScanSkip, ScanGap, ScanFail, Coalesce, CoalesceMerge, CoalesceStep, CoalesceDone,
              vars, ElementInv, ElementsContiguous
<1>. QED
  BY <1>2, <1>3, <1>4, <1>5, <1>6 DEF Next, Scan

\* No element crosses a hugepage as long as its size divides one: the gap is
\* right even where the difference it is computed from wraps below zero.
THEOREM HeapElementsContiguous ==
    ASSUME HeapUse, ElementsDivide
    PROVE  Spec => []ElementsContiguous
<1>1. Init => ElementInv
  BY DEF Init, ElementInv, ElementsContiguous
<1>2. IInv /\ ElementInv /\ [Next]_vars => ElementInv'
  BY ElementStep
<1>3. ElementInv => ElementsContiguous
  BY DEF ElementInv
<1>. QED
  BY <1>1, <1>2, <1>3, HeapInvariant, PTL DEF Spec

-----------------------------------------------------------------------------
(***************************************************************************)
(* The PRP builders on the heap.                                           *)
(***************************************************************************)
Facts == INSTANCE NvmePrpsProofs

\* The lemmas are about the builders used here.
LEMMA SameContig ==
    ASSUME NEW v2p, NEW chunk, NEW dbuf, NEW n
    PROVE  /\ Prps!NPages(dbuf, n) = Facts!NPages(dbuf, n)
           /\ \A dp : Prps!DescribesBuffer(v2p, dp, dbuf, n) = Facts!DescribesBuffer(v2p, dp, dbuf, n)
           /\ Prps!PrepContig(v2p, chunk, dbuf, n) = Facts!PrepContig(v2p, chunk, dbuf, n)
<1>1. /\ \A d : Prps!PageOff(d) = Facts!PageOff(d)
      /\ \A d, m : Prps!NPages(d, m) = Facts!NPages(d, m)
  BY DEF Prps!PageOff, Facts!PageOff, Prps!NPages, Facts!NPages
<1>2. \A vbase : Prps!StridesLeft(chunk, vbase) = Facts!StridesLeft(chunk, vbase)
  BY DEF Prps!StridesLeft, Facts!StridesLeft
<1>3. Prps!FirstPage(v2p, chunk, dbuf) = Facts!FirstPage(v2p, chunk, dbuf)
  BY <1>1, <1>2 DEF Prps!FirstPage, Facts!FirstPage
<1>4. \A page, at : Prps!NextPage(v2p, chunk, page, at) = Facts!NextPage(v2p, chunk, page, at)
  BY DEF Prps!NextPage, Facts!NextPage
<1>5. Prps!Pages(v2p, chunk, dbuf, n) = Facts!Pages(v2p, chunk, dbuf, n)
  BY <1>1, <1>3, <1>4 DEF Prps!Pages, Facts!Pages
<1>6. Prps!PagePhys(v2p, chunk, dbuf, n) = Facts!PagePhys(v2p, chunk, dbuf, n)
  BY <1>1, <1>5 DEF Prps!PagePhys, Facts!PagePhys
<1>7. Prps!PrepContig(v2p, chunk, dbuf, n) = Facts!PrepContig(v2p, chunk, dbuf, n)
  BY <1>1, <1>6 DEF Prps!PrepContig, Facts!PrepContig, Prps!DataPointer, Facts!DataPointer,
                    Prps!Abort, Facts!Abort, Prps!Unset, Facts!Unset,
                    Prps!ListAddr, Facts!ListAddr
<1>8. \A dp, k : Prps!DeviceByte(dp, n, k) = Facts!DeviceByte(dp, n, k)
  BY DEF Prps!DeviceByte, Facts!DeviceByte
<1>9. \A dp : Prps!DescribesBuffer(v2p, dp, dbuf, n) = Facts!DescribesBuffer(v2p, dp, dbuf, n)
  BY <1>8 DEF Prps!DescribesBuffer, Facts!DescribesBuffer
<1>. QED
  BY <1>1, <1>7, <1>9

LEMMA SameIov ==
    ASSUME NEW v2p, NEW dvec
    PROVE  /\ \A dp : Prps!DescribesIov(v2p, dp, dvec) = Facts!DescribesIov(v2p, dp, dvec)
           /\ Prps!PrepIov(v2p, dvec) = Facts!PrepIov(v2p, dvec)
<1>1. \A i : Prps!SegmentPages(v2p, dvec, i) = Facts!SegmentPages(v2p, dvec, i)
  BY DEF Prps!SegmentPages, Facts!SegmentPages, Prps!Ceil, Facts!Ceil
<1>2. Prps!IovEntries(v2p, dvec) = Facts!IovEntries(v2p, dvec)
  <2>1. \A seqs : Prps!FlattenSeq(seqs) = Facts!FlattenSeq(seqs)
    BY DEF Prps!FlattenSeq, Facts!FlattenSeq
  <2>2. [i \in DOMAIN dvec |-> Prps!SegmentPages(v2p, dvec, i)]
            = [i \in DOMAIN dvec |-> Facts!SegmentPages(v2p, dvec, i)]
    BY <1>1
  <2>. QED
    BY <2>1, <2>2 DEF Prps!IovEntries, Facts!IovEntries
<1>3. Prps!PrepIov(v2p, dvec) = Facts!PrepIov(v2p, dvec)
  BY <1>2 DEF Prps!PrepIov, Facts!PrepIov, Prps!DataPointer, Facts!DataPointer,
              Prps!Prp2OfList, Facts!Prp2OfList, Prps!Unset, Facts!Unset,
              Prps!ListAddr, Facts!ListAddr
<1>4. Prps!Before(dvec) = Facts!Before(dvec)
  BY DEF Prps!Before, Facts!Before
<1>5. /\ Prps!IovLen(dvec) = Facts!IovLen(dvec)
      /\ \A k : Prps!IovByte(dvec, k) = Facts!IovByte(dvec, k)
  BY <1>4 DEF Prps!IovLen, Facts!IovLen, Prps!IovByte, Facts!IovByte
<1>6. \A dp, n, k : Prps!DeviceByte(dp, n, k) = Facts!DeviceByte(dp, n, k)
  BY DEF Prps!DeviceByte, Facts!DeviceByte
<1>7. \A dp : Prps!DescribesIov(v2p, dp, dvec) = Facts!DescribesIov(v2p, dp, dvec)
  BY <1>5, <1>6 DEF Prps!DescribesIov, Facts!DescribesIov
<1>. QED
  BY <1>3, <1>7

LEMMA MultipleOfMultiple ==
    ASSUME NEW g \in Nat \ {0}, NEW h \in Nat \ {0}, h % g = 0, NEW a \in Nat, a % h = 0
    PROVE  a % g = 0
<1>1. PICK u \in Nat : h = g * u
  <2>1. h = g * (h \div g) /\ h \div g \in Nat
    BY SMTT(30)
  <2>. QED
    BY <2>1
<1>2. PICK v \in Nat : a = h * v
  <2>1. a = h * (a \div h) /\ a \div h \in Nat
    BY SMTT(30)
  <2>. QED
    BY <2>1
<1>3. a = g * (u * v) /\ u * v \in Int
  BY <1>1, <1>2
<1>4. PICK w \in Int : w = u * v
  BY <1>3
<1>5. g * w <= a /\ a < g * w + g
  BY <1>3, <1>4
<1>6. a = g * (a \div g) + (a % g) /\ a % g \in 0 .. g - 1 /\ a \div g \in Int
  OBVIOUS
<1>7. a \div g = w
  BY <1>4, <1>5, QuotientIs
<1>. QED
  BY <1>3, <1>4, <1>6, <1>7

\* The translation is linear within a hugepage.
LEMMA HeapLinear ==
    ASSUME NEW lo \in Nat, NEW hi \in Int, hi < HeapSize
    PROVE  Facts!Linear(V2P, HugePage, lo, hi)
<1>1. Facts!Layout(HugePage)
  BY Sizings, HeapAssumption DEF Facts!Layout
<1>2. ASSUME NEW a \in lo .. hi
      PROVE  /\ PhysLut[(a \div HugePage) + 1] \in Nat
             /\ PhysLut[(a \div HugePage) + 1] % PageSize = 0
             /\ V2P[a] = PhysLut[(a \div HugePage) + 1] + (a % HugePage)
  <2>1. a \in 0 .. HeapSize - 1
    BY Sizings
  <2>2. V2P[a] = PhysLut[(a \div HugePage) + 1] + (a % HugePage)
    BY <2>1 DEF V2P
  <2>3. PICK h \in Int : h = (a \div HugePage) + 1 /\ h \in 1 .. NHuge
    <3>. DEFINE q == a \div HugePage
    <3>1. q \in Nat /\ HugePage * q <= a
      BY <2>1, HeapAssumption, Sizings
    <3>. HIDE DEF q
    <3>2. q < NHuge
      <4>1. CASE NHuge <= q
        <5>1. HugePage * NHuge <= HugePage * q /\ HugePage * NHuge \in Int
                  /\ HugePage * q \in Int
          BY <3>1, <4>1, HeapAssumption, MulSteps
        <5>2. HeapSize = HugePage * NHuge
          BY HeapAssumption DEF HeapSize
        <5>. QED
          BY <2>1, <3>1, <5>1, <5>2, Sizings
      <4>. QED
        BY <3>1, <4>1, HeapAssumption
    <3>. QED
      BY <3>1, <3>2, HeapAssumption DEF q
  <2>4. PhysLut[h] \in Nat /\ PhysLut[h] % HugePage = 0
    BY <2>3, LutAssumption
  <2>5. PhysLut[h] % PageSize = 0
    BY <2>4, HeapAssumption, Sizings, MultipleOfMultiple
  <2>. QED
    BY <2>2, <2>3, <2>4, <2>5
<1>. QED
  BY <1>1, <1>2, Facts!LutLinear

LEMMA HeapBuffer ==
    ASSUME IInv, NEW a \in live, NEW p \in Parts(a)
    PROVE  /\ a.ptr + p[1] \in Nat /\ p[2] \in Nat \ {0}
           /\ a.ptr + p[1] + p[2] <= HeapSize
<1>1. /\ a.ptr \in Nat /\ Total(a.req) \in Nat /\ a.ptr + Total(a.req) <= End(HeaderOf(a))
      /\ End(HeaderOf(a)) \in Nat /\ End(HeaderOf(a)) <= HeapSize
  BY AllocationFacts
<1>2. /\ p[1] \in 0 .. Total(a.req) - 1 /\ p[2] \in 1 .. Total(a.req)
      /\ p[1] + p[2] <= Total(a.req)
  BY DEF Parts
<1>. QED
  BY <1>1, <1>2, Sizings

LEMMA HeapSegment ==
    ASSUME IInv, NEW a \in live, NEW s \in PageParts(a)
    PROVE  /\ s \in Facts!Segment /\ s.base % PageSize = 0
           /\ s.base \in Nat /\ s.len \in Nat \ {0} /\ s.base + s.len <= HeapSize
<1>1. PICK p \in Parts(a) : /\ s = [base |-> a.ptr + p[1], len |-> p[2]]
                            /\ (a.ptr + p[1]) % PageSize = 0
  BY DEF PageParts
<1>2. /\ a.ptr + p[1] \in Nat /\ p[2] \in Nat \ {0}
      /\ a.ptr + p[1] + p[2] <= HeapSize
  BY HeapBuffer
<1>. QED
  BY <1>1, <1>2 DEF Facts!Segment

LEMMA HeapIovec ==
    ASSUME IInv, NEW dvec \in Iovecs
    PROVE  Facts!PagedIov(dvec) /\ Facts!LinearIov(V2P, dvec)
<1>1. PICK a \in live, b \in live :
          dvec \in {<<s, t>> : s \in {x \in PageParts(a) : WholePages(x)}, t \in PageParts(b)}
  BY DEF Iovecs
<1>2. PICK s \in PageParts(a), t \in PageParts(b) : WholePages(s) /\ dvec = <<s, t>>
  BY <1>1
<1>3. /\ s \in Facts!Segment /\ s.base % PageSize = 0
      /\ s.base \in Nat /\ s.len \in Nat \ {0} /\ s.base + s.len <= HeapSize
  BY HeapSegment
<1>4. /\ t \in Facts!Segment /\ t.base % PageSize = 0
      /\ t.base \in Nat /\ t.len \in Nat \ {0} /\ t.base + t.len <= HeapSize
  BY HeapSegment
<1>5. dvec \in Seq(Facts!Segment) /\ Len(dvec) = 2 /\ dvec[1] = s /\ dvec[2] = t
  BY <1>2, <1>3, <1>4
<1>6. Facts!PagedIov(dvec)
  <2>1. \A i \in 1 .. 2 : dvec[i].base % PageSize = 0
    BY <1>3, <1>4, <1>5
  <2>2. \A i \in 1 .. 2 - 1 : dvec[i].len % PageSize = 0
    BY <1>2, <1>5 DEF WholePages
  <2>. QED
    BY <1>5, <2>1, <2>2 DEF Facts!PagedIov
<1>7. ASSUME NEW r, r.base \in Nat, r.len \in Nat \ {0}, r.base + r.len <= HeapSize
      PROVE  Facts!Linear(V2P, PageSize, r.base, r.base + r.len - 1)
  <2>1. PICK lo \in Nat : lo = r.base
    BY <1>7
  <2>2. PICK hi \in Int : hi = r.base + r.len - 1 /\ hi < HeapSize
    BY <1>7, Sizings
  <2>3. Facts!Layout(HugePage)
    BY Sizings, HeapAssumption DEF Facts!Layout
  <2>4. Facts!Linear(V2P, HugePage, lo, hi)
    BY <2>1, <2>2, HeapLinear
  <2>5. Facts!Linear(V2P, PageSize, lo, hi)
    BY <2>3, <2>4, Facts!LinearPages
  <2>. QED
    BY <2>1, <2>2, <2>5
<1>8. \A i \in 1 .. 2 : Facts!Linear(V2P, PageSize, dvec[i].base, dvec[i].base + dvec[i].len - 1)
  BY <1>3, <1>4, <1>5, <1>7
<1>. QED
  BY <1>5, <1>6, <1>8 DEF Facts!LinearIov

\* Whatever part of an allocation a command is prepared for, the controller
\* follows the entries to exactly its bytes, in any arrangement of the
\* hugepages in physical memory; the same for an iovec.
THEOREM HeapPrpsDescribeBuffers ==
    ASSUME HeapUse
    PROVE  Spec => []PrpsDescribeBuffers
<1>1. IInv => PrpsDescribeBuffers
  <2>. SUFFICES ASSUME IInv
                PROVE  PrpsDescribeBuffers
    OBVIOUS
  <2>1. ASSUME NEW a \in live, NEW p \in Parts(a),
               Prps!NPages(a.ptr + p[1], p[2]) <= 1 + PrpListLen
        PROVE  Prps!DescribesBuffer(V2P, Prps!PrepContig(V2P, HugePage, a.ptr + p[1], p[2]),
                                    a.ptr + p[1], p[2])
    <3>1. PICK d \in Nat : d = a.ptr + p[1]
      BY HeapBuffer
    <3>2. PICK n \in Nat \ {0} : n = p[2]
      BY HeapBuffer
    <3>3. d + n <= HeapSize
      BY <3>1, <3>2, HeapBuffer
    <3>4. PICK hi \in Int : hi = d + n - 1 /\ hi < HeapSize
      BY <3>3, Sizings
    <3>5. Facts!Linear(V2P, HugePage, d, d + n - 1)
      BY <3>4, HeapLinear
    <3>6. Facts!Layout(HugePage)
      BY Sizings, HeapAssumption DEF Facts!Layout
    <3>7. Facts!NPages(d, n) <= 1 + PrpListLen
      BY <2>1, <3>1, <3>2, SameContig
    <3>8. PrpListLen \in Nat \ {0}
      BY LutAssumption
    <3>9. Facts!DescribesBuffer(V2P, Facts!PrepContig(V2P, HugePage, d, n), d, n)
      BY <3>5, <3>6, <3>7, <3>8, Facts!ContigDescribes
    <3>10. Prps!DescribesBuffer(V2P, Prps!PrepContig(V2P, HugePage, d, n), d, n)
      BY <3>9, SameContig
    <3>. QED
      BY <3>1, <3>2, <3>10
  <2>2. ASSUME NEW dvec \in Iovecs
        PROVE  Prps!DescribesIov(V2P, Prps!PrepIov(V2P, dvec), dvec)
    <3>1. Facts!PagedIov(dvec) /\ Facts!LinearIov(V2P, dvec)
      BY HeapIovec
    <3>2. PageSize \in Nat \ {0}
      BY Sizings
    <3>3. Facts!DescribesIov(V2P, Facts!PrepIov(V2P, dvec), dvec)
      BY <3>1, <3>2, Facts!IovDescribes
    <3>. QED
      BY <3>3, SameIov
  <2>. QED
    BY <2>1, <2>2 DEF PrpsDescribeBuffers
<1>. QED
  BY <1>1, HeapInvariant, PTL
=============================================================================
