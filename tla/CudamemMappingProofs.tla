------------------------ MODULE CudamemMappingProofs ------------------------
(***************************************************************************)
(* Theorems about the registry of GPU buffers for every granularity,       *)
(* capacity, set of ranges, of descriptors and bound on registrations.     *)
(* Commands prepared on registered memory come last: lookups follow from   *)
(* the counts, page by page, and NvmePrpsProofs does the rest.             *)
(***************************************************************************)
EXTENDS CudamemMappingPrps, FiniteSetTheorems, SequenceTheorems, WellFoundedInduction, TLAPS

LEMMA DivMod ==
    ASSUME NEW a \in Nat, NEW g \in Nat \ {0}
    PROVE  /\ a \div g \in Nat
           /\ a % g \in 0 .. g - 1
           /\ a = g * (a \div g) + (a % g)
OBVIOUS

LEMMA MulMono ==
    ASSUME NEW g \in Nat \ {0}, NEW a \in Int, NEW b \in Int
    PROVE  /\ a <= b => g * a <= g * b
           /\ a < b => g * a + g <= g * b
OBVIOUS

LEMMA SmallestNat ==
    ASSUME NEW S \in SUBSET Nat, S # {}
    PROVE  \E x \in S : \A y \in S : x <= y
<1>1. PICK x \in S : \A y \in S : <<y, x>> \notin {p \in Nat \X Nat : p[1] < p[2]}
  <2>1. IsWellFoundedOn({p \in Nat \X Nat : p[1] < p[2]}, Nat)
    BY NatLessThanWellFounded DEF OpToRel
  <2>. QED
    BY <2>1, WFMin
<1>2. \A y \in S : x \in Nat /\ y \in Nat /\ ~(y < x)
  BY <1>1
<1>. QED
  BY <1>2

\* The chunks that the loops visit are those that hold a byte of the range.
LEMMA ChunksOfBytes ==
    ASSUME NEW r \in Ranges, NEW c \in Nat
    PROVE  /\ First(r) \in Nat /\ Count(r) \in Nat \ {0}
           /\ Covers(r, c) <=> First(r) <= c /\ c < First(r) + Count(r)
<1> DEFINE g == Gran
           v == r.vaddr
           s == r.size
           f == First(r)
           k == Count(r)
           m == v % g
           t == m + s + g - 1
           q == t % g
<1>0. /\ g \in Nat \ {0} /\ v \in Nat /\ s \in Nat \ {0}
      /\ f = v \div g /\ k = t \div g
      /\ Covers(r, c) <=> c * g < v + s /\ v < (c + 1) * g
  BY MappingAssumption DEF First, Count, Covers
<1> HIDE DEF g, v, s, f, k
<1>1. f \in Nat /\ m \in 0 .. g - 1 /\ v = g * f + m
  BY <1>0, DivMod
<1>2. t \in Nat /\ t >= g
  BY <1>0, <1>1
<1>3. k \in Nat /\ q \in 0 .. g - 1 /\ t = g * k + q
  <2> HIDE DEF t
  <2>. QED
    BY <1>0, <1>2, DivMod
<1> HIDE DEF m, q, t
<1>4. k # 0
  BY <1>0, <1>2, <1>3
<1>5. v + s = g * f + g * k + q - g + 1
  <2>1. t = m + s + g - 1
    BY DEF t
  <2> DEFINE x == g * f
             y == g * k
  <2>2. /\ x \in Int /\ y \in Int /\ m \in Int /\ q \in Int /\ s \in Int /\ g \in Int
        /\ v = x + m /\ t = y + q
    BY <1>0, <1>1, <1>3
  <2> HIDE DEF x, y
  <2>3. v + s = x + y + q - g + 1
    BY <2>1, <2>2
  <2>. QED
    BY <2>3 DEF x, y
<1>6. g * (f + k) = g * f + g * k /\ c * g = g * c /\ (c + 1) * g = g * c + g
  BY <1>0, <1>1, <1>3
<1>7. ASSUME f <= c, c < f + k PROVE c * g < v + s /\ v < (c + 1) * g
  <2>1. g * c + g <= g * (f + k)
    BY <1>0, <1>1, <1>3, <1>7, MulMono
  <2>2. g * f <= g * c
    BY <1>0, <1>1, <1>7, MulMono
  <2>. QED
    BY <1>0, <1>1, <1>3, <1>5, <1>6, <2>1, <2>2
<1>8. ASSUME c < f PROVE ~(v < (c + 1) * g)
  <2>1. g * c + g <= g * f
    BY <1>0, <1>1, <1>8, MulMono
  <2>. QED
    BY <1>0, <1>1, <1>6, <2>1
<1>9. ASSUME f + k <= c PROVE ~(c * g < v + s)
  <2>1. g * (f + k) <= g * c
    BY <1>0, <1>1, <1>3, <1>9, MulMono
  <2>. QED
    BY <1>0, <1>1, <1>3, <1>5, <1>6, <2>1
<1>. QED
  BY <1>0, <1>1, <1>3, <1>4, <1>7, <1>8, <1>9 DEF f, k

LEMMA RangeFacts ==
    ASSUME NEW r \in Ranges
    PROVE  /\ First(r) \in Nat /\ Behind(r) \in Nat /\ First(r) < Behind(r)
           /\ \A c \in Chunks : Covers(r, c) <=> First(r) <= c /\ c < Behind(r)
<1>1. 0 \in Nat /\ Chunks \subseteq Nat
  BY MappingAssumption DEF Chunks
<1>2. First(r) \in Nat /\ Count(r) \in Nat \ {0}
  BY <1>1, ChunksOfBytes
<1>. QED
  BY <1>1, <1>2, ChunksOfBytes DEF Behind

-----------------------------------------------------------------------------
(***************************************************************************)
(* Registrations that touch a chunk, and how adding and removing one       *)
(* changes their number.                                                   *)
(***************************************************************************)
Covering(l, c) == {i \in DOMAIN l : Covers(l[i], c)}

One(condition) == IF condition THEN 1 ELSE 0

LEMMA CoveringFinite ==
    ASSUME NEW l \in Seq(Ranges), NEW c
    PROVE  /\ IsFiniteSet(Covering(l, c))
           /\ Cardinality(Covering(l, c)) \in Nat
           /\ Cardinality(Covering(l, c)) <= Len(l)
<1>1. IsFiniteSet(1 .. Len(l)) /\ Cardinality(1 .. Len(l)) = Len(l)
  <2>1. Len(l) \in Nat /\ Len(l) \in Int /\ 1 \in Int
    OBVIOUS
  <2>2. /\ IsFiniteSet(1 .. Len(l))
        /\ Cardinality(1 .. Len(l)) = IF 1 > Len(l) THEN 0 ELSE Len(l) - 1 + 1
    BY <2>1, FS_Interval
  <2>. QED
    BY <2>1, <2>2
<1>2. Covering(l, c) \in SUBSET (1 .. Len(l))
  BY DEF Covering
<1>. QED
  BY <1>1, <1>2, FS_Subset, FS_CardinalityType

\* s is l without its k-th registration.
LEMMA CoveringWithout ==
    ASSUME NEW l \in Seq(Ranges), NEW s \in Seq(Ranges), NEW k \in 1 .. Len(l), NEW c,
           Len(s) = Len(l) - 1,
           \A i \in 1 .. Len(s) : s[i] = IF i < k THEN l[i] ELSE l[i + 1]
    PROVE  Cardinality(Covering(l, c)) =
               Cardinality(Covering(s, c)) + One(Covers(l[k], c))
<1> DEFINE S == Covering(s, c)
           T == Covering(l, c) \ {k}
           f == [i \in S |-> IF i < k THEN i ELSE i + 1]
<1>1. S \subseteq 1 .. Len(s) /\ DOMAIN l = 1 .. Len(l) /\ DOMAIN s = 1 .. Len(s)
  BY DEF Covering
<1>2. f \in [S -> T]
  <2>1. ASSUME NEW i \in S PROVE f[i] \in T
    <3>1. i \in 1 .. Len(s) /\ Covers(s[i], c)
      BY DEF Covering
    <3>2. f[i] \in 1 .. Len(l) /\ f[i] # k /\ l[f[i]] = s[i]
      BY <3>1
    <3>. QED
      BY <3>1, <3>2 DEF Covering
  <2>. QED
    BY <2>1
<1>3. \A i, j \in S : f[i] = f[j] => i = j
  BY <1>1
<1>4. \A t \in T : \E i \in S : f[i] = t
  <2>1. TAKE t \in T
  <2>2. t \in 1 .. Len(l) /\ t # k /\ Covers(l[t], c)
    BY DEF Covering
  <2>3. CASE t < k
    <3>1. t \in 1 .. Len(s) /\ s[t] = l[t]
      BY <2>2, <2>3
    <3>2. t \in S /\ f[t] = t
      BY <1>1, <2>2, <2>3, <3>1 DEF Covering
    <3>. QED
      BY <3>2
  <2>4. CASE t > k
    <3>1. t - 1 \in 1 .. Len(s) /\ s[t - 1] = l[t]
      BY <2>2, <2>4
    <3>2. t - 1 \in S /\ f[t - 1] = t
      BY <1>1, <2>2, <2>4, <3>1 DEF Covering
    <3>. QED
      BY <3>2
  <2>. QED
    BY <2>2, <2>3, <2>4
<1>5. f \in Bijection(S, T)
  <2> HIDE DEF S, T, f
  <2>. QED
    BY <1>2, <1>3, <1>4 DEF Bijection, Injection, Surjection, IsInjective
<1>6. Cardinality(T) = Cardinality(S)
  <2> HIDE DEF S, T, f
  <2>1. ExistsBijection(S, T)
    BY <1>5 DEF ExistsBijection
  <2>. QED
    BY <2>1, CoveringFinite, FS_Bijection DEF S
<1>7. Cardinality(T) = IF k \in Covering(l, c) THEN Cardinality(Covering(l, c)) - 1
                       ELSE Cardinality(Covering(l, c))
  BY CoveringFinite, FS_RemoveElement
<1>8. k \in Covering(l, c) <=> Covers(l[k], c)
  BY DEF Covering
<1>. QED
  <2> HIDE DEF S, T, f
  <2>. QED
    BY <1>6, <1>7, <1>8, CoveringFinite DEF One, S

LEMMA CoveringPrepend ==
    ASSUME NEW l \in Seq(Ranges), NEW r \in Ranges, NEW c
    PROVE  /\ <<r>> \o l \in Seq(Ranges)
           /\ Len(<<r>> \o l) = Len(l) + 1
           /\ \A i \in DOMAIN (<<r>> \o l) :
                 (<<r>> \o l)[i] = IF i = 1 THEN r ELSE l[i - 1]
           /\ Cardinality(Covering(<<r>> \o l, c)) =
                 Cardinality(Covering(l, c)) + One(Covers(r, c))
<1> DEFINE s == <<r>> \o l
<1>1. /\ s \in Seq(Ranges)
      /\ Len(s) = Len(l) + 1
      /\ \A i \in 1 .. Len(l) + 1 : s[i] = IF i = 1 THEN r ELSE l[i - 1]
  <2>1. <<r>> \in Seq(Ranges) /\ Len(<<r>>) = 1 /\ <<r>>[1] = r
    OBVIOUS
  <2>2. /\ <<r>> \o l \in Seq(Ranges)
        /\ Len(<<r>> \o l) = 1 + Len(l)
        /\ \A i \in 1 .. 1 + Len(l) : (<<r>> \o l)[i] = IF i <= 1 THEN <<r>>[i] ELSE l[i - 1]
    BY <2>1, ConcatProperties
  <2>. QED
    BY <2>1, <2>2
<1> HIDE DEF s
<1>2. Cardinality(Covering(s, c)) = Cardinality(Covering(l, c)) + One(Covers(s[1], c))
  <2>1. 1 \in 1 .. Len(s) /\ Len(l) = Len(s) - 1
    BY <1>1
  <2>2. \A i \in 1 .. Len(l) : l[i] = IF i < 1 THEN s[i] ELSE s[i + 1]
    BY <1>1
  <2>. QED
    BY <1>1, <2>1, <2>2, CoveringWithout
<1>3. s[1] = r /\ DOMAIN s = 1 .. Len(l) + 1
  BY <1>1
<1>. QED
  BY <1>1, <1>2, <1>3 DEF s

LEMMA CoveringRemoveAt ==
    ASSUME NEW l \in Seq(Ranges), NEW k \in 1 .. Len(l), NEW c
    PROVE  /\ RemoveAt(l, k) \in Seq(Ranges)
           /\ Len(RemoveAt(l, k)) = Len(l) - 1
           /\ \A i \in DOMAIN RemoveAt(l, k) :
                 RemoveAt(l, k)[i] = IF i < k THEN l[i] ELSE l[i + 1]
           /\ Cardinality(Covering(l, c)) =
                 Cardinality(Covering(RemoveAt(l, k), c)) + One(Covers(l[k], c))
<1> DEFINE a == SubSeq(l, 1, k - 1)
           b == SubSeq(l, k + 1, Len(l))
           s == RemoveAt(l, k)
<1>0. Len(l) \in Nat /\ \A i \in 1 .. Len(l) : l[i] \in Ranges
  OBVIOUS
<1>1. /\ a \in Seq(Ranges) /\ Len(a) = k - 1
      /\ \A i \in 1 .. k - 1 : a[i] = l[i]
  <2>1. /\ a \in Seq(Ranges)
        /\ Len(a) = IF 1 <= k - 1 THEN k - 1 - 1 + 1 ELSE 0
        /\ \A i \in 1 .. k - 1 - 1 + 1 : a[i] = l[1 + i - 1]
    BY <1>0, SubSeqProperties
  <2> HIDE DEF a
  <2>2. k - 1 - 1 + 1 = k - 1 /\ \A i \in 1 .. k - 1 : 1 + i - 1 = i
    OBVIOUS
  <2>. QED
    BY <2>1, <2>2
<1>2. /\ b \in Seq(Ranges) /\ Len(b) = Len(l) - k
      /\ \A i \in 1 .. Len(l) - k : b[i] = l[i + k]
  <2>1. /\ b \in Seq(Ranges)
        /\ Len(b) = IF k + 1 <= Len(l) THEN Len(l) - (k + 1) + 1 ELSE 0
        /\ \A i \in 1 .. Len(l) - (k + 1) + 1 : b[i] = l[(k + 1) + i - 1]
    BY <1>0, SubSeqProperties
  <2> HIDE DEF b
  <2>2. Len(l) - (k + 1) + 1 = Len(l) - k
    BY <1>0
  <2>3. Len(b) = Len(l) - k
    BY <1>0, <2>1
  <2>4. ASSUME NEW i \in 1 .. Len(l) - k PROVE b[i] = l[i + k]
    <3>1. (k + 1) + i - 1 = i + k
      BY <1>0
    <3>. QED
      BY <2>1, <2>2, <3>1
  <2>. QED
    BY <2>1, <2>3, <2>4
<1>3. s = a \o b
  BY DEF RemoveAt
<1> HIDE DEF a, b, s
<1>4. /\ s \in Seq(Ranges)
      /\ Len(s) = Len(a) + Len(b)
      /\ \A i \in 1 .. Len(a) + Len(b) : s[i] = IF i <= Len(a) THEN a[i] ELSE b[i - Len(a)]
  BY <1>1, <1>2, <1>3, ConcatProperties
<1>5. Len(s) = Len(l) - 1
  BY <1>0, <1>1, <1>2, <1>4
<1>6. \A i \in 1 .. Len(s) : s[i] = IF i < k THEN l[i] ELSE l[i + 1]
  <2>1. TAKE i \in 1 .. Len(s)
  <2>2. CASE i < k
    BY <1>0, <1>1, <1>2, <1>4, <2>2
  <2>3. CASE i >= k
    <3>1. s[i] = b[i - (k - 1)] /\ i - (k - 1) \in 1 .. Len(l) - k
      BY <1>0, <1>1, <1>2, <1>4, <1>5, <2>3
    <3>2. b[i - (k - 1)] = l[(i - (k - 1)) + k] /\ (i - (k - 1)) + k = i + 1
      BY <1>2, <3>1
    <3>. QED
      BY <2>3, <3>1, <3>2
  <2>. QED
    BY <2>2, <2>3
<1>7. Cardinality(Covering(l, c)) = Cardinality(Covering(s, c)) + One(Covers(l[k], c))
  BY <1>4, <1>5, <1>6, CoveringWithout
<1>8. DOMAIN s = 1 .. Len(s)
  BY <1>4
<1>. QED
  BY <1>4, <1>5, <1>6, <1>7, <1>8 DEF s

LEMMA CoveringTail ==
    ASSUME NEW l \in Seq(Ranges), l # <<>>, NEW c
    PROVE  /\ Tail(l) \in Seq(Ranges)
           /\ Len(Tail(l)) = Len(l) - 1
           /\ \A i \in DOMAIN Tail(l) : Tail(l)[i] = l[i + 1]
           /\ Cardinality(Covering(l, c)) =
                 Cardinality(Covering(Tail(l), c)) + One(Covers(Head(l), c))
<1> DEFINE s == Tail(l)
<1>1. /\ s \in Seq(Ranges) /\ Len(s) = Len(l) - 1
      /\ \A i \in 1 .. Len(s) : s[i] = l[i + 1]
      /\ Head(l) = l[1] /\ 1 \in 1 .. Len(l)
  BY HeadTailProperties
<1>2. DOMAIN s = 1 .. Len(s)
  BY <1>1
<1> HIDE DEF s
<1>3. \A i \in 1 .. Len(s) : s[i] = IF i < 1 THEN l[i] ELSE l[i + 1]
  BY <1>1
<1>4. Cardinality(Covering(l, c)) = Cardinality(Covering(s, c)) + One(Covers(l[1], c))
  BY <1>1, <1>3, CoveringWithout
<1>. QED
  BY <1>1, <1>2, <1>4 DEF s

LEMMA CoveringMembers ==
    ASSUME NEW l \in Seq(Ranges), NEW c, NEW i \in DOMAIN l, Covers(l[i], c)
    PROVE  /\ Cardinality(Covering(l, c)) >= 1
           /\ \A k \in DOMAIN l \ {i} : Covers(l[k], c) => Cardinality(Covering(l, c)) >= 2
<1> DEFINE S == Covering(l, c)
<1>1. IsFiniteSet(S) /\ Cardinality(S) \in Nat /\ i \in S
  BY CoveringFinite DEF Covering
<1>2. ASSUME NEW k \in DOMAIN l \ {i}, Covers(l[k], c) PROVE k \in S \ {i}
  BY <1>2 DEF Covering
<1> HIDE DEF S
<1>3. /\ IsFiniteSet(S \ {i}) /\ Cardinality(S \ {i}) = Cardinality(S) - 1
      /\ Cardinality(S \ {i}) \in Nat
  BY <1>1, FS_RemoveElement, FS_CardinalityType
<1>4. ASSUME S \ {i} # {} PROVE Cardinality(S \ {i}) # 0
  BY <1>3, <1>4, FS_EmptySet
<1>. QED
  BY <1>1, <1>2, <1>3, <1>4 DEF S

-----------------------------------------------------------------------------
(***************************************************************************)
(* What the model chooses: the lowest free descriptor, an address for an   *)
(* attachment, the first registration with an address.                     *)
(***************************************************************************)
LEMMA LowestFreeFacts ==
    ASSUME fds \subseteq Fds, fds # Fds
    PROVE  LowestFree \in Fds \ fds
<1>1. Fds \ fds \in SUBSET Nat /\ Fds \ fds # {}
  BY MappingAssumption
<1>2. \E f \in Fds \ fds : \A g \in Fds \ fds : f <= g
  BY <1>1, SmallestNat
<1>. QED
  BY <1>2 DEF LowestFree

LEMMA IovaType ==
    ASSUME NEW fd \in Fds, NEW c \in Chunks
    PROVE  Iova(fd, c) \in Nat
<1>1. fd \in Nat /\ c \in Nat /\ NChunks \in Nat /\ Gran \in Nat
  BY MappingAssumption DEF Chunks
<1>2. fd * NChunks \in Nat
  BY <1>1
<1> DEFINE n == fd * NChunks + c + 1
<1>3. n \in Nat
  BY <1>1, <1>2
<1> HIDE DEF n
<1>4. n * Gran \in Nat
  BY <1>1, <1>3
<1>. QED
  BY <1>4 DEF Iova, n

Position(l, va) == CHOOSE i \in DOMAIN l :
                      /\ l[i].vaddr = va
                      /\ \A j \in 1 .. i - 1 : l[j].vaddr # va

LEMMA PositionFacts ==
    ASSUME NEW l \in Seq(Ranges), NEW va, \E i \in DOMAIN l : l[i].vaddr = va
    PROVE  Position(l, va) \in DOMAIN l /\ l[Position(l, va)].vaddr = va
<1> DEFINE S == {i \in DOMAIN l : l[i].vaddr = va}
<1>1. S \in SUBSET Nat /\ S # {} /\ DOMAIN l = 1 .. Len(l) /\ Len(l) \in Nat
  OBVIOUS
<1>2. PICK x \in S : \A y \in S : x <= y
  <2> HIDE DEF S
  <2>. QED
    BY <1>1, SmallestNat
<1>3. \A j \in 1 .. x - 1 : j \in DOMAIN l /\ ~(x <= j)
  BY <1>1
<1>4. \A j \in 1 .. x - 1 : l[j].vaddr # va
  BY <1>2, <1>3
<1>5. \E i \in DOMAIN l : l[i].vaddr = va /\ \A j \in 1 .. i - 1 : l[j].vaddr # va
  BY <1>4
<1>. QED
  BY <1>5 DEF Position

-----------------------------------------------------------------------------
(***************************************************************************)
(* The inductive invariant.  The counts are exact at every step of a loop  *)
(* (Counted); that needs the bounds of the loop under way and, for the     *)
(* calls that take a registration out, that the registration is still the  *)
(* one the list has at that place (Looping).                               *)
(***************************************************************************)
Typed ==
    /\ up \in BOOLEAN
    /\ rc \in [Chunks -> Nat]
    /\ attach \in [Chunks -> Fds \cup {None}]
    /\ phys \in [Chunks -> Nat]
    /\ list \in Seq(Ranges)
    /\ fds \subseteq Fds
    /\ op \in {"idle", "add", "unwind", "remove", "clear", "term"}
    /\ reg \in Ranges \cup {NoReg}
    /\ cur \in 0 .. NChunks /\ end \in 0 .. NChunks

Counted == \A c \in Chunks : rc[c] = Cardinality(Covering(list, c)) + UnderWay(c)

Registered ==
    /\ Len(list) <= MaxRegistrations
    /\ op = "add" => Len(list) < MaxRegistrations
    /\ \A i \in DOMAIN list : Behind(list[i]) <= NChunks
    /\ ~up => list = <<>> /\ op = "idle"

Looping ==
    op # "idle" =>
        /\ reg \in Ranges
        /\ First(reg) <= cur /\ cur <= end /\ end <= Behind(reg) /\ Behind(reg) <= NChunks
        /\ op # "unwind" => end = Behind(reg)
        /\ op = "remove" =>
              /\ Position(list, reg.vaddr) \in DOMAIN list
              /\ list[Position(list, reg.vaddr)] = reg
        /\ op \in {"clear", "term"} => list # <<>> /\ reg = Head(list)

IInv ==
    /\ Typed
    /\ Counted
    /\ Registered
    /\ Looping
    /\ AttachedWhileReferenced

LEMMA IInvInit == Init => IInv
<1> SUFFICES ASSUME Init PROVE IInv
  OBVIOUS
<1>1. MaxRegistrations \in Nat /\ NChunks \in Nat \ {0}
  BY MappingAssumption
<1>2. Typed
  <2>1. rc \in [Chunks -> Nat] /\ attach \in [Chunks -> Fds \cup {None}] /\ phys \in [Chunks -> Nat]
    BY DEF Init
  <2>2. list \in Seq(Ranges) /\ fds \subseteq Fds /\ cur \in 0 .. NChunks /\ end \in 0 .. NChunks
    BY <1>1 DEF Init
  <2>3. /\ up \in BOOLEAN /\ reg \in Ranges \cup {NoReg}
        /\ op \in {"idle", "add", "unwind", "remove", "clear", "term"}
    BY DEF Init
  <2>. QED
    BY <2>1, <2>2, <2>3 DEF Typed
<1>3. Counted
  <2>1. ASSUME NEW c \in Chunks PROVE rc[c] = Cardinality(Covering(list, c)) + UnderWay(c)
    <3>1. Covering(list, c) = {}
      BY DEF Init, Covering
    <3>2. Cardinality({}) = 0
      BY FS_EmptySet
    <3>3. UnderWay(c) = 0 /\ rc[c] = 0
      BY DEF Init, UnderWay
    <3>. QED
      BY <3>1, <3>2, <3>3
  <2>. QED
    BY <2>1 DEF Counted
<1>4. Registered /\ Looping
  BY <1>1 DEF Init, Registered, Looping
<1>5. AttachedWhileReferenced
  BY DEF Init, AttachedWhileReferenced, None
<1>. QED
  BY <1>2, <1>3, <1>4, <1>5 DEF IInv

LEMMA IInvIdle ==
    ASSUME IInv, UNCHANGED vars
    PROVE  IInv'
BY DEF IInv, vars, lutVars, Typed, Counted, Registered, Looping, AttachedWhileReferenced,
       UnderWay

-----------------------------------------------------------------------------
(***************************************************************************)
(* Each action preserves the inductive invariant.                          *)
(***************************************************************************)
\* Nothing is under way before a loop starts, and nothing when it has just
\* started.
LEMMA NothingUnderWay ==
    ASSUME NEW c \in Chunks, Typed, op = "idle" \/ (op # "unwind" /\ cur = First(reg))
    PROVE  UnderWay(c) = 0
<1>1. c \in Int
  BY MappingAssumption DEF Chunks
<1>. QED
  BY <1>1 DEF UnderWay, Typed

LEMMA RegistryInitStep ==
    ASSUME IInv, RegistryInit
    PROVE  IInv'
<1>1. list = <<>> /\ op = "idle"
  BY DEF IInv, Registered, RegistryInit
<1>2. Typed'
  BY DEF IInv, Typed, RegistryInit, None
<1>3. Counted'
  <2>1. ASSUME NEW c \in Chunks
        PROVE  rc'[c] = Cardinality(Covering(list', c)) + UnderWay(c)'
    <3>1. Covering(list', c) = {}
      BY DEF RegistryInit, Covering
    <3>2. Cardinality({}) = 0
      BY FS_EmptySet
    <3>3. UnderWay(c)' = 0 /\ rc'[c] = 0
      BY DEF RegistryInit, UnderWay
    <3>. QED
      BY <3>1, <3>2, <3>3
  <2>. QED
    BY <2>1 DEF Counted
<1>4. Registered' /\ Looping' /\ AttachedWhileReferenced'
  BY <1>1 DEF IInv, Registered, Looping, RegistryInit, AttachedWhileReferenced, None
<1>. QED
  BY <1>2, <1>3, <1>4 DEF IInv

LEMMA AddStartStep ==
    ASSUME IInv, NEW r \in Ranges, AddStart(r)
    PROVE  IInv'
<1>1. First(r) \in Nat /\ Behind(r) \in Nat /\ First(r) < Behind(r) /\ Behind(r) <= NChunks
  BY RangeFacts DEF AddStart
<1>2. NChunks \in Nat
  BY MappingAssumption
<1>3. Typed'
  BY <1>1, <1>2 DEF IInv, Typed, AddStart, lutVars
<1>4. Counted'
  <2>1. ASSUME NEW c \in Chunks PROVE UnderWay(c) = 0 /\ UnderWay(c)' = 0
    <3>1. UnderWay(c) = 0
      BY NothingUnderWay DEF IInv, AddStart
    <3>2. c \in Int
      BY MappingAssumption DEF Chunks
    <3>. QED
      BY <1>1, <3>1, <3>2 DEF AddStart, UnderWay
  <2>. QED
    BY <2>1 DEF IInv, Counted, AddStart, lutVars
<1>5. Registered'
  BY DEF IInv, Registered, AddStart, lutVars
<1>6. Looping'
  BY <1>1 DEF Looping, AddStart
<1>7. AttachedWhileReferenced'
  BY DEF IInv, AttachedWhileReferenced, AddStart, lutVars
<1>. QED
  BY <1>3, <1>4, <1>5, <1>6, <1>7 DEF IInv

\* The numbers of the loop under way.
LEMMA LoopFacts ==
    ASSUME IInv, op # "idle"
    PROVE  /\ up
           /\ reg \in Ranges
           /\ First(reg) \in Nat /\ Behind(reg) \in Nat
           /\ cur \in Nat /\ end \in Nat /\ NChunks \in Nat
           /\ First(reg) <= cur /\ cur <= end /\ end <= Behind(reg) /\ Behind(reg) <= NChunks
           /\ cur < end => cur \in Chunks
           /\ op # "unwind" => end = Behind(reg)
           /\ \A c \in Chunks : c \in Nat /\ (Covers(reg, c) <=> First(reg) <= c /\ c < Behind(reg))
<1>1. reg \in Ranges /\ up
  BY DEF IInv, Typed, Registered, Looping
<1>2. /\ First(reg) \in Nat /\ Behind(reg) \in Nat
      /\ \A c \in Chunks : Covers(reg, c) <=> First(reg) <= c /\ c < Behind(reg)
  BY <1>1, RangeFacts
<1>3. NChunks \in Nat /\ cur \in Nat /\ end \in Nat
  BY MappingAssumption DEF IInv, Typed
<1>. QED
  BY <1>1, <1>2, <1>3 DEF IInv, Looping, Chunks

LEMMA CountedNow ==
    ASSUME IInv, NEW c \in Chunks
    PROVE  /\ rc[c] = Cardinality(Covering(list, c)) + UnderWay(c)
           /\ Cardinality(Covering(list, c)) \in Nat
           /\ Cardinality(Covering(list, c)) <= Len(list)
           /\ rc[c] \in Nat
BY CoveringFinite DEF IInv, Typed, Counted

LEMMA AddSharedStep ==
    ASSUME IInv, AddShared
    PROVE  IInv'
<1>1. /\ op = "add" /\ cur < end /\ op' = op /\ reg' = reg /\ end' = end
      /\ cur' = cur + 1 /\ list' = list
  BY DEF AddShared
<1>2. /\ First(reg) \in Nat /\ cur \in Nat /\ end \in Nat /\ NChunks \in Nat
      /\ First(reg) <= cur /\ end <= NChunks /\ cur \in Chunks /\ Behind(reg) \in Nat
  BY <1>1, LoopFacts
<1>3. Typed'
  BY <1>1, <1>2 DEF IInv, Typed, AddShared
<1>4. Counted'
  <2>1. ASSUME NEW c \in Chunks
        PROVE  rc'[c] = Cardinality(Covering(list', c)) + UnderWay(c)'
    <3>1. c \in Nat
      BY <1>1, LoopFacts
    <3>2. UnderWay(c)' = IF c = cur THEN UnderWay(c) + 1 ELSE UnderWay(c)
      BY <1>1, <1>2, <3>1 DEF UnderWay
    <3>3. rc'[c] = IF c = cur THEN rc[c] + 1 ELSE rc[c]
      BY <1>2 DEF IInv, Typed, AddShared
    <3>4. UnderWay(c) \in Int
      BY <1>1, <1>2, <3>1 DEF UnderWay
    <3>. QED
      BY <1>1, <3>2, <3>3, <3>4, CountedNow
  <2>. QED
    BY <2>1 DEF Counted
<1>5. Registered'
  BY DEF IInv, Registered, AddShared
<1>6. Looping'
  BY <1>1, <1>2 DEF IInv, Looping
<1>7. AttachedWhileReferenced'
  BY <1>2 DEF IInv, Typed, AttachedWhileReferenced, AddShared
<1>. QED
  BY <1>3, <1>4, <1>5, <1>6, <1>7 DEF IInv

LEMMA AddPopulatedStep ==
    ASSUME IInv, AddPopulated
    PROVE  IInv'
<1>1. /\ op = "add" /\ cur < end /\ op' = op /\ reg' = reg /\ end' = end
      /\ cur' = cur + 1 /\ list' = list /\ rc[cur] = 0 /\ rc' = [rc EXCEPT ![cur] = 1]
  BY DEF AddPopulated
<1>2. /\ First(reg) \in Nat /\ cur \in Nat /\ end \in Nat /\ NChunks \in Nat
      /\ First(reg) <= cur /\ end <= NChunks /\ cur \in Chunks /\ Behind(reg) \in Nat
  BY <1>1, LoopFacts
<1> DEFINE fd == LowestFree
<1>3. /\ fd \in Fds \ fds
      /\ fds' = fds \cup {fd}
      /\ attach' = [attach EXCEPT ![cur] = fd]
      /\ phys' = [phys EXCEPT ![cur] = Iova(fd, cur)]
  BY LowestFreeFacts DEF AddPopulated, ChunkPopulate, IInv, Typed
<1>4. Iova(fd, cur) \in Nat /\ fd # None
  BY <1>2, <1>3, IovaType, MappingAssumption DEF None
<1> HIDE DEF fd
<1>5. Typed'
  BY <1>1, <1>2, <1>3, <1>4 DEF IInv, Typed, AddPopulated
<1>6. Counted'
  <2>1. ASSUME NEW c \in Chunks
        PROVE  rc'[c] = Cardinality(Covering(list', c)) + UnderWay(c)'
    <3>1. c \in Nat
      BY <1>1, LoopFacts
    <3>2. UnderWay(c)' = IF c = cur THEN UnderWay(c) + 1 ELSE UnderWay(c)
      BY <1>1, <1>2, <3>1 DEF UnderWay
    <3>3. rc'[c] = IF c = cur THEN rc[c] + 1 ELSE rc[c]
      BY <1>1, <1>2 DEF IInv, Typed
    <3>4. UnderWay(c) \in Int
      BY <1>1, <1>2, <3>1 DEF UnderWay
    <3>. QED
      BY <1>1, <3>2, <3>3, <3>4, CountedNow
  <2>. QED
    BY <2>1 DEF Counted
<1>7. Registered'
  BY DEF IInv, Registered, AddPopulated
<1>8. Looping'
  BY <1>1, <1>2 DEF IInv, Looping
<1>9. AttachedWhileReferenced'
  <2>1. ASSUME NEW c \in Chunks
        PROVE  /\ rc'[c] > 0 <=> attach'[c] # None
               /\ phys'[c] = IF attach'[c] = None THEN 0 ELSE Iova(attach'[c], c)
               /\ attach'[c] # None =>
                     attach'[c] \in fds' /\ \A d \in Chunks \ {c} : attach'[d] # attach'[c]
    <3>1. \A d \in Chunks : attach[d] # None => attach[d] \in fds /\ attach[d] # fd
      BY <1>3 DEF IInv, AttachedWhileReferenced
    <3>2. CASE c = cur
      BY <1>1, <1>2, <1>3, <1>4, <3>1, <3>2 DEF IInv, Typed
    <3>3. CASE c # cur
      BY <1>1, <1>2, <1>3, <1>4, <3>1, <3>3 DEF IInv, Typed, AttachedWhileReferenced
    <3>. QED
      BY <3>2, <3>3
  <2>. QED
    BY <2>1 DEF AttachedWhileReferenced, Iova
<1>. QED
  BY <1>5, <1>6, <1>7, <1>8, <1>9 DEF IInv

LEMMA AddFailedStep ==
    ASSUME IInv, AddFailed
    PROVE  IInv'
<1>1. /\ op = "add" /\ cur < end /\ op' = "unwind" /\ reg' = reg /\ end' = cur
      /\ cur' = First(reg) /\ list' = list /\ rc' = rc /\ attach' = attach /\ phys' = phys
      /\ up' = up
  BY DEF AddFailed, ChunkPopulateFails
<1>2. /\ First(reg) \in Nat /\ cur \in Nat /\ end \in Nat /\ NChunks \in Nat
      /\ First(reg) <= cur /\ end <= NChunks /\ cur \in Chunks
      /\ reg \in Ranges /\ Behind(reg) \in Nat /\ end <= Behind(reg) /\ Behind(reg) <= NChunks
  BY <1>1, LoopFacts
<1>3. fds \subseteq fds' /\ fds' \subseteq Fds
  <2>1. CASE fds' = fds
    BY <2>1 DEF IInv, Typed
  <2>2. CASE fds # Fds /\ fds' = fds \cup {LowestFree}
    BY <2>2, LowestFreeFacts DEF IInv, Typed
  <2>. QED
    BY <2>1, <2>2 DEF AddFailed, ChunkPopulateFails
<1>4. Typed'
  BY <1>1, <1>2, <1>3 DEF IInv, Typed
<1>5. Counted'
  <2>1. ASSUME NEW c \in Chunks PROVE UnderWay(c)' = UnderWay(c)
    BY <1>1, <1>2 DEF UnderWay
  <2>. QED
    BY <1>1, <2>1 DEF IInv, Counted
<1>6. Registered'
  BY <1>1 DEF IInv, Registered
<1>7. Looping'
  BY <1>1, <1>2 DEF Looping
<1>8. AttachedWhileReferenced'
  BY <1>1, <1>3 DEF IInv, AttachedWhileReferenced
<1>. QED
  BY <1>4, <1>5, <1>6, <1>7, <1>8 DEF IInv

LEMMA AddDoneStep ==
    ASSUME IInv, AddDone
    PROVE  IInv'
<1>1. /\ op = "add" /\ cur = end /\ op' = "idle" /\ reg' = reg /\ cur' = cur /\ end' = end
      /\ list' = <<reg>> \o list /\ rc' = rc /\ attach' = attach /\ phys' = phys
      /\ up' = up /\ fds' = fds
  BY DEF AddDone, lutVars
<1>2. /\ reg \in Ranges /\ Behind(reg) \in Nat /\ Behind(reg) <= NChunks /\ cur = Behind(reg)
      /\ up
  BY <1>1, LoopFacts
<1>3. /\ list \in Seq(Ranges) /\ list' \in Seq(Ranges) /\ Len(list') = Len(list) + 1
      /\ \A i \in DOMAIN list' : list'[i] = IF i = 1 THEN reg ELSE list[i - 1]
  BY <1>1, <1>2, CoveringPrepend DEF IInv, Typed
<1>4. Typed'
  BY <1>1, <1>3 DEF IInv, Typed
<1>5. Counted'
  <2>1. ASSUME NEW c \in Chunks
        PROVE  rc'[c] = Cardinality(Covering(list', c)) + UnderWay(c)'
    <3>1. Cardinality(Covering(list', c)) = Cardinality(Covering(list, c)) + One(Covers(reg, c))
      BY <1>1, <1>2, <1>3, CoveringPrepend
    <3>2. UnderWay(c) = One(Covers(reg, c))
      BY <1>1, <1>2, LoopFacts DEF UnderWay, One
    <3>3. UnderWay(c)' = 0
      BY <1>1 DEF UnderWay
    <3>. QED
      BY <1>1, <3>1, <3>2, <3>3, CountedNow DEF One
  <2>. QED
    BY <2>1 DEF Counted
<1>6. Registered'
  <2>1. Len(list) \in Nat /\ Len(list) < MaxRegistrations /\ MaxRegistrations \in Nat
    BY <1>1, <1>3, MappingAssumption DEF IInv, Registered
  <2>2. ASSUME NEW i \in DOMAIN list' PROVE Behind(list'[i]) <= NChunks
    <3>1. DOMAIN list' = 1 .. Len(list) + 1 /\ DOMAIN list = 1 .. Len(list)
      BY <1>3
    <3>2. list'[i] = reg \/ \E j \in DOMAIN list : list'[i] = list[j]
      BY <1>3, <2>1, <3>1
    <3>. QED
      BY <1>2, <3>2 DEF IInv, Registered
  <2>. QED
    BY <1>1, <1>2, <1>3, <2>1, <2>2 DEF Registered
<1>7. Looping' /\ AttachedWhileReferenced'
  BY <1>1 DEF IInv, Looping, AttachedWhileReferenced
<1>. QED
  BY <1>4, <1>5, <1>6, <1>7 DEF IInv

\* The place of the registration that a call other than add works on.
Taken == IF op = "remove" THEN Position(list, reg.vaddr) ELSE 1

LEMMA TakenFacts ==
    ASSUME IInv, op \in {"remove", "clear", "term"}
    PROVE  Taken \in DOMAIN list /\ list[Taken] = reg
<1>1. CASE op = "remove"
  BY <1>1 DEF IInv, Looping, Taken
<1>2. CASE op \in {"clear", "term"}
  <2>1. list \in Seq(Ranges) /\ list # <<>> /\ reg = Head(list)
    BY <1>2 DEF IInv, Typed, Looping
  <2>2. Head(list) = list[1] /\ 1 \in DOMAIN list
    BY <2>1
  <2>. QED
    BY <1>2, <2>1, <2>2 DEF Taken
<1>. QED
  BY <1>1, <1>2

\* No loop takes a count below zero: it finds the chunk counted for what it
\* is about to take.
LEMMA DereferencedIsCounted ==
    ASSUME IInv, Dereferencing
    PROVE  /\ cur \in Chunks /\ rc[cur] \in Nat /\ rc[cur] >= 1
           /\ op = "unwind" => rc[cur] = Cardinality(Covering(list, cur)) + 1
           /\ op # "unwind" => /\ rc[cur] = Cardinality(Covering(list, cur))
                               /\ Covers(reg, cur)
                               /\ Taken \in DOMAIN list /\ list[Taken] = reg
<1>1. op # "idle" /\ op # "add" /\ cur < end
  BY DEF Dereferencing
<1>2. cur \in Chunks /\ cur \in Nat /\ Covers(reg, cur)
  BY <1>1, LoopFacts
<1>3. rc[cur] = Cardinality(Covering(list, cur)) + UnderWay(cur) /\ rc[cur] \in Nat
      /\ Cardinality(Covering(list, cur)) \in Nat
  BY <1>2, CountedNow
<1>4. CASE op = "unwind"
  <2>1. UnderWay(cur) = 1
    BY <1>1, <1>2, <1>4 DEF UnderWay
  <2>. QED
    BY <1>2, <1>3, <1>4, <2>1
<1>5. CASE op \in {"remove", "clear", "term"}
  <2>1. UnderWay(cur) = 0
    BY <1>2, <1>5 DEF UnderWay
  <2>2. Taken \in DOMAIN list /\ list[Taken] = reg
    BY <1>5, TakenFacts
  <2>3. Cardinality(Covering(list, cur)) >= 1
    BY <1>2, <2>2, CoveringMembers DEF IInv, Typed
  <2>. QED
    BY <1>2, <1>3, <1>5, <2>1, <2>2, <2>3
<1>. QED
  BY <1>4, <1>5 DEF Dereferencing

\* The loop takes one from the count of its chunk and moves on.
DerefCounts ==
    /\ rc' = [rc EXCEPT ![cur] = @ - 1]
    /\ cur' = cur + 1
    /\ UNCHANGED <<up, list, op, reg, end>>

LEMMA DerefCountsStep ==
    ASSUME IInv, Dereferencing, DerefCounts
    PROVE  /\ rc' \in [Chunks -> Nat] /\ cur' \in 0 .. NChunks
           /\ Counted' /\ Registered' /\ Looping'
<1>1. /\ op # "idle" /\ op # "add" /\ cur < end /\ op' = op /\ reg' = reg /\ end' = end
      /\ cur' = cur + 1 /\ list' = list /\ up' = up
  BY DEF Dereferencing, DerefCounts
<1>2. /\ First(reg) \in Nat /\ cur \in Nat /\ end \in Nat /\ NChunks \in Nat
      /\ First(reg) <= cur /\ end <= NChunks /\ cur \in Chunks /\ Behind(reg) \in Nat
      /\ end <= Behind(reg)
  BY <1>1, LoopFacts
<1>3. rc[cur] \in Nat /\ rc[cur] >= 1 /\ rc \in [Chunks -> Nat]
  BY DereferencedIsCounted DEF IInv, Typed
<1>4. rc' \in [Chunks -> Nat] /\ cur' \in 0 .. NChunks
  BY <1>1, <1>2, <1>3 DEF DerefCounts
<1>5. Counted'
  <2>1. ASSUME NEW c \in Chunks
        PROVE  rc'[c] = Cardinality(Covering(list', c)) + UnderWay(c)'
    <3>1. c \in Nat
      BY <1>1, LoopFacts
    <3>2. UnderWay(c)' = IF c = cur THEN UnderWay(c) - 1 ELSE UnderWay(c)
      BY <1>1, <1>2, <3>1 DEF UnderWay, Dereferencing
    <3>3. rc'[c] = IF c = cur THEN rc[c] - 1 ELSE rc[c]
      BY <1>2, <1>3 DEF DerefCounts
    <3>4. UnderWay(c) \in Int
      BY <1>1, <1>2, <3>1 DEF UnderWay
    <3>. QED
      BY <1>1, <3>2, <3>3, <3>4, CountedNow
  <2>. QED
    BY <2>1 DEF Counted
<1>6. Registered' /\ Looping'
  BY <1>1, <1>2 DEF IInv, Registered, Looping
<1>. QED
  BY <1>4, <1>5, <1>6

LEMMA DerefSharedStep ==
    ASSUME IInv, DerefShared
    PROVE  IInv'
<1>1. Dereferencing /\ rc[cur] # 1 /\ UNCHANGED <<attach, phys, fds>>
  BY DEF DerefShared
<1>2. cur \in Chunks /\ rc[cur] \in Nat /\ rc[cur] >= 2
  BY <1>1, DereferencedIsCounted
<1>3. DerefCounts
  <2> DEFINE left == IF rc[cur] = 0 THEN 0 ELSE rc[cur] - 1
  <2>1. left = rc[cur] - 1
    BY <1>2
  <2>2. rc' = [rc EXCEPT ![cur] = left]
    BY DEF DerefShared
  <2> HIDE DEF left
  <2>3. rc' = [rc EXCEPT ![cur] = rc[cur] - 1]
    BY <2>1, <2>2
  <2>. QED
    BY <2>3 DEF DerefShared, DerefCounts
<1>4. rc' \in [Chunks -> Nat] /\ cur' \in 0 .. NChunks /\ Counted' /\ Registered' /\ Looping'
  BY <1>1, <1>3, DerefCountsStep
<1>5. Typed'
  BY <1>1, <1>3, <1>4 DEF IInv, Typed, DerefCounts
<1>6. AttachedWhileReferenced'
  BY <1>1, <1>2, <1>3 DEF IInv, Typed, AttachedWhileReferenced, DerefCounts
<1>. QED
  BY <1>4, <1>5, <1>6 DEF IInv

LEMMA DerefLastStep ==
    ASSUME IInv, DerefLast
    PROVE  IInv'
<1>1. /\ Dereferencing /\ rc[cur] = 1 /\ rc' = [rc EXCEPT ![cur] = 0]
      /\ attach' = [attach EXCEPT ![cur] = None] /\ phys' = [phys EXCEPT ![cur] = 0]
      /\ fds \ {attach[cur]} \subseteq fds' /\ fds' \subseteq fds
  BY DEF DerefLast, Detached
<1>2. cur \in Chunks
  BY <1>1, DereferencedIsCounted
<1>3. DerefCounts
  BY <1>1, <1>2 DEF DerefLast, DerefCounts
<1>4. rc' \in [Chunks -> Nat] /\ cur' \in 0 .. NChunks /\ Counted' /\ Registered' /\ Looping'
  BY <1>1, <1>3, DerefCountsStep
<1>5. Typed'
  BY <1>1, <1>3, <1>4 DEF IInv, Typed, DerefCounts
<1>6. AttachedWhileReferenced'
  <2>1. ASSUME NEW c \in Chunks
        PROVE  /\ rc'[c] > 0 <=> attach'[c] # None
               /\ phys'[c] = IF attach'[c] = None THEN 0 ELSE Iova(attach'[c], c)
               /\ attach'[c] # None =>
                     attach'[c] \in fds' /\ \A d \in Chunks \ {c} : attach'[d] # attach'[c]
    <3>1. CASE c = cur
      BY <1>1, <1>2, <3>1 DEF IInv, Typed
    <3>2. CASE c # cur
      BY <1>1, <1>2, <3>2 DEF IInv, Typed, AttachedWhileReferenced
    <3>. QED
      BY <3>1, <3>2
  <2>. QED
    BY <2>1 DEF AttachedWhileReferenced
<1>. QED
  BY <1>4, <1>5, <1>6 DEF IInv

LEMMA UnwindDoneStep ==
    ASSUME IInv, UnwindDone
    PROVE  IInv'
<1>1. /\ op = "unwind" /\ cur = end /\ op' = "idle"
      /\ UNCHANGED <<up, rc, attach, phys, list, fds, reg, cur, end>>
  BY DEF UnwindDone, lutVars
<1>2. Typed' /\ Registered' /\ Looping' /\ AttachedWhileReferenced'
  BY <1>1 DEF IInv, Typed, Registered, Looping, AttachedWhileReferenced
<1>3. Counted'
  <2>1. ASSUME NEW c \in Chunks PROVE UnderWay(c)' = UnderWay(c)
    BY <1>1, LoopFacts DEF UnderWay
  <2>. QED
    BY <1>1, <2>1 DEF IInv, Counted
<1>. QED
  BY <1>2, <1>3 DEF IInv

\* remove and clear turn to a registration that is in the list.
LEMMA WorkBegins ==
    ASSUME IInv, up, NEW r \in Ranges, NEW call \in {"remove", "clear", "term"},
           NEW i \in DOMAIN list, list[i] = r, op = "idle", Work(call, r),
           UNCHANGED <<up, rc, attach, phys, list, fds>>,
           call = "remove" => Position(list, r.vaddr) = i,
           call # "remove" => i = 1
    PROVE  IInv'
<1>1. /\ First(r) \in Nat /\ Behind(r) \in Nat /\ First(r) < Behind(r)
      /\ Behind(r) <= NChunks /\ NChunks \in Nat
  BY RangeFacts, MappingAssumption DEF IInv, Registered
<1>2. op' = call /\ reg' = r /\ cur' = First(r) /\ end' = Behind(r)
  BY DEF Work
<1>3. Typed'
  BY <1>1, <1>2 DEF IInv, Typed
<1>4. Counted'
  <2>1. ASSUME NEW c \in Chunks PROVE UnderWay(c) = 0 /\ UnderWay(c)' = 0
    <3>1. c \in Int
      BY MappingAssumption DEF Chunks
    <3>. QED
      BY <1>1, <1>2, <3>1 DEF UnderWay
  <2>. QED
    BY <2>1 DEF IInv, Counted
<1>5. Registered' /\ AttachedWhileReferenced'
  BY <1>2 DEF IInv, Registered, AttachedWhileReferenced
<1>6. Looping'
  <2>1. list \in Seq(Ranges) /\ list # <<>>
    BY DEF IInv, Typed
  <2>2. call # "remove" => r = Head(list)
    BY <2>1
  <2>. QED
    BY <1>1, <1>2, <2>1, <2>2 DEF Looping
<1>. QED
  BY <1>3, <1>4, <1>5, <1>6 DEF IInv

LEMMA RemoveStartStep ==
    ASSUME IInv, NEW va, RemoveStart(va)
    PROVE  IInv'
<1> DEFINE i == Position(list, va)
<1>1. /\ up /\ op = "idle" /\ Work("remove", list[i])
      /\ UNCHANGED <<up, rc, attach, phys, list, fds>>
  BY DEF RemoveStart, Match, Position, lutVars
<1>2. i \in DOMAIN list /\ list[i].vaddr = va /\ list[i] \in Ranges
  BY PositionFacts DEF RemoveStart, IInv, Typed
<1> HIDE DEF i
<1>3. Position(list, list[i].vaddr) = i
  BY <1>2 DEF i
<1>. QED
  BY <1>1, <1>2, <1>3, WorkBegins

LEMMA RemoveDoneStep ==
    ASSUME IInv, RemoveDone
    PROVE  IInv'
<1> DEFINE k == Position(list, reg.vaddr)
<1>1. /\ op = "remove" /\ cur = end /\ op' = "idle" /\ list' = RemoveAt(list, k)
      /\ UNCHANGED <<up, rc, attach, phys, fds, reg, cur, end>>
  BY DEF RemoveDone, Match, Position, lutVars
<1>2. k \in DOMAIN list /\ list[k] = reg
  BY <1>1 DEF IInv, Looping
<1> HIDE DEF k
<1>3. list \in Seq(Ranges) /\ k \in 1 .. Len(list) /\ up
  BY <1>1, <1>2, LoopFacts DEF IInv, Typed
<1>4. /\ list' \in Seq(Ranges) /\ Len(list') = Len(list) - 1
      /\ \A i \in DOMAIN list' : list'[i] = IF i < k THEN list[i] ELSE list[i + 1]
  BY <1>1, <1>3, CoveringRemoveAt
<1>5. Typed' /\ Looping' /\ AttachedWhileReferenced'
  BY <1>1, <1>4 DEF IInv, Typed, Looping, AttachedWhileReferenced
<1>6. Counted'
  <2>1. ASSUME NEW c \in Chunks
        PROVE  rc'[c] = Cardinality(Covering(list', c)) + UnderWay(c)'
    <3>1. Cardinality(Covering(list, c)) = Cardinality(Covering(list', c)) + One(Covers(reg, c))
      BY <1>1, <1>2, <1>3, CoveringRemoveAt
    <3>2. UnderWay(c) = 0 - One(Covers(reg, c))
      BY <1>1, LoopFacts DEF UnderWay, One
    <3>3. UnderWay(c)' = 0
      BY <1>1 DEF UnderWay
    <3>4. Cardinality(Covering(list', c)) \in Nat
      BY <1>4, CoveringFinite
    <3>. QED
      BY <1>1, <3>1, <3>2, <3>3, <3>4, CountedNow DEF One
  <2>. QED
    BY <2>1 DEF Counted
<1>7. Registered'
  <2>1. /\ Len(list) \in Nat /\ DOMAIN list = 1 .. Len(list)
        /\ DOMAIN list' = 1 .. Len(list) - 1
    BY <1>3, <1>4
  <2>2. ASSUME NEW i \in DOMAIN list' PROVE Behind(list'[i]) <= NChunks
    <3>1. list'[i] = list[i] \/ list'[i] = list[i + 1]
      BY <1>4
    <3>2. i \in DOMAIN list /\ i + 1 \in DOMAIN list
      BY <2>1
    <3>. QED
      BY <3>1, <3>2 DEF IInv, Registered
  <2>3. Len(list') <= MaxRegistrations
    BY <1>4, <2>1, MappingAssumption DEF IInv, Registered
  <2>. QED
    BY <1>1, <1>3, <2>2, <2>3 DEF Registered
<1>. QED
  BY <1>5, <1>6, <1>7 DEF IInv

LEMMA ClearStartStep ==
    ASSUME IInv, NEW call \in {"clear", "term"}, ClearStart(call)
    PROVE  IInv'
<1>1. /\ up /\ op = "idle" /\ Work(call, Head(list)) /\ list # <<>>
      /\ UNCHANGED <<up, rc, attach, phys, list, fds>>
  BY DEF ClearStart, lutVars
<1>2. 1 \in DOMAIN list /\ list[1] = Head(list) /\ list[1] \in Ranges
  BY <1>1 DEF IInv, Typed
<1>. QED
  BY <1>1, <1>2, WorkBegins

LEMMA ClearNextStep ==
    ASSUME IInv, ClearNext
    PROVE  IInv'
<1>1. /\ op \in {"clear", "term"} /\ cur = end /\ list' = Tail(list)
      /\ UNCHANGED <<rc, attach, phys, fds>>
  BY DEF ClearNext, lutVars
<1>2. list # <<>> /\ list \in Seq(Ranges) /\ reg = Head(list) /\ up
  BY <1>1, LoopFacts DEF IInv, Typed, Looping
<1>3. /\ list' \in Seq(Ranges) /\ Len(list') = Len(list) - 1 /\ Len(list) \in Nat
      /\ \A i \in DOMAIN list' : i + 1 \in DOMAIN list /\ list'[i] = list[i + 1]
  BY <1>1, <1>2, CoveringTail
<1>4. \A i \in DOMAIN list' : Behind(list'[i]) <= NChunks
  BY <1>3 DEF IInv, Registered
<1>5. AttachedWhileReferenced'
  BY <1>1 DEF IInv, AttachedWhileReferenced
<1>6. ASSUME NEW c \in Chunks, UnderWay(c)' = 0
      PROVE  rc'[c] = Cardinality(Covering(list', c)) + UnderWay(c)'
  <2>1. Cardinality(Covering(list, c)) = Cardinality(Covering(list', c)) + One(Covers(reg, c))
    BY <1>1, <1>2, CoveringTail
  <2>2. UnderWay(c) = 0 - One(Covers(reg, c))
    BY <1>1, LoopFacts DEF UnderWay, One
  <2>3. Cardinality(Covering(list', c)) \in Nat
    BY <1>3, CoveringFinite
  <2>. QED
    BY <1>1, <1>6, <2>1, <2>2, <2>3, CountedNow DEF One
<1>7. CASE list' = <<>>
  <2>1. op' = "idle" /\ up' \in BOOLEAN /\ UNCHANGED <<reg, cur, end>>
    BY <1>7 DEF ClearNext
  <2>2. Typed' /\ Looping'
    BY <1>1, <1>3, <2>1 DEF IInv, Typed, Looping
  <2>3. Counted'
    BY <1>6, <2>1 DEF Counted, UnderWay
  <2>4. Registered'
    BY <1>3, <1>4, <1>7, <2>1, MappingAssumption DEF IInv, Registered
  <2>. QED
    BY <1>5, <2>2, <2>3, <2>4 DEF IInv
<1>8. CASE list' # <<>>
  <2> DEFINE r == Head(list')
  <2>1. op' = op /\ reg' = r /\ cur' = First(r) /\ end' = Behind(r) /\ up' = up
    BY <1>8 DEF ClearNext, Work
  <2>2. r = list'[1] /\ 1 \in DOMAIN list' /\ r \in Ranges
    BY <1>3, <1>8
  <2> HIDE DEF r
  <2>3. /\ First(r) \in Nat /\ Behind(r) \in Nat /\ First(r) < Behind(r)
        /\ Behind(r) <= NChunks /\ NChunks \in Nat
    BY <1>4, <2>2, RangeFacts, MappingAssumption
  <2>4. Typed'
    BY <1>1, <1>3, <2>1, <2>2, <2>3 DEF IInv, Typed
  <2>5. Counted'
    <3>1. ASSUME NEW c \in Chunks PROVE UnderWay(c)' = 0
      <4>1. c \in Int
        BY MappingAssumption DEF Chunks
      <4>. QED
        BY <1>1, <2>1, <2>3, <4>1 DEF UnderWay
    <3>. QED
      BY <1>6, <3>1 DEF Counted
  <2>6. Registered'
    BY <1>1, <1>2, <1>3, <1>4, <2>1, MappingAssumption DEF IInv, Registered
  <2>7. Looping'
    BY <1>1, <1>8, <2>1, <2>2, <2>3 DEF Looping, r
  <2>. QED
    BY <1>5, <2>4, <2>5, <2>6, <2>7 DEF IInv
<1>. QED
  BY <1>7, <1>8

LEMMA TermEmptyStep ==
    ASSUME IInv, TermEmpty
    PROVE  IInv'
<1>1. /\ list = <<>> /\ op = "idle" /\ up' = FALSE
      /\ UNCHANGED <<rc, attach, phys, list, fds, op, reg, cur, end>>
  BY DEF TermEmpty, lutVars
<1>. QED
  BY <1>1 DEF IInv, Typed, Counted, Registered, Looping, AttachedWhileReferenced, UnderWay

LEMMA IInvNext ==
    ASSUME IInv, [Next]_vars
    PROVE  IInv'
<1>1. CASE RegistryInit
  BY <1>1, RegistryInitStep
<1>2. CASE \E r \in Ranges : AddStart(r)
  BY <1>2, AddStartStep
<1>3. CASE \E r \in Ranges : RemoveStart(r.vaddr)
  BY <1>3, RemoveStartStep
<1>4. CASE ClearStart("clear") \/ ClearStart("term")
  BY <1>4, ClearStartStep
<1>5. CASE TermEmpty
  BY <1>5, TermEmptyStep
<1>6. CASE Step
  BY <1>6, AddSharedStep, AddPopulatedStep, AddFailedStep, AddDoneStep, DerefSharedStep,
     DerefLastStep, UnwindDoneStep, RemoveDoneStep, ClearNextStep DEF Step, Deref
<1>7. CASE UNCHANGED vars
  BY <1>7, IInvIdle
<1>. QED
  BY <1>1, <1>2, <1>3, <1>4, <1>5, <1>6, <1>7 DEF Next

-----------------------------------------------------------------------------
(***************************************************************************)
(* The theorems.                                                           *)
(***************************************************************************)
THEOREM MappingInvariant == Spec => []IInv
BY IInvInit, IInvNext, PTL DEF Spec

\* Every variable keeps its type.  In particular no count leaves the number
\* of registrations there can be, however the ranges overlap, and no loop
\* leaves the tables.
THEOREM MappingTypeCorrect == Spec => []TypeOK
<1>1. ASSUME IInv PROVE TypeOK
  <2>1. ASSUME NEW c \in Chunks PROVE rc[c] \in 0 .. MaxRegistrations + 1
    <3>1. UnderWay(c) \in {-1, 0, 1}
      BY DEF UnderWay
    <3>2. Len(list) \in Nat /\ Len(list) <= MaxRegistrations /\ MaxRegistrations \in Nat
      BY <1>1, MappingAssumption DEF IInv, Typed, Registered
    <3>3. /\ rc[c] = Cardinality(Covering(list, c)) + UnderWay(c) /\ rc[c] \in Nat
          /\ Cardinality(Covering(list, c)) \in Nat /\ Cardinality(Covering(list, c)) <= Len(list)
      BY <1>1, CountedNow
    <3>. QED
      BY <3>1, <3>2, <3>3
  <2>. QED
    BY <1>1, <2>1 DEF IInv, Typed, TypeOK
<1>. QED
  BY <1>1, MappingInvariant, PTL

\* cudamem_mapping_add, remove and clear count every chunk exactly: as often
\* as there are registrations that hold a byte of it, and at each step of a
\* loop as often as the loop has got to.  Whatever the granularity, and for
\* ranges that overlap, start or end inside a chunk, are added twice, fail
\* half-way or go in any order.
THEOREM MappingRefcountsExact == Spec => []RefcountsExact
<1>1. IInv => RefcountsExact
  BY DEF IInv, Counted, RefcountsExact, Covering
<1>. QED
  BY <1>1, MappingInvariant, PTL

\* A chunk has an attachment of its own, and the address of that attachment
\* in the table, exactly while its count is above zero.
THEOREM MappingAttachedWhileReferenced == Spec => []AttachedWhileReferenced
<1>1. IInv => AttachedWhileReferenced
  BY DEF IInv
<1>. QED
  BY <1>1, MappingInvariant, PTL

\* No step takes or changes the address of a chunk that a registration other
\* than the one being removed touches: not the unwinding of a failed add, not
\* the removal of a neighbour, not the import of another chunk.
THEOREM MappingRegisteredStaysMapped == Spec => RegisteredStaysMapped
<1> DEFINE Kept == \A c \in Chunks :
              (\E r \in ToSet(list) \cap ToSet(list') :
                  Covers(r, c) /\ ~(op \in {"remove", "clear", "term"} /\ r = reg))
                  => phys'[c] = phys[c]
<1>1. ASSUME IInv, Next PROVE Kept
  <2>1. SUFFICES ASSUME NEW c \in Chunks, NEW r \in ToSet(list), Covers(r, c),
                        ~(op \in {"remove", "clear", "term"} /\ r = reg)
                 PROVE  phys'[c] = phys[c]
    OBVIOUS
  <2>2. PICK i \in DOMAIN list : list[i] = r
    BY DEF ToSet
  <2>3. list \in Seq(Ranges) /\ phys \in [Chunks -> Nat]
    BY <1>1 DEF IInv, Typed
  <2>4. Cardinality(Covering(list, c)) >= 1
    BY <2>1, <2>2, <2>3, CoveringMembers
  <2>5. CASE RegistryInit
    BY <1>1, <2>2, <2>5 DEF IInv, Registered, RegistryInit
  <2>6. CASE AddPopulated
    <3>1. c # cur
      <4>1. ASSUME c = cur PROVE FALSE
        <5>1. UnderWay(c) = 0 /\ rc[c] = 0
          BY <1>1, <2>6, <4>1, LoopFacts DEF AddPopulated, UnderWay
        <5>. QED
          BY <1>1, <2>4, <5>1, CountedNow
      <4>. QED
        BY <4>1
    <3>. QED
      BY <2>3, <2>6, <3>1 DEF AddPopulated, ChunkPopulate
  <2>7. CASE DerefLast
    <3>1. Dereferencing /\ rc[cur] = 1 /\ phys' = [phys EXCEPT ![cur] = 0]
      BY <2>7 DEF DerefLast
    <3>2. c # cur
      <4>1. ASSUME c = cur, op = "unwind" PROVE FALSE
        BY <1>1, <2>4, <3>1, <4>1, DereferencedIsCounted, CountedNow
      <4>2. ASSUME c = cur, op # "unwind" PROVE FALSE
        <5>1. /\ Taken \in DOMAIN list /\ list[Taken] = reg /\ Covers(reg, c)
              /\ Cardinality(Covering(list, c)) = 1
          BY <1>1, <3>1, <4>2, DereferencedIsCounted
        <5>2. r # reg
          BY <2>1, <3>1, <4>2 DEF Dereferencing
        <5>3. Taken \in DOMAIN list \ {i}
          BY <2>2, <5>1, <5>2
        <5>4. Cardinality(Covering(list, c)) >= 2
          BY <2>1, <2>2, <2>3, <5>1, <5>3, CoveringMembers
        <5>. QED
          BY <5>1, <5>4
      <4>. QED
        BY <4>1, <4>2
    <3>. QED
      BY <2>3, <3>1, <3>2
  <2>8. CASE UNCHANGED phys
    BY <2>8
  <2>9. RegistryInit \/ AddPopulated \/ DerefLast \/ UNCHANGED phys
    BY <1>1 DEF Next, Step, Deref, AddStart, AddShared, AddFailed, ChunkPopulateFails, AddDone,
                DerefShared, UnwindDone, RemoveStart, RemoveDone, ClearStart, ClearNext,
                TermEmpty, lutVars
  <2>. QED
    BY <2>5, <2>6, <2>7, <2>8, <2>9
<1>2. ASSUME IInv, [Next]_vars PROVE [Kept]_vars
  BY <1>1, <1>2
<1>. QED
  BY <1>2, MappingInvariant, PTL DEF Spec, RegisteredStaysMapped

-----------------------------------------------------------------------------
(***************************************************************************)
(* The PRP builders on the registry.                                       *)
(***************************************************************************)
Facts == INSTANCE NvmePrpsProofs

\* The lemmas are about the builders used here.
LEMMA SameReading ==
    ASSUME NEW v2p
    PROVE  /\ Prps!Unmapped = Facts!Unmapped
           /\ \A dp : Prps!Built(dp) = Facts!Built(dp)
           /\ \A n : Prps!Ceil(n) = Facts!Ceil(n)
           /\ \A d, n : Prps!NPages(d, n) = Facts!NPages(d, n)
           /\ \A dp, d, n : Prps!DescribesBuffer(v2p, dp, d, n) = Facts!DescribesBuffer(v2p, dp, d, n)
           /\ \A dp, dvec : Prps!DescribesIov(v2p, dp, dvec) = Facts!DescribesIov(v2p, dp, dvec)
<1>1. \A dp, n, k : Prps!DeviceByte(dp, n, k) = Facts!DeviceByte(dp, n, k)
  BY DEF Prps!DeviceByte, Facts!DeviceByte
<1>2. \A dp, d, n : Prps!DescribesBuffer(v2p, dp, d, n) = Facts!DescribesBuffer(v2p, dp, d, n)
  BY <1>1 DEF Prps!DescribesBuffer, Facts!DescribesBuffer
<1>3. \A dvec : Prps!Before(dvec) = Facts!Before(dvec)
  BY DEF Prps!Before, Facts!Before
<1>4. /\ \A dvec : Prps!IovLen(dvec) = Facts!IovLen(dvec)
      /\ \A dvec, k : Prps!IovByte(dvec, k) = Facts!IovByte(dvec, k)
  BY <1>3 DEF Prps!IovLen, Facts!IovLen, Prps!IovByte, Facts!IovByte
<1>5. \A dp, dvec : Prps!DescribesIov(v2p, dp, dvec) = Facts!DescribesIov(v2p, dp, dvec)
  BY <1>1, <1>4 DEF Prps!DescribesIov, Facts!DescribesIov
<1>6. /\ Prps!Unmapped = Facts!Unmapped
      /\ \A dp : Prps!Built(dp) = Facts!Built(dp)
  BY DEF Prps!Unmapped, Facts!Unmapped, Prps!Built, Facts!Built, Prps!Abort, Facts!Abort,
         Prps!Invalid, Facts!Invalid
<1>7. \A d, n : Prps!NPages(d, n) = Facts!NPages(d, n)
  BY DEF Prps!NPages, Facts!NPages, Prps!PageOff, Facts!PageOff
<1>8. \A n : Prps!Ceil(n) = Facts!Ceil(n)
  BY DEF Prps!Ceil, Facts!Ceil
<1>. QED
  BY <1>2, <1>5, <1>6, <1>7, <1>8

LEMMA SamePrepared ==
    ASSUME NEW lookup
    PROVE  /\ \A d, n : Prps!PrepContigMapped(lookup, d, n) = Facts!PrepContigMapped(lookup, d, n)
           /\ \A dvec : Prps!PrepIovMapped(lookup, dvec) = Facts!PrepIovMapped(lookup, dvec)
<1>1. /\ Prps!Unmapped = Facts!Unmapped /\ Prps!Invalid = Facts!Invalid
      /\ \A a, b, l : Prps!DataPointer(a, b, l) = Facts!DataPointer(a, b, l)
      /\ \A l : Prps!Prp2OfList(l) = Facts!Prp2OfList(l)
      /\ \A l : Prps!ToSet(l) = Facts!ToSet(l)
  BY DEF Prps!Unmapped, Facts!Unmapped, Prps!Invalid, Facts!Invalid, Prps!DataPointer,
         Facts!DataPointer, Prps!Prp2OfList, Facts!Prp2OfList, Prps!Unset, Facts!Unset,
         Prps!ListAddr, Facts!ListAddr, Prps!ToSet, Facts!ToSet
<1>2. /\ \A d : Prps!PageOff(d) = Facts!PageOff(d)
      /\ \A d, n : Prps!NPages(d, n) = Facts!NPages(d, n)
  BY DEF Prps!NPages, Facts!NPages, Prps!PageOff, Facts!PageOff
<1>3. \A d, n : Prps!PrepContigMapped(lookup, d, n) = Facts!PrepContigMapped(lookup, d, n)
  BY <1>1, <1>2 DEF Prps!PrepContigMapped, Facts!PrepContigMapped
<1>4. \A dvec, i : Prps!SegmentPages(lookup, dvec, i) = Facts!SegmentPages(lookup, dvec, i)
  BY DEF Prps!SegmentPages, Facts!SegmentPages, Prps!Ceil, Facts!Ceil
<1>5. ASSUME NEW dvec PROVE Prps!IovEntries(lookup, dvec) = Facts!IovEntries(lookup, dvec)
  <2>1. \A seqs : Prps!FlattenSeq(seqs) = Facts!FlattenSeq(seqs)
    BY DEF Prps!FlattenSeq, Facts!FlattenSeq
  <2>2. [i \in DOMAIN dvec |-> Prps!SegmentPages(lookup, dvec, i)]
            = [i \in DOMAIN dvec |-> Facts!SegmentPages(lookup, dvec, i)]
    BY <1>4
  <2>. QED
    BY <2>1, <2>2 DEF Prps!IovEntries, Facts!IovEntries
<1>6. \A dvec : Prps!PrepIovMapped(lookup, dvec) = Facts!PrepIovMapped(lookup, dvec)
  BY <1>1, <1>5 DEF Prps!PrepIovMapped, Facts!PrepIovMapped
<1>. QED
  BY <1>3, <1>6

LEMMA Granules ==
    /\ PageSize \in Nat \ {0} /\ Gran \in Nat \ {0} /\ NChunks \in Nat \ {0}
    /\ PrpListLen \in Nat \ {0}
    /\ Facts!Layout(Gran)
BY MappingAssumption, PrpAssumption DEF Facts!Layout

\* The driver's addresses are those of pages, and never 0.
LEMMA IovaPages ==
    ASSUME NEW fd \in Fds, NEW c \in Chunks
    PROVE  Iova(fd, c) \in Nat \ {0} /\ Iova(fd, c) % PageSize = 0
<1>1. PICK p \in Nat \ {0}, g \in Nat \ {0} : p = PageSize /\ g = Gran
  BY Granules
<1>2. PICK u \in Nat : g = p * u
  <2>1. Gran % PageSize = 0
    BY PrpAssumption
  <2>2. g % p = 0
    BY <1>1, <2>1
  <2>3. g = (p * (g \div p)) + (g % p) /\ g \div p \in Nat
    BY DivMod
  <2>4. PICK u \in Nat : u = g \div p
    BY <2>3
  <2>5. p * u \in Int
    OBVIOUS
  <2>. QED
    BY <2>2, <2>3, <2>4, <2>5
<1>3. PICK n \in Nat \ {0} : n = fd * NChunks + c + 1
  <2>1. fd \in Nat /\ c \in Nat /\ NChunks \in Nat
    BY MappingAssumption DEF Chunks
  <2>2. fd * NChunks \in Nat
    BY <2>1
  <2>. QED
    BY <2>1, <2>2
<1>4. Iova(fd, c) = n * g
  BY <1>1, <1>3 DEF Iova
<1>5. n * g \in Nat \ {0}
  OBVIOUS
<1>6. n * g = p * (n * u) /\ n * u \in Nat
  BY <1>2
<1>7. PICK w \in Nat, x \in Nat : w = n * u /\ x = n * g
  BY <1>5, <1>6
<1>8. x = p * w
  BY <1>6, <1>7
<1>9. p * w <= x /\ x < p * w + p /\ x - p * w = 0
  BY <1>8
<1>10. x % p = 0
  BY <1>9, Facts!QuotientIs
<1>. QED
  BY <1>1, <1>4, <1>5, <1>7, <1>10

\* The chunk of an address is in the table exactly if the address is.
LEMMA ChunkInTable ==
    ASSUME NEW va \in Nat
    PROVE  /\ va \div Gran \in Nat
           /\ va \div Gran \in Chunks => va \in 0 .. NChunks * Gran - 1
<1>1. PICK g \in Nat \ {0} : g = Gran
  BY Granules
<1>2. PICK q \in Nat, m \in 0 .. g - 1 : q = va \div g /\ m = va % g /\ va = (g * q) + m
  BY DivMod
<1>3. PICK k \in Nat \ {0} : k = NChunks
  BY Granules
<1>4. ASSUME q \in 0 .. k - 1 PROVE va <= k * g - 1
  <2>1. q < k
    BY <1>4
  <2>2. g * q + g <= g * k
    BY <2>1, MulMono
  <2>3. PICK x \in Int, y \in Int : x = g * q /\ y = g * k /\ y = k * g
    OBVIOUS
  <2>. QED
    BY <1>2, <2>2, <2>3
<1>5. k * g \in Int
  OBVIOUS
<1>. QED
  BY <1>1, <1>2, <1>3, <1>4, <1>5 DEF Chunks

Touched(c) == \E r \in ToSet(list) : Covers(r, c)

\* Between two calls a chunk has its address in the table exactly while a
\* registration touches it.
LEMMA TouchedChunk ==
    ASSUME IInv, op = "idle", NEW c \in Nat
    PROVE  /\ Touched(c) => c \in Chunks /\ attach[c] \in Fds /\ phys[c] = Iova(attach[c], c)
           /\ ~Touched(c) /\ c \in Chunks => phys[c] = 0
<1>1. list \in Seq(Ranges) /\ attach \in [Chunks -> Fds \cup {None}]
  BY DEF IInv, Typed
<1>2. ASSUME c \in Chunks
      PROVE  rc[c] = Cardinality(Covering(list, c)) /\ rc[c] \in Nat
  <2>1. UnderWay(c) = 0
    BY <1>2, NothingUnderWay DEF IInv
  <2>. QED
    BY <1>2, <2>1, CountedNow
<1>3. ASSUME Touched(c)
      PROVE  c \in Chunks /\ attach[c] \in Fds /\ phys[c] = Iova(attach[c], c)
  <2>1. PICK i \in DOMAIN list : Covers(list[i], c)
    BY <1>3 DEF Touched, ToSet
  <2>2. list[i] \in Ranges /\ Behind(list[i]) <= NChunks
    BY <1>1, <2>1 DEF IInv, Registered
  <2>3. First(list[i]) <= c /\ c < First(list[i]) + Count(list[i])
    BY <2>1, <2>2, ChunksOfBytes
  <2>4. c \in Chunks
    <3>1. First(list[i]) \in Nat /\ Count(list[i]) \in Nat /\ NChunks \in Nat
      BY <2>2, ChunksOfBytes, MappingAssumption
    <3>. QED
      BY <2>2, <2>3, <3>1 DEF Behind, Chunks
  <2>5. Cardinality(Covering(list, c)) >= 1
    BY <1>1, <2>1, CoveringMembers
  <2>6. rc[c] > 0
    BY <1>2, <2>4, <2>5
  <2>. QED
    BY <1>1, <2>4, <2>6 DEF IInv, AttachedWhileReferenced
<1>4. ASSUME ~Touched(c), c \in Chunks PROVE phys[c] = 0
  <2>1. Covering(list, c) = {}
    BY <1>4 DEF Touched, ToSet, Covering
  <2>2. rc[c] = 0
    BY <1>2, <1>4, <2>1, FS_EmptySet
  <2>. QED
    BY <1>4, <2>2 DEF IInv, AttachedWhileReferenced
<1>. QED
  BY <1>3, <1>4

\* The registry's translation of an address: the reference's if a
\* registration touches its chunk, a failure otherwise.
LEMMA MappedLookup ==
    ASSUME IInv, op = "idle", NEW va \in Addresses, va # 0
    PROVE  IF Mapped(va)
           THEN /\ va \div Gran \in Chunks /\ attach[va \div Gran] \in Fds
                /\ Target[va] = Iova(attach[va \div Gran], va \div Gran) + (va % Gran)
                /\ VirtToPhys[va] = Target[va] /\ VirtToPhys[va] # Prps!Unmapped
           ELSE VirtToPhys[va] = Prps!Unmapped
<1>1. va \in Nat
  BY DEF Addresses
<1>2. PICK c \in Nat : c = va \div Gran
  BY <1>1, ChunkInTable
<1>3. /\ Mapped(va) <=> Touched(c)
      /\ VirtToPhys[va] = IF c \notin Chunks \/ va = 0 \/ phys[c] = 0
                          THEN Prps!Unmapped ELSE phys[c] + (va % Gran)
  BY <1>2 DEF Mapped, Touched, VirtToPhys
<1>4. CASE Mapped(va)
  <2>1. c \in Chunks /\ attach[c] \in Fds /\ phys[c] = Iova(attach[c], c)
    BY <1>3, <1>4, TouchedChunk
  <2>2. PICK x \in Nat \ {0} : x = Iova(attach[c], c)
    BY <2>1, IovaPages
  <2>3. PICK m \in Nat : m = va % Gran
    <3>1. va % Gran \in 0 .. Gran - 1 /\ Gran \in Nat
      BY <1>1, Granules, DivMod
    <3>. QED
      BY <3>1
  <2>4. va \in 0 .. NChunks * Gran - 1
    BY <1>1, <1>2, <2>1, ChunkInTable
  <2>5. Target[va] = x + m
    BY <1>2, <2>2, <2>3, <2>4 DEF Target
  <2>6. VirtToPhys[va] = x + m
    BY <1>3, <2>1, <2>2, <2>3
  <2>7. VirtToPhys[va] # Prps!Unmapped
    BY <2>2, <2>3, <2>6 DEF Prps!Unmapped
  <2>. QED
    BY <1>2, <1>4, <2>1, <2>2, <2>3, <2>5, <2>6, <2>7
<1>5. CASE ~Mapped(va)
  <2>1. c \in Chunks => phys[c] = 0
    BY <1>3, <1>5, TouchedChunk
  <2>. QED
    BY <1>3, <1>5, <2>1
<1>. QED
  BY <1>4, <1>5

\* The addresses that some registration's chunks hold.
MappedAddresses == {va \in Nat : Mapped(va)}

\* What the builders need of the registry: it fails or succeeds for whole
\* pages, and where it succeeds pages are contiguous.
LEMMA RegistryPages ==
    ASSUME IInv, op = "idle", NEW lo \in Nat \ {0}, NEW hi \in Int, lo .. hi \subseteq Addresses
    PROVE  Facts!RegisteredPages(VirtToPhys, Target, MappedAddresses, lo, hi)
<1>. DEFINE M == MappedAddresses
            lut == [i \in Nat |-> Iova(attach[i - 1], i - 1)]
<1>1. ASSUME NEW a \in lo .. hi
      PROVE  a \in Addresses /\ a # 0 /\ a \in Nat /\ (a \in M <=> Mapped(a))
  BY DEF MappedAddresses
<1>2. ASSUME NEW a \in lo .. hi
      PROVE  IF a \in M THEN VirtToPhys[a] = Target[a] /\ VirtToPhys[a] # Facts!Unmapped
                        ELSE VirtToPhys[a] = Facts!Unmapped
  <2>1. Prps!Unmapped = Facts!Unmapped
    BY SameReading
  <2>. QED
    BY <1>1, <2>1, MappedLookup
<1>3. ASSUME NEW a \in lo .. hi, NEW b \in lo .. hi, a \div PageSize = b \div PageSize
      PROVE  a \in M <=> b \in M
  <2>1. a \div Gran = b \div Gran
    BY <1>1, <1>3, Granules, Facts!SamePageSameChunk
  <2>. QED
    BY <1>1, <2>1 DEF Mapped
<1>4. ASSUME lo .. hi \subseteq M PROVE Facts!Linear(Target, PageSize, lo, hi)
  <2>1. ASSUME NEW a \in lo .. hi
        PROVE  /\ lut[(a \div Gran) + 1] \in Nat /\ lut[(a \div Gran) + 1] % PageSize = 0
               /\ Target[a] = lut[(a \div Gran) + 1] + (a % Gran)
    <3>1. /\ a \div Gran \in Chunks /\ attach[a \div Gran] \in Fds
          /\ Target[a] = Iova(attach[a \div Gran], a \div Gran) + (a % Gran)
      BY <1>1, <1>4, MappedLookup
    <3>2. PICK c \in Chunks : c = a \div Gran
      BY <3>1
    <3>3. c \in Nat
      BY Granules DEF Chunks
    <3>4. c + 1 \in Nat /\ (c + 1) - 1 = c
      BY <3>3
    <3>5. lut[c + 1] = Iova(attach[c], c)
      BY <3>4
    <3>6. Iova(attach[c], c) \in Nat /\ Iova(attach[c], c) % PageSize = 0
      BY <3>1, <3>2, IovaPages
    <3>. QED
      BY <3>1, <3>2, <3>5, <3>6
  <2>. HIDE DEF lut
  <2>2. Facts!Layout(Gran)
    BY Granules
  <2>3. Facts!Linear(Target, Gran, lo, hi)
    BY <2>1, <2>2, Facts!LutLinear
  <2>. QED
    BY <2>2, <2>3, Facts!LinearPages
<1>. QED
  BY <1>2, <1>3, <1>4 DEF Facts!RegisteredPages

\* Everything a buffer of the property holds can be asked for.
LEMMA BuffersAsked ==
    ASSUME NEW s \in Buffers
    PROVE  /\ s.base \in Nat \ {0} /\ s.len \in Nat \ {0}
           /\ s.base .. s.base + s.len - 1 \subseteq Addresses
<1>1. PICK p \in Nat \ {0}, x \in Nat, y \in Nat :
          p = PageSize /\ x = NChunks * Gran /\ y = (PrpListLen + 1) * PageSize
  <2>1. NChunks * Gran \in Nat /\ (PrpListLen + 1) * PageSize \in Nat
    BY Granules
  <2>. QED
    BY <2>1, Granules
<1>2. /\ \E b \in 1 .. x, n \in 1 .. y + 1 : s = [base |-> b, len |-> n]
      /\ Addresses = 0 .. x + y
  BY <1>1 DEF Buffers, Addresses
<1>3. s.base \in 1 .. x /\ s.len \in 1 .. y + 1
  BY <1>2
<1>. QED
  BY <1>1, <1>2, <1>3

LEMMA MappedContig ==
    ASSUME IInv, op = "idle", NEW s \in Buffers,
           NEW dp, dp = Prps!PrepContigMapped(VirtToPhys, s.base, s.len)
    PROVE  /\ Prps!Built(dp) <=>
                  AllMapped(s) /\ Prps!NPages(s.base, s.len) <= 1 + PrpListLen
           /\ Prps!Built(dp) => Prps!DescribesBuffer(Target, dp, s.base, s.len)
<1>1. PICK b \in Nat \ {0}, n \in Nat \ {0} :
          b = s.base /\ n = s.len /\ b .. b + n - 1 \subseteq Addresses
  BY BuffersAsked
<1>2. Facts!RegisteredPages(VirtToPhys, Target, MappedAddresses, b, b + n - 1)
  BY <1>1, RegistryPages
<1>3. dp = Facts!PrepContigMapped(VirtToPhys, b, n)
  BY <1>1, SamePrepared
<1>4. /\ PageSize \in Nat \ {0} /\ PrpListLen \in Nat /\ b \in Nat /\ n \in Nat \ {0}
  BY Granules
<1>5. /\ Facts!Built(dp) <=> /\ b .. b + n - 1 \subseteq MappedAddresses
                             /\ Facts!NPages(b, n) <= 1 + PrpListLen
      /\ Facts!Built(dp) => Facts!DescribesBuffer(Target, dp, b, n)
  BY ONLY <1>2, <1>3, <1>4, Facts!ContigMappedDescribes
<1>6. AllMapped(s) <=> b .. b + n - 1 \subseteq MappedAddresses
  BY <1>1 DEF AllMapped, MappedAddresses
<1>. QED
  BY <1>1, <1>5, <1>6, SameReading

\* The iovecs of the property: two segments that start at pages, the first
\* of whole pages.
LEMMA TwoSegments ==
    ASSUME NEW dvec \in Iovecs
    PROVE  /\ dvec[1] \in Buffers /\ dvec[2] \in Buffers
           /\ Len(dvec) = 2
           /\ Facts!PagedIov(dvec)
           /\ Facts!Ceil(Facts!IovLen(dvec)) = Facts!Ceil(dvec[1].len) + Facts!Ceil(dvec[2].len)
<1>1. PICK s \in PageAligned, t \in PageAligned : dvec = <<s, t>> /\ s.len % PageSize = 0
  BY DEF Iovecs
<1>2. s \in Buffers /\ t \in Buffers /\ s.base % PageSize = 0 /\ t.base % PageSize = 0
  BY <1>1 DEF PageAligned
<1>3. s \in Facts!Segment /\ t \in Facts!Segment
  <2>1. ASSUME NEW r \in Buffers PROVE r \in Facts!Segment
    <3>1. r.base \in Nat /\ r.len \in Nat \ {0}
      BY BuffersAsked
    <3>2. r = [base |-> r.base, len |-> r.len]
      BY DEF Buffers
    <3>. QED
      BY <3>1, <3>2 DEF Facts!Segment
  <2>. QED
    BY <1>2, <2>1
<1>4. dvec \in Seq(Facts!Segment) /\ Len(dvec) = 2 /\ dvec[1] = s /\ dvec[2] = t
  BY <1>1, <1>3
<1>5. Facts!PagedIov(dvec)
  BY <1>1, <1>2, <1>4 DEF Facts!PagedIov
<1>6. PICK l \in Nat \ {0}, m \in Nat \ {0} : l = s.len /\ m = t.len /\ l % PageSize = 0
  BY <1>1, <1>2, BuffersAsked
<1>7. Facts!IovLen(dvec) = l + m
  <2>1. /\ Facts!Before(dvec)[1] = 0
        /\ \A i \in 1 .. Len(dvec) :
              Facts!Before(dvec)[i + 1] = Facts!Before(dvec)[i] + dvec[i].len
    BY <1>5, Granules, Facts!BeforeFacts
  <2>2. Facts!Before(dvec)[2] = l
    <3>1. 1 \in 1 .. Len(dvec) /\ 1 + 1 = 2
      BY <1>4
    <3>2. Facts!Before(dvec)[1 + 1] = Facts!Before(dvec)[1] + dvec[1].len
      BY <2>1, <3>1
    <3>. QED
      BY <1>4, <1>6, <2>1, <3>1, <3>2
  <2>3. Facts!Before(dvec)[3] = l + m
    <3>1. 2 \in 1 .. Len(dvec) /\ 2 + 1 = 3
      BY <1>4
    <3>2. Facts!Before(dvec)[2 + 1] = Facts!Before(dvec)[2] + dvec[2].len
      BY <2>1, <3>1
    <3>. QED
      BY <1>4, <1>6, <2>2, <3>1, <3>2
  <2>. QED
    BY <1>4, <2>3 DEF Facts!IovLen
<1>8. Facts!Ceil(l + m) = Facts!Ceil(l) + Facts!Ceil(m)
  <2>1. PageSize \in Nat \ {0} /\ l \in Nat /\ m \in Nat /\ l % PageSize = 0
    BY <1>6, Granules
  <2>2. /\ Facts!Ceil(l + m) = (l \div PageSize) + Facts!Ceil(m)
        /\ Facts!Ceil(l) = l \div PageSize
    BY ONLY <2>1, Facts!WholePages
  <2>. QED
    BY <2>2
<1>. QED
  BY <1>2, <1>4, <1>5, <1>6, <1>7, <1>8

LEMMA MappedIov ==
    ASSUME IInv, op = "idle", NEW dvec \in Iovecs,
           NEW dp, dp = Prps!PrepIovMapped(VirtToPhys, dvec)
    PROVE  /\ Prps!Built(dp) <=>
                  /\ AllMapped(dvec[1]) /\ AllMapped(dvec[2])
                  /\ Prps!Ceil(dvec[1].len) + Prps!Ceil(dvec[2].len) <= 1 + PrpListLen
           /\ Prps!Built(dp) => Prps!DescribesIov(Target, dp, dvec)
<1>1. /\ dvec[1] \in Buffers /\ dvec[2] \in Buffers
      /\ Len(dvec) = 2
      /\ Facts!PagedIov(dvec)
      /\ Facts!Ceil(Facts!IovLen(dvec)) = Facts!Ceil(dvec[1].len) + Facts!Ceil(dvec[2].len)
  BY TwoSegments
<1>2. Facts!RegisteredIov(VirtToPhys, Target, MappedAddresses, dvec)
  <2>1. ASSUME NEW i \in 1 .. Len(dvec)
        PROVE  Facts!RegisteredPages(VirtToPhys, Target, MappedAddresses,
                                     dvec[i].base, dvec[i].base + dvec[i].len - 1)
    <3>1. dvec[i] \in Buffers
      <4>1. i = 1 \/ i = 2
        BY <1>1
      <4>. QED
        BY <1>1, <4>1
    <3>2. PICK b \in Nat \ {0}, n \in Nat \ {0} :
              b = dvec[i].base /\ n = dvec[i].len /\ b .. b + n - 1 \subseteq Addresses
      BY <3>1, BuffersAsked
    <3>3. PICK hi \in Int : hi = b + n - 1 /\ hi = dvec[i].base + dvec[i].len - 1
      BY <3>2
    <3>4. b .. hi \subseteq Addresses
      BY <3>2, <3>3
    <3>5. Facts!RegisteredPages(VirtToPhys, Target, MappedAddresses, b, hi)
      BY <3>4, RegistryPages
    <3>. QED
      BY <3>2, <3>3, <3>5
  <2>. QED
    BY <2>1 DEF Facts!RegisteredIov
<1>3. dp = Facts!PrepIovMapped(VirtToPhys, dvec)
  BY SamePrepared
<1>4. PageSize \in Nat \ {0} /\ PrpListLen \in Nat /\ Facts!PagedIov(dvec)
  BY <1>1, Granules
<1>5. /\ Facts!Built(dp) <=>
             /\ \A i \in 1 .. Len(dvec) : Facts!SegmentBytes(dvec[i]) \subseteq MappedAddresses
             /\ Facts!Ceil(Facts!IovLen(dvec)) <= 1 + PrpListLen
      /\ Facts!Built(dp) => Facts!DescribesIov(Target, dp, dvec)
  BY ONLY <1>2, <1>3, <1>4, Facts!IovMappedDescribes
<1>6. ASSUME NEW s \in Buffers
      PROVE  AllMapped(s) <=> Facts!SegmentBytes(s) \subseteq MappedAddresses
  <2>1. PICK b \in Nat \ {0}, n \in Nat \ {0} : b = s.base /\ n = s.len
    BY BuffersAsked
  <2>. QED
    BY <2>1 DEF AllMapped, MappedAddresses, Facts!SegmentBytes
<1>7. (\A i \in 1 .. Len(dvec) : Facts!SegmentBytes(dvec[i]) \subseteq MappedAddresses)
          <=> AllMapped(dvec[1]) /\ AllMapped(dvec[2])
  <2>1. 1 .. Len(dvec) = {1, 2}
    BY <1>1
  <2>. QED
    BY <1>1, <1>6, <2>1
<1>. QED
  BY <1>1, <1>5, <1>7, SameReading

\* Between two calls a command is prepared on registered GPU memory, for a
\* contiguous buffer or an iovec, exactly if a registration touches the
\* chunk of every byte and the list page has room, and the controller then
\* follows the entries to the bytes of the attachments, in order.  Whatever
\* the granularity, the page size and the ranges registered so far.
THEOREM MappingPrpsDescribeBuffers == Spec => []MappedPrpsDescribeBuffers
<1>1. ASSUME IInv PROVE MappedPrpsDescribeBuffers
  BY <1>1, MappedContig, MappedIov DEF MappedPrpsDescribeBuffers
<1>. QED
  BY <1>1, MappingInvariant, PTL
=============================================================================
