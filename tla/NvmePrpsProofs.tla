--------------------------- MODULE NvmePrpsProofs ---------------------------
(***************************************************************************)
(* Lemmas about the PRP builders for every page size, every chunk of pages *)
(* and every buffer.  A builder walks the pages of the buffer with a       *)
(* recursive function; what it computes has a closed form, page by page,   *)
(* and a counterexample with the smallest page shows that the two agree.   *)
(***************************************************************************)
EXTENDS NvmePrps, WellFoundedInduction, TLAPS

-----------------------------------------------------------------------------
(***************************************************************************)
(* Quotients and remainders.                                               *)
(***************************************************************************)
LEMMA DivMod ==
    ASSUME NEW a \in Nat, NEW g \in Nat \ {0}
    PROVE  /\ a \div g \in Nat
           /\ a % g \in 0 .. g - 1
           /\ a = (g * (a \div g)) + (a % g)
OBVIOUS

LEMMA MulSteps ==
    ASSUME NEW h \in Nat, NEW a \in Int, NEW b \in Int
    PROVE  /\ h * a \in Int /\ h * b \in Int
           /\ a <= b => h * a <= h * b
           /\ a < b => h * a + h <= h * b
OBVIOUS

LEMMA QuotientIs ==
    ASSUME NEW h \in Nat \ {0}, NEW q \in Int, NEW x \in Int, h * q <= x, x < h * q + h
    PROVE  x \div h = q /\ x % h = x - h * q
<1>. DEFINE d == x \div h
            m == x % h
            hq == h * q
            hd == h * d
<1>1. d \in Int /\ m \in 0 .. h - 1 /\ x = hd + m /\ hd \in Int /\ hq \in Int
  OBVIOUS
<1>2. /\ d < q => hd + h <= hq
      /\ q < d => hq + h <= hd
  <2>. HIDE DEF d, m
  <2>. QED
    BY <1>1, MulSteps
<1>3. hq <= x /\ x < hq + h
  OBVIOUS
<1>4. d = q
  <2>. HIDE DEF d, m, hq, hd
  <2>. QED
    BY <1>1, <1>2, <1>3
<1>5. m = x - hq
  <2>1. hd = hq
    BY <1>4
  <2>. HIDE DEF d, m, hq, hd
  <2>. QED
    BY <1>1, <2>1
<1>. QED
  BY <1>4, <1>5

LEMMA SmallestNat ==
    ASSUME NEW S \in SUBSET Nat, S # {}
    PROVE  \E x \in S : \A y \in S : x <= y
<1>1. PICK x \in S : \A y \in S : <<y, x>> \notin {p \in Nat \X Nat : p[1] < p[2]}
  <2>1. IsWellFoundedOn({p \in Nat \X Nat : p[1] < p[2]}, Nat)
    BY NatLessThanWellFounded DEF OpToRel
  <2>. QED
    BY <2>1, WFMin
<1>2. \A y \in S : x \in Nat /\ y \in Nat /\ ~(y < x)
  BY <1>1
<1>. QED
  BY <1>2

\* Byte t of page y, in a chunk of g pages of p bytes.
LEMMA PageInChunk ==
    ASSUME NEW p \in Nat \ {0}, NEW g \in Nat \ {0}, NEW y \in Nat, NEW t \in 0 .. p - 1
    PROVE  /\ (p * y + t) \div (p * g) = y \div g
           /\ (p * y + t) % (p * g) = p * (y % g) + t
<1>. DEFINE q == y \div g
            m == y % g
            h == p * g
            x == p * y + t
<1>1. q \in Nat /\ m \in 0 .. g - 1 /\ y = (g * q) + m
  BY DivMod
<1>. HIDE DEF q, m
<1>2. h \in Nat \ {0} /\ x \in Int
  OBVIOUS
<1>3. x = (h * q) + ((p * m) + t)
  <2>1. p * ((g * q) + m) = (p * (g * q)) + (p * m)
    BY <1>1
  <2>2. p * (g * q) = (p * g) * q
    BY <1>1
  <2>3. p * y = (h * q) + (p * m)
    BY <1>1, <2>1, <2>2
  <2>4. h * q \in Int /\ p * m \in Int
    BY <1>1, <1>2
  <2>. QED
    BY <2>3, <2>4
<1>4. p * m \in Nat /\ p * m + p <= h
  BY <1>1, MulSteps
<1>. DEFINE pm == p * m
            hq == h * q
<1>5. x = hq + (pm + t) /\ pm \in Nat /\ pm + p <= h /\ hq \in Int
  BY <1>1, <1>2, <1>3, <1>4
<1>. HIDE DEF x, pm, hq, h
<1>6. hq <= x /\ x < hq + h
  BY <1>2, <1>5
<1>7. x \div h = q /\ x % h = x - hq
  <2>1. h \in Nat \ {0} /\ q \in Int /\ x \in Int /\ h * q <= x /\ x < h * q + h
    BY <1>1, <1>2, <1>6 DEF hq
  <2>. QED
    BY ONLY <2>1, QuotientIs DEF hq
<1>8. x % h = pm + t
  BY <1>5, <1>7
<1>9. x \div h = y \div g
  BY <1>7 DEF q
<1>10. x % h = p * (y % g) + t
  BY <1>8 DEF pm, m
<1>. QED
  BY <1>9, <1>10 DEF x, h

-----------------------------------------------------------------------------
(***************************************************************************)
(* The buffer: its pages, and a translation that is linear within a chunk. *)
(***************************************************************************)
Layout(chunk) == PageSize \in Nat \ {0} /\ chunk \in Nat \ {0} /\ chunk % PageSize = 0

Linear(v2p, chunk, lo, hi) ==
    /\ \A a \in lo .. hi : v2p[a] \in Int /\ v2p[a] % PageSize = a % PageSize
    /\ \A a, b \in lo .. hi : a \div chunk = b \div chunk => v2p[b] = v2p[a] + (b - a)

\* Address of page i of the buffer.
PageAddr(dbuf, i) == PageSize * ((dbuf \div PageSize) + i)

LEMMA BufferPages ==
    ASSUME PageSize \in Nat \ {0}, NEW dbuf \in Nat, NEW n \in Nat \ {0}
    PROVE  /\ PageOff(dbuf) \in 0 .. PageSize - 1
           /\ dbuf \div PageSize \in Nat
           /\ dbuf = PageSize * (dbuf \div PageSize) + PageOff(dbuf)
           /\ NPages(dbuf, n) \in Nat
           /\ NPages(dbuf, n) = ((PageOff(dbuf) + n - 1) \div PageSize) + 1
<1>. DEFINE p == PageSize
            off == PageOff(dbuf)
            x == off + n - 1
            d == x \div p
            m == x % p
            pd == p * d
<1>1. off \in 0 .. p - 1 /\ dbuf \div p \in Nat /\ dbuf = p * (dbuf \div p) + off
  BY DivMod DEF PageOff
<1>2. x \in Nat
  BY <1>1
<1>3. d \in Nat /\ m \in 0 .. p - 1 /\ x = pd + m /\ pd \in Int
  <2>1. d \in Nat /\ m \in 0 .. p - 1 /\ x = pd + m
    <3>. HIDE DEF x
    <3>. QED
      BY <1>2, DivMod
  <2>2. pd \in Int
    <3>. HIDE DEF d
    <3>. QED
      BY <2>1
  <2>. QED
    BY <2>1, <2>2
<1>4. p * (d + 1) = pd + p
  <2>. HIDE DEF d
  <2>. QED
    BY <1>3
<1>5. PICK q \in Int : q = d + 1
  BY <1>3
<1>6. x + p \in Int /\ p * q <= x + p /\ x + p < p * q + p
  <2>1. p * q = pd + p
    BY <1>4, <1>5
  <2>. HIDE DEF x, pd, d, m
  <2>. QED
    BY <1>2, <1>3, <2>1
<1>7. (x + p) \div p = q
  <2>. HIDE DEF x
  <2>. QED
    BY <1>5, <1>6, QuotientIs
<1>8. NPages(dbuf, n) = (x + p) \div p
  <2>1. off + n + PageSize - 1 = x + p
    BY <1>1
  <2>. QED
    BY <2>1 DEF NPages
<1>. QED
  BY <1>1, <1>3, <1>5, <1>7, <1>8

\* The next page in a chunk of g pages, and the first one of the next chunk.
LEMMA NextInChunk ==
    ASSUME NEW g \in Nat \ {0}, NEW y \in Nat
    PROVE  /\ y % g < g - 1 => (y + 1) % g = (y % g) + 1 /\ (y + 1) \div g = y \div g
           /\ ~(y % g < g - 1) => (y + 1) % g = 0 /\ y % g = g - 1
<1>. DEFINE q == y \div g
            m == y % g
            gq == g * q
<1>1. q \in Nat /\ m \in 0 .. g - 1 /\ y = gq + m
  BY DivMod
<1>2. gq \in Int
  <2>. HIDE DEF q
  <2>. QED
    BY <1>1
<1>3. PICK z \in Int : z = y + 1
  OBVIOUS
<1>4. ASSUME m < g - 1 PROVE z % g = m + 1 /\ z \div g = q
  <2>1. gq <= z /\ z < gq + g
    <3>. HIDE DEF gq, m, q
    <3>. QED
      BY <1>1, <1>2, <1>3, <1>4
  <2>2. g \in Nat \ {0} /\ q \in Int /\ z \in Int /\ g * q <= z /\ z < g * q + g
    BY <1>1, <2>1
  <2>. HIDE DEF q
  <2>3. z \div g = q /\ z % g = z - gq
    BY ONLY <2>2, QuotientIs DEF gq
  <2>. HIDE DEF gq, m
  <2>. QED
    BY <1>1, <1>2, <1>3, <2>3
<1>5. ASSUME ~(m < g - 1) PROVE z % g = 0 /\ m = g - 1
  <2>1. m = g - 1 /\ z = gq + g
    <3>. HIDE DEF gq, m, q
    <3>. QED
      BY <1>1, <1>2, <1>3, <1>5
  <2>. HIDE DEF q
  <2>2. PICK r \in Int : r = q + 1
    BY <1>1
  <2>3. g * r = gq + g
    BY <1>1, <2>2
  <2>4. g \in Nat \ {0} /\ r \in Int /\ z \in Int /\ g * r <= z /\ z < g * r + g
    BY <1>2, <2>1, <2>2, <2>3
  <2>5. z % g = z - g * r
    BY ONLY <2>4, QuotientIs
  <2>. QED
    BY <1>2, <1>3, <2>1, <2>3, <2>5
<1>. QED
  BY <1>3, <1>4, <1>5

LEMMA BufferStart ==
    ASSUME PageSize \in Nat \ {0}, NEW dbuf \in Nat
    PROVE  /\ dbuf \div PageSize \in Nat
           /\ PageOff(dbuf) \in 0 .. PageSize - 1
           /\ PageAddr(dbuf, 0) \in Nat
           /\ PageAddr(dbuf, 0) = PageSize * (dbuf \div PageSize)
           /\ dbuf - PageOff(dbuf) = PageAddr(dbuf, 0)
           /\ dbuf = PageAddr(dbuf, 0) + PageOff(dbuf)
<1>1. /\ dbuf \div PageSize \in Nat /\ PageOff(dbuf) \in 0 .. PageSize - 1
      /\ dbuf = (PageSize * (dbuf \div PageSize)) + PageOff(dbuf)
  BY DivMod DEF PageOff
<1>2. PICK y \in Nat : y = dbuf \div PageSize
  BY <1>1
<1>3. y + 0 = y /\ PageSize * y \in Nat
  OBVIOUS
<1>4. PageAddr(dbuf, 0) = PageSize * y
  BY <1>2, <1>3 DEF PageAddr
<1>5. PICK py \in Nat : py = PageSize * y
  BY <1>3
<1>6. dbuf = py + PageOff(dbuf)
  BY <1>1, <1>2, <1>5
<1>7. dbuf - PageOff(dbuf) = py
  BY <1>1, <1>6
<1>. QED
  BY <1>1, <1>2, <1>4, <1>5, <1>6, <1>7

LEMMA PageAddrFacts ==
    ASSUME PageSize \in Nat \ {0}, NEW dbuf \in Nat, NEW i \in Nat
    PROVE  /\ PageAddr(dbuf, i) \in Nat
           /\ PageAddr(dbuf, i) = dbuf - PageOff(dbuf) + i * PageSize
           /\ PageAddr(dbuf, i + 1) = PageAddr(dbuf, i) + PageSize
           /\ i >= 1 => PageAddr(dbuf, i) > dbuf
<1>. DEFINE p == PageSize
            y == dbuf \div p
            off == PageOff(dbuf)
            py == p * y
            ip == p * i
<1>1. off \in 0 .. p - 1 /\ y \in Nat /\ dbuf = py + off
  BY DivMod DEF PageOff
<1>2. p \in Nat \ {0}
  OBVIOUS
<1>. HIDE DEF p, y, off
<1>3. /\ p * (y + i) = py + ip /\ p * (y + (i + 1)) = (py + ip) + p /\ i * p = ip
      /\ py \in Nat /\ ip \in Nat
      /\ i >= 1 => ip >= p
  BY <1>1, <1>2
<1>4. PageAddr(dbuf, i) = py + ip /\ PageAddr(dbuf, i + 1) = (py + ip) + p
  BY <1>3 DEF PageAddr, p, y
<1>5. dbuf - PageOff(dbuf) + i * PageSize = py + ip
  <2>. HIDE DEF py, ip
  <2>1. dbuf - off + ip = py + ip
    BY <1>1, <1>2, <1>3
  <2>. QED
    BY <1>3, <2>1 DEF off, p
<1>6. i >= 1 => py + ip > dbuf
  <2>. HIDE DEF py, ip
  <2>. QED
    BY <1>1, <1>2, <1>3
<1>7. PageAddr(dbuf, i + 1) = PageAddr(dbuf, i) + PageSize
  BY <1>4 DEF p
<1>. QED
  BY <1>3, <1>4, <1>5, <1>6, <1>7

\* Byte k of the buffer is byte (off + k) % PageSize of page
\* (off + k) \div PageSize.
LEMMA ByteInPage ==
    ASSUME PageSize \in Nat \ {0}, NEW dbuf \in Nat, NEW k \in Nat
    PROVE  /\ (PageOff(dbuf) + k) \div PageSize \in Nat
           /\ (PageOff(dbuf) + k) % PageSize \in 0 .. PageSize - 1
           /\ dbuf + k = PageAddr(dbuf, (PageOff(dbuf) + k) \div PageSize)
                            + ((PageOff(dbuf) + k) % PageSize)
<1>. DEFINE p == PageSize
            off == PageOff(dbuf)
            x == off + k
            e == x \div p
            at == x % p
<1>1. off \in 0 .. p - 1 /\ dbuf = p * (dbuf \div p) + off /\ dbuf \div p \in Nat
  BY DivMod DEF PageOff
<1>2. x \in Nat
  BY <1>1
<1>3. e \in Nat /\ at \in 0 .. p - 1 /\ x = (p * e) + at
  <2>. HIDE DEF x
  <2>. QED
    BY <1>2, DivMod
<1>4. PageAddr(dbuf, e) = dbuf - off + e * p /\ e * p = p * e /\ p * e \in Int
  <2>. HIDE DEF e
  <2>. QED
    BY <1>3, PageAddrFacts
<1>5. dbuf + k = PageAddr(dbuf, e) + at
  <2>. DEFINE pe == p * e
  <2>1. pe \in Int /\ x = pe + at /\ PageAddr(dbuf, e) = dbuf - off + pe
    BY <1>3, <1>4
  <2>2. x = off + k
    OBVIOUS
  <2>. HIDE DEF pe, x, at, e, off
  <2>. QED
    BY <1>1, <1>3, <2>1, <2>2
<1>. QED
  BY <1>3, <1>5

\* The pages of a buffer lie inside it, except for the beginning of the first.
LEMMA PagesInside ==
    ASSUME PageSize \in Nat \ {0}, NEW dbuf \in Nat, NEW n \in Nat \ {0},
           NEW i \in 1 .. NPages(dbuf, n) - 1
    PROVE  PageAddr(dbuf, i) \in dbuf .. dbuf + n - 1
<1>. DEFINE p == PageSize
            last == (PageOff(dbuf) + (n - 1)) \div p
            at == (PageOff(dbuf) + (n - 1)) % p
<1>1. NPages(dbuf, n) \in Nat /\ PageOff(dbuf) \in Nat
  BY BufferPages
<1>2. i \in Nat /\ i >= 1 /\ i <= NPages(dbuf, n) - 1
  BY <1>1
<1>3. PageOff(dbuf) + n - 1 = PageOff(dbuf) + (n - 1) /\ n - 1 \in Nat
  BY <1>1
<1>4. NPages(dbuf, n) = last + 1
  BY <1>3, BufferPages
<1>5. last \in Nat /\ at \in 0 .. p - 1 /\ dbuf + (n - 1) = PageAddr(dbuf, last) + at
  BY <1>3, ByteInPage
<1>. HIDE DEF last, at
<1>6. i <= last
  BY <1>2, <1>4, <1>5
<1>7. PageAddr(dbuf, i) \in Nat /\ PageAddr(dbuf, i) > dbuf
  BY <1>2, PageAddrFacts
<1>8. PageAddr(dbuf, last) \in Nat
  BY <1>5, PageAddrFacts
<1>9. PageAddr(dbuf, i) <= PageAddr(dbuf, last)
  <2>1. dbuf \div p \in Nat
    BY BufferPages
  <2>. DEFINE a == (dbuf \div p) + i
              b == (dbuf \div p) + last
  <2>2. a \in Int /\ b \in Int /\ a <= b
    BY <1>2, <1>5, <1>6, <2>1
  <2>. HIDE DEF a, b
  <2>3. p * a <= p * b
    BY <2>2, MulSteps
  <2>. QED
    BY <2>3 DEF a, b, PageAddr
<1>. QED
  BY <1>3, <1>5, <1>7, <1>8, <1>9

-----------------------------------------------------------------------------
(***************************************************************************)
(* The walk of PrepContig over the pages of a buffer.                      *)
(***************************************************************************)
LEMMA ChunkSplit ==
    ASSUME NEW chunk, Layout(chunk)
    PROVE  /\ PageSize \in Nat \ {0}
           /\ chunk \div PageSize \in Nat \ {0}
           /\ chunk = PageSize * (chunk \div PageSize)
<1>1. PageSize \in Nat \ {0} /\ chunk \in Nat \ {0} /\ chunk % PageSize = 0
  BY DEF Layout
<1>2. chunk \div PageSize \in Nat /\ chunk = (PageSize * (chunk \div PageSize)) + 0
  BY <1>1, DivMod
<1>3. PICK g \in Nat : g = chunk \div PageSize
  BY <1>2
<1>4. PageSize * g = chunk
  BY <1>1, <1>2, <1>3
<1>5. g # 0
  BY <1>1, <1>4
<1>. QED
  BY <1>1, <1>3, <1>4, <1>5

\* Two bytes of one page, and bytes of a page and of the one behind it in the
\* same chunk, are as far apart physically as they are virtually.
LEMMA ChunkOfByte ==
    ASSUME NEW chunk, Layout(chunk), NEW dbuf \in Nat, NEW i \in Nat,
           NEW t \in 0 .. PageSize - 1
    PROVE  (PageAddr(dbuf, i) + t) \div chunk
               = ((dbuf \div PageSize) + i) \div (chunk \div PageSize)
<1>1. /\ PageSize \in Nat \ {0} /\ chunk \div PageSize \in Nat \ {0}
      /\ chunk = PageSize * (chunk \div PageSize)
  BY ChunkSplit
<1>2. PICK y \in Nat : y = (dbuf \div PageSize) + i
  <2>1. dbuf \div PageSize \in Nat
    BY <1>1, BufferStart
  <2>. QED
    BY <2>1
<1>3. (PageSize * y + t) \div (PageSize * (chunk \div PageSize)) = y \div (chunk \div PageSize)
  BY <1>1, PageInChunk
<1>. QED
  BY <1>1, <1>2, <1>3 DEF PageAddr

LEMMA StridesLeftIs ==
    ASSUME NEW chunk, Layout(chunk), NEW dbuf \in Nat
    PROVE  StridesLeft(chunk, dbuf - PageOff(dbuf))
               = (chunk \div PageSize) - 1 - ((dbuf \div PageSize) % (chunk \div PageSize))
<1>. DEFINE p == PageSize
            g == chunk \div PageSize
            y == dbuf \div PageSize
            m == y % g
<1>1. p \in Nat \ {0} /\ g \in Nat \ {0} /\ chunk = p * g
  BY ChunkSplit
<1>2. y \in Nat /\ dbuf - PageOff(dbuf) = p * y + 0
  <2>1. /\ y \in Nat /\ dbuf - PageOff(dbuf) = p * y
    BY <1>1, BufferStart
  <2>2. p * y = p * y + 0
    <3>. HIDE DEF y
    <3>. QED
      BY <1>1, <2>1
  <2>. QED
    BY <2>1, <2>2
<1>. HIDE DEF p, g, y
<1>3. (p * y + 0) % (p * g) = p * (y % g) + 0
  <2>1. p \in Nat \ {0} /\ g \in Nat \ {0} /\ y \in Nat /\ 0 \in 0 .. p - 1
    BY <1>1, <1>2
  <2>. QED
    BY ONLY <2>1, PageInChunk
<1>4. m \in 0 .. g - 1
  BY <1>1, <1>2, DivMod
<1>5. PICK r \in Nat : r = g - m
  BY <1>1, <1>4
<1>6. p * g - p * m = p * r
  <2>. HIDE DEF m
  <2>. QED
    BY <1>1, <1>4, <1>5
<1>7. chunk - ((dbuf - PageOff(dbuf)) % chunk) = p * r
  <2>1. (dbuf - PageOff(dbuf)) % chunk = p * m
    <3>1. p * m + 0 = p * m
      BY <1>1, <1>4
    <3>. QED
      BY <1>1, <1>2, <1>3, <3>1
  <2>. QED
    BY <1>1, <1>6, <2>1
<1>8. (p * r) \div p = r
  BY <1>1, <1>5, QuotientIs
<1>9. StridesLeft(chunk, dbuf - PageOff(dbuf)) = r - 1
  BY <1>7, <1>8 DEF StridesLeft, p
<1>. QED
  BY <1>1, <1>4, <1>5, <1>9 DEF g, y, m

IsPages(f, v2p, chunk, dbuf, n) ==
    f = [i \in 0 .. NPages(dbuf, n) - 1 |->
            IF i = 0 THEN FirstPage(v2p, chunk, dbuf)
            ELSE NextPage(v2p, chunk, f[i - 1], dbuf - PageOff(dbuf) + i * PageSize)]

LEMMA PagesUnfold ==
    ASSUME NEW v2p, NEW chunk, NEW dbuf, NEW n, NEW f, IsPages(f, v2p, chunk, dbuf, n)
    PROVE  IsPages(Pages(v2p, chunk, dbuf, n), v2p, chunk, dbuf, n)
<1>1. Pages(v2p, chunk, dbuf, n) = CHOOSE g : IsPages(g, v2p, chunk, dbuf, n)
  BY DEF Pages, IsPages
<1>. QED
  BY <1>1

\* What the walk has at page i, without a walk: the translation of the page
\* and the pages behind it in its chunk.
ClosedPage(v2p, chunk, dbuf, i) ==
    [phys |-> IF i = 0 THEN v2p[dbuf] - PageOff(dbuf) ELSE v2p[PageAddr(dbuf, i)],
     left |-> (chunk \div PageSize) - 1
                  - (((dbuf \div PageSize) + i) % (chunk \div PageSize))]

LEMMA ClosedFirst ==
    ASSUME NEW v2p, NEW chunk, Layout(chunk), NEW dbuf \in Nat
    PROVE  ClosedPage(v2p, chunk, dbuf, 0) = FirstPage(v2p, chunk, dbuf)
<1>1. dbuf \div PageSize \in Nat
  BY DivMod DEF Layout
<1>2. (dbuf \div PageSize) + 0 = dbuf \div PageSize
  BY <1>1
<1>. QED
  BY <1>2, StridesLeftIs DEF ClosedPage, FirstPage

LEMMA ClosedNext ==
    ASSUME NEW v2p, NEW chunk, Layout(chunk), NEW dbuf \in Nat, NEW n \in Nat \ {0},
           Linear(v2p, chunk, dbuf, dbuf + n - 1),
           NEW j \in Nat, j + 1 <= NPages(dbuf, n) - 1
    PROVE  ClosedPage(v2p, chunk, dbuf, j + 1)
               = NextPage(v2p, chunk, ClosedPage(v2p, chunk, dbuf, j),
                          dbuf - PageOff(dbuf) + (j + 1) * PageSize)
<1>. DEFINE p == PageSize
            g == chunk \div PageSize
            y == (dbuf \div PageSize) + j
            here == ClosedPage(v2p, chunk, dbuf, j)
<1>1. p \in Nat \ {0} /\ g \in Nat \ {0}
  BY ChunkSplit
<1>2. dbuf \div PageSize \in Nat /\ y \in Nat /\ y + 1 = (dbuf \div PageSize) + (j + 1)
  <2>1. dbuf \div PageSize \in Nat
    BY <1>1, BufferStart
  <2>. QED
    BY <2>1
<1>3. PICK i \in Nat : i = j + 1
  OBVIOUS
<1>4. /\ PageAddr(dbuf, j) \in Nat /\ PageAddr(dbuf, i) \in Nat
      /\ PageAddr(dbuf, i) = PageAddr(dbuf, j) + p
      /\ PageAddr(dbuf, i) = dbuf - PageOff(dbuf) + i * PageSize
      /\ i >= 1 /\ PageAddr(dbuf, i) > dbuf
  <2>1. i >= 1
    BY <1>3
  <2>2. PageAddr(dbuf, j) \in Nat /\ PageAddr(dbuf, j + 1) = PageAddr(dbuf, j) + PageSize
    BY <1>1, PageAddrFacts
  <2>3. /\ PageAddr(dbuf, i) \in Nat /\ PageAddr(dbuf, i) > dbuf
        /\ PageAddr(dbuf, i) = dbuf - PageOff(dbuf) + i * PageSize
    BY <1>1, <2>1, PageAddrFacts
  <2>. QED
    BY <1>3, <2>1, <2>2, <2>3
<1>5. NPages(dbuf, n) \in Nat /\ i \in 1 .. NPages(dbuf, n) - 1
  BY <1>1, <1>3, BufferPages
<1>6. PageAddr(dbuf, i) \in dbuf .. dbuf + n - 1
  BY <1>1, <1>5, PagesInside
<1>7. PageOff(dbuf) \in 0 .. p - 1 /\ dbuf = PageAddr(dbuf, 0) + PageOff(dbuf)
  BY <1>1, BufferStart
<1>8. /\ here.left = g - 1 - (y % g)
      /\ here.phys = IF j = 0 THEN v2p[dbuf] - PageOff(dbuf) ELSE v2p[PageAddr(dbuf, j)]
  BY DEF ClosedPage
<1>9. y % g \in 0 .. g - 1
  BY <1>1, <1>2, DivMod
<1>10. ClosedPage(v2p, chunk, dbuf, i)
          = [phys |-> v2p[PageAddr(dbuf, i)], left |-> g - 1 - ((y + 1) % g)]
  BY <1>2, <1>3, <1>4 DEF ClosedPage
<1>11. CASE y % g < g - 1
  <2>1. (y + 1) % g = (y % g) + 1 /\ (y + 1) \div g = y \div g
    BY <1>1, <1>2, <1>11, NextInChunk
  <2>2. here.left > 0 /\ g - 1 - ((y + 1) % g) = here.left - 1
    <3>. HIDE DEF y, g, here
    <3>. QED
      BY <1>1, <1>8, <1>9, <1>11, <2>1
  <2>3. v2p[PageAddr(dbuf, i)] = here.phys + PageSize
    <3>1. (PageAddr(dbuf, i) + 0) \div chunk = (y + 1) \div g
      <4>1. 0 \in 0 .. PageSize - 1
        BY <1>1
      <4>2. (PageAddr(dbuf, i) + 0) \div chunk = ((dbuf \div PageSize) + i) \div g
        BY <4>1, ChunkOfByte
      <4>. QED
        BY <1>2, <1>3, <4>2
    <3>2. PageAddr(dbuf, i) \div chunk = y \div g
      BY <1>4, <2>1, <3>1
    <3>3. CASE j = 0
      <4>1. dbuf \div chunk = y \div g
        BY <1>3, <1>7, <3>3, ChunkOfByte
      <4>2. dbuf \in dbuf .. dbuf + n - 1
        OBVIOUS
      <4>3. v2p[PageAddr(dbuf, i)] = v2p[dbuf] + (PageAddr(dbuf, i) - dbuf) /\ v2p[dbuf] \in Int
        BY <1>6, <3>2, <4>1, <4>2 DEF Linear
      <4>4. PageAddr(dbuf, i) - dbuf = p - PageOff(dbuf)
        BY <1>1, <1>4, <1>7, <3>3
      <4>. QED
        BY <1>1, <1>7, <1>8, <3>3, <4>3, <4>4
    <3>4. CASE j # 0
      <4>1. (PageAddr(dbuf, j) + 0) \div chunk = y \div g
        <5>1. 0 \in 0 .. PageSize - 1
          BY <1>1
        <5>. QED
          BY <5>1, ChunkOfByte
      <4>2. PageAddr(dbuf, j) \div chunk = y \div g
        BY <1>4, <4>1
      <4>3. j \in 1 .. NPages(dbuf, n) - 1
        BY <1>3, <1>5, <3>4
      <4>4. PageAddr(dbuf, j) \in dbuf .. dbuf + n - 1
        BY <1>1, <4>3, PagesInside
      <4>5. /\ v2p[PageAddr(dbuf, i)] = v2p[PageAddr(dbuf, j)] + (PageAddr(dbuf, i) - PageAddr(dbuf, j))
            /\ v2p[PageAddr(dbuf, j)] \in Int
        BY <1>6, <3>2, <4>2, <4>4 DEF Linear
      <4>. QED
        BY <1>1, <1>4, <1>8, <3>4, <4>5
    <3>. QED
      BY <3>3, <3>4
  <2>4. NextPage(v2p, chunk, here, dbuf - PageOff(dbuf) + i * PageSize)
           = [phys |-> here.phys + PageSize, left |-> here.left - 1]
    BY <2>2 DEF NextPage
  <2>. QED
    BY <1>3, <1>10, <2>2, <2>3, <2>4
<1>12. CASE ~(y % g < g - 1)
  <2>1. (y + 1) % g = 0 /\ y % g = g - 1
    BY <1>1, <1>2, <1>12, NextInChunk
  <2>2. ~(here.left > 0) /\ g - 1 - ((y + 1) % g) = g - 1
    <3>. HIDE DEF y, g, here
    <3>. QED
      BY <1>1, <1>8, <2>1
  <2>3. NextPage(v2p, chunk, here, PageAddr(dbuf, i))
           = [phys |-> v2p[PageAddr(dbuf, i)], left |-> g - 1]
    BY <2>2 DEF NextPage
  <2>. QED
    BY <1>3, <1>4, <1>10, <2>2, <2>3
<1>. QED
  BY <1>11, <1>12

\* The walk computes the closed form: a page where it did not would have a
\* smallest one before it, and that follows from the page in front of it.
LEMMA PagesClosed ==
    ASSUME NEW v2p, NEW chunk, Layout(chunk), NEW dbuf \in Nat, NEW n \in Nat \ {0},
           Linear(v2p, chunk, dbuf, dbuf + n - 1)
    PROVE  \A i \in 0 .. NPages(dbuf, n) - 1 :
               Pages(v2p, chunk, dbuf, n)[i] = ClosedPage(v2p, chunk, dbuf, i)
<1>. DEFINE D == 0 .. NPages(dbuf, n) - 1
            walk == Pages(v2p, chunk, dbuf, n)
            closed == [i \in D |-> ClosedPage(v2p, chunk, dbuf, i)]
            after(i) == dbuf - PageOff(dbuf) + i * PageSize
            Wrong == {i \in D : walk[i] # closed[i]}
<1>1. NPages(dbuf, n) \in Nat
  BY BufferPages DEF Layout
<1>2. ASSUME NEW i \in D, i # 0
      PROVE  i - 1 \in D /\ closed[i] = NextPage(v2p, chunk, closed[i - 1], after(i))
  <2>1. PICK j \in Nat : j = i - 1
    BY <1>1, <1>2
  <2>2. i = j + 1 /\ j + 1 <= NPages(dbuf, n) - 1 /\ j \in D
    BY <1>1, <1>2, <2>1
  <2>3. ClosedPage(v2p, chunk, dbuf, j + 1)
           = NextPage(v2p, chunk, ClosedPage(v2p, chunk, dbuf, j),
                      dbuf - PageOff(dbuf) + (j + 1) * PageSize)
    BY <2>2, ClosedNext
  <2>4. closed[i] = ClosedPage(v2p, chunk, dbuf, i)
        /\ closed[j] = ClosedPage(v2p, chunk, dbuf, j)
    BY <1>2, <2>2
  <2>. QED
    BY <2>1, <2>2, <2>3, <2>4
<1>3. ASSUME NEW i \in D, i = 0
      PROVE  closed[i] = FirstPage(v2p, chunk, dbuf)
  BY <1>3, ClosedFirst
<1>4. IsPages(closed, v2p, chunk, dbuf, n)
  <2>. DEFINE step == [i \in D |-> IF i = 0 THEN FirstPage(v2p, chunk, dbuf)
                                   ELSE NextPage(v2p, chunk, closed[i - 1], after(i))]
  <2>1. \A i \in D : closed[i] = step[i]
    <3>. HIDE DEF closed
    <3>. QED
      BY <1>2, <1>3
  <2>2. closed = [i \in D |-> closed[i]] /\ step = [i \in D |-> step[i]]
    OBVIOUS
  <2>3. closed = step
    <3>. HIDE DEF closed, step
    <3>. QED
      BY <2>1, <2>2
  <2>. QED
    BY <2>3 DEF IsPages
<1>5. IsPages(walk, v2p, chunk, dbuf, n)
  BY <1>4, PagesUnfold
<1>6. \A i \in D : walk[i] = IF i = 0 THEN FirstPage(v2p, chunk, dbuf)
                             ELSE NextPage(v2p, chunk, walk[i - 1], after(i))
  <2>. HIDE DEF walk
  <2>. QED
    BY <1>5 DEF IsPages
<1>. HIDE DEF walk, closed, after
<1>7. ASSUME Wrong # {} PROVE FALSE
  <2>1. Wrong \in SUBSET Nat
    BY <1>1
  <2>2. PICK i \in Wrong : \A x \in Wrong : i <= x
    BY <1>7, <2>1, SmallestNat
  <2>3. i \in D /\ i \in Nat /\ walk[i] # closed[i]
    BY <1>1, <2>2
  <2>4. i # 0
    BY <1>3, <1>6, <2>3
  <2>5. i - 1 \in D /\ i - 1 \notin Wrong
    BY <1>2, <2>2, <2>3, <2>4
  <2>6. walk[i - 1] = closed[i - 1]
    BY <2>5
  <2>. QED
    BY <1>2, <1>6, <2>3, <2>4, <2>6
<1>8. \A i \in D : walk[i] = closed[i]
  BY <1>7
<1>. QED
  BY <1>8 DEF walk, closed

-----------------------------------------------------------------------------
(***************************************************************************)
(* The controller's reading of a data pointer.                             *)
(***************************************************************************)
\* The entries of dp are the pages of the buffer.
PageEntries(dp, v2p, dbuf, n) ==
    /\ dp.prp1 = v2p[dbuf]
    /\ NPages(dbuf, n) = 2 => dp.prp2 = v2p[PageAddr(dbuf, 1)]
    /\ NPages(dbuf, n) > 2 =>
          \A i \in 1 .. NPages(dbuf, n) - 1 : dp.list[i] = v2p[PageAddr(dbuf, i)]

LEMMA EntriesDescribe ==
    ASSUME PageSize \in Nat \ {0}, NEW v2p, NEW dp, NEW dbuf \in Nat, NEW n \in Nat \ {0},
           Linear(v2p, PageSize, dbuf, dbuf + n - 1),
           PageEntries(dp, v2p, dbuf, n)
    PROVE  DescribesBuffer(v2p, dp, dbuf, n)
<1>. SUFFICES ASSUME NEW k \in 0 .. n - 1
              PROVE  DeviceByte(dp, n, k) = v2p[dbuf + k]
  BY DEF DescribesBuffer
<1>. DEFINE p == PageSize
            off == PageOff(dbuf)
            entry == (off + k) \div p
            at == (off + k) % p
            last == (off + n - 1) \div p
<1>1. k \in Nat /\ k <= n - 1
  OBVIOUS
<1>2. off \in 0 .. p - 1 /\ NPages(dbuf, n) = last + 1 /\ NPages(dbuf, n) \in Nat
  BY BufferPages
<1>3. dp.prp1 = v2p[dbuf] /\ dp.prp1 % p = off /\ dp.prp1 \in Int
  <2>1. dbuf \in dbuf .. dbuf + n - 1
    OBVIOUS
  <2>. QED
    BY <2>1 DEF PageEntries, Linear, PageOff
<1>4. entry \in Nat /\ at \in 0 .. p - 1 /\ dbuf + k = PageAddr(dbuf, entry) + at
  BY <1>1, ByteInPage
<1>5. entry <= last /\ last \in Nat
  <2>. DEFINE x == off + k
              z == off + n - 1
  <2>1. x \in Nat /\ z \in Nat /\ x <= z
    BY <1>1, <1>2
  <2>. HIDE DEF x, z
  <2>2. /\ x \div p \in Nat /\ x % p \in 0 .. p - 1 /\ x = (p * (x \div p)) + (x % p)
        /\ z \div p \in Nat /\ z % p \in 0 .. p - 1 /\ z = (p * (z \div p)) + (z % p)
    BY <2>1, DivMod
  <2>4. PICK a \in Nat, b \in Nat : a = x \div p /\ b = z \div p
    BY <2>2
  <2>3. b < a => p * b + p <= p * a
    <3>1. p \in Nat /\ a \in Int /\ b \in Int
      OBVIOUS
    <3>. QED
      BY ONLY <3>1, MulSteps
  <2>5. PICK pa \in Int, pb \in Int : pa = p * a /\ pb = p * b
    OBVIOUS
  <2>6. PICK r \in 0 .. p - 1, s \in 0 .. p - 1 : r = x % p /\ s = z % p
    BY <2>2
  <2>7. x = pa + r /\ z = pb + s /\ (b < a => pb + p <= pa)
    BY <2>2, <2>3, <2>4, <2>5, <2>6
  <2>8. a <= b
    BY <2>1, <2>4, <2>5, <2>6, <2>7
  <2>. QED
    BY <2>4, <2>8 DEF x, z
<1>6. DeviceByte(dp, n, k) =
          CASE entry = 0 -> dp.prp1 + k
            [] entry > 0 /\ last = 1 -> dp.prp2 + at
            [] OTHER -> dp.list[entry] + at
  BY <1>3 DEF DeviceByte
<1>7. dbuf + k \in dbuf .. dbuf + n - 1
  BY <1>1
<1>. HIDE DEF entry, at, last, off
<1>8. CASE entry = 0
  <2>1. dbuf = PageAddr(dbuf, 0) + PageOff(dbuf) /\ PageAddr(dbuf, 0) = p * (dbuf \div p)
        /\ dbuf \div p \in Nat /\ PageOff(dbuf) \in 0 .. p - 1
    BY BufferStart
  <2>2. (p * (dbuf \div p) + at) \div p = dbuf \div p
    <3>1. PICK y \in Nat : y = dbuf \div p
      BY <2>1
    <3>2. p \in Nat \ {0} /\ y \in Int /\ p * y + at \in Int
          /\ p * y <= p * y + at /\ p * y + at < p * y + p
      BY <1>4
    <3>3. (p * y + at) \div p = y
      BY ONLY <3>2, QuotientIs
    <3>. QED
      BY <3>1, <3>3
  <2>3. (dbuf + k) \div p = dbuf \div p
    BY <1>4, <1>8, <2>1, <2>2
  <2>4. v2p[dbuf + k] = v2p[dbuf] + ((dbuf + k) - dbuf)
    <3>1. dbuf \in dbuf .. dbuf + n - 1
      OBVIOUS
    <3>. QED
      BY <1>7, <2>3, <3>1 DEF Linear
  <2>5. (dbuf + k) - dbuf = k
    BY <1>1
  <2>6. DeviceByte(dp, n, k) = dp.prp1 + k
    BY <1>6, <1>8
  <2>. QED
    BY <1>3, <2>4, <2>5, <2>6
<1>9. CASE entry # 0
  <2>1. entry \in 1 .. NPages(dbuf, n) - 1 /\ entry > 0
    BY <1>2, <1>4, <1>5, <1>9
  <2>2. PageAddr(dbuf, entry) \in dbuf .. dbuf + n - 1
    BY <2>1, PagesInside
  <2>3. PageAddr(dbuf, entry) \div p = (dbuf + k) \div p
    <3>1. dbuf \div p \in Nat
      BY BufferStart
    <3>2. PICK y \in Nat : y = (dbuf \div p) + entry
      BY <1>4, <3>1
    <3>3. PageAddr(dbuf, entry) = p * y
      BY <3>2 DEF PageAddr
    <3>4. p \in Nat \ {0} /\ y \in Int /\ p * y + at \in Int /\ p * y \in Int
          /\ p * y <= p * y + at /\ p * y + at < p * y + p
          /\ p * y <= p * y /\ p * y < p * y + p
      BY <1>4
    <3>5. (p * y + at) \div p = y /\ (p * y) \div p = y
      BY ONLY <3>4, QuotientIs
    <3>. QED
      BY <1>4, <3>3, <3>5
  <2>4. v2p[dbuf + k] = v2p[PageAddr(dbuf, entry)] + ((dbuf + k) - PageAddr(dbuf, entry))
    BY <1>7, <2>2, <2>3 DEF Linear
  <2>5. (dbuf + k) - PageAddr(dbuf, entry) = at
    BY <1>4, <2>2
  <2>6. CASE last = 1
    <3>1. entry = 1 /\ NPages(dbuf, n) = 2
      BY <1>2, <1>4, <1>5, <1>9, <2>6
    <3>2. DeviceByte(dp, n, k) = dp.prp2 + at
      BY <1>6, <2>1, <2>6
    <3>. QED
      BY <2>4, <2>5, <3>1, <3>2 DEF PageEntries
  <2>7. CASE last # 1
    <3>1. NPages(dbuf, n) > 2
      BY <1>2, <1>4, <1>5, <1>9, <2>7
    <3>2. DeviceByte(dp, n, k) = dp.list[entry] + at
      BY <1>6, <1>9, <2>7
    <3>. QED
      BY <2>1, <2>4, <2>5, <3>1, <3>2 DEF PageEntries
  <2>. QED
    BY <2>6, <2>7
<1>. QED
  BY <1>8, <1>9

\* Bytes of a page are bytes of a chunk.
LEMMA SamePageSameChunk ==
    ASSUME NEW chunk, Layout(chunk), NEW a \in Nat, NEW b \in Nat,
           a \div PageSize = b \div PageSize
    PROVE  a \div chunk = b \div chunk
<1>1. PageSize \in Nat \ {0}
  BY DEF Layout
<1>2. ASSUME NEW c \in Nat
      PROVE  c \div chunk = ((c \div PageSize) + 0) \div (chunk \div PageSize)
  <2>1. c = PageAddr(c, 0) + PageOff(c) /\ PageOff(c) \in 0 .. PageSize - 1
    BY <1>1, BufferStart
  <2>2. (PageAddr(c, 0) + PageOff(c)) \div chunk
            = ((c \div PageSize) + 0) \div (chunk \div PageSize)
    BY <2>1, ChunkOfByte
  <2>. QED
    BY <2>1, <2>2
<1>. QED
  BY <1>2

LEMMA LinearPages ==
    ASSUME NEW v2p, NEW chunk, Layout(chunk), NEW lo \in Nat, NEW hi \in Int,
           Linear(v2p, chunk, lo, hi)
    PROVE  Linear(v2p, PageSize, lo, hi)
<1>. SUFFICES ASSUME NEW a \in lo .. hi, NEW b \in lo .. hi, a \div PageSize = b \div PageSize
              PROVE  v2p[b] = v2p[a] + (b - a)
  BY DEF Linear
<1>1. a \in Nat /\ b \in Nat
  OBVIOUS
<1>2. a \div chunk = b \div chunk
  BY <1>1, SamePageSameChunk
<1>. QED
  BY <1>2 DEF Linear

-----------------------------------------------------------------------------
(***************************************************************************)
(* What the builders of contiguous buffers promise.                        *)
(***************************************************************************)
\* nvme_request_prep_command_prps_contig describes every buffer the list page
\* has room for, however often it enters another chunk, whether it starts at
\* a page or inside one.
THEOREM ContigDescribes ==
    ASSUME PrpListLen \in Nat \ {0},
           NEW v2p, NEW chunk, Layout(chunk), NEW dbuf \in Nat, NEW n \in Nat \ {0},
           Linear(v2p, chunk, dbuf, dbuf + n - 1),
           NPages(dbuf, n) <= 1 + PrpListLen
    PROVE  DescribesBuffer(v2p, PrepContig(v2p, chunk, dbuf, n), dbuf, n)
<1>. DEFINE dp == PrepContig(v2p, chunk, dbuf, n)
            npages == NPages(dbuf, n)
            rest == PagePhys(v2p, chunk, dbuf, n)
<1>1. PageSize \in Nat \ {0} /\ npages \in Nat /\ npages >= 1
  <2>1. PageSize \in Nat \ {0}
    BY DEF Layout
  <2>2. PageOff(dbuf) \in Nat /\ npages \in Nat
        /\ npages = ((PageOff(dbuf) + n - 1) \div PageSize) + 1
    BY <2>1, BufferPages
  <2>3. PICK x \in Nat : x = PageOff(dbuf) + n - 1
    BY <2>2
  <2>4. x \div PageSize \in Nat
    BY <2>1, DivMod
  <2>. QED
    BY <2>1, <2>2, <2>3, <2>4
<1>2. ASSUME NEW i \in 1 .. npages - 1 PROVE rest[i] = v2p[PageAddr(dbuf, i)]
  <2>1. i \in 0 .. npages - 1 /\ i # 0
    BY <1>1
  <2>2. rest[i] = Pages(v2p, chunk, dbuf, n)[i].phys
    BY DEF PagePhys
  <2>3. Pages(v2p, chunk, dbuf, n)[i] = ClosedPage(v2p, chunk, dbuf, i)
    BY <2>1, PagesClosed
  <2>. QED
    BY <2>1, <2>2, <2>3 DEF ClosedPage
<1>3. Linear(v2p, PageSize, dbuf, dbuf + n - 1)
  BY LinearPages
<1>. HIDE DEF npages, rest
<1>4. dp = CASE npages > 1 + PrpListLen -> Abort
             [] npages = 1 -> DataPointer(v2p[dbuf], Unset, <<>>)
             [] npages = 2 -> DataPointer(v2p[dbuf], rest[1], <<>>)
             [] OTHER -> DataPointer(v2p[dbuf], ListAddr, rest)
  BY DEF PrepContig, npages, rest
<1>5. ~(npages > 1 + PrpListLen)
  BY <1>1 DEF npages
<1>6. PageEntries(dp, v2p, dbuf, n)
  <2>. HIDE DEF dp
  <2>1. CASE npages = 1
    <3>1. dp.prp1 = v2p[dbuf]
      BY <1>4, <1>5, <2>1 DEF DataPointer
    <3>. QED
      BY <2>1, <3>1 DEF PageEntries, npages
  <2>2. CASE npages = 2
    <3>1. dp.prp1 = v2p[dbuf] /\ dp.prp2 = rest[1]
      BY <1>4, <1>5, <2>2 DEF DataPointer
    <3>2. rest[1] = v2p[PageAddr(dbuf, 1)]
      BY <1>2, <2>2
    <3>. QED
      BY <2>2, <3>1, <3>2 DEF PageEntries, npages
  <2>3. CASE npages > 2
    <3>1. dp.prp1 = v2p[dbuf] /\ dp.list = rest
      BY <1>1, <1>4, <1>5, <2>3 DEF DataPointer
    <3>. QED
      BY <1>2, <2>3, <3>1 DEF PageEntries, npages
  <2>. QED
    BY <1>1, <2>1, <2>2, <2>3
<1>. QED
  BY <1>1, <1>3, <1>6, EntriesDescribe

-----------------------------------------------------------------------------
(***************************************************************************)
(* Iovecs: the bytes in front of each segment.                             *)
(***************************************************************************)
Segment == [base : Nat, len : Nat \ {0}]

\* Segments start at pages, and all but the last are whole pages.
PagedIov(dvec) ==
    /\ dvec \in Seq(Segment) /\ Len(dvec) >= 1
    /\ \A i \in 1 .. Len(dvec) : dvec[i].base % PageSize = 0
    /\ \A i \in 1 .. Len(dvec) - 1 : dvec[i].len % PageSize = 0

\* Sums of whole pages.
LEMMA WholePages ==
    ASSUME PageSize \in Nat \ {0}, NEW a \in Nat, NEW n \in Nat, a % PageSize = 0
    PROVE  /\ a = PageSize * (a \div PageSize) /\ a \div PageSize \in Nat
           /\ (a + n) % PageSize = n % PageSize
           /\ (a + n) \div PageSize = (a \div PageSize) + (n \div PageSize)
           /\ Ceil(a + n) = (a \div PageSize) + Ceil(n) /\ Ceil(n) \in Nat
           /\ Ceil(a) = a \div PageSize
<1>. DEFINE p == PageSize
<1>1. p \in Nat \ {0}
  OBVIOUS
<1>. HIDE DEF p
<1>2. PICK c \in Nat : c = a \div p /\ a = p * c
  <2>1. a \div p \in Nat /\ a = (p * (a \div p)) + (a % p) /\ a % p = 0
    BY <1>1, DivMod DEF p
  <2>2. PICK c \in Nat : c = a \div p
    BY <2>1
  <2>3. p * c + 0 = p * c
    BY <1>1
  <2>. QED
    BY <2>1, <2>2, <2>3
<1>3. ASSUME NEW x \in Nat
      PROVE  /\ (a + x) % p = x % p /\ x \div p \in Nat
             /\ (a + x) \div p = c + (x \div p)
  <2>1. PICK d \in Nat, m \in 0 .. p - 1 : d = x \div p /\ m = x % p /\ x = (p * d) + m
    BY <1>1, DivMod
  <2>2. PICK q \in Nat : q = c + d
    OBVIOUS
  <2>3. p * q = p * c + p * d /\ p * c \in Int /\ p * d \in Int
    BY <1>1, <2>2
  <2>4. p \in Nat \ {0} /\ q \in Int /\ a + x \in Int /\ p * q <= a + x /\ a + x < p * q + p
    BY <1>1, <1>2, <2>1, <2>3
  <2>5. (a + x) \div p = q /\ (a + x) % p = (a + x) - p * q
    BY ONLY <2>4, QuotientIs
  <2>6. (a + x) - p * q = m
    BY <1>1, <1>2, <2>1, <2>3
  <2>. QED
    BY <2>1, <2>2, <2>5, <2>6
<1>4. PICK y \in Nat : y = n + PageSize - 1
  OBVIOUS
<1>5. Ceil(n) = y \div p /\ Ceil(a + n) = (a + y) \div p
  <2>1. a + n + PageSize - 1 = a + y
    BY <1>4
  <2>. QED
    BY <1>4, <2>1 DEF Ceil, p
<1>6. Ceil(a) = c
  <2>1. PICK z \in Nat : z = PageSize - 1
    OBVIOUS
  <2>2. z \div p = 0
    <3>1. p \in Nat \ {0} /\ 0 \in Int /\ z \in Int /\ p * 0 <= z /\ z < p * 0 + p
      BY <1>1, <2>1 DEF p
    <3>. QED
      BY ONLY <3>1, QuotientIs
  <2>3. a + PageSize - 1 = a + z
    BY <2>1
  <2>4. (a + z) \div p = c
    BY <1>3, <2>2
  <2>5. Ceil(a) = (a + z) \div p
    BY <2>3 DEF Ceil, p
  <2>. QED
    BY <2>4, <2>5
<1>. QED
  BY <1>2, <1>3, <1>4, <1>5, <1>6 DEF p

PartialBefore(f, dvec, m) ==
    f = [i \in 1 .. m |-> IF i = 1 THEN 0 ELSE f[i - 1] + dvec[i - 1].len]

LEMMA BeforeExists ==
    ASSUME NEW dvec, NEW m \in Nat \ {0}
    PROVE  \E f : PartialBefore(f, dvec, m)
<1>. DEFINE Without == {x \in Nat \ {0} : ~\E f : PartialBefore(f, dvec, x)}
<1>1. ASSUME Without # {} PROVE FALSE
  <2>1. Without \in SUBSET Nat
    OBVIOUS
  <2>2. PICK x \in Without : \A y \in Without : x <= y
    <3>. HIDE DEF Without
    <3>. QED
      BY <1>1, <2>1, SmallestNat
  <2>3. x \in Nat \ {0} /\ ~\E f : PartialBefore(f, dvec, x)
    BY <2>2
  <2>4. CASE x = 1
    <3>1. PartialBefore([i \in 1 .. 1 |-> 0], dvec, 1)
      BY DEF PartialBefore
    <3>. QED
      BY <2>3, <2>4, <3>1
  <2>5. CASE x # 1
    <3>1. x - 1 \in Nat \ {0} /\ x - 1 \notin Without
      BY <2>2, <2>3, <2>5
    <3>2. PICK g : PartialBefore(g, dvec, x - 1)
      BY <3>1
    <3>. DEFINE f == [i \in 1 .. x |-> IF i = x THEN g[x - 1] + dvec[x - 1].len ELSE g[i]]
                h == [i \in 1 .. x |-> IF i = 1 THEN 0 ELSE f[i - 1] + dvec[i - 1].len]
    <3>3. ASSUME NEW i \in 1 .. x - 1
          PROVE  g[i] = IF i = 1 THEN 0 ELSE g[i - 1] + dvec[i - 1].len
      BY <3>2 DEF PartialBefore
    <3>4. ASSUME NEW i \in 1 .. x PROVE f[i] = h[i]
      <4>1. CASE i = x
        <5>1. x # 1 /\ x - 1 \in 1 .. x /\ x - 1 # x
          BY <2>3, <2>5
        <5>. QED
          BY <4>1, <5>1
      <4>2. CASE i # x
        <5>1. i \in 1 .. x - 1 /\ (i # 1 => i - 1 \in 1 .. x /\ i - 1 # x)
          BY <2>3, <4>2
        <5>. QED
          BY <3>3, <4>2, <5>1
      <4>. QED
        BY <4>1, <4>2
    <3>5. f = h
      <4>1. f = [i \in 1 .. x |-> f[i]] /\ h = [i \in 1 .. x |-> h[i]]
        OBVIOUS
      <4>. HIDE DEF f, h
      <4>. QED
        BY <3>4, <4>1
    <3>6. PartialBefore(f, dvec, x)
      <4>1. f = [i \in 1 .. x |-> IF i = 1 THEN 0 ELSE f[i - 1] + dvec[i - 1].len]
        BY <3>5
      <4>. HIDE DEF f
      <4>. QED
        BY <4>1 DEF PartialBefore
    <3>. QED
      BY <2>3, <3>6
  <2>. QED
    BY <2>4, <2>5
<1>. QED
  BY <1>1

LEMMA BeforeSteps ==
    ASSUME NEW dvec \in Seq(Segment)
    PROVE  /\ Before(dvec)[1] = 0
           /\ \A i \in 1 .. Len(dvec) : Before(dvec)[i + 1] = Before(dvec)[i] + dvec[i].len
<1>1. PICK m \in Nat \ {0} : m = Len(dvec) + 1
  OBVIOUS
<1>2. Before(dvec) = CHOOSE f : PartialBefore(f, dvec, Len(dvec) + 1)
  BY DEF Before, PartialBefore
<1>3. PartialBefore(Before(dvec), dvec, m)
  BY <1>1, <1>2, BeforeExists
<1>4. ASSUME NEW i \in 1 .. m
      PROVE  Before(dvec)[i] = IF i = 1 THEN 0 ELSE Before(dvec)[i - 1] + dvec[i - 1].len
  BY <1>3 DEF PartialBefore
<1>5. 1 \in 1 .. m
  BY <1>1
<1>6. ASSUME NEW i \in 1 .. Len(dvec)
      PROVE  Before(dvec)[i + 1] = Before(dvec)[i] + dvec[i].len
  <2>1. PICK j \in 1 .. m : j = i + 1
    BY <1>1
  <2>2. j # 1 /\ j - 1 = i
    BY <2>1
  <2>. QED
    BY <1>4, <2>1, <2>2
<1>. QED
  BY <1>4, <1>5, <1>6

\* In front of every segment are whole pages, more the further it is back.
LEMMA BeforeFacts ==
    ASSUME PageSize \in Nat \ {0}, NEW dvec, PagedIov(dvec)
    PROVE  /\ Before(dvec)[1] = 0
           /\ \A i \in 1 .. Len(dvec) : Before(dvec)[i + 1] = Before(dvec)[i] + dvec[i].len
           /\ \A i \in 1 .. Len(dvec) + 1 : Before(dvec)[i] \in Nat
           /\ \A i \in 1 .. Len(dvec) : Before(dvec)[i] % PageSize = 0
           /\ \A i, j \in 1 .. Len(dvec) + 1 : i <= j => Before(dvec)[i] <= Before(dvec)[j]
<1>. DEFINE B == Before(dvec)
<1>1. PICK N \in Nat \ {0} : N = Len(dvec)
  BY DEF PagedIov
<1>2. /\ B[1] = 0
      /\ \A i \in 1 .. N : B[i + 1] = B[i] + dvec[i].len
  BY <1>1, BeforeSteps DEF PagedIov
<1>3. /\ \A i \in 1 .. N : dvec[i].len \in Nat
      /\ \A i \in 1 .. N - 1 : dvec[i].len % PageSize = 0
  <2>1. ASSUME NEW i \in 1 .. N PROVE dvec[i].len \in Nat
    <3>1. dvec[i] \in Segment
      BY <1>1 DEF PagedIov
    <3>. QED
      BY <3>1 DEF Segment
  <2>2. \A i \in 1 .. N - 1 : dvec[i].len % PageSize = 0
    BY <1>1 DEF PagedIov
  <2>. QED
    BY <2>1, <2>2
<1>. HIDE DEF B
<1>4. ASSUME NEW i \in 2 .. N + 1
      PROVE  i - 1 \in 1 .. N /\ B[i] = B[i - 1] + dvec[i - 1].len
  <2>1. PICK j \in 1 .. N : j = i - 1
    BY <1>1
  <2>2. j + 1 = i
    BY <2>1
  <2>. QED
    BY <1>2, <2>1, <2>2
<1>5. \A i \in 1 .. N + 1 : B[i] \in Nat
  <2>. DEFINE Bad == {i \in 1 .. N + 1 : B[i] \notin Nat}
  <2>1. ASSUME Bad # {} PROVE FALSE
    <3>1. Bad \in SUBSET Nat
      OBVIOUS
    <3>2. PICK i \in Bad : \A x \in Bad : i <= x
      <4>. HIDE DEF Bad
      <4>. QED
        BY <2>1, <3>1, SmallestNat
    <3>3. i \in 2 .. N + 1 /\ B[i] \notin Nat
      BY <1>2
    <3>4. i - 1 \in 1 .. N /\ i - 1 \notin Bad
      BY <3>2, <3>3
    <3>5. B[i - 1] \in Nat
      BY <1>1, <3>4
    <3>. QED
      BY <1>3, <1>4, <3>3, <3>4, <3>5
  <2>. QED
    BY <2>1
<1>6. \A i \in 1 .. N : B[i] % PageSize = 0
  <2>. DEFINE Bad == {i \in 1 .. N : B[i] % PageSize # 0}
  <2>1. ASSUME Bad # {} PROVE FALSE
    <3>1. Bad \in SUBSET Nat
      OBVIOUS
    <3>2. PICK i \in Bad : \A x \in Bad : i <= x
      <4>. HIDE DEF Bad
      <4>. QED
        BY <2>1, <3>1, SmallestNat
    <3>3. i \in 1 .. N /\ B[i] % PageSize # 0
      BY <3>2
    <3>4. 0 % PageSize = 0
      OBVIOUS
    <3>5. i \in 2 .. N + 1
      BY <1>1, <1>2, <3>3, <3>4
    <3>6. i - 1 \in 1 .. N - 1 /\ i - 1 \in 1 .. N /\ i - 1 \notin Bad
      BY <1>1, <3>2, <3>3, <3>5
    <3>7. B[i - 1] % PageSize = 0 /\ B[i - 1] \in Nat /\ dvec[i - 1].len \in Nat
          /\ dvec[i - 1].len % PageSize = 0
      BY <1>1, <1>3, <1>5, <3>6
    <3>8. (B[i - 1] + dvec[i - 1].len) % PageSize = 0
      BY <3>7, WholePages
    <3>. QED
      BY <1>4, <3>3, <3>5, <3>8
  <2>. QED
    BY <2>1
<1>7. ASSUME NEW i \in 1 .. N + 1, NEW j \in 1 .. N + 1, i <= j
      PROVE  B[i] <= B[j]
  <2>. DEFINE Bad == {k \in 1 .. N + 1 : i <= k /\ ~(B[i] <= B[k])}
  <2>1. ASSUME Bad # {} PROVE FALSE
    <3>1. Bad \in SUBSET Nat
      OBVIOUS
    <3>2. PICK k \in Bad : \A x \in Bad : k <= x
      <4>. HIDE DEF Bad
      <4>. QED
        BY <2>1, <3>1, SmallestNat
    <3>3. k \in 1 .. N + 1 /\ i <= k /\ ~(B[i] <= B[k])
      BY <3>2
    <3>4. i # k
      BY <1>5, <3>3
    <3>5. k \in 2 .. N + 1 /\ i <= k - 1 /\ k - 1 \in 1 .. N + 1 /\ k - 1 \notin Bad
      BY <1>1, <3>2, <3>3, <3>4
    <3>6. B[i] <= B[k - 1] /\ B[k - 1] \in Nat /\ B[i] \in Nat
      BY <1>5, <3>5
    <3>7. B[k] = B[k - 1] + dvec[k - 1].len /\ dvec[k - 1].len \in Nat
      BY <1>3, <1>4, <3>5
    <3>. QED
      BY <3>3, <3>6, <3>7
  <2>. QED
    BY <1>7, <2>1
<1>. QED
  BY <1>1, <1>2, <1>5, <1>6, <1>7 DEF B

\* A table with an entry per chunk translates linearly within chunks.
LEMMA LutLinear ==
    ASSUME NEW chunk, Layout(chunk), NEW v2p, NEW lut, NEW lo \in Nat, NEW hi \in Int,
           \A a \in lo .. hi :
              /\ lut[(a \div chunk) + 1] \in Nat /\ lut[(a \div chunk) + 1] % PageSize = 0
              /\ v2p[a] = lut[(a \div chunk) + 1] + (a % chunk)
    PROVE  Linear(v2p, chunk, lo, hi)
<1>1. PageSize \in Nat \ {0} /\ chunk \in Nat \ {0} /\ chunk % PageSize = 0
  BY DEF Layout
<1>2. ASSUME NEW a \in lo .. hi
      PROVE  v2p[a] \in Int /\ v2p[a] % PageSize = a % PageSize
  <2>1. a \in Nat
    OBVIOUS
  <2>2. PICK m \in Nat : m = a % chunk
    <3>1. a % chunk \in 0 .. chunk - 1
      BY <1>1, <2>1, DivMod
    <3>. QED
      BY <3>1
  <2>3. PICK l \in Nat : l = lut[(a \div chunk) + 1] /\ l % PageSize = 0 /\ v2p[a] = l + m
    BY <2>2
  <2>4. (l + m) % PageSize = m % PageSize
    BY <1>1, <2>3, WholePages
  <2>5. PICK q \in Nat : q = a \div chunk
    BY <1>1, <2>1, DivMod
  <2>6. PICK cq \in Nat : cq = chunk * q /\ a = cq + m
    <3>1. a = (chunk * (a \div chunk)) + (a % chunk)
      BY <1>1, <2>1, DivMod
    <3>2. chunk * q \in Nat
      BY <1>1
    <3>. QED
      BY <2>2, <2>5, <3>1, <3>2
  <2>7. cq % PageSize = 0
    <3>1. PICK g \in Nat : chunk = PageSize * g
      BY ChunkSplit
    <3>2. PICK r \in Nat : r = g * q
      OBVIOUS
    <3>3. (PageSize * g) * q = PageSize * (g * q)
      BY <1>1
    <3>4. cq = PageSize * r
      BY <2>6, <3>1, <3>2, <3>3
    <3>5. PageSize \in Nat \ {0} /\ r \in Int /\ cq \in Int
          /\ PageSize * r <= cq /\ cq < PageSize * r + PageSize
      BY <1>1, <3>4
    <3>6. cq % PageSize = cq - PageSize * r
      BY ONLY <3>5, QuotientIs
    <3>. QED
      BY <3>4, <3>6
  <2>8. (cq + m) % PageSize = m % PageSize
    BY <1>1, <2>7, WholePages
  <2>. QED
    BY <2>3, <2>4, <2>6, <2>8
<1>3. ASSUME NEW a \in lo .. hi, NEW b \in lo .. hi, a \div chunk = b \div chunk
      PROVE  v2p[b] = v2p[a] + (b - a)
  <2>1. a \in Nat /\ b \in Nat
    OBVIOUS
  <2>2. PICK m \in Nat, n \in Nat : m = a % chunk /\ n = b % chunk
    <3>1. a % chunk \in 0 .. chunk - 1 /\ b % chunk \in 0 .. chunk - 1
      BY <1>1, <2>1, DivMod
    <3>. QED
      BY <3>1
  <2>3. PICK q \in Nat : q = a \div chunk /\ q = b \div chunk
    <3>1. a \div chunk \in Nat
      BY <1>1, <2>1, DivMod
    <3>. QED
      BY <1>3, <3>1
  <2>4. PICK cq \in Int : cq = chunk * q
    BY <1>1
  <2>5. a = cq + m /\ b = cq + n
    <3>1. a = (chunk * (a \div chunk)) + (a % chunk) /\ b = (chunk * (b \div chunk)) + (b % chunk)
      BY <1>1, <2>1, DivMod
    <3>. QED
      BY <2>2, <2>3, <2>4, <3>1
  <2>6. PICK l \in Nat : l = lut[q + 1] /\ v2p[a] = l + m /\ v2p[b] = l + n
    BY <2>2, <2>3
  <2>. QED
    BY <2>5, <2>6
<1>. QED
  BY <1>2, <1>3 DEF Linear

-----------------------------------------------------------------------------
(***************************************************************************)
(* Iovecs: the entries of the first segments.                              *)
(***************************************************************************)
PartialFlat(f, seqs, m) ==
    f = [i \in 1 .. m |-> IF i = 1 THEN seqs[i] ELSE f[i - 1] \o seqs[i]]

LEMMA FlatExists ==
    ASSUME NEW seqs, NEW m \in Nat \ {0}
    PROVE  \E f : PartialFlat(f, seqs, m)
<1>. DEFINE Without == {x \in Nat \ {0} : ~\E f : PartialFlat(f, seqs, x)}
<1>1. ASSUME Without # {} PROVE FALSE
  <2>1. Without \in SUBSET Nat
    OBVIOUS
  <2>2. PICK x \in Without : \A y \in Without : x <= y
    <3>. HIDE DEF Without
    <3>. QED
      BY <1>1, <2>1, SmallestNat
  <2>3. x \in Nat \ {0} /\ ~\E f : PartialFlat(f, seqs, x)
    BY <2>2
  <2>4. CASE x = 1
    <3>1. PartialFlat([i \in 1 .. 1 |-> seqs[1]], seqs, 1)
      BY DEF PartialFlat
    <3>. QED
      BY <2>3, <2>4, <3>1
  <2>5. CASE x # 1
    <3>1. x - 1 \in Nat \ {0} /\ x - 1 \notin Without
      BY <2>2, <2>3, <2>5
    <3>2. PICK g : PartialFlat(g, seqs, x - 1)
      BY <3>1
    <3>. DEFINE f == [i \in 1 .. x |-> IF i = x THEN g[x - 1] \o seqs[x] ELSE g[i]]
                h == [i \in 1 .. x |-> IF i = 1 THEN seqs[i] ELSE f[i - 1] \o seqs[i]]
    <3>3. ASSUME NEW i \in 1 .. x - 1
          PROVE  g[i] = IF i = 1 THEN seqs[i] ELSE g[i - 1] \o seqs[i]
      BY <3>2 DEF PartialFlat
    <3>4. ASSUME NEW i \in 1 .. x PROVE f[i] = h[i]
      <4>1. CASE i = x
        <5>1. x # 1 /\ x - 1 \in 1 .. x /\ x - 1 # x
          BY <2>3, <2>5
        <5>. QED
          BY <4>1, <5>1
      <4>2. CASE i # x
        <5>1. i \in 1 .. x - 1 /\ (i # 1 => i - 1 \in 1 .. x /\ i - 1 # x)
          BY <2>3, <4>2
        <5>. QED
          BY <3>3, <4>2, <5>1
      <4>. QED
        BY <4>1, <4>2
    <3>5. f = h
      <4>1. f = [i \in 1 .. x |-> f[i]] /\ h = [i \in 1 .. x |-> h[i]]
        OBVIOUS
      <4>. HIDE DEF f, h
      <4>. QED
        BY <3>4, <4>1
    <3>6. PartialFlat(f, seqs, x)
      <4>1. f = [i \in 1 .. x |-> IF i = 1 THEN seqs[i] ELSE f[i - 1] \o seqs[i]]
        BY <3>5
      <4>. HIDE DEF f
      <4>. QED
        BY <4>1 DEF PartialFlat
    <3>. QED
      BY <2>3, <3>6
  <2>. QED
    BY <2>4, <2>5
<1>. QED
  BY <1>1

LEMMA FlattenUnfolds ==
    ASSUME NEW seqs, NEW N \in Nat \ {0}, Len(seqs) = N
    PROVE  \E f : PartialFlat(f, seqs, N) /\ FlattenSeq(seqs) = f[N]
<1>. DEFINE flat == CHOOSE f : PartialFlat(f, seqs, N)
<1>1. PartialFlat(flat, seqs, N)
  BY FlatExists
<1>2. FlattenSeq(seqs) = flat[N]
  BY DEF FlattenSeq, PartialFlat
<1>. QED
  BY <1>1, <1>2

LEMMA FlattenIn ==
    ASSUME NEW S, NEW seqs \in Seq(Seq(S))
    PROVE  FlattenSeq(seqs) \in Seq(S)
<1>1. CASE Len(seqs) = 0
  <2>1. FlattenSeq(seqs) = seqs
    BY <1>1 DEF FlattenSeq
  <2>2. seqs = <<>>
    BY <1>1
  <2>. QED
    BY <2>1, <2>2
<1>2. CASE Len(seqs) # 0
  <2>1. PICK N \in Nat \ {0} : N = Len(seqs)
    BY <1>2
  <2>2. PICK f : PartialFlat(f, seqs, N) /\ FlattenSeq(seqs) = f[N]
    BY <2>1, FlattenUnfolds
  <2>3. \A i \in 1 .. N : f[i] = IF i = 1 THEN seqs[i] ELSE f[i - 1] \o seqs[i]
    BY <2>2 DEF PartialFlat
  <2>4. \A i \in 1 .. N : seqs[i] \in Seq(S)
    BY <2>1
  <2>. DEFINE Outside == {i \in 1 .. N : f[i] \notin Seq(S)}
  <2>5. ASSUME Outside # {} PROVE FALSE
    <3>1. Outside \in SUBSET Nat
      OBVIOUS
    <3>2. PICK x \in Outside : \A y \in Outside : x <= y
      <4>. HIDE DEF Outside
      <4>. QED
        BY <2>5, <3>1, SmallestNat
    <3>3. x \in 1 .. N /\ f[x] \notin Seq(S)
      BY <3>2
    <3>4. x # 1
      BY <2>3, <2>4, <3>3
    <3>5. PICK w \in 1 .. N : w = x - 1
      BY <3>3, <3>4
    <3>6. f[w] \in Seq(S)
      BY <3>2, <3>3, <3>5
    <3>7. f[x] = f[w] \o seqs[x]
      BY <2>3, <3>3, <3>4, <3>5
    <3>. QED
      BY <2>4, <3>3, <3>6, <3>7
  <2>6. f[N] \in Seq(S)
    BY <2>5
  <2>. QED
    BY <2>2, <2>6
<1>. QED
  BY <1>1, <1>2

LEMMA ConcatMembers ==
    ASSUME NEW S, NEW a \in Seq(S), NEW b \in Seq(S)
    PROVE  ToSet(a \o b) = ToSet(a) \cup ToSet(b)
<1>. DEFINE c == a \o b
<1>1. PICK m \in Nat, n \in Nat : m = Len(a) /\ n = Len(b)
  OBVIOUS
<1>2. /\ DOMAIN a = 1 .. m /\ DOMAIN b = 1 .. n /\ DOMAIN c = 1 .. m + n
      /\ \A i \in 1 .. m : c[i] = a[i]
      /\ \A i \in 1 .. m + n : i > m => c[i] = b[i - m]
  BY <1>1
<1>. HIDE DEF c
<1>3. ASSUME NEW i \in 1 .. n PROVE m + i \in 1 .. m + n /\ c[m + i] = b[i]
  <2>1. m + i \in 1 .. m + n /\ m + i > m /\ (m + i) - m = i
    BY <1>1
  <2>. QED
    BY <1>2, <2>1
<1>4. ToSet(c) \subseteq ToSet(a) \cup ToSet(b)
  <2>. SUFFICES ASSUME NEW i \in 1 .. m + n
                PROVE  c[i] \in ToSet(a) \cup ToSet(b)
    BY <1>2 DEF ToSet
  <2>1. CASE i <= m
    <3>1. i \in 1 .. m
      BY <1>1, <2>1
    <3>. QED
      BY <1>2, <3>1 DEF ToSet
  <2>2. CASE i > m
    <3>1. i - m \in 1 .. n
      BY <1>1, <2>2
    <3>. QED
      BY <1>2, <2>2, <3>1 DEF ToSet
  <2>. QED
    BY <1>1, <2>1, <2>2
<1>5. ToSet(a) \subseteq ToSet(c)
  <2>1. \A i \in 1 .. m : i \in 1 .. m + n
    OBVIOUS
  <2>. QED
    BY <1>2, <2>1 DEF ToSet
<1>6. ToSet(b) \subseteq ToSet(c)
  BY <1>2, <1>3 DEF ToSet
<1>. QED
  BY <1>4, <1>5, <1>6 DEF c

LEMMA FlattenMembers ==
    ASSUME NEW S, NEW seqs \in Seq(Seq(S)), NEW N \in Nat \ {0}, Len(seqs) = N
    PROVE  \A y : y \in ToSet(FlattenSeq(seqs)) <=> \E i \in 1 .. N : y \in ToSet(seqs[i])
<1>1. PICK f : PartialFlat(f, seqs, N) /\ FlattenSeq(seqs) = f[N]
  BY FlattenUnfolds
<1>2. \A i \in 1 .. N : f[i] = IF i = 1 THEN seqs[i] ELSE f[i - 1] \o seqs[i]
  BY <1>1 DEF PartialFlat
<1>3. \A i \in 1 .. N : seqs[i] \in Seq(S)
  OBVIOUS
<1>. DEFINE Upto(i) == \A y : y \in ToSet(f[i]) <=> \E j \in 1 .. i : y \in ToSet(seqs[j])
            Bad == {i \in 1 .. N : ~(f[i] \in Seq(S) /\ Upto(i))}
<1>4. ASSUME Bad # {} PROVE FALSE
  <2>1. Bad \in SUBSET Nat
    OBVIOUS
  <2>2. PICK x \in Bad : \A y \in Bad : x <= y
    <3>. HIDE DEF Bad
    <3>. QED
      BY <1>4, <2>1, SmallestNat
  <2>3. x \in 1 .. N /\ ~(f[x] \in Seq(S) /\ Upto(x))
    BY <2>2
  <2>4. CASE x = 1
    <3>1. f[x] = seqs[1] /\ 1 \in 1 .. N
      BY <1>2, <2>3, <2>4
    <3>2. \A j \in 1 .. x : j = 1
      BY <2>4
    <3>3. Upto(x)
      <4>1. \A y : y \in ToSet(f[x]) <=> y \in ToSet(seqs[1])
        BY <3>1
      <4>2. 1 \in 1 .. x
        BY <2>4
      <4>3. \A y : (\E j \in 1 .. x : y \in ToSet(seqs[j])) <=> y \in ToSet(seqs[1])
        BY <3>2, <4>2, Zenon
      <4>. QED
        BY <4>1, <4>3, Zenon
    <3>. QED
      BY <1>3, <2>3, <3>1, <3>3
  <2>5. CASE x # 1
    <3>1. PICK w \in 1 .. N : /\ w = x - 1
                              /\ \A j : j \in 1 .. x <=> j \in 1 .. w \/ j = x
      BY <2>3, <2>5
    <3>2. w \notin Bad
      <4>. HIDE DEF Bad
      <4>. QED
        BY <2>2, <2>3, <3>1
    <3>3. f[w] \in Seq(S) /\ Upto(w)
      BY <3>1, <3>2
    <3>4. PICK a \in Seq(S), b \in Seq(S) : a = f[w] /\ b = seqs[x] /\ f[x] = a \o b
      BY <1>2, <1>3, <2>3, <2>5, <3>1, <3>3
    <3>5. ToSet(a \o b) = ToSet(a) \cup ToSet(b)
      BY ConcatMembers
    <3>6. \A y : y \in ToSet(f[x]) <=> y \in ToSet(f[w]) \/ y \in ToSet(seqs[x])
      BY <3>4, <3>5
    <3>7. \A y : (\E j \in 1 .. x : y \in ToSet(seqs[j]))
                    <=> (\E j \in 1 .. w : y \in ToSet(seqs[j])) \/ y \in ToSet(seqs[x])
      BY <3>1, Zenon
    <3>8. Upto(x)
      BY <3>3, <3>6, <3>7, Zenon
    <3>. QED
      BY <2>3, <3>4, <3>8
  <2>. QED
    BY <2>4, <2>5
<1>5. N \notin Bad
  BY <1>4
<1>6. Upto(N)
  BY <1>5
<1>. QED
  BY <1>1, <1>6

LEMMA CeilFacts ==
    ASSUME PageSize \in Nat \ {0}, NEW n \in Nat \ {0}
    PROVE  /\ Ceil(n) \in Nat \ {0}
           /\ Ceil(n) = ((n - 1) \div PageSize) + 1
           /\ \A q \in Int : q * PageSize < n <=> q < Ceil(n)
<1>. DEFINE p == PageSize
<1>1. p \in Nat \ {0}
  OBVIOUS
<1>2. PICK x \in Nat : x = n - 1
  OBVIOUS
<1>. HIDE DEF p
<1>3. PICK d \in Nat, m \in 0 .. p - 1 : d = x \div p /\ m = x % p /\ x = (p * d) + m
  BY <1>1, DivMod
<1>4. PICK pd \in Int : pd = p * d
  BY <1>1
<1>5. PICK c \in Nat \ {0} : c = d + 1
  OBVIOUS
<1>6. p * c = pd + p
  BY <1>1, <1>4, <1>5
<1>7. (x + p) \div p = c
  <2>1. p \in Nat \ {0} /\ c \in Int /\ x + p \in Int /\ p * c <= x + p /\ x + p < p * c + p
    BY <1>1, <1>3, <1>4, <1>6
  <2>. QED
    BY ONLY <2>1, QuotientIs
<1>8. Ceil(n) = c
  <2>1. n + PageSize - 1 = x + p
    BY <1>2 DEF p
  <2>. QED
    BY <1>7, <2>1 DEF Ceil, p
<1>9. ASSUME NEW q \in Int PROVE q * p < n <=> q < c
  <2>1. PICK pq \in Int : pq = p * q /\ pq = q * p
    BY <1>1
  <2>2. /\ q <= d => pq <= pd
        /\ d < q => pd + p <= pq
    <3>1. p \in Nat /\ q \in Int /\ d \in Int
      BY <1>1
    <3>2. /\ q <= d => p * q <= p * d
          /\ d < q => p * d + p <= p * q
      BY ONLY <3>1, MulSteps
    <3>. QED
      BY <1>4, <2>1, <3>2
  <2>. QED
    BY <1>1, <1>2, <1>3, <1>4, <1>5, <2>1, <2>2
<1>. QED
  BY <1>2, <1>3, <1>5, <1>8, <1>9 DEF p

Entries(v2p) == {v2p[a] : a \in Nat}

\* The first page of an iovec is prp1.
Skipped(i) == IF i = 1 THEN 1 ELSE 0

LEMMA SegmentPagesFacts ==
    ASSUME PageSize \in Nat \ {0}, NEW v2p, NEW dvec, PagedIov(dvec), NEW i \in 1 .. Len(dvec)
    PROVE  /\ dvec[i].base \in Nat /\ dvec[i].len \in Nat \ {0}
           /\ SegmentPages(v2p, dvec, i) \in Seq(Entries(v2p))
           /\ Len(SegmentPages(v2p, dvec, i)) = Ceil(dvec[i].len) - Skipped(i)
           /\ \A k \in 1 .. Len(SegmentPages(v2p, dvec, i)) :
                 SegmentPages(v2p, dvec, i)[k]
                     = v2p[dvec[i].base + (k - 1 + Skipped(i)) * PageSize]
<1>1. dvec[i].base \in Nat /\ dvec[i].len \in Nat \ {0}
  <2>1. dvec[i] \in Segment
    BY DEF PagedIov
  <2>. QED
    BY <2>1 DEF Segment
<1>2. PICK skip \in {0, 1} : skip = Skipped(i) /\ skip = IF i = 1 THEN 1 ELSE 0
  BY DEF Skipped
<1>3. PICK n \in Nat : n = Ceil(dvec[i].len) - skip
  <2>1. PICK l \in Nat \ {0} : l = dvec[i].len
    BY <1>1
  <2>2. PICK c \in Nat \ {0} : c = Ceil(l)
    BY CeilFacts
  <2>3. c - skip \in Nat
    OBVIOUS
  <2>. QED
    BY <2>1, <2>2, <2>3
<1>4. SegmentPages(v2p, dvec, i) = [k \in 1 .. n |-> v2p[dvec[i].base + (k - 1 + skip) * PageSize]]
  BY <1>2, <1>3 DEF SegmentPages
<1>5. ASSUME NEW k \in 1 .. n
      PROVE  v2p[dvec[i].base + (k - 1 + skip) * PageSize] \in Entries(v2p)
  <2>1. PICK x \in Nat : x = k - 1 + skip
    OBVIOUS
  <2>2. x * PageSize \in Nat
    BY <2>1
  <2>3. dvec[i].base + x * PageSize \in Nat
    BY <1>1, <2>2
  <2>. QED
    BY <2>1, <2>3 DEF Entries
<1>6. /\ SegmentPages(v2p, dvec, i) \in Seq(Entries(v2p))
      /\ Len(SegmentPages(v2p, dvec, i)) = n
  BY <1>4, <1>5
<1>. QED
  BY <1>1, <1>2, <1>3, <1>4, <1>6

\* s holds the page behind every page of the first i segments, in order.
PagesUpTo(s, v2p, dvec, i) ==
    /\ s \in Seq(Entries(v2p))
    /\ Len(s) = Ceil(Before(dvec)[i + 1]) - 1
    /\ \A e \in 1 .. Len(s), j \in 1 .. i :
          Before(dvec)[j] <= e * PageSize /\ e * PageSize < Before(dvec)[j + 1] =>
              s[e] = v2p[dvec[j].base + (e * PageSize - Before(dvec)[j])]

LEMMA FirstSegment ==
    ASSUME PageSize \in Nat \ {0}, NEW v2p, NEW dvec, PagedIov(dvec)
    PROVE  PagesUpTo(SegmentPages(v2p, dvec, 1), v2p, dvec, 1)
<1>. DEFINE s == SegmentPages(v2p, dvec, 1)
<1>1. 1 \in 1 .. Len(dvec)
  BY DEF PagedIov
<1>2. /\ dvec[1].base \in Nat /\ dvec[1].len \in Nat \ {0}
      /\ s \in Seq(Entries(v2p))
      /\ Len(s) = Ceil(dvec[1].len) - 1
      /\ \A k \in 1 .. Len(s) : s[k] = v2p[dvec[1].base + (k - 1 + 1) * PageSize]
  <2>1. Skipped(1) = 1
    BY DEF Skipped
  <2>2. /\ dvec[1].base \in Nat /\ dvec[1].len \in Nat \ {0}
        /\ s \in Seq(Entries(v2p))
        /\ Len(s) = Ceil(dvec[1].len) - Skipped(1)
        /\ \A k \in 1 .. Len(s) : s[k] = v2p[dvec[1].base + (k - 1 + Skipped(1)) * PageSize]
    BY ONLY <1>1, PageSize \in Nat \ {0}, PagedIov(dvec), SegmentPagesFacts
  <2>. HIDE DEF s
  <2>. QED
    BY ONLY <2>1, <2>2
<1>3. Before(dvec)[1] = 0 /\ Before(dvec)[1 + 1] = dvec[1].len
  <2>1. Before(dvec)[1] = 0 /\ Before(dvec)[1 + 1] = Before(dvec)[1] + dvec[1].len
    BY <1>1, BeforeFacts
  <2>. QED
    BY <1>2, <2>1
<1>. HIDE DEF s
<1>4. ASSUME NEW e \in 1 .. Len(s)
      PROVE  s[e] = v2p[dvec[1].base + (e * PageSize - 0)]
  <2>1. e \in Int /\ e - 1 + 1 = e
    BY <1>2
  <2>2. e * PageSize - 0 = e * PageSize
    BY <2>1
  <2>. QED
    BY <1>2, <2>1, <2>2
<1>5. ASSUME NEW e \in 1 .. Len(s), NEW j \in 1 .. 1
      PROVE  s[e] = v2p[dvec[j].base + (e * PageSize - Before(dvec)[j])]
  <2>1. j = 1
    OBVIOUS
  <2>. QED
    BY <1>3, <1>4, <2>1
<1>. QED
  BY <1>2, <1>3, <1>5 DEF PagesUpTo, s

LEMMA NextSegment ==
    ASSUME PageSize \in Nat \ {0}, NEW v2p, NEW dvec, PagedIov(dvec),
           NEW i \in 1 .. Len(dvec) - 1, NEW s, PagesUpTo(s, v2p, dvec, i)
    PROVE  PagesUpTo(s \o SegmentPages(v2p, dvec, i + 1), v2p, dvec, i + 1)
<1>. DEFINE p == PageSize
            B == Before(dvec)
<1>1. PICK h \in Nat : h = i + 1
  BY DEF PagedIov
<1>2. i \in 1 .. Len(dvec) /\ h \in 1 .. Len(dvec) /\ h # 1 /\ h \in 1 .. Len(dvec) + 1
      /\ i \in Nat /\ h + 1 \in 1 .. Len(dvec) + 1
  BY <1>1 DEF PagedIov
<1>. DEFINE t == SegmentPages(v2p, dvec, h)
            base == dvec[h].base
            len == dvec[h].len
<1>3. /\ base \in Nat /\ len \in Nat \ {0}
      /\ t \in Seq(Entries(v2p)) /\ Len(t) = Ceil(len) - 0
      /\ \A k \in 1 .. Len(t) : t[k] = v2p[base + (k - 1 + 0) * p]
  <2>1. Skipped(h) = 0
    BY <1>2 DEF Skipped
  <2>2. /\ base \in Nat /\ len \in Nat \ {0}
        /\ t \in Seq(Entries(v2p)) /\ Len(t) = Ceil(len) - Skipped(h)
        /\ \A k \in 1 .. Len(t) : t[k] = v2p[base + (k - 1 + Skipped(h)) * p]
    <3>1. PageSize \in Nat \ {0} /\ PagedIov(dvec) /\ h \in 1 .. Len(dvec)
      BY <1>2
    <3>. QED
      BY ONLY <3>1, SegmentPagesFacts
  <2>. HIDE DEF t, base, len
  <2>. QED
    BY ONLY <2>1, <2>2
<1>4. /\ B[h] \in Nat /\ B[h] % p = 0 /\ B[h + 1] = B[h] + len
      /\ \A j \in 1 .. h : B[j] \in Nat
      /\ \A j \in 1 .. i : B[j + 1] <= B[h]
  <2>1. \A j \in 1 .. i : j + 1 \in 1 .. Len(dvec) + 1 /\ j + 1 <= h
    BY <1>1, <1>2
  <2>2. \A j \in 1 .. h : j \in 1 .. Len(dvec) + 1
    BY <1>2
  <2>. QED
    BY <1>2, <2>1, <2>2, BeforeFacts
<1>. HIDE DEF B, t, base, len
<1>5. PICK c \in Nat : B[h] = p * c /\ B[h] = c * p /\ c = B[h] \div p
  <2>1. B[h] \div p \in Nat /\ B[h] = p * (B[h] \div p)
    BY <1>4, WholePages
  <2>2. PICK c \in Nat : c = B[h] \div p
    BY <2>1
  <2>3. p * c = c * p
    OBVIOUS
  <2>. QED
    BY <2>1, <2>2, <2>3
<1>6. Ceil(B[h]) = c /\ Ceil(B[h + 1]) = c + Ceil(len)
  <2>1. B[h] \in Nat /\ len \in Nat /\ B[h] % PageSize = 0
    BY <1>3, <1>4
  <2>2. /\ Ceil(B[h] + len) = (B[h] \div PageSize) + Ceil(len)
        /\ Ceil(B[h]) = B[h] \div PageSize
    BY ONLY <2>1, PageSize \in Nat \ {0}, WholePages
  <2>. QED
    BY <1>4, <1>5, <2>2
<1>7. Ceil(len) \in Nat \ {0} /\ \A q \in Int : q * p < len <=> q < Ceil(len)
  BY <1>3, CeilFacts
<1>8. s \in Seq(Entries(v2p)) /\ Len(s) = c - 1 /\ Len(s) \in Nat
  BY <1>1, <1>6 DEF PagesUpTo, B
<1>9. /\ s \o t \in Seq(Entries(v2p))
      /\ Len(s \o t) = Ceil(B[h + 1]) - 1
  <2>1. PICK m \in Nat : m = Ceil(len)
    BY <1>7
  <2>2. Len(t) = m /\ Len(t) \in Nat
    BY <1>3, <2>1
  <2>3. s \o t \in Seq(Entries(v2p)) /\ Len(s \o t) = Len(s) + Len(t)
    <3>1. s \in Seq(Entries(v2p)) /\ t \in Seq(Entries(v2p))
      BY <1>3, <1>8
    <3>. QED
      BY ONLY <3>1
  <2>. QED
    BY <1>6, <1>8, <2>1, <2>2, <2>3
<1>10. ASSUME NEW e \in 1 .. Len(s \o t), NEW j \in 1 .. h,
              B[j] <= e * p, e * p < B[j + 1]
       PROVE  (s \o t)[e] = v2p[dvec[j].base + (e * p - B[j])]
  <2>1. e \in Nat \ {0} /\ e <= (c - 1) + Ceil(len)
    BY <1>3, <1>7, <1>8, <1>9
  <2>2. PICK ep \in Int : ep = e * p /\ ep = p * e
    BY <2>1
  <2>3. CASE j # h
    <3>1. j \in 1 .. i /\ B[j + 1] <= B[h]
      BY <1>1, <1>4, <2>3
    <3>2. j + 1 \in 1 .. h
      BY <1>1, <3>1
    <3>3. ep < B[h]
      BY <1>4, <1>10, <2>2, <3>1, <3>2
    <3>4. e < c
      <4>1. p \in Nat /\ c \in Int /\ e \in Int
        BY <2>1
      <4>2. c <= e => p * c <= p * e
        BY ONLY <4>1, MulSteps
      <4>3. ~(c <= e)
        <5>1. B[h] \in Int /\ (c <= e => B[h] <= ep)
          BY <1>4, <1>5, <2>2, <4>2
        <5>. QED
          BY <2>2, <3>3, <5>1
      <4>. QED
        BY <2>1, <4>3
    <3>5. e \in 1 .. Len(s)
      BY <1>8, <2>1, <3>4
    <3>6. (s \o t)[e] = s[e]
      BY <1>3, <1>8, <3>5
    <3>7. s[e] = v2p[dvec[j].base + (e * p - B[j])]
      BY <1>10, <3>1, <3>5 DEF PagesUpTo, B
    <3>. QED
      BY <3>6, <3>7
  <2>4. CASE j = h
    <3>1. c <= e
      <4>1. p \in Nat /\ c \in Int /\ e \in Int
        BY <2>1
      <4>2. e < c => p * e + p <= p * c
        BY ONLY <4>1, MulSteps
      <4>3. B[h] <= ep /\ B[h] \in Int /\ p > 0 /\ (e < c => ep + p <= B[h])
        BY <1>4, <1>5, <1>10, <2>2, <2>4, <4>2
      <4>. QED
        BY <2>1, <2>2, <4>3
    <3>2. PICK k \in Nat \ {0} : k = e - Len(s)
      BY <1>8, <2>1, <3>1
    <3>3. k \in 1 .. Len(t) /\ Len(s) < e /\ k - 1 + 0 = e - c /\ e - c \in Int
      <4>1. PICK m \in Nat : m = Ceil(len)
        BY <1>7
      <4>2. Len(t) = m
        BY <1>3, <4>1
      <4>. QED
        BY <1>8, <2>1, <3>2, <4>1, <4>2
    <3>4. (s \o t)[e] = t[k]
      <4>1. e \in 1 .. Len(s) + Len(t) /\ e > Len(s) /\ e - Len(s) = k /\ Len(t) \in Nat
        BY <1>3, <1>8, <2>1, <3>2, <3>3
      <4>. QED
        BY <1>3, <1>8, <4>1
    <3>5. t[k] = v2p[base + (e - c) * p]
      BY <1>3, <3>3
    <3>6. (e - c) * p = e * p - B[h]
      BY <1>5, <2>1
    <3>. QED
      BY <2>4, <3>4, <3>5, <3>6 DEF base
  <2>. QED
    BY <2>3, <2>4
<1>11. PagesUpTo(s \o t, v2p, dvec, h)
  BY <1>9, <1>10 DEF PagesUpTo, B
<1>. QED
  BY <1>1, <1>11 DEF t

LEMMA IovEntriesPages ==
    ASSUME PageSize \in Nat \ {0}, NEW v2p, NEW dvec, PagedIov(dvec)
    PROVE  PagesUpTo(IovEntries(v2p, dvec), v2p, dvec, Len(dvec))
<1>. DEFINE seqs == [i \in DOMAIN dvec |-> SegmentPages(v2p, dvec, i)]
<1>1. PICK N \in Nat \ {0} : N = Len(dvec) /\ DOMAIN dvec = 1 .. N
  BY DEF PagedIov
<1>2. /\ Len(seqs) = N /\ IovEntries(v2p, dvec) = FlattenSeq(seqs)
      /\ \A i \in 1 .. N : seqs[i] = SegmentPages(v2p, dvec, i)
  BY <1>1 DEF IovEntries
<1>. HIDE DEF seqs
<1>3. PICK f : PartialFlat(f, seqs, N) /\ FlattenSeq(seqs) = f[N]
  BY <1>2, FlattenUnfolds
<1>4. \A i \in 1 .. N : f[i] = IF i = 1 THEN seqs[i] ELSE f[i - 1] \o seqs[i]
  BY <1>3 DEF PartialFlat
<1>. DEFINE Bad == {i \in 1 .. N : ~PagesUpTo(f[i], v2p, dvec, i)}
<1>5. ASSUME Bad # {} PROVE FALSE
  <2>1. Bad \in SUBSET Nat
    OBVIOUS
  <2>2. PICK i \in Bad : \A x \in Bad : i <= x
    <3>. HIDE DEF Bad
    <3>. QED
      BY <1>5, <2>1, SmallestNat
  <2>3. i \in 1 .. N /\ ~PagesUpTo(f[i], v2p, dvec, i)
    BY <2>2
  <2>4. CASE i = 1
    <3>1. f[i] = SegmentPages(v2p, dvec, 1)
      BY <1>2, <1>4, <2>3, <2>4
    <3>. QED
      BY <2>3, <2>4, <3>1, FirstSegment
  <2>5. CASE i # 1
    <3>1. PICK j \in 1 .. N - 1 : j = i - 1
      BY <2>3, <2>5
    <3>2. j + 1 = i /\ j \in 1 .. N /\ j \notin Bad /\ j \in 1 .. Len(dvec) - 1
      BY <1>1, <2>2, <3>1
    <3>3. PagesUpTo(f[j], v2p, dvec, j)
      BY <3>2
    <3>4. PagesUpTo(f[j] \o SegmentPages(v2p, dvec, j + 1), v2p, dvec, j + 1)
      BY <3>2, <3>3, NextSegment
    <3>5. f[i] = f[j] \o SegmentPages(v2p, dvec, i)
      BY <1>2, <1>4, <2>3, <2>5, <3>1
    <3>. QED
      BY <2>3, <3>2, <3>4, <3>5
  <2>. QED
    BY <2>4, <2>5
<1>6. N \in 1 .. N
  OBVIOUS
<1>7. PagesUpTo(f[N], v2p, dvec, N)
  BY <1>5, <1>6
<1>. QED
  BY <1>1, <1>2, <1>3, <1>7

\* Two addresses of one page.
LEMMA SamePage ==
    ASSUME PageSize \in Nat \ {0}, NEW a \in Nat, NEW at \in 0 .. PageSize - 1, a % PageSize = 0
    PROVE  (a + at) \div PageSize = a \div PageSize
<1>1. (a + at) \div PageSize = (a \div PageSize) + (at \div PageSize) /\ a \div PageSize \in Nat
  <2>1. PageSize \in Nat \ {0} /\ a \in Nat /\ at \in Nat /\ a % PageSize = 0
    OBVIOUS
  <2>. QED
    BY ONLY <2>1, WholePages
<1>2. at \div PageSize = 0
  <2>1. PageSize \in Nat \ {0} /\ 0 \in Int /\ at \in Int
        /\ PageSize * 0 <= at /\ at < PageSize * 0 + PageSize
    OBVIOUS
  <2>. QED
    BY ONLY <2>1, QuotientIs
<1>. QED
  BY <1>1, <1>2

\* The segment that byte k lies in.
LEMMA SegmentOfByte ==
    ASSUME PageSize \in Nat \ {0}, NEW dvec, PagedIov(dvec), NEW k \in 0 .. IovLen(dvec) - 1
    PROVE  \E j \in 1 .. Len(dvec) :
               /\ Before(dvec)[j] <= k /\ k < Before(dvec)[j + 1]
               /\ IovByte(dvec, k) = dvec[j].base + (k - Before(dvec)[j])
<1>. DEFINE B == Before(dvec)
            Reach == {i \in 1 .. Len(dvec) : k < B[i + 1]}
<1>1. PICK N \in Nat \ {0} : N = Len(dvec) /\ DOMAIN dvec = 1 .. N
  BY DEF PagedIov
<1>2. B[1] = 0 /\ k < B[N + 1] /\ k \in Nat /\ \A i \in 1 .. N + 1 : B[i] \in Nat
  <2>1. B[1] = 0 /\ \A i \in 1 .. N + 1 : B[i] \in Nat
    BY <1>1, BeforeFacts
  <2>2. N + 1 \in 1 .. N + 1 /\ IovLen(dvec) = B[N + 1]
    BY <1>1 DEF IovLen
  <2>. QED
    BY <2>1, <2>2
<1>. HIDE DEF B
<1>3. N \in Reach /\ Reach \in SUBSET Nat
  BY <1>1, <1>2
<1>4. PICK i \in Reach : \A x \in Reach : i <= x
  <2>. HIDE DEF Reach
  <2>. QED
    BY <1>3, SmallestNat
<1>5. i \in 1 .. N /\ k < B[i + 1]
  BY <1>1, <1>4
<1>6. B[i] <= k
  <2>1. CASE i = 1
    BY <1>2, <2>1
  <2>2. CASE i # 1
    <3>1. PICK h \in 1 .. N : h = i - 1
      BY <1>5, <2>2
    <3>2. h + 1 = i /\ h \notin Reach /\ i \in 1 .. N + 1
      BY <1>4, <1>5, <3>1
    <3>. QED
      BY <1>1, <1>2, <3>1, <3>2
  <2>. QED
    BY <2>1, <2>2
<1>7. PICK j \in 1 .. N :
          /\ B[j] <= k /\ k < B[j + 1]
          /\ j = CHOOSE x \in DOMAIN dvec : B[x] <= k /\ k < B[x + 1]
  BY <1>1, <1>5, <1>6
<1>8. IovByte(dvec, k) = dvec[j].base + (k - B[j])
  BY <1>7 DEF IovByte, B
<1>. QED
  BY <1>1, <1>7, <1>8 DEF B

\* Every segment of the iovec lies where translation is linear within a page.
LinearIov(v2p, dvec) ==
    \A i \in 1 .. Len(dvec) :
        Linear(v2p, PageSize, dvec[i].base, dvec[i].base + dvec[i].len - 1)

LEMMA EntriesDescribeIov ==
    ASSUME PageSize \in Nat \ {0}, NEW v2p, NEW dvec, PagedIov(dvec), LinearIov(v2p, dvec),
           NEW L, L = IovLen(dvec), NEW k \in 0 .. L - 1,
           NEW dp, NEW entries, entries = IovEntries(v2p, dvec),
           dp = DataPointer(v2p[dvec[1].base], Prp2OfList(entries), entries)
    PROVE  DeviceByte(dp, L, k) = v2p[IovByte(dvec, k)]
<1>. DEFINE p == PageSize
            B == Before(dvec)
<1>1. PICK N \in Nat \ {0} : N = Len(dvec)
  BY DEF PagedIov
<1>2. /\ B[1] = 0
      /\ \A i \in 1 .. N : B[i + 1] = B[i] + dvec[i].len
      /\ \A i \in 1 .. N + 1 : B[i] \in Nat
      /\ \A i \in 1 .. N : B[i] % PageSize = 0
      /\ \A i, j \in 1 .. N + 1 : i <= j => B[i] <= B[j]
  BY <1>1, BeforeFacts
<1>3. ASSUME NEW i \in 1 .. N
      PROVE  dvec[i].base \in Nat /\ dvec[i].len \in Nat \ {0} /\ dvec[i].base % p = 0
  <2>1. dvec[i] \in Segment /\ dvec[i].base % p = 0
    BY <1>1 DEF PagedIov
  <2>. QED
    BY <2>1 DEF Segment
<1>4. L = B[N + 1] /\ L \in Nat \ {0} /\ k \in Nat /\ k <= L - 1
  <2>1. L = B[N + 1] /\ N + 1 \in 1 .. N + 1
    BY <1>1 DEF IovLen
  <2>. QED
    BY <1>2, <2>1
<1>5. PICK j \in 1 .. N : /\ B[j] <= k /\ k < B[j + 1]
                          /\ IovByte(dvec, k) = dvec[j].base + (k - B[j])
  BY <1>1, SegmentOfByte
<1>6. PagesUpTo(entries, v2p, dvec, N)
  BY <1>1, IovEntriesPages
<1>. HIDE DEF B
<1>7. dp.prp1 = v2p[dvec[1].base] /\ dp.prp1 % p = 0 /\ dp.prp1 \in Int
  <2>1. 1 \in 1 .. N /\ dp.prp1 = v2p[dvec[1].base]
    BY <1>1 DEF DataPointer
  <2>2. dvec[1].base \in dvec[1].base .. dvec[1].base + dvec[1].len - 1
    BY <1>3, <2>1
  <2>. QED
    BY <1>1, <1>3, <2>1, <2>2 DEF LinearIov, Linear
<1>8. PICK e \in Nat, at \in 0 .. p - 1 : e = k \div p /\ at = k % p /\ k = (p * e) + at
  <2>1. k \in Nat /\ p \in Nat \ {0}
    BY <1>4
  <2>2. k \div p \in Nat /\ k % p \in 0 .. p - 1 /\ k = (p * (k \div p)) + (k % p)
    BY ONLY <2>1, DivMod
  <2>3. PICK e \in Nat, at \in 0 .. p - 1 : e = k \div p /\ at = k % p
    BY <2>2
  <2>. QED
    BY <2>2, <2>3
<1>9. PICK last \in Nat : last = (L - 1) \div p /\ Ceil(L) = last + 1
  <2>1. PICK x \in Nat : x = L - 1
    BY <1>4
  <2>2. x \div p \in Nat
    BY DivMod
  <2>. QED
    BY <1>4, <2>1, <2>2, CeilFacts
<1>10. PICK ep \in Nat : ep = p * e /\ ep = e * p
  OBVIOUS
<1>11. k = ep + at
  BY <1>8, <1>10
<1>12. e <= last
  <2>1. e * p < L <=> e < Ceil(L)
    BY <1>4, CeilFacts
  <2>. QED
    BY <1>4, <1>8, <1>9, <1>10, <1>11, <2>1
<1>13. Len(entries) = last /\ entries \in Seq(Entries(v2p))
  BY <1>4, <1>6, <1>9 DEF PagesUpTo, B
<1>14. DeviceByte(dp, L, k) =
          CASE e = 0 -> dp.prp1 + k
            [] e > 0 /\ last = 1 -> dp.prp2 + at
            [] OTHER -> dp.list[e] + at
  <2>1. 0 + k = k /\ 0 + L - 1 = L - 1
    BY <1>4
  <2>. QED
    BY <1>7, <1>8, <1>9, <2>1 DEF DeviceByte
<1>15. dvec[j].base \in Nat /\ dvec[j].len \in Nat /\ dvec[j].base % p = 0
       /\ B[j] \in Nat /\ B[j] % p = 0 /\ B[j + 1] = B[j] + dvec[j].len
  BY <1>2, <1>3
<1>16. PICK c \in Nat : B[j] = p * c /\ c = B[j] \div p
  <2>1. B[j] \div p \in Nat /\ B[j] = p * (B[j] \div p)
    BY <1>15, WholePages
  <2>. QED
    BY <2>1
<1>17. B[j] <= ep
  <2>1. p \in Nat /\ c \in Int /\ e \in Int
    OBVIOUS
  <2>2. e < c => p * e + p <= p * c
    BY ONLY <2>1, MulSteps
  <2>3. e < c => ep + p <= B[j]
    BY <1>10, <1>16, <2>2
  <2>4. ~(e < c)
    BY <1>5, <1>11, <1>15, <2>3
  <2>5. c <= e => p * c <= p * e
    BY ONLY <2>1, MulSteps
  <2>. QED
    BY <1>10, <1>16, <2>4, <2>5
<1>18. v2p[dvec[j].base + (k - B[j])] = v2p[dvec[j].base + (ep - B[j])] + at
  <2>1. PICK d \in Nat : d = ep - B[j]
    BY <1>15, <1>17
  <2>2. PICK a \in Nat : a = dvec[j].base + d
    BY <1>15, <2>1
  <2>3. dvec[j].base + (k - B[j]) = a + at /\ dvec[j].base + (ep - B[j]) = a
    BY <1>11, <1>15, <2>1, <2>2
  <2>4. a % p = 0
    <3>1. PICK f \in Nat : f = e - c
      <4>1. p \in Nat /\ c \in Int /\ e \in Int
        OBVIOUS
      <4>2. e < c => p * e + p <= p * c
        BY ONLY <4>1, MulSteps
      <4>3. e < c => ep + p <= B[j]
        BY <1>10, <1>16, <4>2
      <4>. QED
        BY <1>15, <1>17, <4>3
    <3>2. d = p * f
      <4>1. p * (e - c) = p * e - p * c
        OBVIOUS
      <4>. QED
        BY <1>10, <1>16, <2>1, <3>1, <4>1
    <3>3. d % p = 0
      <4>1. p * f <= d /\ d < p * f + p /\ f \in Int /\ d \in Int /\ p \in Nat \ {0}
        BY <3>2
      <4>2. d % p = d - p * f
        BY ONLY <4>1, QuotientIs
      <4>. QED
        BY <3>2, <4>2
    <3>4. (dvec[j].base + d) % p = d % p
      BY <1>15, WholePages
    <3>. QED
      BY <2>2, <3>3, <3>4
  <2>5. (a + at) \div p = a \div p
    BY <2>4, SamePage
  <2>6. a \in dvec[j].base .. dvec[j].base + dvec[j].len - 1
        /\ a + at \in dvec[j].base .. dvec[j].base + dvec[j].len - 1
    BY <1>5, <1>11, <1>15, <2>1, <2>2
  <2>7. Linear(v2p, p, dvec[j].base, dvec[j].base + dvec[j].len - 1)
    BY <1>1 DEF LinearIov
  <2>8. v2p[a + at] = v2p[a] + ((a + at) - a)
    BY <2>5, <2>6, <2>7 DEF Linear
  <2>9. (a + at) - a = at
    OBVIOUS
  <2>. QED
    BY <2>3, <2>8, <2>9
<1>19. CASE e = 0
  <2>0. ep = 0
    BY <1>10, <1>19
  <2>1. ep = 0 /\ k = at /\ B[j] = 0
    BY <1>11, <1>15, <1>17, <2>0
  <2>2. j = 1
    <3>1. j # 1 => j - 1 \in 1 .. N /\ j - 1 \in 1 .. N + 1 /\ (j - 1) + 1 = j
      BY <1>1
    <3>2. j # 1 => B[j] = B[j - 1] + dvec[j - 1].len /\ B[j - 1] \in Nat
                   /\ dvec[j - 1].len \in Nat \ {0}
      BY <1>2, <1>3, <3>1
    <3>. QED
      BY <2>1, <3>2
  <2>3. dvec[j].base + (ep - B[j]) = dvec[1].base
    BY <1>15, <2>1, <2>2
  <2>. QED
    BY <1>5, <1>7, <1>14, <1>18, <1>19, <2>1, <2>3
<1>20. CASE e # 0
  <2>1. e \in 1 .. Len(entries) /\ e > 0
    BY <1>12, <1>13, <1>20
  <2>2. e * p < B[j + 1] /\ B[j] <= e * p
    BY <1>5, <1>10, <1>11, <1>15, <1>17
  <2>3. entries[e] = v2p[dvec[j].base + (e * PageSize - B[j])]
    BY <2>1, <2>2, <1>6 DEF PagesUpTo, B
  <2>4. entries[e] + at = v2p[IovByte(dvec, k)]
    BY <1>5, <1>10, <1>18, <2>3
  <2>5. CASE last = 1
    <3>1. e = 1 /\ Len(entries) = 1
      BY <1>12, <1>13, <1>20, <2>5
    <3>2. dp.prp2 = entries[1]
      BY <3>1 DEF DataPointer, Prp2OfList
    <3>3. DeviceByte(dp, L, k) = dp.prp2 + at
      BY <1>14, <2>1, <2>5
    <3>. QED
      BY <2>4, <3>1, <3>2, <3>3
  <2>6. CASE last # 1
    <3>1. DeviceByte(dp, L, k) = dp.list[e] + at
      BY <1>14, <1>20, <2>6
    <3>2. dp.list = entries
      BY DEF DataPointer
    <3>. QED
      BY <2>4, <3>1, <3>2
  <2>. QED
    BY <2>5, <2>6
<1>. QED
  BY <1>19, <1>20

\* nvme_request_prep_command_prps_iov describes every iovec of whole pages,
\* the last segment of any length, in the order of its segments, however many
\* there are and wherever their pages are.
THEOREM IovDescribes ==
    ASSUME PageSize \in Nat \ {0}, NEW v2p, NEW dvec, PagedIov(dvec), LinearIov(v2p, dvec)
    PROVE  DescribesIov(v2p, PrepIov(v2p, dvec), dvec)
<1>. SUFFICES ASSUME NEW k \in 0 .. IovLen(dvec) - 1
              PROVE  DeviceByte(PrepIov(v2p, dvec), IovLen(dvec), k) = v2p[IovByte(dvec, k)]
  BY DEF DescribesIov
<1>1. PrepIov(v2p, dvec) = DataPointer(v2p[dvec[1].base], Prp2OfList(IovEntries(v2p, dvec)),
                                       IovEntries(v2p, dvec))
  BY DEF PrepIov
<1>. QED
  BY <1>1, EntriesDescribeIov

-----------------------------------------------------------------------------
(***************************************************************************)
(* Buffers registered with a mapping registry.  M is the set of addresses  *)
(* that are registered, target where they are; both go by whole pages.     *)
(***************************************************************************)
RegisteredPages(lookup, target, M, lo, hi) ==
    /\ \A a \in lo .. hi : IF a \in M THEN lookup[a] = target[a] /\ lookup[a] # Unmapped
                                      ELSE lookup[a] = Unmapped
    /\ \A a, b \in lo .. hi : a \div PageSize = b \div PageSize => (a \in M <=> b \in M)
    /\ lo .. hi \subseteq M => Linear(target, PageSize, lo, hi)

LEMMA BuiltUnless ==
    ASSUME NEW prp1, NEW prp2, NEW list
    PROVE  Built(DataPointer(prp1, prp2, list)) /\ ~Built(Invalid)
<1>. DEFINE dp == DataPointer(prp1, prp2, list)
<1>1. "prp1" \in DOMAIN dp /\ "prp1" \notin DOMAIN Abort /\ "prp1" \notin DOMAIN Invalid
  BY DEF DataPointer, Abort, Invalid
<1>2. dp # Abort /\ dp # Invalid
  BY <1>1
<1>. QED
  BY <1>2 DEF Built

\* Quotients grow with what is divided.
LEMMA DivMono ==
    ASSUME NEW p \in Nat \ {0}, NEW x \in Nat, NEW z \in Nat, x <= z
    PROVE  x \div p <= z \div p
<1>1. /\ x \div p \in Nat /\ x % p \in 0 .. p - 1 /\ x = (p * (x \div p)) + (x % p)
      /\ z \div p \in Nat /\ z % p \in 0 .. p - 1 /\ z = (p * (z \div p)) + (z % p)
  BY DivMod
<1>2. PICK a \in Nat, b \in Nat : a = x \div p /\ b = z \div p
  BY <1>1
<1>3. b < a => p * b + p <= p * a
  <2>1. p \in Nat /\ a \in Int /\ b \in Int
    OBVIOUS
  <2>. QED
    BY ONLY <2>1, MulSteps
<1>4. PICK pa \in Int, pb \in Int : pa = p * a /\ pb = p * b
  OBVIOUS
<1>5. PICK r \in 0 .. p - 1, s \in 0 .. p - 1 : r = x % p /\ s = z % p
  BY <1>1
<1>6. x = pa + r /\ z = pb + s /\ (b < a => pb + p <= pa)
  BY <1>1, <1>2, <1>3, <1>4, <1>5
<1>7. a <= b
  BY <1>4, <1>5, <1>6
<1>. QED
  BY <1>2, <1>7

\* Every byte of a buffer is in the page of its first byte or in one that
\* the builder looks up.
LEMMA PageOfByte ==
    ASSUME PageSize \in Nat \ {0}, NEW dbuf \in Nat, NEW n \in Nat \ {0}, NEW k \in 0 .. n - 1
    PROVE  \/ (dbuf + k) \div PageSize = dbuf \div PageSize
           \/ \E i \in 1 .. NPages(dbuf, n) - 1 :
                 (dbuf + k) \div PageSize = PageAddr(dbuf, i) \div PageSize
<1>1. PICK p \in Nat \ {0} : p = PageSize
  OBVIOUS
<1>2. PICK off \in 0 .. p - 1 : off = PageOff(dbuf)
  BY <1>1, BufferPages
<1>3. PICK y \in Nat : y = dbuf \div p /\ dbuf = p * y + off
  BY <1>1, <1>2, BufferPages
<1>4. k \in Nat /\ k <= n - 1
  OBVIOUS
<1>5. PICK e \in Nat, at \in 0 .. p - 1 :
          e = (off + k) \div p /\ dbuf + k = PageAddr(dbuf, e) + at
  <2>1. /\ (PageOff(dbuf) + k) \div PageSize \in Nat
        /\ (PageOff(dbuf) + k) % PageSize \in 0 .. PageSize - 1
        /\ dbuf + k = PageAddr(dbuf, (PageOff(dbuf) + k) \div PageSize)
                         + ((PageOff(dbuf) + k) % PageSize)
    BY <1>4, ByteInPage
  <2>2. PICK x \in Nat, a \in 0 .. p - 1 : /\ x = (PageOff(dbuf) + k) \div PageSize
                                          /\ a = (PageOff(dbuf) + k) % PageSize
    BY <1>1, <2>1
  <2>. QED
    BY <1>1, <1>2, <2>1, <2>2
<1>6. PICK z \in Nat : z = y + e
  OBVIOUS
<1>7. PageAddr(dbuf, e) = p * z /\ dbuf + k = p * z + at
  BY <1>1, <1>3, <1>5, <1>6 DEF PageAddr
<1>8. (dbuf + k) \div p = z /\ (p * z) \div p = z
  <2>1. /\ p \in Nat \ {0} /\ z \in Int /\ p * z + at \in Int /\ p * z \in Int
        /\ p * z <= p * z + at /\ p * z + at < p * z + p
        /\ p * z <= p * z /\ p * z < p * z + p
    OBVIOUS
  <2>2. (p * z + at) \div p = z /\ (p * z) \div p = z
    BY ONLY <2>1, QuotientIs
  <2>. QED
    BY <1>7, <2>2
<1>9. CASE e = 0
  <2>1. z = y
    BY <1>6, <1>9
  <2>. QED
    BY <1>1, <1>3, <1>8, <2>1
<1>10. CASE e # 0
  <2>1. PICK last \in Nat : last = (off + n - 1) \div p /\ NPages(dbuf, n) = last + 1
    <3>1. NPages(dbuf, n) = ((off + n - 1) \div p) + 1
      BY <1>1, <1>2, BufferPages
    <3>2. PICK x \in Nat : x = off + n - 1
      BY <1>2
    <3>3. x \div p \in Nat
      BY DivMod
    <3>. QED
      BY <3>1, <3>2, <3>3
  <2>2. e <= last
    <3>1. PICK x \in Nat, w \in Nat : x = off + k /\ w = off + n - 1 /\ x <= w
      BY <1>2, <1>4
    <3>2. x \div p <= w \div p
      BY <3>1, DivMono
    <3>. QED
      BY <1>5, <2>1, <3>1, <3>2
  <2>3. e \in 1 .. NPages(dbuf, n) - 1
    BY <1>10, <2>1, <2>2
  <2>. QED
    BY <1>1, <1>7, <1>8, <2>3
<1>. QED
  BY <1>9, <1>10

\* nvme_request_prep_command_prps_contig_mapped refuses a buffer exactly if
\* a byte of it is not registered, wherever in it that is, or if the list
\* page has no room; what it prepares describes the buffer.
THEOREM ContigMappedDescribes ==
    ASSUME PageSize \in Nat \ {0}, PrpListLen \in Nat,
           NEW lookup, NEW target, NEW M, NEW dbuf \in Nat, NEW n \in Nat \ {0},
           RegisteredPages(lookup, target, M, dbuf, dbuf + n - 1),
           NEW dp, dp = PrepContigMapped(lookup, dbuf, n)
    PROVE  /\ Built(dp) <=> dbuf .. dbuf + n - 1 \subseteq M /\ NPages(dbuf, n) <= 1 + PrpListLen
           /\ Built(dp) => DescribesBuffer(target, dp, dbuf, n)
<1>. DEFINE rest == [i \in 1 .. NPages(dbuf, n) - 1 |->
                        lookup[(dbuf - PageOff(dbuf)) + i * PageSize]]
            Inside == dbuf .. dbuf + n - 1 \subseteq M
            Room == NPages(dbuf, n) <= 1 + PrpListLen
            Missing == lookup[dbuf] = Unmapped \/ Unmapped \in ToSet(rest)
<1>1. PICK m \in Nat : m = NPages(dbuf, n) - 1 /\ NPages(dbuf, n) \in Nat
  <2>1. PICK x \in Nat : x = PageOff(dbuf) + n - 1
    BY BufferPages
  <2>2. x \div PageSize \in Nat
    BY DivMod
  <2>. QED
    BY <2>1, <2>2, BufferPages
<1>2. ASSUME NEW i \in 1 .. m
      PROVE  /\ rest[i] = lookup[PageAddr(dbuf, i)]
             /\ PageAddr(dbuf, i) \in dbuf .. dbuf + n - 1
  <2>1. i \in Nat /\ i \in 1 .. NPages(dbuf, n) - 1
    BY <1>1
  <2>2. PageAddr(dbuf, i) = (dbuf - PageOff(dbuf)) + i * PageSize
    BY <2>1, PageAddrFacts
  <2>. QED
    BY <1>1, <2>1, <2>2, PagesInside
<1>3. /\ DOMAIN rest = 1 .. m /\ Len(rest) = m
  BY <1>1
<1>4. dp = IF ~Room \/ Missing
           THEN Invalid
           ELSE DataPointer(lookup[dbuf], Prp2OfList(rest),
                            IF NPages(dbuf, n) > 2 THEN rest ELSE <<>>)
  <2>1. ~Room <=> NPages(dbuf, n) > 1 + PrpListLen
    BY <1>1
  <2>. QED
    BY <2>1 DEF PrepContigMapped
<1>5. Missing <=> lookup[dbuf] = Unmapped \/ \E i \in 1 .. m : rest[i] = Unmapped
  BY <1>3 DEF ToSet
<1>6. Built(dp) <=> Room /\ ~Missing
  <2>. HIDE DEF Room, Missing, rest
  <2>. QED
    BY <1>4, BuiltUnless
<1>. HIDE DEF rest
<1>7. dbuf \in dbuf .. dbuf + n - 1
  OBVIOUS
<1>8. ~Missing => Inside
  <2>. SUFFICES ASSUME ~Missing, NEW a \in dbuf .. dbuf + n - 1
                PROVE  a \in M
    OBVIOUS
  <2>1. PICK k \in 0 .. n - 1 : a = dbuf + k
    <3>1. a - dbuf \in 0 .. n - 1 /\ a = dbuf + (a - dbuf)
      OBVIOUS
    <3>. QED
      BY <3>1
  <2>2. dbuf \in M
    BY <1>5, <1>7 DEF RegisteredPages
  <2>3. CASE (dbuf + k) \div PageSize = dbuf \div PageSize
    BY <1>7, <2>1, <2>2, <2>3 DEF RegisteredPages
  <2>4. CASE \E i \in 1 .. NPages(dbuf, n) - 1 :
                (dbuf + k) \div PageSize = PageAddr(dbuf, i) \div PageSize
    <3>1. PICK i \in 1 .. m : (dbuf + k) \div PageSize = PageAddr(dbuf, i) \div PageSize
      BY <1>1, <2>4
    <3>2. PICK b \in dbuf .. dbuf + n - 1 : b = PageAddr(dbuf, i) /\ rest[i] = lookup[b]
      BY <1>2
    <3>3. b \in M
      BY <1>5, <3>2 DEF RegisteredPages
    <3>. QED
      BY <2>1, <3>1, <3>2, <3>3 DEF RegisteredPages
  <2>. QED
    BY <2>3, <2>4, PageOfByte
<1>9. ASSUME Inside
      PROVE  /\ lookup[dbuf] = target[dbuf] /\ lookup[dbuf] # Unmapped
             /\ \A i \in 1 .. m : rest[i] = target[PageAddr(dbuf, i)] /\ rest[i] # Unmapped
  <2>1. \A a \in dbuf .. dbuf + n - 1 : lookup[a] = target[a] /\ lookup[a] # Unmapped
    BY <1>9 DEF RegisteredPages
  <2>. QED
    BY <1>2, <1>7, <2>1
<1>10. Inside => ~Missing
  BY <1>5, <1>9
<1>11. ASSUME Room, Inside PROVE DescribesBuffer(target, dp, dbuf, n)
  <2>1. dp = DataPointer(lookup[dbuf], Prp2OfList(rest),
                         IF NPages(dbuf, n) > 2 THEN rest ELSE <<>>)
    BY <1>4, <1>10, <1>11
  <2>2. dp.prp1 = target[dbuf]
    BY <1>9, <1>11, <2>1 DEF DataPointer
  <2>3. ASSUME NPages(dbuf, n) = 2 PROVE dp.prp2 = target[PageAddr(dbuf, 1)]
    <3>1. m = 1 /\ 1 \in 1 .. m
      BY <1>1, <2>3
    <3>2. Prp2OfList(rest) = rest[1]
      BY <1>3, <3>1 DEF Prp2OfList
    <3>3. dp.prp2 = rest[1]
      BY <2>1, <3>2 DEF DataPointer
    <3>. QED
      BY <1>9, <1>11, <3>1, <3>3
  <2>4. ASSUME NPages(dbuf, n) > 2
        PROVE  \A i \in 1 .. NPages(dbuf, n) - 1 : dp.list[i] = target[PageAddr(dbuf, i)]
    <3>1. dp.list = rest
      BY <2>1, <2>4 DEF DataPointer
    <3>. QED
      BY <1>1, <1>9, <1>11, <3>1
  <2>5. PageEntries(dp, target, dbuf, n)
    BY <2>2, <2>3, <2>4 DEF PageEntries
  <2>6. Linear(target, PageSize, dbuf, dbuf + n - 1)
    BY <1>11 DEF RegisteredPages
  <2>. QED
    BY <2>5, <2>6, EntriesDescribe
<1>. QED
  BY <1>6, <1>8, <1>10, <1>11

\* Every byte of a segment is in a page that is looked up, which starts in
\* the segment.
InPages(base, len, k) ==
    \E q \in 0 .. Ceil(len) - 1 :
        (base + k) \div PageSize = (base + q * PageSize) \div PageSize

LEMMA PageOfSegment ==
    ASSUME PageSize \in Nat \ {0}, NEW base \in Nat, base % PageSize = 0,
           NEW len \in Nat \ {0}, NEW k \in 0 .. len - 1
    PROVE  InPages(base, len, k)
<1>1. PICK p \in Nat \ {0} : p = PageSize
  OBVIOUS
<1>2. k \in Nat /\ k <= len - 1
  OBVIOUS
<1>3. PICK e \in Nat, at \in 0 .. p - 1 : k = p * e + at
  <2>1. k \div p \in Nat /\ k % p \in 0 .. p - 1 /\ k = (p * (k \div p)) + (k % p)
    BY <1>2, DivMod
  <2>2. PICK x \in Nat, y \in 0 .. p - 1 : x = k \div p /\ y = k % p
    BY <2>1
  <2>. QED
    BY <2>1, <2>2
<1>4. PICK ep \in Nat : ep = e * p /\ k = ep + at
  BY <1>3
<1>5. e \in 0 .. Ceil(len) - 1
  <2>1. Ceil(len) \in Nat /\ (e * p < len <=> e < Ceil(len))
    BY <1>1, CeilFacts
  <2>2. e * p < len
    BY <1>2, <1>4
  <2>. QED
    BY <2>1, <2>2
<1>6. PICK y \in Nat : base = p * y
  <2>1. base = PageSize * (base \div PageSize) /\ base \div PageSize \in Nat
    BY WholePages
  <2>. QED
    BY <1>1, <2>1
<1>7. PICK z \in Nat : z = y + e
  OBVIOUS
<1>8. base + k = p * z + at /\ base + e * p = p * z
  <2>1. p * (y + e) = p * y + e * p
    OBVIOUS
  <2>. QED
    BY <1>4, <1>6, <1>7, <2>1
<1>9. /\ p \in Nat \ {0} /\ z \in Int /\ p * z + at \in Int /\ p * z \in Int
      /\ p * z <= p * z + at /\ p * z + at < p * z + p
      /\ p * z <= p * z /\ p * z < p * z + p
  OBVIOUS
<1>10. (p * z + at) \div p = z /\ (p * z) \div p = z
  BY ONLY <1>9, QuotientIs
<1>. QED
  BY <1>1, <1>5, <1>8, <1>10 DEF InPages

LEMMA PageInSegment ==
    ASSUME PageSize \in Nat \ {0}, NEW base \in Nat, NEW len \in Nat \ {0},
           NEW q \in 0 .. Ceil(len) - 1
    PROVE  q \in Nat /\ base + q * PageSize \in base .. base + len - 1
<1>1. Ceil(len) \in Nat /\ (q * PageSize < len <=> q < Ceil(len))
  BY CeilFacts
<1>2. q \in Nat /\ q < Ceil(len)
  BY <1>1
<1>3. PICK x \in Nat : x = q * PageSize
  BY <1>2
<1>. QED
  BY <1>1, <1>2, <1>3

SegmentBytes(s) == s.base .. s.base + s.len - 1

RegisteredIov(lookup, target, M, dvec) ==
    \A i \in 1 .. Len(dvec) :
        RegisteredPages(lookup, target, M, dvec[i].base, dvec[i].base + dvec[i].len - 1)

\* A segment is registered if all of its pages were found.
LEMMA SegmentFound ==
    ASSUME PageSize \in Nat \ {0}, NEW lookup, NEW target, NEW M,
           NEW base \in Nat, base % PageSize = 0, NEW len \in Nat \ {0},
           RegisteredPages(lookup, target, M, base, base + len - 1)
    PROVE  base .. base + len - 1 \subseteq M
               <=> \A q \in 0 .. Ceil(len) - 1 : lookup[base + q * PageSize] # Unmapped
<1>1. ASSUME base .. base + len - 1 \subseteq M, NEW q \in 0 .. Ceil(len) - 1
      PROVE  lookup[base + q * PageSize] # Unmapped
  <2>1. PICK a \in base .. base + len - 1 : a = base + q * PageSize
    BY PageInSegment
  <2>. QED
    BY <1>1, <2>1 DEF RegisteredPages
<1>2. ASSUME \A q \in 0 .. Ceil(len) - 1 : lookup[base + q * PageSize] # Unmapped,
             NEW a \in base .. base + len - 1
      PROVE  a \in M
  <2>1. PICK k \in 0 .. len - 1 : a = base + k
    <3>1. a - base \in 0 .. len - 1 /\ a = base + (a - base)
      OBVIOUS
    <3>. QED
      BY <3>1
  <2>2. PICK q \in 0 .. Ceil(len) - 1 :
            (base + k) \div PageSize = (base + q * PageSize) \div PageSize
    <3>1. /\ PageSize \in Nat \ {0} /\ base \in Nat /\ base % PageSize = 0
          /\ len \in Nat \ {0} /\ k \in 0 .. len - 1
      OBVIOUS
    <3>2. InPages(base, len, k)
      BY ONLY <3>1, PageOfSegment
    <3>. QED
      BY <3>2 DEF InPages
  <2>3. PICK b \in base .. base + len - 1 : b = base + q * PageSize
    BY PageInSegment
  <2>4. b \in M
    BY <1>2, <2>3 DEF RegisteredPages
  <2>. QED
    BY <2>1, <2>2, <2>3, <2>4 DEF RegisteredPages
<1>. QED
  BY <1>1, <1>2

SegmentListed(s, v2p, dvec, i) ==
    /\ dvec[i].base \in Nat /\ dvec[i].len \in Nat \ {0}
    /\ s \in Seq(Entries(v2p))
    /\ Len(s) = Ceil(dvec[i].len) - Skipped(i)
    /\ \A k \in 1 .. Len(s) : s[k] = v2p[dvec[i].base + (k - 1 + Skipped(i)) * PageSize]

LEMMA SegmentPagesListed ==
    ASSUME PageSize \in Nat \ {0}, NEW v2p, NEW dvec, PagedIov(dvec), NEW i \in 1 .. Len(dvec)
    PROVE  SegmentListed(SegmentPages(v2p, dvec, i), v2p, dvec, i)
<1>1. PageSize \in Nat \ {0} /\ PagedIov(dvec) /\ i \in 1 .. Len(dvec)
  OBVIOUS
<1>. QED
  BY ONLY <1>1, SegmentPagesFacts DEF SegmentListed

\* The pages of a segment behind prp1 lack a registration.
LEMMA SegmentMissing ==
    ASSUME PageSize \in Nat \ {0}, NEW lookup, NEW dvec, PagedIov(dvec), NEW i \in 1 .. Len(dvec)
    PROVE  Unmapped \in ToSet(SegmentPages(lookup, dvec, i))
               <=> \E q \in 0 .. Ceil(dvec[i].len) - 1 :
                      q >= Skipped(i) /\ lookup[dvec[i].base + q * PageSize] = Unmapped
<1>. DEFINE s == SegmentPages(lookup, dvec, i)
<1>1. PICK c \in Nat : c = Ceil(dvec[i].len) /\ c >= 1
  <2>1. dvec[i].len \in Nat \ {0}
    BY SegmentPagesFacts
  <2>2. PICK n \in Nat \ {0} : n = dvec[i].len
    BY <2>1
  <2>3. Ceil(n) \in Nat \ {0}
    BY CeilFacts
  <2>. QED
    BY <2>2, <2>3
<1>2. PICK b \in Nat : b = dvec[i].base
  BY SegmentPagesFacts
<1>3. PICK skip \in {0, 1} : skip = Skipped(i)
  BY DEF Skipped
<1>4. /\ s \in Seq(Entries(lookup)) /\ Len(s) = c - skip
      /\ \A k \in 1 .. Len(s) : s[k] = lookup[b + (k - 1 + skip) * PageSize]
  <2>1. SegmentListed(s, lookup, dvec, i)
    <3>1. PageSize \in Nat \ {0} /\ PagedIov(dvec) /\ i \in 1 .. Len(dvec)
      OBVIOUS
    <3>. QED
      BY ONLY <3>1, SegmentPagesListed
  <2>. HIDE DEF s
  <2>. QED
    BY <1>1, <1>2, <1>3, <2>1 DEF SegmentListed
<1>. HIDE DEF s
<1>5. PICK m \in Nat : m = c - skip /\ DOMAIN s = 1 .. m
  BY <1>1, <1>3, <1>4
<1>6. ASSUME NEW k \in 1 .. m, s[k] = Unmapped
      PROVE  \E q \in 0 .. c - 1 : q >= skip /\ lookup[b + q * PageSize] = Unmapped
  <2>1. PICK q \in Nat : q = k - 1 + skip
    BY <1>3
  <2>2. q \in 0 .. c - 1 /\ q >= skip
    BY <1>1, <1>3, <1>5, <2>1
  <2>. QED
    BY <1>4, <1>5, <1>6, <2>1, <2>2
<1>7. ASSUME NEW q \in 0 .. c - 1, q >= skip, lookup[b + q * PageSize] = Unmapped
      PROVE  \E k \in 1 .. m : s[k] = Unmapped
  <2>1. PICK k \in Nat : k = q + 1 - skip /\ k \in 1 .. m
    <3>1. q + 1 - skip \in Nat /\ q + 1 - skip \in 1 .. m
      BY <1>1, <1>3, <1>5, <1>7
    <3>. QED
      BY <3>1
  <2>2. k - 1 + skip = q
    BY <1>3, <2>1
  <2>. QED
    BY <1>4, <1>5, <1>7, <2>1, <2>2
<1>8. Unmapped \in ToSet(s)
          <=> \E q \in 0 .. c - 1 : q >= skip /\ lookup[b + q * PageSize] = Unmapped
  <2>1. Unmapped \in ToSet(s) <=> \E k \in 1 .. m : s[k] = Unmapped
    BY <1>5 DEF ToSet
  <2>. QED
    BY <1>6, <1>7, <2>1, Zenon
<1>. QED
  BY <1>1, <1>2, <1>3, <1>8 DEF s

\* nvme_request_prep_command_prps_iov_mapped refuses an iovec exactly if a
\* byte of some segment is not registered or the list page has no room; what
\* it prepares describes the segments in their order.
THEOREM IovMappedDescribes ==
    ASSUME PageSize \in Nat \ {0}, PrpListLen \in Nat,
           NEW lookup, NEW target, NEW M, NEW dvec, PagedIov(dvec),
           RegisteredIov(lookup, target, M, dvec),
           NEW dp, dp = PrepIovMapped(lookup, dvec)
    PROVE  /\ Built(dp) <=> /\ \A i \in 1 .. Len(dvec) : SegmentBytes(dvec[i]) \subseteq M
                            /\ Ceil(IovLen(dvec)) <= 1 + PrpListLen
           /\ Built(dp) => DescribesIov(target, dp, dvec)
<1>. DEFINE entries == IovEntries(lookup, dvec)
            Inside == \A i \in 1 .. Len(dvec) : SegmentBytes(dvec[i]) \subseteq M
            Room == Ceil(IovLen(dvec)) <= 1 + PrpListLen
            Missing == lookup[dvec[1].base] = Unmapped \/ Unmapped \in ToSet(entries)
<1>1. PICK N \in Nat \ {0} : N = Len(dvec) /\ DOMAIN dvec = 1 .. N
  BY DEF PagedIov
<1>2. ASSUME NEW i \in 1 .. N
      PROVE  dvec[i].base \in Nat /\ dvec[i].len \in Nat \ {0} /\ dvec[i].base % PageSize = 0
  <2>1. dvec[i] \in Segment /\ dvec[i].base % PageSize = 0
    BY <1>1 DEF PagedIov
  <2>. QED
    BY <2>1 DEF Segment
<1>3. Len(entries) = Ceil(IovLen(dvec)) - 1 /\ Ceil(IovLen(dvec)) \in Nat
  <2>1. PagesUpTo(entries, lookup, dvec, N)
    BY <1>1, IovEntriesPages
  <2>2. IovLen(dvec) = Before(dvec)[N + 1]
    BY <1>1 DEF IovLen
  <2>3. Len(entries) = Ceil(IovLen(dvec)) - 1
    BY <2>1, <2>2 DEF PagesUpTo
  <2>4. entries \in Seq(Entries(lookup))
    BY <2>1 DEF PagesUpTo
  <2>5. PICK L \in Nat \ {0} : L = IovLen(dvec)
    <3>1. /\ Before(dvec)[N + 1] = Before(dvec)[N] + dvec[N].len
          /\ \A i \in 1 .. N + 1 : Before(dvec)[i] \in Nat
      BY <1>1, BeforeFacts
    <3>2. Before(dvec)[N] \in Nat /\ dvec[N].len \in Nat \ {0}
      BY <1>2, <3>1
    <3>. QED
      BY <2>2, <3>1, <3>2
  <2>6. Ceil(L) \in Nat
    BY CeilFacts
  <2>. QED
    BY <2>3, <2>5, <2>6
<1>4. Unmapped \in ToSet(entries)
          <=> \E i \in 1 .. N : Unmapped \in ToSet(SegmentPages(lookup, dvec, i))
  <2>. DEFINE seqs == [i \in DOMAIN dvec |-> SegmentPages(lookup, dvec, i)]
  <2>1. \A i \in 1 .. N : SegmentPages(lookup, dvec, i) \in Seq(Entries(lookup))
    BY <1>1, SegmentPagesFacts
  <2>2. /\ seqs \in Seq(Seq(Entries(lookup))) /\ Len(seqs) = N
        /\ \A i \in 1 .. N : seqs[i] = SegmentPages(lookup, dvec, i)
    <3>1. seqs \in [1 .. N -> Seq(Entries(lookup))]
      BY <1>1, <2>1
    <3>. QED
      BY <1>1, <3>1
  <2>3. entries = FlattenSeq(seqs)
    BY DEF IovEntries
  <2>. HIDE DEF seqs
  <2>4. \A y : y \in ToSet(FlattenSeq(seqs)) <=> \E i \in 1 .. N : y \in ToSet(seqs[i])
    BY <2>2, FlattenMembers
  <2>. QED
    BY <2>2, <2>3, <2>4
<1>5. ASSUME NEW i \in 1 .. N
      PROVE  SegmentBytes(dvec[i]) \subseteq M
                 <=> \A q \in 0 .. Ceil(dvec[i].len) - 1 :
                        lookup[dvec[i].base + q * PageSize] # Unmapped
  <2>1. PICK base \in Nat, len \in Nat \ {0} :
            base = dvec[i].base /\ len = dvec[i].len /\ base % PageSize = 0
    BY <1>2
  <2>2. RegisteredPages(lookup, target, M, base, base + len - 1)
    BY <1>1, <2>1 DEF RegisteredIov
  <2>3. base .. base + len - 1 \subseteq M
            <=> \A q \in 0 .. Ceil(len) - 1 : lookup[base + q * PageSize] # Unmapped
    <3>1. /\ PageSize \in Nat \ {0} /\ base \in Nat /\ base % PageSize = 0
          /\ len \in Nat \ {0} /\ RegisteredPages(lookup, target, M, base, base + len - 1)
      BY <2>1, <2>2
    <3>. QED
      BY ONLY <3>1, SegmentFound
  <2>. QED
    BY <2>1, <2>3 DEF SegmentBytes
<1>6. lookup[dvec[1].base] = lookup[dvec[1].base + 0 * PageSize]
      /\ 0 \in 0 .. Ceil(dvec[1].len) - 1
  <2>1. PICK base \in Nat, len \in Nat \ {0} : base = dvec[1].base /\ len = dvec[1].len
    BY <1>2
  <2>2. Ceil(len) \in Nat \ {0}
    BY CeilFacts
  <2>3. base + 0 * PageSize = base
    OBVIOUS
  <2>. QED
    BY <2>1, <2>2, <2>3
<1>7. ASSUME Inside PROVE ~Missing
  <2>1. \A i \in 1 .. N : \A q \in 0 .. Ceil(dvec[i].len) - 1 :
            lookup[dvec[i].base + q * PageSize] # Unmapped
    BY <1>1, <1>5, <1>7
  <2>2. lookup[dvec[1].base] # Unmapped
    <3>1. 1 \in 1 .. N
      OBVIOUS
    <3>2. lookup[dvec[1].base + 0 * PageSize] # Unmapped
      BY ONLY <1>6, <2>1, <3>1
    <3>. QED
      BY ONLY <1>6, <3>2
  <2>3. \A i \in 1 .. N : Unmapped \notin ToSet(SegmentPages(lookup, dvec, i))
    BY <1>1, <2>1, SegmentMissing
  <2>. QED
    BY <1>4, <2>2, <2>3
<1>8. ASSUME ~Missing, NEW i \in 1 .. N PROVE SegmentBytes(dvec[i]) \subseteq M
  <2>. SUFFICES ASSUME NEW q \in 0 .. Ceil(dvec[i].len) - 1
                PROVE  lookup[dvec[i].base + q * PageSize] # Unmapped
    BY <1>5
  <2>0. q \in Int /\ q >= 0
    OBVIOUS
  <2>1. CASE i = 1 /\ q = 0
    BY <1>6, <1>8, <2>1
  <2>2. CASE ~(i = 1 /\ q = 0)
    <3>1. q >= Skipped(i)
      BY <2>0, <2>2 DEF Skipped
    <3>2. Unmapped \notin ToSet(SegmentPages(lookup, dvec, i))
      BY <1>4, <1>8
    <3>. QED
      BY <1>1, <3>1, <3>2, SegmentMissing
  <2>. QED
    BY <2>1, <2>2
<1>9. dp = IF Missing \/ ~Room
           THEN Invalid
           ELSE DataPointer(lookup[dvec[1].base], Prp2OfList(entries), entries)
  <2>1. dvec # <<>>
    BY <1>1
  <2>2. ~Room <=> Len(entries) > PrpListLen
    BY <1>3
  <2>. QED
    BY <2>1, <2>2 DEF PrepIovMapped
<1>10. Built(dp) <=> Room /\ ~Missing
  <2>. HIDE DEF Room, Missing, entries
  <2>. QED
    BY <1>9, BuiltUnless
<1>11. ASSUME Inside, Room PROVE DescribesIov(target, dp, dvec)
  <2>1. ASSUME NEW i \in 1 .. N, NEW q \in 0 .. Ceil(dvec[i].len) - 1
        PROVE  lookup[dvec[i].base + q * PageSize] = target[dvec[i].base + q * PageSize]
    <3>1. PICK base \in Nat, len \in Nat \ {0} :
              base = dvec[i].base /\ len = dvec[i].len /\ q \in 0 .. Ceil(len) - 1
      BY <1>2, <2>1
    <3>2. PICK a \in base .. base + len - 1 : a = base + q * PageSize
      BY <3>1, PageInSegment
    <3>3. RegisteredPages(lookup, target, M, base, base + len - 1)
      BY <1>1, <3>1 DEF RegisteredIov
    <3>4. a \in M
      BY <1>1, <1>11, <3>1, <3>2 DEF SegmentBytes
    <3>. QED
      BY <3>1, <3>2, <3>3, <3>4 DEF RegisteredPages
  <2>2. ASSUME NEW i \in 1 .. N
        PROVE  SegmentPages(lookup, dvec, i) = SegmentPages(target, dvec, i)
    <3>1. PICK c \in Nat : c = Ceil(dvec[i].len)
      <4>1. PICK len \in Nat \ {0} : len = dvec[i].len
        BY <1>2
      <4>2. Ceil(len) \in Nat
        BY CeilFacts
      <4>. QED
        BY <4>1, <4>2
    <3>2. PICK skip \in {0, 1} : skip = IF i = 1 THEN 1 ELSE 0
      OBVIOUS
    <3>3. ASSUME NEW k \in 1 .. c - skip
          PROVE  lookup[dvec[i].base + (k - 1 + skip) * PageSize]
                     = target[dvec[i].base + (k - 1 + skip) * PageSize]
      <4>1. PICK q \in 0 .. Ceil(dvec[i].len) - 1 : q = k - 1 + skip
        BY <3>1, <3>2, <3>3
      <4>. QED
        BY <2>1, <4>1
    <3>4. /\ SegmentPages(lookup, dvec, i)
                = [k \in 1 .. c - skip |-> lookup[dvec[i].base + (k - 1 + skip) * PageSize]]
          /\ SegmentPages(target, dvec, i)
                = [k \in 1 .. c - skip |-> target[dvec[i].base + (k - 1 + skip) * PageSize]]
      BY <3>1, <3>2 DEF SegmentPages
    <3>. QED
      BY <3>3, <3>4
  <2>3. entries = IovEntries(target, dvec)
    BY <1>1, <2>2 DEF IovEntries
  <2>4. lookup[dvec[1].base] = target[dvec[1].base]
    <3>1. dvec[1].base \in Nat /\ 1 \in 1 .. N
      BY <1>2
    <3>2. dvec[1].base + 0 * PageSize = dvec[1].base
      BY <3>1
    <3>. QED
      BY <1>6, <2>1, <3>1, <3>2
  <2>5. dp = DataPointer(target[dvec[1].base], Prp2OfList(entries), entries)
    BY <1>7, <1>9, <1>11, <2>4
  <2>6. LinearIov(target, dvec)
    BY <1>11 DEF RegisteredIov, RegisteredPages, LinearIov, SegmentBytes
  <2>. HIDE DEF entries
  <2>7. \A k \in 0 .. IovLen(dvec) - 1 :
            DeviceByte(dp, IovLen(dvec), k) = target[IovByte(dvec, k)]
    BY <2>3, <2>5, <2>6, EntriesDescribeIov
  <2>. QED
    BY <2>7 DEF DescribesIov
<1>12. Missing <=> ~Inside
  BY <1>1, <1>7, <1>8
<1>. QED
  BY <1>10, <1>11, <1>12
=============================================================================
