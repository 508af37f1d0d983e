---------------------------- MODULE Heap4Proofs ----------------------------
EXTENDS Heap4, FiniteSetTheorems, SequenceTheorems, TLAPS

\* t is the first i elements of s, x, and the elements of s from the j-th on.
IsSpliced(t, s, i, x, j) ==
  /\ t \in Seq(Nat)
  /\ Len(t) = Len(s) + i - j + 2
  /\ \A m \in 1 .. i : t[m] = s[m]
  /\ t[i + 1] = x
  /\ \A m \in (i + 2) .. (Len(s) + i - j + 2) : t[m] = s[m + j - i - 2]

LEMMA SplicedProperties ==
  ASSUME NEW s \in Seq(Nat), NEW x \in Nat,
         NEW i \in 0 .. Len(s), NEW j \in (i + 1) .. (Len(s) + 1)
  PROVE  IsSpliced(Spliced(s, i, x, j), s, i, x, j)
<1> DEFINE a == SubSeq(s, 1, i)
           ax == a \o <<x>>
           c == SubSeq(s, j, Len(s))
<1>1. a \in Seq(Nat) /\ Len(a) = i /\ \A m \in 1 .. i : a[m] = s[m]
  OBVIOUS
<1>2. c \in Seq(Nat) /\ Len(c) = Len(s) - j + 1 /\ \A m \in 1 .. Len(c) : c[m] = s[m + j - 1]
  OBVIOUS
<1>3. /\ ax \in Seq(Nat) /\ Len(ax) = i + 1
      /\ \A m \in 1 .. i : ax[m] = a[m]
      /\ ax[i + 1] = x
  <2>1. <<x>> \in Seq(Nat) /\ Len(<<x>>) = 1 /\ <<x>>[1] = x
    OBVIOUS
  <2> HIDE DEF a
  <2>2. /\ ax \in Seq(Nat) /\ Len(ax) = Len(a) + Len(<<x>>)
        /\ \A m \in 1 .. Len(a) + Len(<<x>>) :
              ax[m] = IF m <= Len(a) THEN a[m] ELSE <<x>>[m - Len(a)]
    BY <1>1, <2>1, ConcatProperties, Zenon
  <2> HIDE DEF ax
  <2>3. i + 1 \in 1 .. i + 1 /\ ~(i + 1 <= i) /\ i + 1 - i = 1
    OBVIOUS
  <2>4. ax[i + 1] = x
    BY <1>1, <2>1, <2>2, <2>3
  <2>5. \A m \in 1 .. i : ax[m] = a[m]
    BY <1>1, <2>1, <2>2
  <2> QED BY <1>1, <2>1, <2>2, <2>4, <2>5
<1>4. Spliced(s, i, x, j) = ax \o c
  BY DEF Spliced
<1> HIDE DEF a, ax, c
<1>5. /\ ax \o c \in Seq(Nat) /\ Len(ax \o c) = Len(ax) + Len(c)
      /\ \A m \in 1 .. Len(ax) + Len(c) :
            (ax \o c)[m] = IF m <= Len(ax) THEN ax[m] ELSE c[m - Len(ax)]
  <2>1. ax \in Seq(Nat) /\ c \in Seq(Nat)
    BY <1>2, <1>3
  <2> QED BY <2>1, ConcatProperties, Zenon
<1>6. Len(s) \in Nat /\ i \in Int /\ j \in Int /\ Len(ax) + Len(c) = Len(s) + i - j + 2
  <2>1. Len(s) \in Nat
    OBVIOUS
  <2>2. i \in Int /\ j \in Int
    BY <2>1
  <2>3. Len(ax) = i + 1 /\ Len(c) = Len(s) - j + 1
    BY <1>2, <1>3
  <2> QED BY <2>1, <2>2, <2>3
<1>7. ASSUME NEW m \in (i + 2) .. (Len(s) + i - j + 2)
      PROVE  (ax \o c)[m] = s[m + j - i - 2]
  <2>1. /\ m \in 1 .. Len(ax) + Len(c) /\ ~(m <= Len(ax))
        /\ m - Len(ax) \in 1 .. Len(c) /\ m - Len(ax) + j - 1 = m + j - i - 2
    BY <1>2, <1>3, <1>6
  <2>2. (ax \o c)[m] = c[m - Len(ax)]
    BY <1>5, <2>1
  <2>3. c[m - Len(ax)] = s[m - Len(ax) + j - 1]
    BY <1>2, <2>1
  <2> QED BY <2>1, <2>2, <2>3
<1>8. ASSUME NEW m \in 1 .. (i + 1) PROVE (ax \o c)[m] = ax[m]
  <2>1. m \in 1 .. Len(ax) + Len(c) /\ m <= Len(ax)
    BY <1>2, <1>3, <1>6
  <2> QED BY <1>5, <2>1
<1>9. /\ \A m \in 1 .. i : m \in 1 .. (i + 1)
      /\ i + 1 \in 1 .. (i + 1)
  BY <1>6
<1> QED BY <1>1, <1>3, <1>4, <1>5, <1>6, <1>7, <1>8, <1>9, ZenonT(40) DEF IsSpliced

\* t is s without its i-th element.
IsUnlinked(t, s, i) ==
  /\ t \in Seq(Nat)
  /\ Len(t) = Len(s) - 1
  /\ \A m \in 1 .. (i - 1) : t[m] = s[m]
  /\ \A m \in i .. (Len(s) - 1) : t[m] = s[m + 1]

LEMMA UnlinkedProperties ==
  ASSUME NEW s \in Seq(Nat), NEW i \in 1 .. Len(s)
  PROVE  IsUnlinked(Unlinked(s, i), s, i)
<1> DEFINE a == SubSeq(s, 1, i - 1)
           c == SubSeq(s, i + 1, Len(s))
<1>1. a \in Seq(Nat) /\ Len(a) = i - 1 /\ \A m \in 1 .. (i - 1) : a[m] = s[m]
  OBVIOUS
<1>2. c \in Seq(Nat) /\ Len(c) = Len(s) - i /\ \A m \in 1 .. Len(c) : c[m] = s[m + i]
  OBVIOUS
<1>3. Unlinked(s, i) = a \o c
  BY DEF Unlinked
<1> HIDE DEF a, c
<1>5. /\ a \o c \in Seq(Nat) /\ Len(a \o c) = Len(a) + Len(c)
      /\ \A m \in 1 .. Len(a) + Len(c) :
            (a \o c)[m] = IF m <= Len(a) THEN a[m] ELSE c[m - Len(a)]
  <2>1. a \in Seq(Nat) /\ c \in Seq(Nat)
    BY <1>1, <1>2
  <2> QED BY <2>1, ConcatProperties, Zenon
<1>6. Len(s) \in Nat /\ Len(a) + Len(c) = Len(s) - 1
  BY <1>1, <1>2
<1>7. \A m \in 1 .. (i - 1) : Unlinked(s, i)[m] = s[m]
  BY <1>1, <1>3, <1>5, <1>6
<1>8. ASSUME NEW m \in i .. (Len(s) - 1)
      PROVE  Unlinked(s, i)[m] = s[m + 1]
  <2>1. m \in 1 .. Len(a) + Len(c) /\ ~(m <= Len(a)) /\ m - Len(a) \in 1 .. Len(c)
    BY <1>1, <1>2, <1>6
  <2>2. Unlinked(s, i)[m] = c[m - Len(a)]
    BY <1>3, <1>5, <2>1
  <2>3. m - Len(a) + i = m + 1
    BY <1>1
  <2>4. c[m - Len(a)] = s[m - Len(a) + i]
    BY <1>2, <2>1
  <2> QED BY <2>2, <2>3, <2>4
<1> QED BY <1>3, <1>5, <1>6, <1>7, <1>8 DEF IsUnlinked
-----------------------------------------------------------------------------
HeapRecord(B) ==
  [ready : BOOLEAN, hdr : [B -> Header], list : Seq(Nat), free : Int, minFree : Int,
   mallocs : Nat, frees : Nat]

\* The heaps built with EXCEPT, field by field.
LEMMA HdrReplaced ==
  ASSUME NEW r, NEW k1, NEW l, NEW f, NEW m, NEW ma, NEW fr, NEW k2
  PROVE  [[ready |-> r, hdr |-> k1, list |-> l, free |-> f, minFree |-> m, mallocs |-> ma,
           frees |-> fr] EXCEPT !.hdr = k2]
         = [ready |-> r, hdr |-> k2, list |-> l, free |-> f, minFree |-> m, mallocs |-> ma,
           frees |-> fr]
OBVIOUS

LEMMA ReleasedFields ==
  ASSUME NEW h, NEW B, h \in HeapRecord(B), NEW b
  PROVE  Released(h, b) =
           [ready |-> h.ready,
            hdr |-> [c \in Blocks(h) |->
                       IF c = b THEN [size |-> h.hdr[b].size, allocated |-> FALSE, wanted |-> 0]
                                ELSE h.hdr[c]],
            list |-> h.list, free |-> h.free + h.hdr[b].size, minFree |-> h.minFree,
            mallocs |-> h.mallocs, frees |-> h.frees + 1]
<1> DEFINE K == [c \in Blocks(h) |->
                       IF c = b THEN [size |-> h.hdr[b].size, allocated |-> FALSE, wanted |-> 0]
                                ELSE h.hdr[c]]
           F == h.free + h.hdr[b].size
           C == h.frees + 1
<1>1. Released(h, b) = [h EXCEPT !.hdr = K, !.free = F, !.frees = C]
  BY DEF Released
<1> HIDE DEF K, F, C
<1>2. h = [ready |-> h.ready, hdr |-> h.hdr, list |-> h.list, free |-> h.free,
           minFree |-> h.minFree, mallocs |-> h.mallocs, frees |-> h.frees]
  BY DEF HeapRecord
<1>3. Released(h, b) = [ready |-> h.ready, hdr |-> K, list |-> h.list, free |-> F,
                        minFree |-> h.minFree, mallocs |-> h.mallocs, frees |-> C]
  BY <1>1, <1>2
<1> QED BY <1>3 DEF K, F, C

LEMMA HeapInitFields ==
  HeapInit = [ready |-> TRUE,
              hdr |-> [b \in {FirstBlock} |->
                         [size |-> EndMarker - FirstBlock, allocated |-> FALSE, wanted |-> 0]],
              list |-> <<FirstBlock>>, free |-> EndMarker - FirstBlock,
              minFree |-> EndMarker - FirstBlock, mallocs |-> 0, frees |-> 0]
<1> DEFINE e == [b \in {} |-> [size |-> 0, allocated |-> FALSE, wanted |-> 0]]
           z == EndMarker - FirstBlock
           q == [b \in {FirstBlock} |-> [size |-> z, allocated |-> FALSE, wanted |-> 0]]
           L == <<FirstBlock>>
           E == << >>
<1>1. NoHeap = [ready |-> FALSE, hdr |-> e, list |-> E, free |-> 0, minFree |-> 0,
                mallocs |-> 0, frees |-> 0]
  BY DEF NoHeap
<1>2. HeapInit = [NoHeap EXCEPT !.ready = TRUE, !.hdr = q, !.list = L, !.free = z, !.minFree = z]
  BY DEF HeapInit
<1> HIDE DEF e, q, L, z, E
<1>3. HeapInit = [ready |-> TRUE, hdr |-> q, list |-> L, free |-> z, minFree |-> z,
             mallocs |-> 0, frees |-> 0]
  BY <1>1, <1>2
<1> QED BY <1>3 DEF q, L, z

\* All that holds of a heap whatever is on its free list.
BlocksSound(h) ==
  /\ h \in HeapRecord(Blocks(h))
  /\ Blocks(h) \subseteq HeapBytes
  /\ h.ready
  /\ BlocksDisjoint(h)
  /\ NoByteLost(h)
  /\ LiveBlocksFit(h)
  /\ FreeCounted(h)
  /\ CallsCounted(h)

\* The free list is in order and lacks only the block about to be inserted.
AwaitsInsert(h, b) ==
  /\ BlocksSound(h)
  /\ b \in FreeBlocks(h)
  /\ {h.list[i] : i \in 1 .. Len(h.list)} = FreeBlocks(h) \ {b}
  /\ NoFreeNeighbours(h)

HeapSound(h) == BlocksSound(h) /\ ListIsFree(h) /\ NoFreeNeighbours(h)

LEMMA FiniteHeap ==
  ASSUME NEW h, Blocks(h) \subseteq HeapBytes
  PROVE  /\ IsFiniteSet(FreeBytes(h)) /\ Cardinality(FreeBytes(h)) \in Nat
         /\ IsFiniteSet(Allocated(h)) /\ Cardinality(Allocated(h)) \in Nat
<1>1. IsFiniteSet(HeapBytes)
  BY RoomAssumption, FS_Interval DEF HeapBytes
<1>2. FreeBytes(h) \subseteq HeapBytes /\ Allocated(h) \subseteq HeapBytes
  BY DEF FreeBytes, Allocated
<1> QED BY <1>1, <1>2, FS_Subset, FS_CardinalityType

\* What of a sound heap the steps below read.
LEMMA SoundFacts ==
  ASSUME NEW h, BlocksSound(h)
  PROVE  /\ Blocks(h) \subseteq HeapBytes /\ HeapBytes \subseteq Nat /\ EndMarker \in Nat
         /\ FirstBlock \in Nat
         /\ \A c \in Blocks(h) :
              /\ h.hdr[c] \in Header /\ h.hdr[c].size \in Nat /\ h.hdr[c].wanted \in Nat
              /\ h.hdr[c].allocated \in BOOLEAN
              /\ c \in Nat /\ EndOf(h, c) \in Nat /\ EndOf(h, c) = c + h.hdr[c].size
              /\ h.hdr[c].size > 0 /\ FirstBlock <= c /\ EndOf(h, c) <= EndMarker
         /\ \A c, d \in Blocks(h) : c < d => EndOf(h, c) <= d
         /\ FreeBlocks(h) \subseteq Blocks(h) /\ Allocated(h) \subseteq Blocks(h)
         /\ h.list \in Seq(Nat) /\ h.free \in Nat /\ h.mallocs \in Nat /\ h.frees \in Nat
         /\ h.minFree \in Int
         /\ h.hdr = [c \in Blocks(h) |-> h.hdr[c]]
<1>1. /\ Blocks(h) \subseteq HeapBytes /\ HeapBytes \subseteq Nat /\ EndMarker \in Nat
      /\ FirstBlock \in Nat
  BY RoomAssumption DEF BlocksSound, HeapBytes
<1>2. /\ h.hdr \in [Blocks(h) -> Header] /\ h.list \in Seq(Nat) /\ h.mallocs \in Nat
      /\ h.frees \in Nat /\ h.minFree \in Int
  BY DEF BlocksSound, HeapRecord
<1>3. \A c \in Blocks(h) :
        /\ h.hdr[c] \in Header /\ h.hdr[c].size \in Nat /\ h.hdr[c].wanted \in Nat
        /\ h.hdr[c].allocated \in BOOLEAN
  BY <1>2 DEF Header
<1>4. \A c \in Blocks(h) : h.hdr[c].size > 0 /\ FirstBlock <= c /\ EndOf(h, c) <= EndMarker
  BY DEF BlocksSound, BlocksDisjoint
<1>5. \A c \in Blocks(h) : c \in Nat /\ EndOf(h, c) \in Nat /\ EndOf(h, c) = c + h.hdr[c].size
  BY <1>1, <1>3 DEF EndOf
<1>6. \A c, d \in Blocks(h) : c < d => EndOf(h, c) <= d
  BY DEF BlocksSound, BlocksDisjoint
<1>7. h.free \in Nat
  BY <1>1, FiniteHeap DEF BlocksSound, FreeCounted
<1>8. FreeBlocks(h) \subseteq Blocks(h) /\ Allocated(h) \subseteq Blocks(h)
  BY DEF FreeBlocks, Allocated
<1> QED BY <1>1, <1>2, <1>3, <1>4, <1>5, <1>6, <1>7, <1>8

\* The bytes of h from its block `start` up to `end` are those of start and of
\* the blocks it has swallowed.
LEMMA MergeBounds ==
  ASSUME NEW h, NEW b, AwaitsInsert(h, b), NEW k \in Positions(h.list, b)
  PROVE  LET prev == JoinsPrev(h, b, k)
             next == JoinsNext(h, b, k)
             start == IF prev THEN h.list[k] ELSE b
             end == IF next THEN EndOf(h, h.list[k + 1]) ELSE EndOf(h, b)
             swallowed == (IF prev THEN {b} ELSE {}) \cup (IF next THEN {h.list[k + 1]} ELSE {})
         IN  /\ start \in FreeBlocks(h) \ swallowed
             /\ swallowed \subseteq FreeBlocks(h)
             /\ start < end /\ end \in Nat /\ end <= EndMarker
             /\ \A c \in Blocks(h) \ swallowed : start < c => end <= c
             /\ \A x \in HeapBytes :
                  (start <= x /\ x < end) <=>
                    \E c \in swallowed \cup {start} : c <= x /\ x < EndOf(h, c)
<1> DEFINE p == h.list[k]
           n == h.list[k + 1]
<1>1. /\ h.list \in Seq(Nat) /\ Len(h.list) \in Nat
      /\ Blocks(h) \subseteq HeapBytes /\ HeapBytes \subseteq Nat
      /\ EndMarker \in Nat
      /\ \A c \in Blocks(h) : /\ h.hdr[c].size \in Nat \ {0}
                              /\ c \in Nat /\ EndOf(h, c) \in Nat
                              /\ c < EndOf(h, c) /\ EndOf(h, c) <= EndMarker
      /\ \A c, d \in Blocks(h) : c < d => EndOf(h, c) <= d
      /\ b \in FreeBlocks(h) /\ FreeBlocks(h) \subseteq Blocks(h)
  <2>1. BlocksSound(h) /\ b \in FreeBlocks(h)
    BY DEF AwaitsInsert
  <2>2. \A c \in Blocks(h) : /\ h.hdr[c].size \in Nat \ {0}
                              /\ c \in Nat /\ EndOf(h, c) \in Nat
                              /\ c < EndOf(h, c) /\ EndOf(h, c) <= EndMarker
    <3> TAKE c \in Blocks(h)
    <3>1. /\ h.hdr[c].size \in Nat /\ c \in Nat /\ EndOf(h, c) \in Nat
          /\ EndOf(h, c) = c + h.hdr[c].size /\ h.hdr[c].size > 0 /\ EndOf(h, c) <= EndMarker
      BY <2>1, SoundFacts, Zenon
    <3> QED BY <3>1
  <2>3. h.list \in Seq(Nat) /\ EndMarker \in Nat
    BY <2>1, SoundFacts
  <2>6. Blocks(h) \subseteq HeapBytes /\ HeapBytes \subseteq Nat /\ FreeBlocks(h) \subseteq Blocks(h)
    BY <2>1, SoundFacts
  <2>4. \A c, d \in Blocks(h) : c < d => EndOf(h, c) <= d
    BY <2>1, SoundFacts
  <2>5. Len(h.list) \in Nat
    BY <2>3
  <2> QED BY <2>1, <2>2, <2>3, <2>4, <2>5, <2>6
<1>2. k \in 0 .. Len(h.list)
  BY DEF Positions
<1>3. \A i \in 1 .. Len(h.list) : h.list[i] \in FreeBlocks(h) \ {b}
  BY DEF AwaitsInsert
<1>4. ASSUME k > 0 PROVE p \in FreeBlocks(h) /\ p # b /\ p < b
  BY <1>1, <1>2, <1>3, <1>4 DEF Positions
<1>5. ASSUME k < Len(h.list) PROVE n \in FreeBlocks(h) /\ n # b /\ b < n
  BY <1>1, <1>2, <1>3, <1>5 DEF Positions
<1>6. JoinsPrev(h, b, k) => k > 0 /\ EndOf(h, p) = b
  BY DEF JoinsPrev
<1>7. JoinsNext(h, b, k) => k < Len(h.list) /\ EndOf(h, b) = n
  BY DEF JoinsNext
<1> HIDE DEF p, n
<1> DEFINE Goal(start, end, swallowed) ==
             /\ start \in FreeBlocks(h) \ swallowed
             /\ swallowed \subseteq FreeBlocks(h)
             /\ start < end /\ end \in Nat /\ end <= EndMarker
             /\ \A c \in Blocks(h) \ swallowed : start < c => end <= c
             /\ \A x \in HeapBytes :
                  (start <= x /\ x < end) <=>
                    \E c \in swallowed \cup {start} : c <= x /\ x < EndOf(h, c)
<1>a. CASE JoinsPrev(h, b, k) /\ JoinsNext(h, b, k)
  <2>1. Goal(p, EndOf(h, n), {b, n})
    <3>1. /\ p \in FreeBlocks(h) /\ b \in FreeBlocks(h) /\ n \in FreeBlocks(h)
          /\ p < b /\ b < n /\ EndOf(h, p) = b /\ EndOf(h, b) = n /\ n < EndOf(h, n)
          /\ p \in Nat /\ n \in Nat /\ b \in Nat /\ EndOf(h, n) \in Nat
          /\ EndOf(h, n) <= EndMarker
      BY <1>a, <1>1, <1>4, <1>5, <1>6, <1>7
    <3>2. ASSUME NEW c \in Blocks(h) \ {b, n}, p < c PROVE EndOf(h, n) <= c
      BY <1>1, <3>1, <3>2
    <3>3. ASSUME NEW x \in HeapBytes
          PROVE  (p <= x /\ x < EndOf(h, n)) <=>
                   \E c \in {b, n} \cup {p} : c <= x /\ x < EndOf(h, c)
      <4>1. x \in Nat
        BY <1>1
      <4> QED BY <3>1, <4>1
    <3> QED BY <3>1, <3>2, <3>3
  <2> QED BY <1>a, <2>1 DEF p, n
<1>b. CASE JoinsPrev(h, b, k) /\ ~JoinsNext(h, b, k)
  <2>1. Goal(p, EndOf(h, b), {b})
    BY <1>b, <1>1, <1>4, <1>6
  <2> QED BY <1>b, <2>1 DEF p
<1>c. CASE ~JoinsPrev(h, b, k) /\ JoinsNext(h, b, k)
  <2>1. Goal(b, EndOf(h, n), {n})
    BY <1>c, <1>1, <1>5, <1>7
  <2> QED BY <1>c, <2>1 DEF n
<1>d. CASE ~JoinsPrev(h, b, k) /\ ~JoinsNext(h, b, k)
  <2>1. Goal(b, EndOf(h, b), {})
    BY <1>d, <1>1
  <2> QED BY <1>d, <2>1
<1> QED BY <1>a, <1>b, <1>c, <1>d

\* prvInsertBlockIntoFreeList keeps the heap sound, completes the free list and
\* leaves every block of the application as it is.
LEMMA InsertedSound ==
  ASSUME NEW h, NEW b, AwaitsInsert(h, b), NEW g \in Inserted(h, b)
  PROVE  /\ HeapSound(g)
         /\ Allocated(g) = Allocated(h)
         /\ \A c \in Allocated(h) : g.hdr[c] = h.hdr[c]
         /\ g.free = h.free /\ g.minFree = h.minFree
         /\ g.mallocs = h.mallocs /\ g.frees = h.frees
<1>1. PICK k \in Positions(h.list, b) : g = InsertedAt(h, b, k)
  BY DEF Inserted
<1> DEFINE prev == JoinsPrev(h, b, k)
           next == JoinsNext(h, b, k)
           start == IF prev THEN h.list[k] ELSE b
           end == IF next THEN EndOf(h, h.list[k + 1]) ELSE EndOf(h, b)
           swallowed == (IF prev THEN {b} ELSE {}) \cup (IF next THEN {h.list[k + 1]} ELSE {})
           i == IF prev THEN k - 1 ELSE k
           j == IF next THEN k + 2 ELSE k + 1
           hdr == [c \in Blocks(h) \ swallowed |->
                     IF c = start THEN [h.hdr[c] EXCEPT !.size = end - start] ELSE h.hdr[c]]
<1>2. /\ start \in FreeBlocks(h) \ swallowed
      /\ swallowed \subseteq FreeBlocks(h)
      /\ start < end /\ end \in Nat /\ end <= EndMarker
      /\ \A c \in Blocks(h) \ swallowed : start < c => end <= c
      /\ \A x \in HeapBytes :
           (start <= x /\ x < end) <=> \E c \in swallowed \cup {start} : c <= x /\ x < EndOf(h, c)
  BY MergeBounds, Zenon
<1>3. /\ h \in HeapRecord(Blocks(h))
      /\ g = [h EXCEPT !.hdr = hdr, !.list = Spliced(h.list, i, start, j)]
  BY <1>1 DEF InsertedAt, AwaitsInsert, BlocksSound
<1>4. k \in 0 .. Len(h.list) /\ (prev => k > 0) /\ (next => k < Len(h.list))
  BY DEF Positions, JoinsPrev, JoinsNext
<1>5. prev => start = h.list[k]
  OBVIOUS
<1>6. next => h.list[k + 1] \in swallowed
  OBVIOUS
<1>6a. \A c \in swallowed : c = b \/ (next /\ c = h.list[k + 1])
  OBVIOUS
<1>6b. ~prev => start = b
  OBVIOUS
<1>6c. prev => b \in swallowed
  OBVIOUS
<1> HIDE DEF prev, next, start, end, swallowed
<1>7. /\ FreeBlocks(h) \subseteq Blocks(h) /\ Blocks(h) \subseteq HeapBytes
      /\ HeapBytes \subseteq Nat /\ EndMarker \in Nat
      /\ \A c \in Blocks(h) : /\ h.hdr[c] \in Header /\ c \in Nat /\ EndOf(h, c) \in Nat
                              /\ h.hdr[c].size > 0 /\ FirstBlock <= c /\ EndOf(h, c) <= EndMarker
                              /\ h.hdr[c].size \in Nat
      /\ \A c, d \in Blocks(h) : c < d => EndOf(h, c) <= d
  BY RoomAssumption, SMTT(30) DEF FreeBlocks, AwaitsInsert, BlocksSound, HeapBytes, HeapRecord, Header,
                        Blocks, EndOf, BlocksDisjoint
<1>8. /\ g.hdr = hdr /\ g.list = Spliced(h.list, i, start, j) /\ g.ready = h.ready
      /\ g.free = h.free /\ g.minFree = h.minFree
      /\ g.mallocs = h.mallocs /\ g.frees = h.frees
      /\ Blocks(g) = Blocks(h) \ swallowed
  BY <1>3 DEF HeapRecord, Blocks
<1>9. \A c \in Blocks(g) :
        /\ g.hdr[c] \in Header
        /\ g.hdr[c].allocated = h.hdr[c].allocated
        /\ c # start => g.hdr[c] = h.hdr[c]
        /\ EndOf(g, c) = IF c = start THEN end ELSE EndOf(h, c)
        /\ g.hdr[c].size > 0
  <2> TAKE c \in Blocks(g)
  <2>1. c \in Blocks(h) \ swallowed /\ c \in Nat
    BY <1>7, <1>8
  <2>2. CASE c = start
    <3>1. g.hdr[c] = [h.hdr[c] EXCEPT !.size = end - start]
      BY <1>8, <2>1, <2>2
    <3>2. end - start \in Nat /\ end - start > 0 /\ start + (end - start) = end
      BY <1>2, <2>1, <2>2
    <3> QED BY <1>7, <2>1, <2>2, <3>1, <3>2 DEF Header, EndOf
  <2>3. CASE c # start
    <3>1. g.hdr[c] = h.hdr[c]
      BY <1>8, <2>1, <2>3
    <3> QED BY <1>7, <2>1, <2>3, <3>1 DEF Header, EndOf
  <2> QED BY <2>2, <2>3
<1>10. FreeBlocks(g) = FreeBlocks(h) \ swallowed /\ Allocated(g) = Allocated(h)
  BY <1>2, <1>8, <1>9 DEF FreeBlocks, Allocated
<1>11. \A c \in Allocated(h) : g.hdr[c] = h.hdr[c]
  BY <1>2, <1>9, <1>10 DEF FreeBlocks, Allocated
<1>12. BlocksDisjoint(g)
  <2>1. \A c \in Blocks(g) : g.hdr[c].size > 0 /\ FirstBlock <= c /\ EndOf(g, c) <= EndMarker
    BY <1>2, <1>7, <1>8, <1>9
  <2>2. \A c, d \in Blocks(g) : c < d => EndOf(g, c) <= d
    BY <1>2, <1>7, <1>8, <1>9
  <2> QED BY <2>1, <2>2 DEF BlocksDisjoint
<1>13. ASSUME NEW x \in HeapBytes, NEW c \in Blocks(h), c <= x /\ x < EndOf(h, c)
       PROVE  \E d \in Blocks(g) : /\ d <= x /\ x < EndOf(g, d)
                                   /\ c \in FreeBlocks(h) => d \in FreeBlocks(g)
  <2>1. CASE c \in swallowed \cup {start}
    <3>1. start <= x /\ x < end
      BY <1>2, <1>13, <2>1
    <3>2. start \in Blocks(g) /\ start \in FreeBlocks(g) /\ EndOf(g, start) = end
      BY <1>2, <1>7, <1>8, <1>9, <1>10
    <3> QED BY <3>1, <3>2
  <2>2. CASE c \notin swallowed \cup {start}
    <3>1. c \in Blocks(g) /\ EndOf(g, c) = EndOf(h, c)
      BY <1>8, <1>9, <2>2
    <3> QED BY <1>10, <1>13, <2>2, <3>1
  <2> QED BY <2>1, <2>2
<1>14. NoByteLost(g)
  BY <1>8, <1>13 DEF AwaitsInsert, BlocksSound, NoByteLost
<1>15. FreeBytes(g) = FreeBytes(h)
  <2>1. ASSUME NEW x \in HeapBytes, NEW d \in FreeBlocks(g), d <= x /\ x < EndOf(g, d)
        PROVE  \E c \in FreeBlocks(h) : c <= x /\ x < EndOf(h, c)
    <3>1. d \in FreeBlocks(h) /\ d \in Blocks(g)
      BY <1>10 DEF FreeBlocks
    <3>2. CASE d = start
      BY <1>2, <1>9, <2>1, <3>1, <3>2
    <3>3. CASE d # start
      BY <1>9, <2>1, <3>1, <3>3
    <3> QED BY <3>2, <3>3
  <2>2. FreeBytes(h) \subseteq FreeBytes(g)
    BY <1>7, <1>13 DEF FreeBytes
  <2> QED BY <2>1, <2>2 DEF FreeBytes
<1>16. LiveBlocksFit(g) /\ FreeCounted(g) /\ CallsCounted(g) /\ g.ready
  BY <1>8, <1>10, <1>11, <1>15
     DEF AwaitsInsert, BlocksSound, LiveBlocksFit, FreeCounted, CallsCounted
<1>17. h.list \in Seq(Nat) /\ Len(h.list) \in Nat
  BY <1>3 DEF HeapRecord
<1>t. b \in Nat /\ b \in Blocks(h) /\ EndOf(h, b) \in Nat /\ start \in Nat /\ start \in Blocks(h)
  BY <1>2, <1>7 DEF AwaitsInsert
<1>m. \A m \in 1 .. Len(h.list) :
        /\ h.list[m] \in FreeBlocks(h) /\ h.list[m] # b /\ h.list[m] \in Nat
        /\ h.list[m] \in Blocks(h) /\ EndOf(h, h.list[m]) \in Nat
  BY <1>7 DEF AwaitsInsert
<1>c. \A c \in FreeBlocks(h) : c # b => \E m \in 1 .. Len(h.list) : c = h.list[m]
  BY DEF AwaitsInsert
<1>n. \A m, o \in 1 .. Len(h.list) : m < o => EndOf(h, h.list[m]) < h.list[o]
  BY DEF AwaitsInsert, NoFreeNeighbours
<1>s. \A m, o \in 1 .. Len(h.list) : m < o => h.list[m] < h.list[o]
  <2> TAKE m, o \in 1 .. Len(h.list)
  <2> HAVE m < o
  <2>1. h.list[m] < EndOf(h, h.list[m])
    <3>1. /\ h.hdr[h.list[m]].size > 0 /\ h.list[m] \in Nat
          /\ h.hdr[h.list[m]].size \in Nat
      BY <1>7, <1>m
    <3> QED BY <3>1 DEF EndOf
  <2> QED BY <1>m, <1>n, <2>1
<1>18. /\ i \in 0 .. Len(h.list) /\ j \in (i + 1) .. (Len(h.list) + 1)
       /\ i \in Int /\ j \in Int /\ k \in Int
       /\ (prev => i = k - 1) /\ (~prev => i = k) /\ (next => j = k + 2) /\ (~next => j = k + 1)
  BY <1>4, <1>17
<1> HIDE DEF i, j, hdr
<1>19. /\ g.list \in Seq(Nat)
       /\ Len(g.list) = Len(h.list) + i - j + 2
       /\ \A m \in 1 .. i : g.list[m] = h.list[m]
       /\ g.list[i + 1] = start
       /\ \A m \in (i + 2) .. Len(g.list) : g.list[m] = h.list[m + j - i - 2]
  <2>1. /\ Spliced(h.list, i, start, j) \in Seq(Nat)
        /\ Len(Spliced(h.list, i, start, j)) = Len(h.list) + i - j + 2
        /\ \A m \in 1 .. i : Spliced(h.list, i, start, j)[m] = h.list[m]
        /\ Spliced(h.list, i, start, j)[i + 1] = start
        /\ \A m \in (i + 2) .. (Len(h.list) + i - j + 2) :
               Spliced(h.list, i, start, j)[m] = h.list[m + j - i - 2]
    <3>1. /\ h.list \in Seq(Nat) /\ start \in Nat
          /\ i \in 0 .. Len(h.list) /\ j \in (i + 1) .. (Len(h.list) + 1)
      BY <1>17, <1>t, <1>18
    <3>2. IsSpliced(Spliced(h.list, i, start, j), h.list, i, start, j)
      BY <3>1, SplicedProperties
    <3> QED BY <3>2 DEF IsSpliced
  <2> QED BY <1>8, <2>1
<1>m0. \A m \in 1 .. Len(h.list) : m <= k => h.list[m] < b
  BY <1>4, <1>17, <1>18 DEF Positions
<1>m1. \A m \in 1 .. Len(h.list) : m > k => b < h.list[m]
  <2> TAKE m \in 1 .. Len(h.list)
  <2> HAVE m > k
  <2>1. k + 1 \in 1 .. Len(h.list) /\ k < Len(h.list)
    BY <1>4, <1>17, <1>18
  <2>2. h.list[k + 1] >= b
    BY <2>1 DEF Positions
  <2>3. h.list[k + 1] <= h.list[m]
    <3>1. CASE m = k + 1
      BY <1>m, <2>1, <3>1
    <3>2. CASE m > k + 1
      BY <1>m, <1>s, <2>1, <3>2
    <3> QED BY <1>18, <2>1, <3>1, <3>2
  <2> QED BY <1>m, <1>t, <2>1, <2>2, <2>3
<1>k0. prev => k \in 1 .. Len(h.list) /\ start = h.list[k] /\ start < b
  BY <1>4, <1>5, <1>18, <1>m0
<1>k1. next => k + 1 \in 1 .. Len(h.list)
  BY <1>4, <1>17, <1>18
<1>k2. \A m \in 1 .. Len(h.list) : h.list[m] \in swallowed => next /\ m = k + 1
  <2> TAKE m \in 1 .. Len(h.list)
  <2> HAVE h.list[m] \in swallowed
  <2>1. next /\ h.list[m] = h.list[k + 1]
    BY <1>6a, <1>m
  <2>2. ~(m < k + 1) /\ ~(k + 1 < m)
    BY <1>k1, <1>m, <1>s, <2>1
  <2> QED BY <1>18, <2>1, <2>2
<1>k3. \A m \in 1 .. Len(h.list) : h.list[m] = start => prev /\ m = k
  <2> TAKE m \in 1 .. Len(h.list)
  <2> HAVE h.list[m] = start
  <2>1. prev
    BY <1>6b, <1>m
  <2>2. ~(m < k) /\ ~(k < m)
    BY <1>k0, <1>m, <1>s, <2>1
  <2> QED BY <1>18, <2>1, <2>2
\* The elements cut out of the list are the ones that merge with b.
<1>20. \A m \in 1 .. Len(h.list) :
          i < m /\ m < j => h.list[m] = start \/ h.list[m] \in swallowed
  <2> TAKE m \in 1 .. Len(h.list)
  <2> HAVE i < m /\ m < j
  <2>1. (prev /\ m = k) \/ (next /\ m = k + 1)
    BY <1>18
  <2> QED BY <1>5, <1>6, <2>1
\* The elements kept before start end below it; those kept behind it start above `end`.
<1>21. \A m \in 1 .. Len(h.list) : m <= i => EndOf(h, h.list[m]) < start /\ h.list[m] # start
  <2> TAKE m \in 1 .. Len(h.list)
  <2> HAVE m <= i
  <2>1. CASE prev
    BY <1>18, <1>k0, <1>m, <1>n, <1>s, <2>1
  <2>2. CASE ~prev
    <3>1. m <= k /\ k \in 1 .. Len(h.list) /\ k > 0 /\ start = b
      BY <1>4, <1>6b, <1>18, <2>2
    <3>2. EndOf(h, h.list[k]) # b /\ EndOf(h, h.list[k]) <= b
      <4>1. h.list[k] \in Blocks(h) /\ h.list[k] < b
        BY <1>m, <1>m0, <3>1
      <4>2. EndOf(h, h.list[k]) # b
        BY <2>2, <3>1 DEF prev, JoinsPrev
      <4> QED BY <1>7, <1>t, <4>1, <4>2
    <3>3. m < k => EndOf(h, h.list[m]) < h.list[k] /\ h.list[k] < b
      BY <1>m0, <1>n, <3>1
    <3> QED BY <1>t, <1>m, <1>18, <3>1, <3>2, <3>3, SMTT(30)
  <2> QED BY <2>1, <2>2
<1>22. \A m \in 1 .. Len(h.list) : m >= j => end < h.list[m] /\ h.list[m] # start
  <2> TAKE m \in 1 .. Len(h.list)
  <2> HAVE m >= j
  <2>0. m > k /\ h.list[m] # start
    BY <1>18, <1>k3
  <2>1. CASE next
    <3>1. end = EndOf(h, h.list[k + 1]) /\ k + 1 < m
      BY <1>18, <2>1 DEF end
    <3> QED BY <1>n, <1>k1, <2>0, <2>1, <3>1
  <2>2. CASE ~next
    <3>1. /\ end = EndOf(h, b) /\ k + 1 \in 1 .. Len(h.list) /\ k < Len(h.list) /\ k + 1 <= m
      BY <1>4, <1>17, <1>18, <2>0, <2>2 DEF end
    <3>2. EndOf(h, b) # h.list[k + 1]
      BY <2>2, <3>1 DEF next, JoinsNext
    <3>3. b < h.list[k + 1] /\ h.list[k + 1] \in Blocks(h)
      BY <1>m, <1>m1, <1>18, <3>1
    <3>4. EndOf(h, b) < h.list[k + 1]
      <4>1. EndOf(h, b) <= h.list[k + 1] /\ h.list[k + 1] \in Nat
        BY <1>7, <1>t, <1>m, <3>1, <3>3
      <4> QED BY <1>t, <3>2, <4>1
    <3>5. k + 1 < m => h.list[k + 1] < h.list[m]
      BY <1>s, <3>1
    <3>6. /\ h.list[k + 1] \in Nat /\ h.list[m] \in Nat /\ EndOf(h, b) \in Nat
          /\ (k + 1 = m \/ k + 1 < m)
      <4>1. h.list[k + 1] \in Nat /\ h.list[m] \in Nat
        BY <1>t, <1>m, <3>1
      <4>2. EndOf(h, b) \in Nat
        BY <1>t
      <4>3. k + 1 = m \/ k + 1 < m
        BY <1>18, <3>1
      <4> QED BY <4>1, <4>2, <4>3
    <3> QED BY <2>0, <3>1, <3>4, <3>5, <3>6
  <2> QED BY <2>1, <2>2
\* Where an element of the new list comes from.
<1>o. \A m \in 1 .. Len(g.list) :
        \/ m \in 1 .. i /\ m \in 1 .. Len(h.list) /\ g.list[m] = h.list[m]
        \/ m = i + 1 /\ g.list[m] = start
        \/ /\ m > i + 1 /\ m + j - i - 2 \in 1 .. Len(h.list) /\ m + j - i - 2 >= j
           /\ g.list[m] = h.list[m + j - i - 2]
  <2> TAKE m \in 1 .. Len(g.list)
  <2>0. /\ i \in Int /\ j \in Int /\ m \in Int /\ Len(h.list) \in Int /\ Len(g.list) \in Int
        /\ 0 <= i /\ i <= Len(h.list) /\ i + 1 <= j /\ 1 <= m /\ m <= Len(g.list)
        /\ Len(g.list) = Len(h.list) + i - j + 2
    <3>1. Len(g.list) = Len(h.list) + i - j + 2
      BY <1>19
    <3> QED BY <1>17, <1>18, <3>1
  <2>1. CASE m <= i
    <3>1. m \in 1 .. i /\ m \in 1 .. Len(h.list)
      BY <2>0, <2>1
    <3> QED BY <1>19, <3>1
  <2>2. CASE m = i + 1
    BY <1>19, <2>2
  <2>3. CASE m > i + 1
    <3>1. /\ m + j - i - 2 \in 1 .. Len(h.list) /\ m + j - i - 2 >= j
          /\ m \in (i + 2) .. Len(g.list)
      BY <2>0, <2>3
    <3> QED BY <1>19, <2>3, <3>1
  <2> QED BY <2>0, <2>1, <2>2, <2>3
<1>23. ListIsFree(g)
  <2>1. \A m \in 1 .. Len(g.list) : g.list[m] \in FreeBlocks(g)
    <3>1. ASSUME NEW m \in 1 .. Len(h.list), m <= i \/ m >= j PROVE h.list[m] \in FreeBlocks(g)
      BY <1>10, <1>18, <1>k2, <1>m, <3>1
    <3>2. start \in FreeBlocks(g)
      BY <1>2, <1>10
    <3> TAKE m \in 1 .. Len(g.list)
    <3>3. CASE m \in 1 .. i /\ m \in 1 .. Len(h.list) /\ g.list[m] = h.list[m]
      BY <1>18, <3>1, <3>3
    <3>4. CASE /\ m > i + 1 /\ m + j - i - 2 \in 1 .. Len(h.list) /\ m + j - i - 2 >= j
               /\ g.list[m] = h.list[m + j - i - 2]
      BY <3>1, <3>4
    <3> QED BY <1>o, <3>2, <3>3, <3>4
  <2>2. ASSUME NEW c \in FreeBlocks(g) PROVE \E m \in 1 .. Len(g.list) : g.list[m] = c
    <3>1. CASE c = start
      BY <1>17, <1>18, <1>19, <3>1
    <3>2. CASE c # start
      <4>1. c \in FreeBlocks(h) /\ c \notin swallowed /\ c # b
        BY <1>6b, <1>6c, <1>10, <2>2, <3>2
      <4>2. PICK m \in 1 .. Len(h.list) : c = h.list[m]
        BY <1>c, <4>1
      <4>3. CASE m <= i
        <5>1. m \in 1 .. i /\ m \in 1 .. Len(g.list)
          BY <1>17, <1>18, <1>19, <4>3
        <5> QED BY <1>19, <4>2, <5>1
      <4>4. CASE m >= j
        <5>1. /\ m - j + i + 2 \in (i + 2) .. Len(g.list)
              /\ m - j + i + 2 \in 1 .. Len(g.list)
              /\ (m - j + i + 2) + j - i - 2 = m
          BY <1>17, <1>18, <1>19, <4>4, SMTT(30)
        <5> QED BY <1>19, <4>2, <5>1
      <4>5. m <= i \/ m >= j
        BY <1>18, <1>20, <3>2, <4>1, <4>2
      <4> QED BY <4>3, <4>4, <4>5
    <3> QED BY <3>1, <3>2
  <2> QED BY <2>1, <2>2 DEF ListIsFree
<1>24. NoFreeNeighbours(g)
  <2> SUFFICES ASSUME NEW m \in 1 .. Len(g.list), NEW o \in 1 .. Len(g.list), m < o
               PROVE  EndOf(g, g.list[m]) < g.list[o]
    BY DEF NoFreeNeighbours
  <2>1. m \in Int /\ o \in Int /\ g.list[m] \in Blocks(g)
    BY <1>23 DEF ListIsFree, FreeBlocks
  <2>2. ASSUME NEW q \in 1 .. Len(h.list), q <= i \/ q >= j, g.list[m] = h.list[q]
        PROVE  EndOf(g, g.list[m]) = EndOf(h, h.list[q])
    BY <1>9, <1>18, <1>21, <1>22, <2>1, <2>2
  <2>3. CASE m <= i /\ o <= i
    <3>1. /\ m \in 1 .. Len(h.list) /\ g.list[m] = h.list[m]
          /\ o \in 1 .. Len(h.list) /\ g.list[o] = h.list[o]
      BY <1>18, <1>o, <2>1, <2>3
    <3> QED BY <1>n, <2>2, <2>3, <3>1
  <2>4. CASE m <= i /\ o = i + 1
    <3>1. m \in 1 .. Len(h.list) /\ g.list[m] = h.list[m] /\ g.list[o] = start
      BY <1>18, <1>o, <2>1, <2>4
    <3> QED BY <1>21, <2>2, <2>4, <3>1
  <2>5. CASE m <= i /\ o > i + 1
    <3>1. /\ m \in 1 .. Len(h.list) /\ g.list[m] = h.list[m]
          /\ o + j - i - 2 \in 1 .. Len(h.list) /\ g.list[o] = h.list[o + j - i - 2]
          /\ m < o + j - i - 2
      BY <1>18, <1>o, <2>1, <2>5
    <3> QED BY <1>n, <2>2, <2>5, <3>1
  <2>6. CASE m = i + 1 /\ o > i + 1
    <3>1. /\ g.list[m] = start /\ o + j - i - 2 >= j
          /\ o + j - i - 2 \in 1 .. Len(h.list) /\ g.list[o] = h.list[o + j - i - 2]
      BY <1>18, <1>o, <2>1, <2>6
    <3> QED BY <1>9, <1>22, <2>1, <3>1
  <2>7. CASE m > i + 1 /\ o > i + 1
    <3>1. /\ m + j - i - 2 \in 1 .. Len(h.list) /\ g.list[m] = h.list[m + j - i - 2]
          /\ o + j - i - 2 \in 1 .. Len(h.list) /\ g.list[o] = h.list[o + j - i - 2]
          /\ m + j - i - 2 < o + j - i - 2 /\ m + j - i - 2 >= j
      BY <1>18, <1>o, <2>1, <2>7
    <3> QED BY <1>n, <2>2, <3>1
  <2> QED BY <1>18, <2>1, <2>3, <2>4, <2>5, <2>6, <2>7
<1>25. g \in HeapRecord(Blocks(g)) /\ Blocks(g) \subseteq HeapBytes
  <2>1. g.hdr \in [Blocks(g) -> Header]
    <3>1. \A c \in Blocks(g) : g.hdr[c] \in Header
      BY <1>9
    <3>2. g.hdr = [c \in Blocks(g) |-> g.hdr[c]]
      BY <1>8 DEF hdr, Blocks
    <3> QED BY <3>1, <3>2
  <2>2. g.list \in Seq(Nat)
    BY <1>19
  <2>3. g = [ready |-> g.ready, hdr |-> g.hdr, list |-> g.list, free |-> g.free,
             minFree |-> g.minFree, mallocs |-> g.mallocs, frees |-> g.frees]
    BY <1>3 DEF HeapRecord
  <2>4. /\ h.ready \in BOOLEAN /\ h.free \in Int /\ h.minFree \in Int
        /\ h.mallocs \in Nat /\ h.frees \in Nat
    BY <1>3 DEF HeapRecord
  <2> QED BY <1>7, <1>8, <2>1, <2>2, <2>3, <2>4 DEF HeapRecord
<1> QED
  BY <1>8, <1>10, <1>11, <1>12, <1>14, <1>16, <1>23, <1>24, <1>25 DEF HeapSound, BlocksSound
-----------------------------------------------------------------------------
LEMMA DropInterval ==
  ASSUME NEW S, IsFiniteSet(S), NEW a \in Nat, NEW n \in Nat, a .. (a + n - 1) \subseteq S
  PROVE  Cardinality(S \ (a .. (a + n - 1))) = Cardinality(S) - n
<1> DEFINE I == a .. (a + n - 1)
<1>1. Cardinality(I) = n
  BY FS_Interval
<1>2. S \cap I = I
  OBVIOUS
<1>3. Cardinality(S \ I) = Cardinality(S) - Cardinality(S \cap I)
  BY FS_Difference
<1> HIDE DEF I
<1>4. Cardinality(S \ I) = Cardinality(S) - n
  BY <1>1, <1>2, <1>3, Zenon
<1> QED BY <1>4 DEF I

LEMMA AddInterval ==
  ASSUME NEW S, IsFiniteSet(S), NEW a \in Nat, NEW n \in Nat, S \cap (a .. (a + n - 1)) = {}
  PROVE  Cardinality(S \cup (a .. (a + n - 1))) = Cardinality(S) + n
<1> DEFINE I == a .. (a + n - 1)
<1>1. Cardinality(I) = n /\ IsFiniteSet(I)
  BY FS_Interval
<1>2. Cardinality(S) \in Nat /\ Cardinality({}) = 0
  BY FS_CardinalityType, FS_EmptySet
<1>3. Cardinality(S \cup I) = Cardinality(S) + Cardinality(I) - Cardinality(S \cap I)
  BY <1>1, FS_Union
<1>4. S \cap I = {}
  OBVIOUS
<1> HIDE DEF I
<1>5. Cardinality(S \cup I) = Cardinality(S) + n
  <2>1. Cardinality(S \cup I) = Cardinality(S) + n - 0
    BY <1>1, <1>2, <1>3, <1>4, Zenon
  <2> QED BY <1>2, <2>1
<1> QED BY <1>5 DEF I

\* The adjusted size has room for the header and every byte asked for.
LEMMA AdjustedSizeProperties ==
  ASSUME NEW n \in 0 .. SizeMax, AdjustedSize(n) > 0
  PROVE  n > 0 /\ AdjustedSize(n) \in Nat /\ n + StructSize <= AdjustedSize(n)
<1>1. n % Alignment \in 0 .. (Alignment - 1)
  BY HeapAssumption
<1>2. n > 0 /\ AdjustedSize(n) = n + (StructSize + Alignment - (n % Alignment))
  BY HeapAssumption, <1>1 DEF AdjustedSize
<1> QED BY HeapAssumption, <1>1, <1>2

LEMMA HeaderType ==
  ASSUME NEW s \in Nat, NEW a \in BOOLEAN, NEW w \in Nat
  PROVE  [size |-> s, allocated |-> a, wanted |-> w] \in Header
BY DEF Header

\* Clearing the allocated bit in vPortFree: the block's bytes become free ones.
LEMMA ReleasedAwaitsInsert ==
  ASSUME NEW h, HeapSound(h), NEW b \in Allocated(h),
         NEW g, g = Released(h, b)
  PROVE  /\ AwaitsInsert(g, b)
         /\ Allocated(g) = Allocated(h) \ {b}
         /\ \A c \in Allocated(g) : g.hdr[c] = h.hdr[c]
<1>0. h \in HeapRecord(Blocks(h)) /\ BlocksSound(h)
  BY DEF HeapSound, BlocksSound
<1>f. \A c \in Blocks(h) :
        /\ h.hdr[c] \in Header /\ h.hdr[c].size \in Nat
        /\ c \in Nat /\ EndOf(h, c) \in Nat /\ EndOf(h, c) = c + h.hdr[c].size
        /\ h.hdr[c].size > 0 /\ FirstBlock <= c /\ EndOf(h, c) <= EndMarker
  BY <1>0, SoundFacts
<1>d. \A c, d \in Blocks(h) : c < d => EndOf(h, c) <= d
  BY <1>0, SoundFacts
<1>t. /\ Blocks(h) \subseteq HeapBytes /\ HeapBytes \subseteq Nat
      /\ EndMarker \in Nat /\ FirstBlock \in Nat
      /\ h.list \in Seq(Nat) /\ h.free \in Nat /\ h.mallocs \in Nat /\ h.frees \in Nat
      /\ h.minFree \in Int
  BY <1>0, SoundFacts
<1>l. \A m \in 1 .. Len(h.list) : h.list[m] \in FreeBlocks(h) /\ h.list[m] \in Blocks(h)
  BY DEF HeapSound, ListIsFree, FreeBlocks
<1>1. /\ g.hdr = [c \in Blocks(h) |->
                     IF c = b THEN [size |-> h.hdr[b].size, allocated |-> FALSE, wanted |-> 0]
                              ELSE h.hdr[c]]
      /\ Blocks(g) = Blocks(h)
      /\ g.list = h.list /\ g.ready = h.ready /\ g.minFree = h.minFree /\ g.mallocs = h.mallocs
      /\ g.free = h.free + h.hdr[b].size /\ g.frees = h.frees + 1
  <2> DEFINE K == [c \in Blocks(h) |->
                     IF c = b THEN [size |-> h.hdr[b].size, allocated |-> FALSE, wanted |-> 0]
                              ELSE h.hdr[c]]
  <2>1. g = [ready |-> h.ready, hdr |-> K, list |-> h.list, free |-> h.free + h.hdr[b].size,
             minFree |-> h.minFree, mallocs |-> h.mallocs, frees |-> h.frees + 1]
    BY <1>0, ReleasedFields, Zenon
  <2>2. DOMAIN K = Blocks(h)
    OBVIOUS
  <2> HIDE DEF K
  <2>3. /\ g.hdr = K /\ g.list = h.list /\ g.ready = h.ready /\ g.minFree = h.minFree
        /\ g.mallocs = h.mallocs /\ g.free = h.free + h.hdr[b].size /\ g.frees = h.frees + 1
    BY <2>1
  <2> QED BY <2>2, <2>3 DEF Blocks, K
<1>r. g = [ready |-> g.ready, hdr |-> g.hdr, list |-> g.list, free |-> g.free,
           minFree |-> g.minFree, mallocs |-> g.mallocs, frees |-> g.frees]
  <2> DEFINE K == [c \in Blocks(h) |->
                     IF c = b THEN [size |-> h.hdr[b].size, allocated |-> FALSE, wanted |-> 0]
                              ELSE h.hdr[c]]
  <2>1. g = [ready |-> h.ready, hdr |-> K, list |-> h.list, free |-> h.free + h.hdr[b].size,
             minFree |-> h.minFree, mallocs |-> h.mallocs, frees |-> h.frees + 1]
    BY <1>0, ReleasedFields, Zenon
  <2> HIDE DEF K
  <2> QED BY <2>1
<1>2. b \in Blocks(h) /\ h.hdr[b].allocated
  BY DEF Allocated
<1>3. \A c \in Blocks(h) :
        /\ g.hdr[c] \in Header
        /\ g.hdr[c].size = h.hdr[c].size /\ EndOf(g, c) = EndOf(h, c)
        /\ c # b => g.hdr[c] = h.hdr[c]
        /\ c = b => ~g.hdr[c].allocated
  <2> TAKE c \in Blocks(h)
  <2>1. CASE c = b
    <3>3. g.hdr[c] = [size |-> h.hdr[c].size, allocated |-> FALSE, wanted |-> 0]
      BY <1>1, <2>1
    <3>4. EndOf(g, c) = EndOf(h, c)
      BY <3>3 DEF EndOf
    <3>5. g.hdr[c].size = h.hdr[c].size /\ ~g.hdr[c].allocated
      BY <3>3
    <3>6. g.hdr[c] \in Header
      <4>1. h.hdr[c].size \in Nat
        BY <1>f
      <4>2. [size |-> h.hdr[c].size, allocated |-> FALSE, wanted |-> 0] \in Header
        BY <4>1, HeaderType
      <4> QED BY <3>3, <4>2
    <3> QED BY <2>1, <3>4, <3>5, <3>6
  <2>2. CASE c # b
    BY <1>1, <1>f, <2>2 DEF EndOf
  <2> QED BY <2>1, <2>2
<1>4. Allocated(g) = Allocated(h) \ {b} /\ FreeBlocks(g) = FreeBlocks(h) \cup {b} /\ b \notin FreeBlocks(h)
  <2>1. \A c \in Blocks(h) : c # b => g.hdr[c].allocated = h.hdr[c].allocated
    BY <1>3
  <2>2. ~g.hdr[b].allocated
    BY <1>2, <1>3
  <2> QED BY <1>1, <1>2, <2>1, <2>2 DEF Allocated, FreeBlocks
<1>5. \A c \in Allocated(g) : g.hdr[c] = h.hdr[c]
  BY <1>1, <1>3, <1>4 DEF Allocated
<1>6. BlocksDisjoint(g) /\ NoByteLost(g)
  BY <1>0, <1>1, <1>3 DEF BlocksSound, BlocksDisjoint, NoByteLost
<1>7. LiveBlocksFit(g)
  BY <1>0, <1>4, <1>5 DEF BlocksSound, LiveBlocksFit
<1>8. g.free = Cardinality(FreeBytes(g))
  <2> DEFINE I == b .. (b + h.hdr[b].size - 1)
  <2>1. /\ b \in Nat /\ h.hdr[b].size \in Nat /\ EndOf(h, b) = b + h.hdr[b].size
        /\ FirstBlock <= b /\ EndOf(h, b) <= EndMarker
        /\ FirstBlock \in Nat /\ EndMarker \in Nat
    BY <1>2, <1>f, <1>t
  <2>2. FreeBytes(g) = FreeBytes(h) \cup I
    <3>1. \A x \in HeapBytes : x \in Nat
      BY <1>t
    <3>2. \A x \in HeapBytes : (b <= x /\ x < EndOf(h, b)) <=> x \in I
      BY <2>1, <3>1
    <3>3. I \subseteq HeapBytes
      <4> SUFFICES ASSUME NEW x \in I PROVE x \in FirstBlock .. (EndMarker - 1)
        BY DEF HeapBytes
      <4> QED BY <2>1
    <3> HIDE DEF I
    <3>4. \A c \in FreeBlocks(g) : EndOf(g, c) = EndOf(h, c)
      BY <1>1, <1>3 DEF FreeBlocks
    <3>5. \A x \in HeapBytes :
            (\E c \in FreeBlocks(g) : c <= x /\ x < EndOf(g, c)) <=>
              (x \in I \/ \E c \in FreeBlocks(h) : c <= x /\ x < EndOf(h, c))
      BY <1>4, <3>2, <3>4
    <3> QED BY <3>3, <3>5 DEF FreeBytes
  <2>3. FreeBytes(h) \cap I = {}
    <3> SUFFICES ASSUME NEW x \in FreeBytes(h), x \in I PROVE FALSE
      OBVIOUS
    <3>1. PICK c \in FreeBlocks(h) : c <= x /\ x < EndOf(h, c)
      BY DEF FreeBytes
    <3>2. c \in Blocks(h) /\ c # b /\ c \in Nat /\ EndOf(h, c) \in Nat /\ x \in Nat
      <4>1. c \in Blocks(h) /\ c # b
        BY <1>4 DEF FreeBlocks
      <4>2. x \in Nat
        BY <2>1
      <4> QED BY <1>f, <4>1, <4>2
    <3>3. c < b => EndOf(h, c) <= b
      BY <1>2, <1>d, <3>2
    <3>4. b < c => EndOf(h, b) <= c
      BY <1>2, <1>d, <3>2
    <3> QED BY <2>1, <3>1, <3>2, <3>3, <3>4
  <2>4. IsFiniteSet(FreeBytes(h))
    BY <1>t, FiniteHeap
  <2>5. Cardinality(FreeBytes(h) \cup I) = Cardinality(FreeBytes(h)) + h.hdr[b].size
    BY <2>1, <2>3, <2>4, AddInterval
  <2> QED BY <1>0, <1>1, <2>2, <2>5 DEF BlocksSound, FreeCounted
<1>9. FreeCounted(g)
  <2>1. h.minFree <= h.free /\ h.free <= g.free
    BY <1>0, <1>1, <1>2, <1>f, <1>t, SMTT(30) DEF BlocksSound, FreeCounted
  <2> QED BY <1>1, <1>2, <1>f, <1>t, <1>8, <2>1, SMTT(30) DEF FreeCounted
<1>10. CallsCounted(g)
  <2>1. Cardinality(Allocated(g)) = Cardinality(Allocated(h)) - 1
    BY <1>4, <1>t, FiniteHeap, FS_RemoveElement
  <2>2. Cardinality(Allocated(h)) \in Nat /\ h.mallocs = h.frees + Cardinality(Allocated(h))
    BY <1>0, <1>t, FiniteHeap DEF BlocksSound, CallsCounted
  <2>3. g.mallocs = g.frees + Cardinality(Allocated(g))
    <3>1. /\ g.mallocs = h.mallocs /\ g.frees = h.frees + 1
          /\ h.mallocs \in Nat /\ h.frees \in Nat
      BY <1>1, <1>t
    <3> QED BY <2>1, <2>2, <3>1
  <2> QED BY <2>3 DEF CallsCounted
<1>11. g \in HeapRecord(Blocks(g)) /\ Blocks(g) \subseteq HeapBytes
  <2>1. g.hdr \in [Blocks(g) -> Header]
    BY <1>1, <1>3
  <2>2. g.free \in Int /\ g.frees \in Nat
    <3>1. h.free \in Nat /\ h.frees \in Nat /\ h.hdr[b].size \in Nat
      BY <1>2, <1>f, <1>t
    <3>2. g.free = h.free + h.hdr[b].size /\ g.frees = h.frees + 1
      BY <1>1
    <3> QED BY <3>1, <3>2
  <2>3. g = [ready |-> g.ready, hdr |-> g.hdr, list |-> g.list, free |-> g.free,
             minFree |-> g.minFree, mallocs |-> g.mallocs, frees |-> g.frees]
    BY <1>r
  <2>4. g.ready \in BOOLEAN
    BY <1>0, <1>1 DEF HeapRecord
  <2> QED BY <1>1, <1>t, <2>1, <2>2, <2>3, <2>4 DEF HeapRecord
<1>12. /\ {g.list[i] : i \in 1 .. Len(g.list)} = FreeBlocks(g) \ {b}
       /\ b \in FreeBlocks(g)
  <2>1. {h.list[m] : m \in 1 .. Len(h.list)} = FreeBlocks(h)
    BY DEF HeapSound, ListIsFree
  <2>2. FreeBlocks(g) \ {b} = FreeBlocks(h)
    BY <1>4
  <2>3. g.list = h.list /\ b \in FreeBlocks(g)
    BY <1>1, <1>4
  <2> QED BY <2>1, <2>2, <2>3
<1>13. NoFreeNeighbours(g)
  <2> SUFFICES ASSUME NEW m \in 1 .. Len(h.list), NEW o \in 1 .. Len(h.list), m < o
               PROVE  EndOf(g, h.list[m]) < h.list[o]
    BY <1>1 DEF NoFreeNeighbours
  <2>1. EndOf(h, h.list[m]) < h.list[o]
    BY DEF HeapSound, NoFreeNeighbours
  <2> QED BY <1>3, <1>l, <2>1
<1>14. g.ready
  BY <1>0, <1>1 DEF BlocksSound
<1> QED
  BY <1>4, <1>5, <1>6, <1>7, <1>9, <1>10, <1>11, <1>12, <1>13, <1>14 DEF AwaitsInsert, BlocksSound
-----------------------------------------------------------------------------
\* In g the first s bytes of the i-th free block b are the application's.  What
\* is left of b, if anything, is a block of its own (R) that is not listed yet.
IsCarved(g, h, i, b, s, n, R) ==
  /\ i \in 1 .. Len(h.list) /\ b = h.list[i]
  /\ s \in Nat /\ n \in Nat /\ n > 0 /\ n + StructSize <= s /\ s <= h.hdr[b].size
  /\ R = IF s < h.hdr[b].size THEN {b + s} ELSE {}
  /\ g.hdr = [c \in Blocks(h) \cup R |->
                IF c \in R THEN [size |-> h.hdr[b].size - s, allocated |-> FALSE, wanted |-> 0]
                ELSE IF c = b THEN [size |-> s, allocated |-> TRUE, wanted |-> n]
                ELSE h.hdr[c]]
  /\ g = [ready |-> h.ready, hdr |-> g.hdr, list |-> Unlinked(h.list, i),
          free |-> h.free - s,
          minFree |-> IF h.free - s < h.minFree THEN h.free - s ELSE h.minFree,
          mallocs |-> h.mallocs + 1, frees |-> h.frees]

LEMMA CarvedSound ==
  ASSUME NEW h, HeapSound(h), NEW i, NEW b, NEW s, NEW n, NEW R, NEW g,
         IsCarved(g, h, i, b, s, n, R)
  PROVE  /\ BlocksSound(g)
         /\ Allocated(g) = Allocated(h) \cup {b} /\ b \notin Allocated(h)
         /\ \A c \in Allocated(h) : g.hdr[c] = h.hdr[c]
         /\ g.hdr[b].wanted = n /\ g.hdr[b].size = s
         /\ FreeBlocks(g) = (FreeBlocks(h) \ {b}) \cup R
         /\ R \cap FreeBlocks(h) = {}
         /\ {g.list[m] : m \in 1 .. Len(g.list)} = FreeBlocks(h) \ {b}
         /\ NoFreeNeighbours(g)
<1>0. h \in HeapRecord(Blocks(h)) /\ BlocksSound(h)
  BY DEF HeapSound, BlocksSound
<1>p. /\ i \in 1 .. Len(h.list) /\ b = h.list[i]
      /\ s \in Nat /\ n \in Nat /\ n > 0 /\ n + StructSize <= s /\ s <= h.hdr[b].size
  BY DEF IsCarved
<1>r. R = IF s < h.hdr[b].size THEN {b + s} ELSE {}
  BY DEF IsCarved
<1>h. /\ Blocks(g) = Blocks(h) \cup R
      /\ \A r \in R : g.hdr[r] = [size |-> h.hdr[b].size - s, allocated |-> FALSE, wanted |-> 0]
      /\ b \in Blocks(h) /\ b \notin R => g.hdr[b] = [size |-> s, allocated |-> TRUE, wanted |-> n]
      /\ \A c \in Blocks(h) : c # b /\ c \notin R => g.hdr[c] = h.hdr[c]
      /\ g.hdr = [c \in Blocks(g) |-> g.hdr[c]]
  BY DEF IsCarved, Blocks
<1>g. /\ g.ready = h.ready /\ g.list = Unlinked(h.list, i) /\ g.free = h.free - s
      /\ g.minFree = (IF h.free - s < h.minFree THEN h.free - s ELSE h.minFree)
      /\ g.mallocs = h.mallocs + 1 /\ g.frees = h.frees
      /\ g = [ready |-> g.ready, hdr |-> g.hdr, list |-> g.list, free |-> g.free,
              minFree |-> g.minFree, mallocs |-> g.mallocs, frees |-> g.frees]
  <2>1. g = [ready |-> h.ready, hdr |-> g.hdr, list |-> Unlinked(h.list, i),
             free |-> h.free - s,
             minFree |-> IF h.free - s < h.minFree THEN h.free - s ELSE h.minFree,
             mallocs |-> h.mallocs + 1, frees |-> h.frees]
    BY DEF IsCarved
  <2>2. /\ g.ready = h.ready /\ g.list = Unlinked(h.list, i) /\ g.free = h.free - s
        /\ g.minFree = (IF h.free - s < h.minFree THEN h.free - s ELSE h.minFree)
        /\ g.mallocs = h.mallocs + 1 /\ g.frees = h.frees
    BY <2>1
  <2> QED BY <2>1, <2>2
<1>f. \A c \in Blocks(h) :
        /\ h.hdr[c] \in Header /\ h.hdr[c].size \in Nat
        /\ c \in Nat /\ EndOf(h, c) \in Nat /\ EndOf(h, c) = c + h.hdr[c].size
        /\ h.hdr[c].size > 0 /\ FirstBlock <= c /\ EndOf(h, c) <= EndMarker
  BY <1>0, SoundFacts
<1>d. \A c, d \in Blocks(h) : c < d => EndOf(h, c) <= d
  BY <1>0, SoundFacts
<1>t. /\ Blocks(h) \subseteq HeapBytes /\ HeapBytes \subseteq Nat
      /\ EndMarker \in Nat /\ FirstBlock \in Nat
      /\ h.list \in Seq(Nat) /\ h.free \in Nat /\ h.mallocs \in Nat /\ h.frees \in Nat
      /\ h.minFree \in Int /\ h.ready \in BOOLEAN /\ StructSize \in Nat
  BY <1>0, SoundFacts, HeapAssumption DEF HeapRecord
<1>l. \A m \in 1 .. Len(h.list) : h.list[m] \in FreeBlocks(h) /\ h.list[m] \in Blocks(h)
  BY DEF HeapSound, ListIsFree, FreeBlocks
<1>1. /\ b \in Blocks(h) /\ b \in FreeBlocks(h) /\ b \notin Allocated(h) /\ ~h.hdr[b].allocated
      /\ b \in Nat /\ s > 0
  <2>1. b \in FreeBlocks(h) /\ b \in Blocks(h)
    BY <1>p, <1>l
  <2>2. b \in Nat /\ s > 0
    BY <1>p, <1>f, <1>t, <2>1
  <2> QED BY <2>1, <2>2 DEF FreeBlocks, Allocated
<1>b. /\ h.hdr[b].size \in Nat /\ EndOf(h, b) = b + h.hdr[b].size /\ EndOf(h, b) \in Nat
      /\ FirstBlock <= b /\ EndOf(h, b) <= EndMarker /\ FirstBlock \in Nat /\ EndMarker \in Nat
      /\ b \in Nat /\ s \in Nat /\ s > 0 /\ s <= h.hdr[b].size
  BY <1>1, <1>f, <1>p, <1>t
<1>2. ASSUME NEW r \in R
      PROVE  /\ r = b + s /\ r \in Nat /\ s < h.hdr[b].size /\ r \notin Blocks(h) /\ b < r
             /\ r < EndOf(h, b) /\ r \in HeapBytes
             /\ g.hdr[r] = [size |-> h.hdr[b].size - s, allocated |-> FALSE, wanted |-> 0]
  <2>1. r = b + s /\ s < h.hdr[b].size
    BY <1>r
  <2>2. r \in Nat /\ b < r /\ r < EndOf(h, b)
    BY <1>b, <2>1
  <2>3. r \notin Blocks(h)
    BY <1>1, <1>d, <1>f, <2>2
  <2>4. r \in HeapBytes
    <3>1. FirstBlock <= r /\ r <= EndMarker - 1
      BY <1>b, <2>2
    <3> QED BY <1>b, <2>2, <3>1 DEF HeapBytes
  <2> QED BY <1>h, <2>1, <2>2, <2>3, <2>4
<1>3. Blocks(g) = Blocks(h) \cup R
  BY <1>h
<1>4. g.hdr[b] = [size |-> s, allocated |-> TRUE, wanted |-> n] /\ b \notin R
  BY <1>1, <1>2, <1>h
<1>5. \A c \in Blocks(h) : c # b => g.hdr[c] = h.hdr[c] /\ c \notin R
  BY <1>2, <1>h
<1>6. /\ EndOf(g, b) = b + s
      /\ \A c \in Blocks(h) : c # b => EndOf(g, c) = EndOf(h, c)
      /\ \A r \in R : EndOf(g, r) = EndOf(h, b)
  <2>1. EndOf(g, b) = b + s
    BY <1>4 DEF EndOf
  <2>2. \A c \in Blocks(h) : c # b => EndOf(g, c) = EndOf(h, c)
    BY <1>5 DEF EndOf
  <2>3. ASSUME NEW r \in R PROVE EndOf(g, r) = EndOf(h, b)
    <3>1. g.hdr[r].size = h.hdr[b].size - s /\ r = b + s
      <4>1. r = b + s /\ g.hdr[r] = [size |-> h.hdr[b].size - s, allocated |-> FALSE, wanted |-> 0]
        BY <1>2
      <4> QED BY <4>1
    <3>2. EndOf(h, b) = b + h.hdr[b].size /\ h.hdr[b].size \in Nat
      BY <1>1, <1>f
    <3>3. EndOf(g, r) = (b + s) + (h.hdr[b].size - s)
      BY <3>1 DEF EndOf
    <3> QED BY <1>1, <1>p, <3>2, <3>3
  <2> QED BY <2>1, <2>2, <2>3
<1>7. \A c \in Blocks(g) : g.hdr[c] \in Header /\ g.hdr[c].size > 0
  <2>1. g.hdr[b] \in Header /\ g.hdr[b].size > 0
    <3>1. [size |-> s, allocated |-> TRUE, wanted |-> n] \in Header
      BY <1>p, HeaderType
    <3> QED BY <1>1, <1>4, <3>1
  <2>2. \A c \in Blocks(h) : c # b => g.hdr[c] \in Header /\ g.hdr[c].size > 0
    BY <1>5, <1>f
  <2>3. ASSUME NEW r \in R PROVE g.hdr[r] \in Header /\ g.hdr[r].size > 0
    <3>1. h.hdr[b].size - s \in Nat /\ h.hdr[b].size - s > 0
      <4>1. h.hdr[b].size \in Nat /\ s < h.hdr[b].size
        BY <1>1, <1>2, <1>f
      <4>2. s \in Nat
        BY <1>p
      <4> QED BY <4>1, <4>2
    <3>2. [size |-> h.hdr[b].size - s, allocated |-> FALSE, wanted |-> 0] \in Header
      BY <3>1, HeaderType
    <3>3. g.hdr[r] = [size |-> h.hdr[b].size - s, allocated |-> FALSE, wanted |-> 0]
      BY <1>2
    <3>4. g.hdr[r].size = h.hdr[b].size - s
      BY <3>3
    <3> QED BY <3>1, <3>2, <3>3, <3>4
  <2> QED BY <1>3, <2>1, <2>2, <2>3
<1>8. /\ Allocated(g) = Allocated(h) \cup {b}
      /\ FreeBlocks(g) = (FreeBlocks(h) \ {b}) \cup R
      /\ R \cap FreeBlocks(h) = {}
  <2>1. g.hdr[b].allocated /\ \A r \in R : ~g.hdr[r].allocated
    <3>1. g.hdr[b].allocated
      BY <1>4
    <3>2. ASSUME NEW r \in R PROVE ~g.hdr[r].allocated
      <4>1. g.hdr[r] = [size |-> h.hdr[b].size - s, allocated |-> FALSE, wanted |-> 0]
        BY <1>2
      <4> QED BY <4>1
    <3> QED BY <3>1, <3>2
  <2>2. \A c \in Blocks(h) : c # b => g.hdr[c].allocated = h.hdr[c].allocated
    BY <1>5
  <2>3. \A r \in R : r \notin Blocks(h)
    BY <1>2
  <2>4. Allocated(g) = Allocated(h) \cup {b}
    BY <1>1, <1>3, <2>1, <2>2, <2>3 DEF Allocated
  <2>5. FreeBlocks(g) = (FreeBlocks(h) \ {b}) \cup R
    BY <1>1, <1>3, <2>1, <2>2, <2>3 DEF FreeBlocks
  <2> QED BY <2>3, <2>4, <2>5 DEF FreeBlocks
<1>9. \A c \in Allocated(h) : g.hdr[c] = h.hdr[c]
  BY <1>1, <1>5 DEF Allocated
<1>10. BlocksDisjoint(g)
  <2>1. ASSUME NEW c \in Blocks(g) PROVE FirstBlock <= c /\ EndOf(g, c) <= EndMarker
    <3>1. CASE c = b
      <4>1. EndOf(g, c) = b + s
        BY <1>6, <3>1
      <4>2. b + s <= EndMarker
        BY <1>b
      <4> QED BY <1>b, <3>1, <4>1, <4>2
    <3>2. CASE c \in Blocks(h) /\ c # b
      BY <1>6, <1>f, <3>2
    <3>3. CASE c \in R
      <4>1. c \in Nat /\ b < c /\ FirstBlock <= b /\ EndOf(g, c) = EndOf(h, b)
            /\ EndOf(h, b) <= EndMarker
        BY <1>1, <1>2, <1>6, <1>f, <3>3
      <4> QED BY <1>1, <1>t, <4>1
    <3> QED BY <1>3, <3>1, <3>2, <3>3
  <2>2. ASSUME NEW c \in Blocks(g), NEW d \in Blocks(g), c < d PROVE EndOf(g, c) <= d
    <3>1. CASE c = b /\ d \in Blocks(h)
      <4>1. EndOf(h, b) <= d /\ EndOf(g, c) = b + s
        BY <1>1, <1>6, <1>d, <2>2, <3>1
      <4>2. /\ EndOf(h, b) = b + h.hdr[b].size /\ h.hdr[b].size \in Nat /\ d \in Nat
            /\ s <= h.hdr[b].size
        BY <1>1, <1>f, <1>p, <3>1
      <4> QED BY <1>1, <1>p, <4>1, <4>2, SMTT(30)
    <3>2. CASE c \in Blocks(h) /\ c # b /\ d \in Blocks(h)
      BY <1>6, <1>d, <2>2, <3>2
    <3>3. CASE c = b /\ d \in R
      BY <1>1, <1>2, <1>6, <3>3
    <3>4. CASE c \in Blocks(h) /\ c # b /\ d \in R
      <4>1. c \in Nat /\ EndOf(g, c) = EndOf(h, c) /\ EndOf(h, c) \in Nat /\ b < d /\ d < EndOf(h, b)
            /\ d \in Nat /\ EndOf(h, b) \in Nat
        BY <1>1, <1>2, <1>6, <1>f, <3>4
      <4>2. ~(b < c)
        <5>1. b < c => EndOf(h, b) <= c
          BY <1>1, <1>d, <3>4
        <5> QED BY <1>1, <2>2, <4>1, <5>1
      <4>3. c < b
        BY <1>1, <3>4, <4>1, <4>2
      <4>4. EndOf(h, c) <= b
        BY <1>1, <1>d, <3>4, <4>3
      <4> QED BY <1>1, <4>1, <4>4
    <3>5. CASE c \in R /\ d \in Blocks(h)
      <4>1. b < d /\ d \in Nat
        BY <1>1, <1>2, <1>f, <2>2, <3>5
      <4> QED BY <1>1, <1>6, <1>d, <3>5, <4>1
    <3>6. CASE c \in R /\ d \in R
      <4>1. c = b + s /\ d = b + s /\ c \in Nat
        BY <1>2, <3>6
      <4> QED BY <2>2, <4>1
    <3> QED BY <1>3, <3>1, <3>2, <3>3, <3>4, <3>5, <3>6
  <2> QED BY <1>7, <2>1, <2>2 DEF BlocksDisjoint
\* The bytes of b are those of the carved block and of what is left.
<1>11. \A x \in HeapBytes :
          (b <= x /\ x < EndOf(h, b)) <=>
             (b <= x /\ x < b + s) \/ (\E r \in R : r <= x /\ x < EndOf(g, r))
  <2> TAKE x \in HeapBytes
  <2>1. x \in Nat
    BY <1>t
  <2>2. CASE s < h.hdr[b].size
    <3>1. R = {b + s} /\ EndOf(g, b + s) = EndOf(h, b)
      BY <1>6, <1>r, <2>2
    <3>2. (b <= x /\ x < EndOf(h, b)) <=> (b <= x /\ x < b + s) \/ (b + s <= x /\ x < EndOf(h, b))
      BY <1>b, <2>1, <2>2
    <3> QED BY <3>1, <3>2
  <2>3. CASE s = h.hdr[b].size
    <3>1. R = {} /\ b + s = EndOf(h, b)
      BY <1>b, <1>r, <2>3
    <3> QED BY <3>1
  <2> QED BY <1>b, <2>2, <2>3
<1>12. NoByteLost(g)
  <2> SUFFICES ASSUME NEW x \in HeapBytes PROVE \E d \in Blocks(g) : d <= x /\ x < EndOf(g, d)
    BY DEF NoByteLost
  <2>1. PICK c \in Blocks(h) : c <= x /\ x < EndOf(h, c)
    BY <1>0 DEF BlocksSound, NoByteLost
  <2>2. CASE c = b
    BY <1>1, <1>3, <1>6, <1>11, <2>1, <2>2
  <2>3. CASE c # b
    BY <1>3, <1>6, <2>1, <2>3
  <2> QED BY <2>2, <2>3
<1>13. g.free = Cardinality(FreeBytes(g))
  <2> DEFINE I == b .. (b + s - 1)
  <2>1. \A x \in HeapBytes : (b <= x /\ x < b + s) <=> x \in I
    <3> TAKE x \in HeapBytes
    <3>1. x \in Nat /\ b \in Nat /\ s \in Nat
      BY <1>1, <1>p, <1>t
    <3> QED BY <3>1
  <2>2. I \subseteq FreeBytes(h)
    <3> SUFFICES ASSUME NEW x \in I PROVE x \in FreeBytes(h)
      OBVIOUS
    <3>1. x \in Nat /\ b <= x /\ x < b + s
      BY <1>b
    <3>2. FirstBlock <= x /\ x <= EndMarker - 1
      BY <1>b, <3>1
    <3>3. x < EndOf(h, b)
      BY <1>b, <3>1
    <3>4. x \in HeapBytes
      BY <1>b, <3>1, <3>2 DEF HeapBytes
    <3> QED BY <1>1, <3>1, <3>3, <3>4 DEF FreeBytes
  <2>3. \A x \in HeapBytes : \A c \in FreeBlocks(h) :
           c # b /\ c <= x /\ x < EndOf(h, c) => ~(b <= x /\ x < EndOf(h, b))
    <3> TAKE x \in HeapBytes
    <3> TAKE c \in FreeBlocks(h)
    <3>1. c \in Blocks(h) /\ c \in Nat /\ EndOf(h, c) \in Nat /\ EndOf(h, b) \in Nat /\ x \in Nat
      BY <1>1, <1>f, <1>t DEF FreeBlocks
    <3>2. c < b => EndOf(h, c) <= b
      BY <1>1, <1>d, <3>1
    <3>3. b < c => EndOf(h, b) <= c
      BY <1>1, <1>d, <3>1
    <3> QED BY <1>1, <3>1, <3>2, <3>3
  <2>4. \A x \in HeapBytes : \A r \in R : r <= x /\ x < EndOf(g, r) => ~(b <= x /\ x < b + s)
    <3> TAKE x \in HeapBytes
    <3> TAKE r \in R
    <3>1. r = b + s /\ r \in Nat /\ x \in Nat
      BY <1>2, <1>t
    <3> QED BY <3>1
  <2>5. \A c \in FreeBlocks(h) : c # b => EndOf(g, c) = EndOf(h, c)
    BY <1>6 DEF FreeBlocks
  <2>6. \A x \in HeapBytes :
           (\E c \in FreeBlocks(g) : c <= x /\ x < EndOf(g, c)) <=>
              (\E c \in FreeBlocks(h) : c <= x /\ x < EndOf(h, c)) /\ ~(b <= x /\ x < b + s)
    <3> TAKE x \in HeapBytes
    <3>1. ASSUME NEW c \in FreeBlocks(g), c <= x /\ x < EndOf(g, c)
          PROVE  (\E d \in FreeBlocks(h) : d <= x /\ x < EndOf(h, d)) /\ ~(b <= x /\ x < b + s)
      <4>1. CASE c \in R
        BY <1>1, <1>11, <2>4, <3>1, <4>1
      <4>2. CASE c \in FreeBlocks(h) /\ c # b
        BY <1>11, <2>3, <2>5, <3>1, <4>2
      <4> QED BY <1>8, <4>1, <4>2
    <3>2. ASSUME NEW c \in FreeBlocks(h), c <= x /\ x < EndOf(h, c), ~(b <= x /\ x < b + s)
          PROVE  \E d \in FreeBlocks(g) : d <= x /\ x < EndOf(g, d)
      <4>1. CASE c = b
        BY <1>8, <1>11, <3>2, <4>1
      <4>2. CASE c # b
        BY <1>8, <2>5, <3>2, <4>2
      <4> QED BY <4>1, <4>2
    <3> QED BY <3>1, <3>2
  <2> HIDE DEF I
  <2>7. FreeBytes(g) = FreeBytes(h) \ I
    BY <2>1, <2>6 DEF FreeBytes
  <2>8. IsFiniteSet(FreeBytes(h)) /\ h.free = Cardinality(FreeBytes(h))
    BY <1>0, <1>t, FiniteHeap DEF BlocksSound, FreeCounted
  <2>9. Cardinality(FreeBytes(h) \ I) = Cardinality(FreeBytes(h)) - s
    <3>1. b \in Nat /\ s \in Nat
      BY <1>1, <1>p
    <3> QED BY <2>2, <2>8, <3>1, DropInterval DEF I
  <2> QED BY <1>g, <2>7, <2>8, <2>9
<1>14. FreeCounted(g)
  <2>1. g.free \in Int /\ g.minFree <= g.free
    <3>1. h.free - s \in Int
      BY <1>p, <1>t
    <3> QED BY <1>g, <1>t, <3>1
  <2> QED BY <1>13, <2>1 DEF FreeCounted
<1>15. CallsCounted(g)
  <2>1. Cardinality(Allocated(g)) = Cardinality(Allocated(h)) + 1
    <3>1. IsFiniteSet(Allocated(h))
      BY <1>t, FiniteHeap
    <3> QED BY <1>1, <1>8, <3>1, FS_AddElement
  <2>2. Cardinality(Allocated(h)) \in Nat /\ h.mallocs = h.frees + Cardinality(Allocated(h))
    BY <1>0, <1>t, FiniteHeap DEF BlocksSound, CallsCounted
  <2>3. g.mallocs = h.mallocs + 1 /\ g.frees = h.frees
    BY <1>g
  <2>4. h.mallocs \in Nat /\ h.frees \in Nat
    BY <1>t
  <2>5. g.mallocs = g.frees + Cardinality(Allocated(g))
    BY <2>1, <2>2, <2>3, <2>4
  <2> QED BY <2>5 DEF CallsCounted
<1>16. LiveBlocksFit(g)
  <2>1. g.hdr[b].wanted > 0 /\ g.hdr[b].wanted + StructSize <= g.hdr[b].size
    BY <1>p, <1>4
  <2>2. \A c \in Allocated(h) : h.hdr[c].wanted > 0 /\ h.hdr[c].wanted + StructSize <= h.hdr[c].size
    BY <1>0 DEF BlocksSound, LiveBlocksFit
  <2> QED BY <1>8, <1>9, <2>1, <2>2 DEF LiveBlocksFit
<1>17. IsUnlinked(g.list, h.list, i)
  BY <1>g, <1>p, <1>t, UnlinkedProperties
<1>18. g \in HeapRecord(Blocks(g)) /\ Blocks(g) \subseteq HeapBytes
  <2>1. g.hdr \in [Blocks(g) -> Header]
    BY <1>7, <1>h
  <2>2. g.list \in Seq(Nat)
    BY <1>17 DEF IsUnlinked
  <2>3. /\ g.free \in Int /\ g.minFree \in Int /\ g.mallocs \in Nat /\ g.frees \in Nat
        /\ g.ready \in BOOLEAN
    <3>1. h.free - s \in Int /\ h.mallocs + 1 \in Nat
      BY <1>p, <1>t, SMTT(30)
    <3>2. g.minFree = h.free - s \/ g.minFree = h.minFree
      BY <1>g
    <3> QED BY <1>g, <1>t, <3>1, <3>2
  <2>4. g = [ready |-> g.ready, hdr |-> g.hdr, list |-> g.list, free |-> g.free,
             minFree |-> g.minFree, mallocs |-> g.mallocs, frees |-> g.frees]
    BY <1>g
  <2>5. Blocks(g) \subseteq HeapBytes
    BY <1>2, <1>3, <1>t
  <2> QED BY <2>1, <2>2, <2>3, <2>4, <2>5 DEF HeapRecord
<1>n. \A m, o \in 1 .. Len(h.list) : m < o => EndOf(h, h.list[m]) < h.list[o]
  BY DEF HeapSound, NoFreeNeighbours
<1>s. \A m \in 1 .. Len(h.list) : h.list[m] = b => m = i
  <2> TAKE m \in 1 .. Len(h.list)
  <2>1. \A c \in Blocks(h) : c < EndOf(h, c) /\ c \in Nat /\ EndOf(h, c) \in Nat
    BY <1>f
  <2>2. ~(h.list[m] = b /\ m < i) /\ ~(h.list[m] = b /\ i < m)
    BY <1>1, <1>n, <1>p, <2>1
  <2>3. m \in Int /\ i \in Int
    BY <1>p
  <2> QED BY <2>2, <2>3
\* Where an element of the shorter list comes from.
<1>o. \A m \in 1 .. Len(g.list) :
        \/ m < i /\ m \in 1 .. Len(h.list) /\ g.list[m] = h.list[m]
        \/ m >= i /\ m + 1 \in 1 .. Len(h.list) /\ g.list[m] = h.list[m + 1]
  <2> TAKE m \in 1 .. Len(g.list)
  <2>1. /\ Len(h.list) \in Nat /\ Len(g.list) = Len(h.list) - 1 /\ i \in Int
    BY <1>p, <1>t, <1>17 DEF IsUnlinked
  <2>2. CASE m < i
    <3>1. m \in 1 .. (i - 1) /\ m \in 1 .. Len(h.list)
      BY <2>1, <2>2
    <3> QED BY <1>17, <2>2, <3>1 DEF IsUnlinked
  <2>3. CASE m >= i
    <3>1. m \in i .. (Len(h.list) - 1) /\ m + 1 \in 1 .. Len(h.list)
      BY <2>1, <2>3
    <3> QED BY <1>17, <2>3, <3>1 DEF IsUnlinked
  <2> QED BY <2>1, <2>2, <2>3
<1>19. {g.list[m] : m \in 1 .. Len(g.list)} = FreeBlocks(h) \ {b}
  <2>0. Len(h.list) \in Nat /\ Len(g.list) = Len(h.list) - 1 /\ i \in Int
    BY <1>p, <1>t, <1>17 DEF IsUnlinked
  <2>1. \A m \in 1 .. Len(g.list) : g.list[m] \in FreeBlocks(h) \ {b}
    <3> TAKE m \in 1 .. Len(g.list)
    <3>1. CASE m < i /\ m \in 1 .. Len(h.list) /\ g.list[m] = h.list[m]
      BY <1>l, <1>s, <2>0, <3>1
    <3>2. CASE m >= i /\ m + 1 \in 1 .. Len(h.list) /\ g.list[m] = h.list[m + 1]
      BY <1>l, <1>s, <2>0, <3>2
    <3> QED BY <1>o, <3>1, <3>2
  <2>2. ASSUME NEW c \in FreeBlocks(h), c # b PROVE \E m \in 1 .. Len(g.list) : g.list[m] = c
    <3>1. PICK q \in 1 .. Len(h.list) : c = h.list[q]
      BY DEF HeapSound, ListIsFree
    <3>2. CASE q < i
      <4>1. q \in 1 .. (i - 1) /\ q \in 1 .. Len(g.list)
        BY <1>p, <2>0, <3>2
      <4> QED BY <1>17, <3>1, <4>1 DEF IsUnlinked
    <3>3. CASE q > i
      <4>1. q - 1 \in i .. (Len(h.list) - 1) /\ q - 1 \in 1 .. Len(g.list) /\ (q - 1) + 1 = q
        BY <1>p, <2>0, <3>3
      <4>2. g.list[q - 1] = h.list[(q - 1) + 1]
        BY <1>17, <4>1 DEF IsUnlinked
      <4> QED BY <3>1, <4>1, <4>2
    <3>4. q # i
      BY <1>p, <2>2, <3>1
    <3> QED BY <2>0, <3>2, <3>3, <3>4
  <2> QED BY <2>1, <2>2
<1>20. NoFreeNeighbours(g)
  <2> SUFFICES ASSUME NEW m \in 1 .. Len(g.list), NEW o \in 1 .. Len(g.list), m < o
               PROVE  EndOf(g, g.list[m]) < g.list[o]
    BY DEF NoFreeNeighbours
  <2>1. PICK p \in 1 .. Len(h.list), q \in 1 .. Len(h.list) :
          p < q /\ g.list[m] = h.list[p] /\ g.list[o] = h.list[q]
    <3>1. i \in Int /\ m \in Int /\ o \in Int
      BY <1>p
    <3>2. m < i /\ o >= i => m < o + 1
      BY <3>1
    <3> QED BY <1>o, <3>1, <3>2
  <2>2. g.list[m] \in Blocks(h) /\ g.list[m] # b
    BY <1>19 DEF FreeBlocks
  <2>3. EndOf(g, g.list[m]) = EndOf(h, h.list[p])
    BY <1>6, <2>1, <2>2
  <2> QED BY <1>n, <2>1, <2>3
<1>21. g.ready
  BY <1>0, <1>g DEF BlocksSound
<1>22. g.hdr[b].wanted = n /\ g.hdr[b].size = s
  BY <1>4
<1> QED
  BY <1>1, <1>4, <1>8, <1>9, <1>10, <1>12, <1>14, <1>15, <1>16, <1>18, <1>19, <1>20, <1>21,
     <1>22
  DEF BlocksSound
\* Both ways pvPortMalloc serves a request carve it out of a free block.
LEMMA SplitIsCarved ==
  ASSUME NEW h, h \in HeapRecord(Blocks(h)), NEW i \in 1 .. Len(h.list), NEW b, b = h.list[i],
         NEW s \in Nat, NEW n \in Nat, n > 0, n + StructSize <= s, s <= h.hdr[b].size,
         s < h.hdr[b].size, b + s \notin Blocks(h)
  PROVE  IsCarved(Split(h, i, b, s, n), h, i, b, s, n, {b + s})
<1> DEFINE t == Split(h, i, b, s, n)
           r == b + s
           K == [c \in Blocks(h) |->
                   IF c = b THEN [size |-> s, allocated |-> TRUE, wanted |-> n] ELSE h.hdr[c]]
           T == Taken(h, i, b, s, n).hdr
           H == [c \in Blocks(h) \cup {r} |->
                   IF c = r THEN [size |-> h.hdr[b].size - s, allocated |-> FALSE, wanted |-> 0]
                   ELSE T[c]]
           L == Unlinked(h.list, i)
           F == h.free - s
           M == IF h.free - s < h.minFree THEN h.free - s ELSE h.minFree
<1>2. Taken(h, i, b, s, n) = [ready |-> h.ready, hdr |-> K, list |-> L, free |-> F,
                              minFree |-> M, mallocs |-> h.mallocs + 1, frees |-> h.frees]
  <2> DEFINE C == h.mallocs + 1
  <2>1. Taken(h, i, b, s, n) = [h EXCEPT !.hdr = K, !.list = L, !.free = F, !.minFree = M,
                                         !.mallocs = C]
    BY DEF Taken
  <2>2. h = [ready |-> h.ready, hdr |-> h.hdr, list |-> h.list, free |-> h.free,
             minFree |-> h.minFree, mallocs |-> h.mallocs, frees |-> h.frees]
    BY DEF HeapRecord
  <2> HIDE DEF K, L, F, M, C
  <2>3. Taken(h, i, b, s, n) = [ready |-> h.ready, hdr |-> K, list |-> L, free |-> F,
                                minFree |-> M, mallocs |-> C, frees |-> h.frees]
    BY <2>1, <2>2
  <2> QED BY <2>3 DEF C
<1>1. t = [ready |-> h.ready, hdr |-> H, list |-> L, free |-> F, minFree |-> M,
           mallocs |-> h.mallocs + 1, frees |-> h.frees]
  <2>1. t = [Taken(h, i, b, s, n) EXCEPT !.hdr = H]
    BY DEF Split
  <2> HIDE DEF t, H, K, L, F, M
  <2> QED BY <1>2, <2>1, HdrReplaced
<1> HIDE DEF t, K, H, L, F, M
<1>3. T = K
  BY <1>2
<1>4. t.hdr = H
  BY <1>1
<1>5. t = [ready |-> h.ready, hdr |-> t.hdr, list |-> L, free |-> F, minFree |-> M,
           mallocs |-> h.mallocs + 1, frees |-> h.frees]
  BY <1>1, <1>4
<1> HIDE DEF T
<1>6. t.hdr = [c \in Blocks(h) \cup {r} |->
                 IF c \in {r} THEN [size |-> h.hdr[b].size - s, allocated |-> FALSE, wanted |-> 0]
                 ELSE IF c = b THEN [size |-> s, allocated |-> TRUE, wanted |-> n]
                 ELSE h.hdr[c]]
  BY <1>3, <1>4 DEF H, K
<1>7. {r} = IF s < h.hdr[b].size THEN {b + s} ELSE {}
  OBVIOUS
<1> QED BY <1>5, <1>6, <1>7 DEF IsCarved, t, L, F, M

LEMMA TakenIsCarved ==
  ASSUME NEW h, h \in HeapRecord(Blocks(h)), NEW i \in 1 .. Len(h.list), NEW b, b = h.list[i],
         NEW s \in Nat, NEW n \in Nat, n > 0, n + StructSize <= s, s = h.hdr[b].size
  PROVE  IsCarved(Taken(h, i, b, s, n), h, i, b, s, n, {})
<1> DEFINE t == Taken(h, i, b, s, n)
           K == [c \in Blocks(h) |->
                   IF c = b THEN [size |-> s, allocated |-> TRUE, wanted |-> n] ELSE h.hdr[c]]
           L == Unlinked(h.list, i)
           F == h.free - s
           M == IF h.free - s < h.minFree THEN h.free - s ELSE h.minFree
<1>1. t = [ready |-> h.ready, hdr |-> K, list |-> L, free |-> F,
                              minFree |-> M, mallocs |-> h.mallocs + 1, frees |-> h.frees]
  <2> DEFINE C == h.mallocs + 1
  <2>1. Taken(h, i, b, s, n) = [h EXCEPT !.hdr = K, !.list = L, !.free = F, !.minFree = M,
                                         !.mallocs = C]
    BY DEF Taken
  <2>2. h = [ready |-> h.ready, hdr |-> h.hdr, list |-> h.list, free |-> h.free,
             minFree |-> h.minFree, mallocs |-> h.mallocs, frees |-> h.frees]
    BY DEF HeapRecord
  <2> HIDE DEF K, L, F, M, C
  <2>3. Taken(h, i, b, s, n) = [ready |-> h.ready, hdr |-> K, list |-> L, free |-> F,
                                minFree |-> M, mallocs |-> C, frees |-> h.frees]
    BY <2>1, <2>2
  <2> QED BY <2>3 DEF C
<1> HIDE DEF t, K, L, F, M
<1>2. t.hdr = K
  BY <1>1
<1>3. t = [ready |-> h.ready, hdr |-> t.hdr, list |-> L, free |-> F,
                              minFree |-> M, mallocs |-> h.mallocs + 1, frees |-> h.frees]
  BY <1>1, <1>2
<1>4. t.hdr = [c \in Blocks(h) \cup {} |->
                 IF c \in {} THEN [size |-> h.hdr[b].size - s, allocated |-> FALSE, wanted |-> 0]
                 ELSE IF c = b THEN [size |-> s, allocated |-> TRUE, wanted |-> n]
                 ELSE h.hdr[c]]
  BY <1>2 DEF K
<1>5. {} = IF s < h.hdr[b].size THEN {b + s} ELSE {}
  OBVIOUS
<1>6. s <= h.hdr[b].size
  OBVIOUS
<1> QED BY <1>3, <1>4, <1>5, <1>6 DEF IsCarved, t, L, F, M

LEMMA CarvedCounters ==
  ASSUME NEW h, h \in HeapRecord(Blocks(h)), NEW i, NEW b, NEW s, NEW n, NEW R, NEW g,
         IsCarved(g, h, i, b, s, n, R)
  PROVE  /\ g.frees = h.frees /\ g.mallocs = h.mallocs + 1
         /\ g.minFree = h.minFree \/ (g.minFree < h.minFree /\ g.minFree = g.free)
<1> DEFINE L == Unlinked(h.list, i)
           F == h.free - s
           M == IF F < h.minFree THEN F ELSE h.minFree
           K == g.hdr
<1>1. g = [ready |-> h.ready, hdr |-> K, list |-> L, free |-> F, minFree |-> M,
           mallocs |-> h.mallocs + 1, frees |-> h.frees]
  BY Zenon DEF IsCarved
<1>2. s \in Nat
  BY DEF IsCarved
<1>3. h.minFree \in Int /\ h.free \in Int
  BY DEF HeapRecord
<1>4. F \in Int
  BY <1>2, <1>3
<1> HIDE DEF L, F, K, M
<1>5. g.frees = h.frees /\ g.mallocs = h.mallocs + 1 /\ g.free = F /\ g.minFree = M
  BY <1>1
<1>6. M = h.minFree \/ (M < h.minFree /\ M = F)
  <2>1. CASE F < h.minFree
    BY <2>1 DEF M
  <2>2. CASE ~(F < h.minFree)
    BY <2>2 DEF M
  <2> QED BY <2>1, <2>2
<1> QED BY <1>5, <1>6
-----------------------------------------------------------------------------
\* pvPortMalloc on a sound heap: the heap stays sound, the block it returns was
\* free and has room for the request, and no block in use is touched.
LEMMA MallocsSound ==
  ASSUME NEW h, HeapSound(h), NEW n \in 0 .. SizeMax, NEW m \in Mallocs(h, n)
  PROVE  /\ HeapSound(m.heap)
         /\ m.block \notin Allocated(h)
         /\ Allocated(m.heap) = Allocated(h) \cup {m.block}
         /\ \A c \in Allocated(h) : m.heap.hdr[c] = h.hdr[c]
         /\ n > 0
         /\ m.heap.hdr[m.block].wanted = n
         /\ n + StructSize <= m.heap.hdr[m.block].size
         /\ m.heap.frees = h.frees /\ m.heap.mallocs = h.mallocs + 1
         /\ m.heap.minFree = h.minFree \/ (m.heap.minFree < h.minFree /\ m.heap.minFree = m.heap.free)
<1> DEFINE A == AdjustedSize(n)
<1>1. PICK i \in FirstFit(h, A) : \E g \in Carved(h, i, h.list[i], A, n) :
                                     m = [block |-> h.list[i], heap |-> g]
  BY DEF Mallocs
<1> DEFINE b == h.list[i]
<1>2. PICK g \in Carved(h, i, b, A, n) : m = [block |-> b, heap |-> g]
  BY <1>1
<1>3. A > 0
  BY <1>1 DEF Mallocs, Satisfiable
<1>4. n > 0 /\ A \in Nat /\ n + StructSize <= A /\ n \in Nat
  BY <1>3, AdjustedSizeProperties, HeapAssumption
<1>5. i \in 1 .. Len(h.list) /\ h.hdr[b].size >= A
  BY DEF FirstFit
<1> HIDE DEF A, b
<1>6. h \in HeapRecord(Blocks(h)) /\ b \in FreeBlocks(h) /\ b \in Blocks(h) /\ h.hdr[b].size \in Nat
      /\ b \in Nat /\ EndOf(h, b) = b + h.hdr[b].size
  <2>1. BlocksSound(h) /\ b \in FreeBlocks(h)
    BY <1>5 DEF HeapSound, ListIsFree, b
  <2> QED BY <2>1, SoundFacts DEF BlocksSound, FreeBlocks
<1>7. h.minFree \in Int /\ h.free \in Int /\ h.mallocs \in Nat
  BY <1>6 DEF HeapRecord
<1>a. CASE h.hdr[b].size - A > 2 * StructSize
  <2> DEFINE t == Split(h, i, b, A, n)
             r == b + A
  <2>1. g \in Inserted(t, r)
    BY <1>a, <1>2 DEF Carved
  <2>2. A < h.hdr[b].size /\ r \notin Blocks(h)
    <3>1. StructSize \in Nat
      BY HeapAssumption
    <3>2. A < h.hdr[b].size
      BY <1>a, <1>4, <1>6, <3>1
    <3>3. \A c \in Blocks(h) : b < c => EndOf(h, b) <= c
      BY <1>6, SoundFacts DEF HeapSound
    <3> QED BY <1>3, <1>4, <1>6, <3>2, <3>3
  <2>6. IsCarved(t, h, i, b, A, n, {r})
    <3>1. i \in 1 .. Len(h.list) /\ b = h.list[i]
      BY <1>5 DEF b
    <3>2. A \in Nat /\ n \in Nat /\ n > 0 /\ n + StructSize <= A /\ A <= h.hdr[b].size
      BY <1>4, <1>5, <1>6
    <3> QED BY <1>6, <2>2, <3>1, <3>2, SplitIsCarved
  <2> HIDE DEF t, r
  <2>7. /\ BlocksSound(t)
        /\ Allocated(t) = Allocated(h) \cup {b} /\ b \notin Allocated(h)
        /\ \A c \in Allocated(h) : t.hdr[c] = h.hdr[c]
        /\ t.hdr[b].wanted = n /\ t.hdr[b].size = A
        /\ FreeBlocks(t) = (FreeBlocks(h) \ {b}) \cup {r}
        /\ {r} \cap FreeBlocks(h) = {}
        /\ {t.list[q] : q \in 1 .. Len(t.list)} = FreeBlocks(h) \ {b}
        /\ NoFreeNeighbours(t)
    BY <2>6, CarvedSound
  <2>8. AwaitsInsert(t, r)
    <3>1. r \in FreeBlocks(t) /\ FreeBlocks(t) \ {r} = FreeBlocks(h) \ {b}
      BY <2>7
    <3> QED BY <2>7, <3>1 DEF AwaitsInsert
  <2>9. /\ HeapSound(g) /\ Allocated(g) = Allocated(t)
        /\ \A c \in Allocated(t) : g.hdr[c] = t.hdr[c]
        /\ g.free = t.free /\ g.minFree = t.minFree /\ g.mallocs = t.mallocs /\ g.frees = t.frees
    BY <2>1, <2>8, InsertedSound
  <2>10. /\ t.frees = h.frees /\ t.mallocs = h.mallocs + 1
         /\ t.minFree = h.minFree \/ (t.minFree < h.minFree /\ t.minFree = t.free)
    BY <1>6, <2>6, CarvedCounters
  <2>11. m.heap = g /\ m.block = b
    BY <1>2
  <2>12. g.hdr[b] = t.hdr[b] /\ \A c \in Allocated(h) : g.hdr[c] = h.hdr[c]
    BY <2>7, <2>9
  <2> QED BY <1>4, <2>7, <2>9, <2>10, <2>11, <2>12
<1>b. CASE ~(h.hdr[b].size - A > 2 * StructSize)
  <2> DEFINE s == h.hdr[b].size
  <2>1. g = Taken(h, i, b, s, n)
    BY <1>b, <1>2 DEF Carved
  <2> HIDE DEF s
  <2>3. IsCarved(g, h, i, b, s, n, {})
    <3>1. i \in 1 .. Len(h.list) /\ b = h.list[i]
      BY <1>5 DEF b
    <3>2. s \in Nat /\ n \in Nat /\ n > 0 /\ n + StructSize <= s /\ s = h.hdr[b].size
      BY <1>4, <1>5, <1>6, HeapAssumption DEF s
    <3> QED BY <1>6, <2>1, <3>1, <3>2, TakenIsCarved
  <2>4. /\ BlocksSound(g)
        /\ Allocated(g) = Allocated(h) \cup {b} /\ b \notin Allocated(h)
        /\ \A c \in Allocated(h) : g.hdr[c] = h.hdr[c]
        /\ g.hdr[b].wanted = n /\ g.hdr[b].size = s
        /\ FreeBlocks(g) = (FreeBlocks(h) \ {b}) \cup {}
        /\ {} \cap FreeBlocks(h) = {}
        /\ {g.list[q] : q \in 1 .. Len(g.list)} = FreeBlocks(h) \ {b}
        /\ NoFreeNeighbours(g)
    BY <2>3, CarvedSound
  <2>5. HeapSound(g)
    BY <2>4 DEF HeapSound, ListIsFree
  <2>6. /\ g.frees = h.frees /\ g.mallocs = h.mallocs + 1
        /\ g.minFree = h.minFree \/ (g.minFree < h.minFree /\ g.minFree = g.free)
    BY <1>6, <2>3, CarvedCounters
  <2>7. n + StructSize <= s
    BY <1>4, <1>5, <1>6, HeapAssumption DEF s
  <2>8. m.heap = g /\ m.block = b
    BY <1>2
  <2> QED BY <1>4, <2>4, <2>5, <2>6, <2>7, <2>8
<1> QED BY <1>a, <1>b

\* vPortFree of a block in use: the heap stays sound and only that block goes.
LEMMA FreesSound ==
  ASSUME NEW h, HeapSound(h), NEW b \in Allocated(h), NEW g \in Frees(h, b)
  PROVE  /\ HeapSound(g)
         /\ Allocated(g) = Allocated(h) \ {b}
         /\ \A c \in Allocated(g) : g.hdr[c] = h.hdr[c]
         /\ g.minFree = h.minFree /\ g.mallocs = h.mallocs
<1> DEFINE t == Released(h, b)
<1>1. g \in Inserted(t, b)
  BY DEF Frees
<1>2. t.minFree = h.minFree /\ t.mallocs = h.mallocs
  BY DEF HeapSound, BlocksSound, HeapRecord, Released
<1> HIDE DEF t
<1>3. /\ AwaitsInsert(t, b)
      /\ Allocated(t) = Allocated(h) \ {b}
      /\ \A c \in Allocated(t) : t.hdr[c] = h.hdr[c]
  BY ReleasedAwaitsInsert DEF t
<1> QED BY <1>1, <1>2, <1>3, InsertedSound

LEMMA HeapInitSound == HeapSound(HeapInit) /\ Allocated(HeapInit) = {}
<1> DEFINE h == HeapInit
           f == [size |-> EndMarker - FirstBlock, allocated |-> FALSE, wanted |-> 0]
<1>1. h = [ready |-> TRUE, hdr |-> [b \in {FirstBlock} |-> f], list |-> <<FirstBlock>>,
           free |-> EndMarker - FirstBlock, minFree |-> EndMarker - FirstBlock,
           mallocs |-> 0, frees |-> 0]
  BY HeapInitFields
<1>2. /\ FirstBlock \in Nat /\ EndMarker \in Nat /\ EndMarker - FirstBlock \in Nat
      /\ EndMarker - FirstBlock > 0 /\ FirstBlock + (EndMarker - FirstBlock) = EndMarker
      /\ FirstBlock \in HeapBytes
  BY RoomAssumption DEF HeapBytes
<1>3. f \in Header
  BY <1>2, HeaderType
<1> HIDE DEF h
<1>4. Blocks(h) = {FirstBlock} /\ h.hdr[FirstBlock] = f /\ EndOf(h, FirstBlock) = EndMarker
  <2>1. Blocks(h) = {FirstBlock} /\ h.hdr[FirstBlock] = f
    BY <1>1 DEF Blocks
  <2>2. h.hdr[FirstBlock].size = EndMarker - FirstBlock
    BY <2>1
  <2> QED BY <1>2, <2>1, <2>2 DEF EndOf
<1>5. Allocated(h) = {} /\ FreeBlocks(h) = {FirstBlock}
  <2>1. ~h.hdr[FirstBlock].allocated
    BY <1>4
  <2> QED BY <1>4, <2>1 DEF Allocated, FreeBlocks
<1>6. FreeBytes(h) = FirstBlock .. (EndMarker - 1)
  BY <1>2, <1>4, <1>5 DEF FreeBytes, HeapBytes
<1>7. FreeCounted(h)
  <2>1. Cardinality(FirstBlock .. (EndMarker - 1)) = EndMarker - FirstBlock
    BY <1>2, FS_Interval
  <2>2. h.free = EndMarker - FirstBlock /\ h.minFree = EndMarker - FirstBlock
    BY <1>1
  <2> QED BY <1>2, <1>6, <2>1, <2>2 DEF FreeCounted
<1>8. CallsCounted(h)
  <2>1. h.mallocs = 0 /\ h.frees = 0
    BY <1>1
  <2> QED BY <1>5, <2>1, FS_EmptySet DEF CallsCounted
<1>9. h \in HeapRecord(Blocks(h))
  <2>1. [b \in {FirstBlock} |-> f] \in [Blocks(h) -> Header]
    BY <1>3, <1>4
  <2>2. <<FirstBlock>> \in Seq(Nat)
    BY <1>2
  <2>3. /\ h.ready = TRUE /\ h.hdr = [b \in {FirstBlock} |-> f] /\ h.list = <<FirstBlock>>
        /\ h.free = EndMarker - FirstBlock /\ h.minFree = EndMarker - FirstBlock
        /\ h.mallocs = 0 /\ h.frees = 0
        /\ h = [ready |-> h.ready, hdr |-> h.hdr, list |-> h.list, free |-> h.free,
                minFree |-> h.minFree, mallocs |-> h.mallocs, frees |-> h.frees]
    BY <1>1
  <2>4. /\ h.ready \in BOOLEAN /\ h.hdr \in [Blocks(h) -> Header] /\ h.list \in Seq(Nat)
        /\ h.free \in Int /\ h.minFree \in Int /\ h.mallocs \in Nat /\ h.frees \in Nat
    <3>1. h.hdr \in [Blocks(h) -> Header]
      BY <2>1, <2>3
    <3>2. h.list \in Seq(Nat)
      BY <2>2, <2>3
    <3> HIDE DEF f
    <3>3. h.ready \in BOOLEAN /\ h.mallocs \in Nat /\ h.frees \in Nat
      <4>1. h.ready = TRUE /\ h.mallocs = 0 /\ h.frees = 0
        BY <2>3
      <4>2. TRUE \in BOOLEAN /\ 0 \in Nat
        OBVIOUS
      <4> HIDE DEF h
      <4> QED BY <4>1, <4>2
    <3>4. h.free \in Int /\ h.minFree \in Int
      BY <1>2, <2>3
    <3> QED BY <3>1, <3>2, <3>3, <3>4
  <2> HIDE DEF f
  <2> QED BY <2>3, <2>4 DEF HeapRecord
<1>10. BlocksDisjoint(h) /\ NoByteLost(h)
  <2>1. h.hdr[FirstBlock].size > 0
    BY <1>2, <1>4
  <2>2. BlocksDisjoint(h)
    BY <1>2, <1>4, <2>1 DEF BlocksDisjoint
  <2>3. NoByteLost(h)
    BY <1>2, <1>4 DEF NoByteLost, HeapBytes
  <2> QED BY <2>2, <2>3
<1>11. ListIsFree(h) /\ NoFreeNeighbours(h)
  <2>1. h.list = <<FirstBlock>> /\ Len(<<FirstBlock>>) = 1 /\ <<FirstBlock>>[1] = FirstBlock
    BY <1>1
  <2>2. 1 .. 1 = {1}
    OBVIOUS
  <2> QED BY <1>5, <2>1, <2>2 DEF ListIsFree, NoFreeNeighbours
<1>12. LiveBlocksFit(h) /\ h.ready /\ Blocks(h) \subseteq HeapBytes
  BY <1>1, <1>2, <1>4, <1>5 DEF LiveBlocksFit
<1> QED
  BY <1>5, <1>7, <1>8, <1>9, <1>10, <1>11, <1>12 DEF HeapSound, BlocksSound, h
-----------------------------------------------------------------------------
\* What a successful pvPortMalloc and a vPortFree do, seen from their caller.
Grants(h, g, b, n) ==
  /\ HeapSound(g)
  /\ b \notin Allocated(h) /\ Allocated(g) = Allocated(h) \cup {b}
  /\ \A c \in Allocated(h) : g.hdr[c] = h.hdr[c]
  /\ n \in Nat /\ n > 0 /\ g.hdr[b].wanted = n /\ n + StructSize <= g.hdr[b].size
  /\ g.mallocs = h.mallocs + 1
  /\ g.minFree = h.minFree \/ (g.minFree < h.minFree /\ g.minFree = g.free)

TakesBack(h, g, b) ==
  /\ HeapSound(g)
  /\ b \in Allocated(h) /\ Allocated(g) = Allocated(h) \ {b}
  /\ \A c \in Allocated(g) : g.hdr[c] = h.hdr[c]
  /\ g.minFree = h.minFree /\ g.mallocs = h.mallocs

LEMMA MallocGrants ==
  ASSUME NEW h, HeapSound(h), NEW n \in 0 .. SizeMax, NEW m \in Mallocs(h, n)
  PROVE  Grants(h, m.heap, m.block, n)
<1>1. n \in Nat
  BY HeapAssumption
<1> QED BY <1>1, MallocsSound DEF Grants

LEMMA FreeTakesBack ==
  ASSUME NEW h, HeapSound(h), NEW b \in Allocated(h), NEW g \in Frees(h, b)
  PROVE  TakesBack(h, g, b)
BY FreesSound DEF TakesBack

\* The statics before the first allocation describe an empty heap.
LEMMA NoHeapFacts ==
  /\ ~NoHeap.ready /\ NoHeap.ready = FALSE /\ Blocks(NoHeap) = {} /\ Allocated(NoHeap) = {} /\ FreeBlocks(NoHeap) = {}
  /\ NoHeap.list = << >> /\ NoHeap.free = 0 /\ NoHeap.minFree = 0
  /\ NoHeap.mallocs = 0 /\ NoHeap.frees = 0
  /\ NoHeap.hdr \in [{} -> Header]
  /\ NoHeap = [ready |-> NoHeap.ready, hdr |-> NoHeap.hdr, list |-> NoHeap.list,
               free |-> NoHeap.free, minFree |-> NoHeap.minFree, mallocs |-> NoHeap.mallocs,
               frees |-> NoHeap.frees]
<1> DEFINE e == [b \in {} |-> [size |-> 0, allocated |-> FALSE, wanted |-> 0]]
<1>1. DOMAIN e = {} /\ e \in [{} -> Header]
  OBVIOUS
<1>2. NoHeap = [ready |-> FALSE, hdr |-> e, list |-> << >>, free |-> 0, minFree |-> 0,
                mallocs |-> 0, frees |-> 0]
  BY DEF NoHeap
<1> HIDE DEF e
<1>3. /\ ~NoHeap.ready /\ NoHeap.ready = FALSE /\ NoHeap.hdr = e /\ NoHeap.list = << >> /\ NoHeap.free = 0
      /\ NoHeap.minFree = 0 /\ NoHeap.mallocs = 0 /\ NoHeap.frees = 0
      /\ NoHeap = [ready |-> NoHeap.ready, hdr |-> NoHeap.hdr, list |-> NoHeap.list,
                   free |-> NoHeap.free, minFree |-> NoHeap.minFree, mallocs |-> NoHeap.mallocs,
                   frees |-> NoHeap.frees]
  BY <1>2
<1> QED BY <1>1, <1>3 DEF Blocks, Allocated, FreeBlocks

\* The inductive invariant.  The heap is untouched or sound: none of the parts
\* of HeapSound is inductive alone, since cutting and merging blocks rely on the
\* tiling, the order of the list and the absence of free neighbours at once.
IInv ==
  /\ status \in {"running", "exited", "overrun", "walked_past_end"}
  /\ heap = NoHeap \/ HeapSound(heap)
  /\ ~MayShrink => status # "overrun"

\* The cases of a step, with the calls replaced by what they do.
Quiet ==
  /\ heap' = heap
  /\ status' \in {"running", "walked_past_end"}
GivesUp == heap' = Initialised(heap) /\ status' = "exited"
Granted ==
  \E n \in AskedSizes, b \in Nat : Grants(Initialised(heap), heap', b, n) /\ status' = status
Returned == \E b \in Nat : HeapSound(heap) /\ TakesBack(heap, heap', b) /\ status' = status
Moved ==
  \E n \in AskedSizes, b, c \in Nat : \E g :
    /\ HeapSound(heap) /\ b \in Allocated(heap)
    /\ Grants(heap, g, c, n) /\ TakesBack(g, heap', b) /\ status' = status
Overran ==
  /\ MayShrink /\ HeapSound(heap) /\ status' = "overrun"
  /\ \E n \in Nat, b \in Nat : Grants(heap, heap', b, n)

LEMMA InitialisedSound ==
  ASSUME heap = NoHeap \/ HeapSound(heap)
  PROVE  /\ HeapSound(Initialised(heap)) /\ Allocated(Initialised(heap)) = Allocated(heap)
         /\ heap.ready => Initialised(heap) = heap
<1>1. CASE heap = NoHeap
  BY <1>1, NoHeapFacts, HeapInitSound DEF Initialised
<1>2. CASE HeapSound(heap)
  BY <1>2 DEF Initialised, HeapSound, BlocksSound
<1> QED BY <1>1, <1>2

LEMMA GrantedBlock ==
  ASSUME NEW h, NEW g, NEW b, NEW n, Grants(h, g, b, n)
  PROVE  b \in Nat
<1>1. BlocksSound(g) /\ b \in Allocated(g)
  BY DEF Grants, HeapSound
<1> QED BY <1>1, SoundFacts

\* pvPortMalloc, called with any size a caller can name.
LEMMA MallocStep ==
  ASSUME heap = NoHeap \/ HeapSound(heap), NEW n \in AskedSizes, n \in 0 .. SizeMax, Malloc(n)
  PROVE  Granted \/ GivesUp
<1> DEFINE h == Initialised(heap)
<1>1. HeapSound(h)
  BY InitialisedSound
<1>2. CASE MallocFailed(n)
  BY <1>2 DEF MallocFailed, GivesUp
<1>3. ASSUME NEW m \in Mallocs(h, n), heap' = m.heap, UNCHANGED status
      PROVE  Granted
  <2>1. Grants(h, heap', m.block, n)
    BY <1>1, <1>3, MallocGrants
  <2>2. m.block \in Nat
    BY <2>1, GrantedBlock
  <2> QED BY <1>3, <2>1, <2>2 DEF Granted
<1> QED BY <1>2, <1>3 DEF Malloc

LEMMA ReallocStep ==
  ASSUME heap = NoHeap \/ HeapSound(heap), NEW b \in Allocated(heap), NEW n \in Requests,
         Realloc(b, n)
  PROVE  GivesUp \/ Moved \/ Overran
<1>1. HeapSound(heap)
  BY NoHeapFacts
<1>2. n \in 0 .. SizeMax /\ n \in AskedSizes /\ n \in Nat
  BY HeapAssumption DEF AskedSizes
<1>3. CASE MallocFailed(n)
  BY <1>3 DEF MallocFailed, GivesUp
<1>4. ASSUME NEW m \in Mallocs(heap, n),
             IF Overruns(b, m) THEN heap' = m.heap /\ status' = "overrun"
                               ELSE heap' \in Frees(m.heap, b) /\ UNCHANGED status
      PROVE  Moved \/ Overran
  <2>1. Grants(heap, m.heap, m.block, n)
    BY <1>1, <1>2, MallocGrants
  <2>2. m.block \in Nat
    BY <2>1, GrantedBlock
  <2>3. CASE Overruns(b, m)
    <3>1. heap.hdr[b].wanted \in Nat /\ m.heap.hdr[m.block].size \in Nat
      <4>1. BlocksSound(heap) /\ b \in Blocks(heap)
        BY <1>1 DEF HeapSound, Allocated
      <4>2. BlocksSound(m.heap) /\ m.block \in Blocks(m.heap)
        BY <2>1 DEF Grants, HeapSound, Allocated
      <4> QED BY <4>1, <4>2, SoundFacts
    <3>2. ~(n >= heap.hdr[b].wanted)
      BY <1>2, <2>1, <2>3, <3>1, HeapAssumption DEF Overruns, Grants
    <3>3. MayShrink
      BY <3>2 DEF Realloc
    <3> QED BY <1>1, <1>2, <1>4, <2>1, <2>2, <2>3, <3>3 DEF Overran
  <2>4. CASE ~Overruns(b, m)
    <3>1. HeapSound(m.heap) /\ b \in Allocated(m.heap)
      BY <2>1 DEF Grants
    <3>2. TakesBack(m.heap, heap', b)
      BY <1>4, <2>4, <3>1, FreeTakesBack
    <3>3. b \in Nat
      <4>1. BlocksSound(heap) /\ b \in Blocks(heap)
        BY <1>1 DEF HeapSound, Allocated
      <4> QED BY <4>1, SoundFacts
    <3>4. status' = status
      BY <1>4, <2>4
    <3> QED BY <1>1, <1>2, <2>1, <2>2, <3>2, <3>3, <3>4 DEF Moved
  <2> QED BY <2>3, <2>4
<1> QED BY <1>3, <1>4 DEF Realloc

LEMMA StepCases ==
  ASSUME IInv, Next
  PROVE  Quiet \/ GivesUp \/ Granted \/ Returned \/ Moved \/ Overran
<1>1. status = "running" /\ (heap = NoHeap \/ HeapSound(heap))
  BY DEF Next, IInv
<1>2. ASSUME NEW n \in Requests, Malloc(n)
      PROVE  Granted \/ GivesUp
  BY <1>1, <1>2, MallocStep, HeapAssumption DEF AskedSizes
<1>3. ASSUME NEW a \in CallocArgs, Calloc(a[1], a[2])
      PROVE  Granted \/ GivesUp \/ Quiet
  <2>1. CASE a[1] * a[2] > SizeMax
    BY <1>1, <1>3, <2>1 DEF Calloc, Quiet, vars
  <2>2. CASE ~(a[1] * a[2] > SizeMax)
    <3>1. a[1] * a[2] \in AskedSizes
      BY DEF AskedSizes
    <3>2. a[1] \in Nat /\ a[2] \in Nat
      BY HeapAssumption
    <3>3. a[1] * a[2] \in Nat
      BY <3>2
    <3>4. a[1] * a[2] \in 0 .. SizeMax
      BY <2>2, <3>3, HeapAssumption
    <3>5. Malloc(a[1] * a[2])
      BY <1>3, <2>2 DEF Calloc
    <3> QED BY <1>1, <3>1, <3>4, <3>5, MallocStep
  <2> QED BY <2>1, <2>2
<1>4. ASSUME NEW b \in Allocated(heap), Free(b)
      PROVE  Returned
  <2>1. HeapSound(heap)
    BY <1>1, NoHeapFacts
  <2>2. TakesBack(heap, heap', b)
    BY <1>4, <2>1, FreeTakesBack DEF Free
  <2>3. b \in Nat
    <3>1. BlocksSound(heap) /\ b \in Blocks(heap)
      BY <2>1 DEF HeapSound, Allocated
    <3> QED BY <3>1, SoundFacts
  <2>4. status' = status
    BY <1>4 DEF Free
  <2> QED BY <2>1, <2>2, <2>3, <2>4 DEF Returned
<1>5. ASSUME NEW b \in Allocated(heap), NEW n \in Requests, Realloc(b, n)
      PROVE  GivesUp \/ Moved \/ Overran
  BY <1>1, <1>5, ReallocStep
<1>6. ASSUME GetHeapStats
      PROVE  Quiet
  BY <1>1, <1>6 DEF GetHeapStats, Quiet
<1> QED BY <1>2, <1>3, <1>4, <1>5, <1>6 DEF Next

LEMMA InitInvariant == Init => IInv
BY DEF Init, IInv

LEMMA StepInvariant == IInv /\ [Next]_vars => IInv'
<1> SUFFICES ASSUME IInv, [Next]_vars PROVE IInv'
  OBVIOUS
<1>1. CASE UNCHANGED vars
  BY <1>1 DEF vars, IInv
<1>2. CASE Next
  <2>0. status = "running"
    BY <1>2 DEF Next
  <2>1. CASE Quiet
    BY <2>1 DEF Quiet, IInv
  <2>2. CASE GivesUp
    BY <2>2, InitialisedSound DEF GivesUp, IInv
  <2>3. CASE Granted
    BY <2>0, <2>3 DEF Granted, Grants, IInv
  <2>4. CASE Returned
    BY <2>0, <2>4 DEF Returned, TakesBack, IInv
  <2>5. CASE Moved
    BY <2>0, <2>5 DEF Moved, TakesBack, IInv
  <2>6. CASE Overran
    BY <2>6 DEF Overran, Grants, IInv
  <2> QED BY <1>2, <2>1, <2>2, <2>3, <2>4, <2>5, <2>6, StepCases
<1> QED BY <1>1, <1>2

LEMMA InvariantHolds == Spec => []IInv
<1> QED BY InitInvariant, StepInvariant, PTL DEF Spec

\* IInv implies each of the invariants of Heap4.
LEMMA InvariantImplies ==
  ASSUME IInv
  PROVE  TypeOK /\ BlocksTile /\ Coalesced /\ LiveFits /\ FreeAccounting /\ CallAccounting
<1>1. CASE heap = NoHeap
  <2>0. /\ Blocks(heap) = {} /\ Allocated(heap) = {} /\ FreeBlocks(heap) = {}
        /\ ~heap.ready /\ heap.list = << >> /\ heap.free = 0 /\ heap.minFree = 0
        /\ heap.mallocs = 0 /\ heap.frees = 0 /\ heap.hdr \in [{} -> Header]
        /\ heap = [ready |-> heap.ready, hdr |-> heap.hdr, list |-> heap.list,
                   free |-> heap.free, minFree |-> heap.minFree, mallocs |-> heap.mallocs,
                   frees |-> heap.frees]
    BY <1>1, NoHeapFacts
  <2>1. TypeOK
    <3>1. << >> \in Seq(Nat) /\ 0 \in Int /\ 0 \in Nat
      OBVIOUS
    <3>2. /\ heap.ready \in BOOLEAN /\ heap.hdr \in [Blocks(heap) -> Header]
          /\ heap.list \in Seq(Nat) /\ heap.free \in Int /\ heap.minFree \in Int
          /\ heap.mallocs \in Nat /\ heap.frees \in Nat
      <4>1. heap.ready \in BOOLEAN
        <5>1. heap.ready = FALSE
          BY <1>1, NoHeapFacts
        <5> QED BY <5>1
      <4>2. heap.hdr \in [Blocks(heap) -> Header]
        BY <2>0
      <4>3. heap.list \in Seq(Nat)
        BY <2>0, <3>1
      <4> QED BY <2>0, <4>1, <4>2, <4>3
    <3> QED BY <2>0, <3>2 DEF TypeOK, IInv
  <2>2. BlocksTile
    BY <2>0 DEF BlocksTile, BlocksDisjoint, NoByteLost
  <2>3. Coalesced
    <3>1. Len(<< >>) = 0 /\ 1 .. 0 = {}
      OBVIOUS
    <3> QED BY <2>0, <3>1 DEF Coalesced, ListIsFree, NoFreeNeighbours
  <2>4. LiveFits
    BY <2>0 DEF LiveFits, LiveBlocksFit
  <2>5. FreeBytes(heap) = {}
    BY <2>0 DEF FreeBytes
  <2>6. FreeAccounting /\ CallAccounting
    BY <2>0, <2>5, FS_EmptySet DEF FreeAccounting, FreeCounted, CallAccounting, CallsCounted
  <2> QED BY <2>1, <2>2, <2>3, <2>4, <2>6
<1>2. CASE HeapSound(heap)
  BY <1>2 DEF IInv, HeapSound, BlocksSound, HeapRecord, TypeOK, BlocksTile, Coalesced, LiveFits,
              FreeAccounting, CallAccounting
<1> QED BY <1>1, <1>2 DEF IInv

\* The statics and headers of heap_4.c keep their types in every behaviour.
THEOREM TypeCorrect == Spec => []TypeOK
<1> QED BY InvariantHolds, InvariantImplies, PTL

\* Whatever the sequence of calls, the blocks partition the heap: splitting in
\* pvPortMalloc and merging in prvInsertBlockIntoFreeList lose and share no byte.
THEOREM Tiling == Spec => []BlocksTile
<1> QED BY InvariantHolds, InvariantImplies, PTL

\* The free list holds exactly the free blocks, in order, with no two adjacent.
THEOREM FreeListCoalesced == Spec => []Coalesced
<1> QED BY InvariantHolds, InvariantImplies, PTL

\* A block in use always has room for its header and what was asked for.
THEOREM LiveBlocksHaveRoom == Spec => []LiveFits
<1> QED BY InvariantHolds, InvariantImplies, PTL

\* xFreeBytesRemaining is the number of free bytes and bounds the low-water mark.
THEOREM FreeBytesCounted == Spec => []FreeAccounting
<1> QED BY InvariantHolds, InvariantImplies, PTL

\* The two call counters differ by the number of blocks in use.
THEOREM CallsAccounted == Spec => []CallAccounting
<1> QED BY InvariantHolds, InvariantImplies, PTL

\* All counters of heap_4.c hold what they count.
THEOREM CountersHold == Spec => []Accounting
<1> QED BY FreeBytesCounted, CallsAccounted, PTL DEF Accounting

\* When callers only grow blocks, pvPortRealloc's copy stays inside the new one.
THEOREM GrowingNeverOverruns == ASSUME ~MayShrink PROVE Spec => []NoOverrun
<1>1. IInv => NoOverrun
  BY DEF IInv, NoOverrun
<1> QED BY <1>1, InvariantHolds, PTL

\* With everything freed, coalescing has restored the block prvHeapInit made.
LEMMA AllFreed == IInv => AllFreedIsOneBlock
<1> SUFFICES ASSUME IInv, heap.ready, Allocated(heap) = {}
             PROVE  heap.list = <<FirstBlock>> /\ EndOf(heap, FirstBlock) = EndMarker
  BY DEF AllFreedIsOneBlock
<1>1. BlocksSound(heap) /\ ListIsFree(heap) /\ NoFreeNeighbours(heap)
  BY NoHeapFacts DEF IInv, HeapSound
<1>2. FreeBlocks(heap) = Blocks(heap)
  BY DEF FreeBlocks, Allocated
<1>3. /\ \A c \in Blocks(heap) :
           /\ c \in Nat /\ EndOf(heap, c) \in Nat /\ c < EndOf(heap, c)
           /\ FirstBlock <= c /\ EndOf(heap, c) <= EndMarker
      /\ heap.list \in Seq(Nat)
  <2>1. /\ \A c \in Blocks(heap) :
             /\ heap.hdr[c].size \in Nat /\ c \in Nat /\ EndOf(heap, c) \in Nat
             /\ EndOf(heap, c) = c + heap.hdr[c].size /\ heap.hdr[c].size > 0
             /\ FirstBlock <= c /\ EndOf(heap, c) <= EndMarker
        /\ heap.list \in Seq(Nat)
    BY <1>1, SoundFacts
  <2>2. \A c \in Blocks(heap) : c < EndOf(heap, c)
    BY <2>1
  <2> QED BY <2>1, <2>2
<1>4. \A x \in HeapBytes : \E c \in Blocks(heap) : c <= x /\ x < EndOf(heap, c)
  BY <1>1 DEF NoByteLost, BlocksSound
<1>5. FirstBlock \in Nat /\ EndMarker \in Nat /\ FirstBlock < EndMarker
  BY RoomAssumption
<1>6. FirstBlock \in Blocks(heap)
  <2>1. FirstBlock \in HeapBytes
    BY <1>5 DEF HeapBytes
  <2>2. PICK c \in Blocks(heap) : c <= FirstBlock
    BY <1>4, <2>1
  <2>3. c = FirstBlock
    BY <1>3, <1>5, <2>2
  <2> QED BY <2>3
<1>7. \A c \in Blocks(heap) : \E m \in 1 .. Len(heap.list) : heap.list[m] = c
  BY <1>1, <1>2 DEF ListIsFree
<1>8. \A m \in 1 .. Len(heap.list) : heap.list[m] \in Blocks(heap)
  BY <1>1, <1>2 DEF ListIsFree
<1>9. \A m, o \in 1 .. Len(heap.list) : m < o => EndOf(heap, heap.list[m]) < heap.list[o]
  BY <1>1 DEF NoFreeNeighbours
<1>10. PICK k \in 1 .. Len(heap.list) : heap.list[k] = FirstBlock
  BY <1>6, <1>7
<1>11. EndOf(heap, FirstBlock) = EndMarker
  <2> SUFFICES ASSUME EndOf(heap, FirstBlock) < EndMarker PROVE FALSE
    BY <1>3, <1>5, <1>6
  <2>1. EndOf(heap, FirstBlock) \in HeapBytes
    BY <1>3, <1>5, <1>6 DEF HeapBytes
  <2>2. PICK c \in Blocks(heap) : c <= EndOf(heap, FirstBlock) /\ EndOf(heap, FirstBlock) < EndOf(heap, c)
    BY <1>4, <2>1
  <2>3. PICK m \in 1 .. Len(heap.list) : heap.list[m] = c
    BY <1>7
  <2>4. c # FirstBlock /\ FirstBlock <= c
    BY <1>3, <1>6, <2>2
  <2>5. m # k
    BY <1>10, <2>3, <2>4
  <2>6. ~(m < k)
    BY <1>3, <1>5, <1>9, <1>10, <2>3, <2>4
  <2>7. k < m => EndOf(heap, FirstBlock) < c
    BY <1>9, <1>10, <2>3
  <2> QED BY <1>3, <1>6, <2>2, <2>5, <2>6, <2>7
<1>12. \A m \in 1 .. Len(heap.list) : m = k
  <2> SUFFICES ASSUME NEW m \in 1 .. Len(heap.list), m # k PROVE FALSE
    OBVIOUS
  <2>1. heap.list[m] \in Blocks(heap)
    BY <1>8
  <2>2. m < k => EndOf(heap, heap.list[m]) < FirstBlock
    BY <1>9, <1>10
  <2>3. k < m => EndMarker < heap.list[m]
    BY <1>9, <1>10, <1>11
  <2>4. m \in Nat /\ k \in Nat
    OBVIOUS
  <2>5. CASE m < k
    BY <1>3, <1>5, <2>1, <2>2, <2>5
  <2>6. CASE k < m
    <3>1. heap.list[m] < EndMarker
      BY <1>3, <1>5, <2>1
    <3> QED BY <1>3, <1>5, <2>1, <2>3, <2>6, <3>1
  <2> QED BY <2>4, <2>5, <2>6
<1>13. Len(heap.list) = 1 /\ k = 1
  <2>1. Len(heap.list) \in Nat /\ k \in 1 .. Len(heap.list)
    BY <1>3
  <2>2. 1 \in 1 .. Len(heap.list) /\ Len(heap.list) \in 1 .. Len(heap.list)
    BY <2>1
  <2> QED BY <1>12, <2>2
<1>14. heap.list = <<FirstBlock>>
  BY <1>3, <1>10, <1>13
<1> QED BY <1>11, <1>14

\* Freeing every block gives back one block that spans the whole heap.
THEOREM AllFreedCoalesces == Spec => []AllFreedIsOneBlock
<1> QED BY InvariantHolds, AllFreed, PTL

\* No call raises the low-water mark, and only a call that takes a block lowers
\* it, to what that call leaves or less.
THEOREM LowWater == Spec => LowWaterMark
<1>1. ASSUME IInv, [Next]_vars
      PROVE  [heap.ready => /\ heap'.minFree <= heap.minFree
                            /\ heap'.minFree < heap.minFree =>
                                 heap'.minFree <= heap'.free /\ heap'.mallocs = heap.mallocs + 1]_vars
  <2> SUFFICES ASSUME Next, heap.ready
               PROVE  /\ heap'.minFree <= heap.minFree
                      /\ heap'.minFree < heap.minFree =>
                           heap'.minFree <= heap'.free /\ heap'.mallocs = heap.mallocs + 1
    BY <1>1
  <2>1. HeapSound(heap) /\ Initialised(heap) = heap
    BY <1>1, NoHeapFacts DEF IInv, Initialised
  <2>2. heap.minFree \in Int
    BY <2>1, SoundFacts DEF HeapSound
  <2>3. CASE heap'.minFree = heap.minFree
    BY <2>2, <2>3
  <2>4. CASE \E g, c, n : /\ Grants(heap, g, c, n) /\ HeapSound(heap')
                          /\ heap'.minFree = g.minFree /\ heap'.mallocs = g.mallocs
    <3>1. PICK g, c, n : /\ Grants(heap, g, c, n) /\ HeapSound(heap')
                         /\ heap'.minFree = g.minFree /\ heap'.mallocs = g.mallocs
      BY <2>4
    <3>2. heap'.mallocs = heap.mallocs + 1 /\ (g.minFree = heap.minFree \/ g.minFree < heap.minFree)
      BY <3>1 DEF Grants
    <3>3. heap'.minFree <= heap'.free
      BY <3>1 DEF HeapSound, BlocksSound, FreeCounted
    <3>4. heap'.minFree \in Int
      BY <3>1, SoundFacts DEF HeapSound
    <3> QED BY <2>2, <3>1, <3>2, <3>3, <3>4
  <2>5. CASE Quiet
    BY <2>3, <2>5 DEF Quiet
  <2>6. CASE GivesUp
    BY <2>1, <2>3, <2>6 DEF GivesUp
  <2>7. CASE Granted
    BY <2>1, <2>4, <2>7 DEF Granted, Grants
  <2>8. CASE Returned
    BY <2>3, <2>8 DEF Returned, TakesBack
  <2>9. CASE Moved
    BY <2>4, <2>9 DEF Moved, TakesBack
  <2>10. CASE Overran
    BY <2>4, <2>10 DEF Overran, Grants
  <2> QED BY <1>1, <2>5, <2>6, <2>7, <2>8, <2>9, <2>10, StepCases
<1> QED BY <1>1, InvariantHolds, PTL DEF LowWaterMark, Spec
-----------------------------------------------------------------------------
(* Alignment: every block starts at a multiple of portBYTE_ALIGNMENT. *)

BlocksAligned(h) == \A b \in Blocks(h) : b % Alignment = 0

LEMMA Division ==
  ASSUME NEW m \in Nat \ {0}, NEW p \in Nat
  PROVE  /\ p \div m \in Nat /\ p % m \in 0 .. (m - 1)
         /\ p = (m * (p \div m)) + (p % m)
OBVIOUS

LEMMA MultipleAligned ==
  ASSUME NEW m \in Nat \ {0}, NEW q \in Nat
  PROVE  (m * q) % m = 0
OBVIOUS

LEMMA SumAligned ==
  ASSUME NEW m \in Nat \ {0}, NEW a \in Nat, NEW c \in Nat, a % m = 0, c % m = 0
  PROVE  (a + c) % m = 0
<1>1. PICK q \in Nat : a = m * q
  <2>1. PICK x \in Nat : a = (m * x) + 0
    BY Division
  <2>2. a = m * x
    BY <2>1
  <2> QED BY <2>2
<1>2. PICK r \in Nat : c = m * r
  <2>1. PICK x \in Nat : c = (m * x) + 0
    BY Division
  <2>2. c = m * x
    BY <2>1
  <2> QED BY <2>2
<1>3. (m * q) + (m * r) = m * (q + r) /\ q + r \in Nat
  OBVIOUS
<1> QED BY <1>1, <1>2, <1>3, MultipleAligned

\* What is left of a number without its remainder is a multiple.
LEMMA RoundedAligned ==
  ASSUME NEW m \in Nat \ {0}, NEW p \in Nat
  PROVE  p - (p % m) \in Nat /\ (p - (p % m)) % m = 0
<1>1. PICK q \in Nat, r \in 0 .. (m - 1) : r = p % m /\ p = (m * q) + r
  BY Division
<1>2. m * q \in Nat /\ (m * q) % m = 0
  BY MultipleAligned
<1>3. p - r = m * q
  BY <1>1, <1>2
<1> QED BY <1>1, <1>2, <1>3

LEMMA FirstBlockAligned == FirstBlock % Alignment = 0
<1>1. Base \in Nat /\ Alignment \in Nat \ {0}
  BY HeapAssumption
<1>2. CASE Base % Alignment = 0
  BY <1>2 DEF FirstBlock, AlignUp
<1>3. CASE Base % Alignment # 0
  <2>1. PICK r \in 0 .. (Alignment - 1) : r = Base % Alignment
    BY <1>1, Division
  <2>2. FirstBlock = Base + (Alignment - r)
    BY <1>3, <2>1 DEF FirstBlock, AlignUp
  <2>3. FirstBlock = (Base - r) + Alignment
    BY <1>1, <2>1, <2>2
  <2>4. Alignment % Alignment = 0 /\ Alignment \in Nat
    BY <1>1
  <2>5. Base - r \in Nat /\ (Base - r) % Alignment = 0
    BY <1>1, <2>1, RoundedAligned
  <2>6. ((Base - r) + Alignment) % Alignment = 0
    BY <1>1, <2>4, <2>5, SumAligned, Zenon
  <2> QED BY <2>3, <2>6, Zenon
<1> QED BY <1>2, <1>3

LEMMA AdjustedSizeAligned ==
  ASSUME NEW n \in 0 .. SizeMax, AdjustedSize(n) > 0
  PROVE  AdjustedSize(n) % Alignment = 0
<1>1. n \in Nat /\ StructSize \in Nat /\ Alignment \in Nat \ {0}
  BY HeapAssumption
<1>2. PICK r \in 0 .. (Alignment - 1) : r = n % Alignment
  BY <1>1, Division
<1>3. n > 0 /\ AdjustedSize(n) = n + (StructSize + Alignment - r)
  BY <1>1, <1>2 DEF AdjustedSize
<1>4. AdjustedSize(n) = ((n - r) + StructSize) + Alignment
  BY <1>1, <1>2, <1>3
<1>5. Alignment % Alignment = 0
  BY <1>1
<1>6. n - r \in Nat /\ (n - r) % Alignment = 0
  BY <1>1, <1>2, RoundedAligned
<1>7. (n - r) + StructSize \in Nat /\ ((n - r) + StructSize) % Alignment = 0
  <2>1. StructSize % Alignment = 0
    BY StructAssumption
  <2>2. ASSUME NEW k \in Nat, k % Alignment = 0
        PROVE  k + StructSize \in Nat /\ (k + StructSize) % Alignment = 0
    <3>1. k + StructSize \in Nat
      BY <1>1, <2>2
    <3>2. (k + StructSize) % Alignment = 0
      BY <1>1, <2>1, <2>2, SumAligned, Zenon
    <3> QED BY <3>1, <3>2
  <2> QED BY <1>6, <2>2
<1>8. ASSUME NEW k \in Nat, k % Alignment = 0
      PROVE  (k + Alignment) % Alignment = 0
  <2>1. Alignment \in Nat /\ Alignment \in Nat \ {0}
    BY <1>1
  <2> QED BY <1>5, <1>8, <2>1, SumAligned, Zenon
<1>9. (((n - r) + StructSize) + Alignment) % Alignment = 0
  BY <1>7, <1>8, Zenon
<1> QED BY <1>4, <1>9, Zenon

\* Putting a block on the free list makes no block start elsewhere.
LEMMA InsertedBlocks ==
  ASSUME NEW h, h \in HeapRecord(Blocks(h)), NEW b, NEW g \in Inserted(h, b)
  PROVE  Blocks(g) \subseteq Blocks(h)
<1>1. PICK k \in Positions(h.list, b) : g = InsertedAt(h, b, k)
  BY DEF Inserted
<1> DEFINE prev == JoinsPrev(h, b, k)
           next == JoinsNext(h, b, k)
           start == IF prev THEN h.list[k] ELSE b
           end == IF next THEN EndOf(h, h.list[k + 1]) ELSE EndOf(h, b)
           swallowed == (IF prev THEN {b} ELSE {}) \cup (IF next THEN {h.list[k + 1]} ELSE {})
           hdr == [c \in Blocks(h) \ swallowed |->
                     IF c = start THEN [h.hdr[c] EXCEPT !.size = end - start] ELSE h.hdr[c]]
           list == Spliced(h.list, IF prev THEN k - 1 ELSE k, start, IF next THEN k + 2 ELSE k + 1)
<1>2. g = [h EXCEPT !.hdr = hdr, !.list = list]
  BY <1>1 DEF InsertedAt
<1>3. DOMAIN hdr = Blocks(h) \ swallowed
  OBVIOUS
<1> HIDE DEF hdr, list
<1>4. g.hdr = hdr
  BY <1>2 DEF HeapRecord
<1> QED BY <1>3, <1>4 DEF Blocks

LEMMA FreesAligned ==
  ASSUME NEW h, HeapSound(h), BlocksAligned(h), NEW b \in Allocated(h), NEW g \in Frees(h, b)
  PROVE  BlocksAligned(g)
<1> DEFINE t == Released(h, b)
<1>1. h \in HeapRecord(Blocks(h))
  BY DEF HeapSound, BlocksSound
<1>2. g \in Inserted(t, b)
  BY DEF Frees
<1>3. Blocks(t) = Blocks(h)
  BY <1>1, ReleasedFields DEF Blocks
<1> HIDE DEF t
<1>4. t \in HeapRecord(Blocks(t))
  BY ReleasedAwaitsInsert DEF AwaitsInsert, BlocksSound, t
<1> QED BY <1>2, <1>3, <1>4, InsertedBlocks DEF BlocksAligned

LEMMA MallocsAligned ==
  ASSUME NEW h, HeapSound(h), BlocksAligned(h), NEW n \in 0 .. SizeMax, NEW m \in Mallocs(h, n)
  PROVE  BlocksAligned(m.heap)
<1> DEFINE A == AdjustedSize(n)
<1>1. PICK i \in FirstFit(h, A) : \E g \in Carved(h, i, h.list[i], A, n) :
                                     m = [block |-> h.list[i], heap |-> g]
  BY DEF Mallocs
<1> DEFINE b == h.list[i]
<1>2. PICK g \in Carved(h, i, b, A, n) : m = [block |-> b, heap |-> g]
  BY <1>1
<1>3. A > 0
  BY <1>1 DEF Mallocs, Satisfiable
<1>4. A \in Nat /\ A % Alignment = 0 /\ n \in Nat /\ n > 0 /\ n + StructSize <= A
  BY <1>3, AdjustedSizeProperties, AdjustedSizeAligned, HeapAssumption
<1>5. i \in 1 .. Len(h.list) /\ h.hdr[b].size >= A
  BY DEF FirstFit
<1> HIDE DEF A, b
<1>6. /\ h \in HeapRecord(Blocks(h)) /\ b \in Blocks(h) /\ b \in Nat /\ h.hdr[b].size \in Nat
      /\ EndOf(h, b) = b + h.hdr[b].size
  <2>1. BlocksSound(h) /\ b \in FreeBlocks(h)
    BY <1>5 DEF HeapSound, ListIsFree, b
  <2> QED BY <2>1, SoundFacts DEF BlocksSound, FreeBlocks
<1>7. (b + A) % Alignment = 0
  <2>1. b % Alignment = 0
    BY <1>6 DEF BlocksAligned
  <2>2. Alignment \in Nat \ {0}
    BY HeapAssumption
  <2> QED BY <1>4, <1>6, <2>1, <2>2, SumAligned, Zenon
<1>8. CASE h.hdr[b].size - A > 2 * StructSize
  <2> DEFINE t == Split(h, i, b, A, n)
             r == b + A
  <2>1. g \in Inserted(t, r)
    BY <1>2, <1>8 DEF Carved
  <2>2. A < h.hdr[b].size /\ r \notin Blocks(h)
    <3>1. StructSize \in Nat
      BY HeapAssumption
    <3>2. A < h.hdr[b].size
      BY <1>4, <1>6, <1>8, <3>1
    <3>3. \A c \in Blocks(h) : b < c => EndOf(h, b) <= c
      BY <1>6, SoundFacts DEF HeapSound
    <3> QED BY <1>3, <1>4, <1>6, <3>2, <3>3
  <2>3. IsCarved(t, h, i, b, A, n, {r})
    <3>1. i \in 1 .. Len(h.list) /\ b = h.list[i]
      BY <1>5 DEF b
    <3>2. A <= h.hdr[b].size
      BY <1>4, <1>5, <1>6
    <3> QED BY <1>4, <1>6, <2>2, <3>1, <3>2, SplitIsCarved
  <2> HIDE DEF t
  <2>4. BlocksSound(t)
    BY <2>3, CarvedSound
  <2>5. Blocks(t) = Blocks(h) \cup {r}
    BY <2>3 DEF IsCarved, Blocks
  <2>6. Blocks(g) \subseteq Blocks(t)
    BY <2>1, <2>4, InsertedBlocks DEF BlocksSound
  <2>7. m.heap = g
    BY <1>2
  <2> QED BY <1>7, <2>5, <2>6, <2>7 DEF BlocksAligned
<1>9. CASE ~(h.hdr[b].size - A > 2 * StructSize)
  <2> DEFINE s == h.hdr[b].size
  <2>1. g = Taken(h, i, b, s, n)
    BY <1>2, <1>9 DEF Carved
  <2> HIDE DEF s
  <2>2. IsCarved(g, h, i, b, s, n, {})
    <3>1. i \in 1 .. Len(h.list) /\ b = h.list[i]
      BY <1>5 DEF b
    <3>2. s \in Nat /\ n + StructSize <= s /\ s = h.hdr[b].size
      BY <1>4, <1>5, <1>6, HeapAssumption DEF s
    <3> QED BY <1>4, <1>6, <2>1, <3>1, <3>2, TakenIsCarved
  <2>3. Blocks(g) = Blocks(h) \cup {}
    BY <2>2 DEF IsCarved, Blocks
  <2>4. m.heap = g
    BY <1>2
  <2> QED BY <2>3, <2>4 DEF BlocksAligned
<1> QED BY <1>8, <1>9

LEMMA InitialisedAligned ==
  ASSUME IInv, BlocksAligned(heap)
  PROVE  BlocksAligned(Initialised(heap))
<1>1. Blocks(HeapInit) = {FirstBlock}
  BY HeapInitFields DEF Blocks
<1> QED BY <1>1, FirstBlockAligned DEF Initialised, BlocksAligned

LEMMA MallocKeepsAligned ==
  ASSUME IInv, BlocksAligned(heap), NEW n \in 0 .. SizeMax, Malloc(n)
  PROVE  BlocksAligned(heap')
<1>1. HeapSound(Initialised(heap)) /\ BlocksAligned(Initialised(heap))
  BY InitialisedSound, InitialisedAligned DEF IInv
<1>2. CASE MallocFailed(n)
  BY <1>1, <1>2 DEF MallocFailed
<1>3. CASE \E m \in Mallocs(Initialised(heap), n) : heap' = m.heap
  BY <1>1, <1>3, MallocsAligned
<1> QED BY <1>2, <1>3 DEF Malloc

LEMMA StepAligned ==
  ASSUME IInv, BlocksAligned(heap), [Next]_vars
  PROVE  BlocksAligned(heap')
<1>1. CASE UNCHANGED vars
  BY <1>1 DEF vars
<1>2. ASSUME NEW n \in Requests, Malloc(n)
      PROVE  BlocksAligned(heap')
  BY <1>2, MallocKeepsAligned, HeapAssumption
<1>3. ASSUME NEW a \in CallocArgs, Calloc(a[1], a[2])
      PROVE  BlocksAligned(heap')
  <2>1. CASE a[1] * a[2] > SizeMax
    BY <1>3, <2>1 DEF Calloc, vars
  <2>2. CASE ~(a[1] * a[2] > SizeMax)
    <3>1. a[1] \in Nat /\ a[2] \in Nat
      BY HeapAssumption
    <3>2. a[1] * a[2] \in Nat
      BY <3>1
    <3>3. a[1] * a[2] \in 0 .. SizeMax
      BY <2>2, <3>2, HeapAssumption
    <3> QED BY <1>3, <2>2, <3>3, MallocKeepsAligned DEF Calloc
  <2> QED BY <2>1, <2>2
<1>4. ASSUME NEW b \in Allocated(heap), Free(b)
      PROVE  BlocksAligned(heap')
  <2>1. HeapSound(heap)
    BY <1>4, NoHeapFacts DEF IInv
  <2> QED BY <1>4, <2>1, FreesAligned DEF Free
<1>5. ASSUME NEW b \in Allocated(heap), NEW n \in Requests, Realloc(b, n)
      PROVE  BlocksAligned(heap')
  <2>1. HeapSound(heap) /\ n \in 0 .. SizeMax
    BY NoHeapFacts, HeapAssumption DEF IInv
  <2>2. CASE MallocFailed(n)
    BY <2>2, InitialisedAligned DEF MallocFailed
  <2>3. ASSUME NEW m \in Mallocs(heap, n), heap' = m.heap \/ heap' \in Frees(m.heap, b)
        PROVE  BlocksAligned(heap')
    <3>1. BlocksAligned(m.heap) /\ HeapSound(m.heap) /\ b \in Allocated(m.heap)
      BY <2>1, MallocsAligned, MallocsSound
    <3> QED BY <2>3, <3>1, FreesAligned
  <2> QED BY <1>5, <2>2, <2>3 DEF Realloc
<1>6. CASE GetHeapStats
  BY <1>6 DEF GetHeapStats
<1> QED BY <1>1, <1>2, <1>3, <1>4, <1>5, <1>6 DEF Next

\* Every pointer pvPortMalloc returns is a multiple of the alignment, whatever was
\* split, merged or freed before: the assertion in heap_4.c:288 never fires.
THEOREM PointersAreAligned == Spec => []PointersAligned
<1>1. Init => BlocksAligned(heap)
  BY NoHeapFacts DEF Init, BlocksAligned
<1>2. IInv /\ BlocksAligned(heap) /\ [Next]_vars => BlocksAligned(heap)'
  BY StepAligned
<1>3. IInv /\ BlocksAligned(heap) => PointersAligned
  <2> SUFFICES ASSUME IInv, BlocksAligned(heap), NEW b \in Allocated(heap)
               PROVE  (b + StructSize) % Alignment = 0
    BY DEF PointersAligned
  <2>1. HeapSound(heap) /\ b \in Blocks(heap)
    BY NoHeapFacts DEF IInv, Allocated
  <2>2. b \in Nat
    BY <2>1, SoundFacts DEF HeapSound
  <2> QED BY <2>1, <2>2, SumAligned, StructAssumption, HeapAssumption DEF BlocksAligned
<1> QED BY <1>1, <1>2, <1>3, InvariantHolds, PTL DEF Spec

\* A block in use stays one the caller can use: aligned, and with room for its header
\* and every byte asked for.
THEOREM LiveBlocksUsable == Spec => []LiveUsable
<1> QED BY LiveBlocksHaveRoom, PointersAreAligned, PTL DEF LiveUsable
-----------------------------------------------------------------------------
(* The walk of vPortGetHeapStats. *)

\* An empty list leaves no free byte, and xFreeBytesRemaining says so.
LEMMA EmptyListIsFull ==
  ASSUME IInv, heap.ready, heap.list = << >>
  PROVE  heap.free = 0
<1>1. HeapSound(heap)
  BY NoHeapFacts DEF IInv
<1>2. FreeBlocks(heap) = {}
  <2>1. 1 .. Len(<< >>) = {}
    OBVIOUS
  <2> QED BY <1>1, <2>1 DEF HeapSound, ListIsFree
<1>3. FreeBytes(heap) = {}
  BY <1>2 DEF FreeBytes
<1> QED BY <1>1, <1>3, FS_EmptySet DEF HeapSound, BlocksSound, FreeCounted

\* vPortGetHeapStats leaves the list only when the heap has no free byte.
THEOREM StatsSafeUnlessFull == Spec => []StatsStayInList
<1>1. Init => StatsStayInList
  BY DEF Init, StatsStayInList
<1>2. IInv /\ StatsStayInList /\ [Next]_vars => StatsStayInList'
  <2> SUFFICES ASSUME IInv, StatsStayInList, [Next]_vars PROVE StatsStayInList'
    OBVIOUS
  <2>1. CASE UNCHANGED vars
    BY <2>1 DEF vars, StatsStayInList
  <2>2. CASE GetHeapStats
    BY <2>2, EmptyListIsFull DEF GetHeapStats, StatsStayInList
  <2>3. ASSUME NEW n, Malloc(n), status = "running"
        PROVE  status' # "walked_past_end"
    BY <2>3 DEF Malloc, MallocFailed
  <2>4. ASSUME NEW n, NEW k, Calloc(n, k), status = "running"
        PROVE  status' # "walked_past_end"
    BY <2>3, <2>4 DEF Calloc, vars
  <2>5. ASSUME NEW b, Free(b), status = "running"
        PROVE  status' # "walked_past_end"
    BY <2>5 DEF Free
  <2>6. ASSUME NEW b, NEW n, Realloc(b, n), status = "running"
        PROVE  status' # "walked_past_end"
    BY <2>6 DEF Realloc, MallocFailed
  <2> QED BY <2>1, <2>2, <2>3, <2>4, <2>5, <2>6 DEF Next, StatsStayInList
<1> QED BY <1>1, <1>2, InvariantHolds, PTL DEF Spec
-----------------------------------------------------------------------------
(* The allocator implements the abstract one. *)

LEMMA LiveProperties ==
  ASSUME NEW h
  PROVE  /\ DOMAIN Live(h) = LivePointers(h)
         /\ \A b \in Allocated(h) : b \in Nat => Live(h)[b + StructSize] = h.hdr[b].wanted
<1>1. DOMAIN Live(h) = LivePointers(h)
  BY DEF Live
<1>2. ASSUME NEW b \in Allocated(h), b \in Nat
      PROVE  Live(h)[b + StructSize] = h.hdr[b].wanted
  <2>1. b + StructSize \in LivePointers(h)
    BY DEF LivePointers
  <2>2. (b + StructSize) - StructSize = b
    BY <1>2, HeapAssumption
  <2> QED BY <2>1, <2>2 DEF Live
<1> QED BY <1>1, <1>2

\* A granted block is a region of the heap beside every live one.
LEMMA GrantIsMalloc ==
  ASSUME NEW h, HeapSound(h), NEW g, NEW b, NEW n, Grants(h, g, b, n)
  PROVE  /\ Abstract!Placed(b + StructSize, n, Live(h))
         /\ Live(g) = Abstract!With(Live(h), b + StructSize, n)
         /\ b + StructSize \in HeapBytes
<1> DEFINE p == b + StructSize
<1>0. BlocksSound(h) /\ BlocksSound(g) /\ b \in Allocated(g) /\ b \notin Allocated(h)
      /\ Allocated(g) = Allocated(h) \cup {b}
  BY DEF Grants, HeapSound
<1>1. StructSize \in Nat
  BY HeapAssumption
<1>g. /\ FirstBlock \in Nat /\ EndMarker \in Nat
      /\ \A c \in Allocated(g) :
           /\ c \in Blocks(g) /\ c \in Nat /\ g.hdr[c].size \in Nat /\ g.hdr[c].wanted \in Nat
           /\ EndOf(g, c) \in Nat
           /\ EndOf(g, c) = c + g.hdr[c].size /\ FirstBlock <= c /\ EndOf(g, c) <= EndMarker
  BY <1>0, SoundFacts
<1>2. \A c \in Allocated(g) : g.hdr[c].wanted > 0 /\ g.hdr[c].wanted + StructSize <= g.hdr[c].size
  BY <1>0 DEF BlocksSound, LiveBlocksFit
<1>3. \A c, d \in Allocated(g) : c < d => EndOf(g, c) <= d
  BY <1>0, <1>g, SoundFacts
<1>4. g.hdr[b].wanted = n /\ n \in Nat /\ n > 0 /\ \A c \in Allocated(h) : g.hdr[c] = h.hdr[c]
  BY DEF Grants
<1>5. \A c \in Allocated(h) : c \in Nat /\ c \in Allocated(g) /\ c # b
  BY <1>0, <1>g
<1>6. p \notin LivePointers(h)
  BY <1>0, <1>1, <1>5, <1>g DEF LivePointers
\* The bytes a caller may use of a block lie inside it.
<1>7. \A c \in Allocated(g) : \A x \in Abstract!Region(c + StructSize, g.hdr[c].wanted) :
        x \in Nat /\ c <= x /\ x < EndOf(g, c) /\ x \in HeapBytes
  <2> TAKE c \in Allocated(g)
  <2> TAKE x \in Abstract!Region(c + StructSize, g.hdr[c].wanted)
  <2>1. x \in (c + StructSize) .. ((c + StructSize) + g.hdr[c].wanted - 1)
    BY DEF Abstract!Region
  <2>2. x \in Int /\ c + StructSize <= x /\ x <= (c + StructSize) + g.hdr[c].wanted - 1
    BY <1>1, <1>g, <2>1
  <2>3. c <= x /\ x < EndOf(g, c)
    BY <1>1, <1>2, <1>g, <2>2
  <2> QED BY <1>g, <2>2, <2>3 DEF HeapBytes
<1>8. Abstract!Region(p, n) \subseteq HeapBytes
  BY <1>0, <1>4, <1>7
<1>9. ASSUME NEW q \in LivePointers(h)
      PROVE  Abstract!Region(p, n) \cap Abstract!Region(q, Live(h)[q]) = {}
  <2>1. PICK c \in Allocated(h) : q = c + StructSize
    BY DEF LivePointers
  <2>2. Live(h)[q] = g.hdr[c].wanted
    BY <1>4, <1>5, <2>1, LiveProperties
  <2> SUFFICES ASSUME NEW x \in Abstract!Region(p, n), x \in Abstract!Region(q, Live(h)[q])
               PROVE  FALSE
    OBVIOUS
  <2>3. b <= x /\ x < EndOf(g, b) /\ x \in Nat
    BY <1>0, <1>4, <1>7
  <2>4. c <= x /\ x < EndOf(g, c) /\ c \in Allocated(g) /\ c # b
    BY <1>5, <1>7, <2>1, <2>2
  <2>5. c < b => EndOf(g, c) <= b
    BY <1>0, <1>3, <2>4
  <2>6. b < c => EndOf(g, b) <= c
    BY <1>0, <1>3, <2>4
  <2> QED BY <1>0, <1>g, <2>3, <2>4, <2>5, <2>6
<1>10. Abstract!Placed(p, n, Live(h))
  BY <1>6, <1>8, <1>9, LiveProperties DEF Abstract!Placed
<1>11. LivePointers(g) = LivePointers(h) \cup {p}
  BY <1>0 DEF LivePointers
<1>12. ASSUME NEW q \in LivePointers(g)
       PROVE  Live(g)[q] = IF q = p THEN n ELSE Live(h)[q]
  <2>1. PICK c \in Allocated(g) : q = c + StructSize
    BY DEF LivePointers
  <2>2. Live(g)[q] = g.hdr[c].wanted
    BY <1>g, <2>1, LiveProperties
  <2>3. CASE c = b
    BY <1>4, <2>1, <2>2, <2>3
  <2>4. CASE c # b
    <3>1. c \in Allocated(h) /\ q # p
      BY <1>0, <1>1, <1>g, <2>1, <2>4
    <3>2. Live(h)[q] = h.hdr[c].wanted
      BY <1>g, <2>1, <3>1, LiveProperties
    <3> QED BY <1>4, <2>2, <3>1, <3>2
  <2> QED BY <2>3, <2>4
<1>13. Live(g) = [q \in LivePointers(g) |-> Live(g)[q]]
  BY DEF Live
<1>14. Live(g) = Abstract!With(Live(h), p, n)
  BY <1>11, <1>12, <1>13, LiveProperties DEF Abstract!With
<1>15. p \in HeapBytes
  <2>1. p \in Abstract!Region(p, n)
    BY <1>0, <1>1, <1>4, <1>g DEF Abstract!Region
  <2> QED BY <1>8, <2>1
<1> QED BY <1>10, <1>14, <1>15

LEMMA TakeBackIsFree ==
  ASSUME NEW h, NEW g, NEW b, HeapSound(h), TakesBack(h, g, b)
  PROVE  /\ b + StructSize \in DOMAIN Live(h)
         /\ Live(g) = Abstract!Without(Live(h), b + StructSize)
<1> DEFINE p == b + StructSize
<1>0. b \in Allocated(h) /\ Allocated(g) = Allocated(h) \ {b}
  BY DEF TakesBack
<1>1. \A c \in Allocated(h) : c \in Nat
  <2>1. BlocksSound(h)
    BY DEF HeapSound
  <2> QED BY <2>1, SoundFacts
<1>2. p \in LivePointers(h)
  BY <1>0 DEF LivePointers
<1>3. LivePointers(g) = LivePointers(h) \ {p}
  BY <1>0, <1>1, HeapAssumption DEF LivePointers
<1>4. ASSUME NEW q \in LivePointers(g) PROVE Live(g)[q] = Live(h)[q]
  <2>1. PICK c \in Allocated(g) : q = c + StructSize
    BY DEF LivePointers
  <2>2. c \in Allocated(h) /\ c \in Nat /\ g.hdr[c] = h.hdr[c]
    BY <1>0, <1>1 DEF TakesBack
  <2> QED BY <2>1, <2>2, LiveProperties
<1>5. Live(g) = [q \in LivePointers(g) |-> Live(g)[q]]
  BY DEF Live
<1> QED BY <1>2, <1>3, <1>4, <1>5, LiveProperties DEF Abstract!Without

LEMMA LiveOfNothing == ASSUME NEW h, Allocated(h) = {} PROVE Live(h) = [p \in {} |-> 0]
<1>1. LivePointers(h) = {}
  BY DEF LivePointers
<1> QED BY <1>1 DEF Live

LEMMA InitRefines == Init => Abstract!Init
<1> SUFFICES ASSUME Init PROVE Abstract!Init
  OBVIOUS
<1>1. Allocated(heap) = {}
  BY NoHeapFacts DEF Init
<1>2. live = [p \in {} |-> 0]
  BY <1>1, LiveOfNothing DEF live
<1>3. running = TRUE
  BY DEF Init, running
<1> QED BY <1>2, <1>3 DEF Abstract!Init

LEMMA StepRefines ==
  ASSUME ~MayShrink, IInv, [Next]_vars
  PROVE  [Abstract!Next]_(Abstract!vars)
<1> SUFFICES ASSUME Next PROVE Abstract!Next \/ UNCHANGED <<live, running>>
  BY DEF vars, live, running, Abstract!vars
<1>0. status = "running" /\ running
  BY DEF Next, running
<1>1. CASE Quiet
  BY <1>0, <1>1 DEF Quiet, live, running
<1>2. CASE GivesUp
  <2>1. live' = live
    <3>1. CASE heap = NoHeap
      <4>1. Allocated(heap) = {} /\ Allocated(heap') = {}
        BY <1>2, <3>1, NoHeapFacts, InitialisedSound DEF GivesUp
      <4> QED BY <4>1, LiveOfNothing DEF live
    <3>2. CASE HeapSound(heap)
      BY <1>2, <3>2, InitialisedSound DEF GivesUp, live, HeapSound, BlocksSound
    <3> QED BY <3>1, <3>2 DEF IInv
  <2>2. running' = FALSE
    BY <1>2 DEF GivesUp, running
  <2> QED BY <1>0, <2>1, <2>2 DEF Abstract!Next, Abstract!Exit
<1>3. CASE Granted
  <2>1. PICK n \in AskedSizes, b \in Nat : Grants(Initialised(heap), heap', b, n) /\ status' = status
    BY <1>3 DEF Granted
  <2>2. HeapSound(Initialised(heap)) /\ Allocated(Initialised(heap)) = Allocated(heap)
    BY InitialisedSound DEF IInv
  <2>3. Live(Initialised(heap)) = Live(heap)
    <3>1. CASE heap = NoHeap
      BY <2>2, <3>1, NoHeapFacts, LiveOfNothing
    <3>2. CASE HeapSound(heap)
      BY <3>2, InitialisedSound DEF HeapSound, BlocksSound
    <3> QED BY <3>1, <3>2 DEF IInv
  <2>4. /\ Abstract!Placed(b + StructSize, n, live)
        /\ live' = Abstract!With(live, b + StructSize, n)
        /\ b + StructSize \in HeapBytes
    BY <2>1, <2>2, <2>3, GrantIsMalloc DEF live
  <2>5. n \in AskedSizes \ {0} /\ running' = running
    BY <2>1 DEF Grants, running
  <2>6. Abstract!Malloc
    BY <2>4, <2>5 DEF Abstract!Malloc
  <2> QED BY <1>0, <2>6 DEF Abstract!Next
<1>4. CASE Returned
  <2>1. PICK b \in Nat : HeapSound(heap) /\ TakesBack(heap, heap', b) /\ status' = status
    BY <1>4 DEF Returned
  <2>2. b + StructSize \in DOMAIN live /\ live' = Abstract!Without(live, b + StructSize)
    BY <2>1, TakeBackIsFree DEF live
  <2>3. Abstract!Free
    BY <2>1, <2>2 DEF Abstract!Free, running
  <2> QED BY <1>0, <2>3 DEF Abstract!Next
<1>5. CASE Moved
  <2>0. PICK n \in AskedSizes, b \in Nat, c \in Nat : \E g :
          /\ HeapSound(heap) /\ b \in Allocated(heap)
          /\ Grants(heap, g, c, n) /\ TakesBack(g, heap', b) /\ status' = status
    BY <1>5 DEF Moved
  <2>1. PICK g :
          /\ HeapSound(heap) /\ b \in Allocated(heap)
          /\ Grants(heap, g, c, n) /\ TakesBack(g, heap', b) /\ status' = status
    BY <2>0
  <2> DEFINE p == c + StructSize
             q == b + StructSize
  <2>2. /\ Abstract!Placed(p, n, live) /\ Live(g) = Abstract!With(live, p, n)
        /\ p \in HeapBytes
    BY <2>1, GrantIsMalloc DEF live
  <2>3. live' = Abstract!Without(Live(g), q)
    <3>1. HeapSound(g)
      BY <2>1 DEF Grants
    <3> QED BY <2>1, <3>1, TakeBackIsFree DEF live
  <2>4. q \in DOMAIN live /\ p # q
    <3>1. q \in LivePointers(heap)
      BY <2>1 DEF LivePointers
    <3>2. DOMAIN live = LivePointers(heap)
      BY LiveProperties DEF live
    <3> QED BY <2>2, <3>1, <3>2 DEF Abstract!Placed
  <2> HIDE DEF p, q
  <2>5. Abstract!Placed(p, n, Abstract!Without(live, q))
    BY <2>2 DEF Abstract!Placed, Abstract!Without
  <2>6. Abstract!Without(Abstract!With(live, p, n), q) = Abstract!With(Abstract!Without(live, q), p, n)
    BY <2>4 DEF Abstract!Without, Abstract!With
  <2>7. n \in AskedSizes \ {0} /\ running' = running
    BY <2>1 DEF Grants, running
  <2>8. Abstract!Realloc
    BY <2>2, <2>3, <2>4, <2>5, <2>6, <2>7 DEF Abstract!Realloc
  <2> QED BY <1>0, <2>8 DEF Abstract!Next
<1>6. ~Overran
  BY DEF Overran
<1> QED BY <1>1, <1>2, <1>3, <1>4, <1>5, <1>6, StepCases

\* When callers only grow blocks, heap_4.c is an allocator: every behaviour is
\* one of the abstract malloc, free and realloc, in which no call disturbs a live
\* region and each new one is disjoint from all of them.
THEOREM Refinement == ASSUME ~MayShrink PROVE Spec => ImplementsAllocator
<1>1. IInv /\ [Next]_vars => [Abstract!Next]_(Abstract!vars)
  BY StepRefines
<1> QED BY <1>1, InitRefines, InvariantHolds, PTL DEF Spec, ImplementsAllocator, Abstract!Spec
=============================================================================
