----------------------------- MODULE PureProofs -----------------------------
(* Two of the parts that share nothing.  rand_next divides by M with a shift, *)
(* a sum and a subtraction; the name of a temporary file is right for any     *)
(* list of directories and any buffer.                                        *)
EXTENDS Random, TempName, SequenceTheorems, TLAPS

(* random.c *)

LEMMA Division ==
  ASSUME NEW W \in Nat \ {0}, NEW p \in Nat
  PROVE  /\ p \div W \in Nat /\ p % W \in 0 .. (W - 1)
         /\ p = (W * (p \div W)) + (p % W)
OBVIOUS

LEMMA RemainderUnique ==
  ASSUME NEW m \in Nat \ {0}, NEW q \in Nat, NEW r \in 0 .. (m - 1)
  PROVE  ((m * q) + r) % m = r
OBVIOUS

LEMMA Fold ==
  ASSUME NEW W \in Nat, W >= 2, NEW p \in Nat
  PROVE  p = ((W - 1) * (p \div W)) + ((p \div W) + (p % W))
<1>1. PICK q \in Nat, r \in Nat : q = p \div W /\ r = p % W /\ p = (W * q) + r
  BY Division
<1>2. (W * q) + r = ((W - 1) * q) + (q + r)
  OBVIOUS
<1> QED BY <1>1, <1>2

\* The quotient of a product of two numbers below the modulus is below it too.
LEMMA QuotientSmall ==
  ASSUME NEW W \in Nat, W >= 3, NEW s \in 1 .. (W - 2), NEW a \in 1 .. (W - 2)
  PROVE  (s * a) \div W < W - 2
<1>1. s * a \in Nat /\ s * a <= (W - 2) * (W - 2)
  OBVIOUS
<1>2. PICK q \in Nat, r \in Nat : q = (s * a) \div W /\ s * a = (W * q) + r
  BY <1>1, Division
<1>3. ASSUME q >= W - 2 PROVE FALSE
  <2>1. W * q >= W * (W - 2)
    BY <1>3
  <2>2. W * (W - 2) > (W - 2) * (W - 2)
    OBVIOUS
  <2> QED BY <1>1, <1>2, <2>1, <2>2
<1> QED BY <1>2, <1>3

LEMMA QuotientUnique ==
  ASSUME NEW m \in Nat \ {0}, NEW q \in Nat, NEW r \in 0 .. (m - 1)
  PROVE  ((m * q) + r) \div m = q
OBVIOUS

\* The sum of the two parts is below twice the modulus, so one subtraction makes it
\* the remainder, unless it is the modulus itself.
LEMMA FoldIsRemainder ==
  ASSUME NEW W \in Nat, W >= 3, NEW s \in 1 .. (W - 2), NEW a \in 1 .. (W - 2),
         NEW f, f = ((s * a) \div W) + ((s * a) % W),
         (s * a) % (W - 1) # 0
  PROVE  /\ (IF f > W - 1 THEN f - (W - 1) ELSE f) = (s * a) % (W - 1)
         /\ (s * a) % (W - 1) \in 1 .. (W - 2)
<1>0. W \in Nat \ {0} /\ W >= 2
  OBVIOUS
<1>1. PICK p \in Nat : p = s * a
  OBVIOUS
<1>2. p \div W \in Nat /\ p % W \in 0 .. (W - 1)
  BY <1>0, Division
<1>3. p \div W < W - 2
  BY <1>1, QuotientSmall
<1>4. p = ((W - 1) * (p \div W)) + ((p \div W) + (p % W))
  BY <1>0, Fold
<1> PICK q \in Nat, r \in 0 .. (W - 1) : q = p \div W /\ r = p % W
  BY <1>2
<1> PICK m \in Nat \ {0} : m = W - 1
  BY <1>0
<1>5. f = q + r /\ f \in Nat /\ f < 2 * m /\ p = (m * q) + f
  BY <1>1, <1>3, <1>4
<1>6. CASE f < m
  <2>1. f \in 0 .. (m - 1)
    BY <1>5, <1>6
  <2>2. ((m * q) + f) % m = f
    BY <2>1, RemainderUnique
  <2>3. p % m = f
    BY <1>5, <2>2
  <2> QED BY <1>1, <1>5, <1>6, <2>3
<1>7. CASE f >= m
  <2>1. PICK g \in 0 .. (m - 1) : f = m + g
    <3>1. f - m \in 0 .. (m - 1) /\ f = m + (f - m)
      BY <1>5, <1>7
    <3> QED BY <3>1
  <2>2. p = (m * (q + 1)) + g /\ q + 1 \in Nat
    <3>1. m * (q + 1) = (m * q) + m
      OBVIOUS
    <3>2. p = (m * q) + (m + g)
      BY <1>5, <2>1
    <3>3. ASSUME NEW x \in Nat, NEW y \in Nat, p = x + (m + g), y = x + m PROVE p = y + g
      BY <3>3
    <3> QED BY <3>1, <3>2, <3>3
  <2>3. p % m = g
    BY <2>2, RemainderUnique
  <2>4. g # 0
    BY <1>1, <2>3
  <2>5. f - m = g /\ (f > m) /\ g \in 1 .. (W - 2)
    BY <2>1, <2>4
  <2> QED BY <1>1, <2>3, <2>5
<1> QED BY <1>5, <1>6, <1>7

LEMMA Width == 2^Bits \in Nat /\ 2^Bits >= 3 /\ A \in 1 .. (2^Bits - 2)
BY RandomAssumption

\* rand_next gives the product modulo M.
LEMMA NextIsRemainder ==
  ASSUME NEW s \in 1 .. (M - 1)
  PROVE  NextSeed(s) = (s * A) % M /\ NextSeed(s) \in 1 .. (M - 1)
<1> DEFINE W == 2^Bits
<1>1. W \in Nat /\ W >= 3 /\ A \in 1 .. (W - 2) /\ M = W - 1 /\ s \in 1 .. (W - 2)
  BY Width DEF M
<1>2. (s * A) % (W - 1) # 0
  BY <1>1, PrimeAssumption
<1>3. NextSeed(s) = IF Folded(s * A) > W - 1 THEN Folded(s * A) - (W - 1) ELSE Folded(s * A)
  BY <1>1 DEF NextSeed
<1>4. Folded(s * A) = ((s * A) \div W) + ((s * A) % W)
  BY DEF Folded
<1> PICK f : f = Folded(s * A)
  OBVIOUS
<1> HIDE DEF W
<1>5. /\ (IF f > W - 1 THEN f - (W - 1) ELSE f) = (s * A) % (W - 1)
      /\ (s * A) % (W - 1) \in 1 .. (W - 2)
  BY <1>1, <1>2, <1>4, FoldIsRemainder, ZenonT(40)
<1> QED BY <1>1, <1>3, <1>5

LEMMA SeededInRange ==
  ASSUME NEW s \in Nat
  PROVE  Seeded(s) \in 1 .. (M - 1)
<1> DEFINE W == 2^Bits
<1>1. W \in Nat \ {0} /\ W >= 3 /\ M = W - 1
  BY Width DEF M
<1>2. s % W \in 0 .. (W - 1)
  BY <1>1, Division
<1>3. Seeded(s) = IF s % W = 0 \/ s % W = M THEN 1 ELSE s % W
  BY DEF Seeded
<1> HIDE DEF W
<1> QED BY <1>1, <1>2, <1>3

\* For every width, multiplier and seed: the generator stays in 1 .. M - 1.
THEOREM SeedsInRange == RandSpec => []SeedInRange
<1>1. RandInit => SeedInRange
  BY SeededInRange, RandomAssumption DEF RandInit, SeedInRange
<1>2. SeedInRange /\ [RandStep]_randVars => SeedInRange'
  BY NextIsRemainder DEF SeedInRange, RandStep, RandNext, Fill, randVars
<1> QED BY <1>1, <1>2, PTL DEF RandSpec

\* And every number is the product it stands for modulo M.
THEOREM NextIsTheProduct == RandSpec => []NextIsProduct
<1>1. SeedInRange => NextIsProduct
  BY NextIsRemainder DEF SeedInRange, NextIsProduct
<1> QED BY <1>1, SeedsInRange, PTL

LEMMA PieceExact ==
  ASSUME NEW n \in Nat \ {0}, NEW m \in Nat \ {0}
  PROVE  n % m = 0 <=> ((n + m - 1) \div m) * m = n
<1>1. PICK q \in Nat, r \in 0 .. (m - 1) : r = n % m /\ n = (m * q) + r
  BY Division
<1>2. CASE r = 0
  <2>1. n + m - 1 = (m * q) + (m - 1)
    BY <1>1, <1>2
  <2>2. (n + m - 1) \div m = q
    BY <2>1, QuotientUnique
  <2> QED BY <1>1, <1>2, <2>2
<1>3. CASE r # 0
  <2>1. n + m - 1 = (m * (q + 1)) + (r - 1) /\ r - 1 \in 0 .. (m - 1)
    BY <1>1, <1>3
  <2>2. (n + m - 1) \div m = q + 1
    BY <2>1, QuotientUnique
  <2>3. (q + 1) * m = (m * q) + m
    OBVIOUS
  <2> QED BY <1>1, <1>3, <2>2, <2>3
<1> QED BY <1>2, <1>3

\* For every block, piece and ratio: a piece is as long as it should be exactly when
\* the copies fill it, and then the text stays within the block.
THEOREM DataAlwaysFits == RandSpec => []DataFits
<1> DEFINE Inv == raw \in Raws /\ size \in Nat /\ DataFits
<1> USE RandomAssumption
<1>1. ASSUME raw \in Raws PROVE PieceLen % raw = 0 <=> Piece = PieceLen
  BY <1>1, PieceExact DEF Piece
<1>2. RandInit => Inv
  BY <1>1 DEF RandInit, DataFits
<1>3. Inv /\ [RandStep]_randVars => Inv'
  <2> SUFFICES ASSUME Inv, [RandStep]_randVars PROVE Inv'
    OBVIOUS
  <2>1. raw' = raw /\ (size' = size \/ (size + PieceLen < Cap /\ size' = size + Piece))
    BY DEF RandStep, RandNext, Fill, randVars
  <2>2. Piece \in Nat /\ Piece' = Piece
    <3>1. PieceLen + raw - 1 \in Nat /\ raw \in Nat \ {0}
      OBVIOUS
    <3>2. (PieceLen + raw - 1) \div raw \in Nat
      BY <3>1, Division
    <3> QED BY <2>1, <3>1, <3>2 DEF Piece
  <2> QED BY <2>1, <2>2 DEF DataFits
<1>4. Inv => DataFits
  OBVIOUS
<1> HIDE DEF Inv
<1> QED BY <1>2, <1>3, <1>4, PTL DEF RandSpec
-----------------------------------------------------------------------------
(* The name of a temporary file. *)

\* The list as win_temp_file_dir builds it: only its first and last places may be
\* null, and the null pointer is no directory that can be used.
WellFormed ==
  /\ azDirs \in Seq(Dirs \cup {NoDir})
  /\ Len(azDirs) \in Nat \ {0} /\ azDirs[Len(azDirs)] = NoDir
  /\ usable \subseteq Dirs
  /\ k \in 0 .. Len(azDirs)

\* zDir is the path before i, and none of those before it can be used.
Behind ==
  /\ k = 0 => zDir = NoDir
  /\ k > 0 => zDir = azDirs[k]
  /\ \A i \in 1 .. (k - 1) : azDirs[i] \notin usable
  /\ name.at # "search" => k = Len(azDirs) \/ (zDir # NoDir /\ zDir \in usable)

SearchInv == WellFormed /\ Behind

LEMMA NoDirUnusable == NoDir \notin Dirs
BY TempAssumption DEF Dirs

LEMMA InitInvariant == TempInit => SearchInv
<1> SUFFICES ASSUME TempInit PROVE SearchInv
  OBVIOUS
<1>1. PICK given \in Given : azDirs = <<given>> \o Listed \o <<NoDir>>
  BY DEF TempInit
<1> DEFINE D == Dirs \cup {NoDir}
<1>2. given \in D
  BY DEF Dirs
<1>3. <<given>> \in Seq(D) /\ Listed \in Seq(D) /\ <<NoDir>> \in Seq(D)
  BY <1>2, TempAssumption
<1> HIDE DEF D
<1>4. PICK s \in Seq(D) : s = <<given>> \o Listed
  <2>1. <<given>> \o Listed \in Seq(D)
    BY <1>3, ConcatProperties, Zenon
  <2> QED BY <2>1
<1>5. azDirs = s \o <<NoDir>>
  BY <1>1, <1>4
<1>6. azDirs \in Seq(D) /\ Len(azDirs) = Len(s) + 1 /\ azDirs[Len(s) + 1] = NoDir
  BY <1>3, <1>4, <1>5
<1>7. Len(s) \in Nat
  BY <1>4
<1> QED BY <1>6, <1>7 DEF TempInit, SearchInv, WellFormed, Behind, D

LEMMA SearchStep ==
  ASSUME SearchInv, Search
  PROVE  SearchInv'
<1>1. azDirs' = azDirs /\ usable' = usable /\ name.at = "search"
  BY DEF Search
<1>2. PICK len \in Nat \ {0} : len = Len(azDirs) /\ k \in 0 .. len
  BY DEF SearchInv, WellFormed
<1>3. CASE k < Len(azDirs) /\ (zDir = NoDir \/ zDir \notin usable)
  <2>1. zDir' = azDirs[k + 1] /\ k' = k + 1 /\ name' = name
    BY <1>3 DEF Search
  <2>2. k > 0 => azDirs[k] \notin usable
    BY <1>3, NoDirUnusable DEF SearchInv, WellFormed, Behind
  <2>3. ASSUME NEW i \in 1 .. (k' - 1)
        PROVE  azDirs[i] \notin usable
    <3>1. i \in 1 .. (k - 1) \/ (i = k /\ k > 0)
      BY <1>2, <2>1
    <3> QED BY <2>2, <3>1 DEF SearchInv, Behind
  <2>4. WellFormed'
    BY <1>1, <1>2, <1>3, <2>1 DEF SearchInv, WellFormed
  <2>5. k' > 0 /\ k' # 0
    BY <1>2, <2>1
  <2> QED BY <1>1, <2>1, <2>3, <2>4, <2>5 DEF SearchInv, Behind
<1>4. CASE ~(k < Len(azDirs) /\ (zDir = NoDir \/ zDir \notin usable))
  <2>1. UNCHANGED <<k, zDir>>
    BY <1>4 DEF Search
  <2>2. k = Len(azDirs) \/ (zDir # NoDir /\ zDir \in usable)
    BY <1>2, <1>4
  <2> QED BY <1>1, <2>1, <2>2 DEF SearchInv, WellFormed, Behind
<1> QED BY <1>3, <1>4

LEMMA StepInvariant == SearchInv /\ [TempStep]_tempVars => SearchInv'
<1> SUFFICES ASSUME SearchInv, [TempStep]_tempVars PROVE SearchInv'
  OBVIOUS
<1>1. CASE UNCHANGED tempVars
  BY <1>1 DEF tempVars, SearchInv, WellFormed, Behind
<1>2. CASE Search
  BY <1>2, SearchStep
<1>3. ASSUME NEW buf \in BufLens, MakeName(buf)
      PROVE  SearchInv'
  BY <1>3 DEF MakeName, SearchInv, WellFormed, Behind
<1> QED BY <1>1, <1>2, <1>3 DEF TempStep

\* The loop of win_temp_file_dir, whose step runs before its body, still finds the
\* first directory of the list that can be used, however the list is filled.
THEOREM SearchFindsFirst == TempSpec => []FirstUsable
<1>1. SearchInv => FirstUsable
  <2> SUFFICES ASSUME SearchInv, name.at # "search" PROVE FirstUsable
    BY DEF FirstUsable
  <2>1. /\ DOMAIN azDirs = 1 .. Len(azDirs) /\ Len(azDirs) \in Nat \ {0}
        /\ k \in 0 .. Len(azDirs)
    BY DEF SearchInv, WellFormed
  <2>2. CASE zDir # NoDir /\ zDir \in usable
    <3>1. k \in DOMAIN azDirs /\ azDirs[k] = zDir
      <4>1. k # 0
        BY <2>2 DEF SearchInv, Behind
      <4>2. k > 0
        BY <2>1, <4>1
      <4>3. zDir = azDirs[k]
        BY <4>2 DEF SearchInv, Behind
      <4>4. k \in DOMAIN azDirs
        BY <2>1, <4>2
      <4> QED BY <4>3, <4>4
    <3> QED BY <2>2, <3>1 DEF FirstUsable, SearchInv, Behind
  <2>3. CASE k = Len(azDirs)
    <3>1. k > 0 /\ zDir = NoDir /\ NoDir \notin usable
      BY <2>1, <2>3, NoDirUnusable DEF SearchInv, WellFormed, Behind
    <3>2. \A i \in DOMAIN azDirs : i \in 1 .. (k - 1) \/ i = k
      BY <2>1, <2>3
    <3>3. \A i \in DOMAIN azDirs : azDirs[i] \notin usable
      BY <2>3, <3>1, <3>2 DEF SearchInv, WellFormed, Behind
    <3> QED BY <3>1, <3>3 DEF FirstUsable
  <2> QED BY <2>2, <2>3 DEF SearchInv, Behind
<1> QED BY <1>1, InitInvariant, StepInvariant, PTL DEF TempSpec

\* For any buffer, path and prefix: the room quec_get_temp_name asks for is enough
\* for both terminators, and sqlite3_snprintf cuts at most one letter off.
THEOREM NamesFit == TempSpec => []NameFits
<1>1. TempInit => NameFits
  BY DEF TempInit, NameFits
<1>2. ASSUME SearchInv, NameFits, [TempStep]_tempVars
      PROVE  NameFits'
  <2>1. CASE UNCHANGED tempVars
    BY <1>2, <2>1 DEF tempVars, NameFits, Dir
  <2>2. CASE Search
    <3>1. name.at = "search" /\ (name' = name \/ name' = [name EXCEPT !.at = "found"])
      BY <2>2 DEF Search
    <3>2. CASE name' = name
      BY <3>1, <3>2 DEF NameFits
    <3>3. CASE name' = [name EXCEPT !.at = "found"]
      <4>1. name'.at # "made"
        BY <3>1, <3>3
      <4> QED BY <4>1 DEF NameFits
    <3> QED BY <3>1, <3>2, <3>3
  <2>3. ASSUME NEW buf \in BufLens, MakeName(buf)
        PROVE  NameFits'
    <3>1. Dir' = Dir /\ Dir \in Dirs
      <4>1. zDir = NoDir \/ zDir \in Dirs
        BY <1>2 DEF SearchInv, WellFormed, Behind
      <4> QED BY <2>3, <4>1 DEF MakeName, Dir, Dirs
    <3>2. buf \in Nat /\ DirLen[Dir] \in Nat /\ PrefixLen \in Nat
      BY <3>1, TempAssumption
    <3> DEFINE printed == DirLen[Dir] + 1 + PrefixLen
               room == buf - 18 - 1
    <3>3. CASE NoRoom(buf)
      <4>1. name' = [name EXCEPT !.at = "error", !.buf = buf] /\ name.at = "found"
        BY <2>3, <3>3 DEF MakeName
      <4>2. name'.at # "made"
        BY <4>1
      <4> QED BY <4>2 DEF NameFits
    <3>4. CASE ~NoRoom(buf)
      <4>1. name' = [at |-> "made", buf |-> buf,
                     len |-> (IF printed <= room THEN printed ELSE room) + 15 + 2]
        BY <2>3, <3>4 DEF MakeName
      <4>2. DirLen[Dir] + PrefixLen + 18 < buf
        BY <3>2, <3>4 DEF NoRoom
      <4> HIDE DEF printed, room
      <4>3. name'.len = (IF printed <= room THEN printed ELSE room) + 15 + 2 /\ name'.buf = buf
        BY <4>1
      <4>4. name'.len <= buf /\ name'.len + 1 >= DirLen[Dir] + 1 + PrefixLen + 17
        BY <3>2, <4>2, <4>3 DEF printed, room
      <4> QED BY <3>1, <4>3, <4>4 DEF NameFits
    <3> QED BY <3>3, <3>4
  <2> QED BY <1>2, <2>1, <2>2, <2>3 DEF TempStep
<1> QED BY <1>1, <1>2, InitInvariant, StepInvariant, PTL DEF TempSpec

\* The two together: the directory and the name are right for every list of paths,
\* whatever their lengths and the buffer's.
THEOREM NamesAreRight == TempSpec => []NameIsRight
<1> QED BY SearchFindsFirst, NamesFit, PTL DEF NameIsRight
=============================================================================
