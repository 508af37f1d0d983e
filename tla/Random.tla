------------------------------- MODULE Random -------------------------------
(* The random numbers and the generated data of the benchmark,              *)
(* sqlite-bench/random.c: rand_init, rand_next and rand_gen_init.           *)
EXTENDS Naturals

CONSTANTS
  Bits,         \* 31: the modulus M is 2^Bits - 1
  A,            \* 16807, the multiplier
  Seeds,        \* the arguments of rand_init
  Cap,          \* 10 * 1024, the block of rand_gen_init
  PieceLen,     \* 100, the len of compressible_string
  Raws          \* the lengths of raw_data the compression ratios give

ASSUME RandomAssumption ==
  /\ 2^Bits \in Nat /\ A \in 1 .. (2^Bits - 2)
  /\ Seeds \subseteq Nat
  /\ Cap \in Nat /\ PieceLen \in Nat \ {0} /\ Raws \subseteq Nat \ {0}

VARIABLES
  seed,         \* seed_
  raw,          \* the length of raw_data
  size          \* data_size_, the length of the text in data_

randVars == <<seed, raw, size>>

M == 2^Bits - 1

\* 2^31 - 1 is a prime: the product of two numbers below it is no multiple of it.
ASSUME PrimeAssumption == \A s \in 1 .. (M - 1) : (s * A) % M # 0

\* A mutant: the bad seed M is let through.
SeededBadly(s) == LET low == s % 2^Bits IN IF low = 0 THEN 1 ELSE low

\* rand_init.
Seeded(s) == LET low == s % 2^Bits IN IF low = 0 \/ low = M THEN 1 ELSE low

\* A mutant: the carry is dropped.
FoldedHalf(product) == product % 2^Bits

\* (product >> 31) + (product & M)
Folded(product) == (product \div 2^Bits) + (product % 2^Bits)

\* rand_next.
NextSeed(s) == IF Folded(s * A) > M THEN Folded(s * A) - M ELSE Folded(s * A)

RandInit ==
  /\ seed \in {Seeded(s) : s \in Seeds}
  /\ raw \in Raws
  /\ size = 0

RandNext ==
  /\ seed' = NextSeed(seed)
  /\ UNCHANGED <<raw, size>>

\* A mutant: the loop goes on while pos <= len.
PieceOneMore == ((PieceLen + raw) \div raw) * raw

\* compressible_string appends whole copies of raw_data until it has PieceLen.
Piece == ((PieceLen + raw - 1) \div raw) * raw

\* One round of the loop of rand_gen_init; the numbers the text is made of are
\* those of RandNext.
Fill ==
  /\ size + PieceLen < Cap
  /\ size' = size + Piece
  /\ UNCHANGED <<seed, raw>>

RandStep == RandNext \/ Fill

RandSpec == RandInit /\ [][RandStep]_randVars
-----------------------------------------------------------------------------
\* The generator never meets 0 or M, from which it would not get away: each
\* number is one of 1 .. M - 1, for rand_uniform to take the remainder of.
SeedInRange == seed \in 1 .. (M - 1)

\* Nor does the shift and the one subtraction that stand for the division ever give
\* another number than the one that was meant, although the product and its folded
\* sum are larger than M.
NextIsProduct == SeedInRange /\ NextSeed(seed) = (seed * A) % M

\* The text stays within its block of Cap bytes, terminator included, when the
\* copies fill a piece exactly, as they do for the ratio 0.5; for any other ratio
\* a piece is longer than the block of PieceLen + 1 bytes it is put together in.
DataFits ==
  /\ PieceLen % raw = 0 <=> Piece = PieceLen
  /\ PieceLen % raw = 0 /\ Cap > 0 => size < Cap
=============================================================================
