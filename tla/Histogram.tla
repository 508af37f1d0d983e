----------------------------- MODULE Histogram -----------------------------
(***************************************************************************)
(* sqlite-bench/histogram.c: counts of values in buckets, the median that  *)
(* is estimated from them, and the text that shows them.  The doubles of   *)
(* the code are integers here; the median is a fraction.  The text is its  *)
(* length, next to the size of the block it is in.                         *)
(***************************************************************************)
EXTENDS Naturals, Sequences, FiniteSets

CONSTANTS
  Limits,       \* bucket_limit, increasing; the last is larger than any value
  Values,       \* the values that are added
  MaxValues,    \* bound on how many
  FirstSize,    \* 1024: the first block of the text
  Lines,        \* lengths of what is printed into buf, less than its 200 bytes
  DashesLen,    \* 55, the line of dashes
  Marks         \* numbers of hash marks, at most 20

ASSUME HistogramAssumption ==
  /\ Limits \in Seq(Nat) /\ Limits # << >>
  /\ \A b, c \in DOMAIN Limits : b < c => Limits[b] < Limits[c]
  /\ Values \subseteq Nat /\ \A v \in Values : v < Limits[Len(Limits)]
  /\ Lines \subseteq Nat /\ Marks \subseteq Nat

\* The two lines in front and the dashes fit the first block, and so do the marks.
ASSUME TextAssumption ==
  /\ FirstSize \in Nat /\ DashesLen \in Nat
  /\ \A a, b \in Lines : a + b + DashesLen <= FirstSize
  /\ \A marks \in Marks : marks + 1 <= FirstSize

Hists == {"hist", "other"}

VARIABLES
  hist,         \* the two histograms of histogram_merge
  added,        \* for each the values it has been given
  text          \* histogram_to_string: how far it is, length and block of r

histVars == <<hist, added, text>>

Buckets == DOMAIN Limits
Empty == [min |-> Limits[Len(Limits)], max |-> 0, num |-> 0, sum |-> 0, squares |-> 0,
          buckets |-> [b \in Buckets |-> 0]]
Least(a, b) == IF a < b THEN a ELSE b
Most(a, b) == IF a < b THEN b ELSE a

HistInit ==
  /\ hist = [h \in Hists |-> Empty]
  /\ added = [h \in Hists |-> << >>]
  /\ text = [at |-> 0, len |-> 0, size |-> FirstSize, line |-> 0]

\* A mutant: a value that is a limit goes to the bucket below it.
BucketBelow(v) == CHOOSE b \in Buckets : v <= Limits[b] /\ \A c \in 1 .. (b - 1) : Limits[c] < v

\* The first bucket whose limit is larger than the value.
BucketOf(v) == CHOOSE b \in Buckets : v < Limits[b] /\ \A c \in 1 .. (b - 1) : Limits[c] <= v

With(a, v) ==
  [min |-> Least(a.min, v), max |-> Most(a.max, v), num |-> a.num + 1, sum |-> a.sum + v,
   squares |-> a.squares + v * v, buckets |-> [a.buckets EXCEPT ![BucketOf(v)] = @ + 1]]

HistogramAdd(h, v) ==
  /\ Len(added["hist"]) + Len(added["other"]) < MaxValues
  /\ hist' = [hist EXCEPT ![h] = With(@, v)]
  /\ added' = [added EXCEPT ![h] = Append(@, v)]
  /\ UNCHANGED text

Merged(a, o) ==
  [min |-> Least(a.min, o.min), max |-> Most(a.max, o.max), num |-> a.num + o.num,
   sum |-> a.sum + o.sum, squares |-> a.squares + o.squares,
   buckets |-> [b \in Buckets |-> a.buckets[b] + o.buckets[b]]]

HistogramMerge ==
  /\ Len(added["hist"]) + 2 * Len(added["other"]) <= MaxValues
  /\ hist' = [hist EXCEPT !["hist"] = Merged(@, hist["other"])]
  /\ added' = [added EXCEPT !["hist"] = @ \o added["other"]]
  /\ UNCHANGED text

HistogramClear(h) ==
  /\ hist' = [hist EXCEPT ![h] = Empty]
  /\ added' = [added EXCEPT ![h] = << >>]
  /\ UNCHANGED text
-----------------------------------------------------------------------------
(* percentile(hist, 50), for a histogram with a value in it.  *)

SumTo(f, b) == LET s[c \in 0 .. b] == IF c = 0 THEN 0 ELSE s[c - 1] + f[c] IN s[b]

\* A mutant: the bucket is the one where the sum is past the threshold.
MedianBucketPast(h) ==
  CHOOSE b \in Buckets : /\ 2 * SumTo(h.buckets, b) > h.num
                         /\ \A c \in 1 .. (b - 1) : 2 * SumTo(h.buckets, c) <= h.num

\* The first bucket where the sum reaches half of the values.
MedianBucket(h) ==
  CHOOSE b \in Buckets : /\ 2 * SumTo(h.buckets, b) >= h.num
                         /\ \A c \in 1 .. (b - 1) : 2 * SumTo(h.buckets, c) < h.num

Left(b) == IF b = 1 THEN 0 ELSE Limits[b - 1]

\* Linear within the bucket, then not below min nor above max: r = num / den.
Median(h) ==
  LET b == MedianBucket(h)
      den == 2 * h.buckets[b]
      num == Left(b) * den + (Limits[b] - Left(b)) * (h.num - 2 * SumTo(h.buckets, b - 1))
  IN [num |-> IF num < h.min * den THEN h.min * den
              ELSE IF num > h.max * den THEN h.max * den ELSE num,
      den |-> den]
-----------------------------------------------------------------------------
(* histogram_to_string: two lines, the dashes, and a line and marks for each  *)
(* bucket that is not empty.                                                   *)

\* A mutant: the block grows when the text has outgrown it.
GrownLate(more) == IF text.size < text.len THEN 2 * text.size ELSE text.size

\* The block is made twice as large when two strings are longer than it; the byte
\* for the terminator is not counted.
Grown(more) == IF text.size < text.len + more THEN 2 * text.size ELSE text.size

Shown(more) ==
  text' = [at |-> text.at + 1, len |-> text.len + more, size |-> Grown(more), line |-> more]

\* Before the dashes the room is that of the line printed last.
PrintDashes ==
  /\ text.at = 2
  /\ text' = [text EXCEPT !.at = 3, !.len = @ + DashesLen, !.size = Grown(text.line)]

PrintLine ==
  /\ text.at \in {0, 1} \/ (text.at > 2 /\ text.at % 2 = 1 /\ text.at < 3 + 2 * Len(Limits))
  /\ \E line \in Lines : Shown(line)

PrintMarks ==
  /\ text.at > 2 /\ text.at % 2 = 0
  /\ \E marks \in Marks : Shown(marks + 1)

HistogramToString ==
  (PrintLine \/ PrintDashes \/ PrintMarks) /\ UNCHANGED <<hist, added>>

HistStep ==
  \/ \E h \in Hists : HistogramClear(h) \/ \E v \in Values : HistogramAdd(h, v)
  \/ HistogramMerge

HistSpec == HistInit /\ [][HistStep \/ HistogramToString]_histVars
-----------------------------------------------------------------------------
\* Adding, merging and clearing in any order leave the same as counting all the
\* values at once.
Count(s, P(_)) == Cardinality({i \in DOMAIN s : P(s[i])})
IsOf(h, s) ==
  /\ h.num = Len(s) /\ h.sum = SumTo(s, Len(s))
  /\ h.squares = SumTo([i \in DOMAIN s |-> s[i] * s[i]], Len(s))
  /\ \A b \in Buckets : h.buckets[b] = Count(s, LAMBDA v : Left(b) <= v /\ v < Limits[b])
  /\ s # << >> => /\ \E i \in DOMAIN s : s[i] = h.min /\ \A k \in DOMAIN s : h.min <= s[k]
                  /\ \E i \in DOMAIN s : s[i] = h.max /\ \A k \in DOMAIN s : s[k] <= h.max
CountsValues == \A h \in Hists : IsOf(hist[h], added[h])

\* The median that is printed lies between the smallest and the largest value, no
\* further from the true one than the bucket of that is wide, and the division that
\* finds it is never one by zero.
TrueMedian(s) ==
  CHOOSE v \in {s[i] : i \in DOMAIN s} :
    /\ 2 * Count(s, LAMBDA w : w <= v) >= Len(s)
    /\ 2 * Count(s, LAMBDA w : w < v) < Len(s)
MedianIsNear ==
  \A h \in Hists : added[h] # << >> =>
    LET r == Median(hist[h])
        b == BucketOf(TrueMedian(added[h]))
    IN /\ r.den > 0
       /\ hist[h].min * r.den <= r.num /\ r.num <= hist[h].max * r.den
       /\ Left(b) * r.den <= r.num /\ r.num <= Limits[b] * r.den

\* However long the lines are, the text is never longer than its block: what lies
\* beyond it is at most the terminator.
TextFits == text.len <= text.size
=============================================================================
