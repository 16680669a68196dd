----------------------------- MODULE Histogram ------------------------------
(* math/histogram.h over the linear_scale of math/scale.h, for scales whose   *)
(* step the code's floats hold exactly. Two histograms are filled, scaled anew *)
(* and added up; find_partitions places quantiles on the scale.               *)
EXTENDS Integers, FiniteSetsExt

CONSTANTS
  Scales,       \* [near, far, samples]
  Samples,      \* what is added
  Precision,    \* bits of a float's significand, 24
  Convertible,  \* greatest quotient that static_cast<int> converts, some 2^31
  MaxTotal      \* bound on what a histogram holds

\* The constructor throws for a scale that does not end after it begins; one
\* without samples takes none. The step is a power of two, so that it and the
\* factor, its inverse, are floats, and the range fits a float: with another
\* scale the floats of the code round, which is not modelled.
ASSUME ScalesAssumption ==
  /\ Scales \subseteq [near : Int, far : Int, samples : Nat \ {0}]
  /\ \A s \in Scales :
       /\ s.near < s.far /\ s.samples <= Convertible
       /\ s.samples > 1 => \E e \in 0..(Precision - 1) :
            /\ 2^e \in Nat \ {0} /\ s.far - s.near = 2^e * (s.samples - 1)
            /\ s.far - s.near + 2^e <= 2^Precision
ASSUME SamplesAssumption == Samples \subseteq Int /\ MaxTotal \in Nat /\ Convertible \in Nat

VARIABLES
  histograms,   \* two of them: [scale, bins], bins from 0
  added         \* per histogram: what was added to it since it took its scale

histogramVars == <<histograms, added>>

Quotient(a, b) == IF a >= 0 THEN a \div b ELSE -((-a) \div b)
Clamped(k, samples) == IF k < 0 THEN 0 ELSE IF k > samples - 1 THEN samples - 1 ELSE k

Step(s) == (s.far - s.near) \div (s.samples - 1)

\* linear_scale::operator []. With one sample the step is left uninitialized; what
\* is stated of quantiles is about scales with more.
At(s, index) == IF s.samples = 1 THEN s.near ELSE s.near + Step(s) * index

\* linear_scale::operator (): the base lies half a step below the near value. Far
\* above the scale the quotient does not fit an int and its conversion is undefined:
\* builds make it the least int or the greatest one.
Indices(s, value) ==
  LET quotient == Quotient(value - (s.near - Step(s) \div 2), Step(s))
  IN  IF s.samples = 1 THEN {0}
      ELSE IF quotient > Convertible THEN {0, s.samples - 1} ELSE {Clamped(quotient, s.samples)}

Empty(s) == [scale |-> s, bins |-> [k \in 0..(s.samples - 1) |-> 0]]

\* How many samples there are up to each bin, and in all.
Sums(bins) ==
  LET upto[k \in DOMAIN bins] == IF k = 0 THEN bins[k] ELSE upto[k - 1] + bins[k] IN upto
Total(h) == Sums(h.bins)[h.scale.samples - 1]

-----------------------------------------------------------------------------
\* Mutant: the bin before, empty or not.
PreviousBin(d, i, j) == i

\* The last bin that is not empty.
LastFull(d, i, j) == IF d # 0 THEN i ELSE j

\* The midvalues up to a limit that are not placed yet take the places given.
Upto(placed, mids, limit, Location(_)) ==
  [m \in DOMAIN placed \cup {q \in mids : q <= limit} |-> IF m \in DOMAIN placed THEN placed[m] ELSE Location(m)]

\* One round of find_partitions' loop over the bins, which keeps the last bin that
\* is not empty, the sum up to it and what is placed.
Round(h, mids, acc, i) ==
  LET d == h.bins[i]
      previous == At(h.scale, acc.j)
  IN  [j |-> LastFull(d, i, acc.j), sum |-> acc.sum + d,
       placed |-> Upto(acc.placed, mids, acc.sum + d,
          LAMBDA m : previous + Quotient((At(h.scale, i) - previous) * (m - acc.sum), d))]

\* find_partitions places midvalues, in ascending order, from the first bin that is
\* not empty on; those that are left are placed at the last one.
Placed(h, mids) ==
  LET n == h.scale.samples
      starts == {k \in 0..(n - 2) : h.bins[k] # 0}
      j0 == IF starts = {} THEN n - 1 ELSE Min(starts)
      sum0 == IF starts = {} THEN 0 ELSE h.bins[j0]
      after[i \in j0..(n - 1)] ==
        IF i = j0
        THEN [j |-> j0, sum |-> sum0, placed |-> Upto(<< >>, mids, sum0, LAMBDA m : At(h.scale, j0))]
        ELSE Round(h, mids, after[i - 1], i)
      end == after[n - 1]
  IN  Upto(end.placed, mids, MaxTotal, LAMBDA m : At(h.scale, end.j))

HistogramInit ==
  /\ histograms \in [1..2 -> {Empty(s) : s \in Scales}]
  /\ added = <<0, 0>>

set_scale(k, s) ==
  /\ histograms' = [histograms EXCEPT ![k] = Empty(s)]
  /\ added' = [added EXCEPT ![k] = 0]

add_value(k, value) ==
  /\ Total(histograms[k]) < MaxTotal
  /\ \E i \in Indices(histograms[k].scale, value) : histograms' = [histograms EXCEPT ![k].bins[i] = @ + 1]
  /\ added' = [added EXCEPT ![k] = @ + 1]

\* operator +=: another scale replaces what was there.
AddUp(lhs, rhs) ==
  IF lhs.scale # rhs.scale THEN rhs
  ELSE [lhs EXCEPT !.bins = [k \in DOMAIN lhs.bins |-> lhs.bins[k] + rhs.bins[k]]]

merge(k) ==
  LET other == histograms[3 - k] IN
  /\ Total(histograms[k]) + Total(other) <= MaxTotal
  /\ histograms' = [histograms EXCEPT ![k] = AddUp(@, other)]
  /\ added' = [added EXCEPT ![k] = added[3 - k] + IF histograms[k].scale = other.scale THEN @ ELSE 0]

reset(k) ==
  /\ histograms' = [histograms EXCEPT ![k].bins = [i \in DOMAIN @ |-> 0]]
  /\ added' = [added EXCEPT ![k] = 0]

HistogramNext ==
  \/ \E k \in 1..2, s \in Scales : set_scale(k, s)
  \/ \E k \in 1..2, v \in Samples : add_value(k, v)
  \/ \E k \in 1..2 : merge(k)
  \/ \E k \in 1..2 : reset(k)

HistogramSpec == HistogramInit /\ [][HistogramNext]_histogramVars

-----------------------------------------------------------------------------
Distance(a, b) == IF a >= b THEN a - b ELSE b - a

\* What was added is there, in one of the bins; and a value on the scale is put into
\* the bin whose sample is the nearest one.
SamplesKept ==
  \A k \in 1..2 :
    LET h == histograms[k]
        s == h.scale
    IN  /\ DOMAIN h.bins = 0..(s.samples - 1) /\ Total(h) = added[k]
        /\ \A v \in Samples \cap s.near..s.far : s.samples > 1 =>
             \A i \in Indices(s, v), j \in DOMAIN h.bins : Distance(v, At(s, i)) <= Distance(v, At(s, j))

\* The reference for a quantile: on the line between the samples of the two bins
\* that are not empty and between which it falls.
Quantile(h, m) ==
  LET full == {k \in DOMAIN h.bins : h.bins[k] # 0}
      upto == Sums(h.bins)
      over == {k \in full : m <= upto[k]}
      i == Min(over)
      below == {k \in full : k < i}
      from == At(h.scale, Max(below))
  IN  IF full = {} THEN h.scale.far
      ELSE IF over = {} THEN At(h.scale, Max(full))
      ELSE IF below = {} THEN At(h.scale, i)
      ELSE from + Quotient((At(h.scale, i) - from) * (m - upto[Max(below)]), h.bins[i])

\* The loop of find_partitions, with its empty bins, its first and its last bin,
\* finds each quantile where the reference says it is.
QuantilesPlaced ==
  \A k \in 1..2 : histograms[k].scale.samples > 1 =>
    \A m \in 0..MaxTotal : Placed(histograms[k], 0..MaxTotal)[m] = Quantile(histograms[k], m)

\* What is asked of a histogram is what was added to it.
HistogramExact == SamplesKept /\ QuantilesPlaced

=============================================================================
