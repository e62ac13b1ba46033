--------------------------------- MODULE Drift ---------------------------------
(***************************************************************************)
(* The two drift statistics of DataGuard (dataguard/checks/drift.py) over  *)
(* whole numbers.  No function there looks at the order of its samples, so *)
(* a sample is a bag: how often each value occurs.  Quantiles interpolate  *)
(* between neighbouring values in steps of 1 / Bins, and all edges are     *)
(* kept in that unit; a proportion is compared by cross-multiplication.    *)
(* Of the PSI only its sign is modelled: each of its terms                 *)
(* (a - e) ln (a / e) is positive unless a = e.                            *)
(*                                                                         *)
(* The behaviours enumerate the inputs: two samples, one value at a time.  *)
(***************************************************************************)
EXTENDS Integers, FiniteSets, FiniteSetsExt

CONSTANTS
  MaxValue,   \* bound on the values
  MaxSize,    \* bound on the size of a sample
  Bins        \* config["bins"]

ASSUME DriftAssumption == MaxValue \in Nat /\ MaxSize \in Nat /\ Bins \in Nat \ {0}

VARIABLES baseline_array, current_array    \* the two samples

Values == 0 .. MaxValue

CountOf(sample, values) == MapThenSumSet(LAMBDA v : sample[v], values)
Size(sample) == CountOf(sample, Values)
Observed(sample) == {v \in Values : sample[v] > 0}

\* How many observations are at most x.
UpTo(sample, x) == CountOf(sample, {v \in Values : v <= x})

-----------------------------------------------------------------------------
(* PSI *)

\* The observation with index i of the sorted sample, counted from 0.
Nth(sample, i) == Min({v \in Values : UpTo(sample, v) > i})

\* np.quantile(sample, k / Bins), in units of 1 / Bins.
Quantile(sample, k) ==
  LET position == (Size(sample) - 1) * k
      below    == Nth(sample, position \div Bins)
      above    == Nth(sample, Min({position \div Bins + 1, Size(sample) - 1}))
  IN  Bins * below + (position % Bins) * (above - below)

\* The infinities lie beyond every value.
PosInf == Bins * (MaxValue + 1)
NegInf == -PosInf

\* Mutant of BinEdges: the outer edges stay closed.
BinEdgesClosed(sample) == {Quantile(sample, k) : k \in 0 .. Bins} \cup {Bins * MaxValue}

\* The quantiles without repetitions, or two edges around a single one, and
\* then the outer edges opened.
BinEdges(sample) ==
  LET quantiles == {Quantile(sample, k) : k \in 0 .. Bins}
      edges     == IF Cardinality(quantiles) < 2
                     THEN {Min(quantiles) - Bins \div 2, Min(quantiles) + Bins \div 2 + 1}
                     ELSE quantiles
  IN  (edges \ {Min(edges), Max(edges)}) \cup {NegInf, PosInf}

\* np.histogram: bins include their lower edge, and the last its upper one too.
Bin(edges, low) ==
  LET high == Min({e \in edges : e > low}) IN
    {v \in Values : /\ low <= Bins * v
                    /\ Bins * v < high \/ (high = Max(edges) /\ Bins * v = high)}

Histogram(sample, edges) ==
  [low \in edges \ {Max(edges)} |-> CountOf(sample, Bin(edges, low))]

\* Mutant of PsiIsZero: counts are compared, not proportions.
PsiOfCountsIsZero(b, c) ==
  \/ Size(b) = 0 \/ Size(c) = 0
  \/ Histogram(b, BinEdges(b)) = Histogram(c, BinEdges(b))

\* psi() is zero: there is nothing to compare, or all proportions are equal.
PsiIsZero(b, c) ==
  \/ Size(b) = 0 \/ Size(c) = 0
  \/ LET edges == BinEdges(b)
         e     == Histogram(b, edges)
         a     == Histogram(c, edges)
     IN  \A low \in DOMAIN e : a[low] * Size(b) = e[low] * Size(c)

-----------------------------------------------------------------------------
(* Kolmogorov-Smirnov *)

Abs(n) == IF n < 0 THEN -n ELSE n

\* The difference of the empirical CDFs at x, in units of 1 / (Size * Size).
Gap(b, c, x) == Abs(UpTo(b, x) * Size(c) - UpTo(c, x) * Size(b))

\* Mutant of AllPoints: the baseline's points only.
BaselinePoints(b, c) == Observed(b)

AllPoints(b, c) == Observed(b) \cup Observed(c)

\* ks_statistic, in the same unit: the CDFs are compared where values occur.
KsStatistic(b, c) ==
  IF Size(b) = 0 \/ Size(c) = 0 THEN 0 ELSE Max({Gap(b, c, x) : x \in AllPoints(b, c)})

-----------------------------------------------------------------------------
(* The inputs *)

DriftInit ==
  /\ baseline_array = [v \in Values |-> 0]
  /\ current_array = [v \in Values |-> 0]

ObserveBaseline ==
  /\ Size(baseline_array) < MaxSize
  /\ \E v \in Values : baseline_array' = [baseline_array EXCEPT ![v] = @ + 1]
  /\ UNCHANGED current_array

ObserveCurrent ==
  /\ Size(current_array) < MaxSize
  /\ \E v \in Values : current_array' = [current_array EXCEPT ![v] = @ + 1]
  /\ UNCHANGED baseline_array

DriftNext == ObserveBaseline \/ ObserveCurrent

driftVars == <<baseline_array, current_array>>

DriftSpec == DriftInit /\ [][DriftNext]_driftVars

-----------------------------------------------------------------------------

SameDistribution(b, c) == \A v \in Values : b[v] * Size(c) = c[v] * Size(b)

\* However far the current values lie from the baseline, each is counted in
\* exactly one bin, and so are the baseline's (drift.py:90-92, 101-104).
EveryValueCounted ==
  Size(baseline_array) > 0 =>
    \A sample \in {baseline_array, current_array} :
      LET counts == Histogram(sample, BinEdges(baseline_array))
      IN  CountOf(counts, DOMAIN counts) = Size(sample)

\* Looking at the observed points only, ks_statistic finds the largest gap
\* between the two distribution functions anywhere, and it is zero exactly for
\* samples of the same distribution.
KsIsLargestGap ==
  Size(baseline_array) > 0 /\ Size(current_array) > 0 =>
    LET d == KsStatistic(baseline_array, current_array) IN
      /\ \A x \in -1 .. MaxValue + 1 : Gap(baseline_array, current_array, x) <= d
      /\ \E x \in -1 .. MaxValue + 1 : Gap(baseline_array, current_array, x) = d
      /\ d = 0 <=> SameDistribution(baseline_array, current_array)

\* A sample of the baseline's distribution never drifts, whatever its size and
\* whatever edges the quantiles gave (README.md:40, "PSI = 0.0 against its own").
SameDistributionStable ==
  SameDistribution(baseline_array, current_array) => PsiIsZero(baseline_array, current_array)

=============================================================================
