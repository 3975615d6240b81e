-------------------------------- MODULE CpuUsage --------------------------------
(***************************************************************************)
(* What the CPU agent makes of two samples of /proc/stat: the usage of the *)
(* span between them, in percent.  The counters are unsigned, and iowait   *)
(* may decrease; the operations on floats are taken to be exact.           *)
(***************************************************************************)
EXTENDS Integers, TLAPS

CONSTANT Word  \* 2^64 in the code

\* cpuSample: the sums of the idle counters and of all counters.
CpuSample == [idle : 0..(Word - 1), total : 0..(Word - 1)]

\* An unsigned difference.
Minus(m, n) == IF n <= m THEN m - n ELSE m - n + Word

\* The share n / d in percent, rounded to the nearest integer, halves upwards.
Percent(n, d) == (200 * n + d) \div (2 * d)

\* computeUsage.
ComputeUsage(prev, cur) ==
    LET idle == Minus(cur.idle, prev.idle)
        total == Minus(cur.total, prev.total)
    IN  IF cur.total <= prev.total \/ total < idle THEN 0 ELSE Percent(total - idle, total)

\* Two samples between which no counter has decreased.
Later(prev, cur) ==
    /\ prev.idle <= cur.idle
    /\ prev.total - prev.idle <= cur.total - cur.idle
    /\ prev.total < cur.total

--------------------------------------------------------------------------------
(***************************************************************************)
(* What module CpuAgent assumes of the samples, for counters of any width: *)
(* that they are percentages, that a span of several seconds is between    *)
(* the usages of its seconds (CpuAgent!Samples), and that a span in which  *)
(* the idle counters fell has no usage (CpuAgent!SampleMisread).           *)
(***************************************************************************)

\* What a quotient is.
LEMMA Division ==
    ASSUME NEW x \in Nat, NEW d \in Nat \ {0}
    PROVE  /\ x \div d \in Nat
           /\ d * (x \div d) <= x
           /\ x < d * (x \div d + 1)
OBVIOUS

\* A larger share is not rounded to a smaller percentage.
LEMMA PercentOrder ==
    ASSUME NEW m \in Nat, NEW c \in Nat \ {0}, NEW n \in Nat, NEW d \in Nat \ {0},
           m * d <= n * c
    PROVE  Percent(m, c) <= Percent(n, d)
<1> DEFINE p == Percent(m, c)
           q == Percent(n, d)
<1>1. /\ 200 * m + c \in Nat /\ 2 * c \in Nat \ {0}
      /\ 200 * n + d \in Nat /\ 2 * d \in Nat \ {0}
    OBVIOUS
<1>2. /\ p \in Nat /\ 2 * c * p <= 200 * m + c
      /\ q \in Nat /\ 200 * n + d < 2 * d * (q + 1)
    BY <1>1, Division DEF Percent
<1> HIDE DEF p, q
<1> SUFFICES ASSUME q + 1 <= p PROVE FALSE
    BY <1>2 DEF p, q
<1>3. d * (2 * c * p) <= d * (200 * m + c)
    BY <1>2
<1>4. d * (200 * m + c) <= c * (200 * n + d)
    OBVIOUS
<1>5. c * (200 * n + d) < c * (2 * d * (q + 1))
    BY <1>2
<1>6. c * (2 * d * (q + 1)) <= c * (2 * d * p)
    BY <1>2
<1> QED
    BY <1>2, <1>3, <1>4, <1>5, <1>6

\* A share of at most 1 is at most 100 percent.
LEMMA PercentRange ==
    ASSUME NEW n \in Nat, NEW d \in Nat \ {0}, n <= d
    PROVE  Percent(n, d) \in 0..100
<1>1. Percent(n, d) <= Percent(1, 1)
    BY PercentOrder
<1>2. Percent(1, 1) = 100
    BY DEF Percent
<1>3. Percent(n, d) \in Nat
    BY Division DEF Percent
<1> QED
    BY <1>1, <1>2, <1>3

\* computeUsage returns a percentage for any two samples, also if counters fell or wrapped
\* around: its clamping to 0..100 misses no case.
THEOREM UsageIsPercentage ==
    ASSUME Word \in Nat \ {0}, NEW prev \in CpuSample, NEW cur \in CpuSample
    PROVE  ComputeUsage(prev, cur) \in 0..100
<1> DEFINE idle == Minus(cur.idle, prev.idle)
           total == Minus(cur.total, prev.total)
<1>1. CASE cur.total <= prev.total \/ total < idle
    BY <1>1 DEF ComputeUsage
<1>2. CASE ~(cur.total <= prev.total \/ total < idle)
  <2>1. total \in Nat \ {0} /\ idle \in Nat /\ idle <= total
      BY <1>2 DEF Minus, CpuSample
  <2>2. total - idle \in Nat /\ total - idle <= total
      BY <2>1
  <2>3. Percent(total - idle, total) \in 0..100
      BY <2>1, <2>2, PercentRange
  <2> QED
      BY <1>2, <2>3 DEF ComputeUsage
<1> QED
    BY <1>1, <1>2

\* If the idle counters fell, as iowait may, their unsigned difference is close to 2^64, and
\* computeUsage returns 0 however busy the span was: a busy node is taken for an idle one.
THEOREM FallenIdleIsNoUsage ==
    ASSUME Word \in Nat \ {0}, NEW prev \in CpuSample, NEW cur \in CpuSample,
           cur.idle < prev.idle, cur.total - prev.total < Word - (prev.idle - cur.idle)
    PROVE  ComputeUsage(prev, cur) = 0
<1>1. /\ cur.idle \in Nat /\ prev.idle \in Nat /\ cur.total \in Nat /\ prev.total \in Nat
    BY DEF CpuSample
<1>2. CASE cur.total <= prev.total
    BY <1>2 DEF ComputeUsage
<1>3. CASE prev.total < cur.total
    BY <1>1, <1>3 DEF ComputeUsage, Minus
<1> QED
    BY <1>1, <1>2, <1>3

\* If ticks are missed and the counters do not fall, computeUsage returns something between
\* the usages of the parts of the span: rounding does not take it out of their range.
THEOREM SpanIsBetween ==
    ASSUME Word \in Nat \ {0}, NEW first \in CpuSample, NEW mid \in CpuSample,
           NEW last \in CpuSample, Later(first, mid), Later(mid, last)
    PROVE  \/ /\ ComputeUsage(first, mid) <= ComputeUsage(first, last)
              /\ ComputeUsage(first, last) <= ComputeUsage(mid, last)
           \/ /\ ComputeUsage(mid, last) <= ComputeUsage(first, last)
              /\ ComputeUsage(first, last) <= ComputeUsage(first, mid)
<1> DEFINE m == mid.total - first.total - (mid.idle - first.idle)
           c == mid.total - first.total
           n == last.total - mid.total - (last.idle - mid.idle)
           d == last.total - mid.total
<1>1. /\ first.idle \in Nat /\ mid.idle \in Nat /\ last.idle \in Nat
      /\ first.total \in Nat /\ mid.total \in Nat /\ last.total \in Nat
    BY DEF CpuSample
<1>2. /\ m \in Nat /\ c \in Nat \ {0} /\ n \in Nat /\ d \in Nat \ {0}
      /\ m + n = last.total - first.total - (last.idle - first.idle)
      /\ c + d = last.total - first.total
    BY <1>1 DEF Later
<1>3. ComputeUsage(first, mid) = Percent(m, c)
    BY <1>1 DEF ComputeUsage, Minus, Later
<1>4. ComputeUsage(mid, last) = Percent(n, d)
    BY <1>1 DEF ComputeUsage, Minus, Later
<1>5. ComputeUsage(first, last) = Percent(m + n, c + d)
  <2>1. ComputeUsage(first, last)
           = Percent(last.total - first.total - (last.idle - first.idle), last.total - first.total)
      BY <1>1 DEF ComputeUsage, Minus, Later
  <2> QED
      BY <1>2, <2>1
<1> HIDE DEF m, c, n, d
<1>6. m + n \in Nat /\ c + d \in Nat \ {0}
    BY <1>2
<1>7. CASE m * d <= n * c
  <2>1. m * (c + d) <= (m + n) * c /\ (m + n) * d <= n * (c + d)
      BY <1>2, <1>7
  <2> QED
      BY <1>2, <1>3, <1>4, <1>5, <1>6, <2>1, PercentOrder
<1>8. CASE n * c <= m * d
  <2>1. (m + n) * c <= m * (c + d) /\ n * (c + d) <= (m + n) * d
      BY <1>2, <1>8
  <2> QED
      BY <1>2, <1>3, <1>4, <1>5, <1>6, <2>1, PercentOrder
<1> QED
    BY <1>2, <1>7, <1>8
=================================================================================
