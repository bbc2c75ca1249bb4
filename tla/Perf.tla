-------------------------------- MODULE Perf --------------------------------
(***************************************************************************)
(* The frame statistics of perf_switch.cpp: a histogram, counters and the  *)
(* FRAMES line logged when a window of frames is full.  The game thread    *)
(* alone calls it.  Times are in units in which a bin is BinNs wide.       *)
(***************************************************************************)
EXTENDS Integers, FiniteSets

CONSTANTS BinNs, BinCount,  \* the histogram
          Window,           \* a line is logged after this time
          LateNs,           \* a frame longer than a sixtieth of a second is late
          Durations,        \* of frames
          NoReport

(* The FRAMES line: the frames, their span, the worst and the late ones,   *)
(* those beyond the histogram and the bounds of three percentiles.         *)
Report == [n : Nat, span : Nat, worst : Nat, late : Nat, overflow : Nat,
           p : [{50, 95, 99} -> Int]]

ASSUME PerfAssumption ==
    /\ {BinNs, BinCount, Window} \subseteq Nat \ {0} /\ NoReport \notin Report
    /\ LateNs \in Nat /\ Durations \subseteq Nat /\ IsFiniteSet(Durations)

VARIABLES
    bins, overflow,         \* [0..BinCount-1 -> frames]; those beyond
    frames, late,
    window_ns, worst_ns,
    report,                 \* the FRAMES line, if the last frame logged one
    seen                    \* observation: frames since the line before

perfVars == <<bins, overflow, frames, late, window_ns, worst_ns, report, seen>>

Zero == [i \in 0..(BinCount - 1) |-> 0]

PerfInit ==
    /\ bins = Zero /\ overflow = 0
    /\ frames = 0 /\ late = 0 /\ window_ns = 0 /\ worst_ns = 0
    /\ report = NoReport
    /\ seen = [d \in Durations |-> 0]

(* Faulty variant: the rank is rounded down.                               *)
BadRank(n, percent) == (n * percent) \div 100
Rank(n, percent) == (n * percent + 99) \div 100

(* percentile: the upper bound of the first bin that reaches the rank, -1  *)
(* when the histogram does not.                                            *)
Percentile(b, n, percent) ==
    LET upTo[i \in 0..BinCount] == IF i = 0 THEN 0 ELSE upTo[i - 1] + b[i - 1]
        reach == {i \in 1..BinCount : upTo[i] >= Rank(n, percent)}
    IN  IF reach = {} THEN -1
        ELSE BinNs * CHOOSE i \in reach : \A j \in reach : i <= j

(* melee_nx_perf_frame                                                     *)
PerfFrame(ns) ==
    LET bin   == ns \div BinNs
        b     == IF bin < BinCount THEN [bins EXCEPT ![bin] = @ + 1] ELSE bins
        o     == IF bin < BinCount THEN overflow ELSE overflow + 1
        n     == frames + 1
        span  == window_ns + ns
        worst == IF ns > worst_ns THEN ns ELSE worst_ns
        l     == IF ns > LateNs THEN late + 1 ELSE late
    IN  /\ IF span < Window
           THEN /\ bins' = b /\ overflow' = o /\ frames' = n /\ late' = l
                /\ window_ns' = span /\ worst_ns' = worst
                /\ report' = NoReport
           ELSE /\ bins' = Zero /\ overflow' = 0 /\ frames' = 0 /\ late' = 0
                /\ window_ns' = 0 /\ worst_ns' = 0
                /\ report' = [n |-> n, span |-> span, worst |-> worst, late |-> l, overflow |-> o,
                              p |-> [percent \in {50, 95, 99} |-> Percentile(b, n, percent)]]
        /\ seen' = [d \in Durations |->
                      (IF report = NoReport THEN seen[d] ELSE 0) + (IF d = ns THEN 1 ELSE 0)]

-----------------------------------------------------------------------------
(* Reference: how many of the frames seen lasted v or less, and the        *)
(* nearest-rank percentile of them.                                        *)
CountOf(ds) ==
    LET most(d) == seen[d]
        sum[s \in SUBSET ds] ==
            IF s = {} THEN 0 ELSE LET d == CHOOSE x \in s : TRUE IN most(d) + sum[s \ {d}]
    IN  sum[ds]

NearestRank(percent) ==
    CHOOSE v \in Durations :
        /\ 100 * CountOf({d \in Durations : d <= v}) >= percent * CountOf(Durations)
        /\ \A w \in Durations :
              w < v => 100 * CountOf({d \in Durations : d <= w}) < percent * CountOf(Durations)

(* The FRAMES line tells of the frames since the line before and no other: *)
(* each percentile lies in the bin below the bound it reports, or beyond   *)
(* the histogram when -1 is reported, and the counts are exact             *)
(* (melee_nx_perf_frame, percentile).                                      *)
FramesHonest ==
    report # NoReport =>
        /\ report.n = CountOf(Durations)
        /\ report.late = CountOf({d \in Durations : d > LateNs})
        /\ report.overflow = CountOf({d \in Durations : d >= BinNs * BinCount})
        /\ \A percent \in {50, 95, 99} :
              LET v == NearestRank(percent)
                  q == report.p[percent]
              IN  IF v >= BinNs * BinCount THEN q = -1
                  ELSE q - BinNs <= v /\ v < q

=============================================================================
