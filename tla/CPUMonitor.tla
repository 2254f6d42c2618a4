------------------------------ MODULE CPUMonitor ------------------------------
(***************************************************************************)
(* The sampler of processor usage (telemetry/cpu.go).  Usage is computed   *)
(* from two readings of counters that the kernel (external) keeps: they    *)
(* usually grow, but iowait may go back, a processor may come or go, a     *)
(* file may be unreadable for a while or read without its lines, and a     *)
(* control group may start again at zero.  The differences are of unsigned *)
(* integers.                                                               *)
(*                                                                         *)
(* Percentages are rounded down.  Names, clock frequencies and the load    *)
(* averages themselves are left out.                                       *)
(***************************************************************************)
EXTENDS Naturals, Sequences

CONSTANTS
    Modulus,     \* of the unsigned integers (2^64)
    MaxCounter,  \* bound on the counters of the kernel
    NumCPU,      \* runtime.NumCPU
    CoreLines,   \* how many lines of cores /proc/stat may have
    Loads,       \* values of the load average of a minute
    MaxAge       \* bound on the samples since the last one of the control group

\* What the proofs need of the constants: no sum of counters wraps.
CounterConstants ==
    /\ MaxCounter \in Nat /\ Modulus \in Nat /\ 2 * MaxCounter < Modulus
    /\ NumCPU \in Nat \ {0} /\ CoreLines \subseteq Nat /\ Loads \subseteq Nat
    /\ MaxAge \in Nat

VARIABLES
    prevTotal,   \* the last reading of the line of all processors
    prevCores,   \* the last readings of the lines of single cores
    prevCgroup,  \* the last usage_usec, 0 before the first, and how many
                 \* samples ago it will be at the next one
    stats,       \* what GetStats returns
    loop         \* the sampling goroutine

vars == <<prevTotal, prevCores, prevCgroup, stats, loop>>

Samples == [busy : 0..MaxCounter, idle : 0..MaxCounter]
NoSample == [busy |-> 0, idle |-> 0]
CoreSamples == UNION {[1..n -> Samples] : n \in CoreLines}

NoStats == [from |-> "nothing", usage |-> 0, cores |-> <<>>]

Init ==
    /\ prevTotal = NoSample
    /\ prevCores = <<>>
    /\ prevCgroup = [usec |-> 0, age |-> 0]
    /\ stats = NoStats
    /\ loop = "running"

-----------------------------------------------------------------------------
(* Arithmetic *)

\* Difference of unsigned integers.
Minus(a, b) == (a + Modulus - b) % Modulus

Total(s) == (s.busy + s.idle) % Modulus

AtMost100(n) == IF n > 100 THEN 100 ELSE n

\* Mutant of Busy: the idle time is taken from the total whatever they are.
BusyUnguarded(cur, prev) ==
    LET total == Minus(Total(cur), Total(prev))
        idle == Minus(cur.idle, prev.idle)
    IN  IF total > 0 THEN (100 * Minus(total, idle)) \div total ELSE 0

\* The share of the time between two readings that was not idle.
Busy(cur, prev) ==
    LET total == Minus(Total(cur), Total(prev))
        idle == Minus(cur.idle, prev.idle)
    IN  IF total > 0 /\ total >= idle THEN (100 * (total - idle)) \div total ELSE 0

\* Overall usage needs an earlier reading that was not empty, that of a core
\* one with as many cores.
Overall(cur) == IF Total(prevTotal) > 0 THEN Busy(cur, prevTotal) ELSE 0

Cores(cur) ==
    [i \in DOMAIN cur |->
        IF Len(cur) = Len(prevCores) THEN AtMost100(Busy(cur[i], prevCores[i])) ELSE 0]

\* The share of all processors that the control group used since its last
\* reading.
CgroupUsage(usec) ==
    LET used == Minus(usec, prevCgroup.usec) IN
    IF prevCgroup.usec > 0 /\ prevCgroup.age > 0
    THEN AtMost100((100 * used) \div (prevCgroup.age * NumCPU)) ELSE 0

\* The estimate from the load, when nothing else says anything.
FromLoad(load, count) == AtMost100((100 * load) \div count)

-----------------------------------------------------------------------------
(* Sampling *)

Older(cgroup) == IF cgroup.age < MaxAge THEN [cgroup EXCEPT !.age = @ + 1] ELSE cgroup

\* /proc/stat is readable.
SampleProc ==
    /\ loop # "over"
    /\ \E total \in Samples, cores \in CoreSamples :
          /\ stats' = [from |-> "proc", usage |-> Overall(total), cores |-> Cores(cores)]
          /\ prevTotal' = total
          /\ prevCores' = cores
    /\ prevCgroup' = Older(prevCgroup)
    /\ UNCHANGED loop

\* It is not: the control group is asked, and the load if it has no answer or
\* one of zero. usec = 0 stands for a file that is missing or has no such line.
SampleFallback ==
    /\ loop # "over"
    /\ \E usec \in 0..MaxCounter, load \in Loads :
          LET used == IF usec = 0 THEN 0 ELSE CgroupUsage(usec)
          IN  /\ stats' = [from |-> "fallback", cores |-> <<>>,
                           usage |-> IF used > 0 THEN used ELSE FromLoad(load, NumCPU)]
              /\ prevCgroup' = IF usec = 0 THEN Older(prevCgroup)
                               ELSE [usec |-> usec, age |-> 1]
    /\ UNCHANGED <<prevTotal, prevCores, loop>>

\* Stop closes the channel on which the loop ends, at once or after one more
\* sample; a second Stop does nothing.
Stop ==
    /\ loop = "running"
    /\ loop' = "stopping"
    /\ UNCHANGED <<prevTotal, prevCores, prevCgroup, stats>>

LoopEnds ==
    /\ loop = "stopping"
    /\ loop' = "over"
    /\ UNCHANGED <<prevTotal, prevCores, prevCgroup, stats>>

-----------------------------------------------------------------------------
Next == SampleProc \/ SampleFallback \/ Stop \/ LoopEnds

Spec == Init /\ [][Next]_vars

-----------------------------------------------------------------------------
(* Properties *)

Grows(s, t) == s.busy <= t.busy /\ s.idle <= t.idle /\ Total(s) < Total(t)

\* The reference, in whole numbers: the share of busy time.
Share(s, t) == (100 * (t.busy - s.busy)) \div ((t.busy - s.busy) + (t.idle - s.idle))

\* What a sample reports is a percentage, whichever counters went back or
\* started again and whichever files came and went; and it is the share of busy
\* time between the last two readings of /proc/stat if the counters grew between
\* them, however many samples failed in between (cpu.go, sample).
UsageIsBusyTime ==
    [][ /\ stats'.usage \in 0..100
        /\ \A i \in DOMAIN stats'.cores : stats'.cores[i] \in 0..100
        /\ stats'.from = "proc" /\ Grows(prevTotal, prevTotal') /\ Total(prevTotal) > 0
             => stats'.usage = Share(prevTotal, prevTotal') ]_vars
=============================================================================
