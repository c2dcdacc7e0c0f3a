----------------------------- MODULE MCBenchmark -----------------------------
EXTENDS Benchmark

TwoShapes == <<3, 1>>

\* offline, then an ablation of two arms with one point of its sweep.
TwoBenches == <<[arms |-> 1, loops |-> <<"closed">>, ablation |-> FALSE],
                [arms |-> 2, loops |-> <<"closed", "open">>, ablation |-> TRUE]>>
=============================================================================
