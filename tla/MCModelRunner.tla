---------------------------- MODULE MCModelRunner ----------------------------
EXTENDS ModelRunner

\* Sequences differ in nothing but their names.
AnySequence == Permutations(Sequence)
=============================================================================
