---------------------------- MODULE MCFallbackChain ----------------------------
\* An instance of FallbackChain for TLC: the first candidate is unrestricted,
\* the last has one request a minute.
EXTENDS FallbackChain, TLC

LastLimited == [k \in Candidates |-> IF k = NumCandidates THEN 1 ELSE 0]
AnyOrder == Permutations(Executions)
=============================================================================
