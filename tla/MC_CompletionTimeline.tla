------------------------ MODULE MC_CompletionTimeline ------------------------
\* Constants of the CompletionTimeline runs.
EXTENDS CompletionTimeline, TLC

\* Twenty samples, of a canary and of a promoted service.
ProbeSamples == {ProbeCounts(18, 2, 0), ProbeCounts(0, 20, 0)}
CallerSymmetry == Permutations(Caller)
=============================================================================
