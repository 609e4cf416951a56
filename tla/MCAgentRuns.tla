----------------------------- MODULE MCAgentRuns -----------------------------
(* TLC instances of AgentRuns: processes and requests are model values.    *)
EXTENDS AgentRuns, TLC

\* Worker processes, and requests, are interchangeable.  Used only by runs
\* that check no liveness.
Symmetry == Permutations(Workers) \union Permutations(Handlers)
=============================================================================
