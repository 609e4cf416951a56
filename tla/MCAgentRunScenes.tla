-------------------------- MODULE MCAgentRunScenes --------------------------
(* Instances of AgentRuns too large together, looked at one by one.        *)
EXTENDS MCAgentRuns

\* The run looks at two scenes, chosen at the start, each within bounds of its
\* own: a question that is answered from two windows, and a shift that faults
\* twice and whose session the person may end.
VARIABLE scene

MCScenes == {[requests |-> 2, faults |-> 0, ends |-> FALSE],
             [requests |-> 1, faults |-> 2, ends |-> TRUE]}

\* What a step may lead to in the scene.
Within ==
    /\ faults' <= scene.faults
    /\ phase # "ended" /\ phase' = "ended" => scene.ends
    /\ Cardinality({h \in Handlers : hpc'[h] # "idle"}) <= scene.requests

ScenesInit == Init /\ scene \in MCScenes

ScenesNext == Next /\ Within /\ UNCHANGED scene

ScenesSpec == ScenesInit /\ [][ScenesNext]_<<vars, scene>>

=============================================================================
