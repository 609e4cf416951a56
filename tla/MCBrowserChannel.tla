-------------------------- MODULE MCBrowserChannel --------------------------
(* TLC instances of BrowserChannel.                                        *)
EXTENDS BrowserChannel, TLC

\* Poll handlers, runs and lettings-go are each interchangeable.  Used only by
\* runs that check no liveness.
Symmetry ==
    Permutations(Polls) \union Permutations(Runs) \union Permutations(Lettings)
=============================================================================
