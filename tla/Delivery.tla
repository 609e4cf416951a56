------------------------------ MODULE Delivery ------------------------------
(***************************************************************************)
(* What the browser channel promises the worker about one authorised       *)
(* intent, with no rows, sockets, polls or service workers in it: the page *)
(* is acted on at most once, an answer that says nothing happened is given *)
(* only about a page nothing has been done to, and stays true afterwards,  *)
(* and an answer that says it was done is given only once it has been.     *)
(***************************************************************************)
EXTENDS Naturals

CONSTANT Intents

VARIABLES
    effects,    \* how many times the intent has acted on the page
    told        \* what the worker has been told about it

vars == <<effects, told>>

Answers == {"unchanged", "done", "unknown"}

TypeOK ==
    /\ effects \in [Intents -> 0 .. 1]
    /\ told \in [Intents -> Answers \union {"nothing"}]

Init ==
    /\ effects = [i \in Intents |-> 0]
    /\ told = [i \in Intents |-> "nothing"]

\* A late effect may follow any answer but the one that ruled it out.
Act(i) ==
    /\ effects[i] = 0
    /\ told[i] # "unchanged"
    /\ effects' = [effects EXCEPT ![i] = 1]
    /\ UNCHANGED told

\* One event, a run being stopped for one, may answer several intents.
Tell ==
    /\ told' \in [Intents -> Answers \union {"nothing"}]
    /\ \A i \in Intents : told'[i] # told[i] =>
          /\ told[i] = "nothing"
          /\ told'[i] = "unchanged" => effects[i] = 0
          /\ told'[i] = "done" => effects[i] = 1
    /\ UNCHANGED effects

Next == Tell \/ \E i \in Intents : Act(i)

Spec == Init /\ [][Next]_vars
=============================================================================
