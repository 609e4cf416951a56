---------------------------- MODULE MCWorkerLoop ----------------------------
(* TLC instances of WorkerLoop: two pages with different elements at one   *)
(* reference.                                                              *)
EXTENDS WorkerLoop

MCPages     == {"compose", "sent"}
MCElementAt == [page \in MCPages |-> IF page = "sent" THEN "Delete" ELSE "Send"]

Shop  == [kinds |-> BrowserKinds, pinned |-> FALSE,
          purchase |-> [granted |-> TRUE, maxCount |-> 1, expiresAt |-> 2]]
Draft == [kinds |-> GrantableKinds(TRUE), pinned |-> TRUE, purchase |-> NoPurchase]

Free     == [initiative |-> "use-judgment", progress |-> "remaining-plan",
             output |-> "draft-changes", interruption |-> "stop-only-when-blocked"]
Close    == [initiative |-> "follow-closely", progress |-> "current-step-only",
             output |-> "draft-changes", interruption |-> "stop-when-uncertain"]
Suggests == [Free EXCEPT !.output = "suggestions-only"]

MCDialled == {Free, Close, Suggests}

A(kind, source, ref, detail) ==
    [kind |-> kind, source |-> source, path |-> "same-origin", ref |-> ref,
     snapshot |-> "current", detail |-> detail]

BrowserProposals == {A("navigate", "approved", "none", "none"),
                     A("capture-screen", "none", "none", "none"),
                     A("click-element", "none", "r", "none"),
                     A("press-key", "none", "none", "Enter"),
                     A("complete-purchase", "none", "r", "none")}
DraftProposals   == {A("read-approved-source", "other", "none", "none"),
                     A("read-approved-source", "approved", "none", "none"),
                     A("draft-section", "none", "none", "none")}

ShopScopes == {Shop}
AllScopes  == {Shop, Draft}
AllProposals == BrowserProposals \union DraftProposals
=============================================================================
