------------------------------- MODULE Policy -------------------------------
(***************************************************************************)
(* The contract a person ratified, compiled into what a run may do, and    *)
(* the gate every proposal passes: src/domain/handoff/policy.ts,           *)
(* src/policy/gate.ts, src/domain/execution/reversibility.ts and the       *)
(* bounds of src/domain/execution/stop-conditions.ts.  Functions only.     *)
(*                                                                         *)
(* A source, a document and a reference are named by whether they are the  *)
(* approved one, not by their text.                                        *)
(***************************************************************************)
EXTENDS Naturals, FiniteSets

CONSTANTS
    MaxPlanSteps,        \* MAX_PLAN_STEPS, 12 in the code
    MaxActions,          \* MAX_ACTIONS_PER_RUN, 40
    MaxMutatingActions,  \* MAX_MUTATING_ACTIONS_PER_RUN, 8
    MaxPauseCredit       \* MAX_PAUSE_CREDIT_MINUTES, 240

ASSUME PolicyAssumption ==
    /\ MaxPlanSteps \in Nat \ {0}
    /\ MaxActions \in Nat \ {0}
    /\ MaxMutatingActions \in Nat \ {0}
    /\ MaxPauseCredit \in Nat

DocumentKinds  == {"read-approved-source", "read-document", "draft-section"}
PurchaseKinds  == {"complete-purchase"}
BrowserKinds   == {"observe-page", "navigate", "click-element", "type-text",
                   "press-key", "capture-screen"} \union PurchaseKinds
ActionKinds    == DocumentKinds \union BrowserKinds
ConfirmableKinds == {"click-element", "type-text", "press-key"}
LandingKinds   == {"complete-purchase"}
MutatingKinds  == {"draft-section"} \union ConfirmableKinds \union LandingKinds
AllowedKeys    == {"Enter", "Tab", "Escape"}
SnapshotKinds  == ConfirmableKinds \union LandingKinds

\* What a drafted contract may grant; a purchase is only ever added by an
\* authorisation the person ratified.
GrantableKinds(pinsDocument) ==
    IF pinsDocument THEN DocumentKinds ELSE BrowserKinds \ PurchaseKinds

NoPurchase == [granted |-> FALSE, maxCount |-> 0, expiresAt |-> 0]

Dials == {"initiative", "progress", "output", "interruption"}

Positions(dial) ==
    CASE dial = "initiative"   -> {"follow-closely", "use-judgment"}
      [] dial = "progress"     -> {"current-step-only", "remaining-plan"}
      [] dial = "output"       -> {"suggestions-only", "draft-changes"}
      [] dial = "interruption" -> {"stop-when-uncertain", "stop-only-when-blocked"}

Controls == [initiative : Positions("initiative"), progress : Positions("progress"),
             output : Positions("output"), interruption : Positions("interruption")]

-----------------------------------------------------------------------------
(* compilePolicy.  suggestions-only takes every kind that changes          *)
(* something; current-step-only leaves one change per shift.               *)

CompilePolicy(scope, controls) ==
    [kinds       |-> scope.kinds \ (IF controls.output = "suggestions-only"
                                    THEN MutatingKinds \union LandingKinds
                                    ELSE {}),
     stepScope   |-> controls.progress,
     offPlan     |-> controls.initiative = "use-judgment",
     maxMutating |-> IF controls.progress = "current-step-only"
                     THEN 1 ELSE MaxMutatingActions,
     pinned      |-> scope.pinned,
     purchase    |-> scope.purchase]

\* A dial turned to its other position.
Flip(controls, dial) ==
    [controls EXCEPT ![dial] = CHOOSE v \in Positions(dial) : v # controls[dial]]

\* dialThatRemoved: the one dial that, turned back, would restore a kind the
\* contract grants and the policy lost.
DialThatRemoved(kind, scope, controls) ==
    LET restores == {d \in Dials :
                        kind \in CompilePolicy(scope, Flip(controls, d)).kinds}
    IN  IF /\ kind \in scope.kinds
           /\ kind \notin CompilePolicy(scope, controls).kinds
           /\ Cardinality(restores) = 1
        THEN CHOOSE d \in restores : TRUE
        ELSE "none"

-----------------------------------------------------------------------------
(* What the page says of the element an action is aimed at, and whether    *)
(* that calls for a person's yes.  NoEvidence stands for missing and for   *)
(* malformed evidence alike.                                               *)

NoEvidence == [known |-> FALSE, submit |-> FALSE, sensitive |-> FALSE,
               inForm |-> FALSE, named |-> FALSE, irreversible |-> FALSE]

RequiresConfirmation(kind, ev) ==
    /\ kind \in ConfirmableKinds
    /\ \/ ~ev.known
       \/ ev.submit
       \/ ev.sensitive
       \/ kind = "press-key" /\ ev.inForm
       \/ ~ev.named
       \/ ev.irreversible

\* evidenceFor: evidence is about the element the proposal names, or nothing.
EvidenceFor(p, run) ==
    IF p.ref # "none" /\ run.evidence.known THEN run.evidence ELSE NoEvidence

-----------------------------------------------------------------------------
(* authorize: the gate's checks in the order the code makes them.  The     *)
(* first that holds names the refusal; none is an authorised action.       *)

Checks(policy, p, run) ==
    << <<run.now >= run.deadline,                                "budget_exhausted">>,
       <<p.kind \notin ActionKinds,                              "unknown_action_kind">>,
       <<p.kind \notin policy.kinds,                             "action_kind_not_allowed">>,
       <<run.taken >= MaxActions,                                "action_limit_exceeded">>,
       <<p.kind \in MutatingKinds /\ run.mutated >= policy.maxMutating, "step_out_of_scope">>,
       <<run.planLength > MaxPlanSteps,                          "plan_limit_exceeded">>,
       <<p.step = 0 /\ ~policy.offPlan,                          "off_plan">>,
       <<p.step # 0 /\ policy.stepScope = "current-step-only" /\ p.step # run.ordinal,
                                                                 "step_out_of_scope">>,
       <<p.kind \in SnapshotKinds /\ (run.snapshot = "none" \/ p.snapshot # "current"),
                                                                 "stale_snapshot">>,
       <<p.kind \in DocumentKinds \ {"read-approved-source"} /\ ~policy.pinned,
                                                                 "no_document_pinned">>,
       <<p.kind \in DocumentKinds \ {"read-approved-source"} /\ ~p.document,
                                                                 "document_missing">>,
       <<p.kind = "navigate" /\ p.path # "same-origin",          "navigation_target_missing">>,
       <<p.kind \in {"read-approved-source", "navigate"} /\ p.source = "none",
                                                                 "source_missing">>,
       <<p.kind \in {"read-approved-source", "navigate"} /\ p.source # "approved",
                                                                 "source_not_approved">>,
       <<p.kind = "complete-purchase" /\ ~policy.purchase.granted, "purchase_not_authorized">>,
       <<p.kind \in {"click-element", "type-text", "complete-purchase"} /\ p.ref = "none",
                                                                 "element_ref_missing">>,
       <<p.kind = "type-text" /\ run.evidence.sensitive,         "password_field">>,
       <<p.kind = "press-key" /\ p.detail \notin AllowedKeys,      "key_not_allowed">>,
       <<p.kind = "complete-purchase" /\ run.now >= policy.purchase.expiresAt,
                                                                 "purchase_expired">>,
       <<p.kind = "complete-purchase" /\ run.charged >= policy.purchase.maxCount,
                                                                 "purchase_count_exceeded">>,
       <<RequiresConfirmation(p.kind, EvidenceFor(p, run)) /\ ~p.confirmed,
                                                                 "confirmation_required">> >>

\* No check holds: the proposal becomes an authorised action.
MisPasses(policy, p, run) ==
    LET checks == Checks(policy, p, [run EXCEPT !.taken = 0, !.charged = 0])
    IN  \A i \in DOMAIN checks : ~checks[i][1]
Passes(policy, p, run) ==
    LET checks == Checks(policy, p, run)
    IN  \A i \in DOMAIN checks : ~checks[i][1]

Authorize(policy, p, run) ==
    LET checks == Checks(policy, p, run)
        failed == {i \in DOMAIN checks : checks[i][1]}
    IN  IF Passes(policy, p, run) THEN "authorized"
        ELSE checks[CHOOSE i \in failed : \A j \in failed : i <= j][2]

-----------------------------------------------------------------------------
(* Stop rules.  A pause for a person's yes counts against neither loop.    *)

NoProgressLimit  == 3
RefusalLoopLimit == 3
PausingRules     == {"confirmation_required"}

\* evaluateStructuralStops, in order; the first names the terminal reason.
MisStructuralStops(p) ==
    << <<p.now >= p.deadline,              "budget-exhausted">>,
       <<p.noProgress >= NoProgressLimit,  "no-progress">>,
       <<p.refused >= RefusalLoopLimit,    "refusal-loop">>,
       <<p.taken >= MaxActions,            "action-limit">> >>
StructuralStops(p) ==
    << <<p.now >= p.deadline,              "budget-exhausted">>,
       <<p.noProgress >= NoProgressLimit,  "no-progress">>,
       <<p.refused >= RefusalLoopLimit,    "refusal-loop">>,
       <<p.controlLost,                    "control-lost">>,
       <<p.taken >= MaxActions,            "action-limit">> >>

\* shouldStop: "none", or the first rule that fired.
ShouldStop(p) ==
    LET stops == StructuralStops(p)
        fired == {i \in DOMAIN stops : stops[i][1]}
    IN  IF fired = {} THEN "none"
        ELSE stops[CHOOSE i \in fired : \A j \in fired : i <= j][2]

TerminalReason(rule) ==
    CASE rule = "none"             -> "none"
      [] rule = "budget-exhausted" -> "budget-exhausted"
      [] OTHER                     -> "stop-condition"

QuestionHalts(controls) == controls.interruption = "stop-when-uncertain"

\* deadlineFor: the limit counts from acceptance; time spent waiting for the
\* person's answer is given back, up to a bound.
MisDeadlineFor(acceptedAt, limit, waited) == acceptedAt + limit + 2 * waited
DeadlineFor(acceptedAt, limit, waited) ==
    acceptedAt + limit + (IF waited <= MaxPauseCredit THEN waited ELSE MaxPauseCredit)
=============================================================================
