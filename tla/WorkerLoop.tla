----------------------------- MODULE WorkerLoop -----------------------------
(***************************************************************************)
(* The runs of one accepted contract, each the loop of                     *)
(* src/runtime/worker-loop.ts: rebuild what the contract has already done, *)
(* plan, then observe, propose, ask the gate, commit the intent, act and   *)
(* record, until a stop rule, the model or a question ends it.  A question *)
(* answered yes is carried on by the next run.                             *)
(*                                                                         *)
(* One await that another part can see is one step.  AgentRuns models who  *)
(* else writes the run's rows; here one process runs the loop.             *)
(***************************************************************************)
EXTENDS Policy

CONSTANTS
    Scopes,        \* the contracts a person may ratify, see Policy
    Dialled,       \* the positions of the dials
    Proposals,     \* what the model may propose in a turn
    Pages,         \* what a look at the tab may show
    ElementAt,     \* the line of the tree at the reference, on a page
    TimeLimit,     \* timeLimitMinutes
    Horizon,       \* bound: the clock
    MaxRuns        \* bound: runs of the contract

ASSUME LoopAssumption ==
    /\ \A scope \in Scopes : scope.purchase.maxCount \in Nat
    /\ Dialled \subseteq Controls
    /\ ElementAt \in [Pages -> STRING]
    /\ TimeLimit \in Nat
    /\ Horizon \in Nat
    /\ MaxRuns \in Nat \ {0}

VARIABLES
    contract,   \* the ratified scope and dials
    now,        \* the clock
    waited,     \* time spent waiting for the person's answers
    run,        \* the run in hand, counted from 1
    pc,         \* where its loop is
    loop,       \* what the loop keeps between turns
    act,        \* the action authorised in this turn
    ledger,     \* the contract's ActionIntent rows, by what they add up to
    asked,      \* the question a run parked on
    yes,        \* confirmed requests of the contract
    acts,       \* history: actions authorised under a yes
    ended       \* how the last run ended

vars == <<contract, now, waited, run, pc, loop, act, ledger, asked, yes, acts, ended>>

NoPage   == "none"
NoAct    == [kind |-> "none"]
NoAsk    == [kind |-> "none"]

policy   == CompilePolicy(contract.scope, contract.controls)
deadline == DeadlineFor(0, TimeLimit, waited)

\* Kinds whose handler in perform can report progress.
ProgressingKinds == {"draft-section", "navigate"} \union ConfirmableKinds \union PurchaseKinds

\* Kinds the channel's own door admits: dispatchableKind.
Dispatchable == BrowserKinds \ PurchaseKinds

\* BrowserControlError failures, and those after which the world may have changed.
Failures == {"not-delivered", "not-reported", "control-lost", "blocked-request"}

LoopAtRest == [turn |-> 0, steps |-> 0, noProgress |-> 0, refused |-> 0,
               taken |-> 0, mutated |-> 0, charged |-> 0,
               page |-> NoPage, seen |-> {}, controlLost |-> FALSE]

Init ==
    /\ contract \in [scope : Scopes, controls : Dialled]
    /\ now = 0
    /\ waited = 0
    /\ run = 1
    /\ pc = "queued"
    /\ loop = LoopAtRest
    /\ act = NoAct
    /\ ledger = [authorized |-> 0, mutating |-> 0, charges |-> 0]
    /\ asked = NoAsk
    /\ yes = {}
    /\ acts = {}
    /\ ended = [status |-> "none", rule |-> "none"]

-----------------------------------------------------------------------------
(* What the loop reads.                                                    *)

Progress(l) == [now |-> now, deadline |-> deadline, noProgress |-> l.noProgress,
                refused |-> l.refused, taken |-> l.taken, controlLost |-> l.controlLost]

ProgressIsPossible == policy.kinds \intersect ProgressingKinds # {}

\* finish: the run's result; a failed run says boundary-failure.
Finish(status, rule) ==
    /\ pc' = "ended"
    /\ ended' = [status |-> status, rule |-> rule]

\* The bottom of a turn: stop, or take another.
TurnOver(l) ==
    IF ShouldStop(Progress(l)) # "none"
    THEN Finish("succeeded", ShouldStop(Progress(l)))
    ELSE pc' = "turn" /\ UNCHANGED ended

\* confirmationIdFor: a yes covers the same kind, reference, text or key, and
\* the same line of the tree where a reference was confirmed.
MisCoveredBy(p, y) ==
    /\ y.kind = p.kind
    /\ y.ref = p.ref
    /\ y.detail = p.detail
CoveredBy(p, y) ==
    /\ y.kind = p.kind
    /\ y.ref = p.ref
    /\ y.detail = p.detail
    /\ y.ref # "none" => loop.page # NoPage /\ ElementAt[loop.page] = y.element

\* The proposal as the gate sees it: the loop adds the step, the document and
\* whether a yes of this contract covers it.
Proposed(p, ordinal) ==
    [kind |-> p.kind, source |-> p.source, path |-> p.path, ref |-> p.ref,
     snapshot |-> p.snapshot, detail |-> p.detail, document |-> contract.scope.pinned,
     step |-> IF ordinal <= loop.steps THEN ordinal ELSE 0,
     confirmed |-> \E y \in yes : CoveredBy(p, y)]

\* runContext.  The app wires no elementEvidence, so nothing is known of an element.
RunContext(ordinal) ==
    [now |-> now, deadline |-> deadline, ordinal |-> ordinal, planLength |-> loop.steps,
     taken |-> loop.taken, mutated |-> loop.mutated, charged |-> loop.charged,
     snapshot |-> loop.page, evidence |-> NoEvidence]

-----------------------------------------------------------------------------
(* The clock, and the person.                                              *)

Tick ==
    /\ now < Horizon /\ pc # "ended"
    /\ now' = now + 1
    /\ waited' = IF pc = "asked" THEN waited + 1 ELSE waited
    /\ UNCHANGED <<contract, run, pc, loop, act, ledger, asked, yes, acts, ended>>

\* The run parked on a question; a yes is one more confirmed request and queues
\* the run that carries it on.
AnswerYes ==
    /\ pc = "asked"
    /\ run < MaxRuns
    /\ yes' = yes \union {asked}
    /\ asked' = NoAsk
    /\ run' = run + 1
    /\ pc' = "queued"
    /\ UNCHANGED <<contract, now, waited, loop, act, ledger, acts, ended>>

\* A no, or a day without an answer: the shift is over.
AnswerNo ==
    /\ pc = "asked"
    /\ asked' = NoAsk
    /\ pc' = "ended"
    /\ UNCHANGED <<contract, now, waited, run, loop, act, ledger, yes, acts, ended>>

-----------------------------------------------------------------------------
(* A run begins.                                                           *)

\* admitContinuation, then historyForContract: the caps count every
\* authorised row of the contract, whatever became of it.
Rebuilt == [LoopAtRest EXCEPT !.taken   = ledger.authorized,
                              !.mutated = ledger.mutating,
                              !.charged = ledger.charges]

Begin ==
    /\ pc = "queued"
    /\ loop' = Rebuilt
    /\ \/ /\ run > 1 /\ now >= deadline
          /\ Finish("failed", "answered-too-late")
       \/ /\ run = 1 \/ now < deadline
          /\ IF ShouldStop(Progress(Rebuilt)) # "none"
             THEN Finish("succeeded", ShouldStop(Progress(Rebuilt)))
             ELSE pc' = "planning" /\ UNCHANGED ended
    /\ UNCHANGED <<contract, now, waited, run, act, ledger, asked, yes, acts>>

\* The planning call: a plan of some steps, or a boundary failure.
Plan ==
    /\ pc = "planning"
    /\ \/ \E n \in 1 .. MaxPlanSteps :
            /\ loop' = [loop EXCEPT !.steps = n]
            /\ pc' = "turn"
            /\ UNCHANGED ended
       \/ /\ Finish("failed", "boundary-failure")
          /\ UNCHANGED loop
    /\ UNCHANGED <<contract, now, waited, run, act, ledger, asked, yes, acts>>

-----------------------------------------------------------------------------
(* One turn.                                                               *)

\* Before the model is called: past a plan that may not be left, past the
\* bound on turns, or a stop rule; otherwise the turn is taken.
MisTurn ==
    /\ pc = "turn"
    /\ loop.turn < loop.steps \/ policy.offPlan
    /\ loop.turn < MaxActions
    /\ IF ShouldStop(Progress(loop)) # "none"
       THEN /\ Finish("succeeded", ShouldStop(Progress(loop)))
            /\ UNCHANGED loop
       ELSE /\ loop' = [loop EXCEPT !.turn = @ + 1]
            /\ pc' = "thinking"
            /\ UNCHANGED ended
    /\ UNCHANGED <<contract, now, waited, run, act, ledger, asked, yes, acts>>
Turn ==
    /\ pc = "turn"
    /\ \/ /\ loop.turn >= loop.steps /\ ~policy.offPlan
          /\ Finish("succeeded", "none")
          /\ UNCHANGED loop
       \/ /\ loop.turn < loop.steps \/ policy.offPlan
          /\ loop.turn >= MaxActions
          /\ Finish("succeeded", "action-limit")
          /\ UNCHANGED loop
       \/ /\ loop.turn < loop.steps \/ policy.offPlan
          /\ loop.turn < MaxActions
          /\ ShouldStop(Progress(loop)) # "none"
          /\ Finish("succeeded", ShouldStop(Progress(loop)))
          /\ UNCHANGED loop
       \/ /\ loop.turn < loop.steps \/ policy.offPlan
          /\ loop.turn < MaxActions
          /\ ShouldStop(Progress(loop)) = "none"
          /\ loop' = [loop EXCEPT !.turn = @ + 1]
          /\ pc' = "thinking"
          /\ UNCHANGED ended
    /\ UNCHANGED <<contract, now, waited, run, act, ledger, asked, yes, acts>>

\* The model says it is done, or its call fails.
Declines ==
    /\ pc = "thinking"
    /\ \/ Finish("succeeded", "none")
       \/ Finish("failed", "boundary-failure")
    /\ UNCHANGED <<contract, now, waited, run, loop, act, ledger, asked, yes, acts>>

\* The model raises a question for the report: halt, or a turn that changed nothing.
RaisesQuestion ==
    /\ pc = "thinking"
    /\ IF QuestionHalts(contract.controls)
       THEN /\ Finish("succeeded", "decision-needed")
            /\ UNCHANGED loop
       ELSE LET l == [loop EXCEPT !.noProgress = @ + 1]
            IN  loop' = l /\ TurnOver(l)
    /\ UNCHANGED <<contract, now, waited, run, act, ledger, asked, yes, acts>>

\* A proposal the gate refuses: the refused intent is recorded.  One that
\* needs the person's yes parks the run; any other counts towards both loops.
Refused(p) ==
    LET verdict == Authorize(policy, Proposed(p, loop.turn), RunContext(loop.turn))
    IN  /\ pc = "thinking"
        /\ ~Passes(policy, Proposed(p, loop.turn), RunContext(loop.turn))
        /\ IF verdict \in PausingRules
           THEN /\ asked' = [kind |-> p.kind, ref |-> p.ref, detail |-> p.detail,
                             element |-> ElementAt[loop.page]]
                /\ pc' = "asked"
                /\ UNCHANGED <<loop, ended>>
           ELSE LET l == [loop EXCEPT !.noProgress = @ + 1, !.refused = @ + 1]
                IN  loop' = l /\ TurnOver(l) /\ UNCHANGED asked
        /\ UNCHANGED <<contract, now, waited, run, act, ledger, yes, acts>>

\* An authorised proposal: the intent is committed before anything is done.
Authorised(p) ==
    /\ pc = "thinking"
    /\ Passes(policy, Proposed(p, loop.turn), RunContext(loop.turn))
    /\ loop' = [loop EXCEPT !.refused = 0]
    /\ act' = p
    /\ ledger' = [ledger EXCEPT
                    !.authorized = @ + 1,
                    !.mutating   = @ + (IF p.kind \in MutatingKinds THEN 1 ELSE 0),
                    !.charges    = @ + (IF p.kind \in PurchaseKinds THEN 1 ELSE 0)]
    /\ acts' = IF p.kind \in ConfirmableKinds
               THEN acts \union {[kind |-> p.kind, ref |-> p.ref, detail |-> p.detail,
                                  element |-> ElementAt[loop.page]]}
               ELSE acts
    /\ pc' = "acting"
    /\ UNCHANGED <<contract, now, waited, run, asked, yes, ended>>

-----------------------------------------------------------------------------
(* The effect, and what the loop makes of it.                              *)

\* Both caps, and the charge, count the attempt.
Spent(l) ==
    [l EXCEPT !.taken   = @ + 1,
              !.mutated = @ + (IF act.kind \in MutatingKinds THEN 1 ELSE 0),
              !.charged = @ + (IF act.kind \in PurchaseKinds THEN 1 ELSE 0)]

\* perform came back: a first look, or a kind that moves the work on, resets
\* the count of turns that changed nothing.
Performed(target, page) ==
    LET l == Spent(loop)
        moved == act.kind \in ProgressingKinds \/ (target # "none" /\ target \notin l.seen)
    IN  [l EXCEPT !.noProgress = IF moved THEN 0
                                 ELSE IF ProgressIsPossible THEN @ + 1 ELSE @,
                  !.seen = IF target = "none" THEN @ ELSE @ \union {target},
                  !.page = page]

\* Reading a source or the document, or drafting a section.
ActsOnDocuments ==
    /\ pc = "acting"
    /\ act.kind \in DocumentKinds
    /\ LET target == IF act.kind = "draft-section" THEN "none" ELSE act.kind
           l == Performed(target, loop.page)
       IN  loop' = l /\ TurnOver(l)
    /\ act' = NoAct
    /\ UNCHANGED <<contract, now, waited, run, ledger, asked, yes, acts>>

\* An action in the tab; every one but a picture brings the page it led to.
ActsInTheTab ==
    /\ pc = "acting"
    /\ act.kind \in Dispatchable
    /\ \E page \in IF act.kind = "capture-screen" THEN {loop.page} ELSE Pages :
            LET l == Performed("none", page)
            IN  loop' = l /\ TurnOver(l)
    /\ act' = NoAct
    /\ UNCHANGED <<contract, now, waited, run, ledger, asked, yes, acts>>

\* It failed: the outcome says so, the attempt is spent, and only losing the
\* tab means there is nothing left to act in.
Fails ==
    /\ pc = "acting"
    /\ \E failure \in Failures :
        LET l == [Spent(loop) EXCEPT !.noProgress  = @ + 1,
                                     !.controlLost = @ \/ failure = "control-lost"]
        IN  /\ act.kind \notin BrowserKinds => failure = "not-delivered"
            /\ act.kind \notin Dispatchable => failure = "not-delivered"
            /\ loop' = l
            /\ TurnOver(l)
    /\ act' = NoAct
    /\ UNCHANGED <<contract, now, waited, run, ledger, asked, yes, acts>>

Step == \/ Begin
        \/ Plan
        \/ Turn
        \/ Declines
        \/ RaisesQuestion
        \/ \E p \in Proposals : Refused(p) \/ Authorised(p)
        \/ ActsOnDocuments
        \/ ActsInTheTab
        \/ Fails

Next == Tick \/ AnswerYes \/ AnswerNo \/ Step

Spec == Init /\ [][Next]_vars

\* Every call the loop awaits answers or times out, so its process goes on.
FairSpec == Spec /\ WF_vars(Step)

-----------------------------------------------------------------------------
(* Properties.                                                             *)

Kinds == {p.kind : p \in Proposals}

Questions == [kind : Kinds, ref : {p.ref : p \in Proposals},
              detail : {p.detail : p \in Proposals},
              element : {ElementAt[page] : page \in Pages}]

\* Every variable holds a value of its kind.
TypeOK ==
    /\ contract \in [scope : Scopes, controls : Dialled]
    /\ now \in Nat /\ waited \in 0 .. now
    /\ run \in 1 .. MaxRuns
    /\ pc \in {"queued", "planning", "turn", "thinking", "acting", "asked", "ended"}
    /\ loop \in [turn : Nat, steps : 0 .. MaxPlanSteps, noProgress : Nat, refused : Nat,
                 taken : Nat, mutated : Nat, charged : Nat, page : Pages \union {NoPage},
                 seen : SUBSET DocumentKinds, controlLost : BOOLEAN]
    /\ act \in Proposals \union {NoAct}
    /\ ledger \in [authorized : Nat, mutating : Nat, charges : Nat]
    /\ asked \in Questions \union {NoAsk}
    /\ yes \subseteq Questions
    /\ acts \subseteq Questions
    /\ ended \in [status : {"none", "succeeded", "failed"}, rule : STRING]

\* However many runs carry the contract on, and whatever fails in them, its
\* rows never add up to more actions, more changes or more charges than the
\* person ratified (authorize with historyForContract's counts).
CapsHold ==
    /\ ledger.authorized <= MaxActions
    /\ ledger.mutating <= policy.maxMutating
    /\ ledger.charges <= (IF policy.purchase.granted THEN policy.purchase.maxCount ELSE 0)

\* Between two actions the counters a loop decides by are what its contract's
\* rows add up to: an action lost to a failure, or taken by an earlier run, is
\* counted once and not forgotten.
CountersMatchTheLedger ==
    pc \in {"planning", "turn", "thinking"} =>
        /\ loop.taken = ledger.authorized
        /\ loop.mutated = ledger.mutating
        /\ loop.charged = ledger.charges

\* An action at an element was shown to the person as that element: a yes of
\* this contract names the same kind, text and line of the tree.
YesCoversTheElementShown ==
    \A a \in acts : a.ref # "none" =>
        \E y \in yes : y.kind = a.kind /\ y.detail = a.detail /\ y.element = a.element

\* No action is authorised once the time spent working reaches the limit the
\* person set; waiting for their answer is not working.
AuthorisedInsideTheTimeLimit ==
    [][ledger'.authorized > ledger.authorized => now - waited < TimeLimit]_vars

\* Once the tab is lost nothing more is authorised in that run.
NothingAfterTheTabIsLost ==
    [][loop.controlLost /\ run' = run => ledger'.authorized = ledger.authorized]_vars

\* Whatever is proposed, refused, asked and answered, a run that began ends or
\* parks on a question.
RunEnds == (pc = "queued") ~> (pc \in {"ended", "asked"})
=============================================================================
