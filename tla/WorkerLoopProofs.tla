-------------------------- MODULE WorkerLoopProofs --------------------------
(***************************************************************************)
(* WorkerLoop for every contract, every bound and every list of proposals: *)
(* the counters a loop decides by are its contract's rows, so the caps     *)
(* hold across all its runs; nothing follows the loss of the tab.          *)
(*                                                                         *)
(* CapsHold is not inductive alone: Authorised compares the loop's         *)
(* counters and writes the rows, so the invariant says the two agree       *)
(* between actions and differ by the action in hand while acting.          *)
(***************************************************************************)
EXTENDS WorkerLoop, TLAPS

One(b) == IF b THEN 1 ELSE 0

\* What the counting needs of a loop's record, and of the rows'.
IsLoop(l) ==
    /\ DOMAIN l = {"turn", "steps", "noProgress", "refused", "taken", "mutated", "charged",
                   "page", "seen", "controlLost"}
    /\ l.taken \in Nat /\ l.mutated \in Nat /\ l.charged \in Nat
IsLedger(l) ==
    /\ DOMAIN l = {"authorized", "mutating", "charges"}
    /\ l.authorized \in Nat /\ l.mutating \in Nat /\ l.charges \in Nat

LoopInv ==
    /\ contract \in [scope : Scopes, controls : Dialled]
    /\ IsLoop(loop)
    /\ IsLedger(ledger)
    /\ CountersMatchTheLedger
    /\ pc = "acting" =>
        /\ ledger.authorized = loop.taken + 1
        /\ ledger.mutating = loop.mutated + One(act.kind \in MutatingKinds)
        /\ ledger.charges = loop.charged + One(act.kind \in PurchaseKinds)
        /\ act.kind \in ActionKinds
    /\ CapsHold

-----------------------------------------------------------------------------
(* What the gate's checks say of an authorised action.                     *)

\* An authorised action found room under each cap that counts it.
LEMMA PassesLeavesRoom ==
    ASSUME NEW pol, NEW p, NEW r, Passes(pol, p, r)
    PROVE  /\ ~(p.kind \notin ActionKinds)
           /\ ~(r.taken >= MaxActions)
           /\ ~(p.kind \in MutatingKinds /\ r.mutated >= pol.maxMutating)
           /\ ~(p.kind = "complete-purchase" /\ ~pol.purchase.granted)
           /\ ~(p.kind = "complete-purchase" /\ r.charged >= pol.purchase.maxCount)
  <1>1. \A i \in 1 .. 21 : ~Checks(pol, p, r)[i][1]
    <2>1. DOMAIN Checks(pol, p, r) = 1 .. 21
      BY DEF Checks
    <2>2. \A i \in DOMAIN Checks(pol, p, r) : ~Checks(pol, p, r)[i][1]
      BY DEF Passes
    <2> QED BY <2>1, <2>2
  <1>2. ~Checks(pol, p, r)[2][1] /\ ~Checks(pol, p, r)[4][1] /\ ~Checks(pol, p, r)[5][1]
    BY <1>1
  <1>3. ~Checks(pol, p, r)[15][1] /\ ~Checks(pol, p, r)[20][1]
    BY <1>1
  <1>4. ~(p.kind \notin ActionKinds) /\ ~(r.taken >= MaxActions)
    BY <1>2 DEF Checks
  <1>5. ~(p.kind \in MutatingKinds /\ r.mutated >= pol.maxMutating)
    BY <1>2 DEF Checks
  <1>6. ~(p.kind = "complete-purchase" /\ ~pol.purchase.granted)
    BY <1>3 DEF Checks
  <1>7. ~(p.kind = "complete-purchase" /\ r.charged >= pol.purchase.maxCount)
    BY <1>3 DEF Checks
  <1> QED BY <1>4, <1>5, <1>6, <1>7

\* An authorised action was proposed before the deadline.
LEMMA PassesInTime ==
    ASSUME NEW pol, NEW p, NEW r, Passes(pol, p, r)
    PROVE  ~(r.now >= r.deadline)
  <1>1. DOMAIN Checks(pol, p, r) = 1 .. 21
    BY DEF Checks
  <1>2. ~Checks(pol, p, r)[1][1]
    BY <1>1 DEF Passes
  <1> QED BY <1>2 DEF Checks

\* The caps a contract compiles to are numbers.
LEMMA CapsAreNumbers ==
    ASSUME contract \in [scope : Scopes, controls : Dialled]
    PROVE  /\ policy.maxMutating \in Nat
           /\ policy.purchase.maxCount \in Nat
  <1>1. contract.scope \in Scopes
    OBVIOUS
  <1>2. contract.scope.purchase.maxCount \in Nat
    BY <1>1, LoopAssumption
  <1>3. policy.purchase.maxCount \in Nat
    BY <1>2 DEF policy, CompilePolicy
  <1>4. policy.maxMutating \in Nat
    BY PolicyAssumption DEF policy, CompilePolicy
  <1> QED BY <1>3, <1>4

-----------------------------------------------------------------------------
(* The invariant.                                                          *)

LEMMA InitLoopInv == Init => LoopInv
  <1> SUFFICES ASSUME Init PROVE LoopInv
    OBVIOUS
  <1>1. contract \in [scope : Scopes, controls : Dialled]
    BY DEF Init
  <1>2. IsLoop(loop)
    BY DEF Init, LoopAtRest, IsLoop
  <1>3. IsLedger(ledger)
    BY DEF Init, IsLedger
  <1>4. CapsHold
    BY <1>1, CapsAreNumbers, PolicyAssumption DEF Init, CapsHold
  <1> QED BY <1>1, <1>2, <1>3, <1>4 DEF Init, LoopInv, CountersMatchTheLedger

\* A step that leaves the rows and the three counters alone, and neither
\* starts nor ends an action.
LEMMA CountersKept ==
    ASSUME LoopInv, UNCHANGED <<contract, ledger>>,
           IsLoop(loop'),
           loop'.taken = loop.taken, loop'.mutated = loop.mutated, loop'.charged = loop.charged,
           \/ pc' = pc
           \/ pc' \in {"queued", "asked", "ended"}
           \/ pc \in {"planning", "turn", "thinking"} /\ pc' # "acting",
           act' = act
    PROVE  LoopInv'
  <1>1. policy' = policy
    BY DEF policy
  <1>2. CapsHold'
    BY <1>1 DEF LoopInv, CapsHold
  <1>3. CountersMatchTheLedger'
    BY DEF LoopInv, CountersMatchTheLedger
  <1> QED BY <1>2, <1>3 DEF LoopInv

\* An action ends: its attempt is spent, whatever came of it.
LEMMA SpentMatches ==
    ASSUME LoopInv, pc = "acting", pc' # "acting", UNCHANGED contract,
           IsLedger(ledger'),
           ledger'.authorized = ledger.authorized, ledger'.mutating = ledger.mutating,
           ledger'.charges = ledger.charges,
           IsLoop(loop'),
           loop'.taken = Spent(loop).taken, loop'.mutated = Spent(loop).mutated,
           loop'.charged = Spent(loop).charged
    PROVE  LoopInv'
  <1>1. policy' = policy
    BY DEF policy
  <1>2. CapsHold'
    BY <1>1 DEF LoopInv, CapsHold
  <1>3. /\ loop'.taken = ledger.authorized
        /\ loop'.mutated = ledger.mutating
        /\ loop'.charged = ledger.charges
    BY DEF LoopInv, Spent, One, IsLoop, IsLedger
  <1> QED BY <1>2, <1>3 DEF LoopInv, CountersMatchTheLedger

LEMMA StepLoopInv == LoopInv /\ [Next]_vars => LoopInv'
  <1> SUFFICES ASSUME LoopInv, [Next]_vars PROVE LoopInv'
    OBVIOUS
  <1>0. IsLoop(loop)
    BY DEF LoopInv
  <1>1. CASE Tick
    <2>1. contract' = contract /\ ledger' = ledger /\ loop' = loop /\ pc' = pc /\ act' = act
      BY <1>1 DEF Tick
    <2>2. IsLoop(loop')
      BY <1>0, <2>1 DEF IsLoop
    <2> QED BY <2>1, <2>2, CountersKept
  <1>2. CASE AnswerYes
    BY <1>0, <1>2, CountersKept DEF AnswerYes
  <1>3. CASE AnswerNo
    BY <1>0, <1>3, CountersKept DEF AnswerNo
  <1>4. CASE Begin
    <2>1. loop' = Rebuilt /\ UNCHANGED <<contract, ledger, act>> /\ pc' # "acting"
      BY <1>4 DEF Begin, Finish
    <2>2. IsLedger(ledger)
      BY DEF LoopInv
    <2>3. IsLoop(Rebuilt)
      BY <2>2 DEF Rebuilt, LoopAtRest, IsLoop, IsLedger
    <2>4. /\ Rebuilt.taken = ledger.authorized
          /\ Rebuilt.mutated = ledger.mutating
          /\ Rebuilt.charged = ledger.charges
      BY DEF Rebuilt, LoopAtRest
    <2>5. CapsHold'
      BY <2>1 DEF LoopInv, CapsHold, policy
    <2> QED BY <2>1, <2>2, <2>3, <2>4, <2>5 DEF LoopInv, CountersMatchTheLedger
  <1>5. CASE Plan
    <2>1. /\ pc = "planning" /\ pc' \in {"turn", "ended"}
          /\ UNCHANGED <<contract, ledger, act>>
      BY <1>5 DEF Plan, Finish
    <2>2. loop' = loop \/ \E n \in 1 .. MaxPlanSteps : loop' = [loop EXCEPT !.steps = n]
      BY <1>5 DEF Plan
    <2>3. 1 .. MaxPlanSteps \subseteq Nat
      BY PolicyAssumption
    <2>4. /\ IsLoop(loop')
          /\ loop'.taken = loop.taken /\ loop'.mutated = loop.mutated
          /\ loop'.charged = loop.charged
      BY <1>0, <2>2, <2>3 DEF IsLoop
    <2> QED BY <2>1, <2>4, CountersKept
  <1>6. CASE Turn
    <2>1. /\ pc = "turn" /\ pc' \in {"thinking", "ended"}
          /\ UNCHANGED <<contract, ledger, act>>
      BY <1>6 DEF Turn, Finish
    <2>2. loop' = loop \/ loop' = [loop EXCEPT !.turn = @ + 1]
      BY <1>6 DEF Turn
    <2>3. /\ IsLoop(loop')
          /\ loop'.taken = loop.taken /\ loop'.mutated = loop.mutated
          /\ loop'.charged = loop.charged
      BY <1>0, <2>2 DEF IsLoop
    <2> QED BY <2>1, <2>3, CountersKept
  <1>7. CASE Declines
    BY <1>0, <1>7, CountersKept DEF Declines, Finish
  <1>8. CASE RaisesQuestion
    <2>1. /\ pc = "thinking" /\ pc' \in {"turn", "ended"}
          /\ UNCHANGED <<contract, ledger, act>>
      BY <1>8 DEF RaisesQuestion, Finish, TurnOver
    <2>2. loop' = loop \/ loop' = [loop EXCEPT !.noProgress = @ + 1]
      BY <1>8 DEF RaisesQuestion
    <2>3. /\ IsLoop(loop')
          /\ loop'.taken = loop.taken /\ loop'.mutated = loop.mutated
          /\ loop'.charged = loop.charged
      BY <1>0, <2>2 DEF IsLoop
    <2> QED BY <2>1, <2>3, CountersKept
  <1>9. ASSUME NEW p \in Proposals, Refused(p) PROVE LoopInv'
    <2>1. /\ pc = "thinking" /\ pc' \in {"turn", "ended", "asked"}
          /\ UNCHANGED <<contract, ledger, act>>
      BY <1>9 DEF Refused, Finish, TurnOver
    <2>2. \/ loop' = loop
          \/ loop' = [[loop EXCEPT !.noProgress = loop.noProgress + 1]
                        EXCEPT !.refused = loop.refused + 1]
      BY <1>9, <1>0 DEF Refused
    <2>3. /\ IsLoop(loop')
          /\ loop'.taken = loop.taken /\ loop'.mutated = loop.mutated
          /\ loop'.charged = loop.charged
      BY <1>0, <2>2 DEF IsLoop
    <2> QED BY <2>1, <2>3, CountersKept
  <1>10. ASSUME NEW p \in Proposals, Authorised(p) PROVE LoopInv'
    <2> DEFINE q == Proposed(p, loop.turn)
               r == RunContext(loop.turn)
    <2>1. /\ pc = "thinking" /\ pc' = "acting" /\ act' = p /\ UNCHANGED contract
          /\ loop' = [loop EXCEPT !.refused = 0]
          /\ ledger' = [ledger EXCEPT
                          !.authorized = @ + 1,
                          !.mutating   = @ + (IF p.kind \in MutatingKinds THEN 1 ELSE 0),
                          !.charges    = @ + (IF p.kind \in PurchaseKinds THEN 1 ELSE 0)]
      BY <1>10 DEF Authorised
    <2>2. Passes(policy, q, r)
      BY <1>10 DEF Authorised
    <2>3. q.kind = p.kind /\ r.taken = loop.taken /\ r.mutated = loop.mutated
          /\ r.charged = loop.charged
      BY DEF Proposed, RunContext
    <2>4. /\ p.kind \in ActionKinds
          /\ ~(loop.taken >= MaxActions)
          /\ ~(p.kind \in MutatingKinds /\ loop.mutated >= policy.maxMutating)
          /\ ~(p.kind = "complete-purchase" /\ ~policy.purchase.granted)
          /\ ~(p.kind = "complete-purchase" /\ loop.charged >= policy.purchase.maxCount)
      <3> HIDE DEF q, r
      <3> QED BY <2>2, <2>3, PassesLeavesRoom
    <2>5. /\ loop.taken = ledger.authorized
          /\ loop.mutated = ledger.mutating
          /\ loop.charged = ledger.charges
      BY <2>1 DEF LoopInv, CountersMatchTheLedger
    <2>6. IsLedger(ledger)
      BY DEF LoopInv
    <2>7. /\ ledger'.authorized = ledger.authorized + 1
          /\ ledger'.mutating = ledger.mutating + One(p.kind \in MutatingKinds)
          /\ ledger'.charges = ledger.charges + One(p.kind \in PurchaseKinds)
          /\ IsLedger(ledger')
      BY <2>1, <2>6 DEF One, IsLedger
    <2>8. /\ IsLoop(loop')
          /\ loop'.taken = loop.taken /\ loop'.mutated = loop.mutated
          /\ loop'.charged = loop.charged
      BY <1>0, <2>1 DEF IsLoop
    <2>9. policy' = policy
      BY <2>1 DEF policy
    <2>10. CapsHold'
      <3>1. policy.maxMutating \in Nat /\ policy.purchase.maxCount \in Nat
        BY CapsAreNumbers DEF LoopInv
      <3>2. ledger'.authorized <= MaxActions
        BY <2>4, <2>5, <2>6, <2>7, PolicyAssumption DEF IsLedger
      <3>3. ledger'.mutating <= policy.maxMutating
        BY <2>4, <2>5, <2>6, <2>7, <3>1 DEF One, IsLedger, LoopInv, CapsHold
      <3>4. ledger'.charges <= (IF policy.purchase.granted
                                THEN policy.purchase.maxCount ELSE 0)
        BY <2>4, <2>5, <2>6, <2>7, <3>1 DEF One, IsLedger, LoopInv, CapsHold, PurchaseKinds
      <3> QED BY <2>9, <3>2, <3>3, <3>4 DEF CapsHold
    <2> QED BY <2>1, <2>4, <2>5, <2>7, <2>8, <2>10 DEF LoopInv, CountersMatchTheLedger
  <1>11. CASE ActsOnDocuments
    <2>1. PICK target : loop' = Performed(target, loop.page)
      BY <1>11 DEF ActsOnDocuments
    <2>2. pc = "acting" /\ pc' # "acting" /\ UNCHANGED <<contract, ledger>>
      BY <1>11 DEF ActsOnDocuments, TurnOver, Finish
    <2>3. /\ IsLoop(loop')
          /\ loop'.taken = Spent(loop).taken /\ loop'.mutated = Spent(loop).mutated
          /\ loop'.charged = Spent(loop).charged
      BY <1>0, <2>1 DEF Performed, Spent, IsLoop
    <2> QED BY <2>2, <2>3, SpentMatches DEF LoopInv
  <1>12. CASE ActsInTheTab
    <2>1. PICK page : loop' = Performed("none", page)
      BY <1>12 DEF ActsInTheTab
    <2>2. pc = "acting" /\ pc' # "acting" /\ UNCHANGED <<contract, ledger>>
      BY <1>12 DEF ActsInTheTab, TurnOver, Finish
    <2>3. /\ IsLoop(loop')
          /\ loop'.taken = Spent(loop).taken /\ loop'.mutated = Spent(loop).mutated
          /\ loop'.charged = Spent(loop).charged
      BY <1>0, <2>1 DEF Performed, Spent, IsLoop
    <2> QED BY <2>2, <2>3, SpentMatches DEF LoopInv
  <1>13. CASE Fails
    <2>1. PICK failure \in Failures :
             loop' = [Spent(loop) EXCEPT !.noProgress  = @ + 1,
                                         !.controlLost = @ \/ failure = "control-lost"]
      BY <1>13 DEF Fails
    <2>2. pc = "acting" /\ pc' # "acting" /\ UNCHANGED contract
      BY <1>13 DEF Fails, TurnOver, Finish
    <2>3. /\ IsLedger(ledger')
          /\ ledger'.authorized = ledger.authorized /\ ledger'.mutating = ledger.mutating
          /\ ledger'.charges = ledger.charges
      BY <1>13 DEF Fails, LoopInv, IsLedger
    <2>4. /\ IsLoop(loop')
          /\ loop'.taken = Spent(loop).taken /\ loop'.mutated = Spent(loop).mutated
          /\ loop'.charged = Spent(loop).charged
      BY <1>0, <2>1 DEF Spent, IsLoop
    <2> QED BY <2>2, <2>3, <2>4, SpentMatches
  <1>14. CASE UNCHANGED vars
    <2>1. contract' = contract /\ ledger' = ledger /\ loop' = loop /\ pc' = pc /\ act' = act
      BY <1>14 DEF vars
    <2>2. IsLoop(loop')
      BY <1>0, <2>1 DEF IsLoop
    <2> QED BY <2>1, <2>2, CountersKept
  <1> QED BY <1>1, <1>2, <1>3, <1>4, <1>5, <1>6, <1>7, <1>8, <1>9, <1>10, <1>11, <1>12,
             <1>13, <1>14 DEF Next, Step

\* The strengthening holds in every state.
THEOREM LoopInvariant == Spec => []LoopInv
  BY InitLoopInv, StepLoopInv, PTL DEF Spec

\* A contract's rows never add up to more actions, changes or charges than its
\* ratified caps, over any number of runs.
THEOREM CapsAreKept == Spec => []CapsHold
  <1>1. LoopInv => CapsHold
    BY DEF LoopInv
  <1> QED BY <1>1, LoopInvariant, PTL

\* Between actions the loop decides by what its contract's rows add up to.
THEOREM CountersAreTheLedger == Spec => []CountersMatchTheLedger
  <1>1. LoopInv => CountersMatchTheLedger
    BY DEF LoopInv
  <1> QED BY <1>1, LoopInvariant, PTL

-----------------------------------------------------------------------------
(* The time limit.                                                         *)

ClockInv == now \in Nat /\ waited \in Nat

LEMMA ClockInvariant == Spec => []ClockInv
  <1>1. Init => ClockInv
    BY DEF Init, ClockInv
  <1>2. ClockInv /\ [Next]_vars => ClockInv'
    <2> SUFFICES ASSUME ClockInv, [Next]_vars PROVE ClockInv'
      OBVIOUS
    <2>1. CASE Tick
      BY <2>1 DEF Tick, ClockInv
    <2>2. CASE UNCHANGED <<now, waited>>
      BY <2>2 DEF ClockInv
    <2> QED
      BY <2>1, <2>2 DEF Next, Step, vars, AnswerYes, AnswerNo, Begin, Plan, Turn, Declines,
                        RaisesQuestion, Refused, Authorised, ActsOnDocuments, ActsInTheTab, Fails
  <1> QED BY <1>1, <1>2, PTL DEF Spec

\* Only a proposal the gate authorised adds to a contract's authorised rows.
LEMMA OnlyAuthorisedAddsRows ==
    ASSUME LoopInv, [Next]_vars, ledger'.authorized > ledger.authorized
    PROVE  \E p \in Proposals : Authorised(p)
  <1>1. IsLedger(ledger)
    BY DEF LoopInv
  <1>2. CASE Fails
    <2>1. ledger'.authorized = ledger.authorized
      BY <1>1, <1>2 DEF Fails, IsLedger
    <2> QED BY <1>1, <2>1 DEF IsLedger
  <1>3. CASE UNCHANGED ledger
    BY <1>1, <1>3 DEF IsLedger
  <1> QED
    BY <1>2, <1>3 DEF Next, Step, vars, Tick, AnswerYes, AnswerNo, Begin, Plan, Turn, Declines,
                      RaisesQuestion, Refused, ActsOnDocuments, ActsInTheTab

\* No action is authorised once the time spent working reaches the limit.
THEOREM WorksInsideTheTimeLimit == Spec => AuthorisedInsideTheTimeLimit
  <1>1. LoopInv /\ ClockInv /\ [Next]_vars
          => [ledger'.authorized > ledger.authorized => now - waited < TimeLimit]_vars
    <2> SUFFICES ASSUME LoopInv, ClockInv, [Next]_vars,
                        ledger'.authorized > ledger.authorized
                 PROVE  now - waited < TimeLimit
      OBVIOUS
    <2>1. PICK p \in Proposals : Authorised(p)
      BY OnlyAuthorisedAddsRows
    <2> DEFINE q == Proposed(p, loop.turn)
               r == RunContext(loop.turn)
    <2>2. Passes(policy, q, r)
      BY <2>1 DEF Authorised
    <2>3. r.now = now /\ r.deadline = deadline
      BY DEF RunContext
    <2>4. ~(r.now >= r.deadline)
      <3> HIDE DEF q, r
      <3> QED BY <2>2, PassesInTime
    <2>5. deadline \in Nat /\ deadline <= TimeLimit + waited
      BY LoopAssumption, PolicyAssumption DEF deadline, DeadlineFor, ClockInv
    <2> QED BY <2>3, <2>4, <2>5, LoopAssumption DEF ClockInv
  <1> QED BY <1>1, LoopInvariant, ClockInvariant, PTL DEF Spec, AuthorisedInsideTheTimeLimit

-----------------------------------------------------------------------------
(* What a yes covers.                                                      *)

\* Nothing is known of an element, so an authorised action at one was confirmed.
LEMMA PassesConfirmed ==
    ASSUME NEW pol, NEW p, NEW r, Passes(pol, p, r),
           p.kind \in ConfirmableKinds, r.evidence = NoEvidence
    PROVE  p.confirmed
  <1>1. DOMAIN Checks(pol, p, r) = 1 .. 21
    BY DEF Checks
  <1>2. ~Checks(pol, p, r)[21][1]
    BY <1>1 DEF Passes
  <1>3. ~(RequiresConfirmation(p.kind, EvidenceFor(p, r)) /\ ~p.confirmed)
    BY <1>2 DEF Checks
  <1>4. EvidenceFor(p, r) = NoEvidence
    BY DEF EvidenceFor
  <1>5. RequiresConfirmation(p.kind, NoEvidence)
    BY DEF RequiresConfirmation, NoEvidence
  <1> QED BY <1>3, <1>4, <1>5

\* However pages change between the question and the act, an action at an
\* element was shown to the person as that element.
THEOREM YesAlwaysCoversTheElement == Spec => []YesCoversTheElementShown
  <1>1. Init => YesCoversTheElementShown
    BY DEF Init, YesCoversTheElementShown
  <1>2. YesCoversTheElementShown /\ [Next]_vars => YesCoversTheElementShown'
    <2> SUFFICES ASSUME YesCoversTheElementShown, [Next]_vars
                 PROVE  YesCoversTheElementShown'
      OBVIOUS
    <2>1. CASE yes \subseteq yes' /\ acts' = acts
      BY <2>1 DEF YesCoversTheElementShown
    <2>2. ASSUME NEW p \in Proposals, Authorised(p) PROVE YesCoversTheElementShown'
      <3> DEFINE q == Proposed(p, loop.turn)
                 r == RunContext(loop.turn)
                 a == [kind |-> p.kind, ref |-> p.ref, detail |-> p.detail,
                       element |-> ElementAt[loop.page]]
      <3>1. yes' = yes /\ acts' \subseteq acts \union {a}
        BY <2>2 DEF Authorised
      <3>2. CASE p.kind \notin ConfirmableKinds
        BY <2>1, <2>2, <3>2 DEF Authorised
      <3>3. CASE p.kind \in ConfirmableKinds /\ p.ref # "none"
        <4>1. Passes(policy, q, r) /\ q.kind = p.kind /\ r.evidence = NoEvidence
          BY <2>2 DEF Authorised, Proposed, RunContext
        <4>2. q.confirmed
          <5> HIDE DEF q, r
          <5> QED BY <3>3, <4>1, PassesConfirmed
        <4>3. PICK y \in yes : CoveredBy(p, y)
          BY <4>2 DEF Proposed
        <4>4. y.kind = a.kind /\ y.detail = a.detail /\ y.element = a.element
          BY <3>3, <4>3 DEF CoveredBy
        <4> HIDE DEF a
        <4> QED BY <3>1, <4>4 DEF YesCoversTheElementShown
      <3>4. CASE p.kind \in ConfirmableKinds /\ p.ref = "none"
        <4>1. a.ref = "none"
          BY <3>4
        <4> HIDE DEF a
        <4> QED BY <3>1, <4>1 DEF YesCoversTheElementShown
      <3> QED BY <3>2, <3>3, <3>4
    <2> QED
      BY <2>1, <2>2 DEF Next, Step, vars, Tick, AnswerYes, AnswerNo, Begin, Plan, Turn, Declines,
                        RaisesQuestion, Refused, ActsOnDocuments, ActsInTheTab, Fails
  <1> QED BY <1>1, <1>2, PTL DEF Spec

-----------------------------------------------------------------------------
(* The loss of the tab.                                                    *)

\* A stop rule that fired is never hidden by another.
LEMMA LostMeansStop ==
    ASSUME NEW p, p.controlLost
    PROVE  ShouldStop(p) # "none"
  <1> DEFINE stops == StructuralStops(p)
             fired == {i \in DOMAIN stops : stops[i][1]}
             first == CHOOSE i \in fired : \A j \in fired : i <= j
  <1>1. DOMAIN stops = 1 .. 5 /\ stops[4][1]
    BY DEF StructuralStops
  <1>2. 4 \in fired /\ fired \subseteq 1 .. 5
    BY <1>1
  <1>3. \E i \in fired : \A j \in fired : i <= j
    <2> HIDE DEF fired
    <2>1. 1 \in fired \/ 2 \in fired \/ 3 \in fired \/ 4 \in fired
      BY <1>2
    <2> QED BY <1>2, <2>1
  <1>4. first \in 1 .. 5
    <2> HIDE DEF fired
    <2> QED BY <1>2, <1>3
  <1>5. \A i \in 1 .. 5 : stops[i][2] # "none"
    BY DEF StructuralStops
  <1>6. ShouldStop(p) = stops[first][2]
    BY <1>2 DEF ShouldStop
  <1> HIDE DEF stops, fired, first
  <1> QED BY <1>4, <1>5, <1>6

\* A loop that lost its tab has ended.
LostHasEnded ==
    /\ IsLoop(loop)
    /\ loop.controlLost => pc = "ended"

\* Nothing is authorised in a run after its tab was lost.
THEOREM NothingFollowsTheTab == Spec => NothingAfterTheTabIsLost
  <1>1. Init => LostHasEnded
    BY DEF Init, LostHasEnded, LoopAtRest, IsLoop
  <1>2. LoopInv /\ LoopInv' /\ LostHasEnded /\ [Next]_vars => LostHasEnded'
    <2> SUFFICES ASSUME LoopInv, LoopInv', LostHasEnded, [Next]_vars, loop'.controlLost
                 PROVE  pc' = "ended"
      BY DEF LostHasEnded, LoopInv
    <2>1. CASE loop' = loop /\ (pc = "ended" => pc' = "ended")
      BY <2>1 DEF LostHasEnded
    <2>2. CASE Begin
      BY <2>2 DEF Begin, Rebuilt, LoopAtRest
    <2>3. CASE Plan
      BY <2>3 DEF Plan, Finish, LostHasEnded, IsLoop
    <2>4. CASE Turn
      BY <2>4 DEF Turn, Finish, LostHasEnded, IsLoop
    <2>5. ASSUME TurnOver(loop') PROVE pc' = "ended"
      <3>1. Progress(loop').controlLost
        BY DEF Progress
      <3>2. ShouldStop(Progress(loop')) # "none"
        BY <3>1, LostMeansStop
      <3> QED BY <2>5, <3>2 DEF TurnOver, Finish
    <2>6. CASE RaisesQuestion
      BY <2>1, <2>5, <2>6 DEF RaisesQuestion, Finish
    <2>7. ASSUME NEW p \in Proposals, Refused(p) PROVE pc' = "ended"
      BY <2>1, <2>5, <2>7 DEF Refused
    <2>8. ASSUME NEW p \in Proposals, Authorised(p) PROVE pc' = "ended"
      BY <2>8 DEF Authorised, LostHasEnded, IsLoop
    <2>9. CASE ActsOnDocuments
      BY <2>5, <2>9 DEF ActsOnDocuments
    <2>10. CASE ActsInTheTab
      BY <2>5, <2>10 DEF ActsInTheTab
    <2>11. CASE Fails
      BY <2>5, <2>11 DEF Fails
    <2> QED
      BY <2>1, <2>2, <2>3, <2>4, <2>6, <2>7, <2>8, <2>9, <2>10, <2>11
         DEF Next, Step, vars, Tick, AnswerYes, AnswerNo, Declines, Finish
  <1>3. Spec => []LostHasEnded
    BY <1>1, <1>2, LoopInvariant, PTL DEF Spec
  <1>4. LoopInv /\ LostHasEnded /\ [Next]_vars
          => [loop.controlLost /\ run' = run => ledger'.authorized = ledger.authorized]_vars
    <2> SUFFICES ASSUME LoopInv, LostHasEnded, [Next]_vars, loop.controlLost
                 PROVE  ledger' = ledger
      OBVIOUS
    <2>1. pc = "ended"
      BY DEF LostHasEnded
    <2> QED
      BY <2>1 DEF Next, Step, vars, Tick, AnswerYes, AnswerNo, Begin, Plan, Turn, Declines,
                  RaisesQuestion, Refused, Authorised, ActsOnDocuments, ActsInTheTab, Fails
  <1> QED BY <1>3, <1>4, LoopInvariant, PTL DEF Spec, NothingAfterTheTabIsLost
=============================================================================
