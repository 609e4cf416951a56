--------------------------- MODULE AgentRunsProofs ---------------------------
(***************************************************************************)
(* Theorems about AgentRuns, for any number of workers, requests and rows. *)
(*                                                                         *)
(* A few rules say how a step may change each part of the state; IInv is   *)
(* shown to follow from them without a look at the actions.  Three further *)
(* promises hold only where the code's own arrangement is assumed: one     *)
(* worker process, or one request at a time.  Each has an invariant of its *)
(* own, and says which of the two it needs.                                *)
(***************************************************************************)
EXTENDS AgentRuns, TLAPS

\* A process at one of these labels has a run in its hands.
Holding == Labels \ {"down", "idle", "sweep", "expiring", "settle-all"}

\* Those of them at which the run is the one the process claimed.
Executing == Driving \union {"threw", "cancelled", "settle"}

\* Rows are written in order, and nothing refers to one not yet written.
RowsInOrder ==
    /\ \A r \in Runs : status[r] = "absent" <=> r > rows
    /\ \A r \in Runs : resumes[r] <= rows
    /\ \A w \in Workers : wrun[w] <= rows
    /\ \A w \in Workers : wpc[w] \in Holding => wrun[w] # 0
    /\ \A h \in Handlers : hrun[h] <= rows
    /\ \A h \in Handlers : hpc[h] # "idle" => hrun[h] # 0

\* The row a process executes names it, left the queue and asked nothing yet.
ClaimedRun ==
    \A w \in Workers : wpc[w] \in Executing =>
        /\ claimedBy[wrun[w]] = w
        /\ status[wrun[w]] # "pending"
        /\ question[wrun[w]] = "none"

\* A reviewer row is enqueued only once the reviewed run has ended.
ReviewedRun == \A w \in Workers : wpc[w] = "review" => status[wrun[w]] \in Ended

\* A worker waiting for a result has recorded what it is waiting for.
ActingRun == \A w \in Workers : wpc[w] = "act" => ledger[wrun[w]] # << >>

\* A question a sweep has read, or a request is answering, has been asked.
AskedQuestions ==
    /\ \A w \in Workers : \A r \in wexp[w] : question[r] # "none"
    /\ \A h \in Handlers : hpc[h] \in {"confirm", "reject"} => question[hrun[h]] # "none"

\* One request holds the yes it recorded, and has not spent it.
YesInHand ==
    /\ \A h \in Handlers : hpc[h] = "continue" =>
          /\ question[hrun[h]] = "confirmed"
          /\ \A r \in Runs : resumes[r] # hrun[h]
    /\ \A h, g \in Handlers :
          hpc[h] = "continue" /\ hpc[g] = "continue" /\ hrun[h] = hrun[g] => h = g

IInv ==
    /\ TypeOK
    /\ RowsInOrder
    /\ ClaimedRun
    /\ ReviewedRun
    /\ ActingRun
    /\ AskedQuestions
    /\ YesInHand
    /\ ParkedOnAQuestion
    /\ OneMover
    /\ TokenFollowsTheRun
    /\ AYesIsSpentOnce
-----------------------------------------------------------------------------
(* How a step may change each part of the state.                           *)

\* Only a review or a continuation adds a row.
RowsRule ==
    \/ rows' = rows
    \/ \E w \in Workers : EnqueueReview(w)
    \/ \E h \in Handlers : Continue(h)

\* A row is written once, at the end; it is queued only then, and once it has
\* ended it stays ended.  It is parked together with its question, named by the
\* worker that takes it from the queue, and loses its credential as it ends.
RowRule ==
    \A r \in Runs :
        /\ status'[r] = "absent" <=> r > rows'
        /\ status[r] \in Ended => status'[r] \in Ended
        /\ status'[r] \in Open => status[r] \in Open \/ (r = rows + 1 /\ rows' = rows + 1)
        /\ status'[r] = "pending" => status[r] = "pending" \/ r = rows + 1
        /\ status'[r] = "awaiting-confirmation" =>
              status[r] = "awaiting-confirmation" \/ question'[r] = "open"
        /\ token'[r] => status'[r] \in Live
        /\ claimedBy'[r] = claimedBy[r] \/ status[r] = "pending"

\* A continuation is written by the request that holds the yes, and spends it.
ResumesRule ==
    /\ \A r \in Runs : resumes'[r] <= rows'
    /\ \A r \in Runs : resumes'[r] # resumes[r] =>
        /\ r = rows + 1
        /\ resumes'[r] = 0 \/ \E h \in Handlers :
              hpc[h] = "continue" /\ resumes'[r] = hrun[h] /\ hpc'[h] = "idle"

\* Intents are only added, and an outcome is not replaced.
LedgerRule ==
    \A r \in Runs :
        /\ Len(ledger[r]) <= Len(ledger'[r])
        /\ \A i \in 1 .. Len(ledger[r]) : ledger[r][i] # "open" => ledger'[r][i] = ledger[r][i]

\* A question is asked by the worker that parks its run, and keeps its verdict.
QuestionRule ==
    \A r \in Runs :
        /\ question[r] # "none" => question'[r] # "none"
        /\ question[r] \in {"confirmed", "rejected"} => question'[r] = question[r]
        /\ question'[r] # "none" => question[r] # "none" \/ \E w \in Workers :
              /\ wpc[w] = "park" /\ wrun[w] = r /\ wpc'[w] = "idle"
              /\ status'[r] = "awaiting-confirmation"

\* A worker changes its run by claiming, by enqueuing a review or by expiring a
\* question, and it executes no run but the one it claimed.
WorkerRule ==
    \A w \in Workers :
        /\ wrun'[w] <= rows'
        /\ wpc'[w] \in Holding => wrun'[w] # 0
        /\ wpc'[w] \in Executing =>
            \/ wpc[w] \in Executing /\ wrun'[w] = wrun[w]
            \/ /\ status[wrun'[w]] = "pending" /\ status'[wrun'[w]] = "claimed"
               /\ claimedBy'[wrun'[w]] = w
        /\ wpc'[w] \in Driving =>
              (wpc[w] \in Driving /\ wrun'[w] = wrun[w]) \/ status[wrun'[w]] = "pending"
        /\ wpc'[w] = "review" =>
              wrun'[w] = wrun[w] /\ (wpc[w] = "review" \/ status'[wrun[w]] \in Ended)
        /\ wpc'[w] = "act" => wrun'[w] = wrun[w] /\ (wpc[w] = "act" \/ ledger'[wrun[w]] # << >>)
        /\ wexp'[w] \subseteq {r \in Runs : question[r] # "none"}

\* A request answers an asked question, and only one comes to hold its yes.
AppRule ==
    \A h \in Handlers :
        /\ hrun'[h] <= rows'
        /\ hpc'[h] # "idle" => hrun'[h] # 0
        /\ hpc'[h] \in {"confirm", "reject"} => question[hrun'[h]] # "none"
        /\ hpc'[h] = "continue" =>
            /\ hrun'[h] = hrun[h]
            /\ \/ hpc[h] = "continue"
               \/ /\ hpc[h] = "confirm" /\ question[hrun[h]] = "open"
                  /\ question'[hrun[h]] = "confirmed"
                  /\ \A g \in Handlers \ {h} : hpc'[g] = hpc[g] /\ hrun'[g] = hrun[g]

-----------------------------------------------------------------------------
(* Every step keeps the types.                                             *)

\* An update that ends a row writes values of the columns.
LEMMA EndRowTyped ==
  ASSUME RowTypes, NEW r, NEW s \in Ended, NEW why \in Reasons, EndRow(r, s, why)
  PROVE  RowTypes'
  BY DEF EndRow, RowTypes, Open, Live, Ended, Reasons

\* So does an insert at the end of the queue.
LEMMA EnqueueTyped ==
  ASSUME RowTypes, NEW kind \in {"worker", "reviewer"}, NEW from \in Runs \union {0},
         Enqueue(kind, from)
  PROVE  RowTypes'
  BY RunsAssumption DEF Enqueue, RowTypes, Runs, Open, Live, Ended, Reasons

\* Settling what others left open writes outcomes.
LEMMA RecoverTyped ==
  ASSUME LedgerTypes, NEW these, RecoverOpen(these), UNCHANGED late
  PROVE  LedgerTypes'
<1>1. ASSUME NEW r \in Runs PROVE ledger'[r] \in Seq(Outcomes)
  <2>1. ledger[r] \in Seq(Outcomes)
    BY DEF LedgerTypes
  <2>2. \A i \in 1 .. Len(ledger[r]) : Recovered(ledger[r][i]) \in Outcomes
    BY <2>1 DEF Recovered, Outcomes
  <2> QED BY <2>1, <2>2 DEF RecoverOpen
<1> QED BY <1>1 DEF LedgerTypes, RecoverOpen

\* Every step of every process keeps the columns and counters to their values.
LEMMA TypeStep == IInv /\ [Next]_vars => TypeOK'
<1> SUFFICES ASSUME TypeOK, RowsInOrder, ActingRun, [Next]_vars PROVE TypeOK'
  BY DEF IInv
<1> USE RunsAssumption DEF Runs, rowVars, ledgerVars, askVars, shiftVars, workerVars, appVars
<1>1. ASSUME NEW w \in Workers, Claim(w) PROVE TypeOK'
  <2>1. RowTypes'
    BY <1>1 DEF Claim, Goto, Claimable, TypeOK, RowTypes, WorkerTypes, Live, Open, Ended,
       Reasons
  <2>2. WorkerTypes' BY <1>1 DEF Claim, Goto, Claimable, TypeOK, WorkerTypes, Labels
  <2>3. LedgerTypes' /\ AskTypes' /\ ShiftTypes' /\ AppTypes' /\ faults' \in Nat
    BY <1>1 DEF Claim, TypeOK, LedgerTypes, AskTypes, ShiftTypes, AppTypes, Goto
  <2> QED BY <2>1, <2>2, <2>3 DEF TypeOK
<1>2. ASSUME NEW w \in Workers, Admit(w) PROVE TypeOK'
  <2>1. WorkerTypes' BY <1>2 DEF Admit, Goto, TypeOK, WorkerTypes, Labels
  <2>2. RowTypes' /\ LedgerTypes' /\ AskTypes' /\ ShiftTypes' /\ AppTypes' /\ faults' \in Nat
    BY <1>2 DEF Admit, TypeOK, RowTypes, LedgerTypes, AskTypes, ShiftTypes, AppTypes, Goto
  <2> QED BY <2>1, <2>2 DEF TypeOK
<1>3. ASSUME NEW w \in Workers, AdmitTooLate(w) PROVE TypeOK'
  <2>1. RowTypes'
    BY <1>3, EndRowTyped DEF AdmitTooLate, Goto, TypeOK, WorkerTypes, Live, Open, Ended,
       Reasons
  <2>2. WorkerTypes' BY <1>3 DEF AdmitTooLate, EndRow, Goto, TypeOK, WorkerTypes, Labels
  <2>3. LedgerTypes' /\ AskTypes' /\ ShiftTypes' /\ AppTypes' /\ faults' \in Nat
    BY <1>3 DEF AdmitTooLate, TypeOK, LedgerTypes, AskTypes, ShiftTypes, AppTypes, EndRow,
       Goto
  <2> QED BY <2>1, <2>2, <2>3 DEF TypeOK
<1>4. ASSUME NEW w \in Workers, Start(w) PROVE TypeOK'
  <2>1. LedgerTypes' BY <1>4, RecoverTyped DEF Start, Goto, Recovered, TypeOK, WorkerTypes
  <2>2. WorkerTypes'
    BY <1>4 DEF Start, RecoverOpen, Goto, Recovered, TypeOK, WorkerTypes, Labels
  <2>3. RowTypes' /\ AskTypes' /\ ShiftTypes' /\ AppTypes' /\ faults' \in Nat
    BY <1>4 DEF Start, TypeOK, RowTypes, AskTypes, ShiftTypes, AppTypes, RecoverOpen, Goto
  <2> QED BY <2>1, <2>2, <2>3 DEF TypeOK
<1>5. ASSUME NEW w \in Workers, Turn(w) PROVE TypeOK'
  <2>1. RowTypes'
    BY <1>5 DEF Turn, Goto, Advanced, Live, TypeOK, RowTypes, WorkerTypes, Open, Ended,
       Reasons
  <2>2. WorkerTypes' BY <1>5 DEF Turn, Goto, Advanced, Live, TypeOK, WorkerTypes, Labels
  <2>3. LedgerTypes' /\ AskTypes' /\ ShiftTypes' /\ AppTypes' /\ faults' \in Nat
    BY <1>5 DEF Turn, TypeOK, LedgerTypes, AskTypes, ShiftTypes, AppTypes, Goto
  <2> QED BY <2>1, <2>2, <2>3 DEF TypeOK
<1>6. ASSUME NEW w \in Workers, Propose(w) PROVE TypeOK'
  <2>1. WorkerTypes' BY <1>6 DEF Propose, Goto, TypeOK, WorkerTypes, Labels
  <2>2. RowTypes' /\ LedgerTypes' /\ AskTypes' /\ ShiftTypes' /\ AppTypes' /\ faults' \in Nat
    BY <1>6 DEF Propose, TypeOK, RowTypes, LedgerTypes, AskTypes, ShiftTypes, AppTypes, Goto
  <2> QED BY <2>1, <2>2 DEF TypeOK
<1>7. ASSUME NEW w \in Workers, FencePasses(w) PROVE TypeOK'
  <2>1. WorkerTypes'
    BY <1>7 DEF FencePasses, Goto, MayProceed, Live, TypeOK, WorkerTypes, Labels
  <2>2. RowTypes' /\ LedgerTypes' /\ AskTypes' /\ ShiftTypes' /\ AppTypes' /\ faults' \in Nat
    BY <1>7 DEF FencePasses, TypeOK, RowTypes, LedgerTypes, AskTypes, ShiftTypes, AppTypes,
       Goto
  <2> QED BY <2>1, <2>2 DEF TypeOK
<1>8. ASSUME NEW w \in Workers, FenceCancels(w) PROVE TypeOK'
  <2>1. WorkerTypes'
    BY <1>8 DEF FenceCancels, Goto, MayProceed, Live, TypeOK, WorkerTypes, Labels
  <2>2. RowTypes' /\ LedgerTypes' /\ AskTypes' /\ ShiftTypes' /\ AppTypes' /\ faults' \in Nat
    BY <1>8 DEF FenceCancels, TypeOK, RowTypes, LedgerTypes, AskTypes, ShiftTypes, AppTypes,
       Goto
  <2> QED BY <2>1, <2>2 DEF TypeOK
<1>9. ASSUME NEW w \in Workers, FenceFindsItEnded(w) PROVE TypeOK'
  <2>1. WorkerTypes'
    BY <1>9 DEF FenceFindsItEnded, Goto, MayProceed, Live, TypeOK, WorkerTypes, Labels
  <2>2. RowTypes' /\ LedgerTypes' /\ AskTypes' /\ ShiftTypes' /\ AppTypes' /\ faults' \in Nat
    BY <1>9 DEF FenceFindsItEnded, TypeOK, RowTypes, LedgerTypes, AskTypes, ShiftTypes,
       AppTypes, Goto
  <2> QED BY <2>1, <2>2 DEF TypeOK
<1>10. ASSUME NEW w \in Workers, Record(w) PROVE TypeOK'
  <2>1. LedgerTypes'
    <3>1. PICK x \in {"open", "refused"} : ledger' = [ledger EXCEPT ![wrun[w]] = Append(@, x)]
      BY <1>10 DEF Record
    <3>2. \A r \in Runs : ledger[r] \in Seq(Outcomes)
      BY DEF TypeOK, LedgerTypes
    <3>3. \A r \in Runs : Append(ledger[r], x) \in Seq(Outcomes)
      <4>1. x \in Outcomes
        BY DEF Outcomes
      <4> QED BY <3>2, <4>1
    <3>4. late' \in [Runs -> Nat]
      <4>1. late' = [late EXCEPT ![wrun[w]] = late[wrun[w]] + 1] \/ UNCHANGED late
        BY <1>10 DEF Record, TypeOK, LedgerTypes
      <4> QED BY <4>1, SMTT(30) DEF TypeOK, LedgerTypes
    <3> QED BY <3>1, <3>3, <3>4 DEF TypeOK, LedgerTypes
  <2>2. WorkerTypes' BY <1>10 DEF Record, Goto, Live, TypeOK, WorkerTypes, Labels
  <2>3. RowTypes' /\ AskTypes' /\ ShiftTypes' /\ AppTypes' /\ faults' \in Nat
    BY <1>10 DEF Record, TypeOK, RowTypes, AskTypes, ShiftTypes, AppTypes, Goto
  <2> QED BY <2>1, <2>2, <2>3 DEF TypeOK
<1>11. ASSUME NEW w \in Workers, Observe(w) PROVE TypeOK'
  <2>1. LedgerTypes'
    <3> DEFINE r == wrun[w]
               k == Len(ledger[r])
    <3>1. wpc[w] = "act" /\ r \in Runs
      BY <1>11 DEF Observe, RowsInOrder, Holding, Labels, TypeOK, WorkerTypes
    <3>2. ledger[r] \in Seq(Outcomes) /\ k \in 1 .. Len(ledger[r])
      <4>1. ledger[r] \in Seq(Outcomes) /\ ledger[r] # << >>
        BY <3>1 DEF TypeOK, LedgerTypes, ActingRun
      <4> QED BY <4>1
    <3>3. [ledger[r] EXCEPT ![k] = "seen"] \in Seq(Outcomes)
      BY <3>2 DEF Outcomes
    <3>4. ledger' = [ledger EXCEPT ![r] = [ledger[r] EXCEPT ![k] = "seen"]] \/ UNCHANGED ledger
      BY <1>11 DEF Observe
    <3>5. UNCHANGED late
      BY <1>11 DEF Observe
    <3> QED BY <3>1, <3>3, <3>4, <3>5 DEF TypeOK, LedgerTypes
  <2>2. WorkerTypes' BY <1>11 DEF Observe, Goto, TypeOK, WorkerTypes, Labels
  <2>3. RowTypes' /\ AskTypes' /\ ShiftTypes' /\ AppTypes' /\ faults' \in Nat
    BY <1>11 DEF Observe, TypeOK, RowTypes, AskTypes, ShiftTypes, AppTypes, Goto
  <2> QED BY <2>1, <2>2, <2>3 DEF TypeOK
<1>12. ASSUME NEW w \in Workers, Finish(w) PROVE TypeOK'
  <2>1. WorkerTypes' BY <1>12 DEF Finish, Goto, TypeOK, WorkerTypes, Labels
  <2>2. RowTypes' /\ LedgerTypes' /\ AskTypes' /\ ShiftTypes' /\ AppTypes' /\ faults' \in Nat
    BY <1>12 DEF Finish, TypeOK, RowTypes, LedgerTypes, AskTypes, ShiftTypes, AppTypes, Goto
  <2> QED BY <2>1, <2>2 DEF TypeOK
<1>13. ASSUME NEW w \in Workers, Park(w) PROVE TypeOK'
  <2>1. RowTypes'
    <3>1. CASE MayPark(wrun[w])
      BY <1>13, <3>1, EndRowTyped DEF Park, TypeOK, Ended, Reasons
    <3>2. CASE ~MayPark(wrun[w])
      BY <1>13, <3>2 DEF Park, TypeOK, RowTypes
    <3> QED BY <3>1, <3>2
  <2>2. AskTypes'
    BY <1>13 DEF Park, EndRow, Goto, Leave, MayPark, Live, TypeOK, AskTypes, WorkerTypes
  <2>3. WorkerTypes'
    BY <1>13 DEF Park, EndRow, Goto, Leave, MayPark, Live, TypeOK, WorkerTypes, Labels
  <2>4. LedgerTypes' /\ ShiftTypes' /\ AppTypes' /\ faults' \in Nat
    BY <1>13 DEF Park, TypeOK, LedgerTypes, ShiftTypes, AppTypes, EndRow, Goto, Leave
  <2> QED BY <2>1, <2>2, <2>3, <2>4 DEF TypeOK
<1>14. ASSUME NEW w \in Workers, Complete(w) PROVE TypeOK'
  <2>1. RowTypes'
    BY <1>14, EndRowTyped DEF Complete, Goto, Results, TypeOK, WorkerTypes, Live, Open,
       Ended, Reasons
  <2>2. WorkerTypes' BY <1>14 DEF Complete, EndRow, Goto, Results, TypeOK, WorkerTypes, Labels
  <2>3. LedgerTypes' /\ AskTypes' /\ ShiftTypes' /\ AppTypes' /\ faults' \in Nat
    BY <1>14 DEF Complete, TypeOK, LedgerTypes, AskTypes, ShiftTypes, AppTypes, EndRow, Goto
  <2> QED BY <2>1, <2>2, <2>3 DEF TypeOK
<1>15. ASSUME NEW w \in Workers, SkipReview(w) PROVE TypeOK'
  <2>1. WorkerTypes' BY <1>15 DEF SkipReview, Goto, TypeOK, WorkerTypes, Labels
  <2>2. RowTypes' /\ LedgerTypes' /\ AskTypes' /\ ShiftTypes' /\ AppTypes' /\ faults' \in Nat
    BY <1>15 DEF SkipReview, TypeOK, RowTypes, LedgerTypes, AskTypes, ShiftTypes, AppTypes,
       Goto
  <2> QED BY <2>1, <2>2 DEF TypeOK
<1>16. ASSUME NEW w \in Workers, EnqueueReview(w) PROVE TypeOK'
  <2>1. RowTypes'
    BY <1>16, EnqueueTyped DEF EnqueueReview, Goto, TypeOK, WorkerTypes, Live, Open, Ended,
       Reasons
  <2>2. WorkerTypes'
    <3>1. rows + 1 \in Runs
      BY <1>16 DEF EnqueueReview, Enqueue, TypeOK, RowTypes
    <3> QED BY <1>16, <3>1 DEF EnqueueReview, Goto, TypeOK, WorkerTypes, Labels
  <2>3. LedgerTypes' /\ AskTypes' /\ ShiftTypes' /\ AppTypes' /\ faults' \in Nat
    BY <1>16 DEF EnqueueReview, TypeOK, LedgerTypes, AskTypes, ShiftTypes, AppTypes, Enqueue,
       Goto
  <2> QED BY <2>1, <2>2, <2>3 DEF TypeOK
<1>17. ASSUME NEW w \in Workers, Reviewed(w) PROVE TypeOK'
  <2>1. RowTypes'
    BY <1>17, EndRowTyped DEF Reviewed, Goto, TypeOK, WorkerTypes, Live, Open, Ended, Reasons
  <2>2. WorkerTypes' BY <1>17 DEF Reviewed, EndRow, Goto, TypeOK, WorkerTypes, Labels
  <2>3. LedgerTypes' /\ AskTypes' /\ ShiftTypes' /\ AppTypes' /\ faults' \in Nat
    BY <1>17 DEF Reviewed, TypeOK, LedgerTypes, AskTypes, ShiftTypes, AppTypes, EndRow, Goto
  <2> QED BY <2>1, <2>2, <2>3 DEF TypeOK
<1>18. ASSUME NEW w \in Workers, Cancelled(w) PROVE TypeOK'
  <2>1. RowTypes'
    BY <1>18, EndRowTyped DEF Cancelled, Goto, TypeOK, WorkerTypes, Live, Open, Ended, Reasons
  <2>2. WorkerTypes' BY <1>18 DEF Cancelled, EndRow, Goto, TypeOK, WorkerTypes, Labels
  <2>3. LedgerTypes' /\ AskTypes' /\ ShiftTypes' /\ AppTypes' /\ faults' \in Nat
    BY <1>18 DEF Cancelled, TypeOK, LedgerTypes, AskTypes, ShiftTypes, AppTypes, EndRow, Goto
  <2> QED BY <2>1, <2>2, <2>3 DEF TypeOK
<1>19. ASSUME NEW w \in Workers, SettleOwn(w) PROVE TypeOK'
  <2>1. LedgerTypes'
    BY <1>19, RecoverTyped DEF SettleOwn, Goto, MaySettle, Recovered, Live, Open, TypeOK,
       WorkerTypes
  <2>2. WorkerTypes'
    BY <1>19 DEF SettleOwn, RecoverOpen, Goto, MaySettle, Recovered, Live, Open, TypeOK,
       WorkerTypes, Labels
  <2>3. RowTypes' /\ AskTypes' /\ ShiftTypes' /\ AppTypes' /\ faults' \in Nat
    BY <1>19 DEF SettleOwn, TypeOK, RowTypes, AskTypes, ShiftTypes, AppTypes, RecoverOpen,
       Goto
  <2> QED BY <2>1, <2>2, <2>3 DEF TypeOK
<1>20. ASSUME NEW w \in Workers, Threw(w) PROVE TypeOK'
  <2>1. RowTypes'
    BY <1>20, EndRowTyped DEF Threw, Goto, TypeOK, WorkerTypes, Live, Open, Ended, Reasons
  <2>2. WorkerTypes' BY <1>20 DEF Threw, EndRow, Goto, TypeOK, WorkerTypes, Labels
  <2>3. LedgerTypes' /\ AskTypes' /\ ShiftTypes' /\ AppTypes' /\ faults' \in Nat
    BY <1>20 DEF Threw, TypeOK, LedgerTypes, AskTypes, ShiftTypes, AppTypes, EndRow, Goto
  <2> QED BY <2>1, <2>2, <2>3 DEF TypeOK
<1>21. ASSUME NEW w \in Workers, Report(w) PROVE TypeOK'
  <2>1. ShiftTypes' BY <1>21 DEF Report, Goto, TypeOK, ShiftTypes, WorkerTypes
  <2>2. WorkerTypes' BY <1>21 DEF Report, Goto, TypeOK, WorkerTypes, Labels
  <2>3. RowTypes' /\ LedgerTypes' /\ AskTypes' /\ AppTypes' /\ faults' \in Nat
    BY <1>21 DEF Report, TypeOK, RowTypes, LedgerTypes, AskTypes, AppTypes, Goto
  <2> QED BY <2>1, <2>2, <2>3 DEF TypeOK
<1>22. ASSUME NEW w \in Workers, ReportFault(w) PROVE TypeOK'
  <2>1. ShiftTypes' BY <1>22 DEF ReportFault, Goto, Leave, TypeOK, ShiftTypes
  <2>2. WorkerTypes' BY <1>22 DEF ReportFault, Goto, Leave, TypeOK, WorkerTypes, Labels
  <2>3. RowTypes' /\ LedgerTypes' /\ AskTypes' /\ AppTypes' /\ faults' \in Nat
    BY <1>22 DEF ReportFault, TypeOK, RowTypes, LedgerTypes, AskTypes, AppTypes, Goto, Leave
  <2> QED BY <2>1, <2>2, <2>3 DEF TypeOK
<1>23. ASSUME NEW w \in Workers, HandBack(w) PROVE TypeOK'
  <2>1. ShiftTypes' BY <1>23 DEF HandBack, Goto, TypeOK, ShiftTypes, WorkerTypes
  <2>2. WorkerTypes' BY <1>23 DEF HandBack, Goto, TypeOK, WorkerTypes, Labels
  <2>3. RowTypes' /\ LedgerTypes' /\ AskTypes' /\ AppTypes' /\ faults' \in Nat
    BY <1>23 DEF HandBack, TypeOK, RowTypes, LedgerTypes, AskTypes, AppTypes, Goto
  <2> QED BY <2>1, <2>2, <2>3 DEF TypeOK
<1>24. ASSUME NEW w \in Workers, IdleSweep(w) PROVE TypeOK'
  <2>1. WorkerTypes' BY <1>24 DEF IdleSweep, Goto, TypeOK, WorkerTypes, Labels
  <2>2. RowTypes' /\ LedgerTypes' /\ AskTypes' /\ ShiftTypes' /\ AppTypes' /\ faults' \in Nat
    BY <1>24 DEF IdleSweep, TypeOK, RowTypes, LedgerTypes, AskTypes, ShiftTypes, AppTypes,
       Goto
  <2> QED BY <2>1, <2>2 DEF TypeOK
<1>25. ASSUME NEW w \in Workers, ReadExpired(w) PROVE TypeOK'
  <2>1. WorkerTypes' BY <1>25 DEF ReadExpired, Goto, Expired, TypeOK, WorkerTypes, Labels
  <2>2. RowTypes' /\ LedgerTypes' /\ AskTypes' /\ ShiftTypes' /\ AppTypes' /\ faults' \in Nat
    BY <1>25 DEF ReadExpired, TypeOK, RowTypes, LedgerTypes, AskTypes, ShiftTypes, AppTypes,
       Goto
  <2> QED BY <2>1, <2>2 DEF TypeOK
<1>26. ASSUME NEW w \in Workers, ExpireOne(w) PROVE TypeOK'
  <2>1. RowTypes'
    BY <1>26, EndRowTyped DEF ExpireOne, Goto, TypeOK, WorkerTypes, Live, Open, Ended, Reasons
  <2>2. WorkerTypes' BY <1>26 DEF ExpireOne, EndRow, Goto, TypeOK, WorkerTypes, Labels
  <2>3. LedgerTypes' /\ AskTypes' /\ ShiftTypes' /\ AppTypes' /\ faults' \in Nat
    BY <1>26 DEF ExpireOne, TypeOK, LedgerTypes, AskTypes, ShiftTypes, AppTypes, EndRow, Goto
  <2> QED BY <2>1, <2>2, <2>3 DEF TypeOK
<1>27. ASSUME NEW w \in Workers, LeaseSweep(w) PROVE TypeOK'
  <2>1. RowTypes'
    BY <1>27 DEF LeaseSweep, Goto, Reapable, Live, TypeOK, RowTypes, WorkerTypes, Open,
       Ended, Reasons
  <2>2. WorkerTypes'
    BY <1>27 DEF LeaseSweep, Goto, Reapable, Live, TypeOK, WorkerTypes, Labels
  <2>3. LedgerTypes' /\ AskTypes' /\ ShiftTypes' /\ AppTypes' /\ faults' \in Nat
    BY <1>27 DEF LeaseSweep, TypeOK, LedgerTypes, AskTypes, ShiftTypes, AppTypes, Goto
  <2> QED BY <2>1, <2>2, <2>3 DEF TypeOK
<1>28. ASSUME NEW w \in Workers, SettleAbandoned(w) PROVE TypeOK'
  <2>1. LedgerTypes'
    BY <1>28, RecoverTyped DEF SettleAbandoned, Goto, Recovered, Ended, TypeOK, WorkerTypes
  <2>2. WorkerTypes'
    BY <1>28 DEF SettleAbandoned, RecoverOpen, Goto, Recovered, Ended, TypeOK, WorkerTypes,
       Labels
  <2>3. RowTypes' /\ AskTypes' /\ ShiftTypes' /\ AppTypes' /\ faults' \in Nat
    BY <1>28 DEF SettleAbandoned, TypeOK, RowTypes, AskTypes, ShiftTypes, AppTypes,
       RecoverOpen, Goto
  <2> QED BY <2>1, <2>2, <2>3 DEF TypeOK
<1>29. ASSUME NEW w \in Workers, Restart(w) PROVE TypeOK'
  <2>1. WorkerTypes' BY <1>29 DEF Restart, Goto, TypeOK, WorkerTypes, Labels
  <2>2. RowTypes' /\ LedgerTypes' /\ AskTypes' /\ ShiftTypes' /\ AppTypes' /\ faults' \in Nat
    BY <1>29 DEF Restart, TypeOK, RowTypes, LedgerTypes, AskTypes, ShiftTypes, AppTypes, Goto
  <2> QED BY <2>1, <2>2 DEF TypeOK
<1>30. ASSUME NEW w \in Workers, Crash(w) PROVE TypeOK'
  <2>1. WorkerTypes' BY <1>30 DEF Crash, Goto, TypeOK, WorkerTypes, Labels
  <2>2. RowTypes' /\ LedgerTypes' /\ AskTypes' /\ ShiftTypes' /\ AppTypes' /\ faults' \in Nat
    BY <1>30 DEF Crash, TypeOK, RowTypes, LedgerTypes, AskTypes, ShiftTypes, AppTypes, Goto
  <2> QED BY <2>1, <2>2 DEF TypeOK
<1>31. ASSUME NEW w \in Workers, Throws(w) PROVE TypeOK'
  <2>1. WorkerTypes'
    BY <1>31 DEF Throws, Goto, CaughtAt, InsideRunWorker, TypeOK, WorkerTypes, Labels
  <2>2. RowTypes' /\ LedgerTypes' /\ AskTypes' /\ ShiftTypes' /\ AppTypes' /\ faults' \in Nat
    BY <1>31, SMTT(30) DEF Throws, TypeOK, RowTypes, LedgerTypes, AskTypes, ShiftTypes,
        AppTypes, Goto
  <2> QED BY <2>1, <2>2 DEF TypeOK
<1>32. ASSUME NEW w \in Workers, FenceUnreadable(w) PROVE TypeOK'
  <2>1. WorkerTypes' BY <1>32 DEF FenceUnreadable, Goto, TypeOK, WorkerTypes, Labels
  <2>2. RowTypes' /\ LedgerTypes' /\ AskTypes' /\ ShiftTypes' /\ AppTypes' /\ faults' \in Nat
    BY <1>32 DEF FenceUnreadable, TypeOK, RowTypes, LedgerTypes, AskTypes, ShiftTypes,
       AppTypes, Goto
  <2> QED BY <2>1, <2>2 DEF TypeOK
<1>33. ASSUME NEW h \in Handlers, ConfirmCheck(h) PROVE TypeOK'
  <2>1. AppTypes' BY <1>33 DEF ConfirmCheck, HGoto, MayConfirm, TypeOK, AppTypes, HLabels
  <2>2. RowTypes' /\ LedgerTypes' /\ AskTypes' /\ ShiftTypes' /\ WorkerTypes' /\ faults' \in Nat
    BY <1>33 DEF ConfirmCheck, TypeOK, RowTypes, LedgerTypes, AskTypes, ShiftTypes,
       WorkerTypes, HGoto
  <2> QED BY <2>1, <2>2 DEF TypeOK
<1>34. ASSUME NEW h \in Handlers, RejectCheck(h) PROVE TypeOK'
  <2>1. AppTypes' BY <1>34 DEF RejectCheck, HGoto, Unanswered, TypeOK, AppTypes, HLabels
  <2>2. RowTypes' /\ LedgerTypes' /\ AskTypes' /\ ShiftTypes' /\ WorkerTypes' /\ faults' \in Nat
    BY <1>34 DEF RejectCheck, TypeOK, RowTypes, LedgerTypes, AskTypes, ShiftTypes,
       WorkerTypes, HGoto
  <2> QED BY <2>1, <2>2 DEF TypeOK
<1>35. ASSUME NEW h \in Handlers, HaltStart(h) PROVE TypeOK'
  <2>1. AppTypes'
    <3>1. PICK r \in Runs : hrun' = [hrun EXCEPT ![h] = r]
      <4>1. PICK r \in 1 .. rows : hrun' = [hrun EXCEPT ![h] = r]
        BY <1>35 DEF HaltStart
      <4>2. r \in Runs
        BY <4>1 DEF TypeOK, RowTypes
      <4> QED BY <4>1, <4>2
    <3>2. PICK label \in {"halt-close", "halt-flag"} : hpc' = [hpc EXCEPT ![h] = label]
      BY <1>35 DEF HaltStart, HGoto
    <3> QED BY <3>1, <3>2 DEF TypeOK, AppTypes, HLabels
  <2>2. RowTypes' /\ LedgerTypes' /\ AskTypes' /\ ShiftTypes' /\ WorkerTypes' /\ faults' \in Nat
    BY <1>35 DEF HaltStart, TypeOK, RowTypes, LedgerTypes, AskTypes, ShiftTypes, WorkerTypes,
       HGoto
  <2> QED BY <2>1, <2>2 DEF TypeOK
<1>36. ASSUME NEW h \in Handlers, Confirm(h) PROVE TypeOK'
  <2>1. AskTypes'
    BY <1>36 DEF Confirm, HGoto, HLeave, RecordVerdict, Unanswered, TypeOK, AskTypes
  <2>2. AppTypes'
    BY <1>36 DEF Confirm, HGoto, HLeave, RecordVerdict, Unanswered, TypeOK, AppTypes, HLabels
  <2>3. RowTypes' /\ LedgerTypes' /\ ShiftTypes' /\ WorkerTypes' /\ faults' \in Nat
    BY <1>36 DEF Confirm, TypeOK, RowTypes, LedgerTypes, ShiftTypes, WorkerTypes, HGoto,
       HLeave, RecordVerdict
  <2> QED BY <2>1, <2>2, <2>3 DEF TypeOK
<1>37. ASSUME NEW h \in Handlers, Continue(h) PROVE TypeOK'
  <2>1. RowTypes'
    BY <1>37, EnqueueTyped DEF Continue, HGoto, HLeave, TypeOK, AppTypes, Live, Open, Ended,
       Reasons
  <2>2. AppTypes' BY <1>37 DEF Continue, Enqueue, HGoto, HLeave, TypeOK, AppTypes, HLabels
  <2>3. LedgerTypes' /\ AskTypes' /\ ShiftTypes' /\ WorkerTypes' /\ faults' \in Nat
    BY <1>37 DEF Continue, TypeOK, LedgerTypes, AskTypes, ShiftTypes, WorkerTypes, Enqueue,
       HGoto, HLeave
  <2> QED BY <2>1, <2>2, <2>3 DEF TypeOK
<1>38. ASSUME NEW h \in Handlers, Reject(h) PROVE TypeOK'
  <2>1. AskTypes'
    BY <1>38 DEF Reject, HGoto, HLeave, RecordVerdict, Unanswered, TypeOK, AskTypes
  <2>2. AppTypes'
    BY <1>38 DEF Reject, HGoto, HLeave, RecordVerdict, Unanswered, TypeOK, AppTypes, HLabels
  <2>3. RowTypes' /\ LedgerTypes' /\ ShiftTypes' /\ WorkerTypes' /\ faults' \in Nat
    BY <1>38 DEF Reject, TypeOK, RowTypes, LedgerTypes, ShiftTypes, WorkerTypes, HGoto,
       HLeave, RecordVerdict
  <2> QED BY <2>1, <2>2, <2>3 DEF TypeOK
<1>39. ASSUME NEW h \in Handlers, RejectHandBack(h) PROVE TypeOK'
  <2>1. ShiftTypes' BY <1>39 DEF RejectHandBack, HGoto, HLeave, TypeOK, ShiftTypes
  <2>2. AppTypes' BY <1>39 DEF RejectHandBack, HGoto, HLeave, TypeOK, AppTypes, HLabels
  <2>3. RowTypes' /\ LedgerTypes' /\ AskTypes' /\ WorkerTypes' /\ faults' \in Nat
    BY <1>39 DEF RejectHandBack, TypeOK, RowTypes, LedgerTypes, AskTypes, WorkerTypes, HGoto,
       HLeave
  <2> QED BY <2>1, <2>2, <2>3 DEF TypeOK
<1>40. ASSUME NEW h \in Handlers, HaltClose(h) PROVE TypeOK'
  <2>1. RowTypes'
    <3>1. \/ /\ status' = [status EXCEPT ![hrun[h]] = "interrupted"]
             /\ reason' = [reason EXCEPT ![hrun[h]] = "cancelled"]
          \/ UNCHANGED <<status, reason>>
      BY <1>40 DEF HaltClose
    <3>2. UNCHANGED <<rows, role, resumes, token, claimedBy, cancel, lapsed>>
      BY <1>40 DEF HaltClose
    <3>3. status' \in [Runs -> Open \union Ended \union {"absent"}]
      <4>1. status \in [Runs -> Open \union Ended \union {"absent"}] /\ "interrupted" \in Ended
        BY DEF TypeOK, RowTypes, Ended
      <4> QED BY <3>1, <4>1
    <3>4. reason' \in [Runs -> Reasons]
      <4>1. reason \in [Runs -> Reasons] /\ "cancelled" \in Reasons
        BY DEF TypeOK, RowTypes, Reasons
      <4> QED BY <3>1, <4>1
    <3> QED BY <3>2, <3>3, <3>4 DEF TypeOK, RowTypes
  <2>2. AppTypes' BY <1>40 DEF HaltClose, HGoto, TypeOK, AppTypes, HLabels
  <2>3. LedgerTypes' /\ AskTypes' /\ ShiftTypes' /\ WorkerTypes' /\ faults' \in Nat
    BY <1>40 DEF HaltClose, TypeOK, LedgerTypes, AskTypes, ShiftTypes, WorkerTypes, HGoto
  <2> QED BY <2>1, <2>2, <2>3 DEF TypeOK
<1>41. ASSUME NEW h \in Handlers, HaltFlag(h) PROVE TypeOK'
  <2>1. RowTypes'
    BY <1>41 DEF HaltFlag, HGoto, Live, Open, TypeOK, RowTypes, AppTypes, Ended, Reasons
  <2>2. AppTypes' BY <1>41 DEF HaltFlag, HGoto, Live, Open, TypeOK, AppTypes, HLabels
  <2>3. LedgerTypes' /\ AskTypes' /\ ShiftTypes' /\ WorkerTypes' /\ faults' \in Nat
    BY <1>41 DEF HaltFlag, TypeOK, LedgerTypes, AskTypes, ShiftTypes, WorkerTypes, HGoto
  <2> QED BY <2>1, <2>2, <2>3 DEF TypeOK
<1>42. ASSUME NEW h \in Handlers, HaltRevoke(h) PROVE TypeOK'
  <2>1. RowTypes'
    BY <1>42 DEF HaltRevoke, HGoto, TypeOK, RowTypes, AppTypes, Live, Open, Ended, Reasons
  <2>2. AppTypes' BY <1>42 DEF HaltRevoke, HGoto, TypeOK, AppTypes, HLabels
  <2>3. LedgerTypes' /\ AskTypes' /\ ShiftTypes' /\ WorkerTypes' /\ faults' \in Nat
    BY <1>42 DEF HaltRevoke, TypeOK, LedgerTypes, AskTypes, ShiftTypes, WorkerTypes, HGoto
  <2> QED BY <2>1, <2>2, <2>3 DEF TypeOK
<1>43. ASSUME NEW h \in Handlers, HaltSettle(h) PROVE TypeOK'
  <2>1. LedgerTypes'
    BY <1>43, RecoverTyped DEF HaltSettle, HGoto, HLeave, MaySettle, Recovered, Live, Open,
       TypeOK, AppTypes
  <2>2. AppTypes'
    BY <1>43 DEF HaltSettle, RecoverOpen, HGoto, HLeave, MaySettle, Recovered, Live, Open,
       TypeOK, AppTypes, HLabels
  <2>3. RowTypes' /\ AskTypes' /\ ShiftTypes' /\ WorkerTypes' /\ faults' \in Nat
    BY <1>43 DEF HaltSettle, TypeOK, RowTypes, AskTypes, ShiftTypes, WorkerTypes,
       RecoverOpen, HGoto, HLeave
  <2> QED BY <2>1, <2>2, <2>3 DEF TypeOK
<1>44. ASSUME NEW h \in Handlers, RequestDies(h) PROVE TypeOK'
  <2>1. AppTypes' BY <1>44 DEF RequestDies, HGoto, HLeave, TypeOK, AppTypes, HLabels
  <2>2. RowTypes' /\ LedgerTypes' /\ AskTypes' /\ ShiftTypes' /\ WorkerTypes' /\ faults' \in Nat
    BY <1>44 DEF RequestDies, TypeOK, RowTypes, LedgerTypes, AskTypes, ShiftTypes,
       WorkerTypes, HGoto, HLeave
  <2> QED BY <2>1, <2>2 DEF TypeOK
<1>45. ASSUME NEW r \in Runs, LeaseLapses(r) PROVE TypeOK'
  <2>1. RowTypes' BY <1>45 DEF LeaseLapses, Live, TypeOK, RowTypes, Open, Ended, Reasons
  <2>2. LedgerTypes' /\ AskTypes' /\ ShiftTypes' /\ WorkerTypes' /\ AppTypes' /\ faults' \in Nat
    BY <1>45 DEF LeaseLapses, TypeOK, LedgerTypes, AskTypes, ShiftTypes, WorkerTypes, AppTypes
  <2> QED BY <2>1, <2>2 DEF TypeOK
<1>46. ASSUME NEW r \in Runs, DayPasses(r) PROVE TypeOK'
  <2>1. AskTypes' BY <1>46 DEF DayPasses, TypeOK, AskTypes
  <2>2. RowTypes' /\ LedgerTypes' /\ ShiftTypes' /\ WorkerTypes' /\ AppTypes' /\ faults' \in Nat
    BY <1>46 DEF DayPasses, TypeOK, RowTypes, LedgerTypes, ShiftTypes, WorkerTypes, AppTypes
  <2> QED BY <2>1, <2>2 DEF TypeOK
<1>47. CASE EndSession
  BY <1>47 DEF EndSession, TypeOK, RowTypes, LedgerTypes, AskTypes, ShiftTypes, WorkerTypes,
     AppTypes
<1>48. CASE UNCHANGED vars
  BY <1>48 DEF vars, TypeOK, RowTypes, LedgerTypes, AskTypes, ShiftTypes, WorkerTypes,
     AppTypes
<1> QED BY <1>1, <1>2, <1>3, <1>4, <1>5, <1>6, <1>7, <1>8, <1>9, <1>10, <1>11, <1>12, <1>13,
    <1>14, <1>15, <1>16, <1>17, <1>18, <1>19, <1>20, <1>21, <1>22, <1>23, <1>24, <1>25,
    <1>26, <1>27, <1>28, <1>29, <1>30, <1>31, <1>32, <1>33, <1>34, <1>35, <1>36, <1>37,
    <1>38, <1>39, <1>40, <1>41, <1>42, <1>43, <1>44, <1>45, <1>46, <1>47, <1>48
    DEF Next, WorkerStep, Executes, Sweeps, Asked, RequestStep

-----------------------------------------------------------------------------
(* Every step obeys those rules.                                           *)

\* A run that was asked about is one that was written.
LEMMA AskedIsWritten ==
  ASSUME IInv, NEW r \in Runs, question[r] # "none"
  PROVE  r <= rows /\ r # 0
<1>1. status[r] \in Ended
  BY DEF IInv, ParkedOnAQuestion
<1>2. status[r] # "absent"
  BY <1>1 DEF Ended
<1>3. ~(r > rows)
  BY <1>2 DEF IInv, RowsInOrder
<1> QED BY <1>3, RunsAssumption DEF IInv, TypeOK, RowTypes, Runs

\* Settling what others left open neither removes nor replaces an outcome.
LEMMA RecoverKeeps ==
  ASSUME LedgerTypes, NEW these, RecoverOpen(these)
  PROVE  LedgerRule
<1> SUFFICES ASSUME NEW r \in Runs
             PROVE  /\ Len(ledger[r]) <= Len(ledger'[r])
                    /\ \A i \in 1 .. Len(ledger[r]) :
                     ledger[r][i] # "open" => ledger'[r][i] = ledger[r][i]
  BY DEF LedgerRule
<1>1. ledger[r] \in Seq(Outcomes)
  BY DEF LedgerTypes
<1>2. CASE r \in these
  <2>1. ledger'[r] = [i \in 1 .. Len(ledger[r]) |-> Recovered(ledger[r][i])]
    BY <1>2 DEF RecoverOpen
  <2> QED BY <1>1, <2>1 DEF Recovered
<1>3. CASE r \notin these
  BY <1>1, <1>3 DEF RecoverOpen
<1> QED BY <1>2, <1>3

\* Every step obeys RowsRule.
LEMMA RowsStep ==
  IInv /\ [Next]_vars => RowsRule
<1> SUFFICES ASSUME IInv, [Next]_vars
             PROVE  RowsRule
  OBVIOUS
<1> USE RunsAssumption DEF Runs, IInv, TypeOK, RowsRule
<1>1. ASSUME NEW w \in Workers,
       Claim(w) \/ Admit(w) \/ AdmitTooLate(w) \/ Start(w) \/ Turn(w) \/ Propose(w) \/
       FencePasses(w) \/ FenceCancels(w) \/ FenceFindsItEnded(w) \/ Record(w) \/
       Observe(w) \/ Finish(w) \/ Park(w) \/ Complete(w) \/ SkipReview(w) \/ Reviewed(w) \/
       Cancelled(w) \/ SettleOwn(w) \/ Threw(w) \/ Report(w) \/ ReportFault(w) \/
       HandBack(w) \/ IdleSweep(w) \/ ReadExpired(w) \/ ExpireOne(w) \/ LeaseSweep(w) \/
       SettleAbandoned(w) \/ Restart(w) \/ Crash(w) \/ Throws(w) \/ FenceUnreadable(w)
     PROVE RowsRule
  <2>1. UNCHANGED <<rows>>
    BY <1>1 DEF Claim, Admit, AdmitTooLate, Start, Turn, Propose, FencePasses, FenceCancels,
       FenceFindsItEnded, Record, Observe, Finish, Park, Complete, SkipReview, Reviewed,
       Cancelled, SettleOwn, Threw, Report, ReportFault, HandBack, IdleSweep, ReadExpired,
       ExpireOne, LeaseSweep, SettleAbandoned, Restart, Crash, Throws, FenceUnreadable, Goto,
       EndRow, RecoverOpen, Leave, rowVars
  <2> QED BY <2>1
<1>2. ASSUME NEW w \in Workers, EnqueueReview(w)
     PROVE RowsRule
  BY <1>2
<1>3. ASSUME NEW h \in Handlers,
       ConfirmCheck(h) \/ RejectCheck(h) \/ HaltStart(h) \/ Confirm(h) \/ Reject(h) \/
       RejectHandBack(h) \/ HaltClose(h) \/ HaltFlag(h) \/ HaltRevoke(h) \/ HaltSettle(h) \/
       RequestDies(h)
     PROVE RowsRule
  <2>1. UNCHANGED <<rows>>
    BY <1>3 DEF ConfirmCheck, RejectCheck, HaltStart, Confirm, Reject, RejectHandBack,
       HaltClose, HaltFlag, HaltRevoke, HaltSettle, RequestDies, HGoto, HLeave,
       RecordVerdict, RecoverOpen, rowVars
  <2> QED BY <2>1
<1>4. ASSUME NEW h \in Handlers, Continue(h)
     PROVE RowsRule
  BY <1>4
<1>5. ASSUME NEW r \in Runs,
       LeaseLapses(r) \/ DayPasses(r)
     PROVE RowsRule
  <2>1. UNCHANGED <<rows>>
    BY <1>5 DEF LeaseLapses, DayPasses, rowVars
  <2> QED BY <2>1
<1>6. CASE EndSession
  BY <1>6 DEF EndSession, rowVars
<1>7. CASE UNCHANGED vars
  BY <1>7 DEF vars, rowVars
<1> QED BY <1>1, <1>2, <1>3, <1>4, <1>5, <1>6, <1>7 DEF Next, WorkerStep, Executes, Sweeps,
    Asked, RequestStep

\* Every step obeys RowRule: in particular it leaves an ended row ended.
LEMMA RowStep ==
  IInv /\ [Next]_vars => RowRule
<1> SUFFICES ASSUME IInv, [Next]_vars
             PROVE  RowRule
  OBVIOUS
<1> USE RunsAssumption DEF Runs, IInv, TypeOK, RowsInOrder, TokenFollowsTheRun, ClaimedRun,
    AskedQuestions, ParkedOnAQuestion, RowTypes, AskTypes, WorkerTypes, AppTypes, Live, Open,
    Ended, RowRule
<1>1. ASSUME NEW w \in Workers,
       Admit(w) \/ Start(w) \/ Propose(w) \/ FencePasses(w) \/ FenceCancels(w) \/
       FenceFindsItEnded(w) \/ Record(w) \/ Observe(w) \/ Finish(w) \/ SkipReview(w) \/
       SettleOwn(w) \/ Report(w) \/ ReportFault(w) \/ HandBack(w) \/ IdleSweep(w) \/
       ReadExpired(w) \/ SettleAbandoned(w) \/ Restart(w) \/ Crash(w) \/ Throws(w) \/
       FenceUnreadable(w)
     PROVE RowRule
  <2>1. UNCHANGED <<rows, status, token, claimedBy>>
    BY <1>1 DEF Admit, Start, Propose, FencePasses, FenceCancels, FenceFindsItEnded, Record,
       Observe, Finish, SkipReview, SettleOwn, Report, ReportFault, HandBack, IdleSweep,
       ReadExpired, SettleAbandoned, Restart, Crash, Throws, FenceUnreadable, Goto,
       RecoverOpen, Leave, rowVars
  <2> QED BY <2>1
<1>2. ASSUME NEW w \in Workers, Claim(w)
     PROVE RowRule
  BY <1>2 DEF Claim, Goto, Claimable, rowVars
<1>3. ASSUME NEW w \in Workers, AdmitTooLate(w)
     PROVE RowRule
  BY <1>3 DEF AdmitTooLate, EndRow, Goto, rowVars
<1>4. ASSUME NEW w \in Workers, Turn(w)
     PROVE RowRule
  BY <1>4 DEF Turn, Goto, Advanced, rowVars
<1>5. ASSUME NEW w \in Workers, Park(w)
     PROVE RowRule
  <2>1. CASE MayPark(wrun[w])
    <3>1. status' = [status EXCEPT ![wrun[w]] = "awaiting-confirmation"]
          /\ token' = [token EXCEPT ![wrun[w]] = FALSE]
          /\ question' = [question EXCEPT ![wrun[w]] = "open"]
          /\ UNCHANGED <<rows, claimedBy>>
      BY <1>5, <2>1 DEF Park, EndRow
    <3> QED BY <2>1, <3>1 DEF MayPark
  <2>2. CASE ~MayPark(wrun[w])
    BY <1>5, <2>2 DEF Park, rowVars
  <2> QED BY <2>1, <2>2
<1>6. ASSUME NEW w \in Workers, Complete(w)
     PROVE RowRule
  BY <1>6 DEF Complete, EndRow, Goto, Results, rowVars
<1>7. ASSUME NEW w \in Workers, EnqueueReview(w)
     PROVE RowRule
  <2>1. rows < MaxRuns /\ rows' = rows + 1
        /\ status' = [status EXCEPT ![rows + 1] = "pending"]
        /\ UNCHANGED <<token, claimedBy>>
    BY <1>7 DEF EnqueueReview, Enqueue
  <2> QED BY <2>1
<1>8. ASSUME NEW w \in Workers, Reviewed(w)
     PROVE RowRule
  <2>1. CASE EndRow(wrun[w], "succeeded", "none")
    BY <1>8, <2>1 DEF Reviewed, EndRow, Goto, rowVars
  <2>2. CASE EndRow(wrun[w], "failed", "error")
    BY <1>8, <2>2 DEF Reviewed, EndRow, Goto, rowVars
  <2> QED BY <1>8, <2>1, <2>2 DEF Reviewed
<1>9. ASSUME NEW w \in Workers, Cancelled(w)
     PROVE RowRule
  BY <1>9 DEF Cancelled, EndRow, Goto, rowVars
<1>10. ASSUME NEW w \in Workers, Threw(w)
     PROVE RowRule
  BY <1>10 DEF Threw, EndRow, Goto, rowVars
<1>11. ASSUME NEW w \in Workers, ExpireOne(w)
     PROVE RowRule
  <2>1. PICK r \in wexp[w] : EndRow(r, "interrupted", "confirmation-expired")
    BY <1>11 DEF ExpireOne
  <2>2. r \in Runs /\ status[r] \in Ended
    BY <2>1
  <2> QED BY <2>1, <2>2 DEF EndRow
<1>12. ASSUME NEW w \in Workers, LeaseSweep(w)
     PROVE RowRule
  BY <1>12 DEF LeaseSweep, Goto, Reapable, rowVars
<1>13. ASSUME NEW h \in Handlers,
       ConfirmCheck(h) \/ RejectCheck(h) \/ HaltStart(h) \/ Confirm(h) \/ Reject(h) \/
       RejectHandBack(h) \/ HaltFlag(h) \/ HaltSettle(h) \/ RequestDies(h)
     PROVE RowRule
  <2>1. UNCHANGED <<rows, status, token, claimedBy>>
    BY <1>13 DEF ConfirmCheck, RejectCheck, HaltStart, Confirm, Reject, RejectHandBack,
       HaltFlag, HaltSettle, RequestDies, HGoto, HLeave, RecordVerdict, RecoverOpen, rowVars
  <2> QED BY <2>1
<1>14. ASSUME NEW h \in Handlers, Continue(h)
     PROVE RowRule
  <2>1. rows < MaxRuns /\ rows' = rows + 1
        /\ status' = [status EXCEPT ![rows + 1] = "pending"]
        /\ UNCHANGED <<token, claimedBy>>
    BY <1>14 DEF Continue, Enqueue
  <2> QED BY <2>1
<1>15. ASSUME NEW h \in Handlers, HaltClose(h)
     PROVE RowRule
  <2>1. CASE status[hrun[h]] = "awaiting-confirmation" /\ question[hrun[h]] = "open"
    BY <1>15, <2>1 DEF HaltClose, HGoto, rowVars
  <2>2. CASE ~(status[hrun[h]] = "awaiting-confirmation" /\ question[hrun[h]] = "open")
    BY <1>15, <2>2 DEF HaltClose, HGoto, rowVars
  <2> QED BY <1>15, <2>1, <2>2 DEF HaltClose
<1>16. ASSUME NEW h \in Handlers, HaltRevoke(h)
     PROVE RowRule
  BY <1>16 DEF HaltRevoke, HGoto, rowVars
<1>17. ASSUME NEW r \in Runs,
       LeaseLapses(r) \/ DayPasses(r)
     PROVE RowRule
  <2>1. UNCHANGED <<rows, status, token, claimedBy>>
    BY <1>17 DEF LeaseLapses, DayPasses, rowVars
  <2> QED BY <2>1
<1>18. CASE EndSession
  BY <1>18 DEF EndSession, rowVars
<1>19. CASE UNCHANGED vars
  BY <1>19 DEF vars, rowVars
<1> QED BY <1>1, <1>2, <1>3, <1>4, <1>5, <1>6, <1>7, <1>8, <1>9, <1>10, <1>11, <1>12, <1>13,
    <1>14, <1>15, <1>16, <1>17, <1>18, <1>19 DEF Next, WorkerStep, Executes, Sweeps, Asked,
    RequestStep

\* Every step obeys ResumesRule.
LEMMA ResumesStep ==
  IInv /\ [Next]_vars => ResumesRule
<1> SUFFICES ASSUME IInv, [Next]_vars
             PROVE  ResumesRule
  OBVIOUS
<1> USE RunsAssumption DEF Runs, IInv, TypeOK, RowsInOrder, RowTypes, AppTypes, ResumesRule
<1>1. ASSUME NEW w \in Workers,
       Claim(w) \/ Admit(w) \/ AdmitTooLate(w) \/ Start(w) \/ Turn(w) \/ Propose(w) \/
       FencePasses(w) \/ FenceCancels(w) \/ FenceFindsItEnded(w) \/ Record(w) \/
       Observe(w) \/ Finish(w) \/ Park(w) \/ Complete(w) \/ SkipReview(w) \/ Reviewed(w) \/
       Cancelled(w) \/ SettleOwn(w) \/ Threw(w) \/ Report(w) \/ ReportFault(w) \/
       HandBack(w) \/ IdleSweep(w) \/ ReadExpired(w) \/ ExpireOne(w) \/ LeaseSweep(w) \/
       SettleAbandoned(w) \/ Restart(w) \/ Crash(w) \/ Throws(w) \/ FenceUnreadable(w)
     PROVE ResumesRule
  <2>1. UNCHANGED <<rows, resumes>>
    BY <1>1 DEF Claim, Admit, AdmitTooLate, Start, Turn, Propose, FencePasses, FenceCancels,
       FenceFindsItEnded, Record, Observe, Finish, Park, Complete, SkipReview, Reviewed,
       Cancelled, SettleOwn, Threw, Report, ReportFault, HandBack, IdleSweep, ReadExpired,
       ExpireOne, LeaseSweep, SettleAbandoned, Restart, Crash, Throws, FenceUnreadable, Goto,
       EndRow, RecoverOpen, Leave, rowVars
  <2> QED BY <2>1
<1>2. ASSUME NEW w \in Workers, EnqueueReview(w)
     PROVE ResumesRule
  <2>1. rows < MaxRuns /\ rows' = rows + 1 /\ resumes' = [resumes EXCEPT ![rows + 1] = 0]
    BY <1>2 DEF EnqueueReview, Enqueue
  <2>2. \A r \in Runs : r # rows + 1 => resumes'[r] = resumes[r] /\ resumes[r] <= rows
    BY <2>1
  <2>3. resumes'[rows + 1] = 0 /\ rows + 1 \in Runs
    BY <2>1
  <2>4. ASSUME NEW r \in Runs
        PROVE  /\ resumes'[r] <= rows'
               /\ resumes'[r] # resumes[r] => r = rows + 1 /\ resumes'[r] = 0
    <3>1. rows \in Nat /\ resumes[r] \in Nat
      OBVIOUS
    <3>2. CASE r = rows + 1
      BY <2>1, <2>3, <3>1, <3>2
    <3>3. CASE r # rows + 1
      BY <2>1, <2>2, <3>1, <3>3
    <3> QED BY <3>2, <3>3
  <2> QED BY <2>4
<1>3. ASSUME NEW h \in Handlers,
       ConfirmCheck(h) \/ RejectCheck(h) \/ HaltStart(h) \/ Confirm(h) \/ Reject(h) \/
       RejectHandBack(h) \/ HaltClose(h) \/ HaltFlag(h) \/ HaltRevoke(h) \/ HaltSettle(h) \/
       RequestDies(h)
     PROVE ResumesRule
  <2>1. UNCHANGED <<rows, resumes>>
    BY <1>3 DEF ConfirmCheck, RejectCheck, HaltStart, Confirm, Reject, RejectHandBack,
       HaltClose, HaltFlag, HaltRevoke, HaltSettle, RequestDies, HGoto, HLeave,
       RecordVerdict, RecoverOpen, rowVars
  <2> QED BY <2>1
<1>4. ASSUME NEW h \in Handlers, Continue(h)
     PROVE ResumesRule
  <2>1. /\ rows < MaxRuns /\ rows' = rows + 1
        /\ resumes' = [resumes EXCEPT ![rows + 1] = hrun[h]]
        /\ hpc[h] = "continue" /\ hpc' = [hpc EXCEPT ![h] = "idle"]
    BY <1>4 DEF Continue, Enqueue, HLeave, HGoto
  <2>2. \A r \in Runs : r # rows + 1 => resumes'[r] = resumes[r] /\ resumes[r] <= rows
    BY <2>1
  <2>3. resumes'[rows + 1] = hrun[h] /\ hrun[h] <= rows /\ rows + 1 \in Runs
    BY <2>1
  <2>4. ASSUME NEW r \in Runs
        PROVE  resumes'[r] <= rows'
    <3>1. rows \in Nat /\ hrun[h] \in Nat /\ resumes[r] \in Nat
      OBVIOUS
    <3>2. CASE r = rows + 1
      BY <2>1, <2>3, <3>1, <3>2
    <3>3. CASE r # rows + 1
      BY <2>1, <2>2, <3>1, <3>3
    <3> QED BY <3>2, <3>3
  <2>5. hpc[h] = "continue" /\ hpc'[h] = "idle"
    BY <2>1
  <2> QED BY <2>1, <2>2, <2>3, <2>4, <2>5
<1>5. ASSUME NEW r \in Runs,
       LeaseLapses(r) \/ DayPasses(r)
     PROVE ResumesRule
  <2>1. UNCHANGED <<rows, resumes>>
    BY <1>5 DEF LeaseLapses, DayPasses, rowVars
  <2> QED BY <2>1
<1>6. CASE EndSession
  BY <1>6 DEF EndSession, rowVars
<1>7. CASE UNCHANGED vars
  BY <1>7 DEF vars, rowVars
<1> QED BY <1>1, <1>2, <1>3, <1>4, <1>5, <1>6, <1>7 DEF Next, WorkerStep, Executes, Sweeps,
    Asked, RequestStep

\* Every step obeys LedgerRule.
LEMMA LedgerStep ==
  IInv /\ [Next]_vars => LedgerRule
<1> SUFFICES ASSUME IInv, [Next]_vars
             PROVE  LedgerRule
  OBVIOUS
<1> USE RunsAssumption DEF Runs, IInv, TypeOK, ActingRun, RowsInOrder, LedgerTypes,
    WorkerTypes, Holding, Labels, LedgerRule
<1>1. ASSUME NEW w \in Workers,
       Claim(w) \/ Admit(w) \/ AdmitTooLate(w) \/ Turn(w) \/ Propose(w) \/ FencePasses(w) \/
       FenceCancels(w) \/ FenceFindsItEnded(w) \/ Finish(w) \/ Park(w) \/ Complete(w) \/
       SkipReview(w) \/ EnqueueReview(w) \/ Reviewed(w) \/ Cancelled(w) \/ Threw(w) \/
       Report(w) \/ ReportFault(w) \/ HandBack(w) \/ IdleSweep(w) \/ ReadExpired(w) \/
       ExpireOne(w) \/ LeaseSweep(w) \/ Restart(w) \/ Crash(w) \/ Throws(w) \/
       FenceUnreadable(w)
     PROVE LedgerRule
  <2>1. UNCHANGED <<ledger>>
    BY <1>1 DEF Claim, Admit, AdmitTooLate, Turn, Propose, FencePasses, FenceCancels,
       FenceFindsItEnded, Finish, Park, Complete, SkipReview, EnqueueReview, Reviewed,
       Cancelled, Threw, Report, ReportFault, HandBack, IdleSweep, ReadExpired, ExpireOne,
       LeaseSweep, Restart, Crash, Throws, FenceUnreadable, Goto, EndRow, Leave, Enqueue,
       ledgerVars
  <2> QED BY <2>1
<1>2. ASSUME NEW w \in Workers, Start(w)
     PROVE LedgerRule
  BY <1>2, RecoverKeeps DEF Start
<1>3. ASSUME NEW w \in Workers, Record(w)
     PROVE LedgerRule
  <2>1. PICK x \in {"open", "refused"} : ledger' = [ledger EXCEPT ![wrun[w]] = Append(@, x)]
    BY <1>3 DEF Record
  <2>2. ASSUME NEW r \in Runs
        PROVE  /\ Len(ledger[r]) <= Len(ledger'[r])
               /\ \A i \in 1 .. Len(ledger[r]) : ledger'[r][i] = ledger[r][i]
    <3>1. ledger[r] \in Seq(Outcomes)
      OBVIOUS
    <3>2. ledger'[r] = ledger[r] \/ ledger'[r] = Append(ledger[r], x)
      BY <2>1
    <3>3. /\ Len(Append(ledger[r], x)) = Len(ledger[r]) + 1
          /\ \A i \in 1 .. Len(ledger[r]) : Append(ledger[r], x)[i] = ledger[r][i]
          /\ Len(ledger[r]) \in Nat
      BY <3>1
    <3>4. CASE ledger'[r] = ledger[r]
      BY <3>3, <3>4
    <3>5. CASE ledger'[r] = Append(ledger[r], x)
      BY <3>3, <3>5
    <3> QED BY <3>2, <3>4, <3>5
  <2> QED BY <2>2 DEF LedgerRule
<1>4. ASSUME NEW w \in Workers, Observe(w)
     PROVE LedgerRule
  <2> DEFINE k == Len(ledger[wrun[w]])
  <2>1. \/ UNCHANGED ledger
        \/ /\ ledger[wrun[w]][k] = "open"
           /\ ledger' = [ledger EXCEPT ![wrun[w]] = [ledger[wrun[w]] EXCEPT ![k] = "seen"]]
    BY <1>4 DEF Observe
  <2>2. ASSUME NEW r \in Runs
        PROVE  /\ Len(ledger[r]) <= Len(ledger'[r])
               /\ \A i \in 1 .. Len(ledger[r]) :
                     ledger[r][i] # "open" => ledger'[r][i] = ledger[r][i]
    <3>1. ledger[r] \in Seq(Outcomes) /\ Len(ledger[r]) \in Nat
      OBVIOUS
    <3>2. CASE ledger'[r] = ledger[r]
      BY <3>1, <3>2
    <3>3. CASE ledger'[r] # ledger[r]
      <4>1. /\ ledger[wrun[w]][k] = "open"
            /\ ledger' = [ledger EXCEPT ![wrun[w]] = [ledger[wrun[w]] EXCEPT ![k] = "seen"]]
        BY <2>1, <3>3
      <4>2. r = wrun[w]
        <5>1. ledger \in [Runs -> Seq(Outcomes)]
          OBVIOUS
        <5> HIDE DEF k
        <5> QED BY <3>3, <4>1, <5>1
      <4>3. ledger'[r] = [ledger[r] EXCEPT ![k] = "seen"]
        <5>1. ledger \in [Runs -> Seq(Outcomes)]
          OBVIOUS
        <5> HIDE DEF k
        <5> QED BY <4>1, <4>2, <5>1
      <4>4. Len(ledger'[r]) = Len(ledger[r])
        BY <3>1, <4>3
      <4>5. \A i \in 1 .. Len(ledger[r]) : i # k => ledger'[r][i] = ledger[r][i]
        BY <3>1, <4>3
      <4> QED BY <3>1, <4>1, <4>2, <4>4, <4>5
    <3> QED BY <3>2, <3>3
  <2> QED BY <2>2 DEF LedgerRule
<1>5. ASSUME NEW w \in Workers, SettleOwn(w)
     PROVE LedgerRule
  BY <1>5, RecoverKeeps DEF SettleOwn
<1>6. ASSUME NEW w \in Workers, SettleAbandoned(w)
     PROVE LedgerRule
  BY <1>6, RecoverKeeps DEF SettleAbandoned
<1>7. ASSUME NEW h \in Handlers,
       ConfirmCheck(h) \/ RejectCheck(h) \/ HaltStart(h) \/ Confirm(h) \/ Continue(h) \/
       Reject(h) \/ RejectHandBack(h) \/ HaltClose(h) \/ HaltFlag(h) \/ HaltRevoke(h) \/
       RequestDies(h)
     PROVE LedgerRule
  <2>1. UNCHANGED <<ledger>>
    BY <1>7 DEF ConfirmCheck, RejectCheck, HaltStart, Confirm, Continue, Reject,
       RejectHandBack, HaltClose, HaltFlag, HaltRevoke, RequestDies, HGoto, HLeave,
       RecordVerdict, Enqueue, ledgerVars
  <2> QED BY <2>1
<1>8. ASSUME NEW h \in Handlers, HaltSettle(h)
     PROVE LedgerRule
  BY <1>8, RecoverKeeps DEF HaltSettle
<1>9. ASSUME NEW r \in Runs,
       LeaseLapses(r) \/ DayPasses(r)
     PROVE LedgerRule
  <2>1. UNCHANGED <<ledger>>
    BY <1>9 DEF LeaseLapses, DayPasses, ledgerVars
  <2> QED BY <2>1
<1>10. CASE EndSession
  BY <1>10 DEF EndSession, ledgerVars
<1>11. CASE UNCHANGED vars
  BY <1>11 DEF vars, ledgerVars
<1> QED BY <1>1, <1>2, <1>3, <1>4, <1>5, <1>6, <1>7, <1>8, <1>9, <1>10, <1>11
    DEF Next, WorkerStep, Executes, Sweeps, Asked, RequestStep

\* Every step obeys QuestionRule.
LEMMA QuestionStep ==
  IInv /\ [Next]_vars => QuestionRule
<1> SUFFICES ASSUME IInv, [Next]_vars
             PROVE  QuestionRule
  OBVIOUS
<1> USE RunsAssumption DEF Runs, IInv, TypeOK, RowsInOrder, ClaimedRun, RowTypes, AskTypes,
    WorkerTypes, AppTypes, QuestionRule, Executing, Driving
<1>1. ASSUME NEW w \in Workers,
       Claim(w) \/ Admit(w) \/ AdmitTooLate(w) \/ Start(w) \/ Turn(w) \/ Propose(w) \/
       FencePasses(w) \/ FenceCancels(w) \/ FenceFindsItEnded(w) \/ Record(w) \/
       Observe(w) \/ Finish(w) \/ Complete(w) \/ SkipReview(w) \/ EnqueueReview(w) \/
       Reviewed(w) \/ Cancelled(w) \/ SettleOwn(w) \/ Threw(w) \/ Report(w) \/
       ReportFault(w) \/ HandBack(w) \/ IdleSweep(w) \/ ReadExpired(w) \/ ExpireOne(w) \/
       LeaseSweep(w) \/ SettleAbandoned(w) \/ Restart(w) \/ Crash(w) \/ Throws(w) \/
       FenceUnreadable(w)
     PROVE QuestionRule
  <2>1. UNCHANGED <<question>>
    BY <1>1 DEF Claim, Admit, AdmitTooLate, Start, Turn, Propose, FencePasses, FenceCancels,
       FenceFindsItEnded, Record, Observe, Finish, Complete, SkipReview, EnqueueReview,
       Reviewed, Cancelled, SettleOwn, Threw, Report, ReportFault, HandBack, IdleSweep,
       ReadExpired, ExpireOne, LeaseSweep, SettleAbandoned, Restart, Crash, Throws,
       FenceUnreadable, Goto, EndRow, RecoverOpen, Enqueue, Leave, askVars
  <2> QED BY <2>1
<1>2. ASSUME NEW w \in Workers, Park(w)
     PROVE QuestionRule
  <2>1. CASE MayPark(wrun[w])
    <3>1. /\ wpc[w] = "park" /\ wpc' = [wpc EXCEPT ![w] = "idle"]
          /\ status' = [status EXCEPT ![wrun[w]] = "awaiting-confirmation"]
          /\ question' = [question EXCEPT ![wrun[w]] = "open"]
      BY <1>2, <2>1 DEF Park, EndRow, Leave, Goto
    <3> QED BY <2>1, <3>1
  <2>2. CASE ~MayPark(wrun[w])
    BY <1>2, <2>2 DEF Park
  <2> QED BY <2>1, <2>2
<1>3. ASSUME NEW h \in Handlers,
       ConfirmCheck(h) \/ RejectCheck(h) \/ HaltStart(h) \/ Continue(h) \/
       RejectHandBack(h) \/ HaltClose(h) \/ HaltFlag(h) \/ HaltRevoke(h) \/ HaltSettle(h) \/
       RequestDies(h)
     PROVE QuestionRule
  <2>1. UNCHANGED <<question>>
    BY <1>3 DEF ConfirmCheck, RejectCheck, HaltStart, Continue, RejectHandBack, HaltClose,
       HaltFlag, HaltRevoke, HaltSettle, RequestDies, HGoto, Enqueue, HLeave, RecoverOpen,
       askVars
  <2> QED BY <2>1
<1>4. ASSUME NEW h \in Handlers, Confirm(h)
     PROVE QuestionRule
  <2>1. CASE Unanswered(hrun[h])
    <3>1. question[hrun[h]] = "open" /\ question' = [question EXCEPT ![hrun[h]] = "confirmed"]
      BY <1>4, <2>1 DEF Confirm, RecordVerdict, Unanswered
    <3> QED BY <3>1
  <2>2. CASE ~Unanswered(hrun[h])
    <3>1. UNCHANGED question
      BY <1>4, <2>2 DEF Confirm, RecordVerdict
    <3> QED BY <3>1
  <2> QED BY <1>4, <2>1, <2>2 DEF Confirm
<1>5. ASSUME NEW h \in Handlers, Reject(h)
     PROVE QuestionRule
  <2>1. CASE Unanswered(hrun[h])
    <3>1. question[hrun[h]] = "open" /\ question' = [question EXCEPT ![hrun[h]] = "rejected"]
      BY <1>5, <2>1 DEF Reject, RecordVerdict, Unanswered
    <3> QED BY <3>1
  <2>2. CASE ~Unanswered(hrun[h])
    <3>1. UNCHANGED question
      BY <1>5, <2>2 DEF Reject, RecordVerdict
    <3> QED BY <3>1
  <2> QED BY <2>1, <2>2
<1>6. ASSUME NEW r \in Runs,
       LeaseLapses(r) \/ DayPasses(r)
     PROVE QuestionRule
  <2>1. UNCHANGED <<question>>
    BY <1>6 DEF LeaseLapses, DayPasses, askVars
  <2> QED BY <2>1
<1>7. CASE EndSession
  BY <1>7 DEF EndSession, askVars
<1>8. CASE UNCHANGED vars
  BY <1>8 DEF vars, askVars
<1> QED BY <1>1, <1>2, <1>3, <1>4, <1>5, <1>6, <1>7, <1>8 DEF Next, WorkerStep, Executes,
    Sweeps, Asked, RequestStep

\* Every step obeys WorkerRule.
LEMMA WorkersStep ==
  IInv /\ [Next]_vars => WorkerRule
<1> SUFFICES ASSUME IInv, [Next]_vars
             PROVE  WorkerRule
  OBVIOUS
<1> USE RunsAssumption DEF Runs, IInv, TypeOK, RowsInOrder, AskedQuestions,
    ParkedOnAQuestion, ActingRun, RowTypes, AskTypes, WorkerTypes, LedgerTypes, Live, Open,
    Ended, Holding, Executing, Driving, WorkerRule, Labels
<1>1. ASSUME NEW w \in Workers, Claim(w)
     PROVE WorkerRule
  BY <1>1 DEF Claim, Goto, Claimable, rowVars, workerVars
<1>2. ASSUME NEW w \in Workers, Admit(w)
     PROVE WorkerRule
  BY <1>2 DEF Admit, Goto, rowVars, workerVars
<1>3. ASSUME NEW w \in Workers, AdmitTooLate(w)
     PROVE WorkerRule
  BY <1>3 DEF AdmitTooLate, EndRow, Goto, rowVars, workerVars
<1>4. ASSUME NEW w \in Workers, Start(w)
     PROVE WorkerRule
  BY <1>4 DEF Start, RecoverOpen, Goto, Recovered, rowVars, workerVars
<1>5. ASSUME NEW w \in Workers, Turn(w)
     PROVE WorkerRule
  BY <1>5 DEF Turn, Goto, Advanced, rowVars, workerVars
<1>6. ASSUME NEW w \in Workers, Propose(w)
     PROVE WorkerRule
  BY <1>6 DEF Propose, Goto, rowVars, workerVars
<1>7. ASSUME NEW w \in Workers, FencePasses(w)
     PROVE WorkerRule
  BY <1>7 DEF FencePasses, Goto, MayProceed, rowVars, workerVars
<1>8. ASSUME NEW w \in Workers, FenceCancels(w)
     PROVE WorkerRule
  BY <1>8 DEF FenceCancels, Goto, MayProceed, rowVars, workerVars
<1>9. ASSUME NEW w \in Workers, FenceFindsItEnded(w)
     PROVE WorkerRule
  BY <1>9 DEF FenceFindsItEnded, Goto, MayProceed, rowVars, workerVars
<1>10. ASSUME NEW w \in Workers, Record(w)
     PROVE WorkerRule
  <2>1. PICK x \in {"open", "refused"} : ledger' = [ledger EXCEPT ![wrun[w]] = Append(@, x)]
    BY <1>10 DEF Record
  <2>2. wrun[w] \in Runs
    BY <1>10 DEF Record
  <2>3. ledger'[wrun[w]] # << >>
    <3>1. ledger'[wrun[w]] = Append(ledger[wrun[w]], x)
      BY <2>1, <2>2
    <3>2. ledger[wrun[w]] \in Seq(Outcomes)
      BY <2>2
    <3>3. Len(Append(ledger[wrun[w]], x)) = Len(ledger[wrun[w]]) + 1
          /\ Len(ledger[wrun[w]]) \in Nat
      BY <3>2
    <3>4. Len(<< >>) = 0
      OBVIOUS
    <3>5. Len(ledger'[wrun[w]]) # Len(<< >>)
      BY <3>1, <3>3, <3>4
    <3> QED BY <3>5
  <2>4. /\ wpc[w] = "record"
        /\ \E next \in {"act", "turn", "park"} : wpc' = [wpc EXCEPT ![w] = next]
        /\ UNCHANGED <<rows, wrun, wexp>>
    BY <1>10 DEF Record, Goto, rowVars
  <2> QED BY <2>2, <2>3, <2>4
<1>11. ASSUME NEW w \in Workers, Observe(w)
     PROVE WorkerRule
  <2>1. PICK label \in {"turn", "threw"} : wpc' = [wpc EXCEPT ![w] = label]
    BY <1>11 DEF Observe, Goto
  <2>2. wpc[w] = "act" /\ UNCHANGED <<rows, wrun, wexp>>
    BY <1>11 DEF Observe, rowVars
  <2> QED BY <2>1, <2>2
<1>12. ASSUME NEW w \in Workers, Finish(w)
     PROVE WorkerRule
  BY <1>12 DEF Finish, Goto, rowVars, workerVars
<1>13. ASSUME NEW w \in Workers, Park(w)
     PROVE WorkerRule
  <2>1. CASE MayPark(wrun[w])
    BY <1>13, <2>1, SMTT(30) DEF Park, EndRow, Goto, Leave, MayPark, rowVars, workerVars
  <2>2. CASE ~MayPark(wrun[w])
    BY <1>13, <2>2 DEF Park, EndRow, Goto, Leave, MayPark, rowVars, workerVars
  <2> QED BY <1>13, <2>1, <2>2 DEF Park
<1>14. ASSUME NEW w \in Workers, Complete(w)
     PROVE WorkerRule
  BY <1>14 DEF Complete, EndRow, Goto, Results, rowVars, workerVars
<1>15. ASSUME NEW w \in Workers, SkipReview(w)
     PROVE WorkerRule
  BY <1>15 DEF SkipReview, Goto, rowVars, workerVars
<1>16. ASSUME NEW w \in Workers, EnqueueReview(w)
     PROVE WorkerRule
  BY <1>16, SMTT(30) DEF EnqueueReview, Enqueue, Goto, rowVars, workerVars
<1>17. ASSUME NEW w \in Workers, Reviewed(w)
     PROVE WorkerRule
  <2>1. CASE EndRow(wrun[w], "succeeded", "none")
    BY <1>17, <2>1 DEF Reviewed, EndRow, Goto, rowVars, workerVars
  <2>2. CASE EndRow(wrun[w], "failed", "error")
    BY <1>17, <2>2, SMTT(30) DEF Reviewed, EndRow, Goto, rowVars, workerVars
  <2> QED BY <1>17, <2>1, <2>2 DEF Reviewed
<1>18. ASSUME NEW w \in Workers, Cancelled(w)
     PROVE WorkerRule
  BY <1>18 DEF Cancelled, EndRow, Goto, rowVars, workerVars
<1>19. ASSUME NEW w \in Workers, SettleOwn(w)
     PROVE WorkerRule
  BY <1>19 DEF SettleOwn, RecoverOpen, Goto, MaySettle, Recovered, rowVars, workerVars
<1>20. ASSUME NEW w \in Workers, Threw(w)
     PROVE WorkerRule
  BY <1>20 DEF Threw, EndRow, Goto, rowVars, workerVars
<1>21. ASSUME NEW w \in Workers, Report(w)
     PROVE WorkerRule
  BY <1>21 DEF Report, Goto, rowVars, workerVars
<1>22. ASSUME NEW w \in Workers, ReportFault(w)
     PROVE WorkerRule
  BY <1>22 DEF ReportFault, Goto, Leave, rowVars, workerVars
<1>23. ASSUME NEW w \in Workers, HandBack(w)
     PROVE WorkerRule
  BY <1>23, SMTT(30) DEF HandBack, Goto, rowVars, workerVars
<1>24. ASSUME NEW w \in Workers, IdleSweep(w)
     PROVE WorkerRule
  BY <1>24 DEF IdleSweep, Goto, rowVars, workerVars
<1>25. ASSUME NEW w \in Workers, ReadExpired(w)
     PROVE WorkerRule
  BY <1>25 DEF ReadExpired, Goto, Expired, rowVars, workerVars
<1>26. ASSUME NEW w \in Workers, ExpireOne(w)
     PROVE WorkerRule
  <2>1. PICK r \in wexp[w] : wrun' = [wrun EXCEPT ![w] = r]
    BY <1>26 DEF ExpireOne
  <2>2. r \in Runs /\ question[r] # "none"
    BY <2>1
  <2>3. r <= rows /\ r # 0
    BY <2>2, AskedIsWritten
  <2>4. wpc' = [wpc EXCEPT ![w] = "report"] /\ UNCHANGED <<rows, wexp>>
    BY <1>26 DEF ExpireOne, Goto, EndRow
  <2> QED BY <2>1, <2>2, <2>3, <2>4
<1>27. ASSUME NEW w \in Workers, LeaseSweep(w)
     PROVE WorkerRule
  BY <1>27 DEF LeaseSweep, Goto, Reapable, rowVars, workerVars
<1>28. ASSUME NEW w \in Workers, SettleAbandoned(w)
     PROVE WorkerRule
  BY <1>28 DEF SettleAbandoned, RecoverOpen, Goto, Recovered, rowVars, workerVars
<1>29. ASSUME NEW w \in Workers, Restart(w)
     PROVE WorkerRule
  BY <1>29 DEF Restart, Goto, rowVars, workerVars
<1>30. ASSUME NEW w \in Workers, Crash(w)
     PROVE WorkerRule
  BY <1>30 DEF Crash, Goto, rowVars, workerVars
<1>31. ASSUME NEW w \in Workers, Throws(w)
     PROVE WorkerRule
  <2>1. PICK label \in CaughtAt(wpc[w]) :
           /\ wpc' = [wpc EXCEPT ![w] = label]
           /\ wrun' = [wrun EXCEPT ![w] = IF label = "idle" THEN 0 ELSE wrun[w]]
    BY <1>31 DEF Throws, Goto
  <2>2. wpc[w] \notin {"down", "idle", "threw"} /\ UNCHANGED rows /\ wexp' = [wexp EXCEPT ![w] = {}]
    BY <1>31 DEF Throws, rowVars
  <2>3. \/ label = "idle"
        \/ label = "threw" /\ wpc[w] \in InsideRunWorker
        \/ label = "report" /\ wpc[w] = "reviewing"
    BY <2>1 DEF CaughtAt, InsideRunWorker
  <2> QED BY <2>1, <2>2, <2>3, SMTT(30) DEF InsideRunWorker
<1>32. ASSUME NEW w \in Workers, FenceUnreadable(w)
     PROVE WorkerRule
  BY <1>32 DEF FenceUnreadable, Goto, rowVars, workerVars
<1>33. ASSUME NEW h \in Handlers,
       ConfirmCheck(h) \/ RejectCheck(h) \/ HaltStart(h) \/ Confirm(h) \/ Reject(h) \/
       RejectHandBack(h) \/ HaltClose(h) \/ HaltFlag(h) \/ HaltRevoke(h) \/ HaltSettle(h) \/
       RequestDies(h)
     PROVE WorkerRule
  <2>1. UNCHANGED <<rows, wpc, wrun, wexp>>
    BY <1>33 DEF ConfirmCheck, RejectCheck, HaltStart, Confirm, Reject, RejectHandBack,
       HaltClose, HaltFlag, HaltRevoke, HaltSettle, RequestDies, HGoto, HLeave,
       RecordVerdict, RecoverOpen, rowVars, workerVars
  <2> QED BY <2>1
<1>34. ASSUME NEW h \in Handlers, Continue(h)
     PROVE WorkerRule
  BY <1>34 DEF Continue, Enqueue, HGoto, HLeave, rowVars, workerVars
<1>35. ASSUME NEW r \in Runs,
       LeaseLapses(r) \/ DayPasses(r)
     PROVE WorkerRule
  <2>1. UNCHANGED <<rows, wpc, wrun, wexp>>
    BY <1>35 DEF LeaseLapses, DayPasses, rowVars, workerVars
  <2> QED BY <2>1
<1>36. CASE EndSession
  BY <1>36 DEF EndSession, rowVars, workerVars
<1>37. CASE UNCHANGED vars
  BY <1>37 DEF vars, rowVars, workerVars
<1> QED BY <1>1, <1>2, <1>3, <1>4, <1>5, <1>6, <1>7, <1>8, <1>9, <1>10, <1>11, <1>12, <1>13,
    <1>14, <1>15, <1>16, <1>17, <1>18, <1>19, <1>20, <1>21, <1>22, <1>23, <1>24, <1>25,
    <1>26, <1>27, <1>28, <1>29, <1>30, <1>31, <1>32, <1>33, <1>34, <1>35, <1>36, <1>37
    DEF Next, WorkerStep, Executes, Sweeps, Asked, RequestStep

\* Every step obeys AppRule.
LEMMA AppStep ==
  IInv /\ [Next]_vars => AppRule
<1> SUFFICES ASSUME IInv, [Next]_vars
             PROVE  AppRule
  OBVIOUS
<1> USE RunsAssumption DEF Runs, IInv, TypeOK, RowsInOrder, AskedQuestions, YesInHand,
    ParkedOnAQuestion, RowTypes, AskTypes, AppTypes, Live, Open, Ended, AppRule
<1>1. ASSUME NEW w \in Workers,
       Claim(w) \/ Admit(w) \/ AdmitTooLate(w) \/ Start(w) \/ Turn(w) \/ Propose(w) \/
       FencePasses(w) \/ FenceCancels(w) \/ FenceFindsItEnded(w) \/ Record(w) \/
       Observe(w) \/ Finish(w) \/ Park(w) \/ Complete(w) \/ SkipReview(w) \/ Reviewed(w) \/
       Cancelled(w) \/ SettleOwn(w) \/ Threw(w) \/ Report(w) \/ ReportFault(w) \/
       HandBack(w) \/ IdleSweep(w) \/ ReadExpired(w) \/ ExpireOne(w) \/ LeaseSweep(w) \/
       SettleAbandoned(w) \/ Restart(w) \/ Crash(w) \/ Throws(w) \/ FenceUnreadable(w)
     PROVE AppRule
  <2>1. UNCHANGED <<rows, hpc, hrun>>
    BY <1>1 DEF Claim, Admit, AdmitTooLate, Start, Turn, Propose, FencePasses, FenceCancels,
       FenceFindsItEnded, Record, Observe, Finish, Park, Complete, SkipReview, Reviewed,
       Cancelled, SettleOwn, Threw, Report, ReportFault, HandBack, IdleSweep, ReadExpired,
       ExpireOne, LeaseSweep, SettleAbandoned, Restart, Crash, Throws, FenceUnreadable, Goto,
       EndRow, RecoverOpen, Leave, appVars, rowVars
  <2> QED BY <2>1
<1>2. ASSUME NEW w \in Workers, EnqueueReview(w)
     PROVE AppRule
  BY <1>2 DEF EnqueueReview, Enqueue, Goto, appVars, rowVars
<1>3. ASSUME NEW h \in Handlers, ConfirmCheck(h)
     PROVE AppRule
  BY <1>3 DEF ConfirmCheck, HGoto, MayConfirm, appVars, rowVars
<1>4. ASSUME NEW h \in Handlers, RejectCheck(h)
     PROVE AppRule
  <2>1. PICK r \in Runs : question[r] = "open" /\ hrun' = [hrun EXCEPT ![h] = r]
    BY <1>4 DEF RejectCheck, Unanswered
  <2>2. r <= rows /\ r # 0
    BY <2>1, AskedIsWritten
  <2>3. hpc' = [hpc EXCEPT ![h] = "reject"] /\ UNCHANGED <<rows, question>>
    BY <1>4 DEF RejectCheck, HGoto, rowVars, askVars
  <2> QED BY <2>1, <2>2, <2>3
<1>5. ASSUME NEW h \in Handlers, HaltStart(h)
     PROVE AppRule
  BY <1>5 DEF HaltStart, HGoto, appVars, rowVars
<1>6. ASSUME NEW h \in Handlers, Confirm(h)
     PROVE AppRule
  <2>1. CASE Unanswered(hrun[h])
    BY <1>6, <2>1 DEF Confirm, HGoto, HLeave, RecordVerdict, Unanswered, appVars, rowVars
  <2>2. CASE ~Unanswered(hrun[h])
    BY <1>6, <2>2 DEF Confirm, HGoto, HLeave, RecordVerdict, Unanswered, appVars, rowVars
  <2> QED BY <1>6, <2>1, <2>2 DEF Confirm
<1>7. ASSUME NEW h \in Handlers, Continue(h)
     PROVE AppRule
  BY <1>7 DEF Continue, Enqueue, HGoto, HLeave, appVars, rowVars
<1>8. ASSUME NEW h \in Handlers, Reject(h)
     PROVE AppRule
  <2>1. CASE Unanswered(hrun[h])
    BY <1>8, <2>1 DEF Reject, HGoto, HLeave, RecordVerdict, Unanswered, appVars, rowVars
  <2>2. CASE ~Unanswered(hrun[h])
    BY <1>8, <2>2 DEF Reject, HGoto, HLeave, RecordVerdict, Unanswered, appVars, rowVars
  <2> QED BY <1>8, <2>1, <2>2 DEF Reject
<1>9. ASSUME NEW h \in Handlers, RejectHandBack(h)
     PROVE AppRule
  BY <1>9 DEF RejectHandBack, HGoto, HLeave, appVars, rowVars
<1>10. ASSUME NEW h \in Handlers, HaltClose(h)
     PROVE AppRule
  <2>1. CASE status[hrun[h]] = "awaiting-confirmation" /\ question[hrun[h]] = "open"
    BY <1>10, <2>1 DEF HaltClose, HGoto, appVars, rowVars
  <2>2. CASE ~(status[hrun[h]] = "awaiting-confirmation" /\ question[hrun[h]] = "open")
    BY <1>10, <2>2 DEF HaltClose, HGoto, appVars, rowVars
  <2> QED BY <1>10, <2>1, <2>2 DEF HaltClose
<1>11. ASSUME NEW h \in Handlers, HaltFlag(h)
     PROVE AppRule
  BY <1>11 DEF HaltFlag, HGoto, appVars, rowVars
<1>12. ASSUME NEW h \in Handlers, HaltRevoke(h)
     PROVE AppRule
  BY <1>12 DEF HaltRevoke, HGoto, appVars, rowVars
<1>13. ASSUME NEW h \in Handlers, HaltSettle(h)
     PROVE AppRule
  BY <1>13 DEF HaltSettle, RecoverOpen, HGoto, HLeave, MaySettle, Recovered, appVars, rowVars
<1>14. ASSUME NEW h \in Handlers, RequestDies(h)
     PROVE AppRule
  BY <1>14 DEF RequestDies, HGoto, HLeave, appVars, rowVars
<1>15. ASSUME NEW r \in Runs,
       LeaseLapses(r) \/ DayPasses(r)
     PROVE AppRule
  <2>1. UNCHANGED <<rows, hpc, hrun>>
    BY <1>15 DEF LeaseLapses, DayPasses, appVars, rowVars
  <2> QED BY <2>1
<1>16. CASE EndSession
  BY <1>16 DEF EndSession, appVars, rowVars
<1>17. CASE UNCHANGED vars
  BY <1>17 DEF vars, appVars, rowVars
<1> QED BY <1>1, <1>2, <1>3, <1>4, <1>5, <1>6, <1>7, <1>8, <1>9, <1>10, <1>11, <1>12, <1>13,
    <1>14, <1>15, <1>16, <1>17 DEF Next, WorkerStep, Executes, Sweeps, Asked, RequestStep

-----------------------------------------------------------------------------
(* The inductive invariant.                                                *)

\* A step that adds a row takes away what moved before: the driver of the
\* reviewed run moves on to the review, the request that continues lets go.
LEMMA OneMoverStep == IInv /\ [Next]_vars => OneMover'
<1> SUFFICES ASSUME IInv, [Next]_vars PROVE OneMover'
  OBVIOUS
<1>0. RowsRule /\ RowRule /\ QuestionRule /\ WorkerRule /\ AppRule /\ TypeOK'
  BY TypeStep, RowsStep, RowStep, QuestionStep, WorkersStep, AppStep
<1>1. ASSUME NEW r \in Runs, Moves(r)' PROVE Moves(r) \/ (r = rows + 1 /\ rows' = rows + 1)
  <2>1. CASE status'[r] \in Open
    BY <1>0, <2>1 DEF RowRule, Moves
  <2>2. ASSUME NEW w \in Workers, Drives(w, r)' PROVE Moves(r)
    <3>1. Drives(w, r) \/ status[r] = "pending"
      BY <1>0, <2>2 DEF WorkerRule, Drives
    <3> QED BY <3>1 DEF Moves, Open
  <2>3. CASE question'[r] = "open"
    <3>1. CASE question[r] # "none"
      <4>1. question[r] = "open"
        BY <1>0, <2>3, <3>1 DEF QuestionRule, IInv, TypeOK, AskTypes
      <4> QED BY <4>1 DEF Moves
    <3>2. CASE question[r] = "none"
      <4>1. PICK w \in Workers : wpc[w] = "park" /\ wrun[w] = r
        BY <1>0, <2>3, <3>2 DEF QuestionRule
      <4> QED BY <4>1 DEF Moves, Drives, Driving
    <3> QED BY <3>1, <3>2
  <2>4. ASSUME NEW h \in Handlers, hpc'[h] = "continue", hrun'[h] = r PROVE Moves(r)
    <3>1. hrun[h] = r /\ (hpc[h] = "continue" \/ question[r] = "open")
      BY <1>0, <2>4 DEF AppRule
    <3> QED BY <3>1 DEF Moves
  <2> QED BY <1>1, <2>1, <2>2, <2>3, <2>4 DEF Moves
<1>2. CASE rows' = rows
  <2>1. \A r \in Runs : Moves(r)' => Moves(r)
    BY <1>1, <1>2 DEF IInv, TypeOK, RowTypes, Runs
  <2> QED BY <2>1 DEF IInv, OneMover
<1>3. ASSUME NEW r \in Runs, Moves(r), ~Moves(r)',
             \A q \in Runs : Moves(q)' => Moves(q) \/ q = rows + 1
      PROVE  OneMover'
  BY <1>3 DEF IInv, OneMover
<1>4. ASSUME NEW w \in Workers, EnqueueReview(w) PROVE OneMover'
  <2>0. PICK r \in Runs : r = wrun[w]
    BY <1>4 DEF EnqueueReview, IInv, RowsInOrder, TypeOK, WorkerTypes, Holding, Labels
  <2>1. /\ wpc[w] = "review" /\ wrun[w] = r /\ r <= rows /\ status[r] \in Ended
        /\ claimedBy[r] = w /\ question[r] = "none"
    BY <1>4, <2>0 DEF EnqueueReview, IInv, RowsInOrder, ReviewedRun, ClaimedRun, TypeOK,
       WorkerTypes,
                Holding, Labels, Executing, Driving
  <2>2. Moves(r)
    BY <2>1 DEF Moves, Drives, Driving
  <2>3. status'[r] \notin Open
    BY <1>0, <2>1 DEF RowRule, Ended, Open, Live
  <2>4. question'[r] # "open"
    BY <1>4, <2>1 DEF EnqueueReview, askVars
  <2>5. ASSUME NEW v \in Workers, Drives(v, r)' PROVE FALSE
    <3>1. wpc' = [wpc EXCEPT ![w] = "reviewing"] /\ wrun' = [wrun EXCEPT ![w] = rows + 1]
      BY <1>4 DEF EnqueueReview, Goto
    <3>2. wpc'[v] \in Driving /\ wrun'[v] = r
      BY <2>5 DEF Drives
    <3>3. v # w
      BY <3>1, <3>2 DEF Driving, IInv, TypeOK, WorkerTypes
    <3>4. wpc[v] \in Executing /\ wrun[v] = r
      BY <3>1, <3>2, <3>3 DEF Executing, IInv, TypeOK, WorkerTypes
    <3> QED BY <2>1, <3>3, <3>4 DEF IInv, ClaimedRun
  <2>6. ASSUME NEW h \in Handlers, hpc'[h] = "continue", hrun'[h] = r PROVE FALSE
    BY <1>4, <2>1, <2>6 DEF EnqueueReview, appVars, IInv, YesInHand
  <2>7. ~Moves(r)'
    BY <2>3, <2>4, <2>5, <2>6 DEF Moves
  <2> QED BY <1>1, <1>3, <2>1, <2>2, <2>7
<1>5. ASSUME NEW h \in Handlers, Continue(h) PROVE OneMover'
  <2>0. PICK r \in Runs : r = hrun[h]
    BY <1>5 DEF Continue, IInv, RowsInOrder, TypeOK, AppTypes
  <2>1. hpc[h] = "continue" /\ hrun[h] = r /\ question[r] = "confirmed" /\ status[r] \in Ended
    BY <1>5, <2>0 DEF Continue, IInv, YesInHand, RowsInOrder, TypeOK, AppTypes,
       ParkedOnAQuestion
  <2>2. Moves(r)
    BY <2>1 DEF Moves
  <2>3. status'[r] \notin Open
    BY <1>0, <2>1 DEF RowRule, Ended, Open, Live
  <2>4. question'[r] # "open"
    BY <1>5, <2>1 DEF Continue, askVars
  <2>5. ASSUME NEW v \in Workers, Drives(v, r)' PROVE FALSE
    <3>1. wpc[v] \in Executing /\ wrun[v] = r
      BY <1>5, <2>5 DEF Continue, workerVars, Drives, Executing
    <3> QED BY <2>1, <3>1 DEF IInv, ClaimedRun
  <2>6. ASSUME NEW g \in Handlers, hpc'[g] = "continue", hrun'[g] = r PROVE FALSE
    <3>1. hpc' = [hpc EXCEPT ![h] = "idle"] /\ hrun' = [hrun EXCEPT ![h] = 0]
      BY <1>5 DEF Continue, HLeave, HGoto
    <3>2. g # h /\ hpc[g] = "continue" /\ hrun[g] = r
      BY <2>6, <3>1 DEF IInv, TypeOK, AppTypes
    <3> QED BY <2>1, <3>2 DEF IInv, YesInHand
  <2>7. ~Moves(r)'
    BY <2>3, <2>4, <2>5, <2>6 DEF Moves
  <2> QED BY <1>1, <1>3, <2>1, <2>2, <2>7
<1> QED BY <1>0, <1>2, <1>4, <1>5 DEF RowsRule

\* The invariant is inductive: each part follows from the rules.
LEMMA InvStep == IInv /\ [Next]_vars => IInv'
<1> SUFFICES ASSUME IInv, [Next]_vars PROVE IInv'
  OBVIOUS
<1> USE DEF Runs
<1>0. /\ TypeOK' /\ RowsRule /\ RowRule /\ ResumesRule
      /\ QuestionRule /\ WorkerRule /\ AppRule /\ LedgerRule
  BY TypeStep, RowsStep, RowStep, ResumesStep, QuestionStep, WorkersStep, AppStep, LedgerStep
<1>1. RowsInOrder'
  BY <1>0 DEF RowsInOrder, RowRule, ResumesRule, WorkerRule, AppRule
<1>2. ClaimedRun'
  <2> SUFFICES ASSUME NEW w \in Workers, wpc'[w] \in Executing
               PROVE  /\ claimedBy'[wrun'[w]] = w
                      /\ status'[wrun'[w]] # "pending"
                      /\ question'[wrun'[w]] = "none"
    BY DEF ClaimedRun
  <2> DEFINE r == wrun'[w]
  <2>1. r \in Runs /\ r <= rows'
    BY <1>0, <1>1 DEF RowsInOrder, TypeOK, WorkerTypes, Executing, Driving, Holding, Labels
  <2>2. CASE wpc[w] \in Executing /\ wrun'[w] = wrun[w]
    <3>1. claimedBy[r] = w /\ status[r] # "pending" /\ question[r] = "none" /\ r <= rows
      BY <2>2 DEF IInv, ClaimedRun, RowsInOrder
    <3>2. claimedBy'[r] = w /\ status'[r] # "pending"
      BY <1>0, <2>1, <3>1 DEF RowRule, IInv, TypeOK, RowTypes
    <3>3. ASSUME question'[r] # "none" PROVE FALSE
      <4>1. PICK v \in Workers : wpc[v] = "park" /\ wrun[v] = r /\ wpc'[v] = "idle"
        BY <1>0, <2>1, <3>1, <3>3 DEF QuestionRule
      <4>2. claimedBy[r] = v
        BY <4>1 DEF IInv, ClaimedRun, Executing, Driving
      <4> QED BY <3>1, <4>1, <4>2 DEF Executing, Driving
    <3> QED BY <3>2, <3>3
  <2>3. CASE status[r] = "pending" /\ claimedBy'[r] = w /\ status'[r] = "claimed"
    <3>1. question[r] = "none"
      BY <2>1, <2>3 DEF IInv, ParkedOnAQuestion, Ended
    <3>2. question'[r] = "none"
      BY <1>0, <2>1, <2>3, <3>1 DEF QuestionRule
    <3> QED BY <2>3, <3>2
  <2> QED BY <1>0, <2>2, <2>3 DEF WorkerRule
<1>3. ReviewedRun'
  <2> SUFFICES ASSUME NEW w \in Workers, wpc'[w] = "review" PROVE status'[wrun'[w]] \in Ended
    BY DEF ReviewedRun
  <2>1. wrun'[w] \in Runs /\ wrun'[w] = wrun[w]
    BY <1>0, <1>1 DEF RowsInOrder, TypeOK, WorkerTypes, Holding, Labels, WorkerRule
  <2>2. wpc[w] = "review" \/ status'[wrun[w]] \in Ended
    BY <1>0 DEF WorkerRule
  <2> QED BY <1>0, <2>1, <2>2 DEF IInv, ReviewedRun, RowRule
<1>4. ActingRun'
  <2> SUFFICES ASSUME NEW w \in Workers, wpc'[w] = "act" PROVE ledger'[wrun'[w]] # << >>
    BY DEF ActingRun
  <2>1. wrun'[w] \in Runs /\ wrun'[w] = wrun[w]
    BY <1>0, <1>1 DEF RowsInOrder, TypeOK, WorkerTypes, Holding, Labels, WorkerRule
  <2>2. CASE wpc[w] = "act"
    <3>1. ledger[wrun[w]] # << >> /\ Len(ledger[wrun[w]]) <= Len(ledger'[wrun[w]])
      BY <1>0, <2>1, <2>2 DEF IInv, ActingRun, LedgerRule
    <3>2. ledger[wrun[w]] \in Seq(Outcomes)
      BY <2>1 DEF IInv, TypeOK, LedgerTypes
    <3> QED BY <2>1, <3>1, <3>2
  <2> QED BY <1>0, <2>1, <2>2 DEF WorkerRule
<1>5. AskedQuestions'
  <2>1. \A w \in Workers : \A r \in wexp'[w] : question'[r] # "none"
    BY <1>0 DEF WorkerRule, QuestionRule
  <2>2. ASSUME NEW h \in Handlers, hpc'[h] \in {"confirm", "reject"}
        PROVE  question'[hrun'[h]] # "none"
    <3>1. hrun'[h] \in Runs
      BY <1>0, <2>2 DEF AppRule, TypeOK, AppTypes
    <3> QED BY <1>0, <2>2, <3>1 DEF AppRule, QuestionRule
  <2> QED BY <2>1, <2>2 DEF AskedQuestions
<1>6. \A h \in Handlers : hpc'[h] = "continue" =>
        hrun'[h] \in Runs /\ question'[hrun'[h]] = "confirmed"
  <2> SUFFICES ASSUME NEW h \in Handlers, hpc'[h] = "continue"
               PROVE  hrun'[h] \in Runs /\ question'[hrun'[h]] = "confirmed"
    OBVIOUS
  <2>1. hrun'[h] \in Runs /\ hrun'[h] = hrun[h]
    BY <1>0 DEF AppRule, TypeOK, AppTypes
  <2>2. CASE hpc[h] = "continue"
    BY <1>0, <2>1, <2>2 DEF IInv, YesInHand, QuestionRule
  <2> QED BY <1>0, <2>1, <2>2 DEF AppRule
<1>7. YesInHand'
  <2>1. ASSUME NEW h \in Handlers, hpc'[h] = "continue", NEW r \in Runs, resumes'[r] = hrun'[h]
        PROVE  FALSE
    <3>1. hrun'[h] \in Runs /\ hrun'[h] = hrun[h] /\ hrun[h] # 0
      BY <1>0, <2>1 DEF AppRule, TypeOK, AppTypes
    <3>2. resumes[r] # hrun[h]
      BY <1>0, <2>1, <3>1 DEF IInv, YesInHand, AYesIsSpentOnce, AppRule
    <3>3. PICK g \in Handlers : hpc[g] = "continue" /\ hrun[g] = hrun[h] /\ hpc'[g] = "idle"
      BY <1>0, <2>1, <3>1, <3>2 DEF ResumesRule
    <3>4. question[hrun[h]] = "confirmed"
      BY <3>3 DEF IInv, YesInHand
    <3>5. hpc[h] = "continue"
      BY <1>0, <2>1, <3>4 DEF AppRule
    <3> QED BY <2>1, <3>3, <3>5 DEF IInv, YesInHand
  <2>2. ASSUME NEW h \in Handlers, NEW g \in Handlers, hpc'[h] = "continue", hpc'[g] = "continue",
               hrun'[h] = hrun'[g], h # g
        PROVE  FALSE
    <3>1. hrun[h] = hrun[g]
      BY <1>0, <2>2 DEF AppRule
    <3>2. CASE hpc[h] = "continue" /\ hpc[g] = "continue"
      BY <2>2, <3>1, <3>2 DEF IInv, YesInHand
    <3>3. CASE hpc[h] # "continue"
      <4>1. question[hrun[h]] = "open" /\ hpc[g] = "continue"
        BY <1>0, <2>2, <3>3 DEF AppRule
      <4> QED BY <3>1, <4>1 DEF IInv, YesInHand
    <3>4. CASE hpc[g] # "continue"
      <4>1. question[hrun[g]] = "open" /\ hpc[h] = "continue"
        BY <1>0, <2>2, <3>4 DEF AppRule
      <4> QED BY <3>1, <4>1 DEF IInv, YesInHand
    <3> QED BY <3>2, <3>3, <3>4
  <2> QED BY <1>6, <2>1, <2>2 DEF YesInHand
<1>8. ParkedOnAQuestion'
  <2> SUFFICES ASSUME NEW r \in Runs
               PROVE  /\ status'[r] = "awaiting-confirmation" => question'[r] # "none"
                      /\ question'[r] # "none" => status'[r] \in Ended
    BY DEF ParkedOnAQuestion
  <2>1. status'[r] = "awaiting-confirmation" => question'[r] # "none"
    BY <1>0 DEF IInv, ParkedOnAQuestion, RowRule, QuestionRule
  <2>2. question'[r] # "none" => status'[r] \in Ended
    BY <1>0 DEF IInv, ParkedOnAQuestion, RowRule, QuestionRule, Ended
  <2> QED BY <2>1, <2>2
<1>9. TokenFollowsTheRun'
  BY <1>0 DEF TokenFollowsTheRun, RowRule
<1>10. AYesIsSpentOnce'
  <2> SUFFICES ASSUME NEW r \in Runs, resumes'[r] # 0
               PROVE  /\ question'[resumes'[r]] = "confirmed"
                      /\ \A q \in Runs : resumes'[q] = resumes'[r] => q = r
    BY DEF AYesIsSpentOnce
  <2>1. resumes'[r] \in Runs
    BY <1>0 DEF TypeOK, RowTypes
  <2>2. CASE resumes'[r] = resumes[r]
    <3>1. question[resumes[r]] = "confirmed" /\ \A q \in Runs : resumes[q] = resumes[r] => q = r
      BY <2>2 DEF IInv, AYesIsSpentOnce
    <3>2. ASSUME NEW q \in Runs, resumes'[q] = resumes'[r], resumes'[q] # resumes[q] PROVE FALSE
      BY <1>0, <2>2, <3>2 DEF IInv, YesInHand, ResumesRule
    <3> QED BY <1>0, <2>1, <2>2, <3>1, <3>2 DEF QuestionRule
  <2>3. CASE resumes'[r] # resumes[r]
    <3>1. PICK h \in Handlers : hpc[h] = "continue" /\ resumes'[r] = hrun[h]
      BY <1>0, <2>3 DEF ResumesRule
    <3>2. question'[resumes'[r]] = "confirmed"
      BY <1>0, <2>1, <3>1 DEF IInv, YesInHand, QuestionRule
    <3>3. ASSUME NEW q \in Runs, resumes'[q] = resumes'[r] PROVE q = r
      <4>1. resumes[q] # resumes'[q]
        BY <3>1, <3>3 DEF IInv, YesInHand
      <4> QED BY <1>0, <2>3, <4>1 DEF ResumesRule
    <3> QED BY <3>2, <3>3
  <2> QED BY <2>2, <2>3
<1>11. OneMover'
  BY <1>0, OneMoverStep
<1> QED BY <1>0, <1>1, <1>2, <1>3, <1>4, <1>5, <1>7, <1>8, <1>9, <1>10, <1>11 DEF IInv

\* It holds of a shift just accepted.
LEMMA InvInit == Init => IInv
<1> SUFFICES ASSUME Init PROVE IInv
  OBVIOUS
<1> USE RunsAssumption DEF Runs
<1>1. TypeOK
  <2>1. RowTypes
    BY DEF Init, RowTypes, Live, Open, Reasons
  <2>2. LedgerTypes
    BY DEF Init, LedgerTypes
  <2>3. AskTypes /\ ShiftTypes /\ WorkerTypes /\ AppTypes /\ faults \in Nat
    BY DEF Init, AskTypes, ShiftTypes, WorkerTypes, AppTypes, Labels, HLabels
  <2> QED BY <2>1, <2>2, <2>3 DEF TypeOK
<1>2. RowsInOrder
  BY DEF Init, RowsInOrder, Holding
<1>3. ClaimedRun /\ ReviewedRun /\ ActingRun
  BY DEF Init, ClaimedRun, ReviewedRun, ActingRun, Executing, Driving
<1>4. AskedQuestions /\ YesInHand /\ ParkedOnAQuestion
  BY DEF Init, AskedQuestions, YesInHand, ParkedOnAQuestion, Ended
<1>5. TokenFollowsTheRun /\ AYesIsSpentOnce
  BY DEF Init, TokenFollowsTheRun, AYesIsSpentOnce
<1>6. \A r \in Runs : Moves(r) => r = 1
  BY DEF Init, Moves, Drives, Driving, Open, Live
<1>7. OneMover
  BY <1>6 DEF OneMover
<1> QED BY <1>1, <1>2, <1>3, <1>4, <1>5, <1>7 DEF IInv

-----------------------------------------------------------------------------
(* What is recorded after a stop.                                          *)

\* A late intent belongs to a stopped run, and a worker between its fence and
\* its insert has recorded none yet.
LateInv ==
    /\ OneStepPastAStop
    /\ \A r \in Runs : late[r] # 0 => cancel[r] \/ status[r] \in Ended
    /\ \A w \in Workers : wpc[w] = "record" => late[wrun[w]] = 0

\* An intent is late only where a worker past its fence inserts it, a fence
\* is passed only by a run that may proceed, and a cancel flag is not lowered.
LateRule ==
    /\ \A r \in Runs : late'[r] = late[r] \/ \E w \in Workers :
          /\ wpc[w] = "record" /\ wrun[w] = r /\ wpc'[w] # "record"
          /\ late'[r] = late[r] + 1
          /\ cancel[r] \/ status[r] \notin Live
    /\ \A r \in Runs : cancel[r] => cancel'[r]
    /\ \A w \in Workers : wpc'[w] = "record" =>
          /\ wrun'[w] = wrun[w]
          /\ wpc[w] = "record" \/ (wpc[w] = "fence" /\ MayProceed(wrun[w]))

\* Every step obeys LateRule.
LEMMA LateRuleStep == IInv /\ [Next]_vars => LateRule
<1> SUFFICES ASSUME IInv, [Next]_vars PROVE LateRule
  OBVIOUS
<1> USE DEF IInv, TypeOK, RowTypes, LedgerTypes, WorkerTypes, AppTypes, LateRule
<1>1. ASSUME NEW w \in Workers,
       Claim(w) \/ Admit(w) \/ AdmitTooLate(w) \/ Start(w) \/ Turn(w) \/ Propose(w) \/
       FenceCancels(w) \/ FenceFindsItEnded(w) \/ Observe(w) \/ Finish(w) \/ Park(w) \/
       Complete(w) \/ SkipReview(w) \/ Reviewed(w) \/ Cancelled(w)
     PROVE  LateRule
  <2>1. UNCHANGED <<late, cancel>>
    BY <1>1 DEF Claim, Admit, AdmitTooLate, Start, Turn, Propose, FenceCancels,
       FenceFindsItEnded, Observe, Finish, Park, Complete, SkipReview, Reviewed, Cancelled,
       Goto, Leave, Enqueue, EndRow, RecoverOpen, rowVars, ledgerVars, workerVars
  <2>2. \A u \in Workers : wpc'[u] = "record" => wpc[u] = "record" /\ wrun'[u] = wrun[u]
    BY <1>1 DEF Claim, Admit, AdmitTooLate, Start, Turn, Propose, FenceCancels,
       FenceFindsItEnded, Observe, Finish, Park, Complete, SkipReview, Reviewed, Cancelled,
       Goto, Leave, Enqueue, EndRow, RecoverOpen, rowVars, ledgerVars, workerVars
  <2> QED BY <2>1, <2>2
<1>2. ASSUME NEW w \in Workers,
       SettleOwn(w) \/ Threw(w) \/ Report(w) \/ ReportFault(w) \/ HandBack(w)
     PROVE  LateRule
  <2>1. UNCHANGED <<late, cancel>>
    BY <1>2 DEF SettleOwn, Threw, Report, ReportFault, HandBack, Goto, Leave, Enqueue,
       EndRow, RecoverOpen, rowVars, ledgerVars, workerVars
  <2>2. \A u \in Workers : wpc'[u] = "record" => wpc[u] = "record" /\ wrun'[u] = wrun[u]
    BY <1>2 DEF SettleOwn, Threw, Report, ReportFault, HandBack, Goto, Leave, Enqueue,
       EndRow, RecoverOpen, rowVars, ledgerVars, workerVars
  <2> QED BY <2>1, <2>2
<1>11. ASSUME NEW w \in Workers,
       EnqueueReview(w)
     PROVE  LateRule
  <2>1. UNCHANGED <<late, cancel>>
    BY <1>11 DEF EnqueueReview, Goto, Leave, Enqueue, EndRow, RecoverOpen, rowVars,
       ledgerVars, workerVars
  <2>2. \A u \in Workers : wpc'[u] = "record" => wpc[u] = "record" /\ wrun'[u] = wrun[u]
    BY <1>11 DEF EnqueueReview, Goto, Leave, Enqueue, EndRow, RecoverOpen, rowVars,
       ledgerVars, workerVars
  <2> QED BY <2>1, <2>2
<1>12. ASSUME NEW w \in Workers,
       IdleSweep(w) \/ ReadExpired(w) \/ LeaseSweep(w) \/ SettleAbandoned(w) \/ Restart(w) \/
       Crash(w) \/ FenceUnreadable(w)
     PROVE  LateRule
  <2>1. UNCHANGED <<late, cancel>>
    BY <1>12 DEF IdleSweep, ReadExpired, LeaseSweep, SettleAbandoned, Restart, Crash,
       FenceUnreadable, Goto, Leave, Enqueue, EndRow, RecoverOpen, rowVars, ledgerVars,
       workerVars
  <2>2. \A u \in Workers : wpc'[u] = "record" => wpc[u] = "record" /\ wrun'[u] = wrun[u]
    BY <1>12 DEF IdleSweep, ReadExpired, LeaseSweep, SettleAbandoned, Restart, Crash,
       FenceUnreadable, Goto, Leave, Enqueue, EndRow, RecoverOpen, rowVars, ledgerVars,
       workerVars
  <2> QED BY <2>1, <2>2
<1>13. ASSUME NEW w \in Workers,
       ExpireOne(w)
     PROVE  LateRule
  <2>1. UNCHANGED <<late, cancel>>
    BY <1>13 DEF ExpireOne, Goto, Leave, Enqueue, EndRow, RecoverOpen, rowVars, ledgerVars,
       workerVars
  <2>2. \A u \in Workers : wpc'[u] = "record" => wpc[u] = "record" /\ wrun'[u] = wrun[u]
    BY <1>13 DEF ExpireOne, Goto, Leave, Enqueue, EndRow, RecoverOpen, rowVars, ledgerVars,
       workerVars
  <2> QED BY <2>1, <2>2
<1>10. ASSUME NEW w \in Workers,
       Throws(w)
     PROVE  LateRule
  <2>1. UNCHANGED <<late, cancel>>
    BY <1>10 DEF Throws, Goto, rowVars, ledgerVars, workerVars
  <2>2. \A u \in Workers : wpc'[u] = "record" => wpc[u] = "record" /\ wrun'[u] = wrun[u]
    BY <1>10 DEF Throws, Goto, rowVars, ledgerVars, workerVars, CaughtAt, InsideRunWorker
  <2> QED BY <2>1, <2>2
<1>3. ASSUME NEW h \in Handlers,
       ConfirmCheck(h) \/ RejectCheck(h) \/ HaltStart(h) \/ Confirm(h) \/ Reject(h) \/
       Continue(h) \/ RejectHandBack(h) \/ HaltClose(h) \/ HaltRevoke(h) \/ HaltSettle(h) \/
       RequestDies(h)
     PROVE  LateRule
  <2>1. UNCHANGED <<late, cancel>>
    BY <1>3 DEF ConfirmCheck, RejectCheck, HaltStart, Confirm, Reject, Continue,
       RejectHandBack, HaltClose, HaltRevoke, HaltSettle, RequestDies, HGoto, HLeave,
       Enqueue, RecordVerdict, RecoverOpen, rowVars, ledgerVars, workerVars
  <2>2. \A u \in Workers : wpc'[u] = "record" => wpc[u] = "record" /\ wrun'[u] = wrun[u]
    BY <1>3 DEF ConfirmCheck, RejectCheck, HaltStart, Confirm, Reject, Continue,
       RejectHandBack, HaltClose, HaltRevoke, HaltSettle, RequestDies, HGoto, HLeave,
       Enqueue, RecordVerdict, RecoverOpen, rowVars, ledgerVars, workerVars
  <2> QED BY <2>1, <2>2
<1>4. ASSUME NEW w \in Workers, FencePasses(w)
     PROVE  LateRule
  BY <1>4 DEF FencePasses, Goto, rowVars, ledgerVars
<1>5. ASSUME NEW w \in Workers, Record(w)
     PROVE  LateRule
  <2>1. /\ wpc[w] = "record" /\ wrun[w] \in Runs
        /\ UNCHANGED <<cancel, wrun>>
    BY <1>5 DEF Record, RowsInOrder, Holding, Labels, rowVars
  <2>2. PICK label \in {"act", "turn", "park"} : wpc' = [wpc EXCEPT ![w] = label]
    BY <1>5 DEF Record, Goto
  <2>3. CASE cancel[wrun[w]] \/ status[wrun[w]] \notin Live
    <3>1. late' = [late EXCEPT ![wrun[w]] = late[wrun[w]] + 1]
      BY <1>5, <2>3 DEF Record
    <3> QED BY <2>1, <2>2, <2>3, <3>1
  <2>4. CASE ~(cancel[wrun[w]] \/ status[wrun[w]] \notin Live)
    <3>1. late' = late
      BY <1>5, <2>4 DEF Record
    <3> QED BY <2>1, <2>2, <3>1
  <2> QED BY <2>3, <2>4
<1>6. ASSUME NEW h \in Handlers, HaltFlag(h)
     PROVE  LateRule
  BY <1>6 DEF HaltFlag, HGoto, ledgerVars, workerVars
<1>7. ASSUME NEW r \in Runs, LeaseLapses(r) \/ DayPasses(r)
     PROVE  LateRule
  BY <1>7 DEF LeaseLapses, DayPasses, rowVars, ledgerVars, workerVars
<1>8. CASE EndSession
  BY <1>8 DEF EndSession, rowVars, ledgerVars, workerVars
<1>9. CASE UNCHANGED vars
  BY <1>9 DEF vars, rowVars, ledgerVars, workerVars
<1> QED BY <1>1, <1>2, <1>3, <1>4, <1>5, <1>6, <1>7, <1>8, <1>9, <1>10, <1>11, <1>12, <1>13
    DEF Next, WorkerStep, Executes, Sweeps, Asked, RequestStep

\* Late intents stay at one for each run: the claim makes the worker past its
\* fence the only one that can insert.
LEMMA LateStep == IInv /\ LateInv /\ [Next]_vars => LateInv'
<1> SUFFICES ASSUME IInv, LateInv, [Next]_vars PROVE LateInv'
  OBVIOUS
<1>0. IInv' /\ LateRule /\ RowRule
  BY InvStep, LateRuleStep, RowStep
<1>1. ASSUME NEW w \in Workers, NEW v \in Workers, wpc[w] \in {"fence", "record"},
             wpc[v] = "record", wrun[w] = wrun[v]
      PROVE  w = v
  BY <1>1 DEF IInv, ClaimedRun, Executing, Driving
<1>2. ASSUME NEW w \in Workers, wpc[w] = "record"
      PROVE  /\ wrun[w] \in Runs /\ late[wrun[w]] = 0
             /\ status[wrun[w]] \in Live \/ status[wrun[w]] \in Ended
  <2>1. wrun[w] \in Runs /\ wrun[w] <= rows /\ status[wrun[w]] # "pending"
    BY <1>2 DEF IInv, RowsInOrder, ClaimedRun, Executing, Driving, Holding, Labels, TypeOK,
       WorkerTypes
  <2>2. status[wrun[w]] # "absent"
    BY <2>1 DEF IInv, RowsInOrder, TypeOK, RowTypes, Runs
  <2> QED BY <1>2, <2>1, <2>2 DEF IInv, TypeOK, RowTypes, LateInv, Open
<1>3. OneStepPastAStop'
  <2> SUFFICES ASSUME NEW r \in Runs PROVE late'[r] <= 1
    BY DEF OneStepPastAStop
  <2>1. CASE late'[r] = late[r]
    BY <2>1 DEF LateInv, OneStepPastAStop
  <2>2. CASE late'[r] # late[r]
    BY <1>0, <1>2, <2>2 DEF LateRule
  <2> QED BY <2>1, <2>2
<1>4. ASSUME NEW r \in Runs, late'[r] # 0 PROVE cancel'[r] \/ status'[r] \in Ended
  <2>1. cancel[r] \/ status[r] \in Ended
    <3>1. CASE late'[r] = late[r]
      BY <1>4, <3>1 DEF LateInv
    <3>2. CASE late'[r] # late[r]
      BY <1>0, <1>2, <3>2 DEF LateRule
    <3> QED BY <3>1, <3>2
  <2> QED BY <1>0, <2>1 DEF LateRule, RowRule
<1>5. ASSUME NEW w \in Workers, wpc'[w] = "record" PROVE late'[wrun'[w]] = 0
  <2>1. PICK r \in Runs : r = wrun'[w]
    BY <1>0, <1>5 DEF IInv, RowsInOrder, Holding, Labels, TypeOK, WorkerTypes
  <2>2. r = wrun[w] /\ (wpc[w] = "record" \/ (wpc[w] = "fence" /\ MayProceed(r)))
    BY <1>0, <1>5, <2>1 DEF LateRule
  <2>3. late[r] = 0
    BY <2>2 DEF LateInv, MayProceed, Live, Ended
  <2>4. late'[r] = late[r]
    <3> SUFFICES ASSUME late'[r] # late[r] PROVE FALSE
      OBVIOUS
    <3>1. PICK v \in Workers : wpc[v] = "record" /\ wrun[v] = r /\ wpc'[v] # "record"
      BY <1>0 DEF LateRule
    <3>2. v = w
      BY <1>1, <2>2, <3>1
    <3> QED BY <1>5, <3>1, <3>2
  <2> QED BY <2>1, <2>3, <2>4
<1> QED BY <1>3, <1>4, <1>5 DEF LateInv

\* Nothing has been recorded before the shift starts.
LEMMA LateInit == Init => LateInv
  BY DEF Init, LateInv, OneStepPastAStop

-----------------------------------------------------------------------------
(* What a stop closed stays closed.                                        *)

\* The run ended for good.
Over(r) == status[r] \in Ended \ {"awaiting-confirmation"}

\* What is over stays over, and a request comes to confirm a parked run.
OverRule ==
    /\ \A r \in Runs : Over(r) => Over(r)'
    /\ \A h \in Handlers : hpc'[h] = "confirm" =>
          \/ hpc[h] = "confirm" /\ hrun'[h] = hrun[h]
          \/ status[hrun'[h]] = "awaiting-confirmation"

\* An end for good.
LEMMA EndRowIsOver ==
  ASSUME IInv, NEW r \in Runs, NEW s \in Ended \ {"awaiting-confirmation"}, NEW why,
         EndRow(r, s, why), UNCHANGED appVars
  PROVE  OverRule
<1>1. /\ status \in [Runs -> Open \union Ended \union {"absent"}]
      /\ status' = [status EXCEPT ![r] = s]
  BY DEF EndRow, IInv, TypeOK, RowTypes
<1>2. status'[r] = s /\ \A q \in Runs \ {r} : status'[q] = status[q]
  BY <1>1
<1> QED BY <1>2 DEF OverRule, Over, appVars

\* Every step obeys OverRule.
LEMMA OverStep == IInv /\ [Next]_vars => OverRule
<1> SUFFICES ASSUME IInv, [Next]_vars PROVE OverRule
  OBVIOUS
<1>0. /\ status \in [Runs -> Open \union Ended \union {"absent"}]
      /\ wrun \in [Workers -> Runs \union {0}]
      /\ \A w \in Workers : wpc[w] \in Holding => wrun[w] \in Runs
      /\ hrun \in [Handlers -> Runs \union {0}] /\ hpc \in [Handlers -> HLabels]
      /\ \A h \in Handlers : hpc[h] # "idle" => hrun[h] \in Runs
  BY DEF IInv, TypeOK, RowTypes, WorkerTypes, AppTypes, RowsInOrder
<1>1. ASSUME UNCHANGED <<status, appVars>> PROVE OverRule
  BY <1>1 DEF OverRule, Over, appVars
<1>2. ASSUME NEW w \in Workers,
       Admit(w) \/ Start(w) \/ Propose(w) \/ FencePasses(w) \/ FenceCancels(w) \/
       FenceFindsItEnded(w) \/ Record(w) \/ Observe(w) \/ Finish(w) \/ SkipReview(w) \/
       SettleOwn(w) \/ Report(w) \/ ReportFault(w) \/ HandBack(w) \/ IdleSweep(w) \/
       ReadExpired(w) \/ SettleAbandoned(w) \/ Restart(w) \/ Crash(w) \/ Throws(w) \/
       FenceUnreadable(w)
     PROVE OverRule
  <2>1. UNCHANGED <<status, appVars>>
    BY <1>2 DEF Admit, Start, Propose, FencePasses, FenceCancels, FenceFindsItEnded, Record,
       Observe, Finish, SkipReview, SettleOwn, Report, ReportFault, HandBack, IdleSweep,
       ReadExpired, SettleAbandoned, Restart, Crash, Throws, FenceUnreadable, rowVars
  <2> QED BY <1>1, <2>1
<1>3. ASSUME NEW w \in Workers, Claim(w) \/ Turn(w) PROVE OverRule
  <2>1. UNCHANGED appVars
    BY <1>3 DEF Claim, Turn
  <2>2. \A r \in Runs : Over(r) => status'[r] = status[r]
    BY <1>0, <1>3 DEF Claim, Turn, Claimable, Advanced, Over, Ended, Live
  <2> QED BY <2>1, <2>2 DEF OverRule, Over, appVars
<1>4. ASSUME NEW w \in Workers,
       AdmitTooLate(w) \/ Complete(w) \/ Reviewed(w) \/ Cancelled(w) \/ Threw(w)
     PROVE OverRule
  <2>1. wpc[w] \in Holding
    BY <1>4 DEF AdmitTooLate, Complete, Reviewed, Cancelled, Threw, Holding, Labels
  <2>2. PICK s \in Ended \ {"awaiting-confirmation"}, why \in Reasons : EndRow(wrun[w], s, why)
    BY <1>4 DEF AdmitTooLate, Complete, Reviewed, Cancelled, Threw, Results, Ended, Reasons
  <2>3. UNCHANGED appVars
    BY <1>4 DEF AdmitTooLate, Complete, Reviewed, Cancelled, Threw
  <2> QED BY <1>0, <2>1, <2>2, <2>3, EndRowIsOver
<1>5. ASSUME NEW w \in Workers, Park(w) PROVE OverRule
  <2>1. UNCHANGED appVars /\ wrun[w] \in Runs
    BY <1>0, <1>5 DEF Park, Holding, Labels
  <2>2. CASE ~ MayPark(wrun[w])
    BY <1>1, <1>5, <2>1, <2>2 DEF Park, rowVars
  <2>3. CASE MayPark(wrun[w])
    <3>1. status' = [status EXCEPT ![wrun[w]] = "awaiting-confirmation"]
      BY <1>5, <2>3 DEF Park, EndRow
    <3>2. \A r \in Runs : Over(r) => status'[r] = status[r]
      BY <1>0, <2>1, <2>3, <3>1 DEF MayPark, Over, Live, Ended
    <3> QED BY <2>1, <3>2 DEF OverRule, Over, appVars
  <2> QED BY <2>2, <2>3
<1>6. ASSUME NEW w \in Workers, ExpireOne(w) PROVE OverRule
  <2>1. PICK r \in wexp[w] : EndRow(r, "interrupted", "confirmation-expired")
    BY <1>6 DEF ExpireOne
  <2>2. UNCHANGED appVars /\ r \in Runs
    BY <1>6 DEF ExpireOne, IInv, TypeOK, WorkerTypes
  <2> QED BY <2>1, <2>2, EndRowIsOver DEF Ended, Reasons
<1>7. ASSUME NEW w \in Workers, LeaseSweep(w) PROVE OverRule
  <2>1. /\ UNCHANGED appVars
        /\ \A r \in Runs : status'[r] \in {status[r], "interrupted"}
    BY <1>7 DEF LeaseSweep
  <2> QED BY <2>1 DEF OverRule, Over, appVars, Ended
<1>8. ASSUME NEW kind, NEW from, Enqueue(kind, from)
      PROVE  \A r \in Runs : Over(r) => status'[r] = status[r]
  <2>1. status' = [status EXCEPT ![rows + 1] = "pending"]
    BY <1>8 DEF Enqueue
  <2>2. \A r \in Runs : Over(r) => r # rows + 1
    BY RunsAssumption DEF Over, Ended, IInv, RowsInOrder, TypeOK, RowTypes, Runs
  <2> QED BY <1>0, <2>1, <2>2
<1>9. ASSUME NEW w \in Workers, EnqueueReview(w) PROVE OverRule
  BY <1>8, <1>9 DEF EnqueueReview, OverRule, Over, appVars
<1>10. ASSUME NEW h \in Handlers, Continue(h) PROVE OverRule
  <2>1. \A g \in Handlers : hpc'[g] = "confirm" => hpc[g] = "confirm" /\ hrun'[g] = hrun[g]
    BY <1>0, <1>10 DEF Continue, HLeave, HGoto
  <2> QED BY <1>8, <1>10, <2>1 DEF Continue, OverRule, Over
<1>11. ASSUME NEW h \in Handlers,
       RejectCheck(h) \/ HaltStart(h) \/ Confirm(h) \/ Reject(h) \/ RejectHandBack(h) \/
       HaltFlag(h) \/ HaltRevoke(h) \/ HaltSettle(h) \/ RequestDies(h)
      PROVE OverRule
  <2>1. UNCHANGED status
    BY <1>11 DEF RejectCheck, HaltStart, Confirm, Reject, RejectHandBack, HaltFlag,
       HaltRevoke, HaltSettle, RequestDies, rowVars
  <2>2. \A g \in Handlers : hpc'[g] = "confirm" => hpc[g] = "confirm" /\ hrun'[g] = hrun[g]
    BY <1>0, <1>11 DEF RejectCheck, HaltStart, Confirm, Reject, RejectHandBack, HaltFlag,
       HaltRevoke, HaltSettle, RequestDies, RecordVerdict, HLeave, HGoto
  <2> QED BY <2>1, <2>2 DEF OverRule, Over
<1>12. ASSUME NEW h \in Handlers, ConfirmCheck(h) PROVE OverRule
  <2>1. PICK r \in Runs : MayConfirm(r) /\ hrun' = [hrun EXCEPT ![h] = r]
    BY <1>12 DEF ConfirmCheck
  <2>2. UNCHANGED status /\ hpc' = [hpc EXCEPT ![h] = "confirm"]
    BY <1>12 DEF ConfirmCheck, HGoto, rowVars
  <2>3. \A g \in Handlers : hpc'[g] = "confirm" =>
           \/ hpc[g] = "confirm" /\ hrun'[g] = hrun[g]
           \/ status[hrun'[g]] = "awaiting-confirmation"
    BY <1>0, <2>1, <2>2 DEF MayConfirm
  <2> QED BY <2>2, <2>3 DEF OverRule, Over
<1>13. ASSUME NEW h \in Handlers, HaltClose(h) PROVE OverRule
  <2>1. hpc[h] = "halt-close" /\ hrun' = hrun /\ hpc' = [hpc EXCEPT ![h] = "halt-flag"]
    BY <1>13 DEF HaltClose, HGoto
  <2>2. \A g \in Handlers : hpc'[g] = "confirm" => hpc[g] = "confirm"
    BY <1>0, <2>1
  <2>3. CASE UNCHANGED status
    BY <2>1, <2>2, <2>3 DEF OverRule, Over
  <2>4. CASE status' = [status EXCEPT ![hrun[h]] = "interrupted"]
    <3>1. /\ \A r \in Runs \ {hrun[h]} : status'[r] = status[r]
          /\ hrun[h] \in Runs /\ status'[hrun[h]] = "interrupted"
      BY <1>0, <2>1, <2>4
    <3> QED BY <2>1, <2>2, <2>4, <3>1 DEF OverRule, Over, Ended
  <2> QED BY <1>13, <2>3, <2>4 DEF HaltClose
<1>14. ASSUME NEW r \in Runs, LeaseLapses(r) \/ DayPasses(r) PROVE OverRule
  BY <1>1, <1>14 DEF LeaseLapses, DayPasses, rowVars
<1>15. CASE EndSession
  BY <1>1, <1>15 DEF EndSession, rowVars
<1>16. CASE UNCHANGED vars
  BY <1>1, <1>16 DEF vars, rowVars
<1> QED BY <1>2, <1>3, <1>4, <1>5, <1>6, <1>7, <1>9, <1>10, <1>11, <1>12, <1>13, <1>14, <1>15,
    <1>16 DEF Next, WorkerStep, Executes, Sweeps, Asked, RequestStep

\* No step gives a yes a hold of a run that is over.
LEMMA OverStaysUncarried ==
  ASSUME IInv, [Next]_vars, NEW r \in Runs, Over(r), ~CarriedOn(r)
  PROVE  ~CarriedOn(r)'
<1>0. IInv' /\ OverRule /\ ResumesRule /\ AppRule
  BY InvStep, OverStep, ResumesStep, AppStep
<1>1. ASSUME NEW h \in Handlers, hpc'[h] \in {"confirm", "continue"}, hrun'[h] = r PROVE FALSE
  <2>1. CASE hpc[h] \in {"confirm", "continue"} /\ hrun'[h] = hrun[h]
    BY <1>1, <2>1 DEF CarriedOn
  <2>2. CASE status[hrun'[h]] = "awaiting-confirmation"
    BY <1>1, <2>2 DEF Over
  <2> QED BY <1>0, <1>1, <2>1, <2>2 DEF OverRule, AppRule
<1>2. ASSUME NEW q \in Runs, resumes'[q] = r PROVE FALSE
  <2>1. r # 0 /\ resumes'[q] # resumes[q]
    BY <1>2, RunsAssumption DEF CarriedOn, Runs
  <2>2. PICK h \in Handlers : hpc[h] = "continue" /\ hrun[h] = r
    BY <1>0, <1>2, <2>1 DEF ResumesRule
  <2> QED BY <2>2 DEF CarriedOn
<1> QED BY <1>1, <1>2 DEF CarriedOn

-----------------------------------------------------------------------------
(* What a lone worker process does with the run in its hands.              *)

\* A process at one of these labels keeps its run live ...
Driven == {"admit", "start", "turn", "propose", "fence", "record", "act", "park", "complete",
           "cancelled"}

\* ... and from one of these goes on to hand the session back.
Returning == {"review", "reviewing", "cancelled", "settle", "report", "return"}

\* The supervisor keeps one worker process.
OneWorker == \A v, w \in Workers : v = w

\* Nobody else ends the run that the process drives; and until something fails
\* every live run is driven, and nothing was thrown.
FlightInv ==
    /\ InFlightIsUnsettled
    /\ \A w \in Workers : wpc[w] \in Driven => status[wrun[w]] \in Live
    /\ faults = 0 =>
        /\ \A r \in Runs : status[r] \in Live => \E w \in Workers : wpc[w] \in Driven /\ wrun[w] = r
        /\ \A w \in Workers : wpc[w] \notin {"threw", "report-fault"}

\* Until something fails, a shift that is away goes on, or waits for an answer,
\* or is being handed back, or a stop closed its question.
AwayInv ==
    phase = "away" /\ faults = 0 =>
        \/ \E r \in Runs : status[r] \in Open
        \/ \E w \in Workers : wpc[w] \in Returning
        \/ \E r \in Runs : /\ question[r] = "open"
                           /\ status[r] = "awaiting-confirmation" \/ reason[r] = "cancelled"
        \/ \E h \in Handlers : hpc[h] \in {"continue", "return"}

\* The app, time and the clock leave the run in flight alone.
LEMMA FlightOutside ==
  ASSUME FlightInv, UNCHANGED <<wpc, wrun>>, faults' = 0 => faults = 0,
         \A r \in Runs : status'[r] \in Live <=> status[r] \in Live,
         \A w \in Workers : wpc[w] \in Holding => wrun[w] \in Runs,
         \A w \in Workers : wpc[w] = "act" => ledger'[wrun[w]] = ledger[wrun[w]]
  PROVE  FlightInv'
<1>1. \A w \in Workers : wpc[w] \in Driven => wrun[w] \in Runs
  BY DEF Driven, Holding, Labels
<1> QED BY <1>1 DEF FlightInv, InFlightIsUnsettled

\* A step at which the worker lets go of its run, or has none.
LEMMA FlightLeaves ==
  ASSUME OneWorker, FlightInv, NEW w \in Workers, NEW label \in Labels \ Driven,
         wpc \in [Workers -> Labels], Goto(w, label),
         faults' = 0 => /\ faults = 0 /\ label \notin {"threw", "report-fault"}
                        /\ \A r \in Runs : status'[r] \in Live =>
                              status[r] \in Live /\ ~(wpc[w] \in Driven /\ r = wrun[w])
  PROVE  FlightInv'
<1>1. \A v \in Workers : v = w /\ wpc'[v] = label
  BY DEF OneWorker, Goto
<1>2. label # "act"
  BY DEF Driven
<1>3. faults' = 0 => \A r \in Runs : status'[r] \notin Live
  BY <1>1 DEF FlightInv
<1> QED BY <1>1, <1>2, <1>3 DEF FlightInv, InFlightIsUnsettled

\* A step at which it goes on with it.
LEMMA FlightGoesOn ==
  ASSUME OneWorker, FlightInv, NEW w \in Workers, NEW label \in Driven,
         wpc \in [Workers -> Labels], Goto(w, label), wpc[w] \in Driven, wrun[w] \in Runs,
         UNCHANGED <<wrun, faults>>,
         \A r \in Runs : status'[r] \in Live <=> status[r] \in Live,
         label = "act" => ledger'[wrun[w]][Len(ledger'[wrun[w]])] = "open"
  PROVE  FlightInv'
<1>1. \A v \in Workers : v = w /\ wpc'[v] = label
  BY DEF OneWorker, Goto
<1>2. status'[wrun[w]] \in Live
  BY DEF FlightInv
<1>3. label \notin {"threw", "report-fault"}
  BY DEF Driven
<1>4. faults = 0 => \A r \in Runs : status'[r] \in Live => r = wrun[w]
  BY <1>1 DEF FlightInv
<1> QED BY <1>1, <1>2, <1>3, <1>4 DEF FlightInv, InFlightIsUnsettled

LEMMA FlightInit == Init => FlightInv
  BY DEF Init, FlightInv, InFlightIsUnsettled, Driven, Live

LEMMA FlightStep == OneWorker /\ IInv /\ FlightInv /\ [Next]_vars => FlightInv'
<1> SUFFICES ASSUME OneWorker, IInv, FlightInv, [Next]_vars PROVE FlightInv'
  OBVIOUS
<1>0. /\ status \in [Runs -> Open \union Ended \union {"absent"}]
      /\ ledger \in [Runs -> Seq(Outcomes)]
      /\ wpc \in [Workers -> Labels] /\ wrun \in [Workers -> Runs \union {0}]
      /\ \A w \in Workers : wpc[w] \in Holding => wrun[w] \in Runs
      /\ \A w \in Workers : wpc[w] \in Driven => wrun[w] \in Runs /\ status[wrun[w]] \in Live
      /\ faults \in Nat
  <2>1. /\ status \in [Runs -> Open \union Ended \union {"absent"}]
        /\ ledger \in [Runs -> Seq(Outcomes)]
        /\ wpc \in [Workers -> Labels] /\ wrun \in [Workers -> Runs \union {0}]
        /\ faults \in Nat
    BY DEF IInv, TypeOK, RowTypes, LedgerTypes, WorkerTypes
  <2>2. \A w \in Workers : wpc[w] \in Holding => wrun[w] \in Runs
    BY <2>1 DEF IInv, RowsInOrder
  <2>3. Driven \subseteq Holding
    BY DEF Driven, Holding, Labels
  <2>4. \A w \in Workers : wpc[w] \in Driven => status[wrun[w]] \in Live
    BY DEF FlightInv
  <2> QED BY <2>1, <2>2, <2>3, <2>4
<1>1. ASSUME NEW w \in Workers, Claim(w) PROVE FlightInv'
  <2>1. PICK r \in Runs : status' = [status EXCEPT ![r] = "claimed"] /\ wrun' = [wrun EXCEPT ![w] = r]
    BY <1>1 DEF Claim
  <2>2. wpc[w] = "idle" /\ wpc' = [wpc EXCEPT ![w] = "admit"] /\ faults' = faults
    BY <1>1 DEF Claim, Goto
  <2>3. \A v \in Workers : v = w
    BY DEF OneWorker
  <2>4. wpc'[w] = "admit" /\ wrun'[w] = r /\ status'[r] = "claimed"
        /\ \A q \in Runs \ {r} : status'[q] = status[q]
    BY <1>0, <2>1, <2>2
  <2>5. faults = 0 => \A q \in Runs : status[q] \notin Live
    BY <2>2, <2>3 DEF FlightInv, Driven
  <2> QED BY <2>2, <2>3, <2>4, <2>5 DEF FlightInv, InFlightIsUnsettled, Driven, Live
<1>2. ASSUME NEW w \in Workers,
       Admit(w) \/ Start(w) \/ Propose(w) \/ FencePasses(w) \/ FenceCancels(w) \/ Finish(w)
      PROVE FlightInv'
  <2>1. wpc[w] \in Driven /\ UNCHANGED <<status, wrun, faults>>
    BY <1>2 DEF Admit, Start, Propose, FencePasses, FenceCancels, Finish, Driven, rowVars
  <2>2. \E label \in Driven \ {"act"} : Goto(w, label)
    BY <1>2 DEF Admit, Start, Propose, FencePasses, FenceCancels, Finish, Driven
  <2> QED BY <1>0, <2>1, <2>2, FlightGoesOn
<1>3. ASSUME NEW w \in Workers, Turn(w) PROVE FlightInv'
  <2>1. /\ wpc[w] \in Driven /\ UNCHANGED <<wrun, faults>> /\ Goto(w, "propose")
        /\ status' = [status EXCEPT ![wrun[w]] = Advanced(@)]
    BY <1>3 DEF Turn, Driven
  <2>2. \A r \in Runs : status'[r] \in Live <=> status[r] \in Live
    BY <1>0, <2>1 DEF Advanced, Live
  <2>3. "propose" \in Driven
    BY DEF Driven
  <2> QED BY <1>0, <2>1, <2>2, <2>3, FlightGoesOn
<1>4. ASSUME NEW w \in Workers, FenceFindsItEnded(w) PROVE FlightInv'
  <2>1. wpc[w] \in Driven /\ ~ MayProceed(wrun[w]) /\ ~ cancel[wrun[w]]
    BY <1>4 DEF FenceFindsItEnded, Driven
  <2> QED BY <1>0, <2>1 DEF MayProceed
<1>5. ASSUME NEW w \in Workers, Record(w) PROVE FlightInv'
  <2> DEFINE r == wrun[w]
  <2>1. /\ wpc[w] \in Driven /\ UNCHANGED <<status, wrun, faults>>
        /\ \E next \in {"act", "turn", "park"} :
              /\ ledger' = [ledger EXCEPT ![r] = Append(@, IF next = "act" THEN "open" ELSE "refused")]
              /\ Goto(w, next)
    BY <1>5 DEF Record, Driven, rowVars
  <2>2. PICK next \in {"act", "turn", "park"} :
           /\ ledger' = [ledger EXCEPT ![r] = Append(@, IF next = "act" THEN "open" ELSE "refused")]
           /\ Goto(w, next)
    BY <2>1
  <2>3. r \in Runs /\ ledger[r] \in Seq(Outcomes)
    BY <1>0, <2>1
  <2>4. ASSUME next = "act" PROVE ledger'[r][Len(ledger'[r])] = "open"
    <3>1. ledger'[r] = Append(ledger[r], "open")
      BY <1>0, <2>2, <2>3, <2>4
    <3> QED BY <2>3, <3>1 DEF Outcomes
  <2>5. next \in Driven
    BY DEF Driven
  <2> QED BY <1>0, <2>1, <2>2, <2>3, <2>4, <2>5, FlightGoesOn
<1>6. ASSUME NEW w \in Workers, Observe(w) PROVE FlightInv'
  <2>1. wpc[w] = "act" /\ UNCHANGED <<status, wrun, faults>>
    BY <1>6 DEF Observe, rowVars
  <2>2. ledger[wrun[w]][Len(ledger[wrun[w]])] = "open"
    BY <2>1 DEF FlightInv, InFlightIsUnsettled
  <2>3. Goto(w, "turn")
    BY <1>6, <2>2 DEF Observe
  <2>4. "turn" \in Driven /\ "act" \in Driven
    BY DEF Driven
  <2> QED BY <1>0, <2>1, <2>3, <2>4, FlightGoesOn
<1>7. ASSUME NEW w \in Workers, NEW r \in Runs, NEW s \in Ended, NEW why, EndRow(r, s, why)
      PROVE  status'[r] \notin Live /\ \A q \in Runs \ {r} : status'[q] = status[q]
  BY <1>0, <1>7 DEF EndRow, Ended, Live
<1>8. ASSUME NEW w \in Workers, AdmitTooLate(w) \/ Complete(w) \/ Reviewed(w) \/ Cancelled(w)
      PROVE FlightInv'
  <2>1. wpc[w] \in Holding /\ faults' = faults
    BY <1>8 DEF AdmitTooLate, Complete, Reviewed, Cancelled, Holding, Labels
  <2>2. \E s \in Ended, why \in Reasons : EndRow(wrun[w], s, why)
    BY <1>8 DEF AdmitTooLate, Complete, Reviewed, Cancelled, Results, Ended, Reasons
  <2>3. \E label \in {"report", "review", "settle"} : Goto(w, label)
    BY <1>8 DEF AdmitTooLate, Complete, Reviewed, Cancelled
  <2>4. \A r \in Runs : status'[r] \in Live => status[r] \in Live /\ r # wrun[w]
    BY <1>0, <1>7, <2>1, <2>2
  <2>5. {"report", "review", "settle"} \subseteq Labels \ Driven
    BY DEF Labels, Driven
  <2> QED BY <1>0, <2>1, <2>3, <2>4, <2>5, FlightLeaves
<1>9. ASSUME NEW w \in Workers, Threw(w) PROVE FlightInv'
  <2>1. wpc[w] = "threw" /\ faults' = faults /\ Goto(w, "report-fault")
    BY <1>9 DEF Threw
  <2>2. faults # 0
    BY <2>1 DEF FlightInv
  <2>3. "report-fault" \in Labels \ Driven
    BY DEF Labels, Driven
  <2> QED BY <1>0, <2>1, <2>2, <2>3, FlightLeaves
<1>10. ASSUME NEW w \in Workers, Park(w) PROVE FlightInv'
  <2>1. wpc[w] = "park" /\ faults' = faults /\ Goto(w, "idle")
    BY <1>10 DEF Park, Leave
  <2>2. wrun[w] \in Runs /\ status[wrun[w]] \in Live
    BY <1>0, <2>1 DEF Driven
  <2>3. EndRow(wrun[w], "awaiting-confirmation", "none")
    BY <1>10, <2>2 DEF Park, MayPark
  <2>4. \A r \in Runs : status'[r] \in Live => status[r] \in Live /\ r # wrun[w]
    BY <1>7, <2>2, <2>3 DEF Ended
  <2>5. "idle" \in Labels \ Driven
    BY DEF Labels, Driven
  <2> QED BY <1>0, <2>1, <2>4, <2>5, FlightLeaves
<1>11. ASSUME NEW w \in Workers,
        SkipReview(w) \/ SettleOwn(w) \/ Report(w) \/ ReportFault(w) \/ HandBack(w) \/
        IdleSweep(w) \/ ReadExpired(w) \/ SettleAbandoned(w) \/ Restart(w)
       PROVE FlightInv'
  <2>1. wpc[w] \notin Driven /\ UNCHANGED <<status, faults>>
    BY <1>11 DEF SkipReview, SettleOwn, Report, ReportFault, HandBack, IdleSweep, ReadExpired,
       SettleAbandoned, Restart, Driven, rowVars
  <2>2. \E label \in {"report", "return", "idle", "expiring", "sweep"} : Goto(w, label)
    BY <1>11 DEF SkipReview, SettleOwn, Report, ReportFault, HandBack, IdleSweep, ReadExpired,
       SettleAbandoned, Restart, Leave
  <2>3. {"report", "return", "idle", "expiring", "sweep"} \subseteq Labels \ Driven
    BY DEF Labels, Driven
  <2> QED BY <1>0, <2>1, <2>2, <2>3, FlightLeaves
<1>12. ASSUME NEW w \in Workers, EnqueueReview(w) PROVE FlightInv'
  <2>1. wpc[w] = "review" /\ faults' = faults /\ Goto(w, "reviewing")
        /\ status' = [status EXCEPT ![rows + 1] = "pending"]
    BY <1>12 DEF EnqueueReview, Enqueue
  <2>2. \A r \in Runs : status'[r] \in Live => status[r] \in Live
    BY <1>0, <2>1 DEF Live
  <2>3. "reviewing" \in Labels \ Driven /\ "review" \notin Driven
    BY DEF Labels, Driven
  <2> QED BY <1>0, <2>1, <2>2, <2>3, FlightLeaves
<1>13. ASSUME NEW w \in Workers, ExpireOne(w) PROVE FlightInv'
  <2>1. PICK r \in wexp[w] : EndRow(r, "interrupted", "confirmation-expired")
    BY <1>13 DEF ExpireOne
  <2>2. wpc[w] = "expiring" /\ faults' = faults /\ Goto(w, "report") /\ r \in Runs
    BY <1>13 DEF ExpireOne, IInv, TypeOK, WorkerTypes
  <2>3. \A q \in Runs : status'[q] \in Live => status[q] \in Live
    BY <1>7, <2>1, <2>2 DEF Ended
  <2>4. "report" \in Labels \ Driven /\ "expiring" \notin Driven
    BY DEF Labels, Driven
  <2> QED BY <1>0, <2>2, <2>3, <2>4, FlightLeaves
<1>14. ASSUME NEW w \in Workers, LeaseSweep(w) PROVE FlightInv'
  <2>1. /\ wpc[w] = "expiring" /\ faults' = faults /\ Goto(w, "settle-all")
        /\ \A r \in Runs : status'[r] = "interrupted" \/ status'[r] = status[r]
    BY <1>14 DEF LeaseSweep
  <2>2. "settle-all" \in Labels \ Driven /\ "expiring" \notin Driven /\ "interrupted" \notin Live
    BY DEF Labels, Driven, Live
  <2> QED BY <1>0, <2>1, <2>2, FlightLeaves
<1>15. ASSUME NEW w \in Workers, Crash(w) \/ Throws(w) \/ FenceUnreadable(w) PROVE FlightInv'
  <2>1. faults' = faults + 1 /\ faults' # 0
    BY <1>0, <1>15 DEF Crash, Throws, FenceUnreadable
  <2>2. \E label \in {"down", "threw", "report", "idle", "settle"} : Goto(w, label)
    BY <1>15 DEF Crash, Throws, FenceUnreadable, CaughtAt
  <2>3. {"down", "threw", "report", "idle", "settle"} \subseteq Labels \ Driven
    BY DEF Labels, Driven
  <2> QED BY <1>0, <2>1, <2>2, <2>3, FlightLeaves
<1>16. ASSUME UNCHANGED <<wpc, wrun, status, ledger>>, faults' = 0 => faults = 0 PROVE FlightInv'
  BY <1>0, <1>16, FlightOutside
<1>17. ASSUME NEW h \in Handlers,
        Asked(h) \/ Confirm(h) \/ Reject(h) \/ RejectHandBack(h) \/ HaltFlag(h) \/
        HaltRevoke(h) \/ RequestDies(h)
       PROVE FlightInv'
  <2>1. UNCHANGED <<wpc, wrun, status, ledger>>
    BY <1>17 DEF Asked, ConfirmCheck, RejectCheck, HaltStart, Confirm, Reject, RejectHandBack,
       HaltFlag, HaltRevoke, RequestDies, rowVars, workerVars, ledgerVars
  <2>2. faults' \in {faults, faults + 1}
    BY <1>17 DEF Asked, ConfirmCheck, RejectCheck, HaltStart, Confirm, Reject, RejectHandBack,
       HaltFlag, HaltRevoke, RequestDies
  <2>3. faults' = 0 => faults = 0
    BY <1>0, <2>2
  <2> QED BY <1>16, <2>1, <2>3
<1>18. ASSUME NEW h \in Handlers, Continue(h) PROVE FlightInv'
  <2>1. /\ status' = [status EXCEPT ![rows + 1] = "pending"]
        /\ UNCHANGED <<wpc, wrun, ledger, faults>>
    BY <1>18 DEF Continue, Enqueue, workerVars, ledgerVars
  <2>2. \A r \in Runs : r = rows + 1 => status[r] \notin Live
    BY RunsAssumption DEF IInv, RowsInOrder, TypeOK, RowTypes, Runs, Live
  <2>3. \A r \in Runs : status'[r] \in Live <=> status[r] \in Live
    BY <1>0, <2>1, <2>2 DEF Live
  <2> QED BY <1>0, <2>1, <2>3, FlightOutside
<1>19. ASSUME NEW h \in Handlers, HaltClose(h) PROVE FlightInv'
  <2>1. /\ UNCHANGED <<wpc, wrun, ledger, faults>>
        /\ \/ status' = status
           \/ /\ status[hrun[h]] = "awaiting-confirmation"
              /\ status' = [status EXCEPT ![hrun[h]] = "interrupted"]
    BY <1>19 DEF HaltClose, workerVars, ledgerVars
  <2>2. \A r \in Runs : status'[r] \in Live <=> status[r] \in Live
    BY <1>0, <2>1 DEF Live
  <2> QED BY <1>0, <2>1, <2>2, FlightOutside
<1>20. ASSUME NEW h \in Handlers, HaltSettle(h) PROVE FlightInv'
  <2>1. /\ UNCHANGED <<wpc, wrun, status, faults>>
        /\ RecoverOpen({r \in {hrun[h]} : MaySettle(r)})
    BY <1>20 DEF HaltSettle, workerVars, rowVars
  <2>2. ASSUME NEW w \in Workers, wpc[w] = "act" PROVE ledger'[wrun[w]] = ledger[wrun[w]]
    <3>1. wrun[w] \in Runs /\ status[wrun[w]] \in Live
      BY <1>0, <2>2 DEF Driven
    <3>2. ~ MaySettle(wrun[w])
      BY <3>1 DEF MaySettle, Open
    <3> QED BY <2>1, <3>1, <3>2 DEF RecoverOpen
  <2> QED BY <1>0, <2>1, <2>2, FlightOutside
<1>21. ASSUME NEW r \in Runs, LeaseLapses(r) \/ DayPasses(r) PROVE FlightInv'
  BY <1>16, <1>21 DEF LeaseLapses, DayPasses, rowVars, workerVars, ledgerVars
<1>22. CASE EndSession
  BY <1>16, <1>22 DEF EndSession, rowVars, workerVars, ledgerVars
<1>23. CASE UNCHANGED vars
  BY <1>16, <1>23 DEF vars, rowVars, workerVars, ledgerVars
<1> QED BY <1>1, <1>2, <1>3, <1>4, <1>5, <1>6, <1>8, <1>9, <1>10, <1>11, <1>12, <1>13, <1>14,
    <1>15, <1>17, <1>18, <1>19, <1>20, <1>21, <1>22, <1>23
    DEF Next, WorkerStep, Executes, Sweeps, RequestStep

-----------------------------------------------------------------------------
(* What hands the session back.                                            *)

LEMMA AwayInit == Init => AwayInv
<1> SUFFICES ASSUME Init PROVE status[1] \in Open /\ 1 \in Runs
  BY DEF AwayInv
<1> QED BY RunsAssumption DEF Init, Open, Runs

\* A step that leaves all that can hand the session back.
LEMMA AwayKept ==
  ASSUME AwayInv, phase' = "away" => phase = "away", faults' = 0 => faults = 0,
         UNCHANGED <<status, question, reason>>,
         \A w \in Workers : wpc[w] \in Returning => wpc'[w] \in Returning,
         \A h \in Handlers : hpc[h] \in {"continue", "return"} => hpc'[h] \in {"continue", "return"}
  PROVE  AwayInv'
BY DEF AwayInv

\* With one worker process and until something fails, whatever ends the shift's
\* last run leaves a hand-back to come or closes a question.
LEMMA AwayStep == OneWorker /\ IInv /\ FlightInv /\ AwayInv /\ [Next]_vars => AwayInv'
<1> SUFFICES ASSUME OneWorker, IInv, FlightInv, AwayInv, [Next]_vars,
                    phase' = "away", faults' = 0
             PROVE  AwayInv'
  BY DEF AwayInv
<1>0. /\ IInv' /\ FlightInv' /\ faults \in Nat
      /\ wpc \in [Workers -> Labels] /\ hpc \in [Handlers -> HLabels]
      /\ status \in [Runs -> Open \union Ended \union {"absent"}] /\ reason \in [Runs -> Reasons]
      /\ question \in [Runs -> {"none", "open", "confirmed", "rejected"}]
  BY InvStep, FlightStep DEF IInv, TypeOK, WorkerTypes, AppTypes, RowTypes, AskTypes
\* The worker goes on with its run, or is on its way to the hand-back.
<1>1. ASSUME NEW w \in Workers, NEW label \in Driven \union Returning, Goto(w, label)
      PROVE  AwayInv'
  <2>1. wpc'[w] = label
    BY <1>0, <1>1 DEF Goto
  <2>2. CASE label \in Driven
    <3>1. status'[wrun'[w]] \in Live
      BY <1>0, <2>1, <2>2 DEF FlightInv
    <3>2. wrun'[w] \in Runs
      <4>1. wpc'[w] \in Holding
        BY <2>1, <2>2 DEF Driven, Holding, Labels
      <4> QED BY <1>0, <4>1 DEF IInv, RowsInOrder, TypeOK, WorkerTypes
    <3> QED BY <3>1, <3>2 DEF AwayInv, Open
  <2>3. CASE label \in Returning
    BY <2>1, <2>3 DEF AwayInv
  <2> QED BY <2>2, <2>3
<1>2. ASSUME NEW w \in Workers,
        Claim(w) \/ Admit(w) \/ AdmitTooLate(w) \/ Start(w) \/ Turn(w) \/ Propose(w) \/
        FencePasses(w) \/ FenceCancels(w) \/ FenceFindsItEnded(w) \/ Record(w) \/ Finish(w) \/
        Complete(w) \/ SkipReview(w) \/ EnqueueReview(w) \/ Reviewed(w) \/ Cancelled(w) \/
        SettleOwn(w) \/ Report(w) \/ ExpireOne(w)
      PROVE AwayInv'
  <2>1. \E label \in Driven \union Returning : Goto(w, label)
    BY <1>2 DEF Claim, Admit, AdmitTooLate, Start, Turn, Propose, FencePasses, FenceCancels,
       FenceFindsItEnded, Record, Finish, Complete, SkipReview, EnqueueReview, Reviewed,
       Cancelled, SettleOwn, Report, ExpireOne, Driven, Returning
  <2> QED BY <1>1, <2>1
<1>3. ASSUME NEW w \in Workers, Observe(w) PROVE AwayInv'
  <2>1. ledger[wrun[w]][Len(ledger[wrun[w]])] = "open"
    BY <1>3 DEF Observe, FlightInv, InFlightIsUnsettled
  <2>2. Goto(w, "turn") /\ "turn" \in Driven
    BY <1>3, <2>1 DEF Observe, Driven
  <2> QED BY <1>1, <2>2
<1>4. ASSUME NEW w \in Workers, Park(w) PROVE AwayInv'
  <2>1. wpc[w] = "park" /\ wrun[w] \in Runs
    BY <1>4 DEF Park, IInv, RowsInOrder, Holding, Labels, TypeOK, WorkerTypes
  <2>2. status[wrun[w]] \in Live
    BY <2>1 DEF FlightInv, Driven
  <2>3. /\ status' = [status EXCEPT ![wrun[w]] = "awaiting-confirmation"]
        /\ question' = [question EXCEPT ![wrun[w]] = "open"]
    BY <1>4, <2>2 DEF Park, MayPark, EndRow
  <2>4. status'[wrun[w]] = "awaiting-confirmation" /\ question'[wrun[w]] = "open"
    BY <1>0, <2>1, <2>3
  <2> QED BY <2>1, <2>4 DEF AwayInv
<1>5. ASSUME NEW w \in Workers, Threw(w) \/ ReportFault(w) PROVE FALSE
  BY <1>5 DEF Threw, ReportFault, FlightInv
<1>6. ASSUME NEW w \in Workers, HandBack(w) PROVE FALSE
  BY <1>6 DEF HandBack
<1>7. ASSUME NEW w \in Workers,
        IdleSweep(w) \/ ReadExpired(w) \/ SettleAbandoned(w) \/ Restart(w)
      PROVE AwayInv'
  <2>1. UNCHANGED <<status, question, reason, hpc, phase, faults>> /\ wpc[w] \notin Returning
    BY <1>7 DEF IdleSweep, ReadExpired, SettleAbandoned, Restart, rowVars, askVars, appVars,
       shiftVars, Returning
  <2>2. \A v \in Workers : wpc[v] \notin Returning
    BY <2>1 DEF OneWorker
  <2> QED BY <2>1, <2>2, AwayKept
<1>8. ASSUME NEW w \in Workers, LeaseSweep(w) PROVE AwayInv'
  <2>1. wpc[w] = "expiring" /\ UNCHANGED <<question, hpc, phase, faults>>
    BY <1>8 DEF LeaseSweep, askVars, appVars, shiftVars
  <2>2. \A v \in Workers : wpc[v] \notin Returning /\ wpc[v] \notin Driven
    BY <2>1 DEF OneWorker, Returning, Driven
  <2>3. \A r \in Runs : ~ Reapable(r)
    BY <2>1, <2>2 DEF FlightInv, Reapable
  <2>4. \A r \in Runs : status'[r] = status[r] /\ reason'[r] = reason[r]
    BY <1>8, <2>3 DEF LeaseSweep
  <2>5. status' = status /\ reason' = reason
    BY <1>0, <1>8, <2>4 DEF LeaseSweep
  <2> QED BY <2>1, <2>2, <2>5, AwayKept
<1>9. ASSUME NEW w \in Workers, Crash(w) \/ Throws(w) \/ FenceUnreadable(w) PROVE FALSE
  BY <1>0, <1>9 DEF Crash, Throws, FenceUnreadable
<1>10. ASSUME NEW h \in Handlers, RequestDies(h) PROVE FALSE
  BY <1>0, <1>10 DEF RequestDies
<1>11. ASSUME NEW h \in Handlers, NEW label \in {"continue", "return"}, HGoto(h, label)
       PROVE  AwayInv'
  <2>1. hpc'[h] = label
    BY <1>0, <1>11 DEF HGoto
  <2> QED BY <2>1 DEF AwayInv
<1>12. ASSUME NEW h \in Handlers,
         Asked(h) \/ HaltFlag(h) \/ HaltRevoke(h) \/ HaltSettle(h)
       PROVE AwayInv'
  <2>1. UNCHANGED <<status, question, reason, wpc, phase, faults>> /\ hpc[h] \notin {"continue", "return"}
    BY <1>12 DEF Asked, ConfirmCheck, RejectCheck, HaltStart, HaltFlag, HaltRevoke, HaltSettle,
       rowVars, askVars, workerVars, shiftVars
  <2>2. \A g \in Handlers \ {h} : hpc'[g] = hpc[g]
    BY <1>0, <1>12 DEF Asked, ConfirmCheck, RejectCheck, HaltStart, HaltFlag, HaltRevoke,
       HaltSettle, HLeave, HGoto
  <2> QED BY <2>1, <2>2, AwayKept
<1>13. ASSUME NEW h \in Handlers, Confirm(h) \/ Reject(h) PROVE AwayInv'
  <2>1. /\ UNCHANGED <<status, reason, wpc, phase, faults>> /\ hpc[h] \notin {"continue", "return"}
        /\ \/ HGoto(h, "continue") \/ HGoto(h, "return")
           \/ UNCHANGED question /\ HGoto(h, "idle")
    BY <1>13 DEF Confirm, Reject, RecordVerdict, HLeave, rowVars, workerVars, shiftVars
  <2>2. CASE HGoto(h, "continue") \/ HGoto(h, "return")
    BY <1>11, <2>2
  <2>3. CASE UNCHANGED question /\ HGoto(h, "idle")
    <3>1. \A g \in Handlers \ {h} : hpc'[g] = hpc[g]
      BY <1>0, <2>3 DEF HGoto
    <3> QED BY <2>1, <2>3, <3>1, AwayKept
  <2> QED BY <2>1, <2>2, <2>3
<1>14. ASSUME NEW h \in Handlers, Continue(h) PROVE AwayInv'
  <2>1. rows < MaxRuns /\ status' = [status EXCEPT ![rows + 1] = "pending"]
    BY <1>14 DEF Continue, Enqueue
  <2>2. rows + 1 \in Runs
    BY <2>1, RunsAssumption DEF IInv, TypeOK, RowTypes, Runs
  <2>3. status'[rows + 1] = "pending"
    BY <1>0, <2>1, <2>2
  <2> QED BY <2>2, <2>3 DEF AwayInv, Open
<1>15. ASSUME NEW h \in Handlers, RejectHandBack(h) PROVE FALSE
  BY <1>15 DEF RejectHandBack
<1>16. ASSUME NEW h \in Handlers, HaltClose(h) PROVE AwayInv'
  <2>1. /\ hpc[h] = "halt-close" /\ HGoto(h, "halt-flag") /\ UNCHANGED <<wpc, phase, faults, question>>
        /\ \/ UNCHANGED <<status, reason>>
           \/ /\ question[hrun[h]] = "open"
              /\ reason' = [reason EXCEPT ![hrun[h]] = "cancelled"]
    BY <1>16 DEF HaltClose, workerVars, shiftVars, askVars
  <2>2. CASE UNCHANGED <<status, reason>>
    <3>1. \A g \in Handlers \ {h} : hpc'[g] = hpc[g]
      BY <1>0, <2>1 DEF HGoto
    <3> QED BY <2>1, <2>2, <3>1, AwayKept
  <2>3. CASE question[hrun[h]] = "open" /\ reason' = [reason EXCEPT ![hrun[h]] = "cancelled"]
    <3>1. hrun[h] \in Runs
      BY <2>1 DEF IInv, RowsInOrder, TypeOK, AppTypes
    <3>2. reason'[hrun[h]] = "cancelled" /\ question'[hrun[h]] = "open"
      BY <1>0, <2>1, <2>3, <3>1
    <3> QED BY <3>1, <3>2 DEF AwayInv
  <2> QED BY <2>1, <2>2, <2>3
<1>17. ASSUME NEW r \in Runs, LeaseLapses(r) \/ DayPasses(r) PROVE AwayInv'
  <2>1. UNCHANGED <<status, question, reason, wpc, hpc, phase, faults>>
    BY <1>17 DEF LeaseLapses, DayPasses, rowVars, askVars, workerVars, appVars, shiftVars
  <2> QED BY <2>1, AwayKept
<1>18. ASSUME EndSession PROVE FALSE
  BY <1>18 DEF EndSession
<1>19. CASE UNCHANGED vars
  <2>1. UNCHANGED <<status, question, reason, wpc, hpc, phase, faults>>
    BY <1>19 DEF vars, rowVars, askVars, workerVars, appVars, shiftVars
  <2> QED BY <2>1, AwayKept
<1> QED BY <1>2, <1>3, <1>4, <1>5, <1>6, <1>7, <1>8, <1>9, <1>10, <1>12, <1>13, <1>14, <1>15,
    <1>16, <1>17, <1>18, <1>19 DEF Next, WorkerStep, Executes, Sweeps, RequestStep

-----------------------------------------------------------------------------
(* The theorems.                                                           *)

\* Every reachable state satisfies the inductive invariant.
THEOREM Inductive == Spec => []IInv
  BY InvInit, InvStep, PTL DEF Spec

\* Every column and every program counter keeps to the values the code writes.
THEOREM TypeCorrect == Spec => []TypeOK
<1>1. IInv => TypeOK
  BY DEF IInv
<1> QED BY <1>1, Inductive, PTL

\* A shift moves in one place at a time, with any number of workers, requests
\* and continuations.
THEOREM OneMoverAlways == Spec => []OneMover
<1>1. IInv => OneMover
  BY DEF IInv
<1> QED BY <1>1, Inductive, PTL

\* The browser credential is held by a claimed or running row and by no other.
THEOREM TokenAlwaysFollowsTheRun == Spec => []TokenFollowsTheRun
<1>1. IInv => TokenFollowsTheRun
  BY DEF IInv
<1> QED BY <1>1, Inductive, PTL

\* No question gives two continuations, and none but a confirmed one gives any.
THEOREM AYesIsAlwaysSpentOnce == Spec => []AYesIsSpentOnce
<1>1. IInv => AYesIsSpentOnce
  BY DEF IInv
<1> QED BY <1>1, Inductive, PTL

\* A parked row has its question, and a question's run has ended.
THEOREM AlwaysParkedOnAQuestion == Spec => []ParkedOnAQuestion
<1>1. IInv => ParkedOnAQuestion
  BY DEF IInv
<1> QED BY <1>1, Inductive, PTL

\* The fence's claim-lost answer is unreachable: a process executes only a run
\* that names it.
THEOREM ClaimAlwaysHolds == Spec => []ClaimHolds
<1>1. IInv => ClaimHolds
  BY DEF IInv, ClaimedRun, Executing, ClaimHolds
<1> QED BY <1>1, Inductive, PTL

\* No step of any process makes an ended run open again.
THEOREM NothingResurrects == Spec => NoResurrection
<1>1. IInv /\ [Next]_vars => [\A r \in Runs : status[r] \in Ended => status'[r] \in Ended]_vars
  BY RowStep DEF RowRule
<1> QED BY <1>1, Inductive, PTL DEF Spec, NoResurrection

\* No step removes an intent or replaces an outcome.
THEOREM LedgerOnlyGrows == Spec => LedgerIsAppendOnly
<1>1. IInv /\ [Next]_vars =>
        [\A r \in Runs : \A i \in 1 .. Len(ledger[r]) :
            /\ i <= Len(ledger'[r])
            /\ ledger[r][i] # "open" => ledger'[r][i] = ledger[r][i]]_vars
  <2> SUFFICES ASSUME IInv, [Next]_vars, NEW r \in Runs, NEW i \in 1 .. Len(ledger[r])
               PROVE  /\ i <= Len(ledger'[r])
                      /\ ledger[r][i] # "open" => ledger'[r][i] = ledger[r][i]
    OBVIOUS
  <2>1. TypeOK /\ TypeOK' /\ LedgerRule
    BY TypeStep, LedgerStep DEF IInv
  <2>2. Len(ledger[r]) \in Nat /\ Len(ledger'[r]) \in Nat
    BY <2>1 DEF TypeOK, LedgerTypes
  <2> QED BY <2>1, <2>2 DEF LedgerRule
<1> QED BY <1>1, Inductive, PTL DEF Spec, LedgerIsAppendOnly

\* At most one intent is recorded after a run was flagged or ended.
THEOREM AlwaysOneStepPastAStop == Spec => []OneStepPastAStop
<1>1. Spec => []LateInv
  BY LateInit, LateStep, Inductive, PTL DEF Spec
<1>2. LateInv => OneStepPastAStop
  BY DEF LateInv
<1> QED BY <1>1, <1>2, PTL

\* Once a run is over and no yes that was checked before has hold of it, nothing
\* carries it on, however many requests, workers and sweeps there are.
THEOREM OverIsNeverCarriedOn == Spec => StoppedStaysStopped
<1>1. IInv /\ [Next]_vars =>
        [\A r \in Runs :
            status[r] \in Ended \ {"awaiting-confirmation"} /\ ~CarriedOn(r) => ~CarriedOn(r)']_vars
  BY OverStaysUncarried DEF Over
<1> QED BY <1>1, Inductive, PTL DEF Spec, StoppedStaysStopped

\* With one worker process, nobody settles the action it is waiting for, so its
\* own outcome can be written, however requests and stops interleave with it.
THEOREM NothingSettlesAnActionInFlight == OneWorker => (Spec => []InFlightIsUnsettled)
<1> SUFFICES ASSUME OneWorker PROVE Spec => []InFlightIsUnsettled
  OBVIOUS
<1>1. IInv /\ FlightInv /\ [Next]_vars => FlightInv'
  BY FlightStep
<1>2. Spec => []FlightInv
  BY <1>1, FlightInit, Inductive, PTL DEF Spec
<1>3. FlightInv => InFlightIsUnsettled
  BY DEF FlightInv
<1> QED BY <1>2, <1>3, PTL

\* With one worker process and when nothing fails, the session is back with the
\* person once the shift is over, except after a stop that closed a question:
\* every other end of a run is followed by a hand-back (markObserving).
THEOREM AwayIsExplained == OneWorker => (Spec => []AwayOnlyAfterAClosedQuestion)
<1> SUFFICES ASSUME OneWorker PROVE Spec => []AwayOnlyAfterAClosedQuestion
  OBVIOUS
<1>1. /\ IInv /\ FlightInv /\ [Next]_vars => FlightInv'
      /\ IInv /\ FlightInv /\ AwayInv /\ [Next]_vars => AwayInv'
  BY FlightStep, AwayStep
<1>2. Spec => [](FlightInv /\ AwayInv)
  BY <1>1, FlightInit, AwayInit, Inductive, PTL DEF Spec
<1>3. AwayInv => AwayOnlyAfterAClosedQuestion
  BY DEF AwayInv, AwayOnlyAfterAClosedQuestion, Quiet, Returning
<1> QED BY <1>2, <1>3, PTL

=============================================================================
