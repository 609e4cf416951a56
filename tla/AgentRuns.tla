------------------------------ MODULE AgentRuns ------------------------------
(***************************************************************************)
(* The life of one shift's AgentRun rows: the queue, the worker process    *)
(* that claims and executes them, the pause for a confirmation, and every  *)
(* door in the app that ends a run from outside.                           *)
(*                                                                         *)
(* Grain of atomicity.  SQLite has one writer, so one awaited statement    *)
(* (or one $transaction) is one step, and everything between two awaits is *)
(* local.  What a handler or a worker has read and not yet acted on is     *)
(* therefore kept in its program counter, and another process may step in  *)
(* between.  Two consecutive writes are one step only when no other action *)
(* reads what the first of them wrote before the second.                   *)
(*                                                                         *)
(* One accepted HandoffContract in one WorkSession.  Row ids are creation  *)
(* order (the queue orders by createdAt).                                  *)
(***************************************************************************)
EXTENDS Naturals, Sequences, FiniteSets

CONSTANTS
    Workers,      \* worker processes, scripts/worker.ts
    Handlers,     \* concurrent app-side requests (server actions, routes)
    NoWorker,     \* claimedBy of a row nobody claimed
    MaxRuns,      \* bound: rows of agent_run
    MaxIntents,   \* bound: intents of one run
    MaxFaults,    \* bound: crashes and thrown errors
    SessionMayEnd \* bound: whether the person ends the session meanwhile

ASSUME RunsAssumption ==
    /\ MaxRuns \in Nat \ {0}
    /\ MaxIntents \in Nat
    /\ MaxFaults \in Nat
    /\ SessionMayEnd \in BOOLEAN
    /\ NoWorker \notin Workers

Runs == 1 .. MaxRuns

Live  == {"claimed", "running"}
Open  == Live \union {"pending"}
Ended == {"succeeded", "failed", "interrupted", "awaiting-confirmation"}
Reasons == {"none", "budget-exhausted", "stop-condition", "boundary-failure",
            "error", "lease-expired", "cancelled", "answered-too-late",
            "confirmation-expired"}

(***************************************************************************)
(* What the worker loop's finish may return: a status and the reason its   *)
(* first stop rule maps to, or none when the plan ran out.                 *)
(***************************************************************************)
Results ==
    [status : {"succeeded"}, reason : {"none", "budget-exhausted", "stop-condition"}]
        \union [status : {"failed"}, reason : {"boundary-failure"}]

VARIABLES
    rows,       \* how many rows agent_run holds
    status,     \* AgentRun.status, "absent" for a row not written yet
    role,       \* AgentRun.role
    resumes,    \* AgentRun.resumesRunId, 0 for null
    token,      \* whether AgentRun.controlToken is set
    claimedBy,  \* AgentRun.claimedBy
    cancel,     \* AgentRun.cancelRequested
    reason,     \* AgentRun.terminalReason
    lapsed,     \* whether AgentRun.leaseUntil is in the past
    ledger,     \* the run's intents in seq order, each by its outcome
    question,   \* the run's ConfirmationRequest and its verdict
    aged,       \* whether the question is a day old
    phase,      \* WorkSession.phase
    reported,   \* whether the contract's ShiftReport row exists
    wpc,        \* where each worker process is
    wrun,       \* the run it holds (0: none)
    wexp,       \* the expired questions its sweep has read
    hpc,        \* where each app request is
    hrun,       \* the run (and so the question) it is about
    faults,     \* crashes and thrown errors so far
    late        \* history: intents recorded after the run was stopped

rowVars     == <<rows, status, role, resumes, token, claimedBy, cancel, reason, lapsed>>
ledgerVars  == <<ledger, late>>
askVars     == <<question, aged>>
shiftVars   == <<phase, reported>>
workerVars  == <<wpc, wrun, wexp>>
appVars     == <<hpc, hrun>>
vars == <<rowVars, ledgerVars, askVars, shiftVars, workerVars, appVars, faults>>

-----------------------------------------------------------------------------
(* What the code looks at before it writes.  An operator named Mis...,     *)
(* here and below, is a plausible mistake in the definition that follows   *)
(* it; nothing uses it.                                                    *)

\* runs.claim takes any pending row, whatever its role, and no other.
MisClaimable(r) == status[r] = "pending" \/ (status[r] \in Live /\ lapsed[r])
Claimable(r) == status[r] = "pending"

\* advanceProgress writes 'running' only over a live status.
MisAdvanced(s) == "running"
Advanced(s) == IF s \in Live THEN "running" ELSE s

\* raiseAndPark's scope.
MayPark(r) == status[r] \in Live

\* The action boundary: neither flagged nor ended.
MisMayProceed(r) == status[r] \in Live
MayProceed(r) == ~cancel[r] /\ status[r] \in Live

\* settleAbandonedIntents leaves a live run's intents to its worker.
MisMaySettle(r) == TRUE
MaySettle(r) == status[r] \notin Open

\* ConfirmationVerdict.requestId is unique.
MisUnanswered(r) == TRUE
Unanswered(r) == question[r] = "open"

\* confirmRequest's refusals: already answered, expired, abandoned.
MisMayConfirm(r) == question[r] = "open" /\ ~aged[r]
MayConfirm(r) == question[r] = "open" /\ ~aged[r] /\ status[r] = "awaiting-confirmation"

\* ActionOutcome.intentId is unique: a recovery row cannot replace an outcome.
MisRecovered(outcome) == IF outcome = "refused" THEN outcome ELSE "recovered"
Recovered(outcome) == IF outcome = "open" THEN "recovered" ELSE outcome

\* Which live rows a lease sweep reaps.
MisReapable(r) == status[r] = "claimed" /\ lapsed[r]
Reapable(r) == status[r] \in Live /\ lapsed[r]

\* Which questions a sweep stops waiting for.
MisExpired(r) == FALSE
Expired(r) == question[r] = "open" /\ aged[r] /\ status[r] = "awaiting-confirmation"

-----------------------------------------------------------------------------
(* Writes to a row, one operator per repository method.                    *)

\* runs.enqueue: a pending row, no credential.
Enqueue(kind, from) ==
    /\ rows < MaxRuns
    /\ rows' = rows + 1
    /\ status'  = [status  EXCEPT ![rows + 1] = "pending"]
    /\ role'    = [role    EXCEPT ![rows + 1] = kind]
    /\ resumes' = [resumes EXCEPT ![rows + 1] = from]
    /\ UNCHANGED <<token, claimedBy, cancel, reason, lapsed>>

MisEndRow(r, s, why) ==
    /\ status' = [status EXCEPT ![r] = s]
    /\ reason' = [reason EXCEPT ![r] = IF why = "none" THEN @ ELSE why]
    /\ lapsed' = [lapsed EXCEPT ![r] = FALSE]
    /\ UNCHANGED <<rows, role, resumes, token, claimedBy, cancel>>

\* An update by id that ends the row and revokes its credential, whatever the
\* row's status was.  A reason that is not given is left as it was.  Nothing
\* reads the lease of an ended row, so it is put back to its first value.
EndRow(r, s, why) ==
    /\ status' = [status EXCEPT ![r] = s]
    /\ reason' = [reason EXCEPT ![r] = IF why = "none" THEN @ ELSE why]
    /\ token'  = [token  EXCEPT ![r] = FALSE]
    /\ lapsed' = [lapsed EXCEPT ![r] = FALSE]
    /\ UNCHANGED <<rows, role, resumes, claimedBy, cancel>>

\* recordRecoveryOutcome over every authorised intent of the given runs that
\* has no outcome: a row that already has one is left alone (the unique key).
RecoverOpen(these) ==
    ledger' = [r \in Runs |-> IF r \in these
                              THEN [i \in 1 .. Len(ledger[r]) |-> Recovered(ledger[r][i])]
                              ELSE ledger[r]]

\* Where a process goes next; one that goes idle holds nothing any more.
Goto(w, label) == wpc' = [wpc EXCEPT ![w] = label]
Leave(w) == Goto(w, "idle") /\ wrun' = [wrun EXCEPT ![w] = 0]
HGoto(h, label) == hpc' = [hpc EXCEPT ![h] = label]
HLeave(h) == HGoto(h, "idle") /\ hrun' = [hrun EXCEPT ![h] = 0]

-----------------------------------------------------------------------------
(* The shift as acceptContract leaves it: the session away, one worker run *)
(* pending.                                                                *)
Init ==
    /\ rows = 1
    /\ status    = [r \in Runs |-> IF r = 1 THEN "pending" ELSE "absent"]
    /\ role      = [r \in Runs |-> "worker"]
    /\ resumes   = [r \in Runs |-> 0]
    /\ token     = [r \in Runs |-> FALSE]
    /\ claimedBy = [r \in Runs |-> NoWorker]
    /\ cancel    = [r \in Runs |-> FALSE]
    /\ reason    = [r \in Runs |-> "none"]
    /\ lapsed    = [r \in Runs |-> FALSE]
    /\ ledger    = [r \in Runs |-> << >>]
    /\ late      = [r \in Runs |-> 0]
    /\ question  = [r \in Runs |-> "none"]
    /\ aged      = [r \in Runs |-> FALSE]
    /\ phase     = "away"
    /\ reported  = FALSE
    /\ wpc   = [w \in Workers |-> "down"]
    /\ wrun  = [w \in Workers |-> 0]
    /\ wexp  = [w \in Workers |-> {}]
    /\ hpc   = [h \in Handlers |-> "idle"]
    /\ hrun  = [h \in Handlers |-> 0]
    /\ faults = 0

-----------------------------------------------------------------------------
(* The worker process: claim, admit.                                       *)

\* runs.claim: the oldest pending row of any role, and a freshly minted token.
Claim(w) ==
    /\ wpc[w] = "idle"
    /\ \E r \in Runs :
        /\ Claimable(r)
        /\ \A q \in Runs : Claimable(q) => r <= q
        /\ status'    = [status    EXCEPT ![r] = "claimed"]
        /\ claimedBy' = [claimedBy EXCEPT ![r] = w]
        /\ token'     = [token     EXCEPT ![r] = TRUE]
        /\ lapsed'    = [lapsed    EXCEPT ![r] = FALSE]
        /\ wrun'      = [wrun      EXCEPT ![w] = r]
    /\ Goto(w, "admit")
    /\ UNCHANGED <<rows, role, resumes, cancel, reason, ledgerVars, askVars,
                   shiftVars, wexp, appVars, faults>>

\* admitRun: only a continuation can be too late.  How late the clock is
\* against the credited deadline is a choice here.
Admit(w) ==
    /\ wpc[w] = "admit"
    /\ Goto(w, "start")
    /\ UNCHANGED <<rowVars, ledgerVars, askVars, shiftVars, wrun, wexp, appVars, faults>>

AdmitTooLate(w) ==
    /\ wpc[w] = "admit"
    /\ resumes[wrun[w]] # 0
    /\ EndRow(wrun[w], "interrupted", "answered-too-late")
    /\ Goto(w, "report")
    /\ UNCHANGED <<ledgerVars, askVars, shiftVars, wrun, wexp, appVars, faults>>

-----------------------------------------------------------------------------
(* executeRun and the worker loop.                                         *)

\* The run rebuilds the contract's history and settles what earlier runs of
\* the contract left open (recoverOrphanedIntents).
Start(w) ==
    /\ wpc[w] = "start"
    /\ RecoverOpen(Runs \ {wrun[w]})
    /\ Goto(w, "turn")
    /\ UNCHANGED <<rowVars, late, askVars, shiftVars, wrun, wexp, appVars, faults>>

\* The top of a turn: advanceProgress (scoped to the live statuses) and
\* renewLease (by id).
Turn(w) ==
    /\ wpc[w] = "turn"
    /\ status' = [status EXCEPT ![wrun[w]] = Advanced(@)]
    /\ lapsed' = [lapsed EXCEPT ![wrun[w]] = FALSE]
    /\ Goto(w, "propose")
    /\ UNCHANGED <<rows, role, resumes, token, claimedBy, cancel, reason,
                   ledgerVars, askVars, shiftVars, wrun, wexp, appVars, faults>>

\* The model proposes something and the gate answers.  What the gate said is
\* chosen where it first matters, in Record.
Propose(w) ==
    /\ wpc[w] = "propose"
    /\ Len(ledger[wrun[w]]) < MaxIntents
    /\ Goto(w, "fence")
    /\ UNCHANGED <<rowVars, ledgerVars, askVars, shiftVars, wrun, wexp, appVars, faults>>

\* fenceFor(...).check, read before the intent is written.  Its claim-lost
\* answer has no action: ClaimHolds shows it cannot be given.
FencePasses(w) ==
    /\ wpc[w] = "fence"
    /\ MayProceed(wrun[w])
    /\ Goto(w, "record")
    /\ UNCHANGED <<rowVars, ledgerVars, askVars, shiftVars, wrun, wexp, appVars, faults>>

FenceCancels(w) ==
    /\ wpc[w] = "fence"
    /\ ~MayProceed(wrun[w])
    /\ cancel[wrun[w]]
    /\ Goto(w, "cancelled")
    /\ UNCHANGED <<rowVars, ledgerVars, askVars, shiftVars, wrun, wexp, appVars, faults>>

FenceFindsItEnded(w) ==
    /\ wpc[w] = "fence"
    /\ ~MayProceed(wrun[w])
    /\ ~cancel[wrun[w]]
    /\ Goto(w, "settle")
    /\ UNCHANGED <<rowVars, ledgerVars, askVars, shiftVars, wrun, wexp, appVars, faults>>

\* recordIntent's insert, unconditional once the fence has passed: the proposal
\* is authorised ("act"), refused, or refused until the person has been asked
\* ("park").  The bound on rows keeps room for a continuation.
Record(w) ==
    LET r == wrun[w] IN
    /\ wpc[w] = "record"
    /\ \E next \in {"act", "turn", "park"} :
        /\ next = "park" => rows < MaxRuns
        /\ ledger' = [ledger EXCEPT ![r] = Append(@, IF next = "act" THEN "open" ELSE "refused")]
        /\ Goto(w, next)
    /\ late' = [late EXCEPT ![r] = IF cancel[r] \/ status[r] \notin Live THEN @ + 1 ELSE @]
    /\ UNCHANGED <<rowVars, askVars, shiftVars, wrun, wexp, appVars, faults>>

\* The action's result arrives and recordOutcome writes it.  The unique key on
\* intentId makes the write throw when somebody else settled the intent.
Observe(w) ==
    LET r == wrun[w]
        k == Len(ledger[r])
    IN
    /\ wpc[w] = "act"
    /\ \/ /\ ledger[r][k] = "open"
          /\ ledger' = [ledger EXCEPT ![r][k] = "seen"]
          /\ Goto(w, "turn")
       \/ /\ ledger[r][k] # "open"
          /\ UNCHANGED ledger
          /\ Goto(w, "threw")
    /\ UNCHANGED <<rowVars, late, askVars, shiftVars, wrun, wexp, appVars, faults>>

\* finish: a stop rule, the end of the plan, the model's done, or a failed
\* boundary.
Finish(w) ==
    /\ wpc[w] \in {"turn", "propose"}
    /\ Goto(w, "complete")
    /\ UNCHANGED <<rowVars, ledgerVars, askVars, shiftVars, wrun, wexp, appVars, faults>>

MisPark(w) ==
    /\ wpc[w] = "park"
    /\ question' = [question EXCEPT ![wrun[w]] = "open"]
    /\ Leave(w)
    /\ UNCHANGED <<rowVars, ledgerVars, aged, shiftVars, wexp, appVars, faults>>

\* raiseAndPark: the status first and scoped, the question only if it moved.
\* A declined park is ignored by executeRun.
Park(w) ==
    LET r == wrun[w] IN
    /\ wpc[w] = "park"
    /\ \/ /\ MayPark(r)
          /\ EndRow(r, "awaiting-confirmation", "none")
          /\ question' = [question EXCEPT ![r] = "open"]
       \/ /\ ~MayPark(r)
          /\ UNCHANGED <<rowVars, question>>
    /\ Leave(w)
    /\ UNCHANGED <<ledgerVars, aged, shiftVars, wexp, appVars, faults>>

\* runs.complete at the end of the loop: an update by id with no predicate.
Complete(w) ==
    /\ wpc[w] = "complete"
    /\ \E result \in Results : EndRow(wrun[w], result.status, result.reason)
    /\ Goto(w, "review")
    /\ UNCHANGED <<ledgerVars, askVars, shiftVars, wrun, wexp, appVars, faults>>

\* review: a second row, enqueued as pending like any other, when an action of
\* the run went through and is held for the person.
SkipReview(w) ==
    /\ wpc[w] = "review"
    /\ Goto(w, "report")
    /\ UNCHANGED <<rowVars, ledgerVars, askVars, shiftVars, wrun, wexp, appVars, faults>>

EnqueueReview(w) ==
    /\ wpc[w] = "review"
    /\ \E i \in 1 .. Len(ledger[wrun[w]]) : ledger[wrun[w]][i] = "seen"
    /\ Enqueue("reviewer", 0)
    /\ wrun' = [wrun EXCEPT ![w] = rows + 1]
    /\ Goto(w, "reviewing")
    /\ UNCHANGED <<ledgerVars, askVars, shiftVars, wexp, appVars, faults>>

Reviewed(w) ==
    /\ wpc[w] = "reviewing"
    /\ \/ EndRow(wrun[w], "succeeded", "none")
       \/ EndRow(wrun[w], "failed", "error")
    /\ Goto(w, "report")
    /\ UNCHANGED <<ledgerVars, askVars, shiftVars, wrun, wexp, appVars, faults>>

\* executeRun's catch: the cancel fence ends the row itself ...
Cancelled(w) ==
    /\ wpc[w] = "cancelled"
    /\ EndRow(wrun[w], "interrupted", "cancelled")
    /\ Goto(w, "settle")
    /\ UNCHANGED <<ledgerVars, askVars, shiftVars, wrun, wexp, appVars, faults>>

\* ... and settleAbandonedIntents runs on either fence, skipping a live row.
SettleOwn(w) ==
    /\ wpc[w] = "settle"
    /\ RecoverOpen({r \in {wrun[w]} : MaySettle(r)})
    /\ Goto(w, "report")
    /\ UNCHANGED <<rowVars, late, askVars, shiftVars, wrun, wexp, appVars, faults>>

\* ... while any other error completes the row as failed.
Threw(w) ==
    /\ wpc[w] = "threw"
    /\ EndRow(wrun[w], "failed", "error")
    /\ Goto(w, "report-fault")
    /\ UNCHANGED <<ledgerVars, askVars, shiftVars, wrun, wexp, appVars, faults>>

\* writeReport creates the row once; noteInReport creates or appends to it.
Report(w) ==
    /\ wpc[w] = "report"
    /\ reported' = TRUE
    /\ Goto(w, "return")
    /\ UNCHANGED <<rowVars, ledgerVars, askVars, phase, wrun, wexp, appVars, faults>>

\* The catch-all reports and returns: it does not hand the session back.
ReportFault(w) ==
    /\ wpc[w] = "report-fault"
    /\ reported' = TRUE
    /\ Leave(w)
    /\ UNCHANGED <<rowVars, ledgerVars, askVars, phase, wexp, appVars, faults>>

\* markObserving: a plain write of the phase.  Inside a sweep it is followed by
\* the next expired question.
HandBack(w) ==
    /\ wpc[w] = "return"
    /\ phase' = "observing"
    /\ wexp' = [wexp EXCEPT ![w] = @ \ {wrun[w]}]
    /\ wrun' = [wrun EXCEPT ![w] = 0]
    /\ Goto(w, IF wexp[w] = {} THEN "idle" ELSE "expiring")
    /\ UNCHANGED <<rowVars, ledgerVars, askVars, reported, appVars, faults>>

-----------------------------------------------------------------------------
(* The sweep: at startup, and every few minutes while the queue is empty.  *)

IdleSweep(w) ==
    /\ wpc[w] = "idle"
    /\ \A r \in Runs : status[r] # "pending"
    /\ Goto(w, "sweep")
    /\ UNCHANGED <<rowVars, ledgerVars, askVars, shiftVars, wrun, wexp, appVars, faults>>

\* expireConfirmations reads every unanswered, day-old question whose run is
\* still parked ...
ReadExpired(w) ==
    /\ wpc[w] = "sweep"
    /\ wexp' = [wexp EXCEPT ![w] = {r \in Runs : Expired(r)}]
    /\ Goto(w, "expiring")
    /\ UNCHANGED <<rowVars, ledgerVars, askVars, shiftVars, wrun, appVars, faults>>

\* ... and ends each of their runs by id, then notes it and hands back.
ExpireOne(w) ==
    /\ wpc[w] = "expiring"
    /\ \E r \in wexp[w] :
        /\ EndRow(r, "interrupted", "confirmation-expired")
        /\ wrun' = [wrun EXCEPT ![w] = r]
    /\ Goto(w, "report")
    /\ UNCHANGED <<ledgerVars, askVars, shiftVars, wexp,
                   appVars, faults>>

\* runs.sweepExpiredLeases: every live row whose lease has run out.
LeaseSweep(w) ==
    LET reaped == {r \in Runs : Reapable(r)} IN
    /\ wpc[w] = "expiring"
    /\ wexp[w] = {}
    /\ status' = [r \in Runs |-> IF r \in reaped THEN "interrupted"   ELSE status[r]]
    /\ reason' = [r \in Runs |-> IF r \in reaped THEN "lease-expired" ELSE reason[r]]
    /\ token'  = [r \in Runs |-> IF r \in reaped THEN FALSE           ELSE token[r]]
    /\ lapsed' = [r \in Runs |-> IF r \in reaped THEN FALSE           ELSE lapsed[r]]
    /\ Goto(w, "settle-all")
    /\ UNCHANGED <<rows, role, resumes, claimedBy, cancel, ledgerVars,
                   askVars, shiftVars, wrun, wexp, appVars, faults>>

\* sweepAbandonedIntents: every open intent of a run that has ended.
SettleAbandoned(w) ==
    /\ wpc[w] = "settle-all"
    /\ RecoverOpen({r \in Runs : status[r] \in Ended})
    /\ Goto(w, "idle")
    /\ UNCHANGED <<rowVars, late, askVars, shiftVars, wrun, wexp, appVars, faults>>

-----------------------------------------------------------------------------
(* The app: answering the question, and the doors that stop a run.         *)

\* confirmRequest's read and its refusals: already answered, expired,
\* abandoned.  A refusal writes nothing.
ConfirmCheck(h) ==
    /\ hpc[h] = "idle"
    /\ \E r \in Runs :
        /\ MayConfirm(r)
        /\ hrun' = [hrun EXCEPT ![h] = r]
    /\ HGoto(h, "confirm")
    /\ UNCHANGED <<rowVars, ledgerVars, askVars, shiftVars, workerVars, faults>>

\* rejectRequest asks only whether there is a verdict already.
RejectCheck(h) ==
    /\ hpc[h] = "idle"
    /\ \E r \in Runs :
        /\ Unanswered(r)
        /\ hrun' = [hrun EXCEPT ![h] = r]
    /\ HGoto(h, "reject")
    /\ UNCHANGED <<rowVars, ledgerVars, askVars, shiftVars, workerVars, faults>>

\* confirmations.recordVerdict: requestId is unique, so a second verdict throws
\* and the request ends there.
RecordVerdict(h, verdict, next) ==
    \/ /\ Unanswered(hrun[h])
       /\ question' = [question EXCEPT ![hrun[h]] = verdict]
       /\ HGoto(h, next)
       /\ UNCHANGED hrun
    \/ /\ ~Unanswered(hrun[h])
       /\ UNCHANGED question
       /\ HLeave(h)

MisConfirm(h) ==
    /\ hpc[h] = "confirm"
    /\ HGoto(h, "continue")
    /\ UNCHANGED <<rowVars, ledgerVars, askVars, shiftVars, workerVars, hrun, faults>>

Confirm(h) ==
    /\ hpc[h] = "confirm"
    /\ RecordVerdict(h, "confirmed", "continue")
    /\ UNCHANGED <<rowVars, ledgerVars, aged, shiftVars, workerVars, faults>>

\* ... and only then the continuation, in a statement of its own.
Continue(h) ==
    /\ hpc[h] = "continue"
    /\ Enqueue("worker", hrun[h])
    /\ HLeave(h)
    /\ UNCHANGED <<ledgerVars, askVars, shiftVars, workerVars, faults>>

Reject(h) ==
    /\ hpc[h] = "reject"
    /\ RecordVerdict(h, "rejected", "return")
    /\ UNCHANGED <<rowVars, ledgerVars, aged, shiftVars, workerVars, faults>>

RejectHandBack(h) ==
    /\ hpc[h] = "return"
    /\ phase' = "observing"
    /\ HLeave(h)
    /\ UNCHANGED <<rowVars, ledgerVars, askVars, reported, workerVars, faults>>

\* takeBackControl (a person: haltRun from its step 0) or POST /api/act/halt
\* (haltRun from step 1).
HaltStart(h) ==
    /\ hpc[h] = "idle"
    /\ \E r \in 1 .. rows : hrun' = [hrun EXCEPT ![h] = r]
    /\ \/ HGoto(h, "halt-close")
       \/ HGoto(h, "halt-flag")
    /\ UNCHANGED <<rowVars, ledgerVars, askVars, shiftVars, workerVars, faults>>

HaltClose(h) ==
    LET r == hrun[h] IN
    /\ hpc[h] = "halt-close"
    /\ \/ /\ status[r] = "awaiting-confirmation"
          /\ question[r] = "open"
          /\ status' = [status EXCEPT ![r] = "interrupted"]
          /\ reason' = [reason EXCEPT ![r] = "cancelled"]
       \/ /\ status[r] # "awaiting-confirmation" \/ question[r] # "open"
          /\ UNCHANGED <<status, reason>>
    /\ HGoto(h, "halt-flag")
    /\ UNCHANGED <<rows, role, resumes, token, claimedBy, cancel, lapsed,
                   ledgerVars, askVars, shiftVars, workerVars, hrun, faults>>

HaltFlag(h) ==
    LET r == hrun[h] IN
    /\ hpc[h] = "halt-flag"
    /\ cancel' = [cancel EXCEPT ![r] = @ \/ status[r] \in Open]
    /\ HGoto(h, "halt-revoke")
    /\ UNCHANGED <<rows, status, role, resumes, token, claimedBy, reason,
                   lapsed, ledgerVars, askVars, shiftVars, workerVars, hrun,
                   faults>>

HaltRevoke(h) ==
    /\ hpc[h] = "halt-revoke"
    /\ token' = [token EXCEPT ![hrun[h]] = FALSE]
    /\ HGoto(h, "halt-settle")
    /\ UNCHANGED <<rows, status, role, resumes, claimedBy, cancel, reason,
                   lapsed, ledgerVars, askVars, shiftVars, workerVars, hrun,
                   faults>>

HaltSettle(h) ==
    /\ hpc[h] = "halt-settle"
    /\ RecoverOpen({r \in {hrun[h]} : MaySettle(r)})
    /\ HLeave(h)
    /\ UNCHANGED <<rowVars, late, askVars, shiftVars, workerVars, faults>>

\* endSession: no check that the shift is over.
EndSession ==
    /\ SessionMayEnd
    /\ phase # "ended"
    /\ phase' = "ended"
    /\ UNCHANGED <<rowVars, ledgerVars, askVars, reported, workerVars, appVars, faults>>

-----------------------------------------------------------------------------
(* Time, crashes and thrown errors.                                        *)

LeaseLapses(r) ==
    /\ status[r] \in Live
    /\ ~lapsed[r]
    /\ lapsed' = [lapsed EXCEPT ![r] = TRUE]
    /\ UNCHANGED <<rows, status, role, resumes, token, claimedBy, cancel,
                   reason, ledgerVars, askVars, shiftVars, workerVars, appVars,
                   faults>>

DayPasses(r) ==
    /\ question[r] = "open"
    /\ status[r] = "awaiting-confirmation"
    /\ ~aged[r]
    /\ aged' = [aged EXCEPT ![r] = TRUE]
    /\ UNCHANGED <<rowVars, ledgerVars, question, shiftVars, workerVars,
                   appVars, faults>>

Crash(w) ==
    /\ wpc[w] # "down"
    /\ faults < MaxFaults
    /\ faults' = faults + 1
    /\ Goto(w, "down")
    /\ wrun' = [wrun EXCEPT ![w] = 0]
    /\ wexp' = [wexp EXCEPT ![w] = {}]
    /\ UNCHANGED <<rowVars, ledgerVars, askVars, shiftVars, appVars>>

\* A restarted worker sweeps before it claims anything.
Restart(w) ==
    /\ wpc[w] = "down"
    /\ Goto(w, "sweep")
    /\ UNCHANGED <<rowVars, ledgerVars, askVars, shiftVars, wrun, wexp, appVars, faults>>

\* Where a thrown error lands.  Inside runWorker: executeRun's catch.  Inside
\* review: swallowed there.  Anywhere else it reaches the process loop, which
\* logs it and goes on to the next claim; executeRun's own reads come before
\* its try, so a start can throw either way.
InsideRunWorker == {"start", "turn", "propose", "fence", "record", "act"}
CaughtAt(label) ==
    CASE label = "start"           -> {"threw", "idle"}
      [] label \in InsideRunWorker -> {"threw"}
      [] label = "reviewing"       -> {"report"}
      [] OTHER                     -> {"idle"}

Throws(w) ==
    /\ wpc[w] \notin {"down", "idle", "threw"}
    /\ faults < MaxFaults
    /\ faults' = faults + 1
    /\ \E label \in CaughtAt(wpc[w]) :
        /\ Goto(w, label)
        /\ wrun' = [wrun EXCEPT ![w] = IF label = "idle" THEN 0 ELSE @]
    /\ wexp' = [wexp EXCEPT ![w] = {}]
    /\ UNCHANGED <<rowVars, ledgerVars, askVars, shiftVars, appVars>>

\* The fence cannot read the row and fails safe: as if the run had ended, though
\* the row is live and stays so until its lease lapses.
FenceUnreadable(w) ==
    /\ wpc[w] = "fence"
    /\ faults < MaxFaults
    /\ faults' = faults + 1
    /\ Goto(w, "settle")
    /\ UNCHANGED <<rowVars, ledgerVars, askVars, shiftVars, wrun, wexp, appVars>>

\* A request of the app dies between two of its statements.
RequestDies(h) ==
    /\ hpc[h] # "idle"
    /\ faults < MaxFaults
    /\ faults' = faults + 1
    /\ HLeave(h)
    /\ UNCHANGED <<rowVars, ledgerVars, askVars, shiftVars, workerVars>>

-----------------------------------------------------------------------------

Executes(w) ==
    \/ Start(w)      \/ Turn(w)          \/ Propose(w)   \/ FencePasses(w)
    \/ FenceCancels(w) \/ FenceFindsItEnded(w) \/ Record(w) \/ Observe(w)
    \/ Finish(w)     \/ Park(w)          \/ Complete(w)  \/ SkipReview(w)
    \/ EnqueueReview(w) \/ Reviewed(w)   \/ Cancelled(w) \/ SettleOwn(w)
    \/ Threw(w)      \/ Report(w)        \/ ReportFault(w) \/ HandBack(w)

Sweeps(w) ==
    \/ IdleSweep(w) \/ ReadExpired(w) \/ ExpireOne(w)
    \/ LeaseSweep(w) \/ SettleAbandoned(w)

WorkerStep(w) ==
    Claim(w) \/ Admit(w) \/ AdmitTooLate(w) \/ Executes(w) \/ Sweeps(w) \/ Restart(w)

\* What a person, or the extension, may start; and what an app request then
\* does by itself.
Asked(h) == ConfirmCheck(h) \/ RejectCheck(h) \/ HaltStart(h)

RequestStep(h) ==
    \/ Confirm(h) \/ Continue(h) \/ Reject(h) \/ RejectHandBack(h)
    \/ HaltClose(h) \/ HaltFlag(h) \/ HaltRevoke(h) \/ HaltSettle(h)

Next ==
    \/ \E w \in Workers : WorkerStep(w) \/ Crash(w) \/ Throws(w) \/ FenceUnreadable(w)
    \/ \E h \in Handlers : Asked(h) \/ RequestStep(h) \/ RequestDies(h)
    \/ \E r \in Runs : LeaseLapses(r) \/ DayPasses(r)
    \/ EndSession

Spec == Init /\ [][Next]_vars

(***************************************************************************)
(* The processes keep running and the clock keeps moving: a worker process *)
(* that can step does (it polls, and the supervisor restarts it), a request*)
(* runs to its end, leases and days pass.  Nothing obliges a person to     *)
(* answer, to stop anything or to end the session.                         *)
(***************************************************************************)
Fairness ==
    /\ \A w \in Workers : WF_vars(WorkerStep(w))
    /\ \A h \in Handlers : WF_vars(RequestStep(h))
    /\ \A r \in Runs : WF_vars(LeaseLapses(r)) /\ WF_vars(DayPasses(r))

FairSpec == Spec /\ Fairness

-----------------------------------------------------------------------------
(* Properties.                                                             *)

Labels == {"down", "idle", "admit", "start", "turn", "propose", "fence",
           "record", "act", "park", "complete", "review", "reviewing",
           "cancelled", "settle", "threw", "report", "report-fault", "return",
           "sweep", "expiring", "settle-all"}
HLabels == {"idle", "confirm", "continue", "reject", "return", "halt-close",
            "halt-flag", "halt-revoke", "halt-settle"}

Outcomes == {"open", "refused", "seen", "recovered"}

RowTypes ==
    /\ rows \in Runs
    /\ status \in [Runs -> Open \union Ended \union {"absent"}]
    /\ role \in [Runs -> {"worker", "reviewer"}]
    /\ resumes \in [Runs -> Runs \union {0}]
    /\ token \in [Runs -> BOOLEAN]
    /\ claimedBy \in [Runs -> Workers \union {NoWorker}]
    /\ cancel \in [Runs -> BOOLEAN]
    /\ reason \in [Runs -> Reasons]
    /\ lapsed \in [Runs -> BOOLEAN]

LedgerTypes ==
    /\ ledger \in [Runs -> Seq(Outcomes)]
    /\ late \in [Runs -> Nat]

AskTypes ==
    /\ question \in [Runs -> {"none", "open", "confirmed", "rejected"}]
    /\ aged \in [Runs -> BOOLEAN]

ShiftTypes ==
    /\ phase \in {"observing", "away", "ended"}
    /\ reported \in BOOLEAN

WorkerTypes ==
    /\ wpc \in [Workers -> Labels]
    /\ wrun \in [Workers -> Runs \union {0}]
    /\ wexp \in [Workers -> SUBSET Runs]

AppTypes ==
    /\ hpc \in [Handlers -> HLabels]
    /\ hrun \in [Handlers -> Runs \union {0}]

\* Every column and every program counter holds a value the code can write.
TypeOK ==
    /\ RowTypes
    /\ LedgerTypes
    /\ AskTypes
    /\ ShiftTypes
    /\ WorkerTypes
    /\ AppTypes
    /\ faults \in Nat

\* A worker process is executing the run it claimed, from the admission to the
\* last moment at which it could still enqueue another row for the shift.
Driving == {"admit", "start", "turn", "propose", "fence", "record", "act",
            "park", "complete", "review"}
Drives(w, r) == wrun[w] = r /\ wpc[w] \in Driving

\* Something can still happen because of run r: it is queued or live, a
\* process is driving it (a reaped one too), its question can be answered, or
\* its yes is about to become a continuation.
Moves(r) ==
    \/ status[r] \in Open
    \/ \E w \in Workers : Drives(w, r)
    \/ question[r] = "open"
    \/ \E h \in Handlers : hpc[h] = "continue" /\ hrun[h] = r

\* A shift moves in one place at a time, whatever the order in which workers,
\* sweeps, two answers to one question and the stop doors interleave: no two
\* runs are open, and none is while another still has a driver, a live
\* question or a yes in hand.
OneMover == \A r, q \in Runs : Moves(r) /\ Moves(q) => r = q

\* The browser credential is held by a claimed or running row and by no other:
\* every way of ending a run, from inside or outside, revokes it.
TokenFollowsTheRun == \A r \in Runs : token[r] => status[r] \in Live

\* A continuation comes from one confirmed question, and no question gives two.
AYesIsSpentOnce ==
    \A r \in Runs : resumes[r] # 0 =>
        /\ question[resumes[r]] = "confirmed"
        /\ \A q \in Runs : resumes[q] = resumes[r] => q = r

\* The process executing a run is the one its row names: the fence's
\* claim-lost answer is unreachable, since a row is claimed once in its life.
ClaimHolds ==
    \A w \in Workers :
        wpc[w] \in Driving \union {"threw", "cancelled", "settle"} => claimedBy[wrun[w]] = w

\* A run is parked on a question exactly when one was raised: no parked row
\* without its question, no question on a run that is queued or live.
ParkedOnAQuestion ==
    \A r \in Runs :
        /\ status[r] = "awaiting-confirmation" => question[r] # "none"
        /\ question[r] # "none" => status[r] \in Ended

\* No more than one intent is recorded after a run was flagged or ended: the
\* one whose fence had already been read.
OneStepPastAStop == \A r \in Runs : late[r] <= 1

\* An action whose worker is still waiting for the result has not been settled
\* by somebody else, so the worker's own outcome can be written.
InFlightIsUnsettled ==
    \A w \in Workers : wpc[w] = "act" => ledger[wrun[w]][Len(ledger[wrun[w]])] = "open"

\* Once ended, a run is never queued or live again (issue #140).
NoResurrection == [][\A r \in Runs : status[r] \in Ended => status'[r] \in Ended]_vars

\* The ledger only grows, and an outcome once written is never replaced.
LedgerIsAppendOnly ==
    [][\A r \in Runs : \A i \in 1 .. Len(ledger[r]) :
          /\ i <= Len(ledger'[r])
          /\ ledger[r][i] # "open" => ledger'[r][i] = ledger[r][i]]_vars

\* Every run that was queued ends, crashes and lapsed leases included.
RunsEnd == \A r \in Runs : status[r] \in Open ~> status[r] \in Ended

\* Nothing waits for ever on a question nobody answers.
QuestionsClose ==
    \A r \in Runs :
        Moves(r) /\ question[r] = "open" ~> question[r] # "open" \/ status[r] # "awaiting-confirmation"

\* Nothing is left to do: no open run, nothing to answer, nobody mid-way.
Quiet ==
    /\ \A r \in Runs : status[r] \notin Open
    /\ \A r \in Runs : ~(question[r] = "open" /\ status[r] = "awaiting-confirmation")
    /\ \A w \in Workers : wpc[w] = "idle"
    /\ \A h \in Handlers : hpc[h] = "idle"

\* When nothing fails, the session is back with the person by the time the
\* shift is over, except after a stop that closed a question.
AwayOnlyAfterAClosedQuestion ==
    Quiet /\ phase = "away" /\ faults = 0 => \E r \in Runs : reason[r] = "cancelled" /\ question[r] = "open"

\* A yes has hold of run r, past its check of the run, or has carried it on.
CarriedOn(r) ==
    \/ \E h \in Handlers : hpc[h] \in {"confirm", "continue"} /\ hrun[h] = r
    \/ \E q \in Runs : resumes[q] = r

\* Once a run is over, by a stop, an expiry or a reap, and no yes that was
\* checked before that has hold of it, nothing ever carries it on.  A yes whose
\* check a stop overtook still does (confirmations.ts:588-592).
StoppedStaysStopped ==
    [][\A r \in Runs :
          status[r] \in Ended \ {"awaiting-confirmation"} /\ ~CarriedOn(r) => ~CarriedOn(r)']_vars
=============================================================================
