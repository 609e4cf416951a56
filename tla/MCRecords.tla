------------------------------ MODULE MCRecords ------------------------------
(***************************************************************************)
(* TLC instances of the records the app keeps beside the queue of runs     *)
(* (CaptureGaps, CaptureLedger, AmbientOffers, Handoff and ShiftReview),   *)
(* of the phone they are told to (Thread) and of the tray that keeps the   *)
(* app and the worker running (Supervisor).  They share no state, so the   *)
(* run takes one at a time: "focus" is chosen at the start, only that part *)
(* steps, and the state spaces add up instead of multiplying.              *)
(***************************************************************************)
EXTENDS CaptureGaps, CaptureLedger, AmbientOffers, Handoff, ShiftReview, Supervisor, Thread,
        TLC

VARIABLE focus

\* A guide read, left for another site and come back to, and a shop opened
\* forty-six minutes later.
MCPage(url, at, engaged, visits, returns) ==
    [url |-> url, origin |-> url, at |-> at, engaged |-> engaged, visits |-> visits,
     returns |-> returns, scroll |-> 2, hidden |-> FALSE, query |-> "none", onSubject |-> TRUE]

MCPages == [t \in Threads |-> {MCPage("guide", 0, 3, 2, {"no-referrer"}),
                               MCPage("shop", 46, 1, 1, {})}]

\* Of a section of two lines, one run replaces the second and puts a line
\* before the first, and one replaces the first.
MCBases == {<<"h", "p", "q">>}
MCProse == {<<"x", "p", "y">>, <<"y", "q">>}
MCEdits == {<<"h", "p", "q">>, <<"h", "mine">>}

\* The other project is new, empty, or worked in.
MCFilings == {Unfiled, [Unfiled EXCEPT !.row = "filed"],
              [row |-> "filed", stated |-> TRUE, document |-> TRUE, site |-> "granted"]}

RecordsInit ==
    /\ focus \in {"gaps", "ledger", "offers", "handoff", "review", "supervisor", "thread",
                  "pairing"}
    /\ GapsInit /\ LedgerInit /\ OffersInit /\ HandoffInit /\ ReviewInit
    /\ SupervisorInit /\ ThreadInit
    /\ \A p \in Projects \ {First} : filing[p] \in MCFilings
    \* What another part starts from is of no matter.
    /\ focus # "handoff" => /\ ~ beside /\ ~ expects
                            /\ \A p \in Projects \ {First} : filing[p] = Unfiled
                            /\ filing[First] = [Unfiled EXCEPT !.row = "filed"]
    /\ focus # "ledger" => Granted = {}
    /\ paired.line # NoLine

\* A thread that stays paired, passes overlapping; and one that is unpaired and
\* paired again while one pass at a time comes and goes.
StaysPaired == pairer' = NoPairer /\ age' = 0

OnePass ==
    /\ \A v, w \in Passes \cup Feeds :
          passes'[v].pc # "idle" /\ passes'[w].pc # "idle" => v = w /\ v \in Passes
    /\ \A d \in Decisions : verdicts'[d].by # "screen"
    /\ \A l \in Lines : \A i \in DOMAIN updates'[l] : updates'[l][i].who = "person"

\* A batch is in trouble, or a grant changes under it.
OneUpset == changes' + faults' <= 1

\* What is accepted is accepted as soon as it is drawn.
AtOnce == screen = NoScreen \/ accepting' # accepting

RecordsNext ==
    /\ UNCHANGED focus
    /\ \/ /\ focus = "gaps"
          /\ UNCHANGED <<ledgerVars, offersVars, handoffVars, reviewVars, supervisorVars,
                         threadVars>>
          /\ GapsNext
       \/ /\ focus = "ledger"
          /\ UNCHANGED <<gapsVars, offersVars, handoffVars, reviewVars, supervisorVars,
                         threadVars>>
          /\ LedgerNext /\ OneUpset
       \/ /\ focus = "offers"
          /\ UNCHANGED <<gapsVars, ledgerVars, handoffVars, reviewVars, supervisorVars,
                         threadVars>>
          /\ OffersNext /\ AtOnce
       \/ /\ focus = "handoff"
          /\ UNCHANGED <<gapsVars, ledgerVars, offersVars, reviewVars, supervisorVars,
                         threadVars>>
          /\ HandoffNext
       \/ /\ focus = "review"
          /\ UNCHANGED <<gapsVars, ledgerVars, offersVars, handoffVars, supervisorVars,
                         threadVars>>
          /\ ReviewNext
       \/ /\ focus = "supervisor"
          /\ UNCHANGED <<gapsVars, ledgerVars, offersVars, handoffVars, reviewVars,
                         threadVars>>
          /\ SupervisorNext
       \/ /\ focus \in {"thread", "pairing"}
          /\ UNCHANGED <<gapsVars, ledgerVars, offersVars, handoffVars, reviewVars,
                         supervisorVars>>
          /\ ThreadNext
          /\ IF focus = "thread" THEN StaysPaired ELSE OnePass

RecordsSpec ==
    RecordsInit
    /\ [][RecordsNext]_<<focus, gapsVars, ledgerVars, offersVars, handoffVars, reviewVars,
                         supervisorVars, threadVars>>

\* Flushes, requests, windows and passes are interchangeable, and a configuration may
\* name them alike: only one of the parts steps.
Symmetry == Permutations(Flushers)

=============================================================================
