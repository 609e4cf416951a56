--------------------------- MODULE BrowserChannel ---------------------------
(***************************************************************************)
(* The channel that carries one authorised instruction from a worker to    *)
(* the person's Chrome and its answer back.  Three processes take part.    *)
(* The worker blocks on POST /api/act/dispatch; the app holds that socket  *)
(* in memory (act-store.ts) beside a durable row (ActionDispatch); the     *)
(* extension polls GET /api/act/next, drives one tab over the debugger,    *)
(* and answers on POST /api/act/report or lets go on POST /api/act/halt.   *)
(*                                                                         *)
(* One action is one atomic stretch of one process: the code between two   *)
(* awaits, or one guarded UPDATE.  Time is left out: a hold, a poll or a   *)
(* request may end whenever its timer could.  Every intent here is one the *)
(* gate authorised for its run and every request is one admitControl let   *)
(* through; a refused request changes nothing.                             *)
(***************************************************************************)
EXTENDS Naturals, Sequences

CONSTANTS
    Runs,           \* runs that drive the browser
    Intents,        \* authorised ActionIntents of those runs
    Opens,          \* the intents that are a navigate, the one kind that opens a tab
    Polls,          \* poll handlers alive in the app at once
    Lettings,       \* lettings-go of a tab under way at once
    NoOne,          \* no run, no intent, no poll
    HaltedMemory,   \* HALTED_MEMORY: halted runs the app remembers
    ReportedCap,    \* REPORTED_INTENT_CAP: answered intents the extension remembers
    MaxTries,       \* bound: dispatches of one intent
    MaxFaults       \* bound: faults, losses, refusals and stops

ASSUME BrowserChannelAssumption ==
    /\ Opens \subseteq Intents
    /\ NoOne \notin Runs \union Intents \union Polls
    /\ HaltedMemory \in Nat \ {0}
    /\ ReportedCap \in Nat \ {0}
    /\ MaxTries \in Nat \ {0}
    /\ MaxFaults \in Nat

VARIABLES
    owner,      \* the run of each intent; never changes
    row,        \* ActionDispatch.status, "none" before the row exists
    created,    \* rows in createdAt order, as a line
    evidence,   \* ActionEvidence rows of each intent
    holds,      \* ActStore holds: the try of each intent that is held, or 0
    waiting,    \* those intents in heldSince order, as a line
    halted,     \* ActStore haltedRuns
    calls,      \* the dispatch handler of each try
    polls,      \* the next handlers
    stopping,   \* dispatches a halt handler has still to abandon
    posts,      \* the report of each intent, on its way or being handled
    tries,      \* dispatches the worker has made of each intent
    heard,      \* what the worker knows of each intent
    loop,       \* the service worker's poll loop
    inFlight,   \* inFlightIntentId in session storage
    answered,   \* reportedIntents in session storage
    tab,        \* controlledTabId: the intent the tab was opened by, or NoOne
    attached,   \* whether the debugger is attached to that tab
    release,    \* each letting-go: the tab it read, the command it claimed
    effects,    \* how many times each intent has acted on a page
    interrupted,    \* history: commands claimed by the letting-go of their tab
    faults

store == <<holds, waiting, halted>>
database == <<owner, row, created, evidence>>
app == <<store, calls, polls, stopping, posts>>
worker == <<tries, heard>>
extension == <<loop, inFlight, answered, tab, attached, release>>
vars == <<database, app, worker, extension, effects, interrupted, faults>>

Tries == 1 .. MaxTries
Statuses == {"queued", "delivered", "reported", "abandoned"}

\* What a report can say.  "off-origin" stands for every refusal made before
\* the page is touched that has a code of its own.
Bodies == {"ok", "not-delivered", "not-reported", "control-lost", "off-origin",
           "timed-out", "blocked-request"}

Members(s) == {s[n] : n \in DOMAIN s}

\* Append, and forget the oldest past the cap.
Remember(s, x, cap) ==
    LET longer == Append(s, x)
    IN  IF Len(longer) > cap THEN SubSeq(longer, 2, Len(longer)) ELSE longer

\* A line: each intent in it has the set of those at or before it, any other
\* the empty set, and the first in line has itself alone.
NoLine == [i \in Intents |-> {}]
InLine(line) == {i \in Intents : line[i] # {}}
Leave(line, gone) == [i \in Intents |-> IF i \in gone THEN {} ELSE line[i] \ gone]
Join(line, i) == [Leave(line, {i}) EXCEPT ![i] = InLine(line) \union {i}]

OnHold(i) == holds[i] # 0

\* A letting-go that is not under way.
NotLetting == [pc |-> "none", tab |-> NoOne, intent |-> NoOne]

\* The held tries of these intents.
Sockets(these) == {<<i, holds[i]>> : i \in {j \in these : OnHold(j)}}

\* Their holds end.
Release(these) ==
    /\ holds' = [i \in Intents |-> IF i \in these THEN 0 ELSE holds[i]]
    /\ waiting' = Leave(waiting, these)

\* The sockets of these tries are answered; only the one the worker still
\* listens on tells it anything.
Answer(gone, by, what) ==
    heard' = [i \in Intents |->
                IF <<i, tries[i]>> \in gone /\ heard[i].is = "waiting"
                THEN [is |-> "answered", by |-> by, what |-> what]
                ELSE heard[i]]

EndCalls(gone) ==
    calls' = [i \in Intents |-> [k \in Tries |->
                IF <<i, k>> \in gone THEN "ended" ELSE calls[i][k]]]

Init ==
    /\ owner \in [Intents -> Runs]
    /\ row = [i \in Intents |-> "none"]
    /\ created = NoLine
    /\ evidence = [i \in Intents |-> 0]
    /\ holds = [i \in Intents |-> 0]
    /\ waiting = NoLine
    /\ halted = <<>>
    /\ calls = [i \in Intents |-> [k \in Tries |-> "none"]]
    /\ polls = [p \in Polls |-> [pc |-> "off", todo |-> NoLine, row |-> NoOne]]
    /\ stopping = {}
    /\ posts = [i \in Intents |-> [pc |-> "none", body |-> "ok", again |-> FALSE]]
    /\ tries = [i \in Intents |-> 0]
    /\ heard = [i \in Intents |-> [is |-> "unsent", by |-> "nobody", what |-> "ok"]]
    /\ loop = [pc |-> "idle", at |-> NoOne]
    /\ inFlight = NoOne
    /\ answered = <<>>
    /\ tab = NoOne
    /\ attached = FALSE
    /\ release = [l \in Lettings |-> NotLetting]
    /\ effects = [i \in Intents |-> 0]
    /\ interrupted = {}
    /\ faults = 0

-----------------------------------------------------------------------------
\* One more of the things that may go wrong, or be stopped, at any moment.
Fault ==
    /\ faults < MaxFaults
    /\ faults' = faults + 1

-----------------------------------------------------------------------------
(* The worker's end of the socket, and the dispatch handler.               *)

\* POST /api/act/dispatch.  A run the app remembers halting is refused at the
\* door.  The shipped client sends once; the route is written, and tested, for
\* a client that lost its socket and sends the same intent again.  A run has
\* one worker, and it asks for nothing else while it waits.
Dispatch(i) ==
    /\ heard[i].is \in {"unsent", "lost"}
    /\ tries[i] < MaxTries
    /\ \A j \in Intents \ {i} :
          owner[j] = owner[i] => heard[j].is \in {"unsent", "answered"}
    /\ tries' = [tries EXCEPT ![i] = @ + 1]
    /\ IF owner[i] \in Members(halted)
       THEN /\ heard' = [heard EXCEPT ![i] =
                    [is |-> "answered", by |-> "app", what |-> "control-lost"]]
            /\ calls' = [calls EXCEPT ![i][tries[i] + 1] = "ended"]
       ELSE /\ heard' = [heard EXCEPT ![i] =
                    [is |-> "waiting", by |-> "nobody", what |-> "ok"]]
            /\ calls' = [calls EXCEPT ![i][tries[i] + 1] = "checked"]
    /\ UNCHANGED <<database, store, polls, stopping, posts, extension, effects,
                   interrupted, faults>>

\* Insert, or find the row an earlier try inserted.  The handler carries the
\* status it was given from here on.
Enqueue(i, k) ==
    /\ calls[i][k] = "checked"
    /\ IF row[i] = "none"
       THEN /\ row' = [row EXCEPT ![i] = "queued"]
            /\ created' = Join(created, i)
       ELSE UNCHANGED <<row, created>>
    /\ calls' = [calls EXCEPT ![i][k] = row'[i]]
    /\ UNCHANGED <<owner, evidence, store, polls, stopping, posts, worker,
                   extension, effects, interrupted, faults>>

\* The insert fails: the app breaks, and the client reads that as not-delivered.
EnqueueFails(i, k) ==
    /\ Fault
    /\ calls[i][k] = "checked"
    /\ EndCalls({<<i, k>>})
    /\ Answer({<<i, k>>}, "client", "not-delivered")
    /\ UNCHANGED <<database, store, polls, stopping, posts, tries, extension,
                   effects, interrupted>>

\* A row already settled is answered without waiting.
AnswerSettledRow(i, k) ==
    /\ calls[i][k] \in {"reported", "abandoned"}
    /\ EndCalls({<<i, k>>})
    /\ Answer({<<i, k>>}, "app",
              IF calls[i][k] = "reported" THEN "not-reported" ELSE "not-delivered")
    /\ UNCHANGED <<database, store, polls, stopping, posts, tries, extension,
                   effects, interrupted, faults>>

\* Does not look at the halted runs again.
MisHold(i, k) ==
    /\ calls[i][k] \in {"queued", "delivered"}
    /\ holds' = [holds EXCEPT ![i] = k]
    /\ waiting' = Join(waiting, i)
    /\ calls' = [j \in Intents |-> [n \in Tries |->
                    CASE <<j, n>> \in Sockets({i}) -> "ended"
                      [] <<j, n>> = <<i, k>> -> "held"
                      [] OTHER -> calls[j][n]]]
    /\ Answer(Sockets({i}), "app", "not-reported")
    /\ UNCHANGED <<database, halted, polls, stopping, posts, tries, extension,
                   effects, interrupted, faults>>

\* Register the hold, superseding an earlier one of the same intent, and look
\* at the halted runs again now that there is a hold a halt can settle: such a
\* halt settles this hold and any other of the run.
Hold(i, k) ==
    /\ calls[i][k] \in {"queued", "delivered"}
    /\ IF owner[i] \in Members(halted)
       THEN LET gone == {j \in Intents : owner[j] = owner[i]}
                ended == Sockets(gone) \union {<<i, k>>}
            IN  /\ Release(gone)
                /\ EndCalls(ended)
                /\ Answer(ended, "app", "control-lost")
       ELSE /\ holds' = [holds EXCEPT ![i] = k]
            /\ waiting' = Join(waiting, i)
            /\ calls' = [j \in Intents |-> [n \in Tries |->
                            CASE <<j, n>> \in Sockets({i}) -> "ended"
                              [] <<j, n>> = <<i, k>> -> "held"
                              [] OTHER -> calls[j][n]]]
            /\ Answer(Sockets({i}), "app", "not-reported")
    /\ UNCHANGED <<database, halted, polls, stopping, posts, tries, extension,
                   effects, interrupted, faults>>

\* The hold's timer fires: the hold is gone before anything is known.
Expire(i, k) ==
    /\ holds[i] = k
    /\ Release({i})
    /\ calls' = [calls EXCEPT ![i][k] = "expiring"]
    /\ UNCHANGED <<database, halted, polls, stopping, posts, worker, extension,
                   effects, interrupted, faults>>

\* Abandons whatever the row says.
MisAnswerExpired(i, k) ==
    /\ calls[i][k] = "expiring"
    /\ row' = [row EXCEPT ![i] = "abandoned"]
    /\ Answer({<<i, k>>}, "app", "not-delivered")
    /\ EndCalls({<<i, k>>})
    /\ UNCHANGED <<owner, created, evidence, store, polls, stopping, posts,
                   tries, extension, effects, interrupted, faults>>

\* Leaves the worker waiting when the abandon loses to a poll.
MuteAnswerExpired(i, k) ==
    /\ calls[i][k] = "expiring"
    /\ IF row[i] = "queued"
       THEN /\ row' = [row EXCEPT ![i] = "abandoned"]
            /\ Answer({<<i, k>>}, "app", "not-delivered")
       ELSE UNCHANGED <<row, heard>>
    /\ EndCalls({<<i, k>>})
    /\ UNCHANGED <<owner, created, evidence, store, polls, stopping, posts,
                   tries, extension, effects, interrupted, faults>>

\* onExpiry: winning the guarded abandon proves nothing was handed out.
AnswerExpired(i, k) ==
    /\ calls[i][k] = "expiring"
    /\ IF row[i] = "queued"
       THEN /\ row' = [row EXCEPT ![i] = "abandoned"]
            /\ Answer({<<i, k>>}, "app", "not-delivered")
       ELSE /\ UNCHANGED row
            /\ Answer({<<i, k>>}, "app", "not-reported")
    /\ EndCalls({<<i, k>>})
    /\ UNCHANGED <<owner, created, evidence, store, polls, stopping, posts,
                   tries, extension, effects, interrupted, faults>>

\* onExpiry's statement fails: the honest unknown, and the row is left alone.
ExpiryUnreadable(i, k) ==
    /\ Fault
    /\ calls[i][k] = "expiring"
    /\ EndCalls({<<i, k>>})
    /\ Answer({<<i, k>>}, "app", "not-reported")
    /\ UNCHANGED <<database, store, polls, stopping, posts, tries, extension,
                   effects, interrupted>>

\* The worker's fetch fails or is aborted while the app still works on it.
LoseSocket(i) ==
    /\ Fault
    /\ heard[i].is = "waiting"
    /\ heard' = [heard EXCEPT ![i].is = "lost"]
    /\ UNCHANGED <<database, app, tries, extension, effects, interrupted>>

\* BrowserControl.dispatch's catch: the app never answered.
Conclude(i) ==
    /\ heard[i].is = "lost"
    /\ heard' = [heard EXCEPT ![i] =
            [is |-> "answered", by |-> "client", what |-> "not-reported"]]
    /\ UNCHANGED <<database, app, tries, extension, effects, interrupted,
                   faults>>

\* Memory goes: holds, halts, polls and every half-done request.
Restart ==
    /\ Fault
    /\ holds' = [i \in Intents |-> 0]
    /\ waiting' = NoLine
    /\ halted' = <<>>
    /\ stopping' = {}
    /\ calls' = [i \in Intents |-> [k \in Tries |->
                    IF calls[i][k] = "none" THEN "none" ELSE "ended"]]
    /\ polls' = [p \in Polls |-> [pc |-> "off", todo |-> NoLine, row |-> NoOne]]
    /\ posts' = [i \in Intents |->
                    IF posts[i].pc = "none" THEN posts[i]
                    ELSE [posts[i] EXCEPT !.pc = "over"]]
    /\ heard' = [i \in Intents |->
                    IF heard[i].is = "waiting" THEN [heard[i] EXCEPT !.is = "lost"]
                    ELSE heard[i]]
    /\ loop' = IF loop.pc = "polling" THEN [pc |-> "idle", at |-> NoOne] ELSE loop
    /\ UNCHANGED <<database, tries, inFlight, answered, tab, attached, release,
                   effects, interrupted>>

-----------------------------------------------------------------------------
(* The next handler.  Its client may be gone; it does not know.            *)

Poll(p) ==
    /\ loop.pc = "idle"
    /\ polls[p].pc = "off"
    /\ polls' = [polls EXCEPT ![p].pc = "scan"]
    /\ loop' = [pc |-> "polling", at |-> p]
    /\ UNCHANGED <<database, store, calls, stopping, posts, worker, inFlight,
                   answered, tab, attached, release, effects, interrupted,
                   faults>>

\* store.waiting(): a copy, walked across awaits.
Scan(p) ==
    /\ polls[p].pc = "scan"
    /\ InLine(waiting) # {}
    /\ polls' = [polls EXCEPT ![p] = [@ EXCEPT !.pc = "look", !.todo = waiting]]
    /\ UNCHANGED <<database, store, calls, stopping, posts, worker, extension,
                   effects, interrupted, faults>>

\* The intent a poll's walk has come to.
Awaited(p, i) == polls[p].todo[i] = {i}

\* Go on to the next run waiting, or sleep and scan again.
Skip(p, i) ==
    LET rest == Leave(polls[p].todo, {i})
    IN  polls' = [polls EXCEPT ![p] =
            [pc |-> IF InLine(rest) = {} THEN "scan" ELSE "look",
             todo |-> rest, row |-> NoOne]]

\* Compare the oldest row of the run still queued (nextQueued) with the one
\* that is awaited.
Look(p) ==
    /\ polls[p].pc = "look"
    /\ \E i \in Intents :
          LET queue == {j \in Intents : owner[j] = owner[i] /\ row[j] = "queued"} IN
          /\ Awaited(p, i)
          /\ \/ queue = {} /\ Skip(p, i)
             \/ \E j \in queue :
                   /\ created[j] \intersect queue = {j}
                   /\ polls' = [polls EXCEPT ![p] =
                          [@ EXCEPT !.pc = IF j = i THEN "claim" ELSE "drain",
                                    !.row = j]]
    /\ UNCHANGED <<database, store, calls, stopping, posts, worker, extension,
                   effects, interrupted, faults>>

\* An instruction ahead of the awaited one is taken for an orphan.
Drain(p) ==
    /\ polls[p].pc = "drain"
    /\ row' = IF row[polls[p].row] = "queued"
              THEN [row EXCEPT ![polls[p].row] = "abandoned"] ELSE row
    /\ polls' = [polls EXCEPT ![p] = [@ EXCEPT !.pc = "look", !.row = NoOne]]
    /\ UNCHANGED <<owner, created, evidence, store, calls, stopping, posts,
                   worker, extension, effects, interrupted, faults>>

\* Hands the row out on the strength of the SELECT.
MisClaim(p) ==
    /\ polls[p].pc = "claim"
    /\ row' = [row EXCEPT ![polls[p].row] = "delivered"]
    /\ polls' = [polls EXCEPT ![p] = [@ EXCEPT !.pc = "respond", !.todo = NoLine]]
    /\ UNCHANGED <<owner, created, evidence, store, calls, stopping, posts,
                   worker, extension, effects, interrupted, faults>>

\* The guarded UPDATE decides which poll hands the row out.
Claim(p) ==
    /\ polls[p].pc = "claim"
    /\ IF row[polls[p].row] = "queued"
       THEN /\ row' = [row EXCEPT ![polls[p].row] = "delivered"]
            /\ polls' = [polls EXCEPT ![p] = [@ EXCEPT !.pc = "respond", !.todo = NoLine]]
       ELSE UNCHANGED row /\ Skip(p, polls[p].row)
    /\ UNCHANGED <<owner, created, evidence, store, calls, stopping, posts,
                   worker, extension, effects, interrupted, faults>>

\* The response, with a command or with none, reaches the loop if it still
\* listens.  A command answered once is never run again; any other becomes the
\* one in flight.
Respond(p) ==
    /\ polls[p].pc \in {"respond", "scan"}
    /\ polls' = [polls EXCEPT ![p] = [pc |-> "off", todo |-> NoLine, row |-> NoOne]]
    /\ LET i == polls[p].row
           heeded == loop = [pc |-> "polling", at |-> p]
           runs == heeded /\ i # NoOne /\ i \notin Members(answered)
       IN  /\ loop' = CASE runs -> [pc |-> "taken", at |-> i]
                        [] heeded /\ ~runs -> [pc |-> "idle", at |-> NoOne]
                        [] OTHER -> loop
           /\ inFlight' = IF runs THEN i ELSE inFlight
    /\ UNCHANGED <<database, store, calls, stopping, posts, worker, answered,
                   tab, attached, release, effects, interrupted, faults>>

-----------------------------------------------------------------------------
(* The extension: one command, start to finish.                            *)

\* Leaves the command in flight, for whoever comes next to report as well.
MisReportInFlight(body) ==
    /\ UNCHANGED inFlight
    /\ IF inFlight = NoOne THEN UNCHANGED <<answered, posts>>
       ELSE /\ answered' = IF inFlight \in Members(answered) THEN answered
                           ELSE Remember(answered, inFlight, ReportedCap)
            /\ posts' = [posts EXCEPT ![inFlight] =
                            [pc |-> "sent", body |-> body, again |-> FALSE]]

\* claimInFlight and the report that follows it.  Whatever is in flight is
\* claimed; with nothing in flight there is nothing to report.
ReportInFlight(body) ==
    /\ inFlight' = NoOne
    /\ IF inFlight = NoOne THEN UNCHANGED <<answered, posts>>
       ELSE /\ answered' = IF inFlight \in Members(answered) THEN answered
                           ELSE Remember(answered, inFlight, ReportedCap)
            /\ posts' = [posts EXCEPT ![inFlight] =
                            [pc |-> "sent", body |-> body, again |-> FALSE]]

\* runCommand looks for a tab after it has said what is in flight: the command
\* works in the tab that is held, or has first to open one.
Begin(i) ==
    /\ loop = [pc |-> "taken", at |-> i]
    /\ loop' = [pc |-> IF tab = NoOne THEN "opening" ELSE "performing", at |-> i]
    /\ UNCHANGED <<database, app, worker, inFlight, answered, tab, attached,
                   release, effects, interrupted, faults>>

\* ensureControlledTab: only a navigate opens one, and the run it came with is
\* remembered for as long as the tab is held.
OpenTab(i) ==
    /\ loop = [pc |-> "opening", at |-> i]
    /\ i \in Opens
    /\ tab' = i
    /\ attached' = TRUE
    /\ loop' = [pc |-> "performing", at |-> i]
    /\ UNCHANGED <<database, app, worker, inFlight, answered, release, effects,
                   interrupted, faults>>

\* Nothing to work in, or Chrome would not make the tab or attach to it.
CannotOpen(i) ==
    /\ loop = [pc |-> "opening", at |-> i]
    /\ ReportInFlight(IF i \in Opens THEN "not-delivered" ELSE "control-lost")
    /\ loop' = [pc |-> "idle", at |-> NoOne]
    /\ UNCHANGED <<database, store, calls, polls, stopping, worker, tab,
                   attached, release, effects, interrupted, faults>>

\* The input that reaches the page, in the tab that is held.
Act(i) ==
    /\ loop = [pc |-> "performing", at |-> i]
    /\ tab # NoOne
    /\ attached
    /\ effects' = [effects EXCEPT ![i] = @ + 1]
    /\ loop' = [pc |-> "acted", at |-> i]
    /\ UNCHANGED <<database, app, worker, inFlight, answered, tab, attached,
                   release, interrupted, faults>>

\* How performCommand may end.  Without a tab its own check throws
\* ControlLost.  With one Chrome has detached, sendCommand rejects and the last
\* line of the catch calls that not-delivered, before or after the page was
\* acted on, unless the last call had already come back.
Endings ==
    IF tab = NoOne THEN {"control-lost"}
    ELSE (IF attached THEN {"timed-out"} ELSE {"not-delivered"})
         \union (IF loop.pc = "acted" THEN {"ok"} ELSE {})
         \union (IF loop.pc = "performing" /\ attached
                 THEN {"not-delivered", "off-origin"} ELSE {})

Finish(i) ==
    /\ loop.pc \in {"performing", "acted"}
    /\ loop.at = i
    /\ \E body \in Endings : ReportInFlight(body)
    /\ loop' = [pc |-> "idle", at |-> NoOne]
    /\ UNCHANGED <<database, store, calls, polls, stopping, worker, tab,
                   attached, release, effects, interrupted, faults>>

\* The worker is terminated; session storage and the attachment stay.
Die ==
    /\ Fault
    /\ loop.pc # "dead"
    /\ loop' = [pc |-> "dead", at |-> NoOne]
    /\ release' = [l \in Lettings |-> NotLetting]
    /\ UNCHANGED <<database, app, worker, inFlight, answered, tab, attached,
                   effects, interrupted>>

\* An alarm or a start brings it back once the poll lease has lapsed.
Revive ==
    /\ loop.pc = "dead"
    /\ loop' = [pc |-> "idle", at |-> NoOne]
    /\ UNCHANGED <<database, app, worker, inFlight, answered, tab, attached,
                   release, effects, interrupted, faults>>

-----------------------------------------------------------------------------
(* Letting go of the tab.  Whoever lets go has read which tab, and for which *)
(* run, before its first await; any number may have read the same.          *)

\* Claims the command before the debugger is detached.
MisStop(l) ==
    /\ Fault
    /\ loop.pc # "dead"
    /\ release[l].pc = "none"
    /\ tab # NoOne
    /\ release' = [release EXCEPT ![l] = [NotLetting EXCEPT !.pc = "detached", !.tab = tab]]
    /\ UNCHANGED <<database, app, worker, loop, inFlight, answered, tab,
                   attached, effects, interrupted>>

\* stopActing: the chip, the app's Stop, the marker going quiet, an idle tab,
\* or a worker that starts up holding a tab.
Stop(l) ==
    /\ Fault
    /\ loop.pc # "dead"
    /\ release[l].pc = "none"
    /\ tab # NoOne
    /\ release' = [release EXCEPT ![l] = [NotLetting EXCEPT !.pc = "detaching", !.tab = tab]]
    /\ UNCHANGED <<database, app, worker, loop, inFlight, answered, tab,
                   attached, effects, interrupted>>

\* onIrreversibleBlocked: a request some earlier input provoked is held and
\* failed; whatever is in flight is reported ...
Block(l) ==
    /\ Fault
    /\ loop.pc # "dead"
    /\ release[l].pc = "none"
    /\ tab # NoOne
    /\ attached
    /\ \E i \in Intents : effects[i] > 0
    /\ ReportInFlight("blocked-request")
    /\ release' = [release EXCEPT ![l].pc = "blocked"]
    /\ UNCHANGED <<database, store, calls, polls, stopping, worker, loop, tab,
                   attached, effects, interrupted>>

\* ... and then stopActing reads which tab is held by now, if any.
StopBlocked(l) ==
    /\ release[l].pc = "blocked"
    /\ release' = [release EXCEPT ![l] =
            IF tab = NoOne THEN NotLetting
            ELSE [NotLetting EXCEPT !.pc = "detaching", !.tab = tab]]
    /\ UNCHANGED <<database, app, worker, loop, inFlight, answered, tab,
                   attached, effects, interrupted, faults>>

\* Only the tab that was read is detached.  That may raise onDetach, whose
\* listener lets go as well if it still finds that tab held.
Detach(l) ==
    /\ release[l].pc = "detaching"
    /\ attached' = (attached /\ tab # release[l].tab)
    /\ \/ release' = [release EXCEPT ![l].pc = "detached"]
       \/ \E m \in Lettings :
             /\ release[m].pc = "none"
             /\ tab = release[l].tab
             /\ release' = [release EXCEPT ![l].pc = "detached",
                    ![m] = [NotLetting EXCEPT !.pc = "detached", !.tab = tab]]
    /\ UNCHANGED <<database, app, worker, loop, inFlight, answered, tab,
                   effects, interrupted, faults>>

\* onDetached: the infobar's Cancel, the tab closed, DevTools opened.
ChromeDetaches(l) ==
    /\ Fault
    /\ loop.pc # "dead"
    /\ release[l].pc = "none"
    /\ tab # NoOne
    /\ attached
    /\ attached' = FALSE
    /\ release' = [release EXCEPT ![l] = [NotLetting EXCEPT !.pc = "detached", !.tab = tab]]
    /\ UNCHANGED <<database, app, worker, loop, inFlight, answered, tab,
                   effects, interrupted>>

\* The flag `releasing` is up from the claim until the tab is forgotten.
Releasing == \E l \in Lettings : release[l].pc = "claimed"

\* releaseControl finds the flag up and returns.
LeaveToOther(l) ==
    /\ release[l].pc = "detached"
    /\ Releasing
    /\ release' = [release EXCEPT ![l] = NotLetting]
    /\ UNCHANGED <<database, app, worker, loop, inFlight, answered, tab,
                   attached, effects, interrupted, faults>>

\* releaseControl: claim whatever is in flight by now, so this is its one
\* reporter ...
ClaimLost(l) ==
    /\ release[l].pc = "detached"
    /\ ~Releasing
    /\ release' = [release EXCEPT ![l].pc = "claimed", ![l].intent = inFlight]
    /\ inFlight' = NoOne
    /\ answered' = IF inFlight = NoOne \/ inFlight \in Members(answered) THEN answered
                   ELSE Remember(answered, inFlight, ReportedCap)
    /\ interrupted' =
           interrupted \union
             {i \in Intents : /\ i = inFlight /\ i = loop.at
                              /\ loop.pc \in {"performing", "acted"}
                              /\ tab = release[l].tab}
    /\ UNCHANGED <<database, app, worker, loop, tab, attached, effects, faults>>

\* ... then forget the tab, whichever it is by now, then tell the app: the
\* command, and the run.
ClearTab(l) ==
    /\ release[l].pc = "claimed"
    /\ tab' = NoOne
    /\ release' = [release EXCEPT ![l].pc = "telling"]
    /\ posts' = IF release[l].intent = NoOne THEN posts
                ELSE [posts EXCEPT ![release[l].intent] =
                        [pc |-> "sent", body |-> "control-lost", again |-> FALSE]]
    /\ UNCHANGED <<database, store, calls, polls, stopping, worker, loop,
                   inFlight, answered, attached, effects, interrupted, faults>>

\* POST /api/act/halt up to its first await: remember the run, settle what it
\* waits for, and keep the rows to abandon.  The run is the one that was read.
Halt(l) ==
    /\ release[l].pc = "telling"
    /\ LET run == owner[release[l].tab]
           gone == {i \in Intents : owner[i] = run /\ OnHold(i)}
       IN  /\ Release(gone)
           /\ EndCalls(Sockets(gone))
           /\ Answer(Sockets(gone), "app", "control-lost")
           /\ stopping' = stopping \union gone
           /\ halted' = IF run \in Members(halted) THEN halted
                        ELSE Remember(halted, run, HaltedMemory)
    /\ release' = [release EXCEPT ![l] = NotLetting]
    /\ UNCHANGED <<database, polls, posts, tries, loop, inFlight, answered, tab,
                   attached, effects, interrupted, faults>>

\* The app cannot be reached in five seconds: the tab is let go all the same.
HaltUnheard(l) ==
    /\ Fault
    /\ release[l].pc = "telling"
    /\ release' = [release EXCEPT ![l] = NotLetting]
    /\ UNCHANGED <<database, app, worker, loop, inFlight, answered, tab,
                   attached, effects, interrupted>>

HaltAbandons(i) ==
    /\ i \in stopping
    /\ stopping' = stopping \ {i}
    /\ row' = IF row[i] = "queued" THEN [row EXCEPT ![i] = "abandoned"] ELSE row
    /\ UNCHANGED <<owner, created, evidence, store, calls, polls, posts,
                   worker, extension, effects, interrupted, faults>>

-----------------------------------------------------------------------------
(* The report handler.                                                     *)

\* Sends the same report again.
MisRefused(post) ==
    IF post.again \/ loop.pc = "dead" THEN [post EXCEPT !.pc = "over"]
    ELSE [post EXCEPT !.pc = "sent", !.again = TRUE]

\* Refused, the extension says not-reported once, and then no more.
Refused(post) ==
    IF post.again \/ loop.pc = "dead" THEN [post EXCEPT !.pc = "over"]
    ELSE [pc |-> "sent", body |-> "not-reported", again |-> TRUE]

\* Is anyone waiting?  A body past the size bound is refused before that.
ReportArrives(i) ==
    /\ posts[i].pc = "sent"
    /\ posts' = [posts EXCEPT ![i] =
                    IF OnHold(i) THEN [@ EXCEPT !.pc = "marking"] ELSE Refused(@)]
    /\ UNCHANGED <<database, store, calls, polls, stopping, worker, extension,
                   effects, interrupted, faults>>

ReportTooLarge(i) ==
    /\ Fault
    /\ posts[i].pc = "sent"
    /\ posts[i].body = "ok"
    /\ posts' = [posts EXCEPT ![i] = Refused(@)]
    /\ UNCHANGED <<database, store, calls, polls, stopping, worker, extension,
                   effects, interrupted>>

\* delivered to reported, guarded; losing it does not stop the answer.
MarkReported(i) ==
    /\ posts[i].pc = "marking"
    /\ row' = IF row[i] = "delivered" THEN [row EXCEPT ![i] = "reported"] ELSE row
    /\ posts' = [posts EXCEPT ![i].pc =
                    IF posts[i].body = "ok" THEN "filing" ELSE "settling"]
    /\ UNCHANGED <<owner, created, evidence, store, calls, polls, stopping,
                   worker, extension, effects, interrupted, faults>>

FileEvidence(i) ==
    /\ posts[i].pc = "filing"
    /\ evidence' = [evidence EXCEPT ![i] = @ + 1]
    /\ posts' = [posts EXCEPT ![i].pc = "settling"]
    /\ UNCHANGED <<owner, row, created, store, calls, polls, stopping, worker,
                   extension, effects, interrupted, faults>>

\* Either write fails: the app breaks, which the extension does not answer.
ReportFails(i) ==
    /\ Fault
    /\ posts[i].pc \in {"marking", "filing"}
    /\ posts' = [posts EXCEPT ![i].pc = "over"]
    /\ UNCHANGED <<database, store, calls, polls, stopping, worker, extension,
                   effects, interrupted>>

\* The hold may have ended while the evidence was written.
Settle(i) ==
    /\ posts[i].pc = "settling"
    /\ Release({i})
    /\ EndCalls(Sockets({i}))
    /\ Answer(Sockets({i}), "browser", posts[i].body)
    /\ posts' = [posts EXCEPT ![i] =
                    IF OnHold(i) THEN [@ EXCEPT !.pc = "over"] ELSE Refused(@)]
    /\ UNCHANGED <<database, halted, polls, stopping, tries, extension,
                   effects, interrupted, faults>>

-----------------------------------------------------------------------------
Served(i) ==
    \E k \in Tries : Enqueue(i, k) \/ AnswerSettledRow(i, k) \/ Hold(i, k)
                     \/ Expire(i, k) \/ AnswerExpired(i, k)

Next ==
    \/ \E i \in Intents :
          \/ Dispatch(i) \/ Served(i) \/ LoseSocket(i) \/ Conclude(i)
          \/ \E k \in Tries : EnqueueFails(i, k) \/ ExpiryUnreadable(i, k)
          \/ Begin(i) \/ OpenTab(i) \/ CannotOpen(i) \/ Act(i) \/ Finish(i)
          \/ ReportArrives(i) \/ ReportTooLarge(i) \/ MarkReported(i)
          \/ FileEvidence(i) \/ ReportFails(i) \/ Settle(i) \/ HaltAbandons(i)
    \/ \E p \in Polls :
          Poll(p) \/ Scan(p) \/ Look(p) \/ Drain(p) \/ Claim(p) \/ Respond(p)
    \/ \E l \in Lettings :
          \/ Stop(l) \/ Block(l) \/ StopBlocked(l) \/ Detach(l) \/ ChromeDetaches(l)
          \/ LeaveToOther(l) \/ ClaimLost(l) \/ ClearTab(l) \/ Halt(l) \/ HaltUnheard(l)
    \/ Die \/ Revive \/ Restart

Spec == Init /\ [][Next]_vars

\* The app's own steps and its timers run, and a worker whose socket is gone
\* concludes.  Nothing is asked of the extension.
FairSpec ==
    /\ Spec
    /\ \A i \in Intents : WF_vars(Served(i)) /\ WF_vars(Conclude(i))

-----------------------------------------------------------------------------
(* Properties.                                                             *)

DatabaseTypes ==
    /\ owner \in [Intents -> Runs]
    /\ row \in [Intents -> Statuses \union {"none"}]
    /\ created \in [Intents -> SUBSET Intents]
    /\ evidence \in [Intents -> Nat]

StoreTypes ==
    /\ holds \in [Intents -> Tries \union {0}]
    /\ waiting \in [Intents -> SUBSET Intents]
    /\ halted \in Seq(Runs)
    /\ Len(halted) <= HaltedMemory

CallsTypes ==
    calls \in [Intents -> [Tries -> Statuses \union
        {"none", "checked", "held", "expiring", "ended"}]]

PollsTypes ==
    polls \in [Polls ->
        [pc : {"off", "scan", "look", "drain", "claim", "respond"},
         todo : [Intents -> SUBSET Intents], row : Intents \union {NoOne}]]

StoppingTypes == stopping \subseteq Intents

PostsTypes ==
    posts \in [Intents ->
        [pc : {"none", "sent", "marking", "filing", "settling", "over"},
         body : Bodies, again : BOOLEAN]]

RequestTypes ==
    /\ CallsTypes
    /\ PollsTypes
    /\ StoppingTypes
    /\ PostsTypes

WorkerTypes ==
    /\ tries \in [Intents -> 0 .. MaxTries]
    /\ heard \in [Intents ->
            [is : {"unsent", "waiting", "lost", "answered"},
             by : {"nobody", "app", "browser", "client"}, what : Bodies]]

ExtensionTypes ==
    /\ loop \in [pc : {"dead", "idle", "polling", "taken", "opening", "performing", "acted"},
                 at : Polls \union Intents \union {NoOne}]
    /\ loop.pc \in {"taken", "opening", "performing", "acted"} => loop.at \in Intents
    /\ inFlight \in Intents \union {NoOne}
    /\ answered \in Seq(Intents)
    /\ Len(answered) <= ReportedCap
    /\ tab \in Intents \union {NoOne}
    /\ attached \in BOOLEAN
    /\ release \in [Lettings ->
            [pc : {"none", "blocked", "detaching", "detached", "claimed", "telling"},
             tab : Intents \union {NoOne}, intent : Intents \union {NoOne}]]
    /\ \A l \in Lettings :
          release[l].pc \notin {"none", "blocked"} => release[l].tab \in Intents

\* Every column, field of memory and program counter holds a value the code
\* can write, and neither memory grows past its cap.
TypeOK ==
    /\ DatabaseTypes
    /\ StoreTypes
    /\ RequestTypes
    /\ WorkerTypes
    /\ ExtensionTypes
    /\ effects \in [Intents -> Nat]
    /\ interrupted \subseteq Intents
    /\ faults \in 0 .. MaxFaults

\* The worker's view of an intent, as the abstract specification states it.
Told(i) ==
    CASE heard[i].is # "answered" -> "nothing"
      [] heard[i].is = "answered" /\ heard[i].by = "app"
            /\ heard[i].what = "not-delivered" -> "unchanged"
      [] heard[i].is = "answered" /\ heard[i].by = "browser"
            /\ heard[i].what = "ok" -> "done"
      [] OTHER -> "unknown"

Promise == INSTANCE Delivery WITH told <- [i \in Intents |-> Told(i)]

\* Whatever is retried, lost, restarted or polled twice, the page is acted on
\* at most once per intent; the app says not-delivered only of an instruction
\* that never runs; an observation is of an act that happened.
KeepsThePromise == Promise!Spec

\* A row that says abandoned is never over an effect that landed
\* (index.ts, abandon): not for an expiry, a drained orphan or a halt, each
\* racing the poll that may be handing the row out.
AbandonedNeverRan == \A i \in Intents : row[i] = "abandoned" => effects[i] = 0

\* Nothing of a run the app remembers halting is waited for, so no poll is
\* told to hand it out, though the halt may come between a dispatch's check
\* and its hold (dispatch/route.ts:188-192).
HaltedRunsHoldNothing == \A i \in Intents : OnHold(i) => owner[i] \notin Members(halted)

\* An intent has at most one row of evidence and only if it acted, though a
\* report may be sent twice and its hold may end while it is being filed.
EvidenceIsOfOneAct == \A i \in Intents : evidence[i] <= effects[i]

\* One intent, one outcome: a block, a stop, a detach and the end of the command
\* may all come to report it, and whatever the first of them says is never
\* replaced by what another says later.  Only the sender of a report that was
\* refused says once more, and plainly, that there is none
\* (service-worker.js:1050-1065).
OneOutcome ==
    [][\A i \in Intents : posts[i].pc # "none" =>
          \/ posts'[i].again
          \/ posts'[i].body = posts[i].body /\ (posts'[i].pc = "sent" => posts'[i] = posts[i])]_vars

\* A command that is at work in a tab when a letting-go of that tab claims it,
\* to answer it control-lost, does not act any more, whatever else lets go at
\* the same time: the debugger is detached before the command is claimed
\* (service-worker.js:1318-1330, "Order is the whole design").
HandsOff == [][\A i \in interrupted : effects'[i] = effects[i]]_vars

\* A worker that waits is told something, with the extension dead and the
\* app restarting included.
EveryDispatchIsAnswered ==
    \A i \in Intents : heard[i].is = "waiting" ~> heard[i].is = "answered"

\* Letting go halts the run whose command it interrupts: the run remembered
\* with the tab is the run that is working in it.
StopHaltsTheRunItInterrupts ==
    \A l \in Lettings : release[l].intent # NoOne =>
        owner[release[l].tab] = owner[release[l].intent]

\* Letting go of a tab that another has let go of by then reports nothing: the
\* command was taken the first time (service-worker.js:1380-1383).
ASecondCallerReportsNothing ==
    \A l \in Lettings :
        release[l].pc = "claimed" /\ release[l].tab # tab => release[l].intent = NoOne
=============================================================================
