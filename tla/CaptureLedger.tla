---------------------------- MODULE CaptureLedger ----------------------------
(***************************************************************************)
(* How an observation gets from a page into the session's ledger.  The     *)
(* extension's worker (service-worker.js) buffers signals in session       *)
(* storage and flushes them in batches; the app's route                    *)
(* (api/capture/events/route.ts) admits a batch by the session's token,    *)
(* classifies each signal (capture/semantics.ts, capture-adapter.ts) and   *)
(* appends it through the one ledger writer (ledger-writer.ts).            *)
(*                                                                         *)
(* Two flushes may be under way at once (the alarm's and one that follows  *)
(* an idle signal), the worker may be killed at any point of either, the   *)
(* app may be unreachable, refuse a write or lose its answer, and sessions *)
(* and grants come and go in between.                                      *)
(***************************************************************************)
EXTENDS Integers, Sequences

CONSTANTS
    Sites,        \* the sites the project may approve, one page of each
    Flushers,     \* concurrent calls of flush
    MaxSignals,   \* bound on the signals buffered
    MaxSittings,  \* bound on the sessions started
    MaxChanges,   \* bound on grants given and withdrawn
    MaxFaults     \* bound on kills, outages, refused writes and lost answers

VARIABLES
    pending,   \* the extension's buffer, in session storage
    known,     \* the session the extension has cached there
    flush,     \* each call of flush: where it is, its session and its batch
    made,      \* how many signals have been buffered
    watched,      \* the session the app watches, or 0
    begun,     \* how many sessions have been started
    grant,     \* ApprovedSource.grantState of each site, "none" without a row
    permitted, \* the sites Chrome lets the extension read
    seen,      \* the pages each session's classifier has seen
    recorded,  \* the pages it has recorded an engagement with
    request,   \* the app's handling of each flusher's request
    rows,      \* the ledger
    handled,   \* signals the app has dealt with: recorded, ignored or refused
    lost,      \* signals in a batch of a worker that was killed
    changes,   \* grants given and withdrawn so far
    faults     \* faults so far

extension == <<pending, known, flush, made, permitted, lost>>
app == <<watched, begun, grant, seen, recorded, request, rows, handled>>
ledgerVars == <<extension, app, changes, faults>>

NoSession == [id |-> 0, sites |-> {}]
NoFlush == [pc |-> "idle", session |-> 0, batch |-> <<>>]
NoRequest == [pc |-> "idle", session |-> 0, sites |-> {}, rest |-> <<>>]
NoSite == "nowhere"

Kinds == {"navigation", "engagement", "away"}
Signals == [id : Nat \ {0}, kind : Kinds, site : Sites \cup {NoSite}]

Granted == {s \in Sites : grant[s] = "granted"}
Ids(signals) == {signals[i].id : i \in 1 .. Len(signals)}

LedgerInit ==
    /\ pending = <<>> /\ known = NoSession
    /\ flush = [f \in Flushers |-> NoFlush] /\ made = 0
    /\ watched = 0 /\ begun = 0
    /\ grant \in [Sites -> {"none", "granted"}] /\ permitted = Granted
    /\ seen = {} /\ recorded = {}
    /\ request = [f \in Flushers |-> NoRequest]
    /\ rows = <<>> /\ handled = {} /\ lost = {}
    /\ changes = 0 /\ faults = 0

Fault == faults < MaxFaults /\ faults' = faults + 1

-----------------------------------------------------------------------------
(* The app's sessions and the person's grants.                             *)

SessionStarts ==
    /\ watched = 0 /\ begun < MaxSittings
    /\ begun' = begun + 1 /\ watched' = begun + 1
    /\ UNCHANGED <<extension, grant, seen, recorded, request, rows, handled, changes, faults>>

EndSession ==
    /\ watched # 0
    /\ watched' = 0
    /\ UNCHANGED <<extension, begun, grant, seen, recorded, request, rows, handled, changes, faults>>

Row(session, kind, site, id) == [session |-> session, kind |-> kind, site |-> site, id |-> id]

\* Approving is project-scoped; a sitting that is running records it.
Approve(s) ==
    /\ changes < MaxChanges /\ changes' = changes + 1
    /\ grant' = [grant EXCEPT ![s] = "granted"]
    /\ permitted' = permitted \cup {s}
    /\ rows' = IF watched = 0 THEN rows ELSE Append(rows, Row(watched, "sourceApproved", s, 0))
    /\ UNCHANGED <<pending, known, flush, made, lost, watched, begun, seen, recorded, request,
                   handled, faults>>

-----------------------------------------------------------------------------
(* The extension.                                                          *)

\* loadSession: what the app says, or, when it cannot be reached, what was
\* cached.
Current == IF watched = 0 THEN NoSession ELSE [id |-> watched, sites |-> Granted]

Load(k) ==
    /\ known' = k
    /\ \/ k = Current /\ UNCHANGED faults
       \/ k = known /\ Fault

Buffer(kind, site) ==
    /\ made < MaxSignals
    /\ made' = made + 1
    /\ pending' = Append(pending, [id |-> made + 1, kind |-> kind, site |-> site])

\* A content script reports what it sees; without a session, or on a site the
\* session does not cover, the ledger's buffer is left alone.
Observe(s, kind) ==
    /\ s \in permitted
    /\ \E k \in {Current, known} :
          /\ Load(k)
          /\ s \in k.sites
    /\ Buffer(kind, s)
    /\ UNCHANGED <<flush, permitted, lost, app, changes>>

Call(f) == flush' = [flush EXCEPT ![f].pc = "called"]

\* The machine goes idle or is locked: a signal, and then a flush.
Away(f) ==
    /\ flush[f].pc = "idle"
    /\ \E k \in {Current, known} : k.id # 0 /\ Load(k)
    /\ Buffer("away", NoSite)
    /\ Call(f)
    /\ UNCHANGED <<permitted, lost, app, changes>>

\* The heartbeat alarm.
Alarm(f) ==
    /\ flush[f].pc = "idle"
    /\ Call(f)
    /\ UNCHANGED <<pending, known, made, permitted, lost, app, changes, faults>>

\* The person withdraws the site in Chrome; the app hears of it only if a
\* session is known and is still the one that runs.
Withdraw(s) ==
    /\ s \in permitted
    /\ changes < MaxChanges /\ changes' = changes + 1
    /\ permitted' = permitted \ {s}
    /\ \E k \in {Current, known} :
          /\ Load(k)
          /\ grant' = IF k.id # 0 /\ k.id = watched /\ s \in Granted
                        THEN [grant EXCEPT ![s] = "revoked"] ELSE grant
    /\ UNCHANGED <<pending, flush, made, lost, watched, begun, seen, recorded, request, rows, handled>>

FlushLoads(f) ==
    /\ flush[f].pc = "called"
    /\ \E k \in {Current, known} :
          /\ Load(k)
          /\ flush' = [flush EXCEPT ![f] =
                IF k.id = 0 THEN NoFlush
                ELSE [pc |-> "loaded", session |-> k.id, batch |-> <<>>]]
    /\ UNCHANGED <<pending, made, permitted, lost, app, changes>>

\* The buffer is emptied before the send, so that what arrives meanwhile stays.
Take(f) ==
    /\ flush[f].pc = "loaded"
    /\ flush' = [flush EXCEPT ![f] =
          IF pending = <<>> THEN NoFlush
          ELSE [pc |-> "taken", session |-> flush[f].session, batch |-> pending]]
    /\ pending' = <<>>
    /\ UNCHANGED <<known, made, permitted, lost, app, changes, faults>>

\* The route reads the watched session and admits the batch by its token; a
\* refusal, like an app that is not there, throws in the extension.
Post(f) ==
    /\ flush[f].pc = "taken" /\ request[f].pc = "idle"
    /\ IF watched # 0 /\ flush[f].session = watched
         THEN /\ request' = [request EXCEPT ![f] =
                    [pc |-> "admitted", session |-> watched, sites |-> {}, rest |-> flush[f].batch]]
              /\ flush' = [flush EXCEPT ![f].pc = "posted"]
         ELSE /\ flush' = [flush EXCEPT ![f].pc = "failed"]
              /\ UNCHANGED request
    /\ UNCHANGED <<pending, known, made, permitted, lost, watched, begun, grant, seen, recorded,
                   rows, handled, changes, faults>>

Unreachable(f) ==
    /\ flush[f].pc = "taken" /\ Fault
    /\ flush' = [flush EXCEPT ![f].pc = "failed"]
    /\ UNCHANGED <<pending, known, made, permitted, lost, app, changes>>

\* What failed goes back in front of what has arrived since.
MisReturned(f) == flush[f].batch
Returned(f) == flush[f].batch \o pending

PutBack(f) ==
    /\ flush[f].pc = "failed"
    /\ pending' = Returned(f)
    /\ flush' = [flush EXCEPT ![f] = NoFlush]
    /\ UNCHANGED <<known, made, permitted, lost, app, changes, faults>>

\* Chrome ends the worker: its calls are gone, session storage stays, and what
\* the app has already been sent it goes on with.
Killed ==
    /\ \E f \in Flushers : flush[f].pc # "idle"
    /\ Fault
    /\ lost' = lost \cup UNION {Ids(flush[f].batch) : f \in Flushers}
    /\ flush' = [f \in Flushers |-> NoFlush]
    /\ UNCHANGED <<pending, known, made, permitted, app, changes>>

-----------------------------------------------------------------------------
(* The route.                                                              *)

\* The granted sources are read once for the batch.
ReadsSources(f) ==
    /\ request[f].pc = "admitted"
    /\ request' = [request EXCEPT ![f].pc = "appending", ![f].sites = Granted]
    /\ UNCHANGED <<extension, watched, begun, grant, seen, recorded, rows, handled, changes, faults>>

\* A page is visited once in a sitting, and returned to after that.
NavigationKind(page) == IF page \in seen THEN "returnedTo" ELSE "visited"

\* A page's first engagement is a row, and a later one may be: how long it was
\* looked at, and how far past what was recorded, is left out.
Engages(page) == IF page \in recorded THEN BOOLEAN ELSE {TRUE}

\* The transaction asks for the grant again: the list may be old.
MisMayWrite(site) == TRUE
MayWrite(site) == site = NoSite \/ grant[site] = "granted"

\* One signal of the batch: classified at once, then written.
AppendSignal(f) ==
    /\ request[f].pc = "appending" /\ request[f].rest # <<>>
    /\ LET signal == Head(request[f].rest)
           page == <<request[f].session, signal.site>>
           covered == signal.site \in request[f].sites
           navigates == signal.kind = "navigation" /\ covered
           kind == CASE signal.kind = "away" -> "switchedAway"
                     [] signal.kind = "navigation" -> NavigationKind(page)
                     [] OTHER -> "engaged"
       IN  \E engages \in IF signal.kind = "engagement" /\ covered THEN Engages(page)
                                                                  ELSE {FALSE} :
             LET writes == signal.kind = "away" \/ navigates \/ engages IN
             /\ seen' = seen \cup {p \in {page} : navigates}
             /\ recorded' = recorded \cup {p \in {page} : engages}
             /\ \/ /\ request' = [request EXCEPT ![f].rest = Tail(@)]
                   /\ rows' = IF writes /\ MayWrite(signal.site)
                                THEN Append(rows, Row(request[f].session, kind, signal.site,
                                                      signal.id))
                                ELSE rows
                   /\ handled' = handled \cup {signal.id}
                   /\ UNCHANGED <<flush, faults>>
                \/ \* The write throws: the route answers with an error.
                   /\ writes /\ Fault
                   /\ request' = [request EXCEPT ![f] = NoRequest]
                   /\ flush' = [flush EXCEPT ![f].pc = IF @ = "posted" THEN "failed" ELSE @]
                   /\ UNCHANGED <<rows, handled>>
    /\ UNCHANGED <<pending, known, made, permitted, lost, watched, begun, grant, changes>>

\* The answer reaches the flush that waits for it, unless it is lost; the
\* worker that sent the batch may be long gone.
Answer(f) ==
    /\ request[f].pc = "appending" /\ request[f].rest = <<>>
    /\ request' = [request EXCEPT ![f] = NoRequest]
    /\ \/ /\ flush' = [flush EXCEPT ![f] = IF @.pc = "posted" THEN NoFlush ELSE @]
          /\ UNCHANGED faults
       \/ /\ flush[f].pc = "posted" /\ Fault
          /\ flush' = [flush EXCEPT ![f].pc = "failed"]
    /\ UNCHANGED <<pending, known, made, permitted, lost, watched, begun, grant, seen, recorded,
                   rows, handled, changes>>

LedgerNext ==
    \/ SessionStarts \/ EndSession
    \/ \E s \in Sites : Approve(s) \/ Withdraw(s)
    \/ \E s \in Sites, kind \in {"navigation", "engagement"} : Observe(s, kind)
    \/ \E f \in Flushers :
          \/ Away(f) \/ Alarm(f) \/ FlushLoads(f) \/ Take(f)
          \/ Post(f) \/ Unreachable(f) \/ PutBack(f)
          \/ ReadsSources(f) \/ AppendSignal(f) \/ Answer(f)
    \/ Killed

LedgerSpec == LedgerInit /\ [][LedgerNext]_ledgerVars

-----------------------------------------------------------------------------
(* Properties.                                                             *)

\* Buffers, batches, requests and rows hold what the code can put there.
LedgerTypeOK ==
    /\ made \in Nat /\ watched \in Nat /\ begun \in Nat
    /\ pending \in Seq(Signals)
    /\ known \in [id : Nat, sites : SUBSET Sites]
    /\ flush \in [Flushers ->
          [pc : {"idle", "called", "loaded", "taken", "posted", "failed"},
           session : Nat, batch : Seq(Signals)]]
    /\ \A f \in Flushers :
          flush[f].pc \in {"taken", "posted", "failed"} <=> flush[f].batch # <<>>
    /\ request \in [Flushers ->
          [pc : {"idle", "admitted", "appending"}, session : Nat,
           sites : SUBSET Sites, rest : Seq(Signals)]]
    /\ grant \in [Sites -> {"none", "granted", "revoked"}]
    /\ permitted \subseteq Sites /\ seen \cup recorded \subseteq Nat \X (Sites \cup {NoSite})
    /\ rows \in Seq([session : Nat, id : Nat, site : Sites \cup {NoSite},
          kind : {"visited", "returnedTo", "engaged", "switchedAway", "sourceApproved"}])

\* Nothing buffered is dropped (service-worker.js:645, "the one unrecoverable
\* mistake"): a signal waits in the buffer, is in the batch of a flush that
\* still holds it, or the app has dealt with it, whatever outages, refusals and
\* second flushes came between; only a worker killed with a batch in hand loses
\* any.
NothingTakenIsDropped ==
    \A id \in 1 .. made :
        \/ id \in Ids(pending) \/ id \in handled \/ id \in lost
        \/ \E f \in Flushers : id \in Ids(flush[f].batch)

\* A row of a site is written only while the person's grant of it stands, though
\* the batch was matched against a list read earlier and the grant may have been
\* withdrawn since.
AppendsOnlyWhatIsGranted ==
    [][\A i \in Len(rows) + 1 .. Len(rows') :
          rows'[i].site # NoSite => grant'[rows'[i].site] = "granted"]_ledgerVars
=============================================================================
