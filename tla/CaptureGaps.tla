----------------------------- MODULE CaptureGaps -----------------------------
(***************************************************************************)
(* How the app knows that it was not watching.  The extension's worker     *)
(* cannot report its own death and a sleeping machine reports nothing, so  *)
(* the app keeps the live session in memory (capture-session.ts) and       *)
(* sweeps it on a timer (gap-watch.ts, gap-sweeper.ts): a heartbeat that   *)
(* is overdue is one kind of gap, a tick that is itself late (suspension.ts)*)
(* the other.  A gap is a row of the session's append-only ledger.         *)
(*                                                                         *)
(* The awaits inside a sweep, and inside ending a session, take no time of *)
(* the model's clock, but other requests run between them.                 *)
(***************************************************************************)
EXTENDS Integers

CONSTANTS
    Grace,        \* HEARTBEAT_GRACE_MS
    Interval,     \* GAP_SWEEP_INTERVAL_MS
    Tolerance,    \* SUSPENSION_TOLERANCE_MS
    Naps,         \* how long the machine may sleep at a stretch
    MaxTime,      \* bound on the clock
    MaxSessions   \* bound on the sessions started

ASSUME GapConstants ==
    /\ Grace \in Nat \ {0} /\ Interval \in Nat \ {0} /\ Tolerance \in Nat
    /\ MaxTime \in Nat /\ MaxSessions \in Nat /\ Naps \subseteq Nat \ {0}

VARIABLES
    now,        \* the wall clock
    started,    \* how many sessions have been started
    live,       \* the session the store watches, or NoLive
    ending,     \* the session an endSession call is in the middle of ending, or 0
    armed,      \* whether the sweep's timer is set
    previous,   \* when the detector last saw a tick, or Never
    due,        \* when the timer is next served
    sweep,      \* the session a sweep is half-way through, or 0
    gaps,       \* the captureGap rows of the ledger
    failedAt    \* when a write of a gap last failed in this session, or Never

gapsVars == <<now, started, live, ending, armed, previous, due, sweep, gaps, failedAt>>
watch == <<armed, previous, due>>

Never == -1
NoLive == [session |-> 0]

Later(a, b) == IF a >= b THEN a ELSE b

Gap(session, reason, from, to) ==
    [session |-> session, reason |-> reason,
     start |-> from - live.startedAt, end |-> to - live.startedAt]

GapsInit ==
    /\ now = 0 /\ started = 0 /\ live = NoLive /\ ending = 0
    /\ armed = FALSE /\ previous = Never /\ due = 0
    /\ sweep = 0 /\ gaps = {} /\ failedAt = Never

-----------------------------------------------------------------------------
(* The session and what is heard of it.                                    *)

\* The store is rewritten, and the timer is set only if none is running.  A
\* running session refuses a second; one whose row has ended does not.
StartSession ==
    /\ started < MaxSessions
    /\ live = NoLive \/ live.session = ending
    /\ started' = started + 1
    /\ live' = [session |-> started + 1, startedAt |-> now, lastHeartbeat |-> now,
                gapOpened |-> Never, accountedThrough |-> now]
    /\ armed' = TRUE
    /\ IF armed THEN UNCHANGED <<previous, due>>
                ELSE previous' = Never /\ due' = now + Interval
    /\ failedAt' = Never
    /\ UNCHANGED <<now, ending, sweep, gaps>>

\* The row is ended first and the capture after an await, which is for the
\* session the call named and no other.
EndRow ==
    /\ live # NoLive /\ ending = 0
    /\ ending' = live.session
    /\ UNCHANGED <<now, started, live, armed, previous, due, sweep, gaps, failedAt>>

EndCapture ==
    /\ ending # 0
    /\ ending' = 0
    /\ IF live # NoLive /\ live.session = ending
         THEN live' = NoLive /\ armed' = FALSE /\ previous' = Never
         ELSE UNCHANGED <<live, armed, previous>>
    /\ UNCHANGED <<now, started, due, sweep, gaps, failedAt>>

\* A heartbeat, or a batch of events.
MisHeard == [live EXCEPT !.lastHeartbeat = now]
Heard == [live EXCEPT !.lastHeartbeat = now, !.gapOpened = Never]

Heartbeat ==
    /\ live # NoLive
    /\ live' = Heard
    /\ UNCHANGED <<now, started, ending, armed, previous, due, sweep, gaps, failedAt>>

-----------------------------------------------------------------------------
(* The sweep.                                                              *)

\* A tick more than Tolerance late is proof that nothing was running.
Suspended == previous # Never /\ now > previous /\ now - previous - Interval >= Tolerance

\* noteSuspension: from the last tick, but not before what was heard or told.
SleptSince == Later(previous, Later(live.lastHeartbeat, live.accountedThrough))
Noted == [live EXCEPT !.accountedThrough = now, !.gapOpened = Never]

\* detectGap: silence is measured from what was last heard or told, and told
\* once.
SilentSince == Later(live.lastHeartbeat, live.accountedThrough)
MisSilent == live # NoLive /\ now - SilentSince >= Grace
Silent == live # NoLive /\ live.gapOpened = Never /\ now - SilentSince >= Grace

\* One tick of the timer: the detector is sampled, then the sweep reads the
\* live session.
Sample ==
    /\ armed /\ now >= due /\ sweep = 0
    /\ previous' = now /\ due' = now + Interval

Tick ==
    /\ Sample
    /\ ~(live # NoLive /\ Suspended /\ SleptSince < now)
    /\ sweep' = live.session
    /\ UNCHANGED <<now, started, live, ending, armed, gaps, failedAt>>

LateTick ==
    /\ Sample
    /\ live # NoLive /\ Suspended /\ SleptSince < now
    /\ live' = Noted
    /\ \/ /\ gaps' = gaps \cup {Gap(live.session, "machine_slept", SleptSince, now)}
          /\ sweep' = live.session
          /\ UNCHANGED failedAt
       \/ \* The write is refused and the sweep is over.
          /\ failedAt' = now /\ sweep' = 0
          /\ UNCHANGED gaps
    /\ UNCHANGED <<now, started, ending, armed>>

\* The second half of a sweep, in which the store is asked again and the row
\* goes to the session the sweep began with.
FindsSilence ==
    /\ sweep # 0 /\ Silent
    /\ live' = [live EXCEPT !.gapOpened = SilentSince]
    /\ sweep' = 0
    /\ \/ /\ gaps' = gaps \cup {Gap(sweep, "service_worker_terminated", SilentSince, now)}
          /\ UNCHANGED failedAt
       \/ /\ failedAt' = now
          /\ UNCHANGED gaps
    /\ UNCHANGED <<now, started, ending, armed, previous, due>>

FindsNothing ==
    /\ sweep # 0 /\ ~Silent
    /\ sweep' = 0
    /\ UNCHANGED <<now, started, live, ending, armed, previous, due, gaps, failedAt>>

-----------------------------------------------------------------------------
(* Time, and the machine under it.                                         *)

\* While the process runs its timer is served on time.
Pass ==
    /\ now < MaxTime /\ sweep = 0 /\ ending = 0
    /\ armed => now < due
    /\ now' = now + 1
    /\ UNCHANGED <<started, live, ending, armed, previous, due, sweep, gaps, failedAt>>

\* Nothing runs.  Whether the timer is overdue on waking or has stood still
\* depends on the clock the platform counts it by.
Sleep ==
    /\ sweep = 0 /\ ending = 0
    /\ \E n \in Naps :
          /\ now + n <= MaxTime
          /\ now' = now + n
          /\ due' \in {due, due + n}
    /\ UNCHANGED <<started, live, ending, armed, previous, sweep, gaps, failedAt>>

\* The store, the timer and whatever was in flight die with the process.
Restart ==
    /\ live' = NoLive /\ ending' = 0 /\ armed' = FALSE /\ previous' = Never /\ sweep' = 0
    /\ UNCHANGED <<now, started, due, gaps, failedAt>>

GapsNext ==
    \/ StartSession \/ EndRow \/ EndCapture \/ Heartbeat
    \/ Tick \/ LateTick \/ FindsSilence \/ FindsNothing
    \/ Pass \/ Sleep \/ Restart

GapsSpec == GapsInit /\ [][GapsNext]_gapsVars

-----------------------------------------------------------------------------
(* Properties.                                                             *)

\* The ledger never says of one minute twice that nobody was watching
\* (capture-session.ts:50, "reported a second time"), whichever of the two
\* signals spoke, and never of a minute in which the extension was heard
\* (gap clamped so that "it never contradicts an event").
GapsTellEachSilenceOnce ==
    /\ \A g, h \in gaps :
          g # h /\ g.session = h.session => g.end <= h.start \/ h.end <= g.start
    /\ \A g \in gaps :
          g.session = live.session =>
              \/ g.end + live.startedAt <= live.lastHeartbeat
              \/ live.lastHeartbeat <= g.start + live.startedAt

\* Once a sweep is over, a silence that had lasted the grace period by then is
\* on the record, if no write of it was refused.
SilenceIsOnTheRecord ==
    /\ live # NoLive /\ sweep = 0
    /\ previous - live.lastHeartbeat >= Grace
    /\ failedAt < live.lastHeartbeat \/ failedAt = Never
    => \E g \in gaps :
          g.session = live.session /\ g.end + live.startedAt > live.lastHeartbeat

=============================================================================
