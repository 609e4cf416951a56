--------------------------- MODULE CaptureProofs ---------------------------
(***************************************************************************)
(* That what is seen while a session is live is on record: the silences,   *)
(* told once each, and the signals, none of them dropped.                  *)
(***************************************************************************)
EXTENDS CaptureGaps, CaptureLedger, SequenceTheorems, TLAPS

(***************************************************************************)
(* The ledger tells each silence once, and tells it, for every grace       *)
(* period, interval and tolerance and however long the machine sleeps.     *)
(***************************************************************************)

Watching == live # NoLive

\* Where a row of the live session begins and ends on the clock.
From(g) == g.start + live.startedAt
To(g) == g.end + live.startedAt
Own == {g \in gaps : g.session = live.session}

\* The silence since the extension was last heard is on the record, or a write
\* of it was refused.
Told ==
    \/ \E g \in Own : To(g) > live.lastHeartbeat
    \/ failedAt # Never /\ failedAt >= live.lastHeartbeat

Types ==
    /\ now \in Nat /\ started \in Nat /\ ending \in Nat /\ sweep \in Nat
    /\ live \in [session : Nat \ {0}, startedAt : Nat, lastHeartbeat : Nat,
                 gapOpened : Nat \cup {Never}, accountedThrough : Nat] \cup {NoLive}
    /\ previous \in Nat \cup {Never}
    /\ failedAt \in Nat \cup {Never}
    /\ \A g \in gaps : g.session \in Nat \ {0} /\ g.start \in Int /\ g.end \in Int

\* Nothing the store remembers lies in the future, nor is a row of a session
\* that has not begun.
Past ==
    /\ previous <= now
    /\ \A g \in gaps : g.session <= started
    /\ Watching =>
          /\ live.session <= started
          /\ live.startedAt <= live.lastHeartbeat
          /\ live.lastHeartbeat <= now /\ live.accountedThrough <= now
          /\ \A g \in Own : To(g) <= now

\* What has been told lies before the point the next row would begin at.
Horizon ==
    Watching => \A g \in Own :
        /\ To(g) <= Later(previous, Later(live.lastHeartbeat, live.accountedThrough))
        /\ live.gapOpened = Never => To(g) <= SilentSince

\* A sweep is of the live session and of this moment, or the session is new.
SweepIsNow ==
    sweep # 0 /\ Watching => (sweep = live.session /\ previous = now) \/ live.startedAt = now

\* An open or accounted silence is a told one.
OpenIsTold ==
    Watching /\ (live.gapOpened # Never \/ live.accountedThrough > live.lastHeartbeat) => Told

GapInv ==
    /\ Types /\ Past /\ Horizon /\ SweepIsNow /\ OpenIsTold
    /\ GapsTellEachSilenceOnce /\ SilenceIsOnTheRecord

\* The invariant holds before any session has been started.
LEMMA GapInvInit == GapsInit => GapInv
  BY GapConstants DEF GapsInit, GapInv, Types, Past, Horizon, SweepIsNow, OpenIsTold, Watching,
     GapsTellEachSilenceOnce, SilenceIsOnTheRecord, Never, NoLive

\* No step of the app, the extension or the machine breaks it.
LEMMA GapInvStep == GapInv /\ [GapsNext]_gapsVars => GapInv'
<1> SUFFICES ASSUME GapInv, [GapsNext]_gapsVars PROVE GapInv'
  OBVIOUS
<1> USE GapConstants DEF GapInv, Types, Past, Horizon, SweepIsNow, OpenIsTold, Watching, Told,
        From, To, Own, GapsTellEachSilenceOnce, SilenceIsOnTheRecord, Never, NoLive, Later, SilentSince
<1>1. CASE StartSession
  BY <1>1 DEF StartSession
<1>2. CASE EndRow
  BY <1>2 DEF EndRow
<1>3. CASE EndCapture
  BY <1>3 DEF EndCapture
<1>4. CASE Heartbeat
  <2>0. /\ live'.session = live.session /\ live'.startedAt = live.startedAt
        /\ live'.lastHeartbeat = now /\ live'.gapOpened = Never
        /\ live'.accountedThrough = live.accountedThrough
        /\ live' \in [session : Nat \ {0}, startedAt : Nat, lastHeartbeat : Nat,
                      gapOpened : Nat \cup {Never}, accountedThrough : Nat]
        /\ UNCHANGED <<now, started, ending, previous, sweep, gaps, failedAt>>
    BY <1>4 DEF Heartbeat, Heard
  <2>1. Types' /\ Past' /\ Horizon' /\ SweepIsNow' /\ OpenIsTold'
    BY <2>0
  <2>2. GapsTellEachSilenceOnce'
    BY <2>0
  <2>3. SilenceIsOnTheRecord'
    BY <2>0
  <2> QED
    BY <2>1, <2>2, <2>3
<1>5. CASE Tick
  <2>1. Types'
    BY <1>5 DEF Tick, Sample
  <2>2. Past'
    BY <1>5 DEF Tick, Sample
  <2>3. Horizon'
    BY <1>5 DEF Tick, Sample
  <2>4. SweepIsNow'
    BY <1>5 DEF Tick, Sample
  <2>5. OpenIsTold'
    BY <1>5 DEF Tick, Sample
  <2>6. GapsTellEachSilenceOnce'
    BY <1>5 DEF Tick, Sample
  <2>7. SilenceIsOnTheRecord'
    BY <1>5 DEF Tick, Sample
  <2> QED
    BY <2>1, <2>2, <2>3, <2>4, <2>5, <2>6, <2>7
<1>6. CASE LateTick
  <2> DEFINE row == Gap(live.session, "machine_slept", SleptSince, now)
  <2>0. /\ live' = [live EXCEPT !.accountedThrough = now, !.gapOpened = Never]
        /\ live'.session = live.session /\ live'.startedAt = live.startedAt
        /\ live'.lastHeartbeat = live.lastHeartbeat
        /\ live'.accountedThrough = now /\ live'.gapOpened = Never
        /\ live' \in [session : Nat \ {0}, startedAt : Nat, lastHeartbeat : Nat,
                      gapOpened : Nat \cup {Never}, accountedThrough : Nat]
    BY <1>6 DEF LateTick, Sample, Noted
  <2>a. /\ SleptSince \in Nat /\ SleptSince < now
        /\ row.session = live.session /\ row.reason = "machine_slept"
        /\ row.start = SleptSince - live.startedAt /\ row.end = now - live.startedAt
    BY <1>6 DEF LateTick, Sample, SleptSince, Gap
  <2>b. /\ previous' = now /\ now' = now /\ started' = started /\ ending' = ending
        /\ \/ gaps' = gaps \cup {row} /\ sweep' = live.session /\ failedAt' = failedAt
           \/ gaps' = gaps /\ sweep' = 0 /\ failedAt' = now
    BY <1>6 DEF LateTick, Sample
  <2> HIDE DEF row
  <2>1. Types'
    BY <2>0, <2>a, <2>b
  <2>2. Past'
    BY <2>0, <2>a, <2>b
  <2>3. Horizon'
    BY <2>0, <2>a, <2>b
  <2>4. SweepIsNow'
    BY <2>0, <2>a, <2>b
  <2>5. Told'
    <3>1. CASE gaps' = gaps /\ failedAt' = now
      BY <2>0, <2>b, <3>1
    <3>2. CASE gaps' = gaps \cup {row}
      <4>1. row \in gaps' /\ row.session = live'.session
        BY <2>0, <2>a, <3>2
      <4>2. row.end + live'.startedAt > live'.lastHeartbeat
        BY <2>0, <2>a DEF SleptSince
      <4> QED
        BY <4>1, <4>2
    <3> QED
      BY <2>b, <3>1, <3>2
  <2>6. GapsTellEachSilenceOnce'
    BY <2>0, <2>a, <2>b DEF SleptSince
  <2>7. SilenceIsOnTheRecord'
    BY <2>0, <2>b, <2>5
  <2> QED
    BY <2>1, <2>2, <2>3, <2>4, <2>5, <2>6, <2>7
<1>7. CASE FindsSilence
  <2> DEFINE row == Gap(sweep, "service_worker_terminated", SilentSince, now)
  <2>0. /\ live'.session = live.session /\ live'.startedAt = live.startedAt
        /\ live'.lastHeartbeat = live.lastHeartbeat
        /\ live'.accountedThrough = live.accountedThrough /\ live'.gapOpened = SilentSince
        /\ live' \in [session : Nat \ {0}, startedAt : Nat, lastHeartbeat : Nat,
                      gapOpened : Nat \cup {Never}, accountedThrough : Nat]
    BY <1>7 DEF FindsSilence, Silent
  <2>a. /\ SilentSince \in Nat /\ SilentSince < now
        /\ live.lastHeartbeat <= SilentSince /\ live.accountedThrough <= SilentSince
        /\ live.gapOpened = Never /\ sweep = live.session
        /\ row.session = sweep /\ row.reason = "service_worker_terminated"
        /\ row.start = SilentSince - live.startedAt /\ row.end = now - live.startedAt
    BY <1>7 DEF FindsSilence, Silent, Gap
  <2>b. /\ previous' = previous /\ now' = now /\ started' = started /\ ending' = ending
        /\ sweep' = 0
        /\ \/ gaps' = gaps \cup {row} /\ failedAt' = failedAt
           \/ gaps' = gaps /\ failedAt' = now
    BY <1>7 DEF FindsSilence
  <2>c. previous = now
    BY <1>7, <2>a DEF FindsSilence, Silent
  <2> HIDE DEF row
  <2>1. Types'
    BY <2>0, <2>a, <2>b
  <2>2. Past'
    BY <2>0, <2>a, <2>b
  <2>3. Horizon'
    BY <2>0, <2>a, <2>b, <2>c
  <2>4. SweepIsNow'
    BY <2>0, <2>b
  <2>5. Told'
    <3>1. CASE gaps' = gaps /\ failedAt' = now
      BY <2>0, <2>b, <3>1
    <3>2. CASE gaps' = gaps \cup {row}
      <4>1. row \in gaps' /\ row.session = live'.session
        BY <2>0, <2>a, <3>2
      <4>2. row.end + live'.startedAt > live'.lastHeartbeat
        BY <2>0, <2>a
      <4> QED
        BY <4>1, <4>2
    <3> QED
      BY <2>b, <3>1, <3>2
  <2>6. GapsTellEachSilenceOnce'
    BY <2>0, <2>a, <2>b
  <2>7. SilenceIsOnTheRecord'
    BY <2>0, <2>b, <2>5
  <2> QED
    BY <2>1, <2>2, <2>3, <2>4, <2>5, <2>6, <2>7
<1>8. CASE FindsNothing
  BY <1>8 DEF FindsNothing, Silent
<1>9. CASE Pass
  BY <1>9 DEF Pass
<1>10. CASE Sleep
  BY <1>10 DEF Sleep
<1>11. CASE Restart
  BY <1>11 DEF Restart
<1>12. CASE UNCHANGED gapsVars
  BY <1>12 DEF gapsVars
<1> QED
  BY <1>1, <1>2, <1>3, <1>4, <1>5, <1>6, <1>7, <1>8, <1>9, <1>10, <1>11, <1>12 DEF GapsNext

\* The strengthening is an invariant: rows lie in the past and behind the point
\* the next one begins at, a sweep is of the session it began with, and a
\* silence the store counts as told is on the record.
THEOREM GapInvariant == GapsSpec => []GapInv
  BY GapInvInit, GapInvStep, PTL DEF GapsSpec

\* For every grace period, interval and tolerance, no two rows of a session
\* overlap and none covers the moment the extension was last heard.
THEOREM SilencesAreToldOnce == GapsSpec => []GapsTellEachSilenceOnce
<1>1. GapInv => GapsTellEachSilenceOnce
  BY DEF GapInv
<1> QED
  BY <1>1, GapInvariant, PTL

\* A silence of the grace period that a finished sweep has seen is on the
\* record, unless a write of it was refused.
THEOREM SilenceIsRecorded == GapsSpec => []SilenceIsOnTheRecord
<1>1. GapInv => SilenceIsOnTheRecord
  BY DEF GapInv
<1> QED
  BY <1>1, GapInvariant, PTL

-----------------------------------------------------------------------------
(***************************************************************************)
(* Nothing buffered is dropped and nothing ungranted is written, for any   *)
(* sites, any number of flushes at once, sessions, grants and faults.      *)
(*                                                                         *)
(* A signal leaves a flush when its request has been answered, so what has *)
(* to be carried is that a flush that waits for an answer waits for the    *)
(* request that has its batch: what is not yet appended is still to come.  *)
(***************************************************************************)

\* A flush that waits for an answer has a request, which has dealt with the
\* signals of its batch or will.
Awaited ==
    \A f \in Flushers : flush[f].pc = "posted" =>
        /\ request[f].pc # "idle"
        /\ Ids(flush[f].batch) \subseteq Ids(request[f].rest) \cup handled

LedgerInv == LedgerTypeOK /\ NothingTakenIsDropped /\ Awaited

-----------------------------------------------------------------------------
(* The signals in a sequence of signals.                                   *)

\* None in the empty one.
LEMMA IdsEmpty == Ids(<<>>) = {}
  BY DEF Ids

\* A signal added at the end is one more.
LEMMA IdsAppend ==
    ASSUME NEW s \in Seq(Signals), NEW e \in Signals
    PROVE  Append(s, e) \in Seq(Signals) /\ Ids(Append(s, e)) = Ids(s) \cup {e.id}
  <1>1. /\ Append(s, e) \in Seq(Signals) /\ Len(s) \in Nat
        /\ Len(Append(s, e)) = Len(s) + 1 /\ Append(s, e)[Len(s) + 1] = e
        /\ \A i \in 1 .. Len(s) : Append(s, e)[i] = s[i]
    BY AppendProperties, LenProperties
  <1> DEFINE t == Append(s, e)
  <1> HIDE DEF t
  <1>2. ASSUME NEW x \in Ids(t) PROVE x \in Ids(s) \cup {e.id}
    <2>1. PICK i \in 1 .. Len(t) : x = t[i].id
      BY <1>2 DEF Ids
    <2> QED BY <1>1, <2>1 DEF Ids, t
  <1>3. ASSUME NEW x \in Ids(s) PROVE x \in Ids(t)
    <2>1. PICK i \in 1 .. Len(s) : x = s[i].id
      BY <1>3 DEF Ids
    <2>2. i \in 1 .. Len(t) /\ t[i] = s[i]
      BY <1>1 DEF t
    <2> QED BY <2>1, <2>2 DEF Ids
  <1>4. e.id \in Ids(t)
    <2>1. Len(t) \in 1 .. Len(t) /\ t[Len(t)] = e
      BY <1>1 DEF t
    <2> QED BY <2>1 DEF Ids
  <1> QED BY <1>1, <1>2, <1>3, <1>4 DEF t

\* Putting one in front of another keeps the signals of both.
LEMMA IdsConcat ==
    ASSUME NEW s \in Seq(Signals), NEW t \in Seq(Signals)
    PROVE  s \o t \in Seq(Signals) /\ Ids(s \o t) = Ids(s) \cup Ids(t)
  <1>1. /\ s \o t \in Seq(Signals) /\ Len(s) \in Nat /\ Len(t) \in Nat
        /\ Len(s \o t) = Len(s) + Len(t)
        /\ \A i \in 1 .. Len(s) + Len(t) :
              (s \o t)[i] = IF i <= Len(s) THEN s[i] ELSE t[i - Len(s)]
    BY ConcatProperties, LenProperties
  <1> DEFINE u == s \o t
  <1> HIDE DEF u
  <1>2. ASSUME NEW x \in Ids(u) PROVE x \in Ids(s) \cup Ids(t)
    <2>1. PICK i \in 1 .. Len(u) : x = u[i].id
      BY <1>2 DEF Ids
    <2>2. CASE i <= Len(s)
      <3>1. i \in 1 .. Len(s) /\ u[i] = s[i]
        BY <1>1, <2>2 DEF u
      <3> QED BY <2>1, <3>1 DEF Ids
    <2>3. CASE i > Len(s)
      <3>1. i - Len(s) \in 1 .. Len(t) /\ u[i] = t[i - Len(s)]
        BY <1>1, <2>3 DEF u
      <3> QED BY <2>1, <3>1 DEF Ids
    <2> QED BY <1>1, <2>2, <2>3
  <1>3. ASSUME NEW x \in Ids(s) PROVE x \in Ids(u)
    <2>1. PICK i \in 1 .. Len(s) : x = s[i].id
      BY <1>3 DEF Ids
    <2>2. i \in 1 .. Len(u) /\ u[i] = s[i]
      BY <1>1 DEF u
    <2> QED BY <2>1, <2>2 DEF Ids
  <1>4. ASSUME NEW x \in Ids(t) PROVE x \in Ids(u)
    <2>1. PICK i \in 1 .. Len(t) : x = t[i].id
      BY <1>4 DEF Ids
    <2>2. i + Len(s) \in 1 .. Len(u) /\ u[i + Len(s)] = t[i]
      BY <1>1 DEF u
    <2> QED BY <2>1, <2>2 DEF Ids
  <1> QED BY <1>1, <1>2, <1>3, <1>4 DEF u

\* What is not the first is the rest.
LEMMA IdsTail ==
    ASSUME NEW s \in Seq(Signals), s # <<>>
    PROVE  /\ Head(s) \in Signals /\ Tail(s) \in Seq(Signals)
           /\ Ids(s) \subseteq {Head(s).id} \cup Ids(Tail(s))
  <1>1. /\ Head(s) \in Signals /\ Tail(s) \in Seq(Signals) /\ Len(s) \in Nat
        /\ Len(Tail(s)) = Len(s) - 1 /\ Head(s) = s[1]
        /\ \A i \in 1 .. Len(Tail(s)) : Tail(s)[i] = s[i + 1]
    BY HeadTailProperties, LenProperties
  <1> DEFINE t == Tail(s)
  <1> HIDE DEF t
  <1>2. ASSUME NEW x \in Ids(s) PROVE x = Head(s).id \/ x \in Ids(t)
    <2>1. PICK i \in 1 .. Len(s) : x = s[i].id
      BY <1>2 DEF Ids
    <2>2. CASE i = 1
      BY <1>1, <2>1, <2>2
    <2>3. CASE i # 1
      <3>1. i - 1 \in 1 .. Len(t) /\ t[i - 1] = s[i]
        BY <1>1, <2>3 DEF t
      <3> QED BY <2>1, <3>1 DEF Ids
    <2> QED BY <2>2, <2>3
  <1> QED BY <1>1, <1>2 DEF t

-----------------------------------------------------------------------------
(* Where a signal is.                                                      *)

Somewhere(id) ==
    \/ id \in Ids(pending) \/ id \in handled \/ id \in lost
    \/ \E f \in Flushers : id \in Ids(flush[f].batch)

LEMMA NothingIsDropped ==
    NothingTakenIsDropped <=> \A id \in 1 .. made : Somewhere(id)
  BY DEF NothingTakenIsDropped, Somewhere

\* A flush that is not sending holds nothing.
LEMMA EmptyHanded ==
    ASSUME LedgerTypeOK, NEW f \in Flushers, flush[f].pc \in {"idle", "called", "loaded"}
    PROVE  flush[f].batch = <<>> /\ Ids(flush[f].batch) = {}
  BY IdsEmpty DEF LedgerTypeOK

\* One flush moves, and the others stay where they are.
LEMMA FlushMoves ==
    ASSUME LedgerTypeOK, NEW f \in Flushers,
           NEW pc \in {"idle", "called", "loaded", "taken", "posted", "failed"},
           NEW session \in Nat, NEW batch \in Seq(Signals),
           pc \in {"taken", "posted", "failed"} <=> batch # <<>>,
           flush' = [flush EXCEPT ![f] = [pc |-> pc, session |-> session, batch |-> batch]]
    PROVE  /\ flush' \in [Flushers ->
                [pc : {"idle", "called", "loaded", "taken", "posted", "failed"},
                 session : Nat, batch : Seq(Signals)]]
           /\ \A g \in Flushers :
                flush'[g].pc \in {"taken", "posted", "failed"} <=> flush'[g].batch # <<>>
           /\ flush'[f].pc = pc /\ flush'[f].batch = batch
           /\ \A g \in Flushers \ {f} : flush'[g] = flush[g]
  <1>1. /\ flush'[f] = [pc |-> pc, session |-> session, batch |-> batch]
        /\ \A g \in Flushers \ {f} : flush'[g] = flush[g]
        /\ flush' = [g \in Flushers |-> flush'[g]]
    <2>1. DOMAIN flush = Flushers
      BY DEF LedgerTypeOK
    <2> QED BY <2>1
  <1>2. \A g \in Flushers :
          /\ flush'[g] \in [pc : {"idle", "called", "loaded", "taken", "posted", "failed"},
                            session : Nat, batch : Seq(Signals)]
          /\ flush'[g].pc \in {"taken", "posted", "failed"} <=> flush'[g].batch # <<>>
    BY <1>1 DEF LedgerTypeOK
  <1> QED BY <1>1, <1>2

\* A call of flush as the code can have it: with a batch when it is sending one.
Flushes ==
    {v \in [pc : {"idle", "called", "loaded", "taken", "posted", "failed"},
            session : Nat, batch : Seq(Signals)] :
        v.pc \in {"taken", "posted", "failed"} <=> v.batch # <<>>}

LEMMA FlushBecomes ==
    ASSUME LedgerTypeOK, NEW f \in Flushers, NEW v \in Flushes,
           flush' = [flush EXCEPT ![f] = v]
    PROVE  /\ flush' \in [Flushers ->
                [pc : {"idle", "called", "loaded", "taken", "posted", "failed"},
                 session : Nat, batch : Seq(Signals)]]
           /\ \A g \in Flushers :
                flush'[g].pc \in {"taken", "posted", "failed"} <=> flush'[g].batch # <<>>
           /\ flush'[f] = v
           /\ \A g \in Flushers \ {f} : flush'[g] = flush[g]
  <1>1. /\ flush'[f] = v
        /\ \A g \in Flushers \ {f} : flush'[g] = flush[g]
        /\ flush' = [g \in Flushers |-> flush'[g]]
    <2>1. DOMAIN flush = Flushers
      BY DEF LedgerTypeOK
    <2> QED BY <2>1
  <1>2. \A g \in Flushers :
          /\ flush'[g] \in [pc : {"idle", "called", "loaded", "taken", "posted", "failed"},
                            session : Nat, batch : Seq(Signals)]
          /\ flush'[g].pc \in {"taken", "posted", "failed"} <=> flush'[g].batch # <<>>
    BY <1>1 DEF LedgerTypeOK, Flushes
  <1> QED BY <1>1, <1>2

\* A flush that only gets on with its work keeps its session and its batch.
LEMMA FlushGetsOn ==
    ASSUME LedgerTypeOK, NEW f \in Flushers, NEW pc, flush' = [flush EXCEPT ![f].pc = pc]
    PROVE  flush' = [flush EXCEPT ![f] =
              [pc |-> pc, session |-> flush[f].session, batch |-> flush[f].batch]]
  <1>1. [flush[f] EXCEPT !.pc = pc]
          = [pc |-> pc, session |-> flush[f].session, batch |-> flush[f].batch]
    <2>1. flush[f] \in [pc : {"idle", "called", "loaded", "taken", "posted", "failed"},
                       session : Nat, batch : Seq(Signals)]
      BY DEF LedgerTypeOK
    <2>2. flush[f] = [pc |-> flush[f].pc, session |-> flush[f].session, batch |-> flush[f].batch]
      BY <2>1
    <2> QED BY <2>2
  <1> QED BY <1>1

-----------------------------------------------------------------------------
(* The steps.                                                              *)

\* At first there is nothing.
LEMMA LedgerInvInit == LedgerInit => LedgerInv
  <1> SUFFICES ASSUME LedgerInit PROVE LedgerInv
    OBVIOUS
  <1>1. LedgerTypeOK
    BY DEF LedgerInit, LedgerTypeOK, NoSession, NoFlush, NoRequest, Granted
  <1>2. NothingTakenIsDropped
    BY DEF LedgerInit, NothingTakenIsDropped
  <1>3. Awaited
    BY DEF LedgerInit, Awaited, NoFlush
  <1> QED BY <1>1, <1>2, <1>3 DEF LedgerInv

\* Sessions and grants come and go without touching a signal.
LEMMA SessionsKeep ==
    ASSUME LedgerInv, SessionStarts \/ EndSession \/ \E s \in Sites : Approve(s) \/ Withdraw(s)
    PROVE  LedgerInv'
  <1>1. UNCHANGED <<pending, flush, made, request, handled, lost>>
    BY DEF SessionStarts, EndSession, Approve, Withdraw, extension
  <1>2. LedgerTypeOK'
    <2>1. CASE SessionStarts \/ EndSession
      BY <2>1 DEF SessionStarts, EndSession, extension, LedgerInv, LedgerTypeOK
    <2>2. CASE \E s \in Sites : Approve(s)
      <3>1. PICK s \in Sites : Approve(s)
        BY <2>2
      <3>2. Row(watched, "sourceApproved", s, 0) \in
              [session : Nat, id : Nat, site : Sites \cup {NoSite},
               kind : {"visited", "returnedTo", "engaged", "switchedAway", "sourceApproved"}]
        BY DEF Row, LedgerInv, LedgerTypeOK
      <3>3. rows' \in Seq([session : Nat, id : Nat, site : Sites \cup {NoSite},
               kind : {"visited", "returnedTo", "engaged", "switchedAway", "sourceApproved"}])
        BY <3>1, <3>2, AppendProperties DEF Approve, LedgerInv, LedgerTypeOK
      <3> QED BY <3>1, <3>3 DEF Approve, LedgerInv, LedgerTypeOK
    <2>3. CASE \E s \in Sites : Withdraw(s)
      BY <2>3 DEF Withdraw, Load, Current, NoSession, Granted, LedgerInv, LedgerTypeOK
    <2> QED BY <2>1, <2>2, <2>3
  <1>3. NothingTakenIsDropped'
    BY <1>1 DEF LedgerInv, NothingTakenIsDropped
  <1>4. Awaited'
    BY <1>1 DEF LedgerInv, Awaited
  <1> QED BY <1>2, <1>3, <1>4 DEF LedgerInv

\* What is known of a session is what the app says or what was known.
LEMMA LoadKeepsKnown ==
    ASSUME LedgerTypeOK, NEW k \in {Current, known}, Load(k)
    PROVE  known' \in [id : Nat, sites : SUBSET Sites]
  BY DEF Load, Current, NoSession, Granted, LedgerTypeOK

\* A signal is buffered behind those that wait.
LEMMA BufferKeeps ==
    ASSUME LedgerInv, NEW kind \in Kinds, NEW site \in Sites \cup {NoSite},
           Buffer(kind, site), UNCHANGED <<handled, lost>>,
           \A f \in Flushers : flush'[f].batch = flush[f].batch
    PROVE  /\ made' \in Nat /\ pending' \in Seq(Signals)
           /\ NothingTakenIsDropped'
  <1> DEFINE e == [id |-> made + 1, kind |-> kind, site |-> site]
  <1>1. e \in Signals /\ e.id = made + 1 /\ made \in Nat
    BY DEF Signals, LedgerInv, LedgerTypeOK
  <1>2. made' = made + 1 /\ pending' = Append(pending, e)
    BY DEF Buffer
  <1> HIDE DEF e
  <1>3. pending' \in Seq(Signals) /\ Ids(pending') = Ids(pending) \cup {made + 1}
    BY <1>1, <1>2, IdsAppend DEF LedgerInv, LedgerTypeOK
  <1>4. \A id \in 1 .. made' : id \in 1 .. made \/ id = made + 1
    BY <1>1, <1>2
  <1>5. \A id \in 1 .. made' : Somewhere(id)'
    BY <1>3, <1>4, NothingIsDropped DEF LedgerInv, Somewhere
  <1>6. NothingTakenIsDropped'
    BY <1>5 DEF NothingTakenIsDropped, Somewhere
  <1> QED BY <1>1, <1>2, <1>3, <1>6

LEMMA ObserveKeeps ==
    ASSUME LedgerInv, NEW s \in Sites, NEW kind \in {"navigation", "engagement"},
           Observe(s, kind)
    PROVE  LedgerInv'
  <1>1. PICK k \in {Current, known} : Load(k)
    BY DEF Observe
  <1>2. /\ Buffer(kind, s)
        /\ UNCHANGED <<flush, permitted, lost, app, changes>>
    BY DEF Observe
  <1>3. /\ made' \in Nat /\ pending' \in Seq(Signals) /\ NothingTakenIsDropped'
    BY <1>2, BufferKeeps DEF app, Kinds
  <1>4. LedgerTypeOK'
    BY <1>1, <1>2, <1>3, LoadKeepsKnown DEF app, LedgerInv, LedgerTypeOK
  <1>5. Awaited'
    BY <1>2 DEF app, LedgerInv, Awaited
  <1> QED BY <1>3, <1>4, <1>5 DEF LedgerInv

LEMMA AwayKeeps ==
    ASSUME LedgerInv, NEW f \in Flushers, Away(f)
    PROVE  LedgerInv'
  <1>1. PICK k \in {Current, known} : Load(k)
    BY DEF Away
  <1>2. /\ flush[f].pc = "idle" /\ Buffer("away", NoSite) /\ Call(f)
        /\ UNCHANGED <<permitted, lost, app, changes>>
    BY DEF Away
  <1>3. /\ flush' = [flush EXCEPT ![f].pc = "called"]
        /\ \A g \in Flushers : flush'[g].batch = flush[g].batch
    BY <1>2 DEF Call, LedgerInv, LedgerTypeOK
  <1>4. /\ made' \in Nat /\ pending' \in Seq(Signals) /\ NothingTakenIsDropped'
    BY <1>2, <1>3, BufferKeeps DEF app, Kinds
  <1>5. LedgerTypeOK'
    <2>1. known' \in [id : Nat, sites : SUBSET Sites]
      BY <1>1, LoadKeepsKnown DEF LedgerInv
    <2>2. /\ flush' \in [Flushers ->
                [pc : {"idle", "called", "loaded", "taken", "posted", "failed"},
                 session : Nat, batch : Seq(Signals)]]
          /\ \A g \in Flushers :
                flush'[g].pc \in {"taken", "posted", "failed"} <=> flush'[g].batch # <<>>
      <3>1. /\ flush[f].session \in Nat /\ flush[f].batch \in Seq(Signals)
            /\ flush[f].batch = <<>>
        BY <1>2, EmptyHanded DEF LedgerInv, LedgerTypeOK
      <3>2. flush' = [flush EXCEPT ![f] = [pc |-> "called", session |-> flush[f].session,
                                           batch |-> flush[f].batch]]
        BY <1>3, FlushGetsOn DEF LedgerInv
      <3> QED BY <3>1, <3>2, FlushMoves DEF LedgerInv
    <2> QED BY <1>2, <1>4, <2>1, <2>2 DEF app, LedgerInv, LedgerTypeOK
  <1>6. Awaited'
    BY <1>2, <1>3 DEF app, LedgerInv, LedgerTypeOK, Awaited
  <1> QED BY <1>4, <1>5, <1>6 DEF LedgerInv

\* A flush that has taken nothing yet moves.
LEMMA CallsKeep ==
    ASSUME LedgerInv, NEW f \in Flushers, Alarm(f) \/ FlushLoads(f)
    PROVE  LedgerInv'
  <1>1. /\ UNCHANGED <<pending, made, lost, permitted, app>>
        /\ flush[f].pc \in {"idle", "called"}
    BY DEF Alarm, FlushLoads
  <1>2. PICK new \in {"idle", "called", "loaded"}, session \in Nat :
          flush' = [flush EXCEPT ![f] = [pc |-> new, session |-> session, batch |-> <<>>]]
    <2>1. CASE Alarm(f)
      <3>1. flush[f].batch = <<>> /\ flush[f].session \in Nat
        BY <2>1, EmptyHanded DEF Alarm, LedgerInv, LedgerTypeOK
      <3>2. flush' = [flush EXCEPT ![f] = [pc |-> "called", session |-> flush[f].session,
                                           batch |-> flush[f].batch]]
        BY <2>1, FlushGetsOn DEF Alarm, Call, LedgerInv
      <3> QED BY <3>1, <3>2
    <2>2. CASE FlushLoads(f)
      <3>1. PICK k \in {Current, known} :
              flush' = [flush EXCEPT ![f] =
                          IF k.id = 0 THEN NoFlush
                          ELSE [pc |-> "loaded", session |-> k.id, batch |-> <<>>]]
        BY <2>2 DEF FlushLoads
      <3>2. k.id \in Nat
        BY DEF Current, NoSession, LedgerInv, LedgerTypeOK
      <3>3. CASE k.id = 0
        <4>1. flush' = [flush EXCEPT ![f] = [pc |-> "idle", session |-> 0, batch |-> <<>>]]
          BY <3>1, <3>3 DEF NoFlush
        <4> QED BY <4>1
      <3>4. CASE k.id # 0
        BY <3>1, <3>2, <3>4
      <3> QED BY <3>3, <3>4
    <2> QED BY <2>1, <2>2
  <1>3. known' \in [id : Nat, sites : SUBSET Sites]
    BY LoadKeepsKnown DEF Alarm, FlushLoads, LedgerInv, LedgerTypeOK
  <1>4. \A g \in Flushers : flush'[g].batch = flush[g].batch
    BY <1>1, <1>2, EmptyHanded DEF LedgerInv, LedgerTypeOK
  <1>5. LedgerTypeOK'
    BY <1>1, <1>2, <1>3 DEF app, LedgerInv, LedgerTypeOK
  <1>6. NothingTakenIsDropped'
    BY <1>1, <1>4, NothingIsDropped DEF app, LedgerInv, NothingTakenIsDropped
  <1>7. Awaited'
    BY <1>1, <1>2 DEF app, LedgerInv, LedgerTypeOK, Awaited
  <1> QED BY <1>5, <1>6, <1>7 DEF LedgerInv

\* The buffer is emptied into the batch, and no signal is anywhere else.
LEMMA TakeKeeps ==
    ASSUME LedgerInv, NEW f \in Flushers, Take(f)
    PROVE  LedgerInv'
  <1>1. /\ UNCHANGED <<known, made, permitted, lost, app>>
        /\ flush[f].pc = "loaded" /\ pending' = <<>>
    BY DEF Take
  <1>2. PICK pc \in {"idle", "taken"}, session \in Nat :
          /\ pc = "taken" <=> pending # <<>>
          /\ flush' = [flush EXCEPT ![f] = [pc |-> pc, session |-> session, batch |-> pending]]
    <2>1. CASE pending = <<>>
      BY <2>1 DEF Take, NoFlush
    <2>2. CASE pending # <<>>
      BY <2>2 DEF Take, LedgerInv, LedgerTypeOK
    <2> QED BY <2>1, <2>2
  <1>3. pending \in Seq(Signals)
    BY DEF LedgerInv, LedgerTypeOK
  <1>4. /\ flush' \in [Flushers ->
                [pc : {"idle", "called", "loaded", "taken", "posted", "failed"},
                 session : Nat, batch : Seq(Signals)]]
        /\ \A g \in Flushers :
                flush'[g].pc \in {"taken", "posted", "failed"} <=> flush'[g].batch # <<>>
        /\ flush'[f].pc = pc /\ flush'[f].batch = pending
        /\ \A g \in Flushers \ {f} : flush'[g] = flush[g]
    BY <1>2, <1>3, FlushMoves DEF LedgerInv
  <1>5. LedgerTypeOK'
    BY <1>1, <1>4 DEF app, LedgerInv, LedgerTypeOK
  <1>6. NothingTakenIsDropped'
    <2>1. flush[f].batch = <<>> /\ Ids(flush[f].batch) = {}
      BY <1>1, EmptyHanded DEF LedgerInv
    <2> SUFFICES ASSUME NEW id \in 1 .. made PROVE Somewhere(id)'
      BY <1>1 DEF NothingTakenIsDropped, Somewhere
    <2>2. Somewhere(id)
      BY NothingIsDropped DEF LedgerInv
    <2>3. CASE id \in Ids(pending)
      BY <1>4, <2>3 DEF Somewhere
    <2>4. CASE id \in handled \/ id \in lost
      BY <1>1, <2>4 DEF Somewhere, app
    <2>5. CASE \E g \in Flushers : id \in Ids(flush[g].batch)
      BY <1>4, <2>1, <2>5 DEF Somewhere
    <2> QED BY <2>2, <2>3, <2>4, <2>5 DEF Somewhere
  <1>7. Awaited'
    BY <1>1, <1>4 DEF app, LedgerInv, Awaited
  <1> QED BY <1>5, <1>6, <1>7 DEF LedgerInv

\* A flush gets on with a batch it keeps.
LEMMA SendsKeep ==
    ASSUME LedgerInv, NEW f \in Flushers, NEW pc \in {"posted", "failed"},
           flush' = [flush EXCEPT ![f].pc = pc], flush[f].pc \in {"taken", "posted"},
           UNCHANGED <<pending, known, made, permitted, lost, watched, begun, grant, seen, recorded,
                       rows>>,
           handled \subseteq handled',
           request' \in [Flushers ->
              [pc : {"idle", "admitted", "appending"}, session : Nat,
               sites : SUBSET Sites, rest : Seq(Signals)]],
           \A g \in Flushers \ {f} : request'[g] = request[g],
           pc = "posted" => /\ request'[f].pc # "idle"
                            /\ Ids(flush[f].batch) \subseteq Ids(request'[f].rest) \cup handled'
    PROVE  LedgerInv'
  <1>1. /\ flush[f].session \in Nat /\ flush[f].batch \in Seq(Signals)
        /\ flush[f].batch # <<>>
    BY DEF LedgerInv, LedgerTypeOK
  <1>2. flush' = [flush EXCEPT ![f] =
                    [pc |-> pc, session |-> flush[f].session, batch |-> flush[f].batch]]
    BY FlushGetsOn DEF LedgerInv
  <1>3. pc \in {"idle", "called", "loaded", "taken", "posted", "failed"}
        /\ (pc \in {"taken", "posted", "failed"} <=> flush[f].batch # <<>>)
    BY <1>1
  <1>4. /\ flush' \in [Flushers ->
                [pc : {"idle", "called", "loaded", "taken", "posted", "failed"},
                 session : Nat, batch : Seq(Signals)]]
        /\ \A g \in Flushers :
                flush'[g].pc \in {"taken", "posted", "failed"} <=> flush'[g].batch # <<>>
        /\ flush'[f].pc = pc /\ flush'[f].batch = flush[f].batch
        /\ \A g \in Flushers \ {f} : flush'[g] = flush[g]
    <2> DEFINE v == [pc |-> pc, session |-> flush[f].session, batch |-> flush[f].batch]
    <2>1. v \in Flushes
      BY <1>1, <1>3 DEF Flushes
    <2>2. v.pc = pc /\ v.batch = flush[f].batch /\ flush' = [flush EXCEPT ![f] = v]
      BY <1>2
    <2> HIDE DEF v
    <2> QED BY <2>1, <2>2, FlushBecomes DEF LedgerInv
  <1>5. LedgerTypeOK'
    BY <1>4 DEF LedgerInv, LedgerTypeOK
  <1>6. NothingTakenIsDropped'
    <2> SUFFICES ASSUME NEW id \in 1 .. made PROVE Somewhere(id)'
      BY DEF NothingTakenIsDropped, Somewhere
    <2>1. Somewhere(id)
      BY NothingIsDropped DEF LedgerInv
    <2>2. \A g \in Flushers : flush'[g].batch = flush[g].batch
      BY <1>4
    <2> QED BY <2>1, <2>2 DEF Somewhere
  <1>7. Awaited'
    <2> SUFFICES ASSUME NEW g \in Flushers, flush'[g].pc = "posted"
                 PROVE  /\ request'[g].pc # "idle"
                        /\ Ids(flush'[g].batch) \subseteq Ids(request'[g].rest) \cup handled'
      BY DEF Awaited
    <2>1. CASE g = f
      BY <1>4, <2>1
    <2>2. CASE g # f
      BY <1>4, <2>2 DEF LedgerInv, Awaited
    <2> QED BY <2>1, <2>2
  <1> QED BY <1>5, <1>6, <1>7 DEF LedgerInv

\* What is admitted is the batch of the flush that waits.
LEMMA PostKeeps ==
    ASSUME LedgerInv, NEW f \in Flushers, Post(f) \/ Unreachable(f)
    PROVE  LedgerInv'
  <1>1. CASE Post(f) /\ watched # 0 /\ flush[f].session = watched
    <2> DEFINE new == [pc |-> "admitted", session |-> watched, sites |-> {},
                       rest |-> flush[f].batch]
    <2>1. /\ request' = [request EXCEPT ![f] = new]
          /\ flush' = [flush EXCEPT ![f].pc = "posted"] /\ flush[f].pc = "taken"
          /\ UNCHANGED <<pending, known, made, permitted, lost, watched, begun, grant, seen,
                         recorded, rows, handled>>
      BY <1>1 DEF Post
    <2>2. new \in [pc : {"idle", "admitted", "appending"}, session : Nat,
                   sites : SUBSET Sites, rest : Seq(Signals)]
      BY DEF LedgerInv, LedgerTypeOK
    <2>3. new.pc # "idle" /\ new.rest = flush[f].batch
      OBVIOUS
    <2> HIDE DEF new
    <2>4. /\ request' \in [Flushers -> [pc : {"idle", "admitted", "appending"}, session : Nat,
                                        sites : SUBSET Sites, rest : Seq(Signals)]]
          /\ request'[f] = new /\ \A g \in Flushers \ {f} : request'[g] = request[g]
      BY <2>1, <2>2 DEF LedgerInv, LedgerTypeOK
    <2> QED BY <2>1, <2>3, <2>4, SendsKeep
  <1>2. CASE \/ Post(f) /\ ~ (watched # 0 /\ flush[f].session = watched)
             \/ Unreachable(f)
    <2>1. /\ UNCHANGED <<pending, known, made, permitted, lost, app>>
          /\ flush' = [flush EXCEPT ![f].pc = "failed"] /\ flush[f].pc = "taken"
      BY <1>2 DEF Post, Unreachable, app
    <2> QED BY <2>1, SendsKeep DEF app, LedgerInv, LedgerTypeOK
  <1> QED BY <1>1, <1>2

\* What failed goes back into the buffer.
LEMMA PutBackKeeps ==
    ASSUME LedgerInv, NEW f \in Flushers, PutBack(f)
    PROVE  LedgerInv'
  <1>1. /\ UNCHANGED <<known, made, permitted, lost, app>>
        /\ pending' = flush[f].batch \o pending
        /\ flush' = [flush EXCEPT ![f] = [pc |-> "idle", session |-> 0, batch |-> <<>>]]
    BY DEF PutBack, Returned, NoFlush
  <1>2. pending' \in Seq(Signals) /\ Ids(pending') = Ids(flush[f].batch) \cup Ids(pending)
    BY <1>1, IdsConcat DEF LedgerInv, LedgerTypeOK
  <1>3. /\ flush' \in [Flushers ->
                [pc : {"idle", "called", "loaded", "taken", "posted", "failed"},
                 session : Nat, batch : Seq(Signals)]]
        /\ \A g \in Flushers :
                flush'[g].pc \in {"taken", "posted", "failed"} <=> flush'[g].batch # <<>>
        /\ flush'[f].pc = "idle"
        /\ \A g \in Flushers \ {f} : flush'[g] = flush[g]
    <2>1. PICK pc \in {"idle"}, session \in Nat, batch \in Seq(Signals) :
            /\ batch = <<>>
            /\ flush' = [flush EXCEPT ![f] = [pc |-> pc, session |-> session, batch |-> batch]]
      BY <1>1, EmptySeq
    <2> QED BY <2>1, FlushMoves DEF LedgerInv
  <1>4. LedgerTypeOK'
    BY <1>1, <1>2, <1>3 DEF app, LedgerInv, LedgerTypeOK
  <1>5. NothingTakenIsDropped'
    BY <1>1, <1>2, <1>3 DEF app, LedgerInv, NothingTakenIsDropped
  <1>6. Awaited'
    BY <1>1, <1>3 DEF app, LedgerInv, Awaited
  <1> QED BY <1>4, <1>5, <1>6 DEF LedgerInv

\* The worker dies: its batches are what is lost.
LEMMA KilledKeeps == LedgerInv /\ Killed => LedgerInv'
  <1> SUFFICES ASSUME LedgerInv, Killed PROVE LedgerInv'
    OBVIOUS
  <1>1. /\ UNCHANGED <<pending, known, made, permitted, app>>
        /\ flush' = [g \in Flushers |-> NoFlush]
        /\ lost' = lost \cup UNION {Ids(flush[g].batch) : g \in Flushers}
    BY DEF Killed
  <1>2. LedgerTypeOK'
    BY <1>1 DEF app, NoFlush, LedgerInv, LedgerTypeOK
  <1>3. NothingTakenIsDropped'
    <2>1. \A id : (\E g \in Flushers : id \in Ids(flush[g].batch)) => id \in lost'
      BY <1>1
    <2>2. lost \subseteq lost'
      BY <1>1
    <2> QED BY <1>1, <2>1, <2>2 DEF app, LedgerInv, NothingTakenIsDropped
  <1>4. Awaited'
    BY <1>1 DEF Awaited, NoFlush
  <1> QED BY <1>2, <1>3, <1>4 DEF LedgerInv

\* A request that gets on with its work, field by field.
LEMMA RecordsChange ==
    ASSUME NEW r \in [pc : {"idle", "admitted", "appending"}, session : Nat,
                      sites : SUBSET Sites, rest : Seq(Signals)],
           NEW pc, NEW sites, NEW rest
    PROVE  /\ [r EXCEPT !.pc = pc, !.sites = sites]
                = [pc |-> pc, session |-> r.session, sites |-> sites, rest |-> r.rest]
           /\ [r EXCEPT !.rest = rest]
                = [pc |-> r.pc, session |-> r.session, sites |-> r.sites, rest |-> rest]
  <1>1. PICK a, b, c, d : r = [pc |-> a, session |-> b, sites |-> c, rest |-> d]
    OBVIOUS
  <1>2. r.pc = a /\ r.session = b /\ r.sites = c /\ r.rest = d
    BY <1>1
  <1>3. [r EXCEPT !.pc = pc, !.sites = sites]
          = [pc |-> pc, session |-> b, sites |-> sites, rest |-> d]
    <2>1. [r EXCEPT !.pc = pc, !.sites = sites] = [[r EXCEPT !.pc = pc] EXCEPT !.sites = sites]
      OBVIOUS
    <2>2. [r EXCEPT !.pc = pc] = [pc |-> pc, session |-> b, sites |-> c, rest |-> d]
      BY <1>1
    <2>3. [[pc |-> pc, session |-> b, sites |-> c, rest |-> d] EXCEPT !.sites = sites]
            = [pc |-> pc, session |-> b, sites |-> sites, rest |-> d]
      OBVIOUS
    <2> QED BY <2>1, <2>2, <2>3
  <1>4. [r EXCEPT !.rest = rest] = [pc |-> a, session |-> b, sites |-> c, rest |-> rest]
    BY <1>1
  <1> QED BY <1>2, <1>3, <1>4

\* One request moves, and the others stay where they are.
LEMMA RequestMoves ==
    ASSUME LedgerTypeOK, NEW f \in Flushers, NEW pc \in {"idle", "admitted", "appending"},
           NEW session \in Nat, NEW sites \in SUBSET Sites, NEW rest \in Seq(Signals),
           request' = [request EXCEPT ![f] =
              [pc |-> pc, session |-> session, sites |-> sites, rest |-> rest]]
    PROVE  /\ request' \in [Flushers ->
                [pc : {"idle", "admitted", "appending"}, session : Nat,
                 sites : SUBSET Sites, rest : Seq(Signals)]]
           /\ request'[f].pc = pc /\ request'[f].rest = rest
           /\ \A g \in Flushers \ {f} : request'[g] = request[g]
  <1>1. /\ request'[f] = [pc |-> pc, session |-> session, sites |-> sites, rest |-> rest]
        /\ \A g \in Flushers \ {f} : request'[g] = request[g]
        /\ request' = [g \in Flushers |-> request'[g]]
    <2>1. DOMAIN request = Flushers
      BY DEF LedgerTypeOK
    <2> QED BY <2>1
  <1>2. \A g \in Flushers :
          request'[g] \in [pc : {"idle", "admitted", "appending"}, session : Nat,
                           sites : SUBSET Sites, rest : Seq(Signals)]
    BY <1>1 DEF LedgerTypeOK
  <1> QED BY <1>1, <1>2

\* The route reads what is granted; the batch it has is the batch it had.
LEMMA ReadsKeep ==
    ASSUME LedgerInv, NEW f \in Flushers, ReadsSources(f)
    PROVE  LedgerInv'
  <1>1. /\ UNCHANGED <<extension, watched, begun, grant, seen, recorded, rows, handled>>
        /\ request' = [request EXCEPT ![f].pc = "appending", ![f].sites = Granted]
    BY DEF ReadsSources
  <1>2. /\ request' \in [Flushers -> [pc : {"idle", "admitted", "appending"}, session : Nat,
                                       sites : SUBSET Sites, rest : Seq(Signals)]]
        /\ request'[f].pc = "appending"
        /\ \A g \in Flushers : request'[g].rest = request[g].rest
        /\ \A g \in Flushers \ {f} : request'[g] = request[g]
    <2>1. request[f] \in [pc : {"idle", "admitted", "appending"}, session : Nat,
                          sites : SUBSET Sites, rest : Seq(Signals)]
      BY DEF LedgerInv, LedgerTypeOK
    <2>2. [request[f] EXCEPT !.pc = "appending", !.sites = Granted]
            = [pc |-> "appending", session |-> request[f].session, sites |-> Granted,
               rest |-> request[f].rest]
      BY <2>1, RecordsChange
    <2>3. request' = [request EXCEPT ![f] =
            [pc |-> "appending", session |-> request[f].session, sites |-> Granted,
             rest |-> request[f].rest]]
      BY <1>1, <2>2
    <2>4. Granted \in SUBSET Sites
      BY DEF Granted
    <2> QED BY <2>1, <2>3, <2>4, RequestMoves DEF LedgerInv
  <1>3. LedgerTypeOK'
    BY <1>1, <1>2 DEF extension, LedgerInv, LedgerTypeOK
  <1>4. NothingTakenIsDropped'
    BY <1>1 DEF extension, LedgerInv, NothingTakenIsDropped
  <1>5. Awaited'
    BY <1>1, <1>2 DEF extension, LedgerInv, Awaited
  <1> QED BY <1>3, <1>4, <1>5 DEF LedgerInv

\* An answered request is idle, and the others are as they were.
LEMMA RequestEnds ==
    ASSUME LedgerTypeOK, NEW f \in Flushers,
           request' = [request EXCEPT ![f] = NoRequest]
    PROVE  /\ request' \in [Flushers ->
                [pc : {"idle", "admitted", "appending"}, session : Nat,
                 sites : SUBSET Sites, rest : Seq(Signals)]]
           /\ \A g \in Flushers \ {f} : request'[g] = request[g]
  BY EmptySeq DEF NoRequest, LedgerTypeOK

\* A flush that is over holds nothing.
LEMMA FlushEnds ==
    ASSUME LedgerTypeOK, NEW f \in Flushers, flush' = [flush EXCEPT ![f] = NoFlush]
    PROVE  /\ flush' \in [Flushers ->
                [pc : {"idle", "called", "loaded", "taken", "posted", "failed"},
                 session : Nat, batch : Seq(Signals)]]
           /\ \A g \in Flushers :
                flush'[g].pc \in {"taken", "posted", "failed"} <=> flush'[g].batch # <<>>
           /\ flush'[f].pc = "idle"
           /\ \A g \in Flushers \ {f} : flush'[g] = flush[g]
  <1>1. NoFlush \in Flushes /\ NoFlush.pc = "idle"
    BY EmptySeq DEF NoFlush, Flushes
  <1> QED BY <1>1, FlushBecomes

\* A write that throws ends the request, and a flush that waits for it has failed.
LEMMA HandsBackKeeps ==
    ASSUME LedgerInv, NEW f \in Flushers,
           request' = [request EXCEPT ![f] = NoRequest],
           flush' = [flush EXCEPT ![f].pc = IF @ = "posted" THEN "failed" ELSE @],
           UNCHANGED <<pending, known, made, permitted, lost, watched, begun, grant, rows, handled>>,
           seen' \cup recorded' \subseteq Nat \X (Sites \cup {NoSite})
    PROVE  LedgerInv'
  <1>1. /\ request' \in [Flushers -> [pc : {"idle", "admitted", "appending"}, session : Nat,
                                       sites : SUBSET Sites, rest : Seq(Signals)]]
        /\ \A g \in Flushers \ {f} : request'[g] = request[g]
    BY RequestEnds DEF LedgerInv
  <1>2. /\ flush' \in [Flushers ->
                [pc : {"idle", "called", "loaded", "taken", "posted", "failed"},
                 session : Nat, batch : Seq(Signals)]]
        /\ \A g \in Flushers :
                flush'[g].pc \in {"taken", "posted", "failed"} <=> flush'[g].batch # <<>>
        /\ flush'[f].pc # "posted" /\ flush'[f].batch = flush[f].batch
        /\ \A g \in Flushers \ {f} : flush'[g] = flush[g]
    <2>1. PICK pc \in {"idle", "called", "loaded", "taken", "failed"} :
            /\ pc = IF flush[f].pc = "posted" THEN "failed" ELSE flush[f].pc
            /\ flush' = [flush EXCEPT ![f].pc = pc]
      BY DEF LedgerInv, LedgerTypeOK
    <2> DEFINE v == [pc |-> pc, session |-> flush[f].session, batch |-> flush[f].batch]
    <2>2. flush' = [flush EXCEPT ![f] = v]
      BY <2>1, FlushGetsOn DEF LedgerInv
    <2>3. /\ flush[f].session \in Nat /\ flush[f].batch \in Seq(Signals)
          /\ pc \in {"taken", "posted", "failed"} <=> flush[f].batch # <<>>
      BY <2>1 DEF LedgerInv, LedgerTypeOK
    <2>4. v \in Flushes /\ v.pc # "posted" /\ v.batch = flush[f].batch
      BY <2>1, <2>3 DEF Flushes
    <2> HIDE DEF v
    <2> QED BY <2>2, <2>4, FlushBecomes DEF LedgerInv
  <1>3. LedgerTypeOK'
    BY <1>1, <1>2 DEF LedgerInv, LedgerTypeOK
  <1>4. NothingTakenIsDropped'
    <2>1. \A g \in Flushers : flush'[g].batch = flush[g].batch
      BY <1>2
    <2> QED BY <2>1 DEF LedgerInv, NothingTakenIsDropped
  <1>5. Awaited'
    BY <1>1, <1>2 DEF LedgerInv, Awaited
  <1> QED BY <1>3, <1>4, <1>5 DEF LedgerInv

\* A signal is written or left out, and is dealt with either way; or the write
\* fails and the batch is handed back.
LEMMA AppendKeeps ==
    ASSUME LedgerInv, NEW f \in Flushers, AppendSignal(f)
    PROVE  LedgerInv'
  <1> DEFINE signal == Head(request[f].rest)
             page == <<request[f].session, signal.site>>
             Rows == [session : Nat, id : Nat, site : Sites \cup {NoSite},
                      kind : {"visited", "returnedTo", "engaged", "switchedAway",
                              "sourceApproved"}]
  <1>1. /\ request[f].pc = "appending" /\ request[f].rest # <<>>
        /\ UNCHANGED <<pending, known, made, permitted, lost, watched, begun, grant, changes>>
    BY DEF AppendSignal
  <1>2. /\ request[f] \in [pc : {"idle", "admitted", "appending"}, session : Nat,
                            sites : SUBSET Sites, rest : Seq(Signals)]
        /\ request[f].rest \in Seq(Signals) /\ request[f].session \in Nat
        /\ seen \cup recorded \subseteq Nat \X (Sites \cup {NoSite})
    BY DEF LedgerInv, LedgerTypeOK
  <1>3. /\ signal \in Signals /\ Tail(request[f].rest) \in Seq(Signals)
        /\ Ids(request[f].rest) \subseteq {signal.id} \cup Ids(Tail(request[f].rest))
    BY <1>1, <1>2, IdsTail
  <1>4. signal.id \in Nat /\ signal.site \in Sites \cup {NoSite}
    BY <1>3 DEF Signals
  <1> HIDE DEF signal
  <1>5. page \in Nat \X (Sites \cup {NoSite})
    BY <1>2, <1>4
  <1>6. PICK kind \in {"visited", "returnedTo", "engaged", "switchedAway"}, writes \in BOOLEAN,
             navigates \in BOOLEAN, engages \in BOOLEAN :
          /\ seen' = seen \cup {p \in {page} : navigates}
          /\ recorded' = recorded \cup {p \in {page} : engages}
          /\ \/ /\ request' = [request EXCEPT ![f].rest = Tail(@)]
                /\ rows' = IF writes /\ MayWrite(signal.site)
                             THEN Append(rows, Row(request[f].session, kind, signal.site,
                                                   signal.id))
                             ELSE rows
                /\ handled' = handled \cup {signal.id}
                /\ UNCHANGED <<flush, faults>>
             \/ /\ writes /\ Fault
                /\ request' = [request EXCEPT ![f] = NoRequest]
                /\ flush' = [flush EXCEPT ![f].pc = IF @ = "posted" THEN "failed" ELSE @]
                /\ UNCHANGED <<rows, handled>>
    BY DEF AppendSignal, NavigationKind, Engages, signal
  <1>7. seen' \cup recorded' \subseteq Nat \X (Sites \cup {NoSite})
    BY <1>2, <1>5, <1>6
  <1> HIDE DEF page
  <1>8. CASE /\ request' = [request EXCEPT ![f].rest = Tail(@)]
             /\ rows' = IF writes /\ MayWrite(signal.site)
                          THEN Append(rows, Row(request[f].session, kind, signal.site,
                                                signal.id))
                          ELSE rows
             /\ handled' = handled \cup {signal.id}
             /\ UNCHANGED <<flush, faults>>
    <2>1. rows' \in Seq(Rows)
      <3>1. Row(request[f].session, kind, signal.site, signal.id) \in Rows
        BY <1>2, <1>4 DEF Row
      <3>2. rows \in Seq(Rows)
        BY DEF LedgerInv, LedgerTypeOK
      <3> HIDE DEF Rows
      <3> QED BY <1>8, <3>1, <3>2, AppendProperties
    <2>2. /\ request' \in [Flushers -> [pc : {"idle", "admitted", "appending"}, session : Nat,
                                         sites : SUBSET Sites, rest : Seq(Signals)]]
          /\ request'[f].pc = "appending" /\ request'[f].rest = Tail(request[f].rest)
          /\ \A g \in Flushers \ {f} : request'[g] = request[g]
      <3>1. [request[f] EXCEPT !.rest = Tail(request[f].rest)]
              = [pc |-> "appending", session |-> request[f].session,
                 sites |-> request[f].sites, rest |-> Tail(request[f].rest)]
        BY <1>1, <1>2, RecordsChange
      <3>2. request' = [request EXCEPT ![f] =
              [pc |-> "appending", session |-> request[f].session,
               sites |-> request[f].sites, rest |-> Tail(request[f].rest)]]
        BY <1>8, <3>1
      <3>3. request[f].sites \in SUBSET Sites
        BY <1>2
      <3> QED BY <1>2, <1>3, <3>2, <3>3, RequestMoves DEF LedgerInv
    <2>3. LedgerTypeOK'
      BY <1>1, <1>7, <1>8, <2>1, <2>2 DEF LedgerInv, LedgerTypeOK
    <2>4. NothingTakenIsDropped'
      BY <1>1, <1>8 DEF LedgerInv, NothingTakenIsDropped
    <2>5. Awaited'
      <3> SUFFICES ASSUME NEW g \in Flushers, flush[g].pc = "posted"
                   PROVE  /\ request'[g].pc # "idle"
                          /\ Ids(flush[g].batch) \subseteq Ids(request'[g].rest) \cup handled'
        BY <1>8 DEF Awaited
      <3>1. /\ request[g].pc # "idle"
            /\ Ids(flush[g].batch) \subseteq Ids(request[g].rest) \cup handled
        BY DEF LedgerInv, Awaited
      <3>2. CASE g = f
        BY <1>3, <1>8, <2>2, <3>1, <3>2
      <3>3. CASE g # f
        BY <1>8, <2>2, <3>1, <3>3
      <3> QED BY <3>2, <3>3
    <2> QED BY <2>3, <2>4, <2>5 DEF LedgerInv
  <1>9. CASE /\ request' = [request EXCEPT ![f] = NoRequest]
             /\ flush' = [flush EXCEPT ![f].pc = IF @ = "posted" THEN "failed" ELSE @]
             /\ UNCHANGED <<rows, handled>>
    BY <1>1, <1>7, <1>9, HandsBackKeeps
  <1> QED BY <1>6, <1>8, <1>9

\* The answer comes when the whole batch has been dealt with.
LEMMA AnswerKeeps ==
    ASSUME LedgerInv, NEW f \in Flushers, Answer(f)
    PROVE  LedgerInv'
  <1>1. /\ request[f].rest = <<>> /\ request' = [request EXCEPT ![f] = NoRequest]
        /\ UNCHANGED <<pending, known, made, permitted, lost, watched, begun, grant, seen, recorded,
                       rows, handled>>
    BY DEF Answer
  <1>2. /\ request' \in [Flushers -> [pc : {"idle", "admitted", "appending"}, session : Nat,
                                       sites : SUBSET Sites, rest : Seq(Signals)]]
        /\ \A g \in Flushers \ {f} : request'[g] = request[g]
    BY <1>1, RequestEnds DEF LedgerInv
  <1>3. CASE flush[f].pc = "posted" /\ flush' = [flush EXCEPT ![f] = NoFlush]
    <2>1. Ids(flush[f].batch) \subseteq handled
      BY <1>1, <1>3, IdsEmpty DEF LedgerInv, Awaited
    <2>2. /\ flush' \in [Flushers ->
                [pc : {"idle", "called", "loaded", "taken", "posted", "failed"},
                 session : Nat, batch : Seq(Signals)]]
          /\ \A g \in Flushers :
                flush'[g].pc \in {"taken", "posted", "failed"} <=> flush'[g].batch # <<>>
          /\ flush'[f].pc = "idle"
          /\ \A g \in Flushers \ {f} : flush'[g] = flush[g]
      BY <1>3, FlushEnds DEF LedgerInv
    <2>3. LedgerTypeOK'
      BY <1>1, <1>2, <2>2 DEF LedgerInv, LedgerTypeOK
    <2>4. NothingTakenIsDropped'
      BY <1>1, <2>1, <2>2 DEF LedgerInv, NothingTakenIsDropped
    <2>5. Awaited'
      BY <1>1, <1>2, <2>2 DEF LedgerInv, Awaited
    <2> QED BY <2>3, <2>4, <2>5 DEF LedgerInv
  <1>4. CASE flush[f].pc # "posted" /\ UNCHANGED flush
    <2>1. LedgerTypeOK' /\ NothingTakenIsDropped'
      BY <1>1, <1>2, <1>4 DEF LedgerInv, LedgerTypeOK, NothingTakenIsDropped
    <2>2. Awaited'
      BY <1>1, <1>2, <1>4 DEF LedgerInv, Awaited
    <2> QED BY <2>1, <2>2 DEF LedgerInv
  <1>5. CASE flush[f].pc = "posted" /\ flush' = [flush EXCEPT ![f].pc = "failed"]
    BY <1>1, <1>2, <1>5, SendsKeep
  <1>6. \/ flush[f].pc = "posted" /\ flush' = [flush EXCEPT ![f] = NoFlush]
        \/ flush[f].pc # "posted" /\ UNCHANGED flush
        \/ flush[f].pc = "posted" /\ flush' = [flush EXCEPT ![f].pc = "failed"]
    BY DEF Answer, LedgerInv, LedgerTypeOK
  <1> QED BY <1>3, <1>4, <1>5, <1>6

\* One step keeps the invariant.
LEMMA LedgerInvStep == LedgerInv /\ [LedgerNext]_ledgerVars => LedgerInv'
  <1> SUFFICES ASSUME LedgerInv, [LedgerNext]_ledgerVars PROVE LedgerInv'
    OBVIOUS
  <1>1. CASE SessionStarts \/ EndSession \/ \E s \in Sites : Approve(s) \/ Withdraw(s)
    BY <1>1, SessionsKeep
  <1>2. CASE \E s \in Sites, kind \in {"navigation", "engagement"} : Observe(s, kind)
    BY <1>2, ObserveKeeps
  <1>3. CASE \E f \in Flushers :
               Away(f) \/ Alarm(f) \/ FlushLoads(f) \/ Take(f) \/ Post(f) \/ Unreachable(f)
    BY <1>3, AwayKeeps, CallsKeep, TakeKeeps, PostKeeps
  <1>4. CASE \E f \in Flushers : PutBack(f) \/ ReadsSources(f) \/ AppendSignal(f) \/ Answer(f)
    BY <1>4, PutBackKeeps, ReadsKeep, AppendKeeps, AnswerKeeps
  <1>5. CASE Killed
    BY <1>5, KilledKeeps
  <1>6. CASE UNCHANGED ledgerVars
    BY <1>6 DEF ledgerVars, extension, app, LedgerInv, LedgerTypeOK, NothingTakenIsDropped, Awaited
  <1> QED BY <1>1, <1>2, <1>3, <1>4, <1>5, <1>6 DEF LedgerNext

-----------------------------------------------------------------------------
(* What follows.                                                           *)

\* The inductive invariant of the pipeline: a flush that waits for an answer
\* waits for a request that has dealt with its batch or still will.
THEOREM LedgerInvariant == LedgerSpec => []LedgerInv
  <1> QED BY LedgerInvInit, LedgerInvStep, PTL DEF LedgerSpec

\* What the buffer, the batches, the requests and the ledger hold
\* (service-worker.js:626, ledger-writer.ts:336).
THEOREM LedgerTypeCorrect == LedgerSpec => []LedgerTypeOK
  <1>1. LedgerInv => LedgerTypeOK
    BY DEF LedgerInv
  <1> QED BY <1>1, LedgerInvariant, PTL

\* Whatever outages, refused writes, lost answers and second flushes there are,
\* only a killed worker loses a signal (service-worker.js:645).
THEOREM NothingIsEverDropped == LedgerSpec => []NothingTakenIsDropped
  <1>1. LedgerInv => NothingTakenIsDropped
    BY DEF LedgerInv
  <1> QED BY <1>1, LedgerInvariant, PTL

\* A site's row is written under the grant that stands when it is written, not
\* the one the batch was read under (ledger-writer.ts:336).
THEOREM WritesOnlyWhatIsGranted == LedgerSpec => AppendsOnlyWhatIsGranted
  <1> DEFINE Step == \A i \in Len(rows) + 1 .. Len(rows') :
                        rows'[i].site # NoSite => grant'[rows'[i].site] = "granted"
             Rows == [session : Nat, id : Nat, site : Sites \cup {NoSite},
                      kind : {"visited", "returnedTo", "engaged", "switchedAway",
                              "sourceApproved"}]
  <1>1. LedgerInv /\ [LedgerNext]_ledgerVars => [Step]_ledgerVars
    <2> SUFFICES ASSUME LedgerInv, LedgerNext PROVE Step
      OBVIOUS
    <2>1. rows \in Seq(Rows) /\ grant \in [Sites -> {"none", "granted", "revoked"}]
      BY DEF LedgerInv, LedgerTypeOK
    <2>2. ASSUME NEW row, rows' = Append(rows, row),
                 row \in Rows, row.site # NoSite => grant'[row.site] = "granted"
          PROVE  Step
      <3> HIDE DEF Rows
      <3>1. Len(rows) \in Nat /\ Len(rows') = Len(rows) + 1 /\ rows'[Len(rows) + 1] = row
        BY <2>1, <2>2, AppendProperties, LenProperties
      <3>2. \A i \in Len(rows) + 1 .. Len(rows') : i = Len(rows) + 1
        BY <3>1
      <3> QED BY <2>2, <3>1, <3>2
    <2>3. CASE UNCHANGED rows
      <3> HIDE DEF Rows
      <3>1. Len(rows) \in Nat
        BY <2>1, LenProperties
      <3>2. Len(rows) + 1 .. Len(rows') = {}
        BY <2>3, <3>1
      <3> QED BY <3>2
    <2>4. CASE \E s \in Sites : Approve(s)
      <3>1. PICK s \in Sites : Approve(s)
        BY <2>4
      <3>2. CASE watched = 0
        BY <2>3, <3>1, <3>2 DEF Approve
      <3>3. CASE watched # 0
        <4>1. /\ rows' = Append(rows, Row(watched, "sourceApproved", s, 0))
              /\ grant' = [grant EXCEPT ![s] = "granted"]
          BY <3>1, <3>3 DEF Approve
        <4>2. Row(watched, "sourceApproved", s, 0) \in Rows
          BY DEF Row, LedgerInv, LedgerTypeOK
        <4>3. Row(watched, "sourceApproved", s, 0).site = s /\ grant'[s] = "granted"
          BY <2>1, <4>1 DEF Row
        <4> QED BY <2>2, <4>1, <4>2, <4>3
      <3> QED BY <3>2, <3>3
    <2>5. CASE \E f \in Flushers : AppendSignal(f)
      <3>1. PICK f \in Flushers : AppendSignal(f)
        BY <2>5
      <3> DEFINE signal == Head(request[f].rest)
      <3>2. PICK kind \in {"visited", "returnedTo", "engaged", "switchedAway"} :
              \/ UNCHANGED rows
              \/ /\ MayWrite(signal.site)
                 /\ rows' = Append(rows, Row(request[f].session, kind, signal.site, signal.id))
        BY <3>1 DEF AppendSignal, NavigationKind
      <3>3. /\ request[f].rest \in Seq(Signals) /\ request[f].session \in Nat
            /\ request[f].rest # <<>> /\ UNCHANGED grant
        BY <3>1 DEF AppendSignal, LedgerInv, LedgerTypeOK
      <3>4. signal \in Signals
        BY <3>3, IdsTail
      <3> HIDE DEF signal
      <3>5. Row(request[f].session, kind, signal.site, signal.id) \in Rows
        BY <3>3, <3>4 DEF Row, Signals
      <3>6. Row(request[f].session, kind, signal.site, signal.id).site = signal.site
        BY DEF Row
      <3>7. MayWrite(signal.site) /\ signal.site # NoSite => grant'[signal.site] = "granted"
        BY <3>3 DEF MayWrite
      <3> QED BY <2>2, <2>3, <3>2, <3>5, <3>6, <3>7
    <2>6. \/ UNCHANGED rows
          \/ \E s \in Sites : Approve(s)
          \/ \E f \in Flushers : AppendSignal(f)
      BY DEF LedgerNext, SessionStarts, EndSession, Withdraw, Observe, Away, Alarm, FlushLoads, Take, Post,
             Unreachable, PutBack, ReadsSources, Answer, Killed, app
    <2> QED BY <2>3, <2>4, <2>5, <2>6
  <1> QED BY <1>1, LedgerInvariant, PTL DEF LedgerSpec, AppendsOnlyWhatIsGranted

=============================================================================
