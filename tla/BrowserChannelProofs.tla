------------------------ MODULE BrowserChannelProofs ------------------------
(* Theorems about BrowserChannel, for any number of runs, intents, polls,  *)
(* tries and faults.                                                       *)
EXTENDS BrowserChannel, TLAPS

\* What Remember returns: a bounded sequence of what it was given.
LEMMA Remembering ==
    ASSUME NEW S, NEW s \in Seq(S), NEW x \in S, NEW cap \in Nat \ {0}, Len(s) <= cap
    PROVE  /\ Remember(s, x, cap) \in Seq(S)
           /\ Len(Remember(s, x, cap)) <= cap
           /\ Members(Remember(s, x, cap)) \subseteq Members(s) \union {x}
<1> DEFINE longer == Append(s, x)
<1>1. /\ longer \in Seq(S)
      /\ Len(longer) = Len(s) + 1
      /\ Len(s) \in Nat
      /\ \A n \in 1 .. Len(longer) : longer[n] \in Members(s) \union {x}
  BY DEF Members
<1>2. CASE Len(longer) > cap
  <2> DEFINE later == SubSeq(longer, 2, Len(longer))
  <2>1. Remember(s, x, cap) = later
    BY <1>2 DEF Remember
  <2>2. /\ later \in Seq(S)
        /\ Len(later) = Len(s)
        /\ \A n \in 1 .. Len(s) : later[n] = longer[n + 1]
    BY <1>1
  <2>3. Members(later) \subseteq Members(s) \union {x}
    BY <1>1, <2>2 DEF Members
  <2> QED
    BY <2>1, <2>2, <2>3
<1>3. CASE ~(Len(longer) > cap)
  <2>1. Remember(s, x, cap) = longer
    BY <1>3 DEF Remember
  <2>2. Members(longer) \subseteq Members(s) \union {x}
    BY <1>1 DEF Members
  <2> QED
    BY <1>1, <1>3, <2>1, <2>2
<1> QED
  BY <1>2, <1>3

\* Leaving and joining keep a line a line.
LEMMA Leaving ==
    ASSUME NEW line \in [Intents -> SUBSET Intents], NEW gone
    PROVE  Leave(line, gone) \in [Intents -> SUBSET Intents]
  BY DEF Leave

LEMMA Joining ==
    ASSUME NEW line \in [Intents -> SUBSET Intents], NEW i \in Intents
    PROVE  Join(line, i) \in [Intents -> SUBSET Intents]
  BY DEF Join, Leave, InLine

\* Answering sockets keeps what the worker knows well typed.
LEMMA Answering ==
    ASSUME WorkerTypes, NEW gone,
           NEW by \in {"app", "browser", "client"}, NEW what \in Bodies,
           Answer(gone, by, what), tries' = tries
    PROVE  WorkerTypes'
  BY DEF WorkerTypes, Answer, Bodies

\* Ending sockets keeps the handlers well typed.
LEMMA Ending ==
    ASSUME CallsTypes, NEW gone, EndCalls(gone)
    PROVE  CallsTypes'
<1>1. calls' = [i \in Intents |-> [k \in Tries |->
                  IF <<i, k>> \in gone THEN "ended" ELSE calls[i][k]]]
  BY DEF EndCalls
<1>2. ASSUME NEW i \in Intents, NEW k \in Tries
      PROVE  (IF <<i, k>> \in gone THEN "ended" ELSE calls[i][k]) \in
                Statuses \union {"none", "checked", "held", "expiring", "ended"}
  BY DEF CallsTypes
<1> QED
  BY <1>1, <1>2 DEF CallsTypes

\* What a poll may come to be, and a report.
PollStates ==
    [pc : {"off", "scan", "look", "drain", "claim", "respond"},
     todo : [Intents -> SUBSET Intents], row : Intents \union {NoOne}]

PostStates ==
    [pc : {"none", "sent", "marking", "filing", "settling", "over"},
     body : Bodies, again : BOOLEAN]

LEMMA Polling ==
    ASSUME PollsTypes, NEW p \in Polls, NEW x \in PollStates,
           polls' = [polls EXCEPT ![p] = x]
    PROVE  PollsTypes'
  BY DEF PollsTypes, PollStates

LEMMA Reporting ==
    ASSUME PostsTypes, NEW i \in Intents, NEW x \in PostStates,
           posts' = [posts EXCEPT ![i] = x]
    PROVE  PostsTypes'
  BY DEF PostsTypes, PostStates

LEMMA Skipping ==
    ASSUME PollsTypes, NEW p \in Polls, NEW i, Skip(p, i)
    PROVE  PollsTypes'
<1>1. polls[p] \in PollStates
  BY DEF PollsTypes, PollStates
<1>2. Leave(polls[p].todo, {i}) \in [Intents -> SUBSET Intents]
  BY <1>1, Leaving DEF PollStates
<1>3. PICK pc \in {"scan", "look"} : polls' = [polls EXCEPT ![p] =
          [pc |-> pc, todo |-> Leave(polls[p].todo, {i}), row |-> NoOne]]
  BY DEF Skip
<1> QED
  BY <1>2, <1>3, Polling DEF PollStates

LEMMA Refusing ==
    ASSUME NEW post \in PostStates
    PROVE  Refused(post) \in PostStates
  BY DEF Refused, PostStates, Bodies

\* What a claim leaves behind: nothing in flight, and a report on its way.
LEMMA Claiming ==
    ASSUME TypeOK, NEW body \in Bodies, ReportInFlight(body)
    PROVE  /\ inFlight' = NoOne
           /\ answered' \in Seq(Intents) /\ Len(answered') <= ReportedCap
           /\ PostsTypes'
<1>1. inFlight' = NoOne
  BY DEF ReportInFlight
<1>2. answered' \in Seq(Intents) /\ Len(answered') <= ReportedCap
  <2>1. answered \in Seq(Intents) /\ Len(answered) <= ReportedCap
    BY DEF TypeOK, ExtensionTypes
  <2>2. \/ answered' = answered
        \/ inFlight \in Intents /\ answered' = Remember(answered, inFlight, ReportedCap)
    BY DEF ReportInFlight, TypeOK, ExtensionTypes
  <2> QED
    BY <2>1, <2>2, Remembering, BrowserChannelAssumption
<1>3. PostsTypes'
  <2>1. \/ posts' = posts
        \/ /\ inFlight \in Intents
           /\ posts' = [posts EXCEPT ![inFlight] =
                  [pc |-> "sent", body |-> body, again |-> FALSE]]
    BY DEF ReportInFlight, TypeOK, ExtensionTypes
  <2>2. [pc |-> "sent", body |-> body, again |-> FALSE] \in PostStates
    BY DEF PostStates
  <2> QED
    BY <2>1, <2>2, Reporting DEF TypeOK, RequestTypes, PostsTypes
<1> QED
  BY <1>1, <1>2, <1>3

-----------------------------------------------------------------------------
(* Which steps write which part of the state.                              *)

LEMMA DatabaseWriters ==
    [Next]_vars =>
      \/ database' = database
      \/ \E i \in Intents, k \in Tries : Enqueue(i, k) \/ AnswerExpired(i, k)
      \/ \E i \in Intents : HaltAbandons(i) \/ MarkReported(i) \/ FileEvidence(i)
      \/ \E p \in Polls : Drain(p) \/ Claim(p)
<1> SUFFICES ASSUME Next \/ UNCHANGED vars
             PROVE
               \/ database' = database
               \/ \E i \in Intents, k \in Tries :
                     Enqueue(i, k) \/ AnswerExpired(i, k)
               \/ \E i \in Intents :
                     HaltAbandons(i) \/ MarkReported(i) \/ FileEvidence(i)
               \/ \E p \in Polls : Drain(p) \/ Claim(p)
  OBVIOUS
<1>1. ASSUME NEW i \in Intents, NEW k \in Tries,
              EnqueueFails(i, k) \/ AnswerSettledRow(i, k) \/ Hold(i, k)
              \/ Expire(i, k) \/ ExpiryUnreadable(i, k)
      PROVE  database' = database
  BY <1>1 DEF EnqueueFails, AnswerSettledRow, Hold, Expire, ExpiryUnreadable
<1>2. ASSUME NEW i \in Intents,
              Dispatch(i) \/ LoseSocket(i) \/ Conclude(i) \/ Begin(i) \/ OpenTab(i)
              \/ CannotOpen(i) \/ Act(i) \/ Finish(i) \/ ReportArrives(i)
              \/ ReportTooLarge(i) \/ ReportFails(i) \/ Settle(i)
      PROVE  database' = database
  BY <1>2 DEF Dispatch, LoseSocket, Conclude, Begin, OpenTab, CannotOpen, Act,
      Finish,
      ReportArrives, ReportTooLarge, ReportFails, Settle
<1>3. ASSUME NEW p \in Polls,
              Poll(p) \/ Scan(p) \/ Look(p) \/ Respond(p)
      PROVE  database' = database
  BY <1>3 DEF Poll, Scan, Look, Respond
<1>4. ASSUME
              \/ \E l \in Lettings :
                    Stop(l) \/ Block(l) \/ StopBlocked(l) \/ Detach(l)
                    \/ ChromeDetaches(l) \/ LeaveToOther(l) \/ ClaimLost(l)
                    \/ ClearTab(l) \/ Halt(l) \/ HaltUnheard(l)
              \/ Die \/ Revive \/ Restart
      PROVE  database' = database
  BY <1>4 DEF Stop, Block, StopBlocked, Detach, ChromeDetaches, LeaveToOther,
      ClaimLost, ClearTab, Halt, HaltUnheard, Die, Revive, Restart
<1>5. CASE UNCHANGED vars
  BY <1>5 DEF vars
<1> QED
  BY <1>1, <1>2, <1>3, <1>4, <1>5 DEF Next, Served

LEMMA StoreWriters ==
    [Next]_vars =>
      \/ store' = store
      \/ \E i \in Intents, k \in Tries : Hold(i, k) \/ Expire(i, k)
      \/ \E i \in Intents : Settle(i)
      \/ Restart \/ \E l \in Lettings : Halt(l)
<1> SUFFICES ASSUME Next \/ UNCHANGED vars
             PROVE
               \/ store' = store
               \/ \E i \in Intents, k \in Tries : Hold(i, k) \/ Expire(i, k)
               \/ \E i \in Intents : Settle(i)
               \/ Restart \/ \E l \in Lettings : Halt(l)
  OBVIOUS
<1>1. ASSUME NEW i \in Intents, NEW k \in Tries,
              Enqueue(i, k) \/ EnqueueFails(i, k) \/ AnswerSettledRow(i, k)
              \/ AnswerExpired(i, k) \/ ExpiryUnreadable(i, k)
      PROVE  store' = store
  BY <1>1 DEF Enqueue, EnqueueFails, AnswerSettledRow, AnswerExpired,
      ExpiryUnreadable, app
<1>2. ASSUME NEW i \in Intents,
              Dispatch(i) \/ LoseSocket(i) \/ Conclude(i) \/ Begin(i) \/ OpenTab(i)
              \/ CannotOpen(i) \/ Act(i) \/ Finish(i) \/ ReportArrives(i)
              \/ ReportTooLarge(i) \/ MarkReported(i) \/ FileEvidence(i)
              \/ ReportFails(i) \/ HaltAbandons(i)
      PROVE  store' = store
  BY <1>2 DEF Dispatch, LoseSocket, Conclude, Begin, OpenTab, CannotOpen, Act,
      Finish,
      ReportArrives, ReportTooLarge, MarkReported, FileEvidence, ReportFails,
      HaltAbandons, app
<1>3. ASSUME NEW p \in Polls,
              Poll(p) \/ Scan(p) \/ Look(p) \/ Drain(p) \/ Claim(p) \/ Respond(p)
      PROVE  store' = store
  BY <1>3 DEF Poll, Scan, Look, Drain, Claim, Respond, app
<1>4. ASSUME
              \/ \E l \in Lettings :
                    Stop(l) \/ Block(l) \/ StopBlocked(l) \/ Detach(l)
                    \/ ChromeDetaches(l) \/ LeaveToOther(l) \/ ClaimLost(l)
                    \/ ClearTab(l) \/ HaltUnheard(l)
              \/ Die \/ Revive
      PROVE  store' = store
  BY <1>4 DEF Stop, Block, StopBlocked, Detach, ChromeDetaches, LeaveToOther,
      ClaimLost, ClearTab, HaltUnheard, Die, Revive, app
<1>5. CASE UNCHANGED vars
  BY <1>5 DEF vars, app
<1> QED
  BY <1>1, <1>2, <1>3, <1>4, <1>5 DEF Next, Served

LEMMA CallsWriters ==
    [Next]_vars =>
      \/ calls' = calls
      \/ \E i \in Intents, k \in Tries :
            Enqueue(i, k) \/ EnqueueFails(i, k) \/ AnswerSettledRow(i, k)
            \/ Hold(i, k) \/ Expire(i, k) \/ AnswerExpired(i, k)
            \/ ExpiryUnreadable(i, k)
      \/ \E i \in Intents : Dispatch(i) \/ Settle(i)
      \/ Restart \/ \E l \in Lettings : Halt(l)
<1> SUFFICES ASSUME Next \/ UNCHANGED vars
             PROVE
               \/ calls' = calls
               \/ \E i \in Intents, k \in Tries :
                     Enqueue(i, k) \/ EnqueueFails(i, k) \/ AnswerSettledRow(i, k)
                     \/ Hold(i, k) \/ Expire(i, k) \/ AnswerExpired(i, k)
                     \/ ExpiryUnreadable(i, k)
               \/ \E i \in Intents : Dispatch(i) \/ Settle(i)
               \/ Restart \/ \E l \in Lettings : Halt(l)
  OBVIOUS
<1>1. ASSUME NEW i \in Intents,
              LoseSocket(i) \/ Conclude(i) \/ Begin(i) \/ OpenTab(i)
              \/ CannotOpen(i)
              \/ Act(i) \/ Finish(i) \/ ReportArrives(i) \/ ReportTooLarge(i)
              \/ MarkReported(i) \/ FileEvidence(i) \/ ReportFails(i)
              \/ HaltAbandons(i)
      PROVE  calls' = calls
  BY <1>1 DEF LoseSocket, Conclude, Begin, OpenTab, CannotOpen, Act, Finish,
      ReportArrives, ReportTooLarge, MarkReported, FileEvidence, ReportFails,
      HaltAbandons, app
<1>2. ASSUME NEW p \in Polls,
              Poll(p) \/ Scan(p) \/ Look(p) \/ Drain(p) \/ Claim(p) \/ Respond(p)
      PROVE  calls' = calls
  BY <1>2 DEF Poll, Scan, Look, Drain, Claim, Respond, app
<1>3. ASSUME
              \/ \E l \in Lettings :
                    Stop(l) \/ Block(l) \/ StopBlocked(l) \/ Detach(l)
                    \/ ChromeDetaches(l) \/ LeaveToOther(l) \/ ClaimLost(l)
                    \/ ClearTab(l) \/ HaltUnheard(l)
              \/ Die \/ Revive
      PROVE  calls' = calls
  BY <1>3 DEF Stop, Block, StopBlocked, Detach, ChromeDetaches, LeaveToOther,
      ClaimLost, ClearTab, HaltUnheard, Die, Revive, app
<1>4. CASE UNCHANGED vars
  BY <1>4 DEF vars, app
<1> QED
  BY <1>1, <1>2, <1>3, <1>4 DEF Next, Served

LEMMA PollsWriters ==
    [Next]_vars =>
      \/ polls' = polls
      \/ \E p \in Polls :
            Poll(p) \/ Scan(p) \/ Look(p) \/ Drain(p) \/ Claim(p) \/ Respond(p)
      \/ Restart
<1> SUFFICES ASSUME Next \/ UNCHANGED vars
             PROVE
               \/ polls' = polls
               \/ \E p \in Polls :
                     Poll(p) \/ Scan(p) \/ Look(p) \/ Drain(p) \/ Claim(p)
                     \/ Respond(p)
               \/ Restart
  OBVIOUS
<1>1. ASSUME NEW i \in Intents, NEW k \in Tries,
              Enqueue(i, k) \/ EnqueueFails(i, k) \/ AnswerSettledRow(i, k)
              \/ Hold(i, k) \/ Expire(i, k) \/ AnswerExpired(i, k)
              \/ ExpiryUnreadable(i, k)
      PROVE  polls' = polls
  BY <1>1 DEF Enqueue, EnqueueFails, AnswerSettledRow, Hold, Expire,
      AnswerExpired, ExpiryUnreadable, app
<1>2. ASSUME NEW i \in Intents,
              Dispatch(i) \/ LoseSocket(i) \/ Conclude(i) \/ Begin(i) \/ OpenTab(i)
              \/ CannotOpen(i) \/ Act(i) \/ Finish(i) \/ ReportArrives(i)
              \/ ReportTooLarge(i) \/ MarkReported(i) \/ FileEvidence(i)
              \/ ReportFails(i) \/ Settle(i) \/ HaltAbandons(i)
      PROVE  polls' = polls
  BY <1>2 DEF Dispatch, LoseSocket, Conclude, Begin, OpenTab, CannotOpen, Act,
      Finish,
      ReportArrives, ReportTooLarge, MarkReported, FileEvidence, ReportFails,
      Settle, HaltAbandons, app
<1>3. ASSUME
              \/ \E l \in Lettings :
                    Stop(l) \/ Block(l) \/ StopBlocked(l) \/ Detach(l)
                    \/ ChromeDetaches(l) \/ LeaveToOther(l) \/ ClaimLost(l)
                    \/ ClearTab(l) \/ Halt(l) \/ HaltUnheard(l)
              \/ Die \/ Revive
      PROVE  polls' = polls
  BY <1>3 DEF Stop, Block, StopBlocked, Detach, ChromeDetaches, LeaveToOther,
      ClaimLost, ClearTab, Halt, HaltUnheard, Die, Revive, app
<1>4. CASE UNCHANGED vars
  BY <1>4 DEF vars, app
<1> QED
  BY <1>1, <1>2, <1>3, <1>4 DEF Next, Served

LEMMA StoppingWriters ==
    [Next]_vars =>
      \/ stopping' = stopping
      \/ \E i \in Intents : HaltAbandons(i)
      \/ Restart \/ \E l \in Lettings : Halt(l)
<1> SUFFICES ASSUME Next \/ UNCHANGED vars
             PROVE
               \/ stopping' = stopping
               \/ \E i \in Intents : HaltAbandons(i)
               \/ Restart \/ \E l \in Lettings : Halt(l)
  OBVIOUS
<1>1. ASSUME NEW i \in Intents, NEW k \in Tries,
              Enqueue(i, k) \/ EnqueueFails(i, k) \/ AnswerSettledRow(i, k)
              \/ Hold(i, k) \/ Expire(i, k) \/ AnswerExpired(i, k)
              \/ ExpiryUnreadable(i, k)
      PROVE  stopping' = stopping
  BY <1>1 DEF Enqueue, EnqueueFails, AnswerSettledRow, Hold, Expire,
      AnswerExpired, ExpiryUnreadable, app
<1>2. ASSUME NEW i \in Intents,
              Dispatch(i) \/ LoseSocket(i) \/ Conclude(i) \/ Begin(i) \/ OpenTab(i)
              \/ CannotOpen(i) \/ Act(i) \/ Finish(i) \/ ReportArrives(i)
              \/ ReportTooLarge(i) \/ MarkReported(i) \/ FileEvidence(i)
              \/ ReportFails(i) \/ Settle(i)
      PROVE  stopping' = stopping
  BY <1>2 DEF Dispatch, LoseSocket, Conclude, Begin, OpenTab, CannotOpen, Act,
      Finish,
      ReportArrives, ReportTooLarge, MarkReported, FileEvidence, ReportFails,
      Settle, app
<1>3. ASSUME NEW p \in Polls,
              Poll(p) \/ Scan(p) \/ Look(p) \/ Drain(p) \/ Claim(p) \/ Respond(p)
      PROVE  stopping' = stopping
  BY <1>3 DEF Poll, Scan, Look, Drain, Claim, Respond, app
<1>4. ASSUME
              \/ \E l \in Lettings :
                    Stop(l) \/ Block(l) \/ StopBlocked(l) \/ Detach(l)
                    \/ ChromeDetaches(l) \/ LeaveToOther(l) \/ ClaimLost(l)
                    \/ ClearTab(l) \/ HaltUnheard(l)
              \/ Die \/ Revive
      PROVE  stopping' = stopping
  BY <1>4 DEF Stop, Block, StopBlocked, Detach, ChromeDetaches, LeaveToOther,
      ClaimLost, ClearTab, HaltUnheard, Die, Revive, app
<1>5. CASE UNCHANGED vars
  BY <1>5 DEF vars, app
<1> QED
  BY <1>1, <1>2, <1>3, <1>4, <1>5 DEF Next, Served

LEMMA PostsWriters ==
    [Next]_vars =>
      \/ posts' = posts
      \/ \E i \in Intents :
            CannotOpen(i) \/ Finish(i) \/ ReportArrives(i) \/ ReportTooLarge(i)
            \/ MarkReported(i) \/ FileEvidence(i) \/ ReportFails(i) \/ Settle(i)
      \/ Restart \/ \E l \in Lettings : Block(l) \/ ClearTab(l)
<1> SUFFICES ASSUME Next \/ UNCHANGED vars
             PROVE
               \/ posts' = posts
               \/ \E i \in Intents :
                     CannotOpen(i) \/ Finish(i) \/ ReportArrives(i)
                     \/ ReportTooLarge(i) \/ MarkReported(i) \/ FileEvidence(i)
                     \/ ReportFails(i) \/ Settle(i)
               \/ Restart \/ \E l \in Lettings : Block(l) \/ ClearTab(l)
  OBVIOUS
<1>1. ASSUME NEW i \in Intents, NEW k \in Tries,
              Enqueue(i, k) \/ EnqueueFails(i, k) \/ AnswerSettledRow(i, k)
              \/ Hold(i, k) \/ Expire(i, k) \/ AnswerExpired(i, k)
              \/ ExpiryUnreadable(i, k)
      PROVE  posts' = posts
  BY <1>1 DEF Enqueue, EnqueueFails, AnswerSettledRow, Hold, Expire,
      AnswerExpired, ExpiryUnreadable, app
<1>2. ASSUME NEW i \in Intents,
              Dispatch(i) \/ LoseSocket(i) \/ Conclude(i) \/ Begin(i)
              \/ OpenTab(i) \/ Act(i)
              \/ HaltAbandons(i)
      PROVE  posts' = posts
  BY <1>2 DEF Dispatch, LoseSocket, Conclude, Begin, OpenTab, Act, HaltAbandons, app
<1>3. ASSUME NEW p \in Polls,
              Poll(p) \/ Scan(p) \/ Look(p) \/ Drain(p) \/ Claim(p) \/ Respond(p)
      PROVE  posts' = posts
  BY <1>3 DEF Poll, Scan, Look, Drain, Claim, Respond, app
<1>4. ASSUME
              \/ \E l \in Lettings :
                    Stop(l) \/ StopBlocked(l) \/ Detach(l)
                    \/ ChromeDetaches(l) \/ LeaveToOther(l) \/ ClaimLost(l)
                    \/ Halt(l) \/ HaltUnheard(l)
              \/ Die \/ Revive
      PROVE  posts' = posts
  BY <1>4 DEF Stop, StopBlocked, Detach, ChromeDetaches, LeaveToOther,
      ClaimLost, Halt, HaltUnheard, Die, Revive, app
<1>5. CASE UNCHANGED vars
  BY <1>5 DEF vars, app
<1> QED
  BY <1>1, <1>2, <1>3, <1>4, <1>5 DEF Next, Served

LEMMA WorkerWriters ==
    [Next]_vars =>
      \/ worker' = worker
      \/ \E i \in Intents, k \in Tries :
            EnqueueFails(i, k) \/ AnswerSettledRow(i, k) \/ Hold(i, k)
            \/ AnswerExpired(i, k) \/ ExpiryUnreadable(i, k)
      \/ \E i \in Intents :
            Dispatch(i) \/ LoseSocket(i) \/ Conclude(i) \/ Settle(i)
      \/ Restart \/ \E l \in Lettings : Halt(l)
<1> SUFFICES ASSUME Next \/ UNCHANGED vars
             PROVE
               \/ worker' = worker
               \/ \E i \in Intents, k \in Tries :
                     EnqueueFails(i, k) \/ AnswerSettledRow(i, k) \/ Hold(i, k)
                     \/ AnswerExpired(i, k) \/ ExpiryUnreadable(i, k)
               \/ \E i \in Intents :
                     Dispatch(i) \/ LoseSocket(i) \/ Conclude(i) \/ Settle(i)
               \/ Restart \/ \E l \in Lettings : Halt(l)
  OBVIOUS
<1>1. ASSUME NEW i \in Intents, NEW k \in Tries,
              Enqueue(i, k) \/ Expire(i, k)
      PROVE  worker' = worker
  BY <1>1 DEF Enqueue, Expire
<1>2. ASSUME NEW i \in Intents,
              Begin(i) \/ OpenTab(i) \/ CannotOpen(i) \/ Act(i) \/ Finish(i)
              \/ ReportArrives(i) \/ ReportTooLarge(i) \/ MarkReported(i)
              \/ FileEvidence(i) \/ ReportFails(i) \/ HaltAbandons(i)
      PROVE  worker' = worker
  BY <1>2 DEF Begin, OpenTab, CannotOpen, Act, Finish, ReportArrives,
      ReportTooLarge,
      MarkReported, FileEvidence, ReportFails, HaltAbandons
<1>3. ASSUME NEW p \in Polls,
              Poll(p) \/ Scan(p) \/ Look(p) \/ Drain(p) \/ Claim(p) \/ Respond(p)
      PROVE  worker' = worker
  BY <1>3 DEF Poll, Scan, Look, Drain, Claim, Respond
<1>4. ASSUME
              \/ \E l \in Lettings :
                    Stop(l) \/ Block(l) \/ StopBlocked(l) \/ Detach(l)
                    \/ ChromeDetaches(l) \/ LeaveToOther(l) \/ ClaimLost(l)
                    \/ ClearTab(l) \/ HaltUnheard(l)
              \/ Die \/ Revive
      PROVE  worker' = worker
  BY <1>4 DEF Stop, Block, StopBlocked, Detach, ChromeDetaches, LeaveToOther,
      ClaimLost, ClearTab, HaltUnheard, Die, Revive
<1>5. CASE UNCHANGED vars
  BY <1>5 DEF vars
<1> QED
  BY <1>1, <1>2, <1>3, <1>4, <1>5 DEF Next, Served

LEMMA ExtensionWriters ==
    [Next]_vars =>
      \/ extension' = extension
      \/ \E i \in Intents : Begin(i) \/ OpenTab(i) \/ CannotOpen(i)
                            \/ Act(i) \/ Finish(i)
      \/ \E p \in Polls : Poll(p) \/ Respond(p)
      \/ Restart \/ Die \/ Revive
      \/ \E l \in Lettings :
            Stop(l) \/ Block(l) \/ StopBlocked(l) \/ Detach(l)
            \/ ChromeDetaches(l) \/ LeaveToOther(l) \/ ClaimLost(l)
            \/ ClearTab(l) \/ Halt(l) \/ HaltUnheard(l)
<1> SUFFICES ASSUME Next \/ UNCHANGED vars
             PROVE
               \/ extension' = extension
               \/ \E i \in Intents :
                     Begin(i) \/ OpenTab(i) \/ CannotOpen(i) \/ Act(i) \/ Finish(i)
               \/ \E p \in Polls : Poll(p) \/ Respond(p)
               \/ Restart \/ Die \/ Revive
               \/ \E l \in Lettings :
                     Stop(l) \/ Block(l) \/ StopBlocked(l) \/ Detach(l)
                     \/ ChromeDetaches(l) \/ LeaveToOther(l) \/ ClaimLost(l)
                     \/ ClearTab(l) \/ Halt(l) \/ HaltUnheard(l)
  OBVIOUS
<1>1. ASSUME NEW i \in Intents, NEW k \in Tries,
              Enqueue(i, k) \/ EnqueueFails(i, k) \/ AnswerSettledRow(i, k)
              \/ Hold(i, k) \/ Expire(i, k) \/ AnswerExpired(i, k)
              \/ ExpiryUnreadable(i, k)
      PROVE  extension' = extension
  BY <1>1 DEF Enqueue, EnqueueFails, AnswerSettledRow, Hold, Expire,
      AnswerExpired, ExpiryUnreadable
<1>2. ASSUME NEW i \in Intents,
              Dispatch(i) \/ LoseSocket(i) \/ Conclude(i) \/ ReportArrives(i)
              \/ ReportTooLarge(i) \/ MarkReported(i) \/ FileEvidence(i)
              \/ ReportFails(i) \/ Settle(i) \/ HaltAbandons(i)
      PROVE  extension' = extension
  BY <1>2 DEF Dispatch, LoseSocket, Conclude, ReportArrives, ReportTooLarge,
      MarkReported, FileEvidence, ReportFails, Settle, HaltAbandons
<1>3. ASSUME NEW p \in Polls,
              Scan(p) \/ Look(p) \/ Drain(p) \/ Claim(p)
      PROVE  extension' = extension
  BY <1>3 DEF Scan, Look, Drain, Claim
<1>4. CASE UNCHANGED vars
  BY <1>4 DEF vars
<1> QED
  BY <1>1, <1>2, <1>3, <1>4 DEF Next, Served

LEMMA EffectsWriters ==
    [Next]_vars =>
      \/ effects' = effects
      \/ \E i \in Intents : Act(i)
<1> SUFFICES ASSUME Next \/ UNCHANGED vars
             PROVE
               \/ effects' = effects
               \/ \E i \in Intents : Act(i)
  OBVIOUS
<1>1. ASSUME NEW i \in Intents, NEW k \in Tries,
              Enqueue(i, k) \/ EnqueueFails(i, k) \/ AnswerSettledRow(i, k)
              \/ Hold(i, k) \/ Expire(i, k) \/ AnswerExpired(i, k)
              \/ ExpiryUnreadable(i, k)
      PROVE  effects' = effects
  BY <1>1 DEF Enqueue, EnqueueFails, AnswerSettledRow, Hold, Expire,
      AnswerExpired, ExpiryUnreadable
<1>2. ASSUME NEW i \in Intents,
              Dispatch(i) \/ LoseSocket(i) \/ Conclude(i) \/ Begin(i) \/ OpenTab(i)
              \/ CannotOpen(i) \/ Finish(i) \/ ReportArrives(i)
              \/ ReportTooLarge(i) \/ MarkReported(i) \/ FileEvidence(i)
              \/ ReportFails(i) \/ Settle(i) \/ HaltAbandons(i)
      PROVE  effects' = effects
  BY <1>2 DEF Dispatch, LoseSocket, Conclude, Begin, OpenTab, CannotOpen, Finish,
      ReportArrives, ReportTooLarge, MarkReported, FileEvidence, ReportFails,
      Settle, HaltAbandons
<1>3. ASSUME NEW p \in Polls,
              Poll(p) \/ Scan(p) \/ Look(p) \/ Drain(p) \/ Claim(p) \/ Respond(p)
      PROVE  effects' = effects
  BY <1>3 DEF Poll, Scan, Look, Drain, Claim, Respond
<1>4. ASSUME
              \/ \E l \in Lettings :
                    Stop(l) \/ Block(l) \/ StopBlocked(l) \/ Detach(l)
                    \/ ChromeDetaches(l) \/ LeaveToOther(l) \/ ClaimLost(l)
                    \/ ClearTab(l) \/ Halt(l) \/ HaltUnheard(l)
              \/ Die \/ Revive \/ Restart
      PROVE  effects' = effects
  BY <1>4 DEF Stop, Block, StopBlocked, Detach, ChromeDetaches, LeaveToOther,
      ClaimLost, ClearTab, Halt, HaltUnheard, Die, Revive, Restart
<1>5. CASE UNCHANGED vars
  BY <1>5 DEF vars
<1> QED
  BY <1>1, <1>2, <1>3, <1>4, <1>5 DEF Next, Served

LEMMA FaultsWriters == [Next]_vars => faults' = faults \/ Fault
<1> SUFFICES ASSUME Next \/ UNCHANGED vars PROVE faults' = faults \/ Fault
  OBVIOUS
<1>1. ASSUME NEW i \in Intents, NEW k \in Tries,
              Enqueue(i, k) \/ AnswerSettledRow(i, k) \/ Hold(i, k)
              \/ Expire(i, k) \/ AnswerExpired(i, k)
      PROVE  faults' = faults
  BY <1>1 DEF Enqueue, AnswerSettledRow, Hold, Expire, AnswerExpired
<1>2. ASSUME NEW i \in Intents, NEW k \in Tries,
              EnqueueFails(i, k) \/ ExpiryUnreadable(i, k)
      PROVE  Fault
  BY <1>2 DEF EnqueueFails, ExpiryUnreadable
<1>3. ASSUME NEW i \in Intents,
              Dispatch(i) \/ Conclude(i) \/ Begin(i) \/ OpenTab(i)
              \/ CannotOpen(i) \/ Act(i)
              \/ Finish(i) \/ ReportArrives(i) \/ MarkReported(i)
              \/ FileEvidence(i) \/ Settle(i) \/ HaltAbandons(i)
      PROVE  faults' = faults
  BY <1>3 DEF Dispatch, Conclude, Begin, OpenTab, CannotOpen, Act, Finish,
      ReportArrives, MarkReported, FileEvidence, Settle, HaltAbandons
<1>4. ASSUME NEW i \in Intents,
              LoseSocket(i) \/ ReportTooLarge(i) \/ ReportFails(i)
      PROVE  Fault
  BY <1>4 DEF LoseSocket, ReportTooLarge, ReportFails
<1>5. ASSUME NEW p \in Polls,
              Poll(p) \/ Scan(p) \/ Look(p) \/ Drain(p) \/ Claim(p) \/ Respond(p)
      PROVE  faults' = faults
  BY <1>5 DEF Poll, Scan, Look, Drain, Claim, Respond
<1>6. ASSUME
              \/ \E l \in Lettings :
                    StopBlocked(l) \/ Detach(l) \/ LeaveToOther(l)
                    \/ ClaimLost(l) \/ ClearTab(l) \/ Halt(l)
              \/ Revive
      PROVE  faults' = faults
  BY <1>6 DEF StopBlocked, Detach, LeaveToOther, ClaimLost, ClearTab, Halt,
      Revive
<1>7. ASSUME
              \/ \E l \in Lettings :
                    Stop(l) \/ Block(l) \/ ChromeDetaches(l) \/ HaltUnheard(l)
              \/ Die \/ Restart
      PROVE  Fault
  BY <1>7 DEF Stop, Block, ChromeDetaches, HaltUnheard, Die, Restart
<1>8. CASE UNCHANGED vars
  BY <1>8 DEF vars
<1> QED
  BY <1>1, <1>2, <1>3, <1>4, <1>5, <1>6, <1>7, <1>8 DEF Next, Served

LEMMA OwnerFixed == [Next]_vars => owner' = owner
<1> SUFFICES ASSUME Next \/ UNCHANGED vars PROVE owner' = owner
  OBVIOUS
<1>1. ASSUME NEW i \in Intents, NEW k \in Tries,
              Enqueue(i, k) \/ EnqueueFails(i, k) \/ AnswerSettledRow(i, k)
              \/ Hold(i, k) \/ Expire(i, k) \/ AnswerExpired(i, k)
              \/ ExpiryUnreadable(i, k)
      PROVE  owner' = owner
  BY <1>1 DEF Enqueue, EnqueueFails, AnswerSettledRow, Hold, Expire,
      AnswerExpired, ExpiryUnreadable, database
<1>2. ASSUME NEW i \in Intents,
              Dispatch(i) \/ LoseSocket(i) \/ Conclude(i) \/ Begin(i) \/ OpenTab(i)
              \/ CannotOpen(i) \/ Act(i) \/ Finish(i) \/ ReportArrives(i)
              \/ ReportTooLarge(i) \/ MarkReported(i) \/ FileEvidence(i)
              \/ ReportFails(i) \/ Settle(i) \/ HaltAbandons(i)
      PROVE  owner' = owner
  BY <1>2 DEF Dispatch, LoseSocket, Conclude, Begin, OpenTab, CannotOpen, Act,
      Finish,
      ReportArrives, ReportTooLarge, MarkReported, FileEvidence, ReportFails,
      Settle, HaltAbandons, database
<1>3. ASSUME NEW p \in Polls,
              Poll(p) \/ Scan(p) \/ Look(p) \/ Drain(p) \/ Claim(p) \/ Respond(p)
      PROVE  owner' = owner
  BY <1>3 DEF Poll, Scan, Look, Drain, Claim, Respond, database
<1>4. ASSUME
              \/ \E l \in Lettings :
                    Stop(l) \/ Block(l) \/ StopBlocked(l) \/ Detach(l)
                    \/ ChromeDetaches(l) \/ LeaveToOther(l) \/ ClaimLost(l)
                    \/ ClearTab(l) \/ Halt(l) \/ HaltUnheard(l)
              \/ Die \/ Revive \/ Restart
      PROVE  owner' = owner
  BY <1>4 DEF Stop, Block, StopBlocked, Detach, ChromeDetaches, LeaveToOther,
      ClaimLost, ClearTab, Halt, HaltUnheard, Die, Revive, Restart, database
<1>5. CASE UNCHANGED vars
  BY <1>5 DEF vars, database
<1> QED
  BY <1>1, <1>2, <1>3, <1>4, <1>5 DEF Next, Served

-----------------------------------------------------------------------------
(* Types.                                                                  *)

LEMMA DatabaseTypesStep == TypeOK /\ [Next]_vars => DatabaseTypes'
<1> SUFFICES ASSUME TypeOK, [Next]_vars PROVE DatabaseTypes'
  OBVIOUS
<1>1. CASE database' = database
  BY <1>1 DEF TypeOK, DatabaseTypes, database
<1>2. ASSUME NEW i \in Intents, NEW k \in Tries, Enqueue(i, k) PROVE DatabaseTypes'
  <2>1. Join(created, i) \in [Intents -> SUBSET Intents]
    BY Joining DEF TypeOK, DatabaseTypes
  <2>2. /\ row' = row \/ row' = [row EXCEPT ![i] = "queued"]
        /\ created' = created \/ created' = Join(created, i)
        /\ UNCHANGED <<owner, evidence>>
    BY <1>2 DEF Enqueue
  <2> QED
    BY <2>1, <2>2 DEF TypeOK, DatabaseTypes, Statuses
<1>3. ASSUME NEW i \in Intents, NEW k \in Tries, AnswerExpired(i, k) PROVE DatabaseTypes'
  BY <1>3 DEF AnswerExpired, TypeOK, DatabaseTypes, Statuses
<1>4. ASSUME NEW p \in Polls, Drain(p) PROVE DatabaseTypes'
  BY <1>4 DEF Drain, TypeOK, DatabaseTypes, Statuses, RequestTypes, PollsTypes
<1>5. ASSUME NEW p \in Polls, Claim(p) PROVE DatabaseTypes'
  BY <1>5 DEF Claim, TypeOK, DatabaseTypes, Statuses, RequestTypes, PollsTypes
<1>6. ASSUME NEW i \in Intents, HaltAbandons(i) PROVE DatabaseTypes'
  BY <1>6 DEF HaltAbandons, TypeOK, DatabaseTypes, Statuses
<1>7. ASSUME NEW i \in Intents, MarkReported(i) PROVE DatabaseTypes'
  BY <1>7 DEF MarkReported, TypeOK, DatabaseTypes, Statuses
<1>8. ASSUME NEW i \in Intents, FileEvidence(i) PROVE DatabaseTypes'
  BY <1>8 DEF FileEvidence, TypeOK, DatabaseTypes
<1> QED
  BY DatabaseWriters, <1>1, <1>2, <1>3, <1>4, <1>5, <1>6, <1>7, <1>8

LEMMA StoreTypesStep == TypeOK /\ [Next]_vars => StoreTypes'
<1> SUFFICES ASSUME TypeOK, [Next]_vars PROVE StoreTypes'
  OBVIOUS
<1>1. CASE store' = store
  BY <1>1 DEF TypeOK, StoreTypes, Release, Tries, store
<1>2. ASSUME NEW i \in Intents, NEW k \in Tries, Hold(i, k) PROVE StoreTypes'
  <2>1. /\ Join(waiting, i) \in [Intents -> SUBSET Intents]
        /\ \A gone : Leave(waiting, gone) \in [Intents -> SUBSET Intents]
    BY Leaving, Joining DEF TypeOK, StoreTypes
  <2>2. \/ \E gone : Release(gone)
        \/ holds' = [holds EXCEPT ![i] = k] /\ waiting' = Join(waiting, i)
    BY <1>2 DEF Hold
  <2>3. halted' = halted
    BY <1>2 DEF Hold
  <2> QED
    BY <2>1, <2>2, <2>3 DEF TypeOK, StoreTypes, Release
<1>3. ASSUME NEW i \in Intents, NEW k \in Tries, Expire(i, k) PROVE StoreTypes'
  BY <1>3, Leaving, BrowserChannelAssumption DEF Expire, TypeOK, StoreTypes,
      Release, Tries
<1>4. CASE Restart
  BY <1>4, BrowserChannelAssumption DEF Restart, StoreTypes, NoLine
<1>5. ASSUME NEW l \in Lettings, Halt(l) PROVE StoreTypes'
  <2> DEFINE run == owner[release[l].tab]
  <2>0. run \in Runs
    BY <1>5 DEF Halt, TypeOK, DatabaseTypes, ExtensionTypes
  <2>1. \E gone : Release(gone)
    BY <1>5 DEF Halt
  <2>2. \A gone : Leave(waiting, gone) \in [Intents -> SUBSET Intents]
    BY Leaving, Joining DEF TypeOK, StoreTypes
  <2>3. /\ holds' \in [Intents -> Tries \union {0}]
        /\ waiting' \in [Intents -> SUBSET Intents]
    BY <2>1, <2>2 DEF Release, TypeOK, StoreTypes
  <2>4. \/ halted' = halted
        \/ halted' = Remember(halted, run, HaltedMemory)
    BY <1>5 DEF Halt
  <2>5. halted' \in Seq(Runs) /\ Len(halted') <= HaltedMemory
    BY <2>0, <2>4, Remembering, BrowserChannelAssumption DEF TypeOK, StoreTypes
  <2> QED
    BY <2>3, <2>5 DEF StoreTypes
<1>6. ASSUME NEW i \in Intents, Settle(i) PROVE StoreTypes'
  BY <1>6, Leaving, BrowserChannelAssumption DEF Settle, TypeOK, StoreTypes,
      Release, Tries
<1> QED
  BY StoreWriters, <1>1, <1>2, <1>3, <1>4, <1>5, <1>6

LEMMA WorkerTypesStep == TypeOK /\ [Next]_vars => WorkerTypes'
<1> SUFFICES ASSUME TypeOK, [Next]_vars PROVE WorkerTypes'
  OBVIOUS
<1>1. CASE worker' = worker
  BY <1>1 DEF TypeOK, WorkerTypes, Answer, Bodies, worker
<1>2. ASSUME NEW i \in Intents, Dispatch(i) PROVE WorkerTypes'
  <2>1. /\ tries[i] \in Nat
        /\ tries[i] + 1 \in 0 .. MaxTries
    BY <1>2, BrowserChannelAssumption DEF Dispatch, TypeOK, WorkerTypes
  <2>2. /\ tries' = [tries EXCEPT ![i] = tries[i] + 1]
        /\ \/ heard' = [heard EXCEPT ![i] =
                 [is |-> "answered", by |-> "app", what |-> "control-lost"]]
           \/ heard' = [heard EXCEPT ![i] =
                 [is |-> "waiting", by |-> "nobody", what |-> "ok"]]
    BY <1>2 DEF Dispatch
  <2> QED
    BY <2>1, <2>2 DEF TypeOK, WorkerTypes, Bodies
<1>3. ASSUME NEW i \in Intents, NEW k \in Tries, EnqueueFails(i, k) PROVE WorkerTypes'
  <2>1. /\ \E gone : Answer(gone, "client", "not-delivered")
        /\ tries' = tries
    BY <1>3 DEF EnqueueFails
  <2> QED
    BY <2>1, Answering DEF TypeOK, Bodies
<1>4. ASSUME NEW i \in Intents, NEW k \in Tries, AnswerSettledRow(i, k) PROVE WorkerTypes'
  <2>1. /\ \E gone : \E what \in {"not-reported", "not-delivered"} : Answer(gone, "app", what)
        /\ tries' = tries
    BY <1>4 DEF AnswerSettledRow
  <2> QED
    BY <2>1, Answering DEF TypeOK, Bodies
<1>5. ASSUME NEW i \in Intents, NEW k \in Tries, Hold(i, k) PROVE WorkerTypes'
  <2>1. /\ \E gone : \E what \in {"control-lost", "not-reported"} : Answer(gone, "app", what)
        /\ tries' = tries
    BY <1>5 DEF Hold
  <2> QED
    BY <2>1, Answering DEF TypeOK, Bodies
<1>6. ASSUME NEW i \in Intents, NEW k \in Tries, AnswerExpired(i, k) PROVE WorkerTypes'
  <2>1. /\ \E gone : \E what \in {"not-reported", "not-delivered"} : Answer(gone, "app", what)
        /\ tries' = tries
    BY <1>6 DEF AnswerExpired
  <2> QED
    BY <2>1, Answering DEF TypeOK, Bodies
<1>7. ASSUME NEW i \in Intents, NEW k \in Tries, ExpiryUnreadable(i, k) PROVE WorkerTypes'
  <2>1. /\ \E gone : Answer(gone, "app", "not-reported")
        /\ tries' = tries
    BY <1>7 DEF ExpiryUnreadable
  <2> QED
    BY <2>1, Answering DEF TypeOK, Bodies
<1>8. ASSUME NEW i \in Intents, LoseSocket(i) PROVE WorkerTypes'
  BY <1>8 DEF LoseSocket, TypeOK, WorkerTypes, Answer, Bodies
<1>9. ASSUME NEW i \in Intents, Conclude(i) PROVE WorkerTypes'
  BY <1>9 DEF Conclude, TypeOK, WorkerTypes, Answer, Bodies
<1>10. CASE Restart
  <2>1. /\ tries' = tries
        /\ heard' = [i \in Intents |->
                IF heard[i].is = "waiting" THEN [heard[i] EXCEPT !.is = "lost"]
                ELSE heard[i]]
    BY <1>10 DEF Restart
  <2> QED
    BY <2>1 DEF TypeOK, WorkerTypes
<1>11. ASSUME NEW l \in Lettings, Halt(l) PROVE WorkerTypes'
  <2>1. /\ \E gone : Answer(gone, "app", "control-lost")
        /\ tries' = tries
    BY <1>11 DEF Halt
  <2> QED
    BY <2>1, Answering DEF TypeOK, Bodies
<1>12. ASSUME NEW i \in Intents, Settle(i) PROVE WorkerTypes'
  <2>1. /\ \E gone : Answer(gone, "browser", posts[i].body)
        /\ tries' = tries
    BY <1>12 DEF Settle
  <2>2. posts[i].body \in Bodies
    BY DEF TypeOK, RequestTypes, PostsTypes
  <2> QED
    BY <2>1, <2>2, Answering DEF TypeOK
<1> QED
  BY WorkerWriters, <1>1, <1>2, <1>3, <1>4, <1>5, <1>6, <1>7, <1>8,
      <1>9, <1>10, <1>11, <1>12

\* What a letting-go may come to be.
LettingStates ==
    [pc : {"none", "blocked", "detaching", "detached", "claimed", "telling"},
     tab : Intents \union {NoOne}, intent : Intents \union {NoOne}]

\* What it has read, unless it is none or still to read.
Reads(x) == x \in LettingStates /\ (x.pc \notin {"none", "blocked"} => x.tab \in Intents)

LEMMA Letting ==
    ASSUME ExtensionTypes, NEW l \in Lettings, NEW x, Reads(x),
           release' = [release EXCEPT ![l] = x]
    PROVE  /\ release' \in [Lettings -> LettingStates]
           /\ \A m \in Lettings :
                 release'[m].pc \notin {"none", "blocked"} => release'[m].tab \in Intents
  BY DEF ExtensionTypes, LettingStates, Reads

\* A step of a letting-go that leaves the loop and the tab alone, or forgets it.
LEMMA LettingTyped ==
    ASSUME ExtensionTypes, NEW l \in Lettings, NEW x, Reads(x),
           release' = [release EXCEPT ![l] = x],
           loop' = loop, inFlight' \in Intents \union {NoOne},
           answered' \in Seq(Intents), Len(answered') <= ReportedCap,
           tab' \in {tab, NoOne}, attached' \in BOOLEAN
    PROVE  ExtensionTypes'
<1>1. /\ release' \in [Lettings -> LettingStates]
      /\ \A m \in Lettings :
            release'[m].pc \notin {"none", "blocked"} => release'[m].tab \in Intents
  BY Letting
<1> QED
  BY <1>1 DEF ExtensionTypes, LettingStates

LEMMA NotLettingReads == Reads(NotLetting)
  BY DEF Reads, NotLetting, LettingStates

LEMMA ExtensionTypesStep == TypeOK /\ [Next]_vars => ExtensionTypes'
<1> SUFFICES ASSUME TypeOK, [Next]_vars PROVE ExtensionTypes'
  OBVIOUS
<1>0. /\ ExtensionTypes
      /\ inFlight \in Intents \union {NoOne}
      /\ answered \in Seq(Intents) /\ Len(answered) <= ReportedCap
      /\ attached \in BOOLEAN /\ tab \in Intents \union {NoOne}
      /\ \A l \in Lettings : Reads(release[l])
  BY DEF TypeOK, ExtensionTypes, Reads, LettingStates
<1>1. CASE extension' = extension
  BY <1>1 DEF TypeOK, ExtensionTypes, extension
<1>2. CASE Restart
  BY <1>2 DEF Restart, TypeOK, ExtensionTypes
<1>3. ASSUME NEW p \in Polls, Poll(p) PROVE ExtensionTypes'
  BY <1>3 DEF Poll, TypeOK, ExtensionTypes
<1>4. ASSUME NEW p \in Polls, Respond(p) PROVE ExtensionTypes'
  <2>1. polls[p].row \in Intents \union {NoOne}
    BY DEF TypeOK, RequestTypes, PollsTypes
  <2>2. /\ \/ loop' = loop /\ inFlight' = inFlight
           \/ loop' = [pc |-> "idle", at |-> NoOne] /\ inFlight' = inFlight
           \/ /\ polls[p].row # NoOne
              /\ loop' = [pc |-> "taken", at |-> polls[p].row]
              /\ inFlight' = polls[p].row
        /\ UNCHANGED <<answered, tab, attached, release>>
    BY <1>4 DEF Respond
  <2> QED
    BY <2>1, <2>2 DEF TypeOK, ExtensionTypes
<1>5. ASSUME NEW i \in Intents, OpenTab(i) PROVE ExtensionTypes'
  BY <1>5 DEF OpenTab, TypeOK, ExtensionTypes
<1>6. ASSUME NEW i \in Intents, CannotOpen(i) PROVE ExtensionTypes'
  <2>1. \E body \in Bodies : ReportInFlight(body)
    BY <1>6 DEF CannotOpen, Bodies
  <2>2. /\ loop' = [pc |-> "idle", at |-> NoOne]
        /\ UNCHANGED <<tab, attached, release>>
    BY <1>6 DEF CannotOpen
  <2> QED
    BY <2>1, <2>2, Claiming DEF TypeOK, ExtensionTypes
<1>7. ASSUME NEW i \in Intents, Act(i) PROVE ExtensionTypes'
  BY <1>7 DEF Act, TypeOK, ExtensionTypes
<1>8. ASSUME NEW i \in Intents, Finish(i) PROVE ExtensionTypes'
  <2>1. \E body \in Bodies : ReportInFlight(body)
    BY <1>8 DEF Finish, Endings, Bodies
  <2>2. /\ loop' = [pc |-> "idle", at |-> NoOne]
        /\ UNCHANGED <<tab, attached, release>>
    BY <1>8 DEF Finish
  <2> QED
    BY <2>1, <2>2, Claiming DEF TypeOK, ExtensionTypes
<1>9. CASE Die
  BY <1>9 DEF Die, TypeOK, ExtensionTypes, NotLetting
<1>10. CASE Revive
  BY <1>10 DEF Revive, TypeOK, ExtensionTypes
<1>11. ASSUME NEW l \in Lettings, Stop(l) PROVE ExtensionTypes'
  <2> DEFINE x == [NotLetting EXCEPT !.pc = "detaching", !.tab = tab]
  <2>1. Reads(x)
    BY <1>0, <1>11 DEF Stop, Reads, LettingStates, NotLetting
  <2> QED
    BY <1>0, <1>11, <2>1, LettingTyped DEF Stop
<1>12. ASSUME NEW l \in Lettings, Block(l) PROVE ExtensionTypes'
  <2> DEFINE x == [release[l] EXCEPT !.pc = "blocked"]
  <2>1. \E body \in Bodies : ReportInFlight(body)
    BY <1>12 DEF Block, Bodies
  <2>2. Reads(x) /\ release' = [release EXCEPT ![l] = x]
    BY <1>0, <1>12 DEF Block, Reads, LettingStates
  <2>3. UNCHANGED <<loop, tab, attached>>
    BY <1>12 DEF Block
  <2> QED
    BY <1>0, <2>1, <2>2, <2>3, Claiming, LettingTyped
<1>13. ASSUME NEW l \in Lettings, StopBlocked(l) PROVE ExtensionTypes'
  <2> DEFINE x == IF tab = NoOne THEN NotLetting
                  ELSE [NotLetting EXCEPT !.pc = "detaching", !.tab = tab]
  <2>1. Reads(x)
    BY <1>0 DEF Reads, LettingStates, NotLetting
  <2> QED
    BY <1>0, <1>13, <2>1, LettingTyped DEF StopBlocked
<1>14. ASSUME NEW l \in Lettings, Detach(l) PROVE ExtensionTypes'
  <2> DEFINE x == [release[l] EXCEPT !.pc = "detached"]
             y == [NotLetting EXCEPT !.pc = "detached", !.tab = tab]
  <2>1. /\ release[l].pc = "detaching" /\ attached' \in BOOLEAN
        /\ UNCHANGED <<loop, inFlight, answered, tab>>
    BY <1>14 DEF Detach
  <2>2. Reads(x) /\ release[l].tab \in Intents
    BY <1>0, <2>1 DEF Reads, LettingStates
  <2>3. CASE release' = [release EXCEPT ![l].pc = "detached"]
    BY <1>0, <2>1, <2>2, <2>3, LettingTyped
  <2>4. ASSUME NEW m \in Lettings, release[m].pc = "none", tab = release[l].tab,
               release' = [release EXCEPT ![l].pc = "detached", ![m] = y]
        PROVE  ExtensionTypes'
    <3>1. Reads(y)
      BY <1>0, <2>2, <2>4 DEF Reads, LettingStates, NotLetting
    <3>2. \A n \in Lettings : release'[n] \in {release[n], x, y}
      BY <1>0, <2>4 DEF ExtensionTypes
    <3>3. \A n \in Lettings : Reads(release'[n])
      BY <1>0, <2>2, <3>1, <3>2
    <3>4. /\ release' \in [Lettings -> LettingStates]
          /\ \A n \in Lettings :
                release'[n].pc \notin {"none", "blocked"} => release'[n].tab \in Intents
      BY <1>0, <2>4, <3>3 DEF ExtensionTypes, Reads
    <3> QED
      BY <1>0, <2>1, <3>4 DEF ExtensionTypes, LettingStates
  <2> QED
    BY <1>14, <2>3, <2>4 DEF Detach
<1>15. ASSUME NEW l \in Lettings, ChromeDetaches(l) PROVE ExtensionTypes'
  <2> DEFINE x == [NotLetting EXCEPT !.pc = "detached", !.tab = tab]
  <2>1. Reads(x)
    BY <1>0, <1>15 DEF ChromeDetaches, Reads, LettingStates, NotLetting
  <2> QED
    BY <1>0, <1>15, <2>1, LettingTyped DEF ChromeDetaches
<1>16. ASSUME NEW l \in Lettings, ClaimLost(l) PROVE ExtensionTypes'
  <2> DEFINE x == [release[l] EXCEPT !.pc = "claimed", !.intent = inFlight]
  <2>1. \/ answered' = answered
        \/ inFlight \in Intents /\ answered' = Remember(answered, inFlight, ReportedCap)
    BY <1>0, <1>16 DEF ClaimLost
  <2>2. answered' \in Seq(Intents) /\ Len(answered') <= ReportedCap
    BY <1>0, <2>1, Remembering, BrowserChannelAssumption
  <2>3. /\ release[l].pc = "detached"
        /\ release' = [release EXCEPT ![l] = x]
        /\ inFlight' = NoOne
        /\ UNCHANGED <<loop, tab, attached>>
    BY <1>16 DEF ClaimLost
  <2>4. Reads(x)
    BY <1>0, <2>3 DEF Reads, LettingStates
  <2> QED
    BY <1>0, <2>2, <2>3, <2>4, LettingTyped
<1>17. ASSUME NEW l \in Lettings, ClearTab(l) PROVE ExtensionTypes'
  <2> DEFINE x == [release[l] EXCEPT !.pc = "telling"]
  <2>1. /\ release[l].pc = "claimed" /\ tab' = NoOne
        /\ release' = [release EXCEPT ![l] = x]
        /\ UNCHANGED <<loop, inFlight, answered, attached>>
    BY <1>17 DEF ClearTab
  <2>2. Reads(x)
    BY <1>0, <2>1 DEF Reads, LettingStates
  <2> QED
    BY <1>0, <2>1, <2>2, LettingTyped
<1>18. ASSUME NEW l \in Lettings, LeaveToOther(l) \/ Halt(l) \/ HaltUnheard(l)
       PROVE  ExtensionTypes'
  <2>1. /\ release' = [release EXCEPT ![l] = NotLetting]
        /\ UNCHANGED <<loop, inFlight, answered, tab, attached>>
    BY <1>18 DEF LeaveToOther, Halt, HaltUnheard
  <2> QED
    BY <1>0, <2>1, NotLettingReads, LettingTyped
<1>19. ASSUME NEW i \in Intents, Begin(i) PROVE ExtensionTypes'
  BY <1>19 DEF Begin, TypeOK, ExtensionTypes
<1> QED
  BY ExtensionWriters, <1>1, <1>2, <1>3, <1>4, <1>5, <1>6, <1>7, <1>8, <1>9,
      <1>10, <1>11, <1>12, <1>13, <1>14, <1>15, <1>16, <1>17, <1>18, <1>19

LEMMA CallsTypesStep == TypeOK /\ [Next]_vars => CallsTypes'
<1> SUFFICES ASSUME TypeOK, [Next]_vars PROVE CallsTypes'
  OBVIOUS
<1>1. CASE calls' = calls
  BY <1>1 DEF TypeOK, RequestTypes, CallsTypes
<1>2. ASSUME NEW i \in Intents, Dispatch(i) PROVE CallsTypes'
  BY <1>2 DEF Dispatch, TypeOK, RequestTypes, CallsTypes
<1>3. ASSUME NEW i \in Intents, NEW k \in Tries, Enqueue(i, k) PROVE CallsTypes'
  <2>1. row'[i] \in Statuses
    BY <1>3 DEF Enqueue, TypeOK, DatabaseTypes, Statuses
  <2>2. calls' = [calls EXCEPT ![i][k] = row'[i]]
    BY <1>3 DEF Enqueue
  <2> QED
    BY <2>1, <2>2 DEF TypeOK, RequestTypes, CallsTypes
<1>4. ASSUME NEW i \in Intents, NEW k \in Tries, EnqueueFails(i, k) PROVE CallsTypes'
  <2>1. \E gone : EndCalls(gone)
    BY <1>4 DEF EnqueueFails
  <2> QED
    BY <2>1, Ending DEF TypeOK, RequestTypes
<1>5. ASSUME NEW i \in Intents, NEW k \in Tries, AnswerSettledRow(i, k) PROVE CallsTypes'
  <2>1. \E gone : EndCalls(gone)
    BY <1>5 DEF AnswerSettledRow
  <2> QED
    BY <2>1, Ending DEF TypeOK, RequestTypes
<1>6. ASSUME NEW i \in Intents, NEW k \in Tries, Hold(i, k) PROVE CallsTypes'
  <2>1. CASE \E gone : EndCalls(gone)
    BY <2>1, Ending DEF TypeOK, RequestTypes
  <2>2. CASE calls' = [j \in Intents |-> [n \in Tries |->
                CASE <<j, n>> \in Sockets({i}) -> "ended"
                  [] <<j, n>> = <<i, k>> -> "held"
                  [] OTHER -> calls[j][n]]]
    BY <2>2 DEF TypeOK, RequestTypes, CallsTypes
  <2> QED
    BY <1>6, <2>1, <2>2 DEF Hold
<1>7. ASSUME NEW i \in Intents, NEW k \in Tries, Expire(i, k) PROVE CallsTypes'
  BY <1>7 DEF Expire, TypeOK, RequestTypes, CallsTypes
<1>8. ASSUME NEW i \in Intents, NEW k \in Tries, AnswerExpired(i, k) PROVE CallsTypes'
  <2>1. \E gone : EndCalls(gone)
    BY <1>8 DEF AnswerExpired
  <2> QED
    BY <2>1, Ending DEF TypeOK, RequestTypes
<1>9. ASSUME NEW i \in Intents, NEW k \in Tries, ExpiryUnreadable(i, k) PROVE CallsTypes'
  <2>1. \E gone : EndCalls(gone)
    BY <1>9 DEF ExpiryUnreadable
  <2> QED
    BY <2>1, Ending DEF TypeOK, RequestTypes
<1>10. CASE Restart
  BY <1>10 DEF Restart, TypeOK, RequestTypes, CallsTypes
<1>11. ASSUME NEW l \in Lettings, Halt(l) PROVE CallsTypes'
  <2>1. \E gone : EndCalls(gone)
    BY <1>11 DEF Halt
  <2> QED
    BY <2>1, Ending DEF TypeOK, RequestTypes
<1>12. ASSUME NEW i \in Intents, Settle(i) PROVE CallsTypes'
  <2>1. \E gone : EndCalls(gone)
    BY <1>12 DEF Settle
  <2> QED
    BY <2>1, Ending DEF TypeOK, RequestTypes
<1> QED
  BY CallsWriters, <1>1, <1>2, <1>3, <1>4, <1>5, <1>6, <1>7, <1>8, <1>9,
      <1>10, <1>11, <1>12

LEMMA PollsTypesStep == TypeOK /\ [Next]_vars => PollsTypes'
<1> SUFFICES ASSUME TypeOK, [Next]_vars PROVE PollsTypes'
  OBVIOUS
<1>1. CASE polls' = polls
  BY <1>1 DEF TypeOK, RequestTypes, PollsTypes
<1>2. CASE Restart
  BY <1>2 DEF Restart, PollsTypes, NoLine
<1>3. ASSUME NEW p \in Polls, Poll(p) PROVE PollsTypes'
  BY <1>3 DEF Poll, TypeOK, RequestTypes, PollsTypes
<1>4. ASSUME NEW p \in Polls, Scan(p) PROVE PollsTypes'
  <2> DEFINE x == [polls[p] EXCEPT !.pc = "look", !.todo = waiting]
  <2>1. polls' = [polls EXCEPT ![p] = x]
    BY <1>4 DEF Scan
  <2>2. x \in PollStates
    BY DEF TypeOK, RequestTypes, PollsTypes, StoreTypes, PollStates
  <2> QED
    BY <2>1, <2>2, Polling DEF TypeOK, RequestTypes
<1>5. ASSUME NEW p \in Polls, Look(p) PROVE PollsTypes'
  <2>1. \/ \E i \in Intents : Skip(p, i)
        \/ \E pc \in {"claim", "drain"}, j \in Intents :
              polls' = [polls EXCEPT ![p] = [polls[p] EXCEPT !.pc = pc, !.row = j]]
    BY <1>5 DEF Look
  <2>2. ASSUME NEW pc \in {"claim", "drain"}, NEW j \in Intents
        PROVE  [polls[p] EXCEPT !.pc = pc, !.row = j] \in PollStates
    BY DEF TypeOK, RequestTypes, PollsTypes, PollStates
  <2> QED
    BY <2>1, <2>2, Polling, Skipping DEF TypeOK, RequestTypes
<1>6. ASSUME NEW p \in Polls, Drain(p) PROVE PollsTypes'
  BY <1>6 DEF Drain, TypeOK, RequestTypes, PollsTypes
<1>7. ASSUME NEW p \in Polls, Claim(p) PROVE PollsTypes'
  <2>1. \/ polls[p].row \in Intents /\ Skip(p, polls[p].row)
        \/ polls[p].row = NoOne /\ Skip(p, NoOne)
        \/ polls' = [polls EXCEPT ![p] = [polls[p] EXCEPT !.pc = "respond", !.todo = NoLine]]
    BY <1>7 DEF Claim, TypeOK, RequestTypes, PollsTypes
  <2>2. [polls[p] EXCEPT !.pc = "respond", !.todo = NoLine] \in PollStates
    BY DEF TypeOK, RequestTypes, PollsTypes, PollStates, NoLine
  <2> QED
    BY <2>1, <2>2, Polling, Skipping DEF TypeOK, RequestTypes
<1>8. ASSUME NEW p \in Polls, Respond(p) PROVE PollsTypes'
  <2>1. [pc |-> "off", todo |-> NoLine, row |-> NoOne] \in PollStates
    BY DEF PollStates, NoLine
  <2> QED
    BY <1>8, <2>1, Polling DEF Respond, TypeOK, RequestTypes
<1> QED
  BY PollsWriters, <1>1, <1>2, <1>3, <1>4, <1>5, <1>6, <1>7, <1>8

LEMMA StoppingTypesStep == TypeOK /\ [Next]_vars => StoppingTypes'
<1> SUFFICES ASSUME TypeOK, [Next]_vars PROVE StoppingTypes'
  OBVIOUS
<1>1. CASE stopping' = stopping
  BY <1>1 DEF TypeOK, RequestTypes, StoppingTypes
<1>2. CASE Restart
  BY <1>2 DEF Restart, TypeOK, RequestTypes, StoppingTypes
<1>3. ASSUME NEW l \in Lettings, Halt(l) PROVE StoppingTypes'
  BY <1>3 DEF Halt, TypeOK, RequestTypes, StoppingTypes
<1>4. ASSUME NEW i \in Intents, HaltAbandons(i) PROVE StoppingTypes'
  BY <1>4 DEF HaltAbandons, TypeOK, RequestTypes, StoppingTypes
<1> QED
  BY StoppingWriters, <1>1, <1>2, <1>3, <1>4

LEMMA PostsTypesStep == TypeOK /\ [Next]_vars => PostsTypes'
<1> SUFFICES ASSUME TypeOK, [Next]_vars PROVE PostsTypes'
  OBVIOUS
<1>1. CASE posts' = posts
  BY <1>1 DEF TypeOK, RequestTypes, PostsTypes
<1>2. CASE Restart
  BY <1>2 DEF Restart, TypeOK, RequestTypes, PostsTypes
<1>3. ASSUME NEW i \in Intents, CannotOpen(i) PROVE PostsTypes'
  <2>1. \E body \in Bodies : ReportInFlight(body)
    BY <1>3 DEF CannotOpen, Endings, Bodies
  <2> QED
    BY <2>1, Claiming
<1>4. ASSUME NEW i \in Intents, Finish(i) PROVE PostsTypes'
  <2>1. \E body \in Bodies : ReportInFlight(body)
    BY <1>4 DEF Finish, Endings, Bodies
  <2> QED
    BY <2>1, Claiming
<1>5. ASSUME NEW l \in Lettings, Block(l) PROVE PostsTypes'
  <2>1. \E body \in Bodies : ReportInFlight(body)
    BY <1>5 DEF Block, Endings, Bodies
  <2> QED
    BY <2>1, Claiming
<1>6. ASSUME NEW l \in Lettings, ClearTab(l) PROVE PostsTypes'
  <2> DEFINE x == [pc |-> "sent", body |-> "control-lost", again |-> FALSE]
  <2>1. \/ posts' = posts
        \/ /\ release[l].intent \in Intents
           /\ posts' = [posts EXCEPT ![release[l].intent] = x]
    BY <1>6 DEF ClearTab, TypeOK, ExtensionTypes
  <2>2. x \in PostStates
    BY DEF PostStates, Bodies
  <2> QED
    BY <2>1, <2>2, Reporting DEF TypeOK, RequestTypes, PostsTypes
<1>7. ASSUME NEW i \in Intents, ReportArrives(i) PROVE PostsTypes'
  <2>1. posts[i] \in PostStates
    BY DEF TypeOK, RequestTypes, PostsTypes, PostStates
  <2>2. \/ posts' = [posts EXCEPT ![i] = Refused(posts[i])]
        \/ posts' = [posts EXCEPT ![i] = [posts[i] EXCEPT !.pc = "marking"]]
    BY <1>7 DEF ReportArrives
  <2>3. [posts[i] EXCEPT !.pc = "marking"] \in PostStates
    BY <2>1, Refusing DEF PostStates
  <2> QED
    BY <2>1, <2>2, <2>3, Refusing, Reporting DEF TypeOK, RequestTypes
<1>8. ASSUME NEW i \in Intents, ReportTooLarge(i) PROVE PostsTypes'
  <2>1. posts[i] \in PostStates
    BY DEF TypeOK, RequestTypes, PostsTypes, PostStates
  <2>2. \/ posts' = [posts EXCEPT ![i] = Refused(posts[i])]
        \/ posts' = [posts EXCEPT ![i] = Refused(posts[i])]
    BY <1>8 DEF ReportTooLarge
  <2>3. Refused(posts[i]) \in PostStates
    BY <2>1, Refusing DEF PostStates
  <2> QED
    BY <2>1, <2>2, <2>3, Refusing, Reporting DEF TypeOK, RequestTypes
<1>9. ASSUME NEW i \in Intents, MarkReported(i) PROVE PostsTypes'
  BY <1>9 DEF MarkReported, TypeOK, RequestTypes, PostsTypes
<1>10. ASSUME NEW i \in Intents, FileEvidence(i) PROVE PostsTypes'
  BY <1>10 DEF FileEvidence, TypeOK, RequestTypes, PostsTypes
<1>11. ASSUME NEW i \in Intents, ReportFails(i) PROVE PostsTypes'
  BY <1>11 DEF ReportFails, TypeOK, RequestTypes, PostsTypes
<1>12. ASSUME NEW i \in Intents, Settle(i) PROVE PostsTypes'
  <2>1. posts[i] \in PostStates
    BY DEF TypeOK, RequestTypes, PostsTypes, PostStates
  <2>2. \/ posts' = [posts EXCEPT ![i] = Refused(posts[i])]
        \/ posts' = [posts EXCEPT ![i] = [posts[i] EXCEPT !.pc = "over"]]
    BY <1>12 DEF Settle
  <2>3. [posts[i] EXCEPT !.pc = "over"] \in PostStates
    BY <2>1, Refusing DEF PostStates
  <2> QED
    BY <2>1, <2>2, <2>3, Refusing, Reporting DEF TypeOK, RequestTypes
<1> QED
  BY PostsWriters, <1>1, <1>2, <1>3, <1>4, <1>5, <1>6, <1>7, <1>8, <1>9,
      <1>10, <1>11, <1>12

LEMMA EffectsTypesStep ==
    TypeOK /\ [Next]_vars => effects' \in [Intents -> Nat]
<1> SUFFICES ASSUME TypeOK, [Next]_vars PROVE effects' \in [Intents -> Nat]
  OBVIOUS
<1>1. CASE effects' = effects
  BY <1>1 DEF TypeOK
<1>2. ASSUME NEW i \in Intents, Act(i) PROVE effects' \in [Intents -> Nat]
  BY <1>2 DEF Act, TypeOK
<1> QED
  BY EffectsWriters, <1>1, <1>2

LEMMA FaultsTypesStep ==
    TypeOK /\ [Next]_vars => faults' \in 0 .. MaxFaults
<1> SUFFICES ASSUME TypeOK, [Next]_vars PROVE faults' \in 0 .. MaxFaults
  OBVIOUS
<1>1. faults' = faults \/ Fault
  BY FaultsWriters
<1> QED
  BY <1>1, BrowserChannelAssumption DEF Fault, TypeOK

\* Only a claim adds to the commands interrupted, and only the one in flight.
LEMMA InterruptedWriters ==
    [Next]_vars => interrupted' = interrupted \/ \E l \in Lettings : ClaimLost(l)
<1> SUFFICES ASSUME Next \/ UNCHANGED vars
             PROVE  interrupted' = interrupted \/ \E l \in Lettings : ClaimLost(l)
  OBVIOUS
<1>1. ASSUME NEW i \in Intents, NEW k \in Tries,
              Enqueue(i, k) \/ EnqueueFails(i, k) \/ AnswerSettledRow(i, k)
              \/ Hold(i, k) \/ Expire(i, k) \/ AnswerExpired(i, k)
              \/ ExpiryUnreadable(i, k)
      PROVE  interrupted' = interrupted
  BY <1>1 DEF Enqueue, EnqueueFails, AnswerSettledRow, Hold, Expire,
      AnswerExpired, ExpiryUnreadable
<1>2. ASSUME NEW i \in Intents,
              Dispatch(i) \/ LoseSocket(i) \/ Conclude(i) \/ Begin(i)
              \/ OpenTab(i) \/ CannotOpen(i) \/ Act(i) \/ Finish(i)
              \/ ReportArrives(i) \/ ReportTooLarge(i) \/ MarkReported(i)
              \/ FileEvidence(i) \/ ReportFails(i) \/ Settle(i) \/ HaltAbandons(i)
      PROVE  interrupted' = interrupted
  BY <1>2 DEF Dispatch, LoseSocket, Conclude, Begin, OpenTab, CannotOpen, Act,
      Finish, ReportArrives, ReportTooLarge, MarkReported, FileEvidence,
      ReportFails, Settle, HaltAbandons
<1>3. ASSUME NEW p \in Polls,
              Poll(p) \/ Scan(p) \/ Look(p) \/ Drain(p) \/ Claim(p) \/ Respond(p)
      PROVE  interrupted' = interrupted
  BY <1>3 DEF Poll, Scan, Look, Drain, Claim, Respond
<1>4. ASSUME
              \/ \E l \in Lettings :
                    Stop(l) \/ Block(l) \/ StopBlocked(l) \/ Detach(l)
                    \/ ChromeDetaches(l) \/ LeaveToOther(l) \/ ClearTab(l)
                    \/ Halt(l) \/ HaltUnheard(l)
              \/ Die \/ Revive \/ Restart
      PROVE  interrupted' = interrupted
  BY <1>4 DEF Stop, Block, StopBlocked, Detach, ChromeDetaches, LeaveToOther,
      ClearTab, Halt, HaltUnheard, Die, Revive, Restart
<1>5. CASE UNCHANGED vars
  BY <1>5 DEF vars
<1> QED
  BY <1>1, <1>2, <1>3, <1>4, <1>5 DEF Next, Served

LEMMA InterruptedTypesStep ==
    TypeOK /\ [Next]_vars => interrupted' \subseteq Intents
  BY InterruptedWriters DEF TypeOK, ClaimLost

\* Every step keeps every value to its type.
LEMMA TypeStep == TypeOK /\ [Next]_vars => TypeOK'
  BY DatabaseTypesStep, StoreTypesStep, WorkerTypesStep, ExtensionTypesStep,
     CallsTypesStep, PollsTypesStep, StoppingTypesStep, PostsTypesStep,
     EffectsTypesStep, InterruptedTypesStep, FaultsTypesStep DEF TypeOK, RequestTypes

LEMMA TypeInit == Init => TypeOK
<1> SUFFICES ASSUME Init PROVE TypeOK
  OBVIOUS
<1>1. DatabaseTypes
  BY DEF Init, DatabaseTypes, NoLine
<1>2. StoreTypes
  BY BrowserChannelAssumption DEF Init, StoreTypes, NoLine
<1>3. CallsTypes /\ StoppingTypes
  BY DEF Init, CallsTypes, StoppingTypes
<1>4. PollsTypes
  BY DEF Init, PollsTypes, NoLine
<1>5. PostsTypes
  BY DEF Init, PostsTypes, Bodies
<1>6. WorkerTypes
  BY BrowserChannelAssumption DEF Init, WorkerTypes, Bodies
<1>7. ExtensionTypes
  <2>1. <<>> \in Seq(Intents) /\ Len(<<>>) = 0
    OBVIOUS
  <2>2. answered \in Seq(Intents) /\ Len(answered) <= ReportedCap
    <3>1. answered = <<>> /\ 0 <= ReportedCap
      BY BrowserChannelAssumption DEF Init
    <3> QED
      BY <2>1, <3>1
  <2>3. loop = [pc |-> "idle", at |-> NoOne] /\ inFlight = NoOne /\ tab = NoOne
    BY DEF Init
  <2>4. attached = FALSE /\ release = [l \in Lettings |-> NotLetting]
    BY DEF Init
  <2> QED
    BY <2>2, <2>3, <2>4 DEF ExtensionTypes, NotLetting
<1>8. effects \in [Intents -> Nat] /\ interrupted = {} /\ faults \in 0 .. MaxFaults
  BY BrowserChannelAssumption DEF Init
<1> QED
  BY <1>1, <1>2, <1>3, <1>4, <1>5, <1>6, <1>7, <1>8 DEF TypeOK, RequestTypes

\* Whatever is dispatched, polled, reported, stopped or restarted, in any
\* order and however often, the tables, the store and both memories hold
\* values of their types, and neither memory grows past its cap.
THEOREM TypeCorrect == Spec => []TypeOK
  BY TypeInit, TypeStep, PTL DEF Spec

-----------------------------------------------------------------------------
(* A halted run holds nothing.                                             *)

\* Letting holds go leaves the others as they were.
LEMMA HoldsReleased ==
    ASSUME StoreTypes, NEW these, Release(these), NEW i \in Intents, holds'[i] # 0
    PROVE  i \notin these /\ holds[i] # 0
  BY DEF StoreTypes, Release

\* What remembering one more run adds to the runs remembered is that run.
LEMMA Recalling ==
    ASSUME NEW s \in Seq(Runs), NEW run \in Runs, NEW other \in Runs,
           other \in Members(Remember(s, run, HaltedMemory))
    PROVE  other = run \/ other \in Members(s)
<1> DEFINE longer == Append(s, run)
<1>1. longer \in Seq(Runs) /\ Len(longer) = Len(s) + 1
  OBVIOUS
<1>2. ASSUME NEW n \in 1 .. Len(longer)
      PROVE  longer[n] = run \/ (n \in DOMAIN s /\ longer[n] = s[n])
  <2>1. DOMAIN s = 1 .. Len(s) /\ Len(s) \in Nat
    OBVIOUS
  <2>2. CASE n = Len(s) + 1
    <3>1. longer[Len(s) + 1] = run
      BY <2>1
    <3> QED
      BY <2>2, <3>1
  <2>3. CASE n \in 1 .. Len(s)
    BY <2>1, <2>3
  <2> QED
    BY <1>1, <2>1, <2>2, <2>3
<1>3. PICK t : t = Remember(s, run, HaltedMemory)
  OBVIOUS
<1>4. PICK n \in DOMAIN t : t[n] = other
  BY <1>3 DEF Members
<1>5. \E m \in 1 .. Len(longer) : longer[m] = other
  <2>1. CASE t = longer
    BY <2>1, <1>1, <1>4
  <2>2. CASE t = SubSeq(longer, 2, Len(longer))
    <3>1. n \in 1 .. Len(longer) - 1 /\ t[n] = longer[n + 1]
      BY <2>2, <1>1, <1>4
    <3>2. n + 1 \in 1 .. Len(longer) /\ longer[n + 1] = other
      BY <3>1, <1>1, <1>4
    <3> QED
      BY <3>2
  <2> QED
    BY <2>1, <2>2, <1>3 DEF Remember
<1> QED
  BY <1>2, <1>5 DEF Members

LEMMA HaltedStep ==
    TypeOK /\ HaltedRunsHoldNothing /\ [Next]_vars => HaltedRunsHoldNothing'
<1> SUFFICES ASSUME TypeOK, HaltedRunsHoldNothing, [Next]_vars,
                    NEW j \in Intents, holds'[j] # 0
             PROVE  owner'[j] \notin Members(halted')
  BY DEF HaltedRunsHoldNothing, OnHold
<1>1. owner' = owner
  BY OwnerFixed
<1>2. holds[j] # 0 => owner[j] \notin Members(halted)
  BY DEF HaltedRunsHoldNothing, OnHold
<1>3. CASE store' = store
  BY <1>1, <1>2, <1>3 DEF store
<1>4. ASSUME NEW i \in Intents, NEW k \in Tries, Hold(i, k)
      PROVE  owner'[j] \notin Members(halted')
  <2>1. halted' = halted
    BY <1>4 DEF Hold
  <2>2. CASE owner[i] \in Members(halted)
    BY <1>1, <1>2, <1>4, <2>1, <2>2, HoldsReleased DEF Hold, TypeOK
  <2>3. CASE owner[i] \notin Members(halted)
    BY <1>1, <1>2, <1>4, <2>1, <2>3 DEF Hold, TypeOK, StoreTypes
  <2> QED
    BY <2>2, <2>3
<1>5. ASSUME NEW i \in Intents, NEW k \in Tries, Expire(i, k)
      PROVE  owner'[j] \notin Members(halted')
  BY <1>1, <1>2, <1>5, HoldsReleased DEF Expire, TypeOK
<1>6. CASE Restart
  BY <1>6 DEF Restart
<1>7. ASSUME NEW l \in Lettings, Halt(l) PROVE owner'[j] \notin Members(halted')
  <2> DEFINE run == owner[release[l].tab]
  <2>1. PICK gone : /\ gone = {i \in Intents : owner[i] = run /\ OnHold(i)}
                    /\ Release(gone)
    BY <1>7 DEF Halt
  <2>2. j \notin gone /\ holds[j] # 0
    BY <2>1, HoldsReleased DEF TypeOK
  <2>3. owner[j] # run
    BY <2>1, <2>2 DEF OnHold
  <2>4. /\ run \in Runs /\ owner[j] \in Runs
        /\ halted \in Seq(Runs)
    BY <1>7 DEF Halt, TypeOK, ExtensionTypes, DatabaseTypes, StoreTypes
  <2>5. \/ halted' = halted
        \/ halted' = Remember(halted, run, HaltedMemory)
    BY <1>7 DEF Halt
  <2> QED
    BY <1>1, <1>2, <2>2, <2>3, <2>4, <2>5, Recalling
<1>8. ASSUME NEW i \in Intents, Settle(i) PROVE owner'[j] \notin Members(halted')
  BY <1>1, <1>2, <1>8, HoldsReleased DEF Settle, TypeOK
<1> QED
  BY StoreWriters, <1>3, <1>4, <1>5, <1>6, <1>7, <1>8

\* However many runs are halted and forgotten again, and wherever a halt falls
\* between a dispatch's check and its hold, nothing of a run the app remembers
\* halting is waited for.
THEOREM HaltedHoldsNothing == Spec => []HaltedRunsHoldNothing
<1>1. Init => HaltedRunsHoldNothing
  BY DEF Init, HaltedRunsHoldNothing, OnHold
<1> QED
  BY <1>1, HaltedStep, TypeCorrect, PTL DEF Spec

-----------------------------------------------------------------------------
(* What is true in between.                                                *)

\* A poll has a row in hand between choosing it and answering with it.
PollRows ==
    \A p \in Polls :
        polls[p].row \in Intents <=> polls[p].pc \in {"drain", "claim", "respond"}

Handed(i) == row[i] \in {"delivered", "reported"}

Busy == loop.pc \in {"taken", "opening", "performing", "acted"}

\* An instruction handed out is in one hand at a time, and acts from that one.
OneHand ==
    /\ \A p \in Polls : polls[p].pc = "respond" =>
          /\ Handed(polls[p].row)
          /\ effects[polls[p].row] = 0
          /\ Busy => loop.at # polls[p].row
    /\ \A p, q \in Polls :
          polls[p].pc = "respond" /\ polls[q].pc = "respond" /\ polls[p].row = polls[q].row
          => p = q
    /\ Busy => Handed(loop.at)
    /\ \A i \in Intents : effects[i] = 0 \/ (effects[i] = 1 /\ Handed(i))
    /\ loop.pc \in {"taken", "opening", "performing"} => effects[loop.at] = 0
    /\ loop.pc = "acted" => effects[loop.at] = 1

\* A letting-go has taken this command, and has yet to report it.
Claims(i) == \E l \in Lettings : release[l].pc = "claimed" /\ release[l].intent = i

\* However many let go, one at a time has the flag and what it claimed.
OneRelease ==
    \A l, m \in Lettings :
        release[l].pc = "claimed" /\ release[m].pc = "claimed" => l = m

\* Its answer is with one reporter at a time.
OneReporter ==
    /\ Busy => inFlight \in {loop.at, NoOne}
    /\ \A p \in Polls : polls[p].pc = "respond" =>
          /\ inFlight # polls[p].row
          /\ ~Claims(polls[p].row)
          /\ posts[polls[p].row].pc = "none"
    /\ inFlight # NoOne =>
          Handed(inFlight) /\ ~Claims(inFlight) /\ posts[inFlight].pc = "none"
    /\ \A i \in Intents : Claims(i) => Handed(i) /\ posts[i].pc = "none"
    /\ \A i \in Intents : posts[i].pc # "none" => Handed(i)

\* A report of success is of an act, and is filed once.
Reports ==
    \A i \in Intents :
        /\ posts[i].pc # "none" /\ posts[i].body = "ok" => effects[i] = 1
        /\ posts[i].pc = "filing" => posts[i].body = "ok"
        /\ evidence[i] = 0 \/
             /\ evidence[i] = 1 /\ effects[i] = 1
             /\ posts[i].pc # "none"
             /\ posts[i].body = "ok" => posts[i].pc \in {"settling", "over"}

\* What the worker has been told was so when it was told, and still is.
Truthful ==
    \A i \in Intents :
        /\ \A k \in Tries : calls[i][k] = "abandoned" => row[i] = "abandoned"
        /\ Told(i) = "unchanged" => row[i] = "abandoned"
        /\ Told(i) = "done" => effects[i] = 1

\* The tab is held for this intent, or has been while some letting-go under way
\* read it, or the intent was interrupted.
Past(t) ==
    \/ tab = t
    \/ \E l \in Lettings : release[l].tab = t
    \/ t \in interrupted

\* An intent of the past will open no tab, so a tab that was let go of is never
\* held again; a tab that is let go of is detached before its command is
\* claimed; and what is interrupted has no tab to act in.
Held ==
    /\ \A t \in Intents : Past(t) =>
          /\ Handed(t)
          /\ loop.pc \in {"taken", "opening"} => loop.at # t
          /\ \A p \in Polls : polls[p].pc = "respond" => polls[p].row # t
    /\ \A l \in Lettings :
          release[l].pc = "detached" /\ release[l].tab = tab => ~attached
    /\ \A i \in interrupted : Busy /\ loop.at = i => tab = NoOne \/ ~attached

\* The inductive invariant.
IInv ==
    /\ TypeOK
    /\ PollRows
    /\ OneHand
    /\ OneRelease
    /\ OneReporter
    /\ Reports
    /\ Truthful
    /\ Held

\* An instruction handed out stays so, and one abandoned stays that.
LEMMA RowsSettle ==
    ASSUME TypeOK, [Next]_vars, NEW i \in Intents
    PROVE  /\ Handed(i) => Handed(i)'
           /\ row[i] = "abandoned" => row'[i] = "abandoned"
<1> USE DEF Handed, TypeOK, DatabaseTypes
<1>1. CASE database' = database
  BY <1>1 DEF database
<1>2. ASSUME NEW j \in Intents, NEW k \in Tries, Enqueue(j, k) \/ AnswerExpired(j, k)
      PROVE  /\ Handed(i) => Handed(i)'
             /\ row[i] = "abandoned" => row'[i] = "abandoned"
  BY <1>2 DEF Enqueue, AnswerExpired
<1>3. ASSUME NEW j \in Intents, HaltAbandons(j) \/ MarkReported(j) \/ FileEvidence(j)
      PROVE  /\ Handed(i) => Handed(i)'
             /\ row[i] = "abandoned" => row'[i] = "abandoned"
  BY <1>3 DEF HaltAbandons, MarkReported, FileEvidence
<1>4. ASSUME NEW p \in Polls, Drain(p) \/ Claim(p)
      PROVE  /\ Handed(i) => Handed(i)'
             /\ row[i] = "abandoned" => row'[i] = "abandoned"
  BY <1>4 DEF Drain, Claim
<1> QED
  BY DatabaseWriters, <1>1, <1>2, <1>3, <1>4


\* What each step of a poll leaves it with.
LEMMA Skipped ==
    ASSUME PollsTypes, NEW p \in Polls, NEW i, Skip(p, i)
    PROVE  /\ polls'[p].pc \in {"scan", "look"} /\ polls'[p].row = NoOne
           /\ \A q \in Polls \ {p} : polls'[q] = polls[q]
  BY DEF PollsTypes, Skip

LEMMA Looked ==
    ASSUME TypeOK, NEW p \in Polls, Look(p)
    PROVE  /\ \/ polls'[p].pc \in {"scan", "look"} /\ polls'[p].row = NoOne
              \/ polls'[p].pc \in {"claim", "drain"} /\ polls'[p].row \in Intents
           /\ \A q \in Polls \ {p} : polls'[q] = polls[q]
<1>1. \/ \E i \in Intents : Skip(p, i)
      \/ \E pc \in {"claim", "drain"}, j \in Intents :
            polls' = [polls EXCEPT ![p] = [polls[p] EXCEPT !.pc = pc, !.row = j]]
  BY DEF Look
<1>2. ASSUME NEW pc \in {"claim", "drain"}, NEW j \in Intents,
             polls' = [polls EXCEPT ![p] = [polls[p] EXCEPT !.pc = pc, !.row = j]]
      PROVE  /\ polls'[p].pc = pc /\ polls'[p].row = j
             /\ \A q \in Polls \ {p} : polls'[q] = polls[q]
  BY <1>2 DEF TypeOK, RequestTypes, PollsTypes
<1> QED
  BY <1>1, <1>2, Skipped DEF TypeOK, RequestTypes

LEMMA Claimed ==
    ASSUME TypeOK, PollRows, NEW p \in Polls, Claim(p)
    PROVE  /\ polls[p].row \in Intents
           /\ \/ polls'[p].pc \in {"scan", "look"} /\ polls'[p].row = NoOne /\ row' = row
              \/ /\ polls'[p].pc = "respond" /\ polls'[p].row = polls[p].row
                 /\ row[polls[p].row] = "queued"
                 /\ row' = [row EXCEPT ![polls[p].row] = "delivered"]
           /\ \A q \in Polls \ {p} : polls'[q] = polls[q]
<1>1. polls[p].pc = "claim" /\ polls[p].row \in Intents
  BY DEF Claim, PollRows
<1>2. \/ Skip(p, polls[p].row) /\ row' = row
      \/ /\ polls' = [polls EXCEPT ![p] =
                [polls[p] EXCEPT !.pc = "respond", !.todo = NoLine]]
         /\ row[polls[p].row] = "queued"
         /\ row' = [row EXCEPT ![polls[p].row] = "delivered"]
  BY <1>1 DEF Claim
<1>3. ASSUME polls' = [polls EXCEPT ![p] =
                [polls[p] EXCEPT !.pc = "respond", !.todo = NoLine]]
      PROVE  /\ polls'[p].pc = "respond" /\ polls'[p].row = polls[p].row
             /\ \A q \in Polls \ {p} : polls'[q] = polls[q]
  BY <1>3 DEF TypeOK, RequestTypes, PollsTypes
<1> QED
  BY <1>1, <1>2, <1>3, Skipped DEF TypeOK, RequestTypes

LEMMA Walked ==
    ASSUME TypeOK, PollRows, NEW p \in Polls,
           Poll(p) \/ Scan(p) \/ Look(p) \/ Drain(p) \/ Respond(p)
    PROVE  /\ polls'[p].pc # "respond"
           /\ \A q \in Polls \ {p} : polls'[q] = polls[q]
<1>1. CASE Look(p)
  BY <1>1, Looked
<1>2. CASE Poll(p)
  BY <1>2 DEF Poll, TypeOK, RequestTypes, PollsTypes
<1>3. CASE Scan(p)
  BY <1>3 DEF Scan, TypeOK, RequestTypes, PollsTypes
<1>4. CASE Drain(p)
  BY <1>4 DEF Drain, TypeOK, RequestTypes, PollsTypes
<1>5. CASE Respond(p)
  BY <1>5 DEF Respond, TypeOK, RequestTypes, PollsTypes
<1> QED
  BY <1>1, <1>2, <1>3, <1>4, <1>5

LEMMA PollRowsStep ==
    TypeOK /\ PollRows /\ [Next]_vars => PollRows'
<1> SUFFICES ASSUME TypeOK, PollRows, [Next]_vars PROVE PollRows'
  OBVIOUS
<1>1. CASE polls' = polls
  BY <1>1, BrowserChannelAssumption DEF PollRows, TypeOK, RequestTypes, PollsTypes
<1>2. CASE Restart
  BY <1>2, BrowserChannelAssumption DEF Restart, PollRows, TypeOK, RequestTypes,
      PollsTypes
<1>3. ASSUME NEW p \in Polls, Poll(p) PROVE PollRows'
  BY <1>3, BrowserChannelAssumption DEF Poll, PollRows, TypeOK, RequestTypes,
      PollsTypes
<1>4. ASSUME NEW p \in Polls, Scan(p) PROVE PollRows'
  BY <1>4, BrowserChannelAssumption DEF Scan, PollRows, TypeOK, RequestTypes,
      PollsTypes
<1>5. ASSUME NEW p \in Polls, Look(p) PROVE PollRows'
  BY <1>5, Looked, BrowserChannelAssumption DEF PollRows
<1>6. ASSUME NEW p \in Polls, Drain(p) PROVE PollRows'
  BY <1>6, BrowserChannelAssumption DEF Drain, PollRows, TypeOK, RequestTypes,
      PollsTypes
<1>7. ASSUME NEW p \in Polls, Claim(p) PROVE PollRows'
  BY <1>7, Claimed, BrowserChannelAssumption DEF PollRows
<1>8. ASSUME NEW p \in Polls, Respond(p) PROVE PollRows'
  BY <1>8, BrowserChannelAssumption DEF Respond, PollRows, TypeOK, RequestTypes,
      PollsTypes
<1> QED
  BY PollsWriters, <1>1, <1>2, <1>3, <1>4, <1>5, <1>6, <1>7, <1>8

\* Nothing newly answered with, nothing newly run: what is in a hand stays.
LEMMA HandsKept ==
    ASSUME TypeOK, OneHand, effects' = effects,
           \A i \in Intents : Handed(i) => Handed(i)',
           loop' = loop \/ loop'.pc \in {"dead", "idle", "polling"},
           \A p \in Polls : polls'[p].pc = "respond" => polls'[p] = polls[p],
           PollRows
    PROVE  OneHand'
<1>1. \A p \in Polls : polls[p].pc = "respond" => polls[p].row \in Intents
  BY DEF PollRows
<1>2. \A i \in Intents : Handed(i) => row'[i] \in {"delivered", "reported"}
  BY DEF Handed
<1>3. Busy' => /\ loop' = loop /\ Busy /\ loop.at \in Intents
               /\ row'[loop.at] \in {"delivered", "reported"}
  BY <1>2 DEF Busy, TypeOK, ExtensionTypes, OneHand
<1>4. ASSUME NEW p \in Polls, polls'[p].pc = "respond"
      PROVE  /\ row'[polls'[p].row] \in {"delivered", "reported"}
             /\ effects'[polls'[p].row] = 0
             /\ Busy' => loop'.at # polls'[p].row
  <2>1. polls'[p] = polls[p] /\ polls[p].row \in Intents
    BY <1>1, <1>4
  <2>2. /\ Handed(polls[p].row) /\ effects[polls[p].row] = 0
        /\ Busy => loop.at # polls[p].row
    BY <1>4, <2>1 DEF OneHand
  <2> QED
    BY <1>2, <1>3, <2>1, <2>2
<1>5. \A p, q \in Polls :
          polls'[p].pc = "respond" /\ polls'[q].pc = "respond"
          /\ polls'[p].row = polls'[q].row => p = q
  BY DEF OneHand
<1>6. ASSUME NEW i \in Intents
      PROVE  effects'[i] = 0 \/ (effects'[i] = 1 /\ row'[i] \in {"delivered", "reported"})
  BY <1>2 DEF OneHand
<1>7. /\ loop'.pc \in {"taken", "opening", "performing"} => effects'[loop'.at] = 0
      /\ loop'.pc = "acted" => effects'[loop'.at] = 1
  BY DEF OneHand
<1> QED
  BY <1>3, <1>4, <1>5, <1>6, <1>7 DEF OneHand, Handed

LEMMA HandWriters ==
    [Next]_vars =>
      \/ UNCHANGED <<polls, loop, effects>>
      \/ \E i \in Intents : Begin(i) \/ OpenTab(i) \/ CannotOpen(i)
                            \/ Act(i) \/ Finish(i)
      \/ \E p \in Polls :
            Poll(p) \/ Scan(p) \/ Look(p) \/ Drain(p) \/ Claim(p) \/ Respond(p)
      \/ Restart \/ Die \/ Revive
<1> SUFFICES ASSUME Next \/ UNCHANGED vars
             PROVE
               \/ UNCHANGED <<polls, loop, effects>>
               \/ \E i \in Intents :
                     Begin(i) \/ OpenTab(i) \/ CannotOpen(i) \/ Act(i) \/ Finish(i)
               \/ \E p \in Polls :
                     Poll(p) \/ Scan(p) \/ Look(p) \/ Drain(p) \/ Claim(p)
                     \/ Respond(p)
               \/ Restart \/ Die \/ Revive
  OBVIOUS
<1>1. ASSUME NEW i \in Intents, NEW k \in Tries,
              Enqueue(i, k) \/ EnqueueFails(i, k) \/ AnswerSettledRow(i, k)
              \/ Hold(i, k) \/ Expire(i, k) \/ AnswerExpired(i, k)
              \/ ExpiryUnreadable(i, k)
      PROVE  UNCHANGED <<polls, loop, effects>>
  BY <1>1 DEF Enqueue, EnqueueFails, AnswerSettledRow, Hold, Expire,
      AnswerExpired, ExpiryUnreadable, app, extension
<1>2. ASSUME NEW i \in Intents,
              Dispatch(i) \/ LoseSocket(i) \/ Conclude(i) \/ ReportArrives(i)
              \/ ReportTooLarge(i) \/ MarkReported(i) \/ FileEvidence(i)
              \/ ReportFails(i) \/ Settle(i) \/ HaltAbandons(i)
      PROVE  UNCHANGED <<polls, loop, effects>>
  BY <1>2 DEF Dispatch, LoseSocket, Conclude, ReportArrives, ReportTooLarge,
      MarkReported, FileEvidence, ReportFails, Settle, HaltAbandons, app,
      extension
<1>3. ASSUME
              \/ \E l \in Lettings :
                    Stop(l) \/ Block(l) \/ StopBlocked(l) \/ Detach(l)
                    \/ ChromeDetaches(l) \/ LeaveToOther(l) \/ ClaimLost(l)
                    \/ ClearTab(l) \/ Halt(l) \/ HaltUnheard(l)
      PROVE  UNCHANGED <<polls, loop, effects>>
  BY <1>3 DEF Stop, Block, StopBlocked, Detach, ChromeDetaches, LeaveToOther,
      ClaimLost, ClearTab, Halt, HaltUnheard, app, extension
<1>4. CASE UNCHANGED vars
  BY <1>4 DEF vars, app, extension
<1> QED
  BY <1>1, <1>2, <1>3, <1>4 DEF Next, Served

LEMMA OneHandStep ==
    TypeOK /\ PollRows /\ OneHand /\ [Next]_vars => OneHand'
<1> SUFFICES ASSUME TypeOK, PollRows, OneHand, [Next]_vars,
                    \A i \in Intents : Handed(i) => Handed(i)'
             PROVE  OneHand'
  BY RowsSettle
<1>1. CASE UNCHANGED <<polls, loop, effects>>
  BY <1>1, HandsKept
<1>2. CASE Restart
  <2>1. effects' = effects /\ (loop' = loop \/ loop'.pc \in {"dead", "idle", "polling"})
    BY <1>2 DEF Restart
  <2>2. \A q \in Polls : polls'[q].pc = "respond" => polls'[q] = polls[q]
    BY <1>2 DEF Restart
  <2> QED
    BY <2>1, <2>2, HandsKept
<1>3. ASSUME NEW p \in Polls, Poll(p) PROVE OneHand'
  <2>1. effects' = effects /\ (loop' = loop \/ loop'.pc \in {"dead", "idle", "polling"})
    BY <1>3 DEF Poll
  <2>2. \A q \in Polls : polls'[q].pc = "respond" => polls'[q] = polls[q]
    BY <1>3, Walked DEF Poll
  <2> QED
    BY <2>1, <2>2, HandsKept
<1>4. ASSUME NEW p \in Polls, Scan(p) PROVE OneHand'
  <2>1. effects' = effects /\ (loop' = loop \/ loop'.pc \in {"dead", "idle", "polling"})
    BY <1>4 DEF Scan, extension
  <2>2. \A q \in Polls : polls'[q].pc = "respond" => polls'[q] = polls[q]
    BY <1>4, Walked DEF Scan
  <2> QED
    BY <2>1, <2>2, HandsKept
<1>5. ASSUME NEW p \in Polls, Look(p) PROVE OneHand'
  <2>1. effects' = effects /\ (loop' = loop \/ loop'.pc \in {"dead", "idle", "polling"})
    BY <1>5 DEF Look, extension
  <2>2. \A q \in Polls : polls'[q].pc = "respond" => polls'[q] = polls[q]
    BY <1>5, Walked DEF Look
  <2> QED
    BY <2>1, <2>2, HandsKept
<1>6. ASSUME NEW p \in Polls, Drain(p) PROVE OneHand'
  <2>1. effects' = effects /\ (loop' = loop \/ loop'.pc \in {"dead", "idle", "polling"})
    BY <1>6 DEF Drain, extension
  <2>2. \A q \in Polls : polls'[q].pc = "respond" => polls'[q] = polls[q]
    BY <1>6, Walked DEF Drain
  <2> QED
    BY <2>1, <2>2, HandsKept
<1>7. ASSUME NEW p \in Polls, Claim(p) PROVE OneHand'
  <2>1. loop' = loop /\ effects' = effects
    BY <1>7 DEF Claim, extension
  <2>2. CASE polls'[p].pc # "respond"
    BY <1>7, <2>1, <2>2, Claimed, HandsKept
  <2>3. CASE polls'[p].pc = "respond"
    <3> DEFINE j == polls[p].row
    <3>1. /\ j \in Intents /\ polls'[p].row = j
          /\ row[j] = "queued" /\ row' = [row EXCEPT ![j] = "delivered"]
          /\ \A q \in Polls \ {p} : polls'[q] = polls[q]
      BY <1>7, <2>3, Claimed
    <3>2. ~Handed(j) /\ row'[j] = "delivered"
      BY <3>1 DEF Handed, TypeOK, DatabaseTypes
    <3>3. effects[j] = 0 /\ ~(Busy /\ loop.at = j)
      BY <3>1, <3>2 DEF OneHand
    <3>4. \A q \in Polls : polls[q].pc = "respond" => polls[q].row \in Intents \ {j}
      BY <3>2 DEF OneHand, PollRows
    <3>5. \A i \in Intents : Handed(i) => row'[i] \in {"delivered", "reported"}
      BY DEF Handed
    <3>6. ASSUME NEW q \in Polls, polls'[q].pc = "respond"
          PROVE  /\ row'[polls'[q].row] \in {"delivered", "reported"}
                 /\ effects'[polls'[q].row] = 0
                 /\ Busy' => loop'.at # polls'[q].row
      <4>1. CASE q = p
        BY <2>1, <3>1, <3>2, <3>3, <4>1 DEF Busy
      <4>2. CASE q # p
        BY <2>1, <3>1, <3>4, <3>5, <3>6, <4>2 DEF OneHand, Busy
      <4> QED
        BY <4>1, <4>2
    <3>7. ASSUME NEW q \in Polls, NEW r \in Polls, polls'[q].pc = "respond",
                 polls'[r].pc = "respond", polls'[q].row = polls'[r].row
          PROVE  q = r
      BY <3>1, <3>4, <3>7 DEF OneHand
    <3>8. Busy' => row'[loop'.at] \in {"delivered", "reported"}
      BY <2>1, <3>5 DEF OneHand, Busy, TypeOK, ExtensionTypes
    <3>9. ASSUME NEW i \in Intents
          PROVE  effects'[i] = 0 \/ (effects'[i] = 1 /\ row'[i] \in {"delivered", "reported"})
      BY <2>1, <3>5 DEF OneHand
    <3> QED
      BY <2>1, <3>6, <3>7, <3>8, <3>9 DEF OneHand, Handed
  <2> QED
    BY <2>2, <2>3
<1>8. ASSUME NEW p \in Polls, Respond(p) PROVE OneHand'
  BY <1>8 DEF Respond, OneHand, Busy, TypeOK, RequestTypes, PollsTypes, PollRows,
      ExtensionTypes
<1>9. ASSUME NEW i \in Intents, OpenTab(i) PROVE OneHand'
  <2>1. /\ loop.pc = "opening" /\ loop.at = i
        /\ loop'.pc = "performing" /\ loop'.at = i
        /\ polls' = polls /\ row' = row /\ effects' = effects
    BY <1>9 DEF OpenTab, app, database
  <2> QED
    BY <2>1 DEF OneHand, Handed, Busy
<1>10. ASSUME NEW i \in Intents, CannotOpen(i) PROVE OneHand'
  <2>1. effects' = effects /\ (loop' = loop \/ loop'.pc \in {"dead", "idle", "polling"})
    BY <1>10 DEF CannotOpen
  <2>2. \A q \in Polls : polls'[q].pc = "respond" => polls'[q] = polls[q]
    BY <1>10 DEF CannotOpen
  <2> QED
    BY <2>1, <2>2, HandsKept
<1>11. ASSUME NEW i \in Intents, Act(i) PROVE OneHand'
  <2>1. /\ loop.pc = "performing" /\ loop.at = i
        /\ effects' = [effects EXCEPT ![i] = effects[i] + 1]
        /\ loop'.pc = "acted" /\ loop'.at = i
        /\ polls' = polls /\ row' = row
    BY <1>11 DEF Act, app, database
  <2>2. effects[i] = 0 /\ Handed(i)
    BY <2>1 DEF OneHand, Busy
  <2>3. effects'[i] = 1 /\ \A j \in Intents \ {i} : effects'[j] = effects[j]
    BY <2>1, <2>2 DEF TypeOK
  <2>4. \A q \in Polls : polls[q].pc = "respond" => polls[q].row \in Intents \ {i}
    BY <2>1 DEF OneHand, Busy, PollRows
  <2>5. \A q \in Polls : polls[q].pc = "respond" =>
            /\ Handed(polls[q].row) /\ effects'[polls[q].row] = 0
    BY <2>3, <2>4 DEF OneHand
  <2>6. \A p, q \in Polls :
            polls[p].pc = "respond" /\ polls[q].pc = "respond"
            /\ polls[p].row = polls[q].row => p = q
    BY DEF OneHand
  <2>7. \A j \in Intents : effects'[j] = 0 \/ (effects'[j] = 1 /\ Handed(j))
    BY <2>2, <2>3 DEF OneHand
  <2> QED
    BY <2>1, <2>2, <2>3, <2>4, <2>5, <2>6, <2>7 DEF OneHand, Handed, Busy
<1>12. ASSUME NEW i \in Intents, Finish(i) PROVE OneHand'
  <2>1. effects' = effects /\ (loop' = loop \/ loop'.pc \in {"dead", "idle", "polling"})
    BY <1>12 DEF Finish
  <2>2. \A q \in Polls : polls'[q].pc = "respond" => polls'[q] = polls[q]
    BY <1>12 DEF Finish
  <2> QED
    BY <2>1, <2>2, HandsKept
<1>13. CASE Die
  <2>1. effects' = effects /\ (loop' = loop \/ loop'.pc \in {"dead", "idle", "polling"})
    BY <1>13 DEF Die
  <2>2. \A q \in Polls : polls'[q].pc = "respond" => polls'[q] = polls[q]
    BY <1>13 DEF Die, app
  <2> QED
    BY <2>1, <2>2, HandsKept
<1>14. CASE Revive
  <2>1. effects' = effects /\ (loop' = loop \/ loop'.pc \in {"dead", "idle", "polling"})
    BY <1>14 DEF Revive
  <2>2. \A q \in Polls : polls'[q].pc = "respond" => polls'[q] = polls[q]
    BY <1>14 DEF Revive, app
  <2> QED
    BY <2>1, <2>2, HandsKept
<1>15. ASSUME NEW i \in Intents, Begin(i) PROVE OneHand'
  <2>1. /\ loop.pc = "taken" /\ loop.at = i
        /\ loop'.pc \in {"opening", "performing"} /\ loop'.at = i
        /\ polls' = polls /\ row' = row /\ effects' = effects
    BY <1>15 DEF Begin, app, database
  <2> QED
    BY <2>1 DEF OneHand, Handed, Busy
<1> QED
  BY HandWriters, <1>1, <1>2, <1>3, <1>4, <1>5, <1>6, <1>7, <1>8, <1>9,
      <1>10, <1>11, <1>12, <1>13, <1>14, <1>15

\* A step that is not a claim leaves the flag with who had it, or down.
LEMMA Claimants ==
    ASSUME TypeOK, [Next]_vars
    PROVE  \/ \E l \in Lettings : ClaimLost(l)
           \/ \A m \in Lettings : release'[m].pc = "claimed" => release'[m] = release[m]
<1> DEFINE Kept ==
        \A m \in Lettings : release'[m].pc = "claimed" => release'[m] = release[m]
<1>0. ASSUME NEW l \in Lettings, NEW x, x.pc # "claimed",
             release' = [release EXCEPT ![l] = x]
      PROVE  Kept
  BY <1>0 DEF TypeOK, ExtensionTypes
<1>1. CASE release' = release
  BY <1>1
<1>2. CASE Die
  BY <1>2 DEF Die, NotLetting
<1>3. ASSUME NEW l \in Lettings, Stop(l) \/ ChromeDetaches(l) PROVE Kept
  <2>1. PICK pc \in {"detaching", "detached"} :
            release' = [release EXCEPT ![l] = [NotLetting EXCEPT !.pc = pc, !.tab = tab]]
    BY <1>3 DEF Stop, ChromeDetaches
  <2> QED
    BY <1>0, <2>1 DEF NotLetting
<1>4. ASSUME NEW l \in Lettings, Block(l) \/ ClearTab(l) PROVE Kept
  <2>1. PICK pc \in {"blocked", "telling"} :
            release' = [release EXCEPT ![l].pc = pc]
    BY <1>4 DEF Block, ClearTab
  <2> QED
    BY <2>1 DEF TypeOK, ExtensionTypes
<1>5. ASSUME NEW l \in Lettings, StopBlocked(l) PROVE Kept
  BY <1>0, <1>5 DEF StopBlocked, NotLetting
<1>6. ASSUME NEW l \in Lettings, LeaveToOther(l) \/ Halt(l) \/ HaltUnheard(l) PROVE Kept
  <2>1. release' = [release EXCEPT ![l] = NotLetting]
    BY <1>6 DEF LeaveToOther, Halt, HaltUnheard
  <2> QED
    BY <1>0, <2>1 DEF NotLetting
<1>7. ASSUME NEW l \in Lettings, Detach(l) PROVE Kept
  <2> DEFINE y == [NotLetting EXCEPT !.pc = "detached", !.tab = tab]
  <2>1. CASE release' = [release EXCEPT ![l].pc = "detached"]
    BY <2>1 DEF TypeOK, ExtensionTypes
  <2>2. ASSUME NEW m \in Lettings,
               release' = [release EXCEPT ![l].pc = "detached", ![m] = y]
        PROVE  Kept
    <3>1. y.pc = "detached"
      BY DEF NotLetting
    <3>2. /\ \A n \in Lettings \ {l, m} : release'[n] = release[n]
          /\ release'[m] = y /\ release'[l] \in {y, [release[l] EXCEPT !.pc = "detached"]}
      BY <2>2 DEF TypeOK, ExtensionTypes
    <3>3. release[l] \in [pc : {"none", "blocked", "detaching", "detached",
                                "claimed", "telling"},
                          tab : Intents \union {NoOne},
                          intent : Intents \union {NoOne}]
      BY DEF TypeOK, ExtensionTypes
    <3>4. release'[l].pc = "detached" /\ release'[m].pc = "detached"
      BY <3>1, <3>2, <3>3
    <3> QED
      BY <3>2, <3>4
  <2> QED
    BY <1>7, <2>1, <2>2 DEF Detach
<1>8. ASSUME NEW i \in Intents,
             Begin(i) \/ OpenTab(i) \/ CannotOpen(i) \/ Act(i) \/ Finish(i)
      PROVE  release' = release
  BY <1>8 DEF Begin, OpenTab, CannotOpen, Act, Finish
<1>9. ASSUME NEW p \in Polls, Poll(p) \/ Respond(p) PROVE release' = release
  BY <1>9 DEF Poll, Respond
<1>10. Restart \/ Revive \/ extension' = extension => release' = release
  BY DEF Restart, Revive, extension
<1> QED
  BY ExtensionWriters, <1>1, <1>2, <1>3, <1>4, <1>5, <1>6, <1>7, <1>8, <1>9, <1>10

LEMMA OneReleaseStep ==
    TypeOK /\ OneRelease /\ [Next]_vars => OneRelease'
<1> SUFFICES ASSUME TypeOK, OneRelease, [Next]_vars PROVE OneRelease'
  OBVIOUS
<1>1. ASSUME NEW l \in Lettings, ClaimLost(l) PROVE OneRelease'
  BY <1>1 DEF ClaimLost, Releasing, OneRelease, TypeOK, ExtensionTypes
<1>2. CASE \A m \in Lettings : release'[m].pc = "claimed" => release'[m] = release[m]
  BY <1>2 DEF OneRelease
<1> QED
  BY <1>1, <1>2, Claimants

LEMMA ReporterWriters ==
    [Next]_vars =>
      \/ UNCHANGED <<polls, loop, inFlight, release, posts>>
      \/ \E i \in Intents :
            Begin(i) \/ OpenTab(i) \/ CannotOpen(i) \/ Act(i) \/ Finish(i)
            \/ ReportArrives(i)
            \/ ReportTooLarge(i) \/ MarkReported(i) \/ FileEvidence(i)
            \/ ReportFails(i) \/ Settle(i)
      \/ \E p \in Polls :
            Poll(p) \/ Scan(p) \/ Look(p) \/ Drain(p) \/ Claim(p) \/ Respond(p)
      \/ Restart \/ Die \/ Revive
      \/ \E l \in Lettings :
            Stop(l) \/ Block(l) \/ StopBlocked(l) \/ Detach(l)
            \/ ChromeDetaches(l) \/ LeaveToOther(l) \/ ClaimLost(l)
            \/ ClearTab(l) \/ Halt(l) \/ HaltUnheard(l)
<1> SUFFICES ASSUME Next \/ UNCHANGED vars
             PROVE
               \/ UNCHANGED <<polls, loop, inFlight, release, posts>>
               \/ \E i \in Intents :
                     Begin(i) \/ OpenTab(i) \/ CannotOpen(i) \/ Act(i) \/ Finish(i)
                     \/ ReportArrives(i) \/ ReportTooLarge(i) \/ MarkReported(i)
                     \/ FileEvidence(i) \/ ReportFails(i) \/ Settle(i)
               \/ \E p \in Polls :
                     Poll(p) \/ Scan(p) \/ Look(p) \/ Drain(p) \/ Claim(p)
                     \/ Respond(p)
               \/ Restart \/ Die \/ Revive
               \/ \E l \in Lettings :
                     Stop(l) \/ Block(l) \/ StopBlocked(l) \/ Detach(l)
                     \/ ChromeDetaches(l) \/ LeaveToOther(l) \/ ClaimLost(l)
                     \/ ClearTab(l) \/ Halt(l) \/ HaltUnheard(l)
  OBVIOUS
<1>1. ASSUME NEW i \in Intents, NEW k \in Tries,
              Enqueue(i, k) \/ EnqueueFails(i, k) \/ AnswerSettledRow(i, k)
              \/ Hold(i, k) \/ Expire(i, k) \/ AnswerExpired(i, k)
              \/ ExpiryUnreadable(i, k)
      PROVE  UNCHANGED <<polls, loop, inFlight, release, posts>>
  BY <1>1 DEF Enqueue, EnqueueFails, AnswerSettledRow, Hold, Expire,
      AnswerExpired, ExpiryUnreadable, app, extension
<1>2. ASSUME NEW i \in Intents,
              Dispatch(i) \/ LoseSocket(i) \/ Conclude(i) \/ HaltAbandons(i)
      PROVE  UNCHANGED <<polls, loop, inFlight, release, posts>>
  BY <1>2 DEF Dispatch, LoseSocket, Conclude, HaltAbandons, app, extension
<1>3. CASE UNCHANGED vars
  BY <1>3 DEF vars, app, extension
<1> QED
  BY <1>1, <1>2, <1>3 DEF Next, Served


\* A report exists of an instruction once it is sent, and never again does not.
LEMMA ReportSent ==
    ASSUME TypeOK, NEW body, ReportInFlight(body)
    PROVE  /\ inFlight' = NoOne
           /\ \A i \in Intents : i # inFlight => posts'[i] = posts[i]
           /\ inFlight # NoOne =>
                 /\ inFlight \in Intents
                 /\ posts'[inFlight] = [pc |-> "sent", body |-> body, again |-> FALSE]
<1>1. inFlight \in Intents \union {NoOne}
  BY DEF TypeOK, ExtensionTypes
<1>2. inFlight = NoOne => inFlight \notin Intents
  BY BrowserChannelAssumption
<1> QED
  BY <1>1, <1>2 DEF ReportInFlight, TypeOK, RequestTypes, PostsTypes

\* Who may report is unchanged, or fewer may, when no poll newly answers.
LEMMA ReportersKept ==
    ASSUME TypeOK, PollRows, OneReporter,
           \A i \in Intents : Handed(i) => Handed(i)',
           \A p \in Polls : polls'[p].pc = "respond" => polls'[p] = polls[p],
           loop'.pc \in {"dead", "idle", "polling"} \/ (loop'.at = loop.at /\ (Busy' => Busy)),
           inFlight' \in {inFlight, NoOne},
           \A i \in Intents : Claims(i)' => Claims(i),
           \A i \in Intents : posts[i].pc = "none" <=> posts'[i].pc = "none"
    PROVE  OneReporter'
<1>1. \A i \in Intents : Handed(i) => row'[i] \in {"delivered", "reported"}
  BY DEF Handed
<1> DEFINE Now(i) ==
        \E l \in Lettings : release'[l].pc = "claimed" /\ release'[l].intent = i
<1>2. \A i \in Intents : Now(i) => Claims(i)
  BY DEF Claims
<1>3. NoOne \notin Intents /\ inFlight \in Intents \union {NoOne}
  BY BrowserChannelAssumption DEF TypeOK, ExtensionTypes
<1>4. ASSUME NEW p \in Polls, polls'[p].pc = "respond"
      PROVE  /\ inFlight' # polls'[p].row
             /\ ~Now(polls'[p].row)
             /\ posts'[polls'[p].row].pc = "none"
  <2>1. polls'[p] = polls[p] /\ polls[p].row \in Intents
    BY <1>4 DEF PollRows
  <2>2. /\ inFlight # polls[p].row /\ ~Claims(polls[p].row)
        /\ posts[polls[p].row].pc = "none"
    BY <1>4, <2>1 DEF OneReporter
  <2> QED
    BY <1>2, <1>3, <2>1, <2>2
<1>5. Busy' => inFlight' \in {loop'.at, NoOne}
  BY <1>3 DEF OneReporter, Busy
<1>6. ASSUME inFlight' # NoOne
      PROVE  /\ row'[inFlight'] \in {"delivered", "reported"}
             /\ ~Now(inFlight')
             /\ posts'[inFlight'].pc = "none"
  <2>1. inFlight' = inFlight /\ inFlight \in Intents
    BY <1>3, <1>6
  <2>2. Handed(inFlight) /\ ~Claims(inFlight) /\ posts[inFlight].pc = "none"
    BY <1>6, <2>1 DEF OneReporter
  <2> QED
    BY <1>1, <1>2, <2>1, <2>2
<1>7. ASSUME NEW i \in Intents
      PROVE  /\ Now(i) => row'[i] \in {"delivered", "reported"} /\ posts'[i].pc = "none"
             /\ posts'[i].pc # "none" => row'[i] \in {"delivered", "reported"}
  BY <1>1, <1>2 DEF OneReporter
<1> QED
  BY <1>4, <1>5, <1>6, <1>7 DEF OneReporter, Handed, Claims


\* Reporting what is in flight takes it out of flight.
LEMMA ReportersReport ==
    ASSUME TypeOK, PollRows, OneReporter,
           \A i \in Intents : Handed(i) => Handed(i)',
           NEW body, ReportInFlight(body), polls' = polls,
           \A i \in Intents : Claims(i)' => Claims(i)
    PROVE  OneReporter'
<1>1. \A i \in Intents : Handed(i) => row'[i] \in {"delivered", "reported"}
  BY DEF Handed
<1> DEFINE Now(i) ==
        \E l \in Lettings : release'[l].pc = "claimed" /\ release'[l].intent = i
<1>2. \A i \in Intents : Now(i) => Claims(i)
  BY DEF Claims
<1>3. inFlight' = NoOne /\ NoOne \notin Intents
  BY ReportSent, BrowserChannelAssumption
<1>4. \A i \in Intents : i # inFlight => posts'[i] = posts[i]
  BY ReportSent
<1>5. ASSUME NEW p \in Polls, polls'[p].pc = "respond"
      PROVE  /\ inFlight' # polls'[p].row
             /\ ~Now(polls'[p].row)
             /\ posts'[polls'[p].row].pc = "none"
  <2>1. polls[p].row \in Intents
    BY <1>5 DEF PollRows
  <2>2. /\ inFlight # polls[p].row /\ ~Claims(polls[p].row)
        /\ posts[polls[p].row].pc = "none"
    BY <1>5 DEF OneReporter
  <2> QED
    BY <1>2, <1>3, <1>4, <2>1, <2>2
<1>6. ASSUME NEW i \in Intents
      PROVE  /\ Now(i) => row'[i] \in {"delivered", "reported"} /\ posts'[i].pc = "none"
             /\ posts'[i].pc # "none" => row'[i] \in {"delivered", "reported"}
  BY <1>1, <1>2, <1>3, <1>4 DEF OneReporter
<1> QED
  BY <1>3, <1>5, <1>6 DEF OneReporter, Handed, Claims

LEMMA OneReporterStep ==
    TypeOK /\ PollRows /\ OneHand /\ OneRelease /\ OneReporter /\ [Next]_vars => OneReporter'
<1> SUFFICES ASSUME TypeOK, PollRows, OneHand, OneRelease, OneReporter, [Next]_vars,
                    \A i \in Intents : Handed(i) => Handed(i)'
             PROVE  OneReporter'
  BY RowsSettle
<1>19. ASSUME NEW l \in Lettings, ClaimLost(l) PROVE OneReporter'
  <2>1. /\ ~Releasing /\ release[l].pc = "detached" /\ inFlight' = NoOne
        /\ release' = [release EXCEPT ![l].pc = "claimed", ![l].intent = inFlight]
        /\ polls' = polls /\ posts' = posts /\ loop' = loop /\ row' = row
    BY <1>19 DEF ClaimLost, app, database
  <2> DEFINE Now(i) ==
          \E m \in Lettings : release'[m].pc = "claimed" /\ release'[m].intent = i
  <2>2. /\ \A i : Now(i) => i = inFlight
        /\ inFlight \in Intents \union {NoOne} /\ NoOne \notin Intents
    BY <2>1, BrowserChannelAssumption DEF Releasing, TypeOK, ExtensionTypes
  <2>3. \A i \in Intents : Now(i) => Handed(i) /\ posts[i].pc = "none"
    BY <2>2 DEF OneReporter
  <2>4. ASSUME NEW q \in Polls, polls[q].pc = "respond"
        PROVE  /\ polls[q].row # NoOne /\ ~Now(polls[q].row)
               /\ posts[polls[q].row].pc = "none"
    BY <2>2, <2>4 DEF OneReporter, PollRows
  <2> HIDE DEF Now
  <2>5. /\ \A p \in Polls : polls'[p].pc = "respond" =>
              /\ inFlight' # polls'[p].row
              /\ ~Now(polls'[p].row)
              /\ posts'[polls'[p].row].pc = "none"
        /\ \A i \in Intents : Now(i) => row'[i] \in {"delivered", "reported"}
                                         /\ posts'[i].pc = "none"
        /\ \A i \in Intents : posts'[i].pc # "none" => row'[i] \in {"delivered", "reported"}
    BY <2>1, <2>3, <2>4 DEF OneReporter, Handed
  <2> QED
    BY <2>1, <2>5 DEF OneReporter, Claims, Handed, Busy, Now
<1>20. ASSUME NEW l \in Lettings, ClearTab(l), \A i \in Intents : Claims(i)' => Claims(i)
       PROVE  OneReporter'
  <2>1. /\ release[l].pc = "claimed"
        /\ release' = [release EXCEPT ![l].pc = "telling"]
        /\ polls' = polls /\ loop' = loop /\ row' = row /\ inFlight' = inFlight
        /\ posts' = IF release[l].intent = NoOne THEN posts
                    ELSE [posts EXCEPT ![release[l].intent] =
                        [pc |-> "sent", body |-> "control-lost", again |-> FALSE]]
    BY <1>20 DEF ClearTab, database
  <2> DEFINE Now(i) ==
          \E m \in Lettings : release'[m].pc = "claimed" /\ release'[m].intent = i
  <2>2. /\ \A i : ~Now(i)
        /\ NoOne \notin Intents
    BY <2>1, BrowserChannelAssumption DEF OneRelease, TypeOK, ExtensionTypes
  <2>3. \A i \in Intents : ~Claims(i) => posts'[i] = posts[i]
    BY <2>1, <2>2 DEF Claims, TypeOK, RequestTypes, PostsTypes
  <2>4. \A i \in Intents : posts'[i].pc # "none" => Handed(i)
    BY <2>3 DEF OneReporter
  <2>5. ASSUME NEW q \in Polls, polls[q].pc = "respond"
        PROVE  inFlight # polls[q].row /\ posts'[polls[q].row].pc = "none"
    BY <2>3, <2>5 DEF OneReporter, PollRows
  <2>6. inFlight # NoOne => /\ Handed(inFlight) /\ inFlight \in Intents
                            /\ posts'[inFlight].pc = "none"
    BY <2>3 DEF OneReporter, TypeOK, ExtensionTypes
  <2> HIDE DEF Now
  <2>7. /\ \A p \in Polls : polls'[p].pc = "respond" =>
              /\ inFlight' # polls'[p].row
              /\ ~Now(polls'[p].row)
              /\ posts'[polls'[p].row].pc = "none"
        /\ inFlight' # NoOne =>
              /\ row'[inFlight'] \in {"delivered", "reported"}
              /\ ~Now(inFlight') /\ posts'[inFlight'].pc = "none"
        /\ \A i \in Intents : posts'[i].pc # "none" => row'[i] \in {"delivered", "reported"}
    BY <2>1, <2>2, <2>4, <2>5, <2>6 DEF Handed
  <2> QED
    BY <2>1, <2>2, <2>7 DEF OneReporter, Claims, Handed, Busy, Now
<1> SUFFICES ASSUME \A i \in Intents : Claims(i)' => Claims(i) PROVE OneReporter'
  <2>1. CASE \A m \in Lettings : release'[m].pc = "claimed" => release'[m] = release[m]
    BY <2>1 DEF Claims
  <2> QED
    BY <1>19, <2>1, Claimants
<1>1. CASE UNCHANGED <<polls, loop, inFlight, release, posts>>
  BY <1>1, ReportersKept DEF Busy
<1>2. CASE Restart
  <2>1. \A q \in Polls : polls'[q].pc = "off"
    BY <1>2 DEF Restart
  <2>2. /\ loop' = loop \/ loop'.pc = "idle"
        /\ inFlight' = inFlight /\ release' = release
    BY <1>2 DEF Restart
  <2>3. \A j \in Intents : posts[j].pc = "none" <=> posts'[j].pc = "none"
    BY <1>2 DEF Restart, TypeOK, RequestTypes, PostsTypes
  <2> QED
    BY <2>1, <2>2, <2>3, ReportersKept DEF Busy
<1>3. ASSUME NEW p \in Polls, Poll(p) PROVE OneReporter'
  <2>1. /\ loop'.pc = "polling" /\ inFlight' = inFlight
    BY <1>3 DEF Poll
  <2>2. \A q \in Polls : polls'[q].pc = "respond" => polls'[q] = polls[q]
    BY <1>3, Walked DEF Poll
  <2>3. posts' = posts
    BY <1>3 DEF Poll
  <2> QED
    BY <2>1, <2>2, <2>3, ReportersKept DEF Busy
<1>4. ASSUME NEW p \in Polls, Scan(p) PROVE OneReporter'
  <2>1. /\ loop' = loop /\ inFlight' = inFlight
    BY <1>4 DEF Scan, extension
  <2>2. \A q \in Polls : polls'[q].pc = "respond" => polls'[q] = polls[q]
    BY <1>4, Walked DEF Scan
  <2>3. posts' = posts
    BY <1>4 DEF Scan, extension
  <2> QED
    BY <2>1, <2>2, <2>3, ReportersKept DEF Busy
<1>5. ASSUME NEW p \in Polls, Look(p) PROVE OneReporter'
  <2>1. /\ loop' = loop /\ inFlight' = inFlight
    BY <1>5 DEF Look, extension
  <2>2. \A q \in Polls : polls'[q].pc = "respond" => polls'[q] = polls[q]
    BY <1>5, Walked DEF Look
  <2>3. posts' = posts
    BY <1>5 DEF Look, extension
  <2> QED
    BY <2>1, <2>2, <2>3, ReportersKept DEF Busy
<1>6. ASSUME NEW p \in Polls, Drain(p) PROVE OneReporter'
  <2>1. /\ loop' = loop /\ inFlight' = inFlight
    BY <1>6 DEF Drain, extension
  <2>2. \A q \in Polls : polls'[q].pc = "respond" => polls'[q] = polls[q]
    BY <1>6, Walked DEF Drain
  <2>3. posts' = posts
    BY <1>6 DEF Drain, extension
  <2> QED
    BY <2>1, <2>2, <2>3, ReportersKept DEF Busy
<1>7. ASSUME NEW p \in Polls, Claim(p) PROVE OneReporter'
  <2>1. /\ loop' = loop /\ inFlight' = inFlight
        /\ release' = release /\ posts' = posts
    BY <1>7 DEF Claim, extension
  <2>2. CASE polls'[p].pc # "respond"
    <3>1. \A q \in Polls : polls'[q].pc = "respond" => polls'[q] = polls[q]
      BY <1>7, <2>2, Claimed
    <3> QED
      BY <2>1, <3>1, ReportersKept DEF Busy
  <2>3. CASE polls'[p].pc = "respond"
    <3> DEFINE j == polls[p].row
    <3>1. /\ j \in Intents /\ polls'[p].row = j /\ row[j] = "queued"
          /\ \A q \in Polls \ {p} : polls'[q] = polls[q]
      BY <1>7, <2>3, Claimed
    <3>2. ~Handed(j) /\ j # NoOne
      BY <3>1, BrowserChannelAssumption DEF Handed
    <3>3. inFlight # j /\ ~Claims(j) /\ posts[j].pc = "none"
      BY <3>1, <3>2 DEF OneReporter
    <3>4. \A q \in Polls : polls'[q].pc = "respond" =>
              /\ inFlight # polls'[q].row
              /\ ~Claims(polls'[q].row)
              /\ posts[polls'[q].row].pc = "none"
      BY <3>1, <3>3 DEF OneReporter, Claims
    <3>5. inFlight # NoOne => row'[inFlight] \in {"delivered", "reported"}
      BY BrowserChannelAssumption DEF OneReporter, Handed, TypeOK, ExtensionTypes
    <3>6. \A i \in Intents : Handed(i) => row'[i] \in {"delivered", "reported"}
      BY DEF Handed
    <3> QED
      BY <2>1, <3>4, <3>5, <3>6 DEF OneReporter, Claims, Handed, Busy
  <2> QED
    BY <2>2, <2>3
<1>8. ASSUME NEW p \in Polls, Respond(p) PROVE OneReporter'
  <2>1. \A q \in Polls : polls'[q].pc = "respond" => polls'[q] = polls[q] /\ q # p
    BY <1>8, Walked
  <2>2. /\ release' = release /\ posts' = posts /\ row' = row
    BY <1>8 DEF Respond, database
  <2>3. CASE inFlight' = inFlight /\ (loop' = loop \/ loop'.pc = "idle")
    BY <2>1, <2>2, <2>3, ReportersKept DEF Busy
  <2>4. CASE /\ polls[p].row # NoOne /\ loop'.at = polls[p].row
             /\ inFlight' = polls[p].row
    <3> DEFINE j == polls[p].row
    <3>1. polls[p].pc = "respond" /\ j \in Intents /\ j # NoOne
      BY <1>8, <2>4 DEF Respond, PollRows, TypeOK, RequestTypes, PollsTypes
    <3>2. Handed(j) /\ ~Claims(j) /\ posts[j].pc = "none"
      BY <3>1 DEF OneReporter, OneHand
    <3>3. ASSUME NEW q \in Polls, polls'[q].pc = "respond"
          PROVE  /\ inFlight' # polls'[q].row
                 /\ ~Claims(polls'[q].row)
                 /\ posts[polls'[q].row].pc = "none"
      <4>1. polls'[q] = polls[q] /\ q # p /\ polls[q].pc = "respond"
        BY <2>1, <3>3
      <4>2. polls[q].row # j
        BY <3>1, <4>1 DEF OneHand
      <4> QED
        BY <2>4, <4>1, <4>2 DEF OneReporter
    <3> QED
      BY <2>2, <2>4, <3>2, <3>3 DEF OneReporter, Claims, Handed, Busy
  <2> QED
    BY <1>8, <2>3, <2>4 DEF Respond
<1>9. ASSUME NEW i \in Intents, OpenTab(i) PROVE OneReporter'
  <2>1. /\ loop.pc = "opening" /\ loop'.at = loop.at /\ inFlight' = inFlight
    BY <1>9 DEF OpenTab, app
  <2>2. polls' = polls
    BY <1>9 DEF OpenTab, app
  <2>3. posts' = posts
    BY <1>9 DEF OpenTab, app
  <2> QED
    BY <2>1, <2>2, <2>3, ReportersKept DEF Busy
<1>10. ASSUME NEW i \in Intents, CannotOpen(i) PROVE OneReporter'
  <2>1. \E body : ReportInFlight(body)
    BY <1>10 DEF CannotOpen
  <2>2. /\ polls' = polls
    BY <1>10 DEF CannotOpen
  <2> QED
    BY <2>1, <2>2, ReportersReport
<1>11. ASSUME NEW i \in Intents, Act(i) PROVE OneReporter'
  <2>1. /\ loop.pc = "performing" /\ loop'.at = loop.at /\ inFlight' = inFlight
    BY <1>11 DEF Act, app
  <2>2. polls' = polls
    BY <1>11 DEF Act, app
  <2>3. posts' = posts
    BY <1>11 DEF Act, app
  <2> QED
    BY <2>1, <2>2, <2>3, ReportersKept DEF Busy
<1>12. ASSUME NEW i \in Intents, Finish(i) PROVE OneReporter'
  <2>1. \E body : ReportInFlight(body)
    BY <1>12 DEF Finish
  <2>2. /\ polls' = polls
    BY <1>12 DEF Finish
  <2> QED
    BY <2>1, <2>2, ReportersReport
<1>13. CASE Die
  <2>1. /\ loop'.pc = "dead" /\ inFlight' = inFlight
    BY <1>13 DEF Die, app
  <2>2. polls' = polls
    BY <1>13 DEF Die, app
  <2>3. posts' = posts
    BY <1>13 DEF Die, app
  <2> QED
    BY <2>1, <2>2, <2>3, ReportersKept DEF Busy
<1>14. CASE Revive
  <2>1. /\ loop'.pc = "idle" /\ inFlight' = inFlight
    BY <1>14 DEF Revive, app
  <2>2. polls' = polls
    BY <1>14 DEF Revive, app
  <2>3. posts' = posts
    BY <1>14 DEF Revive, app
  <2> QED
    BY <2>1, <2>2, <2>3, ReportersKept DEF Busy
<1>15. ASSUME NEW l \in Lettings, Stop(l) PROVE OneReporter'
  <2>1. /\ loop' = loop /\ inFlight' = inFlight
    BY <1>15 DEF Stop, app
  <2>2. polls' = polls
    BY <1>15 DEF Stop, app
  <2>3. posts' = posts
    BY <1>15 DEF Stop, app
  <2> QED
    BY <2>1, <2>2, <2>3, ReportersKept DEF Busy
<1>16. ASSUME NEW l \in Lettings, Block(l) PROVE OneReporter'
  <2>1. \E body : ReportInFlight(body)
    BY <1>16 DEF Block
  <2>2. /\ polls' = polls
    BY <1>16 DEF Block
  <2> QED
    BY <2>1, <2>2, ReportersReport
<1>17. ASSUME NEW l \in Lettings, Detach(l) PROVE OneReporter'
  <2>1. /\ loop' = loop /\ inFlight' = inFlight
    BY <1>17 DEF Detach, app, TypeOK, ExtensionTypes
  <2>2. polls' = polls
    BY <1>17 DEF Detach, app, TypeOK, ExtensionTypes
  <2>3. posts' = posts
    BY <1>17 DEF Detach, app, TypeOK, ExtensionTypes
  <2> QED
    BY <2>1, <2>2, <2>3, ReportersKept DEF Busy
<1>18. ASSUME NEW l \in Lettings, ChromeDetaches(l) PROVE OneReporter'
  <2>1. /\ loop' = loop /\ inFlight' = inFlight
    BY <1>18 DEF ChromeDetaches, app
  <2>2. polls' = polls
    BY <1>18 DEF ChromeDetaches, app
  <2>3. posts' = posts
    BY <1>18 DEF ChromeDetaches, app
  <2> QED
    BY <2>1, <2>2, <2>3, ReportersKept DEF Busy
<1>21. ASSUME NEW l \in Lettings, Halt(l) PROVE OneReporter'
  <2>1. /\ loop' = loop /\ inFlight' = inFlight
    BY <1>21 DEF Halt
  <2>2. polls' = polls
    BY <1>21 DEF Halt
  <2>3. posts' = posts
    BY <1>21 DEF Halt
  <2> QED
    BY <2>1, <2>2, <2>3, ReportersKept DEF Busy
<1>22. ASSUME NEW l \in Lettings, HaltUnheard(l) PROVE OneReporter'
  <2>1. /\ loop' = loop /\ inFlight' = inFlight
    BY <1>22 DEF HaltUnheard, app
  <2>2. polls' = polls
    BY <1>22 DEF HaltUnheard, app
  <2>3. posts' = posts
    BY <1>22 DEF HaltUnheard, app
  <2> QED
    BY <2>1, <2>2, <2>3, ReportersKept DEF Busy
<1>23. ASSUME NEW i \in Intents, ReportArrives(i) PROVE OneReporter'
  <2>1. /\ loop' = loop /\ inFlight' = inFlight
    BY <1>23 DEF ReportArrives, extension
  <2>2. polls' = polls
    BY <1>23 DEF ReportArrives, extension
  <2>3. \A j \in Intents : posts[j].pc = "none" <=> posts'[j].pc = "none"
    BY <1>23 DEF ReportArrives, Refused, TypeOK, RequestTypes, PostsTypes
  <2> QED
    BY <2>1, <2>2, <2>3, ReportersKept DEF Busy
<1>24. ASSUME NEW i \in Intents, ReportTooLarge(i) PROVE OneReporter'
  <2>1. /\ loop' = loop /\ inFlight' = inFlight
    BY <1>24 DEF ReportTooLarge, extension
  <2>2. polls' = polls
    BY <1>24 DEF ReportTooLarge, extension
  <2>3. \A j \in Intents : posts[j].pc = "none" <=> posts'[j].pc = "none"
    BY <1>24 DEF ReportTooLarge, Refused, TypeOK, RequestTypes, PostsTypes
  <2> QED
    BY <2>1, <2>2, <2>3, ReportersKept DEF Busy
<1>25. ASSUME NEW i \in Intents, MarkReported(i) PROVE OneReporter'
  <2>1. /\ loop' = loop /\ inFlight' = inFlight
    BY <1>25 DEF MarkReported, extension
  <2>2. polls' = polls
    BY <1>25 DEF MarkReported, extension
  <2>3. \A j \in Intents : posts[j].pc = "none" <=> posts'[j].pc = "none"
    BY <1>25 DEF MarkReported, TypeOK, RequestTypes, PostsTypes
  <2> QED
    BY <2>1, <2>2, <2>3, ReportersKept DEF Busy
<1>26. ASSUME NEW i \in Intents, FileEvidence(i) PROVE OneReporter'
  <2>1. /\ loop' = loop /\ inFlight' = inFlight
    BY <1>26 DEF FileEvidence, extension
  <2>2. polls' = polls
    BY <1>26 DEF FileEvidence, extension
  <2>3. \A j \in Intents : posts[j].pc = "none" <=> posts'[j].pc = "none"
    BY <1>26 DEF FileEvidence, TypeOK, RequestTypes, PostsTypes
  <2> QED
    BY <2>1, <2>2, <2>3, ReportersKept DEF Busy
<1>27. ASSUME NEW i \in Intents, ReportFails(i) PROVE OneReporter'
  <2>1. /\ loop' = loop /\ inFlight' = inFlight
    BY <1>27 DEF ReportFails, extension
  <2>2. polls' = polls
    BY <1>27 DEF ReportFails, extension
  <2>3. \A j \in Intents : posts[j].pc = "none" <=> posts'[j].pc = "none"
    BY <1>27 DEF ReportFails, TypeOK, RequestTypes, PostsTypes
  <2> QED
    BY <2>1, <2>2, <2>3, ReportersKept DEF Busy
<1>28. ASSUME NEW i \in Intents, Settle(i) PROVE OneReporter'
  <2>1. /\ loop' = loop /\ inFlight' = inFlight
    BY <1>28 DEF Settle, extension
  <2>2. polls' = polls
    BY <1>28 DEF Settle, extension
  <2>3. \A j \in Intents : posts[j].pc = "none" <=> posts'[j].pc = "none"
    BY <1>28 DEF Settle, Refused, TypeOK, RequestTypes, PostsTypes
  <2> QED
    BY <2>1, <2>2, <2>3, ReportersKept DEF Busy
<1>29. ASSUME NEW i \in Intents, Begin(i) PROVE OneReporter'
  <2>1. /\ loop.pc = "taken" /\ loop'.at = loop.at
        /\ inFlight' = inFlight /\ polls' = polls /\ posts' = posts
    BY <1>29 DEF Begin, app
  <2> QED
    BY <2>1, ReportersKept DEF Busy
<1>30. ASSUME NEW l \in Lettings, StopBlocked(l) \/ LeaveToOther(l) PROVE OneReporter'
  <2>1. /\ loop' = loop /\ inFlight' = inFlight /\ polls' = polls /\ posts' = posts
    BY <1>30 DEF StopBlocked, LeaveToOther, app
  <2> QED
    BY <2>1, ReportersKept DEF Busy
<1> QED
  BY ReporterWriters, <1>1, <1>2, <1>3, <1>4, <1>5, <1>6, <1>7, <1>8,
      <1>9, <1>10, <1>11, <1>12, <1>13, <1>14, <1>15, <1>16, <1>17, <1>18,
      <1>19, <1>20, <1>21, <1>22, <1>23, <1>24, <1>25, <1>26, <1>27, <1>28,
      <1>29, <1>30

\* An act is never undone, nor done again.
LEMMA EffectsGrow ==
    ASSUME TypeOK, OneHand, [Next]_vars, NEW i \in Intents
    PROVE  effects[i] = 1 => effects'[i] = 1
<1>1. CASE effects' = effects
  BY <1>1
<1>2. ASSUME NEW j \in Intents, Act(j) PROVE effects[i] = 1 => effects'[i] = 1
  <2>1. effects[j] = 0 /\ effects' = [effects EXCEPT ![j] = effects[j] + 1]
    BY <1>2 DEF Act, OneHand
  <2> QED
    BY <2>1 DEF TypeOK
<1> QED
  BY EffectsWriters, <1>1, <1>2

\* What Reports says of one instruction, of its report and its evidence.
ReportOf(i, post, filed) ==
    /\ post.pc # "none" /\ post.body = "ok" => effects[i] = 1
    /\ post.pc = "filing" => post.body = "ok"
    /\ filed = 0 \/
         /\ filed = 1 /\ effects[i] = 1
         /\ post.pc # "none"
         /\ post.body = "ok" => post.pc \in {"settling", "over"}

\* A refused report says nothing of an act, and a report not yet sent has no
\* evidence.
LEMMA ReportRefused ==
    ASSUME TypeOK, Reports, NEW i \in Intents, posts[i].pc # "none"
    PROVE  ReportOf(i, Refused(posts[i]), evidence[i])
  BY DEF Reports, Refused, ReportOf, TypeOK, RequestTypes, PostsTypes

LEMMA ReportTaken ==
    ASSUME TypeOK, Reports, OneReporter, NEW body, ReportInFlight(body),
           body = "ok" /\ inFlight # NoOne => effects[inFlight] = 1,
           NEW i \in Intents
    PROVE  ReportOf(i, posts'[i], evidence[i])
<1>1. CASE i # inFlight
  BY <1>1, ReportSent DEF Reports, ReportOf
<1>2. CASE i = inFlight
  <2>1. i # NoOne
    BY BrowserChannelAssumption
  <2>2. posts'[i] = [pc |-> "sent", body |-> body, again |-> FALSE]
    BY <1>2, <2>1, ReportSent
  <2>3. evidence[i] = 0
    BY <1>2, <2>1 DEF Reports, OneReporter
  <2> QED
    BY <1>2, <2>1, <2>2, <2>3 DEF ReportOf
<1> QED
  BY <1>1, <1>2

LEMMA ReportWriters ==
    [Next]_vars =>
      \/ UNCHANGED <<posts, evidence>>
      \/ \E i \in Intents :
            CannotOpen(i) \/ Finish(i) \/ ReportArrives(i) \/ ReportTooLarge(i)
            \/ MarkReported(i) \/ FileEvidence(i) \/ ReportFails(i) \/ Settle(i)
      \/ Restart \/ \E l \in Lettings : Block(l) \/ ClearTab(l)
<1> SUFFICES ASSUME Next \/ UNCHANGED vars
             PROVE
               \/ UNCHANGED <<posts, evidence>>
               \/ \E i \in Intents :
                     CannotOpen(i) \/ Finish(i) \/ ReportArrives(i)
                     \/ ReportTooLarge(i) \/ MarkReported(i) \/ FileEvidence(i)
                     \/ ReportFails(i) \/ Settle(i)
               \/ Restart \/ \E l \in Lettings : Block(l) \/ ClearTab(l)
  OBVIOUS
<1>1. ASSUME NEW i \in Intents, NEW k \in Tries,
              Enqueue(i, k) \/ EnqueueFails(i, k) \/ AnswerSettledRow(i, k)
              \/ Hold(i, k) \/ Expire(i, k) \/ AnswerExpired(i, k)
              \/ ExpiryUnreadable(i, k)
      PROVE  UNCHANGED <<posts, evidence>>
  BY <1>1 DEF Enqueue, EnqueueFails, AnswerSettledRow, Hold, Expire,
      AnswerExpired, ExpiryUnreadable, app, database
<1>2. ASSUME NEW i \in Intents,
              Dispatch(i) \/ LoseSocket(i) \/ Conclude(i) \/ Begin(i)
              \/ OpenTab(i) \/ Act(i)
              \/ HaltAbandons(i)
      PROVE  UNCHANGED <<posts, evidence>>
  BY <1>2 DEF Dispatch, LoseSocket, Conclude, Begin, OpenTab, Act,
      HaltAbandons, app,
      database
<1>3. ASSUME NEW p \in Polls,
              Poll(p) \/ Scan(p) \/ Look(p) \/ Drain(p) \/ Claim(p) \/ Respond(p)
      PROVE  UNCHANGED <<posts, evidence>>
  BY <1>3 DEF Poll, Scan, Look, Drain, Claim, Respond, app, database
<1>4. ASSUME
              \/ \E l \in Lettings :
                    Stop(l) \/ StopBlocked(l) \/ Detach(l)
                    \/ ChromeDetaches(l) \/ LeaveToOther(l) \/ ClaimLost(l)
                    \/ Halt(l) \/ HaltUnheard(l)
              \/ Die \/ Revive
      PROVE  UNCHANGED <<posts, evidence>>
  BY <1>4 DEF Stop, StopBlocked, Detach, ChromeDetaches, LeaveToOther,
      ClaimLost, Halt, HaltUnheard, Die, Revive, app, database
<1>5. CASE UNCHANGED vars
  BY <1>5 DEF vars, app, database
<1> QED
  BY <1>1, <1>2, <1>3, <1>4, <1>5 DEF Next, Served

LEMMA ReportsStep ==
    TypeOK /\ OneHand /\ OneReporter /\ Reports /\ [Next]_vars => Reports'
<1> SUFFICES ASSUME TypeOK, OneHand, OneReporter, Reports, [Next]_vars,
                    NEW j \in Intents
             PROVE  ReportOf(j, posts'[j], evidence'[j])
  BY EffectsGrow DEF Reports, ReportOf
<1>1. CASE UNCHANGED <<posts, evidence>>
  BY <1>1 DEF Reports, ReportOf
<1>2. CASE Restart
  BY <1>2 DEF Restart, database, Reports, ReportOf, TypeOK, RequestTypes, PostsTypes
<1>3. ASSUME NEW i \in Intents, CannotOpen(i) PROVE ReportOf(j, posts'[j], evidence'[j])
  <2>1. \E body \in Bodies \ {"ok"} : ReportInFlight(body)
    BY <1>3 DEF CannotOpen, Bodies
  <2>2. evidence' = evidence
    BY <1>3 DEF CannotOpen, database
  <2> QED
    BY <2>1, <2>2, ReportTaken
<1>4. ASSUME NEW i \in Intents, Finish(i) PROVE ReportOf(j, posts'[j], evidence'[j])
  <2>1. PICK body \in Endings : ReportInFlight(body)
    BY <1>4 DEF Finish
  <2>2. loop.pc \in {"performing", "acted"} /\ evidence' = evidence
    BY <1>4 DEF Finish, database
  <2>3. body = "ok" => loop.pc = "acted"
    BY DEF Endings
  <2>4. inFlight \in {loop.at, NoOne}
    BY <2>2 DEF OneReporter, Busy
  <2>5. body = "ok" /\ inFlight # NoOne => effects[inFlight] = 1
    BY <2>3, <2>4 DEF OneHand
  <2> QED
    BY <2>1, <2>2, <2>5, ReportTaken
<1>5. ASSUME NEW l \in Lettings, Block(l) PROVE ReportOf(j, posts'[j], evidence'[j])
  <2>1. \E body \in Bodies \ {"ok"} : ReportInFlight(body)
    BY <1>5 DEF Block, Bodies
  <2>2. evidence' = evidence
    BY <1>5 DEF Block, database
  <2> QED
    BY <2>1, <2>2, ReportTaken
<1>6. ASSUME NEW l \in Lettings, ClearTab(l) PROVE ReportOf(j, posts'[j], evidence'[j])
  <2> DEFINE i == release[l].intent
  <2>1. /\ release[l].pc = "claimed" /\ evidence' = evidence
        /\ posts' = IF i = NoOne THEN posts
                    ELSE [posts EXCEPT ![i] =
                        [pc |-> "sent", body |-> "control-lost", again |-> FALSE]]
    BY <1>6 DEF ClearTab, database
  <2>2. CASE i = j
    <3>1. posts[j].pc = "none" /\ j # NoOne
      BY <2>1, <2>2, BrowserChannelAssumption DEF OneReporter, Claims
    <3>2. posts'[j] = [pc |-> "sent", body |-> "control-lost", again |-> FALSE]
      BY <2>1, <2>2, <3>1 DEF TypeOK, RequestTypes, PostsTypes
    <3>3. evidence[j] = 0
      BY <3>1 DEF Reports
    <3> QED
      BY <2>1, <3>2, <3>3 DEF ReportOf
  <2>3. CASE i # j
    BY <2>1, <2>3 DEF Reports, ReportOf, TypeOK, RequestTypes, PostsTypes
  <2> QED
    BY <2>2, <2>3
<1>7. ASSUME NEW i \in Intents, ReportArrives(i) PROVE ReportOf(j, posts'[j], evidence'[j])
  <2>1. evidence' = evidence /\ posts[i].pc # "none"
    BY <1>7 DEF ReportArrives, database
  <2>2. CASE i = j
    <3>1. \/ posts'[j] = Refused(posts[j])
          \/ posts'[j] = [posts[j] EXCEPT !.pc = "marking"]
      BY <1>7, <2>2 DEF ReportArrives, TypeOK, RequestTypes, PostsTypes
    <3> QED
      BY <1>7, <2>1, <2>2, <3>1, ReportRefused
      DEF ReportArrives, Reports, ReportOf, TypeOK, RequestTypes, PostsTypes
  <2>3. CASE i # j
    BY <1>7, <2>1, <2>3 DEF ReportArrives, Reports, ReportOf, TypeOK, RequestTypes, PostsTypes
  <2> QED
    BY <2>2, <2>3
<1>8. ASSUME NEW i \in Intents, ReportTooLarge(i) PROVE ReportOf(j, posts'[j], evidence'[j])
  <2>1. evidence' = evidence /\ posts[i].pc # "none"
    BY <1>8 DEF ReportTooLarge, database
  <2>2. CASE i = j
    <3>1. \/ posts'[j] = Refused(posts[j])
          \/ posts'[j] = [posts[j] EXCEPT !.pc = "over"]
      BY <1>8, <2>2 DEF ReportTooLarge, TypeOK, RequestTypes, PostsTypes
    <3> QED
      BY <1>8, <2>1, <2>2, <3>1, ReportRefused
      DEF ReportTooLarge, Reports, ReportOf, TypeOK, RequestTypes, PostsTypes
  <2>3. CASE i # j
    BY <1>8, <2>1, <2>3 DEF ReportTooLarge, Reports, ReportOf, TypeOK, RequestTypes, PostsTypes
  <2> QED
    BY <2>2, <2>3
<1>9. ASSUME NEW i \in Intents, MarkReported(i) PROVE ReportOf(j, posts'[j], evidence'[j])
  BY <1>9 DEF MarkReported, database, Reports, ReportOf, TypeOK, RequestTypes, PostsTypes,
    DatabaseTypes
<1>10. ASSUME NEW i \in Intents, FileEvidence(i) PROVE ReportOf(j, posts'[j], evidence'[j])
  BY <1>10 DEF FileEvidence, database, Reports, ReportOf, TypeOK, RequestTypes, PostsTypes,
    DatabaseTypes
<1>11. ASSUME NEW i \in Intents, ReportFails(i) PROVE ReportOf(j, posts'[j], evidence'[j])
  BY <1>11 DEF ReportFails, database, Reports, ReportOf, TypeOK, RequestTypes, PostsTypes,
    DatabaseTypes
<1>12. ASSUME NEW i \in Intents, Settle(i) PROVE ReportOf(j, posts'[j], evidence'[j])
  <2>1. evidence' = evidence /\ posts[i].pc # "none"
    BY <1>12 DEF Settle, database
  <2>2. CASE i = j
    <3>1. \/ posts'[j] = Refused(posts[j])
          \/ posts'[j] = [posts[j] EXCEPT !.pc = "over"]
      BY <1>12, <2>2 DEF Settle, TypeOK, RequestTypes, PostsTypes
    <3> QED
      BY <1>12, <2>1, <2>2, <3>1, ReportRefused
      DEF Settle, Reports, ReportOf, TypeOK, RequestTypes, PostsTypes
  <2>3. CASE i # j
    BY <1>12, <2>1, <2>3 DEF Settle, Reports, ReportOf, TypeOK, RequestTypes, PostsTypes
  <2> QED
    BY <2>2, <2>3
<1> QED
  BY ReportWriters, <1>1, <1>2, <1>3, <1>4, <1>5, <1>6, <1>7, <1>8,
      <1>9, <1>10, <1>11, <1>12

\* A handler knows its row abandoned only from the row.
LEMMA SettledRowsStep ==
    ASSUME TypeOK, Truthful, [Next]_vars, NEW j \in Intents, NEW n \in Tries,
           calls'[j][n] = "abandoned"
    PROVE  row'[j] = "abandoned"
<1> USE DEF TypeOK, RequestTypes, CallsTypes
<1>1. row[j] = "abandoned" => row'[j] = "abandoned"
  BY RowsSettle
<1>2. calls[j][n] = "abandoned" => row[j] = "abandoned"
  BY DEF Truthful
<1>3. CASE calls' = calls
  BY <1>1, <1>2, <1>3
<1>4. ASSUME NEW i \in Intents, Dispatch(i) PROVE row'[j] = "abandoned"
  BY <1>1, <1>2, <1>4 DEF Dispatch
<1>5. ASSUME NEW i \in Intents, NEW k \in Tries, Enqueue(i, k)
      PROVE  row'[j] = "abandoned"
  BY <1>1, <1>2, <1>5 DEF Enqueue
<1>6. ASSUME NEW gone, EndCalls(gone) PROVE row'[j] = "abandoned"
  BY <1>1, <1>2, <1>6 DEF EndCalls
<1>7. ASSUME NEW i \in Intents, NEW k \in Tries,
             EnqueueFails(i, k) \/ AnswerSettledRow(i, k) \/ AnswerExpired(i, k)
             \/ ExpiryUnreadable(i, k)
      PROVE  row'[j] = "abandoned"
  BY <1>6, <1>7 DEF EnqueueFails, AnswerSettledRow, AnswerExpired, ExpiryUnreadable
<1>8. ASSUME NEW i \in Intents, NEW k \in Tries, Hold(i, k)
      PROVE  row'[j] = "abandoned"
  <2>1. CASE calls' = [l \in Intents |-> [m \in Tries |->
                CASE <<l, m>> \in Sockets({i}) -> "ended"
                  [] <<l, m>> = <<i, k>> -> "held"
                  [] OTHER -> calls[l][m]]]
    <3>1. calls'[j][n] \in {"ended", "held", calls[j][n]}
      BY <2>1
    <3> QED
      BY <1>1, <1>2, <3>1
  <2> QED
    BY <1>6, <1>8, <2>1 DEF Hold
<1>9. ASSUME NEW i \in Intents, NEW k \in Tries, Expire(i, k)
      PROVE  row'[j] = "abandoned"
  BY <1>1, <1>2, <1>9 DEF Expire
<1>10. CASE Restart
  BY <1>10 DEF Restart
<1>11. ASSUME NEW l \in Lettings, Halt(l) PROVE row'[j] = "abandoned"
  BY <1>6, <1>11 DEF Halt
<1>12. ASSUME NEW i \in Intents, Settle(i) PROVE row'[j] = "abandoned"
  BY <1>6, <1>12 DEF Settle
<1> QED
  BY CallsWriters, <1>3, <1>4, <1>5, <1>7, <1>8, <1>9, <1>10, <1>11, <1>12

\* What answering tells the worker.
LEMMA AnswerTells ==
    ASSUME WorkerTypes, NEW gone, NEW by, NEW what, Answer(gone, by, what),
           NEW j \in Intents
    PROVE  \/ heard'[j] = heard[j]
           \/ /\ <<j, tries[j]>> \in gone /\ heard[j].is = "waiting"
              /\ heard'[j] = [is |-> "answered", by |-> by, what |-> what]
  BY DEF WorkerTypes, Answer

\* What Truthful says of one intent.
TrueOf(j, said) ==
    /\ said.is = "answered" /\ said.by = "app" /\ said.what = "not-delivered"
          => row'[j] = "abandoned"
    /\ said.is = "answered" /\ said.by = "browser" /\ said.what = "ok"
          => effects'[j] = 1

LEMMA AnswersStep ==
    ASSUME TypeOK, OneHand, Reports, Truthful, [Next]_vars, NEW j \in Intents
    PROVE  TrueOf(j, heard'[j])
<1>1. TrueOf(j, heard[j])
  BY RowsSettle, EffectsGrow DEF Truthful, TrueOf, Told
<1>2. ASSUME NEW gone, NEW by, NEW what, Answer(gone, by, what),
              by = "app" /\ what = "not-delivered" /\ <<j, tries[j]>> \in gone
                 => row'[j] = "abandoned",
              by = "browser" /\ what = "ok" /\ <<j, tries[j]>> \in gone
                 => effects'[j] = 1
       PROVE  TrueOf(j, heard'[j])
  <2>1. WorkerTypes
    BY DEF TypeOK
  <2>2. \/ heard'[j] = heard[j]
        \/ /\ <<j, tries[j]>> \in gone
           /\ heard'[j] = [is |-> "answered", by |-> by, what |-> what]
    BY <1>2, <2>1, AnswerTells
  <2> QED
    BY <1>1, <1>2, <2>2 DEF TrueOf
<1>3. CASE worker' = worker
  BY <1>1, <1>3 DEF worker
<1>4. ASSUME NEW i \in Intents, Dispatch(i) PROVE TrueOf(j, heard'[j])
  BY <1>1, <1>4 DEF Dispatch, TrueOf, TypeOK, WorkerTypes
<1>5. ASSUME NEW i \in Intents, NEW k \in Tries, EnqueueFails(i, k)
      PROVE  TrueOf(j, heard'[j])
  <2>1. Answer({<<i, k>>}, "client", "not-delivered")
    BY <1>5 DEF EnqueueFails
  <2> QED
    BY <1>2, <2>1
<1>6. ASSUME NEW i \in Intents, NEW k \in Tries, AnswerSettledRow(i, k)
      PROVE  TrueOf(j, heard'[j])
  <2>1. CASE calls[i][k] = "abandoned"
    <3>1. row'[i] = "abandoned"
      BY <2>1, RowsSettle DEF Truthful
    <3>2. Answer({<<i, k>>}, "app", "not-delivered")
      BY <1>6, <2>1 DEF AnswerSettledRow
    <3> QED
      BY <1>2, <3>1, <3>2
  <2>2. CASE calls[i][k] = "reported"
    <3>1. Answer({<<i, k>>}, "app", "not-reported")
      BY <1>6, <2>2 DEF AnswerSettledRow
    <3> QED
      BY <1>2, <3>1
  <2> QED
    BY <1>6, <2>1, <2>2 DEF AnswerSettledRow
<1>7. ASSUME NEW i \in Intents, NEW k \in Tries, Hold(i, k)
      PROVE  TrueOf(j, heard'[j])
  <2>1. \E gone : \E what \in {"control-lost", "not-reported"} : Answer(gone, "app", what)
    BY <1>7 DEF Hold
  <2> QED
    BY <1>2, <2>1
<1>8. ASSUME NEW i \in Intents, NEW k \in Tries, AnswerExpired(i, k)
      PROVE  TrueOf(j, heard'[j])
  <2>1. CASE row[i] = "queued"
    <3>1. row'[i] = "abandoned" /\ Answer({<<i, k>>}, "app", "not-delivered")
      BY <1>8, <2>1 DEF AnswerExpired, TypeOK, DatabaseTypes
    <3> QED
      BY <1>2, <3>1
  <2>2. CASE row[i] # "queued"
    <3>1. Answer({<<i, k>>}, "app", "not-reported")
      BY <1>8, <2>2 DEF AnswerExpired
    <3> QED
      BY <1>2, <3>1
  <2> QED
    BY <2>1, <2>2
<1>9. ASSUME NEW i \in Intents, NEW k \in Tries, ExpiryUnreadable(i, k)
      PROVE  TrueOf(j, heard'[j])
  <2>1. Answer({<<i, k>>}, "app", "not-reported")
    BY <1>9 DEF ExpiryUnreadable
  <2> QED
    BY <1>2, <2>1
<1>10. ASSUME NEW i \in Intents, LoseSocket(i) \/ Conclude(i)
      PROVE  TrueOf(j, heard'[j])
  BY <1>1, <1>10 DEF LoseSocket, Conclude, TrueOf, TypeOK, WorkerTypes
<1>11. CASE Restart
  BY <1>1, <1>11 DEF Restart, TrueOf, TypeOK, WorkerTypes
<1>12. ASSUME NEW l \in Lettings, Halt(l) PROVE TrueOf(j, heard'[j])
  <2>1. \E gone : Answer(gone, "app", "control-lost")
    BY <1>12 DEF Halt
  <2> QED
    BY <1>2, <2>1
<1>13. ASSUME NEW i \in Intents, Settle(i) PROVE TrueOf(j, heard'[j])
  <2>1. posts[i].pc = "settling" /\ Answer(Sockets({i}), "browser", posts[i].body)
    BY <1>13 DEF Settle
  <2>2. posts[i].body = "ok" => effects'[i] = 1
    BY <2>1, EffectsGrow DEF Reports
  <2>3. <<j, tries[j]>> \in Sockets({i}) => j = i
    BY DEF Sockets
  <2> QED
    BY <1>2, <2>1, <2>2, <2>3
<1> QED
  BY WorkerWriters, <1>3, <1>4, <1>5, <1>6, <1>7, <1>8, <1>9, <1>10, <1>11,
     <1>12, <1>13

LEMMA TruthfulStep ==
    TypeOK /\ OneHand /\ Reports /\ Truthful /\ [Next]_vars => Truthful'
<1> SUFFICES ASSUME TypeOK, OneHand, Reports, Truthful, [Next]_vars,
                    NEW j \in Intents
             PROVE  /\ \A n \in Tries : calls'[j][n] = "abandoned" => row'[j] = "abandoned"
                    /\ TrueOf(j, heard'[j])
  BY DEF Truthful, TrueOf, Told
<1> QED
  BY SettledRowsStep, AnswersStep

\* The loop takes a command only from a poll, and goes on with the one it took.
LEMMA LoopSteps ==
    ASSUME TypeOK, PollRows, [Next]_vars
    PROVE  /\ loop'.pc \in {"taken", "opening"} =>
                 \/ loop.pc \in {"taken", "opening"} /\ loop'.at = loop.at
                 \/ \E p \in Polls : polls[p].pc = "respond" /\ loop'.at = polls[p].row
           /\ loop'.pc \in {"performing", "acted"} => Busy /\ loop'.at = loop.at
<1>1. CASE loop' = loop
  BY <1>1 DEF Busy
<1>2. CASE loop'.pc \in {"dead", "idle", "polling"}
  BY <1>2
<1>3. ASSUME NEW p \in Polls, Respond(p)
      PROVE  \/ loop' = loop \/ loop'.pc = "idle"
             \/ polls[p].pc = "respond" /\ loop' = [pc |-> "taken", at |-> polls[p].row]
  BY <1>3 DEF Respond, PollRows, TypeOK, RequestTypes, PollsTypes
<1>4. ASSUME NEW i \in Intents, Begin(i)
      PROVE  /\ loop.pc = "taken" /\ loop'.pc \in {"opening", "performing"}
             /\ loop.at = i /\ loop'.at = i
  BY <1>4 DEF Begin
<1>5. ASSUME NEW i \in Intents, OpenTab(i) \/ Act(i)
      PROVE  /\ loop.pc \in {"opening", "performing"} /\ loop'.pc \in {"performing", "acted"}
             /\ loop.at = i /\ loop'.at = i
  BY <1>5 DEF OpenTab, Act
<1>6. ASSUME NEW i \in Intents, CannotOpen(i) \/ Finish(i) PROVE loop'.pc = "idle"
  BY <1>6 DEF CannotOpen, Finish
<1>7. ASSUME NEW p \in Polls, Poll(p) PROVE loop'.pc = "polling"
  BY <1>7 DEF Poll
<1>8. ASSUME Restart \/ Die \/ Revive
      PROVE  loop' = loop \/ loop'.pc \in {"dead", "idle", "polling"}
  BY <1>8 DEF Restart, Die, Revive
<1>9. ASSUME NEW l \in Lettings,
             Stop(l) \/ Block(l) \/ StopBlocked(l) \/ Detach(l) \/ ChromeDetaches(l)
             \/ LeaveToOther(l) \/ ClaimLost(l) \/ ClearTab(l) \/ Halt(l)
             \/ HaltUnheard(l)
      PROVE  loop' = loop
  BY <1>9 DEF Stop, Block, StopBlocked, Detach, ChromeDetaches, LeaveToOther,
      ClaimLost, ClearTab, Halt, HaltUnheard
<1>10. extension' = extension => loop' = loop
  BY DEF extension
<1> QED
  BY ExtensionWriters, <1>1, <1>2, <1>3, <1>4, <1>5, <1>6, <1>7, <1>8, <1>9,
      <1>10 DEF Busy

\* What a letting-go has read is the tab held when it read it, and it is past
\* detaching only once it has detached that tab.
ReadsRight(l) ==
    /\ release'[l].tab \in {release[l].tab, tab, NoOne}
    /\ release'[l].pc = "detached" /\ release'[l].tab = tab' =>
          ~attached' \/ (release'[l] = release[l] /\ tab' = tab /\ attached' = attached)

LEMMA TabSteps ==
    ASSUME TypeOK, [Next]_vars
    PROVE  \/ \E i \in Intents : OpenTab(i)
           \/ /\ tab' \in {tab, NoOne}
              /\ attached' => attached
              /\ \A l \in Lettings : ReadsRight(l)
<1> DEFINE Right == /\ tab' \in {tab, NoOne}
                    /\ attached' => attached
                    /\ \A l \in Lettings : ReadsRight(l)
<1>0. /\ \A l \in Lettings : release[l].tab \in Intents \union {NoOne}
      /\ NoOne \notin Intents /\ attached \in BOOLEAN
  BY BrowserChannelAssumption DEF TypeOK, ExtensionTypes
<1>1. CASE UNCHANGED <<tab, attached, release>>
  BY <1>1 DEF ReadsRight
<1>2. ASSUME NEW l \in Lettings, NEW x, x.pc # "detached", x.tab \in {release[l].tab, tab, NoOne},
             release' = [release EXCEPT ![l] = x], UNCHANGED <<tab, attached>>
      PROVE  Right
  BY <1>2 DEF TypeOK, ExtensionTypes, ReadsRight
<1>3. CASE Die
  BY <1>3 DEF Die, NotLetting, ReadsRight
<1>4. ASSUME NEW l \in Lettings, Stop(l) PROVE Right
  <2> DEFINE x == [NotLetting EXCEPT !.pc = "detaching", !.tab = tab]
  <2>1. x.pc = "detaching" /\ x.tab = tab
    BY DEF NotLetting
  <2> QED
    BY <1>2, <1>4, <2>1 DEF Stop
<1>5. ASSUME NEW l \in Lettings, Block(l) PROVE Right
  BY <1>5 DEF Block, TypeOK, ExtensionTypes, ReadsRight
<1>6. ASSUME NEW l \in Lettings, StopBlocked(l) PROVE Right
  <2> DEFINE x == IF tab = NoOne THEN NotLetting
                  ELSE [NotLetting EXCEPT !.pc = "detaching", !.tab = tab]
  <2>1. x.pc \in {"none", "detaching"} /\ x.tab \in {NoOne, tab}
    BY DEF NotLetting
  <2> QED
    BY <1>2, <1>6, <2>1 DEF StopBlocked
<1>7. ASSUME NEW l \in Lettings, LeaveToOther(l) \/ Halt(l) \/ HaltUnheard(l) PROVE Right
  <2>1. release' = [release EXCEPT ![l] = NotLetting] /\ UNCHANGED <<tab, attached>>
    BY <1>7 DEF LeaveToOther, Halt, HaltUnheard
  <2> QED
    BY <1>2, <2>1 DEF NotLetting
<1>8. ASSUME NEW l \in Lettings, Detach(l) PROVE Right
  <2> DEFINE y == [NotLetting EXCEPT !.pc = "detached", !.tab = tab]
  <2>1. tab' = tab /\ attached' = (attached /\ tab # release[l].tab)
    BY <1>8 DEF Detach
  <2>2. CASE release' = [release EXCEPT ![l].pc = "detached"]
    BY <2>1, <2>2 DEF TypeOK, ExtensionTypes, ReadsRight
  <2>3. ASSUME NEW m \in Lettings, tab = release[l].tab,
               release' = [release EXCEPT ![l].pc = "detached", ![m] = y]
        PROVE  Right
    <3>1. y.tab = tab
      BY DEF NotLetting
    <3>2. /\ \A n \in Lettings \ {l, m} : release'[n] = release[n]
          /\ release'[m] = y
          /\ release'[l] \in {y, [release[l] EXCEPT !.pc = "detached"]}
      BY <2>3 DEF TypeOK, ExtensionTypes
    <3>3. [release[l] EXCEPT !.pc = "detached"].tab = release[l].tab
      BY DEF TypeOK, ExtensionTypes
    <3>4. ~attached' /\ \A n \in Lettings : release'[n].tab \in {release[n].tab, tab}
      BY <2>1, <2>3, <3>1, <3>2, <3>3
    <3> QED
      BY <2>1, <3>4 DEF ReadsRight
  <2> QED
    BY <1>8, <2>2, <2>3 DEF Detach
<1>9. ASSUME NEW l \in Lettings, ChromeDetaches(l) PROVE Right
  <2> DEFINE x == [NotLetting EXCEPT !.pc = "detached", !.tab = tab]
  <2>1. x.tab = tab
    BY DEF NotLetting
  <2>2. tab' = tab /\ attached' = FALSE /\ release' = [release EXCEPT ![l] = x]
    BY <1>9 DEF ChromeDetaches
  <2> QED
    BY <2>1, <2>2 DEF TypeOK, ExtensionTypes, ReadsRight
<1>10. ASSUME NEW l \in Lettings, ClaimLost(l) PROVE Right
  BY <1>10 DEF ClaimLost, TypeOK, ExtensionTypes, ReadsRight
<1>11. ASSUME NEW l \in Lettings, ClearTab(l) PROVE Right
  <2>1. /\ tab' = NoOne /\ attached' = attached /\ release[l].pc = "claimed"
        /\ release' = [release EXCEPT ![l].pc = "telling"]
    BY <1>11 DEF ClearTab
  <2>2. /\ \A n \in Lettings \ {l} : release'[n] = release[n]
        /\ release'[l].pc = "telling" /\ release'[l].tab = release[l].tab
    BY <2>1 DEF TypeOK, ExtensionTypes
  <2>3. \A n \in Lettings : release[n].pc = "detached" => release[n].tab # NoOne
    BY <1>0 DEF TypeOK, ExtensionTypes
  <2> QED
    BY <2>1, <2>2, <2>3 DEF ReadsRight
<1>12. ASSUME NEW i \in Intents, Begin(i) \/ CannotOpen(i) \/ Act(i) \/ Finish(i)
       PROVE  UNCHANGED <<tab, attached, release>>
  BY <1>12 DEF Begin, CannotOpen, Act, Finish
<1>13. ASSUME NEW p \in Polls, Poll(p) \/ Respond(p)
       PROVE  UNCHANGED <<tab, attached, release>>
  BY <1>13 DEF Poll, Respond
<1>14. Restart \/ Revive \/ extension' = extension => UNCHANGED <<tab, attached, release>>
  BY DEF Restart, Revive, extension
<1> QED
  BY ExtensionWriters, <1>1, <1>3, <1>4, <1>5, <1>6, <1>7, <1>8, <1>9, <1>10,
      <1>11, <1>12, <1>13, <1>14

\* A poll comes to answer with a row only by claiming it from the queue.
LEMMA AnswersWith ==
    ASSUME TypeOK, PollRows, [Next]_vars, NEW p \in Polls, polls'[p].pc = "respond"
    PROVE  polls'[p] = polls[p] \/ row[polls'[p].row] = "queued"
<1>1. CASE polls' = polls \/ Restart
  BY <1>1 DEF Restart
<1>2. ASSUME NEW q \in Polls,
             Poll(q) \/ Scan(q) \/ Look(q) \/ Drain(q) \/ Respond(q)
      PROVE  polls'[p] = polls[p]
  BY <1>2, Walked
<1>3. ASSUME NEW q \in Polls, Claim(q)
      PROVE  polls'[p] = polls[p] \/ row[polls'[p].row] = "queued"
  BY <1>3, Claimed
<1> QED
  BY PollsWriters, <1>1, <1>2, <1>3

\* What comes to be of the past is handed out already, and in the loop if it
\* is in any hand.
LEMMA PastGrows ==
    ASSUME TypeOK, OneHand, [Next]_vars, NEW t \in Intents,
           \/ tab' = t
           \/ \E l \in Lettings : release'[l].tab = t
           \/ t \in interrupted'
    PROVE  Past(t) \/ (Busy /\ loop.at = t /\ loop'.pc \in {"performing", "acted"})
<1>1. t \in interrupted' =>
          t \in interrupted \/ (Busy /\ loop.at = t /\ loop'.pc \in {"performing", "acted"})
  BY InterruptedWriters DEF ClaimLost, Busy
<1>2. ASSUME NEW i \in Intents, OpenTab(i)
      PROVE  /\ tab' = i /\ release' = release
             /\ Busy /\ loop.at = i /\ loop'.pc \in {"performing", "acted"}
  BY <1>2 DEF OpenTab, Busy
<1>3. NoOne \notin Intents
  BY BrowserChannelAssumption
<1> QED
  BY TabSteps, <1>1, <1>2, <1>3 DEF Past, ReadsRight

LEMMA HeldStep ==
    TypeOK /\ PollRows /\ OneHand /\ Held /\ [Next]_vars => Held'
<1> SUFFICES ASSUME TypeOK, PollRows, OneHand, Held, [Next]_vars PROVE Held'
  OBVIOUS
<1>1. ASSUME NEW t \in Intents,
             \/ tab' = t
             \/ \E l \in Lettings : release'[l].tab = t
             \/ t \in interrupted'
      PROVE  /\ row'[t] \in {"delivered", "reported"}
             /\ loop'.pc \in {"taken", "opening"} => loop'.at # t
             /\ \A p \in Polls : polls'[p].pc = "respond" => polls'[p].row # t
  <2>1. Past(t) \/ (Busy /\ loop.at = t /\ loop'.pc \in {"performing", "acted"})
    BY <1>1, PastGrows
  <2>2. /\ Handed(t)
        /\ \A p \in Polls : polls[p].pc = "respond" => polls[p].row # t
    BY <2>1 DEF Held, OneHand
  <2>3. row'[t] \in {"delivered", "reported"}
    BY <2>2, RowsSettle DEF Handed
  <2>4. loop'.pc \in {"taken", "opening"} => loop'.at # t
    BY <2>1, <2>2, LoopSteps DEF Held
  <2>5. \A p \in Polls : polls'[p].pc = "respond" => polls'[p].row # t
    BY <2>2, AnswersWith DEF Handed
  <2> QED
    BY <2>3, <2>4, <2>5
<1>2. ASSUME NEW i \in Intents, OpenTab(i)
      PROVE  /\ loop.pc = "opening" /\ loop.at = i /\ loop'.at = i
             /\ tab' = i /\ release' = release /\ interrupted' = interrupted
             /\ ~Past(i)
  BY <1>2 DEF OpenTab, Held
<1>3. ASSUME NEW l \in Lettings, release'[l].pc = "detached", release'[l].tab = tab'
      PROVE  ~attached'
  <2>1. CASE \E i \in Intents : OpenTab(i)
    BY <1>2, <1>3, <2>1 DEF Past
  <2>2. CASE ReadsRight(l)
    BY <1>3, <2>2 DEF ReadsRight, Held
  <2> QED
    BY <2>1, <2>2, TabSteps
<1>4. ASSUME NEW i \in interrupted', loop'.pc \in {"taken", "opening", "performing", "acted"},
             loop'.at = i
      PROVE  tab' = NoOne \/ ~attached'
  <2>1. i \in Intents
    BY InterruptedTypesStep
  <2>2. loop'.pc \in {"performing", "acted"}
    BY <1>1, <1>4, <2>1
  <2>3. Busy /\ loop.at = i
    BY <1>4, <2>2, LoopSteps
  <2>4. ASSUME NEW j \in Intents, OpenTab(j) PROVE FALSE
    BY <1>2, <1>4, <2>3, <2>4 DEF Past
  <2>5. tab' \in {tab, NoOne} /\ (attached' => attached)
    BY <2>4, TabSteps
  <2>6. CASE i \in interrupted
    BY <2>3, <2>5, <2>6 DEF Held
  <2>7. ASSUME NEW l \in Lettings, ClaimLost(l), i \notin interrupted
        PROVE  tab = NoOne \/ ~attached
    BY <1>4, <2>7 DEF ClaimLost, Held
  <2> QED
    BY <1>4, <2>5, <2>6, <2>7, InterruptedWriters
<1> QED
  BY <1>1, <1>3, <1>4 DEF Held, Past, Handed, Busy

LEMMA IInvInit == Init => IInv
<1> SUFFICES ASSUME Init PROVE IInv
  OBVIOUS
<1>1. PollRows
  BY BrowserChannelAssumption DEF Init, PollRows
<1>2. OneHand
  BY DEF Init, OneHand, Busy
<1>3. OneReporter
  BY DEF Init, OneReporter, Busy, Claims, NotLetting
<1>4. Reports
  BY DEF Init, Reports
<1>5. Truthful
  BY DEF Init, Truthful, Told
<1>6. Held
  <2>1. \A t \in Intents : ~Past(t)
    BY BrowserChannelAssumption DEF Init, Past, NotLetting
  <2> QED
    BY <2>1 DEF Init, Held, NotLetting
<1>7. OneRelease
  BY DEF Init, OneRelease, NotLetting
<1> QED
  BY TypeInit, <1>1, <1>2, <1>3, <1>4, <1>5, <1>6, <1>7 DEF IInv

LEMMA IInvStep == IInv /\ [Next]_vars => IInv'
  BY TypeStep, PollRowsStep, OneHandStep, OneReleaseStep, OneReporterStep,
     ReportsStep, TruthfulStep, HeldStep DEF IInv

LEMMA IInvHolds == Spec => []IInv
  BY IInvInit, IInvStep, PTL DEF Spec

-----------------------------------------------------------------------------
(* What follows from it.                                                   *)

\* A row that says abandoned is never over an effect that landed: whichever of
\* an expiry, a drained orphan or a halt abandons it, and however that races
\* the polls, the instruction was not and will not be handed out.
THEOREM AbandonedMeansNotRun == Spec => []AbandonedNeverRan
<1>1. IInv => AbandonedNeverRan
  BY DEF IInv, OneHand, Handed, AbandonedNeverRan
<1> QED
  BY <1>1, IInvHolds, PTL

\* An intent has at most one row of evidence, and only if it acted, though
\* reports are sent again and holds end while evidence is being filed.
THEOREM EvidenceOfOneAct == Spec => []EvidenceIsOfOneAct
<1>1. IInv => EvidenceIsOfOneAct
  BY DEF IInv, Reports, TypeOK, EvidenceIsOfOneAct
<1> QED
  BY <1>1, IInvHolds, PTL

\* Whatever a block, a stop, a detach and the end of a command come to report of
\* it, and however many let go at once, what is said first is never replaced:
\* only the sender of a refused report says once more that there is none.
THEOREM OneOutcomeHolds == Spec => OneOutcome
<1> DEFINE Kept ==
        \A i \in Intents : posts[i].pc # "none" =>
            \/ posts'[i].again
            \/ posts'[i].body = posts[i].body /\ (posts'[i].pc = "sent" => posts'[i] = posts[i])
<1>1. IInv /\ [Next]_vars => [Kept]_vars
  <2> SUFFICES ASSUME IInv, [Next]_vars, NEW i \in Intents, posts[i].pc # "none"
               PROVE  \/ posts'[i].again
                      \/ /\ posts'[i].body = posts[i].body
                         /\ posts'[i].pc = "sent" => posts'[i] = posts[i]
    OBVIOUS
  <2>0. TypeOK /\ OneReporter /\ PostsTypes
    BY DEF IInv, TypeOK, RequestTypes
  <2>1. CASE posts'[i] = posts[i]
    BY <2>1
  <2>2. ASSUME NEW body, ReportInFlight(body) PROVE posts'[i] = posts[i]
    BY <2>0, <2>2, ReportSent, BrowserChannelAssumption DEF OneReporter
  <2>3. ASSUME NEW j \in Intents, CannotOpen(j) \/ Finish(j) PROVE posts'[i] = posts[i]
    BY <2>2, <2>3 DEF CannotOpen, Finish
  <2>4. ASSUME NEW l \in Lettings, Block(l) PROVE posts'[i] = posts[i]
    BY <2>2, <2>4 DEF Block
  <2>5. ASSUME NEW l \in Lettings, ClearTab(l) PROVE posts'[i] = posts[i]
    <3>1. release[l].intent # i
      BY <2>0, <2>5 DEF ClearTab, OneReporter, Claims
    <3> QED
      BY <2>0, <2>5, <3>1 DEF ClearTab, PostsTypes
  <2>6. CASE Restart
    BY <2>0, <2>6 DEF Restart, PostsTypes
  <2>7. ASSUME NEW j \in Intents, j # i,
               ReportArrives(j) \/ ReportTooLarge(j) \/ MarkReported(j)
               \/ FileEvidence(j) \/ ReportFails(j) \/ Settle(j)
        PROVE  posts'[i] = posts[i]
    BY <2>0, <2>7 DEF ReportArrives, ReportTooLarge, MarkReported, FileEvidence,
        ReportFails, Settle, PostsTypes
  <2>8. ASSUME ReportArrives(i) \/ ReportTooLarge(i) \/ MarkReported(i)
               \/ FileEvidence(i) \/ ReportFails(i) \/ Settle(i)
        PROVE  \/ posts'[i] = Refused(posts[i])
               \/ posts'[i].body = posts[i].body /\ posts'[i].pc # "sent"
    BY <2>0, <2>8 DEF ReportArrives, ReportTooLarge, MarkReported, FileEvidence,
        ReportFails, Settle, PostsTypes
  <2>9. \/ Refused(posts[i]).again = TRUE
        \/ Refused(posts[i]).body = posts[i].body /\ Refused(posts[i]).pc # "sent"
    BY <2>0 DEF Refused, PostsTypes
  <2> QED
    BY <2>1, <2>3, <2>4, <2>5, <2>6, <2>7, <2>8, <2>9, PostsWriters
<1> QED
  BY <1>1, IInvHolds, PTL DEF Spec, OneOutcome

\* However many let go of a tab at once, a command at work in a tab when a
\* letting-go of that tab claims it never acts from then on: no tab is held any
\* more, or the one it works in has been detached and is not attached again.
THEOREM LetGoIsHandsOff == Spec => HandsOff
<1> DEFINE Off == \A i \in interrupted : effects'[i] = effects[i]
<1>1. IInv /\ [Next]_vars => [Off]_vars
  <2> SUFFICES ASSUME IInv, [Next]_vars, NEW i \in interrupted
               PROVE  effects'[i] = effects[i]
    OBVIOUS
  <2>1. /\ effects \in [Intents -> Nat] /\ i \in Intents
        /\ Busy /\ loop.at = i => tab = NoOne \/ ~attached
    BY DEF IInv, Held, TypeOK
  <2>2. ASSUME NEW j \in Intents, Act(j) PROVE effects'[i] = effects[i]
    <3>1. j # i
      BY <2>1, <2>2 DEF Act, Busy
    <3> QED
      BY <2>1, <2>2, <3>1 DEF Act
  <2> QED
    BY <2>2, EffectsWriters
<1> QED
  BY <1>1, IInvHolds, PTL DEF Spec, HandsOff

-----------------------------------------------------------------------------
(* The channel implements its promise.                                     *)

\* What the worker has been told is not taken back or changed.
LEMMA AnsweredForGood ==
    ASSUME TypeOK, [Next]_vars, NEW j \in Intents, heard[j].is = "answered"
    PROVE  heard'[j] = heard[j]
<1>1. ASSUME NEW gone, NEW by, NEW what, Answer(gone, by, what)
      PROVE  heard'[j] = heard[j]
  BY <1>1, AnswerTells DEF TypeOK
<1>2. CASE worker' = worker
  BY <1>2 DEF worker
<1>3. ASSUME NEW i \in Intents, Dispatch(i) PROVE heard'[j] = heard[j]
  BY <1>3 DEF Dispatch, TypeOK, WorkerTypes
<1>4. ASSUME NEW i \in Intents, NEW k \in Tries,
             EnqueueFails(i, k) \/ AnswerSettledRow(i, k) \/ AnswerExpired(i, k)
             \/ ExpiryUnreadable(i, k)
      PROVE  heard'[j] = heard[j]
  BY <1>1, <1>4 DEF EnqueueFails, AnswerSettledRow, AnswerExpired, ExpiryUnreadable
<1>5. ASSUME NEW i \in Intents, NEW k \in Tries, Hold(i, k)
      PROVE  heard'[j] = heard[j]
  BY <1>1, <1>5 DEF Hold
<1>6. ASSUME NEW i \in Intents, LoseSocket(i) \/ Conclude(i)
      PROVE  heard'[j] = heard[j]
  BY <1>6 DEF LoseSocket, Conclude, TypeOK, WorkerTypes
<1>7. CASE Restart
  BY <1>7 DEF Restart, TypeOK, WorkerTypes
<1>8. ASSUME NEW l \in Lettings, Halt(l) PROVE heard'[j] = heard[j]
  BY <1>1, <1>8 DEF Halt
<1>9. ASSUME NEW i \in Intents, Settle(i) PROVE heard'[j] = heard[j]
  BY <1>1, <1>9 DEF Settle
<1> QED
  BY WorkerWriters, <1>2, <1>3, <1>4, <1>5, <1>6, <1>7, <1>8, <1>9

LEMMA PromiseInit == Init => Promise!Init
  BY DEF Init, Promise!Init, Told

LEMMA PromiseStep ==
    IInv /\ IInv' /\ [Next]_vars => [Promise!Next]_(Promise!vars)
<1> SUFFICES ASSUME IInv, IInv', [Next]_vars
             PROVE  [Promise!Next]_(Promise!vars)
  OBVIOUS
<1> DEFINE told == [i \in Intents |-> Told(i)]
<1>1. told' = [i \in Intents |-> Told(i)']
  OBVIOUS
<1>2. ASSUME NEW i \in Intents, Act(i) PROVE Promise!Act(i)
  <2>1. /\ effects' = [effects EXCEPT ![i] = effects[i] + 1] /\ heard' = heard
        /\ loop.pc = "performing" /\ loop.at = i
    BY <1>2 DEF Act, worker
  <2>2. effects[i] = 0 /\ Handed(i)
    BY <2>1 DEF IInv, OneHand, Busy
  <2>3. Told(i) # "unchanged"
    BY <2>2 DEF IInv, Truthful, Handed
  <2>4. told' = told
    BY <2>1 DEF Told
  <2> QED
    BY <2>1, <2>2, <2>3, <2>4 DEF Promise!Act
<1>3. CASE effects' = effects
  <2>1. ASSUME NEW i \in Intents, Told(i)' # Told(i)
        PROVE  /\ Told(i) = "nothing"
               /\ Told(i)' = "unchanged" => effects[i] = 0
               /\ Told(i)' = "done" => effects[i] = 1
    <3>1. heard[i].is # "answered"
      BY <2>1, AnsweredForGood DEF IInv, Told
    <3>2. Told(i)' = "unchanged" => row'[i] = "abandoned"
      BY DEF IInv, Truthful
    <3>3. row'[i] = "abandoned" => effects'[i] = 0
      BY DEF IInv, OneHand, Handed
    <3>4. Told(i)' = "done" => effects'[i] = 1
      BY DEF IInv, Truthful
    <3> QED
      BY <1>3, <3>1, <3>2, <3>3, <3>4 DEF Told
  <2>2. told' \in [Intents -> Promise!Answers \union {"nothing"}]
    BY <1>1 DEF Told, Promise!Answers
  <2> QED
    BY <1>1, <1>3, <2>1, <2>2 DEF Promise!Next, Promise!Tell
<1> QED
  BY EffectsWriters, <1>2, <1>3 DEF Promise!Next

\* The channel implements Delivery: whatever is retried, lost, restarted or
\* polled twice, the page is acted on at most once per intent, the app says
\* not-delivered only of an instruction that never runs, and an observation
\* reaches the worker only of an act that happened.
THEOREM ChannelKeepsThePromise == Spec => KeepsThePromise
<1>1. Init => Promise!Init
  BY PromiseInit
<1>2. IInv /\ IInv' /\ [Next]_vars => [Promise!Next]_(Promise!vars)
  BY PromiseStep
<1> QED
  BY <1>1, <1>2, IInvHolds, PTL DEF Spec, KeepsThePromise, Promise!Spec

=============================================================================
