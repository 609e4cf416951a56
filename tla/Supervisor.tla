----------------------------- MODULE Supervisor -----------------------------
(***************************************************************************)
(* The menu-bar app that owns the two halves of the runtime (src-tauri).   *)
(* A launch checks what the halves need on a thread of its own (main.rs,   *)
(* preflight.rs) and then hands over a supervisor that keeps each half     *)
(* running on a thread of its own (supervisor.rs).  The person may quit,   *)
(* start again or stop everything at any moment of that, and the tray may  *)
(* be asked to exit by a signal.                                           *)
(*                                                                         *)
(* A half is a tree of processes in a group of its own: its root may end   *)
(* and leave descendants behind.                                           *)
(***************************************************************************)
EXTENDS Integers, Sequences

CONSTANTS
    Halves,   \* the app and the worker
    MaxEnds   \* bound on the times the root of a half ends of itself

VARIABLES
    stage,    \* the launch: checking, parked, started, ready or over
    stopping, \* whether the supervisor of the halves was told to stop
    noted,    \* the halves whose pid is written down
    keeper,   \* of each half: where its thread is, and what it counts
    tree,     \* the group last spawned for each half: whole, headless or dead
    termed,   \* the halves whose group was sent SIGTERM
    doors     \* the calls of shutdown under way

supervisorVars == <<stage, stopping, noted, keeper, tree, termed, doors>>

\* A call of shutdown comes from the event loop, which does one thing at a
\* time, or from a thread beside it (a signal, a rebuild, a new key).
Doors == {"loop", "beside"}

\* Until the hand-over the tray holds a supervisor with nothing to stop, and
\* so does a launch that was parked.
Held == stage = "ready"

NoKeeper == [pc |-> "absent", why |-> "none", quick |-> 0, pause |-> 0, ends |-> <<>>, extra |-> 0]
NoDoor == [pc |-> "shut", held |-> FALSE, left |-> {}]

\* What a root's end looks like from outside, and how long it had been up:
\* under STARTUP_MS, past BACKOFF_RESET_AFTER_MS, or in between.
Ends == [why : {"config", "port"}, up : {"quick"}]
        \cup [why : {"other"}, up : {"quick", "steady", "long"}]

SupervisorInit ==
    /\ stage = "checking" /\ stopping = FALSE /\ noted = {}
    /\ keeper = [h \in Halves |-> NoKeeper]
    /\ tree = [h \in Halves |-> "none"] /\ termed = {}
    /\ doors = [d \in Doors |-> NoDoor]

-----------------------------------------------------------------------------
(* The launch.                                                             *)

\* The tray is misplaced, cannot write its state, finds the port taken, or
\* the database or the build fails: nothing is started.
Parks ==
    /\ stage = "checking" /\ stage' = "parked"
    /\ UNCHANGED <<stopping, noted, keeper, tree, termed, doors>>

\* Supervisor::start: a new supervisor, its slots and its threads.  What was
\* asked of the one before is not asked of it.
StartHalves ==
    /\ stage = "checking" /\ stage' = "started"
    /\ keeper' = [h \in Halves |-> [NoKeeper EXCEPT !.pc = "look"]]
    /\ UNCHANGED <<stopping, noted, tree, termed, doors>>

\* RuntimeHold::replace, when the threads may have been running for a while.
HandedOver ==
    /\ stage = "started" /\ stage' = "ready"
    /\ UNCHANGED <<stopping, noted, keeper, tree, termed, doors>>

-----------------------------------------------------------------------------
(* run_child: the thread of one half.                                      *)

\* Each supervisor has a flag of its own; the threads read theirs.
MisToldToStop == FALSE
ToldToStop == stopping

At(h, pc) == stage # "over" /\ keeper[h].pc = pc
Goes(h, pc) == keeper' = [keeper EXCEPT ![h].pc = pc]
Leaves(h, why) == keeper' = [keeper EXCEPT ![h].pc = "ended", ![h].why = why]

Look(h) ==
    /\ At(h, "look")
    /\ \/ ToldToStop /\ Leaves(h, "stopped")
       \/ ~ ToldToStop /\ Goes(h, "spawn")
    /\ UNCHANGED <<stage, stopping, noted, tree, termed, doors>>

Spawn(h) ==
    /\ At(h, "spawn")
    /\ \/ /\ tree' = [tree EXCEPT ![h] = "whole"]
          /\ keeper' = [keeper EXCEPT ![h].pc = "spawned",
                                      ![h].extra = IF stopping THEN @ + 1 ELSE @]
       \/ Leaves(h, "unstartable") /\ UNCHANGED tree
    /\ UNCHANGED <<stage, stopping, noted, termed, doors>>

SetPid(h) ==
    /\ At(h, "spawned")
    /\ noted' = noted \cup {h} /\ Goes(h, "wait")
    /\ UNCHANGED <<stage, stopping, tree, termed, doors>>

\* The root has ended; its group may not have.
Reap(h) ==
    /\ At(h, "wait") /\ tree[h] # "whole"
    /\ noted' = noted \ {h} /\ Goes(h, "reaped")
    /\ UNCHANGED <<stage, stopping, tree, termed, doors>>

LastEnd(h) == IF keeper[h].ends = <<>> THEN [why |-> "other", up |-> "steady"]
           ELSE keeper[h].ends[Len(keeper[h].ends)]
Quick(h) == IF LastEnd(h).up = "quick" THEN keeper[h].quick + 1 ELSE 0
Pause(h) == IF LastEnd(h).up = "long" THEN 0 ELSE keeper[h].pause

\* What an end means.  EADDRINUSE is noticed by the thread that reads stderr,
\* which may not have come to that line.
Judge(h) ==
    /\ At(h, "reaped")
    /\ \/ ToldToStop /\ Leaves(h, "stopped")
       \/ ~ ToldToStop /\ LastEnd(h).why = "config" /\ Leaves(h, "config")
       \/ ~ ToldToStop /\ LastEnd(h).why = "port" /\ Leaves(h, "port")
       \/ ~ ToldToStop /\ LastEnd(h).why # "config" /\ Quick(h) >= 3 /\ Leaves(h, "startup")
       \/ /\ ~ ToldToStop /\ LastEnd(h).why # "config" /\ Quick(h) < 3
          /\ keeper' = [keeper EXCEPT ![h].pc = "pause", ![h].quick = Quick(h),
                                      ![h].pause = Pause(h)]
    /\ UNCHANGED <<stage, stopping, noted, tree, termed, doors>>

\* After a second, doubled up to five times.
Wake(h) ==
    /\ At(h, "pause")
    /\ keeper' = [keeper EXCEPT ![h].pc = "look", ![h].pause = IF @ < 5 THEN @ + 1 ELSE 5]
    /\ UNCHANGED <<stage, stopping, noted, tree, termed, doors>>

Keeps(h) == Look(h) \/ Spawn(h) \/ SetPid(h) \/ Reap(h) \/ Judge(h) \/ Wake(h)

-----------------------------------------------------------------------------
(* The processes.                                                          *)

\* The root of a running half ends, of itself or because it was asked to, and
\* its descendants with it or not (those left behind may end later; nobody
\* would notice).
RootEnds(h) ==
    /\ stage # "over" /\ tree[h] = "whole"
    /\ \E rest \in {"headless", "dead"} : tree' = [tree EXCEPT ![h] = rest]
    /\ \/ h \in termed /\ UNCHANGED keeper
       \/ /\ h \notin termed /\ Len(keeper[h].ends) < MaxEnds
          /\ \E e \in Ends : keeper' = [keeper EXCEPT ![h].ends = Append(@, e)]
    /\ UNCHANGED <<stage, stopping, noted, termed, doors>>

-----------------------------------------------------------------------------
(* Quitting, starting again, and the kill switch.                          *)

Opened == [pc |-> "snap", held |-> Held, left |-> {}]
Tell == stopping' = (stopping \/ Held)

\* RuntimeHold::shutdown clones the supervisor held and tells it to stop: Quit,
\* Start again and RunEvent::Exit on the event loop; a signal, a rebuild or a
\* new key beside it.
Ask(d) ==
    /\ stage # "over" /\ doors[d].pc = "shut"
    /\ doors' = [doors EXCEPT ![d] = Opened] /\ Tell
    /\ UNCHANGED <<stage, noted, keeper, tree, termed>>

\* The groups written down at this moment get SIGTERM.
Snapshot(d) ==
    LET saw == IF doors[d].held THEN noted ELSE {} IN
    /\ stage # "over" /\ doors[d].pc = "snap"
    /\ doors' = [doors EXCEPT ![d].pc = "drain", ![d].left = saw]
    /\ termed' = termed \cup saw
    /\ UNCHANGED <<stage, stopping, noted, keeper, tree>>

\* The trees once the groups of these halves have been sent SIGKILL.
MisGroupsKilled(hs) == [h \in Halves |-> IF h \in hs /\ tree[h] = "whole" THEN "headless" ELSE tree[h]]
GroupsKilled(hs) == [h \in Halves |-> IF h \in hs THEN "dead" ELSE tree[h]]

\* Each root drains, or the time for all is up; its group is killed either way.
Drain(d) ==
    /\ stage # "over" /\ doors[d].pc = "drain"
    /\ \E h \in doors[d].left :
        /\ tree' = GroupsKilled({h})
        /\ doors' = [doors EXCEPT ![d].left = @ \ {h}]
    /\ UNCHANGED <<stage, stopping, noted, keeper, termed>>

\* What follows a shutdown: the tray is over (a launch after this one begins
\* anew); the event loop shuts down once more for RunEvent::Exit, as after Quit
\* or a restart asked for beside it; or a rebuild fails and the tray stays.
Leave(d) ==
    /\ stage # "over" /\ doors[d].pc = "drain" /\ doors[d].left = {}
    /\ \/ /\ stage' = "over" /\ doors' = [doors EXCEPT ![d] = NoDoor]
          /\ UNCHANGED stopping
       \/ /\ (d = "loop" \/ doors["loop"].pc = "shut")
          /\ doors' = [doors EXCEPT ![d] = NoDoor, !["loop"] = Opened]
          /\ Tell /\ UNCHANGED stage
       \/ /\ d = "beside" /\ doors' = [doors EXCEPT ![d] = NoDoor]
          /\ UNCHANGED <<stage, stopping>>
    /\ UNCHANGED <<noted, keeper, tree, termed>>

\* The menu's "Stop Propositum now" and the hotkey, on the event loop.
KillNow ==
    /\ stage # "over" /\ doors["loop"].pc = "shut"
    /\ Tell
    /\ tree' = IF Held THEN GroupsKilled(noted) ELSE tree
    /\ UNCHANGED <<stage, noted, keeper, termed, doors>>

SupervisorNext ==
    \/ Parks \/ StartHalves \/ HandedOver \/ KillNow
    \/ \E h \in Halves : Keeps(h) \/ RootEnds(h)
    \/ \E d \in Doors : Ask(d) \/ Snapshot(d) \/ Drain(d) \/ Leave(d)

SupervisorSpec == SupervisorInit /\ [][SupervisorNext]_supervisorVars

-----------------------------------------------------------------------------

LastThreeQuick(ends) ==
    /\ Len(ends) >= 3
    /\ \A i \in Len(ends) - 2 .. Len(ends) : ends[i].up = "quick"

\* A half is given up on for what its last end said, or for three quick ends in
\* a row, whatever steadier ends lay before them; a half whose last ends say so
\* is not started again; and a stop, a quit or a start again, once the halves
\* were handed over, lets a half's thread spawn at most the one process it had
\* already decided on.
StartsAreMeasured ==
    \A h \in Halves :
        LET ends == keeper[h].ends IN
        /\ keeper[h].why = "config" => LastEnd(h).why = "config"
        /\ keeper[h].why = "port" => LastEnd(h).why = "port"
        /\ keeper[h].why = "startup" => LastThreeQuick(ends)
        /\ keeper[h].pc \in {"pause", "look", "spawn"} /\ ends # <<>> =>
             ~ LastThreeQuick(ends) /\ LastEnd(h).why # "config"
        /\ keeper[h].extra <= 1

\* A half that a quit asked to end has no process left when the quit is over,
\* drained or not, headless or not, however many quits and stops overlap,
\* unless another quit still has its group to kill.
LeavesNothingItSaw ==
    \A h \in termed : tree[h] = "dead" \/ \E d \in Doors : h \in doors[d].left

=============================================================================
