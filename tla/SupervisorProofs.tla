-------------------------- MODULE SupervisorProofs --------------------------
(***************************************************************************)
(* That a half is given up on and started again for what its ends say, and *)
(* that a quit leaves nothing of what it asked to end, for any halves, any *)
(* number of ends and however quits, stops and the launch overlap.         *)
(*                                                                         *)
(* Neither is inductive.  The first rests on the count of quick ends being *)
(* the ends' own, short by one while an end is not yet judged, and exact   *)
(* only while nobody was told to stop.  The second rests on a half being   *)
(* asked to end only where its thread waits, which will not start another. *)
(***************************************************************************)
EXTENDS Supervisor, SequenceTheorems, TLAPS

Places == {"absent", "look", "spawn", "spawned", "wait", "reaped", "pause", "ended"}
Reasons == {"none", "stopped", "unstartable", "config", "port", "startup"}

Keepers == [pc : Places, why : Reasons, quick : Nat, pause : Nat, ends : Seq(Ends), extra : Nat]

SupervisorTypeOK ==
    /\ stage \in {"checking", "parked", "started", "ready", "over"}
    /\ stopping \in BOOLEAN
    /\ noted \in SUBSET Halves /\ termed \in SUBSET Halves
    /\ keeper \in [Halves -> Keepers]
    /\ tree \in [Halves -> {"none", "whole", "headless", "dead"}]
    /\ doors \in [Doors -> [pc : {"shut", "snap", "drain"}, held : BOOLEAN,
                            left : SUBSET Halves]]

\* The first n of the ends close with exactly q quick ones.
Trails(ends, n, q) ==
    /\ q \in 0 .. n
    /\ \A i \in n - q + 1 .. n : ends[i].up = "quick"
    /\ q < n => ends[n - q].up # "quick"

\* Where a thread may go on to start the half.
Starting == {"absent", "look", "spawn", "pause"}

\* The half runs, or ran to an end that was counted.
Counted(h) == keeper[h].pc \in Starting \/ tree[h] = "whole"

\* The count of quick ends is that of the ends so far, or of all but the last.
CountsItsEnds(h) ==
    LET k == keeper[h]
        n == Len(k.ends)
    IN
    /\ Counted(h) =>
        /\ k.quick < 3 /\ Trails(k.ends, n, k.quick)
        /\ n # 0 => k.ends[n].why # "config"
    /\ ~ Counted(h) /\ k.pc # "ended" /\ ~ stopping =>
        /\ k.quick < 3 /\ n # 0 /\ Trails(k.ends, n - 1, k.quick)

\* What the thread of a half knows where it is.
Keeping(h) ==
    LET k == keeper[h] IN
    /\ k.pc \in Starting \cup {"reaped", "ended"} => tree[h] # "whole"
    /\ k.why # "none" => k.pc = "ended"
    /\ k.pc \in Starting \/ ~ stopping => k.extra = 0
    /\ k.extra <= 1
    /\ h \in noted => k.pc = "wait"
    /\ h \in termed => stopping /\ k.pc \in {"wait", "reaped", "ended"}
    /\ k.why = "config" => LastEnd(h).why = "config"
    /\ k.why = "port" => LastEnd(h).why = "port"
    /\ k.why = "startup" => LastThreeQuick(k.ends)

\* A door knows the halves it saw, all of which were asked to end, once it
\* has looked.
DoorsKnow ==
    \A d \in Doors :
        /\ doors[d].left \subseteq termed
        /\ doors[d].pc # "drain" => doors[d].left = {}
        /\ doors[d].held => stopping

SupervisorInv ==
    /\ SupervisorTypeOK
    /\ stage = "checking" => \A h \in Halves : keeper[h].pc = "absent"
    /\ \A h \in Halves : CountsItsEnds(h) /\ Keeping(h)
    /\ DoorsKnow
    /\ LeavesNothingItSaw

-----------------------------------------------------------------------------
(* What a count says.                                                      *)

\* A judged end is counted: one more after quick ends, none after a steadier one.
LEMMA JudgedEnd ==
    ASSUME NEW ends \in Seq(Ends), Len(ends) # 0, NEW q \in Nat, Trails(ends, Len(ends) - 1, q)
    PROVE  Trails(ends, Len(ends), IF ends[Len(ends)].up = "quick" THEN q + 1 ELSE 0)
  <1> DEFINE n == Len(ends)
  <1>1. n \in Nat \ {0}
    OBVIOUS
  <1>2. CASE ends[n].up = "quick"
    <2>1. \A i \in n - q .. n : i = n \/ i \in (n - 1) - q + 1 .. n - 1
      BY <1>1
    <2>2. Trails(ends, n, q + 1)
      BY <1>1, <1>2, <2>1 DEF Trails
    <2> QED BY <1>2, <2>2
  <1>3. CASE ends[n].up # "quick"
    BY <1>1, <1>3 DEF Trails
  <1> QED BY <1>2, <1>3

\* Fewer than three quick ends in a row are not three.
LEMMA FewerThanThree ==
    ASSUME NEW ends \in Seq(Ends), NEW q \in Nat, q < 3, Trails(ends, Len(ends), q)
    PROVE  ~ LastThreeQuick(ends)
  BY DEF Trails, LastThreeQuick

\* A third one makes three.
LEMMA TheThird ==
    ASSUME NEW ends \in Seq(Ends), NEW q \in Nat, q >= 3, Trails(ends, Len(ends), q)
    PROVE  LastThreeQuick(ends)
  BY DEF Trails, LastThreeQuick

\* A further end leaves the count of those before it.
LEMMA FurtherEnd ==
    ASSUME NEW ends \in Seq(Ends), NEW e \in Ends, NEW q \in Nat, Trails(ends, Len(ends), q)
    PROVE  /\ Append(ends, e) \in Seq(Ends)
           /\ Len(Append(ends, e)) = Len(ends) + 1
           /\ Trails(Append(ends, e), Len(ends), q)
  BY DEF Trails

-----------------------------------------------------------------------------
(* Types.                                                                  *)

\* Writing a field of a keeper keeps it one.
LEMMA KeeperWritten ==
    ASSUME NEW k \in Keepers
    PROVE  /\ \A pc \in Places : [k EXCEPT !.pc = pc] \in Keepers
           /\ \A pc \in Places, why \in Reasons : [k EXCEPT !.pc = pc, !.why = why] \in Keepers
           /\ \A pc \in Places, n \in Nat : /\ [k EXCEPT !.pc = pc, !.extra = n] \in Keepers
                                         /\ [k EXCEPT !.pc = pc, !.pause = n] \in Keepers
           /\ \A pc \in Places, n, m \in Nat :
                 [k EXCEPT !.pc = pc, !.quick = n, !.pause = m] \in Keepers
           /\ \A e \in Ends : [k EXCEPT !.ends = Append(k.ends, e)] \in Keepers
  <1>1. \A e \in Ends : Append(k.ends, e) \in Seq(Ends)
    BY DEF Keepers
  <1> QED BY <1>1 DEF Keepers

LEMMA NoKeeperIsOne ==
    NoKeeper \in Keepers /\ [NoKeeper EXCEPT !.pc = "look"] \in Keepers
  <1>1. <<>> \in Seq(Ends)
    OBVIOUS
  <1>2. NoKeeper \in Keepers
    BY <1>1 DEF NoKeeper, Keepers, Places, Reasons
  <1> QED BY <1>2, KeeperWritten DEF Places

LEMMA InitSupervisor == SupervisorInit => SupervisorInv
  <1> SUFFICES ASSUME SupervisorInit PROVE SupervisorInv
    OBVIOUS
  <1> USE DEF SupervisorInit, NoKeeper, NoDoor
  <1>1. SupervisorTypeOK
    BY NoKeeperIsOne DEF SupervisorTypeOK
  <1>2. \A h \in Halves : keeper[h] = NoKeeper /\ tree[h] = "none" /\ Len(keeper[h].ends) = 0
    OBVIOUS
  <1>3. ASSUME NEW h \in Halves PROVE CountsItsEnds(h) /\ Keeping(h)
    <2>1. /\ keeper[h].pc = "absent" /\ keeper[h].why = "none" /\ keeper[h].quick = 0
          /\ keeper[h].extra = 0 /\ Len(keeper[h].ends) = 0
      BY <1>2
    <2>2. Trails(keeper[h].ends, 0, 0)
      BY DEF Trails
    <2>3. noted = {} /\ termed = {} /\ tree[h] = "none"
      OBVIOUS
    <2> HIDE DEF SupervisorInit, NoKeeper, NoDoor
    <2> QED BY <2>1, <2>2, <2>3 DEF CountsItsEnds, Counted, Starting, Keeping
  <1>4. DoorsKnow /\ LeavesNothingItSaw
    BY DEF DoorsKnow, LeavesNothingItSaw
  <1> QED BY <1>1, <1>2, <1>3, <1>4 DEF SupervisorInv

\* The count of quick ends and the pause are numbers.
LEMMA CountsAreNumbers ==
    ASSUME SupervisorTypeOK, NEW h \in Halves
    PROVE  Quick(h) \in Nat /\ Pause(h) \in Nat
  <1>1. keeper[h] \in Keepers
    BY DEF SupervisorTypeOK
  <1> QED BY <1>1 DEF Quick, Pause, Keepers

LEMMA StepTypes == SupervisorTypeOK /\ [SupervisorNext]_supervisorVars => SupervisorTypeOK'
  <1> SUFFICES ASSUME SupervisorTypeOK, [SupervisorNext]_supervisorVars
               PROVE  SupervisorTypeOK'
    OBVIOUS
  <1> USE DEF SupervisorTypeOK
  <1>1. CASE Parks
    BY <1>1 DEF Parks
  <1>2. CASE StartHalves
    BY <1>2, NoKeeperIsOne DEF StartHalves
  <1>3. CASE HandedOver
    BY <1>3 DEF HandedOver
  <1>4. CASE KillNow
    BY <1>4 DEF KillNow, Tell, Held, GroupsKilled
  <1>5. ASSUME NEW h \in Halves, Keeps(h) \/ RootEnds(h)
        PROVE  SupervisorTypeOK'
    <2> DEFINE k == keeper[h]
    <2>0. k \in Keepers /\ k.extra \in Nat /\ k.pause \in Nat /\ Quick(h) \in Nat /\ Pause(h) \in Nat
      BY CountsAreNumbers DEF Keepers
    <2>1. ASSUME NEW new \in Keepers, keeper' = [keeper EXCEPT ![h] = new]
          PROVE  keeper' \in [Halves -> Keepers]
      BY <2>1
    <2>2. ASSUME NEW pc \in Places, NEW why \in Reasons
          PROVE  /\ Goes(h, pc) => keeper' \in [Halves -> Keepers]
                 /\ Leaves(h, why) => keeper' \in [Halves -> Keepers]
      <3>1. [k EXCEPT !.pc = pc] \in Keepers /\ [k EXCEPT !.pc = "ended", !.why = why] \in Keepers
        BY <2>0, <2>2, KeeperWritten DEF Places
      <3>2. Goes(h, pc) => keeper' = [keeper EXCEPT ![h] = [k EXCEPT !.pc = pc]]
        BY DEF Goes
      <3>3. Leaves(h, why) => keeper' = [keeper EXCEPT ![h] = [k EXCEPT !.pc = "ended", !.why = why]]
        BY DEF Leaves
      <3> QED BY <2>1, <3>1, <3>2, <3>3
    <2> USE DEF Places, Reasons
    <2>3. CASE Look(h)
      BY <2>2, <2>3 DEF Look
    <2>4. CASE Spawn(h)
      <3>2. [k EXCEPT !.pc = "spawned", !.extra = IF stopping THEN k.extra + 1 ELSE k.extra]
            \in Keepers
        <4> DEFINE n == IF stopping THEN k.extra + 1 ELSE k.extra
        <4>1. n \in Nat
          BY <2>0
        <4> HIDE DEF n, k
        <4>2. [k EXCEPT !.pc = "spawned", !.extra = n] \in Keepers
          BY <2>0, <4>1, KeeperWritten
        <4> QED BY <4>2 DEF n
      <3>3. ASSUME ~ (Leaves(h, "unstartable") /\ UNCHANGED tree)
            PROVE  keeper' = [keeper EXCEPT ![h] = [k EXCEPT !.pc = "spawned",
                                  !.extra = IF stopping THEN k.extra + 1 ELSE k.extra]]
        BY <2>4, <3>3 DEF Spawn
      <3>4. keeper' \in [Halves -> Keepers]
        <4>1. CASE Leaves(h, "unstartable") /\ UNCHANGED tree
          BY <2>2, <4>1
        <4>2. CASE ~ (Leaves(h, "unstartable") /\ UNCHANGED tree)
          BY <2>1, <3>2, <3>3, <4>2
        <4> QED BY <4>1, <4>2
      <3> QED BY <2>4, <3>4 DEF Spawn
    <2>5. CASE SetPid(h)
      BY <2>2, <2>5 DEF SetPid
    <2>6. CASE Reap(h)
      BY <2>2, <2>6 DEF Reap
    <2>7. CASE Judge(h)
      <3>1. [k EXCEPT !.pc = "pause", !.quick = Quick(h), !.pause = Pause(h)] \in Keepers
        BY <2>0, KeeperWritten
      <3>2. (\E why \in Reasons : Leaves(h, why))
            \/ keeper' = [keeper EXCEPT ![h] = [k EXCEPT !.pc = "pause", !.quick = Quick(h),
                                                         !.pause = Pause(h)]]
        BY <2>7 DEF Judge
      <3> QED BY <2>1, <2>2, <2>7, <3>1, <3>2 DEF Judge
    <2>8. CASE Wake(h)
      <3>1. [k EXCEPT !.pc = "look", !.pause = IF k.pause < 5 THEN k.pause + 1 ELSE 5] \in Keepers
        <4> DEFINE n == IF k.pause < 5 THEN k.pause + 1 ELSE 5
        <4>1. n \in Nat
          BY <2>0
        <4> HIDE DEF n, k
        <4>2. [k EXCEPT !.pc = "look", !.pause = n] \in Keepers
          BY <2>0, <4>1, KeeperWritten
        <4> QED BY <4>2 DEF n
      <3>2. keeper' = [keeper EXCEPT ![h] = [k EXCEPT !.pc = "look",
                                                      !.pause = IF k.pause < 5 THEN k.pause + 1 ELSE 5]]
        BY <2>8 DEF Wake
      <3> QED BY <2>1, <2>8, <3>1, <3>2 DEF Wake
    <2>9. CASE RootEnds(h)
      <3>1. \A e \in Ends : [k EXCEPT !.ends = Append(k.ends, e)] \in Keepers
        BY <2>0, KeeperWritten
      <3>2. keeper' = keeper
            \/ \E e \in Ends : keeper' = [keeper EXCEPT ![h] = [k EXCEPT !.ends = Append(k.ends, e)]]
        BY <2>9 DEF RootEnds
      <3>3. keeper' \in [Halves -> Keepers]
        <4>1. CASE keeper' = keeper
          BY <4>1
        <4>2. CASE \E e \in Ends : keeper' = [keeper EXCEPT ![h] = [k EXCEPT !.ends = Append(k.ends, e)]]
          <5>1. PICK e \in Ends : keeper' = [keeper EXCEPT ![h] = [k EXCEPT !.ends = Append(k.ends, e)]]
            BY <4>2
          <5> QED BY <2>1, <3>1, <5>1
        <4> QED BY <3>2, <4>1, <4>2
      <3> QED BY <2>9, <3>3 DEF RootEnds
    <2> QED BY <1>5, <2>3, <2>4, <2>5, <2>6, <2>7, <2>8, <2>9 DEF Keeps
  <1>6. ASSUME NEW d \in Doors, Ask(d) \/ Snapshot(d) \/ Drain(d) \/ Leave(d)
        PROVE  SupervisorTypeOK'
    <2> USE DEF Opened, NoDoor, Tell, Held
    <2>1. CASE Ask(d)
      BY <2>1 DEF Ask
    <2>2. CASE Snapshot(d)
      <3> DEFINE saw == IF doors[d].held THEN noted ELSE {}
      <3>1. /\ doors' = [doors EXCEPT ![d] = [doors[d] EXCEPT !.pc = "drain", !.left = saw]]
            /\ termed' = termed \cup saw
        BY <2>2 DEF Snapshot
      <3>2. saw \in SUBSET Halves
        OBVIOUS
      <3>3. [doors[d] EXCEPT !.pc = "drain", !.left = saw]
            \in [pc : {"shut", "snap", "drain"}, held : BOOLEAN, left : SUBSET Halves]
        BY <3>2
      <3> HIDE DEF saw
      <3> QED BY <2>2, <3>1, <3>2, <3>3 DEF Snapshot
    <2>3. CASE Drain(d)
      <3>1. PICK h \in doors[d].left : /\ tree' = GroupsKilled({h})
                                       /\ doors' = [doors EXCEPT ![d].left = @ \ {h}]
        BY <2>3 DEF Drain
      <3>2. tree' \in [Halves -> {"none", "whole", "headless", "dead"}]
        BY <3>1 DEF GroupsKilled
      <3>3. [doors[d] EXCEPT !.left = @ \ {h}]
            \in [pc : {"shut", "snap", "drain"}, held : BOOLEAN, left : SUBSET Halves]
        OBVIOUS
      <3> QED BY <2>3, <3>1, <3>2, <3>3 DEF Drain
    <2>4. CASE Leave(d)
      <3> DEFINE new == [pc |-> "snap", held |-> stage = "ready", left |-> {}]
      <3>1. /\ new \in [pc : {"shut", "snap", "drain"}, held : BOOLEAN, left : SUBSET Halves]
            /\ NoDoor \in [pc : {"shut", "snap", "drain"}, held : BOOLEAN, left : SUBSET Halves]
        OBVIOUS
      <3>2. \/ doors' = [doors EXCEPT ![d] = NoDoor]
            \/ doors' = [[doors EXCEPT ![d] = NoDoor] EXCEPT !["loop"] = new]
        BY <2>4 DEF Leave
      <3> HIDE DEF new, NoDoor
      <3>3. doors' \in [Doors -> [pc : {"shut", "snap", "drain"}, held : BOOLEAN,
                                  left : SUBSET Halves]]
        BY <3>1, <3>2
      <3> QED BY <2>4, <3>3 DEF Leave
    <2> QED BY <1>6, <2>1, <2>2, <2>3, <2>4
  <1>7. CASE UNCHANGED supervisorVars
    BY <1>7 DEF supervisorVars
  <1> QED BY <1>1, <1>2, <1>3, <1>4, <1>5, <1>6, <1>7 DEF SupervisorNext

-----------------------------------------------------------------------------
(* Steps.                                                                  *)

\* A half whose thread does nothing, and whose group at most is killed or asked
\* to end by a stop, is known as much of as before.
LEMMA Untouched ==
    ASSUME NEW h \in Halves, CountsItsEnds(h), Keeping(h), keeper'[h] = keeper[h],
           tree'[h] \in {tree[h], "dead"}, tree'[h] = tree[h] \/ stopping',
           stopping => stopping', noted' \subseteq noted,
           termed' \subseteq termed \cup noted, termed' = termed \/ stopping'
    PROVE  CountsItsEnds(h)' /\ Keeping(h)'
  <1>1. CountsItsEnds(h)'
    <2>1. Counted(h)' => Counted(h)
      BY DEF Counted
    <2>2. ~ Counted(h)' /\ ~ stopping' => ~ Counted(h) /\ ~ stopping
      BY DEF Counted
    <2> QED BY <2>1, <2>2 DEF CountsItsEnds
  <1>2. LastEnd(h)' = LastEnd(h)
    BY DEF LastEnd
  <1>3. Keeping(h)'
    BY <1>2 DEF Keeping
  <1> QED BY <1>1, <1>3

\* So it is of every half a step of another half's thread leaves alone.
LEMMA OtherHalves ==
    ASSUME NEW h \in Halves, NEW g \in Halves \ {h}, CountsItsEnds(g), Keeping(g),
           keeper'[g] = keeper[g], tree'[g] = tree[g], stopping' = stopping,
           termed' = termed, noted' \in {noted, noted \cup {h}, noted \ {h}}
    PROVE  CountsItsEnds(g)' /\ Keeping(g)'
  <1>1. g \in noted' => g \in noted
    OBVIOUS
  <1>2. CountsItsEnds(g)'
    BY DEF CountsItsEnds, Counted
  <1>3. LastEnd(g)' = LastEnd(g)
    BY DEF LastEnd
  <1>4. Keeping(g)'
    BY <1>1, <1>3 DEF Keeping
  <1> QED BY <1>2, <1>4

\* What a step of a half's thread leaves of the others, and of itself.
LEMMA KeepsFrame ==
    ASSUME SupervisorTypeOK, NEW h \in Halves, Keeps(h)
    PROVE  /\ \A g \in Halves \ {h} : keeper'[g] = keeper[g] /\ tree'[g] = tree[g]
           /\ stage # "over" /\ UNCHANGED <<stage, stopping, termed, doors>>
           /\ noted' \in {noted, noted \cup {h}, noted \ {h}}
           /\ keeper'[h].ends = keeper[h].ends
  <1> USE DEF SupervisorTypeOK, Keepers, At, Goes, Leaves
  <1>1. CASE Look(h)
    BY <1>1 DEF Look
  <1>2. CASE Spawn(h)
    BY <1>2 DEF Spawn
  <1>3. CASE SetPid(h)
    BY <1>3 DEF SetPid
  <1>4. CASE Reap(h)
    BY <1>4 DEF Reap
  <1>5. CASE Judge(h)
    BY <1>5 DEF Judge
  <1>6. CASE Wake(h)
    BY <1>6 DEF Wake
  <1> QED BY <1>1, <1>2, <1>3, <1>4, <1>5, <1>6 DEF Keeps

\* A half's own step.
LEMMA KeepsItself ==
    ASSUME SupervisorTypeOK, NEW h \in Halves, CountsItsEnds(h), Keeping(h), Keeps(h)
    PROVE  CountsItsEnds(h)' /\ Keeping(h)'
  <1> DEFINE k == keeper[h]
             n == Len(k.ends)
  <1>0. /\ k \in Keepers /\ k.ends \in Seq(Ends) /\ n \in Nat /\ k.quick \in Nat
        /\ k.extra \in Nat /\ k.why \in Reasons
    BY DEF SupervisorTypeOK, Keepers
  <1>1. LastEnd(h)' = LastEnd(h) /\ keeper'[h].ends = k.ends /\ stopping' = stopping /\ termed' = termed
    BY KeepsFrame DEF LastEnd
  <1> USE DEF SupervisorTypeOK, Keepers, At, Goes, Leaves, ToldToStop
  <1>2. CASE Look(h)
    <2>1. /\ k.pc = "look" /\ tree' = tree /\ noted' = noted
          /\ keeper'[h].quick = k.quick /\ keeper'[h].extra = k.extra
          /\ \/ stopping /\ keeper'[h].pc = "ended" /\ keeper'[h].why = "stopped"
             \/ ~ stopping /\ keeper'[h].pc = "spawn" /\ keeper'[h].why = k.why
      BY <1>2 DEF Look
    <2>2. CountsItsEnds(h)'
      BY <1>1, <2>1 DEF CountsItsEnds, Counted, Starting, Keeping
    <2>3. Keeping(h)'
      BY <1>1, <2>1 DEF Keeping, Starting
    <2> QED BY <2>2, <2>3
  <1>3. CASE Spawn(h)
    <2>1. /\ k.pc = "spawn" /\ noted' = noted /\ keeper'[h].quick = k.quick
          /\ \/ /\ keeper'[h].pc = "spawned" /\ keeper'[h].why = k.why /\ tree'[h] = "whole"
                /\ keeper'[h].extra = (IF stopping THEN k.extra + 1 ELSE k.extra)
             \/ /\ keeper'[h].pc = "ended" /\ keeper'[h].why = "unstartable" /\ tree' = tree
                /\ keeper'[h].extra = k.extra
      BY <1>3 DEF Spawn
    <2>2. CountsItsEnds(h)'
      BY <1>1, <2>1 DEF CountsItsEnds, Counted, Starting, Keeping
    <2>3. Keeping(h)'
      BY <1>0, <1>1, <2>1 DEF Keeping, Starting
    <2> QED BY <2>2, <2>3
  <1>4. CASE SetPid(h)
    <2>1. /\ k.pc = "spawned" /\ tree' = tree /\ keeper'[h].quick = k.quick
          /\ keeper'[h].pc = "wait" /\ keeper'[h].why = k.why /\ keeper'[h].extra = k.extra
      BY <1>4 DEF SetPid
    <2>2. CountsItsEnds(h)'
      BY <1>1, <2>1 DEF CountsItsEnds, Counted, Starting
    <2>3. Keeping(h)'
      BY <1>1, <2>1 DEF Keeping, Starting
    <2> QED BY <2>2, <2>3
  <1>5. CASE Reap(h)
    <2>1. /\ k.pc = "wait" /\ tree[h] # "whole" /\ tree' = tree /\ h \notin noted'
          /\ keeper'[h].quick = k.quick /\ keeper'[h].pc = "reaped"
          /\ keeper'[h].why = k.why /\ keeper'[h].extra = k.extra
      BY <1>5 DEF Reap
    <2>2. CountsItsEnds(h)'
      BY <1>1, <2>1 DEF CountsItsEnds, Counted, Starting
    <2>3. Keeping(h)'
      BY <1>1, <2>1 DEF Keeping, Starting
    <2> QED BY <2>2, <2>3
  <1>6. CASE Judge(h)
    <2>1. k.pc = "reaped" /\ tree' = tree /\ noted' = noted /\ keeper'[h].extra = k.extra
      BY <1>6 DEF Judge
    <2>2. ~ Counted(h) /\ h \notin noted /\ k.why = "none"
      BY <2>1 DEF Counted, Starting, Keeping
    <2>3. ASSUME ~ stopping
          PROVE  /\ n # 0 /\ k.quick < 3 /\ LastEnd(h) = k.ends[n]
                 /\ Quick(h) \in Nat /\ Trails(k.ends, n, Quick(h))
      <3>1. n # 0 /\ k.quick < 3 /\ Trails(k.ends, n - 1, k.quick)
        BY <2>1, <2>2, <2>3 DEF CountsItsEnds
      <3>2. LastEnd(h) = k.ends[n]
        BY <3>1 DEF LastEnd
      <3>3. Quick(h) = IF k.ends[n].up = "quick" THEN k.quick + 1 ELSE 0
        BY <3>2 DEF Quick
      <3> HIDE DEF k, n
      <3>4. Trails(k.ends, Len(k.ends), IF k.ends[Len(k.ends)].up = "quick" THEN k.quick + 1 ELSE 0)
        BY <1>0, <3>1, JudgedEnd DEF n
      <3> QED BY <1>0, <3>1, <3>2, <3>3, <3>4 DEF n
    <2>4. CASE keeper'[h].pc = "ended"
      <3>1. /\ keeper'[h].why \in {"stopped", "config", "port", "startup"}
            /\ keeper'[h].why = "config" => LastEnd(h).why = "config"
            /\ keeper'[h].why = "port" => LastEnd(h).why = "port"
            /\ keeper'[h].why = "startup" => ~ stopping /\ Quick(h) >= 3
        BY <1>6, <2>4 DEF Judge
      <3>2. ASSUME keeper'[h].why = "startup" PROVE LastThreeQuick(k.ends)
        <4>1. /\ Quick(h) >= 3 /\ Quick(h) \in Nat /\ Trails(k.ends, n, Quick(h))
          BY <2>3, <3>1, <3>2
        <4> HIDE DEF k
        <4> QED BY <1>0, <4>1, TheThird
      <3>3. CountsItsEnds(h)'
        <4>1. ~ Counted(h)'
          BY <2>1, <2>2, <2>4 DEF Counted, Starting
        <4> QED BY <2>4, <4>1 DEF CountsItsEnds
      <3>4. Keeping(h)'
        BY <1>1, <2>1, <2>2, <2>4, <3>1, <3>2 DEF Keeping, Starting
      <3> QED BY <3>3, <3>4
    <2>5. CASE keeper'[h].pc # "ended"
      <3>1. /\ ~ stopping /\ LastEnd(h).why # "config" /\ Quick(h) < 3
            /\ keeper'[h].pc = "pause" /\ keeper'[h].quick = Quick(h)
            /\ keeper'[h].why = k.why
        BY <1>6, <2>5 DEF Judge
      <3>2. /\ LastEnd(h) = k.ends[n] /\ Trails(k.ends, n, Quick(h))
        BY <2>3, <3>1
      <3>3. CountsItsEnds(h)'
        BY <1>1, <3>1, <3>2 DEF CountsItsEnds, Counted, Starting
      <3>4. Keeping(h)'
        <4>1. h \notin termed'
          BY <1>1, <2>1, <3>1 DEF Keeping
        <4>2. keeper'[h].extra = 0
          BY <2>1, <3>1 DEF Keeping
        <4> QED BY <1>1, <2>1, <2>2, <3>1, <4>1, <4>2 DEF Keeping, Starting
      <3> QED BY <3>3, <3>4
    <2> QED BY <2>4, <2>5
  <1>7. CASE Wake(h)
    <2>1. /\ k.pc = "pause" /\ tree' = tree /\ noted' = noted /\ keeper'[h].quick = k.quick
          /\ keeper'[h].pc = "look" /\ keeper'[h].why = k.why /\ keeper'[h].extra = k.extra
      BY <1>7 DEF Wake
    <2>2. CountsItsEnds(h)'
      BY <1>1, <2>1 DEF CountsItsEnds, Counted, Starting
    <2>3. Keeping(h)'
      BY <1>1, <2>1 DEF Keeping, Starting
    <2> QED BY <2>2, <2>3
  <1> QED BY <1>2, <1>3, <1>4, <1>5, <1>6, <1>7 DEF Keeps

\* Its root ends: one more end, which nobody has judged.
LEMMA RootEndsItself ==
    ASSUME SupervisorTypeOK, NEW h \in Halves, CountsItsEnds(h), Keeping(h), RootEnds(h)
    PROVE  CountsItsEnds(h)' /\ Keeping(h)'
  <1> DEFINE k == keeper[h]
             n == Len(k.ends)
  <1>0. /\ k \in Keepers /\ k.ends \in Seq(Ends) /\ n \in Nat /\ k.quick \in Nat
    BY DEF SupervisorTypeOK, Keepers
  <1>1. /\ tree[h] = "whole" /\ tree'[h] # "whole" /\ UNCHANGED <<stopping, noted, termed>>
        /\ k.pc \notin Starting \cup {"reaped", "ended"} /\ k.why = "none"
    BY DEF RootEnds, SupervisorTypeOK, Keeping, Starting
  <1>2. k.quick < 3 /\ Trails(k.ends, n, k.quick)
    BY <1>1 DEF CountsItsEnds, Counted
  <1>3. CASE h \in termed /\ UNCHANGED keeper
    <2>1. CountsItsEnds(h)'
      BY <1>1, <1>3 DEF CountsItsEnds, Counted, Keeping
    <2>2. Keeping(h)'
      BY <1>1, <1>3 DEF Keeping, Starting
    <2> QED BY <2>1, <2>2
  <1>4. CASE ~ (h \in termed /\ UNCHANGED keeper)
    <2>1. PICK e \in Ends : keeper' = [keeper EXCEPT ![h].ends = Append(@, e)]
      BY <1>4 DEF RootEnds
    <2>2. /\ keeper'[h].ends = Append(k.ends, e) /\ keeper'[h].pc = k.pc
          /\ keeper'[h].quick = k.quick /\ keeper'[h].why = "none" /\ keeper'[h].extra = k.extra
      BY <1>1, <2>1 DEF SupervisorTypeOK, Keepers
    <2> HIDE DEF k
    <2>3. Len(keeper'[h].ends) = n + 1 /\ Trails(keeper'[h].ends, n, k.quick)
      BY <1>0, <1>2, <2>2, FurtherEnd
    <2> USE DEF k
    <2>4. ~ Counted(h)'
      BY <1>1, <2>2 DEF Counted
    <2>5. CountsItsEnds(h)'
      <3> HIDE DEF n
      <3> QED BY <1>0, <1>2, <2>2, <2>3, <2>4 DEF CountsItsEnds
    <2>6. Keeping(h)'
      BY <1>1, <2>2 DEF Keeping, Starting
    <2> QED BY <2>5, <2>6
  <1> QED BY <1>3, <1>4

\* A step that leaves the threads alone, and at most tells them to stop and
\* kills groups.
ThreadsAreLeft ==
    /\ keeper' = keeper /\ noted' = noted /\ stage' \in {stage, "parked", "ready", "over"}
    /\ stopping => stopping'
    /\ termed' \subseteq termed \cup noted /\ (termed' = termed \/ stopping')
    /\ \A h \in Halves : tree'[h] \in {tree[h], "dead"}
    /\ tree' = tree \/ stopping'

LEMMA Telling == Tell => (stopping => stopping') /\ (Held => stopping')
  BY Zenon DEF Tell

LEMMA ThreadsLeft ==
    ASSUME SupervisorInv, SupervisorTypeOK', ThreadsAreLeft, DoorsKnow', LeavesNothingItSaw'
    PROVE  SupervisorInv'
  <1>1. ASSUME NEW h \in Halves PROVE CountsItsEnds(h)' /\ Keeping(h)'
    <2>1. CountsItsEnds(h) /\ Keeping(h)
      BY DEF SupervisorInv
    <2> QED BY <2>1, Untouched DEF ThreadsAreLeft
  <1>2. stage' = "checking" => \A h \in Halves : keeper'[h].pc = "absent"
    BY DEF SupervisorInv, ThreadsAreLeft
  <1> QED BY <1>1, <1>2 DEF SupervisorInv

LEMMA StepSupervisor == SupervisorInv /\ [SupervisorNext]_supervisorVars => SupervisorInv'
  <1> SUFFICES ASSUME SupervisorInv, [SupervisorNext]_supervisorVars
               PROVE  SupervisorInv'
    OBVIOUS
  <1>0. /\ SupervisorTypeOK /\ SupervisorTypeOK'
        /\ (stage = "checking" => \A h \in Halves : keeper[h].pc = "absent")
        /\ \A h \in Halves : CountsItsEnds(h) /\ Keeping(h)
        /\ DoorsKnow /\ LeavesNothingItSaw
    BY StepTypes DEF SupervisorInv
  <1>2. CASE Parks
    <2>1. DoorsKnow' /\ LeavesNothingItSaw'
      BY <1>0, <1>2 DEF Parks, DoorsKnow, LeavesNothingItSaw
    <2>2. ThreadsAreLeft
      BY <1>2 DEF Parks, ThreadsAreLeft
    <2> QED BY <1>0, <2>1, <2>2, ThreadsLeft
  <1>3. CASE StartHalves
    <2>1. ASSUME NEW h \in Halves PROVE CountsItsEnds(h)' /\ Keeping(h)'
      <3>1. keeper'[h] = [NoKeeper EXCEPT !.pc = "look"] /\ tree'[h] = tree[h]
        BY <1>3 DEF StartHalves
      <3>2. /\ keeper'[h].pc = "look" /\ keeper'[h].why = "none" /\ keeper'[h].quick = 0
            /\ keeper'[h].extra = 0 /\ keeper'[h].ends = <<>>
        BY <3>1 DEF NoKeeper
      <3>3. tree[h] # "whole" /\ h \notin noted' /\ h \notin termed'
        BY <1>0, <1>3 DEF StartHalves, Keeping, Starting
      <3>4. Trails(keeper'[h].ends, 0, 0) /\ Len(keeper'[h].ends) = 0
        BY <3>2 DEF Trails
      <3>5. CountsItsEnds(h)'
        BY <3>1, <3>2, <3>3, <3>4 DEF CountsItsEnds, Counted, Starting
      <3>6. Keeping(h)'
        BY <3>1, <3>2, <3>3 DEF Keeping, Starting
      <3> QED BY <3>5, <3>6
    <2>2. DoorsKnow' /\ LeavesNothingItSaw'
      BY <1>0, <1>3 DEF StartHalves, DoorsKnow, LeavesNothingItSaw
    <2> QED BY <1>0, <1>3, <2>1, <2>2 DEF StartHalves, SupervisorInv
  <1>4. CASE HandedOver
    <2>1. DoorsKnow' /\ LeavesNothingItSaw'
      BY <1>0, <1>4 DEF HandedOver, DoorsKnow, LeavesNothingItSaw
    <2>2. ThreadsAreLeft
      BY <1>4 DEF HandedOver, ThreadsAreLeft
    <2> QED BY <1>0, <2>1, <2>2, ThreadsLeft
  <1>5. CASE KillNow
    <2>1. /\ \A h \in Halves : tree'[h] \in {tree[h], "dead"}
          /\ tree' = tree \/ stopping'
          /\ (stopping => stopping') /\ UNCHANGED <<stage, noted, keeper, termed, doors>>
      BY <1>0, <1>5, Telling DEF KillNow, GroupsKilled, SupervisorTypeOK
    <2>2. DoorsKnow'
      BY <1>0, <2>1 DEF DoorsKnow
    <2>3. LeavesNothingItSaw'
      BY <1>0, <2>1 DEF LeavesNothingItSaw, SupervisorTypeOK
    <2>9. ThreadsAreLeft
      BY <1>0, <2>1, <2>2, <2>3 DEF ThreadsAreLeft
    <2> QED BY <1>0, <2>1, <2>2, <2>3, <2>9, ThreadsLeft
  <1>6. ASSUME NEW h \in Halves, Keeps(h) PROVE SupervisorInv'
    <2>1. CountsItsEnds(h)' /\ Keeping(h)'
      BY <1>0, <1>6, KeepsItself
    <2>2. ASSUME NEW g \in Halves \ {h} PROVE CountsItsEnds(g)' /\ Keeping(g)'
      BY <1>0, <1>6, KeepsFrame, OtherHalves
    <2>3. stage' # "checking"
      BY <1>0, <1>6, KeepsFrame DEF Keeps, Look, Spawn, SetPid, Reap, Judge, Wake, At
    <2>4. DoorsKnow'
      BY <1>0, <1>6, KeepsFrame DEF DoorsKnow
    <2>5. h \in termed => tree' = tree
      <3>1. h \in termed => keeper[h].pc # "spawn"
        BY <1>0 DEF Keeping
      <3> QED BY <1>6, <3>1 DEF Keeps, Look, Spawn, SetPid, Reap, Judge, Wake, At
    <2>6. LeavesNothingItSaw'
      BY <1>0, <1>6, <2>5, KeepsFrame DEF LeavesNothingItSaw, SupervisorTypeOK
    <2> QED BY <1>0, <2>1, <2>2, <2>3, <2>4, <2>6 DEF SupervisorInv
  <1>7. ASSUME NEW h \in Halves, RootEnds(h) PROVE SupervisorInv'
    <2>1. CountsItsEnds(h)' /\ Keeping(h)'
      BY <1>0, <1>7, RootEndsItself
    <2>2. /\ \A g \in Halves \ {h} : keeper'[g] = keeper[g] /\ tree'[g] = tree[g]
          /\ keeper'[h].pc = keeper[h].pc /\ tree[h] = "whole"
          /\ UNCHANGED <<stage, stopping, noted, termed, doors>>
      BY <1>0, <1>7 DEF RootEnds, SupervisorTypeOK, Keepers
    <2>3. ASSUME NEW g \in Halves \ {h} PROVE CountsItsEnds(g)' /\ Keeping(g)'
      BY <1>0, <2>2, OtherHalves
    <2>4. stage' = "checking" => \A g \in Halves : keeper'[g].pc = "absent"
      BY <1>0, <2>2
    <2>5. DoorsKnow'
      BY <1>0, <2>2 DEF DoorsKnow
    <2>6. ASSUME NEW g \in termed PROVE tree'[g] = "dead" \/ \E d \in Doors : g \in doors[d].left
      <3>1. g \in Halves /\ (tree[g] = "dead" \/ \E d \in Doors : g \in doors[d].left)
        BY <1>0, <2>6 DEF LeavesNothingItSaw, SupervisorTypeOK
      <3> QED BY <2>2, <3>1
    <2>7. LeavesNothingItSaw'
      BY <2>2, <2>6 DEF LeavesNothingItSaw
    <2> QED BY <1>0, <2>1, <2>3, <2>4, <2>5, <2>7 DEF SupervisorInv
  <1>8. ASSUME NEW d \in Doors, Ask(d) PROVE SupervisorInv'
    <2>1. /\ (stopping => stopping') /\ UNCHANGED <<stage, noted, keeper, tree, termed>>
          /\ doors[d].pc = "shut" /\ doors' = [doors EXCEPT ![d] = Opened]
          /\ Held => stopping'
      BY <1>8, Telling DEF Ask
    <2>2. doors'[d].left = {} /\ doors'[d].held = Held /\ \A e \in Doors \ {d} : doors'[e] = doors[e]
      BY <1>0, <2>1 DEF Opened, SupervisorTypeOK
    <2>3. DoorsKnow'
      BY <1>0, <2>1, <2>2 DEF DoorsKnow
    <2>4. LeavesNothingItSaw'
      BY <1>0, <2>1, <2>2 DEF LeavesNothingItSaw, DoorsKnow
    <2>9. ThreadsAreLeft
      BY <1>0, <2>1, <2>3, <2>4 DEF ThreadsAreLeft
    <2> QED BY <1>0, <2>1, <2>3, <2>4, <2>9, ThreadsLeft
  <1>9. ASSUME NEW d \in Doors, Snapshot(d) PROVE SupervisorInv'
    <2> DEFINE saw == IF doors[d].held THEN noted ELSE {}
    <2>1. /\ UNCHANGED <<stage, stopping, noted, keeper, tree>> /\ termed' = termed \cup saw
          /\ doors[d].pc = "snap" /\ doors'[d].pc = "drain" /\ doors'[d].left = saw
          /\ doors'[d].held = doors[d].held /\ \A e \in Doors \ {d} : doors'[e] = doors[e]
      BY <1>0, <1>9 DEF Snapshot, SupervisorTypeOK
    <2>2. saw # {} => stopping
      BY <1>0 DEF DoorsKnow
    <2>3. DoorsKnow'
      BY <1>0, <2>1 DEF DoorsKnow
    <2>4. LeavesNothingItSaw'
      BY <1>0, <2>1 DEF LeavesNothingItSaw, DoorsKnow
    <2>9. ThreadsAreLeft
      BY <1>0, <2>1, <2>2, <2>3, <2>4 DEF ThreadsAreLeft
    <2> QED BY <1>0, <2>1, <2>2, <2>3, <2>4, <2>9, ThreadsLeft
  <1>10. ASSUME NEW d \in Doors, Drain(d) PROVE SupervisorInv'
    <2>1. PICK h \in doors[d].left : /\ tree' = GroupsKilled({h})
                                     /\ doors' = [doors EXCEPT ![d].left = @ \ {h}]
      BY <1>10 DEF Drain
    <2>2. /\ UNCHANGED <<stage, stopping, noted, keeper, termed>>
          /\ doors'[d].pc = doors[d].pc /\ doors'[d].left = doors[d].left \ {h}
          /\ doors[d].pc = "drain"
          /\ doors'[d].held = doors[d].held /\ \A e \in Doors \ {d} : doors'[e] = doors[e]
      BY <1>0, <1>10, <2>1 DEF Drain, SupervisorTypeOK
    <2>3. h \in termed /\ h \in Halves /\ stopping
      BY <1>0, <2>1 DEF DoorsKnow, Keeping, SupervisorTypeOK
    <2>4. tree'[h] = "dead" /\ \A g \in Halves \ {h} : tree'[g] = tree[g]
      BY <2>1, <2>3 DEF GroupsKilled
    <2>5. DoorsKnow'
      BY <1>0, <2>2 DEF DoorsKnow
    <2>6. LeavesNothingItSaw'
      BY <1>0, <2>2, <2>4 DEF LeavesNothingItSaw, SupervisorTypeOK
    <2>9. ThreadsAreLeft
      BY <1>0, <2>2, <2>3, <2>4, <2>5, <2>6 DEF ThreadsAreLeft
    <2> QED BY <1>0, <2>2, <2>3, <2>4, <2>5, <2>6, <2>9, ThreadsLeft
  <1>11. ASSUME NEW d \in Doors, Leave(d) PROVE SupervisorInv'
    <2>1. /\ doors[d].left = {} /\ stage # "over" /\ stage' \in {"over", stage}
          /\ (stopping => stopping') /\ UNCHANGED <<noted, keeper, tree, termed>>
      BY <1>11, Telling DEF Leave
    <2>2. \A e \in Doors : /\ doors[e].left \subseteq doors'[e].left
                           /\ \/ doors'[e] = doors[e]
                              \/ doors'[e].left = {} /\ doors'[e].held = FALSE
                              \/ doors'[e].left = {} /\ (doors'[e].held => stopping')
      <3>1. /\ NoDoor.left = {} /\ NoDoor.held = FALSE /\ Opened.left = {} /\ Opened.held = Held
        BY DEF NoDoor, Opened
      <3>2. \/ doors' = [doors EXCEPT ![d] = NoDoor]
            \/ /\ d = "loop" \/ doors["loop"].pc = "shut"
               /\ doors' = [[doors EXCEPT ![d] = NoDoor] EXCEPT !["loop"] = Opened]
               /\ Held => stopping'
        BY <1>11, Telling DEF Leave
      <3>3. "loop" \in Doors /\ DOMAIN doors = Doors
        BY <1>0 DEF Doors, SupervisorTypeOK
      <3>4. d = "loop" \/ doors["loop"].pc = "shut" => doors["loop"].left = {}
        BY <1>0, <2>1, <3>3 DEF DoorsKnow
      <3> HIDE DEF Doors
      <3>5. CASE doors' = [doors EXCEPT ![d] = NoDoor]
        BY <2>1, <3>1, <3>3, <3>5
      <3>6. CASE /\ d = "loop" \/ doors["loop"].pc = "shut"
                 /\ doors' = [[doors EXCEPT ![d] = NoDoor] EXCEPT !["loop"] = Opened]
                 /\ Held => stopping'
        BY <2>1, <3>1, <3>3, <3>4, <3>6
      <3> QED BY <3>2, <3>5, <3>6
    <2>3. DoorsKnow'
      BY <1>0, <2>1, <2>2 DEF DoorsKnow
    <2>4. LeavesNothingItSaw'
      BY <1>0, <2>1, <2>2 DEF LeavesNothingItSaw
    <2>9. ThreadsAreLeft
      BY <1>0, <2>1, <2>3, <2>4 DEF ThreadsAreLeft
    <2> QED BY <1>0, <2>1, <2>3, <2>4, <2>9, ThreadsLeft
  <1>12. CASE UNCHANGED supervisorVars
    <2>1. DoorsKnow' /\ LeavesNothingItSaw'
      BY <1>0, <1>12 DEF supervisorVars, DoorsKnow, LeavesNothingItSaw
    <2>2. ThreadsAreLeft
      BY <1>12 DEF supervisorVars, ThreadsAreLeft
    <2> QED BY <1>0, <2>1, <2>2, ThreadsLeft
  <1> QED BY <1>2, <1>3, <1>4, <1>5, <1>6, <1>7, <1>8, <1>9, <1>10, <1>11, <1>12
          DEF SupervisorNext

-----------------------------------------------------------------------------
(* Results.                                                                *)

\* In every state a thread's counts are those of its ends, and a quit waits only
\* for halves that no thread will start again (run_child, RuntimeHold::shutdown).
THEOREM SupervisorInvariant == SupervisorSpec => []SupervisorInv
  BY InitSupervisor, StepSupervisor, PTL DEF SupervisorSpec

\* A half is given up on for what its last end said or for three quick ends in
\* a row, is not started again after them, and starts at most one process more
\* once it was told to stop (run_child), whatever the halves and their ends.
THEOREM HalvesStartAsMeasured == SupervisorSpec => []StartsAreMeasured
  <1>1. SupervisorInv => StartsAreMeasured
    <2> SUFFICES ASSUME SupervisorInv, NEW h \in Halves
                 PROVE  /\ keeper[h].why = "config" => LastEnd(h).why = "config"
                        /\ keeper[h].why = "port" => LastEnd(h).why = "port"
                        /\ keeper[h].why = "startup" => LastThreeQuick(keeper[h].ends)
                        /\ keeper[h].pc \in {"pause", "look", "spawn"} /\ keeper[h].ends # <<>> =>
                             ~ LastThreeQuick(keeper[h].ends) /\ LastEnd(h).why # "config"
                        /\ keeper[h].extra <= 1
      BY DEF StartsAreMeasured
    <2>1. CountsItsEnds(h) /\ Keeping(h) /\ keeper[h].ends \in Seq(Ends) /\ keeper[h].quick \in Nat
      BY DEF SupervisorInv, SupervisorTypeOK, Keepers
    <2>2. ASSUME keeper[h].pc \in {"pause", "look", "spawn"}, keeper[h].ends # <<>>
          PROVE  ~ LastThreeQuick(keeper[h].ends) /\ LastEnd(h).why # "config"
      <3>1. /\ keeper[h].quick < 3 /\ Trails(keeper[h].ends, Len(keeper[h].ends), keeper[h].quick)
            /\ Len(keeper[h].ends) # 0 => keeper[h].ends[Len(keeper[h].ends)].why # "config"
        BY <2>1, <2>2 DEF CountsItsEnds, Counted, Starting
      <3>2. Len(keeper[h].ends) # 0
        BY <2>1, <2>2, EmptySeq
      <3> QED BY <2>1, <2>2, <3>1, <3>2, FewerThanThree DEF LastEnd
    <2> QED BY <2>1, <2>2 DEF Keeping
  <1> QED BY <1>1, SupervisorInvariant, PTL

\* What a quit asked to end is dead when no quit has it left to kill
\* (RuntimeHold::shutdown), however many overlap.
THEOREM QuitsLeaveNothing == SupervisorSpec => []LeavesNothingItSaw
  <1>1. SupervisorInv => LeavesNothingItSaw
    BY DEF SupervisorInv
  <1> QED BY <1>1, SupervisorInvariant, PTL
=============================================================================
