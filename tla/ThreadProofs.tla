---------------------------- MODULE ThreadProofs ----------------------------
(***************************************************************************)
(* That the thread says a thing once, answers the question that was        *)
(* replied to, and keeps what the person wrote, for any bots, questions,   *)
(* passes and texts, and however saying, reading, pairing and dying        *)
(* interleave.                                                             *)
(*                                                                         *)
(* Each rests on an invariant of its own.  A message under way is claimed  *)
(* by a row of its age, so that no other pass has it and no chat shows it. *)
(* A number noted is that of a message in the chat of the pairing, as long *)
(* as no row was left to another one.  And what a cursor is past was dealt *)
(* with by whoever moved it there, which a second pass may not undo.       *)
(***************************************************************************)
EXTENDS Thread, SequenceTheorems, TLAPS

Workers == Passes \cup Feeds
AnyLine == Lines \cup {NoLine}

Messages == [what : Keys \cup {"theirs"}, age : Nat]
Updates == [who : {"person", "stranger"}, what : Texts \cup {"start", "words"}, to : Nat]
PassRecords == [pc : {"idle", "claim", "send", "note", "poll", "deal"}, line : AnyLine,
                todo : SUBSET Keys, key : Keys, age : Nat, id : Nat, since : Nat, next : Nat,
                upto : Nat]

ThreadTypeOK ==
    /\ paired \in [line : AnyLine, cursor : Nat, from : Nat]
    /\ pairer \in [pc : {"idle", "save", "clear", "mark"}, line : AnyLine, upto : Nat]
    /\ forgets \in BOOLEAN
    /\ saidRow \in [Keys -> Nat \cup {Absent}] /\ age \in Nat
    /\ chats \in [Lines -> Seq(Messages)] /\ updates \in [Lines -> Seq(Updates)]
    /\ dropped \in [Lines -> Nat]
    /\ verdicts \in [Decisions -> [by : {"nobody", "screen", "thread"}, line : AnyLine,
                                   update : Nat]]
    /\ passes \in [Workers -> PassRecords]
    /\ dealt \subseteq [line : Lines, update : Nat, how : {"skipped", "answered", "not followed"}]
    /\ torn \subseteq {"pass", "save"}
    /\ \A w \in Workers : passes[w].pc # "idle" => passes[w].line \in Lines
    /\ pairer.pc # "idle" => pairer.line \in Lines

-----------------------------------------------------------------------------
(* Saying.                                                                 *)

\* What a chat shows of a key at an age.
Shown(k, a) == \E l \in Lines : \E i \in 1 .. Len(chats[l]) : chats[l][i].what = k /\ chats[l][i].age = a

\* A message of these days, under way or shown, has its row.
HasItsRow(k, a) == a <= age /\ (a = age => saidRow[k] # Absent)

SayInv ==
    /\ SaidOnce
    /\ \A l \in Lines : \A i \in 1 .. Len(chats[l]) :
          chats[l][i].what # "theirs" => HasItsRow(chats[l][i].what, chats[l][i].age)
    /\ \A w \in Workers : passes[w].pc = "send" /\ passes[w].key # "theirs" =>
          /\ HasItsRow(passes[w].key, passes[w].age)
          /\ ~ Shown(passes[w].key, passes[w].age)
          /\ \A v \in Workers : v # w /\ passes[v].pc = "send" =>
                passes[v].key # passes[w].key \/ passes[v].age # passes[w].age

-----------------------------------------------------------------------------
(* Answering.                                                              *)

\* The message of a line with this number is about this key.
IsAbout(l, i, k) == l \in Lines /\ i \in 1 .. Len(chats[l]) /\ chats[l][i].what = k

\* The update of a line with this number is the person's reply to such a message.
IsAReplyTo(l, i, k) ==
    /\ l \in Lines /\ i \in 1 .. Len(updates[l])
    /\ updates[l][i].who = "person" /\ IsAbout(l, updates[l][i].to, k)

\* While no pairing changes under them, passes are of the pairing there is.
PassesArePaired ==
    "pass" \notin torn => \A w \in Workers : passes[w].pc # "idle" => passes[w].line = paired.line

AimInv ==
    /\ PassesArePaired
    /\ torn = {} =>
        /\ pairer.pc = "clear" => \A w \in Workers : passes[w].pc = "idle"
        /\ pairer.pc # "clear" => \A k \in Keys : saidRow[k] > 0 => IsAbout(paired.line, saidRow[k], k)
        /\ \A d \in Decisions : verdicts[d].by = "thread" =>
              IsAReplyTo(verdicts[d].line, verdicts[d].update, d)
    /\ \A w \in Workers :
        /\ passes[w].pc = "note" => IsAbout(passes[w].line, passes[w].id, passes[w].key)
        /\ passes[w].pc = "deal" =>
              passes[w].next > 0 /\ passes[w].upto <= Len(updates[passes[w].line])

-----------------------------------------------------------------------------
(* Reading.                                                                *)

\* All a line was told from past m to n was dealt with.
DealtWith(l, m, n) == \A i \in m + 1 .. n : \E e \in dealt : e.line = l /\ e.update = i

\* Where a pairing starts to read: at the Start message, which was the next to be
\* offered when it was found.
ReadsFromStart ==
    /\ paired.line # NoLine => paired.from <= dropped[paired.line] + 1
    /\ pairer.pc # "idle" => pairer.upto <= dropped[pairer.line] + 1
    /\ pairer.pc = "save" /\ paired.line = pairer.line => paired.from <= pairer.upto
    /\ pairer.pc \in {"clear", "mark"} /\ paired.line # NoLine =>
          paired.line = pairer.line /\ paired.from = pairer.upto

KeepInv ==
    /\ PassesArePaired /\ ReadsFromStart
    /\ "pass" \notin torn =>
        /\ paired.line # NoLine =>
              /\ DealtWith(paired.line, paired.from, paired.cursor)
              /\ DealtWith(paired.line, paired.from, dropped[paired.line])
        /\ pairer.pc = "save" => DealtWith(pairer.line, pairer.upto, dropped[pairer.line])
        /\ \A w \in Workers :
            /\ passes[w].pc = "poll" => DealtWith(paired.line, paired.from, passes[w].since)
            /\ passes[w].pc = "deal" =>
                  /\ passes[w].since < passes[w].next
                  /\ DealtWith(paired.line, paired.from, passes[w].next - 1)

-----------------------------------------------------------------------------
(* Types.                                                                  *)

LEMMA NoPassIsOne == NoPass \in PassRecords
  BY DEF NoPass, PassRecords, AnyLine, Keys

LEMMA InitThreadTypes == ThreadInit => ThreadTypeOK
  <1> SUFFICES ASSUME ThreadInit PROVE ThreadTypeOK
    OBVIOUS
  <1> USE DEF ThreadInit
  <1>1. paired \in [line : AnyLine, cursor : Nat, from : Nat]
    BY DEF Unpaired, AnyLine
  <1>2. /\ pairer \in [pc : {"idle", "save", "clear", "mark"}, line : AnyLine, upto : Nat]
        /\ pairer.pc = "idle"
    BY DEF NoPairer, AnyLine
  <1>3. /\ Start \in Updates /\ Theirs \in Messages
    BY DEF Start, Theirs, Updates, Messages
  <1>4. updates \in [Lines -> Seq(Updates)]
    <2>1. <<>> \in Seq(Updates) /\ <<Start>> \in Seq(Updates)
      BY <1>3
    <2> QED BY <2>1
  <1>5. chats \in [Lines -> Seq(Messages)]
    <2>1. <<>> \in Seq(Messages) /\ <<Theirs>> \in Seq(Messages)
      BY <1>3
    <2> QED BY <2>1
  <1>6. verdicts \in [Decisions -> [by : {"nobody", "screen", "thread"}, line : AnyLine,
                                   update : Nat]]
    BY DEF Open, AnyLine
  <1>7. passes \in [Workers -> PassRecords] /\ \A w \in Workers : passes[w].pc = "idle"
    BY NoPassIsOne DEF Workers, NoPass
  <1>8. /\ saidRow \in [Keys -> Nat \cup {Absent}] /\ age \in Nat /\ forgets \in BOOLEAN
        /\ dropped \in [Lines -> Nat] /\ dealt = {} /\ torn = {}
    OBVIOUS
  <1> QED BY <1>1, <1>2, <1>4, <1>5, <1>6, <1>7, <1>8 DEF ThreadTypeOK

\* The chat of a line, and what was written to its bot.
LEMMA OfALine ==
    ASSUME ThreadTypeOK, NEW l \in Lines
    PROVE  /\ chats[l] \in Seq(Messages) /\ Len(chats[l]) \in Nat
           /\ updates[l] \in Seq(Updates) /\ Len(updates[l]) \in Nat
           /\ dropped[l] \in Nat
  <1>1. chats[l] \in Seq(Messages) /\ updates[l] \in Seq(Updates) /\ dropped[l] \in Nat
    BY DEF ThreadTypeOK
  <1> QED BY <1>1

\* Writing a pass keeps the passes.
LEMMA PassWritten ==
    ASSUME passes \in [Workers -> PassRecords], NEW w \in Workers, NEW new \in PassRecords,
           passes' = [passes EXCEPT ![w] = new]
    PROVE  /\ passes' \in [Workers -> PassRecords] /\ passes'[w] = new
           /\ \A v \in Workers \ {w} : passes'[v] = passes[v]
  OBVIOUS

\* The pass a step of one writes.
LEMMA StepOfAPass ==
    ASSUME ThreadTypeOK, NEW w \in Workers, Tends(w)
    PROVE  \E new \in PassRecords :
              /\ passes' = [passes EXCEPT ![w] = new]
              /\ new.pc # "idle" => new.line \in Lines
              /\ new.pc # "idle" =>
                    new.line = paired.line \/ (passes[w].pc # "idle" /\ new.line = passes[w].line)
  <1> DEFINE p == passes[w]
  <1>0. /\ p \in PassRecords /\ NoPass \in PassRecords /\ NoPass.pc = "idle"
        /\ p.pc # "idle" => p.line \in Lines
        /\ p = passes[w]
    BY NoPassIsOne DEF ThreadTypeOK, NoPass
  <1>1. CASE BeginsPass(w)
    <2> DEFINE new == [NoPass EXCEPT !.pc = "claim", !.line = paired.line,
                           !.todo = IF w \in Feeds THEN {"offer"} ELSE Outstanding]
    <2>1. passes' = [passes EXCEPT ![w] = new]
      BY <1>1 DEF BeginsPass
    <2>2. paired.line \in Lines
      BY <1>1 DEF BeginsPass, ThreadTypeOK, AnyLine
    <2>3. new \in PassRecords
      BY <1>0, <2>2 DEF PassRecords, AnyLine, Keys, Outstanding
    <2>4. new.line = paired.line
      BY DEF NoPass
    <2> HIDE DEF new
    <2> QED BY <2>1, <2>2, <2>3, <2>4
  <1>2. CASE Claims(w)
    <2>1. PICK k \in p.todo :
             \/ passes' = [passes EXCEPT ![w] = [p EXCEPT !.pc = "send", !.key = k, !.age = age]]
             \/ passes' = [passes EXCEPT ![w] = [p EXCEPT !.todo = @ \ {k}]]
      BY <1>2 DEF Claims
    <2>2. p.pc = "claim" /\ p.line \in Lines /\ k \in Keys /\ age \in Nat
      BY <1>0, <1>2, <2>1 DEF Claims, PassRecords, ThreadTypeOK
    <2>3. /\ [p EXCEPT !.pc = "send", !.key = k, !.age = age] \in PassRecords
          /\ [p EXCEPT !.todo = @ \ {k}] \in PassRecords
          /\ [p EXCEPT !.pc = "send", !.key = k, !.age = age].line = p.line
          /\ [p EXCEPT !.todo = @ \ {k}].line = p.line
      BY <1>0, <2>2 DEF PassRecords
    <2> HIDE DEF p
    <2> QED BY <1>0, <2>1, <2>2, <2>3
  <1>3. ASSUME p.pc \in {"send", "note"}
        PROVE  /\ Resumes(p) \in PassRecords /\ Resumes(p).line \in Lines
               /\ Resumes(p).line = p.line
    BY <1>0, <1>3 DEF Resumes, PassRecords, NoPass
  <1>4. CASE Sends(w)
    <2> DEFINE new == [p EXCEPT !.pc = "note", !.id = Len(chats[p.line]) + 1]
    <2>1. p.pc = "send" /\ p.line \in Lines
      BY <1>0, <1>4 DEF Sends
    <2>2. Len(chats[p.line]) + 1 \in Nat
      BY <2>1, OfALine
    <2>3. new \in PassRecords /\ new.line \in Lines /\ new.line = p.line
      BY <1>0, <2>1, <2>2 DEF PassRecords
    <2>4. passes' = [passes EXCEPT ![w] = new] \/ passes' = [passes EXCEPT ![w] = Resumes(p)]
      BY <1>4 DEF Sends
    <2> HIDE DEF new, p
    <2> QED BY <1>0, <1>3, <2>1, <2>3, <2>4
  <1>5. CASE Notes(w)
    <2>1. p.pc = "note" /\ passes' = [passes EXCEPT ![w] = Resumes(p)]
      BY <1>5 DEF Notes
    <2> HIDE DEF p
    <2> QED BY <1>0, <1>3, <2>1
  <1>6. CASE SaidAll(w)
    <2> DEFINE new == [NoPass EXCEPT !.pc = "poll", !.line = paired.line, !.since = paired.cursor]
    <2>1. passes' = [passes EXCEPT ![w] = NoPass]
          \/ (paired.line # NoLine /\ passes' = [passes EXCEPT ![w] = new])
      <3> HIDE DEF new
      <3>1. CASE w \in Feeds \/ paired.line = NoLine
        <4>1. passes' = [passes EXCEPT ![w] = NoPass]
          BY <1>6, <3>1 DEF SaidAll
        <4> QED BY <4>1
      <3>2. CASE ~ (w \in Feeds \/ paired.line = NoLine)
        BY <1>6, <3>2 DEF SaidAll, new
      <3> QED BY <3>1, <3>2
    <2>2. paired.line # NoLine => paired.line \in Lines
      BY DEF ThreadTypeOK, AnyLine
    <2>3. paired.line # NoLine => new \in PassRecords
      BY <1>0, <2>2 DEF PassRecords, AnyLine, ThreadTypeOK
    <2>4. new.line = paired.line
      BY DEF NoPass
    <2> HIDE DEF new
    <2> QED BY <1>0, <2>1, <2>2, <2>3, <2>4
  <1>7. CASE Polls(w)
    <2> DEFINE m == Larger(dropped[p.line], p.since) + 1
               n == Len(updates[p.line])
               new == [p EXCEPT !.pc = "deal", !.next = m, !.upto = n]
    <2>1. p.pc = "poll" /\ p.line \in Lines
      BY <1>0, <1>7 DEF Polls
    <2>2. m \in Nat /\ n \in Nat
      <3>1. p.since \in Nat /\ dropped[p.line] \in Nat /\ n \in Nat
        BY <1>0, <2>1, OfALine DEF PassRecords
      <3> QED BY <3>1 DEF Larger
    <2>3. passes' = [passes EXCEPT ![w] = NoPass] \/ passes' = [passes EXCEPT ![w] = new]
      BY <1>7, <2>1 DEF Polls, ThreadTypeOK
    <2>4. new \in PassRecords /\ new.line = p.line
      <3> HIDE DEF m, n
      <3> QED BY <1>0, <2>2 DEF PassRecords
    <2> HIDE DEF new, p
    <2> QED BY <1>0, <2>1, <2>3, <2>4
  <1>8. CASE Deals(w)
    <2> DEFINE new == [p EXCEPT !.next = @ + 1]
    <2>1. p.pc = "deal" /\ passes' = [passes EXCEPT ![w] = new]
      BY <1>8 DEF Deals, Dealt
    <2>2. new \in PassRecords /\ new.line = p.line
      BY <1>0 DEF PassRecords
    <2> HIDE DEF new, p
    <2> QED BY <1>0, <2>1, <2>2
  <1>9. CASE MarksRead(w)
    BY <1>0, <1>9 DEF MarksRead
  <1> QED BY <1>1, <1>2, <1>4, <1>5, <1>6, <1>7, <1>8, <1>9 DEF Tends

\* What a poll makes of its pass.
LEMMA WhatPollsWrites ==
    ASSUME ThreadTypeOK, NEW w \in Workers, Polls(w)
    PROVE  /\ passes[w].pc = "poll" /\ passes[w].line \in Lines
           /\ \A v \in Workers \ {w} : passes'[v] = passes[v]
           /\ \/ passes'[w].pc = "idle"
              \/ /\ passes'[w].pc = "deal" /\ passes'[w].line = passes[w].line
                 /\ passes'[w].since = passes[w].since
                 /\ passes'[w].next = Larger(dropped[passes[w].line], passes[w].since) + 1
                 /\ passes'[w].upto = Len(updates[passes[w].line])
                 /\ dropped' = [dropped EXCEPT ![passes[w].line] = Larger(@, passes[w].since)]
  <1> DEFINE p == passes[w]
             m == Larger(dropped[p.line], p.since) + 1
             n == Len(updates[p.line])
             new == [p EXCEPT !.pc = "deal", !.next = m, !.upto = n]
  <1>1. p.pc = "poll" /\ p.line \in Lines /\ p \in PassRecords
    BY DEF Polls, ThreadTypeOK
  <1>2. \/ passes' = [passes EXCEPT ![w] = NoPass]
        \/ /\ passes' = [passes EXCEPT ![w] = new]
           /\ dropped' = [dropped EXCEPT ![p.line] = Larger(@, p.since)]
    BY <1>1 DEF Polls, ThreadTypeOK
  <1>3. NoPass.pc = "idle"
    BY DEF NoPass
  <1>4. new.pc = "deal" /\ new.line = p.line /\ new.since = p.since /\ new.next = m /\ new.upto = n
    <2> HIDE DEF m, n
    <2> QED BY <1>1 DEF PassRecords
  <1>5. CASE passes' = [passes EXCEPT ![w] = NoPass]
    BY <1>1, <1>3, <1>5 DEF ThreadTypeOK
  <1>6. CASE /\ passes' = [passes EXCEPT ![w] = new]
             /\ dropped' = [dropped EXCEPT ![p.line] = Larger(@, p.since)]
    <2> HIDE DEF new
    <2>1. passes'[w] = new /\ \A v \in Workers \ {w} : passes'[v] = passes[v]
      BY <1>6 DEF ThreadTypeOK
    <2> QED BY <1>1, <1>4, <1>6, <2>1
  <1> QED BY <1>2, <1>5, <1>6

\* A pass is as it was, or is over.
LEMMA WhatDeathLeaves ==
    ASSUME ThreadTypeOK, WorkerDies \/ AppDies, NEW w \in Workers, passes'[w].pc # "idle"
    PROVE  passes'[w] = passes[w]
  <1>1. NoPass.pc = "idle"
    BY DEF NoPass
  <1>2. passes'[w] \in {NoPass, passes[w]}
    BY DEF WorkerDies, AppDies, ThreadTypeOK
  <1> QED BY <1>1, <1>2

LEMMA StepThreadTypes == ThreadTypeOK /\ [ThreadNext]_threadVars => ThreadTypeOK'
  <1> SUFFICES ASSUME ThreadTypeOK, [ThreadNext]_threadVars
               PROVE  ThreadTypeOK'
    OBVIOUS
  <1>1. ASSUME NEW l \in Lines, NEW what \in Texts, NEW to \in {0} \cup DOMAIN chats[l],
               Writes(l, what, to)
        PROVE  ThreadTypeOK'
    <2>1. Theirs \in Messages /\ [who |-> "person", what |-> what, to |-> to] \in Updates
      <3>1. to \in Nat
        BY OfALine
      <3> QED BY <3>1 DEF Theirs, Messages, Updates
    <2>2. /\ Append(chats[l], Theirs) \in Seq(Messages)
          /\ Append(updates[l], [who |-> "person", what |-> what, to |-> to]) \in Seq(Updates)
      BY <2>1, OfALine
    <2>3. /\ chats' = [chats EXCEPT ![l] = Append(chats[l], Theirs)]
          /\ updates' = [updates EXCEPT ![l] = Append(updates[l], [who |-> "person", what |-> what, to |-> to])]
          /\ UNCHANGED <<paired, pairer, forgets, saidRow, age, dropped, verdicts, passes, dealt,
                         torn>>
      BY <1>1 DEF Writes
    <2>4. chats' \in [Lines -> Seq(Messages)] /\ updates' \in [Lines -> Seq(Updates)]
      BY <2>2, <2>3 DEF ThreadTypeOK
    <2> QED BY <2>3, <2>4 DEF ThreadTypeOK
  <1>2. ASSUME NEW l \in Lines, NEW to \in 1 .. MaxUpdates, StrangerWrites(l, to)
        PROVE  ThreadTypeOK'
    <2>1. [who |-> "stranger", what |-> "words", to |-> to] \in Updates
      BY ThreadAssumption DEF Updates
    <2>2. Append(updates[l], [who |-> "stranger", what |-> "words", to |-> to]) \in Seq(Updates)
      BY <2>1, OfALine
    <2>3. /\ updates' = [updates EXCEPT ![l] = Append(updates[l], [who |-> "stranger", what |-> "words", to |-> to])]
          /\ UNCHANGED <<paired, pairer, forgets, saidRow, age, chats, dropped, verdicts, passes,
                         dealt, torn>>
      BY <1>2 DEF StrangerWrites
    <2>4. updates' \in [Lines -> Seq(Updates)]
      BY <2>2, <2>3 DEF ThreadTypeOK
    <2> QED BY <2>3, <2>4 DEF ThreadTypeOK
  <1>3. ASSUME NEW d \in Decisions, AnswersOnScreen(d) PROVE ThreadTypeOK'
    <2>1. verdicts' \in [Decisions -> [by : {"nobody", "screen", "thread"}, line : AnyLine,
                                       update : Nat]]
      BY <1>3 DEF AnswersOnScreen, ThreadTypeOK
    <2> QED BY <1>3, <2>1 DEF AnswersOnScreen, ThreadTypeOK
  <1>4. ASSUME NEW l \in Lines, FindsChat(l) PROVE ThreadTypeOK'
    <2>1. /\ pairer' \in [pc : {"idle", "save", "clear", "mark"}, line : AnyLine, upto : Nat]
          /\ pairer'.line \in Lines
      BY <1>4, OfALine DEF FindsChat, AnyLine
    <2> QED BY <1>4, <2>1 DEF FindsChat, ThreadTypeOK
  <1>5. torn' \subseteq {"pass", "save"}
    BY DEF ThreadNext, threadVars, ThreadTypeOK, Writes, StrangerWrites, AnswersOnScreen, FindsChat,
           SavesConnection, SaveClears, PairingMarks, Unpairs, DeletesConnection, Tends, BeginsPass,
           Claims, Sends, Notes, SaidAll, Polls, Deals, MarksRead, WorkerDies, AppDies, Torn, CutShort
  <1>6. CASE SavesConnection
    <2>1. /\ pairer.pc = "save" /\ pairer.line \in Lines /\ pairer.upto \in Nat
          /\ paired' = [line |-> pairer.line, cursor |-> 0, from |-> pairer.upto]
          /\ pairer' = [pairer EXCEPT !.pc = "clear"]
      BY <1>6 DEF SavesConnection, ThreadTypeOK
    <2>2. /\ paired' \in [line : AnyLine, cursor : Nat, from : Nat]
          /\ pairer' \in [pc : {"idle", "save", "clear", "mark"}, line : AnyLine, upto : Nat]
          /\ pairer'.line \in Lines
      BY <2>1 DEF AnyLine, ThreadTypeOK
    <2> QED BY <1>5, <1>6, <2>2 DEF SavesConnection, ThreadTypeOK
  <1>7. ASSUME ClearsSaid PROVE saidRow' \in [Keys -> Nat \cup {Absent}] /\ age' \in Nat
    <2>1. saidRow' \in [Keys -> Nat \cup {Absent}]
      BY <1>7 DEF ClearsSaid
    <2>2. age' \in Nat
      <3>1. age' = age + 1
        BY <1>7 DEF ClearsSaid
      <3>2. age \in Nat
        BY DEF ThreadTypeOK
      <3> QED BY <3>1, <3>2
    <2> QED BY <2>1, <2>2
  <1>8. CASE SaveClears
    BY <1>7, <1>8 DEF SaveClears, ThreadTypeOK
  <1>9. ASSUME NEW n \in Nat PROVE Marked(n) \in [line : AnyLine, cursor : Nat, from : Nat]
    BY DEF Marked, ThreadTypeOK
  <1>10. CASE PairingMarks
    <2>1. pairer.upto \in Nat
      BY DEF ThreadTypeOK
    <2> QED BY <1>9, <1>10, <2>1 DEF PairingMarks, ThreadTypeOK, NoPairer, AnyLine
  <1>11. CASE Unpairs
    BY <1>7, <1>11 DEF Unpairs, ThreadTypeOK
  <1>12. CASE DeletesConnection
    <2>1. paired' \in [line : AnyLine, cursor : Nat, from : Nat]
      <3>1. paired' \in {paired, Unpaired}
        BY <1>12 DEF DeletesConnection
      <3>2. Unpaired \in [line : AnyLine, cursor : Nat, from : Nat]
        BY DEF Unpaired, AnyLine
      <3> QED BY <3>1, <3>2 DEF ThreadTypeOK
    <2> QED BY <1>5, <1>12, <2>1 DEF DeletesConnection, ThreadTypeOK
  <1>13. ASSUME NEW w \in Workers, Tends(w) PROVE ThreadTypeOK'
    <2> DEFINE p == passes[w]
    <2>1. /\ passes' \in [Workers -> PassRecords]
          /\ \A v \in Workers : passes'[v].pc # "idle" => passes'[v].line \in Lines
      <3>1. PICK new \in PassRecords : /\ passes' = [passes EXCEPT ![w] = new]
                                       /\ new.pc # "idle" => new.line \in Lines
        BY <1>13, StepOfAPass
      <3>2. /\ passes' \in [Workers -> PassRecords] /\ passes'[w] = new
            /\ \A v \in Workers \ {w} : passes'[v] = passes[v]
        BY <3>1, PassWritten DEF ThreadTypeOK
      <3> QED BY <3>1, <3>2 DEF ThreadTypeOK
    <2>2. p \in PassRecords /\ (p.pc # "idle" => p.line \in Lines)
      BY DEF ThreadTypeOK
    <2>3. CASE BeginsPass(w)
      BY <1>5, <2>1, <2>3 DEF BeginsPass, ThreadTypeOK
    <2>4. CASE Claims(w)
      <3>1. saidRow' \in [Keys -> Nat \cup {Absent}]
        <4>1. saidRow' = saidRow \/ \E k \in p.todo : saidRow' = [saidRow EXCEPT ![k] = 0]
          BY <2>4 DEF Claims
        <4>2. p.todo \subseteq Keys
          BY <2>2 DEF PassRecords
        <4>3. saidRow \in [Keys -> Nat \cup {Absent}]
          BY DEF ThreadTypeOK
        <4> QED BY <4>1, <4>2, <4>3
      <3> QED BY <2>1, <2>4, <3>1 DEF Claims, ThreadTypeOK
    <2>5. CASE Sends(w)
      <3>1. p.pc = "send" /\ p.line \in Lines /\ [what |-> p.key, age |-> p.age] \in Messages
        BY <2>2, <2>5 DEF Sends, PassRecords, Messages
      <3>2. Append(chats[p.line], [what |-> p.key, age |-> p.age]) \in Seq(Messages)
        BY <3>1, OfALine
      <3>3. chats' \in {chats, [chats EXCEPT ![p.line] = Append(chats[p.line], [what |-> p.key, age |-> p.age])]}
        BY <2>5 DEF Sends
      <3>4. chats' \in [Lines -> Seq(Messages)]
        BY <3>2, <3>3 DEF ThreadTypeOK
      <3> QED BY <2>1, <2>5, <3>4 DEF Sends, ThreadTypeOK
    <2>6. CASE Notes(w)
      <3>1. p.id \in Nat
        BY <2>2 DEF PassRecords
      <3>2. saidRow' \in [Keys -> Nat \cup {Absent}]
        BY <2>6, <3>1 DEF Notes, ThreadTypeOK
      <3> QED BY <2>1, <2>6, <3>2 DEF Notes, ThreadTypeOK
    <2>7. CASE SaidAll(w)
      BY <2>1, <2>7 DEF SaidAll, ThreadTypeOK
    <2>8. CASE Polls(w)
      <3>1. p.pc = "poll" /\ p.line \in Lines /\ p.since \in Nat /\ dropped[p.line] \in Nat
        BY <2>2, <2>8, OfALine DEF Polls, PassRecords
      <3>2. dropped' \in {dropped, [dropped EXCEPT ![p.line] = Larger(dropped[p.line], p.since)]}
        BY <2>8 DEF Polls
      <3>3. Larger(dropped[p.line], p.since) \in Nat
        BY <3>1 DEF Larger
      <3>4. dropped' \in [Lines -> Nat]
        BY <3>2, <3>3 DEF ThreadTypeOK
      <3> QED BY <2>1, <2>8, <3>4 DEF Polls, ThreadTypeOK
    <2>9. CASE Deals(w)
      <3>1. p.pc = "deal" /\ p.line \in Lines /\ p.next \in Nat
        BY <2>2, <2>9 DEF Deals, PassRecords
      <3>2. \E how \in {"skipped", "answered", "not followed"} : Dealt(w, how)
        BY <2>9 DEF Deals
      <3>3. dealt' \subseteq [line : Lines, update : Nat, how : {"skipped", "answered", "not followed"}]
        <4>1. PICK how \in {"skipped", "answered", "not followed"} :
                 dealt' = dealt \cup {[line |-> p.line, update |-> p.next, how |-> how]}
          BY <3>2 DEF Dealt
        <4>2. [line |-> p.line, update |-> p.next, how |-> how]
              \in [line : Lines, update : Nat, how : {"skipped", "answered", "not followed"}]
          BY <3>1
        <4> QED BY <4>1, <4>2 DEF ThreadTypeOK
      <3>4. \/ verdicts' = verdicts
            \/ \E d \in Decisions : verdicts' = [verdicts EXCEPT ![d] =
                                       [by |-> "thread", line |-> p.line, update |-> p.next]]
        BY <2>9 DEF Deals
      <3>5. verdicts' \in [Decisions -> [by : {"nobody", "screen", "thread"}, line : AnyLine,
                                         update : Nat]]
        <4>1. [by |-> "thread", line |-> p.line, update |-> p.next]
              \in [by : {"nobody", "screen", "thread"}, line : AnyLine, update : Nat]
          BY <3>1 DEF AnyLine
        <4> HIDE DEF p
        <4> QED BY <3>4, <4>1 DEF ThreadTypeOK
      <3> QED BY <2>1, <2>9, <3>3, <3>5 DEF Deals, ThreadTypeOK
    <2>10. CASE MarksRead(w)
      <3>1. p.since \in Nat /\ p.upto \in Nat
        BY <2>2 DEF PassRecords
      <3>2. Larger(p.since, p.upto) \in Nat
        BY <3>1 DEF Larger
      <3>3. paired' \in {paired, Marked(Larger(p.since, p.upto))}
        BY <2>10 DEF MarksRead
      <3>4. paired' \in [line : AnyLine, cursor : Nat, from : Nat]
        BY <1>9, <3>2, <3>3 DEF ThreadTypeOK
      <3> QED BY <2>1, <2>10, <3>4 DEF MarksRead, ThreadTypeOK
    <2> QED BY <1>13, <2>3, <2>4, <2>5, <2>6, <2>7, <2>8, <2>9, <2>10 DEF Tends
  <1>14. ASSUME NEW Dead \in SUBSET Workers,
                passes' = [w \in DOMAIN passes |-> IF w \in Dead THEN NoPass ELSE passes[w]]
         PROVE  /\ passes' \in [Workers -> PassRecords]
                /\ \A v \in Workers : passes'[v].pc # "idle" => passes'[v].line \in Lines
    <2>1. NoPass.pc = "idle" /\ NoPass \in PassRecords
      BY NoPassIsOne DEF NoPass
    <2> QED BY <1>14, <2>1 DEF ThreadTypeOK
  <1>15. CASE WorkerDies
    BY <1>14, <1>15 DEF WorkerDies, ThreadTypeOK, Workers
  <1>16. CASE AppDies
    BY <1>5, <1>14, <1>16 DEF AppDies, ThreadTypeOK, Workers, NoPairer, AnyLine
  <1>17. CASE UNCHANGED threadVars
    BY <1>17 DEF threadVars, ThreadTypeOK
  <1> QED BY <1>1, <1>2, <1>3, <1>4, <1>6, <1>8, <1>10, <1>11, <1>12, <1>13, <1>15, <1>16, <1>17
          DEF ThreadNext, Workers

-----------------------------------------------------------------------------
(* Saying: steps.                                                          *)

LEMMA InitSay == ThreadInit => SayInv
  <1> SUFFICES ASSUME ThreadInit PROVE SayInv
    OBVIOUS
  <1>1. ASSUME NEW l \in Lines, NEW i \in 1 .. Len(chats[l]) PROVE chats[l][i].what = "theirs"
    <2>1. chats[l] = <<>> \/ chats[l] = <<Theirs>>
      BY DEF ThreadInit
    <2>2. chats[l] = <<Theirs>>
      <3>1. Len(<<>>) = 0
        OBVIOUS
      <3> QED BY <2>1, <3>1
    <2>3. chats[l][i] = Theirs
      BY <2>2
    <2> QED BY <2>3 DEF Theirs
  <1>2. \A w \in Workers : passes[w].pc = "idle"
    BY DEF ThreadInit, NoPass, Workers
  <1> QED BY <1>1, <1>2 DEF SayInv, SaidOnce

\* A row outlasts what does not clear it, and what clears it ends its age.
LEMMA RowsOutlast ==
    ASSUME ThreadTypeOK, NEW k \in Keys, NEW a \in Nat, HasItsRow(k, a),
           age' = age + 1 \/ (age' = age /\ (saidRow[k] # Absent => saidRow'[k] # Absent))
    PROVE  HasItsRow(k, a)'
  <1>1. age \in Nat
    BY DEF ThreadTypeOK
  <1> QED BY <1>1 DEF HasItsRow

\* A step that says nothing, and claims nothing.
LEMMA NothingSaid ==
    ASSUME ThreadTypeOK, ThreadTypeOK', SayInv,
           age' = age + 1 \/ (age' = age /\ \A k \in Keys : saidRow[k] # Absent => saidRow'[k] # Absent),
           \A w \in Workers : passes'[w].pc = "send" => passes'[w] = passes[w],
           \A l \in Lines : \A i \in 1 .. Len(chats'[l]) : chats'[l][i].what # "theirs" =>
               i \in 1 .. Len(chats[l]) /\ chats'[l][i] = chats[l][i]
    PROVE  SayInv'
  <1>1. ASSUME NEW k \in Keys, NEW a \in Nat, HasItsRow(k, a) PROVE HasItsRow(k, a)'
    BY <1>1, RowsOutlast
  <1>2. SaidOnce'
    BY DEF SayInv, SaidOnce
  <1>3. ASSUME NEW l \in Lines, NEW i \in 1 .. Len(chats'[l]), chats'[l][i].what # "theirs"
        PROVE  HasItsRow(chats[l][i].what, chats[l][i].age)'
    <2>1. i \in 1 .. Len(chats[l]) /\ chats'[l][i] = chats[l][i] /\ chats[l] \in Seq(Messages)
      BY <1>3, OfALine
    <2>2. chats[l][i] \in Messages
      BY <2>1
    <2>3. chats[l][i].what \in Keys /\ chats[l][i].age \in Nat
      BY <1>3, <2>1, <2>2 DEF Messages
    <2>4. HasItsRow(chats[l][i].what, chats[l][i].age)
      BY <1>3, <2>1 DEF SayInv
    <2>5. PICK k \in Keys, a \in Nat : chats[l][i].what = k /\ chats[l][i].age = a
      BY <2>3
    <2>6. HasItsRow(k, a)'
      BY <1>1, <2>4, <2>5
    <2> QED BY <2>1, <2>5, <2>6
  <1>4. ASSUME NEW w \in Workers, passes'[w].pc = "send", passes'[w].key # "theirs"
        PROVE  /\ HasItsRow(passes[w].key, passes[w].age)'
               /\ ~ Shown(passes[w].key, passes[w].age)'
               /\ \A v \in Workers : v # w /\ passes'[v].pc = "send" =>
                     passes'[v].key # passes'[w].key \/ passes'[v].age # passes'[w].age
    <2>1. passes'[w] = passes[w] /\ passes[w] \in PassRecords
      BY <1>4 DEF ThreadTypeOK
    <2>2. PICK k \in Keys, a \in Nat : k = passes[w].key /\ a = passes[w].age
      BY <2>1 DEF PassRecords
    <2>3. /\ HasItsRow(k, a) /\ ~ Shown(k, a) /\ k # "theirs"
          /\ \A v \in Workers : v # w /\ passes[v].pc = "send" => passes[v].key # k \/ passes[v].age # a
      BY <1>4, <2>1, <2>2 DEF SayInv
    <2>4. HasItsRow(k, a)'
      BY <1>1, <2>3
    <2>5. ~ Shown(k, a)'
      BY <2>3 DEF Shown
    <2>6. HasItsRow(passes[w].key, passes[w].age)' /\ ~ Shown(passes[w].key, passes[w].age)'
      BY <2>1, <2>2, <2>4, <2>5
    <2>7. \A v \in Workers : v # w /\ passes'[v].pc = "send" =>
             passes'[v].key # passes'[w].key \/ passes'[v].age # passes'[w].age
      BY <2>1, <2>2, <2>3
    <2> QED BY <2>6, <2>7
  <1> QED BY <1>2, <1>3, <1>4 DEF SayInv

\* A claim is of what has no row, so nothing of it is under way or shown.
LEMMA ClaimSays ==
    ASSUME ThreadTypeOK, ThreadTypeOK', SayInv, NEW w \in Workers, NEW k \in Keys,
           saidRow[k] = Absent, saidRow' = [saidRow EXCEPT ![k] = 0], age' = age, chats' = chats,
           passes'[w].key = k, passes'[w].age = age,
           \A v \in Workers \ {w} : passes'[v] = passes[v]
    PROVE  SayInv'
  <1>0. age \in Nat /\ saidRow \in [Keys -> Nat \cup {Absent}] /\ Absent \notin Nat
    <2>1. age \in Nat /\ saidRow \in [Keys -> Nat \cup {Absent}]
      BY DEF ThreadTypeOK
    <2>2. Absent \notin Nat
      BY DEF Absent
    <2> QED BY <2>1, <2>2
  <1>1. ASSUME NEW j \in Keys, NEW a \in Nat, HasItsRow(j, a) PROVE HasItsRow(j, a)'
    BY <1>0, <1>1 DEF HasItsRow
  <1>2. HasItsRow(k, age)' /\ ~ HasItsRow(k, age)
    BY <1>0 DEF HasItsRow
  <1>3. \A l \in Lines : \A i \in 1 .. Len(chats[l]) :
            chats[l][i].what # "theirs" => HasItsRow(chats[l][i].what, chats[l][i].age)'
    <2> SUFFICES ASSUME NEW l \in Lines, NEW i \in 1 .. Len(chats[l]), chats[l][i].what # "theirs"
                 PROVE  HasItsRow(chats[l][i].what, chats[l][i].age)'
      OBVIOUS
    <2>1. chats[l][i] \in Messages
      BY OfALine
    <2>2. PICK j \in Keys, a \in Nat : chats[l][i].what = j /\ chats[l][i].age = a
      BY <2>1 DEF Messages
    <2>3. HasItsRow(j, a)
      BY <2>2 DEF SayInv
    <2>4. HasItsRow(j, a)'
      BY <1>1, <2>3
    <2> QED BY <2>2, <2>4
  <1>4. k # "theirs" => ~ Shown(k, age)
    BY <1>2 DEF SayInv, Shown
  <1>5. ASSUME NEW v \in Workers, v # w, passes[v].pc = "send", passes[v].key # "theirs"
        PROVE  passes[v].key # k \/ passes[v].age # age
    BY <1>2, <1>5 DEF SayInv
  <1>6. ASSUME NEW v \in Workers, v # w, passes[v].pc = "send", passes[v].key # "theirs"
        PROVE  HasItsRow(passes[v].key, passes[v].age)' /\ ~ Shown(passes[v].key, passes[v].age)'
    <2>1. PICK j \in Keys, a \in Nat : j = passes[v].key /\ a = passes[v].age
      BY DEF ThreadTypeOK, PassRecords
    <2>2. HasItsRow(j, a) /\ ~ Shown(j, a)
      BY <1>6, <2>1 DEF SayInv
    <2>3. HasItsRow(j, a)' /\ ~ Shown(j, a)'
      BY <1>1, <2>2 DEF Shown
    <2> QED BY <1>6, <2>1, <2>3
  <1>7. k # "theirs" => ~ Shown(k, age)'
    BY <1>4 DEF Shown
  <1>8. ASSUME NEW v \in Workers, passes'[v].pc = "send", passes'[v].key # "theirs"
        PROVE  /\ HasItsRow(passes[v].key, passes[v].age)'
               /\ ~ Shown(passes[v].key, passes[v].age)'
               /\ \A u \in Workers : u # v /\ passes'[u].pc = "send" =>
                     passes'[u].key # passes'[v].key \/ passes'[u].age # passes'[v].age
    <2>1. CASE v = w
      BY <1>2, <1>5, <1>7, <1>8, <2>1
    <2>2. CASE v # w
      <3>1. passes'[v] = passes[v]
        BY <2>2
      <3>2. \A u \in Workers : u # v /\ passes'[u].pc = "send" =>
               passes'[u].key # passes'[v].key \/ passes'[u].age # passes'[v].age
        BY <1>5, <1>8, <2>2, <3>1 DEF SayInv
      <3> QED BY <1>6, <1>8, <2>2, <3>1, <3>2
    <2> QED BY <2>1, <2>2
  <1>9. SaidOnce'
    BY DEF SayInv, SaidOnce
  <1> QED BY <1>3, <1>8, <1>9 DEF SayInv

\* What is sent was shown nowhere and is nobody else's to send.
LEMMA SendSays ==
    ASSUME ThreadTypeOK, ThreadTypeOK', SayInv, NEW w \in Workers, NEW l \in Lines,
           passes[w].pc = "send", passes'[w].pc # "send",
           \A v \in Workers \ {w} : passes'[v] = passes[v],
           saidRow' = saidRow, age' = age,
           chats' = [chats EXCEPT ![l] = Append(@, [what |-> passes[w].key, age |-> passes[w].age])]
    PROVE  SayInv'
  <1>1. PICK k \in Keys, a \in Nat : k = passes[w].key /\ a = passes[w].age
    BY DEF ThreadTypeOK, PassRecords
  <1> DEFINE n == Len(chats[l])
  <1>2. /\ n \in Nat /\ chats \in [Lines -> Seq(Messages)] /\ chats[l] \in Seq(Messages)
        /\ [what |-> k, age |-> a] \in Messages
    BY OfALine DEF ThreadTypeOK, Messages
  <1>3. /\ Len(chats'[l]) = n + 1 /\ chats'[l][n + 1] = [what |-> k, age |-> a]
        /\ \A i \in 1 .. n : chats'[l][i] = chats[l][i]
        /\ \A m \in Lines \ {l} : chats'[m] = chats[m]
    BY <1>1, <1>2
  <1>4. k # "theirs" => /\ HasItsRow(k, a) /\ ~ Shown(k, a)
                        /\ \A v \in Workers : v # w /\ passes[v].pc = "send" =>
                              passes[v].key # k \/ passes[v].age # a
    BY <1>1 DEF SayInv
  <1>5. \A j, b : HasItsRow(j, b)' <=> HasItsRow(j, b)
    BY DEF HasItsRow
  <1> HIDE DEF n
  <1>6. ASSUME NEW m \in Lines, NEW i \in 1 .. Len(chats'[m])
        PROVE  (i \in 1 .. Len(chats[m]) /\ chats'[m][i] = chats[m][i])
               \/ (m = l /\ i = n + 1 /\ chats'[m][i] = [what |-> k, age |-> a])
    BY <1>2, <1>3 DEF n
  <1>7. SaidOnce'
    <2> SUFFICES ASSUME NEW m \in Lines, NEW q \in Lines, NEW i \in 1 .. Len(chats'[m]),
                        NEW j \in 1 .. Len(chats'[q]), chats'[m][i] = chats'[q][j],
                        chats'[m][i].what # "theirs"
                 PROVE  m = q /\ i = j
      BY DEF SaidOnce
    <2>1. CASE chats'[m][i] = [what |-> k, age |-> a]
      <3>1. k # "theirs"
        BY <2>1
      <3>2. \A r \in Lines : \A h \in 1 .. Len(chats[r]) : chats[r][h] # [what |-> k, age |-> a]
        BY <1>4, <3>1 DEF Shown
      <3> QED BY <1>6, <2>1, <3>2
    <2>2. CASE chats'[m][i] # [what |-> k, age |-> a]
      <3>1. /\ i \in 1 .. Len(chats[m]) /\ chats'[m][i] = chats[m][i]
            /\ j \in 1 .. Len(chats[q]) /\ chats'[q][j] = chats[q][j]
        BY <1>6, <2>2
      <3> QED BY <3>1 DEF SayInv, SaidOnce
    <2> QED BY <2>1, <2>2
  <1>8. ASSUME NEW m \in Lines, NEW i \in 1 .. Len(chats'[m]), chats'[m][i].what # "theirs"
        PROVE  HasItsRow(chats'[m][i].what, chats'[m][i].age)
    <2>1. CASE i \in 1 .. Len(chats[m]) /\ chats'[m][i] = chats[m][i]
      BY <1>8, <2>1 DEF SayInv
    <2>2. CASE chats'[m][i] = [what |-> k, age |-> a]
      BY <1>4, <1>8, <2>2
    <2> QED BY <1>6, <2>1, <2>2
  <1>9. ASSUME NEW v \in Workers, passes'[v].pc = "send", passes'[v].key # "theirs"
        PROVE  /\ v # w /\ passes'[v] = passes[v] /\ HasItsRow(passes[v].key, passes[v].age)
               /\ \A m \in Lines : \A i \in 1 .. Len(chats'[m]) :
                     ~ (chats'[m][i].what = passes[v].key /\ chats'[m][i].age = passes[v].age)
               /\ \A u \in Workers : u # v /\ passes'[u].pc = "send" =>
                     passes'[u].key # passes'[v].key \/ passes'[u].age # passes'[v].age
    <2>1. v # w /\ passes'[v] = passes[v] /\ passes[v].pc = "send" /\ passes[v].key # "theirs"
      BY <1>9
    <2>2. /\ HasItsRow(passes[v].key, passes[v].age) /\ ~ Shown(passes[v].key, passes[v].age)
          /\ \A u \in Workers : u # v /\ passes[u].pc = "send" =>
                passes[u].key # passes[v].key \/ passes[u].age # passes[v].age
      BY <2>1 DEF SayInv
    <2>3. k # passes[v].key \/ a # passes[v].age
      BY <1>1, <2>1, <2>2
    <2>4. \A m \in Lines : \A i \in 1 .. Len(chats'[m]) :
             ~ (chats'[m][i].what = passes[v].key /\ chats'[m][i].age = passes[v].age)
      <3> SUFFICES ASSUME NEW m \in Lines, NEW i \in 1 .. Len(chats'[m]),
                          chats'[m][i].what = passes[v].key, chats'[m][i].age = passes[v].age
                   PROVE  FALSE
        OBVIOUS
      <3>1. i \in 1 .. Len(chats[m]) /\ chats'[m][i] = chats[m][i]
        BY <1>6, <2>3
      <3> QED BY <2>2, <3>1 DEF Shown
    <2>5. \A u \in Workers : u # v /\ passes'[u].pc = "send" =>
             passes'[u].key # passes'[v].key \/ passes'[u].age # passes'[v].age
      BY <2>1, <2>2
    <2> QED BY <2>1, <2>2, <2>4, <2>5
  <1>10. ASSUME NEW v \in Workers, passes'[v].pc = "send", passes'[v].key # "theirs"
         PROVE  HasItsRow(passes[v].key, passes[v].age)' /\ ~ Shown(passes[v].key, passes[v].age)'
    BY <1>9, <1>10 DEF HasItsRow, Shown
  <1>11. \A m \in Lines : \A i \in 1 .. Len(chats'[m]) :
            chats'[m][i].what # "theirs" => HasItsRow(chats[m][i].what, chats[m][i].age)'
    BY <1>8 DEF HasItsRow
  <1> QED BY <1>7, <1>9, <1>10, <1>11 DEF SayInv

LEMMA StepSay == ThreadTypeOK /\ SayInv /\ [ThreadNext]_threadVars => SayInv'
  <1> SUFFICES ASSUME ThreadTypeOK, SayInv, [ThreadNext]_threadVars
               PROVE  SayInv'
    OBVIOUS
  <1>0. ThreadTypeOK'
    BY StepThreadTypes
  \* What says nothing leaves the chats, and the rows or their age.
  <1>1. ASSUME chats' = chats,
               age' = age + 1 \/ (age' = age /\ \A k \in Keys : saidRow[k] # Absent => saidRow'[k] # Absent),
               \A w \in Workers : passes'[w].pc = "send" => passes'[w] = passes[w]
        PROVE  SayInv'
    BY <1>0, <1>1, NothingSaid
  <1>2. ASSUME UNCHANGED <<chats, age, saidRow>>,
               \A w \in Workers : passes'[w].pc = "send" => passes'[w] = passes[w]
        PROVE  SayInv'
    BY <1>1, <1>2
  <1>3. ASSUME NEW l \in Lines, NEW what \in Texts, NEW to \in {0} \cup DOMAIN chats[l],
               Writes(l, what, to)
        PROVE  SayInv'
    <2>1. chats' = [chats EXCEPT ![l] = Append(@, Theirs)] /\ UNCHANGED <<age, saidRow, passes>>
      BY <1>3 DEF Writes
    <2>2. chats \in [Lines -> Seq(Messages)] /\ chats[l] \in Seq(Messages) /\ Theirs \in Messages
      BY OfALine DEF ThreadTypeOK, Theirs, Messages
    <2>3. ASSUME NEW m \in Lines, NEW i \in 1 .. Len(chats'[m]), chats'[m][i].what # "theirs"
          PROVE  i \in 1 .. Len(chats[m]) /\ chats'[m][i] = chats[m][i]
      <3>1. CASE m # l
        BY <2>1, <2>2, <3>1
      <3>2. CASE m = l
        <4>1. chats'[l] = Append(chats[l], Theirs)
          BY <2>1, <2>2
        <4>2. Len(chats'[l]) = Len(chats[l]) + 1 /\ chats'[l][Len(chats[l]) + 1] = Theirs
          BY <2>2, <4>1
        <4>3. i # Len(chats[l]) + 1
          BY <2>3, <3>2, <4>2 DEF Theirs
        <4> QED BY <2>2, <3>2, <4>1, <4>2, <4>3
      <3> QED BY <3>1, <3>2
    <2>4. \A m \in Lines : \A i \in 1 .. Len(chats'[m]) : chats'[m][i].what # "theirs" =>
             i \in 1 .. Len(chats[m]) /\ chats'[m][i] = chats[m][i]
      BY <2>3
    <2> QED BY <1>0, <2>1, <2>4, NothingSaid
  <1>4. ASSUME NEW l \in Lines, NEW to \in 1 .. MaxUpdates, StrangerWrites(l, to)
        PROVE  SayInv'
    BY <1>2, <1>4 DEF StrangerWrites
  <1>5. ASSUME NEW d \in Decisions, AnswersOnScreen(d) PROVE SayInv'
    BY <1>2, <1>5 DEF AnswersOnScreen
  <1>6. ASSUME NEW l \in Lines, FindsChat(l) PROVE SayInv'
    BY <1>2, <1>6 DEF FindsChat
  <1>7. CASE SavesConnection \/ PairingMarks \/ DeletesConnection
    BY <1>2, <1>7 DEF SavesConnection, PairingMarks, DeletesConnection
  <1>8. CASE SaveClears \/ Unpairs
    BY <1>1, <1>8 DEF SaveClears, Unpairs, ClearsSaid
  <1>9. ASSUME NEW w \in Workers, Tends(w) PROVE SayInv'
    <2> DEFINE p == passes[w]
    <2>1. PICK new \in PassRecords : passes' = [passes EXCEPT ![w] = new]
      BY <1>9, StepOfAPass
    <2>2. passes'[w] = new /\ \A v \in Workers \ {w} : passes'[v] = passes[v]
      BY <2>1, PassWritten DEF ThreadTypeOK
    <2>3. ASSUME new.pc # "send", UNCHANGED <<chats, age, saidRow>> PROVE SayInv'
      BY <1>2, <2>2, <2>3
    <2>4. CASE BeginsPass(w)
      <3>1. passes'[w].pc = "claim"
        BY <2>1, <2>4 DEF BeginsPass, ThreadTypeOK, NoPass
      <3> QED BY <2>2, <2>3, <2>4, <3>1 DEF BeginsPass
    <2>5. CASE Claims(w)
      <3>1. PICK k \in p.todo :
               \/ /\ Claimable(k) /\ saidRow' = [saidRow EXCEPT ![k] = 0]
                  /\ passes' = [passes EXCEPT ![w] = [p EXCEPT !.pc = "send", !.key = k, !.age = age]]
               \/ passes' = [passes EXCEPT ![w] = [p EXCEPT !.todo = @ \ {k}]] /\ UNCHANGED saidRow
        BY <2>5 DEF Claims
      <3>2. p.pc = "claim" /\ p \in PassRecords /\ k \in Keys /\ UNCHANGED <<chats, age>>
        BY <2>5, <3>1 DEF Claims, ThreadTypeOK, PassRecords
      <3>3. CASE passes' = [passes EXCEPT ![w] = [p EXCEPT !.todo = @ \ {k}]] /\ UNCHANGED saidRow
        <4>1. new.pc = "claim"
          BY <2>2, <3>2, <3>3 DEF ThreadTypeOK, PassRecords
        <4> QED BY <2>3, <3>2, <3>3, <4>1
      <3>4. CASE /\ Claimable(k) /\ saidRow' = [saidRow EXCEPT ![k] = 0]
                 /\ passes' = [passes EXCEPT ![w] = [p EXCEPT !.pc = "send", !.key = k, !.age = age]]
        <4>1. passes'[w].key = k /\ passes'[w].age = age
          BY <3>2, <3>4 DEF ThreadTypeOK, PassRecords
        <4>2. saidRow[k] = Absent
          BY <3>4 DEF Claimable
        <4> QED BY <1>0, <2>2, <3>2, <3>4, <4>1, <4>2, ClaimSays
      <3> QED BY <3>1, <3>3, <3>4
    <2>6. ASSUME p.pc \in {"send", "note"} PROVE Resumes(p).pc = "claim"
      BY DEF Resumes, NoPass
    <2>7. CASE Sends(w)
      <3>1. p.pc = "send" /\ p.line \in Lines /\ UNCHANGED <<age, saidRow>>
        BY <2>7 DEF Sends, ThreadTypeOK
      <3>2. passes' = [passes EXCEPT ![w] = [p EXCEPT !.pc = "note", !.id = Len(chats[p.line]) + 1]]
            \/ passes' = [passes EXCEPT ![w] = Resumes(p)]
        BY <2>7 DEF Sends
      <3>3. new.pc # "send"
        <4>1. CASE passes' = [passes EXCEPT ![w] = [p EXCEPT !.pc = "note", !.id = Len(chats[p.line]) + 1]]
          BY <2>2, <4>1 DEF ThreadTypeOK, PassRecords
        <4>2. CASE passes' = [passes EXCEPT ![w] = Resumes(p)]
          <5>1. new = Resumes(p)
            BY <2>2, <4>2 DEF ThreadTypeOK
          <5> QED BY <2>6, <3>1, <5>1
        <4> QED BY <3>2, <4>1, <4>2
      <3>4. chats' = chats
            \/ chats' = [chats EXCEPT ![p.line] = Append(@, [what |-> p.key, age |-> p.age])]
        BY <2>7 DEF Sends
      <3>5. CASE chats' = chats
        BY <2>3, <3>1, <3>3, <3>5
      <3>6. CASE chats' = [chats EXCEPT ![p.line] = Append(@, [what |-> p.key, age |-> p.age])]
        BY <1>0, <2>2, <3>1, <3>3, <3>6, SendSays
      <3> QED BY <3>4, <3>5, <3>6
    <2>8. CASE Notes(w)
      <3>1. /\ p.pc = "note" /\ UNCHANGED <<chats, age>> /\ passes' = [passes EXCEPT ![w] = Resumes(p)]
            /\ saidRow' = [saidRow EXCEPT ![p.key] = IF @ = Absent THEN Absent ELSE p.id]
            /\ p.id \in Nat /\ p.key \in Keys
        BY <2>8 DEF Notes, ThreadTypeOK, PassRecords
      <3>2. \A k \in Keys : saidRow[k] # Absent => saidRow'[k] # Absent
        <4>1. p.id # Absent
          BY <3>1 DEF Absent
        <4> QED BY <3>1, <4>1 DEF ThreadTypeOK
      <3>3. passes'[w].pc # "send"
        BY <2>6, <3>1 DEF ThreadTypeOK
      <3> QED BY <1>1, <2>2, <3>1, <3>2, <3>3
    <2>9. CASE SaidAll(w)
      <3>1. new.pc # "send"
        <4>1. NoPass.pc = "idle"
          BY DEF NoPass
        <4>2. new = IF w \in Feeds \/ paired.line = NoLine THEN NoPass
                    ELSE [NoPass EXCEPT !.pc = "poll", !.line = paired.line, !.since = paired.cursor]
          BY <2>2, <2>9 DEF SaidAll, ThreadTypeOK
        <4> QED BY <4>1, <4>2 DEF NoPass
      <3> QED BY <2>3, <2>9, <3>1 DEF SaidAll
    <2>10. CASE Polls(w)
      <3> QED BY <2>2, <2>3, <2>10, WhatPollsWrites DEF Polls
    <2>11. CASE Deals(w)
      <3>1. p.pc = "deal" /\ passes' = [passes EXCEPT ![w].next = @ + 1]
        BY <2>11 DEF Deals, Dealt
      <3>2. passes'[w].pc # "send"
        BY <3>1 DEF ThreadTypeOK, PassRecords
      <3> QED BY <2>2, <2>3, <2>11, <3>2 DEF Deals
    <2>12. CASE MarksRead(w)
      <3>1. passes'[w].pc = "idle"
        BY <2>12 DEF MarksRead, ThreadTypeOK, NoPass
      <3> QED BY <2>2, <2>3, <2>12, <3>1 DEF MarksRead
    <2> QED BY <1>9, <2>4, <2>5, <2>7, <2>8, <2>9, <2>10, <2>11, <2>12 DEF Tends
  <1>10. CASE WorkerDies \/ AppDies
    <2>1. ASSUME NEW w \in Workers, passes'[w].pc = "send" PROVE passes'[w] = passes[w]
      BY <1>10, <2>1, WhatDeathLeaves
    <2> QED BY <1>2, <1>10, <2>1 DEF WorkerDies, AppDies
  <1>11. CASE UNCHANGED threadVars
    BY <1>2, <1>11 DEF threadVars
  <1> QED BY <1>3, <1>4, <1>5, <1>6, <1>7, <1>8, <1>9, <1>10, <1>11 DEF ThreadNext, Workers

\* Nothing is said twice between two pairings: sayWhatIsOutstanding and sayOffer
\* claim a message's key before they send it.
THEOREM SaidOnlyOnce == ThreadSpec => []SaidOnce
  <1> DEFINE Inv == ThreadTypeOK /\ SayInv
  <1>1. ThreadInit => Inv
    BY InitThreadTypes, InitSay
  <1>2. Inv /\ [ThreadNext]_threadVars => Inv'
    BY StepThreadTypes, StepSay
  <1>3. Inv => SaidOnce
    BY DEF SayInv
  <1> QED BY <1>1, <1>2, <1>3, PTL DEF ThreadSpec

-----------------------------------------------------------------------------
(* Answering: steps.                                                       *)

\* What comes to be noted, polled or dealt with by a step of a pass.
LEMMA WhatTendingWrites ==
    ASSUME ThreadTypeOK, NEW w \in Workers, Tends(w)
    PROVE  /\ passes'[w].pc = "note" =>
                 /\ passes[w].pc = "send" /\ passes[w].line \in Lines
                 /\ passes'[w].line = passes[w].line /\ passes'[w].key = passes[w].key
                 /\ passes'[w].id = Len(chats[passes[w].line]) + 1
                 /\ chats' = [chats EXCEPT ![passes[w].line] =
                                 Append(@, [what |-> passes[w].key, age |-> passes[w].age])]
           /\ passes'[w].pc = "poll" =>
                 SaidAll(w) /\ paired.line # NoLine /\ passes'[w].since = paired.cursor
           /\ passes'[w].pc = "deal" =>
                 \/ Polls(w)
                 \/ /\ Deals(w) /\ passes'[w].line = passes[w].line
                    /\ passes'[w].next = passes[w].next + 1
                    /\ passes'[w].upto = passes[w].upto /\ passes'[w].since = passes[w].since
  <1> DEFINE p == passes[w]
  <1>1. PICK new \in PassRecords : passes' = [passes EXCEPT ![w] = new]
    BY StepOfAPass
  <1>2. passes'[w] = new /\ p \in PassRecords
    BY <1>1, PassWritten DEF ThreadTypeOK
  <1>3. CASE BeginsPass(w)
    <2> DEFINE begun == [NoPass EXCEPT !.pc = "claim", !.line = paired.line,
                             !.todo = IF w \in Feeds THEN {"offer"} ELSE Outstanding]
    <2>1. begun.pc = "claim"
      BY DEF NoPass
    <2>2. passes'[w] = begun
      BY <1>3 DEF BeginsPass, ThreadTypeOK
    <2> QED BY <2>1, <2>2
  <1>4. CASE Claims(w)
    <2>1. PICK k \in p.todo :
             \/ passes' = [passes EXCEPT ![w] = [p EXCEPT !.pc = "send", !.key = k, !.age = age]]
             \/ passes' = [passes EXCEPT ![w] = [p EXCEPT !.todo = @ \ {k}]]
      BY <1>4 DEF Claims
    <2>2. p.pc = "claim"
      BY <1>4 DEF Claims
    <2>3. new.pc \in {"claim", "send"}
      <3> DEFINE sent == [p EXCEPT !.pc = "send", !.key = k, !.age = age]
                 left == [p EXCEPT !.todo = @ \ {k}]
      <3>1. sent.pc = "send" /\ left.pc = "claim"
        BY <1>2, <2>2 DEF PassRecords
      <3> HIDE DEF sent, left
      <3>2. passes' = [passes EXCEPT ![w] = sent] \/ passes' = [passes EXCEPT ![w] = left]
        BY <2>1 DEF sent, left
      <3>3. new \in {sent, left}
        BY <1>2, <3>2 DEF ThreadTypeOK
      <3> QED BY <3>1, <3>3
    <2> QED BY <1>2, <2>3
  <1>5. Resumes(p).pc = "claim"
    BY DEF Resumes, NoPass
  <1>6. CASE Sends(w)
    <2> DEFINE noted == [p EXCEPT !.pc = "note", !.id = Len(chats[p.line]) + 1]
    <2>1. p.pc = "send" /\ p.line \in Lines
      BY <1>6 DEF Sends, ThreadTypeOK
    <2>2. \/ /\ passes' = [passes EXCEPT ![w] = noted]
             /\ chats' = [chats EXCEPT ![p.line] = Append(@, [what |-> p.key, age |-> p.age])]
          \/ passes' = [passes EXCEPT ![w] = Resumes(p)]
      BY <1>6 DEF Sends
    <2>3. CASE passes' = [passes EXCEPT ![w] = Resumes(p)]
      <3>1. passes'[w] = Resumes(p)
        BY <2>3 DEF ThreadTypeOK
      <3> QED BY <1>5, <3>1
    <2>4. CASE /\ passes' = [passes EXCEPT ![w] = noted]
               /\ chats' = [chats EXCEPT ![p.line] = Append(@, [what |-> p.key, age |-> p.age])]
      <3>1. /\ noted.pc = "note" /\ noted.line = p.line /\ noted.key = p.key
            /\ noted.id = Len(chats[p.line]) + 1
        BY <1>2 DEF PassRecords
      <3> HIDE DEF noted
      <3>2. passes'[w] = noted
        BY <2>4 DEF ThreadTypeOK
      <3> QED BY <2>1, <2>4, <3>1, <3>2
    <2> QED BY <2>2, <2>3, <2>4
  <1>7. CASE Notes(w)
    <2>1. passes'[w] = Resumes(p)
      BY <1>7 DEF Notes, ThreadTypeOK
    <2> QED BY <1>5, <2>1
  <1>8. CASE SaidAll(w)
    <2> DEFINE polling == [NoPass EXCEPT !.pc = "poll", !.line = paired.line, !.since = paired.cursor]
    <2>1. NoPass.pc = "idle" /\ polling.pc = "poll" /\ polling.since = paired.cursor
      BY DEF NoPass
    <2> HIDE DEF polling
    <2>2. passes'[w] = NoPass \/ (paired.line # NoLine /\ passes'[w] = polling)
      BY <1>8 DEF SaidAll, ThreadTypeOK, polling
    <2> QED BY <1>8, <2>1, <2>2
  <1>9. CASE Polls(w)
    BY <1>9, WhatPollsWrites
  <1>10. CASE Deals(w)
    <2> DEFINE dealing == [p EXCEPT !.next = @ + 1]
    <2>1. p.pc = "deal" /\ passes' = [passes EXCEPT ![w] = dealing]
      BY <1>10 DEF Deals, Dealt
    <2>2. /\ dealing.pc = p.pc /\ dealing.line = p.line /\ dealing.next = p.next + 1
          /\ dealing.upto = p.upto /\ dealing.since = p.since
      BY <1>2 DEF PassRecords
    <2> HIDE DEF dealing
    <2>3. passes'[w] = dealing
      BY <2>1 DEF ThreadTypeOK
    <2> QED BY <1>10, <2>1, <2>2, <2>3
  <1>11. CASE MarksRead(w)
    <2>1. passes'[w].pc = "idle"
      BY <1>11 DEF MarksRead, ThreadTypeOK, NoPass
    <2> QED BY <2>1
  <1> QED BY <1>3, <1>4, <1>6, <1>7, <1>8, <1>9, <1>10, <1>11 DEF Tends

\* A pass that said all there was reads next, or is over.
LEMMA SayingEnds ==
    ASSUME ThreadTypeOK, NEW w \in Workers, SaidAll(w)
    PROVE  passes'[w].pc \in {"idle", "poll"}
  <1> DEFINE polling == [NoPass EXCEPT !.pc = "poll", !.line = paired.line, !.since = paired.cursor]
  <1>1. NoPass.pc = "idle" /\ polling.pc = "poll"
    BY DEF NoPass
  <1> HIDE DEF polling
  <1>2. passes'[w] \in {NoPass, polling}
    BY DEF SaidAll, ThreadTypeOK, polling
  <1> QED BY <1>1, <1>2

\* The pairing is another one after three steps only, and a pass under way is
\* then noted.
LEMMA StepPaired == ThreadTypeOK /\ PassesArePaired /\ [ThreadNext]_threadVars => PassesArePaired'
  <1> SUFFICES ASSUME ThreadTypeOK, PassesArePaired, [ThreadNext]_threadVars
               PROVE  PassesArePaired'
    OBVIOUS
  <1>1. ASSUME paired'.line = paired.line, torn \subseteq torn',
               \A w \in Workers : passes'[w].pc # "idle" =>
                   passes'[w].line = paired.line
                   \/ (passes[w].pc # "idle" /\ passes'[w].line = passes[w].line)
        PROVE  PassesArePaired'
    BY <1>1 DEF PassesArePaired
  <1>2. ASSUME UNCHANGED passes, torn' = Torn PROVE PassesArePaired'
    BY <1>2 DEF PassesArePaired, Torn, ThreadTypeOK
  <1>3. ASSUME UNCHANGED <<paired, passes, torn>> PROVE PassesArePaired'
    BY <1>3 DEF PassesArePaired
  <1>4. \A n : Marked(n).line = paired.line
    BY DEF Marked, ThreadTypeOK
  <1>5. ASSUME NEW w \in Workers, Tends(w) PROVE PassesArePaired'
    <2>1. PICK new \in PassRecords :
             /\ passes' = [passes EXCEPT ![w] = new]
             /\ new.pc # "idle" =>
                   new.line = paired.line \/ (passes[w].pc # "idle" /\ new.line = passes[w].line)
      BY <1>5, StepOfAPass
    <2>2. passes'[w] = new /\ \A v \in Workers \ {w} : passes'[v] = passes[v]
      BY <2>1, PassWritten DEF ThreadTypeOK
    <2>3. paired'.line = paired.line
      <3>1. CASE MarksRead(w)
        BY <1>4, <3>1 DEF MarksRead
      <3>2. CASE ~ MarksRead(w)
        BY <1>5, <3>2 DEF Tends, BeginsPass, Claims, Sends, Notes, SaidAll, Polls, Deals
      <3> QED BY <3>1, <3>2
    <2>4. torn \subseteq torn'
      BY <1>5 DEF Tends, BeginsPass, Claims, Sends, Notes, SaidAll, Polls, Deals, MarksRead, CutShort
    <2> QED BY <1>1, <2>1, <2>2, <2>3, <2>4
  <1>6. CASE SavesConnection
    BY <1>2, <1>6 DEF SavesConnection
  <1>7. CASE DeletesConnection
    BY <1>2, <1>3, <1>7 DEF DeletesConnection
  <1>8. CASE PairingMarks
    BY <1>1, <1>4, <1>8 DEF PairingMarks
  <1>9. CASE WorkerDies \/ AppDies
    <2>1. ASSUME NEW w \in Workers, passes'[w].pc # "idle" PROVE passes'[w] = passes[w]
      BY <1>9, <2>1, WhatDeathLeaves
    <2>2. UNCHANGED paired /\ torn \subseteq torn'
      BY <1>9 DEF WorkerDies, AppDies, CutShort
    <2> QED BY <1>1, <2>1, <2>2
  <1>10. CASE UNCHANGED threadVars
    BY <1>3, <1>10 DEF threadVars
  <1> QED BY <1>3, <1>5, <1>6, <1>7, <1>8, <1>9, <1>10
          DEF ThreadNext, Workers, Writes, StrangerWrites, AnswersOnScreen, FindsChat, SaveClears, Unpairs

LEMMA InitAim == ThreadInit => AimInv
  <1> SUFFICES ASSUME ThreadInit PROVE AimInv
    OBVIOUS
  <1>1. \A w \in Workers : passes[w].pc = "idle"
    BY DEF ThreadInit, NoPass, Workers
  <1>2. \A d \in Decisions : verdicts[d].by = "nobody"
    BY DEF ThreadInit, Open
  <1>3. \A k \in Keys : ~ (saidRow[k] > 0)
    BY DEF ThreadInit, Absent
  <1>4. pairer.pc = "idle"
    BY DEF ThreadInit, NoPairer
  <1> QED BY <1>1, <1>2, <1>3, <1>4 DEF AimInv, PassesArePaired

\* A chat, and what was written to a bot, only grow.
LEMMA LinesGrow ==
    ASSUME ThreadTypeOK, [ThreadNext]_threadVars, NEW l \in Lines
    PROVE  /\ \A i \in 1 .. Len(chats[l]) : i \in 1 .. Len(chats'[l]) /\ chats'[l][i] = chats[l][i]
           /\ \A i \in 1 .. Len(updates[l]) :
                 i \in 1 .. Len(updates'[l]) /\ updates'[l][i] = updates[l][i]
  <1> DEFINE Grown ==
          /\ \A i \in 1 .. Len(chats[l]) : i \in 1 .. Len(chats'[l]) /\ chats'[l][i] = chats[l][i]
          /\ \A i \in 1 .. Len(updates[l]) :
                i \in 1 .. Len(updates'[l]) /\ updates'[l][i] = updates[l][i]
  <1>0. /\ chats \in [Lines -> Seq(Messages)] /\ updates \in [Lines -> Seq(Updates)]
        /\ chats[l] \in Seq(Messages) /\ updates[l] \in Seq(Updates)
    BY OfALine DEF ThreadTypeOK
  <1>1. ASSUME NEW m \in Lines, NEW x \in Messages, chats' = [chats EXCEPT ![m] = Append(@, x)]
        PROVE  \A i \in 1 .. Len(chats[l]) : i \in 1 .. Len(chats'[l]) /\ chats'[l][i] = chats[l][i]
    <2>1. chats'[l] = chats[l] \/ chats'[l] = Append(chats[l], x)
      BY <1>0, <1>1
    <2>2. CASE chats'[l] = Append(chats[l], x)
      BY <1>0, <2>2
    <2> QED BY <1>0, <2>1, <2>2
  <1>2. ASSUME NEW m \in Lines, NEW x \in Updates, updates' = [updates EXCEPT ![m] = Append(@, x)]
        PROVE  \A i \in 1 .. Len(updates[l]) :
                  i \in 1 .. Len(updates'[l]) /\ updates'[l][i] = updates[l][i]
    <2>1. updates'[l] = updates[l] \/ updates'[l] = Append(updates[l], x)
      BY <1>0, <1>2
    <2> QED BY <1>0, <2>1
  <1>3. CASE UNCHANGED <<chats, updates>>
    BY <1>0, <1>3
  <1>4. ASSUME NEW m \in Lines, NEW what \in Texts, NEW to \in {0} \cup DOMAIN chats[m],
               Writes(m, what, to)
        PROVE  Grown
    <2>1. Theirs \in Messages /\ [who |-> "person", what |-> what, to |-> to] \in Updates
      <3>1. to \in Nat
        BY OfALine
      <3> QED BY <3>1 DEF Theirs, Messages, Updates
    <2>2. /\ chats' = [chats EXCEPT ![m] = Append(@, Theirs)]
          /\ updates' = [updates EXCEPT ![m] = Append(@, [who |-> "person", what |-> what, to |-> to])]
      BY <1>4 DEF Writes
    <2> QED BY <1>1, <1>2, <2>1, <2>2
  <1>5. ASSUME NEW m \in Lines, NEW to \in 1 .. MaxUpdates, StrangerWrites(m, to)
        PROVE  Grown
    <2>1. [who |-> "stranger", what |-> "words", to |-> to] \in Updates
      BY ThreadAssumption DEF Updates
    <2>2. /\ chats' = chats
          /\ updates' = [updates EXCEPT ![m] = Append(@, [who |-> "stranger", what |-> "words", to |-> to])]
      BY <1>5 DEF StrangerWrites
    <2> QED BY <1>0, <1>2, <2>1, <2>2
  <1>6. ASSUME NEW w \in Workers, Sends(w)
        PROVE  Grown
    <2> DEFINE p == passes[w]
    <2>1. p.line \in Lines /\ [what |-> p.key, age |-> p.age] \in Messages
      BY <1>6 DEF Sends, ThreadTypeOK, PassRecords, Messages
    <2>2. /\ updates' = updates
          /\ \/ chats' = chats
             \/ chats' = [chats EXCEPT ![p.line] = Append(@, [what |-> p.key, age |-> p.age])]
      BY <1>6 DEF Sends
    <2> QED BY <1>0, <1>1, <2>1, <2>2
  <1>7. ASSUME NEW w \in Workers, Tends(w), ~ Sends(w) PROVE UNCHANGED <<chats, updates>>
    BY <1>7 DEF Tends, BeginsPass, Claims, Notes, SaidAll, Polls, Deals, MarksRead
  <1> QED BY <1>3, <1>4, <1>5, <1>6, <1>7
          DEF ThreadNext, Workers, threadVars, AnswersOnScreen, FindsChat, SavesConnection, SaveClears,
              PairingMarks, Unpairs, DeletesConnection, WorkerDies, AppDies


\* What passes carry: the numbers noted, and where they are in what they read.
LEMMA StepCarried ==
    ASSUME ThreadTypeOK, AimInv, [ThreadNext]_threadVars, NEW v \in Workers
    PROVE  /\ passes'[v].pc = "note" => IsAbout(passes[v].line, passes[v].id, passes[v].key)'
           /\ passes'[v].pc = "deal" =>
                 passes'[v].next > 0 /\ passes'[v].upto <= Len(updates'[passes'[v].line])
  <1>0. /\ passes[v] \in PassRecords /\ (passes[v].pc # "idle" => passes[v].line \in Lines)
        /\ passes[v].next \in Nat /\ passes[v].upto \in Nat /\ passes[v].id \in Nat
    BY DEF ThreadTypeOK, PassRecords
  <1>1. CASE passes'[v] = passes[v]
    <2>1. ASSUME passes[v].pc = "note"
          PROVE  IsAbout(passes[v].line, passes[v].id, passes[v].key)'
      <3>1. IsAbout(passes[v].line, passes[v].id, passes[v].key)
        BY <2>1 DEF AimInv
      <3>2. PICK l \in Lines : l = passes[v].line
        BY <3>1 DEF IsAbout
      <3> DEFINE i == passes[v].id
      <3>3. i \in 1 .. Len(chats'[l]) /\ chats'[l][i] = chats[l][i]
        BY <3>1, <3>2, LinesGrow DEF IsAbout
      <3> QED BY <1>1, <3>1, <3>2, <3>3 DEF IsAbout
    <2>2. ASSUME passes[v].pc = "deal"
          PROVE  passes[v].next > 0 /\ passes[v].upto <= Len(updates'[passes[v].line])
      <3>1. passes[v].next > 0 /\ passes[v].upto <= Len(updates[passes[v].line])
        BY <2>2 DEF AimInv
      <3>2. PICK l \in Lines : l = passes[v].line
        BY <1>0, <2>2
      <3>3. Len(updates[l]) <= Len(updates'[l])
        <4>1. Len(updates[l]) \in Nat /\ Len(updates'[l]) \in Nat
          <5>1. ThreadTypeOK'
            BY StepThreadTypes
          <5>2. updates' \in [Lines -> Seq(Updates)]
            BY <5>1 DEF ThreadTypeOK
          <5>3. updates'[l] \in Seq(Updates)
            BY <5>2
          <5> QED BY <5>3, OfALine
        <4>2. Len(updates[l]) > 0 => Len(updates[l]) \in 1 .. Len(updates'[l])
          <5>1. Len(updates[l]) > 0 => Len(updates[l]) \in 1 .. Len(updates[l])
            BY <4>1
          <5> QED BY <5>1, LinesGrow
        <4> QED BY <4>1, <4>2
      <3>4. Len(updates[l]) \in Nat /\ Len(updates'[l]) \in Nat
        <4>1. ThreadTypeOK'
          BY StepThreadTypes
        <4>2. updates' \in [Lines -> Seq(Updates)]
          BY <4>1 DEF ThreadTypeOK
        <4>3. updates'[l] \in Seq(Updates)
          BY <4>2
        <4> QED BY <4>3, OfALine
      <3> QED BY <1>0, <3>1, <3>2, <3>3, <3>4
    <2> QED BY <1>1, <2>1, <2>2
  <1>2. ASSUME NEW w \in Workers, Tends(w), w = v
        PROVE  /\ passes'[v].pc = "note" => IsAbout(passes[v].line, passes[v].id, passes[v].key)'
               /\ passes'[v].pc = "deal" =>
                     passes'[v].next > 0 /\ passes'[v].upto <= Len(updates'[passes'[v].line])
    <2>1. CASE passes'[v].pc = "note"
      <3>1. PICK l \in Lines, k \in Keys, a \in Nat :
               l = passes[v].line /\ k = passes[v].key /\ a = passes[v].age
        BY <1>2, <2>1, WhatTendingWrites DEF ThreadTypeOK, PassRecords
      <3>2. /\ passes'[v].line = l /\ passes'[v].key = k /\ passes'[v].id = Len(chats[l]) + 1
            /\ chats' = [chats EXCEPT ![l] = Append(@, [what |-> k, age |-> a])]
        BY <1>2, <2>1, <3>1, WhatTendingWrites
      <3>3. chats \in [Lines -> Seq(Messages)] /\ chats[l] \in Seq(Messages) /\ [what |-> k, age |-> a] \in Messages
        BY OfALine DEF ThreadTypeOK, Messages
      <3>4. Len(chats[l]) + 1 \in 1 .. Len(chats'[l]) /\ chats'[l][Len(chats[l]) + 1].what = k
        BY <3>2, <3>3
      <3> QED BY <2>1, <3>2, <3>4 DEF IsAbout
    <2>2. CASE passes'[v].pc = "deal" /\ Polls(v)
      <3>1. PICK l \in Lines : l = passes[v].line
        BY <2>2, WhatPollsWrites
      <3>2. /\ passes'[v].line = l /\ passes'[v].upto = Len(updates[l])
            /\ passes'[v].next = Larger(dropped[l], passes[v].since) + 1 /\ updates' = updates
        BY <2>2, <3>1, WhatPollsWrites DEF Polls
      <3>3. Larger(dropped[l], passes[v].since) \in Nat /\ Len(updates[l]) \in Nat
        BY <1>0, OfALine DEF Larger, PassRecords
      <3> QED BY <2>2, <3>2, <3>3
    <2>3. CASE passes'[v].pc = "deal" /\ ~ Polls(v)
      <3>1. /\ passes[v].pc = "deal" /\ updates' = updates
            /\ passes'[v].line = passes[v].line /\ passes'[v].next = passes[v].next + 1
            /\ passes'[v].upto = passes[v].upto
        BY <1>2, <2>3, WhatTendingWrites DEF Deals
      <3>2. passes[v].next > 0 /\ passes[v].upto <= Len(updates[passes[v].line])
        BY <3>1 DEF AimInv
      <3> QED BY <1>0, <2>3, <3>1, <3>2
    <2> QED BY <2>1, <2>2, <2>3
  <1>3. ASSUME NEW w \in Workers, Tends(w), w # v PROVE passes'[v] = passes[v]
    <2>1. PICK new \in PassRecords : passes' = [passes EXCEPT ![w] = new]
      BY <1>3, StepOfAPass
    <2> QED BY <1>3, <2>1 DEF ThreadTypeOK
  <1>4. ASSUME WorkerDies \/ AppDies, passes'[v].pc # "idle" PROVE passes'[v] = passes[v]
    BY <1>4, WhatDeathLeaves
  <1>5. CASE UNCHANGED passes
    BY <1>1, <1>5
  <1> QED BY <1>1, <1>2, <1>3, <1>4, <1>5
          DEF ThreadNext, Workers, threadVars, Writes, StrangerWrites, AnswersOnScreen, FindsChat,
              SavesConnection, SaveClears, PairingMarks, Unpairs, DeletesConnection

\* A message stays about what it is about.
LEMMA AboutLasts ==
    ASSUME ThreadTypeOK, [ThreadNext]_threadVars, NEW l, NEW i, NEW k, IsAbout(l, i, k)
    PROVE  IsAbout(l, i, k)'
  <1>1. l \in Lines /\ i \in 1 .. Len(chats[l]) /\ chats[l][i].what = k
    BY DEF IsAbout
  <1>2. i \in 1 .. Len(chats'[l]) /\ chats'[l][i] = chats[l][i]
    BY <1>1, LinesGrow
  <1> QED BY <1>1, <1>2 DEF IsAbout

\* What was torn stays torn.
LEMMA TornStays ==
    ASSUME [ThreadNext]_threadVars
    PROVE  torn \subseteq torn'
  BY DEF ThreadNext, threadVars, Writes, StrangerWrites, AnswersOnScreen, FindsChat, SavesConnection,
         SaveClears, PairingMarks, Unpairs, DeletesConnection, Tends, BeginsPass, Claims, Sends, Notes,
         SaidAll, Polls, Deals, MarksRead, WorkerDies, AppDies, Torn, CutShort

\* No pass is under way between the two statements of a save that is not torn.
LEMMA StepCalm ==
    ASSUME ThreadTypeOK, AimInv, [ThreadNext]_threadVars, torn' = {}, pairer'.pc = "clear",
           NEW v \in Workers
    PROVE  passes'[v].pc = "idle"
  <1>1. torn = {}
    BY TornStays
  <1>2. CASE SavesConnection
    BY <1>2 DEF SavesConnection, Torn, ThreadTypeOK
  <1>3. ASSUME pairer' = pairer PROVE \A w \in Workers : passes[w].pc = "idle"
    BY <1>1, <1>3 DEF AimInv
  <1>4. CASE pairer' = pairer /\ passes' = passes
    BY <1>3, <1>4
  <1>5. ASSUME NEW w \in Workers, Tends(w) PROVE FALSE
    <2>1. pairer' = pairer
      BY <1>5 DEF Tends, BeginsPass, Claims, Sends, Notes, SaidAll, Polls, Deals, MarksRead
    <2>2. passes[w].pc = "idle"
      BY <1>3, <2>1
    <2>3. BeginsPass(w)
      BY <1>5, <2>2 DEF Tends, Claims, Sends, Notes, SaidAll, Polls, Deals, MarksRead
    <2> QED BY <2>1, <2>3 DEF BeginsPass, CutShort
  <1>6. CASE WorkerDies
    BY <1>3, <1>6 DEF WorkerDies, Workers
  <1>7. CASE SaveClears \/ PairingMarks \/ AppDies \/ \E l \in Lines : FindsChat(l)
    <2>1. NoPairer.pc = "idle"
      BY DEF NoPairer
    <2>2. pairer \in [pc : {"idle", "save", "clear", "mark"}, line : AnyLine, upto : Nat]
      BY DEF ThreadTypeOK
    <2>3. CASE SaveClears
      BY <2>2, <2>3 DEF SaveClears
    <2>4. CASE PairingMarks \/ AppDies
      BY <2>1, <2>4 DEF PairingMarks, AppDies
    <2>5. CASE \E l \in Lines : FindsChat(l)
      <3>1. pairer'.pc = "save"
        BY <2>5 DEF FindsChat
      <3> QED BY <3>1
    <2> QED BY <1>7, <2>3, <2>4, <2>5
  <1> QED BY <1>2, <1>4, <1>5, <1>6, <1>7
          DEF ThreadNext, Workers, threadVars, Writes, StrangerWrites, AnswersOnScreen, Unpairs,
              DeletesConnection

\* A number noted is that of a message of the chat of the pairing.
LEMMA StepNoted ==
    ASSUME ThreadTypeOK, AimInv, [ThreadNext]_threadVars, torn' = {}, pairer'.pc # "clear",
           NEW k \in Keys, saidRow'[k] > 0
    PROVE  IsAbout(paired.line, saidRow[k], k)'
  <1>1. torn = {} /\ PassesArePaired
    BY TornStays DEF AimInv
  <1>2. ASSUME UNCHANGED saidRow, paired'.line = paired.line, pairer.pc # "clear"
        PROVE  IsAbout(paired.line, saidRow[k], k)'
    <2>1. IsAbout(paired.line, saidRow[k], k)
      BY <1>1, <1>2 DEF AimInv
    <2>2. PICK l, i : l = paired.line /\ i = saidRow[k]
      OBVIOUS
    <2>3. IsAbout(l, i, k)'
      BY <2>1, <2>2, AboutLasts
    <2> QED BY <1>2, <2>2, <2>3
  <1>3. ASSUME ClearsSaid PROVE FALSE
    BY <1>3 DEF ClearsSaid, Absent
  <1>4. \A n : Marked(n).line = paired.line
    BY DEF Marked, ThreadTypeOK
  <1>5. ASSUME NEW w \in Workers, Tends(w) PROVE IsAbout(paired.line, saidRow[k], k)'
    <2> DEFINE p == passes[w]
    <2>0. pairer' = pairer
      BY <1>5 DEF Tends, BeginsPass, Claims, Sends, Notes, SaidAll, Polls, Deals, MarksRead
    <2>1. CASE MarksRead(w)
      BY <1>2, <1>4, <2>0, <2>1 DEF MarksRead
    <2>2. CASE Claims(w)
      <3>1. UNCHANGED paired
        BY <2>2 DEF Claims
      <3>2. saidRow' = saidRow \/ \E j \in p.todo : saidRow' = [saidRow EXCEPT ![j] = 0]
        BY <2>2 DEF Claims
      <3>3. CASE saidRow' = saidRow
        BY <1>2, <2>0, <3>1, <3>3
      <3>4. ASSUME NEW j \in p.todo, saidRow' = [saidRow EXCEPT ![j] = 0]
            PROVE  IsAbout(paired.line, saidRow[k], k)'
        <4>0. saidRow \in [Keys -> Nat \cup {Absent}]
          BY DEF ThreadTypeOK
        <4>1. saidRow'[k] = saidRow[k]
          <5>1. CASE j = k
            BY <3>4, <4>0, <5>1
          <5>2. CASE j # k
            BY <3>4, <4>0, <5>2
          <5> QED BY <5>1, <5>2
        <4>2. IsAbout(paired.line, saidRow[k], k)
          BY <1>1, <2>0, <4>1 DEF AimInv
        <4>3. PICK l, i : l = paired.line /\ i = saidRow[k]
          OBVIOUS
        <4>4. IsAbout(l, i, k)'
          BY <4>2, <4>3, AboutLasts
        <4> QED BY <3>1, <4>1, <4>3, <4>4
      <3> QED BY <3>2, <3>3, <3>4
    <2>3. CASE Notes(w)
      <3>1. /\ p.pc = "note" /\ UNCHANGED paired /\ p.key \in Keys
            /\ saidRow' = [saidRow EXCEPT ![p.key] = IF @ = Absent THEN Absent ELSE p.id]
        BY <2>3 DEF Notes, ThreadTypeOK, PassRecords
      <3>2. IsAbout(p.line, p.id, p.key) /\ p.line = paired.line
        BY <1>1, <3>1 DEF AimInv, PassesArePaired
      <3>3. CASE k = p.key /\ saidRow[k] # Absent
        <4>1. saidRow'[k] = p.id
          BY <3>1, <3>3 DEF ThreadTypeOK
        <4>2. PICK l, i : l = paired.line /\ i = p.id
          OBVIOUS
        <4>3. IsAbout(l, i, k)'
          BY <3>2, <3>3, <4>2, AboutLasts
        <4> QED BY <3>1, <4>1, <4>2, <4>3
      <3>4. CASE ~ (k = p.key /\ saidRow[k] # Absent)
        <4>1. saidRow'[k] = saidRow[k]
          BY <3>1, <3>4 DEF ThreadTypeOK, Absent
        <4>2. IsAbout(paired.line, saidRow[k], k)
          BY <1>1, <2>0, <4>1 DEF AimInv
        <4>3. PICK l, i : l = paired.line /\ i = saidRow[k]
          OBVIOUS
        <4>4. IsAbout(l, i, k)'
          BY <4>2, <4>3, AboutLasts
        <4> QED BY <3>1, <4>1, <4>3, <4>4
      <3> QED BY <3>3, <3>4
    <2>4. CASE BeginsPass(w) \/ Sends(w) \/ SaidAll(w) \/ Polls(w) \/ Deals(w)
      BY <1>2, <2>0, <2>4 DEF BeginsPass, Sends, SaidAll, Polls, Deals
    <2> QED BY <1>5, <2>1, <2>2, <2>3, <2>4 DEF Tends
  <1>6. CASE SavesConnection
    BY <1>6 DEF SavesConnection, ThreadTypeOK
  <1>7. CASE SaveClears \/ Unpairs
    BY <1>3, <1>7 DEF SaveClears, Unpairs
  <1>8. CASE PairingMarks
    BY <1>2, <1>4, <1>8 DEF PairingMarks
  <1>9. CASE DeletesConnection
    <2>1. CASE \A j \in Keys : saidRow[j] = Absent
      BY <1>9, <2>1 DEF DeletesConnection, Absent
    <2>2. CASE \E j \in Keys : saidRow[j] # Absent
      BY <1>2, <1>9, <2>2 DEF DeletesConnection
    <2> QED BY <2>1, <2>2
  <1>10. CASE AppDies
    BY <1>2, <1>10 DEF AppDies, CutShort
  <1>11. CASE \E l \in Lines : FindsChat(l)
    BY <1>2, <1>11 DEF FindsChat
  <1>12. CASE UNCHANGED threadVars
    BY <1>2, <1>12 DEF threadVars
  <1> QED BY <1>2, <1>5, <1>6, <1>7, <1>8, <1>9, <1>10, <1>11, <1>12
          DEF ThreadNext, Workers, Writes, StrangerWrites, AnswersOnScreen, WorkerDies

\* What the phone answered replied to the message of that question.
LEMMA StepAnswered ==
    ASSUME ThreadTypeOK, AimInv, [ThreadNext]_threadVars, torn' = {},
           NEW d \in Decisions, verdicts'[d].by = "thread"
    PROVE  IsAReplyTo(verdicts[d].line, verdicts[d].update, d)'
  <1>0. torn = {} /\ PassesArePaired
    BY TornStays DEF AimInv
  <1>1. ASSUME NEW l, NEW i, IsAReplyTo(l, i, d) PROVE IsAReplyTo(l, i, d)'
    <2>1. /\ l \in Lines /\ i \in 1 .. Len(updates[l])
          /\ updates[l][i].who = "person" /\ IsAbout(l, updates[l][i].to, d)
      BY <1>1 DEF IsAReplyTo
    <2>2. i \in 1 .. Len(updates'[l]) /\ updates'[l][i] = updates[l][i]
      BY <2>1, LinesGrow
    <2>3. PICK to : to = updates[l][i].to
      OBVIOUS
    <2>4. IsAbout(l, to, d)'
      BY <2>1, <2>3, AboutLasts
    <2> QED BY <2>1, <2>2, <2>3, <2>4 DEF IsAReplyTo
  <1> SUFFICES \E l, i : IsAReplyTo(l, i, d) /\ verdicts'[d].line = l /\ verdicts'[d].update = i
    <2>1. PICK l, i : IsAReplyTo(l, i, d) /\ verdicts'[d].line = l /\ verdicts'[d].update = i
      OBVIOUS
    <2>2. IsAReplyTo(l, i, d)'
      BY <1>1, <2>1
    <2> QED BY <2>1, <2>2
  <1>2. CASE verdicts'[d] = verdicts[d]
    BY <1>0, <1>2 DEF AimInv
  <1>3. ASSUME NEW e \in Decisions, AnswersOnScreen(e) PROVE verdicts'[d] = verdicts[d]
    <2>1. verdicts' = [verdicts EXCEPT ![e].by = "screen"] /\ verdicts[e] = Open
      BY <1>3 DEF AnswersOnScreen
    <2> QED BY <2>1 DEF ThreadTypeOK, Open
  <1>4. ASSUME NEW w \in Workers, Deals(w), verdicts'[d] # verdicts[d]
        PROVE  \E l, i : IsAReplyTo(l, i, d) /\ verdicts'[d].line = l /\ verdicts'[d].update = i
    <2> DEFINE p == passes[w]
               u == updates[p.line][p.next]
    <2>1. /\ p.pc = "deal" /\ p.next <= p.upto /\ Kept(u) /\ d \in AskedBy(u)
          /\ verdicts'[d] = [by |-> "thread", line |-> p.line, update |-> p.next]
      <3>1. PICK e \in AskedBy(u) \cap Decisions :
               verdicts' = [verdicts EXCEPT ![e] = [by |-> "thread", line |-> p.line, update |-> p.next]]
        BY <1>4 DEF Deals
      <3>2. e = d
        BY <1>4, <3>1 DEF ThreadTypeOK
      <3>3. verdicts'[d] = [by |-> "thread", line |-> p.line, update |-> p.next]
        BY <3>1, <3>2 DEF ThreadTypeOK
      <3> QED BY <1>4, <3>1, <3>2, <3>3 DEF Deals
    <2>2. p.line = paired.line /\ p.line \in Lines /\ p.next \in Nat /\ p.upto \in Nat
      BY <1>0, <2>1 DEF PassesArePaired, ThreadTypeOK, PassRecords
    <2>3. p.next > 0 /\ p.upto <= Len(updates[p.line])
      BY <2>1 DEF AimInv
    <2>4. p.next \in 1 .. Len(updates[p.line])
      BY <2>1, <2>2, <2>3, OfALine
    <2>5. u \in Updates /\ u.to \in Nat
      <3>1. u \in Updates
        BY <2>2, <2>4, OfALine
      <3> QED BY <3>1 DEF Updates
    <2>6. u.to # 0 /\ d \in Keys /\ saidRow[d] = u.to
      BY <2>1 DEF AskedBy
    <2>7. pairer.pc # "clear"
      BY <1>0, <2>1 DEF AimInv
    <2>8. IsAbout(paired.line, saidRow[d], d)
      BY <1>0, <2>5, <2>6, <2>7 DEF AimInv
    <2>9. IsAReplyTo(p.line, p.next, d)
      BY <2>1, <2>2, <2>4, <2>6, <2>8 DEF Kept, IsAReplyTo
    <2> QED BY <2>1, <2>9
  <1>5. ASSUME NEW w \in Workers, Tends(w), ~ Deals(w) PROVE verdicts' = verdicts
    BY <1>5 DEF Tends, BeginsPass, Claims, Sends, Notes, SaidAll, Polls, MarksRead
  <1> QED BY <1>2, <1>3, <1>4, <1>5
          DEF ThreadNext, Workers, threadVars, Writes, StrangerWrites, FindsChat, SavesConnection,
              SaveClears, PairingMarks, Unpairs, DeletesConnection, WorkerDies, AppDies

LEMMA StepAim == ThreadTypeOK /\ AimInv /\ [ThreadNext]_threadVars => AimInv'
  <1> SUFFICES ASSUME ThreadTypeOK, AimInv, [ThreadNext]_threadVars
               PROVE  AimInv'
    OBVIOUS
  <1>1. PassesArePaired'
    BY StepPaired DEF AimInv
  <1>2. ASSUME torn' = {}, pairer'.pc = "clear" PROVE \A w \in Workers : passes'[w].pc = "idle"
    BY <1>2, StepCalm
  <1>3. ASSUME torn' = {}, pairer'.pc # "clear"
        PROVE  \A k \in Keys : saidRow'[k] > 0 => IsAbout(paired.line, saidRow[k], k)'
    BY <1>3, StepNoted
  <1>4. ASSUME torn' = {}
        PROVE  \A d \in Decisions : verdicts'[d].by = "thread" =>
                  IsAReplyTo(verdicts[d].line, verdicts[d].update, d)'
    BY <1>4, StepAnswered
  <1>5. \A w \in Workers :
           /\ passes'[w].pc = "note" => IsAbout(passes[w].line, passes[w].id, passes[w].key)'
           /\ passes'[w].pc = "deal" =>
                 passes'[w].next > 0 /\ passes'[w].upto <= Len(updates'[passes'[w].line])
    BY StepCarried
  <1> QED BY <1>1, <1>2, <1>3, <1>4, <1>5 DEF AimInv

\* An answer given on the phone lands on the question that the person's message
\* replied to: the reply names a message by its number (keyForProviderMessageId), and
\* the number noted is that of the question's message, unless a save of the
\* pairing was overtaken or cut short or a pairing changed under a pass.
THEOREM AnswersHitTheirQuestion == ThreadSpec => []AnswersLandWhereAimed
  <1> DEFINE Inv == ThreadTypeOK /\ AimInv
  <1>1. ThreadInit => Inv
    BY InitThreadTypes, InitAim
  <1>2. Inv /\ [ThreadNext]_threadVars => Inv'
    BY StepThreadTypes, StepAim
  <1>3. Inv => AnswersLandWhereAimed
    <2> SUFFICES ASSUME ThreadTypeOK, AimInv, torn = {}, NEW d \in Decisions,
                        verdicts[d].by = "thread"
                 PROVE  LET u == updates[verdicts[d].line][verdicts[d].update] IN
                        u.who = "person" /\ u.to # 0 /\ chats[verdicts[d].line][u.to].what = d
      BY DEF AnswersLandWhereAimed
    <2> DEFINE u == updates[verdicts[d].line][verdicts[d].update]
    <2>1. u.who = "person" /\ IsAbout(verdicts[d].line, u.to, d)
      BY DEF AimInv, IsAReplyTo
    <2>2. u.to # 0
      <3>1. u.to \in 1 .. Len(chats[verdicts[d].line])
        BY <2>1 DEF IsAbout
      <3> QED BY <3>1
    <2> QED BY <2>1, <2>2 DEF IsAbout
  <1> QED BY <1>1, <1>2, <1>3, PTL DEF ThreadSpec

-----------------------------------------------------------------------------
(* Reading: steps.                                                         *)

LEMMA InitKeep == ThreadInit => KeepInv
  <1> SUFFICES ASSUME ThreadInit PROVE KeepInv
    OBVIOUS
  <1>1. \A w \in Workers : passes[w].pc = "idle"
    BY DEF ThreadInit, NoPass, Workers
  <1>2. pairer.pc = "idle"
    BY DEF ThreadInit, NoPairer
  <1>3. paired.line # NoLine => /\ paired.line \in Lines /\ paired.cursor = 1 /\ paired.from = 1
                                /\ dropped[paired.line] = 0
    BY DEF ThreadInit, Unpaired
  <1>4. paired.line # NoLine => /\ paired.from <= dropped[paired.line] + 1
                                /\ DealtWith(paired.line, paired.from, paired.cursor)
                                /\ DealtWith(paired.line, paired.from, dropped[paired.line])
    BY <1>3 DEF DealtWith
  <1> QED BY <1>1, <1>2, <1>4 DEF KeepInv, ReadsFromStart, PassesArePaired

\* What was dealt with stays dealt with.
LEMMA DealtLasts ==
    ASSUME dealt \subseteq dealt', NEW l, NEW m, NEW n, DealtWith(l, m, n)
    PROVE  DealtWith(l, m, n)'
  BY DEF DealtWith

\* The types of where reading is.
LEMMA ReadingTypes ==
    ASSUME ThreadTypeOK
    PROVE  /\ paired.line # NoLine => paired.line \in Lines /\ dropped[paired.line] \in Nat
           /\ paired.cursor \in Nat /\ paired.from \in Nat /\ pairer.upto \in Nat
           /\ pairer.pc # "idle" => pairer.line \in Lines /\ dropped[pairer.line] \in Nat
           /\ \A w \in Workers :
                 /\ passes[w].since \in Nat /\ passes[w].next \in Nat /\ passes[w].upto \in Nat
                 /\ passes[w].pc # "idle" => passes[w].line \in Lines /\ dropped[passes[w].line] \in Nat
           /\ NoLine \notin Lines
  <1>1. paired.line # NoLine => paired.line \in Lines
    BY DEF ThreadTypeOK, AnyLine
  <1>2. paired.cursor \in Nat /\ paired.from \in Nat /\ pairer.upto \in Nat
    BY DEF ThreadTypeOK
  <1>3. \A l \in Lines : dropped[l] \in Nat
    BY DEF ThreadTypeOK
  <1>4. \A w \in Workers :
           /\ passes[w].since \in Nat /\ passes[w].next \in Nat /\ passes[w].upto \in Nat
           /\ passes[w].pc # "idle" => passes[w].line \in Lines
    BY DEF ThreadTypeOK, PassRecords
  <1>5. pairer.pc # "idle" => pairer.line \in Lines
    BY DEF ThreadTypeOK
  <1> QED BY <1>1, <1>2, <1>3, <1>4, <1>5, ThreadAssumption

\* A step that reads nothing and pairs nothing.
LEMMA NothingRead ==
    ASSUME ThreadTypeOK, KeepInv, PassesArePaired', torn \subseteq torn', dealt \subseteq dealt',
           UNCHANGED <<paired, dropped>>,
           \/ pairer' = pairer
           \/ pairer'.pc = "idle"
           \/ pairer.pc = "clear" /\ pairer' = [pairer EXCEPT !.pc = "mark"],
           \A w \in Workers : passes'[w].pc \in {"poll", "deal"} => passes'[w] = passes[w]
    PROVE  KeepInv'
  <1>1. ReadsFromStart'
    <2>1. CASE pairer' = pairer
      BY <2>1 DEF KeepInv, ReadsFromStart
    <2>2. CASE pairer'.pc = "idle"
      BY <2>2 DEF KeepInv, ReadsFromStart
    <2>3. CASE pairer.pc = "clear" /\ pairer' = [pairer EXCEPT !.pc = "mark"]
      <3>1. pairer'.pc = "mark" /\ pairer'.line = pairer.line /\ pairer'.upto = pairer.upto
        BY <2>3 DEF ThreadTypeOK
      <3> QED BY <2>3, <3>1 DEF KeepInv, ReadsFromStart
    <2> QED BY <2>1, <2>2, <2>3
  <1>2. ASSUME "pass" \notin torn'
        PROVE  /\ paired.line # NoLine =>
                     /\ DealtWith(paired.line, paired.from, paired.cursor)'
                     /\ DealtWith(paired.line, paired.from, dropped[paired.line])'
               /\ pairer'.pc = "save" => DealtWith(pairer.line, pairer.upto, dropped[pairer.line])'
    <2>1. \A l, m, n : DealtWith(l, m, n) => DealtWith(l, m, n)'
      BY DealtLasts
    <2>2. pairer'.pc = "save" => pairer' = pairer
      BY DEF ThreadTypeOK
    <2> QED BY <1>2, <2>1, <2>2 DEF KeepInv, DealtWith
  <1>3. ASSUME "pass" \notin torn', NEW w \in Workers
        PROVE  /\ passes'[w].pc = "poll" => DealtWith(paired.line, paired.from, passes[w].since)'
               /\ passes'[w].pc = "deal" =>
                     /\ passes'[w].since < passes'[w].next
                     /\ DealtWith(paired.line, paired.from, passes[w].next - 1)'
    BY <1>3 DEF KeepInv, DealtWith
  <1> QED BY <1>1, <1>2, <1>3 DEF KeepInv

\* The provider forgets what is past the cursor a poll began from.
LEMMA PollsKeep ==
    ASSUME ThreadTypeOK, KeepInv, PassesArePaired', NEW w \in Workers, Polls(w)
    PROVE  KeepInv'
  <1> DEFINE p == passes[w]
             l == p.line
             most == Larger(dropped[l], p.since)
  <1>1. /\ p.pc = "poll" /\ l \in Lines /\ dropped[l] \in Nat /\ p.since \in Nat
        /\ dropped' \in {dropped, [dropped EXCEPT ![l] = most]}
        /\ UNCHANGED <<paired, pairer, dealt, torn>>
        /\ \A v \in Workers \ {w} : passes'[v] = passes[v]
    BY WhatPollsWrites, ReadingTypes DEF Polls
  <1>2. most \in Nat /\ most >= dropped[l] /\ most >= p.since /\ (most = dropped[l] \/ most = p.since)
    BY <1>1 DEF Larger
  <1>3. \A m \in Lines : /\ dropped[m] \in Nat /\ dropped'[m] \in Nat /\ dropped'[m] >= dropped[m]
                         /\ dropped'[m] = dropped[m] \/ (m = l /\ dropped'[m] = most)
    <2> HIDE DEF most
    <2>1. dropped \in [Lines -> Nat]
      BY DEF ThreadTypeOK
    <2>2. CASE dropped' = dropped
      BY <1>1, <2>1, <2>2
    <2>3. CASE dropped' = [dropped EXCEPT ![l] = most]
      BY <1>1, <1>2, <2>1, <2>3
    <2> QED BY <1>1, <2>2, <2>3
  <1>4. ReadsFromStart'
    <2> HIDE DEF most, l
    <2>1. ASSUME paired.line # NoLine PROVE paired.from <= dropped'[paired.line] + 1
      <3>1. paired.from \in Nat /\ paired.from <= dropped[paired.line] + 1
        BY <2>1, ReadingTypes DEF KeepInv, ReadsFromStart
      <3>2. PICK m \in Lines : m = paired.line
        BY <2>1, ReadingTypes
      <3>3. dropped[m] \in Nat /\ dropped'[m] \in Nat /\ dropped'[m] >= dropped[m]
        BY <1>3
      <3> QED BY <3>1, <3>2, <3>3
    <2>2. ASSUME pairer.pc # "idle" PROVE pairer.upto <= dropped'[pairer.line] + 1
      <3>1. pairer.upto \in Nat /\ pairer.upto <= dropped[pairer.line] + 1
        BY <2>2, ReadingTypes DEF KeepInv, ReadsFromStart
      <3>2. PICK m \in Lines : m = pairer.line
        BY <2>2, ReadingTypes
      <3>3. dropped[m] \in Nat /\ dropped'[m] \in Nat /\ dropped'[m] >= dropped[m]
        BY <1>3
      <3> QED BY <3>1, <3>2, <3>3
    <2> QED BY <1>1, <2>1, <2>2 DEF KeepInv, ReadsFromStart
  <1>5. ASSUME "pass" \notin torn
        PROVE  /\ paired.line = l /\ l # NoLine /\ DealtWith(l, paired.from, dropped[l])
               /\ DealtWith(l, paired.from, p.since) /\ DealtWith(l, paired.from, most)
    <2>1. paired.line = l /\ l # NoLine
      BY <1>1, <1>5, ReadingTypes DEF KeepInv, PassesArePaired
    <2>2. DealtWith(l, paired.from, dropped[l]) /\ DealtWith(l, paired.from, p.since)
      BY <1>1, <1>5, <2>1 DEF KeepInv
    <2> QED BY <1>2, <2>1, <2>2
  <1> HIDE DEF most
  <1>6. ASSUME "pass" \notin torn
        PROVE  /\ DealtWith(paired.line, paired.from, paired.cursor)'
               /\ DealtWith(paired.line, paired.from, dropped[paired.line])'
    <2>1. DealtWith(paired.line, paired.from, paired.cursor)
      BY <1>5, <1>6 DEF KeepInv
    <2>2. DealtWith(paired.line, paired.from, dropped'[paired.line])
      BY <1>1, <1>3, <1>5, <1>6
    <2> QED BY <1>1, <2>1, <2>2 DEF DealtWith
  <1>7. ASSUME "pass" \notin torn, pairer.pc = "save"
        PROVE  DealtWith(pairer.line, pairer.upto, dropped[pairer.line])'
    <2>1. DealtWith(pairer.line, pairer.upto, dropped[pairer.line]) /\ pairer.line \in Lines
      BY <1>7, ReadingTypes DEF KeepInv
    <2>2. CASE dropped'[pairer.line] = dropped[pairer.line]
      BY <1>1, <2>1, <2>2 DEF DealtWith
    <2>3. CASE pairer.line = l /\ dropped'[l] = most
      <3>1. paired.from <= pairer.upto /\ paired.from \in Nat /\ pairer.upto \in Nat
        BY <1>5, <1>7, <2>3, ReadingTypes DEF KeepInv, ReadsFromStart
      <3>2. DealtWith(l, pairer.upto, most)
        <4>1. DealtWith(l, paired.from, most)
          BY <1>5, <1>7
        <4> QED BY <1>2, <3>1, <4>1 DEF DealtWith
      <3> QED BY <1>1, <2>3, <3>2 DEF DealtWith
    <2> QED BY <1>3, <2>1, <2>2, <2>3
  <1>8. ASSUME "pass" \notin torn, NEW v \in Workers
        PROVE  /\ passes'[v].pc = "poll" => DealtWith(paired.line, paired.from, passes[v].since)'
               /\ passes'[v].pc = "deal" =>
                     /\ passes'[v].since < passes'[v].next
                     /\ DealtWith(paired.line, paired.from, passes[v].next - 1)'
    <2>1. CASE v # w
      BY <1>1, <1>8, <2>1 DEF KeepInv, DealtWith
    <2>2. CASE v = w
      <3>1. \/ passes'[w].pc = "idle"
            \/ passes'[w].pc = "deal" /\ passes'[w].since = p.since /\ passes'[w].next = most + 1
        BY WhatPollsWrites DEF most
      <3>2. p.since <= most /\ (most + 1) - 1 = most
        BY <1>1, <1>2
      <3>3. DealtWith(paired.line, paired.from, most)
        BY <1>5, <1>8
      <3>4. CASE passes'[w].pc = "deal" /\ passes'[w].since = p.since /\ passes'[w].next = most + 1
        <4>1. passes'[w].since < passes'[w].next
          BY <1>1, <1>2, <3>2, <3>4
        <4>2. DealtWith(paired.line, paired.from, passes[w].next - 1)'
          BY <1>1, <3>2, <3>3, <3>4 DEF DealtWith
        <4> QED BY <2>2, <3>4, <4>1, <4>2
      <3> QED BY <2>2, <3>1, <3>4
    <2> QED BY <2>1, <2>2
  <1> QED BY <1>1, <1>4, <1>6, <1>7, <1>8 DEF KeepInv

\* What is dealt with is one further of what the pairing was told.
LEMMA DealsKeep ==
    ASSUME ThreadTypeOK, KeepInv, PassesArePaired', NEW w \in Workers, Deals(w)
    PROVE  KeepInv'
  <1> DEFINE p == passes[w]
  <1>1. /\ p.pc = "deal" /\ p.next \in Nat /\ p.since \in Nat /\ paired.from \in Nat
        /\ UNCHANGED <<paired, pairer, dropped, torn>>
        /\ \E how : dealt' = dealt \cup {[line |-> p.line, update |-> p.next, how |-> how]}
    BY ReadingTypes DEF Deals, Dealt
  <1>2. /\ passes'[w].since = p.since /\ passes'[w].next = p.next + 1
        /\ passes'[w].pc \in {"poll", "deal"} => passes'[w].pc = "deal"
        /\ \A v \in Workers \ {w} : passes'[v] = passes[v]
    <2> DEFINE dealing == [p EXCEPT !.next = @ + 1]
    <2>1. p.pc = "deal" /\ passes' = [passes EXCEPT ![w] = dealing]
      BY DEF Deals, Dealt
    <2>2. dealing.pc = p.pc /\ dealing.next = p.next + 1 /\ dealing.since = p.since
      BY DEF ThreadTypeOK, PassRecords
    <2> HIDE DEF dealing
    <2>3. passes'[w] = dealing /\ \A v \in Workers \ {w} : passes'[v] = passes[v]
      BY <2>1 DEF ThreadTypeOK
    <2> QED BY <2>1, <2>2, <2>3
  <1>3. ReadsFromStart'
    BY <1>1 DEF KeepInv, ReadsFromStart
  <1>4. dealt \subseteq dealt' /\ \E e \in dealt' : e.line = p.line /\ e.update = p.next
    <2>1. PICK how : dealt' = dealt \cup {[line |-> p.line, update |-> p.next, how |-> how]}
      BY <1>1
    <2> DEFINE one == [line |-> p.line, update |-> p.next, how |-> how]
    <2>2. one.line = p.line /\ one.update = p.next
      OBVIOUS
    <2> HIDE DEF one
    <2>3. dealt' = dealt \cup {one}
      BY <2>1 DEF one
    <2> QED BY <2>2, <2>3
  <1>5. \A l, m, n : DealtWith(l, m, n) => DealtWith(l, m, n)'
    BY <1>4, DealtLasts
  <1>6. ASSUME "pass" \notin torn
        PROVE  /\ p.since < p.next /\ p.line = paired.line
               /\ DealtWith(paired.line, paired.from, p.next - 1)
    BY <1>1, <1>6 DEF KeepInv, PassesArePaired
  <1>7. ASSUME "pass" \notin torn PROVE DealtWith(paired.line, paired.from, passes[w].next - 1)'
    <2>1. \A i \in paired.from + 1 .. p.next : i = p.next \/ i \in paired.from + 1 .. p.next - 1
      BY <1>1
    <2>2. \A i \in paired.from + 1 .. p.next : \E e \in dealt' : e.line = paired.line /\ e.update = i
      <3> HIDE DEF p
      <3> QED BY <1>4, <1>6, <1>7, <2>1 DEF DealtWith
    <2>3. passes'[w].next - 1 = p.next
      BY <1>1, <1>2
    <2> QED BY <1>1, <2>2, <2>3 DEF DealtWith
  <1>8. ASSUME "pass" \notin torn, NEW v \in Workers
        PROVE  /\ passes'[v].pc = "poll" => DealtWith(paired.line, paired.from, passes[v].since)'
               /\ passes'[v].pc = "deal" =>
                     /\ passes'[v].since < passes'[v].next
                     /\ DealtWith(paired.line, paired.from, passes[v].next - 1)'
    <2>1. CASE v # w
      BY <1>1, <1>2, <1>5, <1>8, <2>1 DEF KeepInv, DealtWith
    <2>2. CASE v = w
      BY <1>1, <1>2, <1>6, <1>7, <1>8, <2>2 DEF DealtWith
    <2> QED BY <2>1, <2>2
  <1>9. ASSUME "pass" \notin torn
        PROVE  /\ paired.line # NoLine =>
                     /\ DealtWith(paired.line, paired.from, paired.cursor)'
                     /\ DealtWith(paired.line, paired.from, dropped[paired.line])'
               /\ pairer.pc = "save" => DealtWith(pairer.line, pairer.upto, dropped[pairer.line])'
    BY <1>1, <1>5, <1>9 DEF KeepInv, DealtWith
  <1> QED BY <1>1, <1>3, <1>8, <1>9 DEF KeepInv

\* The cursor passes what was dealt with.
LEMMA MarksReadKeeps ==
    ASSUME ThreadTypeOK, KeepInv, PassesArePaired', NEW w \in Workers, MarksRead(w)
    PROVE  KeepInv'
  <1> DEFINE p == passes[w]
             cursor == Larger(p.since, p.upto)
  <1>1. /\ p.pc = "deal" /\ p.next > p.upto /\ UNCHANGED <<pairer, dropped, torn, dealt>>
        /\ p.since \in Nat /\ p.upto \in Nat /\ p.next \in Nat /\ paired.from \in Nat
        /\ paired' \in {paired, Marked(cursor)}
    BY ReadingTypes DEF MarksRead, Done
  <1>2. passes'[w].pc = "idle" /\ \A v \in Workers \ {w} : passes'[v] = passes[v]
    <2>1. NoPass.pc = "idle"
      BY DEF NoPass
    <2> QED BY <2>1 DEF MarksRead, ThreadTypeOK
  <1>3. /\ paired'.line = paired.line /\ paired'.from = paired.from
        /\ paired'.cursor = paired.cursor \/ paired'.cursor = cursor
    <2> HIDE DEF cursor
    <2> QED BY <1>1 DEF Marked, ThreadTypeOK
  <1>4. ReadsFromStart'
    BY <1>1, <1>3 DEF KeepInv, ReadsFromStart
  <1>5. ASSUME "pass" \notin torn PROVE DealtWith(paired.line, paired.from, cursor)
    <2>1. p.since < p.next /\ DealtWith(paired.line, paired.from, p.next - 1)
      BY <1>1, <1>5 DEF KeepInv
    <2>2. cursor \in Nat /\ cursor <= p.next - 1
      BY <1>1, <2>1 DEF Larger
    <2> HIDE DEF cursor
    <2> QED BY <1>1, <2>1, <2>2 DEF DealtWith
  <1> HIDE DEF cursor
  <1>6. ASSUME "pass" \notin torn
        PROVE  /\ paired.line # NoLine =>
                     /\ DealtWith(paired.line, paired.from, paired.cursor)'
                     /\ DealtWith(paired.line, paired.from, dropped[paired.line])'
               /\ pairer.pc = "save" => DealtWith(pairer.line, pairer.upto, dropped[pairer.line])'
    BY <1>1, <1>3, <1>5, <1>6 DEF KeepInv, DealtWith
  <1>7. ASSUME "pass" \notin torn, NEW v \in Workers
        PROVE  /\ passes'[v].pc = "poll" => DealtWith(paired.line, paired.from, passes[v].since)'
               /\ passes'[v].pc = "deal" =>
                     /\ passes'[v].since < passes'[v].next
                     /\ DealtWith(paired.line, paired.from, passes[v].next - 1)'
    BY <1>1, <1>2, <1>3, <1>7 DEF KeepInv, DealtWith
  <1> QED BY <1>1, <1>3, <1>4, <1>6, <1>7 DEF KeepInv

\* Pairing begins to read where nothing was left unread.
LEMMA PairingKeeps ==
    ASSUME ThreadTypeOK, KeepInv, PassesArePaired',
           SavesConnection \/ PairingMarks \/ DeletesConnection \/ \E l \in Lines : FindsChat(l)
    PROVE  KeepInv'
  <1>1. ASSUME NEW l \in Lines, FindsChat(l) PROVE KeepInv'
    <2>1. /\ pairer'.pc = "save" /\ pairer'.line = l /\ pairer'.upto = dropped[l] + 1
          /\ UNCHANGED <<paired, dropped, dealt, passes, torn>> /\ dropped[l] \in Nat
      BY <1>1 DEF FindsChat, ThreadTypeOK
    <2>2. ReadsFromStart'
      BY <2>1, ReadingTypes DEF KeepInv, ReadsFromStart
    <2>3. DealtWith(l, dropped[l] + 1, dropped[l])
      BY <2>1 DEF DealtWith
    <2> QED BY <2>1, <2>2, <2>3 DEF KeepInv, DealtWith
  <1>2. ASSUME torn' = Torn, "pass" \notin torn', UNCHANGED passes
        PROVE  "pass" \notin torn /\ \A w \in Workers : passes'[w].pc = "idle"
    BY <1>2 DEF Torn, ThreadTypeOK
  <1>3. CASE SavesConnection
    <2>1. /\ pairer.pc = "save" /\ pairer'.pc = "clear" /\ pairer'.line = pairer.line
          /\ pairer'.upto = pairer.upto /\ UNCHANGED <<dropped, dealt, passes>> /\ torn' = Torn
          /\ paired'.line = pairer.line /\ paired'.from = pairer.upto /\ paired'.cursor = 0
      BY <1>3 DEF SavesConnection, ThreadTypeOK
    <2>2. pairer.line \in Lines /\ pairer.upto \in Nat /\ dropped[pairer.line] \in Nat
      BY <2>1, ReadingTypes
    <2>3. ReadsFromStart'
      BY <2>1, <2>2 DEF KeepInv, ReadsFromStart
    <2>4. DealtWith(pairer.line, pairer.upto, 0)
      BY <2>2 DEF DealtWith
    <2>5. ASSUME "pass" \notin torn'
          PROVE  /\ DealtWith(paired.line, paired.from, paired.cursor)'
                 /\ DealtWith(paired.line, paired.from, dropped[paired.line])'
                 /\ \A w \in Workers : passes'[w].pc = "idle"
      BY <1>2, <2>1, <2>4, <2>5 DEF KeepInv, DealtWith
    <2> QED BY <2>1, <2>3, <2>5 DEF KeepInv
  <1>4. CASE PairingMarks
    <2>1. /\ pairer.pc = "mark" /\ pairer'.pc = "idle" /\ UNCHANGED <<dropped, dealt, passes, torn>>
          /\ paired'.line = paired.line /\ paired'.from = paired.from
          /\ paired.line # NoLine => paired'.cursor = pairer.upto
      BY <1>4 DEF PairingMarks, Marked, NoPairer, ThreadTypeOK
    <2>2. ReadsFromStart'
      BY <2>1 DEF KeepInv, ReadsFromStart
    <2>3. paired.line # NoLine => paired'.cursor = paired.from /\ paired.from \in Nat
      BY <2>1, ReadingTypes DEF KeepInv, ReadsFromStart
    <2>4. paired.line # NoLine => DealtWith(paired.line, paired.from, paired.cursor)'
      BY <2>1, <2>3 DEF DealtWith
    <2> QED BY <2>1, <2>2, <2>4 DEF KeepInv, DealtWith
  <1>5. CASE DeletesConnection
    <2>1. CASE UNCHANGED <<paired, torn>>
      <3>1. UNCHANGED <<paired, torn, pairer, dropped, dealt, passes>>
        BY <1>5, <2>1 DEF DeletesConnection
      <3> QED BY <3>1 DEF KeepInv, ReadsFromStart, DealtWith
    <2>2. CASE paired' = Unpaired /\ torn' = Torn
      <3>1. paired'.line = NoLine /\ UNCHANGED <<pairer, dropped, dealt, passes>>
        BY <1>5, <2>2 DEF DeletesConnection, Unpaired
      <3>2. ReadsFromStart'
        BY <3>1, ReadingTypes DEF KeepInv, ReadsFromStart
      <3>3. ASSUME "pass" \notin torn'
            PROVE  /\ "pass" \notin torn /\ \A w \in Workers : passes'[w].pc = "idle"
                   /\ pairer.pc = "save" => DealtWith(pairer.line, pairer.upto, dropped[pairer.line])'
        BY <1>2, <2>2, <3>1, <3>3 DEF KeepInv, DealtWith
      <3> QED BY <3>1, <3>2, <3>3 DEF KeepInv
    <2> QED BY <1>5, <2>1, <2>2 DEF DeletesConnection
  <1> QED BY <1>1, <1>3, <1>4, <1>5

LEMMA StepKeep == ThreadTypeOK /\ KeepInv /\ [ThreadNext]_threadVars => KeepInv'
  <1> SUFFICES ASSUME ThreadTypeOK, KeepInv, [ThreadNext]_threadVars
               PROVE  KeepInv'
    OBVIOUS
  <1>0. PassesArePaired' /\ torn \subseteq torn'
    BY StepPaired, TornStays DEF KeepInv
  <1>1. ASSUME dealt \subseteq dealt', UNCHANGED <<paired, dropped>>,
               \/ pairer' = pairer
               \/ pairer'.pc = "idle"
               \/ pairer.pc = "clear" /\ pairer' = [pairer EXCEPT !.pc = "mark"],
               \A w \in Workers : passes'[w].pc \in {"poll", "deal"} => passes'[w] = passes[w]
        PROVE  KeepInv'
    BY <1>0, <1>1, NothingRead
  <1>2. CASE \/ \E l \in Lines, what \in Texts : \E to \in {0} \cup DOMAIN chats[l] : Writes(l, what, to)
             \/ \E l \in Lines, to \in 1 .. MaxUpdates : StrangerWrites(l, to)
             \/ \E d \in Decisions : AnswersOnScreen(d)
             \/ SaveClears \/ Unpairs
    BY <1>1, <1>2 DEF Writes, StrangerWrites, AnswersOnScreen, SaveClears, Unpairs
  <1>3. CASE SavesConnection \/ PairingMarks \/ DeletesConnection \/ \E l \in Lines : FindsChat(l)
    BY <1>0, <1>3, PairingKeeps
  <1>4. ASSUME NEW w \in Workers, Tends(w) PROVE KeepInv'
    <2>1. CASE Polls(w)
      BY <1>0, <2>1, PollsKeep
    <2>2. CASE Deals(w)
      BY <1>0, <2>2, DealsKeep
    <2>3. CASE MarksRead(w)
      BY <1>0, <2>3, MarksReadKeeps
    <2>4. \A v \in Workers \ {w} : passes'[v] = passes[v]
      <3>1. PICK new \in PassRecords : passes' = [passes EXCEPT ![w] = new]
        BY <1>4, StepOfAPass
      <3> QED BY <3>1 DEF ThreadTypeOK
    <2>5. CASE BeginsPass(w) \/ Claims(w) \/ Sends(w) \/ Notes(w)
      <3>1. UNCHANGED <<paired, pairer, dropped, dealt>>
        BY <2>5 DEF BeginsPass, Claims, Sends, Notes
      <3>2. passes'[w].pc \notin {"poll", "deal"}
        <4>1. ~ Polls(w) /\ ~ Deals(w) /\ (SaidAll(w) => Claims(w))
          BY <2>5 DEF Polls, Deals, SaidAll, BeginsPass, Claims, Sends, Notes
        <4>2. ~ (Claims(w) /\ SaidAll(w))
          BY DEF Claims, SaidAll
        <4> QED BY <1>4, <4>1, <4>2, WhatTendingWrites
      <3> QED BY <1>1, <2>4, <3>1, <3>2
    <2>6. CASE SaidAll(w)
      <3>1. UNCHANGED <<paired, pairer, dropped, dealt, torn>>
        BY <2>6 DEF SaidAll
      <3>2. \/ passes'[w].pc = "idle"
            \/ passes'[w].pc = "poll" /\ paired.line # NoLine /\ passes'[w].since = paired.cursor
        BY <1>4, <2>6, SayingEnds, WhatTendingWrites
      <3>3. ReadsFromStart'
        BY <3>1 DEF KeepInv, ReadsFromStart
      <3>4. ASSUME "pass" \notin torn, NEW v \in Workers
            PROVE  /\ passes'[v].pc = "poll" => DealtWith(paired.line, paired.from, passes[v].since)'
                   /\ passes'[v].pc = "deal" =>
                         /\ passes'[v].since < passes'[v].next
                         /\ DealtWith(paired.line, paired.from, passes[v].next - 1)'
        <4>1. CASE v # w
          BY <2>4, <3>1, <3>4, <4>1 DEF KeepInv, DealtWith
        <4>2. CASE v = w
          BY <3>1, <3>2, <3>4, <4>2 DEF KeepInv, DealtWith
        <4> QED BY <4>1, <4>2
      <3> QED BY <1>0, <3>1, <3>3, <3>4 DEF KeepInv, DealtWith
    <2> QED BY <1>4, <2>1, <2>2, <2>3, <2>5, <2>6 DEF Tends
  <1>5. CASE WorkerDies \/ AppDies
    <2>1. ASSUME NEW w \in Workers, passes'[w].pc # "idle" PROVE passes'[w] = passes[w]
      BY <1>5, <2>1, WhatDeathLeaves
    <2>2. UNCHANGED <<paired, dropped, dealt>> /\ (pairer' = pairer \/ pairer'.pc = "idle")
      BY <1>5 DEF WorkerDies, AppDies, NoPairer
    <2> QED BY <1>1, <2>1, <2>2
  <1>6. CASE UNCHANGED threadVars
    BY <1>1, <1>6 DEF threadVars
  <1> QED BY <1>2, <1>3, <1>4, <1>5, <1>6 DEF ThreadNext, Workers

\* While no pairing changes under a pass, what the person wrote after pairing is
\* dealt with before the cursor (markRead), or what the provider still offers,
\* is past it, though passes overlap and processes die.
THEOREM RepliesAreNeverLost == ThreadSpec => []RepliesAreKept
  <1> DEFINE Inv == ThreadTypeOK /\ KeepInv
  <1>1. ThreadInit => Inv
    BY InitThreadTypes, InitKeep
  <1>2. Inv /\ [ThreadNext]_threadVars => Inv'
    BY StepThreadTypes, StepKeep
  <1>3. Inv => RepliesAreKept
    <2> SUFFICES ASSUME ThreadTypeOK, KeepInv, "pass" \notin torn, paired.line # NoLine,
                        NEW i \in paired.from + 1 .. Larger(paired.cursor, dropped[paired.line])
                 PROVE  \E e \in dealt : e.line = paired.line /\ e.update = i
      BY DEF RepliesAreKept
    <2>1. /\ DealtWith(paired.line, paired.from, paired.cursor)
          /\ DealtWith(paired.line, paired.from, dropped[paired.line])
      BY DEF KeepInv
    <2>2. \/ Larger(paired.cursor, dropped[paired.line]) = paired.cursor
          \/ Larger(paired.cursor, dropped[paired.line]) = dropped[paired.line]
      BY DEF Larger
    <2> QED BY <2>1, <2>2 DEF DealtWith
  <1> QED BY <1>1, <1>2, <1>3, PTL DEF ThreadSpec

=============================================================================
