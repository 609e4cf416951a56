------------------------------- MODULE Thread -------------------------------
(***************************************************************************)
(* The paired phone (server/thread.ts, runtime/thread-channel.ts, the      *)
(* thread's repository).  The worker tends the thread on a timer: it says  *)
(* what is outstanding and then reads what came back, and a pass slower    *)
(* than the timer overlaps the next.  The app says offers, and pairs and   *)
(* unpairs.  A message is claimed by its key before it is sent; a reply    *)
(* finds the question it answers by the provider's id of the message it    *)
(* replies to.                                                             *)
(*                                                                         *)
(* A line is a bot and the person's chat with it.  The provider numbers    *)
(* the messages of a chat, in both directions, and the updates of a bot,   *)
(* which anybody may write to.                                             *)
(***************************************************************************)
EXTENDS Integers, Sequences, FiniteSets

CONSTANTS
    Lines,      \* bots the person may pair
    NoLine,     \* no line: nothing is paired
    Decisions,  \* the open questions of recent reports
    Passes,     \* passes of the worker over the thread that may overlap
    Feeds,      \* calls of the app's feed of offers
    Texts,      \* what the person may write
    MaxUpdates, \* bound on what is written to one bot
    MaxAge      \* bound on the times the record of what was said is cleared

ASSUME ThreadAssumption ==
    NoLine \notin Lines /\ Feeds \cap Passes = {} /\ MaxUpdates \in Nat /\ MaxAge \in Nat

VARIABLES
    paired,   \* the ThreadConnection row: line, read cursor (0: none)
    pairer,   \* a call of completePairing
    forgets,  \* whether a call of unpair is between its two deletes
    saidRow,  \* of each key, its ThreadMessageSent row: absent, or the id noted
    age,      \* how often those rows were cleared
    chats,    \* of each line, the messages of the chat in order
    updates,  \* of each line, what was written to the bot, by anyone
    dropped,  \* of each line, the updates the provider no longer offers
    verdicts, \* of each decision, how it was answered
    passes,   \* the passes and the feed
    dealt,    \* the updates dealt with, and how
    torn      \* history: "pass" once the pairing changed under a pass, "save" once
              \* what was said to one thread was left for another

threadVars == <<paired, pairer, forgets, saidRow, age, chats, updates, dropped, verdicts,
                passes, dealt, torn>>

Keys == Decisions \cup {"offer"}
Absent == -1
Unpaired == [line |-> NoLine, cursor |-> 0, from |-> 0]
NoPass == [pc |-> "idle", line |-> NoLine, todo |-> {}, key |-> "offer", age |-> 0, id |-> 0,
           since |-> 0, next |-> 0, upto |-> 0]
NoPairer == [pc |-> "idle", line |-> NoLine, upto |-> 0]
Open == [by |-> "nobody", line |-> NoLine, update |-> 0]

Theirs == [what |-> "theirs", age |-> 0]
Start == [who |-> "person", what |-> "start", to |-> 0]

Larger(m, n) == IF m > n THEN m ELSE n

ThreadInit ==
    /\ \/ paired = Unpaired /\ updates = [l \in Lines |-> <<>>]
       \/ \E l \in Lines :
             /\ paired = [line |-> l, cursor |-> 1, from |-> 1]
             /\ updates = [m \in Lines |-> IF m = l THEN <<Start>> ELSE <<>>]
    /\ pairer = NoPairer /\ forgets = FALSE
    /\ saidRow = [k \in Keys |-> Absent] /\ age = 0
    /\ chats = [l \in Lines |-> IF updates[l] = <<>> THEN <<>> ELSE <<Theirs>>]
    /\ dropped = [l \in Lines |-> 0]
    /\ verdicts = [d \in Decisions |-> Open]
    /\ passes = [w \in Passes \cup Feeds |-> NoPass]
    /\ dealt = {} /\ torn = {}

-----------------------------------------------------------------------------
(* What people write.                                                      *)

\* The person writes to a bot, in reply to one of its messages or to none.
Writes(l, what, to) ==
    /\ Len(updates[l]) < MaxUpdates
    /\ to # 0 => chats[l][to].what # "theirs"
    /\ chats' = [chats EXCEPT ![l] = Append(@, Theirs)]
    /\ updates' = [updates EXCEPT ![l] = Append(@, [who |-> "person", what |-> what, to |-> to])]
    /\ UNCHANGED <<paired, pairer, forgets, saidRow, age, dropped, verdicts, passes, dealt,
                   torn>>

\* So does anybody else, in a chat of their own with numbers of its own.
StrangerWrites(l, to) ==
    /\ paired.line = l /\ Len(updates[l]) < MaxUpdates
    /\ updates' = [updates EXCEPT ![l] = Append(@, [who |-> "stranger", what |-> "words", to |-> to])]
    /\ UNCHANGED <<paired, pairer, forgets, saidRow, age, chats, dropped, verdicts, passes,
                   dealt, torn>>

AnswersOnScreen(d) ==
    /\ verdicts[d] = Open
    /\ verdicts' = [verdicts EXCEPT ![d].by = "screen"]
    /\ UNCHANGED <<paired, pairer, forgets, saidRow, age, chats, updates, dropped, passes,
                   dealt, torn>>

-----------------------------------------------------------------------------
(* Pairing and unpairing.                                                  *)

\* completePairing, ten minutes at most after beginPairing was given the bot's
\* token, finds the first chat the bot still offers; here the person's.
FindsChat(l) ==
    LET first == dropped[l] + 1 IN
    /\ pairer.pc = "idle" /\ age < MaxAge /\ first <= Len(updates[l])
    /\ updates[l][first].who = "person"
    /\ pairer' = [pc |-> "save", line |-> l, upto |-> first]
    /\ UNCHANGED <<paired, forgets, saidRow, age, chats, updates, dropped, verdicts, passes,
                   dealt, torn>>

Torn == IF \E w \in DOMAIN passes : passes[w].pc # "idle" THEN torn \cup {"pass"} ELSE torn

\* Between the two statements of save the rows are still those of the thread
\* before.
CutShort == IF pairer.pc = "clear" THEN torn \cup {"save"} ELSE torn

\* thread.save writes the connection and then clears what was said; then the
\* cursor passes the Start message.
SavesConnection ==
    /\ pairer.pc = "save"
    /\ paired' = [line |-> pairer.line, cursor |-> 0, from |-> pairer.upto]
    /\ pairer' = [pairer EXCEPT !.pc = "clear"] /\ torn' = Torn
    /\ UNCHANGED <<forgets, saidRow, age, chats, updates, dropped, verdicts, passes, dealt>>

ClearsSaid == saidRow' = [k \in Keys |-> Absent] /\ age' = age + 1

SaveClears ==
    /\ pairer.pc = "clear" /\ ClearsSaid
    /\ pairer' = [pairer EXCEPT !.pc = "mark"]
    /\ UNCHANGED <<paired, forgets, chats, updates, dropped, verdicts, passes, dealt, torn>>

\* markRead: an update of whatever row is there.
Marked(cursor) == IF paired.line = NoLine THEN paired ELSE [paired EXCEPT !.cursor = cursor]

PairingMarks ==
    /\ pairer.pc = "mark"
    /\ paired' = Marked(pairer.upto) /\ pairer' = NoPairer
    /\ UNCHANGED <<forgets, saidRow, age, chats, updates, dropped, verdicts, passes, dealt, torn>>

\* unpair deletes what was said and then the connection, which the database
\* refuses while a row of what was said points at it.
Unpairs ==
    /\ ~ forgets /\ age < MaxAge /\ ClearsSaid /\ forgets' = TRUE
    /\ UNCHANGED <<paired, pairer, chats, updates, dropped, verdicts, passes, dealt, torn>>

DeletesConnection ==
    /\ forgets /\ forgets' = FALSE
    /\ \/ /\ \A k \in Keys : saidRow[k] = Absent
          /\ paired' = Unpaired /\ torn' = Torn
       \/ /\ \E k \in Keys : saidRow[k] # Absent
          /\ UNCHANGED <<paired, torn>>
    /\ UNCHANGED <<pairer, saidRow, age, chats, updates, dropped, verdicts, passes, dealt>>

-----------------------------------------------------------------------------
(* Saying.                                                                 *)

Outstanding == {d \in Decisions : verdicts[d] = Open}

\* sayWhatIsOutstanding, and sayOffer: where to send, and what.
BeginsPass(w) ==
    /\ passes[w].pc = "idle" /\ paired.line # NoLine
    /\ passes' = [passes EXCEPT ![w] = [NoPass EXCEPT !.pc = "claim", !.line = paired.line,
                      !.todo = IF w \in Feeds THEN {"offer"} ELSE Outstanding]]
    /\ torn' = CutShort
    /\ UNCHANGED <<paired, pairer, forgets, saidRow, age, chats, updates, dropped, verdicts,
                   dealt>>

\* claimSend: an insert, which a row of that key refuses, and so does the lack
\* of a connection.
MisClaimable(k) == paired.line # NoLine
Claimable(k) == paired.line # NoLine /\ saidRow[k] = Absent

Claims(w) ==
    /\ passes[w].pc = "claim"
    /\ \E k \in passes[w].todo :
        \/ /\ Claimable(k)
           /\ saidRow' = [saidRow EXCEPT ![k] = 0]
           /\ passes' = [passes EXCEPT ![w].pc = "send", ![w].key = k, ![w].age = age]
        \/ /\ ~ Claimable(k)
           /\ passes' = [passes EXCEPT ![w].todo = @ \ {k}] /\ UNCHANGED saidRow
    /\ UNCHANGED <<paired, pairer, forgets, age, chats, updates, dropped, verdicts, dealt,
                   torn>>

\* The rest of what is to be said.
Resumes(p) == [NoPass EXCEPT !.pc = "claim", !.line = p.line, !.todo = p.todo \ {p.key}]

\* The message arrives and its id is told; or it arrives, or not, and no id is.
Sends(w) ==
    LET p == passes[w]
        delivered == [chats EXCEPT ![p.line] = Append(@, [what |-> p.key, age |-> p.age])]
    IN
    /\ p.pc = "send"
    /\ \/ /\ chats' = delivered
          /\ passes' = [passes EXCEPT ![w].pc = "note", ![w].id = Len(chats[p.line]) + 1]
       \/ /\ chats' \in {chats, delivered}
          /\ passes' = [passes EXCEPT ![w] = Resumes(p)]
    /\ UNCHANGED <<paired, pairer, forgets, saidRow, age, updates, dropped, verdicts, dealt,
                   torn>>

\* noteProviderMessageId, by key.
Notes(w) ==
    LET p == passes[w] IN
    /\ p.pc = "note"
    /\ saidRow' = [saidRow EXCEPT ![p.key] = IF @ = Absent THEN Absent ELSE p.id]
    /\ passes' = [passes EXCEPT ![w] = Resumes(p)]
    /\ UNCHANGED <<paired, pairer, forgets, age, chats, updates, dropped, verdicts, dealt,
                   torn>>

\* An offer is all the app says; a pass of the worker goes on to read.
SaidAll(w) ==
    /\ passes[w].pc = "claim" /\ passes[w].todo = {}
    /\ passes' = [passes EXCEPT ![w] =
           IF w \in Feeds \/ paired.line = NoLine THEN NoPass
           ELSE [NoPass EXCEPT !.pc = "poll", !.line = paired.line, !.since = paired.cursor]]
    /\ UNCHANGED <<paired, pairer, forgets, saidRow, age, chats, updates, dropped, verdicts,
                   dealt, torn>>

-----------------------------------------------------------------------------
(* Reading.                                                                *)

\* getUpdates from past the cursor, which acknowledges what is up to it.  The
\* answer may be lost.
Polls(w) ==
    LET p == passes[w]
        acknowledged == [dropped EXCEPT ![p.line] = Larger(@, p.since)]
    IN
    /\ p.pc = "poll"
    /\ \/ /\ dropped' = acknowledged
          /\ passes' = [passes EXCEPT ![w].pc = "deal", ![w].next = acknowledged[p.line] + 1,
                                      ![w].upto = Len(updates[p.line])]
       \/ /\ dropped' \in {dropped, acknowledged}
          /\ passes' = [passes EXCEPT ![w] = NoPass]
    /\ UNCHANGED <<paired, pairer, forgets, saidRow, age, chats, updates, verdicts, dealt,
                   torn>>

\* The updates the transport keeps: of the paired chat.
MisKept(u) == u.to # 0
Kept(u) == u.who = "person"

\* The keys a reply may be found to answer: those of the message replied to.
AskedBy(u) == IF u.to = 0 THEN {} ELSE {k \in Keys : saidRow[k] = u.to}

Dealt(w, how) ==
    /\ dealt' = dealt \cup {[line |-> passes[w].line, update |-> passes[w].next, how |-> how]}
    /\ passes' = [passes EXCEPT ![w].next = @ + 1]

\* A reply to a question answers it, if nothing has.  Anything else is told it
\* was not followed: a yes is heard only where an offer is open, and this
\* process knows of none.
Deals(w) ==
    LET p == passes[w]
        u == updates[p.line][p.next]
        asked == AskedBy(u)
    IN
    /\ p.pc = "deal" /\ p.next <= p.upto
    /\ \/ ~ Kept(u) /\ Dealt(w, "skipped") /\ UNCHANGED verdicts
       \/ /\ Kept(u)
          /\ \E d \in asked \cap Decisions :
              \/ /\ verdicts[d] = Open /\ Dealt(w, "answered")
                 /\ verdicts' = [verdicts EXCEPT ![d] =
                        [by |-> "thread", line |-> p.line, update |-> p.next]]
              \/ /\ verdicts[d] # Open /\ Dealt(w, "answered") /\ UNCHANGED verdicts
       \/ /\ Kept(u) /\ (asked = {} \/ asked \cap Decisions # asked)
          /\ Dealt(w, "not followed") /\ UNCHANGED verdicts
    /\ UNCHANGED <<paired, pairer, forgets, saidRow, age, chats, updates, dropped, torn>>

\* The cursor passes everything the poll offered, once all of it is dealt with.
MisDone(p) == TRUE
Done(p) == p.next > p.upto

MarksRead(w) ==
    LET p == passes[w]
        cursor == Larger(p.since, p.upto)
    IN
    /\ p.pc = "deal" /\ Done(p)
    /\ paired' = IF cursor = p.since THEN paired ELSE Marked(cursor)
    /\ passes' = [passes EXCEPT ![w] = NoPass]
    /\ UNCHANGED <<pairer, forgets, saidRow, age, chats, updates, dropped, verdicts, dealt,
                   torn>>

-----------------------------------------------------------------------------

WorkerDies ==
    /\ \E w \in Passes : passes[w].pc # "idle"
    /\ passes' = [w \in DOMAIN passes |-> IF w \in Passes THEN NoPass ELSE passes[w]]
    /\ UNCHANGED <<paired, pairer, forgets, saidRow, age, chats, updates, dropped, verdicts,
                   dealt, torn>>

AppDies ==
    /\ passes' = [w \in DOMAIN passes |-> IF w \in Feeds THEN NoPass ELSE passes[w]]
    /\ pairer' = NoPairer /\ forgets' = FALSE /\ torn' = CutShort
    /\ UNCHANGED <<paired, saidRow, age, chats, updates, dropped, verdicts, dealt>>

Tends(w) ==
    \/ BeginsPass(w) \/ Claims(w) \/ Sends(w) \/ Notes(w) \/ SaidAll(w)
    \/ Polls(w) \/ Deals(w) \/ MarksRead(w)

ThreadNext ==
    \/ \E l \in Lines, what \in Texts : \E to \in {0} \cup DOMAIN chats[l] : Writes(l, what, to)
    \/ \E l \in Lines, to \in 1 .. MaxUpdates : StrangerWrites(l, to)
    \/ \E d \in Decisions : AnswersOnScreen(d)
    \/ \E l \in Lines : FindsChat(l)
    \/ SavesConnection \/ SaveClears \/ PairingMarks
    \/ Unpairs \/ DeletesConnection
    \/ \E w \in Passes \cup Feeds : Tends(w)
    \/ WorkerDies \/ AppDies

ThreadSpec == ThreadInit /\ [][ThreadNext]_threadVars

-----------------------------------------------------------------------------

\* Nothing is said twice between two pairings, however passes overlap and
\* whatever of them is lost.
SaidOnce ==
    \A l, m \in Lines : \A i \in 1 .. Len(chats[l]), j \in 1 .. Len(chats[m]) :
        /\ chats[l][i] = chats[m][j] /\ chats[l][i].what # "theirs"
        => l = m /\ i = j

\* While no pairing changes under a pass, and no save of one is cut short or
\* overtaken by a pass, an answer given on the phone lands on the question that
\* the person's message replied to.
AnswersLandWhereAimed ==
    torn = {} => \A d \in Decisions : verdicts[d].by = "thread" =>
        LET u == updates[verdicts[d].line][verdicts[d].update] IN
        u.who = "person" /\ u.to # 0 /\ chats[verdicts[d].line][u.to].what = d

\* While no pairing changes under a pass, what the person wrote after pairing is
\* dealt with before the cursor, or the provider, is past it, whatever dies.
RepliesAreKept ==
    "pass" \notin torn /\ paired.line # NoLine =>
        \A i \in paired.from + 1 .. Larger(paired.cursor, dropped[paired.line]) :
            \E e \in dealt : e.line = paired.line /\ e.update = i

\* A yes in reply to an offer, which the offer asks for, is taken for one.
OfferYesIsTaken ==
    \A e \in dealt : e.how = "not followed" =>
        LET u == updates[e.line][e.update] IN
        ~ (u.what = "yes" /\ u.to # 0 /\ chats[e.line][u.to].what = "offer")

=============================================================================
