---------------------------- MODULE AmbientOffers ----------------------------
(***************************************************************************)
(* What happens between sessions: the app holds the last half hour of what *)
(* was browsed in memory (ambient-store.ts), and the extension's poll      *)
(* (api/session/current/route.ts) looks for a strand of work in it, has a  *)
(* model name it (name-thread.ts) and compose an offer about it            *)
(* (compose-offer.ts).  The person may say no to a strand or accept it     *)
(* (actions.ts), and accepting empties the buffer.                         *)
(*                                                                         *)
(* A model call takes some fifteen seconds, so its answer may find another *)
(* buffer than the one it was asked about.  "generation" counts the        *)
(* buffers; a name and an offer are what they are about: the generation    *)
(* they were asked in.                                                     *)
(***************************************************************************)
EXTENDS Integers, FiniteSets

CONSTANTS
    Threads,      \* strands of work, by their signatures
    Pages,        \* the pages of each: a function from Threads to sets
    MaxShown,     \* MAX_THREADS_SHOWN
    MaxBuffers,   \* bound on sessions started, and so on buffers
    MaxDeclines   \* bound on the noes counted

G == INSTANCE Grounds

ComposeAttempts == 2   \* COMPOSE_ATTEMPTS

VARIABLES
    held,             \* the pages in the buffer, of each strand
    generation,       \* how often the buffer has been emptied
    names,            \* what each strand is called
    naming,           \* strands whose name is being asked for
    attemptedNames,   \* strands whose name has been asked for
    offers,           \* the offer about each strand
    composing,        \* strands whose offer is being composed
    attemptedOffers,  \* strands whose offer has been asked for
    remembered,       \* the pages a strand had when it was last shown
    snoozed,          \* strands declined within the snooze
    declines,         \* the durable count of noes of each strand
    sitting,             \* is a session running?
    posting,          \* has a batch passed the route's check for a session?
    poll,             \* a poll that waits for the database
    nameCalls,        \* calls to the naming model
    offerCalls,       \* calls to the composing model
    asked,            \* paid calls about each strand since the buffer was emptied
    screen,           \* the accept screen the person has open
    accepting,        \* the accept under way
    intention         \* the offer whose purpose was last put on record

store == <<held, generation, names, naming, attemptedNames, offers, composing,
           attemptedOffers, remembered, snoozed>>
calls == <<nameCalls, offerCalls, asked>>
person == <<screen, accepting, intention>>
offersVars == <<store, declines, sitting, posting, poll, calls, person>>

NoName == [of |-> -1, confident |-> FALSE]
NoOffer == -1
NoPoll == [of |-> -1, pages |-> [t \in Threads |-> {}]]
NoScreen == "none"
NoAccept == [pc |-> "none", thread |-> NoScreen, offer |-> NoOffer]
NotAsked == [t \in Threads |-> [name |-> 0, offer |-> 0]]

OffersInit ==
    /\ held = [t \in Threads |-> {}] /\ generation = 0
    /\ names = [t \in Threads |-> NoName] /\ naming = {} /\ attemptedNames = {}
    /\ offers = [t \in Threads |-> NoOffer] /\ composing = {} /\ attemptedOffers = {}
    /\ remembered = [t \in Threads |-> {}] /\ snoozed = {}
    /\ declines = [t \in Threads |-> 0]
    /\ sitting = FALSE /\ posting = FALSE /\ poll = NoPoll
    /\ nameCalls = {} /\ offerCalls = {} /\ asked = NotAsked
    /\ screen = NoScreen /\ accepting = NoAccept /\ intention = NoOffer

-----------------------------------------------------------------------------
(* Browsing.  The route refuses a batch while a session runs; the body is  *)
(* read between that check and the record.                                 *)

BatchArrives ==
    /\ ~sitting /\ ~posting
    /\ posting' = TRUE
    /\ UNCHANGED <<store, declines, sitting, poll, calls, person>>

BatchLands ==
    /\ posting
    /\ posting' = FALSE
    /\ \E t \in Threads : \E p \in Pages[t] :
          held' = [held EXCEPT ![t] = @ \cup {p}]
    /\ UNCHANGED <<generation, names, naming, attemptedNames, offers, composing,
                   attemptedOffers, remembered, snoozed, declines, sitting, poll, calls, person>>

\* A page leaves the window of half an hour.
Trim ==
    /\ \E t \in Threads : \E p \in held[t] : held' = [held EXCEPT ![t] = @ \ {p}]
    /\ UNCHANGED <<generation, names, naming, attemptedNames, offers, composing,
                   attemptedOffers, remembered, snoozed, declines, sitting, posting, poll,
                   calls, person>>

-----------------------------------------------------------------------------
(* The poll.  It reads the buffer, waits for the database, and then works  *)
(* on what it read, and on the store as it is by then.                     *)

PollReads ==
    /\ ~sitting /\ poll = NoPoll
    /\ poll' = [of |-> generation, pages |-> held]
    /\ UNCHANGED <<store, declines, sitting, posting, calls, person>>

\* noticedAfternoon: strands neither snoozed nor held back by earlier noes.
\* What makes pages a strand is left to the detector.
Noticed(pages) ==
    {t \in Threads : /\ pages[t] # {} /\ t \notin snoozed
                     /\ declines[t] > 0 => G!Sufficient(pages[t], declines[t])}

\* composeOffer's grounds: the strand's pages that are still held.
MayCompose(t) ==
    /\ names[t].confident /\ offers[t] = NoOffer
    /\ G!Sufficient(held[t] \cap poll.pages[t], declines[t])
    /\ t \notin attemptedOffers

MisStartComposing(t) == composing' = composing \cup {t} /\ UNCHANGED attemptedOffers
StartComposing(t) ==
    /\ composing' = composing \cup {t}
    /\ attemptedOffers' = attemptedOffers \cup {t}

\* nameThread and composeOffer up to their first await.
PollShows ==
    /\ poll # NoPoll
    /\ poll' = NoPoll
    /\ \/ UNCHANGED <<store, calls>>   \* no strand, or waits that come first
       \/ \E shown \in SUBSET Noticed(poll.pages) : \E lead \in shown :
            LET unnamed == {t \in shown : names[t] = NoName /\ t \notin attemptedNames}
                composes == {lead} \cap {t \in Threads : MayCompose(t)}
            IN  /\ Cardinality(shown) <= MaxShown
                /\ remembered' = [t \in Threads |-> IF t \in shown THEN poll.pages[t]
                                                                   ELSE remembered[t]]
                /\ naming' = naming \cup unnamed
                /\ attemptedNames' = attemptedNames \cup unnamed
                /\ nameCalls' = nameCalls \cup [thread : unnamed, of : {generation}]
                /\ IF composes = {} THEN UNCHANGED <<composing, attemptedOffers>>
                                    ELSE StartComposing(lead)
                /\ offerCalls' = offerCalls \cup [thread : composes, of : {generation},
                                                  attempt : {1}]
                /\ asked' = [t \in Threads |->
                      [name |-> asked[t].name + (IF t \in unnamed THEN 1 ELSE 0),
                       offer |-> asked[t].offer + (IF t \in composes THEN 1 ELSE 0)]]
                /\ UNCHANGED <<held, generation, names, offers, snoozed>>
    /\ UNCHANGED <<declines, sitting, posting, person>>

-----------------------------------------------------------------------------
(* The models answer.                                                      *)

MisFinishNaming(t) ==
    /\ naming' = naming \ {t}
    /\ attemptedNames' = attemptedNames \cup {t}

\* Only a strand whose name is being asked for has been attempted.
FinishNaming(t) ==
    /\ naming' = naming \ {t}
    /\ attemptedNames' = IF t \in naming THEN attemptedNames \cup {t} ELSE attemptedNames

\* A name is taken if the strand's marker is set, whichever call set it.
NameArrives(c) ==
    /\ nameCalls' = nameCalls \ {c}
    /\ \E confident \in BOOLEAN :
          names' = IF c.thread \in naming
                     THEN [names EXCEPT ![c.thread] = [of |-> c.of, confident |-> confident]]
                     ELSE names
    /\ FinishNaming(c.thread)
    /\ UNCHANGED <<held, generation, offers, composing, attemptedOffers, remembered, snoozed,
                   declines, sitting, posting, poll, offerCalls, asked, person>>

NameFails(c) ==
    /\ nameCalls' = nameCalls \ {c}
    /\ FinishNaming(c.thread)
    /\ UNCHANGED <<held, generation, names, offers, composing, attemptedOffers, remembered,
                   snoozed, declines, sitting, posting, poll, offerCalls, asked, person>>


\* Is the buffer an offer was asked about still the one that is held?
SameBuffer(c) == c.of = generation

FinishComposing(t) ==
    /\ composing' = composing \ {t}
    /\ attemptedOffers' = IF t \in composing THEN attemptedOffers \cup {t} ELSE attemptedOffers

OfferArrives(c) ==
    /\ offerCalls' = offerCalls \ {c}
    /\ IF SameBuffer(c)
         THEN /\ offers' = IF c.thread \in composing
                             THEN [offers EXCEPT ![c.thread] = c.of] ELSE offers
              /\ FinishComposing(c.thread)
         ELSE UNCHANGED <<offers, composing, attemptedOffers>>
    /\ UNCHANGED <<held, generation, names, naming, attemptedNames, remembered, snoozed,
                   declines, sitting, posting, poll, nameCalls, asked, person>>

\* The model answered that it would not, or the call failed for good.
OfferRefused(c) ==
    /\ offerCalls' = offerCalls \ {c}
    /\ IF SameBuffer(c)
         THEN FinishComposing(c.thread)
         ELSE UNCHANGED <<composing, attemptedOffers>>
    /\ UNCHANGED <<held, generation, names, naming, attemptedNames, offers, remembered,
                   snoozed, declines, sitting, posting, poll, nameCalls, asked, person>>

\* The call did not get through; it is made again, and paid for again.
OfferRetried(c) ==
    /\ c.attempt < ComposeAttempts /\ SameBuffer(c)
    /\ offerCalls' = (offerCalls \ {c}) \cup {[c EXCEPT !.attempt = @ + 1]}
    /\ asked' = [asked EXCEPT ![c.thread].offer = @ + 1]
    /\ UNCHANGED <<store, declines, sitting, posting, poll, nameCalls, person>>

-----------------------------------------------------------------------------
(* The person.                                                             *)

\* declineThread, and the count that outlives the process, which may be lost.
Decline(t) ==
    /\ ~sitting /\ remembered[t] # {}
    /\ snoozed' = snoozed \cup {t}
    /\ held' = [held EXCEPT ![t] = {}]
    /\ \/ /\ declines[t] < MaxDeclines
          /\ declines' = [declines EXCEPT ![t] = @ + 1]
       \/ UNCHANGED declines
    /\ UNCHANGED <<generation, names, naming, attemptedNames, offers, composing,
                   attemptedOffers, remembered, sitting, posting, poll, calls, person>>

SnoozeEnds(t) ==
    /\ t \in snoozed
    /\ snoozed' = snoozed \ {t}
    /\ UNCHANGED <<held, generation, names, naming, attemptedNames, offers, composing,
                   attemptedOffers, remembered, declines, sitting, posting, poll, calls, person>>

\* The sites an accepted strand would be watched on: of its pages, those held.
Observed(t) == remembered[t] \cap held[t]

\* The accept screen of a strand, drawn once: offerForThread.
OpenScreen(t) ==
    /\ Observed(t) # {}
    /\ screen' = t
    /\ UNCHANGED <<store, declines, sitting, posting, poll, calls, accepting, intention>>

\* acceptWorkOffer reads the offer again, which may not be the one that was drawn.
Accept ==
    /\ screen # NoScreen /\ accepting = NoAccept
    /\ accepting' = [pc |-> "reading", thread |-> screen, offer |-> offers[screen]]
    /\ screen' = NoScreen
    /\ UNCHANGED <<store, declines, sitting, posting, poll, calls, intention>>

\* startFromSuggestion, up to the session: refused if one runs or nothing is
\* held; a project without a purpose is given the offer's.
AcceptStarts ==
    /\ accepting.pc = "reading"
    /\ IF sitting \/ Observed(accepting.thread) = {}
         THEN accepting' = NoAccept /\ UNCHANGED <<sitting, intention, declines>>
         ELSE /\ generation < MaxBuffers
              /\ accepting' = [accepting EXCEPT !.pc = "started"]
              /\ sitting' = TRUE
              /\ declines' = [declines EXCEPT ![accepting.thread] = 0]
              /\ \E stated \in BOOLEAN :
                    intention' = IF stated \/ accepting.offer = NoOffer THEN intention
                                 ELSE accepting.offer
    /\ UNCHANGED <<store, posting, poll, calls, screen>>

\* AmbientStore.clear, once the pages seen have been carried over.
Clear ==
    /\ generation' = generation + 1
    /\ held' = [t \in Threads |-> {}]
    /\ names' = [t \in Threads |-> NoName] /\ naming' = {} /\ attemptedNames' = {}
    /\ offers' = [t \in Threads |-> NoOffer] /\ composing' = {} /\ attemptedOffers' = {}
    /\ remembered' = [t \in Threads |-> {}]
    /\ UNCHANGED snoozed

AcceptClears ==
    /\ accepting.pc = "started"
    /\ accepting' = NoAccept
    /\ Clear
    /\ asked' = NotAsked
    /\ UNCHANGED <<declines, sitting, posting, poll, nameCalls, offerCalls, screen, intention>>

SessionEnds ==
    /\ sitting
    /\ sitting' = FALSE
    /\ UNCHANGED <<store, declines, posting, poll, calls, person>>

-----------------------------------------------------------------------------
OffersNext ==
    \/ BatchArrives \/ BatchLands \/ Trim
    \/ PollReads \/ PollShows
    \/ \E c \in nameCalls : NameArrives(c) \/ NameFails(c)
    \/ \E c \in offerCalls : OfferArrives(c) \/ OfferRefused(c) \/ OfferRetried(c)
    \/ \E t \in Threads : Decline(t) \/ SnoozeEnds(t) \/ OpenScreen(t)
    \/ Accept \/ AcceptStarts \/ AcceptClears \/ SessionEnds

OffersSpec == OffersInit /\ [][OffersNext]_offersVars

-----------------------------------------------------------------------------
\* An offer that is held was asked for from the buffer that is held, and a strand
\* that will not be asked about again was asked about in it: a call whose buffer
\* was emptied leaves no trace, neither its offer nor its failure, even where the
\* same strand has been met again (compose-offer.ts:396, ambient-store.ts:718-761).
OffersAreOfThisBuffer ==
    /\ \A t \in Threads : offers[t] \in {NoOffer, generation}
    /\ \A t \in attemptedNames : asked[t].name > 0
    /\ \A t \in attemptedOffers : asked[t].offer > 0

\* However polls, retries, lost calls and emptied buffers interleave, a strand
\* costs at most one call for its name and two for its offer as long as the
\* buffer is held (name-thread.ts:54, compose-offer.ts:289, 371).
PaidCallsAreBounded ==
    \A t \in Threads : asked[t].name <= 1 /\ asked[t].offer <= ComposeAttempts

=============================================================================
