----------------------------- MODULE ShiftReview -----------------------------
(***************************************************************************)
(* What a shift wrote for a document, from the run that wrote it to the    *)
(* version it becomes: recordOutcomes (server/outcomes/index.ts), the      *)
(* verdicts and finishShift (server/actions.ts), saveDocument beside them, *)
(* and the rows they share (persistence/repositories/index.ts).            *)
(*                                                                         *)
(* The document is never locked: the person saves while a shift runs and   *)
(* while another window decides or finishes.  A contract may carry more    *)
(* than one run, and so more than one changeset; the review is of the      *)
(* newest.  None of the statements below share a transaction; the rows'    *)
(* unique keys (document and ordinal, changeset settled, change decided)   *)
(* are what holds them together.                                           *)
(***************************************************************************)
EXTENDS Changesets, FiniteSets

CONSTANTS
    Bases,         \* texts the document may start as, in lines
    Prose,         \* what a run may write for a section, in lines
    Edits,         \* texts the person may save
    Windows,       \* windows the person has open
    MaxVersions,   \* bound on versions
    MaxProposed    \* bound on the changes of all changesets

\* What may stand on a line, and the Break between two.
Words ==
    {Blank, Break, "edited"} \cup Headings \cup UNION {Range(lines) : lines \in Bases \cup Prose}

ASSUME ReviewConstants ==
    \A lines \in Bases \cup Prose : lines \in Seq(Words \ {Break})

VARIABLES
    versions,     \* the document: [text, from] by ordinal, from 0 if saved
    changesets,   \* of the contract, oldest first
    writing,      \* the lines a run is putting on record
    answer,       \* the shift's other held outcome
    windows       \* what each window is in the middle of

reviewVars == <<versions, changesets, writing, answer, windows>>

Idle == [pc |-> "idle"]
Nothing == <<>>

ReviewInit ==
    /\ \E lines \in Bases : versions = <<[text |-> Text(lines), from |-> 0]>>
    /\ changesets = <<>> /\ writing = Nothing /\ answer = "none"
    /\ windows = [w \in Windows |-> Idle]

\* The contract is pinned to the version it was drafted against.
Base == versions[1].text

Settled(c) == \E i \in 1 .. Len(versions) : versions[i].from = c
Newest == Len(changesets)
AllDecided(c) == \A k \in DOMAIN changesets[c].verdicts : changesets[c].verdicts[k] # "none"

Proposed == Len(FlattenSeq([c \in 1 .. Newest |-> changesets[c].changes]))

Goto(w, state) == windows' = [windows EXCEPT ![w] = state]

-----------------------------------------------------------------------------
(* The run.                                                                *)

\* recordOutcomes: the rows of everything produced come first, in one
\* transaction; prose that changes nothing is no row.
RecordOutcomes(heading, prose, answered) ==
    /\ writing = Nothing /\ Proposed < MaxProposed
    /\ LET proposed == WithSection(LinesOf(Base), heading, prose)
           changes == Diff(LinesOf(Base), proposed)
       IN  /\ changes # <<>>
           /\ Proposed + Len(changes) <= MaxProposed
           /\ writing' = proposed
    /\ answer' = IF answered /\ answer = "none" THEN "undecided" ELSE answer
    /\ UNCHANGED <<versions, changesets, windows>>

\* documentChanges' attach.
AttachChanges ==
    /\ writing # Nothing
    /\ LET changes == Diff(LinesOf(Base), writing)
       IN  changesets' = Append(changesets,
             [proposed |-> writing, changes |-> changes,
              verdicts |-> [k \in 1 .. Len(changes) |-> "none"]])
    /\ writing' = Nothing
    /\ UNCHANGED <<versions, answer, windows>>

\* The process dies before the changes are attached to their outcome.
RunDies ==
    /\ writing # Nothing
    /\ writing' = Nothing
    /\ UNCHANGED <<versions, changesets, answer, windows>>

-----------------------------------------------------------------------------
(* Deciding.                                                               *)

\* recordVerdict: asked whether the change is in the document already ...
DecideReads(w, c, k, verdict) ==
    /\ windows[w] = Idle
    /\ c \in 1 .. Newest /\ k \in DOMAIN changesets[c].verdicts
    /\ ~ Settled(c)
    /\ Goto(w, [pc |-> "deciding", changeset |-> c, change |-> k, verdict |-> verdict])
    /\ UNCHANGED <<versions, changesets, writing, answer>>

\* ... and then written, unless the change has a verdict.
DecideWrites(w) ==
    /\ windows[w].pc = "deciding"
    /\ LET c == windows[w].changeset  k == windows[w].change
       IN  changesets' = IF changesets[c].verdicts[k] = "none"
                           THEN [changesets EXCEPT ![c].verdicts[k] = windows[w].verdict]
                           ELSE changesets
    /\ Goto(w, Idle)
    /\ UNCHANGED <<versions, writing, answer>>

\* recordOutcomeVerdict, of the outcome that is not about the document.
DecideOutcome ==
    /\ answer = "undecided"
    /\ answer' = "decided"
    /\ UNCHANGED <<versions, changesets, writing, windows>>

-----------------------------------------------------------------------------
(* Saving.                                                                 *)

\* addVersion: the next ordinal is read, and the row created under it; two
\* that read the same one cannot both be created.
TakesOrdinal(w, from, text) ==
    Goto(w, [pc |-> "writing", ordinal |-> Len(versions) + 1, from |-> from, text |-> text])

AddVersion(w) ==
    /\ windows[w].pc = "writing"
    /\ LET row == [text |-> windows[w].text, from |-> windows[w].from]
           taken == \/ windows[w].ordinal # Len(versions) + 1
                    \/ row.from # 0 /\ Settled(row.from)
       IN  versions' = IF taken THEN versions ELSE Append(versions, row)
    /\ Goto(w, Idle)
    /\ UNCHANGED <<changesets, writing, answer>>

SaveReads(w, lines) ==
    /\ windows[w] = Idle /\ Len(versions) < MaxVersions
    /\ ~ SameText(versions[Len(versions)].text, Text(lines))
    /\ Goto(w, [pc |-> "saving", text |-> Text(lines)])
    /\ UNCHANGED <<versions, changesets, writing, answer>>

SaveOrders(w) ==
    /\ windows[w].pc = "saving"
    /\ TakesOrdinal(w, 0, windows[w].text)
    /\ UNCHANGED <<versions, changesets, writing, answer>>

-----------------------------------------------------------------------------
(* Finishing.                                                              *)

MisMayFinish(c) == ~ Settled(c) /\ answer # "undecided"

\* finishShift, up to what it refuses while anything held is undecided.
MayFinish(c) ==
    /\ ~ Settled(c)
    /\ AllDecided(c) /\ answer # "undecided"

FinishReads(w) ==
    /\ windows[w] = Idle /\ Newest > 0 /\ Len(versions) < MaxVersions
    /\ MayFinish(Newest)
    /\ Goto(w, [pc |-> "finishing", from |-> Newest, set |-> changesets[Newest]])
    /\ UNCHANGED <<versions, changesets, writing, answer>>

\* The person's own edit refuses the whole changeset.
FinishChecks(w) ==
    /\ windows[w].pc = "finishing"
    /\ IF SameText(versions[Len(versions)].text, Base)
         THEN Goto(w, [windows[w] EXCEPT !.pc = "folding"])
         ELSE Goto(w, Idle)
    /\ UNCHANGED <<versions, changesets, writing, answer>>

FinishOrders(w) ==
    /\ windows[w].pc = "folding"
    /\ TakesOrdinal(w, windows[w].from,
                    Materialise(Base, windows[w].set.changes, windows[w].set.verdicts))
    /\ UNCHANGED <<versions, changesets, writing, answer>>

-----------------------------------------------------------------------------
ReviewNext ==
    \/ \E heading \in Headings, prose \in Prose, answered \in BOOLEAN :
          RecordOutcomes(heading, prose, answered)
    \/ AttachChanges \/ RunDies \/ DecideOutcome
    \/ \E w \in Windows :
        \/ \E c \in 1 .. Newest : \E k \in DOMAIN changesets[c].verdicts,
              verdict \in {"accept", "reject", "edit"} : DecideReads(w, c, k, verdict)
        \/ DecideWrites(w) \/ AddVersion(w)
        \/ \E lines \in Edits : SaveReads(w, lines)
        \/ SaveOrders(w) \/ FinishReads(w) \/ FinishChecks(w) \/ FinishOrders(w)

ReviewSpec == ReviewInit /\ [][ReviewNext]_reviewVars

-----------------------------------------------------------------------------
(* However many windows finish, decide and save at once, a changeset is    *)
(* put into the document at most once, with every change decided, and what *)
(* goes in is the fold of the verdicts that are on record: none lands      *)
(* after the fold it should have counted in (finishShift, recordVerdict,   *)
(* committedFromChangesetId).                                              *)
FoldsWhatWasDecided ==
    \A i \in 1 .. Len(versions) : LET c == versions[i].from IN
        c # 0 => /\ \A j \in 1 .. Len(versions) : versions[j].from = c => j = i
                 /\ AllDecided(c)
                 /\ versions[i].text = Materialise(Base, changesets[c].changes,
                                                   changesets[c].verdicts)

\* What the decisions make of a text, from left to right: what is between two
\* changes stays, and each change is as it quotes it or as it is decided.
Reading(text, changes, verdicts) ==
    LET endOf(k) == IF k = 0 THEN 0 ELSE changes[k].end
        upTo[k \in 0 .. Len(changes)] ==
          IF k = 0 THEN <<>>
          ELSE upTo[k - 1]
                 \o SubSeq(text, endOf(k - 1) + 1, changes[k].start)
                 \o (IF verdicts[k] = "reject" THEN changes[k].exact
                     ELSE Put(changes[k], verdicts[k]))
    IN  upTo[Len(changes)] \o SubSeq(text, endOf(Len(changes)) + 1, Len(text))

\* Every change quotes the base it is a change of, and no two overlap.
Anchored(changes) ==
    \A k \in 1 .. Len(changes) :
        /\ changes[k].exact = SubSeq(Base, changes[k].start + 1, changes[k].end)
        /\ \A j \in k + 1 .. Len(changes) : changes[k].end <= changes[j].start

\* No two changes begin at one place.  At the end of the text two may: what is
\* put before a blank line it ends with, and what is put after (changeset.ts:229).
OneAtAPlace(changes) ==
    \A j, k \in 1 .. Len(changes) : j # k => changes[j].start # changes[k].start

\* A verdict touches its own change and nothing else: whatever is decided, in
\* whatever order, everything that was not replaced stays where it was and
\* every replacement stands in its own place, at the text it quotes; two
\* changes that begin at one place are put in the other way round, and are no
\* part of this (changeset.ts:215-274).
DecisionsAreLocal ==
    /\ \A c \in 1 .. Newest : Anchored(changesets[c].changes)
    /\ \A i \in 1 .. Len(versions) : LET c == versions[i].from IN
        c # 0 /\ OneAtAPlace(changesets[c].changes)
          => versions[i].text = Reading(Base, changesets[c].changes, changesets[c].verdicts)

\* "accepting everything reproduces the worker prose"
\* (tests/document-engine.test.ts:197).
AcceptingEverythingReproducesTheProse ==
    \A c \in 1 .. Newest : LET set == changesets[c] IN
        Materialise(Base, set.changes, [k \in 1 .. Len(set.changes) |-> "accept"])
          = Text(set.proposed)

=============================================================================
