------------------------------- MODULE Handoff -------------------------------
(***************************************************************************)
(* From a sitting to a shift: where a sitting is filed, the agreement that *)
(* is drafted from it, and the ratification that queues a run              *)
(* (server/actions.ts: refileSession, splitIntoNewProject, draftContract,  *)
(* acceptContract, endSession, deleteProject; persistence/repositories and *)
(* the triggers beside them).                                              *)
(*                                                                         *)
(* Each request reads, waits (for a model, or for the database) and writes *)
(* in separate statements, and several windows have requests under way at  *)
(* once.  What the database refuses (a row whose parent is gone, an update *)
(* of an accepted contract) throws, and the request ends there.            *)
(*                                                                         *)
(* A project has at most one Intention, named here by its project; its     *)
(* document is named the same way.  One site stands for the sources.       *)
(***************************************************************************)
EXTENDS Integers, Sequences

CONSTANTS
    Projects,      \* ids of projects, of which
    First,         \* the sitting starts in this one
    NoProject,
    Callers,       \* requests that may be under way at once
    MaxContracts,  \* bound on contracts
    MaxClicks      \* bound on the requests made

ASSUME HandoffConstants ==
    /\ First \in Projects /\ NoProject \notin Projects
    /\ MaxContracts \in Nat /\ MaxClicks \in Nat

VARIABLES
    filing,     \* each project: its row, Intention, document and site
    session,    \* the sitting: where it is filed, its Intention and phase
    beside,     \* whether another sitting is filed in the first project
    expects,    \* whether the sitting's offer expects a document
    contracts,  \* drafted from the sitting, oldest first
    shifts,     \* the contract of each worker run enqueued by a ratification
    acting,     \* what each request is in the middle of
    clicks      \* the requests made

handoffVars == <<filing, session, beside, expects, contracts, shifts, acting, clicks>>

Waiting == [pc |-> "idle"]
Unfiled == [row |-> "new", stated |-> FALSE, document |-> FALSE, site |-> "none"]
Gone == [project |-> NoProject, intention |-> NoProject, phase |-> "ended"]

Filed(p) == p \in Projects /\ filing[p].row = "filed"
SessionThere == session.project # NoProject

\* The Intention a sitting is given with its project: that project's, if one
\* was stated.
IntentionOf(p) == IF filing[p].stated THEN p ELSE NoProject

HandoffInit ==
    /\ filing \in [Projects -> [row : {"new", "filed"}, stated : BOOLEAN,
                                document : BOOLEAN, site : {"none", "granted"}]]
    /\ filing[First].row = "filed"
    /\ \A p \in Projects : filing[p].row = "new" => filing[p] = Unfiled
    /\ session = [project |-> First, intention |-> IntentionOf(First), phase |-> "observing"]
    /\ beside \in BOOLEAN /\ expects \in BOOLEAN
    /\ contracts = <<>> /\ shifts = <<>>
    /\ acting = [w \in Callers |-> Waiting] /\ clicks = 0

Click == clicks < MaxClicks /\ clicks' = clicks + 1
CallGoes(w, call) == acting' = [acting EXCEPT ![w] = call]
Fails(w) == CallGoes(w, Waiting) /\ UNCHANGED <<filing, session, contracts, shifts>>

-----------------------------------------------------------------------------
(* Sites and documents.                                                    *)

ApproveSite(p) ==
    /\ Filed(p) /\ filing[p].site # "granted" /\ Click
    /\ filing' = [filing EXCEPT ![p].site = "granted"]
    /\ UNCHANGED <<session, beside, expects, contracts, shifts, acting>>

\* Chrome's withdrawal is mirrored on the project of the sitting.
RevokeSite ==
    /\ session.phase # "ended" /\ filing[session.project].site = "granted" /\ Click
    /\ filing' = [filing EXCEPT ![session.project].site = "revoked"]
    /\ UNCHANGED <<session, beside, expects, contracts, shifts, acting>>

CreateDocument(p) ==
    /\ Filed(p) /\ ~ filing[p].document /\ Click
    /\ filing' = [filing EXCEPT ![p].document = TRUE]
    /\ UNCHANGED <<session, beside, expects, contracts, shifts, acting>>

-----------------------------------------------------------------------------
(* Filing.                                                                 *)

\* carrySourcesAcross, as far as it reads: an open sitting takes what is
\* granted where it was, any takes what it was recorded against, and what the
\* destination has withdrawn stays withdrawn.
Carries(from, to) ==
    /\ filing[from].site # "none"
    /\ from = First \/ (session.phase # "ended" /\ filing[from].site = "granted")
    /\ filing[to].site # "revoked"

RefileReads(w, to) ==
    /\ acting[w] = Waiting /\ Click
    /\ SessionThere /\ Filed(to) /\ session.project # to
    /\ CallGoes(w, [pc |-> "carrying", to |-> to, split |-> FALSE,
                    carries |-> Carries(session.project, to)])
    /\ UNCHANGED <<filing, session, beside, expects, contracts, shifts>>

\* A sitting that is not alone leaves for a project of its own.
SplitReads(w, to) ==
    /\ acting[w] = Waiting /\ Click
    /\ session.project = First /\ beside
    /\ filing[to].row = "new"
    /\ filing' = [filing EXCEPT ![to].row = "filed"]
    /\ CallGoes(w, [pc |-> "carrying", to |-> to, split |-> TRUE,
                    carries |-> Carries(First, to)])
    /\ UNCHANGED <<session, beside, expects, contracts, shifts>>

CarriesSite(w) ==
    /\ acting[w].pc = "carrying"
    /\ LET to == acting[w].to IN
       IF acting[w].carries /\ ~ Filed(to) THEN Fails(w)
       ELSE /\ filing' = IF acting[w].carries
                           THEN [filing EXCEPT ![to].site = "granted"] ELSE filing
            /\ CallGoes(w, [acting[w] EXCEPT !.pc = "moving"])
            /\ UNCHANGED <<session, contracts, shifts>>
    /\ UNCHANGED <<beside, expects, clicks>>

\* A move answers for the Intention too: the destination's own, or none.
MisIntentionAfter(to) == session.intention
IntentionAfter(to) == IntentionOf(to)

Moves(w) ==
    /\ acting[w].pc = "moving"
    /\ LET to == acting[w].to IN
       IF ~ SessionThere \/ ~ Filed(to) THEN Fails(w)
       ELSE /\ session' = [session EXCEPT !.project = to,
                  !.intention = IF acting[w].split THEN NoProject ELSE IntentionAfter(to)]
            /\ CallGoes(w, IF acting[w].split THEN [acting[w] EXCEPT !.pc = "skeleton"]
                                              ELSE Waiting)
            /\ UNCHANGED <<filing, contracts, shifts>>
    /\ UNCHANGED <<beside, expects, clicks>>

\* The new project is given something to work in.
SplitWritesSkeleton(w) ==
    /\ acting[w].pc = "skeleton"
    /\ filing' = IF Filed(acting[w].to) THEN [filing EXCEPT ![acting[w].to].document = TRUE]
                                        ELSE filing
    /\ CallGoes(w, Waiting)
    /\ UNCHANGED <<session, beside, expects, contracts, shifts, clicks>>

EndSitting ==
    /\ SessionThere /\ session.phase # "ended" /\ Click
    /\ session' = [session EXCEPT !.phase = "ended"]
    /\ UNCHANGED <<filing, beside, expects, contracts, shifts, acting>>

-----------------------------------------------------------------------------
(* Drafting.                                                               *)

\* What a contract with this dial may grant: research only takes every kind
\* that changes something, a purchase the person was shown comes back in.
KindsFor(output, purchase) ==
    IF output = "suggestions-only" THEN {"look"}
    ELSE {"look", "change"} \cup {k \in {"complete-purchase"} : purchase}

Contract(intention, base, output, purchase, kinds, of) ==
    [intention |-> intention, base |-> base, output |-> output, purchase |-> purchase,
     kinds |-> kinds, of |-> of, status |-> "draft", under |-> NoProject]

\* A contract's row needs its sitting, its Intention and its document's rows.
MayCreate(intention, base) ==
    /\ SessionThere
    /\ intention = NoProject \/ Filed(intention)
    /\ base = NoProject \/ Filed(base)

\* The sitting's row is read once, the document only if this shift is for one;
\* then the model is asked.
DraftReads(w) ==
    /\ acting[w] = Waiting /\ Click /\ SessionThere
    /\ LET p == session.project IN
       CallGoes(w, [pc |-> "drafting", project |-> p, intention |-> session.intention,
                    base |-> IF expects /\ filing[p].document THEN p ELSE NoProject])
    /\ UNCHANGED <<filing, session, beside, expects, contracts, shifts>>

\* No source was seen, no key, or an answer that cannot be used.
DraftRefused(w) ==
    /\ acting[w].pc = "drafting"
    /\ Fails(w)
    /\ UNCHANGED <<beside, expects, clicks>>

\* The document is created after everything that can refuse.
DraftWritesSkeleton(w) ==
    /\ acting[w].pc = "drafting" /\ expects /\ acting[w].base = NoProject
    /\ LET p == acting[w].project IN
       IF ~ Filed(p) THEN Fails(w)
       ELSE /\ filing' = [filing EXCEPT ![p].document = TRUE]
            /\ CallGoes(w, [acting[w] EXCEPT !.base = p])
            /\ UNCHANGED <<session, contracts, shifts>>
    /\ UNCHANGED <<beside, expects, clicks>>

\* The draft grants what can be granted without a purchase, which is only
\* written into its columns.
DraftWrites(w) ==
    /\ acting[w].pc = "drafting" /\ ~ (expects /\ acting[w].base = NoProject)
    /\ IF ~ MayCreate(acting[w].intention, acting[w].base) THEN Fails(w)
       ELSE /\ Len(contracts) < MaxContracts
            /\ \E purchase \in BOOLEAN :
                  contracts' = Append(contracts,
                      Contract(acting[w].intention, acting[w].base, "draft-changes", purchase,
                               KindsFor("draft-changes", FALSE), Len(contracts) + 1))
            /\ CallGoes(w, Waiting)
            /\ UNCHANGED <<filing, session, shifts>>
    /\ UNCHANGED <<beside, expects, clicks>>

-----------------------------------------------------------------------------
(* Ratifying.                                                              *)

\* The draft must be one and its sitting must not have ended.
AcceptReads(w, c, output, edited) ==
    /\ acting[w] = Waiting /\ Click
    /\ contracts[c].status = "draft"
    /\ SessionThere /\ session.phase # "ended"
    /\ LET kinds == KindsFor(output, contracts[c].purchase)
           unchanged == ~ edited /\ output = contracts[c].output /\ kinds = contracts[c].kinds
       IN  CallGoes(w, [pc |-> IF unchanged THEN "ratifying" ELSE "superseding",
                        draft |-> contracts[c], target |-> c, output |-> output, kinds |-> kinds])
    /\ UNCHANGED <<filing, session, beside, expects, contracts, shifts>>

\* What was chosen on the screen, on a row of its own, with everything else
\* the screen showed.
MisSuperseding(draft, output, kinds, of) ==
    Contract(draft.intention, draft.base, output, FALSE, kinds, of)
Superseding(draft, output, kinds, of) ==
    Contract(draft.intention, draft.base, output, draft.purchase, kinds, of)

AcceptSupersedes(w) ==
    /\ acting[w].pc = "superseding"
    /\ IF ~ MayCreate(acting[w].draft.intention, acting[w].draft.base) THEN Fails(w)
       ELSE /\ Len(contracts) < MaxContracts
            /\ contracts' = Append(contracts,
                  Superseding(acting[w].draft, acting[w].output, acting[w].kinds, acting[w].target))
            /\ CallGoes(w, [acting[w] EXCEPT !.pc = "ratifying", !.target = Len(contracts) + 1])
            /\ UNCHANGED <<filing, session, shifts>>
    /\ UNCHANGED <<beside, expects, clicks>>

\* handoff_contract_frozen_once_accepted.
MisMayRatify(c) == contracts[c].status # "deleted"
MayRatify(c) == contracts[c].status = "draft"

AcceptRatifies(w) ==
    /\ acting[w].pc = "ratifying"
    /\ LET c == acting[w].target IN
       IF ~ MayRatify(c) THEN Fails(w)
       ELSE /\ contracts' = [contracts EXCEPT ![c].status = "accepted",
                                              ![c].under = session.project]
            /\ CallGoes(w, [acting[w] EXCEPT !.pc = "leaving"])
            /\ UNCHANGED <<filing, session, shifts>>
    /\ UNCHANGED <<beside, expects, clicks>>

AcceptMarksAway(w) ==
    /\ acting[w].pc = "leaving"
    /\ IF ~ SessionThere THEN Fails(w)
       ELSE /\ session' = [session EXCEPT !.phase = "away"]
            /\ CallGoes(w, [acting[w] EXCEPT !.pc = "queueing"])
            /\ UNCHANGED <<filing, contracts, shifts>>
    /\ UNCHANGED <<beside, expects, clicks>>

AcceptEnqueues(w) ==
    /\ acting[w].pc = "queueing"
    /\ IF contracts[acting[w].target].status = "deleted" THEN Fails(w)
       ELSE /\ shifts' = Append(shifts, [contract |-> acting[w].target, over |-> FALSE])
            /\ CallGoes(w, Waiting)
            /\ UNCHANGED <<filing, session, contracts>>
    /\ UNCHANGED <<beside, expects, clicks>>

\* The shift is over and the sitting is handed back, whatever became of it.
HandsBack(i) ==
    /\ ~ shifts[i].over /\ contracts[shifts[i].contract].status # "deleted"
    /\ shifts' = [shifts EXCEPT ![i].over = TRUE]
    /\ session' = [session EXCEPT !.phase = "observing"]
    /\ UNCHANGED <<filing, beside, expects, contracts, acting, clicks>>

-----------------------------------------------------------------------------
(* Deleting.                                                               *)

Rests(c, p) == contracts[c].status # "deleted" /\ p \in {contracts[c].intention, contracts[c].base}

\* deleteWithEverything refuses while work filed elsewhere names the project's
\* Intention or a version of its document.
MayDelete(p) ==
    session.project = p \/ /\ session.intention # p
                           /\ \A c \in 1 .. Len(contracts) : ~ Rests(c, p)

Delete(p) ==
    /\ Filed(p) /\ MayDelete(p) /\ Click
    /\ filing' = [filing EXCEPT ![p] = [Unfiled EXCEPT !.row = "gone"]]
    /\ beside' = (beside /\ p # First)
    /\ IF session.project = p
         THEN /\ session' = Gone
              /\ contracts' = [c \in 1 .. Len(contracts) |->
                                 [contracts[c] EXCEPT !.status = "deleted"]]
         ELSE UNCHANGED <<session, contracts>>
    /\ UNCHANGED <<expects, shifts, acting>>

-----------------------------------------------------------------------------
HandoffNext ==
    \/ RevokeSite \/ EndSitting
    \/ \E p \in Projects : ApproveSite(p) \/ CreateDocument(p) \/ Delete(p)
    \/ \E i \in 1 .. Len(shifts) : HandsBack(i)
    \/ \E w \in Callers :
        \/ \E p \in Projects : RefileReads(w, p) \/ SplitReads(w, p)
        \/ CarriesSite(w) \/ Moves(w) \/ SplitWritesSkeleton(w)
        \/ DraftReads(w) \/ DraftRefused(w) \/ DraftWritesSkeleton(w) \/ DraftWrites(w)
        \/ \E c \in 1 .. Len(contracts), output \in {"draft-changes", "suggestions-only"},
              edited \in BOOLEAN : AcceptReads(w, c, output, edited)
        \/ AcceptSupersedes(w) \/ AcceptRatifies(w) \/ AcceptMarksAway(w) \/ AcceptEnqueues(w)

HandoffSpec == HandoffInit /\ [][HandoffNext]_handoffVars

-----------------------------------------------------------------------------
(* What is ratified is what the screen showed, whether or not a dial was   *)
(* turned on the way: the same document, Intention and purchase, with      *)
(* exactly the kinds its dial leaves; an authorisation and its ceiling are *)
(* never apart (acceptContract).                                           *)
RatifiedAsShown ==
    \A c \in 1 .. Len(contracts) : contracts[c].status = "accepted" =>
        LET shown == contracts[contracts[c].of] IN
        /\ contracts[c].base = shown.base
        /\ contracts[c].intention = shown.intention
        /\ contracts[c].purchase = shown.purchase
        /\ contracts[c].kinds = {"look"} \cup
              {k \in {"change"} : contracts[c].output # "suggestions-only"} \cup
              {k \in {"complete-purchase"} :
                  shown.purchase /\ contracts[c].output # "suggestions-only"}

\* However many windows press the button at once, a ratification queues one
\* run, and no run starts from a contract nobody ratified.
OneShiftPerRatification ==
    \A i \in 1 .. Len(shifts) :
        /\ contracts[shifts[i].contract].status # "draft"
        /\ \A j \in 1 .. Len(shifts) : shifts[j].contract = shifts[i].contract => j = i

\* However moves, drafts and deletions interleave, a sitting has its own
\* project's Intention or none, and no contract works on one project's document
\* towards another's Intention.
NothingMixesProjects ==
    /\ session.intention \in {NoProject, session.project}
    /\ \A c \in 1 .. Len(contracts) :
          NoProject \in {contracts[c].intention, contracts[c].base}
            \/ contracts[c].intention = contracts[c].base

\* "A move that does not answer this question leaves the sitting pointing at
\* the OLD project's Intention, and draftContract then stamps that
\* cross-project id onto the new project's HandoffContract"
\* (repositories/index.ts:1245): a contract is ratified for the project its
\* sitting is filed under.
RatifiedForItsProject ==
    \A c \in 1 .. Len(contracts) : contracts[c].status = "accepted" =>
        contracts[c].intention \in {NoProject, contracts[c].under}
=============================================================================
