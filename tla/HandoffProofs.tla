--------------------------- MODULE HandoffProofs ---------------------------
(***************************************************************************)
(* That a shift starts from what was ratified, and that an offer of one is *)
(* of what is being browsed.                                               *)
(*                                                                         *)
(* A request may be anywhere in the middle of its work, and so may the     *)
(* call that composes an offer: each invariant says what each of its steps *)
(* still knows.                                                            *)
(***************************************************************************)
EXTENDS Handoff, AmbientOffers, SequenceTheorems, TLAPS

(***************************************************************************)
(* A shift is of what was ratified, and a contract of one project, for any *)
(* number of projects, windows and contracts, and however filing,          *)
(* drafting, ratifying and deleting interleave.                            *)
(*                                                                         *)
(* What a request knows stays so because a contract's row is never         *)
(* rewritten: only its status moves on.                                    *)
(***************************************************************************)

MaybeProject == Projects \cup {NoProject}
Outputs == {"draft-changes", "suggestions-only"}

ContractRows ==
    [intention : MaybeProject, base : MaybeProject, output : Outputs, purchase : BOOLEAN,
     kinds : SUBSET {"look", "change", "complete-purchase"}, of : Nat,
     status : {"draft", "accepted", "deleted"}, under : MaybeProject]

HandoffTypes ==
    /\ session \in [project : MaybeProject, intention : MaybeProject,
                    phase : {"observing", "away", "ended"}]
    /\ contracts \in Seq(ContractRows)
    /\ shifts \in Seq([contract : Nat, over : BOOLEAN])
    /\ acting = [w \in Callers |-> acting[w]]

SameTerms(c, d) ==
    c.base = d.base /\ c.intention = d.intention /\ c.purchase = d.purchase

OneProject(about, base) == NoProject \in {about, base} \/ about = base

\* Ratified, and not yet queued.
Holds(w, c) == acting[w].pc \in {"leaving", "queueing"} /\ acting[w].target = c

\* What a request in the middle of its work still knows to be so.
CallKnows(w) ==
    /\ acting[w].pc \in {"carrying", "moving"} => acting[w].to \in Projects
    /\ acting[w].pc = "drafting" =>
          /\ acting[w].project \in Projects
          /\ acting[w].intention \in {NoProject, acting[w].project}
          /\ acting[w].base \in {NoProject, acting[w].project}
    /\ acting[w].pc = "superseding" =>
          /\ acting[w].target \in 1 .. Len(contracts)
          /\ acting[w].draft \in ContractRows
          /\ SameTerms(acting[w].draft, contracts[acting[w].target])
          /\ acting[w].output \in Outputs
          /\ acting[w].kinds = KindsFor(acting[w].output, acting[w].draft.purchase)
    /\ acting[w].pc = "ratifying" =>
          /\ acting[w].target \in 1 .. Len(contracts)
          /\ contracts[acting[w].target].kinds =
                KindsFor(contracts[acting[w].target].output, contracts[acting[w].target].purchase)
    /\ acting[w].pc \in {"leaving", "queueing"} =>
          /\ acting[w].target \in 1 .. Len(contracts)
          /\ contracts[acting[w].target].status # "draft"
          /\ \A i \in 1 .. Len(shifts) : shifts[i].contract # acting[w].target

RowKnows(c) ==
    /\ OneProject(contracts[c].intention, contracts[c].base)
    /\ contracts[c].of \in 1 .. Len(contracts)
    /\ SameTerms(contracts[c], contracts[contracts[c].of])
    /\ contracts[c].status = "accepted" =>
          contracts[c].kinds = KindsFor(contracts[c].output, contracts[c].purchase)

ShiftsAreRatified ==
    \A i \in 1 .. Len(shifts) :
        /\ shifts[i].contract \in 1 .. Len(contracts)
        /\ contracts[shifts[i].contract].status # "draft"
        /\ \A j \in 1 .. Len(shifts) : shifts[j].contract = shifts[i].contract => j = i

HandoffInv ==
    /\ HandoffTypes
    /\ session.intention \in {NoProject, session.project}
    /\ \A w \in Callers : CallKnows(w)
    /\ \A v, w \in Callers : \A c \in 1 .. Len(contracts) : Holds(v, c) /\ Holds(w, c) => v = w
    /\ \A c \in 1 .. Len(contracts) : RowKnows(c)
    /\ ShiftsAreRatified

\* A step keeps the terms of every contract, and none becomes a draft again.
Grows ==
    /\ contracts' \in Seq(ContractRows) /\ Len(contracts) <= Len(contracts')
    /\ \A c \in 1 .. Len(contracts) :
          /\ SameTerms(contracts'[c], contracts[c])
          /\ contracts'[c].output = contracts[c].output
          /\ contracts'[c].kinds = contracts[c].kinds
          /\ contracts'[c].of = contracts[c].of
          /\ contracts[c].status # "draft" => contracts'[c].status # "draft"

-----------------------------------------------------------------------------
(* What a step that only grows leaves in place.                            *)

\* A request that waits goes on knowing what it knew, as long as nobody queues
\* the contract it is about to queue.
LEMMA CallStays ==
    ASSUME NEW w \in Callers, HandoffTypes, CallKnows(w), Grows, acting'[w] = acting[w],
           \A c : Holds(w, c) => \A i \in 1 .. Len(shifts') : shifts'[i].contract # c
    PROVE  CallKnows(w)'
  <1>1. Len(contracts) \in Nat /\ Len(contracts') \in Nat
    BY LenProperties DEF HandoffTypes, Grows
  <1> DEFINE t == acting[w].target
  <1>2. CASE acting[w].pc = "superseding"
    <2>1. t \in 1 .. Len(contracts) /\ SameTerms(acting[w].draft, contracts[t])
      BY <1>2 DEF CallKnows
    <2>2. t \in 1 .. Len(contracts') /\ SameTerms(acting[w].draft, contracts'[t])
      BY <1>1, <2>1 DEF Grows, SameTerms
    <2> QED BY <1>2, <2>2 DEF CallKnows
  <1>3. CASE acting[w].pc = "ratifying"
    <2>1. t \in 1 .. Len(contracts)
          /\ contracts[t].kinds = KindsFor(contracts[t].output, contracts[t].purchase)
      BY <1>3 DEF CallKnows
    <2>2. t \in 1 .. Len(contracts')
          /\ contracts'[t].kinds = KindsFor(contracts'[t].output, contracts'[t].purchase)
      BY <1>1, <2>1 DEF Grows, SameTerms
    <2> QED BY <1>3, <2>2 DEF CallKnows
  <1>4. CASE acting[w].pc \in {"leaving", "queueing"}
    <2>1. t \in 1 .. Len(contracts) /\ contracts[t].status # "draft" /\ Holds(w, t)
      BY <1>4 DEF CallKnows, Holds
    <2>2. t \in 1 .. Len(contracts') /\ contracts'[t].status # "draft"
      BY <1>1, <2>1 DEF Grows
    <2>3. \A i \in 1 .. Len(shifts') : shifts'[i].contract # t
      BY <2>1
    <2> QED BY <1>4, <2>2, <2>3 DEF CallKnows
  <1>5. CASE acting[w].pc \notin {"superseding", "ratifying", "leaving", "queueing"}
    BY <1>5 DEF CallKnows
  <1> QED BY <1>2, <1>3, <1>4, <1>5

\* The rows that were there keep what is known of them.
LEMMA RowsStay ==
    ASSUME HandoffInv, Grows, NEW c \in 1 .. Len(contracts),
           contracts'[c].status = "accepted" =>
               \/ contracts[c].status = "accepted"
               \/ contracts[c].kinds = KindsFor(contracts[c].output, contracts[c].purchase)
    PROVE  RowKnows(c)'
  <1>1. Len(contracts) \in Nat /\ Len(contracts') \in Nat
    BY LenProperties DEF HandoffInv, HandoffTypes, Grows
  <1> DEFINE d == contracts[c].of
  <1>2. RowKnows(c)
    BY DEF HandoffInv
  <1>3. d \in 1 .. Len(contracts)
    BY <1>2 DEF RowKnows
  <1>4. /\ SameTerms(contracts'[c], contracts[c]) /\ contracts'[c].of = d
        /\ contracts'[c].kinds = contracts[c].kinds /\ contracts'[c].output = contracts[c].output
    BY DEF Grows
  <1>5. SameTerms(contracts'[d], contracts[d])
    BY <1>3 DEF Grows
  <1>6. OneProject(contracts'[c].intention, contracts'[c].base)
    BY <1>2, <1>4 DEF RowKnows, SameTerms
  <1>7. SameTerms(contracts'[c], contracts'[d])
    BY <1>2, <1>4, <1>5 DEF RowKnows, SameTerms
  <1>8. contracts'[c].status = "accepted" =>
          contracts'[c].kinds = KindsFor(contracts'[c].output, contracts'[c].purchase)
    BY <1>2, <1>4 DEF RowKnows, SameTerms
  <1>9. d \in 1 .. Len(contracts')
    BY <1>1, <1>3 DEF Grows
  <1> QED BY <1>4, <1>6, <1>7, <1>8, <1>9 DEF RowKnows

\* One request moves on, and queues nothing.
LEMMA OneCallMoves ==
    ASSUME HandoffInv, NEW w \in Callers, NEW state, CallGoes(w, state), Grows,
           shifts' = shifts,
           session' \in [project : MaybeProject, intention : MaybeProject,
                         phase : {"observing", "away", "ended"}],
           session'.intention \in {NoProject, session'.project},
           acting'[w] = state => CallKnows(w)',
           acting'[w] = state =>
               \A c : Holds(w, c)' =>
                   Holds(w, c) \/ (c \in 1 .. Len(contracts) /\ contracts[c].status = "draft"),
           \A c \in 1 .. Len(contracts') : RowKnows(c)'
    PROVE  HandoffInv'
  <1>1. /\ acting' = [v \in Callers |-> acting'[v]]
        /\ acting'[w] = state /\ \A v \in Callers \ {w} : acting'[v] = acting[v]
    BY DEF HandoffInv, HandoffTypes, CallGoes
  <1>2. HandoffTypes'
    BY <1>1 DEF HandoffInv, HandoffTypes, Grows
  <1>3. ASSUME NEW v \in Callers PROVE CallKnows(v)'
    <2>1. CASE v = w
      BY <1>1, <2>1
    <2>2. CASE v # w
      <3>1. \A c : Holds(v, c) => \A i \in 1 .. Len(shifts') : shifts'[i].contract # c
        BY DEF HandoffInv, CallKnows, Holds
      <3> QED BY <1>1, <2>2, <3>1, CallStays DEF HandoffInv
    <2> QED BY <2>1, <2>2
  <1>4. ASSUME NEW v \in Callers, NEW u \in Callers, NEW c \in 1 .. Len(contracts'),
               Holds(v, c)', Holds(u, c)', v # u
        PROVE  FALSE
    <2>1. ASSUME NEW x \in Callers, x # w, Holds(x, c)' PROVE Holds(x, c)
      BY <1>1, <2>1 DEF Holds
    <2>2. ASSUME NEW x \in Callers, Holds(x, c)
          PROVE  c \in 1 .. Len(contracts) /\ contracts[c].status # "draft"
      BY <2>2 DEF HandoffInv, CallKnows, Holds
    <2>3. CASE v # w /\ u # w
      BY <1>4, <2>1, <2>2, <2>3 DEF HandoffInv
    <2>4. CASE v = w \/ u = w
      <3>1. Holds(w, c)'
        BY <1>4, <2>4
      <3>2. PICK x \in Callers : x # w /\ Holds(x, c)
        BY <1>4, <2>1, <2>4
      <3>3. Holds(w, c)
        BY <1>1, <2>2, <3>1, <3>2
      <3> QED BY <2>2, <3>2, <3>3 DEF HandoffInv
    <2> QED BY <2>3, <2>4
  <1>5. ShiftsAreRatified'
    <2>1. Len(contracts) \in Nat /\ Len(contracts') \in Nat
      BY LenProperties DEF HandoffInv, HandoffTypes, Grows
    <2>2. ASSUME NEW i \in 1 .. Len(shifts)
          PROVE  /\ shifts[i].contract \in 1 .. Len(contracts')
                 /\ contracts'[shifts[i].contract].status # "draft"
      <3>1. /\ shifts[i].contract \in 1 .. Len(contracts)
            /\ contracts[shifts[i].contract].status # "draft"
        BY DEF HandoffInv, ShiftsAreRatified
      <3>2. contracts'[shifts[i].contract].status # "draft"
        BY <3>1 DEF Grows
      <3> QED BY <2>1, <3>1, <3>2 DEF Grows
    <2>3. \A i, j \in 1 .. Len(shifts) : shifts[j].contract = shifts[i].contract => j = i
      BY DEF HandoffInv, ShiftsAreRatified
    <2> QED BY <2>2, <2>3 DEF ShiftsAreRatified
  <1> QED BY <1>2, <1>3, <1>4, <1>5 DEF HandoffInv

\* Nothing happens to the contracts.
LEMMA ContractsStay ==
    ASSUME HandoffInv, contracts' = contracts
    PROVE  Grows /\ \A c \in 1 .. Len(contracts') : RowKnows(c)'
  <1>1. Grows
    BY LenProperties DEF HandoffInv, HandoffTypes, Grows, SameTerms
  <1> QED BY <1>1, RowsStay

\* A request moves on and only the places it files under change.
LEMMA MoveKeepsHandoff ==
    ASSUME HandoffInv, NEW w \in Callers, NEW state, CallGoes(w, state),
           contracts' = contracts, shifts' = shifts,
           session' \in [project : MaybeProject, intention : MaybeProject,
                         phase : {"observing", "away", "ended"}],
           session'.intention \in {NoProject, session'.project},
           acting'[w] = state => CallKnows(w)',
           \A c : acting'[w] = state /\ Holds(w, c)' => Holds(w, c)
    PROVE  HandoffInv'
  BY ContractsStay, OneCallMoves

\* A request that fails leaves everything else as it was.
LEMMA FailKeeps ==
    ASSUME HandoffInv, NEW w \in Callers, Fails(w)
    PROVE  HandoffInv'
  <1>1. ASSUME acting'[w] = Waiting
        PROVE  CallKnows(w)' /\ \A c : ~ Holds(w, c)'
    BY <1>1 DEF CallKnows, Holds, Waiting
  <1>2. session' = session
    BY DEF Fails
  <1> QED BY <1>1, <1>2, MoveKeepsHandoff DEF Fails, HandoffInv, HandoffTypes

\* Nobody moves, and no contract changes.
LEMMA NobodyMoves ==
    ASSUME HandoffInv, acting' = acting, contracts' = contracts, shifts' = shifts,
           session' \in [project : MaybeProject, intention : MaybeProject,
                         phase : {"observing", "away", "ended"}],
           session'.intention \in {NoProject, session'.project}
    PROVE  HandoffInv'
  <1>1. Grows /\ \A c \in 1 .. Len(contracts') : RowKnows(c)'
    BY ContractsStay
  <1>2. \A w \in Callers : CallKnows(w)'
    <2> SUFFICES ASSUME NEW w \in Callers PROVE CallKnows(w)'
      OBVIOUS
    <2>1. \A c : Holds(w, c) => \A i \in 1 .. Len(shifts') : shifts'[i].contract # c
      BY DEF HandoffInv, CallKnows, Holds
    <2> QED BY <1>1, <2>1, CallStays DEF HandoffInv
  <1> QED BY <1>1, <1>2 DEF HandoffInv, HandoffTypes, ShiftsAreRatified, Holds

\* A row is written after the others.
LEMMA RowIsAppended ==
    ASSUME HandoffInv, NEW row \in ContractRows, contracts' = Append(contracts, row),
           row.status = "draft", OneProject(row.intention, row.base),
           \/ row.of = Len(contracts) + 1
           \/ row.of \in 1 .. Len(contracts) /\ SameTerms(row, contracts[row.of])
    PROVE  Grows /\ \A c \in 1 .. Len(contracts') : RowKnows(c)'
  <1> DEFINE n == Len(contracts) + 1
  <1>1. /\ Len(contracts) \in Nat /\ Len(contracts') = n /\ contracts'[n] = row
        /\ \A c \in 1 .. Len(contracts) : contracts'[c] = contracts[c]
        /\ contracts' \in Seq(ContractRows)
    BY AppendProperties, LenProperties DEF HandoffInv, HandoffTypes
  <1>2. Grows
    BY <1>1 DEF Grows, SameTerms
  <1>3. \A c \in 1 .. Len(contracts) : RowKnows(c)'
    BY <1>1, <1>2, RowsStay
  <1>4. ASSUME NEW c \in 1 .. Len(contracts'), c \notin 1 .. Len(contracts) PROVE RowKnows(c)'
    <2>1. contracts'[c] = row
      BY <1>1, <1>4
    <2>2. row.of \in 1 .. Len(contracts')
      BY <1>1
    <2>3. SameTerms(row, contracts'[row.of])
      BY <1>1 DEF SameTerms
    <2> QED BY <2>1, <2>2, <2>3 DEF RowKnows
  <1> QED BY <1>2, <1>3, <1>4

-----------------------------------------------------------------------------
(* The steps.                                                              *)

LEMMA KindsAreKinds ==
    ASSUME NEW output, NEW purchase
    PROVE  KindsFor(output, purchase) \in SUBSET {"look", "change", "complete-purchase"}
  BY DEF KindsFor

LEMMA HandoffInvInit == HandoffInit => HandoffInv
  <1> SUFFICES ASSUME HandoffInit PROVE HandoffInv
    OBVIOUS
  <1>1. contracts = <<>> /\ shifts = <<>> /\ Len(contracts) = 0 /\ Len(shifts) = 0
    BY DEF HandoffInit
  <1>2. HandoffTypes
    BY <1>1, HandoffConstants DEF HandoffInit, HandoffTypes, MaybeProject, IntentionOf
  <1>3. \A w \in Callers : CallKnows(w)
    BY DEF HandoffInit, CallKnows, Waiting
  <1> QED BY <1>1, <1>2, <1>3 DEF HandoffInv, HandoffInit, IntentionOf, ShiftsAreRatified

LEMMA SitesAndDocumentsKeep ==
    ASSUME HandoffInv, NEW p \in Projects,
           RevokeSite \/ EndSitting \/ ApproveSite(p) \/ CreateDocument(p)
    PROVE  HandoffInv'
  <1>1. acting' = acting /\ contracts' = contracts /\ shifts' = shifts
    BY DEF RevokeSite, EndSitting, ApproveSite, CreateDocument
  <1>2. session' = session \/ session' = [session EXCEPT !.phase = "ended"]
    BY DEF RevokeSite, EndSitting, ApproveSite, CreateDocument
  <1>3. /\ session' \in [project : MaybeProject, intention : MaybeProject,
                         phase : {"observing", "away", "ended"}]
        /\ session'.intention \in {NoProject, session'.project}
    BY <1>2 DEF HandoffInv, HandoffTypes
  <1> QED BY <1>1, <1>3, NobodyMoves

LEMMA FilingKeeps ==
    ASSUME HandoffInv, NEW w \in Callers, NEW to \in Projects,
           \/ RefileReads(w, to) \/ SplitReads(w, to) \/ CarriesSite(w)
           \/ Moves(w) \/ SplitWritesSkeleton(w)
    PROVE  HandoffInv'
  <1> DEFINE Sessions == [project : MaybeProject, intention : MaybeProject,
                          phase : {"observing", "away", "ended"}]
  <1>0. session \in Sessions /\ session.intention \in {NoProject, session.project}
    BY DEF HandoffInv, HandoffTypes
  <1>1. CASE RefileReads(w, to) \/ SplitReads(w, to)
    <2>1. PICK split, carries : CallGoes(w, [pc |-> "carrying", to |-> to, split |-> split,
                                             carries |-> carries])
      BY <1>1 DEF RefileReads, SplitReads
    <2> DEFINE state == [pc |-> "carrying", to |-> to, split |-> split, carries |-> carries]
    <2>2. acting'[w] = state => CallKnows(w)' /\ \A c : ~ Holds(w, c)'
      BY DEF CallKnows, Holds
    <2>3. contracts' = contracts /\ shifts' = shifts /\ session' = session
      BY <1>1 DEF RefileReads, SplitReads
    <2> QED BY <1>0, <2>1, <2>2, <2>3, MoveKeepsHandoff
  <1>2. CASE CarriesSite(w)
    <2>1. CASE Fails(w)
      BY <2>1, FailKeeps
    <2>2. CASE ~ Fails(w)
      <3> DEFINE state == [acting[w] EXCEPT !.pc = "moving"]
      <3>1. CallGoes(w, state) /\ contracts' = contracts /\ shifts' = shifts /\ session' = session
        BY <1>2, <2>2 DEF CarriesSite
      <3>2. acting[w].to \in Projects /\ acting[w].pc = "carrying"
        BY <1>2 DEF CarriesSite, HandoffInv, CallKnows
      <3>3. state.pc = "moving" /\ state.to = acting[w].to
        OBVIOUS
      <3>4. acting'[w] = state => CallKnows(w)' /\ \A c : ~ Holds(w, c)'
        BY <3>2, <3>3 DEF CallKnows, Holds
      <3> QED BY <1>0, <3>1, <3>4, MoveKeepsHandoff
    <2> QED BY <2>1, <2>2
  <1>3. CASE Moves(w)
    <2>1. CASE Fails(w)
      BY <2>1, FailKeeps
    <2>2. CASE ~ Fails(w)
      <3> DEFINE t == acting[w].to
                 state == IF acting[w].split THEN [acting[w] EXCEPT !.pc = "skeleton"]
                                             ELSE Waiting
                 about == IF acting[w].split THEN NoProject ELSE IntentionAfter(t)
      <3>1. /\ CallGoes(w, state) /\ contracts' = contracts /\ shifts' = shifts
            /\ session' = [session EXCEPT !.project = t, !.intention = about]
        BY <1>3, <2>2 DEF Moves
      <3>2. t \in Projects
        BY <1>3 DEF Moves, HandoffInv, CallKnows
      <3>3. about \in {NoProject, t}
        BY DEF IntentionAfter, IntentionOf
      <3>4. session' \in Sessions /\ session'.intention \in {NoProject, session'.project}
        BY <1>0, <3>1, <3>2, <3>3 DEF MaybeProject
      <3>5. state.pc \in {"idle", "skeleton"}
        BY DEF Waiting
      <3>6. acting'[w] = state => CallKnows(w)' /\ \A c : ~ Holds(w, c)'
        BY <3>5 DEF CallKnows, Holds
      <3> QED BY <3>1, <3>4, <3>6, MoveKeepsHandoff
    <2> QED BY <2>1, <2>2
  <1>4. CASE SplitWritesSkeleton(w)
    <2>1. CallGoes(w, Waiting) /\ contracts' = contracts /\ shifts' = shifts /\ session' = session
      BY <1>4 DEF SplitWritesSkeleton
    <2>2. acting'[w] = Waiting => CallKnows(w)' /\ \A c : ~ Holds(w, c)'
      BY DEF CallKnows, Holds, Waiting
    <2> QED BY <1>0, <2>1, <2>2, MoveKeepsHandoff
  <1> QED BY <1>1, <1>2, <1>3, <1>4

LEMMA DraftingKeeps ==
    ASSUME HandoffInv, NEW w \in Callers,
           DraftReads(w) \/ DraftRefused(w) \/ DraftWritesSkeleton(w) \/ DraftWrites(w)
    PROVE  HandoffInv'
  <1> DEFINE Sessions == [project : MaybeProject, intention : MaybeProject,
                          phase : {"observing", "away", "ended"}]
  <1>0. session \in Sessions /\ session.intention \in {NoProject, session.project}
    BY DEF HandoffInv, HandoffTypes
  <1>1. CASE DraftReads(w)
    <2> DEFINE p == session.project
               base == IF expects /\ filing[p].document THEN p ELSE NoProject
               state == [pc |-> "drafting", project |-> p, intention |-> session.intention,
                         base |-> base]
    <2>1. CallGoes(w, state) /\ contracts' = contracts /\ shifts' = shifts /\ session' = session
      BY <1>1 DEF DraftReads
    <2>2. p \in Projects
      BY <1>0, <1>1 DEF DraftReads, SessionThere, MaybeProject
    <2>3. acting'[w] = state => CallKnows(w)' /\ \A c : ~ Holds(w, c)'
      BY <1>0, <2>1, <2>2 DEF CallKnows, Holds
    <2> QED BY <1>0, <2>1, <2>3, MoveKeepsHandoff
  <1>2. CASE DraftRefused(w)
    BY <1>2, FailKeeps DEF DraftRefused
  <1>3. CASE DraftWritesSkeleton(w)
    <2>1. CASE Fails(w)
      BY <2>1, FailKeeps
    <2>2. CASE ~ Fails(w)
      <3> DEFINE p == acting[w].project
                 state == [acting[w] EXCEPT !.base = p]
      <3>1. CallGoes(w, state) /\ contracts' = contracts /\ shifts' = shifts /\ session' = session
        BY <1>3, <2>2 DEF DraftWritesSkeleton
      <3>2. /\ acting[w].pc = "drafting" /\ p \in Projects
            /\ acting[w].intention \in {NoProject, p}
            /\ "base" \in DOMAIN acting[w] => state.base = p
        BY <1>3 DEF DraftWritesSkeleton, HandoffInv, CallKnows
      <3>3. /\ state.pc = "drafting" /\ state.project = p
            /\ state.intention = acting[w].intention /\ state.base \in {acting[w].base, p}
        BY <3>2
      <3>4. acting[w].base \in {NoProject, p}
        BY <3>2 DEF HandoffInv, CallKnows
      <3>5. acting'[w] = state => CallKnows(w)' /\ \A c : ~ Holds(w, c)'
        BY <3>2, <3>3, <3>4 DEF CallKnows, Holds
      <3> QED BY <1>0, <3>1, <3>5, MoveKeepsHandoff
    <2> QED BY <2>1, <2>2
  <1>4. CASE DraftWrites(w)
    <2>1. CASE Fails(w)
      BY <2>1, FailKeeps
    <2>2. CASE ~ Fails(w)
      <3> DEFINE n == Len(contracts) + 1
                 kinds == KindsFor("draft-changes", FALSE)
                 about == acting[w].intention
                 base == acting[w].base
      <3>1. PICK purchase \in BOOLEAN :
              contracts' = Append(contracts, Contract(about, base, "draft-changes",
                                                      purchase, kinds, n))
        BY <1>4, <2>2 DEF DraftWrites
      <3> DEFINE row == Contract(about, base, "draft-changes", purchase, kinds, n)
      <3>2. /\ CallGoes(w, Waiting) /\ session' = session /\ shifts' = shifts
            /\ acting[w].pc = "drafting"
        BY <1>4, <2>2 DEF DraftWrites
      <3>3. /\ acting[w].project \in Projects
            /\ about \in {NoProject, acting[w].project} /\ base \in {NoProject, acting[w].project}
        BY <3>2 DEF HandoffInv, CallKnows
      <3>4. n \in Nat /\ kinds \in SUBSET {"look", "change", "complete-purchase"}
        <4>1. n \in Nat
          BY LenProperties DEF HandoffInv, HandoffTypes
        <4>2. kinds \in SUBSET {"look", "change", "complete-purchase"}
          BY KindsAreKinds
        <4> QED BY <4>1, <4>2
      <3>5. /\ row \in ContractRows /\ row.status = "draft" /\ row.of = n
            /\ OneProject(row.intention, row.base)
        BY <3>3, <3>4 DEF Contract, ContractRows, MaybeProject, Outputs, OneProject
      <3>6. Grows /\ \A c \in 1 .. Len(contracts') : RowKnows(c)'
        BY <3>1, <3>5, RowIsAppended
      <3>7. acting'[w] = Waiting => CallKnows(w)' /\ \A c : ~ Holds(w, c)'
        BY DEF CallKnows, Holds, Waiting
      <3> QED BY <1>0, <3>2, <3>6, <3>7, OneCallMoves
    <2> QED BY <2>1, <2>2
  <1> QED BY <1>1, <1>2, <1>3, <1>4

LEMMA AcceptReadsKeeps ==
    ASSUME HandoffInv, NEW w \in Callers, NEW c \in 1 .. Len(contracts),
           NEW output \in Outputs, NEW edited \in BOOLEAN, AcceptReads(w, c, output, edited)
    PROVE  HandoffInv'
  <1> DEFINE kinds == KindsFor(output, contracts[c].purchase)
             unchanged == ~ edited /\ output = contracts[c].output /\ kinds = contracts[c].kinds
             state == [pc |-> IF unchanged THEN "ratifying" ELSE "superseding",
                       draft |-> contracts[c], target |-> c, output |-> output, kinds |-> kinds]
  <1>1. CallGoes(w, state) /\ contracts' = contracts /\ shifts' = shifts /\ session' = session
    BY DEF AcceptReads
  <1>2. contracts[c] \in ContractRows
    BY ElementOfSeq DEF HandoffInv, HandoffTypes
  <1>3. ASSUME acting'[w] = state PROVE CallKnows(w)' /\ \A d : ~ Holds(w, d)'
    BY <1>1, <1>2, <1>3 DEF CallKnows, Holds, SameTerms
  <1>4. /\ session \in [project : MaybeProject, intention : MaybeProject,
                        phase : {"observing", "away", "ended"}]
        /\ session.intention \in {NoProject, session.project}
    BY DEF HandoffInv, HandoffTypes
  <1> QED BY <1>1, <1>3, <1>4, MoveKeepsHandoff

LEMMA AcceptSupersedesKeeps ==
    ASSUME HandoffInv, NEW w \in Callers, AcceptSupersedes(w)
    PROVE  HandoffInv'
  <1>1. CASE Fails(w)
    BY <1>1, FailKeeps
  <1>2. CASE ~ Fails(w)
    <2> DEFINE draft == acting[w].draft
               t == acting[w].target
               row == Superseding(draft, acting[w].output, acting[w].kinds, t)
    <2>1. /\ contracts' = Append(contracts, row) /\ session' = session /\ shifts' = shifts
          /\ acting[w].pc = "superseding"
      BY <1>2 DEF AcceptSupersedes
    <2>2. PICK n : n = Len(contracts) + 1
      OBVIOUS
    <2> DEFINE state == [acting[w] EXCEPT !.pc = "ratifying", !.target = n]
    <2>3. CallGoes(w, state)
      BY <1>2, <2>2 DEF AcceptSupersedes
    <2>4. /\ t \in 1 .. Len(contracts) /\ draft \in ContractRows
          /\ SameTerms(draft, contracts[t]) /\ acting[w].output \in Outputs
          /\ acting[w].kinds = KindsFor(acting[w].output, draft.purchase)
      BY <2>1 DEF HandoffInv, CallKnows
    <2>5. RowKnows(t) /\ Len(contracts) \in Nat
      BY <2>4, LenProperties DEF HandoffInv, HandoffTypes
    <2>6. acting[w].kinds \in SUBSET {"look", "change", "complete-purchase"}
      BY <2>4, KindsAreKinds
    <2>7. /\ row.of = t /\ row.status = "draft" /\ row.base = draft.base
          /\ row.intention = draft.intention /\ row.purchase = draft.purchase
          /\ row.output = acting[w].output /\ row.kinds = acting[w].kinds
      BY DEF Superseding, Contract
    <2>8. row \in ContractRows
      BY <2>4, <2>5, <2>6 DEF Superseding, Contract, ContractRows, MaybeProject
    <2>9. OneProject(row.intention, row.base) /\ SameTerms(row, contracts[t])
      BY <2>4, <2>5, <2>7 DEF RowKnows, SameTerms, OneProject
    <2>10. Grows /\ \A c \in 1 .. Len(contracts') : RowKnows(c)'
      BY <2>1, <2>4, <2>7, <2>8, <2>9, RowIsAppended
    <2>11. contracts'[n] = row /\ n \in 1 .. Len(contracts')
      BY <2>1, <2>2, <2>5, <2>8, AppendProperties DEF HandoffInv, HandoffTypes
    <2>12. ASSUME acting'[w] = state PROVE CallKnows(w)' /\ \A c : ~ Holds(w, c)'
      <3>1. state.pc = "ratifying"
        BY <2>1
      <3>2. state.target = n
        BY <2>1
      <3> QED BY <2>4, <2>7, <2>11, <2>12, <3>1, <3>2 DEF CallKnows, Holds
    <2>13. /\ session \in [project : MaybeProject, intention : MaybeProject,
                           phase : {"observing", "away", "ended"}]
           /\ session.intention \in {NoProject, session.project}
      BY DEF HandoffInv, HandoffTypes
    <2> QED BY <2>1, <2>3, <2>10, <2>12, <2>13, OneCallMoves
  <1> QED BY <1>1, <1>2

LEMMA AcceptRatifiesKeeps ==
    ASSUME HandoffInv, NEW w \in Callers, AcceptRatifies(w)
    PROVE  HandoffInv'
  <1>1. CASE Fails(w)
    BY <1>1, FailKeeps
  <1>2. CASE ~ Fails(w)
    <2> DEFINE state == [acting[w] EXCEPT !.pc = "leaving"]
    <2>1. PICK t : t = acting[w].target
      OBVIOUS
    <2>2. /\ contracts' = [contracts EXCEPT ![t].status = "accepted", ![t].under = session.project]
          /\ CallGoes(w, state) /\ session' = session /\ shifts' = shifts
          /\ acting[w].pc = "ratifying" /\ contracts[t].status = "draft"
      BY <1>2, <2>1 DEF AcceptRatifies, MayRatify
    <2>3. /\ t \in 1 .. Len(contracts)
          /\ contracts[t].kinds = KindsFor(contracts[t].output, contracts[t].purchase)
      BY <2>1, <2>2 DEF HandoffInv, CallKnows
    <2>4. /\ session \in [project : MaybeProject, intention : MaybeProject,
                          phase : {"observing", "away", "ended"}]
          /\ session.intention \in {NoProject, session.project}
      BY DEF HandoffInv, HandoffTypes
    <2>5. contracts[t] \in ContractRows /\ session.project \in MaybeProject
      BY <2>3, <2>4, ElementOfSeq DEF HandoffInv, HandoffTypes
    <2> DEFINE row == [contracts[t] EXCEPT !.status = "accepted", !.under = session.project]
    <2>6. /\ row \in ContractRows /\ row.status = "accepted"
          /\ row.base = contracts[t].base /\ row.intention = contracts[t].intention
          /\ row.purchase = contracts[t].purchase /\ row.output = contracts[t].output
          /\ row.kinds = contracts[t].kinds /\ row.of = contracts[t].of
      BY <2>5 DEF ContractRows
    <2>7. contracts' = [contracts EXCEPT ![t] = row]
      BY <2>2, <2>3
    <2> HIDE DEF row
    <2>8. /\ contracts' \in Seq(ContractRows) /\ Len(contracts') = Len(contracts)
          /\ contracts'[t] = row
          /\ \A c \in 1 .. Len(contracts) : c # t => contracts'[c] = contracts[c]
      BY <2>3, <2>6, <2>7, ExceptSeq DEF HandoffInv, HandoffTypes
    <2>9. Len(contracts) \in Nat
      BY LenProperties DEF HandoffInv, HandoffTypes
    <2>10. Grows
      <3> SUFFICES ASSUME NEW c \in 1 .. Len(contracts)
                   PROVE  /\ SameTerms(contracts'[c], contracts[c])
                          /\ contracts'[c].output = contracts[c].output
                          /\ contracts'[c].kinds = contracts[c].kinds
                          /\ contracts'[c].of = contracts[c].of
                          /\ contracts[c].status # "draft" => contracts'[c].status # "draft"
        BY <2>8, <2>9 DEF Grows
      <3>1. CASE c = t
        BY <2>6, <2>8, <3>1 DEF SameTerms
      <3>2. CASE c # t
        BY <2>8, <3>2 DEF SameTerms
      <3> QED BY <3>1, <3>2
    <2>11. ASSUME NEW c \in 1 .. Len(contracts') PROVE RowKnows(c)'
      <3>1. c \in 1 .. Len(contracts)
        BY <2>8
      <3>2. CASE c = t
        BY <2>3, <2>10, <3>1, <3>2, RowsStay
      <3>3. CASE c # t
        BY <2>8, <2>10, <3>1, <3>3, RowsStay
      <3> QED BY <3>2, <3>3
    <2>12. ASSUME acting'[w] = state PROVE CallKnows(w)'
      <3>1. state.pc = "leaving" /\ state.target = t
        BY <2>1
      <3>2. t \in 1 .. Len(contracts') /\ contracts'[t].status # "draft"
        BY <2>3, <2>6, <2>8
      <3>3. ASSUME NEW i \in 1 .. Len(shifts) PROVE shifts[i].contract # t
        BY <2>2 DEF HandoffInv, ShiftsAreRatified
      <3> QED BY <2>2, <2>12, <3>1, <3>2, <3>3 DEF CallKnows
    <2>13. ASSUME acting'[w] = state, NEW c, Holds(w, c)'
           PROVE  c \in 1 .. Len(contracts) /\ contracts[c].status = "draft"
      <3>1. state.target = t
        BY <2>1
      <3> QED BY <2>2, <2>3, <2>13, <3>1 DEF Holds
    <2> QED BY <2>2, <2>4, <2>10, <2>11, <2>12, <2>13, OneCallMoves
  <1> QED BY <1>1, <1>2

LEMMA AcceptMarksAwayKeeps ==
    ASSUME HandoffInv, NEW w \in Callers, AcceptMarksAway(w)
    PROVE  HandoffInv'
  <1>1. CASE Fails(w)
    BY <1>1, FailKeeps
  <1>2. CASE ~ Fails(w)
    <2> DEFINE state == [acting[w] EXCEPT !.pc = "queueing"]
    <2>1. /\ session' = [session EXCEPT !.phase = "away"] /\ CallGoes(w, state)
          /\ contracts' = contracts /\ shifts' = shifts /\ acting[w].pc = "leaving"
      BY <1>2 DEF AcceptMarksAway
    <2>2. /\ session' \in [project : MaybeProject, intention : MaybeProject,
                           phase : {"observing", "away", "ended"}]
          /\ session'.intention \in {NoProject, session'.project}
      BY <2>1 DEF HandoffInv, HandoffTypes
    <2>3. state.pc = "queueing" /\ state.target = acting[w].target
      BY <2>1
    <2>4. CallKnows(w)
      BY DEF HandoffInv
    <2>5. acting'[w] = state => CallKnows(w)'
      BY <2>1, <2>3, <2>4 DEF CallKnows
    <2>6. \A c : acting'[w] = state /\ Holds(w, c)' => Holds(w, c)
      BY <2>1, <2>3 DEF Holds
    <2> QED BY <2>1, <2>2, <2>5, <2>6, MoveKeepsHandoff
  <1> QED BY <1>1, <1>2

LEMMA AcceptEnqueuesKeeps ==
    ASSUME HandoffInv, NEW w \in Callers, AcceptEnqueues(w)
    PROVE  HandoffInv'
  <1>1. CASE Fails(w)
    BY <1>1, FailKeeps
  <1>2. CASE ~ Fails(w)
    <2>1. PICK t, n : t = acting[w].target /\ n = Len(shifts) + 1
      OBVIOUS
    <2> DEFINE shift == [contract |-> t, over |-> FALSE]
    <2>2. /\ shifts' = Append(shifts, shift) /\ CallGoes(w, Waiting)
          /\ contracts' = contracts /\ session' = session /\ acting[w].pc = "queueing"
      BY <1>2, <2>1 DEF AcceptEnqueues
    <2>3. /\ t \in 1 .. Len(contracts) /\ contracts[t].status # "draft" /\ Holds(w, t)
          /\ \A i \in 1 .. Len(shifts) : shifts[i].contract # t
      BY <2>1, <2>2 DEF HandoffInv, CallKnows, Holds
    <2>4. Len(contracts) \in Nat
      BY LenProperties DEF HandoffInv, HandoffTypes
    <2>5. shift \in [contract : Nat, over : BOOLEAN]
      BY <2>3, <2>4
    <2>6. /\ shifts' \in Seq([contract : Nat, over : BOOLEAN]) /\ Len(shifts') = n
          /\ shifts'[n] = shift /\ Len(shifts) \in Nat
          /\ \A i \in 1 .. Len(shifts) : shifts'[i] = shifts[i]
      BY <2>1, <2>2, <2>5, AppendProperties, LenProperties DEF HandoffInv, HandoffTypes
    <2>7. /\ acting' = [v \in Callers |-> acting'[v]]
          /\ acting'[w] = Waiting /\ \A v \in Callers \ {w} : acting'[v] = acting[v]
      BY <2>2 DEF HandoffInv, HandoffTypes, CallGoes
    <2>8. Grows /\ \A c \in 1 .. Len(contracts') : RowKnows(c)'
      BY <2>2, ContractsStay
    <2>9. ASSUME NEW v \in Callers PROVE CallKnows(v)'
      <3>1. CASE v = w
        BY <2>7, <3>1 DEF CallKnows, Waiting
      <3>2. CASE v # w
        <4>1. ASSUME NEW c, Holds(v, c), NEW i \in 1 .. Len(shifts')
              PROVE  shifts'[i].contract # c
          <5>1. c \in 1 .. Len(contracts)
                /\ \A j \in 1 .. Len(shifts) : shifts[j].contract # c
            BY <4>1 DEF HandoffInv, CallKnows, Holds
          <5>2. c # t
            BY <2>3, <3>2, <4>1, <5>1 DEF HandoffInv
          <5> QED BY <2>1, <2>6, <5>1, <5>2
        <4> QED BY <2>7, <2>8, <3>2, <4>1, CallStays DEF HandoffInv
      <3> QED BY <3>1, <3>2
    <2>10. ASSUME NEW u \in Callers, NEW v \in Callers, NEW c \in 1 .. Len(contracts'),
                  Holds(u, c)', Holds(v, c)'
           PROVE  u = v
      <3>1. u # w /\ v # w
        BY <2>7, <2>10 DEF Holds, Waiting
      <3>2. Holds(u, c) /\ Holds(v, c)
        BY <2>7, <2>10, <3>1 DEF Holds
      <3> QED BY <2>2, <3>2 DEF HandoffInv
    <2>11. ShiftsAreRatified'
      <3>1. ShiftsAreRatified
        BY DEF HandoffInv
      <3>2. ASSUME NEW i \in 1 .. Len(shifts')
            PROVE  /\ shifts'[i].contract \in 1 .. Len(contracts')
                   /\ contracts'[shifts'[i].contract].status # "draft"
        <4>1. CASE i = n
          BY <2>2, <2>3, <2>6, <4>1
        <4>2. CASE i # n
          <5>1. i \in 1 .. Len(shifts) /\ shifts'[i] = shifts[i]
            BY <2>1, <2>6, <4>2
          <5> QED BY <2>2, <3>1, <5>1 DEF ShiftsAreRatified
        <4> QED BY <4>1, <4>2
      <3>3. ASSUME NEW i \in 1 .. Len(shifts'), NEW j \in 1 .. Len(shifts'),
                   shifts'[j].contract = shifts'[i].contract
            PROVE  j = i
        <4>1. \A k \in 1 .. Len(shifts') : k = n \/ (k \in 1 .. Len(shifts) /\ shifts'[k] = shifts[k])
          BY <2>1, <2>6
        <4>2. \A k \in 1 .. Len(shifts') : k # n => shifts'[k].contract # t
          BY <2>3, <4>1
        <4>3. CASE i = n \/ j = n
          BY <2>6, <3>3, <4>2, <4>3
        <4>4. CASE i # n /\ j # n
          BY <3>1, <3>3, <4>1, <4>4 DEF ShiftsAreRatified
        <4> QED BY <4>3, <4>4
      <3> QED BY <3>2, <3>3 DEF ShiftsAreRatified
    <2> QED BY <2>2, <2>6, <2>7, <2>8, <2>9, <2>10, <2>11 DEF HandoffInv, HandoffTypes
  <1> QED BY <1>1, <1>2

LEMMA HandsBackKeeps ==
    ASSUME HandoffInv, NEW i \in 1 .. Len(shifts), HandsBack(i)
    PROVE  HandoffInv'
  <1>1. /\ shifts' = [shifts EXCEPT ![i].over = TRUE] /\ session' = [session EXCEPT !.phase = "observing"]
        /\ contracts' = contracts /\ acting' = acting
    BY DEF HandsBack
  <1>2. shifts[i] \in [contract : Nat, over : BOOLEAN]
    BY ElementOfSeq DEF HandoffInv, HandoffTypes
  <1> DEFINE shift == [shifts[i] EXCEPT !.over = TRUE]
  <1>3. /\ shift \in [contract : Nat, over : BOOLEAN] /\ shift.contract = shifts[i].contract
        /\ shifts' = [shifts EXCEPT ![i] = shift]
    BY <1>1, <1>2
  <1>4. /\ shifts' \in Seq([contract : Nat, over : BOOLEAN]) /\ Len(shifts') = Len(shifts)
        /\ \A j \in 1 .. Len(shifts) : shifts'[j] = IF j = i THEN shift ELSE shifts[j]
    BY <1>3, ExceptSeq DEF HandoffInv, HandoffTypes
  <1>5. \A j \in 1 .. Len(shifts') : shifts'[j].contract = shifts[j].contract
    BY <1>3, <1>4
  <1>6. Grows /\ \A c \in 1 .. Len(contracts') : RowKnows(c)'
    BY <1>1, ContractsStay
  <1>7. \A w \in Callers : CallKnows(w)'
    <2> SUFFICES ASSUME NEW w \in Callers PROVE CallKnows(w)'
      OBVIOUS
    <2>1. \A c : Holds(w, c) => \A j \in 1 .. Len(shifts') : shifts'[j].contract # c
      BY <1>4, <1>5 DEF HandoffInv, CallKnows, Holds
    <2> QED BY <1>1, <1>6, <2>1, CallStays DEF HandoffInv
  <1>8. ShiftsAreRatified'
    BY <1>1, <1>4, <1>5 DEF HandoffInv, ShiftsAreRatified
  <1>9. HandoffTypes' /\ session'.intention \in {NoProject, session'.project}
    BY <1>1, <1>4 DEF HandoffInv, HandoffTypes
  <1> QED BY <1>1, <1>6, <1>7, <1>8, <1>9 DEF HandoffInv, Holds

LEMMA DeleteKeeps ==
    ASSUME HandoffInv, NEW p \in Projects, Delete(p)
    PROVE  HandoffInv'
  <1>1. acting' = acting /\ shifts' = shifts
    BY DEF Delete
  <1>2. CASE session.project # p
    BY <1>1, <1>2, NobodyMoves DEF Delete, HandoffInv, HandoffTypes
  <1>3. CASE session.project = p
    <2> DEFINE struck(c) == [contracts[c] EXCEPT !.status = "deleted"]
    <2>1. session' = Gone /\ contracts' = [c \in 1 .. Len(contracts) |-> struck(c)]
      BY <1>3 DEF Delete
    <2>2. Len(contracts) \in Nat
      BY LenProperties DEF HandoffInv, HandoffTypes
    <2>3. ASSUME NEW c \in 1 .. Len(contracts)
          PROVE  /\ struck(c) \in ContractRows /\ struck(c).status = "deleted"
                 /\ SameTerms(struck(c), contracts[c]) /\ struck(c).output = contracts[c].output
                 /\ struck(c).kinds = contracts[c].kinds /\ struck(c).of = contracts[c].of
      <3>1. contracts[c] \in ContractRows
        BY ElementOfSeq DEF HandoffInv, HandoffTypes
      <3> QED BY <3>1 DEF ContractRows, SameTerms
    <2> HIDE DEF struck
    <2>4. /\ contracts' \in Seq(ContractRows) /\ Len(contracts') = Len(contracts)
          /\ \A c \in 1 .. Len(contracts) : contracts'[c] = struck(c)
      <3>1. contracts' \in [1 .. Len(contracts) -> ContractRows]
        BY <2>1, <2>3
      <3>2. contracts' \in Seq(ContractRows)
        BY <2>2, <3>1, SeqDef
      <3> QED BY <2>1, <2>2, <3>1, <3>2, LenProperties
    <2>5. Grows
      BY <2>2, <2>3, <2>4 DEF Grows
    <2>6. \A c \in 1 .. Len(contracts') : RowKnows(c)'
      BY <2>3, <2>4, <2>5, RowsStay
    <2>7. \A w \in Callers : CallKnows(w)'
      <3> SUFFICES ASSUME NEW w \in Callers PROVE CallKnows(w)'
        OBVIOUS
      <3>1. \A c : Holds(w, c) => \A i \in 1 .. Len(shifts') : shifts'[i].contract # c
        BY <1>1 DEF HandoffInv, CallKnows, Holds
      <3> QED BY <1>1, <2>5, <3>1, CallStays DEF HandoffInv
    <2>8. ShiftsAreRatified'
      BY <1>1, <2>3, <2>4 DEF HandoffInv, ShiftsAreRatified
    <2>9. HandoffTypes' /\ session'.intention \in {NoProject, session'.project}
      BY <1>1, <2>1, <2>4 DEF HandoffInv, HandoffTypes, Gone, MaybeProject
    <2> QED BY <1>1, <2>4, <2>6, <2>7, <2>8, <2>9 DEF HandoffInv, Holds
  <1> QED BY <1>2, <1>3

LEMMA HandoffStays ==
    ASSUME HandoffInv, UNCHANGED handoffVars
    PROVE  HandoffInv'
  BY NobodyMoves DEF handoffVars, HandoffInv, HandoffTypes

LEMMA HandoffInvStep == HandoffInv /\ [HandoffNext]_handoffVars => HandoffInv'
  <1> SUFFICES ASSUME HandoffInv, [HandoffNext]_handoffVars PROVE HandoffInv'
    OBVIOUS
  <1>1. CASE RevokeSite \/ EndSitting \/ \E p \in Projects : ApproveSite(p) \/ CreateDocument(p)
    BY <1>1, SitesAndDocumentsKeep, HandoffConstants
  <1>2. CASE \E p \in Projects : Delete(p)
    BY <1>2, DeleteKeeps
  <1>3. CASE \E i \in 1 .. Len(shifts) : HandsBack(i)
    BY <1>3, HandsBackKeeps
  <1>4. ASSUME NEW w \in Callers,
               \/ \E p \in Projects : RefileReads(w, p) \/ SplitReads(w, p)
               \/ CarriesSite(w) \/ Moves(w) \/ SplitWritesSkeleton(w)
        PROVE  HandoffInv'
    BY <1>4, FilingKeeps, HandoffConstants
  <1>5. ASSUME NEW w \in Callers,
               DraftReads(w) \/ DraftRefused(w) \/ DraftWritesSkeleton(w) \/ DraftWrites(w)
        PROVE  HandoffInv'
    BY <1>5, DraftingKeeps
  <1>6. ASSUME NEW w \in Callers,
               \E c \in 1 .. Len(contracts), output \in {"draft-changes", "suggestions-only"},
                  edited \in BOOLEAN : AcceptReads(w, c, output, edited)
        PROVE  HandoffInv'
    BY <1>6, AcceptReadsKeeps DEF Outputs
  <1>7. ASSUME NEW w \in Callers,
               AcceptSupersedes(w) \/ AcceptRatifies(w) \/ AcceptMarksAway(w) \/ AcceptEnqueues(w)
        PROVE  HandoffInv'
    BY <1>7, AcceptSupersedesKeeps, AcceptRatifiesKeeps, AcceptMarksAwayKeeps, AcceptEnqueuesKeeps
  <1>8. CASE UNCHANGED handoffVars
    BY <1>8, HandoffStays
  <1> QED BY <1>1, <1>2, <1>3, <1>4, <1>5, <1>6, <1>7, <1>8 DEF HandoffNext

-----------------------------------------------------------------------------
\* Whatever each request read before it waited, it still knows enough to write
\* what it goes on to write (server/actions.ts).
THEOREM HandoffInvariant == HandoffSpec => []HandoffInv
  BY HandoffInvInit, HandoffInvStep, PTL DEF HandoffSpec

\* What is ratified is what the screen showed (acceptContract and the trigger
\* handoff_contract_frozen_once_accepted).
THEOREM AlwaysRatifiedAsShown == HandoffSpec => []RatifiedAsShown
  <1>1. ASSUME HandoffInv PROVE RatifiedAsShown
    <2> SUFFICES ASSUME NEW c \in 1 .. Len(contracts), contracts[c].status = "accepted"
                 PROVE  LET shown == contracts[contracts[c].of] IN
                        /\ contracts[c].base = shown.base
                        /\ contracts[c].intention = shown.intention
                        /\ contracts[c].purchase = shown.purchase
                        /\ contracts[c].kinds = {"look"} \cup
                              {k \in {"change"} : contracts[c].output # "suggestions-only"} \cup
                              {k \in {"complete-purchase"} :
                                  shown.purchase /\ contracts[c].output # "suggestions-only"}
      BY DEF RatifiedAsShown
    <2>1. RowKnows(c)
      BY <1>1 DEF HandoffInv
    <2> QED BY <2>1 DEF RowKnows, SameTerms, KindsFor
  <1> QED BY <1>1, HandoffInvariant, PTL

\* However many windows press the button, a ratification queues one run
\* (acceptContract, runs.enqueue).
THEOREM AlwaysOneShiftPerRatification == HandoffSpec => []OneShiftPerRatification
  <1>1. HandoffInv => OneShiftPerRatification
    BY DEF HandoffInv, ShiftsAreRatified, OneShiftPerRatification
  <1> QED BY <1>1, HandoffInvariant, PTL

\* No sitting has another project's Intention, and no contract works on one
\* project's document towards another's (refileSession, draftContract).
THEOREM ProjectsNeverMix == HandoffSpec => []NothingMixesProjects
  <1>1. HandoffInv => NothingMixesProjects
    BY DEF HandoffInv, RowKnows, OneProject, NothingMixesProjects
  <1> QED BY <1>1, HandoffInvariant, PTL

-----------------------------------------------------------------------------
(***************************************************************************)
(* What is kept about a strand is about the buffer that is held, and what  *)
(* it costs is bounded, for any strands and pages, any number of emptied   *)
(* buffers and whatever makes a strand worth an offer.                     *)
(*                                                                         *)
(* None of the three properties is inductive.  What carries them is that a *)
(* call of this buffer is the only one of its strand, and that its attempt *)
(* is the number of calls paid for.                                        *)
(***************************************************************************)

\* The calls that were asked for from the buffer that is held.
Current == {c \in offerCalls : c.of = generation}

OfferTypes ==
    /\ generation \in Nat
    /\ offers \in [Threads -> {NoOffer, generation}]
    /\ asked \in [Threads -> [name : Nat, offer : Nat]]
    /\ offerCalls \subseteq [thread : Threads, of : 0 .. generation, attempt : Nat]
    /\ attemptedNames \subseteq Threads /\ attemptedOffers \subseteq Threads

\* A marker is set only on what has been attempted.
Marked == naming \subseteq attemptedNames /\ composing \subseteq attemptedOffers

\* What has been attempted is what has been paid for.
Paid ==
    \A t \in Threads :
        /\ asked[t].name = IF t \in attemptedNames THEN 1 ELSE 0
        /\ t \in attemptedOffers => asked[t].offer \in 1 .. ComposeAttempts
        /\ t \notin attemptedOffers => asked[t].offer = 0

\* A call of this buffer is its strand's only one, and the last paid for.
OneCall ==
    /\ \A c \in Current : c.thread \in attemptedOffers /\ asked[c.thread].offer = c.attempt
    /\ \A c, d \in Current : c.thread = d.thread => c = d

OfferInv == OfferTypes /\ Marked /\ Paid /\ OneCall

kept == <<generation, offers, asked, offerCalls, attemptedNames, attemptedOffers, naming,
          composing>>

\* Before anything was browsed nothing is kept.
LEMMA OfferInvInit == OffersInit => OfferInv
  BY DEF OffersInit, OfferInv, OfferTypes, Marked, Paid, OneCall, Current, NotAsked, NoOffer

\* A step that leaves what is kept about offers alone leaves the invariant.
LEMMA OfferInvKept == OfferInv /\ UNCHANGED kept => OfferInv'
  BY DEF OfferInv, OfferTypes, Marked, Paid, OneCall, Current, kept

\* A strand is shown: it is asked about at most once.
LEMMA PollShowsKeeps == OfferInv /\ PollShows => OfferInv'
  <1> SUFFICES ASSUME OfferInv, PollShows PROVE OfferInv'
    OBVIOUS
  <1>1. CASE UNCHANGED <<store, calls>>
    BY <1>1, OfferInvKept DEF store, calls, kept
  <1>2. CASE ~ UNCHANGED <<store, calls>>
    <2> DEFINE Shows(shown, lead) ==
            LET unnamed == {t \in shown : names[t] = NoName /\ t \notin attemptedNames}
                composes == {lead} \cap {t \in Threads : MayCompose(t)}
            IN  /\ naming' = naming \cup unnamed
                /\ attemptedNames' = attemptedNames \cup unnamed
                /\ IF composes = {} THEN UNCHANGED <<composing, attemptedOffers>>
                                    ELSE StartComposing(lead)
                /\ offerCalls' = offerCalls \cup [thread : composes, of : {generation},
                                                  attempt : {1}]
                /\ asked' = [t \in Threads |->
                      [name |-> asked[t].name + (IF t \in unnamed THEN 1 ELSE 0),
                       offer |-> asked[t].offer + (IF t \in composes THEN 1 ELSE 0)]]
                /\ UNCHANGED <<held, generation, names, offers, snoozed>>
    <2>0. \E shown \in SUBSET Noticed(poll.pages) : \E lead \in shown : Shows(shown, lead)
      BY <1>2 DEF PollShows
    <2>a. PICK shown \in SUBSET Noticed(poll.pages) : \E lead \in shown : Shows(shown, lead)
      BY <2>0
    <2>1. PICK lead \in shown : Shows(shown, lead)
      BY <2>a
    <2> DEFINE unnamed == {t \in shown : names[t] = NoName /\ t \notin attemptedNames}
               composes == {lead} \cap {t \in Threads : MayCompose(t)}
    <2>2. unnamed \subseteq Threads /\ unnamed \cap attemptedNames = {}
      BY DEF Noticed
    <2>3. composes \subseteq Threads /\ composes \cap attemptedOffers = {}
      BY DEF MayCompose
    <2>4. /\ naming' = naming \cup unnamed
          /\ attemptedNames' = attemptedNames \cup unnamed
          /\ offerCalls' = offerCalls \cup [thread : composes, of : {generation},
                                            attempt : {1}]
          /\ asked' = [t \in Threads |->
                [name |-> asked[t].name + (IF t \in unnamed THEN 1 ELSE 0),
                 offer |-> asked[t].offer + (IF t \in composes THEN 1 ELSE 0)]]
          /\ generation' = generation /\ offers' = offers
      BY <2>1
    <2>5. composing' = composing \cup composes /\ attemptedOffers' = attemptedOffers \cup composes
      <3>1. CASE composes = {}
        BY <2>1, <3>1
      <3>2. CASE composes # {}
        <4>1. composes = {lead}
          BY <3>2
        <4> QED BY <2>1, <3>2, <4>1 DEF StartComposing
      <3> QED BY <3>1, <3>2
    <2>6. \A t \in Threads :
            /\ asked'[t].name = asked[t].name + (IF t \in unnamed THEN 1 ELSE 0)
            /\ asked'[t].offer = asked[t].offer + (IF t \in composes THEN 1 ELSE 0)
      BY <2>4
    <2>7. \A c \in Current' : c \in Current \/ (c.thread \in composes /\ c.attempt = 1)
      BY <2>4 DEF Current
    <2> HIDE DEF unnamed, composes
    <2>8. OfferTypes'
      <3>1. asked' \in [Threads -> [name : Nat, offer : Nat]]
        BY <2>4 DEF OfferInv, OfferTypes
      <3>2. offerCalls' \subseteq [thread : Threads, of : 0 .. generation', attempt : Nat]
        BY <2>3, <2>4 DEF OfferInv, OfferTypes
      <3> QED BY <2>2, <2>3, <2>4, <2>5, <3>1, <3>2 DEF OfferInv, OfferTypes
    <2>9. Marked'
      BY <2>4, <2>5 DEF OfferInv, Marked
    <2>10. Paid'
      BY <2>2, <2>3, <2>4, <2>5, <2>6 DEF OfferInv, Paid, OfferTypes, ComposeAttempts
    <2>11. OneCall'
      <3>1. \A c \in Current : c.thread \notin composes
        BY <2>3 DEF OfferInv, OneCall
      <3>2. \A c \in Current : c.thread \in Threads /\ asked[c.thread].offer \in Nat
        BY DEF OfferInv, OneCall, OfferTypes, Current
      <3>3. \A t \in composes : asked[t].offer = 0
        BY <2>3 DEF OfferInv, Paid
      <3>4. \A c \in Current' :
              c.thread \in attemptedOffers' /\ asked'[c.thread].offer = c.attempt
        BY <2>3, <2>5, <2>6, <2>7, <3>1, <3>2, <3>3 DEF OfferInv, OneCall
      <3>5. \A c, d \in Current' : c.thread = d.thread => c = d
        <4> SUFFICES ASSUME NEW c \in Current', NEW d \in Current', c.thread = d.thread
                     PROVE  c = d
          OBVIOUS
        <4>1. CASE c \in Current
          BY <2>7, <3>1, <4>1 DEF OfferInv, OneCall
        <4>2. CASE c \notin Current
          <5>1. c \notin offerCalls /\ d \notin offerCalls
            BY <2>4, <2>7, <3>1, <4>2 DEF Current
          <5>2. /\ c \in [thread : composes, of : {generation}, attempt : {1}]
                /\ d \in [thread : composes, of : {generation}, attempt : {1}]
            BY <2>4, <5>1 DEF Current
          <5> QED BY <5>2
        <4> QED BY <4>1, <4>2
      <3> QED BY <3>4, <3>5 DEF OneCall
    <2> QED BY <2>8, <2>9, <2>10, <2>11 DEF OfferInv
  <1> QED BY <1>1, <1>2

\* A name that arrives, or does not, marks only what was marked already.
LEMMA NamesKeep ==
    ASSUME OfferInv, NEW c \in nameCalls, NameArrives(c) \/ NameFails(c)
    PROVE  OfferInv'
  <1>1. /\ UNCHANGED <<generation, offers, asked, offerCalls, attemptedOffers, composing>>
        /\ naming' \subseteq naming
        /\ attemptedNames' = attemptedNames
    BY DEF NameArrives, NameFails, FinishNaming, OfferInv, Marked
  <1> QED BY <1>1 DEF OfferInv, OfferTypes, Marked, Paid, OneCall, Current

\* The answer to a call of an emptied buffer changes nothing that is kept.
LEMMA OffersKeep ==
    ASSUME OfferInv, NEW c \in offerCalls, OfferArrives(c) \/ OfferRefused(c)
    PROVE  OfferInv'
  <1>1. /\ UNCHANGED <<generation, asked, naming, attemptedNames>>
        /\ composing' \subseteq composing
        /\ attemptedOffers' = attemptedOffers
        /\ offerCalls' \subseteq offerCalls
    BY DEF OfferArrives, OfferRefused, FinishComposing, OfferInv, Marked
  <1>2. offers' \in [Threads -> {NoOffer, generation}]
    BY DEF OfferArrives, OfferRefused, SameBuffer, OfferInv, OfferTypes
  <1> QED BY <1>1, <1>2 DEF OfferInv, OfferTypes, Marked, Paid, OneCall, Current

\* A call made again is paid for again, and there is no third.
LEMMA RetryKeeps ==
    ASSUME OfferInv, NEW c \in offerCalls, OfferRetried(c)
    PROVE  OfferInv'
  <1> DEFINE again == [c EXCEPT !.attempt = @ + 1]
  <1>1. /\ UNCHANGED <<generation, offers, naming, attemptedNames, composing, attemptedOffers>>
        /\ offerCalls' = (offerCalls \ {c}) \cup {again}
        /\ asked' = [asked EXCEPT ![c.thread].offer = @ + 1]
    BY DEF OfferRetried, store
  <1>2. c \in Current /\ c.attempt < 2
    BY DEF OfferRetried, SameBuffer, Current, ComposeAttempts
  <1>3. /\ c \in [thread : Threads, of : 0 .. generation, attempt : Nat]
        /\ c.thread \in attemptedOffers /\ asked[c.thread].offer = c.attempt
    BY <1>2 DEF OfferInv, OfferTypes, OneCall
  <1>4. /\ again \in [thread : Threads, of : 0 .. generation, attempt : Nat]
        /\ again.thread = c.thread /\ again.of = c.of /\ again.attempt = c.attempt + 1
    BY <1>3
  <1>5. \A t \in Threads :
          /\ asked'[t].name = asked[t].name
          /\ asked'[t].offer = IF t = c.thread THEN asked[t].offer + 1 ELSE asked[t].offer
    BY <1>1, <1>3 DEF OfferInv, OfferTypes
  <1>6. \A d \in Current' : d = again \/ (d \in Current /\ d.thread # c.thread)
    BY <1>1, <1>2 DEF Current, OfferInv, OneCall
  <1> HIDE DEF again
  <1>7. OfferTypes'
    <2>1. asked' \in [Threads -> [name : Nat, offer : Nat]]
      BY <1>1, <1>3 DEF OfferInv, OfferTypes
    <2> QED BY <1>1, <1>4, <2>1 DEF OfferInv, OfferTypes
  <1>8. Marked'
    BY <1>1 DEF OfferInv, Marked
  <1>9. Paid'
    BY <1>1, <1>2, <1>3, <1>5 DEF OfferInv, Paid, ComposeAttempts
  <1>10. OneCall'
    <2>1. \A d \in Current : d.thread \in Threads
      BY DEF OfferInv, OfferTypes, Current
    <2> QED BY <1>1, <1>3, <1>4, <1>5, <1>6, <2>1 DEF OfferInv, OneCall
  <1> QED BY <1>7, <1>8, <1>9, <1>10 DEF OfferInv

\* An emptied buffer is a new one: no call under way is of it.
LEMMA ClearKeeps == OfferInv /\ AcceptClears => OfferInv'
  <1> SUFFICES ASSUME OfferInv, AcceptClears PROVE OfferInv'
    OBVIOUS
  <1>1. /\ generation' = generation + 1 /\ generation \in Nat
        /\ naming' = {} /\ attemptedNames' = {} /\ composing' = {} /\ attemptedOffers' = {}
        /\ offers' = [t \in Threads |-> NoOffer]
        /\ asked' = NotAsked /\ offerCalls' = offerCalls
    BY DEF AcceptClears, Clear, OfferInv, OfferTypes
  <1>2. Current' = {}
    BY <1>1 DEF Current, OfferInv, OfferTypes
  <1>3. OfferTypes'
    BY <1>1 DEF OfferInv, OfferTypes, NotAsked
  <1> QED BY <1>1, <1>2, <1>3 DEF OfferInv, Marked, Paid, OneCall, NotAsked

\* Every step keeps the invariant.
LEMMA OfferInvStep == OfferInv /\ [OffersNext]_offersVars => OfferInv'
  <1> SUFFICES ASSUME OfferInv, [OffersNext]_offersVars PROVE OfferInv'
    OBVIOUS
  <1>1. CASE BatchArrives \/ BatchLands \/ Trim \/ PollReads
    BY <1>1, OfferInvKept DEF BatchArrives, BatchLands, Trim, PollReads, store, calls, kept
  <1>2. CASE PollShows
    BY <1>2, PollShowsKeeps
  <1>3. CASE \E c \in nameCalls : NameArrives(c) \/ NameFails(c)
    BY <1>3, NamesKeep
  <1>4. CASE \E c \in offerCalls : OfferArrives(c) \/ OfferRefused(c)
    BY <1>4, OffersKeep
  <1>5. CASE \E c \in offerCalls : OfferRetried(c)
    BY <1>5, RetryKeeps
  <1>6. CASE \E t \in Threads : Decline(t) \/ SnoozeEnds(t) \/ OpenScreen(t)
    BY <1>6, OfferInvKept DEF Decline, SnoozeEnds, OpenScreen, store, calls, kept
  <1>7. CASE Accept \/ AcceptStarts \/ SessionEnds
    BY <1>7, OfferInvKept DEF Accept, AcceptStarts, SessionEnds, store, calls, kept
  <1>8. CASE AcceptClears
    BY <1>8, ClearKeeps
  <1>9. CASE UNCHANGED offersVars
    BY <1>9, OfferInvKept DEF offersVars, store, calls, kept
  <1> QED BY <1>1, <1>2, <1>3, <1>4, <1>5, <1>6, <1>7, <1>8, <1>9 DEF OffersNext

\* The invariant the three properties follow from.
THEOREM OfferInvariant == OffersSpec => []OfferInv
  BY OfferInvInit, OfferInvStep, PTL DEF OffersSpec

\* An answer that comes after its buffer was emptied, or the lack of one, leaves
\* no trace in the next, however often buffers are emptied and strands met again.
THEOREM OffersAreAlwaysOfThisBuffer == OffersSpec => []OffersAreOfThisBuffer
  <1>1. OfferInv => OffersAreOfThisBuffer
    BY DEF OfferInv, OfferTypes, Paid, OffersAreOfThisBuffer
  <1> QED BY OfferInvariant, <1>1, PTL

\* One call for a name and two for an offer, however polls and answers cross.
THEOREM PaidCallsAreAlwaysBounded == OffersSpec => []PaidCallsAreBounded
  <1>1. OfferInv => PaidCallsAreBounded
    BY DEF OfferInv, OfferTypes, Paid, PaidCallsAreBounded, ComposeAttempts
  <1> QED BY OfferInvariant, <1>1, PTL

=============================================================================
