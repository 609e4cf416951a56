------------------------------- MODULE Grounds -------------------------------
(***************************************************************************)
(* When what somebody read is enough to offer to do something about it:    *)
(* domain/detection/grounds.ts.  It wants a sign that they chose the       *)
(* subject and signs, along enough separate axes, that they put time into  *)
(* it; every earlier no raises the number of axes.                         *)
(*                                                                         *)
(* A page is a record [url, origin, at, engaged, visits, returns, scroll,  *)
(* hidden, query, onSubject]: "at" and "engaged" in units of 20 seconds,   *)
(* "returns" the ways it was arrived at again, "scroll" in halves of its   *)
(* height (Unknown if nobody measured it), "query" the search it is the    *)
(* result of, NoQuery if it is none, "onSubject" whether its words share   *)
(* one with the strand's.                                                  *)
(***************************************************************************)
EXTENDS Integers, FiniteSets

NoQuery == "none"
Unknown == -1

DeepRead == 3        \* DEEP_READ_MS, one minute
ReadAroundFor == 1   \* READ_AROUND_MS, twenty seconds
Sustained == 45      \* SUSTAINED_MS, a quarter of an hour

IntentGrounds == {"searched-then-read", "refined-the-search", "came-back"}
InvestmentAxes == {{"read-deeply"}, {"stayed-with-it"},
                   {"followed-across", "read-around"}, {"compared-options"}}

HeldOpenUnread(page) == page.scroll = 0 /\ page.hidden
WasRead(page) == page.engaged >= ReadAroundFor /\ ~HeldOpenUnread(page)
IsSearch(page) == page.query # NoQuery

\* pursuitOf: the searches that are about the strand.
Searches(pages) == {p \in pages : IsSearch(p) /\ p.onSubject}
Queries(pages) == {page.query : page \in Searches(pages)}

\* Pages read, not searched, after the first search.
ReadAfterQuery(pages) ==
    {p \in pages : /\ ~IsSearch(p) /\ p.engaged > 0
                   /\ \E q \in Searches(pages) : p.at > q.at}

CameBack(pages) ==
    \E p \in pages : /\ p.visits >= 2
                     /\ p.returns \cap {"cross-origin", "no-referrer", "back-or-forward"} # {}

ReadAround(pages) ==
    \E o \in {p.origin : p \in pages} :
        Cardinality({p.url : p \in {q \in pages : /\ q.origin = o /\ WasRead(q)
                                                  /\ ~IsSearch(q)}}) >= 3

ComparedOptions(pages) ==
    LET compared == {p \in pages : WasRead(p) /\ ~IsSearch(p) /\ p.scroll >= 1}
    IN  /\ Cardinality({p.origin : p \in compared}) >= 3
        /\ \E p \in compared : "cross-origin" \in p.returns

\* groundsFor: the signs that are there.
GroundsFor(pages) ==
    {kind \in UNION InvestmentAxes \cup IntentGrounds :
        CASE kind = "searched-then-read" -> Cardinality(ReadAfterQuery(pages)) >= 2
          [] kind = "refined-the-search" -> Cardinality(Queries(pages)) >= 2
          [] kind = "came-back" -> CameBack(pages)
          [] kind = "read-deeply" ->
                \E p \in pages : ~HeldOpenUnread(p) /\ p.engaged >= DeepRead
          [] kind = "stayed-with-it" -> \E p, q \in pages : p.at - q.at >= Sustained
          [] kind = "followed-across" -> Cardinality({p.origin : p \in pages}) >= 3
          [] kind = "read-around" -> ReadAround(pages)
          [] kind = "compared-options" -> ComparedOptions(pages)}

AxesOf(kinds) == {axis \in InvestmentAxes : axis \cap kinds # {}}
AxesRequired(declines) == 2 + (IF declines > 2 THEN 2 ELSE declines)

\* A single act must not pay twice, so it is axes that are counted.
Sufficient(pages, declines) ==
    /\ GroundsFor(pages) \cap IntentGrounds # {}
    /\ Cardinality(AxesOf(GroundsFor(pages))) >= AxesRequired(declines)

=============================================================================
