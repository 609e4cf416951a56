----------------------------- MODULE Changesets ------------------------------
(***************************************************************************)
(* How a rewritten text becomes changes to be decided on, and decisions a  *)
(* text: domain/document/changeset.ts, and the rewriting of a section in   *)
(* server/outcomes/document-changes.ts.                                    *)
(*                                                                         *)
(* A document is a sequence of lines, in the form normalise leaves them; a *)
(* line is one token, or Blank.  The text itself, which offsets count into,*)
(* is the lines' tokens with a Break between two lines: what happens at    *)
(* the edge of a line is kept, what is within it is not.                   *)
(***************************************************************************)
EXTENDS Integers, Sequences, SequencesExt

CONSTANT Headings    \* the lines that begin a section

Blank == "blank"
Break == "break"

\* lines.join('\n')
Text(lines) ==
    LET joined[k \in 0 .. Len(lines)] ==
          IF k = 0 THEN <<>>
          ELSE joined[k - 1] \o (IF k = 1 THEN <<>> ELSE <<Break>>)
                             \o (IF lines[k] = Blank THEN <<>> ELSE <<lines[k]>>)
    IN  joined[Len(lines)]

\* text.split('\n'), of a text in which no two lines have been run together.
LinesOf(text) ==
    LET read[n \in 0 .. Len(text)] ==
          IF n = 0 THEN <<Blank>>
          ELSE IF text[n] = Break THEN Append(read[n - 1], Blank)
          ELSE [read[n - 1] EXCEPT ![Len(read[n - 1])] = text[n]]
    IN  read[Len(text)]

\* withSection: a section's body replaced, or the section appended.
WithSection(lines, heading, prose) ==
    IF ~ Contains(lines, heading)
      THEN LET blanksAtEnd == {k \in 0 .. Len(lines) :
                                  \A i \in k + 1 .. Len(lines) : lines[i] = Blank}
               kept == CHOOSE k \in blanksAtEnd : \A j \in blanksAtEnd : k <= j
           IN  SubSeq(lines, 1, kept) \o <<Blank, heading, Blank>> \o prose \o <<Blank>>
      ELSE LET start == SelectInSeq(lines, LAMBDA l : l = heading)
               next == {i \in start + 1 .. Len(lines) : lines[i] \in Headings}
               rest == IF next = {} THEN Len(lines) + 1
                       ELSE CHOOSE i \in next : \A j \in next : i <= j
           IN  SubSeq(lines, 1, start) \o <<Blank>> \o prose \o <<Blank>>
                 \o SubSeq(lines, rest, Len(lines))

-----------------------------------------------------------------------------
(* The difference.                                                         *)

\* lcsMatrix: the longest common subsequence of the lines from i and j on.
Common(a, b) ==
    LET lcs[i \in 0 .. Len(a), j \in 0 .. Len(b)] ==
          IF i = Len(a) \/ j = Len(b) THEN 0
          ELSE IF a[i + 1] = b[j + 1] THEN 1 + lcs[i + 1, j + 1]
          ELSE LET down == lcs[i + 1, j]  across == lcs[i, j + 1]
               IN  IF down >= across THEN down ELSE across
    IN  lcs

\* close: a block is open where it began.
Closed(open, i, j) ==
    IF open = <<i, j>> THEN <<>>
    ELSE <<[aStart |-> open[1], aEnd |-> i, bStart |-> open[2], bEnd |-> j]>>

\* A turn of the loop that walks both along a common subsequence.
Walked(a, b, at) ==
    IF at.i = Len(a) \/ at.j = Len(b) THEN at
    ELSE IF a[at.i + 1] = b[at.j + 1]
      THEN [i |-> at.i + 1, j |-> at.j + 1, open |-> <<at.i + 1, at.j + 1>>,
            blocks |-> at.blocks \o Closed(at.open, at.i, at.j)]
    ELSE IF Common(a, b)[at.i + 1, at.j] >= Common(a, b)[at.i, at.j + 1]
      THEN [at EXCEPT !.i = @ + 1]
    ELSE [at EXCEPT !.j = @ + 1]

\* changedBlocks
ChangedBlocks(a, b) ==
    LET walk[n \in 0 .. Len(a) + Len(b)] ==
          IF n = 0 THEN [i |-> 0, j |-> 0, open |-> <<0, 0>>, blocks |-> <<>>]
          ELSE Walked(a, b, walk[n - 1])
        end == walk[Len(a) + Len(b)]
    IN  end.blocks \o Closed(end.open, Len(a), Len(b))

\* Where line k, counted from 0, begins and ends in the text.
EndOf(lines, k) == Len(Text(SubSeq(lines, 1, k + 1)))
StartOf(lines, k) == IF k = 0 THEN 0 ELSE EndOf(lines, k - 1) + 1

\* An insertion has zero width at the boundary it is made at.
ChangeOf(base, proposed, block) ==
    LET start == IF block.aStart < Len(base) THEN StartOf(base, block.aStart)
                 ELSE EndOf(base, Len(base) - 1)
    IN  [start |-> start,
         end |-> IF block.aEnd > block.aStart THEN EndOf(base, block.aEnd - 1) ELSE start,
         exact |-> Text(SubSeq(base, block.aStart + 1, block.aEnd)),
         replacement |-> Text(SubSeq(proposed, block.bStart + 1, block.bEnd))]

\* diff, which leaves out a block that reads the same on both sides.
Diff(base, proposed) ==
    LET blocks == ChangedBlocks(base, proposed)
        made[n \in 0 .. Len(blocks)] ==
          IF n = 0 THEN <<>>
          ELSE LET c == ChangeOf(base, proposed, blocks[n])
               IN  IF c.exact = c.replacement THEN made[n - 1] ELSE Append(made[n - 1], c)
    IN  made[Len(blocks)]

-----------------------------------------------------------------------------
(* The decisions.                                                          *)

Splice(text, change, replacement) ==
    SubSeq(text, 1, change.start) \o replacement \o SubSeq(text, change.end + 1, Len(text))

\* What a change puts in its place.
Put(change, verdict) == IF verdict = "edit" THEN <<"edited">> ELSE change.replacement

Decided(text, change, verdict) ==
    IF verdict = "reject" THEN text ELSE Splice(text, change, Put(change, verdict))

MisMaterialise(text, changes, verdicts) ==
    LET out[n \in 0 .. Len(changes)] ==
          IF n = 0 THEN text ELSE Decided(out[n - 1], changes[n], verdicts[n])
    IN  out[Len(changes)]

\* The one to come next, from the right, and of those at one place the first.
Rightmost(changes, left) ==
    CHOOSE k \in left : \A l \in left :
        \/ changes[l].start < changes[k].start
        \/ changes[l].start = changes[k].start /\ k <= l

\* materialise: what was not turned down, the rightmost first.
Materialise(text, changes, verdicts) ==
    LET fold[n \in 0 .. Len(changes)] ==
          IF n = 0 THEN [left |-> 1 .. Len(changes), out |-> text]
          ELSE LET k == Rightmost(changes, fold[n - 1].left)
               IN  [left |-> fold[n - 1].left \ {k},
                    out |-> Decided(fold[n - 1].out, changes[k], verdicts[k])]
    IN  fold[Len(changes)].out

\* checkDrift, a hash standing for what it is of.
SameText(text, base) == text = base

=============================================================================
