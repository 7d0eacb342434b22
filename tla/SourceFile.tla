------------------------------ MODULE SourceFile ------------------------------
(***************************************************************************)
(* The agent's edits of a source file (crates/peripheral/src/source.rs).   *)
(* A file is a sequence of pieces of text and line ends; that is as much   *)
(* of its characters as the edits tell apart.                              *)
(***************************************************************************)
EXTENDS Integers, Sequences, FiniteSets

CONSTANTS
    Texts,    \* pieces of text within a line
    NL        \* a line end

ASSUME SourceFileAssumption == NL \notin Texts

Pieces == Texts \cup {NL}

\* line_spans, by the ends of the lines: after each line end, and at the end
\* of a file whose last line has none.
Ends(content) ==
    {i \in 1..Len(content) : content[i] = NL \/ i = Len(content)}
LineCount(content) == Cardinality(Ends(content))

\* Where line k ends; 0 for k = 0.
EndOf(content, k) ==
    IF k = 0 THEN 0
    ELSE CHOOSE e \in Ends(content) : Cardinality({i \in Ends(content) : i <= e}) = k

\* The range of a request: by line numbers from 1, or by an offset from 0 and
\* a limit of at least one line.
LinesOf(start, end) == <<start, end>>
OffsetLimit(offset, limit) == <<offset + 1, offset + (IF limit = 0 THEN 1 ELSE limit)>>

\* What both reading and editing refuse.
BadRange(start, end) == start = 0 \/ end = 0 \/ end < start

\* apply_line_range_edit, its refusals: a range is within the file, or it is
\* the line after the last.
CannotEdit(content, start, end) ==
    \/ BadRange(start, end)
    \/ start > LineCount(content) + 1
    \/ end > LineCount(content) /\ ~(start = LineCount(content) + 1 /\ end = start)

\* Mutant: the last line of the range is kept.
EditLinesExclusive(content, replacement, start, end) ==
    LET append == start = LineCount(content) + 1
        from == IF append THEN Len(content) ELSE EndOf(content, start - 1)
        to == IF append THEN Len(content) ELSE EndOf(content, end - 1)
    IN  SubSeq(content, 1, from) \o replacement
            \o SubSeq(content, to + 1, Len(content))

\* apply_line_range_edit, when it is not refused: the replacement is put in
\* as it is, whether or not it ends its last line.
EditLines(content, replacement, start, end) ==
    LET append == start = LineCount(content) + 1
        from == IF append THEN Len(content) ELSE EndOf(content, start - 1)
        to == IF append THEN Len(content) ELSE EndOf(content, end)
    IN  SubSeq(content, 1, from) \o replacement
            \o SubSeq(content, to + 1, Len(content))

\* read_file_range, when it is not refused: the lines without their ends.
CannotRead(content, start, end) ==
    BadRange(start, end) \/ (content # <<>> /\ start > LineCount(content))
Line(content, k) ==
    LET end == EndOf(content, k)
    IN  SubSeq(content, EndOf(content, k - 1) + 1,
               IF content[end] = NL THEN end - 1 ELSE end)
ReadLines(content, start, end) ==
    LET last == IF end < LineCount(content) THEN end ELSE LineCount(content)
    IN  [k \in 1..(last - start + 1) |-> Line(content, start + k - 1)]

\* Does old begin after the first i pieces?
OccursAt(content, old, i) ==
    i + Len(old) <= Len(content) /\ SubSeq(content, i + 1, i + Len(old)) = old

Places(content, old) == {i \in 0..Len(content) : OccursAt(content, old, i)}

\* matches(old).count(): from the left, each place after the one before.
Matches(content, old) ==
    LET n == Len(content)
        count[i \in 0..(n + 1)] ==
            IF i >= n THEN 0
            ELSE IF OccursAt(content, old, i) THEN 1 + count[i + Len(old)]
            ELSE count[i + 1]
    IN  count[0]

\* edit_file: its refusals, and the replacement of the first place.
CannotReplace(content, old) == Matches(content, old) # 1
Replaced(content, old, new) ==
    LET at == CHOOSE i \in Places(content, old) :
                  \A j \in Places(content, old) : i <= j
    IN  SubSeq(content, 1, at) \o new \o SubSeq(content, at + Len(old) + 1, Len(content))

-----------------------------------------------------------------------------
(* What is said about edits.                                               *)

\* Text whose last line has its end, as the range edit needs it.
Whole(content) == content = <<>> \/ content[Len(content)] = NL

Lines(content) == [k \in 1..LineCount(content) |-> Line(content, k)]

\* May two places of old in a text overlap?
Overlaps(old) ==
    \E i \in 1..(Len(old) - 1) : SubSeq(old, i + 1, Len(old)) = SubSeq(old, 1, Len(old) - i)

=============================================================================
