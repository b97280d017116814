------------------------------ MODULE TextEdits ------------------------------
(***************************************************************************)
(* _apply_base_replacements: how a `replace' state turns the current text  *)
(* of a work into the next one.  Every anchor is looked up in the base     *)
(* text, must occur there exactly once and overlap no other; the           *)
(* replacements are then spliced in from the end of the text backwards.    *)
(*                                                                         *)
(* A text is a sequence of characters, edits a sequence of anchors with    *)
(* their replacements.  Positions count from 1, so a span is               *)
(* {first, ..., last}.                                                     *)
(***************************************************************************)
EXTENDS Naturals, Sequences, SequencesExt, FiniteSets, FiniteSetsExt

\* Where the anchor occurs; occurrences may overlap.
Occurrences(text, anchor) ==
    {i \in 1 .. Len(text) - Len(anchor) + 1 : SubSeq(text, i, i + Len(anchor) - 1) = anchor}

\* str.find from a position on; 0 when there is none.
Find(text, anchor, from) ==
    LET found == {i \in Occurrences(text, anchor) : i >= from} IN
    IF found = {} THEN 0 ELSE Min(found)

\* Mutant: the second search begins after the first occurrence.
UniqueSkipping(text, anchor) ==
    LET first == Find(text, anchor, 1) IN
    first # 0 /\ Find(text, anchor, first + Len(anchor)) = 0

\* _replacement_span raises no error.
Unique(text, anchor) ==
    LET first == Find(text, anchor, 1) IN
    first # 0 /\ Find(text, anchor, first + 1) = 0

Span(text, edit) ==
    LET first == Find(text, edit.anchor, 1) IN
    [first |-> first, last |-> first + Len(edit.anchor) - 1, text |-> edit.text]

\* sorted(edits, key=start).
Ordered(text, edits) ==
    SortSeq([i \in DOMAIN edits |-> Span(text, edits[i])], LAMBDA a, b : a.first < b.first)

\* any(left[1] > right[0] for ... in pairwise(ordered)).
Overlapping(spans) == \E i \in 1 .. Len(spans) - 1 : spans[i].last >= spans[i + 1].first

Refused(text, edits) ==
    \/ \E i \in DOMAIN edits : ~Unique(text, edits[i].anchor)
    \/ Overlapping(Ordered(text, edits))

\* text[:n] and text[n:], which take what there is.
UpTo(text, n) == SubSeq(text, 1, Min({n, Len(text)}))
From(text, n) == SubSeq(text, n + 1, Len(text))

Splice(text, e) == UpTo(text, e.first - 1) \o e.text \o From(text, e.last)

\* for ... in reversed(ordered).
Spliced(text, edits) == FoldRight(LAMBDA e, t : Splice(t, e), Ordered(text, edits), text)
-----------------------------------------------------------------------------
(* What the replacements mean, said without an order.                      *)

\* The characters an edit stands for, wherever its anchor is in the text.
Covered(text, e) == UNION {i .. i + Len(e.anchor) - 1 : i \in Occurrences(text, e.anchor)}

\* Every anchor occurs once, and no character belongs to two.
Applicable(text, edits) ==
    /\ \A i \in DOMAIN edits : Cardinality(Occurrences(text, edits[i].anchor)) = 1
    /\ \A i, j \in DOMAIN edits :
         i # j => Covered(text, edits[i]) \cap Covered(text, edits[j]) = {}

\* At its first character an anchor gives way to its replacement; its other
\* characters vanish and all the rest stays.
Meant(text, edits) ==
    FlattenSeq([p \in DOMAIN text |->
        LET at == {i \in DOMAIN edits : p \in Covered(text, edits[i])} IN
        IF at = {} THEN <<text[p]>>
        ELSE LET e == edits[CHOOSE i \in at : TRUE] IN
             IF p = Min(Covered(text, e)) THEN e.text ELSE <<>>])
=============================================================================
