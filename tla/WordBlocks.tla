----------------------------- MODULE WordBlocks -----------------------------
(***************************************************************************)
(* How a paragraph of a Word document becomes a block of text and takes a  *)
(* new text (src/src/oveo/docx.py): _paragraph_layout splits its text      *)
(* around its hyperlinks, _paragraph_block decides whether it may be       *)
(* edited, _patch_paragraph writes a validated replacement into the        *)
(* paragraph's own elements.                                               *)
(*                                                                         *)
(* A paragraph is the sequence of its tags: "(" and ")" enclose a run, "<" *)
(* and ">" a hyperlink element (or simple HYPERLINK field); "text" is a    *)
(* text node, tab, line break or hyphen; "br" a page or column break;      *)
(* "begin", "code" (a HYPERLINK instruction), "other" (any other), "sep"   *)
(* and "end" belong to complex fields.  Tags of the document are known by  *)
(* an id, those the patch writes have id 0.  A replacement has a text for  *)
(* every stretch between hyperlinks and one for every hyperlink.           *)
(***************************************************************************)
EXTENDS Naturals, Sequences, SequencesExt, FiniteSets, FiniteSetsExt

CONSTANT MaxPieces    \* bound: pieces of a paragraph

Tag(kind) == [id |-> 0, kind |-> kind, text |-> <<>>]
TextTag(text) == [id |-> 0, kind |-> "text", text |-> text]

TextOf(items) == FlattenSeq([i \in DOMAIN items |-> items[i].text])
-----------------------------------------------------------------------------
(* _paragraph_layout                                                       *)

NoLayout == [at |-> "bad", plain |-> <<>>, links |-> <<>>]

Outside == [at |-> "plain", plain |-> << <<>> >>, links |-> <<>>,
            start |-> 0, items |-> <<>>, code |-> ""]

\* The link or field that is open ends here, and the next stretch begins.
Closed(s, tag) ==
    [s EXCEPT !.at = "plain", !.plain = Append(@, <<>>),
              !.links = Append(@, [start |-> s.start, end |-> tag.id, items |-> s.items])]

\* One tag, in document order; "bad" leaves the paragraph alone.
Laid(s, tag) ==
    LET opens(where) == [s EXCEPT !.at = where, !.start = tag.id, !.items = <<>>, !.code = ""]
    IN
    CASE s.at = "bad" \/ tag.kind \in {"(", ")", "br"} -> s
      [] tag.kind = "text" /\ s.at = "plain" -> [s EXCEPT !.plain[Len(s.plain)] = Append(@, tag)]
      [] tag.kind = "text" /\ s.at \in {"link", "result"} -> [s EXCEPT !.items = Append(@, tag)]
      [] tag.kind = "<" /\ s.at = "plain" -> opens("link")
      [] tag.kind = ">" -> Closed(s, tag)
      [] tag.kind = "begin" /\ s.at = "plain" -> opens("field")
      [] tag.kind \in {"code", "other"} /\ s.at = "field" ->
           [s EXCEPT !.code = IF @ = "" THEN tag.kind ELSE @]
      [] tag.kind = "sep" /\ s.at = "field" /\ s.code = "code" -> [s EXCEPT !.at = "result"]
      [] tag.kind = "end" /\ s.at = "result" -> Closed(s, tag)
      [] OTHER -> NoLayout

Layout(p) ==
    LET s == FoldLeft(Laid, Outside, p) IN IF s.at = "plain" THEN s ELSE NoLayout

-----------------------------------------------------------------------------
(* _paragraph_block                                                        *)

WithText(p) == {i \in DOMAIN p : p[i].kind = "text" /\ p[i].text # <<>>}
LayoutBreaks(p) == {i \in DOMAIN p : p[i].kind = "br"}

\* _has_interior_layout_break.
InteriorBreak(p) ==
    \E b \in LayoutBreaks(p) : \E i, j \in WithText(p) : i < b /\ b < j

Editable(p) ==
    LET layout == Layout(p) IN
    /\ layout.at = "plain"
    /\ ~InteriorBreak(p)
    /\ \A k \in DOMAIN layout.links : TextOf(layout.links[k].items) # <<>>
    /\ WithText(p) # {}

\* validate_replacements: every hyperlink once, in order, none without text.
Acceptable(layout, r) ==
    /\ Len(r.links) = Len(layout.links)
    /\ \A k \in DOMAIN r.links : r.links[k] # <<>>
-----------------------------------------------------------------------------
(* _patch_paragraph                                                        *)

Place(p, id) == CHOOSE i \in DOMAIN p : p[i].id = id

\* _inline_elements.
Inline(value) == [i \in DOMAIN value |-> TextTag(<<value[i]>>)]

InsertedAt(p, i, tags) == SubSeq(p, 1, i - 1) \o tags \o SubSeq(p, i, Len(p))

\* _rewrite_items: written where the stretch starts; unchanged text is left alone.
Rewritten(p, items, value) ==
    LET first == Place(p, items[1].id)
        ids == {items[i].id : i \in DOMAIN items}
    IN  IF TextOf(items) = value THEN p
        ELSE SubSeq(p, 1, first - 1) \o Inline(value)
               \o SelectSeq(SubSeq(p, first + 1, Len(p)), LAMBDA t : t.id \notin ids)

PlainRun(value) == <<Tag("(")>> \o Inline(value) \o <<Tag(")")>>

\* Between two new runs that share what was one.
BetweenRuns(tags) == <<Tag(")")>> \o tags \o <<Tag("(")>>

\* Mutant: the new run goes before the run of the field character, whatever
\* that run holds in front of it.
RunBeforeWholeRun(p, id, value) ==
    LET at == Place(p, id)
        run == Max({i \in 1 .. at : p[i].kind \in {"(", "<"}})
    IN  IF value = <<>> THEN p ELSE InsertedAt(p, run, PlainRun(value))

\* _insert_plain_run before a hyperlink; _field_boundary_run splits a run that
\* holds something in front of the field character.
RunBefore(p, id, value) ==
    LET at == Place(p, id)
    IN  CASE value = <<>> -> p
          [] p[at].kind = "<" -> InsertedAt(p, at, PlainRun(value))
          [] p[at].kind # "<" /\ p[at - 1].kind = "(" -> InsertedAt(p, at - 1, PlainRun(value))
          [] OTHER -> InsertedAt(p, at, BetweenRuns(PlainRun(value)))

\* The same after the last hyperlink.
RunAfter(p, id, value) ==
    LET at == Place(p, id)
    IN  CASE value = <<>> -> p
          [] p[at].kind = ">" -> InsertedAt(p, at + 1, PlainRun(value))
          [] p[at].kind # ">" /\ p[at + 1].kind = ")" -> InsertedAt(p, at + 2, PlainRun(value))
          [] OTHER -> InsertedAt(p, at + 1, BetweenRuns(PlainRun(value)))

\* The stretches between the hyperlinks first, then the hyperlinks' own texts.
Patched(p, r) ==
    LET layout == Layout(p)
        n == Len(layout.links)
        stretch(q, k) ==
            CASE layout.plain[k] # <<>> -> Rewritten(q, layout.plain[k], r.plain[k])
              [] layout.plain[k] = <<>> /\ k <= n -> RunBefore(q, layout.links[k].start, r.plain[k])
              [] OTHER -> RunAfter(q, layout.links[n].end, r.plain[k])
        display(q, k) == Rewritten(q, layout.links[k].items, r.links[k])
    IN  FoldLeft(display, FoldLeft(stretch, p, [k \in 1 .. n + 1 |-> k]), [k \in 1 .. n |-> k])
-----------------------------------------------------------------------------
(* What a patched paragraph has to be.                                     *)

\* A later upload reads back the replacement.
ReadsBack(q, r) ==
    LET layout == Layout(q) IN
    /\ layout.at = "plain" /\ Len(layout.links) = Len(r.links)
    /\ \A k \in DOMAIN layout.plain : TextOf(layout.plain[k]) = r.plain[k]
    /\ \A k \in DOMAIN layout.links : TextOf(layout.links[k].items) = r.links[k]

\* Hyperlinks, field codes and breaks: all of them, in the same order.
Kept(p) == SelectSeq(p, LAMBDA t : t.kind \notin {"text", "(", ")"})

\* Runs enclose what belongs in runs, and nothing else.
WellFormed(q) ==
    LET depth(i) == Cardinality({j \in 1 .. i : q[j].kind = "("})
                      - Cardinality({j \in 1 .. i - 1 : q[j].kind = ")"})
        linked(i) == \E j \in 1 .. i : q[j].kind = "<" /\ \A k \in j .. i : q[k].kind # ">"
    IN  \A i \in DOMAIN q :
          IF q[i].kind \in {"<", ">"} \/ linked(i) THEN depth(i) = 0 ELSE depth(i) = 1

\* Tags known by their place.
Numbered(p) == [i \in DOMAIN p |-> [p[i] EXCEPT !.id = i]]

\* The places of the text of every stretch and every hyperlink.
TextPlaces(p) ==
    LET layout == Layout(Numbered(p))
        all == layout.plain \o [k \in DOMAIN layout.links |-> layout.links[k].items]
    IN  [k \in DOMAIN all |-> {all[k][i].id : i \in DOMAIN all[k]} \cap WithText(p)]

Side(b, places) ==
    CASE \A i \in places : b < i -> "before"
      [] \A i \in places : b > i -> "after"
      [] OTHER -> "inside"

\* A break stays on its side of every text that was and still is there.
BreaksStay(p, q) ==
    LET breaks(x) == SetToSortSeq(LayoutBreaks(x), <)
        old == TextPlaces(p)
        new == TextPlaces(q)
    IN  \A k \in DOMAIN old, m \in DOMAIN breaks(p) :
          old[k] # {} /\ new[k] # {} => Side(breaks(p)[m], old[k]) = Side(breaks(q)[m], new[k])

\* Paragraphs of a few pieces: text, text nodes without text, breaks, ends of
\* runs, hyperlinks, HYPERLINK fields in one run, in many, with a break behind
\* their text, and parts of fields that do not belong together.
Pieces ==
    LET x == <<TextTag(<<"x">>)>>
        br == <<Tag("br")>>
        newRun == BetweenRuns(<<>>)
        field(cut, last) ==
            <<Tag("begin")>> \o cut \o <<Tag("code")>> \o cut \o <<Tag("sep")>>
              \o x \o last \o <<Tag("end")>>
    IN  {x, <<TextTag(<<>>)>>, br, newRun, BetweenRuns(<<Tag("<")>> \o x \o <<Tag(">")>>),
         field(<<>>, <<>>), field(newRun, newRun), field(<<>>, br)}
          \cup {<<Tag(k)>> : k \in {"begin", "other", "sep", "end"}}

Paragraphs ==
    {Numbered(<<Tag("(")>> \o FlattenSeq(ps) \o <<Tag(")")>>) : ps \in BoundedSeq(Pieces, MaxPieces)}

\* A stretch keeps its text, gets another one or none; a hyperlink has one.
Replacements(layout) ==
    LET n == Len(layout.links)
        texts(items) == {TextOf(items), <<"y">>, <<>>}
    IN  {r \in [plain : [1 .. n + 1 -> {<<>>, <<"x">>, <<"x", "x">>, <<"y">>}],
               links : [1 .. n -> {<<"x">>, <<"y">>}]] :
           \A k \in 1 .. n + 1 : r.plain[k] \in texts(layout.plain[k])}
=============================================================================
